-------------------------------- MODULE Join --------------------------------
(***************************************************************************)
(* query_join: a loop over the left relation that calls query_join_attempt, *)
(* a loop over the right one, for every row of the left that is not deleted. *)
(* One action per iteration of either loop, behind query_join_execute, which *)
(* looks the two columns up.                                               *)
(***************************************************************************)
EXTENDS Cursor

CONSTANTS
  Left, Right,             \* the schemas of the two relations
  LeftChain, RightChain,   \* the numbers that their pages have; they are the same
                           \* when a relation is joined with itself
  Equal(_, _)              \* the query_join_compare of the type

ASSUME JoinAssumption ==
  /\ Left \in Schemas /\ Right \in Schemas
  /\ IsChain(LeftChain) /\ IsChain(RightChain)
  /\ \A i \in DOMAIN LeftChain, j \in DOMAIN RightChain :
       LeftChain[i] = RightChain[j] => Left = Right /\ LeftChain = RightChain

VARIABLES
  left, right,   \* the pages of the relations
  on,            \* struct query_join: left_column and right_column
  outer,         \* the cursor of query_join
  inner,         \* the cursor of query_join_attempt
  at,            \* "lookup", the loop that runs, or "done"
  output,        \* the pairs <<place on the left, place on the right>> put out
  joined         \* result_count

join_vars == <<left, right, on, outer, inner, at, output, joined>>

JoinInit ==
  /\ left \in Files(Left, LeftChain)
  /\ right \in IF LeftChain = RightChain THEN {left} ELSE Files(Right, RightChain)
  /\ on \in [left_column : Column, right_column : Column]
  /\ outer = enter_page(left, Left, LeftChain[1])
  /\ inner = enter_page(right, Right, RightChain[1])
  /\ at = "lookup" /\ output = {} /\ joined = 0

Present == on.left_column \in Left.columns /\ on.right_column \in Right.columns

\* "Couldn't complete query, attributes not present" goes to stdout only.  The
\* search follows next from column to column: it was read from the file and is an
\* address in the process that created the relation, which is this one.
query_join_execute ==
  /\ at = "lookup"
  /\ at' = IF Present THEN "outer" ELSE "done"
  /\ UNCHANGED <<left, right, on, outer, inner, output, joined>>

LeftRow == RowUnder(left, outer)
RightRow == RowUnder(right, inner)

\* The rest of the outer loop's iteration
advance_left == outer' = advance(left, Left, outer)

\* A row of the left relation: deleted, or one to attempt
query_join ==
  /\ at = "outer" /\ outer.ptr # outer.write_ptr
  /\ IF LeftRow.is_available
     THEN /\ at' = "inner" /\ inner' = enter_page(right, Right, RightChain[1])
          /\ UNCHANGED outer
     ELSE advance_left /\ UNCHANGED <<at, inner>>
  /\ UNCHANGED <<left, right, on, output, joined>>

query_join_end ==
  /\ at = "outer" /\ outer.ptr = outer.write_ptr
  /\ at' = "done"
  /\ UNCHANGED <<left, right, on, outer, inner, output, joined>>

\* query_join_attempt returns; query_join counts the row of the left
return == at' = "outer" /\ joined' = joined + 1 /\ advance_left

\* integer_query_join_compare and query_join_output
compare_and_output ==
  output' = IF Equal(LeftRow.data[on.left_column], RightRow.data[on.right_column])
            THEN output \cup {<<Place(outer), Place(inner)>>} ELSE output

query_join_attempt_deleted_too ==
  /\ at = "inner" /\ inner.ptr # inner.write_ptr
  /\ compare_and_output
  /\ return
  /\ UNCHANGED <<left, right, on, inner>>

\* The first row of the right relation that is not deleted ends the attempt,
\* whether the two compare equal or not
query_join_attempt ==
  /\ at = "inner" /\ inner.ptr # inner.write_ptr
  /\ IF RightRow.is_available
     THEN compare_and_output /\ return /\ UNCHANGED inner
     ELSE inner' = advance(right, Right, inner) /\ UNCHANGED <<outer, at, output, joined>>
  /\ UNCHANGED <<left, right, on>>

query_join_attempt_end ==
  /\ at = "inner" /\ inner.ptr = inner.write_ptr
  /\ return
  /\ UNCHANGED <<left, right, on, inner, output>>

JoinNext ==
  query_join_execute \/ query_join \/ query_join_end \/ query_join_attempt \/ query_join_attempt_end

JoinSpec == JoinInit /\ [][JoinNext]_join_vars

-----------------------------------------------------------------------------

LiveLeft == LivePlaces(left, Left, LeftChain[1])
LiveRight == LivePlaces(right, Right, RightChain[1])

Value(pages, pl, c) == RowAt(pages, pl).data[c]

Pairs ==
  {p \in LiveLeft \X LiveRight :
     Present /\ Equal(Value(left, p[1], on.left_column), Value(right, p[2], on.right_column))}

\* What is put out is a pair of the join, a row of the left in at most one, and
\* the number reported is that of the rows on the left, joined or not: no
\* deleted row of either relation is ever part of it.  A join on a column that
\* one relation has not puts out nothing.
JoinSound ==
  /\ output \subseteq Pairs
  /\ \A p, q \in output : p[1] = q[1] => p = q
  /\ at = "done" => joined = IF Present THEN Cardinality(LiveLeft) ELSE 0

\* The join ends.
JoinTerminates == <>(at = "done")

\* The commented-out loop body of query_join_attempt went on to the next row of
\* the right relation unless the two rows were equal: a row of the left that
\* has a match is then in the result.
JoinComplete ==
  at = "done" => \A p \in Pairs : \E q \in output : q[1] = p[1]
=============================================================================
