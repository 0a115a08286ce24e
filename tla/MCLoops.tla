------------------------------ MODULE MCLoops ------------------------------
(***************************************************************************)
(* Queries and joins: one thread runs either a query or a join.  The other   *)
(* loop of an initial state is at its end, over a file without live rows.    *)
(***************************************************************************)
EXTENDS Scan, Join, TypeOps

Emptied(schema, chain) ==
  CHOOSE f \in Files(schema, <<chain[1]>>) : LivePlaces(f, schema, chain[1]) = {}

QueryIdle ==
  /\ pages = Emptied(Schema, Chain) /\ before = pages
  /\ query = CHOOSE q \in Queries : q.kind = "select"
  /\ cursor = enter_page(pages, Schema, Chain[1])
  /\ found = <<>> /\ looking = FALSE

JoinIdle ==
  /\ left = Emptied(Left, LeftChain) /\ right = Emptied(Right, RightChain)
  /\ on = [left_column |-> "id", right_column |-> "id"]
  /\ outer = enter_page(left, Left, LeftChain[1])
  /\ inner = enter_page(right, Right, RightChain[1])
  /\ at = "done" /\ output = {} /\ joined = 0

LoopsInit == (QueryInit /\ JoinIdle) \/ (JoinInit /\ QueryIdle)

LoopsNext == (QueryNext /\ UNCHANGED join_vars) \/ (JoinNext /\ UNCHANGED query_vars)

loop_vars == <<query_vars, join_vars>>

\* The loops are straight-line code of the only thread: nothing keeps it from
\* the next iteration
LoopsSpec == LoopsInit /\ [][LoopsNext]_loop_vars /\ WF_loop_vars(LoopsNext)

-----------------------------------------------------------------------------

MCColumn == {"a", "b", "id"}

\* integer_compare takes the 300 in column b for a 44
MCDomain == [a |-> {1}, b |-> {44, 300}, id |-> {44, 45}]

\* On a page of 10 bytes: 2 rows of 3 bytes behind 4 bytes of header and columns
MCSchema == [columns |-> {"a", "b"}, length |-> 2]

\* For joins one row on a page: the next row is always on another page
MCLeft == [columns |-> {"id"}, length |-> 5]
MCRight == [columns |-> {"a", "id"}, length |-> 5]

MCSchemas == {MCSchema, MCLeft, MCRight}

\* Pages 2 and 4: page 3 is of another relation
MCChain == <<2, 4, 5>>
MCLeftChain == <<2, 4>>
MCRightChain == <<3, 6, 7>>

MCCompare(c, stored, value) == integer_compare(stored, value)
MCEqual(stored, other) == integer_query_join_compare(stored, other)
=============================================================================
