-------------------------------- MODULE Scan --------------------------------
(***************************************************************************)
(* The loops of select_execute, update_execute and delete_execute, one      *)
(* iteration at a time.  PageStore takes a query as one step on the rows    *)
(* that match; this module shows that the loops get there although an       *)
(* update and a delete write to the rows among which they walk.             *)
(***************************************************************************)
EXTENDS Cursor

CONSTANTS
  Schema,   \* the schema of the relation
  Chain     \* the numbers that its pages have, in the order of the links

ASSUME ScanAssumption ==
  /\ Schema \in Schemas
  /\ IsChain(Chain)
  /\ \A i, j \in DOMAIN Chain : i < j => Chain[i] < Chain[j]

VARIABLES
  pages,    \* the pages of the relation
  before,   \* what they were when the query began
  query,    \* its kind, the filter c = value and, for an update, set := new
  cursor,
  found,    \* the places of the rows that matched, in the order they were met
  looking   \* the loop has not ended

query_vars == <<pages, before, query, cursor, found, looking>>

-----------------------------------------------------------------------------

Filters == UNION {{c} \X Domain[c] : c \in Schema.columns}

Queries ==
  {[kind |-> kind, c |-> f[1], value |-> f[2]] : kind \in {"select", "delete"}, f \in Filters}
  \cup {[kind |-> "update", c |-> p[1][1], value |-> p[1][2], set |-> p[2][1], new |-> p[2][2]]
        : p \in {q \in Filters \X Filters : q[1][1] # q[2][1]}}

QueryInit ==
  /\ pages \in Files(Schema, Chain) /\ before = pages
  /\ query \in Queries
  /\ cursor = enter_page(pages, Schema, Chain[1])
  /\ found = <<>> /\ looking = TRUE

\* The condition of the loop: update_execute has < where the others have !=
more == IF query.kind = "update" THEN cursor.ptr < cursor.write_ptr
                                 ELSE cursor.ptr # cursor.write_ptr

Matching(q, r) == r.is_available /\ Matches(r.data, q.c, q.value)

\* What query q makes of a row that matches: update_query, row_remove
written(q, r) == CASE q.kind = "select" -> r
                   [] q.kind = "update" -> [r EXCEPT !.data[q.set] = q.new]
                   [] q.kind = "delete" -> [r EXCEPT !.is_available = FALSE]

\* One iteration of the loop of a query of this kind
Iterate(kind) ==
  LET row == RowUnder(pages, cursor)
      n == cursor.page_number IN
  /\ looking /\ query.kind = kind /\ more
  /\ IF Matching(query, row)
     THEN /\ pages' = [pages EXCEPT ![n].rows[cursor.ptr] = written(query, row)]
          /\ found' = Append(found, Place(cursor))
     ELSE UNCHANGED <<pages, found>>
  /\ cursor' = advance(pages, Schema, cursor)
  /\ UNCHANGED <<before, query, looking>>

select_execute == Iterate("select")
update_execute == Iterate("update")
delete_execute == Iterate("delete")

finish ==
  /\ looking /\ ~more
  /\ looking' = FALSE
  /\ UNCHANGED <<pages, before, query, cursor, found>>

QueryNext == select_execute \/ update_execute \/ delete_execute \/ finish

QuerySpec == QueryInit /\ [][QueryNext]_query_vars

-----------------------------------------------------------------------------

\* Rows in the order of the chain
Precedes(p, q) == p[1] < q[1] \/ (p[1] = q[1] /\ p[2] < q[2])

\* The rows that the query is about, as they were when it began
Wanted == {pl \in LivePlaces(before, Schema, Chain[1]) : Matching(query, RowAt(before, pl))}

\* The cursor is at a row or at the end of the page, and what it knows of the
\* page is still so.  This is why a loop that tests ptr != write_ptr ends.
CursorInv ==
  LET p == pages[cursor.page_number] IN
  /\ cursor.ptr \in RowOffsets(p, Schema) \cup {p.write_ptr}
  /\ cursor.write_ptr = p.write_ptr
  /\ cursor.next_page_number = p.next_page_number

\* At any time the loop has met, each once and in order, the rows that matched
\* before it began and lie before the cursor, and it has written those only: no
\* write of the loop makes it meet or miss another row.
LoopInv ==
  LET met == {found[i] : i \in DOMAIN found} IN
  /\ \A i, j \in DOMAIN found : i < j => Precedes(found[i], found[j])
  /\ met = {pl \in Wanted : Precedes(pl, Place(cursor))}
  /\ pages = Overwrite(before, [pl \in met |-> written(query, RowAt(before, pl))])

\* A query that ends has met every row that matches: it did to the pages what
\* PageStore says it does in one step.
ResultInv ==
  ~looking => /\ {found[i] : i \in DOMAIN found} = Wanted
              /\ pages = Overwrite(before, [pl \in Wanted |-> written(query, RowAt(before, pl))])

\* A query on an INTEGER that has ended met exactly the live rows whose value
\* agrees with its own modulo 256, and none if a char cannot hold its value, over
\* all pages: the other three bytes that integer_compare leaves out never count.
ByLowByte ==
  ~looking =>
    {found[i] : i \in DOMAIN found} =
      {pl \in LivePlaces(before, Schema, Chain[1]) :
         /\ query.value \in -128 .. 127
         /\ (RowAt(before, pl).data[query.c] - query.value) % 256 = 0}

\* Every query ends.
Terminates == <>(~looking)
=============================================================================
