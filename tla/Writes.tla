------------------------------- MODULE Writes -------------------------------
(***************************************************************************)
(* The single writes of an operation, and a kill between any two of them.    *)
(* The library calls fwrite on a FILE and never fflush: stdio writes what it  *)
(* holds at the next fseek, and the operating system keeps what was written   *)
(* when the process is killed.  PageStore takes an operation as one step;     *)
(* here that step is followed by the writes that it consists of, in the order *)
(* of the code, and after a kill the program that opens the file again sees   *)
(* what has got there.                                                     *)
(*                                                                         *)
(* The file is a function from cells to values; a cell is what one fwrite     *)
(* writes: the database header, the header of page 1, a slot, the header of a *)
(* page, the size of its columns, its columns, a row header, the data of a row. *)
(***************************************************************************)
EXTENDS PageStore, SequencesExt

CONSTANT MaxRows    \* bound: no row is inserted into a file with MaxRows rows

VARIABLES
  cells,     \* the file: [cells -> values]
  writes,    \* the writes of the last operation that are not in the file, in order
  issued,    \* how many of them the program has made: stdio holds these
  torn,      \* the numbers of missing writes that leave the file damaged
  before,    \* pages as they were before the last operation that writes (history)
  damaged    \* a kill has left a file on which operations are not defined

io == <<cells, writes, issued, torn, before, damaged>>
all == <<vars, io>>

-----------------------------------------------------------------------------
(* What is in the file *)

\* The file f when the writes of a sequence have got there, the later over the earlier
Apply(f, sequence) ==
  [c \in DOMAIN f \cup {sequence[i].cell : i \in DOMAIN sequence} |->
     LET here == {i \in DOMAIN sequence : sequence[i].cell = c} IN
     IF here = {} THEN f[c] ELSE sequence[Max(here)].value]

HeaderOf(p) ==
  [field \in {"page_number", "relation_name", "write_ptr", "remaining_space", "next_page_number"}
     |-> p[field]]

PageOf(f, n) ==
  LET header == f[<<"page", n>>]
      written == {o \in 0 .. header.write_ptr - 1 :
                    <<"row", n, o>> \in DOMAIN f /\ <<"data", n, o>> \in DOMAIN f} IN
  [page_number |-> header.page_number, relation_name |-> header.relation_name,
   write_ptr |-> header.write_ptr, remaining_space |-> header.remaining_space,
   next_page_number |-> header.next_page_number,
   columns |-> IF <<"columns", n>> \in DOMAIN f THEN f[<<"columns", n>>] ELSE {},
   rows |-> [o \in written |-> [is_available |-> f[<<"row", n, o>>], data |-> f[<<"data", n, o>>]]]]

DatabaseOf(f) == IF <<"database">> \in DOMAIN f THEN f[<<"database">>] ELSE NoFile
CatalogOf(f) == [i \in 1 .. DatabaseOf(f).relation_count |-> f[<<"slot", i>>]]
PagesOf(f) == [n \in {m \in PageNo : <<"page", m>> \in DOMAIN f} |-> PageOf(f, n)]

-----------------------------------------------------------------------------
(* The writes of each operation.  Most follow an fseek. *)

AfterSeek(cell, value) == [cell |-> cell, value |-> value, fseek |-> TRUE]

Write(cell, value)  == <<AfterSeek(cell, value)>>
Behind(cell, value) == <<[cell |-> cell, value |-> value, fseek |-> FALSE]>>

database_save_to_file(header) ==
  Write(<<"database">>, header) \o Behind(<<"real">>, 0)

database_header_save_changes(header) == Write(<<"database">>, header)

\* Slots are filled by the write_ptr of page 1, here the number of slots in use
page_header_write_real(f, header) ==
  Write(<<"slot", f[<<"real">>] + 1>>, header) \o Write(<<"real">>, f[<<"real">>] + 1)

relation_page_write(page) ==
  Write(<<"page", page.page_number>>, HeaderOf(page))
    \o Write(<<"size", page.page_number>>, Cardinality(page.columns))
    \o Write(<<"columns", page.page_number>>, page.columns)

relation_create_writes(f, r, schema) ==
  LET n == mem.page_count + 1
      count == mem.relation_count + 1
      header == [page_add(NewHeader(r, schema), n) EXCEPT !.real_number = count] IN
  page_header_write_real(f, header)
    \o database_header_save_changes([relation_count |-> count, page_count |-> n])
    \o relation_page_write(columns_write(page_create(n, r), schema.columns))

row_writes_header_first(page, schema, data) ==
  LET n == page.page_number IN
  Write(<<"page", n>>, HeaderOf(row_write(page, schema, data)))
    \o Write(<<"row", n, page.write_ptr>>, TRUE) \o Write(<<"data", n, page.write_ptr>>, data)

\* The row, then the header of the page that counts it
row_writes(page, schema, data) ==
  LET n == page.page_number IN
  Write(<<"row", n, page.write_ptr>>, TRUE) \o Write(<<"data", n, page.write_ptr>>, data)
    \o Write(<<"page", n>>, HeaderOf(row_write(page, schema, data)))

header_saves_last_slot(header) == Write(<<"slot", mem.relation_count>>, header)
header_saves(header) == Write(<<"slot", header.real_number>>, header)

page_add_writes_unsaved(r, n) ==
  LET last == handle[r].page_number_last IN
  Write(<<"page", last>>, [HeaderOf(pages[last]) EXCEPT !.next_page_number = n])
    \o database_header_save_changes([mem EXCEPT !.page_count = n])

page_add_writes(r, n) ==
  LET last == handle[r].page_number_last IN
  Write(<<"page", last>>, [HeaderOf(pages[last]) EXCEPT !.next_page_number = n])
    \o header_saves(page_add(handle[r], n))
    \o database_header_save_changes([mem EXCEPT !.page_count = n])

\* The header and the columns of the new page go out with one fseek
row_write_to_page_writes(r, data) ==
  LET n == mem.page_count + 1
      page == columns_write(page_create(n, handle[r].name), LastPage(r).columns) IN
  page_add_writes(r, n)
    \o Write(<<"page", n>>, HeaderOf(page)) \o Behind(<<"size", n>>, Cardinality(page.columns))
    \o Behind(<<"columns", n>>, page.columns)
    \o row_writes(page, Schema(r), data)

\* One write for each row that a loop meets, in the order of the pages
Precedes(p, q) == p[1] < q[1] \/ (p[1] = q[1] /\ p[2] < q[2])

InOrder(places) ==
  CHOOSE s \in [1 .. Cardinality(places) -> places] :
    \A i, j \in DOMAIN s : i < j => Precedes(s[i], s[j])

row_remove_writes(places) ==
  LET sorted == InOrder(places) IN
  [i \in DOMAIN sorted |-> AfterSeek(<<"row", sorted[i][1], sorted[i][2]>>, FALSE)]

update_query_writes_deleting(places, set, new) ==
  LET sorted == InOrder(places) IN
  row_remove_writes(places)
    \o [i \in DOMAIN sorted |->
          AfterSeek(<<"data", sorted[i][1], sorted[i][2]>>,
                    [RowAt(pages, sorted[i]).data EXCEPT ![set] = new])]
    \o [i \in DOMAIN sorted |-> AfterSeek(<<"row", sorted[i][1], sorted[i][2]>>, TRUE)]

update_query_writes(places, set, new) ==
  LET sorted == InOrder(places) IN
  [i \in DOMAIN sorted |->
     AfterSeek(<<"data", sorted[i][1], sorted[i][2]>>,
               [RowAt(pages, sorted[i]).data EXCEPT ![set] = new])]

-----------------------------------------------------------------------------
(* The program *)

\* stdio writes what it holds when the program calls fseek
fseek(held) == cells' = Apply(cells, held)

AtRest == issued = Len(writes) /\ ~ damaged

\* An operation begins with an fseek and a read, and has writes to make
Begin(sequence, missing) ==
  /\ fseek(writes)
  /\ writes' = sequence /\ issued' = 0
  /\ torn' = missing /\ before' = pages
  /\ UNCHANGED damaged

\* An operation that only reads, or fclose
Flush == Begin(<<>>, {})

\* "wb+": nothing of the old file is left.  A database header without the header
\* of page 1 is of no use.
create_file ==
  /\ database_create_in_file
  /\ issued = Len(writes)
  /\ cells' = EmptyMap
  /\ writes' = database_save_to_file([relation_count |-> 0, page_count |-> 1])
  /\ issued' = 0 /\ torn' = {1} /\ before' = pages /\ damaged' = FALSE

\* From the header of page 1 to the columns of the new page
create(r, schema) ==
  /\ relation_create(r, schema)
  /\ Begin(relation_create_writes(Apply(cells, writes), r, schema), 1 .. 4)

RowCount == Cardinality(UNION {{n} \X DOMAIN pages[n].rows : n \in DOMAIN pages})

insert(r, data) ==
  /\ RowCount < MaxRows
  /\ row_insert(r, data)
  /\ Begin(row_writes(LastPage(r), Schema(r), data), {})

\* From the link to the columns of the new page
insert_new_page(r, data) ==
  /\ RowCount < MaxRows
  /\ row_insert_new_page(r, data)
  /\ Begin(row_write_to_page_writes(r, data), 4 .. 8)

update(r, c, value, set, new) ==
  /\ row_update(r, c, value, set, new)
  /\ Begin(update_query_writes(Hits(r, c, value), set, new), {})

delete(r, c, value) ==
  /\ row_delete(r, c, value)
  /\ Begin(row_remove_writes(Hits(r, c, value)), {})

session ==
  \/ database_get_from_file /\ Flush
  \/ database_close /\ Flush
  \/ \E r \in Rel : \/ relation_get(r) /\ Flush
                    \/ relation_close(r) /\ UNCHANGED io

fwrite ==
  /\ issued < Len(writes)
  /\ IF writes[issued + 1].fseek
     THEN /\ fseek(SubSeq(writes, 1, issued))
          /\ writes' = SubSeq(writes, issued + 1, Len(writes)) /\ issued' = 1
     ELSE issued' = issued + 1 /\ UNCHANGED <<cells, writes>>
  /\ UNCHANGED <<vars, torn, before, damaged>>

\* The process ends without exit: the file has what was in it and a beginning
\* of what stdio held.  The program that is started next sees this.
kill ==
  /\ opened /\ opened' = FALSE /\ mem' = NoFile /\ handle' = EmptyMap /\ indexed' = {}
  /\ reply' = Reply(<<"kill">>, "none", NoRows)
  /\ writes' = <<>> /\ issued' = 0 /\ torn' = {}
  /\ \E k \in 0 .. issued : LET f == Apply(cells, SubSeq(writes, 1, k)) IN
       /\ cells' = f
       /\ disk' = DatabaseOf(f) /\ catalog' = CatalogOf(f) /\ pages' = PagesOf(f)
       /\ damaged' = (Len(writes) - k \in torn)
       /\ before' = pages'

-----------------------------------------------------------------------------

WritesInit ==
  /\ Init
  /\ cells = EmptyMap /\ writes = <<>> /\ issued = 0 /\ torn = {}
  /\ before = EmptyMap /\ damaged = FALSE

\* An operation begins when the one before it has made its writes
operation ==
  /\ AtRest
  /\ \/ session
     \/ \E r \in Rel, schema \in Schemas : create(r, schema)
     \/ \E r \in DOMAIN handle :
          \/ \E data \in Data(Schema(r)) : insert(r, data) \/ insert_new_page(r, data)
          \/ \E c \in Column : \E value \in Domain[c] :
               \/ delete(r, c, value)
               \/ \E set \in Column : \E new \in Domain[set] : update(r, c, value, set, new)

WritesNext == fwrite \/ kill \/ create_file \/ operation

WritesSpec == WritesInit /\ [][WritesNext]_all

-----------------------------------------------------------------------------

\* The writes of each operation add up to what PageStore does in one step: what
\* the program would read back, from the file and from stdio, is that.
WrittenInv ==
  issued = Len(writes) =>
    LET f == Apply(cells, writes) IN
    disk = DatabaseOf(f) /\ catalog = CatalogOf(f) /\ pages = PagesOf(f)

\* A kill between operations, in an insert into a page with room, in an update or
\* a delete leaves a file that is as whole as ever, and so does every sequence of
\* operations and such kills: chains, space, catalog and what a scan reaches.  In
\* a create and an insert that adds a page some moments do as well.
WholeInv == ~ damaged => CatalogInv /\ ChainInv /\ SpaceInv /\ RowsInv /\ ScanInv

Row_(p, n, o) == IF n \in DOMAIN p /\ o \in DOMAIN p[n].rows THEN <<p[n].rows[o]>> ELSE <<>>

\* A kill loses at most the last operation, row by row: each row is what it was
\* before it or after it.  What was answered before, or is read or closed since,
\* stays, at every moment of every operation.
KillLosesLast ==
  [][kill => \A n \in PageNo : \A o \in 0 .. PageSize :
       Row_(pages', n, o) \in {Row_(before, n, o), Row_(pages, n, o)}]_all

\* The pages of a relation are as they have to be
RelationWhole(h) ==
  LET owned == {n \in DOMAIN pages : Owner(n) = h.name} IN
  /\ {h.page_number_first, h.page_number_last} \subseteq owned
  /\ h.page_count = Cardinality(owned)
  /\ \A n \in owned : /\ InChain(n, h) /\ PageFilled(pages[n], h.schema)
                      /\ DOMAIN pages[n].rows = RowOffsets(pages[n], h.schema)

\* At the other moments one relation is damaged, and no other.
ConfinedInv ==
  damaged =>
    /\ \A i \in DOMAIN catalog : catalog[i].real_number = i
    /\ \A i, j \in DOMAIN catalog :
         i = j \/ RelationWhole(catalog[i]) \/ RelationWhole(catalog[j])
=============================================================================
