------------------------------ MODULE PageStore ------------------------------
(***************************************************************************)
(* The storage library of server_side/src: the data file, what the program  *)
(* keeps of it in memory, and one action per operation of the library.  An  *)
(* operation runs to its end before the next begins (the library has no     *)
(* threads and its only caller handles one request at a time).             *)
(*                                                                         *)
(* The file is disk (the database header), catalog (the relation headers in *)
(* the order of their slots on page 1) and pages (all other pages).  In     *)
(* memory are mem, the copy of the database header that the operations      *)
(* change first, and handle, the relation header of each relation that is   *)
(* open.  A relation has at most one open handle, as in the server, where a *)
(* request that changes a relation opens it anew and is the only one.      *)
(***************************************************************************)
EXTENDS Layout, Sequences

CONSTANT MaxPages    \* bound: the file does not grow beyond MaxPages pages

ASSUME MaxPagesAssumption == MaxPages \in Nat \ {0}

VARIABLES
  opened,    \* the program has the file open
  mem,       \* struct database_header in memory
  disk,      \* struct database_header in the file
  catalog,   \* the relation headers on page 1
  pages,     \* [page numbers -> pages]: the pages of the relations
  handle,    \* [names -> relation headers in memory]
  indexed,   \* the open relations whose columns were read as an array
  reply      \* the last request, what was answered and the rows that it met

vars == <<opened, mem, disk, catalog, pages, handle, indexed, reply>>
file == <<disk, catalog, pages>>

NoFile == [relation_count |-> 0, page_count |-> 0]   \* there is no data file

NoRows == {}
Reply(request, answer, rows) == [request |-> request, answer |-> answer, rows |-> rows]

Schema(r) == handle[r].schema

\* relation_read_columns: the columns of an open relation are those that its
\* first page names.  relation_get and attribute_add read them into an array.
\* The handle that relation_create returns has the list that schema_create
\* built, which the lookups of a query would index as an array past its first
\* node: undefined behaviour that no caller meets, so a query needs `indexed`.
relation_read_columns(r) == pages[handle[r].page_number_first].columns

-----------------------------------------------------------------------------
(* The database file *)

Init ==
  /\ opened = FALSE
  /\ mem = NoFile /\ disk = NoFile
  /\ catalog = <<>> /\ pages = EmptyMap /\ handle = EmptyMap
  /\ indexed = {}
  /\ reply = Reply(<<>>, "none", NoRows)

\* Open with "wb+": what the file held is gone, page 1 is written
database_create_in_file ==
  /\ ~opened
  /\ opened' = TRUE
  /\ mem' = [relation_count |-> 0, page_count |-> 1]
  /\ disk' = mem'
  /\ catalog' = <<>> /\ pages' = EmptyMap
  /\ reply' = Reply(<<"create_file">>, "opened", NoRows)
  /\ UNCHANGED <<handle, indexed>>

\* Open with "rb+": fails when there is no file
database_get_from_file ==
  /\ ~opened
  /\ IF disk = NoFile
     THEN UNCHANGED <<opened, mem>> /\ reply' = Reply(<<"open">>, "no_file", NoRows)
     ELSE opened' = TRUE /\ mem' = disk /\ reply' = Reply(<<"open">>, "opened", NoRows)
  /\ UNCHANGED <<file, handle, indexed>>

\* The handles point to the database: they are closed before it
database_close ==
  /\ opened /\ DOMAIN handle = {}
  /\ opened' = FALSE /\ mem' = NoFile
  /\ reply' = Reply(<<"close">>, "closed", NoRows)
  /\ UNCHANGED <<file, handle, indexed>>

-----------------------------------------------------------------------------
(* Relations *)

\* The slots that is_relation_present compares with the name: as many as the
\* database header in memory counts
SlotsButLast(name) == {i \in 1 .. mem.relation_count - 1 : catalog[i].name = name}
Slots(name) == {i \in 1 .. mem.relation_count : catalog[i].name = name}

\* page_add on the relation header: n is the number of the new page
page_add_uncounted(header, n) ==
  [header EXCEPT !.page_number_first = IF header.page_number_last = 0 THEN n ELSE @,
                 !.page_number_last = n]
page_add_last_kept(header, n) ==
  [header EXCEPT !.page_count = @ + 1,
                 !.page_number_first = IF header.page_number_last = 0 THEN n ELSE @,
                 !.page_number_last = IF header.page_number_last = 0 THEN n ELSE @]
page_add(header, n) ==
  [header EXCEPT !.page_count = @ + 1,
                 !.page_number_first = IF header.page_number_last = 0 THEN n ELSE @,
                 !.page_number_last = n]

NewHeader(name, schema) ==
  [name |-> name, schema |-> schema, page_number_first |-> 0,
   page_number_last |-> 0, page_count |-> 0, real_number |-> 0]

relation_create(r, schema) ==
  LET n == mem.page_count + 1
      header == [page_add(NewHeader(r, schema), n)
                   EXCEPT !.real_number = mem.relation_count + 1] IN
  /\ opened
  /\ Slots(r) = {}
  /\ Len(catalog) < CatalogSlots /\ mem.page_count < MaxPages
  /\ mem' = [relation_count |-> mem.relation_count + 1, page_count |-> n]
  /\ catalog' = Append(catalog, header)
  /\ disk' = mem'
  /\ pages' = Put(pages, n, columns_write(page_create(n, r), schema.columns))
  /\ handle' = Put(handle, r, header)
  /\ reply' = Reply(<<"create", r, schema>>, "created", NoRows)
  /\ UNCHANGED <<opened, indexed>>

\* Can't create two relations with the same name
relation_create_again(r, schema) ==
  /\ opened
  /\ Slots(r) # {}
  /\ reply' = Reply(<<"create", r, schema>>, "exists", NoRows)
  /\ UNCHANGED <<opened, mem, file, handle, indexed>>

relation_get(r) ==
  /\ opened /\ r \notin DOMAIN handle
  /\ IF Slots(r) = {}
     THEN UNCHANGED <<handle, indexed>> /\ reply' = Reply(<<"get", r>>, "missing", NoRows)
     ELSE /\ \E i \in Slots(r) : /\ \A j \in Slots(r) : i <= j
                                 /\ handle' = Put(handle, r, catalog[i])
          /\ indexed' = indexed \cup {r}
          /\ reply' = Reply(<<"get", r>>, "got", NoRows)
  /\ UNCHANGED <<opened, mem, file>>

relation_close(r) ==
  /\ r \in DOMAIN handle
  /\ handle' = [q \in DOMAIN handle \ {r} |-> handle[q]]
  /\ indexed' = indexed \ {r}
  /\ reply' = Reply(<<"close", r>>, "closed", NoRows)
  /\ UNCHANGED <<opened, mem, file>>

-----------------------------------------------------------------------------
(* Rows *)

\* The link from the page that was the last to the new one
file_update_last_page(old, new) == [pages EXCEPT ![old].next_page_number = new]

\* The relation header goes to the slot that it knows
relation_header_save_changes_lost(header) == catalog
relation_header_save_changes(header) == [catalog EXCEPT ![header.real_number] = header]

LastPage(r) == pages[handle[r].page_number_last]

row_insert_reuses(r, data) ==
  LET last == handle[r].page_number_last
      free == {o \in DOMAIN LastPage(r).rows : ~LastPage(r).rows[o].is_available} IN
  /\ is_enough_space(LastPage(r), RowSize(Schema(r)))
  /\ pages' = IF free = {}
              THEN [pages EXCEPT ![last] = row_write(@, Schema(r), data)]
              ELSE [pages EXCEPT ![last].rows[CHOOSE o \in free : TRUE] =
                      [is_available |-> TRUE, data |-> data]]
  /\ indexed' = indexed \cup {r}
  /\ reply' = Reply(<<"insert", r, data>>, "inserted", NoRows)
  /\ UNCHANGED <<opened, mem, disk, catalog, handle>>

\* attribute_add for every column, which reads the columns, then row_insert, when
\* the last page of the relation has room for the row
row_insert(r, data) ==
  LET last == handle[r].page_number_last IN
  /\ is_enough_space(LastPage(r), RowSize(Schema(r)))
  /\ pages' = [pages EXCEPT ![last] = row_write(@, Schema(r), data)]
  /\ indexed' = indexed \cup {r}
  /\ reply' = Reply(<<"insert", r, data>>, "inserted", NoRows)
  /\ UNCHANGED <<opened, mem, disk, catalog, handle>>

\* row_insert when it has not: page_add links a new page behind the last one
\* and saves both headers, the columns of the old page are copied, the row is
\* written to the new page without another look at the room it has
row_insert_new_page(r, data) ==
  LET last == handle[r].page_number_last
      n == mem.page_count + 1
      header == page_add(handle[r], n)
      fresh == columns_write(page_create(n, header.name), LastPage(r).columns) IN
  /\ ~is_enough_space(LastPage(r), RowSize(Schema(r)))
  /\ mem.page_count < MaxPages
  /\ mem' = [mem EXCEPT !.page_count = n]
  /\ handle' = [handle EXCEPT ![r] = header]
  /\ catalog' = relation_header_save_changes(header)
  /\ disk' = mem'
  /\ pages' = Put(file_update_last_page(last, n), n, row_write(fresh, Schema(r), data))
  /\ indexed' = indexed \cup {r}
  /\ reply' = Reply(<<"insert", r, data>>, "inserted", NoRows)
  /\ UNCHANGED opened

Hits_by_number(r, c, value) ==
  {pl \in UNION {LivePlaces(pages, Schema(r), n) :
                   n \in {m \in DOMAIN pages : /\ m >= handle[r].page_number_first
                                              /\ pages[m].columns = Schema(r).columns}} :
     Matches(RowAt(pages, pl).data, c, value)}

\* What a scan of r finds for the filter c = value
Hits(r, c, value) ==
  {pl \in LivePlaces(pages, Schema(r), handle[r].page_number_first) :
     Matches(RowAt(pages, pl).data, c, value)}

RowsOf(places) == {<<pl, RowAt(pages, pl).data>> : pl \in places}

row_select(r, c, value) ==
  /\ r \in indexed /\ c \in relation_read_columns(r)
  /\ reply' = Reply(<<"select", r, c, value>>, "selected", RowsOf(Hits(r, c, value)))
  /\ UNCHANGED <<opened, mem, file, handle, indexed>>

row_update_swapped(r, c, value, set, new) ==
  LET hits == Hits(r, set, new) IN
  /\ r \in indexed /\ {c, set} \subseteq relation_read_columns(r) /\ c # set
  /\ pages' = Overwrite(pages,
       [pl \in hits |-> [RowAt(pages, pl) EXCEPT !.data[c] = value]])
  /\ reply' = Reply(<<"update", r, c, value, set, new>>, "updated", RowsOf(hits))
  /\ UNCHANGED <<opened, mem, disk, catalog, handle, indexed>>

\* The loop that looks the two columns up never takes one column for both
row_update(r, c, value, set, new) ==
  LET hits == Hits(r, c, value) IN
  /\ r \in indexed /\ {c, set} \subseteq relation_read_columns(r) /\ c # set
  /\ pages' = Overwrite(pages,
       [pl \in hits |-> [RowAt(pages, pl) EXCEPT !.data[set] = new]])
  /\ reply' = Reply(<<"update", r, c, value, set, new>>, "updated", RowsOf(hits))
  /\ UNCHANGED <<opened, mem, disk, catalog, handle, indexed>>

\* row_remove leaves the data and clears is_available
row_delete(r, c, value) ==
  LET hits == Hits(r, c, value) IN
  /\ r \in indexed /\ c \in relation_read_columns(r)
  /\ pages' = Overwrite(pages,
       [pl \in hits |-> [RowAt(pages, pl) EXCEPT !.is_available = FALSE]])
  /\ reply' = Reply(<<"delete", r, c, value>>, "deleted", RowsOf(hits))
  /\ UNCHANGED <<opened, mem, disk, catalog, handle, indexed>>

\* "Attribute is not present": of a select or delete on c, or of an update
\* that filters on c and sets column set
no_attribute(r, c, set) ==
  /\ r \in indexed
  /\ \/ c \notin relation_read_columns(r)
     \/ set \notin relation_read_columns(r)
     \/ c = set
  /\ reply' = Reply(<<"query", r, c, set>>, "no_attribute", NoRows)
  /\ UNCHANGED <<opened, mem, file, handle, indexed>>

-----------------------------------------------------------------------------

Next ==
  \/ database_create_in_file \/ database_get_from_file \/ database_close
  \/ \E r \in Rel :
       \/ \E schema \in Schemas : relation_create(r, schema) \/ relation_create_again(r, schema)
       \/ relation_get(r) \/ relation_close(r)
  \/ \E r \in DOMAIN handle :
       \/ \E data \in Data(Schema(r)) : row_insert(r, data) \/ row_insert_new_page(r, data)
       \/ \E c, set \in Column :
            \/ no_attribute(r, c, set)
            \/ \E value \in Domain[c] :
                 \/ row_select(r, c, value)
                 \/ row_delete(r, c, value)
                 \/ \E new \in Domain[set] : row_update(r, c, value, set, new)

Spec == Init /\ [][Next]_vars

-----------------------------------------------------------------------------
(* Types *)

PageNo == 2 .. MaxPages

Answers == {"none", "opened", "no_file", "closed", "created", "exists", "got",
            "missing", "inserted", "selected", "updated", "deleted", "no_attribute"}

Header == [name : Rel, schema : Schemas, page_number_first : PageNo,
           page_number_last : PageNo, page_count : Nat, real_number : Nat]

Row(schema) == [is_available : BOOLEAN, data : Data(schema)]

IsPage(p) ==
  /\ DOMAIN p = {"page_number", "relation_name", "write_ptr", "remaining_space",
                 "next_page_number", "columns", "rows"}
  /\ p.page_number \in PageNo /\ p.relation_name \in Rel
  /\ p.write_ptr \in 0 .. PageSize /\ p.remaining_space \in 0 .. PageSize
  /\ p.next_page_number \in PageNo \cup {0}
  /\ \E schema \in Schemas : /\ p.columns = schema.columns
                             /\ p.rows \in [DOMAIN p.rows -> Row(schema)]
  /\ DOMAIN p.rows \subseteq 0 .. PageSize

DbHeader == [relation_count : Nat, page_count : 0 .. MaxPages]

SessionType == opened \in BOOLEAN /\ reply.answer \in Answers /\ indexed \subseteq Rel
HeadersType == mem \in DbHeader /\ disk \in DbHeader
RelationsType ==
  /\ catalog \in Seq(Header)
  /\ DOMAIN handle \subseteq Rel /\ \A r \in DOMAIN handle : handle[r] \in Header
PagesType == DOMAIN pages \subseteq PageNo /\ \A n \in DOMAIN pages : IsPage(pages[n])

\* The type invariant.  The substance is in the pages: no write pointer passes
\* the end of its page and the uint16_t count of free bytes never wraps.
TypeOK == SessionType /\ HeadersType /\ RelationsType /\ PagesType

-----------------------------------------------------------------------------
(* Safety *)

\* When an operation returns, the file holds what the program has in memory:
\* the database header, and of every open relation the header in the slot that
\* relation_header_save_changes writes.  Closing and reopening loses nothing.
SavedInv ==
  /\ opened => mem = disk /\ disk.page_count > 0
  /\ disk.page_count = 0 => disk = NoFile
  /\ ~opened => DOMAIN handle = {}
  /\ \A r \in DOMAIN handle :
       /\ handle[r].real_number \in DOMAIN catalog
       /\ catalog[handle[r].real_number] = handle[r]
       /\ handle[r].name = r

\* The slots on page 1 are those the database header counts, each header knows
\* its slot, and no name is in two slots (relation_create looks for the name).
CatalogInv ==
  /\ Len(catalog) = disk.relation_count
  /\ \A i \in DOMAIN catalog : catalog[i].real_number = i
  /\ \A i, j \in DOMAIN catalog : catalog[i].name = catalog[j].name => i = j

Owner(n) == pages[n].relation_name
LinkOf(n) == pages[n].next_page_number

\* Page n is on the chain of the relation with header h
InChain(n, h) ==
  /\ h.page_number_first <= n /\ n <= h.page_number_last
  /\ LinkOf(n) = 0 <=> n = h.page_number_last
  /\ LinkOf(n) # 0 => /\ LinkOf(n) \in DOMAIN pages
                     /\ n < LinkOf(n)
                     /\ Owner(LinkOf(n)) = h.name
  /\ n # h.page_number_first => \E m \in DOMAIN pages : m < n /\ LinkOf(m) = n

\* The pages 2 .. page_count are divided among the relations of the catalog,
\* and those of one relation form a chain: a link leads to a later page of the
\* same relation, two links never to the same page, the chain begins at
\* page_number_first and ends at page_number_last.
ChainInv ==
  /\ DOMAIN pages = 2 .. disk.page_count
  /\ \A n \in DOMAIN pages : /\ pages[n].page_number = n
                             /\ \E i \in DOMAIN catalog : catalog[i].name = Owner(n)
  /\ \A i \in DOMAIN catalog : LET h == catalog[i] IN
       /\ h.page_number_first \in DOMAIN pages /\ Owner(h.page_number_first) = h.name
       /\ h.page_number_last \in DOMAIN pages /\ Owner(h.page_number_last) = h.name
  /\ \A i \in DOMAIN catalog : \A n \in DOMAIN pages :
       Owner(n) = catalog[i].name => InChain(n, catalog[i])
  /\ \A m, n \in DOMAIN pages : LinkOf(m) = LinkOf(n) => m = n \/ LinkOf(m) = 0

\* Page p has the columns of its relation, what is used and what is free make
\* up the page, and it got a successor only when no row had room on it
PageFilled(p, schema) ==
  /\ p.columns = schema.columns
  /\ FirstRow(schema.columns) <= p.write_ptr
  /\ p.write_ptr + p.remaining_space = PageSize
  /\ p.next_page_number # 0 => p.remaining_space < RowSize(schema)

\* The space of every page is accounted for
SpaceInv ==
  \A i \in DOMAIN catalog : \A n \in DOMAIN pages :
    Owner(n) = catalog[i].name => PageFilled(pages[n], catalog[i].schema)

\* The offsets at which a scan looks for rows are those where rows were written
RowsInv ==
  \A i \in DOMAIN catalog : \A n \in DOMAIN pages :
    Owner(n) = catalog[i].name =>
      DOMAIN pages[n].rows = RowOffsets(pages[n], catalog[i].schema)

\* A scan from the first page of a relation reaches every row of the relation,
\* and page_count is the number of its pages: a page that is not the last is
\* never empty, so the scan never stops early.
ScanInv ==
  \A i \in DOMAIN catalog :
    LET h == catalog[i]
        owned == {n \in DOMAIN pages : Owner(n) = h.name} IN
    /\ h.page_count = Cardinality(owned)
    /\ Scanned(pages, h.schema, h.page_number_first) = owned

-----------------------------------------------------------------------------
(* What no operation but the creation of a new file may do *)

\* A row stays where it was written, a deleted row stays deleted, a page keeps
\* its relation and its columns, and a link once set never changes.
RowsStay ==
  [][database_create_in_file \/
     \A n \in DOMAIN pages :
       /\ n \in DOMAIN pages'
       /\ pages'[n].relation_name = pages[n].relation_name
       /\ pages'[n].columns = pages[n].columns
       /\ \/ pages[n].next_page_number = 0
          \/ pages'[n].next_page_number = pages[n].next_page_number
       /\ \A o \in DOMAIN pages[n].rows :
            /\ o \in DOMAIN pages'[n].rows
            /\ pages'[n].rows[o].is_available => pages[n].rows[o].is_available
    ]_vars

\* An operation on one relation leaves the pages of every other one alone: a
\* page that a step adds or changes belongs to the relation of the request.
OtherRelationsUntouched ==
  [][database_create_in_file \/
     \A n \in DOMAIN pages' :
       n \notin DOMAIN pages \/ pages'[n] # pages[n]
         => pages'[n].relation_name = reply'.request[2]]_vars

-----------------------------------------------------------------------------
(* The library implements RelationStore: a relation is the rows that a scan   *)
(* from its first page finds, a row is known by its place.                   *)

TableOf(h) ==
  [schema |-> h.schema,
   rows |-> [pl \in LivePlaces(pages, h.schema, h.page_number_first)
               |-> RowAt(pages, pl).data]]

Table ==
  [r \in {catalog[i].name : i \in 1 .. Len(catalog)} |->
     TableOf(catalog[CHOOSE i \in 1 .. Len(catalog) : catalog[i].name = r])]

Store == INSTANCE RelationStore WITH Id <- PageNo \X (0 .. PageSize), table <- Table

\* Whatever the layout of the file, the answers of the library are those of a
\* plain collection of rows per relation.
Refinement == Store!Spec
=============================================================================
