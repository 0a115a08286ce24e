------------------------------- MODULE Layout -------------------------------
(***************************************************************************)
(* The data file is an array of pages of PageSize bytes, numbered from 1.   *)
(* Page 1 holds the database header, its own page header and the relation   *)
(* headers (the catalog).  Every other page belongs to one relation:        *)
(*                                                                         *)
(*   page header | size of the columns | columns | row | row | ... | free    *)
(*                                                                         *)
(* This module has the arithmetic of that layout and the operations on one  *)
(* page of a relation.  A page is a record that keeps the fields of struct  *)
(* page_header, the column names and the rows under their byte offsets.     *)
(***************************************************************************)
EXTENDS Tables

CONSTANTS
  PageSize,        \* DEFAULT_PAGE_SIZE_BYTES
  DbHeaderSize,    \* sizeof(struct database_header)
  PageHeaderSize,  \* sizeof(struct page_header)
  RelHeaderSize,   \* sizeof(struct relation_header)
  LenSize,         \* sizeof(uint16_t), the size of the columns array
  ColumnSize,      \* sizeof(struct column)
  RowHeaderSize    \* sizeof(struct row_header)

ASSUME SizesAssumption ==
  /\ PageSize \in Nat /\ PageSize < 65536
  /\ DbHeaderSize \in Nat
  /\ PageHeaderSize \in Nat \ {0}
  /\ RelHeaderSize \in Nat \ {0}
  /\ LenSize \in Nat
  /\ ColumnSize \in Nat
  /\ RowHeaderSize \in Nat \ {0}

\* remaining_space is a uint16_t: what it cannot hold is lost
U16(x) == x % 65536

-----------------------------------------------------------------------------
(* Where the rows of a page begin, and the room a row takes *)

FirstRow(columns) == PageHeaderSize + LenSize + ColumnSize * Cardinality(columns)

RowSize(schema) == RowHeaderSize + schema.length

\* A page that holds nothing but its header and columns has room for a row.
\* No code checks it: it is the limit of what the library can store.
ASSUME RowFitsAssumption ==
  \A schema \in Schemas : FirstRow(schema.columns) + RowSize(schema) <= PageSize

\* The relation headers that fit on page 1 behind the two headers before them
CatalogSlots == (PageSize - DbHeaderSize - PageHeaderSize) \div RelHeaderSize

-----------------------------------------------------------------------------
(* One page *)

page_create(number, name) ==
  [page_number |-> number, relation_name |-> name, write_ptr |-> 0,
   remaining_space |-> PageSize, next_page_number |-> 0,
   columns |-> {}, rows |-> EmptyMap]

\* Take `bytes` more bytes of page p
take(p, bytes) == [p EXCEPT !.write_ptr = @ + bytes,
                            !.remaining_space = U16(@ - bytes)]

is_enough_space_skipped(p, required) == TRUE
is_enough_space(p, required) == p.remaining_space >= required

\* The header and the columns of a page of a relation
columns_write(p, columns) ==
  [take(p, FirstRow(columns)) EXCEPT !.columns = columns]

row_write_headless(p, schema, data) ==
  [p EXCEPT !.write_ptr = @ + RowSize(schema), !.remaining_space = U16(@ - schema.length),
     !.rows = Put(@, p.write_ptr, [is_available |-> TRUE, data |-> data])]

row_write_advanced(p, schema, data) ==
  [take(p, RowSize(schema)) EXCEPT
     !.rows = Put(@, p.write_ptr + RowSize(schema), [is_available |-> TRUE, data |-> data])]

\* A row header and its data where the free space of the page begins
row_write(p, schema, data) ==
  [take(p, RowSize(schema)) EXCEPT
     !.rows = Put(@, p.write_ptr, [is_available |-> TRUE, data |-> data])]

-----------------------------------------------------------------------------
(* What a scan of a relation meets.  pages maps the page numbers written so  *)
(* far to pages; schema is the one of the relation's header.                *)

\* From the first row a scan advances by one row until it meets write_ptr
RowOffsets(p, schema) ==
  {FirstRow(schema.columns) + k * RowSize(schema) : k \in 0 .. PageSize}
    \cap (0 .. p.write_ptr - 1)

\* After the last row of a page the scan goes to the next page.  It looks at
\* next_page_number only behind a row: on a page without rows it stops.
ScanNext(pages, schema, n) ==
  IF \/ pages[n].write_ptr = FirstRow(schema.columns)
     \/ pages[n].next_page_number = 0
  THEN {} ELSE {pages[n].next_page_number}

\* The pages that the scan from page `first` reaches: those in every set of
\* pages that has `first` and is closed under ScanNext
Scanned(pages, schema, first) ==
  {n \in DOMAIN pages : \A S \in SUBSET DOMAIN pages :
     (/\ first \in S
      /\ \A m \in S : ScanNext(pages, schema, m) \subseteq S) => n \in S}

\* The places <<page, offset>> a scan reads, and those with a row not deleted
Places(pages, schema, first) ==
  UNION {{n} \X RowOffsets(pages[n], schema) : n \in Scanned(pages, schema, first)}

RowAt(pages, place) == pages[place[1]].rows[place[2]]

LivePlaces(pages, schema, first) ==
  {pl \in Places(pages, schema, first) : RowAt(pages, pl).is_available}

\* pages with new[place] written over the row at each place of DOMAIN new
Overwrite(pages, new) ==
  [n \in DOMAIN pages |->
     [pages[n] EXCEPT !.rows =
        [o \in DOMAIN @ |-> IF <<n, o>> \in DOMAIN new THEN new[<<n, o>>] ELSE @[o]]]]
=============================================================================
