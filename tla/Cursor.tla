------------------------------- MODULE Cursor -------------------------------
(***************************************************************************)
(* How every loop of file_ops.c walks the rows of a relation.  The loop     *)
(* keeps a copy of the header of the page it is on, read when it came to    *)
(* the page and never again, and the offset ptr of a row on that page.      *)
(***************************************************************************)
EXTENDS Layout, Sequences

Place(cur) == <<cur.page_number, cur.ptr>>

RowUnder(pages, cur) == RowAt(pages, Place(cur))

\* Read the header of page n, go to its first row
enter_page(pages, schema, n) ==
  [page_number |-> n, write_ptr |-> pages[n].write_ptr,
   next_page_number |-> pages[n].next_page_number, ptr |-> FirstRow(schema.columns)]

advance_on_one_page(pages, schema, cur) == [cur EXCEPT !.ptr = @ + RowSize(schema)]

advance_before_end(pages, schema, cur) ==
  IF cur.next_page_number # 0
  THEN enter_page(pages, schema, cur.next_page_number)
  ELSE [cur EXCEPT !.ptr = @ + RowSize(schema)]

advance_without_header(pages, schema, cur) ==
  LET ptr == cur.ptr + schema.length IN
  IF cur.next_page_number # 0 /\ ptr = cur.write_ptr
  THEN enter_page(pages, schema, cur.next_page_number)
  ELSE [cur EXCEPT !.ptr = ptr]

advance_live_only(pages, schema, cur) ==
  IF ~RowUnder(pages, cur).is_available THEN cur
  ELSE LET ptr == cur.ptr + RowSize(schema) IN
       IF cur.next_page_number # 0 /\ ptr = cur.write_ptr
       THEN enter_page(pages, schema, cur.next_page_number)
       ELSE [cur EXCEPT !.ptr = ptr]

\* The end of an iteration: to the next row, or behind the last row of a page
\* to the first row of the next page
advance(pages, schema, cur) ==
  LET ptr == cur.ptr + RowSize(schema) IN
  IF cur.next_page_number # 0 /\ ptr = cur.write_ptr
  THEN enter_page(pages, schema, cur.next_page_number)
  ELSE [cur EXCEPT !.ptr = ptr]

-----------------------------------------------------------------------------
(* The files a loop can meet: what RowsInv, SpaceInv and ChainInv of         *)
(* PageStore say of the pages of one relation.                              *)

\* The numbers of the pages of a relation: none is 0, which stands for no page
IsChain(chain) ==
  /\ chain \in Seq(Nat \ {0}) /\ chain # <<>>
  /\ \A i, j \in DOMAIN chain : chain[i] = chain[j] => i = j

Fit(schema) == (PageSize - FirstRow(schema.columns)) \div RowSize(schema)

\* The offsets of `count` rows
Offsets(schema, count) == {FirstRow(schema.columns) + k * RowSize(schema) : k \in 0 .. count - 1}

\* On the pages of `chain`, in this order, every page but the last is full and
\* the last has `count` rows
PlacesOf(schema, chain, count) ==
  UNION {{chain[i]} \X Offsets(schema, IF i = Len(chain) THEN count ELSE Fit(schema))
         : i \in DOMAIN chain}

\* The pages of that chain with `content` on them
PagesOf(schema, chain, content) ==
  [n \in {chain[i] : i \in DOMAIN chain} |->
     LET i == CHOOSE j \in DOMAIN chain : chain[j] = n
         rows == {o \in 0 .. PageSize : <<n, o>> \in DOMAIN content} IN
     [write_ptr |-> FirstRow(schema.columns) + RowSize(schema) * Cardinality(rows),
      next_page_number |-> IF i = Len(chain) THEN 0 ELSE chain[i + 1],
      rows |-> [o \in rows |-> content[<<n, o>>]]]]

AnyRow(schema) == [is_available : BOOLEAN, data : Data(schema)]

\* Only a relation that has no second page can have a page without rows
Files(schema, chain) ==
  UNION {LET pagesUsed == SubSeq(chain, 1, length) IN
         {PagesOf(schema, pagesUsed, content) :
            content \in UNION {[PlacesOf(schema, pagesUsed, count) -> AnyRow(schema)] :
                                 count \in (IF length = 1 THEN 0 ELSE 1) .. Fit(schema)}}
         : length \in 1 .. Len(chain)}
=============================================================================
