--------------------------- MODULE PageStoreProofs ---------------------------
(***************************************************************************)
(* Proofs about PageStore for every set of relations, columns and schemas   *)
(* and for every size of page in which a row of each schema fits: that pages, *)
(* headers and the catalog agree; where the rows are, that a scan finds them, *)
(* that they stay, and that they belong to the relation of a request; and     *)
(* that every operation on pages, headers and handles is one step, or none,   *)
(* of the plain collections of rows of RelationStore.                        *)
(***************************************************************************)
EXTENDS PageStore, FiniteSetTheorems, Numbers, TLAPS

-----------------------------------------------------------------------------
(* Lemmas on the operators of Tables and Layout *)

\* Put binds x and leaves every other binding alone
LEMMA PutBinds ==
  ASSUME NEW f, NEW x, NEW v
  PROVE  /\ DOMAIN Put(f, x, v) = DOMAIN f \cup {x}
         /\ Put(f, x, v)[x] = v
         /\ \A y \in DOMAIN f : y # x => Put(f, x, v)[y] = f[y]
  BY DEF Put

\* The rows of a schema begin at a number, and a row has a size
LEMMA LayoutNat ==
  ASSUME NEW schema \in Schemas
  PROVE  /\ FirstRow(schema.columns) \in Nat
         /\ RowSize(schema) \in Nat /\ RowSize(schema) > 0
         /\ FirstRow(schema.columns) + RowSize(schema) <= PageSize
<1>1. schema.columns \subseteq Column /\ schema.length \in Nat
  BY TablesAssumption
<1>2. Cardinality(schema.columns) \in Nat
  BY <1>1, TablesAssumption, FS_Subset, FS_CardinalityType
<1>3. ColumnSize * Cardinality(schema.columns) \in Nat
  BY <1>2, SizesAssumption
<1> QED BY <1>1, <1>3, SizesAssumption, RowFitsAssumption DEF FirstRow, RowSize

\* remaining_space keeps every count of bytes of a page
LEMMA U16Keeps ==
  ASSUME NEW x \in 0 .. PageSize
  PROVE  U16(x) = x
  BY SizesAssumption DEF U16

\* What page_create and the writing of the columns make of a page
LEMMA NewPage ==
  ASSUME NEW n \in PageNo, NEW name \in Rel, NEW schema \in Schemas,
         NEW p, p = columns_write(page_create(n, name), schema.columns)
  PROVE  /\ IsPage(p)
         /\ p.page_number = n /\ p.relation_name = name
         /\ p.next_page_number = 0 /\ p.columns = schema.columns
         /\ p.write_ptr = FirstRow(schema.columns)
         /\ p.remaining_space = PageSize - FirstRow(schema.columns)
         /\ p.rows = EmptyMap
<1> DEFINE F == FirstRow(schema.columns)
<1>1. F \in 0 .. PageSize /\ PageSize - F \in 0 .. PageSize
  BY LayoutNat, SizesAssumption
<1>2. U16(PageSize - F) = PageSize - F
  BY <1>1, U16Keeps
<1>3. p = [page_number |-> n, relation_name |-> name, write_ptr |-> 0 + F,
           remaining_space |-> PageSize - F, next_page_number |-> 0,
           columns |-> schema.columns, rows |-> EmptyMap]
  BY <1>2 DEF columns_write, take, page_create
<1>4. EmptyMap \in [DOMAIN EmptyMap -> Row(schema)] /\ DOMAIN EmptyMap = {}
  BY DEF EmptyMap
<1> QED BY <1>1, <1>3, <1>4 DEF IsPage

\* Schemas with the same columns have rows of the same type
LEMMA SameColumnsSameRows ==
  ASSUME NEW s, NEW t, s.columns = t.columns
  PROVE  Row(s) = Row(t)
  BY DEF Row, Data

\* A row written to a page that has room for it
LEMMA RowWritten ==
  ASSUME NEW p, IsPage(p), NEW schema \in Schemas, p.columns = schema.columns,
         NEW data \in Data(schema),
         p.write_ptr + p.remaining_space = PageSize,
         p.remaining_space >= RowSize(schema)
  PROVE  LET q == row_write(p, schema, data) IN
         /\ IsPage(q)
         /\ q.page_number = p.page_number /\ q.relation_name = p.relation_name
         /\ q.next_page_number = p.next_page_number /\ q.columns = p.columns
         /\ q.write_ptr = p.write_ptr + RowSize(schema)
         /\ q.remaining_space = p.remaining_space - RowSize(schema)
         /\ q.rows = Put(p.rows, p.write_ptr, [is_available |-> TRUE, data |-> data])
<1> DEFINE q == row_write(p, schema, data)
           R == RowSize(schema)
           row == [is_available |-> TRUE, data |-> data]
<1>1. R \in Nat /\ p.write_ptr \in 0 .. PageSize /\ p.remaining_space \in 0 .. PageSize
  BY LayoutNat DEF IsPage
<1>2. /\ p.write_ptr + R \in 0 .. PageSize
      /\ p.remaining_space - R \in 0 .. PageSize
      /\ U16(p.remaining_space - R) = p.remaining_space - R
  BY <1>1, U16Keeps, SizesAssumption
<1>3. /\ DOMAIN q = DOMAIN p
      /\ q.page_number = p.page_number /\ q.relation_name = p.relation_name
      /\ q.next_page_number = p.next_page_number /\ q.columns = p.columns
      /\ q.write_ptr = p.write_ptr + R
      /\ q.remaining_space = p.remaining_space - R
      /\ q.rows = Put(p.rows, p.write_ptr, row)
  BY <1>2 DEF row_write, take, IsPage
<1>4. Put(p.rows, p.write_ptr, row) \in [DOMAIN p.rows \cup {p.write_ptr} -> Row(schema)]
  <2>1. PICK s \in Schemas : p.columns = s.columns /\ p.rows \in [DOMAIN p.rows -> Row(s)]
    BY DEF IsPage
  <2>2. p.rows \in [DOMAIN p.rows -> Row(schema)]
    BY <2>1, SameColumnsSameRows
  <2>3. row \in Row(schema)
    BY DEF Row
  <2> QED BY <2>2, <2>3 DEF Put
<1>5. DOMAIN q.rows = DOMAIN p.rows \cup {p.write_ptr}
  BY <1>3 DEF Put
<1>6. \E s \in Schemas : q.columns = s.columns /\ q.rows \in [DOMAIN q.rows -> Row(s)]
  BY <1>3, <1>4, <1>5
<1>7. DOMAIN q.rows \subseteq 0 .. PageSize
  BY <1>1, <1>5 DEF IsPage
<1> QED BY <1>1, <1>2, <1>3, <1>6, <1>7 DEF IsPage

\* A relation header, the one without pages of relation_create included
AnyHeader == [name : Rel, schema : Schemas, page_number_first : Nat,
              page_number_last : Nat, page_count : Nat, real_number : Nat]

LEMMA HeaderPages ==
  ASSUME NEW h \in AnyHeader,
         h.page_number_first \in PageNo, h.page_number_last \in PageNo
  PROVE  h \in Header
  BY DEF AnyHeader, Header

\* page_add appends page n
LEMMA PageAdded ==
  ASSUME NEW h \in AnyHeader, NEW n \in Nat
  PROVE  LET g == page_add(h, n) IN
         /\ g \in AnyHeader
         /\ g.name = h.name /\ g.schema = h.schema /\ g.real_number = h.real_number
         /\ g.page_count = h.page_count + 1 /\ g.page_number_last = n
         /\ h.page_number_last = 0 => g.page_number_first = n
         /\ h.page_number_last # 0 => g.page_number_first = h.page_number_first
<1> DEFINE h1 == [h EXCEPT !.page_count = @ + 1]
           h2 == [h1 EXCEPT !.page_number_first = IF h.page_number_last = 0 THEN n ELSE @]
           h3 == [h2 EXCEPT !.page_number_last = n]
<1>1. page_add(h, n) = h3
  BY DEF page_add
<1>2. h1 \in AnyHeader
  BY DEF AnyHeader
<1>3. h1 \in AnyHeader => h2 \in AnyHeader
  <2> HIDE DEF h1
  <2> QED BY DEF AnyHeader
<1>4. h2 \in AnyHeader => h3 \in AnyHeader
  <2> HIDE DEF h2
  <2> QED BY DEF AnyHeader
<1>5. /\ h3.name = h.name /\ h3.schema = h.schema /\ h3.real_number = h.real_number
      /\ h3.page_count = h.page_count + 1 /\ h3.page_number_last = n
      /\ h.page_number_last = 0 => h3.page_number_first = n
      /\ h.page_number_last # 0 => h3.page_number_first = h.page_number_first
  BY DEF AnyHeader
<1> QED BY <1>1, <1>2, <1>3, <1>4, <1>5

\* The header that relation_create makes
LEMMA HeaderCreated ==
  ASSUME NEW r \in Rel, NEW schema \in Schemas, NEW n \in PageNo, NEW k \in Nat
  PROVE  LET h == [page_add(NewHeader(r, schema), n) EXCEPT !.real_number = k] IN
         /\ h \in Header /\ h.name = r /\ h.schema = schema /\ h.real_number = k
         /\ h.page_number_first = n /\ h.page_number_last = n
<1> DEFINE new == NewHeader(r, schema)
           g == page_add(new, n)
           h == [g EXCEPT !.real_number = k]
<1>1. /\ new \in AnyHeader /\ new.name = r /\ new.schema = schema
      /\ new.page_number_last = 0
  BY DEF AnyHeader, NewHeader
<1>2. n \in Nat
  BY MaxPagesAssumption DEF PageNo
<1> HIDE DEF new
<1>3. /\ g \in AnyHeader /\ g.name = r /\ g.schema = schema
      /\ g.page_number_first = n /\ g.page_number_last = n
  BY <1>1, <1>2, PageAdded
<1> HIDE DEF g
<1>4. h \in AnyHeader /\ h.name = r /\ h.schema = schema /\ h.real_number = k
      /\ h.page_number_first = n /\ h.page_number_last = n
  BY <1>3 DEF AnyHeader
<1> QED BY <1>4, HeaderPages DEF new, g

-----------------------------------------------------------------------------
(* The inductive invariant *)

\* The space invariant is what keeps an insert inside its page, the chain
\* invariant what makes the last page of an open handle a page of its relation,
\* and the saved-headers invariant what ties a handle to its slot
IInv == TypeOK /\ SavedInv /\ CatalogInv /\ ChainInv /\ SpaceInv

\* Before the first operation
LEMMA InitIInv == Init => IInv
<1> SUFFICES ASSUME Init PROVE IInv
  OBVIOUS
<1> USE DEF Init
<1>1. DOMAIN catalog = {} /\ DOMAIN pages = {} /\ DOMAIN handle = {} /\ Len(catalog) = 0
  BY DEF EmptyMap
<1>2. TypeOK
  <2>1. SessionType
    BY DEF SessionType, Reply, Answers, IInv, TypeOK
  <2>2. HeadersType
    BY MaxPagesAssumption DEF HeadersType, DbHeader, NoFile
  <2>3. RelationsType /\ PagesType
    BY <1>1 DEF RelationsType, PagesType
  <2> QED BY <2>1, <2>2, <2>3 DEF TypeOK
<1>3. SavedInv /\ CatalogInv
  BY <1>1 DEF SavedInv, CatalogInv, NoFile
<1>4. ChainInv /\ SpaceInv
  BY <1>1 DEF ChainInv, SpaceInv, NoFile
<1> QED BY <1>2, <1>3, <1>4 DEF IInv

\* An open relation: its header is the one in its slot, its last page belongs
\* to it, ends its chain and is filled as the header's schema says
LEMMA OpenRelation ==
  ASSUME IInv, NEW r \in DOMAIN handle,
         NEW h, h = handle[r]
  PROVE  /\ opened /\ r \in Rel /\ h \in Header /\ h.name = r
         /\ h.real_number \in DOMAIN catalog /\ catalog[h.real_number] = h
         /\ h.page_number_last \in DOMAIN pages
         /\ Owner(h.page_number_last) = r
         /\ IsPage(pages[h.page_number_last])
         /\ LinkOf(h.page_number_last) = 0
         /\ PageFilled(pages[h.page_number_last], h.schema)
         /\ h.page_number_last # 0
<1>1. /\ opened /\ r \in Rel /\ h \in Header /\ h.name = r
      /\ h.real_number \in DOMAIN catalog /\ catalog[h.real_number] = h
  BY DEF IInv, TypeOK, RelationsType, SavedInv
<1>2. /\ h.page_number_last \in DOMAIN pages
      /\ Owner(h.page_number_last) = r
  BY <1>1 DEF IInv, ChainInv
<1>3. InChain(h.page_number_last, h) /\ PageFilled(pages[h.page_number_last], h.schema)
  BY <1>1, <1>2 DEF IInv, ChainInv, SpaceInv
<1>4. IsPage(pages[h.page_number_last])
  BY <1>2 DEF IInv, TypeOK, PagesType
<1>5. h.page_number_last # 0
  BY <1>1 DEF Header, PageNo
<1> QED BY <1>1, <1>2, <1>3, <1>4, <1>5 DEF InChain

\* The chains depend on the names, numbers and links of the pages only
LEMMA ChainKept ==
  ASSUME ChainInv, UNCHANGED <<disk, catalog>>,
         DOMAIN pages' = DOMAIN pages,
         \A n \in DOMAIN pages : /\ pages'[n].page_number = pages[n].page_number
                                 /\ pages'[n].relation_name = pages[n].relation_name
                                 /\ pages'[n].next_page_number = pages[n].next_page_number
  PROVE  ChainInv'
<1> USE DEF Owner, LinkOf
<1>1. /\ DOMAIN pages' = 2 .. disk'.page_count
      /\ \A n \in DOMAIN pages' : /\ pages'[n].page_number = n
                                  /\ \E i \in DOMAIN catalog' : catalog'[i].name = Owner(n)'
  BY DEF ChainInv
<1>2. \A i \in DOMAIN catalog' : LET h == catalog'[i] IN
        /\ h.page_number_first \in DOMAIN pages'
        /\ pages'[h.page_number_first].relation_name = h.name
        /\ h.page_number_last \in DOMAIN pages'
        /\ pages'[h.page_number_last].relation_name = h.name
  BY DEF ChainInv
<1>3. ASSUME NEW i \in DOMAIN catalog', NEW n \in DOMAIN pages', Owner(n)' = catalog'[i].name
      PROVE  InChain(n, catalog[i])'
  <2> DEFINE h == catalog[i]
  <2>1. n \in DOMAIN pages /\ i \in DOMAIN catalog /\ Owner(n) = h.name
    BY <1>3
  <2>2. InChain(n, h)
    BY <2>1 DEF ChainInv
  <2>3. pages'[n].next_page_number = pages[n].next_page_number
    BY <2>1
  <2>4. /\ h.page_number_first <= n /\ n <= h.page_number_last
        /\ LinkOf(n)' = 0 <=> n = h.page_number_last
    BY <2>2, <2>3 DEF InChain
  <2>5. LinkOf(n)' # 0 => /\ LinkOf(n)' \in DOMAIN pages'
                          /\ n < LinkOf(n)'
                          /\ pages'[pages'[n].next_page_number].relation_name = h.name
    BY <2>2, <2>3 DEF InChain
  <2>6. n # h.page_number_first =>
          \E m \in DOMAIN pages' : m < n /\ pages'[m].next_page_number = n
    BY <2>2 DEF InChain
  <2>7. catalog'[i] = h
    OBVIOUS
  <2> QED BY <2>4, <2>5, <2>6, <2>7 DEF InChain
<1>4. \A m, n \in DOMAIN pages' : LinkOf(m)' = LinkOf(n)' => m = n \/ LinkOf(m)' = 0
  BY DEF ChainInv
<1> QED BY <1>1, <1>2, <1>3, <1>4 DEF ChainInv

-----------------------------------------------------------------------------
(* The operations *)

\* Opening, closing, looking up and reading change nothing in the file
LEMMA FileUnchanged ==
  ASSUME IInv, UNCHANGED file
  PROVE  CatalogInv' /\ ChainInv' /\ SpaceInv' /\ PagesType'
<1>1. CatalogInv'
  BY DEF IInv, file, CatalogInv
<1>2. ChainInv'
  BY ChainKept DEF IInv, file
<1>3. SpaceInv'
  BY DEF IInv, file, SpaceInv, PageFilled, Owner
<1>4. PagesType'
  BY DEF IInv, TypeOK, PagesType, file
<1> QED BY <1>1, <1>2, <1>3, <1>4

LEMMA CreateFile ==
  ASSUME DOMAIN handle = {}, indexed \subseteq Rel, database_create_in_file
  PROVE  IInv'
<1> USE DEF database_create_in_file
<1>1. DOMAIN catalog' = {} /\ DOMAIN pages' = {} /\ DOMAIN handle' = {} /\ Len(catalog') = 0
  BY DEF EmptyMap
<1>2. TypeOK'
  <2>1. SessionType'
    BY DEF SessionType, Reply, Answers
  <2>2. HeadersType'
    BY MaxPagesAssumption DEF HeadersType, DbHeader
  <2>3. RelationsType' /\ PagesType'
    BY <1>1 DEF RelationsType, PagesType
  <2> QED BY <2>1, <2>2, <2>3 DEF TypeOK
<1>3. SavedInv' /\ CatalogInv'
  BY <1>1 DEF SavedInv, CatalogInv, NoFile
<1>4. ChainInv' /\ SpaceInv'
  BY <1>1 DEF ChainInv, SpaceInv
<1> QED BY <1>2, <1>3, <1>4 DEF IInv

LEMMA OpenFile ==
  ASSUME IInv, database_get_from_file
  PROVE  IInv'
<1> USE DEF database_get_from_file
<1>1. UNCHANGED <<file, handle>>
  OBVIOUS
<1>2. SessionType'
  <2>1. CASE disk = NoFile
    BY <2>1 DEF IInv, TypeOK, SessionType, Reply, Answers
  <2>2. CASE disk # NoFile
    BY <2>2 DEF IInv, TypeOK, SessionType, Reply, Answers
  <2> QED BY <2>1, <2>2
<1>3. HeadersType' /\ RelationsType'
  BY DEF IInv, TypeOK, HeadersType, RelationsType, file
<1>4. SavedInv'
  BY DEF IInv, TypeOK, HeadersType, DbHeader, SavedInv, file
<1> QED BY <1>1, <1>2, <1>3, <1>4, FileUnchanged DEF IInv, TypeOK

LEMMA CloseFile ==
  ASSUME IInv, database_close
  PROVE  IInv'
<1> USE DEF database_close
<1>1. UNCHANGED <<file, handle>>
  OBVIOUS
<1>2. SessionType'
  BY DEF SessionType, Reply, Answers, IInv, TypeOK
<1>3. HeadersType' /\ RelationsType'
  BY MaxPagesAssumption DEF IInv, TypeOK, HeadersType, DbHeader, RelationsType, file, NoFile
<1>4. SavedInv'
  BY DEF IInv, SavedInv, file
<1> QED BY <1>1, <1>2, <1>3, <1>4, FileUnchanged DEF IInv, TypeOK

\* An operation that answers and does nothing else
LEMMA OnlyReply ==
  ASSUME IInv, UNCHANGED <<opened, mem, file, handle>>,
         reply'.answer \in Answers /\ indexed' \subseteq Rel
  PROVE  IInv'
<1>1. SessionType' /\ HeadersType' /\ RelationsType'
  BY DEF IInv, TypeOK, SessionType, HeadersType, RelationsType, file
<1>2. SavedInv'
  BY DEF IInv, SavedInv, file
<1> QED BY <1>1, <1>2, FileUnchanged DEF IInv, TypeOK

LEMMA GetRelation ==
  ASSUME IInv, NEW r \in Rel, relation_get(r)
  PROVE  IInv'
<1> USE DEF relation_get
<1>1. UNCHANGED <<opened, mem, file>>
  OBVIOUS
<1>2. CASE Slots(r) = {}
  BY <1>2, OnlyReply DEF Reply, Answers, IInv, TypeOK, SessionType
<1>3. CASE Slots(r) # {}
  <2>1. PICK i \in Slots(r) : handle' = Put(handle, r, catalog[i])
    BY <1>3
  <2>2. /\ i \in DOMAIN catalog /\ catalog[i] \in Header
        /\ catalog[i].name = r /\ catalog[i].real_number = i
    BY DEF Slots, IInv, TypeOK, HeadersType, RelationsType, SavedInv, CatalogInv
  <2>3. SessionType' /\ HeadersType'
    BY <1>3 DEF IInv, TypeOK, SessionType, HeadersType, Reply, Answers, file
  <2>4. RelationsType'
    BY <2>1, <2>2 DEF IInv, TypeOK, RelationsType, file, Put
  <2>5. SavedInv'
    BY <2>1, <2>2 DEF IInv, SavedInv, file, Put
  <2> QED BY <1>1, <2>3, <2>4, <2>5, FileUnchanged DEF IInv, TypeOK
<1> QED BY <1>2, <1>3

LEMMA CloseRelation ==
  ASSUME IInv, NEW r \in Rel, relation_close(r)
  PROVE  IInv'
<1> USE DEF relation_close
<1>1. UNCHANGED <<opened, mem, file>>
  OBVIOUS
<1>2. SessionType' /\ HeadersType'
  BY DEF IInv, TypeOK, SessionType, HeadersType, Reply, Answers, file
<1>3. RelationsType'
  BY DEF IInv, TypeOK, RelationsType, file
<1>4. SavedInv'
  BY DEF IInv, SavedInv, file
<1> QED BY <1>1, <1>2, <1>3, <1>4, FileUnchanged DEF IInv, TypeOK

\* The pages change, but not what the chains depend on: what is left to show
\* is that each page keeps its type and its accounts
LEMMA OnlyPages ==
  ASSUME IInv, UNCHANGED <<opened, mem, disk, catalog, handle>>,
         reply'.answer \in Answers /\ indexed' \subseteq Rel,
         DOMAIN pages' = DOMAIN pages,
         \A n \in DOMAIN pages :
           /\ IsPage(pages'[n])
           /\ pages'[n].page_number = pages[n].page_number
           /\ pages'[n].relation_name = pages[n].relation_name
           /\ pages'[n].next_page_number = pages[n].next_page_number
           /\ \A schema \in Schemas : PageFilled(pages[n], schema) => PageFilled(pages'[n], schema)
  PROVE  IInv'
<1>1. SessionType' /\ HeadersType' /\ RelationsType'
  BY DEF IInv, TypeOK, SessionType, HeadersType, RelationsType
<1>2. PagesType'
  BY DEF IInv, TypeOK, PagesType
<1>3. SavedInv' /\ CatalogInv'
  BY DEF IInv, SavedInv, CatalogInv
<1>4. ChainInv'
  BY ChainKept DEF IInv
<1>5. \A i \in DOMAIN catalog : catalog[i].schema \in Schemas
  <2>1. \A i \in DOMAIN catalog : catalog[i] \in Header
    BY DEF IInv, TypeOK, RelationsType
  <2> QED BY <2>1 DEF Header
<1>6. SpaceInv'
  BY <1>5 DEF IInv, SpaceInv, Owner
<1> QED BY <1>1, <1>2, <1>3, <1>4, <1>6 DEF IInv, TypeOK

LEMMA InsertInPlace ==
  ASSUME IInv, NEW r \in DOMAIN handle,
         NEW data \in Data(Schema(r)), row_insert(r, data)
  PROVE  IInv'
<1> DEFINE h == handle[r]
           last == h.page_number_last
           p == pages[last]
           q == row_write(p, h.schema, data)
<1>1. /\ h \in Header /\ last \in DOMAIN pages /\ IsPage(p)
      /\ LinkOf(last) = 0 /\ PageFilled(p, h.schema)
  BY OpenRelation
<1>2. h.schema \in Schemas
  BY <1>1 DEF Header
<1>3. /\ p.remaining_space >= RowSize(h.schema)
      /\ pages' = [pages EXCEPT ![last] = q]
      /\ UNCHANGED <<opened, mem, disk, catalog, handle>>
      /\ reply'.answer \in Answers /\ indexed' \subseteq Rel
  BY DEF row_insert, is_enough_space, LastPage, Schema, Reply, Answers, IInv, TypeOK,
         SessionType, RelationsType
<1>4. /\ p.columns = h.schema.columns /\ p.write_ptr + p.remaining_space = PageSize
      /\ p.next_page_number = 0
  BY <1>1 DEF PageFilled, LinkOf
<1>5. data \in Data(h.schema)
  BY DEF Schema
<1>a. q = row_write(p, h.schema, data)
  OBVIOUS
<1> HIDE DEF q, h, p
<1>6. /\ IsPage(q)
      /\ q.page_number = p.page_number /\ q.relation_name = p.relation_name
      /\ q.next_page_number = p.next_page_number /\ q.columns = p.columns
      /\ q.write_ptr = p.write_ptr + RowSize(h.schema)
      /\ q.remaining_space = p.remaining_space - RowSize(h.schema)
  BY <1>1, <1>2, <1>3, <1>4, <1>5, <1>a, RowWritten
<1>7. ASSUME NEW schema \in Schemas, PageFilled(p, schema)
      PROVE  PageFilled(q, schema)
  <2>1. /\ p.write_ptr \in Nat /\ p.remaining_space \in Nat
        /\ RowSize(h.schema) \in Nat /\ FirstRow(schema.columns) \in Nat
    BY <1>1, <1>2, LayoutNat DEF IsPage
  <2> QED BY <1>4, <1>6, <1>7, <2>1, SizesAssumption DEF PageFilled
<1>8. ASSUME NEW n \in DOMAIN pages
      PROVE  /\ IsPage(pages'[n])
             /\ pages'[n].page_number = pages[n].page_number
             /\ pages'[n].relation_name = pages[n].relation_name
             /\ pages'[n].next_page_number = pages[n].next_page_number
             /\ \A schema \in Schemas : PageFilled(pages[n], schema) => PageFilled(pages'[n], schema)
  <2>1. CASE n = last
    BY <1>3, <1>6, <1>7, <2>1 DEF p
  <2>2. CASE n # last
    BY <1>3, <2>2 DEF IInv, TypeOK, PagesType
  <2> QED BY <2>1, <2>2
<1> QED BY <1>3, <1>8, OnlyPages

\* Data of a row stays data of its schema when a column gets a value of its type
LEMMA DataUpdated ==
  ASSUME NEW schema \in Schemas, NEW d \in Data(schema),
         NEW c \in Column, NEW value \in Domain[c]
  PROVE  [d EXCEPT ![c] = value] \in Data(schema)
  BY DEF Data

\* Writing rows of the page's schema over rows keeps the type of the pages and
\* everything but the rows
LEMMA RowsOverwritten ==
  ASSUME PagesType, NEW new,
         ASSUME NEW n \in DOMAIN pages, NEW o \in DOMAIN pages[n].rows,
                <<n, o>> \in DOMAIN new,
                NEW schema \in Schemas, pages[n].rows[o] \in Row(schema)
         PROVE  new[<<n, o>>] \in Row(schema)
  PROVE  /\ DOMAIN Overwrite(pages, new) = DOMAIN pages
         /\ \A n \in DOMAIN pages : LET p == Overwrite(pages, new)[n] IN
              /\ IsPage(p)
              /\ p.page_number = pages[n].page_number
              /\ p.relation_name = pages[n].relation_name
              /\ p.next_page_number = pages[n].next_page_number
              /\ p.columns = pages[n].columns
              /\ p.write_ptr = pages[n].write_ptr
              /\ p.remaining_space = pages[n].remaining_space
<1>1. DOMAIN Overwrite(pages, new) = DOMAIN pages
  BY DEF Overwrite
<1>2. ASSUME NEW n \in DOMAIN pages, NEW p, p = Overwrite(pages, new)[n]
      PROVE  /\ IsPage(p)
             /\ p.page_number = pages[n].page_number
             /\ p.relation_name = pages[n].relation_name
             /\ p.next_page_number = pages[n].next_page_number
             /\ p.columns = pages[n].columns
             /\ p.write_ptr = pages[n].write_ptr
             /\ p.remaining_space = pages[n].remaining_space
  <2> DEFINE old == pages[n].rows
             rows == [o \in DOMAIN old |-> IF <<n, o>> \in DOMAIN new THEN new[<<n, o>>] ELSE old[o]]
  <2>1. IsPage(pages[n])
    BY DEF PagesType
  <2>2. p = [pages[n] EXCEPT !.rows = rows]
    BY <1>2 DEF Overwrite
  <2>3. PICK schema \in Schemas : pages[n].columns = schema.columns /\ old \in [DOMAIN old -> Row(schema)]
    BY <2>1 DEF IsPage
  <2>4. rows \in [DOMAIN old -> Row(schema)] /\ DOMAIN rows = DOMAIN old
    <3>1. ASSUME NEW o \in DOMAIN old, <<n, o>> \in DOMAIN new
          PROVE  new[<<n, o>>] \in Row(schema)
      BY <2>3, <3>1
    <3> QED BY <2>3, <3>1
  <2> HIDE DEF rows
  <2>5. /\ DOMAIN p = DOMAIN pages[n] /\ p.rows = rows
        /\ p.page_number = pages[n].page_number
        /\ p.relation_name = pages[n].relation_name
        /\ p.next_page_number = pages[n].next_page_number
        /\ p.columns = pages[n].columns
        /\ p.write_ptr = pages[n].write_ptr
        /\ p.remaining_space = pages[n].remaining_space
    BY <2>1, <2>2 DEF IsPage
  <2> QED BY <2>1, <2>3, <2>4, <2>5 DEF IsPage
<1> QED BY <1>1, <1>2

LEMMA OverwriteIInv ==
  ASSUME IInv, UNCHANGED <<opened, mem, disk, catalog, handle>>,
         reply'.answer \in Answers /\ indexed' \subseteq Rel,
         NEW new, pages' = Overwrite(pages, new),
         ASSUME NEW n \in DOMAIN pages, NEW o \in DOMAIN pages[n].rows,
                <<n, o>> \in DOMAIN new,
                NEW schema \in Schemas, pages[n].rows[o] \in Row(schema)
         PROVE  new[<<n, o>>] \in Row(schema)
  PROVE  IInv'
<1>1. PagesType
  BY DEF IInv, TypeOK
<1>2. /\ DOMAIN pages' = DOMAIN pages
      /\ \A n \in DOMAIN pages :
           /\ IsPage(pages'[n])
           /\ pages'[n].page_number = pages[n].page_number
           /\ pages'[n].relation_name = pages[n].relation_name
           /\ pages'[n].next_page_number = pages[n].next_page_number
           /\ pages'[n].columns = pages[n].columns
           /\ pages'[n].write_ptr = pages[n].write_ptr
           /\ pages'[n].remaining_space = pages[n].remaining_space
  BY <1>1, RowsOverwritten
<1> QED BY <1>2, OnlyPages DEF PageFilled

LEMMA UpdateRows ==
  ASSUME IInv, NEW r \in DOMAIN handle, NEW c \in Column, NEW value \in Domain[c],
         NEW set \in Column, NEW new \in Domain[set],
         row_update(r, c, value, set, new)
  PROVE  IInv'
<1> DEFINE hits == Hits(r, c, value)
           rows == [pl \in hits |-> [RowAt(pages, pl) EXCEPT !.data[set] = new]]
<1>1. /\ UNCHANGED <<opened, mem, disk, catalog, handle>>
      /\ reply'.answer \in Answers /\ indexed' \subseteq Rel
      /\ pages' = Overwrite(pages, rows)
  BY DEF row_update, Reply, Answers, IInv, TypeOK, SessionType
<1>2. ASSUME NEW n \in DOMAIN pages, NEW o \in DOMAIN pages[n].rows, <<n, o>> \in DOMAIN rows,
             NEW schema \in Schemas, pages[n].rows[o] \in Row(schema)
      PROVE  rows[<<n, o>>] \in Row(schema)
  <2> DEFINE row == pages[n].rows[o]
  <2>1. rows[<<n, o>>] = [row EXCEPT !.data = [row.data EXCEPT ![set] = new]]
    BY <1>2 DEF RowAt
  <2>2. row.data \in Data(schema) /\ row \in Row(schema)
    BY <1>2 DEF Row
  <2>3. [row.data EXCEPT ![set] = new] \in Data(schema)
    BY <2>2, DataUpdated
  <2> QED BY <2>1, <2>2, <2>3 DEF Row
<1> HIDE DEF rows
<1> QED BY <1>1, <1>2, OverwriteIInv

LEMMA DeleteRows ==
  ASSUME IInv, NEW r \in DOMAIN handle, NEW c \in Column, NEW value \in Domain[c],
         row_delete(r, c, value)
  PROVE  IInv'
<1> DEFINE hits == Hits(r, c, value)
           rows == [pl \in hits |-> [RowAt(pages, pl) EXCEPT !.is_available = FALSE]]
<1>1. /\ UNCHANGED <<opened, mem, disk, catalog, handle>>
      /\ reply'.answer \in Answers /\ indexed' \subseteq Rel
      /\ pages' = Overwrite(pages, rows)
  BY DEF row_delete, Reply, Answers, IInv, TypeOK, SessionType
<1>2. ASSUME NEW n \in DOMAIN pages, NEW o \in DOMAIN pages[n].rows, <<n, o>> \in DOMAIN rows,
             NEW schema \in Schemas, pages[n].rows[o] \in Row(schema)
      PROVE  rows[<<n, o>>] \in Row(schema)
  BY <1>2 DEF RowAt, Row
<1> HIDE DEF rows
<1> QED BY <1>1, <1>2, OverwriteIInv

LEMMA CreateRelation ==
  ASSUME IInv, NEW r \in Rel, NEW schema \in Schemas, relation_create(r, schema)
  PROVE  IInv'
<1> DEFINE n == mem.page_count + 1
           header == [page_add(NewHeader(r, schema), n) EXCEPT !.real_number = mem.relation_count + 1]
           p == columns_write(page_create(n, r), schema.columns)
           k == Len(catalog) + 1
<1>1. /\ opened /\ Slots(r) = {} /\ mem.page_count < MaxPages
      /\ mem' = [relation_count |-> mem.relation_count + 1, page_count |-> n]
      /\ catalog' = Append(catalog, header)
      /\ disk' = mem'
      /\ pages' = Put(pages, n, p)
      /\ handle' = Put(handle, r, header)
      /\ opened' = opened
      /\ reply'.answer \in Answers /\ indexed' \subseteq Rel
  BY DEF relation_create, Reply, Answers, IInv, TypeOK, SessionType
<1>2. /\ mem = disk /\ mem \in DbHeader /\ disk.page_count > 0
      /\ Len(catalog) = mem.relation_count /\ catalog \in Seq(Header)
      /\ DOMAIN pages = 2 .. disk.page_count
  BY <1>1 DEF IInv, TypeOK, HeadersType, RelationsType, SavedInv, CatalogInv, ChainInv
<1>3. n \in PageNo /\ n \notin DOMAIN pages /\ mem.relation_count \in Nat
  BY <1>1, <1>2, MaxPagesAssumption DEF PageNo, DbHeader
<1>4. /\ header \in Header /\ header.name = r /\ header.schema = schema
      /\ header.page_number_first = n /\ header.page_number_last = n
      /\ header.real_number = k
  <2>1. \A j \in Nat : LET g == [page_add(NewHeader(r, schema), n) EXCEPT !.real_number = j] IN
          /\ g \in Header /\ g.name = r /\ g.schema = schema /\ g.real_number = j
          /\ g.page_number_first = n /\ g.page_number_last = n
    BY <1>3, HeaderCreated
  <2>2. mem.relation_count + 1 \in Nat /\ mem.relation_count + 1 = k
    BY <1>2, <1>3
  <2> QED BY <2>1, <2>2
<1>5. /\ IsPage(p) /\ p.page_number = n /\ p.relation_name = r
      /\ p.next_page_number = 0 /\ PageFilled(p, schema)
  <2>1. FirstRow(schema.columns) \in Nat
    BY LayoutNat
  <2> QED BY <1>3, <2>1, NewPage, SizesAssumption DEF PageFilled
<1> HIDE DEF header, p
<1>6. /\ DOMAIN catalog' = DOMAIN catalog \cup {k} /\ k \notin DOMAIN catalog
      /\ catalog'[k] = header /\ \A i \in DOMAIN catalog : catalog'[i] = catalog[i]
      /\ Len(catalog') = k
      /\ catalog' \in Seq(Header)
  BY <1>1, <1>2, <1>4
<1>7. /\ DOMAIN pages' = DOMAIN pages \cup {n} /\ pages'[n] = p
      /\ \A m \in DOMAIN pages : pages'[m] = pages[m]
  BY <1>1, <1>3 DEF Put
<1>8. \A i \in DOMAIN catalog : catalog[i].name # r
  BY <1>1, <1>2 DEF Slots
<1>9. r \notin DOMAIN handle
  BY <1>8 DEF IInv, SavedInv
<1>10. TypeOK'
  <2>1. SessionType'
    BY <1>1 DEF IInv, TypeOK, SessionType
  <2>2. HeadersType'
    BY <1>1, <1>3, MaxPagesAssumption DEF HeadersType, DbHeader, PageNo
  <2>3. RelationsType'
    BY <1>1, <1>4, <1>6 DEF IInv, TypeOK, RelationsType, Put
  <2>4. PagesType'
    BY <1>3, <1>5, <1>7 DEF IInv, TypeOK, PagesType
  <2> QED BY <2>1, <2>2, <2>3, <2>4 DEF TypeOK
<1>11. SavedInv'
  <2>1. disk'.page_count > 0
    BY <1>1, <1>2, <1>3 DEF DbHeader
  <2>2. \A q \in DOMAIN handle' :
          /\ handle'[q].real_number \in DOMAIN catalog'
          /\ catalog'[handle'[q].real_number] = handle'[q]
          /\ handle'[q].name = q
    BY <1>1, <1>4, <1>6 DEF IInv, SavedInv, Put
  <2> QED BY <1>1, <2>1, <2>2 DEF SavedInv
<1>12. CatalogInv'
  <2>1. Len(catalog') = disk'.relation_count
    BY <1>1, <1>2, <1>6
  <2>2. \A i \in DOMAIN catalog' : catalog'[i].real_number = i
    BY <1>4, <1>6 DEF IInv, CatalogInv
  <2>3. \A i, j \in DOMAIN catalog' : catalog'[i].name = catalog'[j].name => i = j
    BY <1>4, <1>6, <1>8 DEF IInv, CatalogInv
  <2> QED BY <2>1, <2>2, <2>3 DEF CatalogInv
<1>13. \A m \in DOMAIN pages : Owner(m) # r /\ LinkOf(m) # n
  <2>1. ASSUME NEW m \in DOMAIN pages PROVE Owner(m) # r /\ LinkOf(m) # n
    <3>1. PICK i \in DOMAIN catalog : catalog[i].name = Owner(m)
      BY DEF IInv, ChainInv
    <3>2. InChain(m, catalog[i])
      BY <3>1 DEF IInv, ChainInv
    <3> QED BY <1>3, <1>8, <3>1, <3>2 DEF InChain, PageNo
  <2> QED BY <2>1
<1>14. ChainInv'
  <2>1. DOMAIN pages' = 2 .. disk'.page_count
    <3>1. disk.page_count \in Nat /\ disk.page_count > 0 /\ n = disk.page_count + 1
      BY <1>2, MaxPagesAssumption DEF DbHeader
    <3>2. disk'.page_count = n
      BY <1>1
    <3>3. 2 .. n = (2 .. disk.page_count) \cup {n}
      BY <3>1
    <3> QED BY <1>2, <1>7, <3>2, <3>3
  <2>2. \A m \in DOMAIN pages' :
          /\ pages'[m].page_number = m
          /\ \E i \in DOMAIN catalog' : catalog'[i].name = pages'[m].relation_name
    BY <1>4, <1>5, <1>6, <1>7 DEF IInv, ChainInv, Owner
  <2>3. \A i \in DOMAIN catalog' : LET h == catalog'[i] IN
          /\ h.page_number_first \in DOMAIN pages'
          /\ pages'[h.page_number_first].relation_name = h.name
          /\ h.page_number_last \in DOMAIN pages'
          /\ pages'[h.page_number_last].relation_name = h.name
    BY <1>4, <1>5, <1>6, <1>7 DEF IInv, ChainInv, Owner
  <2>4. ASSUME NEW i \in DOMAIN catalog', NEW m \in DOMAIN pages',
               pages'[m].relation_name = catalog'[i].name
        PROVE  InChain(m, catalog[i])'
    <3>1. CASE m = n
      <4>1. i = k
        BY <1>5, <1>6, <1>7, <1>8, <2>4, <3>1
      <4> QED BY <1>3, <1>4, <1>5, <1>6, <1>7, <3>1, <4>1 DEF InChain, LinkOf, PageNo
    <3>2. CASE m # n
      <4>1. m \in DOMAIN pages /\ i \in DOMAIN catalog /\ Owner(m) = catalog[i].name
        BY <1>4, <1>6, <1>7, <1>13, <2>4, <3>2 DEF Owner
      <4>2. InChain(m, catalog[i])
        BY <4>1 DEF IInv, ChainInv
      <4> QED BY <1>6, <1>7, <4>1, <4>2 DEF InChain, LinkOf, Owner
    <3> QED BY <3>1, <3>2
  <2>5. ASSUME NEW m \in DOMAIN pages', NEW l \in DOMAIN pages', LinkOf(m)' = LinkOf(l)'
        PROVE  m = l \/ LinkOf(m)' = 0
    BY <1>5, <1>7, <2>5 DEF IInv, ChainInv, LinkOf
  <2> QED BY <2>1, <2>2, <2>3, <2>4, <2>5 DEF ChainInv, Owner
<1>15. SpaceInv'
  <2>1. ASSUME NEW i \in DOMAIN catalog', NEW m \in DOMAIN pages',
               pages'[m].relation_name = catalog'[i].name
        PROVE  PageFilled(pages'[m], catalog'[i].schema)
    <3>1. CASE m = n
      BY <1>4, <1>5, <1>6, <1>7, <1>8, <2>1, <3>1
    <3>2. CASE m # n
      BY <1>4, <1>6, <1>7, <1>13, <2>1, <3>2 DEF IInv, SpaceInv, Owner
    <3> QED BY <3>1, <3>2
  <2> QED BY <2>1 DEF SpaceInv, Owner
<1> QED BY <1>10, <1>11, <1>12, <1>14, <1>15 DEF IInv

\* The old last page p gets a link to the new page n, and n has one row
LEMMA InsertOnNewPage ==
  ASSUME IInv, NEW r \in DOMAIN handle, NEW data \in Data(Schema(r)),
         row_insert_new_page(r, data)
  PROVE  IInv'
<1> DEFINE h == handle[r]
           last == h.page_number_last
           p == pages[last]
           n == mem.page_count + 1
           linked == [p EXCEPT !.next_page_number = n]
           header == page_add(h, n)
           fresh == columns_write(page_create(n, r), h.schema.columns)
           q == row_write(fresh, h.schema, data)
           k == h.real_number
<1>1. /\ opened /\ r \in Rel /\ h \in Header /\ h.name = r
      /\ k \in DOMAIN catalog /\ catalog[k] = h
      /\ last \in DOMAIN pages /\ Owner(last) = r /\ IsPage(p)
      /\ LinkOf(last) = 0 /\ PageFilled(p, h.schema) /\ last # 0
  BY OpenRelation
<1>2. /\ mem = disk /\ mem \in DbHeader /\ disk.page_count > 0
      /\ Len(catalog) = mem.relation_count /\ catalog \in Seq(Header)
      /\ DOMAIN pages = 2 .. disk.page_count
  BY <1>1 DEF IInv, TypeOK, HeadersType, RelationsType, SavedInv, CatalogInv, ChainInv
<1>3. /\ h \in AnyHeader /\ h.schema \in Schemas
      /\ h.page_number_first \in PageNo /\ last \in PageNo
      /\ h.page_number_first <= last
  <2>1. InChain(last, h)
    BY <1>1 DEF IInv, ChainInv
  <2>2. h.page_number_first \in PageNo /\ last \in PageNo
    BY <1>1 DEF Header
  <2> QED BY <1>1, <2>1, <2>2, MaxPagesAssumption DEF Header, AnyHeader, PageNo, InChain
<1>4. header.name = r /\ header.real_number = k
  <2>1. n \in Nat
    BY <1>2, MaxPagesAssumption DEF DbHeader
  <2> QED BY <1>1, <1>3, <2>1, PageAdded
<1>5. /\ p.remaining_space < RowSize(h.schema)
      /\ mem.page_count < MaxPages
      /\ mem' = [mem EXCEPT !.page_count = n]
      /\ handle' = [handle EXCEPT ![r] = header]
      /\ catalog' = [catalog EXCEPT ![header.real_number] = header]
      /\ disk' = mem'
      /\ pages' = Put([pages EXCEPT ![last].next_page_number = n], n, q)
      /\ opened' = opened /\ reply'.answer \in Answers /\ indexed' \subseteq Rel
  <2>1. p.columns = h.schema.columns
    BY <1>1 DEF PageFilled
  <2>2. p.remaining_space \in Nat /\ RowSize(h.schema) \in Nat
    BY <1>1, <1>3, LayoutNat, SizesAssumption DEF IsPage
  <2> QED BY <1>1, <1>4, <2>1, <2>2 DEF row_insert_new_page, relation_header_save_changes,
           file_update_last_page, is_enough_space, LastPage, Schema, Reply, Answers,
           IInv, TypeOK, SessionType, RelationsType
<1>6. n \in PageNo /\ n \notin DOMAIN pages /\ n > last /\ n = disk.page_count + 1
  BY <1>1, <1>2, <1>5, MaxPagesAssumption DEF PageNo, DbHeader
<1>7. /\ header \in Header /\ header.name = r /\ header.schema = h.schema
      /\ header.real_number = k /\ header.page_number_last = n
      /\ header.page_number_first = h.page_number_first
  <2>1. n \in Nat
    BY <1>6, MaxPagesAssumption DEF PageNo
  <2>2. /\ header \in AnyHeader /\ header.name = r /\ header.schema = h.schema
        /\ header.real_number = k /\ header.page_number_last = n
        /\ header.page_number_first = h.page_number_first
    BY <1>1, <1>3, <2>1, PageAdded
  <2> QED BY <1>3, <1>6, <2>2, HeaderPages
<1>8. /\ IsPage(q) /\ q.page_number = n /\ q.relation_name = r
      /\ q.next_page_number = 0 /\ PageFilled(q, h.schema)
  <2> DEFINE F == FirstRow(h.schema.columns)
             R == RowSize(h.schema)
  <2>1. F \in Nat /\ R \in Nat /\ F + R <= PageSize
    BY <1>3, LayoutNat
  <2>2. /\ IsPage(fresh) /\ fresh.page_number = n /\ fresh.relation_name = r
        /\ fresh.next_page_number = 0 /\ fresh.columns = h.schema.columns
        /\ fresh.write_ptr = F /\ fresh.remaining_space = PageSize - F
    BY <1>1, <1>3, <1>6, NewPage
  <2>3. data \in Data(h.schema)
    BY DEF Schema
  <2> HIDE DEF fresh, F, R, h
  <2>4. fresh.write_ptr + fresh.remaining_space = PageSize /\ fresh.remaining_space >= R
    BY <2>1, <2>2, SizesAssumption
  <2>5. h.schema \in Schemas
    BY <1>3 DEF h
  <2>6. /\ IsPage(q) /\ q.page_number = fresh.page_number
        /\ q.relation_name = fresh.relation_name
        /\ q.next_page_number = fresh.next_page_number /\ q.columns = fresh.columns
        /\ q.write_ptr = fresh.write_ptr + R
        /\ q.remaining_space = fresh.remaining_space - R
    BY <2>2, <2>3, <2>4, <2>5, RowWritten DEF R
  <2> HIDE DEF q
  <2>7. /\ IsPage(q) /\ q.page_number = n /\ q.relation_name = r
        /\ q.next_page_number = 0 /\ q.columns = h.schema.columns
        /\ q.write_ptr = F + R /\ q.remaining_space = PageSize - F - R
    BY <2>2, <2>6
  <2> QED BY <2>1, <2>7, SizesAssumption DEF PageFilled, F, R
<1>9. /\ IsPage(linked) /\ linked.page_number = p.page_number
      /\ linked.relation_name = r /\ linked.next_page_number = n
      /\ PageFilled(linked, h.schema)
  <2>1. /\ DOMAIN linked = DOMAIN p /\ linked.next_page_number = n
        /\ linked.page_number = p.page_number /\ linked.relation_name = p.relation_name
        /\ linked.columns = p.columns /\ linked.rows = p.rows
        /\ linked.write_ptr = p.write_ptr /\ linked.remaining_space = p.remaining_space
    BY <1>1 DEF IsPage
  <2> HIDE DEF linked
  <2> QED BY <1>1, <1>5, <1>6, <2>1 DEF IsPage, PageFilled, Owner
<1> HIDE DEF header, q, linked, fresh
<1>10. /\ DOMAIN catalog' = DOMAIN catalog /\ Len(catalog') = Len(catalog)
       /\ catalog'[k] = header /\ \A i \in DOMAIN catalog : i # k => catalog'[i] = catalog[i]
       /\ catalog' \in Seq(Header)
  BY <1>1, <1>2, <1>5, <1>7
<1>11. /\ DOMAIN pages' = DOMAIN pages \cup {n} /\ pages'[n] = q /\ pages'[last] = linked
       /\ \A m \in DOMAIN pages : m # last => pages'[m] = pages[m]
  BY <1>1, <1>5, <1>6 DEF Put, linked
<1>12. /\ DOMAIN handle' = DOMAIN handle /\ handle'[r] = header
       /\ \A s \in DOMAIN handle : s # r => handle'[s] = handle[s]
  BY <1>5
<1>13. /\ disk' \in DbHeader /\ disk'.page_count = n
       /\ disk'.relation_count = mem.relation_count
  BY <1>2, <1>5, <1>6, MaxPagesAssumption DEF DbHeader, PageNo
<1>14. \A i \in DOMAIN catalog : catalog[i].name = r => i = k
  BY <1>1 DEF IInv, CatalogInv
<1>15. TypeOK'
  <2>1. SessionType' /\ HeadersType'
    BY <1>5, <1>13 DEF IInv, TypeOK, SessionType, HeadersType
  <2>2. RelationsType'
    BY <1>7, <1>10, <1>12 DEF IInv, TypeOK, RelationsType
  <2>3. PagesType'
    BY <1>6, <1>8, <1>9, <1>11 DEF IInv, TypeOK, PagesType
  <2> QED BY <2>1, <2>2, <2>3 DEF TypeOK
<1>16. SavedInv'
  <2>1. \A s \in DOMAIN handle' :
          /\ handle'[s].real_number \in DOMAIN catalog'
          /\ catalog'[handle'[s].real_number] = handle'[s]
          /\ handle'[s].name = s
    BY <1>1, <1>7, <1>10, <1>12, <1>14 DEF IInv, SavedInv
  <2>2. disk'.page_count > 0
    BY <1>6, <1>13, MaxPagesAssumption DEF PageNo
  <2> QED BY <1>1, <1>5, <2>1, <2>2 DEF SavedInv
<1>17. CatalogInv'
  <2>1. Len(catalog') = disk'.relation_count
    BY <1>2, <1>10, <1>13
  <2>2. /\ \A i \in DOMAIN catalog' : catalog'[i].real_number = i
        /\ \A i, j \in DOMAIN catalog' : catalog'[i].name = catalog'[j].name => i = j
    BY <1>1, <1>7, <1>10 DEF IInv, CatalogInv
  <2> QED BY <2>1, <2>2 DEF CatalogInv
<1>18. ChainInv'
  <2>1. DOMAIN pages' = 2 .. disk'.page_count
    <3>1. disk.page_count \in Nat /\ disk.page_count > 0
      BY <1>2, MaxPagesAssumption DEF DbHeader
    <3>2. 2 .. n = (2 .. disk.page_count) \cup {n}
      BY <1>6, <3>1
    <3> QED BY <1>2, <1>11, <1>13, <3>2
  <2>2. \A m \in DOMAIN pages' :
          /\ pages'[m].page_number = m
          /\ \E i \in DOMAIN catalog' : catalog'[i].name = pages'[m].relation_name
    BY <1>1, <1>7, <1>8, <1>9, <1>10, <1>11 DEF IInv, ChainInv, Owner
  <2>3. \A i \in DOMAIN catalog' : LET g == catalog'[i] IN
          /\ g.page_number_first \in DOMAIN pages'
          /\ pages'[g.page_number_first].relation_name = g.name
          /\ g.page_number_last \in DOMAIN pages'
          /\ pages'[g.page_number_last].relation_name = g.name
    <3>1. ASSUME NEW m \in DOMAIN pages
          PROVE  m \in DOMAIN pages' /\ pages'[m].relation_name = Owner(m)
      BY <1>1, <1>9, <1>11 DEF Owner
    <3>2. h.page_number_first \in DOMAIN pages /\ Owner(h.page_number_first) = r
      BY <1>1 DEF IInv, ChainInv
    <3>3. n \in DOMAIN pages' /\ pages'[n].relation_name = r
      BY <1>8, <1>11
    <3>4. \A i \in DOMAIN catalog : LET g == catalog[i] IN
            /\ g.page_number_first \in DOMAIN pages /\ Owner(g.page_number_first) = g.name
            /\ g.page_number_last \in DOMAIN pages /\ Owner(g.page_number_last) = g.name
      BY DEF IInv, ChainInv
    <3> QED BY <1>7, <1>10, <3>1, <3>2, <3>3, <3>4
  <2>4. ASSUME NEW i \in DOMAIN catalog', NEW m \in DOMAIN pages',
               pages'[m].relation_name = catalog'[i].name
        PROVE  InChain(m, catalog[i])'
    <3>1. catalog'[i].name = catalog[i].name /\ i \in DOMAIN catalog
      BY <1>1, <1>7, <1>10
    <3>2. CASE m = n
      <4>1. i = k
        BY <1>8, <1>11, <1>14, <2>4, <3>1, <3>2
      <4>2. h.page_number_first <= n /\ n <= n
        BY <1>3, <1>6, MaxPagesAssumption DEF PageNo
      <4>3. last \in DOMAIN pages' /\ last < n /\ pages'[last].next_page_number = n
        BY <1>1, <1>3, <1>6, <1>9, <1>11, MaxPagesAssumption DEF PageNo
      <4> QED BY <1>7, <1>8, <1>10, <1>11, <3>2, <4>1, <4>2, <4>3 DEF InChain, LinkOf
    <3>3. CASE m = last
      <4>1. i = k /\ InChain(m, h)
        BY <1>1, <1>9, <1>11, <1>14, <2>4, <3>1, <3>3 DEF IInv, ChainInv
      <4>2. /\ header.page_number_first <= m /\ m <= header.page_number_last
            /\ m # header.page_number_last /\ n # 0 /\ m < n
        BY <1>3, <1>6, <1>7, <3>3, MaxPagesAssumption DEF PageNo
      <4>3. m # header.page_number_first =>
              \E l \in DOMAIN pages' : l < m /\ pages'[l].next_page_number = m
        BY <1>7, <1>11, <3>3, <4>1 DEF InChain, LinkOf
      <4>4. catalog'[i] = header /\ LinkOf(m)' = n
        BY <1>9, <1>10, <1>11, <3>3, <4>1 DEF LinkOf
      <4>5. n \in DOMAIN pages' /\ pages'[n].relation_name = header.name
        BY <1>7, <1>8, <1>11
      <4> QED BY <4>2, <4>3, <4>4, <4>5 DEF InChain, LinkOf, Owner
    <3>4. CASE m # n /\ m # last
      <4>1. m \in DOMAIN pages /\ Owner(m) = catalog[i].name
        BY <1>11, <2>4, <3>1, <3>4 DEF Owner
      <4>2. InChain(m, catalog[i])
        BY <3>1, <4>1 DEF IInv, ChainInv
      <4>3. /\ catalog'[i].page_number_first = catalog[i].page_number_first
            /\ i # k => catalog'[i] = catalog[i]
        BY <1>1, <1>7, <1>10, <3>1
      <4>4. i = k => m < n /\ LinkOf(m) # 0 /\ m <= n
        <5>1. m \in Int
          BY <1>2, <4>1
        <5> QED BY <1>1, <1>3, <1>6, <3>4, <4>2, <5>1, MaxPagesAssumption DEF InChain, PageNo
      <4>5. LinkOf(m)' = LinkOf(m)
        BY <1>11, <3>4, <4>1 DEF LinkOf
      <4>6. LinkOf(m) # 0 => /\ LinkOf(m) \in DOMAIN pages'
                             /\ m < LinkOf(m)
                             /\ pages'[LinkOf(m)].relation_name = catalog[i].name
        BY <1>1, <1>9, <1>11, <4>2 DEF InChain, Owner
      <4>7. m # catalog[i].page_number_first =>
              \E l \in DOMAIN pages' : l < m /\ pages'[l].next_page_number = m
        <5>1. SUFFICES ASSUME m # catalog[i].page_number_first
                       PROVE  \E l \in DOMAIN pages' :
                                l < m /\ pages'[l].next_page_number = m
          OBVIOUS
        <5>2. PICK l \in DOMAIN pages : l < m /\ LinkOf(l) = m
          BY <4>2, <5>1 DEF InChain
        <5>3. m # 0
          BY <1>2, <4>1
        <5> QED BY <1>1, <1>11, <5>2, <5>3 DEF LinkOf
      <4>8. CASE i = k
        BY <1>7, <1>10, <3>1, <3>4, <4>2, <4>3, <4>4, <4>5, <4>6, <4>7, <4>8 DEF InChain, LinkOf, Owner
      <4>9. CASE i # k
        BY <3>1, <4>2, <4>3, <4>5, <4>6, <4>7, <4>9 DEF InChain, LinkOf, Owner
      <4> QED BY <4>8, <4>9
    <3> QED BY <3>2, <3>3, <3>4
  <2>5. ASSUME NEW m \in DOMAIN pages', NEW l \in DOMAIN pages', LinkOf(m)' = LinkOf(l)'
        PROVE  m = l \/ LinkOf(m)' = 0
    <3>1. \A x \in DOMAIN pages : LinkOf(x) # n
      <4>1. ASSUME NEW x \in DOMAIN pages PROVE LinkOf(x) # n
        <5>1. PICK i \in DOMAIN catalog : catalog[i].name = Owner(x)
          BY DEF IInv, ChainInv
        <5>2. InChain(x, catalog[i])
          BY <5>1 DEF IInv, ChainInv
        <5> QED BY <1>6, <5>2, MaxPagesAssumption DEF InChain, PageNo
      <4> QED BY <4>1
    <3> QED BY <1>8, <1>9, <1>11, <2>5, <3>1 DEF IInv, ChainInv, LinkOf
  <2> QED BY <2>1, <2>2, <2>3, <2>4, <2>5 DEF ChainInv, Owner
<1>19. SpaceInv'
  <2>1. ASSUME NEW i \in DOMAIN catalog', NEW m \in DOMAIN pages',
               pages'[m].relation_name = catalog'[i].name
        PROVE  PageFilled(pages'[m], catalog'[i].schema)
    <3>1. /\ catalog'[i].name = catalog[i].name /\ i \in DOMAIN catalog
          /\ catalog'[i].schema = catalog[i].schema
      BY <1>1, <1>7, <1>10
    <3>2. CASE m = n \/ m = last
      BY <1>1, <1>8, <1>9, <1>11, <1>14, <2>1, <3>1, <3>2
    <3>3. CASE m # n /\ m # last
      BY <1>11, <2>1, <3>1, <3>3 DEF IInv, SpaceInv, Owner
    <3> QED BY <3>2, <3>3
  <2> QED BY <2>1 DEF SpaceInv, Owner
<1> QED BY <1>15, <1>16, <1>17, <1>18, <1>19 DEF IInv

-----------------------------------------------------------------------------
(* The theorems *)

\* Every operation keeps the invariant
LEMMA NextIInv == IInv /\ [Next]_vars => IInv'
<1> SUFFICES ASSUME IInv, [Next]_vars PROVE IInv'
  OBVIOUS
<1>1. CASE database_create_in_file
  <2>1. DOMAIN handle = {} /\ indexed \subseteq Rel
    BY <1>1 DEF database_create_in_file, IInv, TypeOK, SessionType, SavedInv
  <2> QED BY <1>1, <2>1, CreateFile
<1>2. CASE database_get_from_file
  BY <1>2, OpenFile
<1>3. CASE database_close
  BY <1>3, CloseFile
<1>4. ASSUME NEW r \in Rel, NEW schema \in Schemas, relation_create(r, schema)
      PROVE  IInv'
  BY <1>4, CreateRelation
<1>5. ASSUME NEW r \in Rel, NEW schema \in Schemas, relation_create_again(r, schema)
      PROVE  IInv'
  BY <1>5, OnlyReply DEF relation_create_again, file, Reply, Answers,
     IInv, TypeOK, SessionType
<1>6. ASSUME NEW r \in Rel, relation_get(r) PROVE IInv'
  BY <1>6, GetRelation
<1>7. ASSUME NEW r \in Rel, relation_close(r) PROVE IInv'
  BY <1>7, CloseRelation
<1>8. ASSUME NEW r \in DOMAIN handle, NEW data \in Data(Schema(r)), row_insert(r, data)
      PROVE  IInv'
  BY <1>8, InsertInPlace
<1>9. ASSUME NEW r \in DOMAIN handle, NEW data \in Data(Schema(r)),
             row_insert_new_page(r, data)
      PROVE  IInv'
  BY <1>9, InsertOnNewPage
<1>10. ASSUME NEW r \in DOMAIN handle, NEW c \in Column, NEW set \in Column,
              no_attribute(r, c, set)
       PROVE  IInv'
  BY <1>10, OnlyReply DEF no_attribute, file, Reply, Answers,
     IInv, TypeOK, SessionType
<1>11. ASSUME NEW r \in DOMAIN handle, NEW c \in Column, NEW value \in Domain[c],
              row_select(r, c, value)
       PROVE  IInv'
  BY <1>11, OnlyReply DEF row_select, file, Reply, Answers,
     IInv, TypeOK, SessionType
<1>12. ASSUME NEW r \in DOMAIN handle, NEW c \in Column, NEW value \in Domain[c],
              row_delete(r, c, value)
       PROVE  IInv'
  BY <1>12, DeleteRows
<1>13. ASSUME NEW r \in DOMAIN handle, NEW c \in Column, NEW set \in Column,
              NEW value \in Domain[c], NEW new \in Domain[set],
              row_update(r, c, value, set, new)
       PROVE  IInv'
  BY <1>13, UpdateRows
<1>14. CASE UNCHANGED vars
  BY <1>14, OnlyReply DEF vars, file, IInv, TypeOK, SessionType
<1> QED BY <1>1, <1>2, <1>3, <1>4, <1>5, <1>6, <1>7, <1>8, <1>9, <1>10, <1>11, <1>12,
           <1>13, <1>14 DEF Next

\* Every state of the library satisfies the inductive invariant
THEOREM StoreInvariant == Spec => []IInv
  BY InitIInv, NextIInv, PTL DEF Spec

\* No write pointer passes the end of its page and the 16-bit count of free
\* bytes never wraps, whatever the sizes, schemas and number of operations
THEOREM TypeCorrect == Spec => []TypeOK
<1>1. IInv => TypeOK
  BY DEF IInv
<1> QED BY <1>1, StoreInvariant, PTL

\* What the program has in memory is in the file whenever an operation returns
THEOREM AlwaysSaved == Spec => []SavedInv
<1>1. IInv => SavedInv
  BY DEF IInv
<1> QED BY <1>1, StoreInvariant, PTL

\* No two relations of the catalog have one name, and every header is in the
\* slot it names
THEOREM CatalogCorrect == Spec => []CatalogInv
<1>1. IInv => CatalogInv
  BY DEF IInv
<1> QED BY <1>1, StoreInvariant, PTL

\* The pages are divided among the relations in chains that are not mixed
THEOREM ChainsCorrect == Spec => []ChainInv
<1>1. IInv => ChainInv
  BY DEF IInv
<1> QED BY <1>1, StoreInvariant, PTL

\* What is used and what is free add up to the page, on every page
THEOREM SpaceAccounted == Spec => []SpaceInv
<1>1. IInv => SpaceInv
  BY DEF IInv
<1> QED BY <1>1, StoreInvariant, PTL

-----------------------------------------------------------------------------
(* The offsets of rows *)

\* write_ptr is behind a whole number of rows
Aligned(p, schema) ==
  \E k \in 0 .. PageSize : p.write_ptr = FirstRow(schema.columns) + k * RowSize(schema)

\* The offsets of a page are those of the first k rows
LEMMA OffsetsOf ==
  ASSUME NEW schema \in Schemas, NEW p, NEW k \in 0 .. PageSize,
         p.write_ptr = FirstRow(schema.columns) + k * RowSize(schema)
  PROVE  RowOffsets(p, schema) =
           {FirstRow(schema.columns) + j * RowSize(schema) : j \in 0 .. k - 1}
<1> DEFINE F == FirstRow(schema.columns)
           R == RowSize(schema)
<1>1. F \in Nat /\ R \in Nat /\ R > 0 /\ k \in Nat /\ PageSize \in Nat
  BY LayoutNat, SizesAssumption
<1> HIDE DEF F, R
<1>2. \A j \in Nat : /\ j * R \in Nat
                     /\ j < k => j * R + R <= k * R
                     /\ j * R < k * R => j < k
  BY <1>1, Multiples
<1>3. k * R \in Nat /\ p.write_ptr = F + k * R
  BY <1>1, <1>2 DEF F, R
<1>4. RowOffsets(p, schema) = {F + j * R : j \in 0 .. PageSize} \cap (0 .. p.write_ptr - 1)
  BY DEF RowOffsets, F, R
<1>5. ASSUME NEW j \in 0 .. PageSize, F + j * R \in 0 .. p.write_ptr - 1
      PROVE  j \in 0 .. k - 1
  BY <1>1, <1>2, <1>3, <1>5
<1>6. ASSUME NEW j \in 0 .. k - 1
      PROVE  j \in 0 .. PageSize /\ F + j * R \in 0 .. p.write_ptr - 1
  BY <1>1, <1>2, <1>3
<1> QED BY <1>4, <1>5, <1>6 DEF F, R

\* A page without rows has no offsets
LEMMA NoOffsets ==
  ASSUME NEW schema \in Schemas, NEW p, p.write_ptr = FirstRow(schema.columns)
  PROVE  Aligned(p, schema) /\ RowOffsets(p, schema) = {}
<1>1. /\ 0 \in 0 .. PageSize
      /\ FirstRow(schema.columns) + 0 * RowSize(schema) = FirstRow(schema.columns)
  BY LayoutNat, SizesAssumption
<1>2. RowOffsets(p, schema) =
        {FirstRow(schema.columns) + j * RowSize(schema) : j \in 0 .. 0 - 1}
  BY <1>1, OffsetsOf
<1>3. 0 .. 0 - 1 = {}
  OBVIOUS
<1> QED BY <1>1, <1>2, <1>3 DEF Aligned

\* A row more is one more offset: that at which it was written
LEMMA NextOffset ==
  ASSUME NEW schema \in Schemas, NEW p, NEW q, Aligned(p, schema),
         q.write_ptr = p.write_ptr + RowSize(schema), q.write_ptr <= PageSize
  PROVE  Aligned(q, schema) /\ RowOffsets(q, schema) = RowOffsets(p, schema) \cup {p.write_ptr}
<1> DEFINE F == FirstRow(schema.columns)
           R == RowSize(schema)
           at(j) == F + j * R
<1>1. F \in Nat /\ R \in Nat /\ R > 0 /\ PageSize \in Nat
  BY LayoutNat, SizesAssumption
<1>2. PICK k \in 0 .. PageSize : p.write_ptr = at(k)
  BY DEF Aligned
<1>3. q.write_ptr = at(k + 1) /\ k + 1 <= (k + 1) * R
  <2>1. k \in Nat /\ k + 1 \in Nat
    BY <1>1
  <2> QED BY <1>1, <1>2, <2>1, Multiples
<1>4. k + 1 \in 0 .. PageSize
  <2>1. (k + 1) * R \in Nat
    BY <1>1
  <2> QED BY <1>1, <1>3, <2>1
<1>5. RowOffsets(p, schema) = {at(j) : j \in 0 .. k - 1}
  BY <1>2, OffsetsOf
<1>6. RowOffsets(q, schema) = {at(j) : j \in 0 .. k + 1 - 1}
  BY <1>3, <1>4, OffsetsOf
<1>7. 0 .. k + 1 - 1 = (0 .. k - 1) \cup {k}
  OBVIOUS
<1> HIDE DEF at
<1>8. Aligned(q, schema)
  BY <1>3, <1>4 DEF Aligned, at
<1> QED BY <1>2, <1>5, <1>6, <1>7, <1>8

-----------------------------------------------------------------------------
(* What a scan reaches *)

OwnedIn(file_pages, name) == {n \in DOMAIN file_pages : file_pages[n].relation_name = name}
Owned(name) == OwnedIn(pages, name)

\* A page of relation h has h's columns; its link, if any, leads to a page of h;
\* it is the first page or the link of an earlier page of h leads to it.
LEMMA OwnedPage ==
  ASSUME IInv, NEW i \in DOMAIN catalog, NEW h, h = catalog[i], NEW n \in Owned(h.name)
  PROVE  /\ n \in Nat /\ n # 0 /\ IsPage(pages[n]) /\ PageFilled(pages[n], h.schema)
         /\ LinkOf(n) # 0 => LinkOf(n) \in Owned(h.name)
         /\ n # h.page_number_first =>
              \E m \in Owned(h.name) : m < n /\ LinkOf(m) = n
<1>1. n \in DOMAIN pages /\ Owner(n) = h.name
  BY DEF Owned, OwnedIn, Owner
<1>2. IsPage(pages[n]) /\ PageFilled(pages[n], h.schema) /\ InChain(n, h)
  BY <1>1 DEF IInv, TypeOK, PagesType, SpaceInv, ChainInv
<1>3. DOMAIN pages \subseteq PageNo
  BY DEF IInv, TypeOK, PagesType
<1>4. n \in Nat /\ n # 0
  BY <1>1, <1>3, MaxPagesAssumption DEF PageNo
<1>5. LinkOf(n) # 0 => LinkOf(n) \in Owned(h.name)
  BY <1>2 DEF InChain, Owned, OwnedIn, Owner
<1>6. ASSUME n # h.page_number_first
      PROVE  \E m \in Owned(h.name) : m < n /\ LinkOf(m) = n
  <2>1. PICK m \in DOMAIN pages : m < n /\ LinkOf(m) = n
    BY <1>2, <1>6 DEF InChain
  <2>2. PICK j \in DOMAIN catalog : catalog[j].name = Owner(m)
    BY DEF IInv, ChainInv
  <2>3. InChain(m, catalog[j])
    BY <2>2 DEF IInv, ChainInv
  <2>4. Owner(n) = Owner(m)
    BY <1>4, <2>1, <2>2, <2>3 DEF InChain
  <2> QED BY <1>1, <2>1, <2>4 DEF Owned, OwnedIn, Owner
<1> QED BY <1>2, <1>4, <1>5, <1>6

\* A page that has a successor has a row, so a scan goes on to the successor
LEMMA ScanGoesOn ==
  ASSUME IInv, NEW i \in DOMAIN catalog, NEW h, h = catalog[i], NEW n \in Owned(h.name)
  PROVE  ScanNext(pages, h.schema, n) = IF LinkOf(n) = 0 THEN {} ELSE {LinkOf(n)}
<1>1. h.schema \in Schemas
  <2>1. h \in Header
    BY DEF IInv, TypeOK, RelationsType
  <2> QED BY <2>1 DEF Header
<1>2. IsPage(pages[n]) /\ PageFilled(pages[n], h.schema)
  BY OwnedPage
<1>3. /\ FirstRow(h.schema.columns) \in Nat /\ RowSize(h.schema) \in Nat
      /\ FirstRow(h.schema.columns) + RowSize(h.schema) <= PageSize
  BY <1>1, LayoutNat
<1>4. LinkOf(n) # 0 => pages[n].write_ptr # FirstRow(h.schema.columns)
  BY <1>2, <1>3, SizesAssumption DEF IsPage, PageFilled, LinkOf
<1> QED BY <1>4 DEF ScanNext, LinkOf

\* A scan reaches the pages of its relation, and no other
LEMMA ScanReaches ==
  ASSUME IInv, NEW i \in DOMAIN catalog, NEW h, h = catalog[i]
  PROVE  Scanned(pages, h.schema, h.page_number_first) = Owned(h.name)
<1> DEFINE owned == Owned(h.name)
           first == h.page_number_first
           next(n) == ScanNext(pages, h.schema, n)
<1>1. first \in owned /\ owned \subseteq DOMAIN pages
  BY DEF IInv, ChainInv, Owned, OwnedIn, Owner
<1>2. ASSUME NEW n \in owned PROVE next(n) \subseteq owned
  <2>1. LinkOf(n) # 0 => LinkOf(n) \in owned
    BY OwnedPage
  <2>2. next(n) = IF LinkOf(n) = 0 THEN {} ELSE {LinkOf(n)}
    BY ScanGoesOn
  <2> QED BY <2>1, <2>2
<1>3. ASSUME NEW S \in SUBSET DOMAIN pages, first \in S,
             \A m \in S : next(m) \subseteq S
      PROVE  owned \subseteq S
  <2>1. SUFFICES ASSUME owned \ S # {} PROVE FALSE
    OBVIOUS
  <2>2. owned \subseteq Nat
    BY OwnedPage
  <2>3. PICK n \in owned \ S : \A m \in owned \ S : n <= m
    BY <2>1, <2>2, LeastNumber
  <2>4. PICK m \in owned : m < n /\ LinkOf(m) = n
    BY <1>3, <2>3, OwnedPage
  <2>5. m \in S
    BY <2>2, <2>3, <2>4
  <2>6. n # 0 /\ next(m) = {n}
    BY <2>3, <2>4, OwnedPage, ScanGoesOn
  <2> QED BY <1>3, <2>3, <2>5, <2>6
<1> QED BY <1>1, <1>2, <1>3 DEF Scanned

-----------------------------------------------------------------------------
(* What the operations that write do to the file *)

\* A page with its header and its columns
FreshPage(n, name, schema) ==
  [page_number |-> n, relation_name |-> name,
   write_ptr |-> FirstRow(schema.columns),
   remaining_space |-> PageSize - FirstRow(schema.columns),
   next_page_number |-> 0, columns |-> schema.columns, rows |-> EmptyMap]

LEMMA FreshPageWritten ==
  ASSUME NEW n, NEW name, NEW schema \in Schemas,
         NEW p, p = columns_write(page_create(n, name), schema.columns)
  PROVE  p = FreshPage(n, name, schema)
<1> DEFINE F == FirstRow(schema.columns)
<1>1. F \in 0 .. PageSize /\ PageSize - F \in 0 .. PageSize
  BY LayoutNat, SizesAssumption
<1>2. U16(PageSize - F) = PageSize - F
  BY <1>1, U16Keeps
<1>3. p = [page_number |-> n, relation_name |-> name, write_ptr |-> 0 + F,
           remaining_space |-> PageSize - F, next_page_number |-> 0,
           columns |-> schema.columns, rows |-> EmptyMap]
  BY <1>2 DEF columns_write, take, page_create
<1> QED BY <1>1, <1>3 DEF FreshPage

\* relation_create: page n and slot k are new, and are for a name that had neither
PageForRelation(r, schema, n, k) ==
  /\ n \notin DOMAIN pages /\ k \notin DOMAIN catalog
  /\ pages' = Put(pages, n, FreshPage(n, r, schema))
  /\ DOMAIN catalog' = DOMAIN catalog \cup {k}
  /\ \A i \in DOMAIN catalog : catalog'[i] = catalog[i] /\ catalog[i].name # r
  /\ catalog'[k].name = r /\ catalog'[k].schema = schema
  /\ catalog'[k].page_number_first = n /\ catalog'[k].page_count = 1
  /\ \A m \in DOMAIN pages : Owner(m) # r

LEMMA CreateEffect ==
  ASSUME IInv, NEW r \in Rel, NEW schema \in Schemas, relation_create(r, schema)
  PROVE  \E n, k : n \in PageNo /\ PageForRelation(r, schema, n, k)
<1> DEFINE n == mem.page_count + 1
           k == Len(catalog) + 1
           added == page_add(NewHeader(r, schema), n)
           header == [added EXCEPT !.real_number = mem.relation_count + 1]
<1>1. /\ opened /\ Slots(r) = {} /\ mem.page_count < MaxPages
      /\ catalog' = Append(catalog, header)
      /\ pages' = Put(pages, n, columns_write(page_create(n, r), schema.columns))
  BY DEF relation_create
<1>2. /\ mem = disk /\ mem \in DbHeader /\ disk.page_count > 0
      /\ Len(catalog) = mem.relation_count /\ catalog \in Seq(Header)
      /\ DOMAIN pages = 2 .. disk.page_count
  BY <1>1 DEF IInv, TypeOK, HeadersType, RelationsType, SavedInv, CatalogInv, ChainInv
<1>3. n \in PageNo /\ n \notin DOMAIN pages /\ n \in Nat
  BY <1>1, <1>2, MaxPagesAssumption DEF PageNo, DbHeader
<1>4. /\ header.name = r /\ header.schema = schema
      /\ header.page_number_first = n /\ header.page_count = 1
  <2>1. /\ added.name = r /\ added.schema = schema
        /\ added.page_number_first = n /\ added.page_count = 1
        /\ DOMAIN added = {"name", "schema", "page_number_first", "page_number_last",
                           "page_count", "real_number"}
    BY DEF page_add, NewHeader
  <2> HIDE DEF added
  <2> QED BY <2>1
<1> HIDE DEF header
<1>5. /\ DOMAIN catalog' = DOMAIN catalog \cup {k} /\ k \notin DOMAIN catalog
      /\ catalog'[k] = header /\ \A i \in DOMAIN catalog : catalog'[i] = catalog[i]
  BY <1>1, <1>2
<1>6. \A i \in DOMAIN catalog : catalog[i].name # r
  BY <1>1, <1>2 DEF Slots
<1>7. \A m \in DOMAIN pages : Owner(m) # r
  BY <1>6 DEF IInv, ChainInv
<1>8. pages' = Put(pages, n, FreshPage(n, r, schema))
  BY <1>1, FreshPageWritten
<1> QED BY <1>3, <1>4, <1>5, <1>6, <1>7, <1>8 DEF PageForRelation

\* The slot of header h counts a page more
SlotCounts(h) ==
  /\ DOMAIN catalog' = DOMAIN catalog
  /\ \A i \in DOMAIN catalog : i # h.real_number => catalog'[i] = catalog[i]
  /\ LET g == catalog'[h.real_number] IN
     /\ g.name = h.name /\ g.schema = h.schema
     /\ g.page_number_first = h.page_number_first
     /\ g.page_count = h.page_count + 1

\* row_insert on a new page: the last page gets a link, the slot counts a page
\* more, and the row is on the new page
PageForRow(h, data, n) ==
  /\ n \notin DOMAIN pages
  /\ pages' = Put([pages EXCEPT ![h.page_number_last].next_page_number = n], n,
                  row_write(FreshPage(n, h.name, h.schema), h.schema, data))
  /\ SlotCounts(h)

LEMMA NewPageEffect ==
  ASSUME IInv, NEW r \in DOMAIN handle, NEW data \in Data(Schema(r)),
         row_insert_new_page(r, data), NEW h, h = handle[r]
  PROVE  \E n \in PageNo : PageForRow(h, data, n)
<1> DEFINE last == h.page_number_last
           n == mem.page_count + 1
           header == page_add(h, n)
           k == h.real_number
<1>1. /\ opened /\ r \in Rel /\ h \in Header /\ h.name = r
      /\ k \in DOMAIN catalog /\ catalog[k] = h
      /\ IsPage(pages[last]) /\ PageFilled(pages[last], h.schema) /\ last # 0
  BY OpenRelation
<1>2. /\ mem = disk /\ mem \in DbHeader /\ disk.page_count > 0
      /\ catalog \in Seq(Header) /\ DOMAIN pages = 2 .. disk.page_count
  BY <1>1 DEF IInv, TypeOK, HeadersType, RelationsType, SavedInv, CatalogInv, ChainInv
<1>3. mem.page_count < MaxPages
  BY DEF row_insert_new_page
<1>4. n \in PageNo /\ n \notin DOMAIN pages /\ n \in Nat
  BY <1>2, <1>3, MaxPagesAssumption DEF PageNo, DbHeader
<1>5. h \in AnyHeader /\ h.schema \in Schemas
  BY <1>1, MaxPagesAssumption DEF Header, AnyHeader, PageNo
<1>6. /\ header.name = r /\ header.schema = h.schema /\ header.real_number = k
      /\ header.page_number_first = h.page_number_first
      /\ header.page_count = h.page_count + 1
  BY <1>1, <1>4, <1>5, PageAdded
<1> HIDE DEF header
<1>7. /\ catalog' = [catalog EXCEPT ![k] = header]
      /\ pages' = Put([pages EXCEPT ![last].next_page_number = n], n,
                      row_write(columns_write(page_create(n, r), h.schema.columns), h.schema, data))
  <2>1. /\ catalog' = [catalog EXCEPT ![header.real_number] = header]
        /\ pages' = Put([pages EXCEPT ![last].next_page_number = n], n,
             row_write(columns_write(page_create(n, header.name), pages[last].columns), h.schema, data))
    BY DEF row_insert_new_page, relation_header_save_changes, file_update_last_page,
           LastPage, Schema, header
  <2> QED BY <1>1, <1>6, <2>1 DEF PageFilled
<1>8. columns_write(page_create(n, r), h.schema.columns) = FreshPage(n, r, h.schema)
  BY <1>5, FreshPageWritten
<1>9. /\ DOMAIN catalog' = DOMAIN catalog /\ catalog'[k] = header
      /\ \A i \in DOMAIN catalog : i # k => catalog'[i] = catalog[i]
  BY <1>1, <1>7
<1>10. pages' = Put([pages EXCEPT ![last].next_page_number = n], n,
                    row_write(FreshPage(n, r, h.schema), h.schema, data))
  BY <1>7, <1>8
<1> QED BY <1>1, <1>4, <1>6, <1>9, <1>10 DEF PageForRow, SlotCounts

-----------------------------------------------------------------------------
(* The inductive invariant of the rows *)

IsRecord(p) ==
  p = [page_number |-> p.page_number, relation_name |-> p.relation_name,
       write_ptr |-> p.write_ptr, remaining_space |-> p.remaining_space,
       next_page_number |-> p.next_page_number, columns |-> p.columns, rows |-> p.rows]

RowsFit(p, schema) == Aligned(p, schema) /\ DOMAIN p.rows = RowOffsets(p, schema)

\* The rows of relation h fit, and h counts its pages
RelationFits(file_pages, h) ==
  /\ \A n \in OwnedIn(file_pages, h.name) : RowsFit(file_pages[n], h.schema)
  /\ h.page_count = Cardinality(OwnedIn(file_pages, h.name))

\* Beside IInv: the rows of a page are behind each other from the first offset on
\* and end at write_ptr, and a header counts the pages of its relation
RowsIInv ==
  /\ \A n \in DOMAIN pages : IsRecord(pages[n])
  /\ \A i \in DOMAIN catalog : RelationFits(pages, catalog[i])

\* The pages of a relation are finitely many
LEMMA OwnedFinite ==
  ASSUME IInv, NEW name
  PROVE  IsFiniteSet(Owned(name)) /\ Cardinality(Owned(name)) \in Nat
<1>1. disk.page_count \in Int /\ DOMAIN pages = 2 .. disk.page_count
  BY MaxPagesAssumption DEF IInv, TypeOK, HeadersType, DbHeader, ChainInv
<1>2. IsFiniteSet(DOMAIN pages) /\ Owned(name) \in SUBSET DOMAIN pages
  BY <1>1, FS_Interval DEF Owned, OwnedIn, Owner
<1> QED BY <1>2, FS_Subset, FS_CardinalityType

\* The schema of a slot is a schema
LEMMA SlotSchema ==
  ASSUME IInv, NEW i \in DOMAIN catalog
  PROVE  catalog[i] \in Header /\ catalog[i].schema \in Schemas
<1>1. catalog[i] \in Header
  BY DEF IInv, TypeOK, RelationsType
<1> QED BY <1>1 DEF Header

\* A new page fits: it has no rows
LEMMA FreshPageFits ==
  ASSUME NEW n, NEW name, NEW schema \in Schemas, NEW p, p = FreshPage(n, name, schema)
  PROVE  RowsFit(p, schema) /\ IsRecord(p)
<1>1. p.write_ptr = FirstRow(schema.columns) /\ p.rows = EmptyMap
  BY DEF FreshPage
<1>2. DOMAIN p.rows = {}
  BY <1>1 DEF EmptyMap
<1>3. IsRecord(p)
  BY DEF IsRecord, FreshPage
<1> QED BY <1>1, <1>2, <1>3, NoOffsets DEF RowsFit

\* Page q is page p with a row more, which is at the end of p
RowAdded(p, q, data) ==
  /\ q.relation_name = p.relation_name /\ q.columns = p.columns
  /\ q.next_page_number = p.next_page_number
  /\ p.write_ptr \notin DOMAIN p.rows /\ p.write_ptr \in 0 .. PageSize
  /\ DOMAIN q.rows = DOMAIN p.rows \cup {p.write_ptr}
  /\ q.rows[p.write_ptr] = [is_available |-> TRUE, data |-> data]
  /\ \A o \in DOMAIN p.rows : q.rows[o] = p.rows[o]

\* A page with a row more fits
LEMMA WrittenPageFits ==
  ASSUME NEW schema \in Schemas, NEW data \in Data(schema),
         NEW p, IsPage(p), PageFilled(p, schema), IsRecord(p), RowsFit(p, schema),
         p.remaining_space >= RowSize(schema),
         NEW q, q = row_write(p, schema, data)
  PROVE  RowsFit(q, schema) /\ IsRecord(q) /\ RowAdded(p, q, data)
<1>1. /\ IsPage(q) /\ q.relation_name = p.relation_name
      /\ q.columns = p.columns /\ q.next_page_number = p.next_page_number
      /\ q.write_ptr = p.write_ptr + RowSize(schema)
      /\ q.rows = Put(p.rows, p.write_ptr, [is_available |-> TRUE, data |-> data])
  BY RowWritten DEF PageFilled
<1>2. Aligned(q, schema) /\ RowOffsets(q, schema) = RowOffsets(p, schema) \cup {p.write_ptr}
  BY <1>1, NextOffset DEF IsPage, RowsFit
<1>3. p.write_ptr \notin DOMAIN p.rows /\ p.write_ptr \in 0 .. PageSize
  BY DEF RowsFit, RowOffsets, IsPage
<1>4. IsRecord(q)
  BY DEF IsRecord, row_write, take, IsPage
<1>5. /\ DOMAIN q.rows = DOMAIN p.rows \cup {p.write_ptr}
      /\ q.rows[p.write_ptr] = [is_available |-> TRUE, data |-> data]
      /\ \A o \in DOMAIN p.rows : q.rows[o] = p.rows[o]
  BY <1>1, <1>3 DEF Put
<1> QED BY <1>1, <1>2, <1>3, <1>4, <1>5 DEF RowsFit, RowAdded

\* Rows written over rows: the pages have rows where they had
LEMMA OverwrittenPagesFit ==
  ASSUME IInv, RowsIInv, NEW new, NEW n \in DOMAIN pages,
         NEW q, q = Overwrite(pages, new)[n]
  PROVE  /\ IsRecord(q) /\ q.relation_name = pages[n].relation_name
         /\ q.columns = pages[n].columns /\ q.next_page_number = pages[n].next_page_number
         /\ q.write_ptr = pages[n].write_ptr
         /\ DOMAIN q.rows = DOMAIN pages[n].rows
         /\ \A o \in DOMAIN pages[n].rows :
              q.rows[o] = IF <<n, o>> \in DOMAIN new THEN new[<<n, o>>] ELSE pages[n].rows[o]
         /\ \A schema : RowsFit(pages[n], schema) => RowsFit(q, schema)
<1> DEFINE p == pages[n]
           old == p.rows
           rows == [o \in DOMAIN old |-> IF <<n, o>> \in DOMAIN new THEN new[<<n, o>>] ELSE old[o]]
<1>1. IsRecord(p)
  BY DEF RowsIInv
<1>2. q = [p EXCEPT !.rows = rows]
  BY DEF Overwrite
<1> HIDE DEF rows, p
<1>3. /\ q.page_number = p.page_number /\ q.relation_name = p.relation_name
      /\ q.columns = p.columns /\ q.next_page_number = p.next_page_number
      /\ q.write_ptr = p.write_ptr /\ q.rows = rows /\ IsRecord(q)
  BY <1>1, <1>2 DEF IsRecord
<1>4. \A schema : RowsFit(p, schema) => RowsFit(q, schema)
  BY <1>3 DEF RowsFit, Aligned, RowOffsets, rows
<1> QED BY <1>3, <1>4 DEF rows, p

\* The pages keep their relations and the rows of each fit
LEMMA RowsStayFit ==
  ASSUME IInv, RowsIInv, UNCHANGED catalog, DOMAIN pages' = DOMAIN pages,
         \A n \in DOMAIN pages :
           /\ IsRecord(pages'[n]) /\ pages'[n].relation_name = pages[n].relation_name
           /\ \A i \in DOMAIN catalog :
                Owner(n) = catalog[i].name /\ RowsFit(pages[n], catalog[i].schema)
                  => RowsFit(pages'[n], catalog[i].schema)
  PROVE  RowsIInv'
<1>1. \A name : OwnedIn(pages', name) = OwnedIn(pages, name)
  BY DEF OwnedIn
<1>2. ASSUME NEW i \in DOMAIN catalog, NEW h, h = catalog[i]
      PROVE  RelationFits(pages', h)
  <2>1. RelationFits(pages, h)
    BY <1>2 DEF RowsIInv
  <2>2. ASSUME NEW n \in OwnedIn(pages, h.name) PROVE RowsFit(pages'[n], h.schema)
    BY <1>2, <2>1 DEF RelationFits, OwnedIn, Owner
  <2> QED BY <1>1, <2>1, <2>2 DEF RelationFits
<1> QED BY <1>2 DEF RowsIInv

LEMMA OverwriteRowsIInv ==
  ASSUME IInv, RowsIInv, UNCHANGED catalog, NEW new, pages' = Overwrite(pages, new)
  PROVE  RowsIInv'
<1>1. DOMAIN pages' = DOMAIN pages
  BY DEF Overwrite
<1>2. ASSUME NEW n \in DOMAIN pages
      PROVE  /\ IsRecord(pages'[n]) /\ pages'[n].relation_name = pages[n].relation_name
             /\ \A schema : RowsFit(pages[n], schema) => RowsFit(pages'[n], schema)
  BY OverwrittenPagesFit
<1> QED BY <1>1, <1>2, RowsStayFit

LEMMA CreateRowsIInv ==
  ASSUME IInv, RowsIInv, NEW r \in Rel, NEW schema \in Schemas, relation_create(r, schema)
  PROVE  RowsIInv'
<1>a. PICK n, k : n \in PageNo /\ PageForRelation(r, schema, n, k)
  BY CreateEffect
<1>1. /\ n \notin DOMAIN pages /\ k \notin DOMAIN catalog
      /\ pages' = Put(pages, n, FreshPage(n, r, schema))
      /\ DOMAIN catalog' = DOMAIN catalog \cup {k}
      /\ \A i \in DOMAIN catalog : catalog'[i] = catalog[i] /\ catalog[i].name # r
      /\ catalog'[k].name = r /\ catalog'[k].schema = schema
      /\ catalog'[k].page_number_first = n /\ catalog'[k].page_count = 1
      /\ \A m \in DOMAIN pages : Owner(m) # r
  BY <1>a DEF PageForRelation
<1>2. /\ DOMAIN pages' = DOMAIN pages \cup {n} /\ pages'[n] = FreshPage(n, r, schema)
      /\ \A m \in DOMAIN pages : pages'[m] = pages[m]
  BY <1>1 DEF Put
<1>3. RowsFit(pages'[n], schema) /\ IsRecord(pages'[n])
  BY <1>2, FreshPageFits
<1>4. pages'[n].relation_name = r
  BY <1>2 DEF FreshPage
<1>5. /\ OwnedIn(pages', r) = {n}
      /\ \A name : name # r => OwnedIn(pages', name) = OwnedIn(pages, name)
  BY <1>1, <1>2, <1>4 DEF OwnedIn, Owner
<1>6. RelationFits(pages', catalog'[k])
  <2>1. Cardinality({n}) = 1
    BY FS_Singleton
  <2> QED BY <1>1, <1>3, <1>5, <2>1 DEF RelationFits
<1>7. ASSUME NEW i \in DOMAIN catalog, NEW h, h = catalog[i]
      PROVE  RelationFits(pages', h)
  <2>1. RelationFits(pages, h) /\ OwnedIn(pages', h.name) = OwnedIn(pages, h.name)
    BY <1>1, <1>5, <1>7 DEF RowsIInv
  <2> QED BY <1>2, <2>1 DEF RelationFits, OwnedIn
<1>8. \A m \in DOMAIN pages' : IsRecord(pages'[m])
  BY <1>2, <1>3 DEF RowsIInv
<1> QED BY <1>1, <1>6, <1>7, <1>8 DEF RowsIInv

\* row_insert on the last page: the page gets a row more and still fits
LEMMA InsertedRow ==
  ASSUME IInv, RowsIInv, NEW r \in DOMAIN handle, NEW data \in Data(Schema(r)),
         row_insert(r, data),
         NEW h, h = handle[r], NEW p, p = LastPage(r), NEW q, q = row_write(p, Schema(r), data)
  PROVE  /\ h.page_number_last \in DOMAIN pages /\ p = pages[h.page_number_last]
         /\ pages' = [pages EXCEPT ![h.page_number_last] = q] /\ UNCHANGED catalog
         /\ RowsFit(q, h.schema) /\ IsRecord(q) /\ RowAdded(p, q, data)
<1> DEFINE last == h.page_number_last
<1>1. /\ h \in Header /\ h.name = r /\ h.real_number \in DOMAIN catalog
      /\ catalog[h.real_number] = h /\ last \in DOMAIN pages /\ Owner(last) = r
      /\ p = pages[last] /\ IsPage(p) /\ PageFilled(p, h.schema)
  BY OpenRelation DEF LastPage
<1>2. /\ p.remaining_space >= RowSize(h.schema) /\ data \in Data(h.schema)
      /\ pages' = [pages EXCEPT ![last] = q]
      /\ UNCHANGED catalog
      /\ q = row_write(p, h.schema, data)
  BY DEF row_insert, is_enough_space, LastPage, Schema
<1>3. IsRecord(p) /\ RowsFit(p, h.schema) /\ h.schema \in Schemas
  <2>1. h.schema \in Schemas
    BY <1>1 DEF Header
  <2>2. RelationFits(pages, h) /\ last \in OwnedIn(pages, h.name)
    BY <1>1 DEF RowsIInv, OwnedIn, Owner
  <2> QED BY <1>1, <2>1, <2>2 DEF RowsIInv, RelationFits
<1>4. RowsFit(q, h.schema) /\ IsRecord(q) /\ RowAdded(p, q, data)
  BY <1>1, <1>2, <1>3, WrittenPageFits
<1> QED BY <1>1, <1>2, <1>4

LEMMA InsertRowsIInv ==
  ASSUME IInv, RowsIInv, NEW r \in DOMAIN handle, NEW data \in Data(Schema(r)),
         row_insert(r, data)
  PROVE  RowsIInv'
<1>1. PICK h : h = handle[r]
  OBVIOUS
<1>2. PICK p, q : p = LastPage(r) /\ q = row_write(p, Schema(r), data)
  OBVIOUS
<1> DEFINE last == h.page_number_last
<1>3. /\ last \in DOMAIN pages /\ p = pages[last]
      /\ pages' = [pages EXCEPT ![last] = q] /\ UNCHANGED catalog
      /\ RowsFit(q, h.schema) /\ IsRecord(q) /\ RowAdded(p, q, data)
  BY <1>1, <1>2, InsertedRow
<1>4. \A i \in DOMAIN catalog : catalog[i].name = r => catalog[i] = h
  <2>1. h.name = r /\ h.real_number \in DOMAIN catalog /\ catalog[h.real_number] = h
    BY <1>1, OpenRelation
  <2> QED BY <2>1 DEF IInv, CatalogInv
<1>5. Owner(last) = r
  BY <1>1, OpenRelation
<1>6. ASSUME NEW n \in DOMAIN pages
      PROVE  /\ IsRecord(pages'[n]) /\ pages'[n].relation_name = pages[n].relation_name
             /\ \A i \in DOMAIN catalog :
                  Owner(n) = catalog[i].name /\ RowsFit(pages[n], catalog[i].schema)
                    => RowsFit(pages'[n], catalog[i].schema)
  <2>1. CASE n = last
    BY <1>3, <1>4, <1>5, <2>1 DEF RowAdded
  <2>2. CASE n # last
    BY <1>3, <2>2 DEF RowsIInv
  <2> QED BY <2>1, <2>2
<1>7. DOMAIN pages' = DOMAIN pages
  BY <1>3
<1> QED BY <1>3, <1>6, <1>7, RowsStayFit

\* A fresh page with one row fits
LEMMA FirstRowFits ==
  ASSUME NEW n \in PageNo, NEW r \in Rel, NEW schema \in Schemas, NEW data \in Data(schema),
         NEW q, q = row_write(FreshPage(n, r, schema), schema, data)
  PROVE  /\ RowsFit(q, schema) /\ IsRecord(q)
         /\ RowAdded(FreshPage(n, r, schema), q, data)
<1> DEFINE F == FirstRow(schema.columns)
<1>1. F \in Nat /\ RowSize(schema) \in Nat /\ F + RowSize(schema) <= PageSize
  BY LayoutNat
<1>2. PICK p : p = columns_write(page_create(n, r), schema.columns)
  OBVIOUS
<1>3. p = FreshPage(n, r, schema)
  BY <1>2, FreshPageWritten
<1>4. /\ IsPage(p) /\ p.next_page_number = 0 /\ p.columns = schema.columns
      /\ p.write_ptr = F /\ p.remaining_space = PageSize - F
  BY <1>2, NewPage
<1> HIDE DEF F
<1>5. PageFilled(p, schema) /\ p.remaining_space >= RowSize(schema)
  BY <1>1, <1>4, SizesAssumption DEF PageFilled, F
<1>6. RowsFit(p, schema) /\ IsRecord(p)
  BY <1>3, FreshPageFits
<1>7. q = row_write(p, schema, data)
  BY <1>3
<1> QED BY <1>3, <1>4, <1>5, <1>6, <1>7, WrittenPageFits

\* Page q is page p but for its link
Linked(p, q) ==
  /\ q.relation_name = p.relation_name /\ q.columns = p.columns
  /\ q.write_ptr = p.write_ptr /\ q.rows = p.rows

LEMMA LinkedPageFits ==
  ASSUME NEW p, IsRecord(p), NEW n, NEW q, q = [p EXCEPT !.next_page_number = n]
  PROVE  IsRecord(q) /\ Linked(p, q) /\ \A schema : RowsFit(p, schema) => RowsFit(q, schema)
<1>1. IsRecord(q) /\ Linked(p, q)
  BY DEF IsRecord, Linked
<1> QED BY <1>1 DEF Linked, RowsFit, Aligned, RowOffsets

\* row_insert on a new page n: n has the row, the old last page a link to n
RowOnNewPage(h, data, n) ==
  /\ n \notin DOMAIN pages /\ DOMAIN pages' = DOMAIN pages \cup {n}
  /\ RowsFit(pages'[n], h.schema) /\ IsRecord(pages'[n])
  /\ RowAdded(FreshPage(n, h.name, h.schema), pages'[n], data)
  /\ \A m \in DOMAIN pages :
       /\ Linked(pages[m], pages'[m]) /\ IsRecord(pages'[m])
       /\ m = h.page_number_last \/ pages'[m] = pages[m]
       /\ \A schema : RowsFit(pages[m], schema) => RowsFit(pages'[m], schema)
  /\ SlotCounts(h)

LEMMA NewPageRows ==
  ASSUME IInv, RowsIInv, NEW r \in DOMAIN handle, NEW data \in Data(Schema(r)),
         row_insert_new_page(r, data), NEW h, h = handle[r]
  PROVE  \E n \in PageNo : RowOnNewPage(h, data, n)
<1>1. /\ h \in Header /\ r \in Rel /\ h.page_number_last \in DOMAIN pages
      /\ LinkOf(h.page_number_last) = 0 /\ h.name = r
  BY OpenRelation
<1>2. h.schema \in Schemas /\ data \in Data(h.schema)
  BY <1>1 DEF Header, Schema
<1>3. PICK n \in PageNo : PageForRow(h, data, n)
  BY NewPageEffect
<1> DEFINE q == row_write(FreshPage(n, r, h.schema), h.schema, data)
           last == h.page_number_last
           linked == [pages[last] EXCEPT !.next_page_number = n]
<1>4. /\ DOMAIN pages' = DOMAIN pages \cup {n} /\ pages'[n] = q /\ pages'[last] = linked
      /\ \A m \in DOMAIN pages : m # last => pages'[m] = pages[m]
  <2>1. n \notin DOMAIN pages /\ pages' = Put([pages EXCEPT ![last].next_page_number = n], n, q)
    BY <1>1, <1>3 DEF PageForRow
  <2> HIDE DEF q
  <2> QED BY <1>1, <2>1 DEF Put
<1>5. RowsFit(q, h.schema) /\ IsRecord(q) /\ RowAdded(FreshPage(n, r, h.schema), q, data)
  BY <1>1, <1>2, FirstRowFits
<1>6. /\ IsRecord(linked) /\ Linked(pages[last], linked)
      /\ \A schema : RowsFit(pages[last], schema) => RowsFit(linked, schema)
  BY <1>1, LinkedPageFits DEF RowsIInv
<1> HIDE DEF q, linked
<1>7. ASSUME NEW m \in DOMAIN pages
      PROVE  /\ Linked(pages[m], pages'[m]) /\ IsRecord(pages'[m])
             /\ m = last \/ pages'[m] = pages[m]
             /\ \A schema : RowsFit(pages[m], schema) => RowsFit(pages'[m], schema)
  <2>1. CASE m = last
    BY <1>4, <1>6, <2>1
  <2>2. CASE m # last
    BY <1>4, <2>2 DEF RowsIInv, Linked
  <2> QED BY <2>1, <2>2
<1>8. n \notin DOMAIN pages /\ SlotCounts(h)
  BY <1>3 DEF PageForRow
<1> QED BY <1>1, <1>4, <1>5, <1>7, <1>8 DEF RowOnNewPage

LEMMA InsertNewPageRowsIInv ==
  ASSUME IInv, RowsIInv, NEW r \in DOMAIN handle, NEW data \in Data(Schema(r)),
         row_insert_new_page(r, data)
  PROVE  RowsIInv'
<1> DEFINE h == handle[r]
           k == h.real_number
<1>1. h.name = r /\ k \in DOMAIN catalog /\ catalog[k] = h
  BY OpenRelation
<1>2. PICK n \in PageNo : RowOnNewPage(h, data, n)
  BY NewPageRows
<1> HIDE DEF h
<1>3. /\ pages'[n].relation_name = r /\ n \notin DOMAIN pages
      /\ DOMAIN pages' = DOMAIN pages \cup {n}
      /\ \A m \in DOMAIN pages : pages'[m].relation_name = pages[m].relation_name
  BY <1>1, <1>2 DEF RowOnNewPage, RowAdded, FreshPage, Linked
<1>4. IsFiniteSet(OwnedIn(pages, r))
  BY OwnedFinite DEF Owned
<1>5. /\ OwnedIn(pages', r) = OwnedIn(pages, r) \cup {n}
      /\ \A name : name # r => OwnedIn(pages', name) = OwnedIn(pages, name)
      /\ Cardinality(OwnedIn(pages', r)) = Cardinality(OwnedIn(pages, r)) + 1
  <2>1. /\ OwnedIn(pages', r) = OwnedIn(pages, r) \cup {n}
        /\ \A name : name # r => OwnedIn(pages', name) = OwnedIn(pages, name)
        /\ n \notin OwnedIn(pages, r)
    BY <1>3 DEF OwnedIn
  <2> QED BY <1>4, <2>1, FS_AddElement
<1>6. RelationFits(pages', catalog'[k])
  <2>1. RelationFits(pages, h)
    BY <1>1 DEF RowsIInv
  <2>2. ASSUME NEW m \in OwnedIn(pages, r) PROVE RowsFit(pages'[m], h.schema)
    BY <1>1, <1>2, <2>1 DEF RelationFits, OwnedIn, RowOnNewPage
  <2>3. SlotCounts(h) /\ RowsFit(pages'[n], h.schema)
    BY <1>2 DEF RowOnNewPage
  <2> QED BY <1>1, <1>5, <2>1, <2>2, <2>3 DEF RelationFits, SlotCounts
<1>7. ASSUME NEW i \in DOMAIN catalog, i # k, NEW g, g = catalog[i]
      PROVE  RelationFits(pages', g)
  <2>1. g.name # r
    BY <1>1, <1>7 DEF IInv, CatalogInv
  <2>2. RelationFits(pages, g)
    BY <1>7 DEF RowsIInv
  <2>3. ASSUME NEW m \in OwnedIn(pages, g.name) PROVE RowsFit(pages'[m], g.schema)
    BY <1>2, <2>2 DEF RelationFits, OwnedIn, RowOnNewPage
  <2> QED BY <1>5, <2>1, <2>2, <2>3 DEF RelationFits
<1>8. \A m \in DOMAIN pages' : IsRecord(pages'[m])
  BY <1>2 DEF RowOnNewPage
<1> QED BY <1>2, <1>6, <1>7, <1>8 DEF RowsIInv, RowOnNewPage, SlotCounts

\* Before the first operation, and in a new file, there are no rows
LEMMA InitRowsIInv == Init => RowsIInv
<1> SUFFICES ASSUME Init PROVE RowsIInv
  OBVIOUS
<1>1. DOMAIN catalog = {} /\ DOMAIN pages = {}
  BY DEF Init, EmptyMap
<1> QED BY <1>1 DEF RowsIInv

LEMMA CreateFileRowsIInv ==
  ASSUME database_create_in_file
  PROVE  RowsIInv'
<1>1. DOMAIN catalog' = {} /\ DOMAIN pages' = {}
  BY DEF database_create_in_file, EmptyMap
<1> QED BY <1>1 DEF RowsIInv

\* An operation that leaves the file alone
LEMMA FileUnchangedRowsIInv ==
  ASSUME RowsIInv, UNCHANGED file
  PROVE  RowsIInv'
  BY DEF RowsIInv, file

\* The steps that do not write to the file
ReadsOnly ==
  \/ database_get_from_file \/ database_close
  \/ \E r \in Rel : \/ \E schema \in Schemas : relation_create_again(r, schema)
                    \/ relation_get(r) \/ relation_close(r)
  \/ \E r \in DOMAIN handle : \E c \in Column :
       \/ \E set \in Column : no_attribute(r, c, set)
       \/ \E value \in Domain[c] : row_select(r, c, value)
  \/ UNCHANGED vars

LEMMA FileOnlyRead ==
  ASSUME ReadsOnly
  PROVE  UNCHANGED file
  BY DEF ReadsOnly, database_get_from_file, database_close, relation_create_again,
     relation_get, relation_close, no_attribute, row_select, vars, file

\* Every operation keeps the rows in place
LEMMA NextRowsIInv == IInv /\ RowsIInv /\ [Next]_vars => RowsIInv'
<1> SUFFICES ASSUME IInv, RowsIInv, [Next]_vars PROVE RowsIInv'
  OBVIOUS
<1>1. CASE database_create_in_file
  BY <1>1, CreateFileRowsIInv
<1>2. ASSUME NEW r \in Rel, NEW schema \in Schemas, relation_create(r, schema)
      PROVE  RowsIInv'
  BY <1>2, CreateRowsIInv
<1>3. ASSUME NEW r \in DOMAIN handle, NEW data \in Data(Schema(r)), row_insert(r, data)
      PROVE  RowsIInv'
  BY <1>3, InsertRowsIInv
<1>4. ASSUME NEW r \in DOMAIN handle, NEW data \in Data(Schema(r)),
             row_insert_new_page(r, data)
      PROVE  RowsIInv'
  BY <1>4, InsertNewPageRowsIInv
<1>5. ASSUME NEW r \in DOMAIN handle, NEW c \in Column, NEW value \in Domain[c],
             row_delete(r, c, value)
      PROVE  RowsIInv'
  BY <1>5, OverwriteRowsIInv DEF row_delete
<1>6. ASSUME NEW r \in DOMAIN handle, NEW c \in Column, NEW set \in Column,
             NEW value \in Domain[c], NEW new \in Domain[set],
             row_update(r, c, value, set, new)
      PROVE  RowsIInv'
  BY <1>6, OverwriteRowsIInv DEF row_update
<1>7. CASE ReadsOnly
  BY <1>7, FileOnlyRead, FileUnchangedRowsIInv
<1> QED BY <1>1, <1>2, <1>3, <1>4, <1>5, <1>6, <1>7 DEF Next, ReadsOnly

LEMMA RowsInvariant == Spec => [](IInv /\ RowsIInv)
<1>1. Init => IInv /\ RowsIInv
  BY InitIInv, InitRowsIInv
<1>2. (IInv /\ RowsIInv) /\ [Next]_vars => (IInv /\ RowsIInv)'
  BY NextIInv, NextRowsIInv
<1> QED BY <1>1, <1>2, PTL DEF Spec

\* What the two invariants say of the scans, in any state
LEMMA RowsFound == RowsIInv => RowsInv
  BY DEF RowsIInv, RelationFits, RowsFit, OwnedIn, RowsInv, Owner

LEMMA ScanFound == IInv /\ RowsIInv => ScanInv
<1> SUFFICES ASSUME IInv, RowsIInv, NEW i \in DOMAIN catalog, NEW h, h = catalog[i],
                    NEW owned, owned = {n \in DOMAIN pages : Owner(n) = h.name}
             PROVE  /\ h.page_count = Cardinality(owned)
                    /\ Scanned(pages, h.schema, h.page_number_first) = owned
  BY DEF ScanInv
<1>1. owned = Owned(h.name)
  BY DEF Owned, OwnedIn, Owner
<1>2. h.page_count = Cardinality(owned)
  BY <1>1 DEF RowsIInv, RelationFits, Owned
<1> QED BY <1>1, <1>2, ScanReaches

\* On every page of a relation the rows are at the offsets that a scan visits,
\* whatever the length of a row and the number of columns
THEOREM RowsWhereScanned == Spec => []RowsInv
  BY RowsFound, RowsInvariant, PTL

\* A scan from the first page of a relation reaches all its pages and no other,
\* and the header counts them
THEOREM ScansComplete == Spec => []ScanInv
  BY ScanFound, RowsInvariant, PTL

-----------------------------------------------------------------------------
(* The rows that a query meets *)

\* The places with rows of a relation that are not deleted
Live(file_pages, name) ==
  {pl \in PageNo \X (0 .. PageSize) :
     /\ pl[1] \in OwnedIn(file_pages, name)
     /\ pl[2] \in DOMAIN file_pages[pl[1]].rows
     /\ RowAt(file_pages, pl).is_available}

\* A scan finds the rows of its relation that are not deleted, and no other
LEMMA ScanFindsLive ==
  ASSUME IInv, RowsIInv, NEW i \in DOMAIN catalog, NEW h, h = catalog[i]
  PROVE  LivePlaces(pages, h.schema, h.page_number_first) = Live(pages, h.name)
<1> DEFINE owned == OwnedIn(pages, h.name)
<1>1. Scanned(pages, h.schema, h.page_number_first) = owned
  BY ScanReaches DEF Owned
<1>2. \A n \in owned : DOMAIN pages[n].rows = RowOffsets(pages[n], h.schema)
  BY DEF RowsIInv, RelationFits, RowsFit
<1>3. \A n \in owned : n \in PageNo /\ DOMAIN pages[n].rows \subseteq 0 .. PageSize
  BY DEF OwnedIn, IInv, TypeOK, PagesType, IsPage
<1>4. Places(pages, h.schema, h.page_number_first) =
        UNION {{n} \X DOMAIN pages[n].rows : n \in owned}
  BY <1>1, <1>2 DEF Places
<1> QED BY <1>3, <1>4 DEF LivePlaces, Live

\* What a filter hits
LEMMA HitsLive ==
  ASSUME IInv, RowsIInv, NEW r \in DOMAIN handle, NEW c, NEW value
  PROVE  Hits(r, c, value) = {pl \in Live(pages, r) : Matches(RowAt(pages, pl).data, c, value)}
<1>1. /\ handle[r].real_number \in DOMAIN catalog
      /\ catalog[handle[r].real_number] = handle[r] /\ handle[r].name = r
  BY OpenRelation
<1>2. LivePlaces(pages, Schema(r), handle[r].page_number_first) = Live(pages, r)
  BY <1>1, ScanFindsLive DEF Schema
<1> QED BY <1>2 DEF Hits

-----------------------------------------------------------------------------
(* What the operations leave alone *)

\* Page q has all that page p had, and no row of p that was deleted came back
PageStays(p, q) ==
  /\ q.relation_name = p.relation_name /\ q.columns = p.columns
  /\ p.next_page_number = 0 \/ q.next_page_number = p.next_page_number
  /\ \A o \in DOMAIN p.rows :
       o \in DOMAIN q.rows /\ (q.rows[o].is_available => p.rows[o].is_available)

PagesStay == \A n \in DOMAIN pages : n \in DOMAIN pages' /\ PageStays(pages[n], pages'[n])

\* Rows written over rows do not bring deleted ones back
LEMMA OverwritePagesStay ==
  ASSUME IInv, RowsIInv, NEW new, pages' = Overwrite(pages, new),
         \A pl \in DOMAIN new : new[pl].is_available => RowAt(pages, pl).is_available
  PROVE  PagesStay
<1>1. DOMAIN pages' = DOMAIN pages
  BY DEF Overwrite
<1>2. ASSUME NEW n \in DOMAIN pages, NEW p, p = pages[n], NEW q, q = pages'[n]
      PROVE  PageStays(p, q)
  <2>1. /\ q.relation_name = p.relation_name /\ q.columns = p.columns
        /\ q.next_page_number = p.next_page_number /\ DOMAIN q.rows = DOMAIN p.rows
        /\ \A o \in DOMAIN p.rows :
             q.rows[o] = IF <<n, o>> \in DOMAIN new THEN new[<<n, o>>] ELSE p.rows[o]
    BY <1>2, OverwrittenPagesFit
  <2>2. \A o : RowAt(pages, <<n, o>>) = p.rows[o]
    BY <1>2 DEF RowAt
  <2> QED BY <2>1, <2>2 DEF PageStays
<1> QED BY <1>1, <1>2 DEF PagesStay

LEMMA InsertPagesStay ==
  ASSUME IInv, RowsIInv, NEW r \in DOMAIN handle, NEW data \in Data(Schema(r)),
         row_insert(r, data)
  PROVE  PagesStay
<1>1. PICK p : p = LastPage(r)
  OBVIOUS
<1>2. PICK q : q = row_write(p, Schema(r), data)
  OBVIOUS
<1>3. RowAdded(p, q, data)
  BY <1>1, <1>2, InsertedRow
<1>4. \A n \in DOMAIN pages : pages'[n] = IF n = handle[r].page_number_last THEN q ELSE pages[n]
  BY <1>1, <1>2 DEF row_insert, LastPage
<1> QED BY <1>1, <1>3, <1>4 DEF row_insert, PagesStay, PageStays, RowAdded, LastPage

LEMMA InsertNewPagePagesStay ==
  ASSUME IInv, RowsIInv, NEW r \in DOMAIN handle, NEW data \in Data(Schema(r)),
         row_insert_new_page(r, data)
  PROVE  PagesStay
<1>1. PICK h : h = handle[r]
  OBVIOUS
<1>2. LinkOf(h.page_number_last) = 0
  BY <1>1, OpenRelation
<1>3. PICK n \in PageNo : RowOnNewPage(h, data, n)
  BY <1>1, NewPageRows
<1>4. ASSUME NEW m \in DOMAIN pages PROVE PageStays(pages[m], pages'[m])
  <2>1. Linked(pages[m], pages'[m]) /\ (m = h.page_number_last \/ pages'[m] = pages[m])
    BY <1>3 DEF RowOnNewPage
  <2> QED BY <1>2, <2>1 DEF Linked, PageStays, LinkOf
<1> QED BY <1>3, <1>4 DEF PagesStay, RowOnNewPage

LEMMA PagesUnchangedStay ==
  ASSUME UNCHANGED pages
  PROVE  PagesStay
  BY DEF PagesStay, PageStays

\* Every operation but that of a new file keeps the pages
LEMMA StepPagesStay ==
  ASSUME IInv, RowsIInv, [Next]_vars
  PROVE  database_create_in_file \/ PagesStay
<1>1. ASSUME NEW r \in Rel, NEW schema \in Schemas, relation_create(r, schema)
      PROVE  PagesStay
  <2>1. PICK n, k : n \in PageNo /\ PageForRelation(r, schema, n, k)
    BY <1>1, CreateEffect
  <2>2. \A m \in DOMAIN pages : m \in DOMAIN pages' /\ pages'[m] = pages[m]
    BY <2>1 DEF PageForRelation, Put
  <2> QED BY <2>2 DEF PagesStay, PageStays
<1>2. ASSUME NEW r \in DOMAIN handle, NEW c \in Column, NEW value \in Domain[c],
             row_delete(r, c, value)
      PROVE  PagesStay
  <2> DEFINE hits == Hits(r, c, value)
             new == [pl \in hits |-> [RowAt(pages, pl) EXCEPT !.is_available = FALSE]]
  <2>1. \A pl \in hits : RowAt(pages, pl).is_available
    BY HitsLive DEF Live
  <2>2. pages' = Overwrite(pages, new)
    BY <1>2 DEF row_delete
  <2>3. \A pl \in DOMAIN new : new[pl].is_available => RowAt(pages, pl).is_available
    BY <2>1
  <2> HIDE DEF new
  <2> QED BY <2>2, <2>3, OverwritePagesStay
<1>3. ASSUME NEW r \in DOMAIN handle, NEW c \in Column, NEW set \in Column,
             NEW value \in Domain[c], NEW val \in Domain[set],
             row_update(r, c, value, set, val)
      PROVE  PagesStay
  <2> DEFINE hits == Hits(r, c, value)
             new == [pl \in hits |-> [RowAt(pages, pl) EXCEPT !.data[set] = val]]
  <2>1. \A pl \in hits : RowAt(pages, pl).is_available
    BY HitsLive DEF Live
  <2>2. pages' = Overwrite(pages, new)
    BY <1>3 DEF row_update
  <2>3. \A pl \in DOMAIN new : new[pl].is_available => RowAt(pages, pl).is_available
    BY <2>1
  <2> HIDE DEF new
  <2> QED BY <2>2, <2>3, OverwritePagesStay
<1>4. CASE ReadsOnly
  <2>1. UNCHANGED pages
    BY <1>4, FileOnlyRead DEF file
  <2> QED BY <2>1, PagesUnchangedStay
<1> QED BY <1>1, <1>2, <1>3, <1>4, InsertPagesStay, InsertNewPagePagesStay DEF Next, ReadsOnly

\* A page keeps its relation, its columns and its link, a row stays where it is
\* and a deleted row stays deleted, through every operation on a file
THEOREM RowsNeverMove == Spec => RowsStay
<1>1. IInv /\ RowsIInv /\ [Next]_vars =>
        [database_create_in_file \/
         \A n \in DOMAIN pages :
           /\ n \in DOMAIN pages'
           /\ pages'[n].relation_name = pages[n].relation_name
           /\ pages'[n].columns = pages[n].columns
           /\ \/ pages[n].next_page_number = 0
              \/ pages'[n].next_page_number = pages[n].next_page_number
           /\ \A o \in DOMAIN pages[n].rows :
                /\ o \in DOMAIN pages'[n].rows
                /\ pages'[n].rows[o].is_available => pages[n].rows[o].is_available
        ]_vars
  BY StepPagesStay DEF PagesStay, PageStays
<1> QED BY <1>1, RowsInvariant, PTL DEF Spec, RowsStay

\* The pages that a step adds or changes belong to relation name
ChangesOnly(name) ==
  \A n \in DOMAIN pages' :
    n \notin DOMAIN pages \/ pages'[n] # pages[n] => pages'[n].relation_name = name

\* A page without a hit is the same after a query as before
LEMMA OverwriteChangesOnly ==
  ASSUME IInv, RowsIInv, NEW new, pages' = Overwrite(pages, new), NEW name,
         \A pl \in DOMAIN new : pl[1] \in OwnedIn(pages, name)
  PROVE  ChangesOnly(name)
<1>1. DOMAIN pages' = DOMAIN pages
  BY DEF Overwrite
<1>2. ASSUME NEW n \in DOMAIN pages, NEW p, p = pages[n], NEW q, q = pages'[n]
      PROVE  q.relation_name = p.relation_name /\ (p.relation_name # name => q = p)
  <2> DEFINE old == p.rows
             rows == [o \in DOMAIN old |-> IF <<n, o>> \in DOMAIN new THEN new[<<n, o>>] ELSE old[o]]
  <2>1. IsRecord(p) /\ IsPage(p)
    BY <1>2 DEF RowsIInv, IInv, TypeOK, PagesType
  <2>2. q = [p EXCEPT !.rows = rows]
    BY <1>2 DEF Overwrite
  <2>3. q.relation_name = p.relation_name
    BY <1>2, OverwrittenPagesFit
  <2>4. ASSUME p.relation_name # name PROVE q = p
    <3>1. \A o : <<n, o>> \notin DOMAIN new
      <4>1. n \notin OwnedIn(pages, name)
        BY <1>2, <2>4 DEF OwnedIn
      <4>2. \A o : <<n, o>>[1] = n
        OBVIOUS
      <4> QED BY <4>1, <4>2
    <3>2. \E S : old \in [DOMAIN old -> S]
      BY <2>1 DEF IsPage
    <3>3. rows = old
      BY <3>1, <3>2
    <3> HIDE DEF rows
    <3> QED BY <2>1, <2>2, <3>3 DEF IsRecord
  <2> QED BY <2>3, <2>4
<1>3. ASSUME NEW n \in DOMAIN pages, pages'[n] # pages[n] PROVE pages'[n].relation_name = name
  BY <1>2, <1>3
<1> QED BY <1>1, <1>3 DEF ChangesOnly

\* Every operation but that of a new file writes to its relation only
LEMMA StepChangesOnly ==
  ASSUME IInv, RowsIInv, [Next]_vars
  PROVE  database_create_in_file \/ ChangesOnly(reply'.request[2])
<1>1. ASSUME NEW r \in Rel, NEW schema \in Schemas, relation_create(r, schema)
      PROVE  ChangesOnly(reply'.request[2])
  <2>1. reply'.request[2] = r
    BY <1>1 DEF relation_create, Reply
  <2>2. PICK n, k : n \in PageNo /\ PageForRelation(r, schema, n, k)
    BY <1>1, CreateEffect
  <2>3. /\ DOMAIN pages' = DOMAIN pages \cup {n} /\ pages'[n] = FreshPage(n, r, schema)
        /\ \A m \in DOMAIN pages : pages'[m] = pages[m]
    BY <2>2 DEF PageForRelation, Put
  <2>4. pages'[n].relation_name = r
    BY <2>3 DEF FreshPage
  <2> QED BY <2>1, <2>3, <2>4 DEF ChangesOnly
<1>2. ASSUME NEW r \in DOMAIN handle, NEW data \in Data(Schema(r)), row_insert(r, data)
      PROVE  ChangesOnly(reply'.request[2])
  <2>1. reply'.request[2] = r
    BY <1>2 DEF row_insert, Reply
  <2>2. PICK p, q, h : /\ h = handle[r]
                       /\ p = LastPage(r) /\ q = row_write(p, Schema(r), data)
    OBVIOUS
  <2>3. /\ h.page_number_last \in DOMAIN pages /\ p = pages[h.page_number_last]
        /\ pages' = [pages EXCEPT ![h.page_number_last] = q] /\ RowAdded(p, q, data)
    BY <1>2, <2>2, InsertedRow
  <2>4. p.relation_name = r
    BY <2>2, <2>3, OpenRelation DEF Owner
  <2> QED BY <2>1, <2>3, <2>4 DEF ChangesOnly, RowAdded
<1>3. ASSUME NEW r \in DOMAIN handle, NEW data \in Data(Schema(r)),
             row_insert_new_page(r, data)
      PROVE  ChangesOnly(reply'.request[2])
  <2>1. reply'.request[2] = r
    BY <1>3 DEF row_insert_new_page, Reply
  <2>2. PICK h : h = handle[r]
    OBVIOUS
  <2>3. h.name = r /\ Owner(h.page_number_last) = r
    BY <2>2, OpenRelation
  <2>4. PICK n \in PageNo : RowOnNewPage(h, data, n)
    BY <1>3, <2>2, NewPageRows
  <2>5. pages'[n].relation_name = r /\ DOMAIN pages' = DOMAIN pages \cup {n}
    BY <2>3, <2>4 DEF RowOnNewPage, RowAdded, FreshPage
  <2>6. \A m \in DOMAIN pages : pages'[m] # pages[m] => pages'[m].relation_name = r
    BY <2>3, <2>4 DEF RowOnNewPage, Linked, Owner
  <2> QED BY <2>1, <2>5, <2>6 DEF ChangesOnly
<1>4. ASSUME NEW r \in DOMAIN handle, NEW c, NEW value
      PROVE  \A pl \in Hits(r, c, value) : pl[1] \in OwnedIn(pages, r)
  BY HitsLive DEF Live
<1>5. ASSUME NEW r \in DOMAIN handle, NEW c \in Column, NEW value \in Domain[c],
             row_delete(r, c, value)
      PROVE  ChangesOnly(reply'.request[2])
  <2> DEFINE hits == Hits(r, c, value)
             new == [pl \in hits |-> [RowAt(pages, pl) EXCEPT !.is_available = FALSE]]
  <2>1. reply'.request[2] = r /\ pages' = Overwrite(pages, new)
    BY <1>5 DEF row_delete, Reply
  <2>2. \A pl \in DOMAIN new : pl[1] \in OwnedIn(pages, r)
    BY <1>4
  <2> HIDE DEF new
  <2> QED BY <2>1, <2>2, OverwriteChangesOnly
<1>6. ASSUME NEW r \in DOMAIN handle, NEW c \in Column, NEW set \in Column,
             NEW value \in Domain[c], NEW val \in Domain[set],
             row_update(r, c, value, set, val)
      PROVE  ChangesOnly(reply'.request[2])
  <2> DEFINE hits == Hits(r, c, value)
             new == [pl \in hits |-> [RowAt(pages, pl) EXCEPT !.data[set] = val]]
  <2>1. reply'.request[2] = r /\ pages' = Overwrite(pages, new)
    BY <1>6 DEF row_update, Reply
  <2>2. \A pl \in DOMAIN new : pl[1] \in OwnedIn(pages, r)
    BY <1>4
  <2> HIDE DEF new
  <2> QED BY <2>1, <2>2, OverwriteChangesOnly
<1>7. CASE ReadsOnly
  <2>1. UNCHANGED pages
    BY <1>7, FileOnlyRead DEF file
  <2> QED BY <2>1 DEF ChangesOnly
<1> QED BY <1>1, <1>2, <1>3, <1>5, <1>6, <1>7 DEF Next, ReadsOnly

\* A request on one relation leaves the pages of the others as they are: a filter
\* never hits a row of another relation, an insert never writes on its pages, a
\* new page is never one of theirs
THEOREM OthersUntouched == Spec => OtherRelationsUntouched
<1>1. IInv /\ RowsIInv /\ [Next]_vars =>
        [database_create_in_file \/
         \A n \in DOMAIN pages' :
           n \notin DOMAIN pages \/ pages'[n] # pages[n]
             => pages'[n].relation_name = reply'.request[2]]_vars
  BY StepChangesOnly DEF ChangesOnly
<1> QED BY <1>1, RowsInvariant, PTL DEF Spec, OtherRelationsUntouched

-----------------------------------------------------------------------------
(* The collections that the file stands for *)

\* The relation called name, with the rows of the pages it owns
RelationTable(file_pages, name, schema) ==
  [schema |-> schema,
   rows |-> [pl \in Live(file_pages, name) |-> RowAt(file_pages, pl).data]]

TableRight ==
  /\ DOMAIN Table = {catalog[i].name : i \in DOMAIN catalog}
  /\ \A i \in DOMAIN catalog :
       Table[catalog[i].name] = RelationTable(pages, catalog[i].name, catalog[i].schema)

\* A name is in one slot, and the scan of that slot's header finds the rows
LEMMA TableCorrect == IInv /\ RowsIInv => TableRight
<1> SUFFICES ASSUME IInv, RowsIInv PROVE TableRight
  OBVIOUS
<1>1. DOMAIN catalog = 1 .. Len(catalog)
  BY DEF IInv, TypeOK, RelationsType
<1>2. DOMAIN Table = {catalog[i].name : i \in DOMAIN catalog}
  BY <1>1 DEF Table
<1>3. ASSUME NEW i \in DOMAIN catalog, NEW h, h = catalog[i]
      PROVE  Table[h.name] = RelationTable(pages, h.name, h.schema)
  <2>1. (CHOOSE j \in 1 .. Len(catalog) : catalog[j].name = h.name) = i
    BY <1>1, <1>3 DEF IInv, CatalogInv
  <2>2. Table[h.name] = TableOf(h)
    BY <1>1, <1>3, <2>1 DEF Table
  <2>3. LivePlaces(pages, h.schema, h.page_number_first) = Live(pages, h.name)
    BY <1>3, ScanFindsLive
  <2> QED BY <2>2, <2>3 DEF TableOf, RelationTable
<1> QED BY <1>2, <1>3 DEF TableRight

LEMMA TableCorrectNext == IInv' /\ RowsIInv' => TableRight'
  BY TableCorrect, PTL

\* The table is a function
LEMMA TableIsFunction == Table = [r \in DOMAIN Table |-> Table[r]]
  BY DEF Table

LEMMA TableIsFunctionNext == Table' = [r \in DOMAIN Table' |-> Table'[r]]
  BY DEF Table

\* The file decides what the relations hold
LEMMA SameFileSameTable ==
  ASSUME UNCHANGED file
  PROVE  UNCHANGED Table
  BY DEF file, Table, TableOf

\* The operators of RelationStore are those of PageStore
LEMMA SameOperators ==
  /\ Store!EmptyMap = EmptyMap
  /\ \A schema : Store!Data(schema) = Data(schema)
  /\ \A data, c, value : Store!Matches(data, c, value) <=> Matches(data, c, value)
  /\ \A f, x, v : Store!Put(f, x, v) = Put(f, x, v)
  /\ \A request, answer, rows : Store!Reply(request, answer, rows) = Reply(request, answer, rows)
  /\ Store!NoRows = NoRows
  BY DEF Store!EmptyMap, EmptyMap, Store!Data, Data, Store!Matches, Matches,
     Store!Put, Put, Store!Reply, Reply, Store!NoRows, NoRows

-----------------------------------------------------------------------------
(* One relation *)

RowsAt(file_pages, places) == [pl \in places |-> RowAt(file_pages, pl).data]

\* What an open relation is in the table
LEMMA OpenTable ==
  ASSUME IInv, RowsIInv, NEW r \in DOMAIN handle, NEW h, h = handle[r]
  PROVE  /\ r \in Rel /\ r \in DOMAIN Table
         /\ Schema(r) = h.schema /\ Table[r].schema = h.schema
         /\ Table[r] = RelationTable(pages, r, h.schema)
         /\ Table[r].rows = RowsAt(pages, Live(pages, r))
         /\ DOMAIN Table[r].rows = Live(pages, r)
         /\ relation_read_columns(r) = h.schema.columns
         /\ h.schema \in Schemas
<1>1. /\ r \in Rel /\ h \in Header /\ h.real_number \in DOMAIN catalog
      /\ catalog[h.real_number] = h /\ h.name = r
  BY OpenRelation
<1>2. r \in DOMAIN Table /\ Table[r] = RelationTable(pages, r, h.schema)
  BY <1>1, TableCorrect DEF TableRight
<1>3. relation_read_columns(r) = h.schema.columns
  BY <1>1 DEF relation_read_columns, IInv, ChainInv, SpaceInv, PageFilled
<1>4. h.schema \in Schemas
  BY <1>1 DEF Header
<1> QED BY <1>1, <1>2, <1>3, <1>4 DEF Schema, RelationTable, RowsAt

\* A step that writes to the pages of relation r only leaves the rows of the
\* others alone
LEMMA OtherRowsSame ==
  ASSUME NEW r, ChangesOnly(r), PagesStay, NEW name, name # r
  PROVE  /\ Live(pages', name) = Live(pages, name)
         /\ \A pl \in Live(pages, name) : RowAt(pages', pl) = RowAt(pages, pl)
<1>1. OwnedIn(pages', name) = OwnedIn(pages, name)
  BY DEF ChangesOnly, PagesStay, PageStays, OwnedIn
<1>2. \A n \in OwnedIn(pages, name) : pages'[n] = pages[n]
  BY DEF ChangesOnly, PagesStay, PageStays, OwnedIn
<1> QED BY <1>1, <1>2 DEF Live, RowAt

\* Such a step changes, of the table, the rows of r
LEMMA RowsOfOne ==
  ASSUME IInv, RowsIInv, [Next]_vars, ~database_create_in_file,
         NEW r \in DOMAIN handle, reply'.request[2] = r,
         DOMAIN catalog' = DOMAIN catalog,
         \A i \in DOMAIN catalog : /\ catalog'[i].name = catalog[i].name
                                   /\ catalog'[i].schema = catalog[i].schema,
         NEW rows, RowsAt(pages', Live(pages', r)) = rows
  PROVE  Store!SetRows(r, rows)
<1>1. ChangesOnly(r) /\ PagesStay
  BY StepChangesOnly, StepPagesStay
<1>2. TableRight /\ TableRight'
  BY TableCorrect, TableCorrectNext, NextIInv, NextRowsIInv
<1>3. DOMAIN Table' = DOMAIN Table
  BY <1>2 DEF TableRight
<1>4. ASSUME NEW i \in DOMAIN catalog, NEW name, name = catalog[i].name,
             NEW schema, schema = catalog[i].schema
      PROVE  /\ Table'[name] = RelationTable(pages', name, schema)
             /\ Table[name] = RelationTable(pages, name, schema)
             /\ name # r => Table'[name] = Table[name]
  <2>1. /\ Table'[name] = RelationTable(pages', name, schema)
        /\ Table[name] = RelationTable(pages, name, schema)
    BY <1>2, <1>4 DEF TableRight
  <2>2. ASSUME name # r
        PROVE  /\ Live(pages', name) = Live(pages, name)
               /\ \A pl \in Live(pages, name) : RowAt(pages', pl) = RowAt(pages, pl)
    BY <1>1, <2>2, OtherRowsSame
  <2> QED BY <2>1, <2>2 DEF RelationTable
<1>5. \A name \in DOMAIN Table : name # r => Table'[name] = Table[name]
  BY <1>2, <1>4 DEF TableRight
<1>6. r \in DOMAIN Table /\ Table'[r] = [Table[r] EXCEPT !.rows = rows]
  <2>1. PICK i \in DOMAIN catalog : catalog[i].name = r
    BY OpenRelation
  <2>2. r \in DOMAIN Table
    BY <1>2, <2>1 DEF TableRight
  <2>3. PICK schema : schema = catalog[i].schema
    OBVIOUS
  <2>4. /\ Table'[r] = RelationTable(pages', r, schema)
        /\ Table[r] = RelationTable(pages, r, schema)
    BY <1>4, <2>1, <2>3
  <2>5. RelationTable(pages', r, schema) = [schema |-> schema, rows |-> rows]
    BY DEF RelationTable, RowsAt
  <2>6. [RelationTable(pages, r, schema) EXCEPT !.rows = rows] = [schema |-> schema, rows |-> rows]
    <3>1. \A old : [[schema |-> schema, rows |-> old] EXCEPT !.rows = rows] =
                   [schema |-> schema, rows |-> rows]
      OBVIOUS
    <3>2. PICK old : RelationTable(pages, r, schema) = [schema |-> schema, rows |-> old]
      BY DEF RelationTable
    <3> QED BY <3>1, <3>2
  <2> QED BY <2>2, <2>4, <2>5, <2>6
<1> QED BY <1>3, <1>5, <1>6, TableIsFunction, TableIsFunctionNext DEF Store!SetRows

-----------------------------------------------------------------------------
(* The operations, one by one *)

Place == PageNo \X (0 .. PageSize)

\* The rows that page n has for relation r
RowsOn(file_pages, r, n) == IF n \in OwnedIn(file_pages, r) THEN file_pages[n].rows ELSE EmptyMap

LEMMA LivePair ==
  ASSUME NEW file_pages, NEW r, NEW n \in PageNo, NEW o \in 0 .. PageSize
  PROVE  /\ <<n, o>> \in Live(file_pages, r) <=>
              /\ o \in DOMAIN RowsOn(file_pages, r, n)
              /\ RowsOn(file_pages, r, n)[o].is_available
         /\ <<n, o>> \in Live(file_pages, r) =>
              RowAt(file_pages, <<n, o>>) = RowsOn(file_pages, r, n)[o]
<1>1. DOMAIN EmptyMap = {}
  BY DEF EmptyMap
<1>2. <<n, o>> \in PageNo \X (0 .. PageSize) /\ <<n, o>>[1] = n /\ <<n, o>>[2] = o
  OBVIOUS
<1> QED BY <1>1, <1>2 DEF Live, RowsOn, RowAt

\* Row o of page n is new
RowAppearsAt(r, n, o, data) ==
  /\ o \notin DOMAIN RowsOn(pages, r, n)
  /\ DOMAIN RowsOn(pages', r, n) = DOMAIN RowsOn(pages, r, n) \cup {o}
  /\ RowsOn(pages', r, n)[o] = [is_available |-> TRUE, data |-> data]
  /\ \A x \in DOMAIN RowsOn(pages, r, n) : RowsOn(pages', r, n)[x] = RowsOn(pages, r, n)[x]
  /\ \A m : m # n => RowsOn(pages', r, m) = RowsOn(pages, r, m)

LEMMA RowAppears ==
  ASSUME NEW r, NEW n \in PageNo, NEW o \in 0 .. PageSize, NEW data,
         RowAppearsAt(r, n, o, data), NEW id, id = <<n, o>>
  PROVE  /\ id \notin Live(pages, r)
         /\ RowsAt(pages', Live(pages', r)) = Put(RowsAt(pages, Live(pages, r)), id, data)
<1> DEFINE old == Live(pages, r)
<1>1. ASSUME NEW m \in PageNo, NEW x \in 0 .. PageSize, NEW pl, pl = <<m, x>>, pl # id
      PROVE  /\ pl \in Live(pages', r) <=> pl \in old
             /\ pl \in old => RowAt(pages', pl) = RowAt(pages, pl)
  <2>1. /\ x \in DOMAIN RowsOn(pages', r, m) <=> x \in DOMAIN RowsOn(pages, r, m)
        /\ x \in DOMAIN RowsOn(pages, r, m) => RowsOn(pages', r, m)[x] = RowsOn(pages, r, m)[x]
    BY <1>1 DEF RowAppearsAt
  <2>2. /\ pl \in old <=> /\ x \in DOMAIN RowsOn(pages, r, m)
                          /\ RowsOn(pages, r, m)[x].is_available
        /\ pl \in old => RowAt(pages, pl) = RowsOn(pages, r, m)[x]
    BY <1>1, LivePair
  <2>3. /\ pl \in Live(pages', r) <=> /\ x \in DOMAIN RowsOn(pages', r, m)
                                      /\ RowsOn(pages', r, m)[x].is_available
        /\ pl \in Live(pages', r) => RowAt(pages', pl) = RowsOn(pages', r, m)[x]
    BY <1>1, LivePair
  <2> QED BY <2>1, <2>2, <2>3
<1>2. id \notin old
  BY LivePair DEF RowAppearsAt
<1>3. id \in Live(pages', r) /\ RowAt(pages', id).data = data
  <2>1. /\ o \in DOMAIN RowsOn(pages', r, n)
        /\ RowsOn(pages', r, n)[o] = [is_available |-> TRUE, data |-> data]
    BY DEF RowAppearsAt
  <2>2. /\ id \in Live(pages', r) <=> /\ o \in DOMAIN RowsOn(pages', r, n)
                                      /\ RowsOn(pages', r, n)[o].is_available
        /\ id \in Live(pages', r) => RowAt(pages', id) = RowsOn(pages', r, n)[o]
    BY LivePair
  <2> QED BY <2>1, <2>2
<1>4. \A pl \in Live(pages', r) \cup old :
        \E m \in PageNo, x \in 0 .. PageSize : pl = <<m, x>>
  BY DEF Live
<1>5. /\ Live(pages', r) = old \cup {id}
      /\ \A pl \in old : RowAt(pages', pl) = RowAt(pages, pl) /\ pl # id
  BY <1>1, <1>2, <1>3, <1>4
<1> HIDE DEF old
<1>6. Put(RowsAt(pages, old), id, data) =
        [pl \in old \cup {id} |-> IF pl = id THEN data ELSE RowsAt(pages, old)[pl]]
  BY DEF Put, RowsAt
<1>7. RowsAt(pages', old \cup {id}) = [pl \in old \cup {id} |-> RowAt(pages', pl).data]
  BY DEF RowsAt
<1>8. \A pl \in old \cup {id} :
        RowAt(pages', pl).data = IF pl = id THEN data ELSE RowsAt(pages, old)[pl]
  BY <1>3, <1>5 DEF RowsAt
<1> QED BY <1>2, <1>5, <1>6, <1>7, <1>8 DEF old

\* A row more is an insert, for RelationStore
LEMMA AppearsIsInsert ==
  ASSUME IInv, RowsIInv, [Next]_vars, NEW r \in DOMAIN handle, NEW data,
         reply' = Reply(<<"insert", r, data>>, "inserted", NoRows),
         DOMAIN catalog' = DOMAIN catalog,
         \A i \in DOMAIN catalog : /\ catalog'[i].name = catalog[i].name
                                   /\ catalog'[i].schema = catalog[i].schema,
         NEW n \in PageNo, NEW o \in 0 .. PageSize, RowAppearsAt(r, n, o, data)
  PROVE  Store!Insert(r, Table[r].rows, data)
<1>1. PICK id : id = <<n, o>>
  OBVIOUS
<1>2. PICK h : h = handle[r]
  OBVIOUS
<1>3. DOMAIN Table[r].rows = Live(pages, r) /\ Table[r].rows = RowsAt(pages, Live(pages, r))
  BY <1>2, OpenTable
<1>4. PICK rows : rows = Put(Table[r].rows, id, data)
  OBVIOUS
<1>5. id \notin Live(pages, r) /\ RowsAt(pages', Live(pages', r)) = rows
  BY <1>1, <1>3, <1>4, RowAppears
<1>6. ~database_create_in_file /\ reply'.request[2] = r
  BY DEF database_create_in_file, Reply
<1>7. Store!SetRows(r, rows)
  BY <1>5, <1>6, RowsOfOne
<1>8. id \in (PageNo \X (0 .. PageSize)) \ DOMAIN Table[r].rows
  BY <1>1, <1>3, <1>5
<1>9. Store!Put(Table[r].rows, id, data) = rows
  BY <1>4, SameOperators
<1> QED BY <1>7, <1>8, <1>9, SameOperators DEF Store!Insert

LEMMA InsertRefines ==
  ASSUME IInv, RowsIInv, NEW r \in DOMAIN handle, NEW data \in Data(Schema(r)),
         row_insert(r, data)
  PROVE  Store!Insert(r, Table[r].rows, data)
<1>1. PICK h, p, q : h = handle[r] /\ p = LastPage(r) /\ q = row_write(p, Schema(r), data)
  OBVIOUS
<1> DEFINE last == h.page_number_last
           o == p.write_ptr
<1>2. /\ last \in DOMAIN pages /\ p = pages[last]
      /\ pages' = [pages EXCEPT ![last] = q] /\ UNCHANGED catalog
      /\ RowAdded(p, q, data)
  BY <1>1, InsertedRow
<1>3. Owner(last) = r /\ last \in PageNo
  BY <1>1, <1>2, OpenRelation DEF IInv, TypeOK, PagesType
<1>4. OwnedIn(pages', r) = OwnedIn(pages, r) /\ last \in OwnedIn(pages, r)
  BY <1>2, <1>3 DEF OwnedIn, Owner, RowAdded
<1>5. RowsOn(pages, r, last) = p.rows /\ RowsOn(pages', r, last) = q.rows
  BY <1>2, <1>4 DEF RowsOn
<1>6. \A m : m # last => RowsOn(pages', r, m) = RowsOn(pages, r, m)
  BY <1>2, <1>4 DEF RowsOn, OwnedIn
<1>7. o \in 0 .. PageSize /\ RowAppearsAt(r, last, o, data)
  BY <1>2, <1>5, <1>6 DEF RowAdded, RowAppearsAt
<1>8. reply' = Reply(<<"insert", r, data>>, "inserted", NoRows) /\ [Next]_vars
  BY DEF row_insert, Next
<1> QED BY <1>2, <1>3, <1>7, <1>8, AppearsIsInsert

LEMMA InsertNewPageRefines ==
  ASSUME IInv, RowsIInv, NEW r \in DOMAIN handle, NEW data \in Data(Schema(r)),
         row_insert_new_page(r, data)
  PROVE  Store!Insert(r, Table[r].rows, data)
<1>1. PICK h : h = handle[r]
  OBVIOUS
<1>2. PICK n \in PageNo : RowOnNewPage(h, data, n)
  BY <1>1, NewPageRows
<1>3. h.name = r /\ h.real_number \in DOMAIN catalog /\ catalog[h.real_number] = h
  BY <1>1, OpenRelation
<1> DEFINE o == FirstRow(h.schema.columns)
           q == pages'[n]
<1>4. /\ q.relation_name = r /\ o \in 0 .. PageSize /\ DOMAIN q.rows = {o}
      /\ q.rows[o] = [is_available |-> TRUE, data |-> data]
  <2>1. PICK p : p = FreshPage(n, r, h.schema)
    OBVIOUS
  <2>2. p.relation_name = r /\ p.write_ptr = o /\ p.rows = EmptyMap
    BY <2>1 DEF FreshPage
  <2>3. DOMAIN p.rows = {}
    BY <2>2 DEF EmptyMap
  <2>4. RowAdded(p, q, data)
    BY <1>2, <1>3, <2>1 DEF RowOnNewPage
  <2> QED BY <2>2, <2>3, <2>4 DEF RowAdded
<1>5. /\ n \notin DOMAIN pages /\ DOMAIN pages' = DOMAIN pages \cup {n}
      /\ \A m \in DOMAIN pages : /\ pages'[m].relation_name = pages[m].relation_name
                                 /\ pages'[m].rows = pages[m].rows
  BY <1>2 DEF RowOnNewPage, Linked
<1>6. OwnedIn(pages', r) = OwnedIn(pages, r) \cup {n} /\ n \notin OwnedIn(pages, r)
  BY <1>4, <1>5 DEF OwnedIn
<1>7. RowsOn(pages, r, n) = EmptyMap /\ RowsOn(pages', r, n) = q.rows /\ DOMAIN EmptyMap = {}
  BY <1>6 DEF RowsOn, EmptyMap
<1>8. \A m : m # n => RowsOn(pages', r, m) = RowsOn(pages, r, m)
  BY <1>5, <1>6 DEF RowsOn, OwnedIn
<1>9. RowAppearsAt(r, n, o, data)
  BY <1>4, <1>7, <1>8 DEF RowAppearsAt
<1>10. /\ DOMAIN catalog' = DOMAIN catalog
       /\ \A i \in DOMAIN catalog : /\ catalog'[i].name = catalog[i].name
                                    /\ catalog'[i].schema = catalog[i].schema
  BY <1>2, <1>3 DEF RowOnNewPage, SlotCounts
<1>11. reply' = Reply(<<"insert", r, data>>, "inserted", NoRows) /\ [Next]_vars
  BY DEF row_insert_new_page, Next
<1> QED BY <1>4, <1>9, <1>10, <1>11, AppearsIsInsert

\* A filter hits for PageStore what it hits for RelationStore
LEMMA SameHits ==
  ASSUME IInv, RowsIInv, NEW r \in DOMAIN handle, NEW c, NEW value
  PROVE  /\ Store!Hits(Table[r].rows, c, value) = Hits(r, c, value)
         /\ Store!RowsOf(Table[r].rows, Hits(r, c, value)) = RowsOf(Hits(r, c, value))
         /\ Hits(r, c, value) \subseteq Live(pages, r)
<1>1. PICK h : h = handle[r]
  OBVIOUS
<1>2. PICK live : live = Live(pages, r)
  OBVIOUS
<1>3. Table[r].rows = RowsAt(pages, live) /\ DOMAIN Table[r].rows = live
  BY <1>1, <1>2, OpenTable
<1>4. Hits(r, c, value) = {pl \in live : Matches(RowAt(pages, pl).data, c, value)}
  BY <1>2, HitsLive
<1>5. \A pl \in live : Table[r].rows[pl] = RowAt(pages, pl).data
  BY <1>3 DEF RowsAt
<1>6. Store!Hits(Table[r].rows, c, value) = Hits(r, c, value)
  BY <1>3, <1>4, <1>5, SameOperators DEF Store!Hits
<1>7. \A pl \in Hits(r, c, value) : pl \in live /\ Table[r].rows[pl] = RowAt(pages, pl).data
  BY <1>4, <1>5
<1>8. Store!RowsOf(Table[r].rows, Hits(r, c, value)) = RowsOf(Hits(r, c, value))
  <2> DEFINE hits == Hits(r, c, value)
  <2>1. {<<pl, Table[r].rows[pl]>> : pl \in hits} = {<<pl, RowAt(pages, pl).data>> : pl \in hits}
    BY <1>7
  <2> QED BY <2>1 DEF Store!RowsOf, RowsOf
<1> QED BY <1>2, <1>6, <1>7, <1>8

\* Rows written over live rows of r
LEMMA OverwrittenRows ==
  ASSUME IInv, RowsIInv, NEW r, NEW new, pages' = Overwrite(pages, new),
         NEW live, live = Live(pages, r), DOMAIN new \subseteq live
  PROVE  /\ Live(pages', r) = {pl \in live : pl \in DOMAIN new => new[pl].is_available}
         /\ \A pl \in Live(pages', r) :
              RowAt(pages', pl) = IF pl \in DOMAIN new THEN new[pl] ELSE RowAt(pages, pl)
<1>1. DOMAIN pages' = DOMAIN pages
  BY DEF Overwrite
<1>2. ASSUME NEW n \in DOMAIN pages
      PROVE  /\ pages'[n].relation_name = pages[n].relation_name
             /\ DOMAIN pages'[n].rows = DOMAIN pages[n].rows
             /\ \A o \in DOMAIN pages[n].rows : pages'[n].rows[o] =
                  IF <<n, o>> \in DOMAIN new THEN new[<<n, o>>] ELSE pages[n].rows[o]
  BY OverwrittenPagesFit
<1>3. OwnedIn(pages', r) = OwnedIn(pages, r)
  BY <1>1, <1>2 DEF OwnedIn
<1>4. ASSUME NEW n \in PageNo, NEW o \in 0 .. PageSize, NEW pl, pl = <<n, o>>
      PROVE  /\ pl \in Live(pages', r) <=>
                  pl \in live /\ (pl \in DOMAIN new => new[pl].is_available)
             /\ pl \in Live(pages', r) =>
                  RowAt(pages', pl) = IF pl \in DOMAIN new THEN new[pl] ELSE RowAt(pages, pl)
  <2>1. /\ DOMAIN RowsOn(pages', r, n) = DOMAIN RowsOn(pages, r, n)
        /\ \A x \in DOMAIN RowsOn(pages, r, n) : RowsOn(pages', r, n)[x] =
             IF <<n, x>> \in DOMAIN new THEN new[<<n, x>>] ELSE RowsOn(pages, r, n)[x]
    <3>1. CASE n \in OwnedIn(pages, r)
      BY <1>2, <1>3, <3>1 DEF RowsOn, OwnedIn
    <3>2. CASE n \notin OwnedIn(pages, r)
      BY <1>3, <3>2 DEF RowsOn, EmptyMap
    <3> QED BY <3>1, <3>2
  <2>2. /\ pl \in live <=> /\ o \in DOMAIN RowsOn(pages, r, n)
                           /\ RowsOn(pages, r, n)[o].is_available
        /\ pl \in live => RowAt(pages, pl) = RowsOn(pages, r, n)[o]
    BY <1>4, LivePair
  <2>3. /\ pl \in Live(pages', r) <=> /\ o \in DOMAIN RowsOn(pages', r, n)
                                      /\ RowsOn(pages', r, n)[o].is_available
        /\ pl \in Live(pages', r) => RowAt(pages', pl) = RowsOn(pages', r, n)[o]
    BY <1>4, LivePair
  <2> QED BY <1>4, <2>1, <2>2, <2>3
<1>5. \A pl \in Live(pages', r) \cup live :
        \E m \in PageNo, x \in 0 .. PageSize : pl = <<m, x>>
  BY DEF Live
<1> QED BY <1>4, <1>5

\* A query answers in RelationStore what it answers in PageStore
LEMMA SelectRefines ==
  ASSUME IInv, RowsIInv, NEW r \in DOMAIN handle, NEW c \in Column, NEW value \in Domain[c],
         row_select(r, c, value)
  PROVE  /\ c \in Table[r].schema.columns
         /\ Store!Select(r, Table[r].rows, c, value)
<1>1. PICK h : h = handle[r]
  OBVIOUS
<1>2. c \in Table[r].schema.columns
  BY <1>1, OpenTable DEF row_select
<1>3. UNCHANGED Table
  BY SameFileSameTable DEF row_select
<1>4. reply' = Reply(<<"select", r, c, value>>, "selected", RowsOf(Hits(r, c, value)))
  BY DEF row_select
<1> QED BY <1>2, <1>3, <1>4, SameHits, SameOperators DEF Store!Select

LEMMA DeleteRefines ==
  ASSUME IInv, RowsIInv, NEW r \in DOMAIN handle, NEW c \in Column, NEW value \in Domain[c],
         row_delete(r, c, value)
  PROVE  /\ c \in Table[r].schema.columns
         /\ Store!Delete(r, Table[r].rows, c, value)
<1>1. PICK h, live, hits : h = handle[r] /\ live = Live(pages, r) /\ hits = Hits(r, c, value)
  OBVIOUS
<1>2. PICK new : new = [pl \in hits |-> [RowAt(pages, pl) EXCEPT !.is_available = FALSE]]
  OBVIOUS
<1>3. /\ c \in relation_read_columns(r) /\ pages' = Overwrite(pages, new)
      /\ reply' = Reply(<<"delete", r, c, value>>, "deleted", RowsOf(hits))
      /\ UNCHANGED catalog
  BY <1>1, <1>2 DEF row_delete
<1>4. /\ c \in Table[r].schema.columns
      /\ Table[r].rows = RowsAt(pages, live) /\ DOMAIN Table[r].rows = live
  BY <1>1, <1>3, OpenTable
<1>5. /\ Store!Hits(Table[r].rows, c, value) = hits
      /\ Store!RowsOf(Table[r].rows, hits) = RowsOf(hits)
      /\ hits \subseteq live
  BY <1>1, SameHits
<1>6. DOMAIN new = hits /\ \A pl \in hits : ~new[pl].is_available
  <2>1. \A pl \in live : "is_available" \in DOMAIN RowAt(pages, pl)
    BY <1>1 DEF Live, OwnedIn, RowAt, IInv, TypeOK, PagesType, IsPage, Row
  <2> QED BY <1>2, <1>5, <2>1
<1>7. /\ Live(pages', r) = {pl \in live : pl \in DOMAIN new => new[pl].is_available}
      /\ \A pl \in Live(pages', r) :
           RowAt(pages', pl) = IF pl \in DOMAIN new THEN new[pl] ELSE RowAt(pages, pl)
  BY <1>1, <1>3, <1>5, <1>6, OverwrittenRows
<1>8. Live(pages', r) = live \ hits /\ \A pl \in live \ hits : RowAt(pages', pl) = RowAt(pages, pl)
  BY <1>6, <1>7
<1>9. RowsAt(pages', Live(pages', r)) = [pl \in DOMAIN Table[r].rows \ hits |-> Table[r].rows[pl]]
  BY <1>4, <1>8 DEF RowsAt
<1>10. PICK rows : rows = [pl \in DOMAIN Table[r].rows \ hits |-> Table[r].rows[pl]]
  OBVIOUS
<1>11. Store!SetRows(r, rows)
  <2>1. ~database_create_in_file /\ reply'.request[2] = r
    BY <1>3 DEF database_create_in_file, Reply
  <2>2. [Next]_vars
    BY DEF Next
  <2> QED BY <1>3, <1>9, <1>10, <2>1, <2>2, RowsOfOne
<1> QED BY <1>3, <1>4, <1>5, <1>10, <1>11, SameOperators DEF Store!Delete

LEMMA UpdateRefines ==
  ASSUME IInv, RowsIInv, NEW r \in DOMAIN handle, NEW c \in Column, NEW set \in Column,
         NEW value \in Domain[c], NEW val \in Domain[set], row_update(r, c, value, set, val)
  PROVE  /\ c \in Table[r].schema.columns /\ set \in Table[r].schema.columns \ {c}
         /\ Store!Update(r, Table[r].rows, c, value, set, val)
<1>1. PICK h, live, hits : h = handle[r] /\ live = Live(pages, r) /\ hits = Hits(r, c, value)
  OBVIOUS
<1>2. PICK new : new = [pl \in hits |-> [RowAt(pages, pl) EXCEPT !.data[set] = val]]
  OBVIOUS
<1>3. /\ {c, set} \subseteq relation_read_columns(r) /\ c # set
      /\ pages' = Overwrite(pages, new)
      /\ reply' = Reply(<<"update", r, c, value, set, val>>, "updated", RowsOf(hits))
      /\ UNCHANGED catalog
  BY <1>1, <1>2 DEF row_update
<1>4. /\ c \in Table[r].schema.columns /\ set \in Table[r].schema.columns \ {c}
      /\ Table[r].rows = RowsAt(pages, live) /\ DOMAIN Table[r].rows = live
  BY <1>1, <1>3, OpenTable
<1>5. /\ Store!Hits(Table[r].rows, c, value) = hits
      /\ Store!RowsOf(Table[r].rows, hits) = RowsOf(hits)
      /\ hits \subseteq live
  BY <1>1, SameHits
<1>6. /\ DOMAIN new = hits
      /\ \A pl \in hits : /\ new[pl].is_available
                          /\ new[pl].data = [RowAt(pages, pl).data EXCEPT ![set] = val]
  <2>1. \A pl \in live : /\ {"data", "is_available"} \subseteq DOMAIN RowAt(pages, pl)
                         /\ RowAt(pages, pl).is_available
    BY <1>1 DEF Live, OwnedIn, RowAt, IInv, TypeOK, PagesType, IsPage, Row
  <2> QED BY <1>2, <1>5, <2>1
<1>7. /\ Live(pages', r) = {pl \in live : pl \in DOMAIN new => new[pl].is_available}
      /\ \A pl \in Live(pages', r) :
           RowAt(pages', pl) = IF pl \in DOMAIN new THEN new[pl] ELSE RowAt(pages, pl)
  BY <1>1, <1>3, <1>5, <1>6, OverwrittenRows
<1>8. PICK rows : rows = [pl \in DOMAIN Table[r].rows |->
                            IF pl \in hits THEN [Table[r].rows[pl] EXCEPT ![set] = val]
                                           ELSE Table[r].rows[pl]]
  OBVIOUS
<1>9. RowsAt(pages', Live(pages', r)) = rows
  <2>1. Live(pages', r) = live
    BY <1>6, <1>7
  <2>2. \A pl \in live : RowAt(pages', pl).data =
          IF pl \in hits THEN [RowAt(pages, pl).data EXCEPT ![set] = val]
                         ELSE RowAt(pages, pl).data
    BY <1>6, <1>7, <2>1
  <2>3. \A pl \in live : Table[r].rows[pl] = RowAt(pages, pl).data
    BY <1>4 DEF RowsAt
  <2> QED BY <1>4, <1>8, <2>1, <2>2, <2>3 DEF RowsAt
<1>10. Store!SetRows(r, rows)
  <2>1. ~database_create_in_file /\ reply'.request[2] = r
    BY <1>3 DEF database_create_in_file, Reply
  <2>2. [Next]_vars
    BY DEF Next
  <2> QED BY <1>3, <1>9, <2>1, <2>2, RowsOfOne
<1> QED BY <1>3, <1>4, <1>5, <1>8, <1>10, SameOperators DEF Store!Update

LEMMA NoAttributeRefines ==
  ASSUME IInv, RowsIInv, NEW r \in DOMAIN handle, NEW c \in Column, NEW set \in Column,
         no_attribute(r, c, set)
  PROVE  Store!NoAttribute(r, Table[r].schema.columns, c, set)
<1>1. PICK h : h = handle[r]
  OBVIOUS
<1>2. Table[r].schema.columns = relation_read_columns(r)
  BY <1>1, OpenTable
<1>3. UNCHANGED Table
  BY SameFileSameTable DEF no_attribute
<1>4. {c, set} \cap Table[r].schema.columns # {c, set} \/ c = set
  BY <1>2 DEF no_attribute
<1>5. reply' = Reply(<<"query", r, c, set>>, "no_attribute", NoRows)
  BY DEF no_attribute
<1> QED BY <1>3, <1>4, <1>5, SameOperators DEF Store!NoAttribute

\* A name is in a slot exactly when the table has it
LEMMA SlotsOfTable ==
  ASSUME IInv, opened, NEW r
  PROVE  Slots(r) # {} <=> r \in DOMAIN Table
<1>1. mem.relation_count = Len(catalog) /\ DOMAIN catalog = 1 .. Len(catalog)
  BY DEF IInv, SavedInv, CatalogInv, TypeOK, RelationsType
<1> QED BY <1>1 DEF Slots, Table

LEMMA CreateRefines ==
  ASSUME IInv, RowsIInv, NEW r \in Rel, NEW schema \in Schemas, relation_create(r, schema)
  PROVE  Store!Create(r, schema)
<1>1. r \notin DOMAIN Table
  BY SlotsOfTable DEF relation_create
<1>2. PICK n, k : n \in PageNo /\ PageForRelation(r, schema, n, k)
  BY CreateEffect
<1>3. /\ DOMAIN catalog' = DOMAIN catalog \cup {k} /\ k \notin DOMAIN catalog
      /\ \A i \in DOMAIN catalog : catalog'[i] = catalog[i] /\ catalog[i].name # r
      /\ catalog'[k].name = r /\ catalog'[k].schema = schema
  BY <1>2 DEF PageForRelation
<1>4. /\ n \notin DOMAIN pages /\ DOMAIN pages' = DOMAIN pages \cup {n}
      /\ pages'[n] = FreshPage(n, r, schema)
      /\ \A m \in DOMAIN pages : pages'[m] = pages[m] /\ pages[m].relation_name # r
  BY <1>2 DEF PageForRelation, Put, Owner
<1>5. TableRight /\ TableRight'
  <2>1. [Next]_vars
    BY DEF Next
  <2> QED BY <2>1, TableCorrect, TableCorrectNext, NextIInv, NextRowsIInv
<1>6. ChangesOnly(r) /\ PagesStay
  <2>1. [Next]_vars /\ ~database_create_in_file /\ reply'.request[2] = r
    BY DEF Next, relation_create, database_create_in_file, Reply
  <2> QED BY <2>1, StepChangesOnly, StepPagesStay
<1>7. ASSUME NEW i \in DOMAIN catalog, NEW name, name = catalog[i].name
      PROVE  Table'[name] = Table[name]
  <2>1. PICK s : s = catalog[i].schema
    OBVIOUS
  <2>2. /\ Table'[name] = RelationTable(pages', name, s)
        /\ Table[name] = RelationTable(pages, name, s)
    BY <1>3, <1>5, <1>7, <2>1 DEF TableRight
  <2>3. name # r
    BY <1>3, <1>7
  <2>4. /\ Live(pages', name) = Live(pages, name)
        /\ \A pl \in Live(pages, name) : RowAt(pages', pl) = RowAt(pages, pl)
    BY <1>6, <2>3, OtherRowsSame
  <2> QED BY <2>2, <2>4 DEF RelationTable
<1>8. Table'[r] = [schema |-> schema, rows |-> EmptyMap]
  <2>1. Table'[r] = RelationTable(pages', r, schema)
    BY <1>3, <1>5 DEF TableRight
  <2>2. OwnedIn(pages', r) = {n} /\ DOMAIN pages'[n].rows = {}
    BY <1>4 DEF OwnedIn, FreshPage, EmptyMap
  <2>3. Live(pages', r) = {}
    BY <2>2 DEF Live
  <2> QED BY <2>1, <2>3 DEF RelationTable, EmptyMap
<1>9. DOMAIN Table' = DOMAIN Table \cup {r}
  BY <1>3, <1>5 DEF TableRight
<1>10. \A name \in DOMAIN Table : Table'[name] = Table[name] /\ name # r
  BY <1>1, <1>5, <1>7 DEF TableRight
<1>11. Table' = Put(Table, r, [schema |-> schema, rows |-> EmptyMap])
  <2>1. PICK t : t = [schema |-> schema, rows |-> EmptyMap]
    OBVIOUS
  <2>2. Table' = Put(Table, r, t)
    BY <1>8, <1>9, <1>10, <2>1, TableIsFunctionNext DEF Put
  <2> QED BY <2>1, <2>2
<1>12. reply' = Reply(<<"create", r, schema>>, "created", NoRows)
  BY DEF relation_create
<1> QED BY <1>1, <1>11, <1>12, SameOperators DEF Store!Create

LEMMA CreateAgainRefines ==
  ASSUME IInv, NEW r \in Rel, NEW schema \in Schemas, relation_create_again(r, schema)
  PROVE  Store!CreateAgain(r, schema)
<1>1. r \in DOMAIN Table /\ UNCHANGED Table
  BY SlotsOfTable, SameFileSameTable DEF relation_create_again
<1>2. reply' = Reply(<<"create", r, schema>>, "exists", NoRows)
  BY DEF relation_create_again
<1> QED BY <1>1, <1>2, SameOperators DEF Store!CreateAgain

LEMMA GetRefines ==
  ASSUME IInv, NEW r \in Rel, relation_get(r)
  PROVE  Store!Get(r)
<1>1. UNCHANGED Table /\ (Slots(r) # {} <=> r \in DOMAIN Table)
  BY SlotsOfTable, SameFileSameTable DEF relation_get
<1>2. reply' = Reply(<<"get", r>>, IF Slots(r) # {} THEN "got" ELSE "missing", NoRows)
  BY DEF relation_get
<1> QED BY <1>1, <1>2, SameOperators DEF Store!Get

LEMMA SessionRefines ==
  ASSUME database_get_from_file \/ database_close \/ \E r \in Rel : relation_close(r)
  PROVE  Store!Session
<1>1. UNCHANGED Table
  BY SameFileSameTable DEF database_get_from_file, database_close, relation_close, file
<1>2. \/ \E answer \in {"opened", "no_file"} : reply' = Reply(<<"open">>, answer, NoRows)
      \/ reply' = Reply(<<"close">>, "closed", NoRows)
      \/ \E r \in Rel : reply' = Reply(<<"close", r>>, "closed", NoRows)
  BY DEF database_get_from_file, database_close, relation_close
<1> QED BY <1>1, <1>2, SameOperators DEF Store!Session

\* A file without relations
LEMMA NoRelations == catalog = <<>> => Table = EmptyMap
<1>1. catalog = <<>> => {catalog[i].name : i \in 1 .. Len(catalog)} = {}
  OBVIOUS
<1> QED BY <1>1 DEF Table, EmptyMap

LEMMA NoRelationsNext == catalog' = <<>> => Table' = EmptyMap
<1>1. catalog' = <<>> => {catalog'[i].name : i \in 1 .. Len(catalog')} = {}
  OBVIOUS
<1> QED BY <1>1 DEF Table, EmptyMap

LEMMA ResetRefines ==
  ASSUME database_create_in_file
  PROVE  Store!Reset
  BY NoRelationsNext, SameOperators DEF database_create_in_file, Store!Reset

-----------------------------------------------------------------------------
(* The refinement *)

\* Every operation of the library is one step of RelationStore
LEMMA StepRefines ==
  ASSUME IInv, RowsIInv, Next
  PROVE  Store!Next
<1>1. CASE database_create_in_file
  BY <1>1, ResetRefines DEF Store!Next
<1>2. CASE database_get_from_file \/ database_close \/ \E r \in Rel : relation_close(r)
  BY <1>2, SessionRefines DEF Store!Next
<1>3. ASSUME NEW r \in Rel, NEW schema \in Schemas,
             relation_create(r, schema) \/ relation_create_again(r, schema)
      PROVE  Store!Next
  BY <1>3, CreateRefines, CreateAgainRefines DEF Store!Next
<1>4. ASSUME NEW r \in Rel, relation_get(r)
      PROVE  Store!Next
  BY <1>4, GetRefines DEF Store!Next
<1>5. ASSUME NEW r \in DOMAIN handle
      PROVE  r \in DOMAIN Table /\ Store!Data(Table[r].schema) = Data(Schema(r))
  <2>1. PICK h : h = handle[r]
    OBVIOUS
  <2> QED BY <2>1, OpenTable, SameOperators
<1>6. ASSUME NEW r \in DOMAIN handle, NEW data \in Data(Schema(r)),
             row_insert(r, data) \/ row_insert_new_page(r, data)
      PROVE  Store!Next
  <2>1. Store!Insert(r, Table[r].rows, data)
    BY <1>6, InsertRefines, InsertNewPageRefines
  <2> QED BY <1>5, <2>1 DEF Store!Next
<1>7. ASSUME NEW r \in DOMAIN handle, NEW c \in Column, NEW set \in Column,
             no_attribute(r, c, set)
      PROVE  Store!Next
  <2>1. Store!NoAttribute(r, Table[r].schema.columns, c, set)
    BY <1>7, NoAttributeRefines
  <2> QED BY <1>5, <2>1 DEF Store!Next
<1>8. ASSUME NEW r \in DOMAIN handle, NEW c \in Column, NEW value \in Domain[c],
             row_select(r, c, value)
      PROVE  Store!Next
  <2>1. c \in Table[r].schema.columns /\ Store!Select(r, Table[r].rows, c, value)
    BY <1>8, SelectRefines
  <2> QED BY <1>5, <2>1 DEF Store!Next
<1>9. ASSUME NEW r \in DOMAIN handle, NEW c \in Column, NEW value \in Domain[c],
             row_delete(r, c, value)
      PROVE  Store!Next
  <2>1. c \in Table[r].schema.columns /\ Store!Delete(r, Table[r].rows, c, value)
    BY <1>9, DeleteRefines
  <2> QED BY <1>5, <2>1 DEF Store!Next
<1>10. ASSUME NEW r \in DOMAIN handle, NEW c \in Column, NEW set \in Column,
              NEW value \in Domain[c], NEW val \in Domain[set],
              row_update(r, c, value, set, val)
       PROVE  Store!Next
  <2>1. /\ c \in Table[r].schema.columns /\ set \in Table[r].schema.columns \ {c}
        /\ Store!Update(r, Table[r].rows, c, value, set, val)
    BY <1>10, UpdateRefines
  <2> QED BY <1>5, <2>1 DEF Store!Next
<1> QED BY <1>1, <1>2, <1>3, <1>4, <1>6, <1>7, <1>8, <1>9, <1>10 DEF Next

\* What a caller of the library sees is what plain collections of rows would show:
\* the refinement holds whatever the sizes, schemas, names and number of operations
THEOREM LibraryImplementsStore == Spec => Refinement
<1>1. Init => Store!Init
  <2> SUFFICES ASSUME Init PROVE Store!Init
    OBVIOUS
  <2>1. Table = EmptyMap
    BY NoRelations DEF Init
  <2> QED BY <2>1, SameOperators DEF Init, Store!Init
<1>2. IInv /\ RowsIInv /\ [Next]_vars => [Store!Next]_Store!storeVars
  <2> SUFFICES ASSUME IInv, RowsIInv, [Next]_vars PROVE [Store!Next]_Store!storeVars
    OBVIOUS
  <2>1. CASE Next
    BY <2>1, StepRefines
  <2>2. CASE UNCHANGED vars
    <3>1. UNCHANGED file /\ UNCHANGED reply
      BY <2>2 DEF vars, file
    <3>2. UNCHANGED Table
      BY <3>1, SameFileSameTable
    <3> QED BY <3>1, <3>2 DEF Store!storeVars
  <2> QED BY <2>1, <2>2
<1> QED BY <1>1, <1>2, RowsInvariant, PTL DEF Spec, Refinement, Store!Spec
=============================================================================
