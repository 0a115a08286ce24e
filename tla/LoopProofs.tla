----------------------------- MODULE LoopProofs -----------------------------
(***************************************************************************)
(* What the loops of file_ops.c do, proved for any sizes, schemas, numbers   *)
(* of pages and rows: the queries meet every row that matches, although they *)
(* write to the rows among which they walk, and a join puts out pairs of     *)
(* rows only, a row of the left in at most one.                             *)
(***************************************************************************)
EXTENDS Scan, Join, TypeOps, Numbers

-----------------------------------------------------------------------------
(* Offsets of rows *)

\* The offset of the row behind k others
Offset(schema, k) == FirstRow(schema.columns) + k * RowSize(schema)

LEMMA LayoutNat ==
  ASSUME NEW schema \in Schemas
  PROVE  /\ FirstRow(schema.columns) \in Nat
         /\ RowSize(schema) \in Nat \ {0}
         /\ FirstRow(schema.columns) + RowSize(schema) <= PageSize
<1>1. schema.columns \subseteq Column /\ schema.length \in Nat
  BY TablesAssumption
<1>2. Cardinality(schema.columns) \in Nat
  BY <1>1, TablesAssumption, FS_Subset, FS_CardinalityType
<1>3. ColumnSize * Cardinality(schema.columns) \in Nat
  BY <1>2, SizesAssumption
<1> QED BY <1>1, <1>3, SizesAssumption, RowFitsAssumption DEF FirstRow, RowSize

LEMMA OffsetSteps ==
  ASSUME NEW schema \in Schemas, NEW k \in Nat
  PROVE  /\ Offset(schema, k) \in Nat /\ k <= Offset(schema, k)
         /\ Offset(schema, 0) = FirstRow(schema.columns)
         /\ Offset(schema, k + 1) = Offset(schema, k) + RowSize(schema)
         /\ \A m \in Nat : k < m <=> Offset(schema, k) < Offset(schema, m)
         /\ \A m \in Nat : k = m <=> Offset(schema, k) = Offset(schema, m)
<1>1. PICK F, R : /\ F = FirstRow(schema.columns) /\ R = RowSize(schema)
                  /\ F \in Nat /\ R \in Nat \ {0}
  BY LayoutNat
<1>2. \A m \in Nat : Offset(schema, m) = F + m * R
  BY <1>1 DEF Offset
<1>3. /\ \A m \in Nat : m * R \in Nat /\ m <= m * R
      /\ (k + 1) * R = k * R + R /\ 0 * R = 0
  BY <1>1, Multiples
<1>4. \A m, n \in Nat : m < n => m * R + R <= n * R
  BY <1>1, Multiples
<1>5. ASSUME NEW m \in Nat
      PROVE  /\ k < m <=> Offset(schema, k) < Offset(schema, m)
             /\ k = m <=> Offset(schema, k) = Offset(schema, m)
  <2>1. PICK a \in Nat : a = k * R
    BY <1>3
  <2>2. PICK b \in Nat : b = m * R
    BY <1>3
  <2>3. k < m => a + R <= b
    BY <1>4, <2>1, <2>2
  <2>4. m < k => b + R <= a
    BY <1>4, <2>1, <2>2
  <2>5. Offset(schema, k) = F + a /\ Offset(schema, m) = F + b
    BY <1>2, <2>1, <2>2
  <2>6. k = m => a = b
    BY <2>1, <2>2
  <2> QED BY <1>1, <2>3, <2>4, <2>5, <2>6
<1>6. /\ Offset(schema, k) \in Nat /\ k <= Offset(schema, k)
      /\ Offset(schema, k + 1) = Offset(schema, k) + RowSize(schema)
  <2>1. PICK a \in Nat : a = k * R /\ k <= a
    BY <1>3
  <2>2. Offset(schema, k) = F + a /\ Offset(schema, k + 1) = F + (a + R)
    BY <1>2, <1>3, <2>1
  <2> QED BY <1>1, <2>1, <2>2
<1>7. Offset(schema, 0) = FirstRow(schema.columns)
  BY <1>1, <1>2, <1>3
<1> QED BY <1>5, <1>6, <1>7

\* A row and those before it are on the page
LEMMA Fits ==
  ASSUME NEW schema \in Schemas
  PROVE  /\ Fit(schema) \in Nat \ {0}
         /\ \A k \in 0 .. Fit(schema) : Offset(schema, k) <= PageSize
<1>1. PICK F, R : /\ F = FirstRow(schema.columns) /\ R = RowSize(schema)
                  /\ F \in Nat /\ R \in Nat \ {0} /\ F + R <= PageSize
  BY LayoutNat
<1>2. PICK space \in Nat : space = PageSize - F /\ R <= space
  BY <1>1, SizesAssumption
<1>3. PICK fit \in Nat : fit = space \div R /\ fit * R <= space /\ space < fit * R + R
  BY <1>1, <1>2
<1>4. fit = Fit(schema) /\ fit # 0
  BY <1>1, <1>2, <1>3 DEF Fit
<1>5. ASSUME NEW k \in 0 .. fit PROVE Offset(schema, k) <= PageSize
  <2>1. Offset(schema, k) <= Offset(schema, fit)
    <3>1. k \in Nat
      BY <1>3
    <3>2. CASE k < fit
      BY <1>3, <3>1, <3>2, OffsetSteps
    <3>3. CASE k = fit
      BY <1>3, <3>1, <3>3, OffsetSteps
    <3> QED BY <1>5, <3>2, <3>3
  <2>2. Offset(schema, fit) = F + fit * R /\ fit * R \in Nat
    BY <1>1, <1>3, Multiples DEF Offset
  <2>3. Offset(schema, k) \in Nat
    BY <1>3, OffsetSteps
  <2> QED BY <1>1, <1>2, <1>3, <2>1, <2>2, <2>3, SizesAssumption
<1> QED BY <1>3, <1>4, <1>5

-----------------------------------------------------------------------------
(* The pages of a relation *)

\* Page q has `count` rows and the link `next`
IsPage(q, schema, count, next) ==
  /\ q = [write_ptr |-> Offset(schema, count), next_page_number |-> next, rows |-> q.rows]
  /\ q.rows = [o \in {Offset(schema, k) : k \in 0 .. count - 1} |-> q.rows[o]]

\* What the i-th page of `length` has on it and behind it
Filled(schema, i, length, count) == IF i = length THEN count ELSE Fit(schema)
Link(chain, i, length) == IF i = length THEN 0 ELSE chain[i + 1]

\* p are the first `length` pages of the chain, full but for the `count` rows of the last
IsFile(p, schema, chain, length, count) ==
  /\ length \in 1 .. Len(chain)
  /\ count \in 0 .. Fit(schema) /\ (count = 0 => length = 1)
  /\ DOMAIN p = {chain[i] : i \in 1 .. length} /\ p = [n \in DOMAIN p |-> p[n]]
  /\ \A i \in 1 .. length :
       IsPage(p[chain[i]], schema, Filled(schema, i, length, count), Link(chain, i, length))

LEMMA RowsCounted ==
  ASSUME NEW schema \in Schemas, NEW count \in Nat
  PROVE  Cardinality(Offsets(schema, count)) = count
<1>1. Offsets(schema, count) = {Offset(schema, k) : k \in 0 .. count - 1}
  BY DEF Offsets, Offset
<1> DEFINE f == [n \in 1 .. count |-> Offset(schema, n - 1)]
<1>2. \A m, n \in 1 .. count : f[m] = f[n] => m = n
  <2> SUFFICES ASSUME NEW m \in 1 .. count, NEW n \in 1 .. count, f[m] = f[n]
               PROVE  m = n
    OBVIOUS
  <2>1. m - 1 \in Nat /\ n - 1 \in Nat /\ Offset(schema, m - 1) = Offset(schema, n - 1)
    OBVIOUS
  <2>2. m - 1 = n - 1
    BY <2>1, OffsetSteps
  <2> QED BY <2>2
<1>3. f \in [1 .. count -> Offsets(schema, count)]
  BY <1>1
<1>4. \A o \in Offsets(schema, count) : \E n \in 1 .. count : f[n] = o
  <2> SUFFICES ASSUME NEW k \in 0 .. count - 1
               PROVE  \E n \in 1 .. count : f[n] = Offset(schema, k)
    BY <1>1
  <2>1. k + 1 \in 1 .. count /\ (k + 1) - 1 = k
    OBVIOUS
  <2>2. f[k + 1] = Offset(schema, k)
    BY <2>1
  <2> QED BY <2>1, <2>2
<1> HIDE DEF f
<1>5. ExistsBijection(1 .. count, Offsets(schema, count))
  BY <1>2, <1>3, <1>4 DEF ExistsBijection, Bijection, Injection, Surjection, IsInjective
<1> QED BY <1>5, FS_CountingElements

LEMMA FileShape ==
  ASSUME NEW schema \in Schemas, NEW chain, IsChain(chain), NEW p \in Files(schema, chain)
  PROVE  \E length, count : IsFile(p, schema, chain, length, count)
<1>1. chain \in Seq(Nat \ {0}) /\ Len(chain) \in Nat
  BY DEF IsChain
<1>2. PICK length \in 1 .. Len(chain) :
        \E content, count : /\ count \in (IF length = 1 THEN 0 ELSE 1) .. Fit(schema)
                           /\ content \in [PlacesOf(schema, SubSeq(chain, 1, length), count)
                                            -> AnyRow(schema)]
                           /\ p = PagesOf(schema, SubSeq(chain, 1, length), content)
  BY DEF Files
<1>3. PICK used : used = SubSeq(chain, 1, length)
  OBVIOUS
<1>4. PICK content, count : /\ count \in (IF length = 1 THEN 0 ELSE 1) .. Fit(schema)
                            /\ content \in [PlacesOf(schema, used, count) -> AnyRow(schema)]
                            /\ p = PagesOf(schema, used, content)
  BY <1>2, <1>3
<1>5. count \in 0 .. Fit(schema) /\ Fit(schema) \in Nat /\ (count = 0 => length = 1)
  BY <1>4, Fits
<1>6. /\ Len(used) = length /\ DOMAIN used = 1 .. length
      /\ \A i \in 1 .. length : used[i] = chain[i] /\ i \in DOMAIN chain
  BY <1>1, <1>3
<1>7. \A i, j \in 1 .. length : used[i] = used[j] => i = j
  BY <1>6 DEF IsChain
<1>8. ASSUME NEW i \in 1 .. length
      PROVE  IsPage(p[used[i]], schema, Filled(schema, i, length, count), Link(chain, i, length))
  <2>1. PICK c \in 0 .. Fit(schema) : c = Filled(schema, i, length, count)
    BY <1>5 DEF Filled
  <2>2. Offsets(schema, c) = {Offset(schema, k) : k \in 0 .. c - 1}
    BY DEF Offsets, Offset
  <2>3. Offsets(schema, c) \subseteq 0 .. PageSize
    <3> SUFFICES ASSUME NEW k \in 0 .. c - 1 PROVE Offset(schema, k) \in 0 .. PageSize
      BY <2>2
    <3>1. k \in Nat /\ k \in 0 .. Fit(schema)
      BY <1>5
    <3> QED BY <3>1, Fits, OffsetSteps
  <2>4. \A o : <<used[i], o>> \in PlacesOf(schema, used, count) <=> o \in Offsets(schema, c)
    BY <1>6, <1>7, <2>1 DEF PlacesOf, Filled
  <2>5. PICK rows : rows = {o \in 0 .. PageSize : <<used[i], o>> \in DOMAIN content}
    OBVIOUS
  <2>6. rows = Offsets(schema, c)
    BY <1>4, <2>3, <2>4, <2>5
  <2>7. (CHOOSE j \in DOMAIN used : used[j] = used[i]) = i
    BY <1>6, <1>7
  <2>8. p[used[i]] = [write_ptr |-> FirstRow(schema.columns) + RowSize(schema) * Cardinality(rows),
                      next_page_number |-> IF i = Len(used) THEN 0 ELSE used[i + 1],
                      rows |-> [o \in rows |-> content[<<used[i], o>>]]]
    BY <1>4, <1>6, <2>5, <2>7 DEF PagesOf
  <2>9. Cardinality(rows) = c /\ RowSize(schema) * c = c * RowSize(schema)
    BY <1>5, <2>6, RowsCounted, LayoutNat
  <2>10. (IF i = Len(used) THEN 0 ELSE used[i + 1]) = Link(chain, i, length)
    BY <1>6 DEF Link
  <2>11. p[used[i]] = [write_ptr |-> Offset(schema, c), next_page_number |-> Link(chain, i, length),
                       rows |-> [o \in rows |-> content[<<used[i], o>>]]]
    BY <2>8, <2>9, <2>10 DEF Offset
  <2> QED BY <2>1, <2>2, <2>6, <2>11 DEF IsPage
<1>9. p = [n \in {chain[i] : i \in 1 .. length} |-> p[n]]
  <2>1. {used[i] : i \in DOMAIN used} = {chain[i] : i \in 1 .. length}
    BY <1>6
  <2> QED BY <1>4, <2>1 DEF PagesOf
<1> QED BY <1>2, <1>5, <1>6, <1>8, <1>9 DEF IsFile

-----------------------------------------------------------------------------
(* The cursor of a loop *)

\* The cursor is at the row behind k others of the i-th page; behind the last row
\* only on the last page
CursorAt(cur, schema, chain, length, count, i, k) ==
  /\ i \in 1 .. length /\ k \in 0 .. Filled(schema, i, length, count)
  /\ k = Filled(schema, i, length, count) => i = length
  /\ cur = [page_number |-> chain[i], write_ptr |-> Offset(schema, Filled(schema, i, length, count)),
            next_page_number |-> Link(chain, i, length), ptr |-> Offset(schema, k)]

\* The places behind a cursor at row k of page i
Behind(schema, chain, i, k) ==
  {<<chain[j], Offset(schema, l)>> : j \in 1 .. i - 1, l \in 0 .. Fit(schema) - 1}
    \cup {<<chain[i], Offset(schema, l)>> : l \in 0 .. k - 1}

LEMMA FilledNat ==
  ASSUME NEW schema \in Schemas, NEW length, NEW count \in 0 .. Fit(schema), NEW i
  PROVE  Filled(schema, i, length, count) \in 0 .. Fit(schema)
BY Fits DEF Filled

\* A loop that comes to a page is at its first row
LEMMA Entered ==
  ASSUME NEW schema \in Schemas, NEW chain, NEW p, NEW length, NEW count,
         IsFile(p, schema, chain, length, count), NEW i \in 1 .. length
  PROVE  CursorAt(enter_page(p, schema, chain[i]), schema, chain, length, count, i, 0)
<1>1. /\ length \in 1 .. Len(chain) /\ count \in 0 .. Fit(schema) /\ (count = 0 => length = 1)
      /\ IsPage(p[chain[i]], schema, Filled(schema, i, length, count), Link(chain, i, length))
  BY DEF IsFile
<1>2. Filled(schema, i, length, count) \in 0 .. Fit(schema) /\ Fit(schema) \in Nat \ {0}
  BY <1>1, FilledNat, Fits
<1>3. 0 = Filled(schema, i, length, count) => i = length
  BY <1>1, <1>2 DEF Filled
<1>4. FirstRow(schema.columns) = Offset(schema, 0)
  BY OffsetSteps
<1>5. /\ p[chain[i]].write_ptr = Offset(schema, Filled(schema, i, length, count))
      /\ p[chain[i]].next_page_number = Link(chain, i, length)
  BY <1>1 DEF IsPage
<1>6. 0 \in 0 .. Filled(schema, i, length, count)
  BY <1>2
<1> QED BY <1>3, <1>4, <1>5, <1>6 DEF CursorAt, enter_page

\* The end of an iteration brings the cursor behind one more row
LEMMA Advanced ==
  ASSUME NEW schema \in Schemas, NEW chain, IsChain(chain), NEW p, NEW length, NEW count,
         IsFile(p, schema, chain, length, count), NEW cur, NEW i, NEW k,
         CursorAt(cur, schema, chain, length, count, i, k), cur.ptr # cur.write_ptr
  PROVE  \E j, l : /\ CursorAt(advance(p, schema, cur), schema, chain, length, count, j, l)
                   /\ Behind(schema, chain, j, l) = Behind(schema, chain, i, k) \cup {Place(cur)}
<1>1. /\ length \in 1 .. Len(chain) /\ count \in 0 .. Fit(schema) /\ (count = 0 => length = 1)
      /\ Len(chain) \in Nat /\ Fit(schema) \in Nat \ {0}
  BY Fits DEF IsFile, IsChain
<1>2. PICK full \in 0 .. Fit(schema) : full = Filled(schema, i, length, count)
  BY <1>1, FilledNat
<1>3. /\ i \in 1 .. length /\ k \in 0 .. full /\ k # full
      /\ cur = [page_number |-> chain[i], write_ptr |-> Offset(schema, full),
                next_page_number |-> Link(chain, i, length), ptr |-> Offset(schema, k)]
  BY <1>2 DEF CursorAt
<1>4. /\ k \in Nat /\ full \in Nat /\ k + 1 \in 0 .. full
      /\ Offset(schema, k + 1) = Offset(schema, k) + RowSize(schema)
      /\ (Offset(schema, k + 1) = Offset(schema, full) <=> k + 1 = full)
  <2>1. k \in Nat /\ full \in Nat /\ k + 1 \in Nat /\ k + 1 \in 0 .. full
    BY <1>1, <1>3
  <2> QED BY <2>1, OffsetSteps
<1>5. Link(chain, i, length) # 0 <=> i # length
  BY <1>1, <1>3 DEF Link, IsChain
<1>6. CASE i # length /\ k + 1 = full
  <2>1. advance(p, schema, cur) = enter_page(p, schema, chain[i + 1])
    BY <1>3, <1>4, <1>5, <1>6 DEF advance, Link
  <2>2. i + 1 \in 1 .. length
    BY <1>1, <1>3, <1>6
  <2>3. CursorAt(advance(p, schema, cur), schema, chain, length, count, i + 1, 0)
    BY <2>1, <2>2, Entered
  <2>4. Behind(schema, chain, i + 1, 0) = Behind(schema, chain, i, k) \cup {Place(cur)}
    <3>1. full = Fit(schema)
      BY <1>2, <1>6 DEF Filled
    <3>2. Place(cur) = <<chain[i], Offset(schema, k)>>
      BY <1>3 DEF Place
    <3>3. 0 .. 0 - 1 = {} /\ 1 .. (i + 1) - 1 = (1 .. i - 1) \cup {i}
          /\ 0 .. Fit(schema) - 1 = (0 .. k - 1) \cup {k}
      BY <1>1, <1>3, <1>4, <1>6, <3>1
    <3>4. Behind(schema, chain, i + 1, 0) =
            {<<chain[j], Offset(schema, l)>> : j \in 1 .. (i + 1) - 1, l \in 0 .. Fit(schema) - 1}
      BY <3>3 DEF Behind
    <3> QED BY <3>2, <3>3, <3>4 DEF Behind
  <2> QED BY <2>3, <2>4
<1>7. CASE ~(i # length /\ k + 1 = full)
  <2>1. advance(p, schema, cur) = [cur EXCEPT !.ptr = Offset(schema, k + 1)]
    BY <1>3, <1>4, <1>5, <1>7 DEF advance
  <2>2. CursorAt(advance(p, schema, cur), schema, chain, length, count, i, k + 1)
    BY <1>2, <1>3, <1>4, <1>7, <2>1 DEF CursorAt
  <2>3. Behind(schema, chain, i, k + 1) = Behind(schema, chain, i, k) \cup {Place(cur)}
    <3>1. 0 .. (k + 1) - 1 = (0 .. k - 1) \cup {k}
      BY <1>4
    <3>2. Place(cur) = <<chain[i], Offset(schema, k)>>
      BY <1>3 DEF Place
    <3> QED BY <3>1, <3>2 DEF Behind
  <2> QED BY <2>2, <2>3
<1> QED BY <1>6, <1>7

-----------------------------------------------------------------------------
(* The places of a file *)

\* The rows of page q are where a loop looks for them
RowsFound(q, schema, c, next) ==
  /\ RowOffsets(q, schema) = {Offset(schema, k) : k \in 0 .. c - 1}
  /\ DOMAIN q.rows = {Offset(schema, k) : k \in 0 .. c - 1}
  /\ q.write_ptr = Offset(schema, c) /\ q.next_page_number = next

LEMMA PageOffsets ==
  ASSUME NEW schema \in Schemas, NEW q, NEW c \in 0 .. Fit(schema), NEW next,
         IsPage(q, schema, c, next)
  PROVE  RowsFound(q, schema, c, next)
<1>1. /\ q.write_ptr = Offset(schema, c) /\ q.next_page_number = next
      /\ DOMAIN q.rows = {Offset(schema, k) : k \in 0 .. c - 1}
  BY DEF IsPage
<1>2. RowOffsets(q, schema) = {Offset(schema, k) : k \in 0 .. PageSize} \cap (0 .. Offset(schema, c) - 1)
  BY <1>1 DEF RowOffsets, Offset
<1>3. Fit(schema) \in Nat /\ c \in Nat /\ Offset(schema, c) \in Nat /\ Offset(schema, c) <= PageSize
  <2>1. Fit(schema) \in Nat /\ c \in Nat
    BY Fits
  <2> QED BY <2>1, OffsetSteps, Fits
<1>4. ASSUME NEW k \in Nat
      PROVE  Offset(schema, k) \in Nat /\ k <= Offset(schema, k) /\ (k < c <=> Offset(schema, k) < Offset(schema, c))
  BY <1>3, OffsetSteps
<1>5. ASSUME NEW k \in 0 .. PageSize, Offset(schema, k) \in 0 .. Offset(schema, c) - 1
      PROVE  k \in 0 .. c - 1
  <2>1. k \in Nat
    BY SizesAssumption
  <2> QED BY <1>3, <1>4, <1>5, <2>1
<1>6. ASSUME NEW k \in 0 .. c - 1
      PROVE  k \in 0 .. PageSize /\ Offset(schema, k) \in 0 .. Offset(schema, c) - 1
  <2>1. k \in Nat /\ k < c
    BY <1>3
  <2> QED BY <1>3, <1>4, <2>1, SizesAssumption
<1> QED BY <1>1, <1>2, <1>5, <1>6 DEF RowsFound

\* The i-th page
LEMMA PageOfFile ==
  ASSUME NEW schema \in Schemas, NEW chain, NEW p, NEW length, NEW count,
         IsFile(p, schema, chain, length, count), NEW i \in 1 .. length
  PROVE  \E c \in 0 .. Fit(schema) : /\ c = Filled(schema, i, length, count)
                                    /\ RowsFound(p[chain[i]], schema, c, Link(chain, i, length))
<1>1. PICK c : c = Filled(schema, i, length, count)
  OBVIOUS
<1>2. c \in 0 .. Fit(schema) /\ IsPage(p[chain[i]], schema, c, Link(chain, i, length))
  BY <1>1, FilledNat DEF IsFile
<1> QED BY <1>1, <1>2, PageOffsets

\* A scan meets every page: no page but the only one is empty
LEMMA AllScanned ==
  ASSUME NEW schema \in Schemas, NEW chain, IsChain(chain), NEW p, NEW length, NEW count,
         IsFile(p, schema, chain, length, count)
  PROVE  Scanned(p, schema, chain[1]) = {chain[i] : i \in 1 .. length}
<1>1. /\ length \in 1 .. Len(chain) /\ count \in 0 .. Fit(schema) /\ (count = 0 => length = 1)
      /\ Len(chain) \in Nat /\ Fit(schema) \in Nat \ {0} /\ length \in Nat
      /\ DOMAIN p = {chain[i] : i \in 1 .. length}
      /\ \A i \in 1 .. length : chain[i] \in Nat \ {0}
  BY Fits DEF IsFile, IsChain
<1>2. ASSUME NEW i \in 1 .. length
      PROVE  ScanNext(p, schema, chain[i]) = IF i = length THEN {} ELSE {chain[i + 1]}
  <2>1. PICK c \in 0 .. Fit(schema) :
          /\ c = Filled(schema, i, length, count) /\ p[chain[i]].write_ptr = Offset(schema, c)
          /\ p[chain[i]].next_page_number = Link(chain, i, length)
    BY PageOfFile DEF RowsFound
  <2>2. i # length => c # 0
    BY <1>1, <2>1 DEF Filled
  <2>3. p[chain[i]].write_ptr = FirstRow(schema.columns) <=> c = 0
    <3>1. c \in Nat
      BY <1>1
    <3> QED BY <2>1, <3>1, OffsetSteps
  <2>4. i # length => i + 1 \in 1 .. length
    BY <1>1
  <2> QED BY <1>1, <2>1, <2>2, <2>3, <2>4 DEF ScanNext, Link
<1>3. ASSUME NEW S \in SUBSET DOMAIN p, chain[1] \in S,
             \A m \in S : ScanNext(p, schema, m) \subseteq S,
             NEW i \in 1 .. length, chain[i] \notin S
      PROVE  FALSE
  <2>1. PICK X : X = {j \in 1 .. length : chain[j] \notin S}
    OBVIOUS
  <2>2. PICK j \in X : \A l \in X : j <= l
    <3>1. X \in SUBSET Nat /\ X # {}
      BY <1>1, <1>3, <2>1
    <3> QED BY <3>1, LeastNumber
  <2>3. j \in 1 .. length /\ j # 1 /\ chain[j] \notin S
    BY <1>3, <2>1, <2>2
  <2>4. j - 1 \in 1 .. length /\ j - 1 # length /\ (j - 1) + 1 = j /\ ~ j <= j - 1
    BY <1>1, <2>3
  <2>5. chain[j - 1] \in S
    BY <2>1, <2>2, <2>4
  <2>6. ScanNext(p, schema, chain[j - 1]) = {chain[j]}
    BY <1>2, <2>4
  <2> QED BY <1>3, <2>3, <2>5, <2>6
<1>4. PICK all : all = {chain[i] : i \in 1 .. length}
  OBVIOUS
<1>5. all \in SUBSET DOMAIN p /\ chain[1] \in all
  BY <1>1, <1>4
<1>6. \A m \in all : ScanNext(p, schema, m) \subseteq all
  <2> SUFFICES ASSUME NEW i \in 1 .. length PROVE ScanNext(p, schema, chain[i]) \subseteq all
    BY <1>4
  <2>1. i # length => i + 1 \in 1 .. length
    BY <1>1
  <2> QED BY <1>2, <1>4, <2>1
<1>7. ASSUME NEW n \in Scanned(p, schema, chain[1]) PROVE n \in all
  BY <1>5, <1>6 DEF Scanned
<1>8. ASSUME NEW i \in 1 .. length PROVE chain[i] \in Scanned(p, schema, chain[1])
  BY <1>1, <1>3 DEF Scanned
<1> QED BY <1>4, <1>7, <1>8

\* What is behind a cursor at the end is all there is
LEMMA AllPlaces ==
  ASSUME NEW schema \in Schemas, NEW chain, IsChain(chain), NEW p, NEW length, NEW count,
         IsFile(p, schema, chain, length, count)
  PROVE  Places(p, schema, chain[1]) = Behind(schema, chain, length, count)
<1>1. length \in Nat \ {0} /\ count \in 0 .. Fit(schema)
  BY DEF IsFile, IsChain
<1>2. Places(p, schema, chain[1]) =
        UNION {{chain[i]} \X RowOffsets(p[chain[i]], schema) : i \in 1 .. length}
  BY AllScanned DEF Places
<1>3. ASSUME NEW i \in 1 .. length
      PROVE  RowOffsets(p[chain[i]], schema) =
               {Offset(schema, k) : k \in 0 .. Filled(schema, i, length, count) - 1}
  <2>1. PICK c : /\ c = Filled(schema, i, length, count)
                 /\ RowOffsets(p[chain[i]], schema) = {Offset(schema, k) : k \in 0 .. c - 1}
    BY PageOfFile DEF RowsFound
  <2> QED BY <2>1
<1>4. Filled(schema, length, length, count) = count
      /\ \A i \in 1 .. length - 1 : Filled(schema, i, length, count) = Fit(schema)
  BY <1>1 DEF Filled
<1>5. 1 .. length = (1 .. length - 1) \cup {length}
  BY <1>1
<1>6. \A i \in 1 .. length - 1 :
        {chain[i]} \X RowOffsets(p[chain[i]], schema) =
          {<<chain[i], Offset(schema, l)>> : l \in 0 .. Fit(schema) - 1}
  BY <1>3, <1>4, <1>5
<1>7. {chain[length]} \X RowOffsets(p[chain[length]], schema) =
        {<<chain[length], Offset(schema, l)>> : l \in 0 .. count - 1}
  <2>1. length \in 1 .. length
    BY <1>1
  <2>2. RowOffsets(p[chain[length]], schema) = {Offset(schema, k) : k \in 0 .. count - 1}
    BY <1>3, <1>4, <2>1
  <2> QED BY <2>2
<1> QED BY <1>2, <1>5, <1>6, <1>7 DEF Behind

-----------------------------------------------------------------------------
(* A file that is written over, row by row *)

RowsOver(rows, n, new) ==
  [o \in DOMAIN rows |-> IF <<n, o>> \in DOMAIN new THEN new[<<n, o>>] ELSE rows[o]]

LEMMA PageOver ==
  ASSUME NEW schema, NEW chain, NEW p, NEW length, NEW count,
         IsFile(p, schema, chain, length, count), NEW i \in 1 .. length, NEW new
  PROVE  Overwrite(p, new)[chain[i]] =
           [write_ptr |-> p[chain[i]].write_ptr, next_page_number |-> p[chain[i]].next_page_number,
            rows |-> RowsOver(p[chain[i]].rows, chain[i], new)]
<1>1. PICK n, w, x, r : n = chain[i] /\ p[n] = [write_ptr |-> w, next_page_number |-> x, rows |-> r]
  BY DEF IsFile, IsPage
<1>2. n \in DOMAIN p
  BY <1>1 DEF IsFile
<1>3. Overwrite(p, new)[n] = [p[n] EXCEPT !.rows = RowsOver(@, n, new)]
  BY <1>2 DEF Overwrite, RowsOver
<1> QED BY <1>1, <1>3

\* What is written over a file leaves its shape
LEMMA FileOver ==
  ASSUME NEW schema, NEW chain, NEW p, NEW length, NEW count,
         IsFile(p, schema, chain, length, count), NEW new
  PROVE  IsFile(Overwrite(p, new), schema, chain, length, count)
<1>1. DOMAIN p = {chain[i] : i \in 1 .. length}
      /\ Overwrite(p, new) = [n \in DOMAIN p |-> Overwrite(p, new)[n]]
  BY DEF Overwrite, IsFile
<1>2. ASSUME NEW i \in 1 .. length
      PROVE  IsPage(Overwrite(p, new)[chain[i]], schema, Filled(schema, i, length, count),
                    Link(chain, i, length))
  <2>1. PICK q, c, x : q = p[chain[i]] /\ c = Filled(schema, i, length, count) /\ x = Link(chain, i, length)
    OBVIOUS
  <2>2. q = [write_ptr |-> Offset(schema, c), next_page_number |-> x, rows |-> q.rows]
        /\ DOMAIN q.rows = {Offset(schema, k) : k \in 0 .. c - 1}
    BY <2>1 DEF IsFile, IsPage
  <2>3. PICK r : r = RowsOver(q.rows, chain[i], new)
    OBVIOUS
  <2>4. Overwrite(p, new)[chain[i]] = [write_ptr |-> Offset(schema, c), next_page_number |-> x, rows |-> r]
    BY <2>1, <2>2, <2>3, PageOver
  <2>5. r = [o \in {Offset(schema, k) : k \in 0 .. c - 1} |-> r[o]]
    BY <2>2, <2>3 DEF RowsOver
  <2> QED BY <2>1, <2>4, <2>5 DEF IsPage
<1> QED BY <1>1, <1>2 DEF IsFile

\* What is not written over is as it was
LEMMA RowKept ==
  ASSUME NEW schema \in Schemas, NEW chain, NEW p, NEW length, NEW count,
         IsFile(p, schema, chain, length, count), NEW i \in 1 .. length,
         NEW k \in 0 .. Filled(schema, i, length, count) - 1, NEW place,
         place = <<chain[i], Offset(schema, k)>>, NEW new, place \notin DOMAIN new
  PROVE  RowAt(Overwrite(p, new), place) = RowAt(p, place)
<1>1. Overwrite(p, new)[chain[i]].rows = RowsOver(p[chain[i]].rows, chain[i], new)
  <2>1. Overwrite(p, new)[chain[i]] =
          [write_ptr |-> p[chain[i]].write_ptr, next_page_number |-> p[chain[i]].next_page_number,
           rows |-> RowsOver(p[chain[i]].rows, chain[i], new)]
    BY PageOver
  <2> QED BY <2>1
<1>2. Offset(schema, k) \in DOMAIN p[chain[i]].rows
  <2>1. PICK c : /\ c = Filled(schema, i, length, count)
                 /\ DOMAIN p[chain[i]].rows = {Offset(schema, l) : l \in 0 .. c - 1}
    BY PageOfFile DEF RowsFound
  <2> QED BY <2>1
<1> QED BY <1>1, <1>2 DEF RowAt, RowsOver

\* v at the offset o of page n
RowSet(f, n, o, v) == [f EXCEPT ![n].rows[o] = v]

\* wider is new with v at place
Widened(new, wider, place, v) ==
  /\ DOMAIN wider = DOMAIN new \cup {place} /\ wider[place] = v
  /\ \A x \in DOMAIN new : x # place => wider[x] = new[x]

\* One row more is written over
LEMMA OneMoreOver ==
  ASSUME NEW schema \in Schemas, NEW chain, NEW p, NEW length, NEW count,
         IsFile(p, schema, chain, length, count), NEW i \in 1 .. length, NEW o, NEW v,
         NEW new, NEW wider, Widened(new, wider, <<chain[i], o>>, v)
  PROVE  RowSet(Overwrite(p, new), chain[i], o, v) = Overwrite(p, wider)
<1>a. /\ DOMAIN wider = DOMAIN new \cup {<<chain[i], o>>} /\ wider[<<chain[i], o>>] = v
      /\ \A x \in DOMAIN new : x # <<chain[i], o>> => wider[x] = new[x]
  BY DEF Widened
<1>1. PICK f, g, n : f = Overwrite(p, new) /\ g = Overwrite(p, wider) /\ n = chain[i]
  OBVIOUS
<1>2. /\ DOMAIN f = DOMAIN p /\ f = [m \in DOMAIN p |-> f[m]]
      /\ DOMAIN g = DOMAIN p /\ g = [m \in DOMAIN p |-> g[m]]
  BY <1>1 DEF Overwrite
<1>3. n \in DOMAIN p
  BY <1>1 DEF IsFile
<1>4. ASSUME NEW m \in DOMAIN p, m # n
      PROVE  f[m] = g[m]
  <2>1. RowsOver(p[m].rows, m, new) = RowsOver(p[m].rows, m, wider)
    <3>1. \A x : <<m, x>> # <<chain[i], o>>
      BY <1>1, <1>4
    <3>2. \A x : /\ <<m, x>> \in DOMAIN new <=> <<m, x>> \in DOMAIN wider
                 /\ <<m, x>> \in DOMAIN new => new[<<m, x>>] = wider[<<m, x>>]
      BY <1>a, <3>1
    <3> QED BY <3>2 DEF RowsOver
  <2>2. f[m] = [p[m] EXCEPT !.rows = RowsOver(@, m, new)]
    BY <1>1, <1>4 DEF Overwrite, RowsOver
  <2>3. g[m] = [p[m] EXCEPT !.rows = RowsOver(@, m, wider)]
    BY <1>1, <1>4 DEF Overwrite, RowsOver
  <2> QED BY <2>1, <2>2, <2>3
<1>5. [f[n] EXCEPT !.rows[o] = v] = g[n]
  <2>1. PICK r : r = RowsOver(p[n].rows, n, new)
    OBVIOUS
  <2>2. [r EXCEPT ![o] = v] = RowsOver(p[n].rows, n, wider)
    <3>1. \A x : x # o => /\ <<n, x>> \in DOMAIN new <=> <<n, x>> \in DOMAIN wider
                          /\ <<n, x>> \in DOMAIN new => new[<<n, x>>] = wider[<<n, x>>]
      BY <1>1, <1>a
    <3>2. <<n, o>> \in DOMAIN wider /\ wider[<<n, o>>] = v
      BY <1>1, <1>a
    <3> QED BY <2>1, <3>1, <3>2 DEF RowsOver
  <2>3. f[n] = [write_ptr |-> p[n].write_ptr, next_page_number |-> p[n].next_page_number, rows |-> r]
    BY <1>1, <2>1, PageOver
  <2>4. g[n] = [write_ptr |-> p[n].write_ptr, next_page_number |-> p[n].next_page_number,
                rows |-> [r EXCEPT ![o] = v]]
    BY <1>1, <2>2, PageOver
  <2> QED BY <2>3, <2>4
<1>6. [f EXCEPT ![n].rows[o] = v] = g
  BY <1>2, <1>3, <1>4, <1>5
<1> QED BY <1>1, <1>6 DEF RowSet

-----------------------------------------------------------------------------
(* The loops of the queries *)

LEMMA IsBehind ==
  ASSUME NEW schema \in Schemas, NEW chain, IsChain(chain),
         NEW i \in 1 .. Len(chain), NEW k \in Nat, NEW j \in 1 .. Len(chain), NEW l \in Nat
  PROVE  <<chain[j], Offset(schema, l)>> \in Behind(schema, chain, i, k)
           <=> (j < i /\ l < Fit(schema)) \/ (j = i /\ l < k)
<1>1. /\ Fit(schema) \in Nat /\ Len(chain) \in Nat
      /\ \A m \in 1 .. Len(chain) : chain[m] = chain[j] => m = j
  BY Fits DEF IsChain
<1>2. \A m \in Nat : Offset(schema, l) = Offset(schema, m) => l = m
  BY OffsetSteps
<1>3. \A m \in 1 .. i - 1 : m \in 1 .. Len(chain)
  BY <1>1
<1>4. \A m \in 0 .. Fit(schema) - 1 : m \in Nat
  OBVIOUS
<1>5. <<chain[j], Offset(schema, l)>> \in
        {<<chain[m], Offset(schema, n)>> : m \in 1 .. i - 1, n \in 0 .. Fit(schema) - 1}
        <=> j < i /\ l < Fit(schema)
  <2>1. ASSUME NEW m \in 1 .. i - 1, NEW n \in 0 .. Fit(schema) - 1,
               <<chain[j], Offset(schema, l)>> = <<chain[m], Offset(schema, n)>>
        PROVE  j < i /\ l < Fit(schema)
    <3>1. m = j /\ n = l
      BY <1>1, <1>2, <1>3, <1>4, <2>1
    <3> QED BY <1>1, <3>1
  <2>2. ASSUME j < i, l < Fit(schema)
        PROVE  j \in 1 .. i - 1 /\ l \in 0 .. Fit(schema) - 1
    BY <1>1, <2>2
  <2> QED BY <2>1, <2>2
<1>6. <<chain[j], Offset(schema, l)>> \in {<<chain[i], Offset(schema, n)>> : n \in 0 .. k - 1}
        <=> j = i /\ l < k
  <2>1. ASSUME NEW n \in 0 .. k - 1, <<chain[j], Offset(schema, l)>> = <<chain[i], Offset(schema, n)>>
        PROVE  j = i /\ l < k
    <3>1. i = j /\ n = l
      BY <1>1, <1>2, <2>1
    <3> QED BY <3>1
  <2>2. ASSUME l < k
        PROVE  l \in 0 .. k - 1
    BY <2>2
  <2> QED BY <2>1, <2>2
<1> QED BY <1>5, <1>6 DEF Behind

\* The row under a cursor that is not at the end
LEMMA AtRow ==
  ASSUME NEW schema \in Schemas, NEW chain, IsChain(chain), NEW p, NEW length, NEW count,
         IsFile(p, schema, chain, length, count), NEW cur, NEW i, NEW k,
         CursorAt(cur, schema, chain, length, count, i, k)
  PROVE  /\ i \in 1 .. length /\ length \in 1 .. Len(chain) /\ k \in Nat
         /\ Place(cur) = <<chain[i], Offset(schema, k)>>
         /\ cur.ptr = cur.write_ptr => i = length /\ k = count
         /\ ~ cur.write_ptr < cur.ptr
         /\ cur.ptr # cur.write_ptr =>
              /\ k \in 0 .. Filled(schema, i, length, count) - 1
              /\ Place(cur) \in Places(p, schema, chain[1])
              /\ Place(cur) \notin Behind(schema, chain, i, k)
<1>1. PICK c \in 0 .. Fit(schema) : c = Filled(schema, i, length, count)
  BY FilledNat DEF IsFile
<1>2. /\ i \in 1 .. length /\ k \in 0 .. c /\ (k = c => i = length)
      /\ cur = [page_number |-> chain[i], write_ptr |-> Offset(schema, c),
                next_page_number |-> Link(chain, i, length), ptr |-> Offset(schema, k)]
  BY <1>1 DEF CursorAt
<1>3. /\ length \in 1 .. Len(chain) /\ count \in 0 .. Fit(schema) /\ Len(chain) \in Nat
      /\ Fit(schema) \in Nat
  BY Fits DEF IsFile, IsChain
<1>4. k \in Nat /\ c \in Nat
  BY <1>2, <1>3
<1>5. Place(cur) = <<chain[i], Offset(schema, k)>>
  BY <1>2 DEF Place
<1>6. cur.ptr = cur.write_ptr <=> k = c
  BY <1>2, <1>4, OffsetSteps
<1>7. ~ cur.write_ptr < cur.ptr
  <2>1. c < k <=> Offset(schema, c) < Offset(schema, k)
    BY <1>4, OffsetSteps
  <2> QED BY <1>2, <1>4, <2>1
<1>8. k = c => i = length /\ k = count
  BY <1>1, <1>2 DEF Filled
<1>9. ASSUME k # c
      PROVE  /\ k \in 0 .. c - 1 /\ Place(cur) \in Places(p, schema, chain[1])
             /\ Place(cur) \notin Behind(schema, chain, i, k)
  <2>1. k \in 0 .. c - 1 /\ i \in 1 .. Len(chain) /\ length \in 1 .. Len(chain) /\ count \in Nat
    BY <1>2, <1>3, <1>4, <1>9
  <2>2. Places(p, schema, chain[1]) = Behind(schema, chain, length, count)
    BY AllPlaces
  <2>3. (i < length /\ k < Fit(schema)) \/ (i = length /\ k < count)
    BY <1>1, <1>2, <1>3, <1>4, <2>1 DEF Filled
  <2>4. Place(cur) \in Behind(schema, chain, length, count)
    BY <1>4, <1>5, <2>1, <2>3, IsBehind
  <2>5. Place(cur) \notin Behind(schema, chain, i, k)
    BY <1>4, <1>5, <2>1, IsBehind
  <2> QED BY <2>1, <2>2, <2>4, <2>5
<1> QED BY <1>1, <1>2, <1>3, <1>4, <1>5, <1>6, <1>7, <1>8, <1>9

\* The places that a loop has left precede the cursor, for the pages of a relation
\* are in the order of their numbers
LEMMA BehindPrecedes ==
  ASSUME NEW p, NEW length, NEW count, IsFile(p, Schema, Chain, length, count),
         NEW cur, NEW i, NEW k, CursorAt(cur, Schema, Chain, length, count, i, k),
         NEW pl \in Places(p, Schema, Chain[1])
  PROVE  Precedes(pl, Place(cur)) <=> pl \in Behind(Schema, Chain, i, k)
<1>1. /\ Schema \in Schemas /\ IsChain(Chain) /\ Len(Chain) \in Nat /\ DOMAIN Chain = 1 .. Len(Chain)
      /\ \A m \in 1 .. Len(Chain) : Chain[m] \in Nat
      /\ \A m, n \in 1 .. Len(Chain) : m < n => Chain[m] < Chain[n]
  BY ScanAssumption DEF IsChain
<1>2. /\ i \in 1 .. Len(Chain) /\ k \in Nat /\ length \in 1 .. Len(Chain) /\ count \in Nat
      /\ Fit(Schema) \in Nat /\ Place(cur) = <<Chain[i], Offset(Schema, k)>>
  <2>1. /\ i \in 1 .. length /\ length \in 1 .. Len(Chain) /\ k \in Nat
        /\ Place(cur) = <<Chain[i], Offset(Schema, k)>>
    BY <1>1, AtRow
  <2>2. count \in Nat /\ Fit(Schema) \in Nat
    BY <1>1, Fits DEF IsFile
  <2> QED BY <1>1, <2>1, <2>2
<1>3. PICK j \in 1 .. Len(Chain), l \in Nat :
        pl = <<Chain[j], Offset(Schema, l)>> /\ l < Fit(Schema)
  <2>1. pl \in Behind(Schema, Chain, length, count)
    BY <1>1, AllPlaces
  <2>2. count \in 0 .. Fit(Schema)
    BY DEF IsFile
  <2>3. ASSUME NEW j \in 1 .. length - 1, NEW l \in 0 .. Fit(Schema) - 1
        PROVE  j \in 1 .. Len(Chain) /\ l \in Nat /\ l < Fit(Schema)
    BY <1>1, <1>2
  <2>4. ASSUME NEW l \in 0 .. count - 1
        PROVE  l \in Nat /\ l < Fit(Schema)
    BY <1>2, <2>2
  <2> QED BY <1>2, <2>1, <2>3, <2>4 DEF Behind
<1>4. pl \in Behind(Schema, Chain, i, k) <=> j < i \/ (j = i /\ l < k)
  BY <1>1, <1>2, <1>3, IsBehind
<1>5. l < k <=> Offset(Schema, l) < Offset(Schema, k)
  BY <1>1, <1>2, <1>3, OffsetSteps
<1>6. (Chain[j] < Chain[i] <=> j < i) /\ (Chain[j] = Chain[i] <=> j = i)
  <2>1. j < i \/ j = i \/ i < j
    BY <1>1, <1>2, <1>3
  <2>2. Chain[j] \in Nat /\ Chain[i] \in Nat
    BY <1>1, <1>2, <1>3
  <2>3. (j < i => Chain[j] < Chain[i]) /\ (i < j => Chain[i] < Chain[j])
    BY <1>1, <1>2, <1>3
  <2> QED BY <1>2, <1>3, <2>1, <2>2, <2>3
<1> QED BY <1>2, <1>3, <1>4, <1>5, <1>6 DEF Precedes

LEMMA NothingOver ==
  ASSUME NEW schema, NEW chain, NEW p, NEW length, NEW count,
         IsFile(p, schema, chain, length, count), NEW new, DOMAIN new = {}
  PROVE  Overwrite(p, new) = p
<1>1. DOMAIN p = {chain[i] : i \in 1 .. length} /\ p = [n \in DOMAIN p |-> p[n]]
  BY DEF IsFile
<1>2. ASSUME NEW i \in 1 .. length
      PROVE  Overwrite(p, new)[chain[i]] = p[chain[i]]
  <2>1. PICK q : q = p[chain[i]]
    OBVIOUS
  <2>2. /\ q = [write_ptr |-> q.write_ptr, next_page_number |-> q.next_page_number, rows |-> q.rows]
        /\ q.rows = [o \in DOMAIN q.rows |-> q.rows[o]]
    <3>1. PICK w, x, rows, D : /\ q = [write_ptr |-> w, next_page_number |-> x, rows |-> rows]
                               /\ rows = [o \in D |-> rows[o]]
      <4>1. PICK c, x : IsPage(q, schema, c, x)
        BY <2>1 DEF IsFile
      <4> QED BY <4>1 DEF IsPage
    <3> QED BY <3>1
  <2>3. RowsOver(q.rows, chain[i], new) = q.rows
    BY <2>2 DEF RowsOver
  <2> QED BY <2>1, <2>2, <2>3, PageOver
<1>3. \A n \in DOMAIN p : Overwrite(p, new)[n] = p[n]
  BY <1>1, <1>2
<1>4. Overwrite(p, new) = [n \in DOMAIN p |-> Overwrite(p, new)[n]]
  BY DEF Overwrite
<1> QED BY <1>1, <1>3, <1>4

\* At any time the cursor is at a row or at the end, what is behind it has been
\* met, and a loop that ended has nothing before it
QueryIInv ==
  \E length, i \in 1 .. Len(Chain), count, k \in 0 .. Fit(Schema) :
    /\ IsFile(before, Schema, Chain, length, count)
    /\ CursorAt(cursor, Schema, Chain, length, count, i, k)
    /\ found \in Seq(Nat \X Nat) /\ LoopInv
    /\ looking \/ cursor.ptr = cursor.write_ptr

LEMMA QueryStarts ==
  ASSUME QueryInit
  PROVE  QueryIInv
<1>1. /\ Schema \in Schemas /\ IsChain(Chain) /\ before \in Files(Schema, Chain)
      /\ pages = before /\ cursor = enter_page(before, Schema, Chain[1])
      /\ found = <<>> /\ looking
  BY ScanAssumption DEF QueryInit
<1>2. PICK length, count : IsFile(before, Schema, Chain, length, count)
  BY <1>1, FileShape
<1>3. /\ length \in 1 .. Len(Chain) /\ count \in 0 .. Fit(Schema) /\ 1 \in 1 .. length
      /\ 1 \in 1 .. Len(Chain) /\ 0 \in 0 .. Fit(Schema)
  BY <1>1, <1>2, Fits DEF IsFile, IsChain
<1>4. CursorAt(cursor, Schema, Chain, length, count, 1, 0)
  BY <1>1, <1>2, <1>3, Entered
<1>5. Behind(Schema, Chain, 1, 0) = {}
  <2>1. 1 .. 1 - 1 = {} /\ 0 .. 0 - 1 = {}
    OBVIOUS
  <2> QED BY <2>1 DEF Behind
<1>6. LoopInv
  <2>1. {pl \in Wanted : Precedes(pl, Place(cursor))} = {}
    BY <1>2, <1>4, <1>5, BehindPrecedes DEF Wanted, LivePlaces
  <2>2. DOMAIN found = {} /\ {found[i] : i \in DOMAIN found} = {}
    BY <1>1
  <2>3. pages = Overwrite(before, [pl \in {} |-> written(query, RowAt(before, pl))])
    BY <1>1, <1>2, NothingOver
  <2> QED BY <2>1, <2>2, <2>3 DEF LoopInv
<1> QED BY <1>1, <1>2, <1>3, <1>4, <1>6 DEF QueryIInv

LEMMA IterationKeeps ==
  ASSUME QueryIInv, NEW kind, Iterate(kind)
  PROVE  QueryIInv'
<1>1. PICK length, i \in 1 .. Len(Chain), count, k \in 0 .. Fit(Schema) :
        /\ IsFile(before, Schema, Chain, length, count)
        /\ CursorAt(cursor, Schema, Chain, length, count, i, k)
        /\ found \in Seq(Nat \X Nat) /\ LoopInv
  BY DEF QueryIInv
<1>2. Schema \in Schemas /\ IsChain(Chain) /\ \A m \in 1 .. Len(Chain) : Chain[m] \in Nat
  BY ScanAssumption DEF IsChain
<1>3. looking /\ more /\ looking' = looking /\ before' = before /\ query' = query
  BY DEF Iterate
<1>4. cursor.ptr # cursor.write_ptr
  <2>1. ~ cursor.write_ptr < cursor.ptr
    BY <1>1, <1>2, AtRow
  <2> QED BY <1>3, <2>1 DEF more
<1>5. PICK place : place = Place(cursor)
  OBVIOUS
<1>6. /\ i \in 1 .. length /\ k \in Nat /\ k \in 0 .. Filled(Schema, i, length, count) - 1
      /\ place = <<Chain[i], Offset(Schema, k)>>
      /\ place \in Places(before, Schema, Chain[1]) /\ place \notin Behind(Schema, Chain, i, k)
  BY <1>1, <1>2, <1>4, <1>5, AtRow
<1>7. PICK met : met = {found[n] : n \in DOMAIN found}
  OBVIOUS
<1>8. /\ \A m, n \in DOMAIN found : m < n => Precedes(found[m], found[n])
      /\ met = {pl \in Wanted : Precedes(pl, place)}
      /\ pages = Overwrite(before, [pl \in met |-> written(query, RowAt(before, pl))])
  BY <1>1, <1>5, <1>7 DEF LoopInv
<1>9. \A pl \in Places(before, Schema, Chain[1]) :
        Precedes(pl, place) <=> pl \in Behind(Schema, Chain, i, k)
  BY <1>1, <1>5, BehindPrecedes
<1>10. PICK row : row = RowUnder(pages, cursor)
  OBVIOUS
<1>11. row = RowAt(before, place)
  <2>1. place \notin met
    BY <1>6, <1>8, <1>9
  <2>2. PICK new : new = [pl \in met |-> written(query, RowAt(before, pl))]
    OBVIOUS
  <2>3. place \notin DOMAIN new /\ pages = Overwrite(before, new)
    BY <1>8, <2>1, <2>2
  <2>4. RowAt(Overwrite(before, new), place) = RowAt(before, place)
    <3>1. place \notin DOMAIN new /\ IsFile(before, Schema, Chain, length, count)
      BY <1>1, <2>3
    <3> QED BY <1>2, <1>6, <3>1, RowKept
  <2> QED BY <1>5, <1>10, <2>3, <2>4 DEF RowUnder
<1>12. Matching(query, row) <=> place \in Wanted
  BY <1>6, <1>11 DEF Wanted, LivePlaces, Matching
<1>13. PICK j, l : /\ CursorAt(cursor', Schema, Chain, length, count, j, l)
                   /\ Behind(Schema, Chain, j, l) = Behind(Schema, Chain, i, k) \cup {place}
  <2>1. IsFile(pages, Schema, Chain, length, count)
    BY <1>1, <1>8, FileOver
  <2>2. cursor' = advance(pages, Schema, cursor)
    BY DEF Iterate
  <2> QED BY <1>1, <1>2, <1>4, <1>5, <2>1, <2>2, Advanced
<1>14. j \in 1 .. Len(Chain) /\ l \in 0 .. Fit(Schema)
  <2>1. length \in 1 .. Len(Chain) /\ count \in 0 .. Fit(Schema) /\ Len(Chain) \in Nat
    BY <1>1, <1>2 DEF IsFile, IsChain
  <2>2. Filled(Schema, j, length, count) \in 0 .. Fit(Schema) /\ Fit(Schema) \in Nat
    BY <1>2, <2>1, FilledNat, Fits
  <2> QED BY <1>13, <2>1, <2>2 DEF CursorAt
<1>15. \A pl \in Wanted : Precedes(pl, Place(cursor')) <=> Precedes(pl, place) \/ pl = place
  <2>1. \A pl \in Places(before, Schema, Chain[1]) :
          Precedes(pl, Place(cursor')) <=> pl \in Behind(Schema, Chain, j, l)
    BY <1>1, <1>13, BehindPrecedes
  <2> QED BY <1>9, <1>13, <2>1 DEF Wanted, LivePlaces
<1>16. Wanted' = Wanted
  BY <1>3 DEF Wanted
<1>17. PICK more_met : more_met = IF place \in Wanted THEN met \cup {place} ELSE met
  OBVIOUS
<1>18. more_met = {pl \in Wanted : Precedes(pl, Place(cursor'))}
  BY <1>8, <1>15, <1>17
<1>19. /\ found' \in Seq(Nat \X Nat) /\ {found'[n] : n \in DOMAIN found'} = more_met
       /\ \A m, n \in DOMAIN found' : m < n => Precedes(found'[m], found'[n])
  <2>1. CASE place \in Wanted
    <3>1. found' = Append(found, place) /\ place \in Nat \X Nat
      <4>1. Chain[i] \in Nat /\ Offset(Schema, k) \in Nat
        BY <1>2, <1>6, OffsetSteps
      <4> QED BY <1>5, <1>6, <1>10, <1>12, <2>1, <4>1 DEF Iterate
    <3>2. PICK s \in Nat : s = Len(found)
      BY <1>1
    <3>3. /\ found' \in Seq(Nat \X Nat) /\ DOMAIN found = 1 .. s /\ DOMAIN found' = 1 .. s + 1
          /\ found'[s + 1] = place /\ \A n \in 1 .. s : found'[n] = found[n]
      BY <1>1, <3>1, <3>2
    <3>4. 1 .. s + 1 = (1 .. s) \cup {s + 1}
      OBVIOUS
    <3>5. {found'[n] : n \in DOMAIN found'} = met \cup {place}
      <4>1. {found'[n] : n \in 1 .. s + 1} = {found'[n] : n \in 1 .. s} \cup {found'[s + 1]}
        BY <3>4
      <4>2. {found'[n] : n \in 1 .. s} = {found[n] : n \in 1 .. s}
        BY <3>3
      <4> QED BY <1>7, <3>3, <4>1, <4>2
    <3>6. ASSUME NEW m \in DOMAIN found', NEW n \in DOMAIN found', m < n
          PROVE  Precedes(found'[m], found'[n])
      <4>1. CASE n = s + 1
        <5>1. m \in DOMAIN found
          BY <3>3, <3>6, <4>1
        <5> QED BY <1>7, <1>8, <3>3, <4>1, <5>1
      <4>2. CASE n # s + 1
        <5>1. m \in 1 .. s + 1 /\ n \in 1 .. s + 1 /\ s \in Nat
          BY <3>3, <3>6
        <5>2. m \in 1 .. s /\ n \in 1 .. s
          BY <3>6, <4>2, <5>1
        <5> QED BY <1>8, <3>3, <3>6, <5>2
      <4> QED BY <4>1, <4>2
    <3> QED BY <1>17, <2>1, <3>3, <3>5, <3>6
  <2>2. CASE place \notin Wanted
    <3>1. found' = found
      BY <1>10, <1>12, <2>2 DEF Iterate
    <3> QED BY <1>1, <1>7, <1>8, <1>17, <2>2, <3>1
  <2> QED BY <2>1, <2>2
<1>20. pages' = Overwrite(before, [pl \in more_met |-> written(query, RowAt(before, pl))])
  <2>1. CASE place \in Wanted
    <3>1. pages' = RowSet(pages, Chain[i], Offset(Schema, k), written(query, row))
      <4>1. cursor.page_number = Chain[i] /\ cursor.ptr = Offset(Schema, k)
        BY <1>5, <1>6 DEF Place
      <4> QED BY <1>10, <1>12, <2>1, <4>1 DEF Iterate, RowSet
    <3>2. PICK new, wider : /\ new = [pl \in met |-> written(query, RowAt(before, pl))]
                            /\ wider = [pl \in more_met |-> written(query, RowAt(before, pl))]
      OBVIOUS
    <3>3. Widened(new, wider, <<Chain[i], Offset(Schema, k)>>, written(query, row))
      BY <1>6, <1>11, <1>17, <2>1, <3>2 DEF Widened
    <3>4. RowSet(Overwrite(before, new), Chain[i], Offset(Schema, k), written(query, row)) =
            Overwrite(before, wider)
      <4>1. IsFile(before, Schema, Chain, length, count) /\ i \in 1 .. length
        BY <1>1, <1>6
      <4> QED BY <1>2, <3>3, <4>1, OneMoreOver
    <3> QED BY <1>8, <3>1, <3>2, <3>4
  <2>2. CASE place \notin Wanted
    <3>1. pages' = pages
      BY <1>10, <1>12, <2>2 DEF Iterate
    <3> QED BY <1>8, <1>17, <2>2, <3>1
  <2> QED BY <2>1, <2>2
<1>21. LoopInv'
  BY <1>3, <1>16, <1>18, <1>19, <1>20 DEF LoopInv
<1> QED BY <1>1, <1>3, <1>13, <1>14, <1>19, <1>21 DEF QueryIInv

LEMMA QueryIInvKept ==
  ASSUME QueryIInv, [QueryNext]_query_vars
  PROVE  QueryIInv'
<1>1. CASE select_execute \/ update_execute \/ delete_execute
  BY <1>1, IterationKeeps DEF select_execute, update_execute, delete_execute
<1>2. CASE finish
  <2>1. PICK length, i \in 1 .. Len(Chain), count, k \in 0 .. Fit(Schema) :
          /\ IsFile(before, Schema, Chain, length, count)
          /\ CursorAt(cursor, Schema, Chain, length, count, i, k)
          /\ found \in Seq(Nat \X Nat) /\ LoopInv
    BY DEF QueryIInv
  <2>2. cursor.ptr = cursor.write_ptr
    <3>1. PICK c \in 0 .. Fit(Schema) :
            /\ k \in 0 .. c /\ cursor.write_ptr = Offset(Schema, c) /\ cursor.ptr = Offset(Schema, k)
      BY <2>1, ScanAssumption, FilledNat DEF IsFile, CursorAt
    <3>2. k \in Nat /\ c \in Nat /\ Schema \in Schemas
      BY <3>1, ScanAssumption, Fits
    <3>3. (k < c <=> cursor.ptr < cursor.write_ptr) /\ (k = c <=> cursor.ptr = cursor.write_ptr)
      BY <3>1, <3>2, OffsetSteps
    <3> QED BY <1>2, <3>1, <3>2, <3>3 DEF finish, more
  <2>3. LoopInv' /\ UNCHANGED <<before, cursor, found>>
    BY <1>2, <2>1 DEF finish, LoopInv, Wanted
  <2> QED BY <2>1, <2>2, <2>3 DEF QueryIInv
<1>3. CASE UNCHANGED query_vars
  BY <1>3 DEF query_vars, QueryIInv, LoopInv, Wanted
<1> QED BY <1>1, <1>2, <1>3 DEF QueryNext

\* In every state of a query its file has the shape the layout prescribes, its cursor
\* is at a row of one of its pages, or at the end of the last, and the rows met are
\* those the cursor has behind it: what the three theorems below rest on
THEOREM QueryInvariant == QuerySpec => []QueryIInv
<1>1. QueryInit => QueryIInv
  BY QueryStarts
<1>2. QueryIInv /\ [QueryNext]_query_vars => QueryIInv'
  BY QueryIInvKept
<1> QED BY <1>1, <1>2, PTL DEF QuerySpec

\* What the cursor knows of its page since it came there is so until it leaves,
\* for every size of row and of page: an update and a delete write rows, never
\* write_ptr or a link.  So `ptr != write_ptr` is as good as `<`.
THEOREM CursorKnows == QuerySpec => []CursorInv
<1>1. ASSUME QueryIInv
      PROVE  CursorInv
  <2>1. PICK length, i \in 1 .. Len(Chain), count, k \in 0 .. Fit(Schema) :
          /\ IsFile(before, Schema, Chain, length, count)
          /\ CursorAt(cursor, Schema, Chain, length, count, i, k)
          /\ LoopInv
    BY <1>1 DEF QueryIInv
  <2>2. IsFile(pages, Schema, Chain, length, count)
    BY <2>1, FileOver DEF LoopInv
  <2>3. PICK c : /\ c = Filled(Schema, i, length, count) /\ i \in 1 .. length /\ k \in 0 .. c
                 /\ cursor.page_number = Chain[i] /\ cursor.write_ptr = Offset(Schema, c)
                 /\ cursor.next_page_number = Link(Chain, i, length)
                 /\ cursor.ptr = Offset(Schema, k)
    BY <2>1 DEF CursorAt
  <2>4. /\ c \in 0 .. Fit(Schema) /\ Fit(Schema) \in Nat
        /\ RowOffsets(pages[Chain[i]], Schema) = {Offset(Schema, l) : l \in 0 .. c - 1}
        /\ pages[Chain[i]].write_ptr = Offset(Schema, c)
        /\ pages[Chain[i]].next_page_number = Link(Chain, i, length)
    <3>1. Schema \in Schemas /\ i \in 1 .. length
      BY <2>3, ScanAssumption
    <3>2. PICK d \in 0 .. Fit(Schema) :
            /\ d = Filled(Schema, i, length, count)
            /\ RowsFound(pages[Chain[i]], Schema, d, Link(Chain, i, length))
      BY <2>2, <3>1, PageOfFile
    <3> QED BY <2>3, <3>1, <3>2, Fits DEF RowsFound
  <2>5. k = c \/ k \in 0 .. c - 1
    BY <2>3, <2>4
  <2> QED BY <2>3, <2>4, <2>5 DEF CursorInv
<1> QED BY <1>1, QueryInvariant, PTL

\* The loop of a query has met the rows that matched before it began and lie before
\* the cursor, each once and in order, and has written those only: for any number
\* of pages and rows, no write of the loop makes it meet or miss another row.
THEOREM LoopMeets == QuerySpec => []LoopInv
<1>1. QueryIInv => LoopInv
  BY DEF QueryIInv
<1> QED BY <1>1, QueryInvariant, PTL

\* A query that ends has met and written every row that matches, and no other:
\* what PageStore takes for one step is what the loop comes to.
THEOREM QueryDone == QuerySpec => []ResultInv
<1>1. ASSUME QueryIInv
      PROVE  ResultInv
  <2>1. PICK length, i \in 1 .. Len(Chain), count, k \in 0 .. Fit(Schema) :
          /\ IsFile(before, Schema, Chain, length, count)
          /\ CursorAt(cursor, Schema, Chain, length, count, i, k)
          /\ LoopInv /\ (looking \/ cursor.ptr = cursor.write_ptr)
    BY <1>1 DEF QueryIInv
  <2>2. ASSUME ~ looking
        PROVE  {pl \in Wanted : Precedes(pl, Place(cursor))} = Wanted
    <3>1. i = length /\ k = count
      BY <2>1, <2>2, AtRow, ScanAssumption
    <3>2. Places(before, Schema, Chain[1]) = Behind(Schema, Chain, i, k)
      BY <2>1, <3>1, AllPlaces, ScanAssumption
    <3>3. \A pl \in Places(before, Schema, Chain[1]) : Precedes(pl, Place(cursor))
      BY <2>1, <3>2, BehindPrecedes
    <3> QED BY <3>3 DEF Wanted, LivePlaces
  <2> QED BY <2>1, <2>2 DEF LoopInv, ResultInv
<1> QED BY <1>1, QueryInvariant, PTL

-----------------------------------------------------------------------------
(* The join *)

\* What the join has put out and counted when its outer loop has left the places
\* of `walked`
JoinedSoFar(walked) ==
  /\ output \subseteq Pairs /\ \A p \in output : p[1] \in walked
  /\ \A p, q \in output : p[1] = q[1] => p = q
  /\ IsFiniteSet(LiveLeft \cap walked) /\ joined = Cardinality(LiveLeft \cap walked)

OuterInv ==
  \E length, i \in 1 .. Len(LeftChain), count, k \in 0 .. Fit(Left) :
    /\ IsFile(left, Left, LeftChain, length, count)
    /\ CursorAt(outer, Left, LeftChain, length, count, i, k)
    /\ JoinedSoFar(Behind(Left, LeftChain, i, k))

InnerInv ==
  \E length, i \in 1 .. Len(RightChain), count, k \in 0 .. Fit(Right) :
    /\ IsFile(right, Right, RightChain, length, count)
    /\ CursorAt(inner, Right, RightChain, length, count, i, k)

StageInv ==
  /\ at \in {"lookup", "outer", "inner", "done"}
  /\ at = "lookup" => joined = 0
  /\ at \in {"outer", "inner"} => Present
  /\ at = "inner" => outer.ptr # outer.write_ptr /\ LeftRow.is_available
  /\ at = "done" => IF Present THEN outer.ptr = outer.write_ptr ELSE joined = 0

JoinIInv == OuterInv /\ InnerInv /\ StageInv

\* Every file has a first page
LEMMA FirstPage ==
  ASSUME NEW schema \in Schemas, NEW chain, IsChain(chain), NEW p \in Files(schema, chain)
  PROVE  \E length \in 1 .. Len(chain), count \in 0 .. Fit(schema) :
           /\ 1 \in 1 .. Len(chain) /\ 0 \in 0 .. Fit(schema)
           /\ IsFile(p, schema, chain, length, count)
           /\ CursorAt(enter_page(p, schema, chain[1]), schema, chain, length, count, 1, 0)
<1>1. PICK length, count : IsFile(p, schema, chain, length, count)
  BY FileShape
<1>2. /\ length \in 1 .. Len(chain) /\ count \in 0 .. Fit(schema) /\ 1 \in 1 .. length
      /\ 1 \in 1 .. Len(chain) /\ 0 \in 0 .. Fit(schema)
  BY <1>1, Fits DEF IsFile, IsChain
<1>3. CursorAt(enter_page(p, schema, chain[1]), schema, chain, length, count, 1, 0)
  BY <1>1, <1>2, Entered
<1> QED BY <1>1, <1>2, <1>3

LEMMA JoinStarts ==
  ASSUME JoinInit
  PROVE  JoinIInv
<1>1. Left \in Schemas /\ Right \in Schemas /\ IsChain(LeftChain) /\ IsChain(RightChain)
  BY JoinAssumption
<1>2. Behind(Left, LeftChain, 1, 0) = {}
  <2>1. 1 .. 1 - 1 = {} /\ 0 .. 0 - 1 = {}
    OBVIOUS
  <2> QED BY <2>1 DEF Behind
<1>3. JoinedSoFar({})
  <2>1. LiveLeft \cap {} = {} /\ output = {} /\ joined = 0
    BY DEF JoinInit
  <2> QED BY <2>1, FS_EmptySet DEF JoinedSoFar
<1>a. left \in Files(Left, LeftChain) /\ right \in Files(Right, RightChain)
  <2>1. LeftChain = RightChain => Left = Right
    <3>1. 1 \in DOMAIN LeftChain
      BY <1>1 DEF IsChain
    <3> QED BY <3>1, JoinAssumption
  <2> QED BY <2>1 DEF JoinInit
<1>4. OuterInv
  <2>1. PICK length \in 1 .. Len(LeftChain), count \in 0 .. Fit(Left) :
          /\ 1 \in 1 .. Len(LeftChain) /\ 0 \in 0 .. Fit(Left)
          /\ IsFile(left, Left, LeftChain, length, count)
          /\ CursorAt(outer, Left, LeftChain, length, count, 1, 0)
    BY <1>1, <1>a, FirstPage DEF JoinInit
  <2> QED BY <1>2, <1>3, <2>1 DEF OuterInv
<1>5. InnerInv
  <2>1. PICK length \in 1 .. Len(RightChain), count \in 0 .. Fit(Right) :
          /\ 1 \in 1 .. Len(RightChain) /\ 0 \in 0 .. Fit(Right)
          /\ IsFile(right, Right, RightChain, length, count)
          /\ CursorAt(inner, Right, RightChain, length, count, 1, 0)
    BY <1>1, <1>a, FirstPage DEF JoinInit
  <2> QED BY <2>1 DEF InnerInv
<1>6. StageInv
  BY DEF JoinInit, StageInv
<1> QED BY <1>4, <1>5, <1>6 DEF JoinIInv

\* The row of the left relation under the outer cursor is left behind
LEMMA LeftWalked ==
  ASSUME OuterInv, outer.ptr # outer.write_ptr, advance_left,
         UNCHANGED <<left, right, on>>,
         output' \in {output, output \cup {<<Place(outer), Place(inner)>>}},
         output' # output => <<Place(outer), Place(inner)>> \in Pairs,
         joined' = IF LeftRow.is_available THEN joined + 1 ELSE joined
  PROVE  OuterInv'
<1>1. PICK length, i \in 1 .. Len(LeftChain), count, k \in 0 .. Fit(Left) :
        /\ IsFile(left, Left, LeftChain, length, count)
        /\ CursorAt(outer, Left, LeftChain, length, count, i, k)
        /\ JoinedSoFar(Behind(Left, LeftChain, i, k))
  BY DEF OuterInv
<1>2. Left \in Schemas /\ IsChain(LeftChain)
  BY JoinAssumption
<1>3. PICK place, walked : place = Place(outer) /\ walked = Behind(Left, LeftChain, i, k)
  OBVIOUS
<1>4. place \in Places(left, Left, LeftChain[1]) /\ place \notin walked
  BY <1>1, <1>2, <1>3, AtRow
<1>5. PICK j, l : /\ CursorAt(outer', Left, LeftChain, length, count, j, l)
                  /\ Behind(Left, LeftChain, j, l) = walked \cup {place}
  BY <1>1, <1>2, <1>3, Advanced DEF advance_left
<1>6. j \in 1 .. Len(LeftChain) /\ l \in 0 .. Fit(Left)
  <2>1. length \in 1 .. Len(LeftChain) /\ count \in 0 .. Fit(Left) /\ Len(LeftChain) \in Nat
    BY <1>1, <1>2 DEF IsFile, IsChain
  <2>2. Filled(Left, j, length, count) \in 0 .. Fit(Left) /\ Fit(Left) \in Nat
    BY <1>2, <2>1, FilledNat, Fits
  <2> QED BY <1>5, <2>1, <2>2 DEF CursorAt
<1>7. place \in LiveLeft <=> LeftRow.is_available
  BY <1>3, <1>4 DEF LiveLeft, LivePlaces, LeftRow, RowUnder
<1>8. LiveLeft' = LiveLeft /\ Pairs' = Pairs
  BY DEF Pairs, LiveLeft, LiveRight, Present
<1>9. PICK live : live = LiveLeft \cap walked
  OBVIOUS
<1>10. IsFiniteSet(live) /\ joined = Cardinality(live) /\ place \notin live
  BY <1>1, <1>3, <1>4, <1>9 DEF JoinedSoFar
<1>11. LiveLeft \cap (walked \cup {place}) = IF LeftRow.is_available THEN live \cup {place} ELSE live
  BY <1>7, <1>9
<1>12. /\ IsFiniteSet(live \cup {place}) /\ Cardinality(live \cup {place}) = Cardinality(live) + 1
  BY <1>10, FS_AddElement
<1>13. /\ IsFiniteSet(LiveLeft' \cap (walked \cup {place}))
       /\ joined' = Cardinality(LiveLeft' \cap (walked \cup {place}))
  BY <1>8, <1>10, <1>11, <1>12
<1>14. /\ output \subseteq Pairs /\ \A p \in output : p[1] \in walked
       /\ \A p, q \in output : p[1] = q[1] => p = q
  BY <1>1, <1>3 DEF JoinedSoFar
<1>15. \A p \in output' : p \in output \/ p = <<place, Place(inner)>>
  BY <1>3
<1>16. /\ output' \subseteq Pairs' /\ \A p \in output' : p[1] \in walked \cup {place}
       /\ \A p, q \in output' : p[1] = q[1] => p = q
  BY <1>3, <1>4, <1>8, <1>14, <1>15
<1>17. JoinedSoFar(walked \cup {place})'
  BY <1>13, <1>16 DEF JoinedSoFar
<1> QED BY <1>1, <1>5, <1>6, <1>17 DEF OuterInv

\* The row of the right relation under the inner cursor
LEMMA RightRowThere ==
  ASSUME InnerInv, inner.ptr # inner.write_ptr
  PROVE  RightRow.is_available => Place(inner) \in LiveRight
<1>1. PICK length, i \in 1 .. Len(RightChain), count, k \in 0 .. Fit(Right) :
        /\ IsFile(right, Right, RightChain, length, count)
        /\ CursorAt(inner, Right, RightChain, length, count, i, k)
  BY DEF InnerInv
<1>2. Place(inner) \in Places(right, Right, RightChain[1])
  BY <1>1, JoinAssumption, AtRow
<1> QED BY <1>2 DEF LiveRight, LivePlaces, RightRow, RowUnder

LEMMA RightWalked ==
  ASSUME InnerInv, inner.ptr # inner.write_ptr, inner' = advance(right, Right, inner),
         right' = right
  PROVE  InnerInv'
<1>1. PICK length, i \in 1 .. Len(RightChain), count, k \in 0 .. Fit(Right) :
        /\ IsFile(right, Right, RightChain, length, count)
        /\ CursorAt(inner, Right, RightChain, length, count, i, k)
  BY DEF InnerInv
<1>2. Right \in Schemas /\ IsChain(RightChain)
  BY JoinAssumption
<1>3. PICK j, l : CursorAt(inner', Right, RightChain, length, count, j, l)
  BY <1>1, <1>2, Advanced
<1>4. j \in 1 .. Len(RightChain) /\ l \in 0 .. Fit(Right)
  <2>1. length \in 1 .. Len(RightChain) /\ count \in 0 .. Fit(Right) /\ Len(RightChain) \in Nat
    BY <1>1, <1>2 DEF IsFile, IsChain
  <2>2. Filled(Right, j, length, count) \in 0 .. Fit(Right) /\ Fit(Right) \in Nat
    BY <1>2, <2>1, FilledNat, Fits
  <2> QED BY <1>3, <2>1, <2>2 DEF CursorAt
<1> QED BY <1>1, <1>3, <1>4 DEF InnerInv

LEMMA RightEntered ==
  ASSUME InnerInv, inner' = enter_page(right, Right, RightChain[1]), right' = right
  PROVE  InnerInv'
<1>1. PICK length \in 1 .. Len(RightChain), count \in 0 .. Fit(Right) :
        IsFile(right, Right, RightChain, length, count)
  BY DEF InnerInv
<1>2. /\ Right \in Schemas /\ 1 \in 1 .. length
      /\ 1 \in 1 .. Len(RightChain) /\ 0 \in 0 .. Fit(Right)
  BY <1>1, JoinAssumption, Fits DEF IsChain
<1>3. CursorAt(inner', Right, RightChain, length, count, 1, 0)
  BY <1>1, <1>2, Entered
<1> QED BY <1>1, <1>2, <1>3 DEF InnerInv

\* What the join keeps while the outer cursor stays and nothing is put out
LEMMA OuterKept ==
  ASSUME OuterInv, UNCHANGED <<left, right, on, outer, output, joined>>
  PROVE  OuterInv'
<1>1. \A walked : JoinedSoFar(walked) => JoinedSoFar(walked)'
  BY DEF JoinedSoFar, Pairs, LiveLeft, LiveRight, Present
<1> QED BY <1>1 DEF OuterInv

LEMMA InnerKept ==
  ASSUME InnerInv, UNCHANGED <<right, inner>>
  PROVE  InnerInv'
BY DEF InnerInv

LEMMA JoinIInvKept ==
  ASSUME JoinIInv, [JoinNext]_join_vars
  PROVE  JoinIInv'
<1>a. OuterInv /\ InnerInv /\ StageInv
  BY DEF JoinIInv
<1>b. ASSUME UNCHANGED on
      PROVE  Present' = Present
  BY <1>b DEF Present
<1>1. CASE query_join_execute
  <2>1. OuterInv' /\ InnerInv'
    BY <1>a, <1>1, OuterKept, InnerKept DEF query_join_execute
  <2>2. StageInv'
    BY <1>a, <1>b, <1>1 DEF query_join_execute, StageInv
  <2> QED BY <2>1, <2>2 DEF JoinIInv
<1>2. CASE query_join
  <2>1. /\ at = "outer" /\ outer.ptr # outer.write_ptr /\ Present
        /\ UNCHANGED <<left, right, on, output, joined>>
    BY <1>a, <1>2 DEF query_join, StageInv
  <2>2. CASE LeftRow.is_available
    <3>1. at' = "inner" /\ inner' = enter_page(right, Right, RightChain[1]) /\ UNCHANGED outer
      BY <1>2, <2>2 DEF query_join
    <3>2. OuterInv' /\ InnerInv'
      BY <1>a, <2>1, <3>1, OuterKept, RightEntered
    <3>3. StageInv'
      BY <1>b, <2>1, <2>2, <3>1 DEF StageInv, LeftRow
    <3> QED BY <3>2, <3>3 DEF JoinIInv
  <2>3. CASE ~ LeftRow.is_available
    <3>1. advance_left /\ at' = at /\ inner' = inner
      BY <1>2, <2>3 DEF query_join
    <3>2. OuterInv' /\ InnerInv'
      BY <1>a, <2>1, <2>3, <3>1, LeftWalked, InnerKept
    <3>3. StageInv'
      BY <1>b, <2>1, <3>1 DEF StageInv
    <3> QED BY <3>2, <3>3 DEF JoinIInv
  <2> QED BY <2>2, <2>3
<1>3. CASE query_join_end
  <2>1. OuterInv' /\ InnerInv'
    BY <1>a, <1>3, OuterKept, InnerKept DEF query_join_end
  <2>2. StageInv'
    BY <1>a, <1>b, <1>3 DEF query_join_end, StageInv
  <2> QED BY <2>1, <2>2 DEF JoinIInv
<1>4. ASSUME at = "inner", return, UNCHANGED <<left, right, on, inner>>,
             output' \in {output, output \cup {<<Place(outer), Place(inner)>>}},
             output' # output => <<Place(outer), Place(inner)>> \in Pairs
      PROVE  JoinIInv'
  <2>1. outer.ptr # outer.write_ptr /\ LeftRow.is_available /\ Present
    BY <1>a, <1>4 DEF StageInv
  <2>2. OuterInv' /\ InnerInv'
    BY <1>a, <1>4, <2>1, LeftWalked, InnerKept DEF return
  <2>3. StageInv'
    BY <1>b, <1>4, <2>1 DEF StageInv, return
  <2> QED BY <2>2, <2>3 DEF JoinIInv
<1>5. CASE query_join_attempt
  <2>1. at = "inner" /\ inner.ptr # inner.write_ptr /\ UNCHANGED <<left, right, on>>
    BY <1>5 DEF query_join_attempt
  <2>2. CASE RightRow.is_available
    <3>1. compare_and_output /\ return /\ inner' = inner
      BY <1>5, <2>2 DEF query_join_attempt
    <3>2. output' \in {output, output \cup {<<Place(outer), Place(inner)>>}}
      BY <3>1 DEF compare_and_output
    <3>3. ASSUME output' # output
          PROVE  <<Place(outer), Place(inner)>> \in Pairs
      <4>1. Equal(LeftRow.data[on.left_column], RightRow.data[on.right_column])
        BY <3>1, <3>3 DEF compare_and_output
      <4>2. Place(inner) \in LiveRight
        BY <1>a, <2>1, <2>2, RightRowThere
      <4>3. Place(outer) \in LiveLeft /\ Present
        <5>1. outer.ptr # outer.write_ptr /\ LeftRow.is_available /\ Present
          BY <1>a, <2>1 DEF StageInv
        <5>2. Place(outer) \in Places(left, Left, LeftChain[1])
          BY <1>a, <5>1, JoinAssumption, AtRow DEF OuterInv
        <5> QED BY <5>1, <5>2 DEF LiveLeft, LivePlaces, LeftRow, RowUnder
      <4> QED BY <4>1, <4>2, <4>3 DEF Pairs, Value, LeftRow, RightRow, RowUnder
    <3> QED BY <1>4, <2>1, <3>1, <3>2, <3>3
  <2>3. CASE ~ RightRow.is_available
    <3>1. inner' = advance(right, Right, inner) /\ UNCHANGED <<outer, at, output, joined>>
      BY <1>5, <2>3 DEF query_join_attempt
    <3>2. OuterInv' /\ InnerInv'
      BY <1>a, <2>1, <3>1, OuterKept, RightWalked
    <3>3. StageInv'
      BY <1>a, <1>b, <2>1, <3>1 DEF StageInv, LeftRow
    <3> QED BY <3>2, <3>3 DEF JoinIInv
  <2> QED BY <2>2, <2>3
<1>6. CASE query_join_attempt_end
  BY <1>4, <1>6 DEF query_join_attempt_end
<1>7. CASE UNCHANGED join_vars
  <2>1. OuterInv' /\ InnerInv'
    BY <1>a, <1>7, OuterKept, InnerKept DEF join_vars
  <2>2. StageInv'
    BY <1>a, <1>b, <1>7 DEF join_vars, StageInv, LeftRow
  <2> QED BY <2>1, <2>2 DEF JoinIInv
<1> QED BY <1>1, <1>2, <1>3, <1>5, <1>6, <1>7 DEF JoinNext

\* In every state of a join the two cursors are on files of the prescribed shape, and
\* what is put out and counted belongs to the live rows behind the outer cursor
THEOREM JoinInvariant == JoinSpec => []JoinIInv
<1>1. JoinInit => JoinIInv
  BY JoinStarts
<1>2. JoinIInv /\ [JoinNext]_join_vars => JoinIInv'
  BY JoinIInvKept
<1> QED BY <1>1, <1>2, PTL DEF JoinSpec

\* For any number of pages and rows of the two relations, and any comparison: a
\* join puts out pairs of rows that compare equal, neither of them deleted, a row of
\* the left in at most one, and reports the number of rows on the left, each page
\* and row of which the outer loop has met exactly once.
THEOREM JoinPutsOut == JoinSpec => []JoinSound
<1>1. ASSUME JoinIInv
      PROVE  JoinSound
  <2>1. OuterInv /\ StageInv
    BY <1>1 DEF JoinIInv
  <2>2. PICK length, i \in 1 .. Len(LeftChain), count, k \in 0 .. Fit(Left) :
          /\ IsFile(left, Left, LeftChain, length, count)
          /\ CursorAt(outer, Left, LeftChain, length, count, i, k)
          /\ JoinedSoFar(Behind(Left, LeftChain, i, k))
    BY <2>1 DEF OuterInv
  <2>3. ASSUME at = "done"
        PROVE  joined = IF Present THEN Cardinality(LiveLeft) ELSE 0
    <3>1. CASE Present
      <4>1. i = length /\ k = count
        BY <2>1, <2>2, <2>3, <3>1, AtRow, JoinAssumption DEF StageInv
      <4>2. Places(left, Left, LeftChain[1]) = Behind(Left, LeftChain, i, k)
        BY <2>2, <4>1, AllPlaces, JoinAssumption
      <4>3. LiveLeft \cap Behind(Left, LeftChain, i, k) = LiveLeft
        BY <4>2 DEF LiveLeft, LivePlaces
      <4> QED BY <2>2, <3>1, <4>3 DEF JoinedSoFar
    <3>2. CASE ~ Present
      BY <2>1, <2>3, <3>2 DEF StageInv
    <3> QED BY <3>1, <3>2
  <2> QED BY <2>2, <2>3 DEF JoinedSoFar, JoinSound
<1> QED BY <1>1, JoinInvariant, PTL

-----------------------------------------------------------------------------
(* The comparisons of type_ops.c, for all integers *)

\* The filter on an integer, for every stored and every wanted integer
THEOREM FilterComparesLowByte ==
  \A stored, value \in Int : CompareLowByte(stored, value)
  BY SMTT(30) DEF CompareLowByte, integer_compare, FirstChar

\* The join on an integer, for every two stored integers
THEOREM JoinComparesAsFilter ==
  \A stored, other \in Int : JoinLikeFilter(stored, other)
<1> SUFFICES ASSUME NEW stored \in Int, NEW other \in Int
             PROVE  JoinLikeFilter(stored, other)
  OBVIOUS
<1>1. FirstChar(stored) \in -128 .. 255
  BY SMT DEF FirstChar
<1> QED BY <1>1 DEF JoinLikeFilter, integer_query_join_compare, integer_compare

\* The join on a DOUBLE, for every two stored values
THEOREM JoinOfWholeNumbers ==
  \A stored, other \in Nat : WholeNumbersJoined(stored, other)
  BY SMT DEF WholeNumbersJoined, double_query_join_compare, FirstChar
-----------------------------------------------------------------------------
(* Queries on integers *)

\* A query and the pages it began with are of the types that the columns have
QueryTyped == before \in Files(Schema, Chain) /\ query \in Queries

LEMMA TypedAlways == QuerySpec => []QueryTyped
<1>1. QueryInit => QueryTyped
  BY DEF QueryInit, QueryTyped
<1>2. QueryTyped /\ [QueryNext]_query_vars => QueryTyped'
  BY DEF QueryTyped, QueryNext, select_execute, update_execute, delete_execute, Iterate, finish,
         query_vars
<1> QED BY <1>1, <1>2, PTL DEF QuerySpec

\* The rows that a scan of a file meets have data of its schema
LEMMA DataOfRows ==
  ASSUME NEW schema \in Schemas, NEW chain, IsChain(chain), NEW p \in Files(schema, chain),
         NEW pl \in Places(p, schema, chain[1])
  PROVE  RowAt(p, pl).data \in Data(schema)
<1>1. PICK length, count : IsFile(p, schema, chain, length, count)
  BY FileShape
<1>2. PICK n \in Scanned(p, schema, chain[1]) : pl \in {n} \X RowOffsets(p[n], schema)
  BY DEF Places
<1>3. n \in DOMAIN p /\ pl = <<n, pl[2]>> /\ pl[2] \in RowOffsets(p[n], schema)
  BY <1>2 DEF Scanned
<1>4. PICK i \in 1 .. length : n = chain[i]
  BY <1>1, <1>3 DEF IsFile
<1>5. PICK c \in 0 .. Fit(schema) : /\ c = Filled(schema, i, length, count)
                                    /\ RowsFound(p[chain[i]], schema, c, Link(chain, i, length))
  BY <1>1, PageOfFile
<1>6. pl[2] \in DOMAIN p[n].rows
  BY <1>3, <1>4, <1>5 DEF RowsFound
<1>7. PICK used, content, number :
        /\ content \in [PlacesOf(schema, used, number) -> AnyRow(schema)]
        /\ p = PagesOf(schema, used, content)
  BY DEF Files
<1>8. p[n].rows = [o \in {o \in 0 .. PageSize : <<n, o>> \in DOMAIN content} |-> content[<<n, o>>]]
  BY <1>3, <1>7 DEF PagesOf
<1>9. p[n].rows[pl[2]] \in AnyRow(schema)
  BY <1>6, <1>7, <1>8
<1>10. RowAt(p, pl) = p[n].rows[pl[2]]
  BY <1>3 DEF RowAt
<1> QED BY <1>9, <1>10 DEF AnyRow

\* The columns of the relation are INTEGERs
IntegerColumns ==
  \A c \in Schema.columns : /\ Domain[c] \subseteq Int
                            /\ \A s, v \in Int : Compare(c, s, v) = integer_compare(s, v)

\* What integer_compare makes of the queries on a relation of INTEGERs, for any
\* number of pages and rows and any integers: of the rows not deleted, a query has
\* met those that agree with its value modulo 256, or none if no char has it.
THEOREM MetByLowByte ==
  ASSUME IntegerColumns
  PROVE  QuerySpec => []ByLowByte
<1>1. ASSUME QueryTyped, ResultInv
      PROVE  ByLowByte
  <2>1. Schema \in Schemas /\ IsChain(Chain)
    BY ScanAssumption
  <2>2. query.c \in Schema.columns /\ query.value \in Domain[query.c]
    BY <1>1 DEF QueryTyped, Queries, Filters
  <2>3. query.value \in Int
    BY <2>2 DEF IntegerColumns
  <2>4. ASSUME NEW pl \in LivePlaces(before, Schema, Chain[1])
        PROVE  Matching(query, RowAt(before, pl)) <=>
                 /\ query.value \in -128 .. 127
                 /\ (RowAt(before, pl).data[query.c] - query.value) % 256 = 0
    <3>1. PICK stored : stored = RowAt(before, pl).data[query.c]
      OBVIOUS
    <3>2. RowAt(before, pl).data \in Data(Schema)
      BY <1>1, <2>1, DataOfRows DEF QueryTyped, LivePlaces
    <3>3. stored \in Int
      BY <2>2, <3>1, <3>2 DEF Data, IntegerColumns
    <3>4. Matching(query, RowAt(before, pl)) <=> integer_compare(stored, query.value)
      <4>1. RowAt(before, pl).is_available
        BY DEF LivePlaces
      <4>2. Compare(query.c, stored, query.value) = integer_compare(stored, query.value)
        BY <2>2, <2>3, <3>3 DEF IntegerColumns
      <4> QED BY <3>1, <4>1, <4>2 DEF Matching, Matches
    <3>5. CompareLowByte(stored, query.value)
      BY <2>3, <3>3, FilterComparesLowByte
    <3> QED BY <3>1, <3>4, <3>5 DEF CompareLowByte
  <2> QED BY <1>1, <2>4 DEF ResultInv, Wanted, ByLowByte
<1> QED BY <1>1, TypedAlways, QueryDone, PTL
=============================================================================
