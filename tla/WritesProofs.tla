---------------------------- MODULE WritesProofs ----------------------------
(***************************************************************************)
(* Proofs about Writes: what the writes of an operation add up to, and what  *)
(* a kill between any two of them leaves in the file.                        *)
(***************************************************************************)
EXTENDS Writes, PageStoreProofs

-----------------------------------------------------------------------------
(* The file after the first writes of a sequence *)

\* The latest of some writes
LEMMA Latest ==
  ASSUME NEW k \in Nat, NEW here \in SUBSET (1 .. k), here # {}
  PROVE  Max(here) \in here /\ \A j \in here : j <= Max(here)
<1> DEFINE left == {k - j : j \in here}
<1>1. left \in SUBSET Nat /\ left # {}
  <2>1. \A j \in here : k - j \in Nat
    OBVIOUS
  <2> QED BY <2>1
<1>2. PICK l \in left : \A m \in left : l <= m
  BY <1>1, LeastNumber
<1>3. PICK j \in here : l = k - j
  BY <1>2
<1>4. \A i \in here : j >= i
  BY <1>2, <1>3
<1> QED BY <1>3, <1>4 DEF Max

\* A sequence of writes
IsWrites(s) == s \in Seq({s[i] : i \in DOMAIN s})

\* In g every cell holds what was written last, or what it held in f
AppliedTo(f, s, g) ==
  /\ DOMAIN g = DOMAIN f \cup {s[i].cell : i \in DOMAIN s}
  /\ \A c \in DOMAIN f : (\A i \in DOMAIN s : s[i].cell # c) => g[c] = f[c]
  /\ \A m \in DOMAIN s :
       (\A j \in DOMAIN s : s[j].cell = s[m].cell => j <= m) => g[s[m].cell] = s[m].value

LEMMA ApplyCells ==
  ASSUME NEW f, NEW s, IsWrites(s)
  PROVE  AppliedTo(f, s, Apply(f, s))
<1> DEFINE here(c) == {i \in DOMAIN s : s[i].cell = c}
           g == [c \in DOMAIN f \cup {s[i].cell : i \in DOMAIN s} |->
                   IF here(c) = {} THEN f[c] ELSE s[Max(here(c))].value]
<1>1. Apply(f, s) = g
  BY DEF Apply
<1>2. \A c \in DOMAIN f : (\A i \in DOMAIN s : s[i].cell # c) => g[c] = f[c]
  OBVIOUS
<1>3. ASSUME NEW m \in DOMAIN s, \A j \in DOMAIN s : s[j].cell = s[m].cell => j <= m
      PROVE  g[s[m].cell] = s[m].value
  <2>1. PICK c : c = s[m].cell
    OBVIOUS
  <2>2. Len(s) \in Nat /\ DOMAIN s = 1 .. Len(s)
    BY DEF IsWrites
  <2>3. m \in here(c) /\ here(c) \in SUBSET (1 .. Len(s)) /\ \A j \in here(c) : j <= m
    BY <1>3, <2>1, <2>2
  <2>4. Max(here(c)) \in here(c) /\ m <= Max(here(c))
    BY <2>2, <2>3, Latest
  <2>5. Max(here(c)) = m
    BY <2>2, <2>3, <2>4
  <2> QED BY <2>1, <2>3, <2>5
<1> HIDE DEF g
<1>4. DOMAIN g = DOMAIN f \cup {s[i].cell : i \in DOMAIN s}
  BY DEF g
<1> QED BY <1>1, <1>2, <1>3, <1>4 DEF AppliedTo

\* t is k elements of s, after the first l
PartIs(s, l, k, t) ==
  /\ IsWrites(t) /\ DOMAIN t = 1 .. k /\ Len(t) = k
  /\ \A i \in 1 .. k : t[i] = s[l + i]

LEMMA PartOf ==
  ASSUME NEW s, NEW l \in Nat, NEW k \in Nat, IsWrites(s), l + k <= Len(s)
  PROVE  PartIs(s, l, k, SubSeq(s, l + 1, l + k))
<1> DEFINE t == SubSeq(s, l + 1, l + k)
<1>1. t = [i \in 1 .. k |-> s[l + i]]
  <2>1. 1 + (l + k) - (l + 1) = k /\ \A i \in Nat : i + (l + 1) - 1 = l + i
    OBVIOUS
  <2> QED BY <2>1 DEF IsWrites
<1> HIDE DEF t
<1>2. IsWrites(t) /\ DOMAIN t = 1 .. k /\ Len(t) = k
  <2>1. PICK R : R = {s[l + i] : i \in 1 .. k}
    OBVIOUS
  <2>2. t \in Seq(R) /\ DOMAIN t = 1 .. k /\ Len(t) = k
    <3>1. t \in [1 .. k -> R]
      BY <1>1, <2>1
    <3>2. t \in Seq(R)
      BY <3>1
    <3> QED BY <3>1, <3>2
  <2>3. {t[i] : i \in DOMAIN t} = R
    BY <1>1, <2>1
  <2> QED BY <2>2, <2>3 DEF IsWrites
<1> QED BY <1>1, <1>2 DEF t, PartIs

\* The file when the first k writes have got there
Written(f, s, k) == Apply(f, SubSeq(s, 1, k))

\* In g every cell holds what was written last, or what it held in f
HoldsLatest(f, s, k, g) ==
  /\ DOMAIN g = DOMAIN f \cup {s[i].cell : i \in 1 .. k}
  /\ g = [c \in DOMAIN g |-> g[c]]
  /\ \A c \in DOMAIN f : (\A i \in 1 .. k : s[i].cell # c) => g[c] = f[c]
  /\ \A m \in 1 .. k :
       (\A j \in 1 .. k : s[j].cell = s[m].cell => j <= m) => g[s[m].cell] = s[m].value

LEMMA WrittenCells ==
  ASSUME NEW f, NEW s, NEW k, IsWrites(s), k \in 0 .. Len(s)
  PROVE  HoldsLatest(f, s, k, Written(f, s, k))
<1> DEFINE t == SubSeq(s, 0 + 1, 0 + k)
<1>1. Len(s) \in Nat /\ k \in Nat /\ 0 \in Nat /\ 0 + k <= Len(s)
  BY DEF IsWrites
<1>2. PartIs(s, 0, k, t)
  BY <1>1, PartOf
<1>3. PICK g : g = Written(f, s, k)
  OBVIOUS
<1>4. g = Apply(f, t)
  BY <1>1, <1>3 DEF Written
<1> HIDE DEF t
<1>5. DOMAIN t = 1 .. k /\ IsWrites(t) /\ \A i \in 1 .. k : t[i] = s[0 + i]
  BY <1>2 DEF PartIs
<1>6. \A i \in 1 .. k : t[i] = s[i]
  BY <1>5
<1>7. {t[i].cell : i \in DOMAIN t} = {s[i].cell : i \in 1 .. k}
  BY <1>5, <1>6
<1>8. g = [c \in DOMAIN g |-> g[c]]
  BY <1>4 DEF Apply
<1>9. AppliedTo(f, t, g)
  BY <1>4, <1>5, ApplyCells
<1> QED BY <1>3, <1>5, <1>6, <1>7, <1>8, <1>9 DEF HoldsLatest, AppliedTo

\* A cell holds what was written last, or what it held
WrittenLast(f, s, k, g, c) ==
  \/ c \in DOMAIN f /\ g[c] = f[c] /\ \A i \in 1 .. k : s[i].cell # c
  \/ \E m \in 1 .. k : /\ s[m].cell = c /\ g[c] = s[m].value
                       /\ \A j \in 1 .. k : s[j].cell = c => j <= m

LEMMA LatestOne ==
  ASSUME NEW f, NEW s, NEW k \in Nat, NEW g, NEW c, HoldsLatest(f, s, k, g), c \in DOMAIN g
  PROVE  WrittenLast(f, s, k, g, c)
<1> DEFINE here == {i \in 1 .. k : s[i].cell = c}
<1>1. CASE here = {}
  BY <1>1 DEF HoldsLatest, WrittenLast
<1>2. CASE here # {}
  <2>1. PICK m : m = Max(here)
    OBVIOUS
  <2>2. m \in here /\ \A j \in here : j <= m
    BY <1>2, <2>1, Latest
  <2>3. m \in 1 .. k /\ s[m].cell = c /\ \A j \in 1 .. k : s[j].cell = c => j <= m
    BY <2>2
  <2>4. g[s[m].cell] = s[m].value
    BY <2>3 DEF HoldsLatest
  <2> QED BY <2>3, <2>4 DEF WrittenLast
<1> QED BY <1>1, <1>2

\* One write more
LEMMA WrittenNext ==
  ASSUME NEW f, NEW s, NEW k \in Nat, IsWrites(s), k < Len(s)
  PROVE  Written(f, s, k + 1) = Put(Written(f, s, k), s[k + 1].cell, s[k + 1].value)
<1>1. PICK g : g = Written(f, s, k)
  OBVIOUS
<1>2. PICK h : h = Written(f, s, k + 1)
  OBVIOUS
<1>3. PICK x : x = s[k + 1].cell
  OBVIOUS
<1>4. Len(s) \in Nat /\ k \in 0 .. Len(s) /\ k + 1 \in 0 .. Len(s)
  BY DEF IsWrites
<1>5. 1 .. k + 1 = (1 .. k) \cup {k + 1}
  OBVIOUS
<1>6. HoldsLatest(f, s, k, g) /\ HoldsLatest(f, s, k + 1, h)
  BY <1>1, <1>2, <1>4, WrittenCells
<1>7. DOMAIN h = DOMAIN g \cup {x}
  <2>1. /\ DOMAIN g = DOMAIN f \cup {s[i].cell : i \in 1 .. k}
        /\ DOMAIN h = DOMAIN f \cup {s[i].cell : i \in 1 .. k + 1}
    BY <1>6 DEF HoldsLatest
  <2>2. {s[i].cell : i \in 1 .. k + 1} = {s[i].cell : i \in 1 .. k} \cup {x}
    BY <1>3, <1>5
  <2> QED BY <2>1, <2>2
<1>8. h[x] = s[k + 1].value
  <2>1. k + 1 \in 1 .. k + 1 /\ \A j \in 1 .. k + 1 : j <= k + 1
    OBVIOUS
  <2> QED BY <1>3, <1>6, <2>1 DEF HoldsLatest
<1>9. ASSUME NEW c \in DOMAIN g, c # x PROVE h[c] = g[c]
  <2>1. WrittenLast(f, s, k, g, c)
    BY <1>6, <1>9, LatestOne
  <2>2. CASE c \in DOMAIN f /\ g[c] = f[c] /\ \A i \in 1 .. k : s[i].cell # c
    <3>1. \A i \in 1 .. k + 1 : s[i].cell # c
      BY <1>3, <1>5, <1>9, <2>2
    <3> QED BY <1>6, <2>2, <3>1 DEF HoldsLatest
  <2>3. CASE \E m \in 1 .. k : /\ s[m].cell = c /\ g[c] = s[m].value
                               /\ \A j \in 1 .. k : s[j].cell = c => j <= m
    <3>1. PICK m \in 1 .. k : /\ s[m].cell = c /\ g[c] = s[m].value
                              /\ \A j \in 1 .. k : s[j].cell = c => j <= m
      BY <2>3
    <3>2. m \in 1 .. k + 1 /\ \A j \in 1 .. k + 1 : s[j].cell = s[m].cell => j <= m
      BY <1>3, <1>5, <1>9, <3>1
    <3>3. h[s[m].cell] = s[m].value
      BY <1>6, <3>2 DEF HoldsLatest
    <3> QED BY <3>1, <3>3
  <2> QED BY <2>1, <2>2, <2>3 DEF WrittenLast
<1>10. h = Put(g, x, s[k + 1].value)
  <2>1. h = [c \in DOMAIN h |-> h[c]]
    BY <1>6 DEF HoldsLatest
  <2> QED BY <2>1, <1>7, <1>8, <1>9 DEF Put
<1> QED BY <1>1, <1>2, <1>3, <1>10

\* No write
IsFile(f) == f = [c \in DOMAIN f |-> f[c]]

LEMMA WrittenNone ==
  ASSUME NEW f, NEW s, IsFile(f), IsWrites(s)
  PROVE  Written(f, s, 0) = f
<1>1. PICK g : g = Written(f, s, 0)
  OBVIOUS
<1>2. 0 \in 0 .. Len(s) /\ 1 .. 0 = {}
  BY DEF IsWrites
<1>3. HoldsLatest(f, s, 0, g)
  BY <1>1, <1>2, WrittenCells
<1>4. DOMAIN g = DOMAIN f /\ g = [c \in DOMAIN g |-> g[c]] /\ \A c \in DOMAIN f : g[c] = f[c]
  BY <1>2, <1>3 DEF HoldsLatest
<1> QED BY <1>1, <1>4 DEF IsFile

\* All the writes
LEMMA WrittenAll ==
  ASSUME NEW f, NEW s, IsWrites(s)
  PROVE  Written(f, s, Len(s)) = Apply(f, s)
<1>1. Len(s) \in Nat /\ s = [i \in 1 .. Len(s) |-> s[i]]
  BY DEF IsWrites
<1>2. SubSeq(s, 1, Len(s)) = s
  BY <1>1 DEF IsWrites
<1> QED BY <1>2 DEF Written

\* Some writes, and then some of the rest
RestOf(s, l, rest) == rest = SubSeq(s, l + 1, Len(s))

WritesOn(f, s, l, k, rest) ==
  /\ IsWrites(rest) /\ Len(rest) = Len(s) - l
  /\ Written(Written(f, s, l), rest, k) = Written(f, s, l + k)

LEMMA WrittenOn ==
  ASSUME NEW f, NEW s, NEW l \in Nat, NEW k \in Nat, NEW rest,
         IsWrites(s), l + k <= Len(s), RestOf(s, l, rest)
  PROVE  WritesOn(f, s, l, k, rest)
<1>1. Len(s) \in Nat /\ l \in 0 .. Len(s) /\ l + k \in 0 .. Len(s)
  BY DEF IsWrites
<1>2. PICK n : n = Len(s) - l
  OBVIOUS
<1>3. n \in Nat /\ k \in 0 .. n /\ l + n = Len(s)
  BY <1>1, <1>2
<1>4. PartIs(s, l, n, rest)
  <2>1. l + n <= Len(s)
    BY <1>1, <1>3
  <2>2. PartIs(s, l, n, SubSeq(s, l + 1, l + n))
    BY <1>3, <2>1, PartOf
  <2> QED BY <1>3, <2>2 DEF RestOf
<1>5. IsWrites(rest) /\ Len(rest) = n /\ \A i \in 1 .. n : rest[i] = s[l + i]
  BY <1>4 DEF PartIs
<1>6. PICK g : g = Written(f, s, l)
  OBVIOUS
<1>7. PICK h : h = Written(g, rest, k)
  OBVIOUS
<1>8. PICK e : e = Written(f, s, l + k)
  OBVIOUS
<1>9. HoldsLatest(f, s, l, g) /\ HoldsLatest(g, rest, k, h) /\ HoldsLatest(f, s, l + k, e)
  BY <1>1, <1>3, <1>5, <1>6, <1>7, <1>8, WrittenCells
<1>10. \A j \in 1 .. l + k : j \in 1 .. l \/ (j - l \in 1 .. k /\ rest[j - l] = s[j])
  <2> SUFFICES ASSUME NEW j \in 1 .. l + k, j \notin 1 .. l
               PROVE  j - l \in 1 .. k /\ rest[j - l] = s[j]
    OBVIOUS
  <2>1. j - l \in 1 .. k /\ j - l \in 1 .. n /\ l + (j - l) = j
    BY <1>3
  <2> QED BY <1>5, <2>1
<1>11. \A i \in 1 .. k : l + i \in 1 .. l + k /\ rest[i] = s[l + i]
  BY <1>3, <1>5
<1>12. 1 .. l \subseteq 1 .. l + k
  OBVIOUS
<1>13. DOMAIN h = DOMAIN e
  <2>1. /\ DOMAIN g = DOMAIN f \cup {s[i].cell : i \in 1 .. l}
        /\ DOMAIN h = DOMAIN g \cup {rest[i].cell : i \in 1 .. k}
        /\ DOMAIN e = DOMAIN f \cup {s[i].cell : i \in 1 .. l + k}
    BY <1>9 DEF HoldsLatest
  <2>2. \A c \in {s[i].cell : i \in 1 .. l + k} :
          c \in {s[i].cell : i \in 1 .. l} \cup {rest[i].cell : i \in 1 .. k}
    BY <1>10
  <2>3. \A c \in {rest[i].cell : i \in 1 .. k} : c \in {s[i].cell : i \in 1 .. l + k}
    BY <1>11
  <2>4. \A c \in {s[i].cell : i \in 1 .. l} : c \in {s[i].cell : i \in 1 .. l + k}
    BY <1>12
  <2> QED BY <2>1, <2>2, <2>3, <2>4
<1>14. ASSUME NEW c \in DOMAIN h PROVE h[c] = e[c]
  <2>1. WrittenLast(g, rest, k, h, c)
    BY <1>9, <1>14, LatestOne
  <2>2. CASE \E m \in 1 .. k : /\ rest[m].cell = c /\ h[c] = rest[m].value
                               /\ \A j \in 1 .. k : rest[j].cell = c => j <= m
    <3>1. PICK m \in 1 .. k : /\ rest[m].cell = c /\ h[c] = rest[m].value
                              /\ \A j \in 1 .. k : rest[j].cell = c => j <= m
      BY <2>2
    <3>2. l + m \in 1 .. l + k /\ s[l + m].cell = c /\ h[c] = s[l + m].value
      BY <1>11, <3>1
    <3>3. ASSUME NEW j \in 1 .. l + k, s[j].cell = c PROVE j <= l + m
      <4>1. j \in 1 .. l \/ (j - l \in 1 .. k /\ rest[j - l].cell = c)
        BY <1>10, <3>3
      <4>2. j \in 1 .. l \/ j - l <= m
        BY <3>1, <4>1
      <4> QED BY <4>2
    <3>4. e[s[l + m].cell] = s[l + m].value
      BY <1>9, <3>2, <3>3 DEF HoldsLatest
    <3> QED BY <3>2, <3>4
  <2>3. CASE c \in DOMAIN g /\ h[c] = g[c] /\ \A i \in 1 .. k : rest[i].cell # c
    <3>1. WrittenLast(f, s, l, g, c)
      BY <1>9, <2>3, LatestOne
    <3>2. CASE c \in DOMAIN f /\ g[c] = f[c] /\ \A i \in 1 .. l : s[i].cell # c
      <4>1. \A j \in 1 .. l + k : s[j].cell # c
        BY <1>10, <2>3, <3>2
      <4> QED BY <1>9, <2>3, <3>2, <4>1 DEF HoldsLatest
    <3>3. CASE \E m \in 1 .. l : /\ s[m].cell = c /\ g[c] = s[m].value
                                 /\ \A j \in 1 .. l : s[j].cell = c => j <= m
      <4>1. PICK m \in 1 .. l : /\ s[m].cell = c /\ g[c] = s[m].value
                                /\ \A j \in 1 .. l : s[j].cell = c => j <= m
        BY <3>3
      <4>2. m \in 1 .. l + k /\ \A j \in 1 .. l + k : s[j].cell = s[m].cell => j <= m
        BY <1>10, <1>12, <2>3, <4>1
      <4>3. e[s[m].cell] = s[m].value
        BY <1>9, <4>2 DEF HoldsLatest
      <4> QED BY <2>3, <4>1, <4>3
    <3> QED BY <3>1, <3>2, <3>3 DEF WrittenLast
  <2> QED BY <2>1, <2>2, <2>3 DEF WrittenLast
<1>15. h = [c \in DOMAIN h |-> h[c]] /\ e = [c \in DOMAIN e |-> e[c]]
  BY <1>9 DEF HoldsLatest
<1>16. h = e
  BY <1>13, <1>14, <1>15
<1>17. Written(Written(f, s, l), rest, k) = Written(f, s, l + k)
  BY <1>6, <1>7, <1>8, <1>16
<1>18. Len(rest) = Len(s) - l
  BY <1>2, <1>5
<1> QED BY <1>5, <1>17, <1>18 DEF WritesOn

-----------------------------------------------------------------------------
(* A file as a whole: a database header d, a catalog c and pages p *)

TypesRight(d, c, p) ==
  /\ d \in DbHeader /\ (d.page_count = 0 => d = NoFile)
  /\ c \in Seq(Header)
  /\ DOMAIN p \subseteq PageNo
  /\ \A n \in DOMAIN p : IsPage(p[n]) /\ IsRecord(p[n])

SlotsRight(d, c) ==
  /\ Len(c) = d.relation_count
  /\ \A i \in DOMAIN c : c[i].real_number = i
  /\ \A i, j \in DOMAIN c : c[i].name = c[j].name => i = j

\* InChain, in the pages p
OnChain(p, n, h) ==
  LET link == p[n].next_page_number IN
  /\ h.page_number_first <= n /\ n <= h.page_number_last
  /\ link = 0 <=> n = h.page_number_last
  /\ link # 0 => link \in DOMAIN p /\ n < link /\ p[link].relation_name = h.name
  /\ n # h.page_number_first => \E m \in DOMAIN p : m < n /\ p[m].next_page_number = n

ChainsRight(d, c, p) ==
  /\ DOMAIN p = 2 .. d.page_count
  /\ \A n \in DOMAIN p : /\ p[n].page_number = n
                         /\ \E i \in DOMAIN c : c[i].name = p[n].relation_name
  /\ \A i \in DOMAIN c : {c[i].page_number_first, c[i].page_number_last} \subseteq OwnedIn(p, c[i].name)
  /\ \A i \in DOMAIN c : \A n \in OwnedIn(p, c[i].name) : OnChain(p, n, c[i])
  /\ \A m, n \in DOMAIN p :
       p[m].next_page_number = p[n].next_page_number => m = n \/ p[m].next_page_number = 0

SpaceRight(c, p) ==
  \A i \in DOMAIN c : \A n \in OwnedIn(p, c[i].name) : PageFilled(p[n], c[i].schema)

RowsRight(c, p) == \A i \in DOMAIN c : RelationFits(p, c[i])

\* What IInv and RowsIInv say of a file
FileWhole(d, c, p) ==
  /\ TypesRight(d, c, p) /\ SlotsRight(d, c) /\ ChainsRight(d, c, p)
  /\ SpaceRight(c, p) /\ RowsRight(c, p)

\* RelationWhole, in the pages p
WholeIn(p, h) ==
  LET owned == OwnedIn(p, h.name) IN
  /\ {h.page_number_first, h.page_number_last} \subseteq owned
  /\ h.page_count = Cardinality(owned)
  /\ \A n \in owned : /\ OnChain(p, n, h) /\ PageFilled(p[n], h.schema)
                      /\ DOMAIN p[n].rows = RowOffsets(p[n], h.schema)

\* One relation may be damaged
Confined(c, p) ==
  /\ \A i \in DOMAIN c : c[i].real_number = i
  /\ \A i, j \in DOMAIN c : i = j \/ WholeIn(p, c[i]) \/ WholeIn(p, c[j])


\* A file of which IInv and RowsIInv are true, as one operator; and a file on
\* which both are true when the program does not run
StateIsWhole == FileWhole(disk, catalog, pages)

LEMMA StateWhole == IInv /\ RowsIInv => StateIsWhole
<1> SUFFICES ASSUME IInv, RowsIInv PROVE FileWhole(disk, catalog, pages)
  BY DEF StateIsWhole
<1>1. TypesRight(disk, catalog, pages)
  BY DEF TypesRight, IInv, TypeOK, HeadersType, RelationsType, PagesType, RowsIInv, SavedInv
<1>2. SlotsRight(disk, catalog)
  BY DEF SlotsRight, IInv, CatalogInv
<1>3. ChainsRight(disk, catalog, pages)
  BY DEF ChainsRight, OnChain, OwnedIn, IInv, ChainInv, InChain, Owner, LinkOf
<1>4. SpaceRight(catalog, pages)
  BY DEF SpaceRight, OwnedIn, IInv, SpaceInv, Owner
<1>5. RowsRight(catalog, pages)
  BY DEF RowsRight, RowsIInv
<1> QED BY <1>1, <1>2, <1>3, <1>4, <1>5 DEF FileWhole

LEMMA StateWholeNext == IInv' /\ RowsIInv' => StateIsWhole'
BY StateWhole, PTL

NotRunning ==
  /\ opened = FALSE /\ mem = NoFile /\ handle = EmptyMap /\ indexed = {}
  /\ reply.answer \in Answers

LEMMA WholeState == StateIsWhole /\ NotRunning => IInv /\ RowsIInv
<1> SUFFICES ASSUME FileWhole(disk, catalog, pages), NotRunning PROVE IInv /\ RowsIInv
  BY DEF StateIsWhole
<1>1. /\ TypesRight(disk, catalog, pages) /\ SlotsRight(disk, catalog)
      /\ ChainsRight(disk, catalog, pages)
      /\ SpaceRight(catalog, pages) /\ RowsRight(catalog, pages)
  BY DEF FileWhole
<1>2. DOMAIN handle = {}
  BY DEF NotRunning, EmptyMap
<1>3. TypeOK
  <2>1. mem \in DbHeader
    BY MaxPagesAssumption DEF NotRunning, DbHeader, NoFile
  <2> QED BY <1>1, <1>2, <2>1
        DEF NotRunning, TypesRight, TypeOK, SessionType, HeadersType, RelationsType, PagesType
<1>4. SavedInv
  BY <1>1, <1>2 DEF NotRunning, TypesRight, SavedInv
<1>5. CatalogInv
  BY <1>1 DEF SlotsRight, CatalogInv
<1>6. ChainInv
  BY <1>1 DEF ChainsRight, OnChain, OwnedIn, ChainInv, InChain, Owner, LinkOf
<1>7. SpaceInv
  BY <1>1 DEF SpaceRight, OwnedIn, SpaceInv, Owner
<1>8. RowsIInv
  BY <1>1 DEF TypesRight, RowsRight, RowsIInv
<1> QED BY <1>3, <1>4, <1>5, <1>6, <1>7, <1>8 DEF IInv

LEMMA WholeStateNext == StateIsWhole' /\ NotRunning' => IInv' /\ RowsIInv'
BY WholeState, PTL

\* Of a whole file every relation is whole, and of a file on which Confined is true
\* ConfinedInv is
LEMMA WholeRelations ==
  ASSUME NEW d, NEW c, NEW p, FileWhole(d, c, p), NEW i \in DOMAIN c
  PROVE  WholeIn(p, c[i])
<1> DEFINE owned == OwnedIn(p, c[i].name)
<1>1. {c[i].page_number_first, c[i].page_number_last} \subseteq owned
  BY DEF FileWhole, ChainsRight
<1>2. c[i].page_count = Cardinality(owned)
  BY DEF FileWhole, RowsRight, RelationFits
<1>3. ASSUME NEW n \in owned
      PROVE  /\ OnChain(p, n, c[i]) /\ PageFilled(p[n], c[i].schema)
             /\ DOMAIN p[n].rows = RowOffsets(p[n], c[i].schema)
  BY <1>3 DEF FileWhole, ChainsRight, SpaceRight, RowsRight, RelationFits, RowsFit
<1> QED BY <1>1, <1>2, <1>3 DEF WholeIn

LEMMA WholeIsConfined ==
  ASSUME NEW d, NEW c, NEW p, FileWhole(d, c, p)
  PROVE  Confined(c, p)
<1>1. \A i \in DOMAIN c : c[i].real_number = i
  BY DEF FileWhole, SlotsRight
<1> QED BY <1>1, WholeRelations DEF Confined

LEMMA ConfinedState == Confined(catalog, pages) => ConfinedInv
<1> SUFFICES ASSUME Confined(catalog, pages) PROVE ConfinedInv
  OBVIOUS
<1>1. ASSUME NEW h PROVE WholeIn(pages, h) <=> RelationWhole(h)
  BY DEF WholeIn, RelationWhole, OwnedIn, Owner, OnChain, InChain, LinkOf
<1> QED BY <1>1 DEF Confined, ConfinedInv

-----------------------------------------------------------------------------
(* What the cells of a file hold *)
ColumnsIn(f, n) == IF <<"columns", n>> \in DOMAIN f THEN f[<<"columns", n>>] ELSE {}

HasSlots(f, c) ==
  \A i \in 1 .. Len(c) : <<"slot", i>> \in DOMAIN f /\ f[<<"slot", i>>] = c[i]

\* A page as the reading makes one
Readable(page) ==
  /\ IsRecord(page) /\ page.write_ptr \in 0 .. PageSize
  /\ DOMAIN page.rows \subseteq 0 .. page.write_ptr - 1
  /\ page.rows = [o \in DOMAIN page.rows |->
                    [is_available |-> page.rows[o].is_available, data |-> page.rows[o].data]]

HasRows(f, n, rows) ==
  \A o \in DOMAIN rows :
    /\ <<"row", n, o>> \in DOMAIN f /\ f[<<"row", n, o>>] = rows[o].is_available
    /\ <<"data", n, o>> \in DOMAIN f /\ f[<<"data", n, o>>] = rows[o].data

HasPage(f, n, page) ==
  /\ Readable(page)
  /\ f[<<"page", n>>] = HeaderOf(page) /\ ColumnsIn(f, n) = page.columns
  /\ HasRows(f, n, page.rows)

\* Beside the rows that a page counts there may be one behind them, that a kill
\* left there
RowCellsKnown(f, p) ==
  \A n \in PageNo : \A o \in 0 .. PageSize :
    <<"row", n, o>> \in DOMAIN f \/ <<"data", n, o>> \in DOMAIN f =>
      n \in DOMAIN p /\ o \in DOMAIN p[n].rows \cup {p[n].write_ptr}

HasPages(f, p) ==
  /\ p = [n \in DOMAIN p |-> p[n]]
  /\ DOMAIN p = {n \in PageNo : <<"page", n>> \in DOMAIN f}
  /\ \A n \in DOMAIN p : HasPage(f, n, p[n])
  /\ RowCellsKnown(f, p)

\* The cells hold the database header d, the catalog c and the pages p
Holds(f, d, c, p) ==
  /\ DatabaseOf(f) = d
  /\ c = [i \in 1 .. Len(c) |-> c[i]] /\ Len(c) = d.relation_count /\ Len(c) \in Nat
  /\ HasSlots(f, c)
  /\ HasPages(f, p)

\* The header of page 1 counts the slots
RealRight(f, d) ==
  d # NoFile => <<"real">> \in DOMAIN f /\ f[<<"real">>] = d.relation_count

\* Row by row, pages p are pages a or b
OneOf(p, a, b) ==
  \A n \in PageNo : \A o \in 0 .. PageSize : Row_(p, n, o) \in {Row_(a, n, o), Row_(b, n, o)}

\* What the program reads back
LEMMA ReadBack ==
  ASSUME NEW f, NEW d, NEW c, NEW p, Holds(f, d, c, p)
  PROVE  DatabaseOf(f) = d /\ CatalogOf(f) = c /\ PagesOf(f) = p
<1>1. DatabaseOf(f) = d
  BY DEF Holds
<1>2. CatalogOf(f) = c
  <2>1. c = [i \in 1 .. Len(c) |-> c[i]] /\ Len(c) = d.relation_count
    BY DEF Holds
  <2>2. \A i \in 1 .. Len(c) : f[<<"slot", i>>] = c[i]
    BY DEF Holds, HasSlots
  <2>3. CatalogOf(f) = [i \in 1 .. Len(c) |-> f[<<"slot", i>>]]
    BY <1>1, <2>1 DEF CatalogOf
  <2> QED BY <2>1, <2>2, <2>3
<1>3. ASSUME NEW n \in DOMAIN p PROVE PageOf(f, n) = p[n]
  <2>1. PICK page : page = p[n]
    OBVIOUS
  <2>2. n \in PageNo /\ HasPage(f, n, page) /\ RowCellsKnown(f, p)
    BY <2>1 DEF Holds, HasPages
  <2>3. f[<<"page", n>>] = HeaderOf(page) /\ ColumnsIn(f, n) = page.columns
    BY <2>2 DEF HasPage
  <2>4. /\ IsRecord(page) /\ page.write_ptr \in 0 .. PageSize
        /\ DOMAIN page.rows \subseteq 0 .. page.write_ptr - 1
    BY <2>2 DEF HasPage, Readable
  <2>5. page.rows = [o \in DOMAIN page.rows |->
                       [is_available |-> page.rows[o].is_available, data |-> page.rows[o].data]]
    BY <2>2 DEF HasPage, Readable
  <2>6. \A o \in DOMAIN page.rows :
          /\ <<"row", n, o>> \in DOMAIN f /\ f[<<"row", n, o>>] = page.rows[o].is_available
          /\ <<"data", n, o>> \in DOMAIN f /\ f[<<"data", n, o>>] = page.rows[o].data
    BY <2>2 DEF HasPage, HasRows
  <2>7. PICK header : header = f[<<"page", n>>]
    OBVIOUS
  <2>8. /\ header.page_number = page.page_number /\ header.relation_name = page.relation_name
        /\ header.write_ptr = page.write_ptr /\ header.remaining_space = page.remaining_space
        /\ header.next_page_number = page.next_page_number
    BY <2>3, <2>7 DEF HeaderOf
  <2> DEFINE written == {o \in 0 .. header.write_ptr - 1 :
                           <<"row", n, o>> \in DOMAIN f /\ <<"data", n, o>> \in DOMAIN f}
             rows == [o \in written |-> [is_available |-> f[<<"row", n, o>>], data |-> f[<<"data", n, o>>]]]
  <2>9. written = DOMAIN page.rows
    <3>1. ASSUME NEW o \in written PROVE o \in DOMAIN page.rows
      <4>1. o \in 0 .. PageSize /\ o # page.write_ptr
        BY <2>4, <2>8, SizesAssumption
      <4>2. o \in DOMAIN page.rows \cup {page.write_ptr}
        BY <2>1, <2>2, <4>1 DEF RowCellsKnown
      <4> QED BY <4>1, <4>2
    <3>2. ASSUME NEW o \in DOMAIN page.rows PROVE o \in written
      BY <2>4, <2>6, <2>8
    <3> QED BY <3>1, <3>2
  <2>10. rows = page.rows
    <3>1. rows = [o \in DOMAIN page.rows |->
                    [is_available |-> f[<<"row", n, o>>], data |-> f[<<"data", n, o>>]]]
      BY <2>9
    <3> HIDE DEF rows
    <3>2. rows = [o \in DOMAIN page.rows |->
                    [is_available |-> page.rows[o].is_available, data |-> page.rows[o].data]]
      BY <2>6, <3>1
    <3> QED BY <2>5, <3>2
  <2>11. PageOf(f, n) =
           [page_number |-> header.page_number, relation_name |-> header.relation_name,
            write_ptr |-> header.write_ptr, remaining_space |-> header.remaining_space,
            next_page_number |-> header.next_page_number,
            columns |-> ColumnsIn(f, n), rows |-> rows]
    BY <2>7 DEF PageOf, ColumnsIn
  <2> HIDE DEF rows, written
  <2> QED BY <2>1, <2>3, <2>4, <2>8, <2>10, <2>11 DEF IsRecord
<1>4. PagesOf(f) = p
  <2>1. p = [n \in DOMAIN p |-> p[n]] /\ DOMAIN p = {n \in PageNo : <<"page", n>> \in DOMAIN f}
    BY DEF Holds, HasPages
  <2>2. PagesOf(f) = [n \in DOMAIN p |-> PageOf(f, n)]
    BY <2>1 DEF PagesOf
  <2> QED BY <1>3, <2>1, <2>2
<1> QED BY <1>1, <1>2, <1>4


-----------------------------------------------------------------------------
(* What one write changes *)

\* Cell x is the same in f and g
SameCell(f, g, x) == (x \in DOMAIN g <=> x \in DOMAIN f) /\ (x \in DOMAIN f => g[x] = f[x])

\* So are the cells of page n
SamePage(f, g, n) ==
  /\ SameCell(f, g, <<"page", n>>) /\ SameCell(f, g, <<"columns", n>>)
  /\ \A o \in 0 .. PageSize :
       SameCell(f, g, <<"row", n, o>>) /\ SameCell(f, g, <<"data", n, o>>)

LEMMA PutElsewhere ==
  ASSUME NEW f, NEW x, NEW v, NEW y, y # x
  PROVE  SameCell(f, Put(f, x, v), y)
<1>1. PICK g : g = Put(f, x, v)
  OBVIOUS
<1>2. DOMAIN g = DOMAIN f \cup {x} /\ \A c \in DOMAIN f : c # x => g[c] = f[c]
  BY <1>1 DEF Put
<1> QED BY <1>1, <1>2 DEF SameCell

\* A cell that belongs to no page
OffPages(x, i) == x \in {<<"database">>, <<"real">>, <<"slot", i>>, <<"size", i>>}

LEMMA PutOffPages ==
  ASSUME NEW f, NEW x, NEW v, NEW i, NEW n, OffPages(x, i)
  PROVE  SamePage(f, Put(f, x, v), n)
<1> USE DEF OffPages
<1>1. x # <<"page", n>> /\ x # <<"columns", n>>
  OBVIOUS
<1>2. \A o : x # <<"row", n, o>> /\ x # <<"data", n, o>>
  OBVIOUS
<1> QED BY <1>1, <1>2, PutElsewhere DEF SamePage

\* A cell of another page
OnPage(x, m, i) == x \in {<<"page", m>>, <<"columns", m>>, <<"row", m, i>>, <<"data", m, i>>}

LEMMA PutOnOther ==
  ASSUME NEW f, NEW x, NEW v, NEW m, NEW i, NEW n, n # m, OnPage(x, m, i)
  PROVE  SamePage(f, Put(f, x, v), n)
<1> USE DEF OnPage
<1>1. x # <<"page", n>> /\ x # <<"columns", n>>
  OBVIOUS
<1>2. \A o : x # <<"row", n, o>> /\ x # <<"data", n, o>>
  OBVIOUS
<1> QED BY <1>1, <1>2, PutElsewhere DEF SamePage

\* A page of which no cell has changed
LEMMA SamePageHeld ==
  ASSUME NEW f, NEW g, NEW n, NEW page, SamePage(f, g, n), HasPage(f, n, page),
         <<"page", n>> \in DOMAIN f
  PROVE  HasPage(g, n, page)
<1>1. Readable(page) /\ HasRows(f, n, page.rows)
  BY DEF HasPage
<1>2. g[<<"page", n>>] = HeaderOf(page)
  BY DEF HasPage, SamePage, SameCell
<1>3. ColumnsIn(g, n) = page.columns
  BY DEF HasPage, ColumnsIn, SamePage, SameCell
<1>4. HasRows(g, n, page.rows)
  <2>1. \A o \in DOMAIN page.rows : o \in 0 .. PageSize
    BY <1>1, SizesAssumption DEF Readable
  <2> QED BY <1>1, <2>1 DEF HasRows, SamePage, SameCell
<1> QED BY <1>1, <1>2, <1>3, <1>4 DEF HasPage

LEMMA SamePagesHeld ==
  ASSUME NEW f, NEW g, NEW p, HasPages(f, p), \A n : SamePage(f, g, n)
  PROVE  HasPages(g, p)
<1>1. \A n : <<"page", n>> \in DOMAIN f <=> <<"page", n>> \in DOMAIN g
  BY DEF SamePage, SameCell
<1>2. p = [n \in DOMAIN p |-> p[n]] /\ DOMAIN p = {n \in PageNo : <<"page", n>> \in DOMAIN g}
  BY <1>1 DEF HasPages
<1>3. \A n \in DOMAIN p : HasPage(g, n, p[n])
  BY SamePageHeld DEF HasPages
<1>4. RowCellsKnown(g, p)
  BY DEF HasPages, RowCellsKnown, SamePage, SameCell
<1> QED BY <1>2, <1>3, <1>4 DEF HasPages

\* The row cells of page n are those of its rows, and perhaps of one behind them
RowCellsOf(f, n, page) ==
  \A o \in 0 .. PageSize :
    <<"row", n, o>> \in DOMAIN f \/ <<"data", n, o>> \in DOMAIN f =>
      o \in DOMAIN page.rows \cup {page.write_ptr}

\* One page has changed, or is new
LEMMA OnePageHeld ==
  ASSUME NEW f, NEW g, NEW p, NEW n \in PageNo, NEW page,
         HasPages(f, p), \A m : m = n \/ SamePage(f, g, m),
         <<"page", n>> \in DOMAIN g, HasPage(g, n, page), RowCellsOf(g, n, page)
  PROVE  HasPages(g, Put(p, n, page))
<1>1. PICK q : q = Put(p, n, page)
  OBVIOUS
<1>2. /\ DOMAIN q = DOMAIN p \cup {n} /\ q = [m \in DOMAIN q |-> q[m]]
      /\ q[n] = page /\ \A m \in DOMAIN p : m # n => q[m] = p[m]
  BY <1>1 DEF Put
<1>3. DOMAIN q = {m \in PageNo : <<"page", m>> \in DOMAIN g}
  <2>1. DOMAIN p = {m \in PageNo : <<"page", m>> \in DOMAIN f}
    BY DEF HasPages
  <2>2. \A m : m # n => (<<"page", m>> \in DOMAIN f <=> <<"page", m>> \in DOMAIN g)
    BY DEF SamePage, SameCell
  <2> QED BY <1>2, <2>1, <2>2
<1>4. \A m \in DOMAIN q : HasPage(g, m, q[m])
  <2> SUFFICES ASSUME NEW m \in DOMAIN p, m # n PROVE HasPage(g, m, p[m])
    BY <1>2
  <2>1. HasPage(f, m, p[m]) /\ <<"page", m>> \in DOMAIN f
    BY DEF HasPages
  <2> QED BY <2>1, SamePageHeld
<1>5. RowCellsKnown(g, q)
  <2> SUFFICES ASSUME NEW m \in PageNo, NEW o \in 0 .. PageSize,
                      <<"row", m, o>> \in DOMAIN g \/ <<"data", m, o>> \in DOMAIN g
               PROVE  m \in DOMAIN q /\ o \in DOMAIN q[m].rows \cup {q[m].write_ptr}
    BY DEF RowCellsKnown
  <2>1. CASE m = n
    BY <1>2, <2>1 DEF RowCellsOf
  <2>2. CASE m # n
    <3>1. <<"row", m, o>> \in DOMAIN f \/ <<"data", m, o>> \in DOMAIN f
      BY <2>2 DEF SamePage, SameCell
    <3>2. m \in DOMAIN p /\ o \in DOMAIN p[m].rows \cup {p[m].write_ptr}
      BY <3>1 DEF HasPages, RowCellsKnown
    <3> QED BY <1>2, <2>2, <3>2
  <2> QED BY <2>1, <2>2
<1> QED BY <1>1, <1>2, <1>3, <1>4, <1>5 DEF HasPages

\* A catalog of as many headers as the database header d counts
IsCatalog(c, d) ==
  c = [i \in 1 .. Len(c) |-> c[i]] /\ Len(c) = d.relation_count /\ Len(c) \in Nat

\* A write on page 1, or to the size of the columns, that is not read back
Unread(x, c, n) == x \in {<<"real">>, <<"slot", Len(c) + 1>>, <<"size", n>>}

LEMMA UnreadWrite ==
  ASSUME NEW f, NEW d, NEW c, NEW p, NEW x, NEW n, NEW v, Holds(f, d, c, p), Unread(x, c, n)
  PROVE  Holds(Put(f, x, v), d, c, p)
<1>1. PICK g : g = Put(f, x, v)
  OBVIOUS
<1>2. \A m : SamePage(f, g, m)
  <2>1. PICK i : OffPages(x, i)
    BY DEF Unread, OffPages
  <2> QED BY <1>1, <2>1, PutOffPages
<1>3. HasPages(g, p)
  BY <1>2, SamePagesHeld DEF Holds
<1>4. DatabaseOf(g) = d
  <2>1. x # <<"database">>
    BY DEF Unread
  <2>2. SameCell(f, g, <<"database">>)
    BY <1>1, <2>1, PutElsewhere
  <2> QED BY <2>2 DEF SameCell, DatabaseOf, Holds
<1>5. HasSlots(g, c)
  <2>1. \A i \in 1 .. Len(c) : x # <<"slot", i>>
    BY DEF Unread, Holds
  <2>2. \A i \in 1 .. Len(c) : SameCell(f, g, <<"slot", i>>)
    BY <1>1, <2>1, PutElsewhere
  <2> QED BY <2>2 DEF SameCell, HasSlots, Holds
<1> QED BY <1>1, <1>3, <1>4, <1>5 DEF Holds

\* A write to the database header
LEMMA DatabaseWrite ==
  ASSUME NEW f, NEW d, NEW c, NEW p, NEW e, NEW b,
         Holds(f, d, c, p), IsCatalog(b, e), HasSlots(f, b)
  PROVE  Holds(Put(f, <<"database">>, e), e, b, p)
<1>1. PICK g : g = Put(f, <<"database">>, e)
  OBVIOUS
<1>2. \A m : SamePage(f, g, m)
  <2>1. OffPages(<<"database">>, 0)
    BY DEF OffPages
  <2> QED BY <1>1, <2>1, PutOffPages
<1>3. HasPages(g, p)
  BY <1>2, SamePagesHeld DEF Holds
<1>4. DatabaseOf(g) = e
  <2>1. <<"database">> \in DOMAIN g /\ g[<<"database">>] = e
    BY <1>1 DEF Put
  <2> QED BY <2>1 DEF DatabaseOf
<1>5. HasSlots(g, b)
  <2>1. \A i : SameCell(f, g, <<"slot", i>>)
    BY <1>1, PutElsewhere
  <2> QED BY <2>1 DEF SameCell, HasSlots
<1> QED BY <1>1, <1>3, <1>4, <1>5 DEF Holds, IsCatalog

\* A write to a slot in use
LEMMA SlotWrite ==
  ASSUME NEW f, NEW d, NEW c, NEW p, NEW i, NEW h, Holds(f, d, c, p), i \in 1 .. Len(c)
  PROVE  Holds(Put(f, <<"slot", i>>, h), d, [c EXCEPT ![i] = h], p)
<1>1. PICK g : g = Put(f, <<"slot", i>>, h)
  OBVIOUS
<1>2. PICK b : b = [c EXCEPT ![i] = h]
  OBVIOUS
<1>3. \A m : SamePage(f, g, m)
  <2>1. OffPages(<<"slot", i>>, i)
    BY DEF OffPages
  <2> QED BY <1>1, <2>1, PutOffPages
<1>4. HasPages(g, p)
  BY <1>3, SamePagesHeld DEF Holds
<1>5. DatabaseOf(g) = d
  <2>1. <<"database">> # <<"slot", i>>
    OBVIOUS
  <2>2. SameCell(f, g, <<"database">>)
    BY <1>1, <2>1, PutElsewhere
  <2> QED BY <2>2 DEF SameCell, DatabaseOf, Holds
<1>6. c = [j \in 1 .. Len(c) |-> c[j]] /\ Len(c) = d.relation_count /\ Len(c) \in Nat
  BY DEF Holds
<1>7. /\ b = [j \in 1 .. Len(c) |-> b[j]] /\ Len(b) = Len(c)
      /\ b[i] = h /\ \A j \in 1 .. Len(c) : j # i => b[j] = c[j]
  <2>1. PICK k : k = Len(c)
    OBVIOUS
  <2>2. DOMAIN c = 1 .. k /\ k \in Nat /\ i \in 1 .. k
    BY <1>6, <2>1
  <2>3. /\ DOMAIN b = 1 .. k /\ b = [j \in DOMAIN b |-> b[j]]
        /\ b[i] = h /\ \A j \in 1 .. k : j # i => b[j] = c[j]
    BY <1>2, <2>2
  <2>4. b = [j \in 1 .. k |-> b[j]]
    BY <2>3
  <2>5. Len(b) = k
    <3>1. PICK R : R = {b[j] : j \in 1 .. k}
      OBVIOUS
    <3>2. b \in [1 .. k -> R]
      BY <2>4, <3>1
    <3>3. b \in Seq(R)
      BY <2>2, <3>2
    <3> QED BY <2>2, <2>3, <3>3
  <2> QED BY <2>1, <2>3, <2>4, <2>5
<1>8. HasSlots(g, b)
  <2>1. SUFFICES ASSUME NEW j \in 1 .. Len(c)
                 PROVE  <<"slot", j>> \in DOMAIN g /\ g[<<"slot", j>>] = b[j]
    BY <1>7 DEF HasSlots
  <2>2. CASE j = i
    BY <1>1, <1>7, <2>2 DEF Put
  <2>3. CASE j # i
    <3>1. SameCell(f, g, <<"slot", j>>)
      BY <1>1, <2>3, PutElsewhere
    <3> QED BY <1>7, <2>3, <3>1 DEF SameCell, HasSlots, Holds
  <2> QED BY <2>2, <2>3
<1>9. Holds(g, d, b, p)
  <2>1. b = [j \in 1 .. Len(b) |-> b[j]] /\ Len(b) = d.relation_count /\ Len(b) \in Nat
    BY <1>6, <1>7
  <2> QED BY <2>1, <1>4, <1>5, <1>8 DEF Holds
<1> QED BY <1>1, <1>2, <1>9


\* A page as its types and its rows have it can be read back
LEMMA PageReadable ==
  ASSUME NEW page, NEW schema, IsPage(page), IsRecord(page),
         DOMAIN page.rows = RowOffsets(page, schema)
  PROVE  Readable(page)
<1>1. DOMAIN page.rows \subseteq 0 .. page.write_ptr - 1 /\ page.write_ptr \in 0 .. PageSize
  BY DEF RowOffsets, IsPage
<1>2. page.rows = [o \in DOMAIN page.rows |->
                     [is_available |-> page.rows[o].is_available, data |-> page.rows[o].data]]
  <2>1. PICK s \in Schemas : page.rows \in [DOMAIN page.rows -> Row(s)]
    BY DEF IsPage
  <2>2. \A o \in DOMAIN page.rows :
          page.rows[o] = [is_available |-> page.rows[o].is_available, data |-> page.rows[o].data]
    BY <2>1 DEF Row
  <2>3. PICK rows : rows = page.rows
    OBVIOUS
  <2>4. rows = [o \in DOMAIN rows |-> rows[o]]
    BY <2>1, <2>3
  <2> QED BY <2>2, <2>3, <2>4
<1> QED BY <1>1, <1>2 DEF Readable

LEMMA WholeReadable ==
  ASSUME NEW d, NEW c, NEW p, FileWhole(d, c, p), NEW n \in DOMAIN p
  PROVE  Readable(p[n])
<1>1. PICK i \in DOMAIN c : n \in OwnedIn(p, c[i].name)
  BY DEF FileWhole, ChainsRight, OwnedIn
<1>2. DOMAIN p[n].rows = RowOffsets(p[n], c[i].schema)
  BY <1>1 DEF FileWhole, RowsRight, RelationFits, RowsFit
<1>3. IsPage(p[n]) /\ IsRecord(p[n])
  BY DEF FileWhole, TypesRight
<1> QED BY <1>2, <1>3, PageReadable

\* A write to the cells of page n leaves page 1
LEMMA PageOneSame ==
  ASSUME NEW f, NEW d, NEW c, NEW p, NEW q, NEW x, NEW v, NEW n, NEW o,
         Holds(f, d, c, p), OnPage(x, n, o), HasPages(Put(f, x, v), q)
  PROVE  Holds(Put(f, x, v), d, c, q)
<1>1. PICK g : g = Put(f, x, v)
  OBVIOUS
<1>2. x # <<"database">> /\ \A i : x # <<"slot", i>>
  BY DEF OnPage
<1>3. SameCell(f, g, <<"database">>) /\ \A i : SameCell(f, g, <<"slot", i>>)
  BY <1>1, <1>2, PutElsewhere
<1>4. DatabaseOf(g) = d
  BY <1>3 DEF SameCell, DatabaseOf, Holds
<1>5. HasSlots(g, c)
  BY <1>3 DEF SameCell, HasSlots, Holds
<1> QED BY <1>1, <1>4, <1>5 DEF Holds

\* A write of the header of a page
LEMMA HeaderWrite ==
  ASSUME NEW f, NEW d, NEW c, NEW p, NEW n \in PageNo, NEW page,
         Holds(f, d, c, p), Readable(page), ColumnsIn(f, n) = page.columns,
         HasRows(f, n, page.rows), RowCellsOf(f, n, page)
  PROVE  Holds(Put(f, <<"page", n>>, HeaderOf(page)), d, c, Put(p, n, page))
<1>1. PICK x : x = <<"page", n>>
  OBVIOUS
<1>2. PICK v : v = HeaderOf(page)
  OBVIOUS
<1>3. PICK g : g = Put(f, x, v)
  OBVIOUS
<1>4. OnPage(x, n, 0)
  BY <1>1 DEF OnPage
<1>5. \A m : m = n \/ SamePage(f, g, m)
  BY <1>3, <1>4, PutOnOther
<1>6. <<"page", n>> \in DOMAIN g /\ g[<<"page", n>>] = v
  BY <1>1, <1>3 DEF Put
<1>7. SameCell(f, g, <<"columns", n>>)
  BY <1>1, <1>3, PutElsewhere
<1>8. \A o : SameCell(f, g, <<"row", n, o>>) /\ SameCell(f, g, <<"data", n, o>>)
  <2>1. \A o : x # <<"row", n, o>> /\ x # <<"data", n, o>>
    BY <1>1
  <2> QED BY <1>3, <2>1, PutElsewhere
<1>9. HasPage(g, n, page)
  <2>1. ColumnsIn(g, n) = page.columns
    BY <1>7 DEF ColumnsIn, SameCell
  <2>2. HasRows(g, n, page.rows)
    BY <1>8 DEF HasRows, SameCell
  <2> QED BY <1>2, <1>6, <2>1, <2>2 DEF HasPage
<1>10. RowCellsOf(g, n, page)
  BY <1>8 DEF RowCellsOf, SameCell
<1>11. HasPages(g, Put(p, n, page))
  BY <1>5, <1>6, <1>9, <1>10, OnePageHeld DEF Holds
<1>12. Holds(g, d, c, Put(p, n, page))
  BY <1>3, <1>4, <1>11, PageOneSame
<1> QED BY <1>1, <1>2, <1>3, <1>12

\* A page that the cells hold
HeldAs(f, n, page) ==
  /\ n \in PageNo /\ <<"page", n>> \in DOMAIN f
  /\ HasPage(f, n, page) /\ RowCellsOf(f, n, page)
  /\ Readable(page) /\ ColumnsIn(f, n) = page.columns /\ HasRows(f, n, page.rows)

LEMMA HeldPage ==
  ASSUME NEW f, NEW d, NEW c, NEW p, NEW n, Holds(f, d, c, p), n \in DOMAIN p
  PROVE  HeldAs(f, n, p[n])
<1>1. n \in PageNo /\ <<"page", n>> \in DOMAIN f
  BY DEF Holds, HasPages
<1>2. HasPage(f, n, p[n])
  BY DEF Holds, HasPages
<1>3. RowCellsOf(f, n, p[n])
  BY <1>1 DEF Holds, HasPages, RowCellsKnown, RowCellsOf
<1> QED BY <1>1, <1>2, <1>3 DEF HasPage, HeldAs

\* A write of the link of a page
LEMMA LinkWrite ==
  ASSUME NEW f, NEW d, NEW c, NEW p, NEW n, NEW m, NEW page,
         Holds(f, d, c, p), n \in DOMAIN p, page = [p[n] EXCEPT !.next_page_number = m]
  PROVE  Holds(Put(f, <<"page", n>>, [HeaderOf(p[n]) EXCEPT !.next_page_number = m]),
               d, c, Put(p, n, page))
<1>1. PICK old : old = p[n]
  OBVIOUS
<1>2. /\ n \in PageNo /\ RowCellsOf(f, n, old) /\ Readable(old)
      /\ ColumnsIn(f, n) = old.columns /\ HasRows(f, n, old.rows)
  <2>1. HeldAs(f, n, p[n])
    BY HeldPage
  <2> QED BY <1>1, <2>1 DEF HeldAs
<1>3. IsRecord(old)
  BY <1>2 DEF Readable
<1>4. page = [old EXCEPT !.next_page_number = m]
  BY <1>1
<1>5. IsRecord(page) /\ Linked(old, page)
  BY <1>3, <1>4, LinkedPageFits
<1>6. /\ page.page_number = old.page_number /\ page.remaining_space = old.remaining_space
      /\ page.next_page_number = m
  BY <1>3, <1>4 DEF IsRecord
<1>7. page.rows = old.rows /\ page.write_ptr = old.write_ptr /\ page.columns = old.columns
      /\ page.relation_name = old.relation_name
  BY <1>5 DEF Linked
<1>8. Readable(page)
  BY <1>2, <1>5, <1>7 DEF Readable
<1>9. RowCellsOf(f, n, page)
  BY <1>2, <1>7 DEF RowCellsOf
<1>10. HeaderOf(page) = [HeaderOf(old) EXCEPT !.next_page_number = m]
  BY <1>6, <1>7 DEF HeaderOf
<1>11. Holds(Put(f, <<"page", n>>, HeaderOf(page)), d, c, Put(p, n, page))
  BY <1>2, <1>7, <1>8, <1>9, HeaderWrite
<1> QED BY <1>1, <1>10, <1>11

\* A write of the header of a new page, which as yet has the columns that happen to be there
LEMMA NewHeaderWrite ==
  ASSUME NEW f, NEW d, NEW c, NEW p, NEW n \in PageNo, NEW page,
         Holds(f, d, c, p), n \notin DOMAIN p, Readable(page),
         page.columns = ColumnsIn(f, n), page.rows = EmptyMap
  PROVE  Holds(Put(f, <<"page", n>>, HeaderOf(page)), d, c, Put(p, n, page))
<1>1. DOMAIN page.rows = {}
  BY DEF EmptyMap
<1>2. HasRows(f, n, page.rows)
  BY <1>1 DEF HasRows
<1>3. RowCellsOf(f, n, page)
  BY DEF RowCellsOf, Holds, HasPages, RowCellsKnown
<1> QED BY <1>2, <1>3, HeaderWrite

\* A write of the columns of a page
LEMMA ColumnsWrite ==
  ASSUME NEW f, NEW d, NEW c, NEW p, NEW n, NEW columns, NEW page,
         Holds(f, d, c, p), n \in DOMAIN p, page = [p[n] EXCEPT !.columns = columns]
  PROVE  Holds(Put(f, <<"columns", n>>, columns), d, c, Put(p, n, page))
<1>1. PICK old : old = p[n]
  OBVIOUS
<1>2. /\ n \in PageNo /\ RowCellsOf(f, n, old) /\ Readable(old) /\ HasPage(f, n, old)
      /\ <<"page", n>> \in DOMAIN f /\ HasRows(f, n, old.rows)
  <2>1. HeldAs(f, n, p[n])
    BY HeldPage
  <2> QED BY <1>1, <2>1 DEF HeldAs
<1>3. PICK x : x = <<"columns", n>>
  OBVIOUS
<1>4. PICK g : g = Put(f, x, columns)
  OBVIOUS
<1>5. OnPage(x, n, 0)
  BY <1>3 DEF OnPage
<1>6. \A m : m = n \/ SamePage(f, g, m)
  BY <1>4, <1>5, PutOnOther
<1>7. SameCell(f, g, <<"page", n>>)
  BY <1>3, <1>4, PutElsewhere
<1>8. \A o : SameCell(f, g, <<"row", n, o>>) /\ SameCell(f, g, <<"data", n, o>>)
  <2>1. \A o : x # <<"row", n, o>> /\ x # <<"data", n, o>>
    BY <1>3
  <2> QED BY <1>4, <2>1, PutElsewhere
<1>9. IsRecord(old)
  BY <1>2 DEF Readable
<1>10. page = [old EXCEPT !.columns = columns]
  BY <1>1
<1>11. /\ page.page_number = old.page_number /\ page.relation_name = old.relation_name
       /\ page.write_ptr = old.write_ptr /\ page.remaining_space = old.remaining_space
       /\ page.next_page_number = old.next_page_number
       /\ page.columns = columns /\ page.rows = old.rows /\ IsRecord(page)
  BY <1>9, <1>10 DEF IsRecord
<1>12. HeaderOf(page) = HeaderOf(old)
  BY <1>11 DEF HeaderOf
<1>13. Readable(page)
  BY <1>2, <1>11 DEF Readable
<1>14. HasPage(g, n, page)
  <2>1. <<"columns", n>> \in DOMAIN g /\ g[<<"columns", n>>] = columns
    BY <1>3, <1>4 DEF Put
  <2>2. ColumnsIn(g, n) = page.columns
    BY <1>11, <2>1 DEF ColumnsIn
  <2>3. g[<<"page", n>>] = HeaderOf(page)
    BY <1>2, <1>7, <1>12 DEF SameCell, HasPage
  <2>4. HasRows(g, n, page.rows)
    BY <1>2, <1>8, <1>11 DEF HasRows, SameCell
  <2> QED BY <1>13, <2>2, <2>3, <2>4 DEF HasPage
<1>15. RowCellsOf(g, n, page)
  BY <1>2, <1>8, <1>11 DEF RowCellsOf, SameCell
<1>16. <<"page", n>> \in DOMAIN g
  BY <1>2, <1>7 DEF SameCell
<1>17. HasPages(g, Put(p, n, page))
  BY <1>2, <1>6, <1>14, <1>15, <1>16, OnePageHeld DEF Holds
<1>18. Holds(g, d, c, Put(p, n, page))
  BY <1>4, <1>5, <1>17, PageOneSame
<1> QED BY <1>3, <1>4, <1>18

\* A write of the row behind those that the page counts
BehindRows(x, n, o) == x \in {<<"row", n, o>>, <<"data", n, o>>}

LEMMA BehindWrite ==
  ASSUME NEW f, NEW d, NEW c, NEW p, NEW x, NEW v, NEW n,
         Holds(f, d, c, p), n \in DOMAIN p, BehindRows(x, n, p[n].write_ptr)
  PROVE  Holds(Put(f, x, v), d, c, p)
<1>1. PICK page : page = p[n]
  OBVIOUS
<1>2. /\ n \in PageNo /\ RowCellsOf(f, n, page) /\ Readable(page) /\ HasPage(f, n, page)
      /\ <<"page", n>> \in DOMAIN f /\ HasRows(f, n, page.rows)
  <2>1. HeldAs(f, n, p[n])
    BY HeldPage
  <2> QED BY <1>1, <2>1 DEF HeldAs
<1>3. PICK w : w = page.write_ptr
  OBVIOUS
<1>4. PICK g : g = Put(f, x, v)
  OBVIOUS
<1>5. x \in {<<"row", n, w>>, <<"data", n, w>>}
  BY <1>1, <1>3 DEF BehindRows
<1>6. OnPage(x, n, w)
  BY <1>5 DEF OnPage
<1>7. \A m : m = n \/ SamePage(f, g, m)
  BY <1>4, <1>6, PutOnOther
<1>8. SameCell(f, g, <<"page", n>>) /\ SameCell(f, g, <<"columns", n>>)
  <2>1. x # <<"page", n>> /\ x # <<"columns", n>>
    BY <1>5
  <2> QED BY <1>4, <2>1, PutElsewhere
<1>9. \A o : o = w \/ (SameCell(f, g, <<"row", n, o>>) /\ SameCell(f, g, <<"data", n, o>>))
  <2>1. \A o : o = w \/ (x # <<"row", n, o>> /\ x # <<"data", n, o>>)
    BY <1>5
  <2> QED BY <1>4, <2>1, PutElsewhere
<1>10. w \notin DOMAIN page.rows /\ w \in 0 .. PageSize
  BY <1>2, <1>3, SizesAssumption DEF Readable
<1>11. HasPage(g, n, page)
  <2>1. ColumnsIn(g, n) = page.columns
    BY <1>2, <1>8 DEF ColumnsIn, SameCell, HasPage
  <2>2. g[<<"page", n>>] = HeaderOf(page)
    BY <1>2, <1>8 DEF SameCell, HasPage
  <2>3. HasRows(g, n, page.rows)
    BY <1>2, <1>9, <1>10 DEF HasRows, SameCell
  <2> QED BY <1>2, <2>1, <2>2, <2>3 DEF HasPage
<1>12. RowCellsOf(g, n, page)
  <2> SUFFICES ASSUME NEW o \in 0 .. PageSize, o # w,
                      <<"row", n, o>> \in DOMAIN g \/ <<"data", n, o>> \in DOMAIN g
               PROVE  o \in DOMAIN page.rows \cup {page.write_ptr}
    BY <1>3 DEF RowCellsOf
  <2>1. <<"row", n, o>> \in DOMAIN f \/ <<"data", n, o>> \in DOMAIN f
    BY <1>9 DEF SameCell
  <2> QED BY <1>2, <2>1 DEF RowCellsOf
<1>13. <<"page", n>> \in DOMAIN g
  BY <1>2, <1>8 DEF SameCell
<1>14. HasPages(g, Put(p, n, page))
  BY <1>2, <1>7, <1>11, <1>12, <1>13, OnePageHeld DEF Holds
<1>15. Put(p, n, page) = p
  <2>1. p = [m \in DOMAIN p |-> p[m]]
    BY DEF Holds, HasPages
  <2>2. PICK q : q = Put(p, n, page)
    OBVIOUS
  <2>3. DOMAIN q = DOMAIN p /\ q = [m \in DOMAIN q |-> q[m]] /\ \A m \in DOMAIN p : q[m] = p[m]
    BY <1>1, <2>2 DEF Put
  <2> QED BY <2>1, <2>2, <2>3
<1>16. HasPages(g, p)
  BY <1>14, <1>15
<1> QED BY <1>4, <1>6, <1>16, PageOneSame

\* A write of a header that counts the row behind
LEMMA RowHeaderWrite ==
  ASSUME NEW f, NEW d, NEW c, NEW p, NEW n, NEW data, NEW page,
         Holds(f, d, c, p), n \in DOMAIN p,
         <<"row", n, p[n].write_ptr>> \in DOMAIN f, f[<<"row", n, p[n].write_ptr>>] = TRUE,
         <<"data", n, p[n].write_ptr>> \in DOMAIN f, f[<<"data", n, p[n].write_ptr>>] = data,
         Readable(page), RowAdded(p[n], page, data)
  PROVE  Holds(Put(f, <<"page", n>>, HeaderOf(page)), d, c, Put(p, n, page))
<1>1. PICK old : old = p[n]
  OBVIOUS
<1>2. PICK w : w = old.write_ptr
  OBVIOUS
<1>3. /\ n \in PageNo /\ RowCellsOf(f, n, old) /\ Readable(old)
      /\ HasRows(f, n, old.rows) /\ ColumnsIn(f, n) = old.columns
  <2>1. HeldAs(f, n, p[n])
    BY HeldPage
  <2> QED BY <1>1, <2>1 DEF HeldAs
<1>4. /\ page.columns = old.columns /\ DOMAIN page.rows = DOMAIN old.rows \cup {w}
      /\ page.rows[w] = [is_available |-> TRUE, data |-> data]
      /\ \A o \in DOMAIN old.rows : page.rows[o] = old.rows[o]
  BY <1>1, <1>2 DEF RowAdded
<1>5. /\ <<"row", n, w>> \in DOMAIN f /\ f[<<"row", n, w>>] = TRUE
      /\ <<"data", n, w>> \in DOMAIN f /\ f[<<"data", n, w>>] = data
  BY <1>1, <1>2
<1>6. HasRows(f, n, page.rows)
  <2>1. \A o \in DOMAIN page.rows : o = w \/ (o \in DOMAIN old.rows /\ page.rows[o] = old.rows[o])
    BY <1>4
  <2>2. page.rows[w].is_available = TRUE /\ page.rows[w].data = data
    BY <1>4
  <2>3. ASSUME NEW o \in DOMAIN page.rows
        PROVE  /\ <<"row", n, o>> \in DOMAIN f /\ f[<<"row", n, o>>] = page.rows[o].is_available
               /\ <<"data", n, o>> \in DOMAIN f /\ f[<<"data", n, o>>] = page.rows[o].data
    <3>1. CASE o = w
      BY <1>5, <2>2, <3>1
    <3>2. CASE o \in DOMAIN old.rows /\ page.rows[o] = old.rows[o]
      BY <1>3, <3>2 DEF HasRows
    <3> QED BY <2>1, <2>3, <3>1, <3>2
  <2> QED BY <2>3 DEF HasRows
<1>7. RowCellsOf(f, n, page)
  BY <1>2, <1>3, <1>4 DEF RowCellsOf
<1> QED BY <1>3, <1>4, <1>6, <1>7, HeaderWrite

\* Rows overwritten
LEMMA RowsWrite ==
  ASSUME NEW f, NEW g, NEW d, NEW c, NEW p, NEW q, Holds(f, d, c, p),
         DOMAIN g = DOMAIN f,
         SameCell(f, g, <<"database">>), \A i : SameCell(f, g, <<"slot", i>>),
         \A n : SameCell(f, g, <<"page", n>>) /\ SameCell(f, g, <<"columns", n>>),
         q = [n \in DOMAIN p |-> q[n]],
         \A n \in DOMAIN p :
           /\ Readable(q[n]) /\ HeaderOf(q[n]) = HeaderOf(p[n]) /\ q[n].columns = p[n].columns
           /\ q[n].write_ptr = p[n].write_ptr
           /\ DOMAIN q[n].rows = DOMAIN p[n].rows /\ HasRows(g, n, q[n].rows)
  PROVE  Holds(g, d, c, q)
<1>1. DOMAIN q = DOMAIN p
  OBVIOUS
<1>2. \A n \in DOMAIN q : HasPage(g, n, q[n])
  <2> SUFFICES ASSUME NEW n \in DOMAIN p PROVE HasPage(g, n, q[n])
    BY <1>1
  <2>1. HasPage(f, n, p[n]) /\ <<"page", n>> \in DOMAIN f
    BY DEF Holds, HasPages
  <2>2. ColumnsIn(g, n) = ColumnsIn(f, n) /\ g[<<"page", n>>] = f[<<"page", n>>]
    BY <2>1 DEF ColumnsIn, SameCell
  <2> QED BY <2>1, <2>2 DEF HasPage
<1>3. RowCellsKnown(g, q)
  BY <1>1 DEF Holds, HasPages, RowCellsKnown
<1>4. HasPages(g, q)
  BY <1>1, <1>2, <1>3 DEF Holds, HasPages
<1>5. DatabaseOf(g) = d
  BY DEF DatabaseOf, Holds, SameCell
<1>6. HasSlots(g, c)
  BY DEF HasSlots, Holds, SameCell
<1> QED BY <1>4, <1>5, <1>6 DEF Holds


-----------------------------------------------------------------------------
(* Files that are whole, or whole but for one relation *)

\* Pages that differ from those of a whole file in their rows and their space
LEMMA PagesReplaced ==
  ASSUME NEW d, NEW c, NEW p, NEW q, FileWhole(d, c, p), DOMAIN q = DOMAIN p,
         \A n \in DOMAIN p :
           /\ IsPage(q[n]) /\ IsRecord(q[n])
           /\ q[n].page_number = p[n].page_number
           /\ q[n].relation_name = p[n].relation_name
           /\ q[n].next_page_number = p[n].next_page_number
           /\ \A i \in DOMAIN c : n \in OwnedIn(p, c[i].name) =>
                PageFilled(q[n], c[i].schema) /\ RowsFit(q[n], c[i].schema)
  PROVE  FileWhole(d, c, q)
<1>1. \A name : OwnedIn(q, name) = OwnedIn(p, name)
  BY DEF OwnedIn
<1>2. TypesRight(d, c, q)
  BY DEF FileWhole, TypesRight
<1>3. ChainsRight(d, c, q)
  <2>1. ASSUME NEW i \in DOMAIN c, NEW n \in OwnedIn(q, c[i].name)
        PROVE  OnChain(q, n, c[i])
    <3>1. OnChain(p, n, c[i]) /\ n \in DOMAIN p
      BY <1>1, <2>1 DEF FileWhole, ChainsRight, OwnedIn
    <3>2. \A m \in DOMAIN p : /\ q[m].next_page_number = p[m].next_page_number
                              /\ q[m].relation_name = p[m].relation_name
      OBVIOUS
    <3> QED BY <3>1, <3>2 DEF OnChain
  <2>2. DOMAIN q = 2 .. d.page_count
    BY DEF FileWhole, ChainsRight
  <2>3. \A n \in DOMAIN q : /\ q[n].page_number = n
                            /\ \E i \in DOMAIN c : c[i].name = q[n].relation_name
    BY DEF FileWhole, ChainsRight
  <2>4. \A i \in DOMAIN c :
          {c[i].page_number_first, c[i].page_number_last} \subseteq OwnedIn(q, c[i].name)
    BY <1>1 DEF FileWhole, ChainsRight
  <2>5. \A m, n \in DOMAIN q :
          q[m].next_page_number = q[n].next_page_number => m = n \/ q[m].next_page_number = 0
    BY DEF FileWhole, ChainsRight
  <2> QED BY <2>1, <2>2, <2>3, <2>4, <2>5 DEF ChainsRight
<1>4. SpaceRight(c, q)
  BY <1>1 DEF SpaceRight, OwnedIn
<1>5. RowsRight(c, q)
  <2>1. ASSUME NEW i \in DOMAIN c PROVE RelationFits(q, c[i])
    <3>1. c[i].page_count = Cardinality(OwnedIn(q, c[i].name))
      BY <1>1 DEF FileWhole, RowsRight, RelationFits
    <3>2. \A n \in OwnedIn(q, c[i].name) : RowsFit(q[n], c[i].schema)
      BY <1>1 DEF OwnedIn
    <3> QED BY <3>1, <3>2 DEF RelationFits
  <2> QED BY <2>1 DEF RowsRight
<1> QED BY <1>2, <1>3, <1>4, <1>5 DEF FileWhole

\* From pages p to pages q only pages of the relation change or come
TouchesOnly(p, q, name) ==
  /\ \A n \in DOMAIN p :
       /\ n \in DOMAIN q /\ q[n].relation_name = p[n].relation_name
       /\ p[n].relation_name = name \/ q[n] = p[n]
       /\ p[n].next_page_number = 0 \/ q[n].next_page_number = p[n].next_page_number
  /\ \A n \in DOMAIN q : n \in DOMAIN p \/ q[n].relation_name = name

LEMMA OthersWhole ==
  ASSUME NEW d, NEW c, NEW p, NEW q, NEW name, FileWhole(d, c, p), TouchesOnly(p, q, name),
         NEW i \in DOMAIN c, c[i].name # name
  PROVE  WholeIn(q, c[i])
<1>1. PICK h : h = c[i]
  OBVIOUS
<1>2. PICK owned : owned = OwnedIn(p, h.name)
  OBVIOUS
<1>3. OwnedIn(q, h.name) = owned /\ \A n \in owned : n \in DOMAIN p /\ q[n] = p[n]
  BY <1>1, <1>2 DEF OwnedIn, TouchesOnly
<1>4. /\ {h.page_number_first, h.page_number_last} \subseteq owned
      /\ h.page_count = Cardinality(owned)
      /\ \A n \in owned : /\ OnChain(p, n, h) /\ PageFilled(p[n], h.schema)
                          /\ DOMAIN p[n].rows = RowOffsets(p[n], h.schema)
  BY <1>1, <1>2, WholeRelations DEF WholeIn
<1>5. ASSUME NEW n \in owned PROVE OnChain(q, n, h)
  <2>1. OnChain(p, n, h) /\ q[n] = p[n] /\ n \in DOMAIN p
    BY <1>3, <1>4
  <2>2. PICK link : link = p[n].next_page_number
    OBVIOUS
  <2>3. n \in PageNo /\ n # 0
    BY <2>1 DEF FileWhole, TypesRight, PageNo
  <2>4. /\ h.page_number_first <= n /\ n <= h.page_number_last
        /\ link = 0 <=> n = h.page_number_last
        /\ link # 0 => link \in DOMAIN p /\ n < link /\ p[link].relation_name = h.name
        /\ n # h.page_number_first => \E m \in DOMAIN p : m < n /\ p[m].next_page_number = n
    BY <2>1, <2>2 DEF OnChain
  <2>5. link # 0 => link \in DOMAIN q /\ q[link].relation_name = h.name
    BY <2>4 DEF TouchesOnly
  <2>6. n # h.page_number_first => \E m \in DOMAIN q : m < n /\ q[m].next_page_number = n
    BY <2>3, <2>4 DEF TouchesOnly
  <2> QED BY <2>1, <2>2, <2>4, <2>5, <2>6 DEF OnChain
<1> QED BY <1>1, <1>3, <1>4, <1>5 DEF WholeIn

\* All relations but that of slot k are whole
LEMMA ConfinedTo ==
  ASSUME NEW b, NEW q, NEW k, \A i \in DOMAIN b : b[i].real_number = i,
         \A i \in DOMAIN b : i = k \/ WholeIn(q, b[i])
  PROVE  Confined(b, q)
BY DEF Confined

\* The rows are still those of pages p
RowsAsIn(p, q) ==
  \A n \in PageNo :
    IF n \in DOMAIN p THEN n \in DOMAIN q /\ q[n].rows = p[n].rows
                      ELSE n \notin DOMAIN q \/ DOMAIN q[n].rows = {}

LEMMA RowsAsBefore ==
  ASSUME NEW p, NEW q, NEW a, RowsAsIn(p, q)
  PROVE  OneOf(q, p, a)
<1>1. ASSUME NEW n \in PageNo, NEW o \in 0 .. PageSize PROVE Row_(q, n, o) = Row_(p, n, o)
  BY DEF RowsAsIn, Row_
<1> QED BY <1>1 DEF OneOf

LEMMA RowsAsAfter ==
  ASSUME NEW p, NEW a
  PROVE  OneOf(a, p, a)
BY DEF OneOf

-----------------------------------------------------------------------------
(* Sequences of writes *)

LEMMA AreWrites ==
  ASSUME NEW s, NEW n \in Nat, s = [i \in 1 .. n |-> s[i]]
  PROVE  IsWrites(s) /\ Len(s) = n /\ DOMAIN s = 1 .. n
<1>1. PICK R : R = {s[i] : i \in 1 .. n}
  OBVIOUS
<1>2. DOMAIN s = 1 .. n
  OBVIOUS
<1>3. s \in [1 .. n -> R]
  BY <1>1
<1>4. s \in Seq(R)
  BY <1>3
<1>5. R = {s[i] : i \in DOMAIN s}
  BY <1>1, <1>2
<1>6. Len(s) = n
  BY <1>2, <1>4
<1> QED BY <1>2, <1>4, <1>5, <1>6 DEF IsWrites

\* Two sequences of writes, one behind the other
JoinIs(s, t, u) ==
  /\ IsWrites(u) /\ Len(u) = Len(s) + Len(t)
  /\ \A i \in 1 .. Len(s) : u[i] = s[i]
  /\ \A j \in 1 .. Len(t) : u[Len(s) + j] = t[j]

LEMMA Joined ==
  ASSUME NEW s, NEW t, IsWrites(s), IsWrites(t)
  PROVE  JoinIs(s, t, s \o t)
<1>1. PICK n \in Nat : n = Len(s) /\ DOMAIN s = 1 .. n
  BY DEF IsWrites
<1>2. PICK m \in Nat : m = Len(t) /\ DOMAIN t = 1 .. m
  BY DEF IsWrites
<1>3. PICK u : u = s \o t
  OBVIOUS
<1>4. u = [i \in 1 .. n + m |-> IF i <= n THEN s[i] ELSE t[i - n]]
  <2>1. PICK R : R = {s[i] : i \in 1 .. n} \cup {t[i] : i \in 1 .. m}
    OBVIOUS
  <2>2. s \in [1 .. n -> R] /\ t \in [1 .. m -> R]
    BY <1>1, <1>2, <2>1 DEF IsWrites
  <2>3. s \in Seq(R) /\ t \in Seq(R)
    BY <2>2
  <2>4. DOMAIN u = 1 .. n + m /\ Len(u) = n + m /\ u \in Seq(R)
    BY <1>1, <1>2, <1>3, <2>3
  <2>5. u = [i \in 1 .. n + m |-> u[i]]
    BY <2>4
  <2>6. \A i \in 1 .. n + m : u[i] = IF i <= n THEN s[i] ELSE t[i - n]
    BY <1>1, <1>2, <1>3, <2>3
  <2> QED BY <2>5, <2>6
<1>5. u = [i \in 1 .. n + m |-> u[i]]
  BY <1>4
<1>6. n + m \in Nat
  OBVIOUS
<1>7. IsWrites(u) /\ Len(u) = n + m
  BY <1>5, <1>6, AreWrites
<1>8. \A i \in 1 .. n : u[i] = s[i]
  BY <1>4
<1>9. \A j \in 1 .. m : u[n + j] = t[j]
  <2> SUFFICES ASSUME NEW j \in 1 .. m PROVE u[n + j] = t[j]
    OBVIOUS
  <2>1. n + j \in 1 .. n + m /\ ~(n + j <= n) /\ n + j - n = j
    OBVIOUS
  <2> QED BY <1>4, <2>1
<1> QED BY <1>1, <1>2, <1>3, <1>7, <1>8, <1>9 DEF JoinIs

LEMMA OneWrite ==
  ASSUME NEW e, NEW s, s = <<e>>
  PROVE  IsWrites(s) /\ Len(s) = 1 /\ s[1] = e
<1>1. s = [i \in 1 .. 1 |-> s[i]]
  OBVIOUS
<1> QED BY <1>1, AreWrites

TwoWrites(s, a, b) == IsWrites(s) /\ Len(s) = 2 /\ s[1] = a /\ s[2] = b

ThreeWrites(s, a, b, c) ==
  IsWrites(s) /\ Len(s) = 3 /\ s[1] = a /\ s[2] = b /\ s[3] = c

LEMMA AreTwo ==
  ASSUME NEW a, NEW b
  PROVE  TwoWrites(<<a>> \o <<b>>, a, b)
<1>1. PICK s : s = <<a>>
  OBVIOUS
<1>2. PICK t : t = <<b>>
  OBVIOUS
<1>3. PICK u : u = s \o t
  OBVIOUS
<1>4. IsWrites(s) /\ Len(s) = 1 /\ s[1] = a /\ IsWrites(t) /\ Len(t) = 1 /\ t[1] = b
  BY <1>1, <1>2, OneWrite
<1>5. JoinIs(s, t, u)
  BY <1>3, <1>4, Joined
<1>6. IsWrites(u) /\ Len(u) = 2 /\ u[1] = s[1] /\ u[1 + 1] = t[1]
  BY <1>4, <1>5 DEF JoinIs
<1>7. TwoWrites(u, a, b)
  BY <1>4, <1>6 DEF TwoWrites
<1> QED BY <1>1, <1>2, <1>3, <1>7

LEMMA AreThree ==
  ASSUME NEW a, NEW b, NEW c
  PROVE  ThreeWrites(<<a>> \o <<b>> \o <<c>>, a, b, c)
<1>1. PICK s : s = <<a>> \o <<b>>
  OBVIOUS
<1>2. PICK t : t = <<c>>
  OBVIOUS
<1>3. PICK u : u = s \o t
  OBVIOUS
<1>4. TwoWrites(s, a, b) /\ IsWrites(t) /\ Len(t) = 1 /\ t[1] = c
  BY <1>1, <1>2, AreTwo, OneWrite
<1>5. JoinIs(s, t, u)
  BY <1>3, <1>4, Joined DEF TwoWrites
<1>6. IsWrites(u) /\ Len(u) = 3 /\ u[1] = a /\ u[2] = b /\ u[2 + 1] = c
  BY <1>4, <1>5 DEF JoinIs, TwoWrites
<1>7. ThreeWrites(u, a, b, c)
  BY <1>6 DEF ThreeWrites
<1> QED BY <1>1, <1>2, <1>3, <1>7

\* A file to which one write after the other is applied
OneMoreIs(f, s, j) == Written(f, s, j) = Put(Written(f, s, j - 1), s[j].cell, s[j].value)

OneByOneIs(f, s) == Written(f, s, 0) = f /\ \A j \in 1 .. Len(s) : OneMoreIs(f, s, j)

LEMMA OneByOne ==
  ASSUME NEW f, NEW s, IsFile(f), IsWrites(s)
  PROVE  OneByOneIs(f, s)
<1>1. Written(f, s, 0) = f
  BY WrittenNone
<1>2. ASSUME NEW j \in 1 .. Len(s) PROVE OneMoreIs(f, s, j)
  <2>1. Len(s) \in Nat
    BY DEF IsWrites
  <2>2. PICK k \in Nat : k = j - 1
    BY <1>2, <2>1
  <2>3. k < Len(s) /\ k + 1 = j
    BY <1>2, <2>1, <2>2
  <2>4. Written(f, s, k + 1) = Put(Written(f, s, k), s[k + 1].cell, s[k + 1].value)
    BY <2>3, WrittenNext
  <2> QED BY <2>2, <2>3, <2>4 DEF OneMoreIs
<1> QED BY <1>1, <1>2 DEF OneByOneIs


-----------------------------------------------------------------------------
(* What a kill leaves of an operation *)

\* A file with all but m writes of an operation: the database header, the catalog and
\* the pages in it are whole, or all but one relation is when m is one of t, and
\* every row is one of pages b or p.
Left(f, m, t, b, p) ==
  \E d, c, q : /\ Holds(f, d, c, q) /\ OneOf(q, b, p)
               /\ IF m \in t THEN Confined(c, q) ELSE FileWhole(d, c, q) /\ RealRight(f, d)

\* The file f and any number of the writes of s
Pending(f, s, t, b, p) ==
  \A k \in 0 .. Len(s) : Left(Written(f, s, k), Len(s) - k, t, b, p)

\* The file f with all of them
Done(f, s, d, c, p) ==
  LET g == Written(f, s, Len(s)) IN Holds(g, d, c, p) /\ RealRight(g, d)

\* The state is in the file f
InFile(f) ==
  /\ IsFile(f)
  /\ Holds(f, disk, catalog, pages) /\ RealRight(f, disk)

\* The writes of s lead from the state to the next one
Carries(f, s, t) == 
  /\ IsWrites(s) /\ Pending(f, s, t, pages, pages') /\ Done(f, s, disk', catalog', pages')

LEMMA LeftWhole ==
  ASSUME NEW f, NEW m, NEW t, NEW b, NEW p, NEW d, NEW c, NEW q,
         Holds(f, d, c, q), OneOf(q, b, p), FileWhole(d, c, q), RealRight(f, d)
  PROVE  Left(f, m, t, b, p)
BY WholeIsConfined DEF Left

LEMMA LeftTorn ==
  ASSUME NEW f, NEW m, NEW t, NEW b, NEW p, NEW d, NEW c, NEW q,
         Holds(f, d, c, q), OneOf(q, b, p), Confined(c, q), m \in t
  PROVE  Left(f, m, t, b, p)
BY DEF Left

\* RealRight where something else is written
LEMMA RealKept ==
  ASSUME NEW f, NEW x, NEW v, NEW d, RealRight(f, d), x # <<"real">>
  PROVE  RealRight(Put(f, x, v), d)
<1>1. SameCell(f, Put(f, x, v), <<"real">>)
  BY PutElsewhere
<1> QED BY <1>1 DEF SameCell, RealRight

-----------------------------------------------------------------------------
(* relation_create *)

CreateWrites(s, l, n, header, e, page) ==
  /\ IsWrites(s) /\ Len(s) = 6
  /\ s[1] = AfterSeek(<<"slot", l + 1>>, header)
  /\ s[2] = AfterSeek(<<"real">>, l + 1)
  /\ s[3] = AfterSeek(<<"database">>, e)
  /\ s[4] = AfterSeek(<<"page", n>>, HeaderOf(page))
  /\ s[5] = AfterSeek(<<"size", n>>, Cardinality(page.columns))
  /\ s[6] = AfterSeek(<<"columns", n>>, page.columns)

LEMMA CreateHasWrites ==
  ASSUME NEW f, NEW r, NEW schema,
         NEW l, l = f[<<"real">>], NEW n, n = mem.page_count + 1,
         NEW header, header = [page_add(NewHeader(r, schema), n) EXCEPT !.real_number = mem.relation_count + 1],
         NEW e, e = [relation_count |-> mem.relation_count + 1, page_count |-> n],
         NEW page, page = columns_write(page_create(n, r), schema.columns), page.page_number = n
  PROVE  CreateWrites(relation_create_writes(f, r, schema), l, n, header, e, page)
<1>1. PICK a : a = page_header_write_real(f, header)
  OBVIOUS
<1>2. TwoWrites(a, AfterSeek(<<"slot", l + 1>>, header), AfterSeek(<<"real">>, l + 1))
  BY <1>1, AreTwo DEF page_header_write_real, Write
<1>3. PICK b : b = database_header_save_changes(e)
  OBVIOUS
<1>4. b = <<AfterSeek(<<"database">>, e)>>
  BY <1>3 DEF database_header_save_changes, Write
<1>5. IsWrites(b) /\ Len(b) = 1 /\ b[1] = AfterSeek(<<"database">>, e)
  BY <1>4, OneWrite
<1>6. PICK c : c = relation_page_write(page)
  OBVIOUS
<1>7. ThreeWrites(c, AfterSeek(<<"page", n>>, HeaderOf(page)),
                  AfterSeek(<<"size", n>>, Cardinality(page.columns)),
                  AfterSeek(<<"columns", n>>, page.columns))
  BY <1>6, AreThree DEF relation_page_write, Write
<1>8. PICK ab : ab = a \o b
  OBVIOUS
<1>9. JoinIs(a, b, ab)
  BY <1>2, <1>5, <1>8, Joined DEF TwoWrites
<1>10. IsWrites(ab) /\ Len(ab) = 3 /\ ab[1] = a[1] /\ ab[2] = a[2] /\ ab[2 + 1] = b[1]
  BY <1>2, <1>5, <1>9 DEF JoinIs, TwoWrites
<1>11. PICK s : s = ab \o c
  OBVIOUS
<1>12. JoinIs(ab, c, s)
  BY <1>7, <1>10, <1>11, Joined DEF ThreeWrites
<1>13. /\ IsWrites(s) /\ Len(s) = 6 /\ s[1] = ab[1] /\ s[2] = ab[2] /\ s[3] = ab[3]
       /\ s[3 + 1] = c[1] /\ s[3 + 2] = c[2] /\ s[3 + 3] = c[3]
  BY <1>7, <1>10, <1>12 DEF JoinIs, ThreeWrites
<1>14. CreateWrites(s, l, n, header, e, page)
  BY <1>2, <1>5, <1>7, <1>10, <1>13 DEF CreateWrites, TwoWrites, ThreeWrites
<1>15. relation_create_writes(f, r, schema) = a \o b \o c
  BY <1>1, <1>3, <1>6 DEF relation_create_writes
<1> QED BY <1>8, <1>11, <1>14, <1>15


\* The names that the proof gives to what a create changes
CreateMakes(r, schema, n, l, header, page) ==
  /\ mem.relation_count = l /\ l \in Nat /\ n \in PageNo /\ n \notin DOMAIN pages
  /\ catalog = [i \in 1 .. l |-> catalog[i]]
  /\ DOMAIN catalog' = 1 .. l + 1 /\ Len(catalog') = l + 1
  /\ catalog' = [i \in 1 .. l + 1 |-> catalog'[i]]
  /\ catalog'[l + 1] = header /\ \A i \in 1 .. l : catalog'[i] = catalog[i]
  /\ header.name = r /\ header.real_number = l + 1
  /\ \A i \in 1 .. l : catalog[i].name # r
  /\ disk' = [relation_count |-> l + 1, page_count |-> n] /\ disk # NoFile
  /\ page = FreshPage(n, r, schema) /\ IsPage(page) /\ pages' = Put(pages, n, page)

LEMMA CreateParts ==
  ASSUME IInv, NEW r \in Rel, NEW schema \in Schemas, relation_create(r, schema),
         NEW n, n = mem.page_count + 1, NEW l, l = Len(catalog),
         NEW header, header = [page_add(NewHeader(r, schema), n) EXCEPT !.real_number = mem.relation_count + 1],
         NEW page, page = columns_write(page_create(n, r), schema.columns)
  PROVE  CreateMakes(r, schema, n, l, header, page)
<1>1. /\ opened /\ Slots(r) = {} /\ mem.page_count < MaxPages
      /\ catalog' = Append(catalog, header)
      /\ disk' = [relation_count |-> mem.relation_count + 1, page_count |-> n]
      /\ pages' = Put(pages, n, page)
  BY DEF relation_create
<1>2. /\ mem = disk /\ mem \in DbHeader /\ disk.page_count > 0
      /\ Len(catalog) = mem.relation_count /\ catalog \in Seq(Header)
      /\ DOMAIN pages = 2 .. disk.page_count
  BY <1>1 DEF IInv, TypeOK, HeadersType, RelationsType, SavedInv, CatalogInv, ChainInv
<1>3. n \in PageNo /\ n \notin DOMAIN pages
  BY <1>1, <1>2, MaxPagesAssumption DEF PageNo, DbHeader
<1>4. mem.relation_count = l /\ l \in Nat
  BY <1>2
<1>5. header \in Header /\ header.name = r /\ header.real_number = l + 1
  <2>1. \A j \in Nat : LET g == [page_add(NewHeader(r, schema), n) EXCEPT !.real_number = j] IN
          g \in Header /\ g.name = r /\ g.real_number = j
    BY <1>3, HeaderCreated
  <2>2. l + 1 \in Nat /\ mem.relation_count + 1 = l + 1
    BY <1>4
  <2> QED BY <2>1, <2>2
<1>6. /\ DOMAIN catalog' = 1 .. l + 1 /\ Len(catalog') = l + 1
      /\ catalog'[l + 1] = header /\ \A i \in 1 .. l : catalog'[i] = catalog[i]
      /\ catalog' \in Seq(Header)
  BY <1>1, <1>2, <1>4, <1>5
<1>7. catalog' = [i \in 1 .. l + 1 |-> catalog'[i]] /\ catalog = [i \in 1 .. l |-> catalog[i]]
  BY <1>2, <1>6
<1>8. \A i \in 1 .. l : catalog[i].name # r
  BY <1>1, <1>4 DEF Slots
<1>9. page = FreshPage(n, r, schema) /\ IsPage(page)
  BY <1>3, FreshPageWritten, NewPage
<1>10. disk # NoFile
  BY <1>2 DEF NoFile
<1> QED BY <1>1, <1>3, <1>4, <1>5, <1>6, <1>7, <1>8, <1>9, <1>10 DEF CreateMakes

LEMMA CreateCarries ==
  ASSUME IInv, RowsIInv, NEW r \in Rel, NEW schema \in Schemas, relation_create(r, schema),
         NEW f, InFile(f), NEW s, s = relation_create_writes(f, r, schema)
  PROVE  Carries(f, s, 1 .. 4)
<1>1. PICK n : n = mem.page_count + 1
  OBVIOUS
<1>2. PICK l : l = Len(catalog)
  OBVIOUS
<1>3. PICK header : header = [page_add(NewHeader(r, schema), n) EXCEPT !.real_number = mem.relation_count + 1]
  OBVIOUS
<1>4. PICK page : page = columns_write(page_create(n, r), schema.columns)
  OBVIOUS
<1>5. /\ mem.relation_count = l /\ l \in Nat /\ n \in PageNo /\ n \notin DOMAIN pages
      /\ catalog = [i \in 1 .. l |-> catalog[i]]
      /\ DOMAIN catalog' = 1 .. l + 1 /\ Len(catalog') = l + 1
      /\ catalog' = [i \in 1 .. l + 1 |-> catalog'[i]]
      /\ catalog'[l + 1] = header /\ \A i \in 1 .. l : catalog'[i] = catalog[i]
      /\ header.name = r /\ header.real_number = l + 1
      /\ \A i \in 1 .. l : catalog[i].name # r
      /\ disk' = [relation_count |-> l + 1, page_count |-> n] /\ disk # NoFile
      /\ page = FreshPage(n, r, schema) /\ IsPage(page) /\ pages' = Put(pages, n, page)
  <2>1. CreateMakes(r, schema, n, l, header, page)
    BY <1>1, <1>2, <1>3, <1>4, CreateParts
  <2> QED BY <2>1 DEF CreateMakes
<1>6. FileWhole(disk, catalog, pages)
  BY StateWhole DEF StateIsWhole
<1>7. FileWhole(disk', catalog', pages')
  BY CreateRelation, CreateRowsIInv, StateWholeNext DEF StateIsWhole
<1>8. /\ IsFile(f)
      /\ Holds(f, disk, catalog, pages) /\ RealRight(f, disk) /\ f[<<"real">>] = l
  <2>1. disk.relation_count = l
    BY <1>2, <1>6 DEF FileWhole, SlotsRight
  <2> QED BY <1>5, <2>1 DEF InFile, RealRight
<1>9. CreateWrites(s, l, n, header, disk', page)
  <2>1. page.page_number = n
    BY <1>5 DEF FreshPage
  <2>2. disk' = [relation_count |-> mem.relation_count + 1, page_count |-> n]
    BY <1>5
  <2> QED BY <1>1, <1>3, <1>4, <1>8, <2>1, <2>2, CreateHasWrites
<1>10. IsWrites(s) /\ Len(s) = 6
  BY <1>9 DEF CreateWrites
<1>11. PICK f1 : f1 = Put(f, <<"slot", l + 1>>, header)
  OBVIOUS
<1>12. PICK f2 : f2 = Put(f1, <<"real">>, l + 1)
  OBVIOUS
<1>13. PICK f3 : f3 = Put(f2, <<"database">>, disk')
  OBVIOUS
<1>14. PICK f4 : f4 = Put(f3, <<"page", n>>, HeaderOf(page))
  OBVIOUS
<1>15. PICK f5 : f5 = Put(f4, <<"size", n>>, Cardinality(page.columns))
  OBVIOUS
<1>16. PICK f6 : f6 = Put(f5, <<"columns", n>>, page.columns)
  OBVIOUS
<1>17. /\ Written(f, s, 0) = f /\ Written(f, s, 1) = f1 /\ Written(f, s, 2) = f2
       /\ Written(f, s, 3) = f3 /\ Written(f, s, 4) = f4 /\ Written(f, s, 5) = f5
       /\ Written(f, s, 6) = f6
  <2>1. /\ s[1].cell = <<"slot", l + 1>> /\ s[1].value = header
        /\ s[2].cell = <<"real">> /\ s[2].value = l + 1
        /\ s[3].cell = <<"database">> /\ s[3].value = disk'
        /\ s[4].cell = <<"page", n>> /\ s[4].value = HeaderOf(page)
        /\ s[5].cell = <<"size", n>> /\ s[5].value = Cardinality(page.columns)
        /\ s[6].cell = <<"columns", n>> /\ s[6].value = page.columns
    BY <1>9 DEF CreateWrites, AfterSeek
  <2>2. OneByOneIs(f, s)
    BY <1>8, <1>10, OneByOne
  <2>3. /\ Written(f, s, 0) = f
        /\ OneMoreIs(f, s, 1) /\ OneMoreIs(f, s, 2) /\ OneMoreIs(f, s, 3)
        /\ OneMoreIs(f, s, 4) /\ OneMoreIs(f, s, 5) /\ OneMoreIs(f, s, 6)
    BY <1>10, <2>2 DEF OneByOneIs
  <2> QED BY <1>11, <1>12, <1>13, <1>14, <1>15, <1>16, <2>1, <2>2, <2>3 DEF OneMoreIs
\* One write: a slot that is not in use
<1>18. Holds(f1, disk, catalog, pages) /\ RealRight(f1, disk)
  <2>1. Unread(<<"slot", l + 1>>, catalog, n)
    BY <1>2 DEF Unread
  <2> QED BY <1>8, <1>11, <2>1, UnreadWrite, RealKept
\* Two: page 1 counts it, and no relation uses it
<1>19. Holds(f2, disk, catalog, pages) /\ Confined(catalog, pages)
  <2>1. Unread(<<"real">>, catalog, n)
    BY DEF Unread
  <2> QED BY <1>6, <1>12, <1>18, <2>1, UnreadWrite, WholeIsConfined
\* Three: a relation without a page
<1>20. Holds(f3, disk', catalog', pages)
  <2>1. IsCatalog(catalog', disk')
    BY <1>5 DEF IsCatalog
  <2>2. ASSUME NEW i \in 1 .. Len(catalog')
        PROVE  <<"slot", i>> \in DOMAIN f2 /\ f2[<<"slot", i>>] = catalog'[i]
    <3>1. SameCell(f1, f2, <<"slot", i>>)
      BY <1>12, PutElsewhere
    <3>2. CASE i = l + 1
      BY <1>5, <1>11, <3>1, <3>2 DEF Put, SameCell
    <3>3. CASE i \in 1 .. l
      BY <1>2, <1>5, <1>18, <3>1, <3>3 DEF SameCell, Holds, HasSlots
    <3> QED BY <1>5, <3>2, <3>3
  <2>3. HasSlots(f2, catalog')
    BY <2>2 DEF HasSlots
  <2> QED BY <1>13, <1>19, <2>1, <2>3, DatabaseWrite
<1>21. \A i \in DOMAIN catalog' : catalog'[i].real_number = i
  BY <1>7 DEF FileWhole, SlotsRight
<1>22. \A q : TouchesOnly(pages, q, r) => Confined(catalog', q)
  <2> SUFFICES ASSUME NEW q, TouchesOnly(pages, q, r) PROVE Confined(catalog', q)
    OBVIOUS
  <2>1. ASSUME NEW i \in DOMAIN catalog', i # l + 1 PROVE WholeIn(q, catalog'[i])
    <3>1. i \in 1 .. l /\ i \in DOMAIN catalog /\ catalog'[i] = catalog[i] /\ catalog[i].name # r
      BY <1>5, <2>1
    <3>2. WholeIn(q, catalog[i])
      BY <1>6, <3>1, OthersWhole
    <3> QED BY <3>1, <3>2
  <2> QED BY <1>21, <2>1, ConfinedTo
<1>23. Confined(catalog', pages)
  <2>1. TouchesOnly(pages, pages, r)
    BY DEF TouchesOnly
  <2> QED BY <1>22, <2>1
\* Four and five: a page without its columns
<1>24. PICK new : new = [page EXCEPT !.columns = ColumnsIn(f3, n)]
  OBVIOUS
<1>25. /\ IsRecord(new) /\ new.columns = ColumnsIn(f3, n) /\ new.rows = EmptyMap
       /\ new.relation_name = r /\ HeaderOf(new) = HeaderOf(page) /\ new.write_ptr = page.write_ptr
       /\ [new EXCEPT !.columns = page.columns] = page
  BY <1>5, <1>24 DEF FreshPage, IsRecord, HeaderOf
<1>26. PICK q : q = Put(pages, n, new)
  OBVIOUS
<1>27. Holds(f4, disk', catalog', q)
  <2>1. Readable(new)
    <3>1. DOMAIN new.rows = {} /\ new.write_ptr \in 0 .. PageSize
      BY <1>5, <1>25 DEF EmptyMap, IsPage
    <3>2. new.rows = [o \in DOMAIN new.rows |->
                        [is_available |-> new.rows[o].is_available, data |-> new.rows[o].data]]
      BY <1>25 DEF EmptyMap
    <3> QED BY <1>25, <3>1, <3>2 DEF Readable
  <2> QED BY <1>5, <1>14, <1>20, <1>25, <1>26, <2>1, NewHeaderWrite
<1>28. Holds(f5, disk', catalog', q)
  <2>1. Unread(<<"size", n>>, catalog', n)
    BY DEF Unread
  <2> QED BY <1>15, <1>27, <2>1, UnreadWrite
<1>29. DOMAIN q = DOMAIN pages \cup {n} /\ q[n] = new /\ \A m \in DOMAIN pages : q[m] = pages[m]
  BY <1>5, <1>26 DEF Put
<1>30. Confined(catalog', q)
  <2>1. TouchesOnly(pages, q, r)
    BY <1>25, <1>29 DEF TouchesOnly
  <2> QED BY <1>22, <2>1
<1>31. OneOf(q, pages, pages')
  <2>1. RowsAsIn(pages, q)
    BY <1>25, <1>29 DEF RowsAsIn, EmptyMap
  <2> QED BY <2>1, RowsAsBefore
<1>32. OneOf(pages, pages, pages') /\ OneOf(pages', pages, pages')
  BY DEF OneOf
\* All six
<1>33. Holds(f6, disk', catalog', pages')
  <2>1. page = [q[n] EXCEPT !.columns = page.columns] /\ n \in DOMAIN q
    BY <1>25, <1>29
  <2>2. Holds(f6, disk', catalog', Put(q, n, page))
    BY <1>16, <1>28, <2>1, ColumnsWrite
  <2>3. Put(q, n, page) = pages'
    BY <1>5, <1>29 DEF Put
  <2> QED BY <2>2, <2>3
<1>34. RealRight(f6, disk')
  <2>1. <<"real">> \in DOMAIN f2 /\ f2[<<"real">>] = disk'.relation_count
    BY <1>5, <1>12 DEF Put
  <2>2. RealRight(f2, disk')
    BY <2>1 DEF RealRight
  <2>3. RealRight(f3, disk')
    BY <1>13, <2>2, RealKept
  <2>4. RealRight(f4, disk')
    BY <1>14, <2>3, RealKept
  <2>5. RealRight(f5, disk')
    BY <1>15, <2>4, RealKept
  <2> QED BY <1>16, <2>5, RealKept
<1>35. ASSUME NEW k \in 0 .. 6
       PROVE  Left(Written(f, s, k), 6 - k, 1 .. 4, pages, pages')
  <2>1. CASE k = 0
    BY <1>6, <1>8, <1>17, <1>32, <2>1, LeftWhole
  <2>2. CASE k = 1
    BY <1>6, <1>17, <1>18, <1>32, <2>2, LeftWhole
  <2>3. CASE k = 2
    BY <1>17, <1>19, <1>32, <2>3, LeftTorn
  <2>4. CASE k = 3
    BY <1>17, <1>20, <1>23, <1>32, <2>4, LeftTorn
  <2>5. CASE k = 4
    BY <1>17, <1>27, <1>30, <1>31, <2>5, LeftTorn
  <2>6. CASE k = 5
    BY <1>17, <1>28, <1>30, <1>31, <2>6, LeftTorn
  <2>7. CASE k = 6
    BY <1>7, <1>17, <1>32, <1>33, <1>34, <2>7, LeftWhole
  <2> QED BY <2>1, <2>2, <2>3, <2>4, <2>5, <2>6, <2>7
<1>36. Pending(f, s, 1 .. 4, pages, pages')
  BY <1>10, <1>35 DEF Pending
<1>37. Done(f, s, disk', catalog', pages')
  BY <1>10, <1>17, <1>33, <1>34 DEF Done
<1> QED BY <1>10, <1>36, <1>37 DEF Carries


-----------------------------------------------------------------------------
(* row_insert *)

\* The three writes of row_writes: the row is not read back before the header counts it
RowSteps(f, d, c, p, n, data, page) ==
  LET w == p[n].write_ptr
      f1 == Put(f, <<"row", n, w>>, TRUE)
      f2 == Put(f1, <<"data", n, w>>, data)
      f3 == Put(f2, <<"page", n>>, HeaderOf(page)) IN
  Holds(f1, d, c, p) /\ Holds(f2, d, c, p) /\ Holds(f3, d, c, Put(p, n, page))

LEMMA RowWritesHeld ==
  ASSUME NEW f, NEW d, NEW c, NEW p, NEW n, NEW data, NEW page,
         Holds(f, d, c, p), n \in DOMAIN p, Readable(page), RowAdded(p[n], page, data)
  PROVE  RowSteps(f, d, c, p, n, data, page)
<1>1. PICK w : w = p[n].write_ptr
  OBVIOUS
<1>2. PICK f1 : f1 = Put(f, <<"row", n, w>>, TRUE)
  OBVIOUS
<1>3. PICK f2 : f2 = Put(f1, <<"data", n, w>>, data)
  OBVIOUS
<1>4. PICK f3 : f3 = Put(f2, <<"page", n>>, HeaderOf(page))
  OBVIOUS
<1>5. BehindRows(<<"row", n, w>>, n, w) /\ BehindRows(<<"data", n, w>>, n, w)
  BY DEF BehindRows
<1>6. Holds(f1, d, c, p)
  BY <1>1, <1>2, <1>5, BehindWrite
<1>7. Holds(f2, d, c, p)
  BY <1>1, <1>3, <1>5, <1>6, BehindWrite
<1>8. /\ <<"row", n, w>> \in DOMAIN f2 /\ f2[<<"row", n, w>>] = TRUE
      /\ <<"data", n, w>> \in DOMAIN f2 /\ f2[<<"data", n, w>>] = data
  <2>1. SameCell(f1, f2, <<"row", n, w>>)
    BY <1>3, PutElsewhere
  <2>2. <<"row", n, w>> \in DOMAIN f1 /\ f1[<<"row", n, w>>] = TRUE
    BY <1>2 DEF Put
  <2>3. <<"data", n, w>> \in DOMAIN f2 /\ f2[<<"data", n, w>>] = data
    BY <1>3 DEF Put
  <2> QED BY <2>1, <2>2, <2>3 DEF SameCell
<1>9. Holds(f3, d, c, Put(p, n, page))
  BY <1>1, <1>4, <1>7, <1>8, RowHeaderWrite
<1> QED BY <1>1, <1>2, <1>3, <1>4, <1>6, <1>7, <1>9 DEF RowSteps

RowWrites(s, n, w, data, page) ==
  ThreeWrites(s, AfterSeek(<<"row", n, w>>, TRUE), AfterSeek(<<"data", n, w>>, data),
              AfterSeek(<<"page", n>>, HeaderOf(page)))

LEMMA RowHasWrites ==
  ASSUME NEW old, NEW schema, NEW data, NEW n, n = old.page_number, NEW w, w = old.write_ptr,
         NEW page, page = row_write(old, schema, data)
  PROVE  RowWrites(row_writes(old, schema, data), n, w, data, page)
BY AreThree DEF RowWrites, row_writes, Write

LEMMA InsertCarries ==
  ASSUME IInv, RowsIInv, NEW r \in DOMAIN handle, NEW data \in Data(Schema(r)),
         row_insert(r, data),
         NEW f, InFile(f), NEW s, s = row_writes(LastPage(r), Schema(r), data)
  PROVE  Carries(f, s, {})
<1>1. PICK h : h = handle[r]
  OBVIOUS
<1>2. PICK old : old = LastPage(r)
  OBVIOUS
<1>3. PICK page : page = row_write(old, Schema(r), data)
  OBVIOUS
<1>4. PICK n : n = h.page_number_last
  OBVIOUS
<1>5. /\ n \in DOMAIN pages /\ old = pages[n] /\ pages' = [pages EXCEPT ![n] = page]
      /\ RowAdded(old, page, data)
  BY <1>1, <1>2, <1>3, <1>4, InsertedRow
<1>6. disk' = disk /\ catalog' = catalog
  BY DEF row_insert
<1>7. FileWhole(disk, catalog, pages)
  BY StateWhole DEF StateIsWhole
<1>8. FileWhole(disk, catalog, pages')
  BY <1>6, InsertInPlace, InsertRowsIInv, StateWholeNext DEF StateIsWhole
<1>9. Holds(f, disk, catalog, pages) /\ RealRight(f, disk) /\ IsFile(f)
  BY DEF InFile
<1>10. pages' = Put(pages, n, page)
  BY <1>5 DEF Put
<1>11. Readable(page)
  <2>1. n \in DOMAIN pages' /\ pages'[n] = page
    BY <1>5
  <2> QED BY <1>8, <2>1, WholeReadable
<1>12. PICK w : w = old.write_ptr
  OBVIOUS
<1>13. PICK f1 : f1 = Put(f, <<"row", n, w>>, TRUE)
  OBVIOUS
<1>14. PICK f2 : f2 = Put(f1, <<"data", n, w>>, data)
  OBVIOUS
<1>15. PICK f3 : f3 = Put(f2, <<"page", n>>, HeaderOf(page))
  OBVIOUS
<1>16. Holds(f1, disk, catalog, pages) /\ Holds(f2, disk, catalog, pages) /\ Holds(f3, disk, catalog, pages')
  <2>1. RowSteps(f, disk, catalog, pages, n, data, page)
    BY <1>5, <1>9, <1>11, RowWritesHeld
  <2> QED BY <1>5, <1>10, <1>12, <1>13, <1>14, <1>15, <2>1 DEF RowSteps
<1>17. RealRight(f1, disk) /\ RealRight(f2, disk) /\ RealRight(f3, disk)
  <2>1. RealRight(f1, disk)
    BY <1>9, <1>13, RealKept
  <2>2. RealRight(f2, disk)
    BY <1>14, <2>1, RealKept
  <2> QED BY <1>15, <2>1, <2>2, RealKept
<1>18. IsWrites(s) /\ Len(s) = 3 /\ RowWrites(s, n, w, data, page)
  <2>1. n = old.page_number
    BY <1>5, <1>7 DEF FileWhole, ChainsRight
  <2>2. RowWrites(s, n, w, data, page)
    BY <1>2, <1>3, <1>12, <2>1, RowHasWrites
  <2> QED BY <2>2 DEF RowWrites, ThreeWrites
<1>19. /\ Written(f, s, 0) = f /\ Written(f, s, 1) = f1
       /\ Written(f, s, 2) = f2 /\ Written(f, s, 3) = f3
  <2>1. /\ f1 = Put(f, s[1].cell, s[1].value)
        /\ f2 = Put(f1, s[2].cell, s[2].value)
        /\ f3 = Put(f2, s[3].cell, s[3].value)
    <3>1. f1 = Put(f, s[1].cell, s[1].value)
      BY <1>13, <1>18 DEF RowWrites, ThreeWrites, AfterSeek
    <3>2. f2 = Put(f1, s[2].cell, s[2].value)
      BY <1>14, <1>18 DEF RowWrites, ThreeWrites, AfterSeek
    <3>3. f3 = Put(f2, s[3].cell, s[3].value)
      BY <1>15, <1>18 DEF RowWrites, ThreeWrites, AfterSeek
    <3> QED BY <3>1, <3>2, <3>3
  <2>2. OneByOneIs(f, s)
    BY <1>9, <1>18, OneByOne
  <2>3. /\ Written(f, s, 0) = f
        /\ OneMoreIs(f, s, 1) /\ OneMoreIs(f, s, 2) /\ OneMoreIs(f, s, 3)
    BY <1>18, <2>2 DEF OneByOneIs
  <2> QED BY <2>1, <2>3 DEF OneMoreIs
<1>20. OneOf(pages, pages, pages') /\ OneOf(pages', pages, pages')
  BY DEF OneOf
<1>21. ASSUME NEW k \in 0 .. 3
       PROVE  Left(Written(f, s, k), 3 - k, {}, pages, pages')
  <2>1. CASE k = 0
    BY <1>7, <1>9, <1>19, <1>20, <2>1, LeftWhole
  <2>2. CASE k = 1
    BY <1>7, <1>16, <1>17, <1>19, <1>20, <2>2, LeftWhole
  <2>3. CASE k = 2
    BY <1>7, <1>16, <1>17, <1>19, <1>20, <2>3, LeftWhole
  <2>4. CASE k = 3
    BY <1>8, <1>16, <1>17, <1>19, <1>20, <2>4, LeftWhole
  <2> QED BY <2>1, <2>2, <2>3, <2>4
<1>22. Pending(f, s, {}, pages, pages')
  BY <1>18, <1>21 DEF Pending
<1>23. Done(f, s, disk', catalog', pages')
  BY <1>6, <1>16, <1>17, <1>18, <1>19 DEF Done
<1> QED BY <1>18, <1>22, <1>23 DEF Carries


-----------------------------------------------------------------------------
(* row_insert on a new page *)

NewPageWrites(s, k, header, e, last, linked, n, fresh, w, data, page) ==
  /\ IsWrites(s) /\ Len(s) = 9
  /\ s[1] = AfterSeek(<<"page", last>>, linked)
  /\ s[2] = AfterSeek(<<"slot", k>>, header)
  /\ s[3] = AfterSeek(<<"database">>, e)
  /\ s[4] = AfterSeek(<<"page", n>>, HeaderOf(fresh))
  /\ s[5].cell = <<"size", n>> /\ s[5].value = Cardinality(fresh.columns)
  /\ s[6].cell = <<"columns", n>> /\ s[6].value = fresh.columns
  /\ s[7] = AfterSeek(<<"row", n, w>>, TRUE)
  /\ s[8] = AfterSeek(<<"data", n, w>>, data)
  /\ s[9] = AfterSeek(<<"page", n>>, HeaderOf(page))

LEMMA NewPageHasWrites ==
  ASSUME NEW r, NEW data, NEW n, n = mem.page_count + 1,
         NEW last, last = handle[r].page_number_last,
         NEW linked, linked = [HeaderOf(pages[last]) EXCEPT !.next_page_number = n],
         NEW header, header = page_add(handle[r], n), NEW k, k = header.real_number,
         NEW e, e = [mem EXCEPT !.page_count = n],
         NEW fresh, fresh = columns_write(page_create(n, handle[r].name), LastPage(r).columns),
         fresh.page_number = n, NEW w, w = fresh.write_ptr,
         NEW page, page = row_write(fresh, Schema(r), data)
  PROVE  NewPageWrites(row_write_to_page_writes(r, data), k, header, e, last, linked,
                       n, fresh, w, data, page)
<1>1. PICK a : a = page_add_writes(r, n)
  OBVIOUS
<1>2. ThreeWrites(a, AfterSeek(<<"page", last>>, linked), AfterSeek(<<"slot", k>>, header),
                  AfterSeek(<<"database">>, e))
  BY <1>1, AreThree DEF page_add_writes, header_saves, database_header_save_changes, Write
<1>3. PICK x : x = [cell |-> <<"size", n>>, value |-> Cardinality(fresh.columns), fseek |-> FALSE]
  OBVIOUS
<1>4. PICK y : y = [cell |-> <<"columns", n>>, value |-> fresh.columns, fseek |-> FALSE]
  OBVIOUS
<1>5. PICK b : b = <<AfterSeek(<<"page", n>>, HeaderOf(fresh))>>
  OBVIOUS
<1>6. PICK c : c = <<x>>
  OBVIOUS
<1>7. PICK d : d = <<y>>
  OBVIOUS
<1>8. PICK g : g = row_writes(fresh, Schema(r), data)
  OBVIOUS
<1>9. RowWrites(g, n, w, data, page)
  BY <1>8, RowHasWrites
<1>10. /\ IsWrites(b) /\ Len(b) = 1 /\ b[1] = AfterSeek(<<"page", n>>, HeaderOf(fresh))
       /\ IsWrites(c) /\ Len(c) = 1 /\ c[1] = x
       /\ IsWrites(d) /\ Len(d) = 1 /\ d[1] = y
       /\ IsWrites(a) /\ Len(a) = 3 /\ IsWrites(g) /\ Len(g) = 3
  BY <1>2, <1>5, <1>6, <1>7, <1>9, OneWrite DEF ThreeWrites, RowWrites
<1>11. PICK ab : ab = a \o b
  OBVIOUS
<1>12. PICK ac : ac = ab \o c
  OBVIOUS
<1>13. PICK ad : ad = ac \o d
  OBVIOUS
<1>14. PICK s : s = ad \o g
  OBVIOUS
<1>15. JoinIs(a, b, ab)
  BY <1>10, <1>11, Joined
<1>16. /\ IsWrites(ab) /\ Len(ab) = 4 /\ ab[1] = a[1] /\ ab[2] = a[2] /\ ab[3] = a[3]
       /\ ab[3 + 1] = b[1]
  BY <1>10, <1>15 DEF JoinIs
<1>17. JoinIs(ab, c, ac)
  BY <1>10, <1>12, <1>16, Joined
<1>18. /\ IsWrites(ac) /\ Len(ac) = 5 /\ ac[1] = ab[1] /\ ac[2] = ab[2] /\ ac[3] = ab[3]
       /\ ac[4] = ab[4] /\ ac[4 + 1] = c[1]
  BY <1>10, <1>16, <1>17 DEF JoinIs
<1>19. JoinIs(ac, d, ad)
  BY <1>10, <1>13, <1>18, Joined
<1>20. /\ IsWrites(ad) /\ Len(ad) = 6 /\ ad[1] = ac[1] /\ ad[2] = ac[2] /\ ad[3] = ac[3]
       /\ ad[4] = ac[4] /\ ad[5] = ac[5] /\ ad[5 + 1] = d[1]
  BY <1>10, <1>18, <1>19 DEF JoinIs
<1>21. JoinIs(ad, g, s)
  BY <1>10, <1>14, <1>20, Joined
<1>22. /\ IsWrites(s) /\ Len(s) = 9 /\ s[1] = ad[1] /\ s[2] = ad[2] /\ s[3] = ad[3]
       /\ s[4] = ad[4] /\ s[5] = ad[5] /\ s[6] = ad[6]
       /\ s[6 + 1] = g[1] /\ s[6 + 2] = g[2] /\ s[6 + 3] = g[3]
  BY <1>10, <1>20, <1>21 DEF JoinIs
<1>23. s[1] = a[1] /\ s[2] = a[2] /\ s[3] = a[3] /\ s[4] = b[1] /\ s[5] = x /\ s[6] = y
  BY <1>10, <1>16, <1>18, <1>20, <1>22
<1>24. /\ x.cell = <<"size", n>> /\ x.value = Cardinality(fresh.columns)
       /\ y.cell = <<"columns", n>> /\ y.value = fresh.columns
  BY <1>3, <1>4
<1>25. NewPageWrites(s, k, header, e, last, linked, n, fresh, w, data, page)
  <2>1. s[7] = g[1] /\ s[8] = g[2] /\ s[9] = g[3]
    BY <1>22
  <2>2. /\ s[7] = AfterSeek(<<"row", n, w>>, TRUE)
        /\ s[8] = AfterSeek(<<"data", n, w>>, data)
        /\ s[9] = AfterSeek(<<"page", n>>, HeaderOf(page))
    BY <1>9, <2>1 DEF ThreeWrites, RowWrites
  <2>3. /\ s[1] = AfterSeek(<<"page", last>>, linked)
        /\ s[2] = AfterSeek(<<"slot", k>>, header)
        /\ s[3] = AfterSeek(<<"database">>, e)
    BY <1>2, <1>23 DEF ThreeWrites
  <2>4. /\ s[4] = AfterSeek(<<"page", n>>, HeaderOf(fresh))
        /\ s[5].cell = <<"size", n>> /\ s[5].value = Cardinality(fresh.columns)
        /\ s[6].cell = <<"columns", n>> /\ s[6].value = fresh.columns
    BY <1>10, <1>23, <1>24
  <2> QED BY <1>22, <2>2, <2>3, <2>4 DEF NewPageWrites
<1>26. row_write_to_page_writes(r, data) = a \o b \o c \o d \o g
  BY <1>1, <1>3, <1>4, <1>5, <1>6, <1>7, <1>8
     DEF row_write_to_page_writes, LastPage, Write, Behind
<1> QED BY <1>11, <1>12, <1>13, <1>14, <1>25, <1>26

\* The names that the proof gives to what an insert on a new page changes
NewPageMakes(r, data, h, n, last, k, header, fresh, page) ==
  /\ h = catalog[k] /\ h.name = r /\ k \in DOMAIN catalog
  /\ n \in PageNo /\ n \notin DOMAIN pages
  /\ last \in DOMAIN pages /\ pages[last].relation_name = r /\ pages[last].next_page_number = 0
  /\ catalog = [i \in 1 .. Len(catalog) |-> catalog[i]] /\ Len(catalog) \in Nat
  /\ header.real_number = k /\ header.name = r /\ header.schema = h.schema
  /\ catalog' = [catalog EXCEPT ![k] = header]
  /\ disk' = [mem EXCEPT !.page_count = n] /\ disk # NoFile /\ disk' # NoFile
  /\ disk'.relation_count = disk.relation_count
  /\ fresh = FreshPage(n, r, h.schema) /\ IsPage(fresh) /\ IsRecord(fresh)
  /\ RowsFit(fresh, h.schema) /\ PageFilled(fresh, h.schema)
  /\ RowAdded(fresh, page, data)
  /\ pages' = Put([pages EXCEPT ![last].next_page_number = n], n, page)

LEMMA NewPageParts ==
  ASSUME IInv, RowsIInv, NEW r \in DOMAIN handle, NEW data \in Data(Schema(r)),
         row_insert_new_page(r, data),
         NEW h, h = handle[r], NEW n, n = mem.page_count + 1,
         NEW last, last = h.page_number_last, NEW k, k = h.real_number,
         NEW header, header = page_add(h, n),
         NEW fresh, fresh = columns_write(page_create(n, h.name), LastPage(r).columns),
         NEW page, page = row_write(fresh, Schema(r), data)
  PROVE  NewPageMakes(r, data, h, n, last, k, header, fresh, page)
<1>1. /\ opened /\ r \in Rel /\ h \in Header /\ h.name = r
      /\ k \in DOMAIN catalog /\ catalog[k] = h
      /\ last \in DOMAIN pages /\ Owner(last) = r /\ LinkOf(last) = 0
      /\ PageFilled(pages[last], h.schema) /\ last # 0
  BY OpenRelation
<1>2. /\ mem = disk /\ mem \in DbHeader /\ disk.page_count > 0
      /\ catalog \in Seq(Header) /\ DOMAIN pages = 2 .. disk.page_count
  BY <1>1 DEF IInv, TypeOK, HeadersType, RelationsType, SavedInv, CatalogInv, ChainInv
<1>3. mem.page_count < MaxPages
  BY DEF row_insert_new_page
<1>4. n \in PageNo /\ n \notin DOMAIN pages /\ n \in Nat /\ n > 0
  BY <1>2, <1>3, MaxPagesAssumption DEF PageNo, DbHeader
<1>5. h \in AnyHeader /\ h.schema \in Schemas /\ Schema(r) = h.schema
  BY <1>1, MaxPagesAssumption DEF Header, AnyHeader, PageNo, Schema
<1>6. header.name = r /\ header.schema = h.schema /\ header.real_number = k
  BY <1>1, <1>4, <1>5, PageAdded
<1>7. fresh = columns_write(page_create(n, r), h.schema.columns)
  BY <1>1 DEF PageFilled, LastPage
<1>8. fresh = FreshPage(n, r, h.schema) /\ IsPage(fresh)
  BY <1>1, <1>4, <1>5, <1>7, FreshPageWritten, NewPage
<1>9. RowsFit(fresh, h.schema) /\ IsRecord(fresh)
  BY <1>5, <1>8, FreshPageFits
<1>10. PageFilled(fresh, h.schema)
  <2>1. FirstRow(h.schema.columns) \in Nat
    BY <1>5, LayoutNat
  <2> QED BY <1>8, <2>1, SizesAssumption DEF PageFilled, FreshPage
<1>11. RowAdded(fresh, page, data)
  <2>1. page = row_write(FreshPage(n, r, h.schema), h.schema, data)
    BY <1>5, <1>8
  <2> QED BY <1>1, <1>4, <1>5, <1>8, <2>1, FirstRowFits
<1>12. /\ catalog' = [catalog EXCEPT ![header.real_number] = header]
       /\ pages' = Put([pages EXCEPT ![last].next_page_number = n], n, page)
       /\ disk' = mem' /\ mem' = [mem EXCEPT !.page_count = n]
  <2>1. header.name = h.name
    BY <1>1, <1>6
  <2> QED BY <2>1 DEF row_insert_new_page, relation_header_save_changes, file_update_last_page
<1>13. /\ disk' = [mem EXCEPT !.page_count = n] /\ disk # NoFile /\ disk' # NoFile
       /\ disk'.relation_count = disk.relation_count
  BY <1>2, <1>4, <1>12 DEF DbHeader, NoFile
<1>14. catalog = [i \in 1 .. Len(catalog) |-> catalog[i]] /\ Len(catalog) \in Nat
  BY <1>2
<1>15. pages[last].relation_name = r /\ pages[last].next_page_number = 0
  BY <1>1 DEF Owner, LinkOf
<1> QED BY <1>1, <1>4, <1>6, <1>8, <1>9, <1>10, <1>11, <1>12, <1>13, <1>14, <1>15
        DEF NewPageMakes


LEMMA NewPageCarries ==
  ASSUME IInv, RowsIInv, NEW r \in DOMAIN handle, NEW data \in Data(Schema(r)),
         row_insert_new_page(r, data),
         NEW f, InFile(f), NEW s, s = row_write_to_page_writes(r, data)
  PROVE  Carries(f, s, 4 .. 8)
<1>1. PICK h : h = handle[r]
  OBVIOUS
<1>2. PICK n : n = mem.page_count + 1
  OBVIOUS
<1>3. PICK last : last = h.page_number_last
  OBVIOUS
<1>4. PICK k : k = h.real_number
  OBVIOUS
<1>5. PICK header : header = page_add(h, n)
  OBVIOUS
<1>6. PICK fresh : fresh = columns_write(page_create(n, h.name), LastPage(r).columns)
  OBVIOUS
<1>7. PICK page : page = row_write(fresh, Schema(r), data)
  OBVIOUS
<1>8. NewPageMakes(r, data, h, n, last, k, header, fresh, page)
  BY <1>1, <1>2, <1>3, <1>4, <1>5, <1>6, <1>7, NewPageParts
<1>9. /\ h = catalog[k] /\ h.name = r /\ k \in DOMAIN catalog
      /\ n \in PageNo /\ n \notin DOMAIN pages
      /\ last \in DOMAIN pages /\ pages[last].relation_name = r /\ pages[last].next_page_number = 0
      /\ catalog = [i \in 1 .. Len(catalog) |-> catalog[i]] /\ Len(catalog) \in Nat
      /\ header.real_number = k /\ header.name = r /\ header.schema = h.schema
      /\ catalog' = [catalog EXCEPT ![k] = header]
      /\ disk' = [mem EXCEPT !.page_count = n] /\ disk # NoFile /\ disk' # NoFile
      /\ disk'.relation_count = disk.relation_count
      /\ fresh = FreshPage(n, r, h.schema) /\ IsPage(fresh) /\ IsRecord(fresh)
      /\ RowsFit(fresh, h.schema) /\ PageFilled(fresh, h.schema)
      /\ RowAdded(fresh, page, data)
      /\ pages' = Put([pages EXCEPT ![last].next_page_number = n], n, page)
  BY <1>8 DEF NewPageMakes
<1>10. FileWhole(disk, catalog, pages)
  BY StateWhole DEF StateIsWhole
<1>11. FileWhole(disk', catalog', pages')
  BY InsertOnNewPage, InsertNewPageRowsIInv, StateWholeNext DEF StateIsWhole
<1>12. Holds(f, disk, catalog, pages) /\ RealRight(f, disk) /\ IsFile(f)
  BY DEF InFile
<1>13. PICK linked : linked = [HeaderOf(pages[last]) EXCEPT !.next_page_number = n]
  OBVIOUS
<1>14. PICK w : w = fresh.write_ptr
  OBVIOUS
<1>15. NewPageWrites(s, k, header, disk', last, linked, n, fresh, w, data, page)
  <2>1. fresh.page_number = n
    BY <1>9 DEF FreshPage
  <2>2. disk' = [mem EXCEPT !.page_count = n] /\ k = header.real_number
    BY <1>9
  <2> QED BY <1>1, <1>2, <1>3, <1>5, <1>6, <1>7, <1>13, <1>14, <2>1, <2>2, NewPageHasWrites
<1>16. IsWrites(s) /\ Len(s) = 9
  BY <1>15 DEF NewPageWrites
<1>17. PICK f1 : f1 = Put(f, <<"page", last>>, linked)
  OBVIOUS
<1>18. PICK f2 : f2 = Put(f1, <<"slot", k>>, header)
  OBVIOUS
<1>19. PICK f3 : f3 = Put(f2, <<"database">>, disk')
  OBVIOUS
<1>20. PICK f4 : f4 = Put(f3, <<"page", n>>, HeaderOf(fresh))
  OBVIOUS
<1>21. PICK f5 : f5 = Put(f4, <<"size", n>>, Cardinality(fresh.columns))
  OBVIOUS
<1>22. PICK f6 : f6 = Put(f5, <<"columns", n>>, fresh.columns)
  OBVIOUS
<1>23. PICK f7 : f7 = Put(f6, <<"row", n, w>>, TRUE)
  OBVIOUS
<1>24. PICK f8 : f8 = Put(f7, <<"data", n, w>>, data)
  OBVIOUS
<1>25. PICK f9 : f9 = Put(f8, <<"page", n>>, HeaderOf(page))
  OBVIOUS
<1>26. /\ Written(f, s, 0) = f /\ Written(f, s, 1) = f1 /\ Written(f, s, 2) = f2
       /\ Written(f, s, 3) = f3 /\ Written(f, s, 4) = f4 /\ Written(f, s, 5) = f5
       /\ Written(f, s, 6) = f6 /\ Written(f, s, 7) = f7 /\ Written(f, s, 8) = f8
       /\ Written(f, s, 9) = f9
  <2>1. /\ f1 = Put(f, s[1].cell, s[1].value) /\ f2 = Put(f1, s[2].cell, s[2].value)
        /\ f3 = Put(f2, s[3].cell, s[3].value)
    BY <1>15, <1>17, <1>18, <1>19 DEF NewPageWrites, AfterSeek
  <2>2. /\ f4 = Put(f3, s[4].cell, s[4].value) /\ f5 = Put(f4, s[5].cell, s[5].value)
        /\ f6 = Put(f5, s[6].cell, s[6].value)
    BY <1>15, <1>20, <1>21, <1>22 DEF NewPageWrites, AfterSeek
  <2>3. f7 = Put(f6, s[7].cell, s[7].value)
    BY <1>15, <1>23 DEF NewPageWrites, AfterSeek
  <2>4. f8 = Put(f7, s[8].cell, s[8].value)
    BY <1>15, <1>24 DEF NewPageWrites, AfterSeek
  <2>5. f9 = Put(f8, s[9].cell, s[9].value)
    BY <1>15, <1>25 DEF NewPageWrites, AfterSeek
  <2>6. OneByOneIs(f, s)
    BY <1>12, <1>16, OneByOne
  <2>7. /\ Written(f, s, 0) = f
        /\ OneMoreIs(f, s, 1) /\ OneMoreIs(f, s, 2) /\ OneMoreIs(f, s, 3)
        /\ OneMoreIs(f, s, 4) /\ OneMoreIs(f, s, 5) /\ OneMoreIs(f, s, 6)
        /\ OneMoreIs(f, s, 7) /\ OneMoreIs(f, s, 8) /\ OneMoreIs(f, s, 9)
    BY <1>16, <2>6 DEF OneByOneIs
  <2> QED BY <2>1, <2>2, <2>3, <2>4, <2>5, <2>7 DEF OneMoreIs
\* The pages at each moment
<1>27. PICK q1 : q1 = Put(pages, last, [pages[last] EXCEPT !.next_page_number = n])
  OBVIOUS
<1>28. PICK new : new = [fresh EXCEPT !.columns = ColumnsIn(f3, n)]
  OBVIOUS
<1>29. PICK q2 : q2 = Put(q1, n, new)
  OBVIOUS
<1>30. PICK q3 : q3 = Put(q2, n, fresh)
  OBVIOUS
<1>31. /\ IsRecord(new) /\ new.columns = ColumnsIn(f3, n) /\ new.rows = EmptyMap
       /\ new.relation_name = r /\ HeaderOf(new) = HeaderOf(fresh) /\ new.write_ptr = fresh.write_ptr
       /\ fresh = [new EXCEPT !.columns = fresh.columns] /\ fresh.rows = EmptyMap
  BY <1>9, <1>28 DEF FreshPage, IsRecord, HeaderOf
<1>32. /\ DOMAIN q1 = DOMAIN pages
       /\ q1[last] = [pages[last] EXCEPT !.next_page_number = n]
       /\ \A m \in DOMAIN pages : m # last => q1[m] = pages[m]
  BY <1>9, <1>27 DEF Put
<1>33. DOMAIN q2 = DOMAIN pages \cup {n} /\ q2[n] = new /\ \A m \in DOMAIN pages : q2[m] = q1[m]
  BY <1>9, <1>29, <1>32 DEF Put
<1>34. DOMAIN q3 = DOMAIN pages \cup {n} /\ q3[n] = fresh /\ \A m \in DOMAIN pages : q3[m] = q1[m]
  BY <1>9, <1>30, <1>33 DEF Put
<1>35. pages' = Put(q1, n, page)
  <2>1. pages = [m \in DOMAIN pages |-> pages[m]]
    BY <1>12 DEF Holds, HasPages
  <2>2. q1 = [pages EXCEPT ![last].next_page_number = n]
    BY <1>9, <1>27, <2>1 DEF Put
  <2> QED BY <1>9, <2>2
<1>36. /\ DOMAIN pages' = DOMAIN pages \cup {n} /\ pages'[n] = page
       /\ \A m \in DOMAIN pages : pages'[m] = q1[m]
  BY <1>9, <1>32, <1>35 DEF Put
<1>37. pages' = Put(q3, n, page)
  BY <1>32, <1>34, <1>35 DEF Put
\* What is read back at each moment
<1>38. Holds(f1, disk, catalog, q1)
  BY <1>9, <1>12, <1>13, <1>17, <1>27, LinkWrite
<1>39. Holds(f2, disk, catalog', q1)
  <2>1. k \in 1 .. Len(catalog)
    BY <1>9
  <2> QED BY <1>9, <1>18, <1>38, <2>1, SlotWrite
<1>40. Holds(f3, disk', catalog', q1)
  <2>1. IsCatalog(catalog', disk') /\ HasSlots(f2, catalog')
    BY <1>9, <1>39 DEF Holds, IsCatalog
  <2> QED BY <1>19, <1>39, <2>1, DatabaseWrite
<1>41. Holds(f4, disk', catalog', q2)
  <2>1. Readable(new)
    <3>1. DOMAIN new.rows = {} /\ new.write_ptr \in 0 .. PageSize
      BY <1>9, <1>31 DEF EmptyMap, IsPage
    <3>2. new.rows = [o \in DOMAIN new.rows |->
                        [is_available |-> new.rows[o].is_available, data |-> new.rows[o].data]]
      BY <1>31 DEF EmptyMap
    <3> QED BY <1>31, <3>1, <3>2 DEF Readable
  <2>2. n \notin DOMAIN q1
    BY <1>9, <1>32
  <2> QED BY <1>9, <1>20, <1>29, <1>31, <1>40, <2>1, <2>2, NewHeaderWrite
<1>42. Holds(f5, disk', catalog', q2)
  <2>1. Unread(<<"size", n>>, catalog', n)
    BY DEF Unread
  <2> QED BY <1>21, <1>41, <2>1, UnreadWrite
<1>43. Holds(f6, disk', catalog', q3)
  <2>1. fresh = [q2[n] EXCEPT !.columns = fresh.columns] /\ n \in DOMAIN q2
    BY <1>31, <1>33
  <2> QED BY <1>22, <1>30, <1>42, <2>1, ColumnsWrite
<1>44. Holds(f7, disk', catalog', q3) /\ Holds(f8, disk', catalog', q3) /\ Holds(f9, disk', catalog', pages')
  <2>1. Readable(page)
    BY <1>11, <1>36, WholeReadable
  <2>2. n \in DOMAIN q3 /\ q3[n] = fresh /\ RowAdded(fresh, page, data)
    BY <1>9, <1>34
  <2>3. RowSteps(f6, disk', catalog', q3, n, data, page)
    BY <1>43, <2>1, <2>2, RowWritesHeld
  <2> QED BY <1>14, <1>23, <1>24, <1>25, <1>37, <2>2, <2>3 DEF RowSteps
<1>45. /\ RealRight(f6, disk') /\ RealRight(f7, disk') /\ RealRight(f8, disk') /\ RealRight(f9, disk')
  <2>1. RealRight(f1, disk)
    BY <1>12, <1>17, RealKept
  <2>2. RealRight(f2, disk)
    BY <1>18, <2>1, RealKept
  <2>3. RealRight(f2, disk')
    BY <1>9, <2>2 DEF RealRight
  <2>4. RealRight(f3, disk')
    BY <1>19, <2>3, RealKept
  <2>5. RealRight(f4, disk')
    BY <1>20, <2>4, RealKept
  <2>6. RealRight(f5, disk')
    BY <1>21, <2>5, RealKept
  <2>7. RealRight(f6, disk')
    BY <1>22, <2>6, RealKept
  <2>8. RealRight(f7, disk')
    BY <1>23, <2>7, RealKept
  <2>9. RealRight(f8, disk')
    BY <1>24, <2>8, RealKept
  <2> QED BY <1>25, <2>7, <2>8, <2>9, RealKept
\* The other relations are whole at each moment
<1>46. /\ \A i \in DOMAIN catalog : i = k \/ catalog[i].name # r
       /\ DOMAIN catalog' = DOMAIN catalog /\ \A i \in DOMAIN catalog : i = k \/ catalog'[i] = catalog[i]
       /\ catalog'[k] = header
  BY <1>9, <1>10 DEF FileWhole, SlotsRight
<1>47. \A q : TouchesOnly(pages, q, r) => Confined(catalog, q) /\ Confined(catalog', q)
  <2> SUFFICES ASSUME NEW q, TouchesOnly(pages, q, r) PROVE Confined(catalog, q) /\ Confined(catalog', q)
    OBVIOUS
  <2>1. \A i \in DOMAIN catalog : i = k \/ WholeIn(q, catalog[i])
    BY <1>10, <1>46, OthersWhole
  <2>2. \A i \in DOMAIN catalog' : i = k \/ WholeIn(q, catalog'[i])
    BY <1>46, <2>1
  <2>3. \A i \in DOMAIN catalog : catalog[i].real_number = i
    BY <1>10 DEF FileWhole, SlotsRight
  <2>4. \A i \in DOMAIN catalog' : catalog'[i].real_number = i
    BY <1>11 DEF FileWhole, SlotsRight
  <2> QED BY <2>1, <2>2, <2>3, <2>4, ConfinedTo
<1>48. pages[last].relation_name = q1[last].relation_name /\ pages[last].rows = q1[last].rows
  BY <1>10, <1>9, <1>32 DEF FileWhole, TypesRight, IsRecord
<1>49. TouchesOnly(pages, q1, r)
  BY <1>9, <1>32, <1>48 DEF TouchesOnly
<1>50. TouchesOnly(pages, q2, r)
  <2>1. new.relation_name = r
    BY <1>31
  <2> QED BY <1>32, <1>33, <1>49, <2>1 DEF TouchesOnly
\* With the columns of the new page the file is whole
<1>51. FileWhole(disk', catalog', q3)
  <2>1. DOMAIN q3 = DOMAIN pages'
    BY <1>34, <1>36
  <2>2. ASSUME NEW m \in DOMAIN pages'
        PROVE  /\ IsPage(q3[m]) /\ IsRecord(q3[m])
               /\ q3[m].page_number = pages'[m].page_number
               /\ q3[m].relation_name = pages'[m].relation_name
               /\ q3[m].next_page_number = pages'[m].next_page_number
               /\ \A i \in DOMAIN catalog' : m \in OwnedIn(pages', catalog'[i].name) =>
                    PageFilled(q3[m], catalog'[i].schema) /\ RowsFit(q3[m], catalog'[i].schema)
    <3>1. CASE m = n
      <4>1. pages'[n].page_number = n
        BY <1>11, <2>2, <3>1 DEF FileWhole, ChainsRight
      <4>2. /\ fresh.page_number = n /\ fresh.relation_name = page.relation_name
            /\ fresh.next_page_number = page.next_page_number /\ fresh.relation_name = r
        BY <1>9 DEF FreshPage, RowAdded
      <4>3. ASSUME NEW i \in DOMAIN catalog', n \in OwnedIn(pages', catalog'[i].name)
            PROVE  PageFilled(fresh, catalog'[i].schema) /\ RowsFit(fresh, catalog'[i].schema)
        <5>1. catalog'[i].name = r
          BY <1>36, <4>2, <4>3 DEF OwnedIn
        <5>2. i = k /\ catalog'[i].schema = h.schema
          BY <1>9, <1>46, <4>3, <5>1
        <5> QED BY <1>9, <5>2
      <4>4. q3[m] = fresh /\ pages'[m] = page /\ page.page_number = n
        BY <1>34, <1>36, <3>1, <4>1
      <4>5. IsPage(fresh) /\ IsRecord(fresh)
        BY <1>9
      <4> QED BY <3>1, <4>2, <4>3, <4>4, <4>5
    <3>2. CASE m # n
      <4>1. q3[m] = pages'[m]
        BY <1>34, <1>36, <3>2
      <4>2. IsPage(pages'[m]) /\ IsRecord(pages'[m])
        BY <1>11 DEF FileWhole, TypesRight
      <4>3. \A i \in DOMAIN catalog' : m \in OwnedIn(pages', catalog'[i].name) =>
              PageFilled(pages'[m], catalog'[i].schema) /\ RowsFit(pages'[m], catalog'[i].schema)
        BY <1>11 DEF FileWhole, SpaceRight, RowsRight, RelationFits
      <4> QED BY <4>1, <4>2, <4>3
    <3> QED BY <3>1, <3>2
  <2> QED BY <1>11, <2>1, <2>2, PagesReplaced
\* The rows are those of before until the header counts the new one
<1>52. RowsAsIn(pages, q1) /\ RowsAsIn(pages, q2) /\ RowsAsIn(pages, q3)
  <2>1. \A m \in DOMAIN pages : q1[m].rows = pages[m].rows
    BY <1>32, <1>48
  <2>2. DOMAIN EmptyMap = {}
    BY DEF EmptyMap
  <2>3. RowsAsIn(pages, q1)
    BY <1>32, <2>1 DEF RowsAsIn
  <2>4. RowsAsIn(pages, q2)
    BY <1>31, <1>33, <2>1, <2>2 DEF RowsAsIn
  <2>5. RowsAsIn(pages, q3)
    BY <1>31, <1>34, <2>1, <2>2 DEF RowsAsIn
  <2> QED BY <2>3, <2>4, <2>5
<1>53. /\ OneOf(q1, pages, pages') /\ OneOf(q2, pages, pages') /\ OneOf(q3, pages, pages')
       /\ OneOf(pages, pages, pages') /\ OneOf(pages', pages, pages')
  <2>1. OneOf(q1, pages, pages') /\ OneOf(q2, pages, pages') /\ OneOf(q3, pages, pages')
    BY <1>52, RowsAsBefore
  <2>2. OneOf(pages, pages, pages') /\ OneOf(pages', pages, pages')
    BY DEF OneOf
  <2> QED BY <2>1, <2>2
<1>54. ASSUME NEW j \in 0 .. 9
       PROVE  Left(Written(f, s, j), 9 - j, 4 .. 8, pages, pages')
  <2>1. CASE j = 0
    BY <1>10, <1>12, <1>26, <1>53, <2>1, LeftWhole
  <2>2. CASE j = 1
    BY <1>26, <1>38, <1>47, <1>49, <1>53, <2>2, LeftTorn
  <2>3. CASE j = 2
    BY <1>26, <1>39, <1>47, <1>49, <1>53, <2>3, LeftTorn
  <2>4. CASE j = 3
    BY <1>26, <1>40, <1>47, <1>49, <1>53, <2>4, LeftTorn
  <2>5. CASE j = 4
    BY <1>26, <1>41, <1>47, <1>50, <1>53, <2>5, LeftTorn
  <2>6. CASE j = 5
    BY <1>26, <1>42, <1>47, <1>50, <1>53, <2>6, LeftTorn
  <2>7. CASE j = 6
    BY <1>26, <1>43, <1>45, <1>51, <1>53, <2>7, LeftWhole
  <2>8. CASE j = 7
    BY <1>26, <1>44, <1>45, <1>51, <1>53, <2>8, LeftWhole
  <2>9. CASE j = 8
    BY <1>26, <1>44, <1>45, <1>51, <1>53, <2>9, LeftWhole
  <2>10. CASE j = 9
    BY <1>11, <1>26, <1>44, <1>45, <1>53, <2>10, LeftWhole
  <2> QED BY <2>1, <2>2, <2>3, <2>4, <2>5, <2>6, <2>7, <2>8, <2>9, <2>10
<1>55. Pending(f, s, 4 .. 8, pages, pages')
  BY <1>16, <1>54 DEF Pending
<1>56. Done(f, s, disk', catalog', pages')
  BY <1>16, <1>26, <1>44, <1>45 DEF Done
<1> QED BY <1>16, <1>55, <1>56 DEF Carries


-----------------------------------------------------------------------------
(* The order in which a loop meets the rows *)

ArePlaces(places) == places \in SUBSET (Nat \X Nat) /\ IsFiniteSet(places)

LEMMA OneOrder ==
  ASSUME NEW places, ArePlaces(places)
  PROVE  \A x, y \in places :
           /\ ~Precedes(x, x) /\ (x = y \/ Precedes(x, y) \/ Precedes(y, x))
           /\ \A z \in places : Precedes(x, y) /\ Precedes(y, z) => Precedes(x, z)
<1>1. \A x \in places : x = <<x[1], x[2]>> /\ x[1] \in Nat /\ x[2] \in Nat
  BY DEF ArePlaces
<1> SUFFICES ASSUME NEW x \in places, NEW y \in places
             PROVE  /\ ~Precedes(x, x) /\ (x = y \/ Precedes(x, y) \/ Precedes(y, x))
                    /\ \A z \in places : Precedes(x, y) /\ Precedes(y, z) => Precedes(x, z)
  OBVIOUS
<1>2. ~Precedes(x, x)
  BY <1>1 DEF Precedes
<1>3. x = y \/ Precedes(x, y) \/ Precedes(y, x)
  <2>1. x[1] = y[1] /\ x[2] = y[2] => x = y
    BY <1>1
  <2> QED BY <1>1, <2>1 DEF Precedes
<1>4. \A z \in places : Precedes(x, y) /\ Precedes(y, z) => Precedes(x, z)
  BY <1>1 DEF Precedes
<1> QED BY <1>2, <1>3, <1>4

\* All places, one behind the other
Sorted(s, places) ==
  /\ Cardinality(places) \in Nat
  /\ s \in [1 .. Cardinality(places) -> places]
  /\ \A i, j \in DOMAIN s : i < j => Precedes(s[i], s[j])

\* The place of a row in the order is the number of those that do not come behind it
LEMMA SortedExists ==
  ASSUME NEW places, ArePlaces(places)
  PROVE  \E s : Sorted(s, places)
<1> DEFINE upto(x) == {y \in places : y = x \/ Precedes(y, x)}
           rank == [x \in places |-> Cardinality(upto(x))]
<1>1. PICK N : N = Cardinality(places)
  OBVIOUS
<1>2. N \in Nat /\ IsFiniteSet(places)
  BY <1>1, FS_CardinalityType DEF ArePlaces
<1>3. ASSUME NEW x \in places PROVE IsFiniteSet(upto(x)) /\ rank[x] \in 1 .. N
  <2>1. upto(x) \in SUBSET places /\ upto(x) # {}
    OBVIOUS
  <2>2. IsFiniteSet(upto(x)) /\ Cardinality(upto(x)) <= N
    BY <1>1, <1>2, <2>1, FS_Subset
  <2>3. Cardinality(upto(x)) \in Nat /\ Cardinality(upto(x)) # 0
    BY <2>1, <2>2, FS_CardinalityType, FS_EmptySet
  <2> QED BY <1>2, <2>2, <2>3
<1>4. ASSUME NEW x \in places, NEW y \in places, Precedes(x, y) PROVE rank[x] < rank[y]
  <2>1. upto(x) \in SUBSET upto(y) /\ y \in upto(y)
    BY <1>4, OneOrder
  <2>2. y \notin upto(x)
    BY <1>4, OneOrder
  <2>3. Cardinality(upto(x)) <= Cardinality(upto(y)) /\ Cardinality(upto(x)) # Cardinality(upto(y))
    BY <1>3, <2>1, <2>2, FS_Subset
  <2> QED BY <1>2, <1>3, <2>3
<1> HIDE DEF rank
<1>5. rank \in [places -> 1 .. N] /\ \A x, y \in places : rank[x] = rank[y] => x = y
  <2>1. rank \in [places -> 1 .. N]
    BY <1>3 DEF rank
  <2>2. ASSUME NEW x \in places, NEW y \in places, rank[x] = rank[y] PROVE x = y
    <3>1. x = y \/ Precedes(x, y) \/ Precedes(y, x)
      BY OneOrder
    <3>2. rank[x] \in Int /\ rank[y] \in Int
      BY <2>1
    <3> QED BY <1>4, <2>2, <3>1, <3>2
  <2> QED BY <2>1, <2>2
<1>6. \A i \in 1 .. N : \E x \in places : rank[x] = i
  <2>1. rank \in Injection(places, 1 .. N)
    BY <1>5 DEF Injection, IsInjective
  <2>2. IsFiniteSet(1 .. N) /\ Cardinality(1 .. N) = N
    BY <1>2, FS_Interval
  <2>3. rank \in Surjection(places, 1 .. N)
    BY <1>1, <2>1, <2>2, FS_Injection
  <2> QED BY <2>3 DEF Surjection
<1> DEFINE s == [i \in 1 .. N |-> CHOOSE x \in places : rank[x] = i]
<1>7. ASSUME NEW i \in 1 .. N PROVE s[i] \in places /\ rank[s[i]] = i
  BY <1>6
<1>8. s \in [1 .. N -> places]
  BY <1>7
<1> HIDE DEF s
<1>9. ASSUME NEW i \in DOMAIN s, NEW j \in DOMAIN s, i < j PROVE Precedes(s[i], s[j])
  <2>1. i \in 1 .. N /\ j \in 1 .. N
    BY <1>8, <1>9
  <2>2. s[i] \in places /\ s[j] \in places /\ rank[s[i]] = i /\ rank[s[j]] = j
    BY <1>7, <2>1
  <2>3. s[i] = s[j] \/ Precedes(s[i], s[j]) \/ Precedes(s[j], s[i])
    BY <2>2, OneOrder
  <2>4. ~Precedes(s[j], s[i])
    BY <1>4, <1>9, <2>1, <2>2
  <2> QED BY <1>9, <2>1, <2>2, <2>3, <2>4
<1>10. Sorted(s, places)
  BY <1>1, <1>2, <1>8, <1>9 DEF Sorted
<1> QED BY <1>10

\* InOrder is such an order, and leaves no place out
OrderIs(s, places, n) ==
  /\ n \in Nat /\ s \in [1 .. n -> places]
  /\ \A i, j \in 1 .. n : s[i] = s[j] => i = j
  /\ \A x \in places : \E i \in 1 .. n : s[i] = x

LEMMA OrderOf ==
  ASSUME NEW places, ArePlaces(places)
  PROVE  OrderIs(InOrder(places), places, Cardinality(places))
<1>1. PICK s : s = InOrder(places)
  OBVIOUS
<1>2. PICK n : n = Cardinality(places)
  OBVIOUS
<1>3. Sorted(s, places)
  BY <1>1, SortedExists DEF InOrder, Sorted
<1>4. n \in Nat /\ s \in [1 .. n -> places] /\ \A i, j \in 1 .. n : i < j => Precedes(s[i], s[j])
  BY <1>2, <1>3 DEF Sorted
<1>5. ASSUME NEW i \in 1 .. n, NEW j \in 1 .. n, s[i] = s[j] PROVE i = j
  <2>1. s[i] \in places /\ ~Precedes(s[i], s[i])
    BY <1>4, OneOrder
  <2> QED BY <1>4, <1>5, <2>1
<1>6. \A x \in places : \E i \in 1 .. n : s[i] = x
  <2>1. s \in Injection(1 .. n, places)
    BY <1>4, <1>5 DEF Injection, IsInjective
  <2>2. IsFiniteSet(1 .. n) /\ Cardinality(1 .. n) = n
    BY <1>4, FS_Interval
  <2>3. s \in Surjection(1 .. n, places)
    BY <1>2, <2>1, <2>2, FS_Injection DEF ArePlaces
  <2> QED BY <2>3 DEF Surjection
<1> QED BY <1>1, <1>2, <1>4, <1>5, <1>6 DEF OrderIs


-----------------------------------------------------------------------------
(* update and delete: one write for each row *)

\* The write of one part of the row at place pl, whose other part stays
WritesPart(e, pl, old, row) ==
  \/ /\ e.cell = <<"row", pl[1], pl[2]>> /\ e.value = row.is_available
     /\ row.data = old.data
  \/ /\ e.cell = <<"data", pl[1], pl[2]>> /\ e.value = row.data
     /\ row.is_available = old.is_available

\* The rows at the places hits are to be those of new
NewRows(hits, new) ==
  /\ new = [pl \in hits |-> new[pl]]
  /\ \A pl \in hits :
       /\ pl \in PageNo \X (0 .. PageSize)
       /\ pl[1] \in DOMAIN pages /\ pl[2] \in DOMAIN pages[pl[1]].rows
       /\ \A schema \in Schemas :
            RowAt(pages, pl) \in Row(schema) => new[pl] \in Row(schema)

WritesRows(s, sorted, n, hits, new) ==
  /\ OrderIs(sorted, hits, n) /\ IsWrites(s) /\ Len(s) = n
  /\ \A i \in 1 .. n : WritesPart(s[i], sorted[i], RowAt(pages, sorted[i]), new[sorted[i]])

\* The pages after the first k writes
RowsDone(sorted, new, k) ==
  Overwrite(pages, [pl \in {sorted[i] : i \in 1 .. k} |-> new[pl]])

LEMMA PartRows ==
  ASSUME IInv, RowsIInv, NEW hits, NEW new, NewRows(hits, new),
         NEW part, NEW done \in SUBSET hits, part = [pl \in done |-> new[pl]],
         NEW q, q = Overwrite(pages, part)
  PROVE  /\ FileWhole(disk, catalog, q)
         /\ \A n \in DOMAIN pages : /\ q[n].page_number = pages[n].page_number
                                    /\ q[n].remaining_space = pages[n].remaining_space
<1>1. FileWhole(disk, catalog, pages)
  BY StateWhole DEF StateIsWhole
<1>2. PagesType
  BY DEF IInv, TypeOK
<1>3. ASSUME NEW n \in DOMAIN pages, NEW o \in DOMAIN pages[n].rows, <<n, o>> \in DOMAIN part,
             NEW schema \in Schemas, pages[n].rows[o] \in Row(schema)
      PROVE  part[<<n, o>>] \in Row(schema)
  <2>1. RowAt(pages, <<n, o>>) = pages[n].rows[o]
    BY DEF RowAt
  <2>2. <<n, o>> \in hits /\ part[<<n, o>>] = new[<<n, o>>]
    BY <1>3
  <2> QED BY <1>3, <2>1, <2>2 DEF NewRows
<1>4. DOMAIN q = DOMAIN pages
  BY DEF Overwrite
<1>5. ASSUME NEW n \in DOMAIN pages
      PROVE  /\ IsPage(q[n]) /\ q[n].page_number = pages[n].page_number
             /\ q[n].remaining_space = pages[n].remaining_space
  BY <1>2, <1>3, RowsOverwritten
<1>6. ASSUME NEW n \in DOMAIN pages
      PROVE  /\ IsRecord(q[n]) /\ q[n].relation_name = pages[n].relation_name
             /\ q[n].columns = pages[n].columns /\ q[n].next_page_number = pages[n].next_page_number
             /\ q[n].write_ptr = pages[n].write_ptr
             /\ \A schema : RowsFit(pages[n], schema) => RowsFit(q[n], schema)
  BY OverwrittenPagesFit
<1>7. ASSUME NEW n \in DOMAIN pages, NEW i \in DOMAIN catalog, n \in OwnedIn(pages, catalog[i].name)
      PROVE  PageFilled(q[n], catalog[i].schema) /\ RowsFit(q[n], catalog[i].schema)
  <2>1. PageFilled(pages[n], catalog[i].schema) /\ RowsFit(pages[n], catalog[i].schema)
    BY <1>1, <1>7 DEF FileWhole, SpaceRight, RowsRight, RelationFits
  <2> QED BY <1>5, <1>6, <2>1 DEF PageFilled
<1>8. FileWhole(disk, catalog, q)
  BY <1>1, <1>4, <1>5, <1>6, <1>7, PagesReplaced
<1> QED BY <1>5, <1>8

LEMMA CellPlace ==
  ASSUME NEW hits, NEW new, NewRows(hits, new), NEW s, NEW sorted, NEW n,
         WritesRows(s, sorted, n, hits, new),
         NEW i \in 1 .. n, NEW x, NEW m, NEW o, s[i].cell = <<x, m, o>>
  PROVE  sorted[i] = <<m, o>>
<1>1. PICK pl : pl = sorted[i]
  OBVIOUS
<1>2. pl \in hits
  BY <1>1 DEF WritesRows, OrderIs
<1>3. pl \in PageNo \X (0 .. PageSize)
  BY <1>2 DEF NewRows
<1>4. WritesPart(s[i], pl, RowAt(pages, pl), new[pl])
  BY <1>1 DEF WritesRows
<1>5. pl[1] = m /\ pl[2] = o
  BY <1>4 DEF WritesPart
<1> QED BY <1>1, <1>3, <1>5

\* A row after the first k writes
RowDone(sorted, new, k, m, o) ==
  IF <<m, o>> \in {sorted[i] : i \in 1 .. k} THEN new[<<m, o>>] ELSE pages[m].rows[o]

\* The cells of g are those of f but for the rows at the first k places
RowsIn(f, g, sorted, new, k) ==
  /\ DOMAIN g = DOMAIN f
  /\ \A c : (\A m, o : c # <<"row", m, o>> /\ c # <<"data", m, o>>) => SameCell(f, g, c)
  /\ \A m \in DOMAIN pages : \A o \in DOMAIN pages[m].rows :
       /\ <<"row", m, o>> \in DOMAIN g /\ <<"data", m, o>> \in DOMAIN g
       /\ g[<<"row", m, o>>] = RowDone(sorted, new, k, m, o).is_available
       /\ g[<<"data", m, o>>] = RowDone(sorted, new, k, m, o).data

LEMMA CellsDone ==
  ASSUME NEW hits, NEW new, NewRows(hits, new), NEW s, NEW sorted, NEW n,
         WritesRows(s, sorted, n, hits, new), NEW f, NEW k \in 0 .. n, NEW g, g = Written(f, s, k),
         HasPages(f, pages)
  PROVE  RowsIn(f, g, sorted, new, k)
<1>1. /\ n \in Nat /\ IsWrites(s) /\ Len(s) = n /\ k \in Nat /\ k <= n
      /\ \A i \in 1 .. k : i \in 1 .. n /\ sorted[i] \in hits
  BY DEF WritesRows, OrderIs
<1>2. HoldsLatest(f, s, k, g)
  BY <1>1, WrittenCells
<1>3. \A m \in DOMAIN pages : \A o \in DOMAIN pages[m].rows :
        /\ <<"row", m, o>> \in DOMAIN f /\ f[<<"row", m, o>>] = pages[m].rows[o].is_available
        /\ <<"data", m, o>> \in DOMAIN f /\ f[<<"data", m, o>>] = pages[m].rows[o].data
  BY DEF HasPages, HasPage, HasRows
<1>4. ASSUME NEW i \in 1 .. k
      PROVE  \E m, o : /\ s[i].cell = <<"row", m, o>> \/ s[i].cell = <<"data", m, o>>
                       /\ m \in DOMAIN pages /\ o \in DOMAIN pages[m].rows
  <2>1. PICK pl \in hits : pl = sorted[i]
    BY <1>1
  <2>2. pl[1] \in DOMAIN pages /\ pl[2] \in DOMAIN pages[pl[1]].rows
    BY <2>1 DEF NewRows
  <2>3. WritesPart(s[i], pl, RowAt(pages, pl), new[pl])
    BY <1>1, <2>1 DEF WritesRows
  <2> QED BY <2>2, <2>3 DEF WritesPart
<1>5. \A c : (\A i \in 1 .. k : s[i].cell # c) => SameCell(f, g, c)
  BY <1>2 DEF HoldsLatest, SameCell
<1>6. DOMAIN g = DOMAIN f
  <2>1. \A i \in 1 .. k : s[i].cell \in DOMAIN f
    BY <1>3, <1>4
  <2> QED BY <1>2, <2>1 DEF HoldsLatest
<1>7. \A c : (\A m, o : c # <<"row", m, o>> /\ c # <<"data", m, o>>) => SameCell(f, g, c)
  BY <1>4, <1>5
<1>8. ASSUME NEW m \in DOMAIN pages, NEW o \in DOMAIN pages[m].rows, NEW row,
             row = RowDone(sorted, new, k, m, o)
      PROVE  /\ <<"row", m, o>> \in DOMAIN g /\ g[<<"row", m, o>>] = row.is_available
             /\ <<"data", m, o>> \in DOMAIN g /\ g[<<"data", m, o>>] = row.data
  <2>1. \A i \in 1 .. k : s[i].cell = <<"row", m, o>> \/ s[i].cell = <<"data", m, o>>
                            => sorted[i] = <<m, o>>
    BY <1>1, CellPlace
  <2>2. <<"row", m, o>> \in DOMAIN g /\ <<"data", m, o>> \in DOMAIN g
    BY <1>3, <1>6
  <2>3. CASE <<m, o>> \notin {sorted[i] : i \in 1 .. k}
    <3>1. \A i \in 1 .. k : s[i].cell # <<"row", m, o>> /\ s[i].cell # <<"data", m, o>>
      BY <2>1, <2>3
    <3>2. SameCell(f, g, <<"row", m, o>>) /\ SameCell(f, g, <<"data", m, o>>)
      BY <1>5, <3>1
    <3> QED BY <1>3, <1>8, <2>2, <2>3, <3>2 DEF SameCell, RowDone
  <2>4. ASSUME NEW i \in 1 .. k, sorted[i] = <<m, o>>
        PROVE  g[<<"row", m, o>>] = row.is_available /\ g[<<"data", m, o>>] = row.data
    <3>1. PICK pl : pl = <<m, o>>
      OBVIOUS
    <3>2. pl[1] = m /\ pl[2] = o /\ RowAt(pages, pl) = pages[m].rows[o] /\ row = new[pl]
      BY <1>8, <2>4, <3>1 DEF RowAt, RowDone
    <3>3. WritesPart(s[i], pl, pages[m].rows[o], row)
      BY <1>1, <2>4, <3>1, <3>2 DEF WritesRows
    <3>4. \A j \in 1 .. k : s[j].cell = <<"row", m, o>> \/ s[j].cell = <<"data", m, o>> => j = i
      <4>1. \A j \in 1 .. k : sorted[j] = sorted[i] => j = i
        BY <1>1 DEF WritesRows, OrderIs
      <4> QED BY <2>1, <2>4, <4>1
    <3>5. CASE s[i].cell = <<"row", m, o>>
      <4>1. s[i].value = row.is_available /\ row.data = pages[m].rows[o].data
        BY <3>2, <3>3, <3>5 DEF WritesPart
      <4>2. \A j \in 1 .. k : s[j].cell = s[i].cell => j <= i
        BY <3>4, <3>5
      <4>3. g[s[i].cell] = s[i].value
        BY <1>2, <4>2 DEF HoldsLatest
      <4>4. \A j \in 1 .. k : s[j].cell # <<"data", m, o>>
        BY <3>4, <3>5
      <4>5. SameCell(f, g, <<"data", m, o>>)
        BY <1>5, <4>4
      <4> QED BY <1>3, <3>5, <4>1, <4>3, <4>5 DEF SameCell
    <3>6. CASE s[i].cell = <<"data", m, o>>
      <4>1. s[i].value = row.data /\ row.is_available = pages[m].rows[o].is_available
        BY <3>2, <3>3, <3>6 DEF WritesPart
      <4>2. \A j \in 1 .. k : s[j].cell = s[i].cell => j <= i
        BY <3>4, <3>6
      <4>3. g[s[i].cell] = s[i].value
        BY <1>2, <4>2 DEF HoldsLatest
      <4>4. \A j \in 1 .. k : s[j].cell # <<"row", m, o>>
        BY <3>4, <3>6
      <4>5. SameCell(f, g, <<"row", m, o>>)
        BY <1>5, <4>4
      <4> QED BY <1>3, <3>6, <4>1, <4>3, <4>5 DEF SameCell
    <3> QED BY <3>2, <3>3, <3>5, <3>6 DEF WritesPart
  <2> QED BY <2>2, <2>3, <2>4
<1> QED BY <1>6, <1>7, <1>8 DEF RowsIn

LEMMA RowsHeld ==
  ASSUME IInv, RowsIInv, NEW hits, NEW new, NewRows(hits, new), NEW s, NEW sorted, NEW n,
         WritesRows(s, sorted, n, hits, new), NEW f, NEW k \in 0 .. n,
         Holds(f, disk, catalog, pages)
  PROVE  /\ Holds(Written(f, s, k), disk, catalog, RowsDone(sorted, new, k))
         /\ FileWhole(disk, catalog, RowsDone(sorted, new, k))
         /\ SameCell(f, Written(f, s, k), <<"real">>)
<1>1. PICK g : g = Written(f, s, k)
  OBVIOUS
<1>2. PICK done : done = {sorted[i] : i \in 1 .. k}
  OBVIOUS
<1>3. PICK part : part = [pl \in done |-> new[pl]]
  OBVIOUS
<1>4. PICK q : q = Overwrite(pages, part)
  OBVIOUS
<1>5. q = RowsDone(sorted, new, k)
  BY <1>2, <1>3, <1>4 DEF RowsDone
<1>6. done \in SUBSET hits
  BY <1>2 DEF WritesRows, OrderIs
<1>7. /\ FileWhole(disk, catalog, q)
      /\ \A m \in DOMAIN pages : /\ q[m].page_number = pages[m].page_number
                                 /\ q[m].remaining_space = pages[m].remaining_space
  BY <1>3, <1>4, <1>6, PartRows
<1>8. RowsIn(f, g, sorted, new, k)
  <2>1. HasPages(f, pages)
    BY DEF Holds
  <2> QED BY <1>1, <2>1, CellsDone
<1>9. DOMAIN q = DOMAIN pages /\ q = [m \in DOMAIN pages |-> q[m]]
  BY <1>4 DEF Overwrite
<1>10. ASSUME NEW m \in DOMAIN pages
       PROVE  /\ Readable(q[m]) /\ HeaderOf(q[m]) = HeaderOf(pages[m]) /\ q[m].columns = pages[m].columns
              /\ q[m].write_ptr = pages[m].write_ptr
              /\ DOMAIN q[m].rows = DOMAIN pages[m].rows /\ HasRows(g, m, q[m].rows)
  <2>1. /\ q[m].relation_name = pages[m].relation_name
        /\ q[m].columns = pages[m].columns /\ q[m].next_page_number = pages[m].next_page_number
        /\ q[m].write_ptr = pages[m].write_ptr
        /\ DOMAIN q[m].rows = DOMAIN pages[m].rows
        /\ \A o \in DOMAIN pages[m].rows :
             q[m].rows[o] = IF <<m, o>> \in DOMAIN part THEN part[<<m, o>>] ELSE pages[m].rows[o]
    BY <1>4, OverwrittenPagesFit
  <2>2. q[m].page_number = pages[m].page_number /\ q[m].remaining_space = pages[m].remaining_space
    BY <1>7
  <2>3. Readable(q[m])
    BY <1>7, <1>9, WholeReadable
  <2>4. \A o \in DOMAIN pages[m].rows : q[m].rows[o] = RowDone(sorted, new, k, m, o)
    BY <1>2, <1>3, <2>1 DEF RowDone
  <2>5. HasRows(g, m, q[m].rows)
    BY <1>8, <2>1, <2>4 DEF HasRows, RowsIn
  <2> QED BY <2>1, <2>2, <2>3, <2>5 DEF HeaderOf
<1>11. /\ DOMAIN g = DOMAIN f /\ SameCell(f, g, <<"real">>) /\ SameCell(f, g, <<"database">>)
       /\ \A i : SameCell(f, g, <<"slot", i>>)
       /\ \A m : SameCell(f, g, <<"page", m>>) /\ SameCell(f, g, <<"columns", m>>)
  BY <1>8 DEF RowsIn
<1>12. Holds(g, disk, catalog, q)
  BY <1>9, <1>10, <1>11, RowsWrite
<1> QED BY <1>1, <1>5, <1>7, <1>11, <1>12

\* Pages that have the rows before or after, row by row
LEMMA EachRowOne ==
  ASSUME IInv, RowsIInv, NEW hits, NEW new, NewRows(hits, new), NEW s, NEW sorted, NEW n,
         WritesRows(s, sorted, n, hits, new), NEW k \in 0 .. n, pages' = Overwrite(pages, new)
  PROVE  OneOf(RowsDone(sorted, new, k), pages, pages')
<1>1. PICK part : part = [pl \in {sorted[i] : i \in 1 .. k} |-> new[pl]]
  OBVIOUS
<1>2. PICK q : q = Overwrite(pages, part)
  OBVIOUS
<1>3. q = RowsDone(sorted, new, k)
  BY <1>1, <1>2 DEF RowsDone
<1>4. DOMAIN q = DOMAIN pages /\ DOMAIN pages' = DOMAIN pages
  BY <1>2 DEF Overwrite
<1>5. ASSUME NEW m \in DOMAIN pages
      PROVE  /\ DOMAIN q[m].rows = DOMAIN pages[m].rows /\ DOMAIN pages'[m].rows = DOMAIN pages[m].rows
             /\ \A o \in DOMAIN pages[m].rows :
                  q[m].rows[o] = pages[m].rows[o] \/ q[m].rows[o] = pages'[m].rows[o]
  <2>1. /\ DOMAIN q[m].rows = DOMAIN pages[m].rows
        /\ \A o \in DOMAIN pages[m].rows :
             q[m].rows[o] = IF <<m, o>> \in DOMAIN part THEN part[<<m, o>>] ELSE pages[m].rows[o]
    BY <1>2, OverwrittenPagesFit
  <2>2. /\ DOMAIN pages'[m].rows = DOMAIN pages[m].rows
        /\ \A o \in DOMAIN pages[m].rows :
             pages'[m].rows[o] = IF <<m, o>> \in DOMAIN new THEN new[<<m, o>>] ELSE pages[m].rows[o]
    BY OverwrittenPagesFit
  <2>3. \A pl \in DOMAIN part : pl \in DOMAIN new /\ part[pl] = new[pl]
    BY <1>1 DEF NewRows, WritesRows, OrderIs
  <2> QED BY <2>1, <2>2, <2>3
<1>6. OneOf(q, pages, pages')
  <2> SUFFICES ASSUME NEW m \in PageNo, NEW o \in 0 .. PageSize
               PROVE  Row_(q, m, o) \in {Row_(pages, m, o), Row_(pages', m, o)}
    BY DEF OneOf
  <2>1. CASE m \notin DOMAIN pages
    BY <1>4, <2>1 DEF Row_
  <2>2. CASE m \in DOMAIN pages
    BY <1>4, <1>5, <2>2 DEF Row_
  <2> QED BY <2>1, <2>2
<1> QED BY <1>3, <1>6

LEMMA RowsCarries ==
  ASSUME IInv, RowsIInv, NEW hits, NEW new, NewRows(hits, new),
         pages' = Overwrite(pages, new), disk' = disk, catalog' = catalog,
         NEW s, NEW sorted, NEW n, WritesRows(s, sorted, n, hits, new), NEW f, InFile(f)
  PROVE  Carries(f, s, {})
<1>1. Holds(f, disk, catalog, pages) /\ RealRight(f, disk)
  BY DEF InFile
<1>2. IsWrites(s) /\ Len(s) = n /\ n \in Nat
  BY DEF WritesRows, OrderIs
<1>3. ASSUME NEW k \in 0 .. n
      PROVE  /\ Holds(Written(f, s, k), disk, catalog, RowsDone(sorted, new, k))
             /\ FileWhole(disk, catalog, RowsDone(sorted, new, k))
             /\ OneOf(RowsDone(sorted, new, k), pages, pages')
             /\ RealRight(Written(f, s, k), disk)
  <2>1. /\ Holds(Written(f, s, k), disk, catalog, RowsDone(sorted, new, k))
        /\ FileWhole(disk, catalog, RowsDone(sorted, new, k))
        /\ SameCell(f, Written(f, s, k), <<"real">>)
    BY <1>1, RowsHeld
  <2>2. OneOf(RowsDone(sorted, new, k), pages, pages')
    BY EachRowOne
  <2> QED BY <1>1, <2>1, <2>2 DEF RealRight, SameCell
<1>4. Pending(f, s, {}, pages, pages')
  BY <1>2, <1>3, LeftWhole DEF Pending
<1>5. RowsDone(sorted, new, n) = pages'
  <2>1. {sorted[i] : i \in 1 .. n} = hits
    BY DEF WritesRows, OrderIs
  <2>2. new = [pl \in hits |-> new[pl]]
    BY DEF NewRows
  <2> QED BY <2>1, <2>2 DEF RowsDone
<1>6. n \in 0 .. n
  BY <1>2
<1>7. Done(f, s, disk', catalog', pages')
  BY <1>2, <1>3, <1>5, <1>6 DEF Done
<1> QED BY <1>2, <1>4, <1>7 DEF Carries


\* Where the rows that a filter finds are
PlacesOfRows(hits) ==
  /\ ArePlaces(hits)
  /\ \A pl \in hits :
       /\ pl \in PageNo \X (0 .. PageSize)
       /\ pl[1] \in DOMAIN pages /\ pl[2] \in DOMAIN pages[pl[1]].rows
       /\ \E schema \in Schemas : RowAt(pages, pl) \in Row(schema)

LEMMA HitsArePlaces ==
  ASSUME IInv, RowsIInv, NEW r \in DOMAIN handle, NEW c, NEW value
  PROVE  PlacesOfRows(Hits(r, c, value))
<1>1. PICK hits : hits = Hits(r, c, value)
  OBVIOUS
<1>2. hits \subseteq Live(pages, r)
  BY <1>1, HitsLive
<1>3. \A pl \in hits : /\ pl \in PageNo \X (0 .. PageSize)
                       /\ pl[1] \in DOMAIN pages /\ pl[2] \in DOMAIN pages[pl[1]].rows
  BY <1>2 DEF Live, OwnedIn
<1>4. ASSUME NEW pl \in hits PROVE \E schema \in Schemas : RowAt(pages, pl) \in Row(schema)
  <2>1. IsPage(pages[pl[1]])
    BY <1>3 DEF IInv, TypeOK, PagesType
  <2>2. PICK schema \in Schemas : pages[pl[1]].rows \in [DOMAIN pages[pl[1]].rows -> Row(schema)]
    BY <2>1 DEF IsPage
  <2>3. RowAt(pages, pl) \in Row(schema)
    BY <1>3, <2>2 DEF RowAt
  <2> QED BY <2>3
<1>5. ArePlaces(hits)
  <2>1. PageNo \subseteq Nat /\ 0 .. PageSize \subseteq Nat
    BY MaxPagesAssumption, SizesAssumption DEF PageNo
  <2>2. hits \in SUBSET (Nat \X Nat)
    BY <1>3, <2>1
  <2>3. IsFiniteSet(PageNo) /\ IsFiniteSet(0 .. PageSize)
    BY MaxPagesAssumption, SizesAssumption, FS_Interval DEF PageNo
  <2>4. IsFiniteSet(PageNo \X (0 .. PageSize))
    BY <2>3, FS_Product
  <2>5. hits \in SUBSET (PageNo \X (0 .. PageSize))
    BY <1>3
  <2>6. IsFiniteSet(hits)
    BY <2>4, <2>5, FS_Subset
  <2> QED BY <2>2, <2>6 DEF ArePlaces
<1> QED BY <1>1, <1>3, <1>4, <1>5 DEF PlacesOfRows

LEMMA DeleteCarries ==
  ASSUME IInv, RowsIInv, NEW r \in DOMAIN handle, NEW c \in Column, NEW value \in Domain[c],
         row_delete(r, c, value), NEW f, InFile(f),
         NEW s, s = row_remove_writes(Hits(r, c, value))
  PROVE  Carries(f, s, {})
<1>1. PICK hits : hits = Hits(r, c, value)
  OBVIOUS
<1>2. PICK new : new = [pl \in hits |-> [RowAt(pages, pl) EXCEPT !.is_available = FALSE]]
  OBVIOUS
<1>3. pages' = Overwrite(pages, new) /\ disk' = disk /\ catalog' = catalog
  BY <1>1, <1>2 DEF row_delete
<1>4. PlacesOfRows(hits)
  BY <1>1, HitsArePlaces
<1>5. ASSUME NEW pl \in hits
      PROVE  new[pl].is_available = FALSE /\ new[pl].data = RowAt(pages, pl).data
  <2>1. PICK schema \in Schemas : RowAt(pages, pl) \in Row(schema)
    BY <1>4 DEF PlacesOfRows
  <2> QED BY <1>2, <2>1 DEF Row
<1>6. NewRows(hits, new)
  <2>1. ASSUME NEW pl \in hits, NEW schema \in Schemas, RowAt(pages, pl) \in Row(schema)
        PROVE  new[pl] \in Row(schema)
    BY <1>2, <2>1 DEF Row
  <2>2. new = [pl \in hits |-> new[pl]]
    BY <1>2
  <2> QED BY <1>4, <2>1, <2>2 DEF NewRows, PlacesOfRows
<1>7. PICK sorted : sorted = InOrder(hits)
  OBVIOUS
<1>8. PICK n : n = Cardinality(hits)
  OBVIOUS
<1>9. OrderIs(sorted, hits, n)
  BY <1>4, <1>7, <1>8, OrderOf DEF PlacesOfRows
<1>10. n \in Nat /\ DOMAIN sorted = 1 .. n /\ \A i \in 1 .. n : sorted[i] \in hits
  BY <1>9 DEF OrderIs
<1>11. s = [i \in 1 .. n |-> AfterSeek(<<"row", sorted[i][1], sorted[i][2]>>, FALSE)]
  BY <1>1, <1>7, <1>10 DEF row_remove_writes
<1>12. IsWrites(s) /\ Len(s) = n
  <2>1. s = [i \in 1 .. n |-> s[i]]
    BY <1>11
  <2> QED BY <1>10, <2>1, AreWrites
<1>13. ASSUME NEW i \in 1 .. n
       PROVE  WritesPart(s[i], sorted[i], RowAt(pages, sorted[i]), new[sorted[i]])
  <2>1. s[i].cell = <<"row", sorted[i][1], sorted[i][2]>>
    BY <1>11 DEF AfterSeek
  <2>2. s[i].value = FALSE
    BY <1>11 DEF AfterSeek
  <2>3. new[sorted[i]].is_available = FALSE /\ new[sorted[i]].data = RowAt(pages, sorted[i]).data
    BY <1>5, <1>10
  <2>4. s[i].value = new[sorted[i]].is_available
    BY <2>2, <2>3
  <2> QED BY <2>1, <2>3, <2>4 DEF WritesPart
<1>14. WritesRows(s, sorted, n, hits, new)
  BY <1>9, <1>12, <1>13 DEF WritesRows
<1> QED BY <1>3, <1>6, <1>14, RowsCarries

LEMMA UpdateCarries ==
  ASSUME IInv, RowsIInv, NEW r \in DOMAIN handle, NEW c \in Column, NEW value \in Domain[c],
         NEW set \in Column, NEW val \in Domain[set],
         row_update(r, c, value, set, val), NEW f, InFile(f),
         NEW s, s = update_query_writes(Hits(r, c, value), set, val)
  PROVE  Carries(f, s, {})
<1>1. PICK hits : hits = Hits(r, c, value)
  OBVIOUS
<1>2. PICK new : new = [pl \in hits |-> [RowAt(pages, pl) EXCEPT !.data[set] = val]]
  OBVIOUS
<1>3. pages' = Overwrite(pages, new) /\ disk' = disk /\ catalog' = catalog
  BY <1>1, <1>2 DEF row_update
<1>4. PlacesOfRows(hits)
  BY <1>1, HitsArePlaces
<1>5. ASSUME NEW pl \in hits
      PROVE  /\ new[pl].data = [RowAt(pages, pl).data EXCEPT ![set] = val]
             /\ new[pl].is_available = RowAt(pages, pl).is_available
  <2>1. PICK schema \in Schemas : RowAt(pages, pl) \in Row(schema)
    BY <1>4 DEF PlacesOfRows
  <2>2. PICK row : row = RowAt(pages, pl)
    OBVIOUS
  <2>3. new[pl] = [row EXCEPT !.data = [row.data EXCEPT ![set] = val]]
    BY <1>2, <2>2
  <2>4. row \in Row(schema)
    BY <2>1, <2>2
  <2> QED BY <2>2, <2>3, <2>4 DEF Row
<1>6. NewRows(hits, new)
  <2>1. ASSUME NEW pl \in hits, NEW schema \in Schemas, NEW row, row = RowAt(pages, pl), row \in Row(schema)
        PROVE  new[pl] \in Row(schema)
    <3>1. new[pl] = [row EXCEPT !.data = [row.data EXCEPT ![set] = val]]
      BY <1>2, <2>1
    <3>2. row.data \in Data(schema)
      BY <2>1 DEF Row
    <3>3. [row.data EXCEPT ![set] = val] \in Data(schema)
      BY <3>2, DataUpdated
    <3> QED BY <2>1, <3>1, <3>3 DEF Row
  <2>2. new = [pl \in hits |-> new[pl]]
    BY <1>2
  <2> QED BY <1>4, <2>1, <2>2 DEF NewRows, PlacesOfRows
<1>7. PICK sorted : sorted = InOrder(hits)
  OBVIOUS
<1>8. PICK n : n = Cardinality(hits)
  OBVIOUS
<1>9. OrderIs(sorted, hits, n)
  BY <1>4, <1>7, <1>8, OrderOf DEF PlacesOfRows
<1>10. n \in Nat /\ DOMAIN sorted = 1 .. n /\ \A i \in 1 .. n : sorted[i] \in hits
  BY <1>9 DEF OrderIs
<1>11. s = [i \in 1 .. n |-> AfterSeek(<<"data", sorted[i][1], sorted[i][2]>>,
                                       [RowAt(pages, sorted[i]).data EXCEPT ![set] = val])]
  BY <1>1, <1>7, <1>10 DEF update_query_writes
<1>12. IsWrites(s) /\ Len(s) = n
  <2>1. s = [i \in 1 .. n |-> s[i]]
    BY <1>11
  <2> QED BY <1>10, <2>1, AreWrites
<1>13. ASSUME NEW i \in 1 .. n
       PROVE  WritesPart(s[i], sorted[i], RowAt(pages, sorted[i]), new[sorted[i]])
  <2>1. /\ s[i].cell = <<"data", sorted[i][1], sorted[i][2]>>
        /\ s[i].value = [RowAt(pages, sorted[i]).data EXCEPT ![set] = val]
    BY <1>11 DEF AfterSeek
  <2>2. /\ new[sorted[i]].data = [RowAt(pages, sorted[i]).data EXCEPT ![set] = val]
        /\ new[sorted[i]].is_available = RowAt(pages, sorted[i]).is_available
    BY <1>5, <1>10
  <2> QED BY <2>1, <2>2 DEF WritesPart
<1>14. WritesRows(s, sorted, n, hits, new)
  BY <1>9, <1>12, <1>13 DEF WritesRows
<1> QED BY <1>3, <1>6, <1>14, RowsCarries

-----------------------------------------------------------------------------
(* database_create_in_file *)

\* A file without pages is whole
LEMMA NoPagesWhole ==
  ASSUME NEW d, d \in {NoFile, [relation_count |-> 0, page_count |-> 1]}
  PROVE  FileWhole(d, <<>>, EmptyMap)
<1>1. d \in DbHeader /\ (d.page_count = 0 => d = NoFile) /\ d.relation_count = 0 /\ d.page_count \in {0, 1}
  BY MaxPagesAssumption DEF DbHeader, NoFile
<1>2. DOMAIN EmptyMap = {}
  BY DEF EmptyMap
<1>3. TypesRight(d, <<>>, EmptyMap)
  BY <1>1, <1>2 DEF TypesRight
<1>4. SlotsRight(d, <<>>)
  BY <1>1 DEF SlotsRight
<1>5. ChainsRight(d, <<>>, EmptyMap)
  <2>1. 2 .. d.page_count = {}
    BY <1>1
  <2> QED BY <1>2, <2>1 DEF ChainsRight
<1>6. SpaceRight(<<>>, EmptyMap) /\ RowsRight(<<>>, EmptyMap)
  BY DEF SpaceRight, RowsRight
<1> QED BY <1>3, <1>4, <1>5, <1>6 DEF FileWhole

LEMMA NoFileHeld ==
  /\ IsFile(EmptyMap) /\ Holds(EmptyMap, NoFile, <<>>, EmptyMap)
  /\ RealRight(EmptyMap, NoFile)
<1>1. DOMAIN EmptyMap = {} /\ EmptyMap = [n \in DOMAIN EmptyMap |-> EmptyMap[n]]
  BY DEF EmptyMap
<1>2. HasPages(EmptyMap, EmptyMap)
  <2>1. RowCellsKnown(EmptyMap, EmptyMap)
    BY <1>1 DEF RowCellsKnown
  <2> QED BY <1>1, <2>1 DEF HasPages
<1>3. DatabaseOf(EmptyMap) = NoFile
  BY <1>1 DEF DatabaseOf
<1>4. Len(<<>>) = 0 /\ <<>> = [i \in 1 .. Len(<<>>) |-> <<>>[i]] /\ NoFile.relation_count = 0
  BY DEF NoFile
<1>5. HasSlots(EmptyMap, <<>>)
  BY <1>4 DEF HasSlots
<1>6. Holds(EmptyMap, NoFile, <<>>, EmptyMap)
  BY <1>2, <1>3, <1>4, <1>5 DEF Holds
<1> QED BY <1>1, <1>6 DEF IsFile, RealRight

\* From the empty file to one with the headers of the database and of page 1
CarriesNew(s) ==
  /\ IsWrites(s) /\ Pending(EmptyMap, s, {1}, pages, pages')
  /\ Done(EmptyMap, s, disk', catalog', pages')

LEMMA NewFileCarries ==
  ASSUME database_create_in_file,
         NEW s, s = database_save_to_file([relation_count |-> 0, page_count |-> 1])
  PROVE  CarriesNew(s)
<1>1. PICK d : d = [relation_count |-> 0, page_count |-> 1]
  OBVIOUS
<1>2. disk' = d /\ catalog' = <<>> /\ pages' = EmptyMap /\ d.relation_count = 0
  BY <1>1 DEF database_create_in_file
<1>3. PICK a : a = AfterSeek(<<"database">>, d)
  OBVIOUS
<1>4. PICK b : b = [cell |-> <<"real">>, value |-> 0, fseek |-> FALSE]
  OBVIOUS
<1>5. TwoWrites(s, a, b)
  <2>1. s = <<a>> \o <<b>>
    BY <1>1, <1>3, <1>4 DEF database_save_to_file, Write, Behind
  <2> QED BY <2>1, AreTwo
<1>6. IsWrites(s) /\ Len(s) = 2 /\ s[1] = a /\ s[2] = b
  BY <1>5 DEF TwoWrites
<1>7. PICK f0 : f0 = EmptyMap
  OBVIOUS
<1>8. IsFile(f0) /\ Holds(f0, NoFile, <<>>, EmptyMap) /\ RealRight(f0, NoFile)
  BY <1>7, NoFileHeld
<1>9. OneByOneIs(f0, s)
  BY <1>6, <1>8, OneByOne
<1>10. PICK f1 : f1 = Written(f0, s, 1)
  OBVIOUS
<1>11. PICK f2 : f2 = Written(f0, s, 2)
  OBVIOUS
<1>12. Written(f0, s, 0) = f0 /\ OneMoreIs(f0, s, 1) /\ OneMoreIs(f0, s, 2)
  BY <1>6, <1>9 DEF OneByOneIs
<1>13. f1 = Put(f0, s[1].cell, s[1].value)
  BY <1>10, <1>12 DEF OneMoreIs
<1>14. f1 = Put(f0, <<"database">>, d)
  BY <1>3, <1>6, <1>13 DEF AfterSeek
<1>15. f2 = Put(f1, s[2].cell, s[2].value)
  BY <1>10, <1>11, <1>12 DEF OneMoreIs
<1>16. f2 = Put(f1, <<"real">>, 0)
  BY <1>4, <1>6, <1>15
<1>17. Holds(f1, d, <<>>, EmptyMap)
  <2>1. IsCatalog(<<>>, d)
    BY <1>2 DEF IsCatalog
  <2>2. HasSlots(f0, <<>>)
    BY DEF HasSlots
  <2> QED BY <1>8, <1>14, <2>1, <2>2, DatabaseWrite
<1>18. Holds(f2, d, <<>>, EmptyMap)
  <2>1. Unread(<<"real">>, <<>>, 0)
    BY DEF Unread
  <2> QED BY <1>16, <1>17, <2>1, UnreadWrite
<1>19. RealRight(f2, d)
  BY <1>2, <1>16 DEF RealRight, Put
<1>20. OneOf(EmptyMap, pages, pages')
  BY <1>2, RowsAsAfter
<1>21. FileWhole(NoFile, <<>>, EmptyMap) /\ FileWhole(d, <<>>, EmptyMap)
  BY <1>1, NoPagesWhole
<1>22. Left(f0, 2, {1}, pages, pages')
  BY <1>8, <1>20, <1>21, LeftWhole
<1>23. Left(f1, 1, {1}, pages, pages')
  <2>1. Confined(<<>>, EmptyMap)
    BY <1>21, WholeIsConfined
  <2>2. 1 \in {1}
    OBVIOUS
  <2> QED BY <1>17, <1>20, <2>1, <2>2, LeftTorn
<1>24. Left(f2, 0, {1}, pages, pages')
  BY <1>18, <1>19, <1>20, <1>21, LeftWhole
<1>25. Pending(f0, s, {1}, pages, pages')
  <2> SUFFICES ASSUME NEW k \in 0 .. Len(s)
               PROVE  Left(Written(f0, s, k), Len(s) - k, {1}, pages, pages')
    BY DEF Pending
  <2>1. CASE k = 0
    <3>1. Len(s) - k = 2
      BY <1>6, <2>1
    <3> QED BY <1>12, <1>22, <2>1, <3>1
  <2>2. CASE k = 1
    <3>1. Len(s) - k = 1
      BY <1>6, <2>2
    <3> QED BY <1>10, <1>23, <2>2, <3>1
  <2>3. CASE k = 2
    <3>1. Len(s) - k = 0
      BY <1>6, <2>3
    <3> QED BY <1>11, <1>24, <2>3, <3>1
  <2>4. k = 0 \/ k = 1 \/ k = 2
    BY <1>6
  <2> QED BY <2>1, <2>2, <2>3, <2>4
<1>26. Done(f0, s, disk', catalog', pages')
  BY <1>2, <1>6, <1>11, <1>18, <1>19 DEF Done
<1> QED BY <1>6, <1>7, <1>25, <1>26 DEF CarriesNew

-----------------------------------------------------------------------------
(* The invariant *)

\* The file with all the writes of the last operation is the state
Whereabouts ==
  /\ IsWrites(writes) /\ issued \in 0 .. Len(writes) /\ IsFile(cells)
  /\ Holds(Apply(cells, writes), disk, catalog, pages)

\* The state is whole, and a kill after any of the writes would leave a file that
\* is whole, or that is confined where writes are missing that torn names
Sound ==
  /\ IInv /\ RowsIInv /\ RealRight(Apply(cells, writes), disk)
  /\ Pending(cells, writes, torn, before, pages)

\* A kill has damaged one relation, and the program does not run
Broken == NotRunning /\ writes = <<>> /\ Confined(catalog, pages)

WInv == Whereabouts /\ (~ damaged => Sound) /\ (damaged => Broken)

LEMMA NoWrites ==
  ASSUME NEW f, IsFile(f)
  PROVE  IsWrites(<<>>) /\ Len(<<>>) = 0 /\ Apply(f, <<>>) = f /\ Written(f, <<>>, 0) = f
<1>1. PICK s : s = <<>>
  OBVIOUS
<1>2. s = [i \in 1 .. 0 |-> s[i]]
  BY <1>1
<1>3. IsWrites(s) /\ Len(s) = 0
  BY <1>2, AreWrites
<1>4. Written(f, s, 0) = f
  BY <1>3, WrittenNone
<1>5. Written(f, s, 0) = Apply(f, s)
  BY <1>3, WrittenAll
<1> QED BY <1>1, <1>3, <1>4, <1>5

\* Nothing is written, or everything is
LEMMA NothingPending ==
  ASSUME NEW f, NEW d, NEW c, NEW p, NEW b,
         IsFile(f), Holds(f, d, c, p), FileWhole(d, c, p), RealRight(f, d)
  PROVE  Pending(f, <<>>, {}, b, p) /\ Done(f, <<>>, d, c, p)
<1>1. PICK s : s = <<>>
  OBVIOUS
<1>2. Len(s) = 0 /\ Written(f, s, 0) = f
  BY <1>1, NoWrites
<1>3. OneOf(p, b, p)
  BY RowsAsAfter
<1>4. Left(f, 0, {}, b, p)
  BY <1>3, LeftWhole
<1>5. Pending(f, s, {}, b, p)
  <2> SUFFICES ASSUME NEW k \in 0 .. Len(s) PROVE Left(Written(f, s, k), Len(s) - k, {}, b, p)
    BY DEF Pending
  <2>1. k = 0
    BY <1>2
  <2>2. Len(s) - k = 0
    BY <1>2, <2>1
  <2> QED BY <1>2, <1>4, <2>1, <2>2
<1>6. Done(f, s, d, c, p)
  BY <1>2 DEF Done
<1> QED BY <1>1, <1>5, <1>6

LEMMA NothingCarries ==
  ASSUME IInv, RowsIInv, UNCHANGED <<disk, catalog, pages>>, NEW f, InFile(f)
  PROVE  Carries(f, <<>>, {})
<1>1. FileWhole(disk, catalog, pages)
  BY StateWhole DEF StateIsWhole
<1>2. IsFile(f) /\ Holds(f, disk, catalog, pages) /\ RealRight(f, disk)
  BY DEF InFile
<1>3. Pending(f, <<>>, {}, pages, pages) /\ Done(f, <<>>, disk, catalog, pages)
  BY <1>1, <1>2, NothingPending
<1>4. IsWrites(<<>>)
  BY <1>2, NoWrites
<1> QED BY <1>3, <1>4 DEF Carries

LEMMA IsFileApplied ==
  ASSUME NEW f, NEW s
  PROVE  IsFile(Apply(f, s))
BY DEF IsFile, Apply

\* Where an operation begins
LEMMA StateInFile ==
  ASSUME WInv, ~ damaged
  PROVE  IInv /\ RowsIInv /\ InFile(Apply(cells, writes))
<1>1. IInv /\ RowsIInv /\ RealRight(Apply(cells, writes), disk)
  BY DEF WInv, Sound
<1>2. Holds(Apply(cells, writes), disk, catalog, pages)
  BY DEF WInv, Whereabouts
<1> QED BY <1>1, <1>2, IsFileApplied DEF InFile

LEMMA WritesFollow ==
  ASSUME WInv, ~ damaged, IInv', RowsIInv',
         NEW s, NEW t, Begin(s, t), Carries(Apply(cells, writes), s, t)
  PROVE  WInv'
<1>1. /\ cells' = Apply(cells, writes) /\ writes' = s /\ issued' = 0
      /\ torn' = t /\ before' = pages /\ damaged' = damaged
  BY DEF Begin, fseek
<1>2. PICK f : f = Apply(cells, writes)
  OBVIOUS
<1>3. IsWrites(s) /\ Pending(f, s, t, pages, pages') /\ Done(f, s, disk', catalog', pages')
  BY <1>2 DEF Carries
<1>4. Written(f, s, Len(s)) = Apply(f, s)
  BY <1>3, WrittenAll
<1>5. Holds(Apply(f, s), disk', catalog', pages') /\ RealRight(Apply(f, s), disk')
  BY <1>3, <1>4 DEF Done
<1>6. IsFile(f)
  BY <1>2, IsFileApplied
<1>7. 0 \in 0 .. Len(s)
  BY <1>3 DEF IsWrites
<1>8. Whereabouts'
  BY <1>1, <1>2, <1>3, <1>5, <1>6, <1>7 DEF Whereabouts
<1>9. Sound'
  BY <1>1, <1>2, <1>3, <1>5 DEF Sound
<1> QED BY <1>1, <1>8, <1>9 DEF WInv

-----------------------------------------------------------------------------
(* Each step keeps it *)

LEMMA StoreKeeps ==
  ASSUME IInv, RowsIInv, Next
  PROVE  IInv' /\ RowsIInv'
BY NextIInv, NextRowsIInv

LEMMA InitWInv == WritesInit => WInv
<1> SUFFICES ASSUME WritesInit PROVE WInv
  OBVIOUS
<1>1. /\ disk = NoFile /\ catalog = <<>> /\ pages = EmptyMap
      /\ cells = EmptyMap /\ writes = <<>> /\ issued = 0 /\ torn = {} /\ damaged = FALSE
  BY DEF WritesInit, Init
<1>2. PICK f : f = EmptyMap
  OBVIOUS
<1>3. IsFile(f) /\ Holds(f, NoFile, <<>>, EmptyMap) /\ RealRight(f, NoFile)
  BY <1>2, NoFileHeld
<1>4. IsWrites(<<>>) /\ Len(<<>>) = 0 /\ Apply(f, <<>>) = f
  BY <1>3, NoWrites
<1>5. IInv /\ RowsIInv
  BY InitIInv, InitRowsIInv DEF WritesInit
<1>6. FileWhole(NoFile, <<>>, EmptyMap)
  BY NoPagesWhole
<1>7. Pending(f, <<>>, {}, before, EmptyMap)
  BY <1>3, <1>6, NothingPending
<1>8. Whereabouts
  BY <1>1, <1>2, <1>3, <1>4 DEF Whereabouts
<1>9. Sound
  BY <1>1, <1>2, <1>3, <1>4, <1>5, <1>7 DEF Sound
<1> QED BY <1>1, <1>8, <1>9 DEF WInv

LEMMA CreateFileKeeps ==
  ASSUME WInv, create_file
  PROVE  WInv'
<1>1. PICK s : s = database_save_to_file([relation_count |-> 0, page_count |-> 1])
  OBVIOUS
<1>2. /\ database_create_in_file /\ cells' = EmptyMap /\ writes' = s /\ issued' = 0
      /\ torn' = {1} /\ before' = pages /\ damaged' = FALSE
  BY <1>1 DEF create_file
<1>3. DOMAIN handle = {} /\ indexed \subseteq Rel
  <2>1. CASE damaged
    BY <2>1 DEF WInv, Broken, NotRunning, EmptyMap
  <2>2. CASE ~ damaged
    <3>1. IInv /\ ~ opened
      BY <1>2, <2>2 DEF WInv, Sound, database_create_in_file
    <3> QED BY <3>1 DEF IInv, TypeOK, SessionType, SavedInv
  <2> QED BY <2>1, <2>2
<1>4. IInv' /\ RowsIInv'
  BY <1>2, <1>3, CreateFile, CreateFileRowsIInv
<1>5. CarriesNew(s)
  BY <1>1, <1>2, NewFileCarries
<1>6. PICK f : f = EmptyMap
  OBVIOUS
<1>7. IsWrites(s) /\ Pending(f, s, {1}, pages, pages') /\ Done(f, s, disk', catalog', pages')
  BY <1>5, <1>6 DEF CarriesNew
<1>8. Written(f, s, Len(s)) = Apply(f, s)
  BY <1>7, WrittenAll
<1>9. Holds(Apply(f, s), disk', catalog', pages') /\ RealRight(Apply(f, s), disk')
  BY <1>7, <1>8 DEF Done
<1>10. IsFile(f) /\ 0 \in 0 .. Len(s)
  BY <1>6, <1>7, NoFileHeld DEF IsWrites
<1>11. Whereabouts'
  BY <1>2, <1>6, <1>7, <1>9, <1>10 DEF Whereabouts
<1>12. Sound'
  BY <1>2, <1>4, <1>6, <1>7, <1>9 DEF Sound
<1> QED BY <1>2, <1>11, <1>12 DEF WInv

LEMMA SessionKeeps ==
  ASSUME WInv, AtRest, session
  PROVE  WInv'
<1>1. ~ damaged
  BY DEF AtRest
<1>2. PICK f : f = Apply(cells, writes)
  OBVIOUS
<1>3. IInv /\ RowsIInv /\ InFile(f)
  BY <1>1, <1>2, StateInFile
<1>4. ASSUME Next, UNCHANGED file, Flush PROVE WInv'
  <2>1. IInv' /\ RowsIInv'
    BY <1>3, <1>4, StoreKeeps
  <2>2. UNCHANGED <<disk, catalog, pages>>
    BY <1>4 DEF file
  <2>3. Carries(f, <<>>, {})
    BY <1>3, <2>2, NothingCarries
  <2>4. Begin(<<>>, {})
    BY <1>4 DEF Flush
  <2> QED BY <1>1, <1>2, <2>1, <2>3, <2>4, WritesFollow
<1>5. CASE database_get_from_file /\ Flush
  <2>1. Next /\ UNCHANGED file
    BY <1>5 DEF Next, database_get_from_file, file
  <2> QED BY <1>4, <1>5, <2>1
<1>6. CASE database_close /\ Flush
  <2>1. Next /\ UNCHANGED file
    BY <1>6 DEF Next, database_close, file
  <2> QED BY <1>4, <1>6, <2>1
<1>7. ASSUME NEW r \in Rel, relation_get(r), Flush PROVE WInv'
  <2>1. Next /\ UNCHANGED file
    BY <1>7 DEF Next, relation_get, file
  <2> QED BY <1>4, <1>7, <2>1
<1>8. ASSUME NEW r \in Rel, relation_close(r), UNCHANGED io PROVE WInv'
  <2>1. Next
    BY <1>8 DEF Next
  <2>2. UNCHANGED file
    BY <1>8 DEF relation_close, file
  <2>3. IInv' /\ RowsIInv'
    BY <1>3, <2>1, StoreKeeps
  <2>4. UNCHANGED <<disk, catalog, pages, cells, writes, issued, torn, before, damaged>>
    BY <1>8, <2>2 DEF io, file
  <2>5. Whereabouts'
    BY <2>4 DEF WInv, Whereabouts
  <2>6. Sound'
    BY <1>1, <2>3, <2>4 DEF WInv, Sound
  <2> QED BY <1>1, <2>4, <2>5, <2>6 DEF WInv
<1> QED BY <1>5, <1>6, <1>7, <1>8 DEF session

LEMMA WritingKeeps ==
  ASSUME WInv, AtRest, Next, NEW s, NEW t, Begin(s, t),
         InFile(Apply(cells, writes)) => Carries(Apply(cells, writes), s, t)
  PROVE  WInv'
<1>1. ~ damaged
  BY DEF AtRest
<1>2. IInv /\ RowsIInv /\ InFile(Apply(cells, writes))
  BY <1>1, StateInFile
<1>3. IInv' /\ RowsIInv'
  BY <1>2, StoreKeeps
<1>4. Carries(Apply(cells, writes), s, t)
  BY <1>2
<1> QED BY <1>1, <1>3, <1>4, WritesFollow

LEMMA OperationKeeps ==
  ASSUME WInv, operation
  PROVE  WInv'
<1>1. AtRest
  BY DEF operation
<1>2. PICK f : f = Apply(cells, writes)
  OBVIOUS
<1>3. IInv /\ RowsIInv /\ InFile(f)
  BY <1>1, <1>2, StateInFile DEF AtRest
<1>4. CASE session
  BY <1>1, <1>4, SessionKeeps
<1>5. ASSUME NEW r \in Rel, NEW schema \in Schemas, create(r, schema) PROVE WInv'
  <2>1. PICK s : s = relation_create_writes(f, r, schema)
    OBVIOUS
  <2>2. relation_create(r, schema) /\ Begin(s, 1 .. 4)
    BY <1>2, <1>5, <2>1 DEF create
  <2>3. Carries(f, s, 1 .. 4)
    BY <1>3, <2>1, <2>2, CreateCarries
  <2>4. Next
    BY <2>2 DEF Next
  <2> QED BY <1>1, <1>2, <2>2, <2>3, <2>4, WritingKeeps
<1>6. ASSUME NEW r \in DOMAIN handle, NEW data \in Data(Schema(r)), insert(r, data) PROVE WInv'
  <2>1. PICK s : s = row_writes(LastPage(r), Schema(r), data)
    OBVIOUS
  <2>2. row_insert(r, data) /\ Begin(s, {})
    BY <1>6, <2>1 DEF insert
  <2>3. Carries(f, s, {})
    BY <1>3, <2>1, <2>2, InsertCarries
  <2>4. Next
    BY <2>2 DEF Next
  <2> QED BY <1>1, <1>2, <2>2, <2>3, <2>4, WritingKeeps
<1>7. ASSUME NEW r \in DOMAIN handle, NEW data \in Data(Schema(r)), insert_new_page(r, data) PROVE WInv'
  <2>1. PICK s : s = row_write_to_page_writes(r, data)
    OBVIOUS
  <2>2. row_insert_new_page(r, data) /\ Begin(s, 4 .. 8)
    BY <1>7, <2>1 DEF insert_new_page
  <2>3. Carries(f, s, 4 .. 8)
    BY <1>3, <2>1, <2>2, NewPageCarries
  <2>4. Next
    BY <2>2 DEF Next
  <2> QED BY <1>1, <1>2, <2>2, <2>3, <2>4, WritingKeeps
<1>8. ASSUME NEW r \in DOMAIN handle, NEW c \in Column, NEW value \in Domain[c], delete(r, c, value) PROVE WInv'
  <2>1. PICK s : s = row_remove_writes(Hits(r, c, value))
    OBVIOUS
  <2>2. row_delete(r, c, value) /\ Begin(s, {})
    BY <1>8, <2>1 DEF delete
  <2>3. Carries(f, s, {})
    BY <1>3, <2>1, <2>2, DeleteCarries
  <2>4. Next
    BY <2>2 DEF Next
  <2> QED BY <1>1, <1>2, <2>2, <2>3, <2>4, WritingKeeps
<1>9. ASSUME NEW r \in DOMAIN handle, NEW c \in Column, NEW value \in Domain[c],
             NEW set \in Column, NEW new \in Domain[set], update(r, c, value, set, new)
      PROVE WInv'
  <2>1. PICK s : s = update_query_writes(Hits(r, c, value), set, new)
    OBVIOUS
  <2>2. row_update(r, c, value, set, new) /\ Begin(s, {})
    BY <1>9, <2>1 DEF update
  <2>3. Carries(f, s, {})
    BY <1>3, <2>1, <2>2, UpdateCarries
  <2>4. Next
    BY <2>2 DEF Next
  <2> QED BY <1>1, <1>2, <2>2, <2>3, <2>4, WritingKeeps
<1> QED BY <1>4, <1>5, <1>6, <1>7, <1>8, <1>9 DEF operation

LEMMA FwriteKeeps ==
  ASSUME WInv, fwrite
  PROVE  WInv'
<1>1. PICK s : s = writes
  OBVIOUS
<1>2. PICK l : l = issued
  OBVIOUS
<1>3. IsWrites(s) /\ Len(s) \in Nat /\ l \in Nat /\ l < Len(s)
  BY <1>1, <1>2 DEF WInv, Whereabouts, IsWrites, fwrite
<1>4. ~ damaged
  BY <1>1, <1>2, <1>3 DEF WInv, Broken
<1>5. UNCHANGED vars /\ UNCHANGED <<torn, before, damaged>>
  BY DEF fwrite
<1>6. IInv' /\ RowsIInv'
  BY <1>4, <1>5, NextIInv, NextRowsIInv DEF WInv, Sound
<1>7. UNCHANGED <<disk, catalog, pages>>
  BY <1>5 DEF vars
<1>8. CASE s[l + 1].fseek
  <2>1. PICK rest : rest = SubSeq(s, l + 1, Len(s))
    OBVIOUS
  <2>2. PICK g : g = Written(cells, s, l)
    OBVIOUS
  <2>3. cells' = g /\ writes' = rest /\ issued' = 1
    BY <1>1, <1>2, <1>8, <2>1, <2>2 DEF fwrite, fseek, Written
  <2>4. ASSUME NEW k \in Nat, l + k <= Len(s)
        PROVE  IsWrites(rest) /\ Len(rest) = Len(s) - l /\ Written(g, rest, k) = Written(cells, s, l + k)
    <3>1. PICK f : f = cells
      OBVIOUS
    <3>2. IsWrites(s)
      BY <1>3
    <3>3. l \in Nat /\ k \in Nat
      BY <1>3, <2>4
    <3>4. l + k <= Len(s)
      BY <2>4
    <3>5. RestOf(s, l, rest)
      BY <2>1 DEF RestOf
    <3>6. WritesOn(f, s, l, k, rest)
      BY <3>2, <3>3, <3>4, <3>5, WrittenOn
    <3> QED BY <2>2, <3>1, <3>6 DEF WritesOn
  <2>5. IsWrites(rest) /\ Len(rest) = Len(s) - l
    <3>1. 0 \in Nat /\ l + 0 <= Len(s)
      BY <1>3
    <3> QED BY <2>4, <3>1
  <2>6. Apply(g, rest) = Apply(cells, s)
    <3>1. PICK k : k = Len(rest)
      OBVIOUS
    <3>2. k \in Nat /\ l + k <= Len(s) /\ l + k = Len(s)
      BY <1>3, <2>5, <3>1
    <3>3. Written(g, rest, k) = Written(cells, s, Len(s))
      BY <2>4, <3>2
    <3>4. Written(g, rest, k) = Apply(g, rest)
      BY <2>5, <3>1, WrittenAll
    <3>5. Written(cells, s, Len(s)) = Apply(cells, s)
      BY <1>3, WrittenAll
    <3> QED BY <3>3, <3>4, <3>5
  <2>7. IsFile(g)
    BY <2>2, IsFileApplied DEF Written
  <2>8. 1 \in 0 .. Len(rest)
    BY <1>3, <2>5
  <2>9. Whereabouts'
    BY <1>1, <1>7, <2>3, <2>5, <2>6, <2>7, <2>8 DEF WInv, Whereabouts
  <2>10. Pending(g, rest, torn, before, pages)
    <3> SUFFICES ASSUME NEW k \in 0 .. Len(rest)
                 PROVE  Left(Written(g, rest, k), Len(rest) - k, torn, before, pages)
      BY DEF Pending
    <3>1. PICK m : m = Len(s)
      OBVIOUS
    <3>2. Len(rest) = m - l /\ m \in Nat
      BY <1>3, <2>5, <3>1
    <3>3. k \in Nat /\ k <= m - l
      BY <1>3, <3>2
    <3>4. l + k <= m /\ l + k \in 0 .. m /\ Len(rest) - k = m - (l + k)
      BY <1>3, <3>2, <3>3
    <3>5. Written(g, rest, k) = Written(cells, s, l + k)
      BY <2>4, <3>1, <3>3, <3>4
    <3>6. Left(Written(cells, s, l + k), m - (l + k), torn, before, pages)
      BY <1>1, <1>4, <3>1, <3>4 DEF WInv, Sound, Pending
    <3> QED BY <3>4, <3>5, <3>6
  <2>11. RealRight(Apply(g, rest), disk)
    BY <1>1, <1>4, <2>6 DEF WInv, Sound
  <2>12. Sound'
    BY <1>5, <1>6, <1>7, <2>3, <2>10, <2>11 DEF Sound
  <2> QED BY <1>4, <1>5, <2>9, <2>12 DEF WInv
<1>9. CASE ~ s[l + 1].fseek
  <2>1. issued' = l + 1 /\ UNCHANGED <<cells, writes>>
    BY <1>1, <1>2, <1>9 DEF fwrite
  <2>2. l + 1 \in 0 .. Len(s)
    BY <1>3
  <2>3. Whereabouts'
    BY <1>1, <1>7, <2>1, <2>2 DEF WInv, Whereabouts
  <2>4. Sound'
    BY <1>4, <1>5, <1>6, <1>7, <2>1 DEF WInv, Sound
  <2> QED BY <1>4, <1>5, <2>3, <2>4 DEF WInv
<1> QED BY <1>8, <1>9

\* What the program that is started after a kill finds
LEMMA KillLeaves ==
  ASSUME WInv, kill
  PROVE  /\ ~ damaged
         /\ \E k \in 0 .. issued :
              /\ cells' = Written(cells, writes, k)
              /\ disk' = DatabaseOf(cells') /\ catalog' = CatalogOf(cells') /\ pages' = PagesOf(cells')
              /\ damaged' = (Len(writes) - k \in torn)
              /\ Left(cells', Len(writes) - k, torn, before, pages)
<1>1. ~ damaged
  BY DEF WInv, Broken, NotRunning, kill
<1>2. PICK k \in 0 .. issued :
        /\ cells' = Apply(cells, SubSeq(writes, 1, k))
        /\ disk' = DatabaseOf(cells') /\ catalog' = CatalogOf(cells') /\ pages' = PagesOf(cells')
        /\ damaged' = (Len(writes) - k \in torn)
  BY DEF kill
<1>3. cells' = Written(cells, writes, k)
  BY <1>2 DEF Written
<1>4. k \in 0 .. Len(writes)
  BY <1>2 DEF WInv, Whereabouts, IsWrites
<1>5. Left(Written(cells, writes, k), Len(writes) - k, torn, before, pages)
  BY <1>1, <1>4 DEF WInv, Sound, Pending
<1>6. Left(cells', Len(writes) - k, torn, before, pages)
  BY <1>3, <1>5
<1> QED BY <1>1, <1>2, <1>3, <1>6

LEMMA KillKeeps ==
  ASSUME WInv, kill
  PROVE  WInv'
<1>1. PICK k \in 0 .. issued :
        /\ cells' = Written(cells, writes, k)
        /\ disk' = DatabaseOf(cells') /\ catalog' = CatalogOf(cells') /\ pages' = PagesOf(cells')
        /\ damaged' = (Len(writes) - k \in torn)
        /\ Left(cells', Len(writes) - k, torn, before, pages)
  BY KillLeaves
<1>2. PICK g : g = cells'
  OBVIOUS
<1>3. PICK d, c, q :
        /\ Holds(g, d, c, q)
        /\ IF damaged' THEN Confined(c, q) ELSE FileWhole(d, c, q) /\ RealRight(g, d)
  BY <1>1, <1>2 DEF Left
<1>4. disk' = d /\ catalog' = c /\ pages' = q
  BY <1>1, <1>2, <1>3, ReadBack
<1>5. writes' = <<>> /\ issued' = 0 /\ torn' = {}
  BY DEF kill
<1>6. NotRunning'
  BY DEF kill, NotRunning, Reply, Answers
<1>7. IsFile(g)
  BY <1>1, <1>2, IsFileApplied DEF Written
<1>8. IsWrites(<<>>) /\ Len(<<>>) = 0 /\ Apply(g, <<>>) = g
  BY <1>7, NoWrites
<1>9. Whereabouts'
  BY <1>2, <1>3, <1>4, <1>5, <1>7, <1>8 DEF Whereabouts
<1>10. CASE damaged'
  <2>1. Broken'
    BY <1>3, <1>4, <1>5, <1>6, <1>10 DEF Broken
  <2> QED BY <1>9, <1>10, <2>1 DEF WInv
<1>11. CASE ~ damaged'
  <2>1. FileWhole(d, c, q) /\ RealRight(g, d)
    BY <1>3, <1>11
  <2>2. StateIsWhole'
    BY <1>4, <2>1 DEF StateIsWhole
  <2>3. IInv' /\ RowsIInv'
    BY <1>6, <2>2, WholeStateNext
  <2>4. PICK b : b = before'
    OBVIOUS
  <2>5. Pending(g, <<>>, {}, b, q)
    BY <1>3, <1>7, <2>1, NothingPending
  <2>6. Sound'
    BY <1>2, <1>4, <1>5, <1>8, <2>1, <2>3, <2>4, <2>5 DEF Sound
  <2> QED BY <1>9, <1>11, <2>6 DEF WInv
<1> QED BY <1>10, <1>11

LEMMA NextWInv == WInv /\ [WritesNext]_all => WInv'
<1> SUFFICES ASSUME WInv, [WritesNext]_all PROVE WInv'
  OBVIOUS
<1>1. CASE fwrite
  BY <1>1, FwriteKeeps
<1>2. CASE kill
  BY <1>2, KillKeeps
<1>3. CASE create_file
  BY <1>3, CreateFileKeeps
<1>4. CASE operation
  BY <1>4, OperationKeeps
<1>5. CASE UNCHANGED all
  <2>1. UNCHANGED vars /\ UNCHANGED <<cells, writes, issued, torn, before, damaged>>
    BY <1>5 DEF all, io
  <2>2. UNCHANGED <<opened, mem, disk, catalog, pages, handle, indexed, reply>>
    BY <2>1 DEF vars
  <2>3. Whereabouts'
    BY <2>1, <2>2 DEF WInv, Whereabouts
  <2>4. ~ damaged => Sound'
    <3>1. ~ damaged => IInv' /\ RowsIInv'
      BY <2>1, NextIInv, NextRowsIInv DEF WInv, Sound
    <3> QED BY <2>1, <2>2, <3>1 DEF WInv, Sound
  <2>5. damaged => Broken'
    BY <2>1, <2>2 DEF WInv, Broken, NotRunning
  <2> QED BY <2>1, <2>3, <2>4, <2>5 DEF WInv
<1> QED BY <1>1, <1>2, <1>3, <1>4, <1>5 DEF WritesNext

LEMMA WritesInvariant == WritesSpec => []WInv
<1>1. WInv /\ [WritesNext]_all => WInv'
  BY NextWInv
<1> QED BY <1>1, InitWInv, PTL DEF WritesSpec

-----------------------------------------------------------------------------
(* The theorems *)

\* The writes of each operation, in the order of the code, add up to what PageStore
\* does in one step: read back through stdio, the file is the state.  For pages,
\* schemas and files of every size, and after every sequence of kills.
THEOREM WritesAddUp == WritesSpec => []WrittenInv
<1>1. WInv => WrittenInv
  <2> SUFFICES ASSUME WInv PROVE WrittenInv
    OBVIOUS
  <2>1. Holds(Apply(cells, writes), disk, catalog, pages)
    BY DEF WInv, Whereabouts
  <2>2. /\ DatabaseOf(Apply(cells, writes)) = disk
        /\ CatalogOf(Apply(cells, writes)) = catalog
        /\ PagesOf(Apply(cells, writes)) = pages
    BY <2>1, ReadBack
  <2> QED BY <2>2 DEF WrittenInv
<1> QED BY <1>1, WritesInvariant, PTL

\* A kill at any write of an insert into a page with room, of an update or of a
\* delete leaves a file as whole as ever, and so does every history of operations
\* and such kills: the catalog, the chains of pages, the space in them and the rows
\* that a scan reaches.
THEOREM KillLeavesWhole == WritesSpec => []WholeInv
<1>1. WInv => WholeInv
  <2> SUFFICES ASSUME WInv, ~ damaged
               PROVE  CatalogInv /\ ChainInv /\ SpaceInv /\ RowsInv /\ ScanInv
    BY DEF WholeInv
  <2>1. IInv /\ RowsIInv
    BY DEF WInv, Sound
  <2>2. RowsInv
    BY <2>1, RowsFound
  <2>3. ScanInv
    BY <2>1, ScanFound
  <2> QED BY <2>1, <2>2, <2>3 DEF IInv
<1> QED BY <1>1, WritesInvariant, PTL

\* Where a kill in a create, or in an insert that adds a page, leaves a damaged
\* file, the damage is in one relation: every slot is at its number and all the
\* other relations have their pages, their chain and their rows.
THEOREM DamageConfined == WritesSpec => []ConfinedInv
<1>1. WInv => ConfinedInv
  <2> SUFFICES ASSUME WInv PROVE ConfinedInv
    OBVIOUS
  <2>1. CASE damaged
    <3>1. Confined(catalog, pages)
      BY <2>1 DEF WInv, Broken
    <3> QED BY <3>1, ConfinedState
  <2>2. CASE ~ damaged
    BY <2>2 DEF ConfinedInv
  <2> QED BY <2>1, <2>2
<1> QED BY <1>1, WritesInvariant, PTL

\* A kill, whatever stdio holds at that moment, loses at most the last operation:
\* each row is what it was before that operation or what it was to be after it.
THEOREM KillLosesOnlyLast == WritesSpec => KillLosesLast
<1> DEFINE Kept ==
      \A n \in PageNo : \A o \in 0 .. PageSize :
        Row_(pages', n, o) \in {Row_(before, n, o), Row_(pages, n, o)}
<1>1. WInv /\ [WritesNext]_all => [kill => Kept]_all
  <2> SUFFICES ASSUME WInv, kill PROVE Kept
    OBVIOUS
  <2>1. PICK k \in 0 .. issued :
          /\ pages' = PagesOf(cells')
          /\ Left(cells', Len(writes) - k, torn, before, pages)
    BY KillLeaves
  <2>2. PICK d, c, q : Holds(cells', d, c, q) /\ OneOf(q, before, pages)
    BY <2>1 DEF Left
  <2>3. pages' = q
    BY <2>1, <2>2, ReadBack
  <2> QED BY <2>2, <2>3 DEF OneOf
<1> HIDE DEF Kept
<1>2. WritesSpec => [][kill => Kept]_all
  BY <1>1, WritesInvariant, PTL DEF WritesSpec
<1> QED BY <1>2 DEF KillLosesLast, Kept
=============================================================================
