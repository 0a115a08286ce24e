--------------------------- MODULE CatalogProofs ---------------------------
(***************************************************************************)
(* Which relation headers the catalog keeps, proved for any sizes, any names  *)
(* and any number of relations.                                             *)
(***************************************************************************)
EXTENDS Catalog, SequenceTheorems, Numbers

-----------------------------------------------------------------------------
(* The inductive invariant *)

CatalogPage == [remaining_space : Int, write_ptr : Nat, next_page_number : Nat]

CatalogTypeOK ==
  /\ created \in Seq(Name) /\ slot \in Seq(Name \cup {NoName})
  /\ db \in [relation_count : Nat, page_count : Nat, last_page_number : Nat]
  /\ real \in [DOMAIN real -> CatalogPage]
  /\ DOMAIN real \subseteq 1 .. db.page_count
  /\ 1 \in DOMAIN real /\ db.last_page_number \in DOMAIN real
  /\ db.relation_count = Len(created)

\* The offset of the header behind the first m of a later catalog page, which is
\* taken for an offset in the file
LaterAt(m) == PageHeaderSize + m * RelHeaderSize

\* The headers are on page 1
OnFirstPage ==
  /\ db.last_page_number = 1 /\ Len(created) <= Capacity
  /\ real[1].write_ptr = SlotStart(Len(created) + 1)
  /\ real[1].remaining_space = PageSize - SlotStart(Len(created) + 1)
  /\ real[1].next_page_number = 0
  /\ Len(slot) = Len(created)
  /\ \A i \in 1 .. Len(slot) : slot[i] = created[i]

\* Page 1 is full, and the last catalog page has m headers.  When there is a third
\* catalog page nothing on page 1 is left to be lost.
OnLaterPage(m) ==
  LET lost == Len(created) - Capacity
      last == real[db.last_page_number] IN
  /\ db.last_page_number # 1 /\ lost >= 1
  /\ last.write_ptr = LaterAt(m) /\ last.remaining_space = PageSize - LaterAt(m)
  /\ m = lost \/ lost >= Capacity
  /\ real[1].write_ptr = 0
  /\ Len(slot) = Capacity
  /\ \A i \in 1 .. Len(slot) : slot[i] = IF i <= lost THEN NoName ELSE created[i]

CatalogIInv ==
  /\ CatalogTypeOK
  /\ OnFirstPage \/ \E m \in 1 .. Len(created) : OnLaterPage(m)
-----------------------------------------------------------------------------
(* Offsets *)

LEMMA Quotient ==
  ASSUME NEW a \in Nat, NEW R \in Nat \ {0}
  PROVE  /\ a \div R \in Nat
         /\ (a \div R) * R <= a /\ a < (a \div R) * R + R
  OBVIOUS

\* The slots of page 1 and the places on a later page, each R behind the one before
LEMMA SlotOffsets ==
  ASSUME NEW i \in Nat
  PROVE  /\ i * RelHeaderSize \in Nat
         /\ SlotStart(i + 1) = Base + i * RelHeaderSize
         /\ SlotStart(i + 2) = SlotStart(i + 1) + RelHeaderSize
         /\ LaterAt(i + 1) = LaterAt(i) + RelHeaderSize
         /\ SlotStart(i + 1) \in Nat \ {0} /\ LaterAt(i) \in Nat
         /\ SlotStart(i + 1) = LaterAt(i) + DbHeaderSize
  <1>1. (i + 1) - 1 = i /\ (i + 2) - 1 = i + 1
    OBVIOUS
  <1>2. i * RelHeaderSize \in Nat /\ (i + 1) * RelHeaderSize = i * RelHeaderSize + RelHeaderSize
    BY Multiples, CatalogAssumption
  <1> QED
    BY <1>1, <1>2, CatalogAssumption DEF SlotStart, LaterAt, Base

\* The same without the products
LEMMA SlotSteps ==
  ASSUME NEW i \in Nat
  PROVE  /\ SlotStart(i + 1) \in Nat \ {0} /\ LaterAt(i) \in Nat
         /\ SlotStart(i + 2) = SlotStart(i + 1) + RelHeaderSize
         /\ LaterAt(i + 1) = LaterAt(i) + RelHeaderSize
         /\ SlotStart(i + 1) = LaterAt(i) + DbHeaderSize
  BY SlotOffsets

LEMMA FirstSlots ==
  SlotStart(1) = DbHeaderSize + PageHeaderSize /\ LaterAt(0) = PageHeaderSize
  BY CatalogAssumption DEF SlotStart, LaterAt, Base

\* What fits on page 1, and that no more does
LEMMA Capacities ==
  /\ Capacity \in Nat \ {0}
  /\ SlotStart(Capacity + 1) <= PageSize /\ PageSize < SlotStart(Capacity + 2)
  <1>1. /\ PageSize - Base \in Nat /\ RelHeaderSize \in Nat \ {0} /\ Base \in Nat
        /\ RelHeaderSize <= PageSize - Base
    BY CatalogAssumption DEF Base
  <1>2. /\ Capacity \in Nat /\ Capacity * RelHeaderSize <= PageSize - Base
        /\ PageSize - Base < Capacity * RelHeaderSize + RelHeaderSize
    BY <1>1, Quotient DEF Capacity
  <1>3. Capacity # 0
    BY <1>1, <1>2
  <1>4. /\ SlotStart(Capacity + 1) = Base + Capacity * RelHeaderSize
        /\ SlotStart(Capacity + 2) = Base + Capacity * RelHeaderSize + RelHeaderSize
        /\ Capacity * RelHeaderSize \in Nat
    BY <1>2, SlotOffsets
  <1>5. PICK p \in Nat : p = Capacity * RelHeaderSize
    BY <1>4
  <1> QED
    BY <1>1, <1>2, <1>3, <1>4, <1>5, CatalogAssumption

\* Slots and places are in the order of their numbers
LEMMA InOrder ==
  ASSUME NEW i \in Nat, NEW j \in Nat, i < j
  PROVE  /\ SlotStart(i + 1) + RelHeaderSize <= SlotStart(j + 1)
         /\ LaterAt(i) + RelHeaderSize <= LaterAt(j)
  <1>1. i * RelHeaderSize + RelHeaderSize <= j * RelHeaderSize
    BY Multiples, CatalogAssumption
  <1> QED
    BY <1>1, SlotOffsets, CatalogAssumption DEF Base, LaterAt

\* The header behind m others of a later page meets the slots m and m + 1
LEMMA MetSlots ==
  ASSUME NEW m \in Nat, NEW i \in Nat \ {0}
  PROVE  Meets(i, LaterAt(m)) <=> i \in {m, m + 1}
  <1>1. PICK h \in Nat : i = h + 1
    <2>1. i - 1 \in Nat /\ i = (i - 1) + 1
      OBVIOUS
    <2> QED
      BY <2>1
  <1>2. /\ SlotStart(i) = LaterAt(h) + DbHeaderSize /\ SlotStart(i + 1) = LaterAt(h + 1) + DbHeaderSize
        /\ LaterAt(h) \in Nat /\ LaterAt(m) \in Nat /\ LaterAt(h + 1) = LaterAt(h) + RelHeaderSize
    BY <1>1, SlotOffsets
  <1>3. Meets(i, LaterAt(m)) <=>
          /\ LaterAt(m) < LaterAt(h) + RelHeaderSize + DbHeaderSize
          /\ LaterAt(h) + DbHeaderSize < LaterAt(m) + RelHeaderSize
    BY <1>2, CatalogAssumption DEF Meets
  <1>4. CASE h + 1 < m
    <2>1. LaterAt(h + 1) + RelHeaderSize <= LaterAt(m)
      BY <1>4, InOrder
    <2> QED
      BY <1>1, <1>2, <1>3, <1>4, <2>1, CatalogAssumption
  <1>5. CASE h + 1 = m
    BY <1>1, <1>2, <1>3, <1>5, CatalogAssumption
  <1>6. CASE h = m
    BY <1>1, <1>2, <1>3, <1>6, CatalogAssumption
  <1>7. CASE m < h
    <2>1. LaterAt(m) + RelHeaderSize <= LaterAt(h)
      BY <1>7, InOrder
    <2> QED
      BY <1>1, <1>2, <1>3, <1>7, <2>1, CatalogAssumption
  <1> QED
    BY <1>4, <1>5, <1>6, <1>7

\* No place of a later page is that of a slot
LEMMA NoSlot ==
  ASSUME NEW m \in Nat, NEW i \in Nat
  PROVE  LaterAt(m) # SlotStart(i + 1)
  <1>1. SlotStart(i + 1) = LaterAt(i) + DbHeaderSize /\ LaterAt(i) \in Nat /\ LaterAt(m) \in Nat
    BY SlotOffsets
  <1>2. CASE m <= i
    <2>1. LaterAt(m) <= LaterAt(i)
      BY <1>1, <1>2, InOrder, CatalogAssumption
    <2> QED
      BY <1>1, <2>1, CatalogAssumption
  <1>3. CASE i < m
    BY <1>1, <1>3, InOrder, CatalogAssumption
  <1> QED
    BY <1>2, <1>3
-----------------------------------------------------------------------------
(* The steps *)

\* t is s with x behind it
Extended(s, t, x, S) ==
  /\ t \in Seq(S) /\ Len(t) = Len(s) + 1 /\ t[Len(s) + 1] = x
  /\ \A i \in 1 .. Len(s) : t[i] = s[i]

LEMMA OneMore ==
  ASSUME NEW S, NEW s \in Seq(S), NEW x \in S
  PROVE  Extended(s, Append(s, x), x, S)
  BY AppendProperties DEF Extended

\* A catalog page with some bytes of it taken
LEMMA BytesTaken ==
  ASSUME NEW p \in CatalogPage, NEW bytes \in Nat
  PROVE  /\ Take(p, bytes) \in CatalogPage
         /\ Take(p, bytes).write_ptr = p.write_ptr + bytes
         /\ Take(p, bytes).remaining_space = p.remaining_space - bytes
         /\ Take(p, bytes).next_page_number = p.next_page_number
  <1>1. PICK w \in Nat, r \in Int, x \in Nat :
          p = [remaining_space |-> r, write_ptr |-> w, next_page_number |-> x]
    BY DEF CatalogPage
  <1>2. PICK q : q = [p EXCEPT !.write_ptr = @ + bytes]
    OBVIOUS
  <1>3. q = [remaining_space |-> r, write_ptr |-> w + bytes, next_page_number |-> x]
    BY <1>1, <1>2
  <1>4. Take(p, bytes) = [q EXCEPT !.remaining_space = @ - bytes]
    BY <1>2 DEF Take
  <1>5. Take(p, bytes) =
          [remaining_space |-> r - bytes, write_ptr |-> w + bytes, next_page_number |-> x]
    BY <1>3, <1>4
  <1> QED
    BY <1>1, <1>5 DEF CatalogPage

\* g are the catalog pages f with one more header on page p
HeaderAdded(f, g, p, P) ==
  /\ DOMAIN g = P /\ g \in [P -> CatalogPage]
  /\ g[p].write_ptr = f[p].write_ptr + RelHeaderSize
  /\ g[p].remaining_space = f[p].remaining_space - RelHeaderSize
  /\ g[p].next_page_number = f[p].next_page_number
  /\ \A q \in P \ {p} : g[q] = f[q]

LEMMA HeaderTaken ==
  ASSUME NEW P, NEW f \in [P -> CatalogPage], NEW p \in P
  PROVE  HeaderAdded(f, [f EXCEPT ![p] = Take(@, RelHeaderSize)], p, P)
  BY BytesTaken, CatalogAssumption DEF HeaderAdded

\* The database header after a relation was added to the last catalog page
LEMMA RelationCounted ==
  ASSUME NEW d \in [relation_count : Nat, page_count : Nat, last_page_number : Nat],
         NEW e, e = [d EXCEPT !.relation_count = @ + 1, !.page_count = @ + 1]
  PROVE  /\ e \in [relation_count : Nat, page_count : Nat, last_page_number : Nat]
         /\ e.relation_count = d.relation_count + 1 /\ e.page_count = d.page_count + 1
         /\ e.last_page_number = d.last_page_number
  <1>1. PICK r \in Nat, p \in Nat, l \in Nat :
          d = [relation_count |-> r, page_count |-> p, last_page_number |-> l]
    OBVIOUS
  <1>2. PICK q : q = [d EXCEPT !.relation_count = @ + 1]
    OBVIOUS
  <1>3. q = [relation_count |-> r + 1, page_count |-> p, last_page_number |-> l]
    BY <1>1, <1>2
  <1>4. e = [q EXCEPT !.page_count = @ + 1]
    BY <1>2
  <1>5. e = [relation_count |-> r + 1, page_count |-> p + 1, last_page_number |-> l]
    BY <1>3, <1>4
  <1> QED
    BY <1>1, <1>5

LEMMA InitCatalogIInv ==
  ASSUME Init
  PROVE  CatalogIInv
  <1>1. /\ <<>> \in Seq(Name) /\ <<>> \in Seq(Name \cup {NoName}) /\ Len(<<>>) = 0
    BY EmptySeq
  <1>2. SlotStart(1) = DbHeaderSize + PageHeaderSize /\ SlotStart(1) \in Nat /\ Capacity \in Nat
    BY FirstSlots, Capacities, CatalogAssumption
  <1>3. NewPage \in CatalogPage /\ DbHeaderSize + PageHeaderSize \in Nat
    BY CatalogAssumption DEF NewPage, CatalogPage
  <1>4. /\ DOMAIN real = {1} /\ real \in [{1} -> CatalogPage]
        /\ real[1].write_ptr = SlotStart(1) /\ real[1].remaining_space = PageSize - SlotStart(1)
        /\ real[1].next_page_number = 0
    <2>1. /\ real[1] = Take(NewPage, DbHeaderSize + PageHeaderSize)
          /\ DOMAIN real = {1} /\ real = [n \in {1} |-> real[n]]
      BY DEF Init
    <2>2. NewPage.write_ptr = 0 /\ NewPage.remaining_space = PageSize /\ NewPage.next_page_number = 0
      BY DEF NewPage
    <2>3. PICK h \in Nat : h = DbHeaderSize + PageHeaderSize
      BY <1>3
    <2>4. /\ real[1] \in CatalogPage /\ real[1].write_ptr = 0 + h
          /\ real[1].remaining_space = PageSize - h /\ real[1].next_page_number = 0
      BY <1>3, <2>1, <2>2, <2>3, BytesTaken
    <2> QED
      BY <1>2, <2>1, <2>3, <2>4
  <1>5. CatalogTypeOK
    BY <1>1, <1>4 DEF Init, CatalogTypeOK
  <1>6. OnFirstPage
    BY <1>1, <1>2, <1>4 DEF Init, OnFirstPage
  <1> QED
    BY <1>5, <1>6 DEF CatalogIInv

\* The header goes behind the others on page 1
LEMMA CreateOnFirstPage ==
  ASSUME CatalogTypeOK, OnFirstPage, NEW name \in Name, relation_create(name)
  PROVE  CatalogTypeOK' /\ OnFirstPage'
  <1> PICK n \in Nat : n = Len(created)
    BY LenProperties DEF CatalogTypeOK
  <1>1. PICK P :
          /\ n = Len(created) /\ n = Len(slot) /\ db.relation_count = n
          /\ created \in Seq(Name) /\ slot \in Seq(Name \cup {NoName})
          /\ P = DOMAIN real /\ 1 \in P /\ real \in [P -> CatalogPage]
          /\ db \in [relation_count : Nat, page_count : Nat, last_page_number : Nat]
          /\ db.last_page_number = 1
    BY LenProperties DEF CatalogTypeOK, OnFirstPage
  <1>2. real[1].write_ptr = SlotStart(n + 1) /\ real[1].remaining_space = PageSize - SlotStart(n + 1)
    BY <1>1 DEF OnFirstPage
  <1>3. SlotStart(n + 2) = SlotStart(n + 1) + RelHeaderSize /\ SlotStart(n + 1) \in Nat
    BY SlotSteps
  <1>4. /\ slot' = Append(slot, name) /\ created' = Append(created, name)
        /\ real' = [real EXCEPT ![1] = Take(@, RelHeaderSize)]
        /\ db' = [db EXCEPT !.relation_count = @ + 1, !.page_count = @ + 1]
    BY <1>1, <1>2 DEF relation_create, NewRelation, write_header, OnFirstPage
  <1>5. n + 1 <= Capacity
    <2>1. SlotStart(n + 2) <= PageSize
      BY <1>2, <1>3, CatalogAssumption DEF relation_create, OnFirstPage
    <2>2. ~ Capacity < n + 1
      <3>1. PICK c \in Nat : c = Capacity
        BY Capacities
      <3>2. c < n + 1 => SlotStart(c + 1) + RelHeaderSize <= SlotStart((n + 1) + 1)
        BY InOrder
      <3>3. (n + 1) + 1 = n + 2
        OBVIOUS
      <3>4. SlotStart(c + 2) = SlotStart(c + 1) + RelHeaderSize /\ SlotStart(c + 1) \in Nat
        BY SlotSteps
      <3>5. PageSize < SlotStart(c + 2)
        BY <3>1, Capacities
      <3> QED
        BY <1>3, <2>1, <3>1, <3>2, <3>3, <3>4, <3>5, CatalogAssumption
    <2> QED
      BY <2>2, Capacities
  <1>6. /\ created' \in Seq(Name) /\ Len(created') = n + 1 /\ created'[n + 1] = name
        /\ \A i \in 1 .. n : created'[i] = created[i]
    <2>1. Extended(created, created', name, Name)
      BY <1>1, <1>4, OneMore
    <2> QED
      BY <1>1, <2>1 DEF Extended
  <1>7. /\ slot' \in Seq(Name \cup {NoName}) /\ Len(slot') = n + 1 /\ slot'[n + 1] = name
        /\ \A i \in 1 .. n : slot'[i] = slot[i]
    <2>1. Extended(slot, slot', name, Name \cup {NoName})
      BY <1>1, <1>4, OneMore
    <2> QED
      BY <1>1, <2>1 DEF Extended
  <1>8. /\ DOMAIN real' = P /\ real' \in [P -> CatalogPage]
        /\ real'[1].write_ptr = real[1].write_ptr + RelHeaderSize
        /\ real'[1].remaining_space = real[1].remaining_space - RelHeaderSize
        /\ real'[1].next_page_number = real[1].next_page_number
    <2>1. HeaderAdded(real, real', 1, P)
      BY <1>1, <1>4, HeaderTaken
    <2> QED
      BY <2>1 DEF HeaderAdded
  <1>9. CatalogTypeOK'
    <2>1. /\ db' \in [relation_count : Nat, page_count : Nat, last_page_number : Nat]
          /\ db'.relation_count = n + 1 /\ db'.page_count = db.page_count + 1
          /\ db'.last_page_number = db.last_page_number
      BY <1>1, <1>4, RelationCounted
    <2>2. P \subseteq 1 .. db.page_count + 1
      BY <1>1 DEF CatalogTypeOK
    <2> QED
      BY <1>1, <1>6, <1>7, <1>8, <2>1, <2>2 DEF CatalogTypeOK
  <1>10. OnFirstPage'
    <2>1. /\ real'[1].write_ptr = SlotStart(n + 2) /\ real'[1].next_page_number = 0
          /\ real'[1].remaining_space = PageSize - SlotStart(n + 2)
      BY <1>2, <1>3, <1>8, CatalogAssumption DEF OnFirstPage
    <2>2. db'.last_page_number = 1
      BY <1>1, <1>4, RelationCounted
    <2>3. \A i \in 1 .. n : slot[i] = created[i]
      BY <1>1 DEF OnFirstPage
    <2>4. \A i \in 1 .. n + 1 : slot'[i] = created'[i]
      BY <1>6, <1>7, <2>3
    <2>5. (n + 1) + 1 = n + 2
      OBVIOUS
    <2> QED
      BY <1>5, <1>6, <1>7, <2>1, <2>2, <2>4, <2>5 DEF OnFirstPage
  <1> QED
    BY <1>9, <1>10
-----------------------------------------------------------------------------
(* Behind page 1 *)

\* What a header behind the first m of a later page leaves of page 1
Damaged(s, t, m) ==
  /\ t \in Seq(Name \cup {NoName}) /\ Len(t) = Len(s)
  /\ \A i \in 1 .. Len(s) : t[i] = IF i \in {m, m + 1} THEN NoName ELSE s[i]

LEMMA WrittenOver ==
  ASSUME slot \in Seq(Name \cup {NoName}), NEW name, NEW m \in Nat
  PROVE  Damaged(slot, write_header(name, LaterAt(m)), m)
  <1>1. PICK n \in Nat : n = Len(slot) /\ DOMAIN slot = 1 .. n
    BY LenProperties
  <1>2. LaterAt(m) # SlotStart(n + 1)
    BY NoSlot
  <1>3. PICK t : t = [i \in 1 .. n |-> IF Meets(i, LaterAt(m)) THEN NoName ELSE slot[i]]
    OBVIOUS
  <1>4. write_header(name, LaterAt(m)) = t
    BY <1>1, <1>2, <1>3 DEF write_header
  <1>5. \A i \in 1 .. n : slot[i] \in Name \cup {NoName}
    BY <1>1, ElementOfSeq
  <1>6. t \in [1 .. n -> Name \cup {NoName}]
    BY <1>3, <1>5
  <1>7. t \in Seq(Name \cup {NoName}) /\ Len(t) = n
    <2>1. t \in Seq(Name \cup {NoName})
      BY <1>6, SeqDef
    <2>2. DOMAIN t = 1 .. n /\ DOMAIN t = 1 .. Len(t) /\ Len(t) \in Nat
      BY <2>1, <1>6, LenProperties
    <2> QED
      BY <2>1, <2>2
  <1>8. \A i \in 1 .. n : t[i] = IF i \in {m, m + 1} THEN NoName ELSE slot[i]
    BY <1>3, MetSlots
  <1> QED
    BY <1>1, <1>4, <1>7, <1>8 DEF Damaged

\* The slots of page 1 when `lost` of the relations have no header any more
KeptBut(lost, s, names) ==
  Len(s) = Capacity /\ \A i \in 1 .. Len(s) : s[i] = IF i <= lost THEN NoName ELSE names[i]

LEMMA OneMoreLost ==
  ASSUME NEW s, NEW t, NEW names \in Seq(Name), NEW more \in Seq(Name), NEW name,
         NEW m \in Nat, NEW lost \in Nat,
         KeptBut(lost, s, names), Damaged(s, t, m), Extended(names, more, name, Name),
         Len(names) = Capacity + lost, m = lost \/ lost >= Capacity
  PROVE  KeptBut(lost + 1, t, more)
  <1>1. PICK c \in Nat : c = Capacity /\ Len(names) = c + lost
    BY Capacities
  <1>2. /\ Len(t) = c /\ Len(s) = c
        /\ \A i \in 1 .. c : s[i] = IF i <= lost THEN NoName ELSE names[i]
        /\ \A i \in 1 .. c : t[i] = IF i \in {m, m + 1} THEN NoName ELSE s[i]
    BY <1>1 DEF KeptBut, Damaged
  <1>3. \A i \in 1 .. c : more[i] = names[i]
    BY <1>1 DEF Extended
  <1>4. \A i \in 1 .. c : t[i] = IF i <= lost + 1 THEN NoName ELSE more[i]
    <2>1. CASE m = lost
      BY <1>2, <1>3, <2>1
    <2>2. CASE lost >= c
      BY <1>2, <1>3, <2>2
    <2> QED
      BY <1>1, <2>1, <2>2
  <1> QED
    BY <1>1, <1>2, <1>4 DEF KeptBut

\* The header goes behind the others of the last page
LEMMA CreateOnLaterPage ==
  ASSUME CatalogTypeOK, NEW m \in 1 .. Len(created), OnLaterPage(m),
         NEW name \in Name, relation_create(name)
  PROVE  CatalogTypeOK' /\ OnLaterPage(m + 1)'
  <1>1. PICK lost, last, P :
          /\ lost \in Nat \ {0} /\ last \in Nat
          /\ Len(created) = Capacity + lost /\ last = db.last_page_number /\ last # 1
          /\ P = DOMAIN real /\ 1 \in P /\ last \in P
    <2>1. Len(created) \in Nat /\ Capacity \in Nat /\ Len(created) - Capacity >= 1
      BY LenProperties, Capacities DEF CatalogTypeOK, OnLaterPage
    <2>2. Len(created) - Capacity \in Nat \ {0} /\ Len(created) = Capacity + (Len(created) - Capacity)
      BY <2>1
    <2> QED
      BY <2>2 DEF CatalogTypeOK, OnLaterPage
  <1>2. m \in Nat \ {0} /\ Len(created) \in Nat /\ Capacity \in Nat
    BY LenProperties, Capacities DEF CatalogTypeOK
  <1>3. /\ created \in Seq(Name) /\ slot \in Seq(Name \cup {NoName}) /\ real \in [P -> CatalogPage]
        /\ db \in [relation_count : Nat, page_count : Nat, last_page_number : Nat]
        /\ P \subseteq 1 .. db.page_count /\ db.relation_count = Len(created)
    BY <1>1 DEF CatalogTypeOK
  <1>4. Len(created) - Capacity = lost
    BY <1>1, <1>2
  <1>5. /\ real[last].write_ptr = LaterAt(m) /\ real[last].remaining_space = PageSize - LaterAt(m)
        /\ m = lost \/ lost >= Capacity
        /\ real[1].write_ptr = 0
        /\ KeptBut(lost, slot, created)
    BY <1>1, <1>4 DEF OnLaterPage, KeptBut
  <1>6. /\ slot' = write_header(name, LaterAt(m)) /\ created' = Append(created, name)
        /\ real' = [real EXCEPT ![last] = Take(@, RelHeaderSize)]
        /\ db' = [db EXCEPT !.relation_count = @ + 1, !.page_count = @ + 1]
    BY <1>1, <1>5 DEF relation_create, NewRelation
  <1>7. /\ Extended(created, created', name, Name) /\ Damaged(slot, slot', m)
        /\ HeaderAdded(real, real', last, P)
    BY <1>1, <1>2, <1>3, <1>6, OneMore, WrittenOver, HeaderTaken
  <1>8. /\ db' \in [relation_count : Nat, page_count : Nat, last_page_number : Nat]
        /\ db'.relation_count = db.relation_count + 1 /\ db'.page_count = db.page_count + 1
        /\ db'.last_page_number = last
    BY <1>1, <1>3, <1>6, RelationCounted
  <1>9. created' \in Seq(Name) /\ Len(created') = Len(created) + 1
    BY <1>7 DEF Extended
  <1>10. CatalogTypeOK'
    <2>1. P \subseteq 1 .. db.page_count + 1
      BY <1>3
    <2> QED
      BY <1>1, <1>3, <1>7, <1>8, <1>9, <2>1 DEF CatalogTypeOK, HeaderAdded, Damaged
  <1>11. KeptBut(lost + 1, slot', created')
    BY <1>1, <1>2, <1>3, <1>5, <1>7, <1>9, OneMoreLost
  <1>12. /\ real'[last].write_ptr = LaterAt(m + 1)
         /\ real'[last].remaining_space = PageSize - LaterAt(m + 1)
         /\ real'[1].write_ptr = 0
    <2>1. LaterAt(m + 1) = LaterAt(m) + RelHeaderSize /\ LaterAt(m) \in Nat
      BY <1>2, SlotSteps
    <2> QED
      BY <1>1, <1>5, <1>7, <2>1, CatalogAssumption DEF HeaderAdded
  <1>13. Len(created') - Capacity = lost + 1 /\ (m + 1 = lost + 1 \/ lost + 1 >= Capacity)
    BY <1>1, <1>2, <1>5, <1>9
  <1>14. OnLaterPage(m + 1)'
    BY <1>1, <1>8, <1>11, <1>12, <1>13 DEF OnLaterPage, KeptBut
  <1> QED
    BY <1>10, <1>14
-----------------------------------------------------------------------------
(* A new catalog page *)

\* The last page is full when all of page 1 is used and either nothing or all of
\* it is lost: a later page has room for as many headers as page 1 at least.
LEMMA FullWhen ==
  ASSUME CatalogTypeOK, OnFirstPage \/ \E m \in 1 .. Len(created) : OnLaterPage(m),
         real[db.last_page_number].remaining_space < RelHeaderSize
  PROVE  \E lost \in Nat : /\ Len(created) = Capacity + lost /\ (lost = 0 \/ lost >= Capacity)
                           /\ KeptBut(lost, slot, created)
  <1>1. PICK c \in Nat, n \in Nat : c = Capacity /\ n = Len(created)
    BY LenProperties, Capacities DEF CatalogTypeOK
  <1>2. SlotStart(c + 1) <= PageSize /\ SlotStart(c + 1) \in Nat
    BY <1>1, Capacities, SlotSteps
  <1>3. CASE OnFirstPage
    <2>1. n <= c /\ PageSize - SlotStart(n + 1) < RelHeaderSize /\ SlotStart(n + 1) \in Nat
      BY <1>1, <1>3, SlotSteps DEF OnFirstPage
    <2>2. n < c => SlotStart(n + 1) + RelHeaderSize <= SlotStart(c + 1)
      BY InOrder
    <2>3. n = c
      BY <1>2, <2>1, <2>2, CatalogAssumption
    <2>4. KeptBut(0, slot, created)
      BY <1>1, <1>3, <2>3 DEF OnFirstPage, KeptBut
    <2> QED
      BY <1>1, <2>3, <2>4
  <1>4. ASSUME NEW m \in 1 .. Len(created), OnLaterPage(m)
        PROVE  \E lost \in Nat : /\ Len(created) = Capacity + lost /\ (lost = 0 \/ lost >= Capacity)
                                 /\ KeptBut(lost, slot, created)
    <2>1. PICK lost \in Nat : lost = n - c
      <3>1. n - c >= 1
        BY <1>1, <1>4 DEF OnLaterPage
      <3> QED
        BY <3>1
    <2>2. Len(created) = Capacity + lost /\ Len(created) - Capacity = lost
      BY <1>1, <2>1
    <2>3. KeptBut(lost, slot, created) /\ (m = lost \/ lost >= c)
      BY <1>1, <1>4, <2>2 DEF OnLaterPage, KeptBut
    <2>4. PageSize - LaterAt(m) < RelHeaderSize
      BY <1>4 DEF OnLaterPage
    <2>5. m \in Nat /\ LaterAt(m) \in Nat /\ SlotStart(c + 1) = LaterAt(c) + DbHeaderSize
      <3>1. m \in Nat
        BY <1>1
      <3> QED
        BY <3>1, SlotSteps
    <2>6. m < c => LaterAt(m) + RelHeaderSize <= LaterAt(c)
      BY <2>5, InOrder
    <2>7. ~ m < c
      <3>1. LaterAt(c) \in Nat
        BY SlotSteps
      <3> QED
        BY <1>2, <2>4, <2>5, <2>6, <3>1, CatalogAssumption
    <2> QED
      BY <1>1, <2>2, <2>3, <2>5, <2>7
  <1> QED
    BY <1>3, <1>4

LEMMA CreateOnNewPage ==
  ASSUME CatalogIInv, NEW name \in Name, relation_create_on_new_page(name)
  PROVE  CatalogTypeOK' /\ OnLaterPage(1)'
  <1>1. PICK lost \in Nat : /\ Len(created) = Capacity + lost /\ (lost = 0 \/ lost >= Capacity)
                           /\ KeptBut(lost, slot, created)
    BY FullWhen DEF CatalogIInv, relation_create_on_new_page
  <1>2. PICK P, last : P = DOMAIN real /\ last = db.last_page_number
    OBVIOUS
  <1>3. /\ 1 \in P /\ real \in [P -> CatalogPage] /\ last \in P
        /\ created \in Seq(Name) /\ slot \in Seq(Name \cup {NoName})
        /\ db.page_count \in Nat /\ db.relation_count = Len(created)
        /\ P \subseteq 1 .. db.page_count
    BY <1>2 DEF CatalogIInv, CatalogTypeOK
  <1> PICK n \in Nat : n = db.page_count + 1
    BY <1>3
  <1> PICK new \in Nat : new = n + 1 /\ new \notin P /\ new # 1
    BY <1>3
  <1>4. PICK fresh : fresh = Take(NewPage, PageHeaderSize)
    OBVIOUS
  <1>5. fresh \in CatalogPage /\ fresh.write_ptr = LaterAt(0) /\ fresh.remaining_space = PageSize - LaterAt(0)
    <2>1. /\ NewPage \in CatalogPage /\ NewPage.write_ptr = 0 /\ NewPage.remaining_space = PageSize
          /\ PageHeaderSize \in Nat
      BY CatalogAssumption DEF NewPage, CatalogPage
    <2>2. /\ fresh \in CatalogPage /\ fresh.write_ptr = 0 + PageHeaderSize
          /\ fresh.remaining_space = PageSize - PageHeaderSize
      BY <1>4, <2>1, BytesTaken
    <2> QED
      BY <2>1, <2>2, FirstSlots
  <1>6. PICK linked : linked = [real EXCEPT ![last].next_page_number = new, ![1] = Overwritten(n)]
    OBVIOUS
  <1>7. /\ slot' = write_header(name, LaterAt(0)) /\ created' = Append(created, name)
        /\ real' = [p \in P \cup {new} |-> IF p = new THEN Take(fresh, RelHeaderSize) ELSE linked[p]]
        /\ db' = [relation_count |-> Len(created) + 1, page_count |-> new, last_page_number |-> new]
    BY <1>2, <1>3, <1>4, <1>5, <1>6 DEF relation_create_on_new_page, NewRelation
  <1>8. /\ linked \in [P -> CatalogPage] /\ linked[1].write_ptr = 0
    <2>1. [real[last] EXCEPT !.next_page_number = new] \in CatalogPage
      BY <1>3 DEF CatalogPage
    <2>2. Overwritten(n) \in CatalogPage /\ Overwritten(n).write_ptr = 0
      BY DEF Overwritten, CatalogPage
    <2>3. PICK f : f = [real EXCEPT ![last] = [real[last] EXCEPT !.next_page_number = new]]
      OBVIOUS
    <2>4. f \in [P -> CatalogPage]
      BY <1>3, <2>1, <2>3
    <2>5. linked = [f EXCEPT ![1] = Overwritten(n)]
      BY <1>6, <2>3
    <2> QED
      BY <1>3, <2>2, <2>4, <2>5
  <1>9. /\ real'[new] \in CatalogPage /\ real'[new].write_ptr = LaterAt(1)
        /\ real'[new].remaining_space = PageSize - LaterAt(1)
    <2>1. /\ Take(fresh, RelHeaderSize) \in CatalogPage
          /\ Take(fresh, RelHeaderSize).write_ptr = LaterAt(0) + RelHeaderSize
          /\ Take(fresh, RelHeaderSize).remaining_space = PageSize - LaterAt(0) - RelHeaderSize
      <3>1. RelHeaderSize \in Nat
        BY CatalogAssumption
      <3>2. /\ Take(fresh, RelHeaderSize) \in CatalogPage
            /\ Take(fresh, RelHeaderSize).write_ptr = fresh.write_ptr + RelHeaderSize
            /\ Take(fresh, RelHeaderSize).remaining_space = fresh.remaining_space - RelHeaderSize
        BY <1>5, <3>1, BytesTaken
      <3> QED
        BY <1>5, <3>2
    <2>2. LaterAt(0 + 1) = LaterAt(0) + RelHeaderSize /\ LaterAt(0) \in Nat
      BY SlotSteps
    <2>3. LaterAt(1) = LaterAt(0) + RelHeaderSize
      BY <2>2
    <2> QED
      BY <1>7, <2>1, <2>2, <2>3, CatalogAssumption
  <1>10. /\ DOMAIN real' = P \cup {new} /\ real' \in [P \cup {new} -> CatalogPage]
         /\ real'[1].write_ptr = 0
    <2>1. \A p \in P : real'[p] = linked[p]
      BY <1>7
    <2> QED
      BY <1>3, <1>7, <1>8, <1>9, <2>1
  <1>11. Extended(created, created', name, Name)
    BY <1>3, <1>7, OneMore
  <1>12. Damaged(slot, slot', 0)
    BY <1>3, <1>7, WrittenOver
  <1>13. created' \in Seq(Name) /\ Len(created') = Len(created) + 1 /\ Len(created) \in Nat
    BY <1>3, <1>11, LenProperties DEF Extended
  <1>14. CatalogTypeOK'
    <2>1. P \cup {new} \subseteq 1 .. new
      <3>1. \A p \in P : p \in 1 .. n - 1
        BY <1>3
      <3> QED
        BY <3>1
    <2> QED
      BY <1>3, <1>7, <1>10, <1>12, <1>13, <2>1 DEF CatalogTypeOK, Damaged
  <1>15. KeptBut(lost + 1, slot', created')
    BY <1>1, <1>3, <1>11, <1>12, <1>13, OneMoreLost
  <1>16. Len(created') - Capacity = lost + 1 /\ (1 = lost + 1 \/ lost + 1 >= Capacity)
    BY <1>1, <1>13, Capacities
  <1>17. db'.last_page_number = new
    BY <1>7
  <1> QED
    BY <1>9, <1>10, <1>14, <1>15, <1>16, <1>17 DEF OnLaterPage, KeptBut

LEMMA NextCatalogIInv ==
  ASSUME CatalogIInv, [Next]_vars
  PROVE  CatalogIInv'
  <1>1. ASSUME NEW name \in Name, relation_create(name)
        PROVE  CatalogIInv'
    <2>1. CASE OnFirstPage
      BY <1>1, <2>1, CreateOnFirstPage DEF CatalogIInv
    <2>2. ASSUME NEW m \in 1 .. Len(created), OnLaterPage(m)
          PROVE  CatalogIInv'
      <3>1. CatalogTypeOK' /\ OnLaterPage(m + 1)'
        BY <1>1, <2>2, CreateOnLaterPage DEF CatalogIInv
      <3>2. m + 1 \in 1 .. Len(created')
        <4>1. Extended(created, created', name, Name) /\ Len(created) \in Nat
          BY <1>1, OneMore, LenProperties DEF relation_create, NewRelation, CatalogIInv, CatalogTypeOK
        <4> QED
          BY <4>1 DEF Extended
      <3> QED
        BY <3>1, <3>2 DEF CatalogIInv
    <2> QED
      BY <2>1, <2>2 DEF CatalogIInv
  <1>2. ASSUME NEW name \in Name, relation_create_on_new_page(name)
        PROVE  CatalogIInv'
    <2>1. CatalogTypeOK' /\ OnLaterPage(1)'
      BY <1>2, CreateOnNewPage
    <2>2. 1 \in 1 .. Len(created')
      <3>1. Extended(created, created', name, Name) /\ Len(created) \in Nat
        BY <1>2, OneMore, LenProperties
        DEF relation_create_on_new_page, NewRelation, CatalogIInv, CatalogTypeOK
      <3> QED
        BY <3>1 DEF Extended
    <2> QED
      BY <2>1, <2>2 DEF CatalogIInv
  <1>3. ASSUME NEW name \in Name, relation_create_again(name) \/ relation_get(name)
        PROVE  CatalogIInv'
    BY <1>3 DEF relation_create_again, relation_get,
                CatalogIInv, CatalogTypeOK, OnFirstPage, OnLaterPage
  <1>4. CASE UNCHANGED vars
    BY <1>4 DEF vars, CatalogIInv, CatalogTypeOK, OnFirstPage, OnLaterPage
  <1> QED
    BY <1>1, <1>2, <1>3, <1>4 DEF Next

-----------------------------------------------------------------------------

\* Every relation whose header fits on page 1 is found as long as no header is
\* beyond it; each header that page_header_write_real puts on a later page is lost
\* and destroys the next one on page 1.
THEOREM CatalogDamage ==
  Spec => []DamageInv
  <1>1. ASSUME CatalogIInv
        PROVE  DamageInv
    <2>1. PICK n \in Nat, c \in Nat \ {0}, l \in Nat :
            /\ n = Len(created) /\ c = Capacity /\ l = Len(slot)
            /\ DOMAIN slot = 1 .. l /\ db.relation_count = n
      BY <1>1, LenProperties, Capacities DEF CatalogIInv, CatalogTypeOK
    <2>2. ASSUME OnFirstPage
          PROVE  /\ Len(slot) = IF n - c > 0 THEN c ELSE n
                 /\ \A i \in DOMAIN slot : slot[i] = IF i <= n - c THEN NoName ELSE created[i]
                 /\ l <= n /\ (real[1].next_page_number = 0 \/ real[1].write_ptr = 0)
      BY <2>1, <2>2 DEF OnFirstPage
    <2>3. ASSUME NEW m \in 1 .. n, OnLaterPage(m)
          PROVE  /\ Len(slot) = IF n - c > 0 THEN c ELSE n
                 /\ \A i \in DOMAIN slot : slot[i] = IF i <= n - c THEN NoName ELSE created[i]
                 /\ l <= n /\ (real[1].next_page_number = 0 \/ real[1].write_ptr = 0)
      BY <2>1, <2>3 DEF OnLaterPage
    <2>4. /\ Len(slot) = IF n - c > 0 THEN c ELSE n
          /\ \A i \in DOMAIN slot : slot[i] = IF i <= n - c THEN NoName ELSE created[i]
          /\ l <= n /\ (real[1].next_page_number = 0 \/ real[1].write_ptr = 0)
      BY <1>1, <2>1, <2>2, <2>3 DEF CatalogIInv
    <2>5. \A j \in Nat : SlotStart(j + 1) # 0
      BY SlotSteps
    <2>6. Visited(db.relation_count) = DOMAIN slot
      <3>1. \A i \in 1 .. l : i \in 1 .. n /\ \A j \in 1 .. i - 1 : j \in Nat
        BY <2>4
      <3> QED
        BY <2>1, <2>4, <2>5, <3>1 DEF Visited
    <2> QED
      BY <2>1, <2>4, <2>6 DEF DamageInv
  <1>2. Init => CatalogIInv
    BY InitCatalogIInv
  <1>3. CatalogIInv /\ [Next]_vars => CatalogIInv'
    BY NextCatalogIInv
  <1> QED
    BY <1>1, <1>2, <1>3, PTL DEF Spec
=============================================================================
