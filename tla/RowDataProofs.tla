---------------------------- MODULE RowDataProofs ----------------------------
(***************************************************************************)
(* Proofs about the columns and the bytes of a row: for any number of        *)
(* columns, of any sizes, no two that can be found share a byte, and every   *)
(* column reads back what it was last given.                                *)
(***************************************************************************)
EXTENDS RowData, Numbers

-----------------------------------------------------------------------------
(* The inductive invariant *)

Columns == [name : Name, content_type : DOMAIN Size \cup {"VARCHAR"}, size : Nat]

\* length is the sum that the loop of column_get_offset would come to at its end
ListInv ==
  /\ schema.list \in Seq(Columns)
  /\ schema.count = Len(schema.list)
  /\ schema.length = Before(schema.list)[schema.count + 1]

RowInv ==
  /\ data \in Seq(Char \cup {0, Unset})
  /\ data # <<>> => Len(data) = schema.length
  /\ data = <<>> => DOMAIN given = {}
  /\ \A name \in DOMAIN given : Found(name) # {}

\* Row d has value v at offset o.  A text has its 0 within the column: so nothing
\* that is written behind the column can lengthen it.
Holds(d, column, o, v) ==
  /\ v \in Values(column)
  /\ \A i \in 1 .. Len(v) : d[o + i] = v[i]
  /\ column.content_type = "VARCHAR" => d[o + Len(v) + 1] = 0

GivenInv ==
  \A name \in DOMAIN given :
    Holds(data, schema.list[First(name)], column_get_offset(name), given[name])

RowDataIInv == ListInv /\ RowInv /\ GivenInv

-----------------------------------------------------------------------------
(* The offsets of columns *)

\* The recursion of Before has a solution: the least prefix without one would be
\* that of an earlier one with the next sum behind it
LEMMA BeforeDefined ==
  ASSUME NEW list \in Seq(Columns)
  PROVE  Before(list) = [i \in 1 .. Len(list) + 1 |->
                           IF i = 1 THEN 0 ELSE Before(list)[i - 1] + list[i - 1].size]
<1> DEFINE Step(g, i) == IF i = 1 THEN 0 ELSE g[i - 1] + list[i - 1].size
           Sums(n) == \E g : g = [i \in 1 .. n |-> Step(g, i)]
           Good == {n \in 1 .. Len(list) + 1 : Sums(n)}
<1>1. Sums(1)
  <2>1. [i \in 1 .. 1 |-> 0] = [i \in 1 .. 1 |-> Step([j \in 1 .. 1 |-> 0], i)]
    OBVIOUS
  <2> QED BY <2>1
<1>2. ASSUME NEW n \in 1 .. Len(list), Sums(n)
      PROVE  Sums(n + 1)
  <2>1. PICK g : g = [i \in 1 .. n |-> Step(g, i)]
    BY <1>2
  <2>2. PICK h : h = [i \in 1 .. n + 1 |-> IF i = n + 1 THEN g[n] + list[n].size ELSE g[i]]
    OBVIOUS
  <2>3. \A i \in 1 .. n : h[i] = g[i]
    BY <2>2
  <2>4. \A i \in 1 .. n + 1 : h[i] = Step(h, i)
    <3> TAKE i \in 1 .. n + 1
    <3>1. CASE i = n + 1
      BY <2>2, <2>3, <3>1
    <3>2. CASE i # n + 1
      <4>1. i \in 1 .. n /\ (i # 1 => i - 1 \in 1 .. n)
        BY <3>2
      <4>2. h[i] = Step(g, i)
        BY <2>1, <2>3, <4>1
      <4> QED BY <2>3, <4>1, <4>2
    <3> QED BY <3>1, <3>2
  <2>5. h = [i \in 1 .. n + 1 |-> Step(h, i)]
    BY <2>2, <2>4
  <2> QED BY <2>5
<1> HIDE DEF Sums
<1>3. Len(list) \in Nat
  OBVIOUS
<1>4. /\ 1 \in Good /\ Good \in SUBSET (1 .. Len(list) + 1) /\ Len(list) + 1 \in Nat
      /\ \A n \in 1 .. (Len(list) + 1) - 1 : n \in Good => n + 1 \in Good
  BY <1>1, <1>2, <1>3
<1> HIDE DEF Good
<1>5. Good = 1 .. Len(list) + 1
  BY <1>3, <1>4, Climb
<1>6. Len(list) + 1 \in Good
  BY <1>3, <1>5
<1> QED BY <1>6 DEF Good, Sums, Before

LEMMA SizesNat ==
  ASSUME NEW list \in Seq(Columns)
  PROVE  Len(list) \in Nat /\ \A i \in 1 .. Len(list) : list[i].size \in Nat
<1>1. \A i \in 1 .. Len(list) : list[i] \in Columns
  OBVIOUS
<1> QED BY <1>1 DEF Columns

\* The bytes before a column are those before the column in front of it and its own
LEMMA BeforeAdds ==
  ASSUME NEW list \in Seq(Columns)
  PROVE  /\ Before(list)[1] = 0
         /\ \A i \in 1 .. Len(list) : Before(list)[i + 1] = Before(list)[i] + list[i].size
         /\ \A i \in 1 .. Len(list) + 1 : Before(list)[i] \in Nat
<1> PICK b : b = Before(list)
  OBVIOUS
<1>1. \A i \in 1 .. Len(list) + 1 : b[i] = IF i = 1 THEN 0 ELSE b[i - 1] + list[i - 1].size
  BY BeforeDefined
<1>2. Len(list) \in Nat /\ \A i \in 1 .. Len(list) : list[i].size \in Nat
  BY SizesNat
<1>3. b[1] = 0
  <2>1. 1 \in 1 .. Len(list) + 1
    BY <1>2
  <2> QED BY <1>1, <2>1
<1>4. ASSUME NEW i \in 1 .. Len(list) PROVE b[i + 1] = b[i] + list[i].size
  <2>1. i + 1 \in 1 .. Len(list) + 1 /\ i + 1 # 1 /\ (i + 1) - 1 = i
    BY <1>2
  <2> QED BY <1>1, <2>1
<1>5. \A i \in 1 .. Len(list) + 1 : b[i] \in Nat
  <2> DEFINE Good == {i \in 1 .. Len(list) + 1 : b[i] \in Nat}
  <2>1. 1 \in Good /\ Good \in SUBSET (1 .. Len(list) + 1) /\ Len(list) + 1 \in Nat
    BY <1>2, <1>3
  <2>2. \A i \in 1 .. (Len(list) + 1) - 1 : i \in Good => i + 1 \in Good
    BY <1>2, <1>4
  <2> HIDE DEF Good
  <2>3. Good = 1 .. Len(list) + 1
    BY <1>2, <2>1, <2>2, Climb
  <2> QED BY <2>3 DEF Good
<1> QED BY <1>3, <1>4, <1>5

\* What lies behind a column is at least its size behind it
LEMMA BeforeRises ==
  ASSUME NEW list \in Seq(Columns), NEW i \in 1 .. Len(list)
  PROVE  \A j \in i + 1 .. Len(list) + 1 : Before(list)[i] + list[i].size <= Before(list)[j]
<1> PICK b : b = Before(list)
  OBVIOUS
<1> DEFINE Good == {j \in i + 1 .. Len(list) + 1 : b[i + 1] <= b[j]}
<1>1. Len(list) \in Nat /\ \A k \in 1 .. Len(list) : list[k].size \in Nat
  BY SizesNat
<1>2. /\ \A k \in 1 .. Len(list) : b[k + 1] = b[k] + list[k].size
      /\ \A k \in 1 .. Len(list) + 1 : b[k] \in Nat
  BY BeforeAdds
<1>3. /\ i + 1 \in Good /\ Good \in SUBSET (i + 1 .. Len(list) + 1)
      /\ i + 1 \in Nat /\ Len(list) + 1 \in Nat
  BY <1>1, <1>2
<1>4. ASSUME NEW k \in i + 1 .. (Len(list) + 1) - 1, k \in Good PROVE k + 1 \in Good
  <2>1. k \in 1 .. Len(list) /\ i + 1 \in 1 .. Len(list) + 1 /\ k + 1 \in i + 1 .. Len(list) + 1
    BY <1>1
  <2>2. b[i + 1] <= b[k] /\ b[k + 1] = b[k] + list[k].size /\ list[k].size \in Nat
    BY <1>1, <1>2, <1>4, <2>1
  <2>3. b[i + 1] \in Nat /\ b[k] \in Nat
    BY <1>1, <1>2, <2>1
  <2>4. b[i + 1] <= b[k + 1]
    BY <2>2, <2>3
  <2> QED BY <2>1, <2>4
<1> HIDE DEF Good
<1>5. Good = i + 1 .. Len(list) + 1
  BY <1>1, <1>3, <1>4, Climb
<1> QED BY <1>1, <1>2, <1>5 DEF Good

\* A column at the end of the list changes no offset: the sum is longer by its size
LEMMA BeforeAppended ==
  ASSUME NEW list \in Seq(Columns), NEW column \in Columns
  PROVE  Before(Append(list, column))[Len(list) + 2] = Before(list)[Len(list) + 1] + column.size
<1> PICK more : more = Append(list, column)
  OBVIOUS
<1> PICK b : b = Before(list)
  OBVIOUS
<1> PICK c : c = Before(more)
  OBVIOUS
<1>1. /\ Len(list) \in Nat /\ more \in Seq(Columns) /\ Len(more) = Len(list) + 1
      /\ \A i \in 1 .. Len(list) : more[i] = list[i]
      /\ more[Len(list) + 1] = column
  OBVIOUS
<1>2. b[1] = 0 /\ \A i \in 1 .. Len(list) : b[i + 1] = b[i] + list[i].size
  BY BeforeAdds
<1>3. c[1] = 0 /\ \A i \in 1 .. Len(list) + 1 : c[i + 1] = c[i] + more[i].size
  BY <1>1, BeforeAdds
<1> DEFINE Good == {i \in 1 .. Len(list) + 1 : c[i] = b[i]}
<1>4. 1 \in Good /\ Good \in SUBSET (1 .. Len(list) + 1) /\ Len(list) + 1 \in Nat
  BY <1>1, <1>2, <1>3
<1>5. ASSUME NEW i \in 1 .. (Len(list) + 1) - 1, i \in Good PROVE i + 1 \in Good
  <2>1. i \in 1 .. Len(list) /\ i \in 1 .. Len(list) + 1 /\ i + 1 \in 1 .. Len(list) + 1
    BY <1>1
  <2>2. c[i + 1] = c[i] + list[i].size /\ b[i + 1] = b[i] + list[i].size
    BY <1>1, <1>2, <1>3, <2>1
  <2> QED BY <1>5, <2>1, <2>2
<1> HIDE DEF Good
<1>6. Good = 1 .. Len(list) + 1
  BY <1>4, <1>5, Climb
<1>7. c[Len(list) + 1] = b[Len(list) + 1]
  BY <1>1, <1>6 DEF Good
<1>8. Len(list) + 1 \in 1 .. Len(list) + 1 /\ (Len(list) + 1) + 1 = Len(list) + 2
  BY <1>1
<1> QED BY <1>1, <1>3, <1>7, <1>8

-----------------------------------------------------------------------------
(* The columns that are found by name *)

LEMMA FirstFound ==
  ASSUME ListInv, NEW name, Found(name) # {}
  PROVE  /\ First(name) \in 1 .. Len(schema.list)
         /\ schema.list[First(name)].name = name
         /\ schema.list[First(name)] \in Columns
         /\ column_get_offset(name) = Before(schema.list)[First(name)]
<1>1. schema.count \in Nat /\ schema.count = Len(schema.list) /\ schema.list \in Seq(Columns)
  BY DEF ListInv
<1>2. Found(name) \in SUBSET Nat
  BY <1>1 DEF Found
<1>4. PICK m \in Found(name) : \A n \in Found(name) : m <= n
  BY <1>2, LeastNumber
<1>3. First(name) \in Found(name)
  BY <1>4 DEF First
<1> QED BY <1>1, <1>3 DEF Found, column_get_offset

\* Where the bytes of a column are
LEMMA BytesFound ==
  ASSUME ListInv, NEW name, Found(name) # {}
  PROVE  /\ column_get_offset(name) \in Nat
         /\ schema.list[First(name)].size \in Nat
         /\ column_get_offset(name) + schema.list[First(name)].size <= schema.length
         /\ schema.length \in Nat
<1> PICK i, b : i = First(name) /\ b = Before(schema.list)
  OBVIOUS
<1>1. /\ i \in 1 .. Len(schema.list) /\ schema.list[i] \in Columns /\ schema.list \in Seq(Columns)
      /\ column_get_offset(name) = b[i] /\ schema.length = b[Len(schema.list) + 1]
      /\ Len(schema.list) \in Nat
  BY FirstFound DEF ListInv
<1>2. b[i] \in Nat /\ b[Len(schema.list) + 1] \in Nat
  BY <1>1, BeforeAdds
<1>3. Len(schema.list) + 1 \in i + 1 .. Len(schema.list) + 1
  BY <1>1
<1>4. b[i] + schema.list[i].size <= b[Len(schema.list) + 1]
  BY <1>1, <1>3, BeforeRises
<1> QED BY <1>1, <1>2, <1>4 DEF Columns

\* Of two columns one lies behind the other
LEMMA ColumnsApart ==
  ASSUME ListInv, NEW m, NEW n, Found(m) # {}, Found(n) # {}, m # n
  PROVE  \/ column_get_offset(m) + schema.list[First(m)].size <= column_get_offset(n)
         \/ column_get_offset(n) + schema.list[First(n)].size <= column_get_offset(m)
<1> PICK list : list = schema.list
  OBVIOUS
<1> PICK i, j, b : i = First(m) /\ j = First(n) /\ b = Before(list)
  OBVIOUS
<1>1. /\ list \in Seq(Columns) /\ Len(list) \in Nat
      /\ i \in 1 .. Len(list) /\ j \in 1 .. Len(list)
      /\ list[i].name = m /\ list[j].name = n
      /\ column_get_offset(m) = b[i] /\ column_get_offset(n) = b[j]
  BY FirstFound DEF ListInv
<1>2. CASE i < j
  <2>1. j \in i + 1 .. Len(list) + 1
    BY <1>1, <1>2
  <2> QED BY <1>1, <2>1, BeforeRises
<1>3. CASE j < i
  <2>1. i \in j + 1 .. Len(list) + 1
    BY <1>1, <1>3
  <2> QED BY <1>1, <2>1, BeforeRises
<1> QED BY <1>1, <1>2, <1>3

-----------------------------------------------------------------------------
(* The bytes of values *)

Byte == Char \cup {0, Unset}

\* A value fits its column, a text with the 0 that ends it
LEMMA ValueFits ==
  ASSUME NEW column \in Columns, NEW v \in Values(column)
  PROVE  /\ v \in Seq(Byte) /\ Len(v) \in Nat /\ Len(v) <= column.size
         /\ column.content_type # "VARCHAR" => v \in [1 .. column.size -> Byte]
         /\ column.content_type = "VARCHAR" =>
              v \in Seq(Char) /\ Len(v) < column.size
<1>1. column.size \in Nat
  BY DEF Columns
<1>2. CASE column.content_type = "VARCHAR"
  <2>1. PICK m \in 0 .. column.size - 1 : v \in [1 .. m -> Char]
    BY <1>2 DEF Values, BoundedSeq, SeqOf
  <2>2. v \in Seq(Char) /\ Len(v) = m
    BY <1>1, <2>1
  <2>3. v \in Seq(Byte)
    BY <1>1, <2>1 DEF Byte
  <2> QED BY <1>1, <1>2, <2>2, <2>3
<1>3. CASE column.content_type # "VARCHAR"
  <2>1. v \in [1 .. column.size -> Byte]
    BY <1>3 DEF Values, Byte
  <2>2. v \in Seq(Byte) /\ Len(v) = column.size
    BY <1>1, <2>1
  <2> QED BY <1>1, <1>3, <2>1, <2>2
<1> QED BY <1>2, <1>3

\* Row e is row d but for bytes o + 1 .. o + n
Differs(d, e, o, n) ==
  /\ e \in Seq(Byte) /\ Len(e) = Len(d)
  /\ \A i \in 1 .. Len(d) : i \notin o + 1 .. o + n => e[i] = d[i]

LEMMA WrittenBytes ==
  ASSUME NEW d \in Seq(Byte), NEW o \in Nat, NEW bytes \in Seq(Byte), o + Len(bytes) <= Len(d)
  PROVE  /\ Differs(d, Written(d, o, bytes), o, Len(bytes))
         /\ \A i \in 1 .. Len(bytes) : Written(d, o, bytes)[o + i] = bytes[i]
<1> PICK e : e = Written(d, o, bytes)
  OBVIOUS
<1>1. /\ Len(d) \in Nat /\ Len(bytes) \in Nat /\ DOMAIN d = 1 .. Len(d)
      /\ \A i \in 1 .. Len(d) : d[i] \in Byte
      /\ \A i \in 1 .. Len(bytes) : bytes[i] \in Byte
  OBVIOUS
<1>2. e = [i \in 1 .. Len(d) |-> IF i \in o + 1 .. o + Len(bytes) THEN bytes[i - o] ELSE d[i]]
  BY <1>1 DEF Written
<1>3. ASSUME NEW i \in 1 .. Len(bytes)
      PROVE  e[o + i] = bytes[i]
  <2>1. o + i \in 1 .. Len(d) /\ o + i \in o + 1 .. o + Len(bytes) /\ (o + i) - o = i
    BY <1>1
  <2> QED BY <1>2, <2>1
<1>4. \A i \in 1 .. Len(d) : i \notin o + 1 .. o + Len(bytes) => e[i] = d[i]
  BY <1>2
<1>5. \A i \in 1 .. Len(d) : e[i] \in Byte
  <2> TAKE i \in 1 .. Len(d)
  <2>1. CASE i \in o + 1 .. o + Len(bytes)
    <3>1. i - o \in 1 .. Len(bytes)
      BY <1>1, <2>1
    <3> QED BY <1>1, <1>2, <2>1, <3>1
  <2> QED BY <1>1, <1>2, <2>1
<1>6. e \in [1 .. Len(d) -> Byte]
  BY <1>2, <1>5
<1>7. e \in Seq(Byte) /\ Len(e) = Len(d)
  BY <1>1, <1>6
<1> QED BY <1>3, <1>4, <1>7 DEF Differs

\* A write of fewer bytes is one of more
LEMMA DiffersWithin ==
  ASSUME NEW d, NEW e, NEW o \in Nat, NEW n \in Nat, NEW m \in Nat, n <= m,
         Differs(d, e, o, n)
  PROVE  Differs(d, e, o, m)
BY DEF Differs

LEMMA DiffersTwice ==
  ASSUME NEW d, NEW e, NEW f, NEW o \in Nat, NEW n \in Nat,
         Differs(d, e, o, n), Differs(e, f, o, n)
  PROVE  Differs(d, f, o, n)
BY DEF Differs

\* A read of n bytes
LEMMA BytesRead ==
  ASSUME NEW d \in Seq(Byte), NEW o \in Nat, NEW n \in Nat, o + n <= Len(d)
  PROVE  SubSeq(d, o + 1, o + n) = [i \in 1 .. n |-> d[o + i]]
OBVIOUS

\* Both ways to write a text, and the one to write another value, put the value there
\* and leave the bytes of the others alone
LEMMA ValueWritten ==
  ASSUME NEW d \in Seq(Byte), NEW column \in Columns, NEW o \in Nat, NEW v \in Values(column),
         column.content_type # "VARCHAR", o + column.size <= Len(d)
  PROVE  /\ Differs(d, Written(d, o, v), o, column.size)
         /\ Holds(Written(d, o, v), column, o, v)
<1>1. column.size \in Nat /\ Len(d) \in Nat
  BY DEF Columns
<1>2. v \in Seq(Byte) /\ Len(v) \in Nat /\ Len(v) <= column.size
  BY ValueFits
<1>3. o + Len(v) <= Len(d)
  BY <1>1, <1>2
<1>4. /\ Differs(d, Written(d, o, v), o, Len(v))
      /\ \A i \in 1 .. Len(v) : Written(d, o, v)[o + i] = v[i]
  BY <1>2, <1>3, WrittenBytes
<1> QED BY <1>1, <1>2, <1>4, DiffersWithin DEF Holds

LEMMA TextAdded ==
  ASSUME NEW column \in Columns, NEW o \in Nat, NEW v \in Values(column), data \in Seq(Byte),
         column.content_type = "VARCHAR", o + column.size <= Len(data)
  PROVE  /\ Differs(data, varchar_add(o, column.size, v), o, column.size)
         /\ Holds(varchar_add(o, column.size, v), column, o, v)
<1> PICK zeros : zeros = Zeros(column.size)
  OBVIOUS
<1> PICK d : d = Written(data, o, zeros)
  OBVIOUS
<1> PICK e : e = Written(d, o, v)
  OBVIOUS
<1>1. column.size \in Nat /\ Len(data) \in Nat /\ e = varchar_add(o, column.size, v)
  BY DEF Columns, varchar_add
<1>2. v \in Seq(Byte) /\ Len(v) \in Nat /\ Len(v) < column.size
  BY ValueFits
<1>3. zeros \in [1 .. column.size -> {0}]
  BY DEF Zeros
<1>4. zeros \in Seq(Byte) /\ Len(zeros) = column.size
  BY <1>1, <1>3 DEF Byte
<1>5. /\ Differs(data, d, o, column.size)
      /\ \A i \in 1 .. column.size : d[o + i] = 0
  <2>1. o + Len(zeros) <= Len(data)
    BY <1>4
  <2>2. /\ Differs(data, d, o, Len(zeros))
        /\ \A i \in 1 .. Len(zeros) : d[o + i] = zeros[i]
    BY <1>4, <2>1, WrittenBytes
  <2> QED BY <1>3, <1>4, <2>2
<1>6. d \in Seq(Byte) /\ Len(d) = Len(data)
  BY <1>5 DEF Differs
<1>7. o + Len(v) <= Len(d)
  BY <1>1, <1>2, <1>6
<1>8. /\ Differs(d, e, o, Len(v))
      /\ \A i \in 1 .. Len(v) : e[o + i] = v[i]
  BY <1>2, <1>6, <1>7, WrittenBytes
<1>9. Differs(data, e, o, column.size)
  <2>1. Differs(d, e, o, column.size)
    BY <1>1, <1>2, <1>8, DiffersWithin
  <2> QED BY <1>1, <1>5, <2>1, DiffersTwice
<1>10. e[o + Len(v) + 1] = 0
  <2>1. /\ Len(v) + 1 \in 1 .. column.size /\ o + (Len(v) + 1) = o + Len(v) + 1
        /\ o + Len(v) + 1 \in 1 .. Len(d)
        /\ o + Len(v) + 1 \notin o + 1 .. o + Len(v)
    BY <1>1, <1>2, <1>6
  <2>2. d[o + Len(v) + 1] = 0
    BY <1>5, <2>1
  <2> QED BY <1>8, <2>1, <2>2 DEF Differs
<1> QED BY <1>1, <1>8, <1>9, <1>10 DEF Holds

LEMMA TextUpdated ==
  ASSUME NEW column \in Columns, NEW o \in Nat, NEW v \in Values(column), data \in Seq(Byte),
         column.content_type = "VARCHAR", o + column.size <= Len(data)
  PROVE  /\ Differs(data, varchar_update(o, v), o, column.size)
         /\ Holds(varchar_update(o, v), column, o, v)
<1> PICK text : text = Append(v, 0)
  OBVIOUS
<1> PICK e : e = Written(data, o, text)
  OBVIOUS
<1>1. column.size \in Nat /\ Len(data) \in Nat /\ e = varchar_update(o, v)
  BY DEF Columns, varchar_update
<1>2. v \in Seq(Byte) /\ Len(v) \in Nat /\ Len(v) < column.size
  BY ValueFits
<1>3. /\ text \in Seq(Byte) /\ Len(text) = Len(v) + 1
      /\ \A i \in 1 .. Len(v) : text[i] = v[i]
      /\ text[Len(v) + 1] = 0
  BY <1>2 DEF Byte
<1>4. Len(text) \in Nat /\ Len(text) <= column.size /\ o + Len(text) <= Len(data)
  BY <1>1, <1>2, <1>3
<1>5. /\ Differs(data, e, o, Len(text))
      /\ \A i \in 1 .. Len(text) : e[o + i] = text[i]
  BY <1>3, <1>4, WrittenBytes
<1>6. Differs(data, e, o, column.size)
  BY <1>1, <1>4, <1>5, DiffersWithin
<1>7. ASSUME NEW i \in 1 .. Len(v) PROVE e[o + i] = v[i]
  <2>1. i \in 1 .. Len(text)
    BY <1>2, <1>3
  <2>2. e[o + i] = text[i]
    BY <1>5, <2>1
  <2> QED BY <1>3, <2>2
<1>8. e[o + Len(v) + 1] = 0
  <2>1. Len(v) + 1 \in 1 .. Len(text) /\ o + (Len(v) + 1) = o + Len(v) + 1
    BY <1>2, <1>3
  <2> QED BY <1>3, <1>5, <2>1
<1> QED BY <1>1, <1>6, <1>7, <1>8 DEF Holds

-----------------------------------------------------------------------------
(* Every step keeps the invariant *)

LEMMA InitRowDataIInv ==
  ASSUME Init
  PROVE  RowDataIInv
<1>1. /\ schema.list = <<>> /\ schema.count = 0 /\ schema.length = 0
      /\ data = <<>> /\ DOMAIN given = {}
  BY DEF Init
<1>2. schema.list \in Seq(Columns) /\ Len(schema.list) = 0
  BY <1>1
<1>3. Before(schema.list)[1] = 0
  BY <1>2, BeforeAdds
<1> QED BY <1>1, <1>2, <1>3 DEF RowDataIInv, ListInv, RowInv, GivenInv

\* The list grows before there is a row: nothing has been given yet
LEMMA ListGrows ==
  ASSUME RowDataIInv, NEW name \in Name, NEW type \in DOMAIN Size \cup {"VARCHAR"},
         NEW size \in Nat, SchemaGrows(name, type, size)
  PROVE  RowDataIInv'
<1>1. data = <<>> /\ DOMAIN given = {} /\ UNCHANGED <<data, given>>
  BY DEF SchemaGrows, RowDataIInv, RowInv
<1>2. ListInv'
  <2>1. CASE UNCHANGED schema
    BY <2>1 DEF RowDataIInv, ListInv
  <2>2. CASE column_add(name, type, size)
    <3> PICK column : column = [name |-> name, content_type |-> type, size |-> size]
      OBVIOUS
    <3> PICK list : list = schema.list
      OBVIOUS
    <3>1. column \in Columns /\ column.size = size
      BY DEF Columns
    <3>2. /\ list \in Seq(Columns) /\ Len(list) \in Nat /\ schema.count = Len(list)
          /\ schema.length = Before(list)[Len(list) + 1]
      BY DEF RowDataIInv, ListInv
    <3>3. /\ schema'.list = Append(list, column) /\ schema'.count = Len(list) + 1
          /\ schema'.length = schema.length + size
      BY <2>2, <3>2 DEF column_add
    <3>4. Append(list, column) \in Seq(Columns) /\ Len(Append(list, column)) = Len(list) + 1
      BY <3>1, <3>2
    <3>5. Before(Append(list, column))[Len(list) + 2] = schema.length + size
      BY <3>1, <3>2, BeforeAppended
    <3>6. (Len(list) + 1) + 1 = Len(list) + 2
      BY <3>2
    <3> QED BY <3>3, <3>4, <3>5, <3>6 DEF ListInv
  <2> QED BY <2>1, <2>2 DEF SchemaGrows
<1>3. RowInv'
  BY <1>1 DEF RowDataIInv, RowInv
<1> QED BY <1>1, <1>2, <1>3 DEF RowDataIInv, GivenInv

LEMMA RowCreated ==
  ASSUME RowDataIInv, row_create
  PROVE  RowDataIInv'
<1>1. DOMAIN given = {} /\ UNCHANGED <<schema, given>>
  BY DEF row_create, RowDataIInv, RowInv
<1>2. schema.length \in Nat /\ schema.length > 0
  <2>1. schema.list \in Seq(Columns) /\ schema.count = Len(schema.list) /\ Len(schema.list) \in Nat
        /\ schema.length = Before(schema.list)[schema.count + 1]
    BY DEF RowDataIInv, ListInv
  <2>2. schema.count + 1 \in 1 .. Len(schema.list) + 1
    BY <2>1
  <2> QED BY <2>1, <2>2, BeforeAdds DEF row_create
<1>3. data' \in Seq(Byte) /\ Len(data') = schema.length
  BY <1>2 DEF row_create, Byte
<1>4. ListInv'
  BY <1>1 DEF RowDataIInv, ListInv
<1>5. RowInv'
  BY <1>1, <1>3 DEF RowInv, Byte, Found
<1> QED BY <1>1, <1>4, <1>5 DEF RowDataIInv, GivenInv

\* What a column holds is not touched by a write to the bytes of another
LEMMA HoldsStill ==
  ASSUME NEW d \in Seq(Byte), NEW e, NEW column \in Columns, NEW v, NEW o \in Nat,
         Holds(d, column, o, v), o + column.size <= Len(d),
         NEW p \in Nat, NEW n \in Nat, Differs(d, e, p, n),
         o + column.size <= p \/ p + n <= o
  PROVE  Holds(e, column, o, v)
<1>1. v \in Values(column)
  BY DEF Holds
<1>2. /\ Len(v) \in Nat /\ Len(v) <= column.size /\ column.size \in Nat /\ Len(d) \in Nat
      /\ column.content_type = "VARCHAR" => Len(v) < column.size
  BY <1>1, ValueFits DEF Columns
<1>3. ASSUME NEW i \in 1 .. column.size PROVE e[o + i] = d[o + i]
  <2>1. o + i \in 1 .. Len(d) /\ o + i \notin p + 1 .. p + n
    BY <1>2
  <2> QED BY <2>1 DEF Differs
<1>4. \A i \in 1 .. Len(v) : e[o + i] = v[i]
  BY <1>2, <1>3 DEF Holds
<1>5. column.content_type = "VARCHAR" => e[o + Len(v) + 1] = 0
  <2> SUFFICES ASSUME column.content_type = "VARCHAR" PROVE e[o + Len(v) + 1] = 0
    OBVIOUS
  <2>1. Len(v) + 1 \in 1 .. column.size /\ o + (Len(v) + 1) = o + Len(v) + 1
    BY <1>2
  <2>2. d[o + Len(v) + 1] = 0
    BY DEF Holds
  <2> QED BY <1>3, <2>1, <2>2
<1> QED BY <1>1, <1>4, <1>5 DEF Holds

\* A step that puts a value into the bytes of its column and changes no others
LEMMA ValueGiven ==
  ASSUME RowDataIInv, data # <<>>, NEW name, Found(name) # {}, NEW v, Give(name, v),
         UNCHANGED schema,
         Differs(data, data', column_get_offset(name), schema.list[First(name)].size),
         Holds(data', schema.list[First(name)], column_get_offset(name), v)
  PROVE  RowDataIInv'
<1>1. ListInv /\ RowInv /\ GivenInv
  BY DEF RowDataIInv
<1>2. /\ data \in Seq(Byte) /\ Len(data) = schema.length
      /\ data' \in Seq(Byte) /\ Len(data') = Len(data)
  BY <1>1 DEF RowInv, Differs, Byte
<1>3. data' # <<>>
  BY <1>2
<1>4. ListInv'
  BY <1>1 DEF ListInv
<1>5. \A n : /\ Found(n)' = Found(n) /\ First(n)' = First(n)
             /\ column_get_offset(n)' = column_get_offset(n)
  BY DEF Found, First, column_get_offset
<1>6. DOMAIN given' = DOMAIN given \cup {name} /\ given'[name] = v
      /\ \A n \in DOMAIN given : n # name => given'[n] = given[n]
  BY DEF Give
<1>7. RowInv'
  BY <1>1, <1>2, <1>3, <1>5, <1>6 DEF RowInv, Byte
<1>8. ASSUME NEW n \in DOMAIN given'
      PROVE  Holds(data', schema'.list[First(n)'], column_get_offset(n)', given'[n])
  <2>1. CASE n = name
    BY <1>5, <1>6, <2>1
  <2>2. CASE n # name
    <3> PICK column : column = schema.list[First(n)]
      OBVIOUS
    <3> PICK o, p, size : /\ o = column_get_offset(n) /\ p = column_get_offset(name)
                          /\ size = schema.list[First(name)].size
      OBVIOUS
    <3>1. n \in DOMAIN given /\ given'[n] = given[n]
      BY <1>6, <2>2
    <3>2. Found(n) # {}
      BY <1>1, <3>1 DEF RowInv
    <3>3. column \in Columns /\ o \in Nat /\ o + column.size <= Len(data)
      BY <1>1, <1>2, <3>2, FirstFound, BytesFound
    <3>4. p \in Nat /\ size \in Nat
      BY <1>1, BytesFound
    <3>5. o + column.size <= p \/ p + size <= o
      BY <1>1, <2>2, <3>2, ColumnsApart
    <3>6. Holds(data, column, o, given[n])
      BY <1>1, <3>1 DEF GivenInv
    <3>7. Holds(data', column, o, given[n])
      BY <1>2, <3>3, <3>4, <3>5, <3>6, HoldsStill
    <3> QED BY <1>5, <3>1, <3>7
  <2> QED BY <2>1, <2>2
<1>9. GivenInv'
  BY <1>8 DEF GivenInv
<1> QED BY <1>4, <1>7, <1>9 DEF RowDataIInv

LEMMA AttributeWritten ==
  ASSUME RowDataIInv, data # <<>>, NEW name, Found(name) # {},
         NEW value \in Values(schema.list[First(name)]),
         attribute_add(name, value) \/ update_query(name, value)
  PROVE  RowDataIInv'
<1> PICK column : column = schema.list[First(name)]
  OBVIOUS
<1> PICK o : o = column_get_offset(name)
  OBVIOUS
<1>1. ListInv /\ data \in Seq(Byte) /\ Len(data) = schema.length
  BY DEF RowDataIInv, RowInv, Byte
<1>2. column \in Columns /\ o \in Nat /\ o + column.size <= Len(data)
  BY <1>1, FirstFound, BytesFound
<1>3. Give(name, value) /\ UNCHANGED schema
  BY DEF attribute_add, update_query
<1>4. \/ /\ column.content_type = "VARCHAR"
         /\ data' = varchar_add(o, column.size, value) \/ data' = varchar_update(o, value)
      \/ /\ column.content_type # "VARCHAR"
         /\ data' = Written(data, o, value)
  BY DEF attribute_add, update_query
<1>5. Differs(data, data', o, column.size) /\ Holds(data', column, o, value)
  BY <1>1, <1>2, <1>4, ValueWritten, TextAdded, TextUpdated
<1> QED BY <1>3, <1>5, ValueGiven

LEMMA NextRowDataIInv ==
  ASSUME RowDataIInv, [Next]_vars
  PROVE  RowDataIInv'
<1>1. ASSUME NEW name \in Name, NEW type \in DOMAIN Size, schema_add_column(name, type)
      PROVE  RowDataIInv'
  <2>1. type \in DOMAIN Size \cup {"VARCHAR"} /\ Size[type] \in Nat
    BY RowDataAssumption DEF Size
  <2> QED BY <1>1, <2>1, ListGrows DEF schema_add_column
<1>2. ASSUME NEW name \in Name, NEW size \in VarcharSizes, schema_add_column_varchar(name, size)
      PROVE  RowDataIInv'
  BY <1>2, RowDataAssumption, ListGrows DEF schema_add_column_varchar
<1>3. ASSUME UNCHANGED vars
      PROVE  RowDataIInv'
  <2>1. UNCHANGED schema /\ UNCHANGED data /\ UNCHANGED given
    BY <1>3 DEF vars
  <2>2. \A n : /\ Found(n)' = Found(n) /\ First(n)' = First(n)
               /\ column_get_offset(n)' = column_get_offset(n)
    BY <2>1 DEF Found, First, column_get_offset
  <2> QED BY <2>1, <2>2 DEF RowDataIInv, ListInv, RowInv, GivenInv
<1>4. ASSUME NEW name \in Name, attribute_unknown(name)
      PROVE  RowDataIInv'
  BY <1>3, <1>4 DEF attribute_unknown
<1> QED
  BY <1>1, <1>2, <1>3, <1>4, RowCreated, AttributeWritten DEF Next

\* In every state offsets add up, and each column that was given a value holds it
THEOREM RowDataInvariant == Spec => []RowDataIInv
<1>1. Init => RowDataIInv
  BY InitRowDataIInv
<1>2. RowDataIInv /\ [Next]_vars => RowDataIInv'
  BY NextRowDataIInv
<1> QED BY <1>1, <1>2, PTL DEF Spec

\* For any number of columns of any sizes: columns that can be found by their names
\* share no byte of the row and lie within it, so that no write to one changes another
THEOREM ColumnsShareNothing == Spec => []SchemaInv
<1>1. ASSUME RowDataIInv
      PROVE  SchemaInv
  <2>1. ListInv /\ RowInv /\ schema.count = Len(schema.list)
    BY <1>1 DEF RowDataIInv, ListInv
  <2>2. ASSUME NEW name \in {schema.list[i].name : i \in 1 .. schema.count}
        PROVE  Found(name) # {}
    BY DEF Found
  <2>3. ASSUME NEW name \in {schema.list[i].name : i \in 1 .. schema.count}
        PROVE  Bytes(name) \subseteq 1 .. schema.length
    BY <2>1, <2>2, BytesFound DEF Bytes
  <2>4. ASSUME NEW m \in {schema.list[i].name : i \in 1 .. schema.count},
               NEW n \in {schema.list[i].name : i \in 1 .. schema.count}, m # n
        PROVE  Bytes(m) \cap Bytes(n) = {}
    <3>1. /\ column_get_offset(m) \in Nat /\ schema.list[First(m)].size \in Nat
          /\ column_get_offset(n) \in Nat /\ schema.list[First(n)].size \in Nat
      BY <2>1, <2>2, BytesFound
    <3>2. \/ column_get_offset(m) + schema.list[First(m)].size <= column_get_offset(n)
          \/ column_get_offset(n) + schema.list[First(n)].size <= column_get_offset(m)
      BY <2>1, <2>2, <2>4, ColumnsApart
    <3> QED BY <3>1, <3>2 DEF Bytes
  <2> QED BY <2>1, <2>3, <2>4 DEF SchemaInv, RowInv
<1> QED BY <1>1, RowDataInvariant, PTL

\* For any number of columns and any values: whatever the columns around it were given,
\* before and after, a column reads back the value it was last given.
THEOREM ColumnsReadBack == Spec => []ReadsBack
<1>1. ASSUME RowDataIInv, NEW name \in DOMAIN given
      PROVE  Stored(name) = given[name]
  <2> PICK column : column = schema.list[First(name)]
    OBVIOUS
  <2> PICK o, v : o = column_get_offset(name) /\ v = given[name]
    OBVIOUS
  <2>1. Holds(data, column, o, v) /\ v \in Values(column)
    BY <1>1 DEF RowDataIInv, GivenInv, Holds
  <2>2. column \in Columns /\ column.size \in Nat /\ o \in Nat /\ o + column.size <= schema.length
    BY <1>1, FirstFound, BytesFound DEF RowDataIInv, RowInv
  <2>3. data \in Seq(Byte) /\ Len(data) = schema.length /\ Len(data) \in Nat
    BY <1>1 DEF RowDataIInv, RowInv, Byte
  <2>4. CASE column.content_type # "VARCHAR"
    <3>1. v \in [1 .. column.size -> Byte] /\ Len(v) = column.size
      BY <2>1, <2>2, <2>4, ValueFits
    <3>2. SubSeq(data, o + 1, o + column.size) = [i \in 1 .. column.size |-> data[o + i]]
      <4>1. PICK n \in Nat : n = column.size /\ o + n <= Len(data)
        BY <2>2, <2>3
      <4>2. SubSeq(data, o + 1, o + n) = [i \in 1 .. n |-> data[o + i]]
        BY <2>2, <2>3, <4>1, BytesRead
      <4> QED BY <4>1, <4>2
    <3>3. \A i \in 1 .. column.size : data[o + i] = v[i]
      BY <2>1, <3>1 DEF Holds
    <3>4. SubSeq(data, o + 1, o + column.size) = v
      BY <3>1, <3>2, <3>3
    <3> QED BY <2>4, <3>4 DEF Stored
  <2>5. CASE column.content_type = "VARCHAR"
    <3>1. v \in Seq(Char) /\ Len(v) \in Nat /\ Len(v) < column.size
      BY <2>1, <2>2, <2>5, ValueFits
    <3> DEFINE ends == {i \in DOMAIN data : i > o /\ data[i] = 0}
               end == o + Len(v) + 1
    <3>2. end \in ends
      <4>1. end \in 1 .. Len(data) /\ end > o
        BY <2>2, <2>3, <3>1
      <4> QED BY <2>1, <2>3, <2>5, <4>1 DEF Holds
    <3>3. ASSUME NEW f \in ends PROVE end <= f
      <4> SUFFICES ASSUME f < end PROVE FALSE
        BY <2>3, <3>1, <2>2
      <4>1. f - o \in 1 .. Len(v) /\ o + (f - o) = f
        BY <2>2, <2>3, <3>1
      <4>2. data[f] = v[f - o] /\ v[f - o] \in Char
        BY <2>1, <3>1, <4>1 DEF Holds
      <4> QED BY <4>2, RowDataAssumption
    <3>4. (CHOOSE e \in ends : \A f \in ends : e <= f) = end
      <4>1. \A e \in ends : e \in Nat
        BY <2>3
      <4> HIDE DEF ends
      <4>2. end \in Nat
        BY <2>2, <3>1
      <4> HIDE DEF end
      <4>3. PICK e : e = CHOOSE c \in ends : \A f \in ends : c <= f
        OBVIOUS
      <4>4. e \in ends /\ \A f \in ends : e <= f
        BY <3>2, <3>3, <4>3
      <4> QED BY <3>2, <3>3, <4>1, <4>2, <4>3, <4>4
    <3>5. TextAt(o) = SubSeq(data, o + 1, end - 1)
      BY <3>2, <3>4 DEF TextAt
    <3>6. end - 1 = o + Len(v)
      BY <2>2, <3>1
    <3>7. SubSeq(data, o + 1, o + Len(v)) = [i \in 1 .. Len(v) |-> data[o + i]]
      <4>1. o + Len(v) <= Len(data)
        BY <2>2, <2>3, <3>1
      <4> QED BY <2>2, <2>3, <3>1, <4>1, BytesRead
    <3>8. [i \in 1 .. Len(v) |-> data[o + i]] = v
      BY <2>1, <3>1 DEF Holds
    <3>9. TextAt(o) = v
      BY <3>5, <3>6, <3>7, <3>8
    <3> QED BY <2>5, <3>9 DEF Stored
  <2> QED BY <2>4, <2>5
<1>2. RowDataIInv => ReadsBack
  BY <1>1 DEF ReadsBack
<1> QED BY <1>2, RowDataInvariant, PTL
=============================================================================
