----------------------------- MODULE ParserProofs -----------------------------
(***************************************************************************)
(* Proofs about Parser: how far its stacks grow, whatever the tokens.        *)
(*                                                                         *)
(* A state has one place on the stack, or one at most, and may be on a few    *)
(* states only.  A step takes some states off, and puts on the one below them  *)
(* what the tables lead to: it is in its place again, on one that it may be on. *)
(***************************************************************************)
EXTENDS Parser, TLAPS, FiniteSetTheorems

-----------------------------------------------------------------------------
(* What the tables make of the stack *)

States == 0 .. 113

\* The state in which a "(" has been read
OPENED == 54

\* The states that await a pair of a list, a value, or a filter
AwaitPair   == {24, 32, 91, 100}
AwaitFilter == {40, 54, 73, 74, 92}
AwaitValue  == {34, 75} \cup AwaitFilter

\* The part of a statement that has been read has one length in each state, wherever
\* lists, values and filters have been reduced.  The states within those are at
\* n of the stack at most, where n leaves out 5 for each open parenthesis.
Placed(t, i, n) ==
  /\ t = 0 => i = 1
  /\ t = 1 => i = 2
  /\ t \in 2 .. 21 => i = 3
  /\ t \in 23 .. 27 => i = 4
  /\ t \in {28, 30, 32} => i = 5
  /\ t \in {33, 35, 37} => i = 6
  /\ t \in 38 .. 42 \/ t \in {49, 51} => i = 7
  /\ t \in {52, 53, 57, 60, 61, 64} => i = 8
  /\ t \in {65, 66, 70, 71, 72, 76} => i = 9
  /\ t \in {79, 80, 84, 85, 86, 91} => i = 10
  /\ t \in 92 .. 96 => i = 11
  /\ t \in 97 .. 101 => i = 12
  /\ t \in 102 .. 105 => i = 13
  /\ t \in 106 .. 109 => i = 14
  /\ t \in {110, 111} => i = 15
  /\ t \in {112, 113} => i = 16
  /\ t = 22 => n <= 8
  /\ t = OPENED => n <= 11
  /\ t = 67 => n <= 12
  /\ t \in {31, 74, 81} => n <= 13
  /\ t \in {36, 88} => n <= 14
  /\ t \in {29, 50, 73} => n <= 15
  /\ t \in {34, 56, 58, 59, 87} => n <= 16
  /\ t \in {48, 69, 75} => n <= 17
  /\ t \in 43 .. 47 \/ t \in {55, 83, 89, 90} => n <= 18
  /\ t \in {62, 63, 68} => n <= 19
  /\ t \in {77, 78, 82} => n <= 20

\* What may be under a state
Under(p, t) ==
  /\ p = 0 => t = 1
  /\ t = 22 => p \in {3, 38}
  /\ t = 29 => p \in AwaitPair \cup {36}
  /\ t = 31 => p \in AwaitPair
  /\ t = 34 => p = 29
  /\ t = 36 => p \in {30, 37, 96, 104}
  /\ t = 30 => p = 24
  /\ t = 37 => p = 32
  /\ t = 96 => p = 91
  /\ t = 104 => p = 100
  /\ t = 48 => p = 34
  /\ t = 50 => p = 36
  /\ t \in 43 .. 47 => p \in AwaitValue
  /\ t = 55 => p \in (AwaitValue \cup {69}) \ {34}
  /\ t \in {OPENED, 56, 58, 59} => p \in AwaitFilter
  /\ t = 57 => p = 40
  /\ t = 67 => p = OPENED
  /\ t = 88 => p = 74
  /\ t = 97 => p = 92
  /\ t = 73 => p \in {57, 67, 88, 97}
  /\ t = 74 => p \in {57, 67, 97}
  /\ t \in {62, 63} => p = 44
  /\ t \in {77, 78} => p = 63
  /\ t = 68 => p = 55
  /\ t = 82 => p = 68
  /\ t = 69 => p = 56
  /\ t = 83 => p = 69
  /\ t = 75 => p = 59
  /\ t \in {89, 90} => p = 75
  /\ t = 81 => p = 67
  /\ t = 87 => p = 73

\* State t may be put on state p at i
Goes(p, t, i, n) ==
  t \in States /\ Under(p, t) /\ Placed(t, i + 1, IF t = OPENED THEN n - 4 ELSE n + 1)

\* Of each state: the states that the tables put on it
Leads ==
  <<{1}, {2, 3, 4, 5, 6, 7, 8, 9, 10, 11, 12, 13, 14, 15, 16, 17, 18, 19, 20, 21}, {},
    {22, 23}, {24}, {25}, {26}, {27}, {}, {}, {}, {}, {}, {}, {}, {}, {}, {}, {}, {},
    {}, {}, {}, {28}, {29, 30, 31}, {32}, {}, {}, {33}, {34}, {35, 36}, {},
    {29, 31, 37}, {38, 39, 40, 41, 42}, {43, 44, 45, 46, 47, 48}, {49}, {29, 50},
    {36, 51}, {22, 52}, {53}, {43, 44, 45, 46, 47, 54, 55, 56, 57, 58, 59}, {60}, {61},
    {}, {62, 63}, {}, {}, {}, {}, {64}, {}, {}, {65}, {66},
    {43, 44, 45, 46, 47, 54, 55, 56, 58, 59, 67}, {68}, {69}, {70, 71, 72, 73, 74}, {},
    {75}, {}, {76}, {}, {77, 78}, {}, {79}, {80}, {73, 74, 81}, {82}, {55, 83}, {84},
    {85}, {86}, {43, 44, 45, 46, 47, 54, 55, 56, 58, 59, 87},
    {43, 44, 45, 46, 47, 54, 55, 56, 58, 59, 88}, {43, 44, 45, 46, 47, 55, 89, 90},
    {91}, {}, {}, {92, 93}, {}, {}, {}, {}, {94}, {}, {95}, {}, {73}, {}, {},
    {29, 31, 96}, {43, 44, 45, 46, 47, 54, 55, 56, 58, 59, 97}, {98}, {99}, {100},
    {36, 101}, {73, 74, 102}, {103}, {}, {29, 31, 104}, {105}, {106}, {107}, {36, 108},
    {109}, {110}, {}, {111}, {}, {112}, {113}, {}, {}>>

-----------------------------------------------------------------------------
(* The tables, a range of states at a time *)

\* What a token leads to is in Leads.
LEMMA Shifted ==
  ASSUME NEW p \in States, NEW c \in 0 .. 30, Entry(p, c) > 0
  PROVE  Entry(p, c) \in Leads[p + 1]
<1>1. \A s \in 0 .. 29, d \in 0 .. 30 : Entry(s, d) > 0 => Entry(s, d) \in Leads[s + 1]
  BY DEF Leads, Entry, yypact, yytable, yycheck, YYLAST
<1>2. \A s \in 30 .. 66, d \in 0 .. 30 : Entry(s, d) > 0 => Entry(s, d) \in Leads[s + 1]
  BY DEF Leads, Entry, yypact, yytable, yycheck, YYLAST
<1>3. \A s \in 67 .. 90, d \in 0 .. 30 : Entry(s, d) > 0 => Entry(s, d) \in Leads[s + 1]
  BY DEF Leads, Entry, yypact, yytable, yycheck, YYLAST
<1>4. \A s \in 91 .. 113, d \in 0 .. 30 : Entry(s, d) > 0 => Entry(s, d) \in Leads[s + 1]
  BY DEF Leads, Entry, yypact, yytable, yycheck, YYLAST
<1>5. p \in (0 .. 29) \cup (30 .. 66) \cup (67 .. 90) \cup (91 .. 113)
  BY DEF States
<1> QED
  BY <1>1, <1>2, <1>3, <1>4, <1>5

\* The one rule that an entry of yytable reduces by
LEMMA Negative ==
  ASSUME NEW p \in States, NEW c \in 0 .. 30, Entry(p, c) < 0
  PROVE  Entry(p, c) = -4 /\ p \in AwaitFilter
<1>1. \A s \in 0 .. 36, d \in 0 .. 30 : ~ (Entry(s, d) < 0)
  BY DEF Entry, yypact, yytable, yycheck, YYLAST
<1>2. \A s \in 37 .. 66, d \in 0 .. 30 : Entry(s, d) < 0 => Entry(s, d) = -4 /\ s \in AwaitFilter
  BY DEF Entry, yypact, yytable, yycheck, YYLAST, AwaitFilter
<1>3. \A s \in 67 .. 90, d \in 0 .. 30 : Entry(s, d) < 0 => Entry(s, d) = -4 /\ s \in AwaitFilter
  BY DEF Entry, yypact, yytable, yycheck, YYLAST, AwaitFilter
<1>4. \A s \in 91 .. 113, d \in 0 .. 30 : Entry(s, d) < 0 => Entry(s, d) = -4 /\ s \in AwaitFilter
  BY DEF Entry, yypact, yytable, yycheck, YYLAST, AwaitFilter
<1>5. p \in (0 .. 36) \cup (37 .. 66) \cup (67 .. 90) \cup (91 .. 113)
  BY DEF States
<1> QED
  BY <1>1, <1>2, <1>3, <1>4, <1>5

\* What is put on a state that is in its place is in its own.
LEMMA Rises ==
  ASSUME NEW i \in Int, NEW n \in Int, n <= i,
         NEW p \in States, Placed(p, i, n), NEW t \in Leads[p + 1]
  PROVE  Goes(p, t, i, n)
<1>1. CASE p \in 0 .. 22
  BY <1>1 DEF Leads, Goes, Under, Placed, States, OPENED, AwaitPair, AwaitFilter, AwaitValue
<1>2. CASE p \in 23 .. 37
  BY <1>2 DEF Leads, Goes, Under, Placed, States, OPENED, AwaitPair, AwaitFilter, AwaitValue
<1>3. CASE p \in 38 .. 53
  BY <1>3 DEF Leads, Goes, Under, Placed, States, OPENED, AwaitPair, AwaitFilter, AwaitValue
<1>4. CASE p \in 54 .. 66
  BY <1>4 DEF Leads, Goes, Under, Placed, States, OPENED, AwaitPair, AwaitFilter, AwaitValue
<1>5. CASE p \in 67 .. 76
  BY <1>5 DEF Leads, Goes, Under, Placed, States, OPENED, AwaitPair, AwaitFilter, AwaitValue
<1>6. CASE p \in 77 .. 95
  BY <1>6 DEF Leads, Goes, Under, Placed, States, OPENED, AwaitPair, AwaitFilter, AwaitValue
<1>7. CASE p \in 96 .. 113
  BY <1>7 DEF Leads, Goes, Under, Placed, States, OPENED, AwaitPair, AwaitFilter, AwaitValue
<1> QED
  BY <1>1, <1>2, <1>3, <1>4, <1>5, <1>6, <1>7 DEF States

\* What a part leads to is in Leads of the states that await it.
Parts ==
  /\ \A p \in {0}, r \in {2} : Goto(p, r) \in Leads[p + 1]
  /\ \A p \in {1}, r \in {10} : Goto(p, r) \in Leads[p + 1]
  /\ \A p \in {3, 38}, r \in {66, 67} : Goto(p, r) \in Leads[p + 1]
  /\ \A p \in AwaitPair, r \in 50 .. 52 : Goto(p, r) \in Leads[p + 1]
  /\ \A p \in AwaitPair \cup {36}, r \in {53, 54} : Goto(p, r) \in Leads[p + 1]
  /\ \A p \in AwaitValue, r \in 4 .. 9 : Goto(p, r) \in Leads[p + 1]
  /\ \A p \in AwaitFilter, r \in 55 .. 63 : Goto(p, r) \in Leads[p + 1]
  /\ \A p \in (AwaitValue \cup {69}) \ {34}, r \in {64, 65} : Goto(p, r) \in Leads[p + 1]
  /\ \A p \in {44}, r \in 68 .. 70 : Goto(p, r) \in Leads[p + 1]

LEMMA PartsLead == Parts
<1>1. \A p \in {0}, r \in {2} : Goto(p, r) \in Leads[p + 1]
  BY DEF Leads, Goto, yyr1, yypgoto, yycheck, yytable, YYLAST, YYNTOKENS, yydefgoto
<1>2. \A p \in {1}, r \in {10} : Goto(p, r) \in Leads[p + 1]
  BY DEF Leads, Goto, yyr1, yypgoto, yycheck, yytable, YYLAST, YYNTOKENS, yydefgoto
<1>3. \A p \in {3, 38}, r \in {66, 67} : Goto(p, r) \in Leads[p + 1]
  BY DEF Leads, Goto, yyr1, yypgoto, yycheck, yytable, YYLAST, YYNTOKENS, yydefgoto
<1>4. \A p \in AwaitPair, r \in 50 .. 52 : Goto(p, r) \in Leads[p + 1]
  BY DEF AwaitPair, Leads, Goto, yyr1, yypgoto, yycheck, yytable, YYLAST, YYNTOKENS, yydefgoto
<1>5. \A p \in AwaitPair \cup {36}, r \in {53, 54} : Goto(p, r) \in Leads[p + 1]
  BY DEF AwaitPair, Leads, Goto, yyr1, yypgoto, yycheck, yytable, YYLAST, YYNTOKENS, yydefgoto
<1>6. \A p \in AwaitFilter, r \in 4 .. 9 : Goto(p, r) \in Leads[p + 1]
  BY DEF AwaitFilter, Leads, Goto, yyr1, yypgoto, yycheck, yytable, YYLAST, YYNTOKENS,
     yydefgoto
<1>7. \A p \in {34, 75}, r \in 4 .. 9 : Goto(p, r) \in Leads[p + 1]
  BY DEF Leads, Goto, yyr1, yypgoto, yycheck, yytable, YYLAST, YYNTOKENS, yydefgoto
<1>8. \A p \in AwaitFilter, r \in 55 .. 58 : Goto(p, r) \in Leads[p + 1]
  BY DEF AwaitFilter, Leads, Goto, yyr1, yypgoto, yycheck, yytable, YYLAST, YYNTOKENS,
     yydefgoto
<1>9. \A p \in AwaitFilter, r \in 59 .. 63 : Goto(p, r) \in Leads[p + 1]
  BY DEF AwaitFilter, Leads, Goto, yyr1, yypgoto, yycheck, yytable, YYLAST, YYNTOKENS,
     yydefgoto
<1>10. \A p \in (AwaitValue \cup {69}) \ {34}, r \in {64, 65} : Goto(p, r) \in Leads[p + 1]
  BY DEF AwaitFilter, AwaitValue, Leads, Goto, yyr1, yypgoto, yycheck, yytable, YYLAST,
     YYNTOKENS, yydefgoto
<1>11. \A p \in {44}, r \in 68 .. 70 : Goto(p, r) \in Leads[p + 1]
  BY DEF Leads, Goto, yyr1, yypgoto, yycheck, yytable, YYLAST, YYNTOKENS, yydefgoto
<1> QED
  BY <1>1, <1>2, <1>3, <1>4, <1>5, <1>6, <1>7, <1>8, <1>9, <1>10, <1>11 DEF Parts, AwaitValue

\* A rule without symbols
LEMMA Guesses ==
  ASSUME NEW s \in States,
         NEW r, (r = yydefact[s + 1] /\ r > 0 /\ yyr2[r + 1] = 0) \/ (r = 4 /\ s \in AwaitFilter)
  PROVE  yyr2[r + 1] = 0 /\ Goto(s, r) \in Leads[s + 1]
<1>1. CASE r = 4 /\ s \in AwaitFilter
  <2>1. yyr2[4 + 1] = 0
    BY DEF yyr2
  <2>2. s \in AwaitValue /\ 4 \in 4 .. 9
    BY <1>1 DEF AwaitValue
  <2>3. Goto(s, 4) \in Leads[s + 1]
    BY <2>2, PartsLead DEF Parts
  <2> QED
    BY <1>1, <2>1, <2>3
<1>2. CASE r = yydefact[s + 1] /\ r > 0 /\ yyr2[r + 1] = 0
  <2>1. \/ s = 0 /\ r = 2
        \/ s = 1 /\ r = 10
        \/ s \in {3, 38} /\ r = 66
        \/ s \in AwaitPair /\ r = 50
        \/ s \in {34, 75} /\ r = 4
        \/ s = 36 /\ r = 53
        \/ s \in AwaitFilter /\ r = 55
        \/ s = 44 /\ r = 68
        \/ s = 69 /\ r = 64
    BY <1>2 DEF States, yydefact, yyr2, AwaitPair, AwaitFilter
  <2> QED
    BY <1>2, <2>1, PartsLead DEF Parts, AwaitValue
<1> QED
  BY <1>1, <1>2

\* The states at the end of a part of one symbol, and of three
ONE == {22, 31, 43, 45, 46, 47, 58, 62}
THREE == {48, 50, 77, 81, 82, 83, 87, 88, 89, 90}

\* Below a part of one symbol is a state that awaits it.
LEMMA PartOfOne ==
  ASSUME NEW s \in ONE, NEW p \in States, Under(p, s)
  PROVE  yyr2[yydefact[s + 1] + 1] = 1 /\ p # 0 /\ Goto(p, yydefact[s + 1]) \in Leads[p + 1]
<1>1. yyr2[yydefact[s + 1] + 1] = 1
  BY DEF ONE, yydefact, yyr2
<1>2. p # 0
  BY DEF ONE, Under, AwaitPair, AwaitFilter, AwaitValue
<1>3. \/ yydefact[s + 1] = 67 /\ p \in {3, 38}
      \/ yydefact[s + 1] = 52 /\ p \in AwaitPair
      \/ yydefact[s + 1] \in 4 .. 9 /\ p \in AwaitValue
      \/ yydefact[s + 1] = 59 /\ p \in AwaitFilter
      \/ yydefact[s + 1] = 70 /\ p = 44
  BY DEF ONE, Under, yydefact
<1> QED
  BY <1>1, <1>2, <1>3, PartsLead DEF Parts

\* So is below a text of two
LEMMA PartOfTwo ==
  ASSUME NEW p \in States, Under(p, 78), NEW q \in States, Under(q, p)
  PROVE  yyr2[yydefact[79] + 1] = 2 /\ p # 0 /\ q # 0 /\ Goto(q, yydefact[79]) \in Leads[q + 1]
<1>1. yydefact[79] = 69 /\ yyr2[69 + 1] = 2
  BY DEF yydefact, yyr2
<1>2. p = 63 /\ q = 44
  BY DEF Under
<1> QED
  BY <1>1, <1>2, PartsLead DEF Parts

\* No part reaches the bottom of the stack.
LEMMA TwoBelow ==
  ASSUME NEW s \in THREE, NEW p, Under(p, s), NEW q, Under(q, p)
  PROVE  p # 0 /\ q # 0
BY DEF THREE, Under, AwaitPair, AwaitFilter, AwaitValue

\* And below a part of three symbols
LEMMA PartOfThree ==
  ASSUME NEW s \in THREE, NEW p \in States, Under(p, s), NEW q \in States, Under(q, p),
         NEW o \in States, Under(o, q)
  PROVE  yyr2[yydefact[s + 1] + 1] = 3 /\ p # 0 /\ q # 0 /\ Goto(o, yydefact[s + 1]) \in Leads[o + 1]
<1>1. yyr2[yydefact[s + 1] + 1] = 3
  BY DEF THREE, yydefact, yyr2
<1>2. p # 0 /\ q # 0
  BY TwoBelow
<1>3. \/ yydefact[s + 1] = 54 /\ o \in AwaitPair \cup {36}
      \/ yydefact[s + 1] = 51 /\ o \in AwaitPair
      \/ yydefact[s + 1] = 9 /\ o \in AwaitValue
      \/ yydefact[s + 1] \in 55 .. 63 /\ o \in AwaitFilter
      \/ yydefact[s + 1] = 65 /\ o \in (AwaitValue \cup {69}) \ {34}
  <2>1. CASE s \in {48, 50, 77}
    BY <2>1 DEF Under, yydefact, AwaitPair
  <2>2. CASE s \in {81, 82, 83}
    BY <2>2 DEF Under, yydefact, OPENED
  <2>3. CASE s \in {87, 88}
    BY <2>3 DEF Under, yydefact, OPENED, AwaitFilter
  <2>4. CASE s \in {89, 90}
    BY <2>4 DEF Under, yydefact
  <2> QED
    BY <2>1, <2>2, <2>3, <2>4 DEF THREE
<1> QED
  BY <1>1, <1>2, <1>3, PartsLead DEF Parts

\* The end of a statement
STATEMENT == (8 .. 21) \cup {26, 51, 60, 64, 80, 85, 99, 107, 109, 112, 113}

\* Whatever its length, all of it is above the lowest two states.
LEMMA Statement ==
  ASSUME NEW s \in STATEMENT, NEW i \in Int, NEW n \in Int, Placed(s, i, n)
  PROVE  /\ yyr2[yydefact[s + 1] + 1] \in 1 .. 14
         /\ i - yyr2[yydefact[s + 1] + 1] = 2
         /\ Goto(1, yydefact[s + 1]) \in Leads[2]
<1> DEFINE rule == yydefact[s + 1]
<1>3. /\ rule \in (11 .. 16) \cup (18 .. 21) \cup {23, 25, 27, 29, 31, 32, 34, 36, 38, 39, 41, 43, 45, 47, 49}
      /\ yyr2[rule + 1] \in 1 .. 14
  BY DEF STATEMENT, yydefact, yyr2
<1>4. \A r \in (11 .. 16) \cup (18 .. 21) \cup {23, 25, 27, 29} : Goto(1, r) \in Leads[2]
  BY DEF Leads, Goto, yyr1, yypgoto, yycheck, yytable, YYLAST, YYNTOKENS, yydefgoto
<1>5. \A r \in {31, 32, 34, 36, 38, 39, 41, 43, 45, 47, 49} : Goto(1, r) \in Leads[2]
  BY DEF Leads, Goto, yyr1, yypgoto, yycheck, yytable, YYLAST, YYNTOKENS, yydefgoto
<1>1. yyr2[rule + 1] \in 1 .. 14 /\ Goto(1, rule) \in Leads[2]
  BY <1>3, <1>4, <1>5
<1>2. i - yyr2[yydefact[s + 1] + 1] = 2
  BY DEF STATEMENT, yydefact, yyr2, Placed, OPENED
<1> QED
  BY <1>1, <1>2

\* There is no other rule to reduce by.
LEMMA Kinds ==
  ASSUME NEW s \in States, s # YYFINAL, yydefact[s + 1] > 0, yydefact[s + 1] # 3
  PROVE  yyr2[yydefact[s + 1] + 1] = 0 \/ s \in ONE \/ s = 78 \/ s \in THREE \/ s \in STATEMENT
BY DEF States, YYFINAL, yydefact, yyr2, ONE, THREE, STATEMENT

-----------------------------------------------------------------------------
(* The stack of the states *)

\* The open parentheses of the lowest i states
Opens(ss, i) == Cardinality({j \in 1 .. i : ss[j] = OPENED})

\* Every state is in its place, on one that it may be on.
StackRight(ss) ==
  /\ ss \in Seq(States) /\ ss # <<>> /\ ss[1] = 0
  /\ \A i \in DOMAIN ss : Placed(ss[i], i, i - 5 * Opens(ss, i))
  /\ \A i \in DOMAIN ss : i > 1 => Under(ss[i - 1], ss[i])

\* There are no more than states.
LEMMA OpensBound ==
  ASSUME NEW ss, NEW i \in Nat
  PROVE  IsFiniteSet({j \in 1 .. i : ss[j] = OPENED}) /\ Opens(ss, i) \in Nat /\ Opens(ss, i) <= i
<1>1. IsFiniteSet(1 .. i) /\ Cardinality(1 .. i) = i
  BY FS_Interval
<1>2. {j \in 1 .. i : ss[j] = OPENED} \subseteq 1 .. i
  OBVIOUS
<1>3. /\ IsFiniteSet({j \in 1 .. i : ss[j] = OPENED})
      /\ Cardinality({j \in 1 .. i : ss[j] = OPENED}) <= i
  BY <1>1, <1>2, FS_Subset
<1>4. Cardinality({j \in 1 .. i : ss[j] = OPENED}) \in Nat
  BY <1>3, FS_CardinalityType
<1> QED
  BY <1>3, <1>4 DEF Opens

\* One state more
LEMMA OpensNext ==
  ASSUME NEW ss, NEW i \in Nat
  PROVE  Opens(ss, i + 1) = Opens(ss, i) + (IF ss[i + 1] = OPENED THEN 1 ELSE 0)
<1> DEFINE Of(n) == {j \in 1 .. n : ss[j] = OPENED}
<1>1. CASE ss[i + 1] = OPENED
  <2>1. Of(i + 1) = Of(i) \cup {i + 1} /\ i + 1 \notin Of(i)
    BY <1>1
  <2>2. IsFiniteSet(Of(i))
    BY OpensBound
  <2>3. Cardinality(Of(i) \cup {i + 1}) = Cardinality(Of(i)) + 1
    BY <2>1, <2>2, FS_AddElement
  <2> QED
    BY <1>1, <2>1, <2>3 DEF Opens
<1>2. CASE ss[i + 1] # OPENED
  <2>1. Of(i + 1) = Of(i)
    BY <1>2
  <2>2. Opens(ss, i) \in Nat
    BY OpensBound
  <2> QED
    BY <1>2, <2>1, <2>2 DEF Opens
<1> QED
  BY <1>1, <1>2

\* The lowest states decide.
LEMMA OpensSame ==
  ASSUME NEW ss, NEW tt, NEW i \in Nat, \A j \in 1 .. i : ss[j] = tt[j]
  PROVE  Opens(ss, i) = Opens(tt, i)
<1>1. {j \in 1 .. i : ss[j] = OPENED} = {j \in 1 .. i : tt[j] = OPENED}
  OBVIOUS
<1> QED
  BY <1>1 DEF Opens

\* What Entry or Goto put on a state keeps the stack right.
LEMMA PutRight ==
  ASSUME NEW ss, StackRight(ss), NEW h \in DOMAIN ss, NEW t \in Leads[ss[h] + 1]
  PROVE  StackRight(Append(SubSeq(ss, 1, h), t))
<1> DEFINE tt == Append(SubSeq(ss, 1, h), t)
           level(i) == i - 5 * Opens(ss, i)
<1>1. ss \in Seq(States) /\ h \in 1 .. Len(ss) /\ h \in Nat /\ ss[h] \in States
  BY DEF StackRight
<1>2. Placed(ss[h], h, level(h)) /\ level(h) \in Int /\ level(h) <= h
  <2>1. Opens(ss, h) \in Nat /\ Opens(ss, h) <= h
    BY <1>1, OpensBound
  <2> QED
    BY <2>1, <1>1 DEF StackRight
<1>3. Goes(ss[h], t, h, level(h))
  BY <1>1, <1>2, Rises
<1>4. t \in States /\ Under(ss[h], t)
  BY <1>3 DEF Goes
<1>5. /\ tt \in Seq(States) /\ Len(tt) = h + 1 /\ tt[h + 1] = t
      /\ \A j \in 1 .. h : tt[j] = ss[j]
  BY <1>1, <1>4
<1> HIDE DEF tt
<1>6. DOMAIN tt = 1 .. h + 1 /\ tt # <<>> /\ tt[1] = 0
  <2>1. tt[1] = ss[1] /\ ss[1] = 0
    BY <1>1, <1>5 DEF StackRight
  <2> QED
    BY <1>1, <1>5, <2>1
<1>7. ASSUME NEW i \in DOMAIN tt
      PROVE  /\ Placed(tt[i], i, i - 5 * Opens(tt, i))
             /\ i > 1 => Under(tt[i - 1], tt[i])
  <2>1. CASE i \in 1 .. h
    <3>1. Opens(tt, i) = Opens(ss, i)
      BY <1>5, <2>1, OpensSame
    <3>2. i \in DOMAIN ss /\ tt[i] = ss[i] /\ (i > 1 => tt[i - 1] = ss[i - 1])
      BY <1>1, <1>5, <2>1
    <3> QED
      BY <3>1, <3>2 DEF StackRight
  <2>2. CASE i = h + 1
    <3>1. Opens(tt, h) = Opens(ss, h)
      BY <1>1, <1>5, OpensSame
    <3>2. Opens(tt, h + 1) = Opens(ss, h) + (IF t = OPENED THEN 1 ELSE 0)
      BY <1>1, <1>5, <3>1, OpensNext
    <3>3. Opens(ss, h) \in Nat
      BY <1>1, OpensBound
    <3>4. i - 5 * Opens(tt, i) = IF t = OPENED THEN level(h) - 4 ELSE level(h) + 1
      BY <1>1, <2>2, <3>2, <3>3
    <3>5. Placed(t, i, i - 5 * Opens(tt, i))
      BY <1>3, <2>2, <3>4 DEF Goes
    <3>6. tt[i] = t /\ i - 1 = h /\ tt[h] = ss[h]
      BY <1>1, <1>5, <2>2
    <3> QED
      BY <1>4, <3>5, <3>6
  <2> QED
    BY <1>1, <1>6, <2>1, <2>2
<1>8. StackRight(tt)
  BY <1>5, <1>6, <1>7 DEF StackRight
<1> QED
  BY <1>8 DEF tt

\* A state that is in its place is low.
LEMMA Bounded ==
  ASSUME NEW t \in States, NEW i \in Int, NEW o \in Nat, Placed(t, i, i - 5 * o)
  PROVE  i <= 20 + 5 * o
<1>1. CASE t \in {0, 1, 30, 32, 33, 35, 37, 49, 51, 52, 53, 57, 60, 61, 64, 65, 66, 70, 71, 72}
                 \cup (2 .. 21) \cup (23 .. 28) \cup (38 .. 42)
  BY <1>1 DEF Placed
<1>2. CASE t \in {76, 79, 80, 84, 85, 86, 91} \cup (92 .. 113)
  BY <1>2 DEF Placed
<1>3. CASE t \in {22, 29, 31, 34, 36, 48, 50, 73, 74, 75, 81, 87, 88}
  BY <1>3 DEF Placed
<1>4. CASE t \in {54, 55, 56, 58, 59, 62, 63, 67, 68, 69, 77, 78, 82, 83, 89, 90} \cup (43 .. 47)
  BY <1>4 DEF Placed, OPENED
<1>5. \/ t \in {0, 1, 30, 32, 33, 35, 37, 49, 51, 52, 53, 57, 60, 61, 64, 65, 66, 70, 71, 72}
                 \cup (2 .. 21) \cup (23 .. 28) \cup (38 .. 42)
      \/ t \in {76, 79, 80, 84, 85, 86, 91} \cup (92 .. 113)
      \/ t \in {22, 29, 31, 34, 36, 48, 50, 73, 74, 75, 81, 87, 88}
      \/ t \in {54, 55, 56, 58, 59, 62, 63, 67, 68, 69, 77, 78, 82, 83, 89, 90} \cup (43 .. 47)
  BY DEF States
<1> QED
  BY <1>1, <1>2, <1>3, <1>4, <1>5

\* A right stack is no deeper than its open parentheses allow.
LEMMA DepthRight ==
  ASSUME NEW ss, StackRight(ss)
  PROVE  Len(ss) <= 20 + 5 * Opens(ss, Len(ss))
<1> DEFINE n == Len(ss)
<1>1. n \in DOMAIN ss /\ n \in Nat /\ ss[n] \in States
  BY DEF StackRight
<1>2. Opens(ss, n) \in Nat
  BY <1>1, OpensBound
<1>3. PICK o \in Nat : o = Opens(ss, n)
  BY <1>2
<1>4. Placed(ss[n], n, n - 5 * o)
  BY <1>1, <1>3 DEF StackRight
<1>5. PICK i \in Nat, t \in States : i = n /\ t = ss[n]
  BY <1>1
<1>6. i <= 20 + 5 * o
  <2>1. Placed(t, i, i - 5 * o)
    BY <1>4, <1>5
  <2>2. i \in Int
    OBVIOUS
  <2> QED
    BY <2>1, <2>2, Bounded
<1> QED
  BY <1>3, <1>5, <1>6

\* What a rule leaves of the stack is right with the state that it puts there.
Reduced(ss, r) ==
  LET h == Len(ss) - yyr2[r + 1] IN
  h \in DOMAIN ss /\ Goto(ss[h], r) \in Leads[ss[h] + 1]

\* So it is with every rule that a right stack is reduced by.
LEMMA ReducesRight ==
  ASSUME NEW ss, StackRight(ss), NEW s, s = ss[Len(ss)], s # YYFINAL,
         NEW r, r # 3, (r > 0 /\ r = yydefact[s + 1]) \/ (r = 4 /\ s \in AwaitFilter)
  PROVE  Reduced(ss, r)
<1> DEFINE n == Len(ss)
           Default == r > 0 /\ r = yydefact[s + 1]
<1>1. /\ n \in Nat /\ n >= 1 /\ DOMAIN ss = 1 .. n /\ s \in States /\ ss[1] = 0
      /\ \A i \in 1 .. n : ss[i] \in States
  BY DEF StackRight
<1>2. Placed(s, n, n - 5 * Opens(ss, n)) /\ n - 5 * Opens(ss, n) \in Int
  <2>1. Opens(ss, n) \in Nat
    BY <1>1, OpensBound
  <2> QED
    BY <1>1, <2>1 DEF StackRight
<1>3. \A i \in 1 .. n : i > 1 => Under(ss[i - 1], ss[i])
  BY <1>1 DEF StackRight
<1>4. CASE (Default /\ yyr2[r + 1] = 0) \/ (r = 4 /\ s \in AwaitFilter)
  <2>1. yyr2[r + 1] = 0 /\ Goto(s, r) \in Leads[s + 1]
    BY <1>1, <1>4, Guesses
  <2> QED
    BY <1>1, <2>1 DEF Reduced
<1>5. ASSUME s # 0 PROVE n > 1 /\ n - 1 \in 1 .. n /\ Under(ss[n - 1], s)
  BY <1>1, <1>3, <1>5
<1>6. CASE Default /\ s \in ONE
  <2>1. s # 0
    BY <1>6 DEF ONE
  <2>2. ss[n - 1] \in States /\ Under(ss[n - 1], s)
    BY <1>1, <1>5, <2>1
  <2>3. yyr2[r + 1] = 1 /\ Goto(ss[n - 1], r) \in Leads[ss[n - 1] + 1]
    BY <1>6, <2>2, PartOfOne
  <2> QED
    BY <1>1, <1>5, <2>1, <2>3 DEF Reduced
<1>7. ASSUME s # 0, ss[n - 1] # 0
      PROVE  n > 2 /\ n - 2 \in 1 .. n /\ Under(ss[n - 2], ss[n - 1])
  <2>1. n - 1 > 1 /\ n - 1 \in 1 .. n
    BY <1>1, <1>5, <1>7
  <2>2. Under(ss[(n - 1) - 1], ss[n - 1]) /\ (n - 1) - 1 = n - 2
    BY <1>1, <1>3, <2>1
  <2> QED
    BY <1>1, <2>1, <2>2
<1>8. CASE Default /\ s = 78
  <2>1. ss[n - 1] \in States /\ Under(ss[n - 1], 78)
    BY <1>1, <1>5, <1>8
  <2>2. ss[n - 1] # 0
    BY <2>1 DEF Under
  <2>3. n - 2 \in 1 .. n /\ ss[n - 2] \in States /\ Under(ss[n - 2], ss[n - 1])
    BY <1>1, <1>7, <1>8, <2>2
  <2>4. yyr2[yydefact[79] + 1] = 2 /\ Goto(ss[n - 2], yydefact[79]) \in Leads[ss[n - 2] + 1]
    BY <2>1, <2>3, PartOfTwo
  <2>5. r = yydefact[79]
    BY <1>8
  <2> QED
    BY <1>1, <2>3, <2>4, <2>5 DEF Reduced
<1>9. CASE Default /\ s \in THREE
  <2>1. s # 0
    BY <1>9 DEF THREE
  <2>2. ss[n - 1] \in States /\ Under(ss[n - 1], s)
    BY <1>1, <1>5, <2>1
  <2>3. ss[n - 1] # 0
    BY <1>9, <2>2 DEF Under, THREE
  <2>4. n > 2 /\ n - 2 \in 1 .. n /\ ss[n - 2] \in States /\ Under(ss[n - 2], ss[n - 1])
    BY <1>1, <1>7, <2>1, <2>3
  <2>5. ss[n - 2] # 0
    BY <1>9, <2>2, <2>4, TwoBelow
  <2>6. n - 2 > 1
    BY <1>1, <2>4, <2>5
  <2>7. n - 3 \in 1 .. n /\ Under(ss[n - 3], ss[n - 2])
    <3>1. Under(ss[(n - 2) - 1], ss[n - 2]) /\ (n - 2) - 1 = n - 3
      BY <1>1, <1>3, <2>4, <2>6
    <3> QED
      BY <1>1, <2>6, <3>1
  <2>8. ss[n - 3] \in States
    BY <1>1, <2>7
  <2>9. yyr2[r + 1] = 3 /\ Goto(ss[n - 3], r) \in Leads[ss[n - 3] + 1]
    BY <1>9, <2>2, <2>4, <2>7, <2>8, PartOfThree
  <2> QED
    BY <1>1, <2>7, <2>9 DEF Reduced
<1>10. CASE Default /\ s \in STATEMENT
  <2>1. /\ yyr2[yydefact[s + 1] + 1] \in 1 .. 14
        /\ n - yyr2[yydefact[s + 1] + 1] = 2
        /\ Goto(1, yydefact[s + 1]) \in Leads[2]
    BY <1>1, <1>2, <1>10, Statement
  <2>2. n >= 2
    BY <1>1, <2>1
  <2>3. Under(ss[2 - 1], ss[2]) /\ 2 - 1 = 1
    BY <1>1, <1>3, <2>2
  <2>4. ss[2] = 1
    BY <1>1, <2>3 DEF Under
  <2>5. n - yyr2[r + 1] = 2 /\ Goto(ss[2], r) \in Leads[ss[2] + 1]
    BY <1>10, <2>1, <2>4
  <2> QED
    BY <1>1, <2>2, <2>5 DEF Reduced
<1>11. (r = 4 /\ s \in AwaitFilter) \/ Default
  OBVIOUS
<1>12. Default => yyr2[r + 1] = 0 \/ s \in ONE \/ s = 78 \/ s \in THREE \/ s \in STATEMENT
  BY <1>1, Kinds
<1> QED
  BY <1>4, <1>6, <1>8, <1>9, <1>10, <1>11, <1>12

-----------------------------------------------------------------------------
(* The steps of a call *)

\* A lookahead is a token, or the end of the input.
LookaheadInv(Token) ==
  /\ input \in Seq(Token)
  /\ yychar = <<>> \/ \E t \in Token \cup {EndOfFile} : yychar = <<t>>

\* While a call runs its stack is right.
StackInv == parsing => StackRight(yyss)

\* The scanner returns nothing else.
LEMMA LookaheadIs ==
  ASSUME NEW Token, LookaheadInv(Token)
  PROVE  Lookahead \in Token \cup {EndOfFile} /\ Unread \in Seq(Token)
<1>1. CASE yychar # <<>>
  <2>1. PICK t \in Token \cup {EndOfFile} : yychar = <<t>>
    BY <1>1 DEF LookaheadInv
  <2> QED
    BY <1>1, <2>1 DEF LookaheadInv, Lookahead, Unread
<1>2. CASE yychar = <<>> /\ input = <<>>
  BY <1>2 DEF LookaheadInv, Lookahead, Unread
<1>3. CASE yychar = <<>> /\ input # <<>>
  <2>1. input \in Seq(Token) /\ Len(input) >= 1
    BY <1>3 DEF LookaheadInv
  <2>2. input[1] \in Token /\ Tail(input) \in Seq(Token)
    BY <2>1, <1>3
  <2> QED
    BY <1>3, <2>2 DEF Lookahead, Unread
<1> QED
  BY <1>1, <1>2, <1>3

\* A state that needs no lookahead reduces by a rule.
LEMMA DecidedReduces ==
  ASSUME NEW s \in States, s # YYFINAL, yypact[s + 1] = YYPACT_NINF
  PROVE  yydefact[s + 1] > 0
BY DEF States, YYFINAL, YYPACT_NINF, yypact, yydefact

\* The entries of yytable are numbers.
LEMMA EntryInt ==
  ASSUME NEW p \in States, NEW c \in 0 .. 30
  PROVE  Entry(p, c) \in Int
<1>1. \A k \in 1 .. 123 : yytable[k] \in Int
  BY DEF yytable
<1>2. yypact[p + 1] \in Int
  BY DEF States, yypact
<1> QED
  BY <1>1, <1>2 DEF Entry, YYLAST

\* The top of a right stack is a state.
LEMMA TopIs ==
  ASSUME StackRight(yyss)
  PROVE  Top = yyss[Len(yyss)] /\ Top \in States /\ Len(yyss) \in DOMAIN yyss
BY DEF StackRight, Top, Last

\* However full the stacks are, the states are those that were to be put there.
LEMMA NewState ==
  ASSUME NEW states, NEW cells, yynewstate(states, cells)
  PROVE  yyss' = states
BY DEF yynewstate

\* A rule leaves the stack right.
LEMMA ReduceStep ==
  ASSUME StackRight(yyss), NEW rule, reduce(rule), rule # 3 => Reduced(yyss, rule)
  PROVE  StackInv'
<1>1. CASE rule = 3
  BY <1>1 DEF reduce, return, StackInv
<1>2. CASE rule # 3
  <2> DEFINE h == Len(yyss) - yyr2[rule + 1]
  <2>1. h \in DOMAIN yyss /\ Goto(yyss[h], rule) \in Leads[yyss[h] + 1]
    BY <1>2 DEF Reduced
  <2>2. yyss' = Append(SubSeq(yyss, 1, h), Goto(yyss[h], rule))
    BY <1>2, NewState DEF reduce
  <2>3. StackRight(Append(SubSeq(yyss, 1, h), Goto(yyss[h], rule)))
    BY <2>1, PutRight
  <2> QED
    BY <2>2, <2>3 DEF StackInv
<1> QED
  BY <1>1, <1>2

\* So does a token that is shifted
LEMMA ShiftStep ==
  ASSUME StackRight(yyss), Lookahead.symbol \in 0 .. 30, shift
  PROVE  StackInv'
<1> DEFINE n == Len(yyss)
           t == Entry(Top, Lookahead.symbol)
<1>1. Top = yyss[n] /\ Top \in States /\ n \in DOMAIN yyss
  BY TopIs
<1>2. t \in Leads[yyss[n] + 1]
  <2>1. t > 0
    BY DEF shift
  <2>2. t \in Leads[Top + 1]
    BY <1>1, <2>1, Shifted
  <2> QED
    BY <1>1, <2>2
<1>3. yyss' = Append(yyss, t)
  BY NewState DEF shift
<1>4. SubSeq(yyss, 1, n) = yyss
  BY DEF StackRight
<1>5. StackRight(Append(SubSeq(yyss, 1, n), t))
  BY <1>1, <1>2, PutRight
<1> QED
  BY <1>3, <1>4, <1>5 DEF StackInv

\* and a rule that is taken without a lookahead
LEMMA ReduceAtOnceStep ==
  ASSUME StackRight(yyss), reduce_at_once
  PROVE  StackInv'
<1>1. Top = yyss[Len(yyss)] /\ Top \in States
  BY TopIs
<1>2. Top # YYFINAL /\ yypact[Top + 1] = YYPACT_NINF
  BY DEF reduce_at_once, Decided
<1>3. yydefact[Top + 1] > 0
  BY <1>1, <1>2, DecidedReduces
<1>4. yydefact[Top + 1] # 3 => Reduced(yyss, yydefact[Top + 1])
  BY <1>1, <1>2, <1>3, ReducesRight
<1>5. reduce(yydefact[Top + 1])
  BY DEF reduce_at_once
<1> QED
  BY <1>4, <1>5, ReduceStep

\* or with one.
LEMMA ReduceOnLookaheadStep ==
  ASSUME StackRight(yyss), Lookahead.symbol \in 0 .. 30, reduce_on_lookahead
  PROVE  StackInv'
<1> DEFINE entry == Entry(Top, Lookahead.symbol)
           rule == IF entry = 0 THEN yydefact[Top + 1] ELSE - entry
<1>1. Top = yyss[Len(yyss)] /\ Top \in States /\ Top # YYFINAL
  BY TopIs DEF reduce_on_lookahead
<1>2. rule > 0 /\ reduce(rule)
  BY DEF reduce_on_lookahead
<1>3. rule = yydefact[Top + 1] \/ (rule = 4 /\ Top \in AwaitFilter)
  <2>1. CASE entry = 0
    BY <2>1
  <2>2. CASE entry # 0
    <3>1. entry \in Int
      BY <1>1, EntryInt
    <3>2. rule = - entry /\ - entry > 0
      BY <1>2, <2>2
    <3>3. entry < 0
      BY <3>1, <3>2
    <3>4. entry = -4 /\ Top \in AwaitFilter
      BY <1>1, <3>3, Negative
    <3>5. PICK e \in Int : e = entry
      BY <3>1
    <3>6. rule = - e /\ e = -4
      BY <3>2, <3>4, <3>5
    <3>7. rule = 4
      BY <3>6
    <3> QED
      BY <3>4, <3>7
  <2> QED
    BY <2>1, <2>2
<1>4. rule # 3 => Reduced(yyss, rule)
  BY <1>1, <1>2, <1>3, ReducesRight
<1> QED
  BY <1>2, <1>4, ReduceStep

\* A call begins with the state 0.
LEMMA StartRight == StackRight(<<0>>)
<1>1. <<0>> \in Seq(States) /\ <<0>> # <<>> /\ <<0>>[1] = 0 /\ DOMAIN <<0>> = {1}
  BY DEF States
<1>2. Opens(<<0>>, 1) \in Nat
  BY OpensBound
<1>3. Placed(0, 1, 1 - 5 * Opens(<<0>>, 1))
  BY DEF Placed, OPENED
<1> QED
  BY <1>1, <1>3 DEF StackRight

\* The inductive invariant: the lookahead is a token, and the stack is right.
LEMMA Calls ==
  ASSUME NEW Token, \A t \in Token : t.symbol \in 0 .. 30
  PROVE  ParserSpec(Token) => [](LookaheadInv(Token) /\ StackInv)
<1>1. ParserInit /\ input \in Seq(Token) => LookaheadInv(Token) /\ StackInv
  BY DEF ParserInit, LookaheadInv, StackInv
<1>2. ASSUME LookaheadInv(Token), StackInv, [yyparse \/ ParserNext]_parser
      PROVE  LookaheadInv(Token)' /\ StackInv'
  <2>1. Lookahead \in Token \cup {EndOfFile} /\ Unread \in Seq(Token)
    BY <1>2, LookaheadIs
  <2>2. Lookahead.symbol \in 0 .. 30
    <3>1. EndOfFile.symbol = 0
      BY DEF EndOfFile
    <3> QED
      BY <2>1, <3>1
  <2>3. CASE yyparse
    <3>1. LookaheadInv(Token)'
      BY <1>2, <2>3 DEF yyparse, LookaheadInv
    <3>2. yyss' = <<0>>
      BY <2>3 DEF yyparse
    <3>3. StackRight(<<0>>)
      BY StartRight
    <3> QED
      BY <3>1, <3>2, <3>3 DEF StackInv
  <2>4. CASE shift
    <3>1. input' = Unread /\ yychar' = <<>> /\ parsing
      BY <2>4 DEF shift, discarded
    <3>2. LookaheadInv(Token)'
      BY <2>1, <3>1 DEF LookaheadInv
    <3>3. StackRight(yyss)
      BY <1>2, <3>1 DEF StackInv
    <3> QED
      BY <2>2, <2>4, <3>2, <3>3, ShiftStep
  <2>5. CASE reduce_at_once
    <3>1. input' = input /\ yychar' = yychar /\ parsing
      BY <2>5 DEF reduce_at_once
    <3>2. LookaheadInv(Token)'
      BY <1>2, <3>1 DEF LookaheadInv
    <3>3. StackRight(yyss)
      BY <1>2, <3>1 DEF StackInv
    <3> QED
      BY <2>5, <3>2, <3>3, ReduceAtOnceStep
  <2>6. CASE reduce_on_lookahead
    <3>1. input' = Unread /\ yychar' = <<Lookahead>> /\ parsing
      BY <2>6 DEF reduce_on_lookahead, kept
    <3>2. LookaheadInv(Token)'
      BY <2>1, <3>1 DEF LookaheadInv
    <3>3. StackRight(yyss)
      BY <1>2, <3>1 DEF StackInv
    <3> QED
      BY <2>2, <2>6, <3>2, <3>3, ReduceOnLookaheadStep
  <2>7. CASE yyerrlab
    <3>1. input' = Unread /\ yychar' = <<Lookahead>> /\ parsing' = FALSE
      BY <2>7 DEF yyerrlab, kept, return
    <3> QED
      BY <2>1, <3>1 DEF LookaheadInv, StackInv
  <2>8. CASE yyacceptlab
    <3>1. input' = input /\ yychar' = yychar /\ parsing' = FALSE
      BY <2>8 DEF yyacceptlab, return
    <3> QED
      BY <1>2, <3>1 DEF LookaheadInv, StackInv
  <2>9. CASE UNCHANGED parser
    BY <1>2, <2>9 DEF parser, stacks, LookaheadInv, StackInv
  <2> QED
    BY <1>2, <2>3, <2>4, <2>5, <2>6, <2>7, <2>8, <2>9 DEF ParserNext
<1> QED
  BY <1>1, <1>2, PTL DEF ParserSpec

\* The state in which a "(" has been read, by its token
LEMMA OpenedState == Entry(40, YYSYMBOL["("]) = OPENED
<1>1. "(" \in ToSet(yytname)
  <2>1. yytname[15] = "(" /\ 15 \in DOMAIN yytname
    BY DEF yytname
  <2> QED
    BY <2>1 DEF ToSet
<1>2. \A s \in 0 .. 30 : (yytname[s + 1] = "(") <=> (s = 14)
  <2>1. /\ yytname[1] # "(" /\ yytname[2] # "(" /\ yytname[3] # "(" /\ yytname[4] # "("
        /\ yytname[5] # "(" /\ yytname[6] # "(" /\ yytname[7] # "(" /\ yytname[8] # "("
        /\ yytname[9] # "(" /\ yytname[10] # "(" /\ yytname[11] # "(" /\ yytname[12] # "("
        /\ yytname[13] # "(" /\ yytname[14] # "("
    BY DEF yytname
  <2>2. /\ yytname[16] # "(" /\ yytname[17] # "(" /\ yytname[18] # "(" /\ yytname[19] # "("
        /\ yytname[20] # "(" /\ yytname[21] # "(" /\ yytname[22] # "(" /\ yytname[23] # "("
        /\ yytname[24] # "(" /\ yytname[25] # "(" /\ yytname[26] # "(" /\ yytname[27] # "("
        /\ yytname[28] # "(" /\ yytname[29] # "(" /\ yytname[30] # "(" /\ yytname[31] # "("
    BY DEF yytname
  <2>3. yytname[15] = "("
    BY DEF yytname
  <2> QED
    BY <2>1, <2>2, <2>3
<1>3. YYSYMBOL["("] = CHOOSE s \in 0 .. 30 : yytname[s + 1] = "("
  BY <1>1 DEF YYSYMBOL
<1>4. YYSYMBOL["("] = 14
  BY <1>2, <1>3
<1>5. Entry(40, 14) = OPENED
  BY DEF OPENED, Entry, yypact, yytable, yycheck, YYLAST
<1> QED
  BY <1>4, <1>5

\* Whatever tokens the scanner returns, in one call after the other, the stacks of
\* yyparse hold at most 20 states and 5 more for each open parenthesis, so that,
\* with room for more than 20, neither a list nor a chain of operators can make it
\* run out of them.
THEOREM StackBounded ==
  ASSUME NEW Token, \A t \in Token : t.symbol \in 0 .. 30
  PROVE  ParserSpec(Token) => []DepthInv
<1>1. StackInv => DepthInv
  <2> SUFFICES ASSUME StackInv, parsing PROVE Len(yyss) <= 20 + 5 * Opened
    BY DEF DepthInv
  <2>1. StackRight(yyss)
    BY DEF StackInv
  <2>2. Len(yyss) <= 20 + 5 * Opens(yyss, Len(yyss))
    BY <2>1, DepthRight
  <2>3. DOMAIN yyss = 1 .. Len(yyss)
    BY <2>1 DEF StackRight
  <2>4. Opened = Opens(yyss, Len(yyss))
    BY <2>3, OpenedState DEF Opened, Opens
  <2> QED
    BY <2>2, <2>4
<1>2. ParserSpec(Token) => [](LookaheadInv(Token) /\ StackInv)
  BY Calls
<1> QED
  BY <1>1, <1>2, PTL
=============================================================================
