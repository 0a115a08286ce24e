---------------------------- MODULE MCRequests ----------------------------
(***************************************************************************)
(* The loop of the client's main: a user types a few queries, whole or         *)
(* damaged, and each call of yyparse makes a tree of the next.                *)
(***************************************************************************)
EXTENDS Language

VARIABLES
  typed,  \* what the user types: [query, tokens] of each query
  calls   \* how many times yyparse was called

vars == <<typed, calls, parser>>

-----------------------------------------------------------------------------
(* The queries *)

Column(alias, name) == [kind |-> "column", alias |-> alias, value |-> name]
Value(kind, value)  == [kind |-> kind, value |-> value]

a == Column("x", "a")
b == Column("y", "b")
Five == Value("number", 5)

Values ==
  {Five, Value("float", 12), Value("float", 16), Value("bool", 0),
   Value("string", <<"a">>), Value("string", <<"a", "b">>), Value("type", "int")}

Compare(left, op, right) == [kind |-> "compare", left |-> left, op |-> op, right |-> right]
Logic(kind, left, right) == [kind |-> kind, left |-> left, right |-> right]

f1 == Compare(a, 5, Five)
f2 == Compare(Five, 2, b)
f3 == Compare(b, 6, a)

Comparisons ==
  {f1, f2, f3} \cup {Compare(a, 5, v) : v \in Values} \cup {Compare(v, 5, a) : v \in Values}
    \cup {Compare(c, 5, d) : c \in {a, b}, d \in {a, b}}
    \cup UNION {{Compare(a, op, Five), Compare(Five, op, a), Compare(a, op, b)} : op \in 1 .. 6}

Connected ==
  LET Joined(left, right) == {Logic(kind, f, g) : kind \in {"and", "or"}, f \in left, g \in right}
      Two == Joined({f1}, {f2}) IN
  Two \cup Joined(Two, {f3}) \cup Joined({f3}, Two) \cup Joined(Two, Two)

\* A chain of n operators that joins from the left
Chain(kind, n) ==
  LET chain[i \in 0 .. n] == IF i = 0 THEN f1 ELSE Logic(kind, chain[i - 1], f3) IN chain[n]

Lists(n, names, values) == [1 .. n -> [name : names, value : values]]

AllLists ==
  Lists(1, {"a"}, Values \cup {Value("type", t) : t \in {"float", "string", "bool"}})
    \cup Lists(2, {"a", "b"}, {Five, Value("type", "int"), Value("type", "bool"),
                               Value("string", <<"a", "b">>)})
    \cup Lists(3, {"a", "b"}, {Five, Value("type", "float")})
    \cup Lists(9, {"a"}, {Five})

Short == <<[name |-> "a", value |-> Five]>>
Longer == <<[name |-> "a", value |-> Value("bool", 1)], [name |-> "b", value |-> Value("string", <<"a">>)]>>

Queries ==
  {Said("select", "t", <<f>>, join, <<>>) :
     f \in Comparisons \cup Connected \cup {Chain(kind, 7) : kind \in {"and", "or"}}, join \in {<<>>, <<"u">>}}
    \cup {Said("select", "t", <<f>>, <<"t">>, <<>>) : f \in Comparisons}
    \cup {Said("delete", "t", <<f>>, <<>>, <<>>) : f \in Comparisons \cup Connected}
    \cup {Said("update", "t", <<f>>, <<>>, Short) : f \in Comparisons \cup Connected}
    \cup {Said("update", "t", <<f>>, <<>>, l) : f \in {f1, f3}, l \in AllLists}
    \cup {Said(verb, "t", <<>>, <<>>, l) : verb \in {"update", "insert", "create"}, l \in AllLists}

\* One of each rule
Samples ==
  {Said("select", "t", <<>>, <<>>, <<>>), Said("select", "t", <<>>, <<"u">>, <<>>),
   Said("select", "t", <<f1>>, <<>>, <<>>), Said("select", "t", <<f3>>, <<"u">>, <<>>),
   Said("select", "t", <<Logic("or", f2, Logic("and", f1, f3))>>, <<>>, <<>>),
   Said("delete", "t", <<>>, <<>>, <<>>), Said("delete", "t", <<f1>>, <<>>, <<>>),
   Said("update", "t", <<>>, <<>>, Short), Said("update", "t", <<f2>>, <<>>, Short),
   Said("insert", "t", <<>>, <<>>, Longer), Said("create", "t", <<>>, <<>>, Short),
   Said("drop", "t", <<>>, <<>>, <<>>)}

-----------------------------------------------------------------------------
(* What is typed *)

Whole(q, extra) == [query |-> q, tokens |-> Tokens(q, extra)]

Without(s, i) == SubSeq(s, 1, i - 1) \o SubSeq(s, i + 1, Len(s))
With(s, i, token) == SubSeq(s, 1, i) \o token \o SubSeq(s, i + 1, Len(s))

\* A query with one token left out, or one too many, or another in its place
LeftOut(q) == LET s == Tokens(q, 0) IN
  {[query |-> Nothing, tokens |-> Without(s, i)] : i \in 1 .. Len(s) - 1}

Extra == {Keyword(name) : name \in {"(", ")", ";", ",", "UNEXPECTED_TOKEN", "FILTER"}}
           \cup {Word("c"), Valued("&&", [number |-> 1]), Valued("INT", [number |-> 7])}

Damaged(q) == LET s == Tokens(q, 0) IN
  LeftOut(q)
    \cup {[query |-> Nothing, tokens |-> With(s, i, t)] : i \in 0 .. Len(s) - 1, t \in Extra}
    \cup {[query |-> Nothing, tokens |-> With(Without(s, i), i - 1, t)] : i \in 1 .. Len(s) - 1, t \in Extra}

Streams ==
  {<<Whole(q, 0)>> : q \in Queries \cup Samples}
    \cup {<<Whole(q, extra)>> : q \in Samples, extra \in {1, 2, 4, 8, 16}}
    \cup {<<Whole(q, 0), Whole(r, 0)>> : q \in Samples, r \in Samples}
    \cup UNION {{<<d>> : d \in Damaged(q)} : q \in Samples}
    \cup UNION {{<<Whole(q, 0), d>> : d \in LeftOut(r) \cup {[query |-> Nothing, tokens |-> Keyword(";")]}} :
                   q \in Samples, r \in Samples}

-----------------------------------------------------------------------------

Init ==
  /\ typed \in Streams /\ calls = 0
  /\ input = FlattenSeq([i \in DOMAIN typed |-> typed[i].tokens])
  /\ ParserInit

\* ast_to_xml of a null pointer, or of the number of an error, ends the client
call ==
  /\ this_root.type \notin {"NULL", "pointer"}
  /\ calls' = calls + 1
  /\ yyparse
  /\ UNCHANGED typed

parse == ParserNext /\ UNCHANGED <<typed, calls>>

Next == call \/ parse
Spec == Init /\ [][Next]_vars

-----------------------------------------------------------------------------

Returned == ~ parsing /\ calls \in DOMAIN typed
Accepted == Returned /\ this_root.type \notin {"NULL", "pointer"}

\* What the call that has returned was given
Given == typed[calls]
Intact == Returned /\ \A i \in 1 .. calls : typed[i].query # Nothing
Made == Intact /\ this_root # Pointer(2)

Spelled(root) == Tokens(QueryOf(root), 0)

TextFrom(i) == FlattenSeq([n \in 1 .. Len(typed) - i + 1 |-> typed[i + n - 1].tokens])

Parentheses == {YYSYMBOL["("], YYSYMBOL[")"]}
Bare(tokens) == SelectSeq(tokens, LAMBDA t : t.symbol \notin Parentheses)
Shape(tokens) == [i \in DOMAIN Bare(tokens) |-> Bare(tokens)[i].symbol]
Number(tokens, name) == Len(SelectSeq(tokens, LAMBDA t : t.symbol = YYSYMBOL[name]))

\* Each call of yyparse consumes the next query up to its semicolon, holds no
\* token back, and returns the tree of that query: each operand in its place,
\* "and" before "or", equal operators from the left, pairs in their order, however
\* often the stacks had to grow and whatever was typed before.  No value is
\* taken from a cell that the call has not written.  Only parentheses can exhaust
\* the stacks.
TreeAsTyped ==
  Intact =>
    \/ this_root = Pointer(2) /\ Given.tokens # Bare(Given.tokens)
    \/ /\ Accepted /\ Spelled(this_root) = Tokens(Given.query, 0)
       /\ guessed = {}
       /\ yychar = <<>> /\ input = TextFrom(calls + 1)

\* A text that yyparse accepts although a token of it is missing, too many or
\* another one is nevertheless a query, the one that is carried out, with its
\* parentheses in pairs: unless a rule without symbols has made up for a part.
Faithful ==
  (Accepted /\ guessed = {}) =>
    LET text == TextFrom(calls)
        consumed == SubSeq(text, 1, Len(text) - Len(yychar) - Len(input)) IN
    /\ Shape(Spelled(this_root)) = Shape(consumed)
    /\ Number(consumed, "(") = Number(consumed, ")")

\* The properties of Language, of every query that was typed whole, in the order
\* of the calls that are made of them.
FilterAsTyped     == Made => FilterInv(Given.query, this_root)
JoinAsTyped       == Made => JoinInv(Given.query, this_root)
ColumnsAsTyped    == Made => ColumnsInv(Given.query, this_root)
AttributesAsTyped == Made => AttributesInv(Given.query, this_root)
Supported         == Made => SupportInv(Given.query, this_root)
UpdateAsTyped     == Made => UpdateInv(Given.query, this_root)
=============================================================================
