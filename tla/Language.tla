------------------------------- MODULE Language -------------------------------
(***************************************************************************)
(* The language of queries, as a user types it: what a query says, the tokens *)
(* that spell it, the tree that it should become and the call that it should   *)
(* end in.  It is the reference that Parser and Requests are checked against.  *)
(*                                                                         *)
(* A query is a record with a verb.  An operand is [kind, value], of kind      *)
(* column, type, number, float, bool or string; a text is the sequence of its  *)
(* words.  A filter compares two operands or joins two filters.  An optional   *)
(* part is a sequence of length 0 or 1.                                      *)
(***************************************************************************)
EXTENDS Requests, Parser

-----------------------------------------------------------------------------
(* How a query is spelled *)

Keyword(name)     == <<[symbol |-> YYSYMBOL[name], lval |-> [string |-> ""]]>>
Valued(name, val) == <<[symbol |-> YYSYMBOL[name], lval |-> val]>>
Word(word)        == Valued("STR", [string |-> word])

CodeOfType == [float |-> 0, string |-> 1, int |-> 2, bool |-> 3]

OperandTokens(o) ==
  CASE o.kind = "column" -> Word(o.alias) \o Keyword(".") \o Word(o.value)
    [] o.kind = "type"   -> Valued("TYPE", [number |-> CodeOfType[o.value]])
    [] o.kind = "number" -> Valued("INT", [number |-> o.value])
    [] o.kind = "float"  -> Valued("FLOAT", [float |-> o.value])
    [] o.kind = "bool"   -> Valued("BOOL", [boolean |-> o.value])
    [] o.kind = "string" -> Keyword("QUOTE") \o FlattenSeq([i \in DOMAIN o.value |-> Word(o.value[i])])
                              \o Keyword("QUOTE")

CodeOfLogic == [and |-> 1, or |-> 2]

Enclosed(tokens) == Keyword("(") \o tokens \o Keyword(")")

\* A filter in parentheses where its place needs them: "or" below "and", and what
\* is joined on the right of its like.  "extra" are around every comparison.
RECURSIVE FilterTokens(_, _)
FilterTokens(f, extra) ==
  LET Below_(g, needed) == IF needed THEN Enclosed(FilterTokens(g, extra)) ELSE FilterTokens(g, extra)
      RECURSIVE Wrapped(_, _)
      Wrapped(tokens, n) == IF n = 0 THEN tokens ELSE Enclosed(Wrapped(tokens, n - 1)) IN
  CASE f.kind = "compare" ->
         Wrapped(OperandTokens(f.left) \o Valued("CMP", [number |-> f.op]) \o OperandTokens(f.right), extra)
    [] f.kind = "and" ->
         Below_(f.left, f.left.kind = "or") \o Valued("&&", [number |-> 1])
           \o Below_(f.right, f.right.kind \in {"and", "or"})
    [] f.kind = "or" ->
         FilterTokens(f.left, extra) \o Valued("||", [number |-> 2])
           \o Below_(f.right, f.right.kind = "or")

Optional(seq, Op(_)) == IF seq = <<>> THEN <<>> ELSE Op(seq[1])

PairTokens(pairs) ==
  LET Pair_(i) == (IF i = 1 THEN <<>> ELSE Keyword(",")) \o Word(pairs[i].name) \o Keyword(":")
                    \o OperandTokens(pairs[i].value) IN
  Keyword("{") \o FlattenSeq([i \in DOMAIN pairs |-> Pair_(i)]) \o Keyword("}")

For(alias, name) == Keyword("FOR") \o Word(alias) \o Keyword("IN") \o Word(name)

Tokens(q, extra) ==
  LET Filtered(f) == Keyword("FILTER") \o FilterTokens(f, extra)
      Second(name) == For("y", name)
      Comma(name) == Keyword(",") \o Word("y")
      In(name) == Keyword("IN") \o Word(name) IN
  (CASE q.verb = "select" -> For("x", q.name) \o Optional(q.join, Second) \o Optional(q.filter, Filtered)
                              \o Keyword("RETURN") \o Word("x") \o Optional(q.join, Comma)
     [] q.verb = "delete" -> For("x", q.name) \o Optional(q.filter, Filtered)
                              \o Keyword("REMOVE") \o Word("x") \o In(q.name)
     [] q.verb = "update" -> For("x", q.name) \o Optional(q.filter, Filtered)
                              \o Keyword("UPDATE") \o Word("x") \o Keyword("WITH") \o PairTokens(q.pairs)
                              \o In(q.name)
     [] q.verb = "insert" -> Keyword("INSERT") \o PairTokens(q.pairs) \o In(q.name)
     [] q.verb = "create" -> Keyword("CREATE") \o Word(q.name) \o PairTokens(q.pairs)
     [] q.verb = "drop"   -> Keyword("DROP") \o Word(q.name))
  \o Keyword(";")

-----------------------------------------------------------------------------
(* What a tree says *)

Turned == <<3, 4, 1, 2, 5, 6>>

TypeOfCode == [code \in 0 .. 3 |-> CHOOSE t \in DOMAIN CodeOfType : CodeOfType[t] = code]

\* A text loses what a block held
OperandOf(n) ==
  CASE n.type = "NAME_NODE"         -> [kind |-> "column", alias |-> n.alias, value |-> n.name]
    [] n.type = "TYPE_NODE"         -> [kind |-> "type", value |-> TypeOfCode[n.data_type]]
    [] n.type = "NUMBER_NODE"       -> [kind |-> "number", value |-> n.number]
    [] n.type = "FLOAT_NUMBER_NODE" -> [kind |-> "float", value |-> n.float_number]
    [] n.type = "BOOLEAN_NODE"      -> [kind |-> "bool", value |-> n.boolean]
    [] n.type = "STRING_NODE"       -> [kind |-> "string",
                                        value |-> SelectSeq(n.string, LAMBDA w : w # "block")]
    [] OTHER                        -> [kind |-> "none"]

RECURSIVE FilterOf(_)
FilterOf(n) ==
  CASE n.type = "COMPARE_NODE" ->
         LET left == OperandOf(n.first) IN
         [kind |-> "compare", left |-> left, right |-> OperandOf(n.second),
          op |-> IF left.kind = "column" THEN n.cmp_op ELSE Turned[n.cmp_op]]
    [] n.type = "FILTER_NODE" ->
         [kind |-> IF n.logic_op = 1 THEN "and" ELSE "or",
          left |-> FilterOf(n.first), right |-> FilterOf(n.second)]
    [] OTHER -> [kind |-> "none"]

FiltersOf(n) == IF n = NULL THEN <<>> ELSE <<FilterOf(n)>>

PairsOf(n) ==
  IF n.type # "LIST_NODE" \/ n.end # NULL THEN <<>>
  ELSE LET Pair_(m) == IF m.type = "PAIR_NODE" THEN [name |-> m.name, value |-> OperandOf(m.second)]
                       ELSE [name |-> "none"] IN
       Reverse([i \in DOMAIN n.items |-> Pair_(n.items[i])])

Said(verb, name, filter, join, pairs) ==
  [verb |-> verb, name |-> name, filter |-> filter, join |-> join, pairs |-> pairs]

Nothing == Said("none", "none", <<>>, <<>>, <<>>)

QueryOf(n) ==
  CASE n.type = "FOR_NODE"    -> Said("select", n.name, FiltersOf(n.first),
                                      IF n.join = "NULL" THEN <<>> ELSE <<n.join>>, <<>>)
    [] n.type = "REMOVE_NODE" -> Said("delete", n.name, FiltersOf(n.first), <<>>, <<>>)
    [] n.type = "UPDATE_NODE" -> Said("update", n.name, FiltersOf(n.first), <<>>, PairsOf(n.second))
    [] n.type = "INSERT_NODE" -> Said("insert", n.name, <<>>, <<>>, PairsOf(n.first))
    [] n.type = "CREATE_NODE" -> Said("create", n.name, <<>>, <<>>, PairsOf(n.first))
    [] n.type = "DROP_NODE"   -> Said("drop", n.name, <<>>, <<>>, <<>>)
    [] OTHER                  -> Nothing

-----------------------------------------------------------------------------
(* What should come of a query, given the tree that was made of it.          *)

Compares(q) == q.filter # <<>> /\ q.filter[1].kind = "compare"
ColumnFirst(q) == Compares(q) /\ q.filter[1].left.kind = "column"
Same(o, xml) == o.kind = xml.type /\ o.value = xml.value

RECURSIVE Mentions(_, _)
Mentions(f, kind) ==
  \/ f.kind = kind
  \/ f.kind \in {"and", "or"} /\ (Mentions(f.left, kind) \/ Mentions(f.right, kind))

\* Whether writing the tree is undefined although nothing of it is missing
Unwritten(q, root) ==
  \/ q.filter # <<>> /\ Mentions(q.filter[1], "or")
  \/ \E o \in {q.pairs[i].value : i \in DOMAIN q.pairs} \cup
              (IF Compares(q) THEN {q.filter[1].left, q.filter[1].right} ELSE {}) :
       o.kind = "string" /\ ~ Writable(root)

\* What a select or a delete of "column CMP value" does depends on nothing but
\* the column and the value, which arrive as they were typed (a float with six
\* decimals), whatever the operator is.  A delete by a string and a filter that
\* begins with its value never compare with what was typed.
FilterInv(q, root) ==
  (q.verb \in {"select", "delete"} /\ q.join = <<>> /\ Compares(q) /\ ~ Unwritten(q, root)) =>
    LET f == q.filter[1]
        done == Done(root)
        kept_ == {"number", "bool", "float"} \cup (IF q.verb = "select" THEN {"string"} ELSE {}) IN
    IF ColumnFirst(q) /\ f.right.kind \in kept_
    THEN /\ done.relation = q.name /\ done.column = f.left.value
         /\ done.value.type = f.right.kind
         /\ IF f.right.kind = "float" THEN done.value.value - f.right.value \in -4 .. 5
                                      ELSE done.value.value = f.right.value
    ELSE done.value.type = "std::string"

\* A join is of the two relations that were typed, on the column typed on the
\* left in the first and the column typed on the right in the second, whatever
\* aliases the columns were typed with.
JoinInv(q, root) ==
  (q.verb = "select" /\ q.join # <<>> /\ ColumnFirst(q) /\ q.filter[1].right.kind = "column") =>
    Done(root) = [call |-> "JOIN", left |-> q.name, right |-> q.join[1],
                  left_column |-> q.filter[1].left.value, right_column |-> q.filter[1].right.value]

\* A relation is created with the columns that were typed, in their order and
\* with their types, although lists are turned round twice on the way.
ColumnsInv(q, root) ==
  (q.verb = "create" /\ Len(q.pairs) <= MaxPairs
     /\ \A i \in DOMAIN q.pairs : q.pairs[i].value.kind = "type") =>
    LET type == [int |-> "INTEGER", float |-> "DOUBLE", string |-> "VARCHAR", bool |-> "BOOLEAN"] IN
    Done(root) = [call |-> "CREATE", relation |-> q.name,
                  columns |-> [i \in DOMAIN q.pairs |-> [name |-> q.pairs[i].name,
                                                         type |-> type[q.pairs[i].value.value]]]]

\* Of the values typed for one column an insert keeps the first: it is the last
\* that is added.
AttributesInv(q, root) ==
  (q.verb = "insert" /\ Done(root).call = "INSERT") =>
    LET added == Done(root).attributes
        Of(pairs, name) == {i \in DOMAIN pairs : pairs[i].name = name} IN
    \A i \in DOMAIN q.pairs :
      LET first == CHOOSE j \in Of(q.pairs, q.pairs[i].name) :
                     \A k \in Of(q.pairs, q.pairs[i].name) : j <= k
          last  == CHOOSE j \in Of(added, q.pairs[i].name) :
                     \A k \in Of(added, q.pairs[i].name) : k <= j IN
      Same(q.pairs[first].value, added[last].value)

\* The kinds that have a type of the library where the verb asks for one
Typed == [insert |-> {"number", "bool", "string"}, update |-> {"number", "bool", "string"},
          create |-> {"type"}]

\* Of an update only the pair that was typed last is read
Untyped(q) ==
  LET read == IF q.verb = "update" THEN {Len(q.pairs)} ELSE DOMAIN q.pairs IN
  \E i \in read : q.pairs[i].value.kind \notin Typed[q.verb]

\* Which queries of the language are refused, which end the connection, with
\* which the client may come to an end, and with which the server may: a float is
\* a type that a relation can have and a value that none can be given.
SupportInv(q, root) ==
  LET call == Done(root).call IN
  /\ call = "throw" <=> q.verb = "select" /\ q.filter = <<>>
  /\ call = "client" <=> Unwritten(q, root)
  /\ call = "unsupported" <=>
       /\ ~ Unwritten(q, root)
       /\ \/ q.verb = "drop" \/ Len(q.pairs) > MaxPairs
          \/ q.filter # <<>> /\ q.filter[1].kind = "and"
          \/ q.verb \in {"delete", "update"} /\ q.filter = <<>>
  /\ call = "undefined" <=>
       call \notin {"client", "unsupported"} /\ q.verb \in DOMAIN Typed /\ Untyped(q)

\* "The server supports ... updates of data": an update that it carries out sets
\* a column to the value that was typed for it.
UpdateInv(q, root) ==
  (q.verb = "update" /\ ColumnFirst(q) /\ Done(root).call = "UPDATE") =>
    \E i \in DOMAIN q.pairs : /\ q.pairs[i].name = Done(root).set
                             /\ Same(q.pairs[i].value, Done(root).to)
=============================================================================
