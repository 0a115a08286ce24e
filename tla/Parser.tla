-------------------------------- MODULE Parser --------------------------------
(***************************************************************************)
(* yyparse: the automaton that Bison made of parser.y, with its tables, its   *)
(* stacks and the value that a rule without symbols takes from above the top. *)
(* The client calls it once for each query.                                  *)
(*                                                                         *)
(* A token has its symbol, the index of its name in yytname, and the value     *)
(* that the scanner left in yylval.  A cell of the value stack holds such a   *)
(* value or a node.  A state n has its entry of a table at n + 1.             *)
(***************************************************************************)
EXTENDS Ast, SequencesExt

CONSTANTS
  YYINITDEPTH,   \* the states that the stacks of a call have room for
  YYMAXDEPTH     \* the most that they are given

ASSUME DepthAssumption ==
  /\ YYINITDEPTH \in Nat \ {0, 1} /\ YYMAXDEPTH \in Nat
  /\ YYINITDEPTH <= YYMAXDEPTH

VARIABLES
  parsing,       \* whether yyparse runs
  input,         \* the tokens that the scanner has not returned
  yychar,        \* the lookahead: a sequence of at most one token
  yyss,          \* the states, from the bottom to the top
  yyvs,          \* the cells above the bottom that hold what this call has put there
  yyvsa,         \* what earlier calls have left in the array of the values
  yystacksize,   \* the states that the stacks have room for
  guessed,       \* the rules without symbols that this call has used (history)
  this_root      \* what yyparse has returned

stacks == <<yyss, yyvs, yyvsa, yystacksize>>
parser == <<parsing, input, yychar, stacks, guessed, this_root>>

-----------------------------------------------------------------------------
(* The tables *)

yytname ==
  <<"end of file", "error", "invalid token", "FOR", "REMOVE", "IN", "FILTER", "WITH",
    "RETURN", "INSERT", "UPDATE", "CREATE", "DROP", "UNEXPECTED_TOKEN", "(", ")", "{", "}",
    ";", ":", ",", ".", "&&", "||", "TYPE", "QUOTE", "CMP", "BOOL", "INT", "FLOAT", "STR">>

YYSYMBOL == [name \in ToSet(yytname) |-> CHOOSE s \in 0 .. 30 : yytname[s + 1] = name]

YYFINAL == 2
YYLAST == 122
YYNTOKENS == 31
YYPACT_NINF == -66

\* Of each state: where its part of yytable begins
yypact ==
  <<-66, 25, -66, -23, 17, -10, 11, 29, -66, -66, -66, -66, -66, -66, -66, -66,
    -66, -66, -66, -66, -66, -66, -66, 44, 15, 37, -66, -66, 28, 43, 12, -66,
    15, 40, 36, 67, 15, 49, -23, 45, -11, 46, 47, -66, 48, -66, -66, -66, -66,
    51, -66, -66, 68, 74, -11, 59, 56, 1, -66, 57, -66, 77, -66, 5, -66, 55, 58,
    16, 60, 61, 62, 63, 64, -11, -11, 27, 70, -66, -66, 0, -66, -66, -66, -66,
    82, -66, 88, -66, 75, -66, -66, 15, -11, 66, 69, 73, 50, 4, 78, -66, 15, 95,
    71, 72, 54, 76, 83, -66, 99, -66, 79, 80, -66, -66>>

\* Of each state: the rule that it reduces by otherwise, 0 for an error
yydefact ==
  <<2, 10, 1, 66, 0, 0, 0, 0, 11, 18, 19, 20, 21, 15, 31, 32, 13, 38, 39, 12,
    16, 14, 67, 0, 50, 0, 49, 3, 0, 0, 0, 52, 50, 0, 4, 0, 53, 0, 66, 0, 55, 0,
    0, 5, 68, 8, 6, 7, 54, 0, 51, 47, 0, 0, 55, 0, 0, 0, 59, 0, 23, 0, 70, 0,
    45, 0, 0, 0, 0, 64, 0, 0, 0, 55, 55, 4, 0, 9, 69, 0, 41, 58, 65, 62, 0, 25,
    0, 56, 57, 61, 63, 50, 55, 0, 0, 0, 0, 0, 0, 43, 50, 0, 0, 0, 0, 0, 0, 27,
    0, 34, 0, 0, 29, 36>>

\* Of each nonterminal: where its part of yytable begins
yypgoto ==
  <<-66, -66, -33, -66, -66, -66, -66, -66, -66, -66, -66, -66, -66, -66, -66,
    -66, -66, -66, -32, 81, -52, -66, -65, 84, -66>>

\* Of each nonterminal: the state that it leads to otherwise
yydefgoto ==
  <<0, 1, 56, 7, 8, 9, 10, 11, 12, 13, 14, 15, 16, 17, 18, 19, 20, 21, 30, 31,
    57, 58, 59, 23, 63>>

\* The state to go to, or less the rule to reduce by
yytable ==
  <<37, 48, 67, 54, 83, 70, 92, 22, 93, 71, 90, 72, 102, 43, 44, -4, 45, 46, 47,
    55, 25, 87, 88, 73, 74, 2, 73, 74, 3, 35, 77, 81, 36, 24, 4, 78, 5, 6, 73,
    74, 97, 26, 89, 38, 39, 29, 40, 27, 41, 28, 42, 43, 44, 32, 45, 46, 47, 55,
    33, 96, 43, 44, 34, 45, 46, 47, 51, 101, 104, 36, 36, 108, 49, 65, 36, 53,
    60, 61, 62, 66, 68, 64, 69, 75, 76, 79, 91, 94, 80, 100, 82, 55, 84, 85, 86,
    95, 98, 73, 103, 99, 105, 106, 107, 110, 111, 0, 109, 0, 0, 112, 113, 0, 0,
    0, 0, 0, 0, 50, 0, 0, 0, 0, 52>>

\* The symbol, or the state, that an entry of yytable is for
yycheck ==
  <<32, 34, 54, 14, 69, 4, 6, 30, 8, 8, 75, 10, 8, 24, 25, 26, 27, 28, 29, 30,
    30, 73, 74, 22, 23, 0, 22, 23, 3, 17, 25, 15, 20, 16, 9, 30, 11, 12, 22, 23,
    92, 30, 75, 3, 4, 30, 6, 18, 8, 5, 10, 24, 25, 16, 27, 28, 29, 30, 30, 91,
    24, 25, 19, 27, 28, 29, 17, 17, 100, 20, 20, 17, 5, 5, 20, 30, 30, 30, 30,
    5, 21, 30, 26, 26, 7, 30, 16, 5, 30, 16, 30, 30, 30, 30, 30, 7, 30, 22, 20,
    30, 5, 30, 30, 20, 5, -1, 30, -1, -1, 30, 30, -1, -1, -1, -1, -1, -1, 36,
    -1, -1, -1, -1, 38>>

\* Of each rule: the symbol on its left
yyr1 ==
  <<0, 31, 32, 32, 33, 33, 33, 33, 33, 33, 34, 34, 34, 34, 34, 34, 34, 35, 35,
    35, 35, 35, 36, 36, 37, 37, 38, 38, 39, 39, 40, 40, 40, 41, 41, 42, 42, 43,
    43, 43, 44, 44, 45, 45, 46, 46, 47, 47, 48, 48, 49, 49, 49, 50, 50, 51, 51,
    51, 51, 51, 52, 52, 52, 52, 53, 53, 54, 54, 55, 55, 55>>

\* Of each rule: the number of symbols on its right
yyr2 ==
  <<0, 2, 0, 3, 0, 1, 1, 1, 1, 3, 0, 1, 1, 1, 1, 1, 1, 0, 1, 1, 1, 1, 0, 6, 0,
    8, 0, 12, 0, 14, 0, 1, 1, 0, 12, 0, 14, 0, 1, 1, 0, 8, 0, 10, 0, 6, 0, 5, 0,
    2, 0, 3, 1, 0, 3, 0, 3, 3, 3, 1, 0, 3, 3, 3, 0, 3, 0, 1, 0, 2, 1>>

-----------------------------------------------------------------------------
(* The actions of the rules.  d is what the symbols on the right of a rule    *)
(* have in their cells.                                                      *)

terminal(rule, d) ==
  CASE rule = 5 -> new_type(d[1].number)
    [] rule = 6 -> new_number(d[1].number)
    [] rule = 7 -> new_float_number(d[1].float)
    [] rule = 8 -> new_bool(d[1].boolean)
    [] rule = 9 -> new_string(d[2], <<>>, <<>>)

query(rule, d) ==
  CASE rule = 23 -> new_select(d[4].string, NULL, "NULL", NULL, d[2])
    [] rule = 25 -> new_select(d[4].string, d[6], "NULL", NULL, d[2])
    [] rule = 27 -> new_select(d[4].string, NULL, d[8].string, d[6], d[2])
    [] rule = 29 -> new_select(d[4].string, d[10], d[8].string, d[6], d[2])
    [] rule = 34 -> new_update(d[4].string, NULL, d[9])
    [] rule = 36 -> new_update(d[4].string, d[6], d[11])
    [] rule = 41 -> new_delete(d[4].string, NULL, d[2])
    [] rule = 43 -> new_delete(d[4].string, d[6], d[2])
    [] rule = 45 -> new_insert(d[6].string, d[3])
    [] rule = 47 -> new_create(d[2].string, d[4])
    [] rule = 49 -> new_drop(d[2].string)

part(rule, d, block) ==
  CASE rule = 51 -> new_list(d[3], d[1])
    [] rule = 52 -> new_list(d[1], NULL)
    [] rule = 54 -> new_pair(d[1].string, d[3])
    [] rule \in {56, 57} -> new_where(d[2].number, d[1], d[3])
    [] rule = 58 -> d[2]
    [] rule \in {61, 63} -> new_compare(d[2].number, d[1], d[3])
    [] rule = 62 -> new_compare(switch_cmp_mode(d[2].number), d[1], d[3])
    [] rule = 65 -> new_name(d[1].string, d[3].string)
    [] rule = 67 -> new_name("unset", d[1].string)
    [] rule = 69 -> new_string(d[1], <<d[2].string>>, block)
    [] rule = 70 -> new_string(NULL, <<d[1].string>>, block)

\* Without an action a rule has the value of its first symbol
yyval(rule, d, block) ==
  CASE rule \in {5, 6, 7, 8, 9} -> terminal(rule, d)
    [] rule \in {23, 25, 27, 29, 34, 36, 41, 43, 45, 47, 49} -> query(rule, d)
    [] rule \in {51, 52, 54, 56, 57, 58, 61, 62, 63, 65, 67, 69, 70} -> part(rule, d, block)
    [] OTHER -> d[1]

-----------------------------------------------------------------------------
(* A call *)

Pointer(n) == [type |-> "pointer", value |-> n]

return(value) == parsing' = FALSE /\ this_root' = value

\* Both stacks are new, except for what lies in the array of the values
Over(cells, below) == cells \o SubSeq(below, Len(cells) + 1, Len(below))

yyparse ==
  /\ ~ parsing /\ parsing' = TRUE
  /\ yychar' = <<>> /\ yyss' = <<0>> /\ yyvs' = <<>> /\ yystacksize' = YYINITDEPTH
  /\ yyvsa' = IF yystacksize = YYINITDEPTH THEN Over(yyvs, yyvsa) ELSE yyvsa
  /\ guessed' = {}
  /\ UNCHANGED <<input, this_root>>

Top == Last(yyss)

\* yynewstate: a state is pushed after its value.  Full stacks are copied to
\* larger ones, up to their tops.
yynewstate(states, cells) ==
  /\ yyss' = states
  /\ \/ /\ Len(states) < yystacksize
        /\ yyvs' = cells
        /\ UNCHANGED <<yystacksize, yyvsa, parsing, this_root>>
     \/ /\ Len(states) >= yystacksize /\ yystacksize < YYMAXDEPTH
        /\ yystacksize' = IF 2 * yystacksize <= YYMAXDEPTH THEN 2 * yystacksize ELSE YYMAXDEPTH
        /\ yyvs' = SubSeq(cells, 1, Len(states) - 1)
        /\ yyvsa' = IF yystacksize = YYINITDEPTH THEN Over(cells, yyvsa) ELSE yyvsa
        /\ UNCHANGED <<parsing, this_root>>
     \/ /\ Len(states) >= yystacksize /\ yystacksize >= YYMAXDEPTH
        /\ yyvs' = cells
        /\ return(Pointer(2))
        /\ UNCHANGED <<yystacksize, yyvsa>>

\* Whether the state decides without a lookahead
Decided == yypact[Top + 1] = YYPACT_NINF

EndOfFile == [symbol |-> 0, lval |-> [string |-> ""]]
Lookahead == IF yychar # <<>> THEN yychar[1] ELSE IF input = <<>> THEN EndOfFile ELSE input[1]
Unread == IF yychar # <<>> \/ input = <<>> THEN input ELSE Tail(input)

\* Of two "||" the second is shifted, as if they had no %left
Entry_right(state, symbol) ==
  LET yyn == yypact[state + 1] + symbol IN
  IF yyn \in 0 .. YYLAST /\ yycheck[yyn + 1] = symbol THEN yytable[yyn + 1]
  ELSE IF state = 88 /\ symbol = YYSYMBOL["||"] THEN 74 ELSE 0

\* What yytable has for a state and a symbol, 0 if nothing
Entry(state, symbol) ==
  LET yyn == yypact[state + 1] + symbol IN
  IF yyn \in 0 .. YYLAST /\ yycheck[yyn + 1] = symbol THEN yytable[yyn + 1] ELSE 0

Goto(state, rule) ==
  LET nonterminal == yyr1[rule + 1] - YYNTOKENS + 1
      yyi == yypgoto[nonterminal] + state IN
  IF yyi \in 0 .. YYLAST /\ yycheck[yyi + 1] = state THEN yytable[yyi + 1]
  ELSE yydefgoto[nonterminal]

\* A cell is put on the first n, over what is left of what was there
Push(cells, n, cell) == SubSeq(cells, 1, n) \o <<cell>> \o SubSeq(cells, n + 2, Len(cells))

discarded(token) == <<>>
kept(token) == <<token>>

shift ==
  /\ parsing /\ Top # YYFINAL /\ ~ Decided
  /\ Entry(Top, Lookahead.symbol) > 0
  /\ yychar' = discarded(Lookahead)
  /\ input' = Unread
  /\ yynewstate(Append(yyss, Entry(Top, Lookahead.symbol)),
                Push(yyvs, Len(yyss) - 1, Lookahead.lval))
  /\ UNCHANGED guessed

\* What yyvsp[1] may hold, read as a pointer: what this call has put there, or,
\* above that, what an earlier one has left there, or anything.
Above ==
  LET n == Len(yyss)
      Node(cell) == IF "type" \in DOMAIN cell THEN cell ELSE Garbage IN
  IF n <= Len(yyvs) THEN {Node(yyvs[n])}
  ELSE {Garbage} \cup (IF yystacksize = YYINITDEPTH /\ n <= Len(yyvsa) THEN {Node(yyvsa[n])} ELSE {})

\* What a block that malloc returns may hold before it is written
Blocks == {<<>>, <<"block">>}

reduce(rule) ==
  LET yylen == yyr2[rule + 1]
      height == Len(yyss) - yylen
      d == SubSeq(yyvs, height, height + yylen - 1) IN
  IF rule = 3 THEN /\ return(d[2])
                   /\ UNCHANGED <<stacks, guessed>>
  ELSE \E first \in IF yylen = 0 THEN Above ELSE {d[1]} :
       \E block \in IF rule \in {69, 70} THEN Blocks ELSE {<<>>} :
         /\ yynewstate(Append(SubSeq(yyss, 1, height), Goto(yyss[height], rule)),
                       Push(yyvs, height - 1,
                            IF yylen = 0 THEN first ELSE yyval(rule, d, block)))
         /\ guessed' = IF yylen = 0 /\ rule # 2 THEN guessed \cup {rule} ELSE guessed

reduce_at_once ==
  /\ parsing /\ Top # YYFINAL /\ Decided
  /\ reduce(yydefact[Top + 1])
  /\ UNCHANGED <<input, yychar>>

reduce_on_lookahead ==
  /\ parsing /\ Top # YYFINAL /\ ~ Decided
  /\ yychar' = kept(Lookahead) /\ input' = Unread
  /\ LET entry == Entry(Top, Lookahead.symbol)
         rule == IF entry = 0 THEN yydefact[Top + 1] ELSE - entry IN
     rule > 0 /\ reduce(rule)

\* No state shifts the token error: every state is popped
yyerrlab ==
  /\ parsing /\ Top # YYFINAL /\ ~ Decided
  /\ Entry(Top, Lookahead.symbol) = 0 /\ yydefact[Top + 1] = 0
  /\ \A i \in DOMAIN yyss : Entry(yyss[i], YYSYMBOL["error"]) = 0
  /\ yychar' = kept(Lookahead) /\ input' = Unread
  /\ return(Pointer(1))
  /\ UNCHANGED <<stacks, guessed>>

yyacceptlab ==
  /\ parsing /\ Top = YYFINAL
  /\ return(NULL)
  /\ UNCHANGED <<input, yychar, stacks, guessed>>

ParserInit ==
  /\ parsing = FALSE /\ yychar = <<>> /\ yyss = <<>> /\ yyvs = <<>> /\ yyvsa = <<>>
  /\ yystacksize = YYINITDEPTH /\ guessed = {} /\ this_root = [type |-> "none"]

\* The steps of a call
ParserNext ==
  \/ shift \/ reduce_at_once \/ reduce_on_lookahead \/ yyerrlab \/ yyacceptlab

\* A client that calls yyparse again and again, with any tokens
ParserSpec(Token) ==
  ParserInit /\ input \in Seq(Token) /\ [][yyparse \/ ParserNext]_parser

-----------------------------------------------------------------------------

\* Of the states on the stack those that follow a "("
Opened == Cardinality({i \in DOMAIN yyss : yyss[i] = Entry(40, YYSYMBOL["("])})

\* Lists and chains of operators of any length do not deepen the stacks: only an
\* open parenthesis does, by itself and the operators before the next one.
DepthInv == parsing => Len(yyss) <= 20 + 5 * Opened
=============================================================================
