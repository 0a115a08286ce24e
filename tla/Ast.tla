---------------------------------- MODULE Ast ----------------------------------
(***************************************************************************)
(* The nodes of the tree that the client's parser builds of a query (ast.c).  *)
(* A node is a record with its type and the members that its constructor      *)
(* sets; a member of the union of fields is named as in the union.  A text is *)
(* the sequence of its words.                                                *)
(***************************************************************************)
EXTENDS Integers, Sequences

NULL == [type |-> "NULL"]

\* A pointer to nothing that the parser has made
Garbage == [type |-> "garbage"]

switch_cmp_mode_kept(op) == op

\* ">", ">=", "<", "<=", "==", "!=" have the codes 1 to 6
switch_cmp_mode(op) == CASE op \in {1, 2} -> op + 2
                         [] op \in {3, 4} -> op - 2
                         [] op \in {5, 6} -> op

new_name(v_first, v_second) == [type |-> "NAME_NODE", alias |-> v_first, name |-> v_second]

\* strcat into a block that malloc returned: what is in it comes first
safe_string_concatenation(block, text, text2) == block \o text \o text2

\* What new_string finds behind the first member of a node
Texts(n) == CASE n.type = "STRING_NODE" -> {n.string}
              [] n.type \in {"PAIR_NODE", "FOR_NODE", "REMOVE_NODE", "INSERT_NODE", "UPDATE_NODE",
                              "CREATE_NODE", "DROP_NODE"} -> {<<n.name>>}
              [] n.type = "NAME_NODE" /\ n.alias # "unset" -> {<<n.alias>>}
              [] n.type = "NULL" -> {<<>>}
              [] OTHER -> {}

\* The words of first and one more.  There are two concatenations if there is a
\* first one, each into a block of its own: what was in it precedes the text.
new_string(first, v_second, block) ==
  IF Texts(first) = {} THEN Garbage
  ELSE LET text == CHOOSE words \in Texts(first) : TRUE IN
       [type |-> "STRING_NODE",
        string |-> IF v_second = <<>> THEN text
                   ELSE safe_string_concatenation(block, text, v_second)]

new_number(v_first)       == [type |-> "NUMBER_NODE", number |-> v_first]
new_float_number(v_first) == [type |-> "FLOAT_NUMBER_NODE", float_number |-> v_first]
new_bool(v_first)         == [type |-> "BOOLEAN_NODE", boolean |-> v_first]
new_type(v_first)         == [type |-> "TYPE_NODE", data_type |-> v_first]

new_list_behind(first, second) ==
  IF second.type = "LIST_NODE"
  THEN [second EXCEPT !.items = Append(@, first)]
  ELSE [type |-> "LIST_NODE", items |-> <<first>>, end |-> second]

\* The chain of list nodes is the sequence of their first members; end is what
\* the last of them has as its second.
new_list(first, second) ==
  IF second.type = "LIST_NODE"
  THEN [second EXCEPT !.items = <<first>> \o @]
  ELSE [type |-> "LIST_NODE", items |-> <<first>>, end |-> second]

new_pair(v_first, second) == [type |-> "PAIR_NODE", name |-> v_first, second |-> second]

new_select(v_first, first, v_second, second, third) ==
  [type |-> "FOR_NODE", name |-> v_first, join |-> v_second,
   first |-> first, second |-> second, third |-> third]

new_delete(v_first, first, second) ==
  [type |-> "REMOVE_NODE", name |-> v_first, first |-> first, third |-> second]

new_insert(v_first, first) == [type |-> "INSERT_NODE", name |-> v_first, first |-> first]

new_update(v_first, first, second) ==
  [type |-> "UPDATE_NODE", name |-> v_first, first |-> first, second |-> second]

new_create(v_first, first) == [type |-> "CREATE_NODE", name |-> v_first, first |-> first]

new_drop(v_first) == [type |-> "DROP_NODE", name |-> v_first]

new_where(v_first, first, second) ==
  [type |-> "FILTER_NODE", logic_op |-> v_first, first |-> first, second |-> second]

new_compare(v_first, first, second) ==
  [type |-> "COMPARE_NODE", cmp_op |-> v_first, first |-> first, second |-> second]
=============================================================================
