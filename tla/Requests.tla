------------------------------ MODULE Requests ------------------------------
(***************************************************************************)
(* From the tree of a query to the call of the library: the client writes the *)
(* tree as XML (string_utils_xml.cpp); the server checks the XML against       *)
(* scheme.xsd and takes it apart again (receiver.h).  All of it is functions   *)
(* of the tree, whose nodes Ast has.                                         *)
(*                                                                         *)
(* The value of a float counts units of 10^-7.                               *)
(***************************************************************************)
EXTENDS Ast, SequencesExt

CONSTANTS
  MaxPairs,    \* the pairs that scheme.xsd allows in a list
  MaxNesting   \* bound: the nodes on a way from the root of a tree

ASSUME BoundsAssumption == MaxPairs \in Nat \ {0} /\ MaxNesting \in Nat

-----------------------------------------------------------------------------
(* The tree as XML *)

cmp_op_repr_ == <<"GREATER", "GREATER_OR_EQUAL", "LESS", "LESS_OR_EQUAL",
                  "NO_COMPARE", "EQUAL", "NOT_EQUAL", "NO_COMPARE">>

logic_repr_ == <<"&&", "||">>

type_repr_ == <<"FLOAT_NUMBER", "STRING", "NUMBER", "BOOLEAN">>

SixDecimals_cut(units) == (units \div 10) * 10

\* std::to_string of a float has six decimals
SixDecimals(units) == ((units + 5) \div 10) * 10

\* Where a value is due: its type and text.  Any other node writes elements
\* there, which are not well-formed behind type=.
XmlOperand(n) ==
  CASE n.type = "NAME_NODE"         -> [type |-> "column_name", value |-> n.name]
    [] n.type = "STRING_NODE"       -> [type |-> "string", value |-> n.string]
    [] n.type = "NUMBER_NODE"       -> [type |-> "number", value |-> n.number]
    [] n.type = "FLOAT_NUMBER_NODE" -> [type |-> "float", value |-> SixDecimals(n.float_number)]
    [] n.type = "BOOLEAN_NODE"      -> [type |-> "bool", value |-> n.boolean]
    [] n.type = "TYPE_NODE"         -> [type |-> "type", value |-> type_repr_[n.data_type + 1]]
    [] OTHER                        -> [type |-> "elements"]

XmlCmpNode(n) ==
  [parts |-> {"left_operand", "compare_by", "right_operand"},
   left_operand |-> XmlOperand(n.first), right_operand |-> XmlOperand(n.second),
   compare_by |-> cmp_op_repr_[n.cmp_op + 1]]

\* "&&" has the code 1 and "||" the code 2, where logic_repr_ begins with 0
XmlFilterNode(n) ==
  [parts |-> {"left_filter", "operation", "right_filter"},
   operation |-> logic_repr_[n.logic_op + 1]]

\* What is between <cmp> and </cmp>: a select without a filter says so
\* otherwise than an update or a delete without one.
XmlCmp(n) ==
  CASE n.first.type = "NULL"         -> [child |-> IF n.type = "FOR_NODE" THEN "nullable" ELSE "text"]
    [] n.first.type = "COMPARE_NODE" -> [child |-> "filter", filter |-> XmlCmpNode(n.first)]
    [] n.first.type = "FILTER_NODE"  -> [child |-> "filter", filter |-> XmlFilterNode(n.first)]
    [] OTHER                         -> [child |-> "other"]

\* The pairs of a list
XmlListNode(n) ==
  IF n.type # "LIST_NODE" THEN <<>>
  ELSE [i \in DOMAIN n.items |->
          LET item == n.items[i] IN
          IF item.type = "PAIR_NODE" THEN [name |-> item.name, value |-> XmlOperand(item.second)]
                                     ELSE [name |-> "none", value |-> [type |-> "elements"]]]

ast_to_xml(n) ==
  CASE n.type = "FOR_NODE"    -> [command |-> "select", name |-> n.name, cmp |-> XmlCmp(n),
                                  join |-> IF n.join = "NULL" THEN <<>> ELSE <<n.join>>]
    [] n.type = "REMOVE_NODE" -> [command |-> "delete", name |-> n.name, cmp |-> XmlCmp(n)]
    [] n.type = "UPDATE_NODE" -> [command |-> "update", name |-> n.name, cmp |-> XmlCmp(n),
                                  list |-> XmlListNode(n.second)]
    [] n.type = "INSERT_NODE" -> [command |-> "insert", name |-> n.name, list |-> XmlListNode(n.first)]
    [] n.type = "CREATE_NODE" -> [command |-> "create", name |-> n.name, list |-> XmlListNode(n.first)]
    [] n.type = "DROP_NODE"   -> [command |-> "drop", name |-> n.name]
    [] OTHER                  -> [command |-> "none"]

\* The nodes that XmlToString is called with for a node
Below(n) ==
  CASE n.type \in {"FOR_NODE", "REMOVE_NODE"}  -> {n.first} \ {NULL}
    [] n.type = "UPDATE_NODE"                  -> ({n.first} \ {NULL}) \cup {n.second}
    [] n.type \in {"INSERT_NODE", "CREATE_NODE"} -> {n.first}
    [] n.type \in {"FILTER_NODE", "COMPARE_NODE"} -> {n.first, n.second}
    [] n.type = "PAIR_NODE"                    -> {n.second}
    [] n.type = "LIST_NODE"                    -> ToSet(n.items) \cup ({n.end} \ {NULL})
    [] OTHER                                   -> {}

\* A null pointer, a pointer to anything, a chain of lists that does not end in
\* NULL, a text behind what a block held, an entry of logic_repr_ behind its last:
\* what happens is undefined.
Astray(n) ==
  \/ n.type \in {"NULL", "pointer", "garbage"}
  \/ n.type = "STRING_NODE" /\ "block" \in ToSet(n.string)
  \/ n.type = "LIST_NODE" /\ n.end # NULL
  \/ n.type = "FILTER_NODE" /\ n.logic_op + 1 \notin DOMAIN logic_repr_

Writable(root) ==
  LET reached[d \in 0 .. MaxNesting] ==
        IF d = 0 THEN {root} ELSE UNION {Below(n) : n \in reached[d - 1]} IN
  \A d \in 0 .. MaxNesting : \A n \in reached[d] : ~ Astray(n)

-----------------------------------------------------------------------------
(* What scheme.xsd accepts *)

compare_t(filter) ==
  /\ filter.parts = {"left_operand", "compare_by", "right_operand"}
  /\ filter.left_operand.type # "elements" /\ filter.right_operand.type # "elements"

cmp_t_any(cmp) == cmp.child = "filter" => compare_t(cmp.filter)

cmp_t(cmp) == \/ cmp.child = "nullable"
              \/ cmp.child = "filter" /\ compare_t(cmp.filter)

list_t(list) ==
  /\ Len(list) \in 1 .. MaxPairs
  /\ \A i \in DOMAIN list : list[i].value.type # "elements"

Valid(r) ==
  /\ r.command \in {"select", "update", "insert", "create", "delete"}
  /\ r.command \in {"select", "update", "delete"} => cmp_t(r.cmp)
  /\ r.command \in {"update", "insert", "create"} => list_t(r.list)

-----------------------------------------------------------------------------
(* The handlers.  A call is a record with the function that is called.       *)

Throws     == [call |-> "throw"]       \* the exception that ends the connection
Unsupported == [call |-> "unsupported"]
Undefined  == [call |-> "undefined"]   \* the code leaves undefined what happens
NotSent    == [call |-> "client"]      \* so does the code of the client

repr_to_content_type(repr) ==
  CASE repr \in {"BOOLEAN", "bool"}              -> "BOOLEAN"
    [] repr \in {"FLOAT_NUMBER", "float_number"} -> "DOUBLE"
    [] repr \in {"STRING", "string"}             -> "VARCHAR"
    [] repr \in {"NUMBER", "number"}             -> "INTEGER"
    [] OTHER                                     -> "undefined"

\* ptree::get<std::string>: digits, or a text of several words, name no column
AsText(o) == CASE o.type \in {"number", "float", "bool"} -> "digits"
               [] o.type = "string" -> IF Len(o.value) = 1 THEN o.value[1] ELSE "words"
               [] OTHER -> o.value

\* The value that a filter points to.  A pointer to the std::string itself
\* stands where the operand has none of the types that are asked for.
Operand(o, types) ==
  IF o.type \in types THEN [type |-> o.type, value |-> o.value] ELSE [type |-> "std::string"]

Filter(r) == r.cmp.filter

join_make_crossed(r) ==
  [call |-> "JOIN", left |-> r.name, right |-> r.join[1],
   left_column |-> AsText(Filter(r).right_operand),
   right_column |-> AsText(Filter(r).left_operand)]

join_make(r) ==
  [call |-> "JOIN", left |-> r.name, right |-> r.join[1],
   left_column |-> AsText(Filter(r).left_operand),
   right_column |-> AsText(Filter(r).right_operand)]

select_op(r) ==
  CASE r.cmp.child # "filter" -> Throws
    [] r.cmp.child = "filter" /\ r.join # <<>> -> join_make(r)
    [] OTHER ->
         [call |-> "SELECT", relation |-> r.name, column |-> AsText(Filter(r).left_operand),
          value |-> Operand(Filter(r).right_operand, {"number", "string", "bool", "float"})]

delete_op(r) ==
  IF r.cmp.child # "filter" THEN Throws
  ELSE [call |-> "DELETE", relation |-> r.name, column |-> AsText(Filter(r).left_operand),
        value |-> Operand(Filter(r).right_operand, {"number", "bool", "float"})]

\* The call is made in the first round of the loop over the pairs, after an
\* entry for each of the two children of the pair: the first of them, made
\* before the value is read, becomes the new value of the row.
update_op(r) ==
  IF r.cmp.child # "filter" THEN Throws
  ELSE LET pair == r.list[1]
           values == IF repr_to_content_type(pair.value.type) = "undefined" THEN <<>>
                     ELSE Reverse(<<[name |-> pair.name, value |-> [type |-> "undefined"]],
                                    [name |-> pair.name, value |-> pair.value]>>) IN
       IF values = <<>> THEN Undefined
       ELSE [call |-> "UPDATE", relation |-> r.name, column |-> AsText(Filter(r).left_operand),
             value |-> Operand(Filter(r).right_operand, {"number", "bool", "float"}),
             set |-> values[1].name, to |-> values[2].value]

\* attribute_add of each pair, then row_insert
insert_op(r) ==
  IF \E i \in DOMAIN r.list : repr_to_content_type(r.list[i].value.type) = "undefined"
  THEN Undefined
  ELSE [call |-> "INSERT", relation |-> r.name,
        attributes |-> [i \in DOMAIN r.list |->
                          [name |-> r.list[i].name, value |-> r.list[i].value,
                           type |-> repr_to_content_type(r.list[i].value.type)]]]

\* The type is the text of the child that is not a column_name
Columns(list) ==
  [i \in DOMAIN list |->
     [name |-> list[i].name,
      type |-> IF list[i].value.type = "column_name" THEN "undefined"
               ELSE repr_to_content_type(AsText(list[i].value))]]

create_op_reversed(r) == [call |-> "CREATE", relation |-> r.name, columns |-> Columns(r.list)]

create_op(r) ==
  LET columns == Reverse(Columns(r.list)) IN
  IF \E i \in DOMAIN columns : columns[i].type = "undefined" THEN Undefined
  ELSE [call |-> "CREATE", relation |-> r.name, columns |-> columns]

request_op(r) == CASE r.command = "create" -> create_op(r)
                   [] r.command = "select" -> select_op(r)
                   [] r.command = "insert" -> insert_op(r)
                   [] r.command = "update" -> update_op(r)
                   [] r.command = "delete" -> delete_op(r)

Handled(r) == IF Valid(r) THEN request_op(r) ELSE Unsupported

\* What comes of a tree: the call that the server makes
Done(root) == IF Writable(root) THEN Handled(ast_to_xml(root)) ELSE NotSent
=============================================================================
