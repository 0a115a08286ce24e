------------------------------ MODULE RowData ------------------------------
(***************************************************************************)
(* The columns of a schema and the bytes of a row.  schema.c builds a list   *)
(* of columns; relation.c finds the offset of a column by adding up the      *)
(* sizes of those before it, and writes a value at that offset.  A row is    *)
(* written by attribute_add before it is inserted and by update_query later. *)
(*                                                                         *)
(* The caller has two duties that no code checks: the type it names is that  *)
(* of the column, and a text is shorter than its column, so that a 0 ends    *)
(* it.  The handlers of the server pass texts to columns of 40 bytes.        *)
(***************************************************************************)
EXTENDS Integers, Sequences, SequencesExt

CONSTANTS
  Name,                                  \* names of columns
  Char,                                  \* the bytes of a text
  IntegerSize, BooleanSize, DoubleSize,  \* the sizes of int32_t, bool, double
  VarcharSizes,                          \* the sizes that a VARCHAR is declared with
  MaxColumns                             \* bound: the columns of a schema

ASSUME RowDataAssumption ==
  /\ 0 \notin Char
  /\ {IntegerSize, BooleanSize, DoubleSize} \subseteq Nat \ {0}
  /\ VarcharSizes \subseteq Nat

VARIABLES
  schema,   \* struct schema: the list of columns, their count and length
  data,     \* the bytes of the row, <<>> before there is one
  given     \* what each column of the row was last given

vars == <<schema, data, given>>

Unset == -1    \* a byte that malloc returned and nobody wrote

Size == [INTEGER |-> IntegerSize, BOOLEAN |-> BooleanSize, DOUBLE |-> DoubleSize]

-----------------------------------------------------------------------------
(* The list of columns *)

Found(name) == {i \in 1 .. schema.count : schema.list[i].name = name}
First(name) == CHOOSE i \in Found(name) : \A j \in Found(name) : i <= j

\* The size of the column with that name, 0 when there is none
column_presence_count(name) == IF Found(name) = {} THEN 0 ELSE schema.list[First(name)].size

\* Before(list)[i] is the sum of the sizes of the columns before column i
Before(list) ==
  LET sum[i \in 1 .. Len(list) + 1] == IF i = 1 THEN 0 ELSE sum[i - 1] + list[i - 1].size
  IN  sum

column_get_offset_behind(name) == IF Found(name) = {} THEN -1
                                  ELSE Before(schema.list)[First(name) + 1]

\* The bytes before the first column with that name, -1 when there is none
column_get_offset(name) == IF Found(name) = {} THEN -1 ELSE Before(schema.list)[First(name)]

column_add(name, type, size) ==
  schema' = [list |-> Append(schema.list, [name |-> name, content_type |-> type, size |-> size]),
             count |-> schema.count + 1,
             length |-> schema.length + size]

\* "Can't add two attributes with the same name"
SchemaGrows(name, type, size) ==
  /\ data = <<>> /\ schema.count < MaxColumns
  /\ IF column_presence_count(name) = 0
     THEN column_add(name, type, size)
     ELSE UNCHANGED schema
  /\ UNCHANGED <<data, given>>

schema_add_column(name, type) == SchemaGrows(name, type, Size[type])

schema_add_column_varchar(name, size) == SchemaGrows(name, "VARCHAR", size)

-----------------------------------------------------------------------------
(* The bytes of a row *)

Zeros(n) == [i \in 1 .. n |-> 0]

\* The bytes are written at the offset
Written(old, offset, bytes) ==
  [i \in DOMAIN old |-> IF i \in offset + 1 .. offset + Len(bytes) THEN bytes[i - offset]
                                                                 ELSE old[i]]

\* strncpy of "" fills the column with 0, strncpy of the text leaves out its end
varchar_add_unfilled(offset, length, text) == Written(data, offset, text)
varchar_add(offset, length, text) ==
  Written(Written(data, offset, Zeros(length)), offset, text)

\* strcpy
varchar_update(offset, text) == Written(data, offset, Append(text, 0))

Values(column) ==
  IF column.content_type = "VARCHAR" THEN BoundedSeq(Char, column.size - 1)
                                     ELSE [1 .. column.size -> Char \cup {0}]

row_create ==
  /\ data = <<>> /\ schema.length > 0
  /\ data' = [i \in 1 .. schema.length |-> Unset]
  /\ UNCHANGED <<schema, given>>

Give(name, value) ==
  given' = [n \in DOMAIN given \cup {name} |-> IF n = name THEN value ELSE given[n]]

\* integer_add, boolean_add, double_add, varchar_add
attribute_add(name, value) ==
  LET column == schema.list[First(name)]
      offset == column_get_offset(name) IN
  /\ offset # -1
  /\ data' = IF column.content_type = "VARCHAR"
             THEN varchar_add(offset, column.size, value)
             ELSE Written(data, offset, value)
  /\ Give(name, value)
  /\ UNCHANGED schema

\* "Attribute does not exist"
attribute_unknown(name) ==
  /\ column_get_offset(name) = -1
  /\ UNCHANGED vars

\* integer_update, boolean_update, double_update, varchar_update
update_query(name, value) ==
  LET column == schema.list[First(name)]
      offset == column_get_offset(name) IN
  /\ data' = IF column.content_type = "VARCHAR"
             THEN varchar_update(offset, value)
             ELSE Written(data, offset, value)
  /\ Give(name, value)
  /\ UNCHANGED schema

-----------------------------------------------------------------------------

Init == /\ schema = [list |-> <<>>, count |-> 0, length |-> 0]
        /\ data = <<>> /\ given = [n \in {} |-> <<>>]

Next ==
  \/ \E name \in Name :
       \/ \E type \in DOMAIN Size : schema_add_column(name, type)
       \/ \E size \in VarcharSizes : schema_add_column_varchar(name, size)
       \/ data # <<>> /\ attribute_unknown(name)
       \/ /\ data # <<>> /\ Found(name) # {}
          /\ \E value \in Values(schema.list[First(name)]) :
               attribute_add(name, value) \/ update_query(name, value)
  \/ row_create

Spec == Init /\ [][Next]_vars

-----------------------------------------------------------------------------

\* varchar_compare, varchar_output: the text up to the first 0
TextAt(offset) ==
  LET ends == {i \in DOMAIN data : i > offset /\ data[i] = 0}
      end == IF ends = {} THEN Len(data) + 1 ELSE CHOOSE e \in ends : \A f \in ends : e <= f IN
  SubSeq(data, offset + 1, end - 1)

Stored(name) ==
  LET column == schema.list[First(name)]
      offset == column_get_offset(name) IN
  IF column.content_type = "VARCHAR" THEN TextAt(offset)
                                     ELSE SubSeq(data, offset + 1, offset + column.size)

\* The bytes of the row that a column takes, counted from 1
Bytes(name) ==
  column_get_offset(name) + 1 .. column_get_offset(name) + schema.list[First(name)].size

\* count and length are those of the list, and the columns that can be found by
\* their names share no byte of the row and lie within it.
SchemaInv ==
  LET names == {schema.list[i].name : i \in 1 .. schema.count} IN
  /\ schema.count = Len(schema.list)
  /\ data # <<>> => Len(data) = schema.length
  /\ \A n \in names : Bytes(n) \subseteq 1 .. schema.length
  /\ \A m, n \in names : m # n => Bytes(m) \cap Bytes(n) = {}

\* Every column reads back what it was last given, by attribute_add or by an
\* update, whatever its neighbours were given before and after.
ReadsBack == \A name \in DOMAIN given : Stored(name) = given[name]
=============================================================================
