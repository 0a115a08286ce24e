------------------------------ MODULE TypeOps ------------------------------
(***************************************************************************)
(* The comparisons of type_ops.c.  An INTEGER is stored in 4 bytes and a     *)
(* DOUBLE in 8, the low byte first.  A comparison that casts after it has   *)
(* dereferenced the char pointer row_ptr + offset reads the first byte only; *)
(* a char is signed on the platforms the program is built for.             *)
(***************************************************************************)
EXTENDS Integers

\* *(row_ptr + offset) of a stored integer
FirstChar(x) == LET byte == x % 256 IN IF byte < 128 THEN byte ELSE byte - 256

integer_compare_whole(stored, value) == stored = value

\* (int32_t) *(row_ptr + offset) == *((int *) value)
integer_compare(stored, value) == FirstChar(stored) = value

\* (int32_t) *(left_row + offset) == (int32_t) *(right_row + offset)
integer_query_join_compare(left, right) == FirstChar(left) = FirstChar(right)

\* (double) *(left_row + offset) == (double) *(right_row + offset), where a DOUBLE
\* is the number that its 8 bytes are as an integer
double_query_join_compare(left, right) == FirstChar(left) = FirstChar(right)

-----------------------------------------------------------------------------

\* A select, update or delete on an INTEGER meets the rows that agree with its
\* value modulo 256, when that value fits in a char, and no row otherwise.
CompareLowByte(stored, value) ==
  integer_compare(stored, value) <=>
    value \in -128 .. 127 /\ (stored - value) % 256 = 0

\* A join and a filter agree: two rows are joined exactly when some value would
\* have selected both of them.
JoinLikeFilter(left, right) ==
  integer_query_join_compare(left, right) <=>
    \E value \in -128 .. 255 : integer_compare(left, value) /\ integer_compare(right, value)

\* Two DOUBLEs whose lowest byte is zero are joined whatever the other seven are:
\* among them every whole number below 2^45.
WholeNumbersJoined(left, right) ==
  left % 256 = 0 /\ right % 256 = 0 => double_query_join_compare(left, right)
=============================================================================
