------------------------------- MODULE Tables -------------------------------
(***************************************************************************)
(* Relations as the user of the library sees them: their names, the columns *)
(* a schema gives them, the data of a row and what it means that a row      *)
(* matches a filter.                                                        *)
(***************************************************************************)
EXTENDS Integers, FiniteSets

CONSTANTS
  Rel,              \* relation names
  Column,           \* column names
  Domain,           \* [Column -> the values of that column's type]
  Schemas,          \* [columns: SUBSET Column, length: bytes of a row's data]
  Compare(_, _, _)  \* Compare(c, stored, value): the compare of c's type

ASSUME TablesAssumption ==
  /\ IsFiniteSet(Column)
  /\ DOMAIN Domain = Column
  /\ Schemas \subseteq [columns : SUBSET Column, length : Nat]

\* The data a row of a relation with this schema can hold
Data(schema) == {d \in [schema.columns -> UNION {Domain[c] : c \in schema.columns}] :
                   \A c \in schema.columns : d[c] \in Domain[c]}

Matches(data, c, value) == Compare(c, data[c], value)

-----------------------------------------------------------------------------
(* Finite functions that grow: f with x bound to v *)

Put(f, x, v) == [y \in DOMAIN f \cup {x} |-> IF y = x THEN v ELSE f[y]]

EmptyMap == [x \in {} |-> 0]
=============================================================================
