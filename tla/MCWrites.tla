------------------------------ MODULE MCWrites ------------------------------
EXTENDS Writes, TypeOps, TLC

MCColumn == {"a", "b"}
MCDomain == [a |-> {1}, b |-> {2, 3}]

\* On a page of 10 bytes 2 rows of 3 bytes behind 4 bytes of header and columns
MCSchemas == {[columns |-> {"a", "b"}, length |-> 2]}

RelSymmetry == Permutations(Rel)

MCCompare(c, stored, value) == integer_compare(stored, value)


\* The last answer decides nothing
View == <<opened, mem, file, handle, indexed, io>>
=============================================================================
