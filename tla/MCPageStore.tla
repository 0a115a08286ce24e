---------------------------- MODULE MCPageStore ----------------------------
EXTENDS PageStore, TypeOps, TLC

MCColumn == {"a", "b"}

\* One value per column: for the runs about the shape of the file
ShapeDomain == [a |-> {1}, b |-> {0}]

\* Column b tells rows apart, but not to a filter: integer_compare takes the
\* stored 300 for a 44 and meets no row with 300
QueryDomain == [a |-> {1}, b |-> {44, 300}]

\* On a page of 10 bytes, with 1 byte for the page header, the size of the
\* columns, a column and a row header, Pair leaves room for 2 rows of 3 bytes
\* behind 4 bytes of header and columns, and Single for 1 row of 5 behind 3.
Pair == [columns |-> {"a", "b"}, length |-> 2]
Single == [columns |-> {"b"}, length |-> 4]
BothSchemas == {Pair, Single}
OnlyPair == {Pair}

\* No operation tells one relation name from another
RelSymmetry == Permutations(Rel)

\* Both columns are of type INTEGER
MCCompare(c, stored, value) == integer_compare(stored, value)
=============================================================================
