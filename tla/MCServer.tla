------------------------------ MODULE MCServer ------------------------------
EXTENDS Server

Pair(value) == new_list(new_pair("a", value), NULL)
Filter5 == new_compare(5, new_name("x", "a"), new_number(5))
For(filter) == new_select("t", filter, "NULL", NULL, new_name("unset", "x"))

\* One that creates, one that needs what it created, one whose answer has rows,
\* one that the server refuses, one that ends the connection
Create  == new_create("t", Pair(new_type(2)))
Insert  == new_insert("t", Pair(new_number(5)))
Refused == new_drop("t")
Select  == For(Filter5)
Thrown  == For(NULL)

CONSTANTS c1, c2

\* One client creates the relation that the other needs
Clients == {c1, c2}
Queries == [c \in Clients |-> IF c = c1 THEN {Insert, Select, Refused, Thrown}
                                       ELSE {Create}]
Asked == [c \in Clients |-> IF c = c1 THEN 2 ELSE 1]
=============================================================================
