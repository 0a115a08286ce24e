---------------------------- MODULE RelationStore ----------------------------
(***************************************************************************)
(* What the storage library promises to whoever calls it, one operation at  *)
(* a time: every relation is a collection of rows, an insert adds one row,  *)
(* an update or a delete touches the rows that match its filter and nothing *)
(* else, a select returns the rows that match.  Opening and closing the     *)
(* file or a relation never changes what the relations hold.               *)
(* Pages, headers and handles are the business of PageStore.                *)
(***************************************************************************)
EXTENDS Tables

CONSTANT Id    \* identities of rows: two rows may hold equal data

VARIABLES
  table,   \* [names of the relations -> [schema, rows: [Id -> data]]]
  reply    \* the last request, what was answered and the rows that it met

storeVars == <<table, reply>>

NoRows == {}
Reply(request, answer, rows) == [request |-> request, answer |-> answer, rows |-> rows]

-----------------------------------------------------------------------------

\* The rows of a relation that match, and what a query returns of them
Hits(rows, c, value) == {id \in DOMAIN rows : Matches(rows[id], c, value)}

RowsOf(rows, ids) == {<<id, rows[id]>> : id \in ids}

SetRows(r, rows) == table' = [table EXCEPT ![r].rows = rows]

-----------------------------------------------------------------------------

Init == table = EmptyMap /\ reply = Reply(<<>>, "none", NoRows)

\* A new file: nothing of the old one is left
Reset == reply' = Reply(<<"create_file">>, "opened", NoRows) /\ table' = EmptyMap

\* Opening or closing the file, closing a relation
Session ==
  /\ \/ \E answer \in {"opened", "no_file"} : reply' = Reply(<<"open">>, answer, NoRows)
     \/ reply' = Reply(<<"close">>, "closed", NoRows)
     \/ \E r \in Rel : reply' = Reply(<<"close", r>>, "closed", NoRows)
  /\ UNCHANGED table

Create(r, schema) ==
  /\ r \notin DOMAIN table
  /\ reply' = Reply(<<"create", r, schema>>, "created", NoRows)
  /\ table' = Put(table, r, [schema |-> schema, rows |-> EmptyMap])

CreateAgain(r, schema) ==
  /\ r \in DOMAIN table
  /\ reply' = Reply(<<"create", r, schema>>, "exists", NoRows)
  /\ UNCHANGED table

Get(r) ==
  /\ reply' = Reply(<<"get", r>>, IF r \in DOMAIN table THEN "got" ELSE "missing", NoRows)
  /\ UNCHANGED table

Insert(r, rows, data) ==
  /\ reply' = Reply(<<"insert", r, data>>, "inserted", NoRows)
  /\ \E id \in Id \ DOMAIN rows : SetRows(r, Put(rows, id, data))

Select(r, rows, c, value) ==
  /\ reply' = Reply(<<"select", r, c, value>>, "selected", RowsOf(rows, Hits(rows, c, value)))
  /\ UNCHANGED table

Update(r, rows, c, value, set, new) ==
  LET hits == Hits(rows, c, value) IN
  /\ reply' = Reply(<<"update", r, c, value, set, new>>, "updated", RowsOf(rows, hits))
  /\ SetRows(r, [id \in DOMAIN rows |-> IF id \in hits THEN [rows[id] EXCEPT ![set] = new]
                                                       ELSE rows[id]])

Delete(r, rows, c, value) ==
  LET hits == Hits(rows, c, value) IN
  /\ reply' = Reply(<<"delete", r, c, value>>, "deleted", RowsOf(rows, hits))
  /\ SetRows(r, [id \in DOMAIN rows \ hits |-> rows[id]])

\* A query that names a column the relation does not have, or an update that
\* sets the column it filters on
NoAttribute(r, columns, c, set) ==
  /\ {c, set} \cap columns # {c, set} \/ c = set
  /\ reply' = Reply(<<"query", r, c, set>>, "no_attribute", NoRows)
  /\ UNCHANGED table

Next ==
  \/ Reset \/ Session
  \/ \E r \in Rel : \/ Get(r)
                    \/ \E schema \in Schemas : Create(r, schema) \/ CreateAgain(r, schema)
  \/ \E r \in DOMAIN table : LET t == table[r] IN
       \/ \E data \in Data(t.schema) : Insert(r, t.rows, data)
       \/ \E c, set \in Column : NoAttribute(r, t.schema.columns, c, set)
       \/ \E c \in t.schema.columns : \E value \in Domain[c] :
            \/ Select(r, t.rows, c, value)
            \/ Delete(r, t.rows, c, value)
            \/ \E set \in t.schema.columns \ {c} : \E new \in Domain[set] :
                 Update(r, t.rows, c, value, set, new)

Spec == Init /\ [][Next]_storeVars
=============================================================================
