------------------------------ MODULE Catalog ------------------------------
(***************************************************************************)
(* Where relation_create puts a relation header, and where                  *)
(* is_relation_present looks for one.  The headers begin on page 1; when it *)
(* is full page_header_write_real adds a second catalog page, links it      *)
(* behind page 1, and writes the header at that page's write_ptr, which it   *)
(* takes for an offset in the file.                                         *)
(*                                                                         *)
(* PageStore keeps the catalog within page 1; this module has no such       *)
(* limit, and leaves the rows out.  Offsets in the file count from 0.       *)
(***************************************************************************)
EXTENDS Integers, Sequences, FiniteSets

CONSTANTS
  Name,              \* relation names
  PageSize, DbHeaderSize, PageHeaderSize, RelHeaderSize,   \* as in Layout
  MaxRelations       \* bound: the relations created

ASSUME CatalogAssumption ==
  /\ PageSize \in Nat /\ DbHeaderSize \in Nat /\ PageHeaderSize \in Nat /\ RelHeaderSize \in Nat
  /\ PageHeaderSize < DbHeaderSize /\ DbHeaderSize < RelHeaderSize
  /\ PageHeaderSize + RelHeaderSize <= PageSize
  /\ DbHeaderSize + PageHeaderSize + RelHeaderSize <= PageSize

VARIABLES
  db,        \* the database header: relation_count, page_count, last_page_number
  real,      \* [numbers of the catalog pages -> their page headers]
  slot,      \* the names where is_relation_present looks for them on page 1
  created,   \* the names in the order in which relation_create returned them
  reply      \* what the last operation answered

vars == <<db, real, slot, created, reply>>

NoName == "no name"     \* what is in a slot that holds no intact header

Base == DbHeaderSize + PageHeaderSize              \* the first slot
SlotStart(i) == Base + (i - 1) * RelHeaderSize

\* The page header of page 1 after a relation header was written over it: the
\* fields have the bytes of the schema and the page numbers in that header.
\* write_ptr is the padding of struct schema, 0 when malloc gave fresh memory.
Overwritten(last) == [remaining_space |-> 0, write_ptr |-> 0, next_page_number |-> last]

NewPage ==
  [remaining_space |-> PageSize, write_ptr |-> 0, next_page_number |-> 0]

Take_unmoved(p, bytes) == [p EXCEPT !.remaining_space = @ - bytes]
Take(p, bytes) == [p EXCEPT !.write_ptr = @ + bytes, !.remaining_space = @ - bytes]

-----------------------------------------------------------------------------

Init ==
  /\ db = [relation_count |-> 0, page_count |-> 1, last_page_number |-> 1]
  /\ real = [n \in {1} |-> Take(NewPage, DbHeaderSize + PageHeaderSize)]
  /\ slot = <<>> /\ created = <<>> /\ reply = "none"

\* is_relation_present reads one header behind the other, relation_count in
\* all.  It leaves page 1 when the next offset is the write_ptr of the page and
\* the page has a link.  No header is ever at the beginning of another page.
Visited(count) ==
  {i \in DOMAIN slot \cap (1 .. count) :
     \A j \in 1 .. i - 1 : ~(/\ real[1].next_page_number # 0
                             /\ SlotStart(j + 1) = real[1].write_ptr)}

is_relation_present(name) == \E i \in Visited(db.relation_count) : slot[i] = name

Meets(i, at) == at < SlotStart(i + 1) /\ SlotStart(i) < at + RelHeaderSize

\* A header written at an offset that is not that of the next slot destroys
\* what it meets: the end of the header, page_count and real_number, falls on
\* is_available and the begin of the name, and makes it empty
write_header(name, at) ==
  IF at = SlotStart(Len(slot) + 1)
  THEN Append(slot, name)
  ELSE [i \in DOMAIN slot |-> IF Meets(i, at) THEN NoName ELSE slot[i]]

-----------------------------------------------------------------------------

\* What a creation does wherever the header goes
NewRelation(name) ==
  /\ ~is_relation_present(name) /\ Len(created) < MaxRelations
  /\ created' = Append(created, name) /\ reply' = <<"created", name>>

\* The last catalog page has room for the header
relation_create(name) ==
  LET last == db.last_page_number IN
  /\ NewRelation(name)
  /\ real[last].remaining_space >= RelHeaderSize
  /\ slot' = write_header(name, real[last].write_ptr)
  /\ real' = [real EXCEPT ![last] = Take(@, RelHeaderSize)]
  /\ db' = [db EXCEPT !.relation_count = @ + 1, !.page_count = @ + 1]

\* It has not: page_add_real makes a new one, behind the page for the rows
relation_create_on_new_page(name) ==
  LET n == db.page_count + 1
      new == n + 1
      fresh == Take(NewPage, PageHeaderSize)
      linked == [real EXCEPT ![db.last_page_number].next_page_number = new,
                             ![1] = Overwritten(n)] IN
  /\ NewRelation(name)
  /\ real[db.last_page_number].remaining_space < RelHeaderSize
  /\ slot' = write_header(name, fresh.write_ptr)
  /\ real' = [p \in DOMAIN real \cup {new} |->
                IF p = new THEN Take(fresh, RelHeaderSize) ELSE linked[p]]
  /\ db' = [relation_count |-> db.relation_count + 1, page_count |-> new,
             last_page_number |-> new]

relation_create_again(name) ==
  /\ is_relation_present(name)
  /\ reply' = <<"exists", name>>
  /\ UNCHANGED <<db, real, slot, created>>

relation_get(name) ==
  /\ reply' = <<IF is_relation_present(name) THEN "got" ELSE "missing", name>>
  /\ UNCHANGED <<db, real, slot, created>>

Next == \E name \in Name :
  \/ relation_create(name) \/ relation_create_on_new_page(name)
  \/ relation_create_again(name) \/ relation_get(name)

Spec == Init /\ [][Next]_vars

-----------------------------------------------------------------------------

Capacity == (PageSize - Base) \div RelHeaderSize

\* While the headers fit on page 1 every relation that was created is found and
\* has its slot.  Of the headers past the end of page 1 none is found, and the
\* k-th of them costs relation k its header, and no other relation.
DamageInv ==
  LET lost == Len(created) - Capacity IN
  /\ Len(slot) = IF lost > 0 THEN Capacity ELSE Len(created)
  /\ \A i \in DOMAIN slot : slot[i] = IF i <= lost THEN NoName ELSE created[i]
  /\ Visited(db.relation_count) = DOMAIN slot

\* "Can't create two relations with the same name"
NamesOnce == \A i, j \in DOMAIN created : created[i] = created[j] => i = j
=============================================================================
