# A verification of the llp3 storage server

llp3 is a small relational store. A client parses a query, sends it as XML to a
server, and the server runs it with a storage library that keeps all relations
in one file of 4096-byte pages. This directory holds TLA+ specifications of the
storage library (`server_side/src`), of the server and the client around it, the
TLC configurations that check them, and proofs checked by TLAPS.

Contents: [inventory](#inventory), [modules](#modules), [runs](#runs),
[bounds and fairness](#bounds-symmetry-and-fairness), [proofs](#proofs),
[findings](#findings), [what is only checked, and what is not
modelled](#limits), [plan](#plan).

## Inventory

| part | state it keeps | operations | talks to | what is hard | what makes it correct | modelled in |
|---|---|---|---|---|---|---|
| storage of relations (`database.c`, `file_ops.c`, `relation.c`) | the file: database header, relation headers, pages of rows; in memory a copy of the database header and of the header of each open relation | create and open the file, close; create, get and close a relation; insert, select, update, delete | file through stdio; called by the handlers | several copies of one header, pages of relations that alternate in the file, byte arithmetic in 16 bits | the file always agrees with memory; pages form one chain per relation; no page overflows; answers are those of a plain collection of rows | `PageStore`, `RelationStore` |
| row loops (`select_execute`, `update_execute`, `delete_execute`) | page header copy, offset, row buffer | one iteration | pages | loops that end only on an exact offset, and write where they read | each matching row once, the loop ends | `Scan` |
| join (`query_join`, `query_join_attempt`) | two such cursors | one iteration of either loop | pages | nested loops, early return | pairs of live, equal rows; the join ends | `Join` |
| catalog (`page_header_write_real`, `is_relation_present`) | relation headers, the page headers of catalog pages | write a header, look a name up | storage | what happens when page 1 is full | every relation can be found, no name twice | `Catalog` |
| types (`type_ops.c`) | none | compare, update, print a value; compare for a join | row loops | casts of bytes | which rows a filter meets | `TypeOps` |
| schema (`schema.c`) | linked list of columns | add a column, look one up | storage | a list in memory, an array when read from a file | no column twice, offsets that share no byte, a value reads back | `RowData` |
| server process (`main.cpp`) | sockets, one database | accept, read a request, answer | handlers, client | requests cut or joined by TCP, several clients, a null relation | each client is answered, in order, and told of success only when there was one | `Server` |
| handlers (`receiver.h`) | none between requests | create, select, insert, update, delete from XML | library | pointers that are not set, answers that ignore failures | the call is the one that was typed | `Requests` |
| crashes (`fwrite` in `file_ops.c`, stdio) | the file, and the writes that stdio holds | each `fwrite`, each `fseek`, a kill, a reopening | storage | no `fflush`; one operation is up to eight writes | what was done stays, one operation is lost at most, damage stays in one relation | `Writes` |
| parser (`parser.y`, `parser.tab.c`) | stacks of states and values, their size, the lookahead; an array of values outlives the call | shift, reduce, grow, give up, accept | scanner, AST, client | rules without symbols take values that earlier reductions left; stacks have a limit; the queries follow each other in one stream | the tree is that of the query; nothing but a query is accepted | `Parser`, `Language` |
| AST (`ast.c`) | nodes | one constructor for each kind | parser, translation | lists turned round, an operator turned with its operands, text appended to a block that nobody has written | the tree says what was typed | `Ast` |
| client (`main.cpp`, `string_utils_xml.cpp`) | the tree of a query | parse, translate to XML, send | server | codes of operators and types that both sides must agree on, lists turned round twice | the request says what was typed | `Requests`, `Server` |

The server runs an `io_context` of one thread, and the library is called between
two `co_await`s: an operation runs to its end before the next one begins. This
is why `PageStore` takes one operation as one step; the loops inside the
operations have modules of their own, which justify that step.

## Modules

`Tables` — relation names, columns, schemas, the data of rows, and what matching
a filter means. All other modules about rows rest on it.

`Layout` — one page as a record: the fields of `struct page_header`, the columns
and the rows under their byte offsets. `columns_write` is `relation_page_write`,
`row_write` the end of `row_write_to_page`. The sizes of the C structs are
constants. `remaining_space` is a `uint16_t` and wraps (`U16`). `Places` says
which offsets a loop over a relation reads, from `write_ptr` and
`next_page_number` alone.

`PageStore` — the library. Variables and code:

| variable | code |
|---|---|
| `opened`, `mem` | `struct database` and its `database_header` in memory |
| `disk` | the database header at offset 0 of the file |
| `catalog` | the relation headers behind it, in the order of their slots |
| `pages` | all other pages |
| `handle` | the `relation_header` of each open relation |
| `indexed` | the handles whose columns were read by `relation_read_columns` |
| `reply` | the last request, its outcome and the rows it met (a history of what is printed) |

Actions have the names of the functions. `relation_create` contains `page_add`,
`page_header_write_real`, `database_header_save_changes` and
`relation_page_write`; `row_insert_new_page` contains `page_add` with the saves
of both headers. `row_insert` includes the `attribute_add` calls that precede
it. Queries on a handle that only `relation_create` returned need its columns as
an array, which they are not: `indexed` excludes them, as they are undefined
behaviour that no caller reaches.

`RelationStore` — what the library promises: per relation a schema and a bag of
rows known by an identity, and for each request an answer. `PageStore` implements
it with the place (page, offset) of a row as its identity: `Table` of `PageStore` is
the collection that a file stands for.

`Writes` — `PageStore` with the writes of each operation. Every action is the
action of `PageStore` together with the list of the `fwrite`s the function makes
(`row_write_to_page_writes` and its like), in the order of the code. `cells` is the file: a
cell is what one `fwrite` writes. `writes` are those not in the file, of which
the first `issued` are in the buffer of stdio: `fwrite` puts one there, an `fseek`
in front of it empties the buffer into the file first. `kill` may come between any
two: the file keeps its cells and any prefix of the buffer (stdio passes it on by
itself when it is full), memory is gone, and the next program sees what `PageOf`,
`CatalogOf` and `DatabaseOf` read from the cells. `torn` says for which
numbers of missing writes an operation leaves something that the library cannot be used
on; after such a kill (`damaged`) only `create_file` goes on.

`Cursor`, `Scan`, `Join` — the loops. A cursor is the copy of a page header and
the offset `ptr`. `Scan` runs one iteration per step and shows that a loop that
has ended did to the pages what `PageStore` says the operation does. `Join` runs
`query_join` with `query_join_attempt` inside it, after `query_join_execute` has looked
the two columns up. `MCLoops` runs one or the other. Both begin with any pages that
the invariants of `PageStore` allow: all pages but the last full, the last with
any number of rows, each row deleted or not, with any data. `IsChain` says what the
numbers of the pages of a relation are: a sequence without 0 and without repetition (for
`Scan` they also ascend, as the library only ever adds the next number). `QuerySpec` and
`JoinSpec` are the loops one by one, as the proofs take them.

`Catalog` — where relation headers go, with no limit of one page. A header that
is written at an offset other than that of the next slot erases what it meets.
`PageStore` stays below that limit (`CatalogSlots`), `Catalog` shows what is
beyond it. `linked` is the page whose link leads to a new catalog page.

`TypeOps` — the casts of `integer_compare`, `integer_query_join_compare` and
`double_query_join_compare`. The row models take their comparison from it.

`RowData` — a schema as a list of columns, and one row as its bytes: what
`schema_add_column`, `attribute_add` and the update functions of `type_ops.c` do to
them. `data` is the row that `row_create` has allocated (`Unset` is a byte that
`malloc` left), `given` the value that each column was last given. `Before(list)[i]` is what
the loop of `column_get_offset` has added up when it comes to column i. Texts are
shorter than their column and have its type: no code checks that, and the
module says so at its head.

`Ast` — the constructors of `ast.c` as records, with the order in which lists grow,
`switch_cmp_mode`, and the string that `safe_string_concatenation` appends to a block it
has not written ("block").

`Parser` — `yyparse` as Bison generated it: the tables of `parser.tab.c` (`yypact`,
`yydefact`, `yytable`, `yycheck`, ...), the stacks of states and values with their growth up to
`YYMAXDEPTH`, the default reductions, the error and the acceptance, one action for
each pass through its loop. A rule
without symbols has as its value `yyvsp[1]`, the cell above the top, which holds what an
earlier reduction of this call left there, or what an earlier call did (the array on
the C stack is at the same place, `yyvsa`), or nothing that is known; `guessed` are the
rules of this call that did so. The actions of the rules build trees with `Ast`.

`Language` — the reference: what a query of the language says, the tokens that
spell it (`Tokens`, with the parentheses that its filters need and `extra` ones), the query
that a tree stands for (`QueryOf`), and for each query the call of the library it should
end in. `MCRequests` is the loop of the client's `main`: queries are typed, whole or
damaged, and each call of `yyparse` takes the next from one stream of tokens.

`Requests` — functions of one tree, in the order in which it passes through the
code: the XML (`string_utils_xml.cpp`), what
`scheme.xsd` accepts (`Valid`), the handler (`receiver.h`). `Done(q)` is the call of
the library that a typed query ends in, `Throws` when the handler throws,
`Unsupported` when the request is not valid, `Undefined` when the code leaves
undefined what happens. An operand keeps its kind and value; where a handler reads a
number as text it becomes "digits". Names and words pass through XML unchanged
because the language has no other characters in them.

`Server` — the processes. `coroutine` is where `process_request` of a connection
stands: waiting for bytes, or with an answer to write. `up` and `down` are the two
streams of its socket, as pieces of messages; a read takes any of the pieces
that are there, from the first on. Reading a chunk and calling the library is one
step, as the code gives way nowhere between. `execute`, `refuse`, `close` and `die` are what
can come of a request: the answer says success whatever the library did, an
invalid request is refused, an exception closes the connection, a null relation
ends the process. Of the database it keeps the names of the relations; what a
request is comes from `Requests`. `asked`, `told`, `executed` and `whole` are
histories for the properties.

`PageStoreProofs` (which has the refinement as well), `WritesProofs`, `LoopProofs`, `CatalogProofs`,
`RowDataProofs`, `ServerProofs` and `ParserProofs` hold theorems and their lemmas, `Numbers` the
facts about natural numbers that several of them need. They define no behaviour.

`MC...` modules give the constants of the runs. Definitions named after a mapped
one with a suffix (`page_add_uncounted`, `advance_live_only`, ...) are faulty
variants, used by nothing: each breaks one property when it replaces the
original.

## Runs

| run | configuration | properties | what it shows |
|---|---|---|---|
| shape | `PageStore_shape.cfg` | `TypeOK SavedInv CatalogInv ChainInv SpaceInv RowsInv ScanInv`, `RowsStay OtherRelationsUntouched` | In any order of operations on two relations of different schemas: headers in the file agree with memory, no name has two slots, pages form disjoint chains, no page overflows or is left early, a scan finds all rows of its relation, a row never moves and a deleted one stays deleted, no link changes once it is set, and no operation touches another relation. |
| query | `PageStore_query.cfg` | `Refinement` | Answers are those of `RelationStore`, with values that `integer_compare` confuses. |
| loops | `Loops.cfg` | `CursorInv LoopInv ResultInv ByLowByte JoinSound`, `Terminates JoinTerminates` | Each loop of a query meets each matching row once and in order, is not misled by its own writes, and ends. A filter on an INTEGER meets the rows that agree with it modulo 256, on values of which two share the low byte and one fits in no char. Deleted rows are never joined, nothing is joined on a column that is missing, the count printed is that of the live rows on the left, and the join ends. |
| writes | `Writes.cfg` | `WrittenInv WholeInv ConfinedInv`, `KillLosesLast` | The writes of each operation add up to the step of `PageStore`. A kill in an insert that stays on its page, an update or a delete leaves a file with all invariants of `PageStore`; a kill in a creation or an insert that adds a page damages that relation at most; either loses at most rows of the last operation. |
| join_complete | `Join_complete.cfg` | `JoinComplete` | violated, see Findings |
| catalog | `Catalog.cfg` | `DamageInv` | Exactly which relations can still be found once page 1 is full. |
| catalog_full | `Catalog_full.cfg` | `NamesOnce` | violated, see Findings |
| row_data | `RowData.cfg` | `SchemaInv ReadsBack` | Columns that can be found share no byte of a row, also when some have size 0, and each reads back its last value. |
| requests | `Requests.cfg` | `TreeAsTyped Faithful DepthInv FilterAsTyped JoinAsTyped ColumnsAsTyped AttributesAsTyped Supported` | The tree is that of the query, with the precedence and order typed, whatever was typed before and however the stacks grew; a text with a token missing, too many or exchanged is accepted only if it is a query; only parentheses deepen the stacks. What each typed query makes of the database: the columns, order, types and values that were typed; the same rows for every operator; which queries are refused, and which end the connection. |
| requests_update | `Requests_update.cfg` | `UpdateAsTyped` | violated, see Findings |
| server | `Server.cfg` | `OrderInv AnswersInv`, `Answered` | Two clients on one database, requests and answers cut and joined, crashes, stops and restarts: no request is executed twice or out of order; a client whose messages arrived whole is told the answers to its own queries, and of success only for what was executed; no client waits for ever. |
| server_existing | `Server_existing.cfg` | `ExistingKept` | violated, see Findings |

To repeat one: `tlc -workers 2 -config PageStore_shape.cfg MCPageStore`.

## Bounds, symmetry and fairness

*shape*: at most 5 pages (`MaxPages`), two relations, two schemas, of which one
fits two rows on a page and the other one; one value per column. With page 1 for
the catalog, four pages of rows suffice for two relations to alternate and for
one of them to have a page in the middle of its chain. Sizes are small numbers
instead of those of the C structs (a page of 10 bytes, headers of 1 byte, a
relation header of 4): the catalog has room for two headers, a page for one or
two rows. Which numbers they are matters to no definition; the proofs below are
for all of them.

*query*: at most 3 pages, one schema of two columns; column `b` has the values 44
and 300, which share the low byte, so that a filter can meet a row with another
value, and a filter can meet none. A relation has at most four rows.

*loops*: for a query every content of up to three pages with two rows on each, every query.
Three pages give a first, a middle and a last page. For a join every content of two pages
on the left and three on the right, with one row per page, so that every step to the
next row changes the page, and every pair of columns, missing ones included. A state belongs to
a query or to a join; the other loop is at its end. The run joins two relations. A relation
joined with itself, which the language allows, is within `JoinAssumption` and so within the
proofs (`JoinPutsOut`): the join writes nothing, so its two cursors share nothing but what they read.

*writes*: at most 4 pages (`MaxPages`) and 3 rows in the file (`MaxRows`), two relations with two rows to
a page: one relation can have a full page and begin another while the second one has a
page in between, which is where a kill can damage and must not spread. Kills, reopenings
and new files come without a bound. `VIEW` leaves `reply` out of a state: no guard and no
property of the run reads it.

*catalog*: six creations with room for two headers on page 1, so two thirds of
them are beyond it, and a second catalog page fills up as well; four names.
There `page_header`, `database_header` and `relation_header` keep the order of
their real sizes (40, 80, 88), on which the place of the damage depends.

*row_data*: up to three columns of three names; sizes 1, 2 and 3 for the fixed
types and 0 or 3 for a VARCHAR, so that a text can have 0, 1 or 2 characters and
a shorter text follows a longer one. *requests*: 6033 streams of one or two queries. Every query of two
columns, two aliases and one value or two of each kind, all six operators, filters of up to four
comparisons in every nesting of `&&` and `||` and chains of eight; joins with another relation and with the same one; lists of up to
three pairs where `scheme.xsd` is taken to allow two (50 in the code), so that a list
can be too long, and of nine. Of one query of each rule: up to 16 pairs of
parentheses around each comparison; every text with one token left out, one inserted or one
exchanged, alone or behind another query; every pair. `YYINITDEPTH` is 8 (200 in the code) and
`YYMAXDEPTH` 22 (10000), so that stacks grow twice and are exhausted. A tree
deeper than `MaxNesting` is not written to XML. A float is a number of units of 10^-7, one digit
more than `std::to_string` prints.

*server*: two clients. One creates a relation; the other types two queries per run
of four kinds: one needs the relation, one is answered with rows, one is refused,
one throws. Requests, and answers with rows, come in two pieces: the smallest numbers with a
cut, a join across two messages and a client that is behind by one answer. Clients
come, go and come back without a bound; so does the server.

Symmetry: relation names are interchangeable in both runs of `PageStore` and in that
of `Writes` (no operation compares names but for equality), and none has a liveness
property. `Refinement` is a safety property: the abstract specification has no
fairness.

Deadlock is checked in the runs of `PageStore`, `Writes`, `Catalog` and
`Server`. `Requests` turns it off: the client ends when the last query has been parsed or one
has no tree. `RowData` turns it off: a schema whose columns all have size 0 is full at its bound
and has no row. A loop
that has ended is a proper end: `MCLoops` turns the check off, and
`Terminates` and `JoinTerminates` say that nothing else stops them.

Fairness: weak fairness of the next-state relation of `MCLoops`, one loop nest in
straight-line code of the only thread. No other property needs
fairness, and none is assumed in `PageStore` or `Catalog`: nothing obliges a
client to ask. `Server` assumes that a coroutine whose socket is ready goes on
(`WF` of `process_request` and `async_write`: the `io_context` runs every ready
handler, and a handler ends, which is what `Terminates` and `JoinTerminates` say) and
that a client takes what has arrived (`WF` of `recv` and `recv_end`). Nothing obliges the
user to type, the server to start again or to stay up: when it ends, its sockets close.

## Proofs

Each theorem is about every value of the constants: every page size and every size of a
header, any relations, columns, schemas, data, clients, queries, any number of pages, rows
and pieces of a message, within the assumptions named.

| module | theorem | statement |
|---|---|---|
| `PageStoreProofs` | `StoreInvariant` | `Spec => []IInv` |
| | `TypeCorrect` | `Spec => []TypeOK` |
| | `AlwaysSaved` | `Spec => []SavedInv` |
| | `CatalogCorrect` | `Spec => []CatalogInv` |
| | `ChainsCorrect` | `Spec => []ChainInv` |
| | `SpaceAccounted` | `Spec => []SpaceInv` |
| | `RowsWhereScanned` | `Spec => []RowsInv` |
| | `ScansComplete` | `Spec => []ScanInv` |
| | `RowsNeverMove` | `Spec => RowsStay` |
| | `OthersUntouched` | `Spec => OtherRelationsUntouched` |
| | `LibraryImplementsStore` | `Spec => Refinement` |
| `WritesProofs` | `WritesAddUp` | `WritesSpec => []WrittenInv` |
| | `KillLeavesWhole` | `WritesSpec => []WholeInv` |
| | `DamageConfined` | `WritesSpec => []ConfinedInv` |
| | `KillLosesOnlyLast` | `WritesSpec => KillLosesLast` |
| `LoopProofs` | `CursorKnows` | `QuerySpec => []CursorInv` |
| | `LoopMeets` | `QuerySpec => []LoopInv` |
| | `QueryDone` | `QuerySpec => []ResultInv` |
| | `MetByLowByte` | `IntegerColumns` implies `QuerySpec => []ByLowByte` |
| | `JoinPutsOut` | `JoinSpec => []JoinSound` |
| | `FilterComparesLowByte`, `JoinComparesAsFilter`, `JoinOfWholeNumbers` | the comparisons, for all integers |
| `CatalogProofs` | `CatalogDamage` | `Spec => []DamageInv` |
| `RowDataProofs` | `ColumnsShareNothing` | `Spec => []SchemaInv` |
| | `ColumnsReadBack` | `Spec => []ReadsBack` |
| `ServerProofs` | `ExecutedInTypedOrder` | `Spec => []OrderInv` |
| | `AnsweredRight` | `Spec => []AnswersInv` |
| `ParserProofs` | `StackBounded` | `ParserSpec(Token) => []DepthInv` |

### Assumptions

- `TablesAssumption`: finitely many columns, schemas are records. `SizesAssumption`: sizes are
  natural numbers, a page is shorter than 2^16, a page header, a relation header and a row header
  are not empty. `MaxPagesAssumption`.
- `RowFitsAssumption`: a row of each schema fits on a page that holds nothing else. It is a
  limit of the library which no code checks: without it `row_write_to_page` writes over
  the next page.
- `ScanAssumption`, `JoinAssumption`: the pages of a relation are an `IsChain`, two relations
  share none, and a relation joined with itself is the same pages and schema on both sides. `ChainsCorrect` is why.
- `CatalogAssumption`: the order of the sizes of the three headers, and that one relation
  header fits on page 1.
- `RowDataAssumption`: an INTEGER, a BOOLEAN and a DOUBLE have a size, and no byte of a text is 0.
- `StackBounded` is about any set of tokens whose symbols are those of `yytname`, 0 to 30, and any
  `YYINITDEPTH` and `YYMAXDEPTH` (`DepthAssumption`).
- `PiecesAssumption`: a message has at least one piece. `SentAssumption`: the client lives to send
  what it typed. `BoundsAssumption`: the limits of `Requests` are numbers.

### The storage library

None of the invariants of `PageStore` is inductive alone, so they are proved
together as `IInv`. An insert is safe because the last page, to which it writes,
is the one the handle names (`SavedInv`: handle and slot agree), belongs to the
relation (`ChainInv`) and has `write_ptr + remaining_space = PageSize`
(`SpaceInv`), so that `is_enough_space` in 16 bits means what it says (`U16Keeps`).
A new page has the number `page_count + 1`, which no link leads to yet
(`ChainInv`: `DOMAIN pages = 2 .. page_count`), so the chain of every other
relation is untouched and its own is longer by one. A name gets a second slot in
no state because `relation_count` in memory counts all slots (`SavedInv` and
`CatalogInv`). Of queries the proof uses only that they overwrite `rows` at places
that exist. There is one lemma per action or group of actions; below it each
conjunct that the action can disturb is one step. Lemmas about `Put`, `take`, `row_write` and
`Overwrite` come first and are cited by name.

`RowsIInv` adds what the rows need: on each page they are at the offsets of the first k rows,
and `write_ptr` is behind them (`RowsFit`); `page_count` of a relation is the number of its
pages. That a scan reaches exactly the pages of its relation (`ScanReaches`) needs an induction
along the chain. It is done without an induction rule: a page that belongs to the relation
and is not reached would have a least number, but the page whose link leads to it has a
smaller one (`ChainInv`) and, being full, does not stop the scan (`SpaceInv`). `Numbers` has that
principle as `LeastNumber`, and as `Climb` for intervals. `RowsNeverMove` and `OthersUntouched`
are about steps: what each action does to pages is stated once per action
(`...PagesStay`, `...ChangesOnly`).

`LibraryImplementsStore`: by `TableCorrect` the relation under a name in `Table` is that of the only slot with
this name, and the rows that its scan finds alive are those that are alive on the pages it
owns. Each action is then one step of `RelationStore`, or none: a lemma per operation
(`...Refines`), the writes of a query through `OverwrittenRows`, an insert through
`RowAppears` (the place of the new row was not in use).

### The writes of an operation

`WInv` has three parts. `Whereabouts`: the file with all writes of the last operation is the state, and stdio
holds no more of them than there are. `Sound`, while nothing is damaged: the invariants of
`PageStore` (`IInv`, `RowsIInv`), the count of slots in the header of page 1 agrees with the database
header (`RealRight`), and after *each* number of writes the file is one that a kill may leave (`Pending`).
`Broken`, after a kill that damaged something: the program does not run, and at most one relation is not whole.

`Pending` is why the invariant is inductive: a kill needs nothing but the moment it comes at, and
`fwrite`, which only moves writes from one side to the other, needs nothing but that the writes
before and behind a cut add up (`WrittenOn`). What a moment leaves is `Left`: a database header, a
catalog and pages that the cells hold (`Holds`), whose rows are each one of before or after
(`OneOf`), and which are whole (`FileWhole`: `IInv` and `RowsIInv` of a file), or confined where
`torn` says so. `Holds` also says that beside the rows which a page counts there is at most one
behind them, left by a kill (`RowCellsKnown`); the next insert writes over it. `ReadBack`
is the reason for `WrittenInv`: what the cells hold is what the program reads.

The work is in what each operation writes (`CreateCarries`, `InsertCarries`, `NewPageCarries`,
`DeleteCarries`, `UpdateCarries`, `NewFileCarries`: `Carries` is `Pending` for its writes, and the next
state behind them). Each goes from one write to the next: a write to a slot, a header,
columns, a row header or the data of a row (`SlotWrite`, `HeaderWrite`, `ColumnsWrite`, `RowHeaderWrite`,
`RowsWrite`, ...) makes of one file that holds something another. While a page is being added only cells of
that relation are written, and its own slot, which leaves all the others whole (`TouchesOnly`,
`OthersWhole`, `ConfinedTo`). An update or a delete has any number of writes, in the order in which the
loop meets the rows: that there is such an order is `SortedExists`, and after k of them the first k
rows are new and the others old (`PartRows`, `RowsCarries`), which changes neither a chain nor a header.

A kill may come at any of these moments, again and again, in any order with other operations, and the
theorems hold for a file of any size: TLC has at most 4 pages and 3 rows.

### The loops

`QueryIInv` says that the file has the shape the layout prescribes (`IsFile`: the first `length` pages of the
chain, all full but the last, which has `count` rows), the cursor is at row k of page i
(`CursorAt`) and `LoopInv`. `Behind` is the set of places before a cursor; `Advanced` and `OneMoreOver`
show that `advance` adds to it exactly the place it leaves, across the end of a page as
well as on one, and `RowKept` that writing a row changes neither `write_ptr` nor a link.
So the cursor meets each row once, whatever it writes, and `ptr != write_ptr` is as
good as `<`. At the end `Behind` is every place (`AllPlaces`). `MetByLowByte` combines that with
`FilterComparesLowByte` for relations whose columns are INTEGERs (`IntegerColumns`): a row that a
scan meets has data of its schema (`DataOfRows`).

`JoinIInv` has the same for both cursors, and `JoinedSoFar`: what was put out and counted
belongs to the live rows behind the outer cursor, one pair for a row at most. While the
inner loop runs, the row under the outer cursor is alive (`StageInv`). `JoinComplete` is
false (Findings) and `Terminates` is liveness.

That the loops run from files of this shape is `RowsWhereScanned` and `SpaceAccounted`;
that a loop does what `PageStore` says in one step is `QueryDone`.

### The catalog

`CatalogIInv` has two cases. On page 1 (`OnFirstPage`) slot i has the i-th relation. Behind
it (`OnLaterPage(m)`, m headers on the last catalog page) one relation is lost on page 1 for
each header beyond it. The work is in `MetSlots`: the header behind m others on a later page, written at its
offset within the page, meets the bytes of slots m and m + 1 (the orders of the header sizes put it there) and
none else, so that `WrittenOver` loses one slot more each time. A second catalog page
fills up when nothing on page 1 is left (`FullWhen`).

### Rows and columns

`RowDataIInv`: `length` is what the loop of `column_get_offset` comes to behind the last
column (`ListInv`), and every column that was given a value holds it (`Holds`): the bytes
are there and, for a text, a 0 behind them and within the column. The 0 is the part
that makes it inductive: without it a write to the next column could lengthen a text. `Before` is
a recursive function; that it has a solution is proved by `Climb` (`BeforeDefined`), and that
offsets rise (`BeforeRises`). Then of two columns one lies behind the other (`ColumnsApart`), and
`HoldsStill` says that no write to one reaches what the other holds.

### The server

`OrderIInv`: the pieces on the way to the server are in the order of <query, piece>
(`UpInOrder`); what has been executed was typed earlier than every piece on its way (`DoneInOrder`); and a
coroutine that is closed has nothing to read (`ClosedInv`), so that a restart cannot find
old requests. `WholeRequest` shows that a chunk taken for a request is one.

`AnswersIInv`: as long as everything a client received was whole, its last query is in one of four places (on
its way, answered by the coroutine, in the answer on its way, lost with the connection), and there is
nothing else in its streams. Without this `recv` could print an old answer. Success is
`Earned` only by execution. The proof found that `AnswersInv` said too much: a create
whose handler leaves its columns undefined may be answered with success without any
relation to show for it, and is now excluded by name (`Done(...) # Undefined`).

### The stacks of the parser

`ParserSpec(Token)` calls `yyparse` again and again, on any sequence of tokens, whether it makes
sense or not; the run `requests` is a special case of it, with a few thousand texts. What bounds
the stacks is the automaton that Bison made, so the proof is about its tables. `Placed` gives each of
the 114 states its place: a state between the parts of a statement has one index,
whatever lists and filters have been reduced before, and a state within a part is at one of its
own at most, if 5 are taken off for each state 54, in which a `(` has been read. `Under` says what
may lie under a state, and `Leads` is what the tables put on each. `StackRight` is the inductive
invariant: every state is in its place on one that it may be on.

`Shifted` and `Negative` go through `yypact`, `yycheck` and `yytable` for every state and symbol;
`PartsLead`, `Guesses` and `Statement` through `yyr1`, `yypgoto` and `yydefgoto` for every state and
rule. A rule takes off one to three states within a part, which `Under` follows downwards, or the whole
of a statement, of which `Placed` knows the length; what is below is a state that
awaits the nonterminal (`ReducesRight`). What is put on it is in its place again (`Rises`,
`PutRight`), and no place is above 20 (`Bounded`).

### Only model-checked

- `Terminates`, `JoinTerminates` and `Answered`: liveness, which TLAPS does not prove.
- The properties of the trees (run `requests`, all but `DepthInv`): a tree, the tokens that spell it
  and the XML that it becomes are data of recursive operators, of which nothing can be proved here.

## Findings

1. *Join stops at the first live row* (`file_ops.c:645`, run `join_complete`).
   Every case of `query_join_attempt` ends in `return buf`, equal or not. The
   loop body it replaced, kept as a comment at lines 625-640, returned on a match
   only. A row of the left relation whose partner is not the first live row on
   the right is missing, and "Joined n rows" still counts it.
2. *The catalog's second page* (`file_ops.c:123`, run `catalog_full`). When page 1
   is full (45 relations with the real sizes) `page_header_write_real` seeks to
   `write_ptr` of the new page without the offset of that page. The header lands
   on page 1, over its page header and the begin of the first slot: two relations
   can no longer be found, and each can be created a second time, against
   "Can't create two relations with the same name" (`database.c:75`). `DamageInv`
   says exactly which are lost as creations go on.

3. *Update by an uninitialised pointer* (`receiver.h:235`, run `requests_update`).
   `update_op` makes an entry for each child of a pair, the first before the value
   is read, and calls the library in the first round of its loop. The new value it
   hands on is that first entry's pointer, which nothing has set.
4. *The file is always new* (`server_side/main.cpp:99`, run `server_existing`).
   `argv[2] == "existing"` compares addresses. The report (`llp3.pdf`, page 2) asks for
   a new file only "if there is none".

Behaviours that the models keep as the code has them, and that a reader might
not expect: an INTEGER filter compares the low byte (`ByLowByte`); an update
whose filter column is the column it sets is refused (`no_attribute`); deleted
rows are never reclaimed (`RowsStay`); every operator of a filter means equality, a
filter that begins with its value looks for a column named like the value, and a delete
by a text compares with the bytes of a `std::string` object (`FilterAsTyped`); of two
values typed for one column the first is kept (`AttributesAsTyped`); a request in two
pieces is refused twice (`IsRequest`); what is left of an answer that one `recv` did
not return is printed as the answer to the next query, which is why `AnswersInv` speaks of
clients whose messages were `whole`; a select without a filter, though `scheme.xsd:23` and
the grammar allow it, makes its handler throw and ends the connection (`Supported`); `&&` is
sent as `||`, and `||` is looked up behind the end of `logic_repr_` (`ast.h:44`, `Supported`);
the empty alternatives of the grammar make trees out of what lies on the stack, so some
damaged texts are accepted (`Faithful` excludes those in which that happened); a string of two
words is appended to what a fresh block holds (`Supported`); a
kill while a page is being added leaves a link to a page that is not in the file (`ConfinedInv`); a
column of size 0 counts as absent, so its name can be added again, and the second cannot
be reached by it (`SchemaInv` speaks of columns that are found by name).

## Limits

What is checked on small instances only is listed under [Proofs](#only-model-checked).

Simplifications in what is modelled:
- an operation of `PageStore` is one step; `Writes` has the steps inside, but no write
  that fails (the library ignores most results) and no loss of power, after which the
  operating system may have kept any of the writes;
- at most one handle per relation, the server's use;
- offsets in the file are pairs (page, offset in it), so the 32-bit product
  `(page_number - 1) * 4096` does not wrap;
- columns have no type of their own but a comparison; the models use INTEGER;
- a row is inserted with a value for each of its columns; one that was not given
  is whatever `malloc` left in the row;
- in `Catalog`, the bytes that a header leaves over another are taken from the
  field offsets of the structs; padding is taken as 0, as fresh memory has it;
- a value that a rule without symbols takes from a cell no call has written is
  "garbage", and nothing is said of what the client makes of it;
- the scanner is taken to return the tokens of a text: `lex.yy.c` is generated from the
  60 lines of patterns of `tokenizer.l`, and a model of it would be one of characters;
- a value that is not initialised, or that a function without `return` gives, is
  "undefined": `Server` takes both the end of the process and an ordinary answer as
  outcomes, never a value;
- a client's runs do not overlap: it connects again when the server has noticed
  that it has gone;
- `valid_ctxt` is taken as built: the path of `scheme.xsd` in `server_side/main.cpp:105` is that
  of one machine, and without the file every request is refused.

Not modelled at all: the client's printing of a tree (no code calls it), the generated
lexer, and the old test program `server_side/src/main.c`. `PROJECT.json` lists every part with the reason,
and every hazard of the code with the properties that cover it or why none does.

## Plan

In this order; the first nine are written, the rest is ahead.

1. `Tables`, `Layout`, `RelationStore`, `PageStore` with both runs and the first
   proofs. (done)
2. `Cursor`, `Scan`, `Join`, `TypeOps`: loops and comparisons. (done)
3. `Catalog`: the limit of page 1. (done)
4. `RowData`: columns and the bytes of a row. (done)
5. `Requests` and `Server`: what is typed, what is called, what is told. (done)
6. `Ast`, `Parser`, `Language`: from tokens to trees, with errors and leftovers. (done)
7. `Writes`: the single writes and a kill between them. (done; ahead: writes that fail)
8. Proofs of the invariants of `PageStore`, the loops, `Catalog`, `RowData` and `Server`, and of the
   refinement. (done)
9. Proofs of the properties of `Writes`, and of the bound of the parser's stacks. (done)
10. `Handles`: two handles of one relation, one of them stale. The server never has two.
