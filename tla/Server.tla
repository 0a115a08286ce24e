------------------------------- MODULE Server -------------------------------
(***************************************************************************)
(* The two main programs.  The server is one thread: a coroutine for each    *)
(* connection reads a chunk of bytes from its socket, and between that read   *)
(* and the write of the answer it checks the chunk and calls the library      *)
(* without giving way.  A client sends a query and blocks in one recv.  TCP   *)
(* keeps the order of bytes, not the bounds of messages: a request and an     *)
(* answer are a number of pieces, and whoever reads gets any of those that    *)
(* have arrived, from the first on.                                         *)
(***************************************************************************)
EXTENDS Requests

CONSTANTS
  Client,
  Query,          \* the trees of the queries that each client types
  RequestPieces,  \* the pieces of a request
  RowsPieces,     \* the pieces of an answer with rows
  MaxAsked        \* bound: the queries of one run of each client

ASSUME PiecesAssumption == RequestPieces \in Nat \ {0} /\ RowsPieces \in Nat \ {0}

\* The client lives to send what it typed
ASSUME SentAssumption == \A c \in Client : \A q \in Query[c] : Writable(q)

VARIABLES
  running,     \* whether the server process runs
  relations,   \* the names of the relations in its file
  coroutine,   \* of each client: "reading", "writing" or "closed"
  answer,      \* what a coroutine that is writing has to write
  up, down,    \* the bytes on their way to the server and to the client
  client,      \* "typing", "waiting" or "gone"
  asked,       \* the queries that a client has typed in this run (history)
  told,        \* what it has printed for each of them (history)
  executed,    \* those that called the library, in order (history)
  whole        \* whether nothing was cut or joined so far (history)

sessions == <<coroutine, answer, up, down, client, asked, told, executed, whole>>
vars == <<running, relations, sessions>>

\* The rows of a select may be more than one recv returns
Count(text) == CASE text = "request" -> RequestPieces
                 [] text = "rows"    -> RowsPieces
                 [] OTHER            -> 1

Message(n, text) == [i \in 1 .. Count(text) |-> [of |-> n, text |-> text, piece |-> i]]

Rest(s, k) == SubSeq(s, k + 1, Len(s))

-----------------------------------------------------------------------------
(* The server *)

\* One whole request; anything else is not well-formed XML
IsRequest(chunk) == chunk = Message(chunk[1].of, "request")

\* The relations that a call takes from relation_get and does not check
Used(call) == CASE call.call \in {"INSERT", "SELECT", "UPDATE", "DELETE"} -> {call.relation}
                [] call.call = "JOIN" -> {call.left, call.right}
                [] OTHER -> {}

\* A null relation ends the process; so may the value of an update, the columns
\* of a join, and a request whose effect is undefined.
Crashes(call) == ~ Used(call) \subseteq relations
MayCrash(call) == Crashes(call) \/ call.call \in {"UPDATE", "JOIN", "undefined"}

die ==
  /\ running' = FALSE
  /\ coroutine' = [c \in Client |-> "closed"]
  /\ up' = [c \in Client |-> <<>>]

reply(c, n, text) ==
  /\ coroutine' = [coroutine EXCEPT ![c] = "writing"]
  /\ answer' = [answer EXCEPT ![c] = Message(n, text)]

refuse_silently(c, n) == UNCHANGED <<coroutine, answer, running, relations, executed>>

refuse(c, n) == reply(c, n, "unsupported") /\ UNCHANGED <<running, relations, executed>>

\* request_op has returned: the answer says success whatever the library did
execute(c, n, call) ==
  /\ ~ Crashes(call)
  /\ relations' = relations \cup (IF call.call = "CREATE" THEN {call.relation} ELSE {})
  /\ executed' = [executed EXCEPT ![c] = Append(@, n)]
  /\ reply(c, n, IF call.call \in {"SELECT", "JOIN"} THEN "rows" ELSE "done")
  /\ UNCHANGED running

\* The exception leaves the loop of client_connect_ack
close(c) ==
  /\ coroutine' = [coroutine EXCEPT ![c] = "closed"]
  /\ up' = [up EXCEPT ![c] = <<>>]
  /\ UNCHANGED <<running, relations, answer, executed>>

taken_not(c, k) == up' = up
taken(c, k) == up' = [up EXCEPT ![c] = Rest(@, k)]

process_request(c) ==
  /\ running /\ coroutine[c] = "reading"
  /\ \E k \in 1 .. Len(up[c]) :
       LET chunk == SubSeq(up[c], 1, k)
           n == Last(chunk).of IN
       /\ whole' = [whole EXCEPT ![c] = @ /\ IsRequest(chunk)]
       /\ IF ~ IsRequest(chunk) THEN taken(c, k) /\ refuse(c, n)
          ELSE LET call == Done(asked[c][n]) IN
               \/ call = Unsupported /\ taken(c, k) /\ refuse(c, n)
               \/ call = Throws /\ close(c)
               \/ call \notin {Unsupported, Throws} /\ taken(c, k) /\ execute(c, n, call)
               \/ MayCrash(call) /\ die /\ UNCHANGED <<relations, answer, executed>>
  /\ UNCHANGED <<down, client, asked, told>>

write_again(c) == down' = [down EXCEPT ![c] = @ \o answer[c] \o answer[c]]
write(c) == down' = [down EXCEPT ![c] = @ \o answer[c]]

async_write(c) ==
  /\ running /\ coroutine[c] = "writing"
  /\ write(c)
  /\ coroutine' = [coroutine EXCEPT ![c] = "reading"]
  /\ answer' = [answer EXCEPT ![c] = <<>>]
  /\ UNCHANGED <<running, relations, up, client, asked, told, executed, whole>>

\* The client has gone: the next read or write throws
end_of_file(c) ==
  /\ running /\ client[c] = "gone" /\ coroutine[c] # "closed"
  /\ coroutine[c] = "reading" => up[c] = <<>>
  /\ coroutine' = [coroutine EXCEPT ![c] = "closed"]
  /\ up' = [up EXCEPT ![c] = <<>>]
  /\ UNCHANGED <<running, relations, answer, down, client, asked, told, executed, whole>>

\* SIGINT or SIGTERM
stop ==
  /\ running /\ die
  /\ UNCHANGED <<relations, answer, down, client, asked, told, executed, whole>>

start_kept(arg) == relations' = IF arg = "existing" THEN relations ELSE {}

\* argv[2] == "existing" compares two addresses
start_file(arg) == relations' = {}

start(arg) ==
  /\ ~ running /\ running' = TRUE
  /\ start_file(arg)
  /\ UNCHANGED sessions

-----------------------------------------------------------------------------
(* A client *)

connect(c) ==
  /\ running /\ client[c] = "gone" /\ coroutine[c] = "closed"
  /\ coroutine' = [coroutine EXCEPT ![c] = "reading"]
  /\ client' = [client EXCEPT ![c] = "typing"]
  /\ down' = [down EXCEPT ![c] = <<>>]
  /\ answer' = [answer EXCEPT ![c] = <<>>]
  /\ asked' = [asked EXCEPT ![c] = <<>>]
  /\ told' = [told EXCEPT ![c] = <<>>]
  /\ executed' = [executed EXCEPT ![c] = <<>>]
  /\ whole' = [whole EXCEPT ![c] = TRUE]
  /\ UNCHANGED <<running, relations, up>>

ask(c) ==
  /\ client[c] = "typing" /\ Len(asked[c]) < MaxAsked[c]
  /\ \E q \in Query[c] : asked' = [asked EXCEPT ![c] = Append(@, q)]
  /\ up' = [up EXCEPT ![c] = IF coroutine[c] = "closed" THEN <<>>
                             ELSE @ \o Message(Len(asked[c]) + 1, "request")]
  /\ client' = [client EXCEPT ![c] = "waiting"]
  /\ UNCHANGED <<running, relations, coroutine, answer, down, told, executed, whole>>

print(c, text) ==
  /\ told' = [told EXCEPT ![c] = Append(@, text)]
  /\ client' = [client EXCEPT ![c] = "typing"]

recv(c) ==
  /\ client[c] = "waiting"
  /\ \E k \in 1 .. Len(down[c]) :
       LET text == SubSeq(down[c], 1, k) IN
       /\ print(c, text)
       /\ down' = [down EXCEPT ![c] = Rest(@, k)]
       /\ whole' = [whole EXCEPT ![c] = @ /\ text = Message(text[1].of, text[1].text)]
  /\ UNCHANGED <<running, relations, coroutine, answer, up, asked, executed>>

\* recv returns 0
recv_end(c) ==
  /\ client[c] = "waiting" /\ coroutine[c] = "closed" /\ down[c] = <<>>
  /\ print(c, <<>>)
  /\ UNCHANGED <<running, relations, coroutine, answer, up, down, asked, executed, whole>>

\* recv returns -1 or send raises SIGPIPE, the user ends the client, or a query
\* that yyparse refuses does
quit(c) ==
  /\ client[c] # "gone"
  /\ client' = [client EXCEPT ![c] = "gone"]
  /\ UNCHANGED <<running, relations, coroutine, answer, up, down, asked, told, executed, whole>>

-----------------------------------------------------------------------------

Init ==
  /\ running = TRUE /\ relations = {}
  /\ coroutine = [c \in Client |-> "closed"] /\ client = [c \in Client |-> "gone"]
  /\ answer = [c \in Client |-> <<>>] /\ up = answer /\ down = answer
  /\ asked = answer /\ told = answer /\ executed = answer
  /\ whole = [c \in Client |-> TRUE]

Next ==
  \/ stop
  \/ \E arg \in {"existing", "new"} : start(arg)
  \/ \E c \in Client : \/ process_request(c) \/ async_write(c) \/ end_of_file(c)
                       \/ connect(c) \/ ask(c) \/ recv(c) \/ recv_end(c) \/ quit(c)

\* The io_context runs every handler that is ready, and the kernel delivers
Fairness == \A c \in Client : /\ WF_vars(process_request(c)) /\ WF_vars(async_write(c))
                              /\ WF_vars(recv(c)) /\ WF_vars(recv_end(c))

Spec == Init /\ [][Next]_vars /\ Fairness

-----------------------------------------------------------------------------

\* However requests are cut and joined, the requests of a client that reach the
\* library do so in the order they were typed, each once.
OrderInv ==
  \A c \in Client : \A i \in DOMAIN executed[c] :
    /\ executed[c][i] \in DOMAIN asked[c]
    /\ i > 1 => executed[c][i - 1] < executed[c][i]

\* What a client prints for its n-th query is the answer to that query
Told(c, n) ==
  told[c][n] = <<>> \/ \E text \in {"done", "rows", "unsupported"} : told[c][n] = Message(n, text)

\* As long as nothing was cut, each client prints the answers to its own queries,
\* one each, and success only for what was executed: a relation that it was told
\* is created is there while its connection lasts, unless the code leaves undefined
\* what its columns are.
AnswersInv ==
  \A c \in Client : whole[c] =>
    \A n \in DOMAIN told[c] :
      /\ Told(c, n)
      /\ told[c][n] \in {Message(n, "done"), Message(n, "rows")} =>
           /\ n \in ToSet(executed[c])
           /\ (/\ asked[c][n].type = "CREATE_NODE" /\ Done(asked[c][n]) # Undefined
               /\ coroutine[c] # "closed") => asked[c][n].name \in relations

\* A client that waits is told something or ends, whatever it sent and whatever
\* becomes of the server.
Answered == \A c \in Client : client[c] = "waiting" ~> client[c] # "waiting"

\* The file is created "if there is none"
ExistingKept == [][start("existing") => relations' = relations]_vars
=============================================================================
