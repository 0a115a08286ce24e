---------------------------- MODULE ServerProofs ----------------------------
(***************************************************************************)
(* What the server executes and what its clients are told, proved for any    *)
(* clients and queries and however many pieces a message has.                *)
(***************************************************************************)
EXTENDS Server, SequenceTheorems, TLAPS

-----------------------------------------------------------------------------
(* The inductive invariant *)

Typed == UNION {Query[c] : c \in Client}

Answers == {"done", "rows", "unsupported"}

Piece == [of : Nat, text : Answers \cup {"request"}, piece : Nat \ {0}]

ServerTypeOK ==
  /\ running \in BOOLEAN
  /\ coroutine \in [Client -> {"reading", "writing", "closed"}]
  /\ client \in [Client -> {"typing", "waiting", "gone"}]
  /\ up \in [Client -> Seq(Piece)]
  /\ down \in [Client -> Seq(Piece)]
  /\ answer \in [Client -> Seq(Piece)]
  /\ asked \in [Client -> Seq(Typed)]
  /\ told \in [Client -> Seq(Seq(Piece))]
  /\ executed \in [Client -> Seq(Nat)]
  /\ whole \in [Client -> BOOLEAN]

\* The pieces on their way come from requests that were typed, in the order in
\* which they were: by query, and the pieces of a query one after the other.
UpInOrder(requests, queries) ==
  /\ \A i \in 1 .. Len(requests) :
       requests[i].of \in 1 .. Len(queries) /\ requests[i].piece \in 1 .. RequestPieces
  /\ \A i, j \in 1 .. Len(requests) : i < j =>
       \/ requests[i].of < requests[j].of
       \/ requests[i].of = requests[j].of /\ requests[i].piece < requests[j].piece

\* What has been executed was typed and is in order, and nothing of it is still
\* on its way.
DoneInOrder(numbers, requests, queries) ==
  /\ \A i \in 1 .. Len(numbers) :
       /\ numbers[i] \in 1 .. Len(queries)
       /\ \A j \in 1 .. Len(requests) : numbers[i] < requests[j].of
  /\ \A i, j \in 1 .. Len(numbers) : i < j => numbers[i] < numbers[j]

\* Nothing reaches a coroutine that is closed, and none runs without the process
ClosedInv ==
  /\ \A c \in Client : coroutine[c] = "closed" => up[c] = <<>>
  /\ ~ running => \A c \in Client : coroutine[c] = "closed"

OrderIInv ==
  /\ ServerTypeOK
  /\ ClosedInv
  /\ \A c \in Client : /\ UpInOrder(up[c], asked[c])
                       /\ DoneInOrder(executed[c], up[c], asked[c])

\* What may be said of the n-th query of a client: success only for one that has
\* been executed and, of a relation to create, while the connection lasts, only
\* when it is there.
Created(c, n) ==
  (/\ asked[c][n].type = "CREATE_NODE" /\ Done(asked[c][n]) # Undefined
   /\ coroutine[c] # "closed") => asked[c][n].name \in relations

Earned(c, n, text) ==
  text \in {"done", "rows"} => n \in ToSet(executed[c]) /\ Created(c, n)

\* Where the last query of a client that waits is: on its way, executed, answered
\* or lost.
OnItsWay(c, n) == coroutine[c] = "reading" /\ up[c] = Message(n, "request") /\ down[c] = <<>>

InAnswer(c, n) ==
  /\ coroutine[c] = "writing" /\ up[c] = <<>> /\ down[c] = <<>>
  /\ \E text \in Answers : answer[c] = Message(n, text) /\ Earned(c, n, text)

Answering(c, n) ==
  /\ coroutine[c] # "writing" /\ up[c] = <<>>
  /\ \E text \in Answers : down[c] = Message(n, text) /\ Earned(c, n, text)

Lost(c) == coroutine[c] = "closed" /\ up[c] = <<>> /\ down[c] = <<>>

Idle(c) == coroutine[c] # "writing" /\ up[c] = <<>> /\ down[c] = <<>>

ToldRight(c) ==
  \A n \in 1 .. Len(told[c]) :
    \/ told[c][n] = <<>>
    \/ \E text \in Answers : told[c][n] = Message(n, text) /\ Earned(c, n, text)

ExchangeInv(c) ==
  /\ ToldRight(c)
  /\ Len(told[c]) <= Len(asked[c])
  /\ client[c] = "typing" => Idle(c) /\ Len(asked[c]) = Len(told[c])
  /\ client[c] = "waiting" =>
       /\ Len(asked[c]) = Len(told[c]) + 1
       /\ \/ OnItsWay(c, Len(asked[c])) \/ InAnswer(c, Len(asked[c]))
          \/ Answering(c, Len(asked[c])) \/ Lost(c)

AnswersIInv == \A c \in Client : whole[c] => ExchangeInv(c)
-----------------------------------------------------------------------------
(* Messages and sequences *)

LEMMA Counts ==
  /\ Count("request") = RequestPieces /\ Count("rows") = RowsPieces
  /\ \A text : Count(text) \in Nat \ {0}
  <1>1. Count("request") = RequestPieces /\ Count("rows") = RowsPieces
    BY Zenon DEF Count
  <1>2. \A text : Count(text) \in {RequestPieces, RowsPieces, 1}
    BY Zenon DEF Count
  <1> QED
    BY <1>1, <1>2, PiecesAssumption

\* A message is its pieces, from the first on
LEMMA Messages ==
  ASSUME NEW n \in Nat, NEW text \in Answers \cup {"request"}
  PROVE  /\ Message(n, text) \in Seq(Piece)
         /\ Len(Message(n, text)) = Count(text)
         /\ \A i \in 1 .. Count(text) :
              Message(n, text)[i] = [of |-> n, text |-> text, piece |-> i]
  <1>1. PICK k \in Nat : k = Count(text)
    BY Counts
  <1>2. Message(n, text) = [i \in 1 .. k |-> [of |-> n, text |-> text, piece |-> i]]
    BY <1>1 DEF Message
  <1>3. \A i \in 1 .. k : [of |-> n, text |-> text, piece |-> i] \in Piece
    BY DEF Piece
  <1>4. [i \in 1 .. k |-> [of |-> n, text |-> text, piece |-> i]] \in [1 .. k -> Piece]
    BY <1>3
  <1>5. Message(n, text) \in Seq(Piece)
    BY <1>2, <1>4, SeqDef
  <1>6. Len(Message(n, text)) = k
    BY <1>2, <1>5, LenProperties
  <1> QED
    BY <1>1, <1>2, <1>5, <1>6

LEMMA Rests ==
  ASSUME NEW S, NEW s \in Seq(S), NEW k \in 1 .. Len(s)
  PROVE  /\ Rest(s, k) \in Seq(S)
         /\ Len(Rest(s, k)) = Len(s) - k
         /\ \A i \in 1 .. Len(Rest(s, k)) : k + i \in 1 .. Len(s) /\ Rest(s, k)[i] = s[k + i]
  <1>1. Len(s) \in Nat /\ \A i \in k + 1 .. Len(s) : s[i] \in S
    BY ElementOfSeq, LenProperties
  <1>2. /\ SubSeq(s, k + 1, Len(s)) \in Seq(S)
        /\ Len(SubSeq(s, k + 1, Len(s))) = IF k + 1 <= Len(s) THEN Len(s) - (k + 1) + 1 ELSE 0
        /\ \A i \in 1 .. Len(s) - (k + 1) + 1 : SubSeq(s, k + 1, Len(s))[i] = s[(k + 1) + i - 1]
    BY <1>1, SubSeqProperties
  <1> QED
    BY <1>1, <1>2 DEF Rest

LEMMA Chunks ==
  ASSUME NEW S, NEW s \in Seq(S), NEW k \in 1 .. Len(s)
  PROVE  /\ SubSeq(s, 1, k) \in Seq(S)
         /\ Len(SubSeq(s, 1, k)) = k
         /\ \A i \in 1 .. k : SubSeq(s, 1, k)[i] = s[i]
  <1>1. Len(s) \in Nat /\ \A i \in 1 .. k : s[i] \in S
    BY ElementOfSeq, LenProperties
  <1>2. /\ SubSeq(s, 1, k) \in Seq(S)
        /\ Len(SubSeq(s, 1, k)) = IF 1 <= k THEN k - 1 + 1 ELSE 0
        /\ \A i \in 1 .. k - 1 + 1 : SubSeq(s, 1, k)[i] = s[1 + i - 1]
    BY <1>1, SubSeqProperties
  <1> QED
    BY <1>1, <1>2

\* A chunk that is a whole request is all of the message of its last piece
LEMMA WholeRequest ==
  ASSUME NEW s \in Seq(Piece), NEW k \in 1 .. Len(s), IsRequest(SubSeq(s, 1, k))
  PROVE  /\ Last(SubSeq(s, 1, k)) = s[k]
         /\ s[k].of \in Nat
         /\ SubSeq(s, 1, k) = Message(s[k].of, "request")
         /\ k = RequestPieces /\ s[k].piece = RequestPieces
  <1> DEFINE chunk == SubSeq(s, 1, k)
  <1>1. /\ chunk \in Seq(Piece) /\ Len(chunk) = k
        /\ \A i \in 1 .. k : chunk[i] = s[i]
    BY Chunks
  <1>2. s[1] \in Piece /\ s[k] \in Piece
    BY ElementOfSeq, LenProperties
  <1>3. PICK n \in Nat : n = s[1].of
    BY <1>2 DEF Piece
  <1>4. chunk = Message(n, "request")
    BY <1>1, <1>3 DEF IsRequest
  <1>5. k = RequestPieces /\ chunk[k] = [of |-> n, text |-> "request", piece |-> k]
    BY <1>1, <1>3, <1>4, Messages, Counts
  <1> QED
    BY <1>1, <1>2, <1>4, <1>5 DEF Last

-----------------------------------------------------------------------------
(* The server keeps the order in which requests were typed *)

\* A client types a query: its pieces come behind what is on its way
LEMMA TypedInOrder ==
  ASSUME NEW r \in Seq(Piece), NEW q \in Seq(Typed), NEW x \in Typed, NEW e \in Seq(Nat),
         UpInOrder(r, q), DoneInOrder(e, r, q)
  PROVE  /\ UpInOrder(r \o Message(Len(q) + 1, "request"), Append(q, x))
         /\ DoneInOrder(e, r \o Message(Len(q) + 1, "request"), Append(q, x))
  <1>1. PICK n \in Nat : n = Len(q) /\ Len(Append(q, x)) = n + 1
    BY AppendProperties, LenProperties
  <1>2. PICK m \in Seq(Piece) :
          /\ m = Message(n + 1, "request") /\ Len(m) = RequestPieces
          /\ \A i \in 1 .. RequestPieces : m[i] = [of |-> n + 1, text |-> "request", piece |-> i]
    BY <1>1, Messages, Counts
  <1>3. /\ Len(r) \in Nat /\ Len(e) \in Nat /\ Len(r \o m) = Len(r) + RequestPieces
        /\ \A i \in 1 .. Len(r) + RequestPieces :
             (r \o m)[i] = IF i <= Len(r) THEN r[i] ELSE m[i - Len(r)]
    BY <1>2, ConcatProperties, LenProperties
  <1>4. \A i \in 1 .. Len(r) + RequestPieces :
          \/ i \in 1 .. Len(r) /\ (r \o m)[i] = r[i]
          \/ /\ i \notin 1 .. Len(r) /\ i - Len(r) \in 1 .. RequestPieces
             /\ (r \o m)[i].of = n + 1 /\ (r \o m)[i].piece = i - Len(r)
    <2>1. PICK l \in Nat, p \in Nat : l = Len(r) /\ p = RequestPieces
      BY <1>3, PiecesAssumption
    <2> SUFFICES ASSUME NEW i \in 1 .. l + p, ~ i <= l
                 PROVE  /\ i \notin 1 .. l /\ i - l \in 1 .. p
                        /\ (r \o m)[i].of = n + 1 /\ (r \o m)[i].piece = i - l
      BY <1>3, <2>1
    <2>2. i - l \in 1 .. p /\ i \notin 1 .. l
      OBVIOUS
    <2>3. (r \o m)[i] = m[i - l]
      BY <1>3, <2>1
    <2>4. m[i - l] = [of |-> n + 1, text |-> "request", piece |-> i - l]
      BY <1>2, <2>1, <2>2
    <2> QED
      BY <2>2, <2>3, <2>4
  <1>5. UpInOrder(r \o m, Append(q, x))
    <2>1. \A i \in 1 .. Len(r) : r[i].of \in 1 .. n /\ r[i].piece \in 1 .. RequestPieces
      BY <1>1 DEF UpInOrder
    <2>2. \A i \in 1 .. Len(r \o m) :
            (r \o m)[i].of \in 1 .. n + 1 /\ (r \o m)[i].piece \in 1 .. RequestPieces
      BY <1>3, <1>4, <2>1
    <2>3. \A i, j \in 1 .. Len(r \o m) : i < j =>
            \/ (r \o m)[i].of < (r \o m)[j].of
            \/ (r \o m)[i].of = (r \o m)[j].of /\ (r \o m)[i].piece < (r \o m)[j].piece
      <3> SUFFICES ASSUME NEW i \in 1 .. Len(r \o m), NEW j \in 1 .. Len(r \o m), i < j
                   PROVE  \/ (r \o m)[i].of < (r \o m)[j].of
                          \/ /\ (r \o m)[i].of = (r \o m)[j].of
                             /\ (r \o m)[i].piece < (r \o m)[j].piece
        OBVIOUS
      <3>1. CASE j \in 1 .. Len(r)
        BY <3>1, <1>3, <1>4 DEF UpInOrder
      <3>2. CASE i \in 1 .. Len(r) /\ j \notin 1 .. Len(r)
        BY <3>2, <1>3, <1>4, <2>1
      <3>3. CASE i \notin 1 .. Len(r) /\ j \notin 1 .. Len(r)
        BY <3>3, <1>3, <1>4
      <3> QED
        BY <3>1, <3>2, <3>3, <1>3
    <2> QED
      BY <1>1, <2>2, <2>3 DEF UpInOrder
  <1>6. DoneInOrder(e, r \o m, Append(q, x))
    <2>1. \A i \in 1 .. Len(e) : e[i] \in 1 .. n /\ \A j \in 1 .. Len(r) : e[i] < r[j].of
      BY <1>1 DEF DoneInOrder
    <2>2. \A i \in 1 .. Len(e) : \A j \in 1 .. Len(r \o m) : e[i] < (r \o m)[j].of
      BY <1>3, <1>4, <2>1
    <2>3. \A i \in 1 .. Len(e) : e[i] \in 1 .. n + 1
      BY <1>1, <2>1
    <2> QED
      BY <1>1, <2>2, <2>3 DEF DoneInOrder
  <1> QED
    BY <1>1, <1>2, <1>5, <1>6

\* The connection has ended: nothing is on its way
LEMMA ClosedInOrder ==
  ASSUME NEW q \in Seq(Typed), NEW e \in Seq(Nat), NEW r \in Seq(Piece), DoneInOrder(e, r, q)
  PROVE  UpInOrder(<<>>, q) /\ DoneInOrder(e, <<>>, q)
  BY EmptySeq DEF UpInOrder, DoneInOrder

\* A chunk has been read
LEMMA ReadInOrder ==
  ASSUME NEW r \in Seq(Piece), NEW q \in Seq(Typed), NEW e \in Seq(Nat),
         UpInOrder(r, q), DoneInOrder(e, r, q), NEW k \in 1 .. Len(r)
  PROVE  UpInOrder(Rest(r, k), q) /\ DoneInOrder(e, Rest(r, k), q)
  <1>1. PICK s : s = Rest(r, k)
    OBVIOUS
  <1>2. /\ Len(r) \in Nat /\ Len(s) = Len(r) - k
        /\ \A i \in 1 .. Len(s) : k + i \in 1 .. Len(r) /\ s[i] = r[k + i]
    BY <1>1, Rests, LenProperties
  <1>3. UpInOrder(s, q)
    <2>1. \A i \in 1 .. Len(s) :
            s[i].of \in 1 .. Len(q) /\ s[i].piece \in 1 .. RequestPieces
      BY <1>2 DEF UpInOrder
    <2>2. \A i, j \in 1 .. Len(s) : i < j =>
            \/ s[i].of < s[j].of
            \/ s[i].of = s[j].of /\ s[i].piece < s[j].piece
      <3> SUFFICES ASSUME NEW i \in 1 .. Len(s), NEW j \in 1 .. Len(s), i < j
                   PROVE  \/ s[i].of < s[j].of
                          \/ s[i].of = s[j].of /\ s[i].piece < s[j].piece
        OBVIOUS
      <3>1. k + i \in 1 .. Len(r) /\ k + j \in 1 .. Len(r) /\ k + i < k + j
        BY <1>2
      <3>2. \/ r[k + i].of < r[k + j].of
            \/ r[k + i].of = r[k + j].of /\ r[k + i].piece < r[k + j].piece
        BY <3>1 DEF UpInOrder
      <3> QED
        BY <3>2, <1>2
    <2> QED
      BY <2>1, <2>2 DEF UpInOrder
  <1>4. DoneInOrder(e, s, q)
    BY <1>2 DEF DoneInOrder
  <1> QED
    BY <1>1, <1>3, <1>4

\* The request that was read is executed: what is still on its way is of later
\* queries, for nothing behind its last piece is of the same one.
LEMMA ExecutedInOrder ==
  ASSUME NEW r \in Seq(Piece), NEW q \in Seq(Typed), NEW e \in Seq(Nat),
         UpInOrder(r, q), DoneInOrder(e, r, q),
         NEW k \in 1 .. Len(r), r[k].piece = RequestPieces
  PROVE  DoneInOrder(Append(e, r[k].of), Rest(r, k), q)
  <1>1. PICK s : s = Rest(r, k)
    OBVIOUS
  <1>2. /\ Len(r) \in Nat /\ Len(e) \in Nat /\ Len(s) = Len(r) - k
        /\ \A i \in 1 .. Len(s) : k + i \in 1 .. Len(r) /\ s[i] = r[k + i]
    BY <1>1, Rests, LenProperties
  <1>3. PICK n \in 1 .. Len(q) : n = r[k].of
    BY DEF UpInOrder
  <1>4. n \in Nat /\ Len(q) \in Nat
    BY LenProperties
  <1>5. PICK f : f = Append(e, n)
    OBVIOUS
  <1>6. /\ Len(f) = Len(e) + 1 /\ f[Len(e) + 1] = n
        /\ \A i \in 1 .. Len(e) : f[i] = e[i]
    BY <1>4, <1>5, AppendProperties
  <1>7. \A j \in 1 .. Len(s) : n < s[j].of
    <2> SUFFICES ASSUME NEW j \in 1 .. Len(s)
                 PROVE  n < r[k + j].of
      BY <1>2
    <2>1. k + j \in 1 .. Len(r) /\ k < k + j
      BY <1>2
    <2>2. r[k + j].piece \in 1 .. RequestPieces
      BY <2>1 DEF UpInOrder
    <2>3. ~ (r[k].piece < r[k + j].piece)
      BY <2>2, PiecesAssumption
    <2> QED
      BY <2>1, <2>3, <1>3 DEF UpInOrder
  <1>8. \A i \in 1 .. Len(e) : \A j \in 1 .. Len(s) : e[i] < s[j].of
    BY <1>2 DEF DoneInOrder
  <1>9. \A i \in 1 .. Len(e) : e[i] \in 1 .. Len(q) /\ e[i] < n
    BY <1>3 DEF DoneInOrder
  <1>10. \A i, j \in 1 .. Len(f) : i < j => f[i] < f[j]
    <2>1. \A i, j \in 1 .. Len(e) : i < j => e[i] < e[j]
      BY DEF DoneInOrder
    <2> SUFFICES ASSUME NEW i \in 1 .. Len(f), NEW j \in 1 .. Len(f), i < j
                 PROVE  f[i] < f[j]
      OBVIOUS
    <2>2. i \in 1 .. Len(e) /\ (j \in 1 .. Len(e) \/ j = Len(e) + 1)
      <3>1. PICK l \in Nat : l = Len(e)
        BY <1>2
      <3>2. i \in 1 .. l + 1 /\ j \in 1 .. l + 1
        BY <1>6, <3>1
      <3>3. i \in 1 .. l /\ (j \in 1 .. l \/ j = l + 1)
        BY <3>2
      <3> QED
        BY <3>1, <3>3
    <2> QED
      BY <2>1, <2>2, <1>6, <1>9
  <1>11. \A i \in 1 .. Len(f) : f[i] \in 1 .. Len(q) /\ \A j \in 1 .. Len(s) : f[i] < s[j].of
    <2> SUFFICES ASSUME NEW i \in 1 .. Len(f)
                 PROVE  f[i] \in 1 .. Len(q) /\ \A j \in 1 .. Len(s) : f[i] < s[j].of
      OBVIOUS
    <2>1. i \in 1 .. Len(e) \/ i = Len(e) + 1
      BY <1>2, <1>6
    <2> QED
      BY <2>1, <1>3, <1>6, <1>7, <1>8, <1>9
  <1>12. DoneInOrder(f, s, q)
    BY <1>10, <1>11 DEF DoneInOrder
  <1> QED
    BY <1>1, <1>3, <1>5, <1>12
-----------------------------------------------------------------------------
(* What process_request may do with the first k pieces: refuse them, end the
   connection, execute the request that they are, or take the process down *)

Chunk(c, k) == SubSeq(up[c], 1, k)
Number(c, k) == Last(Chunk(c, k)).of

Refuses(c, k) == taken(c, k) /\ refuse(c, Number(c, k))

Executes(c, k) ==
  /\ IsRequest(Chunk(c, k)) /\ taken(c, k)
  /\ \E call : /\ call = Done(asked[c][Number(c, k)]) /\ call # Unsupported
               /\ execute(c, Number(c, k), call)

TakesDown == die /\ UNCHANGED <<relations, answer, executed>>

LEMMA ProcessCases ==
  ASSUME NEW c \in Client, process_request(c)
  PROVE  \E k \in 1 .. Len(up[c]) :
           /\ whole' = [whole EXCEPT ![c] = @ /\ IsRequest(Chunk(c, k))]
           /\ Refuses(c, k) \/ close(c) \/ Executes(c, k) \/ TakesDown
  <1>1. PICK k \in 1 .. Len(up[c]) :
          /\ whole' = [whole EXCEPT ![c] = @ /\ IsRequest(Chunk(c, k))]
          /\ IF ~ IsRequest(Chunk(c, k)) THEN taken(c, k) /\ refuse(c, Number(c, k))
             ELSE LET call == Done(asked[c][Number(c, k)]) IN
                  \/ call = Unsupported /\ taken(c, k) /\ refuse(c, Number(c, k))
                  \/ call = Throws /\ close(c)
                  \/ /\ call \notin {Unsupported, Throws} /\ taken(c, k)
                     /\ execute(c, Number(c, k), call)
                  \/ MayCrash(call) /\ die /\ UNCHANGED <<relations, answer, executed>>
    BY Zenon DEF process_request, Chunk, Number
  <1>2. CASE ~ IsRequest(Chunk(c, k))
    BY <1>1, <1>2, Zenon DEF Refuses
  <1>3. CASE IsRequest(Chunk(c, k))
    <2>1. PICK call : call = Done(asked[c][Number(c, k)])
      OBVIOUS
    <2>2. \/ taken(c, k) /\ refuse(c, Number(c, k))
          \/ close(c)
          \/ call # Unsupported /\ taken(c, k) /\ execute(c, Number(c, k), call)
          \/ die /\ UNCHANGED <<relations, answer, executed>>
      BY <1>1, <1>3, <2>1
    <2> QED
      BY <1>1, <1>3, <2>1, <2>2, Zenon DEF Refuses, Executes, TakesDown
  <1> QED
    BY <1>2, <1>3

LEMMA NumberIs ==
  ASSUME ServerTypeOK, NEW c \in Client, NEW k \in 1 .. Len(up[c])
  PROVE  Number(c, k) = up[c][k].of /\ Number(c, k) \in Nat
  <1>1. up[c] \in Seq(Piece)
    BY DEF ServerTypeOK
  <1>2. /\ Len(Chunk(c, k)) = k
        /\ \A i \in 1 .. k : Chunk(c, k)[i] = up[c][i]
    BY <1>1, Chunks DEF Chunk
  <1>3. up[c][k] \in Piece
    BY <1>1, ElementOfSeq
  <1>4. k \in 1 .. k
    BY <1>1, LenProperties
  <1> QED
    BY <1>2, <1>3, <1>4 DEF Number, Last, Piece

LEMMA ProcessType ==
  ASSUME ServerTypeOK, NEW c \in Client, process_request(c)
  PROVE  ServerTypeOK'
  <1>1. PICK k \in 1 .. Len(up[c]) :
           /\ whole' = [whole EXCEPT ![c] = @ /\ IsRequest(Chunk(c, k))]
           /\ Refuses(c, k) \/ close(c) \/ Executes(c, k) \/ TakesDown
    BY ProcessCases
  <1>2. UNCHANGED <<down, client, asked, told>>
    BY DEF process_request
  <1>3. Number(c, k) \in Nat
    BY NumberIs
  <1>4. Rest(up[c], k) \in Seq(Piece) /\ <<>> \in Seq(Piece)
    BY Rests, EmptySeq DEF ServerTypeOK
  <1>5. \A text \in Answers : Message(Number(c, k), text) \in Seq(Piece)
    BY <1>3, Messages
  <1>6. whole' \in [Client -> BOOLEAN]
    BY <1>1 DEF ServerTypeOK
  <1>7. CASE Refuses(c, k)
    BY <1>2, <1>4, <1>5, <1>6, <1>7 DEF ServerTypeOK, Refuses, taken, refuse, reply, Answers
  <1>8. CASE close(c)
    BY <1>2, <1>4, <1>6, <1>8 DEF ServerTypeOK, close
  <1>9. CASE Executes(c, k)
    <2>1. PICK text \in Answers : reply(c, Number(c, k), text)
      BY <1>9 DEF Executes, execute, Answers
    <2>2. Append(executed[c], Number(c, k)) \in Seq(Nat)
      BY <1>3, AppendProperties DEF ServerTypeOK
    <2>3. /\ taken(c, k) /\ UNCHANGED running
          /\ executed' = [executed EXCEPT ![c] = Append(@, Number(c, k))]
      BY <1>9 DEF Executes, execute
    <2> QED
      BY <2>1, <2>2, <2>3, <1>2, <1>4, <1>5, <1>6 DEF ServerTypeOK, taken, reply
  <1>10. CASE TakesDown
    BY <1>2, <1>4, <1>6, <1>10 DEF ServerTypeOK, TakesDown, die
  <1> QED
    BY <1>1, <1>7, <1>8, <1>9, <1>10

LEMMA NextType ==
  ASSUME ServerTypeOK, [Next]_vars
  PROVE  ServerTypeOK'
  <1> USE DEF ServerTypeOK
  <1>1. <<>> \in Seq(Piece) /\ <<>> \in Seq(Typed) /\ <<>> \in Seq(Seq(Piece)) /\ <<>> \in Seq(Nat)
    BY EmptySeq
  <1>2. CASE stop
    BY <1>1, <1>2 DEF stop, die
  <1>3. ASSUME NEW arg \in {"existing", "new"}, start(arg)
        PROVE  ServerTypeOK'
    BY <1>3 DEF start, sessions
  <1>4. ASSUME NEW c \in Client, async_write(c)
        PROVE  ServerTypeOK'
    <2>1. down[c] \o answer[c] \in Seq(Piece)
      BY ConcatProperties
    <2> QED
      BY <1>1, <1>4, <2>1 DEF async_write, write
  <1>5. ASSUME NEW c \in Client, end_of_file(c)
        PROVE  ServerTypeOK'
    BY <1>1, <1>5 DEF end_of_file
  <1>6. ASSUME NEW c \in Client, connect(c)
        PROVE  ServerTypeOK'
    BY <1>1, <1>6 DEF connect
  <1>7. ASSUME NEW c \in Client, ask(c)
        PROVE  ServerTypeOK'
    <2>1. PICK q \in Query[c] : asked' = [asked EXCEPT ![c] = Append(@, q)]
      BY <1>7 DEF ask
    <2>2. Append(asked[c], q) \in Seq(Typed)
      <3>1. q \in Typed
        BY DEF Typed
      <3> QED
        BY <3>1, AppendProperties
    <2>3. Len(asked[c]) + 1 \in Nat
      BY LenProperties
    <2>4. up[c] \o Message(Len(asked[c]) + 1, "request") \in Seq(Piece)
      BY <2>3, Messages, ConcatProperties
    <2> QED
      BY <1>1, <1>7, <2>1, <2>2, <2>4 DEF ask
  <1>8. ASSUME NEW c \in Client, recv(c)
        PROVE  ServerTypeOK'
    <2>1. PICK k, s :
            /\ k \in 1 .. Len(down[c])
            /\ s = SubSeq(down[c], 1, k) /\ print(c, s)
            /\ down' = [down EXCEPT ![c] = Rest(@, k)]
            /\ whole' = [whole EXCEPT ![c] = @ /\ s = Message(s[1].of, s[1].text)]
      BY <1>8 DEF recv
    <2>2. s \in Seq(Piece) /\ Rest(down[c], k) \in Seq(Piece)
      BY <2>1, Chunks, Rests
    <2>3. Append(told[c], s) \in Seq(Seq(Piece))
      BY <2>2, AppendProperties
    <2> QED
      BY <1>8, <2>1, <2>2, <2>3 DEF recv, print
  <1>9. ASSUME NEW c \in Client, recv_end(c)
        PROVE  ServerTypeOK'
    <2>1. Append(told[c], <<>>) \in Seq(Seq(Piece))
      BY <1>1, AppendProperties
    <2> QED
      BY <1>9, <2>1 DEF recv_end, print
  <1>10. ASSUME NEW c \in Client, quit(c)
         PROVE  ServerTypeOK'
    BY <1>10 DEF quit
  <1>11. CASE UNCHANGED vars
    BY <1>11 DEF vars, sessions
  <1> QED
    BY <1>2, <1>3, <1>4, <1>5, <1>6, <1>7, <1>8, <1>9, <1>10, <1>11, ProcessType DEF Next
-----------------------------------------------------------------------------

LEMMA ProcessInOrder ==
  ASSUME OrderIInv, NEW c \in Client, process_request(c)
  PROVE  /\ ClosedInv'
         /\ \A d \in Client : /\ UpInOrder(up[d], asked[d])'
                             /\ DoneInOrder(executed[d], up[d], asked[d])'
  <1>1. PICK k \in 1 .. Len(up[c]) :
           Refuses(c, k) \/ close(c) \/ Executes(c, k) \/ TakesDown
    BY ProcessCases
  <1>2. running /\ coroutine[c] = "reading" /\ asked' = asked
    BY DEF process_request
  <1>3. /\ ServerTypeOK /\ ClosedInv
        /\ \A d \in Client : /\ UpInOrder(up[d], asked[d]) /\ DoneInOrder(executed[d], up[d], asked[d])
                            /\ up[d] \in Seq(Piece) /\ asked[d] \in Seq(Typed)
                            /\ executed[d] \in Seq(Nat)
    BY DEF OrderIInv, ServerTypeOK
  <1>4. /\ UpInOrder(Rest(up[c], k), asked[c])
        /\ DoneInOrder(executed[c], Rest(up[c], k), asked[c])
    BY <1>3, ReadInOrder
  <1>5. \A d \in Client : UpInOrder(<<>>, asked[d]) /\ DoneInOrder(executed[d], <<>>, asked[d])
    BY <1>3, ClosedInOrder
  <1>6. CASE Refuses(c, k)
    <2>1. /\ up' = [up EXCEPT ![c] = Rest(@, k)] /\ executed' = executed /\ running' = running
          /\ coroutine' = [coroutine EXCEPT ![c] = "writing"]
      BY <1>6 DEF Refuses, taken, refuse, reply
    <2> QED
      BY <2>1, <1>2, <1>3, <1>4 DEF ServerTypeOK, ClosedInv
  <1>7. CASE close(c)
    BY <1>7, <1>2, <1>3, <1>5 DEF ServerTypeOK, ClosedInv, close
  <1>8. CASE Executes(c, k)
    <2>1. /\ up' = [up EXCEPT ![c] = Rest(@, k)] /\ running' = running
          /\ executed' = [executed EXCEPT ![c] = Append(@, Number(c, k))]
          /\ coroutine' = [coroutine EXCEPT ![c] = "writing"]
      BY <1>8 DEF Executes, taken, execute, reply
    <2>2. up[c][k].piece = RequestPieces
      BY <1>3, <1>8, WholeRequest DEF Executes, Chunk
    <2>3. DoneInOrder(Append(executed[c], up[c][k].of), Rest(up[c], k), asked[c])
      BY <2>2, <1>3, ExecutedInOrder
    <2>4. Number(c, k) = up[c][k].of
      BY <1>3, NumberIs
    <2> QED
      BY <2>1, <2>3, <2>4, <1>2, <1>3, <1>4 DEF ServerTypeOK, ClosedInv
  <1>9. CASE TakesDown
    BY <1>9, <1>2, <1>3, <1>5 DEF ServerTypeOK, ClosedInv, TakesDown, die
  <1> QED
    BY <1>1, <1>6, <1>7, <1>8, <1>9

LEMMA NextOrderIInv ==
  ASSUME OrderIInv, [Next]_vars
  PROVE  OrderIInv'
  <1> DEFINE Right == /\ ClosedInv
                      /\ \A d \in Client : /\ UpInOrder(up[d], asked[d])
                                          /\ DoneInOrder(executed[d], up[d], asked[d])
  <1>1. /\ ServerTypeOK /\ ClosedInv
        /\ \A d \in Client : /\ UpInOrder(up[d], asked[d]) /\ DoneInOrder(executed[d], up[d], asked[d])
                            /\ up[d] \in Seq(Piece) /\ asked[d] \in Seq(Typed)
                            /\ executed[d] \in Seq(Nat)
    BY DEF OrderIInv, ServerTypeOK
  <1>2. \A d \in Client : UpInOrder(<<>>, asked[d]) /\ DoneInOrder(executed[d], <<>>, asked[d])
    BY <1>1, ClosedInOrder
  <1>3. ASSUME stop
        PROVE  Right'
    BY <1>1, <1>2, <1>3 DEF ServerTypeOK, ClosedInv, stop, die
  <1>4. ASSUME NEW arg \in {"existing", "new"}, start(arg)
        PROVE  Right'
    BY <1>1, <1>4 DEF ClosedInv, start, sessions
  <1>5. ASSUME NEW c \in Client, async_write(c)
        PROVE  Right'
    BY <1>1, <1>5 DEF ServerTypeOK, ClosedInv, async_write
  <1>6. ASSUME NEW c \in Client, end_of_file(c)
        PROVE  Right'
    BY <1>1, <1>2, <1>6 DEF ServerTypeOK, ClosedInv, end_of_file
  <1>7. ASSUME NEW c \in Client, connect(c)
        PROVE  Right'
    <2>1. UpInOrder(<<>>, <<>>) /\ DoneInOrder(<<>>, <<>>, <<>>)
      BY EmptySeq DEF UpInOrder, DoneInOrder
    <2>2. up' = up /\ up[c] = <<>> /\ running /\ running' = running
      BY <1>1, <1>7 DEF ClosedInv, connect
    <2> QED
      BY <1>1, <1>7, <2>1, <2>2 DEF ServerTypeOK, ClosedInv, connect
  <1>8. ASSUME NEW c \in Client, ask(c)
        PROVE  Right'
    <2>1. PICK q \in Typed : asked' = [asked EXCEPT ![c] = Append(@, q)]
      BY <1>8 DEF ask, Typed
    <2>2. /\ UpInOrder(up[c] \o Message(Len(asked[c]) + 1, "request"), Append(asked[c], q))
          /\ DoneInOrder(executed[c], up[c] \o Message(Len(asked[c]) + 1, "request"), Append(asked[c], q))
      BY <1>1, TypedInOrder
    <2>3. /\ UpInOrder(<<>>, Append(asked[c], q))
          /\ DoneInOrder(executed[c], <<>>, Append(asked[c], q))
      <3>1. up[c] \o Message(Len(asked[c]) + 1, "request") \in Seq(Piece)
        BY <1>1, LenProperties, Messages, ConcatProperties
      <3>2. Append(asked[c], q) \in Seq(Typed)
        BY <1>1, AppendProperties
      <3> QED
        BY <1>1, <2>2, <3>1, <3>2, ClosedInOrder
    <2>4. /\ up' = [up EXCEPT ![c] = IF coroutine[c] = "closed" THEN <<>>
                                     ELSE @ \o Message(Len(asked[c]) + 1, "request")]
          /\ UNCHANGED <<executed, coroutine, running>>
      BY <1>8 DEF ask
    <2> QED
      BY <1>1, <2>1, <2>2, <2>3, <2>4 DEF ServerTypeOK, ClosedInv
  <1>9. ASSUME NEW c \in Client, recv(c) \/ recv_end(c) \/ quit(c)
        PROVE  Right'
    BY <1>1, <1>9 DEF ClosedInv, recv, recv_end, quit
  <1>10. ASSUME UNCHANGED vars
         PROVE  Right'
    BY <1>1, <1>10 DEF ClosedInv, vars, sessions
  <1>11. Right'
    BY <1>3, <1>4, <1>5, <1>6, <1>7, <1>8, <1>9, <1>10, ProcessInOrder DEF Next
  <1> QED
    BY <1>1, <1>11, NextType DEF OrderIInv

LEMMA InitOrderIInv ==
  ASSUME Init
  PROVE  OrderIInv
  <1>1. /\ <<>> \in Seq(Piece) /\ <<>> \in Seq(Typed) /\ <<>> \in Seq(Seq(Piece)) /\ <<>> \in Seq(Nat)
        /\ Len(<<>>) = 0
    BY EmptySeq
  <1>2. ServerTypeOK
    BY <1>1 DEF Init, ServerTypeOK
  <1>3. UpInOrder(<<>>, <<>>) /\ DoneInOrder(<<>>, <<>>, <<>>)
    BY <1>1 DEF UpInOrder, DoneInOrder
  <1> QED
    BY <1>2, <1>3 DEF Init, OrderIInv, ClosedInv

\* Whatever the pieces on their way are cut into, whoever stops and starts
LEMMA ServerOrder ==
  Spec => []OrderIInv
  <1>1. Init => OrderIInv
    BY InitOrderIInv
  <1>2. OrderIInv /\ [Next]_vars => OrderIInv'
    BY NextOrderIInv
  <1> QED
    BY <1>1, <1>2, PTL DEF Spec

\* Of the requests that a client typed each is executed at most once, and in the
\* order in which they were typed: process_request takes the bytes of a connection
\* from the first on, and answers only what is a whole request.
THEOREM ExecutedInTypedOrder ==
  Spec => []OrderInv
  <1>1. ASSUME OrderIInv
        PROVE  OrderInv
    <2> SUFFICES ASSUME NEW c \in Client, NEW i \in DOMAIN executed[c]
                 PROVE  /\ executed[c][i] \in DOMAIN asked[c]
                        /\ i > 1 => executed[c][i - 1] < executed[c][i]
      BY DEF OrderInv
    <2>1. /\ executed[c] \in Seq(Nat) /\ asked[c] \in Seq(Typed)
          /\ DoneInOrder(executed[c], up[c], asked[c])
      BY <1>1 DEF OrderIInv, ServerTypeOK
    <2>2. /\ Len(executed[c]) \in Nat /\ i \in 1 .. Len(executed[c])
          /\ DOMAIN asked[c] = 1 .. Len(asked[c])
      BY <2>1, LenProperties
    <2>3. i > 1 => i - 1 \in 1 .. Len(executed[c]) /\ i - 1 < i
      BY <2>2
    <2> QED
      BY <2>1, <2>2, <2>3 DEF DoneInOrder
  <1> QED
    BY <1>1, ServerOrder, PTL
-----------------------------------------------------------------------------
(* What the clients are told *)

\* A create that is called creates the relation that was typed
LEMMA CreateCall ==
  ASSUME NEW q, q.type = "CREATE_NODE", Writable(q), Done(q) \notin {Unsupported, Undefined}
  PROVE  Done(q).call = "CREATE" /\ Done(q).relation = q.name
  <1>1. PICK r : r = ast_to_xml(q)
    OBVIOUS
  <1>2. r = [command |-> "create", name |-> q.name, list |-> XmlListNode(q.first)]
    BY <1>1, Zenon DEF ast_to_xml
  <1>3. r.command = "create" /\ r.name = q.name
    BY <1>2
  <1>4. Done(q) = request_op(r)
    BY <1>1, Zenon DEF Done, Handled
  <1>5. request_op(r) = create_op(r)
    BY <1>3, Zenon DEF request_op
  <1>6. PICK columns : create_op(r) = [call |-> "CREATE", relation |-> r.name, columns |-> columns]
    BY <1>4, <1>5, Zenon DEF create_op
  <1> QED
    BY <1>3, <1>4, <1>5, <1>6

\* What was earned stays so: no step takes back an execution or, while there is a
\* connection, a relation.
Kept(c) ==
  /\ ToSet(executed[c]) \subseteq ToSet(executed'[c])
  /\ \A n \in 1 .. Len(asked[c]) : asked'[c][n] = asked[c][n]
  /\ \/ coroutine'[c] = "closed"
     \/ coroutine[c] # "closed" /\ relations \subseteq relations'

LEMMA EarnedStays ==
  ASSUME NEW c \in Client, Kept(c), NEW n \in 1 .. Len(asked[c]), NEW text, Earned(c, n, text)
  PROVE  Earned(c, n, text)'
  BY DEF Kept, Earned, Created

LEMMA ToldStays ==
  ASSUME NEW c \in Client, Kept(c), ToldRight(c), Len(told[c]) \in Nat, Len(asked[c]) \in Nat,
         Len(told[c]) <= Len(asked[c]), told'[c] = told[c]
  PROVE  ToldRight(c)'
  <1> SUFFICES ASSUME NEW n \in 1 .. Len(told[c]), told[c][n] # <<>>
               PROVE  \E text \in Answers : told[c][n] = Message(n, text) /\ Earned(c, n, text)'
    BY DEF ToldRight
  <1>1. n \in 1 .. Len(asked[c])
    OBVIOUS
  <1>2. PICK text \in Answers : told[c][n] = Message(n, text) /\ Earned(c, n, text)
    BY DEF ToldRight
  <1>3. Earned(c, n, text)'
    BY <1>1, <1>2, EarnedStays
  <1> QED
    BY <1>2, <1>3

\* The number of the last query of a client that waits is one of its queries
LEMMA Lengths ==
  ASSUME ServerTypeOK, NEW c \in Client
  PROVE  /\ Len(told[c]) \in Nat /\ Len(asked[c]) \in Nat
         /\ Len(asked[c]) = Len(told[c]) + 1 => Len(asked[c]) \in 1 .. Len(asked[c])
  <1>1. told[c] \in Seq(Seq(Piece)) /\ asked[c] \in Seq(Typed)
    BY DEF ServerTypeOK
  <1>2. PICK m \in Nat, n \in Nat : m = Len(told[c]) /\ n = Len(asked[c])
    BY <1>1, LenProperties
  <1> QED
    BY <1>2

\* A message has a first piece, which says what it is
LEMMA FirstPiece ==
  ASSUME NEW n \in Nat, NEW text \in Answers \cup {"request"}
  PROVE  /\ Message(n, text) # <<>>
         /\ Message(n, text)[1].of = n /\ Message(n, text)[1].text = text
  <1>1. PICK k \in Nat \ {0} : k = Count(text)
    BY Counts
  <1>2. Len(Message(n, text)) = k
    BY <1>1, Messages
  <1>3. Message(n, text)[1] = [of |-> n, text |-> text, piece |-> 1]
    BY <1>1, Messages
  <1> QED
    BY <1>2, <1>3, EmptySeq

-----------------------------------------------------------------------------
(* A client that no step is about *)

Untouched(c) ==
  /\ coroutine'[c] = coroutine[c] /\ answer'[c] = answer[c] /\ up'[c] = up[c]
  /\ down'[c] = down[c] /\ client'[c] = client[c] /\ asked'[c] = asked[c]
  /\ told'[c] = told[c] /\ executed'[c] = executed[c]
  /\ coroutine[c] = "closed" \/ relations \subseteq relations'

LEMMA UntouchedStays ==
  ASSUME OrderIInv, NEW c \in Client, ExchangeInv(c), Untouched(c)
  PROVE  ExchangeInv(c)'
  <1>1. Kept(c)
    BY DEF Untouched, Kept
  <1>2. Len(told[c]) \in Nat /\ Len(asked[c]) \in Nat
    BY Lengths DEF OrderIInv
  <1>3. ToldRight(c)'
    BY <1>1, <1>2, ToldStays DEF ExchangeInv, Untouched
  <1>4. client'[c] = "waiting" =>
          \/ OnItsWay(c, Len(asked[c]))' \/ InAnswer(c, Len(asked[c]))'
          \/ Answering(c, Len(asked[c]))' \/ Lost(c)'
    <2> SUFFICES ASSUME client[c] = "waiting"
                 PROVE  \/ OnItsWay(c, Len(asked[c]))' \/ InAnswer(c, Len(asked[c]))'
                        \/ Answering(c, Len(asked[c]))' \/ Lost(c)'
      BY DEF Untouched
    <2>1. PICK n \in 1 .. Len(asked[c]) : n = Len(asked[c])
      BY Lengths DEF OrderIInv, ExchangeInv
    <2>2. \A text : Earned(c, n, text) => Earned(c, n, text)'
      BY <1>1, EarnedStays
    <2>3. asked'[c] = asked[c]
      BY DEF Untouched
    <2>4. OnItsWay(c, n) => OnItsWay(c, n)'
      BY DEF OnItsWay, Untouched
    <2>5. InAnswer(c, n) => InAnswer(c, n)'
      BY <2>2 DEF InAnswer, Untouched
    <2>6. Answering(c, n) => Answering(c, n)'
      BY <2>2 DEF Answering, Untouched
    <2>7. Lost(c) => Lost(c)'
      BY DEF Lost, Untouched
    <2> QED
      BY <2>1, <2>3, <2>4, <2>5, <2>6, <2>7 DEF ExchangeInv
  <1> QED
    BY <1>3, <1>4 DEF ExchangeInv, Idle, Untouched

\* The connection of a client ends
CutOff(c) ==
  /\ coroutine'[c] = "closed" /\ up'[c] = <<>>
  /\ down'[c] = down[c] /\ client'[c] = client[c] /\ asked'[c] = asked[c]
  /\ told'[c] = told[c] /\ executed'[c] = executed[c]

LEMMA CutOffStays ==
  ASSUME OrderIInv, NEW c \in Client, ExchangeInv(c), CutOff(c)
  PROVE  ExchangeInv(c)'
  <1>1. Kept(c)
    BY DEF CutOff, Kept
  <1>2. Len(told[c]) \in Nat /\ Len(asked[c]) \in Nat
    BY Lengths DEF OrderIInv
  <1>3. ToldRight(c)'
    BY <1>1, <1>2, ToldStays DEF ExchangeInv, CutOff
  <1>4. client'[c] = "waiting" => Answering(c, Len(asked[c]))' \/ Lost(c)'
    <2> SUFFICES ASSUME client[c] = "waiting"
                 PROVE  Answering(c, Len(asked[c]))' \/ Lost(c)'
      BY DEF CutOff
    <2>1. PICK n \in 1 .. Len(asked[c]) : n = Len(asked[c])
      BY Lengths DEF OrderIInv, ExchangeInv
    <2>2. \A text : Earned(c, n, text) => Earned(c, n, text)'
      BY <1>1, EarnedStays
    <2>3. asked'[c] = asked[c]
      BY DEF CutOff
    <2>4. OnItsWay(c, n) \/ InAnswer(c, n) \/ Lost(c) => Lost(c)'
      BY DEF OnItsWay, InAnswer, Lost, CutOff
    <2>5. Answering(c, n) => Answering(c, n)'
      BY <2>2 DEF Answering, CutOff
    <2> QED
      BY <2>1, <2>3, <2>4, <2>5 DEF ExchangeInv
  <1> QED
    BY <1>3, <1>4 DEF ExchangeInv, Idle, CutOff
-----------------------------------------------------------------------------
(* The steps of one exchange *)

\* The server answers what it has read: if nothing was cut, that is the last query
\* of a client that waits, or of one that has gone.
LEMMA AnswerStays ==
  ASSUME OrderIInv, NEW c \in Client, ExchangeInv(c), NEW k \in 1 .. Len(up[c]),
         IsRequest(Chunk(c, k)), process_request(c), Refuses(c, k) \/ Executes(c, k)
  PROVE  ExchangeInv(c)'
  <1>1. /\ ServerTypeOK /\ up[c] \in Seq(Piece) /\ executed[c] \in Seq(Nat)
        /\ Len(told[c]) \in Nat /\ Len(asked[c]) \in Nat
    BY Lengths DEF OrderIInv, ServerTypeOK
  <1>2. /\ coroutine[c] = "reading" /\ UNCHANGED <<down, client, asked, told>>
    BY DEF process_request
  <1>3. PICK n \in Nat : n = Number(c, k)
    BY <1>1, NumberIs
  <1>4. PICK text \in Answers : reply(c, n, text) /\ taken(c, k) /\ (Refuses(c, k) => text = "unsupported")
    <2>1. CASE Refuses(c, k)
      BY <1>3, <2>1 DEF Refuses, refuse, Answers
    <2>2. CASE ~ Refuses(c, k)
      BY <1>3, <2>2 DEF Executes, execute, Answers
    <2> QED
      BY <2>1, <2>2
  <1>5. coroutine' = [coroutine EXCEPT ![c] = "writing"] /\ answer'[c] = Message(n, text)
    BY <1>1, <1>4 DEF reply, ServerTypeOK
  <1>6. ~ Refuses(c, k) =>
          \E call : /\ call = Done(asked[c][n]) /\ call # Unsupported
                   /\ relations' = relations \cup (IF call.call = "CREATE" THEN {call.relation} ELSE {})
                   /\ executed'[c] = Append(executed[c], n)
    BY <1>1, <1>3 DEF Executes, execute, ServerTypeOK
  <1>7. Refuses(c, k) => relations' = relations /\ executed' = executed
    BY DEF Refuses, refuse
  <1>8. ToSet(executed[c]) \subseteq ToSet(executed'[c])
    <2>1. DOMAIN executed[c] = 1 .. Len(executed[c]) /\ Len(executed[c]) \in Nat
      BY <1>1, LenProperties
    <2>2. /\ DOMAIN Append(executed[c], n) = 1 .. Len(executed[c]) + 1
          /\ \A i \in 1 .. Len(executed[c]) : Append(executed[c], n)[i] = executed[c][i]
      BY <1>1, AppendProperties, LenProperties
    <2>3. ToSet(executed[c]) \subseteq ToSet(Append(executed[c], n))
      BY <2>1, <2>2 DEF ToSet
    <2> QED
      BY <2>3, <1>6, <1>7
  <1>9. Kept(c)
    BY <1>1, <1>2, <1>6, <1>7, <1>8 DEF Kept
  <1>10. ToldRight(c)'
    BY <1>1, <1>2, <1>9, ToldStays DEF ExchangeInv
  <1>11. client[c] # "typing"
    BY <1>1, EmptySeq DEF ExchangeInv, Idle
  <1>12. ASSUME client[c] = "waiting"
         PROVE  InAnswer(c, Len(asked[c]))'
    <2>1. PICK m \in 1 .. Len(asked[c]) : m = Len(asked[c]) /\ m \in Nat
      BY <1>1, <1>12, Lengths DEF ExchangeInv
    <2>2. up[c] # <<>>
      BY <1>1, EmptySeq
    <2>3. OnItsWay(c, m)
      BY <1>12, <2>1, <2>2 DEF ExchangeInv, InAnswer, Answering, Lost
    <2>4. Len(up[c]) = RequestPieces /\ up[c][k] = [of |-> m, text |-> "request", piece |-> k]
      BY <2>1, <2>3, Messages, Counts DEF OnItsWay
    <2>5. k = RequestPieces
      BY <1>1, WholeRequest DEF Chunk
    <2>6. n = m
      BY <1>1, <1>3, <2>4, NumberIs
    <2>7. up'[c] = <<>>
      <3>1. up'[c] = Rest(up[c], k)
        BY <1>1, <1>4 DEF taken, ServerTypeOK
      <3>2. Rest(up[c], k) \in Seq(Piece) /\ Len(Rest(up[c], k)) = 0
        BY <1>1, <2>4, <2>5, Rests, PiecesAssumption
      <3> QED
        BY <3>1, <3>2, EmptySeq
    <2>8. Earned(c, n, text)'
      <3>1. CASE text = "unsupported"
        BY <3>1 DEF Earned
      <3>2. CASE text # "unsupported"
        <4>1. PICK call : /\ call = Done(asked[c][n]) /\ call # Unsupported
                   /\ relations' = relations \cup (IF call.call = "CREATE" THEN {call.relation} ELSE {})
                   /\ executed'[c] = Append(executed[c], n)
          BY <1>4, <1>6, <3>2
        <4>2. n \in ToSet(executed'[c])
          <5>1. PICK l \in Nat : l = Len(executed[c])
            BY <1>1, LenProperties
          <5>2. DOMAIN Append(executed[c], n) = 1 .. l + 1 /\ Append(executed[c], n)[l + 1] = n
            BY <1>1, <5>1, AppendProperties, LenProperties
          <5>3. l + 1 \in 1 .. l + 1
            OBVIOUS
          <5> QED
            BY <4>1, <5>2, <5>3, Zenon DEF ToSet
        <4>3. Writable(asked[c][n])
          <5>1. asked[c][n] \in Typed
            BY <1>1, <2>1, <2>6, ElementOfSeq DEF ServerTypeOK
          <5> QED
            BY <5>1, SentAssumption DEF Typed
        <4>4. Created(c, n)'
          <5> SUFFICES ASSUME asked[c][n].type = "CREATE_NODE", Done(asked[c][n]) # Undefined
                       PROVE  asked[c][n].name \in relations'
            BY <1>2 DEF Created
          <5>1. call.call = "CREATE" /\ call.relation = asked[c][n].name
            BY <4>1, <4>3, CreateCall
          <5> QED
            BY <4>1, <5>1
        <4> QED
          BY <4>2, <4>4 DEF Earned
      <3> QED
        BY <3>1, <3>2
    <2>9. coroutine'[c] = "writing" /\ down'[c] = <<>>
      BY <1>1, <1>2, <1>5, <2>3 DEF OnItsWay, ServerTypeOK
    <2>10. asked'[c] = asked[c] /\ Len(asked[c]) = n
      BY <1>2, <2>1, <2>6
    <2> QED
      BY <1>5, <2>7, <2>8, <2>9, <2>10 DEF InAnswer
  <1> QED
    BY <1>2, <1>10, <1>11, <1>12 DEF ExchangeInv

\* The answer is written behind nothing
LEMMA WriteStays ==
  ASSUME OrderIInv, NEW c \in Client, ExchangeInv(c), async_write(c)
  PROVE  ExchangeInv(c)'
  <1>1. /\ ServerTypeOK /\ answer[c] \in Seq(Piece)
        /\ Len(told[c]) \in Nat /\ Len(asked[c]) \in Nat
    BY Lengths DEF OrderIInv, ServerTypeOK
  <1>2. /\ coroutine[c] = "writing" /\ coroutine'[c] = "reading"
        /\ down'[c] = down[c] \o answer[c] /\ up'[c] = up[c]
        /\ UNCHANGED <<relations, client, asked, told, executed>>
    BY <1>1 DEF async_write, write, ServerTypeOK
  <1>3. Kept(c)
    BY <1>2 DEF Kept
  <1>4. ToldRight(c)'
    BY <1>1, <1>2, <1>3, ToldStays DEF ExchangeInv
  <1>5. client[c] # "typing"
    BY <1>2 DEF ExchangeInv, Idle
  <1>6. ASSUME client[c] = "waiting"
        PROVE  Answering(c, Len(asked[c]))'
    <2>1. PICK n \in 1 .. Len(asked[c]) : n = Len(asked[c])
      BY <1>1, <1>6, Lengths DEF ExchangeInv
    <2>2. InAnswer(c, n)
      BY <1>2, <1>6, <2>1 DEF ExchangeInv, OnItsWay, Answering, Lost
    <2>3. PICK text \in Answers : answer[c] = Message(n, text) /\ Earned(c, n, text)
      BY <2>2 DEF InAnswer
    <2>4. down'[c] = Message(n, text)
      BY <1>1, <1>2, <2>2, <2>3, ConcatEmptySeq DEF InAnswer
    <2>5. Earned(c, n, text)'
      BY <1>3, <2>3, EarnedStays
    <2>6. asked'[c] = asked[c]
      BY <1>2
    <2> QED
      BY <1>2, <2>1, <2>2, <2>4, <2>5, <2>6 DEF InAnswer, Answering
  <1> QED
    BY <1>2, <1>4, <1>5, <1>6 DEF ExchangeInv

\* A query is typed when nothing is on its way
LEMMA AskStays ==
  ASSUME OrderIInv, NEW c \in Client, ExchangeInv(c), ask(c)
  PROVE  ExchangeInv(c)'
  <1>1. /\ ServerTypeOK /\ asked[c] \in Seq(Typed)
        /\ Len(told[c]) \in Nat /\ Len(asked[c]) \in Nat
    BY Lengths DEF OrderIInv, ServerTypeOK
  <1>2. Idle(c) /\ Len(asked[c]) = Len(told[c])
    BY DEF ask, ExchangeInv
  <1>3. PICK q \in Typed : asked'[c] = Append(asked[c], q)
    BY <1>1 DEF ask, Typed, ServerTypeOK
  <1>4. PICK n \in Nat \ {0} : n = Len(asked[c]) + 1
    BY <1>1
  <1>5. Len(asked'[c]) = n /\ \A i \in 1 .. Len(asked[c]) : asked'[c][i] = asked[c][i]
    BY <1>1, <1>3, <1>4, AppendProperties
  <1>6. /\ up'[c] = (IF coroutine[c] = "closed" THEN <<>> ELSE up[c] \o Message(n, "request"))
        /\ client'[c] = "waiting"
        /\ UNCHANGED <<relations, coroutine, down, told, executed>>
    BY <1>1, <1>4 DEF ask, ServerTypeOK
  <1>7. Kept(c)
    BY <1>5, <1>6 DEF Kept
  <1>8. ToldRight(c)'
    BY <1>1, <1>2, <1>6, <1>7, ToldStays DEF ExchangeInv
  <1>9. OnItsWay(c, n)' \/ Lost(c)'
    <2>1. CASE coroutine[c] = "closed"
      BY <1>2, <1>6, <2>1 DEF Idle, Lost
    <2>2. CASE coroutine[c] # "closed"
      <3>1. coroutine[c] = "reading"
        BY <1>1, <1>2, <2>2 DEF Idle, ServerTypeOK
      <3>2. <<>> \o Message(n, "request") = Message(n, "request")
        BY Messages, ConcatEmptySeq
      <3> QED
        BY <1>2, <1>6, <3>1, <3>2 DEF Idle, OnItsWay
    <2> QED
      BY <2>1, <2>2
  <1>10. Len(told'[c]) = Len(told[c]) /\ n = Len(told[c]) + 1
    BY <1>2, <1>4, <1>6
  <1> QED
    BY <1>1, <1>5, <1>6, <1>8, <1>9, <1>10 DEF ExchangeInv

\* A new connection
LEMMA ConnectStays ==
  ASSUME OrderIInv, NEW c \in Client, connect(c)
  PROVE  ExchangeInv(c)'
  <1>1. up[c] = <<>>
    BY DEF OrderIInv, ClosedInv, connect
  <1>2. /\ told'[c] = <<>> /\ asked'[c] = <<>> /\ client'[c] = "typing"
        /\ coroutine'[c] = "reading" /\ up'[c] = <<>> /\ down'[c] = <<>>
    BY <1>1 DEF connect, OrderIInv, ServerTypeOK
  <1>3. Len(<<>>) = 0
    BY EmptySeq
  <1> QED
    BY <1>2, <1>3 DEF ExchangeInv, ToldRight, Idle

\* The client prints what it has got: all of the answer if nothing was cut, or
\* nothing.
LEMMA PrintStays ==
  ASSUME OrderIInv, NEW c \in Client, ExchangeInv(c), client[c] = "waiting",
         coroutine[c] # "writing", up[c] = <<>>, NEW s \in Seq(Piece),
         print(c, s), down'[c] = <<>>, UNCHANGED <<relations, coroutine, up, asked, executed>>,
         s = <<>> \/ \E text \in Answers : /\ s = Message(Len(asked[c]), text)
                                          /\ Earned(c, Len(asked[c]), text)
  PROVE  ExchangeInv(c)'
  <1>1. /\ ServerTypeOK /\ told[c] \in Seq(Seq(Piece))
        /\ Len(told[c]) \in Nat /\ Len(asked[c]) \in Nat
    BY Lengths DEF OrderIInv, ServerTypeOK
  <1>2. told'[c] = Append(told[c], s) /\ client'[c] = "typing"
    BY <1>1 DEF print, ServerTypeOK
  <1>3. PICK n \in 1 .. Len(asked[c]) : n = Len(asked[c]) /\ n = Len(told[c]) + 1
    BY <1>1, Lengths DEF ExchangeInv
  <1>4. /\ Len(told'[c]) = n /\ told'[c][n] = s
        /\ \A i \in 1 .. Len(told[c]) : told'[c][i] = told[c][i]
    BY <1>1, <1>2, <1>3, AppendProperties
  <1>5. Kept(c)
    BY DEF Kept
  <1>6. \A i \in 1 .. Len(asked[c]) : \A text : Earned(c, i, text) => Earned(c, i, text)'
    BY <1>5, EarnedStays
  <1>7. ToldRight(c)'
    <2> SUFFICES ASSUME NEW i \in 1 .. n, told'[c][i] # <<>>
                 PROVE  \E text \in Answers : told'[c][i] = Message(i, text) /\ Earned(c, i, text)'
      BY <1>4 DEF ToldRight
    <2>1. CASE i = n
      BY <1>3, <1>4, <1>6, <2>1
    <2>2. CASE i # n
      <3>1. i \in 1 .. Len(told[c]) /\ i \in 1 .. Len(asked[c])
        BY <1>1, <1>3, <2>2
      <3>2. PICK text \in Answers : told[c][i] = Message(i, text) /\ Earned(c, i, text)
        BY <1>4, <3>1 DEF ExchangeInv, ToldRight
      <3> QED
        BY <1>4, <1>6, <3>1, <3>2
    <2> QED
      BY <2>1, <2>2
  <1>8. Len(told'[c]) = Len(asked'[c]) /\ Len(told'[c]) \in Nat
    BY <1>1, <1>3, <1>4
  <1>9. Idle(c)'
    BY DEF Idle
  <1> QED
    BY <1>2, <1>7, <1>8, <1>9 DEF ExchangeInv

LEMMA RecvStays ==
  ASSUME OrderIInv, NEW c \in Client, ExchangeInv(c), recv(c), whole'[c]
  PROVE  ExchangeInv(c)'
  <1>1. ServerTypeOK /\ down[c] \in Seq(Piece)
    BY DEF OrderIInv, ServerTypeOK
  <1>2. PICK k, s :
          /\ k \in 1 .. Len(down[c])
          /\ s = SubSeq(down[c], 1, k) /\ print(c, s)
          /\ down' = [down EXCEPT ![c] = Rest(@, k)]
          /\ whole' = [whole EXCEPT ![c] = @ /\ s = Message(s[1].of, s[1].text)]
    BY DEF recv
  <1>3. s = Message(s[1].of, s[1].text)
    BY <1>1, <1>2 DEF ServerTypeOK
  <1>4. client[c] = "waiting" /\ UNCHANGED <<relations, coroutine, up, asked, executed>>
    BY DEF recv
  <1>5. PICK n \in Nat : n = Len(asked[c])
    BY Lengths DEF OrderIInv
  <1>6. down[c] # <<>>
    BY <1>1, <1>2, EmptySeq
  <1>7. Answering(c, n)
    BY <1>4, <1>5, <1>6 DEF ExchangeInv, OnItsWay, InAnswer, Lost
  <1>8. PICK text \in Answers : down[c] = Message(n, text) /\ Earned(c, n, text)
    BY <1>7 DEF Answering
  <1>9. Len(down[c]) \in Nat /\ s \in Seq(Piece) /\ Len(s) = k /\ s[1] = down[c][1]
    <2>1. Len(down[c]) \in Nat /\ s \in Seq(Piece) /\ Len(s) = k /\ \A i \in 1 .. k : s[i] = down[c][i]
      BY <1>1, <1>2, Chunks, LenProperties
    <2>2. 1 \in 1 .. k
      BY <1>2, <2>1
    <2> QED
      BY <2>1, <2>2
  <1>10. s = down[c]
    BY <1>2, <1>3, <1>8, <1>9, FirstPiece
  <1>11. down'[c] = <<>>
    <2>1. down'[c] = Rest(down[c], k) /\ k = Len(down[c])
      BY <1>1, <1>2, <1>9, <1>10 DEF ServerTypeOK
    <2>2. Rest(down[c], k) \in Seq(Piece) /\ Len(Rest(down[c], k)) = 0
      BY <1>1, <1>2, <1>9, <2>1, Rests
    <2> QED
      BY <2>1, <2>2, EmptySeq
  <1> QED
    BY <1>2, <1>4, <1>5, <1>7, <1>8, <1>9, <1>10, <1>11, PrintStays DEF Answering

LEMMA RecvEndStays ==
  ASSUME OrderIInv, NEW c \in Client, ExchangeInv(c), recv_end(c)
  PROVE  ExchangeInv(c)'
  <1>1. /\ client[c] = "waiting" /\ coroutine[c] = "closed" /\ up[c] = <<>> /\ print(c, <<>>)
        /\ down[c] = <<>> /\ UNCHANGED <<relations, coroutine, up, down, asked, executed>>
    BY DEF recv_end, OrderIInv, ClosedInv
  <1>2. <<>> \in Seq(Piece)
    BY EmptySeq
  <1> QED
    BY <1>1, <1>2, PrintStays
-----------------------------------------------------------------------------

\* The connections of all clients end with the process
LEMMA DieCutsOff ==
  ASSUME NEW c \in Client, die, UNCHANGED <<down, client, asked, told, executed>>
  PROVE  CutOff(c)
  BY DEF die, CutOff

\* A step of one client leaves the others as they are
LEMMA OthersAsBefore ==
  ASSUME OrderIInv, NEW c \in Client, NEW d \in Client \ {c},
         \/ async_write(c) \/ end_of_file(c) \/ connect(c) \/ ask(c)
         \/ recv(c) \/ recv_end(c) \/ quit(c)
  PROVE  Untouched(d) /\ whole'[d] = whole[d]
  <1>1. ServerTypeOK
    BY DEF OrderIInv
  <1>2. CASE async_write(c)
    BY <1>1, <1>2 DEF Untouched, async_write, write, ServerTypeOK
  <1>3. CASE end_of_file(c)
    BY <1>1, <1>3 DEF Untouched, end_of_file, ServerTypeOK
  <1>4. CASE connect(c)
    BY <1>1, <1>4 DEF Untouched, connect, ServerTypeOK
  <1>5. CASE ask(c)
    BY <1>1, <1>5 DEF Untouched, ask, ServerTypeOK
  <1>6. CASE recv(c)
    BY <1>1, <1>6 DEF Untouched, recv, print, ServerTypeOK
  <1>7. CASE recv_end(c)
    BY <1>1, <1>7 DEF Untouched, recv_end, print, ServerTypeOK
  <1>8. CASE quit(c)
    BY <1>1, <1>8 DEF Untouched, quit, ServerTypeOK
  <1> QED
    BY <1>2, <1>3, <1>4, <1>5, <1>6, <1>7, <1>8

LEMMA ProcessAnswersIInv ==
  ASSUME OrderIInv, AnswersIInv, NEW c \in Client, process_request(c)
  PROVE  AnswersIInv'
  <1>1. PICK k \in 1 .. Len(up[c]) :
           /\ whole' = [whole EXCEPT ![c] = @ /\ IsRequest(Chunk(c, k))]
           /\ Refuses(c, k) \/ close(c) \/ Executes(c, k) \/ TakesDown
    BY ProcessCases
  <1>2. ServerTypeOK /\ UNCHANGED <<down, client, asked, told>>
    BY DEF OrderIInv, process_request
  <1> SUFFICES ASSUME NEW d \in Client, whole'[d]
               PROVE  ExchangeInv(d)'
    BY DEF AnswersIInv
  <1>3. whole[d] /\ (d = c => IsRequest(Chunk(c, k)))
    BY <1>1, <1>2 DEF ServerTypeOK
  <1>4. ExchangeInv(d)
    BY <1>3 DEF AnswersIInv
  <1>5. CASE TakesDown
    BY <1>2, <1>4, <1>5, DieCutsOff, CutOffStays DEF TakesDown
  <1>6. CASE close(c)
    <2>1. CASE d = c
      BY <1>2, <1>4, <1>6, <2>1, CutOffStays DEF close, CutOff, ServerTypeOK
    <2>2. CASE d # c
      BY <1>2, <1>4, <1>6, <2>2, UntouchedStays DEF close, Untouched, ServerTypeOK
    <2> QED
      BY <2>1, <2>2
  <1>7. CASE Refuses(c, k) \/ Executes(c, k)
    <2>1. CASE d = c
      BY <1>3, <1>4, <1>7, <2>1, AnswerStays
    <2>2. CASE d # c
      <3>1. PICK n, text : reply(c, n, text)
        BY <1>7 DEF Refuses, Executes, refuse, execute
      <3>2. taken(c, k) /\ executed'[d] = executed[d] /\ relations \subseteq relations'
        BY <1>2, <1>7, <2>2 DEF Refuses, Executes, refuse, execute, ServerTypeOK
      <3>3. Untouched(d)
        BY <1>2, <2>2, <3>1, <3>2 DEF Untouched, reply, taken, ServerTypeOK
      <3> QED
        BY <1>4, <3>3, UntouchedStays
    <2> QED
      BY <2>1, <2>2
  <1> QED
    BY <1>1, <1>5, <1>6, <1>7

LEMMA NextAnswersIInv ==
  ASSUME OrderIInv, AnswersIInv, [Next]_vars
  PROVE  AnswersIInv'
  <1>1. CASE stop
    BY <1>1, DieCutsOff, CutOffStays DEF AnswersIInv, stop
  <1>2. ASSUME NEW arg \in {"existing", "new"}, start(arg)
        PROVE  AnswersIInv'
    <2>1. ASSUME NEW d \in Client
          PROVE  Untouched(d) /\ whole' = whole
      BY <1>2 DEF start, sessions, Untouched, OrderIInv, ClosedInv
    <2> QED
      BY <2>1, UntouchedStays DEF AnswersIInv
  <1>3. ASSUME NEW c \in Client,
               \/ async_write(c) \/ end_of_file(c) \/ connect(c) \/ ask(c)
               \/ recv(c) \/ recv_end(c) \/ quit(c)
        PROVE  AnswersIInv'
    <2> SUFFICES ASSUME NEW d \in Client, whole'[d]
                 PROVE  ExchangeInv(d)'
      BY DEF AnswersIInv
    <2>1. CASE d # c
      BY <1>3, <2>1, OthersAsBefore, UntouchedStays DEF AnswersIInv
    <2>2. CASE d = c /\ connect(c)
      BY <2>2, ConnectStays
    <2>3. CASE d = c /\ ~ connect(c)
      <3>1. whole[c]
        BY <1>3, <2>3 DEF async_write, end_of_file, ask, recv, recv_end, quit, OrderIInv, ServerTypeOK
      <3>2. ExchangeInv(c)
        BY <3>1 DEF AnswersIInv
      <3>3. ASSUME end_of_file(c)
            PROVE  ExchangeInv(c)'
        BY <3>2, <3>3, CutOffStays DEF end_of_file, CutOff, OrderIInv, ServerTypeOK
      <3>4. ASSUME quit(c)
            PROVE  ExchangeInv(c)'
        <4>1. Kept(c) /\ told' = told /\ asked' = asked /\ client'[c] = "gone"
          BY <3>4 DEF Kept, quit, OrderIInv, ServerTypeOK
        <4>2. ToldRight(c)'
          BY <3>2, <4>1, ToldStays, Lengths DEF ExchangeInv, OrderIInv
        <4> QED
          BY <3>2, <4>1, <4>2 DEF ExchangeInv
      <3> QED
        BY <1>3, <2>3, <3>2, <3>3, <3>4, WriteStays, AskStays, RecvStays, RecvEndStays
    <2> QED
      BY <2>1, <2>2, <2>3
  <1>4. CASE UNCHANGED vars
    <2>1. ASSUME NEW d \in Client
          PROVE  Untouched(d) /\ whole' = whole
      BY <1>4 DEF vars, sessions, Untouched
    <2> QED
      BY <2>1, UntouchedStays DEF AnswersIInv
  <1> QED
    BY <1>1, <1>2, <1>3, <1>4, ProcessAnswersIInv DEF Next

\* As long as nothing is cut or joined on its way, a client that is told anything is
\* told the answer to its own query, and of success only if the library was called;
\* a relation that it was told is created is there while the connection lasts.
THEOREM AnsweredRight ==
  Spec => []AnswersInv
  <1>1. Init => AnswersIInv
    <2> SUFFICES ASSUME Init, NEW c \in Client
                 PROVE  ExchangeInv(c)
      BY DEF AnswersIInv
    <2>1. told[c] = <<>> /\ asked[c] = <<>> /\ client[c] = "gone" /\ Len(<<>>) = 0
      BY EmptySeq DEF Init
    <2> QED
      BY <2>1 DEF ExchangeInv, ToldRight
  <1>2. OrderIInv /\ AnswersIInv /\ [Next]_vars => AnswersIInv'
    BY NextAnswersIInv
  <1>3. ASSUME OrderIInv, AnswersIInv
        PROVE  AnswersInv
    <2> SUFFICES ASSUME NEW c \in Client, whole[c], NEW n \in DOMAIN told[c]
                 PROVE  /\ Told(c, n)
                        /\ told[c][n] \in {Message(n, "done"), Message(n, "rows")} =>
                             n \in ToSet(executed[c]) /\ Created(c, n)
      BY DEF AnswersInv, Created
    <2>1. told[c] \in Seq(Seq(Piece)) /\ ToldRight(c)
      BY <1>3 DEF OrderIInv, ServerTypeOK, AnswersIInv, ExchangeInv
    <2>2. n \in 1 .. Len(told[c]) /\ n \in Nat
      BY <2>1, LenProperties
    <2>3. Told(c, n)
      BY <2>1, <2>2 DEF ToldRight, Told, Answers
    <2>4. ASSUME NEW said \in {"done", "rows"}, told[c][n] = Message(n, said)
          PROVE  n \in ToSet(executed[c]) /\ Created(c, n)
      <3>1. said \in Answers /\ told[c][n] # <<>>
        BY <2>2, <2>4, FirstPiece DEF Answers
      <3>2. PICK text \in Answers : told[c][n] = Message(n, text) /\ Earned(c, n, text)
        BY <2>1, <2>2, <3>1 DEF ToldRight
      <3>3. text = said
        <4>1. Message(n, said)[1].text = said /\ Message(n, text)[1].text = text
          BY <2>2, <3>1, FirstPiece
        <4> QED
          BY <4>1, <2>4, <3>2
      <3> QED
        BY <3>2, <3>3 DEF Earned
    <2> QED
      BY <2>3, <2>4
  <1> QED
    BY <1>1, <1>2, <1>3, ServerOrder, PTL DEF Spec
=============================================================================
