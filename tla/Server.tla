-------------------------------- MODULE Server --------------------------------
(***************************************************************************)
(* The HTTP requests of the server: the batch middleware, the mutex of     *)
(* single-threaded mode, httpHandler, and the statistics of requests that  *)
(* the health check reads. A body is a request, a batch of them, or        *)
(* neither. What comes through a websocket takes neither the mutex nor     *)
(* httpHandler, and is not counted.                                        *)
(***************************************************************************)
EXTENDS ErrorRate, Sequences

CONSTANTS
    Clients,        \* connections that have a request at once
    SingleThreaded  \* the option of that name

Nobody == "nobody"

ASSUME ServerAssumption ==
    IsFiniteSet(Clients) /\ Nobody \notin Clients /\ SingleThreaded \in BOOLEAN

VARIABLES
    pc,         \* per client: where its request is
    route,      \* per client: the way its request takes
    todo,       \* per client: outcomes of the requests that are not answered
    holder,     \* who holds the mutex, or Nobody
    answers     \* history: answers written so far, up to MaxAnswers

serverVars == <<vars, pc, route, todo, holder, answers>>

\* Bound: so many fill the ring though some are not counted yet.
MaxAnswers == N + Cardinality(Clients)
Answers == answers' = IF answers = MaxAnswers THEN answers ELSE answers + 1

\* How the transformer ends: with a result, with an error, or with an error
\* as its result.
Outcomes == {"result", "error", "errorResult"}
Lists == {<<>>} \cup [1..2 -> Outcomes]

Routes == {"post", "batch", "websocket"}

ServerInit ==
    /\ Init
    /\ pc = [c \in Clients |-> "idle"]
    /\ route = [c \in Clients |-> "post"]
    /\ todo = [c \in Clients |-> <<>>]
    /\ holder = Nobody /\ answers = 0

Becomes(c, p) == pc' = [pc EXCEPT ![c] = p]

\* A request takes the mutex, where there is one.
Post(c) ==
    /\ pc[c] = "idle"
    /\ \E o \in Outcomes \cup {"garbled"} : todo' = [todo EXCEPT ![c] = <<o>>]
    /\ route' = [route EXCEPT ![c] = "post"]
    /\ Becomes(c, IF SingleThreaded THEN "waiting" ELSE "handling")
    /\ UNCHANGED <<vars, holder, answers>>

\* batchRequestsMiddleware: a batch is handled without the mutex. One that is
\* no list of requests is answered with an error and not counted.
PostBatch(c) ==
    /\ pc[c] = "idle"
    /\ \E list \in Lists : todo' = [todo EXCEPT ![c] = list]
    /\ route' = [route EXCEPT ![c] = "batch"]
    /\ Becomes(c, "handling")
    /\ UNCHANGED <<vars, holder, answers>>

\* websocketHandler: a message is a request or a list of them. What cannot be
\* decoded is an empty request or an empty list.
ReadMessage(c) ==
    /\ pc[c] = "idle"
    /\ \E list \in Lists \cup {<<o>> : o \in Outcomes} : todo' = [todo EXCEPT ![c] = list]
    /\ route' = [route EXCEPT ![c] = "websocket"]
    /\ Becomes(c, "handling")
    /\ UNCHANGED <<vars, holder, answers>>

Lock(c) ==
    /\ pc[c] = "waiting" /\ holder = Nobody
    /\ holder' = c /\ Becomes(c, "handling")
    /\ UNCHANGED <<vars, route, todo, answers>>

\* httpHandler: what cannot be decoded is an error without the transformer.
Decode(c) ==
    /\ pc[c] = "handling" /\ todo[c] # <<>>
    /\ IF Head(todo[c]) = "garbled" THEN Becomes(c, "answered") /\ Answers
       ELSE Becomes(c, "transforming") /\ UNCHANGED answers
    /\ UNCHANGED <<vars, route, todo, holder>>

Transform(c) ==
    /\ pc[c] = "transforming" /\ route[c] # "websocket"
    /\ Becomes(c, "answered") /\ Answers
    /\ UNCHANGED <<vars, route, todo, holder>>

\* getRpcResponses: the response is kept for the message and nothing is counted;
\* one that cannot be encoded ends the rest of the message.
Respond(c) ==
    /\ pc[c] = "transforming" /\ route[c] = "websocket"
    /\ \E rest \in {Tail(todo[c]), <<>>} : todo' = [todo EXCEPT ![c] = rest]
    /\ Becomes(c, "handling")
    /\ UNCHANGED <<vars, route, holder, answers>>

\* Mutant: an error that is a result is answered before anything is deferred.
Counts_NotResults(o) ==
    IF o = "result" THEN Success ELSE IF o = "errorResult" THEN UNCHANGED vars ELSE Failure

Counts(o) == IF o = "result" THEN Success ELSE Failure

\* After the answer is written the request is counted by what it deferred.
Count(c) ==
    /\ pc[c] = "answered"
    /\ Counts(Head(todo[c]))
    /\ todo' = [todo EXCEPT ![c] = Tail(@)]
    /\ Becomes(c, "handling")
    /\ UNCHANGED <<route, holder, answers>>

\* Mutant: nothing was deferred that gives the mutex back.
Return_Locked(c) ==
    /\ pc[c] = "handling" /\ todo[c] = <<>>
    /\ Becomes(c, "idle")
    /\ route' = [route EXCEPT ![c] = "post"]
    /\ UNCHANGED <<vars, todo, holder, answers>>

Return(c) ==
    /\ pc[c] = "handling" /\ todo[c] = <<>>
    /\ Becomes(c, "idle")
    /\ holder' = IF holder = c THEN Nobody ELSE holder
    /\ route' = [route EXCEPT ![c] = "post"]
    /\ UNCHANGED <<vars, todo, answers>>

Receive(c) == Post(c) \/ PostBatch(c) \/ ReadMessage(c)
Handle(c) == Decode(c) \/ Transform(c) \/ Respond(c) \/ Count(c) \/ Return(c)

ServerNext == \E c \in Clients : Receive(c) \/ Lock(c) \/ Handle(c)

ServerSpec == ServerInit /\ [][ServerNext]_serverVars
-----------------------------------------------------------------------------
(* Properties                                                                *)

\* Every request that is answered is counted once, whether it came alone or in
\* a batch and however it ended, as soon as its handler returns: of the answers
\* only those whose handlers still run may be missing.
CountedOnce ==
    LET due == answers - Cardinality({c \in Clients : pc[c] = "answered"})
    IN  Counted = IF due < N THEN due ELSE N

\* The option says that RPC requests are processed in a single thread: no two
\* are in the transformer at once, whichever way they came.
OneAtATime ==
    SingleThreaded => \A c, d \in Clients :
        pc[c] = "transforming" /\ pc[d] = "transforming" => c = d

\* What the mutex does order: requests that came alone over HTTP.
PostsTakeTurns ==
    SingleThreaded => \A c, d \in Clients :
        /\ pc[c] = "transforming" /\ pc[d] = "transforming"
        /\ route[c] = "post" /\ route[d] = "post"
        => c = d

\* Whatever the outcome, and whatever passes by without the mutex, it is given
\* back: who holds it is a request of its own over HTTP, and at work.
HolderWorks ==
    holder # Nobody => pc[holder] \notin {"idle", "waiting"} /\ route[holder] = "post"
=============================================================================
