------------------------------ MODULE Notifier ------------------------------
(***************************************************************************)
(* One websocket connection of charon: the goroutine of websocketHandler,  *)
(* which runs the client's requests one after the other, the notifier loop *)
(* that writes subscription events to the same socket, the goroutines that *)
(* put events into the notifier's queue, and the connection's entries in   *)
(* the agent's registry.                                                   *)
(*                                                                         *)
(* Notifier.mutex is held for one atomic action everywhere, except by the  *)
(* cleanup of the loop, which keeps it over several actions: the mutex is  *)
(* free iff loop # "closing".                                              *)
(***************************************************************************)
EXTENDS Naturals, Sequences, FiniteSets

CONSTANTS
    MaxSubs,    \* bound: subscriptions the client asks for
    MaxHeads,   \* bound: events the agent publishes
    QueueCap,   \* capacity of Notifier.queue (50 in NewNotifier)
    MaxBatch    \* bound: requests in one websocket message

ASSUME NotifierAssumption ==
    /\ MaxSubs \in Nat
    /\ MaxHeads \in Nat
    /\ QueueCap \in Nat \ {0}
    /\ MaxBatch \in Nat \ {0}

Ids == 1..MaxSubs
NoId == 0
Events == [sub : Ids, head : 1..MaxHeads]
NoEvent == [sub |-> NoId, head |-> 0]
NoChan == 0

VARIABLES
    handler,       \* control point of websocketHandler
    todo,          \* requests of the current message not yet run
    answers,       \* subscription ids in the response being built
    created,       \* ids handed out so far; the newest is `created`
    subs,          \* Notifier.subscriptions
    once,          \* ids whose Subscription.once has fired
    unsubs,        \* ids with a pending `go notifier.Unsubscribe(id)`
    registry,      \* this connection's entries in the agent's registry
    chans,         \* pending channels made so far, named 1..chans
    pending,       \* Notifier.subscriptionIdPending, NoChan for nil
    closedChans,   \* pending channels that were closed
    queue,         \* Notifier.queue
    queueClosed,   \* close(n.queue) was called
    senders,       \* events of goroutines inside Notifier.Send
    heads,         \* events published so far
    loop,          \* control point of Notifier.run
    event,         \* event the loop took from the queue
    waitChan,      \* channel the loop waits on
    toClose,       \* subscriptions the cleanup has still to unsubscribe
    connOpen,      \* the websocket has not been closed
    ctxDone,       \* the context of the HTTP request is cancelled
    told,          \* ids the client has read in a response
    delivered,     \* events the client has read, in order
    panicked       \* a goroutine panicked: the whole process is gone

handlerVars == <<handler, todo, answers>>
subVars     == <<created, subs, once, unsubs, registry>>
chanVars    == <<chans, pending, closedChans>>
queueVars   == <<queue, queueClosed, senders, heads>>
loopVars    == <<loop, event, waitChan, toClose>>
connVars    == <<connOpen, ctxDone>>
clientVars  == <<told, delivered>>
vars == <<handlerVars, subVars, chanVars, queueVars, loopVars, connVars,
          clientVars, panicked>>

HandlerPC == {"read", "exec", "subscribe", "register", "sent", "returned", "exited"}
LoopPC == {"select", "check", "wait", "send", "cleanup", "closing", "exited"}

\* The state NewNotifier leaves: a pending channel that is already there, so
\* that nothing is written before the first response, and the loop started.
Init ==
    /\ handler = "read" /\ todo = 0 /\ answers = {}
    /\ created = 0 /\ subs = {} /\ once = {} /\ unsubs = {} /\ registry = {}
    /\ chans = 1 /\ pending = 1 /\ closedChans = {}
    /\ queue = <<>> /\ queueClosed = FALSE /\ senders = {} /\ heads = 0
    /\ loop = "select" /\ event = NoEvent /\ waitChan = NoChan /\ toClose = {}
    /\ connOpen = TRUE /\ ctxDone = FALSE
    /\ told = {} /\ delivered = <<>>
    /\ panicked = FALSE

MutexFree == loop # "closing"
-----------------------------------------------------------------------------
\* Mutant: the agent's callback is forgotten.
OnceUnsubscribe_NoCallback(id) ==
    IF id \in once
    THEN UNCHANGED <<once, registry, unsubs>>
    ELSE /\ once' = once \cup {id}
         /\ unsubs' = unsubs \cup {id}
         /\ UNCHANGED registry

(* Subscription.Unsubscribe: sync.Once around the agent's unsubscribe       *)
(* callback and `go notifier.Unsubscribe(id)`.                              *)
OnceUnsubscribe(id) ==
    IF id \in once
    THEN UNCHANGED <<once, registry, unsubs>>
    ELSE /\ once' = once \cup {id}
         /\ registry' = registry \ {id}
         /\ unsubs' = unsubs \cup {id}
-----------------------------------------------------------------------------
(* websocketHandler                                                         *)

\* ws.ReadMessage returned a message of k requests.
ReadMessage ==
    /\ handler = "read"
    /\ connOpen
    /\ \E k \in 0..MaxBatch : todo' = k
    /\ handler' = "exec"
    /\ answers' = {}
    /\ UNCHANGED <<subVars, chanVars, queueVars, loopVars, connVars, clientVars, panicked>>

\* Every return of websocketHandler runs its deferred close().
HandlerReturn ==
    /\ handler' = "returned"
    /\ connOpen' = FALSE
    /\ UNCHANGED <<todo, answers, subVars, chanVars, queueVars, loopVars, ctxDone,
                   clientVars, panicked>>

\* The read failed: the peer left, the read deadline passed, or the socket
\* was closed under the handler.
ReadFails ==
    /\ handler = "read"
    /\ HandlerReturn

\* A response could not be encoded.
EncodeFails ==
    /\ handler = "exec"
    /\ HandlerReturn

\* Mutant: no pending channel is installed.
ResponseRequired_NoChannel ==
    /\ handler = "exec" /\ todo > 0
    /\ created < MaxSubs
    /\ MutexFree
    /\ handler' = "subscribe"
    /\ UNCHANGED <<todo, answers, subVars, chanVars, queueVars, loopVars, connVars,
                   clientVars, panicked>>

\* eth_subscribe, first step: ResponseRequired replaces the pending channel.
ResponseRequired ==
    /\ handler = "exec" /\ todo > 0
    /\ created < MaxSubs
    /\ MutexFree
    /\ chans' = chans + 1
    /\ pending' = chans + 1
    /\ handler' = "subscribe"
    /\ UNCHANGED <<todo, answers, subVars, closedChans, queueVars, loopVars, connVars,
                   clientVars, panicked>>

\* Notifier.Subscribe: a fresh id enters Notifier.subscriptions.
Subscribe ==
    /\ handler = "subscribe"
    /\ MutexFree
    /\ created' = created + 1
    /\ subs' = subs \cup {created + 1}
    /\ handler' = "register"
    /\ UNCHANGED <<todo, answers, once, unsubs, registry, chanVars, queueVars, loopVars,
                   connVars, clientVars, panicked>>

\* addSubscription: the id enters the agent's registry.
Register ==
    /\ handler = "register"
    /\ registry' = registry \cup {created}
    /\ answers' = answers \cup {created}
    /\ todo' = todo - 1
    /\ handler' = "exec"
    /\ UNCHANGED <<created, subs, once, unsubs, chanVars, queueVars, loopVars, connVars,
                   clientVars, panicked>>

\* "Unknown subscription type": the id stays in Notifier.subscriptions.
RejectType ==
    /\ handler = "register"
    /\ todo' = todo - 1
    /\ handler' = "exec"
    /\ UNCHANGED <<answers, subVars, chanVars, queueVars, loopVars, connVars, clientVars,
                   panicked>>

\* Notifier.Unsubscribe, under the mutex.
Unsubscribe(id) ==
    /\ MutexFree
    /\ IF id \in subs
       THEN OnceUnsubscribe(id) /\ subs' = subs \ {id}
       ELSE UNCHANGED <<once, registry, unsubs, subs>>

\* eth_unsubscribe, with an id the client was told or one nobody knows.
EthUnsubscribe ==
    /\ handler = "exec" /\ todo > 0
    /\ \E id \in told \cup {NoId} : Unsubscribe(id)
    /\ todo' = todo - 1
    /\ UNCHANGED <<handler, answers, created, chanVars, queueVars, loopVars, connVars,
                   clientVars, panicked>>

\* Any other request of the message.
OtherRequest ==
    /\ handler = "exec" /\ todo > 0
    /\ todo' = todo - 1
    /\ UNCHANGED <<handler, answers, subVars, chanVars, queueVars, loopVars, connVars,
                   clientVars, panicked>>

\* The response is written.
Respond ==
    /\ handler = "exec" /\ todo = 0
    /\ connOpen
    /\ told' = told \cup answers
    /\ handler' = "sent"
    /\ UNCHANGED <<todo, answers, subVars, chanVars, queueVars, loopVars, connVars,
                   delivered, panicked>>

\* The response could not be written.
RespondFails ==
    /\ handler = "exec" /\ todo = 0
    /\ HandlerReturn

\* Mutant: the pointer to the closed channel is kept.
ResponseSent_KeepsPointer ==
    /\ handler = "sent"
    /\ MutexFree
    /\ closedChans' = closedChans \cup ({pending} \ {NoChan})
    /\ handler' = "read"
    /\ UNCHANGED <<todo, answers, subVars, chans, pending, queueVars, loopVars, connVars,
                   clientVars, panicked>>

\* Mutant: the channel is dropped without being closed.
ResponseSent_NoClose ==
    /\ handler = "sent"
    /\ MutexFree
    /\ pending' = NoChan
    /\ handler' = "read"
    /\ UNCHANGED <<todo, answers, subVars, chans, closedChans, queueVars, loopVars, connVars,
                   clientVars, panicked>>

\* Notifier.ResponseSent: close the pending channel, if there is one. Only
\* the handler sets the pointer, so its two looks at it agree.
ResponseSent ==
    /\ handler = "sent"
    /\ MutexFree
    /\ closedChans' = closedChans \cup ({pending} \ {NoChan})
    /\ pending' = NoChan
    /\ handler' = "read"
    /\ UNCHANGED <<todo, answers, subVars, chans, queueVars, loopVars, connVars,
                   clientVars, panicked>>

\* net/http cancels the request's context once the handler has returned.
CancelContext ==
    /\ handler = "returned"
    /\ handler' = "exited"
    /\ ctxDone' = TRUE
    /\ UNCHANGED <<todo, answers, subVars, chanVars, queueVars, loopVars, connOpen,
                   clientVars, panicked>>

\* pingPong: a ping that cannot be written closes the socket.
PingFails ==
    /\ connOpen /\ ~ctxDone
    /\ connOpen' = FALSE
    /\ UNCHANGED <<handlerVars, subVars, chanVars, queueVars, loopVars, ctxDone,
                   clientVars, panicked>>
-----------------------------------------------------------------------------
(* The agent's side: SendAll starts one goroutine per registered             *)
(* subscription, and each of them runs Notifier.Send.                        *)

SendAll ==
    /\ heads < MaxHeads
    /\ registry # {}
    /\ heads' = heads + 1
    /\ senders' = senders \cup {[sub |-> id, head |-> heads + 1] : id \in registry}
    /\ UNCHANGED <<handlerVars, subVars, chanVars, queue, queueClosed, loopVars, connVars,
                   clientVars, panicked>>

\* Mutant: the goroutine sends its event again.
Send_Again(e) ==
    /\ e \in senders
    /\ ~queueClosed
    /\ Len(queue) < QueueCap
    /\ queue' = Append(queue, e)
    /\ UNCHANGED <<handlerVars, subVars, chanVars, queueClosed, senders, heads, loopVars,
                   connVars, clientVars, panicked>>

\* n.queue <- event: blocks while the queue is full.
Send(e) ==
    /\ e \in senders
    /\ ~queueClosed
    /\ Len(queue) < QueueCap
    /\ queue' = Append(queue, e)
    /\ senders' = senders \ {e}
    /\ UNCHANGED <<handlerVars, subVars, chanVars, queueClosed, heads, loopVars, connVars,
                   clientVars, panicked>>

\* n.queue <- event on a closed channel: a panic that nothing recovers.
SendPanics(e) ==
    /\ e \in senders
    /\ queueClosed
    /\ panicked' = TRUE
    /\ UNCHANGED <<handlerVars, subVars, chanVars, queueVars, loopVars, connVars, clientVars>>

\* `go notifier.Unsubscribe(id)` started by Subscription.unsubscribe.
AsyncUnsubscribe(id) ==
    /\ id \in unsubs
    /\ MutexFree
    /\ subs' = subs \ {id}
    /\ unsubs' = unsubs \ {id}
    /\ UNCHANGED <<handlerVars, created, once, registry, chanVars, queueVars, loopVars,
                   connVars, clientVars, panicked>>
-----------------------------------------------------------------------------
(* Notifier.run. No code of the program sends UnsubSignal, so every event    *)
(* is written to the socket.                                                 *)

\* Mutant: the inner select does not watch the context.
LoopCtxDone_OuterOnly ==
    /\ loop = "select"
    /\ ctxDone
    /\ loop' = "cleanup"
    /\ UNCHANGED <<handlerVars, subVars, chanVars, queueVars, event, waitChan, toClose,
                   connVars, clientVars, panicked>>

LoopCtxDone ==
    /\ loop \in {"select", "wait"}
    /\ ctxDone
    /\ loop' = "cleanup"
    /\ UNCHANGED <<handlerVars, subVars, chanVars, queueVars, event, waitChan, toClose,
                   connVars, clientVars, panicked>>

LoopReceive ==
    /\ loop = "select"
    /\ queue # <<>>
    /\ event' = Head(queue)
    /\ queue' = Tail(queue)
    /\ loop' = "check"
    /\ UNCHANGED <<handlerVars, subVars, chanVars, queueClosed, senders, heads, waitChan,
                   toClose, connVars, clientVars, panicked>>

\* The pending channel is read once, under the mutex.
LoopCheck ==
    /\ loop = "check"
    /\ waitChan' = pending
    /\ loop' = IF pending = NoChan THEN "send" ELSE "wait"
    /\ UNCHANGED <<handlerVars, subVars, chanVars, queueVars, event, toClose, connVars,
                   clientVars, panicked>>

LoopReleased ==
    /\ loop = "wait"
    /\ waitChan \in closedChans
    /\ loop' = "send"
    /\ UNCHANGED <<handlerVars, subVars, chanVars, queueVars, event, waitChan, toClose,
                   connVars, clientVars, panicked>>

LoopWrite ==
    /\ loop = "send"
    /\ connOpen
    /\ delivered' = Append(delivered, event)
    /\ event' = NoEvent
    /\ loop' = "select"
    /\ UNCHANGED <<handlerVars, subVars, chanVars, queueVars, waitChan, toClose, connVars,
                   told, panicked>>

\* The write failed: close the connection and leave the loop.
LoopWriteFails ==
    /\ loop = "send"
    /\ connOpen' = FALSE
    /\ loop' = "cleanup"
    /\ UNCHANGED <<handlerVars, subVars, chanVars, queueVars, event, waitChan, toClose,
                   ctxDone, clientVars, panicked>>

\* The deferred function takes the mutex, closes the connection and the
\* queue, and then unsubscribes every subscription it finds.
LoopCleanup ==
    /\ loop = "cleanup"
    /\ connOpen' = FALSE
    /\ queueClosed' = TRUE
    /\ toClose' = subs
    /\ loop' = "closing"
    /\ UNCHANGED <<handlerVars, subVars, chanVars, queue, senders, heads, event, waitChan,
                   ctxDone, clientVars, panicked>>

LoopCloseSub(id) ==
    /\ loop = "closing"
    /\ id \in toClose
    /\ OnceUnsubscribe(id)
    /\ toClose' = toClose \ {id}
    /\ UNCHANGED <<handlerVars, created, subs, chanVars, queueVars, loop, event, waitChan,
                   connVars, clientVars, panicked>>

LoopExit ==
    /\ loop = "closing"
    /\ toClose = {}
    /\ loop' = "exited"
    /\ UNCHANGED <<handlerVars, subVars, chanVars, queueVars, event, waitChan, toClose,
                   connVars, clientVars, panicked>>
-----------------------------------------------------------------------------
\* The steps websocketHandler takes without waiting for its client.
HandlerStep ==
    \/ EncodeFails \/ ResponseRequired \/ Subscribe \/ Register \/ RejectType
    \/ EthUnsubscribe \/ OtherRequest \/ Respond \/ RespondFails \/ ResponseSent

LoopStep ==
    \/ LoopCtxDone \/ LoopReceive \/ LoopCheck \/ LoopReleased
    \/ LoopWrite \/ LoopWriteFails \/ LoopCleanup \/ LoopExit
    \/ \E id \in Ids : LoopCloseSub(id)

SenderStep(e) == Send(e) \/ SendPanics(e)

Next ==
    /\ ~panicked
    /\ \/ ReadMessage \/ ReadFails \/ HandlerStep \/ CancelContext \/ PingFails
       \/ SendAll
       \/ \E e \in Events : SenderStep(e)
       \/ \E id \in Ids : AsyncUnsubscribe(id)
       \/ LoopStep

Spec == Init /\ [][Next]_vars

\* Goroutines that can run do run (the Go scheduler); reading from a closed
\* socket fails at once. The client, the agent and the network are not fair.
Fairness ==
    /\ WF_vars(~panicked /\ HandlerStep)
    /\ WF_vars(~panicked /\ ~connOpen /\ ReadFails)
    /\ WF_vars(~panicked /\ CancelContext)
    /\ WF_vars(~panicked /\ LoopStep)
    /\ \A e \in Events : WF_vars(~panicked /\ SenderStep(e))
    /\ \A id \in Ids : WF_vars(~panicked /\ AsyncUnsubscribe(id))

FairSpec == Spec /\ Fairness
-----------------------------------------------------------------------------
\* Control points of the loop at which it has an event in hand.
Holding == {"check", "wait", "send"}

\* Type invariant: every variable of the connection's model keeps its type,
\* and the handler is inside eth_subscribe only with a request left to run.
TypeOK ==
    /\ handler \in HandlerPC /\ todo \in 0..MaxBatch /\ answers \subseteq Ids
    /\ created \in 0..MaxSubs
    /\ subs \subseteq Ids /\ once \subseteq Ids /\ unsubs \subseteq Ids
    /\ registry \subseteq Ids
    /\ chans \in Nat /\ pending \in 0..chans /\ closedChans \subseteq 1..chans
    /\ queue \in Seq(Events) /\ queueClosed \in BOOLEAN
    /\ senders \subseteq Events /\ heads \in 0..MaxHeads
    /\ loop \in LoopPC /\ event \in Events \cup {NoEvent} /\ waitChan \in 0..chans
    /\ toClose \subseteq Ids
    /\ connOpen \in BOOLEAN /\ ctxDone \in BOOLEAN
    /\ told \subseteq Ids /\ delivered \in Seq(Events)
    /\ panicked \in BOOLEAN
    /\ handler \in {"subscribe", "register"} => todo > 0
    /\ handler = "subscribe" => created < MaxSubs
    /\ handler = "register" => created > 0
    /\ loop \in Holding => event \in Events
\* A client never reads an event of a subscription before the response that
\* tells it the subscription's id, whatever the order in which the handler,
\* the notifier loop and the sending goroutines run.
IdBeforeEvents == \A i \in 1..Len(delivered) : delivered[i].sub \in told

\* While the loop is alive, whatever the agent still publishes to is a
\* subscription the connection owns and nobody has unsubscribed, so that the
\* loop's cleanup will find it and an unsubscribed id is never published to.
RegisteredIsOwned ==
    loop \notin {"closing", "exited"} => registry \subseteq subs \ once

\* close() of a pending channel is reached at most once per channel: the
\* channel the notifier points to is an open one (a second close panics).
PendingIsOpen == pending # NoChan => pending \notin closedChans

\* Why ids come first: whatever the agent publishes to is in a response that
\* has been written or is being built; while it is only being built, there is
\* an open pending channel, and the loop waits for such a channel before it
\* writes an event.
IdOrder ==
    /\ registry \subseteq told \cup answers
    /\ \A e \in senders : e.sub \in told \cup answers
    /\ \A i \in 1..Len(queue) : queue[i].sub \in told \cup answers
    /\ loop \in Holding => event.sub \in told \cup answers
    /\ handler \in {"sent", "read"} => answers \subseteq told
    /\ handler \in {"subscribe", "register"} => pending # NoChan
    /\ pending = NoChan => answers \subseteq told
    /\ PendingIsOpen
    /\ loop = "wait" => event.sub \in told \/ waitChan \notin closedChans
    /\ loop = "send" => event.sub \in told
    /\ IdBeforeEvents

\* Why registrations are owned: an unsubscribed id was handed out before, and
\* only the cleanup can take the id that is just being registered.
Ownership ==
    /\ subs \cup toClose \cup once \subseteq 1..created
    /\ unsubs \subseteq once
    /\ (loop \notin {"closing", "exited"} /\ handler = "register") => created \in subs \ once
    /\ RegisteredIsOwned

\* Why events are written once: an event is in one place only, and a new one
\* has a head that no event had before.
EventsDistinct ==
    /\ \A e \in senders : e.head <= heads
    /\ \A i \in 1..Len(queue) : queue[i].head <= heads /\ queue[i] \notin senders
    /\ \A i, j \in 1..Len(queue) : queue[i] = queue[j] => i = j
    /\ loop \in Holding =>
        /\ event.head <= heads /\ event \notin senders
        /\ \A i \in 1..Len(queue) : queue[i] # event
    /\ \A i \in 1..Len(delivered) :
        /\ delivered[i].head <= heads /\ delivered[i] \notin senders
        /\ \A j \in 1..Len(queue) : queue[j] # delivered[i]
        /\ loop \in Holding => event # delivered[i]

Delivered(e) == \E i \in 1..Len(delivered) : delivered[i] = e

\* An event handed to Notifier.Send is written to the client, unless the
\* loop ends (or the process dies) first.
EventsDelivered ==
    \A e \in Events :
        (e \in senders) ~> (Delivered(e) \/ loop = "exited" \/ panicked)

\* The handler and the loop end together: a client that leaves stops the
\* loop, a failed write of the loop stops the handler.
Teardown ==
    (handler = "exited" \/ loop = "exited")
        ~> (panicked \/ (handler = "exited" /\ loop = "exited"))

\* No goroutine sends on the queue after the loop has closed it.
NoPanic == ~panicked
-----------------------------------------------------------------------------
\* What the client can observe, as the abstract stream of SubscriptionStream.
Stream == INSTANCE SubscriptionStream WITH open <- connOpen
ImplementsStream == Stream!Spec
=============================================================================
