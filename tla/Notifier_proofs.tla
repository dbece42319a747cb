--------------------------- MODULE Notifier_proofs ---------------------------
(* Theorems about Notifier, for any number of subscriptions, events and       *)
(* requests per message and any capacity of the queue.                        *)
EXTENDS Notifier, TLAPS

\* Every variable of the connection keeps its type.
THEOREM TypeCorrect == Spec => []TypeOK
<1> USE NotifierAssumption DEF NotifierAssumption, HandlerPC, LoopPC, Ids, NoId, NoChan
<1>1. Init => TypeOK
  <2> SUFFICES ASSUME Init PROVE TypeOK
    OBVIOUS
  <2>1. /\ queueClosed \in BOOLEAN /\ connOpen \in BOOLEAN /\ ctxDone \in BOOLEAN
        /\ panicked \in BOOLEAN
    BY Zenon DEF Init
  <2>2. /\ queue \in Seq(Events) /\ delivered \in Seq(Events)
        /\ event \in Events \cup {NoEvent}
    BY DEF Init
  <2>3. /\ chans \in Nat /\ pending \in 0..chans /\ closedChans \subseteq 1..chans
        /\ waitChan \in 0..chans
    BY DEF Init
  <2>4. /\ handler \in HandlerPC /\ todo \in 0..MaxBatch /\ loop \in LoopPC
        /\ created \in 0..MaxSubs /\ heads \in 0..MaxHeads
    BY DEF Init
  <2> QED BY <2>1, <2>2, <2>3, <2>4 DEF Init, TypeOK, Holding
<1>2. TypeOK /\ [Next]_vars => TypeOK'
  <2> SUFFICES ASSUME TypeOK, [Next]_vars PROVE TypeOK'
    OBVIOUS
  <2> USE DEF TypeOK, Holding, handlerVars, subVars, chanVars, queueVars, loopVars, connVars,
              clientVars
  <2>1. CASE ReadMessage
    BY <2>1 DEF ReadMessage
  <2>2. CASE ReadFails
    BY <2>2 DEF ReadFails, HandlerReturn
  <2>3. CASE EncodeFails
    BY <2>3 DEF EncodeFails, HandlerReturn
  <2>4. CASE ResponseRequired
    BY <2>4 DEF ResponseRequired
  <2>5. CASE Subscribe
    BY <2>5 DEF Subscribe
  <2>6. CASE Register
    BY <2>6 DEF Register
  <2>7. CASE RejectType
    BY <2>7 DEF RejectType
  <2>8. CASE EthUnsubscribe
    <3>1. PICK id \in told \cup {NoId} : Unsubscribe(id)
      BY <2>8 DEF EthUnsubscribe
    <3>2. subs' \subseteq Ids /\ once' \subseteq Ids /\ unsubs' \subseteq Ids /\ registry' \subseteq Ids
      <4>1. CASE id \in subs /\ id \notin once
        BY <3>1, <4>1 DEF Unsubscribe, OnceUnsubscribe
      <4>2. CASE id \notin subs \/ id \in once
        BY <3>1, <4>2 DEF Unsubscribe, OnceUnsubscribe
      <4> QED BY <4>1, <4>2
    <3>3. todo' \in 0..MaxBatch
      BY <2>8 DEF EthUnsubscribe
    <3> QED BY <2>8, <3>2, <3>3 DEF EthUnsubscribe
  <2>9. CASE OtherRequest
    BY <2>9 DEF OtherRequest
  <2>10. CASE Respond
    BY <2>10 DEF Respond
  <2>11. CASE RespondFails
    BY <2>11 DEF RespondFails, HandlerReturn
  <2>12. CASE ResponseSent
    BY <2>12 DEF ResponseSent
  <2>13. CASE CancelContext
    BY <2>13 DEF CancelContext
  <2>14. CASE PingFails
    BY <2>14 DEF PingFails
  <2>15. CASE SendAll
    <3>1. {[sub |-> id, head |-> heads + 1] : id \in registry} \subseteq Events
      <4> SUFFICES ASSUME NEW id \in registry PROVE [sub |-> id, head |-> heads + 1] \in Events
        OBVIOUS
      <4>1. id \in 1..MaxSubs
        OBVIOUS
      <4>2. heads + 1 \in 1..MaxHeads
        BY <2>15 DEF SendAll
      <4> QED BY <4>1, <4>2 DEF Events
    <3>2. senders' \subseteq Events /\ heads' \in 0..MaxHeads
      BY <2>15, <3>1 DEF SendAll
    <3> QED BY <2>15, <3>2 DEF SendAll
  <2>16. ASSUME NEW e \in Events, Send(e) PROVE TypeOK'
    BY <2>16 DEF Send
  <2>17. ASSUME NEW e \in Events, SendPanics(e) PROVE TypeOK'
    BY <2>17 DEF SendPanics
  <2>18. ASSUME NEW id \in Ids, AsyncUnsubscribe(id) PROVE TypeOK'
    BY <2>18 DEF AsyncUnsubscribe
  <2>19. CASE LoopCtxDone
    BY <2>19 DEF LoopCtxDone
  <2>20. CASE LoopReceive
    BY <2>20 DEF LoopReceive
  <2>21. CASE LoopCheck
    BY <2>21 DEF LoopCheck
  <2>22. CASE LoopReleased
    BY <2>22 DEF LoopReleased
  <2>23. CASE LoopWrite
    BY <2>23 DEF LoopWrite
  <2>24. CASE LoopWriteFails
    BY <2>24 DEF LoopWriteFails
  <2>25. CASE LoopCleanup
    BY <2>25 DEF LoopCleanup
  <2>26. CASE LoopExit
    BY <2>26 DEF LoopExit
  <2>27. ASSUME NEW id \in Ids, LoopCloseSub(id) PROVE TypeOK'
    BY <2>27 DEF LoopCloseSub, OnceUnsubscribe
  <2>28. CASE UNCHANGED vars
    BY <2>28 DEF vars
  <2> QED BY <2>1, <2>2, <2>3, <2>4, <2>5, <2>6, <2>7, <2>8, <2>9, <2>10, <2>11, <2>12,
            <2>13, <2>14, <2>15, <2>16, <2>17, <2>18, <2>19, <2>20, <2>21, <2>22, <2>23,
            <2>24, <2>25, <2>26, <2>27, <2>28
         DEF Next, HandlerStep, LoopStep, SenderStep
<1> QED BY <1>1, <1>2, PTL DEF Spec

\* The ownership of subscription ids is inductive.
LEMMA OwnershipInductive ==
    ASSUME TypeOK, Ownership, [Next]_vars
    PROVE  Ownership'
<1> USE DEF Ownership, RegisteredIsOwned, MutexFree, handlerVars, subVars, chanVars, queueVars,
            loopVars, connVars, clientVars
<1>0. created \in Nat
  BY NotifierAssumption DEF NotifierAssumption, TypeOK
<1>1. CASE ReadMessage
  BY <1>1 DEF ReadMessage
<1>2. CASE ReadFails
  BY <1>2 DEF ReadFails, HandlerReturn
<1>3. CASE EncodeFails
  BY <1>3 DEF EncodeFails, HandlerReturn
<1>4. CASE ResponseRequired
  BY <1>4 DEF ResponseRequired
<1>5. CASE Subscribe
  <2>1. created + 1 \notin once /\ created' = created + 1
    BY <1>5, <1>0 DEF Subscribe
  <2> QED BY <1>5, <2>1, <1>0 DEF Subscribe
<1>6. CASE Register
  BY <1>6, <1>0 DEF Register
<1>7. CASE RejectType
  BY <1>7 DEF RejectType
<1>8. CASE EthUnsubscribe
  <2>1. PICK id \in told \cup {NoId} : Unsubscribe(id)
    BY <1>8 DEF EthUnsubscribe
  <2>2. CASE id \in subs /\ id \notin once
    BY <1>8, <2>1, <2>2 DEF EthUnsubscribe, Unsubscribe, OnceUnsubscribe
  <2>3. CASE id \notin subs \/ id \in once
    BY <1>8, <2>1, <2>3 DEF EthUnsubscribe, Unsubscribe, OnceUnsubscribe
  <2> QED BY <2>2, <2>3
<1>9. CASE OtherRequest
  BY <1>9 DEF OtherRequest
<1>10. CASE Respond
  BY <1>10 DEF Respond
<1>11. CASE RespondFails
  BY <1>11 DEF RespondFails, HandlerReturn
<1>12. CASE ResponseSent
  BY <1>12 DEF ResponseSent
<1>13. CASE CancelContext
  BY <1>13 DEF CancelContext
<1>14. CASE PingFails
  BY <1>14 DEF PingFails
<1>15. CASE SendAll
  BY <1>15 DEF SendAll
<1>16. ASSUME NEW e \in Events, Send(e) PROVE Ownership'
  BY <1>16 DEF Send
<1>17. ASSUME NEW e \in Events, SendPanics(e) PROVE Ownership'
  BY <1>17 DEF SendPanics
<1>18. ASSUME NEW id \in Ids, AsyncUnsubscribe(id) PROVE Ownership'
  BY <1>18 DEF AsyncUnsubscribe
<1>19. CASE LoopCtxDone
  BY <1>19 DEF LoopCtxDone
<1>20. CASE LoopReceive
  BY <1>20 DEF LoopReceive
<1>21. CASE LoopCheck
  BY <1>21 DEF LoopCheck
<1>22. CASE LoopReleased
  BY <1>22 DEF LoopReleased
<1>23. CASE LoopWrite
  BY <1>23 DEF LoopWrite
<1>24. CASE LoopWriteFails
  BY <1>24 DEF LoopWriteFails
<1>25. CASE LoopCleanup
  BY <1>25 DEF LoopCleanup
<1>26. CASE LoopExit
  BY <1>26 DEF LoopExit
<1>27. ASSUME NEW id \in Ids, LoopCloseSub(id) PROVE Ownership'
  <2>1. CASE id \in once
    BY <1>27, <2>1 DEF LoopCloseSub, OnceUnsubscribe
  <2>2. CASE id \notin once
    BY <1>27, <2>2 DEF LoopCloseSub, OnceUnsubscribe
  <2> QED BY <2>1, <2>2
<1>28. CASE UNCHANGED vars
  BY <1>28 DEF vars
<1> QED BY <1>1, <1>2, <1>3, <1>4, <1>5, <1>6, <1>7, <1>8, <1>9, <1>10, <1>11, <1>12,
          <1>13, <1>14, <1>15, <1>16, <1>17, <1>18, <1>19, <1>20, <1>21, <1>22, <1>23,
          <1>24, <1>25, <1>26, <1>27, <1>28
       DEF Next, HandlerStep, LoopStep, SenderStep

\* While the loop runs, the agent publishes only to subscriptions that the
\* connection owns and that nobody has unsubscribed.
THEOREM RegistrationsAreOwned == Spec => []RegisteredIsOwned
<1>1. Init => Ownership
  BY DEF Init, Ownership, RegisteredIsOwned
<1>2. TypeOK /\ Ownership /\ [Next]_vars => Ownership'
  BY OwnershipInductive
<1>3. Ownership => RegisteredIsOwned
  BY DEF Ownership
<1> QED BY <1>1, <1>2, <1>3, TypeCorrect, PTL DEF Spec

\* The order of ids and events is inductive.
LEMMA IdOrderInductive ==
    ASSUME TypeOK, TypeOK', IdOrder, [Next]_vars
    PROVE  IdOrder'
<1> USE DEF IdOrder, IdBeforeEvents, PendingIsOpen, MutexFree, Holding, NoChan, handlerVars,
            subVars, chanVars, queueVars, loopVars, connVars, clientVars
<1>0. /\ chans \in Nat /\ pending \in 0..chans /\ closedChans \subseteq 1..chans
      /\ queue \in Seq(Events) /\ delivered \in Seq(Events)
  BY DEF TypeOK
<1>1. CASE ReadMessage
  BY <1>1 DEF ReadMessage
<1>2. CASE ReadFails
  BY <1>2 DEF ReadFails, HandlerReturn
<1>3. CASE EncodeFails
  BY <1>3 DEF EncodeFails, HandlerReturn
<1>4. CASE ResponseRequired
  <2>1. chans + 1 # 0 /\ chans + 1 \notin closedChans
    BY <1>0
  <2> QED BY <1>4, <2>1 DEF ResponseRequired
<1>5. CASE Subscribe
  BY <1>5 DEF Subscribe
<1>6. CASE Register
  BY <1>6 DEF Register
<1>7. CASE RejectType
  BY <1>7 DEF RejectType
<1>8. CASE EthUnsubscribe
  <2>1. PICK id \in told \cup {NoId} : Unsubscribe(id)
    BY <1>8 DEF EthUnsubscribe
  <2>2. registry' \subseteq registry
    BY <2>1 DEF Unsubscribe, OnceUnsubscribe
  <2> QED BY <1>8, <2>2 DEF EthUnsubscribe
<1>9. CASE OtherRequest
  BY <1>9 DEF OtherRequest
<1>10. CASE Respond
  BY <1>10 DEF Respond
<1>11. CASE RespondFails
  BY <1>11 DEF RespondFails, HandlerReturn
<1>12. CASE ResponseSent
  BY <1>12 DEF ResponseSent
<1>13. CASE CancelContext
  BY <1>13 DEF CancelContext
<1>14. CASE PingFails
  BY <1>14 DEF PingFails
<1>15. CASE SendAll
  BY <1>15 DEF SendAll
<1>16. ASSUME NEW e \in Events, Send(e) PROVE IdOrder'
  <2>1. \A i \in 1..Len(queue') : queue'[i].sub \in told \cup answers
    <3>1. Len(queue') = Len(queue) + 1
      BY <1>16, <1>0 DEF Send
    <3>2. \A i \in 1..Len(queue') : queue'[i] = IF i <= Len(queue) THEN queue[i] ELSE e
      BY <1>16, <1>0 DEF Send
    <3>3. e.sub \in told \cup answers
      BY <1>16 DEF Send
    <3> QED BY <1>0, <3>1, <3>2, <3>3
  <2> QED BY <1>16, <2>1 DEF Send
<1>17. ASSUME NEW e \in Events, SendPanics(e) PROVE IdOrder'
  BY <1>17 DEF SendPanics
<1>18. ASSUME NEW id \in Ids, AsyncUnsubscribe(id) PROVE IdOrder'
  BY <1>18 DEF AsyncUnsubscribe
<1>19. CASE LoopCtxDone
  BY <1>19 DEF LoopCtxDone
<1>20. CASE LoopReceive
  <2>1. queue # <<>> /\ event' = queue[1]
    BY <1>20, <1>0 DEF LoopReceive
  <2>2. \A i \in 1..Len(queue') : queue'[i] = queue[i + 1] /\ i + 1 \in 1..Len(queue)
    BY <1>20, <1>0 DEF LoopReceive
  <2>3. 1 \in 1..Len(queue)
    BY <2>1, <1>0
  <2> QED BY <1>20, <2>1, <2>2, <2>3 DEF LoopReceive
<1>21. CASE LoopCheck
  BY <1>21 DEF LoopCheck
<1>22. CASE LoopReleased
  BY <1>22 DEF LoopReleased
<1>23. CASE LoopWrite
  <2>1. \A i \in 1..Len(delivered') : delivered'[i].sub \in told
    <3>1. Len(delivered') = Len(delivered) + 1
      BY <1>23, <1>0 DEF LoopWrite, TypeOK
    <3>2. \A i \in 1..Len(delivered') :
              delivered'[i] = IF i <= Len(delivered) THEN delivered[i] ELSE event
      BY <1>23, <1>0 DEF LoopWrite, TypeOK
    <3>3. event.sub \in told
      BY <1>23 DEF LoopWrite
    <3> QED BY <1>0, <3>1, <3>2, <3>3
  <2> QED BY <1>23, <2>1 DEF LoopWrite
<1>24. CASE LoopWriteFails
  BY <1>24 DEF LoopWriteFails
<1>25. CASE LoopCleanup
  BY <1>25 DEF LoopCleanup
<1>26. CASE LoopExit
  BY <1>26 DEF LoopExit
<1>27. ASSUME NEW id \in Ids, LoopCloseSub(id) PROVE IdOrder'
  <2>1. registry' \subseteq registry
    BY <1>27 DEF LoopCloseSub, OnceUnsubscribe
  <2> QED BY <1>27, <2>1 DEF LoopCloseSub
<1>28. CASE UNCHANGED vars
  BY <1>28 DEF vars
<1> QED BY <1>1, <1>2, <1>3, <1>4, <1>5, <1>6, <1>7, <1>8, <1>9, <1>10, <1>11, <1>12,
          <1>13, <1>14, <1>15, <1>16, <1>17, <1>18, <1>19, <1>20, <1>21, <1>22, <1>23,
          <1>24, <1>25, <1>26, <1>27, <1>28
       DEF Next, HandlerStep, LoopStep, SenderStep

\* No event is written to the client before the response with the id of its
\* subscription.
THEOREM IdsComeFirst == Spec => []IdBeforeEvents
<1>1. Init => IdOrder
  BY DEF Init, IdOrder, IdBeforeEvents, PendingIsOpen, Holding, NoChan
<1>2. TypeOK /\ TypeOK' /\ IdOrder /\ [Next]_vars => IdOrder'
  BY IdOrderInductive
<1>3. IdOrder => IdBeforeEvents
  BY DEF IdOrder
<1> QED BY <1>1, <1>2, <1>3, TypeCorrect, PTL DEF Spec

\* That an event is in one place only is inductive.
LEMMA EventsDistinctInductive ==
    ASSUME TypeOK, TypeOK', EventsDistinct, [Next]_vars
    PROVE  EventsDistinct'
<1> USE DEF EventsDistinct, Holding, handlerVars, subVars, chanVars, queueVars, loopVars,
            connVars, clientVars
<1>0. /\ heads \in Nat /\ queue \in Seq(Events) /\ delivered \in Seq(Events)
      /\ \A e \in Events : e.head \in Nat
  BY NotifierAssumption DEF NotifierAssumption, TypeOK, Events
<1>1. CASE ReadMessage
  BY <1>1 DEF ReadMessage
<1>2. CASE ReadFails
  BY <1>2 DEF ReadFails, HandlerReturn
<1>3. CASE EncodeFails
  BY <1>3 DEF EncodeFails, HandlerReturn
<1>4. CASE ResponseRequired
  BY <1>4 DEF ResponseRequired
<1>5. CASE Subscribe
  BY <1>5 DEF Subscribe
<1>6. CASE Register
  BY <1>6 DEF Register
<1>7. CASE RejectType
  BY <1>7 DEF RejectType
<1>8. CASE EthUnsubscribe
  BY <1>8 DEF EthUnsubscribe
<1>9. CASE OtherRequest
  BY <1>9 DEF OtherRequest
<1>10. CASE Respond
  BY <1>10 DEF Respond
<1>11. CASE RespondFails
  BY <1>11 DEF RespondFails, HandlerReturn
<1>12. CASE ResponseSent
  BY <1>12 DEF ResponseSent
<1>13. CASE CancelContext
  BY <1>13 DEF CancelContext
<1>14. CASE PingFails
  BY <1>14 DEF PingFails
<1>15. CASE SendAll
  <2>1. \A e \in senders' : e \in senders \/ e.head = heads + 1
    BY <1>15 DEF SendAll
  <2>2. heads' = heads + 1 /\ queue' = queue /\ delivered' = delivered /\ event' = event /\ loop' = loop
    BY <1>15 DEF SendAll
  <2>3. \A e \in senders' : e.head <= heads'
    <3>1. \A e \in senders : e.head \in Nat /\ e.head <= heads
      BY <1>0 DEF TypeOK
    <3> HIDE DEF EventsDistinct
    <3> QED BY <1>0, <2>1, <2>2, <3>1
  <2>4. \A i \in 1..Len(queue') : queue'[i].head <= heads' /\ queue'[i] \notin senders'
    <3>1. \A i \in 1..Len(queue) : queue[i] \in Events
      BY <1>0
    <3> QED BY <1>0, <2>1, <2>2, <3>1
  <2>5. \A i \in 1..Len(delivered') : delivered'[i].head <= heads' /\ delivered'[i] \notin senders'
    <3>1. \A i \in 1..Len(delivered) : delivered[i] \in Events
      BY <1>0
    <3> QED BY <1>0, <2>1, <2>2, <3>1
  <2>6. loop' \in Holding => event'.head <= heads' /\ event' \notin senders'
    BY <1>0, <2>1, <2>2 DEF TypeOK
  <2> QED BY <2>2, <2>3, <2>4, <2>5, <2>6
<1>16. ASSUME NEW e \in Events, Send(e) PROVE EventsDistinct'
  <2>1. /\ Len(queue') = Len(queue) + 1
        /\ \A i \in 1..Len(queue') : queue'[i] = IF i <= Len(queue) THEN queue[i] ELSE e
    BY <1>16, <1>0 DEF Send
  <2>2. /\ e \in senders /\ senders' = senders \ {e} /\ heads' = heads
        /\ delivered' = delivered /\ event' = event /\ loop' = loop
    BY <1>16 DEF Send
  <2>3. \A i \in 1..Len(queue') : queue'[i].head <= heads' /\ queue'[i] \notin senders'
    BY <1>0, <2>1, <2>2
  <2>4. \A i, j \in 1..Len(queue') : queue'[i] = queue'[j] => i = j
    BY <1>0, <2>1, <2>2
  <2>5. loop' \in Holding => \A i \in 1..Len(queue') : queue'[i] # event'
    BY <1>0, <2>1, <2>2
  <2>6. \A i \in 1..Len(delivered') : \A j \in 1..Len(queue') : queue'[j] # delivered'[i]
    BY <1>0, <2>1, <2>2
  <2> QED BY <2>2, <2>3, <2>4, <2>5, <2>6
<1>17. ASSUME NEW e \in Events, SendPanics(e) PROVE EventsDistinct'
  BY <1>17 DEF SendPanics
<1>18. ASSUME NEW id \in Ids, AsyncUnsubscribe(id) PROVE EventsDistinct'
  BY <1>18 DEF AsyncUnsubscribe
<1>19. CASE LoopCtxDone
  BY <1>19 DEF LoopCtxDone
<1>20. CASE LoopReceive
  <2>1. /\ queue # <<>> /\ event' = queue[1] /\ Len(queue') = Len(queue) - 1
        /\ loop = "select" /\ loop' = "check"
        /\ senders' = senders /\ heads' = heads /\ delivered' = delivered
    BY <1>20, <1>0 DEF LoopReceive
  <2>2. \A i \in 1..Len(queue') : queue'[i] = queue[i + 1] /\ i + 1 \in 1..Len(queue)
    BY <1>20, <1>0 DEF LoopReceive
  <2>3. 1 \in 1..Len(queue)
    BY <2>1, <1>0
  <2>4. \A i, j \in 1..Len(queue') : queue'[i] = queue'[j] => i = j
    <3> SUFFICES ASSUME NEW i \in 1..Len(queue'), NEW j \in 1..Len(queue'), queue'[i] = queue'[j]
                 PROVE  i = j
      OBVIOUS
    <3>1. i + 1 = j + 1
      BY <2>2
    <3> QED BY <3>1, <1>0, <2>1
  <2>5. \A i \in 1..Len(queue') : queue'[i] # event'
    BY <2>1, <2>2, <2>3, <1>0
  <2> QED BY <2>1, <2>2, <2>3, <2>4, <2>5
<1>21. CASE LoopCheck
  BY <1>21 DEF LoopCheck
<1>22. CASE LoopReleased
  BY <1>22 DEF LoopReleased
<1>23. CASE LoopWrite
  <2>1. /\ Len(delivered') = Len(delivered) + 1
        /\ \A i \in 1..Len(delivered') :
              delivered'[i] = IF i <= Len(delivered) THEN delivered[i] ELSE event
    BY <1>23, <1>0 DEF LoopWrite, TypeOK
  <2>2. /\ loop = "send" /\ loop' = "select"
        /\ senders' = senders /\ heads' = heads /\ queue' = queue
    BY <1>23 DEF LoopWrite
  <2>3. \A i \in 1..Len(delivered') :
            /\ delivered'[i].head <= heads' /\ delivered'[i] \notin senders'
            /\ \A j \in 1..Len(queue') : queue'[j] # delivered'[i]
    BY <1>0, <2>1, <2>2
  <2> QED BY <2>2, <2>3
<1>24. CASE LoopWriteFails
  BY <1>24 DEF LoopWriteFails
<1>25. CASE LoopCleanup
  BY <1>25 DEF LoopCleanup
<1>26. CASE LoopExit
  BY <1>26 DEF LoopExit
<1>27. ASSUME NEW id \in Ids, LoopCloseSub(id) PROVE EventsDistinct'
  BY <1>27 DEF LoopCloseSub
<1>28. CASE UNCHANGED vars
  BY <1>28 DEF vars
<1> QED BY <1>1, <1>2, <1>3, <1>4, <1>5, <1>6, <1>7, <1>8, <1>9, <1>10, <1>11, <1>12,
          <1>13, <1>14, <1>15, <1>16, <1>17, <1>18, <1>19, <1>20, <1>21, <1>22, <1>23,
          <1>24, <1>25, <1>26, <1>27, <1>28
       DEF Next, HandlerStep, LoopStep, SenderStep

\* What the client observes of a connection is a run of the abstract
\* subscription stream: answers, each event once and after its id, a close.
THEOREM RefinesStream == Spec => ImplementsStream
<1>1. Init => Stream!Init
  BY DEF Init, Stream!Init
<1>2. TypeOK /\ IdOrder /\ EventsDistinct /\ [Next]_vars => [Stream!Next]_(Stream!streamVars)
  <2> SUFFICES ASSUME TypeOK, IdOrder, EventsDistinct, [Next]_vars
               PROVE  Stream!Next \/ UNCHANGED <<told, delivered, connOpen>>
    BY DEF Stream!streamVars
  <2> DEFINE Stays == UNCHANGED <<told, delivered, connOpen>>
  <2> USE DEF handlerVars, subVars, chanVars, queueVars, loopVars, connVars, clientVars
  <2>0. ASSUME connOpen' = FALSE, UNCHANGED <<told, delivered>> PROVE Stream!Close \/ Stays
    BY <2>0 DEF Stream!Close, TypeOK
  <2>1. CASE ReadMessage
    BY <2>1 DEF ReadMessage
  <2>2. CASE ReadFails
    BY <2>0, <2>2 DEF ReadFails, HandlerReturn, Stream!Next
  <2>3. CASE EncodeFails
    BY <2>0, <2>3 DEF EncodeFails, HandlerReturn, Stream!Next
  <2>4. CASE ResponseRequired
    BY <2>4 DEF ResponseRequired
  <2>5. CASE Subscribe
    BY <2>5 DEF Subscribe
  <2>6. CASE Register
    BY <2>6 DEF Register
  <2>7. CASE RejectType
    BY <2>7 DEF RejectType
  <2>8. CASE EthUnsubscribe
    BY <2>8 DEF EthUnsubscribe
  <2>9. CASE OtherRequest
    BY <2>9 DEF OtherRequest
  <2>10. CASE Respond
    <3>1. answers \ told \in SUBSET (Ids \ told) /\ told' = told \cup (answers \ told)
      BY <2>10 DEF Respond, TypeOK
    <3> QED BY <2>10, <3>1 DEF Respond, Stream!Answer, Stream!Next
  <2>11. CASE RespondFails
    BY <2>0, <2>11 DEF RespondFails, HandlerReturn, Stream!Next
  <2>12. CASE ResponseSent
    BY <2>12 DEF ResponseSent
  <2>13. CASE CancelContext
    BY <2>13 DEF CancelContext
  <2>14. CASE PingFails
    BY <2>0, <2>14 DEF PingFails, Stream!Next
  <2>15. CASE SendAll
    BY <2>15 DEF SendAll
  <2>16. ASSUME NEW e \in Events, Send(e) PROVE Stream!Next \/ Stays
    BY <2>16 DEF Send
  <2>17. ASSUME NEW e \in Events, SendPanics(e) PROVE Stream!Next \/ Stays
    BY <2>17 DEF SendPanics
  <2>18. ASSUME NEW id \in Ids, AsyncUnsubscribe(id) PROVE Stream!Next \/ Stays
    BY <2>18 DEF AsyncUnsubscribe
  <2>19. CASE LoopCtxDone
    BY <2>19 DEF LoopCtxDone
  <2>20. CASE LoopReceive
    BY <2>20 DEF LoopReceive
  <2>21. CASE LoopCheck
    BY <2>21 DEF LoopCheck
  <2>22. CASE LoopReleased
    BY <2>22 DEF LoopReleased
  <2>23. CASE LoopWrite
    <3>1. event \in Events /\ event.sub \in told /\ \A i \in 1..Len(delivered) : delivered[i] # event
      BY <2>23 DEF LoopWrite, TypeOK, IdOrder, EventsDistinct, Holding
    <3> QED BY <2>23, <3>1 DEF LoopWrite, Stream!Notify, Stream!Next
  <2>24. CASE LoopWriteFails
    BY <2>0, <2>24 DEF LoopWriteFails, Stream!Next
  <2>25. CASE LoopCleanup
    BY <2>0, <2>25 DEF LoopCleanup, Stream!Next
  <2>26. CASE LoopExit
    BY <2>26 DEF LoopExit
  <2>27. ASSUME NEW id \in Ids, LoopCloseSub(id) PROVE Stream!Next \/ Stays
    BY <2>27 DEF LoopCloseSub
  <2>28. CASE UNCHANGED vars
    BY <2>28 DEF vars
  <2> QED BY <2>1, <2>2, <2>3, <2>4, <2>5, <2>6, <2>7, <2>8, <2>9, <2>10, <2>11, <2>12,
            <2>13, <2>14, <2>15, <2>16, <2>17, <2>18, <2>19, <2>20, <2>21, <2>22, <2>23,
            <2>24, <2>25, <2>26, <2>27, <2>28
         DEF Next, HandlerStep, LoopStep, SenderStep
<1>3. Init => IdOrder
  BY DEF Init, IdOrder, IdBeforeEvents, PendingIsOpen, Holding, NoChan
<1>4. Init => EventsDistinct
  BY DEF Init, EventsDistinct, Holding
<1>5. TypeOK /\ TypeOK' /\ IdOrder /\ [Next]_vars => IdOrder'
  BY IdOrderInductive
<1>6. TypeOK /\ TypeOK' /\ EventsDistinct /\ [Next]_vars => EventsDistinct'
  BY EventsDistinctInductive
<1> QED BY <1>1, <1>2, <1>3, <1>4, <1>5, <1>6, TypeCorrect, PTL
        DEF Spec, ImplementsStream, Stream!Spec
=============================================================================
