------------------------- MODULE SubscriptionStream -------------------------
(***************************************************************************)
(* What a websocket client of charon may observe, without any of the       *)
(* machinery: answers that tell it subscription ids, events of the         *)
(* subscriptions it was told about, each of them once, and nothing after   *)
(* the connection is closed.                                               *)
(***************************************************************************)
EXTENDS Naturals, Sequences

CONSTANTS Ids, Events

VARIABLES told, delivered, open
streamVars == <<told, delivered, open>>

Init == told = {} /\ delivered = <<>> /\ open = TRUE

\* A response with the ids of the subscriptions it created.
Answer ==
    /\ open
    /\ \E S \in SUBSET (Ids \ told) : told' = told \cup S
    /\ UNCHANGED <<delivered, open>>

\* An event of a subscription the client knows, not seen before.
Notify ==
    /\ open
    /\ \E e \in Events :
        /\ e.sub \in told
        /\ \A i \in 1..Len(delivered) : delivered[i] # e
        /\ delivered' = Append(delivered, e)
    /\ UNCHANGED <<told, open>>

Close ==
    /\ open
    /\ open' = FALSE
    /\ UNCHANGED <<told, delivered>>

Next == Answer \/ Notify \/ Close

Spec == Init /\ [][Next]_streamVars
=============================================================================
