---------------------------- MODULE Server_proofs ----------------------------
(***************************************************************************)
(* Proofs about the request statistics and the server for any size of the  *)
(* ring, any clients, and any minimum rate; about the health check of the  *)
(* blocks and what is learnt after the start for any number of requests    *)
(* and health checks, any chains, heights, pauses and failures.            *)
(***************************************************************************)
EXTENDS Server, BlockSync, Startup, FiniteSetTheorems, SequenceTheorems, TLAPS

\* The outcomes of one kind among the counted ones.
Slotted(outcome) == {i \in Filled : lastRequests[i] = outcome}

\* Until the ring has been filled once, the slots before lastRequest are those
\* that were written.
RingInv ==
    /\ TypeOK
    /\ success \in Nat /\ failures \in Nat /\ Counted <= N
    /\ Counted < N => lastRequest = Counted
    /\ CountersExact

LEMMA SlotsAreFinite ==
  ASSUME TypeOK, success \in Nat, failures \in Nat, Counted <= N
  PROVE  IsFiniteSet(Filled) /\ Filled \subseteq Slots
<1>1. Filled = 0..(Counted - 1) \/ Filled = 0..(N - 1)
  BY DEF Filled, Slots
<1>2. Counted \in Nat /\ N \in Nat
  BY AnalyticsAssumption DEF Counted
<1>3. IsFiniteSet(Filled)
  BY <1>1, <1>2, FS_Interval
<1>4. Filled \subseteq Slots
  BY <1>2 DEF Filled, Slots
<1> QED BY <1>3, <1>4

LEMMA NextSlot ==
  ASSUME NEW i \in Slots
  PROVE  /\ (i + 1) % N \in Slots
         /\ i + 1 < N => (i + 1) % N = i + 1
BY AnalyticsAssumption DEF Slots

LEMMA BumpKeepsRing ==
  ASSUME RingInv, NEW outcome \in BOOLEAN, bump(outcome)
  PROVE  RingInv' /\ Counted' = (IF Counted < N THEN Counted + 1 ELSE N)
<1> DEFINE l == lastRequest
           oldest == lastRequests[l]
<1>0. /\ N \in Nat /\ N > 0 /\ l \in Slots /\ l \in 0..(N - 1) /\ Counted \in Nat
      /\ Counted = success + failures /\ success \in Nat /\ failures \in Nat /\ Counted <= N
      /\ lastRequests \in [Slots -> BOOLEAN] /\ oldest \in BOOLEAN
  BY AnalyticsAssumption DEF RingInv, TypeOK, Counted, Slots
<1>1. /\ lastRequests' = [lastRequests EXCEPT ![l] = outcome]
      /\ lastRequest' = (l + 1) % N
      /\ lastRequests'[l] = outcome
      /\ \A i \in Slots \ {l} : lastRequests'[i] = lastRequests[i]
  BY <1>0 DEF bump
<1>2. IsFiniteSet(Filled) /\ Filled \subseteq Slots
  BY SlotsAreFinite DEF RingInv
<1>3. /\ success = Cardinality(Slotted(TRUE))
      /\ failures = Cardinality(Slotted(FALSE))
  <2>1. {i \in Filled : lastRequests[i]} = Slotted(TRUE)
        /\ {i \in Filled : ~lastRequests[i]} = Slotted(FALSE)
    BY <1>0, <1>2 DEF Slotted
  <2> QED BY <2>1 DEF RingInv, CountersExact
<1> DEFINE Written(k) == {i \in Filled \cup {l} : lastRequests'[i] = k}
<1>4. \A k \in BOOLEAN :
        /\ Cardinality(Slotted(k)) \in Nat /\ Cardinality(Written(k)) \in Nat
        /\ Cardinality(Written(k)) =
             Cardinality(Slotted(k)) + One(outcome = k) - One(l \in Filled /\ oldest = k)
  <2> SUFFICES ASSUME NEW k \in BOOLEAN
               PROVE /\ Cardinality(Slotted(k)) \in Nat /\ Cardinality(Written(k)) \in Nat
                     /\ Cardinality(Written(k)) =
                          Cardinality(Slotted(k)) + One(outcome = k) - One(l \in Filled /\ oldest = k)
    OBVIOUS
  <2> DEFINE A == Slotted(k)
             B == Written(k)
  <2>1. /\ \A i \in Filled \ {l} : lastRequests[i] = lastRequests'[i]
        /\ \A b \in BOOLEAN : One(b) \in Nat
    BY <1>1, <1>2 DEF One
  <2>2. IsFiniteSet(A)
    BY <1>2, FS_Subset DEF Slotted
  <2>3. Cardinality(A) \in Nat
    BY <2>2, FS_CardinalityType
  <2>4. CASE (l \in Filled /\ oldest = k) <=> (outcome = k)
    <3>1. A = B BY <1>1, <2>1, <2>4 DEF Slotted
    <3>2. One(outcome = k) = One(l \in Filled /\ oldest = k) /\ One(outcome = k) \in Nat
      BY <2>4 DEF One
    <3> HIDE DEF A, B
    <3>3. Cardinality(B) = Cardinality(A) + One(outcome = k) - One(l \in Filled /\ oldest = k)
      BY <2>3, <3>1, <3>2
    <3> QED BY <2>3, <3>1, <3>3 DEF A, B
  <2>5. CASE ~(l \in Filled /\ oldest = k) /\ outcome = k
    <3>1. l \notin A /\ B = A \cup {l} BY <1>1, <2>1, <2>5 DEF Slotted
    <3> HIDE DEF A, B
    <3>2. Cardinality(B) = Cardinality(A) + 1
      BY <2>2, <3>1, FS_AddElement
    <3>3. Cardinality(B) = Cardinality(A) + One(outcome = k) - One(l \in Filled /\ oldest = k)
      BY <2>3, <2>5, <3>2 DEF One
    <3> QED BY <2>3, <3>2, <3>3 DEF A, B
  <2>6. CASE l \in Filled /\ oldest = k /\ outcome # k
    <3>1. l \in A /\ B = A \ {l} BY <1>1, <2>1, <2>6 DEF Slotted
    <3> HIDE DEF A, B
    <3>2. IsFiniteSet(B) /\ Cardinality(B) = Cardinality(A) - 1
      BY <2>2, <3>1, FS_RemoveElement
    <3>3. Cardinality(B) = Cardinality(A) + One(outcome = k) - One(l \in Filled /\ oldest = k)
      BY <2>3, <2>6, <3>2 DEF One
    <3> QED BY <2>3, <3>2, <3>3, FS_CardinalityType DEF A, B
  <2> QED BY <2>4, <2>5, <2>6
<1> HIDE DEF Written
<1>5. Counted >= N <=> l \in Filled
  BY <1>0 DEF RingInv, Filled
<1>6. /\ One(outcome = TRUE) = One(outcome) /\ One(outcome = FALSE) = One(~outcome)
      /\ One(l \in Filled /\ oldest = TRUE) = One(Counted >= N /\ oldest)
      /\ One(l \in Filled /\ oldest = FALSE) = One(Counted >= N /\ ~oldest)
  BY <1>0, <1>5 DEF One
<1>7. /\ success' = Cardinality(Written(TRUE)) /\ failures' = Cardinality(Written(FALSE))
      /\ success' \in Nat /\ failures' \in Nat
      /\ Counted' = (IF Counted < N THEN Counted + 1 ELSE N)
  <2>1. /\ success' = success + One(outcome) - One(Counted >= N /\ oldest)
        /\ failures' = failures + One(~outcome) - One(Counted >= N /\ ~oldest)
        /\ Counted' = success' + failures'
    BY DEF bump, Counted
  <2>2. /\ success' = Cardinality(Written(TRUE)) /\ failures' = Cardinality(Written(FALSE))
        /\ success' \in Nat /\ failures' \in Nat
    BY <1>3, <1>4, <1>6, <2>1
  <2>3. /\ One(outcome) \in Nat /\ One(~outcome) \in Nat /\ One(outcome) + One(~outcome) = 1
        /\ One(Counted >= N /\ oldest) \in Nat /\ One(Counted >= N /\ ~oldest) \in Nat
        /\ One(Counted >= N /\ oldest) + One(Counted >= N /\ ~oldest) = One(Counted >= N)
    BY <1>0 DEF One
  <2>4. Counted' = Counted + 1 - One(Counted >= N)
    BY <1>0, <2>1, <2>3
  <2>5. Counted' = (IF Counted < N THEN Counted + 1 ELSE N)
    BY <1>0, <2>4 DEF One
  <2> QED BY <2>2, <2>5
<1>8. TypeOK'
  <2>1. lastRequest' \in Slots
    BY <1>0, <1>1, NextSlot
  <2>2. lastRequests' \in [Slots -> BOOLEAN]
    BY <1>0, <1>1
  <2>3. success' \in Int /\ failures' \in Int
    <3>1. success' \in Nat /\ failures' \in Nat
      BY <1>7, Zenon
    <3> QED BY <3>1
  <2> QED BY <2>1, <2>2, <2>3, Zenon DEF TypeOK, Slots
<1>9. Counted' < N => lastRequest' = Counted'
  BY <1>0, <1>1, <1>7, NextSlot DEF RingInv
<1>10. CountersExact'
  <2>1. Filled' = Filled \cup {l}
    BY <1>0, <1>7 DEF RingInv, Filled, Slots
  <2>2. (Filled \cup {l}) \subseteq Slots /\ \A i \in Slots : lastRequests'[i] \in BOOLEAN
    BY <1>0, <1>2, <1>8 DEF TypeOK
  <2>3. {i \in Filled' : lastRequests'[i]} = Written(TRUE)
        /\ {i \in Filled' : ~lastRequests'[i]} = Written(FALSE)
    BY <2>1, <2>2 DEF Written
  <2> QED BY <1>7, <2>3 DEF CountersExact
<1>11. Counted' <= N
  BY <1>0, <1>7
<1> QED BY <1>7, <1>8, <1>9, <1>10, <1>11 DEF RingInv

\* The statistics change in one action only, by one outcome.
LEMMA ServerSteps ==
  ASSUME [ServerNext]_serverVars
  PROVE  UNCHANGED vars \/ \E outcome \in BOOLEAN : bump(outcome)
BY DEF ServerNext, serverVars, Receive, Post, PostBatch, ReadMessage, Lock, Handle, Decode, Transform, Respond,
       Count, Return,
       Counts, Success, Failure

LEMMA RingStuttersToo ==
  ASSUME RingInv, UNCHANGED vars
  PROVE  RingInv'
BY DEF RingInv, TypeOK, CountersExact, Counted, Filled, vars

LEMMA RingInitially ==
  ASSUME Init
  PROVE  RingInv
<1>1. /\ success = 0 /\ failures = 0 /\ lastRequest = 0 /\ Counted = 0 /\ N \in Nat /\ N > 0
      /\ lastRequests \in [Slots -> BOOLEAN]
  BY AnalyticsAssumption DEF Init, Counted
<1>2. Filled = {}
  BY <1>1 DEF Filled
<1>3. CountersExact
  BY <1>1, <1>2, FS_EmptySet DEF CountersExact
<1> QED BY <1>1, <1>3 DEF RingInv, TypeOK, Slots

\* However often the ring wraps and whichever requests report at once, the
\* counters are those of the outcomes in it, and bump never panics.
THEOREM CountersAreExact == ServerSpec => []CountersExact
<1>1. ServerInit => RingInv
  BY RingInitially DEF ServerInit
<1>2. RingInv /\ [ServerNext]_serverVars => RingInv'
  BY ServerSteps, RingStuttersToo, BumpKeepsRing
<1>3. RingInv => CountersExact
  BY DEF RingInv
<1> QED BY <1>1, <1>2, <1>3, PTL DEF ServerSpec

-----------------------------------------------------------------------------
(* The sliding window                                                        *)

\* The slot of the i-th of c counted outcomes, oldest first, when l is next.
SlotOf(l, c, i) == IF l - c + i - 1 < 0 THEN l - c + i - 1 + N ELSE l - c + i - 1

window == [i \in 1..Counted |-> lastRequests[(lastRequest - Counted + i - 1) % N]]

LEMMA SlotIsRead ==
  ASSUME NEW l \in Slots, NEW c \in Nat, c <= N, c < N => l = c, NEW i \in 1..c
  PROVE  (l - c + i - 1) % N = SlotOf(l, c, i) /\ SlotOf(l, c, i) \in Slots
<1>1. l - c + i - 1 \in Int /\ -N <= l - c + i - 1 /\ l - c + i - 1 < N
  BY AnalyticsAssumption DEF Slots
<1>2. \A a \in Int : -N <= a /\ a < N => a % N = IF a < 0 THEN a + N ELSE a
  BY AnalyticsAssumption
<1>3. (l - c + i - 1) % N = SlotOf(l, c, i)
  BY <1>1, <1>2 DEF SlotOf
<1>4. SlotOf(l, c, i) \in Slots
  BY AnalyticsAssumption DEF SlotOf, Slots
<1> QED BY <1>3, <1>4

LEMMA WindowSlots ==
  ASSUME RingInv
  PROVE  /\ window = [i \in 1..Counted |-> lastRequests[SlotOf(lastRequest, Counted, i)]]
         /\ \A i \in 1..Counted : SlotOf(lastRequest, Counted, i) \in Slots
         /\ window \in Seq(BOOLEAN) /\ Len(window) = Counted
<1>1. /\ Counted \in Nat /\ Counted <= N /\ lastRequest \in Slots
      /\ Counted < N => lastRequest = Counted
      /\ lastRequests \in [Slots -> BOOLEAN]
  BY AnalyticsAssumption DEF RingInv, TypeOK, Counted
<1>2. \A i \in 1..Counted :
        /\ (lastRequest - Counted + i - 1) % N = SlotOf(lastRequest, Counted, i)
        /\ SlotOf(lastRequest, Counted, i) \in Slots
  BY <1>1, SlotIsRead
<1>3. window = [i \in 1..Counted |-> lastRequests[SlotOf(lastRequest, Counted, i)]]
  BY <1>2 DEF window
<1>4. \A i \in 1..Counted : lastRequests[SlotOf(lastRequest, Counted, i)] \in BOOLEAN
  BY <1>1, <1>2
<1>5. window \in Seq(BOOLEAN) /\ Len(window) = Counted
  BY <1>1, <1>3, <1>4
<1> QED BY <1>2, <1>3, <1>5

\* A sequence that loses its first element and gets a last one.
LEMMA Shifted ==
  ASSUME NEW S, NEW w \in Seq(S), NEW n \in Nat, n > 0, Len(w) = n, NEW e \in S
  PROVE  Append(Tail(w), e) = [i \in 1..n |-> IF i = n THEN e ELSE w[i + 1]]
<1>1. Tail(w) \in Seq(S) /\ Len(Tail(w)) = n - 1 /\ \A i \in 1..(n - 1) : Tail(w)[i] = w[i + 1]
  BY HeadTailProperties, EmptySeq
<1>2. /\ Append(Tail(w), e) \in Seq(S) /\ Len(Append(Tail(w), e)) = n
      /\ \A i \in 1..(n - 1) : Append(Tail(w), e)[i] = w[i + 1]
      /\ Append(Tail(w), e)[n] = e
  BY <1>1, AppendProperties
<1> DEFINE a == Append(Tail(w), e)
<1> HIDE DEF a
<1>3. a \in [1..n -> S] /\ \A i \in 1..n : a[i] = IF i = n THEN e ELSE w[i + 1]
  <2>1. a \in Seq(S) /\ Len(a) = n
    BY <1>2 DEF a
  <2>2. a \in [1..n -> S]
    BY <2>1, LenProperties
  <2>3. a[n] = e /\ \A i \in 1..(n - 1) : a[i] = w[i + 1]
    BY <1>2 DEF a
  <2> QED BY <2>2, <2>3
<1>4. a = [i \in 1..n |-> IF i = n THEN e ELSE w[i + 1]]
  BY <1>3
<1> QED BY <1>4 DEF a

\* An outcome written to the ring is appended to the window, and when the ring
\* is full the oldest leaves it.
LEMMA BumpRecords ==
  ASSUME RingInv, RingInv', NEW outcome \in BOOLEAN, bump(outcome),
         Counted' = IF Counted < N THEN Counted + 1 ELSE N
  PROVE  window' = IF Len(window) < N THEN Append(window, outcome) ELSE Append(Tail(window), outcome)
<1>1. /\ N \in Nat /\ N > 0 /\ Counted \in Nat /\ Counted <= N
      /\ lastRequest \in Int /\ 0 <= lastRequest /\ lastRequest < N
      /\ Counted < N => lastRequest = Counted
      /\ lastRequests \in [Slots -> BOOLEAN]
  BY AnalyticsAssumption DEF RingInv, TypeOK, Slots, Counted
<1>2. /\ window = [i \in 1..Counted |-> lastRequests[SlotOf(lastRequest, Counted, i)]]
      /\ \A i \in 1..Counted : SlotOf(lastRequest, Counted, i) \in Slots
      /\ window \in Seq(BOOLEAN) /\ Len(window) = Counted
  BY WindowSlots
<1>3. window' = [i \in 1..Counted' |-> lastRequests'[SlotOf(lastRequest', Counted', i)]]
  <2>1. Counted' \in Nat /\ Counted' <= N /\ (Counted' < N => lastRequest' = Counted')
        /\ lastRequest' \in Slots
    BY <1>1 DEF RingInv, TypeOK, Slots
  <2>2. \A i \in 1..Counted' :
          (lastRequest' - Counted' + i - 1) % N = SlotOf(lastRequest', Counted', i)
    BY <2>1, SlotIsRead
  <2> QED BY <2>2 DEF window
<1>4. lastRequest' = IF lastRequest + 1 < N THEN lastRequest + 1 ELSE 0
  <2>1. lastRequest + 1 = N => (lastRequest + 1) % N = 0
    BY <1>1
  <2>2. lastRequest + 1 < N => (lastRequest + 1) % N = lastRequest + 1
    BY <1>1
  <2> QED BY <1>1, <2>1, <2>2 DEF bump
<1>5. lastRequests' = [lastRequests EXCEPT ![lastRequest] = outcome] /\ lastRequest \in Slots
  BY <1>1 DEF bump, Slots
<1>6. CASE Counted < N
  <2>1. \A i \in 1..Counted :
        /\ SlotOf(lastRequest', Counted', i) = SlotOf(lastRequest, Counted, i)
        /\ SlotOf(lastRequest, Counted, i) # lastRequest
    BY <1>1, <1>4, <1>6 DEF SlotOf
  <2>2. \A i \in 1..Counted' : i = Counted + 1 => SlotOf(lastRequest', Counted', i) = lastRequest
    BY <1>1, <1>4, <1>6 DEF SlotOf
  <2> HIDE DEF SlotOf
  <2>3. window' = [i \in 1..(Counted + 1) |-> IF i = Counted + 1 THEN outcome ELSE window[i]]
    BY <1>1, <1>2, <1>3, <1>5, <1>6, <2>1, <2>2
  <2>4. window' = Append(window, outcome)
    BY <1>1, <1>2, <2>3
  <2> QED BY <1>2, <1>6, <2>4
<1>7. CASE Counted = N
  <2>1. \A i \in 1..(N - 1) :
        /\ SlotOf(lastRequest', Counted', i) = SlotOf(lastRequest, Counted, i + 1)
        /\ SlotOf(lastRequest, Counted, i + 1) # lastRequest
    BY <1>1, <1>4, <1>7 DEF SlotOf
  <2>2. SlotOf(lastRequest', Counted', N) = lastRequest
    BY <1>1, <1>4, <1>7 DEF SlotOf
  <2> HIDE DEF SlotOf
  <2>3. window' = [i \in 1..N |-> IF i = N THEN outcome ELSE window[i + 1]]
    BY <1>1, <1>2, <1>3, <1>5, <1>7, <2>1, <2>2
  <2>4. Append(Tail(window), outcome) = [i \in 1..N |-> IF i = N THEN outcome ELSE window[i + 1]]
    <3> DEFINE S == BOOLEAN
    <3>1. window \in Seq(S) /\ outcome \in S /\ N \in Nat /\ N > 0 /\ Len(window) = N
      BY <1>1, <1>2, <1>7
    <3> HIDE DEF S
    <3> QED BY <3>1, Shifted
  <2>5. ~(Len(window) < N)
    BY <1>1, <1>2, <1>7
  <2> QED BY <2>3, <2>4, <2>5, Zenon
<1> QED BY <1>1, <1>6, <1>7

\* Read from its oldest slot, the ring is the window of the last N outcomes:
\* what is counted, and what is pushed off, are the right ones in the right
\* order.
THEOREM RingIsWindow == ServerSpec => ImplementsWindow
<1>1. ServerInit => RingInv /\ Window!Init
  <2> SUFFICES ASSUME ServerInit PROVE RingInv /\ Window!Init
    OBVIOUS
  <2>1. RingInv BY RingInitially DEF ServerInit
  <2>2. Counted = 0 BY DEF ServerInit, Init, Counted
  <2>3. window = <<>> BY <2>1, <2>2, WindowSlots
  <2> QED BY <2>1, <2>3 DEF Window!Init, window
<1>2. RingInv /\ [ServerNext]_serverVars => RingInv' /\ [Window!Next]_window
  <2> SUFFICES ASSUME RingInv, [ServerNext]_serverVars PROVE RingInv' /\ [Window!Next]_window
    OBVIOUS
  <2>1. CASE UNCHANGED vars
    <3>1. window' = window BY <2>1 DEF window, vars, Counted
    <3> QED BY <2>1, <3>1, RingStuttersToo
  <2>2. ASSUME NEW outcome \in BOOLEAN, bump(outcome) PROVE RingInv' /\ [Window!Next]_window
    <3>1. RingInv' /\ Counted' = (IF Counted < N THEN Counted + 1 ELSE N)
      BY <2>2, BumpKeepsRing
    <3>2. window' = IF Len(window) < N THEN Append(window, outcome) ELSE Append(Tail(window), outcome)
      BY <2>2, <3>1, BumpRecords
    <3>3. Window!Record(outcome)
      BY <3>2 DEF Window!Record, window
    <3> QED BY <3>1, <3>3 DEF Window!Next
  <2> QED BY <2>1, <2>2, ServerSteps
<1> QED BY <1>1, <1>2, PTL DEF ServerSpec, ImplementsWindow, Window!Spec, window
-----------------------------------------------------------------------------
(* Requests                                                                  *)

PCs == {"idle", "waiting", "handling", "transforming", "answered"}
AtWork(c) == pc[c] \in {"handling", "transforming", "answered"}

\* In single-threaded mode a request that is at work holds the mutex, unless
\* it is a batch or came through a websocket; and who holds it is such a request.
MutexInv ==
    /\ pc \in [Clients -> PCs] /\ route \in [Clients -> Routes]
    /\ holder \in Clients \cup {Nobody}
    /\ SingleThreaded => \A c \in Clients : AtWork(c) /\ route[c] = "post" => holder = c
    /\ \A c \in Clients : holder = c => AtWork(c) /\ route[c] = "post"
    /\ \A c \in Clients : pc[c] = "waiting" => route[c] = "post"

LEMMA MutexSteps ==
  ASSUME MutexInv, [ServerNext]_serverVars
  PROVE  MutexInv'
<1> USE ServerAssumption DEF MutexInv, PCs, AtWork, Becomes, Routes
<1>1. ASSUME NEW c \in Clients, Post(c) PROVE MutexInv'
  BY <1>1 DEF Post
<1>2. ASSUME NEW c \in Clients, PostBatch(c) \/ ReadMessage(c) PROVE MutexInv'
  BY <1>2 DEF PostBatch, ReadMessage
<1>3. ASSUME NEW c \in Clients, Lock(c) PROVE MutexInv'
  BY <1>3 DEF Lock
<1>4. ASSUME NEW c \in Clients, Decode(c) PROVE MutexInv'
  BY <1>4 DEF Decode
<1>5. ASSUME NEW c \in Clients, Transform(c) \/ Respond(c) PROVE MutexInv'
  BY <1>5 DEF Transform, Respond
<1>6. ASSUME NEW c \in Clients, Count(c) PROVE MutexInv'
  BY <1>6 DEF Count
<1>7. ASSUME NEW c \in Clients, Return(c) PROVE MutexInv'
  BY <1>7 DEF Return
<1>8. CASE UNCHANGED serverVars
  BY <1>8 DEF serverVars
<1> QED BY <1>1, <1>2, <1>3, <1>4, <1>5, <1>6, <1>7, <1>8 DEF ServerNext, Receive, Handle

LEMMA MutexInvariant == ServerSpec => []MutexInv
<1>1. ServerInit => MutexInv
  BY ServerAssumption DEF ServerInit, MutexInv, PCs, AtWork, Routes
<1> QED BY <1>1, MutexSteps, PTL DEF ServerSpec

\* In single-threaded mode the mutex of Start keeps apart the requests that came
\* alone over HTTP, whatever batches and websockets do meanwhile.
THEOREM PostsInTurn == ServerSpec => []PostsTakeTurns
<1>1. MutexInv => PostsTakeTurns
  BY DEF MutexInv, PostsTakeTurns, AtWork
<1> QED BY <1>1, MutexInvariant, PTL

\* The mutex is held by a request at work only: the deferred unlock gives it
\* back on every way out.
THEOREM HoldersWork == ServerSpec => []HolderWorks
<1>1. MutexInv => HolderWorks
  BY DEF MutexInv, HolderWorks, AtWork
<1> QED BY <1>1, MutexInvariant, PTL
-----------------------------------------------------------------------------
(* Counting                                                                  *)

Answered == {c \in Clients : pc[c] = "answered"}

CountingInv ==
    /\ pc \in [Clients -> PCs]
    /\ answers \in 0..MaxAnswers
    /\ CountedOnce

\* How the set of answered requests changes when one request goes on.
LEMMA OneGoesOn ==
  ASSUME pc \in [Clients -> PCs], NEW c \in Clients, NEW p \in PCs, Becomes(c, p)
  PROVE  /\ pc' \in [Clients -> PCs]
         /\ IsFiniteSet(Answered) /\ Cardinality(Answered) \in Nat
         /\ Cardinality(Answered) <= Cardinality(Clients) /\ Cardinality(Clients) \in Nat
         /\ Cardinality(Answered') \in Nat /\ Cardinality(Answered') <= Cardinality(Clients)
         /\ pc[c] = "answered" /\ p # "answered" => Cardinality(Answered') = Cardinality(Answered) - 1
         /\ pc[c] # "answered" /\ p = "answered" => Cardinality(Answered') = Cardinality(Answered) + 1
         /\ pc[c] # "answered" /\ p # "answered" => Cardinality(Answered') = Cardinality(Answered)
<1>1. pc' = [pc EXCEPT ![c] = p] /\ pc' \in [Clients -> PCs]
  BY DEF Becomes
<1>2. IsFiniteSet(Clients) BY ServerAssumption
<1>3. Answered \subseteq Clients /\ Answered' \subseteq Clients
  BY DEF Answered
<1>4. /\ IsFiniteSet(Answered) /\ IsFiniteSet(Answered')
      /\ Cardinality(Answered) <= Cardinality(Clients)
      /\ Cardinality(Answered') <= Cardinality(Clients)
  BY <1>2, <1>3, FS_Subset
<1>5. /\ Cardinality(Answered) \in Nat /\ Cardinality(Answered') \in Nat /\ Cardinality(Clients) \in Nat
  BY <1>2, <1>4, FS_CardinalityType
<1>6. CASE pc[c] = "answered" /\ p # "answered"
  <2>1. c \in Answered /\ Answered' = Answered \ {c} BY <1>1, <1>6 DEF Answered
  <2> QED BY <1>1, <1>4, <1>5, <1>6, <2>1, FS_RemoveElement
<1>7. CASE pc[c] # "answered" /\ p = "answered"
  <2>1. c \notin Answered /\ Answered' = Answered \cup {c} BY <1>1, <1>7 DEF Answered
  <2> QED BY <1>1, <1>4, <1>5, <1>7, <2>1, FS_AddElement
<1>8. CASE pc[c] # "answered" /\ p # "answered"
  <2>1. Answered' = Answered BY <1>1, <1>8 DEF Answered
  <2> QED BY <1>1, <1>4, <1>5, <1>8, <2>1
<1>9. CASE pc[c] = "answered" /\ p = "answered"
  BY <1>1, <1>4, <1>5, <1>9
<1> QED BY <1>6, <1>7, <1>8, <1>9

LEMMA CountingSteps ==
  ASSUME RingInv, CountingInv, [ServerNext]_serverVars
  PROVE  CountingInv'
<1> DEFINE a == Cardinality(Answered)
           b == Cardinality(Clients)
<1>0. /\ N \in Nat /\ N > 0 /\ Counted \in Nat /\ Counted <= N /\ answers \in Nat /\ answers <= MaxAnswers
      /\ b \in Nat /\ MaxAnswers = N + b /\ pc \in [Clients -> PCs] /\ MaxAnswers' = MaxAnswers
  BY AnalyticsAssumption, ServerAssumption, FS_CardinalityType
     DEF RingInv, CountingInv, MaxAnswers, Counted
<1>1. Counted = IF answers - a < N THEN answers - a ELSE N
  BY DEF CountingInv, CountedOnce, Answered
<1>3. SUFFICES ASSUME ~UNCHANGED serverVars PROVE CountingInv'
  BY <1>0 DEF CountingInv, CountedOnce, serverVars, vars, Counted, MaxAnswers
<1>4. PICK c \in Clients : Receive(c) \/ Lock(c) \/ Handle(c)
  BY <1>3 DEF ServerNext
<1>5. SUFFICES /\ pc' \in [Clients -> PCs]
               /\ answers' \in 0..MaxAnswers
               /\ Counted' = IF answers' - Cardinality(Answered') < N
                             THEN answers' - Cardinality(Answered') ELSE N
  BY <1>0 DEF CountingInv, CountedOnce, Answered
<1>6. CASE Count(c)
  <2>1. pc[c] = "answered" /\ Becomes(c, "handling") /\ answers' = answers
        /\ \E outcome \in BOOLEAN : bump(outcome)
    BY <1>6 DEF Count, Counts, Success, Failure
  <2>2. Counted' = IF Counted < N THEN Counted + 1 ELSE N
    BY <2>1, BumpKeepsRing
  <2>3. pc' \in [Clients -> PCs] /\ Cardinality(Answered') = a - 1 /\ a \in Nat
        /\ a <= b /\ Cardinality(Answered') \in Nat
    BY <1>0, <2>1, OneGoesOn DEF PCs
  <2> HIDE DEF a, b
  <2> QED BY <1>0, <1>1, <2>1, <2>2, <2>3
<1>7. CASE (Decode(c) /\ Head(todo[c]) = "garbled") \/ Transform(c)
  <2>1. pc[c] # "answered" /\ Becomes(c, "answered") /\ Answers /\ UNCHANGED vars
    BY <1>7 DEF Decode, Transform
  <2>2. Counted' = Counted
    BY <2>1 DEF Counted, vars
  <2>3. pc' \in [Clients -> PCs] /\ Cardinality(Answered') = a + 1 /\ a \in Nat
        /\ a <= b /\ Cardinality(Answered') \in Nat /\ Cardinality(Answered') <= b
    BY <1>0, <2>1, OneGoesOn DEF PCs
  <2>4. answers' = IF answers = MaxAnswers THEN answers ELSE answers + 1
    BY <2>1 DEF Answers
  <2> HIDE DEF a, b
  <2> QED BY <1>0, <1>1, <2>2, <2>3, <2>4
<1>8. CASE Receive(c) \/ Lock(c) \/ Respond(c) \/ Return(c) \/ (Decode(c) /\ Head(todo[c]) # "garbled")
  <2>1. /\ pc[c] # "answered" /\ answers' = answers /\ UNCHANGED vars
        /\ \E p \in PCs \ {"answered"} : Becomes(c, p)
    BY <1>8 DEF Receive, Post, PostBatch, ReadMessage, Lock, Respond, Return, Decode, PCs
  <2>2. Counted' = Counted
    BY <2>1 DEF Counted, vars
  <2>3. pc' \in [Clients -> PCs] /\ Cardinality(Answered') = a
    BY <1>0, <2>1, OneGoesOn
  <2> HIDE DEF a, b
  <2> QED BY <1>0, <1>1, <2>1, <2>2, <2>3
<1> QED BY <1>4, <1>6, <1>7, <1>8 DEF Handle

\* Every answered request is counted once: alone or in a batch, and however it
\* ended, the counters lag behind the answers by the handlers that still run.
THEOREM AnswersAreCounted == ServerSpec => []CountedOnce
<1>1. ServerInit => RingInv /\ CountingInv
  <2> SUFFICES ASSUME ServerInit PROVE RingInv /\ CountingInv
    OBVIOUS
  <2>1. RingInv
    BY RingInitially DEF ServerInit
  <2>2. Answered = {} /\ answers = 0 /\ Counted = 0 /\ pc \in [Clients -> PCs]
    BY DEF ServerInit, Answered, Init, Counted, PCs
  <2>3. Cardinality(Answered) = 0
    BY <2>2, FS_EmptySet
  <2>4. N \in Nat /\ N > 0 /\ MaxAnswers \in Nat
    BY AnalyticsAssumption, ServerAssumption, FS_CardinalityType DEF MaxAnswers
  <2> QED BY <2>1, <2>2, <2>3, <2>4 DEF CountingInv, CountedOnce, Answered
<1>2. RingInv /\ CountingInv /\ [ServerNext]_serverVars => (RingInv /\ CountingInv)'
  BY ServerSteps, RingStuttersToo, BumpKeepsRing, CountingSteps
<1>3. CountingInv => CountedOnce
  BY DEF CountingInv
<1> QED BY <1>1, <1>2, <1>3, PTL DEF ServerSpec
-----------------------------------------------------------------------------
(* BlockSync                                                                 *)

SyncTypes ==
    /\ wait \in Int
    /\ blocksMutex \in Checks \cup {Unlocked}
    /\ check \in [Checks -> {"idle", "reading", "locking", "asking"}]
    /\ changed \in [Checks -> BOOLEAN]
    /\ height \in Int /\ lastBlock \in Int

\* A check asks exactly while it holds the lock, and finds that it is time to;
\* so does one that waits for the lock and whose time nobody changed.
TimeIsRight ==
    /\ \A p \in Checks : check[p] = "asking" <=> blocksMutex = p
    /\ \A p \in Checks : check[p] = "locking" /\ ~changed[p] => wait <= 0
    /\ \A p \in Checks : check[p] = "asking" => wait <= 0

SyncInv == SyncTypes /\ TimeIsRight

LEMMA SyncSteps ==
  ASSUME SyncInv, [SyncNext]_syncVars
  PROVE  SyncInv'
<1> USE SyncAssumption DEF SyncInv, SyncTypes, TimeIsRight, shared, Goes
<1>1. ASSUME NEW p \in Checks, Begin(p) PROVE SyncInv'
  BY <1>1 DEF Begin
<1>2. ASSUME NEW p \in Checks, ReadBlocks(p) PROVE SyncInv'
  BY <1>2 DEF ReadBlocks
<1>3. ASSUME NEW p \in Checks, LockBlocks(p) PROVE SyncInv'
  BY <1>3 DEF LockBlocks, Never
<1>4. ASSUME NEW p \in Checks, Look(p) PROVE SyncInv'
  <2>1. Judge(height) \in {"ok", "stalled", "lostLots", "lostFew"} /\ LastBlock(height) \in Int
    BY DEF Judge, LastBlock
  <2>2. wait' \in Int /\ lastBlock' \in Int
    BY <1>4, <2>1 DEF Look
  <2>3. \A q \in Checks \ {p} : check[q] # "asking"
    BY <1>4 DEF Look
  <2>4. \A q \in Checks : check'[q] # "asking"
    BY <1>4, <2>3 DEF Look
  <2>5. (\A q \in Checks : changed'[q]) \/ UNCHANGED <<wait, changed>>
    BY <1>4 DEF Look
  <2>6. SyncTypes'
    BY <1>4, <2>2 DEF Look
  <2>7. blocksMutex' = Unlocked /\ \A q \in Checks : check'[q] = "locking" => check[q] = "locking"
    BY <1>4 DEF Look
  <2> QED BY <2>4, <2>5, <2>6, <2>7
<1>5. CASE Tick
  BY <1>5 DEF Tick
<1>6. CASE NodeChanges
  <2>1. height' \in Int BY <1>6 DEF NodeChanges
  <2> QED BY <1>6, <2>1 DEF NodeChanges
<1>7. CASE UNCHANGED syncVars
  BY <1>7 DEF syncVars
<1> QED BY <1>1, <1>2, <1>3, <1>4, <1>5, <1>6, <1>7 DEF SyncNext, CheckBlocks

LEMMA SyncInvariant == SyncSpec => []SyncInv
<1>1. SyncInit => SyncInv
  BY SyncAssumption DEF SyncInit, SyncInv, SyncTypes, TimeIsRight, Never
<1> QED BY <1>1, SyncSteps, PTL DEF SyncSpec

\* However health checks overlap, a look at the node comes no sooner than the
\* pause after the look before it (testBlocksSyncing compares nextBlockCheck
\* again once it has the lock).
THEOREM LooksAreApart == SyncSpec => LooksApart
<1>1. SyncInv /\ [SyncNext]_syncVars =>
        [(\E p \in Checks : check[p] = "asking" /\ check'[p] = "idle") => wait <= 0]_syncVars
  BY DEF SyncInv, TimeIsRight
<1> QED BY <1>1, SyncInvariant, PTL DEF SyncSpec, LooksApart

\* The check that holds the lock is asking the node: the one that starts again
\* has given the lock back, and none waits for itself.
THEOREM HoldersAsk == SyncSpec => []HolderAsks
<1>1. SyncInv => HolderAsks
  BY DEF SyncInv, SyncTypes, TimeIsRight, HolderAsks
<1> QED BY <1>1, SyncInvariant, PTL
-----------------------------------------------------------------------------
(* Startup                                                                   *)

StartTypes ==
    /\ chain \in Chains \cup {ChainAuto} /\ querying \in BOOLEAN /\ done \in BOOLEAN
    /\ revoDB \in BOOLEAN /\ locked \in BOOLEAN
    /\ lookup \in [Requests -> {"idle", "chainId", "notConfigured", "panic", "found"}]
    /\ service \in {"new", "failed", "waiting", "received", "stopped", "running", "ended"}
    /\ sender \in [Probes -> {"none", "asking", ChainAuto} \cup Chains]

\* The chain is looked for only while those who want it wait, so what they get
\* before the end is the chain, and it stays.
ChainSettles ==
    /\ detector # "none" => querying
    /\ ~querying => chain # ChainAuto
    /\ chainIdChan # NoId /\ ~done => ~querying /\ chainIdChan = ChainIdOf(chain)
    /\ ~done => \A p \in Probes : sender[p] # ChainAuto

\* A request gets as far as the chain id only when the service has begun, and
\* the service waits with the lock; it runs when the id is written.
ServiceLocks ==
    /\ service = "waiting" => locked
    /\ revoDB => service \notin {"new", "failed"}
    /\ \A r \in Requests : lookup[r] = "chainId" => service \notin {"new", "failed"}
    /\ service = "received" => chainIdChan # NoId
    /\ service \in {"running", "ended"} => chainId # NoId

StartInv == StartTypes /\ ChainSettles /\ ServiceLocks

LEMMA StartSteps ==
  ASSUME StartInv, [StartNext]_startVars
  PROVE  StartInv'
<1> USE StartAssumption
    DEF StartInv, StartTypes, ChainSettles, ServiceLocks, ChainAuto, NoId, chainVars, serviceVars
<1>1. CASE Detect
  <2>1. StartTypes'
    BY <1>1 DEF Detect, Detected, DetectionFails, PauseEnds
  <2>2. ChainSettles'
    BY <1>1 DEF Detect, Detected, DetectionFails, PauseEnds, ChainIdOf
  <2>3. ServiceLocks'
    BY <1>1 DEF Detect, Detected, DetectionFails, PauseEnds
  <2> QED BY <2>1, <2>2, <2>3
<1>2. CASE StartService
  <2>1. StartTypes'
    BY <1>2 DEF StartService
  <2>2. ChainSettles'
    BY <1>2 DEF StartService, ChainIdOf
  <2>3. ServiceLocks'
    BY <1>2 DEF StartService
  <2> QED BY <2>1, <2>2, <2>3
<1>3. CASE SendChainId
  BY <1>3 DEF SendChainId, ChainReturns
<1>4. CASE ReceiveChainId \/ WriteChainId \/ ServiceStops \/ ServiceEnds
  <2>1. StartTypes'
    BY <1>4 DEF ReceiveChainId, WriteChainId, ServiceStops, ServiceEnds
  <2>2. ChainSettles'
    BY <1>4 DEF ReceiveChainId, WriteChainId, ServiceStops, ServiceEnds, ChainIdOf
  <2>3. ServiceLocks'
    BY <1>4 DEF ReceiveChainId, WriteChainId, ServiceStops, ServiceEnds
  <2> QED BY <2>1, <2>2, <2>3
<1>5. ASSUME NEW r \in Requests, LookUpHash(r) PROVE StartInv'
  BY <1>5 DEF LookUpHash
<1>6. ASSUME NEW r \in Requests, LookUpChainId(r) PROVE StartInv'
  BY <1>6 DEF LookUpChainId
<1>7. ASSUME NEW p \in Probes, AskNetwork(p) PROVE StartInv'
  BY <1>7 DEF AskNetwork
<1>8. ASSUME NEW p \in Probes, AskChain(p) PROVE StartInv'
  BY <1>8 DEF AskChain, ChainReturns
<1>9. ASSUME NEW p \in Probes, TakeChain(p) \/ ProbeTimesOut(p) PROVE StartInv'
  BY <1>9 DEF TakeChain, ProbeTimesOut
<1>10. CASE Shutdown
  BY <1>10 DEF Shutdown
<1>11. CASE UNCHANGED startVars
  BY <1>11 DEF startVars
<1> QED
  BY <1>1, <1>2, <1>3, <1>4, <1>5, <1>6, <1>7, <1>8, <1>9, <1>10, <1>11
  DEF StartNext, Serve, Ask, TestConnection

LEMMA StartInvariant == StartSpec => []StartInv
<1>1. StartInit => StartInv
  BY StartAssumption DEF StartInit, StartInv, StartTypes, ChainSettles, ServiceLocks, ChainAuto, NoId
<1> QED BY <1>1, StartSteps, PTL DEF StartSpec

\* Until the program ends nobody gets a chain, or a chain id, that was not
\* detected, and none that is detected later differs (Revo.Chain waits for
\* queryingComplete, which is closed once).
THEOREM ChainIsKnown == StartSpec => []ChainKnown
<1>1. StartInv => ChainKnown
  BY DEF StartInv, ChainSettles, ChainKnown
<1> QED BY <1>1, StartInvariant, PTL

\* The panic of GetRevoBlockHashContext on an invalid chain id is met between the
\* unlock of Start's goroutine and its write of the id, or when that goroutine
\* has stopped without an id, and never before: until then the lock is held.
THEOREM PanicsInGap == StartSpec => PanicInGap
<1>1. StartInv /\ [StartNext]_startVars =>
        [\A r \in Requests : lookup[r] # "panic" /\ lookup'[r] = "panic"
            => service \in {"received", "stopped"}]_startVars
  <2> SUFFICES ASSUME StartInv, StartNext, NEW r \in Requests, lookup[r] # "panic", lookup'[r] = "panic"
               PROVE  service \in {"received", "stopped"}
    BY DEF startVars
  <2>1. LookUpChainId(r) /\ chainId = NoId
    <3>1. lookup' # lookup
      OBVIOUS
    <3>2. PICK q \in Requests : LookUpHash(q) \/ LookUpChainId(q)
      BY <3>1 DEF StartNext, Detect, Detected, DetectionFails, PauseEnds, Serve, StartService, SendChainId,
           ReceiveChainId, WriteChainId, ServiceStops, ServiceEnds, Shutdown, TestConnection, AskNetwork,
           AskChain, TakeChain, ProbeTimesOut, Ask
    <3> QED BY <3>2 DEF StartInv, StartTypes, LookUpHash, LookUpChainId
  <2> QED BY <2>1 DEF StartInv, ServiceLocks, StartTypes, LookUpChainId
<1> QED BY <1>1, StartInvariant, PTL DEF StartSpec, PanicInGap
===============================================================================
