---------------------------- MODULE Agent_proofs ----------------------------
(* Theorems about Agent, for any number of subscriptions and of goroutines.  *)
EXTENDS Agent, FiniteSetTheorems, TLAPS

\* Every variable of the agent keeps its type.
THEOREM TypeCorrect == Spec => []TypeOK
<1>1. Init => TypeOK
  <2> SUFFICES ASSUME Init PROVE TypeOK
    OBVIOUS
  <2> USE AgentAssumption DEF AgentAssumption, Init, ClientPC, RemoverPC, RunPC
  <2>1. kind \in [Ids -> Kinds]
    OBVIOUS
  <2>2. run \in [Runs -> RunPC]
    OBVIOUS
  <2>3. height \in 0..MaxHeight /\ 0 \in 0..MaxHeight
    OBVIOUS
  <2>4. /\ lastBlock \in [Runs -> 0..MaxHeight] /\ latestBlock \in [Runs -> 0..MaxHeight]
        /\ got \in [Ids -> 0..MaxHeight]
    BY <2>3
  <2>5. /\ client \in [Ids -> ClientPC] /\ remover \in [Ids -> RemoverPC]
        /\ subscriptions \in [Kinds -> SUBSET Ids]
        /\ subscriptionCount \in [Kinds -> Int]
    OBVIOUS
  <2>6. running \in BOOLEAN /\ transformer \in BOOLEAN
    BY Zenon
  <2>7. /\ reorgs \in 0..MaxReorgs /\ failures \in 0..MaxFailures
        /\ published \in 0..MaxHeight
    BY <2>3
  <2> QED BY <2>1, <2>2, <2>3, <2>4, <2>5, <2>6, <2>7 DEF TypeOK
<1>2. TypeOK /\ [Next]_vars => TypeOK'
  <2> SUFFICES ASSUME TypeOK, [Next]_vars PROVE TypeOK'
    OBVIOUS
  <2> USE AgentAssumption DEF AgentAssumption, NewHeads, TypeOK, ClientPC, RemoverPC, RunPC, Runs
  <2>1. ASSUME NEW id \in Ids, NEW k \in Kinds, NewSubscription(id, k) PROVE TypeOK'
    BY <2>1 DEF NewSubscription, loopVars, envVars
  <2>2. ASSUME NEW id \in Ids, AddSubscription(id) PROVE TypeOK'
    BY <2>2 DEF AddSubscription, loopVars, envVars
  <2>3. ASSUME NEW id \in Ids, StartIfIdle(id) PROVE TypeOK'
    BY <2>3 DEF StartIfIdle, envVars
  <2>4. ASSUME NEW id \in Ids, RemoveCheck(id) PROVE TypeOK'
    BY <2>4 DEF RemoveCheck, loopVars, envVars
  <2>5. ASSUME NEW id \in Ids, RemoveDelete(id) PROVE TypeOK'
    BY <2>5 DEF RemoveDelete, loopVars, envVars
  <2>6. ASSUME NEW r \in Runs, RunStep(r) PROVE TypeOK'
    <3>1. CASE RunCount(r) BY <3>1 DEF RunCount, GoTo, subVars, envVars
    <3>2. CASE RunAcquire(r) BY <3>2 DEF RunAcquire, GoTo, subVars, envVars
    <3>3. CASE LoopCount(r) BY <3>3 DEF LoopCount, GoTo, subVars, envVars
    <3>4. CASE LoopPoll(r) BY <3>4 DEF LoopPoll, GoTo, subVars, envVars
    <3>5. CASE LoopNoTransformer(r) BY <3>5 DEF LoopNoTransformer, GoTo, subVars, envVars
    <3>6. CASE LoopFailure(r) BY <3>6 DEF LoopFailure, GoTo, subVars
    <3>7. CASE LoopPublish(r) BY <3>7 DEF LoopPublish, GoTo, subVars, envVars
    <3>8. CASE LoopWake(r) BY <3>8 DEF LoopWake, GoTo, subVars, envVars
    <3>9. CASE LoopLeave(r)
      <4>1. run' \in [Runs -> RunPC] /\ lastBlock' \in [Runs -> 0..MaxHeight]
        BY <3>9 DEF LoopLeave, GoTo
      <4> QED BY <3>9, <4>1 DEF LoopLeave, subVars, envVars
    <3> QED BY <2>6, <3>1, <3>2, <3>3, <3>4, <3>5, <3>6, <3>7, <3>8, <3>9 DEF RunStep
  <2>7. CASE SetTransformer BY <2>7 DEF SetTransformer, subVars, loopVars
  <2>8. CASE NewBlock BY <2>8 DEF NewBlock, subVars, loopVars
  <2>9. CASE Reorg BY <2>9 DEF Reorg, subVars, loopVars
  <2>10. CASE UNCHANGED vars BY <2>10 DEF vars, subVars, loopVars, envVars
  <2> QED BY <2>1, <2>2, <2>3, <2>4, <2>5, <2>6, <2>7, <2>8, <2>9, <2>10
          DEF Next, ClientStep
<1> QED BY <1>1, <1>2, PTL DEF Spec
-----------------------------------------------------------------------------
\* A step in which no goroutine enters or leaves the loop keeps OneLoop.
LEMMA SameActive ==
  ASSUME TypeOK, OneLoop, running' = running,
         \A r \in Runs : run'[r] \in Active <=> run[r] \in Active
  PROVE  OneLoop'
BY DEF OneLoop

\* A goroutine that moves within the loop, or outside it, is such a step.
LEMMA GoToSame ==
  ASSUME TypeOK, OneLoop, running' = running, NEW r \in Runs, NEW pc,
         GoTo(r, pc), pc \in Active <=> run[r] \in Active
  PROVE  OneLoop'
<1>1. \A s \in Runs : run'[s] \in Active <=> run[s] \in Active
  BY DEF GoTo, TypeOK
<1> QED BY <1>1, SameActive

\* At most one goroutine is the agent's loop, and Agent.running tells whether
\* one is, however many are started and whatever subscriptions come and go.
THEOREM AtMostOneLoop == Spec => []OneLoop
<1>1. Init => OneLoop
  <2> SUFFICES ASSUME Init PROVE OneLoop
    OBVIOUS
  <2>1. \A r \in Runs : run[r] \notin Active
    BY DEF Init, Active, Runs
  <2>2. ~running
    BY DEF Init
  <2> QED BY <2>1, <2>2 DEF OneLoop
<1>2. TypeOK /\ OneLoop /\ [Next]_vars => OneLoop'
  <2> SUFFICES ASSUME TypeOK, OneLoop, [Next]_vars PROVE OneLoop'
    OBVIOUS
  <2>1. ASSUME UNCHANGED <<run, running>> PROVE OneLoop'
    BY <2>1, SameActive
  <2>2. ASSUME NEW id \in Ids, StartIfIdle(id) PROVE OneLoop'
    <3>1. CASE running
      BY <2>2, <3>1, <2>1 DEF StartIfIdle
    <3>2. CASE ~running
      <4>1. \A r \in Runs : run'[r] \notin Active
        BY <2>2, <3>2 DEF StartIfIdle, OneLoop, TypeOK, Active
      <4> QED BY <4>1, <3>2, <2>2 DEF StartIfIdle, OneLoop
    <3> QED BY <3>1, <3>2
  <2>3. ASSUME NEW r \in Runs, RunStep(r) PROVE OneLoop'
    <3>1. CASE RunCount(r)
      BY <3>1, GoToSame DEF RunCount, Active
    <3>2. CASE RunAcquire(r)
      <4>1. CASE running
        <5>1. running' = running
          BY <3>2, <4>1 DEF RunAcquire
        <5> QED BY <3>2, <4>1, <5>1, GoToSame DEF RunAcquire, Active
      <4>2. CASE ~running
        <5>1. \A s \in Runs : run'[s] \in Active <=> s = r
          BY <3>2, <4>2 DEF RunAcquire, GoTo, OneLoop, TypeOK, Active
        <5>2. running'
          BY <3>2 DEF RunAcquire
        <5> QED BY <5>1, <5>2 DEF OneLoop
      <4> QED BY <4>1, <4>2
    <3>3. CASE LoopCount(r)
      BY <3>3, GoToSame DEF LoopCount, Active
    <3>4. CASE LoopPoll(r)
      <4>1. running' = running /\ \E pc \in {"fetch", "sleep"} : GoTo(r, pc)
        BY <3>4 DEF LoopPoll
      <4> QED BY <3>4, <4>1, GoToSame DEF LoopPoll, Active
    <3>5. CASE LoopNoTransformer(r)
      BY <3>5, GoToSame DEF LoopNoTransformer, Active
    <3>6. CASE LoopFailure(r)
      BY <3>6, GoToSame DEF LoopFailure, Active
    <3>7. CASE LoopPublish(r)
      BY <3>7, GoToSame DEF LoopPublish, Active
    <3>8. CASE LoopWake(r)
      BY <3>8, GoToSame DEF LoopWake, Active
    <3>9. CASE LoopLeave(r)
      <4>1. \A s \in Runs : run'[s] \notin Active
        BY <3>9 DEF LoopLeave, GoTo, OneLoop, TypeOK, Active
      <4>2. ~running'
        BY <3>9 DEF LoopLeave
      <4> QED BY <4>1, <4>2 DEF OneLoop
    <3> QED BY <2>3, <3>1, <3>2, <3>3, <3>4, <3>5, <3>6, <3>7, <3>8, <3>9 DEF RunStep
  <2>4. ASSUME NEW id \in Ids, NEW k \in Kinds, NewSubscription(id, k) PROVE OneLoop'
    BY <2>4, <2>1 DEF NewSubscription, loopVars
  <2>5. ASSUME NEW id \in Ids, AddSubscription(id) PROVE OneLoop'
    BY <2>5, <2>1 DEF AddSubscription, loopVars
  <2>6. ASSUME NEW id \in Ids, RemoveCheck(id) PROVE OneLoop'
    BY <2>6, <2>1 DEF RemoveCheck, loopVars
  <2>7. ASSUME NEW id \in Ids, RemoveDelete(id) PROVE OneLoop'
    BY <2>7, <2>1 DEF RemoveDelete, loopVars
  <2>8. CASE SetTransformer \/ NewBlock \/ Reorg \/ UNCHANGED vars
    BY <2>8, <2>1 DEF SetTransformer, NewBlock, Reorg, vars, loopVars
  <2> QED BY <2>2, <2>3, <2>4, <2>5, <2>6, <2>7, <2>8 DEF Next, ClientStep
<1> QED BY <1>1, <1>2, TypeCorrect, PTL DEF Spec
-----------------------------------------------------------------------------
\* The counter every decision of the loop rests on equals the number of
\* registered subscriptions of its type.
THEOREM CountsAreExact == Spec => []CountIsExact
<1>1. Init => CountIsExact
  BY FS_EmptySet DEF Init, CountIsExact
<1>2. TypeOK /\ CountIsExact /\ [Next]_vars => CountIsExact'
  <2> SUFFICES ASSUME TypeOK, CountIsExact, [Next]_vars PROVE CountIsExact'
    OBVIOUS
  <2>1. ASSUME UNCHANGED <<subscriptions, subscriptionCount>> PROVE CountIsExact'
    BY <2>1 DEF CountIsExact
  <2>2. \A k \in Kinds : IsFiniteSet(subscriptions[k])
    BY FS_Subset, AgentAssumption DEF AgentAssumption, TypeOK
  <2>3. ASSUME NEW id \in Ids, AddSubscription(id) PROVE CountIsExact'
    <3> DEFINE k == kind[id]
    <3>1. k \in Kinds
      BY DEF TypeOK
    <3>2. Cardinality(subscriptions[k] \cup {id}) =
             IF id \in subscriptions[k] THEN Cardinality(subscriptions[k])
             ELSE Cardinality(subscriptions[k]) + 1
      BY <2>2, <3>1, FS_AddElement
    <3> QED BY <2>3, <3>1, <3>2 DEF AddSubscription, CountIsExact, TypeOK
  <2>4. ASSUME NEW id \in Ids, RemoveDelete(id) PROVE CountIsExact'
    <3> DEFINE k == kind[id]
    <3>1. k \in Kinds
      BY DEF TypeOK
    <3>2. Cardinality(subscriptions[k] \ {id}) =
             IF id \in subscriptions[k] THEN Cardinality(subscriptions[k]) - 1
             ELSE Cardinality(subscriptions[k])
      BY <2>2, <3>1, FS_RemoveElement
    <3> QED BY <2>4, <3>1, <3>2 DEF RemoveDelete, CountIsExact, TypeOK
  <2>5. ASSUME NEW id \in Ids, NEW k \in Kinds, NewSubscription(id, k) PROVE CountIsExact'
    BY <2>5, <2>1 DEF NewSubscription
  <2>6. ASSUME NEW id \in Ids, StartIfIdle(id) \/ RemoveCheck(id) PROVE CountIsExact'
    BY <2>6, <2>1 DEF StartIfIdle, RemoveCheck
  <2>7. ASSUME NEW r \in Runs, RunStep(r) PROVE CountIsExact'
    BY <2>7, <2>1 DEF RunStep, RunCount, RunAcquire, LoopCount, LoopPoll,
       LoopNoTransformer, LoopFailure, LoopPublish, LoopWake, LoopLeave, subVars
  <2>8. CASE SetTransformer \/ NewBlock \/ Reorg \/ UNCHANGED vars
    BY <2>8, <2>1 DEF SetTransformer, NewBlock, Reorg, vars, subVars
  <2> QED BY <2>3, <2>4, <2>5, <2>6, <2>7, <2>8 DEF Next, ClientStep
<1> QED BY <1>1, <1>2, TypeCorrect, PTL DEF Spec
-----------------------------------------------------------------------------
\* A step that leaves the loop's memory and the heads alone keeps
\* HeadsOrdered, wherever the goroutines outside "fetch" are.
LEMMA HeadsOrderedKept ==
  ASSUME TypeOK, HeadsOrdered,
         UNCHANGED <<lastBlock, latestBlock, published, height, reorgs>>,
         \A r \in Runs : run'[r] \notin Active => run[r] \notin Active \/ lastBlock[r] = 0,
         \A r \in Runs : run'[r] = "fetch" => run[r] = "fetch"
  PROVE  HeadsOrdered'
BY DEF HeadsOrdered

LEMMA HeadsOrderedInductive ==
  ASSUME TypeOK, OneLoop, HeadsOrdered, [Next]_vars
  PROVE  HeadsOrdered'
<1>1. ASSUME UNCHANGED <<run, lastBlock, latestBlock, published, height, reorgs>>
      PROVE  HeadsOrdered'
  BY <1>1 DEF HeadsOrdered
<1>2. ASSUME NEW id \in Ids, StartIfIdle(id) PROVE HeadsOrdered'
  <2>1. CASE running
    BY <1>2, <2>1, <1>1 DEF StartIfIdle, envVars
  <2>2. CASE ~running
    <3>1. \A r \in Runs : run[r] \notin Active /\ run'[r] \notin Active /\ run'[r] # "fetch"
      BY <1>2, <2>2 DEF StartIfIdle, OneLoop, TypeOK, Active
    <3> QED BY <1>2, <3>1, HeadsOrderedKept DEF StartIfIdle, envVars
  <2> QED BY <2>1, <2>2
<1>3. ASSUME NEW r \in Runs, RunStep(r) PROVE HeadsOrdered'
  <2>1. ASSUME NEW pc, GoTo(r, pc), pc # "fetch",
               UNCHANGED <<lastBlock, latestBlock, published, height, reorgs>>,
               pc \notin Active => run[r] \notin Active
        PROVE  HeadsOrdered'
    <3>1. \A s \in Runs : run'[s] = IF s = r THEN pc ELSE run[s]
      BY <2>1 DEF GoTo, TypeOK
    <3> QED BY <2>1, <3>1, HeadsOrderedKept
  <2>2. CASE RunCount(r)
    BY <2>2, <2>1 DEF RunCount, Active, envVars
  <2>3. CASE RunAcquire(r)
    BY <2>3, <2>1 DEF RunAcquire, Active, envVars
  <2>4. CASE LoopCount(r)
    BY <2>4, <2>1 DEF LoopCount, Active, envVars
  <2>5. CASE LoopPoll(r)
    BY <2>5 DEF LoopPoll, GoTo, HeadsOrdered, TypeOK, Active, envVars
  <2>6. CASE LoopNoTransformer(r)
    BY <2>6, <2>1 DEF LoopNoTransformer, Active, envVars
  <2>7. CASE LoopFailure(r)
    BY <2>7 DEF LoopFailure, GoTo, HeadsOrdered, TypeOK, Active
  <2>8. CASE LoopPublish(r)
    <3>1. \A s \in Runs \ {r} : lastBlock[s] = 0 /\ run[s] # "fetch"
      BY <2>8 DEF LoopPublish, OneLoop, HeadsOrdered, Active
    <3> QED BY <2>8, <3>1 DEF LoopPublish, GoTo, HeadsOrdered, TypeOK, Active, envVars
  <2>9. CASE LoopWake(r)
    BY <2>9, <2>1 DEF LoopWake, Active, envVars
  <2>10. CASE LoopLeave(r)
    BY <2>10 DEF LoopLeave, GoTo, HeadsOrdered, TypeOK, Active, envVars
  <2> QED BY <1>3, <2>2, <2>3, <2>4, <2>5, <2>6, <2>7, <2>8, <2>9, <2>10 DEF RunStep
<1>4. ASSUME NEW id \in Ids, NEW k \in Kinds, NewSubscription(id, k) PROVE HeadsOrdered'
  BY <1>4, <1>1 DEF NewSubscription, loopVars, envVars
<1>5. ASSUME NEW id \in Ids, AddSubscription(id) PROVE HeadsOrdered'
  BY <1>5, <1>1 DEF AddSubscription, loopVars, envVars
<1>6. ASSUME NEW id \in Ids, RemoveCheck(id) PROVE HeadsOrdered'
  BY <1>6, <1>1 DEF RemoveCheck, loopVars, envVars
<1>7. ASSUME NEW id \in Ids, RemoveDelete(id) PROVE HeadsOrdered'
  BY <1>7, <1>1 DEF RemoveDelete, loopVars, envVars
<1>8. CASE SetTransformer \/ UNCHANGED vars
  BY <1>8, <1>1 DEF SetTransformer, vars, loopVars, envVars
<1>9. CASE NewBlock
  BY <1>9 DEF NewBlock, HeadsOrdered, TypeOK, loopVars
<1>10. CASE Reorg
  BY <1>10 DEF Reorg, HeadsOrdered, TypeOK, loopVars
<1> QED BY <1>2, <1>3, <1>4, <1>5, <1>6, <1>7, <1>8, <1>9, <1>10 DEF Next, ClientStep

\* While the chain only grows, every published head is later than all heads
\* published before it, by this loop or by an earlier one.
THEOREM HeadsAreIncreasing == Spec => HeadsIncrease
<1>1. Init => HeadsOrdered
  BY DEF Init, HeadsOrdered
<1>2. TypeOK /\ OneLoop /\ HeadsOrdered /\ [Next]_vars => HeadsOrdered'
  BY HeadsOrderedInductive
<1>3. TypeOK /\ HeadsOrdered /\ [Next]_vars =>
        [reorgs = 0 => \A r \in Runs : Publishes(r) => published' > published]_vars
  <2> SUFFICES ASSUME TypeOK, HeadsOrdered, [Next]_vars, reorgs = 0, NEW r \in Runs,
                      Publishes(r)
               PROVE  published' > published
    OBVIOUS
  <2>1. LoopPublish(r)
    <3>1. ASSUME NEW s \in Runs, RunStep(s) PROVE LoopPublish(r)
      <4>1. s # r => lastBlock'[r] = lastBlock[r]
        BY <3>1 DEF RunStep, RunCount, RunAcquire, LoopCount, LoopPoll, LoopNoTransformer,
                    LoopFailure, LoopPublish, LoopWake, LoopLeave, TypeOK
      <4>2. s = r
        BY <4>1 DEF Publishes
      <4> QED BY <3>1, <4>2 DEF Publishes, RunStep, RunCount, RunAcquire, LoopCount, LoopPoll,
                    LoopNoTransformer, LoopFailure, LoopWake, LoopLeave
    <3>2. ASSUME lastBlock' = lastBlock PROVE FALSE
      BY <3>2 DEF Publishes
    <3> QED BY <3>1, <3>2 DEF Next, ClientStep, NewSubscription, AddSubscription, StartIfIdle,
         RemoveCheck, RemoveDelete, SetTransformer, NewBlock, Reorg, vars, loopVars
  <2> QED BY <2>1 DEF LoopPublish, HeadsOrdered, TypeOK
<1> QED BY <1>1, <1>2, <1>3, TypeCorrect, AtMostOneLoop, PTL DEF Spec, HeadsIncrease
=============================================================================
