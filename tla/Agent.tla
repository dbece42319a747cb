-------------------------------- MODULE Agent --------------------------------
(***************************************************************************)
(* The notifier's agent: the registries of subscriptions, and the loop     *)
(* that polls the Revo node and publishes new heads. A goroutine of the    *)
(* loop is started by NewAgent and by each NewSubscription that finds no   *)
(* loop running; registrations and removals come from all connections at   *)
(* once. An action is one critical section, or the code between two of     *)
(* them that touches no shared state.                                      *)
(*                                                                         *)
(* The program gives the agent context.Background() and never writes to    *)
(* Agent.stop, so the loop is left only through its own conditions.        *)
(***************************************************************************)
EXTENDS Integers, FiniteSets

CONSTANTS
    Ids,          \* subscription ids, over all connections
    Kinds,        \* subscription types, "newHeads" among them
    Boot,         \* name of the goroutine NewAgent starts
    MaxHeight,    \* bound: height the chain reaches
    MaxReorgs,    \* bound: times the chain's height drops
    MaxFailures   \* bound: failed calls of the loop

NewHeads == "newHeads"

ASSUME AgentAssumption ==
    /\ IsFiniteSet(Ids)
    /\ NewHeads \in Kinds
    /\ Boot \notin Ids
    /\ MaxHeight \in Nat \ {0} /\ MaxReorgs \in Nat /\ MaxFailures \in Nat

\* The goroutine a NewSubscription starts is named after its subscription.
Runs == Ids \cup {Boot}

VARIABLES
    client,        \* per id: control point of NewSubscription
    kind,          \* per id: type asked for
    remover,       \* per id: control point of the unsubscribe callback
    subscriptions, \* per type: subscriptionRegistry.subscriptions
    subscriptionCount, \* per type: subscriptionRegistry.subscriptionCount
    running,       \* Agent.running
    transformer,   \* SetTransformer was called
    run,           \* per goroutine: control point of Agent.run
    lastBlock,     \* per goroutine: run's local lastBlock (0 outside the loop)
    latestBlock,   \* per goroutine: latestBlock, local to a round (0 outside)
    height,        \* height of the node's best chain
    reorgs, failures, \* used up of the two bounds
    published,     \* last head published, 0 before the first
    got            \* per id: last head published to it

subVars  == <<client, kind, remover, subscriptions, subscriptionCount>>
loopVars == <<run, lastBlock, latestBlock, running, published, got>>
envVars  == <<height, reorgs, failures, transformer>>
vars == <<subVars, loopVars, envVars>>

ClientPC == {"idle", "add", "check", "subscribed"}
RemoverPC == {"idle", "delete", "done"}
RunPC == {"unused", "count", "acquire", "loop", "poll", "fetch", "sleep", "leave", "exited"}
\* Between taking `running` and giving it back.
Active == {"loop", "poll", "fetch", "sleep", "leave"}

Init ==
    /\ client = [id \in Ids |-> "idle"]
    /\ kind = [id \in Ids |-> NewHeads]
    /\ remover = [id \in Ids |-> "idle"]
    /\ subscriptions = [k \in Kinds |-> {}]
    /\ subscriptionCount = [k \in Kinds |-> 0]
    /\ running = FALSE
    /\ transformer = FALSE
    /\ run = [r \in Runs |-> IF r = Boot THEN "count" ELSE "unused"]
    /\ lastBlock = [r \in Runs |-> 0]
    /\ latestBlock = [r \in Runs |-> 0]
    /\ height \in 0..1
    /\ reorgs = 0 /\ failures = 0
    /\ published = 0
    /\ got = [id \in Ids |-> 0]
-----------------------------------------------------------------------------
(* NewSubscription                                                          *)

\* The notifier has made the Subscription: from here on it can be
\* unsubscribed by the end of its connection.
NewSubscription(id, k) ==
    /\ client[id] = "idle"
    /\ client' = [client EXCEPT ![id] = "add"]
    /\ kind' = [kind EXCEPT ![id] = k]
    /\ UNCHANGED <<remover, subscriptions, subscriptionCount, loopVars, envVars>>

\* addSubscription, under the registry's lock.
AddSubscription(id) ==
    LET k == kind[id] IN
    /\ client[id] = "add"
    /\ subscriptions' = [subscriptions EXCEPT ![k] = @ \cup {id}]
    /\ subscriptionCount' =
          [subscriptionCount EXCEPT ![k] = IF id \in subscriptions[k] THEN @ ELSE @ + 1]
    /\ client' = [client EXCEPT ![id] = "check"]
    /\ UNCHANGED <<kind, remover, loopVars, envVars>>

\* Under the agent's read lock: start a loop if none is running.
StartIfIdle(id) ==
    /\ client[id] = "check"
    /\ client' = [client EXCEPT ![id] = "subscribed"]
    /\ run' = IF running THEN run ELSE [run EXCEPT ![id] = "count"]
    /\ UNCHANGED <<kind, remover, subscriptions, subscriptionCount, lastBlock,
                   latestBlock, running, published, got, envVars>>
-----------------------------------------------------------------------------
(* The unsubscribe callback; sync.Once runs it at most once per id. Of its   *)
(* four calls of removeSubscription only the one on the registry of the id's *)
(* own type can find the id.                                                 *)

\* The look under the read lock.
RemoveCheck(id) ==
    /\ client[id] # "idle"
    /\ remover[id] = "idle"
    /\ remover' = [remover EXCEPT ![id] =
                      IF id \in subscriptions[kind[id]] THEN "delete" ELSE "done"]
    /\ UNCHANGED <<client, kind, subscriptions, subscriptionCount,
                   loopVars, envVars>>

\* Mutant: the entry is deleted but stays counted.
RemoveDelete_NoCount(id) ==
    LET k == kind[id] IN
    /\ remover[id] = "delete"
    /\ subscriptions' = [subscriptions EXCEPT ![k] = @ \ {id}]
    /\ remover' = [remover EXCEPT ![id] = "done"]
    /\ UNCHANGED <<client, kind, subscriptionCount, loopVars, envVars>>

\* The second look and the removal, under the write lock.
RemoveDelete(id) ==
    LET k == kind[id] IN
    /\ remover[id] = "delete"
    /\ subscriptions' = [subscriptions EXCEPT ![k] = @ \ {id}]
    /\ subscriptionCount' =
          [subscriptionCount EXCEPT ![k] = IF id \in subscriptions[k] THEN @ - 1 ELSE @]
    /\ remover' = [remover EXCEPT ![id] = "done"]
    /\ UNCHANGED <<client, kind, loopVars, envVars>>
-----------------------------------------------------------------------------
(* Agent.run                                                                *)

GoTo(r, pc) == run' = [run EXCEPT ![r] = pc]

\* No new-heads subscription: do not start.
RunCount(r) ==
    /\ run[r] = "count"
    /\ GoTo(r, IF subscriptionCount[NewHeads] = 0 THEN "exited" ELSE "acquire")
    /\ UNCHANGED <<subVars, lastBlock, latestBlock, running, published, got, envVars>>

\* Mutant: `running` is not looked at again under the lock.
RunAcquire_NoRecheck(r) ==
    /\ run[r] = "acquire"
    /\ GoTo(r, "loop")
    /\ running' = TRUE
    /\ UNCHANGED <<subVars, lastBlock, latestBlock, published, got, envVars>>

\* Under the agent's lock: leave if another loop runs, else become the loop.
RunAcquire(r) ==
    /\ run[r] = "acquire"
    /\ GoTo(r, IF running THEN "exited" ELSE "loop")
    /\ running' = TRUE
    /\ UNCHANGED <<subVars, lastBlock, latestBlock, published, got, envVars>>

\* Mutant: the loop does not look at the number of subscriptions.
LoopCount_Forever(r) ==
    /\ run[r] = "loop"
    /\ GoTo(r, "poll")
    /\ UNCHANGED <<subVars, lastBlock, latestBlock, running, published, got, envVars>>

\* Head of the loop: leave when nobody is subscribed.
LoopCount(r) ==
    /\ run[r] = "loop"
    /\ GoTo(r, IF subscriptionCount[NewHeads] = 0 THEN "leave" ELSE "poll")
    /\ UNCHANGED <<subVars, lastBlock, latestBlock, running, published, got, envVars>>

\* Mutant: the first answer counts as a new head.
LoopPoll_FirstIsNew(r) ==
    /\ run[r] = "poll"
    /\ transformer
    /\ lastBlock' = lastBlock
    /\ IF height > lastBlock[r]
       THEN GoTo(r, "fetch") /\ latestBlock' = [latestBlock EXCEPT ![r] = height]
       ELSE GoTo(r, "sleep") /\ UNCHANGED latestBlock
    /\ UNCHANGED <<subVars, running, published, got, envVars>>

\* Mutant: the head is remembered before it has been fetched.
LoopPoll_RemembersEarly(r) ==
    /\ run[r] = "poll"
    /\ transformer
    /\ lastBlock' = [lastBlock EXCEPT ![r] = height]
    /\ IF lastBlock[r] # 0 /\ height > lastBlock[r]
       THEN GoTo(r, "fetch") /\ latestBlock' = [latestBlock EXCEPT ![r] = height]
       ELSE GoTo(r, "sleep") /\ UNCHANGED latestBlock
    /\ UNCHANGED <<subVars, running, published, got, envVars>>

\* GetBlockChainInfo answered; the first answer is only remembered.
LoopPoll(r) ==
    /\ run[r] = "poll"
    /\ transformer
    /\ lastBlock' = [lastBlock EXCEPT ![r] = IF @ = 0 THEN height ELSE @]
    /\ IF lastBlock[r] # 0 /\ height > lastBlock[r]
       THEN GoTo(r, "fetch") /\ latestBlock' = [latestBlock EXCEPT ![r] = height]
       ELSE GoTo(r, "sleep") /\ UNCHANGED latestBlock
    /\ UNCHANGED <<subVars, running, published, got, envVars>>

\* No transformer yet: nothing to do in this round.
LoopNoTransformer(r) ==
    /\ run[r] = "poll"
    /\ ~transformer
    /\ GoTo(r, "sleep")
    /\ UNCHANGED <<subVars, lastBlock, latestBlock, running, published, got, envVars>>

\* GetBlockChainInfo or eth_getBlockByHash failed: try again next round.
LoopFailure(r) ==
    /\ run[r] \in {"poll", "fetch"}
    /\ transformer
    /\ failures < MaxFailures
    /\ failures' = failures + 1
    /\ GoTo(r, "sleep")
    /\ latestBlock' = [latestBlock EXCEPT ![r] = 0]
    /\ UNCHANGED <<subVars, lastBlock, running, published, got, height, reorgs,
                   transformer>>

\* eth_getBlockByHash answered: SendAll to the subscriptions of this moment.
LoopPublish(r) ==
    /\ run[r] = "fetch"
    /\ lastBlock' = [lastBlock EXCEPT ![r] = latestBlock[r]]
    /\ published' = latestBlock[r]
    /\ got' = [id \in Ids |-> IF id \in subscriptions[NewHeads] THEN latestBlock[r] ELSE got[id]]
    /\ latestBlock' = [latestBlock EXCEPT ![r] = 0]
    /\ GoTo(r, "sleep")
    /\ UNCHANGED <<subVars, running, envVars>>

\* The interval has passed.
LoopWake(r) ==
    /\ run[r] = "sleep"
    /\ GoTo(r, "loop")
    /\ UNCHANGED <<subVars, lastBlock, latestBlock, running, published, got, envVars>>

\* The deferred function gives `running` back.
LoopLeave(r) ==
    /\ run[r] = "leave"
    /\ running' = FALSE
    /\ GoTo(r, "exited")
    /\ lastBlock' = [lastBlock EXCEPT ![r] = 0]
    /\ UNCHANGED <<subVars, latestBlock, published, got, envVars>>
-----------------------------------------------------------------------------
(* The start of the program and the Revo node                               *)

SetTransformer ==
    /\ ~transformer
    /\ transformer' = TRUE
    /\ UNCHANGED <<subVars, loopVars, height, reorgs, failures>>

NewBlock ==
    /\ height < MaxHeight
    /\ height' = height + 1
    /\ UNCHANGED <<subVars, loopVars, reorgs, failures, transformer>>

Reorg ==
    /\ reorgs < MaxReorgs
    /\ height > 1
    /\ height' = height - 1
    /\ reorgs' = reorgs + 1
    /\ UNCHANGED <<subVars, loopVars, failures, transformer>>
-----------------------------------------------------------------------------
RunStep(r) ==
    \/ RunCount(r) \/ RunAcquire(r) \/ LoopCount(r) \/ LoopPoll(r)
    \/ LoopNoTransformer(r) \/ LoopFailure(r) \/ LoopPublish(r) \/ LoopWake(r)
    \/ LoopLeave(r)

ClientStep(id) == AddSubscription(id) \/ StartIfIdle(id)

Next ==
    \/ \E id \in Ids :
        \/ \E k \in Kinds : NewSubscription(id, k)
        \/ ClientStep(id)
        \/ RemoveCheck(id)
        \/ RemoveDelete(id)
    \/ \E r \in Runs : RunStep(r)
    \/ SetTransformer \/ NewBlock \/ Reorg

Spec == Init /\ [][Next]_vars

\* Goroutines that can run do run; clients and the node are not fair.
Fairness ==
    /\ WF_vars(SetTransformer)
    /\ \A r \in Runs : WF_vars(RunStep(r))
    /\ \A id \in Ids : WF_vars(ClientStep(id)) /\ WF_vars(RemoveDelete(id))

FairSpec == Spec /\ Fairness
-----------------------------------------------------------------------------
\* Type invariant of the agent.
TypeOK ==
    /\ client \in [Ids -> ClientPC] /\ kind \in [Ids -> Kinds]
    /\ remover \in [Ids -> RemoverPC]
    /\ subscriptions \in [Kinds -> SUBSET Ids]
    /\ subscriptionCount \in [Kinds -> Int]
    /\ running \in BOOLEAN /\ transformer \in BOOLEAN
    /\ run \in [Runs -> RunPC]
    /\ lastBlock \in [Runs -> 0..MaxHeight] /\ latestBlock \in [Runs -> 0..MaxHeight]
    /\ height \in 0..MaxHeight
    /\ reorgs \in 0..MaxReorgs /\ failures \in 0..MaxFailures
    /\ published \in 0..MaxHeight
    /\ got \in [Ids -> 0..MaxHeight]

\* However many goroutines NewAgent and NewSubscription start, at most one is
\* the loop, and Agent.running tells whether there is one.
OneLoop ==
    /\ \A r, s \in Runs : run[r] \in Active /\ run[s] \in Active => r = s
    /\ running <=> \E r \in Runs : run[r] \in Active

\* The counter the loop decides by is the number of registered subscriptions,
\* through every interleaving of registrations and double-checked removals.
CountIsExact ==
    \A k \in Kinds : subscriptionCount[k] = Cardinality(subscriptions[k])

\* The loop in goroutine r publishes the head it has fetched and remembers it.
Publishes(r) == run[r] = "fetch" /\ lastBlock'[r] # lastBlock[r]

\* While the chain only grows, every head published is later than the one
\* before, also across loops that end and are started again: no head is
\* published twice.
HeadsIncrease ==
    [][reorgs = 0 => \A r \in Runs : Publishes(r) => published' > published]_vars

\* Why heads increase: outside the loop a goroutine remembers no block, and
\* while the chain only grows, what a loop remembers is at least the last
\* published head and what it is fetching is later.
HeadsOrdered ==
    /\ \A r \in Runs : run[r] \notin Active => lastBlock[r] = 0
    /\ reorgs = 0 =>
        /\ published <= height
        /\ \A r \in Runs :
            /\ lastBlock[r] = 0 \/ published <= lastBlock[r]
            /\ run[r] = "fetch" => /\ lastBlock[r] # 0
                                   /\ lastBlock[r] < latestBlock[r]
                                   /\ latestBlock[r] <= height

\* After the last unsubscribe the loop ends, unless somebody subscribes again.
LoopEnds ==
    (subscriptions[NewHeads] = {}) ~> (~running \/ subscriptions[NewHeads] # {})

\* The loop knows a block and the chain has a later one.
Behind == \E r \in Runs :
    run[r] \in Active \ {"leave"} /\ lastBlock[r] # 0 /\ height > lastBlock[r]

\* While the chain only grows, a loop that has fallen behind catches up, and
\* whoever stays subscribed is sent the newest head.
HeadsReachSubscribers ==
    \A id \in Ids :
        (Behind /\ id \in subscriptions[NewHeads])
        ~> (got[id] = height \/ id \notin subscriptions[NewHeads] \/ reorgs > 0)

\* As long as a new-heads subscription stays registered there is a loop that
\* serves it.
LoopWhileSubscribed ==
    \A id \in Ids :
        (client[id] = "subscribed" /\ id \in subscriptions[NewHeads])
        ~> (running \/ id \notin subscriptions[NewHeads])
=============================================================================
