------------------------------- MODULE BlockSync -------------------------------
(***************************************************************************)
(* testBlocksSyncing (server/health.go): health checks that run at once    *)
(* share the height that was seen last, when to look again, and what to    *)
(* answer until then. The lock is held while the node is asked.            *)
(***************************************************************************)
EXTENDS Integers

CONSTANTS
    Checks,     \* health checks that run at once
    Few,        \* 10, blocks that may be missing for a moment
    MaxHeight,  \* bound on the height of the node
    Pause       \* per status: time until the node is asked again

Unlocked == "unlocked"
Never == -1

ASSUME SyncAssumption ==
    /\ Unlocked \notin Checks /\ Few \in Nat /\ MaxHeight \in Nat
    /\ Pause \in [{"ok", "stalled", "lostLots", "lostFew"} -> Nat]

VARIABLES
    height,      \* of the node
    lastBlock, lastBlockStatus,
    wait,        \* time left until nextBlockCheck, or Never when it is nil
    blocksMutex, \* the check that holds it for writing, or Unlocked
    check,       \* per health check: where it is
    changed      \* per health check: nextBlockCheck is another than the one it read

syncVars == <<height, lastBlock, lastBlockStatus, wait, blocksMutex, check, changed>>

SyncInit ==
    /\ height \in 0..MaxHeight
    /\ lastBlock = 0 /\ lastBlockStatus = "ok" /\ wait = Never
    /\ blocksMutex = Unlocked
    /\ check = [p \in Checks |-> "idle"] /\ changed = [p \in Checks |-> FALSE]

shared == <<height, lastBlock, lastBlockStatus, wait>>
Goes(p, l) == check' = [check EXCEPT ![p] = l]

Begin(p) == check[p] = "idle" /\ Goes(p, "reading") /\ UNCHANGED <<shared, blocksMutex, changed>>

\* The last status is answered until it is time to look again.
ReadBlocks(p) ==
    /\ check[p] = "reading" /\ blocksMutex = Unlocked
    /\ changed' = [changed EXCEPT ![p] = FALSE]
    /\ Goes(p, IF wait > 0 THEN "idle" ELSE "locking")
    /\ UNCHANGED <<shared, blocksMutex>>

\* Mutant: another check that looked meanwhile is not noticed.
LockBlocks_Blind(p) ==
    /\ check[p] = "locking" /\ blocksMutex = Unlocked
    /\ blocksMutex' = p /\ Goes(p, "asking")
    /\ UNCHANGED <<shared, changed>>

\* When another check looked meanwhile, this one starts again.
LockBlocks(p) ==
    /\ check[p] = "locking" /\ blocksMutex = Unlocked
    /\ IF wait # Never /\ changed[p] THEN Goes(p, "reading") /\ UNCHANGED blocksMutex
       ELSE blocksMutex' = p /\ Goes(p, "asking")
    /\ UNCHANGED <<shared, changed>>

Judge(h) ==
    IF h = lastBlock THEN "stalled"
    ELSE IF h > lastBlock THEN "ok"
    ELSE IF lastBlock - h > Few THEN "lostLots" ELSE "lostFew"

LastBlock(h) == IF Judge(h) = "ok" THEN h ELSE IF Judge(h) = "lostLots" THEN 0 ELSE lastBlock

\* An error of the node is answered and not remembered.
Look(p) ==
    /\ check[p] = "asking"
    /\ Goes(p, "idle") /\ blocksMutex' = Unlocked
    /\ UNCHANGED height
    /\ \/ /\ lastBlockStatus' = Judge(height) /\ lastBlock' = LastBlock(height)
          /\ wait' = Pause[Judge(height)]
          /\ changed' = [q \in Checks |-> TRUE]
       \/ UNCHANGED <<lastBlock, lastBlockStatus, wait, changed>>

Tick ==
    /\ wait > 0
    /\ wait' = wait - 1
    /\ UNCHANGED <<height, lastBlock, lastBlockStatus, blocksMutex, check, changed>>

\* Blocks are found or left, or another node behind the load balancer answers.
NodeChanges ==
    /\ height' \in 0..MaxHeight
    /\ UNCHANGED <<lastBlock, lastBlockStatus, wait, blocksMutex, check, changed>>

CheckBlocks(p) == ReadBlocks(p) \/ LockBlocks(p) \/ Look(p)

SyncNext == Tick \/ NodeChanges \/ \E p \in Checks : Begin(p) \/ CheckBlocks(p)

SyncSpec == SyncInit /\ [][SyncNext]_syncVars
-----------------------------------------------------------------------------
(* Properties                                                                *)

\* Two looks at the node are never closer than the pause after the first, also
\* when several checks found it time to look: or the second would call a node
\* stalled that had no time to find a block.
LooksApart == [][(\E p \in Checks : check[p] = "asking" /\ check'[p] = "idle") => wait <= 0]_syncVars

\* A check that starts again gives the lock back first: whoever holds it is
\* asking the node, and no check waits for itself.
HolderAsks == blocksMutex # Unlocked => check[blocksMutex] = "asking"
=============================================================================
