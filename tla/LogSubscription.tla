--------------------------- MODULE LogSubscription ---------------------------
(***************************************************************************)
(* The goroutine behind a logs subscription (subscriptionInformation.run): *)
(* it waits for the node to report a block with logs, searches that block, *)
(* and notifies the client of what passes the filter, unless a hash says   *)
(* it did before. The chain changes between any two calls to the node, and *)
(* a branch that was left may come back. Each block has one transaction    *)
(* with logs; a log stands for its address, topics and data. The throttle  *)
(* between the rounds is a pause of any length. A notification goes into   *)
(* the connection's queue, of which module Notifier has the rest: here its *)
(* loop takes one, waits for a response that never comes, or ends.         *)
(***************************************************************************)
EXTENDS Integers, Sequences

CONSTANTS
    Logs,        \* contents of a log
    Matching,    \* those that pass the subscription's filter
    Receipts,    \* what the transaction of a block may have logged
    Capacity,    \* capacity of the connection's queue: 50 in the code
    MaxHeight,   \* bound: height of the chain
    Branches,    \* bound: blocks there may be at a height
    MaxFailures  \* bound: calls to the node that fail

ASSUME LogSubscriptionAssumption ==
    /\ Matching \subseteq Logs /\ Receipts \subseteq Seq(Logs)
    /\ Capacity \in Nat /\ MaxHeight \in Nat /\ MaxFailures \in Nat

Heights == 1..MaxHeight
Nil == 0          \* nextBlock before the first answer

VARIABLES
    receipt,      \* per height and branch: the logs of the block, never changed
    chain,        \* branch of the block at each height
    filtered,     \* the subscription has addresses or topics
    cancelled,    \* the subscription's context is done
    pc,           \* control point of run
    nextBlock,    \* where the next wait starts
    toSend,       \* notifications of the search still to be looked at or sent
    sentHashes,   \* hashes of what was sent or is about to be
    queued,       \* notifications in the connection's queue
    receiver,     \* the connection's loop: "running", "stuck" or "closed"
    times,        \* history: how often each notification was sent
    failures      \* bound: calls that failed so far

node == <<receipt, chain>>
subscription == <<filtered, cancelled>>
connection == <<queued, receiver>>
locals == <<nextBlock, toSend, sentHashes>>
logVars == <<node, subscription, connection, pc, locals, times, failures>>

\* A notification has the hash of the block and, as its index is lost on the
\* way, nothing that tells equal logs of a transaction apart.
Notifications == [height : Heights, branch : Branches, log : Logs]

LogInit ==
    /\ receipt \in [Heights -> [Branches -> Receipts]]
    /\ chain = <<>>
    /\ filtered \in BOOLEAN /\ cancelled = FALSE
    /\ pc = "start"
    /\ queued = 0 /\ receiver = "running"
    /\ nextBlock = Nil /\ toSend = <<>> /\ sentHashes = {}
    /\ times = [n \in Notifications |-> 0]
    /\ failures = 0

GoTo(p) == pc' = p
-----------------------------------------------------------------------------
(* The node                                                                  *)

NewBlock ==
    /\ Len(chain) < MaxHeight
    /\ \E b \in Branches : chain' = Append(chain, b)
    /\ UNCHANGED <<receipt, subscription, connection, pc, locals, times, failures>>

\* The last block is taken back; the next block may be another, or it again.
Reorg ==
    /\ chain # <<>>
    /\ chain' = SubSeq(chain, 1, Len(chain) - 1)
    /\ UNCHANGED <<receipt, subscription, connection, pc, locals, times, failures>>

\* eth_unsubscribe, or the connection's context.
Cancel ==
    /\ ~cancelled /\ cancelled' = TRUE
    /\ UNCHANGED <<node, filtered, connection, pc, locals, times, failures>>
-----------------------------------------------------------------------------
(* The loop of the connection (Notifier.run)                                 *)

Drain ==
    /\ receiver = "running" /\ queued > 0
    /\ queued' = queued - 1
    /\ UNCHANGED <<node, subscription, receiver, pc, locals, times, failures>>

\* The pending channel the loop waits on was replaced: the loop has taken an
\* event and takes no other.
LoopSticks ==
    /\ receiver = "running" /\ queued > 0
    /\ receiver' = "stuck" /\ queued' = queued - 1
    /\ UNCHANGED <<node, subscription, pc, locals, times, failures>>

\* The connection ends; the queue is closed before subscriptions are cancelled.
LoopEnds ==
    /\ receiver # "closed"
    /\ receiver' = "closed"
    /\ UNCHANGED <<node, subscription, queued, pc, locals, times, failures>>

Loop == Drain \/ LoopSticks \/ LoopEnds
-----------------------------------------------------------------------------
(* The goroutine                                                             *)

\* Topics or addresses that cannot be translated end the goroutine.
Start ==
    /\ pc = "start"
    /\ GoTo("wait") \/ GoTo("ended")
    /\ UNCHANGED <<node, subscription, connection, locals, times, failures>>

\* The code relies on nothing but that the node reports a block it has.
WaitForLogs ==
    /\ pc = "wait" /\ ~cancelled
    /\ nextBlock' \in 1..(Len(chain) + 1)
    /\ GoTo("search")
    /\ UNCHANGED <<node, subscription, connection, toSend, sentHashes, times, failures>>

CallFails ==
    \/ cancelled /\ UNCHANGED failures
    \/ failures < MaxFailures /\ failures' = failures + 1

WaitFails ==
    /\ pc = "wait" /\ CallFails
    /\ GoTo("look")
    /\ UNCHANGED <<node, subscription, connection, locals, times>>

\* Mutant: logs that do not match are not left out.
FilterRevoLogs_Unfiltered(logs) == logs

\* Without addresses and topics all logs; else the loop ends at the first
\* that matches.
FilterRevoLogs(logs) ==
    LET first == {i \in DOMAIN logs :
                    logs[i] \in Matching /\ \A j \in 1..(i - 1) : logs[j] \notin Matching}
    IN  IF ~filtered THEN logs
        ELSE IF first = {} THEN <<>> ELSE <<logs[CHOOSE i \in first : TRUE]>>

Found(h) ==
    IF h \in DOMAIN chain
    THEN LET logs == FilterRevoLogs(receipt[h][chain[h]])
         IN  [i \in DOMAIN logs |-> [height |-> h, branch |-> chain[h], log |-> logs[i]]]
    ELSE <<>>

\* Of the blocks the node waited through, only the last is searched, and it
\* is whatever block now has that height.
SearchLogs ==
    /\ pc = "search" /\ ~cancelled
    /\ toSend' = Found(nextBlock - 1)
    /\ GoTo("notify")
    /\ UNCHANGED <<node, subscription, connection, nextBlock, sentHashes, times, failures>>

\* One search that fails ends the goroutine; the subscription stays.
SearchFails ==
    /\ pc = "search" /\ CallFails
    /\ GoTo("ended")
    /\ UNCHANGED <<node, subscription, connection, locals, times>>

\* Mutant: a log that was sent before ends the round.
Notify_StopAtSent ==
    /\ pc = "notify" /\ toSend # <<>>
    /\ IF Head(toSend) \in sentHashes THEN toSend' = <<>> /\ UNCHANGED <<pc, sentHashes>>
       ELSE sentHashes' = sentHashes \cup {Head(toSend)} /\ GoTo("sending") /\ UNCHANGED toSend
    /\ UNCHANGED <<node, subscription, connection, nextBlock, times, failures>>

\* Mutant: only the last log sent is remembered.
Notify_RemembersLast ==
    /\ pc = "notify" /\ toSend # <<>>
    /\ IF Head(toSend) \in sentHashes THEN toSend' = Tail(toSend) /\ UNCHANGED <<pc, sentHashes>>
       ELSE sentHashes' = {Head(toSend)} /\ GoTo("sending") /\ UNCHANGED toSend
    /\ UNCHANGED <<node, subscription, connection, nextBlock, times, failures>>

\* What was not sent before is remembered, and then sent.
Notify ==
    /\ pc = "notify" /\ toSend # <<>>
    /\ IF Head(toSend) \in sentHashes THEN toSend' = Tail(toSend) /\ UNCHANGED <<pc, sentHashes>>
       ELSE sentHashes' = sentHashes \cup {Head(toSend)} /\ GoTo("sending") /\ UNCHANGED toSend
    /\ UNCHANGED <<node, subscription, connection, nextBlock, times, failures>>

\* The send waits for room in the queue and looks at no context.
SendLog ==
    /\ pc = "sending" /\ receiver # "closed" /\ queued < Capacity
    /\ queued' = queued + 1
    /\ times' = [times EXCEPT ![Head(toSend)] = @ + 1]
    /\ toSend' = Tail(toSend)
    /\ GoTo("notify")
    /\ UNCHANGED <<node, subscription, receiver, nextBlock, sentHashes, failures>>

\* A send on the closed queue, or one that waits when it is closed, panics.
SendLogPanics ==
    /\ pc = "sending" /\ receiver = "closed"
    /\ GoTo("panic")
    /\ UNCHANGED <<node, subscription, connection, locals, times, failures>>

RoundEnds ==
    /\ pc = "notify" /\ toSend = <<>>
    /\ GoTo("look")
    /\ UNCHANGED <<node, subscription, connection, locals, times, failures>>

\* Mutant: the context is not looked at between the rounds.
LooksAtContext_No == pc = "look" /\ GoTo("pause")

LooksAtContext == pc = "look" /\ GoTo(IF cancelled THEN "ended" ELSE "pause")

\* When the context ends during the pause, select may still take the timer.
Pause ==
    /\ pc = "pause"
    /\ \/ GoTo("wait")
       \/ cancelled /\ GoTo("ended")

BetweenRounds ==
    /\ LooksAtContext \/ Pause
    /\ UNCHANGED <<node, subscription, connection, locals, times, failures>>

Run ==
    \/ Start \/ WaitForLogs \/ WaitFails \/ SearchLogs \/ SearchFails \/ Notify \/ SendLog
    \/ SendLogPanics \/ RoundEnds \/ BetweenRounds

\* A panic ends the program.
LogNext == pc # "panic" /\ (NewBlock \/ Reorg \/ Cancel \/ Loop \/ Run)

\* The goroutines are scheduled; a call with a cancelled context returns.
LogSpec == LogInit /\ [][LogNext]_logVars
FairLogSpec == LogSpec /\ WF_logVars(Run) /\ WF_logVars(Drain)
-----------------------------------------------------------------------------
\* Type invariant of the goroutine and the node.
LogTypeOK ==
    /\ receipt \in [Heights -> [Branches -> Receipts]]
    /\ chain \in Seq(Branches) /\ Len(chain) <= MaxHeight
    /\ filtered \in BOOLEAN /\ cancelled \in BOOLEAN
    /\ pc \in {"start", "wait", "search", "notify", "sending", "look", "pause", "ended", "panic"}
    /\ queued \in 0..Capacity /\ receiver \in {"running", "stuck", "closed"}
    /\ nextBlock \in Nil..(MaxHeight + 1)
    /\ toSend \in Seq(Notifications) /\ (pc = "sending" => toSend # <<>>)
    /\ sentHashes \subseteq Notifications
    /\ times \in [Notifications -> Nat]
    /\ failures \in 0..MaxFailures

\* A client is notified of a log of a block once, however often the node
\* reports the block, and also when the chain comes back to it.
SentOnce == \A n \in Notifications : times[n] <= 1

\* What a client is notified of is in the receipt of a block of that branch
\* and passes the filter, although the chain may change between the report,
\* the search and the notification.
OnlyMatchingLogs ==
    \A n \in Notifications : times[n] > 0 =>
        /\ \E i \in DOMAIN receipt[n.height][n.branch] : receipt[n.height][n.branch][i] = n.log
        /\ filtered => n.log \in Matching

\* A log the search found is not dropped while the program runs: it stays to be
\* looked at until it is in the connection's queue, now or from a round before.
FoundIsNotified ==
    [][\A i \in DOMAIN toSend :
         times'[toSend[i]] = 0 => \E j \in DOMAIN toSend' : toSend'[j] = toSend[i]]_logVars

\* The send waits on a full queue that nobody takes from.
Blocked == pc = "sending" /\ queued = Capacity /\ receiver = "stuck"

\* A cancelled subscription's goroutine ends, whatever it is about; but its send
\* waits for ever when the loop does, and panics when the loop has ended.
CancelEnds == cancelled ~> pc \in {"ended", "panic"} \/ []Blocked
=============================================================================
