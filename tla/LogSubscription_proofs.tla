----------------------- MODULE LogSubscription_proofs -----------------------
(***************************************************************************)
(* Proofs about LogSubscription for any logs, receipts, branches and       *)
(* bounds: a log is notified of once, only matching logs of a block are    *)
(* notified of, and none that a search found is dropped.                   *)
(***************************************************************************)
EXTENDS LogSubscription, TLAPS

\* Every notification comes from a receipt and passes the filter.
Genuine(n) ==
    /\ n \in Notifications
    /\ \E i \in DOMAIN receipt[n.height][n.branch] : receipt[n.height][n.branch][i] = n.log
    /\ filtered => n.log \in Matching

\* What is remembered and not sent yet.
Unsent == IF pc \in {"sending", "panic"} THEN {Head(toSend)} ELSE {}

\* The set of hashes is what the client got, once each, and what is on the way
\* to the queue; what waits to be looked at is genuine and of the running round.
HashesAreSent ==
    /\ \A n \in Notifications : times[n] = IF n \in sentHashes \ Unsent THEN 1 ELSE 0
    /\ Unsent \subseteq sentHashes
    /\ \A n \in sentHashes : Genuine(n)
    /\ \A i \in DOMAIN toSend : Genuine(toSend[i])
    /\ pc \notin {"notify", "sending", "panic"} => toSend = <<>>
-----------------------------------------------------------------------------
\* What FilterRevoLogs returns are logs of the receipt that pass the filter.
LEMMA FilterReturns ==
  ASSUME NEW logs \in Seq(Logs), filtered \in BOOLEAN
  PROVE  /\ FilterRevoLogs(logs) \in Seq(Logs)
         /\ \A i \in DOMAIN FilterRevoLogs(logs) :
              /\ \E j \in DOMAIN logs : logs[j] = FilterRevoLogs(logs)[i]
              /\ filtered => FilterRevoLogs(logs)[i] \in Matching
<1> DEFINE first == {i \in DOMAIN logs :
                       logs[i] \in Matching /\ \A j \in 1..(i - 1) : logs[j] \notin Matching}
<1>1. CASE ~filtered
  BY <1>1 DEF FilterRevoLogs
<1>2. CASE filtered /\ first = {}
  <2>1. FilterRevoLogs(logs) = <<>> BY <1>2 DEF FilterRevoLogs
  <2> QED BY <2>1
<1>3. CASE filtered /\ first # {}
  <2> DEFINE k == CHOOSE i \in first : TRUE
  <2>1. k \in first BY <1>3
  <2>2. FilterRevoLogs(logs) = <<logs[k]>> BY <1>3 DEF FilterRevoLogs
  <2>3. logs[k] \in Logs /\ logs[k] \in Matching /\ k \in DOMAIN logs BY <2>1
  <2> HIDE DEF k
  <2> QED BY <2>2, <2>3
<1> QED BY <1>1, <1>2, <1>3

\* What a search finds is genuine.
LEMMA FoundIsGenuine ==
  ASSUME LogTypeOK, NEW h \in Int
  PROVE  Found(h) \in Seq(Notifications) /\ \A i \in DOMAIN Found(h) : Genuine(Found(h)[i])
<1>1. CASE h \notin DOMAIN chain
  BY <1>1 DEF Found
<1>2. CASE h \in DOMAIN chain
  <2> DEFINE block == receipt[h][chain[h]]
             logs == FilterRevoLogs(block)
  <2>1. h \in Heights /\ chain[h] \in Branches
    BY <1>2, LogSubscriptionAssumption DEF LogTypeOK, Heights
  <2>2. block \in Receipts /\ block \in Seq(Logs)
    BY <2>1, LogSubscriptionAssumption DEF LogTypeOK
  <2>3. logs \in Seq(Logs) /\ \A i \in DOMAIN logs :
          /\ \E j \in DOMAIN block : block[j] = logs[i]
          /\ filtered => logs[i] \in Matching
    BY <2>2, FilterReturns DEF LogTypeOK
  <2>4. Found(h) = [i \in DOMAIN logs |-> [height |-> h, branch |-> chain[h], log |-> logs[i]]]
    BY <1>2 DEF Found
  <2> HIDE DEF logs
  <2>5. Found(h) \in Seq(Notifications)
    <3>1. \A i \in DOMAIN logs :
             [height |-> h, branch |-> chain[h], log |-> logs[i]] \in Notifications
      BY <2>1, <2>3 DEF Notifications
    <3>2. DOMAIN logs = 1..Len(logs) /\ Len(logs) \in Nat
      BY <2>3
    <3> QED BY <2>4, <3>1, <3>2
  <2>6. \A i \in DOMAIN Found(h) : Genuine(Found(h)[i])
    BY <2>1, <2>3, <2>4, <2>5 DEF Genuine, Notifications
  <2> QED BY <2>5, <2>6
<1> QED BY <1>1, <1>2
-----------------------------------------------------------------------------
\* The type invariant: whatever the node reports and however the chain
\* changes, the goroutine's locals keep their types.
THEOREM TypeCorrect == LogSpec => []LogTypeOK
<1>1. LogInit => LogTypeOK
  <2> SUFFICES ASSUME LogInit PROVE LogTypeOK
    OBVIOUS
  <2>1. chain \in Seq(Branches) /\ Len(chain) <= MaxHeight
    BY LogSubscriptionAssumption DEF LogInit
  <2>2. toSend \in Seq(Notifications) /\ times \in [Notifications -> Nat]
    BY DEF LogInit
  <2>3. nextBlock \in Nil..(MaxHeight + 1) /\ queued \in 0..Capacity /\ failures \in 0..MaxFailures
    BY LogSubscriptionAssumption DEF LogInit, Nil
  <2> QED BY <2>1, <2>2, <2>3 DEF LogInit, LogTypeOK
<1>2. LogTypeOK /\ [LogNext]_logVars => LogTypeOK'
  <2> SUFFICES ASSUME LogTypeOK, [LogNext]_logVars PROVE LogTypeOK'
    OBVIOUS
  <2> USE LogSubscriptionAssumption DEF Nil, connection
  <2>1. CASE NewBlock
    BY <2>1 DEF NewBlock, LogTypeOK, subscription, locals
  <2>2. CASE Reorg
    BY <2>2 DEF Reorg, LogTypeOK, subscription, locals
  <2>3. CASE Cancel
    BY <2>3 DEF Cancel, LogTypeOK, node, locals
  <2>4. CASE Start
    BY <2>4 DEF Start, GoTo, LogTypeOK, node, subscription, locals
  <2>5. CASE WaitForLogs
    BY <2>5 DEF WaitForLogs, GoTo, LogTypeOK, node, subscription
  <2>6. CASE WaitFails
    BY <2>6 DEF WaitFails, CallFails, GoTo, LogTypeOK, node, subscription, locals
  <2>7. CASE SearchLogs
    <3>1. toSend' \in Seq(Notifications)
      BY <2>7, FoundIsGenuine DEF SearchLogs, LogTypeOK
    <3> QED BY <2>7, <3>1 DEF SearchLogs, GoTo, LogTypeOK, node, subscription
  <2>8. CASE SearchFails
    BY <2>8 DEF SearchFails, CallFails, GoTo, LogTypeOK, node, subscription, locals
  <2>9. CASE Notify
    <3>1. Head(toSend) \in Notifications /\ Tail(toSend) \in Seq(Notifications)
      BY <2>9 DEF Notify, LogTypeOK
    <3> QED BY <2>9, <3>1 DEF Notify, GoTo, LogTypeOK, node, subscription
  <2>10. CASE RoundEnds
    BY <2>10 DEF RoundEnds, GoTo, LogTypeOK, node, subscription, locals
  <2>11. CASE BetweenRounds
    BY <2>11 DEF BetweenRounds, LooksAtContext, Pause, GoTo, LogTypeOK, node, subscription, locals
  <2>12. CASE SendLog
    <3>1. Tail(toSend) \in Seq(Notifications) /\ times' \in [Notifications -> Nat]
      BY <2>12 DEF SendLog, LogTypeOK
    <3> QED BY <2>12, <3>1 DEF SendLog, GoTo, LogTypeOK, node, subscription
  <2>13. CASE SendLogPanics
    BY <2>13 DEF SendLogPanics, GoTo, LogTypeOK, node, subscription, locals
  <2>14. CASE Loop
    BY <2>14 DEF Loop, Drain, LoopSticks, LoopEnds, LogTypeOK, node, subscription, locals
  <2>15. CASE UNCHANGED logVars
    BY <2>15 DEF logVars, LogTypeOK, node, subscription, locals
  <2> QED BY <2>1, <2>2, <2>3, <2>4, <2>5, <2>6, <2>7, <2>8, <2>9, <2>10, <2>11, <2>12, <2>13,
             <2>14, <2>15
          DEF LogNext, Run
<1> QED BY <1>1, <1>2, PTL DEF LogSpec

\* HashesAreSent is inductive.
LEMMA HashesInvariant == LogSpec => []HashesAreSent
<1>1. LogInit => HashesAreSent
  BY DEF LogInit, HashesAreSent, Unsent
<1>2. LogTypeOK /\ HashesAreSent /\ [LogNext]_logVars => HashesAreSent'
  <2> SUFFICES ASSUME LogTypeOK, HashesAreSent, [LogNext]_logVars PROVE HashesAreSent'
    OBVIOUS
  <2>1. CASE SearchLogs
    <3>1. /\ UNCHANGED <<receipt, filtered, sentHashes, times>>
          /\ toSend' = Found(nextBlock - 1) /\ pc' = "notify"
      BY <2>1 DEF SearchLogs, GoTo, node, subscription
    <3>2. \A i \in DOMAIN toSend' : Genuine(toSend'[i])
      BY <3>1, FoundIsGenuine, LogSubscriptionAssumption DEF LogTypeOK, Nil
    <3>3. Unsent = {} /\ Unsent' = {}
      BY <2>1, <3>1 DEF Unsent, SearchLogs
    <3> QED BY <3>1, <3>2, <3>3 DEF HashesAreSent, Genuine
  <2>2. CASE Notify
    <3> DEFINE n == Head(toSend)
    <3>1. n = toSend[1] /\ 1 \in DOMAIN toSend /\ n \in Notifications /\ Genuine(n)
      BY <2>2 DEF Notify, LogTypeOK, HashesAreSent
    <3>2. UNCHANGED <<receipt, filtered, times>> /\ Unsent = {}
      BY <2>2 DEF Notify, node, subscription, Unsent
    <3>3. CASE n \in sentHashes
      <4>1. /\ toSend' = Tail(toSend) /\ UNCHANGED <<pc, sentHashes>> /\ pc = "notify"
        BY <2>2, <3>3 DEF Notify
      <4>2. \A i \in DOMAIN Tail(toSend) : i + 1 \in DOMAIN toSend /\ Tail(toSend)[i] = toSend[i + 1]
        BY <2>2 DEF Notify, LogTypeOK
      <4>3. Unsent' = {}
        BY <4>1 DEF Unsent
      <4>4. \A i \in DOMAIN toSend' : Genuine(toSend'[i])
        BY <4>1, <4>2 DEF HashesAreSent
      <4> QED BY <3>2, <4>1, <4>3, <4>4 DEF HashesAreSent, Genuine
    <3>4. CASE n \notin sentHashes
      <4>1. sentHashes' = sentHashes \cup {n} /\ pc' = "sending" /\ toSend' = toSend
        BY <2>2, <3>4 DEF Notify, GoTo
      <4>2. Unsent' = {n}
        BY <4>1 DEF Unsent
      <4>3. sentHashes' \ Unsent' = sentHashes \ Unsent
        BY <3>2, <3>4, <4>1, <4>2
      <4> QED BY <3>1, <3>2, <4>1, <4>2, <4>3 DEF HashesAreSent, Genuine
    <3> QED BY <3>3, <3>4
  <2>3. CASE SendLog
    <3> DEFINE n == Head(toSend)
    <3>1. n = toSend[1] /\ 1 \in DOMAIN toSend /\ n \in Notifications
      BY <2>3 DEF SendLog, LogTypeOK
    <3>2. /\ UNCHANGED <<receipt, filtered, sentHashes>> /\ Unsent = {n} /\ Unsent' = {}
          /\ toSend' = Tail(toSend) /\ times' = [times EXCEPT ![n] = @ + 1] /\ pc' = "notify"
      BY <2>3 DEF SendLog, GoTo, node, subscription, Unsent
    <3>3. \A i \in DOMAIN Tail(toSend) : i + 1 \in DOMAIN toSend /\ Tail(toSend)[i] = toSend[i + 1]
      BY <2>3 DEF SendLog, LogTypeOK
    <3>4. n \in sentHashes /\ times[n] = 0
      BY <3>1, <3>2 DEF HashesAreSent
    <3>5. \A m \in Notifications : times'[m] = IF m \in sentHashes' \ Unsent' THEN 1 ELSE 0
      BY <3>1, <3>2, <3>4 DEF HashesAreSent, LogTypeOK
    <3>6. \A i \in DOMAIN toSend' : Genuine(toSend'[i])
      BY <3>2, <3>3 DEF HashesAreSent
    <3> QED BY <3>2, <3>5, <3>6 DEF HashesAreSent, Genuine
  <2>4. CASE ~SearchLogs /\ ~Notify /\ ~SendLog
    <3>1. UNCHANGED <<receipt, filtered, toSend, sentHashes, times>>
      BY <2>4 DEF LogNext, Run, Loop, Drain, LoopSticks, LoopEnds, NewBlock, Reorg, Cancel, Start, WaitForLogs,
                  WaitFails, SearchFails, SendLogPanics, RoundEnds, BetweenRounds, logVars, node, subscription, locals
    <3>2. (pc' \notin {"notify", "sending", "panic"} => toSend = <<>>)
          /\ (pc' \in {"sending", "panic"} <=> pc \in {"sending", "panic"})
      BY <2>4 DEF LogNext, Run, Loop, Drain, LoopSticks, LoopEnds, NewBlock, Reorg, Cancel, Start, WaitForLogs,
                  WaitFails, SearchFails, SendLogPanics, RoundEnds, BetweenRounds, LooksAtContext, Pause, GoTo,
                  logVars, HashesAreSent
    <3>3. Unsent' = Unsent
      BY <3>1, <3>2 DEF Unsent
    <3> QED BY <3>1, <3>2, <3>3 DEF HashesAreSent, Genuine
  <2> QED BY <2>1, <2>2, <2>3, <2>4
<1> QED BY <1>1, <1>2, TypeCorrect, PTL DEF LogSpec
-----------------------------------------------------------------------------
\* sentHashes (subscription.go) keeps a log from being sent twice, although
\* the node may report a block again and the chain may come back to it.
THEOREM LogsAreSentOnce == LogSpec => []SentOnce
<1>1. HashesAreSent => SentOnce BY DEF HashesAreSent, SentOnce
<1> QED BY <1>1, HashesInvariant, PTL

\* FilterRevoLogs keeps what is sent to the subscription's filter.
THEOREM LogsAreGenuine == LogSpec => []OnlyMatchingLogs
<1>1. HashesAreSent => OnlyMatchingLogs
  BY DEF HashesAreSent, OnlyMatchingLogs, Genuine
<1> QED BY <1>1, HashesInvariant, PTL

\* The loop over the logs found skips none but those sent before, and leaves one
\* it remembers only with the send.
THEOREM NothingDropped == LogSpec => FoundIsNotified
<1> DEFINE Kept == \A i \in DOMAIN toSend :
              times'[toSend[i]] = 0 => \E j \in DOMAIN toSend' : toSend'[j] = toSend[i]
<1>1. ASSUME LogTypeOK, HashesAreSent, HashesAreSent', [LogNext]_logVars
      PROVE  Kept
  <2>1. CASE (Notify /\ Head(toSend) \in sentHashes) \/ SendLog
    <3> SUFFICES ASSUME NEW i \in DOMAIN toSend, times'[toSend[i]] = 0
                 PROVE  \E j \in DOMAIN toSend' : toSend'[j] = toSend[i]
      OBVIOUS
    <3> DEFINE n == Head(toSend)
    <3>1. toSend \in Seq(Notifications) /\ toSend # <<>>
      BY <1>1, <2>1 DEF Notify, SendLog, LogTypeOK
    <3>2. n = toSend[1] /\ n \in Notifications /\ toSend' = Tail(toSend)
      BY <2>1, <3>1 DEF Notify, SendLog
    <3>3. n \in sentHashes' /\ Unsent' = {}
      BY <1>1, <2>1 DEF Notify, SendLog, GoTo, HashesAreSent, Unsent
    <3>4. times'[n] = 1
      BY <1>1, <3>2, <3>3 DEF HashesAreSent
    <3>5. i # 1
      BY <3>2, <3>4
    <3>6. i - 1 \in DOMAIN Tail(toSend) /\ Tail(toSend)[i - 1] = toSend[i]
      <4>1. DOMAIN toSend = 1..Len(toSend) /\ Len(Tail(toSend)) = Len(toSend) - 1 /\ Len(toSend) \in Nat
        BY <3>1
      <4>2. i - 1 \in 1..Len(Tail(toSend)) BY <4>1, <3>5
      <4> QED BY <3>1, <4>1, <4>2
    <3> QED BY <3>2, <3>6
  <2>2. CASE SearchLogs
    BY <1>1, <2>2 DEF SearchLogs, HashesAreSent
  <2>3. CASE ~SearchLogs /\ ~SendLog /\ ~(Notify /\ Head(toSend) \in sentHashes)
    <3>1. UNCHANGED toSend
      BY <1>1, <2>3 DEF LogNext, Run, Loop, Drain, LoopSticks, LoopEnds, NewBlock, Reorg, Cancel, Start,
                        WaitForLogs, WaitFails, SearchFails, Notify, SendLogPanics, RoundEnds, BetweenRounds,
                        logVars, locals
    <3> QED BY <3>1
  <2> QED BY <2>1, <2>2, <2>3
<1> QED BY <1>1, TypeCorrect, HashesInvariant, PTL DEF LogSpec, FoundIsNotified
=============================================================================
