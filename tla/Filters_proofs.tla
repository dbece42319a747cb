--------------------------- MODULE Filters_proofs ---------------------------
(***************************************************************************)
(* Proofs about Filters for any clients and any bounds: no block is lost,  *)
(* none is answered twice without overlapping polls, a poll panics only    *)
(* after the chain got shorter, an uninstalled filter is gone, and         *)
(* eth_getFilterLogs answers the range asked for.                          *)
(***************************************************************************)
EXTENDS Filters, TLAPS

\* Where a call is tells which call it is and which of its locals are set.
Control ==
    \A c \in Clients :
        /\ stage[c] \in {"fromBlock", "toBlock", "setTo", "topics"} => request[c] = "newFilter"
        /\ stage[c] = "count" => request[c] \in {"newBlockFilter", "getFilterChanges"}
        /\ stage[c] \in {"counted", "hashes"} => request[c] = "getFilterChanges"
        /\ stage[c] \in {"new", "store", "setLast"} => request[c] \in {"newBlockFilter", "newFilter"}
        /\ stage[c] = "generate" => request[c] = "newBlockFilter"
        /\ stage[c] = "search" => request[c] \in {"getFilterChanges", "getFilterLogs"}
        /\ stage[c] = "fromBlock" => from[c] \in Heights \cup {LatestBlock}
        /\ stage[c] \in {"toBlock", "count", "new", "store", "setLast", "setTo", "counted", "hashes"}
            => from[c] \in Heights
        /\ stage[c] \in {"new", "store", "setLast", "setTo", "counted", "hashes", "search"}
            => to[c] \in Heights
        /\ stage[c] = "hashes" => from[c] <= to[c]
        /\ stage[c] = "search" => from[c] \in 0..(MaxHeight + 1)
        /\ stage[c] \in {"store", "setLast", "setTo", "topics", "generate"} => target[c] \in Ids
        /\ request[c] \in {"getFilterChanges", "getFilterLogs"} => target[c] \in Ids

\* Calls that hold the id of a filter they are making.
Making(c) == stage[c] \in {"store", "setLast", "setTo", "topics", "generate"}

\* Only ids given out have a filter, and only a filter has data.
StoredFilters ==
    /\ \A f \in filters : type[f] # "none"
    /\ \A f \in Ids : type[f] # "none" => f <= maxFilterID
    /\ \A f \in Ids : type[f] = "none" => last[f] = Unset /\ toBlock[f] = Unset

\* The filter a call makes is stored by that call, of the type it asks for,
\* and has no data until the call sets it.
MakersOwn ==
    \A c \in Clients : Making(c) =>
        /\ target[c] <= maxFilterID
        /\ stage[c] = "store" <=> type[target[c]] = "none"
        /\ stage[c] \in {"setLast", "setTo"} =>
            type[target[c]] = IF request[c] = "newFilter" THEN "log" ELSE "block"
        /\ stage[c] = "setLast" => last[target[c]] = Unset

\* No two calls make the same filter.
MakersDiffer ==
    \A c, d \in Clients : Making(c) /\ Making(d) /\ target[c] = target[d] => c = d

\* A filter that is polled has its data, and a loop over hashes runs for a
\* block filter.
PolledIsSet ==
    \A c \in Clients, f \in Ids : Polls(c, f) =>
        /\ last[f] # Unset
        /\ stage[c] = "hashes" => type[f] = "block"

\* What a poll of a block filter has read was answered before.
PollsAreCovered ==
    \A c \in Clients, f \in Ids :
        Polls(c, f) /\ type[f] = "block" => 0..from[c] \subseteq reported[f]

\* While the chain only grows, nothing a block filter or a call on one knows
\* is above it.
FiltersBelow == reorgs = 0 => \A f \in Ids : type[f] = "block" => last[f] <= blockCount
MakersBelow ==
    reorgs = 0 => \A c \in Clients :
        request[c] = "newBlockFilter" /\ stage[c] # "idle" => to[c] <= blockCount
PollsBelow ==
    reorgs = 0 => \A c \in Clients, f \in Ids : Polls(c, f) /\ type[f] = "block" =>
        /\ from[c] <= blockCount /\ to[c] <= blockCount
        /\ stage[c] \in {"counted", "hashes"} => from[c] <= to[c]

\* A log filter keeps the range it was made with.
RangeIsKept ==
    \A f \in Ids : type[f] = "log" =>
        last[f] \in {Unset, asked[f][1]} /\ toBlock[f] \in {Unset, asked[f][2]}

\* A call that makes a log filter, or searches all its logs, has that range.
CallsHaveRange ==
    \A c \in Clients :
        /\ stage[c] \in {"setLast", "setTo"} /\ request[c] = "newFilter" =>
            asked[target[c]] = <<from[c], to[c]>>
        /\ request[c] = "getFilterLogs" /\ (stage[c] = "search" \/ status[c] = "ok") =>
            type[target[c]] = "log"
        /\ request[c] = "getFilterLogs" /\ stage[c] = "search" =>
            asked[target[c]] = <<from[c], to[c]>>

\* Unless polls of it overlapped, a block filter has answered exactly the
\* heights up to lastBlockNumber, and the one poll of it has read that.
Exact ==
    \A f \in Ids : type[f] = "block" /\ f \notin overlapped /\ last[f] # Unset
        => reported[f] = 0..last[f]
ReadsLast ==
    \A f \in Ids, c \in Clients :
        type[f] = "block" /\ f \notin overlapped /\ Polls(c, f) => from[c] = last[f]
OnePoll ==
    \A f \in Ids, c, d \in Clients :
        f \notin overlapped /\ Polls(c, f) /\ Polls(d, f) => c = d

\* A step of the call of a client.
Step(c, f, o) ==
    \/ NewBlockFilter(c) \/ NewFilter(c) \/ ResolveFromBlock(c) \/ ResolveToBlock(c) \/ New(c)
    \/ StoreFilter(c) \/ SetLast(c) \/ Generates(c) \/ SetTo(c) \/ Topics(c)
    \/ /\ f \in Ids
       /\ GetFilterChanges(c, f) \/ GetFilterLogs(c, f) \/ Uninstall(c, f) \/ Refused(c, o, f)
    \/ BlockCount(c) \/ Differ(c) \/ NextBlockHash(c) \/ AnswerBlocks(c)
    \/ LogChanges(c) \/ SearchFilterLogs(c) \/ NodeFails(c)

\* What a step can be.
LEMMA Steps ==
  ASSUME [FiltersNext]_filterVars
  PROVE  \/ \E c \in Clients, f \in Ids \cup {0}, o \in FilterOps : Step(c, f, o)
         \/ NewBlock \/ Reorg \/ UNCHANGED filterVars
<1>1. {"none", "getFilterChanges", "getFilterLogs"} \subseteq FilterOps BY DEF FilterOps
<1>2. 0 \in Ids \cup {0} /\ Ids \subseteq Ids \cup {0} OBVIOUS
<1>3. CASE NewBlock \/ Reorg \/ UNCHANGED filterVars BY <1>3
<1>4. ASSUME NEW c \in Clients, MakeStep(c) PROVE Step(c, 0, "none")
  BY <1>4 DEF MakeStep, Step
<1>5. ASSUME NEW c \in Clients, PollStep(c)
      PROVE  \E f \in Ids \cup {0}, o \in FilterOps : Step(c, f, o)
  <2>1. ASSUME NEW f \in Ids, GetFilterChanges(c, f) \/ GetFilterLogs(c, f) \/ Uninstall(c, f)
        PROVE  \E g \in Ids \cup {0}, o \in FilterOps : Step(c, g, o)
    <3>1. Step(c, f, "none") BY <2>1 DEF Step
    <3> QED BY <3>1, <1>1, <1>2
  <2>2. ASSUME NEW f \in Ids, NEW o \in FilterOps, Refused(c, o, f)
        PROVE  \E g \in Ids \cup {0}, p \in FilterOps : Step(c, g, p)
    <3>1. Step(c, f, o) BY <2>2 DEF Step
    <3> QED BY <3>1, <1>2
  <2>3. CASE \/ BlockCount(c) \/ Differ(c) \/ NextBlockHash(c) \/ AnswerBlocks(c)
             \/ LogChanges(c) \/ SearchFilterLogs(c) \/ NodeFails(c)
    <3>1. Step(c, 0, "none") BY <2>3 DEF Step
    <3> QED BY <3>1, <1>1, <1>2
  <2> QED BY <1>5, <1>1, <2>1, <2>2, <2>3 DEF PollStep
<1> QED BY <1>1, <1>2, <1>3, <1>4, <1>5 DEF FiltersNext

-----------------------------------------------------------------------------
(* Types and control                                                         *)

\* The parts of the type invariant.
ChainType == blockCount \in Heights /\ reorgs \in 0..MaxReorgs
StoreType ==
    /\ maxFilterID \in 0..MaxFilters /\ filters \subseteq Ids
    /\ type \in [Ids -> {"none", "block", "log"}]
    /\ last \in [Ids -> Heights \cup {Unset}]
    /\ toBlock \in [Ids -> Heights \cup {Unset}]
    /\ asked \in [Ids -> Heights \X Heights]
CallType ==
    /\ stage \in [Clients -> PC]
    /\ request \in [Clients -> FilterOps] /\ target \in [Clients -> Ids \cup {0}]
LocalType ==
    /\ from \in [Clients -> LatestBlock..(MaxHeight + 1)]
    /\ to \in [Clients -> Heights \cup {LatestBlock}] /\ next \in [Clients -> 0..(MaxHeight + 1)]
AnswerType == status \in [Clients -> Status] /\ blocks \in [Clients -> SUBSET Heights]
HistoryType == reported \in [Ids -> SUBSET Heights] /\ overlapped \subseteq Ids

\* The control points, calls and outcomes the actions name.
LEMMA Names ==
    /\ "idle" \in PC /\ "fromBlock" \in PC /\ "toBlock" \in PC /\ "count" \in PC
    /\ "counted" \in PC /\ "new" \in PC /\ "store" \in PC /\ "setLast" \in PC /\ "setTo" \in PC
    /\ "topics" \in PC /\ "generate" \in PC /\ "hashes" \in PC /\ "search" \in PC
    /\ "newBlockFilter" \in FilterOps /\ "newFilter" \in FilterOps /\ "getFilterChanges" \in FilterOps
    /\ "getFilterLogs" \in FilterOps /\ "uninstall" \in FilterOps /\ "none" \in FilterOps
    /\ "none" \in Status /\ "ok" \in Status /\ "failed" \in Status /\ "panicked" \in Status
BY DEF PC, FilterOps, Status

\* The heights and the other ranges of the locals.
LEMMA Ranges ==
    /\ 0 \in Heights /\ Heights \subseteq LatestBlock..(MaxHeight + 1)
    /\ Heights \subseteq 0..(MaxHeight + 1) /\ 0 \in 0..(MaxHeight + 1)
    /\ \A h \in Heights : h + 1 \in 0..(MaxHeight + 1) /\ h \in Int /\ h >= 0
    /\ \A h \in Heights, n \in Int : n >= 0 => n..h \subseteq Heights
    /\ LatestBlock \in LatestBlock..(MaxHeight + 1) /\ 0..(MaxHeight + 1) \subseteq LatestBlock..(MaxHeight + 1)
    /\ Unset = LatestBlock /\ LatestBlock \notin Heights /\ LatestBlock \in Int
BY FiltersAssumption DEF Heights, LatestBlock, Unset

\* A step keeps the types.
LEMMA TypeStep ==
  ASSUME ChainType, StoreType, CallType, LocalType, AnswerType, HistoryType, Control,
         [FiltersNext]_filterVars
  PROVE  ChainType' /\ StoreType' /\ CallType' /\ LocalType' /\ AnswerType' /\ HistoryType'
<1> DEFINE Typed == ChainType /\ StoreType /\ CallType /\ LocalType /\ AnswerType /\ HistoryType
<1> USE Names, Ranges
<1>1. CASE NewBlock
  <2>1. StoreType' /\ CallType' /\ LocalType' /\ AnswerType' /\ HistoryType'
    BY <1>1, FiltersAssumption, SMTT(30)
       DEF NewBlock, StoreType, CallType, LocalType, AnswerType, HistoryType, chainVars,
           storeVars, callVars, locals, answer, history
  <2>2. ChainType'
    BY <1>1, FiltersAssumption, SMTT(30)
       DEF NewBlock, ChainType, Control, LocalType, StoreType, CallType, Ids, LatestBlock,
           Heights, chainVars, storeVars, callVars, locals, answer, history
  <2> QED BY <2>1, <2>2
<1>2. CASE Reorg
  <2>1. StoreType' /\ CallType' /\ LocalType' /\ AnswerType' /\ HistoryType'
    BY <1>2, FiltersAssumption, SMTT(30)
       DEF Reorg, StoreType, CallType, LocalType, AnswerType, HistoryType, chainVars,
           storeVars, callVars, locals, answer, history
  <2>2. ChainType'
    BY <1>2, FiltersAssumption, SMTT(30)
       DEF Reorg, ChainType, chainVars, storeVars, callVars, locals, answer, history
  <2> QED BY <2>1, <2>2
<1>3. ASSUME NEW c \in Clients, NewBlockFilter(c) PROVE Typed'
  BY <1>3, FiltersAssumption, SMTT(30)
     DEF NewBlockFilter, Start, MovesTo, ChainType, StoreType, CallType, LocalType,
         AnswerType, HistoryType, chainVars, storeVars, callVars, locals, answer, history
<1>4. ASSUME NEW c \in Clients, NewFilter(c) PROVE Typed'
  BY <1>4, FiltersAssumption, SMTT(30)
     DEF NewFilter, Start, MovesTo, ChainType, StoreType, CallType, LocalType, AnswerType,
         HistoryType, chainVars, storeVars, callVars, locals, answer, history
<1>5. ASSUME NEW c \in Clients, ResolveFromBlock(c) PROVE Typed'
  <2>1. ChainType' /\ StoreType' /\ CallType' /\ AnswerType' /\ HistoryType'
    BY <1>5, FiltersAssumption, SMTT(30)
       DEF ResolveFromBlock, MovesTo, ChainType, StoreType, CallType, AnswerType, HistoryType,
           chainVars, storeVars, callVars, locals, answer, history
  <2>2. LocalType'
    BY <1>5, FiltersAssumption, SMTT(30)
       DEF ResolveFromBlock, MovesTo, LocalType, ChainType, chainVars, storeVars, callVars,
           locals, answer, history
  <2> QED BY <2>1, <2>2
<1>6. ASSUME NEW c \in Clients, ResolveToBlock(c) PROVE Typed'
  <2>1. ChainType' /\ StoreType' /\ CallType' /\ AnswerType' /\ HistoryType'
    BY <1>6, FiltersAssumption, SMTT(30)
       DEF ResolveToBlock, MovesTo, ChainType, StoreType, CallType, AnswerType, HistoryType,
           chainVars, storeVars, callVars, locals, answer, history
  <2>2. LocalType'
    BY <1>6, FiltersAssumption, SMTT(30)
       DEF ResolveToBlock, MovesTo, LocalType, ChainType, chainVars, storeVars, callVars,
           locals, answer, history
  <2> QED BY <2>1, <2>2
<1>7. ASSUME NEW c \in Clients, New(c) PROVE Typed'
  <2>1. ChainType' /\ CallType' /\ LocalType' /\ AnswerType' /\ HistoryType'
    BY <1>7, FiltersAssumption, SMTT(30)
       DEF New, MovesTo, NewId, ChainType, CallType, LocalType, AnswerType, HistoryType,
           chainVars, storeVars, callVars, locals, answer, history
  <2>2. StoreType'
    BY <1>7, FiltersAssumption, SMTT(30)
       DEF New, MovesTo, NewId, StoreType, Control, LocalType, ChainType, CallType, Ids,
           LatestBlock, Heights, chainVars, storeVars, callVars, locals, answer, history
  <2> QED BY <2>1, <2>2
<1>8. ASSUME NEW c \in Clients, StoreFilter(c) PROVE Typed'
  <2>1. ChainType' /\ CallType' /\ LocalType' /\ AnswerType' /\ HistoryType'
    BY <1>8, FiltersAssumption, SMTT(30)
       DEF StoreFilter, MovesTo, ChainType, CallType, LocalType, AnswerType, HistoryType,
           chainVars, storeVars, callVars, locals, answer, history
  <2>2. StoreType'
    BY <1>8, FiltersAssumption, SMTT(30)
       DEF StoreFilter, MovesTo, StoreType, Control, LocalType, ChainType, chainVars,
           storeVars, callVars, locals, answer, history
  <2> QED BY <2>1, <2>2
<1>9. ASSUME NEW c \in Clients, SetLast(c) PROVE Typed'
  <2>1. ChainType' /\ CallType' /\ LocalType' /\ AnswerType'
    BY <1>9, FiltersAssumption, SMTT(30)
       DEF SetLast, MovesTo, ChainType, CallType, LocalType, AnswerType, chainVars,
           storeVars, callVars, locals, answer, history
  <2>2. StoreType'
    BY <1>9, FiltersAssumption, SMTT(30)
       DEF SetLast, MovesTo, StoreType, Control, LocalType, ChainType, chainVars,
           storeVars, callVars, locals, answer, history
  <2>3. HistoryType'
    <3>1. 0..to[c] \in SUBSET Heights
      BY <1>9, FiltersAssumption, SMTT(30) DEF SetLast, Control, Heights
    <3>2. CASE request[c] = "newBlockFilter"
      <4>1. reported' = [reported EXCEPT ![target[c]] = 0..to[c]] /\ UNCHANGED overlapped
        BY <1>9, <3>2 DEF SetLast
      <4> QED BY <3>1, <4>1 DEF HistoryType
    <3>3. CASE request[c] # "newBlockFilter"
      BY <1>9, <3>3 DEF SetLast, HistoryType
    <3> QED BY <3>2, <3>3
  <2> QED BY <2>1, <2>2, <2>3
<1>10. ASSUME NEW c \in Clients, Generates(c) PROVE Typed'
  BY <1>10, FiltersAssumption, SMTT(30)
     DEF Generates, Return, FilterAnswer, MovesTo, ChainType, StoreType, CallType, LocalType,
         AnswerType, HistoryType, chainVars, storeVars, callVars, locals, answer, history
<1>11. ASSUME NEW c \in Clients, SetTo(c) PROVE Typed'
  <2>1. ChainType' /\ CallType' /\ LocalType' /\ AnswerType' /\ HistoryType'
    BY <1>11, FiltersAssumption, SMTT(30)
       DEF SetTo, MovesTo, ChainType, CallType, LocalType, AnswerType, HistoryType,
           chainVars, storeVars, callVars, locals, answer, history
  <2>2. StoreType'
    BY <1>11, FiltersAssumption, SMTT(30)
       DEF SetTo, MovesTo, StoreType, Control, LocalType, ChainType, chainVars, storeVars,
           callVars, locals, answer, history
  <2> QED BY <2>1, <2>2
<1>12. ASSUME NEW c \in Clients, Topics(c) PROVE Typed'
  BY <1>12, FiltersAssumption, SMTT(30)
     DEF Topics, Return, FilterAnswer, MovesTo, ChainType, StoreType, CallType, LocalType,
         AnswerType, HistoryType, chainVars, storeVars, callVars, locals, answer, history
<1>13. ASSUME NEW c \in Clients, BlockCount(c) PROVE Typed'
  <2>1. ChainType' /\ StoreType' /\ CallType' /\ AnswerType' /\ HistoryType'
    BY <1>13, FiltersAssumption, SMTT(30)
       DEF BlockCount, MovesTo, ChainType, StoreType, CallType, AnswerType, HistoryType,
           chainVars, storeVars, callVars, locals, answer, history
  <2>2. LocalType'
    BY <1>13, FiltersAssumption, SMTT(30)
       DEF BlockCount, MovesTo, LocalType, ChainType, chainVars, storeVars, callVars,
           locals, answer, history
  <2> QED BY <2>1, <2>2
<1>14. ASSUME NEW c \in Clients, Differ(c) PROVE Typed'
  <2>1. ChainType' /\ StoreType' /\ HistoryType'
    BY <1>14 DEF Differ, ChainType, StoreType, HistoryType, chainVars, storeVars, history
  <2>2. CallType' /\ AnswerType'
    BY <1>14, SMTT(30) DEF Differ, Return, FilterAnswer, MovesTo, CallType, AnswerType, answer
  <2>3. LocalType'
    BY <1>14, FiltersAssumption, SMTT(30)
       DEF Differ, ReadsBlocks, Return, FilterAnswer, MovesTo, LocalType, Control, ChainType,
           chainVars, storeVars, callVars, locals, answer, history
  <2> QED BY <2>1, <2>2, <2>3
<1>15. ASSUME NEW c \in Clients, NextBlockHash(c) PROVE Typed'
  <2>1. ChainType' /\ StoreType' /\ CallType' /\ AnswerType' /\ HistoryType'
    BY <1>15, FiltersAssumption, SMTT(30)
       DEF NextBlockHash, Return, FilterAnswer, MovesTo, ChainType, StoreType, CallType,
           AnswerType, HistoryType, chainVars, storeVars, callVars, locals, answer,
           history
  <2>2. LocalType'
    BY <1>15, FiltersAssumption, SMTT(30)
       DEF NextBlockHash, Return, FilterAnswer, MovesTo, LocalType, ChainType, chainVars,
           storeVars, callVars, locals, answer, history
  <2> QED BY <2>1, <2>2
<1>16. ASSUME NEW c \in Clients, AnswerBlocks(c) PROVE Typed'
  <2>1. ChainType' /\ CallType' /\ LocalType'
    BY <1>16, FiltersAssumption, SMTT(30)
       DEF AnswerBlocks, Return, FilterAnswer, MovesTo, Answered, ChainType, CallType, LocalType,
           chainVars, storeVars, callVars, locals, answer, history
  <2>2. StoreType'
    BY <1>16, FiltersAssumption, SMTT(30)
       DEF AnswerBlocks, Return, FilterAnswer, MovesTo, Answered, StoreType, Control, LocalType,
           ChainType, chainVars, storeVars, callVars, locals, answer, history
  <2>3. AnswerType'
    BY <1>16, FiltersAssumption, SMTT(30)
       DEF AnswerBlocks, Return, FilterAnswer, MovesTo, Answered, AnswerType, Control, LocalType,
           ChainType, StoreType, CallType, Ids, LatestBlock, Heights, chainVars, storeVars,
           callVars, locals, answer, history
  <2>4. HistoryType'
    BY <1>16, FiltersAssumption, SMTT(30)
       DEF AnswerBlocks, Return, FilterAnswer, MovesTo, Answered, HistoryType, Control,
           LocalType, ChainType, StoreType, CallType, Ids, LatestBlock, Heights, chainVars,
           storeVars, callVars, locals, answer, history
  <2> QED BY <2>1, <2>2, <2>3, <2>4
<1>17. ASSUME NEW c \in Clients, LogChanges(c) PROVE Typed'
  <2>1. ChainType' /\ StoreType' /\ CallType' /\ AnswerType' /\ HistoryType'
    BY <1>17, FiltersAssumption, SMTT(30)
       DEF LogChanges, Return, FilterAnswer, MovesTo, ChainType, StoreType, CallType, AnswerType,
           HistoryType, chainVars, storeVars, callVars, locals, answer, history
  <2>2. LocalType'
    BY <1>17, FiltersAssumption, SMTT(30)
       DEF LogChanges, Return, FilterAnswer, MovesTo, LocalType, Control, ChainType, chainVars,
           storeVars, callVars, locals, answer, history
  <2> QED BY <2>1, <2>2
<1>18. ASSUME NEW c \in Clients, SearchFilterLogs(c) PROVE Typed'
  <2>1. ChainType' /\ StoreType' /\ CallType' /\ LocalType' /\ HistoryType'
    BY <1>18, FiltersAssumption, SMTT(30)
       DEF SearchFilterLogs, Return, FilterAnswer, MovesTo, ChainType, StoreType, CallType, LocalType,
           HistoryType, chainVars, storeVars, callVars, locals, answer, history
  <2>2. from[c]..to[c] \subseteq Heights
    BY <1>18, SMTT(20) DEF SearchFilterLogs, Control, Heights
  <2>3. AnswerType'
    BY <1>18, <2>2, SMTT(30) DEF SearchFilterLogs, Return, FilterAnswer, AnswerType
  <2> QED BY <2>1, <2>2, <2>3
<1>19. ASSUME NEW c \in Clients, NodeFails(c) PROVE Typed'
  BY <1>19, FiltersAssumption, SMTT(30)
     DEF NodeFails, Return, FilterAnswer, MovesTo, ChainType, StoreType, CallType, LocalType,
         AnswerType, HistoryType, chainVars, storeVars, callVars, locals, answer, history
<1>20. ASSUME NEW c \in Clients, NEW f \in Ids, GetFilterChanges(c, f) PROVE Typed'
  <2>1. ChainType' /\ StoreType' /\ CallType' /\ AnswerType' /\ HistoryType'
    BY <1>20, FiltersAssumption, SMTT(30)
       DEF GetFilterChanges, Start, MovesTo, ChainType, StoreType, CallType, AnswerType,
           HistoryType, chainVars, storeVars, callVars, locals, answer, history
  <2>2. LocalType'
    BY <1>20, FiltersAssumption, SMTT(30)
       DEF GetFilterChanges, Start, MovesTo, LocalType, Control, ChainType, StoreType,
           CallType, Ids, LatestBlock, Heights, chainVars, storeVars, callVars, locals,
           answer, history
  <2> QED BY <2>1, <2>2
<1>21. ASSUME NEW c \in Clients, NEW f \in Ids, GetFilterLogs(c, f) PROVE Typed'
  <2>1. ChainType' /\ StoreType' /\ CallType' /\ AnswerType' /\ HistoryType'
    BY <1>21, FiltersAssumption, SMTT(30)
       DEF GetFilterLogs, Start, MovesTo, ChainType, StoreType, CallType, AnswerType,
           HistoryType, chainVars, storeVars, callVars, locals, answer, history
  <2>2. LocalType'
    BY <1>21, FiltersAssumption, SMTT(30)
       DEF GetFilterLogs, Start, MovesTo, LocalType, Control, ChainType, StoreType,
           CallType, Ids, LatestBlock, Heights, chainVars, storeVars, callVars, locals,
           answer, history
  <2> QED BY <2>1, <2>2
<1>22. ASSUME NEW c \in Clients, NEW f \in Ids, Uninstall(c, f) PROVE Typed'
  BY <1>22, FiltersAssumption, SMTT(30)
     DEF Uninstall, AtOnce, FilterAnswer, ChainType, StoreType, CallType, LocalType, AnswerType,
         HistoryType, chainVars, storeVars, callVars, locals, answer, history
<1>23. ASSUME NEW c \in Clients, NEW f \in Ids, NEW o \in FilterOps, Refused(c, o, f) PROVE Typed'
  BY <1>23, FiltersAssumption, SMTT(30)
     DEF Refused, AtOnce, FilterAnswer, ChainType, StoreType, CallType, LocalType, AnswerType,
         HistoryType, chainVars, storeVars, callVars, locals, answer, history
<1>24. CASE UNCHANGED filterVars
  BY <1>24 DEF filterVars, chainVars, storeVars, callVars, locals, answer, history, ChainType, StoreType, CallType, LocalType, AnswerType, HistoryType
<1> QED BY <1>1, <1>2, <1>3, <1>4, <1>5, <1>6, <1>7, <1>8, <1>9, <1>10, <1>11, <1>12, <1>13,
          <1>14, <1>15, <1>16, <1>17, <1>18, <1>19, <1>20, <1>21, <1>22, <1>23, <1>24 DEF
          FiltersNext, MakeStep, PollStep, FilterOps

\* A step keeps the control invariant.
LEMMA ControlStep ==
  ASSUME ChainType, StoreType, CallType, LocalType, Control, [FiltersNext]_filterVars
  PROVE  Control'
<1> USE Names, Ranges
<1>1. CASE NewBlock
  BY <1>1, SMTT(15)
     DEF NewBlock, Control, CallType, LocalType, chainVars, storeVars, callVars, locals,
         answer, history
<1>2. CASE Reorg
  BY <1>2, SMTT(15)
     DEF Reorg, Control, CallType, LocalType, chainVars, storeVars, callVars, locals,
         answer, history
<1>3. ASSUME NEW c \in Clients, NewBlockFilter(c) PROVE Control'
  BY <1>3, SMTT(15)
     DEF NewBlockFilter, Start, MovesTo, Control, CallType, LocalType, chainVars, storeVars,
         callVars, locals, answer, history
<1>4. ASSUME NEW c \in Clients, NewFilter(c) PROVE Control'
  BY <1>4, SMTT(15)
     DEF NewFilter, Start, MovesTo, Control, CallType, LocalType, chainVars, storeVars,
         callVars, locals, answer, history
<1>5. ASSUME NEW c \in Clients, ResolveFromBlock(c) PROVE Control'
  <2>1. from'[c] \in Heights /\ \A d \in Clients \ {c} : stage'[d] = stage[d] /\ from'[d] = from[d]
    BY <1>5, FiltersAssumption, SMTT(30)
       DEF ResolveFromBlock, MovesTo, Control, CallType, LocalType, ChainType, LatestBlock
  <2> QED BY <1>5, <2>1, SMTT(30) DEF ResolveFromBlock, MovesTo, Control, CallType, locals, answer
<1>6. ASSUME NEW c \in Clients, ResolveToBlock(c) PROVE Control'
  BY <1>6, FiltersAssumption, SMTT(15)
     DEF ResolveToBlock, MovesTo, Control, CallType, LocalType, StoreType, ChainType, chainVars,
         storeVars, callVars, locals, answer, history
<1>7. ASSUME NEW c \in Clients, New(c) PROVE Control'
  BY <1>7, SMTT(15)
     DEF New, MovesTo, NewId, Control, CallType, LocalType, chainVars, storeVars, callVars,
         locals, answer, history
<1>8. ASSUME NEW c \in Clients, StoreFilter(c) PROVE Control'
  BY <1>8, SMTT(15)
     DEF StoreFilter, MovesTo, Control, CallType, LocalType, chainVars, storeVars, callVars,
         locals, answer, history
<1>9. ASSUME NEW c \in Clients, SetLast(c) PROVE Control'
  BY <1>9, SMTT(15)
     DEF SetLast, MovesTo, Control, CallType, LocalType, chainVars, storeVars, callVars,
         locals, answer, history
<1>10. ASSUME NEW c \in Clients, Generates(c) PROVE Control'
  BY <1>10, SMTT(15)
     DEF Generates, Return, FilterAnswer, MovesTo, Control, CallType, LocalType, chainVars,
         storeVars, callVars, locals, answer, history
<1>11. ASSUME NEW c \in Clients, SetTo(c) PROVE Control'
  BY <1>11, SMTT(15)
     DEF SetTo, MovesTo, Control, CallType, LocalType, chainVars, storeVars, callVars,
         locals, answer, history
<1>12. ASSUME NEW c \in Clients, Topics(c) PROVE Control'
  BY <1>12, SMTT(15)
     DEF Topics, Return, FilterAnswer, MovesTo, Control, CallType, LocalType, chainVars, storeVars,
         callVars, locals, answer, history
<1>13. ASSUME NEW c \in Clients, BlockCount(c) PROVE Control'
  BY <1>13, FiltersAssumption, SMTT(15)
     DEF BlockCount, MovesTo, Control, CallType, LocalType, StoreType, ChainType, chainVars,
         storeVars, callVars, locals, answer, history
<1>14. ASSUME NEW c \in Clients, Differ(c) PROVE Control'
  BY <1>14, FiltersAssumption, SMTT(40)
     DEF Differ, ReadsBlocks, Return, FilterAnswer, MovesTo, Control, CallType, LocalType,
         chainVars, storeVars, Heights
<1>15. ASSUME NEW c \in Clients, NextBlockHash(c) PROVE Control'
  BY <1>15, SMTT(15)
     DEF NextBlockHash, Return, FilterAnswer, MovesTo, Control, CallType, LocalType, chainVars,
         storeVars, callVars, locals, answer, history
<1>16. ASSUME NEW c \in Clients, AnswerBlocks(c) PROVE Control'
  BY <1>16, SMTT(15)
     DEF AnswerBlocks, Return, FilterAnswer, MovesTo, Answered, Control, CallType, LocalType,
         chainVars, storeVars, callVars, locals, answer, history
<1>17. ASSUME NEW c \in Clients, LogChanges(c) PROVE Control'
  BY <1>17, SMTT(15)
     DEF LogChanges, Return, FilterAnswer, MovesTo, Control, CallType, LocalType, chainVars,
         storeVars, callVars, locals, answer, history
<1>18. ASSUME NEW c \in Clients, SearchFilterLogs(c) PROVE Control'
  BY <1>18, SMTT(15)
     DEF SearchFilterLogs, Return, FilterAnswer, MovesTo, Control, CallType, LocalType, chainVars,
         storeVars, callVars, locals, answer, history
<1>19. ASSUME NEW c \in Clients, NodeFails(c) PROVE Control'
  BY <1>19, SMTT(15)
     DEF NodeFails, Return, FilterAnswer, MovesTo, Control, CallType, LocalType, chainVars,
         storeVars, callVars, locals, answer, history
<1>20. ASSUME NEW c \in Clients, NEW f \in Ids, GetFilterChanges(c, f) PROVE Control'
  BY <1>20, FiltersAssumption, SMTT(15)
     DEF GetFilterChanges, Start, MovesTo, Control, CallType, LocalType, StoreType,
         ChainType, chainVars, storeVars, callVars, locals, answer, history
<1>21. ASSUME NEW c \in Clients, NEW f \in Ids, GetFilterLogs(c, f) PROVE Control'
  BY <1>21, FiltersAssumption, SMTT(15)
     DEF GetFilterLogs, Start, MovesTo, Control, CallType, LocalType, StoreType, ChainType,
         Ids, Heights, Unset, LatestBlock, chainVars, storeVars, callVars, locals, answer,
         history
<1>22. ASSUME NEW c \in Clients, NEW f \in Ids, Uninstall(c, f) PROVE Control'
  BY <1>22, SMTT(15)
     DEF Uninstall, AtOnce, FilterAnswer, Control, CallType, LocalType, chainVars, storeVars,
         callVars, locals, answer, history
<1>23. ASSUME NEW c \in Clients, NEW f \in Ids, NEW o \in FilterOps, Refused(c, o, f) PROVE Control'
  BY <1>23, SMTT(15)
     DEF Refused, AtOnce, FilterAnswer, Control, CallType, LocalType, chainVars, storeVars,
         callVars, locals, answer, history
<1>24. CASE UNCHANGED filterVars
  BY <1>24 DEF filterVars, chainVars, storeVars, callVars, locals, answer, history, Control
<1> QED BY <1>1, <1>2, <1>3, <1>4, <1>5, <1>6, <1>7, <1>8, <1>9, <1>10, <1>11, <1>12, <1>13,
          <1>14, <1>15, <1>16, <1>17, <1>18, <1>19, <1>20, <1>21, <1>22, <1>23, <1>24 DEF
          FiltersNext, MakeStep, PollStep, FilterOps

-----------------------------------------------------------------------------
(* Filters and the calls that make them                                      *)

\* A step stores a filter for an id given out, and data for a stored filter.
LEMMA StoredFiltersStep ==
  ASSUME ChainType, StoreType, CallType, LocalType, AnswerType, HistoryType, Control,
         StoredFilters, MakersOwn, MakersDiffer, PolledIsSet, [FiltersNext]_filterVars
  PROVE  StoredFilters'
<1>1. ASSUME NEW c \in Clients, NEW f \in Ids \cup {0}, NEW o \in FilterOps, Step(c, f, o),
             ~New(c), ~StoreFilter(c), ~SetLast(c), ~SetTo(c), ~AnswerBlocks(c)
      PROVE  StoredFilters'
  BY <1>1, SMTT(40)
     DEF Step, NewBlockFilter, Start, MovesTo, NewFilter, ResolveFromBlock, ResolveToBlock, Generates,
         Return, FilterAnswer, Topics, BlockCount, Differ, ReadsBlocks, NextBlockHash,
         LogChanges, SearchFilterLogs, NodeFails, GetFilterChanges, GetFilterLogs, Uninstall,
         AtOnce, Refused, StoredFilters, Making, CallType, chainVars, storeVars, callVars,
         locals, answer, history
<1>2. ASSUME NEW c \in Clients, New(c) PROVE StoredFilters'
  BY <1>2, FiltersAssumption, SMTT(30)
     DEF New, MovesTo, NewId, StoredFilters, MakersOwn, Making, CallType, StoreType, Ids,
         chainVars, storeVars, callVars, locals, answer, history
<1>3. ASSUME NEW c \in Clients, StoreFilter(c) PROVE StoredFilters'
  BY <1>3, SMTT(30)
     DEF StoreFilter, MovesTo, StoredFilters, MakersOwn, Making, CallType, StoreType,
         Control, chainVars, storeVars, callVars, locals, answer, history
<1>4. ASSUME NEW c \in Clients, SetLast(c) PROVE StoredFilters'
  BY <1>4, SMTT(30)
     DEF SetLast, MovesTo, StoredFilters, MakersOwn, Making, CallType, StoreType, Control,
         chainVars, storeVars, callVars, locals, answer, history
<1>5. ASSUME NEW c \in Clients, SetTo(c) PROVE StoredFilters'
  BY <1>5, SMTT(30)
     DEF SetTo, MovesTo, StoredFilters, MakersOwn, Making, CallType, StoreType, Control,
         chainVars, storeVars, callVars, locals, answer, history
<1>6. ASSUME NEW c \in Clients, AnswerBlocks(c) PROVE StoredFilters'
  BY <1>6, SMTT(30)
     DEF AnswerBlocks, Return, FilterAnswer, MovesTo, Answered, StoredFilters, MakersOwn,
         PolledIsSet, Polls, Making, CallType, StoreType, Control, chainVars, storeVars,
         callVars, locals, answer, history
<1>7. CASE NewBlock
  BY <1>7, SMTT(30)
     DEF NewBlock, StoredFilters, Making, CallType, chainVars, storeVars, callVars,
         locals, answer, history
<1>8. CASE Reorg
  BY <1>8, SMTT(30)
     DEF Reorg, StoredFilters, Making, CallType, chainVars, storeVars, callVars, locals,
         answer, history
<1>9. CASE UNCHANGED filterVars
  BY <1>9
     DEF filterVars, StoredFilters, Making, chainVars, storeVars, callVars, locals, answer,
         history
<1>10. ASSUME NEW c \in Clients, NEW f \in Ids \cup {0}, NEW o \in FilterOps, Step(c, f, o)
      PROVE  StoredFilters'
  BY <1>1, <1>2, <1>3, <1>4, <1>5, <1>6, <1>10 DEF Step
<1> QED BY <1>7, <1>8, <1>9, <1>10, Steps

\* A step leaves the filters that others make alone.
LEMMA MakersOwnStep ==
  ASSUME ChainType, StoreType, CallType, LocalType, AnswerType, HistoryType, Control,
         StoredFilters, MakersOwn, MakersDiffer, PolledIsSet, [FiltersNext]_filterVars
  PROVE  MakersOwn'
<1>1. ASSUME NEW c \in Clients, NEW f \in Ids \cup {0}, NEW o \in FilterOps, Step(c, f, o),
             ~New(c), ~StoreFilter(c), ~SetLast(c), ~AnswerBlocks(c)
      PROVE  MakersOwn'
  BY <1>1, SMTT(40)
     DEF Step, NewBlockFilter, Start, MovesTo, NewFilter, ResolveFromBlock, ResolveToBlock, Generates,
         Return, FilterAnswer, SetTo, Topics, BlockCount, Differ, ReadsBlocks, NextBlockHash,
         LogChanges, SearchFilterLogs, NodeFails, GetFilterChanges, GetFilterLogs, Uninstall,
         AtOnce, Refused, MakersOwn, Making, CallType, chainVars, storeVars, callVars,
         locals, answer, history
<1>2. ASSUME NEW c \in Clients, New(c) PROVE MakersOwn'
  BY <1>2, FiltersAssumption, SMTT(30)
     DEF New, MovesTo, NewId, StoredFilters, MakersOwn, Making, CallType, StoreType, Ids,
         chainVars, storeVars, callVars, locals, answer, history
<1>3. ASSUME NEW c \in Clients, StoreFilter(c) PROVE MakersOwn'
  BY <1>3, SMTT(30)
     DEF StoreFilter, MovesTo, StoredFilters, MakersOwn, MakersDiffer, Making, CallType,
         StoreType, Control, chainVars, storeVars, callVars, locals, answer, history
<1>4. ASSUME NEW c \in Clients, SetLast(c) PROVE MakersOwn'
  BY <1>4, SMTT(30)
     DEF SetLast, MovesTo, StoredFilters, MakersOwn, MakersDiffer, Making, CallType,
         StoreType, Control, chainVars, storeVars, callVars, locals, answer, history
<1>5. ASSUME NEW c \in Clients, AnswerBlocks(c) PROVE MakersOwn'
  BY <1>5, SMTT(30)
     DEF AnswerBlocks, Return, FilterAnswer, MovesTo, Answered, StoredFilters, MakersOwn,
         PolledIsSet, Polls, Making, CallType, StoreType, Control, chainVars, storeVars,
         callVars, locals, answer, history
<1>6. CASE NewBlock
  BY <1>6, SMTT(30)
     DEF NewBlock, MakersOwn, Making, CallType, chainVars, storeVars, callVars, locals,
         answer, history
<1>7. CASE Reorg
  BY <1>7, SMTT(30)
     DEF Reorg, MakersOwn, Making, CallType, chainVars, storeVars, callVars, locals,
         answer, history
<1>8. CASE UNCHANGED filterVars
  BY <1>8 DEF filterVars, MakersOwn, Making, chainVars, storeVars, callVars, locals, answer, history
<1>9. ASSUME NEW c \in Clients, NEW f \in Ids \cup {0}, NEW o \in FilterOps, Step(c, f, o)
      PROVE  MakersOwn'
  BY <1>1, <1>2, <1>3, <1>4, <1>5, <1>9 DEF Step
<1> QED BY <1>6, <1>7, <1>8, <1>9, Steps

\* A step gives out an id no call has.
LEMMA MakersDifferStep ==
  ASSUME ChainType, StoreType, CallType, LocalType, AnswerType, HistoryType, Control,
         StoredFilters, MakersOwn, MakersDiffer, [FiltersNext]_filterVars
  PROVE  MakersDiffer'
<1>1. ASSUME NEW c \in Clients, NEW f \in Ids \cup {0}, NEW o \in FilterOps, Step(c, f, o),
             ~New(c)
      PROVE  MakersDiffer'
  BY <1>1, SMTT(40)
     DEF Step, NewBlockFilter, Start, MovesTo, NewFilter, ResolveFromBlock, ResolveToBlock,
         StoreFilter, SetLast, Generates, Return, FilterAnswer, SetTo, Topics, BlockCount,
         Differ, ReadsBlocks, NextBlockHash, AnswerBlocks, Answered, LogChanges,
         SearchFilterLogs, NodeFails, GetFilterChanges, GetFilterLogs, Uninstall, AtOnce,
         Refused, MakersDiffer, Making, CallType, chainVars, storeVars, callVars, locals,
         answer, history
<1>2. ASSUME NEW c \in Clients, New(c) PROVE MakersDiffer'
  BY <1>2, SMTT(30)
     DEF New, MovesTo, NewId, StoredFilters, MakersOwn, MakersDiffer, Making, CallType,
         StoreType, Control, chainVars, storeVars, callVars, locals, answer, history
<1>3. CASE NewBlock
  BY <1>3, SMTT(30)
     DEF NewBlock, MakersDiffer, Making, CallType, chainVars, storeVars, callVars, locals,
         answer, history
<1>4. CASE Reorg
  BY <1>4, SMTT(30)
     DEF Reorg, MakersDiffer, Making, CallType, chainVars, storeVars, callVars, locals,
         answer, history
<1>5. CASE UNCHANGED filterVars
  BY <1>5
     DEF filterVars, MakersDiffer, Making, chainVars, storeVars, callVars, locals, answer,
         history
<1> QED BY <1>1, <1>2, <1>3, <1>4, <1>5, Steps DEF Step

\* A step keeps the data of the polled filters.
LEMMA PolledIsSetStep ==
  ASSUME ChainType, StoreType, CallType, LocalType, AnswerType, HistoryType, Control,
         StoredFilters, MakersOwn, PolledIsSet, [FiltersNext]_filterVars
  PROVE  PolledIsSet'
<1>1. ASSUME NEW c \in Clients, NEW f \in Ids \cup {0}, NEW o \in FilterOps, Step(c, f, o),
             ~New(c), ~StoreFilter(c), ~SetLast(c), ~AnswerBlocks(c)
      PROVE  PolledIsSet'
  BY <1>1, SMTT(40)
     DEF Step, NewBlockFilter, Start, MovesTo, NewFilter, ResolveFromBlock, ResolveToBlock, Generates,
         Return, FilterAnswer, SetTo, Topics, BlockCount, Differ, ReadsBlocks, NextBlockHash,
         LogChanges, SearchFilterLogs, NodeFails, GetFilterChanges, GetFilterLogs, Uninstall,
         AtOnce, Refused, PolledIsSet, Polls, CallType, chainVars, storeVars, callVars,
         locals, answer, history
<1>2. ASSUME NEW c \in Clients, New(c) PROVE PolledIsSet'
  BY <1>2, SMTT(30)
     DEF New, MovesTo, NewId, StoredFilters, MakersOwn, PolledIsSet, Making, Polls, CallType,
         StoreType, Control, chainVars, storeVars, callVars, locals, answer, history
<1>3. ASSUME NEW c \in Clients, StoreFilter(c) PROVE PolledIsSet'
  BY <1>3, SMTT(30)
     DEF StoreFilter, MovesTo, StoredFilters, MakersOwn, PolledIsSet, Making, Polls,
         CallType, StoreType, Control, chainVars, storeVars, callVars, locals, answer,
         history
<1>4. ASSUME NEW c \in Clients, SetLast(c) PROVE PolledIsSet'
  BY <1>4, SMTT(30)
     DEF SetLast, MovesTo, StoredFilters, MakersOwn, PolledIsSet, Making, Polls, CallType,
         StoreType, Control, chainVars, storeVars, callVars, locals, answer, history
<1>5. ASSUME NEW c \in Clients, AnswerBlocks(c) PROVE PolledIsSet'
  BY <1>5, Ranges, FiltersAssumption, SMTT(30)
     DEF AnswerBlocks, Return, FilterAnswer, MovesTo, Answered, StoredFilters, MakersOwn,
         PolledIsSet, Making, Polls, CallType, StoreType, LocalType, ChainType,
         HistoryType, Control, chainVars, storeVars, callVars, locals, answer, history
<1>6. CASE NewBlock
  BY <1>6, SMTT(30)
     DEF NewBlock, PolledIsSet, Making, Polls, CallType, chainVars, storeVars, callVars,
         locals, answer, history
<1>7. CASE Reorg
  BY <1>7, SMTT(30)
     DEF Reorg, PolledIsSet, Making, Polls, CallType, chainVars, storeVars, callVars,
         locals, answer, history
<1>8. CASE UNCHANGED filterVars
  BY <1>8
     DEF filterVars, PolledIsSet, Making, Polls, chainVars, storeVars, callVars, locals, answer,
         history
<1>9. ASSUME NEW c \in Clients, NEW f \in Ids \cup {0}, NEW o \in FilterOps, Step(c, f, o)
      PROVE  PolledIsSet'
  BY <1>1, <1>2, <1>3, <1>4, <1>5, <1>9 DEF Step
<1> QED BY <1>6, <1>7, <1>8, <1>9, Steps

-----------------------------------------------------------------------------
(* No block is lost                                                          *)

\* A step lets a poll start only where earlier answers end.
LEMMA PollsAreCoveredStep ==
  ASSUME ChainType, StoreType, CallType, LocalType, AnswerType, HistoryType, Control,
         StoredFilters, MakersOwn, PolledIsSet, PollsAreCovered, NoBlockLost, [FiltersNext]_filterVars
  PROVE  PollsAreCovered'
<1>1. ASSUME NEW c \in Clients, NEW f \in Ids \cup {0}, NEW o \in FilterOps, Step(c, f, o),
             ~StoreFilter(c), ~SetLast(c), ~(f \in Ids /\ GetFilterChanges(c, f)),
             ~AnswerBlocks(c), ~LogChanges(c)
      PROVE  PollsAreCovered'
  <2>1. \A d \in Clients, g \in Ids :
          Polls(d, g)' => Polls(d, g) /\ from'[d] = from[d]
    BY <1>1, SMTT(40)
       DEF Step, NewBlockFilter, Start, MovesTo, NewFilter, ResolveFromBlock, ResolveToBlock, New,
           NewId, Generates, Return, FilterAnswer, SetTo, Topics, BlockCount, Differ,
           ReadsBlocks, NextBlockHash, SearchFilterLogs, NodeFails, GetFilterLogs, Uninstall,
           AtOnce, Refused, Polls, CallType, LocalType, Control, chainVars, storeVars,
           callVars, locals, answer, history
  <2>2. UNCHANGED <<type, reported>>
    BY <1>1, SMTT(30)
       DEF Step, NewBlockFilter, Start, MovesTo, NewFilter, ResolveFromBlock, ResolveToBlock, New,
           NewId, Generates, Return, FilterAnswer, SetTo, Topics, BlockCount, Differ,
           ReadsBlocks, NextBlockHash, SearchFilterLogs, NodeFails, GetFilterLogs, Uninstall,
           AtOnce, Refused, chainVars, storeVars, callVars, locals, answer, history
  <2> QED BY <2>1, <2>2, SMTT(30) DEF PollsAreCovered, chainVars
<1>2. ASSUME NEW c \in Clients, StoreFilter(c) PROVE PollsAreCovered'
  BY <1>2, SMTT(30)
     DEF StoreFilter, MovesTo, StoredFilters, MakersOwn, PolledIsSet, PollsAreCovered,
         NoBlockLost, Making, Polls, CallType, StoreType, Control, chainVars, storeVars,
         callVars, locals, answer, history
<1>3. ASSUME NEW c \in Clients, SetLast(c) PROVE PollsAreCovered'
  BY <1>3, SMTT(30)
     DEF SetLast, MovesTo, StoredFilters, MakersOwn, PolledIsSet, PollsAreCovered,
         NoBlockLost, Making, Polls, CallType, StoreType, Control, chainVars, storeVars,
         callVars, locals, answer, history
<1>4. ASSUME NEW c \in Clients, NEW f \in Ids, GetFilterChanges(c, f) PROVE PollsAreCovered'
  BY <1>4, Ranges, FiltersAssumption, SMTT(30)
     DEF GetFilterChanges, Start, MovesTo, StoredFilters, MakersOwn, PolledIsSet,
         PollsAreCovered, NoBlockLost, Making, Polls, CallType, StoreType, LocalType,
         ChainType, HistoryType, Control, chainVars, storeVars, callVars, locals, answer,
         history
<1>5. ASSUME NEW c \in Clients, AnswerBlocks(c) PROVE PollsAreCovered'
  BY <1>5, SMTT(30)
     DEF AnswerBlocks, Return, FilterAnswer, MovesTo, Answered, PollsAreCovered, Making, Polls,
         CallType, chainVars, storeVars, callVars, locals, answer, history
<1>6. ASSUME NEW c \in Clients, LogChanges(c) PROVE PollsAreCovered'
  <2>1. type[target[c]] = "log" /\ UNCHANGED <<request, target, type, reported>>
    BY <1>6 DEF LogChanges, storeVars, history
  <2>2. \A d \in Clients : d # c => stage'[d] = stage[d] /\ from'[d] = from[d]
    BY <1>6 DEF LogChanges, Return, FilterAnswer, MovesTo, CallType, LocalType
  <2> QED BY <2>1, <2>2 DEF PollsAreCovered, Polls
<1>7. CASE NewBlock
  BY <1>7, SMTT(30)
     DEF NewBlock, PollsAreCovered, Making, Polls, CallType, chainVars, storeVars,
         callVars, locals, answer, history
<1>8. CASE Reorg
  BY <1>8, SMTT(30)
     DEF Reorg, PollsAreCovered, Making, Polls, CallType, chainVars, storeVars, callVars,
         locals, answer, history
<1>9. CASE UNCHANGED filterVars
  BY <1>9
     DEF filterVars, PollsAreCovered, Making, Polls, chainVars, storeVars, callVars, locals,
         answer, history
<1>10. ASSUME NEW c \in Clients, NEW f \in Ids \cup {0}, NEW o \in FilterOps, Step(c, f, o)
      PROVE  PollsAreCovered'
  BY <1>1, <1>2, <1>3, <1>4, <1>5, <1>6, <1>10 DEF Step
<1> QED BY <1>7, <1>8, <1>9, <1>10, Steps

\* A step moves lastBlockNumber no further than what was answered.
LEMMA NoBlockLostStep ==
  ASSUME ChainType, StoreType, CallType, LocalType, AnswerType, HistoryType, Control,
         StoredFilters, MakersOwn, PolledIsSet, PollsAreCovered, NoBlockLost, [FiltersNext]_filterVars
  PROVE  NoBlockLost'
<1>1. ASSUME NEW c \in Clients, NEW f \in Ids \cup {0}, NEW o \in FilterOps, Step(c, f, o),
             ~StoreFilter(c), ~SetLast(c), ~AnswerBlocks(c)
      PROVE  NoBlockLost'
  BY <1>1, SMTT(40)
     DEF Step, NewBlockFilter, Start, MovesTo, NewFilter, ResolveFromBlock, ResolveToBlock, New, NewId,
         Generates, Return, FilterAnswer, SetTo, Topics, BlockCount, Differ, ReadsBlocks,
         NextBlockHash, LogChanges, SearchFilterLogs, NodeFails, GetFilterChanges, GetFilterLogs,
         Uninstall, AtOnce, Refused, NoBlockLost, CallType, chainVars, storeVars,
         callVars, locals, answer, history
<1>2. ASSUME NEW c \in Clients, StoreFilter(c) PROVE NoBlockLost'
  BY <1>2, SMTT(30)
     DEF StoreFilter, MovesTo, StoredFilters, MakersOwn, PolledIsSet, PollsAreCovered,
         NoBlockLost, Making, Polls, CallType, StoreType, Control, chainVars, storeVars,
         callVars, locals, answer, history
<1>3. ASSUME NEW c \in Clients, SetLast(c) PROVE NoBlockLost'
  BY <1>3, Ranges, FiltersAssumption, SMTT(30)
     DEF SetLast, MovesTo, StoredFilters, MakersOwn, PolledIsSet, PollsAreCovered,
         NoBlockLost, Making, Polls, CallType, StoreType, LocalType, ChainType,
         HistoryType, Control, chainVars, storeVars, callVars, locals, answer, history
<1>4. ASSUME NEW c \in Clients, AnswerBlocks(c) PROVE NoBlockLost'
  BY <1>4, Ranges, FiltersAssumption, SMTT(30)
     DEF AnswerBlocks, Return, FilterAnswer, MovesTo, Answered, StoredFilters, MakersOwn,
         PolledIsSet, PollsAreCovered, NoBlockLost, Making, Polls, CallType, StoreType,
         LocalType, ChainType, HistoryType, Control, chainVars, storeVars, callVars,
         locals, answer, history
<1>5. CASE NewBlock
  BY <1>5, SMTT(30)
     DEF NewBlock, NoBlockLost, Making, Polls, CallType, chainVars, storeVars, callVars,
         locals, answer, history
<1>6. CASE Reorg
  BY <1>6, SMTT(30)
     DEF Reorg, NoBlockLost, Making, Polls, CallType, chainVars, storeVars, callVars,
         locals, answer, history
<1>7. CASE UNCHANGED filterVars
  BY <1>7
     DEF filterVars, NoBlockLost, Making, Polls, chainVars, storeVars, callVars, locals, answer,
         history
<1>8. ASSUME NEW c \in Clients, NEW f \in Ids \cup {0}, NEW o \in FilterOps, Step(c, f, o)
      PROVE  NoBlockLost'
  BY <1>1, <1>2, <1>3, <1>4, <1>8 DEF Step
<1> QED BY <1>5, <1>6, <1>7, <1>8, Steps

-----------------------------------------------------------------------------
(* Panics                                                                    *)

\* A step of a chain that only grows keeps the filters below it.
LEMMA FiltersBelowStep ==
  ASSUME ChainType, StoreType, CallType, LocalType, AnswerType, HistoryType, Control,
         StoredFilters, MakersOwn, PolledIsSet, FiltersBelow, MakersBelow, PollsBelow,
         [FiltersNext]_filterVars
  PROVE  FiltersBelow'
<1>1. ASSUME NEW c \in Clients, NEW f \in Ids \cup {0}, NEW o \in FilterOps, Step(c, f, o),
             ~StoreFilter(c), ~SetLast(c), ~Generates(c), ~AnswerBlocks(c)
      PROVE  FiltersBelow'
  BY <1>1, SMTT(40)
     DEF Step, NewBlockFilter, Start, MovesTo, NewFilter, ResolveFromBlock, ResolveToBlock, New, NewId,
         SetTo, Topics, Return, FilterAnswer, BlockCount, Differ, ReadsBlocks, NextBlockHash,
         LogChanges, SearchFilterLogs, NodeFails, GetFilterChanges, GetFilterLogs, Uninstall,
         AtOnce, Refused, FiltersBelow, CallType, chainVars, storeVars, callVars, locals,
         answer, history
<1>2. ASSUME NEW c \in Clients, StoreFilter(c) PROVE FiltersBelow'
  BY <1>2, Ranges, FiltersAssumption, SMTT(30)
     DEF StoreFilter, MovesTo, StoredFilters, MakersOwn, PolledIsSet, FiltersBelow,
         MakersBelow, PollsBelow, Making, Polls, CallType, StoreType, LocalType,
         ChainType, HistoryType, Control, chainVars, storeVars, callVars, locals, answer,
         history
<1>3. ASSUME NEW c \in Clients, SetLast(c) PROVE FiltersBelow'
  BY <1>3, SMTT(30)
     DEF SetLast, MovesTo, StoredFilters, MakersOwn, PolledIsSet, FiltersBelow, MakersBelow,
         PollsBelow, Making, Polls, CallType, StoreType, Control, chainVars, storeVars,
         callVars, locals, answer, history
<1>4. ASSUME NEW c \in Clients, Generates(c) PROVE FiltersBelow'
  BY <1>4, Ranges, SMTT(30)
     DEF Generates, Return, FilterAnswer, MovesTo, FiltersBelow, Making, Polls, CallType,
         AnswerType, StoreType, LocalType, ChainType, Heights, Unset, LatestBlock, chainVars,
         storeVars, callVars, locals, answer, history
<1>5. ASSUME NEW c \in Clients, AnswerBlocks(c) PROVE FiltersBelow'
  BY <1>5, SMTT(30)
     DEF AnswerBlocks, Return, FilterAnswer, MovesTo, Answered, StoredFilters, MakersOwn,
         PolledIsSet, FiltersBelow, MakersBelow, PollsBelow, Making, Polls, CallType,
         StoreType, Control, chainVars, storeVars, callVars, locals, answer, history
<1>6. CASE NewBlock
  BY <1>6, Ranges, SMTT(30)
     DEF NewBlock, FiltersBelow, Making, Polls, CallType, AnswerType, StoreType,
         LocalType, ChainType, Heights, Unset, LatestBlock, chainVars, storeVars, callVars,
         locals, answer, history
<1>7. CASE Reorg
  BY <1>7, Ranges, FiltersAssumption, SMTT(30)
     DEF Reorg, StoredFilters, MakersOwn, PolledIsSet, FiltersBelow, MakersBelow,
         PollsBelow, Making, Polls, CallType, StoreType, LocalType, ChainType,
         HistoryType, Control, chainVars, storeVars, callVars, locals, answer, history
<1>8. CASE UNCHANGED filterVars
  BY <1>8
     DEF filterVars, FiltersBelow, Making, Polls, chainVars, storeVars, callVars, locals,
         answer, history
<1>9. ASSUME NEW c \in Clients, NEW f \in Ids \cup {0}, NEW o \in FilterOps, Step(c, f, o)
      PROVE  FiltersBelow'
  BY <1>1, <1>2, <1>3, <1>4, <1>5, <1>9 DEF Step
<1> QED BY <1>6, <1>7, <1>8, <1>9, Steps

\* A step of a chain that only grows keeps the calls that make block filters below
\* it.
LEMMA MakersBelowStep ==
  ASSUME ChainType, StoreType, CallType, LocalType, AnswerType, HistoryType, Control,
         MakersBelow, [FiltersNext]_filterVars
  PROVE  MakersBelow'
<1>1. ASSUME NEW c \in Clients, NEW f \in Ids \cup {0}, NEW o \in FilterOps, Step(c, f, o),
             ~NewBlockFilter(c), ~Generates(c), ~BlockCount(c)
      PROVE  MakersBelow'
  <2>1. \A d \in Clients : request'[d] = "newBlockFilter" /\ stage'[d] # "idle" =>
          request[d] = "newBlockFilter" /\ stage[d] # "idle" /\ to'[d] = to[d]
    BY <1>1, SMTT(40)
       DEF Step, NewFilter, Start, MovesTo, ResolveFromBlock, ResolveToBlock, New, NewId,
           StoreFilter, SetLast, SetTo, Topics, Return, FilterAnswer, Differ, ReadsBlocks,
           NextBlockHash, AnswerBlocks, Answered, LogChanges, SearchFilterLogs, NodeFails,
           GetFilterChanges, GetFilterLogs, Uninstall, AtOnce, Refused, CallType,
           LocalType, AnswerType, Control, chainVars, storeVars, callVars, locals,
           answer, history
  <2>2. UNCHANGED chainVars
    BY <1>1, SMTT(30)
       DEF Step, NewFilter, Start, MovesTo, ResolveFromBlock, ResolveToBlock, New, NewId,
           StoreFilter, SetLast, SetTo, Topics, Return, FilterAnswer, Differ, ReadsBlocks,
           NextBlockHash, AnswerBlocks, Answered, LogChanges, SearchFilterLogs, NodeFails,
           GetFilterChanges, GetFilterLogs, Uninstall, AtOnce, Refused, chainVars,
           storeVars, callVars, locals, answer, history
  <2> QED BY <2>1, <2>2, SMTT(30) DEF MakersBelow, chainVars
<1>2. ASSUME NEW c \in Clients, NewBlockFilter(c) PROVE MakersBelow'
  BY <1>2, Ranges, FiltersAssumption, SMTT(30)
     DEF NewBlockFilter, Start, MovesTo, MakersBelow, CallType, StoreType, LocalType,
         ChainType, HistoryType, Control, chainVars, storeVars, callVars, locals, answer,
         history
<1>3. ASSUME NEW c \in Clients, Generates(c) PROVE MakersBelow'
  BY <1>3, Ranges, SMTT(30)
     DEF Generates, Return, FilterAnswer, MovesTo, MakersBelow, CallType, AnswerType, StoreType,
         LocalType, ChainType, Heights, Unset, LatestBlock, chainVars, storeVars, callVars,
         locals, answer, history
<1>4. ASSUME NEW c \in Clients, BlockCount(c) PROVE MakersBelow'
  BY <1>4, Ranges, FiltersAssumption, SMTT(30)
     DEF BlockCount, MovesTo, MakersBelow, CallType, StoreType, LocalType, ChainType,
         HistoryType, Control, chainVars, storeVars, callVars, locals, answer, history
<1>5. CASE NewBlock
  BY <1>5, Ranges, SMTT(30)
     DEF NewBlock, MakersBelow, CallType, AnswerType, StoreType, LocalType, ChainType,
         Heights, Unset, LatestBlock, chainVars, storeVars, callVars, locals, answer, history
<1>6. CASE Reorg
  BY <1>6, Ranges, FiltersAssumption, SMTT(30)
     DEF Reorg, MakersBelow, CallType, StoreType, LocalType, ChainType, HistoryType,
         Control, chainVars, storeVars, callVars, locals, answer, history
<1>7. CASE UNCHANGED filterVars
  BY <1>7 DEF filterVars, MakersBelow, chainVars, storeVars, callVars, locals, answer, history
<1>8. ASSUME NEW c \in Clients, NEW f \in Ids \cup {0}, NEW o \in FilterOps, Step(c, f, o)
      PROVE  MakersBelow'
  BY <1>1, <1>2, <1>3, <1>4, <1>8 DEF Step
<1> QED BY <1>5, <1>6, <1>7, <1>8, Steps

\* A step of a chain that only grows keeps the polls of block filters below it.
LEMMA PollsBelowStep ==
  ASSUME ChainType, StoreType, CallType, LocalType, AnswerType, HistoryType, Control,
         StoredFilters, MakersOwn, PolledIsSet, FiltersBelow, MakersBelow, PollsBelow,
         [FiltersNext]_filterVars
  PROVE  PollsBelow'
<1>1. ASSUME NEW c \in Clients, NEW f \in Ids \cup {0}, NEW o \in FilterOps, Step(c, f, o),
             ~StoreFilter(c), ~Generates(c), ~(f \in Ids /\ GetFilterChanges(c, f)),
             ~BlockCount(c), ~LogChanges(c)
      PROVE  PollsBelow'
  <2>1. \A d \in Clients, g \in Ids : Polls(d, g)' =>
          /\ Polls(d, g) /\ from'[d] = from[d] /\ to'[d] = to[d]
          /\ stage'[d] \in {"counted", "hashes"} => stage[d] \in {"counted", "hashes"}
    BY <1>1, SMTT(40)
       DEF Step, NewBlockFilter, Start, MovesTo, NewFilter, ResolveFromBlock, ResolveToBlock, New,
           NewId, SetLast, SetTo, Topics, Return, FilterAnswer, Differ, ReadsBlocks,
           NextBlockHash, AnswerBlocks, Answered, SearchFilterLogs, NodeFails, GetFilterLogs,
           Uninstall, AtOnce, Refused, Polls, CallType, LocalType, AnswerType, Control,
           chainVars, storeVars, callVars, locals, answer, history
  <2>2. UNCHANGED <<blockCount, reorgs, type>>
    BY <1>1, SMTT(30)
       DEF Step, NewBlockFilter, Start, MovesTo, NewFilter, ResolveFromBlock, ResolveToBlock, New,
           NewId, SetLast, SetTo, Topics, Return, FilterAnswer, Differ, ReadsBlocks,
           NextBlockHash, AnswerBlocks, Answered, SearchFilterLogs, NodeFails, GetFilterLogs,
           Uninstall, AtOnce, Refused, chainVars, storeVars, callVars, locals, answer,
           history
  <2> QED BY <2>1, <2>2, SMTT(30) DEF PollsBelow, chainVars
<1>2. ASSUME NEW c \in Clients, StoreFilter(c) PROVE PollsBelow'
  BY <1>2, SMTT(30)
     DEF StoreFilter, MovesTo, StoredFilters, MakersOwn, PolledIsSet, FiltersBelow,
         MakersBelow, PollsBelow, Making, Polls, CallType, StoreType, Control, chainVars,
         storeVars, callVars, locals, answer, history
<1>3. ASSUME NEW c \in Clients, Generates(c) PROVE PollsBelow'
  BY <1>3, Ranges, SMTT(30)
     DEF Generates, Return, FilterAnswer, MovesTo, PollsBelow, Making, Polls, CallType, AnswerType,
         StoreType, LocalType, ChainType, Heights, Unset, LatestBlock, chainVars, storeVars,
         callVars, locals, answer, history
<1>4. ASSUME NEW c \in Clients, NEW f \in Ids, GetFilterChanges(c, f) PROVE PollsBelow'
  BY <1>4, Ranges, FiltersAssumption, SMTT(30)
     DEF GetFilterChanges, Start, MovesTo, StoredFilters, MakersOwn, PolledIsSet,
         FiltersBelow, MakersBelow, PollsBelow, Making, Polls, CallType, StoreType,
         LocalType, ChainType, HistoryType, Control, chainVars, storeVars, callVars,
         locals, answer, history
<1>5. ASSUME NEW c \in Clients, BlockCount(c) PROVE PollsBelow'
  BY <1>5, Ranges, FiltersAssumption, SMTT(30)
     DEF BlockCount, MovesTo, StoredFilters, MakersOwn, PolledIsSet, FiltersBelow,
         MakersBelow, PollsBelow, Making, Polls, CallType, StoreType, LocalType,
         ChainType, HistoryType, Control, chainVars, storeVars, callVars, locals, answer,
         history
<1>6. ASSUME NEW c \in Clients, LogChanges(c) PROVE PollsBelow'
  BY <1>6, Ranges, SMTT(30)
     DEF LogChanges, Return, FilterAnswer, MovesTo, PollsBelow, Making, Polls, CallType,
         AnswerType, StoreType, LocalType, ChainType, Heights, Unset, LatestBlock, chainVars,
         storeVars, callVars, locals, answer, history
<1>7. CASE NewBlock
  BY <1>7, Ranges, SMTT(30)
     DEF NewBlock, PollsBelow, Making, Polls, CallType, AnswerType, StoreType, LocalType,
         ChainType, Heights, Unset, LatestBlock, chainVars, storeVars, callVars, locals,
         answer, history
<1>8. CASE Reorg
  BY <1>8, Ranges, FiltersAssumption, SMTT(30)
     DEF Reorg, StoredFilters, MakersOwn, PolledIsSet, FiltersBelow, MakersBelow,
         PollsBelow, Making, Polls, CallType, StoreType, LocalType, ChainType,
         HistoryType, Control, chainVars, storeVars, callVars, locals, answer, history
<1>9. CASE UNCHANGED filterVars
  BY <1>9
     DEF filterVars, PollsBelow, Making, Polls, chainVars, storeVars, callVars, locals, answer,
         history
<1>10. ASSUME NEW c \in Clients, NEW f \in Ids \cup {0}, NEW o \in FilterOps, Step(c, f, o)
      PROVE  PollsBelow'
  BY <1>1, <1>2, <1>3, <1>4, <1>5, <1>6, <1>10 DEF Step
<1> QED BY <1>7, <1>8, <1>9, <1>10, Steps

\* A step panics only after the chain got shorter.
LEMMA PanicNeedsReorgStep ==
  ASSUME ChainType, StoreType, CallType, LocalType, AnswerType, HistoryType, Control,
         PanicNeedsReorg, PollsBelow, PolledIsSet, [FiltersNext]_filterVars
  PROVE  PanicNeedsReorg'
<1>1. ASSUME NEW c \in Clients, NEW f \in Ids \cup {0}, NEW o \in FilterOps, Step(c, f, o),
             ~Differ(c)
      PROVE  PanicNeedsReorg'
  <2>1. \A d \in Clients : status'[d] = "panicked" => status[d] = "panicked"
    BY <1>1, SMTT(40)
       DEF Step, NewBlockFilter, Start, MovesTo, NewFilter, ResolveFromBlock, ResolveToBlock, New,
           NewId, StoreFilter, SetLast, Generates, Return, FilterAnswer, SetTo, Topics,
           BlockCount, NextBlockHash, AnswerBlocks, Answered, LogChanges, SearchFilterLogs,
           NodeFails, GetFilterChanges, GetFilterLogs, Uninstall, AtOnce, Refused,
           AnswerType, chainVars, storeVars, callVars, locals, answer, history
  <2>2. UNCHANGED reorgs
    BY <1>1, SMTT(30)
       DEF Step, NewBlockFilter, Start, MovesTo, NewFilter, ResolveFromBlock, ResolveToBlock, New,
           NewId, StoreFilter, SetLast, Generates, Return, FilterAnswer, SetTo, Topics,
           BlockCount, NextBlockHash, AnswerBlocks, Answered, LogChanges, SearchFilterLogs,
           NodeFails, GetFilterChanges, GetFilterLogs, Uninstall, AtOnce, Refused,
           chainVars, storeVars, callVars, locals, answer, history
  <2> QED BY <2>1, <2>2, SMTT(30) DEF PanicNeedsReorg, chainVars
<1>2. ASSUME NEW c \in Clients, Differ(c) PROVE PanicNeedsReorg'
  BY <1>2, FiltersAssumption, SMTT(40)
     DEF Differ, ReadsBlocks, Return, FilterAnswer, MovesTo, PanicNeedsReorg, PollsBelow,
         PolledIsSet, Polls, CallType, AnswerType, StoreType, LocalType, ChainType,
         HistoryType, Control, Heights, Unset, LatestBlock, chainVars, storeVars, callVars,
         locals, answer, history
<1>3. CASE NewBlock
  BY <1>3, SMTT(30)
     DEF NewBlock, PanicNeedsReorg, Polls, CallType, chainVars, storeVars, callVars,
         locals, answer, history
<1>4. CASE Reorg
  BY <1>4, Ranges, FiltersAssumption, SMTT(30)
     DEF Reorg, PanicNeedsReorg, PollsBelow, PolledIsSet, Polls, CallType, StoreType,
         LocalType, ChainType, HistoryType, Control, chainVars, storeVars, callVars,
         locals, answer, history
<1>5. CASE UNCHANGED filterVars
  BY <1>5
     DEF filterVars, PanicNeedsReorg, Polls, chainVars, storeVars, callVars, locals, answer,
         history
<1> QED BY <1>1, <1>2, <1>3, <1>4, <1>5, Steps DEF Step

-----------------------------------------------------------------------------
(* The range of a log filter                                                 *)

\* A step leaves the range of a log filter alone.
LEMMA RangeIsKeptStep ==
  ASSUME ChainType, StoreType, CallType, LocalType, AnswerType, HistoryType, Control,
         StoredFilters, MakersOwn, PolledIsSet, RangeIsKept, CallsHaveRange, [FiltersNext]_filterVars
  PROVE  RangeIsKept'
<1>1. ASSUME NEW c \in Clients, NEW f \in Ids \cup {0}, NEW o \in FilterOps, Step(c, f, o),
             ~StoreFilter(c), ~SetLast(c), ~SetTo(c), ~AnswerBlocks(c)
      PROVE  RangeIsKept'
  BY <1>1, SMTT(40)
     DEF Step, NewBlockFilter, Start, MovesTo, NewFilter, ResolveFromBlock, ResolveToBlock, New, NewId,
         Generates, Return, FilterAnswer, Topics, BlockCount, Differ, ReadsBlocks, NextBlockHash,
         LogChanges, SearchFilterLogs, NodeFails, GetFilterChanges, GetFilterLogs, Uninstall,
         AtOnce, Refused, RangeIsKept, CallType, chainVars, storeVars, callVars, locals,
         answer, history
<1>2. ASSUME NEW c \in Clients, StoreFilter(c) PROVE RangeIsKept'
  BY <1>2, SMTT(30)
     DEF StoreFilter, MovesTo, StoredFilters, MakersOwn, PolledIsSet, RangeIsKept,
         CallsHaveRange, Making, Polls, CallType, StoreType, Control, chainVars,
         storeVars, callVars, locals, answer, history
<1>3. ASSUME NEW c \in Clients, SetLast(c) PROVE RangeIsKept'
  BY <1>3, SMTT(30)
     DEF SetLast, MovesTo, StoredFilters, MakersOwn, PolledIsSet, RangeIsKept,
         CallsHaveRange, Making, Polls, CallType, StoreType, Control, chainVars,
         storeVars, callVars, locals, answer, history
<1>4. ASSUME NEW c \in Clients, SetTo(c) PROVE RangeIsKept'
  BY <1>4, SMTT(30)
     DEF SetTo, MovesTo, StoredFilters, MakersOwn, PolledIsSet, RangeIsKept, CallsHaveRange,
         Making, Polls, CallType, StoreType, Control, chainVars, storeVars, callVars,
         locals, answer, history
<1>5. ASSUME NEW c \in Clients, AnswerBlocks(c) PROVE RangeIsKept'
  BY <1>5, SMTT(30)
     DEF AnswerBlocks, Return, FilterAnswer, MovesTo, Answered, StoredFilters, MakersOwn,
         PolledIsSet, RangeIsKept, CallsHaveRange, Making, Polls, CallType, StoreType,
         Control, chainVars, storeVars, callVars, locals, answer, history
<1>6. CASE NewBlock
  BY <1>6, SMTT(30)
     DEF NewBlock, RangeIsKept, Making, Polls, CallType, chainVars, storeVars, callVars,
         locals, answer, history
<1>7. CASE Reorg
  BY <1>7, SMTT(30)
     DEF Reorg, RangeIsKept, Making, Polls, CallType, chainVars, storeVars, callVars,
         locals, answer, history
<1>8. CASE UNCHANGED filterVars
  BY <1>8
     DEF filterVars, RangeIsKept, Making, Polls, chainVars, storeVars, callVars, locals, answer,
         history
<1>9. ASSUME NEW c \in Clients, NEW f \in Ids \cup {0}, NEW o \in FilterOps, Step(c, f, o)
      PROVE  RangeIsKept'
  BY <1>1, <1>2, <1>3, <1>4, <1>5, <1>9 DEF Step
<1> QED BY <1>6, <1>7, <1>8, <1>9, Steps

\* A step keeps the range of the calls on a log filter.
LEMMA CallsHaveRangeStep ==
  ASSUME ChainType, StoreType, CallType, LocalType, AnswerType, HistoryType, Control,
         StoredFilters, MakersOwn, MakersDiffer, RangeIsKept, CallsHaveRange, [FiltersNext]_filterVars
  PROVE  CallsHaveRange'
<1>1. ASSUME NEW c \in Clients, NEW f \in Ids \cup {0}, NEW o \in FilterOps, Step(c, f, o),
             ~StoreFilter(c), ~(f \in Ids /\ GetFilterLogs(c, f))
      PROVE  CallsHaveRange'
  <2>1. \A d \in Clients :
          /\ request'[d] = "getFilterLogs" /\ (stage'[d] = "search" \/ status'[d] = "ok") =>
                /\ request[d] = "getFilterLogs" /\ (stage[d] = "search" \/ status[d] = "ok")
                /\ target'[d] = target[d]
          /\ request'[d] = "getFilterLogs" /\ stage'[d] = "search" =>
                stage[d] = "search" /\ from'[d] = from[d] /\ to'[d] = to[d]
          /\ stage'[d] \in {"setLast", "setTo"} /\ request'[d] = "newFilter" =>
                /\ stage[d] \in {"setLast", "setTo"} /\ request[d] = "newFilter"
                /\ target'[d] = target[d] /\ from'[d] = from[d] /\ to'[d] = to[d]
    BY <1>1, SMTT(40)
       DEF Step, NewBlockFilter, Start, MovesTo, NewFilter, ResolveFromBlock, ResolveToBlock, New,
           NewId, SetLast, Generates, Return, FilterAnswer, SetTo, Topics, BlockCount, Differ,
           ReadsBlocks, NextBlockHash, AnswerBlocks, Answered, LogChanges, SearchFilterLogs,
           NodeFails, GetFilterChanges, Uninstall, AtOnce, Refused, CallType, LocalType,
           AnswerType, Control, chainVars, storeVars, callVars, locals, answer, history
  <2>2. UNCHANGED <<type, asked>>
    BY <1>1, SMTT(30)
       DEF Step, NewBlockFilter, Start, MovesTo, NewFilter, ResolveFromBlock, ResolveToBlock, New,
           NewId, SetLast, Generates, Return, FilterAnswer, SetTo, Topics, BlockCount, Differ,
           ReadsBlocks, NextBlockHash, AnswerBlocks, Answered, LogChanges, SearchFilterLogs,
           NodeFails, GetFilterChanges, Uninstall, AtOnce, Refused, chainVars,
           storeVars, callVars, locals, answer, history
  <2> SUFFICES ASSUME NEW d \in Clients
               PROVE  /\ stage'[d] \in {"setLast", "setTo"} /\ request'[d] = "newFilter" =>
                          asked'[target'[d]] = <<from'[d], to'[d]>>
                      /\ request'[d] = "getFilterLogs" /\ (stage'[d] = "search" \/ status'[d] = "ok") =>
                          type'[target'[d]] = "log"
                      /\ request'[d] = "getFilterLogs" /\ stage'[d] = "search" =>
                          asked'[target'[d]] = <<from'[d], to'[d]>>
    BY DEF CallsHaveRange
  <2>3. CASE stage'[d] \in {"setLast", "setTo"} /\ request'[d] = "newFilter"
    <3>1. asked[target[d]] = <<from[d], to[d]>> BY <2>1, <2>3 DEF CallsHaveRange
    <3> QED BY <2>1, <2>2, <2>3, <3>1
  <2>4. CASE request'[d] = "getFilterLogs" /\ (stage'[d] = "search" \/ status'[d] = "ok")
    <3>1. type[target[d]] = "log" BY <2>1, <2>4 DEF CallsHaveRange
    <3>2. stage'[d] = "search" => asked[target[d]] = <<from[d], to[d]>>
      BY <2>1, <2>4 DEF CallsHaveRange
    <3> QED BY <2>1, <2>2, <2>4, <3>1, <3>2
  <2> QED BY <2>3, <2>4
<1>2. ASSUME NEW c \in Clients, StoreFilter(c) PROVE CallsHaveRange'
  BY <1>2, SMTT(30)
     DEF StoreFilter, MovesTo, StoredFilters, MakersOwn, MakersDiffer, RangeIsKept,
         CallsHaveRange, Making, CallType, StoreType, Control, chainVars, storeVars,
         callVars, locals, answer, history
<1>3. ASSUME NEW c \in Clients, NEW f \in Ids, GetFilterLogs(c, f) PROVE CallsHaveRange'
  BY <1>3, Ranges, FiltersAssumption, SMTT(30)
     DEF GetFilterLogs, Start, MovesTo, StoredFilters, MakersOwn, MakersDiffer, RangeIsKept,
         CallsHaveRange, Making, CallType, StoreType, LocalType, ChainType, HistoryType,
         Control, chainVars, storeVars, callVars, locals, answer, history
<1>4. CASE NewBlock
  BY <1>4, SMTT(30)
     DEF NewBlock, CallsHaveRange, Making, CallType, chainVars, storeVars, callVars,
         locals, answer, history
<1>5. CASE Reorg
  BY <1>5, SMTT(30)
     DEF Reorg, CallsHaveRange, Making, CallType, chainVars, storeVars, callVars, locals,
         answer, history
<1>6. CASE UNCHANGED filterVars
  BY <1>6
     DEF filterVars, CallsHaveRange, Making, chainVars, storeVars, callVars, locals, answer,
         history
<1> QED BY <1>1, <1>2, <1>3, <1>4, <1>5, <1>6, Steps DEF Step

\* A step answers all logs with the range of the filter.
LEMMA LogsFromTheStartStep ==
  ASSUME ChainType, StoreType, CallType, LocalType, AnswerType, HistoryType, Control,
         StoredFilters, MakersOwn, CallsHaveRange, LogsFromTheStart, [FiltersNext]_filterVars
  PROVE  LogsFromTheStart'
<1>1. ASSUME NEW c \in Clients, NEW f \in Ids \cup {0}, NEW o \in FilterOps, Step(c, f, o),
             ~StoreFilter(c), ~SearchFilterLogs(c)
      PROVE  LogsFromTheStart'
  <2>1. \A d \in Clients : request'[d] = "getFilterLogs" /\ status'[d] = "ok" =>
          /\ request[d] = "getFilterLogs" /\ status[d] = "ok"
          /\ target'[d] = target[d] /\ blocks'[d] = blocks[d]
    BY <1>1, SMTT(40)
       DEF Step, NewBlockFilter, Start, MovesTo, NewFilter, ResolveFromBlock, ResolveToBlock, New,
           NewId, SetLast, Generates, Return, FilterAnswer, SetTo, Topics, BlockCount, Differ,
           ReadsBlocks, NextBlockHash, AnswerBlocks, Answered, LogChanges, NodeFails,
           GetFilterChanges, GetFilterLogs, Uninstall, AtOnce, Refused, CallType,
           LocalType, AnswerType, Control, chainVars, storeVars, callVars, locals,
           answer, history
  <2>2. UNCHANGED asked
    BY <1>1, SMTT(30)
       DEF Step, NewBlockFilter, Start, MovesTo, NewFilter, ResolveFromBlock, ResolveToBlock, New,
           NewId, SetLast, Generates, Return, FilterAnswer, SetTo, Topics, BlockCount, Differ,
           ReadsBlocks, NextBlockHash, AnswerBlocks, Answered, LogChanges, NodeFails,
           GetFilterChanges, GetFilterLogs, Uninstall, AtOnce, Refused, chainVars,
           storeVars, callVars, locals, answer, history
  <2> QED BY <2>1, <2>2, SMTT(30) DEF LogsFromTheStart, chainVars
<1>2. ASSUME NEW c \in Clients, StoreFilter(c) PROVE LogsFromTheStart'
  BY <1>2, SMTT(30)
     DEF StoreFilter, MovesTo, StoredFilters, MakersOwn, CallsHaveRange, LogsFromTheStart,
         Making, CallType, StoreType, Control, chainVars, storeVars, callVars, locals,
         answer, history
<1>3. ASSUME NEW c \in Clients, SearchFilterLogs(c) PROVE LogsFromTheStart'
  BY <1>3, SMTT(30)
     DEF SearchFilterLogs, Return, FilterAnswer, MovesTo, StoredFilters, MakersOwn, CallsHaveRange,
         LogsFromTheStart, Making, CallType, AnswerType, StoreType, Control, chainVars,
         storeVars, callVars, locals, answer, history
<1>4. CASE NewBlock
  BY <1>4, SMTT(30)
     DEF NewBlock, LogsFromTheStart, Making, CallType, chainVars, storeVars, callVars,
         locals, answer, history
<1>5. CASE Reorg
  BY <1>5, SMTT(30)
     DEF Reorg, LogsFromTheStart, Making, CallType, chainVars, storeVars, callVars,
         locals, answer, history
<1>6. CASE UNCHANGED filterVars
  BY <1>6
     DEF filterVars, LogsFromTheStart, Making, chainVars, storeVars, callVars, locals, answer,
         history
<1> QED BY <1>1, <1>2, <1>3, <1>4, <1>5, <1>6, Steps DEF Step

-----------------------------------------------------------------------------
(* Polls that do not overlap                                                 *)

\* A step answers no more than lastBlockNumber says.
LEMMA ExactStep ==
  ASSUME ChainType, StoreType, CallType, LocalType, AnswerType, HistoryType, Control,
         StoredFilters, MakersOwn, PolledIsSet, Exact, ReadsLast, OnePoll, [FiltersNext]_filterVars
  PROVE  Exact'
<1>1. ASSUME NEW c \in Clients, NEW f \in Ids \cup {0}, NEW o \in FilterOps, Step(c, f, o),
             ~StoreFilter(c), ~SetLast(c), ~AnswerBlocks(c)
      PROVE  Exact'
  BY <1>1, SMTT(40)
     DEF Step, NewBlockFilter, Start, MovesTo, NewFilter, ResolveFromBlock, ResolveToBlock, New, NewId,
         Generates, Return, FilterAnswer, SetTo, Topics, BlockCount, Differ, ReadsBlocks,
         NextBlockHash, LogChanges, SearchFilterLogs, NodeFails, GetFilterChanges, GetFilterLogs,
         Uninstall, AtOnce, Refused, Exact, CallType, chainVars, storeVars, callVars,
         locals, answer, history
<1>2. ASSUME NEW c \in Clients, StoreFilter(c) PROVE Exact'
  BY <1>2, SMTT(30)
     DEF StoreFilter, MovesTo, StoredFilters, MakersOwn, PolledIsSet, Exact, ReadsLast,
         OnePoll, Making, Polls, CallType, StoreType, Control, chainVars, storeVars,
         callVars, locals, answer, history
<1>3. ASSUME NEW c \in Clients, SetLast(c) PROVE Exact'
  BY <1>3, Ranges, FiltersAssumption, SMTT(30)
     DEF SetLast, MovesTo, StoredFilters, MakersOwn, PolledIsSet, Exact, ReadsLast, OnePoll,
         Making, Polls, CallType, StoreType, LocalType, ChainType, HistoryType, Control,
         chainVars, storeVars, callVars, locals, answer, history
<1>4. ASSUME NEW c \in Clients, AnswerBlocks(c) PROVE Exact'
  <2> DEFINE f == target[c]
  <2>1. f \in Ids /\ Polls(c, f) /\ type[f] = "block" /\ last[f] # Unset
    BY <1>4, SMTT(20) DEF AnswerBlocks, Control, PolledIsSet, Polls
  <2>2. f \notin overlapped => reported[f] = 0..from[c]
    BY <2>1 DEF Exact, ReadsLast
  <2>3. (0..from[c]) \cup Answered(c) = 0..to[c]
    BY <1>4, SMTT(20) DEF AnswerBlocks, Answered, Control, Heights
  <2>4. /\ last' = [last EXCEPT ![f] = to[c]]
        /\ reported' = [reported EXCEPT ![f] = @ \cup Answered(c)]
        /\ UNCHANGED <<type, overlapped>>
    BY <1>4 DEF AnswerBlocks
  <2>5. last'[f] = to[c] /\ reported'[f] = reported[f] \cup Answered(c)
    BY <2>1, <2>4 DEF StoreType, HistoryType
  <2>6. f \notin overlapped => reported'[f] = 0..last'[f]
    BY <2>2, <2>3, <2>5
  <2>7. \A g \in Ids : g # f => last'[g] = last[g] /\ reported'[g] = reported[g]
    BY <2>1, <2>4 DEF StoreType, HistoryType
  <2> QED BY <2>4, <2>6, <2>7 DEF Exact
<1>5. CASE NewBlock
  BY <1>5, SMTT(30)
     DEF NewBlock, Exact, Making, Polls, CallType, chainVars, storeVars, callVars, locals,
         answer, history
<1>6. CASE Reorg
  BY <1>6, SMTT(30)
     DEF Reorg, Exact, Making, Polls, CallType, chainVars, storeVars, callVars, locals,
         answer, history
<1>7. CASE UNCHANGED filterVars
  BY <1>7
     DEF filterVars, Exact, Making, Polls, chainVars, storeVars, callVars, locals, answer,
         history
<1>8. ASSUME NEW c \in Clients, NEW f \in Ids \cup {0}, NEW o \in FilterOps, Step(c, f, o)
      PROVE  Exact'
  BY <1>1, <1>2, <1>3, <1>4, <1>8 DEF Step
<1> QED BY <1>5, <1>6, <1>7, <1>8, Steps

\* A step keeps a poll that overlaps with no other at lastBlockNumber.
LEMMA ReadsLastStep ==
  ASSUME ChainType, StoreType, CallType, LocalType, AnswerType, HistoryType, Control,
         StoredFilters, MakersOwn, PolledIsSet, Exact, ReadsLast, OnePoll, [FiltersNext]_filterVars
  PROVE  ReadsLast'
<1>1. ASSUME NEW c \in Clients, NEW f \in Ids \cup {0}, NEW o \in FilterOps, Step(c, f, o),
             ~StoreFilter(c), ~SetLast(c), ~(f \in Ids /\ GetFilterChanges(c, f)),
             ~AnswerBlocks(c), ~LogChanges(c)
      PROVE  ReadsLast'
  <2>1. \A d \in Clients, g \in Ids :
          Polls(d, g)' => Polls(d, g) /\ from'[d] = from[d]
    BY <1>1, SMTT(40)
       DEF Step, NewBlockFilter, Start, MovesTo, NewFilter, ResolveFromBlock, ResolveToBlock, New,
           NewId, Generates, Return, FilterAnswer, SetTo, Topics, BlockCount, Differ,
           ReadsBlocks, NextBlockHash, SearchFilterLogs, NodeFails, GetFilterLogs, Uninstall,
           AtOnce, Refused, Polls, CallType, LocalType, Control, chainVars, storeVars,
           callVars, locals, answer, history
  <2>2. UNCHANGED <<type, last, overlapped>>
    BY <1>1, SMTT(30)
       DEF Step, NewBlockFilter, Start, MovesTo, NewFilter, ResolveFromBlock, ResolveToBlock, New,
           NewId, Generates, Return, FilterAnswer, SetTo, Topics, BlockCount, Differ,
           ReadsBlocks, NextBlockHash, SearchFilterLogs, NodeFails, GetFilterLogs, Uninstall,
           AtOnce, Refused, chainVars, storeVars, callVars, locals, answer, history
  <2> QED BY <2>1, <2>2, SMTT(30) DEF ReadsLast, chainVars
<1>2. ASSUME NEW c \in Clients, StoreFilter(c) PROVE ReadsLast'
  BY <1>2, SMTT(30)
     DEF StoreFilter, MovesTo, StoredFilters, MakersOwn, PolledIsSet, Exact, ReadsLast,
         OnePoll, Making, Polls, CallType, StoreType, Control, chainVars, storeVars,
         callVars, locals, answer, history
<1>3. ASSUME NEW c \in Clients, SetLast(c) PROVE ReadsLast'
  BY <1>3, SMTT(30)
     DEF SetLast, MovesTo, StoredFilters, MakersOwn, PolledIsSet, Exact, ReadsLast, OnePoll,
         Making, Polls, CallType, StoreType, Control, chainVars, storeVars, callVars,
         locals, answer, history
<1>4. ASSUME NEW c \in Clients, NEW f \in Ids, GetFilterChanges(c, f) PROVE ReadsLast'
  BY <1>4, Ranges, FiltersAssumption, SMTT(30)
     DEF GetFilterChanges, Start, MovesTo, StoredFilters, MakersOwn, PolledIsSet, Exact,
         ReadsLast, OnePoll, Making, Polls, CallType, StoreType, LocalType, ChainType,
         HistoryType, Control, chainVars, storeVars, callVars, locals, answer, history
<1>5. ASSUME NEW c \in Clients, AnswerBlocks(c) PROVE ReadsLast'
  BY <1>5, SMTT(30)
     DEF AnswerBlocks, Return, FilterAnswer, MovesTo, Answered, StoredFilters, MakersOwn,
         PolledIsSet, Exact, ReadsLast, OnePoll, Making, Polls, CallType, StoreType,
         Control, chainVars, storeVars, callVars, locals, answer, history
<1>6. ASSUME NEW c \in Clients, LogChanges(c) PROVE ReadsLast'
  BY <1>6, Ranges, SMTT(30)
     DEF LogChanges, Return, FilterAnswer, MovesTo, ReadsLast, Making, Polls, CallType, AnswerType,
         StoreType, LocalType, ChainType, Heights, Unset, LatestBlock, chainVars, storeVars,
         callVars, locals, answer, history
<1>7. CASE NewBlock
  BY <1>7, SMTT(30)
     DEF NewBlock, ReadsLast, Making, Polls, CallType, chainVars, storeVars, callVars,
         locals, answer, history
<1>8. CASE Reorg
  BY <1>8, SMTT(30)
     DEF Reorg, ReadsLast, Making, Polls, CallType, chainVars, storeVars, callVars,
         locals, answer, history
<1>9. CASE UNCHANGED filterVars
  BY <1>9
     DEF filterVars, ReadsLast, Making, Polls, chainVars, storeVars, callVars, locals, answer,
         history
<1>10. ASSUME NEW c \in Clients, NEW f \in Ids \cup {0}, NEW o \in FilterOps, Step(c, f, o)
      PROVE  ReadsLast'
  BY <1>1, <1>2, <1>3, <1>4, <1>5, <1>6, <1>10 DEF Step
<1> QED BY <1>7, <1>8, <1>9, <1>10, Steps

\* A step notices polls that overlap.
LEMMA OnePollStep ==
  ASSUME ChainType, StoreType, CallType, LocalType, AnswerType, HistoryType, Control,
         OnePoll, [FiltersNext]_filterVars
  PROVE  OnePoll'
<1>1. ASSUME NEW c \in Clients, NEW f \in Ids \cup {0}, NEW o \in FilterOps, Step(c, f, o),
             ~New(c)
      PROVE  OnePoll'
  BY <1>1, SMTT(40)
     DEF Step, NewBlockFilter, Start, MovesTo, NewFilter, ResolveFromBlock, ResolveToBlock,
         StoreFilter, SetLast, Generates, Return, FilterAnswer, SetTo, Topics, BlockCount,
         Differ, ReadsBlocks, NextBlockHash, AnswerBlocks, Answered, LogChanges,
         SearchFilterLogs, NodeFails, GetFilterChanges, GetFilterLogs, Uninstall, AtOnce,
         Refused, OnePoll, Polls, CallType, chainVars, storeVars, callVars, locals,
         answer, history
<1>2. ASSUME NEW c \in Clients, New(c) PROVE OnePoll'
  BY <1>2, SMTT(30)
     DEF New, MovesTo, NewId, OnePoll, Polls, CallType, StoreType, Control, chainVars,
         storeVars, callVars, locals, answer, history
<1>3. CASE NewBlock
  BY <1>3, SMTT(30)
     DEF NewBlock, OnePoll, Polls, CallType, chainVars, storeVars, callVars, locals,
         answer, history
<1>4. CASE Reorg
  BY <1>4, SMTT(30)
     DEF Reorg, OnePoll, Polls, CallType, chainVars, storeVars, callVars, locals, answer,
         history
<1>5. CASE UNCHANGED filterVars
  BY <1>5 DEF filterVars, OnePoll, Polls, chainVars, storeVars, callVars, locals, answer, history
<1> QED BY <1>1, <1>2, <1>3, <1>4, <1>5, Steps DEF Step

-----------------------------------------------------------------------------
(* The inductive invariant                                                   *)

\* The parts are the type invariant.
LEMMA TypeParts ==
  FiltersTypeOK <=> ChainType /\ StoreType /\ CallType /\ LocalType /\ AnswerType /\ HistoryType
BY DEF FiltersTypeOK, ChainType, StoreType, CallType, LocalType, AnswerType, HistoryType

\* What the properties below rest on.
IInv ==
    /\ ChainType /\ StoreType /\ CallType /\ LocalType /\ AnswerType /\ HistoryType
    /\ Control
    /\ StoredFilters /\ MakersOwn /\ MakersDiffer /\ PolledIsSet
    /\ PollsAreCovered /\ NoBlockLost
    /\ FiltersBelow /\ MakersBelow /\ PollsBelow /\ PanicNeedsReorg
    /\ RangeIsKept /\ CallsHaveRange /\ LogsFromTheStart
    /\ Exact /\ ReadsLast /\ OnePoll

\* It holds before anything was called.
LEMMA InitInvariant ==
  ASSUME FiltersInit
  PROVE  IInv
<1> USE FiltersAssumption DEF FiltersInit
<1>1. ChainType /\ StoreType
  BY SMTT(30) DEF ChainType, StoreType, Ids, Heights, Unset
<1>2. CallType /\ LocalType /\ AnswerType /\ HistoryType
  BY SMTT(30) DEF CallType, LocalType, AnswerType, HistoryType, PC, FilterOps, Ids, Heights, LatestBlock, Status
<1>3. Control /\ MakersOwn /\ MakersDiffer
  BY DEF Control, MakersOwn, MakersDiffer, Making
<1>4. StoredFilters
  BY DEF StoredFilters
<1>5. PolledIsSet /\ PollsAreCovered /\ ReadsLast /\ OnePoll
  BY DEF PolledIsSet, PollsAreCovered, ReadsLast, OnePoll, Polls
<1>6. NoBlockLost /\ FiltersBelow /\ RangeIsKept /\ Exact
  BY DEF NoBlockLost, FiltersBelow, RangeIsKept, Exact
<1>7. MakersBelow /\ PollsBelow
  BY DEF MakersBelow, PollsBelow, Polls
<1>8. PanicNeedsReorg /\ CallsHaveRange /\ LogsFromTheStart
  BY DEF PanicNeedsReorg, CallsHaveRange, LogsFromTheStart
<1> QED BY <1>1, <1>2, <1>3, <1>4, <1>5, <1>6, <1>7, <1>8 DEF IInv

\* Every step keeps it.
LEMMA StepInvariant ==
  ASSUME IInv, [FiltersNext]_filterVars
  PROVE  IInv'
<1> USE DEF IInv
<1>1. ChainType' /\ StoreType' /\ CallType' /\ LocalType' /\ AnswerType' /\ HistoryType'
  BY TypeStep
<1>2. Control' BY ControlStep
<1>3. StoredFilters' /\ MakersOwn' /\ MakersDiffer' /\ PolledIsSet'
  BY StoredFiltersStep, MakersOwnStep, MakersDifferStep, PolledIsSetStep
<1>4. PollsAreCovered' /\ NoBlockLost'
  BY PollsAreCoveredStep, NoBlockLostStep
<1>5. FiltersBelow' /\ MakersBelow' /\ PollsBelow' /\ PanicNeedsReorg'
  BY FiltersBelowStep, MakersBelowStep, PollsBelowStep, PanicNeedsReorgStep
<1>6. RangeIsKept' /\ CallsHaveRange' /\ LogsFromTheStart'
  BY RangeIsKeptStep, CallsHaveRangeStep, LogsFromTheStartStep
<1>7. Exact' /\ ReadsLast' /\ OnePoll'
  BY ExactStep, ReadsLastStep, OnePollStep
<1> QED BY <1>1, <1>2, <1>3, <1>4, <1>5, <1>6, <1>7

LEMMA Invariant == FiltersSpec => []IInv
<1>1. FiltersInit => IInv BY InitInvariant
<1>2. IInv /\ [FiltersNext]_filterVars => IInv' BY StepInvariant
<1> QED BY <1>1, <1>2, PTL DEF FiltersSpec
-----------------------------------------------------------------------------
(* Theorems                                                                  *)

\* The type invariant: the store and the locals of the calls keep their
\* types however the filter calls interleave.
THEOREM TypeCorrect == FiltersSpec => []FiltersTypeOK
<1>1. IInv => FiltersTypeOK BY TypeParts DEF IInv
<1> QED BY <1>1, Invariant, PTL

\* lastBlockNumber is stored only after all hashes up to it were read
\* (eth_getFilterChanges.go), so no poll skips a block for the ones after it.
THEOREM NoBlocksLost == FiltersSpec => []NoBlockLost
<1>1. IInv => NoBlockLost BY DEF IInv
<1> QED BY <1>1, Invariant, PTL

\* make([]string, differ) with a difference below zero: the count is asked
\* for after lastBlockNumber was loaded, so only a shorter chain does it.
THEOREM PanicsNeedReorgs == FiltersSpec => []PanicNeedsReorg
<1>1. IInv => PanicNeedsReorg BY DEF IInv
<1> QED BY <1>1, Invariant, PTL

\* eth_getFilterLogs searches from lastBlockNumber to toBlock; polls never
\* move the lastBlockNumber of a log filter.
THEOREM LogsAreComplete == FiltersSpec => []LogsFromTheStart
<1>1. IInv => LogsFromTheStart BY DEF IInv
<1> QED BY <1>1, Invariant, PTL

\* FilterSimulator.Uninstall deletes the entry and no other call stores it
\* again: ids are given out once, and polls only change a filter's data.
THEOREM GoneForGood == FiltersSpec => UninstalledIsGone
<1> DEFINE Gone == \A f \in Ids : f \notin filters /\ type[f] # "none" => f \notin filters'
<1>1. ASSUME IInv, [FiltersNext]_filterVars
      PROVE  Gone
  <2>1. ASSUME NEW c \in Clients, StoreFilter(c) PROVE Gone
    <3>1. type[target[c]] = "none" /\ filters' = filters \cup {target[c]}
      BY <1>1, <2>1 DEF IInv, MakersOwn, Making, StoreFilter
    <3> QED BY <3>1
  <2>2. ASSUME NEW c \in Clients, NEW f \in Ids \cup {0}, NEW o \in FilterOps, Step(c, f, o),
               ~StoreFilter(c)
        PROVE  filters' \subseteq filters
    BY <2>2, SMTT(30)
       DEF Step, NewBlockFilter, NewFilter, ResolveFromBlock, ResolveToBlock, New, SetLast, Generates, SetTo,
           Topics, GetFilterChanges, GetFilterLogs, Uninstall, Refused, BlockCount, Differ,
           NextBlockHash, AnswerBlocks, LogChanges, SearchFilterLogs, NodeFails, storeVars
  <2>3. CASE NewBlock \/ Reorg \/ UNCHANGED filterVars
    BY <2>3 DEF NewBlock, Reorg, filterVars, storeVars
  <2> QED BY <1>1, <2>1, <2>2, <2>3, Steps
<1> QED BY <1>1, Invariant, PTL DEF FiltersSpec, UninstalledIsGone

\* A poll answers the blocks after lastBlockNumber as it loaded it, which is
\* what the polls before it stored unless one ran at the same time.
THEOREM NothingTwice == FiltersSpec => NoRepeat
<1> DEFINE Fresh ==
      \A c \in Clients :
         LET f == target[c] IN
         stage[c] = "hashes" /\ stage'[c] = "idle" /\ f \notin overlapped
             => blocks'[c] \cap reported[f] = {}
<1>1. ASSUME IInv, [FiltersNext]_filterVars
      PROVE  Fresh
  <2> SUFFICES ASSUME NEW d \in Clients, stage[d] = "hashes", stage'[d] = "idle",
                      target[d] \notin overlapped
               PROVE  blocks'[d] \cap reported[target[d]] = {}
    OBVIOUS
  <2> DEFINE g == target[d]
  <2> USE <1>1 DEF IInv
  <2>1. g \in Ids /\ Polls(d, g) /\ type[g] = "block" /\ last[g] # Unset
    BY DEF Control, PolledIsSet, Polls
  <2>2. reported[g] = 0..from[d] /\ from[d] \in Nat
    BY <2>1, FiltersAssumption, SMTT(20) DEF Exact, ReadsLast, Control, Heights
  <2>3. CASE AnswerBlocks(d)
    <3>1. blocks'[d] = (from[d] + 1)..to[d]
      BY <2>3 DEF AnswerBlocks, Return, FilterAnswer, Answered, AnswerType
    <3> QED BY <2>2, <3>1, SMTT(20)
  <2>4. CASE ~AnswerBlocks(d)
    <3>1. ASSUME NEW c \in Clients, NEW f \in Ids \cup {0}, NEW o \in FilterOps, Step(c, f, o)
          PROVE  blocks'[d] = {}
      BY <2>4, <3>1, SMTT(60)
         DEF Step, NewBlockFilter, Start, MovesTo, NewFilter, ResolveFromBlock, ResolveToBlock, New,
             StoreFilter, SetLast, Generates, Return, FilterAnswer, SetTo, Topics, BlockCount, Differ,
             ReadsBlocks, NextBlockHash, AnswerBlocks, LogChanges, SearchFilterLogs,
             NodeFails, GetFilterChanges, GetFilterLogs, Uninstall, AtOnce, Refused,
             CallType, AnswerType, locals, answer
    <3>2. ~(NewBlock \/ Reorg \/ UNCHANGED filterVars)
      BY DEF NewBlock, Reorg, filterVars, callVars
    <3> QED BY <3>1, <3>2, Steps
  <2> QED BY <2>3, <2>4
<1> QED BY <1>1, Invariant, PTL DEF FiltersSpec, NoRepeat
=============================================================================
