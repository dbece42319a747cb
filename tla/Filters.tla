------------------------------- MODULE Filters -------------------------------
(***************************************************************************)
(* The filter calls (eth_newBlockFilter, eth_newFilter,                    *)
(* eth_getFilterChanges, eth_getFilterLogs, eth_uninstallFilter) over the  *)
(* filter store eth.FilterSimulator. Any number of calls run at once; the  *)
(* store and the data of a filter are sync.Maps, so a call interleaves     *)
(* with the others at each access and at each answer of the node. Which    *)
(* logs of a block match a filter is not modelled: an answer is the set of *)
(* the heights it covers.                                                  *)
(***************************************************************************)
EXTENDS Integers, FiniteSets

CONSTANTS
    Clients,     \* each has one call running at a time
    MaxFilters,  \* bound: filters made
    MaxHeight,   \* bound: height of the node's chain
    MaxReorgs    \* bound: times the chain gets shorter

ASSUME FiltersAssumption ==
    MaxFilters \in Nat /\ MaxHeight \in Nat /\ MaxReorgs \in Nat

Ids == 1..MaxFilters
Heights == 0..MaxHeight
Unset == -1           \* the filter's data has no such key
LatestBlock == -1     \* the block parameter "latest", or none

VARIABLES
    blockCount, reorgs, \* the node's chain, and how often it got shorter
    maxFilterID,      \* FilterSimulator.maxFilterID
    filters,          \* ids in FilterSimulator.filters
    type,             \* per filter: its Type
    last, toBlock,    \* per filter: lastBlockNumber and toBlock of its Data
    asked,            \* per log filter: the range its creator asked for
    stage,            \* per client: control point of its call
    request, target,  \* per client: its call, and the filter it is about
    from, to, next,   \* per client: locals of its call
    status, blocks,   \* per client: how its last call ended, and its answer
    reported,         \* history, per block filter: heights its polls answered
    overlapped        \* history: filters polled by two clients at a time

chainVars == <<blockCount, reorgs>>
storeVars == <<maxFilterID, filters, type, last, toBlock, asked>>
locals == <<from, to, next>>
answer == <<status, blocks>>
callVars == <<stage, request, target, locals, answer>>
history == <<reported, overlapped>>
filterVars == <<chainVars, storeVars, callVars, history>>

PC == {"idle", "fromBlock", "toBlock", "count", "counted", "new", "store", "setLast", "setTo",
       "topics", "generate", "hashes", "search"}
FilterOps == {"none", "newBlockFilter", "newFilter", "getFilterChanges", "getFilterLogs", "uninstall"}
Status == {"none", "ok", "failed", "panicked"}

FiltersInit ==
    /\ blockCount \in Heights /\ reorgs = 0
    /\ maxFilterID = 0 /\ filters = {}
    /\ type = [f \in Ids |-> "none"]
    /\ last = [f \in Ids |-> Unset] /\ toBlock = [f \in Ids |-> Unset]
    /\ asked = [f \in Ids |-> <<0, 0>>]
    /\ stage = [c \in Clients |-> "idle"]
    /\ request = [c \in Clients |-> "none"] /\ target = [c \in Clients |-> 0]
    /\ from = [c \in Clients |-> 0] /\ to = [c \in Clients |-> 0] /\ next = [c \in Clients |-> 0]
    /\ status = [c \in Clients |-> "none"] /\ blocks = [c \in Clients |-> {}]
    /\ reported = [f \in Ids |-> {}]
    /\ overlapped = {}

MovesTo(c, p) == stage' = [stage EXCEPT ![c] = p]

Start(c, o, f, lo, hi, p) ==
    /\ stage[c] = "idle"
    /\ MovesTo(c, p)
    /\ request' = [request EXCEPT ![c] = o] /\ target' = [target EXCEPT ![c] = f]
    /\ from' = [from EXCEPT ![c] = lo] /\ to' = [to EXCEPT ![c] = hi]
    /\ status' = [status EXCEPT ![c] = "none"] /\ blocks' = [blocks EXCEPT ![c] = {}]
    /\ UNCHANGED next

FilterAnswer(c, s, heights) ==
    /\ status' = [status EXCEPT ![c] = s]
    /\ blocks' = [blocks EXCEPT ![c] = heights]

\* The call ends and its locals are gone.
Return(c, s, heights) ==
    /\ MovesTo(c, "idle")
    /\ FilterAnswer(c, s, heights)
    /\ from' = [from EXCEPT ![c] = 0] /\ to' = [to EXCEPT ![c] = 0] /\ next' = [next EXCEPT ![c] = 0]

\* A call that is over within one step.
AtOnce(c, o, f, s) ==
    /\ stage[c] = "idle"
    /\ request' = [request EXCEPT ![c] = o] /\ target' = [target EXCEPT ![c] = f]
    /\ FilterAnswer(c, s, {})
    /\ UNCHANGED <<stage, locals>>

\* The running call of c polls f.
Polls(c, f) == stage[c] # "idle" /\ request[c] = "getFilterChanges" /\ target[c] = f
-----------------------------------------------------------------------------
(* Making a filter                                                           *)

NewBlockFilter(c) ==
    /\ Start(c, "newBlockFilter", 0, 0, 0, "count")
    /\ UNCHANGED <<chainVars, storeVars, history>>

NewFilter(c) ==
    /\ \E lo, hi \in Heights \cup {LatestBlock} : Start(c, "newFilter", 0, lo, hi, "fromBlock")
    /\ UNCHANGED <<chainVars, storeVars, history>>

\* getBlockNumberByRawParam: "latest" asks the node, once for each parameter.
ResolveFromBlock(c) ==
    /\ stage[c] = "fromBlock"
    /\ from' = [from EXCEPT ![c] = IF @ = LatestBlock THEN blockCount ELSE @]
    /\ MovesTo(c, "toBlock")
    /\ UNCHANGED <<chainVars, storeVars, request, target, to, next, answer, history>>

ResolveToBlock(c) ==
    /\ stage[c] = "toBlock"
    /\ to' = [to EXCEPT ![c] = IF @ = LatestBlock THEN blockCount ELSE @]
    /\ MovesTo(c, "new")
    /\ UNCHANGED <<chainVars, storeVars, request, target, from, next, answer, history>>

NewId == maxFilterID + 1

\* FilterSimulator.New: the id is taken atomically, the filter is stored later.
New(c) ==
    /\ stage[c] = "new" /\ NewId \in Ids
    /\ maxFilterID' = NewId
    /\ target' = [target EXCEPT ![c] = NewId]
    /\ MovesTo(c, "store")
    /\ UNCHANGED <<chainVars, filters, type, last, toBlock, asked, request, locals, answer, history>>

StoreFilter(c) ==
    LET f == target[c] IN
    /\ stage[c] = "store"
    /\ filters' = filters \cup {f}
    /\ type' = [type EXCEPT ![f] = IF request[c] = "newFilter" THEN "log" ELSE "block"]
    /\ asked' = [asked EXCEPT ![f] = <<from[c], to[c]>>]
    /\ MovesTo(c, "setLast")
    /\ UNCHANGED <<chainVars, maxFilterID, last, toBlock, request, target, locals, answer, history>>

\* The client of a block filter knows the blocks up to lastBlockNumber.
SetLast(c) ==
    LET f == target[c]
        block == request[c] = "newBlockFilter"
    IN  /\ stage[c] = "setLast"
        /\ last' = [last EXCEPT ![f] = IF block THEN to[c] ELSE from[c]]
        /\ reported' = IF block THEN [reported EXCEPT ![f] = 0..to[c]] ELSE reported
        /\ MovesTo(c, IF block THEN "generate" ELSE "setTo")
        /\ UNCHANGED <<chainVars, maxFilterID, filters, type, toBlock, asked, request, target,
                        locals, answer, overlapped>>

\* GenerateIfPossible: on a development chain the node makes a block.
Generates(c) ==
    /\ stage[c] = "generate"
    /\ blockCount' \in {blockCount, blockCount + 1} /\ blockCount' \in Heights
    /\ Return(c, "ok", {})
    /\ UNCHANGED <<reorgs, storeVars, request, target, history>>

SetTo(c) ==
    /\ stage[c] = "setTo"
    /\ toBlock' = [toBlock EXCEPT ![target[c]] = to[c]]
    /\ MovesTo(c, "topics")
    /\ UNCHANGED <<chainVars, maxFilterID, filters, type, last, asked, request, target, locals, answer,
                    history>>

\* Topics that cannot be translated fail the call; its filter stays.
Topics(c) ==
    /\ stage[c] = "topics"
    /\ \E s \in {"ok", "failed"} : Return(c, s, {})
    /\ UNCHANGED <<chainVars, storeVars, request, target, history>>
-----------------------------------------------------------------------------
(* Polling a filter                                                          *)

\* processFilter and the load of lastBlockNumber: nothing that runs between
\* the two can tell.
GetFilterChanges(c, f) ==
    /\ Start(c, "getFilterChanges", f, last[f], 0, "count")
    /\ f \in filters /\ last[f] # Unset
    /\ overlapped' = IF \E d \in Clients : Polls(d, f) THEN overlapped \cup {f} ELSE overlapped
    /\ UNCHANGED <<chainVars, storeVars, reported>>

\* The node answers GetBlockCount, for a poll or a new block filter.
BlockCount(c) ==
    /\ stage[c] = "count"
    /\ to' = [to EXCEPT ![c] = blockCount]
    /\ MovesTo(c, IF request[c] = "newBlockFilter" THEN "new" ELSE "counted")
    /\ UNCHANGED <<chainVars, storeVars, request, target, from, next, answer, history>>

ReadsBlocks(c) == stage[c] = "counted" /\ type[target[c]] = "block"

\* Mutant: lastBlockNumber is loaded again once the count is there.
Differ_Reload(c) ==
    LET lo == last[target[c]] IN
    /\ ReadsBlocks(c)
    /\ IF to[c] < lo
       THEN Return(c, "panicked", {})
       ELSE /\ from' = [from EXCEPT ![c] = lo] /\ next' = [next EXCEPT ![c] = lo + 1]
            /\ MovesTo(c, "hashes")
            /\ UNCHANGED <<to, answer>>
    /\ UNCHANGED <<chainVars, storeVars, request, target, history>>

\* Mutant: the number of the last block is stored before its blocks are read.
Differ_StoreFirst(c) ==
    /\ ReadsBlocks(c)
    /\ IF to[c] < from[c]
       THEN Return(c, "panicked", {}) /\ UNCHANGED last
       ELSE /\ next' = [next EXCEPT ![c] = from[c] + 1]
            /\ last' = [last EXCEPT ![target[c]] = to[c]]
            /\ MovesTo(c, "hashes")
            /\ UNCHANGED <<from, to, answer>>
    /\ UNCHANGED <<chainVars, maxFilterID, filters, type, toBlock, asked, request, target, history>>

\* The slice for the hashes has the unsigned difference for its length: when
\* the chain got shorter than lastBlockNumber, make panics.
Differ(c) ==
    /\ ReadsBlocks(c)
    /\ IF to[c] < from[c]
       THEN Return(c, "panicked", {})
       ELSE /\ next' = [next EXCEPT ![c] = from[c] + 1]
            /\ MovesTo(c, "hashes")
            /\ UNCHANGED <<from, to, answer>>
    /\ UNCHANGED <<chainVars, storeVars, request, target, history>>

\* The node has the block, or answers that the height is out of range.
NextBlockHash(c) ==
    /\ stage[c] = "hashes" /\ next[c] <= to[c]
    /\ IF next[c] <= blockCount
       THEN next' = [next EXCEPT ![c] = @ + 1] /\ UNCHANGED <<stage, from, to, answer>>
       ELSE Return(c, "failed", {})
    /\ UNCHANGED <<chainVars, storeVars, request, target, history>>

\* Mutant: the poll starts with the block it answered last.
Answered_Again(c) == from[c]..to[c]

\* Heights of the hashes in a poll's answer.
Answered(c) == (from[c] + 1)..to[c]

AnswerBlocks(c) ==
    LET f == target[c] IN
    /\ stage[c] = "hashes" /\ next[c] > to[c]
    /\ last' = [last EXCEPT ![f] = to[c]]
    /\ reported' = [reported EXCEPT ![f] = @ \cup Answered(c)]
    /\ Return(c, "ok", Answered(c))
    /\ UNCHANGED <<chainVars, maxFilterID, filters, type, toBlock, asked, request, target, overlapped>>

\* Mutant: a poll of a log filter moves lastBlockNumber on.
LogChanges_Store(c) ==
    /\ stage[c] = "counted" /\ type[target[c]] = "log"
    /\ last' = [last EXCEPT ![target[c]] = to[c]]
    /\ from' = [from EXCEPT ![c] = @ + 1]
    /\ MovesTo(c, "search")
    /\ UNCHANGED <<chainVars, maxFilterID, filters, type, toBlock, asked, request, target, to, next,
                    answer, history>>

\* A poll of a log filter searches from the block after lastBlockNumber, and
\* leaves lastBlockNumber as it is.
LogChanges(c) ==
    /\ stage[c] = "counted" /\ type[target[c]] = "log"
    /\ IF to[c] = from[c]
       THEN Return(c, "ok", {})
       ELSE /\ from' = [from EXCEPT ![c] = @ + 1]
            /\ MovesTo(c, "search")
            /\ UNCHANGED <<to, next, answer>>
    /\ UNCHANGED <<chainVars, storeVars, request, target, history>>

GetFilterLogs(c, f) ==
    /\ Start(c, "getFilterLogs", f, last[f], toBlock[f], "search")
    /\ f \in filters /\ type[f] = "log" /\ last[f] # Unset /\ toBlock[f] # Unset
    /\ UNCHANGED <<chainVars, storeVars, history>>

\* The node answers SearchLogs.
SearchFilterLogs(c) ==
    /\ stage[c] = "search"
    /\ Return(c, "ok", from[c]..to[c])
    /\ UNCHANGED <<chainVars, storeVars, request, target, history>>

\* No such filter, of the wrong type, or its data is not stored yet.
Refused(c, o, f) ==
    /\ \/ f \notin filters \/ last[f] = Unset
       \/ o = "getFilterLogs" /\ (type[f] # "log" \/ toBlock[f] = Unset)
    /\ AtOnce(c, o, f, "failed")
    /\ UNCHANGED <<chainVars, storeVars, history>>

\* A call to the node fails, or a parameter is not a block.
NodeFails(c) ==
    /\ \/ stage[c] \in {"fromBlock", "toBlock", "count", "search"}
       \/ stage[c] = "hashes" /\ next[c] <= to[c]
    /\ Return(c, "failed", {})
    /\ UNCHANGED <<chainVars, storeVars, request, target, history>>

Uninstall(c, f) ==
    /\ filters' = filters \ {f}
    /\ AtOnce(c, "uninstall", f, "ok")
    /\ UNCHANGED <<chainVars, maxFilterID, type, last, toBlock, asked, history>>
-----------------------------------------------------------------------------
(* The node                                                                  *)

NewBlock ==
    /\ blockCount < MaxHeight
    /\ blockCount' = blockCount + 1
    /\ UNCHANGED <<reorgs, storeVars, callVars, history>>

\* The node moves to another branch that is shorter for now.
Reorg ==
    /\ blockCount > 0 /\ reorgs < MaxReorgs
    /\ blockCount' = blockCount - 1
    /\ reorgs' = reorgs + 1
    /\ UNCHANGED <<storeVars, callVars, history>>

MakeStep(c) ==
    \/ NewBlockFilter(c) \/ NewFilter(c) \/ ResolveFromBlock(c) \/ ResolveToBlock(c) \/ New(c)
    \/ StoreFilter(c) \/ SetLast(c) \/ Generates(c) \/ SetTo(c) \/ Topics(c)

PollStep(c) ==
    \/ \E f \in Ids : GetFilterChanges(c, f) \/ GetFilterLogs(c, f)
    \/ \E f \in Ids : Uninstall(c, f) \/ Refused(c, "getFilterChanges", f) \/ Refused(c, "getFilterLogs", f)
    \/ BlockCount(c) \/ Differ(c) \/ NextBlockHash(c) \/ AnswerBlocks(c)
    \/ LogChanges(c) \/ SearchFilterLogs(c) \/ NodeFails(c)

FiltersNext == NewBlock \/ Reorg \/ \E c \in Clients : MakeStep(c) \/ PollStep(c)

FiltersSpec == FiltersInit /\ [][FiltersNext]_filterVars
-----------------------------------------------------------------------------
\* Type invariant of the filter store and the calls.
FiltersTypeOK ==
    /\ blockCount \in Heights /\ reorgs \in 0..MaxReorgs
    /\ maxFilterID \in 0..MaxFilters /\ filters \subseteq Ids
    /\ type \in [Ids -> {"none", "block", "log"}]
    /\ last \in [Ids -> Heights \cup {Unset}]
    /\ toBlock \in [Ids -> Heights \cup {Unset}]
    /\ asked \in [Ids -> Heights \X Heights]
    /\ stage \in [Clients -> PC]
    /\ request \in [Clients -> FilterOps] /\ target \in [Clients -> Ids \cup {0}]
    /\ from \in [Clients -> LatestBlock..(MaxHeight + 1)]
    /\ to \in [Clients -> Heights \cup {LatestBlock}] /\ next \in [Clients -> 0..(MaxHeight + 1)]
    /\ status \in [Clients -> Status] /\ blocks \in [Clients -> SUBSET Heights]
    /\ reported \in [Ids -> SUBSET Heights]
    /\ overlapped \subseteq Ids

\* However polls of a block filter overlap, fail half way or meet a shorter
\* chain, every height up to lastBlockNumber was in an answer or below the
\* height the filter was made at: no block is skipped.
NoBlockLost ==
    \A f \in Ids : type[f] = "block" /\ last[f] # Unset => 0..last[f] \subseteq reported[f]

\* A poll answers no height a second time, unless two polls of the filter
\* overlapped.
NoRepeat ==
    [][\A c \in Clients :
         LET f == target[c] IN
         stage[c] = "hashes" /\ stage'[c] = "idle" /\ f \notin overlapped
             => blocks'[c] \cap reported[f] = {}]_filterVars

\* The unsigned difference underflows, and the call panics, only when the
\* chain got shorter: overlapping polls alone cannot do it.
PanicNeedsReorg ==
    (\E c \in Clients : status[c] = "panicked") => reorgs > 0

\* An uninstalled filter never comes back, not by a poll of it that was
\* running, nor by its id being given to another filter.
UninstalledIsGone ==
    [][\A f \in Ids : f \notin filters /\ type[f] # "none" => f \notin filters']_filterVars

\* eth_getFilterLogs answers the range the filter was made with, whatever
\* polls of the filter came before.
LogsFromTheStart ==
    \A c \in Clients :
        request[c] = "getFilterLogs" /\ status[c] = "ok"
            => blocks[c] = asked[target[c]][1]..asked[target[c]][2]
=============================================================================
