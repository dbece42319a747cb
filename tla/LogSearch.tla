------------------------------- MODULE LogSearch -------------------------------
(***************************************************************************)
(* eth_getLogs: the two ends of the range are resolved one after the       *)
(* other, the node searches, and what it returns too much is taken out.    *)
(* The node returns all the logs of a transaction of which one may match.  *)
(***************************************************************************)
EXTENDS Blocks, SequencesExt

CONSTANTS
    logsOf       \* per contract transaction: its logs, each an address and topics

ASSUME LogSearchAssumption ==
    DOMAIN logsOf = Contracts /\ \A x \in Contracts : logsOf[x] \in Seq(Range(logsOf[x]))

\* The elements of a list at some positions, in order.
ElementsAt(list, I) == FlattenSeq([i \in DOMAIN list |-> IF i \in I THEN <<list[i]>> ELSE <<>>])

\* Mutant: of several topics for a position only the first counts.
DoFiltersMatch_First(filters, topics) ==
    \A i \in DOMAIN topics :
        i \in DOMAIN filters /\ filters[i] # {} => topics[i] = CHOOSE f \in filters[i] : TRUE

\* A filter has a set of addresses and, per position, a set of topics; an
\* empty one accepts all. A position the log does not have is not looked at.
DoFiltersMatch(filters, topics) ==
    \A i \in DOMAIN topics :
        i \in DOMAIN filters /\ filters[i] # {} => topics[i] \in filters[i]

Unfiltered(f) == f.addresses = {} /\ f.topics = <<>>

Passes(f, log) ==
    (f.addresses # {} => log.address \in f.addresses) /\ DoFiltersMatch(f.topics, log.topics)

\* What a filter means, to the documentation of TranslateTopics and to the node:
\* each of its topics is at its position in the log.
Selects(f, log) ==
    /\ f.addresses = {} \/ log.address \in f.addresses
    /\ \A i \in DOMAIN f.topics :
         f.topics[i] = {} \/ (i \in DOMAIN log.topics /\ log.topics[i] \in f.topics[i])

\* The logs of x at the positions in keep. The position of a log is only
\* written down where the logs are filtered.
Numbered(x, keep) ==
    LET kept == ElementsAt([i \in DOMAIN logsOf[x] |-> i], keep)
    IN  [k \in DOMAIN kept |-> [tx |-> x, log |-> kept[k],
                                index |-> IF Unfiltered(op.filter) THEN 0 ELSE kept[k] - 1]]

SearchLogsAndFilterExtraTopics(receipts) ==
    LET Kept(x) == {i \in DOMAIN logsOf[x] :
                      Unfiltered(op.filter) \/ Passes(op.filter, logsOf[x][i])}
    IN  FlattenSeq([k \in DOMAIN receipts |-> Numbered(receipts[k], Kept(receipts[k]))])
-----------------------------------------------------------------------------
\* getBlockNumberByRawParam for both ends, a number or "latest".
ResolveEnd(p, end, next) ==
    /\ pc["main"] = p /\ UNCHANGED <<tx, view, result, blockVars>>
    /\ \/ /\ op[end] # Latest
          /\ GoTo("main", next) /\ NoReply /\ UNCHANGED <<nodeVars, op>>
       \/ /\ op[end] = Latest /\ op' = [op EXCEPT ![end] = GetBlockChainInfo]
          /\ GoTo("main", next) /\ NoReply /\ UNCHANGED nodeVars
       \/ /\ op[end] = Latest /\ CallFails
          /\ GoTo("main", "idle") /\ Replies(Error) /\ UNCHANGED op

ResolveFrom == ResolveEnd("from", "from", "to")
ResolveTo == ResolveEnd("to", "to", "search")

\* The contract transactions of the active branch in a range, in order.
InRange(from, to) ==
    FlattenSeq([k \in 1..(to - from + 1) |->
        LET h == GetBlockHash(from + k - 1)
        IN  IF h = Unknown THEN <<>>
            ELSE ElementsAt(body[h], {i \in DOMAIN body[h] : body[h][i] \in Contracts})])

\* The node may leave out a transaction when the filter selects none of its logs.
Needless ==
    {x \in Contracts : \A i \in DOMAIN logsOf[x] : ~Selects(op.filter, logsOf[x][i])}

\* The node refuses a range that starts above the tip or ends before it starts.
SearchLogs ==
    /\ At("main", "search") /\ UNCHANGED <<view, result, blockVars>>
    /\ GoTo("main", "idle")
    /\ \/ /\ op.from <= op.to /\ op.from <= height[tip]
          /\ \E out \in SUBSET Needless :
               LET all == InRange(op.from, op.to)
                   receipts == ElementsAt(all, {k \in DOMAIN all : all[k] \notin out})
               IN  Replies([kind |-> "logs", all |-> all, logs |-> SearchLogsAndFilterExtraTopics(receipts)])
          /\ UNCHANGED nodeVars
       \/ (op.from > op.to \/ op.from > height[tip]) /\ Replies(Error) /\ UNCHANGED nodeVars
       \/ CallFails /\ Replies(Error)

GetLogsStep == ResolveFrom \/ ResolveTo \/ SearchLogs
=============================================================================
