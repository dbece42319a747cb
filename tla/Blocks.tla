-------------------------------- MODULE Blocks --------------------------------
(***************************************************************************)
(* The calls that answer with blocks: eth_getBlockByNumber,                *)
(* eth_getBlockByHash with its two goroutines and three channels, and      *)
(* eth_getTransactionByBlockNumberAndIndex and ...HashAndIndex, which look  *)
(* into a full block. A full block takes several calls for each            *)
(* transaction.                                                            *)
(***************************************************************************)
EXTENDS Transactions

CONSTANTS
    IgnoreUnknownTx, \* the flag ignoreTransactions
    MaxInt           \* 2^63 - 1, the largest int

ASSUME BlocksAssumption == MaxInt \in Nat

VARIABLES
    block,       \* per thread: the block it puts together
    chans,       \* contents of resultChan, errorChan and revoBlockErrorChan
    waiter,      \* where the handler of eth_getBlockByHash waits
    reply        \* the answer of the running call

blockVars == <<block, chans, waiter>>

Latest == -1    \* the block parameter "latest"
NoBlock == [hash |-> Unknown, rest |-> <<>>, txs |-> <<>>]
NoChans == [result |-> <<>>, error |-> FALSE, backupError |-> FALSE]

IsByHash == op.name = "getBlockByHash"
Full == op.name = "byIndex" \/ op.full
Prefixed == op.name = "byIndex" /\ op.prefixed

Idle(t) == GoTo(t, "idle") /\ UNCHANGED <<view, result>>
Replies(r) == reply' = r
NoReply == UNCHANGED reply
-----------------------------------------------------------------------------
(* Which block                                                               *)

\* getBlockNumberByParam: "latest" is asked for, other parameters need no call.
GetLatest(t) ==
    /\ pc[t] = "latest" /\ UNCHANGED <<tx, view, result, blockVars>>
    /\ \/ /\ op' = [op EXCEPT !.number = GetBlockChainInfo]
          /\ GoTo(t, "hash") /\ NoReply /\ UNCHANGED nodeVars
       \/ CallFails /\ GoTo(t, "idle") /\ Replies(Error) /\ UNCHANGED op

\* proxyETHGetBlockByHash: there is no block above the tip.
GetHash(t) ==
    /\ At(t, "hash") /\ UNCHANGED <<view, result, chans, waiter>>
    /\ LET h == GetBlockHash(op.number) IN
       \/ /\ h # Unknown
          /\ block' = [block EXCEPT ![t].hash = h]
          /\ GoTo(t, "header") /\ NoReply /\ UNCHANGED nodeVars
       \/ h = Unknown /\ GoTo(t, "idle") /\ Replies(Null) /\ UNCHANGED <<nodeVars, block>>
       \/ CallFails /\ GoTo(t, "idle") /\ Replies(Error) /\ UNCHANGED block
-----------------------------------------------------------------------------
(* The block                                                                 *)

\* Indexes are decoded as uint64; int() takes the large ones for negative.
Uint64s == 0..(2 * MaxInt + 1)
Int64(i) == IF i <= MaxInt THEN i ELSE i - 2 * (MaxInt + 1)

\* Mutant: positions are counted from one.
AtIndex_OneBased(r) ==
    IF r.kind # "block" THEN r
    ELSE IF Len(r.txs) < Int64(op.index) THEN Null
    ELSE IF Int64(op.index) < 1 THEN [kind |-> "panic"] ELSE r.txs[Int64(op.index)]

\* The element of a full block at the position that is asked for. The check of
\* its length lets a negative position pass, and the access panics.
AtIndex(r) ==
    IF r.kind # "block" THEN r
    ELSE IF Len(r.txs) <= Int64(op.index) THEN Null
    ELSE IF Int64(op.index) < 0 THEN [kind |-> "panic"] ELSE r.txs[Int64(op.index) + 1]

\* Mutant: the errors of both goroutines go to the same channel.
Done_OneErrorChan(t, r) ==
    /\ Idle(t)
    /\ block' = [block EXCEPT ![t] = NoBlock]
    /\ IF ~IsByHash THEN Replies(IF op.name = "byIndex" THEN AtIndex(r) ELSE r) /\ UNCHANGED chans
       ELSE /\ NoReply
            /\ chans' = IF r.kind # "error" THEN [chans EXCEPT !.result = Append(@, r)]
                        ELSE [chans EXCEPT !.error = TRUE]
    /\ UNCHANGED waiter

\* The goroutine of eth_getBlockByHash sends what it has; the others answer.
\* The channels have room for all that is ever sent.
Done(t, r) ==
    /\ Idle(t)
    /\ block' = [block EXCEPT ![t] = NoBlock]
    /\ IF ~IsByHash THEN Replies(IF op.name = "byIndex" THEN AtIndex(r) ELSE r) /\ UNCHANGED chans
       ELSE /\ NoReply
            /\ chans' = IF r.kind # "error" THEN [chans EXCEPT !.result = Append(@, r)]
                        ELSE IF t = "main" THEN [chans EXCEPT !.error = TRUE]
                        ELSE [chans EXCEPT !.backupError = TRUE]
    /\ UNCHANGED waiter

\* eth_getTransactionByBlockHashAndIndex passes its hash on as it came, with
\* the prefix, and the node knows no such hash.
GetHeader(t) ==
    /\ At(t, "header")
    /\ LET h == GetBlockHeader(block[t].hash) IN
       \/ /\ ~Prefixed /\ h # Unknown
          /\ GoTo(t, "block") /\ NoReply /\ UNCHANGED <<nodeVars, view, result, blockVars>>
       \/ ~Prefixed /\ h = Unknown /\ Done(t, Null) /\ UNCHANGED nodeVars
       \/ Prefixed /\ Done(t, Error) /\ UNCHANGED nodeVars
       \/ CallFails /\ Done(t, Error)

BlockAnswer(b) == [kind |-> "block", hash |-> b.hash, number |-> height[b.hash], txs |-> b.txs]

\* The next transaction of the block, if there is one.
NextTx(t, b) ==
    IF b.rest = <<>> THEN Done(t, BlockAnswer(b)) /\ UNCHANGED tx
    ELSE /\ block' = [block EXCEPT ![t] = [b EXCEPT !.rest = Tail(@)]]
         /\ tx' = [tx EXCEPT ![t] = Head(b.rest)]
         /\ GoTo(t, "gettransaction")
         /\ UNCHANGED <<view, result, chans, waiter>> /\ NoReply

GetBody(t) ==
    /\ pc[t] = "block" /\ UNCHANGED op
    /\ LET txs == GetBlock(block[t].hash).txs IN
       \/ /\ UNCHANGED nodeVars
          /\ IF Full THEN NextTx(t, [block[t] EXCEPT !.rest = txs])
             ELSE Done(t, BlockAnswer([block[t] EXCEPT !.txs = txs])) /\ UNCHANGED tx
       \/ CallFails /\ Done(t, Error) /\ UNCHANGED tx

\* Mutant: a transaction that could not be read is left out.
SkipsTx_Error(t) == result[t].kind # "tx"

\* Only the coinbase of the genesis block may be missing, or any with the flag.
SkipsTx(t) == result[t].kind = "null" /\ (height[block[t].hash] = 0 \/ IgnoreUnknownTx)

AddTransaction(t) ==
    /\ pc[t] = "returned" /\ op.name \notin {"tx", "receipt"}
    /\ UNCHANGED <<op, nodeVars>>
    /\ IF result[t].kind = "tx"
       THEN NextTx(t, [block[t] EXCEPT !.txs = Append(@, result[t])])
       ELSE IF SkipsTx(t) THEN NextTx(t, block[t])
       ELSE Done(t, Error) /\ UNCHANGED tx
-----------------------------------------------------------------------------
(* eth_getBlockByHash                                                        *)

\* GetRevoBlockHashContext of package blockhash: the hash the node has for this
\* hash in Ethereum's format, which the node may not know any more; none; or
\* an error.
LookUp ==
    /\ At("backup", "lookup") /\ NoReply /\ UNCHANGED <<view, result, waiter>>
    /\ \/ /\ op.hash = Unknown
          /\ \E h \in Blocks \cup {Unknown} : block' = [block EXCEPT !["backup"].hash = h]
          /\ GoTo("backup", "header") /\ UNCHANGED <<nodeVars, chans>>
       \/ /\ GoTo("backup", "idle")
          /\ chans' = [chans EXCEPT !.backupError = TRUE]
          /\ UNCHANGED <<nodeVars, block>>

\* The handler answers and cancels what the goroutines are still at.
Answers(r) ==
    /\ Replies(r)
    /\ pc' = [t \in Threads |-> "idle"]
    /\ block' = [t \in Threads |-> NoBlock]
    /\ view' = [t \in Threads |-> NoView] /\ result' = [t \in Threads |-> NoResult]
    /\ chans' = NoChans /\ waiter' = "none"
WaitsAgain(w, c) ==
    waiter' = w /\ chans' = c /\ NoReply /\ UNCHANGED <<pc, view, result, block>>

FirstResult == Head(chans.result)
RestOfChans == [chans EXCEPT !.result = Tail(@)]

\* Mutant: the first result is the answer, whether there is a block or not.
ReceiveFirst_Null ==
    /\ waiter = "first" /\ chans.result # <<>>
    /\ Answers(FirstResult)

ReceiveFirst ==
    /\ waiter = "first" /\ chans.result # <<>>
    /\ IF FirstResult.kind = "null" THEN WaitsAgain("afterNull", RestOfChans)
       ELSE Answers(FirstResult)

\* The request itself failed.
ReceiveError ==
    waiter = "first" /\ chans.error /\ WaitsAgain("afterError", [chans EXCEPT !.error = FALSE])

\* Nobody looks at errorChan any more.
ReceiveSecond ==
    /\ waiter \in {"afterNull", "afterError"}
    /\ \/ chans.result # <<>> /\ Answers(FirstResult)
       \/ chans.backupError /\ Answers(IF waiter = "afterNull" THEN Null ELSE Error)

Receive ==
    /\ ReceiveFirst \/ ReceiveError \/ ReceiveSecond
    /\ UNCHANGED <<nodeVars, op, tx>>

BlockStep(t) ==
    GetLatest(t) \/ GetHash(t) \/ GetHeader(t) \/ GetBody(t) \/ AddTransaction(t)
=============================================================================
