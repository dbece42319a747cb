----------------------------- MODULE Transactions -----------------------------
(***************************************************************************)
(* eth_getTransactionByHash and eth_getTransactionReceipt: one transaction *)
(* is put together from several answers of the node, and the chain may     *)
(* change between any two. A thread is a goroutine that translates;        *)
(* eth_getBlockByHash has two. Each step is one call to the node, and what *)
(* the code does with the answer.                                          *)
(***************************************************************************)
EXTENDS Node

Threads == {"main", "backup"}

VARIABLES
    op,          \* the running call: its name and parameters
    pc,          \* per thread: the call to the node it makes next
    tx,          \* per thread: the transaction it translates
    view,        \* per thread: what it has of the transaction
    result       \* per thread: how the translation of the transaction ended

txVars == <<op, tx, view, result>>

\* path tells which answer the place came from, sender where the sender is
\* from, and cause, in a receipt call, why the node had no receipt; outdated is
\* history: the place came from a cached answer no longer true.
NoView == [place |-> Unknown, index |-> 0, number |-> 0, path |-> "none", cause |-> "none",
           outdated |-> FALSE]
NoResult == [kind |-> "none"]
Null == [kind |-> "null"]
Error == [kind |-> "error"]
TxAnswer(v, x, sender) ==
    [kind |-> "tx", tx |-> x, place |-> v.place, index |-> v.index, number |-> v.number,
     path |-> v.path, outdated |-> v.outdated, sender |-> sender]

GoTo(t, p) == pc' = [pc EXCEPT ![t] = p]
At(t, p) == pc[t] = p /\ UNCHANGED <<op, tx>>
Sees(t, v) == view' = [view EXCEPT ![t] = v]
Returns(t, r) ==
    /\ result' = [result EXCEPT ![t] = r]
    /\ view' = [view EXCEPT ![t] = NoView]
    /\ GoTo(t, "returned")
Goes(t, p, v) == GoTo(t, p) /\ Sees(t, v) /\ UNCHANGED result
-----------------------------------------------------------------------------
(* getTransactionByHash                                                      *)

\* A transaction the wallet does not have is looked for as a reward.
GetWalletTransaction(t) ==
    /\ At(t, "gettransaction")
    /\ LET p == GetTransaction(tx[t]) IN
       \/ /\ p # Unknown
          /\ Goes(t, "decode", [NoView EXCEPT !.place = p, !.path = "wallet",
                                  !.index = IF p = Pending THEN 0 ELSE Index(tx[t], p)])
          /\ UNCHANGED nodeVars
       \/ p = Unknown /\ Goes(t, "reward", NoView) /\ UNCHANGED nodeVars
       \/ CallFails /\ Returns(t, Error)

IsReceipt == op.name = "receipt"

\* Mutant: a reward transaction that could not be read is taken for unknown.
RewardFails_Null(t) == Returns(t, Null)

\* getRewardTransactionByHash failed, and not because the node does not know
\* the transaction: it is read once more, or the receipt call says why there
\* was no receipt.
RewardFails(t) ==
    IF ~IsReceipt THEN Goes(t, "raw", NoView)
    ELSE Returns(t, IF view[t].cause = "empty" THEN Null ELSE Error)

FromReward(t, p) ==
    [view[t] EXCEPT !.place = p, !.path = "reward", !.outdated = Outdated(tx[t])]

GetRewardTransaction(t) ==
    /\ At(t, "reward")
    /\ LET p == GetRawTransaction(tx[t]) IN
       \/ /\ p = Unknown
          /\ IF IsReceipt THEN RewardFails(t) ELSE Returns(t, Null)
          /\ UNCHANGED nodeVars
       \/ /\ p = Pending
          /\ IF IsReceipt THEN Returns(t, Null)
             ELSE Goes(t, "decode", FromReward(t, p))
          /\ StoreRaw(tx[t])
       \/ /\ p \in Blocks
          /\ Goes(t, "rewardIndex", FromReward(t, p))
          /\ StoreRaw(tx[t])
       \/ RawCallFails(tx[t]) /\ RewardFails(t)

\* Mutant: positions are counted from one.
getTransactionIndexInBlock_OneBased(x, b) == Index(x, b) + 1

getTransactionIndexInBlock(x, b) == Index(x, b)

GetRewardIndex(t) ==
    /\ At(t, "rewardIndex")
    /\ \/ /\ Goes(t, "rewardNumber",
                  [view[t] EXCEPT !.index = getTransactionIndexInBlock(tx[t], view[t].place)])
          /\ UNCHANGED nodeVars
       \/ CallFails /\ RewardFails(t)

getBlockNumberByHash(b) == GetBlock(b).height

GetRewardNumber(t) ==
    /\ At(t, "rewardNumber")
    /\ \/ /\ Goes(t, "rewardOut", [view[t] EXCEPT !.number = getBlockNumberByHash(view[t].place)])
          /\ UNCHANGED nodeVars
       \/ CallFails /\ RewardFails(t)

\* gettxout for each output; the answers are not used.
GetRewardOutputs(t) ==
    /\ At(t, "rewardOut")
    /\ \/ /\ IF IsReceipt THEN Returns(t, TxAnswer(view[t], tx[t], "none")) ELSE Goes(t, "decode", view[t])
          /\ UNCHANGED nodeVars
       \/ CallFails /\ RewardFails(t)

\* The second look has no index: every transaction gets the same.
RawIndex == 1

GetRaw(t) ==
    /\ At(t, "raw")
    /\ LET p == GetRawTransaction(tx[t]) IN
       \/ p = Unknown /\ Returns(t, Null) /\ UNCHANGED nodeVars
       \/ /\ p # Unknown
          /\ Goes(t, "decode", [NoView EXCEPT !.place = p, !.path = "raw", !.index = RawIndex,
                                  !.outdated = Outdated(tx[t])])
          /\ StoreRaw(tx[t])
       \/ RawCallFails(tx[t]) /\ Returns(t, Error)

Decode(t) ==
    /\ At(t, "decode")
    /\ \/ /\ Goes(t, IF view[t].place = Pending THEN "sender" ELSE "number", view[t])
          /\ UNCHANGED nodeVars
       \/ CallFails /\ Returns(t, Error)

GetNumber(t) ==
    /\ At(t, "number")
    /\ \/ /\ Goes(t, "sender", [view[t] EXCEPT !.number = getBlockNumberByHash(view[t].place)])
          /\ UNCHANGED nodeVars
       \/ CallFails /\ Returns(t, Error)

\* getNonContractTxSenderAddress: an error matters for a contract transaction
\* only. OP_SENDER and generated coins need no call.
SenderFails(t) ==
    Returns(t, IF tx[t] \in Contracts THEN Error ELSE TxAnswer(view[t], tx[t], "none"))

GetSender(t) ==
    /\ At(t, "sender")
    /\ \/ Returns(t, TxAnswer(view[t], tx[t], "script")) /\ UNCHANGED nodeVars
       \/ /\ GetRawTransaction(tx[t]) # Unknown /\ StoreRaw(tx[t])
          /\ IF tx[t] \in Coinbases THEN SenderFails(t)
             ELSE Returns(t, TxAnswer(view[t], tx[t], "input"))
       \/ GetRawTransaction(tx[t]) = Unknown /\ SenderFails(t) /\ UNCHANGED nodeVars
       \/ RawCallFails(tx[t]) /\ SenderFails(t)
-----------------------------------------------------------------------------
(* eth_getTransactionReceipt                                                 *)

GetReceipt(t) ==
    /\ At(t, "receipt")
    /\ LET p == GetTransactionReceipt(tx[t]) IN
       \/ /\ p # Unknown
          /\ Goes(t, "receiptRaw", [NoView EXCEPT !.place = p, !.number = height[p],
                                      !.index = Index(tx[t], p), !.path = "receipt"])
          /\ UNCHANGED nodeVars
       \/ p = Unknown /\ Goes(t, "reward", [NoView EXCEPT !.cause = "empty"]) /\ UNCHANGED nodeVars
       \/ CallFails /\ Goes(t, "reward", [NoView EXCEPT !.cause = "failed"])

GetReceiptRaw(t) ==
    /\ At(t, "receiptRaw")
    /\ \/ /\ GetRawTransaction(tx[t]) # Unknown
          /\ Goes(t, "receiptDecode", view[t])
          /\ StoreRaw(tx[t])
       \/ GetRawTransaction(tx[t]) = Unknown /\ Returns(t, Error) /\ UNCHANGED nodeVars
       \/ RawCallFails(tx[t]) /\ Returns(t, Error)

DecodeReceipt(t) ==
    /\ At(t, "receiptDecode")
    /\ \/ Returns(t, TxAnswer(view[t], tx[t], "receipt")) /\ UNCHANGED nodeVars
       \/ CallFails /\ Returns(t, Error)

TransactionStep(t) ==
    \/ GetWalletTransaction(t) \/ GetRewardTransaction(t) \/ GetRewardIndex(t) \/ GetRewardNumber(t)
    \/ GetRewardOutputs(t) \/ GetRaw(t) \/ Decode(t) \/ GetNumber(t) \/ GetSender(t)
    \/ GetReceipt(t) \/ GetReceiptRaw(t) \/ DecodeReceipt(t)
=============================================================================
