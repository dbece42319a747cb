-------------------------------- MODULE Queries --------------------------------
(***************************************************************************)
(* Calls that ask the node for the state of an account: eth_call,          *)
(* eth_estimateGas, eth_getCode, eth_getStorageAt, eth_getBalance, and     *)
(* eth_blockNumber, which tries again. What the parameters come to is in   *)
(* op; an account is a contract, a plain address, or no address at all.    *)
(***************************************************************************)
EXTENDS LogSearch

CONSTANT MaxRetries \* 5, the retries of eth_blockNumber

\* One call to the node ends the call, with an answer or an error.
Asks(p) == At("main", p) /\ UNCHANGED <<view, result, blockVars>>
Ends(r) == GoTo("main", "idle") /\ Replies(r)
Fails == CallFails /\ Ends(Error)
Answer(kind, value) == [kind |-> kind, value |-> value]

\* More gas than the cap is not asked for. What has no output, as an account
\* without code, ends in an error that is sent as a result.
CallContract ==
    /\ Asks("callcontract") /\ op.name = "call"
    /\ \/ /\ UNCHANGED nodeVars
          /\ \/ (op.overCap \/ op.account = "invalid") /\ Ends(Answer("data", "0x"))
             \/ ~op.overCap /\ op.account # "invalid" /\ Ends(Answer("value", Error))
             \/ ~op.overCap /\ op.account = "contract" /\ Ends(Answer("data", "output"))
       \/ ~op.overCap /\ Fails

\* A call that ends in an exception cannot be estimated.
EstimateGas ==
    /\ Asks("callcontract") /\ op.name = "estimateGas"
    /\ \/ op.account # "invalid" /\ Ends(Answer("gas", "used")) /\ UNCHANGED nodeVars
       \/ Ends(Error) /\ UNCHANGED nodeVars
       \/ Fails

GetCode ==
    /\ Asks("getcode")
    /\ \/ UNCHANGED nodeVars /\ Ends(Answer("code", op.account = "contract"))
       \/ Fails

GetStorageLatest ==
    /\ pc["main"] = "storagelatest" /\ UNCHANGED <<tx, view, result, blockVars>>
    /\ \/ /\ op' = [op EXCEPT !.number = GetBlockChainInfo]
          /\ GoTo("main", "getstorage") /\ NoReply /\ UNCHANGED nodeVars
       \/ Fails /\ UNCHANGED op

GetStorage ==
    /\ Asks("getstorage")
    /\ \/ /\ UNCHANGED nodeVars
          /\ Ends(IF op.account # "contract" \/ op.number > height[tip] THEN Error
                  ELSE Answer("storage", op.number))
       \/ Fails

\* eth_getBalance: whatever goes wrong, an address that is not found to be a
\* contract is taken for a plain one. A contract's balance is in satoshi.
GetAccountInfo ==
    /\ Asks("accountinfo")
    /\ \/ op.account = "contract" /\ Ends(Answer("balance", "contract")) /\ UNCHANGED nodeVars
       \/ op.account # "contract" /\ GoTo("main", "addressbalance") /\ NoReply /\ UNCHANGED nodeVars
       \/ CallFails /\ GoTo("main", "addressbalance") /\ NoReply

GetAddressBalance ==
    /\ Asks("addressbalance")
    /\ \/ Ends(Answer("balance", IF op.account = "invalid" THEN "zero" ELSE "plain")) /\ UNCHANGED nodeVars
       \/ Fails

\* eth_blockNumber: a node that asks to try again is asked again.
GetCount ==
    /\ pc["main"] = "count" /\ UNCHANGED <<tx, view, result, blockVars>>
    /\ \/ Ends(Answer("number", GetBlockCount)) /\ UNCHANGED <<nodeVars, op>>
       \/ /\ op.retries < MaxRetries /\ CallFails
          /\ op' = [op EXCEPT !.retries = @ + 1] /\ UNCHANGED pc /\ NoReply
       \/ Fails /\ UNCHANGED op

QueryStep ==
    \/ CallContract \/ EstimateGas \/ GetCode \/ GetStorageLatest \/ GetStorage \/ GetAccountInfo
    \/ GetAddressBalance \/ GetCount
=============================================================================
