------------------------------- MODULE Payments -------------------------------
(***************************************************************************)
(* The calls that spend: eth_signTransaction, eth_sendTransaction,         *)
(* eth_sendRawTransaction, dev_generatetoaddress, and revo_getUTXOs. What  *)
(* the parameters come to is in op: addresses, amounts in wei and gas.     *)
(***************************************************************************)
EXTENDS Queries, Amounts

CONSTANTS
    CoinLists,     \* lists of unspent outputs the node may answer
    MatureHeight,  \* 2000, blocks until a stake may be spent
    Regtest        \* the chain can generate blocks

Coins == [amount : Nat, height : Nat, stake : BOOLEAN]

ASSUME PaymentsAssumption == CoinLists \subseteq Seq(Coins) /\ MatureHeight \in Nat /\ Regtest \in BOOLEAN

VARIABLE coins     \* unspent outputs the node has answered

Kind ==
    IF ~op.to /\ op.data THEN "create"
    ELSE IF op.value /\ op.to /\ ~op.data THEN "send"
    ELSE IF op.to /\ op.data THEN "call" ELSE "unknown"

amount == IF op.value THEN EthDecimalValueToRevoAmount(op.wei) ELSE 0

-----------------------------------------------------------------------------
(* eth_signTransaction                                                       *)

SelectInputs(needed, refused) ==
    /\ Asks("utxos")
    /\ \/ \E list \in CoinLists :
            /\ coins' = getRequiredUtxos(list, needed)
            /\ IF coins' = <<>> \/ refused THEN Ends(Error) ELSE GoTo("main", "createraw") /\ NoReply
            /\ UNCHANGED nodeVars
       \/ Fails /\ UNCHANGED coins

CreateRaw ==
    /\ Asks("createraw") /\ UNCHANGED coins
    /\ \/ GoTo("main", "signraw") /\ NoReply /\ UNCHANGED nodeVars
       \/ Fails

\* A signature may be incomplete.
SignRaw(needed) ==
    /\ Asks("signraw")
    /\ coins' = <<>>
    /\ \/ /\ Ends([kind |-> "signed", inputs |-> coins, needed |-> needed,
                   change |-> calculateChange(Total(coins), needed)])
          /\ UNCHANGED nodeVars
       \/ Ends(Error) /\ UNCHANGED nodeVars
       \/ Fails

Signs(needed, refused) == SelectInputs(needed, refused) \/ CreateRaw \/ SignRaw(needed)

NeededWithGas(value) == calculateNeededAmount(value, op.gas, EthGasToRevo(op.gasPrice))

\* Who calls a contract needs an account, which is looked for after the inputs.
requestSendToContract == op.name = "sign" /\ Kind = "call" /\ Signs(NeededWithGas(amount), ~op.known)

\* A transfer pays no fee of its own.
requestSendToAddress == op.name = "sign" /\ Kind = "send" /\ Signs(amount, FALSE)

\* A creation sends nothing.
requestCreateContract == op.name = "sign" /\ Kind = "create" /\ Signs(NeededWithGas(0), FALSE)

SignRefused ==
    op.name = "sign" /\ Kind = "unknown" /\ Asks("utxos") /\ Ends(Error) /\ UNCHANGED <<nodeVars, coins>>
-----------------------------------------------------------------------------
(* eth_sendTransaction, eth_sendRawTransaction, dev_generatetoaddress        *)

Sent(id) == [kind |-> "txid", id |-> id, generates |-> Regtest]

\* GenerateIfPossible is called also when the node refused to send.
Send ==
    /\ Asks("send") /\ UNCHANGED coins
    /\ IF Kind = "unknown" THEN Ends(Error) /\ UNCHANGED nodeVars
       ELSE \/ Ends(Sent("txid")) /\ UNCHANGED nodeVars
            \/ Ends([kind |-> "error", generates |-> Regtest]) /\ (UNCHANGED nodeVars \/ CallFails)

\* One that is in the chain already is decoded for its hash.
SendRaw ==
    /\ Asks("sendraw") /\ UNCHANGED coins
    /\ \/ ~op.known /\ Ends(Sent("txid")) /\ UNCHANGED nodeVars
       \/ op.known /\ GoTo("main", "decoderaw") /\ NoReply /\ UNCHANGED nodeVars
       \/ Fails

DecodeRaw ==
    /\ Asks("decoderaw") /\ UNCHANGED coins
    /\ \/ Ends([Sent(IF op.witness THEN "hash" ELSE "txid") EXCEPT !.generates = FALSE])
          /\ UNCHANGED nodeVars
       \/ Fails

Generate ==
    /\ Asks("generate") /\ UNCHANGED coins
    /\ \/ Ends(IF Regtest /\ op.number > 0 THEN Answer("blocks", op.number) ELSE Error) /\ UNCHANGED nodeVars
       \/ Regtest /\ op.number > 0 /\ Fails
-----------------------------------------------------------------------------
(* revo_getUTXOs                                                             *)

ListCoins ==
    /\ Asks("listcoins")
    /\ \/ /\ \E list \in CoinLists :
               (\A i \in DOMAIN list : list[i].height <= height[tip]) /\ coins' = list
          /\ GoTo("main", "coincount") /\ NoReply /\ UNCHANGED nodeVars
       \/ Fails /\ UNCHANGED coins

Mature(c) == c.stake => GetBlockCount > c.height + MatureHeight

\* Outputs are taken until the mature ones reach the minimum; a minimum of zero
\* asks for all. The code panics at one above the tip.
UtxosTaken ==
    LET asked == {i \in DOMAIN coins : op.immature \/ Mature(coins[i])}
        Safe(n) == SumAt(coins, {i \in asked : i <= n /\ Mature(coins[i])})
        enough == {n \in asked : op.min > 0 /\ Safe(n) >= op.min}
        last == IF enough = {} THEN Len(coins) ELSE Min(enough)
    IN  IF \E i \in asked : i <= last /\ coins[i].height > GetBlockCount THEN [kind |-> "panic"]
        ELSE IF op.min > 0 /\ enough = {} THEN Error
        ELSE [kind |-> "utxos", last |-> last, safe |-> Safe(last)]

CountBlocks ==
    /\ Asks("coincount") /\ coins' = <<>>
    /\ \/ Ends(UtxosTaken) /\ UNCHANGED nodeVars
       \/ Fails

PaymentStep ==
    \/ requestSendToContract \/ requestSendToAddress \/ requestCreateContract \/ SignRefused
    \/ Send \/ SendRaw \/ DecodeRaw \/ Generate \/ ListCoins \/ CountBlocks
=============================================================================
