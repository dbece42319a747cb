-------------------------------- MODULE MCCalls --------------------------------
(***************************************************************************)
(* The calls of the transformer in two parts that share no state: those    *)
(* that keep none, and those that make and read filters. Either runs       *)
(* alone, and every state of both is reached.                              *)
(*                                                                         *)
(* The first has a node with two branches of different length: a contract  *)
(* transaction is in a block of each, at another height and position, a    *)
(* transfer and a coinbase of the wallet in one of them.                   *)
(***************************************************************************)
EXTENDS Calls, Filters, TLC

CONSTANTS g, a1, a2, b1, cg, ca, cb, cc, transfer, creation

MCBlocks == {g, a1, a2, b1}
MCParent == g :> g @@ a1 :> g @@ a2 :> a1 @@ b1 :> g
MCBody == g :> <<cg>> @@ a1 :> <<ca, transfer>> @@ a2 :> <<cc, creation>> @@ b1 :> <<cb, creation>>
MCWallet == {ca, transfer}
MCCoinbases == {cg, ca, cb, cc}
MCContracts == {creation}

MCLogsOf == creation :> <<[address |-> "A", topics |-> <<1, 2>>], [address |-> "B", topics |-> <<1>>],
                   [address |-> "A", topics |-> <<2, 2>>]>>
MCNumbers == 0..3   \* one above the highest block

MCFilters == {[addresses |-> {}, topics |-> <<>>], [addresses |-> {"A"}, topics |-> <<>>],
              [addresses |-> {}, topics |-> <<{1, 2}, {2}>>], [addresses |-> {"A", "B"}, topics |-> <<{2}>>],
              [addresses |-> {"B"}, topics |-> <<{}, {1}>>]}

Coin(a, n) == [address |-> a, amount |-> n]
Script(o, complete, sender) ==
    [op |-> o, complete |-> complete, sender |-> sender, limit |-> <<1, 2>>, price |-> <<3>>]
Other == Script("other", TRUE, FALSE)
OneIn == <<Coin("p", 5)>>

\* Transfers with change and without, a coinbase, and contract transactions
\* of each kind.
MCShapes ==
    {[ins |-> OneIn, outs |-> <<Coin("q", 1), Coin("p", 3)>>, scripts |-> <<Other>>],
     [ins |-> OneIn, outs |-> <<Coin("q", 1), Coin("r", 1)>>, scripts |-> <<Other>>],
     [ins |-> OneIn, outs |-> <<Coin("q", 5)>>, scripts |-> <<Other, Script("undecodable", TRUE, FALSE)>>],
     [ins |-> <<>>, outs |-> <<Coin(NoAddress, 0), Coin("q", 4)>>, scripts |-> <<Other>>],
     [ins |-> OneIn, outs |-> <<Coin("q", 0), Coin("p", 4)>>, scripts |-> <<Other, Script("OP_CALL", TRUE, FALSE)>>],
     [ins |-> OneIn, outs |-> <<Coin("q", 1), Coin("r", 1)>>, scripts |-> <<Script("OP_CREATE", TRUE, TRUE)>>],
     [ins |-> OneIn, outs |-> <<Coin("q", 2), Coin("q", 2)>>, scripts |-> <<Script("OP_SPEND", FALSE, FALSE)>>],
     [ins |-> OneIn, outs |-> <<Coin("p", 5)>>, scripts |-> <<Script("OP_CALL", FALSE, FALSE)>>]}

Unspent(n, h, stake) == [amount |-> n, height |-> h, stake |-> stake]
MCCoinLists ==
    {<<>>, <<Unspent(1, 1, FALSE), Unspent(2, 0, TRUE)>>,
     <<Unspent(1, 2, FALSE), Unspent(1, 1, TRUE), Unspent(3, 0, FALSE)>>}

Parameters(receiver, data, value, wei, gas) ==
    {[name |-> n, to |-> receiver, data |-> data, value |-> value, wei |-> wei, gas |-> gas, gasPrice |-> p, known |-> k]
        : n \in {"sign", "send"}, p \in {0, 5}, k \in BOOLEAN}
MCPayments ==
    Parameters(TRUE, FALSE, TRUE, 7, 0) \cup Parameters(TRUE, FALSE, TRUE, 0, 0) \cup Parameters(TRUE, TRUE, TRUE, 2, 2)
    \cup Parameters(TRUE, TRUE, FALSE, 0, 1) \cup Parameters(FALSE, TRUE, FALSE, 0, 2)
    \cup Parameters(FALSE, FALSE, TRUE, 2, 0)
-----------------------------------------------------------------------------
VARIABLE part   \* the part that runs

MCClients == Permutations(Clients)

\* Each part begins with a chain of at least one block more than the first.
MCInit ==
    /\ part \in {"calls", "filters"}
    /\ Init /\ FiltersInit
    /\ part = "calls" => blockCount = 0 /\ tip # Genesis
    /\ part = "filters" => blockCount = 1 /\ tip = Genesis

MCNext ==
    /\ UNCHANGED part
    /\ \/ part = "calls" /\ Next /\ UNCHANGED filterVars
       \/ part = "filters" /\ FiltersNext /\ UNCHANGED vars

MCSpec == MCInit /\ [][MCNext]_<<part, vars, filterVars>>
=============================================================================
