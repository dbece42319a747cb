--------------------------------- MODULE MCLogs ---------------------------------
(***************************************************************************)
(* A node with one block of two contract transactions, so that the place   *)
(* of a log in its transaction is not its place in the block, and a log    *)
(* with fewer topics than a filter may have.                               *)
(***************************************************************************)
EXTENDS Calls

CONSTANTS g, a1, cg, ca, first, second

MCBlocks == {g, a1}
MCParent == g :> g @@ a1 :> g
MCBody == g :> <<cg>> @@ a1 :> <<ca, first, second>>
MCCoinbases == {cg, ca}
MCContracts == {first, second}
MCLogsOf == first :> <<[address |-> "A", topics |-> <<1, 2>>], [address |-> "B", topics |-> <<1>>]>>
            @@ second :> <<[address |-> "A", topics |-> <<2, 2>>]>>
MCNumbers == 0..1

\* [null, 2]: anything in first position and 2 in second.
MCFilters == {[addresses |-> {}, topics |-> <<{}, {2}>>]}
MCNoCoins == {<<>>}
=============================================================================
