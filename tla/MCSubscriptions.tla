---------------------------- MODULE MCSubscriptions ----------------------------
(***************************************************************************)
(* A connection with its subscriptions, and the goroutine behind a logs    *)
(* subscription. In the model they share no state, so each runs alone, and *)
(* every state of both is reached.                                         *)
(*                                                                         *)
(* Two contents of logs, one of which passes the filter; by the branch of  *)
(* a block they come twice, or the one that passes comes last.             *)
(***************************************************************************)
EXTENDS Notifier, LogSubscription

CONSTANTS a, b, b1, b2

MCLogs == {a, b}
MCMatching == {a}
MCReceipts == {<<b, a>>, <<a, a, b>>}
MCBranches == {b1, b2}

VARIABLE part   \* the part that runs

MCInit ==
    /\ part \in {"connection", "logs"}
    /\ Init /\ LogInit
    /\ \A h \in Heights : receipt[h][b1] = <<b, a>> /\ receipt[h][b2] = <<a, a, b>>
    /\ part = "connection" => filtered

MCNext ==
    /\ UNCHANGED part
    /\ \/ part = "connection" /\ Next /\ UNCHANGED logVars
       \/ part = "logs" /\ LogNext /\ UNCHANGED vars

MCVars == <<part, vars, logVars>>

MCFairness ==
    \/ part = "connection" /\ Fairness
    \/ part = "logs" /\ WF_logVars(Run) /\ WF_logVars(Drain)

MCSpec == MCInit /\ [][MCNext]_MCVars /\ MCFairness
=============================================================================
