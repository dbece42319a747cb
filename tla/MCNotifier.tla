----------------------------- MODULE MCNotifier -----------------------------
(* Instances of Notifier for TLC; the bounds are given in the cfg files.    *)
EXTENDS Notifier
=============================================================================
