----------------------------- MODULE MCErrorRate -----------------------------
(* Instances of ErrorRate for TLC.                                           *)
EXTENDS ErrorRate
=============================================================================
