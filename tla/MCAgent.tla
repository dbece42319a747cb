------------------------------- MODULE MCAgent -------------------------------
(* Instances of Agent for TLC. Only the newHeads registry: the loop looks at *)
(* no other, and the four registries differ in nothing else.                 *)
EXTENDS Agent

MCOnlyHeads == {"newHeads"}
=============================================================================
