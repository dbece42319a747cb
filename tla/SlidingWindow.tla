---------------------------- MODULE SlidingWindow ----------------------------
(* What the request statistics promise: the outcomes of the last N requests, *)
(* oldest first.                                                             *)
EXTENDS Naturals, Sequences

CONSTANT N
VARIABLE window

Init == window = <<>>

Record(outcome) ==
    window' = IF Len(window) < N
              THEN Append(window, outcome)
              ELSE Append(Tail(window), outcome)

Next == \E outcome \in BOOLEAN : Record(outcome)

Spec == Init /\ [][Next]_window
=============================================================================
