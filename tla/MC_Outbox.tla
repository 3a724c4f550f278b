------------------------------ MODULE MC_Outbox -----------------------------
(* Two messages of the same text and one of its own. *)
EXTENDS Outbox, TLC

CONSTANTS e1, e2, e3

MCTextOf == [e \in Entries |-> IF e = e3 THEN "bye" ELSE "hi"]
=============================================================================
