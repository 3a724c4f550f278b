---------------------------- MODULE MC_ClientSync ----------------------------
(* A device, a topic t1 with messages m1 and m2, a topic t2 with n1. *)
EXTENDS ClientSync

CONSTANTS t1, t2, m1, m2, m3, n1, k1

MCTopicOf == [m \in Messages |-> IF m = n1 THEN t2 ELSE t1]
=============================================================================
