---------------------------- MODULE MC_Membership ----------------------------
(* Two users with connections of their own and the admin page. *)
EXTENDS Membership, TLC

CONSTANTS alice, bob, a1, b1, page, i1, r2

MCUserOf == [s \in Connections |-> IF s = b1 THEN bob ELSE alice]
MCApplicant == [r \in Requests |-> bob]
=============================================================================
