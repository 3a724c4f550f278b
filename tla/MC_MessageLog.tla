---------------------------- MODULE MC_MessageLog ----------------------------
(* A small server: an author with two connections and an admin with one. *)
EXTENDS MessageLog, TLC

CONSTANTS alice, admin, a1, a2, o1, t1, t2, m1, m2

MCUserOf == [s \in Sessions |-> IF s = o1 THEN admin ELSE alice]
MCAuthorOf == [m \in Messages |-> alice]
MCTopicOf == [m \in Messages |-> t1]

Plain == [joined |-> TRUE, admin |-> FALSE, muted |-> FALSE, banned |-> FALSE]
Kicked == [Plain EXCEPT !.joined = FALSE]
Muted == [Plain EXCEPT !.muted = TRUE]
Banned == [Plain EXCEPT !.banned = TRUE]
Admin == [Plain EXCEPT !.admin = TRUE]

Admins == {Admin}
Moderated == {Plain, Muted, Admin}
Symm == Permutations({a1, a2})
=============================================================================
