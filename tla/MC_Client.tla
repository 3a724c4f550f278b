----------------------------- MODULE MC_Client ------------------------------
(***************************************************************************)
(* What the client of a user keeps of his conversations.  A behaviour is   *)
(* about one of four things, its scenario, so that their states add up     *)
(* instead of multiplying: the device of MC_ClientSync while it pages      *)
(* through the history, or while messages get reactions; its outbox in one *)
(* topic, with the messages of MC_Outbox; or an encrypted session.         *)
(***************************************************************************)
EXTENDS MC_ClientSync, MC_Outbox, Ratchet

VARIABLE scenario

MCvars == <<clientVars, outbox, sessionVars, scenario>>

\* A session without a one-time key differs in its first root key only: it is
\* followed for three messages.
OneTimeKeyUsed ==
    \E i \in DOMAIN session["bob"].root : <<"bob", "opk", 0>> \in session["bob"].root[i]
Short == OneTimeKeyUsed \/ Cardinality(sent') <= 3

MCInit ==
    /\ ClientInit /\ OutboxInit /\ SessionInit
    /\ scenario \in {"paging", "reactions", "outbox", "session"}
    /\ scenario # "session" => ~OneTimeKeyUsed
    /\ scenario \in {"outbox", "session"} => topic = t1

\* No reactions, or no requests for history.
Plain == \A i \in DOMAIN rx' : rx'[i].seq # 0
Unpaged == paging'.at = "idle"

\* The messages differ in nothing, nor do e1 and e2: m1 and e1 are sent first.
Ordered ==
    \/ scenario \in {"paging", "reactions"} /\ (head = 0 => latest'[m2] = {})
    \/ scenario = "outbox" /\ \A r \in shown' : r.entry = e2 => CallsOf(e1) # {}

MCNext ==
    /\ \/ /\ scenario = "paging" /\ ClientNext /\ Plain /\ Ordered
          /\ UNCHANGED <<outbox, sessionVars>>
       \/ /\ scenario = "reactions" /\ ClientNext /\ Unpaged /\ Ordered
          /\ UNCHANGED <<outbox, sessionVars>>
       \/ scenario = "outbox" /\ OutboxNext /\ Ordered /\ UNCHANGED <<clientVars, sessionVars>>
       \/ scenario = "session" /\ SessionNext /\ Short /\ UNCHANGED <<clientVars, outbox>>
    /\ UNCHANGED scenario

MCSpec == MCInit /\ [][MCNext]_MCvars
=============================================================================
