-------------------------- MODULE MC_Administration --------------------------
(***************************************************************************)
(* What users and administrators change but messages: members, files,      *)
(* settings.  The three share nothing that the properties speak of, so     *)
(* that a behaviour is one of four and their states add up instead of      *)
(* multiplying: joins, orders and failures without the admin page; the     *)
(* decision on one request of bob's, which nothing fails and which is      *)
(* scheduled fairly; the files; or the settings.                           *)
(***************************************************************************)
EXTENDS MC_Membership, Attachments, ServerMeta

CONSTANTS w1, w2, f1, f2, content, p1

VARIABLE scenario

MCvars == <<vars, storeVars, metaVars, scenario>>

MCContentOf == [a \in Uploads |-> content]

\* The requests served in a scenario.
Only(orders) == \A s \in Sessions : job'[s].order \in orders \cup {"none", "join", "claim"}

Mixed ==
    /\ Only({"member", "mute", "approve"})
    /\ \A s \in Consoles : pc'[s] = "idle"
    /\ strategy = "invite" => strategy' = "invite"   \* switched once

Approval ==
    /\ Only({"approve", "ban"})
    /\ \A s \in Sessions : job'[s].item \notin Invites
    /\ UNCHANGED <<strategy, invites>>

\* The editors differ in nothing: the second one leaves one kind of edit out.
Ordered == edit'[w2].fields # {"settings"}

MCInit ==
    /\ Init /\ StoreInit /\ MetaInit
    /\ scenario \in {"mixed", "approval", "files", "settings"}
    /\ scenario # "mixed" => strategy = "approval"

MCNext ==
    /\ \/ scenario = "mixed" /\ Next /\ Mixed /\ UNCHANGED <<storeVars, metaVars>>
       \/ scenario = "approval" /\ Serve /\ Approval /\ UNCHANGED <<storeVars, metaVars>>
       \/ scenario = "files" /\ StoreNext /\ UNCHANGED <<vars, metaVars>>
       \/ scenario = "settings" /\ MetaNext /\ Ordered /\ UNCHANGED <<vars, storeVars>>
    /\ UNCHANGED scenario

MCSpec ==
    /\ MCInit
    /\ [][MCNext]_MCvars
    /\ scenario = "approval" => \A s \in Sessions : WF_vars(Continue(s))

\* ApprovalAdmits where nothing fails.
CalmApprovalAdmits == scenario = "approval" => ApprovalAdmits
=============================================================================
