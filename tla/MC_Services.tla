---------------------------- MODULE MC_Services -----------------------------
(***************************************************************************)
(* The devices of a chat server's members, the pre-keys they upload, what  *)
(* is announced to them, and the push service.  They share no state, so a  *)
(* behaviour is about one thing, its scenario, and their states add up     *)
(* instead of multiplying.  A device of ann's revokes her other one; the   *)
(* client of one device is on two links; a device hands over proofs about  *)
(* ann and about ben, where nothing fails; one-time pre-keys.  The device  *)
(* of MC_ClientSync, where nothing fails, with two messages and two topics *)
(* or with one while it pages.  And, for one server and one user of the    *)
(* push service, pushes and bars, the whitelist, the directory, the        *)
(* monitor, or the token bucket alone.                                     *)
(***************************************************************************)
EXTENDS MC_Devices, PreKeys, MC_ClientSync, PushService, RateLimiter

CONSTANTS o1, o2, o3, b1, b2, h1, h2, chat, alice, bucket1

VARIABLE scenario

keys == <<preKeyVars, deviceVars>>
pushing == <<pushVars, limiterVars>>

MCvars == <<keys, clientVars, pushing, scenario>>

MCBundleOf == [b \in Bundles |-> IF b = b1 THEN {o1, o2} ELSE {o3}]

-----------------------------------------------------------------------------
(* Devices and pre-keys *)

\* The links in use, and the devices whose revocation is known anywhere.
Uses(links) == \A l \in Links \ links : stage'[l] = "closed"
Knows(devices, known) ==
    \A c \in Devices : proofs'[c] \subseteq IF c \in devices THEN known ELSE {}

\* Nobody is kicked.
Stay == \A u \in Holders : master'[u] = "none" => master[u] = "none"

DeviceScenario ==
    \/ scenario = "revocation" /\ DeviceNext /\ Uses({l1, l2}) /\ Knows({d1, d2}, {d2}) /\ Stay
    \/ scenario = "presence" /\ DeviceNext /\ Uses({l2, l3}) /\ Knows({}, {}) /\ Stay
    \/ scenario = "relay" /\ DeviceServe /\ Uses({l1}) /\ Knows({d1}, {d2, d3})

\* No request is left.
AllAnswered ==
    /\ \A q \in Bundles \cup Fetches : phase[q] = "answered"
    /\ UNCHANGED preKeyVars

-----------------------------------------------------------------------------
(* The push service *)

\* The requests served in a scenario.
Only(orders) == \A h \in Handlers : pc[h] = "idle" /\ pc'[h] # "idle" => job'[h].order \in orders

\* No push is refused ...
Pushes ==
    /\ Only({"push", "add"})
    /\ \A h \in Handlers : ~job'[h].url /\ pc'[h] # "refuse"
    /\ UNCHANGED <<answers, monitor>>

\* ... or some are, and nobody is muted.
Refusals == Only({"push"}) /\ UNCHANGED <<mute, answers, monitor>>

Listing ==
    /\ Only({"apply", "approve", "reject", "add"})
    /\ UNCHANGED <<blacklist, mute, whitelistMode>>

Directory ==
    /\ Only({"add", "enlist", "update"}) /\ \A h \in Handlers : ~job'[h].url
    /\ UNCHANGED <<blacklist, mute, whitelistMode>>

Health ==
    /\ Only({"apply", "approve", "add", "enlist"})
    /\ UNCHANGED <<blacklist, mute, whitelistMode>>

PushScenario ==
    \/ scenario = "pushes" /\ PushNext /\ Pushes
    \/ scenario = "refusals" /\ PushNext /\ Refusals
    \/ scenario = "listing" /\ PushNext /\ Listing
    \/ scenario = "directory" /\ PushNext /\ Directory
    \/ scenario = "health" /\ PushRun /\ Health

-----------------------------------------------------------------------------
(* Delivery *)

\* m1 is sent first, or alone.
DeliveryScenario ==
    \/ scenario = "delivery" /\ ClientRun /\ paging'.at = "idle" /\ (head = 0 => latest'[m2] = {})
    \/ /\ scenario = "paged delivery"
       /\ \/ ClientRun /\ topic' = t1 /\ latest'[m2] = {}
          \/ conn = "up" /\ paging.at \in {"idle", "lost"} /\ UNCHANGED clientVars

-----------------------------------------------------------------------------

Scenarios ==
    {"revocation", "presence", "relay", "pre-keys", "delivery", "paged delivery",
     "pushes", "refusals", "listing", "directory", "health", "bucket"}

MCInit ==
    /\ DeviceInit /\ PreKeysInit /\ ClientInit /\ PushInit /\ LimiterInit
    /\ scenario \in Scenarios
    /\ scenario # "relay" => master[ben] = "none"
    /\ scenario \notin {"revocation", "presence", "relay"} => master[ann] = "none"
    /\ scenario # "delivery" => topic = t1

MCNext ==
    /\ \/ DeviceScenario /\ UNCHANGED <<preKeyVars, clientVars, pushing>>
       \/ /\ scenario = "pre-keys" /\ (PreKeysNext \/ AllAnswered)
          /\ UNCHANGED <<deviceVars, clientVars, pushing>>
       \/ DeliveryScenario /\ UNCHANGED <<keys, pushing>>
       \/ PushScenario /\ UNCHANGED <<keys, clientVars, limiterVars>>
       \/ scenario = "bucket" /\ LimiterNext /\ UNCHANGED <<keys, clientVars, pushVars>>
    /\ UNCHANGED scenario

\* The loop of the monitor is fair where it is looked at: it wakes up a minute after
\* each round, and a probe ends within five seconds.  The device has something to
\* deliver only in its own scenarios.
MCSpec ==
    /\ MCInit
    /\ [][MCNext]_MCvars
    /\ WF_pushVars(scenario = "health" /\ MonitorStep)
    /\ DeliveryFairness

\* RelayReaches where nothing fails.
CalmRelayReaches == scenario = "relay" => \A d \in {d2, d3} : RelayReaches(l1, d)

\* HealthFollowed where the loop is fair.
MonitorFollows == scenario = "health" => HealthFollowed
=============================================================================
