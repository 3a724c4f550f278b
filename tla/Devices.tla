------------------------------- MODULE Devices -------------------------------
(***************************************************************************)
(* Devices of a chat server's members and their revocation (server/src/    *)
(* ws.rs, storage.rs; client/lib/src/state/server_connection.dart), and    *)
(* the count of a member's connections.                                    *)
(*                                                                         *)
(* A client says Hello, joins and registers its device, handing over every *)
(* proof of a revocation that it keeps: those its user issued and those    *)
(* it was told of by this server or by another.  A server verifies a proof *)
(* with the master key of the member whose device it revokes.              *)
(*                                                                         *)
(* A link is a WebSocket.  A client that gives one up may open another     *)
(* before the server notices.  A server handles the requests of a link one *)
(* at a time; a statement is a step.  Certificates and proofs are genuine, *)
(* and what a join may ask for is left to module Membership.               *)
(***************************************************************************)
EXTENDS Naturals, FiniteSets

CONSTANTS
    Links,      \* WebSockets of the clients
    Devices,    \* public keys of devices; one device_id each
    DeviceOf,   \* [Links -> Devices]
    Holders,    \* user_ids
    HolderOf    \* [Devices -> Holders]

ASSUME DevicesAssumption ==
    /\ DeviceOf \in [Links -> Devices]
    /\ HolderOf \in [Devices -> Holders]
    /\ IsFiniteSet(Links)

VARIABLES
    master,      \* per user: no member, a member with or without master_pubkey
    listed,      \* the table `devices`
    revoked,     \* the table `revocations`
    onlineCount, \* the connections counted per user
    socket,      \* per link: closed, open, or with its current_user set
    at,          \* per link the next statement of its handler
    request,     \* per link what its handler works on
    stage,       \* per link how far its client is
    proofs,      \* per device the revocations its client keeps
    inbox,       \* per link the proofs broadcast to it
    lateEntries, \* history: per link how often a revoked device entered or was listed
    outliving    \* history: links past the check of Hello when their device was revoked

deviceTables == <<master, listed, revoked>>
client == <<stage, proofs>>
deviceHistory == <<lateEntries, outliving>>
deviceVars == <<deviceTables, onlineCount, socket, at, request, client, inbox, deviceHistory>>

-----------------------------------------------------------------------------
(* Requests *)

Holder(l) == HolderOf[DeviceOf[l]]

\* left: proofs still to look at; item: the device of the current one;
\* already: it was known.
NoRequest == [left |-> {}, item |-> "none", already |-> FALSE]

Goes(l, next) == at' = [at EXCEPT ![l] = next]

\* The client learns the result, if it still waits.
Result(l, result) ==
    stage' = IF stage[l] = "lost" THEN stage ELSE [stage EXCEPT ![l] = result]

Reply(l, result) ==
    /\ Goes(l, "idle")
    /\ request' = [request EXCEPT ![l] = NoRequest]
    /\ Result(l, result)

\* broadcast_device_change with a proof: to every socket, before its Hello too.
Tell(d) == inbox' = [l \in Links |-> IF socket[l] = "closed" THEN {} ELSE inbox[l] \cup {d}]

CountLate(l) ==
    /\ lateEntries' = [lateEntries EXCEPT ![l] = IF DeviceOf[l] \in revoked THEN @ + 1 ELSE @]
    /\ UNCHANGED outliving

\* The links on which the device has passed the check of Hello.
Accepted(d) == {l \in Links : DeviceOf[l] = d /\ (socket[l] = "in" \/ at[l] \in {"key", "enter"})}

\* add_revocation: no connection of the device is closed.
AddRevocation(d) ==
    /\ revoked' = revoked \cup {d}
    /\ outliving' = IF d \in revoked THEN outliving ELSE outliving \cup Accepted(d)
    /\ UNCHANGED lateEntries

-----------------------------------------------------------------------------
(* Connections *)

\* A client opens a link when it has given up its others; a failed handshake
\* leaves its socket open.
Open(l) ==
    /\ socket[l] = "closed"
    /\ \A k \in Links \ {l} :
           DeviceOf[k] = DeviceOf[l] => stage[k] \in {"closed", "lost", "failed"}
    /\ socket' = [socket EXCEPT ![l] = "open"]
    /\ stage' = [stage EXCEPT ![l] = "hello"]
    /\ UNCHANGED <<deviceTables, onlineCount, at, request, proofs, inbox, deviceHistory>>

\* The client gives the link up, or loses it without the server knowing.
Lose(l) ==
    /\ stage[l] \notin {"closed", "lost"}
    /\ stage' = [stage EXCEPT ![l] = "lost"]
    /\ UNCHANGED <<deviceTables, onlineCount, socket, at, request, proofs, inbox, deviceHistory>>

\* Mutant of MarkOffline: the user is taken for offline.
MarkOfflineAll(u) == onlineCount' = [onlineCount EXCEPT ![u] = 0]

\* mark_offline.
MarkOffline(u) == onlineCount' = [onlineCount EXCEPT ![u] = @ - 1]

\* handle_socket ends, when no request is being handled.
Close(l) ==
    /\ stage[l] = "lost" /\ at[l] = "idle"
    /\ socket' = [socket EXCEPT ![l] = "closed"]
    /\ stage' = [stage EXCEPT ![l] = "closed"]
    /\ inbox' = [inbox EXCEPT ![l] = {}]
    /\ IF socket[l] = "in" THEN MarkOffline(Holder(l)) ELSE UNCHANGED onlineCount
    /\ outliving' = outliving \ {l}
    /\ UNCHANGED <<deviceTables, at, request, proofs, lateEntries>>

-----------------------------------------------------------------------------
(* Hello and Join *)

\* is_revoked: the client takes a refusal for an incompatible server.
Hello(l) ==
    /\ stage[l] = "hello" /\ socket[l] = "open" /\ at[l] = "idle"
    /\ IF DeviceOf[l] \in revoked THEN Result(l, "refused") /\ UNCHANGED at
       ELSE Goes(l, "key") /\ UNCHANGED stage
    /\ UNCHANGED <<deviceTables, onlineCount, socket, request, proofs, inbox, deviceHistory>>

\* set_member_master_pubkey.
HelloKey(l) ==
    /\ at[l] = "key"
    /\ IF master[Holder(l)] = "keyless" THEN master' = [master EXCEPT ![Holder(l)] = "keyed"]
       ELSE UNCHANGED master
    /\ Goes(l, "enter")
    /\ UNCHANGED <<listed, revoked, onlineCount, socket, request, client, inbox, deviceHistory>>

\* current_user is set; mark_online.
HelloEnter(l) ==
    /\ at[l] = "enter"
    /\ socket' = [socket EXCEPT ![l] = "in"]
    /\ onlineCount' = [onlineCount EXCEPT ![Holder(l)] = @ + 1]
    /\ CountLate(l)
    /\ Goes(l, "member")
    /\ UNCHANGED <<deviceTables, request, client, inbox>>

\* get_member.
HelloMember(l) ==
    /\ at[l] = "member"
    /\ Reply(l, "join")
    /\ UNCHANGED <<deviceTables, onlineCount, socket, proofs, inbox, deviceHistory>>

\* handle_join: a member stays as he is; another is added with his key, or waits
\* and asks again.
JoinServer(l) ==
    /\ stage[l] \in {"join", "pending"} /\ at[l] = "idle"
    /\ \/ /\ Result(l, "register")
          /\ master' = [master EXCEPT ![Holder(l)] = IF @ = "none" THEN "keyed" ELSE @]
       \/ /\ master[Holder(l)] = "none"
          /\ Result(l, "pending")
          /\ UNCHANGED master
    /\ UNCHANGED <<listed, revoked, onlineCount, socket, at, request, proofs, inbox, deviceHistory>>

-----------------------------------------------------------------------------
(* Registration *)

\* Mutant of RegisterCheck: the check at Hello is trusted.
RegisterTrusting(l) ==
    /\ stage[l] = "register" /\ at[l] = "idle"
    /\ Goes(l, "upsert")
    /\ request' = [request EXCEPT ![l].left = proofs[DeviceOf[l]]]
    /\ UNCHANGED <<deviceTables, onlineCount, socket, client, inbox, deviceHistory>>

\* is_revoked; the client ignores a refusal.
RegisterCheck(l) ==
    /\ stage[l] = "register" /\ at[l] = "idle"
    /\ IF DeviceOf[l] \in revoked THEN Result(l, "done") /\ UNCHANGED <<at, request>>
       ELSE /\ Goes(l, "upsert")
            /\ request' = [request EXCEPT ![l].left = proofs[DeviceOf[l]]]
            /\ UNCHANGED stage
    /\ UNCHANGED <<deviceTables, onlineCount, socket, proofs, inbox, deviceHistory>>

\* upsert_device.
RegisterUpsert(l) ==
    /\ at[l] = "upsert"
    /\ listed' = listed \cup {DeviceOf[l]}
    /\ CountLate(l)
    /\ Goes(l, "proofs")
    /\ UNCHANGED <<master, revoked, onlineCount, socket, request, client, inbox>>

\* Mutant of ProofOwner: a proof that cannot be verified ends the registration.
ProofOwnerStops(l) ==
    /\ at[l] = "proofs"
    /\ \E d \in request[l].left :
           IF master[HolderOf[d]] = "keyed"
           THEN request' = [request EXCEPT ![l].item = d] /\ Goes(l, "known") /\ UNCHANGED stage
           ELSE Reply(l, "done")
    /\ UNCHANGED <<deviceTables, onlineCount, socket, proofs, inbox, deviceHistory>>

\* get_member: without the owner's key a proof is skipped.
ProofOwner(l) ==
    /\ at[l] = "proofs"
    /\ \E d \in request[l].left :
           IF master[HolderOf[d]] = "keyed"
           THEN request' = [request EXCEPT ![l].item = d] /\ Goes(l, "known")
           ELSE request' = [request EXCEPT ![l].left = @ \ {d}] /\ UNCHANGED at
    /\ UNCHANGED <<deviceTables, onlineCount, socket, client, inbox, deviceHistory>>

\* is_revoked ...
ProofKnown(l) ==
    /\ at[l] = "known"
    /\ request' = [request EXCEPT ![l].already = request[l].item \in revoked]
    /\ Goes(l, "add")
    /\ UNCHANGED <<deviceTables, onlineCount, socket, client, inbox, deviceHistory>>

\* ... and add_revocation; the device stays listed.
ProofAdd(l) ==
    LET d == request[l].item
    IN  /\ at[l] = "add"
        /\ AddRevocation(d)
        /\ IF request[l].already THEN UNCHANGED inbox ELSE Tell(d)
        /\ request' = [request EXCEPT ![l] = [NoRequest EXCEPT !.left = request[l].left \ {d}]]
        /\ Goes(l, "proofs")
        /\ UNCHANGED <<master, listed, onlineCount, socket, client>>

ProofsDone(l) ==
    /\ at[l] = "proofs" /\ request[l].left = {}
    /\ Reply(l, "done")
    /\ UNCHANGED <<deviceTables, onlineCount, socket, proofs, inbox, deviceHistory>>

-----------------------------------------------------------------------------
(* Revocation *)

\* The client issues a proof for another of its user's devices, keeps it and
\* sends it to this server among others.  get_member: the proof is verified.
Revoke(l, d) ==
    /\ stage[l] = "done" /\ at[l] = "idle"
    /\ HolderOf[d] = Holder(l) /\ d \in listed /\ d # DeviceOf[l]
    /\ proofs' = [proofs EXCEPT ![DeviceOf[l]] = @ \cup {d}]
    /\ IF master[Holder(l)] = "keyed" /\ socket[l] = "in"
       THEN request' = [request EXCEPT ![l].item = d] /\ Goes(l, "revoke")
       ELSE UNCHANGED <<request, at>>
    /\ UNCHANGED <<deviceTables, onlineCount, socket, stage, inbox, deviceHistory>>

\* add_revocation ...
RevokeAdd(l) ==
    /\ at[l] = "revoke"
    /\ AddRevocation(request[l].item)
    /\ Goes(l, "remove")
    /\ UNCHANGED <<master, listed, onlineCount, socket, request, client, inbox>>

\* ... and remove_device.
RevokeRemove(l) ==
    /\ at[l] = "remove"
    /\ listed' = listed \ {request[l].item}
    /\ Tell(request[l].item)
    /\ Goes(l, "idle")
    /\ request' = [request EXCEPT ![l] = NoRequest]
    /\ UNCHANGED <<master, revoked, onlineCount, socket, client, deviceHistory>>

\* deviceChangeStream: a client keeps every proof it is told of.
Hear(l) ==
    /\ stage[l] \notin {"closed", "lost"} /\ inbox[l] # {}
    /\ proofs' = [proofs EXCEPT ![DeviceOf[l]] = @ \cup inbox[l]]
    /\ inbox' = [inbox EXCEPT ![l] = {}]
    /\ UNCHANGED <<deviceTables, onlineCount, socket, at, request, stage, deviceHistory>>

-----------------------------------------------------------------------------
(* The environment *)

\* Another server, or another device of the user, passes a proof on.
Learn(c, d) ==
    /\ d \notin proofs[c]
    /\ proofs' = [proofs EXCEPT ![c] = @ \cup {d}]
    /\ UNCHANGED <<deviceTables, onlineCount, socket, at, request, stage, inbox, deviceHistory>>

\* A member is kicked.
Leave(u) ==
    /\ master[u] # "none"
    /\ master' = [master EXCEPT ![u] = "none"]
    /\ UNCHANGED <<listed, revoked, onlineCount, socket, at, request, client, inbox, deviceHistory>>

\* A statement fails: no answer comes, unless the handler goes on.
DeviceFails(l) ==
    /\ \/ at[l] = "key" /\ Goes(l, "enter") /\ UNCHANGED <<request, stage>>
       \/ /\ at[l] = "proofs"
          /\ \E d \in request[l].left : request' = [request EXCEPT ![l].left = @ \ {d}]
          /\ UNCHANGED <<at, stage>>
       \/ at[l] = "member" /\ Reply(l, "failed")
       \/ at[l] = "idle" /\ stage[l] \in {"hello", "join"} /\ Reply(l, "failed")
       \/ at[l] \in {"upsert", "known", "add", "revoke", "remove"} /\ Reply(l, "done")
    /\ UNCHANGED <<deviceTables, onlineCount, socket, proofs, inbox, deviceHistory>>

\* The server restarts; a client waits for its link to break or to time out.
DeviceRestart ==
    /\ \E l \in Links : socket[l] # "closed"
    /\ onlineCount' = [u \in Holders |-> 0]
    /\ socket' = [l \in Links |-> "closed"]
    /\ at' = [l \in Links |-> "idle"]
    /\ request' = [l \in Links |-> NoRequest]
    /\ stage' = [l \in Links |-> "closed"]
    /\ inbox' = [l \in Links |-> {}]
    /\ outliving' = {}
    /\ UNCHANGED <<deviceTables, proofs, lateEntries>>

-----------------------------------------------------------------------------
(* Specification *)

DeviceInit ==
    /\ master \in [Holders -> {"none", "keyless", "keyed"}]
    /\ listed = {} /\ revoked = {}
    /\ onlineCount = [u \in Holders |-> 0]
    /\ socket = [l \in Links |-> "closed"]
    /\ at = [l \in Links |-> "idle"]
    /\ request = [l \in Links |-> NoRequest]
    /\ stage = [l \in Links |-> "closed"]
    /\ proofs = [c \in Devices |-> {}]
    /\ inbox = [l \in Links |-> {}]
    /\ lateEntries = [l \in Links |-> 0]
    /\ outliving = {}

HelloAndJoin(l) ==
    \/ Open(l) \/ Lose(l) \/ Close(l)
    \/ Hello(l) \/ HelloKey(l) \/ HelloEnter(l) \/ HelloMember(l)
    \/ JoinServer(l)

Registration(l) ==
    \/ RegisterCheck(l) \/ RegisterUpsert(l)
    \/ ProofOwner(l) \/ ProofKnown(l) \/ ProofAdd(l) \/ ProofsDone(l)

Revocation(l) ==
    \/ \E d \in Devices : Revoke(l, d)
    \/ RevokeAdd(l) \/ RevokeRemove(l)
    \/ Hear(l)

\* Nothing fails.
DeviceServe ==
    \/ \E l \in Links : HelloAndJoin(l) \/ Registration(l) \/ Revocation(l)
    \/ \E c, d \in Devices : Learn(c, d)
    \/ \E u \in Holders : Leave(u)

DeviceNext == DeviceServe \/ (\E l \in Links : DeviceFails(l)) \/ DeviceRestart

DeviceSpec == DeviceInit /\ [][DeviceNext]_deviceVars

-----------------------------------------------------------------------------
(* Properties *)

\* Types.
DeviceTypeOK ==
    /\ master \in [Holders -> {"none", "keyless", "keyed"}]
    /\ listed \subseteq Devices /\ revoked \subseteq Devices
    /\ onlineCount \in [Holders -> Nat]
    /\ socket \in [Links -> {"closed", "open", "in"}]
    /\ at \in [Links -> {"idle", "key", "enter", "member", "upsert", "proofs", "known", "add",
                         "revoke", "remove"}]
    /\ request \in [Links -> [left : SUBSET Devices, item : Devices \cup {"none"},
                           already : BOOLEAN]]
    /\ stage \in [Links -> {"closed", "lost", "failed", "hello", "refused", "join", "pending",
                            "register", "done"}]
    /\ proofs \in [Devices -> SUBSET Devices]
    /\ inbox \in [Links -> SUBSET Devices]
    /\ lateEntries \in [Links -> Nat]
    /\ outliving \subseteq Links

\* No session starts after the revocation of its device: a revoked device is in
\* only on links that were in, or past the check of Hello, when the revocation was
\* stored, and on each link it enters or is listed at most once more, in the
\* request that the revocation overtook, whatever is in flight and whatever fails
\* (the checks of handle_hello and handle_register_device together).  A session
\* that is in goes on, see RevokedAtOnce.
OnlyOldSessionsRemain ==
    \A l \in Links :
        /\ DeviceOf[l] \in revoked /\ socket[l] = "in" => l \in outliving
        /\ lateEntries[l] <= 1

\* The online count is exact, over clients that reconnect before their old
\* socket is given up, failed handshakes and restarts: no member stays online
\* without a connection, or goes offline while one of his is in.
PresenceExact ==
    \A u \in Holders : onlineCount[u] = Cardinality({l \in Links : Holder(l) = u /\ socket[l] = "in"})

\* A client that keeps a proof and registers with a server time and again
\* brings the revocation there, whatever proofs of members unknown to that
\* server it hands over with it (handle_register_device).
RelayReaches(l, d) ==
    /\ <>[](d \in proofs[DeviceOf[l]] /\ master[HolderOf[d]] = "keyed")
    /\ []<>(stage[l] = "done") /\ []<>(stage[l] = "closed")
    => <>(d \in revoked)

\* What the client tells its user and a run refutes: "the device becomes invalid at
\* once".  When no handler is at work and a device keeps the proof of its own
\* revocation, which the server stores, none of its connections is in.
RevokedAtOnce ==
    (\A l \in Links : at[l] = "idle")
    => \A l \in Links : DeviceOf[l] \in revoked \cap proofs[DeviceOf[l]] => socket[l] # "in"
=============================================================================
