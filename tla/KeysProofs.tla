------------------------------ MODULE KeysProofs ------------------------------
(***************************************************************************)
(* Pre-keys and devices.                                                   *)
(*                                                                         *)
(* A one-time pre-key is shared only by overlapping fetches, for any       *)
(* number of bundles, keys and peers.  The inductive invariant says where  *)
(* a key can be: still to be inserted by the one upload that has it, or in *)
(* the table, or held by fetches that know of each other, or given away.   *)
(*                                                                         *)
(* Revocations hold and the online counts are exact, for any members,      *)
(* devices and links.  A handler between a check and the statement the     *)
(* check is for runs for a device that has never been late; a revoked      *)
(* device is past the check of Hello only where it was when it was         *)
(* revoked; a link is counted once because the handler that counts it      *)
(* finds it uncounted.                                                     *)
(***************************************************************************)
EXTENDS PreKeys, Devices, FiniteSetTheorems, TLAPS

-----------------------------------------------------------------------------
(* Pre-keys *)

\* A fetch that has selected its row and not deleted it.
Holds(f, k) == phase[f] = "delete" /\ taken[f] = k

Gave(f, k) == given[f] = k

\* Nobody has a key that is still to be inserted.
FreshKept ==
    \A b \in Bundles : \A k \in rest[b] :
        /\ k \notin preKeys
        /\ \A c \in Bundles : c # b => k \notin rest[c]
        /\ \A f \in Fetches : ~Holds(f, k) /\ ~Gave(f, k)

\* A key that was given has left the table.
GivenGone == \A f \in Fetches : given[f] \notin preKeys

\* A fetch holds a key, and has given none before it selects one.
HeldIsKey ==
    \A f \in Fetches : /\ phase[f] = "delete" => taken[f] \in OneTimeKeys
                       /\ phase[f] = "new" => given[f] = NoOneTime

\* Fetches with the same key have met.
SameMet ==
    \A f, g \in Fetches : \A k \in OneTimeKeys :
        f # g /\ (Holds(f, k) \/ Gave(f, k)) /\ (Holds(g, k) \/ Gave(g, k))
            => f \in met[g] /\ g \in met[f]

PreKeysInv == PreKeysTypeOK /\ FreshKept /\ GivenGone /\ HeldIsKey /\ SameMet

-----------------------------------------------------------------------------
\* The table starts empty, and every key is with the upload that has it.
LEMMA PreKeysInvInit == PreKeysInit => PreKeysInv
<1> SUFFICES ASSUME PreKeysInit PROVE PreKeysInv
  OBVIOUS
<1> USE PreKeysAssumption DEF PreKeysInit
<1>1. PreKeysTypeOK
  BY DEF PreKeysTypeOK
<1>2. FreshKept
  BY DEF FreshKept, Holds, Gave
<1>3. GivenGone /\ HeldIsKey
  BY DEF GivenGone, HeldIsKey
<1>4. SameMet
  BY DEF SameMet, Holds, Gave
<1> QED
  BY <1>1, <1>2, <1>3, <1>4 DEF PreKeysInv

\* Every statement keeps the places of the keys apart.
LEMMA PreKeysInvStep == PreKeysInv /\ [PreKeysNext]_preKeyVars => PreKeysInv'
<1> SUFFICES ASSUME PreKeysInv, [PreKeysNext]_preKeyVars PROVE PreKeysInv'
  OBVIOUS
<1> USE PreKeysAssumption DEF PreKeysInv, PreKeysTypeOK, Continues
<1>1. ASSUME NEW b \in Bundles, UploadDelete(b) PROVE PreKeysInv'
  <2> USE <1>1 DEF UploadDelete
  <2>1. PreKeysTypeOK'
    OBVIOUS
  <2>2. \A f \in Fetches : phase'[f] = phase[f]
    OBVIOUS
  <2>3. FreshKept' /\ GivenGone' /\ HeldIsKey'
    BY <2>2 DEF FreshKept, GivenGone, HeldIsKey, Holds, Gave
  <2>4. SameMet'
    BY <2>2 DEF SameMet, Holds, Gave
  <2> QED
    BY <2>1, <2>3, <2>4
<1>2. ASSUME NEW b \in Bundles, UploadKey(b) PROVE PreKeysInv'
  <2> USE <1>2 DEF UploadKey
  <2>1. PreKeysTypeOK'
    OBVIOUS
  <2>2. \A f \in Fetches : phase'[f] = phase[f]
    OBVIOUS
  <2>3. FreshKept'
    BY <2>2 DEF FreshKept, Holds, Gave
  <2>4. GivenGone'
    BY DEF GivenGone, FreshKept, Gave
  <2>5. HeldIsKey' /\ SameMet'
    BY <2>2 DEF HeldIsKey, SameMet, Holds, Gave
  <2> QED
    BY <2>1, <2>3, <2>4, <2>5
<1>3. ASSUME NEW f \in Fetches, FetchSelect(f) PROVE PreKeysInv'
  <2> USE <1>3 DEF FetchSelect
  <2>1. CASE preKeys = {} /\ Continues(f, "answered") /\ UNCHANGED <<taken, met>>
    <3>1. PreKeysTypeOK'
      BY <2>1
    <3>2. FreshKept' /\ GivenGone' /\ HeldIsKey'
      BY <2>1 DEF FreshKept, GivenGone, HeldIsKey, Holds, Gave
    <3>3. SameMet'
      BY <2>1 DEF SameMet, Holds, Gave
    <3> QED
      BY <3>1, <3>2, <3>3
  <2>2. ASSUME NEW k \in preKeys,
               taken' = [taken EXCEPT ![f] = k],
               met' = [g \in Fetches |->
                          IF g = f THEN {h \in Fetches : phase[h] = "delete" /\ taken[h] = k}
                          ELSE IF g \in {h \in Fetches : phase[h] = "delete" /\ taken[h] = k}
                               THEN met[g] \cup {f}
                               ELSE met[g]],
               Continues(f, "delete")
        PROVE  PreKeysInv'
    <3> USE <2>2
    <3>1. PreKeysTypeOK'
      OBVIOUS
    <3>2. FreshKept'
      BY DEF FreshKept, Holds, Gave
    <3>3. GivenGone' /\ HeldIsKey'
      BY DEF GivenGone, HeldIsKey
    <3>4. ASSUME NEW g \in Fetches, NEW h \in Fetches, NEW j \in OneTimeKeys, g # h,
                 (Holds(g, j) \/ Gave(g, j))', (Holds(h, j) \/ Gave(h, j))'
          PROVE  g \in met'[h] /\ h \in met'[g]
      <4>1. given[f] # k /\ phase[f] = "new"
        BY DEF GivenGone
      <4>2. \A e \in Fetches : given[e] # k
        BY DEF GivenGone
      <4>3. CASE g # f /\ h # f
        BY <3>4, <4>3 DEF SameMet, Holds, Gave
      <4>. DEFINE holders == {e \in Fetches : phase[e] = "delete" /\ taken[e] = k}
      <4>4. ASSUME NEW e \in Fetches, e # f,
                   (Holds(f, j) \/ Gave(f, j))', (Holds(e, j) \/ Gave(e, j))'
            PROVE  f \in met'[e] /\ e \in met'[f]
        <5>1. given'[f] = NoOneTime /\ taken'[f] = k
          BY <4>1 DEF HeldIsKey
        <5>2. j = k
          BY <4>4, <5>1 DEF Holds, Gave
        <5>3. phase[e] = "delete" /\ taken[e] = k
          BY <4>2, <4>4, <5>2 DEF Holds, Gave
        <5>4. e \in holders
          BY <5>3
        <5> QED
          BY <4>4, <5>4
      <4>5. g = f \/ h = f => g \in met'[h] /\ h \in met'[g]
        BY <3>4, <4>4
      <4> QED
        BY <4>3, <4>5
    <3>5. SameMet'
      BY <3>4 DEF SameMet
    <3> QED
      BY <3>1, <3>2, <3>3, <3>5
  <2> QED
    BY <2>1, <2>2
<1>4. ASSUME NEW f \in Fetches, FetchDelete(f) PROVE PreKeysInv'
  <2> USE <1>4 DEF FetchDelete
  <2>1. PreKeysTypeOK'
    BY DEF HeldIsKey
  <2>2. FreshKept' /\ GivenGone' /\ HeldIsKey'
    BY DEF FreshKept, GivenGone, HeldIsKey, Holds, Gave
  <2>3. SameMet'
    BY DEF SameMet, Holds, Gave
  <2> QED
    BY <2>1, <2>2, <2>3
<1>5. ASSUME NEW q \in Bundles \cup Fetches, PreKeysFail(q) PROVE PreKeysInv'
  <2> USE <1>5 DEF PreKeysFail
  <2>1. PreKeysTypeOK'
    OBVIOUS
  <2>2. FreshKept' /\ GivenGone' /\ HeldIsKey'
    BY DEF FreshKept, GivenGone, HeldIsKey, Holds, Gave
  <2>3. SameMet'
    BY DEF SameMet, Holds, Gave
  <2> QED
    BY <2>1, <2>2, <2>3
<1>6. CASE UNCHANGED preKeyVars
  BY <1>6 DEF preKeyVars, FreshKept, GivenGone, HeldIsKey, SameMet, Holds, Gave
<1> QED
  BY <1>1, <1>2, <1>3, <1>4, <1>5, <1>6 DEF PreKeysNext

\* Every reachable state satisfies the invariant.
LEMMA PreKeysAlways == PreKeysSpec => []PreKeysInv
BY PreKeysInvInit, PreKeysInvStep, PTL DEF PreKeysSpec

\* A one-time pre-key is given to two peers only when both held it at once
\* (fetch_pre_keys, upload_pre_keys): for any number of bundles and fetches.
THEOREM KeySharedOnlyByRace == PreKeysSpec => []SharedOnlyByRace
<1>1. PreKeysInv => SharedOnlyByRace
  BY PreKeysAssumption DEF PreKeysInv, PreKeysTypeOK, SameMet, SharedOnlyByRace, Gave
<1> QED
  BY <1>1, PreKeysAlways, PTL

-----------------------------------------------------------------------------
(* Devices *)

\* The links counted for a user.
In(u) == {l \in Links : Holder(l) = u /\ socket[l] = "in"}

\* A handler that verifies or adds a proof has one.
ItemKnown ==
    \A l \in Links : at[l] \in {"known", "add", "revoke", "remove"} => request[l].item \in Devices

\* Hello is handled on a link that is not counted yet.
HelloOpen == \A l \in Links : at[l] \in {"key", "enter"} => socket[l] = "open"

\* No device is late before its revocation, nor behind a check it passed.
LateOnce ==
    \A l \in Links : /\ lateEntries[l] <= 1
                     /\ DeviceOf[l] \notin revoked => lateEntries[l] = 0
                     /\ at[l] \in {"key", "enter", "upsert"} => lateEntries[l] = 0

\* A revoked device is past the check of Hello on links that outlive it only.
Outlived ==
    \A l \in Links :
        DeviceOf[l] \in revoked /\ (socket[l] = "in" \/ at[l] \in {"key", "enter"}) => l \in outliving

\* The counts may go up and down by one link only.
Counted == \A u \in Holders : onlineCount[u] = Cardinality(In(u))

DevicesInv == DeviceTypeOK /\ ItemKnown /\ HelloOpen /\ LateOnce /\ Outlived /\ Counted

RequestType == [left : SUBSET Devices, item : Devices \cup {"none"}, already : BOOLEAN]

-----------------------------------------------------------------------------
\* What a handler writes down of its request keeps its type.
LEMMA RequestTyped ==
    ASSUME DeviceTypeOK
    PROVE  /\ request \in [Links -> RequestType]
           /\ \A l \in Links : /\ request[l].left \in SUBSET Devices
                               /\ [request EXCEPT ![l] = NoRequest] \in [Links -> RequestType]
  BY DEF DeviceTypeOK, RequestType, NoRequest

\* The proofs that are left, ...
LEMMA LeftTyped ==
    ASSUME DeviceTypeOK, NEW l \in Links, NEW left \in SUBSET Devices
    PROVE  /\ [request EXCEPT ![l].left = left] \in [Links -> RequestType]
           /\ [request EXCEPT ![l] = [NoRequest EXCEPT !.left = left]] \in [Links -> RequestType]
<1>1. [NoRequest EXCEPT !.left = left] \in RequestType
  BY DEF NoRequest, RequestType
<1>2. [request[l] EXCEPT !.left = left] \in RequestType
  BY RequestTyped DEF RequestType
<1> QED
  BY <1>1, <1>2, RequestTyped

\* ... the one being looked at ...
LEMMA ItemTyped ==
    ASSUME DeviceTypeOK, NEW l \in Links, NEW d \in Devices
    PROVE  [request EXCEPT ![l].item = d] \in [Links -> RequestType]
<1>1. [request[l] EXCEPT !.item = d] \in RequestType
  BY RequestTyped DEF RequestType
<1> QED
  BY <1>1, RequestTyped

\* ... and whether it is known.
LEMMA AlreadyTyped ==
    ASSUME DeviceTypeOK, NEW l \in Links, NEW b \in BOOLEAN
    PROVE  [request EXCEPT ![l].already = b] \in [Links -> RequestType]
<1>1. [request[l] EXCEPT !.already = b] \in RequestType
  BY RequestTyped DEF RequestType
<1> QED
  BY <1>1, RequestTyped

\* A user's links are finitely many.
LEMMA InFinite == \A u \in Holders : IsFiniteSet(In(u)) /\ Cardinality(In(u)) \in Nat
<1>1. \A u : In(u) \subseteq Links
  BY DEF In
<1> QED
  BY <1>1, DevicesAssumption, FS_Subset, FS_CardinalityType

\* Nothing is counted where no link is in.
LEMMA NobodyIn ==
    ASSUME \A l \in Links : socket[l] # "in" PROVE \A u \in Holders : Cardinality(In(u)) = 0
<1>1. \A u \in Holders : In(u) = {}
  BY DEF In
<1> QED
  BY <1>1, FS_EmptySet

\* A step that leaves the counted links alone leaves the counts right.
LEMMA CountedSame ==
    ASSUME Counted, UNCHANGED onlineCount,
           \A l \in Links : socket'[l] = "in" <=> socket[l] = "in"
    PROVE  Counted'
<1>1. \A u \in Holders : In(u)' = In(u)
  BY DEF In, Holder
<1> QED
  BY <1>1 DEF Counted

\* mark_online counts one link more.
LEMMA CountedEnter ==
    ASSUME Counted, DeviceTypeOK, NEW l \in Links, socket[l] # "in",
           socket' = [socket EXCEPT ![l] = "in"],
           onlineCount' = [onlineCount EXCEPT ![Holder(l)] = @ + 1]
    PROVE  Counted'
<1>1. Holder(l) \in Holders
  BY DevicesAssumption DEF Holder
<1>2. In(Holder(l))' = In(Holder(l)) \cup {l} /\ l \notin In(Holder(l))
  BY DEF In, Holder, DeviceTypeOK
<1>3. Cardinality(In(Holder(l))') = Cardinality(In(Holder(l))) + 1
  BY <1>1, <1>2, InFinite, FS_AddElement
<1>4. \A u \in Holders : u # Holder(l) => In(u)' = In(u)
  BY DEF In, Holder, DeviceTypeOK
<1> QED
  BY <1>1, <1>3, <1>4 DEF Counted, DeviceTypeOK, Holder

\* mark_offline counts one link less.
LEMMA CountedClose ==
    ASSUME Counted, DeviceTypeOK, NEW l \in Links, socket[l] = "in",
           socket' = [socket EXCEPT ![l] = "closed"], MarkOffline(Holder(l))
    PROVE  Counted' /\ onlineCount' \in [Holders -> Nat]
<1>1. Holder(l) \in Holders
  BY DevicesAssumption DEF Holder
<1>2. In(Holder(l))' = In(Holder(l)) \ {l} /\ l \in In(Holder(l))
  BY DEF In, Holder, DeviceTypeOK
<1>3. Cardinality(In(Holder(l))') = Cardinality(In(Holder(l))) - 1
  BY <1>1, <1>2, InFinite, FS_RemoveElement
<1>4. \A u \in Holders : u # Holder(l) => In(u)' = In(u)
  BY DEF In, Holder, DeviceTypeOK
<1>5. Cardinality(In(Holder(l))') \in Nat
  <2>1. IsFiniteSet(In(Holder(l))')
    BY <1>1, <1>2, InFinite, FS_Subset
  <2> QED
    BY <2>1, FS_CardinalityType
<1>6. onlineCount' = [onlineCount EXCEPT ![Holder(l)] = @ - 1]
  BY DEF MarkOffline
<1>7. onlineCount'[Holder(l)] = Cardinality(In(Holder(l))')
  BY <1>1, <1>3, <1>6 DEF Counted, DeviceTypeOK
<1>8. \A u \in Holders : u # Holder(l) => onlineCount'[u] = onlineCount[u]
  BY <1>6 DEF DeviceTypeOK
<1>9. Counted'
  BY <1>1, <1>4, <1>7, <1>8 DEF Counted, Holder
<1> QED
  BY <1>1, <1>5, <1>6, <1>7, <1>9 DEF DeviceTypeOK

-----------------------------------------------------------------------------
\* At the start nobody is connected.
LEMMA DevicesInvInit == DeviceInit => DevicesInv
<1> SUFFICES ASSUME DeviceInit PROVE DevicesInv
  OBVIOUS
<1>1. DeviceTypeOK /\ ItemKnown /\ HelloOpen /\ LateOnce /\ Outlived
  BY DEF DeviceInit, DeviceTypeOK, ItemKnown, HelloOpen, LateOnce, Outlived, NoRequest
<1>2. Counted
  BY NobodyIn DEF DeviceInit, Counted
<1> QED
  BY <1>1, <1>2 DEF DevicesInv

\* A handshake and a join.
LEMMA HandshakeStep ==
    ASSUME DevicesInv, NEW l \in Links, HelloAndJoin(l) PROVE DevicesInv'
<1> USE DevicesAssumption DEF DevicesInv, Result, Goes, deviceHistory
<1>1. CASE Open(l)
  <2>1. (DeviceTypeOK /\ ItemKnown /\ HelloOpen /\ LateOnce /\ Outlived)'
    BY <1>1 DEF Open, DeviceTypeOK, ItemKnown, HelloOpen, LateOnce, Outlived, deviceTables
  <2>2. Counted'
    BY <1>1, CountedSame DEF Open, DeviceTypeOK
  <2> QED
    BY <2>1, <2>2
<1>2. CASE Lose(l)
  <2>1. (DeviceTypeOK /\ ItemKnown /\ HelloOpen /\ LateOnce /\ Outlived)'
    BY <1>2 DEF Lose, DeviceTypeOK, ItemKnown, HelloOpen, LateOnce, Outlived, deviceTables
  <2>2. Counted'
    BY <1>2, CountedSame DEF Lose
  <2> QED
    BY <2>1, <2>2
<1>3. CASE Close(l)
  <2>1. Counted' /\ onlineCount' \in [Holders -> Nat]
    <3>1. CASE socket[l] = "in"
      BY <1>3, <3>1, CountedClose DEF Close
    <3>2. CASE socket[l] # "in"
      BY <1>3, <3>2, CountedSame DEF Close, DeviceTypeOK
    <3> QED
      BY <3>1, <3>2
  <2>2. (DeviceTypeOK /\ ItemKnown /\ HelloOpen /\ LateOnce /\ Outlived)'
    BY <1>3, <2>1 DEF Close, DeviceTypeOK, ItemKnown, HelloOpen, LateOnce, Outlived, deviceTables
  <2> QED
    BY <2>1, <2>2
<1>4. CASE Hello(l)
  <2>1. (DeviceTypeOK /\ ItemKnown /\ HelloOpen /\ LateOnce /\ Outlived)'
    BY <1>4 DEF Hello, DeviceTypeOK, ItemKnown, HelloOpen, LateOnce, Outlived, deviceTables
  <2>2. Counted'
    BY <1>4, CountedSame DEF Hello
  <2> QED
    BY <2>1, <2>2
<1>5. CASE HelloKey(l)
  <2>1. (DeviceTypeOK /\ ItemKnown /\ HelloOpen /\ LateOnce /\ Outlived)'
    BY <1>5 DEF HelloKey, DeviceTypeOK, ItemKnown, HelloOpen, LateOnce, Outlived, client
  <2>2. Counted'
    BY <1>5, CountedSame DEF HelloKey
  <2> QED
    BY <2>1, <2>2
<1>6. CASE HelloEnter(l)
  <2>1. Counted'
    BY <1>6, CountedEnter DEF HelloEnter, HelloOpen
  <2>2. DeviceTypeOK'
    BY <1>6 DEF HelloEnter, DeviceTypeOK, CountLate, Holder, deviceTables, client
  <2>3. (ItemKnown /\ HelloOpen)'
    BY <1>6 DEF HelloEnter, DeviceTypeOK, ItemKnown, HelloOpen
  <2>4. (LateOnce /\ Outlived)'
    BY <1>6 DEF HelloEnter, DeviceTypeOK, LateOnce, Outlived, CountLate, deviceTables
  <2> QED
    BY <2>1, <2>2, <2>3, <2>4
<1>7. CASE HelloMember(l)
  <2>1. (DeviceTypeOK /\ ItemKnown /\ HelloOpen /\ LateOnce /\ Outlived)'
    BY <1>7 DEF HelloMember, Reply, NoRequest, DeviceTypeOK, ItemKnown, HelloOpen, LateOnce, Outlived, deviceTables
  <2>2. Counted'
    BY <1>7, CountedSame DEF HelloMember
  <2> QED
    BY <2>1, <2>2
<1>8. CASE JoinServer(l)
  <2>1. (DeviceTypeOK /\ ItemKnown /\ HelloOpen /\ LateOnce /\ Outlived)'
    <3>1. Holder(l) \in Holders
      BY DEF Holder
    <3>2. /\ UNCHANGED <<listed, revoked, onlineCount, socket, at, request, proofs, inbox, deviceHistory>>
          /\ \/ master' = [master EXCEPT ![Holder(l)] = IF @ = "none" THEN "keyed" ELSE @]
             \/ UNCHANGED master
          /\ \/ UNCHANGED stage
             \/ stage' = [stage EXCEPT ![l] = "register"]
             \/ stage' = [stage EXCEPT ![l] = "pending"]
      BY <1>8 DEF JoinServer
    <3>3. master' \in [Holders -> {"none", "keyless", "keyed"}]
      BY <3>1, <3>2 DEF DeviceTypeOK
    <3>4. stage' \in [Links -> {"closed", "lost", "failed", "hello", "refused", "join", "pending",
                               "register", "done"}]
      BY <3>2 DEF DeviceTypeOK
    <3> QED
      BY <3>2, <3>3, <3>4 DEF DeviceTypeOK, ItemKnown, HelloOpen, LateOnce, Outlived
  <2>2. Counted'
    BY <1>8, CountedSame DEF JoinServer
  <2> QED
    BY <2>1, <2>2
<1> QED
  BY <1>1, <1>2, <1>3, <1>4, <1>5, <1>6, <1>7, <1>8 DEF HelloAndJoin

\* A registration and its proofs: no link is counted or given up.
LEMMA RegistrationStep ==
    ASSUME DevicesInv, NEW l \in Links, Registration(l) PROVE DevicesInv'
<1> USE DevicesAssumption DEF DevicesInv, Result, Goes, deviceHistory
<1>0. Counted'
  BY CountedSame DEF Registration, RegisterCheck, RegisterUpsert, ProofOwner, ProofKnown,
                     ProofAdd, ProofsDone
<1>1. CASE RegisterCheck(l)
  <2>1. request' \in [Links -> RequestType]
    <3>1. \/ UNCHANGED request
          \/ request' = [request EXCEPT ![l].left = proofs[DeviceOf[l]]]
      BY <1>1 DEF RegisterCheck
    <3>2. proofs[DeviceOf[l]] \in SUBSET Devices
      BY DEF DeviceTypeOK
    <3>3. [request EXCEPT ![l].left = proofs[DeviceOf[l]]] \in [Links -> RequestType]
      BY <3>2, LeftTyped
    <3> QED
      BY <3>1, <3>3, RequestTyped
  <2>2. DeviceTypeOK'
    BY <1>1, <2>1 DEF RegisterCheck, DeviceTypeOK, RequestType, deviceTables
  <2>3. ItemKnown'
    <3>1. at'[l] \in {"upsert", "idle"}
      BY <1>1 DEF RegisterCheck, DeviceTypeOK
    <3>2. \A m \in Links : m # l => request'[m] = request[m] /\ at'[m] = at[m]
      BY <1>1 DEF RegisterCheck, DeviceTypeOK
    <3> QED
      BY <3>1, <3>2 DEF ItemKnown
  <2>4. (HelloOpen /\ LateOnce /\ Outlived)'
    BY <1>1 DEF RegisterCheck, DeviceTypeOK, HelloOpen, LateOnce, Outlived, deviceTables
  <2> QED
    BY <1>0, <2>2, <2>3, <2>4
<1>2. CASE RegisterUpsert(l)
  <2>1. DeviceTypeOK'
    BY <1>2 DEF RegisterUpsert, DeviceTypeOK, CountLate, client
  <2>2. (ItemKnown /\ HelloOpen)'
    BY <1>2 DEF RegisterUpsert, DeviceTypeOK, ItemKnown, HelloOpen
  <2>3. (LateOnce /\ Outlived)'
    BY <1>2 DEF RegisterUpsert, DeviceTypeOK, LateOnce, Outlived, CountLate
  <2> QED
    BY <1>0, <2>1, <2>2, <2>3
<1>3. CASE ProofOwner(l)
  <2>1. request' \in [Links -> RequestType]
    <3>1. request[l].left \in SUBSET Devices
      BY RequestTyped
    <3>2. PICK d \in request[l].left : \/ request' = [request EXCEPT ![l].item = d]
                                    \/ request' = [request EXCEPT ![l].left = request[l].left \ {d}]
      BY <1>3 DEF ProofOwner
    <3>3. [request EXCEPT ![l].item = d] \in [Links -> RequestType]
      BY <3>1, ItemTyped
    <3>4. [request EXCEPT ![l].left = request[l].left \ {d}] \in [Links -> RequestType]
      BY <3>1, LeftTyped
    <3> QED
      BY <3>2, <3>3, <3>4
  <2>2. DeviceTypeOK'
    BY <1>3, <2>1 DEF ProofOwner, DeviceTypeOK, RequestType, deviceTables, client
  <2>3. ItemKnown'
    <3>1. PICK d \in request[l].left :
              \/ request' = [request EXCEPT ![l].item = d] /\ at' = [at EXCEPT ![l] = "known"]
              \/ request' = [request EXCEPT ![l].left = @ \ {d}] /\ at'[l] = "proofs" /\ UNCHANGED at
      BY <1>3 DEF ProofOwner
    <3>2. at'[l] = "known" => request'[l].item \in Devices
      <4>1. d \in Devices /\ [request[l] EXCEPT !.item = d].item = d
        BY RequestTyped DEF RequestType
      <4> QED
        BY <3>1, <4>1, RequestTyped
    <3>3. \A m \in Links : m # l => request'[m] = request[m] /\ at'[m] = at[m]
      BY <3>1, RequestTyped DEF DeviceTypeOK
    <3>4. at'[l] \in {"known", "proofs"}
      BY <3>1 DEF DeviceTypeOK
    <3> QED
      BY <3>2, <3>3, <3>4 DEF ItemKnown
  <2>4. (HelloOpen /\ LateOnce /\ Outlived)'
    BY <1>3 DEF ProofOwner, DeviceTypeOK, HelloOpen, LateOnce, Outlived, deviceTables, client
  <2> QED
    BY <1>0, <2>2, <2>3, <2>4
<1>4. CASE ProofKnown(l)
  <2>1. request' \in [Links -> RequestType]
    <3> DEFINE b == request[l].item \in revoked
    <3>1. b \in BOOLEAN
      OBVIOUS
    <3> HIDE DEF b
    <3>2. [request EXCEPT ![l].already = b] \in [Links -> RequestType]
      BY <3>1, AlreadyTyped
    <3> QED
      BY <1>4, <3>2 DEF ProofKnown, b
  <2>2. DeviceTypeOK'
    BY <1>4, <2>1 DEF ProofKnown, DeviceTypeOK, RequestType, deviceTables, client
  <2>3. (ItemKnown /\ HelloOpen /\ LateOnce /\ Outlived)'
    BY <1>4 DEF ProofKnown, DeviceTypeOK, ItemKnown, HelloOpen, LateOnce, Outlived, deviceTables, client
  <2> QED
    BY <1>0, <2>2, <2>3
<1>5. CASE ProofAdd(l)
  <2>1. DeviceTypeOK'
    <3>1. request' \in [Links -> RequestType] /\ request[l].item \in Devices
      <4>1. request[l].left \ {request[l].item} \in SUBSET Devices
        BY RequestTyped
      <4> QED
        BY <1>5, <4>1, LeftTyped DEF ProofAdd, ItemKnown
    <3>2. inbox' \in [Links -> SUBSET Devices]
      <4>1. UNCHANGED inbox \/ Tell(request[l].item)
        BY <1>5 DEF ProofAdd
      <4> QED
        BY <3>1, <4>1 DEF Tell, DeviceTypeOK
    <3> QED
      BY <1>5, <3>1, <3>2 DEF ProofAdd, AddRevocation, Accepted, DeviceTypeOK, RequestType, client
  <2>2. (ItemKnown /\ HelloOpen)'
    BY <1>5 DEF ProofAdd, DeviceTypeOK, ItemKnown, HelloOpen, NoRequest
  <2>3. (LateOnce /\ Outlived)'
    BY <1>5 DEF ProofAdd, AddRevocation, Accepted, DeviceTypeOK, LateOnce, Outlived
  <2> QED
    BY <1>0, <2>1, <2>2, <2>3
<1>6. CASE ProofsDone(l)
  BY <1>0, <1>6 DEF ProofsDone, Reply, NoRequest, DeviceTypeOK, ItemKnown, HelloOpen, LateOnce, Outlived, deviceTables
<1> QED
  BY <1>1, <1>2, <1>3, <1>4, <1>5, <1>6 DEF Registration

\* A revocation and what clients hear of it.
LEMMA RevocationStep ==
    ASSUME DevicesInv, NEW l \in Links, Revocation(l) PROVE DevicesInv'
<1> USE DevicesAssumption DEF DevicesInv, Goes, deviceHistory
<1>0. Counted'
  BY CountedSame DEF Revocation, Revoke, RevokeAdd, RevokeRemove, Hear
<1>1. ASSUME NEW d \in Devices, Revoke(l, d) PROVE DevicesInv'
  <2>1. DeviceTypeOK'
    <3>1. request' \in [Links -> RequestType]
      BY <1>1, RequestTyped, ItemTyped DEF Revoke
    <3>2. proofs' \in [Devices -> SUBSET Devices]
      BY <1>1 DEF Revoke, DeviceTypeOK
    <3> QED
      BY <1>1, <3>1, <3>2 DEF Revoke, DeviceTypeOK, RequestType, deviceTables
  <2>2. (ItemKnown /\ HelloOpen /\ LateOnce /\ Outlived)'
    BY <1>1 DEF Revoke, DeviceTypeOK, ItemKnown, HelloOpen, LateOnce, Outlived, deviceTables
  <2> QED
    BY <1>0, <2>1, <2>2
<1>2. CASE RevokeAdd(l)
  BY <1>0, <1>2 DEF RevokeAdd, AddRevocation, Accepted, DeviceTypeOK, ItemKnown, HelloOpen, LateOnce, Outlived, client
<1>3. CASE RevokeRemove(l)
  <2>1. DeviceTypeOK'
    BY <1>3 DEF RevokeRemove, Tell, NoRequest, DeviceTypeOK, ItemKnown, client
  <2>2. (ItemKnown /\ HelloOpen /\ LateOnce /\ Outlived)'
    BY <1>3 DEF RevokeRemove, DeviceTypeOK, ItemKnown, HelloOpen, LateOnce, Outlived
  <2> QED
    BY <1>0, <2>1, <2>2
<1>4. CASE Hear(l)
  BY <1>0, <1>4 DEF Hear, DeviceTypeOK, ItemKnown, HelloOpen, LateOnce, Outlived, deviceTables
<1> QED
  BY <1>1, <1>2, <1>3, <1>4 DEF Revocation

\* Failures and the environment.
LEMMA OtherStep ==
    ASSUME DevicesInv,
           \/ \E c, d \in Devices : Learn(c, d)
           \/ \E u \in Holders : Leave(u)
           \/ \E l \in Links : DeviceFails(l)
           \/ DeviceRestart
           \/ UNCHANGED deviceVars
    PROVE  DevicesInv'
<1> USE DevicesAssumption DEF DevicesInv, deviceHistory
<1>1. ASSUME NEW c \in Devices, NEW d \in Devices, Learn(c, d) PROVE DevicesInv'
  BY <1>1, CountedSame DEF Learn, DeviceTypeOK, ItemKnown, HelloOpen, LateOnce, Outlived, deviceTables
<1>2. ASSUME NEW u \in Holders, Leave(u) PROVE DevicesInv'
  BY <1>2, CountedSame DEF Leave, DeviceTypeOK, ItemKnown, HelloOpen, LateOnce, Outlived, client
<1>3. ASSUME NEW l \in Links, DeviceFails(l) PROVE DevicesInv'
  <2>1. Counted'
    BY <1>3, CountedSame DEF DeviceFails
  <2>2. DeviceTypeOK'
    <3>1. request' \in [Links -> RequestType]
      <4>1. \A d \in Devices : request[l].left \ {d} \in SUBSET Devices
        BY RequestTyped
      <4> QED
        <5>1. CASE \E d \in request[l].left : request' = [request EXCEPT ![l].left = request[l].left \ {d}]
          <6>1. PICK d \in request[l].left : request' = [request EXCEPT ![l].left = request[l].left \ {d}]
            BY <5>1
          <6>2. d \in Devices
            BY <6>1, RequestTyped
          <6> QED
            BY <4>1, <6>1, <6>2, LeftTyped
        <5>2. CASE UNCHANGED request \/ request' = [request EXCEPT ![l] = NoRequest]
          BY <5>2, RequestTyped
        <5> QED
          BY <1>3, <5>1, <5>2 DEF DeviceFails, Reply
    <3>2. \/ UNCHANGED stage
          \/ stage' = [stage EXCEPT ![l] = "failed"]
          \/ stage' = [stage EXCEPT ![l] = "done"]
      BY <1>3 DEF DeviceFails, Reply, Result
    <3>3. at' \in [Links -> {"idle", "key", "enter", "member", "upsert", "proofs", "known",
                            "add", "revoke", "remove"}]
      BY <1>3 DEF DeviceFails, Reply, Goes, DeviceTypeOK
    <3>4. stage' \in [Links -> {"closed", "lost", "failed", "hello", "refused", "join", "pending",
                               "register", "done"}]
      BY <3>2 DEF DeviceTypeOK
    <3>5. UNCHANGED <<deviceTables, onlineCount, socket, proofs, inbox, deviceHistory>>
      BY <1>3 DEF DeviceFails
    <3> QED
      BY <3>1, <3>3, <3>4, <3>5 DEF DeviceTypeOK, RequestType, deviceTables
  <2>3. (HelloOpen /\ LateOnce /\ Outlived)'
    BY <1>3 DEF DeviceFails, Reply, Goes, DeviceTypeOK, HelloOpen, LateOnce, Outlived, deviceTables
  <2>4. ItemKnown'
    BY <1>3 DEF DeviceFails, Reply, Goes, NoRequest, DeviceTypeOK, ItemKnown
  <2> QED
    BY <2>1, <2>2, <2>3, <2>4
<1>4. CASE DeviceRestart
  <2>1. (DeviceTypeOK /\ ItemKnown /\ HelloOpen /\ LateOnce /\ Outlived)'
    BY <1>4 DEF DeviceRestart, NoRequest, DeviceTypeOK, ItemKnown, HelloOpen, LateOnce, Outlived, deviceTables
  <2>2. \A u \in Holders : In(u)' = {}
    BY <1>4 DEF DeviceRestart, In
  <2>3. Counted'
    BY <1>4, <2>2, FS_EmptySet DEF DeviceRestart, Counted
  <2> QED
    BY <2>1, <2>3
<1>5. CASE UNCHANGED deviceVars
  BY <1>5, CountedSame DEF deviceVars, deviceTables, client, DeviceTypeOK, ItemKnown, HelloOpen, LateOnce, Outlived
<1> QED
  BY <1>1, <1>2, <1>3, <1>4, <1>5

\* Every reachable state satisfies the invariant.
LEMMA DevicesAlways == DeviceSpec => []DevicesInv
<1>1. DevicesInv /\ [DeviceNext]_deviceVars => DevicesInv'
  BY HandshakeStep, RegistrationStep, RevocationStep, OtherStep DEF DeviceNext, DeviceServe
<1> QED
  BY <1>1, DevicesInvInit, PTL DEF DeviceSpec

-----------------------------------------------------------------------------
\* No session of a revoked device starts after its revocation: it is in only where
\* it was in or past the check then, and enters or is listed at most once more on
\* each link (handle_hello, handle_register_device), for any members, devices and
\* links.
THEOREM RevocationsHold == DeviceSpec => []OnlyOldSessionsRemain
<1>1. DevicesInv => OnlyOldSessionsRemain
  BY DEF DevicesInv, LateOnce, Outlived, OnlyOldSessionsRemain
<1> QED
  BY <1>1, DevicesAlways, PTL

\* The online count of each member is the number of his connections that are in
\* (mark_online, mark_offline), for any members, devices and links.
THEOREM PresenceIsExact == DeviceSpec => []PresenceExact
<1>1. DevicesInv => PresenceExact
  BY DEF DevicesInv, Counted, In, PresenceExact
<1> QED
  BY <1>1, DevicesAlways, PTL
=============================================================================
