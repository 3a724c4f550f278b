------------------------------- MODULE PreKeys -------------------------------
(***************************************************************************)
(* The pre-keys of one user on a chat server (server/src/ws.rs,            *)
(* storage.rs): a bundle of one-time keys is uploaded in place of the one  *)
(* before, and every peer that opens an encrypted session is to get a key  *)
(* of its own.  Neither operation is a transaction; a statement is a step. *)
(* What the keys are made of, and how X3DH uses them, is in Ratchet.       *)
(***************************************************************************)
EXTENDS Naturals, FiniteSets

CONSTANTS
    OneTimeKeys,  \* one-time pre-keys; rows of the table
    BundleOf,     \* [Bundles -> SUBSET OneTimeKeys]
    Bundles,      \* requests to upload; the client makes fresh keys for each
    Fetches       \* requests to fetch, each by another peer

NoOneTime == "none"

ASSUME PreKeysAssumption ==
    /\ Bundles \cap Fetches = {}
    /\ NoOneTime \notin OneTimeKeys
    /\ BundleOf \in [Bundles -> SUBSET OneTimeKeys]
    /\ \A b, c \in Bundles : b # c => BundleOf[b] \cap BundleOf[c] = {}

VARIABLES
    preKeys,    \* the table `pre_keys`: the one_time_pre_keys of the user
    phase,      \* per request the next statement
    rest,       \* per upload the keys to insert
    taken,      \* per fetch the key of the row it selected
    given,      \* per fetch the key it answered with
    met         \* history: per fetch the fetches that held its key with it

preKeyVars == <<preKeys, phase, rest, taken, given, met>>

Continues(q, next) == phase' = [phase EXCEPT ![q] = next]

-----------------------------------------------------------------------------
(* upload_pre_keys *)

\* DELETE ...
UploadDelete(b) ==
    /\ phase[b] = "new"
    /\ preKeys' = {}
    /\ Continues(b, "insert")
    /\ UNCHANGED <<rest, taken, given, met>>

\* ... and an INSERT for each key.
UploadKey(b) ==
    /\ phase[b] = "insert"
    /\ \/ \E k \in rest[b] : /\ preKeys' = preKeys \cup {k}
                             /\ rest' = [rest EXCEPT ![b] = @ \ {k}]
                             /\ UNCHANGED phase
       \/ rest[b] = {} /\ Continues(b, "answered") /\ UNCHANGED <<preKeys, rest>>
    /\ UNCHANGED <<taken, given, met>>

-----------------------------------------------------------------------------
(* fetch_pre_keys *)

\* SELECT any row ...
FetchSelect(f) ==
    /\ phase[f] = "new"
    /\ \/ preKeys = {} /\ Continues(f, "answered") /\ UNCHANGED <<taken, met>>
       \/ \E k \in preKeys :
              LET holders == {g \in Fetches : phase[g] = "delete" /\ taken[g] = k}
              IN  /\ taken' = [taken EXCEPT ![f] = k]
                  /\ met' = [g \in Fetches |-> IF g = f THEN holders
                                               ELSE IF g \in holders THEN met[g] \cup {f}
                                               ELSE met[g]]
                  /\ Continues(f, "delete")
    /\ UNCHANGED <<preKeys, rest, given>>

\* Mutant of FetchDelete: the key stays.
FetchKeeps(f) ==
    /\ phase[f] = "delete"
    /\ given' = [given EXCEPT ![f] = taken[f]]
    /\ Continues(f, "answered")
    /\ UNCHANGED <<preKeys, rest, taken, met>>

\* ... DELETE it and answer.
FetchDelete(f) ==
    /\ phase[f] = "delete"
    /\ preKeys' = preKeys \ {taken[f]}
    /\ given' = [given EXCEPT ![f] = taken[f]]
    /\ Continues(f, "answered")
    /\ UNCHANGED <<rest, taken, met>>

-----------------------------------------------------------------------------
(* Specification *)

\* A statement fails or the server restarts; the peer gets no key.
PreKeysFail(q) ==
    /\ phase[q] # "answered"
    /\ Continues(q, "answered")
    /\ UNCHANGED <<preKeys, rest, taken, given, met>>

PreKeysInit ==
    /\ preKeys = {}
    /\ phase = [q \in Bundles \cup Fetches |-> "new"]
    /\ rest = BundleOf
    /\ taken = [f \in Fetches |-> NoOneTime]
    /\ given = [f \in Fetches |-> NoOneTime]
    /\ met = [f \in Fetches |-> {}]

PreKeysNext ==
    \/ \E b \in Bundles : UploadDelete(b) \/ UploadKey(b)
    \/ \E f \in Fetches : FetchSelect(f) \/ FetchDelete(f)
    \/ \E q \in Bundles \cup Fetches : PreKeysFail(q)

PreKeysSpec == PreKeysInit /\ [][PreKeysNext]_preKeyVars

-----------------------------------------------------------------------------
(* Properties *)

\* Types.
PreKeysTypeOK ==
    /\ preKeys \subseteq OneTimeKeys
    /\ phase \in [Bundles \cup Fetches -> {"new", "insert", "delete", "answered"}]
    /\ rest \in [Bundles -> SUBSET OneTimeKeys]
    /\ taken \in [Fetches -> OneTimeKeys \cup {NoOneTime}]
    /\ given \in [Fetches -> OneTimeKeys \cup {NoOneTime}]
    /\ met \in [Fetches -> SUBSET Fetches]

\* A one-time key is given to two peers only when both held it at once, between
\* the SELECT and the DELETE of fetch_pre_keys; no failure, no other upload and
\* no third peer brings a key back that was given.
SharedOnlyByRace ==
    \A f, g \in Fetches :
        f # g /\ given[f] = given[g] /\ given[f] # NoOneTime => f \in met[g] /\ g \in met[f]
=============================================================================
