------------------------------- MODULE Ratchet -------------------------------
(***************************************************************************)
(* An encrypted conversation of two users: X3DH (core/src/x3dh.rs), the    *)
(* double ratchet (core/src/ratchet.rs) and the session around it          *)
(* (client/rust/src/api/mod.rs, client/lib/src/services/e2ee_service.dart) *)
(* over a network that loses, repeats and reorders ciphertexts.            *)
(*                                                                         *)
(* Keys are terms.  A key pair is <<owner, use, number>>, a Diffie-Hellman *)
(* output the set of the two key pairs, a root key the sequence of outputs *)
(* that were mixed into it, and a chain key a root key with the number of  *)
(* steps taken from it; the message key that a chain key yields is written *)
(* as the chain key itself.  So two keys are equal just if the functions   *)
(* of the code are given equal inputs, and a ciphertext opens with the key *)
(* that sealed it.                                                         *)
(*                                                                         *)
(* Plaintexts, nonces and the byte format of headers and of the stored     *)
(* state are left out, and so are the header counters' 32 bits.            *)
(***************************************************************************)
EXTENDS Integers, FiniteSets, Sequences

CONSTANTS
    MaxSkip,   \* MAX_SKIP: message keys skipped at a time (200)
    MaxKeys,   \* bound: ratchet key pairs of a user
    MaxSend    \* bound: messages of a sending chain

ASSUME RatchetAssumption ==
    /\ MaxSkip \in Nat
    /\ MaxKeys \in Nat \ {0}
    /\ MaxSend \in Nat \ {0}

VARIABLES
    session,   \* per user its RatchetState
    sent,      \* every ciphertext ever sent: any may arrive at any time
    read       \* history: per user the ciphertexts it decrypted

sessionVars == <<session, sent, read>>

-----------------------------------------------------------------------------
(* Keys *)

\* The initiator of the session and its responder.
Peers == {"alice", "bob"}

Peer(p) == IF p = "alice" THEN "bob" ELSE "alice"

NoKey == <<"nobody", "none", 0>>

\* X25519Keypair::dh is symmetric.
DH(a, b) == {a, b}

\* x3dh_initiator and x3dh_responder.
X3dhInitiator(ik, ek, peerIk, peerSpk, peerOpk) ==
    <<DH(ik, peerSpk), DH(ek, peerIk), DH(ek, peerSpk)>>
        \o (IF peerOpk = NoKey THEN <<>> ELSE <<DH(ek, peerOpk)>>)

X3dhResponder(ik, spk, opk, peerIk, peerEk) ==
    <<DH(spk, peerIk), DH(ik, peerEk), DH(spk, peerEk)>>
        \o (IF opk = NoKey THEN <<>> ELSE <<DH(opk, peerEk)>>)

\* kdf_rk: the new root key, and the chain key that goes with it.
KdfRk(root, dh) == Append(root, dh)

Chain(root) == [root |-> root, at |-> 0]

NoChain == Chain(<<>>)

\* kdf_ck, n times.
Advance(ck, n) == [ck EXCEPT !.at = @ + n]

\* X25519Keypair::generate for a user whose key pair is dh.
Fresh(dh) == <<dh[1], "ratchet", dh[3] + 1>>

-----------------------------------------------------------------------------
(* RatchetState *)

RatchetInit(root, dh) ==
    [dh |-> dh, peer |-> NoKey, root |-> root, send |-> NoChain, recv |-> NoChain,
     sendN |-> 0, sendPn |-> 0, recvN |-> 0, skipped |-> {}]

\* initiator_setup.
InitiatorSetup(st, spk) ==
    LET root == KdfRk(st.root, DH(Fresh(st.dh), spk))
    IN  [st EXCEPT !.peer = spk, !.dh = Fresh(st.dh), !.root = root, !.send = Chain(root)]

\* Mutant of Skip: the keys are skipped but not kept.
SkipDrops(st, until) ==
    IF st.recv = NoChain \/ until <= st.recvN THEN {st}
    ELSE IF st.recvN + MaxSkip < until THEN {}
    ELSE {[st EXCEPT !.recv = Advance(@, until - st.recvN), !.recvN = until]}

\* skip_message_keys: keep the keys of the receiving chain below `until` for
\* messages that come later.  The set of outcomes is empty where the code fails.
Skip(st, until) ==
    LET kept == {[dh |-> st.peer, n |-> n, key |-> Advance(st.recv, n - st.recvN)] :
                    n \in st.recvN..(until - 1)}
    IN  IF st.recv = NoChain \/ until <= st.recvN THEN {st}
        ELSE IF st.recvN + MaxSkip < until THEN {}
        ELSE {[st EXCEPT
                  !.skipped = kept \cup {k \in @ : \A j \in kept : <<k.dh, k.n>> # <<j.dh, j.n>>},
                  !.recv = Advance(@, until - st.recvN),
                  !.recvN = until]}

\* dh_ratchet: on the first message under a new key of the peer, a new receiving
\* chain, and a new sending chain under a new key of one's own.
DhRatchet(st, c) ==
    {LET recvRoot == KdfRk(s.root, DH(s.dh, c.dh))
         dh       == Fresh(s.dh)
         sendRoot == KdfRk(recvRoot, DH(dh, c.dh))
     IN  [s EXCEPT !.peer = c.dh, !.recv = Chain(recvRoot), !.recvN = 0,
                   !.dh = dh, !.root = sendRoot, !.send = Chain(sendRoot),
                   !.sendN = 0, !.sendPn = c.pn] :
     s \in Skip(st, c.pn)}

\* A message whose key was skipped.
FromSkipped(st, c) ==
    {[st EXCEPT !.skipped = @ \ {k}] :
        k \in {j \in st.skipped : j.dh = c.dh /\ j.n = c.n /\ j.key = c.key}}

\* A message further down the receiving chain.
FromChain(st, c) ==
    {[s EXCEPT !.recv = Advance(@, 1), !.recvN = c.n + 1] :
        s \in {r \in Skip(st, c.n) : r.recv # NoChain /\ r.recv = c.key}}

Cached(st, c) == \E k \in st.skipped : k.dh = c.dh /\ k.n = c.n

\* Mutant of Decrypt: a key that was skipped stays after its use.
DecryptKeeps(st, c) ==
    IF Cached(st, c) THEN {st : k \in {j \in st.skipped : j.key = c.key}}
    ELSE IF c.dh # st.peer THEN UNION {FromChain(s, c) : s \in DhRatchet(st, c)}
    ELSE IF c.n < st.recvN THEN {}
    ELSE FromChain(st, c)

\* decrypt.  Where it fails, or the key is not the one that sealed the message, it
\* returns an error, and what it changed by then is dropped: e2ee_session_decrypt
\* works on a copy of the session, which stays as it was.
Decrypt(st, c) ==
    IF Cached(st, c) THEN FromSkipped(st, c)
    ELSE IF c.dh # st.peer THEN UNION {FromChain(s, c) : s \in DhRatchet(st, c)}
    ELSE IF c.n < st.recvN THEN {}
    ELSE FromChain(st, c)

-----------------------------------------------------------------------------
(* The conversation *)

\* establishSession of alice with bob's pre-keys, acceptSession of bob.
SessionInit ==
    \E opk \in {NoKey, <<"bob", "opk", 0>>} :
        LET aliceIk == <<"alice", "ik", 0>>
            aliceEk == <<"alice", "ek", 0>>
            bobIk   == <<"bob", "ik", 0>>
            bobSpk  == <<"bob", "spk", 0>>
        IN  /\ session = [p \in Peers |->
                   IF p = "alice"
                   THEN InitiatorSetup(RatchetInit(
                            X3dhInitiator(aliceIk, aliceEk, bobIk, bobSpk, opk), aliceEk), bobSpk)
                   ELSE RatchetInit(X3dhResponder(bobIk, bobSpk, opk, aliceIk, aliceEk), bobSpk)]
            /\ sent = {}
            /\ read = [p \in Peers |-> {}]

\* Mutant of Send: the chain stays where it is.
SendSameKey(p) ==
    LET st == session[p]
    IN  /\ st.send # NoChain
        /\ st.sendN < MaxSend
        /\ sent' = sent \cup {[from |-> p, dh |-> st.dh, pn |-> st.sendPn, n |-> st.sendN,
                               key |-> st.send]}
        /\ session' = [session EXCEPT ![p].sendN = @ + 1]
        /\ UNCHANGED read

\* encrypt.
Send(p) ==
    LET st == session[p]
    IN  /\ st.send # NoChain
        /\ st.sendN < MaxSend
        /\ sent' = sent \cup {[from |-> p, dh |-> st.dh, pn |-> st.sendPn, n |-> st.sendN,
                               key |-> st.send]}
        /\ session' = [session EXCEPT ![p].send = Advance(@, 1), ![p].sendN = @ + 1]
        /\ UNCHANGED read

\* A ciphertext arrives, for the first time or again.
Receive(p, c) ==
    /\ c.from = Peer(p)
    /\ \/ Decrypt(session[p], c) = {} /\ UNCHANGED sessionVars
       \/ \E st \in Decrypt(session[p], c) :
              /\ st.dh[3] <= MaxKeys
              /\ session' = [session EXCEPT ![p] = st]
              /\ read' = [read EXCEPT ![p] = @ \cup {c}]
              /\ UNCHANGED sent

SessionNext == \E p \in Peers : Send(p) \/ \E c \in sent : Receive(p, c)

SessionSpec == SessionInit /\ [][SessionNext]_sessionVars

-----------------------------------------------------------------------------
(* Properties *)

Keypair == (Peers \cup {"nobody"}) \X {"ik", "ek", "spk", "opk", "ratchet", "none"} \X (0..MaxKeys)

\* A chain stands where its counter says.
SessionOK(st) ==
    /\ st.dh \in Keypair /\ st.peer \in Keypair
    /\ st.send.at = st.sendN /\ st.recv.at = st.recvN
    /\ st.sendN \in 0..MaxSend /\ st.recvN \in 0..MaxSend /\ st.sendPn \in Nat
    /\ \A k \in st.skipped : k.dh \in Keypair /\ k.n \in 0..MaxSend /\ k.key.at = k.n
    /\ \A j, k \in st.skipped : j.dh = k.dh /\ j.n = k.n => j = k

SessionTypeOK ==
    /\ DOMAIN session = Peers
    /\ \A p \in Peers : SessionOK(session[p])
    /\ \A c \in sent : c.from \in Peers /\ c.dh \in Keypair /\ c.n \in 0..MaxSend
                       /\ c.pn \in Nat /\ c.key.at = c.n
    /\ read \in [Peers -> SUBSET sent]

\* Every message is sealed with a key of its own, over both users and all chains.
KeysFresh == \A c, d \in sent : c.key = d.key => c = d

\* Forward secrecy: a user who has read a message holds neither its key nor a
\* chain key from which it follows, whatever order messages came in.
ReadKeysGone ==
    \A p \in Peers : \A c \in read[p] :
        /\ \A k \in session[p].skipped : k.key # c.key
        /\ session[p].recv.root = c.key.root => session[p].recv.at > c.key.at

\* A message is read once: no repetition opens again, in the same chain or in a
\* later one, where the repetition's old key makes the session ratchet.
ReplayRejected == \A p \in Peers : \A c \in read[p] : Decrypt(session[p], c) = {}

\* What was read is neither derivable nor readable again.
ReadOnce == ReadKeysGone /\ ReplayRejected

\* What has not been overtaken by a later chain can be read, in any order and
\* whatever else was lost or repeated, up to a gap of MaxSkip.
InOrderReadable ==
    \A p \in Peers : \A c \in sent \ read[p] :
        /\ c.from = Peer(p)
        /\ \/ c.dh = session[p].peer /\ c.n <= session[p].recvN + MaxSkip
           \/ c.dh = session[c.from].dh /\ c.dh # session[p].peer /\ c.n <= MaxSkip
        => Decrypt(session[p], c) # {}

\* What the code says of itself and a run refutes.
\* Messages of an earlier chain that come late can be read too, because the
\* header tells how long the chain was and their keys are kept.
LateReadable ==
    \A p \in Peers : \A c \in sent \ read[p] :
        c.from = Peer(p) => Decrypt(session[p], c) # {}
=============================================================================
