---------------------------- MODULE RatchetProofs ----------------------------
(***************************************************************************)
(* Ratchet for any number of chains, messages and skipped keys: keys are   *)
(* never reused, what was read is not readable again, and what is of a     *)
(* present chain is readable.                                              *)
(***************************************************************************)
EXTENDS Ratchet, SequenceTheorems, TLAPS

Key == (Peers \cup {"nobody"}) \X {"ik", "ek", "spk", "opk", "ratchet", "none"} \X Nat

Root == Seq(SUBSET Key)

ChainKey == [root : Root, at : Nat]

Cipher == [from : Peers, dh : Key, pn : Nat, n : Nat, key : ChainKey]

Session ==
    [dh : Key, peer : Key, root : Root, send : ChainKey, recv : ChainKey,
     sendN : Nat, sendPn : Nat, recvN : Nat, skipped : SUBSET [dh : Key, n : Nat, key : ChainKey]]

StateType == session \in [Peers -> Session] /\ sent \subseteq Cipher

\* The key pair of the peer that a user's pair was first mixed with: alice's n-th
\* answers bob's last one before it, bob's n-th answers alice's n-th.
Opposite(p, dh) ==
    IF p = "bob" THEN <<"alice", "ratchet", dh[3]>>
    ELSE IF dh[3] = 1 THEN <<"bob", "spk", 0>>
    ELSE <<"bob", "ratchet", dh[3] - 1>>

\* A sending chain of p under key pair dh ends in that pair and its opposite.
Sealed(p, dh, ck) ==
    /\ dh[1] = p /\ dh[2] = "ratchet" /\ dh[3] >= 1
    /\ Len(ck.root) > 0
    /\ ck.root[Len(ck.root)] = {dh, Opposite(p, dh)}

ChainsOK ==
    \A p \in Peers :
        /\ session[p].dh[1] = p
        /\ session[p].send = NoChain \/ Sealed(p, session[p].dh, session[p].send)
        /\ session[p].send.at = session[p].sendN

SentOK ==
    \A c \in sent :
        /\ Sealed(c.from, c.dh, c.key) /\ c.key.at = c.n
        /\ c.dh[3] <= session[c.from].dh[3]
        /\ c.dh = session[c.from].dh => c.n < session[c.from].sendN

Distinct == \A c, d \in sent : c.from = d.from /\ c.dh = d.dh /\ c.n = d.n => c = d

IInv == StateType /\ ChainsOK /\ SentOK /\ Distinct

-----------------------------------------------------------------------------
(* The operations on a session *)

LEMMA AppendRoot ==
    ASSUME NEW root \in Root, NEW a \in Key, NEW b \in Key
    PROVE  /\ KdfRk(root, DH(a, b)) \in Root
           /\ Len(KdfRk(root, DH(a, b))) > 0
           /\ KdfRk(root, DH(a, b))[Len(KdfRk(root, DH(a, b)))] = DH(a, b)
  BY DEF Root, KdfRk, DH

LEMMA FreshType ==
    ASSUME NEW dh \in Key, dh[1] \in Peers
    PROVE  /\ Fresh(dh) \in Key
           /\ Fresh(dh)[1] = dh[1] /\ Fresh(dh)[2] = "ratchet" /\ Fresh(dh)[3] = dh[3] + 1
  BY DEF Key, Fresh

LEMMA ChainType ==
    \A root \in Root :
        Chain(root) \in ChainKey /\ Chain(root).root = root /\ Chain(root).at = 0
  BY DEF Chain, ChainKey

LEMMA AdvanceType ==
    \A ck \in ChainKey, n \in Nat :
        /\ Advance(ck, n) \in ChainKey
        /\ Advance(ck, n).root = ck.root /\ Advance(ck, n).at = ck.at + n
  BY DEF Advance, ChainKey

\* Skipping touches the receiving side only.
LEMMA SkipType ==
    ASSUME NEW st \in Session, NEW until \in Nat, NEW s \in Skip(st, until)
    PROVE  /\ s \in Session
           /\ s.dh = st.dh /\ s.root = st.root /\ s.send = st.send
           /\ s.sendN = st.sendN /\ s.sendPn = st.sendPn /\ s.recv.root = st.recv.root
  <1> DEFINE kept == {[dh |-> st.peer, n |-> n, key |-> Advance(st.recv, n - st.recvN)] :
                         n \in st.recvN..(until - 1)}
  <1> DEFINE skipped == kept \cup {k \in st.skipped : \A j \in kept : <<k.dh, k.n>> # <<j.dh, j.n>>}
  <1>1. CASE s = st
    BY <1>1
  <1>2. CASE until > st.recvN /\
             s = [st EXCEPT !.skipped = skipped, !.recv = Advance(@, until - st.recvN),
                            !.recvN = until]
    <2>1. st.recvN \in Nat /\ st.recv \in ChainKey /\ st.peer \in Key
          /\ st.skipped \subseteq [dh : Key, n : Nat, key : ChainKey]
      BY DEF Session
    <2>2. kept \subseteq [dh : Key, n : Nat, key : ChainKey]
      <3>1. \A n \in st.recvN..(until - 1) : n \in Nat /\ n - st.recvN \in Nat
        BY <2>1
      <3>2. \A n \in st.recvN..(until - 1) : Advance(st.recv, n - st.recvN) \in ChainKey
        BY <2>1, <3>1, AdvanceType
      <3> QED
        BY <2>1, <3>1, <3>2
    <2>3. skipped \subseteq [dh : Key, n : Nat, key : ChainKey]
      BY <2>1, <2>2
    <2> DEFINE ck == Advance(st.recv, until - st.recvN)
    <2>4. until - st.recvN \in Nat
      <3>1. until > st.recvN /\ st.recvN \in Nat
        BY <2>1, <1>2
      <3> QED
        BY <3>1
    <2> DEFINE steps == until - st.recvN
    <2>5. ck \in ChainKey /\ ck.root = st.recv.root
      <3>1. steps \in Nat /\ st.recv \in ChainKey
        BY <2>1, <2>4
      <3> HIDE DEF steps
      <3>2. Advance(st.recv, steps) \in ChainKey /\ Advance(st.recv, steps).root = st.recv.root
        BY <3>1, AdvanceType
      <3> QED
        BY <3>2 DEF steps
    <2>6. s = [st EXCEPT !.skipped = skipped, !.recv = ck, !.recvN = until]
      BY <1>2
    <2> HIDE DEF skipped, ck
    <2>7. /\ s \in Session /\ s.recv = ck
          /\ s.dh = st.dh /\ s.root = st.root /\ s.send = st.send
          /\ s.sendN = st.sendN /\ s.sendPn = st.sendPn
      BY <2>3, <2>5, <2>6 DEF Session
    <2> QED
      BY <2>5, <2>7
  <1>3. st.recvN \in Nat
    BY DEF Session
  <1>4. \/ s \in {st}
        \/ /\ ~(until <= st.recvN)
           /\ s \in {[st EXCEPT !.skipped = skipped, !.recv = Advance(@, until - st.recvN),
                                 !.recvN = until]}
    BY SMTT(30) DEF Skip
  <1>5. until <= st.recvN \/ until > st.recvN
    BY <1>3
  <1> HIDE DEF skipped
  <1> QED
    BY <1>1, <1>2, <1>4, <1>5

LEMMA FromChainType ==
    ASSUME NEW st \in Session, NEW c \in Cipher, NEW s \in FromChain(st, c)
    PROVE  /\ s \in Session
           /\ s.dh = st.dh /\ s.root = st.root /\ s.send = st.send
           /\ s.sendN = st.sendN /\ s.sendPn = st.sendPn
           /\ st.recv.root = c.key.root
  <1>1. PICK r \in Skip(st, c.n) : /\ r.recv = c.key
                                   /\ s = [r EXCEPT !.recv = Advance(@, 1), !.recvN = c.n + 1]
    BY DEF FromChain
  <1>2. c.n \in Nat
    BY DEF Cipher
  <1>3. /\ r \in Session /\ r.dh = st.dh /\ r.root = st.root /\ r.send = st.send
        /\ r.sendN = st.sendN /\ r.sendPn = st.sendPn /\ r.recv.root = st.recv.root
    BY <1>2, SkipType
  <1>4. Advance(r.recv, 1) \in ChainKey
    BY <1>3, AdvanceType DEF Session
  <1>5. c.key \in ChainKey
    BY DEF Cipher
  <1>6. /\ s = [r EXCEPT !.recv = Advance(r.recv, 1), !.recvN = c.n + 1]
    BY <1>1
  <1>7. /\ s \in Session
        /\ s.dh = r.dh /\ s.root = r.root /\ s.send = r.send
        /\ s.sendN = r.sendN /\ s.sendPn = r.sendPn
    <2> DEFINE ck == Advance(r.recv, 1)
    <2> DEFINE next == c.n + 1
    <2>1. ck \in ChainKey /\ next \in Nat /\ r \in Session
      BY <1>2, <1>3, <1>4
    <2>2. s = [r EXCEPT !.recv = ck, !.recvN = next]
      BY <1>6
    <2> HIDE DEF ck, next
    <2> QED
      BY <2>1, <2>2 DEF Session
  <1>8. r \in Skip(st, c.n) /\ r.recv = c.key
    BY <1>1
  <1> QED
    BY <1>3, <1>7, <1>8

Ratcheted(st, c, s) ==
    /\ s.dh = Fresh(st.dh)
    /\ s.send = Chain(KdfRk(KdfRk(st.root, DH(st.dh, c.dh)), DH(Fresh(st.dh), c.dh)))
    /\ s.sendN = 0

LEMMA DhRatchetType ==
    ASSUME NEW st \in Session, NEW c \in Cipher, NEW s \in DhRatchet(st, c),
           st.dh[1] \in Peers
    PROVE  /\ s \in Session /\ Ratcheted(st, c, s)
           /\ s.recv.root = KdfRk(st.root, DH(st.dh, c.dh))
  <1> DEFINE recvRoot(r) == KdfRk(r.root, DH(r.dh, c.dh))
  <1> DEFINE sendRoot(r) == KdfRk(recvRoot(r), DH(Fresh(r.dh), c.dh))
  <1>1. PICK r \in Skip(st, c.pn) :
            s = [r EXCEPT !.peer = c.dh, !.recv = Chain(recvRoot(r)), !.recvN = 0,
                          !.dh = Fresh(r.dh), !.root = sendRoot(r), !.send = Chain(sendRoot(r)),
                          !.sendN = 0, !.sendPn = c.pn]
    BY Zenon DEF DhRatchet
  <1>2. c.pn \in Nat /\ c.dh \in Key
    BY DEF Cipher
  <1>3. r \in Session /\ r.dh = st.dh /\ r.root = st.root
    BY <1>2, SkipType
  <1>4. r.dh \in Key /\ r.root \in Root
    BY <1>3 DEF Session
  <1>5. Fresh(r.dh) \in Key
    BY <1>3, <1>4, FreshType
  <1>6. recvRoot(r) \in Root
    BY <1>2, <1>4, AppendRoot
  <1>7. sendRoot(r) \in Root
    BY <1>2, <1>5, <1>6, AppendRoot
  <1>8. /\ Chain(recvRoot(r)) \in ChainKey /\ Chain(recvRoot(r)).root = recvRoot(r)
        /\ Chain(sendRoot(r)) \in ChainKey
    BY <1>6, <1>7, ChainType
  <1>9. /\ s \in Session
        /\ s.dh = Fresh(r.dh) /\ s.send = Chain(sendRoot(r)) /\ s.sendN = 0
        /\ s.recv = Chain(recvRoot(r))
    <2> HIDE DEF recvRoot, sendRoot
    <2> QED
      BY <1>1, <1>2, <1>3, <1>5, <1>7, <1>8 DEF Session
  <1> QED
    BY <1>3, <1>8, <1>9 DEF Ratcheted

\* A receipt leaves the sending chain alone, or starts one, on a message sealed
\* with a key of the chain that the two key pairs give.
LEMMA DecryptEffect ==
    ASSUME NEW st \in Session, NEW c \in Cipher, NEW s \in Decrypt(st, c),
           st.dh[1] \in Peers
    PROVE  /\ s \in Session
           /\ \/ s.dh = st.dh /\ s.send = st.send /\ s.sendN = st.sendN
              \/ Ratcheted(st, c, s) /\ c.key.root = KdfRk(st.root, DH(st.dh, c.dh))
  <1>1. CASE s \in FromSkipped(st, c)
    <2>1. PICK k \in st.skipped : s = [st EXCEPT !.skipped = st.skipped \ {k}]
      BY <1>1 DEF FromSkipped
    <2> QED
      BY <2>1 DEF Session
  <1>2. CASE s \in FromChain(st, c)
    BY <1>2, FromChainType
  <1>3. CASE \E r \in DhRatchet(st, c) : s \in FromChain(r, c)
    <2>1. PICK r \in DhRatchet(st, c) : s \in FromChain(r, c)
      BY <1>3
    <2>2. /\ r \in Session /\ Ratcheted(st, c, r)
          /\ r.recv.root = KdfRk(st.root, DH(st.dh, c.dh))
      BY <2>1, DhRatchetType
    <2>3. /\ s \in Session /\ s.dh = r.dh /\ s.send = r.send /\ s.sendN = r.sendN
          /\ r.recv.root = c.key.root
      BY <2>1, <2>2, FromChainType
    <2> QED
      BY <2>2, <2>3 DEF Ratcheted
  <1> QED
    BY <1>1, <1>2, <1>3 DEF Decrypt

-----------------------------------------------------------------------------
(* The invariant *)

LEMMA KeyTuple == \A k \in Key : k = <<k[1], k[2], k[3]>> /\ k[3] \in Nat
  BY DEF Key

LEMMA OppositeType ==
    ASSUME NEW p \in Peers, NEW dh \in Key, dh[3] >= 1
    PROVE  Opposite(p, dh) \in Key /\ Opposite(p, dh)[1] = Peer(p)
  BY KeyTuple DEF Opposite, Key, Peers, Peer

\* A user who ratchets on a message of a chain gets a key pair whose opposite is
\* that chain's.
LEMMA OppositeNext ==
    ASSUME NEW p \in Peers, NEW dh \in Key, NEW peer \in Key,
           peer[1] = Peer(p), peer[2] = "ratchet", peer[3] >= 1,
           dh[1] = p, dh = Opposite(Peer(p), peer)
    PROVE  Opposite(p, Fresh(dh)) = peer
  BY KeyTuple DEF Opposite, Fresh, Peers, Peer

LEMMA EmptyRoot == <<>> \in Root
  BY DEF Root

LEMMA X3dhType ==
    ASSUME NEW ik \in Key, NEW ek \in Key, NEW peerIk \in Key, NEW spk \in Key, NEW opk \in Key
    PROVE  X3dhInitiator(ik, ek, peerIk, spk, opk) \in Root
           /\ X3dhResponder(peerIk, spk, opk, ik, ek) \in Root
  <1>1. \A a, b \in Key : DH(a, b) \in SUBSET Key
    BY DEF DH
  <1>2. \A x, y, z \in SUBSET Key : <<x, y, z>> \in Root
    BY DEF Root
  <1>3. \A x \in SUBSET Key : <<x>> \in Root
    BY DEF Root
  <1>4. \A r, s \in Root : r \o s \in Root
    BY DEF Root
  <1>5. /\ <<DH(ik, spk), DH(ek, peerIk), DH(ek, spk)>> \in Root
        /\ (IF opk = NoKey THEN <<>> ELSE <<DH(ek, opk)>>) \in Root
    BY <1>1, <1>2, <1>3, EmptyRoot
  <1>6. /\ <<DH(spk, ik), DH(peerIk, ek), DH(spk, ek)>> \in Root
        /\ (IF opk = NoKey THEN <<>> ELSE <<DH(opk, ek)>>) \in Root
    BY <1>1, <1>2, <1>3, EmptyRoot
  <1> QED
    BY <1>4, <1>5, <1>6 DEF X3dhInitiator, X3dhResponder

LEMMA InitIInv == SessionInit => IInv
  <1> SUFFICES ASSUME SessionInit
               PROVE  IInv
    OBVIOUS
  <1> DEFINE ik == <<"alice", "ik", 0>>
  <1> DEFINE ek == <<"alice", "ek", 0>>
  <1> DEFINE bobIk == <<"bob", "ik", 0>>
  <1> DEFINE spk == <<"bob", "spk", 0>>
  <1>1. PICK opk \in {NoKey, <<"bob", "opk", 0>>} :
            session = [p \in Peers |->
                IF p = "alice"
                THEN InitiatorSetup(RatchetInit(
                         X3dhInitiator(ik, ek, bobIk, spk, opk), ek), spk)
                ELSE RatchetInit(X3dhResponder(bobIk, spk, opk, ik, ek), spk)]
    BY DEF SessionInit
  <1>2. sent = {}
    BY DEF SessionInit
  <1>3. ik \in Key /\ ek \in Key /\ bobIk \in Key /\ spk \in Key /\ opk \in Key /\ NoKey \in Key
    BY DEF Key, Peers, NoKey
  <1> DEFINE rootA == X3dhInitiator(ik, ek, bobIk, spk, opk)
  <1> DEFINE rootB == X3dhResponder(bobIk, spk, opk, ik, ek)
  <1>4. rootA \in Root /\ rootB \in Root
    <2> HIDE DEF ik, ek, bobIk, spk
    <2> QED
      BY <1>3, X3dhType
  <1>5. NoChain \in ChainKey /\ NoChain.at = 0
    BY EmptyRoot, ChainType DEF NoChain
  <1> HIDE DEF rootA, rootB
  <1>6. /\ session["bob"] \in Session /\ session["bob"].dh[1] = "bob"
        /\ session["bob"].send = NoChain /\ session["bob"].sendN = 0
    <2>1. session["bob"] = RatchetInit(rootB, spk)
      BY <1>1 DEF Peers, rootB
    <2> QED
      BY <2>1, <1>3, <1>4, <1>5 DEF RatchetInit, Session
  <1>7. LET st == session["alice"]
        IN  /\ st \in Session /\ st.dh[1] = "alice"
            /\ Sealed("alice", st.dh, st.send) /\ st.send.at = 0 /\ st.sendN = 0
    <2> DEFINE dh == Fresh(ek)
    <2> DEFINE root == KdfRk(rootA, DH(dh, spk))
    <2>1. dh \in Key /\ dh[1] = "alice" /\ dh[2] = "ratchet" /\ dh[3] = 1
      BY <1>3 DEF Fresh, Key, Peers
    <2>2. Opposite("alice", dh) = spk
      BY <2>1 DEF Opposite
    <2> HIDE DEF dh, spk, ek
    <2>3. root \in Root /\ Len(root) > 0 /\ root[Len(root)] = {dh, spk}
      <3>1. dh \in Key /\ spk \in Key /\ rootA \in Root
        BY <2>1, <1>3, <1>4
      <3>2. root \in Root /\ Len(root) > 0 /\ root[Len(root)] = DH(dh, spk)
        BY <3>1, AppendRoot
      <3> QED
        BY <3>2 DEF DH
    <2> HIDE DEF root
    <2>4. Chain(root) \in ChainKey /\ Chain(root).root = root /\ Chain(root).at = 0
      BY <2>3, ChainType
    <2> DEFINE st0 == RatchetInit(rootA, ek)
    <2>5. st0 \in Session /\ st0.dh = ek /\ st0.root = rootA /\ st0.sendN = 0
      BY <1>3, <1>4, <1>5 DEF RatchetInit, Session
    <2> HIDE DEF st0
    <2>6. session["alice"] = [st0 EXCEPT !.peer = spk, !.dh = dh, !.root = root,
                                         !.send = Chain(root)]
      BY <1>1, <2>5, Zenon DEF InitiatorSetup, Peers, rootA, st0, dh, root, ek, spk
    <2>7. LET st == session["alice"]
          IN  st \in Session /\ st.dh = dh /\ st.send = Chain(root) /\ st.sendN = 0
      BY <2>1, <2>3, <2>4, <2>5, <2>6, <1>3 DEF Session
    <2> QED
      BY <2>1, <2>2, <2>3, <2>4, <2>7 DEF Sealed
  <1>8. session \in [Peers -> Session]
    BY <1>1, <1>6, <1>7 DEF Peers
  <1> QED
    BY <1>2, <1>5, <1>6, <1>7, <1>8 DEF IInv, StateType, ChainsOK, SentOK, Distinct, Peers

LEMMA SendKeepsIInv ==
    ASSUME IInv, NEW p \in Peers, Send(p)
    PROVE  IInv'
  <1> DEFINE st == session[p]
  <1> DEFINE c == [from |-> p, dh |-> st.dh, pn |-> st.sendPn, n |-> st.sendN, key |-> st.send]
  <1> DEFINE new == [st EXCEPT !.send = Advance(st.send, 1), !.sendN = st.sendN + 1]
  <1>1. /\ st \in Session /\ st.dh[1] = p /\ st.send.at = st.sendN
        /\ st.send # NoChain /\ Sealed(p, st.dh, st.send)
    BY DEF IInv, StateType, ChainsOK, Send
  <1>2. st.send \in ChainKey /\ st.sendN \in Nat /\ st.sendPn \in Nat /\ st.dh \in Key
    BY <1>1 DEF Session
  <1>3. /\ Advance(st.send, 1) \in ChainKey
        /\ Advance(st.send, 1).root = st.send.root
        /\ Advance(st.send, 1).at = st.sendN + 1
    <2>1. st.send \in ChainKey /\ 1 \in Nat /\ st.send.at = st.sendN
      BY <1>1, <1>2
    <2> HIDE DEF st
    <2> QED
      BY <2>1, AdvanceType
  <1>4. sent' = sent \cup {c} /\ session' = [session EXCEPT ![p] = new]
    BY DEF Send
  <1>5. /\ new \in Session /\ new.dh = st.dh
        /\ new.send = Advance(st.send, 1) /\ new.sendN = st.sendN + 1
    <2> DEFINE ck == Advance(st.send, 1)
    <2>1. ck \in ChainKey /\ st.sendN + 1 \in Nat
      BY <1>2, <1>3
    <2> HIDE DEF ck, st
    <2> QED
      BY <1>1, <2>1 DEF Session, ck
  <1>6. c \in Cipher
    BY <1>2 DEF Cipher
  <1>7. session \in [Peers -> Session] /\ sent \subseteq Cipher
    BY DEF IInv, StateType
  <1>8. c.from = p /\ c.dh = st.dh /\ c.n = st.sendN /\ c.key = st.send
    OBVIOUS
  <1> HIDE DEF new, c
  <1>9. StateType'
    BY <1>4, <1>5, <1>6, <1>7 DEF StateType
  <1>10. session'[p] = new /\ \A q \in Peers \ {p} : session'[q] = session[q]
    BY <1>4, <1>7
  <1>11. Sealed(p, new.dh, new.send) /\ new.send.at = new.sendN
    BY <1>1, <1>3, <1>5 DEF Sealed
  <1>12. ChainsOK'
    <2> SUFFICES ASSUME NEW q \in Peers
                 PROVE  /\ session'[q].dh[1] = q
                        /\ session'[q].send = NoChain
                           \/ Sealed(q, session'[q].dh, session'[q].send)
                        /\ session'[q].send.at = session'[q].sendN
      BY DEF ChainsOK
    <2>1. CASE q = p
      BY <2>1, <1>1, <1>5, <1>10, <1>11
    <2>2. CASE q # p
      BY <2>2, <1>10 DEF IInv, ChainsOK
    <2> QED
      BY <2>1, <2>2
  <1>13. SentOK'
    <2> SUFFICES ASSUME NEW d \in sent'
                 PROVE  /\ Sealed(d.from, d.dh, d.key) /\ d.key.at = d.n
                        /\ d.dh[3] <= session'[d.from].dh[3]
                        /\ d.dh = session'[d.from].dh => d.n < session'[d.from].sendN
      BY DEF SentOK
    <2>1. CASE d = c
      BY <2>1, <1>1, <1>2, <1>5, <1>8, <1>10, KeyTuple
    <2>2. CASE d \in sent
      <3>1. /\ Sealed(d.from, d.dh, d.key) /\ d.key.at = d.n
            /\ d.dh[3] <= session[d.from].dh[3]
            /\ d.dh = session[d.from].dh => d.n < session[d.from].sendN
        BY <2>2 DEF IInv, SentOK
      <3>2. d.from \in Peers /\ d.n \in Nat
        BY <2>2, <1>7 DEF Cipher
      <3>3. CASE d.from = p
        BY <3>1, <3>2, <3>3, <1>2, <1>5, <1>10
      <3>4. CASE d.from # p
        BY <3>1, <3>2, <3>4, <1>10
      <3> QED
        BY <3>3, <3>4
    <2> QED
      BY <2>1, <2>2, <1>4
  <1>14. Distinct'
    <2>1. \A d \in sent : ~(d.from = p /\ d.dh = st.dh /\ d.n = st.sendN)
      <3> SUFFICES ASSUME NEW d \in sent, d.from = p, d.dh = st.dh, d.n = st.sendN
                   PROVE  FALSE
        OBVIOUS
      <3>1. d.n < st.sendN
        BY DEF IInv, SentOK
      <3> QED
        BY <3>1, <1>2
    <2> QED
      BY <2>1, <1>4, <1>8 DEF IInv, Distinct
  <1> QED
    BY <1>9, <1>12, <1>13, <1>14 DEF IInv

\* The key pair that a ratcheting user takes next, and the message it follows.
LEMMA RatchetStep ==
    ASSUME NEW p \in Peers, NEW st \in Session, NEW c \in Cipher, NEW s \in Session,
           st.dh[1] = p, c.from = Peer(p), Sealed(c.from, c.dh, c.key),
           Ratcheted(st, c, s), c.key.root = KdfRk(st.root, DH(st.dh, c.dh))
    PROVE  /\ s.dh[1] = p /\ s.dh[3] = st.dh[3] + 1
           /\ Sealed(p, s.dh, s.send) /\ s.send.at = s.sendN
  <1>1. st.dh \in Key /\ c.dh \in Key /\ st.root \in Root
    BY DEF Session, Cipher
  <1>2. /\ s.dh \in Key /\ s.dh[1] = p /\ s.dh[2] = "ratchet" /\ s.dh[3] = st.dh[3] + 1
        /\ s.dh = Fresh(st.dh)
    BY <1>1, FreshType DEF Ratcheted
  <1>3. c.dh[1] = Peer(p) /\ c.dh[2] = "ratchet" /\ c.dh[3] >= 1
    BY DEF Sealed
  <1>4. Opposite(Peer(p), c.dh)[1] = p
    <2>1. Peer(p) \in Peers /\ Peer(Peer(p)) = p
      BY DEF Peer, Peers
    <2> QED
      BY <2>1, <1>1, <1>3, OppositeType
  <1>5. {c.dh, Opposite(Peer(p), c.dh)} = {st.dh, c.dh}
    <2> DEFINE r == KdfRk(st.root, DH(st.dh, c.dh))
    <2>1. r[Len(r)] = DH(st.dh, c.dh)
      BY <1>1, AppendRoot
    <2>2. c.key.root = r
      OBVIOUS
    <2> HIDE DEF r
    <2> QED
      BY <2>1, <2>2 DEF Sealed, DH
  <1>6. st.dh = Opposite(Peer(p), c.dh)
    <2>1. c.dh # st.dh
      BY <1>3 DEF Peer, Peers
    <2> QED
      BY <2>1, <1>5
  <1>7. Opposite(p, s.dh) = c.dh
    BY <1>1, <1>2, <1>3, <1>6, OppositeNext
  <1> DEFINE recvRoot == KdfRk(st.root, DH(st.dh, c.dh))
  <1> DEFINE sendRoot == KdfRk(recvRoot, DH(s.dh, c.dh))
  <1>8. recvRoot \in Root
    BY <1>1, AppendRoot
  <1> HIDE DEF recvRoot
  <1>9. sendRoot \in Root /\ Len(sendRoot) > 0 /\ sendRoot[Len(sendRoot)] = {s.dh, c.dh}
    <2>1. s.dh \in Key /\ c.dh \in Key /\ recvRoot \in Root
      BY <1>1, <1>2, <1>8
    <2>2. sendRoot \in Root /\ Len(sendRoot) > 0 /\ sendRoot[Len(sendRoot)] = DH(s.dh, c.dh)
      BY <2>1, AppendRoot
    <2> QED
      BY <2>2 DEF DH
  <1>10. s.send = Chain(sendRoot) /\ s.sendN = 0
    BY <1>2 DEF Ratcheted, recvRoot
  <1> HIDE DEF sendRoot
  <1>11. s.send.root = sendRoot /\ s.send.at = 0
    BY <1>9, <1>10, ChainType
  <1>12. s.dh[3] >= 1
    BY <1>1, <1>2, KeyTuple
  <1> QED
    BY <1>2, <1>7, <1>9, <1>10, <1>11, <1>12 DEF Sealed

LEMMA ReceiveKeepsIInv ==
    ASSUME IInv, NEW p \in Peers, NEW c \in sent, Receive(p, c)
    PROVE  IInv'
  <1>1. CASE UNCHANGED sessionVars
    BY <1>1 DEF IInv, StateType, ChainsOK, SentOK, Distinct, sessionVars
  <1>2. CASE \E s \in Decrypt(session[p], c) :
                 session' = [session EXCEPT ![p] = s] /\ sent' = sent
    <2>1. PICK s \in Decrypt(session[p], c) :
              session' = [session EXCEPT ![p] = s] /\ sent' = sent
      BY <1>2
    <2> DEFINE st == session[p]
    <2>2. /\ st \in Session /\ st.dh[1] = p /\ c \in Cipher /\ c.from = Peer(p)
          /\ Sealed(c.from, c.dh, c.key)
          /\ session \in [Peers -> Session] /\ sent \subseteq Cipher
      BY DEF IInv, StateType, ChainsOK, SentOK, Receive
    <2>3. /\ s \in Session
          /\ \/ s.dh = st.dh /\ s.send = st.send /\ s.sendN = st.sendN
             \/ Ratcheted(st, c, s) /\ c.key.root = KdfRk(st.root, DH(st.dh, c.dh))
      BY <2>1, <2>2, DecryptEffect
    <2>4. session'[p] = s /\ \A q \in Peers \ {p} : session'[q] = session[q]
      BY <2>1, <2>2
    <2>5. StateType'
      BY <2>1, <2>2, <2>3 DEF StateType
    <2>6. /\ s.dh[1] = p
          /\ s.send = NoChain \/ Sealed(p, s.dh, s.send)
          /\ s.send.at = s.sendN
          /\ (s.dh = st.dh /\ s.sendN = st.sendN) \/ s.dh[3] = st.dh[3] + 1
      <3>1. CASE s.dh = st.dh /\ s.send = st.send /\ s.sendN = st.sendN
        BY <3>1 DEF IInv, ChainsOK
      <3>2. CASE Ratcheted(st, c, s) /\ c.key.root = KdfRk(st.root, DH(st.dh, c.dh))
        <4> HIDE DEF st
        <4> QED
          BY <3>2, <2>2, <2>3, RatchetStep
      <3> QED
        BY <2>3, <3>1, <3>2
    <2>7. ChainsOK'
      <3> SUFFICES ASSUME NEW q \in Peers
                   PROVE  /\ session'[q].dh[1] = q
                          /\ session'[q].send = NoChain
                             \/ Sealed(q, session'[q].dh, session'[q].send)
                          /\ session'[q].send.at = session'[q].sendN
        BY DEF ChainsOK
      <3>1. CASE q = p
        BY <3>1, <2>4, <2>6
      <3>2. CASE q # p
        BY <3>2, <2>4 DEF IInv, ChainsOK
      <3> QED
        BY <3>1, <3>2
    <2>8. SentOK'
      <3> SUFFICES ASSUME NEW d \in sent
                   PROVE  /\ Sealed(d.from, d.dh, d.key) /\ d.key.at = d.n
                          /\ d.dh[3] <= session'[d.from].dh[3]
                          /\ d.dh = session'[d.from].dh => d.n < session'[d.from].sendN
        BY <2>1 DEF SentOK
      <3>1. /\ Sealed(d.from, d.dh, d.key) /\ d.key.at = d.n
            /\ d.dh[3] <= session[d.from].dh[3]
            /\ d.dh = session[d.from].dh => d.n < session[d.from].sendN
        BY DEF IInv, SentOK
      <3>2. d.from \in Peers /\ d.dh \in Key /\ st.dh \in Key
        BY <2>2 DEF Cipher, Session
      <3>3. CASE d.from = p
        <4>1. d.dh[3] \in Nat /\ st.dh[3] \in Nat
          BY <3>2, KeyTuple
        <4>2. CASE s.dh = st.dh /\ s.sendN = st.sendN
          BY <4>2, <3>1, <3>3, <2>4
        <4>3. CASE s.dh[3] = st.dh[3] + 1
          <5>1. d.dh[3] < s.dh[3]
            BY <4>1, <4>3, <3>1, <3>3
          <5>2. d.dh # s.dh /\ d.dh[3] <= s.dh[3]
            BY <5>1, <4>1, <4>3
          <5> QED
            BY <5>2, <3>1, <3>3, <2>4
        <4> QED
          BY <4>2, <4>3, <2>6
      <3>4. CASE d.from # p
        BY <3>1, <3>2, <3>4, <2>4
      <3> QED
        BY <3>3, <3>4
    <2>9. Distinct'
      BY <2>1 DEF IInv, Distinct
    <2> QED
      BY <2>5, <2>7, <2>8, <2>9 DEF IInv
  <1> QED
    BY <1>1, <1>2 DEF Receive

LEMMA InductiveStep == IInv /\ [SessionNext]_sessionVars => IInv'
  <1> SUFFICES ASSUME IInv, [SessionNext]_sessionVars
               PROVE  IInv'
    OBVIOUS
  <1>1. CASE UNCHANGED sessionVars
    BY <1>1 DEF IInv, StateType, ChainsOK, SentOK, Distinct, sessionVars
  <1>2. CASE \E p \in Peers : Send(p)
    BY <1>2, SendKeepsIInv
  <1>3. CASE \E p \in Peers : \E c \in sent : Receive(p, c)
    BY <1>3, ReceiveKeepsIInv
  <1> QED
    BY <1>1, <1>2, <1>3 DEF SessionNext

-----------------------------------------------------------------------------
(* Freshness *)

\* Two users' sealed chains differ: the pairs at their ends cannot be each
\* other's opposite.
LEMMA SealsDiffer ==
    ASSUME NEW p \in Peers, NEW q \in Peers, NEW a \in Key, NEW b \in Key, NEW ck \in ChainKey,
           Sealed(p, a, ck), Sealed(q, b, ck)
    PROVE  p = q /\ a = b
  <1>1. {a, Opposite(p, a)} = {b, Opposite(q, b)}
    BY DEF Sealed
  <1>2. /\ a[1] = p /\ a[2] = "ratchet" /\ a[3] >= 1 /\ a[3] \in Nat
        /\ b[1] = q /\ b[2] = "ratchet" /\ b[3] >= 1 /\ b[3] \in Nat
    BY KeyTuple DEF Sealed
  <1>3. Opposite(p, a)[1] = Peer(p) /\ Opposite(q, b)[1] = Peer(q)
    BY <1>2, OppositeType
  <1>4. CASE p = q
    <2>1. a # Opposite(q, b)
      BY <1>2, <1>3, <1>4 DEF Peer, Peers
    <2> QED
      BY <1>1, <1>4, <2>1
  <1>5. CASE p # q
    <2>1. a # b
      BY <1>2, <1>5
    <2>2. a = Opposite(q, b) /\ b = Opposite(p, a)
      BY <1>1, <2>1
    <2>3. (p = "alice" /\ q = "bob") \/ (p = "bob" /\ q = "alice")
      BY <1>5 DEF Peers
    <2> QED
      BY <1>2, <2>2, <2>3 DEF Opposite
  <1> QED
    BY <1>4, <1>5

\* Every message is sealed with a key of its own, over both users, all the chains
\* of the session and any number of messages: encrypt moves the chain with its
\* counter and dh_ratchet never starts a chain that was there before.
THEOREM KeysNeverReused == SessionSpec => []KeysFresh
  <1>1. IInv => KeysFresh
    <2> SUFFICES ASSUME IInv, NEW c \in sent, NEW d \in sent, c.key = d.key
                 PROVE  c = d
      BY DEF KeysFresh
    <2>1. c \in Cipher /\ d \in Cipher
      BY DEF IInv, StateType
    <2>2. /\ Sealed(c.from, c.dh, c.key) /\ c.key.at = c.n
          /\ Sealed(d.from, d.dh, d.key) /\ d.key.at = d.n
      BY DEF IInv, SentOK
    <2>3. c.from = d.from /\ c.dh = d.dh
      BY <2>1, <2>2, SealsDiffer DEF Cipher
    <2> QED
      BY <2>2, <2>3 DEF IInv, Distinct
  <1> QED
    BY <1>1, InitIInv, InductiveStep, PTL DEF SessionSpec

-----------------------------------------------------------------------------
(* What a session has read *)

\* The key a comes before the key b: in an earlier chain, or earlier in its chain.
Before(a, b) == Len(a.root) < Len(b.root) \/ (a.root = b.root /\ a.at < b.at)

\* A session that has read `used`: its receiving chain is past every key that it
\* read or skipped, and no key it skipped is one that it read.
Spent(st, used) ==
    /\ Len(st.recv.root) <= Len(st.root)
    /\ \A k \in st.skipped : Before(k.key, st.recv)
    /\ \A c \in used : Before(c.key, st.recv)
    /\ \A c \in used : \A k \in st.skipped : k.key # c.key
    /\ \A j, k \in st.skipped : j.key = k.key => j = k

\* The keys of a session are those of chains it has read a message of, and of its
\* present chain it has read or skipped all that it is past.
Traced(st, used) ==
    /\ st.recv.at = st.recvN
    /\ IF st.recv = NoChain THEN st.peer[2] # "ratchet"
       ELSE \E c \in used : c.dh = st.peer /\ c.key.root = st.recv.root
    /\ \A k \in st.skipped : /\ k.key.at = k.n
                             /\ \E c \in used : c.dh = k.dh /\ c.key.root = k.key.root
    /\ \A n \in 0..(st.recvN - 1) : \/ \E k \in st.skipped : k.dh = st.peer /\ k.n = n
                                    \/ \E c \in used : c.dh = st.peer /\ c.n = n

\* The keys that skip_message_keys keeps.
Kept(st, until) ==
    {[dh |-> st.peer, n |-> n, key |-> Advance(st.recv, n - st.recvN)] : n \in st.recvN..(until - 1)}

LEMMA KeptType ==
    ASSUME NEW st \in Session, NEW until \in Nat
    PROVE  /\ \A k \in Kept(st, until) :
                  /\ k.dh = st.peer /\ k.n \in st.recvN..(until - 1)
                  /\ k.key \in ChainKey /\ k.key.root = st.recv.root
                  /\ k.key.at = st.recv.at + (k.n - st.recvN)
           /\ \A n \in st.recvN..(until - 1) : \E k \in Kept(st, until) : k.n = n
  <1>1. st.recvN \in Nat /\ st.recv \in ChainKey
    BY DEF Session
  <1>2. \A n \in st.recvN..(until - 1) : n - st.recvN \in Nat
    BY <1>1
  <1>3. ASSUME NEW n \in st.recvN..(until - 1)
        PROVE  LET ck == Advance(st.recv, n - st.recvN)
               IN  ck \in ChainKey /\ ck.root = st.recv.root /\ ck.at = st.recv.at + (n - st.recvN)
    <2> DEFINE m == n - st.recvN
    <2>1. m \in Nat
      BY <1>2
    <2> HIDE DEF m
    <2>2. /\ Advance(st.recv, m) \in ChainKey /\ Advance(st.recv, m).root = st.recv.root
          /\ Advance(st.recv, m).at = st.recv.at + m
      BY <1>1, <2>1, AdvanceType
    <2> QED
      BY <2>2 DEF m
  <1>4. ASSUME NEW k \in Kept(st, until)
        PROVE  /\ k.dh = st.peer /\ k.n \in st.recvN..(until - 1)
               /\ k.key \in ChainKey /\ k.key.root = st.recv.root
               /\ k.key.at = st.recv.at + (k.n - st.recvN)
    <2>1. PICK n \in st.recvN..(until - 1) :
              k = [dh |-> st.peer, n |-> n, key |-> Advance(st.recv, n - st.recvN)]
      BY DEF Kept
    <2> QED
      BY <1>3, <2>1
  <1>5. \A n \in st.recvN..(until - 1) : \E k \in Kept(st, until) : k.n = n
    <2> SUFFICES ASSUME NEW n \in st.recvN..(until - 1)
                 PROVE  \E k \in Kept(st, until) : k.n = n
      OBVIOUS
    <2> DEFINE k == [dh |-> st.peer, n |-> n, key |-> Advance(st.recv, n - st.recvN)]
    <2>1. k \in Kept(st, until)
      BY DEF Kept
    <2>2. k.n = n
      OBVIOUS
    <2> QED
      BY <2>1, <2>2
  <1> QED
    BY <1>4, <1>5

\* What skipping does to the receiving side.
LEMMA SkipEffect ==
    ASSUME NEW st \in Session, NEW until \in Nat, NEW s \in Skip(st, until)
    PROVE  \/ s = st /\ (until <= st.recvN \/ st.recv = NoChain)
           \/ /\ st.recv # NoChain /\ until > st.recvN
              /\ s.peer = st.peer /\ s.recvN = until
              /\ s.recv \in ChainKey /\ s.recv.root = st.recv.root
              /\ s.recv.at = st.recv.at + (until - st.recvN)
              /\ s.skipped = Kept(st, until) \cup
                     {k \in st.skipped : \A j \in Kept(st, until) : <<k.dh, k.n>> # <<j.dh, j.n>>}
  <1> DEFINE skipped == Kept(st, until) \cup
                 {k \in st.skipped : \A j \in Kept(st, until) : <<k.dh, k.n>> # <<j.dh, j.n>>}
             ck == Advance(st.recv, until - st.recvN)
  <1>1. st.recvN \in Nat /\ st.recv \in ChainKey
    BY DEF Session
  <1>2. \/ s = st /\ (until <= st.recvN \/ st.recv = NoChain)
        \/ /\ st.recv # NoChain /\ ~(until <= st.recvN)
           /\ s = [st EXCEPT !.skipped = skipped, !.recv = ck, !.recvN = until]
    BY SMTT(30) DEF Skip, Kept
  <1>3. CASE /\ st.recv # NoChain /\ ~(until <= st.recvN)
             /\ s = [st EXCEPT !.skipped = skipped, !.recv = ck, !.recvN = until]
    <2> DEFINE m == until - st.recvN
    <2>1. m \in Nat /\ until > st.recvN
      BY <1>1, <1>3
    <2>2. Advance(st.recv, m) \in ChainKey /\ Advance(st.recv, m).root = st.recv.root
          /\ Advance(st.recv, m).at = st.recv.at + m
      <3> HIDE DEF m
      <3> QED
        BY <1>1, <2>1, AdvanceType
    <2>3. ck \in ChainKey /\ ck.root = st.recv.root /\ ck.at = st.recv.at + (until - st.recvN)
      BY <2>2
    <2> HIDE DEF ck, skipped
    <2>4. s.skipped = skipped /\ s.recv = ck /\ s.recvN = until /\ s.peer = st.peer
      BY <1>3 DEF Session
    <2> QED
      BY <1>3, <2>1, <2>3, <2>4 DEF skipped
  <1> QED
    BY <1>2, <1>3

\* Skipping succeeds up to a gap of MaxSkip.
LEMMA SkipReaches ==
    ASSUME NEW st \in Session, NEW until \in Nat, st.recv # NoChain,
           st.recvN <= until, until <= st.recvN + MaxSkip
    PROVE  \E s \in Skip(st, until) :
               /\ s.recv \in ChainKey /\ s.recv.root = st.recv.root
               /\ s.recv.at = st.recv.at + (until - st.recvN)
  <1>1. st.recvN \in Nat /\ st.recv \in ChainKey /\ st.recv.at \in Nat /\ MaxSkip \in Nat
    BY RatchetAssumption DEF Session, ChainKey
  <1>2. \E s : s \in Skip(st, until)
    <2>1. ~(st.recvN + MaxSkip < until)
      BY <1>1
    <2> QED
      BY <2>1 DEF Skip
  <1>3. PICK s \in Skip(st, until) : TRUE
    BY <1>2
  <1>4. CASE s = st /\ until <= st.recvN
    BY <1>1, <1>4
  <1> QED
    BY <1>3, <1>4, SkipEffect

\* A message read from the receiving chain.
LEMMA FromChainEffect ==
    ASSUME NEW st \in Session, NEW c \in Cipher, NEW s \in FromChain(st, c)
    PROVE  \E r \in Skip(st, c.n) :
               /\ r \in Session /\ r.root = st.root /\ r.recv # NoChain /\ r.recv = c.key
               /\ s.recv \in ChainKey /\ s.recv.root = r.recv.root /\ s.recv.at = r.recv.at + 1
               /\ s.recvN = c.n + 1 /\ s.skipped = r.skipped /\ s.peer = r.peer /\ s.root = r.root
  <1>1. PICK r \in Skip(st, c.n) : /\ r.recv # NoChain /\ r.recv = c.key
                                   /\ s = [r EXCEPT !.recv = Advance(r.recv, 1), !.recvN = c.n + 1]
    BY DEF FromChain
  <1>2. c.n \in Nat
    BY DEF Cipher
  <1>3. r \in Session /\ r.root = st.root
    BY <1>2, SkipType
  <1>4. r.recv \in ChainKey /\ 1 \in Nat
    BY <1>3 DEF Session
  <1>5. /\ Advance(r.recv, 1) \in ChainKey /\ Advance(r.recv, 1).root = r.recv.root
        /\ Advance(r.recv, 1).at = r.recv.at + 1
    BY <1>4, AdvanceType
  <1>6. /\ s.recv = Advance(r.recv, 1) /\ s.recvN = c.n + 1 /\ s.skipped = r.skipped
        /\ s.peer = r.peer /\ s.root = r.root
    BY <1>1, <1>3 DEF Session
  <1> QED
    BY <1>1, <1>3, <1>5, <1>6

\* A step of the ratchet.
LEMMA DhRatchetEffect ==
    ASSUME NEW st \in Session, NEW c \in Cipher, NEW s \in DhRatchet(st, c), st.dh[1] \in Peers
    PROVE  LET recvRoot == KdfRk(st.root, DH(st.dh, c.dh))
           IN  \E r \in Skip(st, c.pn) :
                   /\ r \in Session /\ r.root = st.root
                   /\ s.skipped = r.skipped /\ s.peer = c.dh
                   /\ s.recv = Chain(recvRoot) /\ s.recvN = 0
                   /\ s.root = KdfRk(recvRoot, DH(Fresh(st.dh), c.dh))
                   /\ s.sendPn = c.pn
  <1> DEFINE recvRoot(r) == KdfRk(r.root, DH(r.dh, c.dh))
             sendRoot(r) == KdfRk(recvRoot(r), DH(Fresh(r.dh), c.dh))
  <1>1. PICK r \in Skip(st, c.pn) :
            s = [r EXCEPT !.peer = c.dh, !.recv = Chain(recvRoot(r)), !.recvN = 0,
                          !.dh = Fresh(r.dh), !.root = sendRoot(r), !.send = Chain(sendRoot(r)),
                          !.sendN = 0, !.sendPn = c.pn]
    BY Zenon DEF DhRatchet
  <1>2. c.pn \in Nat
    BY DEF Cipher
  <1>3. r \in Session /\ r.dh = st.dh /\ r.root = st.root
    BY <1>2, SkipType
  <1>4. /\ s.skipped = r.skipped /\ s.peer = c.dh /\ s.recv = Chain(recvRoot(r)) /\ s.recvN = 0
        /\ s.root = sendRoot(r) /\ s.sendPn = c.pn
    <2> HIDE DEF recvRoot, sendRoot
    <2> QED
      BY <1>1, <1>3 DEF Session
  <1> QED
    BY <1>3, <1>4

\* Mixing an output in makes a root key longer.
LEMMA LongerRoot ==
    ASSUME NEW root \in Root, NEW a \in Key, NEW b \in Key
    PROVE  KdfRk(root, DH(a, b)) \in Root /\ Len(KdfRk(root, DH(a, b))) = Len(root) + 1
           /\ Len(root) \in Nat
  BY DEF Root, KdfRk, DH

-----------------------------------------------------------------------------
(* Keys that were read are gone *)

LEMMA SkipSpent ==
    ASSUME NEW st \in Session, NEW used \in SUBSET Cipher, NEW until \in Nat,
           NEW s \in Skip(st, until), Spent(st, used)
    PROVE  /\ Spent(s, used) /\ s.recv.root = st.recv.root /\ s.recv.at >= st.recv.at
           /\ s.recv \in ChainKey /\ st.recv \in ChainKey
  <1>1. /\ st.recvN \in Nat /\ st.recv \in ChainKey /\ st.recv.at \in Nat
        /\ st.skipped \subseteq [dh : Key, n : Nat, key : ChainKey]
    BY DEF Session, ChainKey
  <1>2. CASE s = st
    BY <1>1, <1>2
  <1>3. CASE /\ until > st.recvN /\ s.recv \in ChainKey /\ s.recv.root = st.recv.root
             /\ s.recv.at = st.recv.at + (until - st.recvN)
             /\ s.skipped = Kept(st, until) \cup
                    {k \in st.skipped : \A j \in Kept(st, until) : <<k.dh, k.n>> # <<j.dh, j.n>>}
    <2>0. s.recv.at > st.recv.at
      BY <1>1, <1>3
    <2>1. \A k \in Kept(st, until) :
              k.key \in ChainKey /\ k.key.root = st.recv.root
              /\ k.key.at >= st.recv.at /\ k.key.at < s.recv.at
      BY <1>1, <1>3, KeptType
    <2>2. \A a \in ChainKey : Before(a, st.recv) => Before(a, s.recv) /\ a # st.recv
                                                    /\ \A k \in Kept(st, until) : k.key # a
      <3> SUFFICES ASSUME NEW a \in ChainKey, Before(a, st.recv)
                   PROVE  Before(a, s.recv) /\ a # st.recv /\ \A k \in Kept(st, until) : k.key # a
        OBVIOUS
      <3>1. a.at \in Nat /\ Len(a.root) \in Nat /\ Len(st.recv.root) \in Nat
        BY <1>1 DEF ChainKey, Root
      <3> QED
        BY <1>1, <1>3, <2>0, <2>1, <3>1 DEF Before
    <2>3. \A k \in Kept(st, until) : Before(k.key, s.recv)
      BY <1>3, <2>1 DEF Before
    <2>4. \A k \in s.skipped : k \in Kept(st, until) \/ k \in st.skipped
      BY <1>3
    <2>5. \A k \in st.skipped : k.key \in ChainKey /\ Before(k.key, st.recv)
      BY <1>1 DEF Spent
    <2>6. \A c \in used : c.key \in ChainKey /\ Before(c.key, st.recv)
      BY DEF Spent, Cipher
    <2>7. \A j, k \in Kept(st, until) : j.key = k.key => j = k
      <3> SUFFICES ASSUME NEW j \in Kept(st, until), NEW k \in Kept(st, until), j.key = k.key
                   PROVE  j = k
        OBVIOUS
      <3>1. /\ j.key.at = st.recv.at + (j.n - st.recvN) /\ j.n \in st.recvN..(until - 1)
            /\ k.key.at = st.recv.at + (k.n - st.recvN) /\ k.n \in st.recvN..(until - 1)
        BY KeptType
      <3>2. j.n = k.n
        BY <1>1, <3>1
      <3> QED
        BY <3>2 DEF Kept
    <2>8. Len(s.recv.root) <= Len(s.root)
      <3>1. s.root = st.root
        BY SkipType
      <3> QED
        BY <1>3, <3>1 DEF Spent
    <2>9. \A k \in s.skipped : Before(k.key, s.recv)
      BY <2>2, <2>3, <2>4, <2>5
    <2>10. \A c \in used : Before(c.key, s.recv)
      BY <2>2, <2>6
    <2>11. \A c \in used : \A k \in s.skipped : k.key # c.key
      BY <2>2, <2>4, <2>6 DEF Spent
    <2>12. \A j, k \in s.skipped : j.key = k.key => j = k
      BY <2>2, <2>4, <2>5, <2>7 DEF Spent
    <2> QED
      BY <1>1, <1>3, <2>0, <2>8, <2>9, <2>10, <2>11, <2>12 DEF Spent
  <1> QED
    BY <1>2, <1>3, SkipEffect

LEMMA RatchetSpent ==
    ASSUME NEW st \in Session, NEW used \in SUBSET Cipher, NEW c \in Cipher,
           NEW s \in DhRatchet(st, c), st.dh[1] \in Peers, Spent(st, used)
    PROVE  Spent(s, used)
  <1> DEFINE recvRoot == KdfRk(st.root, DH(st.dh, c.dh))
             root == KdfRk(recvRoot, DH(Fresh(st.dh), c.dh))
  <1>1. PICK r \in Skip(st, c.pn) :
            /\ r \in Session /\ r.root = st.root /\ s.skipped = r.skipped
            /\ s.recv = Chain(recvRoot) /\ s.root = root
    BY DhRatchetEffect
  <1>2. st.dh \in Key /\ c.dh \in Key /\ st.root \in Root /\ c.pn \in Nat
    BY DEF Session, Cipher
  <1>3. recvRoot \in Root /\ Len(recvRoot) = Len(st.root) + 1 /\ Len(st.root) \in Nat
    BY <1>2, LongerRoot
  <1>4. Fresh(st.dh) \in Key
    BY <1>2, FreshType
  <1> HIDE DEF recvRoot
  <1>5. Len(root) = Len(recvRoot) + 1
    BY <1>2, <1>3, <1>4, LongerRoot
  <1> HIDE DEF root
  <1>6. s.recv.root = recvRoot
    BY <1>1, <1>3, ChainType
  <1>7. Spent(r, used)
    BY <1>2, SkipSpent
  <1>8. Len(r.recv.root) \in Nat /\ Len(r.recv.root) < Len(recvRoot)
    <2>1. r.recv.root \in Root /\ Len(r.recv.root) <= Len(st.root)
      BY <1>1, <1>7 DEF Session, ChainKey, Spent
    <2> QED
      BY <1>3, <2>1 DEF Root
  <1>9. \A a \in ChainKey : Before(a, r.recv) => Before(a, s.recv)
    <2> SUFFICES ASSUME NEW a \in ChainKey, Before(a, r.recv) PROVE Before(a, s.recv)
      OBVIOUS
    <2>1. Len(a.root) \in Nat
      BY DEF ChainKey, Root
    <2> QED
      BY <1>3, <1>6, <1>8, <2>1 DEF Before
  <1>10. /\ \A k \in r.skipped : k.key \in ChainKey
         /\ \A d \in used : d.key \in ChainKey
    BY <1>1 DEF Session, Cipher
  <1>11. Len(s.recv.root) <= Len(s.root)
    BY <1>1, <1>3, <1>5, <1>6
  <1> QED
    BY <1>1, <1>7, <1>9, <1>10, <1>11 DEF Spent

LEMMA FromChainSpent ==
    ASSUME NEW st \in Session, NEW used \in SUBSET Cipher, NEW c \in Cipher,
           NEW s \in FromChain(st, c), Spent(st, used)
    PROVE  Spent(s, used \cup {c})
  <1>1. PICK r \in Skip(st, c.n) :
            /\ r \in Session /\ r.root = st.root /\ r.recv = c.key
            /\ s.recv \in ChainKey /\ s.recv.root = r.recv.root /\ s.recv.at = r.recv.at + 1
            /\ s.skipped = r.skipped /\ s.root = r.root
    BY FromChainEffect
  <1>2. c.n \in Nat /\ c.key \in ChainKey /\ r.recv \in ChainKey
    BY <1>1 DEF Cipher
  <1>3. Spent(r, used)
    BY <1>2, SkipSpent
  <1>4. \A a \in ChainKey : Before(a, r.recv) => Before(a, s.recv) /\ a # c.key
    <2> SUFFICES ASSUME NEW a \in ChainKey, Before(a, r.recv) PROVE Before(a, s.recv) /\ a # c.key
      OBVIOUS
    <2>1. a.at \in Nat /\ Len(a.root) \in Nat /\ r.recv.at \in Nat
      BY <1>2 DEF ChainKey, Root
    <2> QED
      BY <1>1, <2>1 DEF Before
  <1>5. Before(c.key, s.recv)
    BY <1>1, <1>2 DEF Before, ChainKey
  <1>6. /\ \A k \in r.skipped : k.key \in ChainKey
        /\ \A d \in used : d.key \in ChainKey
    BY <1>1 DEF Session, Cipher
  <1> QED
    BY <1>1, <1>3, <1>4, <1>5, <1>6 DEF Spent

\* However a message is decrypted, its key is spent.
LEMMA DecryptSpent ==
    ASSUME NEW st \in Session, NEW used \in SUBSET Cipher, NEW c \in Cipher,
           NEW s \in Decrypt(st, c), st.dh[1] \in Peers, Spent(st, used)
    PROVE  Spent(s, used \cup {c})
  <1>1. CASE s \in FromSkipped(st, c)
    <2>1. PICK k \in st.skipped : k.key = c.key /\ s = [st EXCEPT !.skipped = st.skipped \ {k}]
      BY <1>1 DEF FromSkipped
    <2>2. s.skipped = st.skipped \ {k} /\ s.recv = st.recv /\ s.root = st.root
      BY <2>1 DEF Session
    <2> QED
      BY <2>1, <2>2 DEF Spent
  <1>2. CASE s \in FromChain(st, c)
    BY <1>2, FromChainSpent
  <1>3. CASE \E r \in DhRatchet(st, c) : s \in FromChain(r, c)
    <2>1. PICK r \in DhRatchet(st, c) : s \in FromChain(r, c)
      BY <1>3
    <2>2. r \in Session /\ Spent(r, used)
      BY <2>1, DhRatchetType, RatchetSpent
    <2> QED
      BY <2>1, <2>2, FromChainSpent
  <1> QED
    BY <1>1, <1>2, <1>3 DEF Decrypt

\* A message that was read does not open again.
LEMMA SpentRejects ==
    ASSUME NEW st \in Session, NEW used \in SUBSET Cipher, st.dh[1] \in Peers,
           NEW c \in used, Spent(st, used)
    PROVE  Decrypt(st, c) = {}
  <1> SUFFICES ASSUME NEW s \in Decrypt(st, c) PROVE FALSE
    OBVIOUS
  <1>1. c \in Cipher /\ c.key \in ChainKey /\ c.n \in Nat /\ c.key.at \in Nat /\ Len(c.key.root) \in Nat
    BY DEF Cipher, ChainKey, Root
  <1>2. Before(c.key, st.recv) /\ Len(st.recv.root) <= Len(st.root)
    BY DEF Spent
  <1>3. st.recv.at \in Nat /\ Len(st.recv.root) \in Nat /\ Len(st.root) \in Nat
    BY DEF Session, ChainKey, Root
  <1>4. CASE s \in FromSkipped(st, c)
    BY <1>4 DEF FromSkipped, Spent
  <1>5. CASE s \in FromChain(st, c)
    <2>1. PICK r \in Skip(st, c.n) : r.recv = c.key
      BY <1>1, <1>5, FromChainEffect
    <2>2. r.recv.root = st.recv.root /\ r.recv.at >= st.recv.at
      BY <1>1, SkipSpent
    <2> QED
      BY <1>1, <1>2, <1>3, <2>1, <2>2 DEF Before
  <1>6. CASE \E r \in DhRatchet(st, c) : s \in FromChain(r, c)
    <2>1. PICK r \in DhRatchet(st, c) : s \in FromChain(r, c)
      BY <1>6
    <2>2. r \in Session /\ r.recv.root = KdfRk(st.root, DH(st.dh, c.dh))
      BY <1>1, <2>1, DhRatchetType
    <2>3. r.recv.root = c.key.root
      BY <1>1, <2>1, <2>2, FromChainType
    <2>4. Len(r.recv.root) = Len(st.root) + 1
      <3>1. st.root \in Root /\ st.dh \in Key /\ c.dh \in Key
        BY <1>1 DEF Session, Cipher
      <3> QED
        BY <2>2, <3>1, LongerRoot
    <2> QED
      BY <1>1, <1>2, <1>3, <2>3, <2>4 DEF Before
  <1> QED
    BY <1>4, <1>5, <1>6 DEF Decrypt

-----------------------------------------------------------------------------
(* Keys come from where they should *)

LEMMA SkipTraced ==
    ASSUME NEW st \in Session, NEW used \in SUBSET Cipher, NEW until \in Nat,
           NEW s \in Skip(st, until), Traced(st, used)
    PROVE  Traced(s, used) /\ s.peer = st.peer /\ (s.recv = NoChain <=> st.recv = NoChain)
  <1>1. /\ st.recvN \in Nat /\ st.recv \in ChainKey
        /\ st.skipped \subseteq [dh : Key, n : Nat, key : ChainKey]
    BY DEF Session, ChainKey
  <1>2. CASE s = st
    BY <1>2
  <1>3. CASE /\ st.recv # NoChain /\ until > st.recvN /\ s.peer = st.peer /\ s.recvN = until
             /\ s.recv \in ChainKey /\ s.recv.root = st.recv.root
             /\ s.recv.at = st.recv.at + (until - st.recvN)
             /\ s.skipped = Kept(st, until) \cup
                    {k \in st.skipped : \A j \in Kept(st, until) : <<k.dh, k.n>> # <<j.dh, j.n>>}
    <2>1. st.recv.at = st.recvN /\ s.recv.at = s.recvN
      BY <1>1, <1>3 DEF Traced
    <2>2. s.recv # NoChain
      <3>1. s.recv.at > 0 /\ NoChain.at = 0
        BY <1>1, <1>3, <2>1, EmptyRoot, ChainType DEF NoChain
      <3> QED
        BY <3>1
    <2>3. \E c \in used : c.dh = s.peer /\ c.key.root = s.recv.root
      BY <1>3 DEF Traced
    <2>4. ASSUME NEW k \in s.skipped
          PROVE  k.key.at = k.n /\ \E c \in used : c.dh = k.dh /\ c.key.root = k.key.root
      <3>1. CASE k \in Kept(st, until)
        <4>1. k.dh = st.peer /\ k.n \in Nat /\ k.key.root = st.recv.root /\ k.key.at = k.n
          BY <1>1, <2>1, <3>1, KeptType
        <4> QED
          BY <1>3, <2>3, <4>1
      <3>2. CASE k \in st.skipped
        BY <3>2 DEF Traced
      <3> QED
        BY <1>3, <3>1, <3>2
    <2>5. ASSUME NEW n \in 0..(s.recvN - 1)
          PROVE  \/ \E k \in s.skipped : k.dh = s.peer /\ k.n = n
                 \/ \E c \in used : c.dh = s.peer /\ c.n = n
      <3>1. n \in st.recvN..(until - 1) \/ n \in 0..(st.recvN - 1)
        BY <1>1, <1>3
      <3>2. CASE n \in st.recvN..(until - 1)
        <4>1. PICK k \in Kept(st, until) : k.n = n
          BY <3>2, KeptType
        <4>2. k.dh = st.peer
          BY KeptType
        <4> QED
          BY <1>3, <4>1, <4>2
      <3>3. CASE \E c \in used : c.dh = s.peer /\ c.n = n
        BY <3>3
      <3>4. ASSUME NEW k \in st.skipped, k.dh = st.peer, k.n = n
            PROVE  \E j \in s.skipped : j.dh = s.peer /\ j.n = n
        <4>1. CASE \E j \in Kept(st, until) : <<k.dh, k.n>> = <<j.dh, j.n>>
          BY <1>3, <3>4, <4>1
        <4>2. CASE \A j \in Kept(st, until) : <<k.dh, k.n>> # <<j.dh, j.n>>
          BY <1>3, <3>4, <4>2
        <4> QED
          BY <4>1, <4>2
      <3> QED
        BY <1>3, <3>1, <3>2, <3>3, <3>4 DEF Traced
    <2> QED
      BY <1>3, <2>1, <2>2, <2>3, <2>4, <2>5 DEF Traced
  <1> QED
    BY <1>2, <1>3, SkipEffect

\* The new chain is traced as soon as its first message is read; until then it is
\* the chain that the message was sealed in.
LEMMA FromChainTraced ==
    ASSUME NEW st \in Session, NEW used \in SUBSET Cipher, NEW c \in Cipher,
           NEW s \in FromChain(st, c), c.key.at = c.n, c.dh = st.peer, c \in used, Traced(st, used)
    PROVE  Traced(s, used)
  <1>1. PICK r \in Skip(st, c.n) :
            /\ r \in Session /\ r.recv # NoChain /\ r.recv = c.key
            /\ s.recv \in ChainKey /\ s.recv.root = r.recv.root /\ s.recv.at = r.recv.at + 1
            /\ s.recvN = c.n + 1 /\ s.skipped = r.skipped /\ s.peer = r.peer
    BY FromChainEffect
  <1>2. c.n \in Nat
    BY DEF Cipher
  <1>3. Traced(r, used) /\ r.peer = st.peer
    BY <1>2, SkipTraced
  <1>4. s.recv.at = s.recvN /\ r.recvN = c.n
    BY <1>1, <1>3 DEF Traced
  <1>5. s.recv # NoChain
    <2>1. s.recv.at > 0 /\ NoChain.at = 0
      BY <1>1, <1>2, <1>4, EmptyRoot, ChainType DEF NoChain
    <2> QED
      BY <2>1
  <1>6. \A k \in s.skipped : /\ k.key.at = k.n
                             /\ \E d \in used : d.dh = k.dh /\ d.key.root = k.key.root
    BY <1>1, <1>3 DEF Traced
  <1>7. \A n \in 0..(s.recvN - 1) : \/ \E k \in s.skipped : k.dh = s.peer /\ k.n = n
                                    \/ \E d \in used : d.dh = s.peer /\ d.n = n
    <2> SUFFICES ASSUME NEW n \in 0..(s.recvN - 1)
                 PROVE  \/ \E k \in s.skipped : k.dh = s.peer /\ k.n = n
                        \/ \E d \in used : d.dh = s.peer /\ d.n = n
      OBVIOUS
    <2>1. n = c.n \/ n \in 0..(r.recvN - 1)
      BY <1>1, <1>2, <1>4
    <2>2. CASE n = c.n
      BY <1>1, <1>3, <2>2
    <2>3. CASE n \in 0..(r.recvN - 1)
      BY <1>1, <1>3, <2>3 DEF Traced
    <2> QED
      BY <2>1, <2>2, <2>3
  <1> QED
    BY <1>1, <1>3, <1>4, <1>5, <1>6, <1>7 DEF Traced

\* More messages read do not harm.
LEMMA TracedMore ==
    ASSUME NEW st \in Session, NEW used \in SUBSET Cipher, NEW c \in Cipher, Traced(st, used)
    PROVE  Traced(st, used \cup {c})
  BY DEF Traced

LEMMA RatchetTraced ==
    ASSUME NEW st \in Session, NEW used \in SUBSET Cipher, NEW c \in Cipher,
           NEW s \in DhRatchet(st, c), st.dh[1] \in Peers, c \in used,
           c.key.root = s.recv.root, Traced(st, used)
    PROVE  Traced(s, used) /\ s.peer = c.dh
  <1> DEFINE recvRoot == KdfRk(st.root, DH(st.dh, c.dh))
  <1>1. PICK r \in Skip(st, c.pn) :
            /\ r \in Session /\ s.skipped = r.skipped /\ s.peer = c.dh
            /\ s.recv = Chain(recvRoot) /\ s.recvN = 0
    BY DhRatchetEffect
  <1>2. c.pn \in Nat /\ st.dh \in Key /\ c.dh \in Key /\ st.root \in Root
    BY DEF Session, Cipher
  <1>3. Traced(r, used)
    BY <1>2, SkipTraced
  <1>4. recvRoot \in Root /\ Len(recvRoot) > 0
    BY <1>2, AppendRoot
  <1> HIDE DEF recvRoot
  <1>5. s.recv.root = recvRoot /\ s.recv.at = 0
    BY <1>1, <1>4, ChainType
  <1>6. s.recv # NoChain
    <2>1. NoChain.root = <<>>
      BY EmptyRoot, ChainType DEF NoChain
    <2>2. Len(<<>>) = 0
      OBVIOUS
    <2> QED
      BY <1>4, <1>5, <2>1, <2>2
  <1>7. \A k \in s.skipped : /\ k.key.at = k.n
                             /\ \E d \in used : d.dh = k.dh /\ d.key.root = k.key.root
    BY <1>1, <1>3 DEF Traced
  <1>8. 0..(s.recvN - 1) = {}
    BY <1>1
  <1> QED
    BY <1>1, <1>5, <1>6, <1>7, <1>8 DEF Traced

\* However a message is decrypted, the session stays traced.
LEMMA DecryptTraced ==
    ASSUME NEW st \in Session, NEW used \in SUBSET Cipher, NEW c \in Cipher,
           NEW s \in Decrypt(st, c), st.dh[1] \in Peers, c.key.at = c.n, Traced(st, used)
    PROVE  Traced(s, used \cup {c})
  <1> DEFINE more == used \cup {c}
  <1>1. more \in SUBSET Cipher /\ c \in more /\ Traced(st, more)
    BY TracedMore
  <1> HIDE DEF more
  <1>2. CASE s \in FromSkipped(st, c)
    <2>1. PICK k \in st.skipped : /\ k.dh = c.dh /\ k.n = c.n
                                  /\ s = [st EXCEPT !.skipped = st.skipped \ {k}]
      BY <1>2 DEF FromSkipped
    <2>2. /\ s.skipped = st.skipped \ {k} /\ s.recv = st.recv /\ s.recvN = st.recvN
          /\ s.peer = st.peer
      BY <2>1 DEF Session
    <2>3. \A n \in 0..(s.recvN - 1) : \/ \E j \in s.skipped : j.dh = s.peer /\ j.n = n
                                      \/ \E d \in more : d.dh = s.peer /\ d.n = n
      <3> SUFFICES ASSUME NEW n \in 0..(s.recvN - 1)
                   PROVE  \/ \E j \in s.skipped : j.dh = s.peer /\ j.n = n
                          \/ \E d \in more : d.dh = s.peer /\ d.n = n
        OBVIOUS
      <3>1. CASE k.dh = s.peer /\ k.n = n
        BY <1>1, <2>1, <3>1
      <3> QED
        BY <1>1, <2>2, <3>1 DEF Traced
    <2> QED
      BY <1>1, <2>2, <2>3 DEF Traced, more
  <1>3. CASE s \in FromChain(st, c) /\ c.dh = st.peer
    BY <1>1, <1>3, FromChainTraced DEF more
  <1>4. CASE \E r \in DhRatchet(st, c) : s \in FromChain(r, c)
    <2>1. PICK r \in DhRatchet(st, c) : s \in FromChain(r, c)
      BY <1>4
    <2>2. r \in Session
      BY <2>1, DhRatchetType
    <2>3. c.key.root = r.recv.root
      BY <2>1, <2>2, FromChainType
    <2>4. Traced(r, more) /\ r.peer = c.dh
      BY <1>1, <2>1, <2>3, RatchetTraced
    <2> QED
      BY <1>1, <2>1, <2>2, <2>4, FromChainTraced DEF more
  <1> QED
    BY <1>2, <1>3, <1>4 DEF Decrypt

-----------------------------------------------------------------------------
(* The two users agree *)

ReadSent ==
    /\ read \in [Peers -> SUBSET sent]
    /\ \A p \in Peers : \A c \in read[p] : c.from = Peer(p)

\* A key pair stands for one chain: the sender's present one or a shorter one.
OneRoot ==
    /\ \A c, d \in sent : c.from = d.from /\ c.dh = d.dh => c.key.root = d.key.root
    /\ \A c \in sent : IF c.dh = session[c.from].dh THEN c.key.root = session[c.from].root
                       ELSE Len(c.key.root) < Len(session[c.from].root)
    /\ \A p \in Peers : session[p].send = NoChain \/ session[p].send.root = session[p].root

\* Headers count no earlier chain (dh_ratchet keeps the peer's count).
NoneBefore == (\A p \in Peers : session[p].sendPn = 0) /\ \A c \in sent : c.pn = 0

\* User p is one step ahead of the peer: its root key is the peer's with their two
\* key pairs mixed in.
Leads(p) ==
    /\ session[p].peer = session[Peer(p)].dh
    /\ session[p].root = KdfRk(session[Peer(p)].root, DH(session[Peer(p)].dh, session[p].dh))

Sessions == \A p \in Peers : Spent(session[p], read[p]) /\ Traced(session[p], read[p])

RatchetInv == Sessions /\ ReadSent /\ OneRoot /\ NoneBefore /\ \E p \in Peers : Leads(p)

\* x3dh_initiator and x3dh_responder come to the same root key.
LEMMA X3dhAgrees ==
    ASSUME NEW ik, NEW ek, NEW peerIk, NEW spk, NEW opk
    PROVE  X3dhInitiator(ik, ek, peerIk, spk, opk) = X3dhResponder(peerIk, spk, opk, ik, ek)
  <1>1. \A a, b : DH(a, b) = DH(b, a)
    BY DEF DH
  <1> QED
    BY <1>1, Zenon DEF X3dhInitiator, X3dhResponder

LEMMA InitRatchetInv == SessionInit => RatchetInv
  <1> SUFFICES ASSUME SessionInit
               PROVE  RatchetInv
    OBVIOUS
  <1> DEFINE ik == <<"alice", "ik", 0>>
             ek == <<"alice", "ek", 0>>
             bobIk == <<"bob", "ik", 0>>
             spk == <<"bob", "spk", 0>>
  <1>1. PICK opk \in {NoKey, <<"bob", "opk", 0>>} :
            session = [p \in Peers |->
                IF p = "alice"
                THEN InitiatorSetup(RatchetInit(
                         X3dhInitiator(ik, ek, bobIk, spk, opk), ek), spk)
                ELSE RatchetInit(X3dhResponder(bobIk, spk, opk, ik, ek), spk)]
    BY DEF SessionInit
  <1>2. sent = {} /\ read = [p \in Peers |-> {}]
    BY DEF SessionInit
  <1> DEFINE root == X3dhResponder(bobIk, spk, opk, ik, ek)
             dh == Fresh(ek)
             st == RatchetInit(root, ek)
  <1>3. /\ session["bob"] = RatchetInit(root, spk)
        /\ session["alice"] = InitiatorSetup(st, spk)
    BY <1>1, X3dhAgrees DEF Peers
  <1>4. /\ ik \in Key /\ ek \in Key /\ bobIk \in Key /\ spk \in Key /\ opk \in Key /\ NoKey \in Key
        /\ ek[1] \in Peers /\ spk[2] = "spk" /\ NoKey[2] = "none"
    BY DEF Key, Peers, NoKey
  <1>5. root \in Root /\ dh \in Key
    <2>1. root \in Root
      <3> HIDE DEF ik, ek, bobIk, spk
      <3> QED
        BY <1>4, X3dhType
    <2> QED
      BY <1>4, <2>1, FreshType
  <1>6. KdfRk(root, DH(dh, spk)) \in Root
    <2> HIDE DEF root, dh, spk
    <2> QED
      BY <1>4, <1>5, AppendRoot
  <1>7. NoChain \in ChainKey /\ NoChain.root = <<>> /\ NoChain.at = 0 /\ Len(<<>>) = 0
    BY EmptyRoot, ChainType DEF NoChain
  <1> HIDE DEF root, dh, ek, spk
  <1>8. /\ st.recv = NoChain /\ st.recvN = 0 /\ st.sendPn = 0 /\ st.skipped = {} /\ st.root = root
        /\ st.dh = ek
    BY DEF RatchetInit
  <1>9. LET s == session["bob"]
        IN  /\ s.recv = NoChain /\ s.recvN = 0 /\ s.sendPn = 0 /\ s.skipped = {} /\ s.root = root
            /\ s.dh = spk /\ s.peer = NoKey /\ s.send = NoChain
    BY <1>3 DEF RatchetInit
  <1>10. LET s == session["alice"]
         IN  /\ s.recv = NoChain /\ s.recvN = 0 /\ s.sendPn = 0 /\ s.skipped = {}
             /\ s.root = KdfRk(root, DH(dh, spk))
             /\ s.dh = dh /\ s.peer = spk /\ s.send = Chain(KdfRk(root, DH(dh, spk)))
    BY <1>3 DEF RatchetInit, InitiatorSetup, dh
  <1>11. \A p \in Peers : /\ session[p].recv = NoChain /\ session[p].recvN = 0
                          /\ session[p].sendPn = 0 /\ session[p].skipped = {}
                          /\ session[p].root \in Root /\ session[p].peer[2] # "ratchet"
    BY <1>4, <1>5, <1>6, <1>9, <1>10 DEF Peers
  <1>12. Sessions
    <2>1. \A p \in Peers : Len(session[p].recv.root) = 0 /\ Len(session[p].root) \in Nat
      BY <1>7, <1>11 DEF Root
    <2>2. 0..(0 - 1) = {}
      OBVIOUS
    <2> QED
      BY <1>2, <1>7, <1>11, <2>1, <2>2 DEF Sessions, Spent, Traced
  <1>13. ReadSent /\ NoneBefore
    BY <1>2, <1>11 DEF ReadSent, NoneBefore
  <1>14. OneRoot
    <2>1. Chain(KdfRk(root, DH(dh, spk))).root = KdfRk(root, DH(dh, spk))
      BY <1>6, ChainType
    <2> QED
      BY <1>2, <1>9, <1>10, <2>1 DEF OneRoot, Peers
  <1>15. Leads("alice")
    <2>1. DH(dh, spk) = DH(spk, dh)
      BY DEF DH
    <2> QED
      BY <1>9, <1>10, <2>1 DEF Leads, Peer
  <1> QED
    BY <1>12, <1>13, <1>14, <1>15 DEF RatchetInv, Peers

LEMMA SendKeepsRatchetInv ==
    ASSUME IInv, RatchetInv, NEW p \in Peers, Send(p)
    PROVE  RatchetInv'
  <1> DEFINE st == session[p]
             c == [from |-> p, dh |-> st.dh, pn |-> st.sendPn, n |-> st.sendN, key |-> st.send]
             new == [st EXCEPT !.send = Advance(st.send, 1), !.sendN = st.sendN + 1]
  <1>1. /\ session \in [Peers -> Session] /\ st \in Session /\ st.send # NoChain
        /\ st.send \in ChainKey
    BY DEF IInv, StateType, Send, Session
  <1>2. sent' = sent \cup {c} /\ session' = [session EXCEPT ![p] = new] /\ read' = read
    BY DEF Send
  <1>3. Advance(st.send, 1).root = st.send.root
    <2> HIDE DEF st
    <2> QED
      BY <1>1, AdvanceType
  <1>4. /\ new.recv = st.recv /\ new.recvN = st.recvN /\ new.skipped = st.skipped
        /\ new.peer = st.peer /\ new.dh = st.dh /\ new.root = st.root /\ new.sendPn = st.sendPn
        /\ new.send.root = st.send.root
    <2> DEFINE ck == Advance(st.send, 1)
    <2> HIDE DEF ck, st
    <2> QED
      BY <1>1, <1>3 DEF Session, ck
  <1>5. c.from = p /\ c.dh = st.dh /\ c.pn = st.sendPn /\ c.key = st.send
    OBVIOUS
  <1> HIDE DEF new, c
  <1>6. \A q \in Peers :
            /\ session'[q].recv = session[q].recv /\ session'[q].recvN = session[q].recvN
            /\ session'[q].skipped = session[q].skipped /\ session'[q].peer = session[q].peer
            /\ session'[q].dh = session[q].dh /\ session'[q].root = session[q].root
            /\ session'[q].sendPn = session[q].sendPn
            /\ \/ session'[q].send = session[q].send
               \/ /\ session'[q].send.root = session[q].send.root
                  /\ session[q].send # NoChain
    <2> TAKE q \in Peers
    <2>1. session'[q] = IF q = p THEN new ELSE session[q]
      BY <1>1, <1>2
    <2>2. CASE q = p
      BY <1>1, <1>4, <2>1, <2>2
    <2>3. CASE q # p
      <3>1. session'[q] = session[q]
        BY <2>1, <2>3, Zenon
      <3> QED
        BY <3>1
    <2> QED
      BY <2>2, <2>3
  <1>7. Sessions'
    BY <1>2, <1>6 DEF RatchetInv, Sessions, Spent, Traced
  <1>8. ReadSent'
    BY <1>2 DEF RatchetInv, ReadSent
  <1>9. st.send.root = st.root
    BY <1>1 DEF RatchetInv, OneRoot
  <1>10. OneRoot'
    <2>1. \A d \in sent : d.from \in Peers
      BY DEF IInv, StateType, Cipher
    <2>2. \A d \in sent : d.from = p /\ d.dh = st.dh => d.key.root = st.root
      BY DEF RatchetInv, OneRoot
    <2>3. \A d, e \in sent' : d.from = e.from /\ d.dh = e.dh => d.key.root = e.key.root
      BY <1>2, <1>5, <1>9, <2>2 DEF RatchetInv, OneRoot
    <2>4. \A d \in sent' : IF d.dh = session'[d.from].dh THEN d.key.root = session'[d.from].root
                           ELSE Len(d.key.root) < Len(session'[d.from].root)
      <3> SUFFICES ASSUME NEW d \in sent'
                   PROVE  IF d.dh = session'[d.from].dh THEN d.key.root = session'[d.from].root
                          ELSE Len(d.key.root) < Len(session'[d.from].root)
        OBVIOUS
      <3>1. CASE d = c
        BY <1>5, <1>6, <1>9, <3>1
      <3>2. CASE d \in sent
        BY <1>6, <2>1, <3>2 DEF RatchetInv, OneRoot
      <3> QED
        BY <1>2, <3>1, <3>2
    <2>5. \A q \in Peers : session'[q].send = NoChain \/ session'[q].send.root = session'[q].root
      BY <1>6 DEF RatchetInv, OneRoot
    <2> QED
      BY <2>3, <2>4, <2>5 DEF OneRoot
  <1>11. NoneBefore'
    BY <1>2, <1>5, <1>6 DEF RatchetInv, NoneBefore
  <1>12. \A q \in Peers : Leads(q) => Leads(q)'
    <2>1. \A q \in Peers : Peer(q) \in Peers
      BY DEF Peer, Peers
    <2> QED
      BY <1>6, <2>1 DEF Leads
  <1> QED
    BY <1>7, <1>8, <1>10, <1>11, <1>12 DEF RatchetInv

\* Whoever ratchets was behind and is ahead now: the message is of the peer's
\* present chain, because its root key is too long for an earlier one.
LEMMA RatchetLeads ==
    ASSUME IInv, RatchetInv, NEW p \in Peers, NEW c \in sent, c.from = Peer(p),
           c.dh # session[p].peer,
           c.key.root = KdfRk(session[p].root, DH(session[p].dh, c.dh))
    PROVE  Leads(Peer(p)) /\ c.dh = session[Peer(p)].dh /\ c.key.root = session[Peer(p)].root
  <1> DEFINE q == Peer(p)
  <1>1. q \in Peers /\ Peer(q) = p
    BY DEF Peer, Peers
  <1>2. /\ session[p] \in Session /\ session[q] \in Session /\ c \in Cipher
    BY <1>1 DEF IInv, StateType
  <1>3. /\ session[p].root \in Root /\ session[p].dh \in Key
        /\ session[q].root \in Root /\ session[q].dh \in Key /\ c.dh \in Key
    BY <1>2 DEF Session, Cipher
  <1>4. /\ Len(c.key.root) = Len(session[p].root) + 1 /\ Len(session[p].root) \in Nat
        /\ Len(session[q].root) \in Nat
    BY <1>3, LongerRoot DEF Root
  <1>5. IF c.dh = session[q].dh THEN c.key.root = session[q].root
        ELSE Len(c.key.root) < Len(session[q].root)
    BY DEF RatchetInv, OneRoot
  <1>6. CASE Leads(q)
    <2>0. session[q].root = KdfRk(session[p].root, DH(session[p].dh, session[q].dh))
      BY <1>1, <1>6 DEF Leads
    <2>1. Len(session[q].root) = Len(session[p].root) + 1
      <3> HIDE DEF q
      <3>1. Len(KdfRk(session[p].root, DH(session[p].dh, session[q].dh))) = Len(session[p].root) + 1
        BY <1>3, LongerRoot
      <3> QED
        BY <2>0, <3>1
    <2>2. c.dh = session[q].dh
      BY <1>4, <1>5, <2>1
    <2> QED
      BY <1>5, <1>6, <2>2
  <1>7. CASE Leads(p)
    <2>1. Len(session[p].root) = Len(session[q].root) + 1
      BY <1>3, <1>7, LongerRoot DEF Leads
    <2>2. Len(c.key.root) > Len(session[q].root)
      BY <1>4, <2>1
    <2> QED
      BY <1>4, <1>5, <2>2
  <1>8. \A r \in Peers : r = p \/ r = q
    BY DEF Peer, Peers
  <1> QED
    BY <1>6, <1>7, <1>8 DEF RatchetInv

LEMMA FromChainPeer ==
    ASSUME NEW st \in Session, NEW c \in Cipher, NEW s \in FromChain(st, c)
    PROVE  s.peer = st.peer
  <1>1. PICK r \in Skip(st, c.n) : s.peer = r.peer
    BY FromChainEffect
  <1>2. c.n \in Nat
    BY DEF Cipher
  <1> QED
    BY <1>1, <1>2, SkipEffect

\* A receipt leaves key pairs, root key and sending chain alone, or renews them all.
LEMMA DecryptSides ==
    ASSUME NEW st \in Session, NEW c \in Cipher, NEW s \in Decrypt(st, c), st.dh[1] \in Peers
    PROVE  LET recvRoot == KdfRk(st.root, DH(st.dh, c.dh))
           IN  \/ /\ s.dh = st.dh /\ s.peer = st.peer /\ s.root = st.root
                  /\ s.send = st.send /\ s.sendPn = st.sendPn
               \/ /\ c.dh # st.peer /\ c.key.root = recvRoot
                  /\ s.dh = Fresh(st.dh) /\ s.peer = c.dh /\ s.sendPn = c.pn
                  /\ s.root = KdfRk(recvRoot, DH(Fresh(st.dh), c.dh)) /\ s.send = Chain(s.root)
  <1>1. CASE s \in FromSkipped(st, c)
    <2>1. PICK k \in st.skipped : s = [st EXCEPT !.skipped = st.skipped \ {k}]
      BY <1>1 DEF FromSkipped
    <2> QED
      BY <2>1 DEF Session
  <1>2. CASE s \in FromChain(st, c)
    BY <1>2, FromChainType, FromChainPeer
  <1>3. CASE c.dh # st.peer /\ \E r \in DhRatchet(st, c) : s \in FromChain(r, c)
    <2>1. PICK r \in DhRatchet(st, c) : s \in FromChain(r, c)
      BY <1>3
    <2> DEFINE recvRoot == KdfRk(st.root, DH(st.dh, c.dh))
               root == KdfRk(recvRoot, DH(Fresh(st.dh), c.dh))
    <2>2. /\ r \in Session /\ r.dh = Fresh(st.dh) /\ r.recv.root = recvRoot
          /\ r.send = Chain(root)
      BY <2>1, DhRatchetType DEF Ratcheted
    <2>3. r.peer = c.dh /\ r.root = root /\ r.sendPn = c.pn
      BY <2>1, DhRatchetEffect
    <2>4. /\ s.dh = r.dh /\ s.root = r.root /\ s.send = r.send /\ s.sendPn = r.sendPn
          /\ s.peer = r.peer /\ r.recv.root = c.key.root
      BY <2>1, <2>2, FromChainType, FromChainPeer
    <2> QED
      BY <1>3, <2>2, <2>3, <2>4
  <1> QED
    BY <1>1, <1>2, <1>3 DEF Decrypt

LEMMA ReceiveKeepsRatchetInv ==
    ASSUME IInv, RatchetInv, NEW p \in Peers, NEW c \in sent, Receive(p, c)
    PROVE  RatchetInv'
  <1>1. CASE UNCHANGED sessionVars
    BY <1>1 DEF sessionVars, RatchetInv, Sessions, ReadSent, OneRoot, NoneBefore, Leads
  <1>2. ASSUME NEW s \in Decrypt(session[p], c), session' = [session EXCEPT ![p] = s],
               read' = [read EXCEPT ![p] = @ \cup {c}], sent' = sent
        PROVE  RatchetInv'
    <2> DEFINE st == session[p]
               q == Peer(p)
               recvRoot == KdfRk(st.root, DH(st.dh, c.dh))
    <2>1. /\ session \in [Peers -> Session] /\ st \in Session /\ st.dh[1] \in Peers
          /\ c \in Cipher /\ c.from = q /\ c.key.at = c.n /\ sent \subseteq Cipher
      BY DEF IInv, StateType, ChainsOK, SentOK, Receive
    <2>2. read[p] \in SUBSET Cipher /\ read \in [Peers -> SUBSET sent]
      BY <2>1 DEF RatchetInv, ReadSent
    <2>3. /\ session'[p] = s /\ read'[p] = read[p] \cup {c}
          /\ \A r \in Peers \ {p} : session'[r] = session[r] /\ read'[r] = read[r]
      BY <1>2, <2>1, <2>2
    <2>4. q \in Peers /\ Peer(q) = p /\ q # p /\ Peers = {p, q}
      BY DEF Peer, Peers
    <2>5. Sessions'
      <3>1. Spent(st, read[p]) /\ Traced(st, read[p])
        BY DEF RatchetInv, Sessions
      <3>2. Spent(s, read[p] \cup {c}) /\ Traced(s, read[p] \cup {c})
        BY <1>2, <2>1, <2>2, <3>1, DecryptSpent, DecryptTraced
      <3>3. \A r \in Peers \ {p} : Spent(session'[r], read'[r]) /\ Traced(session'[r], read'[r])
        BY <2>3 DEF RatchetInv, Sessions
      <3>4. \A r \in Peers : Spent(session'[r], read'[r]) /\ Traced(session'[r], read'[r])
        BY <2>3, <3>2, <3>3
      <3> QED
        BY <3>4 DEF Sessions, Spent, Traced, Before
    <2>6. ReadSent'
      BY <1>2, <2>1, <2>2, <2>3 DEF RatchetInv, ReadSent
    <2>7. \/ /\ s.dh = st.dh /\ s.peer = st.peer /\ s.root = st.root
             /\ s.send = st.send /\ s.sendPn = st.sendPn
          \/ /\ c.dh # st.peer /\ c.key.root = recvRoot
             /\ s.dh = Fresh(st.dh) /\ s.peer = c.dh /\ s.sendPn = c.pn
             /\ s.root = KdfRk(recvRoot, DH(Fresh(st.dh), c.dh)) /\ s.send = Chain(s.root)
      BY <1>2, <2>1, DecryptSides
    <2>8. CASE /\ s.dh = st.dh /\ s.peer = st.peer /\ s.root = st.root
               /\ s.send = st.send /\ s.sendPn = st.sendPn
      <3>1. \A r \in Peers : /\ session'[r].dh = session[r].dh /\ session'[r].peer = session[r].peer
                             /\ session'[r].root = session[r].root
                             /\ session'[r].send = session[r].send
                             /\ session'[r].sendPn = session[r].sendPn
        BY <2>3, <2>8
      <3>2. \A d \in sent : d.from \in Peers
        BY <2>1 DEF Cipher
      <3>3. OneRoot' /\ NoneBefore'
        BY <1>2, <3>1, <3>2 DEF RatchetInv, OneRoot, NoneBefore
      <3>4. \A r \in Peers : Leads(r) => Leads(r)'
        BY <2>4, <3>1 DEF Leads
      <3> QED
        BY <2>5, <2>6, <3>3, <3>4 DEF RatchetInv
    <2>9. CASE /\ c.dh # st.peer /\ c.key.root = recvRoot
               /\ s.dh = Fresh(st.dh) /\ s.peer = c.dh /\ s.sendPn = c.pn
               /\ s.root = KdfRk(recvRoot, DH(Fresh(st.dh), c.dh)) /\ s.send = Chain(s.root)
      <3>1. c.dh = session[q].dh /\ c.key.root = session[q].root
        BY <2>1, <2>9, RatchetLeads
      <3>2. st.root \in Root /\ st.dh \in Key /\ c.dh \in Key
        BY <2>1 DEF Session, Cipher
      <3>3. recvRoot \in Root /\ Len(recvRoot) = Len(st.root) + 1 /\ Len(st.root) \in Nat
        BY <3>2, LongerRoot
      <3>4. Fresh(st.dh) \in Key /\ Fresh(st.dh)[3] = st.dh[3] + 1
        BY <2>1, <3>2, FreshType
      <3>5. s.root \in Root /\ Len(s.root) > Len(st.root)
        <4> HIDE DEF recvRoot
        <4>1. s.root \in Root /\ Len(s.root) = Len(recvRoot) + 1
          BY <2>9, <3>2, <3>3, <3>4, LongerRoot
        <4> QED
          BY <3>3, <4>1
      <3>6. OneRoot'
        <4>1. \A d \in sent : d.from = p \/ d.from = q
          BY <2>1, <2>4 DEF Cipher
        <4>2. ASSUME NEW d \in sent, d.from = p
              PROVE  d.dh # s.dh /\ Len(d.key.root) < Len(s.root)
          <5>1. d.dh[3] <= st.dh[3] /\ d.dh[3] \in Nat /\ st.dh[3] \in Nat
            BY <2>1, <3>2, <4>2, KeyTuple DEF IInv, SentOK, Cipher
          <5>2. d.dh # s.dh
            BY <2>9, <3>4, <5>1
          <5>3. Len(d.key.root) <= Len(st.root) /\ Len(d.key.root) \in Nat
            <6>1. Len(d.key.root) \in Nat
              BY <2>1 DEF Cipher, ChainKey, Root
            <6> QED
              BY <3>3, <4>2, <6>1 DEF RatchetInv, OneRoot
          <5> QED
            BY <3>3, <3>5, <5>2, <5>3
        <4>3. s.send.root = s.root
          BY <2>9, <3>5, ChainType
        <4>4. \A d \in sent : IF d.dh = session'[d.from].dh THEN d.key.root = session'[d.from].root
                              ELSE Len(d.key.root) < Len(session'[d.from].root)
          BY <2>3, <2>4, <4>1, <4>2 DEF RatchetInv, OneRoot
        <4>5. \A r \in Peers : session'[r].send = NoChain
                              \/ session'[r].send.root = session'[r].root
          BY <2>3, <4>3 DEF RatchetInv, OneRoot
        <4> QED
          BY <1>2, <4>4, <4>5 DEF RatchetInv, OneRoot
      <3>7. NoneBefore'
        BY <1>2, <2>3, <2>9 DEF RatchetInv, NoneBefore
      <3>8. Leads(p)'
        <4>1. DH(Fresh(st.dh), c.dh) = DH(c.dh, Fresh(st.dh))
          BY DEF DH
        <4>2. session'[q] = session[q]
          BY <2>3, <2>4
        <4> QED
          BY <2>3, <2>9, <3>1, <4>1, <4>2 DEF Leads
      <3> QED
        BY <2>5, <2>6, <3>6, <3>7, <3>8 DEF RatchetInv
    <2> QED
      BY <2>7, <2>8, <2>9
  <1> QED
    BY <1>1, <1>2 DEF Receive

LEMMA RatchetStepInv == IInv /\ RatchetInv /\ [SessionNext]_sessionVars => RatchetInv'
  <1> SUFFICES ASSUME IInv, RatchetInv, [SessionNext]_sessionVars PROVE RatchetInv'
    OBVIOUS
  <1>1. CASE UNCHANGED sessionVars
    BY <1>1 DEF sessionVars, RatchetInv, Sessions, ReadSent, OneRoot, NoneBefore, Leads
  <1> QED
    BY <1>1, SendKeepsRatchetInv, ReceiveKeepsRatchetInv DEF SessionNext

LEMMA RatchetAlways == SessionSpec => [](IInv /\ RatchetInv)
  BY InitIInv, InductiveStep, InitRatchetInv, RatchetStepInv, PTL DEF SessionSpec

-----------------------------------------------------------------------------
(* What reading promises *)

\* A message that was read cannot be read again, by the user or with what the user
\* keeps: its key is neither among the skipped ones nor ahead in the chain, and a
\* repetition fails wherever it finds the session (decrypt), for any gap, any
\* number of chains and of messages, in any order.
THEOREM ReadingIsFinal == SessionSpec => []ReadOnce
  <1>1. IInv /\ RatchetInv => ReadOnce
    <2> SUFFICES ASSUME IInv, RatchetInv, NEW p \in Peers, NEW c \in read[p]
                 PROVE  /\ \A k \in session[p].skipped : k.key # c.key
                        /\ session[p].recv.root = c.key.root => session[p].recv.at > c.key.at
                        /\ Decrypt(session[p], c) = {}
      BY DEF ReadOnce, ReadKeysGone, ReplayRejected
    <2>1. /\ session[p] \in Session /\ session[p].dh[1] \in Peers
          /\ read[p] \in SUBSET Cipher /\ Spent(session[p], read[p])
      BY DEF IInv, StateType, ChainsOK, RatchetInv, ReadSent, Sessions
    <2>2. Decrypt(session[p], c) = {}
      BY <2>1, SpentRejects
    <2>3. Before(c.key, session[p].recv) /\ \A k \in session[p].skipped : k.key # c.key
      BY <2>1 DEF Spent
    <2>4. Len(c.key.root) \in Nat /\ c.key.at \in Nat /\ session[p].recv.at \in Nat
      BY <2>1 DEF Cipher, ChainKey, Root, Session
    <2> QED
      BY <2>2, <2>3, <2>4 DEF Before
  <1> QED
    BY <1>1, RatchetAlways, PTL

\* What has not been overtaken by a later chain opens: the two users derive the
\* same chains, and what a session is past in its chain it has read or kept the
\* key of (skip_message_keys, dh_ratchet), up to a gap of MaxSkip.
THEOREM PresentChainsOpen == SessionSpec => []InOrderReadable
  <1>1. ASSUME IInv, RatchetInv, NEW p \in Peers, NEW c \in sent, c \notin read[p], c.from = Peer(p),
               \/ c.dh = session[p].peer /\ c.n <= session[p].recvN + MaxSkip
               \/ c.dh = session[c.from].dh /\ c.dh # session[p].peer /\ c.n <= MaxSkip
        PROVE  Decrypt(session[p], c) # {}
    <2> DEFINE st == session[p]
    <2>1. /\ st \in Session /\ st.dh[1] \in Peers /\ c \in Cipher /\ c.key.at = c.n
          /\ c.dh[2] = "ratchet" /\ read[p] \subseteq sent
          /\ \A d \in read[p] : d.from = Peer(p)
      BY <1>1 DEF IInv, StateType, ChainsOK, SentOK, Sealed, RatchetInv, ReadSent
    <2>2. /\ c.n \in Nat /\ c.key \in ChainKey /\ st.recvN \in Nat /\ st.recv \in ChainKey
          /\ c.pn = 0
      BY <1>1, <2>1 DEF Cipher, Session, RatchetInv, NoneBefore
    <2>3. Traced(st, read[p])
      BY <1>1 DEF RatchetInv, Sessions
    <2>4. \A ck \in ChainKey : ck.root = c.key.root /\ ck.at = c.n => ck = c.key
      BY <2>1, <2>2 DEF ChainKey
    <2>5. \A d \in read[p] : d.dh = c.dh => d.key.root = c.key.root
      BY <1>1, <2>1 DEF RatchetInv, OneRoot
    <2>6. ASSUME NEW k \in st.skipped, k.dh = c.dh, k.n = c.n
          PROVE  Decrypt(st, c) # {}
      <3>1. k.key \in ChainKey /\ k.key.root = c.key.root /\ k.key.at = c.n
        BY <2>1, <2>3, <2>5, <2>6 DEF Traced, Session
      <3>2. k.key = c.key
        BY <2>4, <3>1
      <3>3. Cached(st, c) /\ FromSkipped(st, c) # {}
        BY <2>6, <3>2 DEF Cached, FromSkipped
      <3> QED
        BY <3>3 DEF Decrypt
    <2>7. CASE ~Cached(st, c) /\ c.dh = st.peer
      <3>1. st.recv # NoChain
        BY <2>1, <2>3, <2>7 DEF Traced
      <3>2. st.recv.at = st.recvN /\ st.recv.root = c.key.root
        BY <2>3, <2>5, <2>7, <3>1 DEF Traced
      <3>3. st.recvN <= c.n
        <4> SUFFICES ASSUME c.n < st.recvN PROVE FALSE
          BY <2>2
        <4>1. c.n \in 0..(st.recvN - 1)
          BY <2>2
        <4>2. PICK d \in read[p] : d.dh = c.dh /\ d.n = c.n
          BY <2>3, <2>7, <4>1 DEF Traced, Cached
        <4>3. d = c
          BY <1>1, <2>1, <4>2 DEF IInv, Distinct
        <4> QED
          BY <1>1, <4>3
      <3>4. PICK s \in Skip(st, c.n) : /\ s.recv \in ChainKey /\ s.recv.root = st.recv.root
                                       /\ s.recv.at = st.recv.at + (c.n - st.recvN)
        BY <1>1, <2>1, <2>2, <2>7, <3>1, <3>3, SkipReaches
      <3>5. s.recv = c.key
        BY <2>2, <2>4, <3>2, <3>4
      <3>6. s.recv # NoChain
        <4>1. read[p] \in SUBSET Cipher
          BY <1>1, <2>1 DEF IInv, StateType
        <4> QED
          BY <2>1, <2>2, <2>3, <3>1, <3>4, <4>1, SkipTraced
      <3>7. FromChain(st, c) # {}
        BY <3>4, <3>5, <3>6 DEF FromChain
      <3>8. ~(c.n < st.recvN)
        BY <2>2, <3>3
      <3> QED
        BY <2>7, <3>7, <3>8 DEF Decrypt
    <2>8. CASE ~Cached(st, c) /\ c.dh # st.peer
      <3> DEFINE recvRoot == KdfRk(st.root, DH(st.dh, c.dh))
      <3>1. c.key.root = recvRoot
        <4>1. c.key.root = session[Peer(p)].root /\ c.dh = session[Peer(p)].dh
          BY <1>1, <2>8 DEF RatchetInv, OneRoot
        <4>2. Leads(p) \/ Leads(Peer(p))
          BY <1>1 DEF RatchetInv, Peer, Peers
        <4>3. ~Leads(p)
          BY <2>8, <4>1 DEF Leads
        <4>4. Peer(Peer(p)) = p
          BY DEF Peer, Peers
        <4> QED
          BY <4>1, <4>2, <4>3, <4>4 DEF Leads
      <3>2. PICK s \in DhRatchet(st, c) : TRUE
        <4>1. Skip(st, 0) # {}
          <5>1. st.recv = NoChain \/ 0 <= st.recvN
            BY <2>2
          <5>2. Skip(st, 0) = {st}
            BY <5>1, Zenon DEF Skip
          <5> QED
            BY <5>2
        <4>2. Skip(st, c.pn) # {}
          BY <2>2, <4>1
        <4> QED
          BY <4>2 DEF DhRatchet
      <3>3. s \in Session /\ s.recv.root = recvRoot
        BY <2>1, <3>2, DhRatchetType
      <3>4. s.recv = Chain(recvRoot) /\ s.recvN = 0
        BY <2>1, <3>2, DhRatchetEffect
      <3>5. recvRoot \in Root /\ Len(recvRoot) > 0
        <4>1. st.root \in Root /\ st.dh \in Key /\ c.dh \in Key
          BY <2>1 DEF Session, Cipher
        <4> QED
          BY <4>1, AppendRoot
      <3> HIDE DEF recvRoot
      <3>6. s.recv.at = 0
        BY <3>4, <3>5, ChainType
      <3>7. \A ck \in ChainKey : ck.root = recvRoot => ck # NoChain
        <4>1. NoChain.root = <<>> /\ Len(<<>>) = 0
          BY EmptyRoot, ChainType DEF NoChain
        <4> QED
          BY <3>5, <4>1
      <3>8. s.recv # NoChain
        BY <3>3, <3>7 DEF Session
      <3>9. PICK r \in Skip(s, c.n) : /\ r.recv \in ChainKey /\ r.recv.root = s.recv.root
                                      /\ r.recv.at = s.recv.at + (c.n - s.recvN)
        <4>1. s.recvN <= c.n /\ c.n <= s.recvN + MaxSkip
          BY <1>1, <2>2, <2>8, <3>4, RatchetAssumption
        <4> QED
          BY <2>2, <3>3, <3>8, <4>1, SkipReaches
      <3>10. r.recv = c.key /\ r.recv # NoChain
        <4>1. r.recv.root = c.key.root /\ r.recv.at = c.n
          BY <2>2, <3>1, <3>3, <3>4, <3>6, <3>9
        <4> QED
          BY <2>4, <3>3, <3>7, <3>9, <4>1
      <3>11. FromChain(s, c) # {}
        BY <3>9, <3>10 DEF FromChain
      <3> QED
        BY <2>8, <3>2, <3>11 DEF Decrypt
    <2> QED
      BY <2>6, <2>7, <2>8 DEF Cached
  <1>2. IInv /\ RatchetInv => InOrderReadable
    BY <1>1 DEF InOrderReadable
  <1> QED
    BY <1>2, RatchetAlways, PTL
=============================================================================
