------------------------- MODULE DoubleRatchetProofs -------------------------
(***************************************************************************)
(* Proofs about the Double Ratchet for every value of the bounds.          *)
(***************************************************************************)
EXTENDS DoubleRatchet, TLAPS

\* An element of a sequence is of the type of its elements.
LEMMA ElementType ==
  ASSUME NEW S, NEW q \in Seq(S), NEW i \in 1..Len(q)
  PROVE  q[i] \in S
OBVIOUS

\* Taking an element out of a sequence: where each remaining element was.
LEMMA WithoutIndexFacts ==
  ASSUME NEW S, NEW q \in Seq(S), NEW i \in DOMAIN q
  PROVE  /\ WithoutIndex(q, i) \in Seq(S)
         /\ Len(WithoutIndex(q, i)) = Len(q) - 1
         /\ \A j \in DOMAIN WithoutIndex(q, i) :
              WithoutIndex(q, i)[j] = q[IF j < i THEN j ELSE j + 1]
<1> DEFINE a == SubSeq(q, 1, i - 1)
           b == SubSeq(q, i + 1, Len(q))
<1>1. i \in 1..Len(q) /\ Len(q) \in Nat
  OBVIOUS
<1>2. a \in Seq(S) /\ Len(a) = i - 1 /\ \A j \in 1..(i - 1) : a[j] = q[j]
  BY <1>1
<1>3. b \in Seq(S) /\ Len(b) = Len(q) - i /\ \A j \in 1..(Len(q) - i) : b[j] = q[j + i]
  BY <1>1
<1>4. WithoutIndex(q, i) = a \o b
  BY DEF WithoutIndex
<1> HIDE DEF a, b
<1>5. a \o b \in Seq(S) /\ Len(a \o b) = Len(q) - 1
  BY <1>1, <1>2, <1>3
<1>6. ASSUME NEW j \in 1..(Len(q) - 1)
      PROVE  (a \o b)[j] = q[IF j < i THEN j ELSE j + 1]
  <2>1. CASE j < i
    BY <1>1, <1>2, <1>3, <2>1
  <2>2. CASE j >= i
    <3>1. (a \o b)[j] = b[j - Len(a)]
      BY <1>1, <1>2, <1>3, <2>2
    <3>2. j - Len(a) \in 1..(Len(q) - i) /\ (j - Len(a)) + i = j + 1
      BY <1>1, <1>2, <2>2
    <3>3. b[j - Len(a)] = q[j + 1]
      BY <1>3, <3>2
    <3>4. ~(j < i)
      BY <1>1, <2>2
    <3> QED BY <3>1, <3>3, <3>4
  <2>3. j < i \/ j >= i
    BY <1>1
  <2> QED BY <2>1, <2>2, <2>3
<1>7. DOMAIN WithoutIndex(q, i) = 1..(Len(q) - 1)
  BY <1>1, <1>4, <1>5
<1> QED BY <1>4, <1>5, <1>6, <1>7

\* One iteration of the skip loop leaves a well-typed, bounded store.
LEMMA StoreType ==
  ASSUME NEW q \in Seq(Skipped), NEW e \in Skipped, Len(q) <= MaxSkipped
  PROVE  /\ Store(q, e) \in Seq(Skipped)
         /\ Len(Store(q, e)) <= MaxSkipped
<1> DEFINE kept == IF Len(q) >= MaxSkipped THEN Tail(q) ELSE q
           same == {i \in DOMAIN kept : kept[i].dh = e.dh /\ kept[i].seq = e.seq}
<1>1. kept \in Seq(Skipped) /\ Len(kept) + 1 <= MaxSkipped
  BY BoundsAssumption
<1>2. CASE same = {}
  BY <1>1, <1>2, BoundsAssumption DEF Store
<1>3. CASE same # {}
  <2>1. Store(q, e) = [i \in DOMAIN kept |-> IF i \in same THEN e ELSE kept[i]]
    BY <1>3 DEF Store
  <2> HIDE DEF kept
  <2>2. DOMAIN kept = 1..Len(kept) /\ Len(kept) \in Nat
    BY <1>1
  <2>3. \A i \in 1..Len(kept) : (IF i \in same THEN e ELSE kept[i]) \in Skipped
    BY <1>1
  <2> QED BY <2>1, <2>2, <2>3, <1>1, BoundsAssumption
<1> QED BY <1>2, <1>3

\* from_json() gives back every field that to_json() took from a session, so a
\* session that is reloaded is the one that was saved, whatever its state.
LEMMA ReloadFaithful ==
  ASSUME NEW s \in Session
  PROVE  FromJson(ToJson(s)) = s
BY DEF FromJson, ToJson, Session

\* Every variable keeps its type, and the store of skipped keys its bound.
THEOREM RatchetTypeOK == Spec => [](TypeOK /\ SkippedBounded)
<1> DEFINE TInv == TypeOK /\ SkippedBounded
<1>1. Init => TInv
  <2> SUFFICES ASSUME Init PROVE TInv
    OBVIOUS
  <2>1. \A b \in BOOLEAN : AliceInit(b) \in Session /\ AliceInit(b).skipped = <<>>
    BY DEF AliceInit, SharedSecret, MixRoot, FirstChainKey, Session, Key, Party, Root,
           Secret, Exchange, ChainKey
  <2>2. \A b \in BOOLEAN : BobInit(b) \in Session /\ BobInit(b).skipped = <<>>
    BY DEF BobInit, SharedSecret, Session, Key, Party, Root, Secret
  <2> QED BY <2>1, <2>2, BoundsAssumption DEF Init, TypeOK, SkippedBounded
<1>2. TInv /\ [Next]_vars => TInv'
  <2> SUFFICES ASSUME TInv, [Next]_vars PROVE TInv'
    OBVIOUS
  <2>1. ASSUME NEW p \in Party, Encrypt(p) PROVE TInv'
    <3>1. sess[p] \in Session /\ sess[p].sck \in ChainKey
      BY <2>1 DEF Encrypt, TypeOK, Session
    <3>2. NextChainKey(sess[p].sck) \in ChainKey
      BY <3>1 DEF NextChainKey, ChainKey
    <3>3. Peer(p) \in Party
      BY DEF Peer, Party
    <3>4. [to |-> Peer(p), dh |-> sess[p].priv, seq |-> sess[p].seqSend,
           pn |-> sess[p].pn, key |-> sess[p].sck] \in Message
      BY <3>1, <3>3 DEF Session, Message
    <3>5. sent' \subseteq Message
      BY <2>1, <3>4 DEF Encrypt, TypeOK
    <3>6. sess' \in [Party -> Session]
      BY <2>1, <3>1, <3>2 DEF Encrypt, TypeOK, Session
    <3>7. SkippedBounded'
      BY <2>1 DEF Encrypt, TypeOK, SkippedBounded, Session
    <3> QED BY <2>1, <3>5, <3>6, <3>7 DEF Encrypt, TypeOK
  <2>2. ASSUME NEW p \in Party, NEW m \in sent, DecryptSkipped(p, m) PROVE TInv'
    <3>1. PICK i \in StoredAt(sess[p], m.dh, m.seq) :
            /\ Return(p, m, sess[p].skipped[i].key)
            /\ sess' = [sess EXCEPT ![p].skipped = WithoutIndex(@, i)]
      BY <2>2 DEF DecryptSkipped
    <3>2. sess[p] \in Session /\ sess[p].skipped \in Seq(Skipped) /\ i \in DOMAIN sess[p].skipped
      BY <3>1 DEF TypeOK, Session, StoredAt
    <3>3. sess[p].skipped[i].key \in ChainKey
      <4>1. i \in 1..Len(sess[p].skipped)
        BY <3>2
      <4>2. sess[p].skipped[i] \in Skipped
        BY <3>2, <4>1, ElementType
      <4> QED BY <4>2 DEF Skipped
    <3>4. [msg |-> m, key |-> sess[p].skipped[i].key] \in Result
      BY <3>3 DEF Result, TypeOK
    <3>5. results' \in [Party -> Seq(Result)]
      BY <3>1, <3>4 DEF Return, TypeOK
    <3>6. WithoutIndex(sess[p].skipped, i) \in Seq(Skipped)
          /\ Len(WithoutIndex(sess[p].skipped, i)) = Len(sess[p].skipped) - 1
      BY <3>2, WithoutIndexFacts
    <3>7. sess' \in [Party -> Session]
      BY <3>1, <3>2, <3>6 DEF TypeOK, Session
    <3>8. SkippedBounded'
      BY <3>1, <3>2, <3>6, BoundsAssumption DEF TypeOK, Session, SkippedBounded
    <3>9. clean' \in BOOLEAN
      BY <2>2 DEF DecryptSkipped, StillClean, TypeOK
    <3> QED BY <2>2, <3>5, <3>7, <3>8, <3>9 DEF DecryptSkipped, TypeOK
  <2>3. ASSUME NEW p \in Party, NEW m \in sent, DecryptNext(p, m) PROVE TInv'
    <3>1. clean' \in BOOLEAN
      BY <2>3 DEF DecryptNext, StillClean, TypeOK
    <3>2. call' \in [Party -> Call \cup {None}]
      BY <2>3 DEF DecryptNext, TypeOK, Call
    <3> QED BY <2>3, <3>1, <3>2 DEF DecryptNext, TypeOK, SkippedBounded
  <2>4. ASSUME NEW p \in Party, SkipMessage(p) PROVE TInv'
    <3>1. sess[p] \in Session /\ sess[p].rck \in ChainKey /\ sess[p].remote \in Key
      BY <2>4 DEF SkipMessage, SkipDone, TypeOK, Session
    <3>2. NextChainKey(sess[p].rck) \in ChainKey
      BY <3>1 DEF NextChainKey, ChainKey
    <3> DEFINE e == [dh |-> sess[p].remote, seq |-> sess[p].seqRecv, key |-> sess[p].rck]
    <3>3. e \in Skipped
      BY <3>1 DEF Skipped, Session
    <3>4. sess[p].skipped \in Seq(Skipped) /\ Len(sess[p].skipped) <= MaxSkipped
      BY <3>1 DEF Session, SkippedBounded
    <3>5. sess' = [sess EXCEPT ![p].skipped = Store(@, e),
                               ![p].rck = NextChainKey(@), ![p].seqRecv = @ + 1]
      BY <2>4 DEF SkipMessage
    <3> HIDE DEF e
    <3>6. Store(sess[p].skipped, e) \in Seq(Skipped) /\ Len(Store(sess[p].skipped, e)) <= MaxSkipped
      BY <3>3, <3>4, StoreType
    <3>7. sess' \in [Party -> Session]
      BY <3>1, <3>2, <3>5, <3>6 DEF TypeOK, Session
    <3>8. SkippedBounded'
      BY <3>5, <3>6 DEF TypeOK, Session, SkippedBounded
    <3>9. Len(sess[p].skipped) >= MaxSkipped => sess[p].skipped[1].key \in ChainKey
      <4> SUFFICES ASSUME Len(sess[p].skipped) >= MaxSkipped
                   PROVE  sess[p].skipped[1].key \in ChainKey
        OBVIOUS
      <4>1. 1 \in 1..Len(sess[p].skipped)
        BY <3>4, BoundsAssumption
      <4>2. sess[p].skipped[1] \in Skipped
        BY <3>4, <4>1, ElementType
      <4> QED BY <4>2 DEF Skipped
    <3>10. evicted' \in [Party -> SUBSET ChainKey]
      BY <2>4, <3>9 DEF SkipMessage, TypeOK
    <3> QED BY <2>4, <3>7, <3>8, <3>10 DEF SkipMessage, TypeOK
  <2>5. ASSUME NEW p \in Party, RefuseSkip(p) PROVE TInv'
    BY <2>5 DEF RefuseSkip, TypeOK, SkippedBounded
  <2>6. ASSUME NEW p \in Party, DHRatchet(p) PROVE TInv'
    <3>1. sess[p] \in Session /\ call[p] \in Call /\ call[p].msg.dh \in Key
      BY <2>6 DEF DHRatchet, TypeOK, Call, Message
    <3>2. \A r \in Root, k \in Key, l \in Key : MixRoot(r, k, l) \in Root
      BY DEF MixRoot, Root, Exchange
    <3>3. \A r \in Root : FirstChainKey(r) \in ChainKey
      BY DEF FirstChainKey, ChainKey
    <3>4. <<p, sess[p].priv[2] + 1>> \in Key
      BY <3>1 DEF Session, Key
    <3>5. sess' \in [Party -> Session]
      BY <2>6, <3>1, <3>2, <3>3, <3>4 DEF DHRatchet, TypeOK, Session, PrevChainLength
    <3>6. SkippedBounded'
      BY <2>6 DEF DHRatchet, TypeOK, Session, SkippedBounded
    <3>7. call' \in [Party -> Call \cup {None}]
      BY <2>6, <3>1 DEF DHRatchet, TypeOK, Call
    <3> QED BY <2>6, <3>5, <3>6, <3>7 DEF DHRatchet, TypeOK
  <2>7. ASSUME NEW p \in Party, DecryptDerive(p) PROVE TInv'
    <3>1. sess[p] \in Session /\ sess[p].rck \in ChainKey /\ call[p].msg \in Message
      BY <2>7 DEF DecryptDerive, TypeOK, Session, Call
    <3>2. NextChainKey(sess[p].rck) \in ChainKey
      BY <3>1 DEF NextChainKey, ChainKey
    <3>3. results' \in [Party -> Seq(Result)]
      <4>1. [msg |-> call[p].msg, key |-> sess[p].rck] \in Result
        BY <3>1 DEF Result
      <4>2. results' = [results EXCEPT ![p] =
                          Append(@, [msg |-> call[p].msg, key |-> sess[p].rck])]
        BY <2>7 DEF DecryptDerive, Return
      <4> QED BY <4>1, <4>2 DEF TypeOK
    <3>4. sess' \in [Party -> Session]
      BY <2>7, <3>1, <3>2 DEF DecryptDerive, TypeOK, Session
    <3>5. SkippedBounded'
      BY <2>7 DEF DecryptDerive, TypeOK, Session, SkippedBounded
    <3> QED BY <2>7, <3>3, <3>4, <3>5 DEF DecryptDerive, TypeOK
  <2>8. ASSUME NEW p \in Party, Reload(p) PROVE TInv'
    <3>1. FromJson(ToJson(sess[p])) = sess[p]
      BY ReloadFaithful DEF TypeOK
    <3>2. sess' = sess
      BY <2>8, <3>1 DEF Reload, TypeOK
    <3> QED BY <2>8, <3>2 DEF Reload, TypeOK, SkippedBounded
  <2>9. CASE UNCHANGED vars
    BY <2>9 DEF vars, TypeOK, SkippedBounded
  <2> QED
    BY <2>1, <2>2, <2>3, <2>4, <2>5, <2>6, <2>7, <2>8, <2>9 DEF Next
<1> QED BY <1>1, <1>2, PTL DEF Spec

-----------------------------------------------------------------------------
(* Keys are used once.  A root key is longer than every root key its session  *)
(* had before, Alice sends on roots of odd length and Bob on roots of even     *)
(* length: so a new chain never repeats a key, whatever is replayed.           *)

\* 1 for the party whose first sending chain is the first exchange.
Odd(p) == IF p = "alice" THEN 1 ELSE 0

Length(k) == Len(k.root.dhs)

\* The sending side of a session s of party p that has sent the messages M.
SendInv(p, s, M) ==
  /\ s.priv[1] = p
  /\ Len(s.root.dhs) = 2 * s.priv[2] + Odd(p)
  /\ s.sck # None => s.sck.root = s.root
  /\ \A m \in M : /\ m.dh[1] = p
                  /\ Length(m.key) = 2 * m.dh[2] + Odd(p)
                  /\ m.dh[2] <= s.priv[2]
                  /\ m.dh[2] = s.priv[2] =>
                       s.sck # None /\ m.key.root = s.root /\ m.key.n < s.sck.n
  /\ \A m1, m2 \in M : m1.key = m2.key => m1 = m2

\* A key that was derived on the receiving chain, or on one before it.
Taken(s, k) ==
  /\ s.rck # None
  /\ \E i \in Nat : Length(k) + 2 * i + 1 = Len(s.root.dhs)
  /\ Length(k) + 1 = Len(s.root.dhs) => k.root = s.rck.root /\ k.n < s.rck.n

SameHeader(a, b) == a.dh = b.dh /\ a.seq = b.seq

\* No key and no header is stored twice.
DistinctStore(q) ==
  \A i, j \in DOMAIN q : (q[i].key = q[j].key \/ SameHeader(q[i], q[j])) => i = j

\* The receiving side of a session s that has returned the results R.
RecvInv(s, R) ==
  /\ s.rck # None => Length(s.rck) + 1 = Len(s.root.dhs)
  /\ \A i \in DOMAIN R : Taken(s, R[i].key)
  /\ \A i \in DOMAIN s.skipped : Taken(s, s.skipped[i].key)
  /\ \A i, j \in DOMAIN R : R[i].key = R[j].key => i = j
  /\ \A i \in DOMAIN R, j \in DOMAIN s.skipped : R[i].key # s.skipped[j].key
  /\ DistinctStore(s.skipped)

KeyInv == \A p \in Party : SendInv(p, sess[p], SentBy(p)) /\ RecvInv(sess[p], results[p])

\* The parts of keys, messages and sessions have their types.
LEMMA KeyParts ==
  /\ \A k \in Key : k[1] \in Party /\ k[2] \in Nat
  /\ \A r \in Root : Len(r.dhs) \in Nat
  /\ \A k \in ChainKey : k.root \in Root /\ k.n \in Nat /\ Length(k) \in Nat
<1>1. \A k \in Key : k[1] \in Party /\ k[2] \in Nat
  BY DEF Key
<1>2. \A r \in Root : Len(r.dhs) \in Nat
  BY DEF Root
<1>3. \A k \in ChainKey : k.root \in Root /\ k.n \in Nat
  BY DEF ChainKey
<1> QED BY <1>1, <1>2, <1>3 DEF Length

LEMMA MessageParts ==
  ASSUME NEW m \in Message
  PROVE  /\ m.to \in Party /\ m.dh \in Key /\ m.key \in ChainKey
         /\ m.dh[2] \in Nat /\ m.seq \in Nat /\ m.pn \in Nat
         /\ Length(m.key) \in Nat /\ m.key.n \in Nat
<1>1. m.to \in Party /\ m.dh \in Key /\ m.key \in ChainKey /\ m.seq \in Nat /\ m.pn \in Nat
  BY DEF Message
<1> QED BY <1>1, KeyParts

LEMMA SessionParts ==
  ASSUME NEW s \in Session
  PROVE  /\ s.priv \in Key /\ s.remote \in Key \cup {None} /\ s.root \in Root
         /\ s.sck \in ChainKey \cup {None} /\ s.rck \in ChainKey \cup {None}
         /\ s.seqSend \in Nat /\ s.seqRecv \in Nat /\ s.pn \in Nat
         /\ s.skipped \in Seq(Skipped)
         /\ s.priv[2] \in Nat /\ Len(s.root.dhs) \in Nat
<1>1. /\ s.priv \in Key /\ s.remote \in Key \cup {None} /\ s.root \in Root
      /\ s.sck \in ChainKey \cup {None} /\ s.rck \in ChainKey \cup {None}
      /\ s.seqSend \in Nat /\ s.seqRecv \in Nat /\ s.pn \in Nat
      /\ s.skipped \in Seq(Skipped)
  BY DEF Session
<1> QED BY <1>1, KeyParts

\* Mixing an exchange into a root key gives a root key.
LEMMA MixRootType == \A r \in Root, k \in Key, l \in Key : MixRoot(r, k, l) \in Root
BY DEF MixRoot, Root, Exchange

\* The keys that a session returned and those it stores are chain keys.
LEMMA StoredTypes ==
  /\ \A R \in Seq(Result) : \A i \in DOMAIN R : R[i].key \in ChainKey
  /\ \A s \in Session : \A i \in DOMAIN s.skipped : s.skipped[i].key \in ChainKey
<1>1. ASSUME NEW R \in Seq(Result), NEW i \in DOMAIN R PROVE R[i].key \in ChainKey
  <2>1. R[i] \in Result
    BY <1>1, ElementType
  <2> QED BY <2>1 DEF Result
<1>2. ASSUME NEW s \in Session, NEW i \in DOMAIN s.skipped PROVE s.skipped[i].key \in ChainKey
  <2>1. s.skipped[i] \in Skipped
    BY <1>2, ElementType, SessionParts
  <2> QED BY <2>1 DEF Skipped
<1> QED BY <1>1, <1>2

\* encrypt() takes a key that no earlier message was given.
LEMMA EncryptKeeps ==
  ASSUME NEW p \in Party, NEW s \in Session, NEW M \in SUBSET Message, NEW R \in Seq(Result),
         SendInv(p, s, M), RecvInv(s, R), s.sck # None,
         NEW m \in Message, m.dh = s.priv, m.key = s.sck,
         NEW t \in Session, t.priv = s.priv, t.root = s.root, t.rck = s.rck,
         t.skipped = s.skipped, t.sck = NextChainKey(s.sck)
  PROVE  SendInv(p, t, M \cup {m}) /\ RecvInv(t, R)
<1>1. /\ t.priv = s.priv /\ t.root = s.root /\ t.rck = s.rck /\ t.skipped = s.skipped
      /\ t.sck = [s.sck EXCEPT !.n = @ + 1]
  BY DEF NextChainKey
<1>2. s.sck \in ChainKey /\ t.sck.root = s.sck.root /\ t.sck.n = s.sck.n + 1 /\ s.sck.n \in Nat
      /\ t.sck # None
  <2>1. s.sck \in ChainKey /\ t.sck \in ChainKey \cup {None}
    BY SessionParts
  <2>2. t.sck \in ChainKey /\ t.sck.root = s.sck.root /\ t.sck.n = s.sck.n + 1 /\ s.sck.n \in Nat
    BY <1>1, <2>1 DEF ChainKey
  <2> QED BY <2>1, <2>2, NoneAssumption
<1>3. SendInv(p, t, M \cup {m})
  <2>1. /\ s.priv[2] \in Nat /\ Len(s.root.dhs) \in Nat
        /\ \A x \in M : x.dh[2] \in Nat /\ Length(x.key) \in Nat /\ x.key.n \in Nat
    BY SessionParts, MessageParts
  <2>2. ASSUME NEW x \in M \cup {m}
        PROVE  /\ x.dh[1] = p
               /\ Length(x.key) = 2 * x.dh[2] + Odd(p)
               /\ x.dh[2] <= t.priv[2]
               /\ x.dh[2] = t.priv[2] =>
                    t.sck # None /\ x.key.root = t.root /\ x.key.n < t.sck.n
    <3>1. CASE x \in M
      BY <1>1, <1>2, <2>1, <3>1 DEF SendInv
    <3>2. CASE x = m
      <4>1. m.dh = s.priv /\ m.key.root = s.root /\ m.key.n = s.sck.n
        BY <1>2 DEF SendInv
      <4>2. m.dh[1] = p /\ Len(m.key.root.dhs) = 2 * m.dh[2] + Odd(p)
        BY <4>1 DEF SendInv
      <4>3. m.dh[2] <= t.priv[2]
        BY <1>1, <2>1, <4>1
      <4>4. m.key.n < t.sck.n
        BY <1>2, <4>1
      <4> QED BY <1>1, <1>2, <3>2, <4>1, <4>2, <4>3, <4>4 DEF Length
    <3> QED BY <3>1, <3>2
  <2>3. ASSUME NEW x \in M, x.key = m.key PROVE FALSE
    <3>1. m.key.root = s.root /\ m.key.n = s.sck.n
      BY <1>2 DEF SendInv
    <3>2. 2 * x.dh[2] + Odd(p) = 2 * s.priv[2] + Odd(p)
      BY <2>3, <3>1 DEF SendInv, Length
    <3>3. x.dh[2] = s.priv[2]
      BY <2>1, <3>2 DEF Odd
    <3> QED BY <1>2, <2>1, <2>3, <3>1, <3>3 DEF SendInv
  <2> QED BY <1>1, <1>2, <2>2, <2>3 DEF SendInv
<1>4. RecvInv(t, R)
  BY <1>1 DEF RecvInv, Taken
<1> QED BY <1>3, <1>4

\* The DH ratchet makes two longer root keys, so all keys taken before are older.
LEMMA RatchetKeeps ==
  ASSUME NEW p \in Party, NEW s \in Session, NEW M \in SUBSET Message, NEW R \in Seq(Result),
         SendInv(p, s, M), RecvInv(s, R), NEW remote \in Key, NEW t \in Session,
         t.priv = <<p, s.priv[2] + 1>>, t.skipped = s.skipped,
         t.rck = FirstChainKey(MixRoot(s.root, s.priv, remote)),
         t.root = MixRoot(MixRoot(s.root, s.priv, remote), t.priv, remote),
         t.sck = FirstChainKey(t.root)
  PROVE  SendInv(p, t, M) /\ RecvInv(t, R)
<1>1. /\ s.priv[2] \in Nat /\ Len(s.root.dhs) \in Nat /\ Odd(p) \in Nat
      /\ s.root.dhs \in Seq(Exchange)
      /\ \A m \in M : m.dh[2] \in Nat /\ Length(m.key) \in Nat
  BY SessionParts, MessageParts DEF Odd, Root
<1>2. Len(MixRoot(s.root, s.priv, remote).dhs) = Len(s.root.dhs) + 1
  BY <1>1, SessionParts DEF MixRoot, Root
<1>3. Len(t.root.dhs) = Len(s.root.dhs) + 2
  BY <1>1, SessionParts DEF MixRoot, Root
<1>4. t.sck.root = t.root /\ Length(t.rck) + 1 = Len(t.root.dhs)
  <2>1. t.sck.root = t.root /\ t.rck.root = MixRoot(s.root, s.priv, remote)
    BY DEF FirstChainKey
  <2>2. Length(t.rck) = Len(s.root.dhs) + 1
    BY <1>2, <2>1 DEF Length
  <2> QED BY <1>1, <1>3, <2>1, <2>2
<1>5. t.priv[1] = p /\ t.priv[2] = s.priv[2] + 1
  OBVIOUS
<1>6. SendInv(p, t, M)
  <2>1. Len(t.root.dhs) = 2 * t.priv[2] + Odd(p)
    BY <1>1, <1>3, <1>5 DEF SendInv
  <2>2. \A m \in M : m.dh[2] < t.priv[2]
    BY <1>1, <1>5 DEF SendInv
  <2>3. \A m \in M : m.dh[2] <= t.priv[2] /\ m.dh[2] # t.priv[2]
    BY <1>1, <1>5, <2>2
  <2> QED BY <1>4, <1>5, <2>1, <2>3 DEF SendInv
<1>7. t.rck # None
  <2>1. MixRoot(s.root, s.priv, remote) \in Root
    BY SessionParts, MixRootType
  <2> QED BY <2>1, NoneAssumption DEF FirstChainKey, ChainKey
<1>8. ASSUME NEW k \in ChainKey, Taken(s, k) PROVE Taken(t, k)
  <2>1. Length(k) \in Nat
    BY KeyParts
  <2>2. PICK i \in Nat : Length(k) + 2 * i + 1 = Len(s.root.dhs)
    BY <1>8 DEF Taken
  <2>3. Length(k) + 2 * (i + 1) + 1 = Len(t.root.dhs) /\ i + 1 \in Nat
    <3>1. \A a, b, j \in Nat : a + 2 * j + 1 = b => a + 2 * (j + 1) + 1 = b + 2 /\ j + 1 \in Nat
      OBVIOUS
    <3> QED BY <1>1, <1>3, <2>1, <2>2, <3>1
  <2>4. Length(k) + 1 # Len(t.root.dhs)
    <3>1. \A a, b, j \in Nat : a + 2 * j + 1 = b => a + 1 # b + 2
      OBVIOUS
    <3> QED BY <1>1, <1>3, <2>1, <2>2, <3>1
  <2> QED BY <1>7, <2>3, <2>4 DEF Taken
<1>9. /\ \A i \in DOMAIN R : R[i].key \in ChainKey
      /\ \A i \in DOMAIN s.skipped : s.skipped[i].key \in ChainKey
  BY StoredTypes
<1> QED BY <1>4, <1>6, <1>8, <1>9 DEF RecvInv

\* The step of the receiving chain: its key was not taken before and is now.
LEMMA ChainStep ==
  ASSUME NEW s \in Session, s.rck # None, Length(s.rck) + 1 = Len(s.root.dhs),
         NEW t \in Session, t.root = s.root, t.rck = NextChainKey(s.rck)
  PROVE  /\ t.rck # None /\ Length(t.rck) + 1 = Len(t.root.dhs)
         /\ Taken(t, s.rck) /\ ~Taken(s, s.rck)
         /\ \A k \in ChainKey : Taken(s, k) => Taken(t, k)
<1>1. s.rck \in ChainKey /\ t.rck \in ChainKey
  <2>1. s.rck \in ChainKey
    BY SessionParts
  <2>2. NextChainKey(s.rck) \in ChainKey
    BY <2>1 DEF NextChainKey, ChainKey
  <2> QED BY <2>1, <2>2
<1>2. t.rck.root = s.rck.root /\ t.rck.n = s.rck.n + 1 /\ s.rck.n \in Nat
  BY <1>1 DEF NextChainKey, ChainKey
<1>3. t.rck # None /\ Length(t.rck) + 1 = Len(t.root.dhs)
  BY <1>1, <1>2, NoneAssumption DEF Length
<1>4. Length(s.rck) + 2 * 0 + 1 = Len(s.root.dhs)
  BY <1>1, KeyParts
<1>5. s.rck.n < t.rck.n /\ ~(s.rck.n < s.rck.n)
  BY <1>2
<1>6. Taken(t, s.rck) /\ ~Taken(s, s.rck)
  BY <1>2, <1>3, <1>4, <1>5 DEF Taken
<1>7. ASSUME NEW k \in ChainKey, Taken(s, k) PROVE Taken(t, k)
  <2>1. k.n \in Nat
    BY KeyParts
  <2>2. k.n < s.rck.n => k.n < t.rck.n
    BY <1>2, <2>1
  <2> QED BY <1>2, <1>3, <1>7, <2>2 DEF Taken
<1> QED BY <1>3, <1>6, <1>7

\* The end of decrypt(): the next key of the receiving chain is returned.
LEMMA DeriveKeeps ==
  ASSUME NEW p \in Party, NEW s \in Session, NEW M \in SUBSET Message, NEW R \in Seq(Result),
         SendInv(p, s, M), RecvInv(s, R), s.rck # None, NEW r \in Result, r.key = s.rck,
         NEW t \in Session,
         t = [s EXCEPT !.rck = NextChainKey(@), !.seqRecv = @ + 1]
  PROVE  SendInv(p, t, M) /\ RecvInv(t, Append(R, r))
<1>1. /\ t.priv = s.priv /\ t.root = s.root /\ t.sck = s.sck /\ t.skipped = s.skipped
      /\ t.rck = NextChainKey(s.rck)
  BY DEF Session
<1>2. SendInv(p, t, M)
  BY <1>1 DEF SendInv
<1> DEFINE Q == Append(R, r)
<1>3. /\ Len(Q) = Len(R) + 1 /\ DOMAIN Q = 1..(Len(R) + 1) /\ DOMAIN R = 1..Len(R)
      /\ Q[Len(R) + 1] = r /\ Len(R) \in Nat
      /\ \A i \in 1..Len(R) : Q[i] = R[i]
  OBVIOUS
<1> HIDE DEF Q
<1>4. /\ t.rck # None /\ Length(t.rck) + 1 = Len(t.root.dhs)
      /\ Taken(t, s.rck) /\ ~Taken(s, s.rck)
      /\ \A k \in ChainKey : Taken(s, k) => Taken(t, k)
  BY <1>1, ChainStep DEF RecvInv
<1>5. /\ \A i \in DOMAIN R : R[i].key \in ChainKey /\ Taken(s, R[i].key)
      /\ \A i \in DOMAIN s.skipped : s.skipped[i].key \in ChainKey /\ Taken(s, s.skipped[i].key)
  BY StoredTypes DEF RecvInv
<1>6. ASSUME NEW i \in DOMAIN Q PROVE i \in DOMAIN R \/ i = Len(R) + 1
  BY <1>3
<1>7. \A i \in DOMAIN Q : Taken(t, Q[i].key)
  BY <1>3, <1>4, <1>5, <1>6
<1>8. \A i, j \in DOMAIN Q : Q[i].key = Q[j].key => i = j
  BY <1>3, <1>4, <1>5, <1>6 DEF RecvInv
<1>9. \A i \in DOMAIN Q, j \in DOMAIN s.skipped : Q[i].key # s.skipped[j].key
  BY <1>3, <1>4, <1>5, <1>6 DEF RecvInv
<1>10. RecvInv(t, Q)
  <2> USE <1>1
  <2> QED BY <1>4, <1>5, <1>7, <1>8, <1>9 DEF RecvInv
<1> QED BY <1>2, <1>10 DEF Q

\* One iteration of the skip loop stores e once, drops at most the oldest entry
\* and the one with the header of e, and keeps the others.
LEMMA StoreFacts ==
  ASSUME NEW q \in Seq(Skipped), NEW e \in Skipped, DistinctStore(q),
         \A i \in DOMAIN q : q[i].key # e.key
  PROVE  /\ \A j \in DOMAIN Store(q, e) :
              Store(q, e)[j] = e \/ \E i \in DOMAIN q : Store(q, e)[j] = q[i]
         /\ DistinctStore(Store(q, e))
         /\ \E j \in DOMAIN Store(q, e) : Store(q, e)[j] = e
         /\ \A i \in DOMAIN q :
              \/ Len(q) >= MaxSkipped /\ i = 1
              \/ SameHeader(q[i], e)
              \/ \E j \in DOMAIN Store(q, e) : Store(q, e)[j] = q[i]
<1> DEFINE kept == IF Len(q) >= MaxSkipped THEN Tail(q) ELSE q
           off == IF Len(q) >= MaxSkipped THEN 1 ELSE 0
           same == {i \in DOMAIN kept : kept[i].dh = e.dh /\ kept[i].seq = e.seq}
           r == Store(q, e)
<1>1. /\ Len(q) \in Nat /\ DOMAIN q = 1..Len(q) /\ off \in {0, 1}
      /\ Len(q) >= MaxSkipped => Len(q) >= 1
  BY BoundsAssumption
<1>2. /\ kept \in Seq(Skipped) /\ Len(kept) = Len(q) - off
      /\ DOMAIN kept = 1..Len(kept) /\ \A i \in 1..Len(kept) : kept[i] = q[i + off]
  <2>1. CASE Len(q) >= MaxSkipped
    BY <1>1, <2>1
  <2>2. CASE ~(Len(q) >= MaxSkipped)
    BY <1>1, <2>2
  <2> QED BY <2>1, <2>2
<1>3. r = IF same = {} THEN Append(kept, e)
          ELSE [i \in DOMAIN kept |-> IF i \in same THEN e ELSE kept[i]]
  BY DEF Store
<1>4. off = 1 => Len(q) >= MaxSkipped
  OBVIOUS
<1> HIDE DEF kept, off, r
<1>5. \A i \in 1..Len(kept) : i + off \in DOMAIN q
  BY <1>1, <1>2
<1>6. \A i, j \in 1..Len(kept) : i + off = j + off => i = j
  BY <1>1
<1>7. \A i, j \in 1..Len(kept) : (kept[i].key = kept[j].key \/ SameHeader(kept[i], kept[j])) => i = j
  BY <1>2, <1>5, <1>6 DEF DistinctStore
<1>8. \A i \in 1..Len(kept) : kept[i].key # e.key
  BY <1>2, <1>5
<1>9. same = {i \in 1..Len(kept) : SameHeader(kept[i], e)}
  BY <1>2 DEF SameHeader
<1>10. /\ \A j \in DOMAIN r : r[j] = e \/ \E i \in 1..Len(kept) : r[j] = kept[i]
       /\ DistinctStore(r)
       /\ \E j \in DOMAIN r : r[j] = e
       /\ \A i \in 1..Len(kept) : SameHeader(kept[i], e) \/ \E j \in DOMAIN r : r[j] = kept[i]
  <2>1. CASE same = {}
    <3>1. r = Append(kept, e)
      BY <1>3, <2>1
    <3>2. /\ DOMAIN r = 1..(Len(kept) + 1) /\ r[Len(kept) + 1] = e
          /\ \A i \in 1..Len(kept) : r[i] = kept[i] /\ i \in 1..(Len(kept) + 1)
          /\ Len(kept) + 1 \in 1..(Len(kept) + 1)
      BY <1>2, <3>1
    <3>3. \A i \in 1..(Len(kept) + 1) : i \in 1..Len(kept) \/ i = Len(kept) + 1
      BY <1>2
    <3>4. \A i \in 1..Len(kept) : ~SameHeader(kept[i], e) /\ ~SameHeader(e, kept[i])
      BY <1>9, <2>1 DEF SameHeader
    <3>5. DistinctStore(r)
      BY <3>2, <3>3, <3>4, <1>7, <1>8 DEF DistinctStore
    <3> QED BY <3>2, <3>3, <3>5
  <2>2. CASE same # {}
    <3>1. r = [i \in 1..Len(kept) |-> IF i \in same THEN e ELSE kept[i]]
      BY <1>2, <1>3, <2>2
    <3>2. PICK k \in same : TRUE
      BY <2>2
    <3>3. k \in 1..Len(kept) /\ SameHeader(kept[k], e)
      BY <1>9, <3>2
    <3>4. \A i \in 1..Len(kept) : i \in same => i = k
      BY <1>7, <1>9, <3>3 DEF SameHeader
    <3>5. r[k] = e /\ DOMAIN r = 1..Len(kept) /\ \A i \in 1..Len(kept) : i # k => r[i] = kept[i]
      BY <3>1, <3>2, <3>3, <3>4
    <3>6. \A i \in 1..Len(kept) : i # k => ~SameHeader(kept[i], e) /\ ~SameHeader(e, kept[i])
      BY <3>3, <1>7 DEF SameHeader
    <3>7. DistinctStore(r)
      BY <3>3, <3>5, <3>6, <1>7, <1>8 DEF DistinctStore
    <3> QED BY <3>3, <3>5, <3>6, <3>7
  <2> QED BY <2>1, <2>2
<1>11. ASSUME NEW i \in DOMAIN q
       PROVE  \/ Len(q) >= MaxSkipped /\ i = 1
              \/ \E j \in 1..Len(kept) : kept[j] = q[i]
  <2>1. CASE off = 1 /\ i = 1
    BY <1>4, <2>1
  <2>2. CASE ~(off = 1 /\ i = 1)
    <3>1. i - off \in 1..Len(kept) /\ (i - off) + off = i
      BY <1>1, <1>2, <2>2
    <3> QED BY <1>2, <3>1
  <2> QED BY <2>1, <2>2
<1>12. \A j \in DOMAIN r : r[j] = e \/ \E i \in DOMAIN q : r[j] = q[i]
  BY <1>2, <1>5, <1>10
<1>13. ASSUME NEW i \in DOMAIN q
       PROVE  \/ Len(q) >= MaxSkipped /\ i = 1
              \/ SameHeader(q[i], e)
              \/ \E j \in DOMAIN r : r[j] = q[i]
  BY <1>10, <1>11
<1> QED BY <1>10, <1>12, <1>13 DEF r

\* An iteration of the skip loop moves the next key of the chain into the store.
LEMMA SkipKeeps ==
  ASSUME NEW p \in Party, NEW s \in Session, NEW M \in SUBSET Message, NEW R \in Seq(Result),
         SendInv(p, s, M), RecvInv(s, R), s.rck # None, NEW e \in Skipped, e.key = s.rck,
         NEW t \in Session, t.priv = s.priv, t.root = s.root, t.sck = s.sck,
         t.skipped = Store(s.skipped, e), t.rck = NextChainKey(s.rck)
  PROVE  SendInv(p, t, M) /\ RecvInv(t, R)
<1>1. /\ t.priv = s.priv /\ t.root = s.root /\ t.sck = s.sck
      /\ t.skipped = Store(s.skipped, e) /\ t.rck = NextChainKey(s.rck)
  OBVIOUS
<1>2. SendInv(p, t, M)
  BY <1>1 DEF SendInv
<1>3. /\ t.rck # None /\ Length(t.rck) + 1 = Len(t.root.dhs)
      /\ Taken(t, s.rck) /\ ~Taken(s, s.rck)
      /\ \A k \in ChainKey : Taken(s, k) => Taken(t, k)
  BY <1>1, ChainStep DEF RecvInv
<1>4. /\ \A i \in DOMAIN R : R[i].key \in ChainKey /\ Taken(s, R[i].key)
      /\ \A i \in DOMAIN s.skipped : s.skipped[i].key \in ChainKey /\ Taken(s, s.skipped[i].key)
  BY StoredTypes DEF RecvInv
<1>5. s.skipped \in Seq(Skipped) /\ DistinctStore(s.skipped)
  BY SessionParts DEF RecvInv
<1>6. \A i \in DOMAIN s.skipped : s.skipped[i].key # e.key
  BY <1>3, <1>4
<1>7. /\ \A j \in DOMAIN t.skipped :
           t.skipped[j] = e \/ \E i \in DOMAIN s.skipped : t.skipped[j] = s.skipped[i]
      /\ DistinctStore(t.skipped)
  BY <1>1, <1>5, <1>6, StoreFacts
<1>8. \A j \in DOMAIN t.skipped : Taken(t, t.skipped[j].key)
  BY <1>3, <1>4, <1>7
<1>9. \A i \in DOMAIN R, j \in DOMAIN t.skipped : R[i].key # t.skipped[j].key
  BY <1>3, <1>4, <1>7 DEF RecvInv
<1>10. RecvInv(t, R)
  BY <1>3, <1>4, <1>7, <1>8, <1>9 DEF RecvInv
<1> QED BY <1>2, <1>10

\* A stored key leaves the store when it is returned.
LEMMA TakeKeeps ==
  ASSUME NEW p \in Party, NEW s \in Session, NEW M \in SUBSET Message, NEW R \in Seq(Result),
         SendInv(p, s, M), RecvInv(s, R), NEW i \in DOMAIN s.skipped,
         NEW r \in Result, r.key = s.skipped[i].key,
         NEW t \in Session, t = [s EXCEPT !.skipped = WithoutIndex(@, i)]
  PROVE  SendInv(p, t, M) /\ RecvInv(t, Append(R, r))
<1>1. /\ t.priv = s.priv /\ t.root = s.root /\ t.sck = s.sck /\ t.rck = s.rck
      /\ t.skipped = WithoutIndex(s.skipped, i)
  BY DEF Session
<1>2. SendInv(p, t, M)
  BY <1>1 DEF SendInv
<1> DEFINE Q == Append(R, r)
           old(j) == IF j < i THEN j ELSE j + 1
<1>3. /\ DOMAIN Q = 1..(Len(R) + 1) /\ DOMAIN R = 1..Len(R)
      /\ Q[Len(R) + 1] = r /\ Len(R) \in Nat
      /\ \A k \in 1..Len(R) : Q[k] = R[k]
      /\ \A k \in DOMAIN Q : k \in DOMAIN R \/ k = Len(R) + 1
  OBVIOUS
<1>4. /\ s.skipped \in Seq(Skipped) /\ t.skipped \in Seq(Skipped)
      /\ Len(t.skipped) = Len(s.skipped) - 1
      /\ \A j \in DOMAIN t.skipped : t.skipped[j] = s.skipped[old(j)]
  <2>1. s.skipped \in Seq(Skipped)
    BY SessionParts
  <2>2. /\ WithoutIndex(s.skipped, i) \in Seq(Skipped)
        /\ Len(WithoutIndex(s.skipped, i)) = Len(s.skipped) - 1
        /\ \A j \in DOMAIN WithoutIndex(s.skipped, i) :
             WithoutIndex(s.skipped, i)[j] = s.skipped[IF j < i THEN j ELSE j + 1]
    BY <2>1, WithoutIndexFacts
  <2> QED BY <1>1, <2>1, <2>2
<1>5. /\ \A j \in DOMAIN t.skipped : old(j) \in DOMAIN s.skipped /\ old(j) # i
      /\ \A j, k \in DOMAIN t.skipped : old(j) = old(k) => j = k
  <2>1. DOMAIN t.skipped = 1..(Len(s.skipped) - 1) /\ DOMAIN s.skipped = 1..Len(s.skipped)
        /\ Len(s.skipped) \in Nat
    BY <1>4
  <2> QED BY <2>1
<1> HIDE DEF Q, old
<1>6. DistinctStore(t.skipped)
  BY <1>4, <1>5 DEF DistinctStore, RecvInv
<1>7. \A j \in DOMAIN t.skipped : t.skipped[j].key # r.key
  BY <1>4, <1>5 DEF DistinctStore, RecvInv
<1>8. \A k : Taken(t, k) <=> Taken(s, k)
  BY <1>1 DEF Taken
<1>9. \A k \in DOMAIN Q : Taken(t, Q[k].key)
  BY <1>3, <1>8 DEF RecvInv
<1>10. \A j \in DOMAIN t.skipped : Taken(t, t.skipped[j].key)
  BY <1>4, <1>5, <1>8 DEF RecvInv
<1>11. \A k \in DOMAIN R : R[k].key # r.key
  BY DEF RecvInv
<1>12. \A k, j \in DOMAIN Q : Q[k].key = Q[j].key => k = j
  BY <1>3, <1>11 DEF RecvInv
<1>13. ASSUME NEW k \in DOMAIN Q, NEW j \in DOMAIN t.skipped
       PROVE  Q[k].key # t.skipped[j].key
  <2>1. CASE k \in DOMAIN R
    <3>1. R[k].key # s.skipped[old(j)].key
      BY <1>5, <2>1 DEF RecvInv
    <3> QED BY <1>3, <1>4, <2>1, <3>1
  <2>2. CASE k = Len(R) + 1
    BY <1>3, <1>7, <2>2
  <2> QED BY <1>3, <2>1, <2>2
<1>14. RecvInv(t, Q)
  BY <1>1, <1>6, <1>9, <1>10, <1>12, <1>13 DEF RecvInv
<1> QED BY <1>2, <1>14 DEF Q

\* The inductive invariant about keys is kept by every step.
LEMMA KeyInvStep ==
  ASSUME TypeOK, TypeOK', KeyInv, [Next]_vars
  PROVE  KeyInv'
<1> DEFINE PInv(p) == SendInv(p, sess[p], SentBy(p)) /\ RecvInv(sess[p], results[p])
<1>1. \A p \in Party : /\ sess[p] \in Session /\ results[p] \in Seq(Result)
                       /\ sess'[p] \in Session /\ SentBy(p) \in SUBSET Message
                       /\ PInv(p)
  BY DEF TypeOK, KeyInv, SentBy
<1>2. ASSUME NEW p \in Party, Encrypt(p) PROVE KeyInv'
  <2> DEFINE m == [to |-> Peer(p), dh |-> sess[p].priv, seq |-> sess[p].seqSend,
                   pn |-> sess[p].pn, key |-> sess[p].sck]
             t == [sess[p] EXCEPT !.sck = NextChainKey(@), !.seqSend = @ + 1]
  <2>1. /\ sess[p].sck # None /\ sent' = sent \cup {m} /\ results' = results
        /\ sess' = [sess EXCEPT ![p] = t]
    BY <1>2, <1>1 DEF Encrypt, TypeOK
  <2>2. m \in Message /\ sess'[p] = t
    BY <2>1, <1>1 DEF TypeOK
  <2>3. SentBy(p)' = SentBy(p) \cup {m} /\ \A q \in Party : q # p => SentBy(q)' = SentBy(q)
    BY <2>1 DEF SentBy, Peer, Party
  <2>4. /\ m.dh = sess[p].priv /\ m.key = sess[p].sck
        /\ t.priv = sess[p].priv /\ t.root = sess[p].root /\ t.rck = sess[p].rck
        /\ t.skipped = sess[p].skipped /\ t.sck = NextChainKey(sess[p].sck)
    BY <1>1 DEF Session
  <2> HIDE DEF m, t
  <2>5. SendInv(p, t, SentBy(p) \cup {m}) /\ RecvInv(t, results[p])
    BY <1>1, <2>1, <2>2, <2>4, EncryptKeeps
  <2> QED BY <1>1, <2>1, <2>2, <2>3, <2>5 DEF KeyInv, TypeOK
<1>3. ASSUME NEW p \in Party, NEW m \in sent, DecryptSkipped(p, m) PROVE KeyInv'
  <2>1. PICK i \in StoredAt(sess[p], m.dh, m.seq) :
          /\ Return(p, m, sess[p].skipped[i].key)
          /\ sess' = [sess EXCEPT ![p].skipped = WithoutIndex(@, i)]
    BY <1>3 DEF DecryptSkipped
  <2> DEFINE r == [msg |-> m, key |-> sess[p].skipped[i].key]
             t == [sess[p] EXCEPT !.skipped = WithoutIndex(@, i)]
  <2>2. i \in DOMAIN sess[p].skipped /\ sess[p].skipped[i].key \in ChainKey
    BY <1>1, StoredTypes DEF StoredAt
  <2>3. r \in Result /\ r.key = sess[p].skipped[i].key
    BY <2>2 DEF Result, TypeOK
  <2>4. sess' = [sess EXCEPT ![p] = t] /\ results' = [results EXCEPT ![p] = Append(@, r)]
        /\ sent' = sent
    BY <1>3, <2>1 DEF TypeOK, Return, DecryptSkipped
  <2>5. sess'[p] = t /\ t \in Session
    BY <1>1, <2>4 DEF TypeOK
  <2> HIDE DEF r, t
  <2>6. SendInv(p, t, SentBy(p)) /\ RecvInv(t, Append(results[p], r))
    BY <1>1, <2>2, <2>3, <2>5, TakeKeeps DEF t
  <2>7. \A q \in Party : SentBy(q)' = SentBy(q)
    BY <2>4 DEF SentBy
  <2> QED BY <1>1, <2>4, <2>5, <2>6, <2>7 DEF KeyInv, TypeOK
<1>4. ASSUME NEW p \in Party, NEW m \in sent, DecryptNext(p, m) PROVE KeyInv'
  BY <1>4 DEF DecryptNext, KeyInv, SentBy
<1>5. ASSUME NEW p \in Party, SkipMessage(p) PROVE KeyInv'
  <2> DEFINE e == [dh |-> sess[p].remote, seq |-> sess[p].seqRecv, key |-> sess[p].rck]
             t == [sess[p] EXCEPT !.skipped = Store(@, e), !.rck = NextChainKey(@),
                                  !.seqRecv = @ + 1]
  <2>1. /\ sess[p].rck # None /\ sess[p].remote # None /\ sent' = sent /\ results' = results
        /\ sess' = [sess EXCEPT ![p] = t]
    BY <1>5, <1>1 DEF SkipMessage, SkipDone, TypeOK
  <2>2. e \in Skipped /\ e.key = sess[p].rck
    BY <1>1, <2>1, SessionParts DEF Skipped
  <2>3. /\ sess'[p] = t /\ t \in Session
    BY <1>1, <2>1 DEF TypeOK
  <2>6. /\ t.priv = sess[p].priv /\ t.root = sess[p].root /\ t.sck = sess[p].sck
        /\ t.skipped = Store(sess[p].skipped, e) /\ t.rck = NextChainKey(sess[p].rck)
    BY <1>1 DEF Session
  <2> HIDE DEF e, t
  <2>4. SendInv(p, t, SentBy(p)) /\ RecvInv(t, results[p])
    BY <1>1, <2>1, <2>2, <2>3, <2>6, SkipKeeps
  <2>5. \A q \in Party : SentBy(q)' = SentBy(q)
    BY <2>1 DEF SentBy
  <2> QED BY <1>1, <2>1, <2>3, <2>4, <2>5 DEF KeyInv, TypeOK
<1>6. ASSUME NEW p \in Party, RefuseSkip(p) PROVE KeyInv'
  BY <1>6 DEF RefuseSkip, KeyInv, SentBy
<1>7. ASSUME NEW p \in Party, DHRatchet(p) PROVE KeyInv'
  <2> DEFINE s == sess[p]
             remote == call[p].msg.dh
             recvRoot == MixRoot(s.root, s.priv, remote)
             sendRoot == MixRoot(recvRoot, <<p, s.priv[2] + 1>>, remote)
             t == [s EXCEPT !.priv = <<p, s.priv[2] + 1>>, !.remote = remote,
                            !.root = sendRoot,
                            !.sck = FirstChainKey(sendRoot),
                            !.rck = FirstChainKey(recvRoot),
                            !.pn = PrevChainLength(s), !.seqSend = 0, !.seqRecv = 0]
  <2>1. remote \in Key
    BY <1>7 DEF DHRatchet, TypeOK, Call, Message
  <2>2. /\ sess'[p].priv = <<p, s.priv[2] + 1>> /\ sess'[p].skipped = s.skipped
        /\ sess'[p].rck = FirstChainKey(recvRoot)
        /\ sess'[p].root = MixRoot(recvRoot, sess'[p].priv, remote)
        /\ sess'[p].sck = FirstChainKey(sess'[p].root)
        /\ \A q \in Party : q # p => sess'[q] = sess[q]
        /\ sent' = sent /\ results' = results
    <3>1. sess' = [sess EXCEPT ![p] = t] /\ sent' = sent /\ results' = results
      BY <1>7 DEF DHRatchet
    <3>2. sess'[p] = t /\ \A q \in Party : q # p => sess'[q] = sess[q]
      BY <3>1 DEF TypeOK
    <3>3. s \in Session
      BY <1>1
    <3> HIDE DEF s, recvRoot, sendRoot, remote
    <3>4. /\ t.priv = <<p, s.priv[2] + 1>> /\ t.skipped = s.skipped
          /\ t.rck = FirstChainKey(recvRoot) /\ t.root = sendRoot
          /\ t.sck = FirstChainKey(sendRoot)
      BY <3>3 DEF Session
    <3> QED BY <3>1, <3>2, <3>4 DEF sendRoot
  <2>3. SendInv(p, sess'[p], SentBy(p)) /\ RecvInv(sess'[p], results[p])
    BY <1>1, <2>1, <2>2, RatchetKeeps
  <2>4. \A q \in Party : SentBy(q)' = SentBy(q)
    BY <2>2 DEF SentBy
  <2> QED BY <1>1, <2>2, <2>3, <2>4 DEF KeyInv
<1>8. ASSUME NEW p \in Party, DecryptDerive(p) PROVE KeyInv'
  <2> DEFINE r == [msg |-> call[p].msg, key |-> sess[p].rck]
             t == [sess[p] EXCEPT !.rck = NextChainKey(@), !.seqRecv = @ + 1]
  <2>1. /\ sess[p].rck # None /\ sent' = sent
        /\ results' = [results EXCEPT ![p] = Append(@, r)]
        /\ sess' = [sess EXCEPT ![p] = t]
    BY <1>8, <1>1 DEF DecryptDerive, TypeOK, Return
  <2>2. call[p] \in Call /\ sess[p].rck \in ChainKey
    BY <1>1, <1>8, <2>1, SessionParts DEF DecryptDerive, TypeOK
  <2>3. r \in Result /\ r.key = sess[p].rck
    BY <2>2 DEF Result, Call
  <2>4. sess'[p] = t /\ t \in Session
    BY <1>1, <2>1 DEF TypeOK
  <2> HIDE DEF r, t
  <2>5. SendInv(p, t, SentBy(p)) /\ RecvInv(t, Append(results[p], r))
    BY <1>1, <2>1, <2>3, <2>4, DeriveKeeps DEF t
  <2>6. \A q \in Party : SentBy(q)' = SentBy(q)
    BY <2>1 DEF SentBy
  <2> QED BY <1>1, <2>1, <2>4, <2>5, <2>6 DEF KeyInv, TypeOK
<1>9. ASSUME NEW p \in Party, Reload(p) PROVE KeyInv'
  <2>1. FromJson(ToJson(sess[p])) = sess[p]
    BY <1>1, ReloadFaithful
  <2>2. sess' = sess
    BY <1>9, <2>1 DEF Reload, TypeOK
  <2> QED BY <1>9, <2>2 DEF Reload, KeyInv, SentBy
<1>10. CASE UNCHANGED vars
  BY <1>10 DEF vars, KeyInv, SentBy
<1> QED
  BY <1>2, <1>3, <1>4, <1>5, <1>6, <1>7, <1>8, <1>9, <1>10 DEF Next

\* An odd distance is not an even one.
LEMMA Parity ==
  ASSUME NEW a \in Nat, NEW b \in Nat, NEW i \in Nat, NEW o \in Nat
  PROVE  (2 * a + o) + 2 * i + 1 # 2 * b + o
OBVIOUS

\* The first chains: Alice can send, Bob cannot, nothing is stored.
LEMMA KeyInvInit == Init => KeyInv
<1> SUFFICES ASSUME Init PROVE KeyInv
  OBVIOUS
<1>1. SentBy("alice") = {} /\ SentBy("bob") = {}
  BY DEF Init, SentBy
<1>2. results["alice"] = <<>> /\ results["bob"] = <<>>
  BY DEF Init, Party
<1>3. \A b \in BOOLEAN :
        LET s == AliceInit(b) IN
        /\ s.priv = <<"alice", 0>> /\ Len(s.root.dhs) = 1 /\ s.sck.root = s.root
        /\ s.rck = None /\ s.skipped = <<>>
  <2> TAKE b \in BOOLEAN
  <2> DEFINE r == [ss |-> SharedSecret(b), dhs |-> <<>>]
  <2>1. /\ AliceInit(b).priv = <<"alice", 0>> /\ AliceInit(b).rck = None
        /\ AliceInit(b).skipped = <<>>
        /\ AliceInit(b).root = MixRoot(r, <<"alice", 0>>, <<"bob", 0>>)
        /\ AliceInit(b).sck = FirstChainKey(AliceInit(b).root)
    BY DEF AliceInit
  <2>2. AliceInit(b).root.dhs = Append(<<>>, {<<"alice", 0>>, <<"bob", 0>>})
    BY <2>1 DEF MixRoot
  <2>3. AliceInit(b).sck.root = AliceInit(b).root
    BY <2>1 DEF FirstChainKey
  <2>4. \A x : Len(Append(<<>>, x)) = 1
    OBVIOUS
  <2>5. Len(AliceInit(b).root.dhs) = 1
    BY <2>2, <2>4
  <2> QED BY <2>1, <2>3, <2>5
<1>4. \A b \in BOOLEAN :
        LET s == BobInit(b) IN
        /\ s.priv = <<"bob", 0>> /\ Len(s.root.dhs) = 0 /\ s.sck = None
        /\ s.rck = None /\ s.skipped = <<>>
  BY DEF BobInit
<1>5. /\ sess["alice"].priv = <<"alice", 0>> /\ Len(sess["alice"].root.dhs) = 1
      /\ sess["alice"].sck.root = sess["alice"].root
      /\ sess["alice"].rck = None /\ sess["alice"].skipped = <<>>
  BY <1>3 DEF Init, Party
<1>6. /\ sess["bob"].priv = <<"bob", 0>> /\ Len(sess["bob"].root.dhs) = 0
      /\ sess["bob"].sck = None
      /\ sess["bob"].rck = None /\ sess["bob"].skipped = <<>>
  BY <1>4 DEF Init, Party
<1>7. SendInv("alice", sess["alice"], {}) /\ SendInv("bob", sess["bob"], {})
  BY <1>5, <1>6 DEF SendInv, Odd
<1>8. RecvInv(sess["alice"], <<>>) /\ RecvInv(sess["bob"], <<>>)
  BY <1>5, <1>6 DEF RecvInv, DistinctStore
<1> QED BY <1>1, <1>2, <1>7, <1>8 DEF KeyInv, Party

\* Every key serves one message and is gone when it has been used, whatever the
\* network loses, reorders and repeats: encrypt() and decrypt() of both parties.
THEOREM RatchetKeysOnce == Spec => [](KeysOnce /\ ForwardSecrecy)
<1>1. Init => KeyInv
  BY KeyInvInit
<1>2. TypeOK /\ TypeOK' /\ KeyInv /\ [Next]_vars => KeyInv'
  BY KeyInvStep
<1>3. TypeOK /\ KeyInv => KeysOnce
  <2> SUFFICES ASSUME TypeOK, KeyInv PROVE KeysOnce
    OBVIOUS
  <2>1. ASSUME NEW m1 \in sent, NEW m2 \in sent, m1.key = m2.key PROVE m1 = m2
    <3>1. m1 \in Message /\ m2 \in Message
      BY DEF TypeOK
    <3> DEFINE p == Peer(m1.to)
               q == Peer(m2.to)
    <3>2. p \in Party /\ q \in Party /\ m1 \in SentBy(p) /\ m2 \in SentBy(q)
      BY <3>1, MessageParts DEF Peer, Party, SentBy
    <3>3. CASE p = q
      BY <2>1, <3>2, <3>3 DEF KeyInv, SendInv
    <3>4. CASE p # q
      <4>1. Length(m1.key) = 2 * m1.dh[2] + Odd(p) /\ Length(m2.key) = 2 * m2.dh[2] + Odd(q)
        BY <3>2 DEF KeyInv, SendInv
      <4>2. Odd(p) + Odd(q) = 1 /\ Odd(p) \in Nat /\ Odd(q) \in Nat
        BY <3>2, <3>4 DEF Odd, Party
      <4>3. m1.dh[2] \in Nat /\ m2.dh[2] \in Nat
        BY <3>1, MessageParts
      <4> HIDE DEF p, q
      <4>4. 2 * m1.dh[2] + Odd(p) # 2 * m2.dh[2] + Odd(q)
        BY <4>2, <4>3
      <4> QED BY <2>1, <4>1, <4>4
    <3> QED BY <3>3, <3>4
  <2>2. ASSUME NEW p \in Party, NEW i \in DOMAIN results[p], NEW j \in DOMAIN results[p],
               results[p][i].key = results[p][j].key
        PROVE  i = j
    BY <2>2 DEF KeyInv, RecvInv
  <2> QED BY <2>1, <2>2 DEF KeysOnce
<1>4. TypeOK /\ KeyInv => ForwardSecrecy
  <2> SUFFICES ASSUME TypeOK, KeyInv, NEW p \in Party
               PROVE  /\ \A i \in DOMAIN results[p] : ~Holds(sess[p], results[p][i].key)
                      /\ \A m \in SentBy(p) : ~Holds(sess[p], m.key)
    BY DEF ForwardSecrecy
  <2> DEFINE s == sess[p]
             R == results[p]
  <2>1. s \in Session /\ R \in Seq(Result) /\ SentBy(p) \in SUBSET Message
        /\ SendInv(p, s, SentBy(p)) /\ RecvInv(s, R)
    BY DEF TypeOK, KeyInv, SentBy
  <2>2. /\ \A i \in DOMAIN R : R[i].key \in ChainKey
        /\ \A i \in DOMAIN s.skipped : s.skipped[i].key \in ChainKey
    BY <2>1, StoredTypes
  <2>3. /\ Len(s.root.dhs) \in Nat /\ s.priv[2] \in Nat /\ Odd(p) \in Nat
        /\ \A k \in ChainKey : k.n \in Nat /\ Length(k) \in Nat
        /\ s.rck \in ChainKey \cup {None} /\ s.sck \in ChainKey \cup {None}
    BY <2>1, SessionParts, KeyParts DEF Odd
  <2> HIDE DEF s, R
  <2>4. ASSUME NEW k \in ChainKey, Taken(s, k) PROVE ~Derives(s.rck, k) /\ ~Derives(s.sck, k)
    <3>1. PICK i \in Nat : Length(k) + 2 * i + 1 = Len(s.root.dhs)
      BY <2>4 DEF Taken
    <3>2. ~Derives(s.rck, k)
      <4> SUFFICES ASSUME Derives(s.rck, k) PROVE FALSE
        OBVIOUS
      <4>1. Length(k) + 1 = Len(s.root.dhs) /\ s.rck \in ChainKey
        BY <2>1, <2>3 DEF Derives, RecvInv, Length
      <4>2. k.n < s.rck.n /\ s.rck.n <= k.n
        BY <2>4, <4>1 DEF Taken, Derives
      <4> QED BY <2>3, <4>1, <4>2
    <3>3. Length(k) # Len(s.root.dhs)
      BY <2>3, <3>1
    <3> QED BY <2>1, <3>2, <3>3 DEF SendInv, Derives, Length
  <2>5. ASSUME NEW i \in DOMAIN R PROVE ~Holds(s, R[i].key)
    BY <2>1, <2>2, <2>4 DEF Holds, RecvInv
  <2>6. ASSUME NEW m \in SentBy(p) PROVE ~Holds(s, m.key)
    <3>1. m.key \in ChainKey /\ m.dh[2] \in Nat /\ m.key.n \in Nat /\ Length(m.key) \in Nat
      BY <2>1, MessageParts
    <3>2. Length(m.key) = 2 * m.dh[2] + Odd(p) /\ Len(s.root.dhs) = 2 * s.priv[2] + Odd(p)
      BY <2>1 DEF SendInv
    <3>3. ASSUME NEW i \in Nat PROVE Length(m.key) + 2 * i + 1 # Len(s.root.dhs)
      <4>1. (2 * m.dh[2] + Odd(p)) + 2 * i + 1 # 2 * s.priv[2] + Odd(p)
        BY <2>3, <3>1, Parity
      <4> QED BY <3>2, <4>1
    <3>4. ~Taken(s, m.key)
      BY <3>3 DEF Taken
    <3>5. \A i \in DOMAIN s.skipped : s.skipped[i].key # m.key
      BY <2>1, <3>4 DEF RecvInv
    <3>6. ~Derives(s.rck, m.key)
      <4> SUFFICES ASSUME Derives(s.rck, m.key) PROVE FALSE
        OBVIOUS
      <4>1. Length(m.key) + 1 = Len(s.root.dhs)
        BY <2>1 DEF Derives, RecvInv, Length
      <4>2. Length(m.key) + 2 * 0 + 1 # Len(s.root.dhs)
        BY <3>3
      <4> QED BY <3>1, <4>1, <4>2
    <3>7. ~Derives(s.sck, m.key)
      <4> SUFFICES ASSUME Derives(s.sck, m.key) PROVE FALSE
        OBVIOUS
      <4>1. s.sck \in ChainKey /\ m.key.root = s.root /\ s.sck.n <= m.key.n
        BY <2>1, <2>3 DEF Derives, SendInv
      <4>2. m.dh[2] = s.priv[2]
        BY <2>3, <3>1, <3>2, <4>1 DEF Length
      <4>3. m.key.n < s.sck.n
        BY <2>1, <4>2 DEF SendInv
      <4> QED BY <2>3, <3>1, <4>1, <4>3
    <3> QED BY <3>5, <3>6, <3>7 DEF Holds
  <2> QED BY <2>5, <2>6 DEF s, R
<1>5. Spec => []TypeOK
  BY RatchetTypeOK, PTL
<1> QED BY <1>1, <1>2, <1>3, <1>4, <1>5, PTL DEF Spec

-----------------------------------------------------------------------------
(* Agreement.  In an undisturbed session the two parties walk one sequence of  *)
(* root keys in turn: the root of length n is made by the first n exchanges,   *)
(* and each party is at most one sending chain ahead of what the other has     *)
(* seen of it.                                                                 *)

\* The k-th exchange: Alice has made (k - 1) \div 2 new key pairs, Bob k \div 2.
NthExchange(k) == {<<"alice", (k - 1) \div 2>>, <<"bob", k \div 2>>}

Line(ss, n) == [ss |-> ss, dhs |-> [k \in 1..n |-> NthExchange(k)]]

\* The n-th key of the sending chain of p's k-th key pair.
LineKey(ss, p, k, n) == [root |-> Line(ss, 2 * k + Odd(p)), n |-> n]

\* The number of the peer's key pair that a session has reached, -1 for none.
Reached(p, s) == s.priv[2] - 1 + Odd(p)

\* The fields of the session of p.
SessionOnLine(ss, p, s) ==
  /\ s.priv[1] = p
  /\ s.root = Line(ss, 2 * s.priv[2] + Odd(p))
  /\ IF p = "alice" \/ s.priv[2] > 0
     THEN s.sck = LineKey(ss, p, s.priv[2], s.seqSend) /\ s.remote = <<Peer(p), Reached(p, s)>>
     ELSE s.sck = None /\ s.remote = None
  /\ IF s.priv[2] > 0 THEN s.rck = LineKey(ss, Peer(p), Reached(p, s), s.seqRecv)
     ELSE s.rck = None

\* The messages M that p has sent.
SentOnLine(ss, p, s, M) ==
  /\ \A m \in M :
       /\ m.dh[1] = p /\ m.key = LineKey(ss, p, m.dh[2], m.seq)
       /\ m.dh[2] <= s.priv[2] /\ (p = "bob" => m.dh[2] > 0)
       /\ m.dh[2] = s.priv[2] => m.seq < s.seqSend
       /\ m.dh[2] + 1 = s.priv[2] => m.seq < s.pn
  /\ \A m1, m2 \in M : m1.dh[2] + 1 = m2.dh[2] => m1.seq < m2.pn

\* The peer, whose session is z, has at most one key pair the session s of p has
\* not reached, and has encrypted every message s has taken a key for.
InStep(p, s, z) ==
  /\ Reached(p, s) <= z.priv[2] /\ z.priv[2] <= Reached(p, s) + 1
  /\ z.priv[2] = Reached(p, s) => s.seqRecv <= z.seqSend

\* A message whose key the session of p has yet to derive.
Ahead(p, s, m) ==
  \/ m.dh[2] > Reached(p, s)
  \/ m.dh[2] = Reached(p, s) /\ m.seq >= s.seqRecv

\* What p has stored and returned, and what it may still open of the messages M.
StoreOnLine(ss, p, s) ==
  \A i \in DOMAIN s.skipped :
    LET e == s.skipped[i]
    IN  e.dh[1] = Peer(p) /\ e.key = LineKey(ss, Peer(p), e.dh[2], e.seq)

KeysKept(p, s, R, E, M) ==
  \A m \in M : \/ \E i \in DOMAIN R : R[i].msg = m
               \/ m.key \in E
               \/ StoredAt(s, m.dh, m.seq) # {}
               \/ Ahead(p, s, m)

ResultsAgree(R) == \A i \in DOMAIN R : R[i].key = R[i].msg.key

\* The message of a call in progress is ahead of the session.
CallAhead(p, s, c, M) ==
  c # None =>
    /\ c.msg \in M
    /\ c.phase = "skipPrev" => c.msg.dh[2] = Reached(p, s) + 1
    /\ c.phase = "skipCur" => c.msg.dh[2] = Reached(p, s) /\ c.msg.seq >= s.seqRecv

\* Party p, that has sent M, returned R, evicted E and is in the call c, and its
\* peer, whose session is z and that has sent N.
PartyOnLine(ss, p, s, M, R, E, c, z, N) ==
  /\ SessionOnLine(ss, p, s)
  /\ SentOnLine(ss, p, s, M)
  /\ InStep(p, s, z)
  /\ StoreOnLine(ss, p, s)
  /\ KeysKept(p, s, R, E, N)
  /\ ResultsAgree(R)
  /\ CallAhead(p, s, c, N)

OnLine(ss) ==
  \A p \in Party : PartyOnLine(ss, p, sess[p], SentBy(p), results[p], evicted[p],
                               call[p], sess[Peer(p)], SentBy(Peer(p)))

LineInv == clean => \E ss \in Secret : OnLine(ss)

\* The numbers the argument is about.
LEMMA Indices ==
  ASSUME NEW p \in Party, NEW s \in Session
  PROVE  /\ s.priv[2] \in Nat /\ s.seqSend \in Nat /\ s.seqRecv \in Nat /\ s.pn \in Nat
         /\ Odd(p) \in {0, 1} /\ Odd(Peer(p)) = 1 - Odd(p)
         /\ Reached(p, s) \in Int /\ Reached(p, s) = s.priv[2] - 1 + Odd(p)
         /\ Peer(p) \in Party /\ Peer(Peer(p)) = p /\ Peer(p) # p
         /\ p = "alice" <=> Odd(p) = 1
<1>1. s.priv[2] \in Nat /\ s.seqSend \in Nat /\ s.seqRecv \in Nat /\ s.pn \in Nat
  BY SessionParts
<1>2. /\ Odd(p) \in {0, 1} /\ Odd(Peer(p)) = 1 - Odd(p)
      /\ Peer(p) \in Party /\ Peer(Peer(p)) = p /\ Peer(p) # p
      /\ p = "alice" <=> Odd(p) = 1
  BY DEF Odd, Peer, Party
<1> QED BY <1>1, <1>2 DEF Reached

\* A key pair is its owner and its number.
LEMMA KeyEq == \A k \in Key : k = <<k[1], k[2]>>
BY DEF Key

\* The exchanges of the sequence, by the numbers of the key pairs.
LEMMA Exchanges ==
  ASSUME NEW i \in Nat
  PROVE  /\ NthExchange(2 * i + 1) = {<<"alice", i>>, <<"bob", i>>}
         /\ NthExchange(2 * i + 2) = {<<"alice", i>>, <<"bob", i + 1>>}
<1>1. ((2 * i + 1) - 1) \div 2 = i /\ (2 * i + 1) \div 2 = i
  OBVIOUS
<1>2. ((2 * i + 2) - 1) \div 2 = i /\ (2 * i + 2) \div 2 = i + 1
  OBVIOUS
<1> QED BY <1>1, <1>2 DEF NthExchange

\* Mixing the next exchange into a root of the line gives the next root.
LEMMA LineStep ==
  ASSUME NEW ss \in Secret, NEW n \in Nat, NEW a, NEW b, {a, b} = NthExchange(n + 1)
  PROVE  MixRoot(Line(ss, n), a, b) = Line(ss, n + 1)
<1> DEFINE q == [k \in 1..n |-> NthExchange(k)]
<1>1. q \in Seq({NthExchange(k) : k \in 1..n}) /\ Len(q) = n
  OBVIOUS
<1>2. Append(q, NthExchange(n + 1)) = [k \in 1..(n + 1) |-> NthExchange(k)]
  <2> DEFINE r == Append(q, NthExchange(n + 1))
             w == [k \in 1..(n + 1) |-> NthExchange(k)]
  <2>1. r = [k \in 1..(n + 1) |-> IF k = n + 1 THEN NthExchange(n + 1) ELSE q[k]]
    BY <1>1
  <2>2. \A k \in 1..(n + 1) : (IF k = n + 1 THEN NthExchange(n + 1) ELSE q[k]) = NthExchange(k)
    OBVIOUS
  <2> QED BY <2>1, <2>2
<1>3. Line(ss, n) = [ss |-> ss, dhs |-> q]
  BY DEF Line
<1> HIDE DEF q
<1>4. MixRoot(Line(ss, n), a, b) = [ss |-> ss, dhs |-> Append(q, {a, b})]
  <2> DEFINE x == Line(ss, n)
             y == MixRoot(x, a, b)
             A == {q, Append(q, {a, b})}
  <2>1. x \in [ss : Secret, dhs : A] /\ x.ss = ss /\ x.dhs = q
    BY <1>3
  <2>2. y = [x EXCEPT !.dhs = Append(x.dhs, {a, b})]
    BY DEF MixRoot
  <2> HIDE DEF x, y
  <2>3. y \in [ss : Secret, dhs : A] /\ y.ss = ss /\ y.dhs = Append(q, {a, b})
    BY <2>1, <2>2
  <2> QED BY <2>3 DEF y, x
<1> QED BY <1>2, <1>4 DEF Line

\* The keys of the line: the length of the root gives the key pair.
LEMMA LineKeys ==
  ASSUME NEW ss \in Secret, NEW p \in Party, NEW k \in Nat, NEW n \in Nat
  PROVE  /\ Length(LineKey(ss, p, k, n)) = 2 * k + Odd(p)
         /\ NextChainKey(LineKey(ss, p, k, n)) = LineKey(ss, p, k, n + 1)
         /\ LineKey(ss, p, k, n) \in ChainKey
<1>1. /\ LineKey(ss, p, k, n).root = Line(ss, 2 * k + Odd(p)) /\ LineKey(ss, p, k, n).n = n
      /\ NextChainKey(LineKey(ss, p, k, n)) = LineKey(ss, p, k, n + 1)
  BY DEF LineKey, NextChainKey
<1>2. 2 * k + Odd(p) \in Nat
  BY DEF Odd
<1>3. \A j \in Nat : Line(ss, j) \in Root /\ Len(Line(ss, j).dhs) = j
  <2> TAKE j \in Nat
  <2> DEFINE q == [i \in 1..j |-> NthExchange(i)]
  <2>1. \A i \in 1..j : NthExchange(i) \in Exchange
    BY DEF NthExchange, Exchange, Key, Party
  <2>2. q \in Seq(Exchange) /\ Len(q) = j
    BY <2>1
  <2> HIDE DEF q
  <2>3. Line(ss, j) = [ss |-> ss, dhs |-> q]
    BY DEF Line, q
  <2> QED BY <2>2, <2>3 DEF Root
<1>4. LineKey(ss, p, k, n) \in ChainKey
  BY <1>2, <1>3 DEF LineKey, ChainKey
<1> QED BY <1>1, <1>2, <1>3, <1>4 DEF Length

\* encrypt(): the new message is the next of its chain, which its receiver has
\* not passed.
LEMMA EncryptOnLine ==
  ASSUME NEW ss \in Secret, NEW p \in Party, NEW s \in Session, NEW z \in Session,
         NEW M \in SUBSET Message, NEW N \in SUBSET Message,
         NEW R, NEW E, NEW c, NEW S, NEW F, NEW d,
         PartyOnLine(ss, p, s, M, R, E, c, z, N),
         PartyOnLine(ss, Peer(p), z, N, S, F, d, s, M),
         s.sck # None, NEW m \in Message, m.dh = s.priv, m.seq = s.seqSend, m.pn = s.pn,
         m.key = s.sck,
         NEW t \in Session, t.priv = s.priv, t.remote = s.remote, t.root = s.root,
         t.sck = NextChainKey(s.sck), t.rck = s.rck, t.seqSend = s.seqSend + 1,
         t.seqRecv = s.seqRecv, t.pn = s.pn, t.skipped = s.skipped
  PROVE  /\ PartyOnLine(ss, p, t, M \cup {m}, R, E, c, z, N)
         /\ PartyOnLine(ss, Peer(p), z, N, S, F, d, t, M \cup {m})
<1> DEFINE q == Peer(p)
<1>1. /\ s.priv[2] \in Nat /\ s.seqSend \in Nat /\ z.priv[2] \in Nat /\ z.seqRecv \in Nat
      /\ q \in Party /\ Peer(q) = p /\ Reached(q, z) \in Int
  BY Indices
<1>2. /\ p = "alice" \/ s.priv[2] > 0
      /\ s.sck = LineKey(ss, p, s.priv[2], s.seqSend)
  BY DEF PartyOnLine, SessionOnLine
<1>3. t.sck = LineKey(ss, p, t.priv[2], t.seqSend)
  <2>1. NextChainKey(LineKey(ss, p, s.priv[2], s.seqSend)) = LineKey(ss, p, s.priv[2], s.seqSend + 1)
    BY <1>1, LineKeys
  <2> QED BY <1>2, <2>1
<1>4. Reached(p, t) = Reached(p, s)
  BY DEF Reached
<1>5. SessionOnLine(ss, p, t)
  BY <1>2, <1>3, <1>4 DEF PartyOnLine, SessionOnLine
<1>6. \A x \in M \cup {m} : x.dh[2] \in Nat /\ x.seq \in Nat /\ x.pn \in Nat
  BY MessageParts
<1>7. ASSUME NEW x \in M \cup {m}
      PROVE  /\ x.dh[1] = p /\ x.key = LineKey(ss, p, x.dh[2], x.seq)
             /\ x.dh[2] <= t.priv[2] /\ (p = "bob" => x.dh[2] > 0)
             /\ x.dh[2] = t.priv[2] => x.seq < t.seqSend
             /\ x.dh[2] + 1 = t.priv[2] => x.seq < t.pn
  <2>1. CASE x \in M
    <3>1. x.seq < s.seqSend => x.seq < t.seqSend
      BY <1>1, <1>6
    <3> QED BY <2>1, <3>1 DEF PartyOnLine, SentOnLine
  <2>2. CASE x = m
    <3>1. m.dh[1] = p
      BY DEF PartyOnLine, SessionOnLine
    <3>2. m.dh[2] <= t.priv[2] /\ m.seq < t.seqSend /\ m.dh[2] + 1 # t.priv[2]
      BY <1>1
    <3> QED BY <1>2, <2>2, <3>1, <3>2
  <2> QED BY <2>1, <2>2
<1>8. ASSUME NEW x \in M \cup {m}, NEW y \in M \cup {m}, x.dh[2] + 1 = y.dh[2]
      PROVE  x.seq < y.pn
  <2>1. x \in M
    <3>1. y.dh[2] <= s.priv[2]
      BY <1>7
    <3> QED BY <1>1, <1>8, <3>1
  <2>2. CASE y \in M
    BY <1>8, <2>1, <2>2 DEF PartyOnLine, SentOnLine
  <2>3. CASE y = m
    BY <1>7, <1>8, <2>3
  <2> QED BY <2>2, <2>3
<1>9. SentOnLine(ss, p, t, M \cup {m})
  BY <1>7, <1>8 DEF SentOnLine
<1>10. PartyOnLine(ss, p, t, M \cup {m}, R, E, c, z, N)
  BY <1>4, <1>5, <1>9
     DEF PartyOnLine, InStep, StoreOnLine, KeysKept, Ahead, StoredAt, CallAhead
<1>11. InStep(q, z, t)
  <2>1. z.seqRecv <= s.seqSend => z.seqRecv <= t.seqSend
    BY <1>1
  <2> QED BY <2>1 DEF PartyOnLine, InStep
<1>12. Ahead(q, z, m)
  <2>1. /\ Reached(q, z) <= s.priv[2] /\ m.dh[2] = s.priv[2] /\ m.seq = s.seqSend
        /\ s.priv[2] = Reached(q, z) => z.seqRecv <= s.seqSend
    BY DEF PartyOnLine, InStep
  <2>2. s.priv[2] > Reached(q, z) \/ s.priv[2] = Reached(q, z)
    BY <1>1, <2>1
  <2>3. z.seqRecv <= s.seqSend => m.seq >= z.seqRecv
    BY <1>1
  <2> QED BY <2>1, <2>2, <2>3 DEF Ahead
<1>13. KeysKept(q, z, S, F, M \cup {m}) /\ CallAhead(q, z, d, M \cup {m})
  BY <1>12 DEF PartyOnLine, KeysKept, CallAhead
<1> QED BY <1>10, <1>11, <1>13 DEF PartyOnLine

\* The first part of decrypt(): a message that is neither consumed, evicted nor
\* stored is ahead, on the current chain or on the next.
LEMMA NextOnLine ==
  ASSUME NEW ss \in Secret, NEW p \in Party, NEW s \in Session, NEW z \in Session,
         NEW M \in SUBSET Message, NEW N \in SUBSET Message, NEW R, NEW E, NEW c,
         PartyOnLine(ss, p, s, M, R, E, c, z, N), SentOnLine(ss, Peer(p), z, N),
         NEW m \in N, \A i \in DOMAIN R : R[i].msg # m, m.key \notin E,
         StoredAt(s, m.dh, m.seq) = {},
         NEW d, d.msg = m, d.phase = IF s.remote # m.dh THEN "skipPrev" ELSE "skipCur"
  PROVE  PartyOnLine(ss, p, s, M, R, E, d, z, N)
<1> DEFINE q == Peer(p)
           r == Reached(p, s)
<1>1. /\ s.priv[2] \in Nat /\ s.seqRecv \in Nat /\ z.priv[2] \in Nat /\ r \in Int
      /\ r = s.priv[2] - 1 + Odd(p) /\ Odd(p) \in {0, 1} /\ (p = "alice" <=> Odd(p) = 1)
      /\ m.dh \in Key /\ m.dh[2] \in Nat /\ m.seq \in Nat
  BY Indices, MessageParts
<1>2. Ahead(p, s, m)
  BY DEF PartyOnLine, KeysKept
<1>3. m.dh[1] = q /\ m.dh[2] <= z.priv[2] /\ z.priv[2] <= r + 1
  BY DEF PartyOnLine, SentOnLine, InStep
<1>4. m.dh = <<q, m.dh[2]>>
  BY <1>1, <1>3, KeyEq
<1> HIDE DEF r
<1>5. m.dh[2] = r \/ m.dh[2] = r + 1
  <2>1. m.dh[2] >= r
    BY <1>1, <1>2 DEF Ahead, r
  <2> QED BY <1>1, <1>3, <2>1
<1>6. m.dh[2] = r => s.remote = m.dh
  <2>1. m.dh[2] = r => Odd(p) = 1 \/ s.priv[2] > 0
    BY <1>1
  <2> QED BY <1>1, <1>4, <2>1 DEF PartyOnLine, SessionOnLine, r
<1>7. s.remote = m.dh => m.dh[2] = r
  <2>1. m.dh # None
    BY <1>1, NoneAssumption
  <2>2. s.remote = m.dh => m.dh = <<q, r>>
    BY <2>1 DEF PartyOnLine, SessionOnLine, r
  <2> QED BY <2>2
<1>8. m.dh[2] = r => m.seq >= s.seqRecv
  BY <1>1, <1>2 DEF Ahead, r
<1>9. CallAhead(p, s, d, N)
  BY <1>5, <1>6, <1>7, <1>8 DEF CallAhead, r
<1> QED BY <1>9 DEF PartyOnLine

\* An iteration of the skip loop: the key is the one of the next message of the
\* chain, and goes to the store under the header of that message.
LEMMA SkipOnLine ==
  ASSUME NEW ss \in Secret, NEW p \in Party, NEW s \in Session, NEW z \in Session,
         NEW M \in SUBSET Message, NEW N \in SUBSET Message,
         NEW R, NEW E, NEW F, NEW c,
         PartyOnLine(ss, p, s, M, R, E, c, z, N), SentOnLine(ss, Peer(p), z, N),
         RecvInv(s, R),
         c # None, c.phase \in {"skipPrev", "skipCur"}, ~SkipDone(s, c),
         NEW e \in Skipped, e.dh = s.remote, e.seq = s.seqRecv, e.key = s.rck,
         NEW t \in Session, t.priv = s.priv, t.remote = s.remote, t.root = s.root,
         t.sck = s.sck, t.rck = NextChainKey(s.rck), t.seqSend = s.seqSend,
         t.seqRecv = s.seqRecv + 1, t.pn = s.pn, t.skipped = Store(s.skipped, e),
         E \subseteq F, Len(s.skipped) >= MaxSkipped => s.skipped[1].key \in F
  PROVE  PartyOnLine(ss, p, t, M, R, F, c, z, N)
<1> DEFINE q == Peer(p)
           r == Reached(p, s)
<1>1. /\ s.priv[2] \in Nat /\ s.seqRecv \in Nat /\ z.priv[2] \in Nat /\ z.seqSend \in Nat
      /\ r \in Int /\ r = s.priv[2] - 1 + Odd(p) /\ Odd(p) \in {0, 1} /\ q \in Party
  BY Indices
<1>2. /\ s.priv[2] > 0 /\ s.rck = LineKey(ss, q, r, s.seqRecv) /\ s.remote = <<q, r>>
      /\ s.seqRecv < UntilSeq(c)
  <2>1. s.rck # None /\ ~(s.seqRecv >= UntilSeq(c)) /\ c.msg \in Message
    BY DEF SkipDone, PartyOnLine, CallAhead
  <2>2. UntilSeq(c) \in Nat
    BY <2>1, MessageParts DEF UntilSeq
  <2> QED BY <1>1, <2>1, <2>2 DEF PartyOnLine, SessionOnLine
<1>3. r \in Nat
  BY <1>1, <1>2
<1>4. Reached(p, t) = r
  BY DEF Reached
<1>5. t.rck = LineKey(ss, q, r, t.seqRecv)
  <2>1. NextChainKey(LineKey(ss, q, r, s.seqRecv)) = LineKey(ss, q, r, s.seqRecv + 1)
    BY <1>1, <1>3, LineKeys
  <2> QED BY <1>2, <2>1
<1> HIDE DEF r
<1>6. SessionOnLine(ss, p, t)
  BY <1>2, <1>4, <1>5 DEF PartyOnLine, SessionOnLine, r
<1>7. c.msg \in N /\ c.msg \in Message /\ c.msg.seq \in Nat /\ c.msg.dh[2] \in Nat
  BY MessageParts DEF PartyOnLine, CallAhead
<1>8. InStep(p, t, z) /\ CallAhead(p, t, c, N)
  <2>1. CASE c.phase = "skipPrev"
    <3>1. c.msg.dh[2] = r + 1 /\ c.msg.dh[2] <= z.priv[2]
      BY <1>7, <2>1 DEF PartyOnLine, CallAhead, SentOnLine, r
    <3>2. z.priv[2] # r
      BY <1>1, <3>1
    <3>3. InStep(p, t, z)
      BY <1>4, <3>2 DEF PartyOnLine, InStep, r
    <3>4. c.phase # "skipCur"
      BY <2>1
    <3>5. CallAhead(p, t, c, N)
      BY <1>4, <3>4 DEF PartyOnLine, CallAhead, r
    <3> QED BY <3>3, <3>5
  <2>2. CASE c.phase = "skipCur"
    <3>1. c.msg.dh[2] = r /\ (c.msg.dh[2] = z.priv[2] => c.msg.seq < z.seqSend)
      BY <1>7, <2>2 DEF PartyOnLine, CallAhead, SentOnLine, r
    <3>2. s.seqRecv < c.msg.seq
      BY <1>2, <2>2 DEF UntilSeq
    <3>3. z.priv[2] = r => s.seqRecv + 1 <= z.seqSend
      BY <1>1, <1>7, <3>1, <3>2
    <3>4. c.msg.seq >= s.seqRecv + 1
      BY <1>1, <1>7, <3>2
    <3>5. InStep(p, t, z)
      BY <1>4, <3>3 DEF PartyOnLine, InStep, r
    <3>6. CallAhead(p, t, c, N)
      BY <1>4, <1>7, <2>2, <3>1, <3>4 DEF CallAhead
    <3> QED BY <3>5, <3>6
  <2> QED BY <2>1, <2>2
<1>9. SentOnLine(ss, p, t, M)
  BY DEF PartyOnLine, SentOnLine
<1>10. s.skipped \in Seq(Skipped) /\ DistinctStore(s.skipped)
       /\ \A i \in DOMAIN s.skipped : s.skipped[i].key # e.key
  <2>1. s.rck # None
    BY DEF SkipDone
  <2>2. Length(s.rck) + 1 = Len(s.root.dhs) /\ DistinctStore(s.skipped)
        /\ \A i \in DOMAIN s.skipped : Taken(s, s.skipped[i].key)
    BY <2>1 DEF RecvInv
  <2>3. ~Taken(s, s.rck)
    BY <2>1, <2>2, ChainStep
  <2> QED BY <2>2, <2>3, SessionParts
<1>11. /\ \A j \in DOMAIN t.skipped :
            t.skipped[j] = e \/ \E i \in DOMAIN s.skipped : t.skipped[j] = s.skipped[i]
       /\ \E j \in DOMAIN t.skipped : t.skipped[j] = e
       /\ \A i \in DOMAIN s.skipped :
            \/ Len(s.skipped) >= MaxSkipped /\ i = 1
            \/ SameHeader(s.skipped[i], e)
            \/ \E j \in DOMAIN t.skipped : t.skipped[j] = s.skipped[i]
  BY <1>10, StoreFacts
<1>12. StoreOnLine(ss, p, t)
  <2>1. e.dh[1] = q /\ e.key = LineKey(ss, q, e.dh[2], e.seq)
    BY <1>2
  <2> QED BY <1>11, <2>1 DEF StoreOnLine, PartyOnLine
<1>13. ASSUME NEW m \in N, StoredAt(s, m.dh, m.seq) # {}
       PROVE  m.key \in F \/ StoredAt(t, m.dh, m.seq) # {}
  <2>1. PICK i \in DOMAIN s.skipped : s.skipped[i].dh = m.dh /\ s.skipped[i].seq = m.seq
    BY <1>13 DEF StoredAt
  <2>2. s.skipped[i].key = m.key
    BY <2>1 DEF PartyOnLine, StoreOnLine, SentOnLine
  <2>3. CASE Len(s.skipped) >= MaxSkipped /\ i = 1
    BY <2>2, <2>3
  <2>4. CASE SameHeader(s.skipped[i], e)
    BY <1>11, <2>1, <2>4 DEF SameHeader, StoredAt
  <2>5. CASE \E j \in DOMAIN t.skipped : t.skipped[j] = s.skipped[i]
    BY <2>1, <2>5 DEF StoredAt
  <2> QED BY <1>11, <2>3, <2>4, <2>5
<1>14. ASSUME NEW m \in N, Ahead(p, s, m)
       PROVE  Ahead(p, t, m) \/ StoredAt(t, m.dh, m.seq) # {}
  <2>1. m.dh \in Key /\ m.dh[2] \in Nat /\ m.seq \in Nat /\ m.dh[1] = q
    BY MessageParts DEF SentOnLine
  <2>2. CASE m.dh[2] = r /\ m.seq = s.seqRecv
    <3>1. m.dh = <<q, r>>
      BY <2>1, <2>2, KeyEq
    <3> QED BY <1>2, <1>11, <2>2, <3>1 DEF StoredAt
  <2>3. CASE m.dh[2] = r /\ m.seq # s.seqRecv
    <3>1. m.seq >= s.seqRecv
      BY <1>1, <1>14, <2>3 DEF Ahead, r
    <3>2. m.seq >= s.seqRecv + 1
      BY <1>1, <2>1, <2>3, <3>1
    <3> QED BY <1>4, <2>3, <3>2 DEF Ahead
  <2>4. CASE m.dh[2] # r
    BY <1>4, <1>14, <2>4 DEF Ahead, r
  <2> QED BY <2>2, <2>3, <2>4
<1>15. KeysKept(p, t, R, F, N)
  BY <1>13, <1>14 DEF PartyOnLine, KeysKept
<1> QED BY <1>6, <1>8, <1>9, <1>12, <1>15 DEF PartyOnLine

\* The end of decrypt(): the key is the one of the message.
LEMMA DeriveOnLine ==
  ASSUME NEW ss \in Secret, NEW p \in Party, NEW s \in Session, NEW z \in Session,
         NEW M \in SUBSET Message, NEW N \in SUBSET Message,
         NEW R \in Seq(Result), NEW E, NEW c,
         PartyOnLine(ss, p, s, M, R, E, c, z, N), SentOnLine(ss, Peer(p), z, N),
         \A m1, m2 \in N : m1.key = m2.key => m1 = m2,
         c # None, c.phase = "skipCur", SkipDone(s, c), s.rck # None,
         NEW e \in Result, e.msg = c.msg, e.key = s.rck,
         NEW t \in Session, t.priv = s.priv, t.remote = s.remote, t.root = s.root,
         t.sck = s.sck, t.rck = NextChainKey(s.rck), t.seqSend = s.seqSend,
         t.seqRecv = s.seqRecv + 1, t.pn = s.pn, t.skipped = s.skipped
  PROVE  PartyOnLine(ss, p, t, M, Append(R, e), E, None, z, N)
<1> DEFINE q == Peer(p)
           r == Reached(p, s)
           Q == Append(R, e)
<1>1. /\ s.priv[2] \in Nat /\ s.seqRecv \in Nat /\ z.priv[2] \in Nat /\ z.seqSend \in Nat
      /\ r \in Int /\ r = s.priv[2] - 1 + Odd(p) /\ Odd(p) \in {0, 1} /\ q \in Party
  BY Indices
<1>2. s.priv[2] > 0 /\ s.rck = LineKey(ss, q, r, s.seqRecv) /\ s.remote = <<q, r>>
  BY <1>1 DEF PartyOnLine, SessionOnLine
<1>3. /\ c.msg \in N /\ c.msg \in Message /\ c.msg.seq \in Nat
      /\ c.msg.dh[2] = r /\ c.msg.seq >= s.seqRecv
  BY MessageParts DEF PartyOnLine, CallAhead
<1>4. c.msg.seq = s.seqRecv
  <2>1. s.remote # None
    <3>1. <<q, r>> \in Key
      BY <1>1, <1>2 DEF Key
    <3> QED BY <1>2, <3>1, NoneAssumption
  <2>2. s.seqRecv >= c.msg.seq
    BY <2>1 DEF SkipDone, UntilSeq
  <2> QED BY <1>1, <1>3, <2>2
<1>5. c.msg.key = s.rck
  BY <1>2, <1>3, <1>4 DEF SentOnLine
<1>6. r \in Nat
  BY <1>1, <1>2
<1>7. Reached(p, t) = r
  BY DEF Reached
<1>8. t.rck = LineKey(ss, q, r, t.seqRecv)
  <2>1. NextChainKey(LineKey(ss, q, r, s.seqRecv)) = LineKey(ss, q, r, s.seqRecv + 1)
    BY <1>1, <1>6, LineKeys
  <2> QED BY <1>2, <2>1
<1>9. /\ DOMAIN Q = 1..(Len(R) + 1) /\ DOMAIN R = 1..Len(R) /\ Len(R) \in Nat
      /\ Q[Len(R) + 1] = e /\ \A i \in 1..Len(R) : Q[i] = R[i]
      /\ Len(R) + 1 \in DOMAIN Q /\ \A i \in DOMAIN R : i \in DOMAIN Q
      /\ \A i \in DOMAIN Q : i \in DOMAIN R \/ i = Len(R) + 1
  OBVIOUS
<1> HIDE DEF r, Q
<1>10. SessionOnLine(ss, p, t)
  BY <1>2, <1>7, <1>8 DEF PartyOnLine, SessionOnLine, r
<1>11. InStep(p, t, z)
  <2>1. c.msg.dh[2] = z.priv[2] => c.msg.seq < z.seqSend
    BY <1>3 DEF SentOnLine
  <2>2. z.priv[2] = r => s.seqRecv + 1 <= z.seqSend
    BY <1>1, <1>3, <1>4, <2>1
  <2> QED BY <1>7, <2>2 DEF PartyOnLine, InStep, r
<1>12. SentOnLine(ss, p, t, M) /\ StoreOnLine(ss, p, t)
  BY DEF PartyOnLine, SentOnLine, StoreOnLine
<1>13. ResultsAgree(Q)
  BY <1>5, <1>9 DEF PartyOnLine, ResultsAgree
<1>14. ASSUME NEW m \in N, Ahead(p, s, m), m # c.msg PROVE Ahead(p, t, m)
  <2>1. m.seq \in Nat /\ m.dh[2] \in Nat /\ m.key = LineKey(ss, q, m.dh[2], m.seq)
    BY MessageParts DEF SentOnLine
  <2>2. ~(m.dh[2] = r /\ m.seq = s.seqRecv)
    BY <1>2, <1>3, <1>5, <1>14, <2>1
  <2>3. m.dh[2] = r => m.seq >= s.seqRecv + 1
    BY <1>1, <1>14, <2>1, <2>2 DEF Ahead, r
  <2> QED BY <1>7, <1>14, <2>3 DEF Ahead, r
<1>15. KeysKept(p, t, Q, E, N)
  <2>1. \A m \in N : StoredAt(t, m.dh, m.seq) = StoredAt(s, m.dh, m.seq)
    BY DEF StoredAt
  <2> QED BY <1>9, <1>14, <2>1 DEF PartyOnLine, KeysKept
<1>16. CallAhead(p, t, None, N)
  BY DEF CallAhead
<1> QED BY <1>10, <1>11, <1>12, <1>13, <1>15, <1>16 DEF PartyOnLine, Q

\* Taking out one element of a sequence leaves the others.
LEMMA WithoutIndexKeeps ==
  ASSUME NEW S, NEW q \in Seq(S), NEW i \in DOMAIN q, NEW j \in DOMAIN q, j # i
  PROVE  \E k \in DOMAIN WithoutIndex(q, i) : WithoutIndex(q, i)[k] = q[j]
<1> DEFINE w == WithoutIndex(q, i)
           k == IF j < i THEN j ELSE j - 1
<1>1. /\ w \in Seq(S) /\ Len(w) = Len(q) - 1
      /\ \A l \in DOMAIN w : w[l] = q[IF l < i THEN l ELSE l + 1]
  BY WithoutIndexFacts
<1>2. i \in 1..Len(q) /\ j \in 1..Len(q) /\ Len(q) \in Nat
  OBVIOUS
<1> HIDE DEF w
<1>3. DOMAIN w = 1..(Len(q) - 1)
  BY <1>1
<1>4. k \in 1..(Len(q) - 1) /\ (IF k < i THEN k ELSE k + 1) = j
  BY <1>2
<1>5. w[k] = q[j]
  BY <1>1, <1>3, <1>4
<1> QED BY <1>3, <1>4, <1>5 DEF w

\* A stored key is returned: it is the key of the message with its header.
LEMMA TakeOnLine ==
  ASSUME NEW ss \in Secret, NEW p \in Party, NEW s \in Session, NEW z \in Session,
         NEW M \in SUBSET Message, NEW N \in SUBSET Message,
         NEW R \in Seq(Result), NEW E, NEW c,
         PartyOnLine(ss, p, s, M, R, E, c, z, N), SentOnLine(ss, Peer(p), z, N),
         \A m1, m2 \in N : m1.key = m2.key => m1 = m2,
         NEW m \in N, NEW i \in StoredAt(s, m.dh, m.seq),
         NEW t \in Session, t.priv = s.priv, t.remote = s.remote, t.root = s.root,
         t.sck = s.sck, t.rck = s.rck, t.seqSend = s.seqSend, t.seqRecv = s.seqRecv,
         t.pn = s.pn, t.skipped = WithoutIndex(s.skipped, i)
  PROVE  PartyOnLine(ss, p, t, M, Append(R, [msg |-> m, key |-> s.skipped[i].key]), E, c, z, N)
<1> DEFINE q == Peer(p)
           e == [msg |-> m, key |-> s.skipped[i].key]
           Q == Append(R, e)
<1>1. i \in DOMAIN s.skipped /\ s.skipped[i].dh = m.dh /\ s.skipped[i].seq = m.seq
      /\ s.skipped \in Seq(Skipped)
  BY SessionParts DEF StoredAt
<1>2. s.skipped[i].key = m.key
  BY <1>1 DEF PartyOnLine, StoreOnLine, SentOnLine
<1>0. e \in Result /\ e.msg = m /\ e.key = s.skipped[i].key
  BY <1>1, StoredTypes DEF Result
<1> HIDE DEF e
<1>3. /\ DOMAIN Q = 1..(Len(R) + 1) /\ DOMAIN R = 1..Len(R) /\ Len(R) \in Nat
      /\ Q[Len(R) + 1] = e /\ \A k \in 1..Len(R) : Q[k] = R[k]
      /\ Len(R) + 1 \in DOMAIN Q /\ \A k \in DOMAIN R : k \in DOMAIN Q
      /\ \A k \in DOMAIN Q : k \in DOMAIN R \/ k = Len(R) + 1
  BY <1>0
<1> HIDE DEF Q
<1>4. ResultsAgree(Q)
  BY <1>0, <1>2, <1>3 DEF PartyOnLine, ResultsAgree
<1>5. \A k \in DOMAIN t.skipped : \E j \in DOMAIN s.skipped : t.skipped[k] = s.skipped[j]
  <2>1. /\ Len(t.skipped) = Len(s.skipped) - 1 /\ t.skipped \in Seq(Skipped)
        /\ \A k \in DOMAIN t.skipped : t.skipped[k] = s.skipped[IF k < i THEN k ELSE k + 1]
    BY <1>1, WithoutIndexFacts
  <2>2. \A k \in DOMAIN t.skipped : (IF k < i THEN k ELSE k + 1) \in DOMAIN s.skipped
    BY <1>1, <2>1
  <2> QED BY <2>1, <2>2
<1>6. StoreOnLine(ss, p, t)
  BY <1>5 DEF PartyOnLine, StoreOnLine
<1>7. ASSUME NEW x \in N, x # m, StoredAt(s, x.dh, x.seq) # {}
      PROVE  StoredAt(t, x.dh, x.seq) # {}
  <2>1. PICK j \in DOMAIN s.skipped : s.skipped[j].dh = x.dh /\ s.skipped[j].seq = x.seq
    BY <1>7 DEF StoredAt
  <2>2. s.skipped[j].key = x.key
    BY <2>1 DEF PartyOnLine, StoreOnLine, SentOnLine
  <2>3. j # i
    BY <1>2, <1>7, <2>2
  <2>4. \E k \in DOMAIN t.skipped : t.skipped[k] = s.skipped[j]
    BY <1>1, <2>3, WithoutIndexKeeps
  <2> QED BY <2>1, <2>4 DEF StoredAt
<1>8. \A x \in N : Ahead(p, s, x) => Ahead(p, t, x)
  BY DEF Ahead, Reached
<1>9. KeysKept(p, t, Q, E, N)
  BY <1>0, <1>3, <1>7, <1>8 DEF PartyOnLine, KeysKept
<1>10. /\ SessionOnLine(ss, p, t) /\ SentOnLine(ss, p, t, M) /\ InStep(p, t, z)
       /\ CallAhead(p, t, c, N)
  BY DEF PartyOnLine, SessionOnLine, SentOnLine, InStep, CallAhead, Reached
<1> QED BY <1>4, <1>6, <1>9, <1>10 DEF PartyOnLine, Q, e

\* The DH ratchet: both new chains are the next of the line, and the chain that
\* is left behind has no message whose key was not derived.
LEMMA RatchetOnLine ==
  ASSUME NEW ss \in Secret, NEW p \in Party, NEW s \in Session, NEW z \in Session,
         NEW M \in SUBSET Message, NEW N \in SUBSET Message,
         NEW R, NEW E, NEW c, NEW d, NEW S, NEW F, NEW b,
         PartyOnLine(ss, p, s, M, R, E, c, z, N),
         PartyOnLine(ss, Peer(p), z, N, S, F, b, s, M),
         c # None, c.phase = "skipPrev", SkipDone(s, c),
         d.msg = c.msg, d.phase = "skipCur",
         NEW t \in Session, t.priv = <<p, s.priv[2] + 1>>, t.remote = c.msg.dh,
         t.rck = FirstChainKey(MixRoot(s.root, s.priv, c.msg.dh)),
         t.root = MixRoot(MixRoot(s.root, s.priv, c.msg.dh), t.priv, c.msg.dh),
         t.sck = FirstChainKey(t.root), t.pn = s.seqSend, t.seqSend = 0, t.seqRecv = 0,
         t.skipped = s.skipped
  PROVE  /\ PartyOnLine(ss, p, t, M, R, E, d, z, N)
         /\ PartyOnLine(ss, Peer(p), z, N, S, F, b, t, M)
<1> DEFINE q == Peer(p)
           r == Reached(p, s)
           i == s.priv[2]
           o == Odd(p)
<1>1. /\ i \in Nat /\ s.seqRecv \in Nat /\ s.seqSend \in Nat /\ z.priv[2] \in Nat
      /\ z.seqSend \in Nat /\ z.seqRecv \in Nat
      /\ r = i - 1 + o /\ o \in {0, 1} /\ Odd(q) = 1 - o
      /\ q \in Party /\ Peer(q) = p /\ Reached(q, z) = z.priv[2] - 1 + Odd(q)
      /\ (p = "alice" <=> o = 1)
  BY Indices
<1>2. /\ c.msg \in N /\ c.msg \in Message /\ c.msg.dh \in Key /\ c.msg.dh[2] \in Nat
      /\ c.msg.seq \in Nat /\ c.msg.pn \in Nat
      /\ c.msg.dh[2] = r + 1 /\ c.msg.dh[1] = q /\ c.msg.dh[2] <= z.priv[2]
  BY MessageParts DEF PartyOnLine, CallAhead, SentOnLine
<1>3. z.priv[2] = r + 1 /\ r + 1 \in Nat
  <2>1. z.priv[2] <= r + 1
    BY DEF PartyOnLine, InStep
  <2> QED BY <1>1, <1>2, <2>1
<1>4. Reached(q, z) = i
  <2>1. \A a, j \in Nat, x \in {0, 1} : a = (j - 1 + x) + 1 => a - 1 + (1 - x) = j
    OBVIOUS
  <2> HIDE DEF i, o, r, q
  <2> QED BY <1>1, <1>3, <2>1
<1>5. c.msg.dh = <<q, r + 1>> /\ s.priv = <<p, i>>
  BY <1>2, KeyEq, SessionParts DEF PartyOnLine, SessionOnLine
<1>6. t.priv[1] = p /\ t.priv[2] = i + 1 /\ Reached(p, t) = r + 1
  BY <1>1 DEF Reached
<1>7. /\ MixRoot(s.root, s.priv, c.msg.dh) = Line(ss, 2 * (r + 1) + Odd(q))
      /\ t.root = Line(ss, 2 * (i + 1) + o)
  <2>1. s.root = Line(ss, 2 * i + o) /\ 2 * i + o \in Nat
    BY <1>1 DEF PartyOnLine, SessionOnLine
  <2>2. CASE p = "alice"
    <3>1. o = 1 /\ q = "bob" /\ r = i /\ Odd(q) = 0
      BY <1>1, <2>2 DEF Peer
    <3>2. /\ {<<"alice", i>>, <<"bob", i + 1>>} = NthExchange(2 * i + 2)
          /\ {<<"alice", i + 1>>, <<"bob", i + 1>>} = NthExchange(2 * (i + 1) + 1)
      BY <1>1, Exchanges
    <3>3. /\ 2 * i + 2 = (2 * i + 1) + 1 /\ 2 * (i + 1) + 1 = (2 * i + 2) + 1
          /\ 2 * i + 1 \in Nat /\ 2 * i + 2 \in Nat /\ 2 * (i + 1) + 0 = 2 * i + 2
      BY <1>1
    <3> HIDE DEF i, o, r, q
    <3>4. {s.priv, c.msg.dh} = NthExchange((2 * i + 1) + 1)
      BY <1>5, <2>2, <3>1, <3>2, <3>3
    <3>5. {t.priv, c.msg.dh} = NthExchange((2 * i + 2) + 1)
      BY <1>5, <2>2, <3>1, <3>2, <3>3 DEF i
    <3>6. MixRoot(s.root, s.priv, c.msg.dh) = Line(ss, 2 * i + 2)
      BY <2>1, <3>1, <3>3, <3>4, LineStep
    <3>7. t.root = Line(ss, 2 * (i + 1) + 1)
      BY <3>3, <3>5, <3>6, LineStep
    <3> QED BY <3>1, <3>3, <3>6, <3>7
  <2>3. CASE p # "alice"
    <3>1. p = "bob" /\ o = 0 /\ q = "alice" /\ r + 1 = i /\ Odd(q) = 1
      BY <1>1, <2>3 DEF Peer, Party
    <3>2. /\ {<<"alice", i>>, <<"bob", i>>} = NthExchange(2 * i + 1)
          /\ {<<"alice", i>>, <<"bob", i + 1>>} = NthExchange(2 * i + 2)
      BY <1>1, Exchanges
    <3>3. /\ 2 * i + 2 = (2 * i + 1) + 1 /\ 2 * (i + 1) + 0 = 2 * i + 2 /\ 2 * i + 0 = 2 * i
          /\ 2 * i + 1 \in Nat /\ 2 * i \in Nat
      BY <1>1
    <3> HIDE DEF i, o, r, q
    <3>4. {s.priv, c.msg.dh} = NthExchange(2 * i + 1)
      BY <1>5, <3>1, <3>2
    <3>5. {t.priv, c.msg.dh} = NthExchange((2 * i + 1) + 1)
      BY <1>5, <3>1, <3>2, <3>3 DEF i
    <3>6. MixRoot(s.root, s.priv, c.msg.dh) = Line(ss, 2 * i + 1)
      BY <2>1, <3>1, <3>3, <3>4, LineStep
    <3>7. t.root = Line(ss, 2 * i + 2)
      BY <3>3, <3>5, <3>6, LineStep
    <3> QED BY <3>1, <3>3, <3>6, <3>7
  <2> QED BY <2>2, <2>3
<1>8. t.rck = LineKey(ss, q, r + 1, 0) /\ t.sck = LineKey(ss, p, i + 1, 0)
  <2> HIDE DEF i, o, r, q
  <2>1. FirstChainKey(Line(ss, 2 * (r + 1) + Odd(q))) = LineKey(ss, q, r + 1, 0)
    BY DEF FirstChainKey, LineKey
  <2>2. FirstChainKey(Line(ss, 2 * (i + 1) + o)) = LineKey(ss, p, i + 1, 0)
    BY DEF FirstChainKey, LineKey, o
  <2> QED BY <1>7, <2>1, <2>2
<1> HIDE DEF r, i, o
<1>9. i + 1 > 0 /\ i + 1 \in Nat
  BY <1>1
<1>10. SessionOnLine(ss, p, t)
  BY <1>5, <1>6, <1>7, <1>8, <1>9 DEF SessionOnLine, o
<1>11. SentOnLine(ss, p, t, M)
  <2>1. ASSUME NEW m \in M
        PROVE  /\ m.dh[1] = p /\ m.key = LineKey(ss, p, m.dh[2], m.seq)
               /\ m.dh[2] <= t.priv[2] /\ (p = "bob" => m.dh[2] > 0)
               /\ m.dh[2] = t.priv[2] => m.seq < t.seqSend
               /\ m.dh[2] + 1 = t.priv[2] => m.seq < t.pn
    <3>1. m.dh[2] \in Nat
      BY MessageParts
    <3>2. /\ m.dh[1] = p /\ m.key = LineKey(ss, p, m.dh[2], m.seq)
          /\ m.dh[2] <= i /\ (p = "bob" => m.dh[2] > 0)
          /\ m.dh[2] = i => m.seq < s.seqSend
      BY DEF PartyOnLine, SentOnLine, i
    <3>3. m.dh[2] <= i + 1 /\ m.dh[2] # i + 1 /\ (m.dh[2] + 1 = i + 1 => m.dh[2] = i)
      BY <1>1, <3>1, <3>2
    <3> QED BY <1>6, <3>2, <3>3
  <2> QED BY <2>1 DEF PartyOnLine, SentOnLine
<1>12. InStep(p, t, z)
  BY <1>1, <1>3, <1>6 DEF InStep
<1>13. InStep(q, z, t)
  BY <1>1, <1>4, <1>6 DEF InStep
<1>14. StoreOnLine(ss, p, t)
  BY DEF PartyOnLine, StoreOnLine
<1>15. ASSUME NEW m \in N, Ahead(p, s, m) PROVE Ahead(p, t, m)
  <2>1. m.dh[2] \in Nat /\ m.seq \in Nat /\ (q = "bob" => m.dh[2] > 0)
    BY MessageParts DEF PartyOnLine, SentOnLine
  <2>2. m.dh[2] > r \/ (m.dh[2] = r /\ m.seq >= s.seqRecv)
    BY <1>15 DEF Ahead, r
  <2>3. ASSUME m.dh[2] = r, m.seq >= s.seqRecv PROVE FALSE
    <3>1. CASE i = 0
      <4>1. o = 1 /\ r = 0
        BY <1>1, <2>1, <2>3, <3>1
      <4>2. q = "bob"
        BY <1>1, <4>1 DEF Peer
      <4> QED BY <2>1, <2>3, <4>1, <4>2
    <3>2. CASE i > 0
      <4>1. s.rck = LineKey(ss, q, r, s.seqRecv) /\ s.remote = <<q, r>>
        BY <3>2 DEF PartyOnLine, SessionOnLine, r, i
      <4>2. r \in Nat
        BY <2>1, <2>3
      <4>3. s.rck # None
        <5>1. LineKey(ss, q, r, s.seqRecv) \in ChainKey
          BY <1>1, <4>2, LineKeys
        <5> QED BY <4>1, <5>1, NoneAssumption
      <4>4. s.remote # None
        <5>1. <<q, r>> \in Key
          BY <1>1, <4>2 DEF Key
        <5> QED BY <4>1, <5>1, NoneAssumption
      <4>5. s.seqRecv >= c.msg.pn
        BY <4>3, <4>4 DEF SkipDone, UntilSeq
      <4>6. m.seq < c.msg.pn
        BY <1>2, <2>3 DEF PartyOnLine, SentOnLine
      <4> QED BY <1>1, <1>2, <2>1, <2>3, <4>5, <4>6
    <3> QED BY <1>1, <3>1, <3>2
  <2>4. m.dh[2] >= r + 1
    BY <1>1, <2>1, <2>2, <2>3
  <2>5. m.dh[2] > r + 1 \/ (m.dh[2] = r + 1 /\ m.seq >= 0)
    BY <1>1, <2>1, <2>4
  <2> QED BY <1>6, <2>5 DEF Ahead
<1>16. KeysKept(p, t, R, E, N)
  <2>1. \A m \in N : StoredAt(t, m.dh, m.seq) = StoredAt(s, m.dh, m.seq)
    BY DEF StoredAt
  <2> QED BY <1>15, <2>1 DEF PartyOnLine, KeysKept
<1>17. CallAhead(p, t, d, N)
  <2>1. c.msg.seq >= 0
    BY <1>2
  <2> QED BY <1>2, <1>6, <2>1 DEF CallAhead
<1>18. PartyOnLine(ss, p, t, M, R, E, d, z, N)
  BY <1>10, <1>11, <1>12, <1>14, <1>16, <1>17 DEF PartyOnLine
<1> QED BY <1>13, <1>18 DEF PartyOnLine

\* The sessions that init_alice_pq() and init_bob_pq() make from one secret.
LEMMA LineInvInit == Init => LineInv
<1> SUFFICES ASSUME Init, clean PROVE \E ss \in Secret : OnLine(ss)
  BY DEF LineInv
<1>1. PICK b \in BOOLEAN, w \in BOOLEAN :
        /\ sess = [p \in Party |-> IF p = "alice" THEN AliceInit(b) ELSE BobInit(b /\ w)]
        /\ clean = (b => w)
  BY DEF Init
<1> DEFINE ss == SharedSecret(b)
<1>2. ss \in Secret /\ (b /\ w) = b
  BY <1>1 DEF SharedSecret, Secret
<1>3. sess["alice"] = AliceInit(b) /\ sess["bob"] = BobInit(b)
  BY <1>1, <1>2 DEF Party
<1> HIDE DEF ss
<1>4. Line(ss, 0) = [ss |-> ss, dhs |-> <<>>]
  <2>1. [k \in 1..0 |-> NthExchange(k)] = <<>>
    OBVIOUS
  <2> QED BY <2>1 DEF Line
<1>5. MixRoot(Line(ss, 0), <<"alice", 0>>, <<"bob", 0>>) = Line(ss, 1)
  <2>1. NthExchange(2 * 0 + 1) = {<<"alice", 0>>, <<"bob", 0>>}
    BY Exchanges
  <2>2. 2 * 0 + 1 = 0 + 1 /\ 0 + 1 = 1
    OBVIOUS
  <2>3. {<<"alice", 0>>, <<"bob", 0>>} = NthExchange(0 + 1)
    BY <2>1, <2>2
  <2>4. MixRoot(Line(ss, 0), <<"alice", 0>>, <<"bob", 0>>) = Line(ss, 0 + 1)
    BY <1>2, <2>3, LineStep
  <2> QED BY <2>2, <2>4
<1>6. /\ sess["alice"].priv = <<"alice", 0>> /\ sess["alice"].remote = <<"bob", 0>>
      /\ sess["alice"].root = Line(ss, 1) /\ sess["alice"].sck = FirstChainKey(Line(ss, 1))
      /\ sess["alice"].rck = None /\ sess["alice"].seqSend = 0 /\ sess["alice"].seqRecv = 0
      /\ sess["alice"].skipped = <<>>
  BY <1>3, <1>4, <1>5 DEF AliceInit, ss
<1>7. /\ sess["bob"].priv = <<"bob", 0>> /\ sess["bob"].remote = None
      /\ sess["bob"].root = Line(ss, 0) /\ sess["bob"].sck = None
      /\ sess["bob"].rck = None /\ sess["bob"].seqSend = 0 /\ sess["bob"].seqRecv = 0
      /\ sess["bob"].skipped = <<>>
  BY <1>3, <1>4 DEF BobInit, ss
<1>8. /\ \A p \in Party : SentBy(p) = {} /\ results[p] = <<>> /\ call[p] = None
      /\ Odd("alice") = 1 /\ Odd("bob") = 0 /\ Peer("alice") = "bob" /\ Peer("bob") = "alice"
  BY DEF Init, SentBy, Odd, Peer
<1>9. SessionOnLine(ss, "alice", sess["alice"]) /\ SessionOnLine(ss, "bob", sess["bob"])
  <2>1. FirstChainKey(Line(ss, 1)) = LineKey(ss, "alice", 0, 0)
    BY <1>8 DEF FirstChainKey, LineKey
  <2>2. SessionOnLine(ss, "alice", sess["alice"])
    BY <1>6, <1>8, <2>1 DEF SessionOnLine, Reached
  <2>3. SessionOnLine(ss, "bob", sess["bob"])
    BY <1>7, <1>8 DEF SessionOnLine
  <2> QED BY <2>2, <2>3
<1>10. InStep("alice", sess["alice"], sess["bob"]) /\ InStep("bob", sess["bob"], sess["alice"])
  BY <1>6, <1>7, <1>8 DEF InStep, Reached
<1>11. ASSUME NEW p \in {"alice", "bob"}
       PROVE  PartyOnLine(ss, p, sess[p], SentBy(p), results[p], evicted[p], call[p],
                          sess[Peer(p)], SentBy(Peer(p)))
  <2>1. /\ SentBy(p) = {} /\ SentBy(Peer(p)) = {} /\ results[p] = <<>> /\ call[p] = None
        /\ sess[p].skipped = <<>>
    BY <1>6, <1>7, <1>8 DEF Party
  <2>2. InStep(p, sess[p], sess[Peer(p)]) /\ SessionOnLine(ss, p, sess[p])
    BY <1>8, <1>9, <1>10
  <2>3. SentOnLine(ss, p, sess[p], {}) /\ KeysKept(p, sess[p], <<>>, evicted[p], {})
    BY DEF SentOnLine, KeysKept
  <2>4. ResultsAgree(<<>>) /\ CallAhead(p, sess[p], None, {})
    BY DEF ResultsAgree, CallAhead
  <2>5. StoreOnLine(ss, p, sess[p])
    BY <2>1 DEF StoreOnLine
  <2> QED BY <2>1, <2>2, <2>3, <2>4, <2>5 DEF PartyOnLine
<1> QED BY <1>2, <1>11 DEF OnLine, Party

\* A step of p that leaves what it sent, and of its session at most the receiving
\* side, leaves its peer on the line.
LEMMA PeerOnLine ==
  ASSUME NEW ss, NEW p, NEW s, NEW z, NEW t, NEW M, NEW N, NEW R, NEW E, NEW c,
         PartyOnLine(ss, p, s, M, R, E, c, z, N),
         t.priv = z.priv, t.seqSend = z.seqSend
  PROVE  PartyOnLine(ss, p, s, M, R, E, c, t, N)
BY DEF PartyOnLine, InStep

\* The invariant of the undisturbed session is kept by every step.
LEMMA LineInvStep ==
  ASSUME TypeOK, TypeOK', KeyInv, LineInv, [Next]_vars
  PROVE  LineInv'
<1> SUFFICES ASSUME clean' PROVE \E ss \in Secret : OnLine(ss)'
  BY DEF LineInv
<1> DEFINE On(ss, p) == PartyOnLine(ss, p, sess[p], SentBy(p), results[p], evicted[p], call[p],
                                    sess[Peer(p)], SentBy(Peer(p)))
<1>1. clean
  BY DEF Next, Encrypt, DecryptSkipped, DecryptNext, SkipMessage, RefuseSkip, DHRatchet,
         DecryptDerive, Reload, StillClean, vars
<1>2. PICK ss \in Secret : OnLine(ss)
  BY <1>1 DEF LineInv
<1> SUFFICES OnLine(ss)'
  OBVIOUS
<1>3. \A p \in Party : /\ sess[p] \in Session /\ results[p] \in Seq(Result)
                       /\ sess'[p] \in Session /\ SentBy(p) \in SUBSET Message
                       /\ On(ss, p) /\ SentOnLine(ss, p, sess[p], SentBy(p))
                       /\ SendInv(p, sess[p], SentBy(p)) /\ RecvInv(sess[p], results[p])
                       /\ Peer(p) \in Party /\ Peer(Peer(p)) = p /\ Peer(p) # p
  <2>1. \A p \in Party : Peer(p) \in Party /\ Peer(Peer(p)) = p /\ Peer(p) # p
    BY DEF Peer, Party
  <2> QED BY <1>2, <2>1 DEF TypeOK, KeyInv, SentBy, OnLine, PartyOnLine
<1>4. ASSUME NEW p \in Party, \A q \in Party : SentBy(q)' = SentBy(q),
             \A q \in Party : q # p => /\ sess'[q] = sess[q] /\ results'[q] = results[q]
                                       /\ evicted'[q] = evicted[q] /\ call'[q] = call[q],
             sess'[p].priv = sess[p].priv, sess'[p].seqSend = sess[p].seqSend,
             PartyOnLine(ss, p, sess'[p], SentBy(p), results'[p], evicted'[p], call'[p],
                         sess[Peer(p)], SentBy(Peer(p)))
      PROVE  OnLine(ss)'
  <2> DEFINE r == Peer(p)
  <2>1. r \in Party /\ Peer(r) = p /\ r # p /\ \A q \in Party : q = p \/ q = r
    BY DEF Peer, Party
  <2>2. On(ss, r)
    BY <1>3, <2>1
  <2>3. PartyOnLine(ss, r, sess[r], SentBy(r), results[r], evicted[r], call[r],
                    sess'[p], SentBy(p))
    BY <1>4, <2>1, <2>2, PeerOnLine
  <2>4. On(ss, r)'
    BY <1>4, <2>1, <2>3
  <2>5. On(ss, p)'
    BY <1>4, <2>1
  <2> QED BY <2>1, <2>4, <2>5 DEF OnLine
<1>5. ASSUME NEW p \in Party, Encrypt(p) PROVE OnLine(ss)'
  <2> DEFINE m == [to |-> Peer(p), dh |-> sess[p].priv, seq |-> sess[p].seqSend,
                   pn |-> sess[p].pn, key |-> sess[p].sck]
             t == [sess[p] EXCEPT !.sck = NextChainKey(@), !.seqSend = @ + 1]
             q == Peer(p)
  <2>1. /\ sess[p].sck # None /\ sent' = sent \cup {m} /\ results' = results
        /\ sess' = [sess EXCEPT ![p] = t] /\ evicted' = evicted /\ call' = call
    BY <1>5, <1>3 DEF Encrypt, TypeOK
  <2>2. m \in Message /\ sess'[p] = t /\ sess'[q] = sess[q]
    BY <2>1, <1>3 DEF TypeOK
  <2>3. SentBy(p)' = SentBy(p) \cup {m} /\ SentBy(q)' = SentBy(q)
    BY <2>1 DEF SentBy, Peer, Party
  <2>4. /\ m.dh = sess[p].priv /\ m.key = sess[p].sck /\ m.seq = sess[p].seqSend
        /\ m.pn = sess[p].pn
        /\ t.priv = sess[p].priv /\ t.remote = sess[p].remote /\ t.root = sess[p].root
        /\ t.sck = NextChainKey(sess[p].sck) /\ t.rck = sess[p].rck
        /\ t.seqSend = sess[p].seqSend + 1 /\ t.seqRecv = sess[p].seqRecv
        /\ t.pn = sess[p].pn /\ t.skipped = sess[p].skipped
    BY <1>3 DEF Session
  <2> HIDE DEF m, t
  <2>5. /\ PartyOnLine(ss, p, sess[p], SentBy(p), results[p], evicted[p], call[p], sess[q],
                       SentBy(q))
        /\ PartyOnLine(ss, q, sess[q], SentBy(q), results[q], evicted[q], call[q], sess[p],
                       SentBy(p))
        /\ t \in Session /\ sess[q] \in Session /\ q \in Party
    BY <1>3, <2>2
  <2>6. /\ PartyOnLine(ss, p, t, SentBy(p) \cup {m}, results[p], evicted[p], call[p], sess[q],
                       SentBy(q))
        /\ PartyOnLine(ss, q, sess[q], SentBy(q), results[q], evicted[q], call[q], t,
                       SentBy(p) \cup {m})
    BY <1>3, <2>1, <2>2, <2>4, <2>5, EncryptOnLine
  <2>7. On(ss, p)' /\ On(ss, q)'
    BY <1>3, <2>1, <2>2, <2>3, <2>6
  <2> QED BY <2>7 DEF OnLine, Peer, Party
<1>6. ASSUME NEW p \in Party, NEW m \in sent, DecryptSkipped(p, m) PROVE OnLine(ss)'
  <2>1. PICK i \in StoredAt(sess[p], m.dh, m.seq) :
          /\ Return(p, m, sess[p].skipped[i].key)
          /\ sess' = [sess EXCEPT ![p].skipped = WithoutIndex(@, i)]
    BY <1>6 DEF DecryptSkipped
  <2> DEFINE e == [msg |-> m, key |-> sess[p].skipped[i].key]
             t == [sess[p] EXCEPT !.skipped = WithoutIndex(@, i)]
             q == Peer(p)
  <2>2. sess[p].skipped[i].key \in ChainKey
    BY <1>3, StoredTypes DEF StoredAt
  <2>3. e \in Result /\ e.key = sess[p].skipped[i].key /\ e.msg = m
    BY <2>2 DEF Result, TypeOK
  <2>4. sess' = [sess EXCEPT ![p] = t] /\ results' = [results EXCEPT ![p] = Append(@, e)]
        /\ sent' = sent /\ call' = call /\ evicted' = evicted
    BY <1>6, <2>1 DEF TypeOK, Return, DecryptSkipped
  <2>5. sess'[p] = t /\ results'[p] = Append(results[p], e)
    BY <2>4 DEF TypeOK
  <2>6. /\ t.priv = sess[p].priv /\ t.remote = sess[p].remote /\ t.root = sess[p].root
        /\ t.sck = sess[p].sck /\ t.rck = sess[p].rck
        /\ t.seqSend = sess[p].seqSend /\ t.seqRecv = sess[p].seqRecv
        /\ t.pn = sess[p].pn /\ t.skipped = WithoutIndex(sess[p].skipped, i)
    BY <1>3 DEF Session
  <2> HIDE DEF e, t
  <2>7. /\ m \in SentBy(q) /\ t \in Session /\ sess[q] \in Session
        /\ SentBy(q) \in SUBSET Message /\ SentOnLine(ss, q, sess[q], SentBy(q))
        /\ \A m1, m2 \in SentBy(q) : m1.key = m2.key => m1 = m2
    BY <1>3, <1>6, <2>5 DEF DecryptSkipped, SentBy, SendInv
  <2>8. PartyOnLine(ss, p, t, SentBy(p), Append(results[p], e), evicted[p], call[p], sess[q],
                    SentBy(q))
    <3>1. PartyOnLine(ss, p, sess[p], SentBy(p), results[p], evicted[p], call[p], sess[q],
                      SentBy(q))
      BY <1>3
    <3>2. /\ sess[p] \in Session /\ SentBy(p) \in SUBSET Message /\ results[p] \in Seq(Result)
          /\ i \in StoredAt(sess[p], m.dh, m.seq)
      BY <1>3, <2>1
    <3> QED BY <2>6, <2>7, <3>1, <3>2, TakeOnLine DEF e
  <2>9. \A r \in Party : SentBy(r)' = SentBy(r)
    BY <2>4 DEF SentBy
  <2>10. \A r \in Party : r # p => sess'[r] = sess[r] /\ results'[r] = results[r]
    BY <2>4 DEF TypeOK
  <2> QED BY <1>4, <2>4, <2>5, <2>6, <2>8, <2>9, <2>10
<1>7. ASSUME NEW p \in Party, NEW m \in sent, DecryptNext(p, m) PROVE OnLine(ss)'
  <2> DEFINE d == [msg |-> m,
                   phase |-> IF sess[p].remote # m.dh THEN "skipPrev" ELSE "skipCur"]
             q == Peer(p)
  <2>1. /\ call' = [call EXCEPT ![p] = d] /\ sess' = sess /\ sent' = sent
        /\ results' = results /\ evicted' = evicted /\ StillClean(p, m)
        /\ m.to = p /\ StoredAt(sess[p], m.dh, m.seq) = {}
    BY <1>7 DEF DecryptNext
  <2>2. d.msg = m /\ d.phase = IF sess[p].remote # m.dh THEN "skipPrev" ELSE "skipCur"
    OBVIOUS
  <2>3. call'[p] = d /\ \A r \in Party : r # p => call'[r] = call[r]
    BY <2>1 DEF TypeOK
  <2> HIDE DEF d
  <2>4. m \in SentBy(q) /\ m.key \notin evicted[p]
        /\ \A i \in DOMAIN results[p] : results[p][i].msg # m
    BY <1>3, <2>1 DEF SentBy, StillClean, Consumed
  <2>5. PartyOnLine(ss, p, sess[p], SentBy(p), results[p], evicted[p], d, sess[q], SentBy(q))
    BY <1>3, <2>1, <2>2, <2>4, NextOnLine
  <2>6. \A r \in Party : SentBy(r)' = SentBy(r)
    BY <2>1 DEF SentBy
  <2> QED BY <1>4, <2>1, <2>3, <2>5, <2>6
<1>8. ASSUME NEW p \in Party, SkipMessage(p) PROVE OnLine(ss)'
  <2> DEFINE e == [dh |-> sess[p].remote, seq |-> sess[p].seqRecv, key |-> sess[p].rck]
             t == [sess[p] EXCEPT !.skipped = Store(@, e), !.rck = NextChainKey(@),
                                  !.seqRecv = @ + 1]
             q == Peer(p)
  <2>1. /\ call[p] # None /\ ~SkipDone(sess[p], call[p]) /\ sent' = sent /\ results' = results
        /\ call' = call /\ sess' = [sess EXCEPT ![p] = t]
        /\ evicted' = IF Len(sess[p].skipped) >= MaxSkipped
                      THEN [evicted EXCEPT ![p] = @ \cup {sess[p].skipped[1].key}]
                      ELSE evicted
    BY <1>8, <1>3 DEF SkipMessage, TypeOK
  <2>2. sess[p].rck # None /\ sess[p].remote # None
    BY <2>1 DEF SkipDone
  <2>3. e \in Skipped /\ e.key = sess[p].rck /\ e.dh = sess[p].remote /\ e.seq = sess[p].seqRecv
    BY <1>3, <2>2, SessionParts DEF Skipped
  <2>4. sess'[p] = t
    BY <2>1 DEF TypeOK
  <2>5. /\ t.priv = sess[p].priv /\ t.remote = sess[p].remote /\ t.root = sess[p].root
        /\ t.sck = sess[p].sck /\ t.rck = NextChainKey(sess[p].rck)
        /\ t.seqSend = sess[p].seqSend /\ t.seqRecv = sess[p].seqRecv + 1
        /\ t.pn = sess[p].pn /\ t.skipped = Store(sess[p].skipped, e)
    BY <1>3 DEF Session
  <2> HIDE DEF e, t
  <2>6. /\ evicted[p] \subseteq evicted'[p]
        /\ Len(sess[p].skipped) >= MaxSkipped => sess[p].skipped[1].key \in evicted'[p]
    BY <2>1 DEF TypeOK
  <2>7. \A r \in Party : r # p => sess'[r] = sess[r] /\ evicted'[r] = evicted[r]
    BY <2>1 DEF TypeOK
  <2>8. call[p].phase \in {"skipPrev", "skipCur"} /\ t \in Session
    BY <1>3, <2>1, <2>4 DEF TypeOK, Call
  <2>9. PartyOnLine(ss, p, t, SentBy(p), results[p], evicted'[p], call[p], sess[q], SentBy(q))
    <3>1. /\ q \in Party /\ sess[q] \in Session /\ SentBy(q) \in SUBSET Message
          /\ SentOnLine(ss, q, sess[q], SentBy(q))
      BY <1>3
    <3> HIDE DEF q
    <3>2. PartyOnLine(ss, p, sess[p], SentBy(p), results[p], evicted[p], call[p], sess[q],
                      SentBy(q))
      BY <1>3 DEF q
    <3> QED BY <1>3, <2>1, <2>3, <2>5, <2>6, <2>8, <3>1, <3>2, SkipOnLine DEF q
  <2>10. \A r \in Party : SentBy(r)' = SentBy(r)
    BY <2>1 DEF SentBy
  <2> QED BY <1>4, <2>1, <2>4, <2>5, <2>7, <2>9, <2>10
<1>9. ASSUME NEW p \in Party, RefuseSkip(p) PROVE OnLine(ss)'
  <2>1. /\ call' = [call EXCEPT ![p] = None] /\ sess' = sess /\ sent' = sent
        /\ results' = results /\ evicted' = evicted
    BY <1>9 DEF RefuseSkip
  <2>2. call'[p] = None /\ \A r \in Party : r # p => call'[r] = call[r]
    BY <2>1 DEF TypeOK
  <2>3. PartyOnLine(ss, p, sess[p], SentBy(p), results[p], evicted[p], None, sess[Peer(p)],
                    SentBy(Peer(p)))
    BY <1>3 DEF PartyOnLine, CallAhead
  <2>4. \A r \in Party : SentBy(r)' = SentBy(r)
    BY <2>1 DEF SentBy
  <2> QED BY <1>4, <2>1, <2>2, <2>3, <2>4
<1>10. ASSUME NEW p \in Party, DHRatchet(p) PROVE OnLine(ss)'
  <2> DEFINE s == sess[p]
             c == call[p]
             q == Peer(p)
             recvRoot == MixRoot(s.root, s.priv, c.msg.dh)
             sendRoot == MixRoot(recvRoot, <<p, s.priv[2] + 1>>, c.msg.dh)
             t == [s EXCEPT !.priv = <<p, s.priv[2] + 1>>, !.remote = c.msg.dh,
                            !.root = sendRoot,
                            !.sck = FirstChainKey(sendRoot),
                            !.rck = FirstChainKey(recvRoot),
                            !.pn = PrevChainLength(s), !.seqSend = 0, !.seqRecv = 0]
             d == [c EXCEPT !.phase = "skipCur"]
  <2>1. /\ c # None /\ c.phase = "skipPrev" /\ SkipDone(s, c)
        /\ sess' = [sess EXCEPT ![p] = t] /\ call' = [call EXCEPT ![p] = d]
        /\ sent' = sent /\ results' = results /\ evicted' = evicted
    BY <1>10 DEF DHRatchet, TypeOK
  <2>2. /\ sess'[p] = t /\ call'[p] = d
        /\ \A r \in Party : r # p => sess'[r] = sess[r] /\ call'[r] = call[r]
    BY <2>1 DEF TypeOK
  <2>3. d.msg = c.msg /\ d.phase = "skipCur"
    <3>1. c \in Call
      BY <2>1 DEF TypeOK
    <3> QED BY <3>1 DEF Call
  <2>4. s \in Session
    BY <1>3
  <2> HIDE DEF s, recvRoot, sendRoot, d, c
  <2>5. /\ t.priv = <<p, s.priv[2] + 1>> /\ t.remote = c.msg.dh
        /\ t.rck = FirstChainKey(recvRoot) /\ t.root = sendRoot
        /\ t.sck = FirstChainKey(t.root) /\ t.pn = s.seqSend /\ t.seqSend = 0
        /\ t.seqRecv = 0 /\ t.skipped = s.skipped
    BY <2>4 DEF Session, PrevChainLength
  <2> HIDE DEF t
  <2>6. /\ t.rck = FirstChainKey(MixRoot(s.root, s.priv, c.msg.dh))
        /\ t.root = MixRoot(MixRoot(s.root, s.priv, c.msg.dh), t.priv, c.msg.dh)
    BY <2>5 DEF recvRoot, sendRoot
  <2>7. /\ q \in Party /\ sess[q] \in Session /\ SentBy(q) \in SUBSET Message
        /\ SentBy(p) \in SUBSET Message /\ t \in Session
        /\ PartyOnLine(ss, p, s, SentBy(p), results[p], evicted[p], c, sess[q], SentBy(q))
        /\ PartyOnLine(ss, q, sess[q], SentBy(q), results[q], evicted[q], call[q], s, SentBy(p))
    BY <1>3, <2>2 DEF s, c
  <2>8. /\ PartyOnLine(ss, p, t, SentBy(p), results[p], evicted[p], d, sess[q], SentBy(q))
        /\ PartyOnLine(ss, q, sess[q], SentBy(q), results[q], evicted[q], call[q], t, SentBy(p))
    BY <2>1, <2>3, <2>4, <2>5, <2>6, <2>7, RatchetOnLine
  <2>9. \A r \in Party : SentBy(r)' = SentBy(r)
    BY <2>1 DEF SentBy
  <2>10. On(ss, p)' /\ On(ss, q)'
    BY <1>3, <2>1, <2>2, <2>8, <2>9
  <2> QED BY <2>10 DEF OnLine, Peer, Party
<1>11. ASSUME NEW p \in Party, DecryptDerive(p) PROVE OnLine(ss)'
  <2> DEFINE e == [msg |-> call[p].msg, key |-> sess[p].rck]
             t == [sess[p] EXCEPT !.rck = NextChainKey(@), !.seqRecv = @ + 1]
             q == Peer(p)
  <2>1. /\ call[p] # None /\ call[p].phase = "skipCur" /\ SkipDone(sess[p], call[p])
        /\ sess[p].rck # None /\ sent' = sent /\ evicted' = evicted
        /\ results' = [results EXCEPT ![p] = Append(@, e)]
        /\ sess' = [sess EXCEPT ![p] = t] /\ call' = [call EXCEPT ![p] = None]
    BY <1>11, <1>3 DEF DecryptDerive, TypeOK, Return
  <2>2. call[p] \in Call /\ sess[p].rck \in ChainKey
    BY <1>3, <2>1, SessionParts DEF TypeOK
  <2>3. e \in Result /\ e.key = sess[p].rck /\ e.msg = call[p].msg
    BY <2>2 DEF Result, Call
  <2>4. /\ sess'[p] = t /\ results'[p] = Append(results[p], e) /\ call'[p] = None
        /\ \A r \in Party : r # p => /\ sess'[r] = sess[r] /\ results'[r] = results[r]
                                     /\ call'[r] = call[r]
    BY <2>1 DEF TypeOK
  <2>5. /\ t.priv = sess[p].priv /\ t.remote = sess[p].remote /\ t.root = sess[p].root
        /\ t.sck = sess[p].sck /\ t.rck = NextChainKey(sess[p].rck)
        /\ t.seqSend = sess[p].seqSend /\ t.seqRecv = sess[p].seqRecv + 1
        /\ t.pn = sess[p].pn /\ t.skipped = sess[p].skipped
    BY <1>3 DEF Session
  <2> HIDE DEF e, t
  <2>6. /\ t \in Session /\ sess[q] \in Session
        /\ SentBy(q) \in SUBSET Message /\ SentOnLine(ss, q, sess[q], SentBy(q))
        /\ \A m1, m2 \in SentBy(q) : m1.key = m2.key => m1 = m2
    BY <1>3, <2>4 DEF SendInv
  <2>7. PartyOnLine(ss, p, t, SentBy(p), Append(results[p], e), evicted[p], None, sess[q],
                    SentBy(q))
    BY <1>3, <2>1, <2>3, <2>5, <2>6, DeriveOnLine
  <2>8. \A r \in Party : SentBy(r)' = SentBy(r)
    BY <2>1 DEF SentBy
  <2> QED BY <1>4, <2>1, <2>4, <2>5, <2>7, <2>8
<1>12. ASSUME NEW p \in Party, Reload(p) PROVE OnLine(ss)'
  <2>1. FromJson(ToJson(sess[p])) = sess[p]
    BY <1>3, ReloadFaithful
  <2>2. sess' = sess
    BY <1>12, <2>1 DEF Reload, TypeOK
  <2> QED BY <1>2, <1>12, <2>2 DEF Reload, OnLine, SentBy
<1>13. CASE UNCHANGED vars
  BY <1>2, <1>13 DEF vars, OnLine, SentBy
<1> QED
  BY <1>5, <1>6, <1>7, <1>8, <1>9, <1>10, <1>11, <1>12, <1>13 DEF Next

\* A late message of an older chain never takes the session back to it.
LEMMA RatchetOnlyForward ==
  ASSUME TypeOK, TypeOK', LineInv, [Next]_vars, clean', NEW p \in Party
  PROVE  NewRemote(p)
<1>1. clean
  BY DEF Next, Encrypt, DecryptSkipped, DecryptNext, SkipMessage, RefuseSkip, DHRatchet,
         DecryptDerive, Reload, StillClean, vars
<1>2. PICK ss \in Secret : OnLine(ss)
  BY <1>1 DEF LineInv
<1>3. sess[p] \in Session
  BY DEF TypeOK
<1>4. ASSUME NEW q \in Party, DHRatchet(q), p = q, sess[p].remote # None
      PROVE  sess'[p].remote[2] > sess[p].remote[2]
  <2> DEFINE r == Reached(p, sess[p])
  <2>1. r \in Int
    BY <1>3, Indices
  <2>2. call[p].msg.dh[2] = r + 1
    BY <1>2, <1>4 DEF OnLine, PartyOnLine, CallAhead, DHRatchet
  <2>3. sess[p].remote = <<Peer(p), r>>
    BY <1>2, <1>4 DEF OnLine, PartyOnLine, SessionOnLine
  <2>4. sess'[p].remote = call[p].msg.dh
    BY <1>4 DEF DHRatchet, TypeOK, Session
  <2> HIDE DEF r
  <2> QED BY <2>1, <2>2, <2>3, <2>4
<1>5. ASSUME NEW q \in Party, DHRatchet(q), p # q PROVE sess'[p] = sess[p]
  BY <1>5 DEF DHRatchet, TypeOK
<1>6. ASSUME NEW q \in Party, Encrypt(q) \/ SkipMessage(q) \/ DecryptDerive(q)
      PROVE  sess'[p].remote = sess[p].remote
  <2>1. CASE Encrypt(q)
    BY <1>3, <2>1 DEF Encrypt, TypeOK, Session
  <2>2. CASE SkipMessage(q)
    BY <1>3, <2>2 DEF SkipMessage, TypeOK, Session
  <2>3. CASE DecryptDerive(q)
    BY <1>3, <2>3 DEF DecryptDerive, TypeOK, Session
  <2> QED BY <1>6, <2>1, <2>2, <2>3
<1>7. ASSUME NEW q \in Party, NEW m \in sent, DecryptSkipped(q, m)
      PROVE  sess'[p].remote = sess[p].remote
  BY <1>3, <1>7 DEF DecryptSkipped, TypeOK, Session
<1>8. ASSUME NEW q \in Party, Reload(q) PROVE sess'[p] = sess[p]
  <2>1. sess[q] \in Session
    BY DEF TypeOK
  <2>2. FromJson(ToJson(sess[q])) = sess[q]
    BY <2>1, ReloadFaithful
  <2> QED BY <1>8, <2>2 DEF Reload, TypeOK
<1>9. ASSUME NEW q \in Party, NEW m \in sent, DecryptNext(q, m) PROVE sess' = sess
  BY <1>9 DEF DecryptNext
<1>10. ASSUME NEW q \in Party, RefuseSkip(q) PROVE sess' = sess
  BY <1>10 DEF RefuseSkip
<1>11. CASE UNCHANGED vars
  BY <1>11 DEF vars, NewRemote
<1> QED
  BY <1>4, <1>5, <1>6, <1>7, <1>8, <1>9, <1>10, <1>11 DEF Next, NewRemote

\* In a session that nothing disturbs, decrypt() of either party returns the key
\* the message was encrypted with, loses no key but those a full store evicts,
\* and never ratchets back, in whatever order messages come, however many are lost.
THEOREM RatchetAgreement == Spec => [](KeyAgreement /\ NoKeyLost) /\ RatchetForward
<1>1. Init => KeyInv /\ LineInv
  BY KeyInvInit, LineInvInit
<1>2. TypeOK /\ TypeOK' /\ KeyInv /\ LineInv /\ [Next]_vars => KeyInv' /\ LineInv'
  BY KeyInvStep, LineInvStep
<1>3. LineInv => KeyAgreement
  BY DEF LineInv, OnLine, PartyOnLine, ResultsAgree, KeyAgreement
<1>4. TypeOK /\ LineInv => NoKeyLost
  <2> SUFFICES ASSUME TypeOK, LineInv, clean, NEW m \in sent
               PROVE  LET s == sess[m.to]
                      IN  \/ m \in Consumed(m.to)
                          \/ m.key \in evicted[m.to]
                          \/ Holds(s, m.key)
                          \/ s.rck = None
                          \/ Len(m.key.root.dhs) > Len(s.rck.root.dhs)
    BY DEF NoKeyLost
  <2> DEFINE p == m.to
             q == Peer(p)
             s == sess[p]
             r == Reached(p, s)
  <2>1. PICK ss \in Secret : OnLine(ss)
    BY DEF LineInv
  <2>2. m \in Message /\ p \in Party /\ m.dh[2] \in Nat /\ m.seq \in Nat
    BY MessageParts DEF TypeOK
  <2>3. q \in Party /\ Peer(q) = p
    BY <2>2 DEF Peer, Party
  <2>4. m \in SentBy(q) /\ s \in Session
    BY <2>2, <2>3 DEF SentBy, TypeOK
  <2>5. /\ SessionOnLine(ss, p, s) /\ StoreOnLine(ss, p, s)
        /\ KeysKept(p, s, results[p], evicted[p], SentBy(q))
        /\ SentOnLine(ss, q, sess[q], SentBy(q))
    BY <2>1, <2>2, <2>3 DEF OnLine, PartyOnLine
  <2>6. m.key = LineKey(ss, q, m.dh[2], m.seq)
    BY <2>4, <2>5 DEF SentOnLine
  <2>7. /\ s.priv[2] \in Nat /\ s.seqRecv \in Nat /\ r \in Int
        /\ r = s.priv[2] - 1 + Odd(p) /\ Odd(p) \in {0, 1} /\ Odd(q) \in {0, 1}
    BY <2>2, <2>3, <2>4, Indices DEF Odd
  <2> HIDE DEF p, q, s, r
  <2>8. CASE \E i \in DOMAIN results[p] : results[p][i].msg = m
    BY <2>8 DEF Consumed, p
  <2>9. CASE m.key \in evicted[p]
    BY <2>9 DEF p
  <2>10. CASE StoredAt(s, m.dh, m.seq) # {}
    <3>1. PICK i \in DOMAIN s.skipped : s.skipped[i].dh = m.dh /\ s.skipped[i].seq = m.seq
      BY <2>10 DEF StoredAt
    <3>2. s.skipped[i].key = m.key
      BY <2>5, <2>6, <3>1 DEF StoreOnLine, q
    <3> QED BY <3>2 DEF Holds, s, p
  <2>11. CASE Ahead(p, s, m) /\ s.rck # None
    <3>1. s.priv[2] > 0 /\ s.rck = LineKey(ss, q, r, s.seqRecv)
      BY <2>5, <2>11, <2>7 DEF SessionOnLine, q, r
    <3>2. r \in Nat
      BY <2>7, <3>1
    <3>3. /\ s.rck.root = Line(ss, 2 * r + Odd(q)) /\ s.rck.n = s.seqRecv
          /\ Length(s.rck) = 2 * r + Odd(q)
      <4>1. Length(LineKey(ss, q, r, s.seqRecv)) = 2 * r + Odd(q)
        BY <2>3, <2>7, <3>2, LineKeys
      <4> QED BY <3>1, <4>1 DEF LineKey
    <3>4. /\ m.key.root = Line(ss, 2 * m.dh[2] + Odd(q)) /\ m.key.n = m.seq
          /\ Length(m.key) = 2 * m.dh[2] + Odd(q)
      <4>1. Length(LineKey(ss, q, m.dh[2], m.seq)) = 2 * m.dh[2] + Odd(q)
        BY <2>2, <2>3, LineKeys
      <4> QED BY <2>6, <4>1 DEF LineKey
    <3>5. CASE m.dh[2] > r
      <4>1. Length(m.key) > Length(s.rck)
        BY <2>2, <2>7, <3>2, <3>3, <3>4, <3>5
      <4> QED BY <4>1 DEF Length, s, p
    <3>6. CASE m.dh[2] = r /\ m.seq >= s.seqRecv
      <4>1. s.rck.n <= m.key.n
        BY <2>2, <2>7, <3>3, <3>4, <3>6
      <4>2. Derives(s.rck, m.key)
        BY <2>11, <3>3, <3>4, <3>6, <4>1 DEF Derives
      <4> QED BY <4>2 DEF Holds, s, p
    <3> QED BY <2>11, <3>5, <3>6 DEF Ahead, r
  <2>12. CASE s.rck = None
    BY <2>12 DEF s, p
  <2> QED BY <2>4, <2>5, <2>8, <2>9, <2>10, <2>11, <2>12 DEF KeysKept
<1>5. TypeOK /\ TypeOK' /\ LineInv /\ [Next]_vars => [clean' => \A p \in Party : NewRemote(p)]_vars
  BY RatchetOnlyForward
<1>6. Spec => []TypeOK
  BY RatchetTypeOK, PTL
<1> QED BY <1>1, <1>2, <1>3, <1>4, <1>5, <1>6, PTL DEF Spec, RatchetForward

\* What this says of each of the properties alone: no key of a message that was not
\* opened is lost by decrypt() and its skip loop in an undisturbed session,
THEOREM RatchetLosesNoKey == Spec => []NoKeyLost
BY RatchetAgreement, PTL

\* _dh_ratchet never goes back to an older remote key there,
THEOREM RatchetGoesForward == Spec => RatchetForward
BY RatchetAgreement, PTL

\* and used keys cannot be produced again by any session.
THEOREM RatchetForwardSecrecy == Spec => []ForwardSecrecy
BY RatchetKeysOnce, PTL
=============================================================================
