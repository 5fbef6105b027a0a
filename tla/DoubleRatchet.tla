---------------------------- MODULE DoubleRatchet ----------------------------
(***************************************************************************)
(* The Double Ratchet session of core/double_ratchet.py, run by two        *)
(* parties over a network that loses, delays, reorders and duplicates what *)
(* it carries (core/protocol.py hands every payload that opens the outer   *)
(* box to decrypt(), whatever it has seen before).                         *)
(*                                                                         *)
(* Keys are symbolic.  A Diffie-Hellman key is <<party, i>>, the i-th key  *)
(* pair the party generated; the output of an exchange is the set of the   *)
(* two keys; a root key is the shared secret and the exchanges mixed into  *)
(* it; a chain key is the root it was split from and the number of         *)
(* symmetric steps taken, and a message key is the chain key it was        *)
(* derived from.  Two keys are equal exactly when HKDF is fed equal input. *)
(*                                                                         *)
(* decrypt() is several steps: one per iteration of the loop of            *)
(* _skip_messages, one for the DH ratchet, one for the last derivation.    *)
(***************************************************************************)
EXTENDS Integers, Sequences, FiniteSets

CONSTANTS MaxSkip,     \* most keys one call of _skip_messages may store (100)
          MaxSkipped,  \* most keys a session stores (1000)
          MaxSent,     \* bound on the messages each party encrypts
          MaxKeys,     \* bound on the key pairs each party generates
          MaxResults,  \* bound on the keys each party's decrypt() returns
          None         \* Python's None

ASSUME BoundsAssumption ==
  /\ MaxSkip \in Nat
  /\ MaxSkipped \in Nat \ {0}
  /\ MaxSent \in Nat
  /\ MaxKeys \in Nat
  /\ MaxResults \in Nat

Party == {"alice", "bob"}
Peer(p) == IF p = "alice" THEN "bob" ELSE "alice"

Key == Party \X Nat
Secret == {"x25519", "hybrid"}
Exchange == SUBSET Key
Root == [ss : Secret, dhs : Seq(Exchange)]
ChainKey == [root : Root, n : Nat]       \* also the type of a message key
Message == [to : Party, dh : Key, seq : Nat, pn : Nat, key : ChainKey]
Skipped == [dh : Key, seq : Nat, key : ChainKey]

Session ==
  [priv : Key, remote : Key \cup {None}, root : Root,
   sck : ChainKey \cup {None}, rck : ChainKey \cup {None},
   seqSend : Nat, seqRecv : Nat, pn : Nat, skipped : Seq(Skipped)]

\* A decrypt() call between two of its steps.
Call == [msg : Message, phase : {"skipPrev", "skipCur"}]

Result == [msg : Message, key : ChainKey]

\* None is told apart from every key and every call.
ASSUME NoneAssumption == None \notin Key /\ None \notin ChainKey /\ None \notin Call

VARIABLES
  sess,     \* the two DoubleRatchetSession objects
  call,     \* the decrypt() call each party is in, None between calls
  sent,     \* every message ever put on the network
  results,  \* what each party's decrypt() calls returned, in order
  evicted,  \* the keys each party dropped from its full store
  clean     \* FALSE once a party is handed a message whose key it no longer has

vars == <<sess, call, sent, results, evicted, clean>>

-----------------------------------------------------------------------------
(* Key derivation *)

\* exchange() and the 64-byte HKDF of the root ratchet: the new root key, from
\* which the new chain key is split.
MixRoot(root, priv, remote) ==
  [root EXCEPT !.dhs = Append(@, {priv, remote})]

FirstChainKey(root) == [root |-> root, n |-> 0]

\* Mutant: the chain key is not replaced after a key is taken from it.
NextChainKey_Kept(ck) == ck

\* The 64-byte HKDF of the chain ratchet: the message key is named after the
\* chain key it came from, the next chain key is one step further.
NextChainKey(ck) == [ck EXCEPT !.n = @ + 1]

\* encapsulate() at Alice and decapsulate() at Bob fall back to the X25519
\* secret independently of each other.
SharedSecret(kem) == IF kem THEN "hybrid" ELSE "x25519"

AliceInit(kem) ==
  LET priv == <<"alice", 0>>
      remote == <<"bob", 0>>
      root == MixRoot([ss |-> SharedSecret(kem), dhs |-> <<>>], priv, remote)
  IN  [priv |-> priv, remote |-> remote, root |-> root,
       sck |-> FirstChainKey(root), rck |-> None,
       seqSend |-> 0, seqRecv |-> 0, pn |-> 0, skipped |-> <<>>]

BobInit(kem) ==
  [priv |-> <<"bob", 0>>, remote |-> None,
   root |-> [ss |-> SharedSecret(kem), dhs |-> <<>>],
   sck |-> None, rck |-> None,
   seqSend |-> 0, seqRecv |-> 0, pn |-> 0, skipped |-> <<>>]

-----------------------------------------------------------------------------
Init ==
  /\ \E encapsulated, canDecapsulate \in BOOLEAN :
       /\ sess = [p \in Party |->
                    IF p = "alice" THEN AliceInit(encapsulated)
                    ELSE BobInit(encapsulated /\ canDecapsulate)]
       /\ clean = (encapsulated => canDecapsulate)
  /\ call = [p \in Party |-> None]
  /\ sent = {}
  /\ results = [p \in Party |-> <<>>]
  /\ evicted = [p \in Party |-> {}]

SentBy(p) == {m \in sent : m.to = Peer(p)}

\* encrypt(): refuses without a sending chain, else takes a key from it.
Encrypt(p) ==
  LET s == sess[p]
      m == [to |-> Peer(p), dh |-> s.priv, seq |-> s.seqSend, pn |-> s.pn,
            key |-> s.sck]
  IN  /\ call[p] = None
      /\ s.sck # None
      /\ Cardinality(SentBy(p)) < MaxSent
      /\ sess' = [sess EXCEPT ![p].sck = NextChainKey(@),
                              ![p].seqSend = @ + 1]
      /\ sent' = sent \cup {m}
      /\ UNCHANGED <<call, results, evicted, clean>>

\* Mutant: stored keys are never looked up.
StoredAt_NoLookup(s, dh, seq) == {}

\* The position of the stored key of a header in the (insertion ordered) store.
StoredAt(s, dh, seq) ==
  {i \in DOMAIN s.skipped : s.skipped[i].dh = dh /\ s.skipped[i].seq = seq}

\* Mutant: a stored key is read and not popped.
WithoutIndex_NotPopped(q, i) == q

WithoutIndex(q, i) == SubSeq(q, 1, i - 1) \o SubSeq(q, i + 1, Len(q))

Consumed(p) == {results[p][i].msg : i \in DOMAIN results[p]}

\* clean is lost when p is handed a message it already took a key for, or one
\* whose stored key it evicted.
StillClean(p, m) == clean /\ m \notin Consumed(p) /\ m.key \notin evicted[p]

Return(p, m, key) ==
  results' = [results EXCEPT ![p] = Append(@, [msg |-> m, key |-> key])]

\* decrypt(), first part: a stored key is taken out and returned.
DecryptSkipped(p, m) ==
  /\ call[p] = None
  /\ m.to = p
  /\ Len(results[p]) < MaxResults
  /\ \E i \in StoredAt(sess[p], m.dh, m.seq) :
       /\ Return(p, m, sess[p].skipped[i].key)
       /\ sess' = [sess EXCEPT ![p].skipped = WithoutIndex(@, i)]
  /\ clean' = StillClean(p, m)
  /\ UNCHANGED <<call, sent, evicted>>

\* decrypt(), first part: no stored key, so the session moves on, by a DH
\* ratchet when the message's key is not the remote key of the session.
DecryptNext(p, m) ==
  LET s == sess[p]
      ratchet == s.remote # m.dh
  IN  /\ call[p] = None
      /\ m.to = p
      /\ Len(results[p]) < MaxResults
      /\ StoredAt(s, m.dh, m.seq) = {}
      /\ ratchet => s.priv[2] < MaxKeys
      /\ call' = [call EXCEPT ![p] =
                    [msg |-> m, phase |-> IF ratchet THEN "skipPrev" ELSE "skipCur"]]
      /\ clean' = StillClean(p, m)
      /\ UNCHANGED <<sess, sent, results, evicted>>

\* Mutants: the end of the previous chain is not skipped over; the loop over the
\* current chain stops one key early.
UntilSeq_NoPrev(c) == IF c.phase = "skipPrev" THEN 0 ELSE c.msg.seq
UntilSeq_OneShort(c) == IF c.phase = "skipPrev" THEN c.msg.pn ELSE c.msg.seq - 1

\* The argument of the _skip_messages call that the decrypt() call is in.
UntilSeq(c) == IF c.phase = "skipPrev" THEN c.msg.pn ELSE c.msg.seq

\* _skip_messages has nothing to do: no receiving chain, or it is far enough.
SkipDone(s, c) == s.rck = None \/ s.remote = None \/ s.seqRecv >= UntilSeq(c)

TooManySkipped(s, c) ==
  /\ s.rck # None /\ s.remote # None
  /\ s.seqRecv + MaxSkip < UntilSeq(c)

\* Mutant: a full store keeps its oldest key.
Store_NoEviction(q, e) == Append(q, e)

\* The store after an iteration of the loop: a full store drops its oldest key,
\* and a header stored before keeps its place.
Store(q, e) ==
  LET kept == IF Len(q) >= MaxSkipped THEN Tail(q) ELSE q
      same == {i \in DOMAIN kept : kept[i].dh = e.dh /\ kept[i].seq = e.seq}
  IN  IF same = {} THEN Append(kept, e)
      ELSE [i \in DOMAIN kept |-> IF i \in same THEN e ELSE kept[i]]

\* One iteration of the loop of _skip_messages.
SkipMessage(p) ==
  LET s == sess[p]
      e == [dh |-> s.remote, seq |-> s.seqRecv, key |-> s.rck]
  IN  /\ call[p] # None
      /\ ~SkipDone(s, call[p])
      /\ ~TooManySkipped(s, call[p])
      /\ sess' = [sess EXCEPT ![p].skipped = Store(@, e),
                              ![p].rck = NextChainKey(@),
                              ![p].seqRecv = @ + 1]
      /\ evicted' = IF Len(s.skipped) >= MaxSkipped
                    THEN [evicted EXCEPT ![p] = @ \cup {s.skipped[1].key}]
                    ELSE evicted
      /\ UNCHANGED <<call, sent, results, clean>>

\* _skip_messages raises: the call ends without a key, what was done stays.
RefuseSkip(p) ==
  /\ call[p] # None
  /\ TooManySkipped(sess[p], call[p])
  /\ call' = [call EXCEPT ![p] = None]
  /\ UNCHANGED <<sess, sent, results, evicted, clean>>

\* What the ratchet saves for the headers of the next sending chain.
PrevChainLength(s) == s.seqSend

\* The DH ratchet of decrypt(): a receiving chain from the old private key, a
\* new private key, a sending chain from it, and both counters reset.
DHRatchet(p) ==
  LET s == sess[p]
      remote == call[p].msg.dh
      priv == <<p, s.priv[2] + 1>>
      recvRoot == MixRoot(s.root, s.priv, remote)
      sendRoot == MixRoot(recvRoot, priv, remote)
  IN  /\ call[p] # None
      /\ call[p].phase = "skipPrev"
      /\ SkipDone(s, call[p])
      /\ sess' = [sess EXCEPT ![p] =
                    [s EXCEPT !.priv = priv, !.remote = remote,
                              !.root = sendRoot,
                              !.sck = FirstChainKey(sendRoot),
                              !.rck = FirstChainKey(recvRoot),
                              !.pn = PrevChainLength(s), !.seqSend = 0, !.seqRecv = 0]]
      /\ call' = [call EXCEPT ![p].phase = "skipCur"]
      /\ UNCHANGED <<sent, results, evicted, clean>>

\* The end of decrypt(): the next key of the receiving chain is returned,
\* whether or not it is the key numbered by the message.
DecryptDerive(p) ==
  LET s == sess[p]
  IN  /\ call[p] # None
      /\ call[p].phase = "skipCur"
      /\ SkipDone(s, call[p])
      /\ s.rck # None
      /\ Return(p, call[p].msg, s.rck)
      /\ sess' = [sess EXCEPT ![p].rck = NextChainKey(@), ![p].seqRecv = @ + 1]
      /\ call' = [call EXCEPT ![p] = None]
      /\ UNCHANGED <<sent, evicted, clean>>

\* to_json(): the fields of a session but the KEM ciphertext, which init_alice_pq
\* leaves on it for the first message only.  The codecs of the keys are exact.
ToJson(s) ==
  [dh_private_b64 |-> s.priv, dh_remote_b64 |-> s.remote, root_key_hex |-> s.root,
   sending_chain_key_hex |-> s.sck, receiving_chain_key_hex |-> s.rck,
   seq_send |-> s.seqSend, seq_recv |-> s.seqRecv, prev_chain_length |-> s.pn,
   skipped_message_keys |-> s.skipped]

\* from_json(): a field that is null stays None; a dictionary keeps its order.
FromJson(data) ==
  [priv |-> data.dh_private_b64, remote |-> data.dh_remote_b64,
   root |-> data.root_key_hex, sck |-> data.sending_chain_key_hex,
   rck |-> data.receiving_chain_key_hex, seqSend |-> data.seq_send,
   seqRecv |-> data.seq_recv, pn |-> data.prev_chain_length,
   skipped |-> data.skipped_message_keys]

\* The process restarts, or the session fell out of the cache: the caller goes
\* on with what it saved after the last message.
Reload(p) ==
  /\ call[p] = None
  /\ sess' = [sess EXCEPT ![p] = FromJson(ToJson(@))]
  /\ UNCHANGED <<call, sent, results, evicted, clean>>

Next ==
  \E p \in Party :
    \/ Encrypt(p)
    \/ \E m \in sent : DecryptSkipped(p, m) \/ DecryptNext(p, m)
    \/ SkipMessage(p)
    \/ RefuseSkip(p)
    \/ DHRatchet(p)
    \/ DecryptDerive(p)
    \/ Reload(p)

Spec == Init /\ [][Next]_vars

-----------------------------------------------------------------------------
(* Properties *)

\* Every variable has its type (the fields of DoubleRatchetSession.__init__).
TypeOK ==
  /\ sess \in [Party -> Session]
  /\ call \in [Party -> Call \cup {None}]
  /\ sent \subseteq Message
  /\ results \in [Party -> Seq(Result)]
  /\ evicted \in [Party -> SUBSET ChainKey]
  /\ clean \in BOOLEAN

\* A session can produce a key: it stores it, or one of its chain keys is not
\* past it.
Derives(ck, k) == ck # None /\ ck.root = k.root /\ ck.n <= k.n
Holds(s, k) ==
  \/ \E i \in DOMAIN s.skipped : s.skipped[i].key = k
  \/ Derives(s.rck, k)
  \/ Derives(s.sck, k)

\* As long as nobody is handed a message whose key is gone, and both sides
\* agreed on the use of ML-KEM, decrypt() returns the key the message was
\* encrypted with, in whatever order messages arrive and whichever are lost.
KeyAgreement ==
  clean => \A p \in Party : \A i \in DOMAIN results[p] :
             results[p][i].key = results[p][i].msg.key

\* The receiver loses no key: the key of a message it has not opened is stored,
\* still ahead on the receiving chain, or on a chain the DH ratchet has not
\* reached, unless the full store evicted it.  This is what the prev_chain_len
\* header and the first _skip_messages call of decrypt() are for.
NoKeyLost ==
  clean => \A m \in sent :
    LET s == sess[m.to]
    IN  \/ m \in Consumed(m.to)
        \/ m.key \in evicted[m.to]
        \/ Holds(s, m.key)
        \/ s.rck = None
        \/ Len(m.key.root.dhs) > Len(s.rck.root.dhs)

\* Forward secrecy: a key that was used (returned by decrypt() or taken by
\* encrypt()) can no longer be produced from the session, even after replays
\* have disturbed it.
ForwardSecrecy ==
  \A p \in Party :
    /\ \A i \in DOMAIN results[p] : ~Holds(sess[p], results[p][i].key)
    /\ \A m \in SentBy(p) : ~Holds(sess[p], m.key)

\* A key serves one message: no two messages, of either direction, are encrypted
\* under it, and decrypt() never returns it twice, so a replayed message never
\* opens a second time.
KeysOnce ==
  /\ \A m1, m2 \in sent : m1.key = m2.key => m1 = m2
  /\ \A p \in Party : \A i, j \in DOMAIN results[p] :
       results[p][i].key = results[p][j].key => i = j

\* The store of skipped keys is bounded ("Evict oldest skipped message key to
\* bound memory footprint").
SkippedBounded == \A p \in Party : Len(sess[p].skipped) <= MaxSkipped

\* A DH ratchet step moves the remote key to one the session has not had.
NewRemote(p) ==
  \/ sess'[p].remote = sess[p].remote
  \/ sess[p].remote = None
  \/ sess'[p].remote[2] > sess[p].remote[2]

\* While the session is undisturbed the ratchet only moves forward: a late
\* message of an older chain is opened with its stored key and never makes the
\* session go back to the older remote key.
RatchetForward == [][clean' => \A p \in Party : NewRemote(p)]_vars

\* docs/protocols/crypto-spec.md says of the DH ratchet step that it is taken
\* "Whenever a message with a new ephemeral DH public key is received"; the
\* code takes it for every key that differs from the current one.
RatchetOnlyOnNewKey == [][\A p \in Party : NewRemote(p)]_vars
=============================================================================
