---------------------------- MODULE DevicesProofs ---------------------------
(***************************************************************************)
(* Proofs about the devices and accounts of a user: the sync manager, the  *)
(* pairing of a device and its limiter, logins and their lockout, and      *)
(* groups.                                                                 *)
(***************************************************************************)
EXTENDS SyncManager, DevicePairing, Accounts, MLSGroups, FiniteSetTheorems, WellFoundedInduction, TLAPS

(***************************************************************************)
(* Replay protection of the multi-device sync manager, for every number of *)
(* devices, clock offsets and size of the window.  The inductive invariant *)
(* is that the FIFO is the tail of the history of applied ids and that the *)
(* set holds exactly the ids of the FIFO; ReplayDistance follows because a *)
(* new id is not among the last MaxItems.                                  *)
(***************************************************************************)

SyncInv == SyncTypeOK /\ WindowAgrees /\ WindowIsLatest /\ ReplayDistance

\* The eviction loop leaves a window with a free place, the newest entries of
\* the old one, in order.
LEMMA WindowFacts ==
  ASSUME NEW q \in Seq(Nat), Len(q) <= MaxItems
  PROVE  /\ Window(q) \in Seq(Nat)
         /\ Len(Window(q)) = IF Len(q) < MaxItems THEN Len(q) ELSE MaxItems - 1
         /\ \A i \in 1..Len(Window(q)) : Window(q)[i] = q[Len(q) - Len(Window(q)) + i]
<1>1. CASE Len(q) < MaxItems
  <2>1. Window(q) = q
    BY <1>1, SyncAssumption DEF Window
  <2>2. Len(q) - Len(q) = 0 /\ \A i \in 1..Len(q) : Len(q) - Len(q) + i = i
    OBVIOUS
  <2> QED BY <1>1, <2>1, <2>2
<1>2. CASE Len(q) >= MaxItems
  <2>1. Len(q) = MaxItems /\ q # <<>>
    BY <1>2, SyncAssumption
  <2>2. Window(q) = Tail(q)
    BY <1>2 DEF Window
  <2> QED BY <2>1, <2>2, SyncAssumption
<1> QED BY <1>1, <1>2, SyncAssumption

\* What one application does to the history, the window and the set.
LEMMA ApplyFacts ==
  ASSUME SyncInv, NEW e \in created, Apply(e)
  PROVE  SyncInv'
<1> DEFINE n == Len(applied)
           w == Window(fifo)
<1>1. /\ fifo \in Seq(Nat) /\ Len(fifo) \in Nat /\ Len(fifo) <= MaxItems
      /\ applied \in Seq(Envelope) /\ n \in Nat
      /\ e \in Envelope /\ e.seq \in Nat
  BY DEF SyncInv, SyncTypeOK, WindowAgrees, Envelope
<1>2. /\ w \in Seq(Nat)
      /\ Len(w) = IF Len(fifo) < MaxItems THEN Len(fifo) ELSE MaxItems - 1
      /\ \A i \in 1..Len(w) : w[i] = fifo[Len(fifo) - Len(w) + i]
  BY <1>1, WindowFacts
<1>3. fifo' = Append(w, e.seq) /\ applied' = Append(applied, e)
  BY DEF Apply
<1>4. e.seq \notin processed /\ processed' = (processed \ Evicted(fifo)) \cup {e.seq}
  BY DEF Apply
<1>5. \A i \in 1..Len(fifo) : fifo[i] # e.seq
  BY <1>1, <1>4 DEF SyncInv, WindowAgrees
<1> HIDE DEF w
<1>6. /\ fifo' \in Seq(Nat) /\ Len(fifo') = Len(w) + 1 /\ DOMAIN fifo' = 1..(Len(w) + 1)
      /\ \A i \in 1..Len(w) : fifo'[i] = fifo[Len(fifo) - Len(w) + i]
      /\ fifo'[Len(w) + 1] = e.seq
  <2>1. Len(w) \in Nat /\ w \in Seq(Nat)
    BY <1>2
  <2>2. /\ fifo' \in Seq(Nat) /\ Len(fifo') = Len(w) + 1 /\ DOMAIN fifo' = 1..(Len(w) + 1)
        /\ fifo'[Len(w) + 1] = e.seq
    BY <1>1, <1>3, <2>1
  <2>3. \A i \in 1..Len(w) : fifo'[i] = w[i]
    BY <1>1, <1>3, <2>1
  <2> QED BY <1>2, <2>2, <2>3
<1>7. /\ applied' \in Seq(Envelope) /\ Len(applied') = n + 1 /\ DOMAIN applied' = 1..(n + 1)
      /\ \A i \in 1..n : applied'[i] = applied[i]
      /\ applied'[n + 1] = e
  BY <1>1, <1>3
<1>8. SyncTypeOK'
  BY <1>1, <1>4, <1>6, <1>7 DEF SyncInv, SyncTypeOK, Apply
<1>9. WindowIsLatest'
  <2>1. Len(fifo') = IF n + 1 < MaxItems THEN n + 1 ELSE MaxItems
    BY <1>1, <1>2, <1>6, SyncAssumption DEF SyncInv, WindowIsLatest
  <2>2. ASSUME NEW i \in 1..Len(w)
        PROVE  fifo'[i] = applied'[(n + 1) - Len(fifo') + i].seq
    <3> DEFINE k == Len(fifo) - Len(w) + i
    <3>1. k \in 1..Len(fifo)
      BY <1>1, <1>2, SyncAssumption
    <3>2. fifo[k] = applied[n - Len(fifo) + k].seq
      BY <1>1, <3>1 DEF SyncInv, WindowIsLatest
    <3>3. n - Len(fifo) + k = (n + 1) - Len(fifo') + i
      <4>1. Len(w) \in Nat /\ Len(fifo') = Len(w) + 1
        BY <1>2, <1>6
      <4> QED BY <1>1, <4>1
    <3>4. n - Len(fifo) + k \in 1..n
      <4>1. Len(fifo) <= n
        BY <1>1, SyncAssumption DEF SyncInv, WindowIsLatest
      <4> HIDE DEF k
      <4> QED BY <1>1, <3>1, <4>1
    <3> QED BY <1>6, <1>7, <3>2, <3>3, <3>4
  <2>3. applied'[(n + 1) - Len(fifo') + (Len(w) + 1)].seq = e.seq
    <3>1. (n + 1) - Len(fifo') + (Len(w) + 1) = n + 1
      BY <1>1, <1>2, <1>6
    <3> QED BY <3>1, <1>7
  <2>4. ASSUME NEW i \in DOMAIN fifo'
        PROVE  fifo'[i] = applied'[Len(applied') - Len(fifo') + i].seq
    <3>1. i \in 1..Len(w) \/ i = Len(w) + 1
      BY <1>2, <1>6
    <3>2. CASE i \in 1..Len(w)
      BY <1>7, <2>2, <3>2
    <3>3. CASE i = Len(w) + 1
      BY <1>6, <1>7, <2>3, <3>3
    <3> QED BY <3>1, <3>2, <3>3
  <2> QED BY <1>7, <2>1, <2>4 DEF WindowIsLatest
<1>10. WindowAgrees'
  <2>1. Len(fifo') <= MaxItems
    BY <1>1, <1>2, <1>6, SyncAssumption
  <2>2. \A i, j \in DOMAIN fifo' : fifo'[i] = fifo'[j] => i = j
    <3> SUFFICES ASSUME NEW i \in DOMAIN fifo', NEW j \in DOMAIN fifo', fifo'[i] = fifo'[j]
                 PROVE  i = j
      OBVIOUS
    <3> DEFINE d == Len(fifo) - Len(w)
    <3>1. d \in Nat /\ Len(w) \in Nat /\ Len(fifo) = d + Len(w)
      BY <1>1, <1>2, SyncAssumption
    <3>2. (i \in 1..Len(w) \/ i = Len(w) + 1) /\ (j \in 1..Len(w) \/ j = Len(w) + 1)
      BY <1>6, <3>1
    <3>3. \A k \in 1..Len(w) : d + k \in 1..Len(fifo) /\ fifo'[k] = fifo[d + k] /\ fifo'[k] # e.seq
      <4> SUFFICES ASSUME NEW k \in 1..Len(w)
                   PROVE  d + k \in 1..Len(fifo) /\ fifo'[k] = fifo[d + k] /\ fifo'[k] # e.seq
        OBVIOUS
      <4>1. d + k \in 1..Len(fifo)
        BY <1>1, <3>1
      <4>2. fifo'[k] = fifo[d + k]
        BY <1>6
      <4> QED BY <1>5, <4>1, <4>2
    <3>4. \A k, l \in 1..Len(fifo) : fifo[k] = fifo[l] => k = l
      BY <1>1 DEF SyncInv, WindowAgrees
    <3>5. CASE i \in 1..Len(w) /\ j \in 1..Len(w)
      <4>1. /\ d + i \in 1..Len(fifo) /\ d + j \in 1..Len(fifo)
            /\ fifo[d + i] = fifo[d + j]
        BY <3>3, <3>5
      <4>2. d + i = d + j
        BY <3>4, <4>1
      <4>3. d \in Nat /\ i \in Nat /\ j \in Nat
        BY <3>1, <3>5
      <4> HIDE DEF d
      <4> QED BY <4>2, <4>3
    <3>6. fifo'[Len(w) + 1] = e.seq
      BY <1>6
    <3>7. CASE i = Len(w) + 1 /\ j \in 1..Len(w)
      BY <3>3, <3>6, <3>7
    <3>8. CASE i \in 1..Len(w) /\ j = Len(w) + 1
      BY <3>3, <3>6, <3>8
    <3> QED BY <3>2, <3>5, <3>7, <3>8
  <2>3. processed' = {fifo'[i] : i \in DOMAIN fifo'}
    <3>1. {fifo'[i] : i \in DOMAIN fifo'} = {fifo'[i] : i \in 1..Len(w)} \cup {e.seq}
      <4>1. \A m \in Nat : 1..(m + 1) = 1..m \cup {m + 1}
        OBVIOUS
      <4>2. Len(w) \in Nat
        BY <1>2
      <4>3. DOMAIN fifo' = 1..Len(w) \cup {Len(w) + 1}
        BY <1>6, <4>1, <4>2
      <4> QED BY <1>6, <4>3
    <3>2. processed = {fifo[i] : i \in 1..Len(fifo)}
      BY <1>1 DEF SyncInv, WindowAgrees
    <3>3. processed \ Evicted(fifo) = {fifo'[i] : i \in 1..Len(w)}
      <4>1. CASE Len(fifo) < MaxItems
        <5>1. Len(w) = Len(fifo) /\ Evicted(fifo) = {}
          BY <1>1, <1>2, <4>1, SyncAssumption DEF Evicted
        <5>2. \A i \in 1..Len(w) : fifo'[i] = fifo[i]
          BY <1>1, <1>6, <5>1
        <5> QED BY <3>2, <5>1, <5>2
      <4>2. CASE Len(fifo) >= MaxItems
        <5>1. Len(w) = Len(fifo) - 1 /\ Len(fifo) >= 1 /\ Evicted(fifo) = {fifo[1]}
          BY <1>1, <1>2, <4>2, SyncAssumption DEF Evicted
        <5>2. \A i \in 1..Len(w) : fifo'[i] = fifo[i + 1]
          BY <1>1, <1>6, <5>1
        <5>3. \A i, j \in 1..Len(fifo) : fifo[i] = fifo[j] => i = j
          BY <1>1 DEF SyncInv, WindowAgrees
        <5>4. ASSUME NEW x \in processed, x # fifo[1] PROVE \E i \in 1..Len(w) : x = fifo'[i]
          <6>1. PICK k \in 1..Len(fifo) : x = fifo[k]
            BY <3>2
          <6>2. k # 1
            BY <5>4, <6>1
          <6>3. k - 1 \in 1..Len(w) /\ (k - 1) + 1 = k
            BY <1>1, <5>1, <6>2
          <6> QED BY <5>2, <6>1, <6>3
        <5>5. ASSUME NEW i \in 1..Len(w) PROVE fifo'[i] \in processed /\ fifo'[i] # fifo[1]
          <6>1. i + 1 \in 1..Len(fifo) /\ 1 \in 1..Len(fifo) /\ i + 1 # 1
            BY <1>1, <5>1
          <6> QED BY <3>2, <5>2, <5>3, <6>1
        <5> QED BY <5>1, <5>4, <5>5
      <4> QED BY <1>1, <4>1, <4>2, SyncAssumption
    <3> QED BY <1>4, <3>1, <3>3
  <2> QED BY <2>1, <2>2, <2>3 DEF WindowAgrees
<1>11. ReplayDistance'
  <2> SUFFICES ASSUME NEW i \in DOMAIN applied', NEW j \in DOMAIN applied',
                      i < j, applied'[i].seq = applied'[j].seq
               PROVE  j - i > MaxItems
    BY DEF ReplayDistance
  <2>1. i \in 1..(n + 1) /\ j \in 1..(n + 1) /\ i \in 1..n
    BY <1>1, <1>7
  <2>2. CASE j \in 1..n
    <3>1. applied[i].seq = applied[j].seq
      BY <1>7, <2>1, <2>2
    <3> QED BY <1>1, <2>1, <2>2, <3>1 DEF SyncInv, ReplayDistance
  <2>3. CASE j = n + 1
    <3>1. applied[i].seq = e.seq
      BY <1>7, <2>1, <2>3
    <3>2. ~(i > n - Len(fifo))
      <4> SUFFICES ASSUME i > n - Len(fifo) PROVE FALSE
        OBVIOUS
      <4> DEFINE k == i - (n - Len(fifo))
      <4>1. k \in 1..Len(fifo) /\ n - Len(fifo) + k = i
        BY <1>1, <2>1
      <4>2. fifo[k] = applied[n - Len(fifo) + k].seq
        BY <1>1, <4>1 DEF SyncInv, WindowIsLatest
      <4> QED BY <1>5, <3>1, <4>1, <4>2
    <3>3. Len(fifo) = MaxItems
      BY <1>1, <2>1, <3>2, SyncAssumption DEF SyncInv, WindowIsLatest
    <3> QED BY <1>1, <2>1, <2>3, <3>2, <3>3, SyncAssumption
  <2> QED BY <1>1, <2>1, <2>2, <2>3
<1> QED BY <1>8, <1>9, <1>10, <1>11 DEF SyncInv

\* The window and the set agree, the window is the latest part of the history and
\* stays within the bound of the tier, and no id is applied twice within it.
THEOREM SyncInvariant == SyncSpec => []SyncInv
<1>1. SyncInit => SyncInv
  BY SyncAssumption DEF SyncInit, SyncInv, SyncTypeOK, WindowAgrees, WindowIsLatest, ReplayDistance, Envelope
<1>2. SyncInv /\ [SyncNext]_syncVars => SyncInv'
  <2> SUFFICES ASSUME SyncInv, [SyncNext]_syncVars PROVE SyncInv'
    OBVIOUS
  <2>1. CASE SyncTick
    BY <2>1 DEF SyncTick, SyncInv, SyncTypeOK, WindowAgrees, WindowIsLatest, ReplayDistance
  <2>2. ASSUME NEW d \in Device, RegisterPairedDevice(d) PROVE SyncInv'
    BY <2>2 DEF RegisterPairedDevice, SyncInv, SyncTypeOK, WindowAgrees, WindowIsLatest, ReplayDistance
  <2>3. ASSUME NEW d \in Device, CreateSyncEnvelope(d) PROVE SyncInv'
    <3>1. SyncTypeOK'
      <4>1. issued[d] + 1 \in Nat /\ now + Offset[d] \in Int
        BY SyncAssumption DEF SyncInv, SyncTypeOK
      <4>2. [device |-> d, timestamp |-> now + Offset[d], seq |-> issued[d] + 1] \in Envelope
        BY <4>1 DEF Envelope
      <4>3. created' \subseteq Envelope /\ issued' \in [Device -> Nat]
        BY <2>3, <4>1, <4>2 DEF CreateSyncEnvelope, NextSequenceId, SyncInv, SyncTypeOK
      <4> QED BY <2>3, <4>3 DEF CreateSyncEnvelope, SyncInv, SyncTypeOK
    <3> QED BY <2>3, <3>1 DEF CreateSyncEnvelope, SyncInv, WindowAgrees, WindowIsLatest, ReplayDistance
  <2>4. ASSUME NEW e \in created, Apply(e) PROVE SyncInv'
    BY <2>4, ApplyFacts
  <2>5. CASE UNCHANGED syncVars
    BY <2>5 DEF syncVars, SyncInv, SyncTypeOK, WindowAgrees, WindowIsLatest, ReplayDistance
  <2> QED BY <2>1, <2>2, <2>3, <2>4, <2>5 DEF SyncNext
<1> QED BY <1>1, <1>2, PTL DEF SyncSpec

\* The set and the FIFO of the manager agree, within the bound of the tier.
THEOREM SyncWindow == SyncSpec => [](WindowAgrees /\ WindowIsLatest)
<1>1. SyncInv => WindowAgrees /\ WindowIsLatest
  BY DEF SyncInv
<1> QED BY <1>1, SyncInvariant, PTL

\* Replay protection of process_incoming_envelope: an id comes back only after
\* at least MaxItems other applications.
THEOREM SyncReplayDistance == SyncSpec => []ReplayDistance
<1>1. SyncInv => ReplayDistance
  BY DEF SyncInv
<1> QED BY <1>1, SyncInvariant, PTL

(***************************************************************************)
(* The database file is never torn by a pairing on a platform with an      *)
(* atomic replace, and is replaced only when the backup holds it.          *)
(***************************************************************************)

Storing == post # None /\ post.at \in {"stage", "staging", "replace"}

\* The inductive invariant.  PhaseOK says what each phase of do_POST has secured
\* for the next ones: the copy read the current database, the backup has what the
\* file has, the staged file is complete; but for what a checkpoint wrote meanwhile.
PairingTypes ==
  /\ post \in Post \cup {None}
  /\ file \in Files
  /\ open \subseteq Nat \ {0}
  /\ versions \in Nat
  /\ At("backup") => post.read \in Contents

PhaseOK ==
  /\ At("backup") => post.read = file.db \/ file.db.has \subseteq late
  /\ Storing => file.db.has \subseteq file.bak.has \cup late
  /\ At("replace") => file.staged # Torn
  /\ ~At("copying")

PairingInv ==
  /\ PairingTypes
  /\ posix => /\ file.db # Torn
              /\ PhaseOK
              /\ unsaved \subseteq late

\* The contents a file may have.
LEMMA SpecialContents ==
  /\ Absent \in Contents /\ Torn \in Contents /\ Mixed \in Contents
  /\ Absent.has = {} /\ Torn.has = {} /\ Mixed.has = {}
  /\ Absent.of = 0 /\ Torn.of = -1 /\ Mixed.of = -2 /\ Mixed # Torn
<1>1. 0 \in Int /\ -1 \in Int /\ -2 \in Int /\ -1 # -2
  OBVIOUS
<1>2. Absent.of = 0 /\ Torn.of = -1 /\ Mixed.of = -2 /\ Absent.has = {} /\ Torn.has = {} /\ Mixed.has = {}
  BY DEF Absent, Torn, Mixed
<1>3. Absent \in Contents /\ Torn \in Contents /\ Mixed \in Contents
  BY <1>1 DEF Absent, Torn, Mixed, Contents
<1> QED BY <1>1, <1>2, <1>3

LEMMA NewContents ==
  ASSUME NEW n \in Int, NEW h \in SUBSET Nat
  PROVE  /\ [of |-> n, has |-> h] \in Contents
         /\ [of |-> n, has |-> h].of = n /\ [of |-> n, has |-> h].has = h
  BY DEF Contents

\* The files, and one of them in the place of another.
LEMMA FileFields ==
  ASSUME NEW f \in Files
  PROVE  /\ f.db \in Contents /\ f.wal \in Contents /\ f.bak \in Contents /\ f.staged \in Contents
         /\ f.db.has \in SUBSET Nat /\ f.wal.has \in SUBSET Nat /\ f.db.of \in Int /\ f.wal.of \in Int
  BY DEF Files, Contents

LEMMA WithDb ==
  ASSUME NEW f \in Files, NEW x \in Contents, NEW g, g = [f EXCEPT !.db = x]
  PROVE  g \in Files /\ g.db = x /\ g.bak = f.bak /\ g.staged = f.staged
  BY DEF Files

LEMMA WithBak ==
  ASSUME NEW f \in Files, NEW x \in Contents, NEW g, g = [f EXCEPT !.bak = x]
  PROVE  g \in Files /\ g.db = f.db /\ g.bak = x /\ g.staged = f.staged
  BY DEF Files

LEMMA WithStaged ==
  ASSUME NEW f \in Files, NEW x \in Contents, NEW g, g = [f EXCEPT !.staged = x]
  PROVE  g \in Files /\ g.db = f.db /\ g.bak = f.bak /\ g.staged = x
  BY DEF Files

\* Opening a database makes it a mix of two or leaves it as it is.
LEMMA SeenContents ==
  ASSUME NEW d \in Contents, NEW w
  PROVE  Seen(d, w) \in Contents /\ (Seen(d, w) = d \/ Seen(d, w) = Mixed)
  BY SpecialContents DEF Seen

\* The initial states of the broker satisfy the invariant.
LEMMA PairingInit == Init => PairingInv
<1> SUFFICES ASSUME Init PROVE PairingInv
  OBVIOUS
<1>1. [of |-> 1, has |-> {1}] \in Contents /\ [of |-> 1, has |-> {1}].of = 1
  <2>1. 1 \in Int /\ {1} \in SUBSET Nat
    OBVIOUS
  <2> QED BY <2>1, NewContents
<1>2. file = [db |-> [of |-> 1, has |-> {1}], wal |-> Absent, bak |-> Absent, staged |-> Absent]
  BY DEF Init
<1>3. file \in Files /\ file.db.of = 1
  BY <1>1, <1>2, SpecialContents DEF Files
<1>4. file.db # Torn
  BY <1>3, SpecialContents
<1> QED BY <1>3, <1>4 DEF Init, PairingInv, PairingTypes, PhaseOK, At, Storing

\* Every step of the broker, the node and the process keeps the invariant.
LEMMA PairingStep == PairingInv /\ [Next]_vars => PairingInv'
<1> SUFFICES ASSUME PairingInv, [Next]_vars PROVE PairingInv'
  OBVIOUS
<1> USE DEF PairingInv, PairingTypes, PhaseOK, At, Storing
<1>0. ASSUME UNCHANGED <<post, file, open, versions, posix, late, unsaved>>
      PROVE  PairingInv'
  BY <1>0
<1>a. \A p \in Post, a \in {"token", "backup", "stage", "staging", "replace", "copying", "installed", "answer"} :
        /\ [p EXCEPT !.at = a] \in Post /\ [p EXCEPT !.at = a].at = a
        /\ \A c \in Contents :
             /\ [p EXCEPT !.at = a, !.read = c] \in Post /\ [p EXCEPT !.at = a, !.read = c].at = a
             /\ [p EXCEPT !.at = a, !.read = c].read = c
  BY DEF Post
<1>f. /\ file \in Files /\ file.db \in Contents /\ file.staged \in Contents /\ file.wal \in Contents
      /\ file.db.has \in SUBSET Nat /\ file.wal.has \in SUBSET Nat /\ file.db.of \in Int /\ file.wal.of \in Int
  BY FileFields
<1>1. CASE UNCHANGED vars
  BY <1>0, <1>1 DEF vars
<1>2. CASE Tick \/ SyncPair \/ RunServer
  <2>1. UNCHANGED <<post, file, open, versions, posix, late, unsaved>>
    BY <1>2, Zenon DEF Tick, SyncPair, RunServer, storage
  <2> QED
    BY <1>0, <2>1
<1>3. CASE \E c \in Client, s \in 0..sessions : BeginPost(c, s)
  BY <1>3 DEF BeginPost, storage, Post
<1>4. CASE RejectToken
  BY <1>4, <1>a DEF RejectToken, storage
<1>5. CASE FailPost
  BY <1>5 DEF FailPost, storage
<1>6. CASE BeginBackup
  <2>1. UNCHANGED <<open, versions, posix, late, unsaved>> /\ At("token") /\ post \in Post
    BY <1>6 DEF BeginBackup
  <2>2. CASE NeedsBackup(file)
    <3>1. /\ post' = [post EXCEPT !.at = "backup", !.read = file.db]
          /\ file' = [file EXCEPT !.bak = Torn]
      BY <1>6, <2>2 DEF BeginBackup
    <3>2. file' \in Files /\ file'.db = file.db
      BY <3>1, <1>f, WithBak, SpecialContents
    <3>3. post' \in Post /\ post'.at = "backup" /\ post'.read = file.db
      BY <2>1, <3>1, <1>f DEF Post
    <3> QED
      BY <1>f, <2>1, <3>2, <3>3
  <2>3. CASE ~NeedsBackup(file)
    <3>1. post' = [post EXCEPT !.at = "stage"] /\ UNCHANGED file
      BY <1>6, <2>3 DEF BeginBackup
    <3>2. file.db.has = {}
      BY <2>3, SpecialContents DEF NeedsBackup
    <3> QED
      BY <2>1, <3>1, <3>2, <1>a
  <2> QED
    BY <2>2, <2>3
<1>7. CASE EndBackup
  <2>1. /\ UNCHANGED <<open, versions, posix, late, unsaved>> /\ At("backup") /\ post \in Post
        /\ post' = [post EXCEPT !.at = "stage"]
    BY <1>7 DEF EndBackup
  <2>2. PICK copy \in {post.read, file.db, Torn} :
          (file.db = post.read => copy = post.read) /\ file' = [file EXCEPT !.bak = copy]
    BY <1>7 DEF EndBackup
  <2>3. post' \in Post /\ post'.at = "stage"
    BY <2>1, <1>a
  <2>4. copy \in Contents
    BY <1>f, <2>1, <2>2, SpecialContents
  <2>5. file' \in Files /\ file'.db = file.db /\ file'.bak = copy
    BY <1>f, <2>2, <2>4, WithBak
  <2> QED BY <2>1, <2>2, <2>3, <2>5
<1>8. CASE BeginStage
  <2>1. /\ UNCHANGED <<open, versions, posix, late, unsaved>> /\ At("stage") /\ post \in Post
        /\ post' = [post EXCEPT !.at = "staging"] /\ file' = [file EXCEPT !.staged = Torn]
    BY <1>8 DEF BeginStage, StagedFile
  <2>2. file' \in Files /\ file'.db = file.db /\ file'.bak = file.bak
    BY <1>f, <2>1, WithStaged, SpecialContents
  <2>3. post' \in Post /\ post'.at = "staging"
    BY <2>1, <1>a
  <2> QED BY <2>1, <2>2, <2>3
<1>9. CASE EndStage
  <2>1. /\ UNCHANGED <<open, posix, late, unsaved>> /\ At("staging") /\ post \in Post
        /\ versions' = versions + 1 /\ post' = [post EXCEPT !.at = "replace"]
        /\ file' = [file EXCEPT !.staged = [of |-> versions + 1, has |-> {versions + 1}]]
    BY <1>9 DEF EndStage, StagedFile
  <2>2. PICK new : new = [of |-> versions + 1, has |-> {versions + 1}]
    OBVIOUS
  <2>3. versions + 1 \in Nat /\ new \in Contents /\ new.of = versions + 1 /\ new # Torn
    <3>1. versions + 1 \in Nat /\ versions + 1 \in Int /\ {versions + 1} \in SUBSET Nat /\ versions + 1 # -1
      OBVIOUS
    <3>2. new \in Contents /\ new.of = versions + 1
      BY <2>2, <3>1, NewContents
    <3> QED BY <3>1, <3>2, SpecialContents
  <2>4. file' \in Files /\ file'.db = file.db /\ file'.bak = file.bak /\ file'.staged = new
    <3>1. file' = [file EXCEPT !.staged = new]
      BY <2>1, <2>2
    <3> QED BY <1>f, <2>3, <3>1 DEF Files
  <2>5. post' \in Post /\ post'.at = "replace"
    BY <2>1, <1>a
  <2> QED BY <2>1, <2>3, <2>4, <2>5
<1>10. CASE Replace
  <2>1. /\ UNCHANGED <<open, versions, posix, late>> /\ At("replace") /\ post \in Post
        /\ unsaved' = unsaved \cup (file.db.has \ file.bak.has)
        /\ post' = [post EXCEPT !.at = "installed"]
        /\ file' = [file EXCEPT !.db = file.staged, !.staged = Absent]
    BY <1>10 DEF Replace, Overwrite
  <2>2. file' \in Files /\ file'.db = file.staged
    BY <1>f, <2>1, SpecialContents DEF Files
  <2>3. post' \in Post /\ post'.at = "installed"
    BY <2>1, <1>a
  <2> QED BY <2>1, <2>2, <2>3
<1>11. CASE BeginCopy
  <2>1. /\ UNCHANGED <<versions, posix, late>> /\ ~posix /\ post \in Post /\ open' \subseteq open
        /\ post' = [post EXCEPT !.at = "copying"] /\ file' = [file EXCEPT !.db = Torn]
    BY <1>11 DEF BeginCopy
  <2>2. file' \in Files
    BY <1>f, <2>1, WithDb, SpecialContents
  <2> QED BY <2>1, <2>2, <1>a
<1>12. CASE EndCopy
  <2>1. ~posix
    BY <1>12 DEF EndCopy
  <2>2. /\ UNCHANGED <<open, versions, posix>> /\ post \in Post /\ post' = [post EXCEPT !.at = "installed"]
        /\ \E left \in {file.staged, Absent} : file' = [file EXCEPT !.db = file.staged, !.staged = left]
    BY <1>12 DEF EndCopy
  <2>3. file' \in Files
    BY <1>f, <2>2, SpecialContents DEF Files
  <2> QED BY <2>1, <2>2, <2>3, <1>a
<1>13. CASE Succeed
  BY <1>13, <1>a DEF Succeed, storage
<1>14. CASE EndPost
  BY <1>14 DEF EndPost, storage
<1>15. CASE OpenConnection
  <2>1. UNCHANGED <<post, versions, posix, late, unsaved>> /\ file.db.of \in Int /\ file.db.of > 0
    BY <1>f, <1>15 DEF OpenConnection
  <2>2. PICK seen : seen = Seen(file.db, file.wal)
    OBVIOUS
  <2>3. file' = [file EXCEPT !.db = seen] /\ open' = IF seen = Mixed THEN open ELSE open \cup {seen.of}
    BY <1>15, <2>2 DEF OpenConnection
  <2>4. seen \in Contents /\ (seen = file.db \/ seen = Mixed)
    BY <1>f, <2>2, SeenContents
  <2>5. /\ file' \in Files /\ file'.db = seen /\ file'.bak = file.bak /\ file'.staged = file.staged
        /\ open' \subseteq Nat \ {0}
    <3>1. file' \in Files /\ file'.db = seen /\ file'.bak = file.bak /\ file'.staged = file.staged
      BY <1>f, <2>3, <2>4, WithDb
    <3> QED BY <2>1, <2>3, <2>4, <3>1
  <2>6. Mixed # Torn /\ Mixed.has = {}
    BY SpecialContents
  <2> QED BY <2>1, <2>4, <2>5, <2>6
<1>16. ASSUME NEW d \in open, NodeCommit(d) PROVE PairingInv'
  <2> DEFINE before == IF file.wal.of = d THEN file.wal.has ELSE {}
             log == [of |-> d, has |-> before \cup {versions + 1}]
             db == IF file.db.of \in open THEN Seen(file.db, log) ELSE file.db
  <2>1. /\ UNCHANGED <<post, posix, late, unsaved>> /\ versions' = versions + 1
        /\ file' = [file EXCEPT !.wal = log, !.db = db]
        /\ open' = IF file.db.of \in open \ {d} THEN {d} ELSE open
    BY <1>16 DEF NodeCommit
  <2>2. d \in Nat \ {0} /\ before \subseteq Nat /\ versions + 1 \in Nat
    <3>1. open \subseteq Nat \ {0} /\ versions \in Nat
      OBVIOUS
    <3>2. before \subseteq Nat
      BY <1>f
    <3> HIDE DEF PairingInv, PairingTypes, PhaseOK, At, Storing, before, log, db
    <3> QED BY <3>1, <3>2, <1>16
  <2>3. log \in Contents
    <3>1. before \cup {versions + 1} \in SUBSET Nat
      BY <2>2
    <3> QED BY <2>2, <3>1, NewContents
  <2>4. db \in Contents /\ (db = file.db \/ db = Mixed)
    BY <1>f, SeenContents
  <2> HIDE DEF before, log, db
  <2>5. /\ file' \in Files /\ file'.db = db /\ file'.bak = file.bak /\ file'.staged = file.staged
        /\ open' \subseteq Nat \ {0}
    <3>1. file' \in Files /\ file'.db = db /\ file'.bak = file.bak /\ file'.staged = file.staged
      BY <1>f, <2>1, <2>3, <2>4 DEF Files
    <3> QED BY <2>1, <2>2, <3>1
  <2>6. Mixed # Torn /\ Mixed.has = {}
    BY SpecialContents
  <2> QED BY <2>1, <2>2, <2>4, <2>5, <2>6
<1>17. CASE Checkpoint
  <2> DEFINE db == IF file.db.of = file.wal.of
                   THEN [of |-> file.db.of, has |-> file.db.has \cup file.wal.has] ELSE file.db
  <2>1. /\ UNCHANGED <<open, post, versions, posix, unsaved>> /\ file.wal.of \in open
        /\ \E log \in {file.wal, Absent} : file' = [file EXCEPT !.db = db, !.wal = log]
        /\ late' = IF post = None \/ db = file.db THEN late
                   ELSE late \cup IF post.at = "backup" THEN db.has ELSE file.wal.has
    BY <1>17 DEF Checkpoint
  <2>2. db \in Contents /\ (db = file.db \/ (db.of \in Nat \ {0} /\ db.has = file.db.has \cup file.wal.has))
    <3>1. CASE file.db.of = file.wal.of
      <4>1. file.db.of \in Nat \ {0} /\ file.db.has \cup file.wal.has \in SUBSET Nat
        BY <1>f, <2>1, <3>1
      <4>2. db = [of |-> file.db.of, has |-> file.db.has \cup file.wal.has]
        BY <3>1
      <4> HIDE DEF db
      <4>3. file.db.of \in Int
        BY <4>1
      <4> QED BY <4>1, <4>2, <4>3, NewContents
    <3> QED BY <1>f, <3>1
  <2> HIDE DEF db
  <2>3. db = file.db \/ db # Torn
    BY <2>2, SpecialContents
  <2>4. file' \in Files /\ file'.db = db /\ file'.bak = file.bak /\ file'.staged = file.staged
    <3>1. PICK log \in {file.wal, Absent} : file' = [file EXCEPT !.db = db, !.wal = log]
      BY <2>1
    <3>2. log \in Contents
      BY <1>f, <3>1, SpecialContents
    <3> QED BY <1>f, <2>2, <3>1, <3>2 DEF Files
  <2>5. late \subseteq late'
    BY <2>1
  <2>6. At("backup") => post.read = db \/ db.has \subseteq late' \/ ~posix
    BY <2>1, <2>2, <2>5
  <2>7. Storing => db.has \subseteq file.bak.has \cup late' \/ ~posix
    BY <2>1, <2>2, <2>5
  <2> QED BY <2>1, <2>3, <2>4, <2>5, <2>6, <2>7
<1>18. CASE Restart
  BY <1>18 DEF Restart
<1> QED
  BY <1>1, <1>2, <1>3, <1>4, <1>5, <1>6, <1>7, <1>8, <1>9, <1>10, <1>11, <1>12,
     <1>13, <1>14, <1>15, <1>16, <1>17, <1>18 DEF Next

\* For any clients, windows and limits: on a platform where os.replace succeeds
\* do_POST never leaves a torn database file, wherever it fails or the process dies,
\* and what the file had that it replaces is in the backup, but for what a checkpoint
\* of the write-ahead log brought in meanwhile.
THEOREM PairingKeepsDatabase == Spec => []DatabaseKept
<1>1. PairingInv => DatabaseKept
  BY DEF PairingInv, DatabaseKept
<1> QED
  BY <1>1, PairingInit, PairingStep, PTL DEF Spec

(***************************************************************************)
(* Groups of devices.                                                      *)
(***************************************************************************)
CommitRecord == [members : SUBSET Devices, secret : Seq(Nat \cup Devices)]

LEMMA AppendedCommit ==
  ASSUME NEW S, NEW s \in Seq(S), NEW e \in S
  PROVE  /\ Append(s, e) \in Seq(S) /\ Len(s) \in Nat /\ Len(Append(s, e)) = Len(s) + 1
         /\ \A i \in 1..Len(s) : Append(s, e)[i] = s[i]
         /\ Append(s, e)[Len(s) + 1] = e
OBVIOUS

\* Every secret starts with the number of the commit that brought fresh entropy,
\* and commits that share it only added members.
SecretsRooted ==
  /\ commits \in Seq(CommitRecord) /\ Len(commits) \in 1..(MaxEpoch + 1)
  /\ \A i \in DOMAIN commits : commits[i].secret # <<>> /\ commits[i].secret[1] \in 0..(i - 1)
  /\ \A i, j \in DOMAIN commits :
       i <= j /\ commits[i].secret[1] = commits[j].secret[1] => commits[i].members \subseteq commits[j].members

\* A client's context is the commit of its epoch.
ContextsCommitted ==
  /\ DOMAIN context = Devices
  /\ \A d \in Devices :
       /\ DOMAIN context[d] = {"in", "epoch", "members", "secret"}
       /\ \/ context[d] = Outside
          \/ /\ context[d].in = TRUE /\ context[d].epoch \in 0..NewestEpoch
             /\ context[d].members = commits[context[d].epoch + 1].members
             /\ context[d].secret = commits[context[d].epoch + 1].secret

\* A client was given only secrets of epochs it was a member of.
HeldAsMember ==
  /\ DOMAIN held = Devices
  /\ \A d \in Devices : \A s \in held[d] :
       \E i \in DOMAIN commits : s = commits[i].secret /\ d \in commits[i].members

MLSInv == SecretsRooted /\ ContextsCommitted /\ HeldAsMember

\* What any commit does: the committer is a member after it, and either the
\* secret extends the newest one and nobody left, or it is fresh.
LEMMA CommitKeeps ==
  ASSUME MLSInv, NEW d \in Devices, NEW members \in SUBSET Devices, NEW secret \in Seq(Nat \cup Devices),
         Commit(d, members, secret), d \in members, secret # <<>>,
         \/ secret[1] = commits[Len(commits)].secret[1] /\ commits[Len(commits)].members \subseteq members
         \/ secret[1] = Len(commits)
  PROVE  MLSInv'
<1> DEFINE L == Len(commits)
           new == [members |-> members, secret |-> secret]
<1>1. /\ commits' = Append(commits, new) /\ L \in Nat /\ L >= 1 /\ L <= MaxEpoch /\ new \in CommitRecord
      /\ commits \in Seq(CommitRecord)
  BY MLSAssumption DEF Commit, MLSInv, SecretsRooted, NewestEpoch, CommitRecord
<1>2. /\ commits' \in Seq(CommitRecord) /\ Len(commits') = L + 1 /\ DOMAIN commits' = 1..(L + 1)
      /\ DOMAIN commits = 1..L
      /\ \A i \in 1..L : commits'[i] = commits[i]
      /\ commits'[L + 1] = new
  <2>1. Append(commits, new) \in Seq(CommitRecord) /\ Len(Append(commits, new)) = L + 1
        /\ (\A i \in 1..L : Append(commits, new)[i] = commits[i]) /\ Append(commits, new)[L + 1] = new
    BY <1>1, AppendedCommit
  <2> QED BY <1>1, <2>1
<1> HIDE DEF L
<1>3. new.members = members /\ new.secret = secret
  OBVIOUS
<1> HIDE DEF new
<1>4. SecretsRooted'
  <2>1. \A i \in 1..L : commits[i].secret[1] \in 0..(i - 1) /\ commits[i].secret # <<>>
    BY <1>2 DEF MLSInv, SecretsRooted
  <2>2. \A i, j \in 1..L :
       i <= j /\ commits[i].secret[1] = commits[j].secret[1] => commits[i].members \subseteq commits[j].members
    BY <1>2 DEF MLSInv, SecretsRooted
  <2>3. \/ secret[1] = commits[L].secret[1] /\ commits[L].members \subseteq members
        \/ secret[1] = L
    BY DEF L
  <2>4. \A i \in 1..(L + 1) : commits'[i].secret # <<>> /\ commits'[i].secret[1] \in 0..(i - 1)
    BY <1>1, <1>2, <1>3, <2>1, <2>3
  <2>5. \A i \in 1..L : commits[i].secret[1] = secret[1] => commits[i].members \subseteq members
    BY <1>1, <2>1, <2>2, <2>3
  <2>6. \A i, j \in 1..(L + 1) : i <= j /\ commits'[i].secret[1] = commits'[j].secret[1]
                                   => commits'[i].members \subseteq commits'[j].members
    BY <1>1, <1>2, <1>3, <2>2, <2>5
  <2>7. L + 1 \in 1..(MaxEpoch + 1)
    BY <1>1, MLSAssumption
  <2> QED BY <1>2, <2>4, <2>6, <2>7 DEF SecretsRooted
<1>5. ContextsCommitted'
  <2>1. /\ DOMAIN context' = Devices
        /\ \A e \in Devices \ {d} : context'[e] = context[e]
        /\ DOMAIN context'[d] = {"in", "epoch", "members", "secret"}
        /\ context'[d].in = TRUE /\ context'[d].epoch = L
        /\ context'[d].members = members /\ context'[d].secret = secret
    BY <1>1 DEF Commit, MLSInv, ContextsCommitted, NewestEpoch, L, Outside
  <2>2. NewestEpoch = L - 1 /\ NewestEpoch' = L
    BY <1>1, <1>2 DEF NewestEpoch, L
  <2>3. ASSUME NEW e \in Devices \ {d}, context[e] # Outside
        PROVE  /\ context'[e].in = TRUE /\ context'[e].epoch \in 0..L
               /\ context'[e].members = commits'[context'[e].epoch + 1].members
               /\ context'[e].secret = commits'[context'[e].epoch + 1].secret
    BY <1>1, <1>2, <2>1, <2>2, <2>3 DEF MLSInv, ContextsCommitted
  <2>4. commits'[context'[d].epoch + 1] = new
    BY <1>2, <2>1
  <2>5. context'[d].epoch \in 0..L
    BY <1>1, <2>1
  <2> QED BY <1>3, <2>1, <2>2, <2>3, <2>4, <2>5 DEF MLSInv, ContextsCommitted, Outside
<1>6. HeldAsMember'
  <2>1. held' = [held EXCEPT ![d] = @ \cup {secret}]
    BY DEF Commit
  <2>2. L + 1 \in 1..(L + 1) /\ 1..L \subseteq 1..(L + 1)
    BY <1>1
  <2> QED BY <1>2, <1>3, <2>1, <2>2 DEF MLSInv, HeldAsMember
<1> QED BY <1>4, <1>5, <1>6 DEF MLSInv

\* Whoever is not in the group cannot compute its key, whatever it held, over any
\* number of commits; and the contexts keep their types.
THEOREM RemovedMembersLockedOut == MLSSpec => [](MLSTypeOK /\ RemovedLockedOut)
<1>1. MLSInit => MLSInv
  <2> SUFFICES ASSUME MLSInit PROVE MLSInv
    OBVIOUS
  <2>1. /\ commits \in Seq(CommitRecord) /\ Len(commits) = 1 /\ DOMAIN commits = {1}
        /\ commits[1].secret = <<0>> /\ commits[1].members = {Creator}
    BY MLSAssumption DEF MLSInit, CommitRecord
  <2>2. SecretsRooted
    BY <2>1, MLSAssumption DEF SecretsRooted
  <2>3. ContextsCommitted
    <3>1. NewestEpoch = 0
      BY <2>1 DEF NewestEpoch
    <3>2. ASSUME NEW d \in Devices, d # Creator PROVE context[d] = Outside
      BY <3>2 DEF MLSInit
    <3>3. context[Creator] = [in |-> TRUE, epoch |-> 0, members |-> {Creator}, secret |-> <<0>>]
      BY MLSAssumption DEF MLSInit
    <3>4. DOMAIN context = Devices
      BY DEF MLSInit
    <3>5. /\ DOMAIN context[Creator] = {"in", "epoch", "members", "secret"}
          /\ context[Creator].in = TRUE /\ context[Creator].epoch = 0
          /\ context[Creator].members = {Creator} /\ context[Creator].secret = <<0>>
      BY <3>3
    <3>6. DOMAIN Outside = {"in", "epoch", "members", "secret"}
      BY DEF Outside
    <3>7. 0 \in 0..NewestEpoch /\ 0 + 1 = 1
      BY <3>1
    <3>8. ASSUME NEW d \in Devices
          PROVE  /\ DOMAIN context[d] = {"in", "epoch", "members", "secret"}
                 /\ \/ context[d] = Outside
                    \/ /\ context[d].in = TRUE /\ context[d].epoch \in 0..NewestEpoch
                       /\ context[d].members = commits[context[d].epoch + 1].members
                       /\ context[d].secret = commits[context[d].epoch + 1].secret
      BY <2>1, <3>2, <3>5, <3>6, <3>7
    <3> QED BY <3>4, <3>8 DEF ContextsCommitted
  <2>4. HeldAsMember
    BY <2>1 DEF MLSInit, HeldAsMember
  <2> QED BY <2>2, <2>3, <2>4 DEF MLSInv
<1>2. MLSInv /\ [MLSNext]_mlsVars => MLSInv'
  <2> SUFFICES ASSUME MLSInv, [MLSNext]_mlsVars PROVE MLSInv'
    OBVIOUS
  <2>0. ASSUME NEW d \in Devices, context[d].in, context[d].epoch = NewestEpoch
        PROVE  /\ context[d].members = commits[Len(commits)].members /\ context[d].members \in SUBSET Devices
               /\ context[d].secret = commits[Len(commits)].secret /\ context[d].secret \in Seq(Nat \cup Devices)
               /\ context[d].secret # <<>> /\ Len(commits) \in Nat
    <3>1. Len(commits) \in DOMAIN commits /\ commits[Len(commits)] \in CommitRecord /\ Len(commits) \in Nat
          /\ NewestEpoch + 1 = Len(commits)
      BY MLSAssumption DEF MLSInv, SecretsRooted, NewestEpoch
    <3> QED BY <2>0, <3>1 DEF MLSInv, ContextsCommitted, SecretsRooted, Outside, CommitRecord
  <2>1. ASSUME NEW d \in Devices, NEW e \in Devices, AddMember(d, e) PROVE MLSInv'
    <3>1. context[d].in /\ context[d].epoch = NewestEpoch /\ d \in context[d].members
      BY <2>1 DEF AddMember, Commit
    <3> DEFINE s == Append(context[d].secret, e)
               m == context[d].members \cup {e}
    <3>2. s \in Seq(Nat \cup Devices) /\ s # <<>> /\ s[1] = commits[Len(commits)].secret[1]
      BY <2>0, <3>1
    <3>3. m \in SUBSET Devices /\ d \in m /\ commits[Len(commits)].members \subseteq m
      BY <2>0, <3>1
    <3>4. Commit(d, m, s)
      BY <2>1 DEF AddMember
    <3> HIDE DEF s, m
    <3> QED BY <3>2, <3>3, <3>4, CommitKeeps
  <2>2. ASSUME NEW d \in Devices, NEW m, Commit(d, m, <<Len(commits)>>), d \in m, m \subseteq context[d].members
        PROVE  MLSInv'
    <3> DEFINE s == <<Len(commits)>>
    <3>1. context[d].in /\ context[d].epoch = NewestEpoch
      BY <2>2 DEF Commit
    <3>2. s \in Seq(Nat \cup Devices) /\ s # <<>> /\ s[1] = Len(commits)
      BY <2>0, <3>1
    <3>3. m \in SUBSET Devices
      BY <2>0, <2>2, <3>1
    <3>4. Commit(d, m, s)
      BY <2>2
    <3> HIDE DEF s
    <3> QED BY <2>2, <3>2, <3>3, <3>4, CommitKeeps
  <2>6. ASSUME NEW d \in Devices, RotateEpoch(d) PROVE MLSInv'
    <3> DEFINE m == context[d].members
    <3>1. Commit(d, m, <<Len(commits)>>)
      BY <2>6 DEF RotateEpoch
    <3>2. d \in m /\ m \subseteq context[d].members
      BY <2>6 DEF RotateEpoch, Commit
    <3> HIDE DEF m
    <3> QED BY <2>2, <3>1, <3>2
  <2>7. ASSUME NEW d \in Devices, NEW e \in Devices, RemoveMember(d, e) PROVE MLSInv'
    <3> DEFINE m == context[d].members \ {e}
    <3>1. Commit(d, m, <<Len(commits)>>)
      BY <2>7 DEF RemoveMember
    <3>2. d \in m /\ m \subseteq context[d].members
      BY <2>7 DEF RemoveMember, Commit
    <3> HIDE DEF m
    <3> QED BY <2>2, <3>1, <3>2
  <2>3. ASSUME NEW d \in Devices, NEW i \in DOMAIN commits, ProcessCommit(d, i) PROVE MLSInv'
    <3>1. i \in 1..Len(commits) /\ i \in Nat /\ Len(commits) \in Nat
      BY MLSAssumption DEF MLSInv, SecretsRooted
    <3>2. SecretsRooted'
      BY <2>3 DEF ProcessCommit, MLSInv, SecretsRooted
    <3>3. ContextsCommitted'
      <4> DEFINE new == [in |-> TRUE, epoch |-> i - 1, members |-> commits[i].members,
                         secret |-> commits[i].secret]
      <4>1. context' = [context EXCEPT ![d] = new] /\ commits' = commits /\ NewestEpoch' = NewestEpoch
        BY <2>3 DEF ProcessCommit, NewestEpoch
      <4>2. /\ DOMAIN new = {"in", "epoch", "members", "secret"} /\ new.in = TRUE
            /\ new.epoch = i - 1 /\ new.members = commits[i].members /\ new.secret = commits[i].secret
        OBVIOUS
      <4>3. i - 1 \in 0..NewestEpoch /\ (i - 1) + 1 = i
        BY <3>1 DEF NewestEpoch
      <4> HIDE DEF new
      <4>4. context'[d] = new /\ \A e \in Devices \ {d} : context'[e] = context[e]
        BY <4>1 DEF MLSInv, ContextsCommitted
      <4>5. DOMAIN context' = Devices
        BY <4>1 DEF MLSInv, ContextsCommitted
      <4> QED BY <4>1, <4>2, <4>3, <4>4, <4>5 DEF MLSInv, ContextsCommitted
    <3>4. HeldAsMember'
      BY <2>3 DEF ProcessCommit, MLSInv, HeldAsMember
    <3> QED BY <3>2, <3>3, <3>4 DEF MLSInv
  <2>4. ASSUME NEW d \in Devices, Leave(d) PROVE MLSInv'
    <3>1. context' = [context EXCEPT ![d] = Outside] /\ UNCHANGED <<commits, held>>
          /\ NewestEpoch' = NewestEpoch
      BY <2>4 DEF Leave, NewestEpoch
    <3>2. SecretsRooted' /\ HeldAsMember'
      BY <3>1 DEF MLSInv, SecretsRooted, HeldAsMember
    <3>3. DOMAIN Outside = {"in", "epoch", "members", "secret"}
      BY DEF Outside
    <3>4. ContextsCommitted'
      BY <3>1, <3>3 DEF MLSInv, ContextsCommitted
    <3> QED BY <3>2, <3>4 DEF MLSInv
  <2>5. CASE UNCHANGED mlsVars
    BY <2>5 DEF mlsVars, MLSInv, SecretsRooted, ContextsCommitted, HeldAsMember, NewestEpoch, Outside
  <2> QED BY <2>1, <2>3, <2>4, <2>5, <2>6, <2>7 DEF MLSNext
<1>3. MLSInv => MLSTypeOK
  <2> SUFFICES ASSUME MLSInv PROVE MLSTypeOK
    OBVIOUS
  <2>0. \A i \in DOMAIN commits : commits[i] \in CommitRecord
    BY DEF MLSInv, SecretsRooted
  <2>1. \A i \in DOMAIN commits : commits[i].members \subseteq Devices
    BY <2>0 DEF CommitRecord
  <2>2. /\ Len(commits) \in 1..(MaxEpoch + 1) /\ DOMAIN commits = 1..Len(commits)
        /\ NewestEpoch = Len(commits) - 1
    BY DEF MLSInv, SecretsRooted, NewestEpoch
  <2>3. ASSUME NEW d \in Devices
        PROVE  /\ context[d].epoch \in 0..MaxEpoch /\ context[d].members \subseteq Devices
               /\ context[d].in \in BOOLEAN
    <3>1. CASE context[d] = Outside
      BY <3>1, MLSAssumption DEF Outside
    <3>2. CASE context[d] # Outside
      <4>1. context[d].epoch \in 0..NewestEpoch /\ context[d].in = TRUE
            /\ context[d].members = commits[context[d].epoch + 1].members
        BY <3>2 DEF MLSInv, ContextsCommitted
      <4>2. context[d].epoch + 1 \in DOMAIN commits /\ context[d].epoch \in 0..MaxEpoch
        BY <2>2, <4>1, MLSAssumption
      <4> QED BY <2>1, <4>1, <4>2
    <3> QED BY <3>1, <3>2
  <2> QED BY <2>1, <2>2, <2>3 DEF MLSTypeOK
<1>4. MLSInv => RemovedLockedOut
  <2> SUFFICES ASSUME MLSInv, NEW d \in Devices, d \notin commits[Len(commits)].members, NEW s \in held[d],
                      IsPrefix(s, commits[Len(commits)].secret)
               PROVE  FALSE
    BY DEF RemovedLockedOut
  <2>1. PICK i \in DOMAIN commits : s = commits[i].secret /\ d \in commits[i].members
    BY DEF MLSInv, HeldAsMember
  <2>2. Len(commits) \in DOMAIN commits /\ i <= Len(commits)
    BY MLSAssumption DEF MLSInv, SecretsRooted
  <2>3. s[1] = commits[Len(commits)].secret[1]
    <3>1. s \in Seq(Nat \cup Devices) /\ s # <<>> /\ commits[Len(commits)].secret \in Seq(Nat \cup Devices)
      <4>1. commits[i] \in CommitRecord /\ commits[Len(commits)] \in CommitRecord
        BY <2>2 DEF MLSInv, SecretsRooted
      <4>2. commits[i].secret # <<>>
        BY DEF MLSInv, SecretsRooted
      <4> QED BY <2>1, <4>1, <4>2 DEF CommitRecord
    <3> QED BY <3>1 DEF IsPrefix
  <2> QED BY <2>1, <2>2, <2>3 DEF MLSInv, SecretsRooted
<1> QED BY <1>1, <1>2, <1>3, <1>4, PTL DEF MLSSpec

(***************************************************************************)
(* The limiters.  A deque of failures is pruned from its head; what is     *)
(* popped is found by induction over the deque, in the form of the least   *)
(* element of a set of numbers.                                            *)
(***************************************************************************)
\* A set of natural numbers has a least element.
LEMMA LeastOf ==
  ASSUME NEW T \in SUBSET Nat, T # {}
  PROVE  \E n \in T : \A m \in T : n <= m
<1> DEFINE R == OpToRel(<, Nat)
<1>1. IsWellFoundedOn(R, Nat)
  BY NatLessThanWellFounded, Zenon
<1>2. \A x, y \in Nat : y < x => <<y, x>> \in R
  BY DEF OpToRel
<1> HIDE DEF R
<1>3. PICK n \in T : \A m \in T : ~(<<m, n>> \in R)
  BY <1>1, WFMin
<1>4. \A m \in T : n \in Nat /\ m \in Nat /\ ~(m < n)
  BY <1>2, <1>3
<1>5. \A x, y \in Nat : ~(y < x) => x <= y
  OBVIOUS
<1> QED BY <1>4, <1>5

\* The loop that pops old entries from the head of a deque ends at the first entry
\* that is not old, or at the end.
LEMMA OldEntries ==
  ASSUME NEW q \in Seq(Nat), NEW present \in Nat, NEW window \in Nat
  PROVE  \E n \in 0..Len(q) : /\ \A i \in 1..n : present - q[i] > window
                              /\ n = Len(q) \/ present - q[n + 1] <= window
<1> DEFINE Ends == {n \in 0..Len(q) : n = Len(q) \/ present - q[n + 1] <= window}
<1>1. Ends \in SUBSET Nat /\ Len(q) \in Ends
  OBVIOUS
<1>2. PICK n \in Ends : \A m \in Ends : n <= m
  <2> HIDE DEF Ends
  <2> QED BY <1>1, LeastOf
<1>3. ASSUME NEW i \in 1..n PROVE present - q[i] > window
  <2>1. i - 1 \in 0..Len(q) /\ i - 1 < n /\ i - 1 # Len(q) /\ i - 1 \in Nat /\ i \in DOMAIN q
    BY <1>2
  <2>2. ~(present - q[(i - 1) + 1] <= window)
    <3>1. i - 1 \notin Ends
      <4> HIDE DEF Ends
      <4>1. \A a, b \in Nat : a < b => ~(b <= a)
        OBVIOUS
      <4> QED BY <1>1, <1>2, <2>1, <4>1
    <3> QED BY <2>1, <3>1
  <2>3. present - q[i] \in Int /\ (i - 1) + 1 = i
    BY <2>1
  <2> QED BY <2>2, <2>3
<1> QED BY <1>2, <1>3

\* What a deque dq remembers of the failures f since the first start of them: all
\* that are in the window, in order.
Remembers(dq, f, start, present, window) ==
  /\ f \in Seq(Nat) /\ dq \in Seq(Nat) /\ start \in 0..Len(f)
  /\ \A i \in 1..Len(f) : f[i] <= present
  /\ \A i, j \in 1..Len(f) : i <= j => f[i] <= f[j]
  /\ \E k \in start..Len(f) :
       /\ Len(dq) = Len(f) - k
       /\ \A i \in 1..Len(dq) : dq[i] = f[k + i]
       /\ \A i \in (start + 1)..k : present - f[i] > window

LEMMA RememberedTimes ==
  ASSUME NEW dq, NEW f, NEW start, NEW present \in Nat, NEW window \in Nat, Remembers(dq, f, start, present, window)
  PROVE  /\ f \in Seq(Nat) /\ dq \in Seq(Nat) /\ start \in 0..Len(f)
         /\ Len(f) \in Nat /\ Len(dq) \in Nat
         /\ \A i \in 1..Len(f) : f[i] <= present /\ f[i] \in Nat
         /\ \A i, j \in 1..Len(f) : i <= j => f[i] <= f[j]
BY DEF Remembers

\* It still does when time has passed,
LEMMA RemembersLater ==
  ASSUME NEW dq, NEW f, NEW start, NEW present \in Nat, NEW window \in Nat,
         Remembers(dq, f, start, present, window)
  PROVE  Remembers(dq, f, start, present + 1, window)
<1>1. /\ f \in Seq(Nat) /\ dq \in Seq(Nat) /\ start \in 0..Len(f)
      /\ \A i \in 1..Len(f) : f[i] <= present /\ f[i] \in Nat
      /\ \A i, j \in 1..Len(f) : i <= j => f[i] <= f[j]
  BY DEF Remembers
<1>2. PICK k \in start..Len(f) :
       /\ Len(dq) = Len(f) - k
       /\ \A i \in 1..Len(dq) : dq[i] = f[k + i]
       /\ \A i \in (start + 1)..k : present - f[i] > window
  BY DEF Remembers
<1>3. \A i \in 1..Len(f) : f[i] <= present + 1
  BY <1>1
<1>4. \A i \in (start + 1)..k : (present + 1) - f[i] > window
  <2>1. ASSUME NEW i \in (start + 1)..k PROVE (present + 1) - f[i] > window
    <3>1. i \in 1..Len(f) /\ f[i] \in Nat /\ present - f[i] > window
      BY <1>1, <1>2
    <3> QED BY <3>1
  <2> QED BY <2>1
<1> QED BY <1>1, <1>2, <1>3, <1>4 DEF Remembers

\* The first n entries of a deque are old.
OldHead(q, n, present, window) == n \in 0..Len(q) /\ \A i \in 1..n : present - q[i] > window

\* r is q, of length m, without its first n elements.
TailOf(r, q, n, m) == r \in Seq(Nat) /\ Len(r) = m - n /\ \A i \in 1..(m - n) : r[i] = q[n + i]

LEMMA WithoutHead ==
  ASSUME NEW q \in Seq(Nat), NEW m \in Nat, m = Len(q), NEW n \in 0..m, NEW r, r = SubSeq(q, n + 1, m)
  PROVE  TailOf(r, q, n, m)
BY DEF TailOf

\* and when a failure is added at its end and the old ones are popped from its head.
LEMMA RemembersFailure ==
  ASSUME NEW dq, NEW f, NEW start, NEW present \in Nat, NEW window \in Nat,
         Remembers(dq, f, start, present, window),
         NEW q, q = Append(dq, present), NEW n, OldHead(q, n, present, window),
         NEW r, r = SubSeq(q, n + 1, Len(q)), NEW g, g = Append(f, present)
  PROVE  Remembers(r, g, start, present, window)
<1>0. \A m \in Nat : \A i \in 1..(m + 1) : i \in 1..m \/ i = m + 1
  OBVIOUS
<1>1. /\ f \in Seq(Nat) /\ dq \in Seq(Nat) /\ start \in 0..Len(f)
      /\ Len(f) \in Nat /\ Len(dq) \in Nat
      /\ \A i \in 1..Len(f) : f[i] <= present /\ f[i] \in Nat
      /\ \A i, j \in 1..Len(f) : i <= j => f[i] <= f[j]
  BY RememberedTimes, Zenon
<1>2. PICK k \in start..Len(f) :
       /\ Len(dq) = Len(f) - k
       /\ \A i \in 1..Len(dq) : dq[i] = f[k + i]
       /\ \A i \in (start + 1)..k : present - f[i] > window
  BY DEF Remembers
<1>3. /\ g \in Seq(Nat) /\ Len(g) = Len(f) + 1 /\ g[Len(f) + 1] = present
      /\ \A i \in 1..Len(f) : g[i] = f[i]
  BY <1>1
<1>4. /\ q \in Seq(Nat) /\ Len(q) = Len(dq) + 1 /\ q[Len(dq) + 1] = present
      /\ \A i \in 1..Len(dq) : q[i] = dq[i]
  BY <1>1
<1>5. n \in 0..(Len(dq) + 1) /\ n # Len(dq) + 1 /\ \A i \in 1..n : present - q[i] > window
  <2>1. n \in 0..(Len(dq) + 1) /\ \A i \in 1..n : present - q[i] > window
    BY <1>4 DEF OldHead
  <2>2. present - present = 0 /\ ~(0 > window)
    OBVIOUS
  <2>3. n # Len(dq) + 1
    BY <1>1, <1>4, <2>1, <2>2
  <2> QED BY <2>1, <2>3
<1>6. \A i \in 1..(Len(dq) + 1) : q[i] = g[k + i]
  <2>1. ASSUME NEW i \in 1..Len(dq) PROVE q[i] = g[k + i]
    <3>1. k + i \in 1..Len(f)
      BY <1>1, <1>2
    <3> QED BY <1>2, <1>3, <1>4, <3>1
  <2>2. q[Len(dq) + 1] = g[k + (Len(dq) + 1)]
    <3>1. k + (Len(dq) + 1) = Len(f) + 1
      BY <1>1, <1>2
    <3> QED BY <1>3, <1>4, <3>1
  <2> QED BY <1>0, <1>1, <2>1, <2>2
<1>7. r \in Seq(Nat) /\ Len(r) = (Len(dq) + 1) - n /\ \A i \in 1..((Len(dq) + 1) - n) : r[i] = q[n + i]
  <2>1. q \in Seq(Nat) /\ Len(dq) + 1 \in Nat /\ Len(dq) + 1 = Len(q) /\ n \in 0..(Len(dq) + 1)
    BY <1>1, <1>4, <1>5
  <2>2. r = SubSeq(q, n + 1, Len(dq) + 1)
    BY <2>1
  <2>3. TailOf(r, q, n, Len(dq) + 1)
    BY <2>1, <2>2, WithoutHead, Zenon
  <2> QED BY <2>3, Zenon DEF TailOf
<1>8. k + n \in start..Len(g) /\ Len(r) = Len(g) - (k + n)
  BY <1>1, <1>2, <1>3, <1>5, <1>7
<1>9. \A i \in 1..Len(r) : r[i] = g[(k + n) + i]
  <2>1. ASSUME NEW i \in 1..Len(r) PROVE r[i] = g[(k + n) + i]
    <3>1. n + i \in 1..(Len(dq) + 1) /\ k + (n + i) = (k + n) + i /\ i \in 1..((Len(dq) + 1) - n)
      BY <1>1, <1>2, <1>5, <1>7
    <3> QED BY <1>6, <1>7, <3>1
  <2> QED BY <2>1
<1>10. \A i \in (start + 1)..(k + n) : present - g[i] > window
  <2>1. ASSUME NEW i \in (start + 1)..k PROVE present - g[i] > window
    <3>1. i \in 1..Len(f)
      BY <1>1, <1>2
    <3> QED BY <1>2, <1>3, <3>1
  <2>2. ASSUME NEW i \in (k + 1)..(k + n) PROVE present - g[i] > window
    <3>1. i - k \in 1..n /\ i - k \in 1..(Len(dq) + 1) /\ k + (i - k) = i
      BY <1>1, <1>2, <1>5
    <3>2. present - q[i - k] > window
      BY <1>5, <3>1
    <3> QED BY <1>6, <3>1, <3>2
  <2>3. \A a, b, d \in Nat : \A i \in (a + 1)..(b + d) : i \in (a + 1)..b \/ i \in (b + 1)..(b + d)
    OBVIOUS
  <2>4. start \in Nat /\ k \in Nat /\ n \in Nat
    BY <1>1, <1>2, <1>5
  <2> QED BY <2>1, <2>2, <2>3, <2>4
<1>11. \A i \in 1..Len(g) : g[i] <= present
  <2>1. ASSUME NEW i \in 1..(Len(f) + 1) PROVE g[i] <= present
    <3>1. CASE i \in 1..Len(f)
      BY <1>1, <1>3, <3>1
    <3>2. CASE i = Len(f) + 1
      BY <1>3, <3>2
    <3> QED BY <1>0, <1>1, <3>1, <3>2
  <2> QED BY <1>3, <2>1
<1>12. \A i, j \in 1..Len(g) : i <= j => g[i] <= g[j]
  <2>1. ASSUME NEW i \in 1..Len(g), NEW j \in 1..Len(g), i <= j PROVE g[i] <= g[j]
    <3>1. CASE j = Len(f) + 1
      BY <1>3, <1>11, <3>1
    <3>2. CASE j # Len(f) + 1
      <4>1. i \in 1..Len(f) /\ j \in 1..Len(f)
        <5>1. j \in 1..Len(f) /\ i \in 1..(Len(f) + 1) /\ i <= j
          BY <1>0, <1>1, <1>3, <2>1, <3>2
        <5> QED BY <1>1, <5>1
      <4> QED BY <1>1, <1>3, <2>1, <4>1
    <3> QED BY <3>1, <3>2
  <2> QED BY <2>1
<1>13. start \in 0..Len(g)
  BY <1>1, <1>3
<1> QED BY <1>3, <1>7, <1>8, <1>9, <1>10, <1>11, <1>12, <1>13 DEF Remembers

\* The deque has as many entries as there are failures in the window, or more.
LEMMA RemembersAll ==
  ASSUME NEW dq, NEW f, NEW start, NEW present \in Nat, NEW window \in Nat,
         Remembers(dq, f, start, present, window)
  PROVE  /\ IsFiniteSet({i \in (start + 1)..Len(f) : present - f[i] <= window})
         /\ Cardinality({i \in (start + 1)..Len(f) : present - f[i] <= window}) <= Len(dq)
<1> DEFINE S == {i \in (start + 1)..Len(f) : present - f[i] <= window}
<1>1. PICK k \in start..Len(f) : Len(dq) = Len(f) - k /\ \A i \in (start + 1)..k : present - f[i] > window
  BY DEF Remembers
<1>2. f \in Seq(Nat) /\ start \in 0..Len(f) /\ Len(f) \in Nat /\ k \in Nat /\ k <= Len(f)
  BY <1>1 DEF Remembers
<1>3. S \in SUBSET ((k + 1)..Len(f))
  <2>1. ASSUME NEW i \in S PROVE i \in (k + 1)..Len(f)
    <3>1. i \in (start + 1)..Len(f) /\ present - f[i] <= window /\ f[i] \in Nat
      BY <1>2
    <3>2. ~(present - f[i] > window)
      BY <3>1
    <3>3. ~(i \in (start + 1)..k)
      BY <1>1, <3>2
    <3> QED BY <1>2, <3>1, <3>3
  <2> QED BY <2>1
<1> HIDE DEF S
<1>4. IsFiniteSet((k + 1)..Len(f)) /\ Cardinality((k + 1)..Len(f)) = Len(f) - k
  <2>1. IsFiniteSet((k + 1)..Len(f))
        /\ Cardinality((k + 1)..Len(f)) = IF k + 1 > Len(f) THEN 0 ELSE Len(f) - (k + 1) + 1
    <3>1. k + 1 \in Int /\ Len(f) \in Int
      BY <1>2
    <3> QED BY <3>1, FS_Interval
  <2> QED BY <1>2, <2>1
<1>5. IsFiniteSet(S) /\ Cardinality(S) <= Cardinality((k + 1)..Len(f))
  BY <1>3, <1>4, FS_Subset
<1> QED BY <1>1, <1>4, <1>5 DEF S

\* The limiter of the pairing broker: its long deque remembers the failures of the
\* long window, and a client with too many is blocked from the last one on.
LimiterRemembers ==
  /\ clock \in Nat
  /\ post # None => "client" \in DOMAIN post /\ post.client \in Client
  /\ DOMAIN long = Client /\ DOMAIN failures = Client /\ DOMAIN blockedUntil = Client
  /\ \A c \in Client :
       /\ Remembers(long[c], failures[c], 0, clock, LongWindow)
       /\ Len(long[c]) >= MaxFailuresLong =>
            blockedUntil[c] = failures[c][Len(failures[c])] + Cooldown

\* The same from the first failure on.
LEMMA RemembersFirst ==
  ASSUME NEW dq, NEW f, NEW present \in Nat, NEW window \in Nat, Remembers(dq, f, 0, present, window),
         NEW q, q = Append(dq, present), NEW n, OldHead(q, n, present, window),
         NEW r, r = SubSeq(q, n + 1, Len(q)), NEW g, g = Append(f, present)
  PROVE  Remembers(r, g, 0, present, window)
BY RemembersFailure, Zenon

\* record_failure and its _prune.
LEMMA RecordFailureRemembers ==
  ASSUME LimiterRemembers, NEW c \in Client, RecordFailure(c), UNCHANGED clock,
         post' # None => "client" \in DOMAIN post' /\ post'.client \in Client
  PROVE  LimiterRemembers'
<1> DEFINE q == Append(long[c], clock)
           l == Prune(q, LongWindow)
<1>1. clock \in Nat /\ LongWindow \in Nat /\ Remembers(long[c], failures[c], 0, clock, LongWindow)
  BY PairingAssumption DEF LimiterRemembers
<1>2. long[c] \in Seq(Nat) /\ q \in Seq(Nat) /\ Len(q) = Len(long[c]) + 1
  <2>1. long[c] \in Seq(Nat)
    BY <1>1 DEF Remembers
  <2> QED BY <1>1, <2>1
<1> HIDE DEF q
<1>3. PICK n : l = SubSeq(q, n + 1, Len(q)) /\ OldHead(q, n, clock, LongWindow)
  <2> DEFINE old == CHOOSE n \in 0..Len(q) : /\ \A i \in 1..n : clock - q[i] > LongWindow
                                             /\ n = Len(q) \/ clock - q[n + 1] <= LongWindow
  <2>1. old \in 0..Len(q) /\ \A i \in 1..old : clock - q[i] > LongWindow
    BY <1>1, <1>2, OldEntries
  <2>2. l = SubSeq(q, old + 1, Len(q))
    BY DEF Prune
  <2> HIDE DEF old, l
  <2> QED BY <2>1, <2>2 DEF OldHead
<1> HIDE DEF l
<1>4. /\ Remembers(l, Append(failures[c], clock), 0, clock, LongWindow)
      /\ Append(failures[c], clock)[Len(Append(failures[c], clock))] = clock
  <2>1. q = Append(long[c], clock)
    BY DEF q
  <2>2. PICK f, g : f = failures[c] /\ g = Append(f, clock)
    OBVIOUS
  <2>3. Remembers(l, g, 0, clock, LongWindow)
    BY <1>1, <1>3, <2>1, <2>2, RemembersFirst, Zenon
  <2>4. f \in Seq(Nat)
    BY <1>1, <2>2 DEF Remembers
  <2> QED BY <1>1, <2>2, <2>3, <2>4
<1>5. /\ long' = [long EXCEPT ![c] = l] /\ failures' = [failures EXCEPT ![c] = Append(@, clock)]
      /\ blockedUntil' = IF TooMany(l) THEN [blockedUntil EXCEPT ![c] = clock + Cooldown] ELSE blockedUntil
  BY DEF RecordFailure, l, q
<1>6. /\ long'[c] = l /\ failures'[c] = Append(failures[c], clock)
      /\ DOMAIN long' = Client /\ DOMAIN failures' = Client /\ DOMAIN blockedUntil' = Client
      /\ \A d \in Client \ {c} : long'[d] = long[d] /\ failures'[d] = failures[d] /\ blockedUntil'[d] = blockedUntil[d]
      /\ Len(l) >= MaxFailuresLong => blockedUntil'[c] = clock + Cooldown
  BY <1>5 DEF LimiterRemembers, TooMany
<1>7. ASSUME NEW d \in Client
      PROVE  /\ Remembers(long'[d], failures'[d], 0, clock', LongWindow)
             /\ Len(long'[d]) >= MaxFailuresLong =>
                  blockedUntil'[d] = failures'[d][Len(failures'[d])] + Cooldown
  <2>1. CASE d = c
    BY <1>4, <1>6, <2>1
  <2>2. CASE d # c
    <3>1. long'[d] = long[d] /\ failures'[d] = failures[d] /\ blockedUntil'[d] = blockedUntil[d] /\ clock' = clock
      BY <1>6, <2>2
    <3> QED BY <3>1 DEF LimiterRemembers
  <2> QED BY <2>1, <2>2
<1> QED BY <1>1, <1>6, <1>7 DEF LimiterRemembers

\* A deque without failures.
LEMMA RemembersNone ==
  ASSUME NEW present \in Nat, NEW window \in Nat PROVE Remembers(<<>>, <<>>, 0, present, window)
BY DEF Remembers

\* A client with too many failures in the long window is blocked, whatever was
\* pruned, recorded twice or reset: record_failure and is_blocked of the broker.
THEOREM PairingBlocks == Spec => []BlockedAfterFailures
<1>1. Init => LimiterRemembers
  BY PairingAssumption, RemembersNone DEF Init, LimiterRemembers
<1>2. LimiterRemembers /\ [Next]_vars => LimiterRemembers'
  <2> SUFFICES ASSUME LimiterRemembers, [Next]_vars PROVE LimiterRemembers'
    OBVIOUS
  <2>0. ASSUME UNCHANGED <<clock, limiter>>, post' # None => "client" \in DOMAIN post' /\ post'.client \in Client
        PROVE  LimiterRemembers'
    <3>1. UNCHANGED <<clock, long, failures, blockedUntil>>
      BY <2>0 DEF limiter
    <3> QED BY <2>0, <3>1 DEF LimiterRemembers
  <2>1. CASE Tick
    <3>1. clock' = clock + 1 /\ UNCHANGED <<long, failures, blockedUntil, post>>
      BY <2>1 DEF Tick, limiter
    <3>2. clock' \in Nat /\ \A c \in Client : Remembers(long[c], failures[c], 0, clock', LongWindow)
      BY <3>1, RemembersLater, PairingAssumption DEF LimiterRemembers
    <3> QED BY <3>1, <3>2 DEF LimiterRemembers
  <2>2. CASE \E c \in Client, s \in 0..sessions : BeginPost(c, s)
    <3>1. PICK c \in Client, s \in 0..sessions : BeginPost(c, s)
      BY <2>2
    <3> QED BY <2>0, <3>1 DEF BeginPost
  <2>3. CASE RejectToken
    <3>1. /\ post # None /\ post.client \in Client /\ RecordFailure(post.client) /\ UNCHANGED clock
          /\ post' = [post EXCEPT !.at = "answer"]
      BY <2>3 DEF RejectToken, At, LimiterRemembers
    <3>2. "client" \in DOMAIN post' /\ post'.client \in Client
      BY <3>1 DEF LimiterRemembers
    <3> QED BY <3>1, <3>2, RecordFailureRemembers
  <2>4. CASE FailPost
    <3>1. post # None /\ post.client \in Client /\ RecordFailure(post.client) /\ UNCHANGED clock /\ post' = None
      BY <2>4 DEF FailPost, LimiterRemembers
    <3> QED BY <3>1, RecordFailureRemembers
  <2>5. CASE Succeed
    <3>1. /\ post # None /\ post.client \in Client /\ RecordSuccess(post.client) /\ UNCHANGED clock
          /\ post' = [post EXCEPT !.at = "answer"]
      BY <2>5 DEF Succeed, At, LimiterRemembers
    <3>2. PICK c \in Client : c = post.client
      BY <3>1
    <3>3. /\ long'[c] = <<>> /\ failures'[c] = <<>>
          /\ DOMAIN long' = Client /\ DOMAIN failures' = Client /\ DOMAIN blockedUntil' = Client
          /\ \A d \in Client \ {c} : long'[d] = long[d] /\ failures'[d] = failures[d] /\ blockedUntil'[d] = blockedUntil[d]
      BY <3>1, <3>2 DEF RecordSuccess, LimiterRemembers
    <3>4. Len(long'[c]) >= MaxFailuresLong => FALSE
      BY <3>3, PairingAssumption
    <3>5. Remembers(long'[c], failures'[c], 0, clock, LongWindow)
      BY <3>3, RemembersNone, PairingAssumption DEF LimiterRemembers
    <3> QED BY <3>1, <3>3, <3>4, <3>5 DEF LimiterRemembers
  <2>6. CASE Restart
    <3>1. \A c \in Client : Remembers(<<>>, <<>>, 0, clock, LongWindow)
      BY RemembersNone, PairingAssumption DEF LimiterRemembers
    <3> QED BY <2>6, <3>1, PairingAssumption DEF Restart, LimiterRemembers
  <2>7. CASE SyncPair \/ RunServer \/ EndPost \/ OpenConnection \/ (\E d \in open : NodeCommit(d)) \/ Checkpoint
    <3>1. UNCHANGED <<clock, limiter>> /\ (UNCHANGED post \/ post' = None)
      BY <2>7, Zenon DEF SyncPair, RunServer, EndPost, OpenConnection, NodeCommit, Checkpoint
    <3> QED BY <2>0, <3>1 DEF LimiterRemembers
  <2>8. CASE BeginBackup \/ EndBackup \/ BeginStage \/ EndStage \/ Replace \/ BeginCopy \/ EndCopy
    <3>1. /\ UNCHANGED <<clock, limiter>> /\ post # None
          /\ \E a, b : post' = [post EXCEPT !.at = a] \/ post' = [post EXCEPT !.at = a, !.read = b]
      BY <2>8, Zenon DEF BeginBackup, EndBackup, BeginStage, EndStage, Replace, BeginCopy, EndCopy, At
    <3>2. PICK a, b : post' = [post EXCEPT !.at = a] \/ post' = [post EXCEPT !.at = a, !.read = b]
      BY <3>1
    <3>3. post'.client = post.client
      <4>1. CASE post' = [post EXCEPT !.at = a]
        BY <3>1, <4>1 DEF LimiterRemembers
      <4>2. CASE post' = [post EXCEPT !.at = a, !.read = b]
        BY <3>1, <4>2 DEF LimiterRemembers
      <4> QED BY <3>2, <4>1, <4>2
    <3> QED BY <2>0, <3>1, <3>3 DEF LimiterRemembers
  <2>9. CASE UNCHANGED vars
    BY <2>0, <2>9 DEF vars, limiter, LimiterRemembers
  <2> QED BY <2>1, <2>2, <2>3, <2>4, <2>5, <2>6, <2>7, <2>8, <2>9 DEF Next
<1>3. LimiterRemembers => BlockedAfterFailures
  <2> SUFFICES ASSUME LimiterRemembers, NEW c \in Client, Cardinality(Recent(c, LongWindow)) >= MaxFailuresLong
               PROVE  clock < blockedUntil[c]
    BY DEF BlockedAfterFailures, IsBlocked
  <2> DEFINE f == failures[c]
             S == {i \in (0 + 1)..Len(f) : clock - f[i] <= LongWindow}
  <2>1. /\ clock \in Nat /\ LongWindow \in Nat /\ Cooldown \in Nat /\ LongWindow <= Cooldown
        /\ MaxFailuresLong \in Nat /\ MaxFailuresLong >= 1
        /\ Remembers(long[c], f, 0, clock, LongWindow)
        /\ Len(long[c]) >= MaxFailuresLong => blockedUntil[c] = f[Len(f)] + Cooldown
    BY PairingAssumption DEF LimiterRemembers
  <2>2. f \in Seq(Nat) /\ long[c] \in Seq(Nat)
    BY <2>1 DEF Remembers
  <2>3. Recent(c, LongWindow) \in SUBSET S
    BY <2>1, <2>2 DEF Recent
  <2>4. IsFiniteSet(S) /\ Cardinality(S) <= Len(long[c])
    BY <2>1, RemembersAll
  <2> HIDE DEF S
  <2>5. /\ IsFiniteSet(Recent(c, LongWindow)) /\ Cardinality(Recent(c, LongWindow)) <= Cardinality(S)
        /\ Cardinality(Recent(c, LongWindow)) \in Nat /\ Cardinality(S) \in Nat
    BY <2>3, <2>4, FS_Subset, FS_CardinalityType
  <2>6. Len(long[c]) >= MaxFailuresLong
    BY <2>1, <2>2, <2>4, <2>5
  <2>7. Recent(c, LongWindow) # {}
    BY <2>1, <2>5, FS_EmptySet
  <2>8. PICK i \in 1..Len(f) : clock - f[i] < LongWindow
    BY <2>2, <2>7 DEF Recent
  <2>9. Len(f) \in 1..Len(f) /\ i <= Len(f) /\ f[i] \in Nat /\ f[Len(f)] \in Nat
    BY <2>2, <2>8
  <2>10. f[i] <= f[Len(f)]
    BY <2>1, <2>8, <2>9 DEF Remembers
  <2> QED BY <2>1, <2>6, <2>8, <2>9, <2>10
<1> QED BY <1>1, <1>2, <1>3, PTL DEF Spec

(***************************************************************************)
(* The lock of a client.  The failures since a success are in two parts:   *)
(* those before s, which an expired lock took from the deque, and those    *)
(* after, which the deque remembers.                                       *)
(***************************************************************************)
\* The failures in the window that ends now.
RecentTries(T, present) == {i \in 1..Len(T) : present - T[i] <= LoginWindow}
\* The most that there may be.
Most == 2 * (MaxFailures - 1) + Cardinality(Calls)

\* The deque L and the lock U of a client that has failed at times T and has b
\* requests past the test of the lock.  Before s at most MaxFailures - 1 are recent.
\* A deque that is full was so at the last failure, which set the lock.  A lock was
\* set after all of the first s.  While there is a lock nothing but the requests in
\* progress adds a failure.
Accountable(L, T, U, b, present) ==
  /\ Cardinality(RecentTries(T, present)) <= Most
  /\ \E s \in 0..Len(T) :
       /\ Remembers(L, T, s, present, LoginWindow)
       /\ Cardinality({i \in 1..s : present - T[i] <= LoginWindow}) <= MaxFailures - 1
       /\ Len(L) >= MaxFailures => U = T[Len(T)] + Lockout
       /\ U # 0 => \A i \in 1..s : T[i] + Lockout <= U
       /\ U # 0 => Cardinality(RecentTries(T, present)) + b <= Most

\* The indices of a sequence that is one longer.
LEMMA UpToNext == \A n \in Nat : \A i \in 1..(n + 1) : i \in 1..n \/ i = n + 1
OBVIOUS

LEMMA MostType == Most \in Nat /\ Cardinality(Calls) \in Nat /\ MaxFailures - 1 \in Nat
<1>1. Cardinality(Calls) \in Nat
  BY FS_CardinalityType, AccountsAssumption
<1> QED BY <1>1, AccountsAssumption DEF Most

\* The recent failures are a finite set, fewer as time passes.
LEMMA RecentFinite ==
  ASSUME NEW T \in Seq(Nat), NEW present \in Nat, NEW s \in 0..Len(T)
  PROVE  LET R(t) == {i \in 1..s : t - T[i] <= LoginWindow}
         IN  /\ IsFiniteSet(R(present)) /\ Cardinality(R(present)) \in Nat
             /\ IsFiniteSet(R(present + 1)) /\ Cardinality(R(present + 1)) <= Cardinality(R(present))
             /\ Cardinality(R(present + 1)) \in Nat
<1> DEFINE R(t) == {i \in 1..s : t - T[i] <= LoginWindow}
<1>1. R(present) \in SUBSET (1..s) /\ R(present + 1) \in SUBSET R(present)
  <2>1. ASSUME NEW i \in R(present + 1) PROVE i \in R(present)
    <3>1. i \in 1..s /\ T[i] \in Nat /\ (present + 1) - T[i] <= LoginWindow
      OBVIOUS
    <3>2. present - T[i] <= LoginWindow
      BY <3>1, AccountsAssumption
    <3> QED BY <3>1, <3>2
  <2> QED BY <2>1
<1>2. IsFiniteSet(1..s)
  <2>1. s \in Int /\ 1 \in Int
    OBVIOUS
  <2> QED BY <2>1, FS_Interval
<1> HIDE DEF R
<1>3. IsFiniteSet(R(present)) /\ IsFiniteSet(R(present + 1)) /\ Cardinality(R(present + 1)) <= Cardinality(R(present))
  BY <1>1, <1>2, FS_Subset
<1>4. Cardinality(R(present)) \in Nat /\ Cardinality(R(present + 1)) \in Nat
  BY <1>3, FS_CardinalityType
<1> QED BY <1>3, <1>4 DEF R

\* A client without failures.
LEMMA AccountableNone ==
  ASSUME NEW present \in Nat, NEW b \in Nat
  PROVE  Accountable(<<>>, <<>>, 0, b, present)
<1>1. Remembers(<<>>, <<>>, 0, present, LoginWindow)
  BY RemembersNone, AccountsAssumption
<1>2. {i \in 1..0 : present - <<>>[i] <= LoginWindow} = {}
  OBVIOUS
<1>3. Cardinality({i \in 1..0 : present - <<>>[i] <= LoginWindow}) = 0
  BY <1>2, FS_EmptySet
<1>4. 0 \in 0..Len(<<>>) /\ ~(Len(<<>>) >= MaxFailures) /\ 0 <= MaxFailures - 1 /\ 0 <= Most
  BY AccountsAssumption, MostType
<1>5. Cardinality(RecentTries(<<>>, present)) = 0
  <2>1. RecentTries(<<>>, present) = {}
    BY DEF RecentTries
  <2> QED BY <2>1, FS_EmptySet
<1> QED BY <1>1, <1>3, <1>4, <1>5 DEF Accountable

\* Time passes.
LEMMA AccountableLater ==
  ASSUME NEW L, NEW T, NEW U, NEW b \in Nat, NEW present \in Nat, Accountable(L, T, U, b, present)
  PROVE  Accountable(L, T, U, b, present + 1)
<1>1. PICK s \in 0..Len(T) :
        /\ Remembers(L, T, s, present, LoginWindow)
        /\ Cardinality({i \in 1..s : present - T[i] <= LoginWindow}) <= MaxFailures - 1
        /\ Len(L) >= MaxFailures => U = T[Len(T)] + Lockout
        /\ U # 0 => \A i \in 1..s : T[i] + Lockout <= U
        /\ U # 0 => Cardinality(RecentTries(T, present)) + b <= Most
  BY DEF Accountable
<1>2. T \in Seq(Nat) /\ Len(T) \in 0..Len(T)
  BY <1>1 DEF Remembers
<1>3. Remembers(L, T, s, present + 1, LoginWindow)
  BY <1>1, RemembersLater, AccountsAssumption
<1>4. Cardinality({i \in 1..s : (present + 1) - T[i] <= LoginWindow}) <= MaxFailures - 1
  <2>1. PICK x, y : /\ x = Cardinality({i \in 1..s : present - T[i] <= LoginWindow})
                    /\ y = Cardinality({i \in 1..s : (present + 1) - T[i] <= LoginWindow})
    OBVIOUS
  <2>2. x \in Nat /\ y \in Nat /\ y <= x
    BY <1>2, <2>1, RecentFinite
  <2>3. x <= MaxFailures - 1
    BY <1>1, <2>1
  <2>4. y <= MaxFailures - 1
    BY <2>2, <2>3, MostType
  <2> QED BY <2>1, <2>4
<1>5. /\ Cardinality(RecentTries(T, present + 1)) <= Most
      /\ U # 0 => Cardinality(RecentTries(T, present + 1)) + b <= Most
  <2>1. PICK x, y : x = Cardinality(RecentTries(T, present)) /\ y = Cardinality(RecentTries(T, present + 1))
    OBVIOUS
  <2>2. x \in Nat /\ y \in Nat /\ y <= x
    BY <1>2, <2>1, RecentFinite DEF RecentTries
  <2>3. x <= Most /\ (U # 0 => x + b <= Most)
    BY <1>1, <2>1 DEF Accountable
  <2>4. y <= Most /\ (U # 0 => y + b <= Most)
    BY <2>2, <2>3, MostType
  <2> QED BY <2>1, <2>4
<1> QED BY <1>1, <1>3, <1>4, <1>5 DEF Accountable

\* Without a lock any number of requests may pass its test.
LEMMA AccountableOpen ==
  ASSUME NEW L, NEW T, NEW b, NEW b2, NEW present, Accountable(L, T, 0, b, present)
  PROVE  Accountable(L, T, 0, b2, present)
BY DEF Accountable

\* The recent failures are those before s and those the deque remembers.
LEMMA RecentParts ==
  ASSUME NEW L, NEW T, NEW s, NEW present \in Nat, Remembers(L, T, s, present, LoginWindow)
  PROVE  /\ Cardinality(RecentTries(T, present)) \in Nat /\ Len(L) \in Nat
         /\ Cardinality(RecentTries(T, present)) <= Cardinality({i \in 1..s : present - T[i] <= LoginWindow}) + Len(L)
<1> DEFINE A == {i \in 1..s : present - T[i] <= LoginWindow}
           B == {i \in (s + 1)..Len(T) : present - T[i] <= LoginWindow}
<1>1. T \in Seq(Nat) /\ L \in Seq(Nat) /\ s \in 0..Len(T) /\ Len(L) \in Nat /\ Len(T) \in Nat
  BY DEF Remembers
<1>2. IsFiniteSet(A) /\ Cardinality(A) \in Nat
  BY <1>1, RecentFinite
<1>3. IsFiniteSet(B) /\ Cardinality(B) <= Len(L)
  <2>1. LoginWindow \in Nat
    BY AccountsAssumption
  <2> QED BY <2>1, RemembersAll, Zenon
<1>4. RecentTries(T, present) \in SUBSET (A \cup B)
  <2>1. \A i \in 1..Len(T) : i \in 1..s \/ i \in (s + 1)..Len(T)
    BY <1>1
  <2> QED BY <2>1 DEF RecentTries
<1> HIDE DEF A, B
<1>5. IsFiniteSet(A \cup B) /\ Cardinality(A \cup B) = Cardinality(A) + Cardinality(B) - Cardinality(A \cap B)
  BY <1>2, <1>3, FS_Union
<1>6. IsFiniteSet(A \cap B)
  <2>1. A \cap B \in SUBSET A
    OBVIOUS
  <2> QED BY <1>2, <2>1, FS_Subset
<1>7. Cardinality(A \cap B) \in Nat /\ Cardinality(B) \in Nat
  BY <1>3, <1>6, FS_CardinalityType
<1>8. IsFiniteSet(RecentTries(T, present)) /\ Cardinality(RecentTries(T, present)) <= Cardinality(A \cup B)
  BY <1>4, <1>5, FS_Subset
<1>9. Cardinality(RecentTries(T, present)) \in Nat
  BY <1>8, FS_CardinalityType
<1>10. \A x, y, z, l, r \in Nat : r <= x + y - z /\ y <= l => r <= x + l
  OBVIOUS
<1>11. Cardinality(RecentTries(T, present)) <= Cardinality(A) + Len(L)
  BY <1>1, <1>2, <1>3, <1>5, <1>7, <1>8, <1>9, <1>10
<1> QED BY <1>1, <1>9, <1>11 DEF A

\* The expired lock goes, and the deque with it.
LEMMA AccountableCleared ==
  ASSUME NEW L, NEW T, NEW U \in Nat \ {0}, NEW b, NEW b2, NEW present \in Nat,
         Accountable(L, T, U, b, present), present >= U
  PROVE  Accountable(<<>>, T, 0, b2, present)
<1>1. PICK s \in 0..Len(T) :
        /\ Remembers(L, T, s, present, LoginWindow)
        /\ Len(L) >= MaxFailures => U = T[Len(T)] + Lockout
        /\ \A i \in 1..s : T[i] + Lockout <= U
  BY DEF Accountable
<1>2. /\ T \in Seq(Nat) /\ s \in 0..Len(T) /\ Len(T) \in Nat /\ Len(L) \in Nat
      /\ \A i \in 1..Len(T) : T[i] <= present /\ T[i] \in Nat
      /\ \A i, j \in 1..Len(T) : i <= j => T[i] <= T[j]
  BY <1>1 DEF Remembers
<1>3. Remembers(<<>>, T, Len(T), present, LoginWindow)
  BY <1>2 DEF Remembers
<1>4. \A t \in Nat : t + Lockout <= U => ~(present - t <= LoginWindow)
  BY AccountsAssumption
<1>5. Cardinality(RecentTries(T, present)) <= MaxFailures - 1
  <2>1. CASE Len(L) >= MaxFailures
    <3>1. RecentTries(T, present) = {}
      <4>1. ASSUME NEW i \in 1..Len(T) PROVE ~(present - T[i] <= LoginWindow)
        <5>1. Len(T) \in 1..Len(T) /\ i <= Len(T)
          BY <1>2
        <5>2. T[i] <= T[Len(T)] /\ T[i] \in Nat /\ T[Len(T)] \in Nat
          BY <1>2, <5>1
        <5>3. T[i] + Lockout <= U
          BY <1>1, <2>1, <5>2, AccountsAssumption
        <5> QED BY <1>4, <5>2, <5>3
      <4> QED BY <4>1 DEF RecentTries
    <3> QED BY <3>1, FS_EmptySet, AccountsAssumption
  <2>2. CASE ~(Len(L) >= MaxFailures)
    <3>1. {i \in 1..s : present - T[i] <= LoginWindow} = {}
      <4>1. \A i \in 1..s : T[i] \in Nat /\ T[i] + Lockout <= U
        BY <1>1, <1>2
      <4> QED BY <1>4, <4>1
    <3>2. Cardinality({i \in 1..s : present - T[i] <= LoginWindow}) = 0
      BY <3>1, FS_EmptySet
    <3>3. /\ Cardinality(RecentTries(T, present)) \in Nat
          /\ Cardinality(RecentTries(T, present)) <= Cardinality({i \in 1..s : present - T[i] <= LoginWindow}) + Len(L)
      BY <1>1, RecentParts
    <3> QED BY <1>2, <2>2, <3>2, <3>3, AccountsAssumption
  <2> QED BY <2>1, <2>2
<1>6. Len(T) \in 0..Len(T) /\ ~(Len(<<>>) >= MaxFailures)
  BY <1>2, AccountsAssumption
<1>7. Cardinality(RecentTries(T, present)) <= Most
  BY DEF Accountable
<1> QED BY <1>3, <1>5, <1>6, <1>7 DEF Accountable, RecentTries

LEMMA RemembersType ==
  ASSUME NEW L, NEW T, NEW s, NEW present \in Nat, NEW window, Remembers(L, T, s, present, window)
  PROVE  /\ T \in Seq(Nat) /\ s \in 0..Len(T) /\ Len(T) \in Nat /\ Len(L) \in Nat
         /\ \A i \in 1..Len(T) : T[i] <= present /\ T[i] \in Nat
BY DEF Remembers

\* A request in progress fails.
LEMMA AccountableFailure ==
  ASSUME NEW L, NEW T, NEW U \in Nat, NEW b \in 1..Cardinality(Calls), NEW present \in Nat,
         Accountable(L, T, U, b, present),
         NEW q, q = Append(L, present), NEW n, OldHead(q, n, present, LoginWindow),
         NEW r, r = SubSeq(q, n + 1, Len(q)), NEW g, g = Append(T, present),
         NEW V, V = IF Len(r) >= MaxFailures THEN present + Lockout ELSE U
  PROVE  Accountable(r, g, V, b - 1, present)
<1>1. PICK s \in 0..Len(T) :
        /\ Remembers(L, T, s, present, LoginWindow)
        /\ Cardinality({i \in 1..s : present - T[i] <= LoginWindow}) <= MaxFailures - 1
        /\ Len(L) >= MaxFailures => U = T[Len(T)] + Lockout
        /\ U # 0 => \A i \in 1..s : T[i] + Lockout <= U
        /\ U # 0 => Cardinality(RecentTries(T, present)) + b <= Most
  BY DEF Accountable
<1>2. /\ T \in Seq(Nat) /\ s \in 0..Len(T) /\ Len(T) \in Nat /\ Len(L) \in Nat
      /\ \A i \in 1..Len(T) : T[i] <= present /\ T[i] \in Nat
  BY <1>1, RemembersType
<1>3. Remembers(r, g, s, present, LoginWindow)
  <2>1. present \in Nat /\ LoginWindow \in Nat /\ Remembers(L, T, s, present, LoginWindow)
    BY <1>1, AccountsAssumption
  <2> QED BY <2>1, RemembersFailure, Zenon
<1>4. /\ g \in Seq(Nat) /\ Len(g) = Len(T) + 1 /\ g[Len(g)] = present /\ s \in 0..Len(g)
      /\ \A i \in 1..Len(T) : g[i] = T[i]
  BY <1>2
<1>5. {i \in 1..s : present - g[i] <= LoginWindow} = {i \in 1..s : present - T[i] <= LoginWindow}
  <2>1. \A i \in 1..s : g[i] = T[i]
    BY <1>2, <1>4
  <2> QED BY <2>1
<1>6. Cardinality(RecentTries(T, present)) + b <= Most
  <2>1. CASE U = 0
    <3>1. Len(L) <= MaxFailures - 1
      <4>1. CASE Len(L) >= MaxFailures
        <5>1. Len(T) \in 1..Len(T)
          <6>1. PICK k \in s..Len(T) : Len(L) = Len(T) - k
            BY <1>1 DEF Remembers
          <6> QED BY <1>2, <4>1, <6>1, AccountsAssumption
        <5>2. U = T[Len(T)] + Lockout /\ T[Len(T)] \in Nat
          BY <1>1, <1>2, <4>1, <5>1
        <5> QED BY <2>1, <5>2, AccountsAssumption
      <4> QED BY <1>2, <4>1, AccountsAssumption
    <3>2. PICK x, y : /\ x = Cardinality(RecentTries(T, present))
                      /\ y = Cardinality({i \in 1..s : present - T[i] <= LoginWindow})
      OBVIOUS
    <3>3. x \in Nat /\ x <= y + Len(L) /\ y <= MaxFailures - 1
      BY <1>1, <3>2, RecentParts
    <3>4. y \in Nat
      BY <1>2, <3>2, RecentFinite
    <3>5. x + b <= Most
      <4>1. PICK k, m, l : k = Cardinality(Calls) /\ m = MaxFailures /\ l = Len(L)
        OBVIOUS
      <4>2. /\ b \in Nat /\ b <= k /\ k \in Nat /\ m \in Nat /\ l \in Nat /\ x \in Nat /\ y \in Nat
            /\ x <= y + l /\ y <= m - 1 /\ l <= m - 1
        BY <1>2, <3>1, <3>3, <3>4, <4>1, MostType, AccountsAssumption
      <4>3. x + b <= 2 * (m - 1) + k
        BY <4>2
      <4> QED BY <4>1, <4>3 DEF Most
    <3> QED BY <3>2, <3>5
  <2>2. CASE U # 0
    BY <1>1, <2>2
  <2> QED BY <2>1, <2>2
<1>7. IsFiniteSet(RecentTries(T, present)) /\ Cardinality(RecentTries(T, present)) \in Nat
  <2>1. Len(T) \in 0..Len(T)
    BY <1>2
  <2> QED BY <1>2, <2>1, RecentFinite DEF RecentTries
<1>8. Cardinality(RecentTries(g, present)) \in Nat /\ Cardinality(RecentTries(g, present)) <= Cardinality(RecentTries(T, present)) + 1
  <2>1. RecentTries(g, present) \in SUBSET (RecentTries(T, present) \cup {Len(T) + 1})
    <3>1. \A i \in 1..(Len(T) + 1) : i \in 1..Len(T) \/ i = Len(T) + 1
      <4>1. Len(T) \in Nat
        BY <1>2
      <4> QED BY <4>1, UpToNext
    <3>2. ASSUME NEW i \in RecentTries(g, present) PROVE i \in RecentTries(T, present) \cup {Len(T) + 1}
      <4>1. i \in 1..(Len(T) + 1) /\ present - g[i] <= LoginWindow
        BY <1>4, <3>2 DEF RecentTries
      <4>2. CASE i \in 1..Len(T)
        <5>1. g[i] = T[i]
          BY <1>4, <4>2
        <5> QED BY <4>1, <4>2, <5>1 DEF RecentTries
      <4>3. CASE i = Len(T) + 1
        BY <4>3
      <4> QED BY <3>1, <4>1, <4>2, <4>3
    <3> QED BY <3>2
  <2>2. /\ IsFiniteSet(RecentTries(T, present) \cup {Len(T) + 1})
        /\ Cardinality(RecentTries(T, present) \cup {Len(T) + 1}) <= Cardinality(RecentTries(T, present)) + 1
    <3>1. PICK S : S = RecentTries(T, present)
      OBVIOUS
    <3>2. /\ IsFiniteSet(S) /\ IsFiniteSet(S \cup {Len(T) + 1}) /\ Cardinality(S) \in Nat
          /\ \/ Cardinality(S \cup {Len(T) + 1}) = Cardinality(S)
             \/ Cardinality(S \cup {Len(T) + 1}) = Cardinality(S) + 1
      BY <1>7, <3>1, FS_AddElement
    <3> QED BY <3>1, <3>2
  <2>3. /\ IsFiniteSet(RecentTries(g, present))
        /\ Cardinality(RecentTries(g, present)) <= Cardinality(RecentTries(T, present) \cup {Len(T) + 1})
    BY <2>1, <2>2, FS_Subset
  <2>4. Cardinality(RecentTries(g, present)) \in Nat /\ Cardinality(RecentTries(T, present) \cup {Len(T) + 1}) \in Nat
    BY <2>2, <2>3, FS_CardinalityType
  <2> QED BY <1>7, <2>2, <2>3, <2>4
<1>9. Cardinality(RecentTries(g, present)) + (b - 1) <= Most /\ Cardinality(RecentTries(g, present)) <= Most
  <2>1. PICK x, y : x = Cardinality(RecentTries(g, present)) /\ y = Cardinality(RecentTries(T, present))
    OBVIOUS
  <2>2. x \in Nat /\ y \in Nat /\ x <= y + 1 /\ y + b <= Most /\ b \in Nat /\ b >= 1
    BY <1>6, <1>7, <1>8, <2>1, MostType
  <2>3. x + (b - 1) <= Most /\ x <= Most
    BY <2>2, MostType
  <2> QED BY <2>1, <2>3
<1>10. Len(r) >= MaxFailures => V = g[Len(g)] + Lockout
  BY <1>4
<1>11. V # 0 => \A i \in 1..s : g[i] + Lockout <= V
  <2>1. ASSUME V # 0, NEW i \in 1..s PROVE g[i] + Lockout <= V
    <3>1. i \in 1..Len(T) /\ g[i] = T[i] /\ T[i] <= present /\ T[i] \in Nat
      BY <1>2, <1>4
    <3>2. CASE Len(r) >= MaxFailures
      <4>1. V = present + Lockout
        BY <3>2
      <4>2. \A x, y, z \in Nat : x <= y => x + z <= y + z
        OBVIOUS
      <4>3. T[i] + Lockout <= present + Lockout
        BY <3>1, <4>2, AccountsAssumption
      <4> QED BY <3>1, <4>1, <4>3
    <3>3. CASE ~(Len(r) >= MaxFailures)
      BY <1>1, <2>1, <3>1, <3>3
    <3> QED BY <3>2, <3>3
  <2> QED BY <2>1
<1>12. Cardinality({i \in 1..s : present - g[i] <= LoginWindow}) <= MaxFailures - 1
  BY <1>1, <1>5
<1> QED BY <1>3, <1>4, <1>9, <1>10, <1>11, <1>12 DEF Accountable

\* The failures in the window that ends at t, as in LockoutBound.
Tried(T, t) == {i \in DOMAIN T : t <= T[i] + LoginWindow /\ T[i] <= t}

LEMMA TriedNone == \A t : Cardinality(Tried(<<>>, t)) = 0
<1>1. \A t : Tried(<<>>, t) = {}
  BY DEF Tried
<1> QED BY <1>1, FS_EmptySet

\* The window that ends now has fewer when time passes.
LEMMA TriedLater ==
  ASSUME NEW T \in Seq(Nat), NEW present \in Nat, \A i \in 1..Len(T) : T[i] <= present, NEW most \in Nat,
         Cardinality(Tried(T, present)) <= most
  PROVE  Cardinality(Tried(T, present + 1)) <= most
<1>1. Tried(T, present) \in SUBSET (1..Len(T)) /\ Tried(T, present + 1) \in SUBSET Tried(T, present)
  <2>1. \A i \in 1..Len(T) : T[i] \in Nat /\ T[i] <= present /\ DOMAIN T = 1..Len(T)
    OBVIOUS
  <2> QED BY <2>1, AccountsAssumption DEF Tried
<1>2. IsFiniteSet(1..Len(T))
  <2>1. Len(T) \in Int /\ 1 \in Int
    OBVIOUS
  <2> QED BY <2>1, FS_Interval
<1>3. /\ IsFiniteSet(Tried(T, present)) /\ IsFiniteSet(Tried(T, present + 1))
      /\ Cardinality(Tried(T, present + 1)) <= Cardinality(Tried(T, present))
  BY <1>1, <1>2, FS_Subset
<1>4. Cardinality(Tried(T, present)) \in Nat /\ Cardinality(Tried(T, present + 1)) \in Nat
  BY <1>3, FS_CardinalityType
<1> QED BY <1>3, <1>4

\* A failure now is in no window that has ended.
LEMMA TriedNow ==
  ASSUME NEW T \in Seq(Nat), NEW present \in Nat, \A i \in 1..Len(T) : T[i] <= present, NEW g, g = Append(T, present)
  PROVE  /\ Tried(g, present) = RecentTries(g, present)
         /\ \A t \in 0..present : t # present => Tried(g, t) = Tried(T, t)
<1>1. /\ DOMAIN g = 1..(Len(T) + 1) /\ Len(g) = Len(T) + 1 /\ Len(T) \in Nat /\ DOMAIN T = 1..Len(T)
      /\ g[Len(T) + 1] = present /\ \A i \in 1..Len(T) : g[i] = T[i] /\ T[i] \in Nat
  OBVIOUS
<1>2. \A i \in 1..(Len(T) + 1) : i \in 1..Len(T) \/ i = Len(T) + 1
  BY <1>1
<1>3. \A i \in 1..(Len(T) + 1) : g[i] \in Nat /\ g[i] <= present
  BY <1>1, <1>2
<1>4. \A x \in Nat : x <= present => (present <= x + LoginWindow <=> present - x <= LoginWindow)
  BY AccountsAssumption
<1>5. Tried(g, present) = RecentTries(g, present)
  BY <1>1, <1>3, <1>4 DEF Tried, RecentTries
<1>6. ASSUME NEW t \in 0..present, t # present PROVE Tried(g, t) = Tried(T, t)
  <2>1. ~(g[Len(T) + 1] <= t)
    BY <1>1, <1>6
  <2>2. 1..Len(T) \in SUBSET (1..(Len(T) + 1))
    BY <1>1
  <2> QED BY <1>1, <1>2, <2>1, <2>2 DEF Tried
<1> QED BY <1>5, <1>6

\* The requests of a that have passed the test of the lock.
Waiting(a) == {c \in Calls : calls[c].op \in {"lookup", "verify"} /\ calls[c].client = a}

\* What the limiter of the logins keeps.
AccountsLimited ==
  /\ authClock \in Nat \ {0}
  /\ DOMAIN loginFailures = Clients /\ DOMAIN tests = Clients /\ lockedUntil \in [Clients -> Nat]
  /\ DOMAIN calls = Calls
  /\ \A c \in Calls : /\ DOMAIN calls[c] = {"op", "client", "name", "pw"}
                      /\ calls[c].op \in {"lookup", "verify"} => calls[c].client \in Clients
  /\ \A a \in Clients :
       Accountable(loginFailures[a], tests[a], lockedUntil[a], Cardinality(Waiting(a)), authClock)
  /\ LockoutBound

LEMMA WaitingFinite ==
  \A a : IsFiniteSet(Waiting(a)) /\ Cardinality(Waiting(a)) \in 0..Cardinality(Calls)
<1>1. \A a : Waiting(a) \in SUBSET Calls
  BY DEF Waiting
<1>2. \A a : IsFiniteSet(Waiting(a)) /\ Cardinality(Waiting(a)) <= Cardinality(Calls)
  BY <1>1, FS_Subset, AccountsAssumption
<1>3. \A a : Cardinality(Waiting(a)) \in Nat
  BY <1>2, FS_CardinalityType
<1> QED BY <1>2, <1>3, MostType

LEMMA AccountableTimes ==
  ASSUME NEW L, NEW T, NEW U, NEW b, NEW present \in Nat, Accountable(L, T, U, b, present)
  PROVE  T \in Seq(Nat) /\ \A i \in 1..Len(T) : T[i] <= present
<1>1. PICK s : Remembers(L, T, s, present, LoginWindow)
  BY DEF Accountable
<1> QED BY <1>1, RemembersType

\* record_failure and the end of the request.
LEMMA FailureLimited ==
  ASSUME AccountsLimited, NEW c \in Calls, calls[c].op \in {"lookup", "verify"},
         NEW a, a = calls[c].client, RecordLoginFailure(a),
         calls' = [calls EXCEPT ![c] = NoCall], UNCHANGED authClock
  PROVE  AccountsLimited'
<1> DEFINE q == Append(loginFailures[a], authClock)
           r == PopOld(q)
<1>1. /\ authClock \in Nat /\ LoginWindow \in Nat /\ a \in Clients
      /\ Accountable(loginFailures[a], tests[a], lockedUntil[a], Cardinality(Waiting(a)), authClock)
  BY AccountsAssumption DEF AccountsLimited
<1>2. q \in Seq(Nat)
  <2>1. loginFailures[a] \in Seq(Nat)
    BY <1>1 DEF Accountable, Remembers
  <2> QED BY <1>1, <2>1
<1> HIDE DEF q
<1>3. PICK n : r = SubSeq(q, n + 1, Len(q)) /\ OldHead(q, n, authClock, LoginWindow)
  <2> DEFINE old == CHOOSE m \in 0..Len(q) : /\ \A i \in 1..m : authClock - q[i] > LoginWindow
                                             /\ m = Len(q) \/ authClock - q[m + 1] <= LoginWindow
  <2>1. old \in 0..Len(q) /\ \A i \in 1..old : authClock - q[i] > LoginWindow
    BY <1>1, <1>2, OldEntries
  <2>2. r = SubSeq(q, old + 1, Len(q))
    BY DEF PopOld
  <2> HIDE DEF old, r
  <2> QED BY <2>1, <2>2 DEF OldHead
<1> HIDE DEF r
<1>4. PICK g, V, b : /\ g = Append(tests[a], authClock)
                     /\ V = IF Len(r) >= MaxFailures THEN authClock + Lockout ELSE lockedUntil[a]
                     /\ b = Cardinality(Waiting(a))
  OBVIOUS
<1>5. b \in 1..Cardinality(Calls) /\ Cardinality(Waiting(a)') = b - 1
      /\ \A d \in Clients : d # a => Waiting(d)' = Waiting(d)
  <2>1. c \in Waiting(a) /\ Waiting(a)' = Waiting(a) \ {c}
    BY DEF Waiting, NoCall, AccountsLimited
  <2>2. IsFiniteSet(Waiting(a)) /\ b \in 0..Cardinality(Calls)
    BY <1>4, WaitingFinite
  <2>3. Cardinality(Waiting(a) \ {c}) = b - 1
    BY <1>4, <2>1, <2>2, FS_RemoveElement
  <2>4. b # 0
    BY <1>4, <2>1, <2>2, FS_EmptySet
  <2>5. \A d \in Clients : d # a => Waiting(d)' = Waiting(d)
    BY DEF Waiting, NoCall, AccountsLimited
  <2> QED BY <2>1, <2>2, <2>3, <2>4, <2>5, MostType
<1>6. V \in Nat /\ lockedUntil[a] \in Nat
  <2>1. lockedUntil[a] \in Nat
    BY <1>1 DEF AccountsLimited
  <2> QED BY <1>1, <1>4, <2>1, AccountsAssumption
<1>7. Accountable(r, g, V, b - 1, authClock) /\ Cardinality(RecentTries(g, authClock)) <= Most
  <2>1. q = Append(loginFailures[a], authClock)
    BY DEF q
  <2>2. /\ authClock \in Nat /\ lockedUntil[a] \in Nat /\ b \in 1..Cardinality(Calls)
        /\ Accountable(loginFailures[a], tests[a], lockedUntil[a], b, authClock)
        /\ OldHead(q, n, authClock, LoginWindow) /\ r = SubSeq(q, n + 1, Len(q))
        /\ g = Append(tests[a], authClock)
        /\ V = IF Len(r) >= MaxFailures THEN authClock + Lockout ELSE lockedUntil[a]
    BY <1>1, <1>3, <1>4, <1>5, <1>6
  <2>3. Accountable(r, g, V, b - 1, authClock)
    BY <2>1, <2>2, AccountableFailure, Zenon
  <2> QED BY <2>3 DEF Accountable
<1>8. /\ loginFailures' = [loginFailures EXCEPT ![a] = r]
      /\ tests' = [tests EXCEPT ![a] = Append(@, authClock)]
      /\ lockedUntil' = IF Len(r) >= MaxFailures THEN [lockedUntil EXCEPT ![a] = authClock + Lockout] ELSE lockedUntil
  BY DEF RecordLoginFailure, r, q
<1>9. /\ DOMAIN loginFailures' = Clients /\ DOMAIN tests' = Clients
      /\ loginFailures'[a] = r /\ tests'[a] = g
      /\ \A d \in Clients : d # a => loginFailures'[d] = loginFailures[d] /\ tests'[d] = tests[d]
  BY <1>1, <1>4, <1>8 DEF AccountsLimited
<1>10. /\ lockedUntil' \in [Clients -> Nat] /\ lockedUntil'[a] = V
       /\ \A d \in Clients : d # a => lockedUntil'[d] = lockedUntil[d]
  <2>1. CASE Len(r) >= MaxFailures
    <3>1. lockedUntil' = [lockedUntil EXCEPT ![a] = V]
      BY <1>4, <1>8, <2>1
    <3> QED BY <1>1, <1>6, <3>1 DEF AccountsLimited
  <2>2. CASE ~(Len(r) >= MaxFailures)
    BY <1>4, <1>8, <2>2 DEF AccountsLimited
  <2> QED BY <2>1, <2>2
<1>11. /\ DOMAIN calls' = Calls
       /\ \A k \in Calls : /\ DOMAIN calls'[k] = {"op", "client", "name", "pw"}
                           /\ calls'[k].op \in {"lookup", "verify"} => calls'[k].client \in Clients
  BY DEF AccountsLimited, NoCall
<1>12. ASSUME NEW d \in Clients
       PROVE  Accountable(loginFailures'[d], tests'[d], lockedUntil'[d], Cardinality(Waiting(d)'), authClock')
  <2>1. CASE d = a
    BY <1>5, <1>7, <1>9, <1>10, <2>1
  <2>2. CASE d # a
    BY <1>5, <1>9, <1>10, <2>2 DEF AccountsLimited
  <2> QED BY <2>1, <2>2
<1>13. ASSUME NEW d \in Clients, NEW t \in 1..authClock PROVE Cardinality(Tried(tests'[d], t)) <= Most
  <2>1. Cardinality(Tried(tests[d], t)) <= Most
    BY DEF AccountsLimited, LockoutBound, InWindow, Tried, Most
  <2>2. CASE d # a
    BY <1>9, <2>1, <2>2
  <2>3. CASE d = a
    <3>1. tests[a] \in Seq(Nat) /\ \A i \in 1..Len(tests[a]) : tests[a][i] <= authClock
      BY <1>1, AccountableTimes
    <3>2. /\ Tried(g, authClock) = RecentTries(g, authClock)
          /\ \A u \in 0..authClock : u # authClock => Tried(g, u) = Tried(tests[a], u)
      BY <1>1, <1>4, <3>1, TriedNow
    <3>3. t \in 0..authClock
      BY <1>1
    <3> QED BY <1>7, <1>9, <2>1, <2>3, <3>2, <3>3
  <2> QED BY <2>2, <2>3
<1>14. LockoutBound'
  BY <1>13 DEF LockoutBound, InWindow, Tried, Most
<1> QED BY <1>9, <1>10, <1>11, <1>12, <1>14 DEF AccountsLimited

\* is_locked at the arrival of a login.
LEMMA CheckLimited ==
  ASSUME AccountsLimited, NEW c \in Calls, NEW a \in Clients, NEW n, NEW p, LoginCheck(c, a, n, p)
  PROVE  AccountsLimited'
<1>1. /\ UNCHANGED <<authClock, tests>> /\ calls[c] = NoCall
      /\ calls' = [calls EXCEPT ![c] = [op |-> "lookup", client |-> a, name |-> n, pw |-> p]]
  BY DEF LoginCheck
<1>2. /\ DOMAIN calls' = Calls
      /\ \A k \in Calls : /\ DOMAIN calls'[k] = {"op", "client", "name", "pw"}
                          /\ calls'[k].op \in {"lookup", "verify"} => calls'[k].client \in Clients
  BY <1>1 DEF AccountsLimited
<1>3. \A d \in Clients : d # a => Waiting(d)' = Waiting(d)
  BY <1>1 DEF AccountsLimited, Waiting, NoCall
<1>4. /\ DOMAIN loginFailures' = Clients /\ lockedUntil' \in [Clients -> Nat]
      /\ \A d \in Clients : d # a => loginFailures'[d] = loginFailures[d] /\ lockedUntil'[d] = lockedUntil[d]
  BY DEF LoginCheck, NotLocked, AccountsLimited
<1>5. Accountable(loginFailures'[a], tests[a], lockedUntil'[a], Cardinality(Waiting(a)'), authClock)
  <2>1. PICK b, b2 : b = Cardinality(Waiting(a)) /\ b2 = Cardinality(Waiting(a)')
    OBVIOUS
  <2>2. /\ authClock \in Nat /\ lockedUntil[a] \in Nat
        /\ Accountable(loginFailures[a], tests[a], lockedUntil[a], b, authClock)
    BY <2>1 DEF AccountsLimited
  <2>3. CASE lockedUntil[a] = 0
    <3>1. loginFailures' = loginFailures /\ lockedUntil' = lockedUntil
      BY <2>3 DEF LoginCheck, NotLocked
    <3>2. Accountable(loginFailures[a], tests[a], 0, b, authClock)
      BY <2>2, <2>3
    <3>3. Accountable(loginFailures[a], tests[a], 0, b2, authClock)
      BY <3>2, AccountableOpen, Zenon
    <3> QED BY <2>1, <2>3, <3>1, <3>3
  <2>4. CASE lockedUntil[a] # 0
    <3>1. loginFailures'[a] = <<>> /\ lockedUntil'[a] = 0 /\ authClock >= lockedUntil[a]
      BY <2>4 DEF LoginCheck, NotLocked, AccountsLimited
    <3>2. lockedUntil[a] \in Nat \ {0}
      BY <2>2, <2>4
    <3>3. Accountable(<<>>, tests[a], 0, b2, authClock)
      BY <2>2, <3>1, <3>2, AccountableCleared, Zenon
    <3> QED BY <2>1, <3>1, <3>3
  <2> QED BY <2>3, <2>4
<1>6. ASSUME NEW d \in Clients
      PROVE  Accountable(loginFailures'[d], tests'[d], lockedUntil'[d], Cardinality(Waiting(d)'), authClock')
  <2>1. CASE d = a
    BY <1>1, <1>5, <2>1
  <2>2. CASE d # a
    BY <1>1, <1>3, <1>4, <2>2 DEF AccountsLimited
  <2> QED BY <2>1, <2>2
<1>7. LockoutBound'
  BY <1>1 DEF AccountsLimited, LockoutBound
<1> QED BY <1>1, <1>2, <1>4, <1>6, <1>7 DEF AccountsLimited

\* record_success and the end of the request.
LEMMA SuccessLimited ==
  ASSUME AccountsLimited, NEW c \in Calls, calls[c].op \in {"lookup", "verify"},
         NEW a, a = calls[c].client, RecordLoginSuccess(a),
         calls' = [calls EXCEPT ![c] = NoCall], UNCHANGED authClock
  PROVE  AccountsLimited'
<1>1. a \in Clients
  BY DEF AccountsLimited
<1>2. /\ DOMAIN calls' = Calls
      /\ \A k \in Calls : /\ DOMAIN calls'[k] = {"op", "client", "name", "pw"}
                          /\ calls'[k].op \in {"lookup", "verify"} => calls'[k].client \in Clients
  BY DEF AccountsLimited, NoCall
<1>3. \A d \in Clients : d # a => Waiting(d)' = Waiting(d)
  BY DEF AccountsLimited, Waiting, NoCall
<1>4. /\ DOMAIN loginFailures' = Clients /\ DOMAIN tests' = Clients /\ lockedUntil' \in [Clients -> Nat]
      /\ \A d \in Clients : d # a => /\ loginFailures'[d] = loginFailures[d] /\ tests'[d] = tests[d]
                                     /\ lockedUntil'[d] = lockedUntil[d]
      /\ loginFailures'[a] = <<>> /\ tests'[a] = <<>> /\ lockedUntil'[a] = 0
  BY <1>1 DEF RecordLoginSuccess, AccountsLimited
<1>5. Accountable(<<>>, <<>>, 0, Cardinality(Waiting(a)'), authClock)
  <2>1. PICK b : b = 0 /\ authClock \in Nat /\ Accountable(<<>>, <<>>, 0, b, authClock)
    BY AccountableNone DEF AccountsLimited
  <2> QED BY <2>1, AccountableOpen, Zenon
<1>6. ASSUME NEW d \in Clients
      PROVE  Accountable(loginFailures'[d], tests'[d], lockedUntil'[d], Cardinality(Waiting(d)'), authClock')
  <2>1. CASE d = a
    BY <1>4, <1>5, <2>1
  <2>2. CASE d # a
    BY <1>3, <1>4, <2>2 DEF AccountsLimited
  <2> QED BY <2>1, <2>2
<1>7. ASSUME NEW d \in Clients, NEW t \in 1..authClock PROVE Cardinality(Tried(tests'[d], t)) <= Most
  <2>1. CASE d = a
    BY <1>4, <2>1, TriedNone, MostType
  <2>2. CASE d # a
    BY <1>4, <2>2 DEF AccountsLimited, LockoutBound, InWindow, Tried, Most
  <2> QED BY <2>1, <2>2
<1>8. LockoutBound'
  BY <1>7 DEF LockoutBound, InWindow, Tried, Most
<1> QED BY <1>2, <1>4, <1>6, <1>8 DEF AccountsLimited

\* Time passes.
LEMMA TickLimited ==
  ASSUME AccountsLimited, AccountsTick
  PROVE  AccountsLimited'
<1>1. authClock' = authClock + 1 /\ UNCHANGED <<loginFailures, lockedUntil, tests, calls>>
  BY DEF AccountsTick, limiterVars
<1>2. authClock \in Nat /\ authClock + 1 \in Nat \ {0}
  BY DEF AccountsLimited
<1>3. \A a \in Clients : Cardinality(Waiting(a)) \in Nat /\ Waiting(a)' = Waiting(a)
  <2>1. \A a \in Clients : Cardinality(Waiting(a)) \in Nat
    BY WaitingFinite, MostType
  <2>2. \A a \in Clients : Waiting(a)' = Waiting(a)
    BY <1>1 DEF Waiting
  <2> QED BY <2>1, <2>2
<1>4. ASSUME NEW a \in Clients
      PROVE  /\ Accountable(loginFailures[a], tests[a], lockedUntil[a], Cardinality(Waiting(a)), authClock + 1)
             /\ \A t \in 1..(authClock + 1) : Cardinality(Tried(tests[a], t)) <= Most
  <2>1. Accountable(loginFailures[a], tests[a], lockedUntil[a], Cardinality(Waiting(a)), authClock)
    BY DEF AccountsLimited
  <2>2. Accountable(loginFailures[a], tests[a], lockedUntil[a], Cardinality(Waiting(a)), authClock + 1)
    BY <1>2, <1>3, <2>1, AccountableLater
  <2>3. tests[a] \in Seq(Nat) /\ \A i \in 1..Len(tests[a]) : tests[a][i] <= authClock
    BY <1>2, <2>1, AccountableTimes
  <2>4. \A t \in 1..authClock : Cardinality(Tried(tests[a], t)) <= Most
    BY DEF AccountsLimited, LockoutBound, InWindow, Tried, Most
  <2>5. authClock \in 1..authClock
    BY DEF AccountsLimited
  <2>6. Cardinality(Tried(tests[a], authClock + 1)) <= Most
    BY <1>2, <2>3, <2>4, <2>5, TriedLater, MostType
  <2>7. \A t \in 1..(authClock + 1) : t \in 1..authClock \/ t = authClock + 1
    BY <1>2
  <2> QED BY <2>2, <2>4, <2>6, <2>7
<1>5. LockoutBound'
  BY <1>1, <1>4 DEF LockoutBound, InWindow, Tried, Most
<1> QED BY <1>1, <1>2, <1>3, <1>4, <1>5 DEF AccountsLimited

\* However many requests overlap at the awaits of login, and whenever a lock expires, a
\* client fails at most Most times on POST /v3/auth/login in any window: is_locked,
\* record_failure and record_success of _LoginRateLimiter, which POST /login does not call.
THEOREM AccountsLockout == AccountsSpec => []LockoutBound
<1>1. AccountsInit => AccountsLimited
  <2> SUFFICES ASSUME AccountsInit PROVE AccountsLimited
    OBVIOUS
  <2>1. /\ authClock = 1 /\ DOMAIN loginFailures = Clients /\ DOMAIN tests = Clients
        /\ lockedUntil \in [Clients -> Nat] /\ DOMAIN calls = Calls
        /\ \A c \in Calls : /\ DOMAIN calls[c] = {"op", "client", "name", "pw"}
                            /\ calls[c].op = "idle"
        /\ \A a \in Clients : loginFailures[a] = <<>> /\ tests[a] = <<>> /\ lockedUntil[a] = 0
    BY DEF AccountsInit, NoCall
  <2>2. \A a \in Clients : Cardinality(Waiting(a)) \in Nat
    BY WaitingFinite, MostType
  <2>3. \A a \in Clients : Accountable(<<>>, <<>>, 0, Cardinality(Waiting(a)), 1)
    BY <2>2, AccountableNone
  <2>4. \A a \in Clients, t \in 1..authClock : Cardinality(Tried(tests[a], t)) <= Most
    BY <2>1, TriedNone, MostType
  <2>5. LockoutBound
    BY <2>4 DEF LockoutBound, InWindow, Tried, Most
  <2> QED BY <2>1, <2>3, <2>5 DEF AccountsLimited
<1>2. AccountsLimited /\ [AccountsNext]_accountVars => AccountsLimited'
  <2> SUFFICES ASSUME AccountsLimited, [AccountsNext]_accountVars PROVE AccountsLimited'
    OBVIOUS
  <2>0. UNCHANGED <<tests, authClock>> => LockoutBound'
    BY DEF AccountsLimited, LockoutBound
  <2>1. ASSUME UNCHANGED <<loginFailures, lockedUntil, tests, authClock>>, NEW c \in Calls, NEW rec,
               calls' = [calls EXCEPT ![c] = rec], DOMAIN rec = {"op", "client", "name", "pw"},
               \/ rec.op \in {"idle", "register"} /\ calls[c].op \in {"idle", "register"}
               \/ rec.op = "verify" /\ calls[c].op = "lookup" /\ rec.client = calls[c].client
        PROVE  AccountsLimited'
    <3>1. \A a : Waiting(a)' = Waiting(a)
      BY <2>1 DEF Waiting, AccountsLimited
    <3>2. /\ DOMAIN calls' = Calls
          /\ \A k \in Calls : /\ DOMAIN calls'[k] = {"op", "client", "name", "pw"}
                              /\ calls'[k].op \in {"lookup", "verify"} => calls'[k].client \in Clients
      BY <2>1 DEF AccountsLimited
    <3>3. LockoutBound'
      BY <2>0, <2>1
    <3> QED BY <2>1, <3>1, <3>2, <3>3 DEF AccountsLimited
  <2>2. ASSUME UNCHANGED <<loginFailures, lockedUntil, tests, authClock, calls>> PROVE AccountsLimited'
    <3>1. \A a : Waiting(a)' = Waiting(a)
      BY <2>2 DEF Waiting
    <3>2. LockoutBound'
      BY <2>0, <2>2
    <3> QED BY <2>2, <3>1, <3>2 DEF AccountsLimited
  <2>3. ASSUME NEW c \in Calls, NEW n \in Names, NEW p \in Passwords, RegisterCheck(c, n, p) PROVE AccountsLimited'
    <3>1. /\ UNCHANGED <<loginFailures, lockedUntil, tests, authClock>> /\ calls[c].op = "idle"
          /\ calls' = [calls EXCEPT ![c] = [op |-> "register", client |-> NoUser, name |-> n, pw |-> p]]
      BY <2>3 DEF RegisterCheck, limiterVars, NoCall
    <3> QED BY <2>1, <3>1
  <2>4. ASSUME NEW c \in Calls, RegisterInsert(c) PROVE AccountsLimited'
    <3>1. /\ UNCHANGED <<loginFailures, lockedUntil, tests, authClock>> /\ calls[c].op = "register"
          /\ calls' = [calls EXCEPT ![c] = NoCall]
          /\ DOMAIN NoCall = {"op", "client", "name", "pw"} /\ NoCall.op = "idle"
      BY <2>4 DEF RegisterInsert, limiterVars, NoCall
    <3> QED BY <2>1, <3>1
  <2>5. ASSUME NEW c \in Calls, LoginLookup(c) PROVE AccountsLimited'
    <3>1. CASE users[calls[c].name] = NoUser
      BY <2>5, <3>1, FailureLimited DEF LoginLookup
    <3>2. CASE users[calls[c].name] # NoUser
      <4>1. /\ UNCHANGED <<loginFailures, lockedUntil, tests, authClock>> /\ calls[c].op = "lookup"
            /\ calls' = [calls EXCEPT ![c].op = "verify"]
        BY <2>5, <3>2 DEF LoginLookup, limiterVars
      <4>2. PICK rec : rec = [calls[c] EXCEPT !.op = "verify"]
        OBVIOUS
      <4>3. DOMAIN rec = {"op", "client", "name", "pw"} /\ rec.op = "verify" /\ rec.client = calls[c].client
        BY <4>2 DEF AccountsLimited
      <4> QED BY <2>1, <4>1, <4>2, <4>3
    <3> QED BY <3>1, <3>2
  <2>6. ASSUME NEW c \in Calls, LoginVerify(c) PROVE AccountsLimited'
    <3>1. calls[c].op \in {"lookup", "verify"} /\ calls' = [calls EXCEPT ![c] = NoCall] /\ UNCHANGED authClock
      BY <2>6 DEF LoginVerify
    <3>2. RecordLoginSuccess(calls[c].client) \/ RecordLoginFailure(calls[c].client)
      BY <2>6 DEF LoginVerify
    <3> QED BY <3>1, <3>2, FailureLimited, SuccessLimited
  <2>7. CASE UNCHANGED <<loginFailures, lockedUntil, tests, authClock, calls>>
    BY <2>2, <2>7
  <2>8. \/ \E c \in Calls, n \in Names, p \in Passwords : RegisterCheck(c, n, p)
        \/ \E c \in Calls : RegisterInsert(c) \/ LoginLookup(c) \/ LoginVerify(c)
        \/ \E c \in Calls, a \in Clients, n \in Names, p \in Passwords : LoginCheck(c, a, n, p)
        \/ AccountsTick
        \/ UNCHANGED <<loginFailures, lockedUntil, tests, authClock, calls>>
    BY DEF AccountsNext, accountVars, limiterVars, LegacyLogin, LegacyLoginFails, Logout, CreateProfile, UnlockProfile,
       SwitchProfile, ActiveProfile, LegacyActiveProfile, LegacyCreateProfile, LegacyUnlockProfile,
       LegacySwitchProfile
  <2> QED BY <2>3, <2>4, <2>5, <2>6, <2>7, <2>8, CheckLimited, TickLimited
<1> QED BY <1>1, <1>2, PTL DEF AccountsSpec, AccountsLimited

\* The limiter's deques stay sequences of times when old ones are popped.
LEMMA PrunedTimes ==
  ASSUME clock \in Nat, NEW q \in Seq(Nat), NEW window \in Nat
  PROVE  Prune(q, window) \in Seq(Nat)
<1> DEFINE old == CHOOSE n \in 0..Len(q) : /\ \A i \in 1..n : clock - q[i] > window
                                           /\ n = Len(q) \/ clock - q[n + 1] <= window
<1>1. old \in 0..Len(q)
  BY OldEntries
<1> HIDE DEF old
<1>2. SubSeq(q, old + 1, Len(q)) \in Seq(Nat)
  BY <1>1
<1> QED BY <1>2 DEF Prune, old

LimiterTyped ==
  /\ long \in [Client -> Seq(Nat)] /\ short \in [Client -> Seq(Nat)]
  /\ blockedUntil \in [Client -> Nat] /\ failures \in [Client -> Seq(Nat)]

LEMMA FailureTyped ==
  ASSUME LimiterTyped, clock \in Nat, NEW c \in Client, RecordFailure(c)
  PROVE  LimiterTyped'
<1> USE PairingAssumption DEF LimiterTyped
<1>1. /\ Append(long[c], clock) \in Seq(Nat) /\ Append(short[c], clock) \in Seq(Nat)
      /\ Append(failures[c], clock) \in Seq(Nat) /\ clock + Cooldown \in Nat
  OBVIOUS
<1>2. Prune(Append(long[c], clock), LongWindow) \in Seq(Nat)
  BY <1>1, PrunedTimes
<1>3. Prune(Append(short[c], clock), ShortWindow) \in Seq(Nat)
  BY <1>1, PrunedTimes
<1> QED BY <1>1, <1>2, <1>3 DEF RecordFailure

LEMMA SuccessTyped ==
  ASSUME LimiterTyped, NEW c \in Client, RecordSuccess(c)
  PROVE  LimiterTyped'
<1>1. <<>> \in Seq(Nat)
  OBVIOUS
<1> QED BY <1>1 DEF LimiterTyped, RecordSuccess

\* While the backup is copied, what was read of the database is known.
BackupRead == At("backup") => post.read \in Contents

\* Every variable of the pairing broker keeps its type.
THEOREM PairingTyped == Spec => []TypeOK
<1> USE PairingAssumption
<1>1. Init => TypeOK
  <2> SUFFICES ASSUME Init PROVE TypeOK
    OBVIOUS
  <2>1. [c \in Client |-> <<>>] \in [Client -> Seq(Nat)]
    OBVIOUS
  <2>2. {1} \in SUBSET Nat /\ 1 \in Int
    OBVIOUS
  <2>3. file \in Files
    <3>1. [of |-> 1, has |-> {1}] \in Contents /\ Absent \in Contents
      BY <2>2, NewContents, SpecialContents
    <3> QED BY <3>1 DEF Init, Files
  <2>4. LimiterTyped
    BY <2>1 DEF Init, LimiterTyped
  <2>5. clock \in Nat /\ session \in 0..sessions /\ sessions \in Nat /\ starting \in Nat /\ versions \in Nat
    BY DEF Init
  <2>6. post \in Post \cup {None} /\ late \subseteq Nat /\ unsaved \subseteq Nat /\ open \subseteq Nat \ {0}
    BY DEF Init
  <2>7. running \in BOOLEAN /\ posix \in BOOLEAN
    BY Zenon DEF Init
  <2> QED BY <2>3, <2>4, <2>5, <2>6, <2>7 DEF TypeOK, LimiterTyped
<1>2. TypeOK /\ BackupRead /\ [Next]_vars => TypeOK'
  <2> SUFFICES ASSUME TypeOK, BackupRead, [Next]_vars PROVE TypeOK'
    OBVIOUS
  <2>0. LimiterTyped
    BY DEF TypeOK, LimiterTyped
  <2> USE DEF TypeOK, limiter, broker, storage
  <2>c. Absent \in Contents /\ Torn \in Contents /\ Mixed \in Contents
    BY SpecialContents
  <2>g. /\ file.db \in Contents /\ file.staged \in Contents /\ file.wal \in Contents
        /\ file.db.has \in SUBSET Nat /\ file.wal.has \in SUBSET Nat /\ file.db.of \in Int /\ file.wal.of \in Int
    BY FileFields
  <2>p. ASSUME At("token") \/ At("backup") \/ At("stage") \/ At("staging") \/ At("replace") \/ At("copying")
               \/ At("installed") \/ At("answer") \/ post # None
        PROVE  post \in Post /\ post.client \in Client
    BY <2>p DEF At, Post
  <2>v. versions + 1 \in Nat /\ [of |-> versions + 1, has |-> {versions + 1}] \in Contents
    <3>1. versions + 1 \in Int /\ {versions + 1} \in SUBSET Nat
      OBVIOUS
    <3> QED BY <3>1, NewContents
  <2>f. \A x \in Contents : /\ [file EXCEPT !.db = x] \in Files /\ [file EXCEPT !.bak = x] \in Files
                            /\ [file EXCEPT !.staged = x] \in Files
    BY DEF Files
  <2>h. \A x, y \in Contents : /\ [file EXCEPT !.db = x, !.staged = y] \in Files
                               /\ [file EXCEPT !.db = x, !.wal = y] \in Files
                               /\ [file EXCEPT !.wal = y, !.db = x] \in Files
    BY DEF Files
  <2>a. \A p \in Post, a \in {"token", "backup", "stage", "staging", "replace", "copying", "installed", "answer"} :
           [p EXCEPT !.at = a] \in Post
    BY DEF Post
  <2>1. CASE Tick
    BY <2>1 DEF Tick
  <2>2. CASE SyncPair
    BY <2>2 DEF SyncPair
  <2>3. CASE RunServer
    <3>1. running' \in BOOLEAN
      BY <2>3, Zenon DEF RunServer
    <3> QED BY <2>3, <3>1 DEF RunServer
  <2>4. ASSUME NEW c \in Client, NEW s \in 0..sessions, BeginPost(c, s) PROVE TypeOK'
    <3>1. [client |-> c, token |-> s, at |-> "token", read |-> None] \in Post
      BY DEF Post
    <3> QED BY <2>4, <3>1 DEF BeginPost
  <2>5. CASE RejectToken
    <3>1. post' \in Post
      BY <2>5, <2>p, <2>a DEF RejectToken
    <3>2. LimiterTyped'
      BY <2>5, <2>p, <2>0, FailureTyped DEF RejectToken
    <3> QED BY <2>5, <3>1, <3>2 DEF RejectToken, LimiterTyped
  <2>6. CASE FailPost
    <3>1. LimiterTyped'
      BY <2>6, <2>p, <2>0, FailureTyped DEF FailPost
    <3> QED BY <2>6, <3>1 DEF FailPost, LimiterTyped
  <2>7. CASE BeginBackup
    <3>1. post \in Post
      BY <2>7, <2>p DEF BeginBackup
    <3>2. CASE NeedsBackup(file)
      <4>1. [post EXCEPT !.at = "backup", !.read = file.db] \in Post
        BY <2>g, <3>1 DEF Post
      <4>2. file' \in Files
        BY <2>7, <3>2, <2>c, <2>f DEF BeginBackup
      <4> QED BY <2>7, <3>2, <4>1, <4>2 DEF BeginBackup
    <3>3. CASE ~NeedsBackup(file)
      BY <2>7, <3>1, <3>3, <2>a DEF BeginBackup
    <3> QED BY <3>2, <3>3
  <2>8. CASE EndBackup
    <3>1. post' \in Post
      BY <2>8, <2>p, <2>a DEF EndBackup
    <3>2. PICK copy \in {post.read, file.db, Torn} : file' = [file EXCEPT !.bak = copy]
      BY <2>8 DEF EndBackup
    <3>3. copy \in Contents
      BY <2>8, <2>c, <2>g, <3>2 DEF EndBackup, BackupRead
    <3>4. file' \in Files
      BY <2>f, <3>2, <3>3
    <3> QED BY <2>8, <3>1, <3>4 DEF EndBackup
  <2>9. CASE BeginStage
    <3>1. post' \in Post
      BY <2>9, <2>p, <2>a DEF BeginStage
    <3>2. file' \in Files
      BY <2>9, <2>c, <2>f DEF BeginStage, StagedFile
    <3> QED BY <2>9, <3>1, <3>2 DEF BeginStage
  <2>10. CASE EndStage
    <3>1. post' \in Post
      BY <2>10, <2>p, <2>a DEF EndStage
    <3>2. file' \in Files
      BY <2>10, <2>f, <2>v DEF EndStage, StagedFile
    <3> QED BY <2>10, <3>1, <3>2 DEF EndStage
  <2>11. CASE Replace
    <3>1. post' \in Post
      BY <2>11, <2>p, <2>a DEF Replace
    <3>2. file' \in Files
      BY <2>11, <2>c, <2>g, <2>h DEF Replace
    <3>3. unsaved' \subseteq Nat
      BY <2>11, <2>g DEF Replace, Overwrite
    <3> QED BY <2>11, <3>1, <3>2, <3>3 DEF Replace
  <2>12. CASE BeginCopy
    <3>1. post' \in Post
      BY <2>12, <2>p, <2>a DEF BeginCopy
    <3>2. file' \in Files
      BY <2>12, <2>c, <2>f DEF BeginCopy
    <3>3. unsaved' \subseteq Nat
      BY <2>12, <2>g DEF BeginCopy, Overwrite
    <3> QED BY <2>12, <3>1, <3>2, <3>3 DEF BeginCopy
  <2>13. CASE EndCopy
    <3>1. post' \in Post
      BY <2>13, <2>p, <2>a DEF EndCopy
    <3>2. file' \in Files
      <4>1. PICK left \in {file.staged, Absent} : file' = [file EXCEPT !.db = file.staged, !.staged = left]
        BY <2>13 DEF EndCopy
      <4>2. left \in Contents
        BY <2>c, <2>g, <4>1
      <4> QED BY <2>g, <2>h, <4>1, <4>2
    <3> QED BY <2>13, <3>1, <3>2 DEF EndCopy
  <2>14. CASE Succeed
    <3>1. post' \in Post
      BY <2>14, <2>p, <2>a DEF Succeed
    <3>2. LimiterTyped'
      BY <2>14, <2>p, <2>0, SuccessTyped DEF Succeed
    <3> QED BY <2>14, <3>1, <3>2 DEF Succeed, LimiterTyped
  <2>15. CASE EndPost
    BY <2>15 DEF EndPost
  <2>16. ASSUME NEW d \in open, NodeCommit(d) PROVE TypeOK'
    <3>1. PICK before, log, db :
            /\ before \in SUBSET Nat /\ log = [of |-> d, has |-> before \cup {versions + 1}]
            /\ db \in Contents /\ file' = [file EXCEPT !.wal = log, !.db = db]
      <4> DEFINE before == IF file.wal.of = d THEN file.wal.has ELSE {}
                 log == [of |-> d, has |-> before \cup {versions + 1}]
                 db == IF file.db.of \in open THEN Seen(file.db, log) ELSE file.db
      <4>1. before \in SUBSET Nat
        BY <2>g
      <4>2. db \in Contents
        BY <2>g, SeenContents
      <4>3. file' = [file EXCEPT !.wal = log, !.db = db]
        BY <2>16 DEF NodeCommit
      <4> HIDE DEF before, db
      <4> QED BY <4>1, <4>2, <4>3
    <3>2. log \in Contents
      <4>1. d \in Int /\ before \cup {versions + 1} \in SUBSET Nat
        BY <2>v, <3>1
      <4> QED BY <3>1, <4>1, NewContents
    <3>3. file' \in Files
      BY <2>h, <3>1, <3>2
    <3>4. open' \subseteq Nat \ {0}
      BY <2>16 DEF NodeCommit
    <3> QED BY <2>16, <2>v, <3>3, <3>4 DEF NodeCommit
  <2>19. CASE OpenConnection
    <3>1. PICK seen : /\ seen = Seen(file.db, file.wal) /\ file' = [file EXCEPT !.db = seen]
                      /\ open' = IF seen = Mixed THEN open ELSE open \cup {seen.of}
                      /\ file.db.of > 0
      BY <2>19 DEF OpenConnection
    <3>2. seen \in Contents /\ (seen = file.db \/ seen = Mixed)
      BY <2>g, <3>1, SeenContents
    <3>3. file' \in Files
      BY <2>f, <3>1, <3>2
    <3>4. open' \subseteq Nat \ {0}
      BY <2>g, <3>1, <3>2
    <3> QED BY <2>19, <3>3, <3>4 DEF OpenConnection
  <2>20. CASE Checkpoint
    <3>1. PICK db, log : /\ db = IF file.db.of = file.wal.of
                                  THEN [of |-> file.db.of, has |-> file.db.has \cup file.wal.has] ELSE file.db
                         /\ log \in {file.wal, Absent} /\ file' = [file EXCEPT !.db = db, !.wal = log]
                         /\ late' = IF post = None \/ db = file.db THEN late
                                    ELSE late \cup IF post.at = "backup" THEN db.has ELSE file.wal.has
      BY <2>20 DEF Checkpoint
    <3>2. db \in Contents /\ db.has \in SUBSET Nat
      <4>1. file.db.has \cup file.wal.has \in SUBSET Nat
        BY <2>g
      <4>2. /\ [of |-> file.db.of, has |-> file.db.has \cup file.wal.has] \in Contents
            /\ [of |-> file.db.of, has |-> file.db.has \cup file.wal.has].has = file.db.has \cup file.wal.has
        BY <2>g, <4>1, NewContents
      <4> QED BY <2>g, <3>1, <4>1, <4>2
    <3>3. log \in Contents
      BY <2>c, <2>g, <3>1
    <3>4. file' \in Files
      BY <2>h, <3>1, <3>2, <3>3
    <3>5. late' \subseteq Nat
      BY <2>g, <3>1, <3>2
    <3> QED BY <2>20, <3>4, <3>5 DEF Checkpoint
  <2>17. CASE Restart
    <3>1. [c \in Client |-> <<>>] \in [Client -> Seq(Nat)]
      OBVIOUS
    <3>2. LimiterTyped'
      BY <2>17, <3>1 DEF Restart, LimiterTyped
    <3>3. session' \in 0..sessions' /\ starting' \in Nat /\ post' \in Post \cup {None}
      BY <2>17 DEF Restart
    <3>4. running' \in BOOLEAN
      BY <2>17 DEF Restart
    <3>5. UNCHANGED <<clock, sessions, file, versions, posix, late, unsaved>> /\ open' = {}
      BY <2>17 DEF Restart
    <3> QED BY <3>2, <3>3, <3>4, <3>5 DEF LimiterTyped
  <2>18. CASE UNCHANGED vars
    BY <2>18 DEF vars
  <2> QED BY <2>1, <2>2, <2>3, <2>4, <2>5, <2>6, <2>7, <2>8, <2>9, <2>10, <2>11, <2>12, <2>13,
             <2>14, <2>15, <2>16, <2>17, <2>18, <2>19, <2>20 DEF Next
<1>3. PairingInv => BackupRead
  BY DEF PairingInv, PairingTypes, BackupRead
<1> QED BY <1>1, <1>2, <1>3, PairingInit, PairingStep, PTL DEF Spec

\* What is left of a sequence when its first entries are dropped.
LEMMA TailTyped ==
  ASSUME NEW T, NEW q \in Seq(T), NEW n \in 0..Len(q)
  PROVE  SubSeq(q, n + 1, Len(q)) \in Seq(T)
OBVIOUS

\* The failures that the login limiter keeps stay sequences of times.
LEMMA PoppedTimes ==
  ASSUME authClock \in Nat, NEW q \in Seq(1..MaxAuthTime)
  PROVE  PopOld(q) \in Seq(1..MaxAuthTime)
<1> DEFINE old == CHOOSE n \in 0..Len(q) : /\ \A i \in 1..n : authClock - q[i] > LoginWindow
                                           /\ n = Len(q) \/ authClock - q[n + 1] <= LoginWindow
<1>1. q \in Seq(Nat) /\ LoginWindow \in Nat
  BY AccountsAssumption
<1>2. old \in 0..Len(q)
  BY <1>1, OldEntries
<1> HIDE DEF old
<1>3. SubSeq(q, old + 1, Len(q)) \in Seq(1..MaxAuthTime)
  BY <1>2, TailTyped
<1> QED BY <1>3 DEF PopOld, old

LimitsTyped ==
  /\ loginFailures \in [Clients -> Seq(1..MaxAuthTime)]
  /\ lockedUntil \in [Clients -> 0..(MaxAuthTime + Lockout)]
  /\ tests \in [Clients -> Seq(1..MaxAuthTime)]

LEMMA LoginFailureTyped ==
  ASSUME LimitsTyped, authClock \in 1..MaxAuthTime, NEW a, RecordLoginFailure(a)
  PROVE  LimitsTyped'
<1> USE AccountsAssumption DEF LimitsTyped
<1>1. CASE a \in Clients
  <2>1. Append(loginFailures[a], authClock) \in Seq(1..MaxAuthTime) /\ Append(tests[a], authClock) \in Seq(1..MaxAuthTime)
    BY <1>1
  <2>2. PopOld(Append(loginFailures[a], authClock)) \in Seq(1..MaxAuthTime)
    <3>1. authClock \in Nat
      OBVIOUS
    <3> QED BY <2>1, <3>1, PoppedTimes
  <2>3. authClock + Lockout \in 0..(MaxAuthTime + Lockout)
    OBVIOUS
  <2> QED BY <1>1, <2>1, <2>2, <2>3 DEF RecordLoginFailure
<1>2. CASE a \notin Clients
  BY <1>2 DEF RecordLoginFailure
<1> QED BY <1>1, <1>2

LEMMA LoginSuccessTyped ==
  ASSUME LimitsTyped, NEW a, RecordLoginSuccess(a)
  PROVE  LimitsTyped'
<1>1. <<>> \in Seq(1..MaxAuthTime) /\ 0 \in 0..(MaxAuthTime + Lockout)
  BY AccountsAssumption
<1> QED BY <1>1 DEF LimitsTyped, RecordLoginSuccess

LEMMA NotLockedTyped ==
  ASSUME LimitsTyped, NEW a \in Clients, NotLocked(a), UNCHANGED tests
  PROVE  LimitsTyped'
<1>1. <<>> \in Seq(1..MaxAuthTime) /\ 0 \in 0..(MaxAuthTime + Lockout)
  BY AccountsAssumption
<1> QED BY <1>1 DEF LimitsTyped, NotLocked

Call == [op : {"idle", "register", "lookup", "verify"}, client : Clients \cup {NoUser},
         name : Names \cup {NoUser}, pw : Passwords \cup {NoUser}]
Session == [user : Names \cup {NoUser}, profile : Profiles]

TablesTyped ==
  /\ users \in [Names -> Passwords \cup {NoUser}]
  /\ profiles \in [DOMAIN profiles -> Passwords \cup {NoUser}] /\ DOMAIN profiles \subseteq Profiles
  /\ loginSession \in [Clients -> Session]
  /\ calls \in [Calls -> Call]
  /\ authClock \in 1..MaxAuthTime
  /\ olderTests \in [Clients -> Seq(1..MaxAuthTime)]

\* A row more in the profiles table.
LEMMA ProfileAdded ==
  ASSUME TablesTyped, NEW p \in Profiles, NEW w \in Passwords \cup {NoUser},
         profiles' = [q \in DOMAIN profiles \cup {p} |-> IF q # p THEN profiles[q] ELSE w]
  PROVE  profiles' \in [DOMAIN profiles' -> Passwords \cup {NoUser}] /\ DOMAIN profiles' \subseteq Profiles
BY DEF TablesTyped

AccountsInv == TablesTyped /\ LimitsTyped

LEMMA AccountsSteps == AccountsInv /\ [AccountsNext]_accountVars => AccountsInv'
<1> SUFFICES ASSUME TablesTyped, LimitsTyped, [AccountsNext]_accountVars PROVE AccountsInv'
  BY DEF AccountsInv
<1> USE DEF AccountsInv
<1>e. \A a : [loginSession EXCEPT ![a] = NoSession] \in [Clients -> Session]
  BY DEF TablesTyped, NoSession, Session, Profiles
<1>u. \A a, n : n \in Names \cup {NoUser} => [loginSession EXCEPT ![a].user = n] \in [Clients -> Session]
  BY DEF TablesTyped, Session
<1>p. \A a, p : p \in Profiles => [loginSession EXCEPT ![a].profile = p] \in [Clients -> Session]
  BY DEF TablesTyped, Session
<1>c. \A c, r : r \in Call => [calls EXCEPT ![c] = r] \in [Calls -> Call]
  BY DEF TablesTyped
<1>n. NoCall \in Call
  BY DEF NoCall, Call
<1>i. \A c : c \in Calls => calls[c] \in Call
  BY DEF TablesTyped
<1>l. UNCHANGED limiterVars => LimitsTyped'
  BY DEF LimitsTyped, limiterVars
<1>t. authClock \in 1..MaxAuthTime
  BY DEF TablesTyped
<1>1. ASSUME NEW c \in Calls, NEW n \in Names, NEW p \in Passwords, RegisterCheck(c, n, p) PROVE AccountsInv'
  <2>1. [op |-> "register", client |-> NoUser, name |-> n, pw |-> p] \in Call
    BY DEF Call
  <2> QED BY <1>1, <1>c, <1>l, <2>1 DEF RegisterCheck, TablesTyped
<1>2. ASSUME NEW c \in Calls, RegisterInsert(c) PROVE AccountsInv'
  <2>1. calls[c].pw \in Passwords \cup {NoUser}
    BY <1>i DEF Call
  <2>2. users' \in [Names -> Passwords \cup {NoUser}]
    BY <1>2, <2>1 DEF RegisterInsert, TablesTyped
  <2> QED BY <1>2, <1>c, <1>n, <1>l, <2>2 DEF RegisterInsert, TablesTyped
<1>3. ASSUME NEW c \in Calls, NEW a \in Clients, NEW n \in Names, NEW p \in Passwords, LoginCheck(c, a, n, p)
      PROVE  AccountsInv'
  <2>1. [op |-> "lookup", client |-> a, name |-> n, pw |-> p] \in Call
    BY DEF Call
  <2>2. LimitsTyped'
    BY <1>3, NotLockedTyped DEF LoginCheck
  <2> QED BY <1>3, <1>c, <2>1, <2>2 DEF LoginCheck, TablesTyped
<1>4. ASSUME NEW c \in Calls, LoginLookup(c) PROVE AccountsInv'
  <2>1. [calls[c] EXCEPT !.op = "verify"] \in Call
    BY <1>i DEF Call
  <2>2. [calls EXCEPT ![c].op = "verify"] \in [Calls -> Call]
    BY <2>1, <1>i DEF TablesTyped
  <2>3. CASE users[calls[c].name] = NoUser
    <3>1. LimitsTyped'
      BY <1>4, <1>t, <2>3, LoginFailureTyped DEF LoginLookup
    <3> QED BY <1>4, <1>c, <1>n, <2>3, <3>1 DEF LoginLookup, TablesTyped
  <2>4. CASE users[calls[c].name] # NoUser
    BY <1>4, <1>l, <2>2, <2>4 DEF LoginLookup, TablesTyped
  <2> QED BY <2>3, <2>4
<1>5. ASSUME NEW c \in Calls, LoginVerify(c) PROVE AccountsInv'
  <2>1. LimitsTyped'
    BY <1>5, <1>t, LoginFailureTyped, LoginSuccessTyped DEF LoginVerify
  <2>2. calls[c].name \in Names \cup {NoUser}
    BY <1>i DEF Call
  <2>3. loginSession' \in [Clients -> Session]
    BY <1>5, <1>u, <2>2 DEF LoginVerify, TablesTyped
  <2> QED BY <1>5, <1>c, <1>n, <2>1, <2>3 DEF LoginVerify, TablesTyped
<1>6. ASSUME NEW a \in Clients, NEW n \in Names, NEW p \in Passwords, LegacyLogin(a, n, p) PROVE AccountsInv'
  <2>1. [user |-> n, profile |-> "default"] \in Session
    BY DEF Session, Profiles
  <2> QED BY <1>6, <1>l, <2>1 DEF LegacyLogin, TablesTyped
<1>6a. ASSUME NEW a \in Clients, NEW n \in Names, NEW p \in Passwords, LegacyLoginFails(a, n, p)
       PROVE  AccountsInv'
  <2>1. Append(olderTests[a], authClock) \in Seq(1..MaxAuthTime)
    BY <1>t DEF TablesTyped
  <2>2. olderTests' \in [Clients -> Seq(1..MaxAuthTime)]
    BY <1>6a, <2>1 DEF LegacyLoginFails, TablesTyped
  <2> QED BY <1>6a, <1>l, <2>2 DEF LegacyLoginFails, TablesTyped
<1>7. ASSUME NEW a \in Clients, Logout(a) PROVE AccountsInv'
  BY <1>7, <1>e, <1>l DEF Logout, TablesTyped
<1>8. ASSUME NEW a \in Clients, NEW p \in Profiles, NEW w \in Passwords \cup {NoUser}, CreateProfile(a, p, w)
      PROVE  AccountsInv'
  <2>1. PICK v \in Passwords \cup {NoUser} :
          profiles' = [q \in DOMAIN profiles \cup {p} |-> IF q # p THEN profiles[q] ELSE v]
    <3>1. CASE p \in HiddenProfiles
      BY <1>8, <3>1 DEF CreateProfile
    <3>2. CASE p \notin HiddenProfiles
      BY <1>8, <3>2 DEF CreateProfile
    <3> QED BY <3>1, <3>2
  <2>2. profiles' \in [DOMAIN profiles' -> Passwords \cup {NoUser}] /\ DOMAIN profiles' \subseteq Profiles
    BY <2>1, ProfileAdded
  <2> QED BY <1>8, <1>l, <2>2 DEF CreateProfile, TablesTyped
<1>9. ASSUME NEW a \in Clients, NEW w \in Passwords, UnlockProfile(a, w) PROVE AccountsInv'
  <2>1. loginSession' \in [Clients -> Session]
    BY <1>9, <1>p DEF UnlockProfile, Profiles
  <2> QED BY <1>9, <1>l, <2>1 DEF UnlockProfile, TablesTyped
<1>10. ASSUME NEW a \in Clients, NEW p \in Profiles, SwitchProfile(a, p) PROVE AccountsInv'
  BY <1>10, <1>p, <1>l DEF SwitchProfile, TablesTyped
<1>11. ASSUME NEW a \in Clients, ActiveProfile(a) \/ LegacyActiveProfile(a) PROVE AccountsInv'
  <2>1. profiles' = [q \in DOMAIN profiles \cup {"default"} |-> IF q # "default" THEN profiles[q] ELSE NoUser]
    BY <1>11 DEF ActiveProfile, LegacyActiveProfile
  <2>2. profiles' \in [DOMAIN profiles' -> Passwords \cup {NoUser}] /\ DOMAIN profiles' \subseteq Profiles
    BY <2>1, ProfileAdded DEF Profiles
  <2> QED BY <1>11, <1>l, <2>2 DEF ActiveProfile, LegacyActiveProfile, TablesTyped
<1>12. CASE AccountsTick
  <2>1. authClock' \in 1..MaxAuthTime
    BY <1>12, <1>t, AccountsAssumption DEF AccountsTick
  <2> QED BY <1>12, <1>l, <2>1 DEF AccountsTick, TablesTyped
<1>13. CASE UNCHANGED accountVars
  BY <1>13 DEF accountVars, TablesTyped, LimitsTyped
<1> QED BY <1>1, <1>2, <1>3, <1>4, <1>5, <1>6, <1>6a, <1>7, <1>8, <1>9, <1>10, <1>11, <1>12, <1>13
        DEF AccountsNext, LegacyCreateProfile, LegacyUnlockProfile, LegacySwitchProfile

\* Every variable of the accounts, sessions and profiles keeps its type.
THEOREM AccountsTyped == AccountsSpec => []AccountsTypeOK
<1>1. AccountsInit => AccountsInv
  <2> SUFFICES ASSUME AccountsInit PROVE AccountsInv
    OBVIOUS
  <2>1. NoSession \in Session /\ NoCall \in Call
    BY DEF NoSession, Session, Profiles, NoCall, Call
  <2>2. TablesTyped
    <3>1. <<>> \in Seq(1..MaxAuthTime)
      OBVIOUS
    <3> QED BY <2>1, <3>1, AccountsAssumption DEF AccountsInit, TablesTyped
  <2>3. <<>> \in Seq(1..MaxAuthTime) /\ 0 \in 0..(MaxAuthTime + Lockout)
    BY AccountsAssumption
  <2>4. LimitsTyped
    BY <2>3 DEF AccountsInit, LimitsTyped
  <2> QED BY <2>2, <2>4 DEF AccountsInv
<1>2. AccountsInv => AccountsTypeOK
  BY DEF AccountsInv, AccountsTypeOK, TablesTyped, LimitsTyped, Call, Session
<1> QED BY <1>1, <1>2, AccountsSteps, PTL DEF AccountsSpec

\* Every variable of the sync manager keeps its type.
THEOREM SyncTyped == SyncSpec => []SyncTypeOK
<1>1. SyncInv => SyncTypeOK
  BY DEF SyncInv
<1> QED BY <1>1, SyncInvariant, PTL
=============================================================================
