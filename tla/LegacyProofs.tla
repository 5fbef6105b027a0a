---------------------------- MODULE LegacyProofs ----------------------------
(***************************************************************************)
(* Proofs about the legacy node: the edit history, channels, the contact   *)
(* handshake, the pool of database connections and the lockout of the      *)
(* local account, for any number of threads, sessions and requests.        *)
(***************************************************************************)
EXTENDS LegacyEdits, LegacyGroups, LegacyContacts, LegacyPool, LegacyKeys, FiniteSetTheorems, WellFoundedInduction, TLAPS

(***************************************************************************)
(* The history of an edited message keeps an original text, for any number *)
(* of rows and of overlapping edits (LegacyEdits).  OriginalKept speaks of  *)
(* the rows only; it is inductive together with what the requests between   *)
(* their SELECT and their UPDATE have read: a request that read an edited   *)
(* text, or has written the history, comes after an original was recorded.  *)
(***************************************************************************)

Recorded == \E r \in stored : Original(r) \in history

\* a text that a row can have, before or after a first edit was recorded
Accounted(text) == (\E r \in stored : text = Original(r)) \/ Recorded

RowsAccounted == \A r \in DOMAIN texts : Accounted(texts[r])

EditorsAccounted ==
    \A e \in Editors : editor[e] # Idle =>
        /\ Accounted(editor[e].old)
        /\ editor[e].pc = "update" => Recorded

EditsInv ==
    /\ editor \in [Editors -> {Idle} \cup [pc : {"history", "update"}, old : TextsOf]]
    /\ \A r \in DOMAIN texts : texts[r] \in TextsOf
    /\ RowsAccounted /\ EditorsAccounted

\* What was recorded stays recorded: rows are only added to stored and
\* add_message_edit only inserts.
LEMMA AccountedStays ==
    ASSUME stored \subseteq stored', history \subseteq history', NEW text, Accounted(text)
    PROVE  Accounted(text)' /\ (Recorded => Recorded')
PROOF BY DEF Accounted, Recorded

\* save_message adds a row with its original text.
LEMMA StoreRowKeeps ==
    ASSUME EditsInv, NEW r \in RowIds, StoreRow(r)
    PROVE  EditsInv'
<1>1. stored \subseteq stored' /\ history \subseteq history' /\ r \in stored'
    BY DEF StoreRow
<1>2. \A text : Accounted(text) => Accounted(text)'
    BY <1>1, AccountedStays
<1>3. Recorded => Recorded'
    BY <1>1 DEF Recorded
<1>4. Accounted(Original(r))'
    BY <1>1 DEF Accounted
<1>5. RowsAccounted'
    BY <1>2, <1>4 DEF EditsInv, RowsAccounted, StoreRow
<1>6. EditorsAccounted'
    BY <1>2, <1>3 DEF EditsInv, EditorsAccounted, StoreRow
<1>7. \A q \in DOMAIN texts' : texts'[q] \in TextsOf
    BY DEF EditsInv, StoreRow, TextsOf
<1>8. QED
    BY <1>5, <1>6, <1>7 DEF EditsInv, StoreRow

\* A step that leaves stored alone and forgets no text of the history keeps
\* every text accounted for.
LEMMA RequestKeeps ==
    ASSUME EditsInv, NEW e \in Editors,
           SelectRow(e) \/ AddMessageEdit(e) \/ UpdateMessageText(e)
    PROVE  EditsInv'
<1>1. stored' = stored /\ history \subseteq history'
    BY DEF SelectRow, AddMessageEdit, UpdateMessageText
<1>2. \A text : Accounted(text) => Accounted(text)'
    BY <1>1, AccountedStays
<1>3. Recorded => Recorded'
    BY <1>1 DEF Recorded
<1>4. CASE SelectRow(e)
    <2>1. PICK r \in DOMAIN texts :
              editor' = [editor EXCEPT ![e] = [pc |-> "history", old |-> texts[r]]]
        BY <1>4 DEF SelectRow
    <2>2. Accounted(texts[r])' /\ texts[r] \in TextsOf
        BY <1>2, <1>4 DEF EditsInv, RowsAccounted, SelectRow
    <2>3. texts' = texts
        BY <1>4 DEF SelectRow
    <2>4. EditorsAccounted'
        <3> SUFFICES ASSUME NEW f \in Editors, (editor[f] # Idle)'
                     PROVE  (Accounted(editor[f].old) /\ (editor[f].pc = "update" => Recorded))'
            BY DEF EditorsAccounted
        <3>1. CASE f = e
            <4>1. (editor[f] = [pc |-> "history", old |-> texts[r]])'
                BY <2>1, <2>3, <3>1 DEF EditsInv
            <4>2. QED
                BY <2>2, <4>1 DEF Accounted
        <3>2. CASE f # e
            <4>1. editor'[f] = editor[f]
                BY <2>1, <3>2 DEF EditsInv
            <4>2. Accounted(editor[f].old) /\ (editor[f].pc = "update" => Recorded)
                BY <4>1 DEF EditsInv, EditorsAccounted
            <4>3. QED
                BY <1>1, <1>3, <4>1, <4>2 DEF Accounted
        <3>3. QED
            BY <3>1, <3>2
    <2>5. RowsAccounted'
        BY <1>2, <2>3 DEF EditsInv, RowsAccounted
    <2>6. QED
        BY <2>1, <2>2, <2>3, <2>4, <2>5 DEF EditsInv
<1>5. CASE AddMessageEdit(e)
    <2>1. Recorded'
        \* the recorded text is an original, or one was recorded before
        <3>1. Accounted(editor[e].old) /\ editor[e].old \in history'
            BY <1>5 DEF AddMessageEdit, EditsInv, EditorsAccounted
        <3>2. QED
            BY <1>1, <1>3, <3>1 DEF Accounted, Recorded
    <2>2. texts' = texts /\ editor' = [editor EXCEPT ![e].pc = "update"]
        BY <1>5 DEF AddMessageEdit
    <2>3. editor[e] # Idle
        BY <1>5 DEF AddMessageEdit
    <2>4. \A text : Accounted(text)'
        BY <2>1 DEF Accounted
    <2>5. RowsAccounted' /\ EditorsAccounted'
        BY <2>1, <2>4 DEF RowsAccounted, EditorsAccounted
    <2>6. editor' \in [Editors -> {Idle} \cup [pc : {"history", "update"}, old : TextsOf]]
        BY <2>2, <2>3 DEF EditsInv
    <2>7. QED
        BY <2>2, <2>5, <2>6 DEF EditsInv
<1>6. CASE UpdateMessageText(e)
    <2>1. Recorded'
        BY <1>3, <1>6 DEF UpdateMessageText, EditsInv, EditorsAccounted
    <2>2. \A text : Accounted(text)'
        BY <2>1 DEF Accounted
    <2>3. RowsAccounted' /\ EditorsAccounted'
        BY <2>1, <2>2 DEF RowsAccounted, EditorsAccounted
    <2>4. \A r \in DOMAIN texts' : texts'[r] \in TextsOf
        BY <1>6 DEF UpdateMessageText, TextsOf
    <2>5. editor' \in [Editors -> {Idle} \cup [pc : {"history", "update"}, old : TextsOf]]
        BY <1>6 DEF UpdateMessageText, EditsInv
    <2>6. QED
        BY <2>3, <2>4, <2>5 DEF EditsInv
<1>7. QED
    BY <1>4, <1>5, <1>6

\* Every step of the rows and of the edit requests keeps the invariant.
LEMMA EditsStep ==
    ASSUME EditsInv, [EditsNext]_editVars
    PROVE  EditsInv'
<1>1. CASE \E r \in RowIds : StoreRow(r)
    BY <1>1, StoreRowKeeps
<1>2. CASE DeleteRows
    BY <1>2 DEF DeleteRows, EditsInv, RowsAccounted, EditorsAccounted, Accounted, Recorded
<1>3. CASE \E e \in Editors : SelectRow(e) \/ AddMessageEdit(e) \/ UpdateMessageText(e)
    BY <1>3, RequestKeeps
<1>4. CASE UNCHANGED editVars
    BY <1>4 DEF editVars, EditsInv, RowsAccounted, EditorsAccounted, Accounted, Recorded
<1>5. QED
    BY <1>1, <1>2, <1>3, <1>4 DEF EditsNext

\* However many edits of a message overlap in update_message_text, and
\* whatever is stored or deleted meanwhile, a row that shows an edited text
\* has an original text in message_edits.
THEOREM EditsKeepOriginal == EditsSpec => []OriginalKept
<1>1. EditsInit => EditsInv
    BY DEF EditsInit, EditsInv, RowsAccounted, EditorsAccounted
<1>2. EditsInv /\ [EditsNext]_editVars => EditsInv'
    BY EditsStep
<1>3. EditsInv => OriginalKept
    <2> SUFFICES ASSUME EditsInv, NEW r \in DOMAIN texts, NEW e \in Editors, texts[r] = EditText(e)
                 PROVE  Recorded
        BY DEF OriginalKept, Recorded
    <2>1. \A q \in stored : texts[r] # Original(q)
        BY DEF EditText, Original
    <2>2. QED
        BY <2>1 DEF EditsInv, RowsAccounted, Accounted
<1>4. QED
    BY <1>1, <1>2, <1>3, PTL DEF EditsSpec

(***************************************************************************)
(* Groups.                                                                 *)
(***************************************************************************)
\* A post that passed the check of an existing channel is of its founder; before
\* the group exists there are no posts, and none that passed unseen.
FounderChecked ==
  /\ DOMAIN handler = Requests
  /\ group = Nobody => posts = {}
  /\ ~unseenGroup => \A r \in Requests : handler[r].op = "post" =>
       group # Nobody /\ (group.channel => handler[r].arg = group.founder)

\* However requests interleave between the check and the write, members come
\* and go and the group is created again, a channel holds posts of its first
\* founder only, unless a post was checked before the group existed.
THEOREM ChannelsOfFounders == GroupsSpec => []OnlyFounderPosts
<1> DEFINE Inv == FounderChecked /\ OnlyFounderPosts
<1>1. GroupsInit => Inv
  BY DEF GroupsInit, FounderChecked, OnlyFounderPosts, Free
<1>2. Inv /\ [GroupsNext]_groupVars => Inv'
  <2> SUFFICES ASSUME Inv, [GroupsNext]_groupVars PROVE Inv'
    OBVIOUS
  <2> USE DEF FounderChecked, OnlyFounderPosts, Free
  <2>1. ASSUME NEW r \in Requests, NEW s \in Members, CheckPost(r, s) PROVE Inv'
    <3>1. ~unseenGroup' => ~unseenGroup /\ group # Nobody
      BY <2>1, Zenon DEF CheckPost
    <3> QED BY <2>1, <3>1 DEF CheckPost
  <2>2. ASSUME NEW r \in Requests, NEW f \in Members, NEW c \in BOOLEAN, CreateGroup(r, f, c)
        PROVE  Inv'
    BY <2>2 DEF CreateGroup
  <2>3. ASSUME NEW r \in Requests, NEW i \in Invites, LookUpInvite(r, i) PROVE Inv'
    BY <2>3 DEF LookUpInvite
  <2>4. ASSUME NEW r \in Requests, AddFounder(r) PROVE Inv'
    BY <2>4 DEF AddFounder
  <2>5. ASSUME NEW r \in Requests, SaveGroupMessage(r) PROVE Inv'
    BY <2>5 DEF SaveGroupMessage
  <2>6. ASSUME NEW r \in Requests, MarkInviteUsed(r) PROVE Inv'
    BY <2>6 DEF MarkInviteUsed
  <2>7. ASSUME NEW m \in Members, RemoveGroupMember(m) \/ \E role \in Roles : AddGroupMember(m, role)
        PROVE  Inv'
    BY <2>7 DEF RemoveGroupMember, AddGroupMember
  <2>8. ASSUME NEW i \in Invites, CreateGroupInvite(i) PROVE Inv'
    BY <2>8 DEF CreateGroupInvite
  <2>9. ASSUME NEW a \in Members, NEW b \in Members, AddMemberVouch(a, b) PROVE Inv'
    BY <2>9 DEF AddMemberVouch
  <2>10. CASE UNCHANGED groupVars
    BY <2>10 DEF groupVars
  <2> QED BY <2>1, <2>2, <2>3, <2>4, <2>5, <2>6, <2>7, <2>8, <2>9, <2>10 DEF GroupsNext
<1> QED BY <1>1, <1>2, PTL DEF GroupsSpec

(***************************************************************************)
(* Contacts.                                                               *)
(***************************************************************************)
PeerKeys(n) == {k \in Keys : k[1] # n}

\* What the clients of node n derive: of one of its keys so far and one of the peer's.
Derived(n, s) == \E c \in 0..client[n], k \in PeerKeys(n) : s = {<<n, c>>, k}

RowsDerived ==
  /\ DOMAIN contactRow = Nodes
  /\ \A n \in Nodes : contactRow[n] # NoRow =>
       /\ DOMAIN contactRow[n] = {"status", "secret", "key"}
       /\ contactRow[n].key \in PeerKeys(n) \cup {NoRow}
       /\ contactRow[n].secret # NoRow => Derived(n, contactRow[n].secret)

PostsOfPeers ==
  /\ \A p \in onion : p.to \in Nodes /\ p.key \in PeerKeys(p.to)
  /\ \A e \in uiEvents : e.node \in Nodes /\ e.key \in PeerKeys(e.node)

\* A thread serves a post of the peer, or carries the secret that its client
\* derived with the key pair it had.
ThreadsDerived ==
  \A t \in threads :
    /\ DOMAIN t = {"node", "pc", "key", "peer", "secret", "client", "no"}
    /\ t.node \in Nodes /\ t.client \in 0..client[t.node]
    /\ t.pc = "secret" => t.key \in PeerKeys(t.node)
    /\ t.pc \in {"config", "post", "save"} => t.key = <<t.node, t.client>>
    /\ t.pc \in {"post", "save", "store"} => \E k \in PeerKeys(t.node) : t.secret = {<<t.node, t.client>>, k}
    /\ t.pc \in {"save", "store"} => t.peer \in PeerKeys(t.node) \cup {NoRow}
    /\ t.pc \in {"assign", "late"} =>
         Derived(t.node, t.secret) /\ t.key \in Keys /\ t.peer \in Keys \cup {NoRow}

\* Of the answers that wait to be assigned at a client, one is the newest.
NewestAnswer ==
  \A t, u \in threads : t.pc = "assign" /\ u.pc = "assign" /\ t.node = u.node => t = u

ClientsNumbered ==
  /\ client \in [Nodes -> 0..MaxRestarts] /\ DOMAIN chains = Nodes
  /\ myPubkeyFor \in [Nodes -> Keys \cup {NoRow}]

Current(n, secret, sessions, calls, late, clients) ==
  \/ \E t \in calls : t.node = n /\ t.pc = "sync" /\ t.client = clients[n]
  \/ \E t \in calls : t.node = n /\ t.pc = "assign" /\ t.secret = secret
  \/ /\ \A t \in calls : t.node = n => t.pc # "assign"
     /\ n \in late \/ (sessions[n] # NoRow /\ sessions[n].secret = secret)

\* When the stored secret of an accepted contact is of the client that runs, a
\* sync_contacts of it is still to come, or the newest answer has the secret, or the
\* session does, unless an older answer was assigned after the newest.
SessionStored ==
  \A n \in Nodes :
    (/\ "crash" \notin faults /\ contactRow[n] # NoRow /\ contactRow[n].status = "accepted"
     /\ contactRow[n].secret # NoRow /\ MyKey(n) \in contactRow[n].secret)
    => Current(n, contactRow[n].secret, chains, threads, overtaken, client)

HandshakeInv ==
  /\ ClientsNumbered /\ PostsOfPeers /\ ThreadsDerived /\ NewestAnswer
  /\ RowsDerived /\ AcceptedHasSecret /\ SessionStored

LEMMA PeerOfPeer ==
  ASSUME NEW n \in Nodes
  PROVE  /\ Peer(n) \in Nodes /\ Peer(n) # n /\ Peer(Peer(n)) = n
         /\ \A m \in Nodes : m = n \/ m = Peer(n)
<1>1. PICK a \in Nodes, b \in Nodes : a # b /\ Nodes = {a, b}
  BY LegacyContactsAssumption
<1>2. Peer(n) \in Nodes /\ Peer(n) # n
  BY <1>1 DEF Peer
<1>3. Peer(Peer(n)) \in Nodes /\ Peer(Peer(n)) # Peer(n)
  BY <1>1, <1>2 DEF Peer
<1> QED BY <1>1, <1>2, <1>3

\* A secret that clients derive is none of the absent ones.
LEMMA DerivedPresent ==
  ASSUME ClientsNumbered, NEW n \in Nodes, NEW c \in 0..client[n], NEW k \in PeerKeys(n)
  PROVE  /\ <<n, c>> \in Keys /\ {<<n, c>>, k} # NoRow /\ {<<n, c>>, k} \in SUBSET Keys
         /\ Derived(n, {<<n, c>>, k})
<1>1. c \in 0..MaxRestarts
  BY LegacyContactsAssumption DEF ClientsNumbered
<1>2. <<n, c>> \in Keys /\ k \in Keys
  BY <1>1 DEF Keys, PeerKeys
<1> QED BY <1>2, NoRowAssumption, Zenon DEF Derived

\* The handlers of posts and the user's requests keep types and secrets.
LEMMA HandshakeStep ==
  ASSUME HandshakeInv, LegacyContactsNext
  PROVE  HandshakeInv'
<1> USE LegacyContactsAssumption DEF HandshakeInv
<1>k. \A n \in Nodes : MyKey(n) \in Keys /\ client[n] \in 0..client[n] /\ client[n] \in Nat
  BY DEF ClientsNumbered, MyKey, Keys
<1>1. ASSUME NEW n \in Nodes, AddContact(n) PROVE HandshakeInv'
  <2> DEFINE u == Thread(n, "config", MyKey(n), NoRow, adds[n])
  <2>1. /\ u.node = n /\ u.pc = "config" /\ u.client = client[n] /\ u.key = <<n, client[n]>>
        /\ DOMAIN u = {"node", "pc", "key", "peer", "secret", "client", "no"}
    BY DEF Thread, MyKey
  <2> HIDE DEF u
  <2>2. threads' = threads \cup {u} /\ UNCHANGED <<myPubkeyFor, client, chains, onion, uiEvents, faults, overtaken>>
    BY <1>1 DEF AddContact, u
  <2>3. ClientsNumbered' /\ PostsOfPeers'
    BY <2>2 DEF ClientsNumbered, PostsOfPeers
  <2>4. ThreadsDerived' /\ NewestAnswer'
    BY <1>k, <2>1, <2>2 DEF ThreadsDerived, NewestAnswer, Derived
  <2>5. RowsDerived'
    BY <1>1, <2>2 DEF AddContact, AddRow, Row, RowsDerived, Derived
  <2>6. AcceptedHasSecret'
    BY <1>1, <2>2 DEF AddContact, AddRow, Row, AcceptedHasSecret, RowsDerived
  <2>7. SessionStored'
    BY <1>1, <2>1, <2>2 DEF AddContact, AddRow, Row, SessionStored, Current, MyKey, RowsDerived
  <2> QED BY <2>3, <2>4, <2>5, <2>6, <2>7
<1>1a. ASSUME NEW t \in threads, AddContactConfig(t) PROVE HandshakeInv'
  <2>1. /\ threads' = threads \ {t} /\ t.pc = "config" /\ t.node \in Nodes /\ t.key = <<t.node, t.client>>
        /\ t.client \in 0..client[t.node] /\ client[t.node] \in 0..MaxRestarts
        /\ myPubkeyFor' = [myPubkeyFor EXCEPT ![t.node] = t.key]
        /\ onion' = onion \cup {[to |-> Peer(t.node), path |-> "handshake", key |-> t.key, no |-> t.no]}
        /\ UNCHANGED <<contactRow, client, chains, uiEvents, faults, overtaken>>
    BY <1>1a DEF AddContactConfig, ThreadsDerived, ClientsNumbered
  <2>2. t.key \in Keys
    <3>1. t.client \in 0..MaxRestarts
      BY <2>1
    <3> QED BY <2>1, <3>1 DEF Keys
  <2>3. ClientsNumbered'
    BY <2>1, <2>2 DEF ClientsNumbered
  <2>4. PostsOfPeers'
    BY <2>1, <2>2, PeerOfPeer DEF PostsOfPeers, PeerKeys
  <2>5. ThreadsDerived' /\ NewestAnswer' /\ RowsDerived'
    BY <2>1 DEF ThreadsDerived, NewestAnswer, RowsDerived, Derived
  <2>6. AcceptedHasSecret'
    BY <2>1 DEF AcceptedHasSecret
  <2>7. SessionStored'
    BY <2>1 DEF SessionStored, Current, MyKey
  <2> QED BY <2>3, <2>4, <2>5, <2>6, <2>7
<1>2. ASSUME NEW n \in Nodes, ReadAndDerive(n) PROVE HandshakeInv'
  <2> DEFINE u == Thread(n, "post", MyKey(n), Secret(MyKey(n), contactRow[n].key), accepts[n])
  <2>1. /\ u.node = n /\ u.pc = "post" /\ u.client = client[n] /\ u.key = <<n, client[n]>>
        /\ u.secret = {<<n, client[n]>>, contactRow[n].key}
        /\ DOMAIN u = {"node", "pc", "key", "peer", "secret", "client", "no"}
    BY DEF Thread, MyKey, Secret
  <2> HIDE DEF u
  <2>2. /\ threads' = threads \cup {u} /\ contactRow[n] # NoRow /\ contactRow[n].key # NoRow
        /\ UNCHANGED <<contactRow, myPubkeyFor, client, chains, onion, uiEvents, faults, overtaken>>
    BY <1>2 DEF ReadAndDerive, u
  <2>3. contactRow[n].key \in PeerKeys(n)
    BY <2>2 DEF RowsDerived
  <2>4. ClientsNumbered' /\ PostsOfPeers' /\ RowsDerived'
    BY <2>2 DEF ClientsNumbered, PostsOfPeers, RowsDerived, Derived
  <2>5. ThreadsDerived' /\ NewestAnswer'
    BY <1>k, <2>1, <2>2, <2>3 DEF ThreadsDerived, NewestAnswer, Derived
  <2>6. AcceptedHasSecret'
    BY <2>1, <2>2 DEF AcceptedHasSecret
  <2>7. SessionStored'
    BY <2>1, <2>2 DEF SessionStored, Current, MyKey
  <2> QED BY <2>4, <2>5, <2>6, <2>7
<1>3. ASSUME NEW n \in Nodes, DeleteContact(n) PROVE HandshakeInv'
  <2>1. /\ contactRow' = [contactRow EXCEPT ![n] = NoRow]
        /\ "crash" \in faults => "crash" \in faults'
        /\ UNCHANGED <<myPubkeyFor, client, chains, onion, threads, uiEvents, overtaken>>
    BY <1>3 DEF DeleteContact, Fault
  <2>2. ClientsNumbered' /\ PostsOfPeers' /\ ThreadsDerived' /\ NewestAnswer' /\ RowsDerived'
    BY <2>1 DEF ClientsNumbered, PostsOfPeers, ThreadsDerived, NewestAnswer, RowsDerived, Derived
  <2>3. AcceptedHasSecret' /\ SessionStored'
    BY <2>1 DEF AcceptedHasSecret, SessionStored, MyKey, RowsDerived
  <2> QED BY <2>2, <2>3
<1>4. ASSUME NEW n \in Nodes, RestartClient(n) PROVE HandshakeInv'
  <2>1. ClientsNumbered'
    BY <1>4, PeerOfPeer DEF RestartClient, Fault, ClientsNumbered
  <2>2. \A m \in Nodes : client[m] \in Nat /\ client'[m] \in Nat /\ client[m] <= client'[m]
    BY <1>4, <2>1 DEF RestartClient, Fault, ClientsNumbered
  <2>2a. \A m \in Nodes : \A s : Derived(m, s) => Derived(m, s)'
    BY <2>2 DEF Derived
  <2>3. ThreadsDerived' /\ PostsOfPeers' /\ NewestAnswer'
    BY <1>4, <2>2, <2>2a DEF RestartClient, Fault, ThreadsDerived, PostsOfPeers, NewestAnswer
  <2>4. RowsDerived' /\ AcceptedHasSecret'
    BY <1>4, <2>2a DEF RestartClient, Fault, RowsDerived, AcceptedHasSecret
  <2>5. SessionStored'
    <3>1. \A s : Derived(n, s) => <<n, client[n] + 1>> \notin s
      BY <2>2 DEF Derived, PeerKeys
    <3>2. CASE contactRow[n] # NoRow /\ contactRow[n].secret # NoRow
      BY <1>4, <3>1, <3>2, PeerOfPeer DEF RestartClient, Fault, SessionStored, Current, MyKey, RowsDerived, ClientsNumbered
    <3>3. CASE ~(contactRow[n] # NoRow /\ contactRow[n].secret # NoRow)
      BY <1>4, <3>3, PeerOfPeer DEF RestartClient, Fault, SessionStored, Current, MyKey, ClientsNumbered
    <3> QED BY <3>2, <3>3
  <2> QED BY <2>1, <2>3, <2>4, <2>5
<1>5. ASSUME NEW n \in Nodes, CrashNode(n) PROVE HandshakeInv'
  BY <1>5 DEF CrashNode, Fault, ClientsNumbered, PostsOfPeers, ThreadsDerived, NewestAnswer, RowsDerived,
              AcceptedHasSecret, SessionStored, Derived, MyKey
<1>6. ASSUME NEW t \in threads, AcceptLookup(t) PROVE HandshakeInv'
  <2> DEFINE u == [t EXCEPT !.pc = "save", !.peer = contactRow[t.node].key]
  <2>1. /\ u.node = t.node /\ u.pc = "save" /\ u.client = t.client /\ u.key = t.key /\ u.secret = t.secret
        /\ u.peer = contactRow[t.node].key /\ DOMAIN u = DOMAIN t
    BY DEF ThreadsDerived
  <2> HIDE DEF u
  <2>2. threads' = (threads \ {t}) \cup (IF contactRow[t.node] = NoRow THEN {} ELSE {u}) /\ t.pc = "post"
        /\ UNCHANGED <<contactRow, myPubkeyFor, client, chains, onion, uiEvents, faults, overtaken>>
    BY <1>6 DEF AcceptLookup, u
  <2>3. ThreadsDerived' /\ NewestAnswer'
    BY <2>1, <2>2 DEF ThreadsDerived, RowsDerived, Derived, NewestAnswer
  <2>4. AcceptedHasSecret'
    BY <2>2 DEF AcceptedHasSecret
  <2>4a. SessionStored'
    BY <2>1, <2>2 DEF SessionStored, Current, MyKey
  <2>5. ClientsNumbered' /\ PostsOfPeers' /\ RowsDerived'
    BY <2>2 DEF ClientsNumbered, PostsOfPeers, RowsDerived, Derived
  <2> QED BY <2>3, <2>4, <2>4a, <2>5
\* A secret that a client derived is stored; the client syncs.
<1>s. ASSUME NEW t \in threads, t.pc \in {"save", "store"},
             contactRow' = [contactRow EXCEPT ![t.node] = IF @ = NoRow THEN NoRow
                              ELSE [status |-> "accepted", secret |-> t.secret, key |-> t.peer]],
             threads' = (threads \ {t}) \cup {[t EXCEPT !.pc = "sync", !.secret = NoRow, !.peer = NoRow]},
             UNCHANGED <<myPubkeyFor, client, chains, uiEvents, faults, overtaken>>
      PROVE  /\ ClientsNumbered' /\ ThreadsDerived' /\ NewestAnswer' /\ RowsDerived' /\ AcceptedHasSecret'
             /\ SessionStored'
  <2>0. PICK k \in PeerKeys(t.node) : t.secret = {<<t.node, t.client>>, k}
    BY <1>s DEF ThreadsDerived
  <2>1. /\ t.node \in Nodes /\ t.client \in 0..client[t.node] /\ t.secret # NoRow
        /\ Derived(t.node, t.secret) /\ t.peer \in PeerKeys(t.node) \cup {NoRow}
    <3>1. t.node \in Nodes /\ t.client \in 0..client[t.node] /\ t.peer \in PeerKeys(t.node) \cup {NoRow}
      BY <1>s DEF ThreadsDerived
    <3>2. ClientsNumbered
      OBVIOUS
    <3>3. {<<t.node, t.client>>, k} # NoRow /\ Derived(t.node, {<<t.node, t.client>>, k})
      BY <3>1, <3>2, DerivedPresent
    <3> QED BY <2>0, <3>1, <3>3
  <2> DEFINE u == [t EXCEPT !.pc = "sync", !.secret = NoRow, !.peer = NoRow]
  <2>1a. u.node = t.node /\ u.pc = "sync" /\ u.client = t.client /\ DOMAIN u = DOMAIN t
    BY DEF ThreadsDerived
  <2>1b. threads' = (threads \ {t}) \cup {u}
    BY <1>s
  <2> HIDE DEF u
  <2>2. ClientsNumbered' /\ NewestAnswer'
    BY <1>s, <2>1a, <2>1b DEF ClientsNumbered, NewestAnswer
  <2>3. ThreadsDerived'
    BY <1>s, <2>1, <2>1a, <2>1b DEF ThreadsDerived, Derived
  <2>4. RowsDerived'
    BY <1>s, <2>1 DEF RowsDerived, Derived
  <2>5. AcceptedHasSecret'
    BY <1>s, <2>1 DEF AcceptedHasSecret, RowsDerived
  <2>6. SessionStored'
    <3>2. MyKey(t.node) \in t.secret => t.client = client[t.node]
      BY <2>0, <2>1 DEF MyKey, PeerKeys
    <3> SUFFICES ASSUME NEW n \in Nodes, "crash" \notin faults, contactRow'[n] # NoRow,
                        contactRow'[n].status = "accepted", contactRow'[n].secret # NoRow,
                        MyKey(n) \in contactRow'[n].secret
                 PROVE  Current(n, contactRow'[n].secret, chains, threads', overtaken, client)
      BY <1>s DEF SessionStored, MyKey
    <3>4. CASE n = t.node
      BY <1>s, <2>1a, <2>1b, <3>2, <3>4 DEF RowsDerived, Current
    <3>5. CASE n # t.node
      <4>1. contactRow'[n] = contactRow[n] /\ Current(n, contactRow[n].secret, chains, threads, overtaken, client)
        BY <1>s, <3>5 DEF SessionStored, RowsDerived
      <4> QED BY <1>s, <2>1a, <2>1b, <4>1 DEF Current
    <3> QED BY <3>4, <3>5
  <2> QED BY <2>2, <2>3, <2>4, <2>5, <2>6
<1>7. ASSUME NEW t \in threads, AcceptSave(t) PROVE HandshakeInv'
  <2>1. t.key \in Keys /\ t.node \in Nodes /\ t.key = <<t.node, t.client>>
    <3>1. t.client \in 0..client[t.node] /\ t.node \in Nodes /\ client[t.node] \in 0..MaxRestarts
          /\ t.key = <<t.node, t.client>>
      BY <1>7 DEF AcceptSave, ThreadsDerived, ClientsNumbered
    <3>2. t.client \in 0..MaxRestarts
      BY <3>1
    <3> QED BY <3>1, <3>2 DEF Keys
  <2>2. PostsOfPeers'
    BY <1>7, <2>1, PeerOfPeer DEF AcceptSave, PostsOfPeers, PeerKeys
  <2> QED BY <1>7, <1>s, <2>2 DEF AcceptSave, UpdateContactSecret
<1>7a. ASSUME NEW t \in threads, StoreDerived(t) PROVE HandshakeInv'
  <2>1. PostsOfPeers'
    BY <1>7a DEF StoreDerived, PostsOfPeers
  <2> QED BY <1>7a, <1>s, <2>1 DEF StoreDerived, UpdateContactSecret
<1>8. ASSUME NEW t \in threads, FetchContacts(t) PROVE HandshakeInv'
  <2> DEFINE r == contactRow[t.node]
             mine == IF myPubkeyFor[t.node] # NoRow THEN myPubkeyFor[t.node] ELSE MyKey(t.node)
             answered == t.client = client[t.node] /\ r # NoRow /\ r.status = "accepted" /\ r.secret # NoRow
             outdated == {u \in threads : u.node = t.node /\ u.pc = "assign"}
             lates == {[u EXCEPT !.pc = "late"] : u \in outdated}
             w == [t EXCEPT !.pc = "assign", !.secret = r.secret, !.key = mine, !.peer = r.key]
  <2>1. /\ t.pc = "sync" /\ t.node \in Nodes /\ t.client \in 0..client[t.node]
        /\ threads' = IF answered THEN (threads \ ({t} \cup outdated)) \cup lates \cup {w} ELSE threads \ {t}
        /\ UNCHANGED <<contactRow, myPubkeyFor, client, chains, onion, uiEvents, faults, overtaken>>
    BY <1>8 DEF FetchContacts, ThreadsDerived
  <2>2. /\ w.node = t.node /\ w.pc = "assign" /\ w.secret = r.secret /\ w.key = mine /\ w.peer = r.key
        /\ w.client = t.client /\ DOMAIN w = DOMAIN t
    BY DEF ThreadsDerived
  <2>3. \A v \in lates : \E u \in outdated :
          /\ v.node = u.node /\ v.pc = "late" /\ v.secret = u.secret /\ v.key = u.key /\ v.peer = u.peer
          /\ v.client = u.client /\ DOMAIN v = DOMAIN u
    BY DEF ThreadsDerived
  <2>4. mine \in Keys
    BY <1>k, <2>1 DEF ClientsNumbered
  <2> HIDE DEF w, lates
  <2>5. ClientsNumbered' /\ PostsOfPeers' /\ RowsDerived'
    BY <2>1 DEF ClientsNumbered, PostsOfPeers, RowsDerived, Derived
  <2>6. AcceptedHasSecret'
    <3>1. \A u \in threads : u.pc = "status" => u \in threads'
      BY <2>1
    <3> QED BY <2>1, <3>1 DEF AcceptedHasSecret
  <2>7. NewestAnswer'
    <3>1. CASE answered
      BY <2>1, <2>2, <2>3, <3>1 DEF NewestAnswer
    <3>2. CASE ~answered
      BY <2>1, <3>2 DEF NewestAnswer
    <3> QED BY <3>1, <3>2
  <2>8. ThreadsDerived'
    <3>0. \A n \in Nodes : \A s : Derived(n, s)' <=> Derived(n, s)
      BY <2>1 DEF Derived
    <3>1. CASE answered
      <4>1. Derived(t.node, r.secret) /\ r.key \in Keys \cup {NoRow}
        BY <2>1, <3>1 DEF RowsDerived, PeerKeys
      <4> QED BY <2>1, <2>2, <2>3, <2>4, <3>0, <3>1, <4>1 DEF ThreadsDerived
    <3>2. CASE ~answered
      BY <2>1, <3>0, <3>2 DEF ThreadsDerived
    <3> QED BY <3>1, <3>2
  <2>9. SessionStored'
    <3> SUFFICES ASSUME NEW n \in Nodes, "crash" \notin faults, contactRow[n] # NoRow,
                        contactRow[n].status = "accepted", contactRow[n].secret # NoRow,
                        MyKey(n) \in contactRow[n].secret
                 PROVE  Current(n, contactRow[n].secret, chains, threads', overtaken, client)
      BY <2>1 DEF SessionStored, MyKey
    <3>1. Current(n, contactRow[n].secret, chains, threads, overtaken, client)
      BY DEF SessionStored
    <3>2. CASE n = t.node /\ answered
      BY <2>1, <2>2, <3>2 DEF Current
    <3>3. CASE n = t.node /\ ~answered
      <4>1. t.client # client[n] /\ threads' = threads \ {t}
        BY <2>1, <3>3
      <4> QED BY <2>1, <3>1, <4>1 DEF Current
    <3>4. CASE n # t.node
      <4>1. \A u : u.node = n => (u \in threads' <=> u \in threads)
        BY <2>1, <2>2, <2>3, <3>4
      <4> QED BY <3>1, <4>1 DEF Current
    <3> QED BY <3>2, <3>3, <3>4
  <2> QED BY <2>5, <2>6, <2>7, <2>8, <2>9
<1>8a. ASSUME NEW t \in threads, AssignSession(t) PROVE HandshakeInv'
  <2> DEFINE session == [secret |-> t.secret, mine |-> t.key, peer |-> t.peer]
  <2>1. /\ t.pc \in {"assign", "late"} /\ t.node \in Nodes /\ threads' = threads \ {t}
        /\ chains' = [chains EXCEPT ![t.node] = session]
        /\ Derived(t.node, t.secret) /\ t.key \in Keys /\ t.peer \in Keys \cup {NoRow}
        /\ UNCHANGED <<contactRow, myPubkeyFor, client, onion, uiEvents, faults>>
    BY <1>8a DEF AssignSession, ThreadsDerived
  <2>2. session # NoRow /\ session.secret = t.secret
    <3>1. PICK c \in 0..client[t.node], k \in PeerKeys(t.node) : t.secret = {<<t.node, c>>, k}
      BY <2>1 DEF Derived
    <3>2. t.secret \in SUBSET Keys
      BY <2>1, <3>1, DerivedPresent
    <3> QED BY <2>1, <3>2, NoRowAssumption
  <2> HIDE DEF session
  <2>3. ClientsNumbered'
    BY <2>1 DEF ClientsNumbered
  <2>4. PostsOfPeers' /\ RowsDerived'
    BY <2>1 DEF PostsOfPeers, RowsDerived, Derived
  <2>5. ThreadsDerived' /\ NewestAnswer'
    BY <2>1 DEF ThreadsDerived, NewestAnswer, Derived
  <2>6. AcceptedHasSecret'
    BY <2>1 DEF AcceptedHasSecret
  <2>7. SessionStored'
    <3>0. \A m \in Nodes : m # t.node => (m \in overtaken' <=> m \in overtaken) /\ chains'[m] = chains[m]
      BY <1>8a, <2>1 DEF AssignSession, ClientsNumbered
    <3> SUFFICES ASSUME NEW n \in Nodes, "crash" \notin faults, contactRow[n] # NoRow,
                        contactRow[n].status = "accepted", contactRow[n].secret # NoRow,
                        MyKey(n) \in contactRow[n].secret
                 PROVE  Current(n, contactRow[n].secret, chains', threads', overtaken', client)
      BY <2>1 DEF SessionStored, MyKey
    <3>1. Current(n, contactRow[n].secret, chains, threads, overtaken, client)
      BY DEF SessionStored
    <3>2. CASE n # t.node
      BY <2>1, <3>0, <3>1, <3>2 DEF Current
    <3>3. CASE n = t.node /\ t.pc = "assign"
      <4>1. chains'[n] = session
        BY <2>1, <3>3 DEF ClientsNumbered
      <4>2. \A u \in threads' : u.node = n => u.pc # "assign"
        BY <2>1, <3>3 DEF NewestAnswer
      <4>3. CASE \E u \in threads : u.node = n /\ u.pc = "sync" /\ u.client = client[n]
        BY <2>1, <3>3, <4>3 DEF Current
      <4>4. CASE \E u \in threads : u.node = n /\ u.pc = "assign" /\ u.secret = contactRow[n].secret
        BY <2>2, <3>3, <4>1, <4>2, <4>4 DEF Current, NewestAnswer
      <4> QED BY <3>1, <3>3, <4>3, <4>4 DEF Current
    <3>4. CASE n = t.node /\ t.pc = "late"
      <4>1. CASE \E u \in threads : u.node = n /\ u.pc = "assign"
        BY <2>1, <3>1, <3>4, <4>1 DEF Current
      <4>2. CASE ~ \E u \in threads : u.node = n /\ u.pc = "assign"
        <5>1. n \in overtaken'
          BY <1>8a, <3>4, <4>2 DEF AssignSession
        <5> QED BY <2>1, <4>2, <5>1 DEF Current
      <4> QED BY <4>1, <4>2
    <3> QED BY <2>1, <3>2, <3>3, <3>4
  <2> QED BY <2>3, <2>4, <2>5, <2>6, <2>7
<1>9. ASSUME NEW t \in threads, HandshakeSecret(t) PROVE HandshakeInv'
  <2> DEFINE u == [t EXCEPT !.pc = "status"]
  <2>1. /\ u.node = t.node /\ u.pc = "status" /\ u.client = t.client /\ DOMAIN u = DOMAIN t
    BY DEF ThreadsDerived
  <2> HIDE DEF u
  <2>2. /\ contactRow' = [contactRow EXCEPT ![t.node] = IF @ = NoRow THEN NoRow
                            ELSE [status |-> "accepted", secret |-> NoRow, key |-> t.key]]
        /\ threads' = (threads \ {t}) \cup {u} /\ t.pc = "secret" /\ t.node \in Nodes
        /\ t.key \in PeerKeys(t.node)
        /\ UNCHANGED <<myPubkeyFor, client, chains, onion, uiEvents, faults, overtaken>>
    BY <1>9 DEF HandshakeSecret, UpdateContactSecret, ThreadsDerived, u
  <2>3. ThreadsDerived' /\ NewestAnswer'
    BY <2>1, <2>2 DEF ThreadsDerived, NewestAnswer, Derived
  <2>4. AcceptedHasSecret'
    BY <2>1, <2>2 DEF AcceptedHasSecret, RowsDerived
  <2>5. SessionStored'
    BY <2>1, <2>2 DEF SessionStored, Current, MyKey, RowsDerived
  <2>6. RowsDerived'
    BY <2>2 DEF RowsDerived, Derived
  <2>7. ClientsNumbered' /\ PostsOfPeers'
    BY <2>2 DEF ClientsNumbered, PostsOfPeers
  <2> QED BY <2>3, <2>4, <2>5, <2>6, <2>7
<1>10. ASSUME NEW t \in threads, HandshakeStatus(t) PROVE HandshakeInv'
  <2>1. /\ contactRow' = [contactRow EXCEPT ![t.node] = IF @ = NoRow THEN NoRow
                            ELSE [@ EXCEPT !.status = "pending_incoming"]]
        /\ threads' = threads \ {t} /\ t.pc = "status" /\ t.node \in Nodes
        /\ UNCHANGED <<myPubkeyFor, client, chains, onion, uiEvents, faults, overtaken>>
    BY <1>10 DEF HandshakeStatus, UpdateContactStatus, ThreadsDerived
  <2>2. ClientsNumbered' /\ PostsOfPeers' /\ ThreadsDerived' /\ NewestAnswer' /\ RowsDerived'
    BY <2>1 DEF ClientsNumbered, PostsOfPeers, ThreadsDerived, NewestAnswer, RowsDerived, Derived
  <2>3. AcceptedHasSecret'
    BY <2>1 DEF AcceptedHasSecret, RowsDerived
  <2>4. SessionStored'
    BY <2>1 DEF SessionStored, Current, MyKey, RowsDerived
  <2> QED BY <2>2, <2>3, <2>4
<1>11. ASSUME NEW p \in onion, HandshakeInsert(p) PROVE HandshakeInv'
  <2> DEFINE u == Thread(p.to, "secret", p.key, NoRow, p.no)
  <2>1. /\ u.node = p.to /\ u.pc = "secret" /\ u.client = client[p.to] /\ u.key = p.key
        /\ DOMAIN u = {"node", "pc", "key", "peer", "secret", "client", "no"}
    BY DEF Thread
  <2> HIDE DEF u
  <2>2. /\ threads' = threads \cup {u} /\ onion' = onion \ {p} /\ p.to \in Nodes /\ p.key \in PeerKeys(p.to)
        /\ UNCHANGED <<myPubkeyFor, client, chains, uiEvents, faults, overtaken>>
    BY <1>11 DEF HandshakeInsert, PostsOfPeers, u
  <2>3. ClientsNumbered' /\ PostsOfPeers'
    BY <2>2 DEF ClientsNumbered, PostsOfPeers
  <2>4. ThreadsDerived' /\ NewestAnswer'
    BY <1>k, <2>1, <2>2 DEF ThreadsDerived, NewestAnswer, Derived
  <2>5. RowsDerived'
    BY <1>11, <2>2 DEF HandshakeInsert, AddRow, Row, RowsDerived, Derived
  <2>6. AcceptedHasSecret'
    BY <1>11, <2>2 DEF HandshakeInsert, AddRow, Row, AcceptedHasSecret, RowsDerived
  <2>7. SessionStored'
    BY <1>11, <2>1, <2>2 DEF HandshakeInsert, AddRow, Row, SessionStored, Current, MyKey, RowsDerived
  <2> QED BY <2>3, <2>4, <2>5, <2>6, <2>7
<1>12. ASSUME NEW p \in onion, P2PAccept(p) \/ PostLost(p) PROVE HandshakeInv'
  <2>1. /\ onion' \subseteq onion
        /\ "crash" \in faults => "crash" \in faults'
        /\ \A e \in uiEvents' : e \in uiEvents \/ (p \in onion /\ e.node = p.to /\ e.key = p.key)
        /\ UNCHANGED <<contactRow, myPubkeyFor, client, chains, threads, overtaken>>
    BY <1>12 DEF P2PAccept, PostLost, Fault
  <2>2. ClientsNumbered' /\ PostsOfPeers' /\ ThreadsDerived' /\ NewestAnswer' /\ RowsDerived'
    BY <2>1 DEF ClientsNumbered, PostsOfPeers, ThreadsDerived, NewestAnswer, RowsDerived, Derived
  <2>3. AcceptedHasSecret' /\ SessionStored'
    BY <2>1 DEF AcceptedHasSecret, SessionStored, MyKey
  <2> QED BY <2>2, <2>3
<1>13. ASSUME NEW e \in uiEvents, OnHandshakeAccepted(e) PROVE HandshakeInv'
  <2> DEFINE u == [Thread(e.node, "store", e.key, Secret(MyKey(e.node), e.key), e.no) EXCEPT !.peer = e.key]
  <2>1. /\ u.node = e.node /\ u.pc = "store" /\ u.client = client[e.node] /\ u.peer = e.key
        /\ u.secret = {<<e.node, client[e.node]>>, e.key}
        /\ DOMAIN u = {"node", "pc", "key", "peer", "secret", "client", "no"}
    BY DEF Thread, Secret, MyKey
  <2> HIDE DEF u
  <2>2. e.node \in Nodes /\ e.key \in PeerKeys(e.node)
    BY DEF PostsOfPeers
  <2>3. /\ threads' = threads \cup {u} /\ uiEvents' = uiEvents \ {e}
        /\ UNCHANGED <<contactRow, myPubkeyFor, client, chains, onion, faults, overtaken>>
    BY <1>13 DEF OnHandshakeAccepted, u
  <2>4. ThreadsDerived' /\ NewestAnswer'
    BY <1>k, <2>1, <2>2, <2>3 DEF ThreadsDerived, NewestAnswer, Derived
  <2>5. AcceptedHasSecret'
    BY <2>1, <2>3 DEF AcceptedHasSecret
  <2>6. SessionStored'
    BY <2>1, <2>3 DEF SessionStored, Current, MyKey
  <2>7. ClientsNumbered' /\ PostsOfPeers' /\ RowsDerived'
    BY <2>3 DEF ClientsNumbered, PostsOfPeers, RowsDerived, Derived
  <2> QED BY <2>4, <2>5, <2>6, <2>7
<1> QED BY <1>1, <1>1a, <1>2, <1>3, <1>4, <1>5, <1>6, <1>7, <1>7a, <1>8, <1>8a, <1>9, <1>10, <1>11, <1>12, <1>13
        DEF LegacyContactsNext

LEMMA HandshakeAlways == LegacyContactsSpec => []HandshakeInv
<1>1. LegacyContactsInit => HandshakeInv
  BY LegacyContactsAssumption
     DEF LegacyContactsInit, HandshakeInv, ClientsNumbered, PostsOfPeers, ThreadsDerived, NewestAnswer,
         RowsDerived, AcceptedHasSecret, SessionStored
<1>2. HandshakeInv /\ [LegacyContactsNext]_legacyContactVars => HandshakeInv'
  <2>1. CASE UNCHANGED legacyContactVars
    BY <2>1 DEF legacyContactVars, HandshakeInv, ClientsNumbered, PostsOfPeers, ThreadsDerived, NewestAnswer,
                RowsDerived, AcceptedHasSecret, SessionStored, Derived, MyKey
  <2> QED BY <2>1, HandshakeStep
<1> QED BY <1>1, <1>2, PTL DEF LegacyContactsSpec

\* The handshake of two legacy nodes leaves no accepted contact without a secret,
\* and settled sessions of one contact have one secret, unless a client assigned an
\* older contact list after a newer one, for any number of requests, restarts,
\* losses and deletions.
THEOREM HandshakeSound == LegacyContactsSpec => []SessionsSound
<1>1. HandshakeInv => SessionsSound
  <2> SUFFICES ASSUME HandshakeInv, threads = {}, "crash" \notin faults, overtaken = {},
                      \A n \in Nodes : /\ contactRow[n] # NoRow /\ contactRow[n].status = "accepted"
                         /\ contactRow[n].key = MyKey(Peer(n)) /\ contactRow[n].secret # NoRow
                         /\ {MyKey(n), contactRow[n].key} \subseteq contactRow[n].secret
               PROVE  \A n \in Nodes : chains[n] # NoRow /\ chains[n].secret = chains[Peer(n)].secret
    BY DEF HandshakeInv, SessionsSound, SessionsAgree
  <2>1. ASSUME NEW n \in Nodes
        PROVE  chains[n] # NoRow /\ chains[n].secret = {MyKey(n), MyKey(Peer(n))}
    <3>1. chains[n] # NoRow /\ chains[n].secret = contactRow[n].secret
      BY <2>1 DEF HandshakeInv, SessionStored, Current
    <3>2. Derived(n, contactRow[n].secret) /\ MyKey(n) # MyKey(Peer(n))
      BY <2>1, PeerOfPeer DEF HandshakeInv, RowsDerived, MyKey
    <3>3. MyKey(n) \in contactRow[n].secret /\ MyKey(Peer(n)) \in contactRow[n].secret
      BY <2>1
    <3>4. PICK x, y : contactRow[n].secret = {x, y}
      BY <3>2 DEF Derived
    <3>5. contactRow[n].secret = {MyKey(n), MyKey(Peer(n))}
      BY <3>2, <3>3, <3>4
    <3> QED BY <3>1, <3>5
  <2>2. ASSUME NEW n \in Nodes PROVE chains[n].secret = chains[Peer(n)].secret
    <3>1. chains[Peer(n)].secret = {MyKey(Peer(n)), MyKey(Peer(Peer(n)))}
      BY <2>1, PeerOfPeer
    <3>2. {MyKey(Peer(n)), MyKey(Peer(Peer(n)))} = {MyKey(n), MyKey(Peer(n))}
      BY PeerOfPeer
    <3> QED BY <2>1, <3>1, <3>2
  <2> QED BY <2>1, <2>2
<1> QED BY <1>1, HandshakeAlways, PTL

\* The statuses, paths, steps and counters of the handshake.
CallsTyped ==
  /\ \A n \in Nodes : contactRow[n] # NoRow =>
       contactRow[n].status \in {"pending_outgoing", "pending_incoming", "accepted"}
  /\ \A p \in onion : p.path \in {"handshake", "accept"}
  /\ \A t \in threads : t.pc \in ThreadSteps
  /\ DOMAIN chains = Nodes /\ \A n \in Nodes : chains[n] # NoRow => chains[n].secret \in SUBSET Keys
  /\ adds \in [Nodes -> 0..MaxAdds] /\ accepts \in [Nodes -> 0..MaxAccepts]
  /\ faults \subseteq {"lost", "crash", "delete", "restart"} /\ overtaken \subseteq Nodes

LEMMA CallsStep ==
  ASSUME CallsTyped, HandshakeInv, [LegacyContactsNext]_legacyContactVars
  PROVE  CallsTyped'
<1> USE LegacyContactsAssumption DEF CallsTyped, ThreadSteps
<1>a. DOMAIN contactRow = Nodes /\ \A n \in Nodes : contactRow[n] # NoRow =>
        DOMAIN contactRow[n] = {"status", "secret", "key"}
  BY DEF HandshakeInv, RowsDerived
<1>b. \A t \in threads : t.node \in Nodes /\ DOMAIN t = {"node", "pc", "key", "peer", "secret", "client", "no"}
  BY DEF HandshakeInv, ThreadsDerived
<1>c. \A t \in threads : t.pc \in {"assign", "late"} => t.secret \in SUBSET Keys
  <2> SUFFICES ASSUME NEW t \in threads, t.pc \in {"assign", "late"} PROVE t.secret \in SUBSET Keys
    OBVIOUS
  <2>1. t.node \in Nodes /\ Derived(t.node, t.secret) /\ ClientsNumbered
    BY DEF HandshakeInv, ThreadsDerived
  <2>2. PICK c \in 0..client[t.node], k \in PeerKeys(t.node) : t.secret = {<<t.node, c>>, k}
    BY <2>1 DEF Derived
  <2> QED BY <2>1, <2>2, DerivedPresent
<1>1. ASSUME NEW n \in Nodes, AddContact(n) PROVE CallsTyped'
  BY <1>1, <1>a DEF AddContact, AddRow, Row, Thread
<1>1a. ASSUME NEW t \in threads, AddContactConfig(t) PROVE CallsTyped'
  BY <1>1a, <1>b DEF AddContactConfig
<1>2. ASSUME NEW n \in Nodes, ReadAndDerive(n) PROVE CallsTyped'
  BY <1>2 DEF ReadAndDerive, Thread
<1>3. ASSUME NEW n \in Nodes, DeleteContact(n) PROVE CallsTyped'
  BY <1>3, <1>a DEF DeleteContact, Fault
<1>4. ASSUME NEW n \in Nodes, RestartClient(n) PROVE CallsTyped'
  BY <1>4 DEF RestartClient, Fault
<1>5. ASSUME NEW n \in Nodes, CrashNode(n) PROVE CallsTyped'
  BY <1>5 DEF CrashNode, Fault
<1>6. ASSUME NEW t \in threads, AcceptLookup(t) PROVE CallsTyped'
  BY <1>6, <1>b DEF AcceptLookup
<1>7. ASSUME NEW t \in threads, AcceptSave(t) PROVE CallsTyped'
  <2>1. \A u \in threads' : u.pc \in ThreadSteps /\ (u.pc \in {"assign", "late"} => u \in threads)
    BY <1>7, <1>b DEF AcceptSave
  <2> QED BY <1>7, <1>a, <1>b, <2>1 DEF AcceptSave, UpdateContactSecret
<1>7a. ASSUME NEW t \in threads, StoreDerived(t) PROVE CallsTyped'
  BY <1>7a, <1>a, <1>b DEF StoreDerived, UpdateContactSecret
<1>8. ASSUME NEW t \in threads, FetchContacts(t) PROVE CallsTyped'
  <2> DEFINE outdated == {u \in threads : u.node = t.node /\ u.pc = "assign"}
             lates == {[u EXCEPT !.pc = "late"] : u \in outdated}
  <2>1. PICK w : /\ w.pc = "assign"
                 /\ threads' \subseteq threads \cup lates \cup {w}
    <3> DEFINE w == [t EXCEPT !.pc = "assign", !.secret = contactRow[t.node].secret,
                       !.key = IF myPubkeyFor[t.node] # NoRow THEN myPubkeyFor[t.node] ELSE MyKey(t.node),
                       !.peer = contactRow[t.node].key]
    <3>1. w.pc = "assign"
      BY <1>b
    <3>2. threads' \subseteq threads \cup lates \cup {w}
      BY <1>8 DEF FetchContacts
    <3> QED BY <3>1, <3>2
  <2>1a. \A u \in lates : u.pc = "late"
    BY <1>b
  <2> HIDE DEF lates
  <2>2. \A u \in threads' : u.pc \in ThreadSteps
    BY <2>1, <2>1a
  <2> QED BY <1>8, <2>2 DEF FetchContacts
<1>8a. ASSUME NEW t \in threads, AssignSession(t) PROVE CallsTyped'
  <2>1. t.node \in Nodes /\ t.secret \in SUBSET Keys
    BY <1>8a, <1>b, <1>c DEF AssignSession
  <2> QED BY <1>8a, <2>1 DEF AssignSession
<1>9. ASSUME NEW t \in threads, HandshakeSecret(t) PROVE CallsTyped'
  BY <1>9, <1>a, <1>b DEF HandshakeSecret, UpdateContactSecret
<1>10. ASSUME NEW t \in threads, HandshakeStatus(t) PROVE CallsTyped'
  BY <1>10, <1>a, <1>b DEF HandshakeStatus, UpdateContactStatus
<1>11. ASSUME NEW p \in onion, HandshakeInsert(p) PROVE CallsTyped'
  BY <1>11, <1>a DEF HandshakeInsert, AddRow, Row, Thread
<1>12. ASSUME NEW p \in onion, P2PAccept(p) \/ PostLost(p) PROVE CallsTyped'
  BY <1>12 DEF P2PAccept, PostLost, Fault
<1>13. ASSUME NEW e \in uiEvents, OnHandshakeAccepted(e) PROVE CallsTyped'
  BY <1>13 DEF OnHandshakeAccepted, Thread
<1>14. CASE UNCHANGED legacyContactVars
  BY <1>14 DEF legacyContactVars
<1> QED BY <1>1, <1>1a, <1>2, <1>3, <1>4, <1>5, <1>6, <1>7, <1>7a, <1>8, <1>8a, <1>9, <1>10, <1>11, <1>12, <1>13, <1>14
        DEF LegacyContactsNext

\* The type invariant of the legacy handshake: rows, sessions, posts and threads.
THEOREM HandshakeTyped == LegacyContactsSpec => []LegacyContactsTypeOK
<1>1. LegacyContactsInit => CallsTyped
  BY LegacyContactsAssumption DEF LegacyContactsInit, CallsTyped
<1>2. CallsTyped /\ HandshakeInv /\ [LegacyContactsNext]_legacyContactVars => CallsTyped'
  BY CallsStep
<1>3. CallsTyped /\ HandshakeInv => LegacyContactsTypeOK
  <2> SUFFICES ASSUME CallsTyped, HandshakeInv PROVE LegacyContactsTypeOK
    OBVIOUS
  <2>1. ASSUME NEW n \in Nodes, contactRow[n] # NoRow
        PROVE  contactRow[n].secret \in {NoRow} \cup SUBSET Keys /\ contactRow[n].key \in Keys \cup {NoRow}
    <3>1. contactRow[n].key \in PeerKeys(n) \cup {NoRow}
      BY <2>1 DEF HandshakeInv, RowsDerived
    <3>2. CASE contactRow[n].secret # NoRow
      <4>1. Derived(n, contactRow[n].secret) /\ ClientsNumbered
        BY <2>1, <3>2 DEF HandshakeInv, RowsDerived
      <4>2. PICK c \in 0..client[n], k \in PeerKeys(n) : contactRow[n].secret = {<<n, c>>, k}
        BY <4>1 DEF Derived
      <4> QED BY <3>1, <4>1, <4>2, DerivedPresent DEF PeerKeys
    <3> QED BY <3>1, <3>2 DEF PeerKeys
  <2>2. myPubkeyFor \in [Nodes -> Keys \cup {NoRow}] /\ client \in [Nodes -> 0..MaxRestarts]
    BY DEF HandshakeInv, ClientsNumbered
  <2>3. /\ \A p \in onion : p.to \in Nodes /\ p.key \in Keys
        /\ \A e \in uiEvents : e.node \in Nodes /\ e.key \in Keys
        /\ \A t \in threads : t.node \in Nodes
    BY DEF HandshakeInv, PostsOfPeers, ThreadsDerived, PeerKeys
  <2> QED BY <2>1, <2>2, <2>3 DEF CallsTyped, LegacyContactsTypeOK
<1> QED BY <1>1, <1>2, <1>3, HandshakeAlways, PTL DEF LegacyContactsSpec

\* The type invariant of the edits of a message (update_message_text and
\* add_message_edit of database.py).
THEOREM EditsTyped == EditsSpec => []EditsTypeOK
<1>1. EditsInit => EditsTypeOK
  BY DEF EditsInit, EditsTypeOK
<1>2. EditsTypeOK /\ [EditsNext]_editVars => EditsTypeOK'
  <2> SUFFICES ASSUME EditsTypeOK, [EditsNext]_editVars PROVE EditsTypeOK'
    OBVIOUS
  <2> USE DEF EditsTypeOK
  <2>1. ASSUME NEW r \in RowIds, StoreRow(r) PROVE EditsTypeOK'
    BY <2>1 DEF StoreRow, TextsOf
  <2>2. CASE DeleteRows
    BY <2>2 DEF DeleteRows
  <2>3. ASSUME NEW e \in Editors, SelectRow(e) PROVE EditsTypeOK'
    BY <2>3 DEF SelectRow
  <2>4. ASSUME NEW e \in Editors, AddMessageEdit(e) PROVE EditsTypeOK'
    BY <2>4 DEF AddMessageEdit
  <2>5. ASSUME NEW e \in Editors, UpdateMessageText(e) PROVE EditsTypeOK'
    BY <2>5 DEF UpdateMessageText, TextsOf
  <2>6. CASE UNCHANGED editVars
    BY <2>6 DEF editVars
  <2> QED BY <2>1, <2>2, <2>3, <2>4, <2>5, <2>6 DEF EditsNext
<1> QED BY <1>1, <1>2, PTL DEF EditsSpec

\* What the request r of a group is about: a member, or an invite.
ArgOf(r) ==
  /\ handler[r].op \in {"free", "found", "post", "redeem"}
  /\ handler[r].op \in {"found", "post"} => handler[r].arg \in Members
  /\ handler[r].op = "redeem" => handler[r].arg \in Invites

HandlersTyped == DOMAIN handler = Requests /\ \A r \in Requests : ArgOf(r)

\* The type invariant of groups and channels (the group routes of the legacy server).
THEOREM GroupsTyped == GroupsSpec => []GroupsTypeOK
<1> DEFINE Inv == GroupsTypeOK /\ HandlersTyped
<1>1. GroupsInit => Inv
  <2> SUFFICES ASSUME GroupsInit PROVE Inv
    OBVIOUS
  <2>1. HandlersTyped
    BY DEF GroupsInit, HandlersTyped, ArgOf, Free
  <2>2. used \in [Invites -> {"absent", "open", "used"}]
    BY DEF GroupsInit
  <2>3. group = Nobody /\ roles = {} /\ posts = {} /\ vouches = {} /\ unseenGroup \in BOOLEAN
    BY DEF GroupsInit
  <2> QED BY <2>1, <2>2, <2>3 DEF GroupsTypeOK, HandlersTyped, ArgOf
<1>2. Inv /\ [GroupsNext]_groupVars => Inv'
  <2> SUFFICES ASSUME Inv, [GroupsNext]_groupVars PROVE Inv'
    OBVIOUS
  <2> USE DEF GroupsTypeOK, HandlersTyped, ArgOf, Free
  <2>1. ASSUME NEW r \in Requests, NEW s \in Members, CheckPost(r, s) PROVE Inv'
    BY <2>1 DEF CheckPost
  <2>2. ASSUME NEW r \in Requests, NEW f \in Members, NEW c \in BOOLEAN, CreateGroup(r, f, c)
        PROVE  Inv'
    BY <2>2 DEF CreateGroup
  <2>3. ASSUME NEW r \in Requests, NEW i \in Invites, LookUpInvite(r, i) PROVE Inv'
    BY <2>3 DEF LookUpInvite
  <2>4. ASSUME NEW r \in Requests, AddFounder(r) PROVE Inv'
    BY <2>4 DEF AddFounder, PutMember, Roles
  <2>5. ASSUME NEW r \in Requests, SaveGroupMessage(r) PROVE Inv'
    BY <2>5 DEF SaveGroupMessage
  <2>6. ASSUME NEW r \in Requests, MarkInviteUsed(r) PROVE Inv'
    BY <2>6 DEF MarkInviteUsed
  <2>7. ASSUME NEW m \in Members, RemoveGroupMember(m) PROVE Inv'
    BY <2>7 DEF RemoveGroupMember
  <2>8. ASSUME NEW m \in Members, NEW role \in Roles, AddGroupMember(m, role) PROVE Inv'
    BY <2>8 DEF AddGroupMember, PutMember
  <2>9. ASSUME NEW i \in Invites, CreateGroupInvite(i) PROVE Inv'
    BY <2>9 DEF CreateGroupInvite
  <2>10. ASSUME NEW a \in Members, NEW b \in Members, AddMemberVouch(a, b) PROVE Inv'
    BY <2>10 DEF AddMemberVouch
  <2>11. CASE UNCHANGED groupVars
    BY <2>11 DEF groupVars
  <2> QED BY <2>1, <2>2, <2>3, <2>4, <2>5, <2>6, <2>7, <2>8, <2>9, <2>10, <2>11 DEF GroupsNext
<1> QED BY <1>1, <1>2, PTL DEF GroupsSpec

(***************************************************************************)
(* The connection pool.                                                    *)
(***************************************************************************)
Connections == [home : Int, into : Int]

\* What a thread holds at each step of get_connection and of the functions that
\* use it.  A connection of the newest pool goes back to it, or to None.
HoldsByStep(x, n) ==
  /\ DOMAIN x = {"pc", "kind", "pool", "held"}
  /\ x.pc \in {"rest", "read", "take", "wait", "wrap", "run", "finish"} /\ x.kind \in Kinds
  /\ x.pool \in 0..n /\ (x.pc \in {"take", "wait"} => x.pool >= 1)
  /\ x.held \in Seq(Connections) /\ Len(x.held) \in 0..2
  /\ x.pc = "rest" => Len(x.held) = 0
  /\ x.pc \in {"read", "take", "wait"} => Len(x.held) <= 1 /\ (x.kind # "edit" => Len(x.held) = 0)
  /\ x.pc \in {"wrap", "run"} => Len(x.held) >= 1 /\ (x.kind # "edit" => Len(x.held) = 1)
  /\ x.pc = "finish" => Len(x.held) = 1 /\ x.kind = "edit"
  /\ \A i \in 1..Len(x.held) :
       /\ x.held[i].home \in 0..n /\ x.held[i].into \in -1..n
       /\ x.held[i].home = n => x.held[i].into \in {-1, 0, n}
       /\ x.held[i].into = -1 => x.pc = "wrap" /\ i = Len(x.held)

HeldByStep == DOMAIN thread = Threads /\ \A t \in Threads : HoldsByStep(thread[t], poolNo)

\* Pools not yet made have no connections.
PoolNumbers ==
  /\ ownIdle \in [Pools -> Nat] /\ foreignIdle \in [Pools -> Nat] /\ opened \in [Pools -> Int]
  /\ lost \in Nat /\ refused \in Nat /\ poolFaults \in 0..MaxPoolFaults
  /\ poolNo \in 0..(MaxCloses + 1) /\ current \in {0, poolNo}
  /\ \A p \in Pools : opened[p] <= MaxConnections
  /\ \A p \in Pools : p > poolNo => ownIdle[p] = 0 /\ opened[p] = 0

PoolPhase ==
  /\ closing \in BOOLEAN
  /\ closing => current # 0 /\ poolNo <= MaxCloses
  /\ current = 0 => poolNo <= MaxCloses

\* The connections of the newest pool that no thread holds, less those counted.
Surplus == ownIdle[poolNo] + lost - opened[poolNo] - refused

InUse == current # 0 /\ ~closing

Balance == InUse => Surplus + Cardinality(Held) = 0

PoolInv == HeldByStep /\ PoolNumbers /\ PoolPhase /\ Balance

LEMMA PairsEqual ==
  ASSUME NEW H \in SUBSET (Threads \X (1..2)), NEW G \in SUBSET (Threads \X (1..2)),
         \A u \in Threads, i \in 1..2 : <<u, i>> \in H <=> <<u, i>> \in G
  PROVE  H = G
<1>1. \A h \in Threads \X (1..2) : h = <<h[1], h[2]>> /\ h[1] \in Threads /\ h[2] \in 1..2
  OBVIOUS
<1>2. ASSUME NEW h \in Threads \X (1..2) PROVE h \in H <=> h \in G
  <2>1. PICK u \in Threads, i \in 1..2 : h = <<u, i>>
    BY <1>1
  <2> QED BY <2>1
<1> QED BY <1>2

LEMMA HeldPairs == Held \in SUBSET (Threads \X (1..2)) /\ Held' \in SUBSET (Threads \X (1..2))
BY DEF Held

LEMMA OneTwo == IsFiniteSet({1, 2}) /\ Cardinality({1, 2}) = 2
<1>1. IsFiniteSet({1}) /\ Cardinality({1}) = 1
  BY FS_Singleton, Zenon
<1>2. 2 \notin {1} /\ {1, 2} = {1} \cup {2}
  OBVIOUS
<1>3. IsFiniteSet({1} \cup {2}) /\ Cardinality({1} \cup {2}) = IF 2 \in {1} THEN Cardinality({1}) ELSE Cardinality({1}) + 1
  BY <1>1, FS_AddElement, Zenon
<1> QED BY <1>1, <1>2, <1>3

LEMMA HeldFinite ==
  /\ IsFiniteSet(Held) /\ Cardinality(Held) \in Nat
  /\ IsFiniteSet(Held') /\ Cardinality(Held') \in Nat
<1>0. 1..2 = {1, 2}
  OBVIOUS
<1>1. IsFiniteSet(1..2)
  BY <1>0, OneTwo
<1>2. IsFiniteSet(Threads \X (1..2))
  BY <1>1, FS_Product, LegacyPoolAssumption
<1>3. ASSUME NEW H \in SUBSET (Threads \X (1..2)) PROVE IsFiniteSet(H) /\ Cardinality(H) \in Nat
  BY <1>2, FS_Subset, FS_CardinalityType
<1> QED BY <1>3, HeldPairs

\* The step of thread t changes only what t holds, of the same pool.
OnlyHeldBy(t) ==
  /\ poolNo' = poolNo /\ DOMAIN thread' = Threads
  /\ \A u \in Threads \ {t} : thread'[u] = thread[u]

LEMMA HeldSame ==
  ASSUME HeldByStep, NEW t \in Threads, OnlyHeldBy(t), Len(thread'[t].held) = Len(thread[t].held),
         \A i \in 1..Len(thread[t].held) : thread'[t].held[i].home = thread[t].held[i].home
  PROVE  Held' = Held
<1>0. Len(thread[t].held) \in 0..2
  BY DEF HeldByStep, HoldsByStep
<1>1. ASSUME NEW u \in Threads, NEW i \in 1..2 PROVE <<u, i>> \in Held' <=> <<u, i>> \in Held
  <2>1. CASE u # t
    BY <1>1, <2>1 DEF Held, OnlyHeldBy
  <2>2. CASE u = t
    BY <1>0, <1>1, <2>2 DEF Held, OnlyHeldBy
  <2> QED BY <2>1, <2>2
<1> QED BY <1>1, HeldPairs, PairsEqual

\* A connection that is taken counts once, if the newest pool made it.
LEMMA HeldOneMore ==
  ASSUME HeldByStep, NEW t \in Threads, OnlyHeldBy(t), NEW c \in Connections,
         Len(thread[t].held) <= 1, thread'[t].held = Append(thread[t].held, c)
  PROVE  Cardinality(Held') = Cardinality(Held) + (IF c.home = poolNo THEN 1 ELSE 0)
<1> DEFINE n == Len(thread[t].held)
<1>1. /\ n \in 0..1 /\ thread[t].held \in Seq(Connections)
      /\ Len(thread'[t].held) = n + 1 /\ thread'[t].held[n + 1] = c
      /\ \A i \in 1..n : thread'[t].held[i] = thread[t].held[i]
  BY DEF HeldByStep, HoldsByStep
<1> HIDE DEF n
<1>2. <<t, n + 1>> \notin Held
  BY <1>1 DEF Held, n
<1>3. ASSUME NEW u \in Threads, NEW i \in 1..2
      PROVE  <<u, i>> \in Held' <=> <<u, i>> \in Held \/ (u = t /\ i = n + 1 /\ c.home = poolNo)
  <2>1. CASE u # t
    BY <1>3, <2>1 DEF Held, OnlyHeldBy
  <2>2. CASE u = t
    BY <1>1, <1>3, <2>2 DEF Held, OnlyHeldBy, n
  <2> QED BY <2>1, <2>2
<1>4. n + 1 \in 1..2
  BY <1>1
<1>5. CASE c.home = poolNo
  <2>1. Held \cup {<<t, n + 1>>} \in SUBSET (Threads \X (1..2))
    BY <1>4, HeldPairs
  <2>2. \A u \in Threads, i \in 1..2 : <<u, i>> \in Held' <=> <<u, i>> \in Held \cup {<<t, n + 1>>}
    BY <1>3, <1>5
  <2>3. Held' = Held \cup {<<t, n + 1>>}
    BY <2>1, <2>2, HeldPairs, PairsEqual
  <2> QED BY <1>2, <1>5, <2>3, HeldFinite, FS_AddElement
<1>6. CASE c.home # poolNo
  <2>1. Held' = Held
    BY <1>3, <1>6, HeldPairs, PairsEqual
  <2> QED BY <1>6, <2>1, HeldFinite
<1> QED BY <1>5, <1>6

\* A thread that gives up what it holds gives up as many as OfPool says.
LEMMA HeldNoMore ==
  ASSUME HeldByStep, NEW t \in Threads, OnlyHeldBy(t), thread'[t].held = <<>>
  PROVE  Cardinality(Held) = Cardinality(Held') + OfPool(t) /\ OfPool(t) \in Nat
<1> DEFINE A == {i \in DOMAIN thread[t].held : thread[t].held[i].home = poolNo}
           H1 == Held \ {<<t, 1>>}
<1>1. /\ thread[t].held \in Seq(Connections) /\ Len(thread[t].held) \in 0..2
      /\ DOMAIN thread[t].held = 1..Len(thread[t].held)
  BY DEF HeldByStep, HoldsByStep
<1>2. A \subseteq {1, 2}
  BY <1>1
<1>3. \A i \in {1, 2} : i \in A <=> <<t, i>> \in Held
  BY <1>1 DEF Held
<1>4. Held' = H1 \ {<<t, 2>>}
  <2>1. ASSUME NEW u \in Threads, NEW i \in 1..2
        PROVE  <<u, i>> \in Held' <=> <<u, i>> \in Held /\ u # t
    BY <2>1 DEF Held, OnlyHeldBy
  <2>2. H1 \ {<<t, 2>>} \in SUBSET (Threads \X (1..2))
    BY HeldPairs
  <2>3. ASSUME NEW u \in Threads, NEW i \in 1..2
        PROVE  <<u, i>> \in H1 \ {<<t, 2>>} <=> <<u, i>> \in Held /\ u # t
    <3>1. i = 1 \/ i = 2
      OBVIOUS
    <3>2. \A v : <<u, i>> = <<t, v>> <=> u = t /\ i = v
      OBVIOUS
    <3> QED BY <3>1, <3>2
  <2> QED BY <2>1, <2>2, <2>3, HeldPairs, PairsEqual
<1>5. Cardinality(H1) = IF 1 \in A THEN Cardinality(Held) - 1 ELSE Cardinality(Held)
  <2>1. CASE 1 \in A
    BY <1>3, <2>1, HeldFinite, FS_RemoveElement
  <2>2. CASE 1 \notin A
    <3>1. H1 = Held
      BY <1>3, <2>2
    <3> QED BY <2>2, <3>1
  <2> QED BY <2>1, <2>2
<1>6. IsFiniteSet(H1) /\ Cardinality(H1) \in Nat /\ (<<t, 2>> \in H1 <=> <<t, 2>> \in Held)
  BY HeldFinite, FS_Subset, FS_CardinalityType
<1>7. Cardinality(Held') = IF 2 \in A THEN Cardinality(H1) - 1 ELSE Cardinality(H1)
  <2>1. CASE 2 \in A
    <3>1. <<t, 2>> \in H1
      BY <1>3, <1>6, <2>1
    <3>2. Cardinality(H1 \ {<<t, 2>>}) = Cardinality(H1) - 1
      BY <1>6, <3>1, FS_RemoveElement, Zenon
    <3> QED BY <1>4, <2>1, <3>2
  <2>2. CASE 2 \notin A
    <3>1. Held' = H1
      BY <1>3, <1>4, <1>6, <2>2
    <3> QED BY <2>2, <3>1
  <2> QED BY <2>1, <2>2
<1>8. Cardinality(A) = (IF 1 \in A THEN 1 ELSE 0) + (IF 2 \in A THEN 1 ELSE 0)
  <2>1. A = {} \/ A = {1} \/ A = {2} \/ A = {1, 2}
    BY <1>2
  <2>2. Cardinality({}) = 0 /\ Cardinality({1}) = 1 /\ Cardinality({2}) = 1
    BY FS_EmptySet, FS_Singleton, Zenon
  <2> HIDE DEF A
  <2>3. CASE A = {}
    BY <2>2, <2>3
  <2>4. CASE A = {1}
    BY <2>2, <2>4
  <2>5. CASE A = {2}
    BY <2>2, <2>5
  <2>6. CASE A = {1, 2}
    BY <2>6, OneTwo
  <2> QED BY <2>1, <2>3, <2>4, <2>5, <2>6
<1> HIDE DEF A, H1
<1> QED BY <1>5, <1>6, <1>7, <1>8, HeldFinite DEF OfPool, A

\* The second connection that is put back is counted off.
LEMMA HeldOneLess ==
  ASSUME HeldByStep, NEW t \in Threads, OnlyHeldBy(t), Len(thread[t].held) = 2,
         thread'[t].held = Front(thread[t].held)
  PROVE  Cardinality(Held) = Cardinality(Held') + (IF thread[t].held[2].home = poolNo THEN 1 ELSE 0)
<1>1. Len(thread'[t].held) = 1 /\ thread'[t].held[1] = thread[t].held[1]
  BY DEF HeldByStep, HoldsByStep, Front
<1>2. ASSUME NEW u \in Threads, NEW i \in 1..2
      PROVE  <<u, i>> \in Held' <=> <<u, i>> \in Held \ {<<t, 2>>}
  <2>1. CASE u # t
    BY <1>2, <2>1 DEF Held, OnlyHeldBy
  <2>2. CASE u = t
    BY <1>1, <1>2, <2>2 DEF Held, OnlyHeldBy
  <2> QED BY <2>1, <2>2
<1>3. Held \ {<<t, 2>>} \in SUBSET (Threads \X (1..2))
  BY HeldPairs
<1>4. Held' = Held \ {<<t, 2>>}
  BY <1>2, <1>3, HeldPairs, PairsEqual
<1>5. CASE thread[t].held[2].home = poolNo
  <2>1. <<t, 2>> \in Held
    BY <1>5 DEF Held
  <2> QED BY <1>4, <1>5, <2>1, HeldFinite, FS_RemoveElement
<1>6. CASE thread[t].held[2].home # poolNo
  <2>1. <<t, 2>> \notin Held
    BY <1>6 DEF Held
  <2>2. Held' = Held
    BY <1>4, <2>1
  <2> QED BY <1>6, <2>2, HeldFinite
<1> QED BY <1>5, <1>6

\* A thread that holds one connection puts or leaves one.
LEMMA OfPoolOne ==
  ASSUME HeldByStep, NEW t \in Threads, Len(thread[t].held) = 1
  PROVE  OfPool(t) = IF thread[t].held[1].home = poolNo THEN 1 ELSE 0
<1>1. DOMAIN thread[t].held = {1}
  BY DEF HeldByStep, HoldsByStep
<1>2. Cardinality({}) = 0 /\ Cardinality({1}) = 1
  BY FS_EmptySet, FS_Singleton, Zenon
<1>3. CASE thread[t].held[1].home = poolNo
  <2>1. {i \in DOMAIN thread[t].held : thread[t].held[i].home = poolNo} = {1}
    BY <1>1, <1>3
  <2> QED BY <1>2, <1>3, <2>1 DEF OfPool
<1>4. CASE thread[t].held[1].home # poolNo
  <2>1. {i \in DOMAIN thread[t].held : thread[t].held[i].home = poolNo} = {}
    BY <1>1, <1>4
  <2> QED BY <1>2, <1>4, <2>1 DEF OfPool
<1> QED BY <1>3, <1>4

LEMMA RestingHolds == ASSUME NEW n \in Nat PROVE HoldsByStep(Resting, n)
<1>1. /\ DOMAIN Resting = {"pc", "kind", "pool", "held"} /\ Resting.pc = "rest"
      /\ Resting.kind \in Kinds /\ Resting.pool = 0 /\ Resting.held = <<>>
  BY DEF Resting, Kinds
<1>2. Len(<<>>) = 0 /\ <<>> \in Seq(Connections)
  OBVIOUS
<1> QED BY <1>1, <1>2 DEF HoldsByStep

\* A step in which thread t comes to rest keeps what is known of the threads.
LEMMA RestKeeps ==
  ASSUME HeldByStep, PoolNumbers, NEW t \in Threads,
         thread' = [thread EXCEPT ![t] = Resting], poolNo' = poolNo
  PROVE  HeldByStep' /\ OnlyHeldBy(t) /\ thread'[t].held = <<>>
<1>1. OnlyHeldBy(t) /\ thread'[t] = Resting /\ Resting.held = <<>>
  BY DEF HeldByStep, OnlyHeldBy, Resting
<1>2. poolNo \in Nat
  BY DEF PoolNumbers
<1> QED BY <1>1, <1>2, RestingHolds DEF HeldByStep, OnlyHeldBy

\* A step that keeps the pool in use keeps its account, when what threads give up
\* or take is what the pool gets or loses.
LEMMA Balanced ==
  ASSUME Balance, PoolPhase, PoolNumbers, PoolNumbers',
         current' = current, closing' = closing, poolNo' = poolNo,
         InUse => Surplus' + Cardinality(Held') = Surplus + Cardinality(Held)
  PROVE  Balance' /\ PoolPhase'
<1>1. InUse' = InUse
  BY DEF InUse
<1>2. PoolPhase'
  BY Zenon DEF PoolPhase
<1> QED BY <1>1, <1>2 DEF Balance

\* What close() does to the account of the newest pool.
LEMMA PutKeeps ==
  ASSUME NEW c, PoolNumbers, Put(c), c.home \in 0..poolNo, c.into \in 0..poolNo,
         c.home = poolNo => c.into \in {0, poolNo},
         poolNo' = poolNo, current' = current, poolFaults' \in 0..MaxPoolFaults
  PROVE  PoolNumbers' /\ (InUse => Surplus' = Surplus + (IF c.home = poolNo THEN 1 ELSE 0))
<1> USE LegacyPoolAssumption
<1>0. c.into # 0 => c.into \in Pools
  BY DEF PoolNumbers, Pools
<1>a. InUse => poolNo \in Pools
  BY DEF PoolNumbers, Pools, InUse
<1>1. CASE /\ c.into = 0 /\ lost' = (IF c.home = poolNo THEN lost + 1 ELSE lost)
           /\ UNCHANGED <<ownIdle, foreignIdle, opened, refused>>
  <2>1. PoolNumbers'
    BY <1>1 DEF PoolNumbers
  <2> QED BY <1>1, <1>a, <2>1 DEF PoolNumbers, Surplus
<1>2. CASE /\ c.into # 0
           /\ ownIdle[c.into] + foreignIdle[c.into] < MaxConnections
           /\ IF c.home = c.into
              THEN ownIdle' = [ownIdle EXCEPT ![c.into] = @ + 1] /\ UNCHANGED foreignIdle
              ELSE foreignIdle' = [foreignIdle EXCEPT ![c.into] = @ + 1] /\ UNCHANGED ownIdle
           /\ UNCHANGED <<opened, refused, lost>>
  <2>1. PoolNumbers'
    <3>1. CASE c.home = c.into
      BY <1>0, <1>2, <3>1 DEF PoolNumbers
    <3>2. CASE c.home # c.into
      BY <1>0, <1>2, <3>2 DEF PoolNumbers
    <3> QED BY <3>1, <3>2
  <2> QED BY <1>0, <1>2, <1>a, <2>1 DEF PoolNumbers, Surplus
<1>3. CASE /\ c.into # 0
           /\ opened' = [opened EXCEPT ![c.into] = @ - 1]
           /\ refused' = (IF c.home # c.into /\ c.into = poolNo THEN refused + 1 ELSE refused)
           /\ UNCHANGED <<ownIdle, foreignIdle, lost>>
  <2>0. ASSUME NEW p \in Pools PROVE opened'[p] <= MaxConnections /\ (p > poolNo => opened'[p] = 0)
    BY <1>0, <1>3 DEF PoolNumbers
  <2>1. PoolNumbers'
    BY <1>0, <1>3, <2>0 DEF PoolNumbers
  <2>2. InUse => opened'[poolNo] = IF c.into = poolNo THEN opened[poolNo] - 1 ELSE opened[poolNo]
    BY <1>0, <1>3, <1>a DEF PoolNumbers
  <2> QED BY <1>0, <1>3, <1>a, <2>1, <2>2 DEF PoolNumbers, Surplus
<1>4. c.into # 0 => ownIdle[c.into] + foreignIdle[c.into] \in Nat
  BY <1>0 DEF PoolNumbers
<1>5. c.into # 0 => (~(ownIdle[c.into] + foreignIdle[c.into] >= MaxConnections)
                    => ownIdle[c.into] + foreignIdle[c.into] < MaxConnections)
  BY <1>4
<1> QED BY <1>1, <1>2, <1>3, <1>5, Zenon DEF Put

\* A pool that is made starts with nothing.
LEMMA CheckPoolKeeps ==
  ASSUME PoolInv, CheckPool, UNCHANGED <<closing, ownIdle, foreignIdle, opened, poolFaults>>,
         HeldByStep', poolNo' = poolNo => Held' = Held,
         \A t \in Threads, i \in 1..2 : i <= Len(thread'[t].held) => thread'[t].held[i].home <= poolNo
  PROVE  PoolInv'
<1> USE LegacyPoolAssumption
<1>1. CASE current # 0
  <2>1. UNCHANGED <<current, poolNo, lost, refused>> /\ Held' = Held
    BY <1>1 DEF CheckPool
  <2>2. PoolNumbers' /\ Surplus' = Surplus
    BY <2>1 DEF PoolInv, PoolNumbers, Surplus
  <2> QED BY <2>1, <2>2, Balanced DEF PoolInv
<1>2. CASE current = 0
  <2>1. /\ poolNo' = poolNo + 1 /\ current' = poolNo + 1 /\ lost' = 0 /\ refused' = 0
        /\ poolNo \in 0..MaxCloses /\ ~closing /\ closing' = closing
    BY <1>2 DEF CheckPool, PoolInv, PoolNumbers, PoolPhase
  <2>7. poolNo + 1 \in Pools /\ ownIdle[poolNo + 1] = 0 /\ opened[poolNo + 1] = 0
    BY <2>1 DEF PoolInv, PoolNumbers, Pools
  <2>2. PoolNumbers'
    <3>1. \A p \in Pools : p \in Int /\ (p > poolNo + 1 => p > poolNo)
      BY <2>1 DEF Pools
    <3> QED BY <2>1, <3>1 DEF PoolInv, PoolNumbers
  <2>3. PoolPhase'
    <3>1. closing' = FALSE /\ current' # 0
      BY <2>1
    <3> QED BY <3>1 DEF PoolPhase
  <2>4. Held' = {}
    BY <2>1 DEF Held
  <2>5. Cardinality(Held') = 0
    BY <2>4, FS_EmptySet
  <2>6. Surplus' = 0
    BY <2>1, <2>7 DEF Surplus
  <2> QED BY <2>2, <2>3, <2>5, <2>6 DEF PoolInv, Balance
<1> QED BY <1>1, <1>2

\* A connection that get() returns belongs to the pool that was asked, or to an
\* older one.
LEMMA TakenKeeps ==
  ASSUME PoolInv, NEW t \in Threads, thread[t].pc \in {"take", "wait"}, NEW h \in 0..poolNo,
         Taken(t, h), poolNo' = poolNo
  PROVE  HeldByStep' /\ Cardinality(Held') = Cardinality(Held) + (IF h = poolNo THEN 1 ELSE 0)
<1> DEFINE c == [home |-> h, into |-> Unwrapped]
<1>0. HeldByStep /\ HoldsByStep(thread[t], poolNo) /\ poolNo \in Nat
  BY DEF PoolInv, HeldByStep, PoolNumbers
<1>1. c \in Connections /\ c.home = h /\ c.into = -1
  BY <1>0 DEF Connections, Unwrapped
<1> HIDE DEF c
<1>2. /\ DOMAIN thread' = Threads /\ \A u \in Threads \ {t} : thread'[u] = thread[u]
      /\ DOMAIN thread'[t] = {"pc", "kind", "pool", "held"} /\ thread'[t].pc = "wrap"
      /\ thread'[t].kind = thread[t].kind /\ thread'[t].pool = thread[t].pool
      /\ thread'[t].held = Append(thread[t].held, c)
  BY <1>0 DEF Taken, HeldByStep, HoldsByStep, c
<1>3. /\ thread[t].held \in Seq(Connections) /\ Len(thread[t].held) <= 1 /\ Len(thread[t].held) \in Nat
      /\ thread[t].kind \in Kinds /\ thread[t].pool \in 0..poolNo
      /\ thread[t].kind # "edit" => Len(thread[t].held) = 0
  BY <1>0 DEF HoldsByStep
<1>4. /\ thread'[t].held \in Seq(Connections) /\ Len(thread'[t].held) = Len(thread[t].held) + 1
      /\ \A i \in 1..Len(thread[t].held) : thread'[t].held[i] = thread[t].held[i]
      /\ thread'[t].held[Len(thread[t].held) + 1] = c
  BY <1>1, <1>2, <1>3
<1>5. ASSUME NEW i \in 1..Len(thread'[t].held)
      PROVE  /\ thread'[t].held[i].home \in 0..poolNo /\ thread'[t].held[i].into \in -1..poolNo
             /\ thread'[t].held[i].home = poolNo => thread'[t].held[i].into \in {-1, 0, poolNo}
             /\ thread'[t].held[i].into = -1 => i = Len(thread'[t].held)
  <2>1. CASE i = Len(thread[t].held) + 1
    <3>1. thread'[t].held[i] = c /\ i = Len(thread'[t].held)
      BY <1>4, <2>1
    <3>2. c.home \in 0..poolNo /\ c.into \in -1..poolNo /\ c.into \in {-1, 0, poolNo}
      BY <1>0, <1>1
    <3> QED BY <3>1, <3>2
  <2>2. CASE i # Len(thread[t].held) + 1
    <3>1. i \in 1..Len(thread[t].held) /\ thread'[t].held[i] = thread[t].held[i]
      BY <1>3, <1>4, <2>2
    <3>2. thread[t].pc # "wrap"
      OBVIOUS
    <3> QED BY <1>0, <3>1, <3>2 DEF HoldsByStep
  <2> QED BY <2>1, <2>2
<1>6. HoldsByStep(thread'[t], poolNo)
  <2>1. Len(thread'[t].held) \in 1..2
    BY <1>3, <1>4
  <2> QED BY <1>2, <1>3, <1>4, <1>5, <2>1 DEF HoldsByStep
<1>7. HeldByStep'
  BY <1>0, <1>2, <1>6 DEF HeldByStep
<1>8. OnlyHeldBy(t)
  BY <1>2 DEF OnlyHeldBy
<1> QED BY <1>0, <1>1, <1>2, <1>3, <1>7, <1>8, HeldOneMore

\* An idle connection that is taken is held instead.
LEMMA IdleTaken ==
  ASSUME PoolInv, NEW t \in Threads, thread[t].pc \in {"take", "wait"}, TakeIdle(t, thread[t].pool),
         UNCHANGED <<current, poolNo, closing, opened, lost, refused, poolFaults>>
  PROVE  PoolInv'
<1> DEFINE p == thread[t].pool
<1>0. /\ p \in 1..poolNo /\ p \in Pools /\ poolNo \in Nat /\ (InUse => poolNo \in Pools)
      /\ Cardinality(Held) \in Nat
  <2>1. poolNo \in 0..(MaxCloses + 1) /\ MaxCloses \in Nat /\ current \in {0, poolNo}
    BY LegacyPoolAssumption DEF PoolInv, PoolNumbers
  <2>2. p \in 0..poolNo /\ p >= 1
    BY DEF PoolInv, HeldByStep, HoldsByStep
  <2> HIDE DEF p
  <2> QED BY <2>1, <2>2, HeldFinite DEF Pools, InUse
<1>1. CASE /\ ownIdle[p] > 0 /\ ownIdle' = [ownIdle EXCEPT ![p] = @ - 1]
           /\ Taken(t, p) /\ UNCHANGED foreignIdle
  <2>1. HeldByStep' /\ Cardinality(Held') = Cardinality(Held) + (IF p = poolNo THEN 1 ELSE 0)
    BY <1>0, <1>1, TakenKeeps
  <2>2. PoolNumbers'
    BY <1>0, <1>1 DEF PoolInv, PoolNumbers
  <2>3. InUse => Surplus' = Surplus - (IF p = poolNo THEN 1 ELSE 0) /\ Surplus \in Int
    BY <1>0, <1>1 DEF PoolInv, PoolNumbers, Surplus
  <2>4. InUse => Surplus' + Cardinality(Held') = Surplus + Cardinality(Held)
    BY <1>0, <2>1, <2>3
  <2> QED BY <2>1, <2>2, <2>4, Balanced DEF PoolInv
<1>2. CASE /\ foreignIdle[p] > 0 /\ foreignIdle' = [foreignIdle EXCEPT ![p] = @ - 1]
           /\ \E home \in 0..(p - 1) : Taken(t, home)
           /\ UNCHANGED ownIdle
  <2>0. PICK home \in 0..(p - 1) : Taken(t, home)
    BY <1>2
  <2>5. home \in 0..poolNo /\ home # poolNo
    BY <1>0
  <2>1. HeldByStep' /\ Cardinality(Held') = Cardinality(Held)
    BY <1>0, <2>0, <2>5, TakenKeeps
  <2>2. PoolNumbers'
    BY <1>0, <1>2 DEF PoolInv, PoolNumbers
  <2>4. Surplus' + Cardinality(Held') = Surplus + Cardinality(Held)
    BY <1>2, <2>1 DEF Surplus
  <2> QED BY <2>1, <2>2, <2>4, Balanced DEF PoolInv
<1> QED BY <1>1, <1>2 DEF TakeIdle

\* What a thread that gives up holds is lost.
LEMMA GivenUp ==
  ASSUME PoolInv, NEW t \in Threads, GiveUp(t), UNCHANGED <<current, poolNo, closing>>,
         poolFaults' \in 0..MaxPoolFaults
  PROVE  PoolInv'
<1>1. HeldByStep' /\ OnlyHeldBy(t) /\ thread'[t].held = <<>>
  BY RestKeeps DEF PoolInv, GiveUp
<1>2. Cardinality(Held) = Cardinality(Held') + OfPool(t) /\ OfPool(t) \in Nat
  BY <1>1, HeldNoMore DEF PoolInv
<1>3. PoolNumbers'
  BY <1>2 DEF PoolInv, PoolNumbers, GiveUp
<1>4. InUse => Surplus' = Surplus + OfPool(t) /\ Surplus \in Int
  BY <1>2 DEF PoolInv, PoolNumbers, Surplus, GiveUp, InUse, Pools
<1>5. InUse => Surplus' + Cardinality(Held') = Surplus + Cardinality(Held)
  BY <1>2, <1>4, HeldFinite
<1> QED BY <1>1, <1>3, <1>5, Balanced DEF PoolInv

\* The one connection of a thread is put back.
LEMMA PutAndRest ==
  ASSUME PoolInv, NEW t \in Threads, Len(thread[t].held) = 1, thread[t].pc # "wrap",
         Put(thread[t].held[1]), thread' = [thread EXCEPT ![t] = Resting],
         UNCHANGED <<current, poolNo, closing>>, poolFaults' \in 0..MaxPoolFaults
  PROVE  PoolInv'
<1> DEFINE c == thread[t].held[1]
<1>1. HeldByStep' /\ OnlyHeldBy(t) /\ thread'[t].held = <<>>
  BY RestKeeps DEF PoolInv
<1>2. /\ Cardinality(Held) = Cardinality(Held') + (IF c.home = poolNo THEN 1 ELSE 0)
  BY <1>1, HeldNoMore, OfPoolOne DEF PoolInv
<1>3. c.home \in 0..poolNo /\ c.into \in 0..poolNo /\ (c.home = poolNo => c.into \in {0, poolNo})
  <2>1. HoldsByStep(thread[t], poolNo) /\ poolNo \in Nat
    BY DEF PoolInv, HeldByStep, PoolNumbers
  <2> QED BY <2>1 DEF HoldsByStep
<1>4. PoolNumbers' /\ (InUse => Surplus' = Surplus + (IF c.home = poolNo THEN 1 ELSE 0))
  BY <1>3, PutKeeps DEF PoolInv
<1>5. InUse => Surplus \in Int
  BY DEF PoolInv, PoolNumbers, Surplus, InUse, Pools
<1>6. InUse => Surplus' + Cardinality(Held') = Surplus + Cardinality(Held)
  BY <1>2, <1>4, <1>5, HeldFinite
<1> QED BY <1>1, <1>4, <1>6, Balanced DEF PoolInv

LEMMA ConnectionFields ==
  ASSUME NEW c \in Connections, NEW n \in Int
  PROVE  /\ [c EXCEPT !.into = n] \in Connections /\ [c EXCEPT !.home = n] \in Connections
         /\ [c EXCEPT !.into = n].home = c.home /\ [c EXCEPT !.into = n].into = n
         /\ [c EXCEPT !.home = n].home = n /\ [c EXCEPT !.home = n].into = c.into
BY DEF Connections

\* The sequences of connections that wrapping, closing and close_pool leave.
LEMMA Wrapped ==
  ASSUME NEW s \in Seq(Connections), NEW i \in 1..Len(s), NEW n \in Int
  PROVE  /\ [s EXCEPT ![i].into = n] \in Seq(Connections) /\ Len([s EXCEPT ![i].into = n]) = Len(s)
         /\ [s EXCEPT ![i].into = n][i].home = s[i].home /\ [s EXCEPT ![i].into = n][i].into = n
         /\ \A j \in 1..Len(s) : j # i => [s EXCEPT ![i].into = n][j] = s[j]
<1>1. s[i] \in Connections
  OBVIOUS
<1>2. PICK c \in Connections : c = [s[i] EXCEPT !.into = n]
  BY <1>1, ConnectionFields
<1>3. c.home = s[i].home /\ c.into = n
  BY <1>1, <1>2, ConnectionFields
<1>4. [s EXCEPT ![i].into = n] = [s EXCEPT ![i] = c]
  BY <1>2
<1>5. [s EXCEPT ![i] = c] \in Seq(Connections) /\ Len([s EXCEPT ![i] = c]) = Len(s)
  OBVIOUS
<1>6. [s EXCEPT ![i] = c][i] = c /\ \A j \in 1..Len(s) : j # i => [s EXCEPT ![i] = c][j] = s[j]
  OBVIOUS
<1> QED BY <1>3, <1>4, <1>5, <1>6

LEMMA FirstOfTwo ==
  ASSUME NEW s \in Seq(Connections), Len(s) = 2
  PROVE  Front(s) \in Seq(Connections) /\ Len(Front(s)) = 1 /\ Front(s)[1] = s[1]
<1>1. Front(s) = SubSeq(s, 1, 1)
  BY DEF Front
<1> QED BY <1>1

LEMMA Closed ==
  ASSUME NEW s \in Seq(Connections), NEW n \in Nat, NEW r,
         r = [i \in DOMAIN s |-> IF s[i].home = n THEN [s[i] EXCEPT !.home = 0] ELSE s[i]]
  PROVE  /\ r \in Seq(Connections) /\ Len(r) = Len(s)
         /\ \A i \in 1..Len(s) : /\ r[i].home = (IF s[i].home = n THEN 0 ELSE s[i].home)
                               /\ r[i].into = s[i].into
<1>1. DOMAIN s = 1..Len(s) /\ Len(s) \in Nat
  OBVIOUS
<1>2. ASSUME NEW i \in 1..Len(s)
      PROVE  /\ r[i] \in Connections /\ r[i].home = (IF s[i].home = n THEN 0 ELSE s[i].home)
             /\ r[i].into = s[i].into
  <2>1. s[i] \in Connections /\ r[i] = IF s[i].home = n THEN [s[i] EXCEPT !.home = 0] ELSE s[i]
    BY <1>1
  <2>2. /\ [s[i] EXCEPT !.home = 0] \in Connections /\ [s[i] EXCEPT !.home = 0].home = 0
        /\ [s[i] EXCEPT !.home = 0].into = s[i].into
    <3>1. ASSUME NEW c \in Connections
          PROVE  /\ [c EXCEPT !.home = 0] \in Connections /\ [c EXCEPT !.home = 0].home = 0
                 /\ [c EXCEPT !.home = 0].into = c.into
      BY DEF Connections
    <3> QED BY <2>1, <3>1
  <2>3. CASE s[i].home = n
    BY <2>1, <2>2, <2>3
  <2>4. CASE s[i].home # n
    BY <2>1, <2>4
  <2> QED BY <2>3, <2>4
<1>3. r \in [1..Len(s) -> Connections]
  BY <1>1, <1>2
<1>4. r \in Seq(Connections) /\ Len(r) = Len(s)
  BY <1>1, <1>3
<1> QED BY <1>2, <1>4

\* A thread that keeps its connections and changes its step.
LEMMA StepKeeps ==
  ASSUME PoolInv, NEW t \in Threads, OnlyHeldBy(t), HoldsByStep(thread'[t], poolNo),
         Len(thread'[t].held) = Len(thread[t].held),
         \A i \in 1..Len(thread[t].held) : thread'[t].held[i].home = thread[t].held[i].home,
         UNCHANGED <<current, closing, ownIdle, foreignIdle, opened, lost, refused, poolFaults>>
  PROVE  PoolInv'
<1>1. HeldByStep'
  BY DEF PoolInv, HeldByStep, OnlyHeldBy
<1>2. Held' = Held
  BY HeldSame DEF PoolInv
<1>3. PoolNumbers' /\ Surplus' = Surplus /\ poolNo' = poolNo
  BY DEF PoolInv, PoolNumbers, Surplus, OnlyHeldBy
<1> QED BY <1>1, <1>2, <1>3, Balanced DEF PoolInv

\* Threads keep what is known of them when a newer pool is made, if none holds a
\* connection of that pool.
LEMMA NewerPool ==
  ASSUME NEW x, NEW n \in Nat, HoldsByStep(x, n)
  PROVE  HoldsByStep(x, n + 1)
<1>1. x.pool \in 0..(n + 1) /\ Len(x.held) \in 0..2
  BY DEF HoldsByStep
<1>2. ASSUME NEW i \in 1..Len(x.held)
      PROVE  /\ x.held[i].home \in 0..(n + 1) /\ x.held[i].into \in -1..(n + 1)
             /\ x.held[i].home # n + 1
  BY DEF HoldsByStep
<1> QED BY <1>1, <1>2 DEF HoldsByStep

\* The counter of the pool in use counts its connections, idle, held or leaked, for
\* any number of threads, connections and pools.
THEOREM PoolAccounts == PoolSpec => [](PoolTypeOK /\ ConnectionsAccounted)
<1>1. PoolInit => PoolInv
  <2> SUFFICES ASSUME PoolInit PROVE PoolInv
    OBVIOUS
  <2>1. PoolNumbers /\ ~InUse
    BY LegacyPoolAssumption DEF PoolInit, PoolNumbers, InUse
  <2>2. PoolPhase
    <3>1. closing = FALSE /\ poolNo <= MaxCloses
      BY LegacyPoolAssumption DEF PoolInit
    <3> QED BY <3>1 DEF PoolPhase
  <2>3. DOMAIN thread = Threads /\ poolNo = 0 /\ \A t \in Threads : thread[t] = Resting
    BY DEF PoolInit
  <2>4. HeldByStep
    BY <2>3, RestingHolds DEF HeldByStep
  <2> QED BY <2>1, <2>2, <2>4 DEF PoolInv, Balance
<1>2. PoolInv /\ [PoolNext]_poolVars => PoolInv'
  <2> SUFFICES ASSUME PoolInv, [PoolNext]_poolVars PROVE PoolInv'
    OBVIOUS
  <2> USE LegacyPoolAssumption
  <2>0. HeldByStep /\ PoolNumbers /\ PoolPhase /\ Balance /\ poolNo \in Nat
    BY DEF PoolInv, PoolNumbers
  <2>a. ASSUME CheckPool, NEW t \in Threads, DOMAIN thread' = Threads,
               \A u \in Threads \ {t} : thread'[u] = thread[u],
               HoldsByStep(thread'[t], poolNo), thread'[t].held = thread[t].held,
               UNCHANGED <<closing, ownIdle, foreignIdle, opened, poolFaults>>
        PROVE  PoolInv'
    <3>1. \A u \in Threads : HoldsByStep(thread'[u], poolNo)
      BY <2>0, <2>a DEF HeldByStep
    <3>2. poolNo' = poolNo \/ poolNo' = poolNo + 1
      BY <2>a DEF CheckPool
    <3>3. HeldByStep'
      <4>1. CASE poolNo' = poolNo
        BY <2>a, <3>1, <4>1 DEF HeldByStep
      <4>2. CASE poolNo' = poolNo + 1
        BY <2>0, <2>a, <3>1, <4>2, NewerPool DEF HeldByStep
      <4> QED BY <3>2, <4>1, <4>2
    <3>4. poolNo' = poolNo => Held' = Held
      BY <2>0, <2>a, HeldSame DEF OnlyHeldBy
    <3>5. \A u \in Threads, i \in 1..2 : i <= Len(thread'[u].held) => thread'[u].held[i].home <= poolNo
      BY <3>1 DEF HoldsByStep
    <3> QED BY <2>a, <3>3, <3>4, <3>5, CheckPoolKeeps
  <2>1. ASSUME NEW t \in Threads, NEW k \in Kinds, Begin(t, k) PROVE PoolInv'
    <3>1. HoldsByStep(thread[t], poolNo) /\ thread[t].pc = "rest"
      BY <2>0, <2>1 DEF Begin, HeldByStep
    <3>2. /\ DOMAIN thread' = Threads /\ \A u \in Threads \ {t} : thread'[u] = thread[u]
          /\ DOMAIN thread'[t] = {"pc", "kind", "pool", "held"} /\ thread'[t].pc = "read"
          /\ thread'[t].kind = k /\ thread'[t].pool = 0 /\ thread'[t].held = <<>>
      BY <2>0, <2>1 DEF Begin, HeldByStep, Resting
    <3>3. thread[t].held = <<>>
      BY <3>1 DEF HoldsByStep
    <3>4. HoldsByStep(thread'[t], poolNo)
      <4>1. Len(<<>>) = 0 /\ <<>> \in Seq(Connections)
        OBVIOUS
      <4> QED BY <2>0, <3>2, <4>1 DEF HoldsByStep
    <3>5. CheckPool /\ UNCHANGED <<closing, ownIdle, foreignIdle, opened, poolFaults>>
      BY <2>1 DEF Begin
    <3> QED BY <2>a, <3>2, <3>3, <3>4, <3>5
  <2>2. ASSUME NEW t \in Threads, ReadPool(t) PROVE PoolInv'
    <3>0. UNCHANGED <<current, poolNo, closing, poolFaults>> /\ thread[t].pc = "read"
      BY <2>2 DEF ReadPool
    <3>1. CASE current = 0
      BY <2>0, <2>2, <3>0, <3>1, GivenUp DEF ReadPool, PoolNumbers
    <3>2. CASE current # 0
      <4>1. /\ thread' = [thread EXCEPT ![t].pc = "take", ![t].pool = current]
            /\ UNCHANGED <<ownIdle, foreignIdle, opened, lost, refused>>
            /\ current \in 1..poolNo
        BY <2>0, <2>2, <3>2 DEF ReadPool, PoolNumbers
      <4>2. /\ OnlyHeldBy(t) /\ thread'[t].held = thread[t].held /\ thread'[t].pc = "take"
            /\ thread'[t].pool = current /\ thread'[t].kind = thread[t].kind
            /\ DOMAIN thread'[t] = {"pc", "kind", "pool", "held"}
        BY <2>0, <3>0, <4>1 DEF HeldByStep, HoldsByStep, OnlyHeldBy
      <4>3. HoldsByStep(thread'[t], poolNo)
        BY <2>0, <3>0, <4>1, <4>2 DEF HeldByStep, HoldsByStep
      <4> QED BY <3>0, <4>1, <4>2, <4>3, StepKeeps
    <3> QED BY <3>1, <3>2
  <2>3. ASSUME NEW t \in Threads, GetConnection(t) PROVE PoolInv'
    <3> DEFINE p == thread[t].pool
    <3>0. /\ UNCHANGED <<current, poolNo, closing, lost, refused, poolFaults>> /\ thread[t].pc = "take"
          /\ p \in 1..poolNo
      BY <2>0, <2>3 DEF GetConnection, HeldByStep, HoldsByStep
    <3>1. CASE TakeIdle(t, p) /\ UNCHANGED opened
      BY <3>0, <3>1, IdleTaken
    <3>2. CASE /\ opened[p] < MaxConnections /\ opened' = [opened EXCEPT ![p] = @ + 1]
               /\ Taken(t, p) /\ UNCHANGED <<ownIdle, foreignIdle>>
      <4>0. p \in 0..poolNo /\ p \in Pools /\ (InUse => poolNo \in Pools)
        BY <2>0, <3>0 DEF PoolNumbers, Pools, InUse
      <4>1. HeldByStep' /\ Cardinality(Held') = Cardinality(Held) + (IF p = poolNo THEN 1 ELSE 0)
        BY <3>0, <3>2, <4>0, TakenKeeps
      <4>2. PoolNumbers'
        <5> HIDE DEF p
        <5>1. \A q \in Pools : opened'[q] <= MaxConnections /\ (q > poolNo => opened'[q] = 0)
          BY <2>0, <3>0, <3>2, <4>0 DEF PoolNumbers
        <5> QED BY <2>0, <3>0, <3>2, <4>0, <5>1 DEF PoolNumbers
      <4>3. InUse => Surplus' = Surplus - (IF p = poolNo THEN 1 ELSE 0) /\ Surplus \in Int
        <5> HIDE DEF p
        <5> QED BY <2>0, <3>0, <3>2, <4>0 DEF PoolNumbers, Surplus
      <4>4. InUse => Surplus' + Cardinality(Held') = Surplus + Cardinality(Held)
        BY <4>1, <4>3, HeldFinite
      <4> QED BY <2>0, <3>0, <4>1, <4>2, <4>4, Balanced DEF PoolInv
    <3>3. CASE thread' = [thread EXCEPT ![t].pc = "wait"] /\ UNCHANGED <<ownIdle, foreignIdle, opened>>
      <4>1. /\ OnlyHeldBy(t) /\ thread'[t].held = thread[t].held /\ thread'[t].pc = "wait"
            /\ thread'[t].pool = thread[t].pool /\ thread'[t].kind = thread[t].kind
            /\ DOMAIN thread'[t] = {"pc", "kind", "pool", "held"}
        BY <2>0, <3>0, <3>3 DEF HeldByStep, HoldsByStep, OnlyHeldBy
      <4>2. HoldsByStep(thread'[t], poolNo)
        BY <2>0, <3>0, <4>1 DEF HeldByStep, HoldsByStep
      <4> QED BY <3>0, <3>3, <4>1, <4>2, StepKeeps
    <3> QED BY <2>3, <3>1, <3>2, <3>3 DEF GetConnection
  <2>4. ASSUME NEW t \in Threads, GetWaiting(t) PROVE PoolInv'
    BY <2>4, IdleTaken DEF GetWaiting
  <2>5. ASSUME NEW t \in Threads, TimeOut(t) PROVE PoolInv'
    BY <2>0, <2>5, GivenUp DEF TimeOut, PoolNumbers
  <2>6. ASSUME NEW t \in Threads, WrapConnection(t) PROVE PoolInv'
    <3> DEFINE held == thread[t].held  n == Len(held)
    <3>0. /\ HoldsByStep(thread[t], poolNo) /\ thread[t].pc = "wrap" /\ current \in {0, poolNo}
          /\ held \in Seq(Connections) /\ n \in 1..2
          /\ thread' = [thread EXCEPT ![t].pc = "run", ![t].held[n].into = current]
          /\ UNCHANGED <<current, poolNo, closing, ownIdle, foreignIdle, opened, lost, refused, poolFaults>>
      BY <2>0, <2>6 DEF WrapConnection, HeldByStep, HoldsByStep, PoolNumbers
    <3>1. /\ OnlyHeldBy(t) /\ thread'[t].pc = "run" /\ thread'[t].kind = thread[t].kind
          /\ thread'[t].pool = thread[t].pool /\ DOMAIN thread'[t] = {"pc", "kind", "pool", "held"}
          /\ thread'[t].held = [held EXCEPT ![n].into = current]
      BY <2>0, <3>0 DEF HeldByStep, HoldsByStep, OnlyHeldBy
    <3>4. /\ thread'[t].held \in Seq(Connections) /\ Len(thread'[t].held) = n
          /\ thread'[t].held[n].home = held[n].home /\ thread'[t].held[n].into = current
          /\ \A i \in 1..n : i # n => thread'[t].held[i] = held[i]
      <4>1. current \in Int
        BY <2>0, <3>0
      <4>2. Len(held) \in Nat /\ Len(held) \in 1..Len(held)
        BY <3>0
      <4>3. /\ [held EXCEPT ![Len(held)].into = current] \in Seq(Connections)
            /\ Len([held EXCEPT ![Len(held)].into = current]) = Len(held)
            /\ [held EXCEPT ![Len(held)].into = current][Len(held)].home = held[Len(held)].home
            /\ [held EXCEPT ![Len(held)].into = current][Len(held)].into = current
            /\ \A j \in 1..Len(held) :
                 j # Len(held) => [held EXCEPT ![Len(held)].into = current][j] = held[j]
        <5>1. held \in Seq(Connections)
          BY <3>0
        <5> HIDE DEF held, n
        <5> QED BY <4>1, <4>2, <5>1, Wrapped
      <4> QED BY <3>1, <4>3
    <3> HIDE DEF n
    <3>6. ASSUME NEW i \in 1..n
          PROVE  /\ thread'[t].held[i].home = held[i].home /\ held[i].home \in 0..poolNo
                 /\ thread'[t].held[i].into \in 0..poolNo
                 /\ held[i].home = poolNo => thread'[t].held[i].into \in {0, poolNo}
      <4>1. CASE i = n
        <5>1. held[n].home \in 0..poolNo /\ n \in 1..Len(held)
          BY <3>0 DEF HoldsByStep, n
        <5> QED BY <2>0, <3>0, <3>4, <4>1, <5>1
      <4>2. CASE i # n
        <5>1. thread'[t].held[i] = held[i] /\ i # Len(held) /\ i \in 1..Len(held)
          BY <3>4, <4>2 DEF n
        <5>2. held[i].home \in 0..poolNo /\ held[i].into \in -1..poolNo /\ held[i].into # -1
          BY <3>0, <5>1 DEF HoldsByStep
        <5>3. held[i].home = poolNo => held[i].into \in {0, poolNo}
          BY <3>0, <5>1, <5>2 DEF HoldsByStep
        <5> QED BY <2>0, <5>1, <5>2, <5>3
      <4> QED BY <4>1, <4>2
    <3>7. HoldsByStep(thread'[t], poolNo)
      <4>1. /\ thread[t].kind \in Kinds /\ thread[t].pool \in 0..poolNo
            /\ (thread[t].kind # "edit" => n = 1) /\ n \in 1..2
        BY <3>0 DEF HoldsByStep, n
      <4>2. \A i \in 1..Len(thread'[t].held) :
              /\ thread'[t].held[i].home \in 0..poolNo /\ thread'[t].held[i].into \in -1..poolNo
              /\ thread'[t].held[i].home = poolNo => thread'[t].held[i].into \in {-1, 0, poolNo}
              /\ thread'[t].held[i].into # -1
        <5>1. Len(thread'[t].held) = n
          BY <3>4
        <5>2. 0..poolNo \subseteq -1..poolNo /\ -1 \notin 0..poolNo
          BY <2>0
        <5> QED BY <3>6, <5>1, <5>2
      <4>3. thread'[t].held \in Seq(Connections) /\ Len(thread'[t].held) = n
        BY <3>4
      <4>4. /\ thread'[t].pc = "run" /\ thread'[t].kind = thread[t].kind
            /\ thread'[t].pool = thread[t].pool /\ DOMAIN thread'[t] = {"pc", "kind", "pool", "held"}
        BY <3>1
      <4> QED BY <4>1, <4>2, <4>3, <4>4 DEF HoldsByStep
    <3> QED BY <3>0, <3>1, <3>4, <3>6, <3>7, StepKeeps DEF n
  <2>7. ASSUME NEW t \in Threads, Run(t) PROVE PoolInv'
    <3> DEFINE held == thread[t].held
    <3>0. /\ UNCHANGED <<closing, poolFaults>> /\ thread[t].pc = "run"
          /\ HoldsByStep(thread[t], poolNo) /\ poolFaults' \in 0..MaxPoolFaults
      BY <2>0, <2>7 DEF Run, HeldByStep, PoolNumbers
    <3>1. CASE /\ thread[t].kind = "edit" /\ Len(held) = 1
               /\ thread' = [thread EXCEPT ![t].pc = "read"]
               /\ CheckPool /\ UNCHANGED <<ownIdle, foreignIdle, opened>>
      <4>1. /\ DOMAIN thread' = Threads /\ \A u \in Threads \ {t} : thread'[u] = thread[u]
            /\ thread'[t].held = held /\ thread'[t].pc = "read"
            /\ thread'[t].pool = thread[t].pool /\ thread'[t].kind = thread[t].kind
            /\ DOMAIN thread'[t] = {"pc", "kind", "pool", "held"}
        BY <2>0, <3>0, <3>1 DEF HeldByStep, HoldsByStep
      <4>2. HoldsByStep(thread'[t], poolNo)
        BY <3>0, <3>1, <4>1 DEF HoldsByStep
      <4> QED BY <2>a, <3>0, <3>1, <4>1, <4>2
    <3>2. CASE /\ thread[t].kind = "edit" /\ Len(held) = 2
               /\ thread' = [thread EXCEPT ![t].pc = "finish", ![t].held = Front(@)]
               /\ Put(held[2]) /\ UNCHANGED <<current, poolNo>>
      <4> DEFINE c == held[2]
      <4>1. /\ OnlyHeldBy(t) /\ thread'[t].held = Front(held) /\ thread'[t].pc = "finish"
            /\ thread'[t].pool = thread[t].pool /\ thread'[t].kind = "edit"
            /\ DOMAIN thread'[t] = {"pc", "kind", "pool", "held"}
        BY <2>0, <3>0, <3>2 DEF HeldByStep, HoldsByStep, OnlyHeldBy
      <4>2. Cardinality(Held) = Cardinality(Held') + (IF c.home = poolNo THEN 1 ELSE 0)
        BY <2>0, <3>2, <4>1, HeldOneLess
      <4>3. c.home \in 0..poolNo /\ c.into \in 0..poolNo /\ (c.home = poolNo => c.into \in {0, poolNo})
        BY <2>0, <3>0, <3>2 DEF HoldsByStep
      <4>4. held \in Seq(Connections)
        BY <3>0 DEF HoldsByStep
      <4>5. thread'[t].held \in Seq(Connections) /\ Len(thread'[t].held) = 1 /\ thread'[t].held[1] = held[1]
        BY <3>2, <4>1, <4>4, FirstOfTwo
      <4>6. HoldsByStep(thread'[t], poolNo)
        <5>1. "edit" \in Kinds /\ thread[t].pool \in 0..poolNo
          BY <3>0 DEF Kinds, HoldsByStep
        <5>2. /\ held[1].home \in 0..poolNo /\ held[1].into \in -1..poolNo
              /\ held[1].home = poolNo => held[1].into \in {-1, 0, poolNo}
              /\ held[1].into # -1
          BY <3>0, <3>2 DEF HoldsByStep
        <5>3. 1..Len(thread'[t].held) = {1}
          BY <4>5
        <5> QED BY <4>1, <4>5, <5>1, <5>2, <5>3 DEF HoldsByStep
      <4>7. HeldByStep'
        BY <2>0, <4>1, <4>6 DEF HeldByStep, OnlyHeldBy
      <4>8. PoolNumbers' /\ (InUse => Surplus' = Surplus + (IF c.home = poolNo THEN 1 ELSE 0))
        <5> HIDE DEF c
        <5>1. Put(c) /\ poolNo' = poolNo /\ current' = current
          BY <3>2 DEF c
        <5> QED BY <2>0, <3>0, <4>3, <5>1, PutKeeps
      <4>9. InUse => Surplus \in Int
        BY <2>0 DEF PoolNumbers, Surplus, InUse, Pools, HeldByStep
      <4>10. InUse => Surplus' + Cardinality(Held') = Surplus + Cardinality(Held)
        BY <4>2, <4>8, <4>9, HeldFinite
      <4> QED BY <2>0, <3>0, <3>2, <4>7, <4>8, <4>10, Balanced DEF PoolInv
    <3>3. CASE GiveUp(t) /\ UNCHANGED <<current, poolNo>>
      BY <3>0, <3>3, GivenUp
    <3>4. CASE /\ thread[t].kind # "edit" /\ thread' = [thread EXCEPT ![t] = Resting]
               /\ Put(held[1]) /\ UNCHANGED <<current, poolNo>>
      <4>1. Len(held) = 1
        BY <3>0, <3>4 DEF HoldsByStep
      <4> QED BY <3>0, <3>4, <4>1, PutAndRest
    <3> QED BY <2>7, <3>1, <3>2, <3>3, <3>4 DEF Run
  <2>8. ASSUME NEW t \in Threads, FinishEdit(t) PROVE PoolInv'
    <3>1. Len(thread[t].held) = 1 /\ poolFaults' \in 0..MaxPoolFaults
      BY <2>0, <2>8 DEF FinishEdit, HeldByStep, HoldsByStep, PoolNumbers
    <3> QED BY <2>8, <3>1, PutAndRest DEF FinishEdit
  <2>9. ASSUME NEW t \in Threads, Fail(t) PROVE PoolInv'
    <3>1. /\ poolFaults' \in 0..MaxPoolFaults /\ UNCHANGED <<current, poolNo, closing>>
          /\ thread[t].pc \in {"run", "finish"}
      BY <2>0, <2>9 DEF Fail, PoolNumbers
    <3>2. CASE thread[t].kind = "safe"
      <4>1. Len(thread[t].held) = 1
        BY <2>0, <3>1, <3>2 DEF HeldByStep, HoldsByStep
      <4> QED BY <2>9, <3>1, <3>2, <4>1, PutAndRest DEF Fail
    <3>3. CASE thread[t].kind # "safe"
      BY <2>9, <3>1, <3>3, GivenUp DEF Fail
    <3> QED BY <3>2, <3>3
  <2>10. CASE ClosePool
    <3>1. UNCHANGED <<current, poolNo, opened, lost, refused, poolFaults>> /\ closing' = TRUE
          /\ current # 0 /\ poolNo <= MaxCloses
      BY <2>10 DEF ClosePool
    <3>2. PoolNumbers'
      <4>1. /\ ownIdle' = [ownIdle EXCEPT ![current] = 0]
            /\ foreignIdle' = [foreignIdle EXCEPT ![current] = 0]
        BY <2>10 DEF ClosePool
      <4> QED BY <2>0, <3>1, <4>1 DEF PoolNumbers
    <3>3. PoolPhase' /\ Balance'
      <4>1. closing' = TRUE /\ current' # 0 /\ poolNo' <= MaxCloses
        BY <3>1
      <4> QED BY <4>1 DEF PoolPhase, Balance, InUse
    <3>4. ASSUME NEW t \in Threads PROVE HoldsByStep(thread'[t], poolNo')
      <4> DEFINE held == thread[t].held
      <4>1. HoldsByStep(thread[t], poolNo) /\ current = poolNo /\ poolNo' = poolNo
        BY <2>0, <3>1 DEF HeldByStep, PoolNumbers
      <4>2. /\ DOMAIN thread'[t] = {"pc", "kind", "pool", "held"} /\ thread'[t].pc = thread[t].pc
            /\ thread'[t].kind = thread[t].kind /\ thread'[t].pool = thread[t].pool
            /\ thread'[t].held = [i \in DOMAIN held |->
                 IF held[i].home = current THEN [held[i] EXCEPT !.home = 0] ELSE held[i]]
        BY <2>10, <4>1 DEF ClosePool, HoldsByStep
      <4>3. held \in Seq(Connections) /\ Len(held) \in 0..2 /\ DOMAIN held = 1..Len(held)
        BY <4>1 DEF HoldsByStep
      <4>5. /\ thread'[t].held \in Seq(Connections) /\ Len(thread'[t].held) = Len(held)
            /\ \A i \in 1..Len(held) :
                 /\ thread'[t].held[i].home = (IF held[i].home = current THEN 0 ELSE held[i].home)
                 /\ thread'[t].held[i].into = held[i].into
        <5>1. current \in Nat
          BY <2>0, <4>1
        <5>2. thread'[t].held = [i \in DOMAIN held |->
                IF held[i].home = current THEN [held[i] EXCEPT !.home = 0] ELSE held[i]]
          BY <4>2
        <5>3. held \in Seq(Connections)
          BY <4>3
        <5> HIDE DEF held
        <5> QED BY <5>1, <5>2, <5>3, Closed
      <4> HIDE DEF held
      <4>7. ASSUME NEW i \in 1..Len(held)
            PROVE  /\ thread'[t].held[i].home \in 0..poolNo /\ thread'[t].held[i].home # poolNo
                   /\ thread'[t].held[i].into \in -1..poolNo
                   /\ thread'[t].held[i].into = -1 => thread[t].pc = "wrap" /\ i = Len(held)
        <5>1. /\ held[i].home \in 0..poolNo /\ held[i].into \in -1..poolNo
              /\ held[i].into = -1 => thread[t].pc = "wrap" /\ i = Len(held)
          BY <4>1 DEF HoldsByStep, held
        <5>2. poolNo > 0
          BY <2>0, <3>1, <4>1
        <5> QED BY <2>0, <4>1, <4>5, <5>1, <5>2
      <4> QED BY <4>1, <4>2, <4>3, <4>5, <4>7 DEF HoldsByStep, held
    <3>5. HeldByStep'
      BY <2>10, <3>4 DEF HeldByStep, ClosePool
    <3> QED BY <3>2, <3>3, <3>5 DEF PoolInv
  <2>11. CASE ForgetPool
    <3>1. /\ UNCHANGED <<poolNo, ownIdle, foreignIdle, opened, thread, lost, refused, poolFaults>>
          /\ closing /\ closing' = FALSE /\ current' = 0
      BY <2>11 DEF ForgetPool
    <3>2. PoolNumbers' /\ HeldByStep'
      BY <2>0, <3>1 DEF PoolNumbers, HeldByStep
    <3>3. PoolPhase' /\ Balance'
      BY <2>0, <3>1 DEF PoolPhase, Balance, InUse
    <3> QED BY <3>2, <3>3 DEF PoolInv
  <2>12. CASE UNCHANGED poolVars
    <3>1. Held' = Held /\ Surplus' = Surplus
      BY <2>12 DEF poolVars, Held, Surplus
    <3>2. PoolNumbers' /\ HeldByStep' /\ poolNo' = poolNo /\ current' = current /\ closing' = closing
      BY <2>0, <2>12 DEF poolVars, PoolNumbers, HeldByStep
    <3> QED BY <2>0, <3>1, <3>2, Balanced DEF PoolInv
  <2> QED BY <2>1, <2>2, <2>3, <2>4, <2>5, <2>6, <2>7, <2>8, <2>9, <2>10, <2>11, <2>12 DEF PoolNext
<1>3. PoolInv => PoolTypeOK /\ ConnectionsAccounted
  <2> SUFFICES ASSUME PoolInv PROVE PoolTypeOK /\ ConnectionsAccounted
    OBVIOUS
  <2>1. PoolTypeOK
    <3>1. closing \in BOOLEAN
      BY DEF PoolInv, PoolPhase
    <3>2. poolNo \in {0} \cup Pools /\ 0..poolNo \subseteq {0} \cup Pools
      BY LegacyPoolAssumption DEF PoolInv, PoolNumbers, Pools
    <3>3. \A t \in Threads : HoldsByStep(thread[t], poolNo)
      BY DEF PoolInv, HeldByStep
    <3>4. \A t \in Threads : /\ thread[t].pc \in {"rest", "read", "take", "wait", "wrap", "run", "finish"}
                            /\ thread[t].kind \in Kinds /\ thread[t].pool \in {0} \cup Pools
                            /\ Len(thread[t].held) \in 0..2
      BY <3>2, <3>3 DEF HoldsByStep
    <3> QED BY <3>1, <3>2, <3>4 DEF PoolInv, PoolNumbers, PoolTypeOK
  <2>2. InUse => opened[current] + refused = ownIdle[current] + Cardinality(Held) + lost
    <3>1. InUse => /\ poolNo \in Pools /\ current = poolNo /\ Surplus + Cardinality(Held) = 0
      BY DEF PoolInv, PoolNumbers, Balance, InUse, Pools
    <3> QED BY <3>1, HeldFinite DEF PoolInv, PoolNumbers, Surplus
  <2> QED BY <2>1, <2>2 DEF ConnectionsAccounted, InUse, PoolInv, PoolNumbers
<1> QED BY <1>1, <1>2, <1>3, PTL DEF PoolSpec

(***************************************************************************)
(* The lockout: a count that sessions overwrite moves through finitely     *)
(* many configurations, and never back.                                    *)
(***************************************************************************)
\* The least of a set of natural numbers.
LEMMA LeastNumber ==
  ASSUME NEW T \in SUBSET Nat, T # {}
  PROVE  \E n \in T : \A m \in T : n <= m
<1> DEFINE R == OpToRel(<, Nat)
<1>1. IsWellFoundedOn(R, Nat)
  BY NatLessThanWellFounded, Zenon
<1>2. \A x, y \in Nat : y < x => <<y, x>> \in R
  BY DEF OpToRel
<1> HIDE DEF R
<1>3. PICK n \in T : \A m \in T : ~(<<m, n>> \in R)
  BY <1>1, WFMin
<1>4. \A m \in T : n \in Nat /\ m \in Nat /\ ~(m < n)
  BY <1>2, <1>3
<1>5. \A x, y \in Nat : ~(y < x) => x <= y
  OBVIOUS
<1> QED BY <1>4, <1>5

\* Of two finite sets there are finitely many functions from one to the other: a
\* function is given by its graph.
LEMMA FunctionsFinite ==
  ASSUME NEW S, NEW T, IsFiniteSet(S), IsFiniteSet(T)
  PROVE  IsFiniteSet([S -> T])
<1> DEFINE Graph(d) == {p \in S \X T : p[2] = d[p[1]]}
           g == [d \in [S -> T] |-> Graph(d)]
<1>1. g \in [[S -> T] -> SUBSET (S \X T)]
  OBVIOUS
<1>2. ASSUME NEW d \in [S -> T], NEW e \in [S -> T], g[d] = g[e] PROVE d = e
  <2>1. Graph(d) = Graph(e)
    BY <1>2
  <2>2. ASSUME NEW x \in S PROVE d[x] = e[x]
    <3>1. <<x, d[x]>> \in Graph(d)
      BY <1>2
    <3>2. <<x, d[x]>> \in Graph(e)
      BY <2>1, <3>1, Zenon
    <3> QED BY <3>2
  <2> QED BY <2>2
<1> HIDE DEF g
<1>3. IsFiniteSet(SUBSET (S \X T))
  BY FS_Product, FS_SUBSET
<1>4. g \in Injection([S -> T], SUBSET (S \X T))
  BY <1>1, <1>2 DEF Injection, IsInjective
<1> QED BY <1>3, <1>4, FS_Injection

\* thresholds below the lock
Thresholds == 1..(LockAfter - 1)

LEMMA ThresholdsNat == Thresholds \subseteq Nat /\ \A x, y \in Thresholds : x < y \/ x = y \/ y < x
BY DEF Thresholds

LEMMA ConfigurationsFinite == IsFiniteSet(Configurations)
<1>1. LockAfter \in Nat /\ 1 \in Int /\ LockAfter - 1 \in Int
  BY LegacyKeysAssumption
<1>2. Cardinality(Browsers) \in Int
  BY LegacyKeysAssumption, FS_CardinalityType
<1>3. IsFiniteSet(1..(LockAfter - 1)) /\ IsFiniteSet(0..Cardinality(Browsers))
  BY <1>1, <1>2, FS_Interval
<1>4. IsFiniteSet([1..(LockAfter - 1) -> 0..Cardinality(Browsers)])
  BY <1>3, FunctionsFinite
<1>5. Configurations \subseteq [1..(LockAfter - 1) -> 0..Cardinality(Browsers)]
  BY DEF Configurations
<1> QED BY <1>4, <1>5, FS_Subset

\* e is later than d: it has fewer sessions below the first threshold where they differ
Later(d, e) ==
  \E x \in Thresholds : e[x] < d[x] /\ \A y \in Thresholds : y < x => d[y] = e[y]

\* A configuration with no more sessions below the thresholds up to z, and fewer
\* below z, is later.
LEMMA FewerIsLater ==
  ASSUME NEW d \in Configurations, NEW e \in Configurations, NEW z \in Thresholds,
         \A x \in Thresholds : x <= z => e[x] <= d[x], e[z] < d[z]
  PROVE  Later(d, e)
<1> DEFINE D == {x \in Thresholds : e[x] < d[x]}
<1>1. D \subseteq Nat /\ z \in D
  BY ThresholdsNat
<1> HIDE DEF D
<1>2. PICK x \in D : \A y \in D : x <= y
  BY <1>1, LeastNumber
<1>3. x \in Thresholds /\ e[x] < d[x] /\ x \in Nat
  BY <1>1, <1>2 DEF D
<1>4. ASSUME NEW y \in Thresholds, y < x PROVE d[y] = e[y]
  <2>1. y \in Nat /\ z \in Nat /\ x <= z
    BY <1>1, <1>2, ThresholdsNat
  <2>2. y <= z /\ ~(x <= y)
    BY <1>3, <1>4, <2>1
  <2>3. y \notin D
    BY <1>2, <2>2
  <2>4. e[y] <= d[y] /\ ~(e[y] < d[y])
    BY <2>2, <2>3 DEF D
  <2>5. d[y] \in Int /\ e[y] \in Int
    BY DEF Configurations, Thresholds
  <2> QED BY <2>4, <2>5
<1> QED BY <1>3, <1>4 DEF Later

\* A configuration with no more sessions below any threshold is the same or later.
LEMMA NoMoreIsLater ==
  ASSUME NEW d \in Configurations, NEW e \in Configurations,
         \A x \in Thresholds : e[x] <= d[x]
  PROVE  d = e \/ Later(d, e)
<1>1. \A x \in Thresholds : d[x] \in Int /\ e[x] \in Int
  BY DEF Configurations, Thresholds
<1>2. CASE \E z \in Thresholds : e[z] < d[z]
  BY <1>2, FewerIsLater
<1>3. CASE \A z \in Thresholds : ~(e[z] < d[z])
  <2>1. \A x \in Thresholds : d[x] = e[x]
    BY <1>1, <1>3
  <2>2. d \in [Thresholds -> 0..Cardinality(Browsers)] /\ e \in [Thresholds -> 0..Cardinality(Browsers)]
    BY DEF Configurations, Thresholds
  <2>3. d = e
    BY <2>1, <2>2
  <2> QED BY <2>3
<1> QED BY <1>2, <1>3

LEMMA LaterTransitive ==
  ASSUME NEW c \in Configurations, NEW d \in Configurations, NEW e \in Configurations,
         Later(c, d), Later(d, e)
  PROVE  Later(c, e)
<1>1. PICK x \in Thresholds : d[x] < c[x] /\ \A y \in Thresholds : y < x => c[y] = d[y]
  BY DEF Later
<1>2. PICK z \in Thresholds : e[z] < d[z] /\ \A y \in Thresholds : y < z => d[y] = e[y]
  BY DEF Later
<1>3. \A y \in Thresholds : y \in Nat /\ c[y] \in Int /\ d[y] \in Int /\ e[y] \in Int
  BY ThresholdsNat DEF Configurations, Thresholds
<1>4. CASE x < z
  <2>1. e[x] < c[x] /\ \A y \in Thresholds : y < x => c[y] = e[y]
    BY <1>1, <1>2, <1>3, <1>4
  <2> QED BY <2>1 DEF Later
<1>5. CASE x = z
  <2>1. e[x] < c[x] /\ \A y \in Thresholds : y < x => c[y] = e[y]
    BY <1>1, <1>2, <1>3, <1>5
  <2> QED BY <2>1 DEF Later
<1>6. CASE z < x
  <2>1. e[z] < c[z] /\ \A y \in Thresholds : y < z => c[y] = e[y]
    BY <1>1, <1>2, <1>3, <1>6
  <2> QED BY <2>1 DEF Later
<1> QED BY <1>4, <1>5, <1>6, ThresholdsNat

LEMMA LaterIrreflexive ==
  ASSUME NEW d \in Configurations
  PROVE  ~Later(d, d)
<1>1. \A x \in Thresholds : d[x] \in Int
  BY DEF Configurations, Thresholds
<1> QED BY <1>1 DEF Later

\* The configurations that an account can have gone through before e.
Earlier(e) == {d \in Configurations : Later(d, e)}

LEMMA EarlierCount ==
  ASSUME NEW e \in Configurations
  PROVE  IsFiniteSet(Earlier(e)) /\ Cardinality(Earlier(e)) \in Nat
<1>1. Earlier(e) \subseteq Configurations
  BY DEF Earlier
<1>2. IsFiniteSet(Earlier(e))
  BY <1>1, ConfigurationsFinite, FS_Subset
<1> QED BY <1>2, FS_CardinalityType

\* a later configuration has more configurations before it
LEMMA LaterHasMore ==
  ASSUME NEW d \in Configurations, NEW e \in Configurations, Later(d, e)
  PROVE  Cardinality(Earlier(d)) + 1 <= Cardinality(Earlier(e))
<1>1. d \notin Earlier(d)
  BY LaterIrreflexive DEF Earlier
<1>2. Earlier(d) \cup {d} \subseteq Earlier(e)
  BY LaterTransitive DEF Earlier
<1>3. IsFiniteSet(Earlier(d)) /\ IsFiniteSet(Earlier(e))
  BY EarlierCount
<1>4. Cardinality(Earlier(d) \cup {d}) = Cardinality(Earlier(d)) + 1
  BY <1>1, <1>3, FS_AddElement
<1>5. Cardinality(Earlier(d) \cup {d}) <= Cardinality(Earlier(e))
  BY <1>2, <1>3, FS_Subset
<1> QED BY <1>4, <1>5

\* ... and the account is locked before it has gone through all of them
LEMMA NotAllEarlier ==
  ASSUME NEW e \in Configurations
  PROVE  Cardinality(Earlier(e)) < FailuresToLock /\ FailuresToLock \in Nat
<1>1. Earlier(e) \subseteq Configurations \ {e}
  BY LaterIrreflexive DEF Earlier
<1>2. IsFiniteSet(Configurations \ {e}) /\ Cardinality(Configurations \ {e}) = Cardinality(Configurations) - 1
  BY ConfigurationsFinite, FS_RemoveElement
<1>3. Cardinality(Earlier(e)) <= Cardinality(Configurations \ {e})
  BY <1>1, <1>2, FS_Subset
<1>4. Cardinality(Configurations) \in Nat
  BY ConfigurationsFinite, FS_CardinalityType
<1>5. Cardinality(Earlier(e)) \in Nat
  BY EarlierCount
<1> QED BY <1>2, <1>3, <1>4, <1>5 DEF FailuresToLock

(***************************************************************************)
(* The configuration of an account whose count is n and whose sessions are *)
(* in the requests rq.                                                     *)
(***************************************************************************)
LoginRequests == [pc : {"none", "verify", "read", "write", "lock", "reset", "session"}, seen : Nat]

\* a session that is to write the count writes what it read, plus one
RequestsOK(rq) ==
  rq \in [Browsers -> LoginRequests] /\ \A b \in Browsers : rq[b].pc = "write" => rq[b].seen # 0

\* what session b may still take the count back to, or else the count
Level(rq, n, b) == IF rq[b].pc = "write" /\ rq[b].seen - 1 < n THEN rq[b].seen - 1 ELSE n

Below(rq, n, x) == {b \in Browsers : Level(rq, n, b) < x}

Config(rq, n) == [x \in Thresholds |-> Cardinality(Below(rq, n, x))]

\* a wrong password is not in the count yet
Uncounted(rq) == {b \in Browsers : rq[b].pc \in {"read", "write"}}

\* the count is written and the account is about to be locked
Locking(rq) == {b \in Browsers : rq[b].pc = "lock" /\ rq[b].seen >= LockAfter}

\* the wrong passwords that can lead to this configuration of an open account
Reached(rq, n) == Cardinality(Earlier(Config(rq, n))) + Cardinality(Uncounted(rq)) + Cardinality(Locking(rq))

LEMMA SessionsFinite ==
  ASSUME NEW T \in SUBSET Browsers
  PROVE  IsFiniteSet(T) /\ Cardinality(T) \in Nat /\ Cardinality(T) <= Cardinality(Browsers)
<1>1. IsFiniteSet(Browsers)
  BY LegacyKeysAssumption
<1> QED BY <1>1, FS_Subset, FS_CardinalityType

LEMMA LevelNat ==
  ASSUME NEW rq, RequestsOK(rq), NEW n \in Nat, NEW b \in Browsers
  PROVE  Level(rq, n, b) \in Nat /\ Level(rq, n, b) <= n
<1>1. rq[b].seen \in Nat /\ (rq[b].pc = "write" => rq[b].seen # 0)
  BY DEF RequestsOK, LoginRequests
<1> QED BY <1>1 DEF Level

LEMMA ConfigType ==
  ASSUME NEW rq, RequestsOK(rq), NEW n \in Nat
  PROVE  Config(rq, n) \in Configurations
<1> DEFINE B(x) == Below(rq, n, x)
<1>1. \A x \in Thresholds : B(x) \in SUBSET Browsers
  BY DEF Below
<1>2. \A x \in Thresholds : Cardinality(B(x)) \in 0..Cardinality(Browsers)
  <2>1. Cardinality(Browsers) \in Nat
    BY SessionsFinite
  <2> QED BY <1>1, <2>1, SessionsFinite
<1>3. ASSUME NEW x \in Thresholds, NEW y \in Thresholds, x <= y
      PROVE  Cardinality(B(x)) <= Cardinality(B(y))
  <2>1. \A m, k, l \in Nat : m < k /\ k <= l => m < l
    OBVIOUS
  <2>2. x \in Nat /\ y \in Nat /\ \A b \in Browsers : Level(rq, n, b) \in Nat
    BY LevelNat, ThresholdsNat
  <2>3. B(x) \subseteq B(y)
    BY <1>3, <2>1, <2>2 DEF Below
  <2>4. IsFiniteSet(B(y))
    BY <1>1, SessionsFinite
  <2> QED BY <2>3, <2>4, FS_Subset
<1>4. Config(rq, n) \in [Thresholds -> 0..Cardinality(Browsers)]
  BY <1>2 DEF Config
<1>5. \A x, y \in Thresholds : x <= y => Config(rq, n)[x] <= Config(rq, n)[y]
  BY <1>3 DEF Config
<1> QED BY <1>4, <1>5 DEF Configurations, Thresholds

LEMMA ReachedNat ==
  ASSUME NEW rq, RequestsOK(rq), NEW n \in Nat
  PROVE  /\ Cardinality(Earlier(Config(rq, n))) \in Nat
         /\ Cardinality(Uncounted(rq)) \in Nat /\ Cardinality(Locking(rq)) \in Nat
         /\ Reached(rq, n) \in Nat
<1>1. Cardinality(Earlier(Config(rq, n))) \in Nat
  BY ConfigType, EarlierCount
<1>2. Uncounted(rq) \in SUBSET Browsers /\ Locking(rq) \in SUBSET Browsers
  BY DEF Uncounted, Locking
<1>3. Cardinality(Uncounted(rq)) \in Nat /\ Cardinality(Locking(rq)) \in Nat
  BY <1>2, SessionsFinite
<1> QED BY <1>1, <1>3 DEF Reached

\* When no session comes to be below a level, the configuration is the same or later.
LEMMA FewerBelow ==
  ASSUME NEW rq, RequestsOK(rq), NEW n \in Nat, NEW rq2, RequestsOK(rq2), NEW n2 \in Nat,
         \A x \in Thresholds : Below(rq2, n2, x) \subseteq Below(rq, n, x)
  PROVE  Cardinality(Earlier(Config(rq, n))) <= Cardinality(Earlier(Config(rq2, n2)))
<1> DEFINE d == Config(rq, n)
           e == Config(rq2, n2)
<1>1. d \in Configurations /\ e \in Configurations
  BY ConfigType
<1>2. ASSUME NEW x \in Thresholds PROVE e[x] <= d[x]
  <2>1. Below(rq, n, x) \in SUBSET Browsers
    BY DEF Below
  <2>2. IsFiniteSet(Below(rq, n, x))
    BY <2>1, SessionsFinite
  <2>3. Cardinality(Below(rq2, n2, x)) <= Cardinality(Below(rq, n, x))
    BY <2>2, FS_Subset
  <2> QED BY <2>3 DEF Config
<1> HIDE DEF d, e
<1>3. Cardinality(Earlier(d)) \in Nat /\ Cardinality(Earlier(e)) \in Nat
  BY <1>1, EarlierCount
<1>4. d = e => Cardinality(Earlier(d)) <= Cardinality(Earlier(e))
  BY <1>3
<1>5. Later(d, e) => Cardinality(Earlier(d)) <= Cardinality(Earlier(e))
  BY <1>1, <1>3, LaterHasMore
<1>6. Cardinality(Earlier(d)) <= Cardinality(Earlier(e))
  BY <1>1, <1>2, <1>4, <1>5, NoMoreIsLater
<1> QED BY <1>6 DEF d, e

\* Two states of the account with the same levels have the same configuration.
LEMMA SameLevels ==
  ASSUME NEW rq, NEW n, NEW rq2, NEW n2, \A b \in Browsers : Level(rq2, n2, b) = Level(rq, n, b)
  PROVE  Config(rq2, n2) = Config(rq, n)
<1>1. \A x \in Thresholds : Below(rq2, n2, x) = Below(rq, n, x)
  BY DEF Below
<1> QED BY <1>1 DEF Config

(***************************************************************************)
(* The steps of a session b that is counting a wrong password.             *)
(***************************************************************************)
Moved(rq, b, pc, seen) == [rq EXCEPT ![b] = [pc |-> pc, seen |-> seen]]

LEMMA MovedIs ==
  ASSUME NEW rq, RequestsOK(rq), NEW b \in Browsers, NEW pc, NEW seen
  PROVE  /\ Moved(rq, b, pc, seen)[b].pc = pc /\ Moved(rq, b, pc, seen)[b].seen = seen
         /\ \A c \in Browsers \ {b} : Moved(rq, b, pc, seen)[c] = rq[c]
BY DEF Moved, RequestsOK

LEMMA MovedOK ==
  ASSUME NEW rq, RequestsOK(rq), NEW b \in Browsers, NEW seen \in Nat,
         NEW pc \in {"none", "verify", "read", "write", "lock", "reset", "session"},
         pc = "write" => seen # 0
  PROVE  RequestsOK(Moved(rq, b, pc, seen))
BY DEF Moved, RequestsOK, LoginRequests

\* A wrong password is one more that waits.
LEMMA WrongWaits ==
  ASSUME NEW rq, RequestsOK(rq), NEW n \in Nat, NEW b \in Browsers, rq[b].pc = "verify"
  PROVE  Reached(Moved(rq, b, "read", 0), n) = Reached(rq, n) + 1
<1> DEFINE rq2 == Moved(rq, b, "read", 0)
<1>1. rq2[b].pc = "read" /\ \A c \in Browsers \ {b} : rq2[c] = rq[c]
  BY MovedIs
<1> HIDE DEF rq2
<1>2. Config(rq2, n) = Config(rq, n)
  <2>1. \A c \in Browsers : Level(rq2, n, c) = Level(rq, n, c)
    BY <1>1 DEF Level
  <2> QED BY <2>1, SameLevels
<1>3. Uncounted(rq2) = Uncounted(rq) \cup {b} /\ b \notin Uncounted(rq)
  BY <1>1 DEF Uncounted
<1>4. Locking(rq2) = Locking(rq)
  BY <1>1 DEF Locking
<1>5. IsFiniteSet(Uncounted(rq))
  <2>1. Uncounted(rq) \in SUBSET Browsers
    BY DEF Uncounted
  <2> QED BY <2>1, SessionsFinite
<1>6. Cardinality(Uncounted(rq2)) = Cardinality(Uncounted(rq)) + 1
  BY <1>3, <1>5, FS_AddElement
<1>7. Reached(rq2, n) = Reached(rq, n) + 1
  BY <1>2, <1>4, <1>6, ReachedNat DEF Reached
<1> QED BY <1>7 DEF rq2

\* Reading the count leaves the session where it was: it can take the count back to
\* what it is.
LEMMA ReadStays ==
  ASSUME NEW rq, RequestsOK(rq), NEW n \in Nat, NEW b \in Browsers, rq[b].pc = "read"
  PROVE  Reached(Moved(rq, b, "write", n + 1), n) = Reached(rq, n)
<1> DEFINE rq2 == Moved(rq, b, "write", n + 1)
<1>1. rq2[b].pc = "write" /\ rq2[b].seen = n + 1 /\ \A c \in Browsers \ {b} : rq2[c] = rq[c]
  BY MovedIs
<1> HIDE DEF rq2
<1>2. Config(rq2, n) = Config(rq, n)
  <2>1. \A c \in Browsers : Level(rq2, n, c) = Level(rq, n, c)
    BY <1>1 DEF Level
  <2> QED BY <2>1, SameLevels
<1>3. Uncounted(rq2) = Uncounted(rq) /\ Locking(rq2) = Locking(rq)
  BY <1>1 DEF Uncounted, Locking
<1>4. Reached(rq2, n) = Reached(rq, n)
  BY <1>2, <1>3 DEF Reached
<1> QED BY <1>4 DEF rq2

\* Writing the count takes the others no further back, and this session, which was
\* below what it writes, is so no longer.
LEMMA WriteBelow ==
  ASSUME NEW rq, RequestsOK(rq), NEW n \in Nat, NEW b \in Browsers, rq[b].pc = "write",
         NEW rq2, rq2 = Moved(rq, b, "lock", rq[b].seen), NEW x \in Thresholds, x <= rq[b].seen
  PROVE  Below(rq2, rq[b].seen, x) \subseteq Below(rq, n, x) \ {b}
<1> DEFINE s == rq[b].seen
<1>1. x \in Nat /\ s \in Nat /\ x <= s /\ s # 0
  BY ThresholdsNat DEF RequestsOK, LoginRequests
<1>2. rq2[b].pc = "lock" /\ \A c \in Browsers \ {b} : rq2[c] = rq[c]
  BY MovedIs
<1> HIDE DEF s
<1>3. Level(rq2, s, b) = s
  BY <1>2 DEF Level
<1>4. b \notin Below(rq2, s, x)
  BY <1>1, <1>3 DEF Below
<1>5. ASSUME NEW c \in Browsers \ {b}, c \in Below(rq2, s, x) PROVE c \in Below(rq, n, x)
  <2>1. rq[c].seen \in Nat
    BY DEF RequestsOK, LoginRequests
  <2>2. Level(rq2, s, c) = IF rq[c].pc = "write" /\ rq[c].seen - 1 < s THEN rq[c].seen - 1 ELSE s
    BY <1>2 DEF Level
  <2>3. Level(rq2, s, c) < x
    BY <1>5 DEF Below
  <2>4. rq[c].pc = "write" /\ rq[c].seen - 1 < x
    BY <1>1, <2>1, <2>2, <2>3
  <2>5. Level(rq, n, c) < x
    BY <1>1, <2>1, <2>4 DEF Level
  <2> QED BY <2>5 DEF Below
<1>6. Below(rq2, s, x) \subseteq Browsers
  BY DEF Below
<1>7. Below(rq2, s, x) \subseteq Below(rq, n, x) \ {b}
  BY <1>4, <1>5, <1>6
<1> QED BY <1>7 DEF s

\* A count below the lock that is written leads to a later configuration.
LEMMA WriteIsLater ==
  ASSUME NEW rq, RequestsOK(rq), NEW n \in Nat, NEW b \in Browsers, rq[b].pc = "write",
         NEW rq2, rq2 = Moved(rq, b, "lock", rq[b].seen), rq[b].seen < LockAfter
  PROVE  Later(Config(rq, n), Config(rq2, rq[b].seen))
<1> DEFINE s == rq[b].seen
           d == Config(rq, n)
           e == Config(rq2, s)
<1>1. s \in Nat /\ s # 0 /\ s < LockAfter /\ LockAfter \in Nat
  BY LegacyKeysAssumption DEF RequestsOK, LoginRequests
<1>2. s \in Thresholds
  BY <1>1 DEF Thresholds
<1>3. RequestsOK(rq2)
  BY <1>1, MovedOK
<1>4. d \in Configurations /\ e \in Configurations
  BY <1>1, <1>3, ConfigType
<1>5. ASSUME NEW x \in Thresholds, x <= s PROVE e[x] <= d[x]
  <2>1. Below(rq2, s, x) \subseteq Below(rq, n, x)
    BY <1>5, WriteBelow
  <2>2. Below(rq, n, x) \in SUBSET Browsers
    BY DEF Below
  <2>3. IsFiniteSet(Below(rq, n, x))
    BY <2>2, SessionsFinite
  <2>4. Cardinality(Below(rq2, s, x)) <= Cardinality(Below(rq, n, x))
    BY <2>1, <2>3, FS_Subset
  <2> QED BY <2>4 DEF Config
<1>6. e[s] < d[s]
  <2>1. Below(rq, n, s) \in SUBSET Browsers
    BY DEF Below
  <2>2. IsFiniteSet(Below(rq, n, s)) /\ Cardinality(Below(rq, n, s)) \in Nat
    BY <2>1, SessionsFinite
  <2>3. b \in Below(rq, n, s)
    <3>1. Level(rq, n, b) < s
      BY <1>1 DEF Level
    <3> QED BY <3>1 DEF Below
  <2>4. Cardinality(Below(rq, n, s) \ {b}) = Cardinality(Below(rq, n, s)) - 1
        /\ IsFiniteSet(Below(rq, n, s) \ {b})
    BY <2>2, <2>3, FS_RemoveElement
  <2>5. s <= s
    BY <1>1
  <2>6. Below(rq2, s, s) \subseteq Below(rq, n, s) \ {b}
    BY <1>2, <2>5, WriteBelow
  <2>7. Cardinality(Below(rq2, s, s)) <= Cardinality(Below(rq, n, s) \ {b})
        /\ Cardinality(Below(rq2, s, s)) \in Nat
    BY <2>4, <2>6, FS_Subset, FS_CardinalityType
  <2>8. Cardinality(Below(rq2, s, s)) < Cardinality(Below(rq, n, s))
    BY <2>2, <2>4, <2>7
  <2> QED BY <1>2, <2>8 DEF Config
<1> HIDE DEF d, e, s
<1>7. Later(d, e)
  BY <1>2, <1>4, <1>5, <1>6, FewerIsLater
<1> QED BY <1>7 DEF d, e, s

\* Writing the count: the password no longer waits; either the configuration is
\* later, or the account is about to be locked.
LEMMA WriteCounts ==
  ASSUME NEW rq, RequestsOK(rq), NEW n \in Nat, NEW b \in Browsers, rq[b].pc = "write"
  PROVE  Reached(rq, n) <= Reached(Moved(rq, b, "lock", rq[b].seen), rq[b].seen)
<1> DEFINE s == rq[b].seen
           rq2 == Moved(rq, b, "lock", s)
<1>1. s \in Nat /\ s # 0 /\ LockAfter \in Nat
  BY LegacyKeysAssumption DEF RequestsOK, LoginRequests
<1>2. RequestsOK(rq2)
  BY <1>1, MovedOK
<1>3. rq2[b].pc = "lock" /\ rq2[b].seen = s /\ \A c \in Browsers \ {b} : rq2[c] = rq[c]
  BY MovedIs
<1> HIDE DEF rq2
<1>4. Cardinality(Uncounted(rq2)) = Cardinality(Uncounted(rq)) - 1
  <2>1. Uncounted(rq2) = Uncounted(rq) \ {b} /\ b \in Uncounted(rq)
    BY <1>3 DEF Uncounted
  <2>2. Uncounted(rq) \in SUBSET Browsers
    BY DEF Uncounted
  <2> QED BY <2>1, <2>2, SessionsFinite, FS_RemoveElement
<1>5. /\ Cardinality(Earlier(Config(rq, n))) \in Nat /\ Cardinality(Uncounted(rq)) \in Nat
      /\ Cardinality(Locking(rq)) \in Nat
  BY ReachedNat
<1>6. Cardinality(Earlier(Config(rq2, s))) \in Nat /\ Cardinality(Locking(rq2)) \in Nat
  BY <1>1, <1>2, ReachedNat
<1>7. CASE s < LockAfter
  <2>1. Locking(rq2) = Locking(rq)
    BY <1>1, <1>3, <1>7 DEF Locking
  <2>2. Later(Config(rq, n), Config(rq2, s))
    BY <1>7, WriteIsLater DEF rq2
  <2>3. Cardinality(Earlier(Config(rq, n))) + 1 <= Cardinality(Earlier(Config(rq2, s)))
    BY <1>1, <1>2, <2>2, ConfigType, LaterHasMore
  <2>4. Reached(rq, n) <= Reached(rq2, s)
    BY <1>4, <1>5, <1>6, <2>1, <2>3 DEF Reached
  <2> QED BY <2>4 DEF rq2
<1>8. CASE ~(s < LockAfter)
  <2>1. Locking(rq2) = Locking(rq) \cup {b} /\ b \notin Locking(rq)
    BY <1>1, <1>3, <1>8 DEF Locking
  <2>2. Locking(rq) \in SUBSET Browsers
    BY DEF Locking
  <2>3. Cardinality(Locking(rq2)) = Cardinality(Locking(rq)) + 1
    BY <2>1, <2>2, SessionsFinite, FS_AddElement
  <2>4. ASSUME NEW x \in Thresholds PROVE Below(rq2, s, x) \subseteq Below(rq, n, x)
    <3>1. x <= s
      BY <1>1, <1>8 DEF Thresholds
    <3> QED BY <3>1, WriteBelow DEF rq2
  <2>5. Cardinality(Earlier(Config(rq, n))) <= Cardinality(Earlier(Config(rq2, s)))
    BY <1>1, <1>2, <2>4, FewerBelow
  <2>6. Reached(rq, n) <= Reached(rq2, s)
    BY <1>4, <1>5, <1>6, <2>3, <2>5 DEF Reached
  <2> QED BY <2>6 DEF rq2
<1> QED BY <1>7, <1>8

\* A session that counts nothing, before and after its step, or has counted a
\* password that does not lock the account, changes nothing.
LEMMA OtherStays ==
  ASSUME NEW rq, RequestsOK(rq), NEW n \in Nat, NEW b \in Browsers, NEW pc, NEW seen,
         rq[b].pc \notin {"read", "write"}, rq[b].pc = "lock" => ~(rq[b].seen >= LockAfter),
         pc \notin {"read", "write", "lock"}
  PROVE  Reached(Moved(rq, b, pc, seen), n) = Reached(rq, n)
<1> DEFINE rq2 == Moved(rq, b, pc, seen)
<1>1. rq2[b].pc = pc /\ \A c \in Browsers \ {b} : rq2[c] = rq[c]
  BY MovedIs
<1> HIDE DEF rq2
<1>2. Config(rq2, n) = Config(rq, n)
  <2>1. \A c \in Browsers : Level(rq2, n, c) = Level(rq, n, c)
    BY <1>1 DEF Level
  <2> QED BY <2>1, SameLevels
<1>3. Uncounted(rq2) = Uncounted(rq) /\ Locking(rq2) = Locking(rq)
  BY <1>1 DEF Uncounted, Locking
<1>4. Reached(rq2, n) = Reached(rq, n)
  BY <1>2, <1>3 DEF Reached
<1> QED BY <1>4 DEF rq2

\* A restart forgets the requests: what they were counting is not in wrongs, and no
\* session takes the count back any more.
LEMMA RestartLeaves ==
  ASSUME KeysTypeOK, RequestsOK(request), NEW w \in Nat, w <= Reached(request, attempts),
         NEW w2, w2 = IF w > Cardinality(Counting) THEN w - Cardinality(Counting) ELSE 0,
         NEW rq2, rq2 = [b \in Browsers |-> NoRequest]
  PROVE  w2 <= Reached(rq2, attempts)
<1>1. attempts \in Nat
  BY DEF KeysTypeOK
<1>2. RequestsOK(rq2)
  BY DEF RequestsOK, LoginRequests, NoRequest
<1>3. ASSUME NEW x \in Thresholds PROVE Below(rq2, attempts, x) \subseteq Below(request, attempts, x)
  <2>1. \A b \in Browsers : /\ Level(rq2, attempts, b) = attempts
                            /\ Level(request, attempts, b) <= attempts
                            /\ Level(request, attempts, b) \in Nat
    BY <1>1, LevelNat DEF Level, NoRequest
  <2>2. x \in Nat /\ \A k, m, l \in Nat : k <= m /\ m < l => k < l
    BY ThresholdsNat
  <2> QED BY <1>1, <2>1, <2>2 DEF Below
<1>4. Cardinality(Earlier(Config(request, attempts))) <= Cardinality(Earlier(Config(rq2, attempts)))
  BY <1>1, <1>2, <1>3, FewerBelow
<1>5. Cardinality(Uncounted(request)) + Cardinality(Locking(request)) <= Cardinality(Counting)
      /\ Cardinality(Counting) \in Nat
  <2>1. /\ Uncounted(request) \in SUBSET Browsers /\ Locking(request) \in SUBSET Browsers
        /\ Counting \in SUBSET Browsers
    BY DEF Uncounted, Locking, Counting
  <2>2. Uncounted(request) \cap Locking(request) = {}
        /\ Uncounted(request) \cup Locking(request) \subseteq Counting
    BY DEF Uncounted, Locking, Counting
  <2>3. IsFiniteSet(Uncounted(request)) /\ IsFiniteSet(Locking(request)) /\ IsFiniteSet(Counting)
        /\ Cardinality(Uncounted(request)) \in Nat /\ Cardinality(Locking(request)) \in Nat
        /\ Cardinality(Counting) \in Nat
    BY <2>1, SessionsFinite
  <2>4. Cardinality(Uncounted(request) \cup Locking(request))
          = Cardinality(Uncounted(request)) + Cardinality(Locking(request))
    <3>1. Cardinality(Uncounted(request) \cup Locking(request))
            = Cardinality(Uncounted(request)) + Cardinality(Locking(request)) - Cardinality({})
      BY <2>2, <2>3, FS_Union
    <3> QED BY <2>3, <3>1, FS_EmptySet
  <2>5. Cardinality(Uncounted(request) \cup Locking(request)) <= Cardinality(Counting)
    BY <2>2, <2>3, FS_Subset
  <2> QED BY <2>3, <2>4, <2>5
<1>6. /\ Cardinality(Earlier(Config(rq2, attempts))) \in Nat /\ Reached(rq2, attempts) \in Nat
      /\ Cardinality(Uncounted(rq2)) \in Nat /\ Cardinality(Locking(rq2)) \in Nat
  BY <1>1, <1>2, ReachedNat
<1>7. /\ Cardinality(Earlier(Config(request, attempts))) \in Nat
      /\ Cardinality(Uncounted(request)) \in Nat /\ Cardinality(Locking(request)) \in Nat
  BY <1>1, ReachedNat
<1>8. Cardinality(Earlier(Config(rq2, attempts))) <= Reached(rq2, attempts)
  BY <1>6 DEF Reached
<1>9. w <= Cardinality(Earlier(Config(request, attempts)))
             + Cardinality(Uncounted(request)) + Cardinality(Locking(request))
  BY DEF Reached
<1>10. CASE w > Cardinality(Counting)
  <2>1. w2 = w - Cardinality(Counting)
    BY <1>10
  <2> QED BY <1>4, <1>5, <1>6, <1>7, <1>8, <1>9, <2>1
<1>11. CASE ~(w > Cardinality(Counting))
  BY <1>6, <1>11
<1> QED BY <1>10, <1>11

(***************************************************************************)
(* The account is locked after FailuresToLock wrong passwords, for any     *)
(* number of sessions and any thresholds (LegacyKeys).                     *)
(***************************************************************************)
LockInv ==
  /\ KeysTypeOK
  /\ RequestsOK(request)
  /\ lockout = 0 => wrongs <= Reached(request, attempts)

\* A failure counted as the LockAfter-th or later locks the account for a while, and
\* an earlier one does not.
LEMMA LockDurations ==
  ASSUME NEW n \in Nat
  PROVE  /\ LockDuration(n) \in Nat
         /\ n >= LockAfter <=> LockDuration(n) > 0
BY LegacyKeysAssumption DEF LockDuration

LEMMA KeysTyped ==
  ASSUME KeysTypeOK, KeysNext
  PROVE  KeysTypeOK'
<1> USE LegacyKeysAssumption
<1>1. CASE RegisterUser BY <1>1 DEF RegisterUser, KeysTypeOK
<1>2. CASE RestartNode
  <2>1. Counting \in SUBSET Browsers
    BY DEF Counting
  <2>2. Cardinality(Counting) \in Nat
    BY <2>1, SessionsFinite
  <2>3. wrongs' \in 0..MaxTests
    BY <1>2, <2>2 DEF RestartNode, KeysTypeOK
  <2> QED BY <1>2, <2>3 DEF RestartNode, KeysTypeOK, NoRequest
<1>3. CASE KeysTick BY <1>3 DEF KeysTick, KeysTypeOK
<1>4. ASSUME NEW b \in Browsers, CheckLockout(b) PROVE KeysTypeOK'
  BY <1>4 DEF CheckLockout, Goto, KeysTypeOK
<1>5. ASSUME NEW b \in Browsers, VerifyRight(b) PROVE KeysTypeOK'
  BY <1>5 DEF VerifyRight, Goto, KeysTypeOK
<1>6. ASSUME NEW b \in Browsers, VerifyWrong(b) PROVE KeysTypeOK'
  BY <1>6 DEF VerifyWrong, Goto, KeysTypeOK
<1>7. ASSUME NEW b \in Browsers, ReadAttempts(b) PROVE KeysTypeOK'
  BY <1>7 DEF ReadAttempts, Goto, KeysTypeOK
<1>8. ASSUME NEW b \in Browsers, WriteAttempts(b) PROVE KeysTypeOK'
  BY <1>8 DEF WriteAttempts, Goto, KeysTypeOK
<1>9. ASSUME NEW b \in Browsers, SetLockout(b) PROVE KeysTypeOK'
  <2>1. request[b].seen \in Nat
    BY DEF KeysTypeOK
  <2>2. LockDuration(request[b].seen) \in Nat
    BY <2>1, LockDurations
  <2>3. lockout' \in Nat
    BY <1>9, <2>2 DEF SetLockout, KeysTypeOK
  <2> QED BY <1>9, <2>3 DEF SetLockout, Goto, KeysTypeOK
<1>10. ASSUME NEW b \in Browsers, ResetAttempts(b) PROVE KeysTypeOK'
  BY <1>10 DEF ResetAttempts, Goto, KeysTypeOK
<1>11. ASSUME NEW b \in Browsers, StartSession(b) PROVE KeysTypeOK'
  BY <1>11 DEF StartSession, CacheDbKey, Goto, KeysTypeOK
<1>12. ASSUME NEW b \in Browsers, EndSession(b) PROVE KeysTypeOK'
  BY <1>12 DEF EndSession, KeysTypeOK
<1>13. ASSUME NEW b \in Browsers, SaveSecret(b) PROVE KeysTypeOK'
  BY <1>13 DEF SaveSecret, KeysTypeOK
<1> QED BY <1>1, <1>2, <1>3, <1>4, <1>5, <1>6, <1>7, <1>8, <1>9, <1>10, <1>11, <1>12, <1>13 DEF KeysNext

\* The steps of a session on its request, as steps of Moved.
LEMMA Moves ==
  ASSUME NEW b \in Browsers, NEW pc, NEW seen, Goto(b, pc, seen)
  PROVE  request' = Moved(request, b, pc, seen)
BY DEF Goto, Moved

LEMMA RequestTyped ==
  ASSUME LockInv, NEW b \in Browsers
  PROVE  /\ RequestsOK(request) /\ attempts \in Nat /\ wrongs \in Nat /\ lockout \in Nat /\ moment \in Nat
         /\ request[b].seen \in Nat /\ (request[b].pc = "write" => request[b].seen # 0)
         /\ Reached(request, attempts) \in Nat
<1>1. attempts \in Nat /\ wrongs \in Nat /\ lockout \in Nat /\ moment \in Nat
  BY DEF LockInv, KeysTypeOK
<1>2. request[b].seen \in Nat /\ (request[b].pc = "write" => request[b].seen # 0)
  BY DEF LockInv, RequestsOK, LoginRequests
<1> QED BY <1>1, <1>2, ReachedNat DEF LockInv

\* The requests stay requests.
LEMMA RequestsKept ==
  ASSUME LockInv, KeysNext
  PROVE  RequestsOK(request')
<1> DEFINE PCs == {"none", "verify", "read", "write", "lock", "reset", "session"}
<1>1. RequestsOK(request)
  BY DEF LockInv
<1>2. ASSUME NEW b \in Browsers, NEW pc \in PCs, NEW seen \in Nat, Goto(b, pc, seen),
             pc = "write" => seen # 0
      PROVE  RequestsOK(request')
  <2>1. request' = Moved(request, b, pc, seen)
    BY <1>2, Moves
  <2>2. RequestsOK(Moved(request, b, pc, seen))
    BY <1>1, <1>2, MovedOK
  <2> QED BY <2>1, <2>2
<1>3. \A b \in Browsers : request[b].seen \in Nat /\ attempts \in Nat
  BY RequestTyped
<1>4. CASE RestartNode
  BY <1>4 DEF RestartNode, RequestsOK, LoginRequests, NoRequest
<1>5. CASE UNCHANGED request
  BY <1>1, <1>5
<1>6. 0 \in Nat /\ \A n \in Nat : n + 1 \in Nat /\ n + 1 # 0
  OBVIOUS
<1>7. ASSUME NEW b \in Browsers, CheckLockout(b) PROVE RequestsOK(request')
  BY <1>2, <1>6, <1>7 DEF CheckLockout
<1>8. ASSUME NEW b \in Browsers, VerifyRight(b) PROVE RequestsOK(request')
  BY <1>2, <1>6, <1>8 DEF VerifyRight
<1>9. ASSUME NEW b \in Browsers, VerifyWrong(b) PROVE RequestsOK(request')
  BY <1>2, <1>6, <1>9 DEF VerifyWrong
<1>10. ASSUME NEW b \in Browsers, ReadAttempts(b) PROVE RequestsOK(request')
  BY <1>2, <1>3, <1>6, <1>10 DEF ReadAttempts
<1>11. ASSUME NEW b \in Browsers, WriteAttempts(b) PROVE RequestsOK(request')
  BY <1>2, <1>3, <1>11 DEF WriteAttempts
<1>12. ASSUME NEW b \in Browsers, SetLockout(b) PROVE RequestsOK(request')
  BY <1>2, <1>6, <1>12 DEF SetLockout
<1>13. ASSUME NEW b \in Browsers, ResetAttempts(b) PROVE RequestsOK(request')
  BY <1>2, <1>6, <1>13 DEF ResetAttempts
<1>14. ASSUME NEW b \in Browsers, StartSession(b) PROVE RequestsOK(request')
  BY <1>2, <1>6, <1>14 DEF StartSession
<1>15. ASSUME NEW b \in Browsers, EndSession(b) \/ SaveSecret(b) PROVE UNCHANGED request
  BY <1>15 DEF EndSession, SaveSecret
<1>16. RegisterUser \/ KeysTick => UNCHANGED request
  BY DEF RegisterUser, KeysTick
<1> QED BY <1>4, <1>5, <1>7, <1>8, <1>9, <1>10, <1>11, <1>12, <1>13, <1>14, <1>15, <1>16 DEF KeysNext

\* No step leaves an open account with more wrong passwords than lead to its
\* configuration.
LEMMA CountsKept ==
  ASSUME LockInv, KeysNext, lockout' = 0
  PROVE  wrongs' <= Reached(request', attempts')
<1>1. /\ RequestsOK(request) /\ attempts \in Nat /\ wrongs \in Nat /\ lockout \in Nat
      /\ Reached(request, attempts) \in Nat
  BY ReachedNat DEF LockInv, KeysTypeOK
<1>2. /\ attempts' \in Nat /\ wrongs' \in Nat /\ RequestsOK(request')
  <2>1. KeysTypeOK'
    BY KeysTyped DEF LockInv
  <2> QED BY <2>1, RequestsKept DEF KeysTypeOK
<1>3. Reached(request', attempts') \in Nat
  BY <1>2, ReachedNat
<1>4. lockout = 0 => wrongs <= Reached(request, attempts)
  BY DEF LockInv
<1>5. ASSUME NEW b \in Browsers, NEW pc, NEW seen, Goto(b, pc, seen), UNCHANGED <<attempts, wrongs, lockout>>,
             request[b].pc \notin {"read", "write"},
             request[b].pc = "lock" => ~(request[b].seen >= LockAfter),
             pc \notin {"read", "write", "lock"}
      PROVE  wrongs' <= Reached(request', attempts')
  <2>1. Reached(Moved(request, b, pc, seen), attempts) = Reached(request, attempts)
    BY <1>1, <1>5, OtherStays
  <2>2. Reached(request', attempts') = Reached(request, attempts)
    BY <1>5, <2>1, Moves
  <2>3. wrongs <= Reached(request, attempts)
    BY <1>4, <1>5
  <2> QED BY <1>5, <2>2, <2>3
<1>6. CASE UNCHANGED <<request, attempts, wrongs, lockout>>
  BY <1>4, <1>6
<1>7. CASE wrongs' = 0
  BY <1>3, <1>7
<1>8. CASE RestartNode
  <2>1. UNCHANGED <<attempts, lockout>> /\ request' = [b \in Browsers |-> NoRequest]
        /\ wrongs' = IF wrongs > Cardinality(Counting) THEN wrongs - Cardinality(Counting) ELSE 0
    BY <1>8 DEF RestartNode
  <2>2. KeysTypeOK /\ wrongs <= Reached(request, attempts)
    BY <1>4, <2>1 DEF LockInv
  <2>3. wrongs' <= Reached(request', attempts)
    BY <1>1, <2>1, <2>2, RestartLeaves
  <2> QED BY <2>1, <2>3
<1>9. ASSUME NEW b \in Browsers, CheckLockout(b) PROVE wrongs' <= Reached(request', attempts')
  <2>1. Goto(b, "verify", 0) /\ UNCHANGED <<attempts, wrongs, lockout>> /\ request[b].pc = "none"
    BY <1>9 DEF CheckLockout, NoRequest
  <2> QED BY <1>5, <2>1
<1>10. ASSUME NEW b \in Browsers, VerifyRight(b) PROVE wrongs' <= Reached(request', attempts')
  <2>1. Goto(b, "reset", 0) /\ UNCHANGED <<attempts, wrongs, lockout>> /\ request[b].pc = "verify"
    BY <1>10 DEF VerifyRight
  <2> QED BY <1>5, <2>1
<1>11. ASSUME NEW b \in Browsers, VerifyWrong(b) PROVE wrongs' <= Reached(request', attempts')
  <2>1. /\ Goto(b, "read", 0) /\ UNCHANGED <<attempts, lockout>> /\ request[b].pc = "verify"
        /\ wrongs' = wrongs + 1
    BY <1>11 DEF VerifyWrong
  <2>2. Reached(request', attempts') = Reached(request, attempts) + 1
    BY <1>1, <2>1, Moves, WrongWaits
  <2>3. wrongs <= Reached(request, attempts)
    BY <1>4, <2>1
  <2> QED BY <1>1, <2>1, <2>2, <2>3
<1>12. ASSUME NEW b \in Browsers, ReadAttempts(b) PROVE wrongs' <= Reached(request', attempts')
  <2>1. Goto(b, "write", attempts + 1) /\ UNCHANGED <<attempts, wrongs, lockout>> /\ request[b].pc = "read"
    BY <1>12 DEF ReadAttempts
  <2>2. Reached(request', attempts') = Reached(request, attempts)
    BY <1>1, <2>1, Moves, ReadStays
  <2> QED BY <1>4, <2>1, <2>2
<1>13. ASSUME NEW b \in Browsers, WriteAttempts(b) PROVE wrongs' <= Reached(request', attempts')
  <2>1. /\ Goto(b, "lock", request[b].seen) /\ UNCHANGED <<wrongs, lockout>> /\ request[b].pc = "write"
        /\ attempts' = request[b].seen
    BY <1>13 DEF WriteAttempts
  <2>2. Reached(request, attempts) <= Reached(request', attempts')
    BY <1>1, <2>1, Moves, WriteCounts
  <2>3. wrongs <= Reached(request, attempts)
    BY <1>4, <2>1
  <2> QED BY <1>1, <1>3, <2>1, <2>2, <2>3
<1>14. ASSUME NEW b \in Browsers, SetLockout(b) PROVE wrongs' <= Reached(request', attempts')
  <2>1. request[b].seen \in Nat /\ moment \in Nat
    BY RequestTyped
  <2>2. /\ Goto(b, "none", 0) /\ UNCHANGED <<attempts, wrongs>> /\ request[b].pc = "lock"
        /\ lockout' = IF LockDuration(request[b].seen) > 0
                      THEN moment + LockDuration(request[b].seen) ELSE lockout
    BY <1>14 DEF SetLockout
  <2>3. LockDuration(request[b].seen) \in Nat
        /\ (request[b].seen >= LockAfter <=> LockDuration(request[b].seen) > 0)
    BY <2>1, LockDurations
  <2>4. ~(LockDuration(request[b].seen) > 0)
    BY <2>1, <2>2, <2>3
  <2>5. lockout' = lockout /\ ~(request[b].seen >= LockAfter)
    BY <2>2, <2>3, <2>4
  <2> QED BY <1>5, <2>2, <2>5
<1>15. ASSUME NEW b \in Browsers, ResetAttempts(b) \/ StartSession(b) PROVE wrongs' = 0
  BY <1>15 DEF ResetAttempts, StartSession
<1>16. ASSUME NEW b \in Browsers, EndSession(b) \/ SaveSecret(b)
       PROVE  UNCHANGED <<request, attempts, wrongs, lockout>>
  BY <1>16 DEF EndSession, SaveSecret
<1>17. RegisterUser \/ KeysTick => UNCHANGED <<request, attempts, wrongs, lockout>>
  BY DEF RegisterUser, KeysTick
<1> QED BY <1>6, <1>7, <1>8, <1>9, <1>10, <1>11, <1>12, <1>13, <1>14, <1>15, <1>16, <1>17 DEF KeysNext

LEMMA LockInitially == KeysInit => LockInv
<1> SUFFICES ASSUME KeysInit PROVE LockInv
  OBVIOUS
<1>1. KeysTypeOK
  <2>1. 0 \in 0..MaxLogins /\ 0 \in 0..MaxTests /\ 1 \in 1..MaxMoments
    BY LegacyKeysAssumption
  <2>2. cookie \in [Browsers -> 0..MaxLogins] /\ logins \in 0..MaxLogins
        /\ wrongs \in 0..MaxTests /\ moment \in 1..MaxMoments
    BY <2>1 DEF KeysInit
  <2>3. /\ registered \in BOOLEAN /\ attempts \in Nat /\ lockout \in Nat
        /\ keyCache \subseteq [id : 1..MaxLogins, expiry : Nat]
        /\ storedSecret \in {"none", "encrypted", "plain"}
    BY DEF KeysInit
  <2>4. request \in [Browsers -> [pc : {"none", "verify", "read", "write", "lock", "reset", "session"},
                                  seen : Nat]]
    BY DEF KeysInit, NoRequest
  <2> QED BY <2>2, <2>3, <2>4 DEF KeysTypeOK
<1>2. RequestsOK(request)
  BY DEF KeysInit, RequestsOK, LoginRequests, NoRequest
<1>3. Reached(request, attempts) \in Nat
  BY <1>1, <1>2, ReachedNat DEF KeysTypeOK
<1>4. wrongs = 0
  BY DEF KeysInit
<1> QED BY <1>1, <1>2, <1>3, <1>4 DEF LockInv

LEMMA LockStep ==
  ASSUME LockInv, [KeysNext]_keyVars
  PROVE  LockInv'
<1>1. CASE KeysNext
  <2>1. KeysTypeOK'
    BY <1>1, KeysTyped DEF LockInv
  <2> QED BY <1>1, <2>1, RequestsKept, CountsKept DEF LockInv
<1>2. CASE UNCHANGED keyVars
  <2>1. KeysTypeOK'
    BY <1>2 DEF keyVars, LockInv, KeysTypeOK
  <2>2. UNCHANGED <<request, attempts, lockout, wrongs>>
    BY <1>2 DEF keyVars
  <2> QED BY <2>1, <2>2 DEF LockInv
<1> QED BY <1>1, <1>2

\* With no password waiting, an open account has seen fewer than FailuresToLock.
LEMMA LockConclusion ==
  ASSUME LockInv
  PROVE  LockedAfterFailures
<1> SUFFICES ASSUME wrongs >= FailuresToLock, Counting = {}, lockout = 0 PROVE FALSE
  BY DEF LockedAfterFailures
<1>1. /\ RequestsOK(request) /\ attempts \in Nat /\ wrongs \in Nat
  BY DEF LockInv, KeysTypeOK
<1>2. Cardinality(Uncounted(request)) = 0 /\ Cardinality(Locking(request)) = 0
  <2>1. Uncounted(request) = {} /\ Locking(request) = {}
    BY DEF Counting, Uncounted, Locking
  <2> QED BY <2>1, FS_EmptySet
<1>3. /\ Cardinality(Earlier(Config(request, attempts))) \in Nat
      /\ Cardinality(Earlier(Config(request, attempts))) < FailuresToLock /\ FailuresToLock \in Nat
  BY <1>1, ConfigType, EarlierCount, NotAllEarlier
<1>4. wrongs <= Cardinality(Earlier(Config(request, attempts)))
  BY <1>2, <1>3 DEF LockInv, Reached
<1> QED BY <1>1, <1>3, <1>4

\* The type invariant of login at a legacy node.
THEOREM KeysTyping == KeysSpec => []KeysTypeOK
<1>1. LockInv => KeysTypeOK
  BY DEF LockInv
<1> QED BY <1>1, LockInitially, LockStep, PTL DEF KeysSpec

\* Failures that overlap overwrite each other's count, but only so often: whatever
\* the interleaving of the sessions, FailuresToLock wrong passwords lock the account.
THEOREM LegacyLockout == KeysSpec => []LockedAfterFailures
<1>1. LockInv => LockedAfterFailures
  BY LockConclusion
<1> QED BY <1>1, LockInitially, LockStep, PTL DEF KeysSpec
=============================================================================
