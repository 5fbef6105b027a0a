--------------------------- MODULE LegacyContacts ---------------------------
(***************************************************************************)
(* The contact handshake of the legacy node: the Flask handlers of           *)
(* transports/p2p/server.py, the contacts table of database.py, and the      *)
(* Python client of core/sdk.py.  Two nodes add each other.  Every database  *)
(* call commits by itself on its own connection, and handlers run in         *)
(* threads, so a handler is one action per database write.  Diffie-Hellman  *)
(* gives two key pairs one secret: it is modelled as the set of the two      *)
(* keys.  A post over Tor is sent once by the thread pool: it arrives in any *)
(* order, or is lost.                                                       *)
(***************************************************************************)
EXTENDS Naturals, FiniteSets

CONSTANTS
    Nodes,          \* the two nodes
    MaxAdds,        \* bound: /api/contacts/add requests of a node
    MaxAccepts,     \* bound: accept_contact calls of a node
    MaxRestarts,    \* bound: restarts of the clients together
    MaxFaults,      \* bound: kinds of fault in one behaviour, a restart is one
    NoRow

ASSUME LegacyContactsAssumption ==
    /\ \E a, b \in Nodes : a # b /\ Nodes = {a, b}
    /\ MaxAdds \in Nat /\ MaxAccepts \in Nat /\ MaxRestarts \in Nat /\ MaxFaults \in Nat

VARIABLES
    contactRow,     \* node -> its contacts row for the other node, or NoRow
    myPubkeyFor,    \* node -> config my_pubkey_for_<peer>, or NoRow
    client,         \* node -> number of the client process, whose key pair
                    \* is <<node, number>>
    chains,         \* node -> [secret, mine, peer] of the client's
                    \* init_contact_session, or NoRow
    onion,          \* posts on their way: handshakes and accepts
    threads,        \* handlers and client calls in progress
    uiEvents,       \* handshake_accepted events on their way to a client
    adds, accepts,  \* node -> requests made (for the bounds)
    faults,         \* history: "lost", "crash", "delete" and "restart", once happened
    overtaken       \* history: clients whose session is of an answer older than
                    \* one they assigned before

legacyContactVars == <<contactRow, myPubkeyFor, client, chains, onion, threads,
                       uiEvents, adds, accepts, faults, overtaken>>

Peer(n) == CHOOSE m \in Nodes : m # n
Keys == Nodes \X (0..MaxRestarts)
MyKey(n) == <<n, client[n]>>

\* protocol.derive_shared_secret
Secret(mine, peer) == {mine, peer}

\* a thread: key is the key of the post or call it serves, peer the key read
\* from the contact row
Thread(n, pc, key, secret, no) ==
    [node |-> n, pc |-> pc, key |-> key, peer |-> NoRow, secret |-> secret,
     client |-> client[n], no |-> no]

\* NoRow is none of the secrets and sessions whose absence it stands for
ASSUME NoRowAssumption ==
    \A s \in SUBSET Keys, k \in Keys, p \in Keys \cup {NoRow} :
        NoRow # s /\ NoRow # [secret |-> s, mine |-> k, peer |-> p]

\* where a thread is: a request of the user, a post of the peer, a client's call
ThreadSteps == {"config", "secret", "status", "post", "save", "store", "sync", "assign", "late"}

Row(status) == [status |-> status, secret |-> NoRow, key |-> NoRow]

LegacyContactsTypeOK ==
    /\ \A n \in Nodes : contactRow[n] = NoRow \/
         /\ contactRow[n].status \in {"pending_outgoing", "pending_incoming", "accepted"}
         /\ contactRow[n].secret \in {NoRow} \cup SUBSET Keys
         /\ contactRow[n].key \in Keys \cup {NoRow}
    /\ myPubkeyFor \in [Nodes -> Keys \cup {NoRow}]
    /\ client \in [Nodes -> 0..MaxRestarts]
    /\ \A n \in Nodes : chains[n] = NoRow \/ chains[n].secret \in SUBSET Keys
    /\ \A p \in onion : p.to \in Nodes /\ p.path \in {"handshake", "accept"} /\ p.key \in Keys
    /\ \A t \in threads : t.node \in Nodes /\ t.pc \in ThreadSteps
    /\ \A e \in uiEvents : e.node \in Nodes /\ e.key \in Keys
    /\ adds \in [Nodes -> 0..MaxAdds] /\ accepts \in [Nodes -> 0..MaxAccepts]
    /\ faults \subseteq {"lost", "crash", "delete", "restart"} /\ overtaken \subseteq Nodes

LegacyContactsInit ==
    /\ contactRow = [n \in Nodes |-> NoRow] /\ myPubkeyFor = [n \in Nodes |-> NoRow]
    /\ client = [n \in Nodes |-> 0] /\ chains = [n \in Nodes |-> NoRow]
    /\ onion = {} /\ threads = {} /\ uiEvents = {}
    /\ adds = [n \in Nodes |-> 0] /\ accepts = [n \in Nodes |-> 0]
    /\ faults = {} /\ overtaken = {}

\* a fault happens, recorded for the properties
Fault(kind) ==
    /\ faults' = faults \cup {kind}
    /\ Cardinality(faults') <= MaxFaults

(***************************************************************************)
(* The contacts table.                                                      *)
(***************************************************************************)
\* database.add_contact: INSERT OR IGNORE, the address is the primary key
AddRow(n, status) ==
    contactRow' = [contactRow EXCEPT ![n] = IF @ = NoRow THEN Row(status) ELSE @]

\* database.update_contact_secret: also makes the contact accepted; an UPDATE
\* of a row that is gone changes nothing
UpdateContactSecret(n, secret, key) ==
    contactRow' = [contactRow EXCEPT ![n] =
        IF @ = NoRow THEN NoRow ELSE [status |-> "accepted", secret |-> secret, key |-> key]]

\* database.update_contact_status
UpdateContactStatus(n, status) ==
    contactRow' = [contactRow EXCEPT ![n] = IF @ = NoRow THEN NoRow ELSE [@ EXCEPT !.status = status]]

(***************************************************************************)
(* The local user's requests.                                               *)
(***************************************************************************)
\* add_contact, first commit: the row.  The key is the client's.
AddContact(n) ==
    /\ adds[n] < MaxAdds
    /\ adds' = [adds EXCEPT ![n] = @ + 1]
    /\ AddRow(n, "pending_outgoing")
    /\ threads' = threads \cup {Thread(n, "config", MyKey(n), NoRow, adds[n])}
    /\ UNCHANGED <<myPubkeyFor, client, chains, onion, uiEvents, accepts, faults, overtaken>>

\* ... second commit: set_config, whatever became of the row; then one handshake
\* from the pool.  A second request sends a second handshake.
AddContactConfig(t) ==
    /\ t.pc = "config"
    /\ myPubkeyFor' = [myPubkeyFor EXCEPT ![t.node] = t.key]
    /\ onion' = onion \cup {[to |-> Peer(t.node), path |-> "handshake", key |-> t.key, no |-> t.no]}
    /\ threads' = threads \ {t}
    /\ UNCHANGED <<contactRow, client, chains, uiEvents, adds, accepts, faults, overtaken>>

\* AnonyMusClient.accept_contact: reads the contact list and derives the secret
\* with the key it finds there, whatever the contact's status
ReadAndDerive(n) ==
    /\ accepts[n] < MaxAccepts
    /\ contactRow[n] # NoRow /\ contactRow[n].key # NoRow
    /\ accepts' = [accepts EXCEPT ![n] = @ + 1]
    /\ threads' = threads \cup {Thread(n, "post", MyKey(n), Secret(MyKey(n), contactRow[n].key), accepts[n])}
    /\ UNCHANGED <<contactRow, myPubkeyFor, client, chains, onion, uiEvents, adds, faults, overtaken>>

\* accept_contact on the server reads the contact: 404 when it is gone.  The
\* key it read is the one it stores beside the client's secret.
AcceptLookup(t) ==
    /\ t.pc = "post"
    /\ threads' = (threads \ {t}) \cup
         (IF contactRow[t.node] = NoRow THEN {}
          ELSE {[t EXCEPT !.pc = "save", !.peer = contactRow[t.node].key]})
    /\ UNCHANGED <<contactRow, myPubkeyFor, client, chains, onion, uiEvents, adds, accepts, faults, overtaken>>

\* ... stores the secret, and has the pool post the acceptance; the client
\* then calls sync_contacts
AcceptSave(t) ==
    /\ t.pc = "save"
    /\ UpdateContactSecret(t.node, t.secret, t.peer)
    /\ onion' = onion \cup {[to |-> Peer(t.node), path |-> "accept", key |-> t.key, no |-> t.no]}
    /\ threads' = (threads \ {t}) \cup {[t EXCEPT !.pc = "sync", !.secret = NoRow, !.peer = NoRow]}
    /\ UNCHANGED <<myPubkeyFor, client, chains, uiEvents, adds, accepts, faults, overtaken>>

\* sync_contacts at the end of accept_contact and of on_handshake_accepted: the
\* contact list is fetched.  An accepted contact that has a secret will get a
\* session of this answer, which makes every other answer that waits a late one.
\* A thread of a client that was restarted is gone.
FetchContacts(t) ==
    LET r == contactRow[t.node]
        mine == IF myPubkeyFor[t.node] # NoRow THEN myPubkeyFor[t.node] ELSE MyKey(t.node)
        answered == t.client = client[t.node] /\ r # NoRow /\ r.status = "accepted" /\ r.secret # NoRow
        outdated == {u \in threads : u.node = t.node /\ u.pc = "assign"}
    IN
    /\ t.pc = "sync"
    /\ threads' = IF answered
                  THEN (threads \ ({t} \cup outdated))
                         \cup {[u EXCEPT !.pc = "late"] : u \in outdated}
                         \cup {[t EXCEPT !.pc = "assign", !.secret = r.secret, !.key = mine, !.peer = r.key]}
                  ELSE threads \ {t}
    /\ UNCHANGED <<contactRow, myPubkeyFor, client, chains, onion, uiEvents, adds, accepts, faults, overtaken>>

\* init_contact_session with the answer.  A late one replaces the session of the
\* newest answer, if that was assigned before.
AssignSession(t) ==
    /\ t.pc \in {"assign", "late"}
    /\ threads' = threads \ {t}
    /\ chains' = [chains EXCEPT ![t.node] = [secret |-> t.secret, mine |-> t.key, peer |-> t.peer]]
    /\ overtaken' = IF t.pc = "assign" THEN overtaken \ {t.node}
                    ELSE IF \E u \in threads : u.node = t.node /\ u.pc = "assign" THEN overtaken
                    ELSE overtaken \cup {t.node}
    /\ UNCHANGED <<contactRow, myPubkeyFor, client, onion, uiEvents, adds, accepts, faults>>

\* delete_contact; nuke_database (/api/reset-data) deletes every row this way.
\* The config entries stay.
DeleteContact(n) ==
    /\ contactRow[n] # NoRow
    /\ contactRow' = [contactRow EXCEPT ![n] = NoRow]
    /\ Fault("delete")
    /\ UNCHANGED <<myPubkeyFor, client, chains, onion, threads, uiEvents, adds, accepts, overtaken>>

(***************************************************************************)
(* Posts of the other node.                                                 *)
(***************************************************************************)
\* p2p_handshake, first write: add_contact.  No status is ever "blocked".
HandshakeInsert(p) ==
    /\ p.path = "handshake"
    /\ onion' = onion \ {p}
    /\ AddRow(p.to, "pending_incoming")
    /\ threads' = threads \cup {Thread(p.to, "secret", p.key, NoRow, p.no)}
    /\ UNCHANGED <<myPubkeyFor, client, chains, uiEvents, adds, accepts, faults, overtaken>>

\* p2p_handshake, second write: the key, no secret, and (as a side effect) the
\* status accepted
HandshakeSecret(t) ==
    /\ t.pc = "secret"
    /\ UpdateContactSecret(t.node, NoRow, t.key)
    /\ threads' = (threads \ {t}) \cup {[t EXCEPT !.pc = "status"]}
    /\ UNCHANGED <<myPubkeyFor, client, chains, onion, uiEvents, adds, accepts, faults, overtaken>>

\* Mutant of HandshakeStatus: the status is not set back.
HandshakeStatusForgotten(t) ==
    /\ t.pc = "status"
    /\ threads' = threads \ {t}
    /\ UNCHANGED <<contactRow, myPubkeyFor, client, chains, onion, uiEvents, adds, accepts, faults, overtaken>>

\* p2p_handshake, third write: back to pending_incoming
HandshakeStatus(t) ==
    /\ t.pc = "status"
    /\ UpdateContactStatus(t.node, "pending_incoming")
    /\ threads' = threads \ {t}
    /\ UNCHANGED <<myPubkeyFor, client, chains, onion, uiEvents, adds, accepts, faults, overtaken>>

\* p2p_accept: 404 without a row; else the client is told, nothing is stored
P2PAccept(p) ==
    /\ p.path = "accept"
    /\ onion' = onion \ {p}
    /\ uiEvents' = IF contactRow[p.to] = NoRow THEN uiEvents
                   ELSE uiEvents \cup {[node |-> p.to, key |-> p.key, no |-> p.no]}
    /\ UNCHANGED <<contactRow, myPubkeyFor, client, chains, threads, adds, accepts, faults, overtaken>>

\* on_handshake_accepted: derives with the client's key of now (not the
\* my_public_key of the event)
OnHandshakeAccepted(e) ==
    /\ uiEvents' = uiEvents \ {e}
    /\ threads' = threads \cup
         {[Thread(e.node, "store", e.key, Secret(MyKey(e.node), e.key), e.no) EXCEPT !.peer = e.key]}
    /\ UNCHANGED <<contactRow, myPubkeyFor, client, chains, onion, adds, accepts, faults, overtaken>>

\* save_secret on the server, then the client calls sync_contacts
StoreDerived(t) ==
    /\ t.pc = "store"
    /\ UpdateContactSecret(t.node, t.secret, t.peer)
    /\ threads' = (threads \ {t}) \cup {[t EXCEPT !.pc = "sync", !.secret = NoRow, !.peer = NoRow]}
    /\ UNCHANGED <<myPubkeyFor, client, chains, onion, uiEvents, adds, accepts, faults, overtaken>>

(***************************************************************************)
(* Failures.                                                                *)
(***************************************************************************)
\* send_onion_post fails ("unreachable"): not sent again
PostLost(p) ==
    /\ onion' = onion \ {p}
    /\ Fault("lost")
    /\ UNCHANGED <<contactRow, myPubkeyFor, client, chains, threads, uiEvents, adds, accepts, overtaken>>

\* the client process is restarted: a new key pair, no sessions; its calls and
\* the events on their way to it are lost
RestartClient(n) ==
    /\ client[n] + client[Peer(n)] < MaxRestarts
    /\ client' = [client EXCEPT ![n] = @ + 1]
    /\ chains' = [chains EXCEPT ![n] = NoRow]
    /\ threads' = {t \in threads : ~(t.node = n /\ t.pc \in {"post", "sync", "assign", "late"})}
    /\ uiEvents' = {e \in uiEvents : e.node # n}
    /\ overtaken' = overtaken \ {n}
    /\ Fault("restart")
    /\ UNCHANGED <<contactRow, myPubkeyFor, onion, adds, accepts>>

\* the node stops while handlers run: what they committed stays
CrashNode(n) ==
    /\ \E t \in threads : t.node = n /\ t.pc \in {"config", "secret", "status", "save", "store"}
    /\ threads' = {t \in threads : t.node # n}
    /\ Fault("crash")
    /\ UNCHANGED <<contactRow, myPubkeyFor, client, chains, onion, uiEvents, adds, accepts, overtaken>>

LegacyContactsNext ==
    \/ \E n \in Nodes : AddContact(n) \/ ReadAndDerive(n) \/ DeleteContact(n)
                        \/ RestartClient(n) \/ CrashNode(n)
    \/ \E t \in threads : AddContactConfig(t) \/ AcceptLookup(t) \/ AcceptSave(t)
                          \/ StoreDerived(t) \/ FetchContacts(t) \/ AssignSession(t)
                          \/ HandshakeSecret(t) \/ HandshakeStatus(t)
    \/ \E p \in onion : HandshakeInsert(p) \/ P2PAccept(p) \/ PostLost(p)
    \/ \E e \in uiEvents : OnHandshakeAccepted(e)

LegacyContactsSpec == LegacyContactsInit /\ [][LegacyContactsNext]_legacyContactVars

(***************************************************************************)
(* Properties.                                                              *)
(***************************************************************************)
\* p2p_handshake passes through the status accepted with no secret: a row is
\* in that state only while such a handler is about to reset it, or after a
\* crash that cut one off.  However handshakes, acceptances and deletions of
\* the same contact interleave, none leaves such a row behind.
AcceptedHasSecret ==
    \A n \in Nodes :
        (contactRow[n] # NoRow /\ contactRow[n].status = "accepted" /\ contactRow[n].secret = NoRow)
            => \/ "crash" \in faults
               \/ \E t \in threads : t.node = n /\ t.pc = "status"

\* When no handler or client call is at work, none was cut off by a crash, and
\* each node knows the key the other's client has now and stored a secret of that
\* key and of its own client's, both clients hold a session, with one secret,
\* unless a client last assigned an answer older than one it had assigned before:
\* sessions are derived by calls that race with the writes of other handlers, with
\* each other and with restarts, and only that order keeps a replaced secret.
SessionsAgree ==
    (/\ threads = {} /\ "crash" \notin faults /\ overtaken = {}
     /\ \A n \in Nodes : /\ contactRow[n] # NoRow /\ contactRow[n].status = "accepted"
                         /\ contactRow[n].key = MyKey(Peer(n)) /\ contactRow[n].secret # NoRow
                         /\ {MyKey(n), contactRow[n].key} \subseteq contactRow[n].secret)
    => \A n \in Nodes : chains[n] # NoRow /\ chains[n].secret = chains[Peer(n)].secret

\* The handshake of two legacy nodes ends in sessions that work: no accepted
\* contact is left without a secret, and settled sessions have one secret.
SessionsSound == AcceptedHasSecret /\ SessionsAgree
=============================================================================
