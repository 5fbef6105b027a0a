------------------------------ MODULE Contacts ------------------------------
(***************************************************************************)
(* The contact handshake of the FastAPI node: routers/contacts.py, the       *)
(* /p2p/handshake and /p2p/accept handlers of routers/p2p.py and the          *)
(* contact routes of routers/compat.py, on two nodes that talk over Tor.     *)
(*                                                                         *)
(* A handler is a coroutine that SELECTs a row and later commits what it      *)
(* decided from it, so it is two actions; requests that overlap interleave   *)
(* between them.  The contacts table has no unique constraint: a row has an   *)
(* id and two handlers that both found nothing insert two rows.              *)
(* add_contact leaves its commit to get_session, which commits after the      *)
(* response and its background task: its INSERT holds the write lock of the   *)
(* database while the handshake goes out.  transmit_handshake may fail        *)
(* before it posts anything (with the httpx of requirements.txt it always     *)
(* does, proxies= is refused; the legacy node posts the same handshake), so   *)
(* a handshake that is never sent is no excuse below.  A row only says        *)
(* whether it holds the peer's key, which does not change here.               *)
(***************************************************************************)
EXTENDS Naturals, FiniteSets

CONSTANTS
    Sites,          \* the two nodes
    MaxContactAdds, \* bound: adds of one node
    MaxRows,        \* bound: rows one node ever inserts
    MaxAgrees       \* bound: accepts of one node's user

ASSUME ContactsAssumption ==
    /\ \E a, b \in Sites : a # b /\ Sites = {a, b}
    /\ MaxContactAdds \in Nat /\ MaxRows \in Nat /\ MaxAgrees \in Nat

VARIABLES
    contact,        \* node -> set of its rows for the other node
    nextId,         \* node -> the id of the next row
    coroutine,      \* handlers between their SELECT and their commit
    posts,          \* requests on their way to the other node
    unstored,       \* history: nodes whose add was rolled back after its task ran
    socketEvents,   \* node -> contact_status_change events of status accepted
    added, agreed,  \* node -> requests so far, for the bounds
    broken          \* history: a contact was deleted or an acceptance failed

contactVars == <<contact, nextId, coroutine, posts, unstored, socketEvents, added, agreed, broken>>

Statuses == {"pending_outgoing", "pending_incoming", "accepted"}
OtherSite(n) == CHOOSE m \in Sites : m # n

ContactsTypeOK ==
    /\ \A n \in Sites : \A r \in contact[n] :
         r.id \in 1..MaxRows /\ r.status \in Statuses /\ r.key \in BOOLEAN /\ r.secret \in BOOLEAN
    /\ nextId \in [Sites -> 1..(MaxRows + 1)]
    /\ \A h \in coroutine : h.node \in Sites /\ h.found \in 0..MaxRows
                          /\ h.seen \in Statuses \cup {"none"}
    /\ \A p \in posts : p.to \in Sites /\ p.path \in {"handshake", "accept"}
    /\ unstored \subseteq Sites
    /\ socketEvents \in [Sites -> Nat] /\ broken \in BOOLEAN

ContactsInit ==
    /\ contact = [n \in Sites |-> {}] /\ nextId = [n \in Sites |-> 1]
    /\ coroutine = {} /\ posts = {} /\ unstored = {}
    /\ socketEvents = [n \in Sites |-> 0]
    /\ added = [n \in Sites |-> 0] /\ agreed = [n \in Sites |-> 0]
    /\ broken = FALSE

\* session.scalar(select(Contact)...): the first row, 0 when there is none
FirstId(n) ==
    IF contact[n] = {} THEN 0
    ELSE CHOOSE i \in {r.id : r \in contact[n]} : \A r \in contact[n] : i <= r.id

FirstRow(n) == CHOOSE r \in contact[n] : r.id = FirstId(n)

\* session.add(Contact(...)) and the commit of get_session
InsertRow(n, status, key) ==
    /\ nextId[n] <= MaxRows
    /\ contact' = [contact EXCEPT ![n] = @ \cup
         {[id |-> nextId[n], status |-> status, key |-> key, secret |-> FALSE]}]
    /\ nextId' = [nextId EXCEPT ![n] = @ + 1]

\* an UPDATE by primary key of the attributes that differ from what was read:
\* a status that was read with the value it is given is not written.  Of a row
\* that is gone it is a StaleDataError, the request fails, nothing is stored.
UpdateRow(h, status, key, secret) ==
    contact' = [contact EXCEPT ![h.node] =
        {IF r.id = h.found
         THEN [r EXCEPT !.status = IF h.seen = status THEN @ ELSE status,
                        !.key = @ \/ key, !.secret = @ \/ secret]
         ELSE r : r \in @}]

RowExists(h) == \E r \in contact[h.node] : r.id = h.found

\* an add of node n holds the write lock of its database: any other write waits
WriteLocked(n) == \E h \in coroutine : h.node = n /\ h.kind \in {"flushed", "told"}

\* the add of node n whose handshake went out is not committed, or never will be
AddUnsettled(n) == n \in unstored \/ \E h \in coroutine : h.node = n /\ h.kind = "told"

(***************************************************************************)
(* The SELECT of every handler.                                             *)
(***************************************************************************)
Begin(n, kind, no) ==
    coroutine' = coroutine \cup
        {[node |-> n, kind |-> kind, found |-> FirstId(n), no |-> no,
          seen |-> IF contact[n] = {} THEN "none" ELSE FirstRow(n).status]}

\* the user adds the peer: 409 when there is a row already.  add_contact posts
\* a handshake afterwards, the older /api/contacts/add does not.
BeginAdd(n, kind) ==
    /\ kind \in {"add", "compat_add"}
    /\ added[n] < MaxContactAdds
    /\ added' = [added EXCEPT ![n] = @ + 1]
    /\ contact[n] = {}
    /\ Begin(n, kind, added[n])
    /\ UNCHANGED <<contact, nextId, posts, unstored, socketEvents, agreed, broken>>

\* the user accepts: 404 when there is no row; the client derived the secret
\* it sends from the key of that row
BeginAgree(n) ==
    /\ agreed[n] < MaxAgrees
    /\ agreed' = [agreed EXCEPT ![n] = @ + 1]
    /\ contact[n] # {} /\ FirstRow(n).key
    /\ Begin(n, "agree", agreed[n])
    /\ UNCHANGED <<contact, nextId, posts, unstored, socketEvents, added, broken>>

\* the client answers contact_status_change with save_secret
BeginSaveSecret(n) ==
    /\ socketEvents[n] > 0
    /\ socketEvents' = [socketEvents EXCEPT ![n] = @ - 1]
    /\ contact[n] # {}
    /\ Begin(n, "secret", socketEvents[n])
    /\ UNCHANGED <<contact, nextId, posts, unstored, added, agreed, broken>>

\* a post arrives at the other node and its handler SELECTs; /p2p/accept
\* answers 404 when there is no row, or not yet: legacy_accept_contact does not
\* look at the answer
Arrive(p) ==
    /\ posts' = posts \ {p}
    /\ IF p.path = "accept" /\ contact[p.to] = {}
       THEN broken' = (broken \/ AddUnsettled(p.to)) /\ UNCHANGED coroutine
       ELSE Begin(p.to, p.path, p.no) /\ UNCHANGED broken
    /\ UNCHANGED <<contact, nextId, unstored, socketEvents, added, agreed>>

(***************************************************************************)
(* The rest of every handler, up to its commit and what it sends.            *)
(***************************************************************************)
Done(h) == coroutine' = coroutine \ {h}
PostTo(h, path) == posts' = posts \cup {[to |-> OtherSite(h.node), path |-> path, no |-> h.no]}

\* add_contact: the row is flushed, the response sent
AddContactV3(h) ==
    /\ h.kind = "add" /\ ~WriteLocked(h.node)
    /\ coroutine' = (coroutine \ {h}) \cup {[h EXCEPT !.kind = "flushed"]}
    /\ UNCHANGED <<contact, nextId, posts, unstored, socketEvents, added, agreed, broken>>

\* the background task: the post leaves, or the task fails and logs it
TransmitHandshake(h) ==
    /\ h.kind = "flushed"
    /\ coroutine' = (coroutine \ {h}) \cup {[h EXCEPT !.kind = "told"]}
    /\ PostTo(h, "handshake") \/ UNCHANGED posts
    /\ UNCHANGED <<contact, nextId, unstored, socketEvents, added, agreed, broken>>

\* the end of get_session: the commit, which may fail
CommitAdd(h) ==
    /\ h.kind = "told"
    /\ Done(h)
    /\ \/ InsertRow(h.node, "pending_outgoing", FALSE) /\ UNCHANGED unstored
       \/ unstored' = unstored \cup {h.node} /\ UNCHANGED <<contact, nextId>>
    /\ UNCHANGED <<posts, socketEvents, added, agreed, broken>>

\* any other handler gives up when the lock is not free within busy_timeout
LockTimeout(h) ==
    /\ h.kind \notin {"flushed", "told"} /\ WriteLocked(h.node)
    /\ Done(h)
    /\ broken' = (broken \/ h.kind = "accept")
    /\ UNCHANGED <<contact, nextId, posts, unstored, socketEvents, added, agreed>>

\* legacy_add_contact
CompatAdd(h) ==
    /\ h.kind = "compat_add" /\ ~WriteLocked(h.node)
    /\ Done(h)
    /\ InsertRow(h.node, "pending_outgoing", FALSE)
    /\ UNCHANGED <<posts, unstored, socketEvents, added, agreed, broken>>

\* p2p_handshake: inserts, or resets the row it found, whatever its status
P2PHandshake(h) ==
    /\ h.kind = "handshake" /\ ~WriteLocked(h.node)
    /\ Done(h)
    /\ IF h.found = 0 THEN InsertRow(h.node, "pending_incoming", TRUE)
       ELSE UpdateRow(h, "pending_incoming", TRUE, FALSE) /\ UNCHANGED nextId
    /\ UNCHANGED <<posts, unstored, socketEvents, added, agreed, broken>>

\* Mutant: stores the key and leaves the status alone
AcceptStatusForgotten(h) ==
    /\ h.kind = "accept" /\ ~WriteLocked(h.node)
    /\ Done(h)
    /\ contact' = [contact EXCEPT ![h.node] =
         {IF r.id = h.found THEN [r EXCEPT !.key = TRUE] ELSE r : r \in @}]
    /\ socketEvents' = [socketEvents EXCEPT ![h.node] = @ + 1]
    /\ UNCHANGED <<nextId, posts, unstored, added, agreed, broken>>

\* p2p_accept: stores the key and accepts, whatever the status
P2PAcceptV3(h) ==
    /\ h.kind = "accept" /\ ~WriteLocked(h.node)
    /\ Done(h)
    /\ UpdateRow(h, "accepted", TRUE, FALSE)
    /\ socketEvents' = [socketEvents EXCEPT ![h.node] =
         IF RowExists(h) THEN @ + 1 ELSE @]
    /\ UNCHANGED <<nextId, posts, unstored, added, agreed, broken>>

\* legacy_accept_contact: the secret and the status are committed, then one
\* post to the peer from a thread; no post when the commit failed
AgreeContact(h) ==
    /\ h.kind = "agree" /\ ~WriteLocked(h.node)
    /\ Done(h)
    /\ UpdateRow(h, "accepted", FALSE, TRUE)
    /\ IF RowExists(h) THEN PostTo(h, "accept") ELSE UNCHANGED posts
    /\ UNCHANGED <<nextId, unstored, socketEvents, added, agreed, broken>>

\* legacy_save_secret: also accepts
SaveSecretV3(h) ==
    /\ h.kind = "secret" /\ ~WriteLocked(h.node)
    /\ Done(h)
    /\ UpdateRow(h, "accepted", TRUE, TRUE)
    /\ UNCHANGED <<nextId, posts, unstored, socketEvents, added, agreed, broken>>

\* remove_contact deletes a row by its id
RemoveContact(n) ==
    /\ ~WriteLocked(n)
    /\ \E r \in contact[n] : contact' = [contact EXCEPT ![n] = @ \ {r}]
    /\ broken' = TRUE
    /\ UNCHANGED <<nextId, coroutine, posts, unstored, socketEvents, added, agreed>>

\* legacy_delete_contact deletes the first row, if there is one
LegacyDeleteContact(n) ==
    /\ contact[n] # {} /\ ~WriteLocked(n)
    /\ contact' = [contact EXCEPT ![n] = @ \ {FirstRow(n)}]
    /\ broken' = TRUE
    /\ UNCHANGED <<nextId, coroutine, posts, unstored, socketEvents, added, agreed>>

\* reset_data deletes every contact of the node
ResetContacts(n) ==
    /\ contact[n] # {} /\ ~WriteLocked(n)
    /\ contact' = [contact EXCEPT ![n] = {}]
    /\ broken' = TRUE
    /\ UNCHANGED <<nextId, coroutine, posts, unstored, socketEvents, added, agreed>>

\* a post that fails is logged and never sent again
PostLost(p) ==
    /\ posts' = posts \ {p}
    /\ broken' = (broken \/ p.path = "accept")
    /\ UNCHANGED <<contact, nextId, coroutine, unstored, socketEvents, added, agreed>>

ContactsNext ==
    \/ \E n \in Sites :
         \/ \E kind \in {"add", "compat_add"} : BeginAdd(n, kind)
         \/ BeginAgree(n) \/ BeginSaveSecret(n)
         \/ RemoveContact(n) \/ LegacyDeleteContact(n) \/ ResetContacts(n)
    \/ \E p \in posts : Arrive(p) \/ PostLost(p)
    \/ \E h \in coroutine :
         \/ AddContactV3(h) \/ TransmitHandshake(h) \/ CommitAdd(h) \/ LockTimeout(h) \/ CompatAdd(h) \/ P2PHandshake(h)
         \/ P2PAcceptV3(h) \/ AgreeContact(h) \/ SaveSecretV3(h)

ContactsSpec == ContactsInit /\ [][ContactsNext]_contactVars

(***************************************************************************)
(* Properties.                                                              *)
(***************************************************************************)
\* No half-open contact.  When no contact was deleted and no handler is at work, a
\* contact that is accepted on one node is accepted or waiting for its user
\* (pending_incoming) on the other, never stuck in pending_outgoing and never
\* missing, unless its acceptance failed: the post was lost, waited too long for
\* the database, or was answered 404 because the add it answers was still not
\* committed.  Handshakes may be lost or never sent, arrive late and take an
\* accepted contact back to pending_incoming; both nodes may add each other at
\* once, and handlers that overlap insert a contact twice.
NoHalfOpen ==
    (~broken /\ posts = {} /\ coroutine = {}) =>
        \A n \in Sites :
            (contact[n] # {} /\ FirstRow(n).status = "accepted") =>
                /\ contact[OtherSite(n)] # {}
                /\ FirstRow(OtherSite(n)).status \in {"accepted", "pending_incoming"}
=============================================================================
