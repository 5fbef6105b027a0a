--------------------------- MODULE MessageHistory ---------------------------
(***************************************************************************)
(* The message rows of the FastAPI node as the history endpoint sees them:   *)
(* message_history, delete_message and resolve_sender of                     *)
(* routers/messages.py and p2p_delete of routers/p2p.py.  One client reads    *)
(* the conversation page by page, newest first, while rows are stored,        *)
(* deleted, resolved and dropped.  It names the oldest message it was given   *)
(* (before=, as lib/api.ts does): the cursor= that the route also decodes is   *)
(* never sent to a client, since no middleware turns request.state.next_cursor *)
(* into the X-Next-Cursor header.  sent_at is the sender's clock: it may tie,  *)
(* and a message may arrive with a time older than the page being read.       *)
(***************************************************************************)
EXTENDS Naturals, FiniteSets, SequencesExt

CONSTANTS
    HistoryRows,    \* the messages that may be stored
    Times,          \* the sent_at values
    PageLimit,      \* limit
    MaxPages,       \* bound: pages the client asks for
    Requests        \* concurrent resolve_sender requests

ASSUME HistoryAssumption ==
    /\ Times \subseteq Nat /\ \E t \in Times : \A u \in Times : u <= t
    /\ PageLimit \in Nat \ {0} /\ MaxPages \in Nat

VARIABLES
    row,            \* row ever stored -> [at, seq, sender, deleted]
    page,           \* the client's reading: [cursor, looked, got, pages, start, done, again]
    resolving       \* request -> the row it resolves past the checks, or "idle"

historyVars == <<row, page, resolving>>

\* the rows in the table; a row that was deleted from it never returns
Stored == {r \in DOMAIN row : row[r].sender # "dropped"}

\* the rows of the conversation that history selects: not deleted, sender known
Visible == {r \in Stored : ~row[r].deleted /\ row[r].sender # "sealed"}

NoCursor == 1 + CHOOSE t \in Times : \A u \in Times : u <= t

MessageHistoryTypeOK ==
    /\ DOMAIN row \subseteq HistoryRows
    /\ row \in [DOMAIN row -> [at : Times, seq : Times, deleted : BOOLEAN,
                               sender : {"me", "peer", "sealed", "dropped"}]]
    /\ page.cursor \in Times \cup {NoCursor} /\ page.pages \in 0..MaxPages
    /\ resolving \in [Requests -> HistoryRows \cup {"idle"}]

MessageHistoryInit ==
    /\ row = [r \in {} |-> 0]
    /\ page = [cursor |-> NoCursor, looked |-> TRUE, got |-> <<>>, pages |-> 0, start |-> {},
               done |-> FALSE, again |-> FALSE]
    /\ resolving = [q \in Requests |-> "idle"]

Put(r, v) == row' = [x \in DOMAIN row \cup {r} |-> IF x = r THEN v ELSE row[x]]
Dropped(v) == [v EXCEPT !.sender = "dropped", !.deleted = TRUE]
Drop(r) == row' = [row EXCEPT ![r] = Dropped(@)]

\* send_message and p2p_message store a row; a sealed message's sender is unknown
Store(r, at, sender) ==
    /\ r \notin DOMAIN row
    /\ Put(r, [at |-> at, seq |-> at, sender |-> sender, deleted |-> FALSE])
    /\ UNCHANGED <<page, resolving>>

\* legacy_send_message stores a row of the user's own and sends nothing
CompatSendMessage(r, at) == Store(r, at, "me")

\* the order by sent_at descending leaves ties to the database
Newest(S) == {r \in S : \A s \in S : row[s].at <= row[r].at}

\* Mutant: <= instead of <
UpTo(t) == {r \in Visible : row[r].at <= t}

\* the rows strictly older than the cursor
OlderThan(t) == {r \in Visible : row[r].at < t}

\* message_history looks up the row that before= names, flagged as deleted or
\* not: when it is gone there is no cursor and the newest page comes again
MessageHistoryLookUp ==
    /\ ~page.looked /\ page.pages < MaxPages /\ ~page.done
    /\ LET oldest == page.got[Len(page.got)] IN
       page' = [page EXCEPT !.looked = TRUE,
                            !.cursor = IF oldest \in Stored THEN row[oldest].at ELSE NoCursor,
                            !.again = @ \/ oldest \notin Stored]
    /\ UNCHANGED <<row, resolving>>

\* its query: rows strictly older than the cursor, newest first, at most PageLimit
PageOf(p) ==
    LET older == OlderThan(page.cursor) IN
    /\ p \in UNION {[1..n -> older] : n \in 1..PageLimit}
    /\ IsInjective(p)
    /\ \A i \in DOMAIN p : p[i] \in Newest(older \ {p[j] : j \in 1..(i - 1)})
    /\ Len(p) = PageLimit \/ {p[i] : i \in DOMAIN p} = older
    /\ page' = [page EXCEPT !.looked = FALSE, !.got = @ \o p, !.pages = @ + 1,
                            !.start = IF page.pages = 0 THEN Visible ELSE @]

\* GET /v3/messages/{peer}; an empty page ends the reading
MessageHistoryPage ==
    /\ page.looked /\ page.pages < MaxPages /\ ~page.done
    /\ \/ \E p \in UNION {[1..n -> Visible] : n \in 1..PageLimit} : PageOf(p)
       \/ /\ OlderThan(page.cursor) = {}
          /\ page' = [page EXCEPT !.done = TRUE]
    /\ UNCHANGED <<row, resolving>>

\* delete_message of the user's own message, p2p_delete of the peer's: a flag
DeleteMessage(r, sender) ==
    /\ r \in Stored /\ row[r].sender = sender /\ ~row[r].deleted
    /\ row' = [row EXCEPT ![r].deleted = TRUE]
    /\ UNCHANGED <<page, resolving>>

P2PDelete(r) == DeleteMessage(r, "peer")

LastSeq(r) == {row[s].seq : s \in {s \in Stored \ {r} : row[s].sender = "peer"}}

\* resolve_sender up to its last query.  Any row may be named, one that has been
\* resolved before included, and any sender: when the named one is not an accepted
\* contact, or the sequence number is not above every other one of that sender, the
\* row is deleted for good.
ResolveCheck(q, r) ==
    /\ resolving[q] = "idle" /\ r \in Stored
    /\ \/ /\ \A n \in LastSeq(r) : row[r].seq > n
          /\ resolving' = [resolving EXCEPT ![q] = r] /\ UNCHANGED row
       \/ Drop(r) /\ UNCHANGED resolving
    /\ UNCHANGED page

\* ... and its commit: an UPDATE of a row that is gone fails
ResolveCommit(q) ==
    /\ resolving[q] # "idle"
    /\ resolving' = [resolving EXCEPT ![q] = "idle"]
    /\ row' = IF resolving[q] \in Stored THEN [row EXCEPT ![resolving[q]].sender = "peer"] ELSE row
    /\ UNCHANGED page

\* reset_data deletes every message of the user
ResetMessages ==
    /\ Stored # {}
    /\ row' = [r \in DOMAIN row |-> Dropped(row[r])]
    /\ UNCHANGED <<page, resolving>>

MessageHistoryNext ==
    \/ \E r \in HistoryRows :
         \/ \E at \in Times, sender \in {"me", "peer", "sealed"} : Store(r, at, sender)
         \/ \E at \in Times : CompatSendMessage(r, at)
         \/ DeleteMessage(r, "me") \/ P2PDelete(r)
         \/ \E q \in Requests : ResolveCheck(q, r)
    \/ \E q \in Requests : ResolveCommit(q)
    \/ MessageHistoryLookUp \/ MessageHistoryPage
    \/ ResetMessages

MessageHistorySpec == MessageHistoryInit /\ [][MessageHistoryNext]_historyVars

(***************************************************************************)
(* Properties.                                                              *)
(***************************************************************************)
\* Paging is complete and returns nothing twice, however rows are stored,
\* deleted, resolved and dropped between two pages: a client that reads to the
\* end has got every message that was visible when it began and is visible still,
\* provided no other message has, or had, the same sent_at.  (The query compares
\* sent_at alone, so of messages that tie across the end of a page the later
\* ones are skipped: the proviso is the hazard of messages.py:299.)  It has got
\* none twice, unless a row it named was dropped meanwhile, so that the server
\* began again with the newest page (messages.py:294); it is complete even then.
PagesComplete ==
    /\ ~page.again =>
         \A i, j \in DOMAIN page.got : i # j => page.got[i] # page.got[j]
    /\ page.done =>
         \A r \in page.start \cap Visible :
             (\A s \in DOMAIN row : s # r => row[s].at # row[r].at) =>
                 \E i \in DOMAIN page.got : page.got[i] = r
=============================================================================
