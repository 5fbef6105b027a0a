----------------------------- MODULE LegacyEdits -----------------------------
(***************************************************************************)
(* Editing a stored message at a legacy node: edit_message and               *)
(* api_message_edits of transports/p2p/server.py, update_message_text,       *)
(* add_message_edit and get_message_edits of database.py.  The rows of one   *)
(* conversation with one timestamp: the events of a batch share it.  Threads *)
(* interleave between the SELECT, the INSERT on a second connection and the  *)
(* UPDATE.                                                                  *)
(***************************************************************************)
EXTENDS Naturals, FiniteSets

CONSTANTS
    RowIds,     \* rows that may be stored with the timestamp
    Editors,    \* edit requests
    Idle        \* an editor that has not started, or is done

VARIABLES
    texts,      \* rows with the timestamp -> text
    history,    \* message_edits of the timestamp, oldest first
    editor,     \* request -> [pc, old], or Idle
    started,    \* requests that were made
    stored      \* history: rows that were ever stored

editVars == <<texts, history, editor, started, stored>>

Original(r) == <<"sent", r>>
EditText(e) == <<"edit", e>>
TextsOf == {Original(r) : r \in RowIds} \cup {EditText(e) : e \in Editors}

EditsTypeOK ==
    /\ DOMAIN texts \subseteq stored /\ stored \subseteq RowIds
    /\ \A r \in DOMAIN texts : texts[r] \in TextsOf
    /\ history \subseteq TextsOf /\ started \subseteq Editors
    /\ editor \in [Editors -> {Idle} \cup [pc : {"history", "update"}, old : TextsOf]]

EditsInit ==
    /\ texts = [r \in {} |-> Idle] /\ history = {} /\ stored = {}
    /\ editor = [e \in Editors |-> Idle] /\ started = {}

\* save_message of a message with the timestamp
StoreRow(r) ==
    /\ r \notin stored
    /\ stored' = stored \cup {r}
    /\ texts' = [q \in DOMAIN texts \cup {r} |-> IF q = r THEN Original(r) ELSE texts[q]]
    /\ UNCHANGED <<history, editor, started>>

\* delete_message_by_timestamp: all of them
DeleteRows ==
    /\ DOMAIN texts # {}
    /\ texts' = [r \in {} |-> Idle]
    /\ UNCHANGED <<history, editor, started, stored>>

\* update_message_text: SELECT the first row with the timestamp, if any
SelectRow(e) ==
    /\ e \notin started
    /\ started' = started \cup {e}
    /\ \E r \in DOMAIN texts : editor' = [editor EXCEPT ![e] = [pc |-> "history", old |-> texts[r]]]
    /\ UNCHANGED <<texts, history, stored>>

\* Mutant of AddMessageEdit: the old text is not recorded.
AddMessageEditSkipped(e) ==
    /\ editor[e] # Idle /\ editor[e].pc = "history"
    /\ editor' = [editor EXCEPT ![e].pc = "update"]
    /\ UNCHANGED <<texts, history, started, stored>>

\* add_message_edit, on a connection of its own
AddMessageEdit(e) ==
    /\ editor[e] # Idle /\ editor[e].pc = "history"
    /\ history' = history \cup {editor[e].old}
    /\ editor' = [editor EXCEPT ![e].pc = "update"]
    /\ UNCHANGED <<texts, started, stored>>

\* UPDATE every row with the timestamp
UpdateMessageText(e) ==
    /\ editor[e] # Idle /\ editor[e].pc = "update"
    /\ texts' = [r \in DOMAIN texts |-> EditText(e)]
    /\ editor' = [editor EXCEPT ![e] = Idle]
    /\ UNCHANGED <<history, started, stored>>

EditsNext ==
    \/ \E r \in RowIds : StoreRow(r)
    \/ DeleteRows
    \/ \E e \in Editors : SelectRow(e) \/ AddMessageEdit(e) \/ UpdateMessageText(e)

EditsSpec == EditsInit /\ [][EditsNext]_editVars

\* However edits, deletions and new rows interleave, an edited row's history
\* holds a text some row was sent with: the first edit's.  (Later edits that
\* overlap can be missing, and rows sharing a timestamp share one original.)
OriginalKept ==
    (\E r \in DOMAIN texts : texts[r] \in {EditText(e) : e \in Editors})
        => \E r \in stored : Original(r) \in history
=============================================================================
