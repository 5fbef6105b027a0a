----------------------------- MODULE MCMessages ------------------------------
(***************************************************************************)
(* Messages on their way between nodes and to the clients: delivery,       *)
(* contacts, history and event batches of a node, and the messages of a    *)
(* legacy node.  They share no state, so each behaviour exercises one of   *)
(* them.                                                                   *)
(***************************************************************************)
EXTENDS P2PDelivery, Contacts, MessageHistory, EventBatcher, LegacyMessages

VARIABLE focus   \* the component this behaviour exercises

MCInit ==
    /\ focus \in {"delivery", "contacts", "history", "batches", "legacy messages"}
    /\ Init /\ ContactsInit /\ MessageHistoryInit
    /\ BatcherInit /\ LegacyMessagesInit

MCNext ==
    \/ /\ focus = "delivery" /\ Next
       /\ UNCHANGED <<focus, contactVars, historyVars, batcherVars, messageVars>>
    \/ /\ focus = "contacts" /\ ContactsNext
       /\ UNCHANGED <<focus, vars, historyVars, batcherVars, messageVars>>
    \/ /\ focus = "history" /\ MessageHistoryNext
       /\ UNCHANGED <<focus, vars, contactVars, batcherVars, messageVars>>
    \/ /\ focus = "batches" /\ BatcherNext
       /\ UNCHANGED <<focus, vars, contactVars, historyVars, messageVars>>
    \/ /\ focus = "legacy messages" /\ LegacyMessagesNext
       /\ UNCHANGED <<focus, vars, contactVars, historyVars, batcherVars>>

\* The fairness of each component, in the behaviours that exercise it.
MCFairness ==
    /\ \A m \in Msg : /\ WF_vars(focus = "delivery" /\ (PostRequest(m) \/ ClientFails(m)))
                      /\ WF_vars(focus = "delivery" /\ TimeOut(m))
    /\ WF_messageVars(focus = "legacy messages" /\ SweepList)
    /\ WF_messageVars(focus = "legacy messages" /\ SweepDelete)

mcVars == <<focus, vars, contactVars, historyVars, batcherVars, messageVars>>

MCSpec == MCInit /\ [][MCNext]_mcVars /\ MCFairness

\* Every variable keeps its type; those outside the focus do not change.
TypesOK ==
    /\ focus = "delivery" => TypeOK
    /\ focus = "contacts" => ContactsTypeOK
    /\ focus = "history" => MessageHistoryTypeOK
    /\ focus = "batches" => BatcherTypeOK
    /\ focus = "legacy messages" => LegacyMessagesTypeOK
==============================================================================
