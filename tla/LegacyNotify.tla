----------------------------- MODULE LegacyNotify -----------------------------
(***************************************************************************)
(* The notification flags of a legacy node (/api/notifications in             *)
(* transports/p2p/server.py, notify_queue in database.py) and the Android    *)
(* service that polls them (PushService.kt).  One contact.  A message of a   *)
(* contact with a token leaves a flag, a row with the token.  Tokens are     *)
(* random: one that was replaced never comes back, so of each token in use   *)
(* only whether it is the contact's current one is kept.                     *)
(***************************************************************************)
CONSTANT
    Arrivals        \* messages of the contact

VARIABLES
    handler,        \* message -> [pc, token]: its p2p_message
    hasToken,       \* the contact has a notify_queue_token
    flags,          \* message -> token of the flag it left in notify_queue
    pushService,    \* pollNotifications: "rest", "register", "poll" or "clear"
    notified        \* messages whose flag the service saw

notifyVars == <<handler, hasToken, flags, pushService, notified>>

Tokens == {"none", "current", "replaced"}

NotifyTypeOK ==
    /\ handler \in [Arrivals -> [pc : {"new", "token", "push", "done"}, token : Tokens]]
    /\ hasToken \in BOOLEAN
    /\ flags \in [Arrivals -> Tokens]
    /\ pushService \in {"rest", "register", "poll", "clear"}
    /\ notified \subseteq Arrivals

NotifyInit ==
    /\ handler = [m \in Arrivals |-> [pc |-> "new", token |-> "none"]]
    /\ hasToken = FALSE
    /\ flags = [m \in Arrivals |-> "none"]
    /\ pushService = "rest"
    /\ notified = {}

(***************************************************************************)
(* p2p_message.                                                             *)
(***************************************************************************)
\* save_message
SaveArrival(m) ==
    /\ handler[m].pc = "new"
    /\ handler' = [handler EXCEPT ![m].pc = "token"]
    /\ UNCHANGED <<hasToken, flags, pushService, notified>>

\* get_notify_token
ReadToken(m) ==
    /\ handler[m].pc = "token"
    /\ handler' = [handler EXCEPT ![m] =
         IF hasToken THEN [pc |-> "push", token |-> "current"] ELSE [pc |-> "done", token |-> "none"]]
    /\ UNCHANGED <<hasToken, flags, pushService, notified>>

\* push_notify_queue
PushNotify(m) ==
    /\ handler[m].pc = "push"
    /\ flags' = [flags EXCEPT ![m] = handler[m].token]
    /\ handler' = [handler EXCEPT ![m] = [pc |-> "done", token |-> "none"]]
    /\ UNCHANGED <<hasToken, pushService, notified>>

(***************************************************************************)
(* pollNotifications of the service, every 30 s.                            *)
(***************************************************************************)
\* GET /api/contacts.  get_contacts returns no notify_queue_token, so the
\* service finds every contact "missing one".
FetchContacts ==
    /\ pushService = "rest"
    /\ pushService' = "register"
    /\ UNCHANGED <<handler, hasToken, flags, notified>>

Replaced(t) == IF t = "current" THEN "replaced" ELSE t

\* notifications_register: set_notify_token replaces the contact's token
NotificationsRegister ==
    /\ hasToken' = TRUE
    /\ flags' = [m \in Arrivals |-> Replaced(flags[m])]
    /\ handler' = [m \in Arrivals |-> [handler[m] EXCEPT !.token = Replaced(@)]]

\* The service registers.  Without an answer (reached = FALSE) it has no token
\* to poll.
Register(reached) ==
    /\ pushService = "register"
    /\ NotificationsRegister
    /\ pushService' = IF reached THEN "poll" ELSE "rest"
    /\ UNCHANGED notified

\* notifications_poll, poll_notify_queue: the flags of the token of this cycle
HasNew == {m \in Arrivals : flags[m] = "current"}

\* the service posts a notification for a contact whose token has a flag
Poll ==
    /\ pushService = "poll"
    /\ notified' = notified \cup HasNew
    /\ pushService' = IF HasNew # {} THEN "clear" ELSE "rest"
    /\ UNCHANGED <<handler, hasToken, flags>>

\* notifications_clear, clear_notify_queue: every flag of the token
ClearNotifyQueue == flags' = [m \in Arrivals |-> IF m \in HasNew THEN "none" ELSE flags[m]]

Clear ==
    /\ pushService = "clear"
    /\ ClearNotifyQueue
    /\ pushService' = "rest"
    /\ UNCHANGED <<handler, hasToken, notified>>

\* a request of the service fails; the next cycle begins anew
CycleFails ==
    /\ pushService # "rest"
    /\ pushService' = "rest"
    /\ UNCHANGED <<handler, hasToken, flags, notified>>

NotifyNext ==
    \/ \E m \in Arrivals : SaveArrival(m) \/ ReadToken(m) \/ PushNotify(m)
    \/ FetchContacts \/ \E reached \in BOOLEAN : Register(reached)
    \/ Poll \/ Clear \/ CycleFails

\* Handlers finish, the service polls for ever, and its requests succeed
\* again and again.
NotifyFairness ==
    /\ \A m \in Arrivals : WF_notifyVars(ReadToken(m)) /\ WF_notifyVars(PushNotify(m))
    /\ WF_notifyVars(FetchContacts)
    /\ SF_notifyVars(Register(TRUE)) /\ SF_notifyVars(Poll) /\ SF_notifyVars(Clear)

NotifySpec == NotifyInit /\ [][NotifyNext]_notifyVars /\ NotifyFairness

\* "The Android background service stores this token and uses it to poll for
\* new messages": a message that left a flag is notified in the end, unless
\* its flag was cleared with that of another one.
FlagNotified ==
    \A m \in Arrivals :
        (flags[m] # "none") ~> (m \in notified \/ flags[m] = "none")
=============================================================================
