----------------------------- MODULE P2PDelivery -----------------------------
(***************************************************************************)
(* A conversation between two onion nodes in one direction: send_message   *)
(* and transmit_p2p_message of transports/p2p/routers/messages.py at the   *)
(* sender, p2p_message of transports/p2p/routers/p2p.py at the receiver,   *)
(* which has accepted the sender as a contact.                             *)
(*                                                                         *)
(* Each message is transmitted by a background task of its own.  A request *)
(* or its answer may be lost or late; the task gives up waiting after a    *)
(* timeout, but what it sent may still be on its way or inside the         *)
(* receiver's handler.  The handler is cut at its awaits: the query for    *)
(* the highest sequence number and the commit of the new row.              *)
(*                                                                         *)
(* With the httpx that requirements.txt pins, proxies= is refused and      *)
(* every attempt fails before a request leaves (ClientFails); the other    *)
(* attempts are those of a build whose httpx still takes the argument.     *)
(* The properties hold for both.                                           *)
(***************************************************************************)
EXTENDS Integers, Sequences, FiniteSets

CONSTANTS MaxMsg,   \* bound on the messages sent; message m has sequence number m
          Sealed,   \* the messages sent with a sealed sender
          Retries,  \* attempts of a task (3)
          None

ASSUME DeliveryAssumption ==
  /\ MaxMsg \in Nat
  /\ Sealed \subseteq 1..MaxMsg
  /\ Retries \in Nat \ {0}

VARIABLES
  sent,      \* number of messages sent so far
  task,      \* the background task of each message, None before it is sent
  network,   \* requests on their way to the receiver
  handler,   \* requests inside p2p_message, past the sequence check
  answers,   \* answers on their way to the sender
  stored     \* the sequence numbers of the rows of the receiver, in commit order

vars == <<sent, task, network, handler, answers, stored>>

Msg == 1..MaxMsg
Post == [msg : Msg, attempt : 1..Retries]
Task == [at : {"post", "await", "done", "failed"}, attempt : 1..Retries]
Answer == [post : Post, code : {200, 400, 500}]

Init ==
  /\ sent = 0
  /\ task = [m \in Msg |-> None]
  /\ network = {}
  /\ handler = {}
  /\ answers = {}
  /\ stored = <<>>

-----------------------------------------------------------------------------
(* Sender *)

\* send_message: the row is flushed and the task queued.
SendMessage ==
  /\ sent < MaxMsg
  /\ sent' = sent + 1
  /\ task' = [task EXCEPT ![sent + 1] = [at |-> "post", attempt |-> 1]]
  /\ UNCHANGED <<network, handler, answers, stored>>

CurrentPost(m) == [msg |-> m, attempt |-> task[m].attempt]
At(m, a) == task[m] # None /\ task[m].at = a

\* client.post() of the current attempt
PostRequest(m) ==
  /\ At(m, "post")
  /\ network' = network \cup {CurrentPost(m)}
  /\ task' = [task EXCEPT ![m].at = "await"]
  /\ UNCHANGED <<sent, handler, answers, stored>>

\* Mutants: the attempt is repeated without being counted; one attempt too many.
AfterFailure_NotCounted(t) == [t EXCEPT !.at = "post"]
AfterFailure_OneMore(t) ==
  IF t.attempt <= Retries THEN [at |-> "post", attempt |-> t.attempt + 1]
  ELSE [t EXCEPT !.at = "failed"]

\* The end of an attempt that did not return: another one after the pause, or
\* the task is given up.
AfterFailure(t) ==
  IF t.attempt < Retries THEN [at |-> "post", attempt |-> t.attempt + 1]
  ELSE [t EXCEPT !.at = "failed"]

\* The client cannot be created, or its post fails before the request leaves.
ClientFails(m) ==
  /\ At(m, "post")
  /\ task' = [task EXCEPT ![m] = AfterFailure(@)]
  /\ UNCHANGED <<sent, network, handler, answers, stored>>

\* Mutant: every answer ends the task.
Success_Any(code) == TRUE

Success(code) == code = 200

\* The answer to the current attempt arrives.
GetAnswer(m) ==
  /\ At(m, "await")
  /\ \E a \in answers :
       /\ a.post = CurrentPost(m)
       /\ answers' = answers \ {a}
       /\ task' = [task EXCEPT ![m] =
                     IF Success(a.code) THEN [@ EXCEPT !.at = "done"] ELSE AfterFailure(@)]
  /\ UNCHANGED <<sent, network, handler, stored>>

\* No answer within the timeout, or the connection fails.
TimeOut(m) ==
  /\ At(m, "await")
  /\ task' = [task EXCEPT ![m] = AfterFailure(@)]
  /\ UNCHANGED <<sent, network, handler, answers, stored>>

-----------------------------------------------------------------------------
(* Network and receiver *)

\* A request is lost.
LoseRequest(q) ==
  /\ q \in network
  /\ network' = network \ {q}
  /\ UNCHANGED <<sent, task, handler, answers, stored>>

Rows == {stored[i] : i \in DOMAIN stored}

\* The sequence check of p2p_message: above the highest number stored.
Monotonic(seq) == \A s \in Rows : seq > s

\* validate_onion: the sender field of a sealed message is the word "sealed",
\* which is not an onion address.
ValidSender(m) == m \notin Sealed

\* p2p_message refuses the request.
Refuse(q) ==
  /\ q \in network
  /\ ~ValidSender(q.msg) \/ ~Monotonic(q.msg)
  /\ network' = network \ {q}
  /\ answers' = answers \cup {[post |-> q, code |-> 400]}
  /\ UNCHANGED <<sent, task, handler, stored>>

\* p2p_message, up to the commit.
Accept(q) ==
  /\ q \in network
  /\ ValidSender(q.msg)
  /\ Monotonic(q.msg)
  /\ network' = network \ {q}
  /\ handler' = handler \cup {q}
  /\ UNCHANGED <<sent, task, answers, stored>>

\* p2p_message, the commit and the answer.
Commit(q) ==
  /\ q \in handler
  /\ handler' = handler \ {q}
  /\ stored' = Append(stored, q.msg)
  /\ answers' = answers \cup {[post |-> q, code |-> 200]}
  /\ UNCHANGED <<sent, task, network>>

\* The commit fails: nothing is stored.
CommitFails(q) ==
  /\ q \in handler
  /\ handler' = handler \ {q}
  /\ answers' = answers \cup {[post |-> q, code |-> 500]}
  /\ UNCHANGED <<sent, task, network, stored>>

Next ==
  \/ SendMessage
  \/ \E m \in Msg : ClientFails(m) \/ PostRequest(m) \/ GetAnswer(m) \/ TimeOut(m)
  \/ \E q \in network : LoseRequest(q) \/ Refuse(q) \/ Accept(q)
  \/ \E q \in handler : Commit(q) \/ CommitFails(q)

\* A background task keeps running until it returns: it posts or fails to, and
\* when it waits it gets its answer or the timeout of the HTTP client.
Fairness ==
  \A m \in Msg : WF_vars(PostRequest(m) \/ ClientFails(m)) /\ WF_vars(TimeOut(m))

Spec == Init /\ [][Next]_vars
FairSpec == Spec /\ Fairness

-----------------------------------------------------------------------------
(* Properties *)

\* Every variable has its type.
TypeOK ==
  /\ sent \in 0..MaxMsg
  /\ task \in [Msg -> Task \cup {None}]
  /\ network \subseteq Post
  /\ handler \subseteq Post
  /\ answers \subseteq Answer
  /\ stored \in Seq(Msg)

\* A task that ends with success ("p2p_message_transmitted") has a row at the
\* receiver, even when answers arrive late or for an earlier attempt.
TransmittedIsStored == \A m \in Msg : At(m, "done") => m \in Rows

\* The task of every message ends, delivered or given up.
TaskEnds == \A m \in Msg : At(m, "post") ~> (At(m, "done") \/ At(m, "failed"))
=============================================================================
