------------------------------ MODULE MLSGroups ------------------------------
(***************************************************************************)
(* The group key schedule of core/mls_groups.py: MLSGroupContext on every    *)
(* member's device.  A commit (add_member, remove_member, rotate_epoch)       *)
(* advances the committer's epoch; the others take its payload and the new    *)
(* secret with process_commit, which checks nothing.  How commits travel is    *)
(* not in the repository: here a delivery service (external) accepts a commit  *)
(* only from a member at the newest epoch and hands commits to each member in  *)
(* order, as MLS asks of it.                                                *)
(*                                                                         *)
(* A secret is a sequence: fresh entropy starts one, and the HKDF step of      *)
(* add_member, which mixes in nothing but the public key of the new member,    *)
(* appends that member.  Whoever holds a secret can therefore compute every    *)
(* extension of it.                                                         *)
(***************************************************************************)
EXTENDS Naturals, SequencesExt

CONSTANTS
    Devices,        \* the clients
    Creator,        \* the client that creates the group
    MaxEpoch        \* bound on the epochs

ASSUME MLSAssumption == Creator \in Devices /\ MaxEpoch \in Nat

VARIABLES
    context,        \* client -> its MLSGroupContext, and whether it has one
    commits,        \* the accepted commits in order: [members, secret]
    held            \* client -> every secret it was ever given or computed

mlsVars == <<context, commits, held>>

Outside == [in |-> FALSE, epoch |-> 0, members |-> {}, secret |-> <<>>]
NewestEpoch == Len(commits) - 1

MLSTypeOK ==
    /\ \A d \in Devices :
         /\ context[d].epoch \in 0..MaxEpoch /\ context[d].members \subseteq Devices
         /\ context[d].in \in BOOLEAN
    /\ Len(commits) \in 1..(MaxEpoch + 1)
    /\ \A i \in DOMAIN commits : commits[i].members \subseteq Devices

\* MLSGroupContext.__init__: the creator's random secret
MLSInit ==
    /\ commits = <<[members |-> {Creator}, secret |-> <<0>>]>>
    /\ context = [d \in Devices |->
         IF d = Creator THEN [in |-> TRUE, epoch |-> 0, members |-> {Creator}, secret |-> <<0>>]
         ELSE Outside]
    /\ held = [d \in Devices |-> IF d = Creator THEN {<<0>>} ELSE {}]

\* the committer's own context after a commit, and the service's acceptance
Commit(d, members, secret) ==
    /\ context[d].in /\ context[d].epoch = NewestEpoch /\ d \in context[d].members
    /\ NewestEpoch < MaxEpoch
    /\ context' = [context EXCEPT ![d].epoch = @ + 1, ![d].members = members, ![d].secret = secret]
    /\ commits' = Append(commits, [members |-> members, secret |-> secret])
    /\ held' = [held EXCEPT ![d] = @ \cup {secret}]

\* add_member: the next secret is HKDF(salt = secret, public key of the member)
AddMember(d, new) ==
    Commit(d, context[d].members \cup {new}, Append(context[d].secret, new))

\* Mutant: the next secret of a removal is derived from the old one alone
RemoveWithoutEntropy(d, old) ==
    /\ old # d
    /\ Commit(d, context[d].members \ {old}, Append(context[d].secret, old))

\* remove_member: fresh entropy goes into the next secret.  A member does not
\* commit its own removal (RFC 9420 forbids it, the code does not).
RemoveMember(d, old) ==
    /\ old # d
    /\ Commit(d, context[d].members \ {old}, <<Len(commits)>>)

\* rotate_epoch
RotateEpoch(d) == Commit(d, context[d].members, <<Len(commits)>>)

\* process_commit of the next commit, by a client that is a member after it
\* (a new member starts with the commit that added it).  The secret is handed
\* over beside the payload.
ProcessCommit(d, i) ==
    /\ i \in DOMAIN commits /\ d \in commits[i].members
    /\ IF context[d].in THEN i = context[d].epoch + 2
       ELSE i > 1 /\ d \notin commits[i - 1].members
    /\ context' = [context EXCEPT ![d] =
         [in |-> TRUE, epoch |-> i - 1, members |-> commits[i].members, secret |-> commits[i].secret]]
    /\ held' = [held EXCEPT ![d] = @ \cup {commits[i].secret}]
    /\ UNCHANGED commits

\* a member that was removed learns of it and leaves
Leave(d) ==
    /\ context[d].in /\ context[d].epoch < NewestEpoch
    /\ d \notin commits[context[d].epoch + 2].members
    /\ context' = [context EXCEPT ![d] = Outside]
    /\ UNCHANGED <<commits, held>>

MLSNext ==
    \E d \in Devices :
        \/ \E e \in Devices : AddMember(d, e) \/ RemoveMember(d, e)
        \/ RotateEpoch(d)
        \/ \E i \in DOMAIN commits : ProcessCommit(d, i)
        \/ Leave(d)

MLSSpec == MLSInit /\ [][MLSNext]_mlsVars

(***************************************************************************)
(* Properties.                                                              *)
(***************************************************************************)
\* Who is not in the group cannot compute its key: although add_member's step
\* is computable by everyone who holds the previous secret, the secret of the
\* newest epoch is no extension of a secret that a client outside the group, one
\* removed from it included, ever held.
RemovedLockedOut ==
    \A d \in Devices \ commits[Len(commits)].members :
        \A s \in held[d] : ~IsPrefix(s, commits[Len(commits)].secret)
=============================================================================
