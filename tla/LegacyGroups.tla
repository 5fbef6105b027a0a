----------------------------- MODULE LegacyGroups -----------------------------
(***************************************************************************)
(* Groups of a legacy node: creation, members, invites, vouches and the       *)
(* messages of channels (transports/p2p/server.py /api/groups/*, the group   *)
(* tables of database.py).  One group id; request threads interleave between *)
(* the database calls of a handler and between the statements of             *)
(* use_group_invite, whose SELECT takes no lock.                            *)
(***************************************************************************)
EXTENDS Naturals

CONSTANTS
    Members,        \* onion addresses
    Invites,        \* invite tokens
    Requests,       \* requests in progress together
    Nobody          \* no group

VARIABLES
    group,          \* [founder, channel], or Nobody
    roles,          \* group_members: <<member, role>>
    posts,          \* group_messages: senders
    used,           \* invite -> "absent", "open" or "used"
    vouches,        \* member_vouches: <<vouching, vouched>>
    handler,        \* request -> [op, arg]
    unseenGroup     \* history: a post was checked before the group existed

groupVars == <<group, roles, posts, used, vouches, handler, unseenGroup>>

Free == [op |-> "free", arg |-> Nobody]
Roles == {"founder", "member"}

GroupsTypeOK ==
    /\ group = Nobody \/ group \in [founder : Members, channel : BOOLEAN]
    /\ roles \subseteq Members \X Roles
    /\ posts \subseteq Members /\ vouches \subseteq Members \X Members
    /\ used \in [Invites -> {"absent", "open", "used"}]
    /\ \A r \in Requests : handler[r].op \in {"free", "found", "post", "redeem"}
    /\ unseenGroup \in BOOLEAN

GroupsInit ==
    /\ group = Nobody /\ roles = {} /\ posts = {} /\ vouches = {}
    /\ used = [i \in Invites |-> "absent"]
    /\ handler = [r \in Requests |-> Free] /\ unseenGroup = FALSE

\* database.create_group: INSERT OR IGNORE; the first founder stays
CreateGroup(r, f, channel) ==
    /\ handler[r] = Free
    /\ group' = IF group = Nobody THEN [founder |-> f, channel |-> channel] ELSE group
    /\ handler' = [handler EXCEPT ![r] = [op |-> "found", arg |-> f]]
    /\ UNCHANGED <<roles, posts, used, vouches, unseenGroup>>

\* database.add_group_member: INSERT OR REPLACE of a row of an existing group
PutMember(m, role) == roles' = {x \in roles : x[1] # m} \cup {<<m, role>>}

\* api_create_group: whoever calls becomes a founder member
AddFounder(r) ==
    /\ handler[r].op = "found"
    /\ PutMember(handler[r].arg, "founder")
    /\ handler' = [handler EXCEPT ![r] = Free]
    /\ UNCHANGED <<group, posts, used, vouches, unseenGroup>>

\* api_group_add_member
AddGroupMember(m, role) ==
    /\ group # Nobody
    /\ PutMember(m, role)
    /\ UNCHANGED <<group, posts, used, vouches, handler, unseenGroup>>

\* api_group_remove_member
RemoveGroupMember(m) ==
    /\ roles' = {x \in roles : x[1] # m}
    /\ UNCHANGED <<group, posts, used, vouches, handler, unseenGroup>>

\* Mutant of CheckPost: only members are checked, not the founder.
CheckPostMember(r, s) ==
    /\ handler[r] = Free
    /\ (group # Nobody /\ group.channel) => \E role \in Roles : <<s, role>> \in roles
    /\ handler' = [handler EXCEPT ![r] = [op |-> "post", arg |-> s]]
    /\ unseenGroup' = (unseenGroup \/ group = Nobody)
    /\ UNCHANGED <<group, roles, posts, used, vouches>>

\* api_group_save_message: in a channel only the founder posts; a group that
\* does not exist yet passes
CheckPost(r, s) ==
    /\ handler[r] = Free
    /\ (group # Nobody /\ group.channel) => s = group.founder
    /\ handler' = [handler EXCEPT ![r] = [op |-> "post", arg |-> s]]
    /\ unseenGroup' = (unseenGroup \/ group = Nobody)
    /\ UNCHANGED <<group, roles, posts, used, vouches>>

\* save_group_message: the foreign key needs the group
SaveGroupMessage(r) ==
    /\ handler[r].op = "post"
    /\ posts' = IF group = Nobody THEN posts ELSE posts \cup {handler[r].arg}
    /\ handler' = [handler EXCEPT ![r] = Free]
    /\ UNCHANGED <<group, roles, used, vouches, unseenGroup>>

\* api_group_generate_invite
CreateGroupInvite(i) ==
    /\ group # Nobody /\ used[i] = "absent"
    /\ used' = [used EXCEPT ![i] = "open"]
    /\ UNCHANGED <<group, roles, posts, vouches, handler, unseenGroup>>

\* use_group_invite: SELECT used_at
LookUpInvite(r, i) ==
    /\ handler[r] = Free /\ used[i] = "open"
    /\ handler' = [handler EXCEPT ![r] = [op |-> "redeem", arg |-> i]]
    /\ UNCHANGED <<group, roles, posts, used, vouches, unseenGroup>>

\* ... UPDATE it, and give out the group; requests that overlap both do
MarkInviteUsed(r) ==
    /\ handler[r].op = "redeem"
    /\ used' = [used EXCEPT ![handler[r].arg] = "used"]
    /\ handler' = [handler EXCEPT ![r] = Free]
    /\ UNCHANGED <<group, roles, posts, vouches, unseenGroup>>

\* add_member_vouch: neither has to be a member
AddMemberVouch(a, b) ==
    /\ group # Nobody
    /\ vouches' = vouches \cup {<<a, b>>}
    /\ UNCHANGED <<group, roles, posts, used, handler, unseenGroup>>

GroupsNext ==
    \/ \E r \in Requests :
         \/ \E m \in Members : CheckPost(r, m) \/ \E c \in BOOLEAN : CreateGroup(r, m, c)
         \/ \E i \in Invites : LookUpInvite(r, i)
         \/ AddFounder(r) \/ SaveGroupMessage(r) \/ MarkInviteUsed(r)
    \/ \E m \in Members : RemoveGroupMember(m) \/ \E role \in Roles : AddGroupMember(m, role)
    \/ \E i \in Invites : CreateGroupInvite(i)
    \/ \E a, b \in Members : a # b /\ AddMemberVouch(a, b)

GroupsSpec == GroupsInit /\ [][GroupsNext]_groupVars

\* "Only channel founder can post messages": however members are added,
\* removed and made founders, and however often the group is created again,
\* every message of a channel is of its first founder, except when its sender
\* was checked before the group existed.
OnlyFounderPosts ==
    (group # Nobody /\ group.channel /\ ~unseenGroup) => posts \subseteq {group.founder}
=============================================================================
