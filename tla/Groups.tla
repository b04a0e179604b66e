-------------------------------- MODULE Groups --------------------------------
(***************************************************************************)
(* The membership of one group (handlers/groups.go): rows of room_members  *)
(* with a status and a role, the counter that a trigger keeps in rooms     *)
(* (services/migrations/001_initial.sql), and the ways in: added or        *)
(* invited by an admin, public join, invite code, vanity link.             *)
(*                                                                         *)
(* One step is one statement: what a handler checks (the rights of the     *)
(* user, the number of members, the visibility, the code or the slug) is   *)
(* read in one step and the row is written in a later one, whatever has    *)
(* become of it.  A statement that fails ends its request, as if it had    *)
(* not been made.  Names, avatars, lists    *)
(* and events are left out; what the handlers tell the engine is in        *)
(* Connections, the call of a deleted group in GroupCalls.                 *)
(***************************************************************************)
EXTENDS Integers, FiniteSets

CONSTANTS Users, Creator,
          Private, Friends, Blocks,   \* is_private; friendships and blocks: sets of two users
          Banned, VIPs,
          MaxMembers,                 \* rooms.max_members
          MaxInitialMembers,          \* whom a new group may start with, besides its creator
          MaxCodes, MaxRequests       \* bounds

ASSUME UsersType    == IsFiniteSet(Users) /\ Creator \in Users \ Banned
ASSUME LimitType    == MaxMembers \in Nat \ {0} /\ MaxInitialMembers \in Nat
ASSUME GroupBounds  == MaxCodes \in Nat \ {0} /\ MaxRequests \in Nat

VARIABLES
  group,       \* "none", "open" or "gone": the row in rooms
  visibility, code, hasSlug, memberCount,   \* its columns; codes are numbered
  status, role,   \* room_members; "none" is no row
  told,        \* invite code a user knows, 0 for none
  req,         \* request of a user
  unchecked,   \* history: members let in without a look at the limit, or on a count
               \* that was no longer true
  requests

table == <<status, role, memberCount>>
vars  == <<group, visibility, code, hasSlug, table, told, req, unchecked, requests>>

Statuses == {"none", "active", "inactive", "invited"}
Steps    == {"idle", "look", "join", "accept", "invite", "add",
             "change", "code", "slug", "remove", "leave", "promote"}
Idle     == [step |-> "idle", count |-> 0, invite |-> {}, add |-> {}]

TypeOK ==
  /\ group \in {"none", "open", "gone"}
  /\ visibility \in {"public", "private"}
  /\ code \in 0..MaxCodes
  /\ hasSlug \in BOOLEAN
  /\ status \in [Users -> Statuses]
  /\ role \in [Users -> {"none", "member", "admin"}]
  /\ \A u \in Users : role[u] = "none" <=> status[u] = "none"
  /\ memberCount \in Nat
  /\ told \in [Users -> 0..MaxCodes]
  /\ req \in [Users -> [step : Steps, count : Nat, invite : SUBSET Users, add : SUBSET Users]]
  /\ unchecked \subseteq Users
  /\ requests \in 0..MaxRequests

Init ==
  /\ group = "none"
  /\ visibility = "public" /\ code = 0 /\ hasSlug = FALSE
  /\ status = [u \in Users |-> "none"] /\ role = [u \in Users |-> "none"]
  /\ memberCount = 0
  /\ told = [u \in Users |-> 0]
  /\ req = [u \in Users |-> Idle]
  /\ unchecked = {}
  /\ requests = 0

-----------------------------------------------------------------------------
(* Helpers *)

Active           == {u \in Users : status[u] = "active"}
isGroupMember(u) == status[u] = "active"
isGroupAdmin(u)  == status[u] = "active" /\ role[u] = "admin"
Friend(u, v)     == {u, v} \in Friends
Blocked(u, v)    == {u, v} \in Blocks

(* trg_room_member_count, once per row that a statement changes *)
Counted(newStatus) ==
  LET come == {u \in Users : status[u] # "active" /\ newStatus[u] = "active"}
      go   == {u \in Users : status[u] = "active" /\ newStatus[u] # "active"}
      n    == memberCount + Cardinality(come) - Cardinality(go)
  IN IF n < 0 THEN 0 ELSE n

(* Mutant of SetStatus: the trigger counts every row written. *)
SetStatusCountsRows(S, s) ==
  /\ status' = [u \in Users |-> IF u \in S THEN s ELSE status[u]]
  /\ memberCount' = memberCount + (IF s = "active" THEN Cardinality(S) ELSE 0 - Cardinality(S))

SetStatus(S, s) ==
  /\ status' = [u \in Users |-> IF u \in S THEN s ELSE status[u]]
  /\ memberCount' = Counted(status')

(* INSERT ... ON CONFLICT DO UPDATE SET status = 'active', role = 'member' of the
   users S, by a request that had read the count n. *)
Upsert(S, n) ==
  /\ SetStatus(S, "active")
  /\ role' = [u \in Users |-> IF u \in S THEN "member" ELSE role[u]]
  /\ unchecked' = IF memberCount > n THEN unchecked \union S ELSE unchecked \ S

Count == requests < MaxRequests /\ requests' = requests + 1

(* A request that is one statement. *)
AtOnce(u) == group = "open" /\ req[u] = Idle /\ Count /\ UNCHANGED req

(* A request that has made its checks, and read the count if it needs it. *)
Begin(u, step, invite, add) ==
  /\ group = "open" /\ req[u] = Idle /\ Count
  /\ req' = [req EXCEPT ![u] = [step |-> step, count |-> memberCount,
                                invite |-> invite, add |-> add]]

Done(u) == req' = [req EXCEPT ![u] = Idle]

(* A request that acts on the rights its user had at the check. *)
Allowed(u, step) ==
  /\ Begin(u, step, {}, {})
  /\ UNCHANGED <<group, visibility, code, hasSlug, table, told, unchecked>>

-----------------------------------------------------------------------------
(* CreateGroupHandler: too many members, or members who do not exist or are banned,
   refuse the request, blocked ones are dropped.  Neither max_members nor is_private
   is looked at. *)
CreateGroup(u, members) ==
  LET final == {m \in members : ~Blocked(u, m)} IN
  /\ group = "none" /\ u = Creator
  /\ members \subseteq Users \ ({u} \union Banned)
  /\ Cardinality(members) <= MaxInitialMembers
  /\ group' = "open"
  /\ visibility' \in {"public", "private"}
  /\ code' = 1
  /\ SetStatus(final \union {u}, "active")
  /\ role' = [m \in Users |-> IF m = u THEN "admin" ELSE IF m \in final THEN "member" ELSE "none"]
  /\ told' = [told EXCEPT ![u] = 1]
  /\ unchecked' = final
  /\ UNCHANGED <<hasSlug, req, requests>>

UpdateGroup(u) == isGroupAdmin(u) /\ Allowed(u, "change")

(* The columns are whatever the request sends. *)
SetVisibility(u) ==
  /\ req[u].step = "change"
  /\ IF group = "open" THEN visibility' \in {"public", "private"} ELSE UNCHANGED visibility
  /\ Done(u)
  /\ UNCHANGED <<group, code, hasSlug, table, told, unchecked, requests>>

(* Rows of room_members go with the group (ON DELETE CASCADE). *)
DeleteGroup(u) ==
  /\ AtOnce(u) /\ u = Creator
  /\ group' = "gone"
  /\ status' = [m \in Users |-> "none"] /\ role' = [m \in Users |-> "none"]
  /\ memberCount' = 0
  /\ UNCHANGED <<visibility, code, hasSlug, told, unchecked>>

(* GetGroupHandler: a member, and later the code *)
GetGroup(u) == isGroupMember(u) /\ Allowed(u, "look")

ReadCode(u) ==
  /\ req[u].step = "look"
  /\ told' = IF group = "open" THEN [told EXCEPT ![u] = code] ELSE told
  /\ Done(u)
  /\ UNCHANGED <<group, visibility, code, hasSlug, table, unchecked, requests>>

(* Who knows a code passes on the link. *)
ShareCode(u, friend) ==
  /\ AtOnce(u)
  /\ told[u] # 0
  /\ told' = [told EXCEPT ![friend] = told[u]]
  /\ UNCHANGED <<group, visibility, code, hasSlug, table, unchecked>>

GenerateInvite(u) == isGroupAdmin(u) /\ Allowed(u, "code")

(* UPDATE rooms SET invite_code; the answer has the new code. *)
SetCode(u) ==
  /\ req[u].step = "code"
  /\ IF group = "open"
       THEN /\ code < MaxCodes /\ code' = code + 1
            /\ told' = [told EXCEPT ![u] = code']
       ELSE UNCHANGED <<code, told>>
  /\ Done(u)
  /\ UNCHANGED <<group, visibility, hasSlug, table, unchecked, requests>>

SetVanitySlug(u) == isGroupAdmin(u) /\ u \in VIPs /\ Allowed(u, "slug")

SetSlug(u) ==
  /\ req[u].step = "slug"
  /\ hasSlug' = (hasSlug \/ group = "open")
  /\ Done(u)
  /\ UNCHANGED <<group, visibility, code, table, told, unchecked, requests>>

-----------------------------------------------------------------------------
(* AddGroupMembersHandler *)

toInvite(u, ids) == {m \in ids \ Banned : ~Blocked(u, m) /\ m \in Private /\ ~Friend(u, m)}
toAdd(u, ids)    == {m \in ids \ Banned : ~Blocked(u, m)} \ toInvite(u, ids)

(* Mutant of AddMembers: the request is let through unless the group is full. *)
AddMembersUnlessFull(u, ids) ==
  /\ isGroupAdmin(u)
  /\ memberCount < MaxMembers
  /\ Begin(u, "invite", toInvite(u, ids), toAdd(u, ids))
  /\ UNCHANGED <<group, visibility, code, hasSlug, table, told, unchecked>>

AddMembers(u, ids) ==
  /\ isGroupAdmin(u)
  /\ memberCount + Cardinality(ids) <= MaxMembers
  /\ Begin(u, "invite", toInvite(u, ids), toAdd(u, ids))
  /\ UNCHANGED <<group, visibility, code, hasSlug, table, told, unchecked>>

(* ON CONFLICT keeps the role, and invites who was a member. *)
UpsertInvited(u) ==
  /\ req[u].step = "invite"
  /\ IF group = "open"
       THEN /\ SetStatus(req[u].invite, "invited")
            /\ role' = [m \in Users |-> IF m \in req[u].invite /\ role[m] = "none" THEN "member"
                                                                                ELSE role[m]]
       ELSE UNCHANGED table
  /\ req' = [req EXCEPT ![u].step = "add"]
  /\ UNCHANGED <<group, visibility, code, hasSlug, told, unchecked, requests>>

UpsertAdded(u) ==
  /\ req[u].step = "add"
  /\ IF group = "open" THEN Upsert(req[u].add, req[u].count) ELSE UNCHANGED <<table, unchecked>>
  /\ Done(u)
  /\ UNCHANGED <<group, visibility, code, hasSlug, told, requests>>

-----------------------------------------------------------------------------
(* RemoveGroupMemberHandler: by an admin, or by the member who leaves *)
RemoveMember(u) == isGroupAdmin(u) /\ Allowed(u, "remove")
LeaveGroup(u)   == isGroupMember(u) /\ Allowed(u, "leave")

(* UPDATE ... WHERE status = 'active' *)
Deactivate(u, target) ==
  /\ req[u].step = IF u = target THEN "leave" ELSE "remove"
  /\ SetStatus({target} \intersect Active, "inactive")
  /\ Done(u)
  /\ UNCHANGED <<group, visibility, code, hasSlug, role, told, unchecked, requests>>

PromoteAdmin(u) == isGroupAdmin(u) /\ Allowed(u, "promote")

(* UPDATE ... WHERE status = 'active' *)
SetAdmin(u, target) ==
  /\ req[u].step = "promote"
  /\ role' = [role EXCEPT ![target] = IF target \in Active THEN "admin" ELSE @]
  /\ Done(u)
  /\ UNCHANGED <<group, visibility, code, hasSlug, status, memberCount, told, unchecked, requests>>

-----------------------------------------------------------------------------
(* The ways in *)

Knock(u, step) == memberCount < MaxMembers /\ Allowed(u, step)

JoinGroup(u) ==
  visibility = "public" /\ ~isGroupMember(u) /\ u \notin Banned /\ Knock(u, "join")

JoinGroupByInvite(u) == told[u] = code /\ ~isGroupMember(u) /\ Knock(u, "join")

(* Mutant of JoinGroupByVanity: the link opens private groups, too. *)
JoinPrivateByVanity(u) == hasSlug /\ ~isGroupMember(u) /\ Knock(u, "join")

JoinGroupByVanity(u) ==
  hasSlug /\ visibility = "public" /\ ~isGroupMember(u) /\ Knock(u, "join")

UpsertSelf(u) ==
  /\ req[u].step = "join"
  /\ IF group = "open" THEN Upsert({u}, req[u].count) ELSE UNCHANGED <<table, unchecked>>
  /\ Done(u)
  /\ UNCHANGED <<group, visibility, code, hasSlug, told, requests>>

AcceptGroupInvite(u) == Knock(u, "accept")

(* UPDATE ... WHERE status = 'invited' *)
ActivateInvited(u) ==
  /\ req[u].step = "accept"
  /\ IF status[u] = "invited"
       THEN /\ SetStatus({u}, "active")
            /\ unchecked' = IF memberCount > req[u].count THEN unchecked \union {u}
                                                          ELSE unchecked \ {u}
       ELSE UNCHANGED <<status, memberCount, unchecked>>
  /\ Done(u)
  /\ UNCHANGED <<group, visibility, code, hasSlug, role, told, requests>>

DeclineGroupInvite(u) ==
  /\ AtOnce(u)
  /\ status[u] = "invited"
  /\ SetStatus({u}, "none")
  /\ role' = [role EXCEPT ![u] = "none"]
  /\ UNCHANGED <<group, visibility, code, hasSlug, told, unchecked>>

-----------------------------------------------------------------------------
AdminStep(u) ==
  \/ UpdateGroup(u)    \/ SetVisibility(u)
  \/ GenerateInvite(u) \/ SetCode(u)
  \/ SetVanitySlug(u)  \/ SetSlug(u)
  \/ DeleteGroup(u)
  \/ \E ids \in SUBSET Users \ {{}} : AddMembers(u, ids)
  \/ UpsertInvited(u)  \/ UpsertAdded(u)
  \/ RemoveMember(u)   \/ PromoteAdmin(u)
  \/ \E target \in Users : Deactivate(u, target) \/ SetAdmin(u, target)

MemberStep(u) ==
  \/ GetGroup(u) \/ ReadCode(u) \/ LeaveGroup(u)
  \/ \E friend \in Users \ {u} : ShareCode(u, friend)

NewcomerStep(u) ==
  \/ JoinGroup(u) \/ JoinGroupByInvite(u) \/ JoinGroupByVanity(u) \/ UpsertSelf(u)
  \/ AcceptGroupInvite(u) \/ ActivateInvited(u) \/ DeclineGroupInvite(u)

Next == \E u \in Users : \/ \E members \in SUBSET Users : CreateGroup(u, members)
                         \/ AdminStep(u) \/ MemberStep(u) \/ NewcomerStep(u)

Spec == Init /\ [][Next]_vars

-----------------------------------------------------------------------------
(* The counter of the group is the number of its active members, whatever
   statements set, repeat or delete their rows. *)
CountIsActive == memberCount = Cardinality(Active)

(* Apart from members let in on an outdated count, and from those chosen when
   the group was made, the limit holds: what a group has too many is what its
   concurrent requests added. *)
LimitHolds == Cardinality(Active \ unchecked) <= MaxMembers

(* Of a private group the user is neither a member nor invited, does not know
   its code, and no request is in flight that would change this. *)
ShutOut(u) ==
  /\ visibility = "private"
  /\ status[u] \in {"none", "inactive"}
  /\ told[u] # code
  /\ req[u].step \notin {"look", "join", "code", "change"}
  /\ \A a \in Users : u \notin req[a].invite \union req[a].add

(* Another user lets the user in: by opening the group, by passing on the link, or,
   as an admin, by adding or inviting the user. *)
LetIn(u) ==
  \E a \in Users \ {u} :
     \/ req[a].step = "change" /\ visibility' = "public"
     \/ told'[u] # told[u] /\ told'[u] = told[a]
     \/ isGroupAdmin(a) /\ req[a] = Idle /\ u \in req'[a].invite \union req'[a].add

(* Whoever has been removed from a private group whose code has changed stays
   out, whatever the user tries and whatever requests of others are in flight,
   until another user lets the user in. *)
ShutOutStays == [][\A u \in Users : group = "open" /\ ShutOut(u) => ShutOut(u)' \/ LetIn(u)]_vars
=============================================================================
