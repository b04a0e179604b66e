----------------------------- MODULE Groups_proofs -----------------------------
(***************************************************************************)
(* Machine-checked proofs about the membership of a group, for every       *)
(* finite set of users, any friendships and blocks, any limit of members,  *)
(* and any number of requests under way; and about the donations that      *)
(* decide who may give a group a vanity link, for any orders, requests and *)
(* failures.                                                               *)
(***************************************************************************)
EXTENDS Groups, Donations, FiniteSetTheorems, TLAPS

-----------------------------------------------------------------------------
(* What the two writing operators do to the rows *)

RowsOK == /\ status \in [Users -> Statuses]
          /\ role \in [Users -> {"none", "member", "admin"}]
          /\ \A u \in Users : role[u] = "none" <=> status[u] = "none"
          /\ memberCount \in Nat

Requests == [step : Steps, count : Nat, invite : SUBSET Users, add : SUBSET Users]

Columns == /\ group \in {"none", "open", "gone"}
           /\ visibility \in {"public", "private"}
           /\ code \in 0..MaxCodes
           /\ hasSlug \in BOOLEAN
           /\ told \in [Users -> 0..MaxCodes]
           /\ unchecked \subseteq Users
           /\ requests \in 0..MaxRequests

LEMMA TypeOKSplit == /\ TypeOK <=> RowsOK /\ Columns /\ req \in [Users -> Requests]
                     /\ TypeOK' <=> RowsOK' /\ Columns' /\ req' \in [Users -> Requests]
BY DEF TypeOK, RowsOK, Columns, Requests

LEMMA SubsetsAreFinite == \A S \in SUBSET Users : IsFiniteSet(S) /\ Cardinality(S) \in Nat
BY UsersType, FS_Subset, FS_CardinalityType

(* The trigger keeps a count that is right. *)
LEMMA CountedIsRight ==
  ASSUME status \in [Users -> Statuses], memberCount \in Nat, NEW newStatus
  PROVE  /\ Counted(newStatus) \in Nat
         /\ CountIsActive
              => Counted(newStatus) = Cardinality({u \in Users : newStatus[u] = "active"})
<1> DEFINE come == {u \in Users : status[u] # "active" /\ newStatus[u] = "active"}
           go   == {u \in Users : status[u] = "active" /\ newStatus[u] # "active"}
           now  == {u \in Users : newStatus[u] = "active"}
           n    == memberCount + Cardinality(come) - Cardinality(go)
<1>1. /\ Active \in SUBSET Users /\ come \in SUBSET Users /\ go \in SUBSET Users
      /\ Active \ go \in SUBSET Users /\ now \in SUBSET Users
  BY DEF Active
<1>2. /\ Cardinality(Active) \in Nat /\ Cardinality(come) \in Nat /\ Cardinality(go) \in Nat
      /\ Cardinality(now) \in Nat
  BY <1>1, SubsetsAreFinite
<1>3. /\ IsFiniteSet(Active) /\ IsFiniteSet(come) /\ IsFiniteSet(Active \ go)
  BY <1>1, SubsetsAreFinite
<1>4. Cardinality(Active \ go) = Cardinality(Active) - Cardinality(go)
  <2>1. Active \cap go = go
    BY DEF Active
  <2> QED BY <1>3, <2>1, FS_Difference
<1>5. Cardinality(now) = Cardinality(Active \ go) + Cardinality(come)
  <2>1. now = (Active \ go) \cup come /\ (Active \ go) \cap come = {}
    BY DEF Active
  <2>2. Cardinality(now) = Cardinality(Active \ go) + Cardinality(come)
                             - Cardinality((Active \ go) \cap come)
    BY <1>3, <2>1, FS_Union
  <2>3. Cardinality((Active \ go) \cap come) = 0
    BY <2>1, FS_EmptySet
  <2>4. Cardinality(Active \ go) \in Nat
    BY <1>1, SubsetsAreFinite
  <2> QED BY <1>2, <2>2, <2>3, <2>4
<1>6. Counted(newStatus) = IF n < 0 THEN 0 ELSE n
  BY DEF Counted
<1>7. n \in Int
  BY <1>2
<1> HIDE DEF n, now
<1>8. Counted(newStatus) \in Nat
  BY <1>6, <1>7
<1>9. CountIsActive => n = Cardinality(now)
  BY <1>2, <1>4, <1>5 DEF n, CountIsActive
<1>10. CountIsActive => Counted(newStatus) = Cardinality(now)
  BY <1>2, <1>6, <1>9
<1> QED BY <1>8, <1>10 DEF now

LEMMA SetStatusRows ==
  ASSUME RowsOK, NEW S, NEW s \in Statuses, SetStatus(S, s)
  PROVE  /\ status' \in [Users -> Statuses]
         /\ \A u \in Users : status'[u] = IF u \in S THEN s ELSE status[u]
         /\ memberCount' \in Nat
         /\ CountIsActive => CountIsActive'
         /\ Active' = IF s = "active" THEN Active \union (S \intersect Users) ELSE Active \ S
<1>1. /\ status' = [u \in Users |-> IF u \in S THEN s ELSE status[u]]
      /\ memberCount' = Counted(status')
  BY DEF SetStatus
<1>2. status' \in [Users -> Statuses]
  BY <1>1 DEF RowsOK
<1>3. /\ memberCount' \in Nat
      /\ CountIsActive => memberCount' = Cardinality({u \in Users : status'[u] = "active"})
  BY <1>1, CountedIsRight DEF RowsOK
<1>4. Active' = {u \in Users : status'[u] = "active"}
  BY DEF Active
<1>5. CountIsActive => CountIsActive'
  BY <1>3, <1>4 DEF CountIsActive
<1>6. Active' = IF s = "active" THEN Active \union (S \intersect Users) ELSE Active \ S
  BY <1>1 DEF Active, RowsOK
<1> QED BY <1>1, <1>2, <1>3, <1>5, <1>6

LEMMA UpsertRows ==
  ASSUME RowsOK, unchecked \subseteq Users, NEW S \in SUBSET Users, NEW n, Upsert(S, n)
  PROVE  /\ RowsOK'
         /\ unchecked' \subseteq Users
         /\ CountIsActive => CountIsActive'
         /\ Active' = Active \union S
<1>1. "active" \in Statuses /\ SetStatus(S, "active")
  BY DEF Statuses, Upsert
<1>2. /\ status' \in [Users -> Statuses] /\ memberCount' \in Nat
      /\ \A u \in Users : status'[u] = IF u \in S THEN "active" ELSE status[u]
      /\ CountIsActive => CountIsActive'
      /\ Active' = Active \union S
  BY <1>1, SetStatusRows
<1>3. /\ role' \in [Users -> {"none", "member", "admin"}]
      /\ \A u \in Users : role'[u] = IF u \in S THEN "member" ELSE role[u]
  BY DEF Upsert, RowsOK
<1>4. \A u \in Users : role'[u] = "none" <=> status'[u] = "none"
  BY <1>2, <1>3 DEF RowsOK
<1>5. unchecked' \subseteq Users
  BY DEF Upsert
<1> QED BY <1>2, <1>3, <1>4, <1>5 DEF RowsOK

LEMMA BeginType ==
  ASSUME TypeOK, NEW u \in Users, NEW step \in Steps,
         NEW invite \in SUBSET Users, NEW add \in SUBSET Users, Begin(u, step, invite, add)
  PROVE  /\ req' \in [Users -> Requests]
         /\ group = "open"
         /\ requests' \in 0..MaxRequests
         /\ req'[u].step = step /\ req'[u].count = memberCount
         /\ req'[u].invite = invite /\ req'[u].add = add
         /\ \A v \in Users \ {u} : req'[v] = req[v]
<1>1. req \in [Users -> Requests] /\ memberCount \in Nat /\ requests \in 0..MaxRequests
  BY DEF TypeOK, Requests
<1>2. [step |-> step, count |-> memberCount, invite |-> invite, add |-> add] \in Requests
  BY <1>1 DEF Requests
<1>3. requests' \in 0..MaxRequests
  BY <1>1, GroupBounds DEF Begin, Count
<1> QED BY <1>1, <1>2, <1>3 DEF Begin

LEMMA EmptyBegin ==
  ASSUME TypeOK, NEW u \in Users, NEW step \in Steps,
         Begin(u, step, {}, {})
  PROVE  /\ req'[u].step = step /\ req'[u].invite = {} /\ req'[u].add = {}
         /\ \A v \in Users \ {u} : req'[v] = req[v]
<1>1. req \in [Users -> Requests]
  BY DEF TypeOK, Requests
<1> QED BY <1>1 DEF Begin

LEMMA DoneType ==
  ASSUME TypeOK, NEW u \in Users, Done(u)
  PROVE  /\ req' \in [Users -> Requests]
         /\ req'[u] = Idle
         /\ \A v \in Users \ {u} : req'[v] = req[v]
<1>1. req \in [Users -> Requests]
  BY DEF TypeOK, Requests
<1>2. Idle \in Requests
  BY DEF Idle, Requests, Steps
<1> QED BY <1>1, <1>2 DEF Done

LEMMA AtOnceType ==
  ASSUME TypeOK, NEW u \in Users, AtOnce(u)
  PROVE  req' \in [Users -> Requests] /\ group = "open" /\ requests' \in 0..MaxRequests
BY GroupBounds DEF TypeOK, Requests, AtOnce, Count

-----------------------------------------------------------------------------
(* The type invariant is inductive, as nobody is a member before the group is
   made. *)

Fresh == group = "none" => \A u \in Users : status[u] = "none"

TypesInv == TypeOK /\ Fresh

LEMMA InitTypes == Init => TypesInv
<1> SUFFICES ASSUME Init PROVE TypesInv
  OBVIOUS
<1>1. RowsOK /\ Fresh
  BY DEF Init, RowsOK, Fresh, Statuses
<1>2. Columns
  <2>1. 0 \in 0..MaxCodes /\ 0 \in 0..MaxRequests
    BY GroupBounds
  <2> QED BY <2>1 DEF Init, Columns
<1>3. req \in [Users -> Requests]
  BY DEF Init, Idle, Requests, Steps
<1> QED BY <1>1, <1>2, <1>3, TypeOKSplit DEF TypesInv

LEMMA CreateTypes ==
  ASSUME TypesInv, NEW u \in Users, NEW members \in SUBSET Users, CreateGroup(u, members)
  PROVE  TypesInv'
<1> DEFINE final == {m \in members : ~Blocked(u, m)}
<1>1. RowsOK /\ Columns /\ req \in [Users -> Requests]
  BY TypeOKSplit DEF TypesInv
<1>2. SetStatus(final \union {u}, "active") /\ "active" \in Statuses
  BY DEF CreateGroup, Statuses
<1>3. /\ status' \in [Users -> Statuses] /\ memberCount' \in Nat
      /\ \A m \in Users : status'[m] = IF m \in final \union {u} THEN "active" ELSE status[m]
  BY <1>1, <1>2, SetStatusRows
<1>4. \A m \in Users : status[m] = "none"
  BY DEF CreateGroup, TypesInv, Fresh
<1>5. /\ role' \in [Users -> {"none", "member", "admin"}]
      /\ \A m \in Users : role'[m] = IF m = u THEN "admin"
                                     ELSE IF m \in final THEN "member" ELSE "none"
  BY DEF CreateGroup
<1> HIDE DEF final
<1>6. RowsOK'
  BY <1>3, <1>4, <1>5 DEF RowsOK
<1>7. Columns'
  <2>1. 1 \in 0..MaxCodes
    BY GroupBounds
  <2>2. told' \in [Users -> 0..MaxCodes]
    BY <1>1, <2>1 DEF Columns, CreateGroup
  <2> QED BY <1>1, <2>1, <2>2 DEF Columns, CreateGroup
<1>8. req' \in [Users -> Requests] /\ group' = "open"
  BY <1>1 DEF CreateGroup
<1> QED BY <1>6, <1>7, <1>8, TypeOKSplit DEF TypesInv, Fresh

LEMMA InviteSets ==
  ASSUME NEW u, NEW ids \in SUBSET Users
  PROVE  toInvite(u, ids) \in SUBSET Users /\ toAdd(u, ids) \in SUBSET ids
BY DEF toInvite, toAdd

LEMMA AllowedTypes ==
  ASSUME TypesInv, NEW u \in Users, NEW step \in Steps, Allowed(u, step)
  PROVE  TypesInv'
<1>1. TypeOK /\ RowsOK /\ Columns /\ Fresh /\ Begin(u, step, {}, {}) /\ {} \in SUBSET Users
  BY TypeOKSplit DEF TypesInv, Allowed
<1>2. req' \in [Users -> Requests] /\ group = "open" /\ requests' \in 0..MaxRequests
  BY <1>1, BeginType
<1> QED BY <1>1, <1>2, TypeOKSplit DEF Allowed, table, TypesInv, Fresh, RowsOK, Columns

(* The requests that only pass a check of rights. *)
RightsChecked(u) == \E step \in Steps : Allowed(u, step)

LEMMA AllowedAre ==
  ASSUME NEW u,
         \/ UpdateGroup(u) \/ GenerateInvite(u) \/ SetVanitySlug(u) \/ RemoveMember(u)
         \/ PromoteAdmin(u) \/ GetGroup(u) \/ LeaveGroup(u)
  PROVE  RightsChecked(u)
BY DEF UpdateGroup, GenerateInvite, SetVanitySlug, RemoveMember, PromoteAdmin, GetGroup,
       LeaveGroup, RightsChecked, Steps

LEMMA AdminTypes ==
  ASSUME TypesInv, NEW u \in Users, AdminStep(u)
  PROVE  TypesInv'
<1>0. TypeOK /\ RowsOK /\ Columns /\ req \in [Users -> Requests] /\ Fresh
  BY TypeOKSplit DEF TypesInv
<1>1. CASE \/ UpdateGroup(u) \/ GenerateInvite(u) \/ SetVanitySlug(u) \/ RemoveMember(u)
           \/ PromoteAdmin(u)
  BY <1>1, AllowedAre, AllowedTypes DEF RightsChecked
<1>2. CASE DeleteGroup(u)
  <2>1. req' \in [Users -> Requests] /\ requests' \in 0..MaxRequests
    BY <1>0, <1>2, AtOnceType DEF DeleteGroup
  <2>2. RowsOK'
    BY <1>2 DEF DeleteGroup, RowsOK, Statuses
  <2> QED BY <1>0, <1>2, <2>1, <2>2, TypeOKSplit DEF DeleteGroup, TypesInv, Fresh, Columns
<1>3. CASE SetCode(u)
  <2>1. req' \in [Users -> Requests]
    BY <1>0, <1>3, DoneType DEF SetCode
  <2>2. code' \in 0..MaxCodes
    BY <1>0, <1>3, GroupBounds DEF SetCode, Columns
  <2>3. told' \in [Users -> 0..MaxCodes]
    BY <1>0, <1>3, <2>2 DEF SetCode, Columns
  <2> QED BY <1>0, <1>3, <2>1, <2>2, <2>3, TypeOKSplit
        DEF SetCode, table, TypesInv, Fresh, RowsOK, Columns
<1>4. CASE SetVisibility(u) \/ SetSlug(u)
  <2>1. req' \in [Users -> Requests]
    BY <1>0, <1>4, DoneType DEF SetVisibility, SetSlug
  <2>2. visibility' \in {"public", "private"} /\ hasSlug' \in BOOLEAN
    BY <1>0, <1>4 DEF SetVisibility, SetSlug, Columns
  <2> QED BY <1>0, <1>4, <2>1, <2>2, TypeOKSplit
        DEF SetVisibility, SetSlug, table, TypesInv, Fresh, RowsOK, Columns
<1>5. ASSUME NEW ids \in SUBSET Users, AddMembers(u, ids) PROVE TypesInv'
  <2>1. Begin(u, "invite", toInvite(u, ids), toAdd(u, ids))
    BY <1>5 DEF AddMembers
  <2>2. toInvite(u, ids) \in SUBSET Users /\ toAdd(u, ids) \in SUBSET Users
    BY InviteSets
  <2>3. req' \in [Users -> Requests] /\ group = "open" /\ requests' \in 0..MaxRequests
    BY <1>0, <2>1, <2>2, BeginType DEF Steps
  <2> QED BY <1>0, <1>5, <2>3, TypeOKSplit
        DEF AddMembers, table, TypesInv, Fresh, RowsOK, Columns
<1>6. CASE UpsertInvited(u)
  <2>1. req' \in [Users -> Requests]
    BY <1>0, <1>6 DEF UpsertInvited, Requests, Steps
  <2>2. CASE group = "open"
    <3>1. SetStatus(req[u].invite, "invited") /\ "invited" \in Statuses
      BY <1>6, <2>2 DEF UpsertInvited, Statuses
    <3>2. /\ status' \in [Users -> Statuses] /\ memberCount' \in Nat
          /\ \A m \in Users : status'[m] = IF m \in req[u].invite THEN "invited" ELSE status[m]
      BY <1>0, <3>1, SetStatusRows
    <3>3. /\ role' \in [Users -> {"none", "member", "admin"}]
          /\ \A m \in Users : role'[m] = IF m \in req[u].invite /\ role[m] = "none"
                                         THEN "member" ELSE role[m]
      BY <1>0, <1>6, <2>2 DEF UpsertInvited, RowsOK
    <3>4. RowsOK'
      BY <1>0, <3>2, <3>3 DEF RowsOK
    <3> QED BY <1>0, <1>6, <2>1, <2>2, <3>4, TypeOKSplit
          DEF UpsertInvited, TypesInv, Fresh, Columns
  <2>3. CASE group # "open"
    BY <1>0, <1>6, <2>1, <2>3, TypeOKSplit
      DEF UpsertInvited, table, TypesInv, Fresh, RowsOK, Columns
  <2> QED BY <2>2, <2>3
<1>7. CASE UpsertAdded(u)
  <2>1. req' \in [Users -> Requests]
    BY <1>0, <1>7, DoneType DEF UpsertAdded
  <2>2. CASE group = "open"
    <3>1. req[u].add \in SUBSET Users /\ unchecked \subseteq Users
      BY <1>0 DEF Requests, Columns
    <3>2. RowsOK' /\ unchecked' \subseteq Users
      BY <1>0, <1>7, <2>2, <3>1, UpsertRows DEF UpsertAdded
    <3> QED BY <1>0, <1>7, <2>1, <2>2, <3>2, TypeOKSplit
          DEF UpsertAdded, TypesInv, Fresh, Columns
  <2>3. CASE group # "open"
    BY <1>0, <1>7, <2>1, <2>3, TypeOKSplit
      DEF UpsertAdded, table, TypesInv, Fresh, RowsOK, Columns
  <2> QED BY <2>2, <2>3
<1>8. ASSUME NEW target \in Users, Deactivate(u, target) PROVE TypesInv'
  <2>1. req' \in [Users -> Requests]
    BY <1>0, <1>8, DoneType DEF Deactivate
  <2>2. SetStatus({target} \intersect Active, "inactive") /\ "inactive" \in Statuses
    BY <1>8 DEF Deactivate, Statuses
  <2>3. /\ status' \in [Users -> Statuses] /\ memberCount' \in Nat
        /\ \A m \in Users : status'[m] = IF m \in {target} \intersect Active
                                         THEN "inactive" ELSE status[m]
    BY <1>0, <2>2, SetStatusRows
  <2>4. RowsOK'
    BY <1>0, <1>8, <2>3 DEF Deactivate, RowsOK, Active
  <2>5. Fresh'
    BY <1>0, <1>8, <2>3 DEF Deactivate, Fresh, Active
  <2> QED BY <1>0, <1>8, <2>1, <2>4, <2>5, TypeOKSplit DEF Deactivate, TypesInv, Columns
<1>9. ASSUME NEW target \in Users, SetAdmin(u, target) PROVE TypesInv'
  <2>1. req' \in [Users -> Requests]
    BY <1>0, <1>9, DoneType DEF SetAdmin
  <2>2. RowsOK'
    BY <1>0, <1>9 DEF SetAdmin, RowsOK, Active
  <2> QED BY <1>0, <1>9, <2>1, <2>2, TypeOKSplit DEF SetAdmin, TypesInv, Fresh, Columns
<1> QED BY <1>1, <1>2, <1>3, <1>4, <1>5, <1>6, <1>7, <1>8, <1>9 DEF AdminStep

LEMMA MemberTypes ==
  ASSUME TypesInv, NEW u \in Users, MemberStep(u)
  PROVE  TypesInv'
<1>0. TypeOK /\ RowsOK /\ Columns /\ req \in [Users -> Requests] /\ Fresh
  BY TypeOKSplit DEF TypesInv
<1>1. CASE GetGroup(u) \/ LeaveGroup(u)
  BY <1>1, AllowedAre, AllowedTypes DEF RightsChecked
<1>2. CASE ReadCode(u)
  <2>1. req' \in [Users -> Requests]
    BY <1>0, <1>2, DoneType DEF ReadCode
  <2>2. told' \in [Users -> 0..MaxCodes]
    BY <1>0, <1>2 DEF ReadCode, Columns
  <2> QED BY <1>0, <1>2, <2>1, <2>2, TypeOKSplit
        DEF ReadCode, table, TypesInv, Fresh, RowsOK, Columns
<1>3. ASSUME NEW friend \in Users \ {u}, ShareCode(u, friend) PROVE TypesInv'
  <2>1. req' \in [Users -> Requests] /\ group = "open" /\ requests' \in 0..MaxRequests
    BY <1>0, <1>3, AtOnceType DEF ShareCode
  <2>2. told' \in [Users -> 0..MaxCodes]
    BY <1>0, <1>3 DEF ShareCode, Columns
  <2> QED BY <1>0, <1>3, <2>1, <2>2, TypeOKSplit
        DEF ShareCode, table, TypesInv, Fresh, RowsOK, Columns
<1> QED BY <1>1, <1>2, <1>3 DEF MemberStep

LEMMA KnockTypes ==
  ASSUME TypesInv, NEW u \in Users, NEW step \in {"join", "accept"}, Knock(u, step)
  PROVE  TypesInv'
BY AllowedTypes DEF Knock, Steps

LEMMA KnocksAre ==
  ASSUME NEW u, JoinGroup(u) \/ JoinGroupByInvite(u) \/ JoinGroupByVanity(u)
                  \/ AcceptGroupInvite(u)
  PROVE  \E step \in {"join", "accept"} : Knock(u, step)
BY DEF JoinGroup, JoinGroupByInvite, JoinGroupByVanity, AcceptGroupInvite

LEMMA NewcomerTypes ==
  ASSUME TypesInv, NEW u \in Users, NewcomerStep(u)
  PROVE  TypesInv'
<1>0. TypeOK /\ RowsOK /\ Columns /\ req \in [Users -> Requests] /\ Fresh
  BY TypeOKSplit DEF TypesInv
<1>1. CASE JoinGroup(u) \/ JoinGroupByInvite(u) \/ JoinGroupByVanity(u) \/ AcceptGroupInvite(u)
  BY <1>1, KnocksAre, KnockTypes
<1>2. CASE UpsertSelf(u)
  <2>1. req' \in [Users -> Requests]
    BY <1>0, <1>2, DoneType DEF UpsertSelf
  <2>2. CASE group = "open"
    <3>1. {u} \in SUBSET Users /\ unchecked \subseteq Users
      BY <1>0 DEF Columns
    <3>2. RowsOK' /\ unchecked' \subseteq Users
      BY <1>0, <1>2, <2>2, <3>1, UpsertRows DEF UpsertSelf
    <3> QED BY <1>0, <1>2, <2>1, <2>2, <3>2, TypeOKSplit
          DEF UpsertSelf, TypesInv, Fresh, Columns
  <2>3. CASE group # "open"
    BY <1>0, <1>2, <2>1, <2>3, TypeOKSplit
      DEF UpsertSelf, table, TypesInv, Fresh, RowsOK, Columns
  <2> QED BY <2>2, <2>3
<1>3. CASE ActivateInvited(u)
  <2>1. req' \in [Users -> Requests]
    BY <1>0, <1>3, DoneType DEF ActivateInvited
  <2>2. CASE status[u] = "invited"
    <3>1. SetStatus({u}, "active") /\ "active" \in Statuses
      BY <1>3, <2>2 DEF ActivateInvited, Statuses
    <3>2. /\ status' \in [Users -> Statuses] /\ memberCount' \in Nat
          /\ \A m \in Users : status'[m] = IF m \in {u} THEN "active" ELSE status[m]
      BY <1>0, <3>1, SetStatusRows
    <3>3. RowsOK' /\ group # "none"
      BY <1>0, <1>3, <2>2, <3>2 DEF ActivateInvited, RowsOK, Fresh
    <3>4. unchecked' \subseteq Users
      BY <1>0, <1>3, <2>2 DEF ActivateInvited, Columns
    <3> QED BY <1>0, <1>3, <2>1, <3>3, <3>4, TypeOKSplit
          DEF ActivateInvited, TypesInv, Fresh, Columns
  <2>3. CASE status[u] # "invited"
    BY <1>0, <1>3, <2>1, <2>3, TypeOKSplit
      DEF ActivateInvited, TypesInv, Fresh, RowsOK, Columns
  <2> QED BY <2>2, <2>3
<1>4. CASE DeclineGroupInvite(u)
  <2>1. req' \in [Users -> Requests] /\ group = "open" /\ requests' \in 0..MaxRequests
    BY <1>0, <1>4, AtOnceType DEF DeclineGroupInvite
  <2>2. SetStatus({u}, "none") /\ "none" \in Statuses
    BY <1>4 DEF DeclineGroupInvite, Statuses
  <2>3. /\ status' \in [Users -> Statuses] /\ memberCount' \in Nat
        /\ \A m \in Users : status'[m] = IF m \in {u} THEN "none" ELSE status[m]
    BY <1>0, <2>2, SetStatusRows
  <2>4. RowsOK'
    BY <1>0, <1>4, <2>3 DEF DeclineGroupInvite, RowsOK
  <2> QED BY <1>0, <1>4, <2>1, <2>4, TypeOKSplit DEF DeclineGroupInvite, TypesInv, Fresh, Columns
<1> QED BY <1>1, <1>2, <1>3, <1>4 DEF NewcomerStep

LEMMA NextTypes == TypesInv /\ [Next]_vars => TypesInv'
<1> SUFFICES ASSUME TypesInv, [Next]_vars PROVE TypesInv'
  OBVIOUS
<1>1. CASE UNCHANGED vars
  BY <1>1, TypeOKSplit DEF vars, table, TypesInv, Fresh, RowsOK, Columns, Requests
<1>2. CASE Next
  BY <1>2, CreateTypes, AdminTypes, MemberTypes, NewcomerTypes DEF Next
<1> QED BY <1>1, <1>2

(* Every column, row and request has its type, and a user has a role exactly
   when the user has a row: room_members.role and status are set together. *)
THEOREM TypeCorrect == Spec => []TypeOK
<1>1. TypesInv => TypeOK
  BY DEF TypesInv
<1> QED BY <1>1, InitTypes, NextTypes, PTL DEF Spec

-----------------------------------------------------------------------------
(* The counter *)

(* What a step does to the statuses: nothing, one statement, or the cascade. *)
LEMMA RowsWritten ==
  ASSUME Next
  PROVE  \/ UNCHANGED <<status, memberCount>>
         \/ \E S, s : s \in Statuses /\ SetStatus(S, s)
         \/ memberCount' = 0 /\ status' = [m \in Users |-> "none"]
<1>a. "active" \in Statuses /\ "inactive" \in Statuses /\ "invited" \in Statuses
      /\ "none" \in Statuses
  BY DEF Statuses
<1>1. ASSUME NEW u \in Users, NEW members \in SUBSET Users, CreateGroup(u, members)
      PROVE  \E S : SetStatus(S, "active")
  BY <1>1 DEF CreateGroup
<1>2. ASSUME NEW u \in Users, AdminStep(u)
      PROVE  \/ UNCHANGED <<status, memberCount>>
             \/ \E S, s : s \in Statuses /\ SetStatus(S, s)
             \/ memberCount' = 0 /\ status' = [m \in Users |-> "none"]
  <2>1. CASE \/ UpdateGroup(u) \/ GenerateInvite(u) \/ SetVanitySlug(u) \/ RemoveMember(u)
             \/ PromoteAdmin(u)
    BY <2>1, AllowedAre DEF RightsChecked, Allowed, table
  <2>7. CASE SetVisibility(u) \/ SetCode(u) \/ SetSlug(u)
    BY <2>7 DEF SetVisibility, SetCode, SetSlug, table
  <2>2. CASE DeleteGroup(u)
    BY <2>2 DEF DeleteGroup
  <2>3. ASSUME NEW ids \in SUBSET Users, AddMembers(u, ids) PROVE UNCHANGED table
    BY <2>3 DEF AddMembers
  <2>4. CASE UpsertInvited(u)
    BY <2>4, <1>a DEF UpsertInvited, table
  <2>5. CASE UpsertAdded(u)
    BY <2>5, <1>a DEF UpsertAdded, Upsert, table
  <2>6. ASSUME NEW target \in Users, Deactivate(u, target) \/ SetAdmin(u, target)
        PROVE  UNCHANGED <<status, memberCount>> \/ \E S : SetStatus(S, "inactive")
    BY <2>6 DEF Deactivate, SetAdmin
  <2> QED BY <1>2, <1>a, <2>1, <2>2, <2>3, <2>4, <2>5, <2>6, <2>7 DEF AdminStep, table
<1>3. ASSUME NEW u \in Users, MemberStep(u) PROVE UNCHANGED table
  BY <1>3, AllowedAre DEF MemberStep, RightsChecked, Allowed, ReadCode, ShareCode
<1>4. ASSUME NEW u \in Users, NewcomerStep(u)
      PROVE  \/ UNCHANGED <<status, memberCount>>
             \/ \E S, s : s \in Statuses /\ SetStatus(S, s)
  <2>1. ASSUME NEW step, Knock(u, step) PROVE UNCHANGED table
    BY <2>1 DEF Knock, Allowed
  <2>2. CASE UpsertSelf(u)
    BY <2>2, <1>a DEF UpsertSelf, Upsert, table
  <2>3. CASE ActivateInvited(u) \/ DeclineGroupInvite(u)
    BY <2>3, <1>a DEF ActivateInvited, DeclineGroupInvite
  <2> QED BY <1>4, <2>1, <2>2, <2>3, KnocksAre DEF NewcomerStep, table
<1> QED BY <1>1, <1>2, <1>3, <1>4, <1>a DEF Next, table

CountInv == TypesInv /\ CountIsActive

LEMMA InitCount == Init => CountInv
<1> SUFFICES ASSUME Init PROVE CountInv
  OBVIOUS
<1>1. Active = {}
  BY DEF Init, Active
<1>2. CountIsActive
  BY <1>1, FS_EmptySet DEF Init, CountIsActive
<1> QED BY <1>2, InitTypes DEF CountInv

LEMMA NextCount == CountInv /\ [Next]_vars => CountInv'
<1> SUFFICES ASSUME CountInv, [Next]_vars PROVE CountIsActive'
  BY NextTypes DEF CountInv
<1>0. RowsOK /\ CountIsActive
  BY TypeOKSplit DEF CountInv, TypesInv
<1>1. CASE UNCHANGED <<status, memberCount>>
  BY <1>0, <1>1 DEF CountIsActive, Active
<1>2. ASSUME NEW S, NEW s \in Statuses, SetStatus(S, s) PROVE CountIsActive'
  BY <1>0, <1>2, SetStatusRows
<1>3. CASE memberCount' = 0 /\ status' = [m \in Users |-> "none"]
  <2>1. Active' = {}
    BY <1>3 DEF Active
  <2> QED BY <1>3, <2>1, FS_EmptySet DEF CountIsActive
<1>4. CASE UNCHANGED vars
  BY <1>1, <1>4 DEF vars, table
<1> QED BY <1>1, <1>2, <1>3, <1>4, RowsWritten

(* The counter that trg_room_member_count keeps is the number of active members,
   although statements insert, repeat, change and delete rows in any order, and
   although it is floored at zero. *)
THEOREM CountStaysRight == Spec => []CountIsActive
<1>1. CountInv => CountIsActive
  BY DEF CountInv
<1> QED BY <1>1, InitCount, NextCount, PTL DEF Spec

-----------------------------------------------------------------------------
(* The limit *)

(* What a request has checked before it writes: on the count that it read, there
   is room for those it is about to add. *)
Checked ==
  \A u \in Users :
    /\ req[u].step \in {"join", "accept"} => req[u].count + 1 <= MaxMembers
    /\ req[u].step \in {"invite", "add"}
         => req[u].count + Cardinality(req[u].add) <= MaxMembers

LimitInv == CountInv /\ LimitHolds /\ Checked

LEMMA InitLimit == Init => LimitInv
<1> SUFFICES ASSUME Init PROVE LimitHolds /\ Checked
  BY InitCount DEF LimitInv
<1>1. Active \ unchecked = {}
  BY DEF Init, Active
<1>2. LimitHolds
  BY <1>1, LimitType, FS_EmptySet DEF LimitHolds
<1>3. Checked
  BY DEF Init, Idle, Checked
<1> QED BY <1>2, <1>3

(* Members who leave, or join unchecked, do not matter. *)
LEMMA LimitShrinks ==
  ASSUME LimitHolds, Active' \ unchecked' \subseteq Active \ unchecked
  PROVE  LimitHolds'
<1>1. Active \ unchecked \in SUBSET Users /\ Active' \ unchecked' \in SUBSET (Active \ unchecked)
  BY DEF Active
<1>2. IsFiniteSet(Active \ unchecked)
  BY <1>1, SubsetsAreFinite
<1>3. Cardinality(Active' \ unchecked') <= Cardinality(Active \ unchecked)
  BY <1>1, <1>2, FS_Subset
<1>4. Active' \ unchecked' \in SUBSET Users
  BY <1>1
<1>5. Cardinality(Active' \ unchecked') \in Nat /\ Cardinality(Active \ unchecked) \in Nat
  BY <1>1, <1>4, SubsetsAreFinite
<1> QED BY <1>3, <1>5, LimitType DEF LimitHolds

(* Members let in on a count that is still true fit in. *)
LEMMA LimitGrows ==
  ASSUME TypeOK, CountIsActive, NEW S \in SUBSET Users, NEW n \in Nat,
         memberCount <= n, n + Cardinality(S) <= MaxMembers,
         Active' = Active \union S
  PROVE  LimitHolds'
<1>1. /\ Active \in SUBSET Users /\ Active \union S \in SUBSET Users
      /\ Active' \ unchecked' \in SUBSET (Active \union S) /\ Active' \ unchecked' \in SUBSET Users
      /\ Active \intersect S \in SUBSET Users
  BY DEF Active
<1>2. /\ IsFiniteSet(Active) /\ IsFiniteSet(S) /\ IsFiniteSet(Active \union S)
      /\ Cardinality(Active) \in Nat /\ Cardinality(S) \in Nat
      /\ Cardinality(Active \union S) \in Nat /\ Cardinality(Active' \ unchecked') \in Nat
      /\ Cardinality(Active \intersect S) \in Nat
  BY <1>1, SubsetsAreFinite
<1>3. Cardinality(Active \union S)
        = Cardinality(Active) + Cardinality(S) - Cardinality(Active \intersect S)
  BY <1>2, FS_Union
<1>4. Cardinality(Active' \ unchecked') <= Cardinality(Active \union S)
  BY <1>1, <1>2, FS_Subset
<1> QED BY <1>2, <1>3, <1>4, LimitType DEF LimitHolds, CountIsActive

LEMMA UpsertLimit ==
  ASSUME TypeOK, CountIsActive, LimitHolds, NEW S \in SUBSET Users, NEW n \in Nat,
         n + Cardinality(S) <= MaxMembers, Upsert(S, n)
  PROVE  LimitHolds'
<1>1. RowsOK /\ unchecked \subseteq Users /\ memberCount \in Nat
  BY TypeOKSplit DEF Columns, TypeOK
<1>2. Active' = Active \union S
  BY <1>1, UpsertRows
<1>3. CASE memberCount > n
  <2>1. unchecked' = unchecked \union S
    BY <1>3 DEF Upsert
  <2> QED BY <1>2, <2>1, LimitShrinks
<1>4. CASE ~(memberCount > n)
  BY <1>1, <1>2, <1>4, LimitGrows
<1> QED BY <1>3, <1>4

LEMMA KeepRowsLimit ==
  ASSUME LimitHolds, UNCHANGED <<status, unchecked>>
  PROVE  LimitHolds'
<1>1. Active' = Active
  BY DEF Active
<1> QED BY <1>1 DEF LimitHolds

LEMMA LeaveLimit ==
  ASSUME TypeOK, LimitHolds, NEW S, NEW s \in Statuses \ {"active"}, SetStatus(S, s),
         UNCHANGED unchecked
  PROVE  LimitHolds'
<1>1. RowsOK
  BY TypeOKSplit
<1>2. Active' = Active \ S
  BY <1>1, SetStatusRows
<1> QED BY <1>2, LimitShrinks

LEMMA NextLimitHolds ==
  ASSUME LimitInv, Next
  PROVE  LimitHolds'
<1>0. /\ TypeOK /\ CountIsActive /\ LimitHolds /\ Checked /\ Fresh /\ RowsOK
      /\ req \in [Users -> Requests]
  BY TypeOKSplit DEF LimitInv, CountInv, TypesInv
<1>a. {"inactive", "invited", "none"} \subseteq Statuses \ {"active"} /\ "active" \in Statuses
  BY DEF Statuses
<1>1. ASSUME NEW u \in Users, NEW members \in SUBSET Users, CreateGroup(u, members)
      PROVE  LimitHolds'
  <2> DEFINE final == {m \in members : ~Blocked(u, m)}
  <2>1. SetStatus(final \union {u}, "active") /\ unchecked' = final
    BY <1>1 DEF CreateGroup
  <2>2. Active = {}
    BY <1>0, <1>1 DEF CreateGroup, Fresh, Active
  <2>3. Active' = Active \union ((final \union {u}) \intersect Users)
    BY <1>0, <1>a, <2>1, SetStatusRows
  <2>4. Active' \ unchecked' \in SUBSET {u}
    BY <2>1, <2>2, <2>3
  <2>5. IsFiniteSet({u}) /\ Cardinality({u}) = 1
    BY FS_Singleton
  <2>6. Cardinality(Active' \ unchecked') <= 1 /\ Cardinality(Active' \ unchecked') \in Nat
    BY <2>4, <2>5, FS_Subset, FS_CardinalityType
  <2> QED BY <2>6, LimitType DEF LimitHolds
<1>2. ASSUME NEW u \in Users, AdminStep(u) PROVE LimitHolds'
  <2>1. CASE \/ UpdateGroup(u) \/ GenerateInvite(u) \/ SetVanitySlug(u) \/ RemoveMember(u)
             \/ PromoteAdmin(u)
    BY <1>0, <2>1, AllowedAre, KeepRowsLimit DEF RightsChecked, Allowed, table
  <2>8. CASE SetVisibility(u) \/ SetCode(u) \/ SetSlug(u)
    BY <1>0, <2>8, KeepRowsLimit DEF SetVisibility, SetCode, SetSlug, table
  <2>2. CASE DeleteGroup(u)
    <3>1. Active' = {}
      BY <2>2 DEF DeleteGroup, Active
    <3> QED BY <1>0, <3>1, LimitShrinks
  <2>3. ASSUME NEW ids \in SUBSET Users, AddMembers(u, ids) PROVE LimitHolds'
    BY <1>0, <2>3, KeepRowsLimit DEF AddMembers, table
  <2>4. CASE UpsertInvited(u)
    <3>1. CASE group = "open"
      BY <1>0, <1>a, <2>4, <3>1, LeaveLimit DEF UpsertInvited
    <3>2. CASE group # "open"
      BY <1>0, <2>4, <3>2, KeepRowsLimit DEF UpsertInvited, table
    <3> QED BY <3>1, <3>2
  <2>5. CASE UpsertAdded(u)
    <3>1. CASE group = "open"
      <4>1. /\ req[u].add \in SUBSET Users /\ req[u].count \in Nat
            /\ req[u].count + Cardinality(req[u].add) <= MaxMembers
        BY <1>0, <2>5 DEF UpsertAdded, Requests, Checked
      <4>2. Upsert(req[u].add, req[u].count)
        BY <2>5, <3>1 DEF UpsertAdded
      <4> QED BY <1>0, <4>1, <4>2, UpsertLimit
    <3>2. CASE group # "open"
      BY <1>0, <2>5, <3>2, KeepRowsLimit DEF UpsertAdded, table
    <3> QED BY <3>1, <3>2
  <2>6. ASSUME NEW target \in Users, Deactivate(u, target) PROVE LimitHolds'
    BY <1>0, <1>a, <2>6, LeaveLimit DEF Deactivate
  <2>7. ASSUME NEW target \in Users, SetAdmin(u, target) PROVE LimitHolds'
    BY <1>0, <2>7, KeepRowsLimit DEF SetAdmin
  <2> QED BY <1>2, <2>1, <2>2, <2>3, <2>4, <2>5, <2>6, <2>7, <2>8 DEF AdminStep
<1>3. ASSUME NEW u \in Users, MemberStep(u) PROVE LimitHolds'
  <2>1. CASE GetGroup(u) \/ LeaveGroup(u)
    BY <1>0, <2>1, AllowedAre, KeepRowsLimit DEF RightsChecked, Allowed, table
  <2>2. CASE ReadCode(u) \/ \E friend \in Users \ {u} : ShareCode(u, friend)
    BY <1>0, <2>2, KeepRowsLimit DEF ReadCode, ShareCode, table
  <2> QED BY <1>3, <2>1, <2>2 DEF MemberStep
<1>4. ASSUME NEW u \in Users, NewcomerStep(u) PROVE LimitHolds'
  <2>1. ASSUME NEW step, Knock(u, step) PROVE LimitHolds'
    BY <1>0, <2>1, KeepRowsLimit DEF Knock, Allowed, table
  <2>2. ASSUME req[u].step \in {"join", "accept"}
        PROVE  /\ {u} \in SUBSET Users /\ req[u].count \in Nat
               /\ req[u].count + Cardinality({u}) <= MaxMembers
    BY <1>0, <2>2, FS_Singleton DEF Requests, Checked
  <2>3. CASE UpsertSelf(u)
    <3>1. CASE group = "open"
      BY <1>0, <2>2, <2>3, <3>1, UpsertLimit DEF UpsertSelf
    <3>2. CASE group # "open"
      BY <1>0, <2>3, <3>2, KeepRowsLimit DEF UpsertSelf, table
    <3> QED BY <3>1, <3>2
  <2>4. CASE ActivateInvited(u)
    <3>1. CASE status[u] # "invited"
      BY <1>0, <2>4, <3>1, KeepRowsLimit DEF ActivateInvited
    <3>2. CASE status[u] = "invited"
      <4>1. SetStatus({u}, "active")
        BY <2>4, <3>2 DEF ActivateInvited
      <4>2. Active' = Active \union {u}
        BY <1>0, <1>a, <4>1, SetStatusRows
      <4>3. CASE memberCount > req[u].count
        <5>1. unchecked' = unchecked \union {u}
          BY <2>4, <3>2, <4>3 DEF ActivateInvited
        <5> QED BY <1>0, <4>2, <5>1, LimitShrinks
      <4>4. CASE ~(memberCount > req[u].count)
        <5>1. memberCount \in Nat
          BY <1>0 DEF RowsOK
        <5>2. /\ req[u].count \in Nat /\ {u} \in SUBSET Users
              /\ req[u].count + Cardinality({u}) <= MaxMembers
          BY <2>2, <2>4 DEF ActivateInvited
        <5> QED BY <1>0, <4>2, <4>4, <5>1, <5>2, LimitGrows
      <4> QED BY <4>3, <4>4
    <3> QED BY <3>1, <3>2
  <2>5. CASE DeclineGroupInvite(u)
    BY <1>0, <1>a, <2>5, LeaveLimit DEF DeclineGroupInvite
  <2> QED BY <1>4, <2>1, <2>3, <2>4, <2>5, KnocksAre DEF NewcomerStep
<1> QED BY <1>1, <1>2, <1>3, <1>4 DEF Next

(* What lets a user join without an admin *)
WayIn(u) == visibility = "public" \/ told[u] = code

(* Who passes only a check of rights is a member. *)
LEMMA RightsCheckedAre ==
  ASSUME NEW u,
         \/ UpdateGroup(u) \/ GenerateInvite(u) \/ SetVanitySlug(u) \/ RemoveMember(u)
         \/ PromoteAdmin(u) \/ GetGroup(u) \/ LeaveGroup(u)
  PROVE  \E step \in Steps \ {"join", "accept", "invite", "add"} :
            isGroupMember(u) /\ Begin(u, step, {}, {})
BY DEF UpdateGroup, GenerateInvite, SetVanitySlug, RemoveMember, PromoteAdmin, GetGroup,
       LeaveGroup, Allowed, Steps, isGroupAdmin, isGroupMember

(* What a step does to the requests: it begins one, ends one, or an invitation
   goes on to the members to add. *)
LEMMA RequestsWritten ==
  ASSUME Next
  PROVE  \/ UNCHANGED req
         \/ \E u \in Users : Done(u)
         \/ \E u \in Users, step \in Steps \ {"join", "accept", "invite", "add"} :
              isGroupMember(u) /\ Begin(u, step, {}, {})
         \/ \E u \in Users, step \in {"join", "accept"} :
              /\ memberCount < MaxMembers /\ Begin(u, step, {}, {})
              /\ step = "join" => WayIn(u)
         \/ \E u \in Users, ids \in SUBSET Users :
              /\ isGroupAdmin(u)
              /\ memberCount + Cardinality(ids) <= MaxMembers
              /\ Begin(u, "invite", toInvite(u, ids), toAdd(u, ids))
         \/ \E u \in Users : /\ req[u].step = "invite"
                             /\ req' = [req EXCEPT ![u].step = "add"]
<1>1. ASSUME NEW u \in Users, \E members \in SUBSET Users : CreateGroup(u, members)
      PROVE  UNCHANGED req
  BY <1>1 DEF CreateGroup
<1>2. ASSUME NEW u \in Users, AdminStep(u)
      PROVE  \/ UNCHANGED req \/ Done(u)
             \/ \E step \in Steps \ {"join", "accept", "invite", "add"} :
                  isGroupMember(u) /\ Begin(u, step, {}, {})
             \/ \E ids \in SUBSET Users :
                  /\ isGroupAdmin(u)
                  /\ memberCount + Cardinality(ids) <= MaxMembers
                  /\ Begin(u, "invite", toInvite(u, ids), toAdd(u, ids))
             \/ req[u].step = "invite" /\ req' = [req EXCEPT ![u].step = "add"]
  <2>1. CASE \/ UpdateGroup(u) \/ GenerateInvite(u) \/ SetVanitySlug(u) \/ RemoveMember(u)
             \/ PromoteAdmin(u)
    BY <2>1, RightsCheckedAre
  <2>2. CASE \/ SetVisibility(u) \/ SetCode(u) \/ SetSlug(u) \/ DeleteGroup(u)
             \/ \E ids \in SUBSET Users : AddMembers(u, ids)
    BY <2>2 DEF SetVisibility, SetCode, SetSlug, DeleteGroup, AddMembers, AtOnce
  <2>3. CASE \/ UpsertInvited(u) \/ UpsertAdded(u)
             \/ \E target \in Users : Deactivate(u, target) \/ SetAdmin(u, target)
    BY <2>3 DEF UpsertInvited, UpsertAdded, Deactivate, SetAdmin
  <2> QED BY <1>2, <2>1, <2>2, <2>3 DEF AdminStep
<1>3. ASSUME NEW u \in Users, MemberStep(u)
      PROVE  \/ UNCHANGED req \/ Done(u)
             \/ \E step \in Steps \ {"join", "accept", "invite", "add"} :
                  isGroupMember(u) /\ Begin(u, step, {}, {})
  <2>1. CASE GetGroup(u) \/ LeaveGroup(u)
    BY <2>1, RightsCheckedAre
  <2>2. CASE ReadCode(u) \/ \E friend \in Users \ {u} : ShareCode(u, friend)
    BY <2>2 DEF ReadCode, ShareCode, AtOnce
  <2> QED BY <1>3, <2>1, <2>2 DEF MemberStep
<1>4. ASSUME NEW u \in Users, NewcomerStep(u)
      PROVE  \/ UNCHANGED req \/ Done(u)
             \/ \E step \in {"join", "accept"} :
                  /\ memberCount < MaxMembers /\ Begin(u, step, {}, {})
                  /\ step = "join" => WayIn(u)
  <2>1. ASSUME NEW step, Knock(u, step)
        PROVE  memberCount < MaxMembers /\ Begin(u, step, {}, {})
    BY <2>1 DEF Knock, Allowed
  <2>3. CASE JoinGroup(u) \/ JoinGroupByInvite(u) \/ JoinGroupByVanity(u)
    <3>1. WayIn(u) /\ Knock(u, "join")
      BY <2>3 DEF JoinGroup, JoinGroupByInvite, JoinGroupByVanity, WayIn
    <3> QED BY <2>1, <3>1
  <2>4. CASE AcceptGroupInvite(u)
    <3>1. Knock(u, "accept")
      BY <2>4 DEF AcceptGroupInvite
    <3>2. memberCount < MaxMembers /\ Begin(u, "accept", {}, {})
      BY <2>1, <3>1
    <3> QED BY <3>2
  <2>2. CASE UpsertSelf(u) \/ ActivateInvited(u) \/ DeclineGroupInvite(u)
    BY <2>2 DEF UpsertSelf, ActivateInvited, DeclineGroupInvite, AtOnce
  <2> QED BY <1>4, <2>2, <2>3, <2>4 DEF NewcomerStep
<1> QED BY <1>1, <1>2, <1>3, <1>4 DEF Next

LEMMA NextChecked ==
  ASSUME LimitInv, Next
  PROVE  Checked'
<1>0. TypeOK /\ Checked /\ req \in [Users -> Requests] /\ memberCount \in Nat
  BY TypeOKSplit DEF LimitInv, CountInv, TypesInv, RowsOK
<1>1. CASE UNCHANGED req
  BY <1>0, <1>1 DEF Checked
<1>2. ASSUME NEW u \in Users, Done(u) PROVE Checked'
  BY <1>0, <1>2, DoneType DEF Checked, Idle
<1>3. ASSUME NEW u \in Users, NEW step \in Steps \ {"join", "accept", "invite", "add"},
             Begin(u, step, {}, {})
      PROVE  Checked'
  <2>1. step \in Steps
    OBVIOUS
  <2>2. req'[u].step = step /\ \A v \in Users \ {u} : req'[v] = req[v]
    BY <1>0, <1>3, <2>1, EmptyBegin
  <2> QED BY <1>0, <2>2 DEF Checked
<1>4. ASSUME NEW u \in Users, NEW step \in {"join", "accept"}, memberCount < MaxMembers,
             Begin(u, step, {}, {})
      PROVE  Checked'
  <2>1. {} \in SUBSET Users /\ step \in Steps
    BY DEF Steps
  <2>2. /\ req'[u].step = step /\ req'[u].count = memberCount
        /\ \A v \in Users \ {u} : req'[v] = req[v]
    BY <1>0, <1>4, <2>1, BeginType
  <2>3. memberCount + 1 <= MaxMembers
    BY <1>0, <1>4, LimitType
  <2> QED BY <1>0, <2>2, <2>3 DEF Checked
<1>5. ASSUME NEW u \in Users, NEW ids \in SUBSET Users,
             memberCount + Cardinality(ids) <= MaxMembers,
             Begin(u, "invite", toInvite(u, ids), toAdd(u, ids))
      PROVE  Checked'
  <2>1. /\ toInvite(u, ids) \in SUBSET Users /\ toAdd(u, ids) \in SUBSET Users
        /\ toAdd(u, ids) \in SUBSET ids
    BY InviteSets
  <2>a. "invite" \in Steps
    BY DEF Steps
  <2>2. /\ req'[u].step = "invite" /\ req'[u].count = memberCount
        /\ req'[u].add = toAdd(u, ids)
        /\ \A v \in Users \ {u} : req'[v] = req[v]
    BY <1>0, <1>5, <2>1, <2>a, BeginType
  <2>3. /\ Cardinality(toAdd(u, ids)) <= Cardinality(ids)
        /\ Cardinality(toAdd(u, ids)) \in Nat /\ Cardinality(ids) \in Nat
    BY <2>1, SubsetsAreFinite, FS_Subset
  <2>4. memberCount + Cardinality(toAdd(u, ids)) <= MaxMembers
    BY <1>0, <1>5, <2>3, LimitType
  <2> QED BY <1>0, <2>2, <2>4 DEF Checked
<1>6. ASSUME NEW u \in Users, req[u].step = "invite", req' = [req EXCEPT ![u].step = "add"]
      PROVE  Checked'
  <2>1. /\ req'[u].count = req[u].count /\ req'[u].add = req[u].add /\ req'[u].step = "add"
        /\ \A v \in Users \ {u} : req'[v] = req[v]
    BY <1>0, <1>6 DEF Requests
  <2> QED BY <1>0, <1>6, <2>1 DEF Checked
<1> QED BY <1>1, <1>2, <1>3, <1>4, <1>5, <1>6, RequestsWritten

LEMMA NextLimit == LimitInv /\ [Next]_vars => LimitInv'
<1> SUFFICES ASSUME LimitInv, [Next]_vars PROVE LimitHolds' /\ Checked'
  BY NextCount DEF LimitInv
<1>1. CASE UNCHANGED vars
  BY <1>1, KeepRowsLimit DEF vars, table, LimitInv, Checked
<1> QED BY <1>1, NextLimitHolds, NextChecked

(* Not counting the members let in on a count that was outdated when their rows
   were written, and the ones chosen when the group was made, a group never has
   more members than max_members. *)
THEOREM LimitStays == Spec => []LimitHolds
<1>1. LimitInv => LimitHolds
  BY DEF LimitInv
<1> QED BY <1>1, InitLimit, NextLimit, PTL DEF Spec

-----------------------------------------------------------------------------
(* Who is shut out *)

(* Nobody knows a code before it is made. *)
ToldIsOld == /\ \A u \in Users : told[u] <= code
             /\ group = "none" => code = 0

ToldInv == TypesInv /\ ToldIsOld

LEMMA InitTold == Init => ToldInv
BY InitTypes DEF Init, ToldInv, ToldIsOld

(* What a step does to the codes users know: nothing, the first code, a new one,
   the code read, or the code another user knows. *)
LEMMA CodesWritten ==
  ASSUME Next
  PROVE  \/ UNCHANGED <<told, code>> /\ (group' = "none" => group = "none")
         \/ \E u \in Users : /\ group = "none" /\ group' = "open" /\ code' = 1
                             /\ told' = [told EXCEPT ![u] = 1]
         \/ \E u \in Users : /\ group = "open" /\ UNCHANGED group
                             /\ req[u].step = "code" /\ code' = code + 1
                             /\ told' = [told EXCEPT ![u] = code']
         \/ \E u \in Users : /\ group = "open" /\ UNCHANGED group
                             /\ req[u].step = "look" /\ UNCHANGED code
                             /\ told' = [told EXCEPT ![u] = code]
         \/ \E u \in Users : \E friend \in Users \ {u} :
              /\ group = "open" /\ UNCHANGED group
              /\ UNCHANGED code
              /\ told' = [told EXCEPT ![friend] = told[u]]
<1> DEFINE Kept == UNCHANGED <<told, code>> /\ (group' = "none" => group = "none")
<1>1. ASSUME NEW u \in Users, NEW members \in SUBSET Users, CreateGroup(u, members)
      PROVE  group = "none" /\ group' = "open" /\ told' = [told EXCEPT ![u] = 1] /\ code' = 1
  BY <1>1 DEF CreateGroup
<1>2. ASSUME NEW u \in Users, AdminStep(u)
      PROVE  \/ Kept
             \/ /\ group = "open" /\ UNCHANGED group
                /\ req[u].step = "code" /\ code' = code + 1 /\ told' = [told EXCEPT ![u] = code']
  <2>1. CASE SetVisibility(u) \/ SetSlug(u) \/ UpsertInvited(u) \/ UpsertAdded(u)
    BY <2>1 DEF SetVisibility, SetSlug, UpsertInvited, UpsertAdded
  <2>6. CASE \/ UpdateGroup(u) \/ GenerateInvite(u) \/ SetVanitySlug(u) \/ RemoveMember(u)
             \/ PromoteAdmin(u)
    BY <2>6, AllowedAre DEF RightsChecked, Allowed
  <2>2. CASE DeleteGroup(u)
    BY <2>2 DEF DeleteGroup
  <2>3. CASE SetCode(u)
    BY <2>3 DEF SetCode
  <2>4. ASSUME NEW ids \in SUBSET Users, AddMembers(u, ids) PROVE Kept
    BY <2>4 DEF AddMembers
  <2>5. ASSUME NEW target \in Users, Deactivate(u, target) \/ SetAdmin(u, target)
        PROVE  Kept
    BY <2>5 DEF Deactivate, SetAdmin
  <2> QED BY <1>2, <2>1, <2>2, <2>3, <2>4, <2>5, <2>6 DEF AdminStep
<1>3. ASSUME NEW u \in Users, MemberStep(u)
      PROVE  \/ Kept
             \/ /\ group = "open" /\ UNCHANGED group
                /\ req[u].step = "look" /\ UNCHANGED code /\ told' = [told EXCEPT ![u] = code]
             \/ \E friend \in Users \ {u} :
                  /\ group = "open" /\ UNCHANGED group
                  /\ UNCHANGED code
                  /\ told' = [told EXCEPT ![friend] = told[u]]
  <2>1. CASE GetGroup(u) \/ LeaveGroup(u)
    BY <2>1, AllowedAre DEF RightsChecked, Allowed
  <2>2. CASE ReadCode(u)
    BY <2>2 DEF ReadCode
  <2>3. ASSUME NEW friend \in Users \ {u}, ShareCode(u, friend)
        PROVE  /\ group = "open" /\ UNCHANGED group
               /\ UNCHANGED code
               /\ told' = [told EXCEPT ![friend] = told[u]]
    BY <2>3 DEF ShareCode, AtOnce
  <2> QED BY <1>3, <2>1, <2>2, <2>3 DEF MemberStep
<1>4. ASSUME NEW u \in Users, NewcomerStep(u)
      PROVE  Kept
  <2>1. ASSUME NEW step, Knock(u, step) PROVE Kept
    BY <2>1 DEF Knock, Allowed
  <2>2. CASE UpsertSelf(u) \/ ActivateInvited(u) \/ DeclineGroupInvite(u)
    BY <2>2 DEF UpsertSelf, ActivateInvited, DeclineGroupInvite
  <2> QED BY <1>4, <2>1, <2>2, KnocksAre DEF NewcomerStep
<1> HIDE DEF Kept
<1>5. \/ Kept
      \/ \E u \in Users : /\ group = "none" /\ group' = "open" /\ code' = 1
                          /\ told' = [told EXCEPT ![u] = 1]
      \/ \E u \in Users : /\ group = "open" /\ UNCHANGED group
                          /\ req[u].step = "code" /\ code' = code + 1
                          /\ told' = [told EXCEPT ![u] = code']
      \/ \E u \in Users : /\ group = "open" /\ UNCHANGED group
                          /\ req[u].step = "look" /\ UNCHANGED code
                          /\ told' = [told EXCEPT ![u] = code]
      \/ \E u \in Users : \E friend \in Users \ {u} :
           /\ group = "open" /\ UNCHANGED group
           /\ UNCHANGED code
           /\ told' = [told EXCEPT ![friend] = told[u]]
  <2> SUFFICES ASSUME NEW u \in Users,
                      (\E members \in SUBSET Users : CreateGroup(u, members))
                        \/ AdminStep(u) \/ MemberStep(u) \/ NewcomerStep(u)
               PROVE  \/ Kept
                      \/ /\ group = "none" /\ group' = "open" /\ code' = 1
                         /\ told' = [told EXCEPT ![u] = 1]
                      \/ /\ group = "open" /\ UNCHANGED group
                         /\ req[u].step = "code" /\ code' = code + 1
                         /\ told' = [told EXCEPT ![u] = code']
                      \/ /\ group = "open" /\ UNCHANGED group
                         /\ req[u].step = "look" /\ UNCHANGED code
                         /\ told' = [told EXCEPT ![u] = code]
                      \/ \E friend \in Users \ {u} :
                           /\ group = "open" /\ UNCHANGED group
                           /\ UNCHANGED code
                           /\ told' = [told EXCEPT ![friend] = told[u]]
    BY Zenon DEF Next
  <2> QED BY <1>1, <1>2, <1>3, <1>4
<1> QED BY <1>5 DEF Kept

LEMMA NextTold == ToldInv /\ [Next]_vars => ToldInv'
<1> SUFFICES ASSUME ToldInv, [Next]_vars PROVE ToldIsOld'
  BY NextTypes DEF ToldInv
<1>0. told \in [Users -> 0..MaxCodes] /\ code \in 0..MaxCodes /\ ToldIsOld
  BY DEF ToldInv, TypesInv, TypeOK
<1>1. CASE UNCHANGED <<told, code>> /\ (group' = "none" => group = "none")
  BY <1>0, <1>1 DEF ToldIsOld
<1>2. ASSUME NEW u \in Users, group = "none", group' = "open", code' = 1,
             told' = [told EXCEPT ![u] = 1]
      PROVE  ToldIsOld'
  BY <1>0, <1>2 DEF ToldIsOld
<1>3. ASSUME NEW u \in Users, group = "open", UNCHANGED group, code' = code + 1,
             told' = [told EXCEPT ![u] = code']
      PROVE  ToldIsOld'
  BY <1>0, <1>3 DEF ToldIsOld
<1>4. ASSUME NEW u \in Users, group = "open", UNCHANGED group, UNCHANGED code,
             told' = [told EXCEPT ![u] = code]
      PROVE  ToldIsOld'
  BY <1>0, <1>4 DEF ToldIsOld
<1>5. ASSUME NEW u \in Users, NEW friend \in Users, group = "open", UNCHANGED group,
             UNCHANGED code, told' = [told EXCEPT ![friend] = told[u]]
      PROVE  ToldIsOld'
  BY <1>0, <1>5 DEF ToldIsOld
<1>6. CASE UNCHANGED vars
  BY <1>1, <1>6 DEF vars
<1> QED BY <1>1, <1>2, <1>3, <1>4, <1>5, <1>6, CodesWritten

(* Statements that set nobody's row, or others' rows, leave the user out. *)
LEMMA RowStaysOut ==
  ASSUME ToldInv, Next, NEW u \in Users, group = "open", ShutOut(u)
  PROVE  status'[u] \in {"none", "inactive"}
<1>0. TypeOK /\ RowsOK /\ status[u] \in {"none", "inactive"}
  BY TypeOKSplit DEF ToldInv, TypesInv, ShutOut
<1>a. "active" \in Statuses /\ "inactive" \in Statuses /\ "invited" \in Statuses
      /\ "none" \in Statuses
  BY DEF Statuses
<1>b. ASSUME NEW S, NEW s \in Statuses, SetStatus(S, s), u \notin S
      PROVE  status'[u] \in {"none", "inactive"}
  BY <1>0, <1>b, SetStatusRows
<1>1. ASSUME NEW w \in Users, AdminStep(w) PROVE status'[u] \in {"none", "inactive"}
  <2>1. CASE \/ UpdateGroup(w) \/ GenerateInvite(w) \/ SetVanitySlug(w) \/ RemoveMember(w)
             \/ PromoteAdmin(w)
    BY <1>0, <2>1, AllowedAre DEF RightsChecked, Allowed, table
  <2>9. CASE SetVisibility(w) \/ SetCode(w) \/ SetSlug(w)
    BY <1>0, <2>9 DEF SetVisibility, SetCode, SetSlug, table
  <2>2. CASE DeleteGroup(w)
    BY <2>2 DEF DeleteGroup
  <2>3. ASSUME NEW ids \in SUBSET Users, AddMembers(w, ids)
        PROVE  status'[u] \in {"none", "inactive"}
    BY <1>0, <2>3 DEF AddMembers, table
  <2>4. u \notin req[w].invite \union req[w].add
    BY DEF ShutOut
  <2>5. CASE UpsertInvited(w)
    BY <1>a, <1>b, <2>4, <2>5 DEF UpsertInvited
  <2>6. CASE UpsertAdded(w)
    BY <1>a, <1>b, <2>4, <2>6 DEF UpsertAdded, Upsert
  <2>7. ASSUME NEW target \in Users, Deactivate(w, target)
        PROVE  status'[u] \in {"none", "inactive"}
    <3>1. u \notin {target} \intersect Active
      BY <1>0 DEF Active
    <3> QED BY <1>a, <1>b, <2>7, <3>1 DEF Deactivate
  <2>8. ASSUME NEW target \in Users, SetAdmin(w, target)
        PROVE  status'[u] \in {"none", "inactive"}
    BY <1>0, <2>8 DEF SetAdmin
  <2> QED BY <1>1, <2>1, <2>2, <2>3, <2>5, <2>6, <2>7, <2>8, <2>9 DEF AdminStep
<1>2. ASSUME NEW w \in Users, MemberStep(w) PROVE UNCHANGED status
  BY <1>2, AllowedAre DEF MemberStep, RightsChecked, Allowed, ReadCode, ShareCode, table
<1>3. ASSUME NEW w \in Users, NewcomerStep(w) PROVE status'[u] \in {"none", "inactive"}
  <2>1. ASSUME NEW step, Knock(w, step) PROVE UNCHANGED status
    BY <2>1 DEF Knock, Allowed, table
  <2>2. CASE UpsertSelf(w)
    <3>1. u # w
      BY <2>2 DEF UpsertSelf, ShutOut
    <3>2. CASE group = "open"
      BY <1>a, <1>b, <2>2, <3>1, <3>2 DEF UpsertSelf, Upsert
    <3> QED BY <3>2
  <2>3. CASE ActivateInvited(w)
    <3>1. CASE status[w] = "invited"
      BY <1>0, <1>a, <1>b, <2>3, <3>1 DEF ActivateInvited
    <3>2. CASE status[w] # "invited"
      BY <1>0, <2>3, <3>2 DEF ActivateInvited
    <3> QED BY <3>1, <3>2
  <2>4. CASE DeclineGroupInvite(w)
    <3>1. w # u /\ SetStatus({w}, "none")
      BY <1>0, <2>4 DEF DeclineGroupInvite
    <3> QED BY <1>a, <1>b, <3>1
  <2> QED BY <1>0, <1>3, <2>1, <2>2, <2>3, <2>4, KnocksAre DEF NewcomerStep
<1>4. ASSUME NEW w \in Users, NEW members \in SUBSET Users PROVE ~CreateGroup(w, members)
  BY DEF CreateGroup
<1> QED BY <1>0, <1>1, <1>2, <1>3, <1>4 DEF Next

LEMMA CodeStaysUnknown ==
  ASSUME ToldInv, Next, NEW u \in Users, group = "open", ShutOut(u), ~LetIn(u)
  PROVE  told'[u] # code'
<1>0. /\ told \in [Users -> 0..MaxCodes] /\ code \in 0..MaxCodes /\ told[u] # code
      /\ told[u] <= code /\ status[u] # "active" /\ req[u].step \notin {"look", "code"}
  BY DEF ToldInv, ToldIsOld, TypesInv, TypeOK, ShutOut
<1>1. CASE UNCHANGED <<told, code>>
  BY <1>0, <1>1
<1>2. ASSUME NEW w \in Users, req[w].step = "code", code' = code + 1,
             told' = [told EXCEPT ![w] = code']
      PROVE  told'[u] # code'
  BY <1>0, <1>2
<1>3. ASSUME NEW w \in Users, req[w].step = "look", UNCHANGED code,
             told' = [told EXCEPT ![w] = code]
      PROVE  told'[u] # code'
  BY <1>0, <1>3
<1>4. ASSUME NEW w \in Users, NEW friend \in Users \ {w}, UNCHANGED code,
             told' = [told EXCEPT ![friend] = told[w]]
      PROVE  told'[u] # code'
  <2>1. CASE friend # u
    BY <1>0, <1>4, <2>1
  <2>2. CASE friend = u
    <3>1. w \in Users \ {u} /\ told'[u] = told[w]
      BY <1>0, <1>4, <2>2
    <3>2. told'[u] = told[u]
      BY <3>1 DEF LetIn
    <3> QED BY <1>0, <1>4, <3>2
  <2> QED BY <2>1, <2>2
<1> QED BY <1>1, <1>2, <1>3, <1>4, CodesWritten

LEMMA RequestsStayOut ==
  ASSUME ToldInv, Next, NEW u \in Users, group = "open", ShutOut(u), ~LetIn(u)
  PROVE  /\ req'[u].step \notin {"look", "join", "code", "change"}
         /\ \A a \in Users : u \notin req'[a].invite \union req'[a].add
<1>0. /\ TypeOK /\ req \in [Users -> Requests]
      /\ req[u].step \notin {"look", "join", "code", "change"}
      /\ \A a \in Users : u \notin req[a].invite \union req[a].add
      /\ ~isGroupMember(u) /\ ~WayIn(u)
  BY TypeOKSplit DEF ToldInv, TypesInv, ShutOut, isGroupMember, WayIn
<1>1. CASE UNCHANGED req
  BY <1>0, <1>1
<1>2. ASSUME NEW w \in Users, Done(w)
      PROVE  /\ req'[u].step \notin {"look", "join", "code", "change"}
             /\ \A a \in Users : u \notin req'[a].invite \union req'[a].add
  BY <1>0, <1>2, DoneType DEF Idle
<1>3. ASSUME NEW w \in Users, NEW step \in Steps \ {"join", "accept", "invite", "add"},
             isGroupMember(w), Begin(w, step, {}, {})
      PROVE  /\ req'[u].step \notin {"look", "join", "code", "change"}
             /\ \A a \in Users : u \notin req'[a].invite \union req'[a].add
  <2>1. /\ \A v \in Users \ {w} : req'[v] = req[v]
        /\ req'[w].invite = {} /\ req'[w].add = {} /\ w # u
    BY <1>0, <1>3, EmptyBegin
  <2> QED BY <1>0, <2>1
<1>4. ASSUME NEW w \in Users, NEW step \in {"join", "accept"}, Begin(w, step, {}, {}),
             step = "join" => WayIn(w)
      PROVE  /\ req'[u].step \notin {"look", "join", "code", "change"}
             /\ \A a \in Users : u \notin req'[a].invite \union req'[a].add
  <2>1. step \in Steps /\ Begin(w, step, {}, {})
    BY <1>4 DEF Steps
  <2>2. /\ \A v \in Users \ {w} : req'[v] = req[v]
        /\ req'[w].step = step /\ req'[w].invite = {} /\ req'[w].add = {}
    BY <1>0, <2>1, EmptyBegin
  <2> QED BY <1>0, <1>4, <2>2
<1>5. ASSUME NEW w \in Users, NEW ids \in SUBSET Users, isGroupAdmin(w),
             Begin(w, "invite", toInvite(w, ids), toAdd(w, ids))
      PROVE  /\ req'[u].step \notin {"look", "join", "code", "change"}
             /\ \A a \in Users : u \notin req'[a].invite \union req'[a].add
  <2>1. toInvite(w, ids) \in SUBSET Users /\ toAdd(w, ids) \in SUBSET Users
    BY InviteSets
  <2>2. /\ req'[w].invite = toInvite(w, ids) /\ req'[w].add = toAdd(w, ids)
        /\ \A v \in Users \ {w} : req'[v] = req[v]
    BY <1>0, <1>5, <2>1, BeginType DEF Steps
  <2>3. req[w] = Idle /\ w # u
    BY <1>0, <1>5 DEF Begin, isGroupAdmin, isGroupMember
  <2>4. u \notin req'[w].invite \union req'[w].add
    BY <1>5, <2>3 DEF LetIn
  <2> QED BY <1>0, <2>2, <2>3, <2>4
<1>6. ASSUME NEW w \in Users, req[w].step = "invite", req' = [req EXCEPT ![w].step = "add"]
      PROVE  /\ req'[u].step \notin {"look", "join", "code", "change"}
             /\ \A a \in Users : u \notin req'[a].invite \union req'[a].add
  <2>1. /\ req'[w].invite = req[w].invite /\ req'[w].add = req[w].add /\ req'[w].step = "add"
        /\ \A v \in Users \ {w} : req'[v] = req[v]
    BY <1>0, <1>6 DEF Requests
  <2> QED BY <1>0, <2>1
<1> QED BY <1>1, <1>2, <1>3, <1>4, <1>5, <1>6, RequestsWritten

(* Only the UPDATE of an UpdateGroup request changes the visibility of a group. *)
LEMMA VisibilityWritten ==
  ASSUME Next, group = "open"
  PROVE  visibility' # visibility => \E w \in Users : req[w].step = "change"
<1>1. ASSUME NEW u \in Users, NEW members \in SUBSET Users PROVE ~CreateGroup(u, members)
  BY DEF CreateGroup
<1>2. ASSUME NEW u \in Users,
             \/ UpdateGroup(u) \/ GenerateInvite(u) \/ SetVanitySlug(u) \/ RemoveMember(u)
             \/ PromoteAdmin(u) \/ GetGroup(u) \/ LeaveGroup(u)
      PROVE  UNCHANGED visibility
  BY <1>2, AllowedAre DEF RightsChecked, Allowed
<1>3. ASSUME NEW u \in Users, SetVisibility(u) PROVE req[u].step = "change"
  BY <1>3 DEF SetVisibility
<1>4. ASSUME NEW u \in Users,
             \/ SetCode(u) \/ SetSlug(u) \/ DeleteGroup(u) \/ UpsertInvited(u) \/ UpsertAdded(u)
             \/ \E ids \in SUBSET Users \ {{}} : AddMembers(u, ids)
             \/ \E target \in Users : Deactivate(u, target) \/ SetAdmin(u, target)
      PROVE  UNCHANGED visibility
  BY <1>4 DEF SetCode, SetSlug, DeleteGroup, UpsertInvited, UpsertAdded, AddMembers, Deactivate,
              SetAdmin
<1>5. ASSUME NEW u \in Users, ReadCode(u) \/ \E friend \in Users \ {u} : ShareCode(u, friend)
      PROVE  UNCHANGED visibility
  BY <1>5 DEF ReadCode, ShareCode
<1>6. ASSUME NEW u \in Users, NewcomerStep(u) PROVE UNCHANGED visibility
  <2>1. ASSUME NEW step, Knock(u, step) PROVE UNCHANGED visibility
    BY <2>1 DEF Knock, Allowed
  <2>2. CASE UpsertSelf(u) \/ ActivateInvited(u) \/ DeclineGroupInvite(u)
    BY <2>2 DEF UpsertSelf, ActivateInvited, DeclineGroupInvite
  <2> QED BY <1>6, <2>1, <2>2, KnocksAre DEF NewcomerStep
<1> QED BY <1>1, <1>2, <1>3, <1>4, <1>5, <1>6 DEF Next, AdminStep, MemberStep

LEMMA StaysOut ==
  ASSUME ToldInv, Next, NEW u \in Users, group = "open", ShutOut(u), ~LetIn(u)
  PROVE  ShutOut(u)'
<1>1. visibility' \in {"public", "private"}
  BY NextTold DEF ToldInv, TypesInv, TypeOK
<1>2. visibility' # visibility => \E w \in Users : req[w].step = "change"
  BY VisibilityWritten
<1>3. visibility = "private" /\ req[u].step # "change"
  BY DEF ShutOut
<1>4. visibility' = "private"
  BY <1>1, <1>2, <1>3 DEF LetIn
<1> QED BY <1>4, RowStaysOut, CodeStaysUnknown, RequestsStayOut DEF ShutOut

(* Who has been removed from a private group whose code has changed stays out,
   whatever others have in flight and whichever way in is tried, until another user
   opens the group, passes on the code, or adds or invites the user again. *)
THEOREM ShutOutHolds == Spec => ShutOutStays
<1>1. ToldInv /\ [Next]_vars
        => [\A u \in Users : group = "open" /\ ShutOut(u) => ShutOut(u)' \/ LetIn(u)]_vars
  BY StaysOut
<1> QED BY <1>1, InitTold, NextTold, PTL DEF Spec, ShutOutStays

-----------------------------------------------------------------------------
(* Donations, which decide who is a VIP *)

LEMMA ReportKinds ==
  ASSUME NEW o \in Orders
  PROVE  /\ Completed(o) \in Reports /\ FailedTry(o) \in Reports
         /\ Completed(o).order = o /\ Completed(o).says = "completed"
         /\ FailedTry(o).order = o /\ FailedTry(o).says = "failed"
BY DEF Reports, Completed, FailedTry

LEMMA ReportIsOf ==
  ASSUME NEW r \in Reports
  PROVE  /\ r.order \in Orders
         /\ r.says = "completed" => r = Completed(r.order)
         /\ r.says = "failed" => r = FailedTry(r.order)
         /\ r.says \in {"completed", "failed"}
BY DEF Reports, Completed, FailedTry

(* A request under way has a report. *)
LEMMA HookShape ==
  ASSUME DonationTypeOK, NEW h \in Hooks, hook[h] # NoHook
  PROVE  /\ hook[h] \in [report : Reports, step : {"lookup", "insert", "mark", "fail"}]
         /\ hook[h].report \in Reports /\ hook[h].report.order \in Orders
         /\ hook[h].step = "fail" <=> hook[h].report.says = "failed"
BY ReportIsOf DEF DonationTypeOK

LEMMA HookIdle ==
  ASSUME NEW h \in Hooks, hook[h].step # "idle"
  PROVE  hook[h] # NoHook
BY DEF NoHook

LEMMA DonationTypeInit == DonationInit => DonationTypeOK
BY DonationBounds DEF DonationInit, DonationTypeOK

(* The request h goes to another step, of the same report. *)
LEMMA HookSteps ==
  ASSUME DonationTypeOK, NEW h \in Hooks, hook[h] # NoHook,
         NEW step \in {"lookup", "insert", "mark"}, hook[h].step # "fail",
         hook' = [hook EXCEPT ![h].step = step]
  PROVE  /\ hook' \in [Hooks -> [report : Reports, step : {"lookup", "insert", "mark", "fail"}]
                                \union {NoHook}]
         /\ \A g \in Hooks : hook'[g] # NoHook =>
              (hook'[g].step = "fail" <=> hook'[g].report.says = "failed")
         /\ hook'[h].report = hook[h].report /\ hook'[h].step = step
         /\ \A g \in Hooks \ {h} : hook'[g] = hook[g]
<1> DEFINE new == [hook[h] EXCEPT !.step = step]
<1>1. /\ hook[h] \in [report : Reports, step : {"lookup", "insert", "mark", "fail"}]
      /\ hook[h].report.says # "failed"
  BY HookShape
<1>2. /\ new \in [report : Reports, step : {"lookup", "insert", "mark", "fail"}]
      /\ new.report = hook[h].report /\ new.step = step
  BY <1>1
<1>3. hook' = [hook EXCEPT ![h] = new]
  OBVIOUS
<1> HIDE DEF new
<1>4. hook \in [Hooks -> [report : Reports, step : {"lookup", "insert", "mark", "fail"}] \union {NoHook}]
      /\ \A g \in Hooks : hook[g] # NoHook => (hook[g].step = "fail" <=> hook[g].report.says = "failed")
  BY DEF DonationTypeOK
<1>5. hook'[h] = new /\ \A g \in Hooks \ {h} : hook'[g] = hook[g]
  BY <1>3, <1>4
<1>6. hook' \in [Hooks -> [report : Reports, step : {"lookup", "insert", "mark", "fail"}] \union {NoHook}]
  BY <1>2, <1>3, <1>4
<1>7. \A g \in Hooks : hook'[g] # NoHook => (hook'[g].step = "fail" <=> hook'[g].report.says = "failed")
  BY <1>1, <1>2, <1>4, <1>5
<1> QED BY <1>2, <1>5, <1>6, <1>7

(* The request h ends. *)
LEMMA HookEnds ==
  ASSUME DonationTypeOK, NEW h \in Hooks, hook' = [hook EXCEPT ![h] = NoHook]
  PROVE  /\ hook' \in [Hooks -> [report : Reports, step : {"lookup", "insert", "mark", "fail"}]
                                \union {NoHook}]
         /\ \A g \in Hooks : hook'[g] # NoHook =>
              (hook'[g].step = "fail" <=> hook'[g].report.says = "failed")
         /\ hook'[h] = NoHook /\ \A g \in Hooks \ {h} : hook'[g] = hook[g]
<1>1. hook \in [Hooks -> [report : Reports, step : {"lookup", "insert", "mark", "fail"}] \union {NoHook}]
      /\ \A g \in Hooks : hook[g] # NoHook => (hook[g].step = "fail" <=> hook[g].report.says = "failed")
  BY DEF DonationTypeOK
<1> QED BY <1>1

(* The request h begins with a report. *)
LEMMA HookBegins ==
  ASSUME DonationTypeOK, NEW h \in Hooks, NEW r \in reports, Receive(h, r)
  PROVE  /\ r \in Reports
         /\ hook' \in [Hooks -> [report : Reports, step : {"lookup", "insert", "mark", "fail"}]
                                \union {NoHook}]
         /\ \A g \in Hooks : hook'[g] # NoHook =>
              (hook'[g].step = "fail" <=> hook'[g].report.says = "failed")
         /\ hook[h] = NoHook /\ hook'[h].report = r /\ hook'[h].step = FirstStep(r)
         /\ \A g \in Hooks \ {h} : hook'[g] = hook[g]
<1> DEFINE new == [report |-> r, step |-> FirstStep(r)]
<1>1. r \in Reports /\ hook[h] = NoHook
  BY DEF DonationTypeOK, Receive
<1>2. /\ new \in [report : Reports, step : {"lookup", "insert", "mark", "fail"}]
      /\ new.report = r /\ new.step = FirstStep(r)
      /\ new.step = "fail" <=> new.report.says = "failed"
  BY <1>1, ReportIsOf DEF FirstStep
<1>3. hook' = [hook EXCEPT ![h] = new]
  BY DEF Receive, Hook
<1> HIDE DEF new
<1>4. hook \in [Hooks -> [report : Reports, step : {"lookup", "insert", "mark", "fail"}] \union {NoHook}]
      /\ \A g \in Hooks : hook[g] # NoHook => (hook[g].step = "fail" <=> hook[g].report.says = "failed")
  BY DEF DonationTypeOK
<1>5. hook'[h] = new /\ \A g \in Hooks \ {h} : hook'[g] = hook[g]
  BY <1>3, <1>4
<1>6. hook' \in [Hooks -> [report : Reports, step : {"lookup", "insert", "mark", "fail"}] \union {NoHook}]
  BY <1>2, <1>3, <1>4
<1>7. \A g \in Hooks : hook'[g] # NoHook => (hook'[g].step = "fail" <=> hook'[g].report.says = "failed")
  BY <1>2, <1>4, <1>5
<1> QED BY <1>1, <1>2, <1>5, <1>6, <1>7

LEMMA AnsweredType ==
  ASSUME DonationTypeOK, NEW h \in Hooks, Answered(h)
  PROVE  reports' \subseteq reports /\ repeats' \in 0..MaxRepeats
BY DonationBounds DEF DonationTypeOK, Answered

LEMMA DonationTypeStep == DonationTypeOK /\ [DonationNext]_donationVars => DonationTypeOK'
<1> SUFFICES ASSUME DonationTypeOK, [DonationNext]_donationVars PROVE DonationTypeOK'
  OBVIOUS
<1> USE DonationBounds
<1>1. ASSUME NEW o \in Orders, CreateDonationOrder(o) PROVE DonationTypeOK'
  BY <1>1 DEF DonationTypeOK, CreateDonationOrder
<1>2. ASSUME NEW o \in Orders, AttemptFails(o) PROVE DonationTypeOK'
  BY <1>2, ReportKinds DEF DonationTypeOK, AttemptFails
<1>3. ASSUME NEW o \in Orders, Capture(o) PROVE DonationTypeOK'
  BY <1>3, ReportKinds DEF DonationTypeOK, Capture
<1>4. ASSUME NEW h \in Hooks, NEW r \in reports, Receive(h, r) PROVE DonationTypeOK'
  <2>1. repeats' \in 0..MaxRepeats
    BY <1>4 DEF Receive, DonationTypeOK
  <2> QED BY <1>4, <2>1, HookBegins DEF DonationTypeOK, Receive, provider
<1>5. ASSUME NEW h \in Hooks, LookUp(h) PROVE DonationTypeOK'
  <2>1. hook[h] # NoHook /\ hook[h].step # "fail" /\ hook[h].report.order \in Orders
    BY <1>5, HookIdle, HookShape DEF LookUp
  <2>2. CASE orderStatus[hook[h].report.order] = "pending"
    <3>1. hook' = [hook EXCEPT ![h].step = "insert"] /\ UNCHANGED <<reports, repeats>>
      BY <1>5, <2>2 DEF LookUp
    <3>2. overlapped' \subseteq Orders
      BY <1>5, <2>1, <2>2 DEF LookUp, DonationTypeOK
    <3> QED BY <1>5, <2>1, <3>1, <3>2, HookSteps DEF LookUp, DonationTypeOK
  <2>3. CASE orderStatus[hook[h].report.order] # "pending"
    <3>1. Answered(h) /\ UNCHANGED overlapped
      BY <1>5, <2>3 DEF LookUp
    <3>2. hook' = [hook EXCEPT ![h] = NoHook]
      BY <3>1 DEF Answered
    <3> QED BY <1>5, <3>1, <3>2, HookEnds, AnsweredType DEF LookUp, DonationTypeOK
  <2> QED BY <2>2, <2>3
<1>6. ASSUME NEW h \in Hooks, LookUpFails(h) PROVE DonationTypeOK'
  <2>1. hook[h].report.order \in Orders
    BY <1>6, HookIdle, HookShape DEF LookUpFails
  <2>2. Answered(h) /\ hook' = [hook EXCEPT ![h] = NoHook]
    BY <1>6 DEF LookUpFails, Answered
  <2> QED BY <1>6, <2>1, <2>2, HookEnds, AnsweredType DEF LookUpFails, DonationFault, DonationTypeOK
<1>7. ASSUME NEW h \in Hooks, Insert(h) PROVE DonationTypeOK'
  <2>1. hook[h] # NoHook /\ hook[h].step # "fail" /\ hook[h].report.order \in Orders
    BY <1>7, HookIdle, HookShape DEF Insert
  <2>2. hook' = [hook EXCEPT ![h].step = "mark"]
    BY <1>7 DEF Insert
  <2>3. donated' \in [Orders -> Nat]
    BY <1>7, <2>1 DEF Insert, DonationTypeOK
  <2> QED BY <1>7, <2>1, <2>2, <2>3, HookSteps DEF Insert, DonationTypeOK, provider
<1>8. ASSUME NEW h \in Hooks, InsertFails(h) PROVE DonationTypeOK'
  <2>1. hook[h] # NoHook /\ hook[h].step # "fail" /\ hook[h].report.order \in Orders
    BY <1>8, HookIdle, HookShape DEF InsertFails
  <2>2. hook' = [hook EXCEPT ![h].step = "mark"]
    BY <1>8 DEF InsertFails
  <2>3. donated' \in [Orders -> Nat]
    BY <1>8, <2>1 DEF InsertFails, DonationTypeOK
  <2> QED BY <1>8, <2>1, <2>2, <2>3, HookSteps DEF InsertFails, DonationFault, DonationTypeOK, provider
<1>9. ASSUME NEW h \in Hooks, MarkCompleted(h) \/ MarkFailed(h) \/ MarkingFails(h) PROVE DonationTypeOK'
  <2>1. hook[h].report.order \in Orders
    BY <1>9, HookIdle, HookShape DEF MarkCompleted, MarkFailed, MarkingFails
  <2>2. Answered(h) /\ hook' = [hook EXCEPT ![h] = NoHook]
    BY <1>9 DEF MarkCompleted, MarkFailed, MarkingFails, Answered
  <2>3. /\ orderStatus' \in [Orders -> {"none", "pending", "completed", "failed"}]
        /\ declined' \subseteq Orders /\ troubled' \subseteq Orders
        /\ donationFaults' \in 0..MaxDonationFaults
    BY <1>9, <2>1 DEF MarkCompleted, MarkFailed, MarkingFails, DonationFault, DonationTypeOK
  <2>4. UNCHANGED <<donated, payment, attempts, overlapped>>
    BY <1>9 DEF MarkCompleted, MarkFailed, MarkingFails
  <2> QED BY <2>2, <2>3, <2>4, HookEnds, AnsweredType DEF DonationTypeOK
<1>10. ASSUME NEW h \in Hooks, HookDies(h) PROVE DonationTypeOK'
  <2>1. hook[h].report.order \in Orders /\ hook' = [hook EXCEPT ![h] = NoHook]
    BY <1>10, HookShape DEF HookDies
  <2> QED BY <1>10, <2>1, HookEnds DEF HookDies, DonationFault, DonationTypeOK, provider
<1>11. CASE UNCHANGED donationVars
  BY <1>11 DEF DonationTypeOK, donationVars, provider
<1> QED
  BY <1>1, <1>2, <1>3, <1>4, <1>5, <1>6, <1>7, <1>8, <1>9, <1>10, <1>11 DEF DonationNext, HandleReport

(* Orders, donations and requests have the types the handlers give them; a report of
   a failed attempt is never treated as a payment. *)
THEOREM DonationTypeCorrect == DonationSpec => []DonationTypeOK
<1>1. DonationInit => DonationTypeOK
  BY DonationTypeInit
<1>2. DonationTypeOK /\ [DonationNext]_donationVars => DonationTypeOK'
  BY DonationTypeStep
<1> QED BY <1>1, <1>2, PTL DEF DonationSpec

-----------------------------------------------------------------------------
(* What holds of one order *)

On(h, o)     == At(h, o, {"lookup", "insert", "mark"})
Writing(h, o) == At(h, o, {"insert", "mark"})

(* Whoever works on a payment was told of it. *)
OnlyPaid(o) ==
  /\ payment[o] # "none" => orderStatus[o] # "none"
  /\ (Completed(o) \in reports \/ \E h \in Hooks : On(h, o)) => payment[o] = "captured"
  /\ (donated[o] > 0 \/ orderStatus[o] = "completed") => payment[o] = "captured"

(* The order is marked after the donation is inserted. *)
InsertedFirst(o) ==
  o \notin troubled =>
    /\ \A h \in Hooks : At(h, o, {"mark"}) => donated[o] >= 1
    /\ orderStatus[o] = "completed" => donated[o] >= 1

(* A payment not recorded yet is still being reported or worked on. *)
Underway(o) ==
  o \notin declined \union troubled /\ payment[o] # "none" =>
    /\ orderStatus[o] # "failed"
    /\ payment[o] = "captured" =>
         \/ Completed(o) \in reports
         \/ \E h \in Hooks : On(h, o)
         \/ (donated[o] >= 1 /\ orderStatus[o] = "completed")

(* An order found pending has no donation, unless somebody is about to mark it. *)
NotTwice(o) ==
  o \notin overlapped \union troubled =>
    /\ donated[o] <= 1
    /\ \A h \in Hooks : At(h, o, {"insert"}) => donated[o] = 0
    /\ \A g, h \in Hooks : Writing(g, o) /\ Writing(h, o) => g = h
    /\ orderStatus[o] \in {"none", "pending"} /\ donated[o] > 0 => \E h \in Hooks : At(h, o, {"mark"})

OrderInv(o) == OnlyPaid(o) /\ InsertedFirst(o) /\ Underway(o) /\ NotTwice(o)

(* A step that leaves an order alone *)
LEMMA OrderAlone ==
  ASSUME NEW o \in Orders, OrderInv(o),
         orderStatus'[o] = orderStatus[o], donated'[o] = donated[o], payment'[o] = payment[o],
         Completed(o) \in reports' <=> Completed(o) \in reports,
         o \in troubled => o \in troubled', o \in declined => o \in declined',
         o \in overlapped => o \in overlapped',
         \A g \in Hooks : hook'[g] = hook[g] \/ (~On(g, o) /\ ~On(g, o)')
  PROVE  OrderInv(o)'
<1>1. \A g \in Hooks : /\ On(g, o)' <=> On(g, o)
                       /\ Writing(g, o)' <=> Writing(g, o)
                       /\ At(g, o, {"mark"})' <=> At(g, o, {"mark"})
                       /\ At(g, o, {"insert"})' <=> At(g, o, {"insert"})
  BY DEF On, Writing, At
<1>2. (Completed(o) \in reports)' <=> Completed(o) \in reports
  BY DEF Completed
<1> QED
  <2>1. OnlyPaid(o)'
    BY <1>1, <1>2 DEF OrderInv, OnlyPaid
  <2>2. InsertedFirst(o)'
    BY <1>1, <1>2 DEF OrderInv, InsertedFirst
  <2>3. Underway(o)'
    BY <1>1, <1>2 DEF OrderInv, Underway
  <2>4. NotTwice(o)'
    BY <1>1, <1>2 DEF OrderInv, NotTwice
  <2> QED BY <2>1, <2>2, <2>3, <2>4 DEF OrderInv

(* A step of the request h leaves the other orders alone, as far as it stays
   with its report and only that one is answered. *)
LEMMA OthersAlone ==
  ASSUME DonationTypeOK, NEW h \in Hooks, hook[h] # NoHook,
         hook'[h] = NoHook \/ hook'[h].report = hook[h].report,
         \A g \in Hooks \ {h} : hook'[g] = hook[g],
         reports' = reports \/ reports' = reports \ {hook[h].report},
         NEW o \in Orders, o # hook[h].report.order, OrderInv(o),
         orderStatus'[o] = orderStatus[o], donated'[o] = donated[o], payment'[o] = payment[o],
         o \in troubled => o \in troubled', o \in declined => o \in declined',
         o \in overlapped => o \in overlapped'
  PROVE  OrderInv(o)'
<1>1. ~On(h, o) /\ ~On(h, o)'
  BY DEF On, At, NoHook
<1>2. Completed(o) \in reports' <=> Completed(o) \in reports
  BY ReportKinds
<1> QED BY <1>1, <1>2, OrderAlone

LEMMA OrderInit == ASSUME DonationInit, NEW o \in Orders PROVE OrderInv(o)
<1>1. \A h \in Hooks, S \in SUBSET {"lookup", "insert", "mark", "fail"} : ~At(h, o, S)
  BY DEF DonationInit, At, NoHook
<1> QED
  BY <1>1 DEF DonationInit, OrderInv, OnlyPaid, InsertedFirst, Underway, NotTwice, On, Writing

(* The orders a step is not about *)
LEMMA ProviderStep ==
  ASSUME DonationTypeOK, NEW p \in Orders,
         CreateDonationOrder(p) \/ AttemptFails(p) \/ Capture(p),
         NEW o \in Orders, OrderInv(o)
  PROVE  OrderInv(o)'
<1>1. UNCHANGED <<donated, hook, overlapped, declined, troubled>>
  BY DEF CreateDonationOrder, AttemptFails, Capture
<1>2. CASE o # p
  <2>1. orderStatus'[o] = orderStatus[o] /\ payment'[o] = payment[o]
    BY <1>2 DEF CreateDonationOrder, AttemptFails, Capture, DonationTypeOK
  <2>2. Completed(o) \in reports' <=> Completed(o) \in reports
    BY <1>2, ReportKinds DEF CreateDonationOrder, AttemptFails, Capture
  <2> QED BY <1>1, <2>1, <2>2, OrderAlone
<1>3. CASE o = p /\ AttemptFails(p)
  <2>1. Completed(o) \in reports' <=> Completed(o) \in reports
    BY <1>3, ReportKinds DEF AttemptFails
  <2> QED BY <1>1, <1>3, <2>1, OrderAlone DEF AttemptFails
<1>4. CASE o = p /\ CreateDonationOrder(p)
  <2>1. /\ orderStatus[o] = "none" /\ payment[o] = "none"
        /\ orderStatus'[o] = "pending" /\ payment'[o] \in {"none", "open"}
        /\ UNCHANGED reports
    BY <1>4 DEF CreateDonationOrder, DonationTypeOK, OrderInv, OnlyPaid
  <2>2. donated[o] = 0 /\ Completed(o) \notin reports /\ \A h \in Hooks : ~On(h, o)
    BY <2>1 DEF OrderInv, OnlyPaid, DonationTypeOK
  <2>3. \A h \in Hooks : ~On(h, o)' /\ ~Writing(h, o)' /\ ~At(h, o, {"mark"})' /\ ~At(h, o, {"insert"})'
    BY <1>1, <2>2 DEF On, Writing, At
  <2>4. (Completed(o) \in reports)' <=> Completed(o) \in reports
    BY <2>1 DEF Completed
  <2> QED
    BY <1>1, <2>1, <2>2, <2>3, <2>4 DEF OrderInv, OnlyPaid, InsertedFirst, Underway, NotTwice
<1>5. CASE o = p /\ Capture(p)
  <2>1. /\ payment[o] = "open" /\ payment'[o] = "captured" /\ UNCHANGED orderStatus
        /\ Completed(o) \in reports'
    BY <1>5 DEF Capture, DonationTypeOK
  <2>2. \A h \in Hooks : /\ On(h, o)' <=> On(h, o)
                         /\ Writing(h, o)' <=> Writing(h, o)
                         /\ At(h, o, {"mark"})' <=> At(h, o, {"mark"})
                         /\ At(h, o, {"insert"})' <=> At(h, o, {"insert"})
    BY <1>1 DEF On, Writing, At
  <2>3. (Completed(o) \in reports)'
    BY <2>1 DEF Completed
  <2>4. OnlyPaid(o)'
    BY <1>1, <2>1 DEF OrderInv, OnlyPaid
  <2>5. InsertedFirst(o)'
    BY <1>1, <2>1, <2>2 DEF OrderInv, InsertedFirst
  <2>6. Underway(o)'
    BY <1>1, <2>1, <2>3 DEF OrderInv, Underway
  <2>7. NotTwice(o)'
    BY <1>1, <2>1, <2>2 DEF OrderInv, NotTwice
  <2> QED BY <2>4, <2>5, <2>6, <2>7 DEF OrderInv
<1> QED BY <1>2, <1>3, <1>4, <1>5

LEMMA ReceiveStep ==
  ASSUME DonationTypeOK, NEW h \in Hooks, NEW r \in reports, Receive(h, r),
         NEW o \in Orders, OrderInv(o)
  PROVE  OrderInv(o)'
<1>1. UNCHANGED <<orderStatus, donated, payment, reports, overlapped, declined, troubled>>
  BY DEF Receive, provider
<1>2. /\ r \in Reports /\ hook[h] = NoHook /\ hook'[h].report = r /\ hook'[h].step = FirstStep(r)
      /\ \A g \in Hooks \ {h} : hook'[g] = hook[g]
  BY HookBegins
<1>3. ~On(h, o)
  BY <1>2 DEF On, At, NoHook
<1>4. CASE r = Completed(o)
  <2>1. /\ On(h, o)'
        /\ ~Writing(h, o)' /\ ~At(h, o, {"mark"})' /\ ~At(h, o, {"insert"})'
    BY <1>2, <1>4, ReportKinds DEF On, Writing, At, FirstStep
  <2>2. \A g \in Hooks : /\ On(g, o) => On(g, o)'
                         /\ Writing(g, o)' <=> Writing(g, o)
                         /\ At(g, o, {"mark"})' <=> At(g, o, {"mark"})
                         /\ At(g, o, {"insert"})' <=> At(g, o, {"insert"})
    BY <1>2, <1>3, <2>1 DEF On, Writing, At
  <2>3. payment[o] = "captured"
    BY <1>4 DEF OrderInv, OnlyPaid
  <2>4. OnlyPaid(o)'
    BY <1>1, <2>3 DEF OrderInv, OnlyPaid
  <2>5. InsertedFirst(o)'
    BY <1>1, <2>2 DEF OrderInv, InsertedFirst
  <2>6. Underway(o)'
    BY <1>1, <2>1 DEF OrderInv, Underway
  <2>7. NotTwice(o)'
    BY <1>1, <2>2 DEF OrderInv, NotTwice
  <2> QED BY <2>4, <2>5, <2>6, <2>7 DEF OrderInv
<1>5. CASE r # Completed(o)
  <2>1. ~On(h, o)'
    BY <1>2, <1>5, ReportIsOf DEF On, At, FirstStep
  <2> QED BY <1>1, <1>2, <1>3, <2>1, OrderAlone
<1> QED BY <1>4, <1>5

(* What a request's end does to its own order *)
LEMMA HookGone ==
  ASSUME DonationTypeOK, NEW h \in Hooks, hook[h] # NoHook,
         Answered(h) \/ (reports' = reports /\ hook' = [hook EXCEPT ![h] = NoHook])
  PROVE  /\ hook'[h] = NoHook /\ \A g \in Hooks \ {h} : hook'[g] = hook[g]
         /\ reports' = reports \/ reports' = reports \ {hook[h].report}
         /\ \A o : ~On(h, o)' /\ ~Writing(h, o)' /\ ~At(h, o, {"mark"})' /\ ~At(h, o, {"insert"})'
<1>1. hook' = [hook EXCEPT ![h] = NoHook]
  BY DEF Answered
<1>2. hook'[h] = NoHook /\ \A g \in Hooks \ {h} : hook'[g] = hook[g]
  BY <1>1, HookEnds
<1> QED BY <1>2 DEF Answered, On, Writing, At, NoHook

LEMMA SameElsewhere ==
  ASSUME NEW h \in Hooks, \A g \in Hooks \ {h} : hook'[g] = hook[g], NEW o
  PROVE  \A g \in Hooks \ {h} : /\ On(g, o)' <=> On(g, o)
                                /\ Writing(g, o)' <=> Writing(g, o)
                                /\ At(g, o, {"mark"})' <=> At(g, o, {"mark"})
                                /\ At(g, o, {"insert"})' <=> At(g, o, {"insert"})
BY DEF On, Writing, At

LEMMA LookUpStep ==
  ASSUME DonationTypeOK, NEW h \in Hooks, LookUp(h), NEW o \in Orders, OrderInv(o)
  PROVE  OrderInv(o)'
<1> DEFINE p == hook[h].report.order
<1>1. /\ hook[h] # NoHook /\ hook[h].step = "lookup" /\ p \in Orders /\ hook[h].report = Completed(p)
  BY HookIdle, HookShape, ReportIsOf DEF LookUp
<1>2. UNCHANGED <<orderStatus, donated, payment, declined, troubled>> /\ overlapped \subseteq overlapped'
  BY DEF LookUp
<1>3. CASE orderStatus[p] = "pending"
  <2>1. /\ hook' = [hook EXCEPT ![h].step = "insert"] /\ UNCHANGED reports
        /\ overlapped' = IF \E g \in Hooks : Writing(g, p) THEN overlapped \union {p} ELSE overlapped
    BY <1>3 DEF LookUp, Writing
  <2>2. /\ hook'[h].report = hook[h].report /\ hook'[h].step = "insert"
        /\ \A g \in Hooks \ {h} : hook'[g] = hook[g]
    BY <1>1, <2>1, HookSteps
  <2>3. CASE o # p
    BY <1>1, <1>2, <2>1, <2>2, <2>3, OthersAlone
  <2>4. CASE o = p
    <3>1. /\ On(h, o) /\ On(h, o)' /\ Writing(h, o)' /\ ~At(h, o, {"mark"})' /\ At(h, o, {"insert"})'
          /\ ~Writing(h, o) /\ ~At(h, o, {"mark"}) /\ ~At(h, o, {"insert"})
      BY <1>1, <2>2, <2>4 DEF On, Writing, At
    <3>2. \A g \in Hooks \ {h} : /\ On(g, o)' <=> On(g, o)
                                 /\ Writing(g, o)' <=> Writing(g, o)
                                 /\ At(g, o, {"mark"})' <=> At(g, o, {"mark"})
                                 /\ At(g, o, {"insert"})' <=> At(g, o, {"insert"})
      BY <2>2, SameElsewhere
    <3>3. (Completed(o) \in reports)' <=> Completed(o) \in reports
      BY <2>1 DEF Completed
    <3>4. OnlyPaid(o)'
      BY <1>2, <3>1, <3>2, <3>3 DEF OrderInv, OnlyPaid
    <3>5. InsertedFirst(o)'
      BY <1>2, <3>1, <3>2 DEF OrderInv, InsertedFirst
    <3>6. Underway(o)'
      BY <1>2, <3>1, <3>2, <3>3 DEF OrderInv, Underway
    <3>7. NotTwice(o)'
      <4>1. SUFFICES ASSUME o \notin overlapped', o \notin troubled PROVE NotTwice(o)'
        BY <1>2 DEF NotTwice
      <4>2. o \notin overlapped /\ \A g \in Hooks : ~Writing(g, o)
        BY <2>1, <2>4, <4>1
      <4>3. \A g \in Hooks : ~At(g, o, {"mark"}) /\ ~At(g, o, {"insert"})
        BY <4>2 DEF Writing, At
      <4>4. donated[o] = 0
        BY <1>3, <2>4, <4>1, <4>2, <4>3 DEF OrderInv, NotTwice, DonationTypeOK
      <4> QED BY <1>2, <3>1, <3>2, <4>2, <4>3, <4>4 DEF NotTwice
    <3> QED BY <3>4, <3>5, <3>6, <3>7 DEF OrderInv
  <2> QED BY <2>3, <2>4
<1>4. CASE orderStatus[p] # "pending"
  <2>1. Answered(h) /\ UNCHANGED overlapped
    BY <1>4 DEF LookUp
  <2>2. /\ hook'[h] = NoHook /\ \A g \in Hooks \ {h} : hook'[g] = hook[g]
        /\ reports' = reports \/ reports' = reports \ {hook[h].report}
        /\ ~On(h, o)' /\ ~Writing(h, o)' /\ ~At(h, o, {"mark"})' /\ ~At(h, o, {"insert"})'
    BY <1>1, <2>1, HookGone
  <2>3. CASE o # p
    BY <1>1, <1>2, <2>1, <2>2, <2>3, OthersAlone
  <2>4. CASE o = p
    <3>1. On(h, o) /\ ~Writing(h, o) /\ ~At(h, o, {"mark"}) /\ ~At(h, o, {"insert"})
      BY <1>1, <2>4 DEF On, Writing, At
    <3>2. \A g \in Hooks \ {h} : /\ On(g, o)' <=> On(g, o)
                                 /\ Writing(g, o)' <=> Writing(g, o)
                                 /\ At(g, o, {"mark"})' <=> At(g, o, {"mark"})
                                 /\ At(g, o, {"insert"})' <=> At(g, o, {"insert"})
      BY <2>2, SameElsewhere
    <3>3. (Completed(o) \in reports)' => Completed(o) \in reports
      BY <2>2 DEF Completed
    <3>4. payment[o] = "captured"
      BY <3>1 DEF OrderInv, OnlyPaid
    <3>5. o \notin declined \union troubled => donated[o] >= 1 /\ orderStatus[o] = "completed"
      BY <1>4, <2>4, <3>4 DEF OrderInv, OnlyPaid, InsertedFirst, Underway, DonationTypeOK
    <3>6. OnlyPaid(o)'
      BY <1>2, <3>4 DEF OrderInv, OnlyPaid
    <3>7. InsertedFirst(o)'
      BY <1>2, <2>2, <3>2 DEF OrderInv, InsertedFirst
    <3>8. Underway(o)'
      BY <1>2, <3>5 DEF Underway
    <3>9. NotTwice(o)'
      BY <1>2, <2>1, <2>2, <3>1, <3>2 DEF OrderInv, NotTwice
    <3> QED BY <3>6, <3>7, <3>8, <3>9 DEF OrderInv
  <2> QED BY <2>3, <2>4
<1> QED BY <1>3, <1>4

LEMMA InsertStep ==
  ASSUME DonationTypeOK, NEW h \in Hooks, Insert(h) \/ InsertFails(h), NEW o \in Orders, OrderInv(o)
  PROVE  OrderInv(o)'
<1> DEFINE p == hook[h].report.order
<1>1. /\ hook[h] # NoHook /\ hook[h].step = "insert" /\ p \in Orders
  BY HookIdle, HookShape DEF Insert, InsertFails
<1>2. /\ hook' = [hook EXCEPT ![h].step = "mark"]
      /\ UNCHANGED <<orderStatus, payment, reports, overlapped, declined>> /\ troubled \subseteq troubled'
  BY DEF Insert, InsertFails, DonationFault, provider
<1>3. /\ hook'[h].report = hook[h].report /\ hook'[h].step = "mark"
      /\ \A g \in Hooks \ {h} : hook'[g] = hook[g]
  BY <1>1, <1>2, HookSteps
<1>4. CASE o # p
  <2>1. donated'[o] = donated[o]
    BY <1>4 DEF Insert, InsertFails, DonationTypeOK
  <2> QED BY <1>1, <1>2, <1>3, <1>4, <2>1, OthersAlone
<1>5. CASE o = p
  <2>1. /\ On(h, o) /\ On(h, o)' /\ Writing(h, o)' /\ At(h, o, {"mark"})' /\ ~At(h, o, {"insert"})'
        /\ Writing(h, o) /\ ~At(h, o, {"mark"}) /\ At(h, o, {"insert"})
    BY <1>1, <1>3, <1>5 DEF On, Writing, At
  <2>2. \A g \in Hooks \ {h} : /\ On(g, o)' <=> On(g, o)
                               /\ Writing(g, o)' <=> Writing(g, o)
                               /\ At(g, o, {"mark"})' <=> At(g, o, {"mark"})
                               /\ At(g, o, {"insert"})' <=> At(g, o, {"insert"})
    BY <1>3, SameElsewhere
  <2>3. (Completed(o) \in reports)' <=> Completed(o) \in reports
    BY <1>2 DEF Completed
  <2>4. payment[o] = "captured"
    BY <2>1 DEF OrderInv, OnlyPaid
  <2>5. donated[o] \in Nat /\ donated'[o] \in {donated[o], donated[o] + 1}
        /\ (o \notin troubled' => donated'[o] = donated[o] + 1)
    BY <1>1, <1>5 DEF Insert, InsertFails, DonationFault, DonationTypeOK
  <2>6. OnlyPaid(o)'
    BY <1>2, <2>4 DEF OrderInv, OnlyPaid
  <2>7. InsertedFirst(o)'
    BY <1>2, <2>5 DEF InsertedFirst
  <2>8. Underway(o)'
    BY <1>2, <2>1, <2>2, <2>5 DEF OrderInv, Underway
  <2>9. NotTwice(o)'
    <3>1. SUFFICES ASSUME o \notin overlapped, o \notin troubled' PROVE NotTwice(o)'
      BY <1>2 DEF NotTwice
    <3>2. donated[o] = 0 /\ \A g \in Hooks : Writing(g, o) => g = h
      BY <1>2, <2>1, <3>1 DEF OrderInv, NotTwice
    <3>3. \A g \in Hooks \ {h} : ~At(g, o, {"insert"})
      BY <3>2 DEF Writing, At
    <3> QED BY <1>2, <2>1, <2>2, <2>5, <3>1, <3>2, <3>3 DEF NotTwice
  <2> QED BY <2>6, <2>7, <2>8, <2>9 DEF OrderInv
<1> QED BY <1>4, <1>5

LEMMA MarkCompletedStep ==
  ASSUME DonationTypeOK, NEW h \in Hooks, MarkCompleted(h), NEW o \in Orders, OrderInv(o)
  PROVE  OrderInv(o)'
<1> DEFINE p == hook[h].report.order
<1>1. /\ hook[h] # NoHook /\ hook[h].step = "mark" /\ p \in Orders
  BY HookIdle, HookShape DEF MarkCompleted
<1>2. /\ Answered(h) /\ orderStatus' = [orderStatus EXCEPT ![p] = "completed"]
      /\ UNCHANGED <<donated, payment, overlapped, declined, troubled>>
  BY DEF MarkCompleted
<1>3. /\ hook'[h] = NoHook /\ \A g \in Hooks \ {h} : hook'[g] = hook[g]
      /\ reports' = reports \/ reports' = reports \ {hook[h].report}
      /\ ~On(h, o)' /\ ~Writing(h, o)' /\ ~At(h, o, {"mark"})' /\ ~At(h, o, {"insert"})'
  BY <1>1, <1>2, HookGone
<1>4. CASE o # p
  <2>1. orderStatus'[o] = orderStatus[o]
    BY <1>2, <1>4 DEF DonationTypeOK
  <2> QED BY <1>1, <1>2, <1>3, <1>4, <2>1, OthersAlone
<1>5. CASE o = p
  <2>1. On(h, o) /\ Writing(h, o) /\ At(h, o, {"mark"}) /\ orderStatus'[o] = "completed"
    BY <1>1, <1>2, <1>5 DEF On, Writing, At, DonationTypeOK
  <2>2. \A g \in Hooks \ {h} : /\ On(g, o)' <=> On(g, o)
                               /\ Writing(g, o)' <=> Writing(g, o)
                               /\ At(g, o, {"mark"})' <=> At(g, o, {"mark"})
                               /\ At(g, o, {"insert"})' <=> At(g, o, {"insert"})
    BY <1>3, SameElsewhere
  <2>3. payment[o] = "captured" /\ (o \notin troubled => donated[o] >= 1)
    BY <2>1 DEF OrderInv, OnlyPaid, InsertedFirst
  <2>4. OnlyPaid(o)'
    BY <1>2, <2>1, <2>3 DEF OnlyPaid
  <2>5. InsertedFirst(o)'
    BY <1>2, <2>3 DEF InsertedFirst
  <2>6. Underway(o)'
    BY <1>2, <2>1, <2>3 DEF Underway
  <2>7. NotTwice(o)'
    BY <1>2, <1>3, <2>1, <2>2 DEF OrderInv, NotTwice
  <2> QED BY <2>4, <2>5, <2>6, <2>7 DEF OrderInv
<1> QED BY <1>4, <1>5

LEMMA MarkFailedStep ==
  ASSUME DonationTypeOK, NEW h \in Hooks, MarkFailed(h), NEW o \in Orders, OrderInv(o)
  PROVE  OrderInv(o)'
<1> DEFINE p == hook[h].report.order
<1>1. /\ hook[h] # NoHook /\ hook[h].step = "fail" /\ p \in Orders /\ hook[h].report = FailedTry(p)
  BY HookIdle, HookShape, ReportIsOf DEF MarkFailed
<1>2. /\ Answered(h) /\ orderStatus' = [orderStatus EXCEPT ![p] = "failed"] /\ declined' = declined \union {p}
      /\ UNCHANGED <<donated, payment, overlapped, troubled>>
  BY DEF MarkFailed
<1>3. /\ hook'[h] = NoHook /\ \A g \in Hooks \ {h} : hook'[g] = hook[g]
      /\ reports' = reports \/ reports' = reports \ {hook[h].report}
      /\ ~On(h, o)' /\ ~Writing(h, o)' /\ ~At(h, o, {"mark"})' /\ ~At(h, o, {"insert"})'
  BY <1>1, <1>2, HookGone
<1>4. CASE o # p
  <2>1. orderStatus'[o] = orderStatus[o]
    BY <1>2, <1>4 DEF DonationTypeOK
  <2> QED BY <1>1, <1>2, <1>3, <1>4, <2>1, OthersAlone
<1>5. CASE o = p
  <2>1. ~On(h, o) /\ ~Writing(h, o) /\ ~At(h, o, {"mark"}) /\ ~At(h, o, {"insert"})
    BY <1>1 DEF On, Writing, At
  <2>2. \A g \in Hooks : /\ On(g, o)' <=> On(g, o)
                         /\ Writing(g, o)' <=> Writing(g, o)
                         /\ At(g, o, {"mark"})' <=> At(g, o, {"mark"})
                         /\ At(g, o, {"insert"})' <=> At(g, o, {"insert"})
    BY <1>3, <2>1, SameElsewhere
  <2>3. orderStatus'[o] = "failed" /\ o \in declined'
    BY <1>1, <1>2, <1>5 DEF DonationTypeOK
  <2>4. (Completed(o) \in reports)' => Completed(o) \in reports
    BY <1>3 DEF Completed
  <2>5. OnlyPaid(o)'
    BY <1>2, <2>2, <2>3, <2>4 DEF OrderInv, OnlyPaid
  <2>6. InsertedFirst(o)'
    BY <1>2, <2>2, <2>3 DEF OrderInv, InsertedFirst
  <2>7. Underway(o)'
    BY <2>3 DEF Underway
  <2>8. NotTwice(o)'
    BY <1>2, <2>2, <2>3 DEF OrderInv, NotTwice
  <2> QED BY <2>5, <2>6, <2>7, <2>8 DEF OrderInv
<1> QED BY <1>4, <1>5

(* A failed statement or a crash: of its order only OnlyPaid is left to show. *)
LEMMA TroubleStep ==
  ASSUME DonationTypeOK, NEW h \in Hooks,
         LookUpFails(h) \/ MarkingFails(h) \/ HookDies(h), NEW o \in Orders, OrderInv(o)
  PROVE  OrderInv(o)'
<1> DEFINE p == hook[h].report.order
<1>1. /\ hook[h] # NoHook /\ p \in Orders
  BY HookIdle, HookShape DEF LookUpFails, MarkingFails, HookDies
<1>2. /\ Answered(h) \/ (reports' = reports /\ hook' = [hook EXCEPT ![h] = NoHook])
      /\ troubled' = troubled \union {p} /\ declined \subseteq declined'
      /\ UNCHANGED <<donated, payment, overlapped>>
  BY DEF LookUpFails, MarkingFails, HookDies, DonationFault, provider
<1>3. \/ UNCHANGED orderStatus
      \/ hook[h].step = "mark" /\ orderStatus' = [orderStatus EXCEPT ![p] = "completed"]
      \/ hook[h].step = "fail" /\ orderStatus' = [orderStatus EXCEPT ![p] = "failed"]
  BY DEF LookUpFails, MarkingFails, HookDies
<1>4. /\ hook'[h] = NoHook /\ \A g \in Hooks \ {h} : hook'[g] = hook[g]
      /\ reports' = reports \/ reports' = reports \ {hook[h].report}
      /\ ~On(h, o)'
  BY <1>1, <1>2, HookGone
<1>5. CASE o # p
  <2>1. orderStatus'[o] = orderStatus[o]
    BY <1>3, <1>5 DEF DonationTypeOK
  <2> QED BY <1>1, <1>2, <1>4, <1>5, <2>1, OthersAlone
<1>6. CASE o = p
  <2>1. o \in troubled'
    BY <1>2, <1>6
  <2>2. \A g \in Hooks : On(g, o)' => On(g, o)
    BY <1>4, SameElsewhere
  <2>3. (Completed(o) \in reports)' => Completed(o) \in reports
    BY <1>4 DEF Completed
  <2>4. orderStatus'[o] = "completed" => orderStatus[o] = "completed" \/ On(h, o)
    BY <1>1, <1>3, <1>6 DEF DonationTypeOK, On, At
  <2>5. orderStatus[o] # "none" => orderStatus'[o] # "none"
    BY <1>1, <1>3, <1>6 DEF DonationTypeOK
  <2>6. OnlyPaid(o)'
    BY <1>2, <2>2, <2>3, <2>4, <2>5 DEF OrderInv, OnlyPaid
  <2> QED BY <2>1, <2>6 DEF OrderInv, InsertedFirst, Underway, NotTwice
<1> QED BY <1>5, <1>6

LEMMA OrderStep ==
  ASSUME DonationTypeOK, [DonationNext]_donationVars, NEW o \in Orders, OrderInv(o)
  PROVE  OrderInv(o)'
<1>1. CASE UNCHANGED donationVars
  BY <1>1, OrderAlone DEF donationVars, provider
<1>2. ASSUME NEW p \in Orders, CreateDonationOrder(p) \/ AttemptFails(p) \/ Capture(p)
      PROVE  OrderInv(o)'
  BY <1>2, ProviderStep
<1>3. ASSUME NEW h \in Hooks, NEW r \in reports, Receive(h, r) PROVE OrderInv(o)'
  BY <1>3, ReceiveStep
<1>4. ASSUME NEW h \in Hooks, HandleReport(h) PROVE OrderInv(o)'
  BY <1>4, LookUpStep, InsertStep, MarkCompletedStep, MarkFailedStep DEF HandleReport
<1>5. ASSUME NEW h \in Hooks, InsertFails(h) PROVE OrderInv(o)'
  BY <1>5, InsertStep
<1>6. ASSUME NEW h \in Hooks, LookUpFails(h) \/ MarkingFails(h) \/ HookDies(h) PROVE OrderInv(o)'
  BY <1>6, TroubleStep
<1> QED BY <1>1, <1>2, <1>3, <1>4, <1>5, <1>6 DEF DonationNext

OrdersInv == DonationTypeOK /\ \A o \in Orders : OrderInv(o)

LEMMA OrdersInvHolds == DonationSpec => []OrdersInv
<1>1. DonationInit => OrdersInv
  BY DonationTypeInit, OrderInit DEF OrdersInv
<1>2. OrdersInv /\ [DonationNext]_donationVars => OrdersInv'
  <2> SUFFICES ASSUME OrdersInv, [DonationNext]_donationVars PROVE OrdersInv'
    OBVIOUS
  <2>1. DonationTypeOK'
    BY DonationTypeStep DEF OrdersInv
  <2>2. ASSUME NEW o \in Orders PROVE OrderInv(o)'
    BY OrderStep DEF OrdersInv
  <2> QED BY <2>1, <2>2 DEF OrdersInv
<1> QED BY <1>1, <1>2, PTL DEF DonationSpec

(* For any orders, repeats of reports, overlaps and failures: a donation is inserted
   at most once per order, unless two requests worked on the order at once, or a
   statement about it failed. *)
THEOREM DonationsRecordedOnce == DonationSpec => []RecordedOnce
<1>1. OrdersInv => RecordedOnce
  BY DEF OrdersInv, OrderInv, NotTwice, RecordedOnce
<1> QED BY <1>1, OrdersInvHolds, PTL

(* When all reports of a paid order are handled, the donation is there and the order
   shown completed, unless an attempt was reported failed or a statement failed. *)
THEOREM SettledStaysRecorded == DonationSpec => []SettledIsRecorded
<1>1. OrdersInv => SettledIsRecorded
  <2> SUFFICES ASSUME OrdersInv, NEW o \in Orders, o \notin declined \union troubled, Settled(o)
               PROVE  donated[o] >= 1 /\ orderStatus[o] = "completed"
    BY DEF SettledIsRecorded
  <2>1. payment[o] = "captured" /\ Completed(o) \notin reports /\ \A h \in Hooks : ~On(h, o)
    BY DEF Settled, On, At
  <2> QED BY <2>1 DEF OrdersInv, OrderInv, Underway
<1> QED BY <1>1, OrdersInvHolds, PTL

(* Nothing is recorded or shown completed that was not paid, and nothing is shown
   completed that is not recorded, unless a statement failed. *)
THEOREM ShownStaysRecorded == DonationSpec => []ShownIsRecorded
<1>1. OrdersInv => ShownIsRecorded
  BY DEF OrdersInv, OrderInv, OnlyPaid, InsertedFirst, ShownIsRecorded
<1> QED BY <1>1, OrdersInvHolds, PTL
=============================================================================
