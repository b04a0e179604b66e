----------------------------- MODULE Social_proofs -----------------------------
(***************************************************************************)
(* Machine-checked proofs about friend requests, friendships, blocks and   *)
(* direct messages, for every set of users, any number of handlers, rooms  *)
(* and requests; and about the two caches of blocks, for any number of     *)
(* look-ups and of blocks under way.                                       *)
(***************************************************************************)
EXTENDS Social, BlockCaches, TLAPS, FiniteSetTheorems

-----------------------------------------------------------------------------
(* Pairs of users *)

LEMMA PairOfTwo ==
  ASSUME NEW u \in Users, NEW v \in Users, u # v
  PROVE  {u, v} \in Pairs
<1>1. IsFiniteSet({u}) /\ Cardinality({u}) = 1
  BY FS_Singleton
<1>2. {u, v} = {u} \union {v} /\ v \notin {u}
  OBVIOUS
<1>3. Cardinality({u} \union {v}) = 2
  BY <1>1, <1>2, FS_AddElement
<1> QED BY <1>2, <1>3 DEF Pairs

LEMMA TwoOfPair ==
  ASSUME NEW p \in Pairs, NEW u \in p, NEW v \in p, u # v
  PROVE  p = {u, v}
<1>1. p \in SUBSET Users /\ Cardinality(p) = 2
  BY DEF Pairs
<1>2. IsFiniteSet(p)
  BY <1>1, SocialUsers, FS_Subset
<1>3. {u, v} \in Pairs
  BY <1>1, PairOfTwo
<1>4. Cardinality({u, v}) = 2 /\ {u, v} \in SUBSET p
  BY <1>3 DEF Pairs
<1> QED BY <1>1, <1>2, <1>4, FS_Subset

LEMMA NotEmpty == ASSUME NEW p \in Pairs PROVE p # {}
<1>1. Cardinality({}) = 0
  BY FS_EmptySet
<1> QED BY <1>1 DEF Pairs

-----------------------------------------------------------------------------
(* The handlers: what one step does to them *)

Jobs == [step : Steps, user : Users, other : Users, call : 1..MaxRequests,
         id : 0..MaxRequests, room : 0..MaxRooms, chat : 0..MaxChats, flag : BOOLEAN]

Working(h) == job[h] # Idle

Shape ==
  /\ requests \in 0..MaxRequests /\ made \in 0..MaxRooms
  /\ job \in [Handlers -> Jobs \union {Idle}]
  /\ \A h \in Handlers : Working(h) => /\ job[h].user # job[h].other
                                      /\ job[h].room <= made
                                      /\ job[h].call <= requests

(* The handlers that may give their number to a row. *)
Naming(j) == j.step \in {"reverse", "write", "row"}

Starts(h, j) ==
  /\ job[h] = Idle /\ requests' = requests + 1 /\ j.call = requests'
  /\ j.user # j.other /\ j.room <= made

GoesOn(h, j) ==
  /\ job[h] # Idle /\ j.room <= made
  /\ j.user = job[h].user /\ j.other = job[h].other /\ j.call = job[h].call
  /\ Naming(j) => Naming(job[h])

Moves(h) ==
  \E j \in Jobs \union {Idle} :
    /\ job' = [job EXCEPT ![h] = j]
    /\ \/ j = Idle
       \/ j \in Jobs /\ Starts(h, j)
       \/ j \in Jobs /\ GoesOn(h, j)

LEMMA IdleIsNoJob == Idle.step = "idle" /\ Idle \notin Jobs /\ Idle.step \notin Steps
BY DEF Idle, Jobs, Steps

LEMMA MovesToIdle ==
  ASSUME NEW h \in Handlers, Done(h)
  PROVE  Moves(h)
BY DEF Done, Moves

LEMMA MovesOn ==
  ASSUME Shape, NEW h \in Handlers, Working(h), NEW step \in Steps,
         step \in {"reverse", "write", "row"} => Naming(job[h]), Goto(h, step)
  PROVE  Moves(h)
<1> DEFINE j == [job[h] EXCEPT !.step = step]
<1>1. job[h] \in Jobs /\ job[h].room <= made
  BY DEF Shape, Working
<1>2. job' = [job EXCEPT ![h] = j]
  BY DEF Goto
<1>3. j \in Jobs
  BY <1>1 DEF Jobs
<1>4. GoesOn(h, j)
  BY <1>1 DEF GoesOn, Jobs, Naming, Working
<1> QED BY <1>2, <1>3, <1>4 DEF Moves

LEMMA MovesFromIdle ==
  ASSUME Shape, NEW h \in Handlers, NEW u \in Users, NEW v \in Users, NEW step \in Steps,
         NEW id \in 0..MaxRequests, NEW room \in 0..made, NEW chat \in 0..MaxChats,
         Begin(h, u, v, step, id, room, chat)
  PROVE  Moves(h)
<1> DEFINE j == [step |-> step, user |-> u, other |-> v, call |-> requests',
                 id |-> id, room |-> room, chat |-> chat, flag |-> FALSE]
<1>1. job' = [job EXCEPT ![h] = j] /\ job[h] = Idle /\ u # v
  BY DEF Begin
<1>2. requests' = requests + 1 /\ requests' \in 1..MaxRequests
  BY SocialBounds DEF Begin, Count, Shape
<1>3. room \in 0..MaxRooms /\ room <= made
  BY SocialBounds DEF Shape
<1>4. j \in Jobs
  BY <1>2, <1>3 DEF Jobs
<1>5. Starts(h, j)
  BY <1>1, <1>2, <1>3 DEF Starts
<1> QED BY <1>1, <1>4, <1>5 DEF Moves

LEMMA AtWork ==
  ASSUME Shape, NEW h \in Handlers, NEW step \in Steps, job[h].step = step
  PROVE  Working(h) /\ job[h] \in Jobs
BY IdleIsNoJob DEF Shape, Working

LEMMA LookReverseMoves ==
  ASSUME Shape, TypeOK, NEW h \in Handlers, LookReverse(h)
  PROVE  Moves(h)
<1>1. job[h].step = "reverse" /\ Working(h) /\ job[h] \in Jobs /\ job[h].room <= made
  BY AtWork DEF LookReverse, At, Shape, Steps
<1>2. CASE Pending(Theirs(h))
  <2> DEFINE j == [job[h] EXCEPT !.step = "accept", !.id = request[Theirs(h)].id]
  <2>1. Theirs(h) \in Orders
    BY <1>1 DEF Theirs, Orders, Jobs, Shape, Working
  <2>2. request[Theirs(h)].id \in 0..MaxRequests
    BY <2>1 DEF TypeOK
  <2>3. job' = [job EXCEPT ![h] = j]
    BY <1>2 DEF LookReverse
  <2>4. j \in Jobs
    BY <1>1, <2>2 DEF Jobs, Steps
  <2>5. GoesOn(h, j)
    BY <1>1 DEF GoesOn, Working, Jobs, Naming
  <2> QED BY <2>3, <2>4, <2>5 DEF Moves
<1>3. CASE ~Pending(Theirs(h))
  <2>1. Goto(h, "write")
    BY <1>3 DEF LookReverse
  <2>2. Naming(job[h]) /\ "write" \in Steps
    BY <1>1 DEF Naming, Steps
  <2> QED BY <1>1, <2>1, <2>2, MovesOn
<1> QED BY <1>2, <1>3

LEMMA LookForRoomMoves ==
  ASSUME Shape, NEW h \in Handlers, LookForRoom(h)
  PROVE  Moves(h)
<1>1. job[h].step = "accept" /\ Working(h) /\ job[h] \in Jobs /\ job[h].room <= made
  BY AtWork DEF LookForRoom, At, Shape, Steps
<1> DEFINE found == DMRooms(Pair(h))
<1>2. PICK r \in IF found = {} THEN {0} ELSE found :
        job' = [job EXCEPT ![h].step = "commit", ![h].room = r, ![h].flag = Pair(h) \notin friends]
  BY DEF LookForRoom
<1>3. r \in 0..made
  BY DEF DMRooms, Shape
<1> HIDE DEF found
<1> DEFINE j == [job[h] EXCEPT !.step = "commit", !.room = r, !.flag = Pair(h) \notin friends]
<1>4. job' = [job EXCEPT ![h] = j]
  BY <1>2
<1>5. (Pair(h) \notin friends) \in BOOLEAN /\ r \in 0..MaxRooms /\ "commit" \in Steps
  BY <1>3, SocialBounds DEF Shape, Steps
<1>6. j \in Jobs
  BY <1>1, <1>5 DEF Jobs
<1>7. GoesOn(h, j)
  BY <1>1, <1>3 DEF GoesOn, Working, Jobs, Naming, Shape
<1> QED BY <1>4, <1>6, <1>7 DEF Moves

LEMMA LockTargetMoves ==
  ASSUME Shape, NEW h \in Handlers, LockTarget(h)
  PROVE  Moves(h)
<1>1. job[h].step = "dmlock" /\ Working(h) /\ job[h] \in Jobs /\ job[h].room <= made
  BY AtWork DEF LockTarget, At, Shape, Steps
<1> DEFINE j == [job[h] EXCEPT !.step = "dmwrite", !.flag = Pair(h) \in friends]
<1>2. Done(h) \/ job' = [job EXCEPT ![h] = j]
  BY DEF LockTarget
<1>3. CASE Done(h)
  BY <1>3, MovesToIdle
<1>4. CASE job' = [job EXCEPT ![h] = j]
  <2>1. (Pair(h) \in friends) \in BOOLEAN /\ "dmwrite" \in Steps
    BY DEF Steps
  <2>2. j \in Jobs
    BY <1>1, <2>1 DEF Jobs
  <2>3. GoesOn(h, j)
    BY <1>1 DEF GoesOn, Working, Jobs, Naming
  <2> QED BY <1>4, <2>2, <2>3 DEF Moves
<1> QED BY <1>2, <1>3, <1>4

(* Every step of a handler, and every request, moves at most one handler. *)
LEMMA HandleMoves ==
  ASSUME Shape, TypeOK, NEW h \in Handlers, Handle(h)
  PROVE  Moves(h) /\ requests' = requests
<1>1. CASE LookReverse(h)
  BY <1>1, LookReverseMoves DEF LookReverse, At
<1>2. CASE LookForRoom(h)
  BY <1>2, LookForRoomMoves DEF LookForRoom, At
<1>3. CASE LockTarget(h)
  BY <1>3, LockTargetMoves DEF LockTarget, At
<1>4. CASE UpsertRequest(h) \/ CommitFriendship(h) \/ CleanUp(h) \/ OpenRoom(h)
             \/ DeleteStrangerRows(h) \/ InsertDM(h) \/ DeleteRoom(h) \/ GiveUp(h)
  BY <1>4, MovesToIdle DEF UpsertRequest, CommitFriendship, CleanUp, OpenRoom, DeleteStrangerRows,
       InsertDM, DeleteRoom, GiveUp, At
<1>5. CASE UpsertStranger(h)
  <2>1. job[h].step = "row" /\ Goto(h, "check") /\ requests' = requests
    BY <1>5 DEF UpsertStranger, At
  <2> QED BY <2>1, AtWork, MovesOn DEF Steps
<1>6. CASE CheckPartner(h)
  <2>1. job[h].step = "check" /\ (Goto(h, "both") \/ Done(h)) /\ requests' = requests
    BY <1>6 DEF CheckPartner, At
  <2> QED BY <2>1, AtWork, MovesOn, MovesToIdle DEF Steps
<1>7. CASE AcceptBoth(h)
  <2>1. job[h].step = "both" /\ Goto(h, "befriend") /\ requests' = requests
    BY <1>7 DEF AcceptBoth, At
  <2> QED BY <2>1, AtWork, MovesOn DEF Steps
<1>8. CASE InsertFriendship(h)
  <2>1. job[h].step = "befriend" /\ Goto(h, "open") /\ requests' = requests
    BY <1>8 DEF InsertFriendship, At
  <2> QED BY <2>1, AtWork, MovesOn DEF Steps
<1>9. CASE Unmark(h)
  <2>1. job[h].step = "unmark" /\ Goto(h, "unask") /\ requests' = requests
    BY <1>9 DEF Unmark, At
  <2> QED BY <2>1, AtWork, MovesOn DEF Steps
<1>10. CASE LoseStatement(h)
  <2>1. PICK from \in {"row", "both", "befriend"}, to \in {"check", "befriend", "open"} :
          job[h].step = from /\ Goto(h, to) /\ requests' = requests
    BY <1>10 DEF LoseStatement, At
  <2> QED BY <2>1, AtWork, MovesOn DEF Steps
<1> QED BY <1>1, <1>2, <1>3, <1>4, <1>5, <1>6, <1>7, <1>8, <1>9, <1>10 DEF Handle

LEMMA StartMoves ==
  ASSUME Shape, TypeOK, NEW u \in Users, NEW v \in Users, u # v, Start(u, v)
  PROVE  /\ requests < MaxRequests /\ requests' = requests + 1
         /\ job' = job \/ \E h \in Handlers : Moves(h)
<1>1. CASE WithdrawFriendRequest(u, v) \/ RejectFriendRequest(u, v) \/ BlockUser(u, v) \/ UnblockUser(u, v)
  BY <1>1 DEF WithdrawFriendRequest, RejectFriendRequest, BlockUser, UnblockUser, AtOnce, Count
<1>2. ASSUME NEW h \in Handlers,
             \/ SendFriendRequest(h, u, v) \/ AcceptFriendRequest(h, u, v) \/ RemoveFriend(h, u, v)
             \/ CreateDM(h, u, v)
             \/ \E c \in Chats : MarkFriend(h, u, v, c) \/ LeaveStranger(h, u, v, c)
             \/ \E r \in 1..made : RejectDMRequest(h, u, v, r)
      PROVE  /\ requests < MaxRequests /\ requests' = requests + 1
             /\ Moves(h)
  <2>1. \E step \in Steps, id \in 0..MaxRequests, room \in 0..made, chat \in 0..MaxChats :
          Begin(h, u, v, step, id, room, chat)
    <3>0. 0 \in 0..MaxRequests /\ 0 \in 0..made /\ 0 \in 0..MaxChats /\ Chats \subseteq 0..MaxChats
      BY SocialBounds DEF Shape, Chats
    <3>1. CASE SendFriendRequest(h, u, v)
      BY <3>0, <3>1 DEF SendFriendRequest, Steps
    <3>2. CASE AcceptFriendRequest(h, u, v)
      <4>1. <<v, u>> \in Orders
        BY DEF Orders
      <4>2. request[<<v, u>>].id \in 0..MaxRequests
        BY <4>1 DEF TypeOK
      <4> QED BY <3>0, <3>2, <4>2 DEF AcceptFriendRequest, Steps
    <3>3. CASE RemoveFriend(h, u, v)
      BY <3>0, <3>3 DEF RemoveFriend, Steps
    <3>4. ASSUME NEW c \in Chats, MarkFriend(h, u, v, c) \/ LeaveStranger(h, u, v, c)
          PROVE  \E step \in Steps, id \in 0..MaxRequests, room \in 0..made, chat \in 0..MaxChats :
                   Begin(h, u, v, step, id, room, chat)
      <4>1. c \in 0..MaxChats /\ \E step \in {"row", "unmark"} : Begin(h, u, v, step, 0, 0, c)
        BY <3>0, <3>4 DEF MarkFriend, LeaveStranger
      <4> QED BY <3>0, <4>1 DEF Steps
    <3>6. CASE CreateDM(h, u, v)
      BY <3>0, <3>6 DEF CreateDM, Steps
    <3>7. ASSUME NEW r \in 1..made, RejectDMRequest(h, u, v, r)
          PROVE  \E step \in Steps, id \in 0..MaxRequests, room \in 0..made, chat \in 0..MaxChats :
                   Begin(h, u, v, step, id, room, chat)
      <4>1. r \in 0..made /\ Begin(h, u, v, "delroom", 0, r, 0)
        BY <3>7 DEF RejectDMRequest, Shape
      <4> QED BY <3>0, <4>1 DEF Steps
    <3> QED BY <1>2, <3>1, <3>2, <3>3, <3>4, <3>6, <3>7
  <2>2. Moves(h)
    BY <2>1, MovesFromIdle
  <2> QED BY <2>1, <2>2 DEF Begin, Count
<1> QED BY <1>1, <1>2 DEF Start

-----------------------------------------------------------------------------
(* The rooms: what one step does to them *)

Statuses == {"none", "active", "pending"}

NextMembers(r) == {u \in Users : rooms'[r][u] # "none"}

RoomsTyped == made \in 0..MaxRooms /\ rooms \in [1..made -> [Users -> Statuses]]

(* A room keeps its members until it is deleted, and they stay active in it. *)
Lasts(r) == /\ NextMembers(r) = MembersOf(r)
            /\ \A u \in Users : rooms[r][u] = "active" => rooms'[r][u] = "active"

Deletes(h, r) == DeleteRoom(h) /\ job[h].room = r /\ NextMembers(r) = {}

Opens(h) == /\ made' = made + 1
            /\ NextMembers(made') = Pair(h) /\ rooms'[made'][job[h].user] = "active"

RoomsChange ==
  /\ RoomsTyped'
  /\ made' = made \/ \E h \in Handlers : Working(h) /\ Opens(h)
  /\ \A r \in 1..made : Lasts(r) \/ \E h \in Handlers : Deletes(h, r)

LEMMA NothingHappens == ASSUME RoomsTyped, UNCHANGED chats PROVE RoomsChange
BY DEF chats, RoomsChange, RoomsTyped, Lasts, MembersOf, NextMembers

LEMMA RoomIsAdded ==
  ASSUME RoomsTyped, NEW h \in Handlers, Working(h), NEW s \in [Users -> Statuses], NewRoom(s),
         {u \in Users : s[u] # "none"} = Pair(h), s[job[h].user] = "active"
  PROVE  /\ RoomsChange /\ Opens(h) /\ made' \in 1..made'
         /\ rooms'[made'] = s
<1>1. made \in Nat /\ made' = made + 1 /\ made' \in 0..MaxRooms /\ made' \in 1..made'
  BY SocialBounds DEF NewRoom, RoomsTyped
<1>2. rooms' = [r \in 1..made' |-> IF r \in 1..made THEN rooms[r] ELSE s]
  BY DEF NewRoom
<1>3. rooms'[made'] = s
  BY <1>1, <1>2
<1>4. \A r \in 1..made : rooms'[r] = rooms[r]
  BY <1>1, <1>2
<1>5. rooms' \in [1..made' -> [Users -> Statuses]]
  BY <1>2 DEF RoomsTyped
<1>6. \A r \in 1..made : Lasts(r)
  BY <1>4 DEF Lasts, MembersOf, NextMembers
<1>7. Opens(h)
  BY <1>1, <1>3 DEF Opens, MembersOf, NextMembers
<1> QED BY <1>1, <1>3, <1>5, <1>6, <1>7 DEF RoomsChange, RoomsTyped

LEMMA BothHas ==
  ASSUME NEW p \in SUBSET Users, NEW s \in {"active", "pending"}
  PROVE  /\ Both(p, s) \in [Users -> Statuses]
         /\ {u \in Users : Both(p, s)[u] # "none"} = p
         /\ \A u \in p : Both(p, s)[u] = s
BY DEF Both, Statuses

LEMMA PairOfJob ==
  ASSUME Shape, NEW h \in Handlers, Working(h)
  PROVE  /\ job[h].user \in Users /\ job[h].other \in Users /\ job[h].user # job[h].other
         /\ Pair(h) \in Pairs /\ Pair(h) \in SUBSET Users /\ Pair(h) = {job[h].user, job[h].other}
         /\ Mine(h) \in Orders /\ Theirs(h) \in Orders /\ Mine(h) # Theirs(h)
<1>1. job[h] \in Jobs /\ job[h].user # job[h].other
  BY DEF Shape, Working
<1>2. job[h].user \in Users /\ job[h].other \in Users
  BY <1>1 DEF Jobs
<1> QED BY <1>1, <1>2, PairOfTwo DEF Pair, Mine, Theirs, Orders

LEMMA BothActiveAdded ==
  ASSUME RoomsTyped, Shape, NEW h \in Handlers, Working(h), NewRoom(Both(Pair(h), "active"))
  PROVE  /\ RoomsChange /\ Opens(h) /\ made' \in 1..made'
         /\ rooms'[made'] = Both(Pair(h), "active")
<1>1. Pair(h) \in SUBSET Users /\ job[h].user \in Pair(h)
  BY PairOfJob
<1>2. /\ Both(Pair(h), "active") \in [Users -> Statuses]
      /\ {u \in Users : Both(Pair(h), "active")[u] # "none"} = Pair(h)
      /\ Both(Pair(h), "active")[job[h].user] = "active"
  BY <1>1, BothHas
<1> QED BY <1>2, RoomIsAdded

LEMMA DirectMessageAdded ==
  ASSUME RoomsTyped, Shape, NEW h \in Handlers, InsertDM(h)
  PROVE  RoomsChange
<1> DEFINE b == Both(Pair(h), "active")
           t == IF job[h].flag THEN "active" ELSE "pending"
           s == [b EXCEPT ![job[h].other] = t]
<1>1. Working(h) /\ NewRoom(s)
  BY AtWork DEF InsertDM, At, Steps
<1>2. /\ Pair(h) \in SUBSET Users /\ Pair(h) = {job[h].user, job[h].other}
      /\ job[h].user \in Users /\ job[h].other \in Users /\ job[h].user # job[h].other
  BY <1>1, PairOfJob
<1>3. /\ b \in [Users -> Statuses] /\ {u \in Users : b[u] # "none"} = Pair(h)
      /\ b[job[h].user] = "active" /\ b[job[h].other] = "active"
  BY <1>2, BothHas
<1>4. t \in {"active", "pending"}
  OBVIOUS
<1> HIDE DEF b, t
<1>5. s \in [Users -> Statuses] /\ s[job[h].user] = "active"
  BY <1>2, <1>3, <1>4 DEF Statuses
<1>6. {u \in Users : s[u] # "none"} = Pair(h)
  BY <1>2, <1>3, <1>4
<1> HIDE DEF s
<1> QED BY <1>1, <1>5, <1>6, RoomIsAdded

LEMMA RoomIsActivated ==
  ASSUME RoomsTyped, Shape, NEW h \in Handlers, Working(h), ActivateRoom(h), UNCHANGED made,
         job[h].room \in DMRooms(Pair(h))
  PROVE  /\ RoomsChange /\ job[h].room \in 1..made /\ NextMembers(job[h].room) = Pair(h)
         /\ rooms'[job[h].room] = Both(Pair(h), "active")
<1> DEFINE r == job[h].room
           b == Both(Pair(h), "active")
<1>1. Pair(h) \in SUBSET Users
  BY PairOfJob
<1>2. /\ b \in [Users -> Statuses] /\ {u \in Users : b[u] # "none"} = Pair(h)
      /\ \A u \in Pair(h) : b[u] = "active"
  BY <1>1, BothHas
<1>3. r \in 1..made /\ MembersOf(r) = Pair(h)
  BY DEF DMRooms
<1>4. rooms' = [rooms EXCEPT ![r] = b]
  BY DEF ActivateRoom
<1> HIDE DEF b, r
<1>5. rooms' \in [1..made -> [Users -> Statuses]] /\ rooms'[r] = b
  BY <1>2, <1>3, <1>4 DEF RoomsTyped
<1>6. NextMembers(r) = Pair(h)
  BY <1>2, <1>5 DEF MembersOf, NextMembers
<1>7. Lasts(r)
  <2>1. \A u \in Users : rooms[r][u] = "active" => u \in Pair(h)
    BY <1>3 DEF MembersOf, NextMembers
  <2> QED BY <1>2, <1>3, <1>5, <1>6, <2>1 DEF Lasts
<1>8. \A q \in 1..made : q # r => Lasts(q)
  BY <1>4 DEF Lasts, MembersOf, NextMembers, RoomsTyped
<1>9. RoomsChange
  BY <1>5, <1>7, <1>8 DEF RoomsChange, RoomsTyped
<1> QED BY <1>3, <1>5, <1>6, <1>9 DEF r, b

LEMMA RequestIsAccepted ==
  ASSUME RoomsTyped, NEW u \in Users, NEW r \in 1..made, AcceptDMRequest(u, r)
  PROVE  RoomsChange
<1>1. rooms[r][u] = "pending" /\ made' = made /\ rooms' = [rooms EXCEPT ![r][u] = "active"]
  BY DEF AcceptDMRequest
<1>2. rooms[r] \in [Users -> Statuses]
  BY DEF RoomsTyped
<1>3. rooms'[r] = [rooms[r] EXCEPT ![u] = "active"] /\ \A q \in 1..made : q # r => rooms'[q] = rooms[q]
  BY <1>1 DEF RoomsTyped
<1>4. [rooms[r] EXCEPT ![u] = "active"] \in [Users -> Statuses]
  BY <1>2 DEF Statuses
<1>5. rooms' \in [1..made -> [Users -> Statuses]]
  BY <1>1, <1>4 DEF RoomsTyped
<1>6. Lasts(r)
  BY <1>1, <1>2, <1>3 DEF Lasts, MembersOf, NextMembers
<1>7. \A q \in 1..made : q # r => Lasts(q)
  BY <1>3 DEF Lasts, MembersOf, NextMembers
<1> QED BY <1>1, <1>5, <1>6, <1>7 DEF RoomsChange, RoomsTyped

LEMMA RoomIsDeleted ==
  ASSUME RoomsTyped, NEW h \in Handlers, DeleteRoom(h)
  PROVE  RoomsChange
<1> DEFINE r == job[h].room
           n == Both({}, "none")
<1>1. rooms' = [rooms EXCEPT ![r] = n] /\ made' = made
  BY DEF DeleteRoom
<1>2. n \in [Users -> Statuses] /\ {u \in Users : n[u] # "none"} = {}
  BY DEF Both, Statuses
<1> HIDE DEF n
<1>3. rooms' \in [1..made -> [Users -> Statuses]]
  BY <1>1, <1>2 DEF RoomsTyped
<1>4. \A q \in 1..made : q # r => Lasts(q)
  BY <1>1 DEF Lasts, MembersOf, NextMembers, RoomsTyped
<1>5. r \in 1..made => NextMembers(r) = {}
  <2>1. r \in 1..made => rooms'[r] = n
    BY <1>1 DEF RoomsTyped
  <2> QED BY <1>2, <2>1 DEF MembersOf, NextMembers
<1>6. r \in 1..made => Deletes(h, r)
  BY <1>5 DEF Deletes
<1> QED BY <1>1, <1>3, <1>4, <1>6 DEF RoomsChange, RoomsTyped

LEMMA HandleChangesRooms ==
  ASSUME RoomsTyped, Shape, NEW h \in Handlers, Handle(h)
  PROVE  RoomsChange
<1>1. CASE CommitFriendship(h)
  <2>1. Working(h)
    BY <1>1, AtWork DEF CommitFriendship, At, Steps
  <2>2. \/ NewRoom(Both(Pair(h), "active"))
        \/ job[h].room \in DMRooms(Pair(h)) /\ ActivateRoom(h) /\ UNCHANGED made
        \/ UNCHANGED chats
    BY <1>1 DEF CommitFriendship
  <2> QED BY <2>1, <2>2, NothingHappens, BothActiveAdded, RoomIsActivated
<1>2. CASE OpenRoom(h)
  <2>1. Working(h) /\ NewRoom(Both(Pair(h), "active"))
    BY <1>2, AtWork DEF OpenRoom, At, Steps
  <2> QED BY <2>1, BothActiveAdded
<1>3. CASE InsertDM(h)
  BY <1>3, DirectMessageAdded
<1>4. CASE DeleteRoom(h)
  BY <1>4, RoomIsDeleted
<1>5. CASE LookReverse(h) \/ UpsertRequest(h) \/ LookForRoom(h) \/ CleanUp(h) \/ UpsertStranger(h)
             \/ CheckPartner(h) \/ AcceptBoth(h) \/ InsertFriendship(h) \/ Unmark(h)
             \/ DeleteStrangerRows(h) \/ LoseStatement(h) \/ LockTarget(h) \/ GiveUp(h)
  BY <1>5, NothingHappens DEF LookReverse, UpsertRequest, LookForRoom, CleanUp, UpsertStranger,
       CheckPartner, AcceptBoth, InsertFriendship, Unmark, DeleteStrangerRows, LoseStatement,
       LockTarget, GiveUp
<1> QED BY <1>1, <1>2, <1>3, <1>4, <1>5 DEF Handle

LEMMA StartLeavesRooms ==
  ASSUME NEW u, NEW v, Start(u, v)
  PROVE  UNCHANGED chats
BY DEF Start, WithdrawFriendRequest, RejectFriendRequest, BlockUser, UnblockUser, SendFriendRequest,
     AcceptFriendRequest, RemoveFriend, MarkFriend, LeaveStranger, CreateDM, RejectDMRequest

(* What any step does to the handlers and to the rooms. *)
LEMMA StepMoves ==
  ASSUME Shape, TypeOK, [Next]_vars
  PROVE  /\ requests' \in requests..MaxRequests
         /\ \/ job' = job
            \/ \E h \in Handlers : Moves(h)
         /\ RoomsTyped /\ RoomsChange
<1>0. RoomsTyped
  BY DEF RoomsTyped, TypeOK, Statuses
<1>1. requests \in Nat /\ requests <= MaxRequests /\ MaxRequests \in Nat
  BY SocialBounds DEF Shape
<1>2. CASE UNCHANGED vars
  BY <1>0, <1>1, <1>2, NothingHappens DEF vars
<1>3. ASSUME NEW p \in Orders, Start(p[1], p[2])
      PROVE  /\ requests' \in requests..MaxRequests
             /\ job' = job \/ \E h \in Handlers : Moves(h)
             /\ RoomsChange
  <2>1. p[1] \in Users /\ p[2] \in Users /\ p[1] # p[2]
    BY DEF Orders
  <2>2. RoomsChange
    BY <1>0, <1>3, StartLeavesRooms, NothingHappens
  <2> QED BY <1>1, <1>3, <2>1, <2>2, StartMoves
<1>4. ASSUME NEW c \in Chats, NEW u \in Users, ExpireMark(c, u)
      PROVE  requests' = requests /\ job' = job /\ RoomsChange
  BY <1>0, <1>4, NothingHappens DEF ExpireMark
<1>5. ASSUME NEW u \in Users, SetPrivate(u)
      PROVE  requests' \in requests..MaxRequests /\ job' = job /\ RoomsChange
  <2>1. UNCHANGED chats /\ job' = job /\ requests' = requests + 1 /\ requests < MaxRequests
    BY <1>5 DEF SetPrivate, AtOnce, Count
  <2> QED BY <1>0, <1>1, <2>1, NothingHappens
<1>6. ASSUME NEW u \in Users, NEW r \in 1..made, AcceptDMRequest(u, r)
      PROVE  requests' \in requests..MaxRequests /\ job' = job /\ RoomsChange
  <2>1. job' = job /\ requests' = requests + 1 /\ requests < MaxRequests
    BY <1>6 DEF AcceptDMRequest, AtOnce, Count
  <2> QED BY <1>0, <1>1, <1>6, <2>1, RequestIsAccepted
<1>7. ASSUME NEW h \in Handlers, Handle(h)
      PROVE  requests' = requests /\ (\E g \in Handlers : Moves(g)) /\ RoomsChange
  BY <1>0, <1>7, HandleMoves, HandleChangesRooms
<1> QED BY <1>0, <1>1, <1>2, <1>3, <1>4, <1>5, <1>6, <1>7 DEF Next

-----------------------------------------------------------------------------
(* The rows of friend_requests: what one step does to them *)

Row == [status : {"none", "pending", "accepted", "rejected"}, id : 0..MaxRequests, chat : 0..MaxChats]

(* A row keeps its number as long as it exists. *)
KeepsId(p) ==
  \/ request'[p] \in {request[p], NoRow}
  \/ request[p] # NoRow /\ request'[p].id = request[p].id /\ request'[p].status # "none"

(* A new row takes the number of its handler, which gives it to no other. *)
NamesRow(h) ==
  /\ Working(h) /\ Naming(job[h]) /\ job'[h].step \notin {"reverse", "write", "row"}
  /\ request'[Mine(h)].id = job[h].call /\ request'[Mine(h)].status # "none"

RowsChange ==
  /\ request' \in [Orders -> Row]
  /\ \/ \A p \in Orders : KeepsId(p)
     \/ \E h \in Handlers : NamesRow(h) /\ \A p \in Orders \ {Mine(h)} : KeepsId(p)

LEMMA RowsStay ==
  ASSUME request \in [Orders -> Row], UNCHANGED request
  PROVE  RowsChange
BY DEF RowsChange, KeepsId

LEMMA NoRowIsRow == NoRow \in Row /\ NoRow.status = "none" /\ NoRow.id = 0 /\ NoRow.chat = 0
BY SocialBounds DEF NoRow, Row

(* Rows are deleted or change their status. *)
LEMMA RowsKeepIds ==
  ASSUME request \in [Orders -> Row], request' \in [Orders -> Row],
         \A p \in Orders : \/ request'[p] \in {request[p], NoRow}
                           \/ request[p] # NoRow /\ \E s \in {"accepted", "rejected"} :
                                request'[p] = [request[p] EXCEPT !.status = s]
  PROVE  RowsChange
<1>1. ASSUME NEW p \in Orders, request[p] # NoRow, NEW s \in {"accepted", "rejected"},
             request'[p] = [request[p] EXCEPT !.status = s]
      PROVE  KeepsId(p)
  BY <1>1 DEF KeepsId, Row
<1>2. \A p \in Orders : KeepsId(p)
  BY <1>1 DEF KeepsId
<1> QED BY <1>2 DEF RowsChange

LEMMA StatusIsRow ==
  ASSUME NEW r \in Row, NEW s \in {"accepted", "rejected"}
  PROVE  [r EXCEPT !.status = s] \in Row
BY DEF Row

LEMMA AskChangesRows ==
  ASSUME Shape, request \in [Orders -> Row], NEW h \in Handlers, Working(h), Naming(job[h]),
         NEW chat \in 0..MaxChats, Ask(h, chat), job'[h].step \notin {"reverse", "write", "row"}
  PROVE  /\ RowsChange /\ request'[Mine(h)].status = "pending"
         /\ \A p \in Orders \ {Mine(h)} : request'[p] = request[p]
<1> DEFINE m == Mine(h)
           n == IF request[m] = NoRow THEN job[h].call ELSE request[m].id
           r == [status |-> "pending", chat |-> chat, id |-> n]
<1>1. m \in Orders
  BY PairOfJob
<1>2. job[h].call \in 1..MaxRequests
  BY DEF Shape, Jobs, Working
<1>3. request[m].id \in 0..MaxRequests
  BY <1>1 DEF Row
<1>4. n \in 0..MaxRequests
  BY <1>2, <1>3
<1>5. request' = [request EXCEPT ![m] = r]
  BY DEF Ask
<1> HIDE DEF n
<1>6. r \in Row
  BY <1>4 DEF Row
<1> HIDE DEF m
<1>7. request' \in [Orders -> Row] /\ request'[m] = r
  BY <1>1, <1>5, <1>6
<1>8. \A p \in Orders \ {m} : request'[p] = request[p]
  BY <1>1, <1>5
<1>9. request'[m].status = "pending" /\ request'[m].id = n
  BY <1>7
<1>10. CASE request[m] = NoRow
  <2>1. request'[m].id = job[h].call
    BY <1>9, <1>10 DEF n
  <2>2. NamesRow(h)
    BY <1>9, <2>1 DEF NamesRow, m
  <2> QED BY <1>7, <1>8, <1>9, <2>2 DEF RowsChange, KeepsId, m
<1>11. CASE request[m] # NoRow
  <2>1. request'[m].id = request[m].id
    BY <1>9, <1>11 DEF n
  <2>2. KeepsId(m)
    BY <1>9, <1>11, <2>1 DEF KeepsId
  <2>3. \A p \in Orders : KeepsId(p)
    BY <1>8, <2>2 DEF KeepsId
  <2> QED BY <1>7, <1>8, <1>9, <2>3 DEF RowsChange, m
<1> QED BY <1>10, <1>11

LEMMA UpsertRequestRows ==
  ASSUME Shape, request \in [Orders -> Row], NEW h \in Handlers, UpsertRequest(h)
  PROVE  /\ RowsChange /\ request'[Mine(h)].status = "pending"
         /\ \A p \in Orders \ {Mine(h)} : request'[p] = request[p]
<1>1. job[h].step = "write" /\ Ask(h, request[Mine(h)].chat) /\ Done(h)
  BY DEF UpsertRequest, At
<1>2. Working(h) /\ Naming(job[h])
  BY <1>1, AtWork DEF Steps, Naming
<1>3. request[Mine(h)].chat \in 0..MaxChats
  BY <1>2, PairOfJob DEF Row
<1>4. job'[h].step \notin {"reverse", "write", "row"}
  BY <1>1, IdleIsNoJob DEF Done, Shape
<1> QED BY <1>1, <1>2, <1>3, <1>4, AskChangesRows

LEMMA UpsertStrangerRows ==
  ASSUME Shape, request \in [Orders -> Row], NEW h \in Handlers, UpsertStranger(h)
  PROVE  /\ RowsChange /\ request'[Mine(h)].status = "pending"
         /\ \A p \in Orders \ {Mine(h)} : request'[p] = request[p]
<1>1. job[h].step = "row" /\ Ask(h, job[h].chat) /\ Goto(h, "check")
  BY DEF UpsertStranger, At
<1>2. Working(h) /\ Naming(job[h]) /\ job[h] \in Jobs
  BY <1>1, AtWork DEF Steps, Naming
<1>4. job[h].chat \in 0..MaxChats
  BY <1>2 DEF Jobs
<1>3. job'[h].step \notin {"reverse", "write", "row"}
  <2>1. job'[h] = [job[h] EXCEPT !.step = "check"]
    BY <1>1 DEF Goto, Shape
  <2>2. job'[h].step = "check"
    BY <1>2, <2>1 DEF Jobs
  <2> QED BY <2>2
<1> QED BY <1>1, <1>2, <1>3, <1>4, AskChangesRows

LEMMA HandleChangesRows ==
  ASSUME Shape, request \in [Orders -> Row], NEW h \in Handlers, Handle(h)
  PROVE  RowsChange
<1>1. CASE UpsertRequest(h)
  BY <1>1, UpsertRequestRows
<1>2. CASE UpsertStranger(h)
  BY <1>2, UpsertStrangerRows
<1>3. CASE CommitFriendship(h)
  <2>1. request' = [p \in Orders |-> IF request[p] # NoRow /\ request[p].id = job[h].id
                                       THEN [request[p] EXCEPT !.status = "accepted"]
                                       ELSE request[p]]
    BY <1>3 DEF CommitFriendship
  <2>2. request' \in [Orders -> Row]
    BY <2>1, StatusIsRow
  <2>3. \A p \in Orders : \/ request'[p] = request[p]
                          \/ request[p] # NoRow /\ request'[p] = [request[p] EXCEPT !.status = "accepted"]
    BY <2>1
  <2> QED BY <2>2, <2>3, RowsKeepIds
<1>4. CASE CleanUp(h)
  <2>1. request' = [request EXCEPT ![Mine(h)] = NoRow, ![Theirs(h)] = NoRow]
    BY <1>4 DEF CleanUp
  <2>2. request' \in [Orders -> Row] /\ \A p \in Orders : request'[p] \in {request[p], NoRow}
    BY <2>1, NoRowIsRow
  <2> QED BY <2>2, RowsKeepIds
<1>5. CASE AcceptBoth(h)
  <2>1. request' = [p \in Orders |-> IF p \in {Mine(h), Theirs(h)} /\ request[p] # NoRow
                                       THEN [request[p] EXCEPT !.status = "accepted"]
                                       ELSE request[p]]
    BY <1>5 DEF AcceptBoth
  <2>2. request' \in [Orders -> Row]
    BY <2>1, StatusIsRow
  <2>3. \A p \in Orders : \/ request'[p] = request[p]
                          \/ request[p] # NoRow /\ request'[p] = [request[p] EXCEPT !.status = "accepted"]
    BY <2>1
  <2> QED BY <2>2, <2>3, RowsKeepIds
<1>6. CASE DeleteStrangerRows(h)
  <2>1. PICK gone : request' = [p \in Orders |-> IF p \in gone THEN NoRow ELSE request[p]]
    BY <1>6 DEF DeleteStrangerRows
  <2>2. request' \in [Orders -> Row] /\ \A p \in Orders : request'[p] \in {request[p], NoRow}
    BY <2>1, NoRowIsRow
  <2> QED BY <2>2, RowsKeepIds
<1>7. CASE LookReverse(h) \/ LookForRoom(h) \/ CheckPartner(h) \/ InsertFriendship(h) \/ OpenRoom(h)
             \/ Unmark(h) \/ LoseStatement(h) \/ LockTarget(h) \/ InsertDM(h) \/ DeleteRoom(h) \/ GiveUp(h)
  BY <1>7, RowsStay DEF LookReverse, LookForRoom, CheckPartner, InsertFriendship, OpenRoom,
             Unmark, LoseStatement, LockTarget, InsertDM, DeleteRoom, GiveUp, rows
<1> QED BY <1>1, <1>2, <1>3, <1>4, <1>5, <1>6, <1>7 DEF Handle

LEMMA StartChangesRows ==
  ASSUME request \in [Orders -> Row], NEW u \in Users, NEW v \in Users, u # v, Start(u, v)
  PROVE  RowsChange
<1>1. CASE WithdrawFriendRequest(u, v)
  <2>1. request' = [request EXCEPT ![<<u, v>>] = NoRow]
    BY <1>1 DEF WithdrawFriendRequest
  <2>2. request' \in [Orders -> Row] /\ \A p \in Orders : request'[p] \in {request[p], NoRow}
    BY <2>1, NoRowIsRow
  <2> QED BY <2>2, RowsKeepIds
<1>2. CASE RejectFriendRequest(u, v)
  <2>1. /\ request' = [request EXCEPT ![<<v, u>>].status = "rejected"]
        /\ request[<<v, u>>].status = "pending" /\ <<v, u>> \in Orders
    BY <1>2 DEF RejectFriendRequest, Pending, Orders
  <2>2. request[<<v, u>>] # NoRow
    BY <2>1, NoRowIsRow
  <2>3. request'[<<v, u>>] = [request[<<v, u>>] EXCEPT !.status = "rejected"]
    BY <2>1
  <2>4. request' \in [Orders -> Row]
    BY <2>1, StatusIsRow
  <2>5. \A p \in Orders : p # <<v, u>> => request'[p] = request[p]
    BY <2>1
  <2> QED BY <2>2, <2>3, <2>4, <2>5, RowsKeepIds
<1>3. CASE UNCHANGED request
  BY <1>3, RowsStay
<1> QED BY <1>1, <1>2, <1>3 DEF Start, BlockUser, UnblockUser, SendFriendRequest, rows,
     AcceptFriendRequest, RemoveFriend, MarkFriend, LeaveStranger, CreateDM, RejectDMRequest

LEMMA StepChangesRows ==
  ASSUME Shape, TypeOK, [Next]_vars
  PROVE  request \in [Orders -> Row] /\ RowsChange
<1>0. request \in [Orders -> Row]
  BY DEF TypeOK, Row
<1>1. CASE UNCHANGED vars
  BY <1>0, <1>1, RowsStay DEF vars, rows
<1>2. ASSUME NEW p \in Orders, Start(p[1], p[2])
      PROVE  RowsChange
  <2>1. p[1] \in Users /\ p[2] \in Users /\ p[1] # p[2]
    BY DEF Orders
  <2> QED BY <1>0, <1>2, <2>1, StartChangesRows
<1>3. ASSUME NEW c \in Chats, NEW u \in Users, ExpireMark(c, u) PROVE RowsChange
  BY <1>0, <1>3, RowsStay DEF ExpireMark, rows
<1>4. ASSUME NEW u \in Users, SetPrivate(u) PROVE RowsChange
  BY <1>0, <1>4, RowsStay DEF SetPrivate
<1>5. ASSUME NEW u \in Users, NEW r \in 1..made, AcceptDMRequest(u, r) PROVE RowsChange
  BY <1>0, <1>5, RowsStay DEF AcceptDMRequest, rows
<1>6. ASSUME NEW h \in Handlers, Handle(h) PROVE RowsChange
  BY <1>0, <1>6, HandleChangesRows
<1> QED BY <1>0, <1>1, <1>2, <1>3, <1>4, <1>5, <1>6 DEF Next

-----------------------------------------------------------------------------
(* The sets: friendships, blocks, marks, privacy and history *)

Sets ==
  /\ friends \subseteq Pairs /\ blocks \subseteq Orders /\ marks \subseteq Chats \X Orders
  /\ isPrivate \in [Users -> BOOLEAN]
  /\ asked \subseteq Orders
  /\ raced \subseteq Pairs /\ outlived \subseteq Pairs /\ mistaken \subseteq Pairs
  /\ roomless \subseteq Pairs

LEMMA UnwishKeepsSets ==
  ASSUME asked \subseteq Orders, raced \subseteq Pairs, outlived \subseteq Pairs,
         mistaken \subseteq Pairs, NEW S, NEW others, Unwish(S, others)
  PROVE  /\ asked' \subseteq Orders
         /\ raced' \subseteq Pairs /\ outlived' \subseteq Pairs /\ mistaken' \subseteq Pairs
BY DEF Unwish

LEMMA HandleKeepsSets ==
  ASSUME Sets, Shape, NEW h \in Handlers, Handle(h)
  PROVE  Sets'
<1>1. CASE CleanUp(h)
  <2>1. Unwish({Mine(h), Theirs(h)}, Handlers \ {h}) /\ UNCHANGED <<friends, blocks, isPrivate, marks, roomless>>
    BY <1>1 DEF CleanUp
  <2> QED BY <2>1, UnwishKeepsSets DEF Sets
<1>2. CASE DeleteStrangerRows(h)
  <2>1. PICK gone : Unwish(gone, Handlers \ {h}) /\ UNCHANGED <<friends, blocks, isPrivate, marks, roomless>>
    BY <1>2 DEF DeleteStrangerRows
  <2> QED BY <2>1, UnwishKeepsSets DEF Sets
<1>3. CASE CommitFriendship(h)
  <2>1. Working(h)
    BY <1>3, AtWork DEF CommitFriendship, At, Steps
  <2>2. Pair(h) \in Pairs
    BY <2>1, PairOfJob
  <2> QED BY <1>3, <2>2 DEF CommitFriendship, Sets, wishes
<1>4. CASE InsertFriendship(h)
  <2>1. Working(h)
    BY <1>4, AtWork DEF InsertFriendship, At, Steps
  <2>2. Pair(h) \in Pairs
    BY <2>1, PairOfJob
  <2> QED BY <1>4, <2>2 DEF InsertFriendship, Sets, wishes
<1>5. CASE DeleteRoom(h)
  <2>1. Working(h)
    BY <1>5, AtWork DEF DeleteRoom, At, Steps
  <2>2. Pair(h) \in Pairs
    BY <2>1, PairOfJob
  <2>3. roomless' \in {roomless, roomless \union {Pair(h)}} /\ UNCHANGED <<rows, marks, wishes>>
    BY <1>5 DEF DeleteRoom
  <2> QED BY <2>2, <2>3 DEF Sets, wishes, rows
<1>6. CASE GiveUp(h)
  <2>1. Pair(h) \in Pairs
    BY <1>6, PairOfJob DEF GiveUp, Working
  <2> QED BY <1>6, <2>1 DEF GiveUp, Sets, rows
<1>7. CASE Unmark(h)
  <2>1. marks' \subseteq marks /\ UNCHANGED <<rows, wishes, roomless>>
    BY <1>7 DEF Unmark, DelKeys
  <2> QED BY <2>1 DEF Sets, rows, wishes
<1>9. CASE CheckPartner(h)
  <2>1. Working(h)
    BY <1>9, AtWork DEF CheckPartner, At, Steps
  <2>2. Pair(h) \in Pairs
    BY <2>1, PairOfJob
  <2>3. /\ marks' \subseteq marks /\ mistaken' \in {mistaken, mistaken \union {Pair(h)}}
        /\ UNCHANGED <<rows, asked, raced, outlived, roomless>>
    BY <1>9 DEF CheckPartner, DelKeys
  <2> QED BY <2>2, <2>3 DEF Sets, rows
<1>8. CASE LookReverse(h) \/ UpsertRequest(h) \/ LookForRoom(h) \/ UpsertStranger(h) \/ AcceptBoth(h)
             \/ OpenRoom(h) \/ LoseStatement(h) \/ LockTarget(h) \/ InsertDM(h)
  BY <1>8 DEF LookReverse, UpsertRequest, LookForRoom, UpsertStranger, AcceptBoth, OpenRoom,
     LoseStatement, LockTarget, InsertDM, Sets, rows, wishes
<1> QED BY <1>1, <1>2, <1>3, <1>4, <1>5, <1>6, <1>7, <1>8, <1>9 DEF Handle

LEMMA StartKeepsSets ==
  ASSUME Sets, NEW u \in Users, NEW v \in Users, u # v, Start(u, v)
  PROVE  Sets'
<1>0. <<u, v>> \in Orders
  BY DEF Orders
<1>1. CASE WithdrawFriendRequest(u, v)
  <2>1. Unwish({<<u, v>>}, Handlers) /\ UNCHANGED <<friends, blocks, isPrivate, marks, roomless>>
    BY <1>1 DEF WithdrawFriendRequest
  <2> QED BY <2>1, UnwishKeepsSets DEF Sets
<1>2. CASE RejectFriendRequest(u, v)
  <2>1. Unwish({<<v, u>>}, Handlers) /\ UNCHANGED <<friends, blocks, isPrivate, marks, roomless>>
    BY <1>2 DEF RejectFriendRequest
  <2> QED BY <2>1, UnwishKeepsSets DEF Sets
<1>3. CASE BlockUser(u, v) \/ UnblockUser(u, v)
  BY <1>0, <1>3 DEF BlockUser, UnblockUser, Sets, wishes
<1>4. ASSUME NEW h \in Handlers,
             \/ SendFriendRequest(h, u, v) \/ AcceptFriendRequest(h, u, v) \/ RemoveFriend(h, u, v)
             \/ CreateDM(h, u, v)
             \/ \E c \in Chats : MarkFriend(h, u, v, c) \/ LeaveStranger(h, u, v, c)
             \/ \E r \in 1..made : RejectDMRequest(h, u, v, r)
      PROVE  Sets'
  BY <1>0, <1>4 DEF SendFriendRequest, AcceptFriendRequest, RemoveFriend, MarkFriend, LeaveStranger,
     CreateDM, RejectDMRequest, Wish, Sets, rows, wishes
<1> QED BY <1>1, <1>2, <1>3, <1>4 DEF Start

LEMMA StepKeepsSets ==
  ASSUME Sets, Shape, [Next]_vars
  PROVE  Sets'
<1>1. CASE UNCHANGED vars
  BY <1>1 DEF vars, rows, wishes, Sets
<1>2. ASSUME NEW p \in Orders, Start(p[1], p[2])
      PROVE  Sets'
  <2>1. p[1] \in Users /\ p[2] \in Users /\ p[1] # p[2]
    BY DEF Orders
  <2> QED BY <1>2, <2>1, StartKeepsSets
<1>3. ASSUME NEW c \in Chats, NEW u \in Users, ExpireMark(c, u) PROVE Sets'
  BY <1>3 DEF ExpireMark, DelKeys, Sets, rows, wishes
<1>4. ASSUME NEW u \in Users, SetPrivate(u) PROVE Sets'
  BY <1>4 DEF SetPrivate, Sets, wishes
<1>5. ASSUME NEW u \in Users, NEW r \in 1..made, AcceptDMRequest(u, r) PROVE Sets'
  BY <1>5 DEF AcceptDMRequest, Sets, rows, wishes
<1>6. ASSUME NEW h \in Handlers, Handle(h) PROVE Sets'
  BY <1>6, HandleKeepsSets
<1> QED BY <1>1, <1>2, <1>3, <1>4, <1>5, <1>6 DEF Next

-----------------------------------------------------------------------------
(* The type invariant.  Rows keep their own numbers because every handler has one
   of its own and gives it to at most one row. *)

Numbered ==
  /\ \A p \in Orders : request[p] # NoRow => /\ request[p].status # "none"
                                             /\ request[p].id \in 1..requests
  /\ \A g, h \in Handlers : Working(g) /\ Working(h) /\ job[g].call = job[h].call => g = h
  /\ \A h \in Handlers, p \in Orders : Working(h) /\ Naming(job[h]) => request[p].id # job[h].call

TypeInv == TypeOK /\ Shape /\ Numbered

LEMMA TypeInitially == Init => TypeInv
<1> SUFFICES ASSUME Init PROVE TypeInv
  OBVIOUS
<1> USE DEF Init
<1>1. request \in [Orders -> Row] /\ \A p \in Orders : request[p] = NoRow
  BY NoRowIsRow
<1>2. Shape /\ \A h \in Handlers : ~Working(h)
  BY SocialBounds DEF Shape, Working
<1>3. Sets
  BY DEF Sets
<1>4. rooms \in [1..made -> [Users -> {"none", "active", "pending"}]] /\ \A r \in 1..made : FALSE
  OBVIOUS
<1>5. TypeOK
  BY <1>1, <1>2, <1>3, <1>4 DEF TypeOK, Sets, Row, Shape, Working
<1>6. Numbered
  BY <1>1, <1>2 DEF Numbered
<1> QED BY <1>2, <1>5, <1>6 DEF TypeInv

LEMMA ShapeStep ==
  ASSUME TypeInv, [Next]_vars
  PROVE  Shape'
<1>1. /\ requests' \in requests..MaxRequests
      /\ job' = job \/ \E h \in Handlers : Moves(h)
      /\ RoomsTyped /\ RoomsChange
  BY StepMoves DEF TypeInv
<1>2. Shape
  BY DEF TypeInv
<1>3. requests' \in 0..MaxRequests /\ requests <= requests'
  BY <1>1, <1>2, SocialBounds DEF Shape
<1>4. made' \in 0..MaxRooms /\ made <= made'
  BY <1>1, SocialBounds DEF RoomsChange, RoomsTyped, Opens
<1>5. CASE job' = job
  <2>1. \A h \in Handlers : Working(h) => job[h] \in Jobs
    BY <1>2 DEF Shape, Working
  <2>2. \A h \in Handlers : Working(h) => job[h].room \in Int /\ job[h].call \in Int
    BY <2>1 DEF Jobs
  <2> QED BY <1>2, <1>3, <1>4, <1>5, <2>2, SocialBounds DEF Shape, Working
<1>6. ASSUME NEW h \in Handlers, Moves(h) PROVE Shape'
  <2>1. PICK j \in Jobs \union {Idle} :
          /\ job' = [job EXCEPT ![h] = j]
          /\ \/ j = Idle
             \/ j \in Jobs /\ Starts(h, j)
             \/ j \in Jobs /\ GoesOn(h, j)
    BY <1>6 DEF Moves
  <2>2. job' \in [Handlers -> Jobs \union {Idle}] /\ job'[h] = j
    BY <1>2, <2>1 DEF Shape
  <2>3. ASSUME NEW g \in Handlers, g # h, job[g] # Idle
        PROVE  job'[g] = job[g] /\ job[g].user # job[g].other /\ job[g].room <= made' /\ job[g].call <= requests'
    <3>1. job[g] \in Jobs /\ job[g].user # job[g].other /\ job[g].room <= made /\ job[g].call <= requests
      BY <1>2, <2>3 DEF Shape, Working
    <3>2. job[g].room \in Nat /\ job[g].call \in Nat
      BY <3>1 DEF Jobs
    <3>3. made \in Nat /\ made' \in Nat /\ requests \in Nat /\ requests' \in Nat
      BY <1>2, <1>3, <1>4, SocialBounds DEF Shape
    <3> QED BY <1>2, <1>3, <1>4, <2>1, <2>3, <3>1, <3>2, <3>3 DEF Shape
  <2>4. j # Idle => j.user # j.other /\ j.room <= made' /\ j.call <= requests'
    <3>1. CASE j \in Jobs /\ Starts(h, j)
      <4>1. j.user # j.other /\ j.room <= made /\ j.call = requests' /\ j.room \in Nat
        BY <3>1 DEF Starts, Jobs
      <4> QED BY <1>2, <1>3, <1>4, <4>1, SocialBounds DEF Shape
    <3>2. CASE j \in Jobs /\ GoesOn(h, j)
      <4>1. job[h] \in Jobs /\ job[h].user # job[h].other /\ job[h].call <= requests
        BY <1>2, <3>2 DEF GoesOn, Shape, Working
      <4>2. j.user # j.other /\ j.room <= made /\ j.call <= requests /\ j.room \in Nat /\ j.call \in Nat
        BY <3>2, <4>1 DEF GoesOn, Jobs
      <4> QED BY <1>2, <1>3, <1>4, <4>2, SocialBounds DEF Shape
    <3> QED BY <2>1, <3>1, <3>2
  <2>5. \A g \in Handlers : g # h => job'[g] = job[g]
    BY <1>2, <2>1 DEF Shape
  <2> QED BY <1>3, <1>4, <2>2, <2>3, <2>4, <2>5 DEF Shape, Working
<1> QED BY <1>1, <1>5, <1>6

(* What one handler may become. *)
LEMMA OneJob ==
  ASSUME Shape, TypeOK, [Next]_vars, NEW g \in Handlers, Working(g)'
  PROVE  /\ job'[g] \in Jobs
         /\ \/ job'[g] = job[g]
            \/ Starts(g, job'[g]) /\ \A h \in Handlers \ {g} : job'[h] = job[h]
            \/ GoesOn(g, job'[g])
<1>1. job' = job \/ \E h \in Handlers : Moves(h)
  BY StepMoves
<1>2. CASE job' = job
  BY <1>2 DEF Shape, Working
<1>3. ASSUME NEW h \in Handlers, Moves(h)
      PROVE  /\ job'[g] \in Jobs
             /\ \/ job'[g] = job[g]
                \/ Starts(g, job'[g]) /\ \A f \in Handlers \ {g} : job'[f] = job[f]
                \/ GoesOn(g, job'[g])
  <2>1. PICK j \in Jobs \union {Idle} :
          /\ job' = [job EXCEPT ![h] = j]
          /\ \/ j = Idle
             \/ j \in Jobs /\ Starts(h, j)
             \/ j \in Jobs /\ GoesOn(h, j)
    BY <1>3 DEF Moves
  <2>2. job'[h] = j /\ \A f \in Handlers : f # h => job'[f] = job[f]
    BY <2>1 DEF Shape
  <2> QED BY <2>1, <2>2 DEF Shape, Working
<1> QED BY <1>1, <1>2, <1>3

LEMMA CallsStayApart ==
  ASSUME TypeInv, [Next]_vars, NEW g \in Handlers, NEW h \in Handlers,
         Working(g)', Working(h)', job'[g].call = job'[h].call
  PROVE  g = h
<1>1. Shape /\ TypeOK
  BY DEF TypeInv
<1>2. ASSUME NEW f \in Handlers, Working(f)', ~Starts(f, job'[f])
      PROVE  Working(f) /\ job[f].call = job'[f].call
  <2>1. job'[f] = job[f] \/ GoesOn(f, job'[f])
    BY <1>1, <1>2, OneJob
  <2> QED BY <1>2, <2>1 DEF GoesOn, Working
<1>3. ASSUME NEW f \in Handlers, NEW e \in Handlers, e # f, Starts(f, job'[f]), Working(e)', Working(f)'
      PROVE  job'[e].call # job'[f].call
  <2>1. job'[f].call = requests + 1 /\ requests \in Nat
    BY <1>1, <1>3 DEF Starts, Shape
  <2>2. \/ job'[f] = job[f]
        \/ \A x \in Handlers \ {f} : job'[x] = job[x]
        \/ GoesOn(f, job'[f])
    BY <1>1, <1>3, OneJob
  <2>3. job[f] = Idle
    BY <1>3 DEF Starts
  <2>4. job'[e] = job[e]
    BY <1>3, <2>2, <2>3 DEF Working, GoesOn
  <2>5. job[e].call <= requests /\ job[e] \in Jobs
    BY <1>1, <1>3, <2>4 DEF Shape, Working
  <2>6. job[e].call \in Nat
    BY <2>5 DEF Jobs
  <2> QED BY <2>1, <2>4, <2>5, <2>6
<1>4. CASE Starts(g, job'[g])
  BY <1>3, <1>4
<1>5. CASE Starts(h, job'[h])
  BY <1>3, <1>5
<1>6. CASE ~Starts(g, job'[g]) /\ ~Starts(h, job'[h])
  <2>1. Working(g) /\ Working(h) /\ job[g].call = job[h].call
    BY <1>2, <1>6
  <2> QED BY <2>1 DEF TypeInv, Numbered
<1> QED BY <1>4, <1>5, <1>6

(* A row has no number, the one that it had, or that of the handler that made it. *)
LEMMA IdsOfRows ==
  ASSUME TypeInv, [Next]_vars, NEW p \in Orders
  PROVE  /\ \/ request'[p] = NoRow
            \/ request[p] # NoRow /\ request'[p].id = request[p].id /\ request'[p].status # "none"
            \/ \E h \in Handlers : NamesRow(h) /\ p = Mine(h)
<1>1. RowsChange
  BY StepChangesRows DEF TypeInv
<1>2. ASSUME KeepsId(p)
      PROVE  \/ request'[p] = NoRow
             \/ request[p] # NoRow /\ request'[p].id = request[p].id /\ request'[p].status # "none"
  BY <1>2 DEF KeepsId, TypeInv, Numbered
<1> QED BY <1>1, <1>2 DEF RowsChange

LEMMA NamersAreOne ==
  ASSUME TypeInv, [Next]_vars, NEW g \in Handlers, NEW h \in Handlers, NamesRow(g), NamesRow(h)
  PROVE  g = h
<1>1. job' = job \/ \E f \in Handlers : Moves(f)
  BY StepMoves DEF TypeInv
<1>2. job' # job
  BY DEF NamesRow, Naming
<1>3. PICK f \in Handlers : Moves(f)
  BY <1>1, <1>2
<1>4. \A e \in Handlers : e # f => job'[e] = job[e]
  BY <1>3 DEF Moves, TypeInv, Shape
<1> QED BY <1>4 DEF NamesRow, Naming

LEMMA IdsStayApart ==
  ASSUME TypeInv, [Next]_vars, NEW p \in Orders, NEW q \in Orders,
         p # q, request'[p].id = request'[q].id
  PROVE  request'[p] = NoRow
<1> SUFFICES ASSUME request'[p] # NoRow PROVE FALSE
  OBVIOUS
<1>1. Shape /\ Numbered /\ \A r, s \in Orders : r # s /\ request[r].id = request[s].id => request[r] = NoRow
  BY DEF TypeInv, TypeOK
<1>2. \A h \in Handlers : NamesRow(h) => /\ request'[Mine(h)].id = job[h].call
                                         /\ job[h].call \in 1..MaxRequests
                                         /\ \A r \in Orders : request[r].id # job[h].call
  BY <1>1 DEF NamesRow, Numbered, Shape, Working, Jobs
<1>3. CASE \E h \in Handlers : NamesRow(h) /\ p = Mine(h)
  <2>1. PICK h \in Handlers : NamesRow(h) /\ p = Mine(h)
    BY <1>3
  <2>2. request'[q].id = job[h].call
    BY <1>2, <2>1
  <2>3. request'[q] # NoRow
    BY <1>2, <2>1, <2>2, NoRowIsRow
  <2>4. request'[q].id # request[q].id
    BY <1>2, <2>1, <2>2
  <2>5. PICK g \in Handlers : NamesRow(g) /\ q = Mine(g)
    BY <2>3, <2>4, IdsOfRows
  <2> QED BY <2>1, <2>5, NamersAreOne
<1>4. CASE request[p] # NoRow /\ request'[p].id = request[p].id
  <2>1. request[p].id \in 1..requests
    BY <1>1, <1>4 DEF Numbered
  <2>2. request'[q] # NoRow
    <3>1. request[p].id # 0
      BY <1>1, <2>1 DEF Shape
    <3> QED BY <1>4, <3>1, NoRowIsRow
  <2>3. ~(request[q] # NoRow /\ request'[q].id = request[q].id)
    BY <1>1, <1>4
  <2>4. PICK g \in Handlers : NamesRow(g) /\ q = Mine(g)
    BY <2>2, <2>3, IdsOfRows
  <2> QED BY <1>2, <1>4, <2>4
<1> QED BY <1>3, <1>4, IdsOfRows

LEMMA NumberedStep ==
  ASSUME TypeInv, [Next]_vars
  PROVE  Numbered'
<1>1. Shape /\ TypeOK /\ Numbered
  BY DEF TypeInv
<1>2. requests \in Nat /\ requests' \in Nat /\ requests <= requests'
  <2>1. requests' \in requests..MaxRequests
    BY <1>1, StepMoves
  <2> QED BY <1>1, <2>1, SocialBounds DEF Shape
<1>3. \A h \in Handlers : NamesRow(h) => /\ request'[Mine(h)].id = job[h].call
                                         /\ request'[Mine(h)].status # "none"
                                         /\ job[h].call \in 1..requests
  <2>1. \A h \in Handlers : Working(h) => job[h].call \in 1..requests
    BY <1>1, <1>2 DEF Shape, Working, Jobs
  <2> QED BY <2>1 DEF NamesRow
<1>4. ASSUME NEW p \in Orders, request'[p] # NoRow
      PROVE  request'[p].status # "none" /\ request'[p].id \in 1..requests
  <2>1. CASE request[p] # NoRow /\ request'[p].id = request[p].id /\ request'[p].status # "none"
    BY <1>1, <2>1 DEF Numbered
  <2>2. CASE \E h \in Handlers : NamesRow(h) /\ p = Mine(h)
    BY <1>3, <2>2
  <2> QED BY <1>4, <2>1, <2>2, IdsOfRows
<1>5. ASSUME NEW g \in Handlers, NEW p \in Orders, Working(g)', Naming(job'[g])
      PROVE  request'[p].id # job'[g].call
  <2>1. CASE Starts(g, job'[g])
    <3>1. job'[g].call = requests + 1
      BY <2>1 DEF Starts
    <3>2. request'[p].id \in 0..requests
      BY <1>2, <1>4, NoRowIsRow
    <3> QED BY <1>2, <3>1, <3>2
  <2>2. CASE job'[g] = job[g] \/ GoesOn(g, job'[g])
    <3>1. Working(g) /\ Naming(job[g]) /\ job'[g].call = job[g].call
      BY <1>5, <2>2 DEF GoesOn, Working
    <3>2. request[p].id # job[g].call /\ job[g].call \in 1..MaxRequests
      BY <1>1, <3>1 DEF Numbered, Shape, Working, Jobs
    <3>3. CASE request'[p] = NoRow
      BY <3>1, <3>2, <3>3, NoRowIsRow
    <3>4. CASE request'[p].id = request[p].id
      BY <3>1, <3>2, <3>4
    <3>5. ASSUME NEW h \in Handlers, NamesRow(h), p = Mine(h)
          PROVE  request'[p].id # job'[g].call
      <4>1. h # g /\ Working(h)
        BY <1>5, <3>5 DEF NamesRow, Naming
      <4>2. job[h].call # job[g].call
        BY <1>1, <3>1, <4>1 DEF Numbered
      <4> QED BY <1>3, <3>1, <3>5, <4>2
    <3> QED BY <3>3, <3>4, <3>5, IdsOfRows
  <2> QED BY <1>1, <1>5, <2>1, <2>2, OneJob
<1>6. \A p \in Orders : request'[p] # NoRow => request'[p].status # "none" /\ request'[p].id \in 1..requests'
  BY <1>2, <1>4
<1>7. \A g, h \in Handlers : Working(g)' /\ Working(h)' /\ job'[g].call = job'[h].call => g = h
  BY CallsStayApart
<1>8. \A g \in Handlers, p \in Orders : Working(g)' /\ Naming(job'[g]) => request'[p].id # job'[g].call
  BY <1>5
<1> QED BY <1>6, <1>7, <1>8 DEF Numbered, Naming

LEMMA MembersStep ==
  ASSUME TypeInv, [Next]_vars, NEW r \in 1..made', NextMembers(r) # {}
  PROVE  NextMembers(r) \in Pairs /\ \E u \in Users : rooms'[r][u] = "active"
<1>1. RoomsChange /\ Shape /\ TypeOK
  BY StepMoves DEF TypeInv
<1>2. CASE r \in 1..made
  <2>1. Lasts(r) \/ \E h \in Handlers : Deletes(h, r)
    BY <1>1, <1>2 DEF RoomsChange
  <2>2. Lasts(r)
    BY <2>1 DEF Deletes
  <2>3. MembersOf(r) \in Pairs /\ \E u \in Users : rooms[r][u] = "active"
    BY <1>1, <1>2, <2>2 DEF Lasts, TypeOK
  <2> QED BY <2>2, <2>3 DEF Lasts
<1>3. CASE r \notin 1..made
  <2>1. made \in Nat
    BY <1>1, SocialBounds DEF Shape
  <2>2. PICK h \in Handlers : Working(h) /\ Opens(h)
    BY <1>1, <1>3 DEF RoomsChange
  <2>3. r = made'
    BY <1>3, <2>1, <2>2 DEF Opens
  <2> QED BY <1>1, <2>2, <2>3, PairOfJob DEF Opens
<1> QED BY <1>2, <1>3

LEMMA TypeStep ==
  ASSUME TypeInv, [Next]_vars
  PROVE  TypeInv'
<1>1. Shape' /\ Numbered'
  BY ShapeStep, NumberedStep
<1>2. request' \in [Orders -> Row] /\ RoomsTyped' /\ Sets'
  <2>1. request' \in [Orders -> Row] /\ RoomsTyped'
    BY StepMoves, StepChangesRows DEF TypeInv, RoomsChange, RowsChange
  <2>2. Sets
    BY DEF TypeInv, TypeOK, Sets
  <2> QED BY <2>1, <2>2, StepKeepsSets DEF TypeInv
<1>3. \A p, q \in Orders : p # q /\ request'[p].id = request'[q].id => request'[p] = NoRow
  BY IdsStayApart
<1>4. \A r \in 1..made' : NextMembers(r) # {} => /\ NextMembers(r) \in Pairs
                                                /\ \E u \in Users : rooms'[r][u] = "active"
  BY MembersStep
<1>5. \A h \in Handlers :
        \/ job'[h] = Idle
        \/ /\ job'[h].step \in Steps
           /\ <<job'[h].user, job'[h].other>> \in Orders
           /\ job'[h].call \in 1..MaxRequests /\ job'[h].id \in 0..MaxRequests
           /\ job'[h].room \in 0..made' /\ job'[h].chat \in 0..MaxChats
           /\ job'[h].flag \in BOOLEAN
  <2> SUFFICES ASSUME NEW h \in Handlers, job'[h] # Idle
               PROVE  /\ job'[h].step \in Steps
                      /\ <<job'[h].user, job'[h].other>> \in Orders
                      /\ job'[h].call \in 1..MaxRequests /\ job'[h].id \in 0..MaxRequests
                      /\ job'[h].room \in 0..made' /\ job'[h].chat \in 0..MaxChats
                      /\ job'[h].flag \in BOOLEAN
    OBVIOUS
  <2>1. job'[h] \in Jobs /\ job'[h].user # job'[h].other /\ job'[h].room <= made' /\ made' \in 0..MaxRooms
    BY <1>1 DEF Shape, Working
  <2> QED BY <2>1, SocialBounds DEF Jobs, Orders
<1>6. TypeOK'
  BY <1>1, <1>2, <1>3, <1>4, <1>5 DEF TypeOK, Sets, Row, RoomsTyped, Statuses, Shape, NextMembers, MembersOf
<1> QED BY <1>1, <1>6 DEF TypeInv

LEMMA TypeAlways == Spec => []TypeInv
<1>1. TypeInv /\ [Next]_vars => TypeInv'
  BY TypeStep
<1> QED BY <1>1, TypeInitially, PTL DEF Spec

(* Every variable keeps its type; two rows of friend_requests never share an id, and a
   room that was not deleted has two members, of whom one is active. *)
THEOREM TypeCorrect == Spec => []TypeOK
<1>1. TypeInv => TypeOK
  BY DEF TypeInv
<1> QED BY <1>1, TypeAlways, PTL

-----------------------------------------------------------------------------
(* Who moves *)

LEMMA MovesAlone ==
  ASSUME Shape, NEW h \in Handlers, Moves(h), NEW g \in Handlers, g # h
  PROVE  job'[g] = job[g]
BY DEF Moves, Shape

LEMMA GoesTo ==
  ASSUME Shape, NEW h \in Handlers, Working(h), NEW step, Goto(h, step)
  PROVE  /\ job'[h].step = step
         /\ job'[h].user = job[h].user /\ job'[h].other = job[h].other
         /\ \A g \in Handlers : g # h => job'[g] = job[g]
<1>1. job[h] \in Jobs
  BY DEF Shape, Working
<1>2. job'[h] = [job[h] EXCEPT !.step = step] /\ \A g \in Handlers : g # h => job'[g] = job[g]
  BY DEF Goto, Shape
<1> QED BY <1>1, <1>2 DEF Jobs

LEMMA GoesIdle ==
  ASSUME Shape, NEW h \in Handlers, Done(h)
  PROVE  job'[h] = Idle /\ job'[h].step = "idle" /\ \A g \in Handlers : g # h => job'[g] = job[g]
BY IdleIsNoJob DEF Done, Shape

LEMMA BeginsAt ==
  ASSUME Shape, NEW h \in Handlers, NEW u, NEW v, NEW step, NEW id, NEW room, NEW chat,
         Begin(h, u, v, step, id, room, chat)
  PROVE  /\ job'[h].step = step /\ job'[h].user = u /\ job'[h].other = v /\ job'[h].room = room
         /\ \A g \in Handlers : g # h => job'[g] = job[g]
BY DEF Begin, Shape

-----------------------------------------------------------------------------
(* A private profile is not contacted: the handler that may insert the room holds the
   row of its target, so that the profile cannot become private under it. *)

Allowed(h) == isPrivate[job[h].other] => job[h].flag \/ job[h].user \in Paid

Guarded == \A h \in Handlers : job[h].step = "dmwrite" => Allowed(h)

LEMMA GuardedInitially == Init => Guarded
BY IdleIsNoJob DEF Init, Guarded

LEMMA HandleGuarded ==
  ASSUME Guarded, Shape, TypeOK, NEW h \in Handlers, Handle(h)
  PROVE  Guarded'
<1>0. UNCHANGED isPrivate
  BY DEF Handle, LookReverse, UpsertRequest, LookForRoom, CommitFriendship, CleanUp, UpsertStranger,
     CheckPartner, AcceptBoth, InsertFriendship, OpenRoom, Unmark, DeleteStrangerRows, LoseStatement,
     LockTarget, InsertDM, DeleteRoom, GiveUp, rows
<1>1. \A g \in Handlers : g # h => job'[g] = job[g]
  BY HandleMoves, MovesAlone
<1> SUFFICES ASSUME job'[h].step = "dmwrite" PROVE Allowed(h)'
  BY <1>0, <1>1 DEF Guarded, Allowed
<1>2. \A step \in Steps \ {"dmwrite"} : ~Goto(h, step)
  <2> SUFFICES ASSUME NEW step \in Steps \ {"dmwrite"}, Goto(h, step) PROVE FALSE
    OBVIOUS
  <2>1. job'[h] = [job[h] EXCEPT !.step = step]
    BY DEF Goto, Shape
  <2>2. job[h] \in Jobs \union {Idle}
    BY DEF Shape
  <2>3. job'[h].step = step
    BY <2>1, <2>2 DEF Jobs, Idle
  <2> QED BY <2>3
<1>3. ~Done(h)
  BY GoesIdle
<1>4. CASE LockTarget(h)
  <2>1. job[h].step = "dmlock" /\ job[h] \in Jobs
    BY <1>4, AtWork DEF LockTarget, At, Steps
  <2>2. /\ ~(Pair(h) \notin friends /\ isPrivate[job[h].other] /\ job[h].user \notin Paid)
        /\ job' = [job EXCEPT ![h].step = "dmwrite", ![h].flag = Pair(h) \in friends]
    BY <1>3, <1>4 DEF LockTarget
  <2>3. job'[h] = [job[h] EXCEPT !.step = "dmwrite", !.flag = Pair(h) \in friends]
    BY <2>2 DEF Shape
  <2>4. /\ job'[h].other = job[h].other /\ job'[h].user = job[h].user
        /\ job'[h].flag = (Pair(h) \in friends)
    BY <2>1, <2>3 DEF Jobs
  <2> QED BY <1>0, <2>2, <2>4 DEF Allowed
<1>5. CASE LookReverse(h)
  <2>1. job' = [job EXCEPT ![h].step = "accept", ![h].id = request[Theirs(h)].id] \/ Goto(h, "write")
    BY <1>5 DEF LookReverse
  <2>2. job' = [job EXCEPT ![h].step = "accept", ![h].id = request[Theirs(h)].id]
    BY <1>2, <2>1 DEF Steps
  <2>3. job[h] \in Jobs
    BY <1>5, AtWork DEF LookReverse, At, Steps
  <2>4. job'[h].step = "accept"
    BY <2>2, <2>3 DEF Jobs, Shape
  <2> QED BY <2>4
<1>6. CASE LookForRoom(h)
  <2>1. PICK r : job' = [job EXCEPT ![h].step = "commit", ![h].room = r, ![h].flag = Pair(h) \notin friends]
    BY <1>6 DEF LookForRoom
  <2>2. job[h] \in Jobs
    BY <1>6, AtWork DEF LookForRoom, At, Steps
  <2>3. job'[h].step = "commit"
    BY <2>1, <2>2 DEF Jobs, Shape
  <2> QED BY <2>3
<1> QED BY <1>2, <1>3, <1>4, <1>5, <1>6 DEF Handle, UpsertRequest, CommitFriendship, CleanUp, UpsertStranger,
     CheckPartner, AcceptBoth, InsertFriendship, OpenRoom, Unmark, DeleteStrangerRows, LoseStatement,
     InsertDM, DeleteRoom, GiveUp, Steps

LEMMA GuardedStep ==
  ASSUME Guarded, Shape, TypeOK, [Next]_vars
  PROVE  Guarded'
<1>1. CASE job' = job /\ isPrivate' = isPrivate
  BY <1>1 DEF Guarded, Allowed
<1>2. ASSUME NEW p \in Orders, Start(p[1], p[2])
      PROVE  Guarded'
  <2>1. isPrivate' = isPrivate
    BY <1>2 DEF Start, WithdrawFriendRequest, RejectFriendRequest, BlockUser, UnblockUser,
       SendFriendRequest, AcceptFriendRequest, RemoveFriend, MarkFriend, LeaveStranger, CreateDM,
       RejectDMRequest, rows
  <2>2. \/ job' = job
        \/ \E h \in Handlers : \E id, room, chat : \E step \in Steps \ {"dmwrite"} :
             Begin(h, p[1], p[2], step, id, room, chat)
    BY <1>2 DEF Start, WithdrawFriendRequest, RejectFriendRequest, BlockUser, UnblockUser, AtOnce,
       SendFriendRequest, AcceptFriendRequest, RemoveFriend, MarkFriend, LeaveStranger, CreateDM,
       RejectDMRequest, Steps
  <2>3. ASSUME NEW h \in Handlers, NEW id, NEW room, NEW chat, NEW step \in Steps \ {"dmwrite"},
               Begin(h, p[1], p[2], step, id, room, chat)
        PROVE  Guarded'
    <3>1. job'[h].step # "dmwrite" /\ \A g \in Handlers : g # h => job'[g] = job[g]
      BY <2>3, BeginsAt
    <3> QED BY <2>1, <3>1 DEF Guarded, Allowed
  <2> QED BY <1>1, <2>1, <2>2, <2>3
<1>3. ASSUME NEW u \in Users, SetPrivate(u) PROVE Guarded'
  <2>1. FreeUser(u) /\ job' = job /\ isPrivate' = [isPrivate EXCEPT ![u] = ~@]
    BY <1>3 DEF SetPrivate, AtOnce
  <2>2. ASSUME NEW h \in Handlers, job[h].step = "dmwrite"
        PROVE  job[h].other # u /\ job[h].other \in Users
    <3>1. job[h] \in Jobs
      BY <2>2, AtWork DEF Steps
    <3> QED BY <2>1, <2>2, <3>1 DEF FreeUser, Jobs
  <2>3. \A h \in Handlers : job[h].step = "dmwrite" => isPrivate'[job[h].other] = isPrivate[job[h].other]
    BY <2>1, <2>2 DEF TypeOK
  <2> QED BY <2>1, <2>3 DEF Guarded, Allowed
<1>4. ASSUME NEW h \in Handlers, Handle(h) PROVE Guarded'
  BY <1>4, HandleGuarded
<1>5. CASE UNCHANGED vars
  BY <1>1, <1>5 DEF vars, rows
<1>6. ASSUME NEW c \in Chats, NEW u \in Users, ExpireMark(c, u) PROVE Guarded'
  BY <1>1, <1>6 DEF ExpireMark, rows
<1>7. ASSUME NEW u \in Users, NEW r \in 1..made, AcceptDMRequest(u, r) PROVE Guarded'
  BY <1>1, <1>7 DEF AcceptDMRequest, AtOnce, rows
<1> QED BY <1>2, <1>3, <1>4, <1>5, <1>6, <1>7 DEF Next

(* While a profile is private, only a friend or a paying user opens a message request
   to it (CreateDMHandler), whatever the profile and the friendship do meanwhile. *)
THEOREM PrivateStaysAlone == Spec => PrivateNotContacted
<1>1. TypeInv /\ Guarded /\ [Next]_vars => Guarded'
  BY GuardedStep DEF TypeInv
<1>2. TypeInv /\ Guarded /\ [Next]_vars =>
        [\A h \in Handlers : InsertDM(h) /\ isPrivate[job[h].other] =>
           job[h].flag \/ job[h].user \in Paid]_vars
  BY DEF Guarded, Allowed, InsertDM, At
<1> QED BY <1>1, <1>2, GuardedInitially, TypeAlways, PTL DEF Spec, PrivateNotContacted

-----------------------------------------------------------------------------
(* Friends have both asked.  Every pending row, every mark and every handler that may
   still make a friendship stands for a wish that was not taken back, or for a pair
   in one of the histories. *)

Own    == {"reverse", "write", "accept", "commit", "row", "check", "both", "befriend"}
Mutual == {"accept", "commit", "both", "befriend"}

Wanted(q) == q \in asked \/ {q[1], q[2]} \in raced \union outlived \union mistaken

WishInv ==
  /\ \A q \in Orders : Pending(q) \/ Marked(q) => Wanted(q)
  /\ \A h \in Handlers, q \in Orders : job[h].step \in Own /\ q = Mine(h) => Wanted(q)
  /\ \A h \in Handlers, q \in Orders : job[h].step \in Mutual /\ q = Theirs(h) => Wanted(q)

(* The new wishes of the handler h, and those of the rows and marks. *)
JobWish(h) ==
  \A q \in Orders :
    /\ job'[h].step \in Own /\ q = <<job'[h].user, job'[h].other>> => Wanted(q)'
    /\ job'[h].step \in Mutual /\ q = <<job'[h].other, job'[h].user>> => Wanted(q)'
RowWish == \A q \in Orders : Pending(q)' \/ Marked(q)' => Pending(q) \/ Marked(q) \/ Wanted(q)'

Grow == /\ asked \subseteq asked' /\ raced \subseteq raced'
        /\ outlived \subseteq outlived' /\ mistaken \subseteq mistaken'

LEMMA GrowKeepsWanted ==
  ASSUME Grow, NEW q, Wanted(q)
  PROVE  Wanted(q)'
BY DEF Grow, Wanted

LEMMA WishesGrow ==
  ASSUME WishInv, Grow, NEW h \in Handlers, \A g \in Handlers : g # h => job'[g] = job[g],
         JobWish(h), RowWish
  PROVE  WishInv'
<1>1. \A q \in Orders : Pending(q)' \/ Marked(q)' => Wanted(q)'
  BY GrowKeepsWanted DEF WishInv, RowWish
<1>2. ASSUME NEW g \in Handlers, NEW q \in Orders, job'[g].step \in Own, q = Mine(g)'
      PROVE  Wanted(q)'
  <2>1. CASE g = h
    BY <1>2, <2>1 DEF JobWish, Mine
  <2>2. CASE g # h
    <3>1. Wanted(q)
      BY <1>2, <2>2 DEF WishInv, Mine
    <3> QED BY <3>1, GrowKeepsWanted
  <2> QED BY <2>1, <2>2
<1>3. ASSUME NEW g \in Handlers, NEW q \in Orders, job'[g].step \in Mutual, q = Theirs(g)'
      PROVE  Wanted(q)'
  <2>1. CASE g = h
    BY <1>3, <2>1 DEF JobWish, Theirs
  <2>2. CASE g # h
    <3>1. Wanted(q)
      BY <1>3, <2>2 DEF WishInv, Theirs
    <3> QED BY <3>1, GrowKeepsWanted
  <2> QED BY <2>1, <2>2
<1> QED BY <1>1, <1>2, <1>3 DEF WishInv

LEMMA NobodyMoves ==
  ASSUME WishInv, Grow, job' = job, RowWish
  PROVE  WishInv'
<1>1. \A q \in Orders : Pending(q)' \/ Marked(q)' => Wanted(q)'
  BY GrowKeepsWanted DEF WishInv, RowWish
<1>2. \A g \in Handlers, q \in Orders : job'[g].step \in Own /\ q = Mine(g)' => Wanted(q)'
  BY GrowKeepsWanted DEF WishInv, Mine
<1>3. \A g \in Handlers, q \in Orders : job'[g].step \in Mutual /\ q = Theirs(g)' => Wanted(q)'
  BY GrowKeepsWanted DEF WishInv, Theirs
<1> QED BY <1>1, <1>2, <1>3 DEF WishInv

(* Only what is taken back stops being wanted, and never under an asking handler. *)
LEMMA UnwishLeaves ==
  ASSUME NEW S, NEW others, Unwish(S, others), NEW q \in Orders, Wanted(q), ~Wanted(q)'
  PROVE  /\ q \in S /\ ~Marked(q)
         /\ \A h \in others : Pair(h) = {q[1], q[2]} => ~Asking(h)
<1>1. q[1] \in Users /\ q[2] \in Users /\ q[1] # q[2]
  BY DEF Orders
<1>2. {q[1], q[2]} \in Pairs
  BY <1>1, PairOfTwo
<1>3. q \in S
  BY DEF Unwish, Wanted
<1>4. ~Marked(q)
  BY <1>2, <1>3 DEF Unwish, Wanted
<1>5. \A h \in others : Pair(h) = {q[1], q[2]} => ~Asking(h)
  BY <1>2, <1>3 DEF Unwish, Wanted
<1> QED BY <1>3, <1>4, <1>5

LEMMA UnwishKeepsWishes ==
  ASSUME WishInv, NEW S, NEW others \in SUBSET Handlers, Unwish(S, others), marks' = marks,
         \A h \in others : job'[h] = job[h],
         \A h \in Handlers \ others : job'[h].step \notin Own,
         \A q \in Orders : Pending(q)' => Pending(q) /\ q \notin S
  PROVE  WishInv'
<1>1. Mutual \subseteq Own /\ \A h : job[h].step \in Own => Asking(h)
  BY DEF Own, Mutual, Asking, Steps
<1>2. ASSUME NEW q \in Orders, Pending(q)' \/ Marked(q)' PROVE Wanted(q)'
  <2>1. Wanted(q) /\ (Marked(q)' <=> Marked(q))
    BY <1>2 DEF WishInv, Marked
  <2> QED BY <1>2, <2>1, UnwishLeaves
<1>3. ASSUME NEW g \in Handlers, NEW q \in Orders, job'[g].step \in Own,
             q = Mine(g)' \/ (job'[g].step \in Mutual /\ q = Theirs(g)')
      PROVE  Wanted(q)'
  <2>1. g \in others /\ job'[g] = job[g]
    BY <1>3
  <2>2. q = Mine(g) \/ (job[g].step \in Mutual /\ q = Theirs(g))
    BY <1>3, <2>1 DEF Mine, Theirs
  <2>3. Wanted(q) /\ Asking(g)
    BY <1>1, <1>3, <2>1, <2>2 DEF WishInv
  <2>4. Pair(g) = {q[1], q[2]}
    BY <2>2 DEF Pair, Mine, Theirs
  <2> QED BY <2>1, <2>3, <2>4, UnwishLeaves
<1>4. \A g \in Handlers, q \in Orders : job'[g].step \in Own /\ q = Mine(g)' => Wanted(q)'
  BY <1>3
<1>5. \A g \in Handlers, q \in Orders : job'[g].step \in Mutual /\ q = Theirs(g)' => Wanted(q)'
  BY <1>1, <1>3
<1> QED BY <1>2, <1>4, <1>5 DEF WishInv

LEMMA WishInitially == Init => WishInv
<1>1. ASSUME Init PROVE \A q \in Orders : ~Pending(q)
  BY <1>1, NoRowIsRow DEF Init, Pending
<1> QED BY <1>1, IdleIsNoJob DEF Init, WishInv, Marked, Own, Mutual

LEMMA WishesStay ==
  ASSUME UNCHANGED wishes
  PROVE  Grow /\ \A q : Wanted(q) => Wanted(q)'
BY DEF wishes, Grow, Wanted

LEMMA RowsWished ==
  ASSUME UNCHANGED <<request, marks>>
  PROVE  RowWish
BY DEF RowWish, Pending, Marked

(* A handler that takes no part in a wish from now on, and changes no row. *)
LEMMA LeavesWishing ==
  ASSUME WishInv, UNCHANGED wishes, NEW h \in Handlers, \A g \in Handlers : g # h => job'[g] = job[g],
         job'[h].step \notin Own, RowWish
  PROVE  WishInv'
<1>1. JobWish(h)
  BY DEF JobWish, Own, Mutual
<1> QED BY <1>1, WishesStay, WishesGrow

(* A handler that goes on with its own wish, or with a wish of both. *)
LEMMA KeepsWishing ==
  ASSUME WishInv, Shape, UNCHANGED wishes, NEW h \in Handlers, job[h].step \in Own,
         \A g \in Handlers : g # h => job'[g] = job[g],
         job'[h].user = job[h].user, job'[h].other = job[h].other,
         job'[h].step \in Mutual => Wanted(Theirs(h)), RowWish
  PROVE  WishInv'
<1>0. Own \subseteq Steps /\ Mutual \subseteq Own
  BY DEF Own, Steps, Mutual
<1>1. Mine(h) \in Orders /\ Theirs(h) \in Orders
  BY <1>0, AtWork, PairOfJob
<1>2. Wanted(Mine(h))
  BY <1>1 DEF WishInv
<1>3. JobWish(h)
  BY <1>2, WishesStay DEF JobWish, Mine, Theirs
<1> QED BY <1>3, WishesStay, WishesGrow

LEMMA AskedRowIsWished ==
  ASSUME WishInv, Shape, UNCHANGED <<wishes, marks>>, NEW h \in Handlers, job[h].step \in Own,
         \A p \in Orders \ {Mine(h)} : request'[p] = request[p]
  PROVE  RowWish
<1>1. Own \subseteq Steps
  BY DEF Own, Steps
<1>2. Mine(h) \in Orders
  BY <1>1, AtWork, PairOfJob
<1>3. Wanted(Mine(h))
  BY <1>2 DEF WishInv
<1> QED BY <1>3, WishesStay DEF RowWish, Pending, Marked

(* Rows are accepted: none becomes pending. *)
LEMMA AcceptedRowsAreWished ==
  ASSUME UNCHANGED marks, request \in [Orders -> Row],
         \A p \in Orders : request'[p] \in {request[p], [request[p] EXCEPT !.status = "accepted"]}
  PROVE  RowWish
<1>1. ASSUME NEW p \in Orders PROVE Pending(p)' => Pending(p)
  <2>1. request[p] \in Row
    OBVIOUS
  <2>2. [request[p] EXCEPT !.status = "accepted"].status # "pending"
    BY <2>1 DEF Row
  <2> QED BY <2>2 DEF Pending
<1> QED BY <1>1 DEF RowWish, Marked

LEMMA ReverseWishes ==
  ASSUME WishInv, Shape, NEW h \in Handlers, LookReverse(h)
  PROVE  WishInv'
<1>1. job[h].step = "reverse" /\ Working(h) /\ job[h] \in Jobs
  BY AtWork DEF LookReverse, At, Steps
<1>2. Theirs(h) \in Orders /\ UNCHANGED wishes /\ RowWish /\ job[h].step \in Own
  BY <1>1, PairOfJob, RowsWished DEF LookReverse, rows, Own
<1>3. CASE Pending(Theirs(h))
  <2>1. job' = [job EXCEPT ![h].step = "accept", ![h].id = request[Theirs(h)].id]
    BY <1>3 DEF LookReverse
  <2>2. \A g \in Handlers : g # h => job'[g] = job[g]
    BY <2>1 DEF Shape
  <2>3. job'[h] = [job[h] EXCEPT !.step = "accept", !.id = request[Theirs(h)].id]
    BY <2>1 DEF Shape
  <2>4. job'[h].user = job[h].user /\ job'[h].other = job[h].other
    BY <1>1, <2>3 DEF Jobs
  <2>5. Wanted(Theirs(h))
    BY <1>2, <1>3 DEF WishInv
  <2> QED BY <1>2, <2>2, <2>4, <2>5, KeepsWishing
<1>4. CASE ~Pending(Theirs(h))
  <2>1. Goto(h, "write")
    BY <1>4 DEF LookReverse
  <2>2. /\ job'[h].step = "write" /\ job'[h].user = job[h].user /\ job'[h].other = job[h].other
        /\ \A g \in Handlers : g # h => job'[g] = job[g]
    BY <1>1, <2>1, GoesTo
  <2> QED BY <1>2, <2>2, KeepsWishing DEF Mutual
<1> QED BY <1>3, <1>4

LEMMA RoomWishes ==
  ASSUME WishInv, Shape, NEW h \in Handlers, LookForRoom(h)
  PROVE  WishInv'
<1>1. job[h].step = "accept" /\ Working(h) /\ job[h] \in Jobs
  BY AtWork DEF LookForRoom, At, Steps
<1>2. /\ UNCHANGED wishes /\ RowWish /\ job[h].step \in Own /\ job[h].step \in Mutual
      /\ Theirs(h) \in Orders
  BY <1>1, RowsWished, PairOfJob DEF LookForRoom, rows, Own, Mutual
<1>3. PICK r : job' = [job EXCEPT ![h].step = "commit", ![h].room = r, ![h].flag = Pair(h) \notin friends]
  BY DEF LookForRoom
<1>4. \A g \in Handlers : g # h => job'[g] = job[g]
  BY <1>3 DEF Shape
<1>5. job'[h] = [job[h] EXCEPT !.step = "commit", !.room = r, !.flag = Pair(h) \notin friends]
  BY <1>3 DEF Shape
<1>6. job'[h].user = job[h].user /\ job'[h].other = job[h].other
  BY <1>1, <1>5 DEF Jobs
<1>7. Wanted(Theirs(h))
  BY <1>2 DEF WishInv
<1> QED BY <1>2, <1>4, <1>6, <1>7, KeepsWishing

LEMMA PartnerWishes ==
  ASSUME WishInv, Shape, marks \subseteq Chats \X Orders, NEW h \in Handlers, CheckPartner(h)
  PROVE  WishInv'
<1> DEFINE c     == job[h].chat
           found == HasKey(c, job[h].other)
<1>1. job[h].step = "check" /\ Working(h) /\ Mine(h) \in Orders /\ Theirs(h) \in Orders
  BY AtWork, PairOfJob DEF CheckPartner, At, Steps
<1>2. /\ request' = request /\ marks' \subseteq marks
      /\ UNCHANGED <<asked, raced, outlived>>
      /\ mistaken' \in {mistaken, mistaken \union {Pair(h)}}
  BY DEF CheckPartner, DelKeys, rows
<1>3. Grow /\ RowWish
  BY <1>2 DEF Grow, RowWish, Pending, Marked
<1>4. CASE found \/ Pending(Theirs(h))
  <2>1. Goto(h, "both")
    BY <1>4 DEF CheckPartner
  <2>2. /\ job'[h].user = job[h].user /\ job'[h].other = job[h].other
        /\ \A g \in Handlers : g # h => job'[g] = job[g]
    BY <1>1, <2>1, GoesTo
  <2>4. ASSUME NEW q \in Orders, q = Theirs(h) PROVE Wanted(q)'
    <3>1. CASE Wanted(q)
      BY <1>3, <3>1, GrowKeepsWanted
    <3>2. CASE ~Wanted(q)
      <4>1. ~Pending(q) /\ ~Marked(q)
        BY <3>2 DEF WishInv
      <4>2. <<c, q>> \notin marks
        <5>1. <<c, q>> \in marks => c \in Chats
          OBVIOUS
        <5> QED BY <4>1, <5>1 DEF Marked
      <4>3. mistaken' = mistaken \union {Pair(h)}
        BY <1>4, <2>4, <4>1, <4>2 DEF CheckPartner
      <4>4. {q[1], q[2]} = Pair(h)
        BY <2>4 DEF Theirs, Pair
      <4> QED BY <4>3, <4>4 DEF Wanted
    <3> QED BY <3>1, <3>2
  <2>5. JobWish(h)
    <3>1. ASSUME NEW q \in Orders, q = <<job'[h].user, job'[h].other>> PROVE Wanted(q)'
      BY <1>1, <1>3, <2>2, <3>1, GrowKeepsWanted DEF WishInv, Own, Mine
    <3>2. ASSUME NEW q \in Orders, q = <<job'[h].other, job'[h].user>> PROVE Wanted(q)'
      BY <2>2, <2>4, <3>2 DEF Theirs
    <3> QED BY <3>1, <3>2 DEF JobWish
  <2> QED BY <1>3, <2>2, <2>5, WishesGrow
<1>5. CASE ~(found \/ Pending(Theirs(h)))
  <2>1. Done(h)
    BY <1>5 DEF CheckPartner
  <2>2. job'[h].step \notin Own /\ \A g \in Handlers : g # h => job'[g] = job[g]
    BY <2>1, GoesIdle DEF Own
  <2>3. JobWish(h)
    BY <2>2 DEF JobWish, Own, Mutual
  <2> QED BY <1>3, <2>2, <2>3, WishesGrow
<1> QED BY <1>4, <1>5

(* A handler that takes its next step in a wish of both of its pair. *)
LEMMA MutualGoesOn ==
  ASSUME WishInv, Shape, NEW h \in Handlers, job[h].step \in Mutual, NEW step, Goto(h, step),
         UNCHANGED wishes, RowWish
  PROVE  WishInv'
<1>1. Mutual \subseteq Steps /\ Mutual \subseteq Own
  BY DEF Mutual, Steps, Own
<1>2. Working(h) /\ Theirs(h) \in Orders
  BY <1>1, AtWork, PairOfJob
<1>3. Wanted(Theirs(h))
  BY <1>2 DEF WishInv
<1>4. /\ job'[h].user = job[h].user /\ job'[h].other = job[h].other
      /\ \A g \in Handlers : g # h => job'[g] = job[g]
  BY <1>2, GoesTo
<1> QED BY <1>1, <1>3, <1>4, KeepsWishing

LEMMA HandleKeepsWishes ==
  ASSUME WishInv, TypeInv, NEW h \in Handlers, Handle(h)
  PROVE  WishInv'
<1>0. Shape /\ request \in [Orders -> Row] /\ marks \subseteq Chats \X Orders
  BY DEF TypeInv, TypeOK, Row
<1>1. CASE UpsertRequest(h)
  <2>1. job[h].step \in Own /\ UNCHANGED <<wishes, marks>> /\ Done(h)
    BY <1>1 DEF UpsertRequest, At, Own
  <2>2. RowWish
    BY <1>0, <1>1, <2>1, UpsertRequestRows, AskedRowIsWished
  <2> QED BY <1>0, <2>1, <2>2, GoesIdle, LeavesWishing DEF Own
<1>2. CASE UpsertStranger(h)
  <2>1. job[h].step = "row" /\ job[h].step \in Own /\ UNCHANGED <<wishes, marks>> /\ Goto(h, "check")
    BY <1>2 DEF UpsertStranger, At, Own
  <2>2. RowWish
    BY <1>0, <1>2, <2>1, UpsertStrangerRows, AskedRowIsWished
  <2>3. Working(h)
    BY <1>0, <2>1, AtWork DEF Steps
  <2>4. /\ job'[h].step = "check" /\ job'[h].user = job[h].user /\ job'[h].other = job[h].other
        /\ \A g \in Handlers : g # h => job'[g] = job[g]
    BY <1>0, <2>1, <2>3, GoesTo
  <2> QED BY <1>0, <2>1, <2>2, <2>4, KeepsWishing DEF Mutual
<1>3. CASE CommitFriendship(h)
  <2>1. /\ UNCHANGED <<wishes, marks>> /\ Done(h)
        /\ \A p \in Orders : request'[p] \in {request[p], [request[p] EXCEPT !.status = "accepted"]}
    BY <1>3 DEF CommitFriendship
  <2> QED BY <1>0, <2>1, AcceptedRowsAreWished, GoesIdle, LeavesWishing DEF Own
<1>4. CASE CleanUp(h)
  <2>1. /\ Unwish({Mine(h), Theirs(h)}, Handlers \ {h}) /\ marks' = marks /\ Done(h)
        /\ request' = [request EXCEPT ![Mine(h)] = NoRow, ![Theirs(h)] = NoRow]
    BY <1>4 DEF CleanUp
  <2>2. \A q \in Orders : Pending(q)' => Pending(q) /\ q \notin {Mine(h), Theirs(h)}
    BY <1>0, <2>1, NoRowIsRow DEF Pending
  <2>3. /\ \A g \in Handlers \ {h} : job'[g] = job[g]
        /\ \A g \in Handlers \ (Handlers \ {h}) : job'[g].step \notin Own
    BY <1>0, <2>1, GoesIdle DEF Own
  <2> QED BY <2>1, <2>2, <2>3, UnwishKeepsWishes
<1>5. CASE DeleteStrangerRows(h)
  <2>1. PICK gone : /\ Unwish(gone, Handlers \ {h}) /\ marks' = marks /\ Done(h)
                    /\ request' = [p \in Orders |-> IF p \in gone THEN NoRow ELSE request[p]]
    BY <1>5 DEF DeleteStrangerRows
  <2>2. \A q \in Orders : Pending(q)' => Pending(q) /\ q \notin gone
    BY <2>1, NoRowIsRow DEF Pending
  <2>3. /\ \A g \in Handlers \ {h} : job'[g] = job[g]
        /\ \A g \in Handlers \ (Handlers \ {h}) : job'[g].step \notin Own
    BY <1>0, <2>1, GoesIdle DEF Own
  <2> QED BY <2>1, <2>2, <2>3, UnwishKeepsWishes
<1>6. CASE AcceptBoth(h)
  <2>1. /\ UNCHANGED <<wishes, marks>> /\ Goto(h, "befriend") /\ job[h].step \in Mutual
        /\ \A p \in Orders : request'[p] \in {request[p], [request[p] EXCEPT !.status = "accepted"]}
    BY <1>6 DEF AcceptBoth, At, Mutual
  <2> QED BY <1>0, <2>1, AcceptedRowsAreWished, MutualGoesOn
<1>7. CASE InsertFriendship(h)
  <2>1. UNCHANGED <<request, wishes, marks>> /\ Goto(h, "open") /\ job[h].step \in Mutual
    BY <1>7 DEF InsertFriendship, At, Mutual
  <2> QED BY <1>0, <2>1, RowsWished, MutualGoesOn
<1>8. CASE LoseStatement(h)
  <2>1. UNCHANGED <<request, wishes, marks>> /\ RowWish
    BY <1>8, RowsWished DEF LoseStatement, rows
  <2>2. CASE job[h].step = "row" /\ Goto(h, "check")
    <3>1. Working(h) /\ job[h].step \in Own
      BY <1>0, <2>2, AtWork DEF Steps, Own
    <3>2. /\ job'[h].step = "check" /\ job'[h].user = job[h].user /\ job'[h].other = job[h].other
          /\ \A g \in Handlers : g # h => job'[g] = job[g]
      BY <1>0, <2>2, <3>1, GoesTo
    <3> QED BY <1>0, <2>1, <3>1, <3>2, KeepsWishing DEF Mutual
  <2>3. CASE job[h].step \in Mutual /\ \E step : Goto(h, step)
    BY <1>0, <2>1, <2>3, MutualGoesOn
  <2> QED BY <1>8, <2>2, <2>3 DEF LoseStatement, At, Mutual
<1>9. CASE GiveUp(h)
  <2>1. /\ Grow /\ UNCHANGED <<request, marks>> /\ Done(h)
    BY <1>9 DEF GiveUp, Grow, rows
  <2>2. JobWish(h) /\ \A g \in Handlers : g # h => job'[g] = job[g]
    BY <1>0, <2>1, GoesIdle DEF JobWish, Own, Mutual
  <2> QED BY <2>1, <2>2, RowsWished, WishesGrow
<1>10. CASE Unmark(h)
  <2>1. UNCHANGED <<request, wishes>> /\ marks' \subseteq marks /\ Goto(h, "unask") /\ Working(h)
    BY <1>0, <1>10, AtWork DEF Unmark, DelKeys, rows, At, Steps
  <2>2. RowWish
    BY <2>1 DEF RowWish, Pending, Marked
  <2>3. job'[h].step \notin Own /\ \A g \in Handlers : g # h => job'[g] = job[g]
    BY <1>0, <2>1, GoesTo DEF Own
  <2> QED BY <2>1, <2>2, <2>3, LeavesWishing
<1>11. CASE LockTarget(h)
  <2>1. UNCHANGED <<request, wishes, marks>> /\ Working(h) /\ job[h] \in Jobs
    BY <1>0, <1>11, AtWork DEF LockTarget, rows, At, Steps
  <2>2. Done(h) \/ job' = [job EXCEPT ![h].step = "dmwrite", ![h].flag = Pair(h) \in friends]
    BY <1>11 DEF LockTarget
  <2>3. job'[h].step \notin Own /\ \A g \in Handlers : g # h => job'[g] = job[g]
    <3>1. CASE Done(h)
      BY <1>0, <3>1, GoesIdle DEF Own
    <3>2. CASE job' = [job EXCEPT ![h].step = "dmwrite", ![h].flag = Pair(h) \in friends]
      <4>1. job'[h] = [job[h] EXCEPT !.step = "dmwrite", !.flag = Pair(h) \in friends]
        BY <1>0, <3>2 DEF Shape
      <4>2. job'[h].step = "dmwrite"
        BY <2>1, <4>1 DEF Jobs
      <4> QED BY <1>0, <3>2, <4>2 DEF Own, Shape
    <3> QED BY <2>2, <3>1, <3>2
  <2> QED BY <2>1, <2>3, RowsWished, LeavesWishing
<1>12. CASE OpenRoom(h) \/ InsertDM(h) \/ DeleteRoom(h)
  <2>1. UNCHANGED <<request, wishes, marks>> /\ Done(h)
    BY <1>12 DEF OpenRoom, InsertDM, DeleteRoom, rows
  <2> QED BY <1>0, <2>1, RowsWished, GoesIdle, LeavesWishing DEF Own
<1> QED BY <1>0, <1>1, <1>2, <1>3, <1>4, <1>5, <1>6, <1>7, <1>8, <1>9, <1>10, <1>11, <1>12,
           ReverseWishes, RoomWishes, PartnerWishes DEF Handle

LEMMA StartKeepsWishes ==
  ASSUME WishInv, TypeInv, NEW u \in Users, NEW v \in Users, u # v, Start(u, v)
  PROVE  WishInv'
<1>0. Shape /\ request \in [Orders -> Row] /\ <<u, v>> \in Orders /\ <<v, u>> \in Orders
  BY DEF TypeInv, TypeOK, Row, Orders
<1>1. CASE WithdrawFriendRequest(u, v)
  <2>1. /\ Unwish({<<u, v>>}, Handlers) /\ marks' = marks /\ job' = job
        /\ request' = [request EXCEPT ![<<u, v>>] = NoRow]
    BY <1>1 DEF WithdrawFriendRequest, AtOnce
  <2>2. \A q \in Orders : Pending(q)' => Pending(q) /\ q \notin {<<u, v>>}
    BY <1>0, <2>1, NoRowIsRow DEF Pending
  <2> QED BY <2>1, <2>2, UnwishKeepsWishes
<1>2. CASE RejectFriendRequest(u, v)
  <2>1. /\ Unwish({<<v, u>>}, Handlers) /\ marks' = marks /\ job' = job
        /\ request' = [request EXCEPT ![<<v, u>>].status = "rejected"]
    BY <1>2 DEF RejectFriendRequest, AtOnce
  <2>2. \A q \in Orders : Pending(q)' => Pending(q) /\ q \notin {<<v, u>>}
    <3>1. request'[<<v, u>>].status = "rejected"
      BY <1>0, <2>1 DEF Row
    <3>2. \A q \in Orders : q # <<v, u>> => request'[q] = request[q]
      BY <1>0, <2>1
    <3> QED BY <3>1, <3>2 DEF Pending
  <2> QED BY <2>1, <2>2, UnwishKeepsWishes
<1>3. CASE BlockUser(u, v) \/ UnblockUser(u, v)
  <2>1. UNCHANGED <<request, marks, wishes>> /\ job' = job
    BY <1>3 DEF BlockUser, UnblockUser, AtOnce
  <2> QED BY <2>1, WishesStay, RowsWished, NobodyMoves
<1>4. ASSUME NEW h \in Handlers, SendFriendRequest(h, u, v) PROVE WishInv'
  <2>1. Begin(h, u, v, "reverse", 0, 0, 0) /\ Wish(u, v) /\ UNCHANGED <<request, marks>>
    BY <1>4 DEF SendFriendRequest, rows
  <2>2. Grow /\ \A q : q = <<u, v>> => Wanted(q)'
    BY <2>1 DEF Wish, Grow, Wanted
  <2>3. /\ job'[h].step = "reverse" /\ job'[h].user = u /\ job'[h].other = v
        /\ \A g \in Handlers : g # h => job'[g] = job[g]
    BY <1>0, <2>1, BeginsAt
  <2>4. JobWish(h)
    BY <2>2, <2>3 DEF JobWish, Mutual
  <2> QED BY <2>1, <2>2, <2>3, <2>4, RowsWished, WishesGrow
<1>5. ASSUME NEW h \in Handlers, AcceptFriendRequest(h, u, v) PROVE WishInv'
  <2>1. /\ Begin(h, u, v, "accept", request[<<v, u>>].id, 0, 0) /\ Wish(u, v)
        /\ UNCHANGED <<request, marks>> /\ Pending(<<v, u>>)
    BY <1>5 DEF AcceptFriendRequest, rows
  <2>2. Grow /\ \A q : q = <<u, v>> => Wanted(q)'
    BY <2>1 DEF Wish, Grow, Wanted
  <2>3. /\ job'[h].step = "accept" /\ job'[h].user = u /\ job'[h].other = v
        /\ \A g \in Handlers : g # h => job'[g] = job[g]
    BY <1>0, <2>1, BeginsAt
  <2>4. \A q \in Orders : q = <<v, u>> => Wanted(q)'
    BY <2>1, <2>2, GrowKeepsWanted DEF WishInv
  <2>5. JobWish(h)
    BY <2>2, <2>3, <2>4 DEF JobWish
  <2> QED BY <2>1, <2>2, <2>3, <2>5, RowsWished, WishesGrow
<1>6. ASSUME NEW h \in Handlers, NEW c \in Chats, MarkFriend(h, u, v, c) PROVE WishInv'
  <2>1. /\ Begin(h, u, v, "row", 0, 0, c) /\ Wish(u, v) /\ request' = request
        /\ marks' = marks \union {<<c, <<u, v>>>>}
    BY <1>6 DEF MarkFriend, rows
  <2>2. Grow /\ \A q : q = <<u, v>> => Wanted(q)'
    BY <2>1 DEF Wish, Grow, Wanted
  <2>3. /\ job'[h].step = "row" /\ job'[h].user = u /\ job'[h].other = v
        /\ \A g \in Handlers : g # h => job'[g] = job[g]
    BY <1>0, <2>1, BeginsAt
  <2>4. JobWish(h)
    BY <2>2, <2>3 DEF JobWish, Mutual
  <2>5. RowWish
    <3>1. \A q \in Orders : Marked(q)' => Marked(q) \/ q = <<u, v>>
      BY <2>1 DEF Marked
    <3> QED BY <2>1, <2>2, <3>1 DEF RowWish, Pending
  <2> QED BY <2>2, <2>3, <2>4, <2>5, WishesGrow
<1>7. ASSUME NEW h \in Handlers,
             \/ RemoveFriend(h, u, v) \/ CreateDM(h, u, v)
             \/ \E c \in Chats : LeaveStranger(h, u, v, c)
             \/ \E r \in 1..made : RejectDMRequest(h, u, v, r)
      PROVE  WishInv'
  <2>1. /\ UNCHANGED <<request, marks, wishes>>
        /\ \E step \in {"cleanup", "unmark", "dmlock", "delroom"} :
             \E room, chat : Begin(h, u, v, step, 0, room, chat)
    BY <1>7 DEF RemoveFriend, LeaveStranger, CreateDM, RejectDMRequest, rows
  <2>2. job'[h].step \notin Own /\ \A g \in Handlers : g # h => job'[g] = job[g]
    BY <1>0, <2>1, BeginsAt DEF Own
  <2> QED BY <2>1, <2>2, RowsWished, LeavesWishing
<1> QED BY <1>1, <1>2, <1>3, <1>4, <1>5, <1>6, <1>7 DEF Start

LEMMA WishStep ==
  ASSUME WishInv, TypeInv, [Next]_vars
  PROVE  WishInv'
<1>1. CASE UNCHANGED vars
  BY <1>1, WishesStay, RowsWished, NobodyMoves DEF vars, rows
<1>2. ASSUME NEW p \in Orders, Start(p[1], p[2]) PROVE WishInv'
  <2>1. p[1] \in Users /\ p[2] \in Users /\ p[1] # p[2]
    BY DEF Orders
  <2> QED BY <1>2, <2>1, StartKeepsWishes
<1>3. ASSUME NEW c \in Chats, NEW u \in Users, ExpireMark(c, u) PROVE WishInv'
  <2>1. request' = request /\ marks' \subseteq marks /\ job' = job /\ UNCHANGED wishes
    BY <1>3 DEF ExpireMark, DelKeys, rows
  <2>2. RowWish
    BY <2>1 DEF RowWish, Pending, Marked
  <2> QED BY <2>1, <2>2, WishesStay, NobodyMoves
<1>4. ASSUME NEW u \in Users, SetPrivate(u) PROVE WishInv'
  <2>1. UNCHANGED <<request, marks, wishes>> /\ job' = job
    BY <1>4 DEF SetPrivate, AtOnce
  <2> QED BY <2>1, WishesStay, RowsWished, NobodyMoves
<1>5. ASSUME NEW u \in Users, NEW r \in 1..made, AcceptDMRequest(u, r) PROVE WishInv'
  <2>1. UNCHANGED <<request, marks, wishes>> /\ job' = job
    BY <1>5 DEF AcceptDMRequest, AtOnce, rows
  <2> QED BY <2>1, WishesStay, RowsWished, NobodyMoves
<1>6. ASSUME NEW h \in Handlers, Handle(h) PROVE WishInv'
  BY <1>6, HandleKeepsWishes
<1> QED BY <1>1, <1>2, <1>3, <1>4, <1>5, <1>6 DEF Next

(* Friendships are made by two steps only. *)
LEMMA FriendsAreMade ==
  ASSUME [Next]_vars, NEW p \in friends' \ friends
  PROVE  \E h \in Handlers : (CommitFriendship(h) \/ InsertFriendship(h)) /\ p = Pair(h)
<1>1. friends' # friends
  OBVIOUS
<1>2. ASSUME NEW u, NEW v, Start(u, v) PROVE friends' \subseteq friends
  BY <1>2 DEF Start, WithdrawFriendRequest, RejectFriendRequest, BlockUser, UnblockUser,
     SendFriendRequest, AcceptFriendRequest, RemoveFriend, MarkFriend, LeaveStranger, CreateDM,
     RejectDMRequest, rows
<1>3. \E h \in Handlers : Handle(h)
  BY <1>1, <1>2 DEF Next, ExpireMark, SetPrivate, AcceptDMRequest, vars, rows
<1>4. PICK h \in Handlers : Handle(h)
  BY <1>3
<1>5. CommitFriendship(h) \/ InsertFriendship(h)
  BY <1>1, <1>4 DEF Handle, LookReverse, UpsertRequest, LookForRoom, CleanUp, UpsertStranger,
     CheckPartner, AcceptBoth, OpenRoom, Unmark, DeleteStrangerRows, LoseStatement, LockTarget,
     InsertDM, DeleteRoom, GiveUp, rows
<1>6. p = Pair(h)
  BY <1>5 DEF CommitFriendship, InsertFriendship
<1> QED BY <1>5, <1>6

LEMMA BothAsked ==
  ASSUME WishInv, Shape, [Next]_vars, NEW p \in friends' \ friends
  PROVE  \/ p \in raced \union outlived \union mistaken
         \/ \A q \in Orders : {q[1], q[2]} = p => q \in asked
<1>1. PICK h \in Handlers : (CommitFriendship(h) \/ InsertFriendship(h)) /\ p = Pair(h)
  BY FriendsAreMade
<1>2. job[h].step \in {"commit", "befriend"}
  BY <1>1 DEF CommitFriendship, InsertFriendship, At
<1>3. Mine(h) \in Orders /\ Theirs(h) \in Orders
  BY <1>2, AtWork, PairOfJob DEF Steps
<1>4. Wanted(Mine(h)) /\ Wanted(Theirs(h))
  BY <1>2, <1>3 DEF WishInv, Own, Mutual
<1> SUFFICES ASSUME p \notin raced \union outlived \union mistaken, NEW q \in Orders, {q[1], q[2]} = p
             PROVE  q \in asked
  OBVIOUS
<1>5. q = <<q[1], q[2]>> /\ q[1] # q[2]
  BY DEF Orders
<1>6. q = Mine(h) \/ q = Theirs(h)
  BY <1>1, <1>5 DEF Pair, Mine, Theirs
<1>7. {q[1], q[2]} \notin raced \union outlived \union mistaken
  OBVIOUS
<1> QED BY <1>4, <1>6, <1>7 DEF Wanted

LEMMA WishAlways == Spec => []WishInv
<1>1. TypeInv /\ WishInv /\ [Next]_vars => WishInv'
  BY WishStep
<1> QED BY <1>1, WishInitially, TypeAlways, PTL DEF Spec

(* Two users become friends only if both have asked for it or accepted, and neither
   has taken it back since (handlers/friends.go, match.go); with the exceptions that
   the histories name. *)
THEOREM FriendsBothWanted == Spec => BothWanted
<1>1. TypeInv /\ WishInv /\ [Next]_vars =>
        [\A p \in friends' \ friends :
           \/ p \in raced \union outlived \union mistaken
           \/ \A q \in Orders : {q[1], q[2]} = p => q \in asked]_vars
  BY BothAsked DEF TypeInv
<1> QED BY <1>1, WishAlways, TypeAlways, PTL DEF Spec, BothWanted

-----------------------------------------------------------------------------
(* Friends have a room.  A handler that found a room for its pair still finds its
   members there, unless the pair is in roomless; and a room that is about to be
   deleted is that of the pair of its handler, or deleted already. *)

TalkInv ==
  /\ \A h \in Handlers : job[h].step = "commit" /\ job[h].room # 0 =>
       /\ job[h].room \in 1..made
       /\ MembersOf(job[h].room) = Pair(h) \/ Pair(h) \in roomless
  /\ \A h \in Handlers : job[h].step = "delroom" =>
       /\ job[h].room \in 1..made
       /\ MembersOf(job[h].room) \in {Pair(h), {}}
  /\ FriendsCanTalk

LEMMA TalkInitially == Init => TalkInv
BY IdleIsNoJob DEF Init, TalkInv, FriendsCanTalk

LEMMA RoomlessGrows ==
  ASSUME [Next]_vars
  PROVE  roomless \subseteq roomless'
<1>1. CASE UNCHANGED vars
  BY <1>1 DEF vars
<1>2. ASSUME NEW u, NEW v, Start(u, v) PROVE roomless' = roomless
  BY <1>2 DEF Start, WithdrawFriendRequest, RejectFriendRequest, BlockUser, UnblockUser,
     SendFriendRequest, AcceptFriendRequest, RemoveFriend, MarkFriend, LeaveStranger, CreateDM,
     RejectDMRequest
<1>3. ASSUME NEW h \in Handlers, Handle(h) PROVE roomless \subseteq roomless'
  BY <1>3 DEF Handle, LookReverse, UpsertRequest, LookForRoom, CommitFriendship, CleanUp,
     UpsertStranger, CheckPartner, AcceptBoth, InsertFriendship, OpenRoom, Unmark,
     DeleteStrangerRows, LoseStatement, LockTarget, InsertDM, DeleteRoom, GiveUp
<1> QED BY <1>1, <1>2, <1>3 DEF Next, ExpireMark, SetPrivate, AcceptDMRequest

LEMMA HandleArrives ==
  ASSUME Shape, TypeOK, NEW h \in Handlers, Handle(h), job'[h].step \in {"commit", "delroom"}
  PROVE  LookForRoom(h)
<1>1. \A step \in Steps \ {"commit", "delroom"} : ~Goto(h, step)
  <2> SUFFICES ASSUME NEW step \in Steps \ {"commit", "delroom"}, Goto(h, step) PROVE FALSE
    OBVIOUS
  <2>1. job'[h] = [job[h] EXCEPT !.step = step]
    BY DEF Goto, Shape
  <2>2. job[h] \in Jobs \union {Idle}
    BY DEF Shape
  <2>3. job'[h].step = step
    BY <2>1, <2>2 DEF Jobs, Idle
  <2> QED BY <2>3
<1>2. ~Done(h)
  BY GoesIdle
<1>3. ~LockTarget(h)
  <2> SUFFICES ASSUME LockTarget(h) PROVE FALSE
    OBVIOUS
  <2>1. job' = [job EXCEPT ![h].step = "dmwrite", ![h].flag = Pair(h) \in friends]
    BY <1>2 DEF LockTarget
  <2>2. job[h] \in Jobs
    BY AtWork DEF LockTarget, At, Steps
  <2>3. job'[h].step = "dmwrite"
    BY <2>1, <2>2 DEF Jobs, Shape
  <2> QED BY <2>3
<1>4. ~LookReverse(h)
  <2> SUFFICES ASSUME LookReverse(h) PROVE FALSE
    OBVIOUS
  <2>1. job' = [job EXCEPT ![h].step = "accept", ![h].id = request[Theirs(h)].id] \/ Goto(h, "write")
    BY DEF LookReverse
  <2>2. job' = [job EXCEPT ![h].step = "accept", ![h].id = request[Theirs(h)].id]
    BY <1>1, <2>1 DEF Steps
  <2>3. job[h] \in Jobs
    BY AtWork DEF LookReverse, At, Steps
  <2>4. job'[h].step = "accept"
    BY <2>2, <2>3 DEF Jobs, Shape
  <2> QED BY <2>4
<1> QED BY <1>1, <1>2, <1>3, <1>4 DEF Handle, UpsertRequest, CommitFriendship, CleanUp, UpsertStranger,
     CheckPartner, AcceptBoth, InsertFriendship, OpenRoom, Unmark, DeleteStrangerRows, LoseStatement,
     InsertDM, DeleteRoom, GiveUp, Steps

LEMMA Arrivals ==
  ASSUME Shape, TypeOK, [Next]_vars, NEW g \in Handlers, job'[g] # job[g],
         job'[g].step \in {"commit", "delroom"}
  PROVE  \/ LookForRoom(g)
         \/ \E p \in Orders, r \in 1..made : RejectDMRequest(g, p[1], p[2], r)
<1>1. ASSUME NEW h \in Handlers, Handle(h) PROVE LookForRoom(g)
  <2>1. g = h
    BY <1>1, HandleMoves, MovesAlone
  <2> QED BY <1>1, <2>1, HandleArrives
<1>2. ASSUME NEW p \in Orders, Start(p[1], p[2])
      PROVE  \E r \in 1..made : RejectDMRequest(g, p[1], p[2], r)
  <2>1. ASSUME NEW h \in Handlers, NEW r \in 1..made, RejectDMRequest(h, p[1], p[2], r)
        PROVE  g = h
    BY <2>1, BeginsAt DEF RejectDMRequest
  <2>2. ASSUME NEW h \in Handlers, NEW id, NEW step \in {"reverse", "accept", "cleanup", "row", "unmark", "dmlock"},
               NEW chat, Begin(h, p[1], p[2], step, id, 0, chat)
        PROVE  FALSE
    <3>1. job'[h].step = step /\ \A f \in Handlers : f # h => job'[f] = job[f]
      BY <2>2, BeginsAt
    <3> QED BY <3>1
  <2>3. \/ \E h \in Handlers, r \in 1..made : RejectDMRequest(h, p[1], p[2], r)
        \/ \E h \in Handlers : \E id, chat : \E step \in {"reverse", "accept", "cleanup", "row", "unmark", "dmlock"} :
             Begin(h, p[1], p[2], step, id, 0, chat)
    BY <1>2 DEF Start, WithdrawFriendRequest, RejectFriendRequest, BlockUser, UnblockUser, AtOnce,
       SendFriendRequest, AcceptFriendRequest, RemoveFriend, MarkFriend, LeaveStranger, CreateDM
  <2> QED BY <2>1, <2>2, <2>3
<1> QED BY <1>1, <1>2 DEF Next, ExpireMark, SetPrivate, AcceptDMRequest, AtOnce, vars

(* A room that loses its members was deleted by a handler of the same pair. *)
LEMMA DeletedByPair ==
  ASSUME TypeInv, TalkInv, [Next]_vars, NEW r \in 1..made, MembersOf(r) \in Pairs, ~Lasts(r)
  PROVE  \E h \in Handlers : DeleteRoom(h) /\ job[h].room = r /\ Pair(h) = MembersOf(r)
                             /\ NextMembers(r) = {}
<1>1. RoomsChange
  BY StepMoves DEF TypeInv
<1>2. PICK h \in Handlers : Deletes(h, r)
  BY <1>1 DEF RoomsChange
<1>3. job[h].step = "delroom" /\ job[h].room = r /\ DeleteRoom(h) /\ NextMembers(r) = {}
  BY <1>2 DEF Deletes, DeleteRoom, At
<1>4. MembersOf(r) \in {Pair(h), {}}
  BY <1>3 DEF TalkInv
<1>5. MembersOf(r) # {}
  BY NotEmpty
<1> QED BY <1>3, <1>4, <1>5

LEMMA CommitKeepsRoom ==
  ASSUME TypeInv, TalkInv, [Next]_vars, NEW g \in Handlers, job'[g].step = "commit", job'[g].room # 0
  PROVE  /\ job'[g].room \in 1..made'
         /\ NextMembers(job'[g].room) = Pair(g)' \/ Pair(g)' \in roomless'
<1>0. Shape /\ TypeOK /\ RoomsChange /\ made \in Nat /\ made' \in Nat /\ made <= made'
  BY StepMoves, SocialBounds DEF TypeInv, Shape, RoomsChange, RoomsTyped, Opens
<1>1. CASE job'[g] = job[g]
  <2> DEFINE r == job[g].room
  <2>1. /\ job[g].step = "commit" /\ r \in 1..made /\ job'[g].room = r /\ Pair(g)' = Pair(g)
        /\ MembersOf(r) = Pair(g) \/ Pair(g) \in roomless
    BY <1>1 DEF TalkInv, Pair
  <2>2. Working(g) /\ Pair(g) \in Pairs
    BY <1>0, <2>1, AtWork, PairOfJob DEF Steps
  <2> HIDE DEF r
  <2>3. CASE Pair(g) \in roomless
    BY <1>0, <2>1, <2>3, RoomlessGrows
  <2>4. CASE MembersOf(r) = Pair(g) /\ Lasts(r)
    BY <1>0, <2>1, <2>4 DEF Lasts
  <2>5. CASE MembersOf(r) = Pair(g) /\ ~Lasts(r)
    <3>1. PICK h \in Handlers : DeleteRoom(h) /\ job[h].room = r /\ Pair(h) = Pair(g)
      BY <2>1, <2>2, <2>5, DeletedByPair
    <3>2. roomless' = roomless \union {Pair(h)}
      BY <2>1, <3>1 DEF DeleteRoom, r
    <3> QED BY <1>0, <2>1, <3>1, <3>2
  <2> QED BY <2>1, <2>3, <2>4, <2>5
<1>2. CASE job'[g] # job[g]
  <2>1. LookForRoom(g)
    <3>1. ASSUME NEW p \in Orders, NEW r \in 1..made, RejectDMRequest(g, p[1], p[2], r) PROVE FALSE
      BY <1>0, <3>1, BeginsAt DEF RejectDMRequest
    <3> QED BY <1>0, <1>2, <3>1, Arrivals
  <2> DEFINE found == DMRooms(Pair(g))
  <2>2. PICK r \in IF found = {} THEN {0} ELSE found :
          job' = [job EXCEPT ![g].step = "commit", ![g].room = r, ![g].flag = Pair(g) \notin friends]
    BY <2>1 DEF LookForRoom
  <2>3. job[g] \in Jobs /\ UNCHANGED chats
    BY <1>0, <2>1, AtWork DEF LookForRoom, At, Steps
  <2>4. job'[g] = [job[g] EXCEPT !.step = "commit", !.room = r, !.flag = Pair(g) \notin friends]
    BY <1>0, <2>2 DEF Shape
  <2>5. job'[g].room = r /\ job'[g].user = job[g].user /\ job'[g].other = job[g].other
    BY <2>3, <2>4 DEF Jobs
  <2>6. r \in found
    BY <2>2, <2>5
  <2>7. r \in 1..made /\ MembersOf(r) = Pair(g)
    BY <2>6 DEF DMRooms
  <2> QED BY <2>3, <2>5, <2>7 DEF chats, NextMembers, MembersOf, Pair
<1> QED BY <1>1, <1>2

LEMMA DeleteKeepsRoom ==
  ASSUME TypeInv, TalkInv, [Next]_vars, NEW g \in Handlers, job'[g].step = "delroom"
  PROVE  /\ job'[g].room \in 1..made'
         /\ NextMembers(job'[g].room) \in {Pair(g)', {}}
<1>0. Shape /\ TypeOK /\ RoomsChange /\ made \in Nat /\ made' \in Nat /\ made <= made'
  BY StepMoves, SocialBounds DEF TypeInv, Shape, RoomsChange, RoomsTyped, Opens
<1>1. CASE job'[g] = job[g]
  <2> DEFINE r == job[g].room
  <2>1. /\ r \in 1..made /\ job'[g].room = r /\ Pair(g)' = Pair(g)
        /\ MembersOf(r) \in {Pair(g), {}}
    BY <1>1 DEF TalkInv, Pair
  <2> HIDE DEF r
  <2>2. Lasts(r) \/ NextMembers(r) = {}
    BY <1>0, <2>1 DEF RoomsChange, Deletes
  <2> QED BY <1>0, <2>1, <2>2 DEF Lasts
<1>2. CASE job'[g] # job[g]
  <2>1. ~LookForRoom(g)
    <3> SUFFICES ASSUME LookForRoom(g) PROVE FALSE
      OBVIOUS
    <3>1. PICK r : job' = [job EXCEPT ![g].step = "commit", ![g].room = r, ![g].flag = Pair(g) \notin friends]
      BY DEF LookForRoom
    <3>2. job[g] \in Jobs
      BY <1>0, AtWork DEF LookForRoom, At, Steps
    <3>3. job'[g].step = "commit"
      BY <1>0, <3>1, <3>2 DEF Jobs, Shape
    <3> QED BY <3>3
  <2>2. PICK p \in Orders, r \in 1..made : RejectDMRequest(g, p[1], p[2], r)
    BY <1>0, <1>2, <2>1, Arrivals
  <2>3. /\ rooms[r][p[1]] = "pending" /\ p[2] \in MembersOf(r) /\ UNCHANGED chats
        /\ Begin(g, p[1], p[2], "delroom", 0, r, 0)
    BY <2>2 DEF RejectDMRequest
  <2>4. job'[g].user = p[1] /\ job'[g].other = p[2] /\ job'[g].room = r
    BY <1>0, <2>3, BeginsAt
  <2>5. p[1] \in MembersOf(r) /\ p[1] # p[2]
    BY <2>3 DEF MembersOf, Orders
  <2>6. MembersOf(r) \in Pairs
    BY <1>0, <2>5 DEF TypeOK
  <2>7. MembersOf(r) = {p[1], p[2]}
    BY <2>3, <2>5, <2>6, TwoOfPair
  <2> QED BY <2>3, <2>4, <2>7 DEF chats, NextMembers, MembersOf, Pair
<1> QED BY <1>1, <1>2

NextCanTalk(p) == \E r \in 1..made' : NextMembers(r) = p /\ \A u \in p : rooms'[r][u] = "active"

(* A step that makes a room of the pair, or makes it active. *)
LEMMA ActiveRoomIsMade ==
  ASSUME Shape, RoomsTyped, NEW h \in Handlers, Working(h),
         \/ NewRoom(Both(Pair(h), "active"))
         \/ job[h].room \in DMRooms(Pair(h)) /\ ActivateRoom(h) /\ UNCHANGED made
  PROVE  NextCanTalk(Pair(h))
<1>1. \A u \in Pair(h) : Both(Pair(h), "active")[u] = "active"
  BY PairOfJob, BothHas
<1>2. CASE NewRoom(Both(Pair(h), "active"))
  <2>1. made' \in 1..made' /\ NextMembers(made') = Pair(h) /\ rooms'[made'] = Both(Pair(h), "active")
    BY <1>2, BothActiveAdded DEF Opens
  <2> QED BY <1>1, <2>1 DEF NextCanTalk
<1>3. CASE job[h].room \in DMRooms(Pair(h)) /\ ActivateRoom(h) /\ UNCHANGED made
  <2>1. /\ job[h].room \in 1..made' /\ NextMembers(job[h].room) = Pair(h)
        /\ rooms'[job[h].room] = Both(Pair(h), "active")
    BY <1>3, RoomIsActivated
  <2> QED BY <1>1, <2>1 DEF NextCanTalk
<1> QED BY <1>2, <1>3

(* Friends of this step: they can still talk, or the room was deleted under them. *)
LEMMA TalkersGoOn ==
  ASSUME TypeInv, TalkInv, [Next]_vars, NEW p \in Pairs, CanTalk(p)
  PROVE  NextCanTalk(p) \/ p \in roomless'
<1>1. PICK r \in 1..made : MembersOf(r) = p /\ \A u \in p : rooms[r][u] = "active"
  BY DEF CanTalk, DMRooms
<1>2. made \in Nat /\ made' \in Nat /\ made <= made'
  BY StepMoves, SocialBounds DEF TypeInv, Shape, RoomsChange, RoomsTyped, Opens
<1>3. CASE Lasts(r)
  <2>1. p \subseteq Users
    BY DEF Pairs
  <2> QED BY <1>1, <1>2, <1>3, <2>1 DEF Lasts, NextCanTalk
<1>4. CASE ~Lasts(r)
  <2>1. PICK h \in Handlers : DeleteRoom(h) /\ job[h].room = r /\ Pair(h) = p
    BY <1>1, <1>4, DeletedByPair
  <2>2. roomless' = roomless \union {Pair(h)}
    BY <1>1, <2>1 DEF DeleteRoom
  <2> QED BY <2>1, <2>2
<1> QED BY <1>3, <1>4

(* A room that is being opened is there in the next state, or its handler is still
   at it, or it is known to be missing. *)
LEMMA OpeningGoesOn ==
  ASSUME TypeInv, [Next]_vars, NEW h \in Handlers, job[h].step = "open"
  PROVE  \/ NextCanTalk(Pair(h)) \/ Pair(h) \in roomless'
         \/ job'[h] = job[h]
<1>1. Shape /\ TypeOK /\ RoomsTyped /\ Working(h)
  BY StepMoves, AtWork DEF TypeInv, Steps
<1> SUFFICES ASSUME job'[h] # job[h]
             PROVE  NextCanTalk(Pair(h)) \/ Pair(h) \in roomless'
  OBVIOUS
<1>2. ASSUME NEW p \in Orders, Start(p[1], p[2]) PROVE FALSE
  <2>1. job' = job \/ \E g \in Handlers : \E step, id, room, chat : Begin(g, p[1], p[2], step, id, room, chat)
    BY <1>2 DEF Start, WithdrawFriendRequest, RejectFriendRequest, BlockUser, UnblockUser, AtOnce,
       SendFriendRequest, AcceptFriendRequest, RemoveFriend, MarkFriend, LeaveStranger, CreateDM,
       RejectDMRequest
  <2>2. PICK g \in Handlers : \E step, id, room, chat : Begin(g, p[1], p[2], step, id, room, chat)
    BY <2>1
  <2>3. g = h
    BY <1>1, <2>2, BeginsAt
  <2> QED BY <1>1, <2>2, <2>3 DEF Begin, Working
<1>3. PICK g \in Handlers : Handle(g)
  BY <1>2 DEF Next, ExpireMark, SetPrivate, AcceptDMRequest, AtOnce, vars
<1>4. g = h
  BY <1>1, <1>3, HandleMoves, MovesAlone
<1>5. OpenRoom(h) \/ GiveUp(h)
  BY <1>3, <1>4 DEF Handle, LookReverse, UpsertRequest, LookForRoom, CommitFriendship, CleanUp,
     UpsertStranger, CheckPartner, AcceptBoth, InsertFriendship, Unmark, DeleteStrangerRows,
     LoseStatement, LockTarget, InsertDM, DeleteRoom, At
<1>6. CASE OpenRoom(h)
  BY <1>1, <1>6, ActiveRoomIsMade DEF OpenRoom
<1>7. CASE GiveUp(h)
  BY <1>7 DEF GiveUp
<1> QED BY <1>5, <1>6, <1>7

LEMMA NewFriendsTalk ==
  ASSUME TypeInv, TalkInv, [Next]_vars, NEW p \in friends' \ friends
  PROVE  \/ NextCanTalk(p) \/ p \in roomless'
         \/ \E h \in Handlers : job'[h].step = "open" /\ Pair(h)' = p
<1>1. PICK h \in Handlers : (CommitFriendship(h) \/ InsertFriendship(h)) /\ p = Pair(h)
  BY FriendsAreMade
<1>2. Shape /\ RoomsTyped
  BY StepMoves DEF TypeInv
<1>3. CASE CommitFriendship(h)
  <2>1. job[h].step = "commit" /\ Working(h) /\ roomless' = roomless
    BY <1>2, <1>3, AtWork DEF CommitFriendship, At, Steps
  <2>2. CASE job[h].room # 0 /\ job[h].room \notin DMRooms(Pair(h))
    <3>1. job[h].room \in 1..made /\ (MembersOf(job[h].room) = Pair(h) \/ Pair(h) \in roomless)
      BY <2>1, <2>2 DEF TalkInv
    <3>2. Pair(h) \in roomless
      BY <2>2, <3>1 DEF DMRooms
    <3> QED BY <1>1, <2>1, <3>2
  <2>3. CASE \/ NewRoom(Both(Pair(h), "active"))
             \/ job[h].room \in DMRooms(Pair(h)) /\ ActivateRoom(h) /\ UNCHANGED made
    BY <1>1, <1>2, <2>1, <2>3, ActiveRoomIsMade
  <2> QED BY <1>3, <2>2, <2>3 DEF CommitFriendship
<1>4. CASE InsertFriendship(h)
  <2>1. job[h].step = "befriend" /\ Working(h) /\ Goto(h, "open")
    BY <1>2, <1>4, AtWork DEF InsertFriendship, At, Steps
  <2>2. job'[h].step = "open" /\ job'[h].user = job[h].user /\ job'[h].other = job[h].other
    BY <1>2, <2>1, GoesTo
  <2> QED BY <1>1, <2>2 DEF Pair
<1> QED BY <1>1, <1>3, <1>4

LEMMA TalkStep ==
  ASSUME TypeInv, TalkInv, [Next]_vars
  PROVE  TalkInv'
<1>1. ASSUME NEW p \in friends'
      PROVE  \/ NextCanTalk(p) \/ p \in roomless'
             \/ \E h \in Handlers : job'[h].step = "open" /\ Pair(h)' = p
  <2>1. CASE p \notin friends
    BY <2>1, NewFriendsTalk
  <2>2. CASE p \in friends
    <3>1. p \in Pairs
      BY <2>2 DEF TypeInv, TypeOK
    <3>2. CASE CanTalk(p)
      BY <3>1, <3>2, TalkersGoOn
    <3>3. CASE p \in roomless
      BY <3>3, RoomlessGrows
    <3>4. ASSUME NEW h \in Handlers, job[h].step = "open", Pair(h) = p
          PROVE  \/ NextCanTalk(p) \/ p \in roomless'
                 \/ \E g \in Handlers : job'[g].step = "open" /\ Pair(g)' = p
      <4>1. NextCanTalk(Pair(h)) \/ Pair(h) \in roomless' \/ job'[h] = job[h]
        BY <3>4, OpeningGoesOn
      <4>2. CASE job'[h] = job[h]
        BY <3>4, <4>2 DEF Pair
      <4> QED BY <3>4, <4>1, <4>2
    <3> QED BY <2>2, <3>2, <3>3, <3>4 DEF TalkInv, FriendsCanTalk
  <2> QED BY <2>1, <2>2
<1>2. FriendsCanTalk'
  <2>1. \A p : NextCanTalk(p) => CanTalk(p)'
    BY DEF NextCanTalk, CanTalk, DMRooms, NextMembers, MembersOf
  <2> QED BY <1>1, <2>1 DEF FriendsCanTalk
<1>3. \A g \in Handlers : job'[g].step = "commit" /\ job'[g].room # 0 =>
        /\ job'[g].room \in 1..made'
        /\ NextMembers(job'[g].room) = Pair(g)' \/ Pair(g)' \in roomless'
  BY CommitKeepsRoom
<1>4. \A g \in Handlers : job'[g].step = "delroom" =>
        /\ job'[g].room \in 1..made'
        /\ NextMembers(job'[g].room) \in {Pair(g)', {}}
  BY DeleteKeepsRoom
<1> QED BY <1>2, <1>3, <1>4 DEF TalkInv, NextMembers, MembersOf

LEMMA TalkAlways == Spec => []TalkInv
<1>1. TypeInv /\ TalkInv /\ [Next]_vars => TalkInv'
  BY TalkStep
<1> QED BY <1>1, TalkInitially, TypeAlways, PTL DEF Spec

(* Friends have a room in which both are active (acceptFriendship, MatchActionHandler),
   whatever requests, message requests and rejections run next to it; but for a room
   that is rejected or fails in that moment. *)
THEOREM FriendsAlwaysTalk == Spec => []FriendsCanTalk
<1>1. TalkInv => FriendsCanTalk
  BY DEF TalkInv
<1> QED BY <1>1, TalkAlways, PTL

-----------------------------------------------------------------------------
(* The caches of blocks *)

LookUps == [step : {"query", "set"}, other : Others, answer : {"none", "yes", "no"}]
Fills   == [step : {"query", "add", "expire"}, members : SUBSET Others]
Blocks  == [step : {"dropPair", "dropSets"}, other : Others]

LEMMA BusyRouter ==
  ASSUME CacheTypeOK, NEW r \in Routers, router[r].step # "idle"
  PROVE  router[r] \in LookUps
BY DEF CacheTypeOK, NoLookUp, LookUps

LEMMA BusyFiller ==
  ASSUME CacheTypeOK, NEW f \in Fillers, filler[f].step # "idle"
  PROVE  filler[f] \in Fills
BY DEF CacheTypeOK, NoFill, Fills

LEMMA BusyBlocker ==
  ASSUME CacheTypeOK, NEW b \in Blockers, blocker[b].step # "idle"
  PROVE  blocker[b] \in Blocks /\ blocker[b] # NoBlock
BY DEF CacheTypeOK, NoBlock, Blocks

(* A block or an unblock is about one pair. *)
LEMMA OnePair ==
  ASSUME NEW row \in Rows, NEW o \in Others, o \in {row[1], row[2]},
         blockRows' = blockRows \union {row} \/ blockRows' = blockRows \ {row},
         NEW p \in Others, p # o
  PROVE  p \in BlockedOthers' <=> p \in BlockedOthers
BY OthersType DEF Rows, BlockedOthers

LEMMA RowsKept == UNCHANGED blockRows => BlockedOthers' = BlockedOthers
BY DEF BlockedOthers

LEMMA CacheTypeInit == CacheInit => CacheTypeOK
<1> SUFFICES ASSUME CacheInit PROVE CacheTypeOK
  OBVIOUS
<1>1. /\ router \in [Routers -> LookUps \union {NoLookUp}]
      /\ filler \in [Fillers -> Fills \union {NoFill}]
      /\ blocker \in [Blockers -> Blocks \union {NoBlock}]
  BY DEF CacheInit
<1>2. blockRows \subseteq Rows /\ stalePairs \subseteq Others /\ setCache \subseteq Others
  BY DEF CacheInit
<1>3. pairCache \in [Others -> {"none", "yes", "no"}] /\ changes \in 0..MaxChanges
  BY ChangesType DEF CacheInit
<1> QED BY <1>1, <1>2, <1>3 DEF CacheInit, CacheTypeOK, LookUps, Fills, Blocks

LEMMA RouterType ==
  ASSUME CacheTypeOK, NEW r \in Routers, RouterStep(r) \/ RouterStops(r) \/ \E o \in Others : GetPair(r, o)
  PROVE  CacheTypeOK'
<1>1. CASE QueryPair(r)
  <2>1. router[r] \in LookUps
    BY <1>1, BusyRouter DEF QueryPair
  <2>2. router' \in [Routers -> LookUps \union {NoLookUp}]
    BY <1>1, <2>1 DEF QueryPair, CacheTypeOK, LookUps
  <2> QED BY <1>1, <2>2 DEF QueryPair, CacheTypeOK, LookUps, stale
<1>2. CASE SetPair(r)
  <2>1. router[r] \in LookUps
    BY <1>2, BusyRouter DEF SetPair
  <2>2. pairCache' \in [Others -> {"none", "yes", "no"}]
    BY <1>2, <2>1 DEF SetPair, CacheTypeOK, LookUps
  <2> QED BY <1>2, <2>2 DEF SetPair, CacheTypeOK, stale
<1>3. CASE RouterStops(r)
  BY <1>3 DEF RouterStops, CacheTypeOK, stale
<1>4. ASSUME NEW o \in Others, GetPair(r, o) PROVE CacheTypeOK'
  BY <1>4 DEF GetPair, CacheTypeOK, stale
<1> QED BY <1>1, <1>2, <1>3, <1>4 DEF RouterStep

LEMMA FillerType ==
  ASSUME CacheTypeOK, NEW f \in Fillers, FillerStep(f) \/ QueryBreaks(f) \/ FillerStops(f) \/ MissSet(f)
  PROVE  CacheTypeOK'
<1>1. BlockedOthers \in SUBSET Others
  BY DEF BlockedOthers
<1>2. CASE QuerySet(f)
  BY <1>1, <1>2 DEF QuerySet, CacheTypeOK, stale
<1>3. CASE AddToSet(f)
  <2>1. filler[f] \in Fills
    BY <1>3, BusyFiller DEF AddToSet
  <2>2. filler' \in [Fillers -> Fills \union {NoFill}]
    BY <1>3, <2>1 DEF AddToSet, CacheTypeOK, Fills
  <2>3. setCache' \subseteq Others /\ (hasTTL => setCache' # {})
    BY <1>3, <2>1 DEF AddToSet, CacheTypeOK, Fills
  <2> QED BY <1>3, <2>2, <2>3 DEF AddToSet, CacheTypeOK, Fills, stale
<1>4. CASE AddFails(f)
  <2>1. filler[f] \in Fills
    BY <1>4, BusyFiller DEF AddFails
  <2>2. filler' \in [Fillers -> Fills \union {NoFill}]
    BY <1>4, <2>1 DEF AddFails, CacheTypeOK, Fills
  <2> QED BY <1>4, <2>2 DEF AddFails, CacheTypeOK, Fills, stale
<1>5. CASE ExpireSet(f)
  BY <1>5 DEF ExpireSet, CacheTypeOK, stale
<1>6. CASE QueryBreaks(f)
  <2>1. PICK got \in SUBSET BlockedOthers :
          filler' = [filler EXCEPT ![f] = IF got = {} THEN NoFill
                                          ELSE [step |-> "add", members |-> got]]
    BY <1>6 DEF QueryBreaks
  <2>2. got \in SUBSET Others
    BY <1>1
  <2>3. staleSet' \in BOOLEAN
    BY <1>6 DEF QueryBreaks, CacheTypeOK
  <2>4. changes' \in 0..MaxChanges
    BY <1>6, ChangesType DEF QueryBreaks, CacheTypeOK
  <2> QED BY <1>6, <2>1, <2>2, <2>3, <2>4 DEF QueryBreaks, CacheTypeOK
<1>7. CASE FillerStops(f)
  BY <1>7 DEF FillerStops, CacheTypeOK, stale
<1>8. CASE MissSet(f)
  BY <1>8 DEF MissSet, CacheTypeOK, stale
<1> QED BY <1>2, <1>3, <1>4, <1>5, <1>6, <1>7, <1>8 DEF FillerStep

LEMMA BlockerType ==
  ASSUME CacheTypeOK, NEW b \in Blockers, BlockerStep(b) \/ BlockerStops(b)
  PROVE  CacheTypeOK'
<1>1. CASE InvalidateBlockCache(b) \/ DropPairFails(b)
  <2>1. blocker[b] \in Blocks
    BY <1>1, BusyBlocker DEF InvalidateBlockCache, DropPairFails
  <2>2. blocker' \in [Blockers -> Blocks \union {NoBlock}]
    BY <1>1, <2>1 DEF InvalidateBlockCache, DropPairFails, CacheTypeOK, Blocks
  <2>3. stalePairs' \subseteq Others /\ pairCache' \in [Others -> {"none", "yes", "no"}]
    BY <1>1, <2>1 DEF InvalidateBlockCache, DropPairFails, CacheTypeOK, Blocks
  <2> QED BY <1>1, <2>2, <2>3 DEF InvalidateBlockCache, DropPairFails, CacheTypeOK, Blocks
<1>2. CASE DropSets(b)
  <2>1. staleSet' \in BOOLEAN
    BY <1>2 DEF DropSets, LateMembers
  <2> QED BY <1>2, <2>1 DEF DropSets, CacheTypeOK
<1>3. CASE BlockerStops(b)
  <2>1. stalePairs' \subseteq Others
    BY <1>3, BusyBlocker DEF BlockerStops, CacheTypeOK, Blocks
  <2> QED BY <1>3, <2>1 DEF BlockerStops, CacheTypeOK
<1> QED BY <1>1, <1>2, <1>3 DEF BlockerStep

LEMMA CacheTypeStep == CacheTypeOK /\ [CacheNext]_cacheVars => CacheTypeOK'
<1> SUFFICES ASSUME CacheTypeOK, [CacheNext]_cacheVars PROVE CacheTypeOK'
  OBVIOUS
<1>1. ASSUME NEW b \in Blockers, NEW o \in Others, NEW row \in Rows,
             Block(b, row, o) \/ Unblock(b, row, o)
      PROVE  CacheTypeOK'
  BY <1>1, ChangesType DEF Block, Unblock, Change, CacheTypeOK, stale
<1>2. ASSUME NEW row \in Rows, BlockStranger(row) PROVE CacheTypeOK'
  <2>1. stalePairs' \subseteq Others
    BY <1>2 DEF BlockStranger, BlockedOthers, CacheTypeOK
  <2>2. staleSet' \in BOOLEAN
    BY <1>2 DEF BlockStranger, CacheTypeOK
  <2> QED BY <1>2, <2>1, <2>2, ChangesType DEF BlockStranger, CacheTypeOK, requestVars
<1>3. ASSUME NEW o \in Others, PairExpires(o) PROVE CacheTypeOK'
  BY <1>3 DEF PairExpires, CacheTypeOK, requestVars
<1>4. CASE SetExpires
  <2>1. staleSet' \in BOOLEAN
    BY <1>4 DEF SetExpires
  <2> QED BY <1>4, <2>1 DEF SetExpires, CacheTypeOK, requestVars
<1>5. CASE UNCHANGED cacheVars
  BY <1>5 DEF CacheTypeOK, cacheVars, requestVars, stale
<1> QED
  BY <1>1, <1>2, <1>3, <1>4, <1>5, RouterType, FillerType, BlockerType DEF CacheNext

(* The caches, the look-ups and the requests have the types the commands give them;
   only a set with members has a time to live. *)
THEOREM CacheTypeCorrect == CacheSpec => []CacheTypeOK
<1>1. CacheInit => CacheTypeOK
  BY CacheTypeInit
<1>2. CacheTypeOK /\ [CacheNext]_cacheVars => CacheTypeOK'
  BY CacheTypeStep
<1> QED BY <1>1, <1>2, PTL DEF CacheSpec

-----------------------------------------------------------------------------
(* What the deletions leave behind *)

Dropping(o) == \E b \in Blockers : blocker[b].step = "dropPair" /\ blocker[b].other = o

(* Neither the cached pair nor an answer on its way is older than the rows, unless
   somebody is about to delete the pair. *)
PairFresh(o) ==
  o \notin stalePairs /\ ~Dropping(o) =>
    /\ pairCache[o] # "none" => (pairCache[o] = "yes" <=> o \in BlockedOthers)
    /\ ~LateAnswer(o)

NoBlocker == \A b \in Blockers : blocker[b] = NoBlock

SetFresh == ~staleSet /\ NoBlocker => setCache \in {{}, BlockedOthers} /\ ~LateMembers

(* Steps of the look-ups of pairs *)
LEMMA PairRouter ==
  ASSUME CacheTypeOK, NEW r \in Routers, RouterStep(r) \/ RouterStops(r) \/ \E p \in Others : GetPair(r, p),
         NEW o \in Others, PairFresh(o)
  PROVE  PairFresh(o)'
<1>1. UNCHANGED <<blockRows, blocker, stalePairs>>
  BY DEF RouterStep, QueryPair, SetPair, RouterStops, GetPair, stale
<1>2. BlockedOthers' = BlockedOthers /\ (Dropping(o)' <=> Dropping(o))
  BY <1>1, RowsKept DEF Dropping
<1>3. SUFFICES ASSUME o \notin stalePairs, ~Dropping(o)
               PROVE  /\ pairCache'[o] # "none" => (pairCache'[o] = "yes" <=> o \in BlockedOthers)
                      /\ ~LateAnswer(o)'
  BY <1>1, <1>2 DEF PairFresh
<1>4. /\ pairCache[o] # "none" => (pairCache[o] = "yes" <=> o \in BlockedOthers)
      /\ ~LateAnswer(o)
  BY <1>3 DEF PairFresh
<1>5. \A q \in Routers \ {r} : router'[q] = router[q]
  BY DEF RouterStep, QueryPair, SetPair, RouterStops, GetPair, CacheTypeOK
<1>6. CASE QueryPair(r)
  <2>1. router[r] \in LookUps
    BY <1>6, BusyRouter DEF QueryPair
  <2>2. /\ router'[r].other = router[r].other
        /\ router'[r].answer = IF router[r].other \in BlockedOthers THEN "yes" ELSE "no"
    BY <1>6, <2>1 DEF QueryPair, CacheTypeOK, LookUps
  <2>3. ~LateAnswer(o)'
    BY <1>2, <1>4, <1>5, <2>2 DEF LateAnswer
  <2> QED BY <1>4, <1>6, <2>3 DEF QueryPair
<1>7. CASE SetPair(r)
  <2>1. router[r] \in LookUps /\ router'[r] = NoLookUp
    BY <1>7, BusyRouter DEF SetPair, CacheTypeOK
  <2>2. ~LateAnswer(o)'
    BY <1>2, <1>4, <1>5, <2>1 DEF LateAnswer, NoLookUp
  <2>3. CASE router[r].other = o
    <3>1. router[r].answer = "yes" <=> o \in BlockedOthers
      BY <1>4, <1>7, <2>3 DEF LateAnswer, SetPair
    <3>2. pairCache'[o] = router[r].answer
      BY <1>7, <2>3 DEF SetPair, CacheTypeOK
    <3> QED BY <2>2, <3>1, <3>2
  <2>4. CASE router[r].other # o
    BY <1>4, <1>7, <2>2, <2>4 DEF SetPair, CacheTypeOK
  <2> QED BY <2>3, <2>4
<1>8. CASE RouterStops(r)
  <2>1. router'[r] = NoLookUp
    BY <1>8 DEF RouterStops, CacheTypeOK
  <2> QED BY <1>2, <1>4, <1>5, <1>8, <2>1 DEF LateAnswer, NoLookUp, RouterStops
<1>9. ASSUME NEW p \in Others, GetPair(r, p)
      PROVE  /\ pairCache'[o] # "none" => (pairCache'[o] = "yes" <=> o \in BlockedOthers)
             /\ ~LateAnswer(o)'
  <2>1. router'[r].step = "query"
    BY <1>9 DEF GetPair, CacheTypeOK
  <2> QED BY <1>2, <1>4, <1>5, <1>9, <2>1 DEF LateAnswer, GetPair
<1> QED BY <1>6, <1>7, <1>8, <1>9 DEF RouterStep

(* Steps that change neither rows nor look-ups nor requests about the pair o *)
LEMMA PairAlone ==
  ASSUME NEW o \in Others, PairFresh(o), UNCHANGED router,
         o \in BlockedOthers' <=> o \in BlockedOthers,
         o \in stalePairs => o \in stalePairs', Dropping(o) => Dropping(o)',
         pairCache'[o] \in {pairCache[o], "none"}
  PROVE  PairFresh(o)'
<1>1. LateAnswer(o)' <=> LateAnswer(o)
  BY DEF LateAnswer
<1>2. (o \in BlockedOthers)' <=> o \in BlockedOthers
  OBVIOUS
<1> QED BY <1>1, <1>2 DEF PairFresh

LEMMA PairBlocker ==
  ASSUME CacheTypeOK, NEW b \in Blockers, BlockerStep(b) \/ BlockerStops(b),
         NEW o \in Others, PairFresh(o)
  PROVE  PairFresh(o)'
<1>1. UNCHANGED <<blockRows, router>> /\ BlockedOthers' = BlockedOthers
  BY RowsKept DEF BlockerStep, InvalidateBlockCache, DropPairFails, DropSets, BlockerStops
<1>2. \A c \in Blockers \ {b} : blocker'[c] = blocker[c]
  BY DEF BlockerStep, InvalidateBlockCache, DropPairFails, DropSets, BlockerStops, CacheTypeOK
<1>3. CASE blocker[b].step = "dropPair" /\ blocker[b].other = o
  <2>1. CASE InvalidateBlockCache(b)
    <3>1. pairCache'[o] = "none"
      BY <1>3, <2>1 DEF InvalidateBlockCache, CacheTypeOK
    <3>2. o \in stalePairs' <=> LateAnswer(o)
      BY <1>3, <2>1 DEF InvalidateBlockCache
    <3>3. LateAnswer(o)' <=> LateAnswer(o)
      BY <1>1 DEF LateAnswer
    <3> QED BY <3>1, <3>2, <3>3 DEF PairFresh
  <2>2. CASE DropPairFails(b) \/ BlockerStops(b)
    <3>1. o \in stalePairs'
      BY <1>3, <2>2 DEF DropPairFails, BlockerStops
    <3> QED BY <3>1 DEF PairFresh
  <2> QED BY <1>3, <2>1, <2>2 DEF BlockerStep, DropSets
<1>4. CASE ~(blocker[b].step = "dropPair" /\ blocker[b].other = o)
  <2>1. Dropping(o) => Dropping(o)'
    BY <1>2, <1>4 DEF Dropping
  <2>2. o \in stalePairs => o \in stalePairs'
    BY <1>4 DEF BlockerStep, InvalidateBlockCache, DropPairFails, DropSets, BlockerStops
  <2>3. pairCache'[o] \in {pairCache[o], "none"}
    BY DEF BlockerStep, InvalidateBlockCache, DropPairFails, DropSets, BlockerStops, CacheTypeOK
  <2> QED BY <1>1, <2>1, <2>2, <2>3, PairAlone
<1> QED BY <1>3, <1>4

LEMMA PairChange ==
  ASSUME CacheTypeOK, NEW b \in Blockers, NEW p \in Others, NEW row \in Rows, p \in {row[1], row[2]},
         Block(b, row, p) \/ Unblock(b, row, p),
         NEW o \in Others, PairFresh(o)
  PROVE  PairFresh(o)'
<1>1. /\ blocker[b] = NoBlock
      /\ blocker' = [blocker EXCEPT ![b] = [step |-> "dropPair", other |-> p]]
      /\ blockRows' = blockRows \union {row} \/ blockRows' = blockRows \ {row}
      /\ UNCHANGED <<pairCache, router, stalePairs>>
  BY DEF Block, Unblock, Change, stale
<1>2. /\ blocker'[b].step = "dropPair" /\ blocker'[b].other = p
      /\ \A c \in Blockers \ {b} : blocker'[c] = blocker[c]
  BY <1>1 DEF CacheTypeOK
<1>3. CASE o = p
  BY <1>2, <1>3 DEF PairFresh, Dropping
<1>4. CASE o # p
  <2>1. o \in BlockedOthers' <=> o \in BlockedOthers
    BY <1>1, <1>4, OnePair
  <2>2. Dropping(o) => Dropping(o)'
    BY <1>1, <1>2 DEF Dropping, NoBlock
  <2> QED BY <1>1, <2>1, <2>2, PairAlone
<1> QED BY <1>3, <1>4

LEMMA PairStep ==
  ASSUME CacheTypeOK, [CacheNext]_cacheVars, NEW o \in Others, PairFresh(o)
  PROVE  PairFresh(o)'
<1>1. ASSUME NEW f \in Fillers, FillerStep(f) \/ QueryBreaks(f) \/ FillerStops(f) \/ MissSet(f)
      PROVE  PairFresh(o)'
  <2>1. UNCHANGED <<blockRows, pairCache, router, blocker, stalePairs>>
    BY <1>1 DEF FillerStep, QuerySet, AddToSet, AddFails, ExpireSet, QueryBreaks, FillerStops, MissSet, stale
  <2> QED BY <2>1, RowsKept, PairAlone DEF Dropping
<1>2. ASSUME NEW row \in Rows, BlockStranger(row) PROVE PairFresh(o)'
  <2>1. UNCHANGED <<pairCache, router, blocker>> /\ BlockedOthers \subseteq BlockedOthers'
    BY <1>2 DEF BlockStranger, requestVars, BlockedOthers
  <2>2. stalePairs' = stalePairs \union (BlockedOthers' \ BlockedOthers)
    BY <1>2 DEF BlockStranger
  <2>3. CASE o \in stalePairs'
    BY <2>3 DEF PairFresh
  <2>4. CASE o \notin stalePairs'
    BY <2>1, <2>2, <2>4, PairAlone DEF Dropping
  <2> QED BY <2>3, <2>4
<1>3. ASSUME NEW p \in Others, PairExpires(p) PROVE PairFresh(o)'
  <2>1. UNCHANGED <<blockRows, router, blocker>> /\ BlockedOthers' = BlockedOthers
    BY <1>3, RowsKept DEF PairExpires, requestVars
  <2>2. pairCache'[o] \in {pairCache[o], "none"}
    BY <1>3 DEF PairExpires, CacheTypeOK
  <2>3. CASE o # p \/ LateAnswer(o)
    <3>1. o \in stalePairs => o \in stalePairs'
      BY <1>3, <2>3 DEF PairExpires
    <3> QED BY <2>1, <2>2, <3>1, PairAlone DEF Dropping
  <2>4. CASE o = p /\ ~LateAnswer(o)
    <3>1. pairCache'[o] = "none"
      BY <1>3, <2>4 DEF PairExpires, CacheTypeOK
    <3>2. ~LateAnswer(o)'
      BY <2>1, <2>4 DEF LateAnswer
    <3> QED BY <3>1, <3>2 DEF PairFresh
  <2> QED BY <2>3, <2>4
<1>4. CASE SetExpires \/ UNCHANGED cacheVars
  <2>1. UNCHANGED <<blockRows, pairCache, router, blocker, stalePairs>>
    BY <1>4 DEF SetExpires, cacheVars, requestVars, stale
  <2> QED BY <2>1, RowsKept, PairAlone DEF Dropping
<1> QED BY <1>1, <1>2, <1>3, <1>4, PairRouter, PairBlocker, PairChange DEF CacheNext

(* Steps of the look-ups of the set *)
LEMMA SetFiller ==
  ASSUME CacheTypeOK, NEW f \in Fillers, FillerStep(f) \/ QueryBreaks(f) \/ FillerStops(f) \/ MissSet(f),
         SetFresh
  PROVE  SetFresh'
<1>1. UNCHANGED <<blockRows, blocker>> /\ (staleSet => staleSet')
  <2>1. UNCHANGED <<blockRows, blocker>>
    BY DEF FillerStep, QuerySet, AddToSet, AddFails, ExpireSet, QueryBreaks, FillerStops, MissSet
  <2>2. CASE QueryBreaks(f)
    <3>1. PICK got \in SUBSET BlockedOthers : staleSet' = (staleSet \/ got \notin {{}, BlockedOthers})
      BY <2>2 DEF QueryBreaks
    <3> QED BY <2>1, <3>1
  <2>3. CASE ~QueryBreaks(f)
    <3>1. staleSet' = staleSet
      BY <2>3 DEF FillerStep, QuerySet, AddToSet, AddFails, ExpireSet, FillerStops, MissSet, stale
    <3> QED BY <2>1, <3>1
  <2> QED BY <2>2, <2>3
<1>2. BlockedOthers' = BlockedOthers /\ (NoBlocker' <=> NoBlocker)
  BY <1>1, RowsKept DEF NoBlocker
<1>3. SUFFICES ASSUME ~staleSet', ~staleSet, NoBlocker
               PROVE  setCache' \in {{}, BlockedOthers} /\ ~LateMembers'
  BY <1>1, <1>2 DEF SetFresh
<1>4. setCache \in {{}, BlockedOthers} /\ ~LateMembers
  BY <1>3 DEF SetFresh
<1>5. \A g \in Fillers \ {f} : filler'[g] = filler[g]
  BY DEF FillerStep, QuerySet, AddToSet, AddFails, ExpireSet, QueryBreaks, FillerStops, MissSet, CacheTypeOK
<1>6. SUFFICES setCache' \in {{}, BlockedOthers}
               /\ ~(filler'[f].step = "add" /\ filler'[f].members # BlockedOthers)
  BY <1>2, <1>4, <1>5 DEF LateMembers
<1>7. CASE QuerySet(f)
  BY <1>4, <1>7 DEF QuerySet, CacheTypeOK, NoFill
<1>8. CASE QueryBreaks(f)
  <2>1. PICK got \in SUBSET BlockedOthers :
          /\ filler' = [filler EXCEPT ![f] = IF got = {} THEN NoFill
                                             ELSE [step |-> "add", members |-> got]]
          /\ staleSet' = (staleSet \/ got \notin {{}, BlockedOthers})
    BY <1>8 DEF QueryBreaks
  <2>2. got = {} \/ got = BlockedOthers
    BY <1>3, <2>1
  <2>3. filler'[f] = IF got = {} THEN NoFill ELSE [step |-> "add", members |-> got]
    BY <2>1 DEF CacheTypeOK
  <2> QED BY <1>4, <1>8, <2>2, <2>3 DEF QueryBreaks, NoFill
<1>9. CASE AddToSet(f)
  <2>1. filler[f] \in Fills /\ filler[f].members = BlockedOthers
    BY <1>4, <1>9, BusyFiller DEF AddToSet, LateMembers
  <2>2. filler'[f].step = "expire"
    BY <1>9, <2>1 DEF AddToSet, CacheTypeOK, Fills
  <2>3. setCache' = BlockedOthers
    BY <1>4, <1>9, <2>1 DEF AddToSet
  <2> QED BY <2>2, <2>3
<1>10. CASE AddFails(f)
  <2>1. filler[f] \in Fills
    BY <1>10, BusyFiller DEF AddFails
  <2>2. filler'[f].step = "expire"
    BY <1>10, <2>1 DEF AddFails, CacheTypeOK, Fills
  <2> QED BY <1>4, <1>10, <2>2 DEF AddFails
<1>11. CASE ExpireSet(f) \/ FillerStops(f)
  BY <1>4, <1>11 DEF ExpireSet, FillerStops, CacheTypeOK, NoFill
<1>12. CASE MissSet(f)
  BY <1>4, <1>12 DEF MissSet, CacheTypeOK
<1> QED BY <1>7, <1>8, <1>9, <1>10, <1>11, <1>12 DEF FillerStep

LEMMA SetBlocker ==
  ASSUME CacheTypeOK, NEW b \in Blockers, BlockerStep(b) \/ BlockerStops(b), SetFresh
  PROVE  SetFresh'
<1>1. UNCHANGED <<blockRows, filler>> /\ BlockedOthers' = BlockedOthers
  BY RowsKept DEF BlockerStep, InvalidateBlockCache, DropPairFails, DropSets, BlockerStops
<1>2. LateMembers' <=> LateMembers
  BY <1>1 DEF LateMembers
<1>3. CASE InvalidateBlockCache(b) \/ DropPairFails(b)
  <2>1. blocker[b] \in Blocks
    BY <1>3, BusyBlocker DEF InvalidateBlockCache, DropPairFails
  <2>2. blocker'[b].step = "dropSets"
    BY <1>3, <2>1 DEF InvalidateBlockCache, DropPairFails, CacheTypeOK, Blocks
  <2> QED BY <2>2 DEF SetFresh, NoBlocker, NoBlock
<1>4. CASE DropSets(b)
  BY <1>2, <1>4 DEF DropSets, SetFresh
<1>5. CASE BlockerStops(b)
  BY <1>5 DEF BlockerStops, SetFresh
<1> QED BY <1>3, <1>4, <1>5 DEF BlockerStep

LEMMA SetStep == ASSUME CacheTypeOK, [CacheNext]_cacheVars, SetFresh PROVE SetFresh'
<1>1. ASSUME NEW r \in Routers, RouterStep(r) \/ RouterStops(r) \/ \E p \in Others : GetPair(r, p)
      PROVE  SetFresh'
  <2>1. UNCHANGED <<blockRows, setCache, filler, blocker, staleSet>>
    BY <1>1 DEF RouterStep, QueryPair, SetPair, RouterStops, GetPair, stale
  <2> QED BY <2>1, RowsKept DEF SetFresh, NoBlocker, LateMembers
<1>2. ASSUME NEW b \in Blockers, NEW o \in Others, NEW row \in Rows,
             Block(b, row, o) \/ Unblock(b, row, o)
      PROVE  SetFresh'
  <2>1. blocker'[b].step = "dropPair"
    BY <1>2 DEF Block, Unblock, Change, CacheTypeOK
  <2> QED BY <2>1 DEF SetFresh, NoBlocker, NoBlock
<1>3. ASSUME NEW row \in Rows, BlockStranger(row) PROVE SetFresh'
  <2>1. CASE BlockedOthers' = BlockedOthers
    <3>1. UNCHANGED <<setCache, filler, blocker>> /\ (staleSet' <=> staleSet)
      BY <1>3, <2>1 DEF BlockStranger, requestVars
    <3>2. LateMembers' <=> LateMembers
      BY <2>1, <3>1 DEF LateMembers
    <3> QED BY <2>1, <3>1, <3>2 DEF SetFresh, NoBlocker
  <2>2. CASE BlockedOthers' # BlockedOthers
    BY <1>3, <2>2 DEF BlockStranger, SetFresh
  <2> QED BY <2>1, <2>2
<1>4. CASE SetExpires
  <2>1. UNCHANGED <<blockRows, filler, blocker>> /\ setCache' = {} /\ (staleSet' <=> staleSet /\ LateMembers)
    BY <1>4 DEF SetExpires, requestVars
  <2>2. BlockedOthers' = BlockedOthers /\ (LateMembers' <=> LateMembers) /\ (NoBlocker' <=> NoBlocker)
    BY <2>1, RowsKept DEF LateMembers, NoBlocker
  <2> QED BY <2>1, <2>2 DEF SetFresh
<1>5. CASE (\E o \in Others : PairExpires(o)) \/ UNCHANGED cacheVars
  <2>1. UNCHANGED <<blockRows, setCache, filler, blocker, staleSet>>
    BY <1>5 DEF PairExpires, requestVars, cacheVars, stale
  <2> QED BY <2>1, RowsKept DEF SetFresh, NoBlocker, LateMembers
<1> QED BY <1>1, <1>2, <1>3, <1>4, <1>5, SetFiller, SetBlocker DEF CacheNext

CachesInv == CacheTypeOK /\ (\A o \in Others : PairFresh(o)) /\ SetFresh

LEMMA CachesInvHolds == CacheSpec => []CachesInv
<1>1. CacheInit => CachesInv
  <2> SUFFICES ASSUME CacheInit PROVE CachesInv
    OBVIOUS
  <2>1. \A o \in Others : PairFresh(o)
    BY DEF CacheInit, PairFresh, LateAnswer, NoLookUp
  <2>2. SetFresh
    BY DEF CacheInit, SetFresh, LateMembers, NoFill
  <2> QED BY <2>1, <2>2, CacheTypeInit DEF CachesInv
<1>2. CachesInv /\ [CacheNext]_cacheVars => CachesInv'
  <2> SUFFICES ASSUME CachesInv, [CacheNext]_cacheVars PROVE CachesInv'
    OBVIOUS
  <2>1. CacheTypeOK'
    BY CacheTypeStep DEF CachesInv
  <2>2. ASSUME NEW o \in Others PROVE PairFresh(o)'
    BY PairStep DEF CachesInv
  <2>3. SetFresh'
    BY SetStep DEF CachesInv
  <2> QED BY <2>1, <2>2, <2>3 DEF CachesInv
<1> QED BY <1>1, <1>2, PTL DEF CacheSpec

(* For any number of look-ups and of blocks and unblocks under way: once a pair is
   deleted, the router finds no older answer in the cache, unless a look-up held
   one at the deletion, the deletion failed, or nothing asked for it. *)
THEOREM PairsStayFresh == CacheSpec => []PairAgrees
<1>1. CachesInv => PairAgrees
  BY DEF CachesInv, PairFresh, PairAgrees, Dropping
<1> QED BY <1>1, CachesInvHolds, PTL

(* So is the set absent or whole, when nobody is about to delete it, unless members
   were read before the deletion or in part. *)
THEOREM SetStaysFresh == CacheSpec => []SetAgrees
<1>1. CachesInv => SetAgrees
  BY DEF CachesInv, SetFresh, SetAgrees, NoBlocker
<1> QED BY <1>1, CachesInvHolds, PTL
=============================================================================
