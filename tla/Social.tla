-------------------------------- MODULE Social --------------------------------
(***************************************************************************)
(* Friend requests, friendships, blocks and direct messages                *)
(* (handlers/friends.go, rooms.go, dm_requests.go), and the friend, skip   *)
(* and block actions of a chat with a stranger (handlers/match.go), which  *)
(* write the same rows.                                                    *)
(*                                                                         *)
(* A handler takes one step per statement or transaction; a transaction    *)
(* that reads and then writes takes two, and the locks that its statements *)
(* hold make others wait.  Lists, pages, pushes and events are left out,   *)
(* and so are the caches of the lists.                                     *)
(***************************************************************************)
EXTENDS Integers, FiniteSets

CONSTANTS Users, Paid,             \* Paid: users over the donation threshold
          Handlers,                \* requests that can be under way at once
          MaxChats,                \* rooms of strangers, known by their ids
          MaxRooms, MaxRequests    \* bounds

ASSUME SocialUsers  == IsFiniteSet(Users) /\ Paid \subseteq Users
ASSUME SocialBounds == MaxChats \in Nat /\ MaxRooms \in Nat /\ MaxRequests \in Nat

VARIABLES
  request,     \* friend_requests, by sender and receiver
  friends,     \* friendships: a set of pairs
  blocks,      \* blocked_users: <<blocker, blocked>>
  isPrivate,
  rooms, made, \* DM rooms with the status of their members; how many were made
  marks,       \* friend_req:<room>:<user> in Redis, each with whom it was set for
  job,         \* the handlers
  asked,       \* history: <<u, v>> when u has asked for v, or accepted v, and this was not
               \* withdrawn, rejected, skipped or ended by a removal since
  raced,       \* history: pairs for which this happened next to an unfinished request, or
               \* whose removal was left half done
  outlived,    \* history: pairs for which it happened when a mark was left in Redis
  mistaken,    \* history: pairs of whom one took a mark that the other had set for a third
  roomless,    \* history: friends whose room was deleted, or not made after an error
  requests

rows   == <<request, friends, blocks, isPrivate>>
chats  == <<rooms, made>>
wishes == <<asked, raced, outlived, mistaken>>
vars   == <<rows, chats, marks, job, wishes, roomless, requests>>

Pairs  == {p \in SUBSET Users : Cardinality(p) = 2}
Orders == {p \in Users \X Users : p[1] # p[2]}
Chats  == 1..MaxChats
NoRow  == [status |-> "none", id |-> 0, chat |-> 0]
Idle   == [step |-> "idle", user |-> {}, other |-> {}, call |-> 0, id |-> 0,
           room |-> 0, chat |-> 0, flag |-> FALSE]

Steps == {"reverse", "write", "accept", "commit", "cleanup", "row", "check", "both",
          "befriend", "open", "unmark", "unask", "dmlock", "dmwrite", "delroom"}

MembersOf(r) == {u \in Users : rooms[r][u] # "none"}

TypeOK ==
  /\ request \in [Orders -> [status : {"none", "pending", "accepted", "rejected"},
                             id : 0..MaxRequests, chat : 0..MaxChats]]
  /\ \A p, q \in Orders : p # q /\ request[p].id = request[q].id => request[p] = NoRow
  /\ friends \subseteq Pairs /\ blocks \subseteq Orders /\ marks \subseteq Chats \X Orders
  /\ isPrivate \in [Users -> BOOLEAN]
  /\ made \in 0..MaxRooms
  /\ rooms \in [1..made -> [Users -> {"none", "active", "pending"}]]
  /\ \A r \in 1..made : MembersOf(r) # {} => /\ MembersOf(r) \in Pairs
                                            /\ \E u \in Users : rooms[r][u] = "active"
  /\ \A h \in Handlers :
       \/ job[h] = Idle
       \/ /\ job[h].step \in Steps
          /\ <<job[h].user, job[h].other>> \in Orders
          /\ job[h].call \in 1..MaxRequests /\ job[h].id \in 0..MaxRequests
          /\ job[h].room \in 0..made /\ job[h].chat \in 0..MaxChats
          /\ job[h].flag \in BOOLEAN
  /\ asked \subseteq Orders
  /\ raced \subseteq Pairs /\ outlived \subseteq Pairs /\ mistaken \subseteq Pairs
  /\ roomless \subseteq Pairs
  /\ requests \in 0..MaxRequests

Init ==
  /\ request = [p \in Orders |-> NoRow]
  /\ friends = {} /\ blocks = {} /\ marks = {}
  /\ isPrivate = [u \in Users |-> FALSE]       \* the default of the column
  /\ rooms = <<>> /\ made = 0
  /\ job = [h \in Handlers |-> Idle]
  /\ asked = {} /\ raced = {} /\ outlived = {} /\ mistaken = {} /\ roomless = {}
  /\ requests = 0

-----------------------------------------------------------------------------
(* Helpers *)

Blocked(u, v) == <<u, v>> \in blocks \/ <<v, u>> \in blocks
Pair(h)       == {job[h].user, job[h].other}
Mine(h)       == <<job[h].user, job[h].other>>
Theirs(h)     == <<job[h].other, job[h].user>>
Pending(p)    == request[p].status = "pending"
DMRooms(p)    == {r \in 1..made : MembersOf(r) = p}
CanTalk(p)    == \E r \in DMRooms(p) : \A u \in p : rooms[r][u] = "active"

Count == requests < MaxRequests /\ requests' = requests + 1

(* A request that is one statement. *)
AtOnce == Count /\ UNCHANGED job

(* A handler h of user u about user v that has made its first step. *)
Begin(h, u, v, step, id, room, chat) ==
  /\ job[h] = Idle /\ u # v /\ Count
  /\ job' = [job EXCEPT ![h] = [step |-> step, user |-> u, other |-> v, call |-> requests',
                                id |-> id, room |-> room, chat |-> chat, flag |-> FALSE]]

At(h, step)   == job[h].step = step /\ UNCHANGED requests
Goto(h, step) == job' = [job EXCEPT ![h].step = step]
Done(h)       == job' = [job EXCEPT ![h] = Idle]

(* Locks: an accepting transaction holds the row of the request, and the key of a
   friendship that it inserts; a DM being made holds the row of its target. *)
Unlocked(p) == \A h \in Handlers :
                 job[h].step = "commit" /\ request[p] # NoRow => job[h].id # request[p].id
FreeKey(p)  == \A h \in Handlers : ~(job[h].step = "commit" /\ job[h].flag /\ Pair(h) = p)
FreeUser(u) == \A h \in Handlers : ~(job[h].step = "dmwrite" /\ job[h].other = u)

(* The keys of the marks: room and user.  No handler sees for whom one was set. *)
HasKey(c, u)    == \E q \in Orders : q[1] = u /\ <<c, q>> \in marks
DelKeys(c, S)   == marks' = {m \in marks : ~(m[1] = c /\ m[2][1] \in S)}
Marked(q)       == \E c \in Chats : <<c, q>> \in marks

(* History.  A handler that may still make a request pending or a friendship. *)
Asking(h)   == job[h].step \in Steps \ {"open", "dmlock", "dmwrite", "delroom"}
Wish(u, v)  == asked' = asked \union {<<u, v>>} /\ UNCHANGED <<raced, outlived, mistaken>>
Unwish(S, others) ==
  /\ asked'    = asked \ S
  /\ raced'    = raced \union {p \in Pairs : \E q \in S, h \in others :
                                 {q[1], q[2]} = p /\ Asking(h) /\ Pair(h) = p}
  /\ outlived' = outlived \union {p \in Pairs : \E q \in S : Marked(q) /\ {q[1], q[2]} = p}
  /\ UNCHANGED mistaken

NewRoom(status) == /\ made < MaxRooms
                   /\ made' = made + 1
                   /\ rooms' = [r \in 1..made' |-> IF r \in 1..made THEN rooms[r] ELSE status]

Both(p, s) == [u \in Users |-> IF u \in p THEN s ELSE "none"]

-----------------------------------------------------------------------------
(* Friend requests *)

SendFriendRequest(h, u, v) ==
  /\ ~Blocked(u, v) /\ {u, v} \notin friends
  /\ Begin(h, u, v, "reverse", 0, 0, 0)
  /\ Wish(u, v)
  /\ UNCHANGED <<rows, chats, marks, roomless>>

(* Mutant of LookReverse: any request of the other counts, rejected or not. *)
LookReverseAny(h) ==
  /\ At(h, "reverse")
  /\ IF request[Theirs(h)] # NoRow
       THEN job' = [job EXCEPT ![h].step = "accept", ![h].id = request[Theirs(h)].id]
       ELSE Goto(h, "write")
  /\ UNCHANGED <<rows, chats, marks, wishes, roomless>>

LookReverse(h) ==
  /\ At(h, "reverse")
  /\ IF Pending(Theirs(h))
       THEN job' = [job EXCEPT ![h].step = "accept", ![h].id = request[Theirs(h)].id]
       ELSE Goto(h, "write")
  /\ UNCHANGED <<rows, chats, marks, wishes, roomless>>

(* INSERT ... ON CONFLICT DO UPDATE SET status = 'pending' *)
Ask(h, chat) ==
  /\ Unlocked(Mine(h))
  /\ request' = [request EXCEPT ![Mine(h)] =
                   [status |-> "pending", chat |-> chat,
                    id |-> IF @ = NoRow THEN job[h].call ELSE @.id]]

UpsertRequest(h) ==
  /\ At(h, "write")
  /\ Ask(h, request[Mine(h)].chat)
  /\ Done(h)
  /\ UNCHANGED <<friends, blocks, isPrivate, chats, marks, wishes, roomless>>

AcceptFriendRequest(h, u, v) ==
  /\ u # v /\ Pending(<<v, u>>)
  /\ Begin(h, u, v, "accept", request[<<v, u>>].id, 0, 0)
  /\ Wish(u, v)
  /\ UNCHANGED <<rows, chats, marks, roomless>>

(* acceptFriendship, up to the room: LIMIT 1 takes any *)
LookForRoom(h) ==
  LET found == DMRooms(Pair(h)) IN
  /\ At(h, "accept")
  /\ \A g \in Handlers : job[g].step = "commit" => job[g].id # job[h].id
  /\ FreeKey(Pair(h))
  /\ \E r \in IF found = {} THEN {0} ELSE found :
       job' = [job EXCEPT ![h].step = "commit", ![h].room = r,
                          ![h].flag = Pair(h) \notin friends]
  /\ UNCHANGED <<rows, chats, marks, wishes, roomless>>

(* Mutant of ActivateRoom: only the one who accepts becomes active. *)
ActivateOne(h) == rooms' = [rooms EXCEPT ![job[h].room][job[h].user] = "active"]

ActivateRoom(h) == rooms' = [rooms EXCEPT ![job[h].room] = Both(Pair(h), "active")]

CommitFriendship(h) ==
  /\ At(h, "commit")
  /\ request' = [p \in Orders |-> IF request[p] # NoRow /\ request[p].id = job[h].id
                                    THEN [request[p] EXCEPT !.status = "accepted"]
                                    ELSE request[p]]
  /\ friends' = IF job[h].flag THEN friends \union {Pair(h)} ELSE friends
  /\ \/ job[h].room = 0 /\ NewRoom(Both(Pair(h), "active"))
     \/ job[h].room \in DMRooms(Pair(h)) /\ ActivateRoom(h) /\ UNCHANGED made
     \/ job[h].room # 0 /\ job[h].room \notin DMRooms(Pair(h)) /\ UNCHANGED chats
  /\ Done(h)
  /\ UNCHANGED <<blocks, isPrivate, marks, wishes, roomless>>

WithdrawFriendRequest(u, v) ==
  /\ Pending(<<u, v>>) /\ Unlocked(<<u, v>>) /\ AtOnce
  /\ request' = [request EXCEPT ![<<u, v>>] = NoRow]
  /\ Unwish({<<u, v>>}, Handlers)
  /\ UNCHANGED <<friends, blocks, isPrivate, chats, marks, roomless>>

RejectFriendRequest(u, v) ==
  /\ Pending(<<v, u>>) /\ Unlocked(<<v, u>>) /\ AtOnce
  /\ request' = [request EXCEPT ![<<v, u>>].status = "rejected"]
  /\ Unwish({<<v, u>>}, Handlers)
  /\ UNCHANGED <<friends, blocks, isPrivate, chats, marks, roomless>>

RemoveFriend(h, u, v) ==
  /\ {u, v} \in friends
  /\ Begin(h, u, v, "cleanup", 0, 0, 0)
  /\ friends' = friends \ {{u, v}}
  /\ UNCHANGED <<request, blocks, isPrivate, chats, marks, wishes, roomless>>

CleanUp(h) ==
  /\ At(h, "cleanup")
  /\ Unlocked(Mine(h)) /\ Unlocked(Theirs(h))
  /\ request' = [request EXCEPT ![Mine(h)] = NoRow, ![Theirs(h)] = NoRow]
  /\ Unwish({Mine(h), Theirs(h)}, Handlers \ {h})
  /\ Done(h)
  /\ UNCHANGED <<friends, blocks, isPrivate, chats, marks, roomless>>

BlockUser(u, v) ==
  /\ AtOnce
  /\ blocks' = blocks \union {<<u, v>>}
  /\ UNCHANGED <<request, friends, isPrivate, chats, marks, wishes, roomless>>

UnblockUser(u, v) ==
  /\ <<u, v>> \in blocks /\ AtOnce
  /\ blocks' = blocks \ {<<u, v>>}
  /\ UNCHANGED <<request, friends, isPrivate, chats, marks, wishes, roomless>>

-----------------------------------------------------------------------------
(* Strangers (MatchActionHandler).  The caller names the room and is not looked up in
   it.  His partner is another member of the room or, as stranger_members is deleted
   when a chat ends, whoever he names: any user, room and partner come together. *)

MarkFriend(h, u, v, c) ==
  /\ Begin(h, u, v, "row", 0, 0, c)
  /\ marks' = marks \union {<<c, <<u, v>>>>}
  /\ Wish(u, v)
  /\ UNCHANGED <<rows, chats, roomless>>

UpsertStranger(h) ==
  /\ At(h, "row")
  /\ Ask(h, job[h].chat)
  /\ Goto(h, "check")
  /\ UNCHANGED <<friends, blocks, isPrivate, chats, marks, wishes, roomless>>

(* The mark of the partner in this room is taken for one that he set for the caller. *)
CheckPartner(h) ==
  LET c     == job[h].chat
      found == HasKey(c, job[h].other)
  IN  /\ At(h, "check")
      /\ IF found \/ Pending(Theirs(h)) THEN Goto(h, "both") /\ DelKeys(c, Pair(h))
                                       ELSE Done(h) /\ UNCHANGED marks
      /\ mistaken' = IF found /\ <<c, Theirs(h)>> \notin marks /\ ~Pending(Theirs(h))
                       THEN mistaken \union {Pair(h)} ELSE mistaken
      /\ UNCHANGED <<rows, chats, asked, raced, outlived, roomless>>

AcceptBoth(h) ==
  /\ At(h, "both")
  /\ Unlocked(Mine(h)) /\ Unlocked(Theirs(h))
  /\ request' = [p \in Orders |-> IF p \in {Mine(h), Theirs(h)} /\ request[p] # NoRow
                                    THEN [request[p] EXCEPT !.status = "accepted"]
                                    ELSE request[p]]
  /\ Goto(h, "befriend")
  /\ UNCHANGED <<friends, blocks, isPrivate, chats, marks, wishes, roomless>>

InsertFriendship(h) ==
  /\ At(h, "befriend")
  /\ FreeKey(Pair(h))
  /\ friends' = friends \union {Pair(h)}
  /\ Goto(h, "open")
  /\ UNCHANGED <<request, blocks, isPrivate, chats, marks, wishes, roomless>>

OpenRoom(h) ==
  /\ At(h, "open")
  /\ NewRoom(Both(Pair(h), "active"))
  /\ Done(h)
  /\ UNCHANGED <<rows, marks, wishes, roomless>>

(* The actions skip and block *)
LeaveStranger(h, u, v, c) ==
  /\ Begin(h, u, v, "unmark", 0, 0, c)
  /\ blocks' \in {blocks, blocks \union {<<u, v>>}}
  /\ UNCHANGED <<request, friends, isPrivate, chats, marks, wishes, roomless>>

Unmark(h) ==
  /\ At(h, "unmark")
  /\ DelKeys(job[h].chat, Pair(h))
  /\ Goto(h, "unask")
  /\ UNCHANGED <<rows, chats, wishes, roomless>>

(* DELETE ... WHERE stranger_room_id = the room of the chat *)
DeleteStrangerRows(h) ==
  LET gone == {p \in {Mine(h), Theirs(h)} : request[p].chat = job[h].chat} IN
  /\ At(h, "unask")
  /\ \A p \in gone : Unlocked(p)
  /\ request' = [p \in Orders |-> IF p \in gone THEN NoRow ELSE request[p]]
  /\ Unwish(gone, Handlers \ {h})
  /\ Done(h)
  /\ UNCHANGED <<friends, blocks, isPrivate, chats, marks, roomless>>

ExpireMark(c, u) ==
  /\ HasKey(c, u)
  /\ DelKeys(c, {u})
  /\ UNCHANGED <<rows, chats, job, wishes, roomless, requests>>

(* A statement whose error is only logged *)
LoseStatement(h) ==
  /\ \/ At(h, "row") /\ Goto(h, "check")
     \/ At(h, "both") /\ Goto(h, "befriend")
     \/ At(h, "befriend") /\ Goto(h, "open")
  /\ UNCHANGED <<rows, chats, marks, wishes, roomless>>

-----------------------------------------------------------------------------
(* Direct messages *)

(* Mutant of SetPrivate: the profile is changed while a DM is being made. *)
SetPrivateAnytime(u) ==
  /\ AtOnce
  /\ isPrivate' = [isPrivate EXCEPT ![u] = ~@]
  /\ UNCHANGED <<request, friends, blocks, chats, marks, wishes, roomless>>

SetPrivate(u) ==
  /\ FreeUser(u) /\ AtOnce
  /\ isPrivate' = [isPrivate EXCEPT ![u] = ~@]
  /\ UNCHANGED <<request, friends, blocks, chats, marks, wishes, roomless>>

CreateDM(h, u, v) ==
  /\ ~Blocked(u, v) /\ DMRooms({u, v}) = {}
  /\ Begin(h, u, v, "dmlock", 0, 0, 0)
  /\ UNCHANGED <<rows, chats, marks, wishes, roomless>>

LockTarget(h) ==
  LET areFriends == Pair(h) \in friends IN
  /\ At(h, "dmlock")
  /\ FreeUser(job[h].other)
  /\ IF ~areFriends /\ isPrivate[job[h].other] /\ job[h].user \notin Paid
       THEN Done(h)
       ELSE job' = [job EXCEPT ![h].step = "dmwrite", ![h].flag = areFriends]
  /\ UNCHANGED <<rows, chats, marks, wishes, roomless>>

InsertDM(h) ==
  /\ At(h, "dmwrite")
  /\ NewRoom([Both(Pair(h), "active")
                EXCEPT ![job[h].other] = IF job[h].flag THEN "active" ELSE "pending"])
  /\ Done(h)
  /\ UNCHANGED <<rows, marks, wishes, roomless>>

AcceptDMRequest(u, r) ==
  /\ rooms[r][u] = "pending" /\ AtOnce
  /\ rooms' = [rooms EXCEPT ![r][u] = "active"]
  /\ UNCHANGED <<rows, made, marks, wishes, roomless>>

RejectDMRequest(h, u, v, r) ==
  /\ rooms[r][u] = "pending" /\ v \in MembersOf(r)
  /\ Begin(h, u, v, "delroom", 0, r, 0)
  /\ UNCHANGED <<rows, chats, marks, wishes, roomless>>

(* Whatever the status is now *)
DeleteRoom(h) ==
  LET r == job[h].room IN
  /\ At(h, "delroom")
  /\ rooms' = [rooms EXCEPT ![r] = Both({}, "none")]
  /\ roomless' = IF \/ \A u \in Pair(h) : rooms[r][u] = "active"
                    \/ \E g \in Handlers : job[g].step = "commit" /\ job[g].room = r
                   THEN roomless \union {Pair(h)} ELSE roomless
  /\ Done(h)
  /\ UNCHANGED <<rows, made, marks, wishes>>

(* An error, or a crash of the server *)
GiveUp(h) ==
  /\ job[h] # Idle
  /\ raced'    = IF job[h].step = "cleanup" THEN raced \union {Pair(h)} ELSE raced
  /\ roomless' = IF job[h].step = "open" THEN roomless \union {Pair(h)} ELSE roomless
  /\ Done(h)
  /\ UNCHANGED <<rows, chats, marks, asked, outlived, mistaken, requests>>

-----------------------------------------------------------------------------
Start(u, v) ==
  \/ WithdrawFriendRequest(u, v) \/ RejectFriendRequest(u, v)
  \/ BlockUser(u, v) \/ UnblockUser(u, v)
  \/ \E h \in Handlers :
       \/ SendFriendRequest(h, u, v) \/ AcceptFriendRequest(h, u, v) \/ RemoveFriend(h, u, v)
       \/ \E c \in Chats : MarkFriend(h, u, v, c) \/ LeaveStranger(h, u, v, c)
       \/ CreateDM(h, u, v)
       \/ \E r \in 1..made : RejectDMRequest(h, u, v, r)

Handle(h) ==
  \/ LookReverse(h) \/ UpsertRequest(h) \/ LookForRoom(h) \/ CommitFriendship(h) \/ CleanUp(h)
  \/ UpsertStranger(h) \/ CheckPartner(h) \/ AcceptBoth(h) \/ InsertFriendship(h) \/ OpenRoom(h)
  \/ Unmark(h) \/ DeleteStrangerRows(h) \/ LoseStatement(h)
  \/ LockTarget(h) \/ InsertDM(h) \/ DeleteRoom(h) \/ GiveUp(h)

Next == \/ \E p \in Orders : Start(p[1], p[2])
        \/ \E c \in Chats, u \in Users : ExpireMark(c, u)
        \/ \E u \in Users : SetPrivate(u) \/ \E r \in 1..made : AcceptDMRequest(u, r)
        \/ \E h \in Handlers : Handle(h)

Spec == Init /\ [][Next]_vars

-----------------------------------------------------------------------------
(* Two users become friends only if each of them has asked for it or accepted,
   after the end of an earlier friendship and not withdrawn or rejected since.
   Not covered: requests that were under way at such a moment, a removal left
   half done, a mark that was left in Redis, and one that its owner had set for
   somebody else: its key does not say for whom (match.go:297). *)
BothWanted ==
  [][\A p \in friends' \ friends :
       \/ p \in raced \union outlived \union mistaken
       \/ \A q \in Orders : {q[1], q[2]} = p => q \in asked]_vars

(* Friends have a room in which both are active, also when one of them had a
   message request of the other open; unless the room was being rejected in that
   moment, or could not be made. *)
FriendsCanTalk ==
  \A p \in friends : \/ CanTalk(p) \/ p \in roomless
                     \/ \E h \in Handlers : job[h].step = "open" /\ Pair(h) = p

(* While a profile is private, nobody but a friend or a paying user opens a
   message request to it, also when it has just become private. *)
PrivateNotContacted ==
  [][\A h \in Handlers : InsertDM(h) /\ isPrivate[job[h].other] =>
       job[h].flag \/ job[h].user \in Paid]_vars
=============================================================================
