----------------------------- MODULE Connections -----------------------------
(***************************************************************************)
(* The registry of WebSocket connections of one server (chat/engine.go,    *)
(* ServeWs and readPump of chat/client.go) and the HTTP handlers that      *)
(* change memberships and then subscribe or unsubscribe the user's         *)
(* connections (handlers/groups.go, dm_requests.go).                       *)
(*                                                                         *)
(* One step is one critical section (userMu or a room's shard), one query  *)
(* or one closing of a channel.  Registration and clean-up run in the      *)
(* connection's goroutine, one after the other; handlers run in their own. *)
(* Not modelled: what is sent on the connections, the connection limit,    *)
(* and the pool tasks that follow the first and the last device.           *)
(***************************************************************************)
EXTENDS Naturals, FiniteSets

CONSTANTS Users, Clients, UserOf, Rooms,
          InitialMembers,    \* active rows of room_members at the start
          Changes,           \* membership handlers that run: [id, op, user, room]
          MaxQueryFaults     \* bound

Pairs == Users \X Rooms
Ops   == {"add", "remove", "invite", "delete"}

ASSUME ClientsType == UserOf \in [Clients -> Users]
ASSUME MembersType == InitialMembers \subseteq Pairs
ASSUME ChangesType == \A h \in Changes : h.op \in Ops /\ h.user \in Users /\ h.room \in Rooms
ASSUME FaultsType  == MaxQueryFaults \in Nat

VARIABLES
  active,     \* room_members with status 'active'
  users,      \* Engine.users
  rooms,      \* shard.rooms
  joined,     \* Client.JoinedRooms
  closed,     \* clients whose Send channel is closed
  conn,       \* goroutine of a connection: its step, and the rooms left to do
  change,     \* membership handler: its step, and the clients it has still to treat
  failed,     \* history: clients whose query of their rooms failed
  raced,      \* history: <<client, room>> whose membership ended while it was joining
  untold,     \* history: <<client, room>> whose membership changed without a word
              \* to the client, or that was closed for it while the membership stayed
  late        \* history: <<client, room>> joined after the client left users

vars == <<active, users, rooms, joined, closed, conn, change, failed, raced, untold, late>>

ConnSteps   == {"new", "query", "join", "open", "leaving", "gone"}
ChangeSteps == {"new", "find", "apply", "deleteRoom", "done"}

TypeOK ==
  /\ active \subseteq Pairs
  /\ users  \in [Users -> SUBSET Clients]
  /\ rooms  \in [Rooms -> SUBSET Clients]
  /\ joined \in [Clients -> SUBSET Rooms]
  /\ closed \subseteq Clients
  /\ conn   \in [Clients -> [step : ConnSteps, todo : SUBSET Rooms]]
  /\ change \in [Changes -> [step : ChangeSteps, targets : SUBSET Clients]]
  /\ \A c \in Clients : conn[c].todo # {} => conn[c].step \in {"join", "leaving"}
  /\ \A h \in Changes : change[h].targets # {} <=> change[h].step = "apply"
  /\ failed \subseteq Clients
  /\ raced  \subseteq Clients \X Rooms
  /\ untold \subseteq Clients \X Rooms
  /\ late   \subseteq Clients \X Rooms

Init ==
  /\ active = InitialMembers
  /\ users  = [u \in Users |-> {}]
  /\ rooms  = [r \in Rooms |-> {}]
  /\ joined = [c \in Clients |-> {}]
  /\ closed = {}
  /\ conn   = [c \in Clients |-> [step |-> "new", todo |-> {}]]
  /\ change = [h \in Changes |-> [step |-> "new", targets |-> {}]]
  /\ failed = {} /\ raced = {} /\ untold = {} /\ late = {}

-----------------------------------------------------------------------------
(* Operations under the lock of the room's shard *)

JoinRoom(c, r) == /\ joined' = [joined EXCEPT ![c] = @ \union {r}]
                  /\ rooms'  = [rooms  EXCEPT ![r] = @ \union {c}]

LeaveRoom(c, r) == /\ joined' = [joined EXCEPT ![c] = @ \ {r}]
                   /\ rooms'  = [rooms  EXCEPT ![r] = @ \ {c}]

(* Mutant of CloseRoom: the clients keep the room in JoinedRooms. *)
CloseRoomShardOnly(r) == /\ rooms' = [rooms EXCEPT ![r] = {}]
                         /\ UNCHANGED joined

(* Nothing happens when no client is in the room. *)
CloseRoom(r) == /\ joined' = [c \in Clients |-> IF c \in rooms[r] THEN joined[c] \ {r}
                                                                  ELSE joined[c]]
                /\ rooms'  = [rooms EXCEPT ![r] = {}]

-----------------------------------------------------------------------------
(* Register *)

At(c, step) == conn[c].step = step
Go(c, step, todo) == conn' = [conn EXCEPT ![c] = [step |-> step, todo |-> todo]]

AddToUsers(c) ==
  /\ At(c, "new")
  /\ users' = [users EXCEPT ![UserOf[c]] = @ \union {c}]
  /\ Go(c, "query", {})
  /\ UNCHANGED <<active, rooms, joined, closed, change, failed, raced, untold, late>>

(* getUserActiveRoomIDs; an error counts as no room. *)
QueryRooms(c) ==
  /\ At(c, "query")
  /\ \/ /\ Go(c, "join", {r \in Rooms : <<UserOf[c], r>> \in active})
        /\ UNCHANGED failed
     \/ /\ Cardinality(failed) < MaxQueryFaults
        /\ failed' = failed \union {c}
        /\ Go(c, "join", {})
  /\ UNCHANGED <<active, users, rooms, joined, closed, change, raced, untold, late>>

JoinNext(c, r) ==
  /\ At(c, "join") /\ r \in conn[c].todo
  /\ JoinRoom(c, r)
  /\ Go(c, "join", conn[c].todo \ {r})
  /\ UNCHANGED <<active, users, closed, change, failed, raced, untold, late>>

(* Close of the channel ready: readPump begins. *)
Ready(c) ==
  /\ At(c, "join") /\ conn[c].todo = {}
  /\ Go(c, "open", {})
  /\ UNCHANGED <<active, users, rooms, joined, closed, change, failed, raced, untold, late>>

-----------------------------------------------------------------------------
(* Unregister, when readPump ends *)

RemoveFromUsers(c) ==
  /\ At(c, "open")
  /\ users' = [users EXCEPT ![UserOf[c]] = @ \ {c}]
  /\ Go(c, "leaving", joined[c])
  /\ UNCHANGED <<active, rooms, joined, closed, change, failed, raced, untold, late>>

(* JoinedRooms itself is left as it is. *)
LeaveNext(c, r) ==
  /\ At(c, "leaving") /\ r \in conn[c].todo
  /\ rooms' = [rooms EXCEPT ![r] = @ \ {c}]
  /\ Go(c, "leaving", conn[c].todo \ {r})
  /\ UNCHANGED <<active, users, joined, closed, change, failed, raced, untold, late>>

(* Mutant of CloseSend: the channel is closed before the rooms are left. *)
CloseSendFirst(c) ==
  /\ At(c, "leaving")
  /\ closed' = closed \union {c}
  /\ Go(c, "gone", {})
  /\ UNCHANGED <<active, users, rooms, joined, change, failed, raced, untold, late>>

CloseSend(c) ==
  /\ At(c, "leaving") /\ conn[c].todo = {}
  /\ closed' = closed \union {c}
  /\ Go(c, "gone", {})
  /\ UNCHANGED <<active, users, rooms, joined, change, failed, raced, untold, late>>

-----------------------------------------------------------------------------
(* Membership handlers *)

ChangeAt(h, step) == change[h].step = step
Proceed(h, step, targets) ==
  change' = [change EXCEPT ![h] = [step |-> step, targets |-> targets]]

(* Another handler is at work on a membership of the same room. *)
Concurrent(h) == \E g \in Changes \ {h} : /\ g.room = h.room
                                          /\ ~ChangeAt(g, "new") /\ ~ChangeAt(g, "done")
OfUser(u) == {c \in Clients : UserOf[c] = u}

(* The statement ran, but its answer was lost: the handler returns, and the user's
   connections are told nothing.  A statement that fails without effect leaves
   everything as if the request had not been made. *)
AnswerLost(h) == /\ Proceed(h, "done", {})
                 /\ untold' = untold \union (users[h.user] \X {h.room})

(* Rejoining and accepting are upserts to 'active'. *)
CommitAdd(h) ==
  /\ h.op = "add" /\ ChangeAt(h, "new")
  /\ active' = active \union {<<h.user, h.room>>}
  /\ raced'  = IF Concurrent(h) THEN raced \union (Clients \X {h.room}) ELSE raced
  /\ (Proceed(h, "find", {}) /\ UNCHANGED untold) \/ AnswerLost(h)
  /\ UNCHANGED <<users, rooms, joined, closed, conn, failed, late>>

(* An admin may remove somebody who is no member: no row changes then. *)
CommitRemove(h) ==
  LET joining == {c \in OfUser(h.user) : At(c, "join")} IN
  /\ h.op = "remove" /\ ChangeAt(h, "new")
  /\ active' = active \ {<<h.user, h.room>>}
  /\ raced'  = raced \union ((IF Concurrent(h) THEN Clients ELSE joining) \X {h.room})
  /\ (Proceed(h, "find", {}) /\ UNCHANGED untold) \/ AnswerLost(h)
  /\ UNCHANGED <<users, rooms, joined, closed, conn, failed, late>>

(* AddGroupMembers makes a private non-friend 'invited', an active member too,
   and unsubscribes nobody. *)
CommitInvite(h) ==
  /\ h.op = "invite" /\ ChangeAt(h, "new")
  /\ active' = active \ {<<h.user, h.room>>}
  /\ raced'  = IF Concurrent(h) THEN raced \union (Clients \X {h.room}) ELSE raced
  /\ untold' = untold \union (users[h.user] \X {h.room})
  /\ Proceed(h, "done", {})
  /\ UNCHANGED <<users, rooms, joined, closed, conn, failed, late>>

(* JoinRoomForUser, LeaveRoomForUser: the user's clients are copied ... *)
FindClients(h) ==
  /\ ChangeAt(h, "find")
  /\ Proceed(h, IF users[h.user] = {} THEN "done" ELSE "apply", users[h.user])
  /\ UNCHANGED <<active, users, rooms, joined, closed, conn, failed, raced, untold, late>>

(* Mutant of Treated: the loop ends after the user's first client. *)
TreatedFirstOnly(h, c) == Proceed(h, "done", {})

Treated(h, c) ==
  LET left == change[h].targets \ {c} IN
  Proceed(h, IF left = {} THEN "done" ELSE "apply", left)

(* ... and treated one by one.  A Range under way may or may not see a room
   that is joined meanwhile. *)
ApplyAdd(h, c) ==
  /\ h.op = "add" /\ ChangeAt(h, "apply") /\ c \in change[h].targets
  /\ JoinRoom(c, h.room)
  /\ late' = IF c \in users[UserOf[c]] THEN late ELSE late \union {<<c, h.room>>}
  /\ \/ UNCHANGED conn
     \/ At(c, "leaving") /\ Go(c, "leaving", conn[c].todo \union {h.room})
  /\ Treated(h, c)
  /\ UNCHANGED <<active, users, closed, failed, raced, untold>>

ApplyRemove(h, c) ==
  /\ h.op = "remove" /\ ChangeAt(h, "apply") /\ c \in change[h].targets
  /\ LeaveRoom(c, h.room)
  /\ Treated(h, c)
  /\ UNCHANGED <<active, users, closed, conn, failed, raced, untold, late>>

(* DeleteGroupHandler closes the room and only then deletes it. *)
DeleteClose(h) ==
  /\ h.op = "delete" /\ ChangeAt(h, "new")
  /\ CloseRoom(h.room)
  /\ Proceed(h, "deleteRoom", {})
  /\ UNCHANGED <<active, users, closed, conn, failed, raced, untold, late>>

(* When the DELETE fails the members are still members, of a room closed to the
   connections they have. *)
DeleteCommit(h) ==
  LET back       == {c \in Clients : At(c, "join") \/ h.room \in joined[c]}
      registered == {c \in Clients : c \in users[UserOf[c]]} IN
  /\ ChangeAt(h, "deleteRoom")
  /\ \/ /\ active' = active \ (Users \X {h.room})
        /\ raced'  = raced \union ((IF Concurrent(h) THEN Clients ELSE back) \X {h.room})
        /\ UNCHANGED untold
     \/ /\ untold' = untold \union (registered \X {h.room})
        /\ UNCHANGED <<active, raced>>
  /\ Proceed(h, "done", {})
  /\ UNCHANGED <<users, rooms, joined, closed, conn, failed, late>>

-----------------------------------------------------------------------------

Connection(c) == \/ AddToUsers(c) \/ QueryRooms(c) \/ Ready(c)
                 \/ RemoveFromUsers(c) \/ CloseSend(c)
                 \/ \E r \in Rooms : JoinNext(c, r) \/ LeaveNext(c, r)

Handler(h) == \/ CommitAdd(h) \/ CommitRemove(h) \/ CommitInvite(h) \/ FindClients(h)
              \/ DeleteClose(h) \/ DeleteCommit(h)
              \/ \E c \in Clients : ApplyAdd(h, c) \/ ApplyRemove(h, c)

Next == (\E c \in Clients : Connection(c)) \/ (\E h \in Changes : Handler(h))

Spec == Init /\ [][Next]_vars

-----------------------------------------------------------------------------
(* Properties *)

(* What the server delivers to a room is what the room's clients believe to
   have joined: JoinedRooms, which readPump trusts, and the shards agree for
   every connection that is not being cleaned up. *)
ShardsAgree ==
  \A c \in Clients, r \in Rooms :
     /\ c \in rooms[r] => r \in joined[c]
     /\ r \in joined[c] /\ ~At(c, "leaving") /\ ~At(c, "gone") => c \in rooms[r]

(* When no handler is changing a user's membership of a room, an open
   connection of the user is subscribed to it exactly if the user is a member.
   The order of Register (users first, the query after) and of the handlers
   (the row first, the snapshot of users after) is what makes it so.  The
   exceptions: the query failed, or the membership ended between the query and
   the subscription, or two handlers worked on the same room at once; or while the
   connection was registered an invitation took the membership away, the answer of
   a handler's statement was lost, or the room was closed and its DELETE failed. *)
Quiet(u, r) == \A h \in Changes : /\ h.room = r
                                  /\ h.op = "delete" \/ h.user = u
                                  => ChangeAt(h, "new") \/ ChangeAt(h, "done")
SubscriptionsMatch ==
  \A c \in Clients \ failed, r \in Rooms :
     At(c, "open") /\ Quiet(UserOf[c], r) /\ <<c, r>> \notin raced \union untold
       => (r \in joined[c] <=> <<UserOf[c], r>> \in active)

(* A connection whose Send channel is closed is found by no delivery: neither
   under its user, nor in a room, unless a handler that had copied the user's
   clients before subscribed it after. *)
ClosedIsUnreachable ==
  \A c \in closed : /\ c \notin users[UserOf[c]]
                    /\ \A r \in Rooms : c \in rooms[r] => <<c, r>> \in late
=============================================================================
