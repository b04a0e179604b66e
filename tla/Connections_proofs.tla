-------------------------- MODULE Connections_proofs --------------------------
(***************************************************************************)
(* Machine-checked proofs about the registry of connections, for every set *)
(* of users, clients and rooms, and any number of membership handlers.     *)
(***************************************************************************)
EXTENDS Connections, TLAPS

-----------------------------------------------------------------------------
(* The type invariant is inductive. *)

LEMMA InitTypeOK == Init => TypeOK
<1> SUFFICES ASSUME Init PROVE TypeOK
  OBVIOUS
<1>1. "new" \in ConnSteps /\ "new" \in ChangeSteps
  BY DEF ConnSteps, ChangeSteps
<1>2. /\ conn \in [Clients -> [step : ConnSteps, todo : SUBSET Rooms]]
      /\ \A c \in Clients : conn[c].todo = {}
  BY <1>1 DEF Init
<1>3. /\ change \in [Changes -> [step : ChangeSteps, targets : SUBSET Clients]]
      /\ \A h \in Changes : change[h].targets = {} /\ change[h].step = "new"
  BY <1>1 DEF Init
<1>4. /\ users \in [Users -> SUBSET Clients] /\ rooms \in [Rooms -> SUBSET Clients]
      /\ joined \in [Clients -> SUBSET Rooms]
  BY DEF Init
<1>5. /\ active \subseteq Pairs /\ closed \subseteq Clients /\ failed \subseteq Clients
      /\ raced \subseteq Clients \X Rooms /\ untold \subseteq Clients \X Rooms
      /\ late \subseteq Clients \X Rooms
  BY MembersType DEF Init
<1>6. /\ \A c \in Clients : conn[c].todo # {} => conn[c].step \in {"join", "leaving"}
      /\ \A h \in Changes : change[h].targets # {} <=> change[h].step = "apply"
  BY <1>2, <1>3
<1> QED BY <1>2, <1>3, <1>4, <1>5, <1>6 DEF TypeOK

LEMMA RoomsType ==
  ASSUME TypeOK, NEW c \in Clients, NEW r \in Rooms
  PROVE  /\ JoinRoom(c, r) \/ LeaveRoom(c, r)
              => rooms' \in [Rooms -> SUBSET Clients] /\ joined' \in [Clients -> SUBSET Rooms]
         /\ rooms' = [rooms EXCEPT ![r] = @ \ {c}] => rooms' \in [Rooms -> SUBSET Clients]
<1>1. /\ rooms[r] \union {c} \in SUBSET Clients /\ rooms[r] \ {c} \in SUBSET Clients
      /\ joined[c] \union {r} \in SUBSET Rooms /\ joined[c] \ {r} \in SUBSET Rooms
  BY DEF TypeOK
<1>2. /\ \A cs \in SUBSET Clients : [rooms EXCEPT ![r] = cs] \in [Rooms -> SUBSET Clients]
      /\ \A rs \in SUBSET Rooms : [joined EXCEPT ![c] = rs] \in [Clients -> SUBSET Rooms]
  BY DEF TypeOK
<1> QED BY <1>1, <1>2 DEF JoinRoom, LeaveRoom

LEMMA CloseRoomType ==
  ASSUME TypeOK, NEW r \in Rooms, CloseRoom(r)
  PROVE  rooms' \in [Rooms -> SUBSET Clients] /\ joined' \in [Clients -> SUBSET Rooms]
BY DEF TypeOK, CloseRoom

ConnType(f) == /\ f \in [Clients -> [step : ConnSteps, todo : SUBSET Rooms]]
               /\ \A c \in Clients : f[c].todo # {} => f[c].step \in {"join", "leaving"}

LEMMA GoType ==
  ASSUME ConnType(conn), NEW c \in Clients, NEW step \in ConnSteps, NEW todo \in SUBSET Rooms,
         todo # {} => step \in {"join", "leaving"}, Go(c, step, todo)
  PROVE  ConnType(conn')
BY DEF ConnType, Go

ChangeType(f) == /\ f \in [Changes -> [step : ChangeSteps, targets : SUBSET Clients]]
                 /\ \A h \in Changes : f[h].targets # {} <=> f[h].step = "apply"

LEMMA ProceedType ==
  ASSUME ChangeType(change), NEW h \in Changes, NEW step \in ChangeSteps,
         NEW targets \in SUBSET Clients, targets # {} <=> step = "apply",
         Proceed(h, step, targets)
  PROVE  ChangeType(change')
BY DEF ChangeType, Proceed

LEMMA TreatedType ==
  ASSUME ChangeType(change), NEW h \in Changes, NEW c \in Clients, Treated(h, c)
  PROVE  ChangeType(change')
<1> DEFINE left == change[h].targets \ {c}
<1>1. left \in SUBSET Clients
  BY DEF ChangeType
<1>2. CASE left = {}
  <2>1. "done" \in ChangeSteps
    BY DEF ChangeSteps
  <2>2. Proceed(h, "done", left)
    BY <1>2 DEF Treated
  <2> QED BY <1>1, <1>2, <2>1, <2>2, ProceedType
<1>3. CASE left # {}
  <2>1. "apply" \in ChangeSteps
    BY DEF ChangeSteps
  <2>2. Proceed(h, "apply", left)
    BY <1>3 DEF Treated
  <2> QED BY <1>1, <1>3, <2>1, <2>2, ProceedType
<1> QED BY <1>2, <1>3

(* The conjuncts of TypeOK that the steps of a connection or a handler disturb *)
Rest == /\ active \subseteq Pairs
        /\ users  \in [Users -> SUBSET Clients]
        /\ rooms  \in [Rooms -> SUBSET Clients]
        /\ joined \in [Clients -> SUBSET Rooms]
        /\ closed \subseteq Clients
        /\ failed \subseteq Clients
        /\ raced  \subseteq Clients \X Rooms
        /\ untold \subseteq Clients \X Rooms
        /\ late   \subseteq Clients \X Rooms

LEMMA TypeOKSplit == /\ TypeOK <=> Rest /\ ConnType(conn) /\ ChangeType(change)
                     /\ TypeOK' <=> Rest' /\ ConnType(conn') /\ ChangeType(change')
BY DEF TypeOK, Rest, ConnType, ChangeType

LEMMA ConnectionTypeOK ==
  ASSUME TypeOK, NEW c \in Clients, Connection(c)
  PROVE  TypeOK'
<1>0. Rest /\ ConnType(conn) /\ ChangeType(change)
  BY TypeOKSplit
<1>a. UserOf[c] \in Users
  BY ClientsType
<1>b. {"new", "query", "join", "open", "leaving", "gone"} = ConnSteps
  BY DEF ConnSteps
<1>1. CASE AddToUsers(c)
  <2>1. ConnType(conn')
    BY <1>0, <1>1, <1>b, GoType DEF AddToUsers
  <2>2. Rest' /\ ChangeType(change')
    BY <1>0, <1>1, <1>a DEF AddToUsers, Rest, ChangeType
  <2> QED BY <2>1, <2>2, TypeOKSplit
<1>2. CASE QueryRooms(c)
  <2>1. {r \in Rooms : <<UserOf[c], r>> \in active} \in SUBSET Rooms
    OBVIOUS
  <2>2. ConnType(conn')
    <3>1. "join" \in ConnSteps /\ {} \in SUBSET Rooms
      BY <1>b
    <3>2. PICK todo \in SUBSET Rooms : Go(c, "join", todo)
      BY <1>2, <2>1, <3>1 DEF QueryRooms
    <3> QED BY <1>0, <3>1, <3>2, GoType
  <2>3. Rest' /\ ChangeType(change')
    BY <1>0, <1>2 DEF QueryRooms, Rest, ChangeType
  <2> QED BY <2>2, <2>3, TypeOKSplit
<1>3. CASE Ready(c)
  <2>1. ConnType(conn')
    BY <1>0, <1>3, <1>b, GoType DEF Ready
  <2>2. Rest' /\ ChangeType(change')
    BY <1>0, <1>3 DEF Ready, Rest, ChangeType
  <2> QED BY <2>1, <2>2, TypeOKSplit
<1>4. CASE RemoveFromUsers(c)
  <2>1. joined[c] \in SUBSET Rooms
    BY <1>0 DEF Rest
  <2>2. ConnType(conn')
    BY <1>0, <1>4, <1>b, <2>1, GoType DEF RemoveFromUsers
  <2>3. Rest' /\ ChangeType(change')
    BY <1>0, <1>4, <1>a DEF RemoveFromUsers, Rest, ChangeType
  <2> QED BY <2>2, <2>3, TypeOKSplit
<1>5. CASE CloseSend(c)
  <2>1. ConnType(conn')
    BY <1>0, <1>5, <1>b, GoType DEF CloseSend
  <2>2. Rest' /\ ChangeType(change')
    BY <1>0, <1>5 DEF CloseSend, Rest, ChangeType
  <2> QED BY <2>1, <2>2, TypeOKSplit
<1>6. ASSUME NEW r \in Rooms, JoinNext(c, r) PROVE TypeOK'
  <2>1. conn[c].todo \ {r} \in SUBSET Rooms
    BY <1>0 DEF ConnType
  <2>2. ConnType(conn')
    BY <1>0, <1>6, <1>b, <2>1, GoType DEF JoinNext
  <2>3. Rest' /\ ChangeType(change')
    BY <1>0, <1>6, RoomsType DEF JoinNext, Rest, ChangeType
  <2> QED BY <2>2, <2>3, TypeOKSplit
<1>7. ASSUME NEW r \in Rooms, LeaveNext(c, r) PROVE TypeOK'
  <2>1. conn[c].todo \ {r} \in SUBSET Rooms
    BY <1>0 DEF ConnType
  <2>2. ConnType(conn')
    BY <1>0, <1>7, <1>b, <2>1, GoType DEF LeaveNext
  <2>3. Rest' /\ ChangeType(change')
    BY <1>0, <1>7, RoomsType DEF LeaveNext, Rest, ChangeType
  <2> QED BY <2>2, <2>3, TypeOKSplit
<1> QED BY <1>1, <1>2, <1>3, <1>4, <1>5, <1>6, <1>7 DEF Connection

LEMMA HandlerTypeOK ==
  ASSUME TypeOK, NEW h \in Changes, Handler(h)
  PROVE  TypeOK'
<1>0. Rest /\ ConnType(conn) /\ ChangeType(change)
  BY TypeOKSplit
<1>a. h.user \in Users /\ h.room \in Rooms
  BY ChangesType
<1>b. {"new", "find", "apply", "deleteRoom", "done"} = ChangeSteps
  BY DEF ChangeSteps
<1>c. users[h.user] \X {h.room} \subseteq Clients \X Rooms
  BY <1>0, <1>a DEF Rest
<1>d. Proceed(h, "find", {}) \/ Proceed(h, "done", {}) => ChangeType(change')
  BY <1>0, <1>b, ProceedType
<1>1. CASE CommitAdd(h)
  <2>1. ChangeType(change')
    BY <1>1, <1>d DEF CommitAdd, AnswerLost
  <2>2. Rest' /\ ConnType(conn')
    BY <1>0, <1>1, <1>a, <1>c DEF CommitAdd, AnswerLost, Rest, ConnType, Pairs
  <2> QED BY <2>1, <2>2, TypeOKSplit
<1>2. CASE CommitRemove(h)
  <2>1. ChangeType(change')
    BY <1>2, <1>d DEF CommitRemove, AnswerLost
  <2>2. Rest' /\ ConnType(conn')
    BY <1>0, <1>2, <1>a, <1>c DEF CommitRemove, AnswerLost, Rest, ConnType, OfUser
  <2> QED BY <2>1, <2>2, TypeOKSplit
<1>8. CASE CommitInvite(h)
  <2>1. ChangeType(change')
    BY <1>8, <1>d DEF CommitInvite
  <2>2. Rest' /\ ConnType(conn')
    BY <1>0, <1>8, <1>a, <1>c DEF CommitInvite, Rest, ConnType
  <2> QED BY <2>1, <2>2, TypeOKSplit
<1>3. CASE FindClients(h)
  <2>1. users[h.user] \in SUBSET Clients
    BY <1>0, <1>a DEF Rest
  <2>2. ChangeType(change')
    BY <1>0, <1>3, <1>b, <2>1, ProceedType DEF FindClients
  <2>3. Rest' /\ ConnType(conn')
    BY <1>0, <1>3 DEF FindClients, Rest, ConnType
  <2> QED BY <2>2, <2>3, TypeOKSplit
<1>4. CASE DeleteClose(h)
  <2>1. ChangeType(change')
    BY <1>0, <1>4, <1>b, ProceedType DEF DeleteClose
  <2>2. Rest' /\ ConnType(conn')
    BY <1>0, <1>4, <1>a, CloseRoomType DEF DeleteClose, Rest, ConnType
  <2> QED BY <2>1, <2>2, TypeOKSplit
<1>5. CASE DeleteCommit(h)
  <2>1. ChangeType(change')
    BY <1>0, <1>5, <1>b, ProceedType DEF DeleteCommit
  <2>2. Rest' /\ ConnType(conn')
    BY <1>0, <1>5, <1>a DEF DeleteCommit, Rest, ConnType
  <2> QED BY <2>1, <2>2, TypeOKSplit
<1>6. ASSUME NEW c \in Clients, ApplyAdd(h, c) PROVE TypeOK'
  <2>1. ChangeType(change')
    BY <1>0, <1>6, TreatedType DEF ApplyAdd
  <2>2. ConnType(conn')
    <3>1. CASE UNCHANGED conn
      BY <1>0, <3>1 DEF ConnType
    <3>2. CASE Go(c, "leaving", conn[c].todo \union {h.room})
      <4> DEFINE todo == conn[c].todo \union {h.room}
      <4>1. todo \in SUBSET Rooms /\ Go(c, "leaving", todo)
        BY <1>0, <1>a, <3>2 DEF ConnType
      <4>2. "leaving" \in ConnSteps
        BY DEF ConnSteps
      <4> HIDE DEF todo
      <4> QED BY <1>0, <4>1, <4>2, GoType
    <3> QED BY <1>6, <3>1, <3>2 DEF ApplyAdd
  <2>3. Rest'
    BY <1>0, <1>6, <1>a, RoomsType DEF ApplyAdd, Rest
  <2> QED BY <2>1, <2>2, <2>3, TypeOKSplit
<1>7. ASSUME NEW c \in Clients, ApplyRemove(h, c) PROVE TypeOK'
  <2>1. ChangeType(change')
    BY <1>0, <1>7, TreatedType DEF ApplyRemove
  <2>2. Rest' /\ ConnType(conn')
    BY <1>0, <1>7, <1>a, RoomsType DEF ApplyRemove, Rest, ConnType
  <2> QED BY <2>1, <2>2, TypeOKSplit
<1> QED BY <1>1, <1>2, <1>3, <1>4, <1>5, <1>6, <1>7, <1>8 DEF Handler

LEMMA NextTypeOK == TypeOK /\ [Next]_vars => TypeOK'
<1> SUFFICES ASSUME TypeOK, [Next]_vars PROVE TypeOK'
  OBVIOUS
<1>1. CASE UNCHANGED vars
  BY <1>1 DEF vars, TypeOK
<1> QED BY <1>1, ConnectionTypeOK, HandlerTypeOK DEF Next

(* Every reachable state of the registry is well typed, and only a handler at
   work on its copy of a user's clients has clients left to treat. *)
THEOREM TypeCorrect == Spec => []TypeOK
BY InitTypeOK, NextTypeOK, PTL DEF Spec

-----------------------------------------------------------------------------
(* The shards and JoinedRooms agree. *)

LEMMA CloseRoomAgrees ==
  ASSUME TypeOK, NEW r \in Rooms, CloseRoom(r)
  PROVE  \A d \in Clients, q \in Rooms :
           /\ d \in rooms'[q]  <=> d \in rooms[q] /\ q # r
           /\ q \in joined'[d] <=> q \in joined[d] /\ ~(q = r /\ d \in rooms[r])
BY DEF TypeOK, CloseRoom

LEMMA JoinRoomAgrees ==
  ASSUME TypeOK, NEW c \in Clients, NEW r \in Rooms, JoinRoom(c, r)
  PROVE  \A d \in Clients, q \in Rooms :
           /\ d \in rooms'[q]  <=> d \in rooms[q]  \/ (d = c /\ q = r)
           /\ q \in joined'[d] <=> q \in joined[d] \/ (d = c /\ q = r)
BY DEF TypeOK, JoinRoom

LEMMA LeaveRoomAgrees ==
  ASSUME TypeOK, NEW c \in Clients, NEW r \in Rooms, LeaveRoom(c, r)
  PROVE  \A d \in Clients, q \in Rooms :
           /\ d \in rooms'[q]  <=> d \in rooms[q]  /\ ~(d = c /\ q = r)
           /\ q \in joined'[d] <=> q \in joined[d] /\ ~(d = c /\ q = r)
BY DEF TypeOK, LeaveRoom

LEMMA GoStep ==
  ASSUME TypeOK, NEW c \in Clients, NEW step, NEW todo, Go(c, step, todo)
  PROVE  /\ conn'[c].step = step /\ conn'[c].todo = todo
         /\ \A d \in Clients \ {c} : conn'[d] = conn[d]
BY DEF TypeOK, Go

LEMMA InitShardsAgree == Init => ShardsAgree
BY DEF Init, ShardsAgree

LEMMA ConnectionShardsAgree ==
  ASSUME TypeOK, ShardsAgree, NEW c \in Clients, Connection(c)
  PROVE  ShardsAgree'
<1> USE DEF ShardsAgree, At
<1>1. CASE AddToUsers(c)
  BY <1>1, GoStep DEF AddToUsers
<1>2. CASE QueryRooms(c)
  <2>1. PICK todo : Go(c, "join", todo)
    BY <1>2 DEF QueryRooms
  <2> QED BY <1>2, <2>1, GoStep DEF QueryRooms
<1>3. CASE Ready(c)
  BY <1>3, GoStep DEF Ready
<1>4. CASE RemoveFromUsers(c)
  BY <1>4, GoStep DEF RemoveFromUsers
<1>5. CASE CloseSend(c)
  BY <1>5, GoStep DEF CloseSend
<1>6. ASSUME NEW r \in Rooms, JoinNext(c, r) PROVE ShardsAgree'
  BY <1>6, GoStep, JoinRoomAgrees DEF JoinNext
<1>7. ASSUME NEW r \in Rooms, LeaveNext(c, r) PROVE ShardsAgree'
  <2>1. \A d \in Clients, q \in Rooms :
          d \in rooms'[q] <=> d \in rooms[q] /\ ~(d = c /\ q = r)
    BY <1>7 DEF LeaveNext, TypeOK
  <2>2. conn'[c].step = "leaving" /\ \A d \in Clients \ {c} : conn'[d] = conn[d]
    BY <1>7, GoStep DEF LeaveNext
  <2> QED BY <1>7, <2>1, <2>2 DEF LeaveNext
<1> QED BY <1>1, <1>2, <1>3, <1>4, <1>5, <1>6, <1>7 DEF Connection

LEMMA HandlerShardsAgree ==
  ASSUME TypeOK, ShardsAgree, NEW h \in Changes, Handler(h)
  PROVE  ShardsAgree'
<1> USE DEF ShardsAgree, At
<1>a. h.room \in Rooms
  BY ChangesType
<1>1. CASE CommitAdd(h) \/ CommitRemove(h) \/ CommitInvite(h) \/ FindClients(h) \/ DeleteCommit(h)
  BY <1>1 DEF CommitAdd, CommitRemove, CommitInvite, FindClients, DeleteCommit
<1>2. CASE DeleteClose(h)
  BY <1>2, <1>a, CloseRoomAgrees DEF DeleteClose
<1>3. ASSUME NEW c \in Clients, ApplyAdd(h, c) PROVE ShardsAgree'
  <2>1. \A d \in Clients : conn'[d].step = conn[d].step
    <3>1. CASE UNCHANGED conn
      BY <3>1
    <3>2. CASE At(c, "leaving") /\ Go(c, "leaving", conn[c].todo \union {h.room})
      BY <3>2, GoStep
    <3> QED BY <1>3, <3>1, <3>2 DEF ApplyAdd
  <2>2. JoinRoom(c, h.room)
    BY <1>3 DEF ApplyAdd
  <2> QED BY <1>a, <2>1, <2>2, JoinRoomAgrees
<1>4. ASSUME NEW c \in Clients, ApplyRemove(h, c) PROVE ShardsAgree'
  BY <1>4, <1>a, LeaveRoomAgrees DEF ApplyRemove
<1> QED BY <1>1, <1>2, <1>3, <1>4 DEF Handler

LEMMA NextShardsAgree == TypeOK /\ ShardsAgree /\ [Next]_vars => ShardsAgree'
<1> SUFFICES ASSUME TypeOK, ShardsAgree, [Next]_vars PROVE ShardsAgree'
  OBVIOUS
<1>1. CASE UNCHANGED vars
  BY <1>1 DEF vars, ShardsAgree, At
<1> QED BY <1>1, ConnectionShardsAgree, HandlerShardsAgree DEF Next

(* The shards, from which rooms are delivered to, and the clients' JoinedRooms,
   which readPump trusts, agree for every connection that is not being cleaned
   up, whatever handlers run at once. *)
THEOREM ShardsAlwaysAgree == Spec => []ShardsAgree
BY InitTypeOK, NextTypeOK, InitShardsAgree, NextShardsAgree, PTL DEF Spec

-----------------------------------------------------------------------------
(* A closed connection is found nowhere.  What makes it inductive: a connection
   being cleaned up has left users, and the rooms it is still found in are those
   it has still to leave or joined too late. *)

Departed(c) == At(c, "leaving") \/ At(c, "gone")

CleanedUp(c) ==
  /\ Departed(c) => c \notin users[UserOf[c]]
  /\ Departed(c) => \A r \in Rooms : c \in rooms[r] => <<c, r>> \in late \/ r \in conn[c].todo
  /\ c \in closed => At(c, "gone")

IInv == TypeOK /\ ShardsAgree /\ \A c \in Clients : CleanedUp(c)

LEMMA InitIInv == Init => IInv
<1> SUFFICES ASSUME Init PROVE IInv
  OBVIOUS
<1>1. \A c \in Clients : CleanedUp(c)
  BY DEF Init, CleanedUp, Departed, At
<1> QED BY <1>1, InitTypeOK, InitShardsAgree DEF IInv

LEMMA ConnectionCleansUp ==
  ASSUME IInv, NEW c \in Clients, Connection(c), NEW d \in Clients
  PROVE  CleanedUp(d)'
<1> USE DEF CleanedUp, Departed, At
<1>0. TypeOK /\ ShardsAgree /\ CleanedUp(c) /\ CleanedUp(d)
  BY DEF IInv
<1>a. UserOf[c] \in Users /\ UserOf[d] \in Users
  BY ClientsType
<1>1. CASE AddToUsers(c)
  <2>1. d # c => (d \in users'[UserOf[d]] <=> d \in users[UserOf[d]])
    BY <1>0, <1>1, <1>a DEF AddToUsers, TypeOK
  <2> QED BY <1>0, <1>1, <2>1, GoStep DEF AddToUsers
<1>2. CASE QueryRooms(c)
  <2>1. PICK todo : Go(c, "join", todo)
    BY <1>2 DEF QueryRooms
  <2> QED BY <1>0, <1>2, <2>1, GoStep DEF QueryRooms
<1>3. CASE Ready(c)
  BY <1>0, <1>3, GoStep DEF Ready
<1>4. CASE RemoveFromUsers(c)
  <2>1. /\ c \notin users'[UserOf[c]]
        /\ d \in users'[UserOf[d]] => d \in users[UserOf[d]]
    BY <1>0, <1>4, <1>a DEF RemoveFromUsers, TypeOK
  <2>2. \A r \in Rooms : c \in rooms'[r] => r \in conn'[c].todo
    BY <1>0, <1>4, GoStep DEF RemoveFromUsers, ShardsAgree
  <2> QED BY <1>0, <1>4, <2>1, <2>2, GoStep DEF RemoveFromUsers
<1>5. CASE CloseSend(c)
  BY <1>0, <1>5, GoStep DEF CloseSend
<1>6. ASSUME NEW r \in Rooms, JoinNext(c, r) PROVE CleanedUp(d)'
  BY <1>0, <1>6, GoStep, JoinRoomAgrees DEF JoinNext
<1>7. ASSUME NEW r \in Rooms, LeaveNext(c, r) PROVE CleanedUp(d)'
  <2>1. \A q \in Rooms : d \in rooms'[q] <=> d \in rooms[q] /\ ~(d = c /\ q = r)
    BY <1>0, <1>7 DEF LeaveNext, TypeOK
  <2>2. /\ conn'[c].step = "leaving" /\ conn'[c].todo = conn[c].todo \ {r}
        /\ d # c => conn'[d] = conn[d]
    BY <1>0, <1>7, GoStep DEF LeaveNext
  <2> QED BY <1>0, <1>7, <2>1, <2>2 DEF LeaveNext
<1> QED BY <1>1, <1>2, <1>3, <1>4, <1>5, <1>6, <1>7 DEF Connection

LEMMA HandlerCleansUp ==
  ASSUME IInv, NEW h \in Changes, Handler(h), NEW d \in Clients
  PROVE  CleanedUp(d)'
<1> USE DEF CleanedUp, Departed, At
<1>0. TypeOK /\ ShardsAgree /\ CleanedUp(d)
  BY DEF IInv
<1>a. h.room \in Rooms
  BY ChangesType
<1>1. CASE CommitAdd(h) \/ CommitRemove(h) \/ CommitInvite(h) \/ FindClients(h) \/ DeleteCommit(h)
  BY <1>0, <1>1 DEF CommitAdd, CommitRemove, CommitInvite, FindClients, DeleteCommit
<1>2. CASE DeleteClose(h)
  BY <1>0, <1>2, <1>a, CloseRoomAgrees DEF DeleteClose
<1>3. ASSUME NEW c \in Clients, ApplyAdd(h, c) PROVE CleanedUp(d)'
  <2>1. conn'[d].step = conn[d].step /\ conn[d].todo \subseteq conn'[d].todo
    <3>1. CASE UNCHANGED conn
      BY <3>1
    <3>2. CASE At(c, "leaving") /\ Go(c, "leaving", conn[c].todo \union {h.room})
      BY <1>0, <3>2, GoStep
    <3> QED BY <1>3, <3>1, <3>2 DEF ApplyAdd
  <2>2. late \subseteq late' /\ (c \in users[UserOf[c]] \/ <<c, h.room>> \in late')
    BY <1>3 DEF ApplyAdd
  <2>3. JoinRoom(c, h.room) /\ UNCHANGED <<users, closed>>
    BY <1>3 DEF ApplyAdd
  <2>4. \A r \in Rooms : d \in rooms'[r] <=> d \in rooms[r] \/ (d = c /\ r = h.room)
    BY <1>0, <1>a, <2>3, JoinRoomAgrees
  <2> QED BY <1>0, <2>1, <2>2, <2>3, <2>4
<1>4. ASSUME NEW c \in Clients, ApplyRemove(h, c) PROVE CleanedUp(d)'
  BY <1>0, <1>4, <1>a, LeaveRoomAgrees DEF ApplyRemove
<1> QED BY <1>1, <1>2, <1>3, <1>4 DEF Handler

LEMMA NextIInv == IInv /\ [Next]_vars => IInv'
<1> SUFFICES ASSUME IInv, [Next]_vars PROVE IInv'
  OBVIOUS
<1>1. ASSUME NEW d \in Clients PROVE CleanedUp(d)'
  <2>1. CASE UNCHANGED vars
    BY <2>1 DEF vars, IInv, CleanedUp, Departed, At
  <2> QED BY <2>1, ConnectionCleansUp, HandlerCleansUp DEF Next
<1>2. TypeOK' /\ ShardsAgree'
  BY NextTypeOK, NextShardsAgree DEF IInv
<1> QED BY <1>1, <1>2 DEF IInv

LEMMA IInvCloses == IInv => ClosedIsUnreachable
BY DEF IInv, TypeOK, CleanedUp, Departed, At, ClosedIsUnreachable

(* No delivery finds a connection whose Send channel is closed (sending on it
   would panic): it is in no user's list, and in no room but one that a handler
   subscribed it to after copying the user's clients. *)
THEOREM ClosedStaysUnreachable == Spec => []ClosedIsUnreachable
BY InitIInv, NextIInv, IInvCloses, PTL DEF Spec

-----------------------------------------------------------------------------
(* An open connection is subscribed to the rooms its user is a member of.  What
   makes it inductive: a connection is in users from its registration to its
   clean-up (Roster); one handler at a time treats a room, after it has written
   the row; and while it does, the connections whose subscription is still to
   change are those it will find in users or has left to treat (Settled). *)

Listed(c)   == At(c, "query") \/ At(c, "join") \/ At(c, "open")
Treating(h) == ChangeAt(h, "find") \/ ChangeAt(h, "apply")
Member(c, r) == <<UserOf[c], r>> \in active

Roster ==
  /\ \A c \in Clients, v \in Users : c \in users[v] <=> (v = UserOf[c] /\ Listed(c))
  /\ \A c \in Clients : At(c, "new") => joined[c] = {}
  /\ \A h \in Changes : Treating(h) => h.op \in {"add", "remove"}
  /\ \A h \in Changes : ChangeAt(h, "deleteRoom") => h.op = "delete"
  /\ \A h \in Changes : \A c \in change[h].targets : UserOf[c] = h.user /\ ~At(c, "new")

(* A handler of that kind has still to treat the client. *)
Covers(h, c, r, op) == /\ h.op = op /\ h.user = UserOf[c] /\ h.room = r
                       /\ ChangeAt(h, "find") \/ (ChangeAt(h, "apply") /\ c \in change[h].targets)
Covered(c, r, op) == \E h \in Changes : Covers(h, c, r, op)

OneAtWork(r) == \A g, h \in Changes :
   (g.room = r /\ Treating(g) /\ h.room = r /\ Treating(h)) => g = h

WrittenFirst(c, r) == \A h \in Changes :
   (h.user = UserOf[c] /\ h.room = r /\ Treating(h)) => (h.op = "add" <=> Member(c, r))

Follows(c, r) ==
  Listed(c) =>
    /\ r \in joined[c] => (Member(c, r) \/ Covered(c, r, "remove"))
    /\ r \in conn[c].todo => Member(c, r)
    /\ (Member(c, r) /\ ~At(c, "query")) =>
          (r \in joined[c] \/ r \in conn[c].todo \/ Covered(c, r, "add"))

Deleting(r) == \E h \in Changes : h.room = r /\ ChangeAt(h, "deleteRoom")

Excepted(c, r) == c \in failed \/ <<c, r>> \in raced \/ <<c, r>> \in untold

Settled(c, r) == Excepted(c, r) \/ /\ OneAtWork(r)
                                   /\ WrittenFirst(c, r)
                                   /\ Deleting(r) \/ Follows(c, r)

SubInv == TypeOK /\ Roster /\ \A c \in Clients, r \in Rooms : Settled(c, r)

LEMMA InitSubInv == Init => SubInv
<1> SUFFICES ASSUME Init PROVE SubInv
  OBVIOUS
<1> USE DEF At, ChangeAt
<1>1. Roster
  BY DEF Init, Roster, Listed, Treating
<1>2. ASSUME NEW c \in Clients, NEW r \in Rooms PROVE Settled(c, r)
  BY DEF Init, Settled, OneAtWork, WrittenFirst, Follows, Listed, Treating
<1> QED BY <1>1, <1>2, InitTypeOK DEF SubInv

(* What a connection's step leaves alone *)
LEMMA ConnectionFrame ==
  ASSUME TypeOK, NEW c \in Clients, Connection(c)
  PROVE  /\ active' = active /\ change' = change /\ raced' = raced /\ untold' = untold
         /\ failed \subseteq failed'
         /\ \A d \in Clients \ {c} : conn'[d] = conn[d] /\ joined'[d] = joined[d]
         /\ conn'[c].step # "new"
<1>1. CASE AddToUsers(c) \/ Ready(c) \/ RemoveFromUsers(c) \/ CloseSend(c)
  BY <1>1, GoStep DEF AddToUsers, Ready, RemoveFromUsers, CloseSend
<1>2. CASE QueryRooms(c)
  <2>1. PICK todo : Go(c, "join", todo)
    BY <1>2 DEF QueryRooms
  <2>2. failed \subseteq failed'
    BY <1>2 DEF QueryRooms
  <2> QED BY <1>2, <2>1, <2>2, GoStep DEF QueryRooms
<1>3. CASE \E r \in Rooms : JoinNext(c, r) \/ LeaveNext(c, r)
  <2>1. PICK r \in Rooms : JoinNext(c, r) \/ LeaveNext(c, r)
    BY <1>3
  <2>2. CASE JoinNext(c, r)
    <3>1. \A d \in Clients \ {c} : joined'[d] = joined[d]
      BY <2>2 DEF JoinNext, JoinRoom, TypeOK
    <3> QED BY <2>2, <3>1, GoStep DEF JoinNext
  <2>3. CASE LeaveNext(c, r)
    BY <2>3, GoStep DEF LeaveNext
  <2> QED BY <2>1, <2>2, <2>3
<1> QED BY <1>1, <1>2, <1>3 DEF Connection

LEMMA ConnectionUsers ==
  ASSUME TypeOK, Roster, NEW c \in Clients, Connection(c)
  PROVE  \A d \in Clients, v \in Users : d \in users'[v] <=> (v = UserOf[d] /\ Listed(d)')
<1> USE DEF Listed, At
<1>a. UserOf[c] \in Users /\ users \in [Users -> SUBSET Clients]
  BY ClientsType DEF TypeOK
<1>b. \A d \in Clients, v \in Users : d \in users[v] <=> (v = UserOf[d] /\ Listed(d))
  BY DEF Roster
<1>c. \A d \in Clients \ {c} : conn'[d] = conn[d]
  BY ConnectionFrame
<1>1. CASE AddToUsers(c)
  <2>1. conn'[c].step = "query"
    BY <1>1, GoStep DEF AddToUsers
  <2>2. \A d \in Clients, v \in Users :
           d \in users'[v] <=> (d \in users[v] \/ (d = c /\ v = UserOf[c]))
    BY <1>1, <1>a DEF AddToUsers
  <2>3. conn[c].step = "new"
    BY <1>1 DEF AddToUsers
  <2> QED BY <1>b, <1>c, <2>1, <2>2, <2>3
<1>2. CASE RemoveFromUsers(c)
  <2>1. conn'[c].step = "leaving"
    BY <1>2, GoStep DEF RemoveFromUsers
  <2>2. \A d \in Clients, v \in Users :
           d \in users'[v] <=> (d \in users[v] /\ ~(d = c /\ v = UserOf[c]))
    BY <1>2, <1>a DEF RemoveFromUsers
  <2> QED BY <1>b, <1>c, <2>1, <2>2
<1>3. CASE QueryRooms(c)
  <2>1. PICK todo : Go(c, "join", todo)
    BY <1>3 DEF QueryRooms
  <2>2. conn'[c].step = "join" /\ conn[c].step = "query" /\ users' = users
    BY <1>3, <2>1, GoStep DEF QueryRooms
  <2> QED BY <1>b, <1>c, <2>2
<1>4. CASE Ready(c)
  <2>1. conn'[c].step = "open" /\ conn[c].step = "join" /\ users' = users
    BY <1>4, GoStep DEF Ready
  <2> QED BY <1>b, <1>c, <2>1
<1>5. CASE CloseSend(c)
  <2>1. conn'[c].step = "gone" /\ conn[c].step = "leaving" /\ users' = users
    BY <1>5, GoStep DEF CloseSend
  <2> QED BY <1>b, <1>c, <2>1
<1>6. ASSUME NEW r \in Rooms, JoinNext(c, r) \/ LeaveNext(c, r)
      PROVE  \A d \in Clients, v \in Users : d \in users'[v] <=> (v = UserOf[d] /\ Listed(d)')
  <2>1. conn'[c].step = conn[c].step /\ users' = users
    BY <1>6, GoStep DEF JoinNext, LeaveNext
  <2> QED BY <1>b, <1>c, <2>1
<1> QED BY <1>1, <1>2, <1>3, <1>4, <1>5, <1>6 DEF Connection

LEMMA ConnectionRoster ==
  ASSUME TypeOK, Roster, NEW c \in Clients, Connection(c)
  PROVE  Roster'
<1>1. \A d \in Clients, v \in Users : (d \in users[v])' <=> (v = UserOf[d] /\ Listed(d)')
  BY ConnectionUsers
<1>2. \A d \in Clients : At(d, "new")' => joined'[d] = {}
  BY ConnectionFrame DEF Roster, At
<1>3. /\ \A h \in Changes : Treating(h)' => h.op \in {"add", "remove"}
      /\ \A h \in Changes : ChangeAt(h, "deleteRoom")' => h.op = "delete"
  BY ConnectionFrame DEF Roster, Treating, ChangeAt
<1>4. ASSUME NEW h \in Changes, NEW d \in change'[h].targets
      PROVE  UserOf[d] = h.user /\ ~At(d, "new")'
  <2>1. change' = change
    BY ConnectionFrame
  <2>2. d \in change[h].targets
    BY <2>1, <1>4
  <2>3. change[h].targets \subseteq Clients
    BY DEF TypeOK
  <2>4. d \in Clients /\ UserOf[d] = h.user /\ conn[d].step # "new"
    BY <2>2, <2>3 DEF Roster, At
  <2> QED BY <2>4, ConnectionFrame DEF At
<1> QED BY <1>1, <1>2, <1>3, <1>4 DEF Roster

LEMMA ConnectionFollows ==
  ASSUME TypeOK, Roster, NEW c \in Clients, Connection(c), c \notin failed',
         NEW r \in Rooms, Follows(c, r)
  PROVE  Follows(c, r)'
<1> USE DEF Listed, At
<1>a. UserOf[c] \in Users
  BY ClientsType
<1>b. conn[c].todo # {} => conn[c].step \in {"join", "leaving"}
  BY DEF TypeOK
<1>c. \A op : /\ Member(c, r)' <=> Member(c, r)
              /\ Covered(c, r, op)' <=> Covered(c, r, op)
  BY ConnectionFrame DEF Member, Covered, Covers, ChangeAt
<1>1. CASE AddToUsers(c)
  <2>1. conn'[c].step = "query" /\ conn'[c].todo = {} /\ joined' = joined /\ conn[c].step = "new"
    BY <1>1, GoStep DEF AddToUsers
  <2>2. joined[c] = {}
    BY <2>1 DEF Roster
  <2> QED BY <2>1, <2>2 DEF Follows
<1>2. CASE QueryRooms(c)
  <2>1. Go(c, "join", {q \in Rooms : <<UserOf[c], q>> \in active})
    BY <1>2 DEF QueryRooms
  <2>2. conn'[c].step = "join" /\ conn'[c].todo = {q \in Rooms : <<UserOf[c], q>> \in active}
    BY <2>1, GoStep
  <2>3. r \in conn'[c].todo <=> Member(c, r)
    BY <2>2 DEF Member
  <2>4. joined' = joined /\ conn[c].step = "query"
    BY <1>2 DEF QueryRooms
  <2> QED BY <1>c, <2>2, <2>3, <2>4 DEF Follows
<1>3. CASE Ready(c)
  <2>1. /\ conn'[c].step = "open" /\ conn'[c].todo = {} /\ joined' = joined
        /\ conn[c].step = "join" /\ conn[c].todo = {}
    BY <1>3, GoStep DEF Ready
  <2> QED BY <1>c, <2>1 DEF Follows
<1>4. CASE RemoveFromUsers(c) \/ CloseSend(c)
  <2>1. conn'[c].step \in {"leaving", "gone"}
    BY <1>4, GoStep DEF RemoveFromUsers, CloseSend
  <2> QED BY <2>1 DEF Follows
<1>5. ASSUME NEW q \in Rooms, JoinNext(c, q) PROVE Follows(c, r)'
  <2>1. /\ conn'[c].step = "join" /\ conn'[c].todo = conn[c].todo \ {q}
        /\ conn[c].step = "join" /\ q \in conn[c].todo
    BY <1>5, GoStep DEF JoinNext
  <2>2. r \in joined'[c] <=> (r \in joined[c] \/ r = q)
    BY <1>5, JoinRoomAgrees DEF JoinNext
  <2> QED BY <1>c, <2>1, <2>2 DEF Follows
<1>6. ASSUME NEW q \in Rooms, LeaveNext(c, q) PROVE Follows(c, r)'
  <2>1. conn'[c].step = "leaving"
    BY <1>6, GoStep DEF LeaveNext
  <2> QED BY <2>1 DEF Follows
<1> QED BY <1>1, <1>2, <1>3, <1>4, <1>5, <1>6 DEF Connection

LEMMA ConnectionSettled ==
  ASSUME TypeOK, Roster, NEW c \in Clients, Connection(c),
         NEW d \in Clients, NEW r \in Rooms, Settled(d, r)
  PROVE  Settled(d, r)'
<1>0. /\ active' = active /\ change' = change /\ raced' = raced /\ untold' = untold
      /\ failed \subseteq failed'
      /\ d # c => (conn'[d] = conn[d] /\ joined'[d] = joined[d])
  BY ConnectionFrame
<1>1. CASE Excepted(d, r)'
  BY <1>1 DEF Settled
<1>2. CASE ~Excepted(d, r)'
  <2>1. ~Excepted(d, r) /\ d \notin failed'
    BY <1>0, <1>2 DEF Excepted
  <2>2. OneAtWork(r) /\ WrittenFirst(d, r) /\ (Deleting(r) \/ Follows(d, r))
    BY <2>1 DEF Settled
  <2>3. OneAtWork(r)' /\ WrittenFirst(d, r)' /\ (Deleting(r)' <=> Deleting(r))
    BY <1>0, <2>2 DEF OneAtWork, WrittenFirst, Deleting, Treating, ChangeAt, Member
  <2>4. ASSUME Follows(d, r) PROVE Follows(d, r)'
    <3>1. CASE d = c
      BY <2>1, <2>4, <3>1, ConnectionFollows
    <3>2. CASE d # c
      <4>1. \A op : /\ Member(d, r)' <=> Member(d, r)
                    /\ Covered(d, r, op)' <=> Covered(d, r, op)
        BY <1>0 DEF Member, Covered, Covers, ChangeAt
      <4> QED BY <1>0, <2>4, <3>2, <4>1 DEF Follows, Listed, At
    <3> QED BY <3>1, <3>2
  <2> QED BY <2>2, <2>3, <2>4 DEF Settled
<1> QED BY <1>1, <1>2

LEMMA TreatedStep ==
  ASSUME TypeOK, NEW h \in Changes, NEW c \in Clients, c \in change[h].targets, Treated(h, c)
  PROVE  /\ \A g \in Changes \ {h} : change'[g] = change[g]
         /\ change'[h].targets = change[h].targets \ {c}
         /\ change'[h].step \in {"apply", "done"}
         /\ (change'[h].step = "apply") <=> (change'[h].targets # {})
<1> DEFINE left == change[h].targets \ {c}
<1> DEFINE step == IF left = {} THEN "done" ELSE "apply"
<1>1. Proceed(h, step, left)
  BY DEF Treated
<1>2. step \in {"apply", "done"} /\ (step = "apply" <=> left # {})
  OBVIOUS
<1> HIDE DEF step
<1>3. change' = [change EXCEPT ![h] = [step |-> step, targets |-> left]]
  BY <1>1 DEF Proceed
<1>4. change'[h] = [step |-> step, targets |-> left]
  BY <1>3 DEF TypeOK
<1>5. \A g \in Changes \ {h} : change'[g] = change[g]
  BY <1>3 DEF TypeOK
<1> QED BY <1>2, <1>4, <1>5

LEMMA ProceedStep ==
  ASSUME TypeOK, NEW h \in Changes, NEW step, NEW targets, Proceed(h, step, targets)
  PROVE  /\ change'[h].step = step /\ change'[h].targets = targets
         /\ \A g \in Changes \ {h} : change'[g] = change[g]
BY DEF TypeOK, Proceed

Commits(h) == CommitAdd(h) \/ CommitRemove(h) \/ CommitInvite(h)

(* A commit leaves the connections alone; the handler then goes to find them, or
   ends and those registered are untold. *)
LEMMA CommitStep ==
  ASSUME TypeOK, NEW h \in Changes, Commits(h)
  PROVE  /\ UNCHANGED <<users, rooms, joined, closed, conn, failed>>
         /\ raced \subseteq raced' /\ untold \subseteq untold'
         /\ change[h].step = "new" /\ change'[h].targets = {}
         /\ \A g \in Changes \ {h} : change'[g] = change[g]
         /\ \/ change'[h].step = "find" /\ h.op \in {"add", "remove"}
            \/ change'[h].step = "done" /\ \A d \in users[h.user] : <<d, h.room>> \in untold'
<1>1. CASE Proceed(h, "find", {}) /\ UNCHANGED untold /\ h.op \in {"add", "remove"}
  BY <1>1, ProceedStep DEF Commits, CommitAdd, CommitRemove, CommitInvite, ChangeAt
<1>2. CASE Proceed(h, "done", {}) /\ untold' = untold \union (users[h.user] \X {h.room})
  BY <1>2, ProceedStep DEF Commits, CommitAdd, CommitRemove, CommitInvite, ChangeAt
<1> QED BY <1>1, <1>2 DEF Commits, CommitAdd, CommitRemove, CommitInvite, AnswerLost

(* What a handler's step leaves alone *)
LEMMA HandlerFrame ==
  ASSUME TypeOK, NEW h \in Changes, Handler(h)
  PROVE  /\ users' = users /\ failed' = failed /\ raced \subseteq raced' /\ untold \subseteq untold'
         /\ \A d \in Clients : /\ conn'[d].step = conn[d].step
                               /\ Listed(d) => conn'[d].todo = conn[d].todo
         /\ \A g \in Changes \ {h} : change'[g] = change[g]
         /\ ~ChangeAt(h, "done") /\ ~ChangeAt(h, "new")'
<1> USE DEF At, ChangeAt, Listed
<1>1. CASE Commits(h)
  BY <1>1, CommitStep
<1>2. CASE FindClients(h)
  <2>1. PICK step \in {"done", "apply"} : Proceed(h, step, users[h.user])
    BY <1>2 DEF FindClients
  <2> QED BY <1>2, <2>1, ProceedStep DEF FindClients
<1>3. CASE DeleteClose(h)
  BY <1>3, ProceedStep DEF DeleteClose
<1>4. CASE DeleteCommit(h)
  BY <1>4, ProceedStep DEF DeleteCommit
<1>5. ASSUME NEW c \in Clients, ApplyAdd(h, c) \/ ApplyRemove(h, c)
      PROVE  /\ users' = users /\ failed' = failed /\ raced \subseteq raced' /\ untold \subseteq untold'
             /\ \A d \in Clients : /\ conn'[d].step = conn[d].step
                                   /\ Listed(d) => conn'[d].todo = conn[d].todo
             /\ \A g \in Changes \ {h} : change'[g] = change[g]
             /\ ~ChangeAt(h, "done") /\ ~ChangeAt(h, "new")'
  <2>1. Treated(h, c) /\ c \in change[h].targets /\ change[h].step = "apply"
        /\ users' = users /\ failed' = failed /\ raced' = raced /\ untold' = untold
    BY <1>5 DEF ApplyAdd, ApplyRemove
  <2>2. \A d \in Clients : /\ conn'[d].step = conn[d].step
                           /\ Listed(d) => conn'[d].todo = conn[d].todo
    <3>1. CASE UNCHANGED conn
      BY <3>1
    <3>2. CASE At(c, "leaving") /\ Go(c, "leaving", conn[c].todo \union {h.room})
      BY <3>2, GoStep
    <3> QED BY <1>5, <3>1, <3>2 DEF ApplyAdd, ApplyRemove
  <2> QED BY <2>1, <2>2, TreatedStep
<1> QED BY <1>1, <1>2, <1>3, <1>4, <1>5 DEF Handler, Commits

(* The handler's own progress *)
LEMMA HandlerProgress ==
  ASSUME TypeOK, Roster, NEW h \in Changes, Handler(h)
  PROVE  /\ change'[h].targets \subseteq users[h.user] \union change[h].targets
         /\ Treating(h)' => h.op \in {"add", "remove"}
         /\ ChangeAt(h, "deleteRoom")' => h.op = "delete"
<1> USE DEF Treating, ChangeAt
<1>0. Treating(h) => h.op \in {"add", "remove"}
  BY DEF Roster
<1>1. CASE Commits(h)
  BY <1>1, CommitStep
<1>2. CASE FindClients(h)
  <2>1. PICK step \in {"done", "apply"} : Proceed(h, step, users[h.user])
    BY <1>2 DEF FindClients
  <2> QED BY <1>0, <1>2, <2>1, ProceedStep DEF FindClients
<1>3. CASE DeleteClose(h)
  BY <1>3, ProceedStep DEF DeleteClose
<1>4. CASE DeleteCommit(h)
  BY <1>4, ProceedStep DEF DeleteCommit
<1>5. ASSUME NEW c \in Clients, ApplyAdd(h, c) \/ ApplyRemove(h, c)
      PROVE  /\ change'[h].targets \subseteq users[h.user] \union change[h].targets
             /\ Treating(h)' => h.op \in {"add", "remove"}
             /\ ChangeAt(h, "deleteRoom")' => h.op = "delete"
  <2>1. Treated(h, c) /\ c \in change[h].targets /\ h.op \in {"add", "remove"}
    BY <1>5 DEF ApplyAdd, ApplyRemove
  <2> QED BY <2>1, TreatedStep
<1> QED BY <1>1, <1>2, <1>3, <1>4, <1>5 DEF Handler, Commits

LEMMA HandlerRoster ==
  ASSUME TypeOK, Roster, NEW h \in Changes, Handler(h)
  PROVE  Roster'
<1>a. h.user \in Users /\ h.room \in Rooms
  BY ChangesType
<1>1. \A d \in Clients, v \in Users : (d \in users[v])' <=> (v = UserOf[d] /\ Listed(d)')
  BY HandlerFrame DEF Roster, Listed, At
<1>2. ASSUME NEW d \in Clients, At(d, "new")' PROVE joined'[d] = {}
  <2>1. At(d, "new") /\ joined[d] = {}
    BY <1>2, HandlerFrame DEF Roster, At
  <2>2. \A g \in Changes : d \notin change[g].targets
    BY <2>1 DEF Roster
  <2>3. CASE \E c \in Clients : ApplyAdd(h, c) \/ ApplyRemove(h, c)
    <3>1. PICK c \in Clients : ApplyAdd(h, c) \/ ApplyRemove(h, c)
      BY <2>3
    <3>2. c \in change[h].targets /\ (JoinRoom(c, h.room) \/ LeaveRoom(c, h.room))
      BY <3>1 DEF ApplyAdd, ApplyRemove
    <3>3. d # c
      BY <2>2, <3>2
    <3> QED BY <2>1, <3>2, <3>3 DEF JoinRoom, LeaveRoom, TypeOK
  <2>4. CASE DeleteClose(h)
    BY <2>1, <2>4 DEF DeleteClose, CloseRoom
  <2>5. CASE UNCHANGED joined
    BY <2>1, <2>5
  <2> QED BY <2>3, <2>4, <2>5
          DEF Handler, CommitAdd, CommitRemove, CommitInvite, FindClients, DeleteCommit
<1>3. /\ \A g \in Changes : Treating(g)' => g.op \in {"add", "remove"}
      /\ \A g \in Changes : ChangeAt(g, "deleteRoom")' => g.op = "delete"
  BY HandlerFrame, HandlerProgress DEF Roster, Treating, ChangeAt
<1>4. ASSUME NEW g \in Changes, NEW d \in change'[g].targets
      PROVE  UserOf[d] = g.user /\ ~At(d, "new")'
  <2>1. d \in change[g].targets \/ (g = h /\ d \in users[h.user])
    BY <1>4, HandlerFrame, HandlerProgress
  <2>2. d \in Clients
    BY <2>1, <1>a DEF TypeOK
  <2>3. UserOf[d] = g.user /\ ~At(d, "new")
    BY <1>a, <2>1, <2>2 DEF Roster, Listed, At
  <2> QED BY <2>2, <2>3, HandlerFrame DEF At
<1> QED BY <1>1, <1>2, <1>3, <1>4 DEF Roster

LEMMA HandlerElsewhere ==
  ASSUME TypeOK, NEW h \in Changes, Handler(h), NEW d \in Clients, NEW r \in Rooms,
         r # h.room
  PROVE  /\ r \in joined'[d] <=> r \in joined[d]
         /\ Member(d, r)' <=> Member(d, r)
<1>a. h.room \in Rooms
  BY ChangesType
<1>1. CASE CommitAdd(h)
  BY <1>1 DEF CommitAdd, Member
<1>2. CASE CommitRemove(h)
  BY <1>2 DEF CommitRemove, Member
<1>8. CASE CommitInvite(h)
  BY <1>8 DEF CommitInvite, Member
<1>3. CASE FindClients(h)
  BY <1>3 DEF FindClients, Member
<1>4. CASE DeleteClose(h)
  BY <1>4, <1>a, CloseRoomAgrees DEF DeleteClose, Member
<1>5. CASE DeleteCommit(h)
  BY <1>5 DEF DeleteCommit, Member
<1>6. ASSUME NEW c \in Clients, ApplyAdd(h, c)
      PROVE  (r \in joined'[d] <=> r \in joined[d]) /\ (Member(d, r)' <=> Member(d, r))
  BY <1>6, <1>a, JoinRoomAgrees DEF ApplyAdd, Member
<1>7. ASSUME NEW c \in Clients, ApplyRemove(h, c)
      PROVE  (r \in joined'[d] <=> r \in joined[d]) /\ (Member(d, r)' <=> Member(d, r))
  BY <1>7, <1>a, LeaveRoomAgrees DEF ApplyRemove, Member
<1> QED BY <1>1, <1>2, <1>3, <1>4, <1>5, <1>6, <1>7, <1>8 DEF Handler

LEMMA ElsewhereSettled ==
  ASSUME TypeOK, NEW h \in Changes, Handler(h), NEW d \in Clients, NEW r \in Rooms,
         r # h.room, Settled(d, r)
  PROVE  Settled(d, r)'
<1>0. /\ failed' = failed /\ raced \subseteq raced' /\ untold \subseteq untold'
      /\ conn'[d].step = conn[d].step
      /\ Listed(d) => conn'[d].todo = conn[d].todo
      /\ \A g \in Changes : g.room = r => change'[g] = change[g]
  BY HandlerFrame
<1>1. CASE Excepted(d, r)
  BY <1>0, <1>1 DEF Settled, Excepted
<1>2. CASE ~Excepted(d, r)
  <2>1. OneAtWork(r) /\ WrittenFirst(d, r) /\ (Deleting(r) \/ Follows(d, r))
    BY <1>2 DEF Settled
  <2>2. Member(d, r)' <=> Member(d, r)
    BY HandlerElsewhere
  <2>3. OneAtWork(r)' /\ WrittenFirst(d, r)' /\ (Deleting(r)' <=> Deleting(r))
    BY <1>0, <2>1, <2>2 DEF OneAtWork, WrittenFirst, Deleting, Treating, ChangeAt
  <2>4. \A op : Covered(d, r, op)' <=> Covered(d, r, op)
    BY <1>0 DEF Covered, Covers, ChangeAt
  <2>5. Follows(d, r)' <=> Follows(d, r)
    BY <1>0, <2>2, <2>4, HandlerElsewhere DEF Follows, Listed, At
  <2> QED BY <2>1, <2>3, <2>5 DEF Settled
<1> QED BY <1>1, <1>2

(* A commit that races with no other handler of the room is the only one at work. *)
LEMMA AloneInRoom ==
  ASSUME TypeOK, NEW h \in Changes, Handler(h), ~Concurrent(h)
  PROVE  /\ \A g \in Changes : (g.room = h.room /\ Treating(g)') => g = h
         /\ \A g \in Changes : (g.room = h.room /\ Treating(g)) => g = h
         /\ \A g \in Changes : (g.room = h.room /\ ChangeAt(g, "deleteRoom")) => g = h
         /\ \A g \in Changes : (g.room = h.room /\ ChangeAt(g, "deleteRoom")') => g = h
BY HandlerFrame DEF Concurrent, Treating, ChangeAt

LEMMA CommitSettled ==
  ASSUME SubInv, NEW h \in Changes, Commits(h), NEW d \in Clients, ~Excepted(d, h.room)'
  PROVE  Settled(d, h.room)'
<1> DEFINE r == h.room
<1>a. /\ TypeOK /\ Roster /\ r \in Rooms /\ h.user \in Users /\ Settled(d, r) /\ Handler(h)
  BY ChangesType DEF SubInv, Handler, Commits
<1>b. ~Concurrent(h)
  BY <1>a DEF Commits, CommitAdd, CommitRemove, CommitInvite, Excepted
<1>c. ~Excepted(d, r)
  BY <1>a, HandlerFrame DEF Excepted
<1>d. Follows(d, r)
  <2>1. ~Deleting(r)
    BY <1>a, <1>b, CommitStep, AloneInRoom DEF Deleting, ChangeAt
  <2> QED BY <1>a, <1>c, <2>1 DEF Settled
<1>1. OneAtWork(r)'
  BY <1>a, <1>b, AloneInRoom DEF OneAtWork
<1>2. Member(d, r)' <=> IF UserOf[d] = h.user THEN h.op = "add" ELSE Member(d, r)
  BY DEF Commits, CommitAdd, CommitRemove, CommitInvite, Member
<1>3. WrittenFirst(d, r)'
  BY <1>a, <1>b, <1>2, AloneInRoom DEF WrittenFirst
<1>4. ~Covered(d, r, "add") /\ ~Covered(d, r, "remove")
  BY <1>a, <1>b, CommitStep, AloneInRoom DEF Covered, Covers, Treating, ChangeAt
<1>5. joined' = joined /\ conn' = conn
  BY <1>a, CommitStep
<1>6. Follows(d, r)'
  <2>1. CASE UserOf[d] # h.user
    BY <1>d, <1>2, <1>4, <1>5, <2>1 DEF Follows, Listed, At
  <2>2. CASE UserOf[d] = h.user /\ change'[h].step = "find"
    <3>1. h.op \in {"add", "remove"}
      BY <1>a, <2>2, CommitStep
    <3>2. Covered(d, r, h.op)'
      BY <2>2 DEF Covered, Covers, ChangeAt
    <3>3. h.op = "remove" => ~At(d, "join")
      BY <1>a, <2>2 DEF Commits, CommitAdd, CommitRemove, CommitInvite, Excepted, OfUser
    <3>4. (Listed(d) /\ ~At(d, "join")) => conn[d].todo = {}
      BY <1>a DEF TypeOK, Listed, At
    <3> QED BY <1>2, <1>5, <2>2, <3>1, <3>2, <3>3, <3>4 DEF Follows, Listed, At
  <2>3. CASE UserOf[d] = h.user /\ change'[h].step = "done"
    <3>1. d \notin users[h.user]
      BY <1>a, <2>3, CommitStep DEF Excepted
    <3>2. ~Listed(d)
      BY <1>a, <2>3, <3>1 DEF Roster
    <3> QED BY <1>5, <3>2 DEF Follows, Listed, At
  <2> QED BY <1>a, <2>1, <2>2, <2>3, CommitStep
<1> QED BY <1>1, <1>3, <1>6 DEF Settled

LEMMA FindClientsSettled ==
  ASSUME SubInv, NEW h \in Changes, FindClients(h), NEW d \in Clients, ~Excepted(d, h.room)'
  PROVE  Settled(d, h.room)'
<1> DEFINE r == h.room
<1>a. /\ TypeOK /\ Roster /\ r \in Rooms /\ Settled(d, r) /\ Handler(h) /\ h.user \in Users
  BY ChangesType DEF SubInv, Handler
<1>b. OneAtWork(r) /\ WrittenFirst(d, r) /\ (Deleting(r) \/ Follows(d, r))
  BY <1>a DEF Settled, Excepted, FindClients
<1>c. /\ UNCHANGED <<active, joined, conn>> /\ change[h].step = "find"
  BY DEF FindClients, ChangeAt
<1>d. /\ change'[h].targets = users[h.user]
      /\ change'[h].step = IF users[h.user] = {} THEN "done" ELSE "apply"
      /\ \A g \in Changes \ {h} : change'[g] = change[g]
  BY <1>a, ProceedStep DEF FindClients
<1>1. \A g \in Changes : Treating(g)' => Treating(g)
  BY <1>c, <1>d DEF Treating, ChangeAt
<1>2. OneAtWork(r)' /\ WrittenFirst(d, r)'
  BY <1>b, <1>c, <1>1 DEF OneAtWork, WrittenFirst, Member
<1>3. Deleting(r) => Deleting(r)'
  BY <1>c, <1>d DEF Deleting, ChangeAt
<1>4. Listed(d) => \A op : Covered(d, r, op) => Covered(d, r, op)'
  <2> SUFFICES ASSUME Listed(d), NEW op, NEW g \in Changes, Covers(g, d, r, op)
               PROVE  Covers(g, d, r, op)'
    BY DEF Covered
  <2>1. CASE g # h
    BY <1>d, <2>1 DEF Covers, ChangeAt
  <2>2. CASE g = h
    <3>1. d \in users[h.user]
      BY <1>a, <2>2 DEF Roster, Covers
    <3> QED BY <1>d, <2>2, <3>1 DEF Covers, ChangeAt
  <2> QED BY <2>1, <2>2
<1>5. Follows(d, r) => Follows(d, r)'
  BY <1>c, <1>4 DEF Follows, Listed, At, Member
<1> QED BY <1>b, <1>2, <1>3, <1>5 DEF Settled

LEMMA ApplySettled ==
  ASSUME SubInv, NEW h \in Changes, NEW c \in Clients, ApplyAdd(h, c) \/ ApplyRemove(h, c),
         NEW d \in Clients, ~Excepted(d, h.room)'
  PROVE  Settled(d, h.room)'
<1> DEFINE r == h.room
<1>a. /\ TypeOK /\ Roster /\ r \in Rooms /\ Settled(d, r) /\ Handler(h)
  BY ChangesType DEF SubInv, Handler
<1>b. OneAtWork(r) /\ WrittenFirst(d, r) /\ (Deleting(r) \/ Follows(d, r))
  BY <1>a DEF Settled, Excepted, ApplyAdd, ApplyRemove
<1>c. /\ active' = active /\ change[h].step = "apply" /\ c \in change[h].targets
      /\ Treated(h, c)
  BY DEF ApplyAdd, ApplyRemove, ChangeAt
<1>d. /\ change'[h].targets = change[h].targets \ {c}
      /\ change'[h].step \in {"apply", "done"}
      /\ (change'[h].step = "apply") <=> (change'[h].targets # {})
      /\ \A g \in Changes \ {h} : change'[g] = change[g]
  BY <1>a, <1>c, TreatedStep
<1>e. conn'[d].step = conn[d].step /\ (Listed(d) => conn'[d].todo = conn[d].todo)
  BY <1>a, HandlerFrame
<1>1. \A g \in Changes : Treating(g)' => Treating(g)
  BY <1>c, <1>d DEF Treating, ChangeAt
<1>2. OneAtWork(r)' /\ WrittenFirst(d, r)'
  BY <1>b, <1>c, <1>1 DEF OneAtWork, WrittenFirst, Member
<1>3. Deleting(r) => Deleting(r)'
  BY <1>c, <1>d DEF Deleting, ChangeAt
<1>4. d # c => \A op : Covered(d, r, op) => Covered(d, r, op)'
  BY <1>c, <1>d DEF Covered, Covers, ChangeAt
<1>5. \A op : Covered(d, r, op) => h.op = op
  <2> SUFFICES ASSUME NEW op, NEW g \in Changes, Covers(g, d, r, op)
               PROVE  h.op = op
    BY DEF Covered
  <2>1. Treating(g) /\ Treating(h) /\ g.room = r /\ g.op = op
    BY <1>c DEF Covers, Treating, ChangeAt
  <2> QED BY <1>b, <2>1 DEF OneAtWork
<1>6. d = c => (h.op = "add" <=> Member(d, r))
  <2>1. UserOf[c] = h.user
    BY <1>a, <1>c DEF Roster
  <2>2. Treating(h)
    BY <1>c DEF Treating, ChangeAt
  <2> QED BY <1>b, <2>1, <2>2 DEF WrittenFirst
<1>7. ASSUME Follows(d, r) PROVE Follows(d, r)'
  <2>1. CASE ApplyAdd(h, c)
    <3>1. h.op = "add" /\ (r \in joined'[d] <=> (r \in joined[d] \/ d = c))
      BY <1>a, <2>1, JoinRoomAgrees DEF ApplyAdd
    <3> QED BY <1>7, <1>c, <1>e, <1>4, <1>5, <1>6, <3>1 DEF Follows, Listed, At, Member
  <2>2. CASE ApplyRemove(h, c)
    <3>1. h.op = "remove" /\ (r \in joined'[d] <=> (r \in joined[d] /\ d # c))
      BY <1>a, <2>2, LeaveRoomAgrees DEF ApplyRemove
    <3> QED BY <1>7, <1>c, <1>e, <1>4, <1>5, <1>6, <3>1 DEF Follows, Listed, At, Member
  <2> QED BY <2>1, <2>2
<1> QED BY <1>b, <1>2, <1>3, <1>7 DEF Settled

LEMMA DeleteCloseSettled ==
  ASSUME SubInv, NEW h \in Changes, DeleteClose(h), NEW d \in Clients, ~Excepted(d, h.room)'
  PROVE  Settled(d, h.room)'
<1> DEFINE r == h.room
<1>a. /\ TypeOK /\ r \in Rooms /\ Settled(d, r)
  BY ChangesType DEF SubInv
<1>b. OneAtWork(r) /\ WrittenFirst(d, r)
  BY <1>a DEF Settled, Excepted, DeleteClose
<1>c. /\ change'[h].step = "deleteRoom" /\ active' = active
      /\ \A g \in Changes \ {h} : change'[g] = change[g]
  BY <1>a, ProceedStep DEF DeleteClose
<1>1. \A g \in Changes : Treating(g)' => Treating(g)
  BY <1>c DEF Treating, ChangeAt
<1>2. OneAtWork(r)' /\ WrittenFirst(d, r)'
  BY <1>b, <1>c, <1>1 DEF OneAtWork, WrittenFirst, Member
<1>3. Deleting(r)'
  BY <1>c DEF Deleting, ChangeAt
<1> QED BY <1>2, <1>3 DEF Settled

LEMMA DeleteCommitSettled ==
  ASSUME SubInv, NEW h \in Changes, DeleteCommit(h), NEW d \in Clients, ~Excepted(d, h.room)'
  PROVE  Settled(d, h.room)'
<1> DEFINE r == h.room
<1>a. /\ TypeOK /\ Roster /\ r \in Rooms /\ Handler(h) /\ Settled(d, r)
  BY ChangesType DEF SubInv, Handler
<1>b. change'[h].step = "done" /\ UNCHANGED <<users, joined, conn>>
  BY <1>a, ProceedStep DEF DeleteCommit
<1>1. CASE d \in users[UserOf[d]] \/ active' # active
  <2>1. active' = active \ (Users \X {r}) /\ ~Concurrent(h) /\ ~At(d, "join") /\ r \notin joined[d]
    BY <1>a, <1>1 DEF DeleteCommit, Excepted
  <2>2. \A g \in Changes : g.room = r => ~Treating(g)'
    BY <1>a, <1>b, <2>1, AloneInRoom DEF Treating, ChangeAt
  <2>3. OneAtWork(r)' /\ WrittenFirst(d, r)'
    BY <2>2 DEF OneAtWork, WrittenFirst
  <2>4. ~Member(d, r)'
    BY <2>1, ClientsType DEF Member
  <2>5. Listed(d) => conn[d].todo = {}
    BY <1>a, <2>1 DEF TypeOK, Listed, At
  <2>6. Follows(d, r)'
    BY <1>b, <2>1, <2>4, <2>5 DEF Follows, Listed, At
  <2> QED BY <2>3, <2>6 DEF Settled
<1>2. CASE d \notin users[UserOf[d]] /\ active' = active
  <2>1. OneAtWork(r) /\ WrittenFirst(d, r)
    BY <1>a, HandlerFrame DEF Settled, Excepted
  <2>2. \A g \in Changes : Treating(g)' => Treating(g)
    BY <1>a, <1>b, HandlerFrame DEF Treating, ChangeAt
  <2>3. OneAtWork(r)' /\ WrittenFirst(d, r)'
    BY <1>2, <2>1, <2>2 DEF OneAtWork, WrittenFirst, Member
  <2>4. ~Listed(d)
    BY <1>a, <1>2, ClientsType DEF Roster
  <2>5. Follows(d, r)'
    BY <1>b, <2>4 DEF Follows, Listed, At
  <2> QED BY <2>3, <2>5 DEF Settled
<1> QED BY <1>1, <1>2

LEMMA HandlerSettled ==
  ASSUME SubInv, NEW h \in Changes, Handler(h), NEW d \in Clients, NEW r \in Rooms
  PROVE  Settled(d, r)'
<1>1. CASE r # h.room
  BY <1>1, ElsewhereSettled DEF SubInv
<1>2. CASE Excepted(d, r)'
  BY <1>2 DEF Settled
<1>3. CASE r = h.room /\ ~Excepted(d, r)'
  BY <1>3, CommitSettled, FindClientsSettled, ApplySettled,
     DeleteCloseSettled, DeleteCommitSettled DEF Handler, Commits
<1> QED BY <1>1, <1>2, <1>3

LEMMA NextSubInv == SubInv /\ [Next]_vars => SubInv'
<1> SUFFICES ASSUME SubInv, [Next]_vars PROVE SubInv'
  OBVIOUS
<1>0. TypeOK /\ Roster /\ TypeOK'
  BY NextTypeOK DEF SubInv
<1>1. CASE UNCHANGED vars
  <2>1. Roster'
    BY <1>0, <1>1 DEF vars, Roster, Listed, Treating, At, ChangeAt
  <2>2. ASSUME NEW c \in Clients, NEW r \in Rooms PROVE Settled(c, r)'
    <3>1. Settled(c, r)
      BY DEF SubInv
    <3> QED BY <1>1, <3>1 DEF vars, Settled, Excepted, OneAtWork, WrittenFirst, Follows,
               Deleting, Listed, Treating, Member, Covered, Covers, At, ChangeAt
  <2> QED BY <1>0, <2>1, <2>2 DEF SubInv
<1>2. ASSUME NEW c \in Clients, Connection(c) PROVE SubInv'
  <2>1. Roster'
    BY <1>0, <1>2, ConnectionRoster
  <2>2. ASSUME NEW d \in Clients, NEW r \in Rooms PROVE Settled(d, r)'
    BY <1>0, <1>2, ConnectionSettled DEF SubInv
  <2> QED BY <1>0, <2>1, <2>2 DEF SubInv
<1>3. ASSUME NEW h \in Changes, Handler(h) PROVE SubInv'
  <2>1. Roster'
    BY <1>0, <1>3, HandlerRoster
  <2>2. ASSUME NEW d \in Clients, NEW r \in Rooms PROVE Settled(d, r)'
    BY <1>3, HandlerSettled
  <2> QED BY <1>0, <2>1, <2>2 DEF SubInv
<1> QED BY <1>1, <1>2, <1>3 DEF Next

LEMMA SubInvMatches == SubInv => SubscriptionsMatch
<1> SUFFICES ASSUME SubInv, NEW c \in Clients \ failed, NEW r \in Rooms,
                    At(c, "open"), Quiet(UserOf[c], r), <<c, r>> \notin raced \union untold
             PROVE  r \in joined[c] <=> <<UserOf[c], r>> \in active
  BY DEF SubscriptionsMatch
<1>1. TypeOK /\ Roster /\ Settled(c, r) /\ ~Excepted(c, r)
  BY DEF SubInv, Excepted
<1>2. ~Deleting(r)
  BY <1>1 DEF Deleting, Roster, Quiet, ChangeAt
<1>3. Follows(c, r)
  BY <1>1, <1>2 DEF Settled
<1>4. \A op : ~Covered(c, r, op)
  BY DEF Covered, Covers, Quiet, ChangeAt
<1>5. conn[c].todo = {}
  BY <1>1 DEF TypeOK, At
<1> QED BY <1>3, <1>4, <1>5 DEF Follows, Listed, At, Member

(* An open connection of a user on whom no handler of the room is at work is
   subscribed to the room exactly if its user is a member, for any number of
   devices, rooms and handlers: Register puts the connection in users before it
   queries, and a handler writes the row before it copies users, so each change
   is seen by the query or by the handler (or is one of the named exceptions:
   the failed query, the end of a membership during the subscription, two handlers
   at once, and the changes that the code itself tells no connection of). *)
THEOREM SubscriptionsFollowMembers == Spec => []SubscriptionsMatch
BY InitSubInv, NextSubInv, SubInvMatches, PTL DEF Spec
=============================================================================
