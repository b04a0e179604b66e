-------------------------- MODULE Matchmaking_proofs --------------------------
(***************************************************************************)
(* Machine-checked proofs about matchmaking, for every set of users and    *)
(* requests, whoever is barred from whom, any number of attempts, any      *)
(* limit of bot sessions and any number of disturbances.                   *)
(***************************************************************************)
EXTENDS Matchmaking, TLAPS, FiniteSetTheorems

-----------------------------------------------------------------------------
(* Types.  That sessionCount is a number needs the count of sessions, so the
   invariant of types leaves it out. *)

TimerStages  == {"off", "armed", "check", "remove", "start"}
RequestState == [step : RequestSteps, left : 0..MaxMatchAttempts, hand : Users \union {None}]
SkipState    == [room : Rooms \union {None}, step : {"none", "stop", "close"}]

MatchTypes ==
  /\ queue \subseteq Users
  /\ members \in [Rooms -> SUBSET (Users \union {Bot})]
  /\ request \in [Requests -> RequestState]
  /\ leaving \subseteq Users
  /\ cleanup \in [Users -> SUBSET {"remove", "cancel"}]
  /\ skip \in [Users -> SkipState]
  /\ online \subseteq Users
  /\ told \in [Users -> SUBSET Rooms]
  /\ waiting \subseteq Users /\ dropped \subseteq Users
  /\ aborted \subseteq Requests
  /\ leaves \in Nat /\ disconnects \in Nat

BotTypes ==
  /\ timer \in [Requests -> TimerStages]
  /\ entry \in [Users -> Requests \union {None}]
  /\ sessions \subseteq BotRooms
  /\ watchdog \in [BotRooms -> {"none", "stop", "close"}]
  /\ sweep \in BotRooms \union {None}
  /\ doubled \in Nat

LEMMA TypeOKSplit == TypeOK <=> MatchTypes /\ BotTypes /\ sessionCount \in Int
BY DEF TypeOK, MatchTypes, BotTypes, TimerStages, RequestState, SkipState

LEMMA RoomsAreRooms ==
  ASSUME NEW q \in Requests
  PROVE  /\ HumanRoom(q) \in Rooms /\ BotRoom(q) \in Rooms /\ BotRoom(q) \in BotRooms
         /\ \A p \in Requests : /\ HumanRoom(q) # BotRoom(p)
                                /\ HumanRoom(q) = HumanRoom(p) => q = p
                                /\ BotRoom(q) = BotRoom(p) => q = p
BY DEF Rooms, HumanRooms, BotRooms, HumanRoom, BotRoom

LEMMA CancelType ==
  ASSUME BotTypes, NEW us \in SUBSET Users
  PROVE  /\ Cancelled(us) \in [Requests -> TimerStages]
         /\ CancelBotMatch(us) => /\ timer' \in [Requests -> TimerStages]
                                  /\ entry' \in [Users -> Requests \union {None}]
<1>1. Cancelled(us) \in [Requests -> TimerStages]
  <2>1. "off" \in TimerStages
    BY DEF TimerStages
  <2> QED BY <2>1 DEF BotTypes, Cancelled
<1> QED BY <1>1 DEF BotTypes, CancelBotMatch

(* Init's records *)
LEMMA InitTypes == Init => MatchTypes /\ BotTypes
<1> SUFFICES ASSUME Init PROVE MatchTypes /\ BotTypes
  OBVIOUS
<1>1. request \in [Requests -> RequestState]
  BY AttemptsType DEF Init, RequestState, RequestSteps
<1>2. skip \in [Users -> SkipState]
  BY DEF Init, SkipState
<1>3. /\ queue \subseteq Users /\ members \in [Rooms -> SUBSET (Users \union {Bot})]
      /\ leaving \subseteq Users /\ cleanup \in [Users -> SUBSET {"remove", "cancel"}]
      /\ online \subseteq Users /\ told \in [Users -> SUBSET Rooms]
  BY DEF Init
<1>4. /\ waiting \subseteq Users /\ dropped \subseteq Users /\ aborted \subseteq Requests
      /\ leaves \in Nat /\ disconnects \in Nat
  BY DEF Init
<1>5. BotTypes
  BY DEF Init, BotTypes, TimerStages
<1> QED BY <1>1, <1>2, <1>3, <1>4, <1>5 DEF MatchTypes

LEMMA TellType ==
  ASSUME MatchTypes, NEW u \in Users, NEW r \in Rooms
  PROVE  Tell(u, r) => told' \in [Users -> SUBSET Rooms] /\ waiting' \subseteq Users
BY DEF Tell, MatchTypes

(* The steps of a request.  One that has an attempt under way has one left, and
   one that makes a room has somebody in hand who suits its user. *)
RequestOK(q, s) ==
  /\ s \in RequestState
  /\ s.step \in {"pop", "putBack"} => s.left > 0
  /\ s.step = "putBack" => s.hand \in Users
  /\ s.step \in {"members", "notifyPartner"} => /\ s.hand \in Users \ {UserOf[q]}
                                                /\ <<UserOf[q], s.hand>> \notin Barred

RequestsOK == /\ request \in [Requests -> RequestState]
              /\ \A q \in Requests : RequestOK(q, request[q])

LEMMA SetRequest ==
  ASSUME RequestsOK, NEW q \in Requests, NEW s, RequestOK(q, s),
         request' = [request EXCEPT ![q] = s]
  PROVE  RequestsOK'
<1>1. s \in RequestState
  BY DEF RequestOK
<1>2. request' \in [Requests -> RequestState]
  BY <1>1 DEF RequestsOK
<1>3. ASSUME NEW p \in Requests PROVE RequestOK(p, request'[p])
  BY DEF RequestsOK
<1> QED BY <1>2, <1>3 DEF RequestsOK

LEMMA GotoRequest ==
  ASSUME RequestsOK, NEW q \in Requests, NEW step,
         RequestOK(q, [step |-> step, left |-> request[q].left, hand |-> request[q].hand])
  PROVE  Goto(q, step) => RequestsOK'
<1> SUFFICES ASSUME Goto(q, step) PROVE RequestsOK'
  OBVIOUS
<1>1. [request[q] EXCEPT !.step = step] =
         [step |-> step, left |-> request[q].left, hand |-> request[q].hand]
  BY DEF RequestsOK, RequestState
<1>2. request' = [request EXCEPT ![q] = [request[q] EXCEPT !.step = step]]
  BY DEF Goto
<1> QED BY <1>1, <1>2, SetRequest

LEMMA FinishRequest ==
  ASSUME RequestsOK, NEW q \in Requests
  PROVE  Finish(q) => RequestsOK'
<1>1. RequestOK(q, [step |-> "done", left |-> 0, hand |-> None])
  BY AttemptsType DEF RequestOK, RequestState, RequestSteps
<1> QED BY <1>1, SetRequest DEF Finish

LEMMA AgainRequest ==
  ASSUME RequestsOK, NEW q \in Requests, request[q].step \in {"pop", "putBack"},
         request' = [request EXCEPT ![q] =
                       [step |-> Again(q), left |-> request[q].left - 1, hand |-> None]]
  PROVE  RequestsOK'
<1>0. request[q].left \in 0..MaxMatchAttempts /\ request[q].left > 0
  BY DEF RequestsOK, RequestOK, RequestState
<1>1. request[q].left \in 1..MaxMatchAttempts
  BY <1>0, AttemptsType
<1>2. Again(q) = IF request[q].left > 1 THEN "pop" ELSE "addSelf"
  BY DEF Again
<1>3. RequestOK(q, [step |-> Again(q), left |-> request[q].left - 1, hand |-> None])
  BY <1>1, <1>2, AttemptsType DEF RequestOK, RequestState, RequestSteps
<1> QED BY <1>3, SetRequest

(* What an action of a request's handler changes besides the bots' state *)
LEMMA EnterTypes ==
  ASSUME MatchTypes, RequestsOK, NEW q \in Requests, EnterMatchQueue(q) \/ Enter(q)
  PROVE  MatchTypes' /\ RequestsOK'
<1>a. UserOf[q] \in Users /\ HumanRoom(q) \in Rooms
  BY UserOfType, RoomsAreRooms
<1>b. request[q] \in RequestState /\ RequestOK(q, request[q])
  BY DEF RequestsOK
<1>c. RequestsOK' => request' \in [Requests -> RequestState]
  BY DEF RequestsOK
<1>1. CASE EnterMatchQueue(q)
  <2>1. CASE Finish(q)
    BY <1>1, <1>c, <2>1, FinishRequest DEF EnterMatchQueue, MatchTypes, bounds
  <2>2. CASE ~Finish(q)
    <3> DEFINE s == [step |-> IF MaxMatchAttempts = 0 THEN "addSelf" ELSE "pop",
                     left |-> MaxMatchAttempts, hand |-> None]
    <3>1. request' = [request EXCEPT ![q] = s]
      BY <1>1, <2>2 DEF EnterMatchQueue
    <3>2. RequestOK(q, s)
      BY AttemptsType DEF RequestOK, RequestState, RequestSteps
    <3>3. RequestsOK'
      BY <3>1, <3>2, SetRequest
    <3> QED BY <1>1, <1>c, <3>3 DEF EnterMatchQueue, MatchTypes, bounds
  <2> QED BY <2>1, <2>2
<1>2. CASE PopPartner(q)
  <2>1. CASE Goto(q, "addSelf") /\ UNCHANGED queue
    <3>1. RequestOK(q, [step |-> "addSelf", left |-> request[q].left, hand |-> request[q].hand])
      BY <1>b DEF RequestOK, RequestState, RequestSteps
    <3>2. RequestsOK'
      BY <2>1, <3>1, GotoRequest
    <3> QED BY <1>2, <1>c, <2>1, <3>2 DEF PopPartner, MatchTypes, bounds
  <2>2. CASE ~(Goto(q, "addSelf") /\ UNCHANGED queue)
    <3>1. PICK p \in queue :
            /\ queue' = queue \ {p}
            /\ request' = [request EXCEPT ![q] =
                 IF p = UserOf[q]
                   THEN [step |-> Again(q), left |-> @.left - 1, hand |-> None]
                   ELSE [@ EXCEPT !.hand = p,
                            !.step = IF <<UserOf[q], p>> \in Barred THEN "putBack"
                                                                    ELSE "members"]]
      BY <1>2, <2>2 DEF PopPartner
    <3>2. request[q].step = "pop"
      BY <1>2 DEF PopPartner
    <3>3. ASSUME p = UserOf[q] PROVE RequestsOK'
      <4>1. request' = [request EXCEPT ![q] =
                          [step |-> Again(q), left |-> request[q].left - 1, hand |-> None]]
        BY <3>1, <3>3
      <4> QED BY <3>2, <4>1, AgainRequest
    <3>4. ASSUME p # UserOf[q] PROVE RequestsOK'
      <4> DEFINE s == [step |-> IF <<UserOf[q], p>> \in Barred THEN "putBack" ELSE "members",
                       left |-> request[q].left, hand |-> p]
      <4> DEFINE t == IF <<UserOf[q], p>> \in Barred THEN "putBack" ELSE "members"
      <4>a. [request[q] EXCEPT !.hand = p] =
               [step |-> request[q].step, left |-> request[q].left, hand |-> p]
        BY <1>b DEF RequestState
      <4>b. ASSUME NEW to
            PROVE  [[step |-> request[q].step, left |-> request[q].left, hand |-> p]
                      EXCEPT !.step = to]
                     = [step |-> to, left |-> request[q].left, hand |-> p]
        OBVIOUS
      <4>0. [[request[q] EXCEPT !.hand = p] EXCEPT !.step = t] = s
        BY <4>a, <4>b
      <4>1. request' = [request EXCEPT ![q] = [[request[q] EXCEPT !.hand = p] EXCEPT !.step = t]]
        BY <3>1, <3>4
      <4>2. p \in Users
        BY <3>1 DEF MatchTypes
      <4>3. RequestOK(q, s)
        BY <1>b, <3>2, <3>4, <4>2 DEF RequestOK, RequestState, RequestSteps
      <4> QED BY <4>0, <4>1, <4>3, SetRequest
    <3>5. RequestsOK'
      BY <3>3, <3>4
    <3> QED BY <1>2, <1>c, <3>1, <3>5 DEF PopPartner, MatchTypes, bounds
  <2> QED BY <2>1, <2>2
<1>3. CASE PutBack(q)
  <2>1. RequestsOK'
    BY <1>3, AgainRequest DEF PutBack
  <2>2. queue' \subseteq Users
    BY <1>3, <1>b DEF PutBack, RequestOK, MatchTypes
  <2> QED BY <1>3, <1>c, <2>1, <2>2 DEF PutBack, MatchTypes, bounds
<1>4. CASE MakeRoom(q)
  <2>1. RequestOK(q, [step |-> "notifyPartner", left |-> request[q].left,
                      hand |-> request[q].hand])
    BY <1>4, <1>b DEF MakeRoom, RequestOK, RequestState, RequestSteps
  <2>2. RequestsOK'
    BY <1>4, <2>1, GotoRequest DEF MakeRoom
  <2>3. request[q].hand \in Users
    BY <1>4, <1>b DEF MakeRoom, RequestOK
  <2>4. members' \in [Rooms -> SUBSET (Users \union {Bot})]
    BY <1>4, <1>a, <2>3 DEF MakeRoom, MatchTypes
  <2>5. told' \in [Users -> SUBSET Rooms] /\ waiting' \subseteq Users
    BY <1>4, <1>a, TellType DEF MakeRoom, MatchTypes
  <2> QED BY <1>4, <1>c, <2>2, <2>4, <2>5 DEF MakeRoom, MatchTypes, bounds
<1>5. CASE NotifyPartner(q)
  <2>1. RequestsOK'
    BY <1>5, FinishRequest DEF NotifyPartner
  <2>2. request[q].hand \in Users
    BY <1>5, <1>b DEF NotifyPartner, RequestOK
  <2>3. told' \in [Users -> SUBSET Rooms] /\ waiting' \subseteq Users
    BY <1>5, <1>a, <2>2, TellType DEF NotifyPartner, MatchTypes
  <2> QED BY <1>5, <1>c, <2>1, <2>3 DEF NotifyPartner, MatchTypes, bounds
<1>6. CASE AddSelf(q)
  <2>1. RequestOK(q, [step |-> "schedule", left |-> request[q].left, hand |-> request[q].hand])
    BY <1>b DEF RequestOK, RequestState, RequestSteps
  <2>2. RequestsOK'
    BY <1>6, <2>1, GotoRequest DEF AddSelf
  <2> QED BY <1>6, <1>a, <1>c, <2>2 DEF AddSelf, MatchTypes, bounds
<1>7. CASE Schedule(q)
  BY <1>7, <1>c, FinishRequest DEF Schedule, MatchTypes, bounds
<1> QED BY <1>1, <1>2, <1>3, <1>4, <1>5, <1>6, <1>7 DEF Enter

(* The actions of users, of the pool and of the bots *)
UserAction(u) == \/ LeaveMatchQueue(u) \/ LeaveCancel(u)
                 \/ Disconnect(u) \/ OfflineRemove(u) \/ OfflineCancel(u) \/ Connect(u)
                 \/ SkipStop(u) \/ SkipClose(u)
                 \/ \E r \in Rooms : Skip(u, r)
Watchdog(r) == WatchdogDecides(r) \/ WatchdogStops(r) \/ WatchdogCloses(r)
Sweeper == SweepEnds \/ \E q \in Requests : SweepLoads(q)

LEMMA NextActions ==
  Next <=> \/ \E q \in Requests : EnterMatchQueue(q) \/ Enter(q)
           \/ \E q \in Requests : Abort(q)
           \/ \E q \in Requests : BotMatch(q)
           \/ \E u \in Users : UserAction(u)
           \/ \E r \in BotRooms : Watchdog(r)
           \/ Sweeper
BY DEF Next, UserAction, Watchdog, Sweeper

LEMMA OtherTypes ==
  ASSUME MatchTypes,
         \/ \E q \in Requests : Abort(q)
         \/ \E q \in Requests : BotMatch(q)
         \/ \E u \in Users : UserAction(u)
         \/ \E r \in BotRooms : Watchdog(r)
         \/ Sweeper
  PROVE  MatchTypes' /\ UNCHANGED request
<1> USE DEF MatchTypes, handlers, bounds
<1>0. \A r \in Rooms : [members EXCEPT ![r] = {}] \in [Rooms -> SUBSET (Users \union {Bot})]
  OBVIOUS
<1>1. ASSUME NEW q \in Requests, Abort(q) PROVE MatchTypes' /\ UNCHANGED request
  BY <1>1 DEF Abort
<1>2. ASSUME NEW q \in Requests, BotMatch(q) PROVE MatchTypes' /\ UNCHANGED request
  <2>1. CASE TimerFires(q)
    BY <2>1 DEF TimerFires
  <2>2. CASE BotCheck(q)
    BY <2>2 DEF BotCheck
  <2>3. CASE BotRemove(q)
    <3>1. UserOf[q] \in Users
      BY UserOfType
    <3>2. queue' \subseteq Users /\ dropped' \subseteq Users
      BY <2>3, <3>1 DEF BotRemove
    <3> QED BY <2>3, <3>2 DEF BotRemove
  <2>4. CASE BotStart(q)
    <3>1. UserOf[q] \in Users /\ BotRoom(q) \in Rooms
      BY UserOfType, RoomsAreRooms
    <3>2. told' \in [Users -> SUBSET Rooms] /\ waiting' \subseteq Users
      BY <2>4, <3>1, TellType DEF BotStart
    <3>3. members' \in [Rooms -> SUBSET (Users \union {Bot})]
      BY <2>4, <3>1 DEF BotStart
    <3> QED BY <2>4, <3>2, <3>3 DEF BotStart
  <2> QED BY <1>2, <2>1, <2>2, <2>3, <2>4 DEF BotMatch
<1>3. ASSUME NEW u \in Users, UserAction(u) PROVE MatchTypes' /\ UNCHANGED request
  <2>1. CASE LeaveMatchQueue(u)
    BY <2>1 DEF LeaveMatchQueue
  <2>2. CASE LeaveCancel(u)
    BY <2>2 DEF LeaveCancel
  <2>3. CASE Disconnect(u)
    BY <2>3 DEF Disconnect
  <2>4. CASE OfflineRemove(u)
    BY <2>4 DEF OfflineRemove
  <2>5. CASE OfflineCancel(u)
    BY <2>5 DEF OfflineCancel
  <2>6. CASE Connect(u)
    BY <2>6 DEF Connect
  <2>7. CASE SkipStop(u)
    <3>1. skip' \in [Users -> SkipState]
      BY <2>7 DEF SkipStop, SkipState
    <3> QED BY <2>7, <3>1 DEF SkipStop
  <2>8. CASE SkipClose(u)
    <3>1. [room |-> None, step |-> "none"] \in SkipState
      BY DEF SkipState
    <3>2. skip' \in [Users -> SkipState]
      BY <2>8, <3>1 DEF SkipClose
    <3>3. members' \in [Rooms -> SUBSET (Users \union {Bot})]
      BY <2>8 DEF SkipClose
    <3> QED BY <2>8, <3>2, <3>3 DEF SkipClose
  <2>9. ASSUME NEW r \in Rooms, Skip(u, r) PROVE MatchTypes' /\ UNCHANGED request
    <3>1. [room |-> r, step |-> "stop"] \in SkipState /\ [room |-> r, step |-> "close"] \in SkipState
      BY DEF SkipState
    <3>2. skip' \in [Users -> SkipState]
      BY <2>9, <3>1 DEF Skip
    <3> QED BY <2>9, <3>2 DEF Skip
  <2> QED BY <1>3, <2>1, <2>2, <2>3, <2>4, <2>5, <2>6, <2>7, <2>8, <2>9 DEF UserAction
<1>4. ASSUME NEW r \in BotRooms, Watchdog(r) PROVE MatchTypes' /\ UNCHANGED request
  BY <1>0, <1>4 DEF Watchdog, WatchdogDecides, WatchdogStops, WatchdogCloses, Rooms
<1>5. CASE Sweeper
  BY <1>5 DEF Sweeper, SweepLoads, SweepEnds
<1> QED BY <1>1, <1>2, <1>3, <1>4, <1>5

LEMMA BotTypesNext ==
  ASSUME MatchTypes, RequestsOK, BotTypes, Next
  PROVE  BotTypes'
<1> USE DEF BotTypes, bots, ends
<1>0. {"off", "armed", "check", "remove", "start"} = TimerStages
  BY DEF TimerStages
<1>1. ASSUME NEW q \in Requests, EnterMatchQueue(q) \/ Enter(q) PROVE BotTypes'
  <2>1. CASE \/ EnterMatchQueue(q) \/ PopPartner(q) \/ PutBack(q) \/ MakeRoom(q) \/ AddSelf(q)
    BY <2>1 DEF EnterMatchQueue, PopPartner, PutBack, MakeRoom, AddSelf
  <2>2. CASE NotifyPartner(q)
    <3>1. {UserOf[q], request[q].hand} \in SUBSET Users
      BY <2>2, UserOfType DEF NotifyPartner, RequestsOK, RequestOK
    <3> QED BY <2>2, <3>1, CancelType DEF NotifyPartner
  <2>3. CASE Schedule(q)
    <3>1. UserOf[q] \in Users
      BY UserOfType
    <3>2. Cancelled({UserOf[q]}) \in [Requests -> TimerStages]
      BY <3>1, CancelType
    <3> QED BY <2>3, <3>1, <3>2, <1>0 DEF Schedule, ScheduleBotMatch
  <2> QED BY <1>1, <2>1, <2>2, <2>3 DEF Enter
<1>2. ASSUME NEW q \in Requests, Abort(q) PROVE BotTypes'
  BY <1>2 DEF Abort
<1>3. ASSUME NEW q \in Requests, BotMatch(q) PROVE BotTypes'
  <2>1. UserOf[q] \in Users /\ BotRoom(q) \in BotRooms
    BY UserOfType, RoomsAreRooms
  <2>2. \A stage \in TimerStages : [timer EXCEPT ![q] = stage] \in [Requests -> TimerStages]
    OBVIOUS
  <2>3. timer' \in [Requests -> TimerStages]
    BY <1>0, <1>3, <2>2 DEF BotMatch, TimerFires, BotCheck, BotRemove, BotStart
  <2> QED BY <1>3, <2>1, <2>3 DEF BotMatch, TimerFires, BotCheck, BotRemove, BotStart
<1>4. ASSUME NEW u \in Users, UserAction(u) PROVE BotTypes'
  <2>1. CASE LeaveCancel(u) \/ OfflineCancel(u)
    <3>1. {u} \in SUBSET Users /\ CancelBotMatch({u})
      BY <2>1 DEF LeaveCancel, OfflineCancel
    <3> QED BY <2>1, <3>1, CancelType DEF LeaveCancel, OfflineCancel
  <2>2. CASE ~(LeaveCancel(u) \/ OfflineCancel(u))
    BY <1>4, <2>2 DEF UserAction, LeaveMatchQueue, Disconnect, OfflineRemove, Connect,
                      SkipStop, SkipClose, Skip, StopBotSession
  <2> QED BY <2>1, <2>2
<1>5. ASSUME NEW r \in BotRooms, Watchdog(r) PROVE BotTypes'
  BY <1>5 DEF Watchdog, WatchdogDecides, WatchdogStops, WatchdogCloses, StopBotSession
<1>6. CASE Sweeper
  BY <1>6, RoomsAreRooms DEF Sweeper, SweepLoads, SweepEnds
<1> QED BY <1>1, <1>2, <1>3, <1>4, <1>5, <1>6, NextActions

LEMMA NextTypes ==
  ASSUME MatchTypes, RequestsOK, BotTypes, [Next]_vars
  PROVE  MatchTypes' /\ RequestsOK' /\ BotTypes'
<1>1. CASE UNCHANGED vars
  BY <1>1 DEF vars, handlers, bots, ends, bounds, MatchTypes, RequestsOK, BotTypes
<1>2. CASE Next
  <2>1. BotTypes'
    BY <1>2, BotTypesNext
  <2>2. CASE \E q \in Requests : EnterMatchQueue(q) \/ Enter(q)
    BY <2>1, <2>2, EnterTypes
  <2>3. CASE ~\E q \in Requests : EnterMatchQueue(q) \/ Enter(q)
    <3>1. MatchTypes' /\ UNCHANGED request
      BY <1>2, <2>3, NextActions, OtherTypes
    <3> QED BY <2>1, <3>1 DEF RequestsOK
  <2> QED BY <2>2, <2>3
<1> QED BY <1>1, <1>2

LEMMA InitRequestsOK == Init => RequestsOK
<1> SUFFICES ASSUME Init PROVE RequestsOK
  OBVIOUS
<1>1. request \in [Requests -> RequestState]
  BY InitTypes DEF MatchTypes
<1>2. \A q \in Requests : request[q].step = "new"
  BY DEF Init
<1> QED BY <1>1, <1>2 DEF RequestsOK, RequestOK

-----------------------------------------------------------------------------
(* Rooms of humans are fair. *)

FairRoom(m) == m # {} => /\ Cardinality(m) = 2 /\ m \subseteq Users
                         /\ \A u, v \in m : <<u, v>> \notin Barred

LEMMA PairIsFair ==
  ASSUME NEW u \in Users, NEW v \in Users, u # v, <<u, v>> \notin Barred
  PROVE  FairRoom({u, v})
<1>1. Cardinality({u, v}) = 2
  <2>1. IsFiniteSet({u}) /\ Cardinality({u}) = 1
    BY FS_Singleton
  <2>2. Cardinality({u} \union {v}) = 2
    BY <2>1, FS_AddElement
  <2>3. {u} \union {v} = {u, v}
    OBVIOUS
  <2> QED BY <2>2, <2>3
<1>2. \A a, b \in {u, v} : <<a, b>> \notin Barred
  BY BarredType
<1> QED BY <1>1, <1>2 DEF FairRoom

LEMMA NextRoomsAreFair ==
  ASSUME MatchTypes, RequestsOK, HumanRoomsAreFair, [Next]_vars
  PROVE  HumanRoomsAreFair'
<1>0. \A p \in Requests : FairRoom(members[HumanRoom(p)])
  BY DEF HumanRoomsAreFair, FairRoom
<1> SUFFICES ASSUME NEW p \in Requests PROVE FairRoom(members'[HumanRoom(p)])
  BY DEF HumanRoomsAreFair, FairRoom
<1>a. HumanRoom(p) \in Rooms
  BY RoomsAreRooms
<1>b. FairRoom({})
  BY DEF FairRoom
<1>c. \A r : members' = [members EXCEPT ![r] = {}] => FairRoom(members'[HumanRoom(p)])
  BY <1>0, <1>a, <1>b DEF MatchTypes
<1>1. CASE UNCHANGED members
  BY <1>0, <1>1
<1>2. ASSUME NEW q \in Requests, MakeRoom(q), ~UNCHANGED members
      PROVE  FairRoom(members'[HumanRoom(p)])
  <2>1. members' = [members EXCEPT ![HumanRoom(q)] = {UserOf[q], request[q].hand}]
    BY <1>2 DEF MakeRoom
  <2>2. /\ UserOf[q] \in Users /\ request[q].hand \in Users \ {UserOf[q]}
        /\ <<UserOf[q], request[q].hand>> \notin Barred
    BY <1>2, UserOfType DEF MakeRoom, RequestsOK, RequestOK
  <2>3. FairRoom({UserOf[q], request[q].hand})
    BY <2>2, PairIsFair
  <2>4. members'[HumanRoom(p)] \in {members[HumanRoom(p)], {UserOf[q], request[q].hand}}
    BY <2>1, <1>a DEF MatchTypes
  <2> QED BY <1>0, <2>3, <2>4
<1>3. ASSUME NEW q \in Requests, BotStart(q) PROVE FairRoom(members'[HumanRoom(p)])
  <2>1. HumanRoom(p) # BotRoom(q)
    BY RoomsAreRooms
  <2>2. members'[HumanRoom(p)] = members[HumanRoom(p)]
    BY <1>3, <1>a, <2>1 DEF BotStart, MatchTypes
  <2> QED BY <1>0, <2>2
<1>4. ASSUME NEW u \in Users, SkipClose(u) PROVE FairRoom(members'[HumanRoom(p)])
  BY <1>4, <1>c DEF SkipClose
<1>5. ASSUME NEW r \in BotRooms, WatchdogCloses(r) PROVE FairRoom(members'[HumanRoom(p)])
  BY <1>5, <1>c DEF WatchdogCloses
<1>6. ASSUME Next, ~UNCHANGED members
      PROVE  \/ \E q \in Requests : MakeRoom(q) \/ BotStart(q)
             \/ \E u \in Users : SkipClose(u)
             \/ \E r \in BotRooms : WatchdogCloses(r)
  <2>1. ASSUME NEW q \in Requests, EnterMatchQueue(q) \/ Enter(q) PROVE MakeRoom(q)
    BY <1>6, <2>1 DEF EnterMatchQueue, Enter, PopPartner, PutBack, NotifyPartner, AddSelf, Schedule
  <2>2. ASSUME NEW q \in Requests, BotMatch(q) PROVE BotStart(q)
    BY <1>6, <2>2 DEF BotMatch, TimerFires, BotCheck, BotRemove
  <2>3. ASSUME NEW u \in Users, UserAction(u) PROVE SkipClose(u)
    BY <1>6, <2>3 DEF UserAction, LeaveMatchQueue, LeaveCancel, Disconnect, OfflineRemove,
                      OfflineCancel, Connect, SkipStop, Skip
  <2>4. ASSUME NEW r \in BotRooms, Watchdog(r) PROVE WatchdogCloses(r)
    BY <1>6, <2>4 DEF Watchdog, WatchdogDecides, WatchdogStops
  <2>5. ~Sweeper /\ \A q \in Requests : ~Abort(q)
    BY <1>6 DEF Abort, Sweeper, SweepLoads, SweepEnds
  <2> QED BY <1>6, <2>1, <2>2, <2>3, <2>4, <2>5, NextActions
<1> QED BY <1>1, <1>2, <1>3, <1>4, <1>5, <1>6 DEF vars

(* The bot service and the ends of matches included, a room of humans never
   holds a user twice, a third user, or two users one of whom blocked the other
   or who are friends already: a partner is in hand only past the check. *)
THEOREM HumanRoomsStayFair == Spec => []HumanRoomsAreFair
<1> DEFINE Inv == MatchTypes /\ RequestsOK /\ BotTypes /\ HumanRoomsAreFair
<1>1. Init => HumanRoomsAreFair
  BY RoomsAreRooms DEF Init, HumanRoomsAreFair
<1>2. Init => Inv
  BY <1>1, InitTypes, InitRequestsOK
<1>3. Inv /\ [Next]_vars => Inv'
  BY NextTypes, NextRoomsAreFair
<1> QED BY <1>2, <1>3, PTL DEF Spec

-----------------------------------------------------------------------------
(* The count of sessions.  A request has one timer in its life, set as the
   request ends, and a session at most once, after its timer: a session that
   starts is therefore a new one. *)

Once(q) == /\ timer[q] # "off" => request[q].step = "done"
           /\ BotRoom(q) \in sessions => request[q].step = "done" /\ timer[q] = "off"

Counted == /\ IsFiniteSet(sessions) /\ IsFiniteSet(Admitted)
           /\ sessionCount \in Int
           /\ SessionsCounted

CountInv == /\ MatchTypes /\ RequestsOK /\ BotTypes
            /\ \A q \in Requests : Once(q)
            /\ Counted

(* What an action may do to the timer and the session of a request *)
LEMMA CancelEffect ==
  ASSUME BotTypes, NEW us
  PROVE  \A q \in Requests : /\ Cancelled(us)[q] # timer[q] => timer[q] = "armed"
                             /\ Cancelled(us)[q] \in {timer[q], "off"}
BY DEF Cancelled

LEMMA RequestStepsOnce ==
  ASSUME CountInv, NEW q \in Requests, EnterMatchQueue(q) \/ Enter(q)
  PROVE  /\ \A p \in Requests : Once(p)'
         /\ UNCHANGED <<sessions, sessionCount, doubled>>
         /\ Admitted' = Admitted
<1> USE DEF bots, ends
<1>0. BotTypes /\ RequestsOK /\ \A p \in Requests : Once(p)
  BY DEF CountInv
<1>1. CASE \/ EnterMatchQueue(q) \/ PopPartner(q) \/ PutBack(q) \/ MakeRoom(q) \/ AddSelf(q)
  <2>1. UNCHANGED <<timer, sessions, sessionCount, doubled>>
    BY <1>1 DEF EnterMatchQueue, PopPartner, PutBack, MakeRoom, AddSelf
  <2>2. request[q].step # "done"
    BY <1>1 DEF EnterMatchQueue, PopPartner, PutBack, MakeRoom, AddSelf
  <2>3. \A p \in Requests \ {q} : request'[p] = request[p]
    BY <1>0, <1>1 DEF EnterMatchQueue, PopPartner, PutBack, MakeRoom, AddSelf, Goto, Finish,
                      RequestsOK
  <2> QED BY <1>0, <2>1, <2>2, <2>3 DEF Once, Admitted
<1>2. CASE NotifyPartner(q)
  <2>1. UNCHANGED <<sessions, sessionCount, doubled>> /\ timer' = Cancelled({UserOf[q], request[q].hand})
    BY <1>2 DEF NotifyPartner, CancelBotMatch
  <2>2. \A p \in Requests : request'[p].step = "done" \/ request'[p] = request[p]
    BY <1>0, <1>2 DEF NotifyPartner, Finish, RequestsOK
  <2>3. \A p \in Requests : /\ timer'[p] # timer[p] => timer[p] = "armed"
                            /\ timer'[p] \in {timer[p], "off"}
    BY <1>0, <2>1, CancelEffect
  <2> QED BY <1>0, <2>1, <2>2, <2>3 DEF Once, Admitted
<1>3. CASE Schedule(q)
  <2>1. UNCHANGED <<sessions, sessionCount, doubled>>
    BY <1>3 DEF Schedule
  <2>2. /\ request'[q].step = "done"
        /\ \A p \in Requests \ {q} : request'[p] = request[p]
    BY <1>0, <1>3 DEF Schedule, Finish, RequestsOK
  <2>3. timer[q] = "off" /\ BotRoom(q) \notin sessions
    BY <1>0, <1>3 DEF Once, Schedule
  <2>4. \A p \in Requests : Cancelled({UserOf[q]})[p] \in {timer[p], "off"}
                            /\ (Cancelled({UserOf[q]})[p] # timer[p] => timer[p] = "armed")
    BY <1>0, CancelEffect
  <2>5. Cancelled({UserOf[q]}) = [p \in Requests |-> Cancelled({UserOf[q]})[p]]
    BY DEF Cancelled
  <2>6. /\ timer'[q] = "armed"
        /\ \A p \in Requests \ {q} : timer'[p] = Cancelled({UserOf[q]})[p]
    BY <1>3, <2>5 DEF Schedule, ScheduleBotMatch
  <2> QED BY <1>0, <2>1, <2>2, <2>3, <2>4, <2>6 DEF Once, Admitted
<1> QED BY <1>1, <1>2, <1>3 DEF Enter

LEMMA StopCounts ==
  ASSUME CountInv, NEW r, StopBotSession(r), UNCHANGED <<timer, request, doubled>>
  PROVE  Counted' /\ \A p \in Requests : Once(p)'
<1>0. Counted /\ doubled \in Nat /\ \A p \in Requests : Once(p)
  BY DEF CountInv, BotTypes
<1>1. Admitted' = Admitted
  BY DEF Admitted
<1>2. CASE r \in sessions
  <2>1. sessions' = sessions \ {r} /\ sessionCount' = sessionCount - 1
    BY <1>2 DEF StopBotSession
  <2>2. /\ IsFiniteSet(sessions \ {r})
        /\ Cardinality(sessions \ {r}) = Cardinality(sessions) - 1
    BY <1>0, <1>2, FS_RemoveElement DEF Counted
  <2>3. Cardinality(sessions) \in Nat /\ Cardinality(Admitted) \in Nat
    BY <1>0, FS_CardinalityType DEF Counted
  <2>4. Counted'
    BY <1>0, <1>1, <2>1, <2>2, <2>3, AttemptsType DEF Counted, SessionsCounted
  <2>5. \A p \in Requests : Once(p)'
    BY <1>0, <2>1 DEF Once
  <2> QED BY <2>4, <2>5
<1>3. CASE r \notin sessions
  BY <1>0, <1>1, <1>3 DEF StopBotSession, Counted, SessionsCounted, Once
<1> QED BY <1>2, <1>3

LEMMA BotMatchCounts ==
  ASSUME CountInv, NEW q \in Requests, BotMatch(q)
  PROVE  Counted' /\ \A p \in Requests : Once(p)'
<1>0. BotTypes /\ Counted /\ \A p \in Requests : Once(p)
  BY DEF CountInv
<1>a. /\ timer[q] # "off" /\ UNCHANGED request
      /\ \A p \in Requests \ {q} : timer'[p] = timer[p]
  BY <1>0 DEF BotMatch, TimerFires, BotCheck, BotRemove, BotStart, BotTypes, handlers
<1>b. request[q].step = "done" /\ BotRoom(q) \notin sessions
  BY <1>0, <1>a DEF Once
<1>c. /\ Cardinality(sessions) \in Nat /\ Cardinality(Admitted) \in Nat
      /\ sessionCount \in Int /\ doubled \in Nat /\ UNCHANGED doubled
  BY <1>0, FS_CardinalityType
    DEF Counted, BotTypes, BotMatch, TimerFires, BotCheck, BotRemove, BotStart, ends
<1>1. CASE UNCHANGED <<sessions, sessionCount, doubled>>
  <2>1. timer[q] # "start" /\ timer'[q] # "start"
    <3>2. CASE TimerFires(q) \/ BotCheck(q)
      BY <1>0, <3>2 DEF TimerFires, BotCheck, BotTypes
    <3>3. CASE BotRemove(q)
      BY <1>0, <1>1, <1>c, <3>3 DEF BotRemove, BotTypes
    <3>4. ~BotStart(q)
      BY <1>1, <1>b DEF BotStart
    <3> QED BY <3>2, <3>3, <3>4 DEF BotMatch
  <2>2. Admitted' = Admitted
    BY <1>a, <2>1 DEF Admitted
  <2> QED BY <1>0, <1>1, <1>a, <1>b, <2>2 DEF Counted, SessionsCounted, Once
<1>2. CASE BotRemove(q) /\ timer'[q] = "start"
  <2>1. /\ UNCHANGED sessions /\ timer[q] # "start"
        /\ sessionCount' = sessionCount + 1 /\ ~(sessionCount >= MaxBotSessions)
    BY <1>0, <1>2 DEF BotRemove, BotTypes
  <2>2. Admitted' = Admitted \union {q} /\ q \notin Admitted
    BY <1>2, <1>a, <2>1 DEF Admitted
  <2>3. /\ IsFiniteSet(Admitted \union {q})
        /\ Cardinality(Admitted \union {q}) = Cardinality(Admitted) + 1
    BY <1>0, <2>2, FS_AddElement DEF Counted
  <2>4. Counted'
    BY <1>0, <1>c, <2>1, <2>2, <2>3, AttemptsType DEF Counted, SessionsCounted
  <2> QED BY <1>0, <1>a, <1>b, <2>1, <2>4 DEF Once
<1>3. CASE BotStart(q)
  <2>1. /\ timer[q] = "start" /\ timer'[q] = "off"
        /\ sessions' = sessions \union {BotRoom(q)} /\ UNCHANGED sessionCount
    BY <1>0, <1>3 DEF BotStart, BotTypes
  <2>2. Admitted' = Admitted \ {q} /\ q \in Admitted
    BY <1>a, <2>1 DEF Admitted
  <2>3. /\ IsFiniteSet(Admitted \ {q})
        /\ Cardinality(Admitted \ {q}) = Cardinality(Admitted) - 1
    BY <1>0, <2>2, FS_RemoveElement DEF Counted
  <2>4. /\ IsFiniteSet(sessions \union {BotRoom(q)})
        /\ Cardinality(sessions \union {BotRoom(q)}) = Cardinality(sessions) + 1
    BY <1>0, <1>b, FS_AddElement DEF Counted
  <2>5. Counted'
    BY <1>0, <1>c, <2>1, <2>2, <2>3, <2>4 DEF Counted, SessionsCounted
  <2>6. \A p \in Requests : p # q => (BotRoom(p) \in sessions' <=> BotRoom(p) \in sessions)
    BY <2>1, RoomsAreRooms
  <2>7. \A p \in Requests : Once(p)'
    BY <1>0, <1>a, <1>b, <2>1, <2>6 DEF Once
  <2> QED BY <2>5, <2>7
<1>4. UNCHANGED <<sessions, sessionCount, doubled>> \/ BotStart(q) \/ (BotRemove(q) /\ timer'[q] = "start")
  BY <1>0, <1>c DEF BotMatch, TimerFires, BotCheck, BotRemove, BotTypes
<1> QED BY <1>1, <1>2, <1>3, <1>4

LEMMA OthersCount ==
  ASSUME CountInv,
         \/ \E q \in Requests : Abort(q)
         \/ \E u \in Users : UserAction(u)
         \/ \E r \in BotRooms : Watchdog(r)
         \/ Sweeper
  PROVE  Counted' /\ \A p \in Requests : Once(p)'
<1> USE DEF handlers, bots, ends
<1>0. BotTypes /\ Counted /\ \A p \in Requests : Once(p)
  BY DEF CountInv
<1>1. CASE UNCHANGED <<timer, request, sessions, sessionCount, doubled>>
  BY <1>0, <1>1 DEF Counted, SessionsCounted, Admitted, Once
<1>2. ASSUME NEW u \in Users, LeaveCancel(u) \/ OfflineCancel(u)
      PROVE  Counted' /\ \A p \in Requests : Once(p)'
  <2>1. timer' = Cancelled({u}) /\ UNCHANGED <<request, sessions, sessionCount, doubled>>
    BY <1>2 DEF LeaveCancel, OfflineCancel, CancelBotMatch
  <2>2. \A p \in Requests : /\ timer'[p] # timer[p] => timer[p] = "armed"
                            /\ timer'[p] \in {timer[p], "off"}
    BY <1>0, <2>1, CancelEffect
  <2>3. Admitted' = Admitted
    BY <2>2 DEF Admitted
  <2> QED BY <1>0, <2>1, <2>2, <2>3 DEF Counted, SessionsCounted, Once
<1>3. ASSUME NEW u \in Users, SkipStop(u)
      PROVE  Counted' /\ \A p \in Requests : Once(p)'
  BY <1>3, StopCounts DEF SkipStop
<1>4. ASSUME NEW r \in BotRooms, WatchdogStops(r)
      PROVE  Counted' /\ \A p \in Requests : Once(p)'
  BY <1>4, StopCounts DEF WatchdogStops
<1>5. CASE SweepEnds
  <2>1. /\ UNCHANGED <<timer, request, sessions>>
        /\ \/ UNCHANGED <<sessionCount, doubled>>
           \/ sessionCount' = sessionCount - 1 /\ doubled' = doubled + 1
    BY <1>5 DEF SweepEnds
  <2>2. doubled \in Nat /\ sessionCount \in Int
    BY <1>0 DEF Counted, BotTypes
  <2>3. Admitted' = Admitted
    BY <2>1 DEF Admitted
  <2>4. Counted'
    BY <1>0, <2>1, <2>2, <2>3, AttemptsType DEF Counted, SessionsCounted
  <2>5. \A p \in Requests : Once(p)'
    BY <1>0, <2>1 DEF Once
  <2> QED BY <2>4, <2>5
<1>6. \/ UNCHANGED <<timer, request, sessions, sessionCount, doubled>>
      \/ SweepEnds
      \/ \E u \in Users : LeaveCancel(u) \/ OfflineCancel(u) \/ SkipStop(u)
      \/ \E r \in BotRooms : WatchdogStops(r)
  BY DEF Abort, UserAction, LeaveMatchQueue, Disconnect, OfflineRemove, Connect, SkipClose, Skip,
         Watchdog, WatchdogDecides, WatchdogCloses, Sweeper, SweepLoads
<1> QED BY <1>1, <1>2, <1>3, <1>4, <1>5, <1>6

LEMMA InitCountInv == Init => CountInv
<1> SUFFICES ASSUME Init PROVE CountInv
  OBVIOUS
<1>1. sessions = {} /\ sessionCount = 0 /\ doubled = 0 /\ Admitted = {}
  BY DEF Init, Admitted
<1>2. Counted
  BY <1>1, FS_EmptySet, AttemptsType DEF Counted, SessionsCounted
<1>3. \A q \in Requests : Once(q)
  BY <1>1 DEF Init, Once
<1> QED BY <1>2, <1>3, InitTypes, InitRequestsOK DEF CountInv

LEMMA NextCountInv == CountInv /\ [Next]_vars => CountInv'
<1> SUFFICES ASSUME CountInv, [Next]_vars PROVE CountInv'
  OBVIOUS
<1>0. MatchTypes' /\ RequestsOK' /\ BotTypes'
  BY NextTypes DEF CountInv
<1>1. CASE UNCHANGED vars
  <2>1. UNCHANGED <<timer, request, sessions, sessionCount, doubled>>
    BY <1>1 DEF vars, handlers, bots, ends
  <2>2. Counted' /\ \A p \in Requests : Once(p)'
    BY <2>1 DEF CountInv, Counted, SessionsCounted, Admitted, Once
  <2> QED BY <1>0, <2>2 DEF CountInv
<1>2. ASSUME NEW q \in Requests, EnterMatchQueue(q) \/ Enter(q) PROVE CountInv'
  BY <1>0, <1>2, RequestStepsOnce DEF CountInv, Counted, SessionsCounted
<1>3. ASSUME NEW q \in Requests, BotMatch(q) PROVE CountInv'
  BY <1>0, <1>3, BotMatchCounts DEF CountInv
<1>4. CASE \/ \E q \in Requests : Abort(q)
           \/ \E u \in Users : UserAction(u)
           \/ \E r \in BotRooms : Watchdog(r)
           \/ Sweeper
  BY <1>0, <1>4, OthersCount DEF CountInv
<1> QED BY <1>1, <1>2, <1>3, <1>4, NextActions

LEMMA CountInvTypes == CountInv => TypeOK /\ SessionsCounted
BY TypeOKSplit DEF CountInv, Counted

(* The counter that admits bot sessions drifts from the sessions there are only
   by those the sweeper counted down again, and never passes its limit: a skip
   and the watchdog that stop the same session at once give its place back once. *)
THEOREM SessionsStayCounted == Spec => []SessionsCounted
BY InitCountInv, NextCountInv, CountInvTypes, PTL DEF Spec

(* Every variable keeps its type. *)
THEOREM TypeCorrect == Spec => []TypeOK
BY InitCountInv, NextCountInv, CountInvTypes, PTL DEF Spec

-----------------------------------------------------------------------------
(* Nobody is forgotten.  What makes it inductive: a request holds its user only
   until it has told or queued the user, and another user only from the pop to
   the put-back or the notice; and no clean-up is left for a user who was never
   offline. *)

Held(u) == \E q \in Requests : /\ request[q].hand = u
                               /\ request[q].step \in {"putBack", "members", "notifyPartner"}
Busy(u) == \E q \in Requests : /\ UserOf[q] = u
                               /\ request[q].step \in {"pop", "putBack", "members", "addSelf"}
Kept(u) == u \in queue \/ Held(u) \/ Busy(u) \/ WithBot(u)

KeptInv == /\ CountInv
           /\ Undisturbed => /\ \A u \in waiting \ dropped : Kept(u)
                             /\ \A u \in Users : cleanup[u] = {}

LEMMA WithBotAdmitted ==
  ASSUME Admitted' = Admitted, NEW u
  PROVE  WithBot(u)' <=> WithBot(u)
BY DEF WithBot, Admitted

LEMMA EnterKeeps ==
  ASSUME KeptInv, NEW q \in Requests, EnterMatchQueue(q) \/ Enter(q),
         aborted = {}, NEW u \in waiting' \ dropped', u \in waiting => Kept(u)
  PROVE  Kept(u)'
<1>0. RequestsOK /\ request \in [Requests -> RequestState] /\ UserOf[q] \in Users /\ Alive(q)
  BY UserOfType DEF KeptInv, CountInv, RequestsOK, Alive
<1>a. WithBot(u)' <=> WithBot(u)
  BY RequestStepsOnce, WithBotAdmitted DEF KeptInv
<1>b. ASSUME NEW s, request' = [request EXCEPT ![q] = s]
      PROVE  request'[q] = s /\ \A p \in Requests \ {q} : request'[p] = request[p]
  BY <1>0, <1>b
<1>c. ASSUME NEW step, Goto(q, step)
      PROVE  /\ request'[q].step = step /\ request'[q].hand = request[q].hand
             /\ \A p \in Requests \ {q} : request'[p] = request[p]
  BY <1>0, <1>c DEF Goto, RequestState
<1>d. ASSUME Finish(q)
      PROVE  request'[q].step = "done" /\ \A p \in Requests \ {q} : request'[p] = request[p]
  BY <1>0, <1>d DEF Finish
<1>1. CASE EnterMatchQueue(q)
  <2>1. UNCHANGED <<queue, waiting>> /\ request[q].step = "new"
        /\ \A p \in Requests \ {q} : request'[p] = request[p]
    BY <1>0, <1>1 DEF EnterMatchQueue, Finish
  <2> QED BY <1>a, <2>1 DEF Kept, Held, Busy
<1>2. CASE PopPartner(q)
  <2>0. request[q].step = "pop" /\ UNCHANGED waiting
    BY <1>2 DEF PopPartner
  <2>1. CASE queue # {}
    <3>1. PICK p \in queue :
            /\ queue' = queue \ {p}
            /\ request' = [request EXCEPT ![q] =
                 IF p = UserOf[q]
                   THEN [step |-> Again(q), left |-> request[q].left - 1, hand |-> None]
                   ELSE [request[q] EXCEPT !.hand = p,
                            !.step = IF <<UserOf[q], p>> \in Barred THEN "putBack" ELSE "members"]]
      BY <1>0, <1>2, <2>1 DEF PopPartner
    <3>2. \A w \in Requests \ {q} : request'[w] = request[w]
      BY <1>0, <3>1
    <3>3. CASE p = UserOf[q]
      <4>1. request'[q].step \in {"pop", "addSelf"}
        BY <1>0, <3>1, <3>3 DEF Again
      <4> QED BY <1>a, <2>0, <3>1, <3>2, <3>3, <4>1 DEF Kept, Held, Busy
    <3>4. CASE p # UserOf[q]
      <4>1. request'[q].step \in {"putBack", "members"} /\ request'[q].hand = p
        BY <1>0, <3>1, <3>4 DEF RequestState
      <4> QED BY <1>a, <2>0, <3>1, <3>2, <4>1 DEF Kept, Held, Busy
    <3> QED BY <3>3, <3>4
  <2>2. CASE queue = {}
    <3>1. Goto(q, "addSelf") /\ UNCHANGED queue
      BY <1>2, <2>2 DEF PopPartner
    <3> QED BY <1>a, <1>c, <2>0, <3>1 DEF Kept, Held, Busy
  <2> QED BY <2>1, <2>2
<1>3. CASE PutBack(q)
  <2>1. /\ queue' = queue \union {request[q].hand} /\ UNCHANGED waiting
        /\ request[q].step = "putBack"
    BY <1>0, <1>3 DEF PutBack
  <2>2. /\ request'[q].step \in {"pop", "addSelf"}
        /\ \A p \in Requests \ {q} : request'[p] = request[p]
    BY <1>0, <1>3 DEF PutBack, Again
  <2> QED BY <1>a, <2>1, <2>2 DEF Kept, Held, Busy
<1>4. CASE MakeRoom(q)
  <2>1. /\ waiting' = waiting \ {UserOf[q]} /\ UNCHANGED queue
        /\ request[q].step = "members" /\ Goto(q, "notifyPartner")
    BY <1>0, <1>4 DEF MakeRoom, Tell
  <2> QED BY <1>a, <1>c, <2>1 DEF Kept, Held, Busy
<1>5. CASE NotifyPartner(q)
  <2>1. /\ waiting' = waiting \ {request[q].hand} /\ UNCHANGED queue
        /\ request[q].step = "notifyPartner" /\ Finish(q)
    BY <1>0, <1>5 DEF NotifyPartner, Tell
  <2> QED BY <1>a, <1>d, <2>1 DEF Kept, Held, Busy
<1>6. CASE AddSelf(q)
  <2>1. /\ waiting' = waiting \union {UserOf[q]} /\ queue' = queue \union {UserOf[q]}
        /\ request[q].step = "addSelf" /\ Goto(q, "schedule")
    BY <1>0, <1>6 DEF AddSelf
  <2> QED BY <1>a, <1>c, <2>1 DEF Kept, Held, Busy
<1>7. CASE Schedule(q)
  <2>1. UNCHANGED <<waiting, queue>> /\ request[q].step = "schedule" /\ Finish(q)
    BY <1>7 DEF Schedule
  <2> QED BY <1>a, <1>d, <2>1 DEF Kept, Held, Busy
<1> QED BY <1>1, <1>2, <1>3, <1>4, <1>5, <1>6, <1>7 DEF Enter

LEMMA BotMatchKeeps ==
  ASSUME KeptInv, NEW q \in Requests, BotMatch(q),
         NEW u \in waiting' \ dropped', u \in waiting \ dropped => Kept(u)
  PROVE  Kept(u)'
<1>0. timer \in [Requests -> TimerStages] /\ UserOf[q] \in Users
  BY UserOfType DEF KeptInv, CountInv, BotTypes
<1>a. \A p \in Requests \ {q} : timer'[p] = timer[p]
  BY <1>0 DEF BotMatch, TimerFires, BotCheck, BotRemove, BotStart
<1>b. UNCHANGED request
  BY DEF BotMatch, TimerFires, BotCheck, BotRemove, BotStart, handlers
<1>c. (Held(u)' <=> Held(u)) /\ (Busy(u)' <=> Busy(u))
  BY <1>b DEF Held, Busy
<1>1. CASE TimerFires(q) \/ BotCheck(q)
  <2>1. timer[q] # "start" /\ UNCHANGED <<queue, waiting, dropped>>
    BY <1>1 DEF TimerFires, BotCheck
  <2> QED BY <1>a, <1>c, <2>1 DEF Kept, WithBot
<1>2. CASE BotRemove(q)
  <2>1. timer[q] # "start" /\ queue' = queue \ {UserOf[q]} /\ UNCHANGED waiting
    BY <1>2 DEF BotRemove
  <2>2. \/ timer'[q] = "start" /\ UNCHANGED dropped
        \/ dropped' = dropped \union {UserOf[q]}
    BY <1>0, <1>2 DEF BotRemove
  <2> QED BY <1>a, <1>c, <2>1, <2>2 DEF Kept, WithBot
<1>3. CASE BotStart(q)
  <2>1. waiting' = waiting \ {UserOf[q]} /\ UNCHANGED <<queue, dropped>>
    BY <1>3 DEF BotStart, Tell
  <2> QED BY <1>a, <1>c, <2>1 DEF Kept, WithBot
<1> QED BY <1>1, <1>2, <1>3 DEF BotMatch

LEMMA OthersKeep ==
  ASSUME KeptInv, Undisturbed',
         \/ \E q \in Requests : Abort(q)
         \/ \E u \in Users : UserAction(u)
         \/ \E r \in BotRooms : Watchdog(r)
         \/ Sweeper
  PROVE  /\ \A u \in waiting' \ dropped' : Kept(u)'
         /\ \A u \in Users : cleanup'[u] = {}
<1> USE DEF handlers, bots, ends, bounds
<1>0. BotTypes /\ MatchTypes
  BY DEF KeptInv, CountInv
<1>a. disconnects \in Nat
  BY <1>0 DEF MatchTypes
<1>b. \A q \in Requests : ~Abort(q)
  BY DEF Abort, Undisturbed
<1>c. \A u \in Users : ~Disconnect(u)
  BY <1>a DEF Disconnect, Undisturbed
<1>d. Undisturbed /\ UNCHANGED <<aborted, disconnects>>
  BY <1>b, <1>c DEF UserAction, LeaveMatchQueue, LeaveCancel, OfflineRemove, OfflineCancel, Connect,
     SkipStop, SkipClose, Skip, Watchdog, WatchdogDecides, WatchdogStops, WatchdogCloses,
     Sweeper, SweepLoads, SweepEnds, Undisturbed
<1>e. /\ \A u \in waiting \ dropped : Kept(u)
      /\ \A u \in Users : cleanup[u] = {}
  BY <1>d DEF KeptInv
<1>f. \A u \in Users : ~OfflineRemove(u) /\ ~OfflineCancel(u)
  BY <1>e DEF OfflineRemove, OfflineCancel
<1>1. CASE UNCHANGED <<queue, waiting, dropped, request, timer, cleanup>>
  BY <1>1, <1>e DEF Kept, Held, Busy, WithBot
<1>2. ASSUME NEW v \in Users, LeaveMatchQueue(v)
      PROVE  /\ \A u \in waiting' \ dropped' : Kept(u)'
             /\ \A u \in Users : cleanup'[u] = {}
  <2>1. /\ queue' = queue \ {v} /\ waiting' = waiting \ {v}
        /\ UNCHANGED <<dropped, request, timer, cleanup>>
    BY <1>2 DEF LeaveMatchQueue
  <2> QED BY <1>e, <2>1 DEF Kept, Held, Busy, WithBot
<1>3. ASSUME NEW v \in Users, LeaveCancel(v)
      PROVE  /\ \A u \in waiting' \ dropped' : Kept(u)'
             /\ \A u \in Users : cleanup'[u] = {}
  <2>1. /\ timer' = Cancelled({v})
        /\ UNCHANGED <<queue, waiting, dropped, request, cleanup>>
    BY <1>3 DEF LeaveCancel, CancelBotMatch
  <2>2. \A p \in Requests : timer[p] = "start" => timer'[p] = "start"
    BY <1>0, <2>1, CancelEffect
  <2> QED BY <1>e, <2>1, <2>2 DEF Kept, Held, Busy, WithBot
<1>4. \/ UNCHANGED <<queue, waiting, dropped, request, timer, cleanup>>
      \/ \E v \in Users : LeaveMatchQueue(v) \/ LeaveCancel(v)
  BY <1>b, <1>c, <1>f DEF UserAction, Connect, SkipStop, SkipClose, Skip,
     Watchdog, WatchdogDecides, WatchdogStops, WatchdogCloses, Sweeper, SweepLoads, SweepEnds
<1> QED BY <1>1, <1>2, <1>3, <1>4

LEMMA NextKeptInv == KeptInv /\ [Next]_vars => KeptInv'
<1> SUFFICES ASSUME KeptInv, [Next]_vars PROVE KeptInv'
  OBVIOUS
<1>0. CountInv'
  BY NextCountInv DEF KeptInv
<1> SUFFICES ASSUME Undisturbed'
             PROVE  /\ \A u \in waiting' \ dropped' : Kept(u)'
                    /\ \A u \in Users : cleanup'[u] = {}
  BY <1>0 DEF KeptInv
<1>1. CASE UNCHANGED vars
  BY <1>1 DEF vars, handlers, bots, bounds, KeptInv, Undisturbed, Kept, Held, Busy, WithBot
<1>2. ASSUME NEW q \in Requests, EnterMatchQueue(q) \/ Enter(q)
      PROVE  /\ \A u \in waiting' \ dropped' : Kept(u)'
             /\ \A u \in Users : cleanup'[u] = {}
  <2>1. UNCHANGED <<aborted, disconnects, cleanup, dropped>>
    BY <1>2 DEF EnterMatchQueue, Enter, PopPartner, PutBack, MakeRoom, NotifyPartner, AddSelf,
                Schedule, bounds
  <2>2. Undisturbed
    BY <2>1 DEF Undisturbed
  <2> QED BY <1>2, <2>1, <2>2, EnterKeeps DEF KeptInv, Undisturbed
<1>3. ASSUME NEW q \in Requests, BotMatch(q)
      PROVE  /\ \A u \in waiting' \ dropped' : Kept(u)'
             /\ \A u \in Users : cleanup'[u] = {}
  <2>1. UNCHANGED <<aborted, disconnects, cleanup>>
    BY <1>3 DEF BotMatch, TimerFires, BotCheck, BotRemove, BotStart, handlers, bounds
  <2>2. Undisturbed
    BY <2>1 DEF Undisturbed
  <2> QED BY <1>3, <2>1, <2>2, BotMatchKeeps DEF KeptInv
<1>4. CASE \/ \E q \in Requests : Abort(q)
           \/ \E u \in Users : UserAction(u)
           \/ \E r \in BotRooms : Watchdog(r)
           \/ Sweeper
  BY <1>4, OthersKeep
<1> QED BY <1>1, <1>2, <1>3, <1>4, NextActions

(* A user told to wait is, until matched, gone or turned away, in the queue, in
   the hands of a request or of a bot callback: whatever the requests, the bot
   timers and the users who leave do to each other's entries, nobody drops out
   between the pop of a user and the room, or between the timer's look at the
   queue and the session. *)
THEOREM NobodyIsForgotten == Spec => []NobodyForgotten
<1>1. Init => KeptInv
  <2>1. Init => waiting = {} /\ \A u \in Users : cleanup[u] = {}
    BY DEF Init
  <2> QED BY <2>1, InitCountInv DEF KeptInv
<1>2. KeptInv => NobodyForgotten
  BY DEF KeptInv, NobodyForgotten, Kept, Held, Busy, InHand, Asking
<1> QED BY <1>1, <1>2, NextKeptInv, PTL DEF Spec
=============================================================================
