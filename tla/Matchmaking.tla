----------------------------- MODULE Matchmaking -----------------------------
(***************************************************************************)
(* Stranger matchmaking: the waiting queue in Redis (handlers/match.go),   *)
(* the bot fallback of those who wait too long (services/botservice.go)    *)
(* and the clean-up of a user who goes offline (chat/engine.go).           *)
(*                                                                         *)
(* One step is one Redis command, or one operation on the process's maps   *)
(* and atomics.  A room is known to nobody before its match_found is       *)
(* published, so what a handler does to a room of its own before that      *)
(* belongs to the step that publishes.  A room is named by the request     *)
(* that made it: by the request itself, or by the bot timer it started.    *)
(* One server; blocks and friendships do not change, and are therefore     *)
(* what the request's cached sets hold.  Not modelled: locations, chat     *)
(* in the rooms, "friend" actions, the runtime switch of the bot service.  *)
(***************************************************************************)
EXTENDS Integers, FiniteSets

CONSTANTS Users,
          Requests, UserOf,     \* POST /match/enter requests and who sends them
          Barred,               \* pairs <<u, v>> blocked (either way) or friends
          MaxMatchAttempts,
          MaxBotSessions,
          Unsteady,             \* bounds: the users who may leave the queue, disconnect,
          MaxDisturbances,      \* cut a request short or whose session may be counted
                                \* down twice, and how often that happens
          Bot, None

ASSUME UserOfType   == UserOf \in [Requests -> Users]
ASSUME BarredType   == /\ Barred \subseteq Users \X Users
                       /\ \A u, v \in Users : <<u, v>> \in Barred => u # v /\ <<v, u>> \in Barred
ASSUME AttemptsType == MaxMatchAttempts \in Nat /\ MaxBotSessions \in Nat
ASSUME MatchBounds  == MaxDisturbances \in Nat /\ Unsteady \subseteq Users
ASSUME NotUsers     == Bot \notin Users /\ None \notin Users \union Requests

VARIABLES
  queue,         \* the match queue, a Redis set
  members,       \* stranger_members:<room>
  request,       \* handler of a request: step, attempts left, user popped
  timer,         \* bot timer of a request, and the stage of its callback
  entry,         \* timers: the timer CancelBotMatch would find for a user
  sessions,      \* rooms with a bot session (sessions and botUserIDs)
  sessionCount,
  leaving,       \* users whose LeaveMatchQueueHandler has still to cancel their timer
  cleanup,       \* pool tasks left to run for a user who went offline
  skip,          \* MatchActionHandler of a user: room and step
  watchdog,      \* watchdog of a room's session: step of forceEndSession
  sweep,         \* SweepStaleBotSessions: the session that Range has loaded
  doubled,       \* history: sessions that the sweeper counted down once more
  online,
  told,          \* history: rooms a user was told of (match_found)
  waiting,       \* history: users queued who were neither matched nor left since
  dropped,       \* history: users turned away by the limit of bot sessions
  aborted,       \* requests whose context was cancelled (client gone, or time out)
  leaves, disconnects

handlers == <<request, leaving, cleanup, skip>>
ends     == <<watchdog, sweep, doubled>>
bots     == <<timer, entry, sessions, sessionCount, ends>>
bounds   == <<aborted, leaves, disconnects>>
vars     == <<queue, members, handlers, bots, online, told, waiting, dropped, bounds>>

HumanRoom(q) == <<"human", q>>
BotRoom(q)   == <<"bot", q>>
HumanRooms   == {HumanRoom(q) : q \in Requests}
BotRooms     == {BotRoom(q) : q \in Requests}
Rooms        == HumanRooms \union BotRooms

RequestSteps == {"new", "pop", "putBack", "members", "notifyPartner",
                 "addSelf", "schedule", "done"}

TypeOK ==
  /\ queue \subseteq Users
  /\ members \in [Rooms -> SUBSET (Users \union {Bot})]
  /\ request \in [Requests -> [step : RequestSteps, left : 0..MaxMatchAttempts,
                               hand : Users \union {None}]]
  /\ timer \in [Requests -> {"off", "armed", "check", "remove", "start"}]
  /\ entry \in [Users -> Requests \union {None}]
  /\ sessions \subseteq BotRooms
  /\ sessionCount \in Int
  /\ leaving \subseteq Users
  /\ cleanup \in [Users -> SUBSET {"remove", "cancel"}]
  /\ skip \in [Users -> [room : Rooms \union {None}, step : {"none", "stop", "close"}]]
  /\ watchdog \in [BotRooms -> {"none", "stop", "close"}]
  /\ sweep \in BotRooms \union {None}
  /\ doubled \in Nat
  /\ online \subseteq Users
  /\ told \in [Users -> SUBSET Rooms]
  /\ waiting \subseteq Users /\ dropped \subseteq Users
  /\ aborted \subseteq Requests
  /\ leaves \in Nat /\ disconnects \in Nat

Init ==
  /\ queue = {}
  /\ members = [r \in Rooms |-> {}]
  /\ request = [q \in Requests |-> [step |-> "new", left |-> 0, hand |-> None]]
  /\ timer = [q \in Requests |-> "off"]
  /\ entry = [u \in Users |-> None]
  /\ sessions = {} /\ sessionCount = 0
  /\ leaving = {}
  /\ cleanup = [u \in Users |-> {}]
  /\ skip = [u \in Users |-> [room |-> None, step |-> "none"]]
  /\ watchdog = [r \in BotRooms |-> "none"]
  /\ sweep = None /\ doubled = 0
  /\ online = Users
  /\ told = [u \in Users |-> {}]
  /\ waiting = {} /\ dropped = {}
  /\ aborted = {} /\ leaves = 0 /\ disconnects = 0

-----------------------------------------------------------------------------
MayDisturb(u) == /\ u \in Unsteady
                 /\ leaves + disconnects + Cardinality(aborted) + doubled < MaxDisturbances

(* The map of timers.  Stop has no effect on a timer that has fired. *)

(* timer and entry once CancelBotMatch has run for every user of us *)
Cancelled(us) ==
  [q \in Requests |-> IF timer[q] = "armed" /\ \E u \in us : entry[u] = q
                        THEN "off" ELSE timer[q]]
CancelBotMatch(us) ==
  /\ timer' = Cancelled(us)
  /\ entry' = [u \in Users |-> IF u \in us THEN None ELSE entry[u]]

ScheduleBotMatch(q) ==
  /\ timer' = [Cancelled({UserOf[q]}) EXCEPT ![q] = "armed"]
  /\ entry' = [entry EXCEPT ![UserOf[q]] = q]

-----------------------------------------------------------------------------
(* EnterMatchQueueHandler *)

(* The commands of a request whose context is cancelled fail. *)
Alive(q) == q \notin aborted

Goto(q, step) == request' = [request EXCEPT ![q].step = step]
Finish(q) == request' = [request EXCEPT ![q] = [step |-> "done", left |-> 0, hand |-> None]]

(* The client does not ask for a match while it has one on the screen. *)
EnterMatchQueue(q) ==
  LET u == UserOf[q] IN
  /\ request[q].step = "new"
  /\ u \in online /\ \A r \in told[u] : members[r] = {}
  /\ IF Alive(q) /\ u \notin queue
       THEN request' = [request EXCEPT ![q] =
                          [step |-> IF MaxMatchAttempts = 0 THEN "addSelf" ELSE "pop",
                           left |-> MaxMatchAttempts, hand |-> None]]
       ELSE Finish(q)               \* already queued, or an error
  /\ UNCHANGED <<queue, members, leaving, cleanup, skip, bots, online, told, waiting,
                 dropped, bounds>>

Again(q) == IF request[q].left > 1 THEN "pop" ELSE "addSelf"

(* Mutant of PopPartner: the cached sets are not looked at. *)
PopPartnerUnchecked(q) ==
  LET u == UserOf[q] IN
  /\ request[q].step = "pop"
  /\ IF Alive(q) /\ queue # {}
       THEN \E p \in queue :
              /\ queue' = queue \ {p}
              /\ request' = [request EXCEPT ![q] =
                   IF p = u
                     THEN [step |-> Again(q), left |-> @.left - 1, hand |-> None]
                     ELSE [@ EXCEPT !.hand = p, !.step = "members"]]
       ELSE Goto(q, "addSelf") /\ UNCHANGED queue
  /\ UNCHANGED <<members, leaving, cleanup, skip, bots, online, told, waiting, dropped, bounds>>

PopPartner(q) ==
  LET u == UserOf[q] IN
  /\ request[q].step = "pop"
  /\ IF Alive(q) /\ queue # {}
       THEN \E p \in queue :
              /\ queue' = queue \ {p}
              /\ request' = [request EXCEPT ![q] =
                   IF p = u
                     THEN [step |-> Again(q), left |-> @.left - 1, hand |-> None]
                     ELSE [@ EXCEPT !.hand = p,
                              !.step = IF <<u, p>> \in Barred THEN "putBack" ELSE "members"]]
       ELSE Goto(q, "addSelf") /\ UNCHANGED queue
  /\ UNCHANGED <<members, leaving, cleanup, skip, bots, online, told, waiting, dropped, bounds>>

(* Mutant of PutBack: the partner who does not suit is not put back. *)
PutBackForgotten(q) ==
  /\ request[q].step = "putBack"
  /\ request' = [request EXCEPT ![q] =
                   [step |-> Again(q), left |-> @.left - 1, hand |-> None]]
  /\ UNCHANGED <<queue, members, leaving, cleanup, skip, bots, online, told, waiting,
                 dropped, bounds>>

PutBack(q) ==
  /\ request[q].step = "putBack"
  /\ queue' = IF Alive(q) THEN queue \union {request[q].hand} ELSE queue
  /\ request' = [request EXCEPT ![q] =
                   [step |-> Again(q), left |-> @.left - 1, hand |-> None]]
  /\ UNCHANGED <<members, leaving, cleanup, skip, bots, online, told, waiting, dropped, bounds>>

Tell(u, r) == /\ told' = [told EXCEPT ![u] = @ \union {r}]
              /\ waiting' = waiting \ {u}

(* The members are stored and the requester is told. *)
MakeRoom(q) ==
  LET u == UserOf[q]  r == HumanRoom(q) IN
  /\ request[q].step = "members"
  /\ IF Alive(q)
       THEN members' = [members EXCEPT ![r] = {u, request[q].hand}] /\ Tell(u, r)
       ELSE UNCHANGED <<members, told, waiting>>
  /\ Goto(q, "notifyPartner")
  /\ UNCHANGED <<queue, leaving, cleanup, skip, bots, online, dropped, bounds>>

NotifyPartner(q) ==
  /\ request[q].step = "notifyPartner"
  /\ IF Alive(q) THEN Tell(request[q].hand, HumanRoom(q)) ELSE UNCHANGED <<told, waiting>>
  /\ CancelBotMatch({UserOf[q], request[q].hand})
  /\ Finish(q)
  /\ UNCHANGED <<queue, members, leaving, cleanup, skip, sessions, sessionCount, ends,
                 online, dropped, bounds>>

AddSelf(q) ==
  /\ request[q].step = "addSelf"
  /\ IF Alive(q) THEN /\ queue'   = queue \union {UserOf[q]}
                      /\ waiting' = waiting \union {UserOf[q]}
                 ELSE UNCHANGED <<queue, waiting>>
  /\ Goto(q, "schedule")
  /\ UNCHANGED <<members, leaving, cleanup, skip, bots, online, told, dropped, bounds>>

(* Mutant of Schedule: the new timer is stopped along with the old one. *)
ScheduleStopsNew(q) ==
  /\ request[q].step = "schedule"
  /\ CancelBotMatch({UserOf[q]})
  /\ Finish(q)
  /\ UNCHANGED <<queue, members, leaving, cleanup, skip, sessions, sessionCount, ends,
                 online, told, waiting, dropped, bounds>>

Schedule(q) ==
  /\ request[q].step = "schedule"
  /\ ScheduleBotMatch(q)
  /\ Finish(q)
  /\ UNCHANGED <<queue, members, leaving, cleanup, skip, sessions, sessionCount, ends,
                 online, told, waiting, dropped, bounds>>

Enter(q) == \/ PopPartner(q) \/ PutBack(q) \/ MakeRoom(q) \/ NotifyPartner(q) \/ AddSelf(q) \/ Schedule(q)

(* The client hangs up, or the handler's time is over. *)
Abort(q) ==
  /\ MayDisturb(UserOf[q])
  /\ Alive(q) /\ request[q].step \notin {"new", "done"}
  /\ aborted' = aborted \union {q}
  /\ UNCHANGED <<queue, members, handlers, bots, online, told, waiting, dropped, leaves,
                 disconnects>>

-----------------------------------------------------------------------------
(* LeaveMatchQueueHandler, and Unregister of a user's last device, which hands
   the same two operations to the pool. *)

LeaveMatchQueue(u) ==
  /\ MayDisturb(u) /\ leaves' = leaves + 1
  /\ u \in online \ leaving
  /\ queue'   = queue \ {u}
  /\ waiting' = waiting \ {u}
  /\ leaving' = leaving \union {u}
  /\ UNCHANGED <<members, request, cleanup, skip, bots, online, told, dropped, aborted,
                 disconnects>>

LeaveCancel(u) ==
  /\ u \in leaving
  /\ leaving' = leaving \ {u}
  /\ CancelBotMatch({u})
  /\ UNCHANGED <<queue, members, request, cleanup, skip, sessions, sessionCount, ends,
                 online, told, waiting, dropped, bounds>>

Disconnect(u) ==
  /\ MayDisturb(u) /\ disconnects' = disconnects + 1
  /\ u \in online
  /\ online'  = online \ {u}
  /\ waiting' = waiting \ {u}
  /\ cleanup' = [cleanup EXCEPT ![u] = {"remove", "cancel"}]
  /\ UNCHANGED <<queue, members, request, leaving, skip, bots, told, dropped, aborted, leaves>>

OfflineRemove(u) ==
  /\ "remove" \in cleanup[u]
  /\ queue'   = queue \ {u}
  /\ cleanup' = [cleanup EXCEPT ![u] = @ \ {"remove"}]
  /\ UNCHANGED <<members, request, leaving, skip, bots, online, told, waiting, dropped, bounds>>

OfflineCancel(u) ==
  /\ "cancel" \in cleanup[u]
  /\ CancelBotMatch({u})
  /\ cleanup' = [cleanup EXCEPT ![u] = @ \ {"cancel"}]
  /\ UNCHANGED <<queue, members, request, leaving, skip, sessions, sessionCount, ends,
                 online, told, waiting, dropped, bounds>>

Connect(u) ==
  /\ u \notin online
  /\ online' = online \union {u}
  /\ UNCHANGED <<queue, members, handlers, bots, told, waiting, dropped, bounds>>

-----------------------------------------------------------------------------
(* The timer's callback: matchWithBot *)

(* timers.Delete removes the user's entry, be it another timer's. *)
TimerFires(q) ==
  /\ timer[q] = "armed"
  /\ timer' = [timer EXCEPT ![q] = "check"]
  /\ entry' = [entry EXCEPT ![UserOf[q]] = None]
  /\ UNCHANGED <<queue, members, handlers, sessions, sessionCount, ends, online, told,
                 waiting, dropped, bounds>>

BotCheck(q) ==
  /\ timer[q] = "check"
  /\ timer' = [timer EXCEPT ![q] = IF UserOf[q] \in queue THEN "remove" ELSE "off"]
  /\ UNCHANGED <<queue, members, handlers, entry, sessions, sessionCount, ends, online,
                 told, waiting, dropped, bounds>>

(* SREM, whose answer is not looked at, then the admission: compare and swap. *)
BotRemove(q) ==
  /\ timer[q] = "remove"
  /\ queue' = queue \ {UserOf[q]}
  /\ IF sessionCount >= MaxBotSessions
       THEN /\ timer'   = [timer EXCEPT ![q] = "off"]
            /\ dropped' = dropped \union {UserOf[q]}
            /\ UNCHANGED sessionCount
       ELSE /\ timer' = [timer EXCEPT ![q] = "start"]
            /\ sessionCount' = sessionCount + 1
            /\ UNCHANGED dropped
  /\ UNCHANGED <<members, handlers, entry, sessions, ends, online, told, waiting, bounds>>

BotStart(q) ==
  LET u == UserOf[q]  r == BotRoom(q) IN
  /\ timer[q] = "start"
  /\ members'  = [members EXCEPT ![r] = {u, Bot}]
  /\ sessions' = sessions \union {r}
  /\ Tell(u, r)
  /\ timer' = [timer EXCEPT ![q] = "off"]
  /\ UNCHANGED <<queue, handlers, entry, sessionCount, ends, online, dropped, bounds>>

BotMatch(q) == \/ TimerFires(q) \/ BotCheck(q) \/ BotRemove(q) \/ BotStart(q)

-----------------------------------------------------------------------------
(* The end of a match: MatchActionHandler ("skip", "block"), forceEndSession *)

(* Mutant of StopBotSession: Load, and Delete later. *)
StopBotSessionTwice(r) == sessions' = sessions \ {r} /\ sessionCount' = sessionCount - 1

(* LoadAndDelete: only the first of two callers gets the session. *)
StopBotSession(r) ==
  IF r \in sessions
    THEN sessions' = sessions \ {r} /\ sessionCount' = sessionCount - 1
    ELSE UNCHANGED <<sessions, sessionCount>>

(* SMEMBERS gives the partner, unless the room was closed meanwhile. *)
Skip(u, r) ==
  /\ skip[u].step = "none"
  /\ r \in told[u] /\ members[r] # {}
  /\ skip' = [skip EXCEPT ![u] = [room |-> r, step |-> IF r \in sessions THEN "stop"
                                                                        ELSE "close"]]
  /\ UNCHANGED <<queue, members, request, leaving, cleanup, bots, online, told, waiting,
                 dropped, bounds>>

SkipStop(u) ==
  /\ skip[u].step = "stop"
  /\ StopBotSession(skip[u].room)
  /\ skip' = [skip EXCEPT ![u].step = "close"]
  /\ UNCHANGED <<queue, members, request, leaving, cleanup, timer, entry, ends, online,
                 told, waiting, dropped, bounds>>

(* The room is marked closed and its members are deleted. *)
SkipClose(u) ==
  /\ skip[u].step = "close"
  /\ members' = [members EXCEPT ![skip[u].room] = {}]
  /\ skip' = [skip EXCEPT ![u] = [room |-> None, step |-> "none"]]
  /\ UNCHANGED <<queue, request, leaving, cleanup, bots, online, told, waiting, dropped, bounds>>

(* The session is too long, or the user silent: forceEndSession. *)
WatchdogDecides(r) ==
  /\ r \in sessions /\ watchdog[r] = "none"
  /\ watchdog' = [watchdog EXCEPT ![r] = "stop"]
  /\ UNCHANGED <<queue, members, handlers, timer, entry, sessions, sessionCount, sweep, doubled,
                 online, told, waiting, dropped, bounds>>

WatchdogStops(r) ==
  /\ watchdog[r] = "stop"
  /\ StopBotSession(r)
  /\ watchdog' = [watchdog EXCEPT ![r] = "close"]
  /\ UNCHANGED <<queue, members, handlers, timer, entry, sweep, doubled, online, told, waiting,
                 dropped, bounds>>

WatchdogCloses(r) ==
  /\ watchdog[r] = "close"
  /\ members'  = [members EXCEPT ![r] = {}]
  /\ watchdog' = [watchdog EXCEPT ![r] = "none"]
  /\ UNCHANGED <<queue, handlers, timer, entry, sessions, sessionCount, sweep, doubled, online,
                 told, waiting, dropped, bounds>>

(* SweepStaleBotSessions: Range loads a session, the callback ends it if done is
   closed.  Only StopBotSession closes done, after it took the session out of the
   map and counted it down: what the sweeper ends has been ended. *)
SweepLoads(q) ==
  /\ MayDisturb(UserOf[q])
  /\ sweep = None /\ BotRoom(q) \in sessions
  /\ sweep' = BotRoom(q)
  /\ UNCHANGED <<queue, members, handlers, timer, entry, sessions, sessionCount, watchdog,
                 doubled, online, told, waiting, dropped, bounds>>

SweepEnds ==
  /\ sweep # None
  /\ sweep' = None
  /\ IF sweep \in sessions THEN UNCHANGED <<sessionCount, doubled>>
                           ELSE sessionCount' = sessionCount - 1 /\ doubled' = doubled + 1
  /\ UNCHANGED <<queue, members, handlers, timer, entry, sessions, watchdog, online, told,
                 waiting, dropped, bounds>>

-----------------------------------------------------------------------------

Next ==
  \/ \E q \in Requests : EnterMatchQueue(q) \/ Enter(q) \/ Abort(q) \/ BotMatch(q) \/ SweepLoads(q)
  \/ \E u \in Users : \/ LeaveMatchQueue(u) \/ LeaveCancel(u)
                      \/ Disconnect(u) \/ OfflineRemove(u) \/ OfflineCancel(u) \/ Connect(u)
                      \/ SkipStop(u) \/ SkipClose(u)
  \/ \E u \in Users, r \in Rooms : Skip(u, r)
  \/ \E r \in BotRooms : WatchdogDecides(r) \/ WatchdogStops(r) \/ WatchdogCloses(r)
  \/ SweepEnds

Spec == Init /\ [][Next]_vars

(* Handlers go on and timers fire. *)
FairSpec == /\ Spec
            /\ \A q \in Requests : WF_vars(Enter(q)) /\ WF_vars(BotMatch(q))

-----------------------------------------------------------------------------
(* Properties *)

(* The counter that limits bot sessions is exactly the number of sessions, plus
   the callbacks admitted that have not made theirs yet, and never exceeds the
   limit, although a user's skip and the watchdog may stop the same session at
   once (StopBotSession "Idempotent", matchWithBot "CAS to prevent race").  The
   one thing that makes it drift is a sweep that overtakes the end of a session
   it has loaded: it counts that session down again, and a place over the limit
   is free from then on. *)
Admitted == {q \in Requests : timer[q] = "start"}
SessionsCounted ==
  /\ sessionCount + doubled = Cardinality(sessions) + Cardinality(Admitted)
  /\ sessionCount <= MaxBotSessions

(* A user told to wait is not forgotten: until matched, gone or turned away by
   the limit of bot sessions, the user is in the queue, in the hands of a
   request that popped the user, of a request of the user's own, or of a bot
   callback.  Provided no request is
   cut short and nobody goes offline: the user popped by a request whose client
   hangs up is lost. *)
InHand(u)   == \E q \in Requests : request[q].hand = u
Asking(u)   == \E q \in Requests : UserOf[q] = u /\ request[q].step \notin {"new", "done"}
WithBot(u)  == \E q \in Requests : UserOf[q] = u /\ timer[q] = "start"
Undisturbed == aborted = {} /\ disconnects = 0
NobodyForgotten ==
  Undisturbed =>
    \A u \in waiting \ dropped : u \in queue \/ InHand(u) \/ Asking(u) \/ WithBot(u)

(* A room of humans joins two different users who did not block each other and
   are not friends, and both, or neither, can come to know of it. *)
HumanRoomsAreFair ==
  \A q \in Requests : LET m == members[HumanRoom(q)] IN
    m # {} => /\ Cardinality(m) = 2 /\ m \subseteq Users
              /\ \A u, v \in m : <<u, v>> \notin Barred

(* Nobody waits for ever: a user in the queue whom every other user could be
   matched with gets a human partner, or the bot, or is turned away. *)
Welcome == {u \in Users : \A v \in Users : <<u, v>> \notin Barred}
EventuallyMatched ==
  \A u \in Welcome :
    u \in waiting ~> (u \notin waiting \/ u \in dropped \/ ~Undisturbed \/ leaves > 0)
=============================================================================
