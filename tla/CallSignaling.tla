---------------------------- MODULE CallSignaling ----------------------------
(***************************************************************************)
(* One-to-one call signaling (chat/calls.go): the call state of each user  *)
(* in Redis, the ring timers in the memory of the caller's server, the     *)
(* handlers that run in each connection's readPump, the hang-up task of a  *)
(* user whose last device went away, and the scanner of orphaned states.   *)
(*                                                                         *)
(* One step is one Redis command or Lua script.  What a handler does in    *)
(* memory before its first command (cancelling a timer) belongs to the     *)
(* step that receives the message, and the publication that ends a handler *)
(* to its last command: a published message is delivered at any later time *)
(* anyway.  Not modelled: the rows of call_logs, push notifications, and   *)
(* the dismissal sent to a user's other devices.                           *)
(***************************************************************************)
EXTENDS Naturals, FiniteSets

CONSTANTS Users, Calls,
          CallerOf, CalleeOf,   \* the users of a call, by its callId
          MayCall,              \* pairs that are friends and not blocked (canUserCall)
          Servers, ServerOf,    \* the server a user connects to
          PushServers,          \* the servers on which SendPushToUser is set
          MaxFailures,          \* bound: disconnections, crashes and failing commands together
          None

ASSUME CallParties == /\ CallerOf \in [Calls -> Users]
                      /\ CalleeOf \in [Calls -> Users]
                      /\ \A c \in Calls : CallerOf[c] # CalleeOf[c]
ASSUME ServerType  == ServerOf \in [Users -> Servers]
ASSUME PushType    == PushServers \subseteq Servers
ASSUME CallBounds  == MaxFailures \in Nat
ASSUME NoneIsNone  == None \notin Calls \union Users

Peer(u, c)  == IF u = CallerOf[c] THEN CalleeOf[c] ELSE CallerOf[c]
Parties(c)  == {CallerOf[c], CalleeOf[c]}

VARIABLES
  active,    \* call:active:<user>: the user's call, whether it is answered, and whether
             \* its startedAt is older than a ring may last; or no key
  timer,     \* callTimers: the ring timer of a call and the stage of its callback
  handler,   \* processCallSignaling in the user's readPump
  hangup,    \* handleCallDisconnect of the user, a task of the pool
  pending,   \* users whose deliverPendingCall has not run yet
  scanned,   \* the key a server's orphan scanner is about to delete
  online,    \* users with a connection
  ui,        \* what the user's client shows of a call
  wire,      \* published messages, not delivered yet
  missed,    \* history: calls whose timer published call_missed
  struck,    \* history: calls for which a Redis command failed
  disconnects, crashes, redisFaults

failures == <<struck, disconnects, crashes, redisFaults>>
vars == <<active, timer, handler, hangup, pending, scanned, online, ui, wire, missed, failures>>

NoState    == [call |-> None, answered |-> FALSE, old |-> FALSE]
Ringing(c) == [call |-> c, answered |-> FALSE, old |-> FALSE]
Idle    == [op |-> "none", call |-> None, step |-> "none"]
NoTask  == [call |-> None, step |-> "none"]

TypeOK ==
  /\ active \in [Users -> [call : Calls \union {None}, answered : BOOLEAN, old : BOOLEAN]]
  /\ \A u \in Users : active[u].call = None => active[u] = NoState
  /\ timer \in [Calls -> {"off", "armed", "clearCallee"}]
  /\ handler \in [Users -> [op : {"none", "ring", "accept", "clear"}, call : Calls \union {None},
                     step : {"none", "pair", "presence", "markSelf", "markPeer",
                             "clearSelf", "clearPeer", "missSelf", "missPeer"}]]
  /\ hangup \in [Users -> [call : Calls \union {None},
                           step : {"none", "get", "clearSelf", "clearPeer"}]]
  /\ pending \subseteq Users
  /\ scanned \in [Servers -> Users \union {None}]
  /\ online \subseteq Users
  /\ ui \in [Users -> [Calls -> {"none", "waiting", "ringing", "talking", "done"}]]
  /\ wire \subseteq [type : {"ring", "accept", "end"}, call : Calls, to : Users]
  /\ missed \subseteq Calls
  /\ struck \subseteq Calls
  /\ disconnects \in Nat /\ crashes \in Nat /\ redisFaults \in Nat
  /\ disconnects + crashes + redisFaults <= MaxFailures

Init == /\ active  = [u \in Users |-> NoState]
        /\ timer   = [c \in Calls |-> "off"]
        /\ handler = [u \in Users |-> Idle]
        /\ hangup  = [u \in Users |-> NoTask]
        /\ pending = {}
        /\ scanned = [s \in Servers |-> None]
        /\ online  = Users
        /\ ui      = [u \in Users |-> [c \in Calls |-> "none"]]
        /\ wire    = {}
        /\ missed  = {}
        /\ struck  = {}
        /\ disconnects = 0 /\ crashes = 0 /\ redisFaults = 0

-----------------------------------------------------------------------------
(* Redis *)

Busy(u)    == active[u].call # None
Clear(u)   == active' = [active EXCEPT ![u] = NoState]

(* A command fails, on behalf of those calls.  An error of a command that changes
   a key is at most logged: the handler goes on. *)
CanFail == disconnects + crashes + redisFaults < MaxFailures
Fails(cs) == /\ CanFail
             /\ redisFaults' = redisFaults + 1
             /\ struck' = struck \union cs
             /\ UNCHANGED <<disconnects, crashes>>
Attempt(command, c) == \/ command /\ UNCHANGED failures
                       \/ UNCHANGED active /\ Fails({c})

(* setActiveCallPairScript *)
SetPair(c) ==
  active' = [u \in Users |-> IF u \in Parties(c) THEN Ringing(c) ELSE active[u]]

(* markCallAnsweredScript: of whatever call the key holds *)
MarkAnswered(u) ==
  active' = [active EXCEPT ![u] = IF Busy(u) THEN [@ EXCEPT !.answered = TRUE, !.old = FALSE]
                                             ELSE @]

(* clearCallIfMatchScript *)
Matches(u, c) == active[u].call = c /\ ~active[u].answered
ClearIfMatch(u, c) ==
  active' = [active EXCEPT ![u] = IF Matches(u, c) THEN NoState ELSE @]

(* cancelRingTimeout finds only the timers of its own server, and stops only
   those whose callback has not begun. *)
CancelTimer(u, c) ==
  timer' = IF timer[c] = "armed" /\ ServerOf[u] = ServerOf[CallerOf[c]]
             THEN [timer EXCEPT ![c] = "off"] ELSE timer

Publish(type, c, to) == wire' = wire \union {[type |-> type, call |-> c, to |-> to]}

-----------------------------------------------------------------------------
(* Clients and the beginning of their handlers *)

Free(u) == u \in online /\ handler[u] = Idle

Show(u, c, what) == ui' = [ui EXCEPT ![u][c] = what]
Start(u, op, c, step) == handler' = [handler EXCEPT ![u] = [op |-> op, call |-> c, step |-> step]]
Step(u, step) == handler' = [handler EXCEPT ![u].step = step]
Return(u)     == handler' = [handler EXCEPT ![u] = Idle]

SendRing(c) ==
  LET u == CallerOf[c] IN
  /\ Free(u) /\ ui[u][c] = "none"
  /\ IF <<u, CalleeOf[c]>> \in MayCall
       THEN Show(u, c, "waiting") /\ Start(u, "ring", c, "pair")
       ELSE Show(u, c, "done")    /\ UNCHANGED handler
  /\ UNCHANGED <<active, timer, hangup, pending, scanned, online, wire, missed,
                 failures>>

SendAccept(c) ==
  LET u == CalleeOf[c] IN
  /\ Free(u) /\ ui[u][c] = "ringing"
  /\ Show(u, c, "talking")
  /\ CancelTimer(u, c)
  /\ Start(u, "accept", c, "markSelf")
  /\ UNCHANGED <<active, hangup, pending, scanned, online, wire, missed, failures>>

(* call_reject, call_end and call_leave change the same state. *)
SendEnd(u, c) ==
  /\ u \in Parties(c)
  /\ Free(u) /\ ui[u][c] \in {"waiting", "ringing", "talking"}
  /\ Show(u, c, "done")
  /\ CancelTimer(u, c)
  /\ Start(u, "clear", c, "clearSelf")
  /\ UNCHANGED <<active, hangup, pending, scanned, online, wire, missed, failures>>

-----------------------------------------------------------------------------
(* Handlers *)

(* Mutant of RingSetPair: only the callee's key is looked at. *)
RingSetPairCallerUnchecked(u) ==
  LET c == handler[u].call IN
  /\ handler[u].step = "pair"
  /\ IF Busy(CalleeOf[c])
       THEN UNCHANGED active /\ Show(u, c, "done") /\ Return(u)
       ELSE SetPair(c) /\ Step(u, "presence") /\ UNCHANGED ui
  /\ UNCHANGED <<timer, hangup, pending, scanned, online, wire, missed, failures>>

RingSetPair(u) ==
  LET c == handler[u].call IN
  /\ handler[u].step = "pair"
  /\ \/ /\ Busy(u) \/ Busy(CalleeOf[c])
        /\ UNCHANGED <<active, failures>>
        /\ Show(u, c, "done") /\ Return(u)      \* ALREADY_IN_CALL or call_busy
     \/ /\ ~Busy(u) /\ ~Busy(CalleeOf[c])
        /\ SetPair(c) /\ Step(u, "presence") /\ UNCHANGED <<ui, failures>>
     \/ /\ Fails({c})                          \* before or after the script ran
        /\ (UNCHANGED active \/ (~Busy(u) /\ ~Busy(CalleeOf[c]) /\ SetPair(c)))
        /\ Show(u, c, "done") /\ Return(u)      \* INTERNAL_ERROR
  /\ UNCHANGED <<timer, hangup, pending, scanned, online, wire, missed>>

(* Mutant of RingStartTimer: the timer is armed only for a callee who is here. *)
RingStartTimerIfHere(u) ==
  LET c == handler[u].call
      calleeOnline == CalleeOf[c] \in online /\ ServerOf[CalleeOf[c]] = ServerOf[u] IN
  /\ handler[u].step = "presence"
  /\ IF calleeOnline \/ ServerOf[u] \in PushServers
       THEN /\ timer' = IF calleeOnline THEN [timer EXCEPT ![c] = "armed"] ELSE timer
            /\ Publish("ring", c, CalleeOf[c])
            /\ Return(u)
       ELSE Step(u, "missSelf") /\ UNCHANGED <<timer, wire>>
  /\ UNCHANGED <<active, hangup, pending, scanned, online, ui, missed, failures>>

(* IsUserOnline looks at this server only. *)
RingStartTimer(u) ==
  LET c == handler[u].call
      calleeOnline == CalleeOf[c] \in online /\ ServerOf[CalleeOf[c]] = ServerOf[u] IN
  /\ handler[u].step = "presence"
  /\ IF calleeOnline \/ ServerOf[u] \in PushServers
       THEN /\ timer' = [timer EXCEPT ![c] = "armed"]
            /\ Publish("ring", c, CalleeOf[c])
            /\ Return(u)
       ELSE Step(u, "missSelf") /\ UNCHANGED <<timer, wire>>
  /\ UNCHANGED <<active, hangup, pending, scanned, online, ui, missed, failures>>

RingMissSelf(u) ==
  /\ handler[u].step = "missSelf"
  /\ Attempt(Clear(u), handler[u].call) /\ Step(u, "missPeer")
  /\ UNCHANGED <<timer, hangup, pending, scanned, online, ui, wire, missed>>

RingMissPeer(u) ==
  LET c == handler[u].call IN
  /\ handler[u].step = "missPeer"
  /\ Attempt(Clear(CalleeOf[c]), c) /\ Show(u, c, "done") /\ Return(u)
  /\ UNCHANGED <<timer, hangup, pending, scanned, online, wire, missed>>

AcceptMarkSelf(u) ==
  /\ handler[u].step = "markSelf"
  /\ Attempt(MarkAnswered(u), handler[u].call) /\ Step(u, "markPeer")
  /\ UNCHANGED <<timer, hangup, pending, scanned, online, ui, wire, missed>>

AcceptMarkPeer(u) ==
  LET c == handler[u].call IN
  /\ handler[u].step = "markPeer"
  /\ Attempt(MarkAnswered(Peer(u, c)), c)
  /\ Publish("accept", c, Peer(u, c))
  /\ Return(u)
  /\ UNCHANGED <<timer, hangup, pending, scanned, online, ui, missed>>

EndClearSelf(u) ==
  /\ handler[u].step = "clearSelf"
  /\ Attempt(Clear(u), handler[u].call) /\ Step(u, "clearPeer")
  /\ UNCHANGED <<timer, hangup, pending, scanned, online, ui, wire, missed>>

EndClearPeer(u) ==
  LET c == handler[u].call IN
  /\ handler[u].step = "clearPeer"
  /\ Attempt(Clear(Peer(u, c)), c)
  /\ Publish("end", c, Peer(u, c))
  /\ Return(u)
  /\ UNCHANGED <<timer, hangup, pending, scanned, online, ui, missed>>

Handle(u) == \/ RingSetPair(u) \/ RingStartTimer(u) \/ RingMissSelf(u) \/ RingMissPeer(u)
             \/ AcceptMarkSelf(u) \/ AcceptMarkPeer(u) \/ EndClearSelf(u) \/ EndClearPeer(u)

-----------------------------------------------------------------------------
(* The ring timer's callback: clear the caller's key, then the callee's; the
   caller is told the call was missed if its key was the one cleared. *)

(* Mutant of TimerClearCaller: the caller is told whatever the script returned. *)
TimerClearCallerAlwaysTells(c) ==
  /\ timer[c] = "armed"
  /\ ClearIfMatch(CallerOf[c], c)
  /\ timer'  = [timer EXCEPT ![c] = "clearCallee"]
  /\ missed' = missed \union {c}
  /\ UNCHANGED <<handler, hangup, pending, scanned, online, ui, wire, failures>>

TimerClearCaller(c) ==
  /\ timer[c] = "armed"
  /\ timer'  = [timer EXCEPT ![c] = "clearCallee"]
  /\ \/ /\ ClearIfMatch(CallerOf[c], c) /\ UNCHANGED failures
        /\ missed' = IF Matches(CallerOf[c], c) THEN missed \union {c} ELSE missed
     \/ /\ Fails({c}) /\ UNCHANGED missed      \* before or after the script ran
        /\ (UNCHANGED active \/ ClearIfMatch(CallerOf[c], c))
  /\ UNCHANGED <<handler, hangup, pending, scanned, online, ui, wire>>

TimerClearCallee(c) ==
  /\ timer[c] = "clearCallee"
  /\ Attempt(ClearIfMatch(CalleeOf[c], c), c)
  /\ timer' = [timer EXCEPT ![c] = "off"]
  /\ IF c \in missed THEN Publish("end", c, CallerOf[c]) ELSE UNCHANGED wire
  /\ UNCHANGED <<handler, hangup, pending, scanned, online, ui, missed>>

(* A ring grows old: CallRingTimeout has passed.  The scanner's grace period
   on top of it leaves the timer's callback and the handlers of the call the
   time to end, so a key is old only when they have. *)
GrowOld(c) ==
  LET ringing == {u \in Users : Matches(u, c) /\ ~active[u].old} IN
  /\ ringing # {}
  /\ timer[c] = "off"
  /\ \A u \in Parties(c) : handler[u].call # c
  /\ active' = [u \in Users |-> [active[u] EXCEPT !.old = @ \/ u \in ringing]]
  /\ UNCHANGED <<timer, handler, hangup, pending, scanned, online, ui, wire, missed,
                 failures>>

-----------------------------------------------------------------------------
(* The router hands a published message to the addressee's connection, and
   drops it when there is none. *)
Deliver(m) ==
  /\ m \in wire
  /\ wire' = wire \ {m}
  /\ LET seen == ui[m.to][m.call] IN
     Show(m.to, m.call,
          CASE m.to \notin online                     -> seen
            [] m.type = "ring"   /\ seen = "none"     -> "ringing"
            [] m.type = "accept" /\ seen = "waiting"  -> "talking"
            [] m.type = "end"    /\ seen # "none"     -> "done"
            [] OTHER                                  -> seen)
  /\ UNCHANGED <<active, timer, handler, hangup, pending, scanned, online, missed,
                 failures>>

-----------------------------------------------------------------------------
(* A user's last device goes away (Unregister), and comes back (Register). *)

Forget(us) == ui' = [u \in Users |-> IF u \in us
                       THEN [c \in Calls |-> IF ui[u][c] = "none" THEN "none" ELSE "done"]
                       ELSE ui[u]]

Disconnect(u) ==
  /\ CanFail
  /\ Free(u) /\ hangup[u] = NoTask
  /\ disconnects' = disconnects + 1
  /\ online' = online \ {u}
  /\ pending' = pending \ {u}
  /\ Forget({u})
  /\ hangup' = [hangup EXCEPT ![u] = [call |-> None, step |-> "get"]]
  /\ UNCHANGED <<active, timer, handler, scanned, wire, missed, struck, crashes, redisFaults>>

Connect(u) ==
  /\ u \notin online
  /\ online'  = online \union {u}
  /\ pending' = pending \union {u}
  /\ UNCHANGED <<active, timer, handler, hangup, scanned, ui, wire, missed, failures>>

DeliverPendingCall(u) ==
  LET c == active[u].call IN
  /\ u \in pending
  /\ pending' = pending \ {u}
  /\ \/ /\ IF c # None /\ u = CalleeOf[c] /\ ~active[u].answered /\ ~active[u].old
             THEN Show(u, c, "ringing") ELSE UNCHANGED ui
        /\ UNCHANGED failures
     \/ Fails({}) /\ UNCHANGED ui
  /\ UNCHANGED <<active, timer, handler, hangup, scanned, online, wire, missed>>

(* handleCallDisconnect: read the key, hang up on the peer, clear both keys. *)
HangupGet(u) ==
  LET c == active[u].call IN
  /\ hangup[u].step = "get"
  /\ \/ /\ (c = None /\ UNCHANGED failures) \/ Fails({})      \* no key, or an error
        /\ hangup' = [hangup EXCEPT ![u] = NoTask] /\ UNCHANGED <<timer, wire>>
     \/ /\ c # None
        /\ hangup' = [hangup EXCEPT ![u] = [call |-> c, step |-> "clearSelf"]]
        /\ CancelTimer(u, c)
        /\ Publish("end", c, Peer(u, c))
        /\ UNCHANGED failures
  /\ UNCHANGED <<active, handler, pending, scanned, online, ui, missed>>

HangupClearSelf(u) ==
  /\ hangup[u].step = "clearSelf"
  /\ Attempt(Clear(u), hangup[u].call)
  /\ hangup' = [hangup EXCEPT ![u].step = "clearPeer"]
  /\ UNCHANGED <<timer, handler, pending, scanned, online, ui, wire, missed>>

HangupClearPeer(u) ==
  /\ hangup[u].step = "clearPeer"
  /\ Attempt(Clear(Peer(u, hangup[u].call)), hangup[u].call)
  /\ hangup' = [hangup EXCEPT ![u] = NoTask]
  /\ UNCHANGED <<timer, handler, pending, scanned, online, ui, wire, missed>>

Hangup(u) == HangupGet(u) \/ HangupClearSelf(u) \/ HangupClearPeer(u)

-----------------------------------------------------------------------------
(* scanOrphanP2PCalls: GET, decide, DEL. *)

(* Mutant of ScanGet: the scanner takes the answered calls for orphans. *)
ScanGetAnswered(s, u) ==
  /\ scanned[s] = None
  /\ Busy(u) /\ active[u].answered /\ active[u].old
  /\ scanned' = [scanned EXCEPT ![s] = u]
  /\ UNCHANGED <<active, timer, handler, hangup, pending, online, ui, wire, missed,
                 failures>>

ScanGet(s, u) ==
  /\ scanned[s] = None
  /\ Busy(u) /\ ~active[u].answered /\ active[u].old
  /\ scanned' = [scanned EXCEPT ![s] = u]
  /\ UNCHANGED <<active, timer, handler, hangup, pending, online, ui, wire, missed,
                 failures>>

ScanDel(s) ==
  /\ scanned[s] # None
  /\ ((Clear(scanned[s]) /\ UNCHANGED failures) \/ (Fails({}) /\ UNCHANGED active))
  /\ scanned' = [scanned EXCEPT ![s] = None]
  /\ UNCHANGED <<timer, handler, hangup, pending, online, ui, wire, missed>>

(* A server dies and restarts: its connections, tasks and timers are gone,
   the keys in Redis are not. *)
Crash(s) ==
  LET here == {u \in Users : ServerOf[u] = s} IN
  /\ CanFail
  /\ crashes' = crashes + 1
  /\ online'  = online \ here
  /\ pending' = pending \ here
  /\ Forget(here)
  /\ handler' = [u \in Users |-> IF u \in here THEN Idle ELSE handler[u]]
  /\ hangup'  = [u \in Users |-> IF u \in here THEN NoTask ELSE hangup[u]]
  /\ timer'   = [c \in Calls |-> IF CallerOf[c] \in here THEN "off" ELSE timer[c]]
  /\ scanned' = [scanned EXCEPT ![s] = None]
  /\ UNCHANGED <<active, wire, missed, struck, disconnects, redisFaults>>

-----------------------------------------------------------------------------

Next == \/ \E c \in Calls : SendRing(c) \/ SendAccept(c) \/ GrowOld(c)
                               \/ TimerClearCaller(c) \/ TimerClearCallee(c)
        \/ \E u \in Users, c \in Calls : SendEnd(u, c)
        \/ \E u \in Users : Handle(u) \/ Disconnect(u) \/ Connect(u)
                               \/ DeliverPendingCall(u) \/ Hangup(u)
        \/ \E m \in wire : Deliver(m)
        \/ \E s \in Servers : ScanDel(s) \/ Crash(s)
        \/ \E s \in Servers, u \in Users : ScanGet(s, u)

Spec == Init /\ [][Next]_vars

(* Time passes, handlers, tasks and timer callbacks end, the scanner ticks.
   Nothing is assumed of the clients or of the delivery of messages. *)
FairSpec ==
  /\ Spec
  /\ \A c \in Calls : WF_vars(GrowOld(c)) /\ WF_vars(TimerClearCaller(c) \/ TimerClearCallee(c))
  /\ \A u \in Users : WF_vars(Handle(u)) /\ WF_vars(Hangup(u))
  /\ \A s \in Servers : WF_vars(ScanDel(s) \/ \E u \in Users : ScanGet(s, u))

-----------------------------------------------------------------------------
(* Properties *)

(* A user's key is never overwritten by another call: a ring goes through only
   when both keys are free, whatever rings, hang-ups and timers run at once
   (setActiveCallPairScript). *)
RingNeverOverwrites ==
  [][\A u \in Users : Busy(u) /\ Busy(u)' => active'[u].call = active[u].call]_vars

(* As long as no server dies, every unanswered call is watched: its timer is
   armed or running, or a handler or a hang-up task that will clear or answer
   it is under way.  Cancelling the timer of a call nobody then ends would
   leave both users busy until the key's two-hour TTL.  The exception are the calls
   for which a Redis command failed: keys set without a timer when the script of a
   ring reports an error, or left when the DEL after a cancelled timer does. *)
RingIsWatched ==
  crashes = 0 =>
    \A u \in Users : Busy(u) /\ ~active[u].answered =>
       LET c == active[u].call IN
       \/ c \in struck
       \/ timer[c] # "off"
       \/ \E v \in Parties(c) : handler[v].call = c \/ hangup[v].call = c

(* Once a caller has been told that a call was missed, the caller's key does
   not hold that call, and never will again. *)
MissedIsOver == \A c \in missed : active[CallerOf[c]].call # c

(* Nobody stays ringing: crashes and failing commands included, an unanswered call
   leaves the key, by its timer or by the orphan scanner. *)
RingResolved ==
  \A u \in Users, c \in Calls :
     Matches(u, c) ~> ~Matches(u, c)

-----------------------------------------------------------------------------
(* A statement of the source's comments that the code does not keep. *)

(* calls.go:176 "Atomically clear both users' call state only if the callId
   still matches and the call is unanswered. This prevents the race between
   ring timeout and concurrent call_accept": the callee is never in an
   answered call that the timer has reported missed to the caller. *)
MissedNotAnswered ==
  \A c \in missed : active[CalleeOf[c]].call = c => ~active[CalleeOf[c]].answered
=============================================================================
