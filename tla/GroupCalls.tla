------------------------------ MODULE GroupCalls ------------------------------
(***************************************************************************)
(* The call of one group (handlers/calls.go, DeleteGroupHandler of         *)
(* handlers/groups.go, ScanOrphanGroupCalls of chat/bgpool.go).  The call  *)
(* lives in three places: a Redis key with its participants and admins, a  *)
(* row of call_logs, and a LiveKit room.  Every handler loads the key,     *)
(* changes the copy in its hands and writes it back, without a lock; the   *)
(* scanner ends calls that are older than maxGroupCallDuration.            *)
(*                                                                         *)
(* One step is one Redis command or one statement; a LiveKit call goes     *)
(* with the command next to it, and the checks of a request (membership,   *)
(* call ID, call admin) with the GET.  A user has one request in flight.   *)
(* Not modelled: tokens, muting, who is connected to a LiveKit room and    *)
(* that LiveKit closes an empty room, what is broadcast.                   *)
(***************************************************************************)
EXTENDS Naturals, FiniteSets

CONSTANTS Users, Members,      \* Members: active members of the group
          GroupAdmins, Creator,
          MaxCalls, MaxRequests, MaxFaults   \* bounds

ASSUME MembersType  == Members \subseteq Users /\ GroupAdmins \subseteq Members /\ Creator \in Users
ASSUME CallBounds   == MaxCalls \in Nat /\ MaxRequests \in Nat /\ MaxFaults \in Nat

VARIABLES
  exists,      \* the row of the group in rooms
  call,        \* Redis key group_call:<group>
  log,         \* row of call_logs of each call
  logged,      \* its participants column
  rooms,       \* LiveKit rooms
  req,         \* request of a user: its step, and the state it will write
  scan,        \* ScanOrphanGroupCalls: its step, and the state it has read
  started,     \* call IDs handed out
  announced,   \* calls whose ID was sent to the members
  usurped,     \* history: calls whose key a holder of another call wrote or deleted
  faulted,     \* history: calls of a failed statement or of a crash
  gone,        \* history: users taken out of the stored call and not let in again
  older,       \* history: users taken out since a request loaded the copy it will save
  requests, faults

history == <<gone, older>>
vars    == <<exists, call, log, logged, rooms, req, scan, started, announced, usurped,
             faulted, history, requests, faults>>

Calls  == 1..MaxCalls
State  == [id : Calls, participants : SUBSET Users, admins : SUBSET Users, old : BOOLEAN]
NoCall == [id |-> 0, participants |-> {}, admins |-> {}, old |-> FALSE]
Idle   == [step |-> "idle", held |-> NoCall]

StartSteps == {"claim", "insert", "undo"}
EndSteps   == {"endLog", "dropLog"}
Steps      == {"idle", "join", "joinLog", "write", "end", "dropCall", "dropGroup"}
                \union StartSteps \union EndSteps
Copying    == {"join", "write"}   \* about to save a changed copy of the key

TypeOK ==
  /\ exists \in BOOLEAN
  /\ call \in State \union {NoCall}
  /\ log \in [Calls -> {"none", "open", "ended"}]
  /\ logged \in [Calls -> SUBSET Users]
  /\ rooms \subseteq Calls
  /\ req \in [Users -> [step : Steps, held : State \union {NoCall}]]
  /\ \A u \in Users : req[u].step \notin {"idle", "dropGroup"} => req[u].held \in State
  /\ scan \in [step : {"idle", "log", "del"}, held : State \union {NoCall}]
  /\ scan.step # "idle" => scan.held \in State
  /\ started \in 0..MaxCalls
  /\ announced \subseteq Calls /\ usurped \subseteq Calls /\ faulted \subseteq Calls
  /\ gone \subseteq Users /\ older \in [Users -> SUBSET Users]
  /\ requests \in 0..MaxRequests /\ faults \in 0..MaxFaults

Init ==
  /\ exists = TRUE
  /\ call = NoCall
  /\ log = [c \in Calls |-> "none"] /\ logged = [c \in Calls |-> {}]
  /\ rooms = {}
  /\ req = [u \in Users |-> Idle]
  /\ scan = Idle
  /\ started = 0
  /\ announced = {} /\ usurped = {} /\ faulted = {}
  /\ gone = {} /\ older = [u \in Users |-> {}]
  /\ requests = 0 /\ faults = 0

-----------------------------------------------------------------------------
(* Helpers *)

isGroupMember(u)     == exists /\ u \in Members
isGroupAdmin(u)      == exists /\ u \in GroupAdmins
isCallAdmin(u)       == u \in call.admins \/ isGroupAdmin(u)
removeString(s, u)   == [s EXCEPT !.participants = @ \ {u}, !.admins = @ \ {u}]

(* A new request of a user, and the state it holds after its checks. *)
Begin(u, step, held) ==
  /\ req[u] = Idle
  /\ requests < MaxRequests /\ requests' = requests + 1
  /\ req' = [req EXCEPT ![u] = [step |-> step, held |-> held]]
  /\ UNCHANGED <<exists, call, log, logged, scan, announced, usurped, faulted, history,
                 faults>>

Goto(u, step) == req' = [req EXCEPT ![u].step = step]
Done(u)       == req' = [req EXCEPT ![u] = Idle]

(* loadGroupCallState: a request names a call the members were told of, and
   goes on only if the key holds that call. *)
Loaded == call.id \in announced

(* The requests that hold a copy of the key remember whom a write takes out of it. *)
TakesOut(s)  == call.participants \ s.participants
Remembers(s) == older' = [v \in Users |-> IF req'[v].step \in Copying
                                            THEN older[v] \union TakesOut(s) ELSE {}]

(* saveGroupCallState (SET) and DEL write whatever the key holds meanwhile.  A
   SET lets in who joins, and again whoever was taken out since the copy was
   loaded. *)
Usurps(c) == usurped' = IF call # NoCall /\ call.id # c THEN usurped \union {call.id}
                                                        ELSE usurped
Store(u, s) ==
  LET letIn == older[u] \union (IF req[u].step = "join" THEN {u} ELSE {})
  IN  /\ call' = s
      /\ Usurps(s.id)
      /\ gone' = (gone \ (letIn \intersect s.participants)) \union TakesOut(s)
      /\ Remembers(s)
Delete(c) ==
  /\ call' = NoCall
  /\ Usurps(c)
  /\ gone' = gone \union TakesOut(NoCall)
  /\ Remembers(NoCall)

EndLog(c) == log' = IF log[c] = "open" THEN [log EXCEPT ![c] = "ended"] ELSE log

-----------------------------------------------------------------------------
(* StartGroupCallHandler *)

StartGroupCall(u) ==
  /\ started < MaxCalls
  /\ isGroupMember(u)
  /\ started' = started + 1
  /\ rooms' = rooms \union {started'}
  /\ Begin(u, "claim", [id |-> started', participants |-> {u}, admins |-> {u}, old |-> FALSE])

(* Mutant of ClaimSlot: SET instead of SETNX. *)
ClaimAnyway(u) ==
  /\ req[u].step = "claim"
  /\ call' = req[u].held
  /\ gone' = (gone \ {u}) \union TakesOut(req[u].held)
  /\ Goto(u, "insert") /\ Remembers(req[u].held)
  /\ UNCHANGED <<exists, log, logged, rooms, scan, started, announced, usurped, faulted,
                 requests, faults>>

(* SETNX; the loser deletes the room it created. *)
ClaimSlot(u) ==
  /\ req[u].step = "claim"
  /\ IF call = NoCall THEN /\ call' = req[u].held /\ gone' = gone \ {u}
                           /\ Goto(u, "insert") /\ UNCHANGED rooms
                      ELSE /\ rooms' = rooms \ {req[u].held.id}
                           /\ Done(u) /\ UNCHANGED <<call, gone>>
  /\ UNCHANGED <<exists, log, logged, scan, started, announced, usurped, faulted, older,
                 requests, faults>>

(* The INSERT refers to the group's row. *)
InsertLog(u) ==
  LET c == req[u].held.id IN
  /\ req[u].step = "insert"
  /\ IF exists THEN /\ log' = [log EXCEPT ![c] = "open"]
                    /\ logged' = [logged EXCEPT ![c] = {u}]
                    /\ announced' = announced \union {c}
                    /\ Done(u)
               ELSE /\ Goto(u, "undo")
                    /\ UNCHANGED <<log, logged, announced>>
  /\ UNCHANGED <<exists, call, rooms, scan, started, usurped, faulted, history, requests,
                 faults>>

UndoStart(u) ==
  /\ req[u].step = "undo"
  /\ Done(u)
  /\ Delete(req[u].held.id)
  /\ rooms' = rooms \ {req[u].held.id}
  /\ UNCHANGED <<exists, log, logged, scan, started, announced, faulted, requests,
                 faults>>

-----------------------------------------------------------------------------
(* JoinGroupCallHandler *)

JoinGroupCall(u) ==
  /\ isGroupMember(u)
  /\ Loaded
  /\ Begin(u, "join", [call EXCEPT !.participants = @ \union {u}])
  /\ UNCHANGED <<rooms, started>>

SaveJoin(u) ==
  /\ req[u].step = "join"
  /\ Goto(u, "joinLog")
  /\ Store(u, req[u].held)
  /\ UNCHANGED <<exists, log, logged, rooms, scan, started, announced, faulted, requests,
                 faults>>

(* Mutant of LogJoin: the array is replaced instead of appended to. *)
LogLastJoin(u) ==
  /\ req[u].step = "joinLog"
  /\ logged' = [logged EXCEPT ![req[u].held.id] = {u}]
  /\ Done(u)
  /\ UNCHANGED <<exists, call, log, rooms, scan, started, announced, usurped, faulted,
                 history, requests, faults>>

LogJoin(u) ==
  LET c == req[u].held.id IN
  /\ req[u].step = "joinLog"
  /\ logged' = IF log[c] = "none" THEN logged ELSE [logged EXCEPT ![c] = @ \union {u}]
  /\ Done(u)
  /\ UNCHANGED <<exists, call, log, rooms, scan, started, announced, usurped, faulted,
                 history, requests, faults>>

-----------------------------------------------------------------------------
(* LeaveGroupCallHandler, KickParticipantHandler, PromoteCallAdminHandler *)

LeaveGroupCall(u) ==
  /\ Loaded
  /\ Begin(u, "write", removeString(call, u))
  /\ UNCHANGED <<rooms, started>>

KickParticipant(u, target) ==
  /\ isGroupMember(u)
  /\ Loaded /\ isCallAdmin(u)
  /\ target \in call.participants \ {u}
  /\ Begin(u, "write", removeString(call, target))
  /\ UNCHANGED <<rooms, started>>

(* Mutant of PromoteCallAdmin: the target need not be in the call, and gets into it. *)
PromoteLetsIn(u, target) ==
  /\ isGroupMember(u)
  /\ Loaded /\ isCallAdmin(u)
  /\ target \in Users \ call.admins
  /\ Begin(u, "write", [call EXCEPT !.admins = @ \union {target},
                                   !.participants = @ \union {target}])
  /\ UNCHANGED <<rooms, started>>

PromoteCallAdmin(u, target) ==
  /\ isGroupMember(u)
  /\ Loaded /\ isCallAdmin(u)
  /\ target \in call.participants \ call.admins
  /\ Begin(u, "write", [call EXCEPT !.admins = @ \union {target}])
  /\ UNCHANGED <<rooms, started>>

(* Nobody left: the key is deleted, and the log row ended next. *)
WriteState(u) ==
  /\ req[u].step = "write"
  /\ IF req[u].held.participants = {} THEN Goto(u, "endLog") /\ Delete(req[u].held.id)
                                      ELSE Done(u) /\ Store(u, req[u].held)
  /\ UNCHANGED <<exists, log, logged, rooms, scan, started, announced, faulted, requests,
                 faults>>

-----------------------------------------------------------------------------
(* ForceEndCallHandler, DeleteGroupHandler *)

ForceEndCall(u) ==
  /\ isGroupMember(u)
  /\ Loaded /\ isCallAdmin(u)
  /\ Begin(u, "end", call)
  /\ UNCHANGED <<rooms, started>>

DeleteGroup(u) ==
  /\ exists /\ u = Creator
  /\ Begin(u, IF call = NoCall THEN "dropGroup" ELSE "dropCall", call)
  /\ UNCHANGED <<rooms, started>>

(* LiveKit room, then DEL *)
EndCall(u) ==
  LET c == req[u].held.id IN
  /\ req[u].step \in {"end", "dropCall"}
  /\ rooms' = rooms \ {c}
  /\ Goto(u, IF req[u].step = "end" THEN "endLog" ELSE "dropLog")
  /\ Delete(c)
  /\ UNCHANGED <<exists, log, logged, scan, started, announced, faulted, requests,
                 faults>>

UpdateLog(u) ==
  /\ req[u].step \in EndSteps
  /\ EndLog(req[u].held.id)
  /\ IF req[u].step = "endLog" THEN Done(u) ELSE Goto(u, "dropGroup")
  /\ UNCHANGED <<exists, call, logged, rooms, scan, started, announced, usurped, faulted,
                 history, requests, faults>>

(* The rows of call_logs go with the group (ON DELETE CASCADE). *)
DropGroup(u) ==
  /\ req[u].step = "dropGroup"
  /\ exists' = FALSE
  /\ log' = [c \in Calls |-> "none"] /\ logged' = [c \in Calls |-> {}]
  /\ Done(u)
  /\ UNCHANGED <<call, rooms, scan, started, announced, usurped, faulted, history,
                 requests, faults>>

-----------------------------------------------------------------------------
(* ScanOrphanGroupCalls, and the time it waits for: hours, when a request has
   seconds. *)

Quiet == scan = Idle /\ \A u \in Users : req[u] = Idle

GrowOld ==
  /\ Quiet
  /\ call # NoCall /\ ~call.old
  /\ call' = [call EXCEPT !.old = TRUE]
  /\ UNCHANGED <<exists, log, logged, rooms, req, scan, started, announced, usurped,
                 faulted, history, requests, faults>>

(* Mutant of ScanCall: only calls without participants are orphans. *)
ScanEmptyCall ==
  /\ scan = Idle
  /\ call # NoCall /\ call.participants = {}
  /\ scan' = [step |-> "log", held |-> call]
  /\ rooms' = rooms \ {call.id}
  /\ UNCHANGED <<exists, call, log, logged, req, started, announced, usurped, faulted,
                 history, requests, faults>>

(* GET, then the LiveKit room *)
ScanCall ==
  /\ scan = Idle
  /\ call # NoCall /\ (call.old \/ call.participants = {})
  /\ scan' = [step |-> "log", held |-> call]
  /\ rooms' = rooms \ {call.id}
  /\ UNCHANGED <<exists, call, log, logged, req, started, announced, usurped, faulted,
                 history, requests, faults>>

ScanLog ==
  /\ scan.step = "log"
  /\ EndLog(scan.held.id)
  /\ scan' = [scan EXCEPT !.step = "del"]
  /\ UNCHANGED <<exists, call, logged, rooms, req, started, announced, usurped, faulted,
                 history, requests, faults>>

ScanDelete ==
  /\ scan.step = "del"
  /\ scan' = Idle
  /\ UNCHANGED req
  /\ Delete(scan.held.id)
  /\ UNCHANGED <<exists, log, logged, rooms, started, announced, faulted, requests,
                 faults>>

-----------------------------------------------------------------------------
(* A command or statement fails: the handler logs it and goes on, or gives up. *)

Fault == faults < MaxFaults /\ faults' = faults + 1

(* Where a failed step leads, and whether the call's log or room is left behind. *)
AfterFailure ==
  [claim |-> "idle", insert |-> "undo", join |-> "joinLog", joinLog |-> "idle",
   endLog |-> "idle", dropCall |-> "dropLog", dropLog |-> "dropGroup", dropGroup |-> "idle"]

LeavesBehind == {"claim", "joinLog", "dropGroup"} \union EndSteps

Fails(u) ==
  LET r == req[u] IN
  /\ Fault
  /\ r.step \in DOMAIN AfterFailure
  /\ IF AfterFailure[r.step] = "idle" THEN Done(u) ELSE Goto(u, AfterFailure[r.step])
  /\ faulted' = IF r.step \in LeavesBehind THEN faulted \union ({r.held.id} \ {0}) ELSE faulted
  /\ older' = [older EXCEPT ![u] = {}]
  /\ UNCHANGED <<exists, call, log, logged, rooms, scan, started, announced, usurped,
                 gone, requests>>

(* SET, or the DEL of an ended call *)
WriteFails(u) ==
  LET r == req[u] IN
  /\ Fault
  /\ r.step \in {"write", "end"}
  /\ IF r.step = "end" \/ r.held.participants = {} THEN Goto(u, "endLog") ELSE Done(u)
  /\ older' = [older EXCEPT ![u] = {}]
  /\ UNCHANGED <<exists, call, log, logged, rooms, scan, started, announced, usurped,
                 faulted, gone, requests>>

ScanFails ==
  /\ Fault
  /\ scan # Idle
  /\ scan' = IF scan.step = "log" THEN [scan EXCEPT !.step = "del"] ELSE Idle
  /\ faulted' = IF scan.step = "log" THEN faulted \union {scan.held.id} ELSE faulted
  /\ UNCHANGED <<exists, call, log, logged, rooms, req, started, announced, usurped,
                 history, requests>>

Crash ==
  /\ Fault
  /\ req' = [u \in Users |-> Idle]
  /\ scan' = Idle
  /\ faulted' = faulted \union ({req[u].held.id : u \in Users} \ {0})
  /\ older' = [u \in Users |-> {}]
  /\ UNCHANGED <<exists, call, log, logged, rooms, started, announced, usurped, gone,
                 requests>>

-----------------------------------------------------------------------------
Request(u) ==
  \/ StartGroupCall(u) \/ JoinGroupCall(u) \/ LeaveGroupCall(u)
  \/ \E target \in Users : KickParticipant(u, target) \/ PromoteCallAdmin(u, target)
  \/ ForceEndCall(u) \/ DeleteGroup(u)

Handler(u) ==
  \/ ClaimSlot(u) \/ InsertLog(u) \/ UndoStart(u)
  \/ SaveJoin(u) \/ LogJoin(u) \/ WriteState(u)
  \/ EndCall(u) \/ UpdateLog(u) \/ DropGroup(u)

Scanner == ScanCall \/ ScanLog \/ ScanDelete

Next ==
  \/ \E u \in Users : Request(u) \/ Handler(u) \/ Fails(u) \/ WriteFails(u)
  \/ GrowOld \/ Scanner \/ ScanFails \/ Crash

(* Handlers finish, the scanner is on a ticker, and hours pass. *)
Fairness == (\A u \in Users : WF_vars(Handler(u))) /\ WF_vars(Scanner) /\ WF_vars(GrowOld)

Spec == Init /\ [][Next]_vars /\ Fairness

-----------------------------------------------------------------------------
(* What goes wrong where a fault or a usurper strikes is not repaired. *)
Spared(c) == c \notin faulted /\ c \notin usurped

(* A request that has taken c off the key and is about to end its log row, or
   to delete it with the group. *)
Ending(c) == \E u \in Users : /\ req[u].held.id = c
                             /\ req[u].step \in EndSteps \union {"dropGroup"}

(* Whatever handlers interleave or fail, the stored call has a participant, its
   admins take part in it, and who left or was kicked stays out of both, until
   he joins again or another handler saves a copy it loaded before: the requests
   in flight are the only way back, for the next one reads that he is gone. *)
StoredIsSound ==
  call # NoCall => /\ call.participants # {}
                   /\ call.admins \subseteq call.participants
                   /\ gone \intersect call.participants = {}

(* A call that is open in call_logs is the one stored in Redis, or a handler has
   just ended it: members never find a group without a call, and start a
   second one, while the first goes on. *)
OpenIsStored ==
  \A c \in Calls : log[c] = "open" /\ Spared(c) => call.id = c \/ Ending(c)

(* Whoever the key says is in the call is in its log row, or about to be. *)
ParticipantsAreLogged ==
  \A u \in call.participants :
    call.id \in announced /\ call.id \notin faulted /\ log[call.id] # "none"
      => u \in logged[call.id] \/ req[u].step = "joinLog"

(* The group's slot is always given back, whatever failed, and an open log row
   is ended. *)
CallEnds ==
  \A c \in Calls : /\ call.id = c ~> call.id # c
                   /\ log[c] = "open" ~> (log[c] # "open" \/ ~Spared(c))
=============================================================================
