--------------------------- MODULE GroupCalls_proofs ---------------------------
(***************************************************************************)
(* Machine-checked proofs about the call of a group, for any users,        *)
(* members and admins, and any number of calls, requests and faults.       *)
(***************************************************************************)
EXTENDS GroupCalls, TLAPS

-----------------------------------------------------------------------------
(* Types *)

Held == State \union {NoCall}

ReqOK(f) == /\ f \in [Users -> [step : Steps, held : Held]]
            /\ \A u \in Users : f[u].step \notin {"idle", "dropGroup"} => f[u].held \in State

ScanOK(s) == /\ s \in [step : {"idle", "log", "del"}, held : Held]
             /\ s.step # "idle" => s.held \in State

Stored == /\ exists \in BOOLEAN
          /\ call \in Held
          /\ log \in [Calls -> {"none", "open", "ended"}]
          /\ logged \in [Calls -> SUBSET Users]
          /\ rooms \subseteq Calls
          /\ announced \subseteq Calls /\ usurped \subseteq Calls /\ faulted \subseteq Calls

Counters == started \in 0..MaxCalls /\ requests \in 0..MaxRequests /\ faults \in 0..MaxFaults

HistoryOK == gone \subseteq Users /\ older \in [Users -> SUBSET Users]

LEMMA TypeOKSplit ==
  /\ TypeOK <=> Stored /\ Counters /\ ReqOK(req) /\ ScanOK(scan) /\ HistoryOK
  /\ TypeOK' <=> Stored' /\ Counters' /\ ReqOK(req') /\ ScanOK(scan') /\ HistoryOK'
BY DEF TypeOK, Stored, Counters, ReqOK, ScanOK, HistoryOK, Held

LEMMA NoCallFacts ==
  /\ NoCall.id = 0 /\ NoCall.participants = {} /\ NoCall.admins = {} /\ NoCall.old = FALSE
  /\ 0 \notin Calls /\ NoCall \in Held /\ NoCall \notin State
BY DEF NoCall, Calls, Held, State

LEMMA HeldFacts ==
  ASSUME NEW s \in Held
  PROVE  /\ s.id \in Calls \union {0} /\ s.id \in Nat
         /\ s.participants \subseteq Users /\ s.admins \subseteq Users
         /\ s.id = 0 <=> s = NoCall
         /\ s \in State <=> s # NoCall
         /\ s.id \in Calls <=> s # NoCall
<1>1. CASE s = NoCall
  BY <1>1, NoCallFacts
<1>2. CASE s \in State
  <2>1. s.id \in Calls /\ s.participants \subseteq Users /\ s.admins \subseteq Users
    BY <1>2 DEF State
  <2>2. s.id \in Nat
    BY <2>1, CallBounds DEF Calls
  <2> QED BY <1>2, <2>1, <2>2, NoCallFacts
<1> QED BY <1>1, <1>2 DEF Held

LEMMA CallFacts ==
  ASSUME TypeOK
  PROVE  /\ call \in Held /\ announced \subseteq Calls /\ usurped \subseteq Calls
         /\ faulted \subseteq Calls
         /\ call.id \in Calls \union {0}
         /\ call.id = 0 <=> call = NoCall
         /\ call \in State <=> call # NoCall
         /\ Loaded => call \in State
<1>1. call \in Held /\ announced \subseteq Calls
  BY TypeOKSplit DEF Stored
<1>2. Loaded => call.id \in Calls
  BY <1>1 DEF Loaded
<1> QED BY <1>1, <1>2, HeldFacts, TypeOKSplit DEF Stored

LEMMA BeginReq ==
  ASSUME TypeOK, NEW u \in Users, NEW step \in Steps, NEW held \in Held,
         step \notin {"idle", "dropGroup"} => held \in State, Begin(u, step, held)
  PROVE  /\ ReqOK(req') /\ requests' \in 0..MaxRequests
         /\ req[u] = Idle
         /\ req'[u].step = step /\ req'[u].held = held
         /\ \A v \in Users \ {u} : req'[v] = req[v]
<1>1. ReqOK(req) /\ requests \in 0..MaxRequests
  BY TypeOKSplit DEF Counters
<1>2. requests' \in 0..MaxRequests
  BY <1>1, CallBounds DEF Begin
<1>3. /\ req[u] = Idle
      /\ req' = [req EXCEPT ![u] = [step |-> step, held |-> held]]
  BY DEF Begin
<1>4. /\ req'[u].step = step /\ req'[u].held = held
      /\ \A v \in Users \ {u} : req'[v] = req[v]
      /\ req' \in [Users -> [step : Steps, held : Held]]
  BY <1>1, <1>3 DEF ReqOK
<1> QED BY <1>1, <1>2, <1>3, <1>4 DEF ReqOK

LEMMA GotoReq ==
  ASSUME TypeOK, NEW u \in Users, NEW step \in Steps,
         req[u].held \in State \/ step \in {"idle", "dropGroup"}, Goto(u, step)
  PROVE  /\ ReqOK(req')
         /\ req'[u].step = step /\ req'[u].held = req[u].held
         /\ \A v \in Users \ {u} : req'[v] = req[v]
<1>1. ReqOK(req)
  BY TypeOKSplit
<1>2. /\ req'[u].step = step /\ req'[u].held = req[u].held
      /\ \A v \in Users \ {u} : req'[v] = req[v]
      /\ req' \in [Users -> [step : Steps, held : Held]]
  BY <1>1 DEF ReqOK, Goto
<1> QED BY <1>1, <1>2 DEF ReqOK

LEMMA DoneReq ==
  ASSUME TypeOK, NEW u \in Users, Done(u)
  PROVE  /\ ReqOK(req')
         /\ req'[u].step = "idle" /\ req'[u].held = NoCall
         /\ \A v \in Users \ {u} : req'[v] = req[v]
<1>1. ReqOK(req)
  BY TypeOKSplit
<1>2. Idle \in [step : Steps, held : Held] /\ Idle.step = "idle" /\ Idle.held = NoCall
  BY NoCallFacts DEF Idle, Steps
<1>3. /\ req'[u] = Idle
      /\ \A v \in Users \ {u} : req'[v] = req[v]
      /\ req' \in [Users -> [step : Steps, held : Held]]
  BY <1>1, <1>2 DEF ReqOK, Done
<1> QED BY <1>1, <1>2, <1>3 DEF ReqOK

LEMMA ReqFacts ==
  ASSUME TypeOK, NEW u \in Users
  PROVE  /\ req[u].held \in Held /\ req[u].step \in Steps
         /\ req[u].step \notin {"idle", "dropGroup"}
              => req[u].held \in State /\ req[u].held.id \in Calls
         /\ req[u].held.id \in Calls \union {0} /\ req[u].held.id \in Nat
<1>1. ReqOK(req)
  BY TypeOKSplit
<1>2. req[u].held \in Held /\ req[u].step \in Steps
  BY <1>1 DEF ReqOK
<1> QED BY <1>1, <1>2, HeldFacts, NoCallFacts DEF ReqOK

LEMMA StepNames ==
  /\ {"idle", "join", "joinLog", "write", "end", "dropCall", "dropGroup", "claim", "insert",
      "undo", "endLog", "dropLog"} = Steps
  /\ StartSteps = {"claim", "insert", "undo"} /\ EndSteps = {"endLog", "dropLog"}
BY DEF Steps, StartSteps, EndSteps

(* What a request has in hand when it has made its checks *)
Change(u, step, held) ==
  /\ Loaded
  /\ held.id = call.id
  /\ held.participants \subseteq call.participants \union (IF step = "join" THEN {u} ELSE {})
  /\ step = "join" => u \in held.participants
  /\ call.admins \subseteq call.participants => held.admins \subseteq held.participants

(* The four kinds of requests: a new call, one that changes or ends the call that
   the members were told of, and the deletion of the group with or without a call. *)
LEMMA RequestBegins ==
  ASSUME TypeOK, NEW u \in Users, Request(u)
  PROVE  \/ /\ started < MaxCalls /\ started' = started + 1
            /\ rooms' = rooms \union {started'}
            /\ Begin(u, "claim", [id |-> started', participants |-> {u}, admins |-> {u},
                                  old |-> FALSE])
         \/ UNCHANGED <<rooms, started>> /\ \E step \in {"join", "write", "end"}, held \in State :
              Begin(u, step, held) /\ Change(u, step, held)
         \/ UNCHANGED <<rooms, started>> /\ call \in State /\ Begin(u, "dropCall", call)
         \/ UNCHANGED <<rooms, started>> /\ call = NoCall /\ Begin(u, "dropGroup", NoCall)
<1>0. call \in Held /\ (call \in State <=> call # NoCall) /\ (Loaded => call \in State)
  BY CallFacts
<1>1. CASE StartGroupCall(u)
  BY <1>1 DEF StartGroupCall
<1>2. CASE JoinGroupCall(u)
  <2> DEFINE held == [call EXCEPT !.participants = @ \union {u}]
  <2>1. call \in State /\ Loaded
    BY <1>0, <1>2 DEF JoinGroupCall
  <2>2. /\ held \in State /\ held.id = call.id /\ held.admins = call.admins
        /\ held.participants = call.participants \union {u}
    BY <2>1 DEF State
  <2>3. Change(u, "join", held)
    BY <2>1, <2>2 DEF Change
  <2> QED BY <1>2, <2>2, <2>3 DEF JoinGroupCall
<1>3. ASSUME NEW v \in Users, Loaded, Begin(u, "write", removeString(call, v)),
             UNCHANGED <<rooms, started>>
      PROVE  \E held \in State : Begin(u, "write", held) /\ Change(u, "write", held)
  <2> DEFINE held == removeString(call, v)
  <2>1. call \in State
    BY <1>0, <1>3
  <2>2. /\ held \in State /\ held.id = call.id /\ held.admins = call.admins \ {v}
        /\ held.participants = call.participants \ {v}
    BY <2>1 DEF State, removeString
  <2>3. Change(u, "write", held)
    BY <1>3, <2>1, <2>2 DEF Change
  <2> QED BY <1>3, <2>2, <2>3
<1>4. CASE LeaveGroupCall(u)
  BY <1>3, <1>4 DEF LeaveGroupCall
<1>5. ASSUME NEW target \in Users, KickParticipant(u, target)
      PROVE  /\ UNCHANGED <<rooms, started>>
             /\ \E held \in State : Begin(u, "write", held) /\ Change(u, "write", held)
  BY <1>3, <1>5 DEF KickParticipant
<1>6. ASSUME NEW target \in Users, PromoteCallAdmin(u, target)
      PROVE  /\ UNCHANGED <<rooms, started>>
             /\ \E held \in State : Begin(u, "write", held) /\ Change(u, "write", held)
  <2> DEFINE held == [call EXCEPT !.admins = @ \union {target}]
  <2>1. call \in State /\ Loaded /\ target \in call.participants
    BY <1>0, <1>6 DEF PromoteCallAdmin
  <2>2. /\ held \in State /\ held.id = call.id /\ held.admins = call.admins \union {target}
        /\ held.participants = call.participants
    BY <2>1 DEF State
  <2>3. Change(u, "write", held)
    BY <2>1, <2>2 DEF Change
  <2> QED BY <1>6, <2>2, <2>3 DEF PromoteCallAdmin
<1>7. CASE ForceEndCall(u)
  <2>1. call \in State /\ Change(u, "end", call)
    BY <1>0, <1>7 DEF ForceEndCall, Change
  <2> QED BY <1>7, <2>1 DEF ForceEndCall
<1>8. CASE DeleteGroup(u)
  BY <1>0, <1>8 DEF DeleteGroup
<1> QED BY <1>1, <1>2, <1>4, <1>5, <1>6, <1>7, <1>8 DEF Request

LEMMA StoreTypes ==
  ASSUME TypeOK, NEW s \in Held
  PROVE  /\ \A u : Store(u, s) => call' \in Held /\ usurped' \subseteq Calls
         /\ \A c : Delete(c) => call' \in Held /\ usurped' \subseteq Calls
<1>1. usurped \subseteq Calls /\ (call # NoCall => call.id \in Calls)
  BY CallFacts
<1> QED BY <1>1, NoCallFacts DEF Store, Delete, Usurps

LEMMA RequestTypes ==
  ASSUME TypeOK, HistoryOK', NEW u \in Users, Request(u)
  PROVE  TypeOK'
<1>0. Stored /\ Counters /\ ReqOK(req) /\ ScanOK(scan)
  BY TypeOKSplit
<1>1. UNCHANGED <<exists, call, log, logged, scan, announced, usurped, faulted, faults>>
  BY DEF Request, StartGroupCall, JoinGroupCall, LeaveGroupCall, KickParticipant,
         PromoteCallAdmin, ForceEndCall, DeleteGroup, Begin
<1>2. ASSUME ReqOK(req'), requests' \in 0..MaxRequests, UNCHANGED <<rooms, started>>
      PROVE  TypeOK'
  BY <1>0, <1>1, <1>2, TypeOKSplit DEF Stored, Counters, ScanOK
<1>3. ASSUME started < MaxCalls, started' = started + 1, rooms' = rooms \union {started'},
             Begin(u, "claim", [id |-> started', participants |-> {u}, admins |-> {u},
                                old |-> FALSE])
      PROVE  TypeOK'
  <2> DEFINE held == [id |-> started', participants |-> {u}, admins |-> {u}, old |-> FALSE]
  <2>1. started' \in Calls /\ started' \in 0..MaxCalls
    BY <1>0, <1>3, CallBounds DEF Counters, Calls
  <2>2. held \in State
    BY <2>1 DEF State
  <2> HIDE DEF held
  <2>3. held \in Held /\ "claim" \in Steps /\ Begin(u, "claim", held)
    BY <1>3, <2>2, StepNames DEF Held, held
  <2>4. ReqOK(req') /\ requests' \in 0..MaxRequests
    BY <2>2, <2>3, BeginReq
  <2>5. rooms' \subseteq Calls
    BY <1>0, <1>3, <2>1 DEF Stored
  <2> QED BY <1>0, <1>1, <2>1, <2>4, <2>5, TypeOKSplit DEF Stored, Counters, ScanOK
<1>4. ASSUME NEW step \in {"join", "write", "end"}, NEW held \in State, Begin(u, step, held)
      PROVE  ReqOK(req') /\ requests' \in 0..MaxRequests
  <2>1. step \in Steps /\ held \in Held
    BY StepNames DEF Held
  <2> QED BY <1>4, <2>1, BeginReq
<1>5. ASSUME call \in State, Begin(u, "dropCall", call)
      PROVE  ReqOK(req') /\ requests' \in 0..MaxRequests
  <2>1. "dropCall" \in Steps /\ call \in Held
    BY <1>5, StepNames DEF Held
  <2> QED BY <1>5, <2>1, BeginReq
<1>6. ASSUME Begin(u, "dropGroup", NoCall)
      PROVE  ReqOK(req') /\ requests' \in 0..MaxRequests
  <2>1. "dropGroup" \in Steps /\ NoCall \in Held
    BY StepNames, NoCallFacts
  <2> QED BY <1>6, <2>1, BeginReq
<1> QED BY <1>2, <1>3, <1>4, <1>5, <1>6, RequestBegins

LEMMA HandlerTypes ==
  ASSUME TypeOK, HistoryOK', NEW u \in Users, Handler(u)
  PROVE  TypeOK'
<1>0. /\ Stored /\ Counters /\ ReqOK(req) /\ ScanOK(scan)
      /\ req[u].held \in Held /\ NoCall \in Held
  BY TypeOKSplit, ReqFacts, NoCallFacts
<1>a. req[u].step \notin {"idle", "dropGroup"} => req[u].held \in State /\ req[u].held.id \in Calls
  BY ReqFacts
<1>1. CASE ClaimSlot(u)
  <2>1. call' \in Held /\ rooms' \subseteq Calls
    BY <1>0, <1>1 DEF ClaimSlot, Stored
  <2>2. ReqOK(req')
    BY <1>1, <1>a, StepNames, GotoReq, DoneReq DEF ClaimSlot
  <2> QED BY <1>0, <1>1, <2>1, <2>2, TypeOKSplit DEF ClaimSlot, Stored, Counters, ScanOK
<1>2. CASE InsertLog(u)
  <2>1. req[u].held \in State /\ req[u].held.id \in Calls
    BY <1>2, <1>a DEF InsertLog
  <2>2. ReqOK(req')
    BY <1>2, <2>1, StepNames, GotoReq, DoneReq DEF InsertLog
  <2>3. /\ log' \in [Calls -> {"none", "open", "ended"}] /\ logged' \in [Calls -> SUBSET Users]
        /\ announced' \subseteq Calls
    BY <1>0, <1>2, <2>1 DEF InsertLog, Stored
  <2> QED BY <1>0, <1>2, <2>2, <2>3, TypeOKSplit DEF InsertLog, Stored, Counters, ScanOK
<1>3. CASE UndoStart(u)
  <2>1. ReqOK(req')
    BY <1>3, DoneReq DEF UndoStart
  <2>2. call' \in Held /\ usurped' \subseteq Calls
    BY <1>0, <1>3, StoreTypes DEF UndoStart
  <2> QED BY <1>0, <1>3, <2>1, <2>2, TypeOKSplit DEF UndoStart, Stored, Counters, ScanOK
<1>4. CASE SaveJoin(u)
  <2>1. ReqOK(req')
    BY <1>4, <1>a, StepNames, GotoReq DEF SaveJoin
  <2>2. call' \in Held /\ usurped' \subseteq Calls
    BY <1>0, <1>4, StoreTypes DEF SaveJoin
  <2> QED BY <1>0, <1>4, <2>1, <2>2, TypeOKSplit DEF SaveJoin, Stored, Counters, ScanOK
<1>5. CASE LogJoin(u)
  <2>1. ReqOK(req')
    BY <1>5, DoneReq DEF LogJoin
  <2>2. logged' \in [Calls -> SUBSET Users]
    BY <1>0, <1>5 DEF LogJoin, Stored
  <2> QED BY <1>0, <1>5, <2>1, <2>2, TypeOKSplit DEF LogJoin, Stored, Counters, ScanOK
<1>6. CASE WriteState(u)
  <2>1. ReqOK(req')
    BY <1>6, <1>a, StepNames, GotoReq, DoneReq DEF WriteState
  <2>2. call' \in Held /\ usurped' \subseteq Calls
    BY <1>0, <1>6, StoreTypes DEF WriteState
  <2> QED BY <1>0, <1>6, <2>1, <2>2, TypeOKSplit DEF WriteState, Stored, Counters, ScanOK
<1>7. CASE EndCall(u)
  <2>1. ReqOK(req')
    <3>1. req[u].held \in State
      BY <1>7, <1>a DEF EndCall
    <3>2. Goto(u, "endLog") \/ Goto(u, "dropLog")
      BY <1>7 DEF EndCall
    <3> QED BY <3>1, <3>2, StepNames, GotoReq
  <2>2. call' \in Held /\ usurped' \subseteq Calls /\ rooms' \subseteq Calls
    BY <1>0, <1>7, StoreTypes DEF EndCall, Stored
  <2> QED BY <1>0, <1>7, <2>1, <2>2, TypeOKSplit DEF EndCall, Stored, Counters, ScanOK
<1>8. CASE UpdateLog(u)
  <2>1. ReqOK(req')
    BY <1>8, StepNames, GotoReq, DoneReq DEF UpdateLog
  <2>2. log' \in [Calls -> {"none", "open", "ended"}]
    BY <1>0, <1>8 DEF UpdateLog, EndLog, Stored
  <2> QED BY <1>0, <1>8, <2>1, <2>2, TypeOKSplit DEF UpdateLog, Stored, Counters, ScanOK
<1>9. CASE DropGroup(u)
  <2>1. ReqOK(req')
    BY <1>9, DoneReq DEF DropGroup
  <2> QED BY <1>0, <1>9, <2>1, TypeOKSplit DEF DropGroup, Stored, Counters, ScanOK
<1> QED BY <1>1, <1>2, <1>3, <1>4, <1>5, <1>6, <1>7, <1>8, <1>9 DEF Handler

LEMMA ScanFacts ==
  ASSUME TypeOK
  PROVE  /\ scan.held \in Held /\ scan.held.id \in Calls \union {0} /\ scan.held.id \in Nat
         /\ scan.step \in {"idle", "log", "del"}
         /\ scan.step # "idle" => scan.held \in State /\ scan.held.id \in Calls
<1>1. ScanOK(scan)
  BY TypeOKSplit
<1> QED BY <1>1, HeldFacts, NoCallFacts DEF ScanOK

LEMMA ScannerTypes ==
  ASSUME TypeOK, HistoryOK', Scanner \/ GrowOld
  PROVE  TypeOK'
<1>0. /\ Stored /\ Counters /\ ReqOK(req) /\ ScanOK(scan)
      /\ (call \in State <=> call # NoCall) /\ NoCall \in Held
  BY TypeOKSplit, CallFacts, NoCallFacts
<1>1. CASE ScanCall
  <2>1. call \in State /\ call \in Held
    BY <1>0, <1>1 DEF ScanCall, Stored
  <2>2. ScanOK(scan') /\ rooms' \subseteq Calls
    BY <1>0, <1>1, <2>1 DEF ScanCall, ScanOK, Stored
  <2> QED BY <1>0, <1>1, <2>2, TypeOKSplit DEF ScanCall, Stored, Counters, ReqOK
<1>2. CASE ScanLog
  <2>1. ScanOK(scan')
    BY <1>0, <1>2 DEF ScanLog, ScanOK
  <2>2. log' \in [Calls -> {"none", "open", "ended"}]
    BY <1>0, <1>2 DEF ScanLog, EndLog, Stored
  <2> QED BY <1>0, <1>2, <2>1, <2>2, TypeOKSplit DEF ScanLog, Stored, Counters, ReqOK
<1>3. CASE ScanDelete
  <2>1. ScanOK(scan')
    BY <1>0, <1>3 DEF ScanDelete, ScanOK, Idle
  <2>2. call' \in Held /\ usurped' \subseteq Calls
    BY <1>0, <1>3, StoreTypes DEF ScanDelete
  <2> QED BY <1>0, <1>3, <2>1, <2>2, TypeOKSplit DEF ScanDelete, Stored, Counters, ReqOK
<1>4. CASE GrowOld
  <2>1. call' \in State
    BY <1>0, <1>4 DEF GrowOld, State
  <2> QED BY <1>0, <1>4, <2>1, TypeOKSplit DEF GrowOld, Stored, Counters, ReqOK, ScanOK, Held
<1> QED BY <1>1, <1>2, <1>3, <1>4 DEF Scanner

(* Where the request of a user goes when a command fails *)
LEMMA FailureSteps ==
  /\ DOMAIN AfterFailure = {"claim", "insert", "join", "joinLog", "endLog", "dropCall", "dropLog",
                            "dropGroup"}
  /\ AfterFailure["claim"] = "idle" /\ AfterFailure["insert"] = "undo"
  /\ AfterFailure["join"] = "joinLog" /\ AfterFailure["joinLog"] = "idle"
  /\ AfterFailure["endLog"] = "idle" /\ AfterFailure["dropCall"] = "dropLog"
  /\ AfterFailure["dropLog"] = "dropGroup" /\ AfterFailure["dropGroup"] = "idle"
  /\ LeavesBehind = {"claim", "joinLog", "dropGroup", "endLog", "dropLog"}
BY DEF AfterFailure, LeavesBehind, EndSteps

LEMMA FaultTypes ==
  ASSUME TypeOK, HistoryOK', Fault, faulted' \subseteq Calls,
         UNCHANGED <<exists, call, log, logged, rooms, started, announced, usurped, requests>>,
         ReqOK(req'), ScanOK(scan')
  PROVE  TypeOK'
<1>1. Stored /\ Counters
  BY TypeOKSplit
<1>2. faults' \in 0..MaxFaults
  BY <1>1, CallBounds DEF Fault, Counters
<1>3. Stored'
  BY <1>1 DEF Stored
<1>4. Counters'
  BY <1>1, <1>2 DEF Counters
<1> QED BY <1>3, <1>4, TypeOKSplit

LEMMA FailsReq ==
  ASSUME TypeOK, NEW u \in Users, Fails(u)
  PROVE  /\ ReqOK(req')
         /\ \A v \in Users \ {u} : req'[v] = req[v]
         /\ \/ /\ req[u].step \in {"claim", "joinLog", "endLog", "dropGroup"}
               /\ req'[u].step = "idle" /\ req'[u].held = NoCall
            \/ /\ req'[u].held = req[u].held
               /\ \/ req[u].step = "insert" /\ req'[u].step = "undo"
                  \/ req[u].step = "join" /\ req'[u].step = "joinLog"
                  \/ req[u].step = "dropCall" /\ req'[u].step = "dropLog"
                  \/ req[u].step = "dropLog" /\ req'[u].step = "dropGroup"
<1>1. CASE req[u].step \in {"claim", "joinLog", "endLog", "dropGroup"}
  <2>1. Done(u)
    BY <1>1, FailureSteps DEF Fails
  <2> QED BY <1>1, <2>1, DoneReq
<1>2. CASE req[u].step \in {"insert", "join", "dropCall", "dropLog"}
  <2>1. req[u].held \in State
    BY <1>2, ReqFacts
  <2>2. Goto(u, AfterFailure[req[u].step]) /\ AfterFailure[req[u].step] \in Steps
    BY <1>2, FailureSteps, StepNames DEF Fails
  <2>3. /\ ReqOK(req') /\ \A v \in Users \ {u} : req'[v] = req[v]
        /\ req'[u].held = req[u].held /\ req'[u].step = AfterFailure[req[u].step]
    BY <2>1, <2>2, GotoReq
  <2> QED BY <1>2, <2>3, FailureSteps
<1> QED BY <1>1, <1>2, FailureSteps DEF Fails

LEMMA WriteFailsReq ==
  ASSUME TypeOK, NEW u \in Users, WriteFails(u)
  PROVE  /\ ReqOK(req')
         /\ \A v \in Users \ {u} : req'[v] = req[v]
         /\ req[u].step \in {"write", "end"}
         /\ \/ req'[u].step = "idle" /\ req'[u].held = NoCall
            \/ req'[u].step = "endLog" /\ req'[u].held = req[u].held
<1>1. req[u].held \in State /\ req[u].step \in {"write", "end"} /\ (Goto(u, "endLog") \/ Done(u))
  BY ReqFacts DEF WriteFails
<1> QED BY <1>1, StepNames, GotoReq, DoneReq

LEMMA FailureTypes ==
  ASSUME TypeOK, HistoryOK',
         ScanFails \/ Crash \/ \E u \in Users : Fails(u) \/ WriteFails(u)
  PROVE  TypeOK'
<1>0. faulted \subseteq Calls /\ ReqOK(req) /\ ScanOK(scan) /\ ScanOK(Idle)
  BY TypeOKSplit, NoCallFacts DEF Stored, ScanOK, Idle
<1>1. ASSUME NEW u \in Users, Fails(u) PROVE TypeOK'
  <2>1. faulted' \subseteq Calls
    BY <1>0, <1>1, ReqFacts DEF Fails
  <2>2. ReqOK(req')
    BY <1>1, FailsReq
  <2> QED BY <1>0, <1>1, <2>1, <2>2, FaultTypes DEF Fails
<1>2. ASSUME NEW u \in Users, WriteFails(u) PROVE TypeOK'
  <2>1. ReqOK(req')
    BY <1>2, WriteFailsReq
  <2> QED BY <1>0, <1>2, <2>1, FaultTypes DEF WriteFails
<1>3. CASE ScanFails
  <2>1. ScanOK(scan')
    BY <1>0, <1>3 DEF ScanFails, ScanOK
  <2>2. faulted' \subseteq Calls
    BY <1>0, <1>3, ScanFacts DEF ScanFails
  <2> QED BY <1>0, <1>3, <2>1, <2>2, FaultTypes DEF ScanFails
<1>4. CASE Crash
  <2>1. ReqOK(req')
    BY <1>4, NoCallFacts DEF Crash, ReqOK, Idle, Steps
  <2>2. faulted' \subseteq Calls
    <3>1. \A u \in Users : req[u].held.id \in Calls \union {0}
      BY ReqFacts
    <3>2. faulted' = faulted \union ({req[u].held.id : u \in Users} \ {0})
      BY <1>4 DEF Crash
    <3> QED BY <1>0, <3>1, <3>2
  <2> QED BY <1>0, <1>4, <2>1, <2>2, FaultTypes DEF Crash
<1> QED BY <1>1, <1>2, <1>3, <1>4

LEMMA InitTypeOK == Init => TypeOK
<1> SUFFICES ASSUME Init PROVE TypeOK
  OBVIOUS
<1>1. Stored
  BY NoCallFacts DEF Init, Stored
<1>2. Counters
  BY CallBounds DEF Init, Counters
<1>3. ReqOK(req) /\ ScanOK(scan)
  BY NoCallFacts, StepNames DEF Init, ReqOK, ScanOK, Idle
<1>4. HistoryOK
  BY DEF Init, HistoryOK
<1> QED BY <1>1, <1>2, <1>3, <1>4, TypeOKSplit

LEMMA NextHistory == TypeOK /\ [Next]_vars => HistoryOK'
<1> SUFFICES ASSUME TypeOK, [Next]_vars PROVE HistoryOK'
  OBVIOUS
<1>0. HistoryOK /\ call.participants \subseteq Users
  BY TypeOKSplit, CallFacts, HeldFacts
<1>1. ASSUME UNCHANGED history PROVE HistoryOK'
  BY <1>0, <1>1 DEF history, HistoryOK
<1>2. ASSUME NEW s, Remembers(s), gone' \subseteq gone \union TakesOut(s) PROVE HistoryOK'
  <2>1. TakesOut(s) \subseteq Users
    BY <1>0 DEF TakesOut
  <2> QED BY <1>0, <1>2, <2>1 DEF Remembers, HistoryOK
<1>3. ASSUME NEW u \in Users, NEW s, Store(u, s) PROVE HistoryOK'
  BY <1>2, <1>3 DEF Store
<1>4. ASSUME NEW c, Delete(c) PROVE HistoryOK'
  BY <1>2, <1>4 DEF Delete
<1>5. ASSUME NEW u \in Users, Request(u) PROVE HistoryOK'
  BY <1>1, <1>5 DEF Request, StartGroupCall, JoinGroupCall, LeaveGroupCall, KickParticipant,
                    PromoteCallAdmin, ForceEndCall, DeleteGroup, Begin
<1>6. ASSUME NEW u \in Users, Handler(u) PROVE HistoryOK'
  <2>1. CASE ClaimSlot(u)
    BY <1>0, <2>1 DEF ClaimSlot, HistoryOK
  <2> QED BY <1>1, <1>3, <1>4, <1>6, <2>1
          DEF Handler, InsertLog, UndoStart, SaveJoin, LogJoin, WriteState, EndCall, UpdateLog,
              DropGroup
<1>7. ASSUME GrowOld \/ Scanner \/ ScanFails PROVE HistoryOK'
  BY <1>1, <1>4, <1>7 DEF GrowOld, Scanner, ScanCall, ScanLog, ScanDelete, ScanFails
<1>8. ASSUME Crash \/ \E u \in Users : Fails(u) \/ WriteFails(u) PROVE HistoryOK'
  BY <1>0, <1>8 DEF Crash, Fails, WriteFails, HistoryOK
<1>9. CASE UNCHANGED vars
  BY <1>1, <1>9 DEF vars
<1> QED BY <1>5, <1>6, <1>7, <1>8, <1>9 DEF Next

LEMMA NextTypeOK == TypeOK /\ [Next]_vars => TypeOK'
<1> SUFFICES ASSUME TypeOK, [Next]_vars PROVE TypeOK'
  OBVIOUS
<1>0. HistoryOK'
  BY NextHistory
<1>1. CASE UNCHANGED vars
  BY <1>0, <1>1, TypeOKSplit DEF vars, Stored, Counters, ReqOK, ScanOK
<1>2. CASE Next
  BY <1>0, <1>2, RequestTypes, HandlerTypes, ScannerTypes, FailureTypes DEF Next
<1> QED BY <1>1, <1>2

(* The stored call, what handlers and the scanner hold, the log rows and the
   histories have their types; a handler at work holds a call. *)
THEOREM TypeCorrect == Spec => []TypeOK
BY InitTypeOK, NextTypeOK, PTL DEF Spec

-----------------------------------------------------------------------------
(* The stored call is sound because every state in the hands of a handler is. *)

Sound(s) == s.admins \subseteq s.participants
CallSound == call # NoCall => call.participants # {} /\ call.admins \subseteq call.participants

HeldSound(u) == /\ Sound(req[u].held)
                /\ req[u].step \in {"claim", "join"} => req[u].held.participants # {}

SoundInv == /\ TypeOK
            /\ CallSound
            /\ \A u \in Users : HeldSound(u)

LEMMA SoundCall == TypeOK => (CallSound <=> Sound(call) /\ (call # NoCall => call.participants # {}))
BY NoCallFacts DEF CallSound, Sound

LEMMA InitSound == Init => SoundInv
<1> SUFFICES ASSUME Init PROVE CallSound /\ \A u \in Users : HeldSound(u)
  BY InitTypeOK DEF SoundInv
<1>1. CallSound
  BY DEF Init, CallSound
<1>2. \A u \in Users : HeldSound(u)
  BY NoCallFacts DEF Init, HeldSound, Sound, Idle
<1> QED BY <1>1, <1>2

(* What a handler holds stays as it is, or is let go of. *)
LEMMA HeldStaysSound ==
  ASSUME SoundInv, NEW u \in Users,
         \A v \in Users \ {u} : req'[v] = req[v],
         \/ req'[u].held = NoCall /\ req'[u].step \notin {"claim", "join"}
         \/ req'[u].held = req[u].held
            /\ (req'[u].step \in {"claim", "join"} => req[u].step \in {"claim", "join"})
  PROVE  \A v \in Users : HeldSound(v)'
<1>1. \A v \in Users : HeldSound(v)
  BY DEF SoundInv
<1>2. \A v \in Users \ {u} : HeldSound(v)'
  BY <1>1 DEF HeldSound, Sound
<1>3. HeldSound(u)'
  BY <1>1, NoCallFacts DEF HeldSound, Sound
<1> QED BY <1>2, <1>3

LEMMA RequestSound ==
  ASSUME SoundInv, NEW u \in Users, Request(u)
  PROVE  CallSound' /\ \A v \in Users : HeldSound(v)'
<1>0. /\ TypeOK /\ CallSound /\ (\A v \in Users : HeldSound(v))
      /\ Sound(call) /\ (call # NoCall => call.participants # {})
  BY SoundCall DEF SoundInv
<1>1. UNCHANGED call
  BY DEF Request, StartGroupCall, JoinGroupCall, LeaveGroupCall, KickParticipant,
         PromoteCallAdmin, ForceEndCall, DeleteGroup, Begin
<1>2. CallSound'
  BY <1>0, <1>1 DEF CallSound
<1>3. ASSUME NEW step \in Steps, NEW held \in Held, Sound(held),
             step \in {"claim", "join"} => held.participants # {},
             step \notin {"idle", "dropGroup"} => held \in State, Begin(u, step, held)
      PROVE  \A v \in Users : HeldSound(v)'
  <2>1. /\ req'[u].step = step /\ req'[u].held = held
        /\ \A v \in Users \ {u} : req'[v] = req[v]
    BY <1>0, <1>3, BeginReq
  <2>2. HeldSound(u)'
    BY <1>3, <2>1 DEF HeldSound, Sound
  <2>3. \A v \in Users \ {u} : HeldSound(v)'
    BY <1>0, <2>1 DEF HeldSound, Sound
  <2> QED BY <2>2, <2>3
<1>4. CASE /\ started < MaxCalls /\ started' = started + 1
           /\ Begin(u, "claim", [id |-> started', participants |-> {u}, admins |-> {u},
                                 old |-> FALSE])
  <2> DEFINE held == [id |-> started', participants |-> {u}, admins |-> {u}, old |-> FALSE]
  <2>1. started' \in Calls
    BY <1>0, <1>4, CallBounds, TypeOKSplit DEF Counters, Calls
  <2>2. held \in State /\ Sound(held) /\ held.participants # {}
    BY <2>1 DEF State, Sound
  <2> HIDE DEF held
  <2>3. held \in Held /\ "claim" \in Steps /\ Begin(u, "claim", held)
    BY <1>4, <2>2, StepNames DEF Held, held
  <2> QED BY <1>2, <1>3, <2>2, <2>3
<1>5. ASSUME NEW step \in {"join", "write", "end"}, NEW held \in State,
             Begin(u, step, held), Change(u, step, held)
      PROVE  \A v \in Users : HeldSound(v)'
  <2>1. step \in Steps /\ held \in Held
    BY StepNames DEF Held
  <2>2. Sound(held) /\ (step = "join" => held.participants # {})
    BY <1>0, <1>5 DEF Change, Sound
  <2> QED BY <1>3, <1>5, <2>1, <2>2
<1>6. CASE call \in State /\ Begin(u, "dropCall", call)
  <2>1. call \in Held /\ "dropCall" \in Steps
    BY <1>6, StepNames DEF Held
  <2> QED BY <1>0, <1>2, <1>3, <1>6, <2>1
<1>7. CASE Begin(u, "dropGroup", NoCall)
  <2>1. NoCall \in Held /\ "dropGroup" \in Steps /\ Sound(NoCall)
    BY NoCallFacts, StepNames DEF Sound
  <2> QED BY <1>2, <1>3, <1>7, <2>1
<1> QED BY <1>0, <1>2, <1>4, <1>5, <1>6, <1>7, RequestBegins

LEMMA StoreSound ==
  /\ \A u, s : Store(u, s) /\ Sound(s) /\ s.participants # {} => CallSound'
  /\ \A c : Delete(c) => CallSound'
BY DEF Store, Delete, CallSound, Sound

LEMMA HandlerSound ==
  ASSUME SoundInv, NEW u \in Users, Handler(u)
  PROVE  CallSound' /\ \A v \in Users : HeldSound(v)'
<1>0. TypeOK /\ CallSound /\ HeldSound(u)
  BY DEF SoundInv
<1>a. req[u].step \notin {"idle", "dropGroup"} => req[u].held \in State
  BY <1>0, ReqFacts
<1>b. UNCHANGED call => CallSound'
  BY <1>0 DEF CallSound
<1>c. ASSUME Done(u) PROVE \A v \in Users : HeldSound(v)'
  <2>1. /\ req'[u].step = "idle" /\ req'[u].held = NoCall
        /\ \A v \in Users \ {u} : req'[v] = req[v]
    BY <1>0, <1>c, DoneReq
  <2> QED BY <2>1, HeldStaysSound
<1>d. ASSUME req[u].held \in State, NEW step \in {"insert", "undo", "joinLog", "endLog", "dropLog"},
             Goto(u, step)
      PROVE  \A v \in Users : HeldSound(v)'
  <2>1. step \in Steps
    BY StepNames
  <2>2. /\ req'[u].step = step /\ req'[u].held = req[u].held
        /\ \A v \in Users \ {u} : req'[v] = req[v]
    BY <1>0, <1>d, <2>1, GotoReq
  <2> QED BY <2>2, HeldStaysSound
<1>1. CASE ClaimSlot(u)
  <2>1. CallSound'
    BY <1>0, <1>b, <1>1 DEF ClaimSlot, HeldSound, Sound, CallSound
  <2> QED BY <1>a, <1>c, <1>d, <1>1, <2>1 DEF ClaimSlot
<1>2. CASE InsertLog(u)
  BY <1>a, <1>b, <1>c, <1>d, <1>2 DEF InsertLog
<1>3. CASE UndoStart(u)
  BY <1>c, <1>3, StoreSound DEF UndoStart
<1>4. CASE SaveJoin(u)
  <2>1. CallSound'
    BY <1>0, <1>4, StoreSound DEF SaveJoin, HeldSound
  <2> QED BY <1>a, <1>d, <1>4, <2>1 DEF SaveJoin
<1>5. CASE LogJoin(u)
  BY <1>b, <1>c, <1>5 DEF LogJoin
<1>6. CASE WriteState(u)
  <2>1. CallSound'
    BY <1>0, <1>6, StoreSound DEF WriteState, HeldSound
  <2> QED BY <1>a, <1>c, <1>d, <1>6, <2>1 DEF WriteState
<1>7. CASE EndCall(u)
  <2>1. req[u].held \in State /\ (Goto(u, "endLog") \/ Goto(u, "dropLog"))
    BY <1>a, <1>7 DEF EndCall
  <2> QED BY <1>d, <1>7, <2>1, StoreSound DEF EndCall
<1>8. CASE UpdateLog(u)
  <2>1. CASE Done(u)
    BY <1>b, <1>c, <1>8, <2>1 DEF UpdateLog
  <2>2. CASE Goto(u, "dropGroup")
    <3>1. /\ req'[u].step = "dropGroup" /\ req'[u].held = req[u].held
          /\ \A v \in Users \ {u} : req'[v] = req[v]
      BY <1>0, <2>2, StepNames, GotoReq
    <3> QED BY <1>b, <1>8, <3>1, HeldStaysSound DEF UpdateLog
  <2> QED BY <1>8, <2>1, <2>2 DEF UpdateLog
<1>9. CASE DropGroup(u)
  BY <1>b, <1>c, <1>9 DEF DropGroup
<1> QED BY <1>1, <1>2, <1>3, <1>4, <1>5, <1>6, <1>7, <1>8, <1>9 DEF Handler

LEMMA OtherSound ==
  ASSUME SoundInv,
         \/ Scanner \/ GrowOld \/ ScanFails \/ Crash
         \/ \E u \in Users : Fails(u) \/ WriteFails(u)
  PROVE  CallSound' /\ \A v \in Users : HeldSound(v)'
<1>0. TypeOK /\ CallSound /\ \A u \in Users : HeldSound(u)
  BY DEF SoundInv
<1>b. UNCHANGED call => CallSound'
  BY <1>0 DEF CallSound
<1>c. UNCHANGED req => \A v \in Users : HeldSound(v)'
  BY <1>0 DEF HeldSound, Sound
<1>1. CASE ScanCall \/ ScanLog \/ ScanFails
  BY <1>b, <1>c, <1>1 DEF ScanCall, ScanLog, ScanFails
<1>2. CASE ScanDelete
  BY <1>c, <1>2, StoreSound DEF ScanDelete
<1>3. CASE GrowOld
  <2>1. call \in State
    BY <1>0, <1>3, CallFacts DEF GrowOld
  <2>2. call'.participants = call.participants /\ call'.admins = call.admins
    BY <1>3, <2>1 DEF GrowOld, State
  <2> QED BY <1>0, <1>c, <1>3, <2>2 DEF GrowOld, CallSound
<1>4. CASE Crash
  <2>1. \A v \in Users : req'[v] = Idle
    BY <1>4 DEF Crash
  <2> QED BY <1>b, <1>4, <2>1, NoCallFacts DEF Crash, HeldSound, Sound, Idle
<1>5. ASSUME NEW u \in Users, Fails(u) PROVE CallSound' /\ \A v \in Users : HeldSound(v)'
  <2>1. \A v \in Users : HeldSound(v)'
    BY <1>0, <1>5, FailsReq, HeldStaysSound
  <2> QED BY <1>b, <1>5, <2>1 DEF Fails
<1>6. ASSUME NEW u \in Users, WriteFails(u) PROVE CallSound' /\ \A v \in Users : HeldSound(v)'
  <2>1. \A v \in Users : HeldSound(v)'
    BY <1>0, <1>6, WriteFailsReq, HeldStaysSound
  <2> QED BY <1>b, <1>6, <2>1 DEF WriteFails
<1> QED BY <1>1, <1>2, <1>3, <1>4, <1>5, <1>6 DEF Scanner

LEMMA NextSound == SoundInv /\ [Next]_vars => SoundInv'
<1> SUFFICES ASSUME SoundInv, [Next]_vars PROVE CallSound' /\ \A u \in Users : HeldSound(u)'
  BY NextTypeOK DEF SoundInv
<1>1. CASE UNCHANGED vars
  BY <1>1 DEF vars, SoundInv, CallSound, HeldSound, Sound
<1>2. CASE Next
  BY <1>2, RequestSound, HandlerSound, OtherSound DEF Next
<1> QED BY <1>1, <1>2

-----------------------------------------------------------------------------
(* Who has which call: nobody but its starter knows a call whose ID has not been
   announced, except the deletion of the group. *)

Starting(u) == req[u].step \in StartSteps
KnownSteps  == {"join", "joinLog", "write", "end", "endLog"}

IdsOK == /\ call.id <= started /\ scan.held.id <= started
         /\ \A u \in Users : req[u].held.id <= started
         /\ \A c \in announced : c <= started
         /\ \A c \in Calls : log[c] # "none" => c \in announced

HeldAnnounced == \A u \in Users : req[u].step \in KnownSteps => req[u].held.id \in announced

StarterAlone(u) ==
  Starting(u) =>
    /\ req[u].held.id \notin announced /\ ~req[u].held.old
    /\ \A v \in Users \ {u} : Starting(v) => req[v].held.id # req[u].held.id
    /\ scan.step # "idle" => scan.held.id # req[u].held.id
    /\ call.old => call.id # req[u].held.id

IdInv == SoundInv /\ IdsOK /\ HeldAnnounced /\ \A u \in Users : StarterAlone(u)

LEMMA InitId == Init => IdInv
<1> SUFFICES ASSUME Init PROVE IdsOK /\ HeldAnnounced /\ \A u \in Users : StarterAlone(u)
  BY InitSound DEF IdInv
<1>1. \A u \in Users : req[u].step = "idle" /\ req[u].held = NoCall
  BY DEF Init, Idle
<1>2. IdsOK
  BY <1>1, NoCallFacts DEF Init, IdsOK, Idle
<1> QED BY <1>1, <1>2 DEF HeldAnnounced, StarterAlone, Starting, KnownSteps, StartSteps

LEMMA RequestReq ==
  ASSUME TypeOK, NEW u \in Users, Request(u)
  PROVE  /\ UNCHANGED <<exists, call, log, logged, scan, announced, usurped, faulted, history>>
         /\ req[u] = Idle
         /\ \A v \in Users \ {u} : req'[v] = req[v]
         /\ \/ /\ started < MaxCalls /\ started' = started + 1
               /\ req'[u].step = "claim" /\ req'[u].held.id = started + 1
               /\ ~req'[u].held.old /\ req'[u].held.participants = {u}
            \/ /\ UNCHANGED started
               /\ req'[u].step \in {"join", "write", "end"}
               /\ Change(u, req'[u].step, req'[u].held)
            \/ UNCHANGED started /\ req'[u].step = "dropCall" /\ req'[u].held = call
            \/ UNCHANGED started /\ req'[u].step = "dropGroup" /\ req'[u].held = NoCall
<1>1. UNCHANGED <<exists, call, log, logged, scan, announced, usurped, faulted, history>>
  BY DEF Request, StartGroupCall, JoinGroupCall, LeaveGroupCall, KickParticipant,
         PromoteCallAdmin, ForceEndCall, DeleteGroup, Begin
<1>2. CASE /\ started < MaxCalls /\ started' = started + 1
           /\ Begin(u, "claim", [id |-> started', participants |-> {u}, admins |-> {u},
                                 old |-> FALSE])
  <2> DEFINE held == [id |-> started', participants |-> {u}, admins |-> {u}, old |-> FALSE]
  <2>1. started' \in Calls
    BY <1>2, CallBounds, TypeOKSplit DEF Counters, Calls
  <2>2. held \in State /\ held.id = started + 1 /\ ~held.old /\ held.participants = {u}
    BY <1>2, <2>1 DEF State
  <2> HIDE DEF held
  <2>3. held \in Held /\ "claim" \in Steps /\ Begin(u, "claim", held)
    BY <1>2, <2>2, StepNames DEF Held, held
  <2>4. /\ req[u] = Idle /\ req'[u].step = "claim" /\ req'[u].held = held
        /\ \A v \in Users \ {u} : req'[v] = req[v]
    BY <2>2, <2>3, BeginReq
  <2> QED BY <1>1, <1>2, <2>2, <2>4
<1>3. ASSUME NEW step \in Steps, NEW held \in Held,
             step \notin {"idle", "dropGroup"} => held \in State, Begin(u, step, held)
      PROVE  /\ req[u] = Idle /\ req'[u].step = step /\ req'[u].held = held
             /\ \A v \in Users \ {u} : req'[v] = req[v]
  BY <1>3, BeginReq
<1>4. ASSUME NEW step \in {"join", "write", "end"}, NEW held \in State,
             UNCHANGED started, Begin(u, step, held), Change(u, step, held)
      PROVE  /\ req[u] = Idle /\ UNCHANGED started
             /\ \A v \in Users \ {u} : req'[v] = req[v]
             /\ req'[u].step \in {"join", "write", "end"}
             /\ Change(u, req'[u].step, req'[u].held)
  <2>1. step \in Steps /\ held \in Held
    BY StepNames DEF Held
  <2>2. /\ req[u] = Idle /\ req'[u].step = step /\ req'[u].held = held
        /\ \A v \in Users \ {u} : req'[v] = req[v]
    BY <1>3, <1>4, <2>1
  <2> QED BY <1>4, <2>2
<1>5. ASSUME UNCHANGED started, call \in State, Begin(u, "dropCall", call)
      PROVE  /\ req[u] = Idle /\ UNCHANGED started
             /\ \A v \in Users \ {u} : req'[v] = req[v]
             /\ req'[u].step = "dropCall" /\ req'[u].held = call
  <2>1. call \in Held /\ "dropCall" \in Steps
    BY <1>5, StepNames DEF Held
  <2> QED BY <1>3, <1>5, <2>1
<1>6. ASSUME UNCHANGED started, Begin(u, "dropGroup", NoCall)
      PROVE  /\ req[u] = Idle /\ UNCHANGED started
             /\ \A v \in Users \ {u} : req'[v] = req[v]
             /\ req'[u].step = "dropGroup" /\ req'[u].held = NoCall
  <2>1. NoCall \in Held /\ "dropGroup" \in Steps
    BY NoCallFacts, StepNames
  <2> QED BY <1>3, <1>6, <2>1
<1> QED BY <1>1, <1>2, <1>4, <1>5, <1>6, RequestBegins

(* A request in the hands of u goes on with its call, or ends. *)
Goes(u) ==
  \/ req'[u].step = "idle" /\ req'[u].held = NoCall
  \/ /\ req'[u].held = req[u].held
     /\ req'[u].step \in StartSteps => req[u].step \in StartSteps
     /\ req'[u].step \in KnownSteps => req[u].step \in KnownSteps

(* Steps that announce nothing and start nothing *)
LEMMA IdsKept ==
  ASSUME IdInv, SoundInv', UNCHANGED <<started, announced>>,
         \A c \in Calls : log'[c] # "none" => log[c] # "none",
         \A u \in Users : Goes(u),
         \/ scan'.held = scan.held /\ (scan'.step # "idle" => scan.step # "idle")
         \/ scan'.held = NoCall /\ scan'.step = "idle",
         \/ call' = call
         \/ call'.id <= started /\ (call'.old => call'.id \in announced)
  PROVE  IdInv'
<1>0. IdsOK /\ HeldAnnounced /\ (\A u \in Users : StarterAlone(u)) /\ started \in Nat
  BY TypeOKSplit, CallBounds DEF IdInv, SoundInv, Counters
<1>1. IdsOK'
  BY <1>0, NoCallFacts DEF IdsOK, Goes
<1>2. HeldAnnounced'
  <2> SUFFICES ASSUME NEW u \in Users, req'[u].step \in KnownSteps
               PROVE  req'[u].held.id \in announced
    BY DEF HeldAnnounced
  <2>1. req'[u].held = req[u].held /\ req[u].step \in KnownSteps
    BY DEF Goes, KnownSteps
  <2> QED BY <1>0, <2>1 DEF HeldAnnounced
<1>3. ASSUME NEW u \in Users, Starting(u)'
      PROVE  Starting(u) /\ req'[u].held = req[u].held
  BY <1>3 DEF Starting, Goes, StartSteps
<1>4. ASSUME NEW u \in Users PROVE StarterAlone(u)'
  <2> SUFFICES ASSUME Starting(u)' PROVE StarterAlone(u)'
    BY DEF StarterAlone
  <2>1. Starting(u) /\ req'[u].held = req[u].held
    BY <1>3
  <2>2. /\ req[u].held.id \notin announced /\ ~req[u].held.old
        /\ \A v \in Users \ {u} : Starting(v) => req[v].held.id # req[u].held.id
        /\ scan.step # "idle" => scan.held.id # req[u].held.id
        /\ call.old => call.id # req[u].held.id
    BY <1>0, <2>1 DEF StarterAlone
  <2>3. \A v \in Users \ {u} : Starting(v)' => req'[v].held.id # req'[u].held.id
    BY <1>3, <2>1, <2>2
  <2>4. scan'.step # "idle" => scan'.held.id # req'[u].held.id
    BY <2>1, <2>2
  <2>5. call'.old => call'.id # req'[u].held.id
    BY <2>1, <2>2
  <2> QED BY <2>1, <2>2, <2>3, <2>4, <2>5 DEF StarterAlone
<1> QED BY <1>1, <1>2, <1>4 DEF IdInv

LEMMA HandlerGoes ==
  ASSUME TypeOK, NEW u \in Users, Handler(u)
  PROVE  \A v \in Users : Goes(v)
<1>0. req[u].step \notin {"idle", "dropGroup"} => req[u].held \in State
  BY ReqFacts
<1>1. ASSUME Done(u) PROVE \A v \in Users : Goes(v)
  BY <1>1, DoneReq DEF Goes
<1>2. ASSUME NEW step \in Steps, Goto(u, step), req[u].held \in State \/ step \in {"idle", "dropGroup"},
             step \in StartSteps => req[u].step \in StartSteps,
             step \in KnownSteps => req[u].step \in KnownSteps
      PROVE  \A v \in Users : Goes(v)
  <2>1. /\ req'[u].step = step /\ req'[u].held = req[u].held
        /\ \A v \in Users \ {u} : req'[v] = req[v]
    BY <1>2, GotoReq
  <2> QED BY <1>2, <2>1 DEF Goes
<1>3. CASE ClaimSlot(u) \/ InsertLog(u)
  <2>1. Done(u) \/ Goto(u, "insert") \/ Goto(u, "undo")
    BY <1>3 DEF ClaimSlot, InsertLog
  <2>2. req[u].step \in {"claim", "insert"}
    BY <1>3 DEF ClaimSlot, InsertLog
  <2> QED BY <1>0, <1>1, <1>2, <2>1, <2>2, StepNames DEF KnownSteps
<1>4. CASE UndoStart(u) \/ LogJoin(u) \/ DropGroup(u)
  BY <1>1, <1>4 DEF UndoStart, LogJoin, DropGroup
<1>5. CASE SaveJoin(u)
  BY <1>0, <1>2, <1>5, StepNames DEF SaveJoin, KnownSteps
<1>6. CASE WriteState(u)
  <2>1. Done(u) \/ Goto(u, "endLog")
    BY <1>6 DEF WriteState
  <2> QED BY <1>0, <1>1, <1>2, <1>6, <2>1, StepNames DEF WriteState, KnownSteps
<1>7. CASE EndCall(u)
  <2>1. \/ req[u].step = "end" /\ Goto(u, "endLog")
        \/ req[u].step = "dropCall" /\ Goto(u, "dropLog")
    BY <1>7 DEF EndCall
  <2> QED BY <1>0, <1>2, <2>1, StepNames DEF KnownSteps
<1>8. CASE UpdateLog(u)
  <2>1. Done(u) \/ Goto(u, "dropGroup")
    BY <1>8 DEF UpdateLog
  <2> QED BY <1>1, <1>2, <2>1, StepNames DEF KnownSteps
<1> QED BY <1>3, <1>4, <1>5, <1>6, <1>7, <1>8 DEF Handler

LEMMA HandlerMovesOn ==
  ASSUME TypeOK, NEW u \in Users, Handler(u)
  PROVE  \A v \in Users : req'[v].step \in {"join", "write", "claim"} => req'[v] = req[v]
<1>1. \/ Done(u)
      \/ \E step \in Steps \ {"join", "write", "claim"} :
           Goto(u, step) /\ (req[u].held \in State \/ step \in {"idle", "dropGroup"})
  <2>1. \/ Done(u)
        \/ Goto(u, "insert") /\ req[u].step = "claim"
        \/ Goto(u, "undo") /\ req[u].step = "insert"
        \/ Goto(u, "joinLog") /\ req[u].step = "join"
        \/ Goto(u, "endLog") /\ req[u].step \in {"write", "end"}
        \/ Goto(u, "dropLog") /\ req[u].step = "dropCall"
        \/ Goto(u, "dropGroup")
    BY DEF Handler, ClaimSlot, InsertLog, UndoStart, SaveJoin, LogJoin, WriteState, EndCall,
           UpdateLog, DropGroup
  <2> QED BY <2>1, ReqFacts, StepNames
<1>2. CASE Done(u)
  BY <1>2, DoneReq
<1>3. ASSUME NEW step \in Steps \ {"join", "write", "claim"}, Goto(u, step),
             req[u].held \in State \/ step \in {"idle", "dropGroup"}
      PROVE  req'[u].step = step /\ \A v \in Users \ {u} : req'[v] = req[v]
  BY <1>3, GotoReq
<1> QED BY <1>1, <1>2, <1>3

LEMMA RequestIds ==
  ASSUME IdInv, NEW u \in Users, Request(u)
  PROVE  IdInv'
<1>0. /\ TypeOK /\ IdsOK /\ HeldAnnounced /\ (\A v \in Users : StarterAlone(v)) /\ started \in Nat
      /\ call.id \in Nat /\ scan.held.id \in Nat /\ \A v \in Users : req[v].held.id \in Nat
  BY TypeOKSplit, CallBounds, CallFacts, HeldFacts, ScanFacts, ReqFacts
    DEF IdInv, SoundInv, Counters
<1>1. /\ UNCHANGED <<exists, call, log, logged, scan, announced, usurped, faulted>>
      /\ \A v \in Users \ {u} : req'[v] = req[v]
  BY <1>0, RequestReq
<1>2. SoundInv'
  BY NextSound DEF IdInv, Next
<1>3. CASE /\ started < MaxCalls /\ started' = started + 1
           /\ req'[u].step = "claim" /\ req'[u].held.id = started + 1
           /\ ~req'[u].held.old
  <2>1. IdsOK'
    BY <1>0, <1>1, <1>3, CallFacts DEF IdsOK, Calls
  <2>2. HeldAnnounced'
    BY <1>0, <1>1, <1>3 DEF HeldAnnounced, KnownSteps
  <2>3. StarterAlone(u)'
    BY <1>0, <1>1, <1>3 DEF StarterAlone, IdsOK
  <2>4. \A v \in Users \ {u} : StarterAlone(v)'
    BY <1>0, <1>1, <1>3 DEF StarterAlone, IdsOK, Starting
  <2> QED BY <1>2, <2>1, <2>2, <2>3, <2>4 DEF IdInv
<1>4. ASSUME UNCHANGED started, req'[u].step \in {"join", "write", "end", "dropCall", "dropGroup"},
             req'[u].held.id <= started,
             req'[u].step \in KnownSteps => req'[u].held.id \in announced
      PROVE  IdInv'
  <2>1. IdsOK'
    BY <1>0, <1>1, <1>4 DEF IdsOK
  <2>2. HeldAnnounced'
    BY <1>0, <1>1, <1>4 DEF HeldAnnounced
  <2>3. \A v \in Users : Starting(v)' => v # u /\ Starting(v)
    BY <1>1, <1>4, StepNames DEF Starting
  <2>4. \A v \in Users : StarterAlone(v)'
    BY <1>0, <1>1, <2>3 DEF StarterAlone
  <2> QED BY <1>2, <2>1, <2>2, <2>4 DEF IdInv
<1>5. CASE /\ UNCHANGED started
           /\ req'[u].step \in {"join", "write", "end"}
           /\ Change(u, req'[u].step, req'[u].held)
  <2>1. req'[u].held.id = call.id /\ call.id \in announced
    BY <1>5 DEF Change, Loaded
  <2> QED BY <1>0, <1>4, <1>5, <2>1 DEF IdsOK
<1>6. CASE UNCHANGED started /\ req'[u].step = "dropCall" /\ req'[u].held = call
  BY <1>0, <1>4, <1>6 DEF IdsOK, KnownSteps
<1>7. CASE UNCHANGED started /\ req'[u].step = "dropGroup" /\ req'[u].held = NoCall
  BY <1>0, <1>4, <1>7, NoCallFacts DEF IdsOK, KnownSteps
<1> QED BY <1>0, <1>3, <1>5, <1>6, <1>7, RequestReq

LEMMA HandlerIds ==
  ASSUME IdInv, NEW u \in Users, Handler(u)
  PROVE  IdInv'
<1>0. /\ TypeOK /\ IdsOK /\ HeldAnnounced /\ (\A v \in Users : StarterAlone(v)) /\ started \in Nat
  BY TypeOKSplit, CallBounds DEF IdInv, SoundInv, Counters
<1>1. SoundInv'
  BY NextSound DEF IdInv, Next
<1>2. \A v \in Users : Goes(v)
  BY <1>0, HandlerGoes
<1>3. ASSUME UNCHANGED <<started, announced, scan>>,
             \A c \in Calls : log'[c] # "none" => log[c] # "none",
             call' = call \/ (call'.id <= started /\ (call'.old => call'.id \in announced))
      PROVE  IdInv'
  <2>1. scan'.held = scan.held /\ (scan'.step # "idle" => scan.step # "idle")
    BY <1>3
  <2> QED BY <1>1, <1>2, <1>3, <2>1, IdsKept
<1>4. ASSUME NEW c, Delete(c) PROVE call'.id <= started /\ (call'.old => call'.id \in announced)
  BY <1>0, <1>4, NoCallFacts DEF Delete
<1>5. ASSUME req[u].step \in KnownSteps, Store(u, req[u].held)
      PROVE  call'.id <= started /\ (call'.old => call'.id \in announced)
  BY <1>0, <1>5 DEF Store, HeldAnnounced, IdsOK
<1>6. CASE ClaimSlot(u)
  <2>1. call' = call \/ call' = req[u].held
    BY <1>6 DEF ClaimSlot
  <2>2. Starting(u)
    BY <1>6, StepNames DEF ClaimSlot, Starting
  <2>3. req[u].held.id <= started /\ ~req[u].held.old
    BY <1>0, <2>2 DEF StarterAlone, IdsOK
  <2> QED BY <1>3, <1>6, <2>1, <2>3 DEF ClaimSlot
<1>7. CASE InsertLog(u)
  <2>1. CASE ~exists
    BY <1>3, <1>7, <2>1 DEF InsertLog
  <2>2. CASE exists
    <3> DEFINE c == req[u].held.id
    <3>1. /\ announced' = announced \union {c} /\ UNCHANGED <<started, scan, call>>
          /\ log' = [log EXCEPT ![c] = "open"]
      BY <1>7, <2>2 DEF InsertLog
    <3>2. /\ req'[u].step = "idle" /\ req'[u].held = NoCall
          /\ \A v \in Users \ {u} : req'[v] = req[v]
      BY <1>0, <1>7, <2>2, DoneReq DEF InsertLog
    <3>3. Starting(u)
      BY <1>7, StepNames DEF InsertLog, Starting
    <3>4. IdsOK'
      <4>1. \A d \in Calls : d # c => log'[d] = log[d]
        BY <1>0, <3>1, TypeOKSplit DEF Stored
      <4> QED BY <1>0, <3>1, <3>2, <4>1, NoCallFacts DEF IdsOK
    <3>5. HeldAnnounced'
      BY <1>0, <3>1, <3>2 DEF HeldAnnounced, KnownSteps
    <3>6. \A v \in Users : Starting(v)' => v # u /\ Starting(v)
      BY <3>2, StepNames DEF Starting
    <3>7. \A v \in Users : StarterAlone(v)'
      BY <1>0, <3>1, <3>2, <3>3, <3>6 DEF StarterAlone
    <3> QED BY <1>1, <3>4, <3>5, <3>7 DEF IdInv
  <2> QED BY <2>1, <2>2
<1>8. CASE UndoStart(u)
  BY <1>3, <1>4, <1>8 DEF UndoStart
<1>9. CASE SaveJoin(u)
  BY <1>3, <1>5, <1>9 DEF SaveJoin, KnownSteps
<1>10. CASE LogJoin(u)
  BY <1>3, <1>10 DEF LogJoin
<1>11. CASE WriteState(u)
  BY <1>3, <1>4, <1>5, <1>11 DEF WriteState, KnownSteps
<1>12. CASE EndCall(u)
  BY <1>3, <1>4, <1>12 DEF EndCall
<1>13. CASE UpdateLog(u)
  <2>1. \A c \in Calls : log'[c] # "none" => log[c] # "none"
    BY <1>0, <1>13, TypeOKSplit DEF UpdateLog, EndLog, Stored
  <2> QED BY <1>3, <1>13, <2>1 DEF UpdateLog
<1>14. CASE DropGroup(u)
  BY <1>3, <1>14 DEF DropGroup
<1> QED BY <1>6, <1>7, <1>8, <1>9, <1>10, <1>11, <1>12, <1>13, <1>14 DEF Handler

LEMMA OtherIds ==
  ASSUME IdInv,
         \/ Scanner \/ GrowOld \/ ScanFails \/ Crash
         \/ \E u \in Users : Fails(u) \/ WriteFails(u)
  PROVE  IdInv'
<1>0. /\ TypeOK /\ IdsOK /\ HeldAnnounced /\ (\A v \in Users : StarterAlone(v)) /\ started \in Nat
      /\ SoundInv
  BY TypeOKSplit, CallBounds DEF IdInv, SoundInv, Counters
<1>1. SoundInv'
  BY <1>0, NextSound DEF Next
<1>2. UNCHANGED req => \A u \in Users : Goes(u)
  BY DEF Goes
<1>3. ASSUME UNCHANGED <<started, announced>>, \A u \in Users : Goes(u),
             \A c \in Calls : log'[c] # "none" => log[c] # "none",
             \/ scan'.held = scan.held /\ (scan'.step # "idle" => scan.step # "idle")
             \/ scan' = Idle,
             call' = call \/ call' = NoCall
      PROVE  IdInv'
  <2>1. call' = call \/ (call'.id <= started /\ (call'.old => call'.id \in announced))
    BY <1>0, <1>3, NoCallFacts
  <2>2. \/ scan'.held = scan.held /\ (scan'.step # "idle" => scan.step # "idle")
        \/ scan'.held = NoCall /\ scan'.step = "idle"
    BY <1>3 DEF Idle
  <2> QED BY <1>1, <1>3, <2>1, <2>2, IdsKept
<1>4. CASE ScanCall
  <2>1. call # NoCall /\ call.old
    BY <1>0, <1>4, SoundCall DEF ScanCall, SoundInv
  <2>2. /\ scan' = [step |-> "log", held |-> call]
        /\ UNCHANGED <<call, log, req, started, announced>>
    BY <1>4 DEF ScanCall
  <2>3. IdsOK' /\ HeldAnnounced'
    BY <1>0, <2>2 DEF IdsOK, HeldAnnounced
  <2>4. \A v \in Users : StarterAlone(v)'
    BY <1>0, <2>1, <2>2 DEF StarterAlone, Starting
  <2> QED BY <1>1, <2>3, <2>4 DEF IdInv
<1>5. CASE ScanLog
  <2>1. \A c \in Calls : log'[c] # "none" => log[c] # "none"
    BY <1>0, <1>5, TypeOKSplit DEF ScanLog, EndLog, Stored
  <2>2. scan'.held = scan.held /\ scan.step # "idle"
    BY <1>0, <1>5, TypeOKSplit DEF ScanLog, ScanOK
  <2> QED BY <1>2, <1>3, <1>5, <2>1, <2>2 DEF ScanLog
<1>6. CASE ScanDelete
  BY <1>2, <1>3, <1>6 DEF ScanDelete, Delete
<1>7. CASE GrowOld
  <2>1. \A v \in Users : ~Starting(v)
    BY <1>7, StepNames DEF GrowOld, Quiet, Starting, Idle
  <2>2. call \in State
    BY <1>0, <1>7, CallFacts DEF GrowOld
  <2>3. call'.id = call.id
    BY <1>7, <2>2 DEF GrowOld, State
  <2>4. IdsOK' /\ HeldAnnounced'
    BY <1>0, <1>7, <2>3 DEF GrowOld, IdsOK, HeldAnnounced
  <2>5. \A v \in Users : StarterAlone(v)'
    BY <1>7, <2>1 DEF GrowOld, StarterAlone, Starting
  <2> QED BY <1>1, <2>4, <2>5 DEF IdInv
<1>8. CASE ScanFails
  <2>1. (scan'.held = scan.held /\ scan.step # "idle") \/ scan' = Idle
    BY <1>0, <1>8, TypeOKSplit DEF ScanFails, ScanOK
  <2> QED BY <1>2, <1>3, <1>8, <2>1 DEF ScanFails
<1>9. CASE Crash
  BY <1>3, <1>9 DEF Crash, Goes, Idle
<1>10. ASSUME NEW u \in Users, Fails(u) PROVE IdInv'
  <2>1. \A v \in Users : Goes(v)
    BY <1>0, <1>10, FailsReq, StepNames DEF Goes, KnownSteps
  <2> QED BY <1>3, <1>10, <2>1 DEF Fails
<1>11. ASSUME NEW u \in Users, WriteFails(u) PROVE IdInv'
  <2>1. \A v \in Users : Goes(v)
    BY <1>0, <1>11, WriteFailsReq, StepNames DEF Goes, KnownSteps
  <2> QED BY <1>3, <1>11, <2>1 DEF WriteFails
<1> QED BY <1>4, <1>5, <1>6, <1>7, <1>8, <1>9, <1>10, <1>11 DEF Scanner

LEMMA NextId == IdInv /\ [Next]_vars => IdInv'
<1> SUFFICES ASSUME IdInv, [Next]_vars PROVE IdInv'
  OBVIOUS
<1>1. CASE UNCHANGED vars
  <2>1. SoundInv'
    BY NextSound DEF IdInv
  <2> QED BY <1>1, <2>1 DEF vars, IdInv, IdsOK, HeldAnnounced, StarterAlone, Starting
<1>2. CASE Next
  BY <1>2, RequestIds, HandlerIds, OtherIds DEF Next
<1> QED BY <1>1, <1>2

-----------------------------------------------------------------------------
(* Who was taken out of the stored call is not in it: a copy that still has him
   was loaded before, or is a join of his own. *)

LetIn(u) == older[u] \union (IF req[u].step = "join" THEN {u} ELSE {})

Excused(u) ==
  /\ req[u].step \in Copying => req[u].held.participants \intersect gone \subseteq LetIn(u)
  /\ req[u].step = "claim" => req[u].held.participants = {u}

GoneIsOut == gone \intersect call.participants = {}

GoneInv == SoundInv /\ GoneIsOut /\ \A u \in Users : Excused(u)

LEMMA InitGone == Init => GoneInv
<1> SUFFICES ASSUME Init PROVE GoneIsOut /\ \A u \in Users : Excused(u)
  BY InitSound DEF GoneInv
<1> QED BY DEF Init, Idle, GoneIsOut, Excused, Copying

LEMMA RequestGone ==
  ASSUME GoneInv, NEW u \in Users, Request(u)
  PROVE  GoneIsOut' /\ \A v \in Users : Excused(v)'
<1>0. TypeOK /\ GoneIsOut /\ \A v \in Users : Excused(v)
  BY DEF GoneInv, SoundInv
<1>1. UNCHANGED <<call, gone, older>> /\ \A v \in Users \ {u} : req'[v] = req[v]
  BY <1>0, RequestReq DEF history
<1>2. Excused(u)'
  <2>1. CASE req'[u].step = "claim" /\ req'[u].held.participants = {u}
    BY <2>1 DEF Excused, Copying
  <2>2. CASE req'[u].step \in {"join", "write", "end"} /\ Change(u, req'[u].step, req'[u].held)
    BY <1>0, <1>1, <2>2 DEF Change, Excused, LetIn, GoneIsOut, Copying
  <2>3. CASE req'[u].step \in {"dropCall", "dropGroup"}
    BY <2>3 DEF Excused, Copying
  <2> QED BY <1>0, <2>1, <2>2, <2>3, RequestReq
<1> QED BY <1>0, <1>1, <1>2 DEF Excused, LetIn, GoneIsOut

(* A write of the key makes nobody gone whom the copies in hand do not know of. *)
LEMMA WriteExcuses ==
  ASSUME GoneInv, NEW s, Remembers(s), gone' \subseteq gone \union TakesOut(s),
         \A v \in Users : req'[v].step \in {"join", "write", "claim"} => req'[v] = req[v]
  PROVE  \A v \in Users : Excused(v)'
<1> SUFFICES ASSUME NEW v \in Users PROVE Excused(v)'
  OBVIOUS
<1>0. Excused(v)
  BY DEF GoneInv
<1>1. CASE req'[v].step \in Copying
  <2>1. req'[v] = req[v] /\ older'[v] = older[v] \union TakesOut(s)
    BY <1>1 DEF Copying, Remembers
  <2> QED BY <1>0, <1>1, <2>1 DEF Excused, LetIn, Copying
<1>2. CASE req'[v].step = "claim"
  BY <1>0, <1>2 DEF Excused, Copying
<1> QED BY <1>1, <1>2 DEF Excused

LEMMA HandlerGone ==
  ASSUME GoneInv, NEW u \in Users, Handler(u)
  PROVE  GoneIsOut' /\ \A v \in Users : Excused(v)'
<1>0. TypeOK /\ GoneIsOut /\ \A v \in Users : Excused(v)
  BY DEF GoneInv, SoundInv
<1>a. \A v \in Users : req'[v].step \in {"join", "write", "claim"} => req'[v] = req[v]
  BY <1>0, HandlerMovesOn
<1>1. CASE UNCHANGED <<call, gone, older>>
  BY <1>0, <1>a, <1>1 DEF Excused, LetIn, GoneIsOut, Copying
<1>2. ASSUME req[u].step \in Copying, Store(u, req[u].held) PROVE GoneIsOut' /\ \A v \in Users : Excused(v)'
  <2> DEFINE s == req[u].held
  <2>1. /\ call' = s /\ Remembers(s)
        /\ gone' = (gone \ (LetIn(u) \intersect s.participants)) \union TakesOut(s)
    BY <1>2 DEF Store, LetIn
  <2>2. s.participants \intersect gone \subseteq LetIn(u)
    BY <1>0, <1>2 DEF Excused
  <2> HIDE DEF s
  <2>3. GoneIsOut'
    BY <2>1, <2>2 DEF GoneIsOut, TakesOut
  <2> QED BY <1>a, <2>1, <2>3, WriteExcuses
<1>3. ASSUME NEW c, Delete(c) PROVE GoneIsOut' /\ \A v \in Users : Excused(v)'
  <2>1. call' = NoCall /\ Remembers(NoCall) /\ gone' = gone \union TakesOut(NoCall)
    BY <1>3 DEF Delete
  <2> QED BY <1>a, <2>1, WriteExcuses, NoCallFacts DEF GoneIsOut
<1>4. CASE ClaimSlot(u) /\ call' # call
  <2>1. /\ req[u].step = "claim" /\ call' = req[u].held /\ gone' = gone \ {u} /\ UNCHANGED older
    BY <1>4 DEF ClaimSlot
  <2>2. GoneIsOut'
    BY <1>0, <2>1 DEF Excused, GoneIsOut
  <2> QED BY <1>0, <1>a, <2>1, <2>2 DEF Excused, LetIn, Copying
<1>5. CASE ClaimSlot(u) /\ call' = call
  <2>1. UNCHANGED older /\ gone' \subseteq gone
    BY <1>5 DEF ClaimSlot
  <2> QED BY <1>0, <1>a, <1>5, <2>1 DEF Excused, LetIn, GoneIsOut, Copying
<1>6. CASE SaveJoin(u)
  BY <1>2, <1>6 DEF SaveJoin, Copying
<1>7. CASE WriteState(u)
  BY <1>2, <1>3, <1>7 DEF WriteState, Copying
<1>8. CASE UndoStart(u) \/ EndCall(u)
  BY <1>3, <1>8 DEF UndoStart, EndCall
<1>9. CASE InsertLog(u) \/ LogJoin(u) \/ UpdateLog(u) \/ DropGroup(u)
  BY <1>1, <1>9 DEF InsertLog, LogJoin, UpdateLog, DropGroup, history
<1> QED BY <1>4, <1>5, <1>6, <1>7, <1>8, <1>9 DEF Handler

LEMMA OtherGone ==
  ASSUME GoneInv,
         \/ Scanner \/ GrowOld \/ ScanFails \/ Crash
         \/ \E u \in Users : Fails(u) \/ WriteFails(u)
  PROVE  GoneIsOut' /\ \A v \in Users : Excused(v)'
<1>0. TypeOK /\ GoneIsOut /\ \A v \in Users : Excused(v)
  BY DEF GoneInv, SoundInv
<1>a. HistoryOK
  BY <1>0, TypeOKSplit
<1>1. CASE ScanCall \/ ScanLog \/ ScanFails
  BY <1>0, <1>1 DEF ScanCall, ScanLog, ScanFails, history, Excused, LetIn, GoneIsOut
<1>2. CASE ScanDelete
  <2>1. /\ call' = NoCall /\ Remembers(NoCall) /\ gone' = gone \union TakesOut(NoCall)
        /\ UNCHANGED req
    BY <1>2 DEF ScanDelete, Delete
  <2> QED BY <2>1, WriteExcuses, NoCallFacts DEF GoneIsOut
<1>3. CASE GrowOld
  <2>1. call \in State /\ UNCHANGED <<req, gone, older>>
    BY <1>0, <1>3, CallFacts DEF GrowOld, history
  <2>2. call'.participants = call.participants
    BY <1>3, <2>1 DEF GrowOld, State
  <2> QED BY <1>0, <2>1, <2>2 DEF Excused, LetIn, GoneIsOut
<1>4. CASE Crash
  BY <1>0, <1>4 DEF Crash, Excused, GoneIsOut, Idle, Copying
<1>5. ASSUME NEW u \in Users, UNCHANGED <<call, gone>>, older' = [older EXCEPT ![u] = {}],
             \A v \in Users \ {u} : req'[v] = req[v],
             req'[u].step \notin {"join", "write", "claim"}
      PROVE  GoneIsOut' /\ \A v \in Users : Excused(v)'
  <2>1. \A v \in Users \ {u} : older'[v] = older[v]
    BY <1>a, <1>5 DEF HistoryOK
  <2> QED BY <1>0, <1>5, <2>1 DEF Excused, LetIn, GoneIsOut, Copying
<1>6. ASSUME NEW u \in Users, Fails(u) PROVE GoneIsOut' /\ \A v \in Users : Excused(v)'
  <2>1. /\ \A v \in Users \ {u} : req'[v] = req[v]
        /\ req'[u].step \notin {"join", "write", "claim"}
    BY <1>0, <1>6, FailsReq
  <2>2. UNCHANGED <<call, gone>> /\ older' = [older EXCEPT ![u] = {}]
    BY <1>6 DEF Fails
  <2> QED BY <1>5, <2>1, <2>2
<1>7. ASSUME NEW u \in Users, WriteFails(u) PROVE GoneIsOut' /\ \A v \in Users : Excused(v)'
  <2>1. /\ \A v \in Users \ {u} : req'[v] = req[v]
        /\ req'[u].step \notin {"join", "write", "claim"}
    BY <1>0, <1>7, WriteFailsReq
  <2>2. UNCHANGED <<call, gone>> /\ older' = [older EXCEPT ![u] = {}]
    BY <1>7 DEF WriteFails
  <2> QED BY <1>5, <2>1, <2>2
<1> QED BY <1>1, <1>2, <1>3, <1>4, <1>6, <1>7 DEF Scanner

LEMMA NextGone == GoneInv /\ [Next]_vars => GoneInv'
<1> SUFFICES ASSUME GoneInv, [Next]_vars PROVE GoneIsOut' /\ \A u \in Users : Excused(u)'
  BY NextSound DEF GoneInv
<1>1. CASE UNCHANGED vars
  BY <1>1 DEF vars, history, GoneInv, GoneIsOut, Excused, LetIn
<1>2. CASE Next
  BY <1>2, RequestGone, HandlerGone, OtherGone DEF Next
<1> QED BY <1>1, <1>2

(* Although every handler writes back a copy that may be out of date, the key
   never holds a call without participants, an admin who is not in the call, or a
   user who left or was kicked, unless he joined since or the copy was loaded
   before he was taken out. *)
THEOREM StoredStaysSound == Spec => []StoredIsSound
<1>1. GoneInv => StoredIsSound
  BY DEF GoneInv, GoneIsOut, SoundInv, CallSound, StoredIsSound
<1> QED BY <1>1, InitGone, NextGone, PTL DEF Spec

-----------------------------------------------------------------------------
(* An open call is stored.  So is one that is about to be opened: its start has
   taken the key and will insert the row. *)

Needed(c) == \/ log[c] = "open"
             \/ exists /\ \E u \in Users : req[u].step = "insert" /\ req[u].held.id = c

Kept(c) == call.id = c \/ ~Spared(c) \/ Ending(c)

(* The scanner deletes the key after it has ended the row. *)
ScanEnded == scan.step = "del" => log[scan.held.id] # "open" \/ scan.held.id \in faulted

OpenInv == /\ IdInv
           /\ ScanEnded
           /\ \A c \in Calls : Needed(c) => Kept(c)

LEMMA InitOpen == Init => OpenInv
BY InitId DEF Init, OpenInv, ScanEnded, Needed, Idle

LEMMA StarterIsNotEnding ==
  ASSUME IdInv, NEW u \in Users, Starting(u)
  PROVE  /\ req[u].held.id \in Calls /\ req[u].held.id \notin announced
         /\ log[req[u].held.id] # "open"
<1>1. req[u].held.id \in Calls
  BY StepNames, ReqFacts DEF IdInv, SoundInv, Starting
<1>2. req[u].held.id \notin announced
  BY DEF IdInv, StarterAlone
<1> QED BY <1>1, <1>2 DEF IdInv, IdsOK

(* Only a step that writes log rows or announces calls can make a call needed,
   and only two kinds of steps can leave it without a key. *)
LEMMA WrittenKeepsOthers ==
  ASSUME TypeOK, NEW c \in Calls, Kept(c),
         \/ \E u, s : Store(u, s)
         \/ \E d : d # c /\ Delete(d),
         faulted \subseteq faulted', Ending(c) => Ending(c)'
  PROVE  Kept(c)'
<1>1. usurped \subseteq usurped'
  BY DEF Store, Delete, Usurps
<1>2. CASE call.id # c
  BY <1>1, <1>2 DEF Kept, Spared
<1>3. CASE call.id = c
  <2>1. call # NoCall
    BY <1>3, CallFacts, NoCallFacts
  <2>2. ASSUME NEW u, NEW s, Store(u, s) PROVE call'.id = c \/ c \in usurped'
    BY <1>3, <2>1, <2>2 DEF Store, Usurps
  <2>3. ASSUME NEW d, d # c, Delete(d) PROVE c \in usurped'
    BY <1>3, <2>1, <2>3 DEF Delete, Usurps
  <2> QED BY <2>2, <2>3 DEF Kept, Spared
<1> QED BY <1>2, <1>3

LEMMA OthersKeepKept ==
  ASSUME NEW c \in Calls, Kept(c), call'.id = call.id, usurped \subseteq usurped',
         faulted \subseteq faulted', Ending(c) => Ending(c)' \/ c \in faulted'
  PROVE  Kept(c)'
BY DEF Kept, Spared

LEMMA EndingStays ==
  ASSUME NEW u \in Users, NEW c, \A v \in Users \ {u} : req'[v] = req[v],
         \/ req[u].step \notin EndSteps \union {"dropGroup"}
         \/ req[u].held.id # c
         \/ req'[u].step = "dropGroup" /\ req'[u].held = req[u].held
  PROVE  Ending(c) => Ending(c)'
BY DEF Ending

LEMMA RequestOpen ==
  ASSUME OpenInv, NEW u \in Users, Request(u)
  PROVE  OpenInv'
<1>0. IdInv /\ TypeOK /\ ScanEnded
  BY DEF OpenInv, IdInv, SoundInv
<1>1. /\ UNCHANGED <<exists, call, log, logged, scan, announced, usurped, faulted>>
      /\ \A v \in Users \ {u} : req'[v] = req[v]
      /\ req[u].step = "idle" /\ req'[u].step # "insert"
  BY <1>0, RequestReq DEF Idle
<1>2. IdInv'
  BY <1>0, NextId DEF Next
<1>3. ScanEnded'
  BY <1>0, <1>1 DEF ScanEnded
<1>4. ASSUME NEW c \in Calls, Needed(c)' PROVE Kept(c)'
  <2>1. Needed(c)
    BY <1>1, <1>4 DEF Needed
  <2>2. Kept(c)
    BY <2>1 DEF OpenInv
  <2>3. Ending(c) => Ending(c)'
    BY <1>1, EndingStays, StepNames
  <2> QED BY <1>1, <2>2, <2>3, OthersKeepKept
<1> QED BY <1>2, <1>3, <1>4 DEF OpenInv

(* What a handler does to the call it holds, and that it touches no other *)
LEMMA HandlerOpen ==
  ASSUME OpenInv, NEW u \in Users, Handler(u)
  PROVE  OpenInv'
<1> DEFINE k == req[u].held.id
<1>0. /\ IdInv /\ TypeOK /\ ScanEnded
      /\ \A v \in Users : StarterAlone(v)
      /\ \A c \in Calls : Needed(c) => Kept(c)
  BY DEF OpenInv, IdInv, SoundInv
<1>1. IdInv'
  BY <1>0, NextId DEF Next
<1>a. log \in [Calls -> {"none", "open", "ended"}]
  BY <1>0, TypeOKSplit DEF Stored
<1>b. req[u].step \notin {"idle", "dropGroup"} => req[u].held \in State /\ k \in Calls
  BY <1>0, ReqFacts
<1>c. /\ Done(u) => /\ req'[u].step = "idle" /\ \A v \in Users \ {u} : req'[v] = req[v]
      /\ \A step \in Steps : Goto(u, step) /\ (req[u].held \in State \/ step = "dropGroup")
           => /\ req'[u].step = step /\ req'[u].held = req[u].held
              /\ \A v \in Users \ {u} : req'[v] = req[v]
  BY <1>0, DoneReq, GotoReq
<1>d. UNCHANGED <<log, scan, faulted>> => ScanEnded'
  BY <1>0 DEF ScanEnded
<1> HIDE DEF k
<1>2. CASE ClaimSlot(u)
  <2>1. /\ \A v \in Users \ {u} : req'[v] = req[v]
        /\ req'[u].step \in {"idle", "insert"}
        /\ req'[u].step = "insert" => req'[u].held = req[u].held /\ call = NoCall /\ call'.id = k
        /\ req'[u].step = "idle" => call' = call
        /\ req[u].step = "claim"
        /\ UNCHANGED <<exists, log, scan, usurped, faulted>>
    BY <1>2, <1>b, <1>c, StepNames DEF ClaimSlot, k
  <2>2. ASSUME NEW c \in Calls, Needed(c)' PROVE Kept(c)'
    <3>1. CASE req'[u].step = "insert" /\ c = k
      BY <2>1, <3>1 DEF Kept
    <3>2. CASE ~(req'[u].step = "insert" /\ c = k)
      <4>1. Needed(c)
        BY <2>1, <2>2, <3>2 DEF Needed, k
      <4>2. Kept(c) /\ (Ending(c) => Ending(c)')
        BY <1>0, <2>1, <4>1, EndingStays, StepNames
      <4>3. call'.id = call.id \/ call.id # c
        BY <2>1, NoCallFacts
      <4> QED BY <2>1, <4>2, <4>3 DEF Kept, Spared
    <3> QED BY <3>1, <3>2
  <2> QED BY <1>1, <1>d, <2>1, <2>2 DEF OpenInv
<1>3. CASE InsertLog(u)
  <2>1. /\ \A v \in Users \ {u} : req'[v] = req[v]
        /\ req'[u].step \in {"idle", "undo"}
        /\ req[u].step = "insert" /\ k \in Calls
        /\ UNCHANGED <<exists, call, scan, usurped, faulted>>
        /\ log' = log \/ (exists /\ log' = [log EXCEPT ![k] = "open"])
    BY <1>3, <1>b, <1>c, StepNames DEF InsertLog, k
  <2>2. ASSUME NEW c \in Calls, Needed(c)' PROVE Kept(c)'
    <3>1. Needed(c)
      BY <1>a, <2>1, <2>2 DEF Needed, k
    <3>2. Kept(c) /\ (Ending(c) => Ending(c)')
      BY <1>0, <2>1, <3>1, EndingStays, StepNames
    <3> QED BY <2>1, <3>2, OthersKeepKept
  <2>3. ScanEnded'
    <3>1. Starting(u) /\ (scan.step # "idle" => scan.held.id # k)
      BY <1>0, <2>1, StepNames DEF StarterAlone, Starting, k
    <3>2. scan.step = "del" => scan.held.id \in Calls /\ scan.held.id # k
      BY <1>0, <3>1, ScanFacts
    <3>3. \A c \in Calls : c # k => log'[c] = log[c]
      BY <1>a, <2>1
    <3> QED BY <1>0, <2>1, <3>2, <3>3 DEF ScanEnded
  <2> QED BY <1>1, <2>2, <2>3 DEF OpenInv
<1>4. ASSUME NEW c \in Calls, c # k, Needed(c),
             \/ \E v, s : Store(v, s)
             \/ Delete(k),
             faulted \subseteq faulted', \A v \in Users \ {u} : req'[v] = req[v],
             req[u].step \notin EndSteps \union {"dropGroup"}
      PROVE  Kept(c)'
  <2>1. Ending(c) => Ending(c)'
    BY <1>4, EndingStays
  <2> QED BY <1>0, <1>4, <2>1, WrittenKeepsOthers
<1>5. CASE UndoStart(u)
  <2>1. /\ \A v \in Users \ {u} : req'[v] = req[v]
        /\ req'[u].step = "idle" /\ req[u].step = "undo" /\ Delete(k)
        /\ UNCHANGED <<exists, log, scan, faulted>>
    BY <1>5, <1>c DEF UndoStart, k
  <2>2. /\ Starting(u) /\ log[k] # "open"
        /\ \A v \in Users \ {u} : req[v].step = "insert" => req[v].held.id # k
    BY <1>0, <2>1, StepNames, StarterIsNotEnding DEF StarterAlone, Starting, k
  <2>3. ASSUME NEW c \in Calls, Needed(c)' PROVE Kept(c)'
    <3>1. Needed(c) /\ c # k
      BY <2>1, <2>2, <2>3 DEF Needed
    <3> QED BY <1>4, <2>1, <3>1, StepNames
  <2> QED BY <1>1, <1>d, <2>1, <2>3 DEF OpenInv
<1>6. CASE SaveJoin(u)
  <2>1. /\ \A v \in Users \ {u} : req'[v] = req[v]
        /\ req'[u].step = "joinLog" /\ req[u].step = "join" /\ Store(u, req[u].held)
        /\ UNCHANGED <<exists, log, scan, faulted>>
    BY <1>6, <1>b, <1>c, StepNames DEF SaveJoin
  <2>2. ASSUME NEW c \in Calls, Needed(c)' PROVE Kept(c)'
    <3>1. Needed(c)
      BY <2>1, <2>2 DEF Needed
    <3>2. CASE c = k
      BY <2>1, <3>2 DEF Store, Kept, k
    <3> QED BY <1>4, <2>1, <3>1, <3>2, StepNames
  <2> QED BY <1>1, <1>d, <2>1, <2>2 DEF OpenInv
<1>7. CASE LogJoin(u)
  <2>1. /\ \A v \in Users \ {u} : req'[v] = req[v]
        /\ req'[u].step = "idle" /\ req[u].step = "joinLog"
        /\ UNCHANGED <<exists, call, log, scan, usurped, faulted>>
    BY <1>7, <1>c DEF LogJoin
  <2>2. ASSUME NEW c \in Calls, Needed(c)' PROVE Kept(c)'
    <3>1. Needed(c)
      BY <2>1, <2>2 DEF Needed
    <3>2. Kept(c) /\ (Ending(c) => Ending(c)')
      BY <1>0, <2>1, <3>1, EndingStays, StepNames
    <3> QED BY <2>1, <3>2, OthersKeepKept
  <2> QED BY <1>1, <1>d, <2>1, <2>2 DEF OpenInv
<1>8. CASE WriteState(u) \/ EndCall(u)
  <2>1. /\ \A v \in Users \ {u} : req'[v] = req[v]
        /\ req'[u].step \in {"idle", "endLog", "dropLog"}
        /\ req[u].step \in {"write", "end", "dropCall"}
        /\ \/ Store(u, req[u].held)
           \/ Delete(k) /\ req'[u].step \in {"endLog", "dropLog"} /\ req'[u].held = req[u].held
        /\ UNCHANGED <<exists, log, scan, faulted>>
    <3>1. CASE WriteState(u)
      BY <3>1, <1>b, <1>c, StepNames DEF WriteState, k
    <3>2. CASE EndCall(u)
      <4>1. Goto(u, "endLog") \/ Goto(u, "dropLog")
        BY <3>2 DEF EndCall
      <4> QED BY <3>2, <4>1, <1>b, <1>c, StepNames DEF EndCall, k
    <3> QED BY <1>8, <3>1, <3>2
  <2>2. ASSUME NEW c \in Calls, Needed(c)' PROVE Kept(c)'
    <3>1. Needed(c)
      BY <2>1, <2>2 DEF Needed
    <3>2. CASE c = k
      BY <2>1, <3>2, StepNames DEF Store, Kept, Ending, k
    <3> QED BY <1>4, <2>1, <3>1, <3>2, StepNames
  <2> QED BY <1>1, <1>d, <2>1, <2>2 DEF OpenInv
<1>9. CASE UpdateLog(u)
  <2>1. /\ \A v \in Users \ {u} : req'[v] = req[v]
        /\ \/ req[u].step = "endLog" /\ req'[u].step = "idle"
           \/ req[u].step = "dropLog" /\ req'[u].step = "dropGroup" /\ req'[u].held = req[u].held
        /\ UNCHANGED <<exists, call, scan, usurped, faulted>> /\ k \in Calls
        /\ log' = IF log[k] = "open" THEN [log EXCEPT ![k] = "ended"] ELSE log
    BY <1>9, <1>b, <1>c, StepNames DEF UpdateLog, EndLog, k
  <2>2. \A c \in Calls : log'[c] = "open" => log[c] = "open" /\ c # k
    BY <1>a, <2>1
  <2>3. ASSUME NEW c \in Calls, Needed(c)' PROVE Kept(c)'
    <3>1. Needed(c)
      BY <2>1, <2>2, <2>3 DEF Needed
    <3>2. CASE c = k /\ req[u].step = "endLog"
      <4>1. k \in announced
        BY <1>0, <3>2 DEF IdInv, HeldAnnounced, KnownSteps, k
      <4>2. PICK v \in Users : req[v].step = "insert" /\ req[v].held.id = k
        BY <2>1, <2>2, <2>3, <3>2 DEF Needed
      <4>3. Starting(v)
        BY <4>2, StepNames DEF Starting
      <4> QED BY <1>0, <4>1, <4>2, <4>3, StarterIsNotEnding
    <3>3. CASE c # k \/ req[u].step = "dropLog"
      <4>1. Kept(c) /\ (Ending(c) => Ending(c)')
        BY <1>0, <2>1, <3>1, <3>3, EndingStays DEF k
      <4> QED BY <2>1, <4>1, OthersKeepKept
    <3> QED BY <2>1, <3>2, <3>3
  <2>4. ScanEnded'
    <3>1. scan.step = "del" => scan.held.id \in Calls
      BY <1>0, ScanFacts
    <3> QED BY <1>0, <2>1, <2>2, <3>1 DEF ScanEnded
  <2> QED BY <1>1, <2>3, <2>4 DEF OpenInv
<1>10. CASE DropGroup(u)
  <2>1. /\ \A c \in Calls : log'[c] = "none"
        /\ ~exists' /\ UNCHANGED <<scan, faulted>>
    BY <1>10 DEF DropGroup
  <2>2. scan.step = "del" => scan.held.id \in Calls
    BY <1>0, ScanFacts
  <2> QED BY <1>1, <2>1, <2>2 DEF OpenInv, Needed, ScanEnded
<1> QED BY <1>2, <1>3, <1>5, <1>6, <1>7, <1>8, <1>9, <1>10 DEF Handler

LEMMA OtherOpen ==
  ASSUME OpenInv,
         \/ Scanner \/ GrowOld \/ ScanFails \/ Crash
         \/ \E u \in Users : Fails(u) \/ WriteFails(u)
  PROVE  OpenInv'
<1>0. /\ IdInv /\ TypeOK /\ ScanEnded
      /\ \A v \in Users : StarterAlone(v)
      /\ \A c \in Calls : Needed(c) => Kept(c)
  BY DEF OpenInv, IdInv, SoundInv
<1>1. IdInv'
  BY <1>0, NextId DEF Next
<1>a. log \in [Calls -> {"none", "open", "ended"}]
  BY <1>0, TypeOKSplit DEF Stored
<1>b. scan.step # "idle" => scan.held.id \in Calls
  BY <1>0, ScanFacts
<1>2. ASSUME call'.id = call.id, UNCHANGED usurped, UNCHANGED exists,
             faulted \subseteq faulted',
             \A c \in Calls : log'[c] = "open" => log[c] = "open",
             \A v \in Users : req'[v].step = "insert" => req'[v] = req[v],
             \A c \in Calls : Ending(c) => Ending(c)' \/ c \in faulted'
      PROVE  \A c \in Calls : Needed(c)' => Kept(c)'
  <2> SUFFICES ASSUME NEW c \in Calls, Needed(c)' PROVE Kept(c)'
    OBVIOUS
  <2>1. Needed(c)
    BY <1>2 DEF Needed
  <2> QED BY <1>0, <1>2, <2>1, OthersKeepKept
<1>3. UNCHANGED req => \A c : Ending(c) => Ending(c)'
  BY DEF Ending
<1>4. CASE ScanCall \/ GrowOld
  <2>1. /\ call'.id = call.id
        /\ UNCHANGED <<usurped, exists, faulted, log, req>> /\ scan'.step # "del"
    <3>1. CASE ScanCall
      BY <3>1 DEF ScanCall
    <3>2. CASE GrowOld
      <4>1. call \in State
        BY <1>0, <3>2, CallFacts DEF GrowOld
      <4> QED BY <3>2, <4>1 DEF GrowOld, Quiet, State, Idle
    <3> QED BY <1>4, <3>1, <3>2
  <2>2. \A c \in Calls : Needed(c)' => Kept(c)'
    BY <1>2, <1>3, <2>1
  <2> QED BY <1>1, <2>1, <2>2 DEF OpenInv, ScanEnded
<1>5. CASE ScanLog
  <2>1. /\ UNCHANGED <<call, usurped, exists, faulted, req>> /\ scan'.held = scan.held
        /\ log' = IF log[scan.held.id] = "open" THEN [log EXCEPT ![scan.held.id] = "ended"] ELSE log
    BY <1>0, <1>5, TypeOKSplit DEF ScanLog, EndLog, ScanOK
  <2>2. scan.held.id \in Calls
    BY <1>5, <1>b DEF ScanLog
  <2>3. \A c \in Calls : log'[c] = "open" => log[c] = "open" /\ c # scan.held.id
    BY <1>a, <2>1, <2>2
  <2>4. \A c \in Calls : Needed(c)' => Kept(c)'
    BY <1>2, <1>3, <2>1, <2>3
  <2> QED BY <1>1, <2>1, <2>2, <2>3, <2>4 DEF OpenInv, ScanEnded
<1>6. CASE ScanDelete
  <2> DEFINE k == scan.held.id
  <2>1. /\ scan.step = "del" /\ Delete(k) /\ k \in Calls
        /\ UNCHANGED <<exists, log, req, faulted>> /\ scan'.step = "idle"
    BY <1>6, <1>b DEF ScanDelete, Idle
  <2>2. ASSUME NEW c \in Calls, Needed(c)' PROVE Kept(c)'
    <3>1. Needed(c)
      BY <2>1, <2>2 DEF Needed
    <3>2. CASE c = k /\ log[c] = "open"
      BY <1>0, <2>1, <3>2 DEF ScanEnded, Kept, Spared
    <3>3. CASE c = k /\ log[c] # "open"
      <4>1. PICK v \in Users : req[v].step = "insert" /\ req[v].held.id = k
        BY <3>1, <3>3 DEF Needed
      <4>2. Starting(v)
        BY <4>1, StepNames DEF Starting
      <4> QED BY <1>0, <2>1, <4>1, <4>2 DEF StarterAlone
    <3>4. CASE c # k
      BY <1>0, <1>3, <2>1, <3>1, <3>4, WrittenKeepsOthers
    <3> QED BY <3>2, <3>3, <3>4
  <2> QED BY <1>1, <2>1, <2>2 DEF OpenInv, ScanEnded
<1>7. CASE ScanFails
  <2>1. /\ UNCHANGED <<call, usurped, exists, req, log>> /\ faulted \subseteq faulted'
        /\ \/ scan'.step = "idle"
           \/ scan'.held = scan.held /\ scan.held.id \in faulted'
    BY <1>0, <1>7, TypeOKSplit DEF ScanFails, ScanOK, Idle
  <2>2. \A c \in Calls : Needed(c)' => Kept(c)'
    BY <1>2, <1>3, <2>1
  <2>3. ScanEnded'
    BY <2>1 DEF ScanEnded
  <2> QED BY <1>1, <2>2, <2>3 DEF OpenInv
<1>8. CASE Crash
  <2>1. /\ UNCHANGED <<call, usurped, exists, log>> /\ faulted \subseteq faulted'
        /\ scan'.step = "idle" /\ \A v \in Users : req'[v].step = "idle"
        /\ \A v \in Users : req[v].held.id # 0 => req[v].held.id \in faulted'
    BY <1>8 DEF Crash, Idle
  <2>2. \A c \in Calls : Ending(c) => c \in faulted'
    BY <2>1, NoCallFacts DEF Ending
  <2>3. \A c \in Calls : Needed(c)' => Kept(c)'
    BY <1>2, <2>1, <2>2
  <2> QED BY <1>1, <2>1, <2>3 DEF OpenInv, ScanEnded
<1>9. ASSUME NEW u \in Users, Fails(u) PROVE OpenInv'
  <2>1. /\ UNCHANGED <<call, usurped, exists, log, scan>> /\ faulted \subseteq faulted'
        /\ \A v \in Users \ {u} : req'[v] = req[v]
    BY <1>0, <1>9, FailsReq DEF Fails
  <2>2. req[u].step \in {"endLog", "dropLog", "dropGroup"} /\ req[u].held.id # 0
          => req[u].held.id \in faulted'
    BY <1>9, FailureSteps DEF Fails
  <2>3. req'[u].step # "insert"
    BY <1>0, <1>9, FailsReq
  <2>4. \A c \in Calls : Ending(c) => Ending(c)' \/ c \in faulted'
    BY <2>1, <2>2, StepNames, NoCallFacts DEF Ending
  <2>5. \A c \in Calls : Needed(c)' => Kept(c)'
    BY <1>2, <2>1, <2>3, <2>4
  <2> QED BY <1>0, <1>1, <2>1, <2>5 DEF OpenInv, ScanEnded
<1>10. ASSUME NEW u \in Users, WriteFails(u) PROVE OpenInv'
  <2>1. /\ UNCHANGED <<call, usurped, exists, log, scan, faulted>>
        /\ \A v \in Users \ {u} : req'[v] = req[v]
        /\ req'[u].step # "insert" /\ req[u].step \in {"write", "end"}
    BY <1>0, <1>10, WriteFailsReq DEF WriteFails
  <2>2. \A c \in Calls : Ending(c) => Ending(c)'
    BY <2>1, EndingStays, StepNames
  <2>3. \A c \in Calls : Needed(c)' => Kept(c)'
    BY <1>2, <2>1, <2>2
  <2> QED BY <1>0, <1>1, <2>1, <2>3 DEF OpenInv, ScanEnded
<1> QED BY <1>4, <1>5, <1>6, <1>7, <1>8, <1>9, <1>10 DEF Scanner

LEMMA NextOpen == OpenInv /\ [Next]_vars => OpenInv'
<1> SUFFICES ASSUME OpenInv, [Next]_vars PROVE OpenInv'
  OBVIOUS
<1>1. CASE UNCHANGED vars
  <2>1. IdInv'
    BY NextId DEF OpenInv
  <2> QED BY <1>1, <2>1 DEF vars, OpenInv, ScanEnded, Needed, Kept, Spared, Ending
<1>2. CASE Next
  BY <1>2, RequestOpen, HandlerOpen, OtherOpen DEF Next
<1> QED BY <1>1, <1>2

(* A call that is open in call_logs is the one in Redis, or somebody has just
   deleted the key and is about to end the row; but for calls that a failed
   command, a crash or the late write of another call's handler has struck. *)
THEOREM OpenStaysStored == Spec => []OpenIsStored
<1>1. OpenInv => OpenIsStored
  BY DEF OpenInv, OpenIsStored, Needed, Kept
<1> QED BY <1>1, InitOpen, NextOpen, PTL DEF Spec

-----------------------------------------------------------------------------
(* Who takes part is logged: in the key, and in the copies about to be written *)

Watched(c)   == c \in announced /\ c \notin faulted /\ log[c] # "none"
Logged(c, v) == v \in logged[c] \/ (req[v].step = "joinLog" /\ req[v].held.id = c)

CallLogged == Watched(call.id) => \A v \in call.participants : Logged(call.id, v)

HeldLogged(u) ==
  req[u].step \in {"join", "write"} /\ Watched(req[u].held.id)
    => \A v \in req[u].held.participants :
         Logged(req[u].held.id, v) \/ (req[u].step = "join" /\ v = u)

(* Before a call is announced, its starter is the only participant. *)
StartsAlone(u) ==
  Starting(u) => /\ req[u].held.participants \subseteq {u}
                 /\ call.id = req[u].held.id => call.participants \subseteq {u}

LogInv == /\ IdInv
          /\ CallLogged
          /\ \A u \in Users : HeldLogged(u) /\ StartsAlone(u)

LEMMA InitLog == Init => LogInv
<1> SUFFICES ASSUME Init
             PROVE  CallLogged /\ \A u \in Users : HeldLogged(u) /\ StartsAlone(u)
  BY InitId DEF LogInv
<1> QED BY NoCallFacts, StepNames
      DEF Init, CallLogged, HeldLogged, StartsAlone, Starting, Idle

(* Inserted(u, c): the row of c is made, by the start of u. *)
Inserted(u, c) == /\ req[u].step = "insert" /\ req[u].held.id = c
                  /\ logged'[c] = {u} /\ announced' = announced \union {c}
                  /\ UNCHANGED <<call, faulted>>
                  /\ req'[u].step = "idle" /\ \A v \in Users \ {u} : req'[v] = req[v]

(* Log rows lose nobody, and a join under way ends in its row, unless the call is
   struck by a fault or its row is deleted. *)
LEMMA LogsKept ==
  ASSUME IdInv, Next, NEW c \in Calls, Watched(c)'
  PROVE  \/ Watched(c) /\ \A v \in Users : Logged(c, v) => Logged(c, v)'
         \/ \E u \in Users : Inserted(u, c)
<1>0. /\ TypeOK /\ log \in [Calls -> {"none", "open", "ended"}]
      /\ logged \in [Calls -> SUBSET Users]
  BY TypeOKSplit DEF IdInv, SoundInv, Stored
<1> DEFINE Same == \A v \in Users : Logged(c, v) => Logged(c, v)'
<1>1. ASSUME NEW u \in Users, UNCHANGED logged, \A v \in Users \ {u} : req'[v] = req[v],
             req[u].step # "joinLog"
      PROVE  Same
  BY <1>1 DEF Logged
<1>2. ASSUME UNCHANGED announced, faulted \subseteq faulted', log'[c] # "none" => log[c] # "none"
      PROVE  Watched(c)
  BY <1>2 DEF Watched
<1>a. UNCHANGED <<logged, req>> => Same
  BY DEF Logged
<1> HIDE DEF Same
<1>3. ASSUME NEW u \in Users, Request(u) PROVE Watched(c) /\ Same
  <2>1. /\ UNCHANGED <<log, logged, announced, faulted>> /\ req[u].step = "idle"
        /\ \A v \in Users \ {u} : req'[v] = req[v]
    BY <1>0, <1>3, RequestReq DEF Idle
  <2> QED BY <1>1, <1>2, <2>1
<1>4. ASSUME NEW u \in Users, Handler(u) PROVE (Watched(c) /\ Same) \/ Inserted(u, c)
  <2> DEFINE k == req[u].held.id
  <2>0. req[u].step \notin {"idle", "dropGroup"} => k \in Calls
    BY <1>0, ReqFacts
  <2>a. \A v \in Users \ {u} : req'[v] = req[v]
    <3>1. Done(u) \/ \E step : Goto(u, step)
      BY <1>4 DEF Handler, ClaimSlot, InsertLog, UndoStart, SaveJoin, LogJoin, WriteState,
                  EndCall, UpdateLog, DropGroup
    <3>2. req \in [Users -> [step : Steps, held : Held]]
      BY <1>0, TypeOKSplit DEF ReqOK
    <3> QED BY <3>1, <3>2 DEF Done, Goto
  <2> HIDE DEF k
  <2>1. CASE ClaimSlot(u) \/ UndoStart(u) \/ SaveJoin(u) \/ WriteState(u) \/ EndCall(u)
    <3>1. UNCHANGED <<log, logged, announced, faulted>> /\ req[u].step # "joinLog"
      BY <2>1 DEF ClaimSlot, UndoStart, SaveJoin, WriteState, EndCall
    <3> QED BY <1>1, <1>2, <2>a, <3>1
  <2>2. CASE InsertLog(u)
    <3>1. req[u].step = "insert" /\ k \in Calls /\ UNCHANGED <<call, faulted>>
      BY <2>0, <2>2 DEF InsertLog, k
    <3>2. CASE ~exists
      BY <1>1, <1>2, <2>2, <2>a, <3>1, <3>2 DEF InsertLog
    <3>3. CASE exists
      <4>1. /\ log' = [log EXCEPT ![k] = "open"] /\ logged' = [logged EXCEPT ![k] = {u}]
            /\ announced' = announced \union {k} /\ req'[u].step = "idle"
        BY <1>0, <2>2, <3>3, DoneReq DEF InsertLog, k
      <4>2. c = k => Inserted(u, c)
        BY <1>0, <2>a, <3>1, <4>1 DEF Inserted, k
      <4>3. c # k => Watched(c) /\ logged'[c] = logged[c]
        BY <1>0, <3>1, <4>1 DEF Watched
      <4>4. c # k => Same
        BY <2>a, <3>1, <4>3 DEF Same, Logged
      <4> QED BY <4>2, <4>3, <4>4
    <3> QED BY <3>2, <3>3
  <2>3. CASE LogJoin(u)
    <3>1. /\ req[u].step = "joinLog" /\ k \in Calls /\ UNCHANGED <<log, announced, faulted>>
          /\ logged' = IF log[k] = "none" THEN logged ELSE [logged EXCEPT ![k] = @ \union {u}]
      BY <2>0, <2>3 DEF LogJoin, k
    <3>2. Watched(c)
      BY <1>2, <3>1
    <3>3. logged[c] \subseteq logged'[c] /\ (c = k => u \in logged'[c])
      BY <1>0, <3>1, <3>2 DEF Watched
    <3>4. Same
      BY <2>a, <3>3 DEF Same, Logged, k
    <3> QED BY <3>2, <3>4
  <2>4. CASE UpdateLog(u)
    <3>1. /\ req[u].step # "joinLog" /\ UNCHANGED <<logged, announced, faulted>>
          /\ log'[c] # "none" => log[c] # "none"
      BY <1>0, <2>4, StepNames DEF UpdateLog, EndLog
    <3> QED BY <1>1, <1>2, <2>a, <3>1
  <2>5. CASE DropGroup(u)
    BY <2>5 DEF DropGroup, Watched
  <2> QED BY <1>4, <2>1, <2>2, <2>3, <2>4, <2>5 DEF Handler
<1>5. CASE Scanner \/ GrowOld
  <2>1. UNCHANGED <<logged, req, announced, faulted>> /\ (log'[c] # "none" => log[c] # "none")
    BY <1>0, <1>5 DEF Scanner, ScanCall, ScanLog, ScanDelete, GrowOld, EndLog
  <2> QED BY <1>2, <1>a, <2>1 DEF Same
<1>6. CASE ScanFails
  BY <1>2, <1>6, <1>a DEF ScanFails, Same
<1>7. CASE Crash
  <2>1. /\ UNCHANGED <<log, logged, announced>> /\ faulted \subseteq faulted'
        /\ \A v \in Users : req[v].held.id # 0 => req[v].held.id \in faulted'
    BY <1>7 DEF Crash
  <2>2. Watched(c) /\ c \notin faulted'
    BY <1>2, <2>1 DEF Watched
  <2>3. Same
    BY <2>1, <2>2, NoCallFacts DEF Same, Logged
  <2> QED BY <2>2, <2>3 DEF Same
<1>8. ASSUME NEW u \in Users, Fails(u) PROVE Watched(c) /\ Same
  <2>1. /\ UNCHANGED <<log, logged, announced>> /\ faulted \subseteq faulted'
        /\ \A v \in Users \ {u} : req'[v] = req[v]
    BY <1>0, <1>8, FailsReq DEF Fails
  <2>2. Watched(c) /\ c \notin faulted'
    BY <1>2, <2>1 DEF Watched
  <2>3. req[u].step = "joinLog" => req[u].held.id # c
    BY <1>8, <2>2, FailureSteps, NoCallFacts DEF Fails
  <2>4. Same
    BY <2>1, <2>3 DEF Same, Logged
  <2> QED BY <2>2, <2>4
<1>9. ASSUME NEW u \in Users, WriteFails(u) PROVE Watched(c) /\ Same
  <2>1. /\ UNCHANGED <<log, logged, announced, faulted>> /\ req[u].step # "joinLog"
        /\ \A v \in Users \ {u} : req'[v] = req[v]
    BY <1>0, <1>9, WriteFailsReq DEF WriteFails
  <2> QED BY <1>1, <1>2, <2>1
<1> QED BY <1>3, <1>4, <1>5, <1>6, <1>7, <1>8, <1>9 DEF Next, Same

(* Copies in hand stay logged, however the log rows change, if the copies stay. *)
LEMMA HeldStaysLogged ==
  ASSUME LogInv, Next, NEW u \in Users, Goes(u),
         req'[u].step \in {"join", "write"} => req'[u].step = req[u].step
  PROVE  HeldLogged(u)'
<1> SUFFICES ASSUME req'[u].step \in {"join", "write"} PROVE HeldLogged(u)'
  BY DEF HeldLogged
<1>0. IdInv /\ TypeOK /\ HeldLogged(u)
  BY DEF LogInv, IdInv, SoundInv
<1>1. req'[u].held = req[u].held /\ req[u].step = req'[u].step
  BY DEF Goes
<1>2. PICK c \in Calls : c = req[u].held.id
  BY <1>0, <1>1, ReqFacts
<1>3. req[u].held.participants \subseteq Users
  BY <1>0, ReqFacts, HeldFacts
<1>4. c \in announced
  BY <1>0, <1>1, <1>2 DEF IdInv, HeldAnnounced, KnownSteps
<1>5. ~\E w \in Users : Inserted(w, c)
  <2>1. ASSUME NEW w \in Users, req[w].step = "insert" PROVE req[w].held.id # c
    BY <1>0, <1>4, <2>1, StarterIsNotEnding, StepNames DEF Starting
  <2> QED BY <2>1 DEF Inserted
<1>6. ASSUME Watched(c)', NEW v \in req[u].held.participants
      PROVE  Logged(c, v)' \/ (req[u].step = "join" /\ v = u)
  <2>1. Watched(c) /\ \A w \in Users : Logged(c, w) => Logged(c, w)'
    BY <1>0, <1>5, <1>6, LogsKept
  <2>2. Logged(c, v) \/ (req[u].step = "join" /\ v = u)
    BY <1>0, <1>1, <1>2, <2>1 DEF HeldLogged
  <2> QED BY <1>3, <2>1, <2>2
<1> QED BY <1>1, <1>2, <1>6 DEF HeldLogged, Watched, Logged

(* The key stays logged when its participants do. *)
LEMMA CallStaysLogged ==
  ASSUME LogInv, Next, call'.id = call.id, call'.participants = call.participants
  PROVE  CallLogged'
<1>0. IdInv /\ TypeOK /\ CallLogged /\ call \in Held
  BY CallFacts DEF LogInv, IdInv, SoundInv
<1>1. CASE call = NoCall
  BY <1>1, NoCallFacts DEF CallLogged
<1>2. CASE call # NoCall
  <2>1. PICK c \in Calls : c = call.id
    BY <1>0, <1>2, HeldFacts
  <2>2. call.participants \subseteq Users
    BY <1>0, HeldFacts
  <2>3. ASSUME Watched(c)', NEW v \in call.participants PROVE Logged(c, v)'
    <3>1. CASE Watched(c) /\ \A w \in Users : Logged(c, w) => Logged(c, w)'
      <4>1. Logged(c, v)
        BY <1>0, <2>1, <3>1 DEF CallLogged
      <4> QED BY <2>2, <3>1, <4>1
    <3>2. ASSUME NEW u \in Users, Inserted(u, c) PROVE Logged(c, v)'
      <4>1. Starting(u) /\ req[u].held.id = call.id
        BY <2>1, <3>2, StepNames DEF Inserted, Starting
      <4>2. v = u
        BY <4>1 DEF LogInv, StartsAlone
      <4> QED BY <3>2, <4>2 DEF Inserted, Logged
    <3> QED BY <1>0, <2>3, <3>1, <3>2, LogsKept
  <2> QED BY <2>1, <2>3 DEF CallLogged, Watched, Logged
<1> QED BY <1>1, <1>2

(* It takes what a handler had in hand. *)
LEMMA SavedIsLogged ==
  ASSUME LogInv, Next, NEW u \in Users, req[u].step \in {"join", "write"},
         call' = req[u].held,
         req[u].step = "join" => req'[u].step = "joinLog" /\ req'[u].held = req[u].held
  PROVE  CallLogged'
<1>0. IdInv /\ TypeOK /\ HeldLogged(u)
  BY DEF LogInv, IdInv, SoundInv
<1>1. PICK c \in Calls : c = req[u].held.id
  BY <1>0, ReqFacts
<1>2. req[u].held.participants \subseteq Users
  BY <1>0, ReqFacts, HeldFacts
<1>3. c \in announced
  BY <1>0, <1>1 DEF IdInv, HeldAnnounced, KnownSteps
<1>4. ~\E w \in Users : Inserted(w, c)
  <2>1. ASSUME NEW w \in Users, req[w].step = "insert" PROVE req[w].held.id # c
    BY <1>0, <1>3, <2>1, StarterIsNotEnding, StepNames DEF Starting
  <2> QED BY <2>1 DEF Inserted
<1>5. ASSUME Watched(c)', NEW v \in req[u].held.participants PROVE Logged(c, v)'
  <2>1. Watched(c) /\ \A w \in Users : Logged(c, w) => Logged(c, w)'
    BY <1>0, <1>4, <1>5, LogsKept
  <2>2. Logged(c, v) \/ (req[u].step = "join" /\ v = u)
    BY <1>0, <1>1, <2>1 DEF HeldLogged
  <2>3. req[u].step = "join" => Logged(c, u)'
    BY <1>1 DEF Logged
  <2> QED BY <1>2, <2>1, <2>2, <2>3
<1> QED BY <1>1, <1>5 DEF CallLogged, Watched, Logged

LEMMA RequestLogs ==
  ASSUME LogInv, NEW u \in Users, Request(u)
  PROVE  LogInv'
<1>0. /\ IdInv /\ TypeOK /\ CallLogged /\ call \in Held /\ Next
      /\ \A v \in Users : HeldLogged(v) /\ StartsAlone(v)
  BY CallFacts DEF LogInv, IdInv, SoundInv, Next
<1>1. /\ UNCHANGED <<exists, call, log, logged, scan, announced, usurped, faulted>>
      /\ \A v \in Users \ {u} : req'[v] = req[v]
      /\ req[u].step = "idle"
  BY <1>0, RequestReq DEF Idle
<1>2. IdInv' /\ CallLogged'
  BY <1>0, <1>1, NextId, CallStaysLogged
<1>3. \A v \in Users \ {u} : HeldLogged(v)'
  BY <1>0, <1>1, HeldStaysLogged DEF Goes
<1>4. \A v \in Users \ {u} : StartsAlone(v)'
  BY <1>0, <1>1 DEF StartsAlone, Starting
<1>5. \A c : \A v \in Users : Logged(c, v) => Logged(c, v)'
  BY <1>1 DEF Logged
<1>6. CASE /\ req'[u].step = "claim" /\ req'[u].held.id = started + 1
           /\ req'[u].held.participants = {u}
  <2>1. call.id # started + 1
    BY <1>0, HeldFacts, TypeOKSplit, CallBounds DEF IdInv, IdsOK, Counters
  <2>2. StartsAlone(u)' /\ HeldLogged(u)'
    BY <1>1, <1>6, <2>1 DEF StartsAlone, HeldLogged
  <2> QED BY <1>2, <1>3, <1>4, <2>2 DEF LogInv
<1>7. CASE /\ req'[u].step \in {"join", "write", "end"}
           /\ Change(u, req'[u].step, req'[u].held)
  <2>1. /\ req'[u].held.id = call.id
        /\ req'[u].held.participants
             \subseteq call.participants \union (IF req'[u].step = "join" THEN {u} ELSE {})
    BY <1>7 DEF Change
  <2>2. PICK c : c = call.id
    OBVIOUS
  <2>3. Watched(c)' => Watched(c)
    BY <1>1 DEF Watched
  <2>4. Watched(c)' => \A v \in call.participants : Logged(c, v)'
    <3>1. call.participants \subseteq Users
      BY <1>0, HeldFacts
    <3> QED BY <1>0, <1>5, <2>2, <2>3, <3>1 DEF CallLogged
  <2>5. HeldLogged(u)'
    BY <2>1, <2>2, <2>4 DEF HeldLogged, Watched, Logged
  <2>6. StartsAlone(u)'
    BY <1>7, StepNames DEF StartsAlone, Starting
  <2> QED BY <1>2, <1>3, <1>4, <2>5, <2>6 DEF LogInv
<1>8. CASE req'[u].step \in {"dropCall", "dropGroup"}
  <2>1. StartsAlone(u)' /\ HeldLogged(u)'
    BY <1>8, StepNames DEF StartsAlone, Starting, HeldLogged
  <2> QED BY <1>2, <1>3, <1>4, <2>1 DEF LogInv
<1> QED BY <1>0, <1>6, <1>7, <1>8, RequestReq

(* Every other step lets requests go on with what they have, and leaves the key,
   empties it, or puts into it what a handler has in hand. *)
LEMMA GoingLogs ==
  ASSUME LogInv, Next, \A u \in Users : Goes(u),
         \A u \in Users : req'[u].step \in {"join", "write"} => req'[u].step = req[u].step,
         CallLogged',
         \/ call'.id = call.id /\ call'.participants = call.participants
         \/ call'.id \in announced \union {0}
         \/ \E u \in Users : Starting(u) /\ call' = req[u].held
  PROVE  LogInv'
<1>0. /\ IdInv /\ TypeOK /\ \A v \in Users : HeldLogged(v) /\ StartsAlone(v) /\ StarterAlone(v)
  BY DEF LogInv, IdInv, SoundInv
<1>1. IdInv' /\ \A u \in Users : HeldLogged(u)'
  BY <1>0, NextId, HeldStaysLogged
<1>2. ASSUME NEW u \in Users PROVE StartsAlone(u)'
  <2> SUFFICES ASSUME Starting(u)' PROVE StartsAlone(u)'
    BY DEF StartsAlone
  <2>1. Starting(u) /\ req'[u].held = req[u].held
    BY DEF Starting, Goes, StartSteps
  <2>2. req[u].held.id \notin announced /\ req[u].held.id # 0
    BY <1>0, <2>1, StarterIsNotEnding, NoCallFacts
  <2>3. \A v \in Users : Starting(v) /\ req[v].held.id = req[u].held.id => v = u
    BY <1>0, <2>1 DEF StarterAlone
  <2> QED BY <1>0, <2>1, <2>2, <2>3 DEF StartsAlone
<1> QED BY <1>1, <1>2 DEF LogInv

LEMMA HandlerLogs ==
  ASSUME LogInv, NEW u \in Users, Handler(u)
  PROVE  LogInv'
<1>0. /\ IdInv /\ TypeOK /\ Next
      /\ \A v \in Users : HeldLogged(v) /\ StartsAlone(v)
  BY DEF LogInv, IdInv, SoundInv, Next
<1>1. /\ \A v \in Users : Goes(v)
      /\ \A v \in Users : req'[v].step \in {"join", "write"} => req'[v].step = req[v].step
  BY <1>0, HandlerGoes, HandlerMovesOn
<1>2. UNCHANGED call => LogInv'
  BY <1>0, <1>1, CallStaysLogged, GoingLogs
<1>3. ASSUME NEW c, Delete(c) PROVE LogInv'
  <2>1. call' = NoCall
    BY <1>3 DEF Delete
  <2>2. CallLogged' /\ call'.id \in announced \union {0}
    BY <2>1, NoCallFacts DEF CallLogged
  <2> QED BY <1>0, <1>1, <2>2, GoingLogs
<1>4. CASE ClaimSlot(u) /\ call' # call
  <2>1. /\ req[u].step = "claim" /\ call' = req[u].held /\ UNCHANGED announced
    BY <1>4 DEF ClaimSlot
  <2>2. Starting(u)
    BY <2>1, StepNames DEF Starting
  <2>3. call'.id \notin announced'
    BY <1>0, <2>1, <2>2, StarterIsNotEnding
  <2>4. CallLogged'
    BY <2>3 DEF CallLogged, Watched
  <2> QED BY <1>0, <1>1, <2>1, <2>2, <2>4, GoingLogs
<1>5. CASE SaveJoin(u)
  <2>1. /\ req[u].step = "join" /\ call' = req[u].held /\ Goto(u, "joinLog")
    BY <1>5 DEF SaveJoin, Store
  <2>2. req[u].held \in State
    BY <1>0, <2>1, ReqFacts
  <2>3. req'[u].step = "joinLog" /\ req'[u].held = req[u].held
    BY <1>0, <2>1, <2>2, StepNames, GotoReq
  <2>4. CallLogged'
    BY <1>0, <2>1, <2>3, SavedIsLogged
  <2>5. call'.id \in announced
    BY <1>0, <2>1 DEF IdInv, HeldAnnounced, KnownSteps
  <2> QED BY <1>0, <1>1, <2>4, <2>5, GoingLogs
<1>6. CASE WriteState(u) /\ Store(u, req[u].held)
  <2>1. req[u].step = "write" /\ call' = req[u].held
    BY <1>6 DEF WriteState, Store
  <2>2. CallLogged'
    BY <1>0, <2>1, SavedIsLogged
  <2>3. call'.id \in announced
    BY <1>0, <2>1 DEF IdInv, HeldAnnounced, KnownSteps
  <2> QED BY <1>0, <1>1, <2>2, <2>3, GoingLogs
<1> QED BY <1>2, <1>3, <1>4, <1>5, <1>6
      DEF Handler, ClaimSlot, InsertLog, UndoStart, LogJoin, WriteState, EndCall, UpdateLog,
          DropGroup

LEMMA OtherLogs ==
  ASSUME LogInv,
         \/ Scanner \/ GrowOld \/ ScanFails \/ Crash
         \/ \E u \in Users : Fails(u) \/ WriteFails(u)
  PROVE  LogInv'
<1>0. /\ IdInv /\ TypeOK /\ Next
  BY DEF LogInv, IdInv, SoundInv, Next
<1> DEFINE Stays == \A v \in Users :
                      req'[v].step \in {"join", "write"} => req'[v].step = req[v].step
<1>1. Stays /\ \A v \in Users : Goes(v)
  <2>1. ASSUME NEW u \in Users, Fails(u) PROVE Stays /\ \A v \in Users : Goes(v)
    BY <1>0, <2>1, FailsReq, StepNames DEF Goes, KnownSteps
  <2>2. ASSUME NEW u \in Users, WriteFails(u) PROVE Stays /\ \A v \in Users : Goes(v)
    BY <1>0, <2>2, WriteFailsReq, StepNames DEF Goes, KnownSteps
  <2>3. CASE Scanner \/ GrowOld \/ ScanFails
    BY <2>3 DEF Scanner, ScanCall, ScanLog, ScanDelete, GrowOld, ScanFails, Goes
  <2>4. CASE Crash
    BY <2>4 DEF Crash, Goes, Idle
  <2> QED BY <2>1, <2>2, <2>3, <2>4
<1>2. ASSUME call'.id = call.id, call'.participants = call.participants PROVE LogInv'
  BY <1>0, <1>1, <1>2, CallStaysLogged, GoingLogs
<1>3. CASE GrowOld
  <2>1. call \in State
    BY <1>0, <1>3, CallFacts DEF GrowOld
  <2>2. call'.id = call.id /\ call'.participants = call.participants
    BY <1>3, <2>1 DEF GrowOld, State
  <2> QED BY <1>2, <2>2
<1>4. CASE ScanDelete
  <2>1. call' = NoCall
    BY <1>4 DEF ScanDelete, Delete
  <2>2. CallLogged' /\ call'.id \in announced \union {0}
    BY <2>1, NoCallFacts DEF CallLogged
  <2> QED BY <1>0, <1>1, <2>2, GoingLogs
<1>5. CASE ~GrowOld /\ ~ScanDelete
  BY <1>2, <1>5 DEF Scanner, ScanCall, ScanLog, ScanFails, Crash, Fails, WriteFails
<1> QED BY <1>3, <1>4, <1>5

LEMMA NextLog == LogInv /\ [Next]_vars => LogInv'
<1> SUFFICES ASSUME LogInv, [Next]_vars PROVE LogInv'
  OBVIOUS
<1>1. CASE UNCHANGED vars
  <2>1. IdInv'
    BY NextId DEF LogInv
  <2> QED BY <1>1, <2>1 DEF vars, LogInv, CallLogged, HeldLogged, StartsAlone, Starting, Watched,
                          Logged
<1>2. CASE Next
  BY <1>2, RequestLogs, HandlerLogs, OtherLogs DEF Next
<1> QED BY <1>1, <1>2

(* ParticipantsAreLogged: a join that is lost from the log of a call would have to
   be lost between its SET and its UPDATE, and the only copies of the call that
   carry it further were taken after the SET. *)
THEOREM ParticipantsStayLogged == Spec => []ParticipantsAreLogged
<1>1. LogInv => ParticipantsAreLogged
  BY DEF LogInv, CallLogged, ParticipantsAreLogged, Watched, Logged
<1> QED BY <1>1, InitLog, NextLog, PTL DEF Spec
=============================================================================
