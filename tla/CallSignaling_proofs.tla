------------------------- MODULE CallSignaling_proofs -------------------------
(***************************************************************************)
(* Machine-checked proofs about one-to-one calls, for every set of users,  *)
(* calls and servers, any number of disconnections and crashes and any     *)
(* commands of Redis that fail.                                            *)
(***************************************************************************)
EXTENDS CallSignaling, TLAPS

-----------------------------------------------------------------------------
(* Types, one definition for the variables of each kind *)

HandlerState == [op : {"none", "ring", "accept", "clear"}, call : Calls \union {None},
                 step : {"none", "pair", "presence", "markSelf", "markPeer",
                         "clearSelf", "clearPeer", "missSelf", "missPeer"}]
HangupState  == [call : Calls \union {None}, step : {"none", "get", "clearSelf", "clearPeer"}]
KeyState     == [call : Calls \union {None}, answered : BOOLEAN, old : BOOLEAN]
Message      == [type : {"ring", "accept", "end"}, call : Calls, to : Users]
Shown        == {"none", "waiting", "ringing", "talking", "done"}

ActiveType  == /\ active \in [Users -> KeyState]
               /\ \A u \in Users : active[u].call = None => active[u] = NoState
TimerType   == timer \in [Calls -> {"off", "armed", "clearCallee"}]
HandlerType == /\ handler \in [Users -> HandlerState]
               /\ \A u \in Users : handler[u].step = "none" <=> handler[u] = Idle
               /\ \A u \in Users : handler[u].call = None <=> handler[u] = Idle
HangupType  == /\ hangup \in [Users -> HangupState]
               /\ \A u \in Users : hangup[u].step \in {"clearSelf", "clearPeer"}
                                     <=> hangup[u].call # None
ScanType    == /\ scanned \in [Servers -> Users \union {None}]
               /\ online \subseteq Users /\ pending \subseteq Users
UiType      == ui \in [Users -> [Calls -> Shown]]
WireType    == wire \subseteq Message
MissedType  == missed \subseteq Calls
BoundsType  == /\ struck \subseteq Calls
               /\ disconnects \in Nat /\ crashes \in Nat /\ redisFaults \in Nat
               /\ disconnects + crashes + redisFaults <= MaxFailures

Types == /\ ActiveType /\ TimerType /\ HandlerType /\ HangupType /\ ScanType
         /\ UiType /\ WireType /\ MissedType /\ BoundsType

LEMMA TypesTypeOK == Types => TypeOK
BY DEF Types, TypeOK, ActiveType, TimerType, HandlerType, HangupType, ScanType, UiType,
       WireType, MissedType, BoundsType, HandlerState, HangupState, KeyState, Message, Shown

LEMMA PartiesAreUsers ==
  ASSUME NEW c \in Calls
  PROVE  /\ CallerOf[c] \in Users /\ CalleeOf[c] \in Users /\ CallerOf[c] # CalleeOf[c]
         /\ Parties(c) \subseteq Users
         /\ \A u : Peer(u, c) \in Parties(c)
BY CallParties DEF Parties, Peer

LEMMA KeyStates ==
  /\ NoState \in KeyState
  /\ \A c \in Calls : Ringing(c) \in KeyState /\ Ringing(c).call = c /\ ~Ringing(c).answered
  /\ NoState.call = None
BY DEF NoState, Ringing, KeyState

LEMMA InitTypes == Init => Types
<1> SUFFICES ASSUME Init PROVE Types
  OBVIOUS
<1>1. ActiveType
  BY KeyStates DEF Init, ActiveType
<1>2. HandlerType
  BY NoneIsNone DEF Init, HandlerType, HandlerState, Idle
<1>3. HangupType
  BY DEF Init, HangupType, HangupState, NoTask
<1>4. TimerType /\ ScanType /\ UiType /\ WireType /\ MissedType /\ BoundsType
  BY CallBounds DEF Init, TimerType, ScanType, UiType, Shown, WireType, MissedType, BoundsType
<1> QED BY <1>1, <1>2, <1>3, <1>4 DEF Types

(* Failing commands *)
LEMMA FailsBounds ==
  ASSUME BoundsType, NEW cs \in SUBSET Calls, Fails(cs)
  PROVE  BoundsType'
BY CallBounds DEF BoundsType, Fails, CanFail

LEMMA SameBounds ==
  ASSUME BoundsType, UNCHANGED failures
  PROVE  BoundsType'
BY DEF BoundsType, failures

LEMMA AttemptBounds ==
  ASSUME BoundsType, NEW ACTION command, NEW c \in Calls, Attempt(command, c)
  PROVE  BoundsType'
BY FailsBounds, SameBounds DEF Attempt

LEMMA AttemptKeys ==
  ASSUME NEW ACTION command, NEW c, Attempt(command, c)
  PROVE  /\ command \/ UNCHANGED active
         /\ c \in struck' \/ command
BY DEF Attempt, Fails

(* What the operations on Redis do to the keys *)
LEMMA ClearKey ==
  ASSUME ActiveType, NEW u, Clear(u)
  PROVE  /\ ActiveType'
         /\ \A v \in Users : active'[v] = IF v = u THEN NoState ELSE active[v]
BY KeyStates DEF ActiveType, Clear

LEMMA SameKeyTypes == ActiveType /\ UNCHANGED active => ActiveType'
BY DEF ActiveType

LEMMA SetPairKeys ==
  ASSUME ActiveType, NEW c \in Calls, SetPair(c)
  PROVE  /\ ActiveType'
         /\ \A v \in Users : active'[v] = IF v \in Parties(c) THEN Ringing(c) ELSE active[v]
BY KeyStates, NoneIsNone DEF ActiveType, SetPair

LEMMA MarkAnsweredKey ==
  ASSUME ActiveType, NEW u, MarkAnswered(u)
  PROVE  /\ ActiveType'
         /\ \A v \in Users : /\ active'[v].call = active[v].call
                             /\ v # u => active'[v] = active[v]
         /\ u \in Users /\ Busy(u) => active'[u].answered
<1>1. CASE u \in Users /\ Busy(u)
  <2>1. active' = [active EXCEPT ![u] = [@ EXCEPT !.answered = TRUE, !.old = FALSE]]
    BY <1>1 DEF MarkAnswered
  <2>2. active[u] \in KeyState
    BY <1>1 DEF ActiveType
  <2>3. active'[u].call = active[u].call /\ active'[u].answered /\ active'[u] \in KeyState
    BY <1>1, <2>1, <2>2 DEF ActiveType, KeyState
  <2>4. \A v \in Users : v # u => active'[v] = active[v]
    BY <2>1 DEF ActiveType
  <2>5. active' \in [Users -> KeyState]
    BY <2>1, <2>3, <2>4 DEF ActiveType
  <2> QED BY <1>1, <2>3, <2>4, <2>5 DEF ActiveType, Busy
<1>2. CASE ~(u \in Users /\ Busy(u))
  <2>1. active' = active
    BY <1>2 DEF MarkAnswered, ActiveType, Busy
  <2> QED BY <1>2, <2>1 DEF ActiveType
<1> QED BY <1>1, <1>2

LEMMA ClearIfMatchKey ==
  ASSUME ActiveType, NEW u, NEW c, ClearIfMatch(u, c)
  PROVE  /\ ActiveType'
         /\ \A v \in Users : active'[v] = IF v = u /\ Matches(u, c) THEN NoState ELSE active[v]
BY KeyStates DEF ActiveType, ClearIfMatch

(* What the beginnings and ends of handlers do *)
LEMMA StartHandler ==
  ASSUME HandlerType, NEW u \in Users, NEW op, NEW c \in Calls, NEW step,
         [op |-> op, call |-> c, step |-> step] \in HandlerState, step # "none",
         Start(u, op, c, step)
  PROVE  /\ HandlerType'
         /\ handler'[u].call = c /\ handler'[u].step = step
         /\ \A v \in Users : v # u => handler'[v] = handler[v]
<1>1. c # None
  BY NoneIsNone
<1>2. handler'[u] = [op |-> op, call |-> c, step |-> step]
  BY DEF HandlerType, Start
<1>3. \A v \in Users : v # u => handler'[v] = handler[v]
  BY DEF HandlerType, Start
<1>4. handler' \in [Users -> HandlerState]
  BY DEF HandlerType, Start
<1>5. handler'[u] # Idle
  BY <1>1, <1>2 DEF Idle
<1> QED BY <1>1, <1>2, <1>3, <1>4, <1>5 DEF HandlerType

LEMMA StepHandler ==
  ASSUME HandlerType, NEW u \in Users, handler[u] # Idle, NEW step,
         step \in {"presence", "markPeer", "clearPeer", "missSelf", "missPeer"},
         Step(u, step)
  PROVE  /\ HandlerType'
         /\ handler'[u].call = handler[u].call /\ handler'[u].step = step
         /\ \A v \in Users : v # u => handler'[v] = handler[v]
<1>1. /\ handler'[u].call = handler[u].call /\ handler'[u].step = step
      /\ handler'[u] \in HandlerState
  BY DEF HandlerType, Step, HandlerState
<1>2. \A v \in Users : v # u => handler'[v] = handler[v]
  BY DEF HandlerType, Step
<1>3. handler' \in [Users -> HandlerState]
  <2>1. handler' = [v \in Users |-> IF v = u THEN handler'[u] ELSE handler[v]]
    BY DEF HandlerType, Step
  <2> QED BY <1>1, <2>1 DEF HandlerType
<1>4. handler'[u] # Idle /\ handler[u].call # None /\ handler[u].step # "none"
  BY <1>1 DEF HandlerType, Idle
<1> QED BY <1>1, <1>2, <1>3, <1>4 DEF HandlerType

LEMMA ReturnHandler ==
  ASSUME HandlerType, NEW u \in Users, Return(u)
  PROVE  /\ HandlerType'
         /\ handler'[u] = Idle
         /\ \A v \in Users : v # u => handler'[v] = handler[v]
<1>1. Idle \in HandlerState
  BY DEF Idle, HandlerState
<1> QED BY <1>1 DEF HandlerType, Return, Idle

LEMMA ShowUi ==
  ASSUME UiType, NEW u \in Users, NEW c \in Calls, NEW what \in Shown, Show(u, c, what)
  PROVE  /\ UiType'
         /\ ui'[u][c] = what
         /\ \A v \in Users, d \in Calls : v # u \/ d # c => ui'[v][d] = ui[v][d]
<1>1. ui[u] \in [Calls -> Shown]
  BY DEF UiType
<1>2. ui' = [ui EXCEPT ![u] = [ui[u] EXCEPT ![c] = what]]
  BY DEF Show
<1>3. [ui[u] EXCEPT ![c] = what] \in [Calls -> Shown]
  BY <1>1
<1> QED BY <1>1, <1>2, <1>3 DEF UiType

LEMMA ForgetUi ==
  ASSUME UiType, NEW us, Forget(us)
  PROVE  /\ UiType'
         /\ \A v \in Users, d \in Calls : ui'[v][d] = "none" <=> ui[v][d] = "none"
BY DEF UiType, Forget, Shown

LEMMA CancelTimerEffect ==
  ASSUME TimerType, NEW u, NEW c \in Calls, CancelTimer(u, c)
  PROVE  /\ TimerType'
         /\ timer'[c] \in {timer[c], "off"}
         /\ \A d \in Calls : d # c => timer'[d] = timer[d]
BY DEF TimerType, CancelTimer

LEMMA PublishWire ==
  ASSUME WireType, NEW type \in {"ring", "accept", "end"}, NEW c \in Calls, NEW u \in Users,
         Publish(type, c, u)
  PROVE  /\ WireType'
         /\ \A m \in wire' : m \in wire \/ m.call = c
BY DEF WireType, Publish, Message

(* Whom a handler, a key and a hang-up task are about *)
Ringer == {"pair", "presence", "missSelf", "missPeer"}

HandlerOfParty == \A u \in Users : LET c == handler[u].call IN
                    c # None => /\ u \in Parties(c)
                                /\ handler[u].step \in Ringer => u = CallerOf[c]
KeyOfParty     == \A u \in Users : Busy(u) => u \in Parties(active[u].call)
HangupOfParty  == \A u \in Users : hangup[u].call # None => u \in Parties(hangup[u].call)

OfParties == HandlerOfParty /\ KeyOfParty /\ HangupOfParty

LEMMA HandlerCall ==
  ASSUME HandlerType, NEW u \in Users, handler[u].step # "none"
  PROVE  /\ handler[u].call \in Calls /\ handler[u] # Idle
         /\ handler[u].call # None
BY NoneIsNone DEF HandlerType, HandlerState

-----------------------------------------------------------------------------
(* Every step keeps the types. *)

LEMMA ClientTypes ==
  ASSUME Types, NEW c \in Calls, SendRing(c) \/ SendAccept(c) \/ \E u \in Users : SendEnd(u, c)
  PROVE  Types'
<1> USE DEF Types
<1>0. /\ [op |-> "ring", call |-> c, step |-> "pair"] \in HandlerState
      /\ [op |-> "accept", call |-> c, step |-> "markSelf"] \in HandlerState
      /\ [op |-> "clear", call |-> c, step |-> "clearSelf"] \in HandlerState
      /\ {"waiting", "talking", "done"} \subseteq Shown
  BY DEF HandlerState, Shown
<1>1. CASE SendRing(c)
  <2>1. CallerOf[c] \in Users
    BY PartiesAreUsers
  <2>2. HandlerType' /\ UiType'
    <3>1. CASE UNCHANGED handler /\ Show(CallerOf[c], c, "done")
      BY <1>0, <2>1, <3>1, ShowUi DEF HandlerType
    <3>2. CASE Start(CallerOf[c], "ring", c, "pair") /\ Show(CallerOf[c], c, "waiting")
      <4>1. HandlerType'
        BY <1>0, <2>1, <3>2, StartHandler
      <4>2. UiType'
        BY <1>0, <2>1, <3>2, ShowUi
      <4> QED BY <4>1, <4>2
    <3> QED BY <1>1, <3>1, <3>2 DEF SendRing
  <2>3. BoundsType'
    BY <1>1, SameBounds DEF SendRing
  <2> QED BY <1>1, <2>2, <2>3 DEF SendRing, ActiveType, TimerType, HangupType, ScanType, WireType,
                            MissedType
<1>2. CASE SendAccept(c)
  <2>1. CalleeOf[c] \in Users
    BY PartiesAreUsers
  <2>2. HandlerType'
    BY <1>0, <1>2, <2>1, StartHandler DEF SendAccept
  <2>3. UiType'
    BY <1>0, <1>2, <2>1, ShowUi DEF SendAccept
  <2>4. TimerType'
    BY <1>2, CancelTimerEffect DEF SendAccept
  <2>5. BoundsType'
    BY <1>2, SameBounds DEF SendAccept
  <2> QED BY <1>2, <2>2, <2>3, <2>4, <2>5 DEF SendAccept, ActiveType, HangupType, ScanType, WireType,
                                        MissedType
<1>3. ASSUME NEW u \in Users, SendEnd(u, c) PROVE Types'
  <2>2. HandlerType'
    BY <1>0, <1>3, StartHandler DEF SendEnd
  <2>3. UiType'
    BY <1>0, <1>3, ShowUi DEF SendEnd
  <2>4. TimerType'
    BY <1>3, CancelTimerEffect DEF SendEnd
  <2>5. BoundsType'
    BY <1>3, SameBounds DEF SendEnd
  <2> QED BY <1>3, <2>2, <2>3, <2>4, <2>5 DEF SendEnd, ActiveType, HangupType, ScanType, WireType,
                                        MissedType
<1> QED BY <1>1, <1>2, <1>3

LEMMA HandleTypes ==
  ASSUME Types, NEW u \in Users, Handle(u)
  PROVE  Types'
<1> USE DEF Types
<1> DEFINE c == handler[u].call
<1>0. handler[u].step # "none"
  BY DEF Handle, RingSetPair, RingStartTimer, RingMissSelf, RingMissPeer, AcceptMarkSelf,
         AcceptMarkPeer, EndClearSelf, EndClearPeer
<1>a. c \in Calls /\ handler[u] # Idle
  BY <1>0, HandlerCall
<1>b. CalleeOf[c] \in Users /\ Peer(u, c) \in Users
  BY <1>a, PartiesAreUsers
<1>c. "done" \in Shown
  BY DEF Shown
<1>d. /\ Step(u, "presence") \/ Step(u, "markPeer") \/ Step(u, "clearPeer")
           \/ Step(u, "missSelf") \/ Step(u, "missPeer") => HandlerType'
      /\ Return(u) => HandlerType'
  BY <1>a, StepHandler, ReturnHandler
<1>e. BoundsType'
  <2>1. ASSUME NEW ACTION command, Attempt(command, c) PROVE BoundsType'
    BY <1>a, <2>1, AttemptBounds
  <2>2. UNCHANGED failures \/ Fails({c}) => BoundsType'
    BY <1>a, FailsBounds, SameBounds
  <2> QED BY <2>1, <2>2 DEF Handle, RingSetPair, RingStartTimer, RingMissSelf, RingMissPeer,
                 AcceptMarkSelf, AcceptMarkPeer, EndClearSelf, EndClearPeer, Attempt
<1>f. /\ \A v : Attempt(Clear(v), c) => ActiveType'
      /\ \A v : Attempt(MarkAnswered(v), c) => ActiveType'
  BY ClearKey, MarkAnsweredKey, SameKeyTypes DEF Attempt
<1> USE DEF TimerType, HangupType, ScanType, MissedType
<1>1. CASE RingSetPair(u)
  <2>1. UiType'
    BY <1>1, <1>a, <1>c, ShowUi DEF RingSetPair, UiType
  <2>2. ActiveType'
    BY <1>1, <1>a, SetPairKeys, SameKeyTypes DEF RingSetPair
  <2> QED BY <1>1, <1>d, <1>e, <2>1, <2>2 DEF RingSetPair, WireType
<1>2. CASE RingStartTimer(u)
  <2>1. CASE /\ timer' = [timer EXCEPT ![c] = "armed"]
             /\ Publish("ring", c, CalleeOf[c]) /\ Return(u)
    <3>1. WireType'
      BY <1>a, <1>b, <2>1, PublishWire
    <3> QED BY <1>2, <1>d, <1>e, <2>1, <3>1 DEF RingStartTimer, ActiveType, UiType
  <2>2. CASE Step(u, "missSelf") /\ UNCHANGED <<timer, wire>>
    BY <1>2, <1>d, <1>e, <2>2 DEF RingStartTimer, ActiveType, UiType, WireType
  <2> QED BY <1>2, <2>1, <2>2 DEF RingStartTimer
<1>3. CASE RingMissSelf(u)
  BY <1>3, <1>d, <1>e, <1>f DEF RingMissSelf, UiType, WireType
<1>4. CASE RingMissPeer(u)
  <2>1. UiType'
    BY <1>4, <1>a, <1>c, ShowUi DEF RingMissPeer
  <2> QED BY <1>4, <1>d, <1>e, <1>f, <2>1 DEF RingMissPeer, WireType
<1>5. CASE AcceptMarkSelf(u)
  BY <1>5, <1>d, <1>e, <1>f DEF AcceptMarkSelf, UiType, WireType
<1>6. CASE AcceptMarkPeer(u)
  <2>1. WireType'
    BY <1>6, <1>a, <1>b, PublishWire DEF AcceptMarkPeer
  <2> QED BY <1>6, <1>d, <1>e, <1>f, <2>1 DEF AcceptMarkPeer, UiType
<1>7. CASE EndClearSelf(u)
  BY <1>7, <1>d, <1>e, <1>f DEF EndClearSelf, UiType, WireType
<1>8. CASE EndClearPeer(u)
  <2>1. WireType'
    BY <1>8, <1>a, <1>b, PublishWire DEF EndClearPeer
  <2> QED BY <1>8, <1>d, <1>e, <1>f, <2>1 DEF EndClearPeer, UiType
<1> QED BY <1>1, <1>2, <1>3, <1>4, <1>5, <1>6, <1>7, <1>8 DEF Handle

LEMMA TimerTypes ==
  ASSUME Types, NEW c \in Calls, TimerClearCaller(c) \/ TimerClearCallee(c) \/ GrowOld(c)
  PROVE  Types'
<1> USE DEF Types, HandlerType, HangupType, ScanType, UiType
<1>0. BoundsType'
  BY FailsBounds, SameBounds DEF TimerClearCaller, TimerClearCallee, GrowOld, Attempt
<1>1. CASE TimerClearCaller(c)
  <2>1. ActiveType'
    BY <1>1, ClearIfMatchKey, SameKeyTypes DEF TimerClearCaller
  <2> QED BY <1>0, <1>1, <2>1 DEF TimerClearCaller, TimerType, MissedType, WireType
<1>2. CASE TimerClearCallee(c)
  <2>1. ActiveType'
    BY <1>2, ClearIfMatchKey, SameKeyTypes DEF TimerClearCallee, Attempt
  <2>2. WireType'
    BY <1>2, PartiesAreUsers, PublishWire DEF TimerClearCallee, WireType
  <2> QED BY <1>0, <1>2, <2>1, <2>2 DEF TimerClearCallee, TimerType, MissedType
<1>3. CASE GrowOld(c)
  <2> DEFINE ringing == {u \in Users : Matches(u, c) /\ ~active[u].old}
  <2>1. active' = [u \in Users |-> [active[u] EXCEPT !.old = @ \/ u \in ringing]]
    BY <1>3 DEF GrowOld
  <2>2. ASSUME NEW u \in Users
        PROVE  /\ active'[u] \in KeyState
               /\ active'[u].call = None => active'[u] = NoState
    <3>1. active[u] \in KeyState
      BY DEF ActiveType
    <3>2. CASE u \in ringing
      <4>1. active[u].call = c /\ c # None
        BY <3>2, NoneIsNone DEF Matches
      <4>2. active'[u] = [active[u] EXCEPT !.old = TRUE]
        BY <2>1, <3>2
      <4> QED BY <3>1, <4>1, <4>2 DEF KeyState
    <3>3. CASE u \notin ringing
      <4>1. active'[u] = [active[u] EXCEPT !.old = active[u].old]
        BY <2>1, <3>1, <3>3 DEF KeyState
      <4>2. active'[u] = active[u]
        BY <3>1, <4>1 DEF KeyState
      <4> QED BY <3>1, <4>2 DEF ActiveType
    <3> QED BY <3>2, <3>3
  <2>3. ActiveType'
    BY <2>1, <2>2 DEF ActiveType
  <2> QED BY <1>0, <1>3, <2>3 DEF GrowOld, TimerType, MissedType, WireType
<1> QED BY <1>1, <1>2, <1>3

LEMMA DeliverEffect ==
  ASSUME Types, NEW m \in wire, Deliver(m)
  PROVE  /\ m \in Message /\ UiType'
         /\ \A v \in Users, d \in Calls :
              /\ ui'[v][d] = "none" => ui[v][d] = "none"
              /\ d # m.call => ui'[v][d] = ui[v][d]
<1>1. m \in Message /\ m.to \in Users /\ m.call \in Calls
  BY DEF Types, WireType, Message
<1> DEFINE seen == ui[m.to][m.call]
           what == CASE m.to \notin online                     -> seen
                     [] m.type = "ring"   /\ seen = "none"     -> "ringing"
                     [] m.type = "accept" /\ seen = "waiting"  -> "talking"
                     [] m.type = "end"    /\ seen # "none"     -> "done"
                     [] OTHER                                  -> seen
<1>2. Show(m.to, m.call, what)
  BY DEF Deliver
<1>3. seen \in Shown
  BY <1>1 DEF Types, UiType
<1>4. what \in Shown /\ (what = "none" => seen = "none")
  BY <1>3 DEF Shown
<1> HIDE DEF what
<1> QED BY <1>1, <1>2, <1>4, ShowUi DEF Types

LEMMA DeliverTypes ==
  ASSUME Types, NEW m \in wire, Deliver(m)
  PROVE  Types'
BY DeliverEffect, SameBounds DEF Types, Deliver, ActiveType, TimerType, HandlerType, HangupType,
                                 ScanType, WireType, MissedType

LEMMA ConnectionTypes ==
  ASSUME Types, NEW u \in Users, Disconnect(u) \/ Connect(u) \/ DeliverPendingCall(u)
  PROVE  Types'
<1> USE DEF Types, ActiveType, TimerType, HandlerType, ScanType, WireType, MissedType
<1>1. CASE Disconnect(u)
  <2>1. UiType'
    BY <1>1, ForgetUi DEF Disconnect
  <2>2. HangupType'
    BY <1>1 DEF Disconnect, HangupType, HangupState
  <2>3. BoundsType'
    BY <1>1, CallBounds DEF Disconnect, CanFail, BoundsType
  <2> QED BY <1>1, <2>1, <2>2, <2>3 DEF Disconnect
<1>2. CASE Connect(u)
  BY <1>2, SameBounds DEF Connect, HangupType, UiType
<1>3. CASE DeliverPendingCall(u)
  <2>0. BoundsType'
    BY <1>3, FailsBounds, SameBounds DEF DeliverPendingCall
  <2>1. CASE UNCHANGED ui
    BY <1>3, <2>0, <2>1 DEF DeliverPendingCall, HangupType, UiType
  <2>2. CASE Show(u, active[u].call, "ringing") /\ active[u].call # None
    <3>1. active[u].call \in Calls /\ "ringing" \in Shown
      BY <2>2 DEF KeyState, Shown
    <3>2. UiType'
      BY <2>2, <3>1, ShowUi
    <3> QED BY <1>3, <2>0, <3>2 DEF DeliverPendingCall, HangupType
  <2> QED BY <1>3, <2>1, <2>2 DEF DeliverPendingCall
<1> QED BY <1>1, <1>2, <1>3

LEMMA HangupCall ==
  ASSUME HangupType, NEW u \in Users, hangup[u].step \in {"clearSelf", "clearPeer"}
  PROVE  hangup[u].call \in Calls /\ hangup[u].call # None
BY DEF HangupType, HangupState

LEMMA HangupEffect ==
  ASSUME Types, NEW u \in Users, Hangup(u)
  PROVE  /\ HangupType'
         /\ \A v \in Users : v # u => hangup'[v] = hangup[v]
         /\ HangupGet(u) => \/ hangup'[u] = NoTask
                            \/ /\ active[u].call \in Calls
                               /\ hangup'[u] = [call |-> active[u].call, step |-> "clearSelf"]
         /\ HangupClearSelf(u) => hangup'[u] = [call |-> hangup[u].call, step |-> "clearPeer"]
         /\ HangupClearPeer(u) => hangup'[u] = NoTask
<1> USE DEF Types
<1>1. CASE HangupGet(u)
  <2>1. active[u].call \in Calls \union {None}
    BY DEF ActiveType, KeyState
  <2>2. \/ hangup' = [hangup EXCEPT ![u] = NoTask]
        \/ /\ active[u].call \in Calls /\ active[u].call # None
           /\ hangup' = [hangup EXCEPT ![u] = [call |-> active[u].call, step |-> "clearSelf"]]
    BY <1>1, <2>1 DEF HangupGet
  <2>3. ~HangupClearSelf(u) /\ ~HangupClearPeer(u)
    BY <1>1 DEF HangupGet, HangupClearSelf, HangupClearPeer
  <2> QED BY <2>2, <2>3 DEF HangupType, HangupState, NoTask
<1>2. CASE HangupClearSelf(u)
  <2>1. hangup[u].call \in Calls /\ hangup[u].call # None /\ hangup[u] \in HangupState
    BY <1>2, HangupCall DEF HangupClearSelf, HangupType
  <2>2. [hangup[u] EXCEPT !.step = "clearPeer"] = [call |-> hangup[u].call, step |-> "clearPeer"]
    BY <2>1 DEF HangupState
  <2>3. hangup' = [hangup EXCEPT ![u] = [hangup[u] EXCEPT !.step = "clearPeer"]]
    BY <1>2 DEF HangupClearSelf
  <2>4. hangup' = [hangup EXCEPT ![u] = [call |-> hangup[u].call, step |-> "clearPeer"]]
    BY <2>2, <2>3
  <2>5. ~HangupGet(u) /\ ~HangupClearPeer(u)
    BY <1>2 DEF HangupGet, HangupClearSelf, HangupClearPeer
  <2> QED BY <2>1, <2>4, <2>5 DEF HangupType, HangupState
<1>3. CASE HangupClearPeer(u)
  <2>1. hangup' = [hangup EXCEPT ![u] = NoTask]
    BY <1>3 DEF HangupClearPeer
  <2>2. ~HangupGet(u) /\ ~HangupClearSelf(u)
    BY <1>3 DEF HangupGet, HangupClearSelf, HangupClearPeer
  <2> QED BY <2>1, <2>2 DEF HangupType, HangupState, NoTask
<1> QED BY <1>1, <1>2, <1>3 DEF Hangup

LEMMA HangupTypes ==
  ASSUME Types, NEW u \in Users, Hangup(u)
  PROVE  Types'
<1> USE DEF Types, HandlerType, ScanType, MissedType, UiType
<1>0. HangupType'
  BY HangupEffect
<1>1. CASE HangupGet(u)
  <2>1. BoundsType'
    BY <1>1, FailsBounds, SameBounds DEF HangupGet
  <2>2. CASE UNCHANGED <<timer, wire>>
    BY <1>0, <1>1, <2>1, <2>2 DEF HangupGet, TimerType, WireType, ActiveType
  <2>3. CASE /\ active[u].call # None /\ CancelTimer(u, active[u].call)
             /\ Publish("end", active[u].call, Peer(u, active[u].call))
    <3>1. active[u].call \in Calls
      BY <2>3 DEF ActiveType, KeyState
    <3>2. TimerType' /\ WireType'
      BY <2>3, <3>1, PartiesAreUsers, CancelTimerEffect, PublishWire
    <3> QED BY <1>0, <1>1, <2>1, <3>2 DEF HangupGet, ActiveType
  <2> QED BY <1>1, <2>2, <2>3 DEF HangupGet
<1>2. CASE HangupClearSelf(u) \/ HangupClearPeer(u)
  <2>1. hangup[u].call \in Calls
    BY <1>2, HangupCall DEF HangupClearSelf, HangupClearPeer
  <2>2. BoundsType'
    BY <1>2, <2>1, FailsBounds, SameBounds DEF HangupClearSelf, HangupClearPeer, Attempt
  <2>3. ActiveType'
    BY <1>2, ClearKey, SameKeyTypes DEF HangupClearSelf, HangupClearPeer, Attempt
  <2> QED BY <1>0, <1>2, <2>2, <2>3 DEF HangupClearSelf, HangupClearPeer, TimerType, WireType
<1> QED BY <1>1, <1>2 DEF Hangup

LEMMA ServerTypes ==
  ASSUME Types, NEW s \in Servers, ScanDel(s) \/ Crash(s) \/ \E u \in Users : ScanGet(s, u)
  PROVE  Types'
<1> USE DEF Types
<1>1. CASE ScanDel(s)
  <2>1. ActiveType' /\ BoundsType'
    BY <1>1, ClearKey, SameKeyTypes, FailsBounds, SameBounds DEF ScanDel
  <2> QED BY <1>1, <2>1 DEF ScanDel, TimerType, HandlerType, HangupType, ScanType, UiType, WireType,
                            MissedType
<1>2. ASSUME NEW u \in Users, ScanGet(s, u) PROVE Types'
  BY <1>2, SameBounds DEF ScanGet, ActiveType, TimerType, HandlerType, HangupType, ScanType, UiType,
                          WireType, MissedType
<1>3. CASE Crash(s)
  <2>1. UiType'
    BY <1>3, ForgetUi DEF Crash
  <2>2. Idle \in HandlerState /\ Idle.call = None /\ Idle.step = "none"
    BY DEF Idle, HandlerState
  <2>3. HandlerType'
    BY <1>3, <2>2 DEF Crash, HandlerType
  <2>4. NoTask \in HangupState /\ NoTask.call = None /\ NoTask.step = "none"
    BY DEF NoTask, HangupState
  <2>5. HangupType'
    BY <1>3, <2>4 DEF Crash, HangupType
  <2>6. TimerType' /\ BoundsType' /\ ScanType'
    BY <1>3, CallBounds DEF Crash, CanFail, TimerType, BoundsType, ScanType
  <2> QED BY <1>3, <2>1, <2>3, <2>5, <2>6 DEF Crash, ActiveType, WireType, MissedType
<1> QED BY <1>1, <1>2, <1>3

LEMMA NextTypes == Types /\ [Next]_vars => Types'
<1> SUFFICES ASSUME Types, [Next]_vars PROVE Types'
  OBVIOUS
<1>1. CASE UNCHANGED vars
  BY <1>1, SameBounds DEF vars, Types, ActiveType, TimerType, HandlerType, HangupType, ScanType,
                          UiType, WireType, MissedType
<1> QED BY <1>1, ClientTypes, HandleTypes, TimerTypes, DeliverTypes, ConnectionTypes, HangupTypes,
           ServerTypes DEF Next

(* Every variable keeps its type: no interleaving of handlers, timers, hang-ups
   and scanners makes a key that names no call but claims one was answered. *)
THEOREM TypeCorrect == Spec => []TypeOK
BY InitTypes, NextTypes, TypesTypeOK, PTL DEF Spec

-----------------------------------------------------------------------------
(* Keys.  Every step but a ring whose script runs leaves a key as it is, marks its call
   answered, or frees it. *)

KeyKept(u) == \/ active'[u].call = None
              \/ /\ active'[u].call = active[u].call
                 /\ active[u].answered => active'[u].answered

Rings(u) == /\ RingSetPair(u) /\ SetPair(handler[u].call)
            /\ ~Busy(u) /\ ~Busy(CalleeOf[handler[u].call])

LEMMA ClearKeeps ==
  ASSUME ActiveType, NEW v, Clear(v)
  PROVE  \A u \in Users : KeyKept(u)
BY ClearKey, KeyStates DEF KeyKept

LEMMA SameKeys == UNCHANGED active => \A u \in Users : KeyKept(u)
BY DEF KeyKept

LEMMA MarkAnsweredKeeps ==
  ASSUME ActiveType, NEW v, MarkAnswered(v)
  PROVE  \A u \in Users : KeyKept(u)
<1> SUFFICES ASSUME NEW u \in Users PROVE KeyKept(u)
  OBVIOUS
<1>1. active'[u].call = active[u].call /\ (u # v => active'[u] = active[u])
  BY MarkAnsweredKey
<1>2. u = v /\ Busy(u) => active'[u].answered
  BY MarkAnsweredKey
<1>3. ~Busy(u) => active'[u].call = None
  BY <1>1 DEF Busy
<1> QED BY <1>1, <1>2, <1>3 DEF KeyKept

LEMMA GrowOldKeeps ==
  ASSUME ActiveType, NEW c \in Calls, GrowOld(c)
  PROVE  \A u \in Users : KeyKept(u)
<1> SUFFICES ASSUME NEW u \in Users PROVE KeyKept(u)
  OBVIOUS
<1>1. active[u] \in KeyState
  BY DEF ActiveType
<1>2. PICK old : active'[u] = [active[u] EXCEPT !.old = old]
  BY DEF GrowOld
<1>3. active'[u].call = active[u].call /\ active'[u].answered = active[u].answered
  BY <1>1, <1>2 DEF KeyState
<1> QED BY <1>3 DEF KeyKept

LEMMA NextKeys ==
  ASSUME Types, Next
  PROVE  (\A u \in Users : KeyKept(u)) \/ \E u \in Users : Rings(u)
<1>0. ActiveType
  BY DEF Types
<1>1. ASSUME NEW c \in Calls,
             SendRing(c) \/ SendAccept(c) \/ GrowOld(c) \/ TimerClearCaller(c) \/ TimerClearCallee(c)
      PROVE  \A u \in Users : KeyKept(u)
  <2>1. CASE SendRing(c) \/ SendAccept(c)
    BY <2>1, SameKeys DEF SendRing, SendAccept
  <2>2. CASE GrowOld(c)
    BY <1>0, <2>2, GrowOldKeeps
  <2>3. CASE TimerClearCaller(c)
    BY <1>0, <2>3, ClearIfMatchKey, KeyStates, SameKeys DEF TimerClearCaller, KeyKept
  <2>4. CASE TimerClearCallee(c)
    BY <1>0, <2>4, ClearIfMatchKey, KeyStates, SameKeys DEF TimerClearCallee, Attempt, KeyKept
  <2> QED BY <1>1, <2>1, <2>2, <2>3, <2>4
<1>2. ASSUME NEW u \in Users, NEW c \in Calls, SendEnd(u, c) PROVE \A v \in Users : KeyKept(v)
  BY <1>2, SameKeys DEF SendEnd
<1>3. ASSUME NEW u \in Users, Handle(u), ~Rings(u) PROVE \A v \in Users : KeyKept(v)
  <2>1. CASE RingSetPair(u) \/ RingStartTimer(u)
    BY <1>3, <2>1, SameKeys DEF Rings, RingSetPair, RingStartTimer
  <2>2. CASE RingMissSelf(u) \/ RingMissPeer(u) \/ EndClearSelf(u) \/ EndClearPeer(u)
    BY <1>0, <2>2, ClearKeeps, SameKeys DEF RingMissSelf, RingMissPeer, EndClearSelf, EndClearPeer,
                                            Attempt
  <2>3. CASE AcceptMarkSelf(u) \/ AcceptMarkPeer(u)
    BY <1>0, <2>3, MarkAnsweredKeeps, SameKeys DEF AcceptMarkSelf, AcceptMarkPeer, Attempt
  <2> QED BY <1>3, <2>1, <2>2, <2>3 DEF Handle
<1>4. ASSUME NEW u \in Users, Disconnect(u) \/ Connect(u) \/ DeliverPendingCall(u)
      PROVE  \A v \in Users : KeyKept(v)
  BY <1>4, SameKeys DEF Disconnect, Connect, DeliverPendingCall
<1>5. ASSUME NEW u \in Users, Hangup(u) PROVE \A v \in Users : KeyKept(v)
  BY <1>0, <1>5, ClearKeeps, SameKeys DEF Hangup, HangupGet, HangupClearSelf, HangupClearPeer,
                                          Attempt
<1>6. ASSUME NEW m \in wire, Deliver(m) PROVE \A v \in Users : KeyKept(v)
  BY <1>6, SameKeys DEF Deliver
<1>7. ASSUME NEW s \in Servers, ScanDel(s) \/ Crash(s) \/ \E u \in Users : ScanGet(s, u)
      PROVE  \A v \in Users : KeyKept(v)
  BY <1>0, <1>7, ClearKeeps, SameKeys DEF ScanDel, Crash, ScanGet
<1> QED BY <1>1, <1>2, <1>3, <1>4, <1>5, <1>6, <1>7 DEF Next

LEMMA RingKeys ==
  ASSUME Types, HandlerOfParty, NEW u \in Users, Rings(u)
  PROVE  LET c == handler[u].call IN
         /\ c \in Calls /\ u = CallerOf[c]
         /\ \A v \in Users : active'[v] = IF v \in Parties(c) THEN Ringing(c) ELSE active[v]
         /\ \A v \in Parties(c) : ~Busy(v)
<1> DEFINE c == handler[u].call
<1>1. handler[u].step = "pair"
  BY DEF Rings, RingSetPair
<1>2. c \in Calls /\ c # None
  BY <1>1, HandlerCall DEF Types
<1>3. u = CallerOf[c]
  BY <1>1, <1>2 DEF HandlerOfParty, Ringer
<1>4. SetPair(c)
  BY DEF Rings
<1>5. \A v \in Users : active'[v] = IF v \in Parties(c) THEN Ringing(c) ELSE active[v]
  BY <1>2, <1>4, SetPairKeys DEF Types
<1> QED BY <1>2, <1>3, <1>5 DEF Rings, Parties

-----------------------------------------------------------------------------
(* What the steps do to handlers and to what clients show *)

OnlyHandler(u) == \A v \in Users : v # u => handler'[v] = handler[v]
OnlyShows(u, c) == \A v \in Users, d \in Calls : v # u \/ d # c => ui'[v][d] = ui[v][d]

LEMMA SendRingEffect ==
  ASSUME Types, NEW c \in Calls, SendRing(c)
  PROVE  LET u == CallerOf[c] IN
         /\ u \in Users /\ handler[u] = Idle /\ ui[u][c] = "none"
         /\ OnlyHandler(u) /\ OnlyShows(u, c)
         /\ ui'[u][c] # "none"
         /\ handler'[u] = Idle \/ (handler'[u].call = c /\ handler'[u].step = "pair")
<1> DEFINE u == CallerOf[c]
<1>1. u \in Users /\ handler[u] = Idle /\ ui[u][c] = "none"
  BY PartiesAreUsers DEF SendRing, Free
<1>2. {"waiting", "done"} \subseteq Shown
      /\ [op |-> "ring", call |-> c, step |-> "pair"] \in HandlerState
  BY DEF Shown, HandlerState
<1>3. CASE UNCHANGED handler /\ Show(u, c, "done")
  <2>1. ui'[u][c] = "done" /\ OnlyShows(u, c)
    BY <1>1, <1>2, <1>3, ShowUi DEF Types, OnlyShows
  <2> QED BY <1>1, <1>3, <2>1 DEF OnlyHandler
<1>4. CASE Start(u, "ring", c, "pair") /\ Show(u, c, "waiting")
  <2>1. ui'[u][c] = "waiting" /\ OnlyShows(u, c)
    BY <1>1, <1>2, <1>4, ShowUi DEF Types, OnlyShows
  <2>2. handler'[u].call = c /\ handler'[u].step = "pair" /\ OnlyHandler(u)
    BY <1>1, <1>2, <1>4, StartHandler DEF Types, OnlyHandler
  <2> QED BY <1>1, <2>1, <2>2
<1> QED BY <1>3, <1>4 DEF SendRing

LEMMA SendAcceptEffect ==
  ASSUME Types, NEW c \in Calls, SendAccept(c)
  PROVE  LET u == CalleeOf[c] IN
         /\ u \in Users /\ handler[u] = Idle /\ ui[u][c] = "ringing"
         /\ OnlyHandler(u) /\ OnlyShows(u, c)
         /\ ui'[u][c] # "none"
         /\ handler'[u].call = c /\ handler'[u].step = "markSelf"
<1> DEFINE u == CalleeOf[c]
<1>1. u \in Users /\ handler[u] = Idle /\ ui[u][c] = "ringing"
  BY PartiesAreUsers DEF SendAccept, Free
<1>2. "talking" \in Shown /\ [op |-> "accept", call |-> c, step |-> "markSelf"] \in HandlerState
  BY DEF Shown, HandlerState
<1>3. ui'[u][c] = "talking" /\ OnlyShows(u, c)
  BY <1>1, <1>2, ShowUi DEF SendAccept, Types, OnlyShows
<1>4. handler'[u].call = c /\ handler'[u].step = "markSelf" /\ OnlyHandler(u)
  BY <1>1, <1>2, StartHandler DEF SendAccept, Types, OnlyHandler
<1> QED BY <1>1, <1>3, <1>4

LEMMA SendEndEffect ==
  ASSUME Types, NEW u \in Users, NEW c \in Calls, SendEnd(u, c)
  PROVE  /\ u \in Parties(c) /\ handler[u] = Idle /\ ui[u][c] # "none"
         /\ OnlyHandler(u) /\ OnlyShows(u, c)
         /\ ui'[u][c] # "none"
         /\ handler'[u].call = c /\ handler'[u].step = "clearSelf"
<1>1. u \in Parties(c) /\ handler[u] = Idle /\ ui[u][c] # "none"
  BY DEF SendEnd, Free
<1>2. "done" \in Shown /\ [op |-> "clear", call |-> c, step |-> "clearSelf"] \in HandlerState
  BY DEF Shown, HandlerState
<1>3. ui'[u][c] = "done" /\ OnlyShows(u, c)
  BY <1>2, ShowUi DEF SendEnd, Types, OnlyShows
<1>4. handler'[u].call = c /\ handler'[u].step = "clearSelf" /\ OnlyHandler(u)
  BY <1>2, StartHandler DEF SendEnd, Types, OnlyHandler
<1> QED BY <1>1, <1>3, <1>4

(* A handler goes from a step to the next, or returns. *)
NextStep(before, after) ==
  <<before, after>> \in {<<"pair", "presence">>, <<"presence", "missSelf">>,
                         <<"missSelf", "missPeer">>, <<"markSelf", "markPeer">>,
                         <<"clearSelf", "clearPeer">>}

LEMMA HandleEffect ==
  ASSUME Types, NEW u \in Users, Handle(u)
  PROVE  /\ handler[u].call \in Calls /\ handler[u].step # "none"
         /\ OnlyHandler(u)
         /\ \/ handler'[u] = Idle
            \/ /\ handler'[u].call = handler[u].call
               /\ NextStep(handler[u].step, handler'[u].step)
         /\ UNCHANGED ui \/ (OnlyShows(u, handler[u].call) /\ ui'[u][handler[u].call] # "none")
         /\ ~UNCHANGED ui => handler[u].step \in Ringer
<1> USE DEF Types
<1> DEFINE c == handler[u].call
<1>0. handler[u].step # "none"
  BY DEF Handle, RingSetPair, RingStartTimer, RingMissSelf, RingMissPeer, AcceptMarkSelf,
         AcceptMarkPeer, EndClearSelf, EndClearPeer
<1>a. c \in Calls /\ handler[u] # Idle
  BY <1>0, HandlerCall
<1>1. /\ UNCHANGED ui \/ Show(u, c, "done")
      /\ ~UNCHANGED ui => handler[u].step \in {"pair", "missPeer"}
  BY DEF Handle, RingSetPair, RingStartTimer, RingMissSelf, RingMissPeer, AcceptMarkSelf,
         AcceptMarkPeer, EndClearSelf, EndClearPeer
<1>2. UNCHANGED ui \/ (OnlyShows(u, c) /\ ui'[u][c] # "none")
  <2>1. "done" \in Shown
    BY DEF Shown
  <2>2. Show(u, c, "done") => OnlyShows(u, c) /\ ui'[u][c] # "none"
    BY <1>a, <2>1, ShowUi DEF OnlyShows
  <2> QED BY <1>1, <2>2
<1>3. \/ Return(u)
      \/ \E step \in {"presence", "markPeer", "clearPeer", "missSelf", "missPeer"} :
            Step(u, step) /\ NextStep(handler[u].step, step)
  BY DEF Handle, RingSetPair, RingStartTimer, RingMissSelf, RingMissPeer, AcceptMarkSelf,
         AcceptMarkPeer, EndClearSelf, EndClearPeer, NextStep
<1>4. CASE Return(u)
  BY <1>0, <1>a, <1>1, <1>2, <1>4, ReturnHandler DEF OnlyHandler, Ringer
<1>5. ASSUME NEW step \in {"presence", "markPeer", "clearPeer", "missSelf", "missPeer"},
             Step(u, step), NextStep(handler[u].step, step)
      PROVE  /\ OnlyHandler(u) /\ handler'[u].call = c
             /\ NextStep(handler[u].step, handler'[u].step)
  BY <1>a, <1>5, StepHandler DEF OnlyHandler
<1> QED BY <1>0, <1>a, <1>1, <1>2, <1>3, <1>4, <1>5 DEF Ringer

(* The remaining steps begin no handler. *)
LEMMA OtherHandlers ==
  ASSUME Types,
         \/ \E c \in Calls : GrowOld(c) \/ TimerClearCaller(c) \/ TimerClearCallee(c)
         \/ \E u \in Users : Disconnect(u) \/ Connect(u) \/ DeliverPendingCall(u) \/ Hangup(u)
         \/ \E m \in wire : Deliver(m)
         \/ \E s \in Servers : ScanDel(s) \/ Crash(s)
         \/ \E s \in Servers, u \in Users : ScanGet(s, u)
  PROVE  \A u \in Users : handler'[u] \in {handler[u], Idle}
BY DEF GrowOld, TimerClearCaller, TimerClearCallee, Disconnect, Connect, DeliverPendingCall, Hangup,
       HangupGet, HangupClearSelf, HangupClearPeer, Deliver, ScanDel, Crash, ScanGet

LEMMA OtherShows ==
  ASSUME Types,
         \/ \E c \in Calls : GrowOld(c) \/ TimerClearCaller(c) \/ TimerClearCallee(c)
         \/ \E u \in Users : Disconnect(u) \/ Connect(u) \/ Hangup(u)
         \/ \E s \in Servers : ScanDel(s) \/ Crash(s)
         \/ \E s \in Servers, u \in Users : ScanGet(s, u)
  PROVE  \A u \in Users, c \in Calls : ui'[u][c] = "none" <=> ui[u][c] = "none"
<1>1. UNCHANGED ui \/ \E us : Forget(us)
  BY DEF GrowOld, TimerClearCaller, TimerClearCallee, Disconnect, Connect, Hangup,
         HangupGet, HangupClearSelf, HangupClearPeer, ScanDel, Crash, ScanGet
<1> QED BY <1>1, ForgetUi DEF Types

-----------------------------------------------------------------------------
(* Handlers, keys and hang-ups are about the user's own calls. *)

Others == \/ \E c \in Calls : GrowOld(c) \/ TimerClearCaller(c) \/ TimerClearCallee(c)
          \/ \E u \in Users : Disconnect(u) \/ Connect(u) \/ DeliverPendingCall(u) \/ Hangup(u)
          \/ \E m \in wire : Deliver(m)
          \/ \E s \in Servers : ScanDel(s) \/ Crash(s)
          \/ \E s \in Servers, u \in Users : ScanGet(s, u)

LEMMA NextActions ==
  Next <=> \/ \E c \in Calls : SendRing(c) \/ SendAccept(c)
           \/ \E u \in Users, c \in Calls : SendEnd(u, c)
           \/ \E u \in Users : Handle(u)
           \/ Others
BY DEF Next, Others

LEMMA NextHandlerOfParty ==
  ASSUME Types, HandlerOfParty, Next
  PROVE  HandlerOfParty'
<1> USE DEF HandlerOfParty, OnlyHandler, Ringer
<1>0. Idle.call = None /\ \A c \in Calls : CallerOf[c] \in Parties(c) /\ CalleeOf[c] \in Parties(c)
  BY DEF Idle, Parties
<1>1. ASSUME NEW c \in Calls, SendRing(c) PROVE HandlerOfParty'
  BY <1>0, <1>1, SendRingEffect
<1>2. ASSUME NEW c \in Calls, SendAccept(c) PROVE HandlerOfParty'
  BY <1>0, <1>2, SendAcceptEffect
<1>3. ASSUME NEW u \in Users, NEW c \in Calls, SendEnd(u, c) PROVE HandlerOfParty'
  BY <1>0, <1>3, SendEndEffect
<1>4. ASSUME NEW u \in Users, Handle(u) PROVE HandlerOfParty'
  BY <1>0, <1>4, HandleEffect DEF NextStep
<1>5. CASE Others
  BY <1>0, <1>5, OtherHandlers DEF Others
<1> QED BY <1>1, <1>2, <1>3, <1>4, <1>5, NextActions

LEMMA NextKeyOfParty ==
  ASSUME Types, HandlerOfParty, KeyOfParty, Next
  PROVE  KeyOfParty'
<1>1. CASE \A u \in Users : KeyKept(u)
  BY <1>1 DEF KeyKept, KeyOfParty, Busy
<1>2. ASSUME NEW u \in Users, Rings(u) PROVE KeyOfParty'
  BY <1>2, RingKeys, KeyStates DEF KeyOfParty, Busy
<1> QED BY <1>1, <1>2, NextKeys

(* hang-ups: a step touches at most one of them, but for a crash *)
LEMMA HangupMoves ==
  ASSUME Types, NEW u \in Users, Hangup(u)
  PROVE  /\ \A v \in Users : v # u => hangup'[v] = hangup[v]
         /\ \/ hangup'[u].call \in {None, hangup[u].call}
            \/ active[u].call \in Calls /\ hangup'[u].call = active[u].call
<1>0. NoTask.call = None
  BY DEF NoTask
<1>1. \A v \in Users : v # u => hangup'[v] = hangup[v]
  BY HangupEffect
<1>2. CASE HangupGet(u)
  <2>1. \/ hangup'[u] = NoTask
        \/ /\ active[u].call \in Calls
           /\ hangup'[u] = [call |-> active[u].call, step |-> "clearSelf"]
    BY <1>2, HangupEffect
  <2> QED BY <1>0, <1>1, <2>1
<1>3. CASE HangupClearSelf(u)
  <2>1. hangup'[u] = [call |-> hangup[u].call, step |-> "clearPeer"]
    BY <1>3, HangupEffect
  <2> QED BY <1>1, <2>1
<1>4. CASE HangupClearPeer(u)
  BY <1>0, <1>1, <1>4, HangupEffect
<1> QED BY <1>2, <1>3, <1>4 DEF Hangup

LEMMA OtherHangups ==
  ASSUME Types, Next, \A u \in Users : ~Hangup(u)
  PROVE  \A u \in Users : hangup'[u] = hangup[u] \/ hangup'[u].call = None
<1> USE DEF Types, HangupType
<1>1. CASE UNCHANGED hangup
  BY <1>1
<1>2. ASSUME NEW u \in Users, Disconnect(u)
      PROVE  \A v \in Users : hangup'[v] = hangup[v] \/ hangup'[v].call = None
  BY <1>2 DEF Disconnect
<1>3. ASSUME NEW s \in Servers, Crash(s)
      PROVE  \A v \in Users : hangup'[v] = hangup[v] \/ hangup'[v].call = None
  BY <1>3 DEF Crash, NoTask
<1>4. UNCHANGED hangup \/ (\E u \in Users : Disconnect(u)) \/ (\E s \in Servers : Crash(s))
  <2>1. ASSUME NEW u \in Users, Handle(u) PROVE UNCHANGED hangup
    BY <2>1 DEF Handle, RingSetPair, RingStartTimer, RingMissSelf, RingMissPeer, AcceptMarkSelf,
                AcceptMarkPeer, EndClearSelf, EndClearPeer
  <2> QED BY <2>1 DEF Next, SendRing, SendAccept, SendEnd, GrowOld, TimerClearCaller,
                      TimerClearCallee, Connect, DeliverPendingCall, Deliver, ScanDel, ScanGet
<1> QED BY <1>1, <1>2, <1>3, <1>4

LEMMA NextHangupOfParty ==
  ASSUME Types, KeyOfParty, HangupOfParty, Next
  PROVE  HangupOfParty'
<1>1. ASSUME NEW u \in Users, Hangup(u) PROVE HangupOfParty'
  <2>1. active[u].call \in Calls => u \in Parties(active[u].call)
    BY NoneIsNone DEF KeyOfParty, Busy
  <2>2. hangup'[u].call # None => u \in Parties(hangup'[u].call)
    BY <1>1, <2>1, HangupMoves DEF HangupOfParty
  <2> QED BY <1>1, <2>2, HangupMoves DEF HangupOfParty
<1>2. CASE \A u \in Users : ~Hangup(u)
  BY <1>2, OtherHangups DEF HangupOfParty
<1> QED BY <1>1, <1>2

LEMMA InitOfParties == Init => OfParties
BY DEF Init, OfParties, HandlerOfParty, KeyOfParty, HangupOfParty, Busy, Idle, NoState, NoTask

LEMMA NextOfParties == Types /\ OfParties /\ [Next]_vars => OfParties'
<1> SUFFICES ASSUME Types, OfParties, [Next]_vars PROVE OfParties'
  OBVIOUS
<1>1. CASE UNCHANGED vars
  BY <1>1 DEF vars, OfParties, HandlerOfParty, KeyOfParty, HangupOfParty, Busy
<1>2. CASE Next
  BY <1>2, NextHandlerOfParty, NextKeyOfParty, NextHangupOfParty DEF OfParties
<1> QED BY <1>1, <1>2

-----------------------------------------------------------------------------
(* A key is never overwritten. *)

LEMMA RingKeepsKeys ==
  ASSUME Types, OfParties, [Next]_vars, NEW u \in Users, Busy(u), Busy(u)'
  PROVE  active'[u].call = active[u].call
<1>1. CASE UNCHANGED vars
  BY <1>1 DEF vars
<1>2. CASE \A v \in Users : KeyKept(v)
  BY <1>2 DEF KeyKept, Busy
<1>3. ASSUME NEW v \in Users, Rings(v) PROVE active'[u].call = active[u].call
  BY <1>3, RingKeys DEF OfParties
<1> QED BY <1>1, <1>2, <1>3, NextKeys

(* A ring goes through only when both keys are free, whatever rings, accepts,
   hang-ups, timers and scanners run at once: a user in a call stays in that
   call until the key is freed. *)
THEOREM RingsNeverOverwrite == Spec => RingNeverOverwrites
<1>1. Init => Types /\ OfParties
  BY InitTypes, InitOfParties
<1>2. Types /\ OfParties /\ [Next]_vars => (Types /\ OfParties)'
  BY NextTypes, NextOfParties
<1>3. Types /\ OfParties /\ [Next]_vars
        => [\A u \in Users : Busy(u) /\ Busy(u)' => active'[u].call = active[u].call]_vars
  BY RingKeepsKeys
<1> QED BY <1>1, <1>2, <1>3, PTL DEF Spec, RingNeverOverwrites

-----------------------------------------------------------------------------
(* A call is rung once.  Until its ring has gone through, the call is known to
   nothing but the handler that rings it. *)

AtPair(u, c) == handler[u].call = c /\ handler[u].step = "pair"
NotYet(c)    == ui[CallerOf[c]][c] = "none" \/ AtPair(CallerOf[c], c)

Unheard(c) ==
  /\ \A u \in Users : /\ active[u].call # c
                      /\ hangup[u].call # c
                      /\ handler[u].call = c => AtPair(u, c) /\ u = CallerOf[c]
  /\ timer[c] = "off"
  /\ \A m \in wire : m.call # c
  /\ c \notin missed
  /\ ui[CalleeOf[c]][c] = "none"
  /\ ui[CallerOf[c]][c] = "none" => handler[CallerOf[c]].call # c

Fresh == \A c \in Calls : NotYet(c) => Unheard(c)

LEMMA InitFresh == Init => Fresh
<1> SUFFICES ASSUME Init, NEW c \in Calls PROVE Unheard(c)
  BY DEF Fresh
<1> QED BY NoneIsNone, PartiesAreUsers DEF Init, Unheard, NoState, NoTask, Idle

LEMMA UnheardRing ==
  ASSUME Types, NEW c \in Calls, NotYet(c)', Unheard(c), NEW d \in Calls,
         SendRing(d) \/ SendAccept(d) \/ \E u \in Users : SendEnd(u, d)
  PROVE  Unheard(c)'
<1> USE DEF Unheard, OnlyHandler, OnlyShows, AtPair
<1>0. /\ CallerOf[c] \in Users /\ CalleeOf[c] \in Users /\ CallerOf[c] # CalleeOf[c]
      /\ Idle.call = None /\ c # None /\ Parties(d) = {CallerOf[d], CalleeOf[d]}
  BY PartiesAreUsers, NoneIsNone DEF Idle, Parties
<1>1. CASE SendRing(d)
  <2>1. UNCHANGED <<active, timer, hangup, wire, missed>>
    BY <1>1 DEF SendRing
  <2> QED BY <1>0, <1>1, <2>1, SendRingEffect
<1>2. CASE SendAccept(d)
  <2>1. UNCHANGED <<active, hangup, wire, missed>> /\ CancelTimer(CalleeOf[d], d)
    BY <1>2 DEF SendAccept
  <2>2. timer'[c] = "off"
    BY <2>1, CancelTimerEffect DEF Types
  <2>3. d # c
    BY <1>0, <1>2, SendAcceptEffect
  <2> QED BY <1>0, <1>2, <2>1, <2>2, <2>3, SendAcceptEffect
<1>3. ASSUME NEW u \in Users, SendEnd(u, d) PROVE Unheard(c)'
  <2>1. UNCHANGED <<active, hangup, wire, missed>> /\ CancelTimer(u, d)
    BY <1>3 DEF SendEnd
  <2>2. timer'[c] = "off"
    BY <2>1, CancelTimerEffect DEF Types
  <2>3. d # c
    <3>1. ASSUME d = c PROVE FALSE
      <4>1. handler[u] = Idle /\ ui[u][c] # "none" /\ u \in Parties(c)
        BY <1>3, <3>1, SendEndEffect
      <4>2. u = CallerOf[c]
        BY <1>0, <3>1, <4>1
      <4>3. ui'[u][c] # "none" /\ handler'[u].step = "clearSelf"
        BY <1>3, <3>1, SendEndEffect
      <4> QED BY <4>2, <4>3 DEF NotYet
    <3> QED BY <3>1
  <2> QED BY <1>0, <1>3, <2>1, <2>2, <2>3, SendEndEffect
<1> QED BY <1>1, <1>2, <1>3

(* A handler that leaves the step "pair" has rung its call. *)
LEMMA PairRings ==
  ASSUME Types, NEW c \in Calls, Unheard(c), NEW u \in Users, Handle(u), handler[u].call = c
  PROVE  ~NotYet(c)'
<1> USE DEF AtPair
<1>1. handler[u].step = "pair" /\ u = CallerOf[c] /\ ui[u][c] # "none"
  BY DEF Unheard
<1>2. handler'[u] = Idle \/ handler'[u].step = "presence"
  BY <1>1, HandleEffect DEF NextStep
<1>3. ui'[u][c] # "none"
  BY <1>1, HandleEffect
<1>4. Idle.step # "pair"
  BY DEF Idle
<1> QED BY <1>1, <1>2, <1>3, <1>4 DEF NotYet

LEMMA UnheardKeys ==
  ASSUME Types, OfParties, NEW c \in Calls, NotYet(c)', Unheard(c), Next
  PROVE  \A v \in Users : active'[v].call # c
<1>0. c # None
  BY NoneIsNone
<1>1. CASE \A v \in Users : KeyKept(v)
  BY <1>0, <1>1 DEF KeyKept, Unheard
<1>2. ASSUME NEW u \in Users, Rings(u) PROVE \A v \in Users : active'[v].call # c
  <2>1. Handle(u)
    BY <1>2 DEF Rings, Handle
  <2>2. handler[u].call # c
    BY <2>1, PairRings
  <2> QED BY <1>2, <2>2, RingKeys, KeyStates DEF OfParties, Unheard
<1> QED BY <1>1, <1>2, NextKeys

LEMMA UnheardHandle ==
  ASSUME Types, OfParties, NEW c \in Calls, NotYet(c)', Unheard(c),
         NEW u \in Users, Handle(u)
  PROVE  Unheard(c)'
<1> USE DEF Unheard, OnlyHandler, OnlyShows, AtPair
<1> DEFINE d == handler[u].call
<1>0. /\ CallerOf[c] \in Users /\ CalleeOf[c] \in Users /\ CallerOf[c] # CalleeOf[c]
      /\ Idle.call = None /\ c # None
  BY PartiesAreUsers, NoneIsNone DEF Idle
<1>1. d \in Calls /\ UNCHANGED <<hangup, missed>>
  BY HandleEffect DEF Handle, RingSetPair, RingStartTimer, RingMissSelf, RingMissPeer,
         AcceptMarkSelf, AcceptMarkPeer, EndClearSelf, EndClearPeer
<1>2. d # c
  BY PairRings
<1>3. timer'[c] = timer[c]
  <2>1. UNCHANGED timer \/ timer' = [timer EXCEPT ![d] = "armed"]
    BY DEF Handle, RingSetPair, RingStartTimer, RingMissSelf, RingMissPeer,
         AcceptMarkSelf, AcceptMarkPeer, EndClearSelf, EndClearPeer
  <2> QED BY <1>2, <2>1 DEF Types, TimerType
<1>4. \A m \in wire' : m \in wire \/ m.call = d
  BY DEF Handle, RingSetPair, RingStartTimer, RingMissSelf, RingMissPeer,
       AcceptMarkSelf, AcceptMarkPeer, EndClearSelf, EndClearPeer, Publish
<1>5. \A v \in Users : active'[v].call # c
  BY UnheardKeys DEF Next
<1>6. \A v \in Users : ui'[v][c] = ui[v][c]
  BY <1>2, HandleEffect
<1>7. \A v \in Users : handler'[v].call = c => handler'[v] = handler[v]
  BY <1>0, <1>2, HandleEffect
<1> QED BY <1>0, <1>1, <1>2, <1>3, <1>4, <1>5, <1>6, <1>7

LEMMA UnheardOthers ==
  ASSUME Types, OfParties, NEW c \in Calls, NotYet(c)', Unheard(c), Others
  PROVE  Unheard(c)'
<1>0. /\ CallerOf[c] \in Users /\ CalleeOf[c] \in Users
      /\ Idle.call = None /\ NoTask.call = None /\ c # None
  BY PartiesAreUsers, NoneIsNone DEF Idle, NoTask
<1>1. \A v \in Users : active'[v].call # c
  BY UnheardKeys, NextActions
<1>2. \A v \in Users : handler'[v] \in {handler[v], Idle}
  BY OtherHandlers DEF Others
<1>3. /\ ui'[CalleeOf[c]][c] = "none"
      /\ ui'[CallerOf[c]][c] = "none" => ui[CallerOf[c]][c] = "none"
  <2>1. CASE \E m \in wire : Deliver(m)
    BY <1>0, <2>1, DeliverEffect DEF Unheard
  <2>2. ASSUME NEW u \in Users, DeliverPendingCall(u)
        PROVE  \A v \in Users : ui'[v][c] = ui[v][c]
    <3>1. CASE UNCHANGED ui
      BY <3>1
    <3>2. CASE Show(u, active[u].call, "ringing") /\ active[u].call # None
      <4>1. active[u].call \in Calls /\ "ringing" \in Shown
        BY <3>2 DEF Types, ActiveType, KeyState, Shown
      <4>2. active[u].call # c
        BY DEF Unheard
      <4> QED BY <3>2, <4>1, <4>2, ShowUi DEF Types
    <3> QED BY <2>2, <3>1, <3>2 DEF DeliverPendingCall
  <2>3. CASE ~\E u \in Users : DeliverPendingCall(u)
    BY <1>0, <2>1, <2>3, OtherShows DEF Others, Unheard
  <2> QED BY <1>0, <2>1, <2>2, <2>3 DEF Unheard
<1>4. timer'[c] = "off"
  <2>1. ASSUME NEW d \in Calls, TimerClearCaller(d) \/ TimerClearCallee(d) PROVE timer'[c] = timer[c]
    BY <2>1 DEF TimerClearCaller, TimerClearCallee, Unheard, Types, TimerType
  <2>2. ASSUME NEW u \in Users, HangupGet(u) PROVE timer'[c] \in {timer[c], "off"}
    <3>1. CASE UNCHANGED timer
      BY <3>1
    <3>2. CASE active[u].call # None /\ CancelTimer(u, active[u].call)
      <4>1. active[u].call \in Calls
        BY <3>2 DEF Types, ActiveType, KeyState
      <4> QED BY <3>2, <4>1, CancelTimerEffect DEF Types
    <3> QED BY <2>2, <3>1, <3>2 DEF HangupGet
  <2>3. ASSUME NEW s \in Servers, Crash(s) PROVE timer'[c] \in {timer[c], "off"}
    BY <2>3 DEF Crash
  <2>4. \/ UNCHANGED timer
        \/ \E d \in Calls : TimerClearCaller(d) \/ TimerClearCallee(d)
        \/ \E u \in Users : HangupGet(u)
        \/ \E s \in Servers : Crash(s)
    BY DEF Others, GrowOld, Disconnect, Connect, DeliverPendingCall, Hangup, HangupClearSelf,
           HangupClearPeer, Deliver, ScanDel, ScanGet
  <2> QED BY <2>1, <2>2, <2>3, <2>4 DEF Unheard
<1>5. \A m \in wire' : m.call # c
  <2>1. ASSUME NEW d \in Calls, TimerClearCallee(d) PROVE \A m \in wire' : m \in wire \/ m.call = d
    BY <2>1 DEF TimerClearCallee, Publish
  <2>2. ASSUME NEW d \in Calls, TimerClearCallee(d) PROVE d # c
    BY <2>2 DEF TimerClearCallee, Unheard
  <2>3. ASSUME NEW u \in Users, HangupGet(u)
        PROVE  \A m \in wire' : m \in wire \/ m.call = active[u].call
    BY <2>3 DEF HangupGet, Publish
  <2>4. \/ wire' \subseteq wire
        \/ \E d \in Calls : TimerClearCallee(d)
        \/ \E u \in Users : HangupGet(u)
    BY DEF Others, GrowOld, TimerClearCaller, Disconnect, Connect, DeliverPendingCall, Hangup,
           HangupClearSelf, HangupClearPeer, Deliver, ScanDel, ScanGet, Crash
  <2> QED BY <2>1, <2>2, <2>3, <2>4 DEF Unheard
<1>6. c \notin missed'
  <2>1. ASSUME NEW d \in Calls, TimerClearCaller(d) PROVE d # c /\ missed' \subseteq missed \union {d}
    BY <2>1 DEF TimerClearCaller, Unheard
  <2>2. UNCHANGED missed \/ \E d \in Calls : TimerClearCaller(d)
    BY DEF Others, GrowOld, TimerClearCallee, Disconnect, Connect, DeliverPendingCall, Hangup,
           HangupGet, HangupClearSelf, HangupClearPeer, Deliver, ScanDel, ScanGet, Crash
  <2> QED BY <2>1, <2>2 DEF Unheard
<1>7. \A v \in Users : hangup'[v].call # c
  <2>1. ASSUME NEW u \in Users, Hangup(u) PROVE \A v \in Users : hangup'[v].call # c
    BY <1>0, <2>1, HangupMoves DEF Unheard
  <2>2. CASE \A u \in Users : ~Hangup(u)
    BY <1>0, <2>2, NextActions, OtherHangups DEF Unheard
  <2> QED BY <1>0, <2>1, <2>2 DEF Unheard
<1>8. \A v \in Users : handler'[v].call = c => handler'[v] = handler[v]
  BY <1>0, <1>2
<1> QED BY <1>0, <1>1, <1>3, <1>4, <1>5, <1>6, <1>7, <1>8 DEF Unheard, AtPair

(* What is rung stays rung. *)
LEMMA NotYetBefore ==
  ASSUME Types, NEW c \in Calls, NotYet(c)', Next
  PROVE  NotYet(c)
<1> USE DEF NotYet, AtPair, OnlyHandler, OnlyShows
<1>0. CallerOf[c] \in Users /\ Idle.step = "none"
  BY PartiesAreUsers DEF Idle
<1>1. ASSUME NEW d \in Calls, SendRing(d) PROVE NotYet(c)
  BY <1>0, <1>1, SendRingEffect
<1>2. ASSUME NEW d \in Calls, SendAccept(d) PROVE NotYet(c)
  BY <1>0, <1>2, SendAcceptEffect
<1>3. ASSUME NEW u \in Users, NEW d \in Calls, SendEnd(u, d) PROVE NotYet(c)
  BY <1>0, <1>3, SendEndEffect
<1>4. ASSUME NEW u \in Users, Handle(u) PROVE NotYet(c)
  BY <1>0, <1>4, HandleEffect DEF NextStep
<1>5. CASE Others
  <2>1. handler'[CallerOf[c]] \in {handler[CallerOf[c]], Idle}
    BY <1>0, <1>5, OtherHandlers DEF Others
  <2>2. ui'[CallerOf[c]][c] = "none" => ui[CallerOf[c]][c] = "none"
    <3>1. CASE \E m \in wire : Deliver(m)
      BY <1>0, <3>1, DeliverEffect
    <3>2. ASSUME NEW u \in Users, DeliverPendingCall(u)
          PROVE  ui'[CallerOf[c]][c] = "none" => ui[CallerOf[c]][c] = "none"
      <4>1. CASE UNCHANGED ui
        BY <4>1
      <4>2. CASE Show(u, active[u].call, "ringing") /\ active[u].call # None
        <5>1. active[u].call \in Calls /\ "ringing" \in Shown
          BY <4>2 DEF Types, ActiveType, KeyState, Shown
        <5> QED BY <1>0, <4>2, <5>1, ShowUi DEF Types
      <4> QED BY <3>2, <4>1, <4>2 DEF DeliverPendingCall
    <3>3. CASE ~\E u \in Users : DeliverPendingCall(u)
      BY <1>0, <1>5, <3>1, <3>3, OtherShows DEF Others
    <3> QED BY <3>1, <3>2, <3>3
  <2> QED BY <1>0, <2>1, <2>2
<1> QED BY <1>1, <1>2, <1>3, <1>4, <1>5, NextActions

LEMMA NextFresh == Types /\ OfParties /\ Fresh /\ [Next]_vars => Fresh'
<1> SUFFICES ASSUME Types, OfParties, Fresh, [Next]_vars, NEW c \in Calls, NotYet(c)'
             PROVE  Unheard(c)'
  BY DEF Fresh
<1>1. CASE UNCHANGED vars
  BY <1>1 DEF vars, Fresh, NotYet, Unheard, AtPair
<1>2. CASE Next
  <2>1. Unheard(c)
    BY <1>2, NotYetBefore DEF Fresh
  <2> QED BY <1>2, <2>1, NextActions, UnheardRing, UnheardHandle, UnheardOthers
<1> QED BY <1>1, <1>2

-----------------------------------------------------------------------------
(* A missed call is over. *)

LEMMA NextMissedIsOver ==
  ASSUME Types, OfParties, Fresh, MissedIsOver, [Next]_vars
  PROVE  MissedIsOver'
<1> SUFFICES ASSUME NEW c \in missed' PROVE active'[CallerOf[c]].call # c
  BY DEF MissedIsOver
<1>0. missed' \subseteq Calls
  BY NextTypes DEF Types, MissedType
<1>a. CallerOf[c] \in Users /\ c # None
  BY <1>0, PartiesAreUsers, NoneIsNone
<1>1. CASE UNCHANGED vars
  BY <1>1 DEF vars, MissedIsOver
<1>2. CASE Next /\ c \in missed
  <2>1. CASE \A u \in Users : KeyKept(u)
    BY <1>a, <1>2, <2>1 DEF KeyKept, MissedIsOver
  <2>2. ASSUME NEW u \in Users, Rings(u) PROVE active'[CallerOf[c]].call # c
    <3> DEFINE d == handler[u].call
    <3>1. d \in Calls /\ u = CallerOf[d] /\ AtPair(u, d)
      BY <2>2, RingKeys DEF OfParties, AtPair, Rings, RingSetPair
    <3>2. d \notin missed
      BY <3>1 DEF Fresh, NotYet, Unheard
    <3>3. \/ active'[CallerOf[c]] = Ringing(d)
          \/ active'[CallerOf[c]] = active[CallerOf[c]]
      BY <1>a, <2>2, RingKeys DEF OfParties
    <3>4. Ringing(d).call = d
      BY DEF Ringing
    <3> QED BY <1>2, <3>2, <3>3, <3>4 DEF MissedIsOver
  <2> QED BY <1>2, <2>1, <2>2, NextKeys
<1>3. CASE Next /\ c \notin missed
  <2>1. ClearIfMatch(CallerOf[c], c) /\ Matches(CallerOf[c], c)
    <3>1. ASSUME NEW u \in Users, Handle(u) PROVE UNCHANGED missed
      BY <3>1 DEF Handle, RingSetPair, RingStartTimer, RingMissSelf, RingMissPeer,
         AcceptMarkSelf, AcceptMarkPeer, EndClearSelf, EndClearPeer
    <3>2. ASSUME NEW u \in Users, Hangup(u) PROVE UNCHANGED missed
      BY <3>2 DEF Hangup, HangupGet, HangupClearSelf, HangupClearPeer
    <3>3. ASSUME NEW d \in Calls, TimerClearCaller(d)
          PROVE  \/ missed' = missed
                 \/ /\ missed' = missed \union {d} /\ Matches(CallerOf[d], d)
                    /\ ClearIfMatch(CallerOf[d], d)
      BY <3>3 DEF TimerClearCaller
    <3> QED BY <1>3, <3>1, <3>2, <3>3 DEF Next, SendRing, SendAccept, GrowOld, TimerClearCallee,
              SendEnd, Disconnect, Connect, DeliverPendingCall, Deliver, ScanDel, Crash, ScanGet
  <2>2. active'[CallerOf[c]] = NoState
    BY <1>a, <2>1, ClearIfMatchKey DEF Types
  <2> QED BY <1>a, <2>2, KeyStates
<1> QED BY <1>1, <1>2, <1>3

(* Once a caller has been told that a call was missed, no handler, hang-up or
   later ring puts the caller back into it. *)
THEOREM MissedStaysOver == Spec => []MissedIsOver
<1> DEFINE Inv == Types /\ OfParties /\ Fresh /\ MissedIsOver
<1>1. Init => Inv
  BY InitTypes, InitOfParties, InitFresh DEF Init, MissedIsOver
<1>2. Inv /\ [Next]_vars => Inv'
  BY NextTypes, NextOfParties, NextFresh, NextMissedIsOver
<1> QED BY <1>1, <1>2, PTL DEF Spec

-----------------------------------------------------------------------------
(* An unanswered call is watched.  What makes it inductive: whoever clears or
   answers both keys of a call, and has done one, leaves that key not ringing
   unless a command failed, and a call heard of is never rung again. *)

ClearedFirst ==
  /\ \A c \in Calls : timer[c] = "clearCallee" => ~Matches(CallerOf[c], c) \/ c \in struck
  /\ \A u \in Users : handler[u].step \in {"markPeer", "clearPeer", "missPeer"}
                        => ~Matches(u, handler[u].call) \/ handler[u].call \in struck
  /\ \A u \in Users : hangup[u].step = "clearPeer"
                        => ~Matches(u, hangup[u].call) \/ hangup[u].call \in struck

Watched(c) == \/ timer[c] # "off"
              \/ \E v \in Parties(c) : handler[v].call = c \/ hangup[v].call = c

CallInv == Types /\ OfParties /\ Fresh /\ ClearedFirst

LEMMA StruckGrows == Next => struck \subseteq struck'
<1> SUFFICES ASSUME Next PROVE struck \subseteq struck'
  OBVIOUS
<1> USE DEF failures, Fails
<1>1. ASSUME NEW u \in Users, Handle(u) PROVE struck \subseteq struck'
  BY <1>1 DEF Handle, RingSetPair, RingStartTimer, RingMissSelf, RingMissPeer,
         AcceptMarkSelf, AcceptMarkPeer, EndClearSelf, EndClearPeer, Attempt
<1>2. ASSUME NEW u \in Users, Hangup(u) PROVE struck \subseteq struck'
  BY <1>2 DEF Hangup, HangupGet, HangupClearSelf, HangupClearPeer, Attempt
<1>3. ASSUME NEW u \in Users, Disconnect(u) \/ Connect(u) \/ DeliverPendingCall(u)
      PROVE  struck \subseteq struck'
  BY <1>3 DEF Disconnect, Connect, DeliverPendingCall
<1>4. ASSUME NEW c \in Calls,
             \/ SendRing(c) \/ SendAccept(c) \/ GrowOld(c)
             \/ TimerClearCaller(c) \/ TimerClearCallee(c)
      PROVE  struck \subseteq struck'
  BY <1>4 DEF SendRing, SendAccept, GrowOld, TimerClearCaller, TimerClearCallee, Attempt
<1>5. ASSUME NEW s \in Servers, ScanDel(s) \/ Crash(s) \/ \E u \in Users : ScanGet(s, u)
      PROVE  struck \subseteq struck'
  BY <1>5 DEF ScanDel, Crash, ScanGet
<1> QED BY <1>1, <1>2, <1>3, <1>4, <1>5 DEF Next, SendEnd, Deliver

LEMMA MatchesBefore ==
  ASSUME CallInv, Next, NEW u \in Users, NEW c \in Calls, Matches(u, c)', ~Matches(u, c)
  PROVE  /\ Unheard(c)
         /\ \E v \in Users : Rings(v) /\ handler[v].call = c /\ v = CallerOf[c]
<1>0. c # None
  BY NoneIsNone
<1>1. CASE \A v \in Users : KeyKept(v)
  BY <1>0, <1>1 DEF KeyKept, Matches
<1>2. ASSUME NEW v \in Users, Rings(v)
      PROVE  Unheard(c) /\ handler[v].call = c /\ v = CallerOf[c]
  <2> DEFINE d == handler[v].call
  <2>1. d \in Calls /\ v = CallerOf[d] /\ AtPair(v, d)
    BY <1>2, RingKeys DEF CallInv, OfParties, AtPair, Rings, RingSetPair
  <2>2. active'[u] = Ringing(d) \/ active'[u] = active[u]
    BY <1>2, RingKeys DEF CallInv, OfParties
  <2>3. d = c
    BY <2>2 DEF Ringing, Matches
  <2> QED BY <2>1, <2>3 DEF CallInv, Fresh, NotYet
<1> QED BY <1>1, <1>2, NextKeys DEF CallInv

LEMMA TimerCleared ==
  ASSUME CallInv, Next, NEW c \in Calls, timer'[c] = "clearCallee", c \notin struck'
  PROVE  ~Matches(CallerOf[c], c)'
<1>0. CallerOf[c] \in Users /\ c # None /\ c \notin struck
  BY PartiesAreUsers, NoneIsNone, StruckGrows
<1>1. CASE timer[c] = "clearCallee"
  BY <1>0, <1>1, MatchesBefore DEF CallInv, ClearedFirst, Unheard
<1>2. CASE TimerClearCaller(c)
  <2>1. \/ active'[CallerOf[c]] = NoState
        \/ ~Matches(CallerOf[c], c) /\ active'[CallerOf[c]] = active[CallerOf[c]]
    BY <1>0, <1>2, ClearIfMatchKey DEF TimerClearCaller, Fails, CallInv, Types
  <2> QED BY <1>0, <2>1 DEF Matches, NoState
<1>3. timer[c] = "clearCallee" \/ TimerClearCaller(c)
  <2>1. ASSUME NEW u \in Users, Handle(u) PROVE timer[c] = "clearCallee"
    <3>1. UNCHANGED timer \/ timer' = [timer EXCEPT ![handler[u].call] = "armed"]
      BY <2>1 DEF Handle, RingSetPair, RingStartTimer, RingMissSelf, RingMissPeer,
           AcceptMarkSelf, AcceptMarkPeer, EndClearSelf, EndClearPeer
    <3> QED BY <3>1 DEF CallInv, Types, TimerType
  <2>2. ASSUME NEW u, NEW d, CancelTimer(u, d) PROVE timer[c] = "clearCallee"
    BY <2>2 DEF CancelTimer, CallInv, Types, TimerType
  <2>3. ASSUME NEW u \in Users, Hangup(u) PROVE timer[c] = "clearCallee"
    BY <2>2, <2>3 DEF Hangup, HangupGet, HangupClearSelf, HangupClearPeer
  <2>4. ASSUME NEW d \in Calls, TimerClearCaller(d) \/ TimerClearCallee(d), d # c
        PROVE  timer[c] = "clearCallee"
    BY <2>4 DEF TimerClearCaller, TimerClearCallee, CallInv, Types, TimerType
  <2>5. ~TimerClearCallee(c)
    BY DEF TimerClearCallee, CallInv, Types, TimerType
  <2>6. ASSUME NEW s \in Servers, Crash(s) PROVE timer[c] = "clearCallee"
    BY <2>6 DEF Crash
  <2>7. ASSUME NEW d \in Calls, SendRing(d) \/ SendAccept(d) \/ GrowOld(d)
        PROVE  timer[c] = "clearCallee"
    BY <2>2, <2>7 DEF SendRing, SendAccept, GrowOld
  <2>8. ASSUME NEW u \in Users, NEW d \in Calls, SendEnd(u, d) PROVE timer[c] = "clearCallee"
    BY <2>2, <2>8 DEF SendEnd
  <2> QED BY <2>1, <2>3, <2>4, <2>5, <2>6, <2>7, <2>8
          DEF Next, Disconnect, Connect, DeliverPendingCall, Deliver, ScanDel, ScanGet
<1> QED BY <1>1, <1>2, <1>3

LEMMA HandlerCleared ==
  ASSUME CallInv, Next, NEW u \in Users,
         handler'[u].step \in {"markPeer", "clearPeer", "missPeer"},
         NEW c \in Calls, handler'[u].call = c, c \notin struck'
  PROVE  ~Matches(u, c)'
<1>0. c # None /\ Idle.step = "none" /\ Idle.call = None /\ c \notin struck
  BY NoneIsNone, StruckGrows DEF Idle
<1>1. CASE handler'[u] = handler[u]
  <2>1. ~Matches(u, c) /\ ~Unheard(c)
    BY <1>0, <1>1 DEF CallInv, ClearedFirst, Unheard, AtPair
  <2> QED BY <1>0, <2>1, MatchesBefore
<1>2. ASSUME Handle(u), handler'[u] # handler[u] PROVE ~Matches(u, c)'
  <2>1. handler[u].call = c /\ NextStep(handler[u].step, handler'[u].step)
    BY <1>0, <1>2, HandleEffect DEF CallInv
  <2>2. handler[u].step \in {"markSelf", "clearSelf", "missSelf"}
    BY <2>1 DEF NextStep
  <2>3. CASE RingMissSelf(u) \/ EndClearSelf(u)
    <3>1. active'[u] = NoState
      BY <2>1, <2>3, ClearKey DEF RingMissSelf, EndClearSelf, Attempt, Fails, CallInv, Types
    <3> QED BY <1>0, <3>1 DEF Matches, NoState
  <2>4. CASE AcceptMarkSelf(u)
    <3>1. active'[u].call = active[u].call /\ (Busy(u) => active'[u].answered)
      BY <2>1, <2>4, MarkAnsweredKey DEF AcceptMarkSelf, Attempt, Fails, CallInv, Types
    <3> QED BY <1>0, <3>1, NoneIsNone DEF Matches, Busy
  <2> QED BY <1>2, <2>2, <2>3, <2>4 DEF Handle, RingSetPair, RingStartTimer, RingMissPeer,
                                       AcceptMarkPeer, EndClearPeer
<1>3. \/ handler'[u] = handler[u]
      \/ Handle(u)
  <2>1. ASSUME NEW d \in Calls, SendRing(d) PROVE handler'[u] = handler[u]
    BY <1>0, <2>1, SendRingEffect DEF CallInv, OnlyHandler
  <2>2. ASSUME NEW d \in Calls, SendAccept(d) PROVE handler'[u] = handler[u]
    BY <1>0, <2>2, SendAcceptEffect DEF CallInv, OnlyHandler
  <2>3. ASSUME NEW v \in Users, NEW d \in Calls, SendEnd(v, d) PROVE handler'[u] = handler[u]
    BY <1>0, <2>3, SendEndEffect DEF CallInv, OnlyHandler
  <2>4. ASSUME NEW v \in Users, Handle(v), v # u PROVE handler'[u] = handler[u]
    BY <2>4, HandleEffect DEF CallInv, OnlyHandler
  <2>5. CASE Others
    BY <1>0, <2>5, OtherHandlers DEF CallInv, Others
  <2> QED BY <2>1, <2>2, <2>3, <2>4, <2>5, NextActions
<1> QED BY <1>1, <1>2, <1>3

LEMMA HangupCleared ==
  ASSUME CallInv, Next, NEW u \in Users, hangup'[u].step = "clearPeer",
         NEW c \in Calls, hangup'[u].call = c, c \notin struck'
  PROVE  ~Matches(u, c)'
<1>0. c # None /\ NoTask.step = "none" /\ c \notin struck
  BY NoneIsNone, StruckGrows DEF NoTask
<1>1. CASE hangup'[u] = hangup[u]
  <2>1. ~Matches(u, c) /\ ~Unheard(c)
    BY <1>0, <1>1 DEF CallInv, ClearedFirst, Unheard
  <2> QED BY <1>0, <2>1, MatchesBefore
<1>2. CASE HangupClearSelf(u)
  <2>0. hangup[u].call = c
    <3>1. hangup'[u] = [call |-> hangup[u].call, step |-> "clearPeer"]
      BY <1>2, HangupEffect DEF CallInv, Hangup
    <3> QED BY <3>1
  <2>1. active'[u] = NoState
    BY <1>2, <2>0, ClearKey DEF HangupClearSelf, Attempt, Fails, CallInv, Types
  <2> QED BY <1>0, <2>1 DEF Matches, NoState
<1>3. hangup'[u] = hangup[u] \/ HangupClearSelf(u)
  <2>1. ASSUME Hangup(u) PROVE HangupClearSelf(u)
    <3>1. ~HangupGet(u)
      <4>1. ASSUME HangupGet(u)
            PROVE  hangup'[u] \in {NoTask, [call |-> active[u].call, step |-> "clearSelf"]}
        BY <2>1, <4>1, HangupEffect DEF CallInv
      <4> QED BY <1>0, <4>1
    <3>2. ~HangupClearPeer(u)
      BY <1>0, <2>1, HangupEffect DEF CallInv
    <3> QED BY <2>1, <3>1, <3>2 DEF Hangup
  <2>2. ASSUME NEW v \in Users, Hangup(v), v # u PROVE hangup'[u] = hangup[u]
    BY <2>2, HangupMoves DEF CallInv
  <2>3. CASE \A v \in Users : ~Hangup(v)
    BY <1>0, <2>3, OtherHangups DEF CallInv
  <2> QED BY <2>1, <2>2, <2>3
<1> QED BY <1>1, <1>2, <1>3

LEMMA NextCallInv == CallInv /\ [Next]_vars => CallInv'
<1> SUFFICES ASSUME CallInv, [Next]_vars PROVE CallInv'
  OBVIOUS
<1>1. Types' /\ OfParties' /\ Fresh'
  BY NextTypes, NextOfParties, NextFresh DEF CallInv
<1>2. CASE UNCHANGED vars
  BY <1>1, <1>2 DEF vars, failures, CallInv, ClearedFirst, Matches
<1>3. CASE Next
  <2>1. ASSUME NEW u \in Users, handler'[u].step \in {"markPeer", "clearPeer", "missPeer"},
               handler'[u].call \notin struck'
        PROVE  ~(active'[u].call = handler'[u].call /\ ~active'[u].answered)
    <3>1. handler'[u].call \in Calls
      BY <1>1, <2>1 DEF Types, HandlerType, HandlerState, Idle
    <3>2. PICK c \in Calls : handler'[u].call = c
      BY <3>1
    <3>3. ~Matches(u, c)'
      BY <1>3, <2>1, <3>2, HandlerCleared
    <3> QED BY <3>2, <3>3 DEF Matches
  <2>2. ASSUME NEW u \in Users, hangup'[u].step = "clearPeer", hangup'[u].call \notin struck'
        PROVE  ~(active'[u].call = hangup'[u].call /\ ~active'[u].answered)
    <3>1. hangup'[u].call \in Calls
      BY <1>1, <2>2 DEF Types, HangupType, HangupState, NoTask
    <3>2. PICK c \in Calls : hangup'[u].call = c
      BY <3>1
    <3>3. ~Matches(u, c)'
      BY <1>3, <2>2, <3>2, HangupCleared
    <3> QED BY <3>2, <3>3 DEF Matches
  <2>3. \A c \in Calls : timer'[c] = "clearCallee" => ~Matches(CallerOf[c], c)' \/ c \in struck'
    BY <1>3, TimerCleared
  <2> QED BY <1>1, <2>1, <2>2, <2>3 DEF CallInv, ClearedFirst, Matches
<1> QED BY <1>2, <1>3

LEMMA InitCallInv == Init => CallInv
<1>1. Init => ClearedFirst
  BY DEF Init, ClearedFirst, Idle, NoTask
<1> QED BY <1>1, InitTypes, InitOfParties, InitFresh DEF CallInv

-----------------------------------------------------------------------------
(* Who watched a call goes on watching it, or has dealt with both keys. *)

LEMMA TwoParties ==
  ASSUME NEW c \in Calls, NEW u \in Parties(c), NEW v \in Parties(c)
  PROVE  u = v \/ u = Peer(v, c)
BY DEF Parties, Peer

LEMMA HandlerWatches ==
  ASSUME CallInv, Next, crashes' = 0, NEW c \in Calls, c \notin struck', NEW v \in Parties(c),
         handler[v].call = c, NEW u \in Parties(c), Matches(u, c), Matches(u, c)'
  PROVE  Watched(c)'
<1>0. /\ v \in Users /\ u \in Users /\ c # None /\ handler[v] # Idle /\ handler[v].step # "none"
      /\ Idle.call = None /\ c \notin struck
  BY PartiesAreUsers, NoneIsNone, StruckGrows DEF CallInv, Types, HandlerType, Idle
<1>1. CASE handler'[v].call = c
  BY <1>1 DEF Watched
<1>2. CASE handler'[v].call # c
  <2>1. Handle(v)
    <3>1. ASSUME NEW d \in Calls, SendRing(d) PROVE FALSE
      BY <1>0, <1>2, <3>1, SendRingEffect DEF CallInv, OnlyHandler
    <3>2. ASSUME NEW d \in Calls, SendAccept(d) PROVE FALSE
      BY <1>0, <1>2, <3>2, SendAcceptEffect DEF CallInv, OnlyHandler
    <3>3. ASSUME NEW w \in Users, NEW d \in Calls, SendEnd(w, d) PROVE FALSE
      BY <1>0, <1>2, <3>3, SendEndEffect DEF CallInv, OnlyHandler
    <3>4. ASSUME NEW w \in Users, Handle(w), w # v PROVE FALSE
      BY <1>0, <1>2, <3>4, HandleEffect DEF CallInv, OnlyHandler
    <3>5. CASE Others
      <4>1. ASSUME NEW s \in Servers, Crash(s) PROVE FALSE
        BY <4>1 DEF Crash, CallInv, Types, BoundsType
      <4>2. UNCHANGED handler
        BY <3>5, <4>1 DEF Others, GrowOld, TimerClearCaller, TimerClearCallee, Disconnect, Connect,
               DeliverPendingCall, Hangup, HangupGet, HangupClearSelf, HangupClearPeer, Deliver,
               ScanDel, ScanGet
      <4> QED BY <1>2, <4>2
    <3> QED BY <3>1, <3>2, <3>3, <3>4, <3>5, NextActions
  <2>2. handler'[v] = Idle
    BY <1>0, <1>2, <2>1, HandleEffect DEF CallInv
  <2>3. handler[v].step # "pair"
    BY <1>0 DEF CallInv, Fresh, NotYet, AtPair, Unheard, Matches, OfParties, HandlerOfParty, Ringer
  <2>4. u = v \/ u = Peer(v, c)
    BY TwoParties
  <2>5. \/ handler[v].step = "presence" /\ RingStartTimer(v)
        \/ RingMissPeer(v) \/ AcceptMarkPeer(v) \/ EndClearPeer(v)
    <3>1. ASSUME NEW step, Step(v, step) PROVE handler'[v].call = c
      BY <1>0, <3>1 DEF Step, CallInv, Types, HandlerType, HandlerState
    <3> QED BY <1>2, <2>1, <2>3, <3>1 DEF Handle, RingSetPair, RingStartTimer, RingMissSelf,
                 AcceptMarkSelf, EndClearSelf
  <2>6. CASE RingStartTimer(v)
    <3>1. ASSUME NEW step, Step(v, step) PROVE handler'[v].call = c
      BY <1>0, <3>1 DEF Step, CallInv, Types, HandlerType, HandlerState
    <3>2. timer' = [timer EXCEPT ![c] = "armed"]
      BY <1>2, <2>6, <3>1 DEF RingStartTimer
    <3> QED BY <3>2 DEF Watched, CallInv, Types, TimerType
  <2>7. CASE RingMissPeer(v)
    <3>1. v = CallerOf[c] /\ ~Matches(v, c)
      BY <1>0, <2>7 DEF RingMissPeer, CallInv, OfParties, HandlerOfParty, Ringer, ClearedFirst
    <3>2. u = CalleeOf[c]
      BY <2>4, <3>1 DEF Peer
    <3>3. active'[u] = NoState
      BY <1>0, <2>7, <3>2, ClearKey DEF RingMissPeer, Attempt, Fails, CallInv, Types
    <3> QED BY <1>0, <3>3 DEF Matches, NoState
  <2>8. CASE AcceptMarkPeer(v)
    <3>1. ~Matches(v, c)
      BY <1>0, <2>8 DEF AcceptMarkPeer, CallInv, ClearedFirst
    <3>2. u = Peer(v, c) /\ Busy(u)
      BY <1>0, <2>4, <3>1 DEF Matches, Busy
    <3>3. active'[u].answered
      BY <1>0, <2>8, <3>2, MarkAnsweredKey DEF AcceptMarkPeer, Attempt, Fails, CallInv, Types
    <3> QED BY <3>3 DEF Matches
  <2>9. CASE EndClearPeer(v)
    <3>1. ~Matches(v, c)
      BY <1>0, <2>9 DEF EndClearPeer, CallInv, ClearedFirst
    <3>2. u = Peer(v, c)
      BY <2>4, <3>1
    <3>3. active'[u] = NoState
      BY <1>0, <2>9, <3>2, ClearKey DEF EndClearPeer, Attempt, Fails, CallInv, Types
    <3> QED BY <1>0, <3>3 DEF Matches, NoState
  <2> QED BY <2>5, <2>6, <2>7, <2>8, <2>9
<1> QED BY <1>1, <1>2

LEMMA TimerWatches ==
  ASSUME CallInv, Next, crashes' = 0, NEW c \in Calls, c \notin struck', timer[c] # "off",
         NEW u \in Parties(c), Matches(u, c), Matches(u, c)'
  PROVE  Watched(c)'
<1>0. u \in Users /\ c # None /\ CallerOf[c] \in Users /\ CalleeOf[c] \in Users
      /\ c \notin struck
  BY PartiesAreUsers, NoneIsNone, StruckGrows
<1>1. CASE timer'[c] # "off"
  BY <1>1 DEF Watched
<1>2. CASE timer'[c] = "off"
  <2>1. ASSUME NEW v, NEW d, CancelTimer(v, d) PROVE d = c
    BY <1>2, <2>1 DEF CancelTimer, CallInv, Types, TimerType
  <2>2. ASSUME NEW d \in Calls, SendAccept(d) PROVE Watched(c)'
    <3>1. d = c
      BY <2>1, <2>2 DEF SendAccept
    <3>2. handler'[CalleeOf[c]].call = c
      BY <1>0, <2>2, <3>1, StartHandler DEF SendAccept, Start, CallInv, Types, HandlerType
    <3> QED BY <3>2 DEF Watched, Parties
  <2>3. ASSUME NEW v \in Users, NEW d \in Calls, SendEnd(v, d) PROVE Watched(c)'
    <3>1. d = c
      BY <2>1, <2>3 DEF SendEnd
    <3>2. handler'[v].call = c
      BY <1>0, <2>3, <3>1 DEF SendEnd, Start, CallInv, Types, HandlerType
    <3> QED BY <2>3, <3>1, <3>2 DEF Watched, SendEnd
  <2>4. ASSUME NEW v \in Users, Hangup(v) PROVE Watched(c)'
    <3>1. HangupGet(v) /\ CancelTimer(v, active[v].call) /\ active[v].call # None
          /\ hangup' = [hangup EXCEPT ![v] = [call |-> active[v].call, step |-> "clearSelf"]]
      BY <1>2, <2>4 DEF Hangup, HangupGet, HangupClearSelf, HangupClearPeer
    <3>2. active[v].call = c
      BY <2>1, <3>1
    <3>3. v \in Parties(c)
      BY <1>0, <2>4, <3>2 DEF CallInv, OfParties, KeyOfParty, Busy
    <3>4. hangup'[v].call = c
      BY <3>1, <3>2 DEF CallInv, Types, HangupType
    <3> QED BY <3>3, <3>4 DEF Watched
  <2>5. ASSUME TimerClearCallee(c) PROVE FALSE
    <3>1. u = CalleeOf[c]
      BY <1>0, <2>5 DEF TimerClearCallee, CallInv, ClearedFirst, Parties
    <3>2. active'[u] = NoState
      BY <1>0, <2>5, <3>1, ClearIfMatchKey DEF TimerClearCallee, Attempt, Fails, CallInv, Types
    <3> QED BY <1>0, <3>2 DEF Matches, NoState
  <2>6. ASSUME NEW d \in Calls, TimerClearCaller(d) \/ TimerClearCallee(d)
        PROVE  d = c /\ TimerClearCallee(c)
    BY <1>2, <2>6 DEF TimerClearCaller, TimerClearCallee, CallInv, Types, TimerType
  <2>7. ASSUME NEW v \in Users, Handle(v) PROVE FALSE
    <3>1. UNCHANGED timer \/ timer' = [timer EXCEPT ![handler[v].call] = "armed"]
      BY <2>7 DEF Handle, RingSetPair, RingStartTimer, RingMissSelf, RingMissPeer,
           AcceptMarkSelf, AcceptMarkPeer, EndClearSelf, EndClearPeer
    <3> QED BY <1>2, <3>1 DEF CallInv, Types, TimerType
  <2>8. ASSUME NEW s \in Servers, Crash(s) PROVE FALSE
    BY <2>8 DEF Crash, CallInv, Types, BoundsType
  <2> QED BY <1>2, <2>2, <2>3, <2>4, <2>5, <2>6, <2>7, <2>8
          DEF Next, SendRing, GrowOld, Disconnect, Connect, DeliverPendingCall, Deliver, ScanDel,
              ScanGet
<1> QED BY <1>1, <1>2

LEMMA HangupWatches ==
  ASSUME CallInv, Next, crashes' = 0, NEW c \in Calls, c \notin struck', NEW v \in Parties(c),
         hangup[v].call = c, NEW u \in Parties(c), Matches(u, c), Matches(u, c)'
  PROVE  Watched(c)'
<1>0. /\ v \in Users /\ u \in Users /\ c # None /\ Peer(v, c) \in Users
      /\ hangup[v].step \in {"clearSelf", "clearPeer"} /\ c \notin struck
  BY PartiesAreUsers, NoneIsNone, StruckGrows DEF CallInv, Types, HangupType
<1>1. CASE hangup'[v].call = c
  BY <1>1 DEF Watched
<1>2. CASE HangupClearPeer(v)
  <2>1. ~Matches(v, c)
    BY <1>0, <1>2 DEF HangupClearPeer, CallInv, ClearedFirst
  <2>2. u = Peer(v, c)
    BY <2>1, TwoParties
  <2>3. active'[u] = NoState
    BY <1>0, <1>2, <2>2, ClearKey DEF HangupClearPeer, Attempt, Fails, CallInv, Types
  <2> QED BY <1>0, <2>3 DEF Matches, NoState
<1>3. hangup'[v].call = c \/ HangupClearPeer(v)
  <2>1. ASSUME Hangup(v), ~HangupClearPeer(v) PROVE hangup'[v].call = c
    <3>1. HangupClearSelf(v)
      BY <1>0, <2>1 DEF Hangup, HangupGet
    <3> QED BY <1>0, <3>1 DEF HangupClearSelf, CallInv, Types, HangupType, HangupState
  <2>2. ASSUME NEW w \in Users, Hangup(w), w # v PROVE hangup'[v] = hangup[v]
    BY <1>0, <2>2, HangupMoves DEF CallInv
  <2>3. ASSUME \A w \in Users : ~Hangup(w) PROVE hangup'[v] = hangup[v]
    <3>1. ASSUME NEW s \in Servers, Crash(s) PROVE FALSE
      BY <3>1 DEF Crash, CallInv, Types, BoundsType
    <3>2. ASSUME NEW w \in Users, Disconnect(w) PROVE hangup'[v] = hangup[v]
      BY <1>0, <3>2 DEF Disconnect, NoTask, CallInv, Types, HangupType
    <3>3. ASSUME NEW w \in Users, Handle(w) PROVE UNCHANGED hangup
      BY <3>3 DEF Handle, RingSetPair, RingStartTimer, RingMissSelf, RingMissPeer,
           AcceptMarkSelf, AcceptMarkPeer, EndClearSelf, EndClearPeer
    <3> QED BY <2>3, <3>1, <3>2, <3>3 DEF Next, SendRing, SendAccept, SendEnd, GrowOld,
          TimerClearCaller, TimerClearCallee, Connect, DeliverPendingCall, Deliver, ScanDel, ScanGet
  <2> QED BY <2>1, <2>2, <2>3
<1> QED BY <1>1, <1>2, <1>3

(* A key that has just come to ring is watched by the handler that rang it, if that
   handler has heard that its script ran. *)
LEMMA RingWatches ==
  ASSUME CallInv, Next, NEW u \in Users, NEW c \in Calls, ~Matches(u, c), Matches(u, c)',
         c \notin struck'
  PROVE  Watched(c)'
<1>1. PICK v \in Users : Rings(v) /\ handler[v].call = c /\ v = CallerOf[c]
  BY MatchesBefore
<1>2. Step(v, "presence")
  BY <1>1 DEF Rings, RingSetPair, Fails
<1>3. handler'[v].call = c
  BY <1>1, <1>2 DEF Step, CallInv, Types, HandlerType, HandlerState
<1> QED BY <1>1, <1>3 DEF Watched, Parties

AllWatched == crashes = 0 => \A u \in Users, c \in Calls :
                               Matches(u, c) => Watched(c) \/ c \in struck

LEMMA NextAllWatched == CallInv /\ AllWatched /\ [Next]_vars => AllWatched'
<1> SUFFICES ASSUME CallInv, AllWatched, [Next]_vars, crashes' = 0,
                    NEW u \in Users, NEW c \in Calls, Matches(u, c)', c \notin struck'
             PROVE  Watched(c)'
  BY DEF AllWatched
<1>1. CASE UNCHANGED vars
  BY <1>1 DEF vars, failures, AllWatched, Matches, Watched
<1>2. CASE Next /\ ~Matches(u, c)
  BY <1>2, RingWatches
<1>3. CASE Next /\ Matches(u, c)
  <2>1. crashes = 0
    <3>1. ASSUME NEW s \in Servers, Crash(s) PROVE FALSE
      BY <3>1 DEF Crash, CallInv, Types, BoundsType
    <3>2. ASSUME NEW v \in Users, Handle(v) \/ Hangup(v) PROVE UNCHANGED crashes
      BY <3>2 DEF Handle, RingSetPair, RingStartTimer, RingMissSelf, RingMissPeer,
           AcceptMarkSelf, AcceptMarkPeer, EndClearSelf, EndClearPeer, Hangup, HangupGet,
           HangupClearSelf, HangupClearPeer, Attempt, Fails, failures
    <3>3. UNCHANGED crashes
      <4>1. ASSUME NEW d \in Calls, GrowOld(d) PROVE UNCHANGED crashes
        BY <4>1 DEF GrowOld, failures
      <4> QED BY <1>3, <3>1, <3>2, <4>1 DEF Next, Attempt, Fails, failures, SendRing, SendAccept, SendEnd, TimerClearCaller,
              TimerClearCallee, Disconnect, Connect, DeliverPendingCall, Deliver, ScanDel, ScanGet
    <3> QED BY <3>3
  <2>2. u \in Parties(c)
    BY <1>3, NoneIsNone DEF CallInv, OfParties, KeyOfParty, Matches, Busy
  <2>3. Watched(c)
    BY <1>3, <2>1, StruckGrows DEF AllWatched
  <2> QED BY <1>3, <2>2, <2>3, TimerWatches, HandlerWatches, HangupWatches DEF Watched
<1> QED BY <1>1, <1>2, <1>3

(* As long as no server dies, every unanswered call has an armed or running timer, or
   a handler or hang-up under way that answers or clears both keys, unless a Redis
   command failed on its behalf. *)
THEOREM RingStaysWatched == Spec => []RingIsWatched
<1>1. Init => CallInv /\ AllWatched
  <2>1. Init => AllWatched
    BY NoneIsNone DEF Init, AllWatched, Matches, NoState
  <2> QED BY <2>1, InitCallInv
<1>2. CallInv /\ AllWatched /\ [Next]_vars => (CallInv /\ AllWatched)'
  BY NextCallInv, NextAllWatched
<1>3. CallInv /\ AllWatched => RingIsWatched
  <2> SUFFICES ASSUME CallInv, AllWatched, crashes = 0, NEW u \in Users, Busy(u),
                      ~active[u].answered
               PROVE  Watched(active[u].call) \/ active[u].call \in struck
    BY DEF RingIsWatched, Watched
  <2>1. active[u].call \in Calls
    BY DEF Busy, CallInv, Types, ActiveType, KeyState
  <2> QED BY <2>1 DEF AllWatched, Matches
<1> QED BY <1>1, <1>2, <1>3, PTL DEF Spec
=============================================================================
