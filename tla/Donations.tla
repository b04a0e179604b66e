------------------------------ MODULE Donations ------------------------------
(***************************************************************************)
(* Donations (handlers/donations.go).  An order is saved before the user   *)
(* can pay for it; the payment provider reports, by webhook, that an       *)
(* attempt to pay failed or that the payment was completed; the webhook    *)
(* looks the order up, inserts a donation and marks the order, in three    *)
(* statements without a transaction, and answers 200 whatever they did.    *)
(*                                                                         *)
(* The provider is external.  As the code uses it: an order is paid at     *)
(* most once, perhaps after attempts that failed (both reports carry the   *)
(* same order); a report is repeated, in any order, until it is answered.  *)
(* One step is one statement.  Amounts and users are not modelled: a       *)
(* donation has those of its order, and the trigger on donations adds it   *)
(* to the user's total in the same statement.  Reports whose signature     *)
(* does not verify, and unknown orders, change nothing.                    *)
(***************************************************************************)
EXTENDS Integers

CONSTANTS Orders,
          Hooks,                          \* requests of the provider under way at once
          MaxAttempts, MaxRepeats, MaxDonationFaults   \* bounds

ASSUME DonationBounds == MaxAttempts \in Nat /\ MaxRepeats \in Nat /\ MaxDonationFaults \in Nat

VARIABLES
  orderStatus,  \* pending_orders, by order
  donated,      \* the number of rows of donations, by order
  payment,      \* provider: whether the user can pay, or has paid
  attempts,     \* provider: failed attempts
  reports,      \* provider: reports not answered yet
  hook,         \* RazorpayWebhookHandler: the report in hand and the next statement
  overlapped,   \* history: orders looked up while another request was about to
                \* insert or to mark them
  declined,     \* history: orders marked failed because an attempt was
  troubled,     \* history: orders that a failed statement or a crash left behind
  repeats, donationFaults

provider     == <<payment, attempts, reports>>
donationVars == <<orderStatus, donated, provider, hook, overlapped, declined, troubled, repeats,
                  donationFaults>>

Reports == [order : Orders, says : {"completed", "failed"}]
Completed(o) == [order |-> o, says |-> "completed"]
FailedTry(o) == [order |-> o, says |-> "failed"]
NoHook  == [step |-> "idle"]
Hook(r, step) == [report |-> r, step |-> step]
At(h, o, steps) == hook[h].step \in steps /\ hook[h].report.order = o

DonationTypeOK ==
  /\ orderStatus \in [Orders -> {"none", "pending", "completed", "failed"}]
  /\ donated \in [Orders -> Nat]
  /\ payment \in [Orders -> {"none", "open", "captured"}]
  /\ attempts \in [Orders -> 0..MaxAttempts]
  /\ reports \subseteq Reports
  /\ hook \in [Hooks -> [report : Reports, step : {"lookup", "insert", "mark", "fail"}]
                        \union {NoHook}]
  /\ \A h \in Hooks : hook[h] # NoHook =>
       (hook[h].step = "fail" <=> hook[h].report.says = "failed")
  /\ overlapped \subseteq Orders /\ declined \subseteq Orders /\ troubled \subseteq Orders
  /\ repeats \in 0..MaxRepeats /\ donationFaults \in 0..MaxDonationFaults

DonationInit ==
  /\ orderStatus = [o \in Orders |-> "none"]
  /\ donated = [o \in Orders |-> 0]
  /\ payment = [o \in Orders |-> "none"]
  /\ attempts = [o \in Orders |-> 0]
  /\ reports = {}
  /\ hook = [h \in Hooks |-> NoHook]
  /\ overlapped = {} /\ declined = {} /\ troubled = {}
  /\ repeats = 0 /\ donationFaults = 0

DonationFault(o) == /\ donationFaults < MaxDonationFaults
                    /\ donationFaults' = donationFaults + 1
                    /\ troubled' = troubled \union {o}

-----------------------------------------------------------------------------
(* CreateDonationOrderHandler: the INSERT comes before the answer that lets the
   user pay.  When it fails the user has no order; when only its answer is lost,
   the order stays pending. *)
CreateDonationOrder(o) ==
  /\ orderStatus[o] = "none"
  /\ orderStatus' = [orderStatus EXCEPT ![o] = "pending"]
  /\ payment' = [payment EXCEPT ![o] = "open"] \/ UNCHANGED payment
  /\ UNCHANGED <<donated, attempts, reports, hook, overlapped, declined, troubled, repeats,
                 donationFaults>>

(* The provider *)

AttemptFails(o) ==
  /\ payment[o] = "open"
  /\ attempts[o] < MaxAttempts
  /\ attempts' = [attempts EXCEPT ![o] = @ + 1]
  /\ reports' = reports \union {FailedTry(o)}
  /\ UNCHANGED <<orderStatus, donated, payment, hook, overlapped, declined, troubled, repeats,
                 donationFaults>>

Capture(o) ==
  /\ payment[o] = "open"
  /\ payment' = [payment EXCEPT ![o] = "captured"]
  /\ reports' = reports \union {Completed(o)}
  /\ UNCHANGED <<orderStatus, donated, attempts, hook, overlapped, declined, troubled, repeats,
                 donationFaults>>

-----------------------------------------------------------------------------
(* RazorpayWebhookHandler *)

FirstStep(r) == IF r.says = "completed" THEN "lookup" ELSE "fail"

(* A report is sent again while an answer is late. *)
Receive(h, r) ==
  /\ hook[h] = NoHook /\ r \in reports
  /\ IF \E g \in Hooks : hook[g] # NoHook /\ hook[g].report = r
       THEN repeats < MaxRepeats /\ repeats' = repeats + 1
       ELSE UNCHANGED repeats
  /\ hook' = [hook EXCEPT ![h] = Hook(r, FirstStep(r))]
  /\ UNCHANGED <<orderStatus, donated, provider, overlapped, declined, troubled, donationFaults>>

(* The answer ends the repeating, or comes too late to. *)
Answered(h) ==
  /\ hook' = [hook EXCEPT ![h] = NoHook]
  /\ \/ reports' = reports \ {hook[h].report} /\ UNCHANGED repeats
     \/ repeats < MaxRepeats /\ repeats' = repeats + 1 /\ UNCHANGED reports

(* Mutant of LookUp: the order is found whatever its status. *)
LookUpAnyStatus(h) ==
  LET o == hook[h].report.order IN
  /\ hook[h].step = "lookup"
  /\ hook' = [hook EXCEPT ![h].step = "insert"]
  /\ overlapped' = IF \E g \in Hooks : At(g, o, {"insert", "mark"})
                     THEN overlapped \union {o} ELSE overlapped
  /\ UNCHANGED <<orderStatus, donated, provider, declined, troubled, repeats, donationFaults>>

(* Mutant of LookUp: the order is marked before the donation is inserted. *)
LookUpMarksFirst(h) ==
  LET o == hook[h].report.order IN
  /\ hook[h].step = "lookup"
  /\ IF orderStatus[o] = "pending"
       THEN /\ hook' = [hook EXCEPT ![h].step = "insert"]
            /\ orderStatus' = [orderStatus EXCEPT ![o] = "completed"]
            /\ UNCHANGED <<reports, repeats>>
       ELSE Answered(h) /\ UNCHANGED orderStatus
  /\ UNCHANGED <<donated, payment, attempts, overlapped, declined, troubled, donationFaults>>

(* Mutant of LookUp: it looks for orders that are completed. *)
LookUpCompleted(h) ==
  LET o == hook[h].report.order IN
  /\ hook[h].step = "lookup"
  /\ IF orderStatus[o] = "completed"
       THEN hook' = [hook EXCEPT ![h].step = "insert"] /\ UNCHANGED <<reports, repeats>>
       ELSE Answered(h)
  /\ UNCHANGED <<orderStatus, donated, payment, attempts, overlapped, declined, troubled,
                 donationFaults>>

(* SELECT ... WHERE order_id = $1 AND status = 'pending' *)
LookUp(h) ==
  LET o == hook[h].report.order IN
  /\ hook[h].step = "lookup"
  /\ IF orderStatus[o] = "pending"
       THEN /\ hook' = [hook EXCEPT ![h].step = "insert"]
            /\ overlapped' = IF \E g \in Hooks : At(g, o, {"insert", "mark"})
                               THEN overlapped \union {o} ELSE overlapped
            /\ UNCHANGED <<reports, repeats>>
       ELSE Answered(h) /\ UNCHANGED overlapped
  /\ UNCHANGED <<orderStatus, donated, payment, attempts, declined, troubled, donationFaults>>

(* An error of the query is taken for an unknown order. *)
LookUpFails(h) ==
  LET o == hook[h].report.order IN
  /\ hook[h].step = "lookup"
  /\ DonationFault(o)
  /\ Answered(h)
  /\ UNCHANGED <<orderStatus, donated, payment, attempts, overlapped, declined>>

(* Mutant of Insert: the handler returns with the donation recorded. *)
InsertAndReturn(h) ==
  /\ hook[h].step = "insert"
  /\ donated' = [donated EXCEPT ![hook[h].report.order] = @ + 1]
  /\ Answered(h)
  /\ UNCHANGED <<orderStatus, payment, attempts, overlapped, declined, troubled, donationFaults>>

Insert(h) ==
  /\ hook[h].step = "insert"
  /\ donated' = [donated EXCEPT ![hook[h].report.order] = @ + 1]
  /\ hook' = [hook EXCEPT ![h].step = "mark"]
  /\ UNCHANGED <<orderStatus, provider, overlapped, declined, troubled, repeats, donationFaults>>

(* The INSERT fails, or its answer is lost: that is logged, and the order marked
   all the same. *)
InsertFails(h) ==
  LET o == hook[h].report.order IN
  /\ hook[h].step = "insert"
  /\ DonationFault(o)
  /\ donated' = [donated EXCEPT ![o] = @ + 1] \/ UNCHANGED donated
  /\ hook' = [hook EXCEPT ![h].step = "mark"]
  /\ UNCHANGED <<orderStatus, provider, overlapped, declined, repeats>>

MarkCompleted(h) ==
  /\ hook[h].step = "mark"
  /\ orderStatus' = [orderStatus EXCEPT ![hook[h].report.order] = "completed"]
  /\ Answered(h)
  /\ UNCHANGED <<donated, payment, attempts, overlapped, declined, troubled, donationFaults>>

MarkFailed(h) ==
  LET o == hook[h].report.order IN
  /\ hook[h].step = "fail"
  /\ orderStatus' = [orderStatus EXCEPT ![o] = "failed"]
  /\ declined' = declined \union {o}
  /\ Answered(h)
  /\ UNCHANGED <<donated, payment, attempts, overlapped, troubled, donationFaults>>

(* Either UPDATE fails, or its answer is lost. *)
MarkingFails(h) ==
  LET o == hook[h].report.order IN
  /\ hook[h].step \in {"mark", "fail"}
  /\ DonationFault(o)
  /\ \/ orderStatus' = [orderStatus EXCEPT ![o] = IF hook[h].step = "mark" THEN "completed"
                                                                           ELSE "failed"]
     \/ UNCHANGED orderStatus
  /\ declined' = IF hook[h].step = "fail" THEN declined \union {o} ELSE declined
  /\ Answered(h)
  /\ UNCHANGED <<donated, payment, attempts, overlapped>>

(* The server dies: the report is not answered, and will be repeated. *)
HookDies(h) ==
  /\ hook[h] # NoHook
  /\ DonationFault(hook[h].report.order)
  /\ hook' = [hook EXCEPT ![h] = NoHook]
  /\ UNCHANGED <<orderStatus, donated, provider, overlapped, declined, repeats>>

HandleReport(h) == LookUp(h) \/ Insert(h) \/ MarkCompleted(h) \/ MarkFailed(h)

-----------------------------------------------------------------------------

DonationNext ==
  \/ \E o \in Orders : CreateDonationOrder(o) \/ AttemptFails(o) \/ Capture(o)
  \/ \E h \in Hooks :
       \/ HandleReport(h)
       \/ LookUpFails(h) \/ InsertFails(h) \/ MarkingFails(h) \/ HookDies(h)
       \/ \E r \in reports : Receive(h, r)

DonationSpec == DonationInit /\ [][DonationNext]_donationVars

(* A request under way goes on, and the provider repeats what is not answered. *)
FairDonationSpec ==
  /\ DonationSpec
  /\ \A h \in Hooks : WF_donationVars(HandleReport(h))
  /\ \A r \in Reports : WF_donationVars(\E h \in Hooks : Receive(h, r))

-----------------------------------------------------------------------------
(* Properties *)

(* A payment is recorded once, although its report may come any number of times:
   unless two requests worked on the order at once, or a failure or crash between
   the INSERT and the UPDATE left it pending. *)
RecordedOnce == \A o \in Orders \ (overlapped \union troubled) : donated[o] <= 1

(* When everything reported of a paid order has been handled, its donation is
   recorded and the order shown completed; unless a statement failed, or an
   attempt to pay had failed before: then the payment is acknowledged and never
   recorded, or recorded and shown failed. *)
Settled(o) == /\ payment[o] = "captured"
              /\ Completed(o) \notin reports
              /\ \A h \in Hooks : ~At(h, o, {"lookup", "insert", "mark", "fail"})
SettledIsRecorded ==
  \A o \in Orders \ (declined \union troubled) :
    Settled(o) => donated[o] >= 1 /\ orderStatus[o] = "completed"

(* Every donation was paid for, and an order is shown completed only when it has
   a donation, unless the INSERT failed. *)
ShownIsRecorded ==
  \A o \in Orders :
    /\ donated[o] > 0 \/ orderStatus[o] = "completed" => payment[o] = "captured"
    /\ orderStatus[o] = "completed" /\ o \notin troubled => donated[o] >= 1

(* A payment, which is never taken back, leads to a donation. *)
PaidIsRecorded ==
  \A o \in Orders :
    []<>(payment[o] = "captured" => donated[o] >= 1 \/ o \in declined \union troubled)
=============================================================================
