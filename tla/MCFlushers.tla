----------------------------- MODULE MCFlushers -----------------------------
(* Messages and receipts on their way to Postgres.  They share no lists, keys or
   columns, so a behaviour moves one of them while the other is as it was at the start.

   The messages are those of MCMessageFlusher.  A user is in two rooms; a phone and a
   router record the user's receipts, two processes flush.  One field makes a chunk. *)
EXTENDS MCMessageFlusher, Receipts

CONSTANTS lounge, hall, phone, router

MCFields    == {lounge, hall}
MCRecorders == {phone, router}
MCProcesses == {server1, server2}

-----------------------------------------------------------------------------
jointVars == <<vars, receiptVars>>

NoMessages == Init /\ UNCHANGED vars
NoReceipts == ReceiptInit /\ UNCHANGED receiptVars

JointInit == Init /\ ReceiptInit
JointNext == \/ Next /\ NoReceipts
             \/ ReceiptNext /\ NoMessages

JointFairness ==
  /\ \A m \in Messages : WF_jointVars(MarkDirty(m) /\ NoReceipts)
  /\ \A f \in Flushers : /\ WF_jointVars(StartCycle(f) /\ NoReceipts)
                         /\ WF_jointVars(EndCycle(f) /\ NoReceipts)
  /\ \A f \in Flushers, r \in Rooms : WF_jointVars(Worker(f, r) /\ NoReceipts)
  /\ \A s \in Processes : WF_jointVars(ReceiptTick(s) /\ NoMessages)

JointSpec == JointInit /\ [][JointNext]_jointVars /\ JointFairness
=============================================================================
