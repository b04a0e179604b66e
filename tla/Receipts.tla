------------------------------- MODULE Receipts -------------------------------
(***************************************************************************)
(* Read and delivery receipts on their way to Postgres.  Whoever records   *)
(* one takes the time and then writes it into a field of a Redis hash, one *)
(* field per room and user: the connections of a user (mark_read and       *)
(* mark_delivered, chat/client.go) and the routers that deliver a message  *)
(* (sendDeliveryReceipts, chat/engine.go).  The flusher's tick drains the  *)
(* hash in a script and updates the rows of room_members chunk by chunk    *)
(* (services/flusher.go).  The two hashes are flushed by the same code and *)
(* share nothing, so the module is about one.                              *)
(*                                                                         *)
(* The definitions carry the name of the module where LikeBuffer has one   *)
(* of the same purpose, as both are proved about together.  Receipts of    *)
(* strangers' rooms are not recorded, those of former members update no    *)
(* row: both are left out.                                                 *)
(***************************************************************************)
EXTENDS Integers, FiniteSets

CONSTANTS Fields,                  \* roomID:userID
          Recorders,               \* connections and routers
          Processes,               \* each with its scheduler
          ReceiptFlushBatchSize,
          MaxClock, MaxReceipts, MaxReceiptFaults   \* bounds

ASSUME ReceiptBatch  == ReceiptFlushBatchSize \in Nat \ {0}
ASSUME ReceiptBounds == MaxClock \in Nat \ {0} /\ MaxReceipts \in Nat /\ MaxReceiptFaults \in Nat

VARIABLES
  clock,       \* the second it is
  recording,   \* the time a recorder has taken and the fields it has still to write
  hash,        \* Redis: the time of a field, or Never
  entries,     \* what a process's tick has drained and not sent yet
  column,      \* room_members.last_read_at or last_delivered_at
  newest,      \* history: the newest time ever written to a field
  overtaken,   \* history: fields whose newest time an older one replaced in the hash
  dropped,     \* history: fields whose newest time may have been lost with a failed
               \* command or statement, or a crash
  receipts, receiptFaults

receiptVars == <<clock, recording, hash, entries, column, newest, overtaken, dropped, receipts,
                 receiptFaults>>

Never   == 0
Times   == 0..MaxClock
Blank   == [k \in Fields |-> Never]
NoRecording == [fields |-> {}, at |-> Never]
In(h)   == {k \in Fields : h[k] # Never}

ReceiptTypeOK ==
  /\ clock \in Times \ {Never}
  /\ recording \in [Recorders -> [fields : SUBSET Fields, at : Times]]
  /\ \A w \in Recorders : recording[w].fields = {} => recording[w] = NoRecording
  /\ hash \in [Fields -> Times]
  /\ entries \in [Processes -> [Fields -> Times]]
  /\ column \in [Fields -> Times]
  /\ newest \in [Fields -> Times]
  /\ overtaken \subseteq Fields /\ dropped \subseteq Fields
  /\ receipts \in 0..MaxReceipts /\ receiptFaults \in 0..MaxReceiptFaults

ReceiptInit ==
  /\ clock = 1
  /\ recording = [w \in Recorders |-> NoRecording]
  /\ hash = Blank /\ column = Blank /\ newest = Blank
  /\ entries = [p \in Processes |-> Blank]
  /\ overtaken = {} /\ dropped = {}
  /\ receipts = 0 /\ receiptFaults = 0

-----------------------------------------------------------------------------
(* mark_read, mark_delivered, sendDeliveryReceipts *)

TimePasses ==
  /\ clock < MaxClock /\ clock' = clock + 1
  /\ UNCHANGED <<recording, hash, entries, column, newest, overtaken, dropped, receipts, receiptFaults>>

(* A connection records a receipt of its user in one room, a router those of all
   recipients in a room: in either case, with one time. *)
TakeTime(w, ks) ==
  /\ recording[w] = NoRecording /\ ks # {}
  /\ receipts < MaxReceipts /\ receipts' = receipts + 1
  /\ recording' = [recording EXCEPT ![w] = [fields |-> ks, at |-> clock]]
  /\ UNCHANGED <<clock, hash, entries, column, newest, overtaken, dropped, receiptFaults>>

Written(w, k) == IF recording[w].fields = {k}
                   THEN NoRecording
                   ELSE [recording[w] EXCEPT !.fields = @ \ {k}]

(* HSET replaces whatever the field holds.  The commands of a pipeline are sent
   together, but it is no transaction. *)
WriteField(w, k) ==
  LET at == recording[w].at IN
  /\ k \in recording[w].fields
  /\ hash'   = [hash EXCEPT ![k] = at]
  /\ newest' = [newest EXCEPT ![k] = IF at >= @ THEN at ELSE @]
  /\ overtaken' = IF at >= newest[k] THEN overtaken \ {k}
                  ELSE IF hash[k] = newest[k] THEN overtaken \union {k} ELSE overtaken
  /\ dropped' = IF at >= newest[k] THEN dropped \ {k} ELSE dropped
  /\ recording' = [recording EXCEPT ![w] = Written(w, k)]
  /\ UNCHANGED <<clock, entries, column, receipts, receiptFaults>>

(* The pipeline fails, and that is logged; or the server dies.  A receipt that
   was never written is nobody's promise. *)
RecorderStops(w) ==
  /\ recording[w] # NoRecording
  /\ recording' = [recording EXCEPT ![w] = NoRecording]
  /\ UNCHANGED <<clock, hash, entries, column, newest, overtaken, dropped, receipts, receiptFaults>>

-----------------------------------------------------------------------------
(* flushReceiptHash *)

ReceiptFault == receiptFaults < MaxReceiptFaults /\ receiptFaults' = receiptFaults + 1

(* Mutant of DrainHash: a hash with less than a batch waits. *)
DrainFullHash(p) ==
  /\ entries[p] = Blank
  /\ Cardinality(In(hash)) > ReceiptFlushBatchSize
  /\ entries' = [entries EXCEPT ![p] = hash]
  /\ hash' = Blank
  /\ UNCHANGED <<clock, recording, column, newest, overtaken, dropped, receipts, receiptFaults>>

(* atomicHGetAllAndDel *)
DrainHash(p) ==
  /\ entries[p] = Blank
  /\ hash # Blank
  /\ entries' = [entries EXCEPT ![p] = hash]
  /\ hash' = Blank
  /\ UNCHANGED <<clock, recording, column, newest, overtaken, dropped, receipts, receiptFaults>>

(* The script is executed and its answer lost: the tick returns. *)
DrainAnswerLost(p) ==
  /\ ReceiptFault
  /\ entries[p] = Blank
  /\ hash # Blank
  /\ hash' = Blank
  /\ dropped' = dropped \union In(hash)
  /\ UNCHANGED <<clock, recording, entries, column, newest, overtaken, receipts>>

(* The chunks are taken in the order of HGETALL, which is any order. *)
Batches(p) ==
  {chunk \in SUBSET In(entries[p]) :
     /\ chunk # {}
     /\ \/ Cardinality(chunk) = ReceiptFlushBatchSize
        \/ chunk = In(entries[p]) /\ Cardinality(chunk) < ReceiptFlushBatchSize}

Sent(p, chunk) == entries' = [entries EXCEPT ![p] = [k \in Fields |-> IF k \in chunk THEN Never ELSE @[k]]]

Later(a, b) == IF a >= b THEN a ELSE b

(* UPDATE room_members SET column = GREATEST(column, v.ts): of a chunk *)
Greatest(chunk, ts) ==
  column' = [k \in Fields |-> IF k \in chunk THEN Later(column[k], ts[k]) ELSE column[k]]

(* Mutant of UpdateChunk: without GREATEST. *)
UpdateChunkOverwrites(p, chunk) ==
  /\ chunk \in Batches(p)
  /\ column' = [k \in Fields |-> IF k \in chunk THEN entries[p][k] ELSE column[k]]
  /\ Sent(p, chunk)
  /\ UNCHANGED <<clock, recording, hash, newest, overtaken, dropped, receipts, receiptFaults>>

(* Mutant of UpdateChunk: the loop ends after the first chunk. *)
UpdateFirstChunkOnly(p, chunk) ==
  /\ chunk \in Batches(p)
  /\ Greatest(chunk, entries[p])
  /\ Sent(p, Fields)
  /\ UNCHANGED <<clock, recording, hash, newest, overtaken, dropped, receipts, receiptFaults>>

UpdateChunk(p, chunk) ==
  /\ chunk \in Batches(p)
  /\ Greatest(chunk, entries[p])
  /\ Sent(p, chunk)
  /\ UNCHANGED <<clock, recording, hash, newest, overtaken, dropped, receipts, receiptFaults>>

(* The statement fails, or its answer is lost after it was executed: that is
   logged, and the loop goes on with the next chunk. *)
UpdateFails(p, chunk) ==
  /\ ReceiptFault
  /\ chunk \in Batches(p)
  /\ Greatest(chunk, entries[p]) \/ UNCHANGED column
  /\ Sent(p, chunk)
  /\ dropped' = dropped \union chunk
  /\ UNCHANGED <<clock, recording, hash, newest, overtaken, receipts>>

(* A process dies during its tick. *)
TickDies(p) ==
  /\ ReceiptFault
  /\ entries[p] # Blank
  /\ dropped' = dropped \union In(entries[p])
  /\ entries' = [entries EXCEPT ![p] = Blank]
  /\ UNCHANGED <<clock, recording, hash, column, newest, overtaken, receipts>>

ReceiptTick(p) == DrainHash(p) \/ \E chunk \in SUBSET Fields : UpdateChunk(p, chunk)

-----------------------------------------------------------------------------

ReceiptNext ==
  \/ TimePasses
  \/ \E w \in Recorders :
       \/ RecorderStops(w)
       \/ \E ks \in SUBSET Fields : TakeTime(w, ks)
       \/ \E k \in Fields : WriteField(w, k)
  \/ \E p \in Processes :
       \/ ReceiptTick(p) \/ DrainAnswerLost(p) \/ TickDies(p)
       \/ \E chunk \in SUBSET Fields : UpdateFails(p, chunk)

ReceiptSpec == ReceiptInit /\ [][ReceiptNext]_receiptVars

(* Every process has a scheduler that ticks for ever. *)
FairReceiptSpec == ReceiptSpec /\ \A p \in Processes : WF_receiptVars(ReceiptTick(p))

-----------------------------------------------------------------------------
(* Properties *)

(* However recorders, ticks of several processes, chunks and failures overlap, the
   newest receipt of a user in a room is in the hash, in the hands of a tick or in
   the row, and nothing newer is anywhere; unless an older one took its place in
   the hash, or a failure lost it, and no newer one came since. *)
Holds(k, t) == hash[k] = t \/ column[k] = t \/ \E p \in Processes : entries[p][k] = t
NewestIsKept ==
  \A k \in Fields :
    /\ hash[k] <= newest[k] /\ column[k] <= newest[k]
    /\ \A p \in Processes : entries[p][k] <= newest[k]
    /\ k \notin overtaken \union dropped => Holds(k, newest[k])

(* A row never goes back to an older receipt, although the hash may, and the
   ticks of two processes may send their chunks in either order. *)
NeverBackwards == [][\A k \in Fields : column[k] <= column'[k]]_receiptVars

(* What is in the hash is in the row in the end, or something newer is, unless it
   is overtaken or dropped on its way. *)
EventuallyInRow ==
  \A k \in Fields, t \in Times \ {Never} :
    hash[k] = t ~> (column[k] >= t \/ k \in overtaken \union dropped)
=============================================================================
