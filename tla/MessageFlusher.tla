--------------------------- MODULE MessageFlusher ---------------------------
(***************************************************************************)
(* The write-behind path of chat messages (chat/client.go bufferMessage,   *)
(* services/flusher.go FlushAllDirtyRooms, flushOneRoom and                *)
(* bulkInsertToPostgres).                                                  *)
(*                                                                         *)
(* A connection pushes a message on the Redis list of its room and then    *)
(* marks the room dirty (two commands of one pipeline, not a transaction). *)
(* Every few seconds a flush cycle takes the whole dirty set and its       *)
(* workers move each room's list to Postgres: rename the list aside, read  *)
(* it, insert it chunk by chunk, delete it; on an insert error rename it   *)
(* back and mark the room again.  A Redis list exists exactly when it is   *)
(* not empty, so a list is a sequence and a missing key is <<>>.           *)
(*                                                                         *)
(* One step is one Redis command or one Postgres batch: everything else in *)
(* the handlers is local to its goroutine.  The filter of empty rows in    *)
(* bulkInsertToPostgres never applies to what readPump buffers (sender     *)
(* stamped, sanitized text non-empty), so a batch's rows are its messages. *)
(***************************************************************************)
EXTENDS Naturals, Sequences, FiniteSets

CONSTANTS Rooms,             \* room ids
          StrangerRooms,     \* those whose id has the prefix "stranger_"
          Messages,          \* messages, each sent at most once
          RoomOf,            \* the room a message is sent to
          Flushers,          \* processes that run the flush cycle (one per server)
          FlushWorkerCount,  \* workers of one cycle
          ChunkSize,         \* rows per INSERT batch
          MaxDbFaults,       \* bounds of the faults that may happen
          MaxRedisFaults,
          MaxCrashes

ASSUME StrangersAreRooms == StrangerRooms \subseteq Rooms
ASSUME RoomOfType        == RoomOf \in [Messages -> Rooms]
ASSUME ChunkSizeType     == ChunkSize \in Nat \ {0}
ASSUME WorkersType       == FlushWorkerCount \in Nat \ {0}
ASSUME FaultBounds       == /\ MaxDbFaults \in Nat
                            /\ MaxRedisFaults \in Nat
                            /\ MaxCrashes \in Nat

VARIABLES
  \* Redis
  buffer,       \* chat:buffer:<room>
  processing,   \* chat:processing:<room>
  deadletter,   \* chat:deadletter:<room>
  dirty,        \* chat:dirty_targets
  \* Postgres
  persisted,    \* rows of table messages, per room, in insertion order
  \* connections
  unmarked,     \* messages pushed whose SADD has not run yet
  \* flusher processes
  cycle,        \* "idle", or a running cycle whose flushFailed is "ok" or "failed"
  job,          \* stage of the worker (or of the queued job) for a room
  rest,         \* rows of the batch not yet sent to Postgres
  failures,     \* consecutiveFlushFailures
  \* history
  accepted,     \* per room, every message pushed, in order
  dbFaults, redisFaults, crashes

redis   == <<buffer, processing, deadletter, dirty>>
flusher == <<cycle, job, rest, failures>>
faults  == <<dbFaults, redisFaults, crashes>>
vars    == <<redis, persisted, unmarked, flusher, accepted, faults>>

Stages == {"none", "queued", "renamed", "inserting", "partial", "remark"}
(* "partial": inserting, and a chunk has failed.  "remark": renamed back after
   a failure, the SADD of the pipeline still to run. *)

TypeOK == /\ buffer     \in [Rooms -> Seq(Messages)]
          /\ processing \in [Rooms -> Seq(Messages)]
          /\ deadletter \in [Rooms -> Seq(Messages)]
          /\ dirty \subseteq Rooms
          /\ persisted  \in [Rooms -> Seq(Messages)]
          /\ unmarked \subseteq Messages
          /\ cycle \in [Flushers -> {"idle", "ok", "failed"}]
          /\ job   \in [Flushers -> [Rooms -> Stages]]
          /\ rest  \in [Flushers -> [Rooms -> Seq(Messages)]]
          /\ failures \in [Flushers -> Nat]
          /\ accepted \in [Rooms -> Seq(Messages)]
          /\ dbFaults \in 0..MaxDbFaults
          /\ redisFaults \in 0..MaxRedisFaults
          /\ crashes \in 0..MaxCrashes

Elems(s) == {s[i] : i \in 1..Len(s)}

Init == /\ buffer     = [r \in Rooms |-> <<>>]
        /\ processing = [r \in Rooms |-> <<>>]
        /\ deadletter = [r \in Rooms |-> <<>>]
        /\ dirty      = {}
        /\ persisted  = [r \in Rooms |-> <<>>]
        /\ unmarked   = {}
        /\ cycle      = [f \in Flushers |-> "idle"]
        /\ job        = [f \in Flushers |-> [r \in Rooms |-> "none"]]
        /\ rest       = [f \in Flushers |-> [r \in Rooms |-> <<>>]]
        /\ failures   = [f \in Flushers |-> 0]
        /\ accepted   = [r \in Rooms |-> <<>>]
        /\ dbFaults = 0 /\ redisFaults = 0 /\ crashes = 0

(* A Redis command fails: a timeout or a lost connection. *)
RedisFault == /\ redisFaults < MaxRedisFaults
              /\ redisFaults' = redisFaults + 1
              /\ UNCHANGED <<dbFaults, crashes>>

DbFault == /\ dbFaults < MaxDbFaults
           /\ dbFaults' = dbFaults + 1
           /\ UNCHANGED <<redisFaults, crashes>>

-----------------------------------------------------------------------------
(* Connections: bufferMessage.  RPUSH, then SADD. *)

Accept(m) ==
  LET r == RoomOf[m] IN
  /\ m \notin Elems(accepted[r])
  /\ buffer'   = [buffer   EXCEPT ![r] = Append(@, m)]
  /\ accepted' = [accepted EXCEPT ![r] = Append(@, m)]
  /\ unmarked' = unmarked \union {m}
  /\ UNCHANGED <<processing, deadletter, dirty, persisted, flusher, faults>>

MarkDirty(m) ==
  /\ m \in unmarked
  /\ unmarked' = unmarked \ {m}
  /\ \/ /\ dirty' = dirty \union {RoomOf[m]}
        /\ UNCHANGED faults
     \/ RedisFault /\ UNCHANGED dirty          \* only logged
  /\ UNCHANGED <<buffer, processing, deadletter, persisted, flusher, accepted>>

-----------------------------------------------------------------------------
(* FlushAllDirtyRooms *)

SmallerOf(a, b) == IF a <= b THEN a ELSE b

BackoffPassed(n) == n = 0 \/ n % (2 ^ SmallerOf(n, 5)) = 0

(* The Lua script returns and deletes the dirty set in one step; its members
   are the jobs of the cycle.  When its reply is lost the set is gone and the
   cycle returns without a job. *)
StartCycle(f) ==
  /\ cycle[f] = "idle"
  /\ BackoffPassed(failures[f])
  /\ dirty # {}
  /\ dirty' = {}
  /\ \/ /\ cycle' = [cycle EXCEPT ![f] = "ok"]
        /\ job'   = [job EXCEPT ![f] =
                        [r \in Rooms |-> IF r \in dirty THEN "queued" ELSE "none"]]
        /\ UNCHANGED faults
     \/ RedisFault /\ UNCHANGED <<cycle, job>>
  /\ UNCHANGED <<buffer, processing, deadletter, persisted, unmarked, rest, failures, accepted>>

(* Mutant of EndCycle: the flag of the cycle is read the wrong way round. *)
EndCycleFlagInverted(f) ==
  /\ cycle[f] # "idle"
  /\ \A r \in Rooms : job[f][r] = "none"
  /\ failures' = [failures EXCEPT ![f] = IF cycle[f] = "failed" THEN 0 ELSE @ + 1]
  /\ cycle'    = [cycle EXCEPT ![f] = "idle"]
  /\ UNCHANGED <<redis, persisted, unmarked, job, rest, accepted, faults>>

(* wg.Wait() returns: every job has been taken and finished. *)
EndCycle(f) ==
  /\ cycle[f] # "idle"
  /\ \A r \in Rooms : job[f][r] = "none"
  /\ failures' = [failures EXCEPT ![f] = IF cycle[f] = "failed" THEN @ + 1 ELSE 0]
  /\ cycle'    = [cycle EXCEPT ![f] = "idle"]
  /\ UNCHANGED <<redis, persisted, unmarked, job, rest, accepted, faults>>

-----------------------------------------------------------------------------
(* flushOneRoom *)

SetJob(f, r, stage) == job' = [job EXCEPT ![f][r] = stage]

(* A worker takes the next job only when it has finished its last one. *)
WorkerFree(f) ==
  Cardinality({r \in Rooms : job[f][r] \notin {"none", "queued"}}) < FlushWorkerCount

DropStrangerBuffer(f, r) ==
  /\ job[f][r] = "queued" /\ WorkerFree(f)
  /\ r \in StrangerRooms
  /\ buffer' = [buffer EXCEPT ![r] = <<>>]
  /\ SetJob(f, r, "none")
  /\ UNCHANGED <<processing, deadletter, dirty, persisted, unmarked, cycle, rest, failures,
                 accepted, faults>>

(* Mutant of RenameAside: a list left over in the processing key is kept. *)
RenameAsideAppends(f, r) ==
  /\ job[f][r] = "queued" /\ WorkerFree(f)
  /\ r \notin StrangerRooms
  /\ IF buffer[r] = <<>>
       THEN SetJob(f, r, "none") /\ UNCHANGED <<buffer, processing>>
       ELSE /\ buffer'     = [buffer     EXCEPT ![r] = <<>>]
            /\ processing' = [processing EXCEPT ![r] = processing[r] \o buffer[r]]
            /\ SetJob(f, r, "renamed")
  /\ UNCHANGED <<deadletter, dirty, persisted, unmarked, cycle, rest, failures, accepted, faults>>

(* RENAME replaces the destination, whatever it held.  Any error, the missing
   key included, ends the job as a success. *)
RenameAside(f, r) ==
  /\ job[f][r] = "queued" /\ WorkerFree(f)
  /\ r \notin StrangerRooms
  /\ IF buffer[r] = <<>>
       THEN SetJob(f, r, "none") /\ UNCHANGED <<buffer, processing>>
       ELSE /\ buffer'     = [buffer     EXCEPT ![r] = <<>>]
            /\ processing' = [processing EXCEPT ![r] = buffer[r]]
            /\ SetJob(f, r, "renamed")
  /\ UNCHANGED <<deadletter, dirty, persisted, unmarked, cycle, rest, failures, accepted, faults>>

(* The command failed, before or after Redis executed it. *)
RenameAsideFails(f, r) ==
  /\ job[f][r] = "queued" /\ WorkerFree(f)
  /\ r \notin StrangerRooms
  /\ RedisFault
  /\ SetJob(f, r, "none")
  /\ \/ UNCHANGED <<buffer, processing>>
     \/ /\ buffer[r] # <<>>
        /\ buffer'     = [buffer     EXCEPT ![r] = <<>>]
        /\ processing' = [processing EXCEPT ![r] = buffer[r]]
  /\ UNCHANGED <<deadletter, dirty, persisted, unmarked, cycle, rest, failures, accepted>>

ReadBatch(f, r) ==
  /\ job[f][r] = "renamed"
  /\ IF processing[r] # <<>>
       THEN /\ rest' = [rest EXCEPT ![f][r] = processing[r]]
            /\ SetJob(f, r, "inserting")
       ELSE UNCHANGED rest /\ SetJob(f, r, "none")
  /\ UNCHANGED <<redis, persisted, unmarked, cycle, failures, accepted, faults>>

(* LRANGE failed: the batch is deleted and the job ends as a success. *)
ReadBatchFails(f, r) ==
  /\ job[f][r] = "renamed"
  /\ RedisFault
  /\ processing' = [processing EXCEPT ![r] = <<>>]
  /\ SetJob(f, r, "none")
  /\ UNCHANGED <<buffer, deadletter, dirty, persisted, unmarked, cycle, rest, failures, accepted>>

(* One turn of the chunk loop.  It goes on after a chunk that failed. *)
ChunkLen(s) == SmallerOf(ChunkSize, Len(s))
Chunk(s)    == SubSeq(s, 1, ChunkLen(s))
(* Mutant of RestOf: the next chunk starts on the last row of this one. *)
RestOfOverlaps(s) == SubSeq(s, ChunkLen(s), Len(s))
RestOf(s)   == SubSeq(s, ChunkLen(s) + 1, Len(s))

InsertChunk(f, r) ==
  /\ job[f][r] \in {"inserting", "partial"}
  /\ rest[f][r] # <<>>
  /\ persisted' = [persisted EXCEPT ![r] = @ \o Chunk(rest[f][r])]
  /\ rest' = [rest EXCEPT ![f][r] = RestOf(@)]
  /\ UNCHANGED <<redis, unmarked, cycle, job, failures, accepted, faults>>

(* InsertBatch returns an error: the chunk was not stored, or it was and the
   answer was lost. *)
InsertChunkFails(f, r) ==
  /\ job[f][r] \in {"inserting", "partial"}
  /\ rest[f][r] # <<>>
  /\ DbFault
  /\ \/ UNCHANGED persisted
     \/ persisted' = [persisted EXCEPT ![r] = @ \o Chunk(rest[f][r])]
  /\ rest' = [rest EXCEPT ![f][r] = RestOf(@)]
  /\ SetJob(f, r, "partial")
  /\ UNCHANGED <<redis, unmarked, cycle, failures, accepted>>

(* Mutant of FinishBatch: the DEL names the buffer key. *)
FinishBatchWrongKey(f, r) ==
  /\ job[f][r] = "inserting"
  /\ rest[f][r] = <<>>
  /\ \/ buffer' = [buffer EXCEPT ![r] = <<>>] /\ UNCHANGED faults
     \/ RedisFault /\ UNCHANGED buffer
  /\ SetJob(f, r, "none")
  /\ UNCHANGED <<processing, deadletter, dirty, persisted, unmarked, cycle, rest, failures, accepted>>

(* Every chunk went in: delete the processed list.  An error of the DEL is
   ignored and leaves the list for the next RENAME to replace. *)
FinishBatch(f, r) ==
  /\ job[f][r] = "inserting"
  /\ rest[f][r] = <<>>
  /\ \/ processing' = [processing EXCEPT ![r] = <<>>] /\ UNCHANGED faults
     \/ RedisFault /\ UNCHANGED processing
  /\ SetJob(f, r, "none")
  /\ UNCHANGED <<buffer, deadletter, dirty, persisted, unmarked, cycle, rest, failures, accepted>>

(* A chunk failed: RENAME the list back over the buffer.  When the key is
   missing the RENAME fails but the SADD after it still runs, and there is
   nothing to move to the dead-letter key. *)
RequeueBatch(f, r) ==
  /\ job[f][r] = "partial"
  /\ rest[f][r] = <<>>
  /\ IF processing[r] = <<>>
       THEN UNCHANGED <<buffer, processing>>
       ELSE /\ buffer'     = [buffer     EXCEPT ![r] = processing[r]]
            /\ processing' = [processing EXCEPT ![r] = <<>>]
  /\ SetJob(f, r, "remark")
  /\ UNCHANGED <<deadletter, dirty, persisted, unmarked, cycle, rest, failures, accepted, faults>>

(* The pipeline failed as a whole: the list goes to the dead-letter key. *)
DeadLetterBatch(f, r) ==
  /\ job[f][r] = "partial"
  /\ rest[f][r] = <<>>
  /\ processing[r] # <<>>
  /\ RedisFault
  /\ deadletter' = [deadletter EXCEPT ![r] = processing[r]]
  /\ processing' = [processing EXCEPT ![r] = <<>>]
  /\ SetJob(f, r, "none")
  /\ cycle' = [cycle EXCEPT ![f] = "failed"]
  /\ UNCHANGED <<buffer, dirty, persisted, unmarked, rest, failures, accepted>>

(* Mutant of RequeueMark: the room is not marked again. *)
RequeueMarkForgotten(f, r) ==
  /\ job[f][r] = "remark"
  /\ UNCHANGED <<dirty, faults>>
  /\ SetJob(f, r, "none")
  /\ cycle' = [cycle EXCEPT ![f] = "failed"]
  /\ UNCHANGED <<buffer, processing, deadletter, persisted, unmarked, rest, failures, accepted>>

RequeueMark(f, r) ==
  /\ job[f][r] = "remark"
  /\ \/ dirty' = dirty \union {r} /\ UNCHANGED faults
     \/ RedisFault /\ UNCHANGED dirty
  /\ SetJob(f, r, "none")
  /\ cycle' = [cycle EXCEPT ![f] = "failed"]
  /\ UNCHANGED <<buffer, processing, deadletter, persisted, unmarked, rest, failures, accepted>>

-----------------------------------------------------------------------------
(* The process dies and restarts: what it held in memory is gone. *)
Crash(f) ==
  /\ crashes < MaxCrashes
  /\ crashes' = crashes + 1
  /\ cycle'    = [cycle    EXCEPT ![f] = "idle"]
  /\ job'      = [job      EXCEPT ![f] = [r \in Rooms |-> "none"]]
  /\ rest'     = [rest     EXCEPT ![f] = [r \in Rooms |-> <<>>]]
  /\ failures' = [failures EXCEPT ![f] = 0]
  /\ UNCHANGED <<redis, persisted, unmarked, accepted, dbFaults, redisFaults>>

Worker(f, r) == \/ DropStrangerBuffer(f, r) \/ RenameAside(f, r)  \/ ReadBatch(f, r)
                \/ InsertChunk(f, r)        \/ FinishBatch(f, r)
                \/ RequeueBatch(f, r)       \/ RequeueMark(f, r)

WorkerFails(f, r) == \/ RenameAsideFails(f, r) \/ ReadBatchFails(f, r)
                     \/ InsertChunkFails(f, r) \/ DeadLetterBatch(f, r)

Next == \/ \E m \in Messages : Accept(m) \/ MarkDirty(m)
        \/ \E f \in Flushers : StartCycle(f) \/ EndCycle(f) \/ Crash(f)
        \/ \E f \in Flushers, r \in Rooms : Worker(f, r) \/ WorkerFails(f, r)

Spec == Init /\ [][Next]_vars

(* A pipeline that was sent is executed; the scheduler ticks for ever; a
   worker goroutine that can move moves. *)
FairSpec == /\ Spec
            /\ \A m \in Messages : WF_vars(MarkDirty(m))
            /\ \A f \in Flushers : WF_vars(StartCycle(f)) /\ WF_vars(EndCycle(f))
            /\ \A f \in Flushers, r \in Rooms : WF_vars(Worker(f, r))

-----------------------------------------------------------------------------
(* Properties *)

StoredRooms == Rooms \ StrangerRooms
NoFaults    == dbFaults = 0 /\ redisFaults = 0 /\ crashes = 0

(* What of room r's messages is between the buffer and Postgres in f's worker. *)
InFlight(f, r) == CASE job[f][r] = "renamed" -> processing[r]
                    [] job[f][r] \in {"inserting", "partial"} -> rest[f][r]
                    [] OTHER -> <<>>

(* Without a fault, the messages of a room are at every moment exactly the
   rows stored, then those its worker holds, then those in the buffer: none is
   lost, stored twice or overtaken, whatever is pushed during a flush.  This
   is the purpose of renaming the list before it is read (flushOneRoom). *)
Conservation ==
  NoFaults => \A f \in Flushers, r \in StoredRooms :
                accepted[r] = persisted[r] \o InFlight(f, r) \o buffer[r]

(* Unless Redis failed or the process died, a buffered list is always known to
   somebody: its room is dirty, or about to be marked, or a job of the running
   cycle that has not renamed it yet.  Taking the dirty set atomically and
   re-marking after a failure are for this. *)
NothingStranded ==
  (redisFaults = 0 /\ crashes = 0) =>
    \A r \in Rooms : buffer[r] # <<>> =>
       \/ r \in dirty
       \/ \E m \in unmarked : RoomOf[m] = r
       \/ \E f \in Flushers : job[f][r] \in {"queued", "remark"}

(* Whatever Redis faults and crashes do, short of an insert error no message
   is stored twice and none is stored before one accepted earlier: a restart
   never replays a batch that was left in the processing list. *)
PositionIn(r, m) == CHOOSE i \in 1..Len(accepted[r]) : accepted[r][i] = m
StoredOnceInOrder ==
  dbFaults = 0 =>
    \A r \in Rooms : \A i, j \in 1..Len(persisted[r]) :
       i < j => PositionIn(r, persisted[r][i]) < PositionIn(r, persisted[r][j])

(* The flusher implements the per-room log. *)
Log == INSTANCE MessageLog WITH
          stored   <- [r \in Rooms |-> persisted[r]],
          degraded <- ~NoFaults
ImplementsLog == Log!LogSpec

(* As long as nothing fails, every message of a persistent room reaches
   Postgres: it stays accepted, and there is always a later state in which it is
   stored. *)
Faulty == ~NoFaults
EventuallyStored ==
  \A m \in Messages : RoomOf[m] \in StoredRooms =>
    []<>(m \in Elems(accepted[RoomOf[m]])
           => m \in Elems(persisted[RoomOf[m]]) \/ Faulty)

-----------------------------------------------------------------------------
(* Statements of the source's comments that the code does not keep. *)

(* flusher.go:159 "Rename the buffer to a "processing" key so new messages go to a
   fresh list. This is our lightweight lock mechanism -- no distributed locks needed":
   from the RENAME to the end of the job the list set aside is the job's own.  What
   its worker has left to insert is the end of that list, and before it reads the list
   is there.  Every server runs a flusher (main.go:110). *)
RenameIsLock ==
  \A f \in Flushers, r \in Rooms :
     /\ job[f][r] \in {"inserting", "partial"}
          => /\ Len(rest[f][r]) <= Len(processing[r])
             /\ rest[f][r] = SubSeq(processing[r], Len(processing[r]) - Len(rest[f][r]) + 1,
                                    Len(processing[r]))
     /\ job[f][r] = "renamed" => processing[r] # <<>>

(* flusher.go:179 "On failure, put the data back so we don't lose messages". *)
NothingLostOnDbFailure ==
  (redisFaults = 0 /\ crashes = 0) =>
     \A r \in StoredRooms :
        Elems(accepted[r]) \subseteq Elems(persisted[r]) \union Elems(buffer[r])
                              \union Elems(processing[r]) \union Elems(deadletter[r])

(* flusher.go:78 "Caps at 2^5 = 32 ticks ... to avoid indefinite stalls": a
   dirty room is taken by some later cycle. *)
NoIndefiniteStall == \A r \in Rooms : (r \in dirty) ~> (r \notin dirty)
=============================================================================
