------------------------ MODULE MessageFlusher_proofs ------------------------
(***************************************************************************)
(* Machine-checked proofs about the message flusher, for every set of      *)
(* rooms and messages, every chunk size, number of workers and number of   *)
(* faults.                                                                 *)
(***************************************************************************)
EXTENDS MessageFlusher, TLAPS, SequenceTheorems

-----------------------------------------------------------------------------
(* The chunk loop: a chunk and what is left of the batch are sequences of
   messages, and together they are the batch. *)
LEMMA ChunkSplits ==
  ASSUME NEW s \in Seq(Messages)
  PROVE  /\ Chunk(s) \in Seq(Messages)
         /\ RestOf(s) \in Seq(Messages)
         /\ s = Chunk(s) \o RestOf(s)
<1>1. /\ Len(s) \in Nat
      /\ \A i \in 1..Len(s) : s[i] \in Messages
  BY LenProperties, ElementOfSeq
<1>2. ChunkLen(s) \in 0..Len(s)
  BY <1>1, ChunkSizeType DEF ChunkLen, SmallerOf
<1>3. Chunk(s) \in Seq(Messages)
  <2>1. /\ 1 \in Int /\ ChunkLen(s) \in Int
        /\ \A i \in 1..ChunkLen(s) : s[i] \in Messages
    BY <1>1, <1>2
  <2> QED BY <2>1, SubSeqProperties DEF Chunk
<1>4. RestOf(s) \in Seq(Messages)
  <2>1. /\ ChunkLen(s) + 1 \in Int /\ Len(s) \in Int
        /\ \A i \in ChunkLen(s)+1..Len(s) : s[i] \in Messages
    BY <1>1, <1>2
  <2> QED BY <2>1, SubSeqProperties DEF RestOf
<1>5. SubSeq(s, 1, ChunkLen(s)) \o SubSeq(s, ChunkLen(s) + 1, Len(s)) = SubSeq(s, 1, Len(s))
  <2>1. /\ 1 \in 1..Len(s)+1
        /\ ChunkLen(s) \in (1-1)..Len(s)
        /\ Len(s) \in ChunkLen(s)..Len(s)
    BY <1>1, <1>2
  <2> QED BY <2>1, ConcatAdjacentSubSeq
<1>6. SubSeq(s, 1, Len(s)) = s
  BY SubSeqFull
<1> QED BY <1>3, <1>4, <1>5, <1>6 DEF Chunk, RestOf

-----------------------------------------------------------------------------
(* The type invariant is inductive. *)

LEMMA InitTypeOK == Init => TypeOK
<1> SUFFICES ASSUME Init PROVE TypeOK
  OBVIOUS
<1>1. <<>> \in Seq(Messages)
  BY EmptySeq
<1> QED BY <1>1, FaultBounds DEF Init, TypeOK, Stages

LEMMA SetJobType ==
  ASSUME job \in [Flushers -> [Rooms -> Stages]],
         NEW f \in Flushers, NEW r \in Rooms, NEW stage \in Stages, SetJob(f, r, stage)
  PROVE  job' \in [Flushers -> [Rooms -> Stages]]
BY DEF SetJob

LEMMA NextTypeOK ==
  ASSUME TypeOK, [Next]_vars
  PROVE  TypeOK'
<1> USE DEF TypeOK
<1>0. <<>> \in Seq(Messages)
  BY EmptySeq
<1>1. ASSUME NEW m \in Messages, Accept(m) PROVE TypeOK'
  <2>1. RoomOf[m] \in Rooms
    BY RoomOfType
  <2>2. /\ Append(buffer[RoomOf[m]], m) \in Seq(Messages)
        /\ Append(accepted[RoomOf[m]], m) \in Seq(Messages)
    BY <2>1, AppendProperties
  <2> QED BY <1>1, <2>1, <2>2 DEF Accept, flusher, faults
<1>2. ASSUME NEW m \in Messages, MarkDirty(m) PROVE TypeOK'
  BY <1>2, RoomOfType, FaultBounds DEF MarkDirty, RedisFault, flusher, faults
<1>3. ASSUME NEW f \in Flushers, StartCycle(f) PROVE TypeOK'
  <2>1. /\ cycle' \in [Flushers -> {"idle", "ok", "failed"}]
        /\ job' \in [Flushers -> [Rooms -> Stages]]
    <3>1. [r \in Rooms |-> IF r \in dirty THEN "queued" ELSE "none"] \in [Rooms -> Stages]
      BY DEF Stages
    <3> QED BY <1>3, <3>1 DEF StartCycle
  <2>2. redisFaults' \in 0..MaxRedisFaults /\ UNCHANGED <<dbFaults, crashes>>
    BY <1>3, FaultBounds DEF StartCycle, RedisFault, faults
  <2> QED BY <1>3, <2>1, <2>2 DEF StartCycle
<1>4. ASSUME NEW f \in Flushers, EndCycle(f) PROVE TypeOK'
  BY <1>4 DEF EndCycle, redis, faults
<1>5. ASSUME NEW f \in Flushers, Crash(f) PROVE TypeOK'
  BY <1>5, <1>0, FaultBounds DEF Crash, redis, Stages
<1>6. ASSUME NEW f \in Flushers, NEW r \in Rooms, Worker(f, r) PROVE TypeOK'
  <2>1. CASE DropStrangerBuffer(f, r)
    BY <2>1, <1>0 DEF DropStrangerBuffer, SetJob, faults, Stages
  <2>2. CASE RenameAside(f, r)
    <3>1. CASE buffer[r] = <<>>
      <4>1. SetJob(f, r, "none") /\ UNCHANGED <<buffer, processing>>
        BY <2>2, <3>1 DEF RenameAside
      <4> QED BY <2>2, <4>1, SetJobType DEF RenameAside, faults, Stages
    <3>2. CASE buffer[r] # <<>>
      <4>1. /\ SetJob(f, r, "renamed")
            /\ buffer'     = [buffer     EXCEPT ![r] = <<>>]
            /\ processing' = [processing EXCEPT ![r] = buffer[r]]
        BY <2>2, <3>2 DEF RenameAside
      <4>2. buffer' \in [Rooms -> Seq(Messages)] /\ processing' \in [Rooms -> Seq(Messages)]
        BY <4>1, <1>0
      <4> QED BY <2>2, <4>1, <4>2, SetJobType DEF RenameAside, faults, Stages
    <3> QED BY <3>1, <3>2
  <2>3. CASE ReadBatch(f, r)
    <3>1. CASE processing[r] # <<>>
      <4>1. rest' = [rest EXCEPT ![f][r] = processing[r]] /\ SetJob(f, r, "inserting")
        BY <2>3, <3>1 DEF ReadBatch
      <4>2. rest' \in [Flushers -> [Rooms -> Seq(Messages)]]
        BY <4>1
      <4> QED BY <2>3, <4>1, <4>2, SetJobType DEF ReadBatch, redis, faults, Stages
    <3>2. CASE processing[r] = <<>>
      <4>1. UNCHANGED rest /\ SetJob(f, r, "none")
        BY <2>3, <3>2 DEF ReadBatch
      <4> QED BY <2>3, <4>1, SetJobType DEF ReadBatch, redis, faults, Stages
    <3> QED BY <3>1, <3>2
  <2>4. CASE InsertChunk(f, r)
    <3>1. rest[f][r] \in Seq(Messages)
      OBVIOUS
    <3>2. /\ RestOf(rest[f][r]) \in Seq(Messages)
          /\ persisted[r] \o Chunk(rest[f][r]) \in Seq(Messages)
      BY <3>1, ChunkSplits, ConcatProperties
    <3> QED BY <2>4, <3>2 DEF InsertChunk, redis, faults
  <2>5. CASE FinishBatch(f, r)
    <3>1. CASE UNCHANGED faults
      BY <2>5, <3>1, <1>0 DEF FinishBatch, SetJob, RedisFault, faults, Stages
    <3>2. CASE RedisFault /\ UNCHANGED processing
      BY <2>5, <3>2, FaultBounds DEF FinishBatch, SetJob, RedisFault, Stages
    <3> QED BY <2>5, <3>1, <3>2 DEF FinishBatch
  <2>6. CASE RequeueBatch(f, r)
    BY <2>6, <1>0 DEF RequeueBatch, SetJob, faults, Stages
  <2>7. CASE RequeueMark(f, r)
    BY <2>7, FaultBounds DEF RequeueMark, SetJob, RedisFault, faults, Stages
  <2> QED BY <1>6, <2>1, <2>2, <2>3, <2>4, <2>5, <2>6, <2>7 DEF Worker
<1>7. ASSUME NEW f \in Flushers, NEW r \in Rooms, WorkerFails(f, r) PROVE TypeOK'
  <2>1. CASE RenameAsideFails(f, r)
    <3>1. CASE UNCHANGED <<buffer, processing>>
      BY <2>1, <3>1, FaultBounds DEF RenameAsideFails, SetJob, RedisFault, Stages
    <3>2. CASE buffer[r] # <<>> /\ ~UNCHANGED <<buffer, processing>>
      <4>1. /\ buffer'     = [buffer     EXCEPT ![r] = <<>>]
            /\ processing' = [processing EXCEPT ![r] = buffer[r]]
        BY <2>1, <3>2 DEF RenameAsideFails
      <4>2. buffer' \in [Rooms -> Seq(Messages)] /\ processing' \in [Rooms -> Seq(Messages)]
        BY <4>1, <1>0
      <4> QED BY <2>1, <4>2, SetJobType, FaultBounds DEF RenameAsideFails, RedisFault, Stages
    <3> QED BY <2>1, <3>1, <3>2 DEF RenameAsideFails
  <2>2. CASE ReadBatchFails(f, r)
    BY <2>2, <1>0, FaultBounds DEF ReadBatchFails, SetJob, RedisFault, Stages
  <2>3. CASE InsertChunkFails(f, r)
    <3>1. rest[f][r] \in Seq(Messages)
      OBVIOUS
    <3>2. /\ RestOf(rest[f][r]) \in Seq(Messages)
          /\ persisted[r] \o Chunk(rest[f][r]) \in Seq(Messages)
      BY <3>1, ChunkSplits, ConcatProperties
    <3>3. persisted' \in [Rooms -> Seq(Messages)]
      BY <2>3, <3>2 DEF InsertChunkFails
    <3>4. dbFaults' \in 0..MaxDbFaults /\ UNCHANGED <<redisFaults, crashes>>
      BY <2>3, FaultBounds DEF InsertChunkFails, DbFault
    <3> QED BY <2>3, <3>2, <3>3, <3>4 DEF InsertChunkFails, SetJob, redis, Stages
  <2>4. CASE DeadLetterBatch(f, r)
    BY <2>4, <1>0, FaultBounds DEF DeadLetterBatch, SetJob, RedisFault, Stages
  <2> QED BY <1>7, <2>1, <2>2, <2>3, <2>4 DEF WorkerFails
<1>8. CASE UNCHANGED vars
  BY <1>8 DEF vars, redis, flusher, faults
<1> QED BY <1>1, <1>2, <1>3, <1>4, <1>5, <1>6, <1>7, <1>8 DEF Next

(* Every variable keeps its type, whatever fails: in particular a batch in
   flight, a requeued and a dead-lettered list only ever hold messages. *)
THEOREM TypeCorrect == Spec => []TypeOK
<1>1. Init => TypeOK
  BY InitTypeOK
<1>2. TypeOK /\ [Next]_vars => TypeOK'
  BY NextTypeOK
<1> QED BY <1>1, <1>2, PTL DEF Spec

-----------------------------------------------------------------------------
(* Conservation.  As it stands it is not inductive: StartCycle replaces every
   job of the flusher, so the invariant must say that an idle flusher has
   none, and a requeue overwrites the buffer, so it must say that without a
   fault no job is being requeued. *)

IdleHasNoJob == \A f \in Flushers : cycle[f] = "idle" => \A r \in Rooms : job[f][r] = "none"

NoFailedJob == \A f \in Flushers, r \in Rooms : job[f][r] \notin {"partial", "remark"}

Conserved(f, r) == accepted[r] = (persisted[r] \o InFlight(f, r)) \o buffer[r]

IInv == /\ TypeOK
        /\ IdleHasNoJob
        /\ NoFaults => NoFailedJob /\ \A f \in Flushers, r \in StoredRooms : Conserved(f, r)

(* LRANGE fills the rest of its own job only. *)
LEMMA ReadBatchOtherRoom ==
  ASSUME TypeOK, NEW f \in Flushers, NEW r \in Rooms, NEW q \in Rooms, q # r,
         ReadBatch(f, r)
  PROVE  rest'[f][q] = rest[f][q]
<1>1. rest \in [Flushers -> [Rooms -> Seq(Messages)]]
  BY DEF TypeOK
<1>2. CASE processing[r] # <<>>
  <2>1. rest' = [rest EXCEPT ![f][r] = processing[r]]
    BY <1>2 DEF ReadBatch
  <2> QED BY <1>1, <2>1
<1>3. CASE processing[r] = <<>>
  BY <1>3 DEF ReadBatch
<1> QED BY <1>2, <1>3

(* The value of InFlight, stage by stage. *)
LEMMA InFlightValue ==
  ASSUME NEW f, NEW r
  PROVE  /\ job[f][r] = "renamed" => InFlight(f, r) = processing[r]
         /\ job[f][r] \in {"inserting", "partial"} => InFlight(f, r) = rest[f][r]
         /\ job[f][r] \notin {"renamed", "inserting", "partial"} => InFlight(f, r) = <<>>
BY DEF InFlight

LEMMA InFlightType ==
  ASSUME TypeOK, NEW f \in Flushers, NEW r \in Rooms
  PROVE  InFlight(f, r) \in Seq(Messages)
<1>1. /\ processing[r] \in Seq(Messages)
      /\ rest[f][r] \in Seq(Messages)
      /\ <<>> \in Seq(Messages)
  BY EmptySeq DEF TypeOK
<1> QED BY <1>1, InFlightValue

(* Appending to what is conserved, and moving a chunk within it. *)
LEMMA AppendConserves ==
  ASSUME NEW s \in Seq(Messages), NEW b \in Seq(Messages), NEW m \in Messages
  PROVE  Append(s \o b, m) = s \o Append(b, m)
<1>1. <<m>> \in Seq(Messages)
  OBVIOUS
<1>2. Append(s \o b, m) = (s \o b) \o <<m>> /\ Append(b, m) = b \o <<m>>
  BY ConcatProperties, AppendIsConcat
<1>3. (s \o b) \o <<m>> = s \o (b \o <<m>>)
  BY <1>1, ConcatAssociative
<1> QED BY <1>2, <1>3

LEMMA ChunkConserves ==
  ASSUME NEW p \in Seq(Messages), NEW s \in Seq(Messages)
  PROVE  p \o s = (p \o Chunk(s)) \o RestOf(s)
<1>1. Chunk(s) \in Seq(Messages) /\ RestOf(s) \in Seq(Messages)
  BY ChunkSplits
<1>2. s = Chunk(s) \o RestOf(s)
  BY ChunkSplits
<1>3. ASSUME NEW c \in Seq(Messages), NEW t \in Seq(Messages)
      PROVE  p \o (c \o t) = (p \o c) \o t
  BY ConcatAssociative
<1>4. p \o (Chunk(s) \o RestOf(s)) = (p \o Chunk(s)) \o RestOf(s)
  BY <1>1, <1>3, Zenon
<1> QED BY <1>2, <1>4, Zenon

(* What a step does not touch stays conserved. *)
LEMMA Untouched ==
  ASSUME NEW f, NEW r, Conserved(f, r),
         accepted'[r] = accepted[r], persisted'[r] = persisted[r], buffer'[r] = buffer[r],
         InFlight(f, r)' = InFlight(f, r)
  PROVE  Conserved(f, r)'
BY DEF Conserved

(* A fault is counted, and the counters never go back. *)
LEMMA NoFaultsBefore ==
  ASSUME TypeOK, Next, NoFaults'
  PROVE  NoFaults /\ UNCHANGED faults
<1> USE DEF NoFaults, TypeOK, faults
<1>1. ASSUME RedisFault PROVE FALSE
  BY <1>1, FaultBounds DEF RedisFault
<1>2. ASSUME DbFault PROVE FALSE
  BY <1>2, FaultBounds DEF DbFault
<1>3. ASSUME NEW f \in Flushers, Crash(f) PROVE FALSE
  BY <1>3, FaultBounds DEF Crash
<1>4. ASSUME NEW f \in Flushers, NEW r \in Rooms, WorkerFails(f, r) PROVE FALSE
  BY <1>4, <1>1, <1>2 DEF WorkerFails, RenameAsideFails, ReadBatchFails, InsertChunkFails,
                          DeadLetterBatch
<1>5. ASSUME NEW f \in Flushers, NEW r \in Rooms, Worker(f, r) PROVE UNCHANGED faults
  BY <1>5, <1>1 DEF Worker, DropStrangerBuffer, RenameAside, ReadBatch, InsertChunk,
                    FinishBatch, RequeueBatch, RequeueMark
<1>6. ASSUME NEW f \in Flushers, StartCycle(f) \/ EndCycle(f) PROVE UNCHANGED faults
  BY <1>6, <1>1 DEF StartCycle, EndCycle
<1>7. ASSUME NEW m \in Messages, Accept(m) \/ MarkDirty(m) PROVE UNCHANGED faults
  BY <1>7, <1>1 DEF Accept, MarkDirty
<1>8. UNCHANGED faults
  BY <1>3, <1>4, <1>5, <1>6, <1>7 DEF Next
<1> QED BY <1>8

LEMMA IdleStep ==
  ASSUME TypeOK, IdleHasNoJob, [Next]_vars
  PROVE  IdleHasNoJob'
<1> USE DEF TypeOK, IdleHasNoJob
<1>1. ASSUME NEW m \in Messages, Accept(m) \/ MarkDirty(m) PROVE IdleHasNoJob'
  BY <1>1 DEF Accept, MarkDirty, flusher
<1>2. ASSUME NEW f \in Flushers, StartCycle(f) PROVE IdleHasNoJob'
  BY <1>2 DEF StartCycle
<1>3. ASSUME NEW f \in Flushers, EndCycle(f) PROVE IdleHasNoJob'
  BY <1>3 DEF EndCycle
<1>4. ASSUME NEW f \in Flushers, Crash(f) PROVE IdleHasNoJob'
  BY <1>4 DEF Crash
<1>5. ASSUME NEW f \in Flushers, NEW r \in Rooms, job[f][r] # "none",
             cycle' = cycle \/ cycle' = [cycle EXCEPT ![f] = "failed"],
             job' = job \/ \E stage \in Stages : SetJob(f, r, stage)
      PROVE  IdleHasNoJob'
  <2>1. cycle[f] # "idle"
    BY <1>5
  <2>2. cycle'[f] # "idle" /\ \A g \in Flushers \ {f} : cycle'[g] = cycle[g]
    BY <1>5, <2>1
  <2>3. \A g \in Flushers \ {f} : job'[g] = job[g]
    BY <1>5 DEF SetJob
  <2>4. ASSUME NEW g \in Flushers, cycle'[g] = "idle", NEW q \in Rooms PROVE job'[g][q] = "none"
    <3>1. g \in Flushers \ {f}
      BY <2>2, <2>4
    <3>2. cycle'[g] = cycle[g] /\ job'[g] = job[g]
      BY <2>2, <2>3, <3>1
    <3> QED BY <3>2, <2>4
  <2> QED BY <2>4
<1>6. ASSUME NEW f \in Flushers, NEW r \in Rooms, Worker(f, r) PROVE IdleHasNoJob'
  <2>1. job[f][r] # "none"
    BY <1>6 DEF Worker, DropStrangerBuffer, RenameAside, ReadBatch, InsertChunk,
                FinishBatch, RequeueBatch, RequeueMark
  <2>2. cycle' = cycle \/ cycle' = [cycle EXCEPT ![f] = "failed"]
    BY <1>6 DEF Worker, DropStrangerBuffer, RenameAside, ReadBatch, InsertChunk,
                FinishBatch, RequeueBatch, RequeueMark
  <2>3. job' = job \/ \E stage \in Stages : SetJob(f, r, stage)
    BY <1>6 DEF Worker, DropStrangerBuffer, RenameAside, ReadBatch, InsertChunk,
                FinishBatch, RequeueBatch, RequeueMark, Stages
  <2> QED BY <2>1, <2>2, <2>3, <1>5
<1>7. ASSUME NEW f \in Flushers, NEW r \in Rooms, WorkerFails(f, r) PROVE IdleHasNoJob'
  BY <1>7, <1>5 DEF WorkerFails, RenameAsideFails, ReadBatchFails, InsertChunkFails,
                    DeadLetterBatch, Stages
<1>8. CASE UNCHANGED vars
  BY <1>8 DEF vars, flusher
<1> QED BY <1>1, <1>2, <1>3, <1>4, <1>6, <1>7, <1>8 DEF Next

(* One step of the only flusher, or of a connection, keeps what is conserved. *)
LEMMA ConservationStep ==
  ASSUME \A f, g \in Flushers : f = g,
         IInv, Next, TypeOK', NoFaults'
  PROVE  NoFailedJob' /\ \A f \in Flushers, r \in StoredRooms : Conserved(f, r)'
<1> USE DEF TypeOK
<1>0. /\ NoFaults /\ UNCHANGED faults
      /\ NoFailedJob
      /\ \A f \in Flushers, r \in StoredRooms : Conserved(f, r)
      /\ StoredRooms \subseteq Rooms
  BY NoFaultsBefore DEF IInv, StoredRooms
<1>a. /\ ~RedisFault /\ ~DbFault
      /\ \A f \in Flushers : ~Crash(f)
      /\ \A f \in Flushers, r \in Rooms : ~WorkerFails(f, r)
  <2>1. ~RedisFault /\ ~DbFault
    BY <1>0 DEF RedisFault, DbFault, faults
  <2>2. \A f \in Flushers : ~Crash(f)
    BY <1>0 DEF Crash, faults
  <2> QED BY <2>1, <2>2 DEF WorkerFails, RenameAsideFails, ReadBatchFails, InsertChunkFails,
                            DeadLetterBatch
<1>1. ASSUME NEW m \in Messages, Accept(m)
      PROVE  NoFailedJob' /\ \A f \in Flushers, r \in StoredRooms : Conserved(f, r)'
  <2>1. NoFailedJob'
    BY <1>0, <1>1 DEF NoFailedJob, Accept, flusher
  <2>2. ASSUME NEW f \in Flushers, NEW r \in StoredRooms PROVE Conserved(f, r)'
    <3>0. InFlight(f, r)' = InFlight(f, r)
      BY <1>1 DEF Accept, flusher, InFlight
    <3>1. CASE r # RoomOf[m]
      <4>1. accepted'[r] = accepted[r] /\ persisted'[r] = persisted[r] /\ buffer'[r] = buffer[r]
        BY <1>0, <1>1, <3>1 DEF Accept
      <4> QED BY <1>0, <3>0, <4>1, Untouched
    <3>2. CASE r = RoomOf[m]
      <4> DEFINE stored == persisted[r] \o InFlight(f, r)
      <4>1. /\ accepted'[r] = Append(accepted[r], m)
            /\ buffer'[r] = Append(buffer[r], m)
            /\ persisted'[r] = persisted[r]
        BY <1>0, <1>1, <3>2 DEF Accept
      <4>2. /\ stored \in Seq(Messages)
            /\ buffer[r] \in Seq(Messages)
            /\ accepted[r] \in Seq(Messages)
        <5>1. InFlight(f, r) \in Seq(Messages)
          BY <1>0, InFlightType DEF IInv
        <5>2. persisted[r] \in Seq(Messages)
          BY <1>0 DEF IInv
        <5> QED BY <5>1, <5>2, <1>0, ConcatProperties DEF IInv
      <4>3. accepted[r] = stored \o buffer[r]
        BY <1>0 DEF Conserved
      <4>4. Append(accepted[r], m) = stored \o Append(buffer[r], m)
        <5>1. \A s, b \in Seq(Messages) : Append(s \o b, m) = s \o Append(b, m)
          BY AppendConserves
        <5> HIDE DEF stored
        <5> QED BY <5>1, <4>2, <4>3, Zenon
      <4>6. accepted'[r] = stored \o buffer'[r]
        BY <4>1, <4>4
      <4> QED BY <4>1, <4>6, <3>0 DEF Conserved
    <3> QED BY <3>1, <3>2
  <2> QED BY <2>1, <2>2
<1>2. ASSUME NEW m \in Messages, MarkDirty(m)
      PROVE  NoFailedJob' /\ \A f \in Flushers, r \in StoredRooms : Conserved(f, r)'
  <2>1. NoFailedJob'
    BY <1>0, <1>2 DEF NoFailedJob, MarkDirty, flusher
  <2>2. ASSUME NEW f \in Flushers, NEW r \in StoredRooms PROVE Conserved(f, r)'
    <3>1. InFlight(f, r)' = InFlight(f, r)
      BY <1>2 DEF MarkDirty, flusher, InFlight
    <3> QED BY <1>0, <1>2, <3>1, Untouched DEF MarkDirty
  <2> QED BY <2>1, <2>2
<1>3. ASSUME NEW f \in Flushers, StartCycle(f)
      PROVE  NoFailedJob' /\ \A g \in Flushers, r \in StoredRooms : Conserved(g, r)'
  <2>1. job' = [job EXCEPT ![f] = [r \in Rooms |-> IF r \in dirty THEN "queued" ELSE "none"]]
    BY <1>3, <1>a DEF StartCycle
  <2>2. NoFailedJob'
    BY <1>0, <2>1 DEF NoFailedJob, IInv
  <2>3. ASSUME NEW g \in Flushers, NEW r \in StoredRooms PROVE Conserved(g, r)'
    <3>0. g = f
      OBVIOUS
    <3>1. job[g][r] = "none"
      BY <1>0, <1>3, <3>0 DEF StartCycle, IInv, IdleHasNoJob
    <3>2. job'[g][r] \in {"queued", "none"}
      BY <1>0, <2>1, <3>0 DEF IInv
    <3>3. InFlight(g, r) = <<>>
      BY <3>1, InFlightValue
    <3>4. InFlight(g, r)' = <<>>
      BY <3>2 DEF InFlight
    <3> QED BY <1>0, <1>3, <3>3, <3>4, Untouched DEF StartCycle
  <2> QED BY <2>2, <2>3
<1>4. ASSUME NEW f \in Flushers, EndCycle(f)
      PROVE  NoFailedJob' /\ \A g \in Flushers, r \in StoredRooms : Conserved(g, r)'
  <2>1. NoFailedJob'
    BY <1>0, <1>4 DEF NoFailedJob, EndCycle
  <2>2. ASSUME NEW g \in Flushers, NEW r \in StoredRooms PROVE Conserved(g, r)'
    <3>1. InFlight(g, r)' = InFlight(g, r)
      BY <1>4 DEF EndCycle, redis, InFlight
    <3> QED BY <1>0, <1>4, <3>1, Untouched DEF EndCycle, redis
  <2> QED BY <2>1, <2>2
<1>5. ASSUME NEW f \in Flushers, NEW r \in Rooms, Worker(f, r)
      PROVE  NoFailedJob' /\ \A g \in Flushers, q \in StoredRooms : Conserved(g, q)'
  <2> USE DEF IInv
  <2>0. job[f][r] \notin {"partial", "remark"}
    BY <1>0 DEF NoFailedJob
  <2>1. \/ DropStrangerBuffer(f, r) \/ RenameAside(f, r) \/ ReadBatch(f, r)
        \/ InsertChunk(f, r) \/ FinishBatch(f, r)
    BY <1>5, <2>0 DEF Worker, RequeueBatch, RequeueMark
  <2>2. job' = job \/ \E stage \in {"none", "renamed", "inserting"} : SetJob(f, r, stage)
    BY <2>1 DEF DropStrangerBuffer, RenameAside, ReadBatch, InsertChunk, FinishBatch
  <2>3. NoFailedJob'
    <3>1. CASE job' = job
      BY <1>0, <3>1 DEF NoFailedJob
    <3>2. ASSUME NEW stage \in {"none", "renamed", "inserting"}, SetJob(f, r, stage)
          PROVE  NoFailedJob'
      BY <1>0, <3>2 DEF NoFailedJob, SetJob
    <3> QED BY <2>2, <3>1, <3>2
  <2>4. ASSUME NEW q \in Rooms, q # r
        PROVE  /\ accepted'[q] = accepted[q] /\ persisted'[q] = persisted[q]
               /\ buffer'[q] = buffer[q] /\ InFlight(f, q)' = InFlight(f, q)
    <3>1. job'[f][q] = job[f][q]
      <4>1. ASSUME NEW stage, SetJob(f, r, stage) PROVE job'[f][q] = job[f][q]
        BY <1>0, <2>4, <4>1 DEF SetJob
      <4> QED BY <2>2, <4>1
    <3>2. /\ accepted'[q] = accepted[q] /\ persisted'[q] = persisted[q]
          /\ buffer'[q] = buffer[q] /\ processing'[q] = processing[q]
          /\ rest'[f][q] = rest[f][q]
      <4>1. CASE DropStrangerBuffer(f, r)
        BY <1>0, <2>4, <4>1 DEF DropStrangerBuffer
      <4>2. CASE RenameAside(f, r)
        BY <1>0, <2>4, <4>2 DEF RenameAside
      <4>3. CASE ReadBatch(f, r)
        <5>1. UNCHANGED <<redis, persisted, accepted>>
          BY <4>3 DEF ReadBatch
        <5>2. rest'[f][q] = rest[f][q]
          BY <1>0, <2>4, <4>3, ReadBatchOtherRoom
        <5> QED BY <5>1, <5>2 DEF redis
      <4>4. CASE InsertChunk(f, r)
        BY <1>0, <2>4, <4>4 DEF InsertChunk, redis
      <4>5. CASE FinishBatch(f, r)
        BY <1>0, <2>4, <4>5 DEF FinishBatch
      <4> QED BY <2>1, <4>1, <4>2, <4>3, <4>4, <4>5
    <3> QED BY <3>1, <3>2 DEF InFlight
  <2>5. ASSUME r \in StoredRooms PROVE Conserved(f, r)'
    <3> DEFINE P == persisted[r]
               B == buffer[r]
    <3>0. /\ accepted[r] = (P \o InFlight(f, r)) \o B
          /\ P \in Seq(Messages) /\ B \in Seq(Messages)
          /\ <<>> \in Seq(Messages)
          /\ P \o B \in Seq(Messages)
          /\ P \o <<>> = P /\ B \o <<>> = B /\ <<>> \o B = B
      BY <1>0, <2>5, EmptySeq, ConcatEmptySeq, ConcatProperties DEF Conserved
    <3>1. ~DropStrangerBuffer(f, r)
      BY <2>5 DEF DropStrangerBuffer, StoredRooms
    <3>2. CASE RenameAside(f, r)
      <4>1. InFlight(f, r) = <<>>
        <5>1. job[f][r] = "queued"
          BY <3>2 DEF RenameAside
        <5> QED BY <5>1 DEF InFlight
      <4>2. accepted[r] = P \o B
        BY <3>0, <4>1
      <4>3. CASE B = <<>>
        <5>1. SetJob(f, r, "none") /\ UNCHANGED <<buffer, processing>>
          BY <3>2, <4>3 DEF RenameAside
        <5>2. job'[f][r] = "none"
          BY <5>1, <1>0 DEF SetJob
        <5>3. InFlight(f, r)' = <<>>
          BY <5>2 DEF InFlight
        <5> QED BY <3>2, <5>1, <5>3, <4>1, <1>0, <2>5, Untouched DEF RenameAside
      <4>4. CASE B # <<>>
        <5>1. /\ SetJob(f, r, "renamed")
              /\ buffer'     = [buffer     EXCEPT ![r] = <<>>]
              /\ processing' = [processing EXCEPT ![r] = buffer[r]]
          BY <3>2, <4>4 DEF RenameAside
        <5>2. job'[f][r] = "renamed" /\ buffer'[r] = <<>> /\ processing'[r] = B
          BY <5>1, <1>0 DEF SetJob
        <5>3. InFlight(f, r)' = B
          BY <5>2 DEF InFlight
        <5>4. accepted'[r] = accepted[r] /\ persisted'[r] = P
          BY <3>2 DEF RenameAside
        <5>5. (P \o B) \o <<>> = P \o B
          BY <3>0, ConcatEmptySeq
        <5> QED BY <5>2, <5>3, <5>4, <5>5, <4>2 DEF Conserved
      <4> QED BY <4>3, <4>4
    <3>3. CASE ReadBatch(f, r)
      <4>1. InFlight(f, r) = processing[r]
        BY <3>3, InFlightValue DEF ReadBatch
      <4>2. CASE processing[r] # <<>>
        <5>1. rest' = [rest EXCEPT ![f][r] = processing[r]] /\ SetJob(f, r, "inserting")
          BY <3>3, <4>2 DEF ReadBatch
        <5>2. job'[f][r] = "inserting" /\ rest'[f][r] = processing[r]
          BY <5>1, <1>0 DEF SetJob
        <5>3. InFlight(f, r)' = processing[r]
          BY <5>2 DEF InFlight
        <5> QED BY <3>3, <4>1, <5>3, <1>0, <2>5, Untouched DEF ReadBatch, redis
      <4>3. CASE processing[r] = <<>>
        <5>1. SetJob(f, r, "none")
          BY <3>3, <4>3 DEF ReadBatch
        <5>2. job'[f][r] = "none"
          BY <5>1, <1>0 DEF SetJob
        <5>3. InFlight(f, r)' = <<>>
          BY <5>2 DEF InFlight
        <5> QED BY <3>3, <4>1, <4>3, <5>3, <1>0, <2>5, Untouched DEF ReadBatch, redis
      <4> QED BY <4>2, <4>3
    <3>4. CASE InsertChunk(f, r)
      <4> DEFINE s == rest[f][r]
      <4>1. job[f][r] = "inserting" /\ InFlight(f, r) = s
        BY <3>4, <2>0, InFlightValue DEF InsertChunk
      <4>2. P \o s = (P \o Chunk(s)) \o RestOf(s)
        <5>1. P \in Seq(Messages) /\ s \in Seq(Messages)
          BY <1>0
        <5> HIDE DEF P, s
        <5> QED BY <5>1, ChunkConserves
      <4>4. /\ persisted'[r] = P \o Chunk(s)
            /\ rest'[f][r] = RestOf(s)
            /\ job'[f][r] = "inserting"
            /\ buffer'[r] = B /\ accepted'[r] = accepted[r]
        BY <3>4, <4>1, <1>0, <2>5 DEF InsertChunk, redis
      <4>5. InFlight(f, r)' = RestOf(s)
        BY <4>4 DEF InFlight
      <4>6. accepted[r] = ((P \o Chunk(s)) \o RestOf(s)) \o B
        BY <3>0, <4>1, <4>2
      <4> QED BY <4>4, <4>5, <4>6 DEF Conserved
    <3>5. CASE FinishBatch(f, r)
      <4>1. InFlight(f, r) = <<>>
        BY <3>5, InFlightValue DEF FinishBatch
      <4>2. job'[f][r] = "none"
        BY <3>5, <1>0, <2>5 DEF FinishBatch, SetJob
      <4>3. InFlight(f, r)' = <<>>
        BY <4>2 DEF InFlight
      <4> QED BY <3>5, <4>1, <4>3, <1>0, <2>5, Untouched DEF FinishBatch
    <3> QED BY <2>1, <3>1, <3>2, <3>3, <3>4, <3>5
  <2>6. ASSUME NEW g \in Flushers, NEW q \in StoredRooms PROVE Conserved(g, q)'
    <3>1. g = f /\ q \in Rooms
      BY <1>0
    <3>2. CASE q = r
      BY <3>1, <3>2, <2>5
    <3>3. CASE q # r
      BY <3>1, <3>3, <2>4, <1>0, Untouched
    <3> QED BY <3>2, <3>3
  <2> QED BY <2>3, <2>6
<1> QED BY <1>1, <1>2, <1>3, <1>4, <1>5, <1>a DEF Next

LEMMA IInvInit == Init => IInv
<1> SUFFICES ASSUME Init PROVE IInv
  OBVIOUS
<1>1. TypeOK
  BY InitTypeOK
<1>2. IdleHasNoJob /\ NoFailedJob
  BY DEF Init, IdleHasNoJob, NoFailedJob
<1>3. ASSUME NEW f \in Flushers, NEW r \in StoredRooms PROVE Conserved(f, r)
  <2>1. r \in Rooms
    BY DEF StoredRooms
  <2>2. accepted[r] = <<>> /\ persisted[r] = <<>> /\ buffer[r] = <<>> /\ job[f][r] = "none"
    BY <2>1 DEF Init
  <2>3. InFlight(f, r) = <<>>
    BY <2>2, InFlightValue
  <2>4. (<<>> \o <<>>) \o <<>> = <<>>
    BY EmptySeq, ConcatEmptySeq
  <2> QED BY <2>2, <2>3, <2>4 DEF Conserved
<1> QED BY <1>1, <1>2, <1>3 DEF IInv

LEMMA IInvStep ==
  ASSUME \A f, g \in Flushers : f = g, IInv, [Next]_vars
  PROVE  IInv'
<1>1. TypeOK'
  BY NextTypeOK DEF IInv
<1>2. IdleHasNoJob'
  BY IdleStep DEF IInv
<1>3. ASSUME Next, NoFaults'
      PROVE  NoFailedJob' /\ \A f \in Flushers, r \in StoredRooms : Conserved(f, r)'
  BY <1>1, <1>3, ConservationStep
<1>4. ASSUME UNCHANGED vars, NoFaults'
      PROVE  NoFailedJob' /\ \A f \in Flushers, r \in StoredRooms : Conserved(f, r)'
  BY <1>4 DEF IInv, vars, redis, flusher, faults, NoFaults, NoFailedJob, Conserved, InFlight
<1> QED BY <1>1, <1>2, <1>3, <1>4 DEF IInv

(* With one server and as long as nothing fails, the rows stored, the batch in
   flight and the buffer of a room are together exactly what was accepted in
   it, in order: the flusher neither loses, repeats nor reorders a message. *)
THEOREM ConservationHolds ==
  ASSUME \A f, g \in Flushers : f = g
  PROVE  Spec => []Conservation
<1>1. Init => IInv
  BY IInvInit
<1>2. IInv /\ [Next]_vars => IInv'
  BY IInvStep
<1>3. IInv => Conservation
  BY DEF IInv, Conservation, Conserved
<1> QED BY <1>1, <1>2, <1>3, PTL DEF Spec

-----------------------------------------------------------------------------
(* Nothing stranded: who knows of the list of a room.  It takes no hypothesis
   on the number of servers. *)

Known(r) == \/ r \in dirty
            \/ \E m \in unmarked : RoomOf[m] = r
            \/ \E f \in Flushers : job[f][r] \in {"queued", "remark"}

StrandInv == /\ TypeOK
             /\ IdleHasNoJob
             /\ NothingStranded

(* A worker that goes on from a stage in which it does not know of the list
   leaves what others know. *)
LEMMA StaysKnown ==
  ASSUME TypeOK, NEW f \in Flushers, NEW r \in Rooms, NEW q \in Rooms, NEW stage \in Stages,
         SetJob(f, r, stage), q # r \/ job[f][r] \notin {"queued", "remark"},
         dirty \subseteq dirty', UNCHANGED unmarked, Known(q)
  PROVE  Known(q)'
<1>1. ASSUME NEW g \in Flushers, job[g][q] \in {"queued", "remark"}
      PROVE  job'[g][q] \in {"queued", "remark"}
  <2>1. g # f \/ q # r
    BY <1>1
  <2>2. job'[g][q] = job[g][q]
    BY <2>1 DEF SetJob, TypeOK
  <2> QED BY <1>1, <2>2
<1> QED BY <1>1 DEF Known

LEMMA StrandedStep ==
  ASSUME StrandInv, Next, redisFaults' = 0, crashes' = 0, NEW q \in Rooms, buffer'[q] # <<>>
  PROVE  Known(q)'
<1> USE DEF TypeOK, StrandInv
<1>0. /\ redisFaults = 0 /\ crashes = 0 /\ ~RedisFault /\ \A f \in Flushers : ~Crash(f)
      /\ buffer[q] # <<>> => Known(q)
  <2>1. ~RedisFault
    BY FaultBounds DEF RedisFault
  <2>2. \A f \in Flushers : ~Crash(f)
    BY FaultBounds DEF Crash
  <2>3. redisFaults' = redisFaults /\ crashes' = crashes
    <3>1. ASSUME NEW m \in Messages, Accept(m) \/ MarkDirty(m)
          PROVE  redisFaults' = redisFaults /\ crashes' = crashes
      BY <2>1, <3>1 DEF Accept, MarkDirty, faults
    <3>2. ASSUME NEW f \in Flushers, StartCycle(f) \/ EndCycle(f)
          PROVE  redisFaults' = redisFaults /\ crashes' = crashes
      BY <2>1, <3>2 DEF StartCycle, EndCycle, faults
    <3>3. ASSUME NEW f \in Flushers, NEW r \in Rooms, Worker(f, r)
          PROVE  redisFaults' = redisFaults /\ crashes' = crashes
      BY <2>1, <3>3 DEF Worker, DropStrangerBuffer, RenameAside, ReadBatch, InsertChunk,
                        FinishBatch, RequeueBatch, RequeueMark, faults
    <3>4. ASSUME NEW f \in Flushers, NEW r \in Rooms, WorkerFails(f, r)
          PROVE  redisFaults' = redisFaults /\ crashes' = crashes
      BY <2>1, <3>4 DEF WorkerFails, RenameAsideFails, ReadBatchFails, InsertChunkFails,
                        DeadLetterBatch, DbFault
    <3> QED BY <2>2, <3>1, <3>2, <3>3, <3>4 DEF Next
  <2>4. redisFaults = 0 /\ crashes = 0
    BY <2>3
  <2> QED BY <2>1, <2>2, <2>4 DEF NothingStranded, Known
<1>1. ASSUME NEW m \in Messages, Accept(m) PROVE Known(q)'
  <2>1. CASE q = RoomOf[m]
    BY <1>1, <2>1 DEF Accept, Known
  <2>2. CASE q # RoomOf[m]
    <3>1. buffer'[q] = buffer[q]
      BY <1>1, <2>2 DEF Accept
    <3> QED BY <1>0, <1>1, <3>1 DEF Accept, flusher, Known
  <2> QED BY <2>1, <2>2
<1>2. ASSUME NEW m \in Messages, MarkDirty(m) PROVE Known(q)'
  BY <1>0, <1>2 DEF MarkDirty, flusher, Known
<1>3. ASSUME NEW f \in Flushers, StartCycle(f) PROVE Known(q)'
  <2>1. /\ job' = [job EXCEPT ![f] = [r \in Rooms |-> IF r \in dirty THEN "queued" ELSE "none"]]
        /\ UNCHANGED <<buffer, unmarked>>
    BY <1>0, <1>3 DEF StartCycle
  <2>2. CASE q \in dirty
    <3>1. job'[f][q] = "queued"
      BY <2>1, <2>2
    <3> QED BY <3>1 DEF Known
  <2>3. ASSUME NEW g \in Flushers, job[g][q] \in {"queued", "remark"} PROVE Known(q)'
    <3>1. g # f
      BY <1>3, <2>3 DEF StartCycle, IdleHasNoJob
    <3>2. job'[g][q] = job[g][q]
      BY <2>1, <3>1
    <3> QED BY <2>3, <3>2 DEF Known
  <2>4. CASE \E m \in unmarked : RoomOf[m] = q
    BY <2>1, <2>4 DEF Known
  <2> QED BY <1>0, <2>1, <2>2, <2>3, <2>4 DEF Known
<1>4. ASSUME NEW f \in Flushers, EndCycle(f) PROVE Known(q)'
  BY <1>0, <1>4 DEF EndCycle, redis, Known
<1>5. ASSUME NEW f \in Flushers, NEW r \in Rooms, Worker(f, r) PROVE Known(q)'
  <2>1. CASE DropStrangerBuffer(f, r)
    <3>1. q # r /\ buffer'[q] = buffer[q]
      BY <2>1 DEF DropStrangerBuffer
    <3> QED BY <1>0, <2>1, <3>1, StaysKnown DEF DropStrangerBuffer, Stages
  <2>2. CASE RenameAside(f, r)
    <3>1. q # r /\ buffer'[q] = buffer[q]
      BY <2>2 DEF RenameAside
    <3>2. SetJob(f, r, "none") \/ SetJob(f, r, "renamed")
      BY <2>2 DEF RenameAside
    <3> QED BY <1>0, <2>2, <3>1, <3>2, StaysKnown DEF RenameAside, Stages
  <2>3. CASE ReadBatch(f, r)
    <3>1. SetJob(f, r, "none") \/ SetJob(f, r, "inserting")
      BY <2>3 DEF ReadBatch
    <3> QED BY <1>0, <2>3, <3>1, StaysKnown DEF ReadBatch, redis, Stages
  <2>4. CASE InsertChunk(f, r)
    BY <1>0, <2>4 DEF InsertChunk, redis, Known
  <2>5. CASE FinishBatch(f, r)
    BY <1>0, <2>5, StaysKnown DEF FinishBatch, Stages
  <2>6. CASE RequeueBatch(f, r)
    <3>1. CASE q = r
      <4>1. job'[f][q] = "remark"
        BY <2>6, <3>1 DEF RequeueBatch, SetJob
      <4> QED BY <4>1 DEF Known
    <3>2. CASE q # r
      <4>1. buffer'[q] = buffer[q]
        BY <2>6, <3>2 DEF RequeueBatch
      <4> QED BY <1>0, <2>6, <3>2, <4>1, StaysKnown DEF RequeueBatch, Stages
    <3> QED BY <3>1, <3>2
  <2>7. CASE RequeueMark(f, r)
    <3>1. dirty' = dirty \union {r} /\ UNCHANGED <<buffer, unmarked>> /\ SetJob(f, r, "none")
      BY <1>0, <2>7 DEF RequeueMark
    <3>2. CASE q = r
      BY <3>1, <3>2 DEF Known
    <3>3. CASE q # r
      BY <1>0, <3>1, <3>3, StaysKnown DEF Stages
    <3> QED BY <3>2, <3>3
  <2> QED BY <1>5, <2>1, <2>2, <2>3, <2>4, <2>5, <2>6, <2>7 DEF Worker
<1>6. ASSUME NEW f \in Flushers, NEW r \in Rooms, WorkerFails(f, r) PROVE Known(q)'
  <2>1. InsertChunkFails(f, r)
    BY <1>0, <1>6 DEF WorkerFails, RenameAsideFails, ReadBatchFails, DeadLetterBatch
  <2> QED BY <1>0, <2>1, StaysKnown DEF InsertChunkFails, redis, Stages
<1> QED BY <1>0, <1>1, <1>2, <1>3, <1>4, <1>5, <1>6 DEF Next

(* As long as no Redis command fails and no process dies, a list that is not
   empty is known to somebody who will mark its room or take it, whatever
   inserts fail and however many servers flush: taking the dirty set in one
   script and marking again after a failed insert leave no gap. *)
THEOREM NothingStaysStranded == Spec => []NothingStranded
<1>1. Init => StrandInv
  <2> SUFFICES ASSUME Init PROVE StrandInv
    OBVIOUS
  <2>1. TypeOK
    BY InitTypeOK
  <2> QED BY <2>1 DEF Init, StrandInv, IdleHasNoJob, NothingStranded
<1>2. StrandInv /\ [Next]_vars => StrandInv'
  <2> SUFFICES ASSUME StrandInv, [Next]_vars PROVE StrandInv'
    OBVIOUS
  <2>1. TypeOK' /\ IdleHasNoJob'
    BY NextTypeOK, IdleStep DEF StrandInv
  <2>2. NothingStranded'
    <3>1. CASE Next
      BY <3>1, StrandedStep DEF NothingStranded, Known
    <3>2. CASE UNCHANGED vars
      BY <3>2 DEF vars, redis, flusher, faults, StrandInv, NothingStranded
    <3> QED BY <3>1, <3>2
  <2> QED BY <2>1, <2>2 DEF StrandInv
<1>3. StrandInv => NothingStranded
  BY DEF StrandInv
<1> QED BY <1>1, <1>2, <1>3, PTL DEF Spec

-----------------------------------------------------------------------------
(* Stored once and in order.  Rows, batch in flight and buffer are an ascending
   part of what was accepted: faults of Redis and crashes only take pieces out
   of it.  That no job is in its failed stages, as long as no insert failed, is
   needed because a requeue puts rows back that may be stored. *)

Ascending(acc, s) ==
  /\ \A i \in 1..Len(s) : \E k \in 1..Len(acc) : acc[k] = s[i]
  /\ \A i, j \in 1..Len(s) : i < j =>
       \A k, l \in 1..Len(acc) : acc[k] = s[i] /\ acc[l] = s[j] => k < l

Ordered(f, r) == Ascending(accepted[r], (persisted[r] \o InFlight(f, r)) \o buffer[r])

OrderInv == /\ TypeOK
            /\ dbFaults = 0 => NoFailedJob /\ \A f \in Flushers, r \in Rooms : Ordered(f, r)

(* A message accepted for the first time goes to the end of both. *)
LEMMA AppendAscends ==
  ASSUME NEW acc \in Seq(Messages), NEW s \in Seq(Messages), NEW m \in Messages,
         Ascending(acc, s), m \notin Elems(acc)
  PROVE  Ascending(Append(acc, m), Append(s, m))
<1>1. /\ Len(acc) \in Nat /\ Len(s) \in Nat
      /\ Len(Append(acc, m)) = Len(acc) + 1 /\ Len(Append(s, m)) = Len(s) + 1
      /\ \A k \in 1..Len(acc) : Append(acc, m)[k] = acc[k]
      /\ \A i \in 1..Len(s) : Append(s, m)[i] = s[i]
      /\ Append(acc, m)[Len(acc) + 1] = m /\ Append(s, m)[Len(s) + 1] = m
  BY LenProperties, AppendProperties
<1>2. \A k \in 1..Len(acc) : acc[k] # m
  BY DEF Elems
<1> DEFINE bcc == Append(acc, m)
           t   == Append(s, m)
<1>3. ASSUME NEW i \in 1..Len(t) PROVE \E k \in 1..Len(bcc) : bcc[k] = t[i]
  <2>1. CASE i = Len(s) + 1
    BY <1>1, <2>1
  <2>2. CASE i \in 1..Len(s)
    <3>1. PICK k \in 1..Len(acc) : acc[k] = s[i]
      BY <2>2 DEF Ascending
    <3>2. k \in 1..Len(bcc) /\ bcc[k] = t[i]
      BY <1>1, <2>2, <3>1
    <3> QED BY <3>2
  <2> QED BY <1>1, <2>1, <2>2
<1>4. ASSUME NEW i \in 1..Len(t), NEW j \in 1..Len(t), i < j,
             NEW k \in 1..Len(bcc), NEW l \in 1..Len(bcc), bcc[k] = t[i], bcc[l] = t[j]
      PROVE  k < l
  <2>1. i \in 1..Len(s) /\ t[i] = s[i]
    BY <1>1, <1>4
  <2>2. PICK n \in 1..Len(acc) : acc[n] = s[i]
    BY <2>1 DEF Ascending
  <2>3. k \in 1..Len(acc) /\ acc[k] = s[i]
    BY <1>1, <1>2, <1>4, <2>1, <2>2, SMTT(30)
  <2>4. CASE l = Len(acc) + 1
    BY <2>3, <2>4
  <2>5. CASE l \in 1..Len(acc)
    <3>1. acc[l] = t[j] /\ acc[l] # m
      BY <1>1, <1>2, <1>4, <2>5
    <3>2. j \in 1..Len(s) /\ t[j] = s[j]
      BY <1>1, <3>1
    <3> QED BY <1>4, <2>1, <2>3, <2>5, <3>1, <3>2 DEF Ascending
  <2> QED BY <1>1, <2>4, <2>5
<1> HIDE DEF bcc, t
<1> QED BY <1>3, <1>4 DEF Ascending, bcc, t

(* Taking out a piece. *)
LEMMA DropAscends ==
  ASSUME NEW acc \in Seq(Messages), NEW p \in Seq(Messages), NEW d \in Seq(Messages),
         NEW b \in Seq(Messages), Ascending(acc, (p \o d) \o b)
  PROVE  Ascending(acc, p \o b)
<1> DEFINE s == (p \o d) \o b
           t == p \o b
           Old(i) == IF i <= Len(p) THEN i ELSE Len(d) + i
<1>1. Len(acc) \in Nat /\ Len(p) \in Nat /\ Len(d) \in Nat /\ Len(b) \in Nat
  BY LenProperties
<1>2. /\ p \o d \in Seq(Messages)
      /\ Len(p \o d) = Len(p) + Len(d)
      /\ \A i \in 1..Len(p)+Len(d) : (p \o d)[i] = IF i <= Len(p) THEN p[i] ELSE d[i - Len(p)]
  BY ConcatProperties
<1>3. /\ Len(s) = Len(p) + Len(d) + Len(b)
      /\ \A i \in 1..Len(p)+Len(d)+Len(b) :
            s[i] = IF i <= Len(p) + Len(d) THEN (p \o d)[i] ELSE b[i - (Len(p) + Len(d))]
  <2>1. \A q \in Seq(Messages) :
          /\ Len(q \o b) = Len(q) + Len(b)
          /\ \A i \in 1..Len(q)+Len(b) : (q \o b)[i] = IF i <= Len(q) THEN q[i] ELSE b[i - Len(q)]
    BY ConcatProperties
  <2> QED BY <1>2, <2>1
<1>4. /\ Len(t) = Len(p) + Len(b)
      /\ \A i \in 1..Len(p)+Len(b) : t[i] = IF i <= Len(p) THEN p[i] ELSE b[i - Len(p)]
  BY ConcatProperties
<1> HIDE DEF s, t
<1>5. ASSUME NEW i \in 1..Len(t) PROVE Old(i) \in 1..Len(s) /\ t[i] = s[Old(i)]
  <2>1. CASE i <= Len(p)
    BY <1>1, <1>2, <1>3, <1>4, <2>1
  <2>2. CASE ~(i <= Len(p))
    <3>1. /\ Old(i) = Len(d) + i /\ Old(i) \in 1..Len(p)+Len(d)+Len(b)
          /\ ~(Old(i) <= Len(p) + Len(d))
      BY <1>1, <1>4, <2>2
    <3>2. s[Old(i)] = b[Old(i) - (Len(p) + Len(d))]
      BY <1>3, <3>1
    <3>3. Old(i) - (Len(p) + Len(d)) = i - Len(p)
      BY <1>1, <1>4, <3>1
    <3> QED BY <1>1, <1>3, <1>4, <2>2, <3>1, <3>2, <3>3
  <2> QED BY <2>1, <2>2
<1>6. \A i, j \in 1..Len(t) : i < j => Old(i) < Old(j)
  BY <1>1, <1>4
<1>7. /\ \A i \in 1..Len(s) : \E k \in 1..Len(acc) : acc[k] = s[i]
      /\ \A i, j \in 1..Len(s) : i < j =>
            \A k, l \in 1..Len(acc) : acc[k] = s[i] /\ acc[l] = s[j] => k < l
  BY DEF Ascending, s
<1> HIDE DEF Old
<1>8. \A i \in 1..Len(t) : \E k \in 1..Len(acc) : acc[k] = t[i]
  BY <1>5, <1>7
<1>9. \A i, j \in 1..Len(t) : i < j =>
         \A k, l \in 1..Len(acc) : acc[k] = t[i] /\ acc[l] = t[j] => k < l
  BY <1>5, <1>6, <1>7, SMTT(30)
<1> QED BY <1>8, <1>9 DEF Ascending, t

LEMMA PrefixAscends ==
  ASSUME NEW acc \in Seq(Messages), NEW p \in Seq(Messages), NEW b \in Seq(Messages),
         Ascending(acc, p \o b)
  PROVE  Ascending(acc, p)
<1>1. p \o b = (p \o b) \o <<>> /\ p = p \o <<>> /\ <<>> \in Seq(Messages)
  <2>1. p \o b \in Seq(Messages)
    BY ConcatProperties
  <2> QED BY <2>1, ConcatEmptySeq, EmptySeq
<1>2. Ascending(acc, (p \o b) \o <<>>)
  BY <1>1
<1>3. Ascending(acc, p \o <<>>)
  BY <1>1, <1>2, DropAscends
<1> QED BY <1>1, <1>3

(* What a step may do to the pieces of a room: nothing, lose the batch in
   flight, lose the buffer with it, take the buffer as the batch, store a chunk. *)
LEMMA OrderedAfter ==
  ASSUME TypeOK, NEW f \in Flushers, NEW r \in Rooms, Ordered(f, r),
         accepted'[r] = accepted[r],
         \/ /\ persisted'[r] = persisted[r] /\ buffer'[r] = buffer[r]
            /\ InFlight(f, r)' \in {InFlight(f, r), <<>>}
         \/ /\ persisted'[r] = persisted[r] /\ buffer'[r] = <<>>
            /\ InFlight(f, r)' = <<>>
         \/ /\ persisted'[r] = persisted[r] /\ buffer'[r] = <<>>
            /\ InFlight(f, r) = <<>> /\ InFlight(f, r)' = buffer[r]
         \/ /\ persisted'[r] = persisted[r] \o Chunk(InFlight(f, r)) /\ buffer'[r] = buffer[r]
            /\ InFlight(f, r)' = RestOf(InFlight(f, r))
  PROVE  Ordered(f, r)'
<1> DEFINE A == accepted[r]
           P == persisted[r]
           F == InFlight(f, r)
           B == buffer[r]
<1>1. /\ A \in Seq(Messages) /\ P \in Seq(Messages) /\ B \in Seq(Messages)
      /\ <<>> \in Seq(Messages)
  BY EmptySeq DEF TypeOK
<1>2. F \in Seq(Messages)
  BY InFlightType
<1>3. Ascending(A, (P \o F) \o B)
  BY DEF Ordered
<1>4. Ordered(f, r)' <=> Ascending(A, (persisted'[r] \o InFlight(f, r)') \o buffer'[r])
  BY DEF Ordered
<1>5. /\ P \o <<>> = P /\ P \o B \in Seq(Messages)
      /\ \A s \in Seq(Messages) : s \o <<>> = s
  BY <1>1, ConcatProperties, ConcatEmptySeq
<1>6. Ascending(A, P \o B) /\ Ascending(A, P)
  <2> HIDE DEF A, P, F, B
  <2> QED BY <1>1, <1>2, <1>3, DropAscends, PrefixAscends
<1>7. CASE /\ persisted'[r] = P /\ buffer'[r] = B
           /\ InFlight(f, r)' \in {F, <<>>}
  BY <1>3, <1>4, <1>5, <1>6, <1>7
<1>8. CASE /\ persisted'[r] = P /\ buffer'[r] = <<>>
           /\ InFlight(f, r)' = <<>>
  BY <1>4, <1>5, <1>6, <1>8
<1>9. CASE /\ persisted'[r] = P /\ buffer'[r] = <<>>
           /\ F = <<>> /\ InFlight(f, r)' = B
  <2>1. (P \o B) \o <<>> = P \o B
    BY <1>5
  <2> QED BY <1>4, <1>6, <1>9, <2>1
<1>10. CASE /\ persisted'[r] = P \o Chunk(F) /\ buffer'[r] = B
            /\ InFlight(f, r)' = RestOf(F)
  <2>1. P \o F = (P \o Chunk(F)) \o RestOf(F)
    <3> HIDE DEF P, F
    <3> QED BY <1>1, <1>2, ChunkConserves
  <2> QED BY <1>3, <1>4, <1>10, <2>1
<1> QED BY <1>7, <1>8, <1>9, <1>10

LEMMA OrderedStep ==
  ASSUME NEW server, Flushers = {server}, OrderInv, Next, dbFaults' = 0, NEW q \in Rooms
  PROVE  NoFailedJob' /\ Ordered(server, q)'
<1> USE DEF TypeOK
<1>0. TypeOK /\ dbFaults = 0 /\ ~DbFault
  <2>1. ~DbFault
    BY FaultBounds DEF DbFault, OrderInv
  <2>2. ASSUME NEW m \in Messages, Accept(m) \/ MarkDirty(m) PROVE dbFaults' = dbFaults
    BY <2>2 DEF Accept, MarkDirty, RedisFault, faults
  <2>3. ASSUME StartCycle(server) \/ EndCycle(server) \/ Crash(server)
        PROVE  dbFaults' = dbFaults
    BY <2>3 DEF StartCycle, EndCycle, Crash, RedisFault, faults
  <2>4. ASSUME NEW r \in Rooms, Worker(server, r) PROVE dbFaults' = dbFaults
    BY <2>4 DEF Worker, DropStrangerBuffer, RenameAside, ReadBatch, InsertChunk, FinishBatch,
                RequeueBatch, RequeueMark, RedisFault, faults
  <2>5. ASSUME NEW r \in Rooms, WorkerFails(server, r) PROVE dbFaults' = dbFaults
    BY <2>1, <2>5 DEF WorkerFails, RenameAsideFails, ReadBatchFails, InsertChunkFails,
                      DeadLetterBatch, RedisFault
  <2> QED BY <2>1, <2>2, <2>3, <2>4, <2>5 DEF Next, OrderInv
<1>1. NoFailedJob /\ Ordered(server, q)
  BY <1>0 DEF OrderInv
<1>2. ASSUME UNCHANGED <<persisted, buffer, accepted, job, processing, rest>>
      PROVE  NoFailedJob' /\ Ordered(server, q)'
  BY <1>1, <1>2 DEF NoFailedJob, Ordered, InFlight
<1>3. ASSUME NEW m \in Messages, Accept(m) PROVE NoFailedJob' /\ Ordered(server, q)'
  <2>1. NoFailedJob' /\ InFlight(server, q)' = InFlight(server, q)
    BY <1>1, <1>3 DEF NoFailedJob, Accept, flusher, InFlight
  <2>2. CASE q # RoomOf[m]
    <3>1. accepted'[q] = accepted[q] /\ persisted'[q] = persisted[q] /\ buffer'[q] = buffer[q]
      BY <1>0, <1>3, <2>2 DEF Accept
    <3> QED BY <1>1, <2>1, <3>1 DEF Ordered
  <2>3. CASE q = RoomOf[m]
    <3> DEFINE A == accepted[q]
               S == persisted[q] \o InFlight(server, q)
               B == buffer[q]
    <3>1. /\ accepted'[q] = Append(A, m)
          /\ buffer'[q] = Append(B, m)
          /\ persisted'[q] = persisted[q]
          /\ m \notin Elems(A)
      BY <1>0, <1>3, <2>3 DEF Accept
    <3>2. A \in Seq(Messages) /\ S \in Seq(Messages) /\ B \in Seq(Messages)
      <4>1. InFlight(server, q) \in Seq(Messages) /\ persisted[q] \in Seq(Messages)
        BY <1>0, InFlightType
      <4> QED BY <1>0, <4>1, ConcatProperties
    <3>3. Ascending(A, S \o B)
      BY <1>1 DEF Ordered
    <3>4. Ascending(Append(A, m), S \o Append(B, m))
      <4> HIDE DEF A, S, B
      <4>1. Append(S \o B, m) = S \o Append(B, m)
        BY <3>2, AppendConserves
      <4>2. S \o B \in Seq(Messages)
        BY <3>2, ConcatProperties
      <4>3. Ascending(Append(A, m), Append(S \o B, m))
        BY <3>1, <3>2, <3>3, <4>2, AppendAscends
      <4> QED BY <4>1, <4>3
    <3> QED BY <2>1, <3>1, <3>4 DEF Ordered
  <2> QED BY <2>2, <2>3
<1>4. ASSUME NEW m \in Messages, MarkDirty(m) PROVE NoFailedJob' /\ Ordered(server, q)'
  BY <1>2, <1>4 DEF MarkDirty, flusher
<1>5. ASSUME StartCycle(server) PROVE NoFailedJob' /\ Ordered(server, q)'
  <2>1. CASE UNCHANGED job
    BY <1>2, <1>5, <2>1 DEF StartCycle
  <2>2. CASE job' = [job EXCEPT ![server] =
                        [r \in Rooms |-> IF r \in dirty THEN "queued" ELSE "none"]]
    <3>1. \A r \in Rooms : job'[server][r] \in {"queued", "none"}
      BY <1>0, <2>2
    <3>2. InFlight(server, q)' = <<>>
      BY <3>1 DEF InFlight
    <3>3. NoFailedJob'
      BY <3>1 DEF NoFailedJob
    <3> QED BY <1>0, <1>1, <1>5, <3>2, <3>3, OrderedAfter DEF StartCycle
  <2> QED BY <1>5, <2>1, <2>2 DEF StartCycle
<1>6. ASSUME EndCycle(server) PROVE NoFailedJob' /\ Ordered(server, q)'
  BY <1>2, <1>6 DEF EndCycle, redis
<1>7. ASSUME Crash(server) PROVE NoFailedJob' /\ Ordered(server, q)'
  <2>1. \A r \in Rooms : job'[server][r] = "none"
    BY <1>0, <1>7 DEF Crash
  <2>2. InFlight(server, q)' = <<>>
    BY <2>1 DEF InFlight
  <2>3. NoFailedJob'
    BY <2>1 DEF NoFailedJob
  <2>4. UNCHANGED <<accepted, persisted, buffer>>
    BY <1>7 DEF Crash, redis
  <2> QED BY <1>0, <1>1, <2>2, <2>3, <2>4, OrderedAfter
<1>8. ASSUME NEW r \in Rooms, Worker(server, r) \/ WorkerFails(server, r)
      PROVE  NoFailedJob' /\ Ordered(server, q)'
  <2>1. \/ DropStrangerBuffer(server, r) \/ RenameAside(server, r) \/ ReadBatch(server, r)
        \/ InsertChunk(server, r) \/ FinishBatch(server, r)
        \/ RenameAsideFails(server, r) \/ ReadBatchFails(server, r)
    <3>1. job[server][r] \notin {"partial", "remark"}
      BY <1>1 DEF NoFailedJob
    <3> QED BY <1>0, <1>8, <3>1 DEF Worker, WorkerFails, InsertChunkFails, RequeueBatch,
                                    RequeueMark, DeadLetterBatch
  <2>2. job' = job \/ \E stage \in {"none", "renamed", "inserting"} : SetJob(server, r, stage)
    BY <2>1 DEF DropStrangerBuffer, RenameAside, ReadBatch, InsertChunk, FinishBatch,
                RenameAsideFails, ReadBatchFails
  <2>3. NoFailedJob'
    <3>1. CASE job' = job
      BY <1>1, <3>1 DEF NoFailedJob
    <3>2. ASSUME NEW stage \in {"none", "renamed", "inserting"}, SetJob(server, r, stage)
          PROVE  NoFailedJob'
      BY <1>0, <1>1, <3>2 DEF NoFailedJob, SetJob
    <3> QED BY <2>2, <3>1, <3>2
  <2>4. ASSUME q # r PROVE Ordered(server, q)'
    <3>1. job'[server][q] = job[server][q]
      <4>1. ASSUME NEW stage, SetJob(server, r, stage) PROVE job'[server][q] = job[server][q]
        BY <1>0, <2>4, <4>1 DEF SetJob
      <4> QED BY <2>2, <4>1
    <3>2. /\ accepted'[q] = accepted[q] /\ persisted'[q] = persisted[q]
          /\ buffer'[q] = buffer[q] /\ processing'[q] = processing[q]
          /\ rest'[server][q] = rest[server][q]
      <4>1. CASE DropStrangerBuffer(server, r)
        BY <1>0, <2>4, <4>1 DEF DropStrangerBuffer
      <4>2. CASE RenameAside(server, r)
        BY <1>0, <2>4, <4>2 DEF RenameAside
      <4>3. CASE ReadBatch(server, r)
        BY <1>0, <2>4, <4>3 DEF ReadBatch, redis
      <4>4. CASE InsertChunk(server, r)
        BY <1>0, <2>4, <4>4 DEF InsertChunk, redis
      <4>5. CASE FinishBatch(server, r)
        BY <1>0, <2>4, <4>5 DEF FinishBatch
      <4>6. CASE RenameAsideFails(server, r)
        BY <1>0, <2>4, <4>6 DEF RenameAsideFails
      <4>7. CASE ReadBatchFails(server, r)
        BY <1>0, <2>4, <4>7 DEF ReadBatchFails
      <4> QED BY <2>1, <4>1, <4>2, <4>3, <4>4, <4>5, <4>6, <4>7
    <3> QED BY <1>1, <3>1, <3>2 DEF Ordered, InFlight
  <2>5. ASSUME q = r PROVE Ordered(server, q)'
    <3>1. CASE DropStrangerBuffer(server, q)
      <4>1. job'[server][q] = "none" /\ buffer'[q] = <<>>
        BY <1>0, <3>1 DEF DropStrangerBuffer, SetJob
      <4>2. InFlight(server, q)' = <<>>
        BY <4>1 DEF InFlight
      <4> QED BY <1>0, <1>1, <3>1, <4>1, <4>2, OrderedAfter DEF DropStrangerBuffer
    <3>2. CASE RenameAside(server, q)
      <4>1. InFlight(server, q) = <<>>
        <5>1. job[server][q] = "queued"
          BY <3>2 DEF RenameAside
        <5> QED BY <5>1, InFlightValue
      <4>2. CASE buffer[q] = <<>>
        <5>1. SetJob(server, q, "none") /\ UNCHANGED <<buffer, processing>>
          BY <3>2, <4>2 DEF RenameAside
        <5>2. job'[server][q] = "none"
          BY <1>0, <5>1 DEF SetJob
        <5>3. InFlight(server, q)' = <<>>
          BY <5>2 DEF InFlight
        <5> QED BY <1>0, <1>1, <3>2, <4>1, <5>1, <5>3, OrderedAfter DEF RenameAside
      <4>3. CASE buffer[q] # <<>>
        <5>1. /\ SetJob(server, q, "renamed")
              /\ buffer'     = [buffer     EXCEPT ![q] = <<>>]
              /\ processing' = [processing EXCEPT ![q] = buffer[q]]
          BY <3>2, <4>3 DEF RenameAside
        <5>2. job'[server][q] = "renamed" /\ buffer'[q] = <<>> /\ processing'[q] = buffer[q]
          BY <1>0, <5>1 DEF SetJob
        <5>3. InFlight(server, q)' = buffer[q]
          BY <5>2 DEF InFlight
        <5> QED BY <1>0, <1>1, <3>2, <4>1, <5>2, <5>3, OrderedAfter DEF RenameAside
      <4> QED BY <4>2, <4>3
    <3>3. CASE ReadBatch(server, q)
      <4>1. InFlight(server, q) = processing[q]
        BY <3>3, InFlightValue DEF ReadBatch
      <4>2. InFlight(server, q)' = processing[q]
        <5>1. CASE processing[q] # <<>>
          <6>1. rest' = [rest EXCEPT ![server][q] = processing[q]] /\ SetJob(server, q, "inserting")
            BY <3>3, <5>1 DEF ReadBatch
          <6>2. job'[server][q] = "inserting" /\ rest'[server][q] = processing[q]
            BY <1>0, <6>1 DEF SetJob
          <6> QED BY <6>2 DEF InFlight
        <5>2. CASE processing[q] = <<>>
          <6>1. SetJob(server, q, "none")
            BY <3>3, <5>2 DEF ReadBatch
          <6>2. job'[server][q] = "none"
            BY <1>0, <6>1 DEF SetJob
          <6> QED BY <5>2, <6>2 DEF InFlight
        <5> QED BY <5>1, <5>2
      <4> QED BY <1>0, <1>1, <3>3, <4>1, <4>2, OrderedAfter DEF ReadBatch, redis
    <3>4. CASE InsertChunk(server, q)
      <4>1. InFlight(server, q) = rest[server][q]
        BY <3>4, InFlightValue DEF InsertChunk
      <4>2. /\ persisted'[q] = persisted[q] \o Chunk(rest[server][q])
            /\ rest'[server][q] = RestOf(rest[server][q])
            /\ job'[server][q] = job[server][q]
            /\ buffer'[q] = buffer[q] /\ accepted'[q] = accepted[q]
        BY <1>0, <3>4 DEF InsertChunk, redis
      <4>3. InFlight(server, q)' = RestOf(rest[server][q])
        BY <3>4, <4>2 DEF InFlight, InsertChunk
      <4> QED BY <1>0, <1>1, <4>1, <4>2, <4>3, OrderedAfter
    <3>5. CASE FinishBatch(server, q) \/ ReadBatchFails(server, q)
      <4>1. /\ job'[server][q] = "none"
            /\ UNCHANGED <<accepted, persisted, buffer>>
        BY <1>0, <3>5 DEF FinishBatch, ReadBatchFails, SetJob
      <4>2. InFlight(server, q)' = <<>>
        BY <4>1 DEF InFlight
      <4> QED BY <1>0, <1>1, <4>1, <4>2, OrderedAfter
    <3>6. CASE RenameAsideFails(server, q)
      <4>1. /\ job'[server][q] = "none"
            /\ UNCHANGED <<accepted, persisted>>
        BY <1>0, <3>6 DEF RenameAsideFails, SetJob
      <4>2. InFlight(server, q)' = <<>>
        BY <4>1 DEF InFlight
      <4>3. buffer'[q] = buffer[q] \/ buffer'[q] = <<>>
        BY <1>0, <3>6 DEF RenameAsideFails
      <4> QED BY <1>0, <1>1, <4>1, <4>2, <4>3, OrderedAfter
    <3> QED BY <2>1, <2>5, <3>1, <3>2, <3>3, <3>4, <3>5, <3>6
  <2> QED BY <2>3, <2>4, <2>5
<1> QED BY <1>3, <1>4, <1>5, <1>6, <1>7, <1>8 DEF Next

(* With one server, and as long as no insert fails, no message is stored twice
   or before one that was accepted earlier, whatever Redis does and whenever the
   process restarts: what a fault leaves in the processing list is replaced and
   never inserted again. *)
THEOREM StoredStaysInOrder ==
  ASSUME NEW server, Flushers = {server}
  PROVE  Spec => []StoredOnceInOrder
<1>1. Init => OrderInv
  <2> SUFFICES ASSUME Init PROVE OrderInv
    OBVIOUS
  <2>1. TypeOK
    BY InitTypeOK
  <2>2. ASSUME NEW f \in Flushers, NEW r \in Rooms
        PROVE  job[f][r] = "none" /\ Ordered(f, r)
    <3>1. /\ accepted[r] = <<>> /\ persisted[r] = <<>> /\ buffer[r] = <<>>
          /\ job[f][r] = "none"
      BY <2>2 DEF Init
    <3>2. InFlight(f, r) = <<>>
      BY <3>1, InFlightValue
    <3>3. (<<>> \o <<>>) \o <<>> = <<>> /\ Len(<<>>) = 0
      BY EmptySeq, ConcatEmptySeq
    <3> QED BY <3>1, <3>2, <3>3 DEF Ordered, Ascending
  <2> QED BY <2>1, <2>2 DEF OrderInv, NoFailedJob
<1>2. OrderInv /\ [Next]_vars => OrderInv'
  <2> SUFFICES ASSUME OrderInv, [Next]_vars PROVE OrderInv'
    OBVIOUS
  <2>1. TypeOK'
    BY NextTypeOK DEF OrderInv
  <2>2. ASSUME UNCHANGED vars PROVE OrderInv'
    BY <2>1, <2>2 DEF OrderInv, vars, redis, flusher, faults, NoFailedJob, Ordered, InFlight
  <2>3. ASSUME Next, dbFaults' = 0, NEW r \in Rooms PROVE NoFailedJob' /\ Ordered(server, r)'
    BY <2>3, OrderedStep
  <2>4. ASSUME Next, dbFaults' = 0, Rooms = {} PROVE NoFailedJob'
    BY <2>4 DEF NoFailedJob
  <2> QED BY <2>1, <2>2, <2>3, <2>4 DEF OrderInv
<1>3. OrderInv => StoredOnceInOrder
  <2> SUFFICES ASSUME OrderInv, dbFaults = 0, NEW r \in Rooms,
                      NEW i \in 1..Len(persisted[r]), NEW j \in 1..Len(persisted[r]), i < j
               PROVE  PositionIn(r, persisted[r][i]) < PositionIn(r, persisted[r][j])
    BY DEF StoredOnceInOrder
  <2> DEFINE A == accepted[r]
             P == persisted[r]
  <2>1. /\ A \in Seq(Messages) /\ P \in Seq(Messages) /\ buffer[r] \in Seq(Messages)
    BY DEF OrderInv, TypeOK
  <2>2. Ascending(A, P)
    <3>1. InFlight(server, r) \in Seq(Messages)
      BY InFlightType DEF OrderInv
    <3>2. Ascending(A, (P \o InFlight(server, r)) \o buffer[r])
      BY DEF OrderInv, Ordered
    <3> HIDE DEF A, P
    <3>3. P \o InFlight(server, r) \in Seq(Messages)
      BY <2>1, <3>1, ConcatProperties
    <3> QED BY <2>1, <3>1, <3>2, <3>3, PrefixAscends
  <2>3. \A x : (\E k \in 1..Len(A) : A[k] = x) =>
            PositionIn(r, x) \in 1..Len(A) /\ A[PositionIn(r, x)] = x
    BY DEF PositionIn
  <2> HIDE DEF A, P
  <2>4. /\ \E k \in 1..Len(A) : A[k] = P[i]
        /\ \E k \in 1..Len(A) : A[k] = P[j]
        /\ \A k, l \in 1..Len(A) : A[k] = P[i] /\ A[l] = P[j] => k < l
    BY <2>2 DEF Ascending, P
  <2> DEFINE m == PositionIn(r, P[i])
             n == PositionIn(r, P[j])
  <2>5. m \in 1..Len(A) /\ A[m] = P[i] /\ n \in 1..Len(A) /\ A[n] = P[j]
    BY <2>3, <2>4
  <2> HIDE DEF m, n
  <2>6. m < n
    BY <2>4, <2>5
  <2> QED BY <2>6 DEF m, n, P
<1> QED BY <1>1, <1>2, <1>3, PTL DEF Spec

-----------------------------------------------------------------------------
(* The refinement of MessageLog.  Every row, buffered message and batch holds
   accepted messages only, so that a fault maps to Degrade and an insert after
   a fault to StoreDegraded; Conservation, and that no worker takes a room of
   strangers further than its queue, make an insert without faults the Store of
   the next messages. *)

Contained == \A r \in Rooms :
  /\ Elems(buffer[r])     \subseteq Elems(accepted[r])
  /\ Elems(processing[r]) \subseteq Elems(accepted[r])
  /\ Elems(persisted[r])  \subseteq Elems(accepted[r])
  /\ \A f \in Flushers : Elems(rest[f][r]) \subseteq Elems(accepted[r])

StrangersNotTaken == \A f \in Flushers, r \in StrangerRooms : job[f][r] \in {"none", "queued"}

LogInv == IInv /\ Contained /\ StrangersNotTaken

LEMMA ElemsOfConcat ==
  ASSUME NEW s \in Seq(Messages), NEW t \in Seq(Messages)
  PROVE  Elems(s \o t) = Elems(s) \union Elems(t)
<1>1. /\ Len(s) \in Nat /\ Len(t) \in Nat
      /\ Len(s \o t) = Len(s) + Len(t)
      /\ \A i \in 1..Len(s)+Len(t) : (s \o t)[i] = IF i <= Len(s) THEN s[i] ELSE t[i - Len(s)]
  BY LenProperties, ConcatProperties
<1>2. ASSUME NEW x \in Elems(s \o t) PROVE x \in Elems(s) \union Elems(t)
  <2>1. PICK i \in 1..Len(s)+Len(t) : (s \o t)[i] = x
    BY <1>1 DEF Elems
  <2>2. CASE i <= Len(s)
    BY <1>1, <2>1, <2>2 DEF Elems
  <2>3. CASE ~(i <= Len(s))
    <3>1. i - Len(s) \in 1..Len(t) /\ t[i - Len(s)] = x
      BY <1>1, <2>1, <2>3
    <3> QED BY <3>1 DEF Elems
  <2> QED BY <2>2, <2>3
<1>3. ASSUME NEW x \in Elems(s) PROVE x \in Elems(s \o t)
  <2>1. PICK i \in 1..Len(s) : s[i] = x
    BY DEF Elems
  <2>2. i \in 1..Len(s \o t) /\ (s \o t)[i] = x
    BY <1>1, <2>1
  <2> QED BY <2>2 DEF Elems
<1>4. ASSUME NEW x \in Elems(t) PROVE x \in Elems(s \o t)
  <2>1. PICK i \in 1..Len(t) : t[i] = x
    BY DEF Elems
  <2>2. /\ Len(s) + i \in 1..Len(s)+Len(t)
        /\ ~(Len(s) + i <= Len(s))
        /\ (Len(s) + i) - Len(s) = i
    BY <1>1
  <2>3. Len(s) + i \in 1..Len(s \o t) /\ (s \o t)[Len(s) + i] = x
    BY <1>1, <2>1, <2>2
  <2> QED BY <2>3 DEF Elems
<1> QED BY <1>2, <1>3, <1>4

LEMMA ElemsOfAppend ==
  ASSUME NEW s \in Seq(Messages), NEW m \in Messages
  PROVE  Elems(Append(s, m)) = Elems(s) \union {m}
<1>1. /\ Len(s) \in Nat
      /\ Len(Append(s, m)) = Len(s) + 1
      /\ \A i \in 1..Len(s) : Append(s, m)[i] = s[i]
      /\ Append(s, m)[Len(s) + 1] = m
  BY LenProperties, AppendProperties
<1>2. 1..Len(s)+1 = (1..Len(s)) \union {Len(s) + 1}
  BY <1>1
<1> QED BY <1>1, <1>2 DEF Elems

LEMMA ElemsOfChunk ==
  ASSUME NEW s \in Seq(Messages)
  PROVE  Elems(Chunk(s)) \subseteq Elems(s) /\ Elems(RestOf(s)) \subseteq Elems(s)
<1>1. Chunk(s) \in Seq(Messages) /\ RestOf(s) \in Seq(Messages) /\ s = Chunk(s) \o RestOf(s)
  BY ChunkSplits
<1>2. \A c, t \in Seq(Messages) : Elems(c \o t) = Elems(c) \union Elems(t)
  BY ElemsOfConcat
<1>3. Elems(Chunk(s) \o RestOf(s)) = Elems(Chunk(s)) \union Elems(RestOf(s))
  BY <1>1, <1>2, Zenon
<1>4. Elems(s) = Elems(Chunk(s)) \union Elems(RestOf(s))
  BY <1>1, <1>3, Zenon
<1> QED BY <1>4

LEMMA ElemsOfEmpty == Elems(<<>>) = {}
<1>1. Len(<<>>) = 0
  BY EmptySeq
<1> QED BY <1>1 DEF Elems

LEMMA ContainedStep ==
  ASSUME TypeOK, Contained, [Next]_vars
  PROVE  Contained'
<1> USE DEF TypeOK
<1> DEFINE Kept(s, r) == Elems(s) \subseteq Elems(accepted[r])
<1>0. \A r \in Rooms : /\ Kept(buffer[r], r) /\ Kept(processing[r], r) /\ Kept(persisted[r], r)
                       /\ \A f \in Flushers : Kept(rest[f][r], r)
                       /\ Kept(<<>>, r)
  BY ElemsOfEmpty DEF Contained
<1>a. ASSUME UNCHANGED accepted,
             \A r \in Rooms : /\ Kept(buffer'[r], r) /\ Kept(processing'[r], r)
                              /\ Kept(persisted'[r], r)
                              /\ \A f \in Flushers : Kept(rest'[f][r], r)
      PROVE  Contained'
  BY <1>a DEF Contained
<1>b. ASSUME NEW f \in Flushers, NEW r \in Rooms
      PROVE  Kept(persisted[r] \o Chunk(rest[f][r]), r) /\ Kept(RestOf(rest[f][r]), r)
  <2>1. persisted[r] \in Seq(Messages) /\ rest[f][r] \in Seq(Messages)
    OBVIOUS
  <2>2. Chunk(rest[f][r]) \in Seq(Messages)
    BY <2>1, ChunkSplits
  <2>3. Elems(persisted[r] \o Chunk(rest[f][r])) = Elems(persisted[r]) \union Elems(Chunk(rest[f][r]))
    BY <2>1, <2>2, ElemsOfConcat
  <2>4. Elems(Chunk(rest[f][r])) \subseteq Elems(rest[f][r])
        /\ Elems(RestOf(rest[f][r])) \subseteq Elems(rest[f][r])
    BY <2>1, ElemsOfChunk
  <2> QED BY <1>0, <2>3, <2>4
<1> HIDE DEF Kept
<1>1. ASSUME NEW m \in Messages, Accept(m) PROVE Contained'
  <2>1. ASSUME NEW r \in Rooms
        PROVE  /\ Elems(buffer'[r]) \subseteq Elems(accepted'[r])
               /\ Elems(accepted[r]) \subseteq Elems(accepted'[r])
    <3>1. CASE r = RoomOf[m]
      <4>1. buffer'[r] = Append(buffer[r], m) /\ accepted'[r] = Append(accepted[r], m)
        BY <1>1, <3>1 DEF Accept
      <4>2. /\ Elems(Append(buffer[r], m)) = Elems(buffer[r]) \union {m}
            /\ Elems(Append(accepted[r], m)) = Elems(accepted[r]) \union {m}
        BY ElemsOfAppend
      <4> QED BY <1>0, <4>1, <4>2 DEF Kept
    <3>2. CASE r # RoomOf[m]
      <4>1. buffer'[r] = buffer[r] /\ accepted'[r] = accepted[r]
        BY <1>1, <3>2 DEF Accept
      <4> QED BY <1>0, <4>1 DEF Kept
    <3> QED BY <3>1, <3>2
  <2>2. UNCHANGED <<processing, persisted, rest>>
    BY <1>1 DEF Accept, flusher
  <2> QED BY <1>0, <2>1, <2>2 DEF Contained, Kept
<1>2. ASSUME NEW m \in Messages, MarkDirty(m) PROVE Contained'
  BY <1>0, <1>a, <1>2 DEF MarkDirty, flusher
<1>3. ASSUME NEW f \in Flushers, StartCycle(f) \/ EndCycle(f) PROVE Contained'
  BY <1>0, <1>a, <1>3 DEF StartCycle, EndCycle, redis
<1>4. ASSUME NEW f \in Flushers, Crash(f) PROVE Contained'
  <2>1. \A r \in Rooms, g \in Flushers : rest'[g][r] \in {rest[g][r], <<>>}
    BY <1>4 DEF Crash
  <2> QED BY <1>0, <1>a, <1>4, <2>1 DEF Crash, redis
<1>5. ASSUME NEW f \in Flushers, NEW r \in Rooms, Worker(f, r) \/ WorkerFails(f, r)
      PROVE  Contained'
  <2>0. UNCHANGED accepted
    BY <1>5 DEF Worker, WorkerFails, DropStrangerBuffer, RenameAside, ReadBatch, InsertChunk,
                FinishBatch, RequeueBatch, RequeueMark, RenameAsideFails, ReadBatchFails,
                InsertChunkFails, DeadLetterBatch
  <2>1. \A q \in Rooms : /\ \/ buffer'[q] = buffer[q]
                            \/ q = r /\ buffer'[q] \in {<<>>, processing[q]}
                         /\ \/ processing'[q] = processing[q]
                            \/ q = r /\ processing'[q] \in {<<>>, buffer[q]}
    <3>1. CASE DropStrangerBuffer(f, r)
      BY <3>1 DEF DropStrangerBuffer
    <3>2. CASE RenameAside(f, r)
      BY <3>2 DEF RenameAside
    <3>3. CASE ReadBatch(f, r) \/ InsertChunk(f, r) \/ InsertChunkFails(f, r)
      BY <3>3 DEF ReadBatch, InsertChunk, InsertChunkFails, redis
    <3>4. CASE FinishBatch(f, r) \/ ReadBatchFails(f, r) \/ DeadLetterBatch(f, r)
      BY <3>4 DEF FinishBatch, ReadBatchFails, DeadLetterBatch
    <3>5. CASE RequeueBatch(f, r)
      BY <3>5 DEF RequeueBatch
    <3>6. CASE RequeueMark(f, r)
      BY <3>6 DEF RequeueMark
    <3>7. CASE RenameAsideFails(f, r)
      BY <3>7 DEF RenameAsideFails
    <3> QED BY <1>5, <3>1, <3>2, <3>3, <3>4, <3>5, <3>6, <3>7 DEF Worker, WorkerFails
  <2>2. persisted' = persisted \/ persisted' = [persisted EXCEPT ![r] = @ \o Chunk(rest[f][r])]
    <3>1. CASE InsertChunk(f, r) \/ InsertChunkFails(f, r)
      BY <3>1 DEF InsertChunk, InsertChunkFails
    <3>2. CASE \/ DropStrangerBuffer(f, r) \/ RenameAside(f, r) \/ ReadBatch(f, r)
               \/ FinishBatch(f, r) \/ RequeueBatch(f, r) \/ RequeueMark(f, r)
               \/ RenameAsideFails(f, r) \/ ReadBatchFails(f, r) \/ DeadLetterBatch(f, r)
      BY <3>2 DEF DropStrangerBuffer, RenameAside, ReadBatch, FinishBatch, RequeueBatch,
                  RequeueMark, RenameAsideFails, ReadBatchFails, DeadLetterBatch
    <3> QED BY <1>5, <3>1, <3>2 DEF Worker, WorkerFails
  <2>3. \A q \in Rooms : \/ persisted'[q] = persisted[q]
                         \/ q = r /\ persisted'[q] = persisted[q] \o Chunk(rest[f][q])
    BY <2>2
  <2>4. \/ rest' = rest
        \/ rest' = [rest EXCEPT ![f][r] = processing[r]]
        \/ rest' = [rest EXCEPT ![f][r] = RestOf(rest[f][r])]
    <3>1. CASE ReadBatch(f, r)
      BY <3>1 DEF ReadBatch
    <3>2. CASE InsertChunk(f, r) \/ InsertChunkFails(f, r)
      BY <3>2 DEF InsertChunk, InsertChunkFails
    <3>3. CASE \/ DropStrangerBuffer(f, r) \/ RenameAside(f, r) \/ FinishBatch(f, r)
               \/ RequeueBatch(f, r) \/ RequeueMark(f, r) \/ RenameAsideFails(f, r)
               \/ ReadBatchFails(f, r) \/ DeadLetterBatch(f, r)
      BY <3>3 DEF DropStrangerBuffer, RenameAside, FinishBatch, RequeueBatch, RequeueMark,
                  RenameAsideFails, ReadBatchFails, DeadLetterBatch
    <3> QED BY <1>5, <3>1, <3>2, <3>3 DEF Worker, WorkerFails
  <2>5. \A q \in Rooms, g \in Flushers :
           \/ rest'[g][q] = rest[g][q]
           \/ g = f /\ q = r /\ rest'[g][q] \in {processing[q], RestOf(rest[g][q])}
    BY <2>4
  <2>6. ASSUME NEW q \in Rooms
        PROVE  /\ Kept(buffer'[q], q) /\ Kept(processing'[q], q) /\ Kept(persisted'[q], q)
               /\ \A g \in Flushers : Kept(rest'[g][q], q)
    <3>1. Kept(buffer'[q], q) /\ Kept(processing'[q], q)
      BY <1>0, <2>1
    <3>2. Kept(persisted'[q], q)
      BY <1>0, <1>b, <2>3
    <3>3. ASSUME NEW g \in Flushers PROVE Kept(rest'[g][q], q)
      BY <1>0, <1>b, <2>5
    <3> QED BY <3>1, <3>2, <3>3
  <2> QED BY <1>a, <2>0, <2>6
<1>6. CASE UNCHANGED vars
  BY <1>0, <1>a, <1>6 DEF vars, redis, flusher
<1> QED BY <1>1, <1>2, <1>3, <1>4, <1>5, <1>6 DEF Next

LEMMA StrangersStep ==
  ASSUME TypeOK, StrangersNotTaken, [Next]_vars
  PROVE  StrangersNotTaken'
<1> USE DEF TypeOK
<1> SUFFICES ASSUME NEW g \in Flushers, NEW q \in StrangerRooms
             PROVE  job'[g][q] \in {"none", "queued"}
  BY DEF StrangersNotTaken
<1>0. job[g][q] \in {"none", "queued"} /\ q \in Rooms
  BY StrangersAreRooms DEF StrangersNotTaken
<1>1. ASSUME NEW m \in Messages, Accept(m) \/ MarkDirty(m)
      PROVE  job'[g][q] \in {"none", "queued"}
  BY <1>0, <1>1 DEF Accept, MarkDirty, flusher
<1>2. ASSUME NEW f \in Flushers, StartCycle(f) PROVE job'[g][q] \in {"none", "queued"}
  <2>1. CASE UNCHANGED job
    BY <1>0, <2>1
  <2>2. CASE job' = [job EXCEPT ![f] =
                        [r \in Rooms |-> IF r \in dirty THEN "queued" ELSE "none"]]
    BY <1>0, <2>2
  <2> QED BY <1>2, <2>1, <2>2 DEF StartCycle
<1>3. ASSUME NEW f \in Flushers, EndCycle(f) PROVE job'[g][q] \in {"none", "queued"}
  BY <1>0, <1>3 DEF EndCycle
<1>6. ASSUME NEW f \in Flushers, Crash(f) PROVE job'[g][q] \in {"none", "queued"}
  <2>1. job' = [job EXCEPT ![f] = [r \in Rooms |-> "none"]]
    BY <1>6 DEF Crash
  <2> QED BY <1>0, <2>1
<1>4. ASSUME NEW f \in Flushers, NEW r \in Rooms, Worker(f, r) \/ WorkerFails(f, r)
      PROVE  job'[g][q] \in {"none", "queued"}
  <2>1. CASE DropStrangerBuffer(f, r)
    BY <1>0, <2>1 DEF DropStrangerBuffer, SetJob
  <2>2. CASE ~DropStrangerBuffer(f, r)
    <3>1. f # g \/ r # q
      <4>1. r \notin StrangerRooms \/ job[f][r] \notin {"none", "queued"}
        BY <1>4, <2>2 DEF Worker, WorkerFails, RenameAside, ReadBatch, InsertChunk,
           FinishBatch, RequeueBatch, RequeueMark, RenameAsideFails, ReadBatchFails,
           InsertChunkFails, DeadLetterBatch
      <4> QED BY <1>0, <4>1
    <3>2. job' = job \/ \E stage \in Stages : SetJob(f, r, stage)
      <4>1. CASE Worker(f, r)
        BY <4>1 DEF Worker, DropStrangerBuffer, RenameAside, ReadBatch, InsertChunk,
                    FinishBatch, RequeueBatch, RequeueMark, Stages
      <4>2. CASE WorkerFails(f, r)
        BY <4>2 DEF WorkerFails, RenameAsideFails, ReadBatchFails, InsertChunkFails,
                    DeadLetterBatch, Stages
      <4> QED BY <1>4, <4>1, <4>2
    <3>3. ASSUME NEW stage \in Stages, SetJob(f, r, stage) PROVE job'[g][q] = job[g][q]
      <4>1. CASE f # g
        BY <1>0, <3>3, <4>1 DEF SetJob
      <4>2. CASE f = g /\ r # q
        BY <1>0, <3>3, <4>2 DEF SetJob
      <4> QED BY <3>1, <4>1, <4>2
    <3> QED BY <1>0, <3>2, <3>3
  <2> QED BY <2>1, <2>2
<1>5. CASE UNCHANGED vars
  BY <1>0, <1>5 DEF vars, flusher
<1> QED BY <1>1, <1>2, <1>3, <1>4, <1>5, <1>6 DEF Next

(* The rows of a room only grow, by a chunk of the batch in hand; and without a
   fault only an insert makes them grow. *)
LEMMA RowsGrow ==
  ASSUME TypeOK, [Next]_vars, \A m \in Messages : ~Accept(m)
  PROVE  /\ UNCHANGED accepted
         /\ \/ UNCHANGED persisted
            \/ \E f \in Flushers, r \in Rooms :
                  /\ InsertChunk(f, r) \/ DbFault
                  /\ persisted' = [persisted EXCEPT ![r] = @ \o Chunk(rest[f][r])]
<1>1. ASSUME NEW m \in Messages, MarkDirty(m) PROVE UNCHANGED <<accepted, persisted>>
  BY <1>1 DEF MarkDirty
<1>2. ASSUME NEW f \in Flushers, StartCycle(f) \/ EndCycle(f) \/ Crash(f)
      PROVE  UNCHANGED <<accepted, persisted>>
  BY <1>2 DEF StartCycle, EndCycle, Crash
<1>3. ASSUME NEW f \in Flushers, NEW r \in Rooms, InsertChunk(f, r) \/ InsertChunkFails(f, r)
      PROVE  /\ UNCHANGED accepted
             /\ \/ UNCHANGED persisted
                \/ /\ InsertChunk(f, r) \/ DbFault
                   /\ persisted' = [persisted EXCEPT ![r] = @ \o Chunk(rest[f][r])]
  BY <1>3 DEF InsertChunk, InsertChunkFails
<1>4. ASSUME NEW f \in Flushers, NEW r \in Rooms, Worker(f, r) \/ WorkerFails(f, r),
             ~(InsertChunk(f, r) \/ InsertChunkFails(f, r))
      PROVE  UNCHANGED <<accepted, persisted>>
  BY <1>4 DEF Worker, WorkerFails, DropStrangerBuffer, RenameAside, ReadBatch, FinishBatch,
              RequeueBatch, RequeueMark, RenameAsideFails, ReadBatchFails, DeadLetterBatch
<1>5. CASE UNCHANGED vars
  BY <1>5 DEF vars
<1> QED BY <1>1, <1>2, <1>3, <1>4, <1>5 DEF Next

(* An insert without faults stores the next messages of what was accepted. *)
LEMMA ChunkIsNext ==
  ASSUME NEW p \in Seq(Messages), NEW s \in Seq(Messages), NEW b \in Seq(Messages), s # <<>>
  PROVE  \E n \in Len(p)+1 .. Len((p \o s) \o b) : p \o Chunk(s) = SubSeq((p \o s) \o b, 1, n)
<1> DEFINE c == Chunk(s)
           t == RestOf(s)
<1>1. c \in Seq(Messages) /\ t \in Seq(Messages) /\ p \o s = (p \o c) \o t
  BY ChunkSplits, ChunkConserves
<1>2. Len(c) > 0
  <2>1. Len(s) \in Nat /\ Len(s) # 0
    BY LenProperties, EmptySeq
  <2>2. ChunkLen(s) \in 1..Len(s)
    BY <2>1, ChunkSizeType DEF ChunkLen, SmallerOf
  <2>3. /\ 1 \in Int /\ ChunkLen(s) \in Int
        /\ \A i \in 1..ChunkLen(s) : s[i] \in Messages
    BY <2>1, <2>2, ElementOfSeq
  <2>4. Len(c) = IF 1 <= ChunkLen(s) THEN ChunkLen(s) - 1 + 1 ELSE 0
    BY <2>3, SubSeqProperties DEF Chunk
  <2> QED BY <2>2, <2>4
<1> HIDE DEF c, t
<1> DEFINE q == p \o c
           u == t \o b
<1>3. q \in Seq(Messages) /\ Len(q) = Len(p) + Len(c) /\ u \in Seq(Messages)
  BY <1>1, ConcatProperties
<1>4. (p \o s) \o b = q \o u
  <2>1. \A x, y \in Seq(Messages) : (x \o y) \o b = x \o (y \o b)
    BY ConcatAssociative
  <2>2. (q \o t) \o b = q \o (t \o b)
    <3> HIDE DEF q
    <3> QED BY <1>1, <1>3, <2>1, Zenon
  <2> QED BY <1>1, <2>2
<1> HIDE DEF q, u
<1>5. /\ Len(q \o u) = Len(q) + Len(u)
      /\ Len(u) \in Nat /\ Len(q) \in Nat /\ Len(p) \in Nat /\ Len(c) \in Nat
  BY <1>1, <1>3, ConcatProperties, LenProperties
<1>6. SubSeq(q \o u, 1, Len(q)) = q
  <2>1. 1 \in 1..Len(q) /\ Len(q) \in 1..Len(q)
    BY <1>2, <1>3, <1>5
  <2>2. SubSeq(q \o u, 1, Len(q)) = SubSeq(q, 1, Len(q))
    BY <1>3, <2>1, SubSeqOfConcat1
  <2>3. SubSeq(q, 1, Len(q)) = q
    BY <1>3, SubSeqFull
  <2> QED BY <2>2, <2>3
<1>7. Len(q) \in Len(p)+1..Len((p \o s) \o b)
  BY <1>2, <1>3, <1>4, <1>5
<1> QED BY <1>4, <1>6, <1>7 DEF q, c

LEMMA MapsToLog ==
  ASSUME NEW server, Flushers = {server}, LogInv, TypeOK', Contained', [Next]_vars
  PROVE  [Log!Next]_(Log!logVars)
<1> DEFINE rows == [r \in Rooms |-> persisted[r]]
<1>0. /\ TypeOK /\ Contained
      /\ \A r \in Rooms : rows[r] = persisted[r] /\ rows'[r] = persisted'[r]
      /\ DOMAIN rows' = Rooms
      /\ \A s : Log!Elems(s) = Elems(s)
      /\ ~NoFaults => ~NoFaults'
  <2>1. ~NoFaults => ~NoFaults'
    <3>1. CASE Next
      BY <3>1, NoFaultsBefore DEF LogInv, IInv
    <3>2. CASE UNCHANGED vars
      BY <3>2 DEF vars, faults, NoFaults
    <3> QED BY <3>1, <3>2
  <2> QED BY <2>1 DEF LogInv, IInv, Log!Elems, Elems
<1>1. ASSUME NEW m \in Messages, Accept(m) PROVE Log!Next
  <2>1. RoomOf[m] \in Rooms /\ accepted' = [accepted EXCEPT ![RoomOf[m]] = Append(@, m)]
    BY <1>1, RoomOfType DEF Accept
  <2>2. UNCHANGED <<rows, ~NoFaults>>
    BY <1>1 DEF Accept, faults, NoFaults
  <2>3. Log!Accept
    BY <2>1, <2>2 DEF Log!Accept
  <2> QED BY <2>3 DEF Log!Next
<1> SUFFICES ASSUME \A m \in Messages : ~Accept(m)
             PROVE  [Log!Next]_(Log!logVars)
  BY <1>1
<1>2. /\ UNCHANGED accepted
      /\ \/ UNCHANGED persisted
         \/ \E f \in Flushers, r \in Rooms :
               /\ InsertChunk(f, r) \/ DbFault
               /\ persisted' = [persisted EXCEPT ![r] = @ \o Chunk(rest[f][r])]
  BY <1>0, RowsGrow
<1>3. \A r \in Rooms : Elems(rows'[r]) \subseteq Elems(accepted[r])
  BY <1>0, <1>2 DEF Contained
(* After a fault: the rows stored stay a prefix. *)
<1>4. CASE ~NoFaults
  <2>1. ASSUME NEW r \in Rooms
        PROVE  Len(rows'[r]) >= Len(rows[r]) /\ SubSeq(rows'[r], 1, Len(rows[r])) = rows[r]
    <3> DEFINE p == persisted[r]
    <3>1. p \in Seq(Messages) /\ Len(p) \in Nat /\ SubSeq(p, 1, Len(p)) = p
      BY <1>0, LenProperties, SubSeqFull DEF TypeOK
    <3>2. CASE persisted'[r] = p
      BY <1>0, <3>1, <3>2
    <3>3. ASSUME NEW c \in Seq(Messages), persisted'[r] = p \o c
          PROVE  Len(persisted'[r]) >= Len(p) /\ SubSeq(persisted'[r], 1, Len(p)) = p
      <4> HIDE DEF p
      <4>1. Len(p \o c) = Len(p) + Len(c) /\ Len(c) \in Nat
        BY <3>1, ConcatProperties, LenProperties
      <4>2. CASE p = <<>>
        <5>1. Len(p) = 0
          BY <4>2, EmptySeq
        <5>2. p \o c \in Seq(Messages)
          BY <3>1, ConcatProperties
        <5>3. SubSeq(p \o c, 1, 0) = <<>>
          BY <5>2, SubSeqEmpty
        <5> QED BY <3>3, <4>1, <4>2, <5>1, <5>3
      <4>3. CASE p # <<>>
        <5>1. 1 \in 1..Len(p) /\ Len(p) \in 1..Len(p)
          BY <3>1, <4>3, EmptySeq
        <5>2. SubSeq(p \o c, 1, Len(p)) = SubSeq(p, 1, Len(p))
          BY <3>1, <5>1, SubSeqOfConcat1
        <5> QED BY <3>1, <3>3, <4>1, <5>2
      <4> QED BY <4>2, <4>3
    <3>4. persisted'[r] = p \/ \E c \in Seq(Messages) : persisted'[r] = p \o c
      <4>1. CASE UNCHANGED persisted
        BY <4>1
      <4>2. ASSUME NEW f \in Flushers, NEW q \in Rooms,
                   persisted' = [persisted EXCEPT ![q] = @ \o Chunk(rest[f][q])]
            PROVE  persisted'[r] = p \/ \E c \in Seq(Messages) : persisted'[r] = p \o c
        <5>1. Chunk(rest[f][q]) \in Seq(Messages)
          BY <1>0, ChunkSplits DEF TypeOK
        <5>2. q = r => persisted'[r] = p \o Chunk(rest[f][q])
          BY <1>0, <4>2 DEF TypeOK
        <5>3. q # r => persisted'[r] = p
          BY <1>0, <4>2 DEF TypeOK
        <5> QED BY <5>1, <5>2, <5>3
      <4> QED BY <1>2, <4>1, <4>2
    <3> QED BY <1>0, <3>2, <3>3, <3>4
  <2>2. Log!StoreDegraded
    BY <1>0, <1>2, <1>3, <1>4, <2>1 DEF Log!StoreDegraded
  <2> QED BY <2>2 DEF Log!Next
(* The first fault. *)
<1>5. CASE NoFaults /\ ~NoFaults'
  <2>1. Log!Degrade
    BY <1>0, <1>2, <1>3, <1>5 DEF Log!Degrade
  <2> QED BY <2>1 DEF Log!Next
(* No fault so far: an insert stores the next messages. *)
<1>6. CASE NoFaults /\ NoFaults'
  <2>1. CASE UNCHANGED persisted
    BY <1>2, <1>6, <2>1 DEF Log!logVars
  <2>2. ASSUME NEW r \in Rooms, InsertChunk(server, r) PROVE Log!Next
    <3> DEFINE s == rest[server][r]
               P == persisted[r]
               B == buffer[r]
    <3>1. r \in StoredRooms
      BY <2>2 DEF LogInv, StrangersNotTaken, InsertChunk, StoredRooms
    <3>2. InFlight(server, r) = s
      BY <2>2, InFlightValue DEF InsertChunk
    <3>3. accepted[r] = (P \o s) \o B
      BY <1>6, <3>1, <3>2 DEF LogInv, IInv, Conserved
    <3>4. P \in Seq(Messages) /\ s \in Seq(Messages) /\ B \in Seq(Messages)
      BY <1>0 DEF TypeOK
    <3>5. PICK n \in Len(P)+1 .. Len(accepted[r]) : P \o Chunk(s) = SubSeq(accepted[r], 1, n)
      <4>1. s # <<>>
        BY <2>2 DEF InsertChunk
      <4> HIDE DEF P, s, B
      <4>2. \E n \in Len(P)+1 .. Len((P \o s) \o B) : P \o Chunk(s) = SubSeq((P \o s) \o B, 1, n)
        BY <3>4, <4>1, ChunkIsNext
      <4> QED BY <3>3, <4>2, Zenon
    <3>6. persisted' = [persisted EXCEPT ![r] = P \o Chunk(s)]
      BY <2>2 DEF InsertChunk
    <3>7. rows' = [rows EXCEPT ![r] = SubSeq(accepted[r], 1, n)]
      BY <1>0, <3>5, <3>6 DEF TypeOK
    <3>8. n \in Len(rows[r])+1 .. Len(accepted[r])
      BY <1>0, <3>5
    <3>9. Log!Store
      BY <1>2, <1>6, <3>7, <3>8 DEF Log!Store
    <3> QED BY <3>9 DEF Log!Next
  <2>3. ~DbFault
    <3>1. dbFaults = 0 /\ dbFaults' = 0
      BY <1>6 DEF NoFaults
    <3> QED BY <3>1 DEF DbFault
  <2> QED BY <1>2, <2>1, <2>2, <2>3
<1> QED BY <1>4, <1>5, <1>6

(* With one server the flusher implements the log: a message is accepted at the
   end of its room's log, storing moves the boundary of the stored prefix, and
   only a fault, of Postgres, of Redis or of the process, degrades this to: what
   is stored was accepted, and stays. *)
THEOREM FlusherImplementsLog ==
  ASSUME NEW server, Flushers = {server}
  PROVE  Spec => ImplementsLog
<1>1. Init => LogInv
  <2> SUFFICES ASSUME Init PROVE LogInv
    OBVIOUS
  <2>1. IInv
    BY IInvInit
  <2>2. Contained /\ StrangersNotTaken
    BY ElemsOfEmpty, StrangersAreRooms DEF Init, Contained, StrangersNotTaken
  <2> QED BY <2>1, <2>2 DEF LogInv
<1>2. LogInv /\ [Next]_vars => LogInv'
  <2> SUFFICES ASSUME LogInv, [Next]_vars PROVE LogInv'
    OBVIOUS
  <2>1. IInv'
    BY IInvStep DEF LogInv
  <2>2. Contained' /\ StrangersNotTaken'
    BY ContainedStep, StrangersStep DEF LogInv, IInv
  <2> QED BY <2>1, <2>2 DEF LogInv
<1>3. Init => Log!Init
  BY DEF Init, Log!Init, NoFaults
<1>4. LogInv /\ LogInv' /\ [Next]_vars => [Log!Next]_(Log!logVars)
  BY MapsToLog DEF LogInv, IInv
<1> QED BY <1>1, <1>2, <1>3, <1>4, PTL DEF Spec, ImplementsLog, Log!LogSpec
=============================================================================
