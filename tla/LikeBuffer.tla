------------------------------ MODULE LikeBuffer ------------------------------
(***************************************************************************)
(* Likes, comment likes and views on their way to Postgres                 *)
(* (services/arena_flusher.go).  A handler adds the pair of a user and a   *)
(* post to a Redis set, and takes it out of the opposite one; a tick of    *)
(* the flusher drains the sets, cancels the pairs found in both, inserts   *)
(* and deletes rows chunk by chunk, and adds what changed to the counters. *)
(* Every server ticks (main.go), and handlers of one user may overlap: two *)
(* devices, or a request sent again.                                       *)
(*                                                                         *)
(* The three tables differ in one point each: views are never taken back,  *)
(* and a trigger keeps the counter of comment likes.  A behaviour is about *)
(* one table, chosen at the start.  One step is one Redis command or one   *)
(* statement.  The users' overlay sets (what a user sees of the user's own *)
(* likes until they expire) are not modelled.                              *)
(***************************************************************************)
EXTENDS Integers, FiniteSets

CONSTANTS Servers,                \* processes, each with its ticks
          Pairs, Items, ItemOf,   \* pairs of a user and an item (post or comment)
          Deletable,              \* items that may be deleted
          Tables,                 \* subset of TableNames
          ChunkSize,
          MaxToggles, MaxFaults   \* bounds

TableNames == {"post_likes", "comment_likes", "post_views"}
Kinds      == {"like", "unlike"}

ASSUME FiniteSystem == IsFiniteSet(Servers) /\ IsFiniteSet(Pairs)
ASSUME ItemsType    == ItemOf \in [Pairs -> Items] /\ Deletable \subseteq Items
ASSUME TablesType   == Tables \subseteq TableNames
ASSUME ChunkType    == ChunkSize \in Nat \ {0}
ASSUME LikeBounds   == MaxToggles \in Nat /\ MaxFaults \in Nat

VARIABLES
  table,
  likes, unlikes,   \* the two Redis sets
  toggling,         \* number of handlers of a pair and a kind, between their two commands
  rows,             \* rows of the table
  count,            \* counter column of an item
  exists,           \* items not deleted
  flush,            \* the tick of a server: step, pairs in hand, and the rows that came
                    \* and went and that it has to count yet
  last,             \* history: the last toggle of a pair
  excused,          \* history: pairs for which, since their last toggle,
                    \* - the opposite toggle was handled at the same time,
                    \* - two ticks held the pair the opposite ways,
                    \* - a tick misread the sets: cancelled the pair although its row is not
                    \*   what was asked, or drained half of a toggle whose other half an
                    \*   earlier tick had drained,
                    \* - a chunk that referred to a deleted item took the like along,
                    \* - a failed command or statement, or a crash, may have lost the toggle
                    \*   or put an older one on top of it
  miscounted,       \* history: items whose counter one of these may have left wrong, or
                    \* GREATEST while rows inserted by another tick were not counted yet
  toggles, faults

buffers == <<likes, unlikes, toggling>>
history == <<last, excused, miscounted>>
vars    == <<table, buffers, rows, count, exists, flush, history, toggles, faults>>

Nobody   == [what \in Kinds |-> 0]
IdleTick == [step |-> "idle", likes |-> {}, unlikes |-> {}, new |-> {}, gone |-> {}]

TypeOK ==
  /\ table \in Tables
  /\ likes \subseteq Pairs /\ unlikes \subseteq Pairs
  /\ toggling \in [Pairs -> [Kinds -> Nat]]
  /\ rows \subseteq Pairs
  /\ count \in [Items -> Nat]
  /\ exists \subseteq Items
  /\ flush \in [Servers -> [step : {"idle", "drainUnlikes", "apply"}, likes : SUBSET Pairs,
                            unlikes : SUBSET Pairs, new : SUBSET Pairs, gone : SUBSET Pairs]]
  /\ last \in [Pairs -> {"none"} \union Kinds]
  /\ excused \subseteq Pairs /\ miscounted \subseteq Items
  /\ toggles \in 0..MaxToggles /\ faults \in 0..MaxFaults

Init ==
  /\ table \in Tables
  /\ likes = {} /\ unlikes = {}
  /\ toggling = [p \in Pairs |-> Nobody]
  /\ rows = {} /\ count = [i \in Items |-> 0]
  /\ exists = Items
  /\ flush = [s \in Servers |-> IdleTick]
  /\ last = [p \in Pairs |-> "none"]
  /\ excused = {} /\ miscounted = {}
  /\ toggles = 0 /\ faults = 0

Fault == faults < MaxFaults /\ faults' = faults + 1

-----------------------------------------------------------------------------
(* BufferLike, BufferUnlike, BufferView: SADD, then SREM from the opposite set.
   Whatever these answer, the handler goes on.  What went wrong with an earlier
   toggle does not excuse what becomes of the new one. *)

Opposite(what)    == IF what = "like" THEN "unlike" ELSE "like"
UnderWay(p, what) == toggling[p][what] > 0

Toggle(p, what) ==
  /\ toggles < MaxToggles /\ toggles' = toggles + 1
  /\ last' = [last EXCEPT ![p] = what]
  /\ toggling' = IF table = "post_views" THEN toggling
                                         ELSE [toggling EXCEPT ![p][what] = @ + 1]
  /\ UNCHANGED <<table, rows, count, exists, flush, miscounted>>
Crosses(p, what) == {p} \intersect {q \in Pairs : UnderWay(q, Opposite(what))}

BufferLike(p) ==
  /\ table # "post_views"
  /\ likes' = likes \union {p}
  /\ excused' = (excused \ {p}) \union Crosses(p, "like")
  /\ Toggle(p, "like")
  /\ UNCHANGED <<unlikes, faults>>

BufferUnlike(p) ==
  /\ table # "post_views"
  /\ unlikes' = unlikes \union {p}
  /\ excused' = (excused \ {p}) \union Crosses(p, "unlike")
  /\ Toggle(p, "unlike")
  /\ UNCHANGED <<likes, faults>>

BufferView(p) ==
  /\ table = "post_views"
  /\ likes' = likes \union {p}
  /\ excused' = (excused \ {p}) \union Crosses(p, "like")
  /\ Toggle(p, "like")
  /\ UNCHANGED <<unlikes, faults>>

(* SADD is not executed. *)
BufferFails(p, what) ==
  /\ Fault
  /\ table = "post_views" => what = "like"
  /\ excused' = excused \union {p}
  /\ Toggle(p, what)
  /\ UNCHANGED <<likes, unlikes>>

(* Mutant of CancelOpposite: only a like takes the pair out of the other set. *)
CancelOppositeOfLike(p, what) ==
  /\ UnderWay(p, what)
  /\ toggling' = [toggling EXCEPT ![p][what] = @ - 1]
  /\ unlikes' = IF what = "like" THEN unlikes \ {p} ELSE unlikes
  /\ UNCHANGED <<table, likes, rows, count, exists, flush, history, toggles, faults>>

(* SREM from the opposite set *)
CancelOpposite(p, what) ==
  /\ UnderWay(p, what)
  /\ toggling' = [toggling EXCEPT ![p][what] = @ - 1]
  /\ likes'   = IF what = "unlike" THEN likes \ {p} ELSE likes
  /\ unlikes' = IF what = "like" THEN unlikes \ {p} ELSE unlikes
  /\ UNCHANGED <<table, rows, count, exists, flush, history, toggles, faults>>

(* SREM is not executed: the pair stays in both sets. *)
CancelFails(p, what) ==
  /\ Fault
  /\ UnderWay(p, what)
  /\ toggling' = [toggling EXCEPT ![p][what] = @ - 1]
  /\ excused' = excused \union ({p} \intersect (IF what = "like" THEN unlikes ELSE likes))
  /\ UNCHANGED <<table, likes, unlikes, rows, count, exists, flush, last, miscounted, toggles>>

-----------------------------------------------------------------------------
(* The tick of a server: flushLikes, flushCommentLikes, flushEngagementSet *)

LikesElsewhere(s)   == UNION {flush[t].likes : t \in Servers \ {s}}
UnlikesElsewhere(s) == UNION {flush[t].unlikes : t \in Servers \ {s}}

DrainLikes(s) ==
  /\ flush[s].step = "idle"
  /\ likes' = {}
  /\ flush' = IF table = "post_views" /\ likes = {}
                THEN flush
                ELSE [flush EXCEPT ![s].likes = likes,
                                   ![s].step = IF table = "post_views" THEN "apply"
                                                                       ELSE "drainUnlikes"]
  /\ excused' = excused \union {p \in likes \ unlikes : /\ UnderWay(p, "unlike")
                                                        /\ last[p] = "unlike"}
                        \union (likes \intersect UnlikesElsewhere(s))
  /\ UNCHANGED <<table, unlikes, toggling, rows, count, exists, last, miscounted, toggles, faults>>

(* The script fails, or is executed and its answer lost.  The tick of the views
   is over then, and the other two go on to the unlikes. *)
DrainLikesFails(s) ==
  /\ Fault
  /\ flush[s].step = "idle"
  /\ flush' = IF table = "post_views" THEN flush
                                      ELSE [flush EXCEPT ![s].step = "drainUnlikes"]
  /\ \/ likes' = {} /\ excused' = excused \union {p \in likes : last[p] = "like"}
     \/ UNCHANGED <<likes, excused>>
  /\ UNCHANGED <<table, unlikes, toggling, rows, count, exists, last, miscounted, toggles>>

(* Mutant of DrainUnlikes: with no like to insert, the tick is over. *)
DrainUnlikesIfLikes(s) ==
  /\ flush[s].step = "drainUnlikes"
  /\ unlikes' = {}
  /\ flush' = [flush EXCEPT ![s] =
                 IF @.likes = {} THEN IdleTick
                 ELSE [@ EXCEPT !.step = "apply", !.likes = @ \ unlikes,
                                !.unlikes = unlikes \ flush[s].likes]]
  /\ UNCHANGED <<table, likes, toggling, rows, count, exists, history, toggles, faults>>

(* A pair in both sets is taken out of both. *)
DrainUnlikes(s) ==
  LET both == flush[s].likes \intersect unlikes IN
  /\ flush[s].step = "drainUnlikes"
  /\ unlikes' = {}
  /\ flush' = [flush EXCEPT ![s] =
                 IF @.likes = {} /\ unlikes = {} THEN IdleTick
                 ELSE [step |-> "apply", likes |-> @.likes \ both, unlikes |-> unlikes \ both,
                       new |-> {}, gone |-> {}]]
  /\ excused' = excused \union {p \in both : (last[p] = "like") # (p \in rows)}
                        \union (unlikes \intersect LikesElsewhere(s))
  /\ UNCHANGED <<table, likes, toggling, rows, count, exists, last, miscounted, toggles, faults>>

(* So may the second script; the likes in hand are inserted then.  When it was not
   executed, the unlike that a handler is about to take out of the set may come to
   the next tick, and undo them. *)
DrainUnlikesFails(s) ==
  /\ Fault
  /\ flush[s].step = "drainUnlikes"
  /\ flush' = IF flush[s].likes = {} THEN [flush EXCEPT ![s] = IdleTick]
                                     ELSE [flush EXCEPT ![s].step = "apply"]
  /\ \/ /\ unlikes' = {}
        /\ excused' = excused \union {p \in unlikes : last[p] = "unlike"}
     \/ /\ excused' = excused \union {p \in flush[s].likes \intersect unlikes : UnderWay(p, "like")}
        /\ UNCHANGED unlikes
  /\ UNCHANGED <<table, likes, toggling, rows, count, exists, last, miscounted, toggles>>

Of(ps, i) == Cardinality({p \in ps : ItemOf[p] = i})
Chunks(ps) == {c \in SUBSET ps : /\ c # {}
                                 /\ \/ Cardinality(c) = ChunkSize
                                    \/ c = ps /\ Cardinality(c) < ChunkSize}

(* A statement about a chunk succeeds: rows appear or go.  The counter moves in
   the same statement (trigger), or RETURNING says which rows are to be counted. *)
Applied(s, chunk, in, out) ==
  /\ rows' = (rows \union in) \ out
  /\ IF table = "comment_likes"
       THEN /\ count' = [i \in Items |-> count[i] + Of(in, i) - Of(out, i)]
            /\ flush' = [flush EXCEPT ![s].likes = @ \ chunk, ![s].unlikes = @ \ chunk]
       ELSE /\ flush' = [flush EXCEPT ![s].likes = @ \ chunk, ![s].unlikes = @ \ chunk,
                                      ![s].new = @ \union in, ![s].gone = @ \union out]
            /\ UNCHANGED count

Inserting(s, chunk) == flush[s].step = "apply" /\ chunk \in Chunks(flush[s].likes)
Deleting(s, chunk)  == /\ flush[s].step = "apply" /\ flush[s].likes = {}
                       /\ chunk \in Chunks(flush[s].unlikes)
Refused(chunk)      == \E p \in chunk : ItemOf[p] \notin exists

(* Mutant of InsertChunk: the pairs sent are counted, not the rows returned. *)
InsertChunkCountsAll(s, chunk) ==
  /\ Inserting(s, chunk) /\ ~Refused(chunk)
  /\ Applied(s, chunk, chunk, {})
  /\ UNCHANGED <<table, buffers, exists, history, toggles, faults>>

InsertChunk(s, chunk) ==
  /\ Inserting(s, chunk) /\ ~Refused(chunk)
  /\ Applied(s, chunk, chunk \ rows, {})
  /\ UNCHANGED <<table, buffers, exists, history, toggles, faults>>

(* A pair of a deleted item makes the whole statement fail, and the chunk is
   not put back. *)
InsertChunkRefused(s, chunk) ==
  /\ Inserting(s, chunk) /\ Refused(chunk)
  /\ flush' = [flush EXCEPT ![s].likes = @ \ chunk]
  /\ excused' = excused \union {p \in chunk \ rows : last[p] = "like"}
  /\ UNCHANGED <<table, buffers, rows, count, exists, last, miscounted, toggles, faults>>

DeleteChunk(s, chunk) ==
  /\ Deleting(s, chunk)
  /\ Applied(s, chunk, {}, chunk \intersect rows)
  /\ UNCHANGED <<table, buffers, exists, history, toggles, faults>>

(* The statement fails, or its answer is lost after it was executed: done is what
   it changed, read the rows returned that were read.  The error that Query or Exec
   returns is answered by putting the chunk back, unless Redis fails as well; the
   one that ends the reading of the rows is not looked at, and those read are
   counted. *)
Struck(s, chunk, done, read) ==
  IF table = "comment_likes"
    THEN /\ read = {}
         /\ count' = [i \in Items |-> IF Deleting(s, chunk) THEN count[i] - Of(done, i)
                                                            ELSE count[i] + Of(done, i)]
         /\ UNCHANGED miscounted
    ELSE /\ miscounted' = miscounted \union {ItemOf[p] : p \in (done \ read) \union (read \ done)}
         /\ UNCHANGED count

InsertFails(s, chunk) ==
  /\ Fault
  /\ Inserting(s, chunk)
  /\ \E done \in {{}, IF Refused(chunk) THEN {} ELSE chunk \ rows} :
     \E read \in SUBSET (IF Refused(chunk) THEN {} ELSE chunk \ rows) :
       /\ rows' = rows \union done
       /\ flush' = [flush EXCEPT ![s].likes = @ \ chunk, ![s].new = @ \union read]
       /\ Struck(s, chunk, done, read)
       /\ \/ /\ read = {}
             /\ likes' = likes \union chunk
             /\ excused' = excused \union {p \in chunk : last[p] # "like"}
          \/ /\ excused' = excused \union {p \in chunk \ rows' : last[p] = "like"}
             /\ UNCHANGED likes
  /\ UNCHANGED <<table, unlikes, toggling, exists, last, toggles>>

DeleteFails(s, chunk) ==
  /\ Fault
  /\ Deleting(s, chunk)
  /\ \E done \in {{}, chunk \intersect rows}, read \in SUBSET (chunk \intersect rows) :
       /\ rows' = rows \ done
       /\ flush' = [flush EXCEPT ![s].unlikes = @ \ chunk, ![s].gone = @ \union read]
       /\ Struck(s, chunk, done, read)
       /\ \/ /\ read = {}
             /\ unlikes' = unlikes \union chunk
             /\ excused' = excused \union {p \in chunk : last[p] # "unlike"}
          \/ /\ excused' = excused \union {p \in chunk \intersect rows' : last[p] = "unlike"}
             /\ UNCHANGED unlikes
  /\ UNCHANGED <<table, likes, toggling, exists, last, toggles>>

Larger(a, b) == IF a >= b THEN a ELSE b
ByTick(s, i) == Of(flush[s].new, i) - Of(flush[s].gone, i)

(* The items whose deleted rows a tick counts before another tick counted their
   insertion: GREATEST stops at 0, and the other one adds to that. *)
StoppedAtZero(s) ==
  {i \in exists : /\ count[i] + ByTick(s, i) < 0
                  /\ \E t \in Servers \ {s} : \E p \in flush[t].new : ItemOf[p] = i}

(* One UPDATE for all items, GREATEST(count + delta, 0); none when nothing
   changed.  A failure is only logged: nothing repairs a counter. *)
UpdateCounts(s) ==
  /\ flush[s].step = "apply" /\ flush[s].likes = {} /\ flush[s].unlikes = {}
  /\ flush' = [flush EXCEPT ![s] = IdleTick]
  /\ count' = [i \in Items |-> IF i \in exists THEN Larger(count[i] + ByTick(s, i), 0)
                                              ELSE count[i]]
  /\ miscounted' = miscounted \union StoppedAtZero(s)
  /\ UNCHANGED <<table, buffers, rows, exists, last, excused, toggles, faults>>

UpdateCountsFails(s) ==
  /\ Fault
  /\ flush[s].step = "apply" /\ flush[s].likes = {} /\ flush[s].unlikes = {}
  /\ \E i \in Items : ByTick(s, i) # 0
  /\ flush' = [flush EXCEPT ![s] = IdleTick]
  /\ miscounted' = miscounted \union {i \in Items : ByTick(s, i) # 0}
  /\ UNCHANGED <<table, buffers, rows, count, exists, last, excused, toggles>>

Tick(s) == \/ DrainLikes(s) \/ DrainUnlikes(s) \/ UpdateCounts(s)
           \/ \E chunk \in SUBSET Pairs : \/ InsertChunk(s, chunk) \/ InsertChunkRefused(s, chunk)
                                          \/ DeleteChunk(s, chunk)

-----------------------------------------------------------------------------
(* DeletePostHandler: the likes go by cascade. *)
DeleteItem(i) ==
  /\ i \in Deletable \intersect exists
  /\ exists' = exists \ {i}
  /\ rows'   = {p \in rows : ItemOf[p] # i}
  /\ UNCHANGED <<table, buffers, count, flush, history, toggles, faults>>

(* The process dies: what it had drained is lost, and so are handlers between
   their two commands. *)
Crash(s) ==
  /\ Fault
  /\ flush' = [flush EXCEPT ![s] = IdleTick]
  /\ \E dead \in SUBSET {h \in Pairs \X Kinds : UnderWay(h[1], h[2])} :
       /\ toggling' = [p \in Pairs |-> [what \in Kinds |->
                         IF <<p, what>> \in dead THEN toggling[p][what] - 1 ELSE toggling[p][what]]]
       /\ excused' = excused \union {p \in flush[s].likes : /\ last[p] = "like"
                                                      /\ p \in rows => p \in unlikes}
                       \union {p \in flush[s].unlikes \intersect rows : last[p] = "unlike"}
                       \union {p \in Pairs : \E what \in Kinds : <<p, what>> \in dead}
  /\ miscounted' = miscounted \union {i \in Items : ByTick(s, i) # 0}
  /\ UNCHANGED <<table, likes, unlikes, rows, count, exists, last, toggles>>

Next == \/ \E p \in Pairs :
             \/ BufferLike(p) \/ BufferUnlike(p) \/ BufferView(p)
             \/ \E what \in Kinds : \/ BufferFails(p, what)
                                    \/ CancelOpposite(p, what) \/ CancelFails(p, what)
        \/ \E s \in Servers :
             \/ Tick(s)
             \/ DrainLikesFails(s) \/ DrainUnlikesFails(s) \/ UpdateCountsFails(s)
             \/ \E chunk \in SUBSET Pairs : InsertFails(s, chunk) \/ DeleteFails(s, chunk)
             \/ Crash(s)
        \/ \E i \in Items : DeleteItem(i)

Spec == Init /\ [][Next]_vars

(* The schedulers tick for ever (every step of a tick changes flush; the one that
   finds no view changes nothing); a handler may stop between its two commands. *)
FairSpec == Spec /\ \A s \in Servers : WF_flush(Tick(s))

-----------------------------------------------------------------------------
(* Properties *)

(* A counter is the number of rows, but for what the ticks under way have still to
   add: repeated likes, unlikes of what was not liked and views seen before count
   nothing, GREATEST hides nothing but the row of another tick that was inserted
   and not counted yet, and a failure spoils only the counters of the items it was
   about. *)
Uncounted(f, i) == Cardinality({q \in Servers \X Pairs : q[2] \in f[q[1]] /\ ItemOf[q[2]] = i})
New  == [s \in Servers |-> flush[s].new]
Gone == [s \in Servers |-> flush[s].gone]
CountsRows ==
  \A i \in exists \ miscounted : count[i] + Uncounted(New, i) - Uncounted(Gone, i) = Of(rows, i)

(* What the pair will come to when everything buffered is applied *)
Effective(p) ==
  IF p \in likes THEN "like"
  ELSE IF p \in unlikes \/ \E s \in Servers : p \in flush[s].unlikes THEN "unlike"
  ELSE IF p \in rows \/ \E s \in Servers : p \in flush[s].likes THEN "like"
  ELSE "unlike"

(* Whatever a user does while ticks drain the sets, and whatever failed before, the
   user's last toggle is what will be stored: unless, since that toggle, a tick
   found the pair in both sets while its row was not what was asked for, or the
   toggle lasted longer than a tick, or it overlapped the opposite toggle, or two
   ticks held the pair the opposite ways, or the chunk of the pair held a deleted
   post, or a failure or a crash struck the pair. *)
AsAsked(p) == last[p] # "none" /\ toggling[p] = Nobody => Effective(p) = last[p]
LastToggleWins ==
  \A p \in Pairs \ excused : ItemOf[p] \in exists => AsAsked(p)

(* A toggle is applied some time, an unlike too, and one that was put back after a
   failure. *)
Given(p) == p \in excused \/ ItemOf[p] \notin exists
EventuallyApplied ==
  \A p \in Pairs :
    /\ last[p] = "like"   ~> (last[p] # "like"   \/ p \in rows    \/ Given(p))
    /\ last[p] = "unlike" ~> (last[p] # "unlike" \/ p \notin rows \/ Given(p))
=============================================================================
