--------------------------- MODULE LikeBuffer_proofs ---------------------------
(***************************************************************************)
(* Machine-checked proofs about what the flusher's tick writes besides the *)
(* messages: likes and views, for every finite set of servers and pairs,   *)
(* any items, each of the three tables, any size of chunk, and any number  *)
(* of toggles and faults; and receipts, for any recorders, processes,      *)
(* times and faults.                                                       *)
(***************************************************************************)
EXTENDS LikeBuffer, Receipts, TLAPS, FiniteSetTheorems

-----------------------------------------------------------------------------
(* Counting the pairs of an item *)

LEMMA OfType ==
  ASSUME NEW ps \in SUBSET Pairs, NEW i
  PROVE  IsFiniteSet({p \in ps : ItemOf[p] = i}) /\ Of(ps, i) \in Nat
<1>1. {p \in ps : ItemOf[p] = i} \in SUBSET Pairs
  OBVIOUS
<1>2. IsFiniteSet({p \in ps : ItemOf[p] = i})
  BY <1>1, FS_Subset, FiniteSystem
<1> QED BY <1>2, FS_CardinalityType DEF Of

LEMMA OfNone ==
  ASSUME NEW ps, NEW i, \A p \in ps : ItemOf[p] # i
  PROVE  Of(ps, i) = 0
<1>1. {p \in ps : ItemOf[p] = i} = {}
  OBVIOUS
<1> QED BY <1>1, FS_EmptySet DEF Of

LEMMA OfUnion ==
  ASSUME NEW ps \in SUBSET Pairs, NEW qs \in SUBSET Pairs, ps \intersect qs = {}, NEW i
  PROVE  Of(ps \union qs, i) = Of(ps, i) + Of(qs, i)
<1> DEFINE P == {p \in ps : ItemOf[p] = i}
           Q == {p \in qs : ItemOf[p] = i}
<1>1. IsFiniteSet(P) /\ IsFiniteSet(Q)
  BY OfType
<1>2. Of(ps, i) = Cardinality(P) /\ Of(qs, i) = Cardinality(Q)
  BY DEF Of
<1>3. {p \in ps \union qs : ItemOf[p] = i} = P \union Q /\ P \intersect Q = {}
  OBVIOUS
<1>4. Of(ps \union qs, i) = Cardinality(P \union Q)
  BY <1>3 DEF Of
<1>5. Cardinality(P) \in Nat /\ Cardinality(Q) \in Nat
  BY <1>1, FS_CardinalityType
<1> HIDE DEF P, Q
<1>6. Cardinality(P \union Q) = Cardinality(P) + Cardinality(Q) - Cardinality(P \intersect Q)
  BY <1>1, FS_Union
<1>7. Cardinality(P \intersect Q) = 0
  BY <1>3, FS_EmptySet
<1> QED BY <1>2, <1>4, <1>5, <1>6, <1>7

LEMMA OfMinus ==
  ASSUME NEW ps \in SUBSET Pairs, NEW qs \in SUBSET Pairs, qs \subseteq ps, NEW i
  PROVE  Of(ps \ qs, i) = Of(ps, i) - Of(qs, i)
<1>1. /\ ps \ qs \in SUBSET Pairs
      /\ (ps \ qs) \union qs = ps /\ (ps \ qs) \intersect qs = {}
  OBVIOUS
<1>2. Of(ps, i) = Of(ps \ qs, i) + Of(qs, i)
  BY <1>1, OfUnion
<1>3. Of(ps \ qs, i) \in Nat /\ Of(qs, i) \in Nat
  BY <1>1, OfType
<1> QED BY <1>2, <1>3

(* What a statement adds to the number of rows *)
LEMMA RowsCounted ==
  ASSUME NEW old \in SUBSET Pairs, NEW in \in SUBSET Pairs, NEW out \in SUBSET Pairs,
         in \intersect old = {}, out \subseteq old, NEW i
  PROVE  /\ Of((old \union in) \ out, i) = Of(old, i) + Of(in, i) - Of(out, i)
         /\ Of((old \union in) \ out, i) \in Nat
<1>1. old \union in \in SUBSET Pairs /\ out \subseteq old \union in
      /\ (old \union in) \ out \in SUBSET Pairs
  OBVIOUS
<1>2. Of((old \union in) \ out, i) = Of(old \union in, i) - Of(out, i)
  BY <1>1, OfMinus
<1>3. Of(old \union in, i) = Of(old, i) + Of(in, i)
  BY OfUnion
<1>4. Of((old \union in) \ out, i) \in Nat
  BY <1>1, OfType
<1>5. Of(old, i) \in Nat /\ Of(in, i) \in Nat /\ Of(out, i) \in Nat
  BY OfType
<1> QED BY <1>2, <1>3, <1>4, <1>5

(* What the ticks hold: rows that came, or went, and are not counted yet *)
Held(f, i) == {q \in Servers \X Pairs : q[2] \in f[q[1]] /\ ItemOf[q[2]] = i}

LEMMA UncountedType ==
  ASSUME NEW f, NEW i
  PROVE  IsFiniteSet(Held(f, i)) /\ Uncounted(f, i) = Cardinality(Held(f, i))
         /\ Uncounted(f, i) \in Nat
<1>1. IsFiniteSet(Servers \X Pairs)
  BY FiniteSystem, FS_Product
<1>2. Held(f, i) \in SUBSET (Servers \X Pairs)
  BY DEF Held
<1>3. IsFiniteSet(Held(f, i))
  BY <1>1, <1>2, FS_Subset
<1>4. Uncounted(f, i) = Cardinality(Held(f, i))
  BY DEF Uncounted, Held
<1> QED BY <1>3, <1>4, FS_CardinalityType

LEMMA UncountedNone ==
  ASSUME NEW f, NEW i, \A s \in Servers, p \in Pairs : p \in f[s] => ItemOf[p] # i
  PROVE  Uncounted(f, i) = 0
<1>1. Held(f, i) = {}
  BY DEF Held
<1> QED BY <1>1, UncountedType, FS_EmptySet

(* One tick has more to count, the others as much as before. *)
Grows(f, g, s, ps) == /\ \A t \in Servers \ {s} : g[t] = f[t]
                      /\ g[s] = f[s] \union ps /\ f[s] \intersect ps = {}

LEMMA UncountedGrows ==
  ASSUME NEW f, NEW g, NEW s \in Servers, NEW ps \in SUBSET Pairs, NEW i, Grows(f, g, s, ps)
  PROVE  Uncounted(g, i) = Uncounted(f, i) + Of(ps, i)
<1>0. /\ \A t \in Servers \ {s} : g[t] = f[t]
      /\ g[s] = f[s] \union ps /\ f[s] \intersect ps = {}
  BY DEF Grows
<1> DEFINE P == {p \in ps : ItemOf[p] = i}
<1>1. IsFiniteSet(P) /\ Of(ps, i) = Cardinality(P) /\ Cardinality(P) \in Nat
  BY OfType DEF Of
<1>2. IsFiniteSet({s} \X P) /\ Cardinality({s} \X P) = Cardinality(P)
  <2> HIDE DEF P
  <2>1. IsFiniteSet({s}) /\ Cardinality({s}) = 1
    BY FS_Singleton
  <2>2. IsFiniteSet({s} \X P) /\ Cardinality({s} \X P) = Cardinality({s}) * Cardinality(P)
    BY <1>1, <2>1, FS_Product
  <2> QED BY <1>1, <2>1, <2>2
<1>3. Held(g, i) = Held(f, i) \union ({s} \X P)
  <2>1. ASSUME NEW q \in Servers \X Pairs PROVE q \in Held(g, i) <=> q \in Held(f, i) \union ({s} \X P)
    <3>1. PICK t \in Servers, p \in Pairs : q = <<t, p>>
      OBVIOUS
    <3>2. q \in Held(f, i) <=> (p \in f[t] /\ ItemOf[p] = i)
      BY <3>1 DEF Held
    <3>3. q \in Held(g, i) <=> (p \in g[t] /\ ItemOf[p] = i)
      BY <3>1 DEF Held
    <3>4. q \in {s} \X P <=> (t = s /\ p \in ps /\ ItemOf[p] = i)
      BY <3>1
    <3> QED BY <1>0, <3>2, <3>3, <3>4
  <2>2. Held(g, i) \subseteq Servers \X Pairs /\ Held(f, i) \subseteq Servers \X Pairs
    BY DEF Held
  <2>3. {s} \X P \subseteq Servers \X Pairs
    OBVIOUS
  <2> HIDE DEF P
  <2> QED BY <2>1, <2>2, <2>3
<1>4. Held(f, i) \intersect ({s} \X P) = {}
  BY <1>0 DEF Held
<1>5. Cardinality(Held(f, i) \intersect ({s} \X P)) = 0
  BY <1>4, FS_EmptySet
<1> HIDE DEF P
<1>6. Cardinality(Held(f, i) \union ({s} \X P)) =
        Cardinality(Held(f, i)) + Cardinality({s} \X P)
          - Cardinality(Held(f, i) \intersect ({s} \X P))
  BY <1>2, UncountedType, FS_Union
<1> QED BY <1>1, <1>2, <1>3, <1>5, <1>6, UncountedType

-----------------------------------------------------------------------------
(* The shape of the state: types, and that a tick has in hand only what its step
   lets it have. *)

Ticks == [step : {"idle", "drainUnlikes", "apply"}, likes : SUBSET Pairs,
          unlikes : SUBSET Pairs, new : SUBSET Pairs, gone : SUBSET Pairs]

Tidy(t) ==
  /\ t.step = "idle" => t.likes = {}
  /\ t.step # "apply" => t.unlikes = {} /\ t.new = {} /\ t.gone = {}
  /\ t.likes \intersect t.unlikes = {}
  /\ t.new \intersect t.likes = {} /\ t.gone \intersect t.unlikes = {}
  /\ table = "post_views" => t.unlikes = {} /\ t.step # "drainUnlikes"

Buffers == /\ likes \subseteq Pairs /\ unlikes \subseteq Pairs
           /\ table = "post_views" => unlikes = {}
           /\ toggling \in [Pairs -> [Kinds -> Nat]]
           /\ last \in [Pairs -> {"none"} \union Kinds]
           /\ excused \subseteq Pairs /\ miscounted \subseteq Items
           /\ toggles \in 0..MaxToggles /\ faults \in 0..MaxFaults

Table == /\ table \in Tables /\ rows \subseteq Pairs
         /\ exists \subseteq Items /\ count \in [Items -> Int]

TickShape == flush \in [Servers -> Ticks] /\ \A s \in Servers : Tidy(flush[s])

Shape == Buffers /\ Table /\ TickShape

(* A step of a tick replaces its record, and no other tick's. *)
Becomes(s, t) == flush' = [flush EXCEPT ![s] = t]
Keeping(s, st, ls, us) == [step |-> st, likes |-> ls, unlikes |-> us,
                           new |-> flush[s].new, gone |-> flush[s].gone]

LEMMA BecomesShape ==
  ASSUME TickShape, NEW s \in Servers, NEW t \in Ticks, Becomes(s, t), Tidy(t), UNCHANGED table
  PROVE  /\ TickShape'
         /\ flush'[s] = t /\ \A r \in Servers \ {s} : flush'[r] = flush[r]
<1>1. flush' \in [Servers -> Ticks]
      /\ flush'[s] = t /\ \A r \in Servers \ {s} : flush'[r] = flush[r]
  BY DEF TickShape, Becomes
<1>2. ASSUME NEW r \in Servers PROVE Tidy(flush[r])'
  <2>1. CASE r = s
    BY <1>1, <2>1 DEF Tidy
  <2>2. CASE r # s
    BY <1>1, <2>2 DEF Tidy, TickShape
  <2> QED BY <2>1, <2>2
<1> QED BY <1>1, <1>2 DEF TickShape

LEMMA IdleType == IdleTick \in Ticks /\ Tidy(IdleTick)
BY DEF IdleTick, Ticks, Tidy

LEMMA InitShape == Init => Shape
<1> SUFFICES ASSUME Init PROVE Shape
  OBVIOUS
<1>1. Nobody \in [Kinds -> Nat]
  BY DEF Nobody
<1>2. Buffers
  BY <1>1, LikeBounds DEF Init, Buffers
<1>3. Table
  BY DEF Init, Table
<1>4. TickShape
  BY IdleType DEF Init, TickShape
<1> QED BY <1>2, <1>3, <1>4 DEF Shape

LEMMA FaultType == Shape /\ Fault => faults' \in 0..MaxFaults
BY LikeBounds DEF Shape, Buffers, Fault

(* The steps of a handler *)
HandlerStep(p) == \/ BufferLike(p) \/ BufferUnlike(p) \/ BufferView(p)
                  \/ \E what \in Kinds : \/ BufferFails(p, what)
                                         \/ CancelOpposite(p, what) \/ CancelFails(p, what)

LEMMA ToggleType ==
  ASSUME Shape, NEW p \in Pairs, NEW what \in Kinds, Toggle(p, what)
  PROVE  /\ toggling' \in [Pairs -> [Kinds -> Nat]]
         /\ last' \in [Pairs -> {"none"} \union Kinds] /\ toggles' \in 0..MaxToggles
         /\ \A q \in Pairs \ {p} : last'[q] = last[q] /\ toggling'[q] = toggling[q]
         /\ last'[p] = what
         /\ toggling'[p][Opposite(what)] = toggling[p][Opposite(what)]
         /\ table # "post_views" => toggling'[p][what] = toggling[p][what] + 1
         /\ UNCHANGED <<table, rows, count, exists, flush, miscounted>>
<1>1. toggling \in [Pairs -> [Kinds -> Nat]] /\ last \in [Pairs -> {"none"} \union Kinds]
      /\ toggles \in 0..MaxToggles
  BY DEF Shape, Buffers
<1>2. Opposite(what) # what /\ Opposite(what) \in Kinds
  BY DEF Opposite, Kinds
<1>3. \/ toggling' = toggling /\ table = "post_views"
      \/ toggling' = [toggling EXCEPT ![p] = [toggling[p] EXCEPT ![what] = toggling[p][what] + 1]]
  BY <1>1 DEF Toggle
<1>4. toggles' \in 0..MaxToggles
  BY <1>1, LikeBounds DEF Toggle
<1> QED BY <1>1, <1>2, <1>3, <1>4 DEF Toggle

LEMMA HandlerDone ==
  ASSUME Shape, NEW p \in Pairs, NEW what \in Kinds, UnderWay(p, what),
         toggling' = [toggling EXCEPT ![p][what] = @ - 1]
  PROVE  /\ toggling' \in [Pairs -> [Kinds -> Nat]]
         /\ \A q \in Pairs \ {p} : toggling'[q] = toggling[q]
         /\ \A w \in Kinds \ {what} : toggling'[p][w] = toggling[p][w]
<1>1. toggling \in [Pairs -> [Kinds -> Nat]]
  BY DEF Shape, Buffers
<1>2. toggling[p][what] - 1 \in Nat
  BY <1>1 DEF UnderWay
<1> QED BY <1>1, <1>2

LEMMA HandlerShape ==
  ASSUME Shape, NEW p \in Pairs, HandlerStep(p)
  PROVE  Shape' /\ UNCHANGED <<table, rows, count, exists, flush, miscounted>>
<1>1. UNCHANGED <<table, rows, count, exists, flush, miscounted>>
  BY DEF HandlerStep, BufferLike, BufferUnlike, BufferView, BufferFails, CancelOpposite,
         CancelFails, Toggle, history
<1>2. Table' /\ TickShape'
  BY <1>1 DEF Shape, Table, TickShape, Tidy
<1>3. Buffers'
  <2> USE DEF Shape, Buffers
  <2>0. "like" \in Kinds /\ "unlike" \in Kinds
    BY DEF Kinds
  <2>1. CASE BufferLike(p)
    BY <1>1, <2>0, <2>1, ToggleType DEF BufferLike, Crosses
  <2>2. CASE BufferUnlike(p)
    BY <1>1, <2>0, <2>2, ToggleType DEF BufferUnlike, Crosses
  <2>3. CASE BufferView(p)
    BY <1>1, <2>0, <2>3, ToggleType DEF BufferView, Crosses
  <2>4. ASSUME NEW what \in Kinds, BufferFails(p, what) PROVE Buffers'
    BY <1>1, <2>4, ToggleType, FaultType DEF BufferFails
  <2>5. ASSUME NEW what \in Kinds, CancelOpposite(p, what) PROVE Buffers'
    BY <1>1, <2>5, HandlerDone DEF CancelOpposite, history
  <2>6. ASSUME NEW what \in Kinds, CancelFails(p, what) PROVE Buffers'
    BY <1>1, <2>6, HandlerDone, FaultType DEF CancelFails
  <2> QED BY <2>1, <2>2, <2>3, <2>4, <2>5, <2>6 DEF HandlerStep
<1> QED BY <1>1, <1>2, <1>3 DEF Shape

(* What a step of a tick does to its record.  A chunk leaves the pairs in hand. *)
LEMMA DrainLikesTick ==
  ASSUME Shape, NEW s \in Servers, DrainLikes(s) \/ DrainLikesFails(s)
  PROVE  /\ \E t \in Ticks : /\ Becomes(s, t) /\ Tidy(t)
                             /\ t.new = flush[s].new /\ t.gone = flush[s].gone
                             /\ t.unlikes = {} /\ flush[s].unlikes = {} /\ flush[s].likes = {}
                             /\ t.likes = IF DrainLikes(s) THEN likes ELSE {}
                             /\ table # "post_views" => t.step = "drainUnlikes"
         /\ UNCHANGED table
<1>1. /\ flush \in [Servers -> Ticks] /\ flush[s] \in Ticks /\ Tidy(flush[s])
      /\ flush[s].step = "idle" /\ likes \subseteq Pairs
  BY DEF Shape, TickShape, Buffers, DrainLikes, DrainLikesFails
<1>2. /\ flush[s].likes = {} /\ flush[s].unlikes = {} /\ flush[s].new = {} /\ flush[s].gone = {}
  BY <1>1 DEF Tidy
<1> DEFINE t == Keeping(s, IF table # "post_views" THEN "drainUnlikes"
                           ELSE IF DrainLikes(s) /\ likes # {} THEN "apply" ELSE "idle",
                        IF DrainLikes(s) THEN likes ELSE {}, {})
<1>3. t \in Ticks /\ Tidy(t)
  BY <1>1, <1>2 DEF Keeping, Ticks, Tidy
<1>4. /\ t.new = flush[s].new /\ t.gone = flush[s].gone /\ t.unlikes = {}
      /\ t.likes = IF DrainLikes(s) THEN likes ELSE {}
      /\ table # "post_views" => t.step = "drainUnlikes"
  BY DEF Keeping
<1>5. Becomes(s, t)
  <2>1. CASE DrainLikes(s)
    <3>1. \/ flush' = flush /\ table = "post_views" /\ likes = {}
          \/ flush' = [flush EXCEPT ![s].likes = likes,
                                    ![s].step = IF table = "post_views" THEN "apply"
                                                                        ELSE "drainUnlikes"]
             /\ ~(table = "post_views" /\ likes = {})
      BY <2>1 DEF DrainLikes
    <3> QED BY <1>1, <1>2, <2>1, <3>1 DEF Keeping, Ticks, Becomes
  <2>2. CASE DrainLikesFails(s) /\ ~DrainLikes(s)
    <3>1. flush' = IF table = "post_views" THEN flush
                                           ELSE [flush EXCEPT ![s].step = "drainUnlikes"]
      BY <2>2 DEF DrainLikesFails
    <3>2. t = Keeping(s, IF table = "post_views" THEN "idle" ELSE "drainUnlikes", {}, {})
      BY <2>2
    <3>3. CASE table = "post_views"
      <4>1. t = flush[s]
        BY <1>1, <1>2, <3>2, <3>3 DEF Keeping, Ticks
      <4> QED BY <1>1, <3>1, <3>3, <4>1 DEF Becomes
    <3>4. CASE table # "post_views"
      <4>1. t = [flush[s] EXCEPT !.step = "drainUnlikes"]
        BY <1>1, <1>2, <3>2, <3>4 DEF Keeping, Ticks
      <4> QED BY <1>1, <3>1, <3>4, <4>1 DEF Becomes
    <3> QED BY <3>3, <3>4
  <2> QED BY <2>1, <2>2
<1> HIDE DEF t
<1> QED BY <1>2, <1>3, <1>4, <1>5 DEF DrainLikes, DrainLikesFails

LEMMA DrainUnlikesTick ==
  ASSUME Shape, NEW s \in Servers, DrainUnlikes(s) \/ DrainUnlikesFails(s)
  PROVE  LET both == IF DrainUnlikes(s) THEN flush[s].likes \intersect unlikes ELSE {} IN
         /\ \E t \in Ticks : /\ Becomes(s, t) /\ Tidy(t)
                             /\ t.new = flush[s].new /\ t.gone = flush[s].gone
                             /\ flush[s].unlikes = {}
                             /\ t.likes = flush[s].likes \ both
                             /\ t.unlikes = IF DrainUnlikes(s) THEN unlikes \ both ELSE {}
         /\ UNCHANGED table
<1>1. /\ flush \in [Servers -> Ticks] /\ flush[s] \in Ticks /\ Tidy(flush[s])
      /\ flush[s].step = "drainUnlikes" /\ likes \subseteq Pairs /\ unlikes \subseteq Pairs
  BY DEF Shape, TickShape, Buffers, DrainUnlikes, DrainUnlikesFails
<1>2. /\ flush[s].unlikes = {} /\ flush[s].new = {} /\ flush[s].gone = {} /\ table # "post_views"
  BY <1>1 DEF Tidy
<1> DEFINE both == IF DrainUnlikes(s) THEN flush[s].likes \intersect unlikes ELSE {}
           us == IF DrainUnlikes(s) THEN unlikes \ both ELSE {}
           t == Keeping(s, IF flush[s].likes = {} /\ (DrainUnlikes(s) => unlikes = {})
                             THEN "idle" ELSE "apply", flush[s].likes \ both, us)
<1>3. t \in Ticks
  BY <1>1, <1>2 DEF Keeping, Ticks
<1>4. Tidy(t)
  <2>1. /\ flush[s].likes = {} /\ (DrainUnlikes(s) => unlikes = {}) => us = {}
        /\ (flush[s].likes \ both) \intersect us = {}
    OBVIOUS
  <2> HIDE DEF us, both
  <2> QED BY <1>2, <2>1 DEF Keeping, Tidy
<1>5. /\ t.new = flush[s].new /\ t.gone = flush[s].gone /\ t.likes = flush[s].likes \ both
      /\ t.unlikes = IF DrainUnlikes(s) THEN unlikes \ both ELSE {}
  BY DEF Keeping
<1>6. Becomes(s, t)
  <2>1. CASE DrainUnlikes(s)
    <3>1. flush' = [flush EXCEPT ![s] =
                      IF flush[s].likes = {} /\ unlikes = {} THEN IdleTick
                      ELSE [step |-> "apply", likes |-> flush[s].likes \ both,
                            unlikes |-> unlikes \ both, new |-> {}, gone |-> {}]]
      BY <1>1, <2>1 DEF DrainUnlikes
    <3>2. t = IF flush[s].likes = {} /\ unlikes = {} THEN IdleTick
              ELSE [step |-> "apply", likes |-> flush[s].likes \ both,
                    unlikes |-> unlikes \ both, new |-> {}, gone |-> {}]
      BY <1>2, <2>1 DEF Keeping, IdleTick
    <3> HIDE DEF t, both
    <3> QED BY <3>1, <3>2 DEF Becomes
  <2>2. CASE DrainUnlikesFails(s) /\ ~DrainUnlikes(s)
    <3>1. flush' = IF flush[s].likes = {} THEN [flush EXCEPT ![s] = IdleTick]
                                          ELSE [flush EXCEPT ![s].step = "apply"]
      BY <2>2 DEF DrainUnlikesFails
    <3>2. both = {} /\ us = {}
      BY <2>2
    <3>3. CASE flush[s].likes = {}
      <4>1. t = IdleTick
        BY <1>1, <1>2, <2>2, <3>2, <3>3 DEF Keeping, IdleTick
      <4> QED BY <3>1, <3>3, <4>1 DEF Becomes
    <3>4. CASE flush[s].likes # {}
      <4>1. t = [flush[s] EXCEPT !.step = "apply"]
        <5>1. t = Keeping(s, "apply", flush[s].likes, {})
          BY <2>2, <3>2, <3>4
        <5> HIDE DEF t, us, both
        <5> QED BY <1>1, <1>2, <5>1 DEF Keeping, Ticks
      <4> QED BY <1>1, <3>1, <3>4, <4>1 DEF Becomes
    <3> QED BY <3>3, <3>4
  <2> QED BY <2>1, <2>2
<1> HIDE DEF t
<1> QED BY <1>2, <1>3, <1>4, <1>5, <1>6 DEF DrainUnlikes, DrainUnlikesFails

LEMMA ChunkSets ==
  ASSUME Shape, NEW s \in Servers, NEW chunk, Inserting(s, chunk) \/ Deleting(s, chunk)
  PROVE  /\ chunk \in SUBSET Pairs /\ rows \in SUBSET Pairs
         /\ flush[s] \in Ticks /\ flush[s].step = "apply" /\ Tidy(flush[s])
         /\ Inserting(s, chunk) => /\ chunk \subseteq flush[s].likes
                                   /\ ~Deleting(s, chunk)
         /\ Deleting(s, chunk) => chunk \subseteq flush[s].unlikes /\ flush[s].likes = {}
<1>1. flush[s] \in Ticks /\ Tidy(flush[s]) /\ rows \in SUBSET Pairs
  BY DEF Shape, TickShape, Table
<1>2. Inserting(s, chunk) => chunk \subseteq flush[s].likes /\ chunk # {}
  BY DEF Inserting, Chunks
<1>3. Deleting(s, chunk) => /\ chunk \subseteq flush[s].unlikes /\ chunk # {}
                            /\ flush[s].likes = {}
  BY DEF Deleting, Chunks
<1>4. flush[s].step = "apply"
  BY DEF Inserting, Deleting
<1> QED BY <1>1, <1>2, <1>3, <1>4 DEF Ticks

(* The pairs of a chunk leave the tick's hands, and rows to be counted are added. *)
LEMMA ChunkTick ==
  ASSUME Shape, NEW s \in Servers, NEW chunk, Inserting(s, chunk) \/ Deleting(s, chunk),
         NEW in, NEW out, in \subseteq chunk, out \subseteq chunk,
         Inserting(s, chunk) => out = {}, Deleting(s, chunk) => in = {},
         NEW t, t = [step |-> "apply", likes |-> flush[s].likes \ chunk,
                     unlikes |-> flush[s].unlikes \ chunk,
                     new |-> flush[s].new \union in, gone |-> flush[s].gone \union out]
  PROVE  t \in Ticks /\ Tidy(t)
<1>1. /\ chunk \in SUBSET Pairs /\ flush[s] \in Ticks /\ flush[s].step = "apply"
      /\ Tidy(flush[s])
      /\ Inserting(s, chunk) => chunk \subseteq flush[s].likes
      /\ Deleting(s, chunk) => chunk \subseteq flush[s].unlikes
  BY ChunkSets
<1>2. t \in Ticks
  BY <1>1 DEF Ticks
<1>3. Tidy(t)
  BY <1>1 DEF Tidy
<1> QED BY <1>2, <1>3

(* The four outcomes of a statement in one form: rows come in or go out, and the
   tick will count those of seenIn and seenOut. *)
Statement(s, chunk, in, out, seenIn, seenOut) ==
  /\ Inserting(s, chunk) \/ Deleting(s, chunk)
  /\ in \subseteq chunk \ rows /\ \A p \in in : ItemOf[p] \in exists
  /\ out \subseteq chunk \intersect rows
  /\ seenIn \subseteq chunk /\ seenOut \subseteq chunk
  /\ Inserting(s, chunk) => out = {} /\ seenOut = {}
  /\ Deleting(s, chunk) => in = {} /\ seenIn = {}
  /\ rows' = (rows \union in) \ out
  /\ Becomes(s, [step |-> "apply", likes |-> flush[s].likes \ chunk,
                 unlikes |-> flush[s].unlikes \ chunk,
                 new |-> flush[s].new \union seenIn, gone |-> flush[s].gone \union seenOut])
  /\ IF table = "comment_likes"
       THEN /\ seenIn = {} /\ seenOut = {} /\ UNCHANGED miscounted
            /\ count' = [i \in Items |-> count[i] + Of(in, i) - Of(out, i)]
       ELSE /\ miscounted' = miscounted
                 \union {ItemOf[p] : p \in (in \ seenIn) \union (seenIn \ in)
                                             \union (out \ seenOut) \union (seenOut \ out)}
            /\ UNCHANGED count
  /\ UNCHANGED <<table, toggling, exists, last, toggles>>

LEMMA InsertStatement ==
  ASSUME Shape, NEW s \in Servers, NEW chunk, InsertChunk(s, chunk)
  PROVE  /\ \E seen \in {{}, chunk \ rows} : Statement(s, chunk, chunk \ rows, {}, seen, {})
         /\ Inserting(s, chunk) /\ UNCHANGED <<likes, unlikes, excused, faults>>
<1>0. Inserting(s, chunk) /\ ~Refused(chunk) /\ Applied(s, chunk, chunk \ rows, {})
      /\ UNCHANGED <<table, likes, unlikes, toggling, exists, last, excused, miscounted,
                     toggles, faults>>
  BY DEF InsertChunk, buffers, history
<1>1. flush \in [Servers -> Ticks] /\ flush[s] \in Ticks /\ flush[s].step = "apply"
      /\ chunk \in SUBSET Pairs
  BY <1>0, ChunkSets DEF Shape, TickShape
<1>2. ~Deleting(s, chunk) /\ rows \in SUBSET Pairs
  BY <1>0, ChunkSets
<1>3. \A p \in chunk \ rows : ItemOf[p] \in exists
  BY <1>0 DEF Refused
<1>4. CASE table = "comment_likes"
  <2>1. count' = [i \in Items |-> count[i] + Of(chunk \ rows, i) - Of({}, i)]
    BY <1>0, <1>4 DEF Applied
  <2>2. Becomes(s, [step |-> "apply", likes |-> flush[s].likes \ chunk,
                    unlikes |-> flush[s].unlikes \ chunk,
                    new |-> flush[s].new \union {}, gone |-> flush[s].gone \union {}])
    BY <1>0, <1>1, <1>4 DEF Applied, Becomes, Ticks
  <2>3. rows' = (rows \union (chunk \ rows)) \ {}
    BY <1>0 DEF Applied
  <2>4. Statement(s, chunk, chunk \ rows, {}, {}, {})
    BY <1>0, <1>2, <1>3, <1>4, <2>1, <2>2, <2>3 DEF Statement
  <2> QED BY <1>0, <2>4
<1>5. CASE table # "comment_likes"
  <2>2. Becomes(s, [step |-> "apply", likes |-> flush[s].likes \ chunk,
                    unlikes |-> flush[s].unlikes \ chunk,
                    new |-> flush[s].new \union (chunk \ rows), gone |-> flush[s].gone \union {}])
    BY <1>0, <1>1, <1>5 DEF Applied, Becomes, Ticks
  <2>3. rows' = (rows \union (chunk \ rows)) \ {} /\ UNCHANGED count
    BY <1>0, <1>5 DEF Applied
  <2>4. Statement(s, chunk, chunk \ rows, {}, chunk \ rows, {})
    BY <1>0, <1>2, <1>3, <1>5, <2>2, <2>3 DEF Statement
  <2> QED BY <1>0, <2>4
<1> QED BY <1>4, <1>5

LEMMA DeleteStatement ==
  ASSUME Shape, NEW s \in Servers, NEW chunk, DeleteChunk(s, chunk)
  PROVE  /\ \E seen \in {{}, chunk \intersect rows} :
              Statement(s, chunk, {}, chunk \intersect rows, {}, seen)
         /\ Deleting(s, chunk) /\ UNCHANGED <<likes, unlikes, excused, faults>>
<1>0. Deleting(s, chunk) /\ Applied(s, chunk, {}, chunk \intersect rows)
      /\ UNCHANGED <<table, likes, unlikes, toggling, exists, last, excused, miscounted,
                     toggles, faults>>
  BY DEF DeleteChunk, buffers, history
<1>1. flush \in [Servers -> Ticks] /\ flush[s] \in Ticks /\ flush[s].step = "apply"
      /\ chunk \in SUBSET Pairs
  BY <1>0, ChunkSets DEF Shape, TickShape
<1>2. ~Inserting(s, chunk) /\ rows \in SUBSET Pairs
  BY <1>0, ChunkSets
<1>4. CASE table = "comment_likes"
  <2>1. count' = [i \in Items |-> count[i] + Of({}, i) - Of(chunk \intersect rows, i)]
    BY <1>0, <1>4 DEF Applied
  <2>2. Becomes(s, [step |-> "apply", likes |-> flush[s].likes \ chunk,
                    unlikes |-> flush[s].unlikes \ chunk,
                    new |-> flush[s].new \union {}, gone |-> flush[s].gone \union {}])
    BY <1>0, <1>1, <1>4 DEF Applied, Becomes, Ticks
  <2>3. rows' = (rows \union {}) \ (chunk \intersect rows)
    BY <1>0 DEF Applied
  <2>4. Statement(s, chunk, {}, chunk \intersect rows, {}, {})
    BY <1>0, <1>2, <1>4, <2>1, <2>2, <2>3 DEF Statement
  <2> QED BY <1>0, <2>4
<1>5. CASE table # "comment_likes"
  <2>2. Becomes(s, [step |-> "apply", likes |-> flush[s].likes \ chunk,
                    unlikes |-> flush[s].unlikes \ chunk,
                    new |-> flush[s].new \union {},
                    gone |-> flush[s].gone \union (chunk \intersect rows)])
    BY <1>0, <1>1, <1>5 DEF Applied, Becomes, Ticks
  <2>3. rows' = (rows \union {}) \ (chunk \intersect rows) /\ UNCHANGED count
    BY <1>0, <1>5 DEF Applied
  <2>4. Statement(s, chunk, {}, chunk \intersect rows, {}, chunk \intersect rows)
    BY <1>0, <1>2, <1>5, <2>2, <2>3 DEF Statement
  <2> QED BY <1>0, <2>4
<1> QED BY <1>4, <1>5

(* Another way to say what a step of a tick does: field by field *)
LEMMA BecomesRecord ==
  ASSUME TickShape, flush' \in [Servers -> Ticks], NEW s \in Servers,
         \A r \in Servers \ {s} : flush'[r] = flush[r]
  PROVE  Becomes(s, [step |-> flush'[s].step, likes |-> flush'[s].likes,
                     unlikes |-> flush'[s].unlikes, new |-> flush'[s].new,
                     gone |-> flush'[s].gone])
<1>1. \A r \in Ticks : r = [step |-> r.step, likes |-> r.likes, unlikes |-> r.unlikes,
                            new |-> r.new, gone |-> r.gone]
  BY DEF Ticks
<1>2. flush'[s] \in Ticks
  OBVIOUS
<1>3. flush' = [flush EXCEPT ![s] = flush'[s]]
  BY DEF TickShape
<1> QED BY <1>1, <1>2, <1>3 DEF Becomes

(* A failing statement: with the pairs put back, or not *)
LEMMA FailedInsert ==
  ASSUME Shape, NEW s \in Servers, NEW chunk, InsertFails(s, chunk)
  PROVE  /\ Inserting(s, chunk) /\ Fault /\ UNCHANGED unlikes
         /\ \E done, read : Statement(s, chunk, done, {}, read, {})
         /\ \/ likes' = likes \union chunk
               /\ excused' = excused \union {p \in chunk : last[p] # "like"}
            \/ likes' = likes
               /\ excused' = excused \union {p \in chunk \ rows' : last[p] = "like"}
<1>0. Inserting(s, chunk) /\ Fault
      /\ UNCHANGED <<table, unlikes, toggling, exists, last, toggles>>
  BY DEF InsertFails
<1>1. flush \in [Servers -> Ticks] /\ flush[s] \in Ticks /\ flush[s].step = "apply"
      /\ chunk \in SUBSET Pairs /\ ~Deleting(s, chunk) /\ Tidy(flush[s])
      /\ chunk \subseteq flush[s].likes
  BY <1>0, ChunkSets DEF Shape, TickShape
<1>2. PICK done \in {{}, IF Refused(chunk) THEN {} ELSE chunk \ rows},
           read \in SUBSET (IF Refused(chunk) THEN {} ELSE chunk \ rows) :
        /\ rows' = rows \union done
        /\ flush' = [flush EXCEPT ![s].likes = @ \ chunk, ![s].new = @ \union read]
        /\ Struck(s, chunk, done, read)
        /\ \/ /\ read = {}
              /\ likes' = likes \union chunk
              /\ excused' = excused \union {p \in chunk : last[p] # "like"}
           \/ /\ excused' = excused \union {p \in chunk \ rows' : last[p] = "like"}
              /\ UNCHANGED likes
  BY DEF InsertFails
<1>3. /\ done \subseteq chunk \ rows /\ \A p \in done : ItemOf[p] \in exists
      /\ read \subseteq chunk /\ rows' = (rows \union done) \ {}
  BY <1>2 DEF Refused
<1>4. flush[s].unlikes \ chunk = flush[s].unlikes /\ flush[s].gone \union {} = flush[s].gone
  BY <1>1 DEF Tidy
<1>5. Becomes(s, [step |-> "apply", likes |-> flush[s].likes \ chunk,
                  unlikes |-> flush[s].unlikes, new |-> flush[s].new \union read,
                  gone |-> flush[s].gone])
  <2>1. /\ flush' \in [Servers -> Ticks] /\ \A r \in Servers \ {s} : flush'[r] = flush[r]
        /\ flush'[s].step = "apply" /\ flush'[s].likes = flush[s].likes \ chunk
        /\ flush'[s].unlikes = flush[s].unlikes
        /\ flush'[s].new = flush[s].new \union read /\ flush'[s].gone = flush[s].gone
    BY <1>1, <1>2, <1>3 DEF Ticks
  <2> QED BY <2>1, BecomesRecord DEF Shape
<1>6. IF table = "comment_likes"
        THEN /\ read = {} /\ UNCHANGED miscounted
             /\ count' = [i \in Items |-> count[i] + Of(done, i)]
        ELSE /\ miscounted' = miscounted
                  \union {ItemOf[p] : p \in (done \ read) \union (read \ done)}
             /\ UNCHANGED count
  BY <1>1, <1>2 DEF Struck
<1>7. table = "comment_likes" =>
        count' = [i \in Items |-> count[i] + Of(done, i) - Of({}, i)]
  <2>1. ASSUME NEW i \in Items PROVE count[i] + Of(done, i) - Of({}, i) = count[i] + Of(done, i)
    <3>1. Of({}, i) = 0
      BY OfNone
    <3>2. done \in SUBSET Pairs
      BY <1>1, <1>3
    <3>3. Of(done, i) \in Nat /\ count[i] \in Int
      BY <3>2, OfType DEF Shape, Table
    <3> QED BY <3>1, <3>3
  <2> QED BY <1>6, <2>1
<1>8. (done \ read) \union (read \ done) =
        (done \ read) \union (read \ done) \union ({} \ {}) \union ({} \ {})
  OBVIOUS
<1>9. Statement(s, chunk, done, {}, read, {})
  BY <1>0, <1>1, <1>3, <1>4, <1>5, <1>6, <1>7, <1>8 DEF Statement
<1> QED BY <1>0, <1>2, <1>9

LEMMA FailedDelete ==
  ASSUME Shape, NEW s \in Servers, NEW chunk, DeleteFails(s, chunk)
  PROVE  /\ Deleting(s, chunk) /\ Fault /\ UNCHANGED likes
         /\ \E done, read : Statement(s, chunk, {}, done, {}, read)
         /\ \/ unlikes' = unlikes \union chunk
               /\ excused' = excused \union {p \in chunk : last[p] # "unlike"}
            \/ unlikes' = unlikes
               /\ excused' = excused \union {p \in chunk \intersect rows' : last[p] = "unlike"}
<1>0. Deleting(s, chunk) /\ Fault
      /\ UNCHANGED <<table, likes, toggling, exists, last, toggles>>
  BY DEF DeleteFails
<1>1. flush \in [Servers -> Ticks] /\ flush[s] \in Ticks /\ flush[s].step = "apply"
      /\ chunk \in SUBSET Pairs /\ ~Inserting(s, chunk) /\ Tidy(flush[s])
      /\ chunk \subseteq flush[s].unlikes
  BY <1>0, ChunkSets DEF Shape, TickShape
<1>2. PICK done \in {{}, chunk \intersect rows}, read \in SUBSET (chunk \intersect rows) :
        /\ rows' = rows \ done
        /\ flush' = [flush EXCEPT ![s].unlikes = @ \ chunk, ![s].gone = @ \union read]
        /\ Struck(s, chunk, done, read)
        /\ \/ /\ read = {}
              /\ unlikes' = unlikes \union chunk
              /\ excused' = excused \union {p \in chunk : last[p] # "unlike"}
           \/ /\ excused' = excused \union {p \in chunk \intersect rows' : last[p] = "unlike"}
              /\ UNCHANGED unlikes
  BY DEF DeleteFails
<1>3. /\ done \subseteq chunk \intersect rows
      /\ read \subseteq chunk /\ rows' = (rows \union {}) \ done
  BY <1>2
<1>4. flush[s].likes \ chunk = flush[s].likes /\ flush[s].new \union {} = flush[s].new
  BY <1>1 DEF Tidy
<1>5. Becomes(s, [step |-> "apply", likes |-> flush[s].likes,
                  unlikes |-> flush[s].unlikes \ chunk, new |-> flush[s].new,
                  gone |-> flush[s].gone \union read])
  <2>1. /\ flush' \in [Servers -> Ticks] /\ \A r \in Servers \ {s} : flush'[r] = flush[r]
        /\ flush'[s].step = "apply" /\ flush'[s].likes = flush[s].likes
        /\ flush'[s].unlikes = flush[s].unlikes \ chunk
        /\ flush'[s].new = flush[s].new /\ flush'[s].gone = flush[s].gone \union read
    BY <1>1, <1>2, <1>3 DEF Ticks
  <2> QED BY <2>1, BecomesRecord DEF Shape
<1>6. IF table = "comment_likes"
        THEN /\ read = {} /\ UNCHANGED miscounted
             /\ count' = [i \in Items |-> count[i] - Of(done, i)]
        ELSE /\ miscounted' = miscounted
                  \union {ItemOf[p] : p \in (done \ read) \union (read \ done)}
             /\ UNCHANGED count
  BY <1>0, <1>2 DEF Struck
<1>7. table = "comment_likes" =>
        count' = [i \in Items |-> count[i] + Of({}, i) - Of(done, i)]
  <2>1. ASSUME NEW i \in Items PROVE count[i] + Of({}, i) - Of(done, i) = count[i] - Of(done, i)
    <3>1. Of({}, i) = 0
      BY OfNone
    <3>2. done \in SUBSET Pairs
      BY <1>1, <1>3
    <3>3. Of(done, i) \in Nat /\ count[i] \in Int
      BY <3>2, OfType DEF Shape, Table
    <3> QED BY <3>1, <3>3
  <2> QED BY <1>6, <2>1
<1>8. (done \ read) \union (read \ done) =
        ({} \ {}) \union ({} \ {}) \union (done \ read) \union (read \ done)
  OBVIOUS
<1>9. Statement(s, chunk, {}, done, {}, read)
  BY <1>0, <1>1, <1>3, <1>4, <1>5, <1>6, <1>7, <1>8 DEF Statement
<1> QED BY <1>0, <1>2, <1>9

LEMMA StatementShape ==
  ASSUME Shape, NEW s \in Servers, NEW chunk, NEW in, NEW out, NEW seenIn, NEW seenOut,
         Statement(s, chunk, in, out, seenIn, seenOut)
  PROVE  /\ Table' /\ TickShape' /\ miscounted' \subseteq Items
         /\ in \in SUBSET Pairs /\ out \in SUBSET Pairs
         /\ seenIn \in SUBSET Pairs /\ seenOut \in SUBSET Pairs
         /\ flush'[s].likes = flush[s].likes \ chunk
         /\ flush'[s].unlikes = flush[s].unlikes \ chunk
         /\ flush'[s].new = flush[s].new \union seenIn
         /\ flush'[s].gone = flush[s].gone \union seenOut
         /\ \A r \in Servers \ {s} : flush'[r] = flush[r]
<1> DEFINE t == [step |-> "apply", likes |-> flush[s].likes \ chunk,
                 unlikes |-> flush[s].unlikes \ chunk,
                 new |-> flush[s].new \union seenIn, gone |-> flush[s].gone \union seenOut]
<1>1. /\ Inserting(s, chunk) \/ Deleting(s, chunk)
      /\ in \subseteq chunk \ rows /\ out \subseteq chunk \intersect rows
      /\ seenIn \subseteq chunk /\ seenOut \subseteq chunk
      /\ Inserting(s, chunk) => seenOut = {}
      /\ Deleting(s, chunk) => seenIn = {}
      /\ rows' = (rows \union in) \ out /\ Becomes(s, t) /\ UNCHANGED <<table, exists>>
  BY DEF Statement
<1>2. chunk \in SUBSET Pairs /\ rows \in SUBSET Pairs
  BY <1>1, ChunkSets
<1>3. in \in SUBSET Pairs /\ out \in SUBSET Pairs
      /\ seenIn \in SUBSET Pairs /\ seenOut \in SUBSET Pairs
  BY <1>1, <1>2
<1>a. Inserting(s, chunk) => seenOut = {}
  BY DEF Statement
<1>b. Deleting(s, chunk) => seenIn = {}
  BY DEF Statement
<1>4. t \in Ticks /\ Tidy(t)
  BY <1>1, <1>a, <1>b, ChunkTick
<1>5. /\ t.likes = flush[s].likes \ chunk /\ t.unlikes = flush[s].unlikes \ chunk
      /\ t.new = flush[s].new \union seenIn /\ t.gone = flush[s].gone \union seenOut
  OBVIOUS
<1> HIDE DEF t
<1>6. TickShape' /\ flush'[s] = t /\ \A r \in Servers \ {s} : flush'[r] = flush[r]
  BY <1>1, <1>4, BecomesShape DEF Shape
<1>7. count' \in [Items -> Int]
  <2>1. count \in [Items -> Int] /\ \A i \in Items : Of(in, i) \in Nat /\ Of(out, i) \in Nat
    BY <1>3, OfType DEF Shape, Table
  <2>2. \/ count' = count
        \/ count' = [i \in Items |-> count[i] + Of(in, i) - Of(out, i)]
    BY DEF Statement
  <2> QED BY <2>1, <2>2
<1>8. miscounted' \subseteq Items
  <2>1. \A p \in Pairs : ItemOf[p] \in Items
    BY ItemsType
  <2>2. miscounted \subseteq Items
    BY DEF Shape, Buffers
  <2>3. miscounted' = miscounted \/
        miscounted' = miscounted
                 \union {ItemOf[p] : p \in (in \ seenIn) \union (seenIn \ in)
                                             \union (out \ seenOut) \union (seenOut \ out)}
    BY DEF Statement
  <2> QED BY <1>3, <2>1, <2>2, <2>3
<1>9. Table'
  BY <1>1, <1>2, <1>3, <1>7 DEF Shape, Table
<1> QED BY <1>3, <1>5, <1>6, <1>8, <1>9

(* Any of the steps of a tick that execute a statement *)
ChunkStep(s) == \E chunk \in SUBSET Pairs : \/ InsertChunk(s, chunk) \/ DeleteChunk(s, chunk)
                                            \/ InsertFails(s, chunk) \/ DeleteFails(s, chunk)

LEMMA ChunkStepStatement ==
  ASSUME Shape, NEW s \in Servers, ChunkStep(s)
  PROVE  \E chunk, in, out, seenIn, seenOut : Statement(s, chunk, in, out, seenIn, seenOut)
BY InsertStatement, DeleteStatement, FailedInsert, FailedDelete DEF ChunkStep

LEMMA ChunkStepShape ==
  ASSUME Shape, NEW s \in Servers, ChunkStep(s)
  PROVE  Shape'
<1>1. PICK chunk, in, out, seenIn, seenOut : Statement(s, chunk, in, out, seenIn, seenOut)
  BY ChunkStepStatement
<1>2. Table' /\ TickShape' /\ miscounted' \subseteq Items
  BY <1>1, StatementShape
<1>3. UNCHANGED <<table, toggling, exists, last, toggles>>
  BY <1>1 DEF Statement
<1>4. /\ likes' \subseteq Pairs /\ unlikes' \subseteq Pairs /\ excused' \subseteq Pairs
      /\ faults' \in 0..MaxFaults /\ (table = "post_views" => unlikes' = {})
  <2>1. /\ likes \subseteq Pairs /\ unlikes \subseteq Pairs /\ excused \subseteq Pairs
        /\ faults \in 0..MaxFaults /\ (table = "post_views" => unlikes = {})
    BY DEF Shape, Buffers
  <2>2. PICK c \in SUBSET Pairs : \/ InsertChunk(s, c) \/ DeleteChunk(s, c)
                                  \/ InsertFails(s, c) \/ DeleteFails(s, c)
    BY DEF ChunkStep
  <2>3. CASE InsertChunk(s, c)
    BY <2>1, <2>3, InsertStatement
  <2>4. CASE DeleteChunk(s, c)
    BY <2>1, <2>4, DeleteStatement
  <2>5. CASE InsertFails(s, c)
    BY <2>1, <2>5, FailedInsert, FaultType
  <2>6. CASE DeleteFails(s, c)
    <3>1. Deleting(s, c) /\ Fault /\ UNCHANGED likes /\ c \subseteq Pairs
      BY <2>6, FailedDelete
    <3>2. table # "post_views"
      <4>1. c \subseteq flush[s].unlikes /\ c # {} /\ Tidy(flush[s])
        BY <3>1, ChunkSets DEF Deleting, Chunks
      <4> QED BY <4>1 DEF Tidy
    <3> QED BY <2>1, <2>6, <3>1, <3>2, FailedDelete, FaultType
  <2> QED BY <2>2, <2>3, <2>4, <2>5, <2>6
<1> QED BY <1>2, <1>3, <1>4 DEF Shape, Buffers

(* The chunk of a deleted item leaves the tick's hands. *)
LEMMA RefusedTick ==
  ASSUME Shape, NEW s \in Servers, NEW chunk, InsertChunkRefused(s, chunk)
  PROVE  /\ Inserting(s, chunk) /\ chunk \subseteq Pairs
         /\ \E t \in Ticks : /\ Becomes(s, t) /\ Tidy(t) /\ t.likes = flush[s].likes \ chunk
                             /\ t.unlikes = flush[s].unlikes
                             /\ t.new = flush[s].new /\ t.gone = flush[s].gone
         /\ UNCHANGED table
<1>0. Inserting(s, chunk) /\ UNCHANGED table
      /\ flush' = [flush EXCEPT ![s].likes = @ \ chunk]
  BY DEF InsertChunkRefused
<1>1. /\ flush \in [Servers -> Ticks] /\ flush[s] \in Ticks /\ flush[s].step = "apply"
      /\ chunk \in SUBSET Pairs /\ Tidy(flush[s])
  BY <1>0, ChunkSets DEF Shape, TickShape
<1> DEFINE t == [step |-> "apply", likes |-> flush[s].likes \ chunk,
                 unlikes |-> flush[s].unlikes, new |-> flush[s].new, gone |-> flush[s].gone]
<1>2. t \in Ticks /\ Tidy(t)
  BY <1>1 DEF Ticks, Tidy
<1>3. Becomes(s, t)
  <2>1. /\ flush' \in [Servers -> Ticks] /\ \A r \in Servers \ {s} : flush'[r] = flush[r]
        /\ flush'[s].step = "apply" /\ flush'[s].likes = flush[s].likes \ chunk
        /\ flush'[s].unlikes = flush[s].unlikes
        /\ flush'[s].new = flush[s].new /\ flush'[s].gone = flush[s].gone
    BY <1>0, <1>1 DEF Ticks
  <2> QED BY <2>1, BecomesRecord DEF Shape
<1>4. /\ t.likes = flush[s].likes \ chunk /\ t.unlikes = flush[s].unlikes
      /\ t.new = flush[s].new /\ t.gone = flush[s].gone
  OBVIOUS
<1> HIDE DEF t
<1> QED BY <1>0, <1>1, <1>2, <1>3, <1>4

EndOfTick(s) == UpdateCounts(s) \/ UpdateCountsFails(s) \/ Crash(s)

LEMMA EndShape ==
  ASSUME Shape, NEW s \in Servers, EndOfTick(s)
  PROVE  /\ Shape' /\ flush'[s] = IdleTick /\ \A r \in Servers \ {s} : flush'[r] = flush[r]
         /\ UNCHANGED <<table, likes, unlikes, rows, exists, last>>
<1>1. /\ flush' = [flush EXCEPT ![s] = IdleTick]
      /\ UNCHANGED <<table, likes, unlikes, rows, exists, last, toggles>>
  BY DEF EndOfTick, UpdateCounts, UpdateCountsFails, Crash, buffers
<1>2. TickShape' /\ flush'[s] = IdleTick /\ \A r \in Servers \ {s} : flush'[r] = flush[r]
  BY <1>1, IdleType, BecomesShape DEF Becomes, Shape
<1>a. flush[s] \in Ticks
  BY DEF Shape, TickShape
<1>3. \A i \in Items : ByTick(s, i) \in Int
  <2>1. flush[s].new \in SUBSET Pairs /\ flush[s].gone \in SUBSET Pairs
    BY <1>a DEF Ticks
  <2>2. \A i \in Items : Of(flush[s].new, i) \in Nat /\ Of(flush[s].gone, i) \in Nat
    BY <2>1, OfType
  <2> QED BY <2>2 DEF ByTick
<1>4. Table'
  <2>1. count' \in [Items -> Int]
    BY <1>3 DEF EndOfTick, UpdateCounts, UpdateCountsFails, Crash, Larger, Shape, Table
  <2> QED BY <1>1, <2>1 DEF Shape, Table
<1>5. Buffers'
  <2> USE DEF Shape, Buffers
  <2>1. CASE UpdateCounts(s)
    <3>1. miscounted' \subseteq Items
      BY <2>1 DEF UpdateCounts, StoppedAtZero, Table
    <3> QED BY <1>1, <2>1, <3>1 DEF UpdateCounts, buffers
  <2>2. CASE UpdateCountsFails(s)
    BY <1>1, <2>2, FaultType DEF UpdateCountsFails, buffers
  <2>3. CASE Crash(s)
    <3>1. PICK dead \in SUBSET {h \in Pairs \X Kinds : UnderWay(h[1], h[2])} :
            /\ toggling' = [p \in Pairs |-> [what \in Kinds |->
                 IF <<p, what>> \in dead THEN toggling[p][what] - 1 ELSE toggling[p][what]]]
            /\ excused' = excused \union {p \in flush[s].likes : /\ last[p] = "like"
                                                                /\ p \in rows => p \in unlikes}
                            \union {p \in flush[s].unlikes \intersect rows : last[p] = "unlike"}
                            \union {p \in Pairs : \E what \in Kinds : <<p, what>> \in dead}
      BY <2>3 DEF Crash
    <3>2. \A p \in Pairs, what \in Kinds : <<p, what>> \in dead => toggling[p][what] > 0
      BY DEF UnderWay
    <3>3. toggling' \in [Pairs -> [Kinds -> Nat]]
      BY <3>1, <3>2
    <3>4. excused' \subseteq Pairs
      BY <1>a, <3>1 DEF Ticks
    <3>5. miscounted' \subseteq Items /\ faults' \in 0..MaxFaults
      BY <2>3, FaultType DEF Crash
    <3> QED BY <1>1, <3>3, <3>4, <3>5
  <2> QED BY <2>1, <2>2, <2>3 DEF EndOfTick
<1> QED BY <1>1, <1>2, <1>4, <1>5 DEF Shape

LEMMA DrainShape ==
  ASSUME Shape, NEW s \in Servers,
         DrainLikes(s) \/ DrainLikesFails(s) \/ DrainUnlikes(s) \/ DrainUnlikesFails(s)
  PROVE  Shape'
<1>1. TickShape'
  <2>1. \E t \in Ticks : Becomes(s, t) /\ Tidy(t) /\ UNCHANGED table
    BY DrainLikesTick, DrainUnlikesTick
  <2> QED BY <2>1, BecomesShape DEF Shape
<1>2. UNCHANGED <<table, toggling, rows, count, exists, last, miscounted, toggles>>
  BY DEF DrainLikes, DrainLikesFails, DrainUnlikes, DrainUnlikesFails
<1>3. likes' \in {likes, {}} /\ unlikes' \in {unlikes, {}}
  BY DEF DrainLikes, DrainLikesFails, DrainUnlikes, DrainUnlikesFails
<1>4. excused' \subseteq Pairs
  <2>1. excused \subseteq Pairs /\ likes \subseteq Pairs /\ unlikes \subseteq Pairs
        /\ flush[s].likes \subseteq Pairs
    BY DEF Shape, Buffers, TickShape, Ticks
  <2> QED BY <2>1 DEF DrainLikes, DrainLikesFails, DrainUnlikes, DrainUnlikesFails
<1>5. faults' \in 0..MaxFaults
  <2>1. faults \in 0..MaxFaults
    BY DEF Shape, Buffers
  <2> QED BY <2>1, FaultType DEF DrainLikes, DrainLikesFails, DrainUnlikes, DrainUnlikesFails
<1> QED BY <1>1, <1>2, <1>3, <1>4, <1>5 DEF Shape, Buffers, Table

LEMMA NextActions ==
  Next <=> \/ \E p \in Pairs : HandlerStep(p)
           \/ \E s \in Servers :
                \/ DrainLikes(s) \/ DrainLikesFails(s) \/ DrainUnlikes(s) \/ DrainUnlikesFails(s)
                \/ ChunkStep(s)
                \/ \E chunk \in SUBSET Pairs : InsertChunkRefused(s, chunk)
                \/ EndOfTick(s)
           \/ \E i \in Items : DeleteItem(i)
BY DEF Next, HandlerStep, Tick, ChunkStep, EndOfTick

LEMMA NextShape == Shape /\ [Next]_vars => Shape'
<1> SUFFICES ASSUME Shape, [Next]_vars PROVE Shape'
  OBVIOUS
<1>1. CASE UNCHANGED vars
  BY <1>1 DEF vars, buffers, history, Shape, Buffers, Table, TickShape, Tidy
<1>2. ASSUME NEW s \in Servers, NEW chunk, InsertChunkRefused(s, chunk) PROVE Shape'
  <2>1. TickShape'
    BY <1>2, RefusedTick, BecomesShape DEF Shape
  <2>2. chunk \subseteq Pairs
    BY <1>2, RefusedTick
  <2> QED BY <1>2, <2>1, <2>2 DEF InsertChunkRefused, Shape, Buffers, Table, buffers
<1>3. ASSUME NEW i \in Items, DeleteItem(i) PROVE Shape'
  BY <1>3 DEF DeleteItem, Shape, Buffers, Table, TickShape, Tidy, buffers, history
<1> QED BY <1>1, <1>2, <1>3, NextActions, HandlerShape, DrainShape, ChunkStepShape, EndShape

-----------------------------------------------------------------------------
(* The counters *)

(* The rows are of items that exist. *)
RowsExist == \A p \in rows : ItemOf[p] \in exists

(* The trigger keeps the counter of comment likes exact, whatever fails. *)
TriggerCounts ==
  table = "comment_likes" => /\ \A s \in Servers : flush[s].new = {} /\ flush[s].gone = {}
                             /\ \A i \in exists : count[i] = Of(rows, i)

CountInv == /\ Shape
            /\ count \in [Items -> Nat]
            /\ RowsExist /\ TriggerCounts /\ CountsRows

(* Without rows to be counted, a counter has to be the number of rows. *)
LEMMA NothingAdded ==
  ASSUME Table, \A s \in Servers : flush[s].new = {} /\ flush[s].gone = {},
         \A i \in exists \ miscounted : count[i] = Of(rows, i)
  PROVE  CountsRows
<1>1. ASSUME NEW i \in exists \ miscounted
      PROVE  count[i] + Uncounted(New, i) - Uncounted(Gone, i) = Of(rows, i)
  <2>1. Uncounted(New, i) = 0 /\ Uncounted(Gone, i) = 0
    BY UncountedNone DEF New, Gone
  <2>2. rows \in SUBSET Pairs
    BY DEF Table
  <2>3. Of(rows, i) \in Nat /\ count[i] = Of(rows, i)
    BY <2>2, OfType
  <2> QED BY <2>1, <2>3
<1> QED BY <1>1 DEF CountsRows

LEMMA InitCountInv == Init => CountInv
<1> SUFFICES ASSUME Init PROVE CountInv
  OBVIOUS
<1>1. \A i \in Items : Of(rows, i) = 0 /\ count[i] = 0
  BY OfNone DEF Init
<1>2. count \in [Items -> Nat] /\ RowsExist /\ exists = Items
      /\ \A s \in Servers : flush[s].new = {} /\ flush[s].gone = {}
  BY DEF Init, RowsExist, IdleTick
<1>3. Shape
  BY InitShape
<1>4. CountsRows
  BY <1>1, <1>2, <1>3, NothingAdded DEF Shape
<1> QED BY <1>1, <1>2, <1>3, <1>4 DEF CountInv, TriggerCounts

(* What was done and what was read agree about the items that are not excused. *)
LEMMA SameItems ==
  ASSUME NEW done, NEW read, NEW i,
         \A p \in (done \ read) \union (read \ done) : ItemOf[p] # i
  PROVE  Of(done, i) = Of(read, i)
<1>1. {p \in done : ItemOf[p] = i} = {p \in read : ItemOf[p] = i}
  OBVIOUS
<1> QED BY <1>1 DEF Of

LEMMA StatementCounts ==
  ASSUME CountInv, NEW s \in Servers, NEW chunk, NEW in, NEW out, NEW seenIn, NEW seenOut,
         Statement(s, chunk, in, out, seenIn, seenOut)
  PROVE  count' \in [Items -> Nat] /\ RowsExist' /\ TriggerCounts' /\ CountsRows'
<1>0. /\ Inserting(s, chunk) \/ Deleting(s, chunk)
      /\ in \subseteq chunk \ rows /\ \A p \in in : ItemOf[p] \in exists
      /\ out \subseteq chunk \intersect rows
      /\ seenIn \subseteq chunk /\ seenOut \subseteq chunk
      /\ rows' = (rows \union in) \ out /\ UNCHANGED <<table, exists>>
  BY DEF Statement
<1>a. Inserting(s, chunk) => seenOut = {}
  BY DEF Statement
<1>b. Deleting(s, chunk) => seenIn = {}
  BY DEF Statement
<1>1. /\ Table' /\ TickShape'
      /\ in \in SUBSET Pairs /\ out \in SUBSET Pairs
      /\ seenIn \in SUBSET Pairs /\ seenOut \in SUBSET Pairs
      /\ flush'[s].new = flush[s].new \union seenIn
      /\ flush'[s].gone = flush[s].gone \union seenOut
      /\ \A r \in Servers \ {s} : flush'[r] = flush[r]
  BY StatementShape DEF CountInv
<1>2. rows \in SUBSET Pairs /\ exists \subseteq Items /\ count \in [Items -> Nat] /\ RowsExist
  BY DEF CountInv, Shape, Table
<1>3. \A i \in Items : /\ Of(rows', i) = Of(rows, i) + Of(in, i) - Of(out, i)
                       /\ Of(rows', i) \in Nat /\ Of(rows, i) \in Nat
                       /\ Of(in, i) \in Nat /\ Of(out, i) \in Nat
  <2>1. in \intersect rows = {} /\ out \subseteq rows
    BY <1>0
  <2>2. ASSUME NEW i \in Items
        PROVE  /\ Of(rows', i) = Of(rows, i) + Of(in, i) - Of(out, i)
               /\ Of(rows', i) \in Nat
    <3>1. /\ Of((rows \union in) \ out, i) = Of(rows, i) + Of(in, i) - Of(out, i)
          /\ Of((rows \union in) \ out, i) \in Nat
      BY <1>1, <1>2, <2>1, RowsCounted
    <3> QED BY <1>0, <3>1
  <2>3. ASSUME NEW i \in Items PROVE Of(rows, i) \in Nat /\ Of(in, i) \in Nat /\ Of(out, i) \in Nat
    BY <1>1, <1>2, OfType
  <2> QED BY <2>2, <2>3
<1>4. RowsExist'
  BY <1>0, <1>2 DEF RowsExist
<1>5. CASE table = "comment_likes"
  <2>1. /\ seenIn = {} /\ seenOut = {}
        /\ count' = [i \in Items |-> count[i] + Of(in, i) - Of(out, i)]
    BY <1>5 DEF Statement
  <2>2. \A r \in Servers : flush'[r].new = {} /\ flush'[r].gone = {}
    BY <1>1, <1>5, <2>1 DEF CountInv, TriggerCounts
  <2>3. \A i \in exists : count[i] = Of(rows, i)
    BY <1>5 DEF CountInv, TriggerCounts
  <2>4. \A i \in exists : count'[i] = Of(rows', i)
    BY <1>2, <1>3, <2>1, <2>3
  <2>5. \A i \in Items \ exists : Of(in, i) = 0 /\ Of(out, i) = 0
    BY <1>0, <1>2, OfNone DEF RowsExist
  <2>6. count' \in [Items -> Nat]
    BY <1>2, <1>3, <2>1, <2>4, <2>5
  <2>7. TriggerCounts'
    BY <1>0, <2>2, <2>4 DEF TriggerCounts
  <2>8. ASSUME NEW i PROVE Uncounted(New', i) = 0 /\ Uncounted(Gone', i) = 0
    BY <2>2, UncountedNone DEF New, Gone
  <2>9. ASSUME NEW i \in exists'
        PROVE  count'[i] + Uncounted(New', i) - Uncounted(Gone', i) = Of(rows', i)
    <3>1. i \in Items /\ count'[i] = Of(rows', i)
      BY <1>0, <1>2, <2>4
    <3>2. Of(rows', i) \in Nat
      BY <1>3, <3>1
    <3> QED BY <2>8, <3>1, <3>2
  <2>10. CountsRows'
    BY <2>9 DEF CountsRows
  <2> QED BY <1>4, <2>6, <2>7, <2>10
<1>6. CASE table # "comment_likes"
  <2>1. /\ UNCHANGED count
        /\ miscounted' = miscounted
             \union {ItemOf[p] : p \in (in \ seenIn) \union (seenIn \ in)
                                         \union (out \ seenOut) \union (seenOut \ out)}
    BY <1>6 DEF Statement
  <2>2. /\ flush[s].new \intersect seenIn = {} /\ flush[s].gone \intersect seenOut = {}
    BY <1>0, <1>a, <1>b, ChunkSets DEF CountInv, Tidy
  <2>3. ASSUME NEW i \in exists \ miscounted'
        PROVE  count'[i] + Uncounted(New', i) - Uncounted(Gone', i) = Of(rows', i)
    <3>1. i \in Items /\ i \in exists \ miscounted
      BY <1>2, <2>1
    <3>2. /\ Of(in, i) = Of(seenIn, i) /\ Of(out, i) = Of(seenOut, i)
      BY <2>1, SameItems
    <3>3. Uncounted(New', i) = Uncounted(New, i) + Of(seenIn, i)
      <4>1. Grows(New, New', s, seenIn)
        BY <1>1, <2>2 DEF New, Grows
      <4> QED BY <1>1, <4>1, UncountedGrows
    <3>4. Uncounted(Gone', i) = Uncounted(Gone, i) + Of(seenOut, i)
      <4>1. Grows(Gone, Gone', s, seenOut)
        BY <1>1, <2>2 DEF Gone, Grows
      <4> QED BY <1>1, <4>1, UncountedGrows
    <3>5. count[i] + Uncounted(New, i) - Uncounted(Gone, i) = Of(rows, i)
      BY <3>1 DEF CountInv, CountsRows
    <3>6. Uncounted(New, i) \in Nat /\ Uncounted(Gone, i) \in Nat /\ count[i] \in Nat
      BY <1>2, <3>1, UncountedType
    <3> QED BY <1>3, <2>1, <3>1, <3>2, <3>3, <3>4, <3>5, <3>6
  <2>4. CountsRows'
    BY <1>0, <2>3 DEF CountsRows
  <2> QED BY <1>0, <1>2, <1>4, <1>6, <2>1, <2>4 DEF TriggerCounts
<1> QED BY <1>5, <1>6

(* The end of a tick takes its rows out of those to be counted. *)
LEMMA EndUncounted ==
  ASSUME Shape, NEW s \in Servers, EndOfTick(s), NEW i
  PROVE  /\ Uncounted(New, i) = Uncounted(New', i) + Of(flush[s].new, i)
         /\ Uncounted(Gone, i) = Uncounted(Gone', i) + Of(flush[s].gone, i)
         /\ Uncounted(New', i) \in Nat /\ Uncounted(Gone', i) \in Nat
         /\ Of(flush[s].new, i) \in Nat /\ Of(flush[s].gone, i) \in Nat
<1>1. flush'[s] = IdleTick /\ \A r \in Servers \ {s} : flush'[r] = flush[r]
  BY EndShape
<1>2. flush[s].new \in SUBSET Pairs /\ flush[s].gone \in SUBSET Pairs
  BY DEF Shape, TickShape, Ticks
<1>3. Uncounted(New, i) = Uncounted(New', i) + Of(flush[s].new, i)
  <2>1. Grows(New', New, s, flush[s].new)
    BY <1>1 DEF New, Grows, IdleTick
  <2> QED BY <1>2, <2>1, UncountedGrows
<1>4. Uncounted(Gone, i) = Uncounted(Gone', i) + Of(flush[s].gone, i)
  <2>1. Grows(Gone', Gone, s, flush[s].gone)
    BY <1>1 DEF Gone, Grows, IdleTick
  <2> QED BY <1>2, <2>1, UncountedGrows
<1> QED BY <1>2, <1>3, <1>4, UncountedType, OfType

LEMMA EndCounts ==
  ASSUME CountInv, NEW s \in Servers, EndOfTick(s)
  PROVE  count' \in [Items -> Nat] /\ RowsExist' /\ TriggerCounts' /\ CountsRows'
<1>0. /\ Shape /\ exists \subseteq Items /\ count \in [Items -> Nat] /\ rows \in SUBSET Pairs
      /\ flush'[s] = IdleTick /\ \A r \in Servers \ {s} : flush'[r] = flush[r]
      /\ UNCHANGED <<table, rows, exists>>
  BY EndShape DEF CountInv, Shape, Table
<1>1. \A i \in Items : /\ ByTick(s, i) = Of(flush[s].new, i) - Of(flush[s].gone, i)
                       /\ ByTick(s, i) \in Int /\ Of(rows, i) \in Nat
  <2>1. ASSUME NEW i \in Items
        PROVE  Of(flush[s].new, i) \in Nat /\ Of(flush[s].gone, i) \in Nat
    BY <1>0, EndUncounted
  <2>2. ASSUME NEW i \in Items PROVE Of(rows, i) \in Nat
    BY <1>0, OfType
  <2> QED BY <2>1, <2>2 DEF ByTick
<1>2. \/ /\ UpdateCounts(s)
         /\ count' = [i \in Items |-> IF i \in exists THEN Larger(count[i] + ByTick(s, i), 0)
                                                     ELSE count[i]]
         /\ miscounted' = miscounted \union StoppedAtZero(s)
      \/ /\ UNCHANGED count
         /\ miscounted' = miscounted \union {i \in Items : ByTick(s, i) # 0}
  BY DEF EndOfTick, UpdateCounts, UpdateCountsFails, Crash
<1>3. count' \in [Items -> Nat]
  BY <1>0, <1>1, <1>2 DEF Larger
<1>4. ASSUME NEW i \in exists \ miscounted'
      PROVE  count'[i] + Uncounted(New', i) - Uncounted(Gone', i) = Of(rows', i)
  <2>1. i \in Items /\ i \in exists \ miscounted
    BY <1>0, <1>2
  <2>2. count[i] + Uncounted(New, i) - Uncounted(Gone, i) = Of(rows, i)
    BY <2>1 DEF CountInv, CountsRows
  <2> DEFINE N == Uncounted(New', i)
             G == Uncounted(Gone', i)
  <2>3. count[i] + ByTick(s, i) + N - G = Of(rows, i) /\ N \in Nat /\ G \in Nat
    BY <1>0, <1>1, <2>1, <2>2, EndUncounted
  <2>4. CASE /\ count' = [j \in Items |-> IF j \in exists THEN Larger(count[j] + ByTick(s, j), 0)
                                                         ELSE count[j]]
             /\ miscounted' = miscounted \union StoppedAtZero(s)
    <3>1. CASE count[i] + ByTick(s, i) >= 0
      <4>1. count'[i] = count[i] + ByTick(s, i)
        BY <2>1, <2>4, <3>1 DEF Larger
      <4> QED BY <1>0, <1>1, <2>1, <2>3, <4>1
    <3>2. CASE count[i] + ByTick(s, i) < 0
      <4>1. \A t \in Servers \ {s} : \A p \in flush[t].new : ItemOf[p] # i
        BY <2>1, <2>4, <3>2 DEF StoppedAtZero
      <4>2. \A t \in Servers, p \in Pairs : p \in New'[t] => ItemOf[p] # i
        BY <1>0, <4>1 DEF New, IdleTick
      <4>3. N = 0
        <5> HIDE DEF New
        <5> QED BY <4>2, UncountedNone
      <4> HIDE DEF N, G
      <4> QED BY <1>0, <1>1, <2>1, <2>3, <3>2, <4>3
    <3>3. count[i] \in Nat /\ ByTick(s, i) \in Int
      BY <1>0, <1>1, <2>1
    <3> QED BY <3>1, <3>2, <3>3
  <2>5. CASE UNCHANGED count /\ miscounted' = miscounted \union {j \in Items : ByTick(s, j) # 0}
    <3>1. ByTick(s, i) = 0
      BY <2>1, <2>5
    <3> HIDE DEF N, G
    <3>2. count[i] + N - G = Of(rows, i)
      BY <1>0, <2>1, <2>3, <3>1
    <3> QED BY <1>0, <2>5, <3>2 DEF N, G
  <2> QED BY <1>2, <2>4, <2>5
<1>5. CountsRows'
  BY <1>0, <1>4 DEF CountsRows
<1>6. TriggerCounts'
  <2> SUFFICES ASSUME table = "comment_likes" PROVE TriggerCounts'
    BY <1>0 DEF TriggerCounts
  <2>1. /\ \A r \in Servers : flush[r].new = {} /\ flush[r].gone = {}
        /\ \A i \in exists : count[i] = Of(rows, i)
    BY DEF CountInv, TriggerCounts
  <2>2. \A i \in Items : ByTick(s, i) = 0
    BY <1>1, <2>1, OfNone
  <2>3. \A i \in exists : count'[i] = count[i]
    BY <1>0, <1>2, <2>2 DEF Larger
  <2> QED BY <1>0, <2>1, <2>3 DEF TriggerCounts, IdleTick
<1> QED BY <1>0, <1>3, <1>5, <1>6 DEF CountInv, RowsExist

LEMMA DeleteItemCounts ==
  ASSUME CountInv, NEW i \in Items, DeleteItem(i)
  PROVE  count' \in [Items -> Nat] /\ RowsExist' /\ TriggerCounts' /\ CountsRows'
<1>1. /\ exists' = exists \ {i} /\ rows' = {p \in rows : ItemOf[p] # i}
      /\ UNCHANGED <<table, count, flush, miscounted>>
  BY DEF DeleteItem, history
<1>2. ASSUME NEW j \in exists' PROVE Of(rows', j) = Of(rows, j)
  <2>1. j # i
    BY <1>1
  <2>2. {p \in rows' : ItemOf[p] = j} = {p \in rows : ItemOf[p] = j}
    BY <1>1, <2>1
  <2> QED BY <2>2 DEF Of
<1>3. New' = New /\ Gone' = Gone
  BY <1>1 DEF New, Gone
<1> QED BY <1>1, <1>2, <1>3 DEF CountInv, RowsExist, TriggerCounts, CountsRows

(* The other steps leave the rows, the counters and what is to be counted alone. *)
LEMMA OtherCounts ==
  ASSUME CountInv, UNCHANGED <<table, rows, count, exists, miscounted>>,
         \A s \in Servers : flush'[s].new = flush[s].new /\ flush'[s].gone = flush[s].gone
  PROVE  count' \in [Items -> Nat] /\ RowsExist' /\ TriggerCounts' /\ CountsRows'
<1>1. New' = New /\ Gone' = Gone
  BY DEF New, Gone
<1> QED BY <1>1 DEF CountInv, RowsExist, TriggerCounts, CountsRows

LEMMA NextCountInv == CountInv /\ [Next]_vars => CountInv'
<1> SUFFICES ASSUME CountInv, [Next]_vars PROVE CountInv'
  OBVIOUS
<1>0. Shape /\ Shape'
  BY NextShape DEF CountInv
<1> SUFFICES count' \in [Items -> Nat] /\ RowsExist' /\ TriggerCounts' /\ CountsRows'
  BY <1>0 DEF CountInv
<1>1. CASE UNCHANGED vars
  BY <1>1, OtherCounts DEF vars, history
<1>2. ASSUME NEW p \in Pairs, HandlerStep(p)
      PROVE  count' \in [Items -> Nat] /\ RowsExist' /\ TriggerCounts' /\ CountsRows'
  <2>1. UNCHANGED <<table, rows, count, exists, flush, miscounted>>
    BY <1>0, <1>2, HandlerShape
  <2> QED BY <2>1, OtherCounts
<1>3. ASSUME NEW s \in Servers,
             DrainLikes(s) \/ DrainLikesFails(s) \/ DrainUnlikes(s) \/ DrainUnlikesFails(s)
      PROVE  count' \in [Items -> Nat] /\ RowsExist' /\ TriggerCounts' /\ CountsRows'
  <2>1. \E t \in Ticks : /\ Becomes(s, t) /\ Tidy(t) /\ UNCHANGED table
                         /\ t.new = flush[s].new /\ t.gone = flush[s].gone
    BY <1>0, <1>3, DrainLikesTick, DrainUnlikesTick
  <2>2. \A r \in Servers : flush'[r].new = flush[r].new /\ flush'[r].gone = flush[r].gone
    BY <1>0, <2>1, BecomesShape DEF Shape
  <2>3. UNCHANGED <<table, rows, count, exists, miscounted>>
    BY <1>3 DEF DrainLikes, DrainLikesFails, DrainUnlikes, DrainUnlikesFails
  <2> QED BY <2>2, <2>3, OtherCounts
<1>4. ASSUME NEW s \in Servers, ChunkStep(s)
      PROVE  count' \in [Items -> Nat] /\ RowsExist' /\ TriggerCounts' /\ CountsRows'
  BY <1>0, <1>4, ChunkStepStatement, StatementCounts
<1>5. ASSUME NEW s \in Servers, NEW chunk, InsertChunkRefused(s, chunk)
      PROVE  count' \in [Items -> Nat] /\ RowsExist' /\ TriggerCounts' /\ CountsRows'
  <2>1. \A r \in Servers : flush'[r].new = flush[r].new /\ flush'[r].gone = flush[r].gone
    BY <1>0, <1>5, RefusedTick, BecomesShape DEF Shape
  <2>2. UNCHANGED <<table, rows, count, exists, miscounted>>
    BY <1>5 DEF InsertChunkRefused
  <2> QED BY <2>1, <2>2, OtherCounts
<1> QED BY <1>1, <1>2, <1>3, <1>4, <1>5, NextActions, EndCounts, DeleteItemCounts

LEMMA CountInvTypes == CountInv => TypeOK
BY DEF CountInv, Shape, Buffers, Table, TickShape, Ticks, TypeOK

(* Every variable keeps its type; in particular no counter falls below zero,
   neither that of the trigger nor that of the UPDATE, whatever fails. *)
THEOREM TypeCorrect == Spec => []TypeOK
BY InitCountInv, NextCountInv, CountInvTypes, PTL DEF Spec

(* The counter of an item that was not deleted is the number of its rows, up to
   what the ticks of all servers have still to add: what RETURNING lists, or the
   trigger sees, is what changed, however often a pair was toggled; items deleted
   under a tick's hands disturb no other item's counter, and a failed statement, a
   crash, or GREATEST on a row of another tick, spoils only the counters it was
   about, and those of comment likes never. *)
THEOREM CountersMatchRows == Spec => []CountsRows
<1>1. CountInv => CountsRows
  BY DEF CountInv
<1> QED BY <1>1, InitCountInv, NextCountInv, PTL DEF Spec


-----------------------------------------------------------------------------
(* The last toggle.  It is not inductive that what is buffered comes to the last
   toggle: a pair must also be in the other set only while a handler of the last
   toggle is about to take it out, and in a tick's hands for the other toggle only
   when the set of the last one will undo it. *)

LikeHeld(p)   == \E s \in Servers : p \in flush[s].likes
UnlikeHeld(p) == \E s \in Servers : p \in flush[s].unlikes
Waiting(p)    == \E s \in Servers : p \in flush[s].likes /\ flush[s].step = "drainUnlikes"

Alone(p) == \A what \in Kinds : UnderWay(p, what) => what = last[p]
KeptLike(p) ==
  last[p] = "like" =>
    /\ p \in likes \/ (~UnlikeHeld(p) /\ (LikeHeld(p) \/ p \in rows))
    /\ p \in unlikes => UnderWay(p, "like") /\ (p \in likes \/ Waiting(p))
KeptUnlike(p) ==
  last[p] = "unlike" =>
    /\ p \in unlikes \/ (~LikeHeld(p) /\ (UnlikeHeld(p) \/ p \notin rows))
    /\ p \in likes => UnderWay(p, "unlike")
Kept(p) == Alone(p) /\ KeptLike(p) /\ KeptUnlike(p)
AllKept == \A p \in Pairs \ excused : ItemOf[p] \in exists => Kept(p)

LEMMA InitKept == Init => AllKept
BY DEF Init, AllKept, Kept, Alone, KeptLike, KeptUnlike, UnderWay, Nobody

(* Handlers: those of another pair change nothing about p. *)
LEMMA OtherPairKept ==
  ASSUME NEW p \in Pairs, Kept(p), toggling'[p] = toggling[p], last'[p] = last[p],
         p \in likes' <=> p \in likes, p \in unlikes' <=> p \in unlikes,
         UNCHANGED <<rows, flush>>
  PROVE  Kept(p)'
<1>1. LikeHeld(p)' <=> LikeHeld(p)
  BY DEF LikeHeld
<1>2. UnlikeHeld(p)' <=> UnlikeHeld(p)
  BY DEF UnlikeHeld
<1>3. Waiting(p)' <=> Waiting(p)
  BY DEF Waiting
<1>4. \A what \in Kinds : UnderWay(p, what)' <=> UnderWay(p, what)
  BY DEF UnderWay
<1>5. UnderWay(p, "like")' <=> UnderWay(p, "like")
  BY DEF UnderWay
<1>6. UnderWay(p, "unlike")' <=> UnderWay(p, "unlike")
  BY DEF UnderWay
<1> QED BY <1>1, <1>2, <1>3, <1>4, <1>5, <1>6 DEF Kept, Alone, KeptLike, KeptUnlike

LEMMA ToggleKept ==
  ASSUME Shape, NEW p \in Pairs, NEW what \in Kinds, Toggle(p, what),
         ~UnderWay(p, Opposite(what)),
         what = "like" => p \in likes' /\ (p \in unlikes' => table # "post_views"),
         what = "unlike" => p \in unlikes' /\ table # "post_views"
  PROVE  Kept(p)'
<1>1. /\ toggling'[p][Opposite(what)] = toggling[p][Opposite(what)] /\ last'[p] = what
      /\ toggling' \in [Pairs -> [Kinds -> Nat]]
      /\ table # "post_views" => toggling'[p][what] = toggling[p][what] + 1
      /\ toggling \in [Pairs -> [Kinds -> Nat]]
  BY ToggleType DEF Shape, Buffers
<1>2. table # "post_views" => UnderWay(p, what)'
  BY <1>1 DEF UnderWay
<1>3. ~UnderWay(p, Opposite(what))'
  BY <1>1 DEF UnderWay
<1>4. \A w \in Kinds : w = what \/ w = Opposite(what)
  BY DEF Kinds, Opposite
<1>5. Alone(p)'
  BY <1>1, <1>3, <1>4 DEF Alone
<1>6. CASE what = "like"
  BY <1>1, <1>2, <1>5, <1>6 DEF Kept, KeptLike, KeptUnlike
<1>7. CASE what = "unlike"
  BY <1>1, <1>2, <1>5, <1>7 DEF Kept, KeptLike, KeptUnlike
<1> QED BY <1>6, <1>7 DEF Kinds

(* The end of a handler: it is one of the last toggle, and takes the pair out of the
   other set, or did not find it there. *)
LEMMA DoneKept ==
  ASSUME Shape, NEW p \in Pairs, Kept(p), NEW what \in Kinds, UnderWay(p, what),
         toggling' = [toggling EXCEPT ![p][what] = @ - 1],
         p \in likes' <=> (p \in likes /\ what # "unlike"),
         p \in unlikes' <=> (p \in unlikes /\ what # "like"),
         UNCHANGED <<rows, flush, last>>
  PROVE  Kept(p)'
<1>1. what = last[p] /\ last' = last
  BY DEF Kept, Alone
<1>2. /\ toggling' \in [Pairs -> [Kinds -> Nat]] /\ toggling \in [Pairs -> [Kinds -> Nat]]
      /\ \A w \in Kinds \ {what} : toggling'[p][w] = toggling[p][w]
  BY HandlerDone DEF Shape, Buffers
<1>3. \A w \in Kinds : UnderWay(p, w)' => w = what
  BY <1>1, <1>2 DEF UnderWay, Kept, Alone
<1>4. Alone(p)'
  BY <1>1, <1>3 DEF Alone
<1>5. LikeHeld(p)' <=> LikeHeld(p)
  BY DEF LikeHeld
<1>6. UnlikeHeld(p)' <=> UnlikeHeld(p)
  BY DEF UnlikeHeld
<1>7. KeptLike(p)'
  BY <1>1, <1>5, <1>6 DEF Kept, KeptLike
<1>8. KeptUnlike(p)'
  BY <1>1, <1>5, <1>6 DEF Kept, KeptUnlike
<1> QED BY <1>4, <1>7, <1>8 DEF Kept

LEMMA HandlerKept ==
  ASSUME Shape, AllKept, NEW q \in Pairs, HandlerStep(q)
  PROVE  AllKept'
<1> SUFFICES ASSUME NEW p \in Pairs, p \notin excused', ItemOf[p] \in exists' PROVE Kept(p)'
  BY DEF AllKept
<1>0. UNCHANGED <<table, rows, exists, flush>> /\ (table = "post_views" => unlikes = {})
  BY HandlerShape DEF Shape, Buffers
<1>1. p \notin excused /\ ItemOf[p] \in exists => Kept(p)
  BY DEF AllKept
<1>2. "like" \in Kinds /\ "unlike" \in Kinds
      /\ Opposite("like") = "unlike" /\ Opposite("unlike") = "like"
  BY DEF Kinds, Opposite
<1>3. CASE p # q
  <2>1. p \in likes' <=> p \in likes
    BY <1>3 DEF HandlerStep, BufferLike, BufferUnlike, BufferView, BufferFails, CancelOpposite,
                CancelFails
  <2>2. p \in unlikes' <=> p \in unlikes
    BY <1>3 DEF HandlerStep, BufferLike, BufferUnlike, BufferView, BufferFails, CancelOpposite,
                CancelFails
  <2>3. p \notin excused
    BY <1>3 DEF HandlerStep, BufferLike, BufferUnlike, BufferView, BufferFails, CancelOpposite,
                CancelFails, history
  <2>4. /\ toggling'[p] = toggling[p] /\ last'[p] = last[p]
    <3>1. ASSUME NEW what \in Kinds, Toggle(q, what)
          PROVE  toggling'[p] = toggling[p] /\ last'[p] = last[p]
      BY <1>3, <3>1, ToggleType
    <3>2. ASSUME NEW what \in Kinds, CancelOpposite(q, what) \/ CancelFails(q, what)
          PROVE  toggling'[p] = toggling[p] /\ last'[p] = last[p]
      <4>1. /\ UnderWay(q, what) /\ toggling' = [toggling EXCEPT ![q][what] = @ - 1]
            /\ last' = last
        BY <3>2 DEF CancelOpposite, CancelFails, history
      <4> QED BY <1>3, <4>1, HandlerDone
    <3> QED BY <1>2, <3>1, <3>2 DEF HandlerStep, BufferLike, BufferUnlike, BufferView, BufferFails
  <2> QED BY <1>0, <1>1, <2>1, <2>2, <2>3, <2>4, OtherPairKept
<1>4. CASE p = q
  <2>1. CASE BufferLike(p)
    <3>1. ~UnderWay(p, "unlike")
      BY <1>2, <2>1 DEF BufferLike, Crosses
    <3> QED BY <1>0, <1>2, <2>1, <3>1, ToggleKept DEF BufferLike
  <2>2. CASE BufferUnlike(p)
    <3>1. ~UnderWay(p, "like")
      BY <1>2, <2>2 DEF BufferUnlike, Crosses
    <3> QED BY <1>0, <1>2, <2>2, <3>1, ToggleKept DEF BufferUnlike
  <2>3. CASE BufferView(p)
    <3>1. ~UnderWay(p, "unlike")
      BY <1>2, <2>3 DEF BufferView, Crosses
    <3> QED BY <1>0, <1>2, <2>3, <3>1, ToggleKept DEF BufferView
  <2>4. ASSUME NEW what \in Kinds, BufferFails(p, what) PROVE FALSE
    BY <2>4 DEF BufferFails
  <2>5. ASSUME NEW what \in Kinds, CancelOpposite(p, what) PROVE Kept(p)'
    <3>1. /\ UnderWay(p, what) /\ toggling' = [toggling EXCEPT ![p][what] = @ - 1]
          /\ p \in likes' <=> (p \in likes /\ what # "unlike")
          /\ p \in unlikes' <=> (p \in unlikes /\ what # "like")
          /\ UNCHANGED <<rows, flush, last, excused>>
      BY <2>5 DEF CancelOpposite, history
    <3> QED BY <1>0, <1>1, <3>1, DoneKept
  <2>6. ASSUME NEW what \in Kinds, CancelFails(p, what) PROVE Kept(p)'
    <3>1. /\ UnderWay(p, what) /\ toggling' = [toggling EXCEPT ![p][what] = @ - 1]
          /\ UNCHANGED <<rows, flush, last, likes, unlikes>> /\ p \notin excused
          /\ p \notin (IF what = "like" THEN unlikes ELSE likes)
      BY <2>6 DEF CancelFails
    <3>2. /\ p \in likes' <=> (p \in likes /\ what # "unlike")
          /\ p \in unlikes' <=> (p \in unlikes /\ what # "like")
      BY <3>1 DEF Kinds
    <3> QED BY <1>0, <1>1, <3>1, <3>2, DoneKept
  <2> QED BY <1>4, <2>1, <2>2, <2>3, <2>4, <2>5, <2>6 DEF HandlerStep
<1> QED BY <1>3, <1>4

(* Steps of a tick leave the handlers and the last toggles alone. *)
LEMMA TickKept ==
  ASSUME NEW p \in Pairs, Alone(p), toggling'[p] = toggling[p], UNCHANGED last,
         /\ last[p] = "like" =>
              /\ p \in likes' \/ (~UnlikeHeld(p)' /\ (LikeHeld(p)' \/ p \in rows'))
              /\ p \in unlikes' => UnderWay(p, "like") /\ (p \in likes' \/ Waiting(p)'),
         /\ last[p] = "unlike" =>
              /\ p \in unlikes' \/ (~LikeHeld(p)' /\ (UnlikeHeld(p)' \/ p \notin rows'))
              /\ p \in likes' => UnderWay(p, "unlike")
  PROVE  Kept(p)'
<1>1. \A what \in Kinds : UnderWay(p, what)' <=> UnderWay(p, what)
  BY DEF UnderWay
<1>2. Alone(p)'
  BY <1>1 DEF Alone
<1>3. UnderWay(p, "like")' <=> UnderWay(p, "like")
  BY DEF UnderWay
<1>4. UnderWay(p, "unlike")' <=> UnderWay(p, "unlike")
  BY DEF UnderWay
<1> QED BY <1>2, <1>3, <1>4 DEF Kept, KeptLike, KeptUnlike

LEMMA DrainLikesKept ==
  ASSUME Shape, AllKept, NEW s \in Servers, DrainLikes(s) \/ DrainLikesFails(s)
  PROVE  AllKept'
<1> SUFFICES ASSUME NEW p \in Pairs, p \notin excused', ItemOf[p] \in exists' PROVE Kept(p)'
  BY DEF AllKept
<1>1. UNCHANGED <<table, unlikes, toggling, rows, exists, last>> /\ p \notin excused
      /\ flush[s].step = "idle"
  BY DEF DrainLikes, DrainLikesFails
<1>2. Kept(p)
  BY <1>1 DEF AllKept
<1>3. PICK t \in Ticks : /\ Becomes(s, t) /\ Tidy(t)
                         /\ t.unlikes = {} /\ flush[s].unlikes = {} /\ flush[s].likes = {}
                         /\ t.likes = IF DrainLikes(s) THEN likes ELSE {}
                         /\ table # "post_views" => t.step = "drainUnlikes"
  BY DrainLikesTick
<1>4. flush'[s] = t /\ \A r \in Servers \ {s} : flush'[r] = flush[r]
  BY <1>1, <1>3, BecomesShape DEF Shape
<1>5. UnlikeHeld(p)' <=> UnlikeHeld(p)
  BY <1>3, <1>4 DEF UnlikeHeld
<1>6. LikeHeld(p)' <=> (LikeHeld(p) \/ (DrainLikes(s) /\ p \in likes))
  BY <1>3, <1>4 DEF LikeHeld
<1>7. Waiting(p) => Waiting(p)'
  BY <1>1, <1>4 DEF Waiting
<1>8. table = "post_views" => unlikes = {}
  BY DEF Shape, Buffers
<1>9. CASE DrainLikes(s)
  <2>1. /\ likes' = {}
        /\ p \notin {q \in likes \ unlikes : UnderWay(q, "unlike") /\ last[q] = "unlike"}
        /\ p \notin likes \intersect UnlikesElsewhere(s)
    BY <1>9 DEF DrainLikes
  <2>2. p \in likes => ~UnlikeHeld(p)
    BY <1>3, <2>1 DEF UnlikeHeld, UnlikesElsewhere
  <2>3. p \in likes /\ p \in unlikes => Waiting(p)'
    BY <1>3, <1>4, <1>8, <1>9 DEF Waiting
  <2> QED BY <1>1, <1>2, <1>5, <1>6, <1>7, <1>9, <2>1, <2>2, <2>3, TickKept
       DEF Kept, KeptLike, KeptUnlike
<1>10. CASE DrainLikesFails(s) /\ ~DrainLikes(s)
  <2>1. \/ likes' = {} /\ p \notin {q \in likes : last[q] = "like"}
        \/ likes' = likes
    BY <1>10 DEF DrainLikesFails
  <2> QED BY <1>1, <1>2, <1>5, <1>6, <1>7, <1>10, <2>1, TickKept
       DEF Kept, KeptLike, KeptUnlike
<1> QED BY <1>9, <1>10

LEMMA DrainUnlikesKept ==
  ASSUME Shape, AllKept, NEW s \in Servers, DrainUnlikes(s) \/ DrainUnlikesFails(s)
  PROVE  AllKept'
<1> SUFFICES ASSUME NEW p \in Pairs, p \notin excused', ItemOf[p] \in exists' PROVE Kept(p)'
  BY DEF AllKept
<1>1. UNCHANGED <<table, likes, toggling, rows, exists, last>> /\ p \notin excused
      /\ flush[s].step = "drainUnlikes"
  BY DEF DrainUnlikes, DrainUnlikesFails
<1>2. Kept(p)
  BY <1>1 DEF AllKept
<1> DEFINE both == IF DrainUnlikes(s) THEN flush[s].likes \intersect unlikes ELSE {}
<1>3. PICK t \in Ticks : /\ Becomes(s, t) /\ Tidy(t)
                         /\ flush[s].unlikes = {} /\ t.likes = flush[s].likes \ both
                         /\ t.unlikes = IF DrainUnlikes(s) THEN unlikes \ both ELSE {}
  BY DrainUnlikesTick
<1>4. flush'[s] = t /\ \A r \in Servers \ {s} : flush'[r] = flush[r]
  BY <1>1, <1>3, BecomesShape DEF Shape
<1>5. UnlikeHeld(p)' <=> (UnlikeHeld(p) \/ (DrainUnlikes(s) /\ p \in unlikes \ both))
  BY <1>3, <1>4 DEF UnlikeHeld
<1> DEFINE Elsewhere == \E r \in Servers \ {s} : p \in flush[r].likes
<1>6. LikeHeld(p)' <=> (Elsewhere \/ p \in flush[s].likes \ both)
  BY <1>3, <1>4 DEF LikeHeld
<1>7. LikeHeld(p) <=> (Elsewhere \/ p \in flush[s].likes)
  BY DEF LikeHeld
<1>8. Waiting(p) => LikeHeld(p) /\ (Waiting(p)' \/ p \in flush[s].likes)
  BY <1>4 DEF Waiting, LikeHeld
<1>9. CASE DrainUnlikes(s)
  <2>1. /\ unlikes' = {}
        /\ p \notin {q \in flush[s].likes \intersect unlikes : (last[q] = "like") # (q \in rows)}
        /\ p \notin unlikes \intersect LikesElsewhere(s)
    BY <1>9 DEF DrainUnlikes
  <2>2. p \in unlikes => ~Elsewhere
    BY <2>1 DEF LikesElsewhere
  <2>3. p \in both <=> p \in flush[s].likes /\ p \in unlikes
    BY <1>9
  <2> HIDE DEF both, Elsewhere
  <2> QED BY <1>1, <1>2, <1>5, <1>6, <1>7, <1>8, <1>9, <2>1, <2>2, <2>3, TickKept
       DEF Kept, KeptLike, KeptUnlike
<1>10. CASE DrainUnlikesFails(s) /\ ~DrainUnlikes(s)
  <2>1. \/ unlikes' = {} /\ p \notin {q \in unlikes : last[q] = "unlike"}
        \/ /\ unlikes' = unlikes
           /\ p \notin {q \in flush[s].likes \intersect unlikes : UnderWay(q, "like")}
    BY <1>10 DEF DrainUnlikesFails
  <2>2. both = {}
    BY <1>10
  <2> HIDE DEF both, Elsewhere
  <2> QED BY <1>1, <1>2, <1>5, <1>6, <1>7, <1>8, <1>10, <2>1, <2>2, TickKept
       DEF Kept, KeptLike, KeptUnlike
<1> QED BY <1>9, <1>10

(* A statement takes its pairs out of the tick's hands. *)
LEMMA ChunkHeld ==
  ASSUME Shape, NEW s \in Servers, NEW chunk,
         flush'[s].likes = flush[s].likes \ chunk, flush'[s].unlikes = flush[s].unlikes \ chunk,
         \A r \in Servers \ {s} : flush'[r] = flush[r], flush[s].step = "apply", NEW p \in Pairs
  PROVE  /\ LikeHeld(p)' => LikeHeld(p)
         /\ LikeHeld(p) => LikeHeld(p)' \/ p \in chunk
         /\ UnlikeHeld(p)' => UnlikeHeld(p)
         /\ UnlikeHeld(p) => UnlikeHeld(p)' \/ p \in chunk
         /\ Waiting(p) => Waiting(p)'
<1>1. LikeHeld(p)' => LikeHeld(p)
  BY DEF LikeHeld
<1>2. LikeHeld(p) => LikeHeld(p)' \/ p \in chunk
  BY DEF LikeHeld
<1>3. UnlikeHeld(p)' => UnlikeHeld(p)
  BY DEF UnlikeHeld
<1>4. UnlikeHeld(p) => UnlikeHeld(p)' \/ p \in chunk
  BY DEF UnlikeHeld
<1>5. Waiting(p) => Waiting(p)'
  BY DEF Waiting
<1> QED BY <1>1, <1>2, <1>3, <1>4, <1>5

LEMMA ChunkKept ==
  ASSUME Shape, AllKept, NEW s \in Servers, ChunkStep(s)
  PROVE  AllKept'
<1> SUFFICES ASSUME NEW p \in Pairs, p \notin excused', ItemOf[p] \in exists' PROVE Kept(p)'
  BY DEF AllKept
<1>1. PICK chunk \in SUBSET Pairs : \/ InsertChunk(s, chunk) \/ DeleteChunk(s, chunk)
                                    \/ InsertFails(s, chunk) \/ DeleteFails(s, chunk)
  BY DEF ChunkStep
<1>2. \E in, out, seenIn, seenOut : Statement(s, chunk, in, out, seenIn, seenOut)
  BY <1>1, InsertStatement, DeleteStatement, FailedInsert, FailedDelete
<1>3. PICK in, out, seenIn, seenOut : Statement(s, chunk, in, out, seenIn, seenOut)
  BY <1>2
<1>4. /\ UNCHANGED <<toggling, exists, last>> /\ rows' = (rows \union in) \ out
      /\ in \subseteq chunk /\ out \subseteq chunk
      /\ Inserting(s, chunk) => out = {}
      /\ Inserting(s, chunk) \/ Deleting(s, chunk)
  BY <1>3 DEF Statement
<1>a. Deleting(s, chunk) => in = {}
  BY <1>3 DEF Statement
<1>5. /\ LikeHeld(p)' => LikeHeld(p)
      /\ LikeHeld(p) => LikeHeld(p)' \/ p \in chunk
      /\ UnlikeHeld(p)' => UnlikeHeld(p)
      /\ UnlikeHeld(p) => UnlikeHeld(p)' \/ p \in chunk
      /\ Waiting(p) => Waiting(p)'
  <2>1. /\ flush'[s].likes = flush[s].likes \ chunk /\ flush'[s].unlikes = flush[s].unlikes \ chunk
        /\ \A r \in Servers \ {s} : flush'[r] = flush[r]
    BY <1>3, StatementShape
  <2>2. flush[s].step = "apply"
    BY <1>4 DEF Inserting, Deleting
  <2> QED BY <2>1, <2>2, ChunkHeld
<1>6. p \notin chunk => (p \in rows' <=> p \in rows)
  BY <1>4
<1>7. Inserting(s, chunk) => /\ p \in chunk => LikeHeld(p)
                             /\ p \in rows => p \in rows'
  <2>1. Inserting(s, chunk) => chunk \subseteq flush[s].likes
    BY ChunkSets
  <2> QED BY <1>4, <2>1 DEF LikeHeld
<1>8. Deleting(s, chunk) => /\ p \in chunk => UnlikeHeld(p)
                            /\ p \in rows' => p \in rows
  <2>1. Deleting(s, chunk) => chunk \subseteq flush[s].unlikes
    BY ChunkSets
  <2> QED BY <1>4, <1>a, <2>1 DEF UnlikeHeld
<1>9. CASE InsertChunk(s, chunk)
  <2>1. Inserting(s, chunk) /\ UNCHANGED <<likes, unlikes, excused>>
    BY <1>9, InsertStatement
  <2>2. p \in chunk => p \in rows'
    BY <1>9 DEF InsertChunk, Applied
  <2>3. Kept(p)
    BY <1>4, <2>1 DEF AllKept
  <2> QED BY <1>4, <1>5, <1>6, <1>7, <2>1, <2>2, <2>3, TickKept DEF Kept, KeptLike, KeptUnlike
<1>10. CASE DeleteChunk(s, chunk)
  <2>1. Deleting(s, chunk) /\ UNCHANGED <<likes, unlikes, excused>>
    BY <1>10, DeleteStatement
  <2>2. p \in chunk => p \notin rows'
    BY <1>10 DEF DeleteChunk, Applied
  <2>3. Kept(p)
    BY <1>4, <2>1 DEF AllKept
  <2> QED BY <1>4, <1>5, <1>6, <1>8, <2>1, <2>2, <2>3, TickKept DEF Kept, KeptLike, KeptUnlike
<1>11. CASE InsertFails(s, chunk)
  <2>1. /\ Inserting(s, chunk) /\ UNCHANGED unlikes
        /\ \/ likes' = likes \union chunk
              /\ excused' = excused \union {q \in chunk : last[q] # "like"}
           \/ likes' = likes
              /\ excused' = excused \union {q \in chunk \ rows' : last[q] = "like"}
    BY <1>11, FailedInsert
  <2>2. Kept(p)
    BY <1>4, <2>1 DEF AllKept
  <2>3. CASE likes' = likes \union chunk /\ (p \in chunk => last[p] = "like")
    BY <1>4, <1>5, <1>6, <1>7, <2>1, <2>2, <2>3, TickKept DEF Kept, KeptLike, KeptUnlike
  <2>4. CASE likes' = likes /\ (p \in chunk /\ last[p] = "like" => p \in rows')
    BY <1>4, <1>5, <1>6, <1>7, <2>1, <2>2, <2>4, TickKept DEF Kept, KeptLike, KeptUnlike
  <2> QED BY <2>1, <2>3, <2>4
<1>12. CASE DeleteFails(s, chunk)
  <2>1. /\ Deleting(s, chunk) /\ UNCHANGED likes
        /\ \/ unlikes' = unlikes \union chunk
              /\ excused' = excused \union {q \in chunk : last[q] # "unlike"}
           \/ unlikes' = unlikes
              /\ excused' = excused \union {q \in chunk \intersect rows' : last[q] = "unlike"}
    BY <1>12, FailedDelete
  <2>2. Kept(p)
    BY <1>4, <2>1 DEF AllKept
  <2>3. CASE unlikes' = unlikes \union chunk /\ (p \in chunk => last[p] = "unlike")
    BY <1>4, <1>5, <1>6, <1>8, <2>1, <2>2, <2>3, TickKept DEF Kept, KeptLike, KeptUnlike
  <2>4. CASE unlikes' = unlikes /\ (p \in chunk /\ last[p] = "unlike" => p \notin rows')
    BY <1>4, <1>5, <1>6, <1>8, <2>1, <2>2, <2>4, TickKept DEF Kept, KeptLike, KeptUnlike
  <2> QED BY <2>1, <2>3, <2>4
<1> QED BY <1>1, <1>9, <1>10, <1>11, <1>12

LEMMA RefusedKept ==
  ASSUME Shape, AllKept, NEW s \in Servers, NEW chunk, InsertChunkRefused(s, chunk)
  PROVE  AllKept'
<1> SUFFICES ASSUME NEW p \in Pairs, p \notin excused', ItemOf[p] \in exists' PROVE Kept(p)'
  BY DEF AllKept
<1>1. /\ UNCHANGED <<likes, unlikes, toggling, rows, exists, last>>
      /\ p \notin excused /\ (p \in chunk /\ last[p] = "like" => p \in rows)
      /\ flush[s].step = "apply" /\ chunk \subseteq flush[s].likes
  BY DEF InsertChunkRefused, buffers, Inserting, Chunks
<1>2. Kept(p) /\ (p \in chunk => LikeHeld(p))
  BY <1>1 DEF AllKept, LikeHeld
<1>3. PICK t \in Ticks : /\ Becomes(s, t) /\ Tidy(t) /\ t.likes = flush[s].likes \ chunk
                         /\ t.unlikes = flush[s].unlikes /\ UNCHANGED table
  BY RefusedTick
<1>4. flush'[s] = t /\ \A r \in Servers \ {s} : flush'[r] = flush[r]
  BY <1>3, BecomesShape DEF Shape
<1>5. flush[s].unlikes = flush[s].unlikes \ chunk
  <2>1. Tidy(flush[s])
    BY DEF Shape, TickShape
  <2> QED BY <1>1, <2>1 DEF Tidy
<1>6. /\ LikeHeld(p)' => LikeHeld(p)
      /\ LikeHeld(p) => LikeHeld(p)' \/ p \in chunk
      /\ UnlikeHeld(p)' => UnlikeHeld(p)
      /\ UnlikeHeld(p) => UnlikeHeld(p)'
      /\ Waiting(p) => Waiting(p)'
  <2>1. /\ flush'[s].likes = flush[s].likes \ chunk /\ flush'[s].unlikes = flush[s].unlikes \ chunk
    BY <1>3, <1>4, <1>5
  <2>2. UnlikeHeld(p) => UnlikeHeld(p)'
    BY <1>3, <1>4 DEF UnlikeHeld
  <2> QED BY <1>1, <1>4, <2>1, <2>2, ChunkHeld
<1> QED BY <1>1, <1>2, <1>6, TickKept DEF Kept, KeptLike, KeptUnlike

LEMMA EndKept ==
  ASSUME Shape, AllKept, NEW s \in Servers, EndOfTick(s)
  PROVE  AllKept'
<1> SUFFICES ASSUME NEW p \in Pairs, p \notin excused', ItemOf[p] \in exists' PROVE Kept(p)'
  BY DEF AllKept
<1>1. /\ flush'[s] = IdleTick /\ \A r \in Servers \ {s} : flush'[r] = flush[r]
      /\ UNCHANGED <<table, likes, unlikes, rows, exists, last>>
  BY EndShape
<1>2. p \notin excused
  BY DEF EndOfTick, UpdateCounts, UpdateCountsFails, Crash
<1>3. Kept(p)
  BY <1>1, <1>2 DEF AllKept
<1>4. /\ IdleTick.likes = {} /\ IdleTick.unlikes = {}
  BY DEF IdleTick
<1>5. LikeHeld(p)' => LikeHeld(p)
  BY <1>1, <1>4 DEF LikeHeld
<1>6. UnlikeHeld(p)' => UnlikeHeld(p)
  BY <1>1, <1>4 DEF UnlikeHeld
<1>7. LikeHeld(p) => LikeHeld(p)' \/ p \in flush[s].likes
  BY <1>1 DEF LikeHeld
<1>8. UnlikeHeld(p) => UnlikeHeld(p)' \/ p \in flush[s].unlikes
  BY <1>1 DEF UnlikeHeld
<1>9. Waiting(p) => Waiting(p)' \/ p \in flush[s].likes
  BY <1>1 DEF Waiting
<1>10. CASE UpdateCounts(s) \/ UpdateCountsFails(s)
  <2>1. flush[s].likes = {} /\ flush[s].unlikes = {} /\ UNCHANGED toggling
    BY <1>10 DEF UpdateCounts, UpdateCountsFails, buffers
  <2> QED BY <1>1, <1>3, <1>5, <1>6, <1>7, <1>8, <1>9, <2>1, TickKept
       DEF Kept, KeptLike, KeptUnlike
<1>11. CASE Crash(s)
  <2>1. PICK dead \in SUBSET {h \in Pairs \X Kinds : UnderWay(h[1], h[2])} :
          /\ toggling' = [q \in Pairs |-> [what \in Kinds |->
               IF <<q, what>> \in dead THEN toggling[q][what] - 1 ELSE toggling[q][what]]]
          /\ excused' = excused \union {q \in flush[s].likes : /\ last[q] = "like"
                                                              /\ q \in rows => q \in unlikes}
                          \union {q \in flush[s].unlikes \intersect rows : last[q] = "unlike"}
                          \union {q \in Pairs : \E what \in Kinds : <<q, what>> \in dead}
    BY <1>11 DEF Crash
  <2>2. toggling'[p] = toggling[p]
    <3>1. \A what \in Kinds : <<p, what>> \notin dead
      BY <2>1
    <3>2. toggling'[p] = [what \in Kinds |-> toggling[p][what]]
      BY <2>1, <3>1
    <3>3. toggling[p] \in [Kinds -> Nat]
      BY DEF Shape, Buffers
    <3> QED BY <3>2, <3>3
  <2>3. /\ p \in flush[s].likes /\ last[p] = "like" => p \in rows /\ p \notin unlikes
        /\ p \in flush[s].unlikes /\ last[p] = "unlike" => p \notin rows
    BY <2>1
  <2> QED BY <1>1, <1>3, <1>5, <1>6, <1>7, <1>8, <1>9, <2>2, <2>3, TickKept
       DEF Kept, KeptLike, KeptUnlike
<1> QED BY <1>10, <1>11 DEF EndOfTick

LEMMA NextKept == Shape /\ AllKept /\ [Next]_vars => AllKept'
<1> SUFFICES ASSUME Shape, AllKept, [Next]_vars PROVE AllKept'
  OBVIOUS
<1>1. ASSUME UNCHANGED <<likes, unlikes, toggling, flush, last, excused>>,
             exists' \subseteq exists,
             \A p \in Pairs : ItemOf[p] \in exists' => (p \in rows' <=> p \in rows)
      PROVE  AllKept'
  <2> SUFFICES ASSUME NEW p \in Pairs, p \notin excused', ItemOf[p] \in exists' PROVE Kept(p)'
    BY DEF AllKept
  <2>1. Kept(p)
    BY <1>1 DEF AllKept
  <2>2. LikeHeld(p)' <=> LikeHeld(p)
    BY <1>1 DEF LikeHeld
  <2>3. UnlikeHeld(p)' <=> UnlikeHeld(p)
    BY <1>1 DEF UnlikeHeld
  <2>4. Waiting(p)' <=> Waiting(p)
    BY <1>1 DEF Waiting
  <2> QED BY <1>1, <2>1, <2>2, <2>3, <2>4, TickKept DEF Kept, KeptLike, KeptUnlike
<1>2. CASE UNCHANGED vars
  BY <1>1, <1>2 DEF vars, buffers, history
<1>3. ASSUME NEW i \in Items, DeleteItem(i) PROVE AllKept'
  BY <1>1, <1>3 DEF DeleteItem, buffers, history
<1> QED BY <1>2, <1>3, NextActions, HandlerKept, DrainLikesKept, DrainUnlikesKept,
           ChunkKept, RefusedKept, EndKept

LEMMA KeptWins == Shape /\ AllKept => LastToggleWins
<1> SUFFICES ASSUME Shape, AllKept, NEW p \in Pairs \ excused, ItemOf[p] \in exists,
                    last[p] # "none", toggling[p] = Nobody
             PROVE  Effective(p) = last[p]
  BY DEF LastToggleWins, AsAsked
<1>1. ~UnderWay(p, "like") /\ ~UnderWay(p, "unlike")
  BY DEF UnderWay, Nobody, Kinds
<1>2. Kept(p) /\ last[p] \in Kinds
  BY DEF AllKept, Shape, Buffers
<1>3. CASE last[p] = "like"
  <2>1. /\ p \notin unlikes
        /\ p \in likes \/ (~UnlikeHeld(p) /\ (LikeHeld(p) \/ p \in rows))
    BY <1>1, <1>2, <1>3 DEF Kept, KeptLike
  <2> QED BY <1>3, <2>1 DEF Effective, LikeHeld, UnlikeHeld
<1>4. CASE last[p] = "unlike"
  <2>1. /\ p \notin likes
        /\ p \in unlikes \/ (~LikeHeld(p) /\ (UnlikeHeld(p) \/ p \notin rows))
    BY <1>1, <1>2, <1>4 DEF Kept, KeptUnlike
  <2> QED BY <1>4, <2>1 DEF Effective, LikeHeld, UnlikeHeld
<1> QED BY <1>2, <1>3, <1>4 DEF Kinds

(* A user's last toggle of an item that is not deleted is what will be stored: for
   any number of servers whose ticks run at the same time, handlers between their
   two commands, failures and crashes before it.  Excused is only a pair that,
   since that toggle, was toggled the opposite way by an overlapping handler, was in
   the hands of two ticks the opposite ways, was misread by a tick, was in a chunk
   with a deleted item, or was struck by a failure or a crash. *)
THEOREM LastToggleAlwaysWins == Spec => []LastToggleWins
<1>1. Init => Shape /\ AllKept
  BY InitShape, InitKept
<1>2. Shape /\ AllKept /\ [Next]_vars => Shape' /\ AllKept'
  BY NextShape, NextKept
<1> QED BY <1>1, <1>2, KeptWins, PTL DEF Spec

-----------------------------------------------------------------------------
(* Receipts *)

LEMMA ReceiptTypeInit == ReceiptInit => ReceiptTypeOK
<1> USE ReceiptBounds
<1>1. 1 \in Times /\ Never \in Times
  BY DEF Times, Never
<1>2. Blank \in [Fields -> Times]
  BY <1>1 DEF Blank
<1> QED BY <1>1, <1>2 DEF ReceiptInit, ReceiptTypeOK, NoRecording, Never

LEMMA LaterType ==
  ASSUME NEW a \in Nat, NEW b \in Nat
  PROVE  /\ Later(a, b) \in {a, b}
         /\ Later(a, b) >= a /\ Later(a, b) >= b
BY DEF Later

(* What a chunk takes from the tick's share, and puts into the rows *)
LEMMA ChunkSent ==
  ASSUME ReceiptTypeOK, NEW p \in Processes, NEW chunk, Sent(p, chunk)
  PROVE  /\ entries' \in [Processes -> [Fields -> Times]]
         /\ \A q \in Processes, k \in Fields :
              entries'[q][k] = IF q = p /\ k \in chunk THEN Never ELSE entries[q][k]
<1> USE ReceiptBounds
<1>1. Never \in Times
  BY DEF Times, Never
<1>2. entries \in [Processes -> [Fields -> Times]]
  BY DEF ReceiptTypeOK
<1> DEFINE left == [k \in Fields |-> IF k \in chunk THEN Never ELSE entries[p][k]]
<1>3. entries' = [entries EXCEPT ![p] = left]
  BY <1>2 DEF Sent
<1>4. left \in [Fields -> Times] /\ \A k \in Fields : left[k] = IF k \in chunk THEN Never ELSE entries[p][k]
  BY <1>1, <1>2
<1> HIDE DEF left
<1> QED BY <1>2, <1>3, <1>4

LEMMA ChunkWritten ==
  ASSUME ReceiptTypeOK, NEW p \in Processes, NEW chunk, Greatest(chunk, entries[p])
  PROVE  /\ column' \in [Fields -> Times]
         /\ \A k \in Fields :
              /\ k \in chunk => column'[k] = Later(column[k], entries[p][k])
              /\ k \notin chunk => column'[k] = column[k]
<1>1. column \in [Fields -> Times] /\ entries[p] \in [Fields -> Times] /\ Times \subseteq Nat
  BY ReceiptBounds DEF ReceiptTypeOK, Times
<1>2. \A k \in Fields : Later(column[k], entries[p][k]) \in Times
  BY <1>1, LaterType
<1> QED BY <1>1, <1>2 DEF Greatest

(* The hash becomes the share of a tick that had none. *)
LEMMA HashDrained ==
  ASSUME ReceiptTypeOK, NEW p \in Processes, DrainHash(p)
  PROVE  /\ entries' \in [Processes -> [Fields -> Times]]
         /\ hash' \in [Fields -> Times]
         /\ \A k \in Fields : entries[p][k] = Never /\ entries'[p][k] = hash[k] /\ hash'[k] = Never
         /\ \A q \in Processes, k \in Fields : q # p => entries'[q][k] = entries[q][k]
<1>1. Never \in Times
  BY ReceiptBounds DEF Times, Never
<1>2. Blank \in [Fields -> Times] /\ \A k \in Fields : Blank[k] = Never
  BY <1>1 DEF Blank
<1>3. entries \in [Processes -> [Fields -> Times]] /\ hash \in [Fields -> Times]
  BY DEF ReceiptTypeOK
<1>4. entries[p] = Blank /\ entries' = [entries EXCEPT ![p] = hash] /\ hash' = Blank
  BY DEF DrainHash
<1> QED BY <1>2, <1>3, <1>4

(* One field written, one left out of what the recorder has to write *)
LEMMA FieldWritten ==
  ASSUME ReceiptTypeOK, NEW w \in Recorders, NEW k \in Fields, WriteField(w, k)
  PROVE  LET at == recording[w].at IN
         /\ at \in Times
         /\ hash' \in [Fields -> Times] /\ newest' \in [Fields -> Times]
         /\ hash'[k] = at
         /\ newest'[k] = IF at >= newest[k] THEN at ELSE newest[k]
         /\ \A l \in Fields : l # k => hash'[l] = hash[l] /\ newest'[l] = newest[l]
<1>1. recording[w].at \in Times
  BY DEF ReceiptTypeOK
<1>2. hash \in [Fields -> Times] /\ newest \in [Fields -> Times]
  BY DEF ReceiptTypeOK
<1> DEFINE at == recording[w].at
<1>3. /\ hash' = [hash EXCEPT ![k] = at]
      /\ newest' = [newest EXCEPT ![k] = IF at >= newest[k] THEN at ELSE newest[k]]
  BY <1>2 DEF WriteField
<1> HIDE DEF at
<1>4. at \in Times
  BY <1>1 DEF at
<1>5. (IF at >= newest[k] THEN at ELSE newest[k]) \in Times
  BY <1>2, <1>4
<1>6. /\ at \in Times
      /\ hash' \in [Fields -> Times] /\ newest' \in [Fields -> Times]
      /\ hash'[k] = at
      /\ newest'[k] = IF at >= newest[k] THEN at ELSE newest[k]
      /\ \A l \in Fields : l # k => hash'[l] = hash[l] /\ newest'[l] = newest[l]
  BY <1>2, <1>3, <1>4, <1>5
<1> QED BY <1>6 DEF at

LEMMA ReceiptTypeStep == ReceiptTypeOK /\ [ReceiptNext]_receiptVars => ReceiptTypeOK'
<1> SUFFICES ASSUME ReceiptTypeOK, [ReceiptNext]_receiptVars PROVE ReceiptTypeOK'
  OBVIOUS
<1> USE ReceiptBounds
<1>0. Never \in Times /\ Blank \in [Fields -> Times]
  BY DEF Times, Never, Blank
<1>1. CASE TimePasses
  BY <1>1 DEF ReceiptTypeOK, TimePasses, Times, Never
<1>2. ASSUME NEW w \in Recorders, RecorderStops(w) PROVE ReceiptTypeOK'
  BY <1>0, <1>2 DEF ReceiptTypeOK, RecorderStops, NoRecording
<1>3. ASSUME NEW w \in Recorders, NEW ks \in SUBSET Fields, TakeTime(w, ks) PROVE ReceiptTypeOK'
  <2>1. recording' \in [Recorders -> [fields : SUBSET Fields, at : Times]]
    BY <1>3 DEF ReceiptTypeOK, TakeTime
  <2>2. \A v \in Recorders : recording'[v].fields = {} => recording'[v] = NoRecording
    BY <1>3 DEF ReceiptTypeOK, TakeTime
  <2> QED BY <1>3, <2>1, <2>2 DEF ReceiptTypeOK, TakeTime
<1>4. ASSUME NEW w \in Recorders, NEW k \in Fields, WriteField(w, k) PROVE ReceiptTypeOK'
  <2>1. Written(w, k) \in [fields : SUBSET Fields, at : Times]
        /\ (Written(w, k).fields = {} => Written(w, k) = NoRecording)
    BY <1>0, <1>4 DEF Written, NoRecording, ReceiptTypeOK, WriteField
  <2>2. recording' = [recording EXCEPT ![w] = Written(w, k)]
    BY <1>4 DEF WriteField
  <2>3. /\ recording' \in [Recorders -> [fields : SUBSET Fields, at : Times]]
        /\ \A v \in Recorders : recording'[v].fields = {} => recording'[v] = NoRecording
    BY <2>1, <2>2 DEF ReceiptTypeOK
  <2>4. hash' \in [Fields -> Times] /\ newest' \in [Fields -> Times]
    BY <1>4, FieldWritten
  <2>5. overtaken' \subseteq Fields /\ dropped' \subseteq Fields
    BY <1>4 DEF WriteField, ReceiptTypeOK
  <2> QED BY <1>4, <2>3, <2>4, <2>5 DEF ReceiptTypeOK, WriteField
<1>5. ASSUME NEW p \in Processes, DrainHash(p) PROVE ReceiptTypeOK'
  <2>1. hash' \in [Fields -> Times] /\ entries' \in [Processes -> [Fields -> Times]]
    BY <1>5, HashDrained
  <2> QED BY <1>5, <2>1 DEF ReceiptTypeOK, DrainHash
<1>6. ASSUME NEW p \in Processes, NEW chunk \in SUBSET Fields, UpdateChunk(p, chunk) PROVE ReceiptTypeOK'
  <2>1. Sent(p, chunk) /\ Greatest(chunk, entries[p])
    BY <1>6 DEF UpdateChunk
  <2>2. column' \in [Fields -> Times] /\ entries' \in [Processes -> [Fields -> Times]]
    BY <2>1, ChunkSent, ChunkWritten
  <2> QED BY <1>6, <2>2 DEF ReceiptTypeOK, UpdateChunk
<1>7. ASSUME NEW p \in Processes, DrainAnswerLost(p) PROVE ReceiptTypeOK'
  BY <1>0, <1>7 DEF ReceiptTypeOK, DrainAnswerLost, ReceiptFault, In
<1>8. ASSUME NEW p \in Processes, TickDies(p) PROVE ReceiptTypeOK'
  BY <1>0, <1>8 DEF ReceiptTypeOK, TickDies, ReceiptFault, In
<1>9. ASSUME NEW p \in Processes, NEW chunk \in SUBSET Fields, UpdateFails(p, chunk) PROVE ReceiptTypeOK'
  <2>1. Sent(p, chunk) /\ (Greatest(chunk, entries[p]) \/ UNCHANGED column)
    BY <1>9 DEF UpdateFails
  <2>2. column' \in [Fields -> Times] /\ entries' \in [Processes -> [Fields -> Times]]
    BY <2>1, ChunkSent, ChunkWritten DEF ReceiptTypeOK
  <2> QED BY <1>9, <2>2 DEF ReceiptTypeOK, UpdateFails, ReceiptFault
<1>10. CASE UNCHANGED receiptVars
  BY <1>10 DEF ReceiptTypeOK, receiptVars
<1> QED
  BY <1>1, <1>2, <1>3, <1>4, <1>5, <1>6, <1>7, <1>8, <1>9, <1>10 DEF ReceiptNext, ReceiptTick

(* Receipts, the flusher's shares and the rows only ever hold times of the fields,
   and a recorder that has nothing left to write holds no time. *)
THEOREM ReceiptTypeCorrect == ReceiptSpec => []ReceiptTypeOK
<1>1. ReceiptInit => ReceiptTypeOK
  BY ReceiptTypeInit
<1>2. ReceiptTypeOK /\ [ReceiptNext]_receiptVars => ReceiptTypeOK'
  BY ReceiptTypeStep
<1> QED BY <1>1, <1>2, PTL DEF ReceiptSpec

-----------------------------------------------------------------------------
(* NewestIsKept, field by field *)

NewestHeld(k) ==
  /\ hash[k] <= newest[k] /\ column[k] <= newest[k]
  /\ \A p \in Processes : entries[p][k] <= newest[k]
  /\ k \notin overtaken \union dropped => Holds(k, newest[k])

LEMMA KeptAll == NewestIsKept <=> \A k \in Fields : NewestHeld(k)
BY DEF NewestIsKept, NewestHeld

(* Numbers of a field *)
LEMMA TimesOf ==
  ASSUME ReceiptTypeOK, NEW k \in Fields
  PROVE  /\ hash[k] \in Nat /\ column[k] \in Nat /\ newest[k] \in Nat
         /\ \A p \in Processes : entries[p][k] \in Nat
BY ReceiptBounds DEF ReceiptTypeOK, Times

LEMMA KeptWritten ==
  ASSUME ReceiptTypeOK, NEW w \in Recorders, NEW l \in Fields, WriteField(w, l),
         NEW k \in Fields, NewestHeld(k)
  PROVE  NewestHeld(k)'
<1> DEFINE at == recording[w].at
<1>1. UNCHANGED <<entries, column>>
  BY DEF WriteField
<1>2. /\ at \in Nat /\ hash[k] \in Nat /\ column[k] \in Nat /\ newest[k] \in Nat
      /\ \A p \in Processes : entries[p][k] \in Nat
  BY TimesOf, FieldWritten, ReceiptBounds DEF Times
<1>3. /\ hash'[l] = at
      /\ newest'[l] = IF at >= newest[l] THEN at ELSE newest[l]
      /\ k # l => hash'[k] = hash[k] /\ newest'[k] = newest[k]
  BY FieldWritten
<1>4. /\ overtaken' = IF at >= newest[l] THEN overtaken \ {l}
                      ELSE IF hash[l] = newest[l] THEN overtaken \union {l} ELSE overtaken
      /\ dropped' = IF at >= newest[l] THEN dropped \ {l} ELSE dropped
  BY DEF WriteField
<1> HIDE DEF at
<1>5. CASE k # l
  <2>1. k \in overtaken' \union dropped' <=> k \in overtaken \union dropped
    BY <1>4, <1>5
  <2> QED BY <1>1, <1>3, <1>5, <2>1 DEF NewestHeld, Holds
<1>6. CASE k = l /\ at >= newest[k]
  <2>1. hash'[k] = at /\ newest'[k] = at
    BY <1>3, <1>6
  <2>2. column[k] <= at /\ \A p \in Processes : entries[p][k] <= at
    BY <1>2, <1>6 DEF NewestHeld
  <2> QED BY <1>1, <1>2, <2>1, <2>2 DEF NewestHeld, Holds
<1>7. CASE k = l /\ ~(at >= newest[k])
  <2>1. hash'[k] = at /\ newest'[k] = newest[k] /\ at <= newest[k]
    BY <1>2, <1>3, <1>7
  <2>2. dropped' = dropped /\ overtaken \subseteq overtaken'
    BY <1>4, <1>7
  <2>3. k \notin overtaken' => hash[k] # newest[k]
    BY <1>4, <1>7
  <2> QED BY <1>1, <2>1, <2>2, <2>3 DEF NewestHeld, Holds
<1> QED BY <1>5, <1>6, <1>7

LEMMA KeptDrained ==
  ASSUME ReceiptTypeOK, NEW p \in Processes, DrainHash(p), NEW k \in Fields, NewestHeld(k)
  PROVE  NewestHeld(k)'
<1>1. UNCHANGED <<column, newest, overtaken, dropped>>
  BY DEF DrainHash
<1>2. /\ entries[p][k] = Never /\ entries'[p][k] = hash[k] /\ hash'[k] = Never
      /\ \A q \in Processes : q # p => entries'[q][k] = entries[q][k]
  BY HashDrained
<1>3. /\ hash[k] \in Nat /\ newest[k] \in Nat
  BY TimesOf
<1>4. Never <= newest[k]
  BY <1>3 DEF Never
<1>5. Holds(k, newest[k]) => Holds(k, newest[k])'
  <2>1. CASE hash[k] = newest[k]
    BY <1>1, <1>2, <2>1 DEF Holds
  <2>2. CASE column[k] = newest[k]
    BY <1>1, <2>2 DEF Holds
  <2>3. ASSUME NEW q \in Processes, entries[q][k] = newest[k] PROVE Holds(k, newest[k])'
    BY <1>1, <1>2, <2>3 DEF Holds
  <2> QED BY <2>1, <2>2, <2>3 DEF Holds
<1> QED BY <1>1, <1>2, <1>4, <1>5 DEF NewestHeld

(* A chunk sent, whether or not its statement was executed *)
LEMMA KeptSent ==
  ASSUME ReceiptTypeOK, NEW p \in Processes, NEW chunk \in SUBSET Fields, Sent(p, chunk),
         UNCHANGED <<hash, newest, overtaken>>, dropped \subseteq dropped',
         \/ Greatest(chunk, entries[p])
         \/ UNCHANGED column /\ dropped' = dropped \union chunk,
         NEW k \in Fields, NewestHeld(k)
  PROVE  NewestHeld(k)'
<1>1. /\ hash[k] \in Nat /\ column[k] \in Nat /\ newest[k] \in Nat
      /\ \A q \in Processes : entries[q][k] \in Nat
  BY TimesOf
<1>2. \A q \in Processes : entries'[q][k] = IF q = p /\ k \in chunk THEN Never ELSE entries[q][k]
  BY ChunkSent
<1>3. \A q \in Processes : entries'[q][k] <= newest[k]
  BY <1>1, <1>2 DEF NewestHeld, Never
<1>4. CASE Greatest(chunk, entries[p])
  <2>1. /\ k \in chunk => column'[k] = Later(column[k], entries[p][k])
        /\ k \notin chunk => column'[k] = column[k]
    BY <1>4, ChunkWritten
  <2>2. column'[k] <= newest[k]
    BY <1>1, <2>1 DEF NewestHeld, Later
  <2>3. Holds(k, newest[k]) => Holds(k, newest[k])'
    <3>1. CASE hash[k] = newest[k]
      BY <3>1 DEF Holds
    <3>2. CASE column[k] = newest[k]
      BY <1>1, <2>1, <3>2 DEF Holds, NewestHeld, Later
    <3>3. ASSUME NEW q \in Processes, entries[q][k] = newest[k] PROVE Holds(k, newest[k])'
      <4>1. CASE q = p /\ k \in chunk
        BY <1>1, <2>1, <3>3, <4>1 DEF Holds, NewestHeld, Later
      <4>2. CASE ~(q = p /\ k \in chunk)
        BY <1>2, <3>3, <4>2 DEF Holds
      <4> QED BY <4>1, <4>2
    <3> QED BY <3>1, <3>2, <3>3 DEF Holds
  <2> QED BY <1>3, <2>2, <2>3 DEF NewestHeld
<1>5. CASE UNCHANGED column /\ dropped' = dropped \union chunk
  <2>1. k \notin chunk => (Holds(k, newest[k]) => Holds(k, newest[k])')
    BY <1>2, <1>5 DEF Holds
  <2> QED BY <1>3, <1>5, <2>1 DEF NewestHeld
<1> QED BY <1>4, <1>5

LEMMA KeptStep ==
  ASSUME ReceiptTypeOK, [ReceiptNext]_receiptVars, NEW k \in Fields, NewestHeld(k)
  PROVE  NewestHeld(k)'
<1>1. CASE TimePasses
  BY <1>1 DEF TimePasses, NewestHeld, Holds
<1>2. ASSUME NEW w \in Recorders, RecorderStops(w) PROVE NewestHeld(k)'
  BY <1>2 DEF RecorderStops, NewestHeld, Holds
<1>3. ASSUME NEW w \in Recorders, NEW ks \in SUBSET Fields, TakeTime(w, ks) PROVE NewestHeld(k)'
  BY <1>3 DEF TakeTime, NewestHeld, Holds
<1>4. ASSUME NEW w \in Recorders, NEW l \in Fields, WriteField(w, l) PROVE NewestHeld(k)'
  BY <1>4, KeptWritten
<1>5. ASSUME NEW p \in Processes, DrainHash(p) PROVE NewestHeld(k)'
  BY <1>5, KeptDrained
<1>6. ASSUME NEW p \in Processes, NEW chunk \in SUBSET Fields, UpdateChunk(p, chunk) PROVE NewestHeld(k)'
  BY <1>6, KeptSent DEF UpdateChunk
<1>7. ASSUME NEW p \in Processes, DrainAnswerLost(p) PROVE NewestHeld(k)'
  <2>1. UNCHANGED <<entries, column, newest, overtaken>> /\ dropped' = dropped \union In(hash) /\ hash' = Blank
    BY <1>7 DEF DrainAnswerLost
  <2>2. hash'[k] = Never /\ newest[k] \in Nat
    BY <2>1, TimesOf DEF Blank
  <2>3. hash'[k] <= newest[k]
    BY <2>2 DEF Never
  <2>4. k \notin dropped' => hash'[k] = hash[k]
    BY <2>1, <2>2 DEF In
  <2> QED BY <2>1, <2>3, <2>4 DEF NewestHeld, Holds
<1>8. ASSUME NEW p \in Processes, TickDies(p) PROVE NewestHeld(k)'
  <2>1. /\ UNCHANGED <<hash, column, newest, overtaken>> /\ dropped' = dropped \union In(entries[p])
        /\ entries' = [entries EXCEPT ![p] = Blank]
    BY <1>8 DEF TickDies
  <2>2. /\ newest[k] \in Nat
        /\ \A q \in Processes : entries'[q][k] = IF q = p THEN Never ELSE entries[q][k]
    BY <2>1, TimesOf DEF Blank, ReceiptTypeOK
  <2>3. \A q \in Processes : entries'[q][k] <= newest[k]
    BY <2>2 DEF NewestHeld, Never
  <2>4. k \notin dropped' => \A q \in Processes : entries'[q][k] = entries[q][k]
    BY <2>1, <2>2 DEF In
  <2> QED BY <2>1, <2>3, <2>4 DEF NewestHeld, Holds
<1>9. ASSUME NEW p \in Processes, NEW chunk \in SUBSET Fields, UpdateFails(p, chunk) PROVE NewestHeld(k)'
  <2>1. /\ Sent(p, chunk) /\ UNCHANGED <<hash, newest, overtaken>> /\ dropped' = dropped \union chunk
        /\ Greatest(chunk, entries[p]) \/ UNCHANGED column
    BY <1>9 DEF UpdateFails
  <2> QED BY <2>1, KeptSent
<1>10. CASE UNCHANGED receiptVars
  BY <1>10 DEF receiptVars, NewestHeld, Holds
<1> QED
  BY <1>1, <1>2, <1>3, <1>4, <1>5, <1>6, <1>7, <1>8, <1>9, <1>10 DEF ReceiptNext, ReceiptTick

(* For any recorders, processes, batch size and failures: the newest receipt of a
   field is somewhere on its way or in the row, unless it was overtaken or dropped,
   and nothing anywhere is newer. *)
THEOREM NewestStaysKept == ReceiptSpec => []NewestIsKept
<1>1. ReceiptInit => NewestIsKept
  BY DEF ReceiptInit, NewestIsKept, Blank, Holds, Never
<1>2. ReceiptTypeOK /\ NewestIsKept /\ [ReceiptNext]_receiptVars => NewestIsKept'
  <2> SUFFICES ASSUME ReceiptTypeOK, NewestIsKept, [ReceiptNext]_receiptVars PROVE NewestIsKept'
    OBVIOUS
  <2>1. ASSUME NEW k \in Fields PROVE NewestHeld(k)'
    BY KeptAll, KeptStep
  <2> QED BY <2>1 DEF NewestIsKept, NewestHeld
<1>3. ReceiptTypeOK /\ [ReceiptNext]_receiptVars => ReceiptTypeOK'
  BY ReceiptTypeStep
<1>4. ReceiptInit => ReceiptTypeOK
  BY ReceiptTypeInit
<1> QED BY <1>1, <1>2, <1>3, <1>4, PTL DEF ReceiptSpec

-----------------------------------------------------------------------------
(* The rows never go back. *)

LEMMA RowForward ==
  ReceiptTypeOK /\ [ReceiptNext]_receiptVars => \A k \in Fields : column[k] <= column'[k]
<1> SUFFICES ASSUME ReceiptTypeOK, [ReceiptNext]_receiptVars, NEW k \in Fields
             PROVE  column[k] <= column'[k]
  OBVIOUS
<1>1. column[k] \in Nat /\ \A p \in Processes : entries[p][k] \in Nat
  BY TimesOf
<1>2. CASE UNCHANGED column
  BY <1>1, <1>2
<1>3. ASSUME NEW p \in Processes, NEW chunk \in SUBSET Fields, Greatest(chunk, entries[p])
      PROVE  column[k] <= column'[k]
  <2>1. /\ k \in chunk => column'[k] = Later(column[k], entries[p][k])
        /\ k \notin chunk => column'[k] = column[k]
    BY <1>3, ChunkWritten
  <2> QED BY <1>1, <2>1 DEF Later
<1>4. \/ UNCHANGED column
      \/ \E p \in Processes : \E chunk \in SUBSET Fields : Greatest(chunk, entries[p])
  BY DEF ReceiptNext, ReceiptTick, TimePasses, RecorderStops, TakeTime, WriteField, DrainHash,
         UpdateChunk, DrainAnswerLost, TickDies, UpdateFails, receiptVars
<1> QED BY <1>2, <1>3, <1>4

(* GREATEST keeps the rows from going back, whatever order ticks come in. *)
THEOREM RowsNeverGoBack == ReceiptSpec => NeverBackwards
<1>1. ReceiptTypeOK /\ [ReceiptNext]_receiptVars => [\A k \in Fields : column[k] <= column'[k]]_receiptVars
  BY RowForward
<1> QED BY <1>1, ReceiptTypeCorrect, PTL DEF NeverBackwards, ReceiptSpec
=============================================================================
