------------------------------ MODULE BlockCaches ------------------------------
(***************************************************************************)
(* Blocks as the router and the matchmaker see them: not the rows of       *)
(* blocked_users but two caches in Redis.  The router asks blockpair:a:b   *)
(* (chat/engine.go) before it delivers a message or a call; the            *)
(* matchmaker and the lists of rooms ask blockedset:user                   *)
(* (handlers/rooms.go).  Both live for 30 s.  A block is written as a row  *)
(* first, then the caches are deleted, one command after the other; the    *)
(* block action of a chat with a stranger (handlers/match.go) deletes      *)
(* none.                                                                   *)
(*                                                                         *)
(* The module follows one user, Self, and the others.  A reader that       *)
(* misses queries the rows and fills the cache later.  A hit changes       *)
(* nothing and has no action.                                              *)
(***************************************************************************)
EXTENDS Integers

CONSTANTS Self, Others,
          Routers, Fillers, Blockers,   \* look-ups and requests that can be under way
          MaxChanges      \* bound on blocks, unblocks and broken queries

ASSUME OthersType == Self \notin Others
ASSUME ChangesType == MaxChanges \in Nat

VARIABLES
  blockRows,   \* blocked_users: <<blocker, blocked>>
  pairCache,   \* blockpair: by other user
  setCache,    \* blockedset: of Self; no key and an empty set are the same in Redis
  hasTTL,      \* the key of the set has a time to live
  router,      \* the look-up of a router
  filler,      \* the look-up of a request that needs the set
  blocker,     \* a block or unblock request
  stalePairs,  \* history: others whose cached pair may be older than the rows,
               \* because no deletion came, or an older answer after it
  staleSet,    \* history: so may the cached set
  changes

requestVars == <<router, filler, blocker>>
stale       == <<stalePairs, staleSet>>
cacheVars == <<blockRows, pairCache, setCache, hasTTL, requestVars, stale, changes>>

Rows    == ({Self} \X Others) \union (Others \X {Self})
BlockedOthers == {o \in Others : <<Self, o>> \in blockRows \/ <<o, Self>> \in blockRows}

NoLookUp == [step |-> "idle", other |-> Self, answer |-> "none"]
NoFill   == [step |-> "idle", members |-> {}]
NoBlock  == [step |-> "idle", other |-> Self]

CacheTypeOK ==
  /\ blockRows \subseteq Rows
  /\ pairCache \in [Others -> {"none", "yes", "no"}]
  /\ setCache \subseteq Others /\ hasTTL \in BOOLEAN
  /\ hasTTL => setCache # {}
  /\ router \in [Routers -> [step : {"query", "set"}, other : Others,
                             answer : {"none", "yes", "no"}] \union {NoLookUp}]
  /\ filler \in [Fillers -> [step : {"query", "add", "expire"}, members : SUBSET Others]
                            \union {NoFill}]
  /\ blocker \in [Blockers -> [step : {"dropPair", "dropSets"}, other : Others] \union {NoBlock}]
  /\ stalePairs \subseteq Others /\ staleSet \in BOOLEAN
  /\ changes \in 0..MaxChanges

CacheInit ==
  /\ blockRows \in SUBSET Rows
  /\ pairCache = [o \in Others |-> "none"] /\ setCache = {} /\ hasTTL = FALSE
  /\ router = [r \in Routers |-> NoLookUp]
  /\ filler = [f \in Fillers |-> NoFill]
  /\ blocker = [b \in Blockers |-> NoBlock]
  /\ stalePairs = {} /\ staleSet = FALSE
  /\ changes = 0

-----------------------------------------------------------------------------
(* An answer, or members, read before the rows changed *)
LateAnswer(o) ==
  \E r \in Routers : /\ router[r].step = "set" /\ router[r].other = o
                     /\ ~(router[r].answer = "yes" <=> o \in BlockedOthers)
LateMembers == \E f \in Fillers : filler[f].step = "add" /\ filler[f].members # BlockedOthers

-----------------------------------------------------------------------------
(* isBlockedPairCached *)

GetPair(r, o) ==
  /\ router[r] = NoLookUp /\ pairCache[o] = "none"
  /\ router' = [router EXCEPT ![r] = [step |-> "query", other |-> o, answer |-> "none"]]
  /\ UNCHANGED <<blockRows, pairCache, setCache, hasTTL, filler, blocker, changes, stale>>

QueryPair(r) ==
  /\ router[r].step = "query"
  /\ router' = [router EXCEPT ![r].step = "set",
                              ![r].answer = IF router[r].other \in BlockedOthers
                                            THEN "yes" ELSE "no"]
  /\ UNCHANGED <<blockRows, pairCache, setCache, hasTTL, filler, blocker, changes, stale>>

SetPair(r) ==
  /\ router[r].step = "set"
  /\ pairCache' = [pairCache EXCEPT ![router[r].other] = router[r].answer]
  /\ router' = [router EXCEPT ![r] = NoLookUp]
  /\ UNCHANGED <<blockRows, setCache, hasTTL, filler, blocker, changes, stale>>

-----------------------------------------------------------------------------
(* getCachedBlockedSet *)

MissSet(f) ==
  /\ filler[f] = NoFill /\ setCache = {}
  /\ filler' = [filler EXCEPT ![f] = [step |-> "query", members |-> {}]]
  /\ UNCHANGED <<blockRows, pairCache, setCache, hasTTL, router, blocker, changes, stale>>

(* Mutant of QuerySet: those who blocked Self are left out. *)
QueryOneWay(f) ==
  LET mine == {o \in Others : <<Self, o>> \in blockRows} IN
  /\ filler[f].step = "query"
  /\ filler' = [filler EXCEPT ![f] = IF mine = {} THEN NoFill
                                     ELSE [step |-> "add", members |-> mine]]
  /\ UNCHANGED <<blockRows, pairCache, setCache, hasTTL, router, blocker, changes, stale>>

(* An empty set is not cached. *)
QuerySet(f) ==
  /\ filler[f].step = "query"
  /\ filler' = [filler EXCEPT ![f] = IF BlockedOthers = {} THEN NoFill
                                     ELSE [step |-> "add", members |-> BlockedOthers]]
  /\ UNCHANGED <<blockRows, pairCache, setCache, hasTTL, router, blocker, changes, stale>>

(* The connection breaks between the rows, and those read count as all: the error
   of the rows is not looked at. *)
QueryBreaks(f) ==
  /\ filler[f].step = "query"
  /\ changes < MaxChanges /\ changes' = changes + 1
  /\ \E got \in SUBSET BlockedOthers :
       /\ filler' = [filler EXCEPT ![f] = IF got = {} THEN NoFill
                                          ELSE [step |-> "add", members |-> got]]
       /\ staleSet' = (staleSet \/ got \notin {{}, BlockedOthers})
  /\ UNCHANGED <<blockRows, pairCache, setCache, hasTTL, router, blocker, stalePairs>>

(* SADD adds to what another filler has put there meanwhile. *)
AddToSet(f) ==
  /\ filler[f].step = "add"
  /\ setCache' = setCache \union filler[f].members
  /\ filler' = [filler EXCEPT ![f].step = "expire"]
  /\ UNCHANGED <<blockRows, pairCache, hasTTL, router, blocker, changes, stale>>

AddFails(f) ==
  /\ filler[f].step = "add"
  /\ filler' = [filler EXCEPT ![f].step = "expire"]
  /\ UNCHANGED <<blockRows, pairCache, setCache, hasTTL, router, blocker, changes, stale>>

ExpireSet(f) ==
  /\ filler[f].step = "expire"
  /\ hasTTL' = (setCache # {})
  /\ filler' = [filler EXCEPT ![f] = NoFill]
  /\ UNCHANGED <<blockRows, pairCache, setCache, router, blocker, changes, stale>>

-----------------------------------------------------------------------------
(* BlockUserHandler and UnblockUserHandler of either user.  An error of the second
   or third command is not looked at: the next one is sent. *)

Change(b, o, newRows) ==
  /\ blocker[b] = NoBlock
  /\ changes < MaxChanges /\ changes' = changes + 1
  /\ blockRows' = newRows
  /\ blocker' = [blocker EXCEPT ![b] = [step |-> "dropPair", other |-> o]]
  /\ UNCHANGED <<pairCache, setCache, hasTTL, router, filler, stale>>

Block(b, row, o)   == Change(b, o, blockRows \union {row})
Unblock(b, row, o) == row \in blockRows /\ Change(b, o, blockRows \ {row})

(* The block action of MatchActionHandler leaves the caches alone: what they hold
   may be older from now on. *)
BlockStranger(row) ==
  /\ changes < MaxChanges /\ changes' = changes + 1
  /\ blockRows' = blockRows \union {row}
  /\ stalePairs' = stalePairs \union (BlockedOthers' \ BlockedOthers)
  /\ staleSet' = (staleSet \/ BlockedOthers' # BlockedOthers)
  /\ UNCHANGED <<pairCache, setCache, hasTTL, requestVars>>

(* Mutant of InvalidateBlockCache: the key is not put in order, and another one is
   deleted. *)
DropUnordered(b) ==
  /\ blocker[b].step = "dropPair"
  /\ stalePairs' = IF LateAnswer(blocker[b].other) THEN stalePairs \union {blocker[b].other}
                                                  ELSE stalePairs \ {blocker[b].other}
  /\ blocker' = [blocker EXCEPT ![b].step = "dropSets"]
  /\ UNCHANGED <<blockRows, pairCache, setCache, hasTTL, router, filler, changes, staleSet>>

(* A look-up whose answer is older than the change writes it after the deletion. *)
InvalidateBlockCache(b) ==
  LET o == blocker[b].other IN
  /\ blocker[b].step = "dropPair"
  /\ pairCache' = [pairCache EXCEPT ![o] = "none"]
  /\ stalePairs' = IF LateAnswer(o) THEN stalePairs \union {o} ELSE stalePairs \ {o}
  /\ blocker' = [blocker EXCEPT ![b].step = "dropSets"]
  /\ UNCHANGED <<blockRows, setCache, hasTTL, router, filler, changes, staleSet>>

DropSets(b) ==
  /\ blocker[b].step = "dropSets"
  /\ setCache' = {} /\ hasTTL' = FALSE
  /\ staleSet' = LateMembers
  /\ blocker' = [blocker EXCEPT ![b] = NoBlock]
  /\ UNCHANGED <<blockRows, pairCache, router, filler, changes, stalePairs>>

DropPairFails(b) ==
  /\ blocker[b].step = "dropPair"
  /\ stalePairs' = stalePairs \union {blocker[b].other}
  /\ blocker' = [blocker EXCEPT ![b].step = "dropSets"]
  /\ UNCHANGED <<blockRows, pairCache, setCache, hasTTL, router, filler, changes, staleSet>>

-----------------------------------------------------------------------------
(* Time, errors and crashes *)

(* Mutant of PairExpires: only the answer "yes" gets a time to live. *)
YesExpires(o) ==
  /\ pairCache[o] = "yes"
  /\ pairCache' = [pairCache EXCEPT ![o] = "none"]
  /\ stalePairs' = IF LateAnswer(o) THEN stalePairs ELSE stalePairs \ {o}
  /\ UNCHANGED <<blockRows, setCache, hasTTL, requestVars, changes, staleSet>>

PairExpires(o) ==
  /\ pairCache[o] # "none"
  /\ pairCache' = [pairCache EXCEPT ![o] = "none"]
  /\ stalePairs' = IF LateAnswer(o) THEN stalePairs ELSE stalePairs \ {o}
  /\ UNCHANGED <<blockRows, setCache, hasTTL, requestVars, changes, staleSet>>

SetExpires ==
  /\ hasTTL
  /\ setCache' = {} /\ hasTTL' = FALSE
  /\ staleSet' = (staleSet /\ LateMembers)
  /\ UNCHANGED <<blockRows, pairCache, requestVars, changes, stalePairs>>

(* A look-up or request that stops: the server crashes, or a command fails and the
   rest is given up. *)
RouterStops(r) ==
  /\ router' = [router EXCEPT ![r] = NoLookUp]
  /\ UNCHANGED <<blockRows, pairCache, setCache, hasTTL, filler, blocker, changes, stale>>

FillerStops(f) ==
  /\ filler' = [filler EXCEPT ![f] = NoFill]
  /\ UNCHANGED <<blockRows, pairCache, setCache, hasTTL, router, blocker, changes, stale>>

BlockerStops(b) ==
  /\ blocker[b] # NoBlock
  /\ stalePairs' = IF blocker[b].step = "dropPair" THEN stalePairs \union {blocker[b].other}
                                                   ELSE stalePairs
  /\ staleSet' = TRUE
  /\ blocker' = [blocker EXCEPT ![b] = NoBlock]
  /\ UNCHANGED <<blockRows, pairCache, setCache, hasTTL, router, filler, changes>>

-----------------------------------------------------------------------------
RouterStep(r)  == QueryPair(r) \/ SetPair(r)
FillerStep(f)  == QuerySet(f) \/ AddToSet(f) \/ AddFails(f) \/ ExpireSet(f)
BlockerStep(b) == InvalidateBlockCache(b) \/ DropPairFails(b) \/ DropSets(b)

CacheNext ==
  \/ \E r \in Routers : RouterStep(r) \/ RouterStops(r) \/ \E o \in Others : GetPair(r, o)
  \/ \E f \in Fillers : FillerStep(f) \/ QueryBreaks(f) \/ FillerStops(f) \/ MissSet(f)
  \/ \E b \in Blockers :
       \/ BlockerStep(b) \/ BlockerStops(b)
       \/ \E o \in Others, row \in Rows :
            o \in {row[1], row[2]} /\ (Block(b, row, o) \/ Unblock(b, row, o))
  \/ \E row \in Rows : BlockStranger(row)
  \/ \E o \in Others : PairExpires(o)
  \/ SetExpires

(* Requests go on, and Redis expires keys. *)
CacheFairness ==
  /\ \A r \in Routers : WF_cacheVars(RouterStep(r))
  /\ \A f \in Fillers : WF_cacheVars(FillerStep(f))
  /\ \A b \in Blockers : WF_cacheVars(BlockerStep(b))
  /\ \A o \in Others : WF_cacheVars(PairExpires(o))
  /\ WF_cacheVars(SetExpires)

CacheSpec == CacheInit /\ [][CacheNext]_cacheVars

FairCacheSpec == CacheSpec /\ CacheFairness

-----------------------------------------------------------------------------
(* A set that no filler will give a time to live any more: one stopped between
   SADD and EXPIRE, or EXPIRE failed. *)
Orphaned == setCache # {} /\ ~hasTTL /\ \A f \in Fillers : filler[f].step # "expire"

(* Once a block or an unblock has deleted the pair, the router never has an older
   answer from the cache: unless a look-up held one during the deletion, the
   deletion failed or was not reached, or the block was made in a chat with a
   stranger. *)
PairAgrees ==
  \A o \in Others \ stalePairs :
    /\ pairCache[o] # "none"
    /\ \A b \in Blockers : ~(blocker[b].step = "dropPair" /\ blocker[b].other = o)
    => (pairCache[o] = "yes" <=> o \in BlockedOthers)

(* So is the set of the matchmaker either absent or the whole of those blocked, when
   no request is about to delete it, however many look-ups fill it by two commands
   each; unless members were read before the deletion, or in part. *)
SetAgrees ==
  ~staleSet /\ (\A b \in Blockers : blocker[b] = NoBlock) => setCache \in {{}, BlockedOthers}

(* However look-ups, blocks, errors and crashes overlap, a stale answer does not
   last: when a pair has become blocked, or is no longer blocked, the router's
   answers and the matchmaker's set agree with the rows in the end; the set unless
   it is left without a time to live. *)
CachesCatchUp ==
  \A o \in Others :
    /\ <>[](o \in BlockedOthers) => <>[](pairCache[o] # "no")
    /\ <>[](o \notin BlockedOthers) => <>[](pairCache[o] # "yes")
    /\ <>[](o \in BlockedOthers /\ ~Orphaned) => <>[](setCache = {} \/ o \in setCache)
    /\ <>[](o \notin BlockedOthers /\ ~Orphaned) => <>[](o \notin setCache)
=============================================================================
