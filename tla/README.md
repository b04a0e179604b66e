# Verification of the chat backend

TLA+ modules, TLC configurations and TLAPS proofs about the Go service of this
repository: a chat backend that keeps its hot state in Redis and in memory and
its durable state in Postgres. The modules model the parts whose correctness
depends on the order of things: writes that are buffered and flushed later,
timers that race handlers, registries changed by several goroutines, records
that are loaded, changed and saved without a lock, caches filled from what was
read before. Request validation, lists and wording are left to tests.

## Inventory

| Part | Source | State | Operations | What is hard |
|---|---|---|---|---|
| WebSocket engine, connections | `chat/engine.go`, `chat/client.go` | users map, room shards, `JoinedRooms`, send channels | connect, disconnect, subscribe, unsubscribe, close a room, deliver | two indexes under different locks, snapshots used after the unlock, closing of a channel |
| Redis router | `chat/engine.go` 390-830 | caches of blocks and members | route a published message, receipts, push | caches, order of publications |
| One-to-one calls | `chat/calls.go` | `call:active:<user>`, ring timers | ring, accept, reject, end, leave, time out, hang up, scan | timers against handlers, two keys per call, crash of the caller's server |
| Message flusher | `services/flusher.go`, `bufferMessage` | Redis lists per room, dirty set, rows | buffer, flush cycle | concurrent pushes, failed inserts, back-off, crash |
| Receipts and their flusher | `chat/client.go` 196-270, `chat/engine.go` 610-663, `services/flusher.go` 251-349 | Redis hashes, two columns of `room_members` | record, drain, UPDATE | a time taken before it is written, several flushers, failure after the drain |
| Engagement and likes | `services/arena_flusher.go`, `handlers/post_likes.go` | Redis sets, rows, counters | like, unlike, view, flush | half-done toggles, counter drift |
| Matchmaking | `handlers/match.go` | match queue, rooms of strangers | enter, leave, skip, block, befriend | pop and put back, cancelled requests, clean-up of users gone offline |
| Bot service | `services/botservice.go` | timers, sessions, counter | schedule, cancel, match, reply, end, sweep, switch | timer callback against humans, admission, double stop, sweep against stop |
| Group calls | `handlers/calls.go`, `chat/bgpool.go` | JSON of the call in Redis, row of `call_logs`, LiveKit room | start, join, leave, kick, promote, end, delete the group, scan | load-change-save without a lock, three stores, failures between them |
| Friends, DM requests | `handlers/friends.go`, `dm_requests.go`, `rooms.go`, `match.go` | `friend_requests`, `friendships`, DM rooms, marks of strangers in Redis | request, accept, reject, withdraw, remove, block, open a DM, befriend a stranger | opposite requests, marks that outlive a withdrawal, rejection of a room just accepted |
| Block caches | `chat/engine.go`, `handlers/rooms.go`, `friends.go` | `blockpair:*`, `blockedset:*` in Redis | look up, fill, invalidate, expire | a fill that is older than the invalidation, a set without a time to live |
| Groups | `handlers/groups.go`, its trigger in `001_initial.sql` | `room_members`, counter, code, visibility | create, add, invite, accept, join three ways, leave, remove, promote, change, delete | limit checked before the row is written, several ways in, last admin |
| Posts, comments, bookmarks, feed | `handlers/posts.go`, ... | rows, caches | CRUD | caches with a time to live |
| Donations | `handlers/donations.go` | `pending_orders`, `donations` | order, webhook | three statements without a transaction, reports repeated, overlapping and out of order |
| Push, accounts, admin, media, boot | the rest | rows, configuration | | |

They interact through Redis (keys, sets and one publish/subscribe channel),
through Postgres, and in memory: HTTP handlers call the engine to subscribe a
user's connections, the engine hands clean-up tasks to a pool when a user's
last connection goes, and the engine calls the bot service through
`OnUserOffline`.

## Modules

| Module | What it models |
|---|---|
| `MessageLog` | what the flusher promises: a log per room, with a stored prefix |
| `MessageFlusher` | `bufferMessage`, `FlushAllDirtyRooms`, `flushOneRoom`, `bulkInsertToPostgres`, the scheduler, faults and crashes |
| `CallSignaling` | `processCallSignaling`, the ring timer, `handleCallDisconnect`, `deliverPendingCall`, `scanOrphanP2PCalls` |
| `Matchmaking` | `EnterMatchQueueHandler`, `LeaveMatchQueueHandler`, `MatchActionHandler` (skip, block), bot timers, `matchWithBot`, `StopBotSession`, `forceEndSession`, `SweepStaleBotSessions`, the offline clean-up |
| `Connections` | `Register`, `Unregister`, `JoinRoomForUser`, `LeaveRoomForUser`, `CloseRoom` and the membership handlers that call them |
| `GroupCalls` | `StartGroupCallHandler`, `JoinGroupCallHandler`, `LeaveGroupCallHandler`, `KickParticipantHandler`, `PromoteCallAdminHandler`, `ForceEndCallHandler`, `DeleteGroupHandler`'s call, `ScanOrphanGroupCalls` |
| `Groups` | every handler of `handlers/groups.go` that writes membership, and the trigger that counts members |
| `Social` | `SendFriendRequestHandler` and its kin, `RemoveFriendHandler`, blocks, `CreateDMHandler`, `AcceptDMRequestHandler`, `RejectDMRequestHandler`, the friend, skip and block actions of `MatchActionHandler` |
| `BlockCaches` | `isBlockedPairCached`, `getCachedBlockedSet`, `invalidateBlockCache`, expiry |
| `LikeBuffer` | `BufferLike`, `BufferUnlike`, `BufferView`, the flusher's tick (drain, cancel, insert, delete, counters) for posts, comments and views, deletion of a post |
| `Receipts` | `mark_read`, `mark_delivered`, `sendDeliveryReceipts`, `flushReceiptHash` |
| `Donations` | `CreateDonationOrderHandler`, `RazorpayWebhookHandler`, and the payment provider as they use it |
| `..._proofs` | the theorems about every module above; those about `Receipts` are in `LikeBuffer_proofs`, about `Donations` in `Groups_proofs`, about `BlockCaches` in `Social_proofs` |
| `MC...` | the small instances TLC checks |

In every module an action is one command to Redis, one statement of Postgres,
or one critical section: what a goroutine does between two of them is local to
it, and is part of the action before or after. A variable that stands for a key
in Redis or a table has that key or table in its comment; the step of a
handler is a program counter named after what comes next. Variables marked
"history" only record what happened, for the properties.

* **MessageFlusher.** A Redis list exists exactly when it is not empty, so a
  buffer is a sequence; `RENAME` replaces the destination. `job[f][r]` is where
  the worker of room `r` in the cycle of process `f` stands. Every Redis
  command that the code checks, or fails to check, has a failing variant,
  executed or not executed by the server. A message is a model value: the code
  looks inside it only for the columns of its row.
* **CallSignaling.** Scripts are atomic, so `SetPair`, `MarkAnswered` and
  `ClearIfMatch` are one step each, and a handler is as many steps as it sends
  commands. What a client shows (`ui`) limits what it may send: a call is rung
  once, accepted only when it rings. `old` is the age of a key: the scanner's
  threshold is the ring timeout plus a grace period, so a key is old only when
  the timer's callback and the handlers of its call are over. Every command may
  fail, executed or not; where the code only logs it, the handler goes on
  (`Attempt`). `struck` are the calls for which one failed. Disconnections,
  crashes and failing commands share the bound `MaxFailures`.
* **Matchmaking.** `request`, `timer`, `skip` and `watchdog` are the program
  counters of the handler, the bot callback, the skip and the watchdog.
  `entry` is the map of timers, which the callback deletes from whatever is in
  it. A room is named by the request that made it. The sweeper's `Range` loads a
  session in one step and looks at its `done` channel in another; `doubled`
  counts the sessions it ended a second time.
* **Connections.** `users`, `rooms` and `joined` are the three maps;
  `conn[c].todo` is the loop of `Register` or of the `Range` in `Unregister`,
  `change[h].targets` the snapshot of `JoinRoomForUser`. An invitation takes an
  active membership away and calls nobody (`CommitInvite`); the `DELETE` of a
  group may fail after its room was closed (`DeleteCommit`); the answer of a
  statement may be lost after it was executed (`AnswerLost`). `untold` are the
  connections registered at such a moment, and `raced` those whose own
  registration, or another handler, overlapped a change.
* **LikeBuffer.** `likes` and `unlikes` are the two Redis sets, `toggling` counts
  the handlers of a pair that are between their `SADD` and their `SREM`, of which
  any number overlap; `flush[s]` is the tick of a server: the pairs drained and
  not yet sent, and the rows that came and went and are still to be counted. The
  three tables run the same code but for two points (views are not taken back; a
  trigger counts the comment likes), so a behaviour is about one of them. Every
  command and every statement has a failing variant, executed or not executed.
  Two histories record whose outcome the code gives up (below): `excused` the
  pairs, each until the next toggle of the pair, `miscounted` the items.
* **Receipts.** `recording` is who has taken the time and has fields still to
  write, `hash` the Redis hash, `entries` what the tick of a process has drained,
  `column` the rows. A time is a number, 0 for none. `overtaken` and `dropped`
  are the fields whose newest receipt is gone, until a newer one comes.
* **Donations.** `orderStatus` and `donated` are the two tables, `hook` a request
  of the provider between its statements; `payment`, `attempts` and `reports` are
  the provider's, which repeats a report until it is answered. An order is in
  `overlapped`, `declined` or `troubled` from the moment when the code may count
  it twice, or never.
* **GroupCalls.** `call` is the Redis key, `log` and `logged` the row of
  `call_logs`, `rooms` the LiveKit rooms. A request that has made its checks
  holds the state it will write: `req[u]` is its next step and that copy, and
  every step writes the copy over whatever the key holds by then. Failures lead
  where the handler goes on after logging them (`AfterFailure`). `gone` are the
  users who left or were kicked and have not joined since, `older[u]` those who
  went after `u` loaded the copy it will save. `usurped` and `faulted` record the calls whose key another call's holder wrote, and those
  a failed statement left behind: nothing but the scanner repairs them.
* **Groups.** `status` and `role` are the rows of `room_members`; every write of
  them goes through one operator that also is the trigger on the counter. `req`
  holds what a request has read and will act on: the count, the code it came
  with, whom to invite or add. The check of an admin's rights and the statement it
  allows are two steps, and the admin may be removed between them. `told` is the
  newest code a user knows.
* **Social.** `job[h]` is a handler under way: its users, the row or room it has
  read, and the step that comes next. The row locks of its transaction make
  others wait, so a step whose statement would block is not enabled. A mark in
  `marks` belongs to a room and the user who set it, as its key does; the model
  also remembers for whom it was set. The caller of the friend, skip and block
  actions names room and partner: the partner comes from `stranger_members`,
  which a chat's end deletes, or from the request, and nobody looks the caller up
  in the room. `asked` is the history of what users wanted, from which
  `BothWanted` judges a friendship; `mistaken` are the pairs for whom a mark was
  taken that had been set for a third user.
* **BlockCaches.** One user's pair answers and set; an empty set and a missing
  key are the same in Redis. `hasTTL` is separate from the set because `SADD` and
  `EXPIRE` are two commands. A block made from a chat with a stranger changes the
  rows and no cache. `stalePairs` and `staleSet` tell what may be cached older than
  the rows: an answer read before a deletion and written after it, a deletion that
  failed or was not reached, a set read in part; until the next deletion or expiry.

**Composition.** The modules share the tables at their edges and are kept apart
where one leaves the other's state alone. `Connections` takes from the group
handlers the rows they commit, `Groups` says which rows those may be; the call of
a deleted group is in `GroupCalls`, its rows in `Groups`. `Matchmaking` takes
`Barred` as fixed, `Social` changes it, and `BlockCaches` says how late the
matchmaker and the router come to know. `Donations` makes the donors that
`Groups` takes as fixed (`VIPs`); `Receipts` writes columns of `room_members` that
no other module has.

## Runs

| Run | Checks | Instance |
|---|---|---|
| `flushers` | of `MessageFlusher`: `Conservation`, `NothingStranded`, `StoredOnceInOrder`; refinement of `MessageLog`; `EventuallyStored` | one flusher, one persistent and one stranger room, four messages, chunks of two, one fault of each kind, one crash |
| | of `Receipts`: `NewestIsKept`; `NeverBackwards`; `EventuallyInRow` | two rooms, two recorders, two flushing processes, three receipts, two seconds, one failure or crash |
| `call_signaling` | `RingIsWatched`, `MissedIsOver`, `RingNeverOverwrites`; `RingResolved` | two users on two servers ringing each other, one disconnection, crash or failing command |
| `matchmaking` | `SessionsCounted`, `NobodyForgotten`, `HumanRoomsAreFair`; `EventuallyMatched` | three users, one pair barred, two attempts, one bot session, one disturbance: a leave, a disconnection, a hang-up, or a session the sweeper ends twice |
| `connections` | `ShardsAgree`, `SubscriptionsMatch`, `ClosedIsUnreachable` | one user with two devices, two rooms, a removal, an invitation, an addition and a deletion in any order, one failing query |
| `like_buffer` | `CountsRows`, `LastToggleWins`; `EventuallyApplied` | two pairs, two posts, two servers, three toggles, one failed command or statement or crash, a deletion |
| `group_calls` | `StoredIsSound`, `OpenIsStored`, `ParticipantsAreLogged`; `CallEnds` | an admin and a member, two calls, five requests, one failed command or crash |
| `social` | `FriendsCanTalk`; `BothWanted`, `PrivateNotContacted` | three users, one of whom pays, one room of strangers, two handlers at a time, four requests (the fourth of two users), two DM rooms |
| `groups_caches_donations` | of `Groups`: `CountIsActive`, `LimitHolds`; `ShutOutStays` | three users, room for two, two codes, five requests |
| | of `BlockCaches`: `PairAgrees`, `SetAgrees`; `CachesCatchUp` | one user and two others, two changes by two requests, one routed message, one filler |
| | of `Donations`: `RecordedOnce`, `SettledIsRecorded`, `ShownIsRecorded`; `PaidIsRecorded` | two orders, two requests at a time, one failed attempt to pay, one repeated report, one failure or crash |

`flushers` and `groups_caches_donations` are runs of modules that share no state: a
behaviour moves one of them while the others are in an initial state, so the
states are the sum of theirs and not the product. The fairness of each is
restated for the steps that are then possible. `EventuallyStored` and
`PaidIsRecorded` have the form `[]<>(P => Q)`, which for a `P` that stays true once
it is true says the same as `P ~> Q` and costs TLC less.

The runs do not check the type invariants: each is a theorem (`TypeCorrect`,
`ReceiptTypeCorrect`, `DonationTypeCorrect`, `CacheTypeCorrect`), for all values of
the constants.

Four runs refute a comment of the source; TLC gives the trace.

* `flusher_loses_on_requeue`: "put the data back so we don't lose messages"
  (flusher.go:179). The list is renamed back over the buffer, and what was
  buffered since the first rename is gone.
* `flusher_stalls`: "to avoid indefinite stalls" (flusher.go:78). After one
  failed cycle the test `failures % 2^failures` fails for ever, because only a
  cycle that runs changes `failures`.
* `flusher_rename_is_no_lock`: "This is our lightweight lock mechanism"
  (flusher.go:160). Every server flushes (main.go:110) into the same key of a
  room: while one has a list set aside, messages arrive, and the `RENAME` of another
  puts the next list in its place.
* `call_missed_yet_answered`: the two scripts of the timer's callback leave
  room for an accept between them (calls.go:176).

**What the code does that a reader would not expect.** Where a name is
given, a passing property excepts these cases by that history variable, which
is set where they begin (`struck`, `excused`, `dropped` and `troubled` also where a
failure was harmless by chance); TLC finds them when the exception is dropped. The
others are behaviours of the models that no property forbids.

* A bot's callback checks the queue, a human takes the user, the callback goes
  on: the user gets both (botservice.go:352).
* The sweeper loads a session, a skip ends it, the sweeper sees `done` closed and
  counts it down again: a session over the limit is admitted from then on
  (botservice.go:235; `doubled`).
* When the script of a ring sets both keys and its answer is lost, no timer is
  started (calls.go:439), and when the `DEL` after a cancelled timer fails, it is
  only logged (line 98): both users are busy until the scanner comes (`struck`).
* Adding a member with a private profile again makes the member 'invited', and
  leaves the connections subscribed to the room (groups.go:510). A group whose
  `DELETE` fails has members whom its closed room no longer reaches (line 795), and
  so has a membership whose statement was executed and its answer lost (`untold`).
* An admin who asks for a new invite code may be removed after the check of rights
  (groups.go:1041): the `UPDATE` (line 1047) still makes the code, which the removed
  user knows. `ShutOutStays` begins to bind when no request of the user is under way.
* A connection cleaned up between the snapshot of `JoinRoomForUser` and its use
  stays in the room (engine.go:291; `late`).
* A pair found in both sets of likes is dropped whatever its row says, so an
  unlike whose `SREM` came after the tick's drain of likes leaves the like
  stored (arena_flusher.go:269). Two overlapping handlers of one user, a like and
  an unlike, cancel each other out of both sets (line 200). Two servers tick: one
  drains the like, the other the unlike and deletes nothing, and then the first
  inserts (line 222). One pair of a deleted post makes the `INSERT` of a chunk
  fail, and the others in it are lost (line 315). A chunk of likes that is put back
  after a failed `INSERT` comes on top of an unlike made meanwhile (line 316). In
  all these cases the pair is in `excused` until its next toggle.
* An error that ends the reading of the returned rows, or a failed `UPDATE`, leaves
  a counter wrong for good (lines 320 and 396); so does `GREATEST` when one server
  counts a deletion before another has counted the insertion (line 391;
  `miscounted`).
* Of two devices of a user, or a device and a router, the one that took the older
  time may write last, and its receipt replaces the newer one in the hash
  (client.go:212; `overtaken`). A failed `UPDATE` of receipts is logged after the
  hash has been deleted (flusher.go:345; `dropped`).
* The report of a failed attempt marks an order failed, and the payment that a
  later attempt completes finds no pending order: it is acknowledged and never
  recorded (donations.go:270; `declined`). Two requests about one payment may both
  find it pending and record it twice (line 240; `overlapped`); so may the next
  report after a failed `UPDATE`, and a failed `INSERT` is acknowledged without a
  donation (line 257; `troubled`).
* A look-up that read the rows before a block writes its answer after the caches
  were deleted, and a set read up to an error is cached as if it were whole, for
  thirty seconds each (engine.go:731, rooms.go:528; `stalePairs`, `staleSet`).
* The mark of a stranger's friend action stays in Redis when the request is
  withdrawn or rejected elsewhere, and is later taken for consent (match.go:301;
  `outlived`). Its key names the room and who set it, not for whom: a third user who
  names the room and that user becomes his friend (line 297; `mistaken`).
* Rejecting a message request deletes the room even if it has been accepted by
  then (dm_requests.go:181; `roomless`).
* Two overlapping requests can make two DM rooms for one pair (rooms.go:265,
  match.go:370).
* Members are let in on a count read before another request's row was written
  (groups.go:907; `unchecked`).
* The save of a handler overwrites a call that another has started or changed
  meanwhile (calls.go:154; `usurped`): who left or was kicked after the copy was
  loaded is a participant and, if he was one, a call admin again (lines 334 and
  378; `older`).

**Bounds.** Three messages in a room make two chunks of the batch and leave one
to arrive while a batch is in flight; two would never separate the chunks. One
fault of each kind already gives every pair of a Redis and an insert fault.
Two calls between the same two users, on two servers, have every overlap of
keys; one failure strikes each command of each handler, next to every overlap.
Three users are the fewest for which a partner can be popped, not suit,
be put back, and meanwhile be wanted by a third. Two devices show the loops
over a user's clients half done, and four changes of one room come in every
order. A like, a second like or an unlike, and a
third toggle around a tick are enough for every pairing of the two sets with a
row; chunks of two mix two posts; with two servers a pair is in the hands of two
ticks the same way or the opposite ways, and that more servers and overlapping
handlers add nothing is proved. Two users and two calls of a group have every overlap of a copy
in hand with the end of its call and the start of the next; five requests let
one handler's copy outlive both. Five requests make a group, fill it, remove a
member, make another code or change the visibility, and let the member try a way
back in; three users are the fewest with a limit that two can race for. Four
requests, two at a time, are the shortest sequences in which a friendship is
wished, withdrawn and wished by the other. Three users are the fewest for whom a
mark can be taken by somebody it was not set for: that takes two requests, and the
`CONSTRAINT` of the run lets three users make the first three, and explores the
fourth from states in which one of two users who are alike has done nothing yet. One router and one filler hold an answer or members while
both requests change the rows and delete the caches; that more of them change
nothing is proved. Three receipts, two of them older than what a process has
drained, can be written and flushed in every order; a repeated report meets the
first one at each of its statements. `CHECK_DEADLOCK FALSE` in all runs: when every message
is stored, every call over, every request served and every bound reached, the
systems stop.

**Fairness.** Liveness assumes that goroutines of the service go on, that the
scheduler ticks and that timers fire: weak fairness of those steps. `GroupCalls`
also lets hours pass for a stored call (`GrowOld`), and its scanner tick;
`BlockCaches` lets Redis expire keys that have a time to live; the receipts have a
scheduler in every process, and so have the likes; and the payment provider sends a report again until it
is answered, as payment providers do. Nothing is assumed of clients, of connections or of the delivery of publications.

## Proofs

Every theorem is about `Spec`, without fairness, and about every value of the
constants: no bound of the runs is used. The argument is each time an inductive
invariant, stronger than the property.

`MessageFlusher_proofs`, for any rooms, messages, workers, chunk size and bounds:

* `TypeCorrect`: `Spec => []TypeOK`.
* `ConservationHolds`: with one flusher, `Spec => []Conservation`. Conservation
  says what a worker holds is the piece between the rows and the buffer; that a
  failed job does not exist without a fault, and that an idle process has no
  job, make it inductive: `IInv` is `TypeOK`, `IdleHasNoJob`, and, unless a
  fault happened, `NoFailedJob` and the equation.
* `NothingStaysStranded`: `Spec => []NothingStranded`, for any number of
  flushers: a worker that goes on past its `RENAME` leaves what others know of
  the room (`StaysKnown`), and the dirty set is taken in one script. `StrandInv`
  adds `IdleHasNoJob`, since the start of a cycle replaces all jobs.
* `StoredStaysInOrder`: with one flusher, `Spec => []StoredOnceInOrder`. Rows,
  batch and buffer are together an ascending part of what was accepted
  (`Ordered`), from which faults of Redis and crashes only take pieces; no job is
  in a failed stage while no insert failed, since a requeue puts back rows that
  may be stored.
* `FlusherImplementsLog`: with one flusher, `Spec => ImplementsLog`: the
  refinement. An insert without faults is `Store`, by Conservation; the first
  fault is `Degrade`, and what follows is `StoreDegraded`, because rows, batches
  and buffers never hold what was not accepted (`Contained`).

Three of these say "with one flusher" (as hypothesis that all flushers are equal,
or `Flushers = {server}`), as the run has it. It is needed: the `RENAME` of a
second process replaces the list the first is inserting (`flusher_rename_is_no_lock`),
and TLC violates all three properties with two.

`CallSignaling_proofs`, for any users, calls and servers, any number of
failures, and any distribution of the users over the servers:

* `TypeCorrect`: `Spec => []TypeOK`, from the sharper `Types` (a handler has a
  call exactly when it is at work).
* `RingsNeverOverwrite`: `Spec => RingNeverOverwrites`. A step either keeps the
  call of a key or frees it (`KeyKept`), or it is the script of a ring that saw
  both keys free (`NextKeys`). That such a script writes only those two keys
  needs `OfParties`: keys, handlers and hang-ups only hold their own user's calls.
* `MissedStaysOver`: `Spec => []MissedIsOver`. A late ring could bring a missed
  call back. `Fresh` excludes it: as long as a call may still be rung
  (`NotYet`), no key, timer, message, other handler or hang-up knows of it
  (`Unheard`), so it has not been missed.
* `RingStaysWatched`: `Spec => []RingIsWatched`. The hard part is who stops
  watching: a timer is cancelled only by a handler or a hang-up that then has
  the call in hand; and whoever lets go of it has dealt with both keys. The
  second is inductive because of `ClearedFirst`: between the two keys, the
  first does not ring, and by `Fresh` nothing makes it ring again. Of a call in
  `struck` neither is said.

`Matchmaking_proofs`, for any users, requests, attempts and limit of sessions:

* `HumanRoomsStayFair`: `Spec => []HumanRoomsAreFair`, from `RequestOK`: a
  request that has somebody in hand is past the check of who is barred, and a
  popped partner is neither barred nor the user. It uses the assumption that
  nobody is barred from oneself (`BarredType`): friends.go:59 and 686 refuse to
  befriend or block oneself.
* `SessionsStayCounted`: `Spec => []SessionsCounted`, from `Once`: a timer is
  started by a request that is over, its room is made once, so no session is
  counted twice when it starts. The sets counted are finite although `Requests`
  need not be. What the sweeper counts down again is in `doubled`, and the limit
  on the counter holds even then; the limit on the sessions does not.
* `NobodyIsForgotten`: `Spec => []NobodyForgotten`. The property lets a user be
  in the hand of a request at any step; inductive is that a request holds a
  partner only from the pop to the put-back or the notice (`Held`) and its own
  user only until it has queued or told the user (`Busy`), and that no clean-up
  is left for a user who was never offline (`KeptInv`).
* `TypeCorrect`: `Spec => []TypeOK`.

`Connections_proofs`, for any connections, users, rooms and changes:

* `TypeCorrect`: `Spec => []TypeOK`.
* `ShardsAlwaysAgree`: `Spec => []ShardsAgree`, inductive with the types.
* `ClosedStaysUnreachable`: `Spec => []ClosedIsUnreachable`, from `CleanedUp`: a
  connection under clean-up has left `users`, and is found only in rooms its
  loop has still to leave, or where a handler put it late.
* `SubscriptionsFollowMembers`: `Spec => []SubscriptionsMatch`. The property
  looks at a moment when no handler is at work, so `SubInv` says what holds in
  between: a user is found under exactly the connections not yet cleaned up
  (`Roster`); the handler that treats a room has written its row before
  (`WrittenFirst`), and is alone unless the pair is in `raced` (`OneAtWork`); and
  a connection whose subscription differs from the rows is one that a handler
  will find or has still to treat, or that its own `Register` loop will join
  (`Follows`, `Covered`); changes that no handler follows up put the registered
  connections into `untold`, and those that register later query the new rows.

`Groups_proofs`, for any finite set of users, friendships, blocks and limit:

* `TypeCorrect`: `Spec => []TypeOK`.
* `CountStaysRight`: `Spec => []CountIsActive`. The trigger fires on every insert,
  update and delete; `CountedIsRight` says what one write does to the number of
  active members, for sets of any size, and every action writes through it.
* `LimitStays`: `Spec => []LimitHolds`, from `Checked`: what a request that has
  read the count will add fits, as long as nobody else has been let in since.
* `ShutOutHolds`: `Spec => ShutOutStays`, from `ToldIsOld` (no user and no
  request knows a code that has not been made): a step that would let the user in
  is one of the ways of `LetIn`, or one of the conditions of `ShutOut` fails.

and about donations, for any orders, requests of the provider, attempts, repeats
and faults. The invariant is `OrdersInv`, four statements about each order:

* `DonationTypeCorrect`: `DonationSpec => []DonationTypeOK`.
* `DonationsRecordedOnce`: `DonationSpec => []RecordedOnce`, from `NotTwice`: unless
  requests overlapped, at most one is about to insert or to mark, one about to
  insert finds no donation, and an order pending with a donation is about to be
  marked.
* `SettledStaysRecorded`: `DonationSpec => []SettledIsRecorded`, from `Underway`: a
  payment not recorded yet is still reported or worked on.
* `ShownStaysRecorded`: `DonationSpec => []ShownIsRecorded`, from `OnlyPaid` (whoever
  works on a payment was told of it) and `InsertedFirst` (the `INSERT` comes before
  the mark).

`GroupCalls_proofs`, for any users, members, calls, requests and faults:

* `TypeCorrect`: `Spec => []TypeOK`.
* `StoredStaysSound`: `Spec => []StoredIsSound`. The key alone is not inductive,
  since it is overwritten by copies taken long ago: `SoundInv` says the same of
  every copy in a handler's hands. For those who are gone, `GoneInv`: a copy in
  the hands of `u` holds nobody who is gone but those in `older[u]` and, when `u` is
  joining, `u` (`Excused`). Writing it back readmits only them.
* `OpenStaysStored`: `Spec => []OpenIsStored`. `IdInv` says who can have which
  call: nobody but its starter, and the deletion of the group, knows a call that
  has not been announced. `OpenInv` then follows each step that takes a call off
  the key: it is in the hands of somebody who will end its row, or the call is
  struck by a fault or usurped.
* `ParticipantsStayLogged`: `Spec => []ParticipantsAreLogged`. `LogInv` extends
  the property to the copies under way: a copy in the hands of a join is logged
  but for the user who joins, whose `UPDATE` comes after the `SET`.

`LikeBuffer_proofs`, for any finite sets of servers and pairs, any items, each of
the three tables, any chunks, toggles, overlaps and faults:

* `TypeCorrect`: `Spec => []TypeOK`. That no counter falls below zero follows from
  the invariant of the next theorem.
* `CountersMatchRows`: `Spec => []CountsRows`, for the items that are not
  `miscounted`. Counting is about sets of any size: a chunk changes the rows of an
  item and the share of a tick by the same number, and the sum over all servers
  changes by that of one. When a statement fails, what was done and what was read
  may differ, but not about the other items. `RowsExist` (no row of a deleted
  item) is needed where a deletion takes a counter away, and `TriggerCounts` for
  the comment likes, which a trigger counts and no tick does.
* `LastToggleAlwaysWins`: `Spec => []LastToggleWins`, for the pairs that are not
  `excused`. The invariant says of each of them (`Kept`): only handlers of the last
  toggle are under way (`Alone`); a last like is in its set, or no tick holds the
  unlike and a tick or the table has the like, and the opposite set holds the pair
  only while its handler, or the tick with the other half in hand, has yet to
  cancel it (`KeptLike`); and the same of a last unlike (`KeptUnlike`). Where a step
  would break it, the step puts the pair into `excused`.

and about receipts, for any recorders, rooms, processes, chunks, times and faults:

* `ReceiptTypeCorrect`: `ReceiptSpec => []ReceiptTypeOK`.
* `NewestStaysKept`: `ReceiptSpec => []NewestIsKept`. With the types it is
  inductive, field by field (`NewestHeld`): a drain hands the hash to a process
  that holds nothing, a chunk of any size takes exactly its fields to the rows
  (`GREATEST` keeps a newer one), and a write either is the newest or puts the
  field into `overtaken`.
* `RowsNeverGoBack`: `ReceiptSpec => NeverBackwards`.

`Social_proofs`, for any finite set of users, any handlers, rooms and requests:

* `TypeCorrect`: `Spec => []TypeOK`. That rows never share an id needs
  `Numbered`: every handler has a number of its own, and gives it to at most one
  row. Three lemmas say what any step does to the handlers (`Moves`), the rows
  (`RowsChange`) and the rooms (`RoomsChange`), and the other proofs start there.
* `PrivateStaysAlone`: `Spec => PrivateNotContacted`, from `Guarded`: whoever may
  insert a room was allowed to, and holds the row of its target, so that the
  profile cannot become private under it.
* `FriendsBothWanted`: `Spec => BothWanted`. `WishInv` follows the wish of a user
  through everything that may carry it: a pending row, a mark in Redis, and a
  handler at each of its steps, alone (`Own`) or for both (`Mutual`). Taking a
  wish back leaves none of them, or the pair is in `raced` or `outlived`
  (`UnwishLeaves`); a mark found in the room is the partner's wish for the caller,
  or the pair is `mistaken`.
* `FriendsAlwaysTalk`: `Spec => []FriendsCanTalk`. Between finding a room and
  activating it the room may go. `TalkInv`: a handler that is about to commit
  still finds its pair in its room, or the pair is in `roomless`; and a handler
  about to delete a room is of the pair in it (`DeletedByPair`; the two members of
  a room determine it, `TwoOfPair`).

and about the caches of blocks, for any others, look-ups and changes under way:

* `CacheTypeCorrect`: `CacheSpec => []CacheTypeOK`.
* `PairsStayFresh`: `CacheSpec => []PairAgrees`. `PairFresh` says of the answer in a
  router's hand what the property says of the cache: unless the pair is to be
  deleted, or is excepted, neither is older than the rows.
* `SetStaysFresh`: `CacheSpec => []SetAgrees`, from `SetFresh`, the same of the members
  in the hands of fillers: what they add to each other's set is the same whole.

The assumptions are the named ones of the modules' constants, which TLC
evaluates on every run. Every invariant, every action property and the
refinement that the runs check are proved. Model-checked only are the liveness
properties `EventuallyStored`, `RingResolved`, `EventuallyMatched`,
`EventuallyApplied`, `CallEnds`, `CachesCatchUp`, `EventuallyInRow` and
`PaidIsRecorded`, whose fairness is out of the provers' reach.

## Not modelled

* Of modelled parts: locations, the text of messages, the sets that show users
  their own recent likes, cached lists of friends and rooms, the replies of the
  bot, muting, and who is connected to a LiveKit room (LiveKit closes an empty
  one by itself). The status and history queries change no state.
* The run-time switch of the bot service: a timer's callback that is under way
  goes on with a client that is being closed, and what that does is up to the bot
  library, not to this code.
* Presence: the tasks of a quick reconnect may run in the other order.
* Posts, comments, bookmarks and the feed: single statements, and caches that
  expire and are written with what was just read.
* Amounts of donations: a donation has the amount of its order, and the cent that
  `int64(amount * 100)` may cut off is neither charged nor recorded.
* In `BlockCaches`, a `GET` or `SMEMBERS` that fails counts as a miss.
* Push notifications, accounts, administration, media, configuration: no state
  that another part's correctness depends on.

## What is left

1. Presence, and the deliverer's own snapshot of a room in `Connections`: a message
   sent to a connection that is closed meanwhile.
2. Posts and comments, where a cache is written with what was read before a change.
3. Narrower exceptions: `troubled` excepts an order from three properties at once,
   whatever failed.
