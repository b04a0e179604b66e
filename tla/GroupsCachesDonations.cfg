\* Five requests about the group; two blocks, unblocks or broken queries; one failed
\* attempt to pay, one repeated report, one failed statement or crash.  No deadlock
\* check: requests about the group run out.
SPECIFICATION JointSpec
CONSTANTS
  ann = ann  ben = ben  cat = cat  r1 = r1  f1 = f1  b1 = b1  b2 = b2
  Users <- MCUsers
  Creator = ann
  Private <- MCPrivate
  Friends <- MCFriends
  Blocks <- MCBlocks
  Banned = {}
  VIPs = {ann}
  MaxMembers = 2
  MaxInitialMembers = 2
  MaxCodes = 2
  MaxRequests = 5
  Self = ann
  Others <- MCOthers
  Routers <- MCRouters
  Fillers <- MCFillers
  Blockers <- MCBlockers
  MaxChanges = 2
  order1 = order1  order2 = order2  hook1 = hook1  hook2 = hook2
  Orders <- MCOrders
  Hooks <- MCHooks
  MaxAttempts = 1
  MaxRepeats = 1
  MaxDonationFaults = 1
INVARIANTS CountIsActive LimitHolds PairAgrees SetAgrees
           RecordedOnce SettledIsRecorded ShownIsRecorded
PROPERTIES ShutOutStays CachesCatchUp PaidIsRecorded
CHECK_DEADLOCK FALSE
