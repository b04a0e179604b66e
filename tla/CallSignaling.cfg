\* No deadlock check: when every call is over the model stops.
SPECIFICATION FairSpec
CONSTANTS
  alice = alice  bob = bob
  call1 = call1  call2 = call2  server1 = server1  server2 = server2
  None = None
  Users <- MCUsers
  Calls <- MCCalls
  CallerOf <- MCCallerOf
  CalleeOf <- MCCalleeOf
  MayCall <- MCMayCall
  Servers = {server1, server2}
  ServerOf <- MCServerOf
  PushServers = {server1}
  MaxFailures = 1
INVARIANTS RingIsWatched MissedIsOver
PROPERTIES RingNeverOverwrites RingResolved
CHECK_DEADLOCK FALSE
