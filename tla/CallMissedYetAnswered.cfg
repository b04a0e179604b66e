\* No disconnection and no crash: only a timer due when the callee accepts.
SPECIFICATION Spec
CONSTANTS
  alice = alice  bob = bob
  call1 = call1  call2 = call2  server1 = server1  server2 = server2
  None = None
  Users <- MCUsers
  Calls <- MCCalls
  CallerOf <- MCCallerOf
  CalleeOf <- MCCalleeOf
  MayCall <- MCMayCall
  Servers = {server1, server2}
  ServerOf <- MCServerOf
  PushServers = {server1}
  MaxFailures = 0
INVARIANT MissedNotAnswered
CHECK_DEADLOCK FALSE
