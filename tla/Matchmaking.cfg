\* One request of each user, one bot session at a time; Ann may leave, go
\* offline or hang up, or the sweeper count her session twice, once.
\* No deadlock check: once every request is served the model stops.
SPECIFICATION FairSpec
CONSTANTS
  ann = ann  ben = ben  cat = cat
  enterA = enterA  enterB = enterB  enterC = enterC
  Users <- MCUsers
  Requests <- MCRequests
  UserOf <- MCUserOf
  Barred <- MCBarred
  MaxMatchAttempts = 2
  MaxBotSessions = 1
  Unsteady = {ann}
  MaxDisturbances = 1
  Bot = Bot
  None = None
INVARIANTS SessionsCounted NobodyForgotten HumanRoomsAreFair
PROPERTY EventuallyMatched
CHECK_DEADLOCK FALSE
