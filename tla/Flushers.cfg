\* One server flushes messages; a Redis fault, a Postgres fault and a crash may each
\* happen once.  Three receipts, two seconds, one failing command or statement, or a
\* crash.  No deadlock check: with every message flushed the model stops.
SPECIFICATION JointSpec
CONSTANTS
  room1 = room1  strangerRoom = strangerRoom
  a1 = a1  a2 = a2  a3 = a3  z1 = z1  server1 = server1  server2 = server2
  Rooms <- MCRooms
  StrangerRooms <- MCStranger
  Messages <- MCMessages
  RoomOf <- MCRoomOf
  Flushers = {server1}
  FlushWorkerCount = 1
  ChunkSize = 2
  MaxDbFaults = 1
  MaxRedisFaults = 1
  MaxCrashes = 1
  lounge = lounge  hall = hall  phone = phone  router = router
  Fields <- MCFields
  Recorders <- MCRecorders
  Processes <- MCProcesses
  ReceiptFlushBatchSize = 1
  MaxClock = 2
  MaxReceipts = 3
  MaxReceiptFaults = 1
INVARIANTS Conservation NothingStranded StoredOnceInOrder
           NewestIsKept
PROPERTIES ImplementsLog EventuallyStored NeverBackwards EventuallyInRow
CHECK_DEADLOCK FALSE
