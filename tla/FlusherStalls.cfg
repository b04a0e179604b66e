\* One server and one failing INSERT; Redis and the process never fail.
SPECIFICATION FairSpec
CONSTANTS
  room1 = room1  strangerRoom = strangerRoom
  a1 = a1  a2 = a2  a3 = a3  z1 = z1  server1 = server1  server2 = server2
  Rooms <- MCRooms
  StrangerRooms <- MCStranger
  Messages <- MCMessages
  RoomOf <- MCRoomOf
  Flushers = {server1}
  FlushWorkerCount = 1
  ChunkSize = 2
  MaxDbFaults = 1
  MaxRedisFaults = 0
  MaxCrashes = 0
PROPERTY NoIndefiniteStall
CHECK_DEADLOCK FALSE
