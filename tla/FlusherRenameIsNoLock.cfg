\* Two servers, nothing fails.
SPECIFICATION Spec
CONSTANTS
  room1 = room1  strangerRoom = strangerRoom
  a1 = a1  a2 = a2  a3 = a3  z1 = z1  server1 = server1  server2 = server2
  Rooms <- MCRooms
  StrangerRooms <- MCStranger
  Messages <- MCMessages
  RoomOf <- MCRoomOf
  Flushers = {server1, server2}
  FlushWorkerCount = 1
  ChunkSize = 2
  MaxDbFaults = 0
  MaxRedisFaults = 0
  MaxCrashes = 0
INVARIANT RenameIsLock
CHECK_DEADLOCK FALSE
