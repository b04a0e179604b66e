\* No deadlock check: every connection ends.
SPECIFICATION Spec
CONSTANTS
  ann = ann  phone = phone  laptop = laptop
  room1 = room1  room2 = room2
  Users = {ann}
  Clients = {phone, laptop}
  UserOf <- MCUserOf
  Rooms = {room1, room2}
  InitialMembers <- MCMembers
  Changes <- MCChanges
  MaxQueryFaults = 1
INVARIANTS ShardsAgree SubscriptionsMatch ClosedIsUnreachable
CHECK_DEADLOCK FALSE
