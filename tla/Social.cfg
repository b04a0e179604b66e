\* No deadlock check: requests run out.
SPECIFICATION Spec
CONSTANTS
  ann = ann  ben = ben  cat = cat  h1 = h1  h2 = h2
  Users <- MCUsers
  Paid = {ann}
  Handlers <- MCHandlers
  MaxChats = 1
  MaxRooms = 2
  MaxRequests = 4
SYMMETRY MCSymmetry
INVARIANTS FriendsCanTalk
PROPERTIES BothWanted PrivateNotContacted
CHECK_DEADLOCK FALSE
CONSTRAINT MCBounds
