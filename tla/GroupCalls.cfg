\* No deadlock check: requests run out.
SPECIFICATION Spec
CONSTANTS
  ann = ann  ben = ben
  Users <- MCUsers
  Members <- MCUsers
  GroupAdmins <- MCAdmins
  Creator = ann
  MaxCalls = 2
  MaxRequests = 5
  MaxFaults = 1
INVARIANTS StoredIsSound OpenIsStored ParticipantsAreLogged
PROPERTY CallEnds
CHECK_DEADLOCK FALSE
