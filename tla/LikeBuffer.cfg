\* Two servers, three toggles, one failing command or statement, or crash.
SPECIFICATION FairSpec
CONSTANTS
  annPost = annPost  annOther = annOther  post = post  other = other
  one = one  two = two
  Servers = {one, two}
  Pairs <- MCPairs
  Items <- MCItems
  ItemOf <- MCItemOf
  Deletable = {other}
  Tables = {"post_likes", "comment_likes", "post_views"}
  ChunkSize = 2
  MaxToggles = 3
  MaxFaults = 1
INVARIANTS CountsRows LastToggleWins
PROPERTY EventuallyApplied
CHECK_DEADLOCK FALSE
