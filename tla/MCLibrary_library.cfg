\* A search and a choice: filters with three pages, two and none.
SPECIFICATION FairSpec
CONSTANTS
  s1 = s1  p1 = p1
  NoSearch = NoSearch  NoPick = NoPick  NoTimer = NoTimer
  Searches = {s1}
  Picks = {p1}
  Size <- MCSize
INVARIANTS IInv
PROPERTIES AllPagesLoad FilterFollowsInput
