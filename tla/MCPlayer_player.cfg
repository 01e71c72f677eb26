\* Audio and video, both pages, with songs.
SPECIFICATION FairSpec
CONSTANTS
  Duration = 3
  Marks = {0, 2}
  MaxToggles = 2
INVARIANTS TypeOK AudioIsAttached
PROPERTIES HandoffKeepsPlace BecomesReady DisplayFollows
CHECK_DEADLOCK FALSE
