\* A video, through crashes, timeouts and recovery.
SPECIFICATION FairSpec
CONSTANTS
  r1 = r1  r2 = r2  j1 = j1  j2 = j2
  NoRec = NoRec
  Recordings = {r1}
  Videos = {r1}
  Jobs = {j1, j2}
  MaxAudioWorkers = 1
  MaxVideoWorkers = 1
  StaleExceedsTimeout = TRUE
INVARIANTS IInv OneJobPerRecording OriginalIsStored
PROPERTIES ImplementsPublication CompleteIsFinal WorkIsFinished
