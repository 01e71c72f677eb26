\* A recording whose job was lost before it began.
SPECIFICATION Spec
CONSTANTS
  r1 = r1  r2 = r2  j1 = j1  j2 = j2
  NoRec = NoRec
  Recordings = {r1}
  Videos = {}
  Jobs = {j1}
  MaxAudioWorkers = 1
  MaxVideoWorkers = 1
  StaleExceedsTimeout = TRUE
PROPERTIES ScanFindsAllStuck
