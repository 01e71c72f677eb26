\* A process that may stop and one that lasts; the file comes and goes.
SPECIFICATION FairSpec
CONSTANTS
  r1 = r1  r2 = r2  o1 = o1  o2 = o2  c1 = c1  c2 = c2  w1 = w1  w2 = w2
  base = base  alt = alt
  NoPath = NoPath  NoOwner = NoOwner  NoRec = NoRec  Nothing = Nothing  Torn = Torn
  Recordings = {r1}
  Paths = {base, alt}
  Rendered = {base}
  SuffixPath <- MCSuffix
  Owners = {o1, o2}
  Calls = {c1}
  Workers = {w1}
  MaxWorkers = 1
  MaxAttempts = 2
  RetryCap = 0
  AtomicUpload = TRUE
  Lasting = {o2}
  Flaky = {r1}
PROPERTIES SyncingEnds SyncedOrExhausted
CHECK_DEADLOCK FALSE
