\* One recording, two processes sharing the table, two workers.
SPECIFICATION Spec
CONSTANTS
  r1 = r1  r2 = r2  o1 = o1  o2 = o2  c1 = c1  c2 = c2  w1 = w1  w2 = w2
  base = base  alt = alt
  NoPath = NoPath  NoOwner = NoOwner  NoRec = NoRec  Nothing = Nothing  Torn = Torn
  Recordings = {r1}
  Paths = {base, alt}
  Rendered = {base, alt}
  SuffixPath <- MCSuffix
  Owners = {o1, o2}
  Calls = {c1}
  Workers = {w1, w2}
  MaxWorkers = 1
  MaxAttempts = 1
  RetryCap = 2
  AtomicUpload = TRUE
  Lasting = {}
  Flaky = {}
SYMMETRY Symmetric
INVARIANTS SyncedIsBackedUp ObjectsStayHome OneWorkerPerClaim
PROPERTIES ImplementsBackup AutomaticRetriesStop SyncedIsFinal LeaseIsExclusive
CHECK_DEADLOCK FALSE
