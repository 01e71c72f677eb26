\* The row under retry leaves the screen.
SPECIFICATION Spec
CONSTANTS
  r1 = r1  r2 = r2  q1 = q1  q2 = q2  t1 = t1  t2 = t2
  NoText = NoText  NoData = NoData  Refused = Refused  NoRec = NoRec  MaxFailedSyncRows = 500
  Recordings = {r1}
  Requests = {q1}
  Texts = {t1}
PROPERTIES RetriedRowStays
