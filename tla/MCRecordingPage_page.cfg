\* Two items of a kind, two texts, two mutations at once, two
\* changes in all, two resets due at once.
SPECIFICATION Spec
CONSTANTS
  i1 = i1  i2 = i2  t1 = t1  t2 = t2  q1 = q1  q2 = q2
  Recording = Recording  NoText = NoText  NoItem = NoItem  Unlabelled = Unlabelled  NoData = NoData
  Ids = {i1, i2}
  Texts = {t1, t2}
  Requests = {q1, q2}
  MaxChanges = 2
  MaxTimers = 2
INVARIANTS TypeOK PageCatchesUp LinkBelongsToForm UntouchedIsShown
SYMMETRY ItemsAndTextsAlike
CHECK_DEADLOCK FALSE
