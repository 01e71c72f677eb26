\* Three uploads over a date that is only added to and one that is edited.
SPECIFICATION FairSpec
CONSTANTS
  r1 = r1  r2 = r2  r3 = r3  d1 = d1  d2 = d2  name = name
  NoDate = NoDate  NoTitle = NoTitle  Nobody = Nobody
  Recordings = {r1, r2, r3}
  Dates = {d1, d2}
  Quiet = {d1}
  Typed = {1, 2, name}
INVARIANTS UploadsNeverCollide NumbersAreSequential
PROPERTIES UploadsAreAnswered
CHECK_DEADLOCK FALSE
