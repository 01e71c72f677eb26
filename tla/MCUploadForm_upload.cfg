\* Two files, typed dates, overlapping analyses and polls.
SPECIFICATION FairSpec
CONSTANTS
  a = a  b = b  doc = doc
  NoTag = NoTag  NoTitle = NoTitle  NoDay = NoDay  Blank = Blank
  NoResults = NoResults  NotSent = NotSent  Waiting = Waiting  Failed = Failed
  Files = {a, b}
  Supported = {a, b}
  Name <- Named
  Tags <- Tagged
  Titles = {doc}
  Days = {1, 2}
  Today = 2
  DateInputs = {2}
  Folders = {{b}}
  MaxBatches = 2
  MaxPolls = 2
  MaxRecordings = 1
INVARIANTS EntriesFollowFiles TypedDateStays SentAsShown SentInShownOrder
CHECK_DEADLOCK FALSE
PROPERTIES ResultsSettle
