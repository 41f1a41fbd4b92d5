SPECIFICATION FairSpec
CONSTANTS
  Submissions = {1, 2}
  Slots = {1, 2}
  MaxVersion <- Changes
  MaxFaults = 1
CHECK_DEADLOCK FALSE
INVARIANTS
  TypeOK
  StopsWhenOver
  StreamTellsLastChange
PROPERTIES
  PolledPageCatchesUp
