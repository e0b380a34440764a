SPECIFICATION FairSpec
CONSTANTS
  Requests = {1, 2, 3}
  Runs = {r1}
  InsertIndexes = {None, 1}
  None = None
  MaxRestarts = 1
CONSTRAINTS ArriveInOrder OneEnding FewAtTheEnd
INVARIANTS
  RowsAreCoherent
  LockedCopiesAreFresh
  ReplyRecordedOnce
  ShutdownReasonExplained
PROPERTY ProcessingEnds
