SPECIFICATION Spec
CONSTANTS
  Requests = {1, 2, 3}
  Replays = {r1, r2}
  Projects = {1, 2}
  Hashes = {h1, h2}
  None = None
  Fallback = Fallback
CONSTRAINTS ArriveInOrder OneTable
INVARIANTS
  RowsAreCoherent
  DeletedStaysDeleted
PROPERTY ProcessingEnds
