SPECIFICATION Spec
CONSTANTS
  Requests = {1, 2, 3, 4}
  Branches = {main, fix}
  Main = main
  Paths = {a, b}
  Root = Root
  None = None
CONSTRAINTS ArriveInOrder Few
SYMMETRY PathsAlike
INVARIANTS
  HistoryIsCoherent
  FailedCommitsAreAbsent
PROPERTY ReportedCommitsStay
