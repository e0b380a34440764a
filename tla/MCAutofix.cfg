SPECIFICATION Spec
CONSTANTS
  Requests = {1, 2, 3}
  RunIds = {1, 2}
  a1 = a1
  a2 = a2
  Agents = {a1, a2}
  Reports <- ReportSets
  None = None
CONSTRAINTS ArriveInOrder FewElsewhere FewAtTheEnd
SYMMETRY AgentsAlike
INVARIANTS
  RowsAreCoherent
  RestingRunHasEnded
  LostOnlyToARace
  ReasonIsALeftover
