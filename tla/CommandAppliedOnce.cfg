SPECIFICATION Spec
CONSTANTS
  Requests = {1, 2, 3}
  Keys = {k1}
  CommandIds = {c1}
  Addressed = {1}
  ExpectedVersions = {0}
  MaxRuns = 3
  None = None
INVARIANT CommandAppliedOnce
CONSTRAINTS ArriveInOrder LittleWork FewAhead
