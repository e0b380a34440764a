SPECIFICATION FairSpec
CONSTANTS
  Requests = {1, 2, 3}
  Keys = {k1}
  CommandIds = {1, 2}
  Addressed = {1}
  ExpectedVersions = {0, 2}
  MaxRuns = 3
  None = None
CONSTRAINTS ArriveInOrder IdsInOrder LittleWork FewAhead FewBesideKeyless FewIds FewAtTheEnd
INVARIANTS
  RowsAreCoherent
  ReuseIsOfTheOldest
  SecondRunOnlyInARace
  DuplicateEchoesFirst
  LastCommandIsShown
PROPERTIES
  LoggedCommandsRun
  AnswersEnd
