SPECIFICATION Spec
CONSTANTS
  MaxText = 7
  MaxFile = 6
  FileSizes <- Configured
  MaxRows = 4
  MaxPages = 3
  MaxDepth = 3
  Severities <- SomeSeverities
  Fixabilities <- SomeFixabilities
  Lengths <- SomeLengths
  Names = {"a", "b"}
  DefaultLimit = 2
  Absent = Absent
  Fails = Fails
  Panics = Panics
  Down = Down
  Garbage = Garbage
  Missing = Missing
  Error = Error
  Pending = Pending
INVARIANT FirstCompleteIsDecoded
