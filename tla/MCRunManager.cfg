SPECIFICATION FairSpec
CONSTANTS
  k1 = k1
  k2 = k2
  Tasks = {1, 2, 3, 4}
  Keys = {k1, k2}
  KeyOf <- MCKeyOf
  Callers = {c1}
  NoTask = NoTask
CONSTRAINTS ArriveInOrder ThreeCalls
INVARIANTS
  TypeOK
  HandleIsOfLiveRun
  HandleLostOnlyToSameKey
  CancelAllReachesEveryRun
  WaitCoversEveryRun
PROPERTIES
  CancelledForAReason
  ImplementsBackgroundWork
  EveryRunFinishes
  ShutdownCompletes
