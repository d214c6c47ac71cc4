SPECIFICATION FairSpec
CONSTANT Tasks = {1, 2, 3}
INVARIANTS
  TypeOK
  OrderRespectsDependencies
  CycleIffReported
  LevelsAreTight
PROPERTY SortEnds
CHECK_DEADLOCK FALSE
