CONSTANTS
  Thread = {t1, t2, t3}
  NoThread = NoThread
  CounterRange = 4
  MaxNest = 2
  MaxSwitches = 2
SPECIFICATION FairSpec
INVARIANTS
  TypeOK
  ExclusiveUnlessReset
PROPERTIES
  WindowCloses
  ActsAsMutex
  InitialisationEnds
