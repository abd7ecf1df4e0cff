CONSTANTS
  a = a
  b = b
  c = c
  bb = bb
  Thread = {t1, t2}
  NoThread = NoThread
  Handle = {h1, h2, h3}
  Null = Null
  Main = Main
  Path = {a, b}
  NoPath = NoPath
  Needs <- PairNeeds
  Inside <- SamePath
  Faults <- InsertFaults
  Callers = {"fini"}
  Modes <- GlobalMode
  MaxHandles = 3
  MaxDeps = 1
  MaxCalls = 2
SPECIFICATION FairSpec
PROPERTIES
  CallsReturn
  EventuallyReclaimed
