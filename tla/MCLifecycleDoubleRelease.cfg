CONSTANTS
  a = a
  b = b
  c = c
  bb = bb
  Thread = {t1}
  NoThread = NoThread
  Handle = {h1, h2}
  Null = Null
  Main = Main
  Path = {a, b}
  NoPath = NoPath
  Needs <- PairNeeds
  Inside <- SamePath
  Faults <- MapFaults
  Callers = {}
  Modes <- GlobalMode
  MaxHandles = 2
  MaxDeps = 1
  MaxCalls = 2
SPECIFICATION Spec
INVARIANTS
  RefcountExact
