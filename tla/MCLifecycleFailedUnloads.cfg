CONSTANTS
  a = a
  b = b
  c = c
  bb = bb
  Thread = {t1, t2}
  NoThread = NoThread
  Handle = {h1, h2, h3}
  Null = Null
  Main = Main
  Path = {a, b}
  NoPath = NoPath
  Needs <- PairNeeds
  Inside <- SamePath
  Faults <- FreeFaults
  Callers = {"init", "enum"}
  Modes <- GlobalMode
  MaxHandles = 3
  MaxDeps = 1
  MaxCalls = 3
SPECIFICATION Spec
SYMMETRY Symmetry
INVARIANTS
  RefcountExact
  MutexBalanced
