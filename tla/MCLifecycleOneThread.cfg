CONSTANTS
  a = a
  b = b
  c = c
  bb = bb
  Thread = {t1}
  NoThread = NoThread
  Handle = {h1, h2, h3, h4}
  Null = Null
  Main = Main
  Path = {a, b, c, bb}
  NoPath = NoPath
  Needs <- DiamondNeeds
  Inside <- PartPath
  Faults <- EarlyFaults
  Callers = {"init", "enum"}
  Modes <- AllModes
  MaxHandles = 4
  MaxDeps = 2
  MaxCalls = 3
SPECIFICATION Spec
SYMMETRY Symmetry
INVARIANTS
  DepsOutlive
  DepsComplete
  LoadedOnce
  FinalisedOnce
  NothingLeaks
