CONSTANTS
  a = a
  b = b
  c = c
  bb = bb
  Thread = {t1}
  NoThread = NoThread
  Handle = {h1, h2}
  Null = Null
  Main = Main
  Path = {a, b}
  NoPath = NoPath
  Needs <- LeafNeeds
  Inside <- SamePath
  Faults <- NoFaults
  Callers = {}
  Modes <- PlainModes
  MaxHandles = 2
  MaxDeps = 1
  MaxCalls = 2
SPECIFICATION Spec
PROPERTIES
  ForeverGlobal
