CONSTANTS
  MaxEntries = 2
  PageSize = 2
  Space = 32
  Headers <- VariedHeaders
SPECIFICATION SegmentSpec
INVARIANTS
  TypeOK
  TablesOwned
  RelocationsRead
  CauseReported
  MappedAsDeclared
