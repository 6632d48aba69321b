SPECIFICATION Spec
CONSTANTS
  na = na
  nb = nb
  nc = nc
  p1 = p1
  p2 = p2
  NoProc = NoProc
  NoString = NoString
  StrtabHeader = StrtabHeader
  Procs = {p1, p2}
  Initers = {}
  Removers = {p1}
  Crashable = {}
  Faulty = {}
  Props <- TypedProps
  Names = {na, nb}
  W = 5
  MaxSlots = 4
  MaxStrs = 5
  MaxProps = 5
  MaxRemoves = 2
INVARIANTS
  FoundWasCommitted
  NeverHidden
  StringIndexInBounds
  OwnStrings
PROPERTIES
  SessionIsolation
