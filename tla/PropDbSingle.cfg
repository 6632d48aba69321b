SPECIFICATION Spec
CONSTANTS
  na = na
  nb = nb
  nc = nc
  p1 = p1
  p2 = p2
  NoProc = NoProc
  NoString = NoString
  StrtabHeader = StrtabHeader
  Procs = {p1}
  Initers = {}
  Removers = {}
  Crashable = {}
  Faulty = {}
  Props <- TypedProps
  Names = {na, nb, nc}
  W = 2
  MaxSlots = 3
  MaxStrs = 3
  MaxProps = 3
  MaxRemoves = 0
INVARIANTS
  CommittedIsFound
  CountsAgree
PROPERTIES
  ImplementsStore
