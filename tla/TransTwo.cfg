SPECIFICATION Spec
CONSTANTS
  na = na
  nb = nb
  p1 = p1
  p2 = p2
  f1 = f1
  f2 = f2
  ca = ca
  cb = cb
  caNew = caNew
  cbDep = cbDep
  cSyntax = cSyntax
  cNoPrefix = cNoPrefix
  cNoDesc = cNoDesc
  NoProc = NoProc
  NoString = NoString
  StrtabHeader = StrtabHeader
  NoLink = NoLink
  Names = {na, nb}
  Files = {f1, f2}
  Procs = {p1, p2}
  Crashable = {}
  Faulty = {}
  Confs = {ca, caNew, cb}
  Pkg <- Pkgs
  MaxRuns = 3
INVARIANTS
  DistinctIds
CHECK_DEADLOCK FALSE
