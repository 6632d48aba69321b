SPECIFICATION FairSpec
CONSTANTS
  na = na
  nb = nb
  p1 = p1
  p2 = p2
  f1 = f1
  f2 = f2
  ca = ca
  cb = cb
  caNew = caNew
  cbDep = cbDep
  cSyntax = cSyntax
  cNoPrefix = cNoPrefix
  cNoDesc = cNoDesc
  NoProc = NoProc
  NoString = NoString
  StrtabHeader = StrtabHeader
  NoLink = NoLink
  Names = {na, nb}
  Files = {f1, f2}
  Procs = {p1, p2}
  Crashable = {p1}
  Faulty = {p2}
  Confs = {ca, cb, caNew, cSyntax, cNoPrefix, cNoDesc}
  Pkg <- Pkgs
  MaxRuns = 3
INVARIANTS
  TypeOK
  FoundIsIndexed
  OutcomeIsTrue
PROPERTIES
  IndexUnderLock
  CommandsEnd
CHECK_DEADLOCK FALSE
