SPECIFICATION FairSpec
CONSTANTS
  a = a
  b = b
  c = c
  l1 = l1
  l2 = l2
  idx = idx
  NoId = NoId
  Header = Header
  Nowhere = Nowhere
  NoWord = NoWord
  NoPath = NoPath
  Ids = {a, b, c}
  Locations = {l1, l2}
  Paths = {l1, l2, idx}
  Packages <- MCPackages
  MaxDeps = 2
  MaxSlots <- MCMaxSlots
  MaxRemoves = 1
  Fragile = {l1}
  Words <- MCWords
  Dashed <- MCDashed
  ConfOptions = {"-c"}
  BareDashes = {"-"}
  DefaultConf = "one"
  ConfFiles <- MCConfFiles
  Values <- MCValues
  PkgFiles = {"pkg", "pkgb"}
  Described <- MCDescribed
  Commands <- MCCommands
  FirstLines <- MCFirstLines
  MaxRuns = 2
INVARIANTS
  TypeOK
  LookupIsRight
  FoundAsAdded
  ErrorIsTrue
  ConfIsOfFile
  ParserMeetsGrammar
  ResultIsTrue
PROPERTIES
  CallsEnd
