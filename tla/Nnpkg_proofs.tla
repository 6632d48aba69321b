---------------------------- MODULE Nnpkg_proofs ----------------------------
(***************************************************************************)
(* Proofs about the programs that use libnnpkg (Nnpkg): for any packages,  *)
(* databases, configuration files and command lines, and any order of      *)
(* programs.  Every step of a program is a step of the package databases,  *)
(* of the command line or of the main configuration, whose invariants are  *)
(* those of the modules extended here; what is added is how the three      *)
(* belong together at each place of a program.                             *)
(***************************************************************************)
EXTENDS Nnpkg, CommandLine_proofs, MainConf_proofs, PkgDb_proofs

ProgTypeOK ==
  /\ program \in {"none", "nnpkg", "client", "transactions"}
  /\ at \in {"none", "line", "client", "idle", "init", "create", "creating", "conf",
             "open", "read", "add", "close", "closing", "destroy", "done"}
  /\ result \in BOOLEAN /\ lost \in BOOLEAN
  /\ runs \in 0 .. MaxRuns
  /\ before \in [Locations -> File]

(* A path of the main configuration that is not freed is a database's.     *)
PathInv == DbPath.live => DbPath.path \in Locations

(* Where a program can be.                                                 *)
ForInit  == program = "nnpkg" /\ parsed = "ok" /\ argv # <<>> /\ argv[1] = "init"
ForAdd   == program = "nnpkg" /\ parsed = "ok" /\ argv # <<>> /\ IsAdd
Opened   == {"read", "add", "close"}
InAction == {"conf", "open"} \cup Opened

ControlInv ==
  /\ program = "none" => CliInit /\ proc = "gone" /\ at = "none"
  /\ program # "nnpkg" => parsed = "none"
  /\ at = "none" => program = "none"
  /\ at = "line" => program = "nnpkg"
  /\ at = "client" => program = "client"
  /\ at = "idle" => program = "transactions"
  /\ at \in {"init", "create", "creating"} => ForInit
  /\ at \in InAction \cup {"closing"} => ForAdd \/ program = "transactions"
  /\ at = "add" => pkgPath \in PkgFiles
  /\ at \notin {"close", "closing", "destroy", "done"} => ~result

(* What the structure of the configuration holds is of the file.           *)
IsParsed == parse.ok /\ confFile \in ConfFiles /\ parse.vals = Values[confFile]

FileInv ==
  /\ \/ program = "none"
     \/ program = "nnpkg" /\ at \in {"line", "init", "conf"}
     => ConfInit
  /\ at = "create" /\ cbConf => IsParsed /\ parse.first
  /\ at \in {"open", "closing"} \cup Opened => IsParsed /\ (program = "nnpkg" => parse.first)

(* The one database that a transaction opens, and the one it leaves open   *)
(* when it fails without cleanup.                                          *)
Own == [loc |-> DbPath.path, type |-> "DEST",
        toAdd |-> IF result THEN <<Described[pkgPath]>> ELSE <<>>,
        toRm |-> <<>>, free |-> files[DbPath.path].free,
        num |-> files[DbPath.path].count, end |-> Len(files[DbPath.path].props),
        stored |-> {}]

(* While it is closed, its package is still to be written, or written, or  *)
(* lost.                                                                   *)
Unwritten == files = before /\ pkgDbs = <<Own>>
IsWritten(db) ==
  /\ pkgDbs = <<db>> /\ db.loc = DbPath.path /\ db.type = "DEST"
  /\ result /\ db.toAdd = <<>> /\ db.toRm = <<>> /\ OnlyAt(db.loc)
  /\ \/ /\ Described[pkgPath] \in db.stored
        /\ db.loc \in torn \/ NoneOf(before[db.loc], Described[pkgPath].id)
     \/ lost /\ files[db.loc].props = before[db.loc].props /\ db.stored = {}

OwnInv ==
  /\ program \in {"nnpkg", "transactions"} => \A k \in DOMAIN pkgDbs : pkgDbs[k].type = "DEST"
  /\ at \in Opened => pkgDbs = <<Own>>
  /\ at = "closing" => Unwritten \/ \E k \in DOMAIN pkgDbs : IsWritten(pkgDbs[k])

(* No database has changed before the one that was open is written, or     *)
(* init makes one; from then on the result is true.                        *)
Outcome ==
  \/ ~result /\ files = before
  \/ /\ ~result /\ program = "nnpkg" /\ argv # <<>>
     /\ argv[1] = "init" /\ BegunAt(Configured(ConfGiven))
  \/ /\ result /\ program = "nnpkg" /\ argv # <<>>
     /\ \/ argv[1] = "init" /\ MadeAt(Configured(ConfGiven))
        \/ /\ IsAdd
           /\ AddedTo(Configured(ConfGiven)) \/ LostAt(Configured(ConfGiven))
        \/ argv[1] \notin {"init", "add"} /\ files = before
  \/ /\ result /\ program = "transactions"
     /\ \E l \in Locations :
          /\ AddedTo(l) \/ LostAt(l)
          /\ Names(confFile) # {} => l = Configured(confFile)

OutcomeInv ==
  /\ at \in {"line", "init", "create"} \cup InAction => files = before
  /\ at = "creating" =>
       /\ creating \in Locations /\ creating = Configured(ConfGiven) /\ BegunAt(creating)
  /\ at \in {"destroy", "done"} => Outcome /\ program \in {"nnpkg", "transactions"}

ProgInv == ProgTypeOK /\ ControlInv /\ FileInv /\ OwnInv /\ OutcomeInv

NnpkgInv == DbInv /\ ParserInv /\ ConfInv /\ PathInv /\ ProgInv
-----------------------------------------------------------------------------
LEMMA NnpkgFacts ==
  /\ PkgFiles \subseteq Words /\ Described \in [PkgFiles -> Packages]
  /\ Commands \subseteq Seq(Words) /\ FirstLines \subseteq Seq(Words)
  /\ ConfFiles \subseteq Words /\ Locations \subseteq Paths
  /\ MaxRuns \in Nat
  /\ \A f \in ConfFiles : \A k \in DOMAIN Values[f] :
       Values[f][k].field = "dbPath" => Values[f][k].path \in Locations
  /\ Values \in [ConfFiles -> Seq(Value)] /\ NoPath \notin Locations
BY NnpkgAssumption, MainConfAssumption DEF NnpkgAssumption, MainConfAssumption

LEMMA SameDbs == DbInv /\ SameDb => DbInv'
BY StutterInv DEF SameDb

LEMMA SameCli == ParserInv /\ UNCHANGED cliVars => ParserInv'
<1> SUFFICES ASSUME ParserInv, UNCHANGED cliVars PROVE ParserInv'
  OBVIOUS
<1>1. /\ argv' = argv /\ i' = i /\ confFile' = confFile /\ pkgPath' = pkgPath
      /\ parsed' = parsed
  BY DEF cliVars
<1>2. /\ IsAdd' = IsAdd /\ (\A k : IsOption(k)' = IsOption(k)) /\ (\A k : IsArg(k)' = IsArg(k))
      /\ \A ks, d : LastAt(ks, d)' = LastAt(ks, d)
  BY <1>1 DEF IsAdd, IsOption, IsArg, LastAt
<1>3. ReadSoFar' = ReadSoFar
  BY <1>1, <1>2 DEF ReadSoFar, WordOK, ConfAt, PkgAt
<1>4. ParserMeetsGrammar' = ParserMeetsGrammar
  BY <1>1, <1>2 DEF ParserMeetsGrammar, Accepted, Positions, ConfGiven, PkgGiven
<1> QED  BY <1>1, <1>3, <1>4 DEF ParserInv, CliTypeOK

LEMMA SameConf == ConfInv /\ PathInv /\ UNCHANGED confVars => ConfInv' /\ PathInv'
BY DEF confVars, ConfInv, ConfTypeOK, ConfIsOfFile, Given, PathInv, DbPath

LEMMA ForgetInv ==
  Forget => /\ ParserInv' /\ ConfInv' /\ PathInv'
            /\ CliInit' /\ ConfInit'
<1>1. ConfClear => PathInv'
  BY DEF ConfClear, PathInv, DbPath, Null, Fields
<1> QED  BY <1>1, CliClearInv, ConfClearInv DEF Forget

(* While the process that runs is gone, so is the program.                 *)
LEMMA DiesAndForgets == NnpkgInv /\ Dies /\ Forget => NnpkgInv'
<1> SUFFICES ASSUME NnpkgInv, Dies, Forget PROVE NnpkgInv'
  OBVIOUS
<1>1. DbInv' /\ ParserInv' /\ ConfInv' /\ PathInv' /\ CliInit' /\ ConfInit'
  BY DiesInv, ForgetInv DEF NnpkgInv
<1>2. /\ program' = "none" /\ at' = "none" /\ result' = FALSE /\ lost' = FALSE /\ runs' = 0
      /\ before' = [l \in Locations |-> NoFile] /\ proc' = "gone" /\ pkgDbs' = <<>>
      /\ parsed' = "none"
  BY DEF Forget, Dies, Leave, CliClear
<1>3. NoFile \in File
  BY DEF NoFile, File, Stages
<1>4. ProgTypeOK'
  <2>1. before' \in [Locations -> File]
    BY <1>2, <1>3
  <2>2. 0 \in 0 .. MaxRuns
    BY NnpkgFacts
  <2> QED  BY <1>2, <2>1, <2>2 DEF ProgTypeOK
<1>5. ControlInv' /\ FileInv' /\ OwnInv' /\ OutcomeInv'
  BY <1>1, <1>2 DEF ControlInv, FileInv, OwnInv, OutcomeInv, Opened, InAction
<1> QED  BY <1>1, <1>4, <1>5 DEF NnpkgInv, ProgInv

LEMMA InitInv == Init => NnpkgInv
<1> SUFFICES ASSUME Init PROVE NnpkgInv
  OBVIOUS
<1>1. DbInv /\ ParserInv /\ ConfInv
  BY DbInitInv, CliInitInv, ConfInitInv DEF Init
<1>2. PathInv
  BY DEF Init, ConfInit, PathInv, DbPath, Null, Fields
<1>3. /\ program = "none" /\ at = "none" /\ result = FALSE /\ lost = FALSE /\ runs = 0
      /\ before = files
      /\ CliInit /\ ConfInit /\ proc = "gone" /\ pkgDbs = <<>> /\ parsed = "none"
  BY DEF Init, DbInit, CliInit
<1>4. ProgTypeOK
  <2>1. before \in [Locations -> File]
    BY <1>1, <1>3 DEF DbInv, DbTypeOK
  <2>2. 0 \in 0 .. MaxRuns
    BY NnpkgFacts
  <2> QED  BY <1>3, <2>1, <2>2 DEF ProgTypeOK
<1>5. ControlInv /\ FileInv /\ OwnInv /\ OutcomeInv
  BY <1>3 DEF ControlInv, FileInv, OwnInv, OutcomeInv, Opened, InAction
<1> QED  BY <1>1, <1>2, <1>4, <1>5 DEF NnpkgInv, ProgInv

-----------------------------------------------------------------------------
(* Processes.                                                              *)

LEMMA BeginDbInv == DbInv /\ BeginDb => DbInv' /\ files' = files /\ proc = "gone" /\ pkgDbs' = <<>>
<1>1. DbInv /\ BeginDb => DbInv'
  BY BeginInv DEF BeginDb, BeginProcess
<1> QED  BY <1>1 DEF BeginDb, Begin, SameButProc, DbInv, ProcInv

LEMMA StartCommandInv == NnpkgInv /\ StartCommand => NnpkgInv'
<1> SUFFICES ASSUME NnpkgInv, StartCommand PROVE NnpkgInv'
  OBVIOUS
<1>1. /\ program = "none" /\ BeginDb /\ program' = "nnpkg" /\ at' = "line" /\ before' = files
      /\ UNCHANGED <<confVars, result, lost, runs>>
  BY DEF StartCommand
<1>2. DbInv' /\ files' = files /\ pkgDbs' = <<>>
  BY <1>1, BeginDbInv DEF NnpkgInv
<1>3. CliInit /\ ConfInit /\ ~result
  BY <1>1 DEF NnpkgInv, ProgInv, ControlInv, FileInv, ProgTypeOK
<1>4. ParserInv'
  <2>1. PICK words \in Commands \cup FirstLines : CliStart(words)
    BY DEF StartCommand
  <2> QED  BY <1>3, <2>1, CliStartInv, NnpkgFacts
<1>5. ConfInv' /\ PathInv' /\ ConfInit'
  BY <1>1, <1>3, SameConf DEF NnpkgInv, ConfInit, confVars
<1>6. ProgTypeOK'
  <2>1. before' \in [Locations -> File]
    BY <1>1 DEF NnpkgInv, DbInv, DbTypeOK
  <2> QED  BY <1>1, <2>1 DEF NnpkgInv, ProgInv, ProgTypeOK
<1>7. ControlInv' /\ FileInv' /\ OwnInv' /\ OutcomeInv'
  BY <1>1, <1>2, <1>3, <1>5 DEF ControlInv, FileInv, OwnInv, OutcomeInv, Opened, InAction
<1> QED  BY <1>2, <1>4, <1>5, <1>6, <1>7 DEF NnpkgInv, ProgInv

LEMMA StartClientInv == NnpkgInv /\ StartClient => NnpkgInv'
<1> SUFFICES ASSUME NnpkgInv, StartClient PROVE NnpkgInv'
  OBVIOUS
<1>1. /\ program = "none" /\ BeginDb /\ program' = "client" /\ at' = "client"
      /\ UNCHANGED <<cliVars, confVars, result, lost, runs, before>>
  BY DEF StartClient
<1>2. DbInv' /\ ParserInv' /\ ConfInv' /\ PathInv'
  BY <1>1, BeginDbInv, SameCli, SameConf DEF NnpkgInv
<1>3. parsed' = "none" /\ ~result /\ result' = result
  BY <1>1 DEF NnpkgInv, ProgInv, ControlInv, CliInit, cliVars, ProgTypeOK
<1>4. ProgTypeOK'
  BY <1>1 DEF NnpkgInv, ProgInv, ProgTypeOK
<1>5. ControlInv' /\ FileInv' /\ OwnInv' /\ OutcomeInv'
  BY <1>1, <1>3 DEF ControlInv, FileInv, OwnInv, OutcomeInv, Opened, InAction
<1> QED  BY <1>2, <1>4, <1>5 DEF NnpkgInv, ProgInv

LEMMA StartTransactionsInv == NnpkgInv /\ StartTransactions => NnpkgInv'
<1> SUFFICES ASSUME NnpkgInv, StartTransactions PROVE NnpkgInv'
  OBVIOUS
<1>1. /\ program = "none" /\ BeginDb /\ program' = "transactions" /\ at' = "idle"
      /\ UNCHANGED <<cliVars, confVars, result, lost, runs, before>>
  BY DEF StartTransactions
<1>2. DbInv' /\ ParserInv' /\ ConfInv' /\ PathInv' /\ pkgDbs' = <<>>
  BY <1>1, BeginDbInv, SameCli, SameConf DEF NnpkgInv
<1>3. parsed' = "none" /\ ~result /\ result' = result
  BY <1>1 DEF NnpkgInv, ProgInv, ControlInv, CliInit, cliVars, ProgTypeOK
<1>4. ProgTypeOK'
  BY <1>1 DEF NnpkgInv, ProgInv, ProgTypeOK
<1>5. ControlInv' /\ FileInv' /\ OwnInv' /\ OutcomeInv'
  BY <1>1, <1>2, <1>3 DEF ControlInv, FileInv, OwnInv, OutcomeInv, Opened, InAction
<1> QED  BY <1>2, <1>4, <1>5 DEF NnpkgInv, ProgInv

(* A process that calls the package databases. *)
LEMMA ClientInv == NnpkgInv /\ (ClientCalls \/ ClientWorks) => NnpkgInv'
<1> SUFFICES ASSUME NnpkgInv, ClientCalls \/ ClientWorks PROVE NnpkgInv'
  OBVIOUS
<1>1. at = "client" /\ ClientLives /\ DbInv'
  BY CallInv, StepInv DEF NnpkgInv, ClientCalls, ClientWorks
<1>2. program = "client" /\ ~result
  BY <1>1 DEF NnpkgInv, ProgInv, ControlInv
<1>3. CASE proc' = "gone"
  <2>1. Forget
    BY <1>1, <1>3 DEF ClientLives
  <2>2. ParserInv' /\ ConfInv' /\ PathInv' /\ CliInit' /\ ConfInit'
    BY <2>1, ForgetInv
  <2>3. /\ program' = "none" /\ at' = "none" /\ result' = FALSE /\ lost' = FALSE /\ runs' = 0
        /\ before' = [l \in Locations |-> NoFile] /\ parsed' = "none"
    BY <2>1 DEF Forget, CliClear
  <2>4. NoFile \in File
    BY DEF NoFile, File, Stages
  <2>5. ProgTypeOK'
    <3>1. before' \in [Locations -> File]
      BY <2>3, <2>4
    <3>2. 0 \in 0 .. MaxRuns
      BY NnpkgFacts
    <3> QED  BY <2>3, <3>1, <3>2 DEF ProgTypeOK
  <2>6. ControlInv' /\ FileInv' /\ OwnInv' /\ OutcomeInv'
    BY <1>3, <2>2, <2>3 DEF ControlInv, FileInv, OwnInv, OutcomeInv, Opened, InAction
  <2> QED  BY <1>1, <2>2, <2>5, <2>6 DEF NnpkgInv, ProgInv
<1>4. CASE proc' # "gone"
  <2>1. UNCHANGED <<cliVars, confVars, progVars>>
    BY <1>1, <1>4 DEF ClientLives
  <2>2. ParserInv' /\ ConfInv' /\ PathInv'
    BY <2>1, SameCli, SameConf DEF NnpkgInv
  <2>3. /\ at' = "client" /\ program' = "client" /\ result' = result /\ lost' = lost
        /\ runs' = runs /\ before' = before /\ parsed' = parsed
    BY <1>1, <1>2, <2>1 DEF progVars, cliVars
  <2>4. ProgTypeOK'
    BY <2>3 DEF NnpkgInv, ProgInv, ProgTypeOK
  <2>5. parsed = "none"
    BY <1>2 DEF NnpkgInv, ProgInv, ControlInv
  <2>6. ControlInv' /\ FileInv' /\ OwnInv' /\ OutcomeInv'
    BY <1>2, <2>3, <2>5 DEF ControlInv, FileInv, OwnInv, OutcomeInv, Opened, InAction
  <2> QED  BY <1>1, <2>2, <2>4, <2>6 DEF NnpkgInv, ProgInv
<1> QED  BY <1>3, <1>4

(* An action or a transaction that fails before it has changed anything.   *)
LEMMA FailsUnchanged ==
  ASSUME NnpkgInv, Return(FALSE), program \in {"nnpkg", "transactions"}, files = before,
         DbInv', ParserInv', ConfInv', PathInv', files' = files,
         program # "nnpkg" => parsed' = "none",
         \A k \in DOMAIN pkgDbs' : pkgDbs'[k].type = "DEST"
  PROVE  NnpkgInv'
<1>1. at' = "done" /\ result' = FALSE /\ UNCHANGED <<program, lost, runs, before>>
  BY DEF Return, Decides
<1>2. ProgTypeOK'
  BY <1>1 DEF NnpkgInv, ProgInv, ProgTypeOK
<1>3. Outcome'
  BY <1>1 DEF Outcome
<1>4. ControlInv' /\ FileInv' /\ OwnInv' /\ OutcomeInv'
  BY <1>1, <1>3 DEF ControlInv, FileInv, OwnInv, OutcomeInv, Opened, InAction
<1> QED  BY <1>2, <1>4 DEF NnpkgInv, ProgInv

-----------------------------------------------------------------------------
(* main and the action init.                                               *)

(* How the parser ends. *)
LEMMA ParseFacts ==
  ASSUME ParserInv, Parse
  PROVE  /\ argv' = argv
         /\ parsed' = "ok" => argv # <<>> /\ argv[1] \in {"init", "add"}
         /\ parsed' = "helped" => argv # <<>> /\ argv[1] \in {"help", "version"}
<1>1. ParseAction =>
        /\ argv' = argv /\ parsed' # "ok"
        /\ parsed' = "helped" => argv # <<>> /\ argv[1] \in {"help", "version"}
  BY WordFacts DEF ParseAction
<1>2. (ParseConf \/ ParseBareDash \/ ParsePlain \/ ParseUnrecognized)
        => argv' = argv /\ parsed' \in {"options", "failed"}
  BY DEF ParseConf, ParseBareDash, ParsePlain, ParseUnrecognized, Fails, InOptions
<1>3. ParseEnds => argv' = argv /\ parsed' = "ok" /\ argv # <<>> /\ argv[1] \in {"init", "add"}
  BY DEF ParseEnds, ParserInv, ReadSoFar
<1> QED  BY <1>1, <1>2, <1>3 DEF Parse

LEMMA ParseLineInv == NnpkgInv /\ ParseLine => NnpkgInv'
<1> SUFFICES ASSUME NnpkgInv, ParseLine PROVE NnpkgInv'
  OBVIOUS
<1>1. at = "line" /\ Parse /\ UNCHANGED confVars /\ SameDb
  BY DEF ParseLine
<1>2. DbInv' /\ ParserInv' /\ ConfInv' /\ PathInv'
  BY <1>1, SameDbs, ParseInv, SameConf DEF NnpkgInv
<1>3. /\ program = "nnpkg" /\ ~result /\ ConfInit /\ files = before
      /\ \A k \in DOMAIN pkgDbs : pkgDbs[k].type = "DEST"
  BY <1>1 DEF NnpkgInv, ProgInv, ControlInv, FileInv, OwnInv, OutcomeInv, ProgTypeOK
<1>4. ConfInit' /\ files' = files /\ pkgDbs' = pkgDbs
  BY <1>1, <1>3 DEF confVars, ConfInit, SameDb, dbVars
<1>5. /\ argv' = argv /\ IsAdd' = IsAdd
      /\ parsed' = "ok" => argv # <<>> /\ argv[1] \in {"init", "add"}
      /\ parsed' = "helped" => argv # <<>> /\ argv[1] \in {"help", "version"}
  BY <1>1, ParseFacts DEF NnpkgInv, IsAdd
<1>6. CASE parsed' = "failed" /\ Return(FALSE)
  BY <1>2, <1>3, <1>4, <1>6, FailsUnchanged
<1>7. CASE parsed' = "helped" /\ Return(TRUE)
  <2>1. at' = "done" /\ result' = TRUE /\ UNCHANGED <<program, lost, runs, before>>
    BY <1>7 DEF Return, Decides
  <2>2. ProgTypeOK'
    BY <2>1 DEF NnpkgInv, ProgInv, ProgTypeOK
  <2>3. Outcome'
    BY <1>3, <1>4, <1>5, <1>7, <2>1 DEF Outcome
  <2>4. ControlInv' /\ FileInv' /\ OwnInv' /\ OutcomeInv'
    BY <1>3, <1>4, <2>1, <2>3 DEF ControlInv, FileInv, OwnInv, OutcomeInv, Opened, InAction
  <2> QED  BY <1>2, <2>2, <2>4 DEF NnpkgInv, ProgInv
<1>8. CASE parsed' = "ok" /\ argv[1] = "init" /\ Goto("init")
  <2>1. at' = "init" /\ UNCHANGED <<program, result, lost, runs, before>>
    BY <1>8 DEF Goto
  <2>2. ProgTypeOK'
    BY <2>1 DEF NnpkgInv, ProgInv, ProgTypeOK
  <2>3. ForInit'
    BY <1>3, <1>5, <1>8, <2>1 DEF ForInit
  <2>4. ControlInv' /\ FileInv' /\ OwnInv' /\ OutcomeInv'
    BY <1>3, <1>4, <2>1, <2>3 DEF ControlInv, FileInv, OwnInv, OutcomeInv, Opened, InAction
  <2> QED  BY <1>2, <2>2, <2>4 DEF NnpkgInv, ProgInv
<1>9. CASE parsed' = "ok" /\ IsAdd /\ Goto("conf")
  <2>1. at' = "conf" /\ UNCHANGED <<program, result, lost, runs, before>>
    BY <1>9 DEF Goto
  <2>2. ProgTypeOK'
    BY <2>1 DEF NnpkgInv, ProgInv, ProgTypeOK
  <2>3. ForAdd'
    BY <1>3, <1>5, <1>9, <2>1 DEF ForAdd
  <2>4. ControlInv' /\ FileInv' /\ OwnInv' /\ OutcomeInv'
    BY <1>3, <1>4, <2>1, <2>3 DEF ControlInv, FileInv, OwnInv, OutcomeInv, Opened, InAction
  <2> QED  BY <1>2, <2>2, <2>4 DEF NnpkgInv, ProgInv
<1>10. CASE Return(FALSE)
  BY <1>2, <1>3, <1>4, <1>10, FailsUnchanged
<1>11. CASE UNCHANGED progVars
  <2>1. at' = "line" /\ UNCHANGED <<program, result, lost, runs, before>>
    BY <1>1, <1>11 DEF progVars
  <2>2. ProgTypeOK'
    BY <2>1 DEF NnpkgInv, ProgInv, ProgTypeOK
  <2>3. ControlInv' /\ FileInv' /\ OwnInv' /\ OutcomeInv'
    BY <1>3, <1>4, <2>1 DEF ControlInv, FileInv, OwnInv, OutcomeInv, Opened, InAction
  <2> QED  BY <1>2, <2>2, <2>3 DEF NnpkgInv, ProgInv
<1> QED
  <2>1. CASE parsed' = "failed"
    BY <1>6, <2>1 DEF ParseLine
  <2>2. CASE parsed' = "helped"
    BY <1>7, <2>2 DEF ParseLine
  <2>3. CASE parsed' = "ok" /\ argv[1] = "init"
    BY <1>8, <2>3 DEF ParseLine, IsAdd
  <2>4. CASE parsed' = "ok" /\ IsAdd /\ pkgPath # NoWord
    BY <1>9, <2>4 DEF ParseLine, IsAdd
  <2>5. CASE parsed' = "ok" /\ IsAdd /\ pkgPath = NoWord
    BY <1>10, <2>5 DEF ParseLine, IsAdd
  <2>6. CASE parsed' \notin {"failed", "helped", "ok"}
    BY <1>11, <2>6 DEF ParseLine
  <2> QED  BY <1>5, <2>1, <2>2, <2>3, <2>4, <2>5, <2>6 DEF IsAdd

(* What a parse of a file leaves behind.                                   *)
LEMMA ParsedFacts ==
  ASSUME ConfInv, NEW file, ParseMainConf(file)
  PROVE  /\ cbConf' = (cbConf \/ parse'.ok)
         /\ parse'.ok => file \in ConfFiles /\ parse'.vals = Values[file]
         /\ ConfInit => parse'.first
BY DEF ParseMainConf, ConfInit

LEMMA ParsedPath ==
  ASSUME ConfInv, PathInv, NEW file, ParseMainConf(file)
  PROVE  PathInv'
<1> DEFINE vals == IF file \in ConfFiles THEN Values[file] ELSE <<>>
           Right(s) == /\ s \in State
                       /\ s.conf["dbPath"].live => s.conf["dbPath"].path \in Locations
           S == {n \in Nat : n <= Len(vals) => Right(After(vals)[n])}
<1>1. /\ vals \in Seq(Value) /\ Len(vals) \in Nat
      /\ \A k \in 1 .. Len(vals) : vals[k].field = "dbPath" => vals[k].path \in Locations
  BY NnpkgFacts
<1>2. conf' = After(vals)[Len(vals)].conf
  BY DEF ParseMainConf
<1> HIDE DEF vals
<1>3. Right(After(vals)[0])
  <2>1. After(vals)[0] = [conf |-> conf, ok |-> TRUE]
    BY <1>1, AfterExists
  <2>2. conf \in [Fields -> Field]
    BY DEF ConfInv, ConfTypeOK
  <2> QED  BY <2>1, <2>2 DEF State, PathInv, DbPath
<1>4. ASSUME NEW s \in State, Right(s), NEW v \in Value,
             v.field = "dbPath" => v.path \in Locations
      PROVE  Right(Apply(s, v))
  <2>1. Apply(s, v) \in State
    BY ApplyType
  <2>2. CASE ~s.ok \/ v.field = "refused"
    BY <1>4, <2>1, <2>2 DEF Apply, State
  <2>3. CASE ~(~s.ok \/ v.field = "refused")
    <3>1. /\ s.conf \in [Fields -> Field] /\ v.field \in Fields /\ "dbPath" \in Fields
      BY <2>3 DEF State, Value, Fields
    <3>2. Apply(s, v).conf = [s.conf EXCEPT ![v.field] = [path |-> v.path, live |-> TRUE]]
      BY <2>3, <3>1 DEF Apply, State
    <3>3. Apply(s, v).conf["dbPath"] = IF v.field = "dbPath" THEN [path |-> v.path, live |-> TRUE]
                                                           ELSE s.conf["dbPath"]
      BY <3>1, <3>2
    <3> QED  BY <1>4, <2>1, <3>3
  <2> QED  BY <2>2, <2>3
<1>5. ASSUME NEW n \in S
      PROVE  n + 1 \in S
  <2> HIDE DEF Right
  <2>1. CASE n + 1 <= Len(vals)
    <3>1. n + 1 \in 1 .. Len(vals) /\ (n + 1) - 1 = n /\ n <= Len(vals)
      BY <1>1, <2>1
    <3>2. After(vals)[n + 1] = Apply(After(vals)[n], vals[n + 1])
      BY <1>1, <3>1, AfterExists
    <3>3. vals[n + 1] \in Value /\ (vals[n + 1].field = "dbPath" => vals[n + 1].path \in Locations)
      BY <1>1, <3>1
    <3>4. Right(After(vals)[n]) /\ After(vals)[n] \in State
      BY <3>1 DEF Right
    <3> QED  BY <1>4, <3>2, <3>3, <3>4
  <2>2. CASE ~(n + 1 <= Len(vals))
    BY <2>2
  <2> QED  BY <2>1, <2>2
<1>6. S = Nat
  <2>1. S \in SUBSET Nat /\ 0 \in S
    BY <1>3
  <2> HIDE DEF S
  <2> QED  BY <1>5, <2>1, InductionOnSets
<1>7. Right(After(vals)[Len(vals)])
  <2> HIDE DEF Right
  <2> QED  BY <1>1, <1>6
<1> QED  BY <1>2, <1>7 DEF PathInv, DbPath

(* The path of the structure is the one that the file names last, if it    *)
(* names one, as it does if it is the first of the process.                *)
LEMMA ConfiguredPath ==
  ASSUME ConfInv, PathInv, IsParsed
  PROVE  /\ parse.first => Names(confFile) # {}
         /\ Names(confFile) # {} => /\ DbPath.live /\ DbPath.path \in Locations
                                    /\ Configured(confFile) = DbPath.path
<1>1. Names(confFile) = Given("dbPath") /\ "dbPath" \in Fields /\ parse.vals = Values[confFile]
  BY DEF IsParsed, Names, Given, Fields
<1>2. \/ Given("dbPath") = {} /\ ~parse.first
      \/ \E k \in Given("dbPath") :
           /\ \A j \in Given("dbPath") : j <= k
           /\ DbPath = [path |-> parse.vals[k].path, live |-> TRUE]
  BY <1>1 DEF ConfInv, ConfIsOfFile, IsParsed, DbPath
<1>3. ASSUME Given("dbPath") # {}
      PROVE  /\ DbPath.live /\ DbPath.path \in Locations
             /\ Configured(confFile) = DbPath.path
  <2>1. PICK k \in Given("dbPath") :
               /\ \A j \in Given("dbPath") : j <= k
               /\ DbPath = [path |-> parse.vals[k].path, live |-> TRUE]
    BY <1>2, <1>3
  <2> DEFINE IsLast(x) == \A j \in Given("dbPath") : j <= x
             last      == CHOOSE x \in Given("dbPath") : IsLast(x)
  <2>2. Given("dbPath") \subseteq Nat
    BY NnpkgFacts DEF Given, IsParsed
  <2>3. last \in Given("dbPath") /\ IsLast(last)
    <3>1. IsLast(k)
      BY <2>1
    <3> HIDE DEF IsLast
    <3> QED  BY <2>1, <3>1
  <2>4. last = k
    <3>1. last <= k /\ k <= last
      BY <2>1, <2>3
    <3>2. last \in Nat /\ k \in Nat
      BY <2>1, <2>2, <2>3
    <3> HIDE DEF last
    <3> QED  BY <3>1, <3>2
  <2>5. Configured(confFile) = parse.vals[last].path
    BY <1>1, Zenon DEF Configured
  <2>6. DbPath.live /\ DbPath.path = parse.vals[k].path
    BY <2>1
  <2> HIDE DEF last
  <2> QED  BY <2>4, <2>5, <2>6 DEF PathInv
<1> QED  BY <1>1, <1>2, <1>3

LEMMA InitConfInv == NnpkgInv /\ InitConf => NnpkgInv'
<1> SUFFICES ASSUME NnpkgInv, InitConf PROVE NnpkgInv'
  OBVIOUS
<1>1. /\ at = "init" /\ ParseMainConf(confFile) /\ at' = "create"
      /\ UNCHANGED <<program, result, lost, runs, before>> /\ UNCHANGED cliVars /\ SameDb
  BY DEF InitConf, Goto
<1>2. DbInv' /\ ParserInv' /\ ConfInv' /\ PathInv'
  BY <1>1, SameDbs, SameCli, ParseMainConfInv, ParsedPath DEF NnpkgInv
<1>3. /\ program = "nnpkg" /\ ForInit /\ ~result /\ ConfInit /\ files = before
      /\ \A k \in DOMAIN pkgDbs : pkgDbs[k].type = "DEST"
  BY <1>1 DEF NnpkgInv, ProgInv, ControlInv, FileInv, OwnInv, OutcomeInv, ProgTypeOK, ForInit
<1>4. /\ files' = files /\ pkgDbs' = pkgDbs /\ confFile' = confFile
  BY <1>1 DEF SameDb, dbVars, cliVars
<1>5. ForInit'
  BY <1>1, <1>3 DEF ForInit, cliVars
<1>6. cbConf' => IsParsed' /\ parse'.first
  <2>1. ~cbConf
    BY <1>3 DEF ConfInit
  <2> QED  BY <1>1, <1>3, <1>4, <2>1, ParsedFacts DEF NnpkgInv, IsParsed
<1>7. ProgTypeOK'
  BY <1>1 DEF NnpkgInv, ProgInv, ProgTypeOK
<1>8. ControlInv' /\ FileInv' /\ OwnInv' /\ OutcomeInv'
  BY <1>1, <1>3, <1>4, <1>5, <1>6 DEF ControlInv, FileInv, OwnInv, OutcomeInv, Opened, InAction
<1> QED  BY <1>2, <1>7, <1>8 DEF NnpkgInv, ProgInv

(* The line, and with it the place the configuration names, stay.          *)
LEMMA SameLine ==
  ASSUME UNCHANGED cliVars
  PROVE  /\ argv' = argv /\ confFile' = confFile /\ pkgPath' = pkgPath /\ parsed' = parsed
         /\ IsAdd' = IsAdd /\ ConfGiven' = ConfGiven
         /\ Configured(ConfGiven)' = Configured(ConfGiven)
         /\ Configured(confFile)' = Configured(confFile) /\ Names(confFile)' = Names(confFile)
<1>1. argv' = argv /\ confFile' = confFile /\ pkgPath' = pkgPath /\ parsed' = parsed
  BY DEF cliVars
<1>2. IsAdd' = IsAdd /\ ConfGiven' = ConfGiven
  BY <1>1 DEF IsAdd, ConfGiven, LastAt, Positions, IsArg, IsOption
<1> QED  BY <1>1, <1>2 DEF Configured, Names

LEMMA SameOutcome ==
  ASSUME UNCHANGED cliVars,
         files' = files, before' = before, torn' = torn, lost' = lost,
         result' = result, program' = program
  PROVE  Outcome' <=> Outcome
BY SameLine DEF Outcome, BegunAt, MadeAt, AddedTo, LostAt, OnlyAt, NoneOf

LEMMA SameForInit == UNCHANGED cliVars /\ program' = program /\ ForInit => ForInit'
BY DEF cliVars, ForInit

LEMMA InitCreateInv == NnpkgInv /\ InitCreate => NnpkgInv'
<1> SUFFICES ASSUME NnpkgInv, InitCreate PROVE NnpkgInv'
  OBVIOUS
<1>1. at = "create" /\ cbConf /\ UNCHANGED cliVars /\ UNCHANGED confVars
  BY DEF InitCreate
<1>2. /\ program = "nnpkg" /\ ForInit /\ ~result /\ files = before
      /\ \A k \in DOMAIN pkgDbs : pkgDbs[k].type = "DEST"
      /\ IsParsed /\ parse.first
  BY <1>1 DEF NnpkgInv, ProgInv, ControlInv, FileInv, OwnInv, OutcomeInv, ProgTypeOK, ForInit
<1>3. PICK l \in Locations : l = DbPath.path /\ l = Configured(confFile)
  BY <1>2, ConfiguredPath DEF NnpkgInv
<1>4. CreateDb(l) /\ files' = files /\ pkgDbs' = pkgDbs
  BY <1>3 DEF InitCreate, CreateDb, DbPath
<1>5. DbInv' /\ ParserInv' /\ ConfInv' /\ PathInv'
  BY <1>1, <1>4, CreateDbInv, SameCli, SameConf DEF NnpkgInv
<1>6. CASE creating' # Nowhere /\ Goto("creating")
  <2>1. at' = "creating" /\ UNCHANGED <<program, result, lost, runs, before>>
    BY <1>6 DEF Goto
  <2>2. ProgTypeOK'
    BY <2>1 DEF NnpkgInv, ProgInv, ProgTypeOK
  <2>3. creating' = l /\ files[l].made = "absent"
    BY <1>4, <1>6 DEF CreateDb
  <2>4. creating' = Configured(ConfGiven)'
    <3>1. confFile = ConfGiven
      BY <1>2 DEF ForInit, NnpkgInv, ParserInv, ParserMeetsGrammar
    <3> QED  BY <1>1, <1>3, <2>3, <3>1, SameLine
  <2>5. BegunAt(l)'
    <3>1. files[l] = [files[l] EXCEPT !.made = "absent"] /\ "absent" \in Stages
      BY <2>3, FileFacts DEF NnpkgInv, DbInv, File, Stages
    <3> QED  BY <1>2, <1>4, <2>1, <2>3, <3>1 DEF BegunAt, OnlyAt
  <2>6. (creating \in Locations /\ creating = Configured(ConfGiven) /\ BegunAt(creating))'
    BY <2>3, <2>4, <2>5 DEF BegunAt, OnlyAt
  <2>7. ControlInv' /\ FileInv' /\ OwnInv' /\ OutcomeInv'
    BY <1>1, <1>2, <1>4, <2>1, <2>6, SameForInit DEF ControlInv, FileInv, OwnInv, OutcomeInv, Opened, InAction
  <2> QED  BY <1>5, <2>2, <2>7 DEF NnpkgInv, ProgInv
<1>7. CASE Return(FALSE)
  BY <1>1, <1>2, <1>4, <1>5, <1>7, FailsUnchanged
<1> QED  BY <1>6, <1>7 DEF InitCreate

(* What is known while init makes a database. *)
LEMMA CreatingFacts ==
  ASSUME NnpkgInv, at = "creating", UNCHANGED cliVars
  PROVE  /\ program = "nnpkg" /\ ForInit /\ argv' = argv /\ ~result
         /\ \A k \in DOMAIN pkgDbs : pkgDbs[k].type = "DEST"
         /\ creating \in Locations /\ BegunAt(creating)
         /\ creating = Configured(ConfGiven) /\ creating = Configured(ConfGiven)'
BY SameLine DEF NnpkgInv, ProgInv, ControlInv, OwnInv, OutcomeInv, ForInit

LEMMA InitWritesInv == NnpkgInv /\ InitWrites => NnpkgInv'
<1> SUFFICES ASSUME NnpkgInv, InitWrites PROVE NnpkgInv'
  OBVIOUS
<1>1. at = "creating" /\ CreateStep /\ UNCHANGED cliVars /\ UNCHANGED confVars
  BY DEF InitWrites
<1>2. PICK l \in Locations : l = creating /\ l = Configured(ConfGiven)' /\ BegunAt(l)
  BY <1>1, CreatingFacts
<1>3. /\ program = "nnpkg" /\ ForInit /\ ~result /\ argv' = argv
      /\ \A k \in DOMAIN pkgDbs : pkgDbs[k].type = "DEST"
  BY <1>1, CreatingFacts
<1>4. DbInv' /\ ParserInv' /\ ConfInv' /\ PathInv' /\ pkgDbs' = pkgDbs
  BY <1>1, CreateStepInv, SameCli, SameConf DEF NnpkgInv, CreateStep
<1>5. UNCHANGED <<program, lost, runs, before>>
  BY DEF InitWrites, Goto, Decides
<1>6. BegunAt(l)' /\ (files[l].made = "ready" => files'[l].made = "ready")
  <2>1. files \in [Locations -> File] /\ files' = [files EXCEPT ![l].made = Stage(@)]
    BY <1>1, <1>2 DEF CreateStep, NnpkgInv, DbInv, DbTypeOK
  <2>2. PICK made \in Stages : files[l] = [before[l] EXCEPT !.made = made]
    BY <1>2 DEF BegunAt
  <2>3. PICK new \in Stages : new = Stage(files[l].made)
    BY DEF Stage, Stages
  <2>4. files'[l] = [files[l] EXCEPT !.made = new] /\ \A m \in Locations \ {l} : files'[m] = files[m]
    BY <2>1, <2>3
  <2>5. before[l] \in File
    BY DEF NnpkgInv, ProgInv, ProgTypeOK
  <2>6. files'[l] = [before[l] EXCEPT !.made = new]
    BY <2>2, <2>4, <2>5 DEF File
  <2>7. files[l].made = "ready" => new = "ready"
    BY <2>3 DEF Stage
  <2>8. files'[l].made = new
    BY <2>5, <2>6 DEF File
  <2> QED  BY <1>2, <1>5, <2>4, <2>6, <2>7, <2>8 DEF BegunAt, OnlyAt
<1>7. CASE creating' # Nowhere /\ Goto("creating")
  <2>1. at' = "creating" /\ result' = result
    BY <1>7 DEF Goto
  <2>2. ProgTypeOK'
    BY <1>5, <2>1 DEF NnpkgInv, ProgInv, ProgTypeOK
  <2>3. creating' = l
    BY <1>1, <1>2, <1>7 DEF CreateStep
  <2>4. (creating \in Locations /\ creating = Configured(ConfGiven) /\ BegunAt(creating))'
    BY <1>2, <1>6, <2>3 DEF BegunAt, OnlyAt
  <2>5. ControlInv' /\ FileInv' /\ OwnInv' /\ OutcomeInv'
    BY <1>1, <1>3, <1>4, <1>5, <2>1, <2>4, SameForInit DEF ControlInv, FileInv, OwnInv, OutcomeInv, Opened, InAction
  <2> QED  BY <1>4, <2>2, <2>5 DEF NnpkgInv, ProgInv
<1>8. CASE creating' = Nowhere /\ Decides(TRUE, "destroy")
  <2>1. at' = "destroy" /\ result' = TRUE
    BY <1>8 DEF Decides
  <2>2. ProgTypeOK'
    BY <1>5, <2>1 DEF NnpkgInv, ProgInv, ProgTypeOK
  <2>3. files[l].made = "ready"
    <3>1. Nowhere # l
      BY DbFacts
    <3> QED  BY <1>1, <1>2, <1>8, <3>1 DEF CreateStep
  <2>4. MadeAt(Configured(ConfGiven))'
    BY <1>2, <1>6, <2>3 DEF MadeAt, BegunAt, OnlyAt
  <2>5. Outcome'
    BY <1>3, <1>5, <2>1, <2>4 DEF Outcome, ForInit
  <2>6. ControlInv' /\ FileInv' /\ OwnInv' /\ OutcomeInv'
    BY <1>3, <1>4, <1>5, <2>1, <2>5 DEF ControlInv, FileInv, OwnInv, OutcomeInv, Opened, InAction
  <2> QED  BY <1>4, <2>2, <2>6 DEF NnpkgInv, ProgInv
<1> QED  BY <1>7, <1>8 DEF InitWrites

LEMMA InitFailsInv == NnpkgInv /\ InitFails => NnpkgInv'
<1> SUFFICES ASSUME NnpkgInv, InitFails PROVE NnpkgInv'
  OBVIOUS
<1>1. /\ at = "creating" /\ CreateFails /\ UNCHANGED cliVars /\ UNCHANGED confVars
      /\ at' = "done" /\ result' = FALSE /\ UNCHANGED <<program, lost, runs, before>>
  BY DEF InitFails, Return, Decides
<1>2. PICK l \in Locations : l = creating /\ l = Configured(ConfGiven)' /\ BegunAt(l)
  BY <1>1, CreatingFacts
<1>3. /\ program = "nnpkg" /\ ForInit /\ argv' = argv
      /\ \A k \in DOMAIN pkgDbs : pkgDbs[k].type = "DEST"
  BY <1>1, CreatingFacts
<1>4. DbInv' /\ ParserInv' /\ ConfInv' /\ PathInv' /\ pkgDbs' = pkgDbs /\ files' = files
  BY <1>1, CreateStepInv, SameCli, SameConf DEF NnpkgInv, CreateFails
<1>5. ProgTypeOK'
  BY <1>1 DEF NnpkgInv, ProgInv, ProgTypeOK
<1>6. BegunAt(Configured(ConfGiven))'
  BY <1>1, <1>2, <1>4 DEF BegunAt, OnlyAt
<1>7. Outcome'
  BY <1>1, <1>3, <1>6 DEF Outcome, ForInit
<1>8. ControlInv' /\ FileInv' /\ OwnInv' /\ OutcomeInv'
  BY <1>1, <1>3, <1>4, <1>7 DEF ControlInv, FileInv, OwnInv, OutcomeInv, Opened, InAction
<1> QED  BY <1>4, <1>5, <1>8 DEF NnpkgInv, ProgInv

LEMMA InitUnconfiguredInv == NnpkgInv /\ InitUnconfigured => NnpkgInv'
<1> SUFFICES ASSUME NnpkgInv, InitUnconfigured PROVE NnpkgInv'
  OBVIOUS
<1>1. CASE Dies /\ Forget
  BY <1>1, DiesAndForgets
<1>2. CASE Return(FALSE) /\ SameDb /\ UNCHANGED <<cliVars, confVars>>
  <2>1. at = "create" /\ files' = files /\ pkgDbs' = pkgDbs
    BY <1>2 DEF InitUnconfigured, SameDb, dbVars
  <2>2. /\ program = "nnpkg" /\ files = before
        /\ \A k \in DOMAIN pkgDbs : pkgDbs[k].type = "DEST"
    BY <2>1 DEF NnpkgInv, ProgInv, ControlInv, FileInv, OwnInv, OutcomeInv, ForInit
  <2>3. DbInv' /\ ParserInv' /\ ConfInv' /\ PathInv'
    BY <1>2, SameDbs, SameCli, SameConf DEF NnpkgInv
  <2> QED  BY <1>2, <2>1, <2>2, <2>3, FailsUnchanged
<1> QED  BY <1>1, <1>2 DEF InitUnconfigured

-----------------------------------------------------------------------------
(* A transaction. *)

LEMMA BeginTransactionInv == NnpkgInv /\ BeginTransaction => NnpkgInv'
<1> SUFFICES ASSUME NnpkgInv, BeginTransaction PROVE NnpkgInv'
  OBVIOUS
<1>1. /\ at = "idle" /\ runs < MaxRuns /\ at' = "conf" /\ runs' = runs + 1 /\ before' = files
      /\ UNCHANGED <<program, result, lost, argv, i, parsed, confVars>> /\ SameDb
      /\ confFile' \in Words /\ pkgPath' \in Words
  BY NnpkgFacts DEF BeginTransaction
<1>2. program = "transactions" /\ parsed = "none" /\ ~result
      /\ \A k \in DOMAIN pkgDbs : pkgDbs[k].type = "DEST"
  BY <1>1 DEF NnpkgInv, ProgInv, ControlInv, OwnInv
<1>3. DbInv' /\ ConfInv' /\ PathInv'
  BY <1>1, SameDbs, SameConf DEF NnpkgInv
<1>4. ParserInv'
  BY <1>1, <1>2 DEF NnpkgInv, ParserInv, CliTypeOK, ParserMeetsGrammar
<1>5. ProgTypeOK'
  <2>1. before' \in [Locations -> File]
    BY <1>1 DEF NnpkgInv, DbInv, DbTypeOK
  <2>2. runs' \in 0 .. MaxRuns
    BY <1>1, NnpkgFacts DEF NnpkgInv, ProgInv, ProgTypeOK
  <2> QED  BY <1>1, <2>1, <2>2 DEF NnpkgInv, ProgInv, ProgTypeOK
<1>6. files' = files /\ pkgDbs' = pkgDbs
  BY <1>1 DEF SameDb, dbVars
<1>7. ControlInv' /\ FileInv' /\ OwnInv' /\ OutcomeInv'
  BY <1>1, <1>2, <1>6 DEF ControlInv, FileInv, OwnInv, OutcomeInv, Opened, InAction
<1> QED  BY <1>3, <1>4, <1>5, <1>7 DEF NnpkgInv, ProgInv

(* What is known wherever a transaction is. *)
LEMMA InActionFacts ==
  ASSUME NnpkgInv, at \in InAction
  PROVE  /\ program \in {"nnpkg", "transactions"} /\ files = before
         /\ ForAdd \/ (program = "transactions" /\ parsed = "none")
         /\ \A k \in DOMAIN pkgDbs : pkgDbs[k].type = "DEST"
BY DEF NnpkgInv, ProgInv, ControlInv, OwnInv, OutcomeInv, ForAdd

LEMMA SameForAdd == UNCHANGED cliVars /\ program' = program => ForAdd' = ForAdd
BY DEF cliVars, ForAdd, IsAdd

LEMMA RunConfInv == NnpkgInv /\ RunConf => NnpkgInv'
<1> SUFFICES ASSUME NnpkgInv, RunConf PROVE NnpkgInv'
  OBVIOUS
<1>1. at = "conf" /\ ParseMainConf(confFile) /\ UNCHANGED cliVars /\ SameDb
  BY DEF RunConf
<1>2. /\ program \in {"nnpkg", "transactions"} /\ files = before
      /\ ForAdd \/ (program = "transactions" /\ parsed = "none")
      /\ \A k \in DOMAIN pkgDbs : pkgDbs[k].type = "DEST"
  BY <1>1, InActionFacts DEF InAction
<1>3. DbInv' /\ ParserInv' /\ ConfInv' /\ PathInv'
  BY <1>1, SameDbs, SameCli, ParseMainConfInv, ParsedPath DEF NnpkgInv
<1>4. files' = files /\ pkgDbs' = pkgDbs /\ parsed' = parsed /\ confFile' = confFile
  BY <1>1 DEF SameDb, dbVars, cliVars
<1>5. CASE Return(FALSE)
  <2>1. program # "nnpkg" => parsed' = "none"
    BY <1>2, <1>4 DEF ForAdd
  <2> QED  BY <1>2, <1>3, <1>4, <1>5, <2>1, FailsUnchanged
<1>6. CASE parse'.ok /\ Goto("open")
  <2>1. at' = "open" /\ UNCHANGED <<program, result, lost, runs, before>>
    BY <1>6 DEF Goto
  <2>2. IsParsed' /\ (program = "nnpkg" => parse'.first)
    <3>1. program = "nnpkg" => ConfInit
      BY <1>1 DEF NnpkgInv, ProgInv, FileInv
    <3> QED  BY <1>1, <1>4, <1>6, <3>1, ParsedFacts DEF NnpkgInv, IsParsed
  <2>3. ProgTypeOK' /\ ~result
    BY <1>1, <2>1 DEF NnpkgInv, ProgInv, ProgTypeOK, ControlInv
  <2>4. ControlInv' /\ FileInv' /\ OwnInv' /\ OutcomeInv'
    BY <1>1, <1>2, <1>4, <2>1, <2>2, <2>3, SameForAdd
       DEF ControlInv, FileInv, OwnInv, OutcomeInv, Opened, InAction, ForAdd
  <2> QED  BY <1>3, <2>3, <2>4 DEF NnpkgInv, ProgInv
<1> QED  BY <1>5, <1>6 DEF RunConf

(* The database the configuration names is the only one that is opened.    *)
LEMMA RunOpenInv == NnpkgInv /\ RunOpen => NnpkgInv'
<1> SUFFICES ASSUME NnpkgInv, RunOpen PROVE NnpkgInv'
  OBVIOUS
<1>1. at = "open" /\ DbPath.live
  BY DEF RunOpen
<1>2. PICK l \in Locations : l = DbPath.path
  BY <1>1 DEF NnpkgInv, PathInv
<1>3. /\ program \in {"nnpkg", "transactions"} /\ files = before /\ ~result
      /\ ForAdd \/ (program = "transactions" /\ parsed = "none")
      /\ \A k \in DOMAIN pkgDbs : pkgDbs[k].type = "DEST"
      /\ IsParsed /\ (program = "nnpkg" => parse.first)
  BY <1>1, InActionFacts DEF InAction, NnpkgInv, ProgInv, FileInv, ControlInv
<1>4. CASE /\ PkgOpenDb(l, "DEST") /\ Goto("read")
           /\ UNCHANGED <<cliVars, confVars>>
  <2>1. DbInv' /\ ParserInv' /\ ConfInv' /\ PathInv'
    BY <1>4, OpenInv, SameCli, SameConf DEF NnpkgInv, Types
  <2>2. at' = "read" /\ UNCHANGED <<program, result, lost, runs, before>>
    BY <1>4 DEF Goto
  <2>3. pkgDbs = <<>>
    <3>1. DestDbs = {}
      BY <1>4 DEF PkgOpenDb
    <3>2. DOMAIN pkgDbs = {}
      BY <1>3, <3>1 DEF DestDbs
    <3> QED  BY <3>2, EntryFacts DEF NnpkgInv, DbInv
  <2>4. PICK db : db = [loc |-> l, type |-> "DEST", toAdd |-> <<>>, toRm |-> <<>>,
                        free |-> files[l].free, num |-> files[l].count,
                        end |-> Len(files[l].props), stored |-> {}]
    OBVIOUS
  <2>5. pkgDbs' = <<db>> /\ files' = files
    BY <1>4, <2>3, <2>4 DEF PkgOpenDb
  <2>6. Own' = db
    BY <1>2, <1>3, <1>4, <2>2, <2>4, <2>5 DEF Own, DbPath, confVars
  <2>7. OwnInv'
    BY <2>2, <2>4, <2>5, <2>6 DEF OwnInv
  <2>8. ProgTypeOK'
    BY <2>2 DEF NnpkgInv, ProgInv, ProgTypeOK
  <2>9. IsParsed' /\ (program = "nnpkg" => parse'.first) /\ parsed' = parsed
    BY <1>3, <1>4 DEF IsParsed, cliVars, confVars
  <2>10. ControlInv' /\ FileInv' /\ OutcomeInv'
    BY <1>3, <1>4, <2>2, <2>5, <2>9, SameForAdd
       DEF ControlInv, FileInv, OutcomeInv, Opened, InAction, ForAdd
  <2> QED  BY <2>1, <2>7, <2>8, <2>10 DEF NnpkgInv, ProgInv
<1>5. CASE PkgOpenDbFails(l) /\ Return(FALSE) /\ UNCHANGED <<cliVars, confVars>>
  <2>1. DbInv' /\ ParserInv' /\ ConfInv' /\ PathInv'
    BY <1>5, OpenFailsInv, SameCli, SameConf DEF NnpkgInv
  <2>2. files' = files /\ pkgDbs' = pkgDbs /\ parsed' = parsed
    BY <1>5 DEF PkgOpenDbFails, cliVars
  <2>3. program # "nnpkg" => parsed' = "none"
    BY <1>3, <2>2 DEF ForAdd
  <2> QED  BY <1>3, <1>5, <2>1, <2>2, <2>3, FailsUnchanged
<1>6. CASE PkgOpenDbDies(l) /\ Forget
  BY <1>6, DiesAndForgets DEF PkgOpenDbDies
<1> QED  BY <1>2, <1>4, <1>5, <1>6 DEF RunOpen

LEMMA RunOpenFreedInv == NnpkgInv /\ RunOpenFreed => NnpkgInv'
<1> SUFFICES ASSUME NnpkgInv, RunOpenFreed PROVE NnpkgInv'
  OBVIOUS
<1>1. at = "open"
  BY DEF RunOpenFreed
<1>2. CASE Dies /\ Forget
  BY <1>2, DiesAndForgets
<1>3. CASE /\ Ready /\ Returns("SYS", <<>>) /\ UNCHANGED <<files, pkgDbs, creating, promised>>
           /\ Return(FALSE)
           /\ UNCHANGED <<cliVars, confVars>>
  <2>1. /\ program \in {"nnpkg", "transactions"} /\ files = before
        /\ ForAdd \/ (program = "transactions" /\ parsed = "none")
        /\ \A k \in DOMAIN pkgDbs : pkgDbs[k].type = "DEST"
    BY <1>1, InActionFacts DEF InAction
  <2>2. "SYS" \in Errors /\ <<>> \in Seq(Ids \cup {Header})
    BY DEF Errors
  <2>3. /\ files' = files /\ promised' = promised /\ pkgDbs' = pkgDbs
        /\ creating' \in Locations \cup {Nowhere}
    BY <1>3 DEF NnpkgInv, DbInv, DbTypeOK
  <2>4. DbInv' /\ ParserInv' /\ ConfInv' /\ PathInv'
    BY <1>3, <2>2, <2>3, ReturnsInv, SameCli, SameConf DEF NnpkgInv
  <2>5. program # "nnpkg" => parsed' = "none"
    BY <1>3, <2>1 DEF ForAdd, cliVars
  <2> QED  BY <1>3, <2>1, <2>3, <2>4, <2>5, FailsUnchanged
<1> QED  BY <1>2, <1>3 DEF RunOpenFreed

LEMMA OpenedFacts ==
  ASSUME NnpkgInv, at \in Opened
  PROVE  /\ program \in {"nnpkg", "transactions"} /\ files = before
         /\ ForAdd \/ (program = "transactions" /\ parsed = "none")
         /\ pkgDbs = <<Own>> /\ DbPath.path \in Locations
         /\ DestDbs = {1} /\ Dest = 1
         /\ IsParsed /\ (program = "nnpkg" => parse.first)
<1>1. /\ program \in {"nnpkg", "transactions"} /\ files = before
      /\ ForAdd \/ (program = "transactions" /\ parsed = "none")
  BY InActionFacts DEF InAction
<1>2. /\ pkgDbs = <<Own>> /\ IsParsed /\ (program = "nnpkg" => parse.first)
  BY DEF NnpkgInv, ProgInv, OwnInv, FileInv
<1>3. Own.loc = DbPath.path /\ Own.type = "DEST"
  BY DEF Own
<1>4. pkgDbs[1].loc \in Locations
  BY <1>2, EntryFacts DEF NnpkgInv, DbInv
<1>5. DestDbs = {1}
  BY <1>2, <1>3 DEF DestDbs
<1>6. Dest = 1
  BY <1>5 DEF Dest
<1> QED  BY <1>1, <1>2, <1>3, <1>4, <1>5, <1>6

LEMMA RunReadInv == NnpkgInv /\ RunRead => NnpkgInv'
<1> SUFFICES ASSUME NnpkgInv, RunRead PROVE NnpkgInv'
  OBVIOUS
<1>1. at = "read" /\ UNCHANGED <<cliVars, confVars>> /\ SameDb
  BY DEF RunRead
<1>2. DbInv' /\ ParserInv' /\ ConfInv' /\ PathInv'
  BY <1>1, SameDbs, SameCli, SameConf DEF NnpkgInv
<1>3. /\ program \in {"nnpkg", "transactions"} /\ files = before
      /\ ForAdd \/ (program = "transactions" /\ parsed = "none")
      /\ pkgDbs = <<Own>> /\ IsParsed /\ (program = "nnpkg" => parse.first)
  BY <1>1, OpenedFacts DEF Opened
<1>4. ~result
  BY <1>1 DEF NnpkgInv, ProgInv, ControlInv
<1>5. files' = files /\ pkgDbs' = pkgDbs /\ parsed' = parsed /\ IsParsed' /\ parse' = parse
      /\ pkgPath' = pkgPath /\ DbPath' = DbPath
  BY <1>1, <1>3 DEF SameDb, dbVars, cliVars, confVars, IsParsed, DbPath
<1>6. CASE /\ at' \in {"add", "close"} /\ ~result' /\ UNCHANGED <<program, lost, runs, before>>
           /\ result' \in BOOLEAN
           /\ at' = "add" => Readable
  <2>1. Own' = Own
    BY <1>4, <1>5, <1>6 DEF Own
  <2>2. Own.type = "DEST"
    BY DEF Own
  <2>3. OwnInv'
    BY <1>3, <1>5, <1>6, <2>1, <2>2 DEF OwnInv
  <2>4. ProgTypeOK'
    BY <1>6 DEF NnpkgInv, ProgInv, ProgTypeOK
  <2>5. ForAdd' = ForAdd
    BY <1>1, <1>6, SameForAdd
  <2>6. ControlInv' /\ FileInv' /\ OutcomeInv'
    BY <1>3, <1>4, <1>5, <1>6, <2>5
       DEF ControlInv, FileInv, OutcomeInv, Opened, InAction, ForAdd, Readable
  <2> QED  BY <1>2, <2>3, <2>4, <2>6 DEF NnpkgInv, ProgInv
<1>7. CASE Return(FALSE)
  <2>1. Own.type = "DEST"
    BY DEF Own
  <2>2. \A k \in DOMAIN pkgDbs' : pkgDbs'[k].type = "DEST"
    BY <1>3, <1>5, <2>1
  <2> QED  BY <1>2, <1>3, <1>5, <1>7, <2>2, FailsUnchanged DEF ForAdd
<1>8. result \in BOOLEAN
  BY DEF NnpkgInv, ProgInv, ProgTypeOK
<1>9. CASE Readable /\ Goto("add")
  <2>1. /\ at' = "add" /\ result' = result /\ UNCHANGED <<program, lost, runs, before>>
    BY <1>9 DEF Goto
  <2> QED  BY <1>4, <1>6, <1>8, <1>9, <2>1
<1>10. CASE result' = FALSE /\ at' = "close" /\ UNCHANGED <<program, lost, runs, before>>
  BY <1>6, <1>10
<1> QED  BY <1>7, <1>9, <1>10 DEF RunRead, Decides

LEMMA RunAddInv == NnpkgInv /\ RunAdd => NnpkgInv'
<1> SUFFICES ASSUME NnpkgInv, RunAdd PROVE NnpkgInv'
  OBVIOUS
<1>1. /\ at = "add" /\ PkgAddPackage(Described[pkgPath]) /\ result' = (error' = "NONE")
      /\ at' = "close" /\ UNCHANGED <<program, lost, runs, before, cliVars, confVars>>
  BY DEF RunAdd, Decides
<1>2. PICK pkg \in Packages : pkg = Described[pkgPath]
  BY <1>1, NnpkgFacts DEF NnpkgInv, ProgInv, ControlInv
<1>3. DbInv' /\ ParserInv' /\ ConfInv' /\ PathInv'
  BY <1>1, <1>2, AddInv, SameCli, SameConf DEF NnpkgInv
<1>4. /\ program \in {"nnpkg", "transactions"} /\ files = before
      /\ ForAdd \/ (program = "transactions" /\ parsed = "none")
      /\ pkgDbs = <<Own>> /\ Dest = 1 /\ IsParsed /\ (program = "nnpkg" => parse.first)
  BY <1>1, OpenedFacts DEF Opened
<1>5. PICK own : own = Own
  OBVIOUS
<1>6. /\ own = [loc |-> DbPath.path, type |-> "DEST", toAdd |-> <<>>, toRm |-> <<>>,
                free |-> files[DbPath.path].free, num |-> files[DbPath.path].count,
                end |-> Len(files[DbPath.path].props), stored |-> {}]
  BY <1>1, <1>5 DEF Own, NnpkgInv, ProgInv, ControlInv
<1>7. /\ files' = files /\ parsed' = parsed /\ DbPath' = DbPath /\ pkgPath' = pkgPath
      /\ IsParsed' /\ parse' = parse
  BY <1>1, <1>4 DEF PkgAddPackage, cliVars, confVars, IsParsed, DbPath
<1>8. pkgDbs' = <<Own'>>
  <2>1. CASE Returns("PKG_EXIST", <<pkg.id>>) /\ UNCHANGED pkgDbs
    <3>1. ~result'
      BY <1>1, <2>1 DEF Returns
    <3>2. Own' = own
      BY <1>6, <1>7, <3>1 DEF Own
    <3> QED  BY <1>4, <1>5, <2>1, <3>2
  <2>2. CASE /\ pkgDbs' = [pkgDbs EXCEPT ![Dest].toAdd = Append(@, pkg)]
             /\ Returns("NONE", <<>>)
    <3>1. result'
      BY <1>1, <2>2 DEF Returns
    <3>2. Own' = [loc |-> DbPath.path, type |-> "DEST", toAdd |-> <<pkg>>, toRm |-> <<>>,
                  free |-> files[DbPath.path].free, num |-> files[DbPath.path].count,
                  end |-> Len(files[DbPath.path].props), stored |-> {}]
      BY <1>2, <1>7, <3>1 DEF Own
    <3>3. [own EXCEPT !.toAdd = Append(own.toAdd, pkg)] = Own'
      <4>1. Append(own.toAdd, pkg) = <<pkg>>
        BY <1>6
      <4>2. PICK t, d, q, r, S : t = "DEST" /\ d = <<>> /\ q = <<pkg>> /\ r = <<>> /\ S = {}
        OBVIOUS
      <4>3. PICK l, f, n, e : /\ l = DbPath.path /\ f = files[DbPath.path].free
                              /\ n = files[DbPath.path].count /\ e = Len(files[DbPath.path].props)
        OBVIOUS
      <4>4. own = [loc |-> l, type |-> t, toAdd |-> d, toRm |-> r, free |-> f,
                   num |-> n, end |-> e, stored |-> S]
        BY <1>6, <4>2, <4>3
      <4>5. [own EXCEPT !.toAdd = q] = [loc |-> l, type |-> t, toAdd |-> q, toRm |-> r,
                                        free |-> f, num |-> n, end |-> e, stored |-> S]
        BY <4>4
      <4>6. Own' = [loc |-> l, type |-> t, toAdd |-> q, toRm |-> r,
                    free |-> f, num |-> n, end |-> e, stored |-> S]
        BY <3>2, <4>2, <4>3
      <4> QED  BY <4>1, <4>2, <4>5, <4>6
    <3>4. pkgDbs = <<own>> /\ pkgDbs' = [pkgDbs EXCEPT ![1].toAdd = Append(@, pkg)]
      BY <1>4, <1>5, <2>2
    <3>5. pkgDbs' = <<[own EXCEPT !.toAdd = Append(own.toAdd, pkg)]>>
      BY <3>4
    <3> QED  BY <3>3, <3>5
  <2> QED  BY <1>1, <1>2, <2>1, <2>2 DEF PkgAddPackage
<1>9. OwnInv'
  <2>1. Own'.type = "DEST"
    BY DEF Own
  <2> QED  BY <1>1, <1>8, <2>1 DEF OwnInv
<1>10. ProgTypeOK'
  BY <1>1 DEF NnpkgInv, ProgInv, ProgTypeOK
<1>11. ForAdd' = ForAdd
  BY <1>1, SameForAdd
<1>12. ControlInv' /\ FileInv' /\ OutcomeInv'
  BY <1>1, <1>4, <1>7, <1>11 DEF ControlInv, FileInv, OutcomeInv, Opened, InAction, ForAdd
<1> QED  BY <1>3, <1>9, <1>10, <1>12 DEF NnpkgInv, ProgInv

LEMMA RunCloseInv == NnpkgInv /\ RunClose => NnpkgInv'
<1> SUFFICES ASSUME NnpkgInv, RunClose PROVE NnpkgInv'
  OBVIOUS
<1>1. /\ at = "close" /\ PkgCloseDbs /\ at' = "closing"
      /\ UNCHANGED <<program, result, lost, runs, before>> /\ UNCHANGED <<cliVars, confVars>>
  BY DEF RunClose, Goto
<1>2. DbInv' /\ ParserInv' /\ ConfInv' /\ PathInv'
  BY <1>1, CloseDbsInv, SameCli, SameConf DEF NnpkgInv
<1>3. /\ program \in {"nnpkg", "transactions"} /\ files = before
      /\ ForAdd \/ (program = "transactions" /\ parsed = "none")
      /\ pkgDbs = <<Own>> /\ IsParsed /\ (program = "nnpkg" => parse.first)
  BY <1>1, OpenedFacts DEF Opened
<1>4. /\ files' = files /\ pkgDbs' = pkgDbs /\ parsed' = parsed /\ DbPath' = DbPath
      /\ pkgPath' = pkgPath /\ IsParsed' /\ parse' = parse
  BY <1>1, <1>3 DEF PkgCloseDbs, cliVars, confVars, IsParsed, DbPath
<1>5. OwnInv'
  <2>1. Own' = Own
    BY <1>1, <1>4 DEF Own
  <2>2. Own.type = "DEST"
    BY DEF Own
  <2>3. pkgDbs' = <<Own'>> /\ files' = before'
    BY <1>1, <1>3, <1>4, <2>1
  <2>4. Unwritten'
    BY <2>3 DEF Unwritten
  <2>5. \A k \in DOMAIN pkgDbs' : pkgDbs'[k].type = "DEST"
    BY <1>3, <1>4, <2>2
  <2> QED  BY <1>1, <2>4, <2>5 DEF OwnInv, Opened
<1>6. ProgTypeOK'
  BY <1>1 DEF NnpkgInv, ProgInv, ProgTypeOK
<1>7. ForAdd' = ForAdd
  BY <1>1, SameForAdd
<1>8. ControlInv' /\ FileInv' /\ OutcomeInv'
  BY <1>1, <1>3, <1>4, <1>7 DEF ControlInv, FileInv, OutcomeInv, Opened, InAction, ForAdd
<1> QED  BY <1>2, <1>5, <1>6, <1>8 DEF NnpkgInv, ProgInv

(* What is known while a transaction closes its database. *)
LEMMA ClosingFacts ==
  ASSUME NnpkgInv, at = "closing"
  PROVE  /\ program \in {"nnpkg", "transactions"}
         /\ ForAdd \/ (program = "transactions" /\ parsed = "none")
         /\ IsParsed /\ (program = "nnpkg" => parse.first)
         /\ \E db \in OpenDb :
              /\ pkgDbs = <<db>> /\ First = db /\ Tail(pkgDbs) = <<>>
              /\ db.loc = DbPath.path /\ db.type = "DEST" /\ db.loc \in Locations
              /\ ((files = before /\ db = Own) \/ IsWritten(db))
<1>1. /\ ForAdd \/ (program = "transactions" /\ parsed = "none")
      /\ IsParsed /\ (program = "nnpkg" => parse.first)
      /\ Unwritten \/ \E k \in DOMAIN pkgDbs : IsWritten(pkgDbs[k])
  BY DEF NnpkgInv, ProgInv, ControlInv, FileInv, OwnInv, InAction
<1>2. PICK db : /\ pkgDbs = <<db>> /\ db.loc = DbPath.path /\ db.type = "DEST"
                /\ ((files = before /\ db = Own) \/ IsWritten(db))
  BY <1>1 DEF Unwritten, Own, IsWritten
<1>3. db \in OpenDb /\ db.loc \in Locations
  BY <1>2, EntryFacts DEF NnpkgInv, DbInv
<1>4. First = db /\ Tail(pkgDbs) = <<>>
  BY <1>2 DEF First
<1> QED  BY <1>1, <1>2, <1>3, <1>4 DEF ForAdd

(* The program stays while a package is written, or lost.                  *)
LEMMA WritesInv ==
  ASSUME NnpkgInv, at = "closing", DbInv', NEW db, IsWritten(db)',
         UNCHANGED <<program, at, result, runs, before>>, lost' \in BOOLEAN,
         UNCHANGED <<cliVars, confVars>>
  PROVE  NnpkgInv'
<1>1. /\ program \in {"nnpkg", "transactions"}
      /\ ForAdd \/ (program = "transactions" /\ parsed = "none")
      /\ IsParsed /\ (program = "nnpkg" => parse.first)
  BY ClosingFacts
<1>2. ParserInv' /\ ConfInv' /\ PathInv'
  BY SameCli, SameConf DEF NnpkgInv
<1>3. parsed' = parsed /\ IsParsed' /\ parse' = parse
  BY <1>1 DEF cliVars, confVars, IsParsed
<1>4. ProgTypeOK'
  BY DEF NnpkgInv, ProgInv, ProgTypeOK
<1>5. ForAdd' = ForAdd
  BY SameForAdd
<1>6. OwnInv'
  <2>1. pkgDbs' = <<db>> /\ db.type = "DEST"
    BY DEF IsWritten
  <2>2. DOMAIN pkgDbs' = {1} /\ pkgDbs'[1] = db
    BY <2>1
  <2>3. (\E k \in DOMAIN pkgDbs : IsWritten(pkgDbs[k]))'
    BY <2>2 DEF IsWritten, OnlyAt
  <2> QED  BY <2>1, <2>2, <2>3 DEF OwnInv, Opened
<1>7. ControlInv' /\ FileInv' /\ OutcomeInv'
  BY <1>1, <1>3, <1>5 DEF ControlInv, FileInv, OutcomeInv, Opened, InAction, ForAdd
<1> QED  BY <1>2, <1>4, <1>6, <1>7 DEF NnpkgInv, ProgInv

(* The one package of a transaction is queued when its result is true.     *)
LEMMA QueuedFacts ==
  ASSUME NnpkgInv, at = "closing", NEW db \in OpenDb, pkgDbs = <<db>>, First = db,
         (files = before /\ db = Own) \/ IsWritten(db), Appending
  PROVE  /\ result /\ db = Own /\ files = before
         /\ Head(db.toAdd) = Described[pkgPath] /\ Tail(db.toAdd) = <<>>
         /\ db.toRm = <<>> /\ db.stored = {} /\ db.toAdd # <<>>
<1>1. db.toAdd # <<>> /\ db.toRm = <<>>
  BY DEF Appending
<1>2. ~IsWritten(db)
  BY <1>1 DEF IsWritten
<1>3. db.toAdd = IF result THEN <<Described[pkgPath]>> ELSE <<>>
  BY <1>2 DEF Own
<1>4. result /\ db.toAdd = <<Described[pkgPath]>>
  BY <1>1, <1>3
<1>5. Head(db.toAdd) = Described[pkgPath] /\ Tail(db.toAdd) = <<>>
  BY <1>4
<1> QED  BY <1>1, <1>2, <1>4, <1>5 DEF Own

LEMMA RunAppendInv ==
  ASSUME NnpkgInv, at = "closing", CloseAppend, UNCHANGED progVars,
         UNCHANGED <<cliVars, confVars>>
  PROVE  NnpkgInv'
<1>1. PICK db \in OpenDb :
        /\ pkgDbs = <<db>> /\ First = db /\ db.loc = DbPath.path /\ db.type = "DEST"
        /\ db.loc \in Locations /\ ((files = before /\ db = Own) \/ IsWritten(db))
  BY ClosingFacts
<1>2. /\ result /\ files = before /\ Head(db.toAdd) = Described[pkgPath]
      /\ Tail(db.toAdd) = <<>> /\ db.toRm = <<>> /\ db.toAdd # <<>>
  BY <1>1, QueuedFacts DEF CloseAppend
<1>3. PICK pkg \in Packages : pkg = Head(db.toAdd)
  <2>1. db.toAdd \in Seq(Packages)
    BY DEF OpenDb
  <2> QED  BY <1>2, <2>1, TailFacts
<1>4. PICK new : new = Puts(db)
  OBVIOUS
<1>5. /\ new.loc = db.loc /\ new.toAdd = <<>> /\ new.toRm = <<>>
      /\ pkg \in new.stored /\ new.type = "DEST"
  <2>1. /\ new.loc = db.loc /\ new.toAdd = Tail(db.toAdd) /\ new.toRm = db.toRm
        /\ new.stored = db.stored \cup {pkg}
    BY <1>2, <1>3, <1>4, PutsFacts
  <2>2. new.type = db.type
    BY <1>4 DEF Puts, NextAdd, OpenDb
  <2> QED  BY <1>1, <1>2, <2>1, <2>2
<1>6. pkgDbs' = <<new>>
  BY <1>1, <1>4 DEF CloseAppend
<1>7. OnlyAt(db.loc)'
  <2>1. files \in [Locations -> File]
    BY DEF NnpkgInv, DbInv, DbTypeOK
  <2>2. \A m \in Locations \ {db.loc} : files'[m] = files[m]
    BY <1>1, <2>1 DEF CloseAppend
  <2> QED  BY <1>1, <1>2, <2>2 DEF OnlyAt, progVars
<1>8. db.loc \in torn \/ NoneOf(before[db.loc], pkg.id)
  <2>1. 1 \in DOMAIN db.toAdd /\ db.toAdd[1] = pkg
    <3>1. db.toAdd \in Seq(Packages)
      BY DEF OpenDb
    <3> QED  BY <1>2, <1>3, <3>1, TailFacts
  <2>2. New(db)
    <3>1. 1 \in DOMAIN pkgDbs /\ pkgDbs[1] = db
      BY <1>1
    <3> QED  BY <3>1 DEF NnpkgInv, DbInv, QueueInv, EntryInv
  <2>3. db.loc \notin torn => \A s \in Slots(db.loc) : Prop(db.loc, s).id # pkg.id
    BY <2>1, <2>2 DEF New
  <2> QED  BY <1>2, <2>3 DEF NoneOf, Slots, Prop
<1>9. torn' = torn /\ before' = before /\ pkgPath' = pkgPath
  BY DEF CloseAppend, progVars, cliVars
<1>10. (db.loc \in torn \/ NoneOf(before[db.loc], pkg.id))'
  BY <1>8, <1>9 DEF NoneOf
<1>11. IsWritten(new)'
  BY <1>1, <1>2, <1>3, <1>5, <1>6, <1>7, <1>9, <1>10
     DEF IsWritten, DbPath, OnlyAt, NoneOf, progVars, confVars
<1>12. DbInv' /\ lost' \in BOOLEAN /\ UNCHANGED <<program, at, result, runs, before>>
  BY CloseAppendInv DEF NnpkgInv, ProgInv, ProgTypeOK, progVars
<1> QED  BY <1>11, <1>12, WritesInv

LEMMA RunAppendFailsInv ==
  ASSUME NnpkgInv, at = "closing", CloseAppendFails, lost' = TRUE,
         UNCHANGED <<program, at, result, runs, before>>, UNCHANGED <<cliVars, confVars>>
  PROVE  NnpkgInv'
<1>1. PICK db \in OpenDb :
        /\ pkgDbs = <<db>> /\ First = db /\ db.loc = DbPath.path /\ db.type = "DEST"
        /\ db.loc \in Locations /\ ((files = before /\ db = Own) \/ IsWritten(db))
  BY ClosingFacts
<1>2. /\ result /\ files = before /\ Tail(db.toAdd) = <<>> /\ db.toRm = <<>>
      /\ db.stored = {} /\ db.toAdd # <<>>
  BY <1>1, QueuedFacts DEF CloseAppendFails
<1>3. PICK new : new = NextAdd(db)
  OBVIOUS
<1>4. /\ new.loc = db.loc /\ new.toAdd = <<>> /\ new.toRm = <<>>
      /\ new.stored = {} /\ new.type = "DEST"
  <2>1. /\ new.loc = db.loc /\ new.toAdd = Tail(db.toAdd) /\ new.toRm = db.toRm
        /\ new.stored = db.stored
    BY <1>2, <1>3, NextAddFacts
  <2>2. new.type = db.type
    BY <1>3 DEF NextAdd, OpenDb
  <2> QED  BY <1>1, <1>2, <2>1, <2>2
<1>5. pkgDbs' = <<new>> /\ files' = files
  BY <1>1, <1>3 DEF CloseAppendFails
<1>6. IsWritten(new)'
  BY <1>1, <1>2, <1>4, <1>5 DEF IsWritten, DbPath, OnlyAt, confVars
<1>7. DbInv'
  BY CloseAppendFailsInv DEF NnpkgInv
<1> QED  BY <1>6, <1>7, WritesInv

(* The database is closed: nothing else has changed, and it only when the  *)
(* package was queued.                                                     *)
LEMMA ClosedFacts ==
  ASSUME NnpkgInv, at = "closing", CloseDb, UNCHANGED <<result, lost, before>>,
         UNCHANGED cliVars
  PROVE  \E l \in Locations :
           /\ l = DbPath.path /\ pkgDbs' = <<>>
           /\ ~result => files' = before
           /\ result => AddedTo(l)' \/ LostAt(l)'
<1>1. PICK db \in OpenDb :
        /\ pkgDbs = <<db>> /\ First = db /\ Tail(pkgDbs) = <<>>
        /\ db.loc = DbPath.path /\ db.loc \in Locations
        /\ ((files = before /\ db = Own) \/ IsWritten(db))
  BY ClosingFacts
<1>2. PICK l \in Locations : l = db.loc
  BY <1>1
<1>3. /\ db.toAdd = <<>> /\ pkgDbs' = <<>>
      /\ files' = [files EXCEPT ![l].count = db.num, ![l].free = db.free]
      /\ promised' = [promised EXCEPT ![l] = @ \cup db.stored]
  BY <1>1, <1>2 DEF CloseDb
<1>4. /\ files \in [Locations -> File] /\ promised \in [Locations -> SUBSET Packages]
      /\ files[l] \in File
  BY DEF NnpkgInv, DbInv, DbTypeOK
<1>5. \A m \in Locations \ {l} : files'[m] = files[m]
  BY <1>3, <1>4
<1>6. files'[l] = [[files[l] EXCEPT !.count = db.num] EXCEPT !.free = db.free]
  BY <1>3, <1>4
<1>7. files'[l].props = files[l].props
  BY <1>4, <1>6 DEF File
<1>8. CASE files = before /\ db = Own
  <2>1. ~result
    BY <1>3, <1>8 DEF Own
  <2>2. db.num = files[l].count /\ db.free = files[l].free
    BY <1>1, <1>2, <1>8 DEF Own
  <2>3. files'[l] = files[l]
    BY <1>4, <1>6, <2>2 DEF File
  <2>4. files' = files
    BY <1>3, <1>4, <1>5, <2>3
  <2> QED  BY <1>1, <1>2, <1>3, <1>8, <2>1, <2>4
<1>9. CASE IsWritten(db)
  <2>1. result /\ \A m \in Locations \ {l} : files'[m] = before'[m]
    BY <1>2, <1>5, <1>9 DEF IsWritten, OnlyAt
  <2>2. OnlyAt(l)'
    BY <2>1 DEF OnlyAt
  <2>3. CASE Described[pkgPath] \in db.stored
    <3>1. PICK pkg \in Packages : pkg = Described[pkgPath] /\ pkg \in db.stored
      BY <2>3 DEF OpenDb
    <3>2. PICK s \in Slots(l) : Prop(l, s) = Stored(pkg)
      <4>1. 1 \in DOMAIN pkgDbs /\ pkgDbs[1] = db
        BY <1>1
      <4>2. Ends(db)
        BY <4>1 DEF NnpkgInv, DbInv, QueueInv, EntryInv
      <4> QED  BY <1>2, <3>1, <4>2 DEF Ends
    <3>3. s \in DOMAIN files'[l].props /\ files'[l].props[s] = Stored(pkg)
      BY <1>7, <3>2 DEF Slots, Prop
    <3>4. pkgPath' = pkgPath /\ torn' = torn
      BY DEF cliVars, CloseDb
    <3>5. l \in torn' \/ s <= files'[l].count
      <4>1. DbInv'
        BY CloseDbInv DEF NnpkgInv
      <4>2. ~Writing(l)'
        BY <1>1, <1>3 DEF CloseDb, Writing
      <4>3. l \notin torn' => Len(files'[l].props) <= files'[l].count
        BY <4>1, <4>2 DEF DbInv, StoredInv, Whole
      <4>4. files'[l] \in File
        BY <4>1 DEF DbInv, DbTypeOK
      <4> QED  BY <3>3, <4>3, <4>4 DEF File
    <3>6. l \in torn \/ NoneOf(before[l], pkg.id)
      BY <1>1, <1>2, <1>9, <2>3, <3>1, <3>2 DEF IsWritten
    <3>7. AddedTo(l)'
      BY <2>2, <3>1, <3>3, <3>4, <3>5, <3>6 DEF AddedTo, OnlyAt, NoneOf
    <3> QED  BY <1>1, <1>2, <1>3, <2>1, <3>7
  <2>4. CASE lost /\ files[l].props = before[l].props
    <3>1. LostAt(l)'
      BY <1>7, <2>2, <2>4 DEF LostAt, OnlyAt
    <3> QED  BY <1>1, <1>2, <1>3, <2>1, <3>1
  <2> QED  BY <1>2, <1>9, <2>3, <2>4 DEF IsWritten
<1> QED  BY <1>1, <1>8, <1>9

LEMMA RunCloseDbInv == NnpkgInv /\ RunCloseDb => NnpkgInv'
<1> SUFFICES ASSUME NnpkgInv, RunCloseDb PROVE NnpkgInv'
  OBVIOUS
<1>1. at = "closing" /\ UNCHANGED <<cliVars, confVars>>
  BY DEF RunCloseDb
<1>2. CASE CloseAppend /\ UNCHANGED progVars
  BY <1>1, <1>2, RunAppendInv
<1>3. CASE /\ CloseAppendFails /\ lost' = TRUE
           /\ UNCHANGED <<program, at, result, runs, before>>
  BY <1>1, <1>3, RunAppendFailsInv
<1>4. CASE CloseDb /\ Goto("destroy")
  <2>1. at' = "destroy" /\ UNCHANGED <<program, result, lost, runs, before>>
    BY <1>4 DEF Goto
  <2>2. DbInv' /\ ParserInv' /\ ConfInv' /\ PathInv'
    BY <1>1, <1>4, CloseDbInv, SameCli, SameConf DEF NnpkgInv
  <2>3. /\ program \in {"nnpkg", "transactions"}
        /\ ForAdd \/ (program = "transactions" /\ parsed = "none")
        /\ IsParsed /\ (program = "nnpkg" => parse.first)
    BY <1>1, ClosingFacts
  <2>4. PICK l \in Locations :
          /\ l = DbPath.path /\ pkgDbs' = <<>>
          /\ ~result => files' = before
          /\ result => AddedTo(l)' \/ LostAt(l)'
    BY <1>1, <1>4, <2>1, ClosedFacts
  <2>5. /\ argv' = argv /\ parsed' = parsed /\ IsAdd' = IsAdd
        /\ Configured(ConfGiven)' = Configured(ConfGiven)
        /\ Configured(confFile)' = Configured(confFile) /\ Names(confFile)' = Names(confFile)
    BY <1>1, SameLine
  <2>6. /\ Names(confFile) # {} => Configured(confFile) = l
        /\ program = "nnpkg" => Names(confFile) # {}
    BY <2>3, <2>4, ConfiguredPath DEF NnpkgInv
  <2>7. Outcome'
    <3>1. CASE ~result
      BY <2>1, <2>4, <3>1 DEF Outcome
    <3>2. CASE result /\ program = "transactions"
      <4>1. (Names(confFile) # {} => l = Configured(confFile))'
        BY <2>5, <2>6
      <4> QED  BY <2>1, <2>4, <3>2, <4>1 DEF Outcome
    <3>3. CASE result /\ program = "nnpkg"
      <4>1. ForAdd
        BY <2>3, <3>3
      <4>2. confFile = ConfGiven
        BY <4>1 DEF ForAdd, NnpkgInv, ParserInv, ParserMeetsGrammar
      <4>3. Configured(ConfGiven)' = l
        BY <2>5, <2>6, <3>3, <4>2
      <4>4. (AddedTo(Configured(ConfGiven)) \/ LostAt(Configured(ConfGiven)))'
        BY <2>4, <3>3, <4>3 DEF AddedTo, LostAt, OnlyAt, NoneOf
      <4> QED  BY <2>1, <2>5, <3>3, <4>1, <4>4 DEF Outcome, ForAdd
    <3>4. result \in BOOLEAN
      BY DEF NnpkgInv, ProgInv, ProgTypeOK
    <3> QED  BY <2>3, <3>1, <3>2, <3>3, <3>4
  <2>8. ProgTypeOK'
    BY <2>1 DEF NnpkgInv, ProgInv, ProgTypeOK
  <2>9. ControlInv' /\ FileInv' /\ OwnInv' /\ OutcomeInv'
    BY <2>1, <2>3, <2>4, <2>5, <2>7
       DEF ControlInv, FileInv, OwnInv, OutcomeInv, Opened, InAction, ForAdd
  <2> QED  BY <2>2, <2>8, <2>9 DEF NnpkgInv, ProgInv
<1> QED  BY <1>1, <1>2, <1>3, <1>4 DEF RunCloseDb

LEMMA DestroyConfInv == NnpkgInv /\ Destroy => NnpkgInv'
<1> SUFFICES ASSUME NnpkgInv, Destroy PROVE NnpkgInv'
  OBVIOUS
<1>1. CASE Dies /\ Forget
  BY <1>1, DiesAndForgets
<1>2. CASE DestroyMainConf /\ Return(result) /\ UNCHANGED cliVars /\ SameDb
  <2>1. /\ at = "destroy" /\ at' = "done" /\ UNCHANGED <<program, result, lost, runs, before>>
        /\ UNCHANGED cliVars /\ SameDb
    BY <1>2 DEF Destroy, Return, Decides
  <2>2. DbInv' /\ ParserInv' /\ ConfInv'
    BY <1>2, SameDbs, SameCli, DestroyInv DEF NnpkgInv
  <2>3. PathInv'
    <3>1. ~DbPath'.live
      <4>1. conf \in [Fields -> Field] /\ "dbPath" \in Fields
        BY DEF NnpkgInv, ConfInv, ConfTypeOK, Fields
      <4>2. conf'["dbPath"] = [conf["dbPath"] EXCEPT !.live = FALSE]
        BY <1>2, <4>1 DEF DestroyMainConf
      <4> QED  BY <4>1, <4>2 DEF DbPath, Field
    <3> QED  BY <3>1 DEF PathInv
  <2>4. /\ files' = files /\ pkgDbs' = pkgDbs /\ torn' = torn /\ parsed' = parsed
        /\ argv' = argv /\ confFile' = confFile /\ pkgPath' = pkgPath
    BY <2>1 DEF SameDb, dbVars, cliVars
  <2>5. /\ Outcome /\ program \in {"nnpkg", "transactions"}
        /\ \A k \in DOMAIN pkgDbs : pkgDbs[k].type = "DEST"
        /\ (program # "nnpkg" => parsed = "none")
    BY <2>1 DEF NnpkgInv, ProgInv, ControlInv, OwnInv, OutcomeInv
  <2>6. Outcome'
    BY <2>1, <2>4, <2>5, SameOutcome
  <2>7. ProgTypeOK'
    BY <2>1 DEF NnpkgInv, ProgInv, ProgTypeOK
  <2>8. ControlInv' /\ FileInv' /\ OwnInv' /\ OutcomeInv'
    <3>1. ControlInv' /\ FileInv'
      BY <2>1, <2>4, <2>5 DEF ControlInv, FileInv, Opened, InAction
    <3>2. OwnInv'
      BY <2>1, <2>4, <2>5 DEF OwnInv, Opened
    <3>3. OutcomeInv'
      BY <2>1, <2>5, <2>6 DEF OutcomeInv, InAction, Opened
    <3> QED  BY <3>1, <3>2, <3>3
  <2> QED  BY <2>2, <2>3, <2>7, <2>8 DEF NnpkgInv, ProgInv
<1> QED  BY <1>1, <1>2 DEF Destroy

LEMMA NextTransactionInv == NnpkgInv /\ NextTransaction => NnpkgInv'
<1> SUFFICES ASSUME NnpkgInv, NextTransaction PROVE NnpkgInv'
  OBVIOUS
<1>1. /\ program = "transactions" /\ at' = "idle" /\ result' = FALSE /\ lost' = FALSE
      /\ before' = [l \in Locations |-> NoFile] /\ confFile' = DefaultConf /\ pkgPath' = NoWord
      /\ UNCHANGED <<program, runs, argv, i, parsed, confVars>> /\ SameDb
  BY DEF NextTransaction
<1>2. /\ \A k \in DOMAIN pkgDbs : pkgDbs[k].type = "DEST"
      /\ parsed = "none"
  BY <1>1 DEF NnpkgInv, ProgInv, ControlInv, OwnInv
<1>3. DbInv' /\ ConfInv' /\ PathInv'
  BY <1>1, SameDbs, SameConf DEF NnpkgInv
<1>4. ParserInv'
  BY <1>1, <1>2, WordFacts DEF NnpkgInv, ParserInv, CliTypeOK, ParserMeetsGrammar
<1>5. ProgTypeOK'
  <2>1. before' \in [Locations -> File]
    BY <1>1 DEF NoFile, File, Stages
  <2> QED  BY <1>1, <2>1 DEF NnpkgInv, ProgInv, ProgTypeOK
<1>6. files' = files /\ pkgDbs' = pkgDbs
  BY <1>1 DEF SameDb, dbVars
<1>7. ControlInv' /\ FileInv' /\ OwnInv' /\ OutcomeInv'
  BY <1>1, <1>2, <1>6 DEF ControlInv, FileInv, OwnInv, OutcomeInv, Opened, InAction
<1> QED  BY <1>3, <1>4, <1>5, <1>7 DEF NnpkgInv, ProgInv

LEMMA StutterNnpkgInv == NnpkgInv /\ UNCHANGED vars => NnpkgInv'
<1> SUFFICES ASSUME NnpkgInv, UNCHANGED vars PROVE NnpkgInv'
  OBVIOUS
<1>1. UNCHANGED dbVars /\ UNCHANGED cliVars /\ UNCHANGED confVars /\ UNCHANGED progVars
  BY DEF vars
<1>2. DbInv' /\ ParserInv' /\ ConfInv' /\ PathInv'
  BY <1>1, StutterInv, SameCli, SameConf DEF NnpkgInv
<1>3. /\ files' = files /\ proc' = proc /\ pkgDbs' = pkgDbs /\ torn' = torn
      /\ argv' = argv /\ i' = i /\ confFile' = confFile /\ pkgPath' = pkgPath /\ parsed' = parsed
      /\ conf' = conf /\ cbConf' = cbConf /\ parse' = parse
      /\ program' = program /\ at' = at /\ result' = result
      /\ lost' = lost /\ runs' = runs /\ before' = before /\ creating' = creating
  BY <1>1 DEF dbVars, cliVars, confVars, progVars
<1>4. ProgTypeOK'
  BY <1>3 DEF NnpkgInv, ProgInv, ProgTypeOK
<1>5. ControlInv' /\ FileInv'
  BY <1>3 DEF NnpkgInv, ProgInv, ControlInv, FileInv, CliInit, ConfInit, IsParsed, ForInit,
              ForAdd, IsAdd
<1>6. OwnInv'
  BY <1>3 DEF NnpkgInv, ProgInv, OwnInv, Own, Unwritten, IsWritten, OnlyAt, DbPath
<1>7. Outcome' <=> Outcome
  BY <1>1, <1>3, SameOutcome
<1>8. OutcomeInv'
  <2>1. Configured(ConfGiven)' = Configured(ConfGiven)
    BY <1>1, SameLine
  <2>2. \A l : BegunAt(l)' <=> BegunAt(l)
    BY <1>3 DEF BegunAt, OnlyAt
  <2>3. (creating \in Locations /\ creating = Configured(ConfGiven) /\ BegunAt(creating))
        => (creating \in Locations /\ creating = Configured(ConfGiven) /\ BegunAt(creating))'
    BY <1>3, <2>1, <2>2 DEF BegunAt, OnlyAt
  <2> QED  BY <1>3, <1>7, <2>3 DEF NnpkgInv, ProgInv, OutcomeInv
<1> QED  BY <1>2, <1>4, <1>5, <1>6, <1>8 DEF NnpkgInv, ProgInv

-----------------------------------------------------------------------------
(* Every step.                                                             *)

LEMMA NextInv == NnpkgInv /\ [Next]_vars => NnpkgInv'
<1>1. NnpkgInv /\ Exits => NnpkgInv'
  BY DiesAndForgets DEF Exits
<1>2. NnpkgInv /\ Killed => NnpkgInv'
  BY DiesAndForgets DEF Killed
<1>3. NnpkgInv /\ Work => NnpkgInv'
  BY ClientInv, ParseLineInv, InitConfInv, InitCreateInv, InitWritesInv, InitFailsInv,
     InitUnconfiguredInv, RunConfInv, RunOpenInv, RunOpenFreedInv, RunReadInv, RunAddInv,
     RunCloseInv, RunCloseDbInv, DestroyConfInv DEF Work
<1> QED  BY <1>1, <1>2, <1>3, StartCommandInv, StartClientInv, StartTransactionsInv, ClientInv,
            BeginTransactionInv, NextTransactionInv, StutterNnpkgInv DEF Next

LEMMA Invariance == Spec => []NnpkgInv
BY InitInv, NextInv, PTL DEF Spec

(* Every variable of the programs keeps to its values.                     *)
THEOREM TypeCorrect == Spec => []TypeOK
<1>1. NnpkgInv => TypeOK
  BY DEF NnpkgInv, DbInv, ParserInv, ConfInv, ProgInv, ProgTypeOK, TypeOK
<1> QED  BY <1>1, Invariance, PTL

(* What PkgFindPackage returns is there with all it depends on, in the     *)
(* first database of the list that has it so; it returns NULL only when    *)
(* none has (pkg.c, pkgdb.c).  This is so whatever programs were killed    *)
(* before, in PropDbCreate or PropDbClose too, and whatever writes failed, *)
(* but for a database whose commit was cut off behind a property.          *)
THEOREM LookupsAreRight == Spec => []LookupIsRight
<1>1. NnpkgInv => LookupIsRight
  BY RightInv DEF NnpkgInv
<1> QED  BY <1>1, Invariance, PTL

(* The tree PkgFindPackage returns is of packages that were committed and  *)
(* not removed, with the dependencies they were added with, in their       *)
(* order, and has all of them (pkgDbFindPackage, PkgDbAddPackage).  In a   *)
(* database whose commit was cut off they may never have been committed.   *)
THEOREM LookupsFindWhatWasAdded == Spec => []FoundAsAdded
<1>1. NnpkgInv => FoundAsAdded
  BY FoundInv DEF NnpkgInv
<1> QED  BY <1>1, Invariance, PTL

(* When PkgFindPackage returns NULL, cb->error and cb->errHint name what   *)
(* is missing in the last database (pkgdb.c:206), unless a commit to it    *)
(* was cut off.                                                            *)
THEOREM LookupErrorsAreTrue == Spec => []ErrorIsTrue
<1>1. NnpkgInv => ErrorIsTrue
  BY ErrorInv DEF NnpkgInv
<1> QED  BY <1>1, Invariance, PTL

(* After PkgParseMainConf has succeeded, the static structure holds the    *)
(* last value of each path the file gives, whatever was parsed, refused or *)
(* freed before (pkgconf.c).                                               *)
THEOREM ConfigurationIsOfFile == Spec => []ConfIsOfFile
<1>1. NnpkgInv => ConfIsOfFile
  BY DEF NnpkgInv, ConfInv
<1> QED  BY <1>1, Invariance, PTL

(* parseArgs and parseArg (main.c) accept the lines of the grammar and no  *)
(* others, for lines of any length, and take from them what it says.       *)
THEOREM LinesAreParsed == Spec => []ParserMeetsGrammar
<1>1. NnpkgInv => ParserMeetsGrammar
  BY DEF NnpkgInv, ParserInv
<1> QED  BY <1>1, Invariance, PTL

(* The exit status of init and add, and the result of every transaction of *)
(* a process that runs several: success means that the database the        *)
(* configuration names has been made or has the package, unless a failed   *)
(* write lost it, and that nothing else has changed; failure that no       *)
(* database that was there has changed, though init may have left a part   *)
(* of its own (main.c, initDb.c, addPkg.c, transaction.c, propdb.c).       *)
THEOREM ResultsAreTrue == Spec => []ResultIsTrue
<1>1. NnpkgInv => ResultIsTrue
  <2> SUFFICES ASSUME NnpkgInv, at = "done" PROVE ResultIsTrue
    BY DEF ResultIsTrue
  <2>1. Outcome
    BY DEF NnpkgInv, ProgInv, OutcomeInv
  <2>2. program = "transactions" => argv = <<>>
    BY DEF NnpkgInv, ProgInv, ControlInv, ParserInv
  <2> QED  BY <2>1, <2>2 DEF Outcome, ResultIsTrue
<1> QED  BY <1>1, Invariance, PTL
=============================================================================
