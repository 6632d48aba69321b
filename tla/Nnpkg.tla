-------------------------------- MODULE Nnpkg --------------------------------
(***************************************************************************)
(* The programs that use libnnpkg, one after another on the same files:    *)
(* the command nnpkg from its command line to its exit status (main.c,     *)
(* initDb.c, addPkg.c), and processes that call the library themselves,    *)
(* either the package databases (PkgDb) or one transaction after another   *)
(* with the main configuration that outlives them (MainConf).  Programs    *)
(* that overlap are the matter of PropDb and Transaction; so are the index *)
(* and the states of a transaction, of which only the calls are kept here. *)
(***************************************************************************)
EXTENDS PkgDb, CommandLine, MainConf

CONSTANTS
  PkgFiles,     \* words that name a package configuration file
  Described,    \* the package each describes
  Commands,     \* command lines that may be given at any time
  FirstLines,   \* bound: those given only as long as there is no database
  MaxRuns       \* bound: transactions of a process

(* The database and the string table of a location are given by the same   *)
(* path here, and a file gives both or neither, at the same place.         *)
ASSUME NnpkgAssumption ==
  /\ PkgFiles \subseteq Words
  /\ Described \in [PkgFiles -> Packages]
  /\ Commands \subseteq Seq(Words) /\ FirstLines \subseteq Seq(Words)
  /\ ConfFiles \subseteq Words /\ Locations \subseteq Paths
  /\ MaxRuns \in Nat
  /\ \A f \in ConfFiles : \A k \in DOMAIN Values[f] :
       Values[f][k].field = "dbPath" =>
         /\ Values[f][k].path \in Locations
         /\ k < Len(Values[f])
         /\ Values[f][k + 1] = [field |-> "strtabPath", path |-> Values[f][k].path]

VARIABLES
  program,   \* what runs: "nnpkg", "client", "transactions" or "none"
  at,        \* where it is
  result,    \* what the action or the last transaction returned
  lost,      \* history: a write of its package to the database has failed
  runs,      \* transactions of this process so far
  before     \* history: the databases when the action or transaction began

progVars == <<program, at, result, lost, runs, before>>
vars == <<dbVars, cliVars, confVars, progVars>>

TypeOK ==
  /\ DbTypeOK /\ CliTypeOK /\ ConfTypeOK
  /\ program \in {"none", "nnpkg", "client", "transactions"}
  /\ at \in {"none", "line", "client", "idle", "init", "create", "creating", "conf",
             "open", "read", "add", "close", "closing", "destroy", "done"}
  /\ result \in BOOLEAN /\ lost \in BOOLEAN
  /\ runs \in 0 .. MaxRuns
  /\ before \in [Locations -> File]

Init ==
  /\ DbInit /\ CliInit /\ ConfInit
  /\ program = "none" /\ at = "none" /\ result = FALSE /\ lost = FALSE
  /\ runs = 0 /\ before = files

-----------------------------------------------------------------------------
(* Processes.                                                              *)

BeginDb == Begin /\ SameButProc
SameDb  == UNCHANGED dbVars

Goto(l)       == at' = l /\ UNCHANGED <<program, result, lost, runs, before>>
Decides(r, l) == result' = r /\ at' = l /\ UNCHANGED <<program, lost, runs, before>>
Return(r)     == Decides(r, "done")

(* The process is gone, with all that is static. *)
Forget ==
  /\ CliClear /\ ConfClear
  /\ program' = "none" /\ at' = "none" /\ result' = FALSE /\ lost' = FALSE /\ runs' = 0
  /\ before' = [l \in Locations |-> NoFile]

Killed == MayEnd /\ Dies /\ Forget

(* As the command removes nothing; an addition after a removal is the      *)
(* matter of PropDb.                                                       *)
NoneRemoved == \A l \in Locations : files[l].free = 0
RoomLeft    == \A l \in Locations : \A n \in {files[l].count, Len(files[l].props)} :
                 n <= MaxSlots[l]
NoneMade    == \A l \in Locations : files[l].made = "absent"

StartCommand ==
  /\ program = "none" /\ NoneRemoved /\ RoomLeft
  /\ BeginDb
  /\ \E words \in Commands \cup (IF NoneMade THEN FirstLines ELSE {}) :
       CliStart(words)
  /\ program' = "nnpkg" /\ at' = "line"
  /\ before' = files
  /\ UNCHANGED <<confVars, result, lost, runs>>

StartClient ==
  /\ program = "none"
  /\ BeginDb
  /\ program' = "client" /\ at' = "client"
  /\ UNCHANGED <<cliVars, confVars, result, lost, runs, before>>

StartTransactions ==
  /\ program = "none" /\ NoneRemoved /\ RoomLeft
  /\ BeginDb
  /\ program' = "transactions" /\ at' = "idle"
  /\ UNCHANGED <<cliVars, confVars, result, lost, runs, before>>

(* A process that calls the package databases. *)
ClientLives == IF proc' = "gone" THEN Forget
                                 ELSE UNCHANGED <<cliVars, confVars, progVars>>

ClientCalls == at = "client" /\ Call /\ ClientLives
ClientWorks == at = "client" /\ Step /\ ClientLives

-----------------------------------------------------------------------------
(* main.                                                                   *)

ParseLine ==
  /\ at = "line" /\ Parse
  /\ CASE parsed' = "failed" -> Return(FALSE)
       [] parsed' = "helped" -> Return(TRUE)
       [] parsed' = "ok" /\ argv[1] = "init"                  -> Goto("init")
       [] parsed' = "ok" /\ IsAdd /\ pkgPath # NoWord         -> Goto("conf")
       [] parsed' = "ok" /\ IsAdd /\ pkgPath = NoWord         -> Return(FALSE)
       [] OTHER                                               -> UNCHANGED progVars
  /\ UNCHANGED confVars /\ SameDb

(* initRunAction ignores what PkgParseMainConf returns. *)
InitConf ==
  /\ at = "init"
  /\ ParseMainConf(confFile)
  /\ Goto("create")
  /\ UNCHANGED cliVars /\ SameDb

InitCreate ==
  /\ at = "create" /\ cbConf
  /\ CreateDb(conf["dbPath"].path)
  /\ IF creating' # Nowhere THEN Goto("creating") ELSE Return(FALSE)
  /\ UNCHANGED <<cliVars, confVars>>

InitWrites ==
  /\ at = "creating" /\ CreateStep
  /\ IF creating' # Nowhere THEN Goto("creating") ELSE Decides(TRUE, "destroy")
  /\ UNCHANGED <<cliVars, confVars>>

InitFails ==
  /\ at = "creating" /\ CreateFails
  /\ Return(FALSE)
  /\ UNCHANGED <<cliVars, confVars>>

(* cb.conf is read without a value: whatever it leads to is no path of a   *)
(* database, or ends the process.                                          *)
InitUnconfigured ==
  /\ at = "create" /\ ~cbConf
  /\ \/ Dies /\ Forget
     \/ Return(FALSE) /\ SameDb /\ UNCHANGED <<cliVars, confVars>>

-----------------------------------------------------------------------------
(* A transaction that adds a package, of nnpkg add or of a process that    *)
(* runs several.                                                           *)

(* The package configuration file: of the command line, or of the caller.  *)
BeginTransaction ==
  /\ at = "idle" /\ runs < MaxRuns /\ RoomLeft
  /\ \E c \in ConfFiles, w \in PkgFiles : confFile' = c /\ pkgPath' = w
  /\ at' = "conf" /\ runs' = runs + 1 /\ before' = files
  /\ UNCHANGED <<program, result, lost, argv, i, parsed, confVars>> /\ SameDb

(* transactRunInit. *)
RunConf ==
  /\ at = "conf"
  /\ ParseMainConf(confFile)
  /\ IF parse'.ok THEN Goto("open") ELSE Return(FALSE)
  /\ UNCHANGED cliVars /\ SameDb

DbPath == conf["dbPath"]

(* The database of a transaction that failed without cleanup may be open. *)
RunOpen ==
  /\ at = "open" /\ DbPath.live
  /\ \/ /\ \/ PkgOpenDb(DbPath.path, "DEST") /\ Goto("read")
           \/ PkgOpenDbFails(DbPath.path) /\ Return(FALSE)
        /\ UNCHANGED <<cliVars, confVars>>
     \/ PkgOpenDbDies(DbPath.path) /\ Forget

(* The path was freed by the transaction before: its text is gone. *)
RunOpenFreed ==
  /\ at = "open" /\ ~DbPath.live
  /\ \/ Dies /\ Forget
     \/ /\ Ready /\ Returns("SYS", <<>>)
        /\ UNCHANGED <<files, pkgDbs, creating, promised>>
        /\ Return(FALSE)
        /\ UNCHANGED <<cliVars, confVars>>

(* transactReadPkgConf to transactWriteIndex, which Transaction models.  A *)
(* package with dependencies never gets past them (pkgconf.c:455), nor one *)
(* whose links cannot be collected; where a link cannot be made, nothing   *)
(* is cleaned up: the database stays open, and locked.                     *)
Readable == pkgPath \in PkgFiles /\ Described[pkgPath].deps = <<>>

RunRead ==
  /\ at = "read"
  /\ \/ Readable /\ Goto("add")
     \/ Decides(FALSE, "close")
     \/ Readable /\ Return(FALSE)
  /\ UNCHANGED <<cliVars, confVars>> /\ SameDb

(* transactAddPkg. *)
RunAddUnchecked ==                                        \* seeded fault
  /\ at = "add"
  /\ PkgAddPackage(Described[pkgPath])
  /\ Decides(TRUE, "close")
  /\ UNCHANGED <<cliVars, confVars>>
RunAdd ==
  /\ at = "add"
  /\ PkgAddPackage(Described[pkgPath])
  /\ Decides(error' = "NONE", "close")
  /\ UNCHANGED <<cliVars, confVars>>

(* transactCleanupPkgSys, whether or not anything failed. *)
RunClose ==
  /\ at = "close" /\ PkgCloseDbs
  /\ Goto("closing")
  /\ UNCHANGED <<cliVars, confVars>>

RunCloseDb ==
  /\ at = "closing"
  /\ \/ CloseAppend /\ UNCHANGED progVars
     \/ CloseAppendFails /\ lost' = TRUE /\ UNCHANGED <<program, at, result, runs, before>>
     \/ CloseDb /\ Goto("destroy")
  /\ UNCHANGED <<cliVars, confVars>>

(* PkgDestroyMainConf ends init and every transaction that opened its      *)
(* database.  A path that is freed already is freed again, which may end   *)
(* the process.                                                            *)
Destroy ==
  /\ at = "destroy"
  /\ \/ DestroyMainConf /\ Return(result) /\ UNCHANGED cliVars /\ SameDb
     \/ ~Destroyable /\ Dies /\ Forget

(* main returns, or the transaction does and others may follow. *)
Exits == at = "done" /\ program = "nnpkg" /\ Dies /\ Forget

NextTransaction ==
  /\ at = "done" /\ program = "transactions"
  /\ at' = "idle" /\ result' = FALSE /\ lost' = FALSE
  /\ before' = [l \in Locations |-> NoFile]
  /\ confFile' = DefaultConf /\ pkgPath' = NoWord
  /\ UNCHANGED <<program, runs, argv, i, parsed, confVars>> /\ SameDb

-----------------------------------------------------------------------------
(* A command, a transaction or a call of the package databases has begun   *)
(* and has not ended.                                                      *)
Busy ==
  at \notin {"none", "client", "idle", "done"} \/ Running \/ Making \/ Closing

Work ==
  /\ Busy
  /\ \/ ClientWorks \/ ParseLine
     \/ InitConf \/ InitCreate \/ InitUnconfigured \/ InitWrites \/ InitFails
     \/ RunConf \/ RunOpen \/ RunOpenFreed \/ RunRead \/ RunAdd
     \/ RunClose \/ RunCloseDb \/ Destroy

Next ==
  \/ StartCommand \/ StartClient \/ StartTransactions
  \/ Work \/ Exits \/ ClientCalls \/ BeginTransaction \/ NextTransaction \/ Killed

Spec == Init /\ [][Next]_vars

(* A program that runs is scheduled; nothing it waits for is another's.    *)
FairSpec == Spec /\ WF_vars(Work)

-----------------------------------------------------------------------------
(* Properties, with those of PkgDb, CommandLine and MainConf. *)

(* The location the last "packageDb" of a configuration file names. *)
Names(file) == {k \in DOMAIN Values[file] : Values[file][k].field = "dbPath"}
Configured(file) ==
  Values[file][CHOOSE k \in Names(file) : \A j \in Names(file) : j <= k].path

OnlyAt(l) == \A m \in Locations \ {l} : files[m] = before[m]

BegunAt(l) ==
  /\ OnlyAt(l) /\ before[l].made = "absent"
  /\ \E made \in Stages : files[l] = [before[l] EXCEPT !.made = made]
MadeAt(l)  == BegunAt(l) /\ files[l].made = "ready"

(* The package is in the file, among what the header counts, and no other  *)
(* of its name was: of a torn database, only that it is in the file.       *)
NoneOf(file, n) == \A s \in DOMAIN file.props : file.props[s].id # n
AddedTo(l) ==
  LET pkg == Described[pkgPath]
  IN  /\ OnlyAt(l)
      /\ \E s \in DOMAIN files[l].props :
           /\ files[l].props[s] = Stored(pkg)
           /\ l \in torn \/ s <= files[l].count
      /\ l \in torn \/ NoneOf(before[l], pkg.id)

LostAt(l) == OnlyAt(l) /\ lost /\ files[l].props = before[l].props

(* The exit status is true, for any command line and any configuration: a  *)
(* successful init has made the database that the configuration named on   *)
(* the command line names, and a successful transaction has added its      *)
(* package there, unless the write failed that PropDbClose does not look   *)
(* at.  An action that fails has changed no database that was there: no    *)
(* transaction leaves anything, and init at most the empty database, or a  *)
(* part of it, that it was to make.                                        *)
ResultIsTrue ==
  at = "done" =>
    \/ ~result /\ files = before
    \/ /\ ~result /\ argv # <<>>
       /\ argv[1] = "init" /\ BegunAt(Configured(ConfGiven))
    \/ /\ result /\ argv # <<>>
       /\ \/ argv[1] = "init" /\ MadeAt(Configured(ConfGiven))
          \/ /\ IsAdd
             /\ AddedTo(Configured(ConfGiven)) \/ LostAt(Configured(ConfGiven))
          \/ argv[1] \notin {"init", "add"} /\ files = before
    \/ /\ result /\ argv = <<>>
       /\ \E l \in Locations :
            /\ AddedTo(l) \/ LostAt(l)
            /\ Names(confFile) # {} => l = Configured(confFile)

(* Again and again nothing runs: every command, every transaction and      *)
(* every call of the package databases ends, also on packages that depend  *)
(* on each other and however its configuration came about.  It returns, or *)
(* the process is gone.                                                    *)
CallsEnd == []<>~Busy
=============================================================================
