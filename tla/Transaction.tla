----------------------------- MODULE Transaction -----------------------------
(***************************************************************************)
(* "nnpkg add": the transaction state machine (transaction.c) with the     *)
(* index manager (indexMan.c), the package configuration reader            *)
(* (pkgconf.c), the package database layers (pkg.c, pkgdb.c) and, through  *)
(* the actions of PropDb, the property database itself.                    *)
(*                                                                         *)
(* A process is one invocation of the command at a time.  Its calls into   *)
(* the property database are the steps of PropDb; creating one symbolic    *)
(* link is one step.  The database and the index (a directory of links,    *)
(* one per file of a package) are shared by all processes, and a process   *)
(* may be killed anywhere.  The database has been initialised and, since   *)
(* the command line has no action to remove a package, nothing is removed; *)
(* properties are told apart by their names (W <- 1).  Out of memory is    *)
(* not modelled.                                                           *)
(***************************************************************************)
EXTENDS Integers, Sequences, FiniteSets

CONSTANTS
  Names, NoString, StrtabHeader, Procs, Crashable, Faulty, NoProc,  \* see PropDb
  Files,     \* file names in the index, "bin/ls"
  Confs,     \* package configuration files
  Pkg,       \* what each of them says
  NoLink,    \* no link of that name in the index
  MaxRuns    \* bound: commands run, all processes together

(* A configuration file: whether it parses, its package's identifier and   *)
(* dependencies, whether it gives a prefix and a description, and the      *)
(* files that its prefix holds.                                            *)
Package == [parses : BOOLEAN, id : Names, deps : SUBSET Names,
            prefix : BOOLEAN, description : BOOLEAN, files : SUBSET Files]

ASSUME TransactionAssumption ==
  /\ NoString \notin Names /\ StrtabHeader \notin Names
  /\ NoProc \notin Procs /\ Crashable \subseteq Procs /\ Faulty \subseteq Procs
  /\ Confs # {} /\ Pkg \in [Confs -> Package]
  /\ NoLink \notin Confs
  /\ MaxRuns \in Nat

VARIABLES
  dbFile, slots, numSlots, numProps, numFreeProps,
  strFile, strtab, strtabLen, lock, pc, db, promised,        \* see PropDb
  state,     \* cb->state of each process; "NONE" when it runs no command
  error,     \* cb->error
  conf,      \* the configuration file it was given
  todo,      \* idxEntries not yet linked
  index,     \* the index: the package each link leads to
  runs       \* commands run so far

Db == INSTANCE PropDb WITH
  W <- 1, MaxSlots <- MaxRuns, MaxStrs <- MaxRuns, MaxProps <- MaxRuns,
  Props <- [name : Names, data : {<<>>}],
  Initers <- {}, Removers <- {}, MaxRemoves <- 0

fileVars == <<dbFile, slots, numSlots, numProps, numFreeProps,
              strFile, strtab, strtabLen>>
dbVars   == <<dbFile, slots, numSlots, numProps, numFreeProps,
              strFile, strtab, strtabLen, lock, pc, db, promised>>
cbVars   == <<state, error, conf, todo>>
vars     == <<dbFile, slots, numSlots, numProps, numFreeProps,
              strFile, strtab, strtabLen, lock, pc, db, promised,
              state, error, conf, todo, index, runs>>

Running == {"INIT_PKGSYS", "READ_PKGCONF", "COLLECT_INDEX", "WRITE_INDEX",
            "ADDPKG", "CLEANUP_PKGSYS"}
States  == Running \cup {"NONE", "ACCEPT", "ERR"}

Errors == {"NONE", "SYS", "DB_LOCKED", "PKG_EXIST", "BROKEN_DEP", "SYNTAX_ERR"}

TypeOK ==
  /\ Db!TypeOK
  /\ state \in [Procs -> States]
  /\ error \in [Procs -> Errors]
  /\ conf \in [Procs -> Confs]
  /\ todo \in [Procs -> SUBSET Files]
  /\ index \in [Files -> Confs \cup {NoLink}]
  /\ runs \in 0 .. MaxRuns

Init ==
  /\ Db!Init
  /\ state = [p \in Procs |-> "NONE"]
  /\ error = [p \in Procs |-> "NONE"]
  /\ conf \in [Procs -> {CHOOSE c \in Confs : TRUE}]
  /\ todo = [p \in Procs |-> {}]
  /\ index = [f \in Files |-> NoLink]
  /\ runs = 0

-----------------------------------------------------------------------------
(* The transaction engine. *)

(* transactNextState, for a transaction that adds a package. *)
NextStateUnlinked ==                                      \* seeded fault
  [INIT_PKGSYS |-> "READ_PKGCONF", READ_PKGCONF |-> "COLLECT_INDEX",
   COLLECT_INDEX |-> "ADDPKG", WRITE_INDEX |-> "ADDPKG",
   ADDPKG |-> "CLEANUP_PKGSYS", CLEANUP_PKGSYS |-> "ACCEPT"]
NextStateUnadded ==                                       \* seeded fault
  [INIT_PKGSYS |-> "READ_PKGCONF", READ_PKGCONF |-> "COLLECT_INDEX",
   COLLECT_INDEX |-> "WRITE_INDEX", WRITE_INDEX |-> "CLEANUP_PKGSYS",
   ADDPKG |-> "CLEANUP_PKGSYS", CLEANUP_PKGSYS |-> "ACCEPT"]
NextStateLoops ==                                         \* seeded fault
  [INIT_PKGSYS |-> "READ_PKGCONF", READ_PKGCONF |-> "COLLECT_INDEX",
   COLLECT_INDEX |-> "WRITE_INDEX", WRITE_INDEX |-> "COLLECT_INDEX",
   ADDPKG |-> "CLEANUP_PKGSYS", CLEANUP_PKGSYS |-> "ACCEPT"]
NextState ==
  [INIT_PKGSYS |-> "READ_PKGCONF", READ_PKGCONF |-> "COLLECT_INDEX",
   COLLECT_INDEX |-> "WRITE_INDEX", WRITE_INDEX |-> "ADDPKG",
   ADDPKG |-> "CLEANUP_PKGSYS", CLEANUP_PKGSYS |-> "ACCEPT"]

SetState(p, s) == state' = [state EXCEPT ![p] = s]
Advance(p)     == SetState(p, NextState[state[p]]) /\ UNCHANGED error

(* The state becomes ERR and the progress hook prints the error. *)
Fail(p, e) == SetState(p, "ERR") /\ error' = [error EXCEPT ![p] = e]

(* The process is gone, and what it held with it. *)
Die(p) ==
  /\ Db!Leave(p)
  /\ SetState(p, "NONE")
  /\ todo' = [todo EXCEPT ![p] = {}]
  /\ UNCHANGED <<fileVars, promised, error, conf, index, runs>>

P(p) == Pkg[conf[p]]     \* the package p is adding

(* A command starts, on a process that has none. *)
Start(p) ==
  /\ state[p] \notin Running /\ pc[p] = "idle"
  /\ runs < MaxRuns
  /\ \E c \in Confs : conf' = [conf EXCEPT ![p] = c]
  /\ SetState(p, "INIT_PKGSYS")
  /\ error' = [error EXCEPT ![p] = "NONE"]
  /\ runs' = runs + 1
  /\ UNCHANGED <<dbVars, todo, index>>

-----------------------------------------------------------------------------
(* INIT_PKGSYS: the configuration is read and the database opened.         *)

(* nnpkg.conf is wrong, or stat or open of the database fails. *)
InitFails(p) ==
  /\ state[p] = "INIT_PKGSYS" /\ pc[p] = "idle"
  /\ \E e \in {"SYNTAX_ERR", "SYS"} : Fail(p, e)
  /\ UNCHANGED <<dbVars, conf, todo, index, runs>>

(* The steps of PropDbOpen before its last. *)
OpenDb(p) ==
  /\ state[p] = "INIT_PKGSYS"
  /\ Db!OpenStat(p) \/ Db!OpenLock(p) \/ Db!OpenMap(p)
  /\ UNCHANGED <<cbVars, index, runs>>

OpenDbLocked(p) ==
  /\ state[p] = "INIT_PKGSYS"
  /\ Db!OpenLocked(p)
  /\ Fail(p, "DB_LOCKED")
  /\ UNCHANGED <<conf, todo, index, runs>>

DbOpened(p) ==
  /\ state[p] = "INIT_PKGSYS"
  /\ Db!OpenStrtab(p)
  /\ Advance(p)
  /\ UNCHANGED <<conf, todo, index, runs>>

-----------------------------------------------------------------------------
(* READ_PKGCONF: PkgReadConf. *)

ReadPkgConf(p) ==
  /\ state[p] = "READ_PKGCONF"
  /\ P(p).parses /\ P(p).deps = {}
  /\ Advance(p)
  /\ UNCHANGED <<dbVars, conf, todo, index, runs>>

ReadPkgConfSyntax(p) ==
  /\ state[p] = "READ_PKGCONF"
  /\ ~P(p).parses
  /\ Fail(p, "SYNTAX_ERR")
  /\ UNCHANGED <<dbVars, conf, todo, index, runs>>

(* A dependency is looked up with an entry of pkgDbs, an NnpkgPackageDb_t, *)
(* passed where pkgDbFindPackage takes the NnpkgPropDb_t inside it: what   *)
(* is read is not the database.  The lookup finds nothing, whether or not  *)
(* the package is there, or the process dies.                              *)
ReadPkgConfDeps(p) ==
  /\ state[p] = "READ_PKGCONF"
  /\ P(p).deps # {}
  /\ \/ /\ Fail(p, "BROKEN_DEP")
        /\ UNCHANGED <<dbVars, conf, todo, index, runs>>
     \/ Die(p)

-----------------------------------------------------------------------------
(* COLLECT_INDEX: IdxCollectEntries lists the files under the prefix. *)

CollectIndex(p) ==
  /\ state[p] = "COLLECT_INDEX" /\ P(p).prefix
  /\ todo' = [todo EXCEPT ![p] = P(p).files]
  /\ Advance(p)
  /\ UNCHANGED <<dbVars, conf, index, runs>>

(* opendir fails with something else than ENOENT. *)
CollectIndexFails(p) ==
  /\ state[p] = "COLLECT_INDEX" /\ P(p).prefix
  /\ Fail(p, "SYS")
  /\ UNCHANGED <<dbVars, conf, todo, index, runs>>

(* assert (pkg->prefix), or the null pointer behind it. *)
CollectIndexDies(p) ==
  /\ state[p] = "COLLECT_INDEX" /\ ~P(p).prefix
  /\ Die(p)

-----------------------------------------------------------------------------
(* WRITE_INDEX: IdxWriteIndex makes one link per file. *)

(* symlink leaves a link that exists as it is; the EEXIST is ignored. *)
Symlink(f, c) == IF index[f] = NoLink THEN [index EXCEPT ![f] = c] ELSE index

WriteLink(p) ==
  /\ state[p] = "WRITE_INDEX"
  /\ \E f \in todo[p] :
       /\ index' = Symlink(f, conf[p])
       /\ todo' = [todo EXCEPT ![p] = @ \ {f}]
  /\ UNCHANGED <<dbVars, state, error, conf, runs>>

(* Any other error: nothing is cleaned up, the links made stay, and the    *)
(* command exits with the database open.                                   *)
WriteLinkFails(p) ==
  /\ state[p] = "WRITE_INDEX" /\ todo[p] # {}
  /\ Fail(p, "SYS")
  /\ Db!Leave(p)
  /\ todo' = [todo EXCEPT ![p] = {}]
  /\ UNCHANGED <<fileVars, promised, conf, index, runs>>

IndexWritten(p) ==
  /\ state[p] = "WRITE_INDEX" /\ todo[p] = {}
  /\ Advance(p)
  /\ UNCHANGED <<dbVars, conf, todo, index, runs>>

-----------------------------------------------------------------------------
(* ADDPKG: PkgDbAddPackage. *)

PkgExists(p) == Db!InBatch(p, P(p).id) \/ Db!Found(P(p).id)

AddPkg(p) ==
  /\ state[p] = "ADDPKG" /\ P(p).description
  /\ Db!AddProp(p)
  /\ db'[p].propsToAdd[Len(db'[p].propsToAdd)].name = P(p).id
  /\ Advance(p)
  /\ UNCHANGED <<conf, todo, index, runs>>

AddPkgExists(p) ==
  /\ state[p] = "ADDPKG" /\ PkgExists(p)
  /\ Fail(p, "PKG_EXIST")
  /\ UNCHANGED <<dbVars, conf, todo, index, runs>>

(* The text of a description that was never given is read. *)
AddPkgDies(p) ==
  /\ state[p] = "ADDPKG" /\ ~PkgExists(p) /\ ~P(p).description
  /\ Die(p)

-----------------------------------------------------------------------------
(* CLEANUP_PKGSYS, and the same call after an error once the database is   *)
(* open: PkgCloseDbs, which is PropDbClose, commits and closes.            *)

CloseDbs(p) ==
  /\ state[p] \in {"CLEANUP_PKGSYS", "ERR"}
  /\ \/ Db!BeginClose(p)
     \/ Db!CloseAlloc(p) \/ Db!CloseAllocFails(p)
     \/ Db!CloseAppend(p) \/ Db!CloseAppendFails(p)
     \/ Db!CloseHeader(p)
  /\ UNCHANGED <<cbVars, index, runs>>

DbsClosed(p) ==
  /\ Db!CloseUnlock(p)
  /\ \/ state[p] = "CLEANUP_PKGSYS" /\ Advance(p)
     \/ state[p] = "ERR" /\ UNCHANGED <<state, error>>
  /\ UNCHANGED <<conf, todo, index, runs>>

(* The command is killed. *)
Crash(p) ==
  /\ p \in Crashable /\ pc[p] # "idle"
  /\ Die(p)

-----------------------------------------------------------------------------
Run(p) ==
  \/ InitFails(p) \/ OpenDb(p) \/ OpenDbLocked(p) \/ DbOpened(p)
  \/ ReadPkgConf(p) \/ ReadPkgConfSyntax(p) \/ ReadPkgConfDeps(p)
  \/ CollectIndex(p) \/ CollectIndexFails(p) \/ CollectIndexDies(p)
  \/ WriteLink(p) \/ WriteLinkFails(p) \/ IndexWritten(p)
  \/ AddPkg(p) \/ AddPkgExists(p) \/ AddPkgDies(p)
  \/ CloseDbs(p) \/ DbsClosed(p)

Next == \E p \in Procs : Start(p) \/ Run(p) \/ Crash(p)

Spec == Init /\ [][Next]_vars

(* A command that runs is scheduled; commands need not be started. *)
FairSpec == Spec /\ \A p \in Procs : WF_vars(Run(p))

-----------------------------------------------------------------------------
(* Properties.                                                             *)

(* The index is written before the package is added: whatever package a    *)
(* lookup in the database finds, every file of it has its name in the      *)
(* index, whichever commands failed or were killed on the way.             *)
FoundIsIndexed ==
  \A n \in Names : Db!Found(n) =>
    \E c \in Confs : Pkg[c].id = n /\ \A f \in Pkg[c].files : index[f] # NoLink

(* The lock on the database also guards the index: links are made only by  *)
(* the command that has the lock, so two commands never mix theirs.        *)
IndexUnderLock ==
  [][index' # index =>
       \E p \in Procs : lock = p /\ lock' = p /\ todo'[p] # todo[p]]_vars

(* What the command reports is what happened: "Done!" only once the        *)
(* package is committed, and an error only if it will not be.  A command   *)
(* whose writes fail says "Done!" all the same, so it is left out here;    *)
(* what others report stays true beside it.                                *)
OutcomeIsTrue ==
  \A p \in Procs \ Faulty :
    /\ state[p] = "ACCEPT" => \E q \in promised : q.name = P(p).id
    /\ state[p] = "ERR" => db[p].propsToAdd = <<>>

(* "Ensure conflicting ID doesn't exist" (pkgdb.c:91): as long as no       *)
(* command is killed, no two packages have the same identifier, even when  *)
(* commands run at the same time.                                          *)
DistinctIds == Db!DistinctNames

(* Every command ends and leaves the database unlocked, whatever fails. *)
CommandsEnd ==
  \A p \in Procs :
    state[p] \in Running ~> state[p] \notin Running /\ lock # p

(* "dependent on non-existant package" (addPkg.c:93): a dependency is      *)
(* reported broken only if the database does not have it.                  *)
BrokenDepIsMissing ==
  \A p \in Procs :
    state[p] = "ERR" /\ error[p] = "BROKEN_DEP" =>
      \E n \in P(p).deps : ~Db!Found(n)
=============================================================================
