-------------------------- MODULE Transaction_proofs --------------------------
(***************************************************************************)
(* Proofs about the transactions of "nnpkg add" (Transaction), for any     *)
(* processes, packages and files.  A transaction moves the database only   *)
(* by the steps of PropDb, so that what is proved of the engine carries    *)
(* over: Dbp is the database of the transactions with those proofs, where  *)
(* any process may be killed, because a transaction that dies on an        *)
(* incomplete package leaves as a killed one does.                         *)
(***************************************************************************)
EXTENDS Transaction, TLAPS

Dbp == INSTANCE PropDbNames_proofs WITH
  W <- 1, MaxSlots <- MaxRuns, MaxStrs <- MaxRuns, MaxProps <- MaxRuns,
  Props <- [name : Names, data : {<<>>}],
  Initers <- {}, Removers <- {}, MaxRemoves <- 0, Crashable <- Procs

-----------------------------------------------------------------------------
(* The assumptions of the engine hold of this use of it. *)
LEMMA DbAssumptions == Dbp!FormatAssumption /\ Dbp!PropDbAssumption
<1>1. MaxRuns \in Nat
  BY TransactionAssumption DEF TransactionAssumption
<1>2. Dbp!FormatAssumption
  BY <1>1, TransactionAssumption DEF TransactionAssumption, Dbp!FormatAssumption
<1>3. [name : Names, data : {<<>>}] \subseteq Dbp!Prop
  <2>1. <<>> \in Dbp!Data
    BY DEF Dbp!Data
  <2> QED  BY <2>1 DEF Dbp!Prop
<1>4. Dbp!PropDbAssumption
  BY <1>1, <1>3, TransactionAssumption DEF TransactionAssumption, Dbp!PropDbAssumption
<1> QED  BY <1>2, <1>4

-----------------------------------------------------------------------------
(* Db and Dbp are the same database. *)
LEMMA SameInit == Db!Init <=> Dbp!Init
BY DEF Db!Init, Dbp!Init, Db!Slots, Dbp!Slots, Db!Words, Dbp!Words, Db!ZeroSlot, Dbp!ZeroSlot,
       Db!ZeroWord, Dbp!ZeroWord, Db!NNPKG_PROP_TYPE_INVALID, Dbp!NNPKG_PROP_TYPE_INVALID,
       Db!NoSession, Dbp!NoSession, Db!NewTable, Dbp!NewTable, Db!EmptyTable, Dbp!EmptyTable,
       Db!Cells, Dbp!Cells

LEMMA SameReads ==
  /\ \A p, n : Db!InBatch(p, n) <=> Dbp!InBatch(p, n)
  /\ \A n : Db!Found(n) <=> Dbp!Found(n)
  /\ Db!DistinctNames <=> Dbp!DistinctNames
BY DEF Db!InBatch, Dbp!InBatch, Db!Found, Dbp!Found, Db!Matches, Dbp!Matches, Db!Slots,
       Dbp!Slots, Db!NameAt, Dbp!NameAt, Db!DistinctNames, Dbp!DistinctNames, Db!Live, Dbp!Live,
       Db!NNPKG_PROP_TYPE_PKG, Dbp!NNPKG_PROP_TYPE_PKG

LEMMA SameLeave == \A p : Db!Leave(p) <=> Dbp!Leave(p)
BY DEF Db!Leave, Dbp!Leave, Db!Goto, Dbp!Goto, Db!NoSession, Dbp!NoSession
LEMMA SameType == Db!TypeOK <=> Dbp!TypeOK
BY DEF Db!TypeOK, Dbp!TypeOK, Db!FileStates, Dbp!FileStates, Db!Slots, Dbp!Slots, Db!Slot,
       Dbp!Slot, Db!Words, Dbp!Words, Db!Word, Dbp!Word, Db!Cells, Dbp!Cells, Db!PropTypes,
       Dbp!PropTypes, Db!NNPKG_PROP_TYPE_PKG, Dbp!NNPKG_PROP_TYPE_PKG,
       Db!NNPKG_PROP_TYPE_INVALID, Dbp!NNPKG_PROP_TYPE_INVALID, Db!Pcs, Dbp!Pcs,
       Db!CreatePcs, Dbp!CreatePcs, Db!HoldPcs, Dbp!HoldPcs, Db!SessionPcs, Dbp!SessionPcs,
       Db!Session, Dbp!Session, Db!Removal, Dbp!Removal

LEMMA SameOpen ==
  \A p : /\ Db!OpenStat(p) <=> Dbp!OpenStat(p)
         /\ Db!OpenLock(p) <=> Dbp!OpenLock(p)
         /\ Db!OpenMap(p) <=> Dbp!OpenMap(p)
         /\ Db!OpenLocked(p) <=> Dbp!OpenLocked(p)
         /\ Db!OpenStrtab(p) <=> Dbp!OpenStrtab(p)
BY SameLeave
   DEF Db!OpenStat, Dbp!OpenStat, Db!OpenLock, Dbp!OpenLock, Db!OpenMap, Dbp!OpenMap,
       Db!OpenLocked, Dbp!OpenLocked, Db!OpenStrtab, Dbp!OpenStrtab, Db!Goto, Dbp!Goto,
       Db!SetDb, Dbp!SetDb, Db!LockFree, Dbp!LockFree, Db!StatSize, Dbp!StatSize,
       Db!StrtabEnd, Dbp!StrtabEnd, Db!NoSession, Dbp!NoSession,
       Db!dbVars, Dbp!dbVars, Db!strVars, Dbp!strVars

LEMMA SameCalls ==
  \A p : /\ Db!AddProp(p) <=> Dbp!AddProp(p)
         /\ Db!BeginClose(p) <=> Dbp!BeginClose(p)
         /\ Db!CloseHeader(p) <=> Dbp!CloseHeader(p)
         /\ Db!CloseUnlock(p) <=> Dbp!CloseUnlock(p)
BY SameLeave, SameReads
   DEF Db!AddProp, Dbp!AddProp, Db!BeginClose, Dbp!BeginClose, Db!CloseHeader,
       Dbp!CloseHeader, Db!CloseUnlock, Dbp!CloseUnlock, Db!Goto, Dbp!Goto, Db!SetDb,
       Dbp!SetDb, Db!HeaderMapped, Dbp!HeaderMapped, Db!Readable, Dbp!Readable, Db!InBounds,
       Dbp!InBounds, Db!Slots, Dbp!Slots, Db!AppendAt, Dbp!AppendAt, Db!RemovesDone,
       Dbp!RemovesDone, Db!AddsDone, Dbp!AddsDone,
       Db!dbVars, Dbp!dbVars, Db!strVars, Dbp!strVars

LEMMA SameStores ==
  \A p : /\ Db!CloseAlloc(p) <=> Dbp!CloseAlloc(p)
         /\ Db!CloseAllocFails(p) <=> Dbp!CloseAllocFails(p)
         /\ Db!CloseAppend(p) <=> Dbp!CloseAppend(p)
         /\ Db!CloseAppendFails(p) <=> Dbp!CloseAppendFails(p)
<1>1. \A p : Db!AllocPlace(p) <=> Dbp!AllocPlace(p)
  BY DEF Db!AllocPlace, Dbp!AllocPlace, Db!HeaderMapped, Dbp!HeaderMapped, Db!RemovesDone,
         Dbp!RemovesDone, Db!AddsDone, Dbp!AddsDone, Db!Goto, Dbp!Goto, Db!dbVars, Dbp!dbVars
<1>2. \A d : Db!Allocated(d) = Dbp!Allocated(d)
  <2>1. \A d : Db!Candidates(d) = Dbp!Candidates(d)
    BY DEF Db!Candidates, Dbp!Candidates, Db!FreeWords, Dbp!FreeWords, Db!ScanStart,
           Dbp!ScanStart, Db!ScanLen, Dbp!ScanLen, Db!Words, Dbp!Words,
           Db!NNPKG_PROP_TYPE_INVALID, Dbp!NNPKG_PROP_TYPE_INVALID
  <2>2. \A S : Db!FirstOf(S) = Dbp!FirstOf(S)
    BY DEF Db!FirstOf, Dbp!FirstOf
  <2> QED
    BY <2>1, <2>2 DEF Db!Allocated, Dbp!Allocated, Db!AllocProp, Dbp!AllocProp, Db!NextOff,
                      Dbp!NextOff, Db!ScanStart, Dbp!ScanStart, Db!ScanLen, Dbp!ScanLen
<1>3. \A d : Db!Counted(d) = Dbp!Counted(d)
  BY DEF Db!Counted, Dbp!Counted
<1>4. \A p : Db!EntryImage(p) = Dbp!EntryImage(p)
  BY DEF Db!EntryImage, Dbp!EntryImage, Db!Serialize, Dbp!Serialize, Db!Words, Dbp!Words,
         Db!NNPKG_PROP_TYPE_PKG, Dbp!NNPKG_PROP_TYPE_PKG
<1> QED
  BY <1>1, <1>2, <1>3, <1>4
     DEF Db!CloseAlloc, Dbp!CloseAlloc, Db!CloseAllocFails, Dbp!CloseAllocFails,
         Db!CloseAppend, Dbp!CloseAppend, Db!CloseAppendFails, Dbp!CloseAppendFails,
         Db!EndStore, Dbp!EndStore, Db!Goto, Dbp!Goto, Db!SetDb, Dbp!SetDb,
         Db!Larger, Dbp!Larger, Db!strVars, Dbp!strVars
-----------------------------------------------------------------------------
(* Where a transaction in state s can be in its database. *)
At(s, l) ==
  /\ s \in {"NONE", "ACCEPT"} => l = "idle"
  /\ s = "INIT_PKGSYS" => l \in {"idle", "opening", "locked", "open_strtab"}
  /\ s \in {"READ_PKGCONF", "COLLECT_INDEX", "WRITE_INDEX", "ADDPKG"} => l = "open"
  /\ s = "CLEANUP_PKGSYS" => l \in {"open", "closing", "storing", "closed"}
  /\ s = "ERR" => l \in {"idle", "open", "closing", "storing", "closed"}

ControlOK ==
  /\ state \in [Procs -> States] /\ error \in [Procs -> Errors]
  /\ conf \in [Procs -> Confs] /\ todo \in [Procs -> SUBSET Files]
  /\ index \in [Files -> Confs \cup {NoLink}] /\ runs \in 0 .. MaxRuns
  /\ pc \in [Procs -> Dbp!Pcs]

(* The part of the invariant that needs none of the engine. *)
ControlInv == ControlOK /\ \A p \in Procs : At(state[p], pc[p])

(* Every file of a package of this name has its name in the index. *)
Indexed(n) ==
  \E c \in Confs : Pkg[c].id = n /\ \A f \in Pkg[c].files : index[f] # NoLink

(* The names in the string table and those on their way to it are of       *)
(* packages whose files are in the index.                                  *)
IndexSession(p) ==
  /\ \A i \in DOMAIN db[p].propsToAdd : Indexed(db[p].propsToAdd[i].name)
  /\ state[p] = "WRITE_INDEX" => \A f \in P(p).files : f \in todo[p] \/ index[f] # NoLink
  /\ state[p] = "ADDPKG" => \A f \in P(p).files : index[f] # NoLink

IndexInv ==
  /\ \A c \in Dbp!Cells : strtab[c] \in Names => Indexed(strtab[c])
  /\ \A p \in Procs : IndexSession(p)

(* What a transaction commits: its package once it was added, and nothing  *)
(* before or after an error.                                               *)
OutcomeSession(p) ==
  /\ db[p].propsToRm = <<>>
  /\ state[p] # "CLEANUP_PKGSYS" => db[p].propsToAdd = <<>>
  /\ p \notin Faulty =>
       /\ ~db[p].failed
       /\ state[p] = "CLEANUP_PKGSYS" /\ pc[p] # "closed" =>
            \E i \in DOMAIN db[p].propsToAdd : db[p].propsToAdd[i].name = P(p).id
       /\ (state[p] = "CLEANUP_PKGSYS" /\ pc[p] = "closed") \/ state[p] = "ACCEPT" =>
            \E q \in promised : q.name = P(p).id

OutcomeInv == \A p \in Procs : OutcomeSession(p)

-----------------------------------------------------------------------------
(* The state machine and its place in the database. *)
LEMMA NextStates ==
  /\ NextState["INIT_PKGSYS"] = "READ_PKGCONF"
  /\ NextState["READ_PKGCONF"] = "COLLECT_INDEX"
  /\ NextState["COLLECT_INDEX"] = "WRITE_INDEX"
  /\ NextState["WRITE_INDEX"] = "ADDPKG"
  /\ NextState["ADDPKG"] = "CLEANUP_PKGSYS"
  /\ NextState["CLEANUP_PKGSYS"] = "ACCEPT"
BY DEF NextState

LEMMA PcsNamed ==
  {"idle", "opening", "locked", "open_strtab", "open", "closing", "storing", "closed"}
    \subseteq Dbp!Pcs
BY DEF Dbp!Pcs, Dbp!HoldPcs, Dbp!SessionPcs

LEMMA ControlMove ==
  ASSUME ControlInv, NEW p \in Procs, NEW s \in States, NEW l \in Dbp!Pcs, At(s, l),
         state' = [state EXCEPT ![p] = s], pc' = [pc EXCEPT ![p] = l],
         error' = error \/ \E e \in Errors : error' = [error EXCEPT ![p] = e],
         conf' = conf \/ \E c \in Confs : conf' = [conf EXCEPT ![p] = c],
         todo' = todo \/ \E S \in SUBSET Files : todo' = [todo EXCEPT ![p] = S],
         index' \in [Files -> Confs \cup {NoLink}], runs' \in 0 .. MaxRuns
  PROVE  ControlInv'
<1>1. /\ state' \in [Procs -> States] /\ pc' \in [Procs -> Dbp!Pcs]
      /\ \A q \in Procs : At(state[q], pc[q])'
  BY DEF ControlInv, ControlOK, At
<1>2. error' \in [Procs -> Errors] /\ conf' \in [Procs -> Confs]
  BY DEF ControlInv, ControlOK
<1>3. todo' \in [Procs -> SUBSET Files]
  BY DEF ControlInv, ControlOK
<1> QED  BY <1>1, <1>2, <1>3 DEF ControlInv, ControlOK

(* A transaction that dies, or leaves on an error. *)
LEMMA ControlDie ==
  ASSUME ControlInv, NEW p \in Procs, Die(p)
  PROVE  ControlInv'
<1>1. /\ state' = [state EXCEPT ![p] = "NONE"] /\ pc' = [pc EXCEPT ![p] = "idle"]
      /\ todo' = [todo EXCEPT ![p] = {}] /\ UNCHANGED <<error, conf, index, runs>>
  BY DEF Die, SetState, Db!Leave, Db!Goto
<1>2. At("NONE", "idle") /\ "NONE" \in States
  BY DEF At, States
<1> QED  BY <1>1, <1>2, PcsNamed, ControlMove DEF ControlInv, ControlOK

(* A step that leaves the database where it is. *)
LEMMA ControlStay ==
  ASSUME ControlInv, NEW p \in Procs, UNCHANGED dbVars,
         NEW s \in States, At(s, pc[p]), state' = [state EXCEPT ![p] = s],
         error' = error \/ \E e \in Errors : error' = [error EXCEPT ![p] = e],
         conf' = conf \/ \E c \in Confs : conf' = [conf EXCEPT ![p] = c],
         todo' = todo \/ \E S \in SUBSET Files : todo' = [todo EXCEPT ![p] = S],
         index' \in [Files -> Confs \cup {NoLink}], runs' \in 0 .. MaxRuns
  PROVE  ControlInv'
<1>1. pc' = [pc EXCEPT ![p] = pc[p]] /\ pc[p] \in Dbp!Pcs
  BY DEF dbVars, ControlInv, ControlOK
<1> QED  BY <1>1, ControlMove

LEMMA ControlStep ==
  ASSUME ControlInv, NEW p \in Procs, Start(p) \/ Run(p) \/ Crash(p)
  PROVE  ControlInv'
<1>a. /\ ControlOK /\ At(state[p], pc[p]) /\ P(p) \in Package
      /\ index \in [Files -> Confs \cup {NoLink}] /\ runs \in 0 .. MaxRuns
      /\ MaxRuns \in Nat /\ todo[p] \in SUBSET Files /\ conf[p] \in Confs
      /\ state[p] \in States /\ state \in [Procs -> States]
  BY TransactionAssumption DEF ControlInv, ControlOK, TransactionAssumption, P
<1>b. /\ {"NONE", "ACCEPT", "ERR", "INIT_PKGSYS", "READ_PKGCONF", "COLLECT_INDEX",
         "WRITE_INDEX", "ADDPKG", "CLEANUP_PKGSYS"} \subseteq States
      /\ {"NONE", "SYS", "DB_LOCKED", "PKG_EXIST", "BROKEN_DEP", "SYNTAX_ERR"}
           \subseteq Errors
  BY DEF States, Running, Errors
<1>1. CASE Start(p)
  <2>1. /\ state' = [state EXCEPT ![p] = "INIT_PKGSYS"] /\ UNCHANGED dbVars
        /\ error' = [error EXCEPT ![p] = "NONE"] /\ UNCHANGED <<todo, index>>
        /\ \E c \in Confs : conf' = [conf EXCEPT ![p] = c]
    BY <1>1 DEF Start, SetState
  <2>2. runs' \in 0 .. MaxRuns
    BY <1>1, <1>a DEF Start
  <2>3. At("INIT_PKGSYS", pc[p])
    BY <1>1 DEF Start, At
  <2> QED  BY <1>a, <1>b, <2>1, <2>2, <2>3, ControlStay
<1>2. CASE InitFails(p) \/ ReadPkgConfSyntax(p) \/ CollectIndexFails(p) \/ AddPkgExists(p)
  <2>1. /\ state' = [state EXCEPT ![p] = "ERR"] /\ UNCHANGED dbVars
        /\ \E e \in Errors : error' = [error EXCEPT ![p] = e]
        /\ UNCHANGED <<conf, todo, index, runs>>
    BY <1>2, <1>b DEF InitFails, ReadPkgConfSyntax, CollectIndexFails, AddPkgExists,
                      Fail, SetState
  <2>2. At("ERR", pc[p])
    BY <1>2, <1>a DEF InitFails, ReadPkgConfSyntax, CollectIndexFails, AddPkgExists, At
  <2> QED  BY <1>a, <1>b, <2>1, <2>2, ControlStay
<1>3. CASE ReadPkgConfDeps(p)
  <2>1. CASE Die(p)
    BY <2>1, ControlDie
  <2>2. CASE Fail(p, "BROKEN_DEP") /\ UNCHANGED <<dbVars, conf, todo, index, runs>>
    <3>1. /\ state' = [state EXCEPT ![p] = "ERR"] /\ UNCHANGED dbVars
          /\ error' = [error EXCEPT ![p] = "BROKEN_DEP"]
          /\ UNCHANGED <<conf, todo, index, runs>>
      BY <2>2 DEF Fail, SetState
    <3>2. At("ERR", pc[p])
      BY <1>3, <1>a DEF ReadPkgConfDeps, At
    <3> QED  BY <1>a, <1>b, <3>1, <3>2, ControlStay
  <2> QED  BY <1>3, <2>1, <2>2 DEF ReadPkgConfDeps
<1>4. CASE CollectIndexDies(p) \/ AddPkgDies(p) \/ Crash(p)
  BY <1>4, ControlDie DEF CollectIndexDies, AddPkgDies, Crash
<1>5. CASE ReadPkgConf(p) \/ IndexWritten(p)
  <2>1. PICK s \in {"COLLECT_INDEX", "ADDPKG"} : state' = [state EXCEPT ![p] = s]
    BY <1>5, NextStates DEF ReadPkgConf, IndexWritten, Advance, SetState
  <2>2. UNCHANGED <<error, conf, todo, index, runs>> /\ UNCHANGED dbVars
    BY <1>5 DEF ReadPkgConf, IndexWritten, Advance
  <2>3. At(s, pc[p])
    BY <1>5, <1>a DEF ReadPkgConf, IndexWritten, At
  <2> QED  BY <1>a, <1>b, <2>1, <2>2, <2>3, ControlStay
<1>6. CASE CollectIndex(p)
  <2>1. /\ state' = [state EXCEPT ![p] = "WRITE_INDEX"] /\ UNCHANGED dbVars
        /\ todo' = [todo EXCEPT ![p] = P(p).files] /\ UNCHANGED <<error, conf, index, runs>>
    BY <1>6, NextStates DEF CollectIndex, Advance, SetState
  <2>2. At("WRITE_INDEX", pc[p])
    BY <1>6, <1>a DEF CollectIndex, At
  <2>3. P(p).files \in SUBSET Files
    BY <1>a DEF Package
  <2> QED  BY <1>a, <1>b, <2>1, <2>2, <2>3, ControlStay
<1>7. CASE WriteLink(p)
  <2>1. PICK f \in todo[p] : index' = Symlink(f, conf[p]) /\ todo' = [todo EXCEPT ![p] = @ \ {f}]
    BY <1>7 DEF WriteLink
  <2>2. state' = [state EXCEPT ![p] = state[p]] /\ UNCHANGED <<error, conf, runs>> /\ UNCHANGED dbVars
    BY <1>7, <1>a DEF WriteLink
  <2>3. index' \in [Files -> Confs \cup {NoLink}]
    BY <1>a, <2>1 DEF Symlink
  <2>4. todo[p] \ {f} \in SUBSET Files
    BY <1>a
  <2> QED  BY <1>a, <2>1, <2>2, <2>3, <2>4, ControlStay
<1>8. CASE WriteLinkFails(p)
  <2>1. /\ state' = [state EXCEPT ![p] = "ERR"] /\ pc' = [pc EXCEPT ![p] = "idle"]
        /\ error' = [error EXCEPT ![p] = "SYS"] /\ todo' = [todo EXCEPT ![p] = {}]
        /\ UNCHANGED <<conf, index, runs>>
    BY <1>8 DEF WriteLinkFails, Fail, SetState, Db!Leave, Db!Goto
  <2>2. At("ERR", "idle")
    BY DEF At
  <2> QED  BY <1>a, <1>b, <2>1, <2>2, PcsNamed, ControlMove
<1>9. CASE OpenDb(p)
  <2>1. PICK l \in {"opening", "locked", "open_strtab"} : pc' = [pc EXCEPT ![p] = l]
    BY <1>9 DEF OpenDb, Db!OpenStat, Db!OpenLock, Db!OpenMap, Db!Goto
  <2>2. /\ state' = [state EXCEPT ![p] = state[p]] /\ state[p] = "INIT_PKGSYS"
        /\ UNCHANGED <<error, conf, todo, index, runs>>
    BY <1>9, <1>a DEF OpenDb, cbVars
  <2>3. At("INIT_PKGSYS", l)
    BY DEF At
  <2> QED  BY <1>a, <2>1, <2>2, <2>3, PcsNamed, ControlMove
<1>10. CASE OpenDbLocked(p)
  <2>1. /\ state' = [state EXCEPT ![p] = "ERR"] /\ pc' = [pc EXCEPT ![p] = "idle"]
        /\ error' = [error EXCEPT ![p] = "DB_LOCKED"] /\ UNCHANGED <<conf, todo, index, runs>>
    BY <1>10 DEF OpenDbLocked, Fail, SetState, Db!OpenLocked, Db!Leave, Db!Goto
  <2>2. At("ERR", "idle")
    BY DEF At
  <2> QED  BY <1>a, <1>b, <2>1, <2>2, PcsNamed, ControlMove
<1>11. CASE DbOpened(p)
  <2>1. /\ state' = [state EXCEPT ![p] = "READ_PKGCONF"] /\ pc' = [pc EXCEPT ![p] = "open"]
        /\ UNCHANGED <<error, conf, todo, index, runs>>
    BY <1>11, NextStates DEF DbOpened, Advance, SetState, Db!OpenStrtab, Db!Goto
  <2>2. At("READ_PKGCONF", "open")
    BY DEF At
  <2> QED  BY <1>a, <1>b, <2>1, <2>2, PcsNamed, ControlMove
<1>12. CASE AddPkg(p)
  <2>1. /\ state' = [state EXCEPT ![p] = "CLEANUP_PKGSYS"] /\ pc' = [pc EXCEPT ![p] = "open"]
        /\ UNCHANGED <<error, conf, todo, index, runs>>
    BY <1>12, NextStates DEF AddPkg, Advance, SetState, Db!AddProp, ControlInv, ControlOK
  <2>2. At("CLEANUP_PKGSYS", "open")
    BY DEF At
  <2> QED  BY <1>a, <1>b, <2>1, <2>2, PcsNamed, ControlMove
<1>13. CASE CloseDbs(p)
  <2>1. PICK l \in {"closing", "storing", "closed"} : pc' = [pc EXCEPT ![p] = l]
    BY <1>13 DEF CloseDbs, Db!BeginClose, Db!CloseAlloc, Db!CloseAllocFails, Db!CloseAppend,
       Db!CloseAppendFails, Db!CloseHeader, Db!AllocPlace, Db!EndStore, Db!Goto
  <2>2. /\ state' = [state EXCEPT ![p] = state[p]] /\ state[p] \in {"CLEANUP_PKGSYS", "ERR"}
        /\ UNCHANGED <<error, conf, todo, index, runs>>
    BY <1>13, <1>a DEF CloseDbs, cbVars
  <2>3. At(state[p], l)
    BY <2>2 DEF At
  <2> QED  BY <1>a, <2>1, <2>2, <2>3, PcsNamed, ControlMove
<1>14. CASE DbsClosed(p)
  <2>1. PICK s \in {"ACCEPT", "ERR"} : state' = [state EXCEPT ![p] = s]
    BY <1>14, <1>a, NextStates DEF DbsClosed, Advance, SetState
  <2>2. pc' = [pc EXCEPT ![p] = "idle"] /\ UNCHANGED <<error, conf, todo, index, runs>>
    BY <1>14 DEF DbsClosed, Advance, Db!CloseUnlock, Db!Leave, Db!Goto
  <2>3. At(s, "idle")
    BY DEF At
  <2> QED  BY <1>a, <1>b, <2>1, <2>2, <2>3, PcsNamed, ControlMove
<1> QED
  BY <1>1, <1>2, <1>3, <1>4, <1>5, <1>6, <1>7, <1>8, <1>9, <1>10, <1>11, <1>12, <1>13, <1>14
     DEF Run

LEMMA ControlInit ==
  ASSUME Init
  PROVE  ControlInv
<1>1. pc = [p \in Procs |-> "idle"]
  BY SameInit DEF Init, Dbp!Init
<1>2. (CHOOSE c \in Confs : TRUE) \in Confs
  BY TransactionAssumption DEF TransactionAssumption
<1> QED
  BY <1>1, <1>2, PcsNamed, TransactionAssumption
     DEF Init, ControlInv, ControlOK, At, States, Errors, TransactionAssumption

-----------------------------------------------------------------------------
(* A transaction moves the database by the steps of PropDb.                *)
LEMMA LeavesOpen ==
  ASSUME NEW p \in Procs, pc[p] # "idle", Db!Leave(p), UNCHANGED <<fileVars, promised>>
  PROVE  Dbp!StepOf(p)
<1>1. UNCHANGED <<Dbp!dbVars, Dbp!strVars, promised>>
  BY DEF fileVars, Dbp!dbVars, Dbp!strVars
<1> QED  BY <1>1, SameLeave DEF Dbp!StepOf, Dbp!Crash

LEMMA StepRefines ==
  ASSUME ControlInv, NEW p \in Procs, Start(p) \/ Run(p) \/ Crash(p)
  PROVE  Dbp!StepOf(p) \/ UNCHANGED Dbp!vars
<1>a. At(state[p], pc[p])
  BY DEF ControlInv
<1>1. CASE \/ Start(p) \/ InitFails(p) \/ ReadPkgConf(p) \/ ReadPkgConfSyntax(p)
           \/ CollectIndex(p) \/ CollectIndexFails(p) \/ WriteLink(p) \/ IndexWritten(p)
           \/ AddPkgExists(p)
  BY <1>1 DEF Start, InitFails, ReadPkgConf, ReadPkgConfSyntax, CollectIndex,
     CollectIndexFails, WriteLink, IndexWritten, AddPkgExists, dbVars, Dbp!vars
<1>2. CASE ReadPkgConfDeps(p)
  <2>1. pc[p] # "idle"
    BY <1>2, <1>a DEF ReadPkgConfDeps, At
  <2>2. CASE Die(p)
    BY <2>1, <2>2, LeavesOpen DEF Die
  <2>3. CASE UNCHANGED dbVars
    BY <2>3 DEF dbVars, Dbp!vars
  <2> QED  BY <1>2, <2>2, <2>3 DEF ReadPkgConfDeps
<1>3. CASE CollectIndexDies(p) \/ AddPkgDies(p) \/ Crash(p) \/ WriteLinkFails(p)
  <2>1. pc[p] # "idle"
    BY <1>3, <1>a DEF CollectIndexDies, AddPkgDies, Crash, WriteLinkFails, At
  <2>2. Db!Leave(p) /\ UNCHANGED <<fileVars, promised>>
    BY <1>3 DEF CollectIndexDies, AddPkgDies, Crash, WriteLinkFails, Die
  <2> QED  BY <2>1, <2>2, LeavesOpen
<1>4. CASE OpenDb(p) \/ OpenDbLocked(p) \/ DbOpened(p)
  <2>1. Dbp!OpenStat(p) \/ Dbp!Open(p)
    BY <1>4, SameOpen DEF OpenDb, OpenDbLocked, DbOpened, Dbp!Open
  <2> QED  BY <2>1 DEF Dbp!StepOf
<1>5. CASE AddPkg(p)
  BY <1>5, SameCalls DEF AddPkg, Dbp!StepOf
<1>6. CASE CloseDbs(p) \/ DbsClosed(p)
  <2>1. Dbp!BeginClose(p) \/ Dbp!Close(p)
    BY <1>6, SameCalls, SameStores DEF CloseDbs, DbsClosed, Dbp!Close
  <2> QED  BY <2>1 DEF Dbp!StepOf
<1> QED  BY <1>1, <1>2, <1>3, <1>4, <1>5, <1>6 DEF Run

(* Whatever transactions do, and wherever they die, to the database they   *)
(* are processes that open, add, close or are killed: everything proved of *)
(* the engine for any Crashable holds of it (transaction.c:105-165).       *)
THEOREM TransactionsUseEngine == Spec => []ControlInv /\ Dbp!Spec
<1>1. Init => ControlInv /\ Dbp!Init
  BY ControlInit, SameInit DEF Init
<1>2. ControlInv /\ [Next]_vars => ControlInv' /\ [Dbp!Next]_(Dbp!vars)
  <2>1. ASSUME ControlInv, UNCHANGED vars
        PROVE  ControlInv' /\ UNCHANGED Dbp!vars
    <3>1. UNCHANGED <<state, error, conf, todo, index, runs, pc>>
      BY <2>1 DEF vars
    <3> QED  BY <2>1, <3>1 DEF vars, Dbp!vars, ControlInv, ControlOK, At
  <2>2. ASSUME ControlInv, NEW p \in Procs, Start(p) \/ Run(p) \/ Crash(p)
        PROVE  ControlInv' /\ [Dbp!Next]_(Dbp!vars)
    BY <2>2, ControlStep, StepRefines DEF Dbp!Next, Dbp!StepOf
  <2> QED  BY <2>1, <2>2 DEF Next
<1> QED  BY <1>1, <1>2, PTL DEF Spec, Dbp!Spec

EngineInv == Dbp!TypeInv /\ Dbp!LockExclusion /\ Dbp!InitDone

LEMMA EngineInvariant == Spec => [](ControlInv /\ EngineInv)
<1>1. Dbp!Spec => []Dbp!TypeInv
  BY DbAssumptions, Dbp!TypeInvariant
<1>2. Dbp!Spec => []Dbp!LockExclusion
  BY DbAssumptions, Dbp!Exclusion
<1>3. Dbp!Spec => []Dbp!InitDone
  BY DbAssumptions, Dbp!InitDoneInvariant
<1> QED  BY <1>1, <1>2, <1>3, TransactionsUseEngine, PTL DEF EngineInv

(* Every reachable state of the transactions, their index and their        *)
(* database is well typed, whatever fails and is killed.                   *)
THEOREM TypeCorrect == Spec => []TypeOK
<1>1. ControlInv /\ EngineInv => TypeOK
  BY SameType DEF ControlInv, ControlOK, EngineInv, Dbp!TypeInv, TypeOK
<1> QED  BY <1>1, EngineInvariant, PTL

(* Links are made only by a transaction that has the lock of the database  *)
(* before and after (indexMan.c:120, propdb.c:179): two transactions never *)
(* mix their links.                                                        *)
THEOREM LinksUnderLock == Spec => IndexUnderLock
<1>1. ASSUME ControlInv, EngineInv, NEW p \in Procs, Start(p) \/ Run(p) \/ Crash(p),
             index' # index
      PROVE  lock = p /\ lock' = p /\ todo'[p] # todo[p]
  <2>1. WriteLink(p)
    BY <1>1 DEF Start, Run, Crash, Die, InitFails, OpenDb, OpenDbLocked, DbOpened, ReadPkgConf,
       ReadPkgConfSyntax, ReadPkgConfDeps, CollectIndex, CollectIndexFails, CollectIndexDies,
       WriteLinkFails, IndexWritten, AddPkg, AddPkgExists, AddPkgDies, CloseDbs, DbsClosed
  <2>2. pc[p] = "open" /\ UNCHANGED lock
    BY <1>1, <2>1 DEF WriteLink, ControlInv, At, dbVars
  <2>3. lock = p
    BY <1>1, <2>2 DEF EngineInv, Dbp!LockExclusion, Dbp!HoldPcs, Dbp!SessionPcs
  <2>4. todo'[p] # todo[p]
    BY <1>1, <2>1 DEF WriteLink, ControlInv, ControlOK
  <2> QED  BY <2>2, <2>3, <2>4
<1>2. ControlInv /\ EngineInv /\ [Next]_vars =>
        [index' # index => \E p \in Procs : lock = p /\ lock' = p /\ todo'[p] # todo[p]]_vars
  BY <1>1 DEF Next, vars
<1> QED  BY <1>2, EngineInvariant, PTL DEF Spec, IndexUnderLock

-----------------------------------------------------------------------------
(* What a step of p does to its session, and leaves of the others.         *)
QueuesSame(p) ==
  /\ db'[p].propsToAdd = db[p].propsToAdd /\ db'[p].propsToRm = db[p].propsToRm
  /\ p \notin Faulty => db'[p].failed = db[p].failed

QueuesGone(p) ==
  db'[p].propsToAdd = <<>> /\ db'[p].propsToRm = <<>> /\ ~db'[p].failed

LEMMA LeaveQueues ==
  ASSUME EngineInv, NEW p \in Procs, Db!Leave(p)
  PROVE  QueuesGone(p) /\ \A q \in Procs \ {p} : db'[q] = db[q]
BY DEF EngineInv, Dbp!TypeInv, Dbp!TypeOK, Db!Leave, Db!NoSession, QueuesGone

LEMMA EngineQueues ==
  ASSUME EngineInv, NEW p \in Procs,
         \/ Db!OpenLock(p) \/ Db!OpenMap(p) \/ Db!OpenStrtab(p) \/ Db!BeginClose(p)
         \/ Db!CloseAlloc(p) \/ Db!CloseAllocFails(p)
         \/ Db!CloseAppend(p) \/ Db!CloseAppendFails(p) \/ Db!CloseHeader(p)
  PROVE  QueuesSame(p) /\ \A q \in Procs \ {p} : db'[q] = db[q]
<1>0. PICK d : d = db[p]
  OBVIOUS
<1>a. /\ db \in [Procs -> Dbp!Session] /\ d \in Dbp!Session /\ numProps \in Nat
      /\ Dbp!SessionFits(pc[p], d)
  BY <1>0 DEF EngineInv, Dbp!TypeInv, Dbp!TypeOK
<1>1. CASE Db!OpenLock(p) \/ Db!OpenMap(p) \/ Db!OpenStrtab(p) \/ Db!BeginClose(p)
           \/ Db!CloseHeader(p)
  <2>1. CASE UNCHANGED db
    BY <2>1 DEF QueuesSame
  <2>2. CASE Db!OpenMap(p)
    <3>1. db' = [db EXCEPT ![p] = [d EXCEPT !.numFreeProps = numFreeProps]]
      BY <1>0, <2>2 DEF Db!OpenMap, Db!SetDb
    <3> QED  BY <1>0, <1>a, <3>1 DEF Dbp!Session, QueuesSame
  <2>3. CASE Db!OpenStrtab(p)
    <3>1. db' = [db EXCEPT ![p] = [d EXCEPT !.strtabOff = Db!StrtabEnd,
                                            !.strtabMapped = strtabLen > 0]]
      BY <1>0, <2>3 DEF Db!OpenStrtab, Db!SetDb
    <3> QED  BY <1>0, <1>a, <3>1 DEF Dbp!Session, QueuesSame
  <2>4. CASE Db!BeginClose(p)
    <3>1. db' = [db EXCEPT ![p] = [d EXCEPT !.curEnd = Db!AppendAt(d), !.numProps = numProps]]
      BY <1>0, <2>4 DEF Db!BeginClose, Db!SetDb
    <3> QED  BY <1>0, <1>a, <3>1 DEF Dbp!Session, QueuesSame
  <2> QED  BY <1>1, <2>1, <2>2, <2>3, <2>4 DEF Db!OpenLock, Db!CloseHeader
<1>2. CASE Db!CloseAlloc(p) \/ Db!CloseAllocFails(p)
  <2>1. PICK a : a = Dbp!Allocated(d)
    OBVIOUS
  <2>2. pc[p] = "closing" /\ d.added # Len(d.propsToAdd)
    BY <1>0, <1>2 DEF Db!CloseAlloc, Db!CloseAllocFails, Db!AllocPlace, Db!AddsDone
  <2>3. /\ a \in Dbp!Session /\ a.propsToAdd = d.propsToAdd /\ a.propsToRm = d.propsToRm
        /\ a.failed = d.failed
    BY <1>a, <2>1, <2>2, DbAssumptions, Dbp!AllocatedFits, Dbp!AllocatedType, Dbp!AllocatedSame
  <2>4. \/ db' = [db EXCEPT ![p] = a]
        \/ p \in Faulty /\ db' = [db EXCEPT ![p] = [a EXCEPT !.failed = TRUE]]
    BY <1>0, <1>2, <2>1, SameStores DEF Dbp!CloseAlloc, Dbp!CloseAllocFails, Dbp!SetDb
  <2> QED  BY <1>0, <1>a, <2>3, <2>4 DEF Dbp!Session, QueuesSame
<1>3. CASE Db!CloseAppend(p) \/ Db!CloseAppendFails(p)
  <2>1. PICK a : a = Db!Counted(d)
    OBVIOUS
  <2>2. a = [d EXCEPT !.numProps = d.numProps + 1, !.added = d.added + 1]
    BY <2>1 DEF Db!Counted
  <2>3. PICK e : db' = [db EXCEPT ![p] = e] /\
          \/ e = [a EXCEPT !.curEnd = @ + 1]
          \/ p \in Faulty /\ e = [a EXCEPT !.curEnd = @ + 1, !.failed = TRUE]
    BY <1>0, <1>3, <2>1 DEF Db!CloseAppend, Db!CloseAppendFails, Db!SetDb
  <2>4. e.propsToAdd = d.propsToAdd /\ e.propsToRm = d.propsToRm
    BY <1>a, <2>2, <2>3 DEF Dbp!Session
  <2>5. p \notin Faulty => e.failed = d.failed
    BY <1>a, <2>2, <2>3 DEF Dbp!Session
  <2> QED  BY <1>0, <1>a, <2>3, <2>4, <2>5 DEF QueuesSame
<1> QED  BY <1>1, <1>2, <1>3

LEMMA OthersSame ==
  ASSUME ControlInv, EngineInv, NEW p \in Procs, Start(p) \/ Run(p) \/ Crash(p),
         NEW q \in Procs, q # p
  PROVE  /\ state'[q] = state[q] /\ conf'[q] = conf[q] /\ todo'[q] = todo[q]
         /\ db'[q] = db[q] /\ pc'[q] = pc[q]
<1>a. ControlOK
  BY DEF ControlInv
<1>1. CASE \/ Start(p) \/ InitFails(p) \/ ReadPkgConf(p) \/ ReadPkgConfSyntax(p)
           \/ CollectIndex(p) \/ CollectIndexFails(p) \/ WriteLink(p) \/ IndexWritten(p)
           \/ AddPkgExists(p)
  BY <1>1, <1>a DEF Start, InitFails, ReadPkgConf, ReadPkgConfSyntax, CollectIndex,
     CollectIndexFails, WriteLink, IndexWritten, AddPkgExists, dbVars, Advance, Fail,
     SetState, ControlOK
<1>2. CASE Die(p) \/ WriteLinkFails(p)
  <2>1. db'[q] = db[q]
    BY <1>2, LeaveQueues DEF Die, WriteLinkFails
  <2> QED
    BY <1>2, <1>a, <2>1 DEF Die, WriteLinkFails, Fail, SetState, Db!Leave, Db!Goto, ControlOK
<1>3. CASE OpenDb(p) \/ OpenDbLocked(p) \/ DbOpened(p)
  <2>1. db'[q] = db[q]
    BY <1>3, EngineQueues, LeaveQueues
       DEF OpenDb, OpenDbLocked, DbOpened, Db!OpenLocked, Db!OpenStat, Db!SetDb, EngineInv,
           Dbp!TypeInv, Dbp!TypeOK
  <2> QED
    BY <1>3, <1>a, <2>1 DEF OpenDb, OpenDbLocked, DbOpened, cbVars, Advance, Fail, SetState,
       Db!OpenStat, Db!OpenLock, Db!OpenMap, Db!OpenLocked, Db!OpenStrtab, Db!Leave, Db!Goto,
       ControlOK
<1>4. CASE AddPkg(p)
  BY <1>4, <1>a DEF AddPkg, Advance, SetState, Db!AddProp, Db!SetDb, ControlOK, EngineInv,
     Dbp!TypeInv, Dbp!TypeOK
<1>5. CASE CloseDbs(p) \/ DbsClosed(p)
  <2>1. db'[q] = db[q]
    BY <1>5, EngineQueues, LeaveQueues DEF CloseDbs, DbsClosed, Db!CloseUnlock
  <2>2. pc'[q] = pc[q]
    BY <1>5, <1>a DEF CloseDbs, DbsClosed, Db!BeginClose, Db!CloseAlloc, Db!CloseAllocFails,
       Db!CloseAppend, Db!CloseAppendFails, Db!CloseHeader, Db!CloseUnlock, Db!AllocPlace,
       Db!EndStore, Db!Leave, Db!Goto, ControlOK
  <2> QED
    BY <1>5, <1>a, <2>1, <2>2 DEF CloseDbs, DbsClosed, cbVars, Advance, SetState, ControlOK
<1>6. CASE ReadPkgConfDeps(p)
  <2>1. CASE Fail(p, "BROKEN_DEP") /\ UNCHANGED <<dbVars, conf, todo, index, runs>>
    BY <1>a, <2>1 DEF Fail, SetState, dbVars, ControlOK
  <2> QED  BY <1>2, <1>6, <2>1 DEF ReadPkgConfDeps
<1> QED
  BY <1>1, <1>2, <1>3, <1>4, <1>5, <1>6 DEF Run, Crash, CollectIndexDies, AddPkgDies

LEMMA OwnQueues ==
  ASSUME ControlInv, EngineInv, NEW p \in Procs, Start(p) \/ Run(p) \/ Crash(p), ~AddPkg(p)
  PROVE  QueuesSame(p) \/ QueuesGone(p)
<1>1. CASE UNCHANGED dbVars
  BY <1>1 DEF dbVars, QueuesSame
<1>2. CASE Die(p) \/ WriteLinkFails(p) \/ OpenDbLocked(p) \/ DbsClosed(p)
  BY <1>2, LeaveQueues DEF Die, WriteLinkFails, OpenDbLocked, DbsClosed, Db!OpenLocked,
     Db!CloseUnlock
<1>3. CASE OpenDb(p)
  <2>1. CASE Db!OpenStat(p)
    BY <2>1 DEF Db!OpenStat, Db!SetDb, Db!NoSession, QueuesGone, EngineInv, Dbp!TypeInv,
       Dbp!TypeOK
  <2> QED  BY <1>3, <2>1, EngineQueues DEF OpenDb
<1>4. CASE DbOpened(p) \/ CloseDbs(p)
  BY <1>4, EngineQueues DEF DbOpened, CloseDbs
<1> QED
  BY <1>1, <1>2, <1>3, <1>4 DEF Run, Start, Crash, InitFails, ReadPkgConf, ReadPkgConfSyntax,
     ReadPkgConfDeps, CollectIndex, CollectIndexFails, CollectIndexDies, WriteLink,
     IndexWritten, AddPkgExists, AddPkgDies

(* Which steps lead to a state. *)
LEMMA StateMoves ==
  ASSUME ControlInv, NEW p \in Procs, Start(p) \/ Run(p) \/ Crash(p)
  PROVE  /\ state'[p] = "WRITE_INDEX" => CollectIndex(p) \/ WriteLink(p)
         /\ state'[p] = "ADDPKG" => IndexWritten(p)
         /\ state'[p] = "CLEANUP_PKGSYS" => AddPkg(p) \/ CloseDbs(p)
         /\ state'[p] = "ACCEPT" => DbsClosed(p) /\ state[p] = "CLEANUP_PKGSYS"
         /\ ~Start(p) => conf'[p] = conf[p]
<1>a. state \in [Procs -> States]
  BY DEF ControlInv, ControlOK
<1>1. CASE \/ Start(p) \/ InitFails(p) \/ ReadPkgConfSyntax(p) \/ CollectIndexFails(p)
           \/ AddPkgExists(p) \/ WriteLinkFails(p) \/ OpenDbLocked(p) \/ Die(p)
  BY <1>1, <1>a DEF Start, InitFails, ReadPkgConfSyntax, CollectIndexFails, AddPkgExists,
     WriteLinkFails, OpenDbLocked, Die, Fail, SetState
<1>2. CASE OpenDb(p) \/ DbOpened(p) \/ ReadPkgConf(p) \/ CollectIndex(p) \/ IndexWritten(p)
           \/ AddPkg(p)
  BY <1>2, <1>a, NextStates DEF OpenDb, DbOpened, ReadPkgConf, CollectIndex, IndexWritten,
     AddPkg, Advance, SetState, cbVars
<1>3. CASE WriteLink(p) \/ CloseDbs(p)
  BY <1>3, <1>a DEF WriteLink, CloseDbs, cbVars
<1>4. CASE DbsClosed(p)
  BY <1>4, <1>a, NextStates DEF DbsClosed, Advance, SetState
<1>5. CASE ReadPkgConfDeps(p)
  <2>1. CASE Fail(p, "BROKEN_DEP") /\ UNCHANGED conf
    BY <2>1, <1>a DEF Fail, SetState
  <2> QED  BY <1>1, <1>5, <2>1 DEF ReadPkgConfDeps
<1> QED
  BY <1>1, <1>2, <1>3, <1>4, <1>5 DEF Run, Crash, CollectIndexDies, AddPkgDies

(* What a step of p adds to the string table it takes from its queue. *)
LEMMA StringsFromQueue ==
  ASSUME ControlInv, EngineInv, NEW p \in Procs, Start(p) \/ Run(p) \/ Crash(p),
         NEW c \in Dbp!Cells
  PROVE  \/ strtab'[c] = strtab[c]
         \/ \E i \in DOMAIN db[p].propsToAdd : strtab'[c] = db[p].propsToAdd[i].name
<1>1. CASE UNCHANGED strtab
  BY <1>1
<1>2. CASE Db!CloseAlloc(p)
  <2>0. PICK d : d = db[p]
    OBVIOUS
  <2>a. /\ d \in Dbp!Session /\ numProps \in Nat /\ Dbp!SessionFits("closing", d)
        /\ strtab \in [Dbp!Cells -> Names \cup {NoString, StrtabHeader}]
        /\ d.added # Len(d.propsToAdd)
    BY <1>2, <2>0 DEF EngineInv, Dbp!TypeInv, Dbp!TypeOK, Db!CloseAlloc, Db!AllocPlace,
       Db!AddsDone
  <2>1. d.added + 1 \in DOMAIN d.propsToAdd
    BY <2>a, DbAssumptions, Dbp!AllocatedFits, Dbp!AddedEntry
  <2>2. strtab' = [strtab EXCEPT ![d.strtabOff] = d.propsToAdd[d.added + 1].name]
    BY <1>2, <2>0 DEF Db!CloseAlloc
  <2>3. strtab'[c] = strtab[c] \/ strtab'[c] = d.propsToAdd[d.added + 1].name
    BY <2>a, <2>2
  <2> QED  BY <2>0, <2>1, <2>3
<1> QED
  BY <1>1, <1>2 DEF Run, Start, Crash, InitFails, OpenDb, OpenDbLocked, DbOpened, ReadPkgConf,
     ReadPkgConfSyntax, ReadPkgConfDeps, CollectIndex, CollectIndexFails, CollectIndexDies,
     WriteLink, WriteLinkFails, IndexWritten, AddPkg, AddPkgExists, AddPkgDies, CloseDbs,
     DbsClosed, Die, dbVars, fileVars, Db!OpenStat, Db!OpenLock, Db!OpenMap, Db!OpenLocked,
     Db!OpenStrtab, Db!AddProp, Db!BeginClose, Db!CloseAllocFails, Db!CloseAppend,
     Db!CloseAppendFails, Db!EndStore, Db!CloseHeader, Db!CloseUnlock, Db!strVars

-----------------------------------------------------------------------------
(* What lookups find is in the index.                                      *)
LEMMA IndexGrows ==
  ASSUME ControlInv, NEW p \in Procs, Start(p) \/ Run(p) \/ Crash(p)
  PROVE  /\ \A f \in Files : index[f] # NoLink => index'[f] # NoLink
         /\ \A n : Indexed(n) => Indexed(n)'
<1>a. /\ index \in [Files -> Confs \cup {NoLink}] /\ conf[p] \in Confs /\ todo[p] \subseteq Files
      /\ NoLink \notin Confs /\ \A c \in Confs : Pkg[c].files \subseteq Files
  BY TransactionAssumption DEF ControlInv, ControlOK, TransactionAssumption, Package
<1>1. \A f \in Files : index[f] # NoLink => index'[f] # NoLink
  <2>1. CASE UNCHANGED index
    BY <2>1
  <2>2. CASE WriteLink(p)
    BY <1>a, <2>2 DEF WriteLink, Symlink
  <2> QED
    BY <2>1, <2>2 DEF Run, Start, Crash, InitFails, OpenDb, OpenDbLocked, DbOpened,
       ReadPkgConf, ReadPkgConfSyntax, ReadPkgConfDeps, CollectIndex, CollectIndexFails,
       CollectIndexDies, WriteLinkFails, IndexWritten, AddPkg, AddPkgExists, AddPkgDies,
       CloseDbs, DbsClosed, Die
<1> QED  BY <1>1, <1>a DEF Indexed

(* A package that is added has all its links. *)
LEMMA AddedIndexed ==
  ASSUME ControlInv, EngineInv, IndexInv, NEW p \in Procs, AddPkg(p),
         NEW i \in DOMAIN db'[p].propsToAdd
  PROVE  Indexed(db'[p].propsToAdd[i].name)
<1>0. PICK d : d = db[p]
  OBVIOUS
<1>a. /\ db \in [Procs -> Dbp!Session] /\ d \in Dbp!Session
      /\ d.propsToAdd \in Seq([name : Names, data : {<<>>}])
  BY <1>0 DEF EngineInv, Dbp!TypeInv, Dbp!TypeOK, Dbp!Session
<1>1. PICK prop : db' = [db EXCEPT ![p] = [d EXCEPT !.propsToAdd = Append(@, prop)]]
  BY <1>0 DEF AddPkg, Db!AddProp, Db!SetDb
<1>2. db'[p].propsToAdd = Append(d.propsToAdd, prop)
  BY <1>1, <1>a DEF Dbp!Session
<1>3. PICK n \in Nat : /\ n = Len(d.propsToAdd) /\ DOMAIN d.propsToAdd = 1 .. n
                       /\ Len(db'[p].propsToAdd) = n + 1
                       /\ DOMAIN db'[p].propsToAdd = 1 .. n + 1
                       /\ \A j \in 1 .. n : db'[p].propsToAdd[j] = d.propsToAdd[j]
  BY <1>2, <1>a
<1>4. db'[p].propsToAdd[n + 1].name = P(p).id
  BY <1>3 DEF AddPkg
<1>5. Indexed(P(p).id)
  BY DEF AddPkg, IndexInv, IndexSession, Indexed, P, ControlInv, ControlOK
<1>6. \A j \in 1 .. n : Indexed(d.propsToAdd[j].name)
  BY <1>0, <1>3 DEF IndexInv, IndexSession
<1>7. i \in 1 .. n \/ i = n + 1
  BY <1>3
<1> QED  BY <1>3, <1>4, <1>5, <1>6, <1>7

LEMMA IndexOwn ==
  ASSUME ControlInv, EngineInv, IndexInv, NEW p \in Procs, Start(p) \/ Run(p) \/ Crash(p)
  PROVE  IndexSession(p)'
<1>a. /\ index \in [Files -> Confs \cup {NoLink}] /\ conf \in [Procs -> Confs]
      /\ todo \in [Procs -> SUBSET Files] /\ NoLink \notin Confs /\ P(p).files \subseteq Files
  BY TransactionAssumption DEF ControlInv, ControlOK, TransactionAssumption, Package, P
<1>d. PICK d : d = db'[p]
  OBVIOUS
<1>1. \A i \in DOMAIN d.propsToAdd : Indexed(d.propsToAdd[i].name)'
  <2>1. CASE AddPkg(p)
    BY <1>d, <2>1, AddedIndexed, IndexGrows
  <2>2. CASE QueuesSame(p)
    BY <1>d, <2>2, IndexGrows DEF QueuesSame, IndexInv, IndexSession
  <2>3. CASE QueuesGone(p)
    BY <1>d, <2>3 DEF QueuesGone
  <2> QED  BY <2>1, <2>2, <2>3, OwnQueues
<1>2. ASSUME state'[p] = "WRITE_INDEX"
      PROVE  \A f \in P(p)'.files : f \in todo'[p] \/ index'[f] # NoLink
  <2>1. CASE CollectIndex(p)
    BY <1>a, <2>1 DEF CollectIndex, P
  <2>2. CASE WriteLink(p)
    <3>1. PICK g \in todo[p] : /\ index' = Symlink(g, conf[p])
                               /\ todo' = [todo EXCEPT ![p] = @ \ {g}]
      BY <2>2 DEF WriteLink
    <3>2. P(p)' = P(p) /\ state[p] = "WRITE_INDEX"
      BY <2>2 DEF WriteLink, P
    <3>3. index'[g] # NoLink
      BY <1>a, <3>1 DEF Symlink
    <3>4. todo'[p] = todo[p] \ {g}
      BY <1>a, <3>1
    <3> QED  BY <1>a, <3>2, <3>3, <3>4, IndexGrows DEF IndexInv, IndexSession
  <2> QED  BY <1>2, <2>1, <2>2, StateMoves
<1>3. ASSUME state'[p] = "ADDPKG"
      PROVE  \A f \in P(p)'.files : index'[f] # NoLink
  <2>1. IndexWritten(p)
    BY <1>3, StateMoves
  <2> QED  BY <2>1 DEF IndexWritten, P, IndexInv, IndexSession
<1> QED  BY <1>d, <1>1, <1>2, <1>3 DEF IndexSession

LEMMA IndexStep ==
  ASSUME ControlInv, EngineInv, IndexInv, [Next]_vars
  PROVE  IndexInv'
<1>1. CASE UNCHANGED vars
  <2>1. UNCHANGED <<strtab, db, state, conf, todo, index>>
    BY <1>1 DEF vars
  <2> QED  BY <2>1 DEF IndexInv, IndexSession, Indexed, P
<1>2. ASSUME NEW p \in Procs, Start(p) \/ Run(p) \/ Crash(p)
      PROVE  IndexInv'
  <2>1. ASSUME NEW c \in Dbp!Cells, strtab'[c] \in Names
        PROVE  Indexed(strtab[c])'
    BY <1>2, <2>1, StringsFromQueue, IndexGrows DEF IndexInv, IndexSession
  <2>2. ASSUME NEW q \in Procs, q # p
        PROVE  IndexSession(q)'
    <3>1. \A f \in P(q).files : f \in Files
      BY TransactionAssumption DEF ControlInv, ControlOK, TransactionAssumption, Package, P
    <3> QED
      BY <1>2, <2>2, <3>1, OthersSame, IndexGrows DEF IndexInv, IndexSession, P
  <2> QED  BY <1>2, <2>1, <2>2, IndexOwn DEF IndexInv
<1> QED  BY <1>1, <1>2 DEF Next

LEMMA IndexInit ==
  ASSUME Init
  PROVE  IndexInv
<1>1. /\ \A c \in Dbp!Cells : strtab[c] \notin Names
      /\ \A p \in Procs : db[p].propsToAdd = <<>>
  BY SameInit, TransactionAssumption DEF Init, Dbp!Init, Dbp!NewTable, Dbp!EmptyTable,
     Dbp!NoSession, TransactionAssumption
<1>2. \A p \in Procs : state[p] = "NONE"
  BY DEF Init
<1> QED  BY <1>1, <1>2 DEF IndexInv, IndexSession

(* The index is written before the package is added: every package that a  *)
(* lookup finds has the names of its files in the index, whichever         *)
(* transactions failed, were killed or could not write (transaction.c:38). *)
THEOREM FoundHasLinks == Spec => []FoundIsIndexed
<1>1. ASSUME ControlInv, EngineInv, IndexInv, NEW n \in Names, Db!Found(n)
      PROVE  Indexed(n)
  <2>1. PICK s \in Dbp!Slots : strtab[slots[s][0].val] = n
    BY <1>1, SameReads DEF Dbp!Found, Dbp!Matches, Dbp!NameAt
  <2>2. slots \in [Dbp!Slots -> Dbp!Slot]
    BY <1>1 DEF EngineInv, Dbp!TypeInv, Dbp!TypeOK
  <2>3. slots[s][0].val \in Dbp!Cells
    BY <2>2, DbAssumptions, Dbp!HeaderType
  <2> QED  BY <1>1, <2>1, <2>3 DEF IndexInv
<1>2. ControlInv /\ EngineInv /\ IndexInv => FoundIsIndexed
  BY <1>1 DEF FoundIsIndexed, Indexed
<1>3. Init => IndexInv
  BY IndexInit
<1>4. ControlInv /\ EngineInv /\ IndexInv /\ [Next]_vars => IndexInv'
  BY IndexStep
<1> QED  BY <1>2, <1>3, <1>4, EngineInvariant, PTL DEF Spec

-----------------------------------------------------------------------------
(* What a transaction reports is what happened.                            *)
LEMMA PromisesKept ==
  ASSUME EngineInv, OutcomeInv, NEW p \in Procs, Start(p) \/ Run(p) \/ Crash(p)
  PROVE  promised \subseteq promised'
<1>1. CASE UNCHANGED promised
  BY <1>1
<1>2. CASE Db!CloseHeader(p)
  <2>1. db[p].propsToRm = <<>>
    BY DEF OutcomeInv, OutcomeSession
  <2> QED  BY <1>2, <2>1 DEF Db!CloseHeader
<1> QED
  BY <1>1, <1>2 DEF Run, Start, Crash, InitFails, OpenDb, OpenDbLocked, DbOpened, ReadPkgConf,
     ReadPkgConfSyntax, ReadPkgConfDeps, CollectIndex, CollectIndexFails, CollectIndexDies,
     WriteLink, WriteLinkFails, IndexWritten, AddPkg, AddPkgExists, AddPkgDies, CloseDbs,
     DbsClosed, Die, dbVars, Db!OpenStat, Db!OpenLock, Db!OpenMap, Db!OpenLocked,
     Db!OpenStrtab, Db!AddProp, Db!BeginClose, Db!CloseAlloc, Db!CloseAllocFails,
     Db!AllocPlace, Db!CloseAppend, Db!CloseAppendFails, Db!EndStore, Db!CloseUnlock

(* The package that is added is in the queue of the session. *)
LEMMA AddedQueued ==
  ASSUME ControlInv, EngineInv, NEW p \in Procs, AddPkg(p)
  PROVE  /\ db'[p].propsToRm = db[p].propsToRm /\ db'[p].failed = db[p].failed
         /\ \E i \in DOMAIN db'[p].propsToAdd : db'[p].propsToAdd[i].name = P(p)'.id
         /\ state'[p] = "CLEANUP_PKGSYS" /\ pc'[p] = "open"
<1>0. PICK d : d = db[p]
  OBVIOUS
<1>a. /\ db \in [Procs -> Dbp!Session] /\ d \in Dbp!Session
      /\ d.propsToAdd \in Seq([name : Names, data : {<<>>}])
  BY <1>0 DEF EngineInv, Dbp!TypeInv, Dbp!TypeOK, Dbp!Session
<1>1. PICK prop : db' = [db EXCEPT ![p] = [d EXCEPT !.propsToAdd = Append(@, prop)]]
  BY <1>0 DEF AddPkg, Db!AddProp, Db!SetDb
<1>2. /\ db'[p].propsToAdd = Append(d.propsToAdd, prop)
      /\ db'[p].propsToRm = d.propsToRm /\ db'[p].failed = d.failed
  BY <1>1, <1>a DEF Dbp!Session
<1>3. Len(db'[p].propsToAdd) \in DOMAIN db'[p].propsToAdd
  BY <1>2, <1>a
<1>4. db'[p].propsToAdd[Len(db'[p].propsToAdd)].name = P(p)'.id
  BY DEF AddPkg, P
<1>5. state'[p] = "CLEANUP_PKGSYS" /\ pc'[p] = "open"
  BY NextStates DEF AddPkg, Db!AddProp, Advance, SetState, ControlInv, ControlOK
<1> QED  BY <1>0, <1>2, <1>3, <1>4, <1>5

LEMMA CleanupMoves ==
  ASSUME ControlInv, EngineInv, NEW p \in Procs, Start(p) \/ Run(p) \/ Crash(p),
         state[p] = "CLEANUP_PKGSYS"
  PROVE  (CloseDbs(p) /\ state'[p] = "CLEANUP_PKGSYS") \/ QueuesGone(p)
<1>1. CloseDbs(p) \/ DbsClosed(p) \/ Crash(p)
  BY DEF Start, Running, Run, InitFails, OpenDb, OpenDbLocked, DbOpened, ReadPkgConf,
     ReadPkgConfSyntax, ReadPkgConfDeps, CollectIndex, CollectIndexFails, CollectIndexDies,
     WriteLink, WriteLinkFails, IndexWritten, AddPkg, AddPkgExists, AddPkgDies
<1>2. CASE CloseDbs(p)
  BY <1>2 DEF CloseDbs, cbVars
<1>3. CASE DbsClosed(p) \/ Crash(p)
  BY <1>3, LeaveQueues DEF DbsClosed, Db!CloseUnlock, Crash, Die
<1> QED  BY <1>1, <1>2, <1>3

LEMMA OutcomeOwn ==
  ASSUME ControlInv, EngineInv, OutcomeInv, NEW p \in Procs, Start(p) \/ Run(p) \/ Crash(p)
  PROVE  OutcomeSession(p)'
<1>a. OutcomeSession(p) /\ At(state[p], pc[p])
  BY DEF OutcomeInv, ControlInv
<1>1. db'[p].propsToRm = <<>> /\ (p \notin Faulty => ~db'[p].failed)
  BY <1>a, OwnQueues, AddedQueued DEF OutcomeSession, QueuesSame, QueuesGone
<1>2. ASSUME state'[p] # "CLEANUP_PKGSYS"
      PROVE  db'[p].propsToAdd = <<>>
  <2>1. ~AddPkg(p)
    BY <1>2, AddedQueued
  <2>2. CASE state[p] = "CLEANUP_PKGSYS"
    BY <1>2, <2>2, CleanupMoves DEF QueuesGone
  <2>3. CASE state[p] # "CLEANUP_PKGSYS"
    BY <1>a, <2>1, <2>3, OwnQueues DEF OutcomeSession, QueuesSame, QueuesGone
  <2> QED  BY <2>2, <2>3
<1>3. ASSUME p \notin Faulty, state'[p] = "CLEANUP_PKGSYS", CloseDbs(p)
      PROVE  /\ state[p] = "CLEANUP_PKGSYS" /\ P(p)' = P(p) /\ pc[p] # "closed"
             /\ \E i \in DOMAIN db[p].propsToAdd : db[p].propsToAdd[i].name = P(p).id
  <2>1. state[p] = "CLEANUP_PKGSYS" /\ P(p)' = P(p)
    BY <1>3 DEF CloseDbs, cbVars, P
  <2>2. pc[p] # "closed"
    BY <1>3 DEF CloseDbs, Db!BeginClose, Db!CloseAlloc, Db!CloseAllocFails, Db!AllocPlace,
       Db!CloseAppend, Db!CloseAppendFails, Db!CloseHeader
  <2> QED  BY <1>3, <1>a, <2>1, <2>2 DEF OutcomeSession
<1>4. ASSUME p \notin Faulty, state'[p] = "CLEANUP_PKGSYS", pc'[p] # "closed"
      PROVE  \E i \in DOMAIN db'[p].propsToAdd : db'[p].propsToAdd[i].name = P(p)'.id
  <2>1. CASE AddPkg(p)
    BY <2>1, AddedQueued
  <2>2. CASE CloseDbs(p)
    <3>1. QueuesSame(p)
      BY <2>2, EngineQueues DEF CloseDbs
    <3> QED  BY <1>3, <1>4, <2>2, <3>1 DEF QueuesSame
  <2> QED  BY <1>4, <2>1, <2>2, StateMoves
<1>5. ASSUME p \notin Faulty, state'[p] = "CLEANUP_PKGSYS", pc'[p] = "closed"
      PROVE  \E q \in promised' : q.name = P(p)'.id
  <2>1. CloseDbs(p)
    BY <1>5, AddedQueued, StateMoves
  <2>2. Db!CloseHeader(p)
    BY <1>5, <2>1 DEF CloseDbs, Db!BeginClose, Db!CloseAlloc, Db!CloseAllocFails,
       Db!AllocPlace, Db!CloseAppend, Db!CloseAppendFails, Db!EndStore, Db!Goto, ControlInv,
       ControlOK
  <2>3. PICK i \in DOMAIN db[p].propsToAdd : db[p].propsToAdd[i].name = P(p)'.id
    BY <1>3, <1>5, <2>1
  <2>4. db[p].propsToAdd[i] \in promised'
    BY <1>5, <1>a, <2>2 DEF Db!CloseHeader, OutcomeSession
  <2> QED  BY <2>3, <2>4
<1>6. ASSUME p \notin Faulty, state'[p] = "ACCEPT"
      PROVE  \E q \in promised' : q.name = P(p)'.id
  <2>1. DbsClosed(p) /\ state[p] = "CLEANUP_PKGSYS"
    BY <1>6, StateMoves
  <2>2. pc[p] = "closed" /\ UNCHANGED promised /\ P(p)' = P(p)
    BY <2>1 DEF DbsClosed, Db!CloseUnlock, P
  <2> QED  BY <1>6, <1>a, <2>1, <2>2 DEF OutcomeSession
<1> QED  BY <1>1, <1>2, <1>4, <1>5, <1>6 DEF OutcomeSession

LEMMA OutcomeStep ==
  ASSUME ControlInv, EngineInv, OutcomeInv, [Next]_vars
  PROVE  OutcomeInv'
<1>1. CASE UNCHANGED vars
  <2>1. UNCHANGED <<db, pc, state, conf, promised>>
    BY <1>1 DEF vars
  <2> QED  BY <2>1 DEF OutcomeInv, OutcomeSession, P
<1>2. ASSUME NEW p \in Procs, Start(p) \/ Run(p) \/ Crash(p)
      PROVE  OutcomeInv'
  <2>1. ASSUME NEW q \in Procs, q # p
        PROVE  OutcomeSession(q)'
    BY <1>2, <2>1, OthersSame, PromisesKept DEF OutcomeInv, OutcomeSession, P
  <2> QED  BY <1>2, <2>1, OutcomeOwn DEF OutcomeInv
<1> QED  BY <1>1, <1>2 DEF Next

LEMMA OutcomeInit ==
  ASSUME Init
  PROVE  OutcomeInv
<1>1. \A p \in Procs : /\ db[p].propsToAdd = <<>> /\ db[p].propsToRm = <<>>
                        /\ ~db[p].failed /\ state[p] = "NONE"
  BY SameInit DEF Init, Dbp!Init, Dbp!NoSession
<1> QED  BY <1>1 DEF OutcomeInv, OutcomeSession

(* A transaction that ends in ACCEPT has committed its package, and one    *)
(* that ends in ERR commits nothing (transaction.c:192), unless its own    *)
(* writes fail; whatever the others do, kills included.                    *)
THEOREM OutcomesAreTrue == Spec => []OutcomeIsTrue
<1>1. OutcomeInv => OutcomeIsTrue
  BY DEF OutcomeInv, OutcomeSession, OutcomeIsTrue
<1>2. Init => OutcomeInv
  BY OutcomeInit
<1>3. ControlInv /\ EngineInv /\ OutcomeInv /\ [Next]_vars => OutcomeInv'
  BY OutcomeStep
<1> QED  BY <1>1, <1>2, <1>3, EngineInvariant, PTL DEF Spec

-----------------------------------------------------------------------------
(* No identifier is twice in the database.  A transaction that dies on an  *)
(* incomplete package does so before it writes, which the invariants of    *)
(* the engine survive although a kill in general breaks them.              *)
NamedInv == Dbp!StringInv /\ Dbp!HiddenInv /\ Dbp!NamesInv

LEMMA NamedLeave ==
  ASSUME EngineInv, NamedInv, NEW p \in Procs, Db!Leave(p), UNCHANGED <<fileVars, promised>>,
         pc[p] \notin {"closing", "storing"}
  PROVE  Dbp!HiddenInv' /\ Dbp!NamesInv'
<1>1. /\ Dbp!Leave(p) /\ UNCHANGED <<numSlots, numProps>>
      /\ UNCHANGED <<Dbp!dbVars, Dbp!strVars, promised>>
  BY SameLeave DEF fileVars, Dbp!dbVars, Dbp!strVars
<1>2. Dbp!SoundInv /\ Dbp!NamesInv /\ ~Dbp!Writing(pc[p])
  BY DEF EngineInv, NamedInv, Dbp!SoundInv, Dbp!Writing
<1>3. Dbp!HiddenInv'
  BY <1>1, DbAssumptions, Dbp!HiddenLeave DEF EngineInv, NamedInv
<1> QED  BY <1>1, <1>2, <1>3, DbAssumptions, Dbp!NamesOpen

LEMMA NamedStep ==
  ASSUME Crashable = {}, Faulty = {}, ControlInv, EngineInv, NamedInv, [Next]_vars
  PROVE  Dbp!HiddenInv' /\ Dbp!NamesInv'
<1>a. /\ Dbp!SoundInv /\ Dbp!NamesInv
      /\ Dbp!HiddenInv /\ Dbp!TypeInv /\ Dbp!LockExclusion
  BY DEF EngineInv, NamedInv, Dbp!SoundInv
<1>1. ASSUME UNCHANGED dbVars
      PROVE  Dbp!HiddenInv' /\ Dbp!NamesInv'
  <2>1. UNCHANGED Dbp!vars
    BY <1>1 DEF dbVars, Dbp!vars
  <2>2. Dbp!HiddenInv'
    BY <1>1, <1>a DEF dbVars, Dbp!HiddenInv, Dbp!NeverHidden, Dbp!CountCovers
  <2> QED  BY <1>a, <2>1, <2>2, DbAssumptions, Dbp!NamesStay
<1>2. ASSUME NEW p \in Procs, Start(p) \/ Run(p) \/ Crash(p)
      PROVE  Dbp!HiddenInv' /\ Dbp!NamesInv'
  <2>1. CASE UNCHANGED dbVars
    BY <1>1, <2>1
  <2>2. CASE \/ CollectIndexDies(p) \/ AddPkgDies(p) \/ (ReadPkgConfDeps(p) /\ Die(p))
             \/ WriteLinkFails(p) \/ DbsClosed(p)
    <3>1. Db!Leave(p) /\ UNCHANGED <<fileVars, promised>>
      BY <2>2 DEF CollectIndexDies, AddPkgDies, Die, WriteLinkFails, DbsClosed,
                  Db!CloseUnlock, Db!dbVars, Db!strVars, fileVars
    <3>2. pc[p] \notin {"closing", "storing"}
      <4>1. CASE DbsClosed(p)
        BY <4>1 DEF DbsClosed, Db!CloseUnlock
      <4>2. CASE ~DbsClosed(p)
        <5>1. state[p] \in {"READ_PKGCONF", "COLLECT_INDEX", "WRITE_INDEX", "ADDPKG"}
          BY <2>2, <4>2 DEF ReadPkgConfDeps, CollectIndexDies, WriteLinkFails, AddPkgDies
        <5> QED  BY <5>1 DEF ControlInv, At
      <4> QED  BY <4>1, <4>2
    <3> QED  BY <3>1, <3>2, NamedLeave
  <2>3. CASE OpenDb(p) \/ DbOpened(p)
    <3>1. Dbp!OpenStat(p) \/ Dbp!OpenLock(p) \/ Dbp!OpenMap(p) \/ Dbp!OpenStrtab(p)
      BY <2>3, SameOpen DEF OpenDb, DbOpened
    <3>2. Dbp!OpenStat(p) \/ Dbp!Open(p)
      BY <3>1 DEF Dbp!Open
    <3> QED  BY <1>a, <3>1, <3>2, DbAssumptions, Dbp!HiddenOpen, Dbp!NamesOpen
  <2>4. CASE OpenDbLocked(p)
    BY <2>4, NamedLeave DEF OpenDbLocked, Db!OpenLocked, Db!dbVars, Db!strVars, fileVars
  <2>5. CASE AddPkg(p)
    BY <1>a, <2>5, SameCalls, DbAssumptions, Dbp!HiddenOpen, Dbp!NamesAdd DEF AddPkg
  <2>6. CASE CloseDbs(p)
    <3>1. \/ Dbp!BeginClose(p) \/ Dbp!CloseAlloc(p) \/ Dbp!CloseAppend(p)
          \/ Dbp!CloseHeader(p)
      BY <2>6, SameCalls, SameStores DEF CloseDbs, Db!CloseAllocFails, Db!CloseAppendFails
    <3>2. Dbp!HiddenInv'
      BY <1>a, <3>1, DbAssumptions, Dbp!HiddenClose
    <3>3. Dbp!NamesInv'
      BY <1>a, <3>1, DbAssumptions, Dbp!NamesBegin, Dbp!NamesCloseAlloc, Dbp!NamesCloseStore,
         Dbp!NamesCloseHeader
    <3> QED  BY <3>2, <3>3
  <2> QED
    BY <1>2, <2>1, <2>2, <2>3, <2>4, <2>5, <2>6
       DEF Run, Start, Crash, InitFails, ReadPkgConf, ReadPkgConfSyntax, ReadPkgConfDeps,
           CollectIndex, CollectIndexFails, WriteLink, IndexWritten, AddPkgExists
<1> QED  BY <1>1, <1>2 DEF Next, vars, dbVars

(* "Ensure conflicting ID doesn't exist" (pkgdb.c:91): while no command is *)
(* killed and every write reaches the file, no two packages of the         *)
(* database have the same identifier, whatever commands run together and   *)
(* wherever they fail.                                                     *)
THEOREM IdsAreDistinct ==
  ASSUME Crashable = {}, Faulty = {}
  PROVE  Spec => []DistinctIds
<1>1. Dbp!Spec => []Dbp!StringInv
  BY DbAssumptions, Dbp!StringInvariant
<1>2. Init => Dbp!HiddenInv /\ Dbp!NamesInv
  BY SameInit, DbAssumptions, Dbp!HiddenInit, Dbp!NamesInit DEF Init
<1>3. ControlInv /\ EngineInv /\ Dbp!StringInv /\ Dbp!HiddenInv /\ Dbp!NamesInv
        /\ [Next]_vars => Dbp!HiddenInv' /\ Dbp!NamesInv'
  BY NamedStep DEF NamedInv
<1>4. Dbp!NamesInv => DistinctIds
  BY SameReads DEF Dbp!NamesInv, Dbp!FilesNamed, Dbp!NameOf, Dbp!DistinctNames, DistinctIds
<1> QED
  BY <1>1, <1>2, <1>3, <1>4, EngineInvariant, TransactionsUseEngine, PTL DEF Spec
=============================================================================
