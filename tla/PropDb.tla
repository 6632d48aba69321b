------------------------------- MODULE PropDb -------------------------------
(***************************************************************************)
(* The property database engine: PropDbCreate, PropDbOpen, PropDbAddProp,  *)
(* PropDbRemoveProp, PropDbFindProp and PropDbClose (propdb.c) with the    *)
(* string table under them (strtab.c), used by several processes at once.  *)
(*                                                                         *)
(* The files are shared; everything else is local to a process.  A step is *)
(* one system call, or one group of stores into the shared mapping, so     *)
(* that the processes interleave between the calls the code makes and a    *)
(* process can be killed between any two of them.  A kill leaves the files *)
(* as they are (the page cache survives it) and drops the flock.  All of   *)
(* the database is taken to fit in one page, so that a mapping shows the   *)
(* whole file whatever size it was made with.  A pwrite may write nothing, *)
(* as it does when the disk is full; the code does not look at its result. *)
(***************************************************************************)
EXTENDS PropDbFormat, Sequences, FiniteSets

CONSTANTS
  Procs,      \* processes that use the database
  Initers,    \* those that run "nnpkg init"; if none, init has been run
  Removers,   \* those that call PropDbRemoveProp
  Crashable,  \* those that may be killed
  Faulty,     \* those whose pwrite may write nothing
  Props,      \* properties a process may add
  NoProc,     \* the owner of a free lock
  MaxProps,   \* bound: value of numProps, and of numFreeProps
  MaxRemoves  \* bound: removals queued in one session

ASSUME PropDbAssumption ==
  /\ Initers \subseteq Procs /\ Removers \subseteq Procs
  /\ Crashable \subseteq Procs /\ Faulty \subseteq Procs
  /\ NoProc \notin Procs
  /\ Props \subseteq Prop
  /\ MaxProps \in Nat /\ MaxRemoves \in Nat
  /\ Removers # {} => MaxProps <= W   \* scans stay in the first slot

VARIABLES
  dbFile,       \* "absent", "empty" (created, no header yet) or "ready"
  slots,        \* the slots of the database file; zero past its end
  numSlots,     \* slots the file physically holds
  numProps,     \* header: "number of properties in database"
  numFreeProps, \* header: "number of free properties"
  strFile,      \* the string table: "absent", "empty" or "ready"
  strtab,       \* its cells
  strtabLen,    \* cells it physically holds
  lock,         \* owner of the flock on the database
  pc,           \* where each process is
  db,           \* the NnpkgPropDb_t of each process, and the locals of its calls
  promised      \* history: properties committed by a session whose writes
                \* all reached the files

dbVars  == <<dbFile, slots, numSlots, numProps, numFreeProps>>
strVars == <<strFile, strtab, strtabLen>>
vars    == <<dbFile, slots, numSlots, numProps, numFreeProps,
             strFile, strtab, strtabLen, lock, pc, db, promised>>

FileStates == {"absent", "empty", "ready"}

CreatePcs  == {"creat_db", "write_header", "stat_strtab", "creat_strtab",
               "write_strtab_header"}
SessionPcs == {"locked", "open_strtab", "open", "closing", "storing", "closed"}
HoldPcs    == SessionPcs \cup {"leaked"}   \* places where the flock is held
Pcs        == {"idle", "opening"} \cup CreatePcs \cup HoldPcs

Removal == [slot : Slots, name : Names]    \* an entry of propsToRm

Session ==
  [sz           : -1 .. MaxSlots,  \* size found by stat, in slots; -1: no byte
   numFreeProps : Nat,
   allocMark    : Nat,             \* word of the first slot; 0 is NULL
   propsLeft    : Nat,
   propsToAdd   : Seq(Props),
   propsToRm    : Seq(Removal),
   strtabOff    : 0 .. MaxStrs + 1,
   strtabMapped : BOOLEAN,         \* mmap of an empty string table fails
   numProps     : Nat,             \* locals of PropDbClose
   curEnd       : 0 .. MaxSlots,
   removed      : Nat,             \* propsToRm entries already processed
   added        : Nat,             \* propsToAdd entries already processed
   newProp      : Words \cup {-1}, \* word chosen for an entry; -1: append
   newId        : Cells,           \* string index of the entry being added
   failed       : BOOLEAN]         \* history: a pwrite wrote nothing

NoSession ==
  [sz |-> -1, numFreeProps |-> 0, allocMark |-> 0, propsLeft |-> 0,
   propsToAdd |-> <<>>, propsToRm |-> <<>>, strtabOff |-> 0,
   strtabMapped |-> FALSE, numProps |-> 0, curEnd |-> 0, removed |-> 0,
   added |-> 0, newProp |-> -1, newId |-> 0, failed |-> FALSE]

TypeOK ==
  /\ dbFile \in FileStates /\ strFile \in FileStates
  /\ slots \in [Slots -> Slot]
  /\ numSlots \in 0 .. MaxSlots
  /\ numProps \in Nat /\ numFreeProps \in Nat
  /\ strtab \in [Cells -> Names \cup {NoString, StrtabHeader}]
  /\ strtabLen \in 0 .. MaxStrs + 1
  /\ lock \in Procs \cup {NoProc}
  /\ pc \in [Procs -> Pcs]
  /\ db \in [Procs -> Session]
  /\ promised \subseteq Props

-----------------------------------------------------------------------------
EmptyTable == [c \in Cells |-> NoString]
NewTable   == [EmptyTable EXCEPT ![0] = StrtabHeader]

(* With no process left to run init, the files are as init leaves them. *)
Init ==
  /\ slots = [s \in Slots |-> ZeroSlot]
  /\ numSlots = 0 /\ numProps = 0 /\ numFreeProps = 0
  /\ lock = NoProc
  /\ pc = [p \in Procs |-> "idle"]
  /\ db = [p \in Procs |-> NoSession]
  /\ promised = {}
  /\ IF Initers = {}
       THEN /\ dbFile = "ready" /\ strFile = "ready"
            /\ strtab = NewTable /\ strtabLen = 1
       ELSE /\ dbFile = "absent" /\ strFile = "absent"
            /\ strtab = EmptyTable /\ strtabLen = 0

Goto(p, l) == pc' = [pc EXCEPT ![p] = l]

(* The process returns to its caller, or dies: its session is gone and its *)
(* descriptor closed, which drops the flock.                               *)
Leave(p) ==
  /\ Goto(p, "idle")
  /\ db' = [db EXCEPT ![p] = NoSession]
  /\ lock' = IF lock = p THEN NoProc ELSE lock

(* The database header can be read through a mapping: the file has bytes. *)
HeaderMapped == dbFile = "ready" \/ numSlots > 0

(* flock(LOCK_EX | LOCK_NB) succeeds. *)
LockIgnored == TRUE                                       \* seeded fault
LockFree == lock = NoProc

(* Changing fields of the session of p. *)
SetDb(p, r) == db' = [db EXCEPT ![p] = r]

-----------------------------------------------------------------------------
(* PropDbCreate and PropDbInitStrtab.  stat and creat are separate calls,  *)
(* and creat truncates a file that exists.                                 *)

DbMissing == dbFile = "absent"  \* otherwise "package database already exists"

CreateStat(p) ==
  /\ p \in Initers /\ pc[p] = "idle"
  /\ DbMissing
  /\ Goto(p, "creat_db")
  /\ UNCHANGED <<dbVars, strVars, lock, db, promised>>

CreatDb(p) ==
  /\ pc[p] = "creat_db"
  /\ dbFile' = "empty"
  /\ slots' = [s \in Slots |-> ZeroSlot]
  /\ numSlots' = 0 /\ numProps' = 0 /\ numFreeProps' = 0
  /\ Goto(p, "write_header")
  /\ UNCHANGED <<strVars, lock, db, promised>>

WriteHeader(p) ==
  /\ pc[p] = "write_header"
  /\ dbFile' = "ready" /\ numProps' = 0 /\ numFreeProps' = 0
  /\ Goto(p, "stat_strtab")
  /\ UNCHANGED <<slots, numSlots, strVars, lock, db, promised>>

StrtabStat(p) ==
  /\ pc[p] = "stat_strtab"
  /\ Goto(p, IF strFile = "absent" THEN "creat_strtab"
             ELSE "idle")      \* "string table already exists"
  /\ UNCHANGED <<dbVars, strVars, lock, db, promised>>

CreatStrtab(p) ==
  /\ pc[p] = "creat_strtab"
  /\ strFile' = "empty" /\ strtab' = EmptyTable /\ strtabLen' = 0
  /\ Goto(p, "write_strtab_header")
  /\ UNCHANGED <<dbVars, lock, db, promised>>

WriteStrtabHeader(p) ==
  /\ pc[p] = "write_strtab_header"
  /\ strFile' = "ready"
  /\ strtab' = [strtab EXCEPT ![0] = StrtabHeader]
  /\ strtabLen' = Larger(strtabLen, 1)
  /\ Goto(p, "idle")
  /\ UNCHANGED <<dbVars, lock, db, promised>>

-----------------------------------------------------------------------------
(* PropDbOpen: the size is taken before the lock is. *)

StatSize == IF dbFile = "empty" /\ numSlots = 0 THEN -1 ELSE numSlots

OpenStat(p) ==
  /\ pc[p] = "idle" /\ dbFile # "absent"
  /\ SetDb(p, [NoSession EXCEPT !.sz = StatSize])
  /\ Goto(p, "opening")
  /\ UNCHANGED <<dbVars, strVars, lock, promised>>

OpenLock(p) ==
  /\ pc[p] = "opening" /\ LockFree
  /\ lock' = p
  /\ Goto(p, "locked")
  /\ UNCHANGED <<dbVars, strVars, db, promised>>

(* LOCK_NB: somebody else's lock is an error (NNPKG_ERR_DB_LOCKED). *)
OpenLocked(p) ==
  /\ pc[p] = "opening" /\ ~LockFree
  /\ Leave(p)
  /\ UNCHANGED <<dbVars, strVars, promised>>

OpenMap(p) ==
  /\ pc[p] = "locked" /\ db[p].sz # -1 /\ dbFile = "ready"
  /\ SetDb(p, [db[p] EXCEPT !.numFreeProps = numFreeProps])
  /\ Goto(p, "open_strtab")
  /\ UNCHANGED <<dbVars, strVars, lock, promised>>

(* mmap reports failure with MAP_FAILED, which the test for NULL does not  *)
(* see: without a header to map the process dies on its first access, and  *)
(* a header never written fails the assertion on propSize.                 *)
OpenMapDies(p) ==
  /\ pc[p] = "locked" /\ (db[p].sz = -1 \/ dbFile # "ready")
  /\ Leave(p)
  /\ UNCHANGED <<dbVars, strVars, promised>>

(* st_size of the string table. *)
StrtabStart == 1                                          \* seeded fault
StrtabEnd == strtabLen

OpenStrtab(p) ==
  /\ pc[p] = "open_strtab" /\ strFile # "absent"
  /\ SetDb(p, [db[p] EXCEPT !.strtabOff = StrtabEnd,
                            !.strtabMapped = strtabLen > 0])
  /\ Goto(p, "open")
  /\ UNCHANGED <<dbVars, strVars, lock, promised>>

(* A missing string table: PropDbOpenStrtab frees db and PropDbOpen goes   *)
(* on using it.  What follows is undefined: the process is aborted by the  *)
(* second free, or returns having unlocked and closed its descriptor, or   *)
(* some other one, in which case the lock stays until it exits.            *)
OpenStrtabFails(p) ==
  /\ pc[p] = "open_strtab" /\ strFile = "absent"
  /\ \/ Leave(p)
     \/ /\ Goto(p, "leaked")
        /\ SetDb(p, NoSession)
        /\ UNCHANGED lock
  /\ UNCHANGED <<dbVars, strVars, promised>>

Exit(p) ==
  /\ pc[p] = "leaked"
  /\ Leave(p)
  /\ UNCHANGED <<dbVars, strVars, promised>>

-----------------------------------------------------------------------------
(* The calls made on an open database. *)

InBatch(p, n) == \E i \in DOMAIN db[p].propsToAdd : db[p].propsToAdd[i].name = n

(* PropDbFindProp returns the first match. *)
Found(n)    == Matches(slots, strtab, numProps, n) # {}
FindProp(n) == FirstOf(Matches(slots, strtab, numProps, n))

(* Reading the first count names: the string table is mapped, and no index *)
(* fails the assertion of PropDbGetString.                                 *)
InBounds(p, s) == slots[s][0].val <= db[p].strtabOff
Readable(p, count) ==
  \A s \in Slots : s < count => db[p].strtabMapped /\ InBounds(p, s)

FindDies(p) ==
  /\ pc[p] = "open" /\ HeaderMapped
  /\ ~Readable(p, numProps)
  /\ Leave(p)
  /\ UNCHANGED <<dbVars, strVars, promised>>

(* PropDbAddProp.  Its caller, PkgDbAddPackage, first makes sure that the  *)
(* name is neither queued nor found.                                       *)
AddProp(p) ==
  /\ pc[p] = "open" /\ HeaderMapped
  /\ Readable(p, numProps)
  /\ LET n == Len(db[p].propsToAdd) IN      \* bounds
       /\ db[p].sz + n < MaxSlots
       /\ numProps + n < MaxProps
       /\ db[p].strtabOff + n <= MaxStrs
  /\ \E prop \in Props :
       /\ ~InBatch(p, prop.name) /\ ~Found(prop.name)
       /\ SetDb(p, [db[p] EXCEPT !.propsToAdd = Append(@, prop)])
  /\ UNCHANGED <<dbVars, strVars, lock, pc, promised>>

(* PropDbRemoveProp of a property found in this session. *)
RemoveProp(p) ==
  /\ p \in Removers
  /\ pc[p] = "open" /\ HeaderMapped
  /\ Len(db[p].propsToRm) < MaxRemoves      \* bounds
  /\ db[p].numFreeProps + Len(db[p].propsToRm) < MaxProps
  /\ \E n \in Names :
       /\ Found(n) /\ Readable(p, FindProp(n) + 1)
       /\ SetDb(p, [db[p] EXCEPT !.propsToRm =
                      Append(@, [slot |-> FindProp(n), name |-> n])])
  /\ UNCHANGED <<dbVars, strVars, lock, pc, promised>>

-----------------------------------------------------------------------------
(* PropDbClose. *)

(* Where the first appended entry goes. *)
AppendAtStart(d) == 0                                     \* seeded fault
AppendAtPast(d) == d.sz + 1                               \* seeded fault
AppendAt(d) == d.sz

BeginClose(p) ==
  /\ pc[p] = "open" /\ HeaderMapped
  /\ SetDb(p, [db[p] EXCEPT !.curEnd = AppendAt(db[p]), !.numProps = numProps])
  /\ Goto(p, "closing")
  /\ UNCHANGED <<dbVars, strVars, lock, promised>>

(* A store through the mapping reaches only the slots the file holds. *)
InFile(m) == [s \in Slots |-> IF s < numSlots THEN m[s] ELSE slots[s]]

(* numFreeProps after one removal. *)
Taken(n) == n - 1                                         \* seeded fault
Freed(n) == n + 1

CloseRemove(p) ==
  /\ pc[p] = "closing" /\ HeaderMapped
  /\ db[p].removed < Len(db[p].propsToRm)
  /\ slots' = InFile(ClearHeader(slots, db[p].propsToRm[db[p].removed + 1].slot))
  /\ SetDb(p, [db[p] EXCEPT !.numFreeProps = Freed(@), !.removed = @ + 1])
  /\ UNCHANGED <<dbFile, numSlots, numProps, numFreeProps, strVars, lock, pc,
                 promised>>

NeverDone(p)   == FALSE                                   \* seeded fault
RemovesDone(p) == db[p].removed = Len(db[p].propsToRm)
AddsDone(p)    == db[p].added = Len(db[p].propsToAdd)

(* propDbAllocProp: where a scan starts, how far it goes, what it picks. *)
ScanStart(d) == d.allocMark
ScanLen(d)   == IF d.allocMark = 0 THEN numProps ELSE d.propsLeft
Candidates(d) ==
  IF d.numFreeProps = 0 THEN {} ELSE FreeWords(slots, ScanStart(d), ScanLen(d))

AllocProp(d) ==
  IF Candidates(d) = {}
    THEN [d EXCEPT !.newProp = -1]
    ELSE LET w == FirstOf(Candidates(d))
         IN  [d EXCEPT !.newProp = w,
                       !.numFreeProps = @ - 1,
                       !.propsLeft = ScanLen(d) - (w - ScanStart(d)),
                       !.allocMark = w + 1]

(* PropDbAddString: where the next string goes. *)
SameOff(off) == off                                       \* seeded fault
NextOff(off) == off + 1

AllocPlace(p) ==
  /\ pc[p] = "closing" /\ HeaderMapped
  /\ RemovesDone(p) /\ ~AddsDone(p)
  /\ Goto(p, "storing")
  /\ UNCHANGED <<dbVars, strFile, lock, promised>>

Allocated(d) ==
  [AllocProp(d) EXCEPT !.newId = d.strtabOff, !.strtabOff = NextOff(d.strtabOff)]

(* An entry is given its place, and its name is appended to the string     *)
(* table (PropDbAddString, called by propDbSerializeProp).                 *)
CloseAlloc(p) ==
  /\ AllocPlace(p)
  /\ LET off == db[p].strtabOff IN
       /\ strtab' = [strtab EXCEPT ![off] = db[p].propsToAdd[db[p].added + 1].name]
       /\ strtabLen' = Larger(strtabLen, off + 1)
  /\ SetDb(p, Allocated(db[p]))

(* The same when the name is not written: the entry will refer to it.      *)
CloseAllocFails(p) ==
  /\ p \in Faulty
  /\ AllocPlace(p)
  /\ SetDb(p, [Allocated(db[p]) EXCEPT !.failed = TRUE])
  /\ UNCHANGED <<strtab, strtabLen>>

EntryImage(p) ==
  Serialize(db[p].newId, db[p].propsToAdd[db[p].added + 1].data)

EndStore(p) ==
  /\ Goto(p, "closing")
  /\ UNCHANGED <<dbFile, numProps, numFreeProps, strVars, lock, promised>>

Uncounted(d) == [d EXCEPT !.added = @ + 1]                \* seeded fault
Counted(d) == [d EXCEPT !.numProps = @ + 1, !.added = @ + 1]

(* No free entry: pwrite at the end of the file as stat found it. *)
CloseAppend(p) ==
  /\ pc[p] = "storing" /\ db[p].newProp = -1
  /\ slots' = [slots EXCEPT ![db[p].curEnd] = EntryImage(p)]
  /\ numSlots' = Larger(numSlots, db[p].curEnd + 1)
  /\ SetDb(p, [Counted(db[p]) EXCEPT !.curEnd = @ + 1])
  /\ EndStore(p)

(* The same when nothing is written: the entry is counted.                 *)
CloseAppendFails(p) ==
  /\ p \in Faulty
  /\ pc[p] = "storing" /\ db[p].newProp = -1
  /\ SetDb(p, [Counted(db[p]) EXCEPT !.curEnd = @ + 1, !.failed = TRUE])
  /\ UNCHANGED <<slots, numSlots>>
  /\ EndStore(p)

(* A free entry: the property is stored where the scan stopped. *)
CloseReuse(p) ==
  /\ pc[p] = "storing" /\ db[p].newProp # -1 /\ HeaderMapped
  /\ slots' = InFile(StoreAtWord(slots, db[p].newProp, EntryImage(p)))
  /\ SetDb(p, Counted(db[p]))
  /\ UNCHANGED numSlots
  /\ EndStore(p)

(* The header is rewritten: what the session did is now visible. *)
CloseHeader(p) ==
  /\ pc[p] = "closing" /\ HeaderMapped
  /\ RemovesDone(p) /\ AddsDone(p)
  /\ numProps' = db[p].numProps
  /\ numFreeProps' = db[p].numFreeProps
  /\ promised' =
       {q \in promised : \A i \in DOMAIN db[p].propsToRm :
                           db[p].propsToRm[i].name # q.name}
       \cup {db[p].propsToAdd[i] :
               i \in IF db[p].failed THEN {} ELSE DOMAIN db[p].propsToAdd}
  /\ Goto(p, "closed")
  /\ UNCHANGED <<dbFile, slots, numSlots, strVars, lock, db>>

CloseUnlock(p) ==
  /\ pc[p] = "closed"
  /\ Leave(p)
  /\ UNCHANGED <<dbVars, strVars, promised>>

(* SIGBUS: init truncated the file under the mapping. *)
BusError(p) ==
  /\ pc[p] \in {"open", "closing", "storing"} /\ ~HeaderMapped
  /\ pc[p] = "storing" => db[p].newProp # -1
  /\ Leave(p)
  /\ UNCHANGED <<dbVars, strVars, promised>>

(* The process is killed. *)
Crash(p) ==
  /\ p \in Crashable /\ pc[p] # "idle"
  /\ Leave(p)
  /\ UNCHANGED <<dbVars, strVars, promised>>

-----------------------------------------------------------------------------
Create(p) ==
  \/ CreateStat(p) \/ CreatDb(p) \/ WriteHeader(p)
  \/ StrtabStat(p) \/ CreatStrtab(p) \/ WriteStrtabHeader(p)

Open(p) ==
  \/ OpenLock(p) \/ OpenLocked(p) \/ OpenMap(p) \/ OpenMapDies(p)
  \/ OpenStrtab(p) \/ OpenStrtabFails(p)

Close(p) ==
  \/ CloseRemove(p) \/ CloseAlloc(p) \/ CloseAllocFails(p)
  \/ CloseAppend(p) \/ CloseAppendFails(p) \/ CloseReuse(p)
  \/ CloseHeader(p) \/ CloseUnlock(p)

Next ==
  \E p \in Procs :
    \/ Create(p)
    \/ OpenStat(p) \/ Open(p)
    \/ AddProp(p) \/ RemoveProp(p) \/ FindDies(p)
    \/ BeginClose(p) \/ Close(p)
    \/ BusError(p) \/ Exit(p) \/ Crash(p)

Spec == Init /\ [][Next]_vars

(* A call that has begun goes on to its end; whether a process makes the   *)
(* next call is its own choice.                                            *)
FairSpec ==
  Spec /\ \A p \in Procs :
            /\ WF_vars(Open(p)) /\ WF_vars(Close(p))
            /\ WF_vars(BusError(p)) /\ WF_vars(Exit(p))

-----------------------------------------------------------------------------
(* Properties.                                                             *)

Committing(p) == pc[p] \in {"open", "closing", "storing"}

(* Mutual exclusion: a process is between its flock and the release of it  *)
(* exactly when it owns the lock (propdb.c:179, 412).                      *)
LockExclusion == \A p \in Procs : (lock = p) <=> (pc[p] \in HoldPcs)

(* While a process has the database open, nothing in the files changes     *)
(* unless it is the one that moves: what PropDbFindProp and PropDbClose    *)
(* read through the mapping stays what it was.                             *)
SessionIsolation ==
  [][\A p \in Procs :
       Committing(p) /\ pc'[p] = pc[p] /\ db'[p] = db[p]
         => UNCHANGED <<dbVars, strVars>>]_vars

(* The assertion of PropDbGetString (strtab.c:146): an open session finds  *)
(* no string index past the end of the table it mapped.                    *)
StringIndexInBounds ==
  \A p \in Procs : Committing(p) => \A s \in Slots : slots[s][0].val < db[p].strtabOff

Live(s) == slots[s][0].type = NNPKG_PROP_TYPE_PKG

(* Every stored property has a name of its own in the string table, which  *)
(* no later session, not even one after a crash, writes over.              *)
OwnStrings ==
  /\ \A s \in Slots : Live(s) => NameAt(slots, strtab, s) \in Names
  /\ \A s, t \in Slots :
       Live(s) /\ Live(t) /\ s # t => slots[s][0].val # slots[t][0].val

(* A closed database has no slot that lookups cannot reach: the header     *)
(* counts every slot the file holds (propdb.c:343, 402).                   *)
NeverHidden == lock = NoProc => numSlots <= numProps

Holds(q, count) ==
  \E s \in Slots : /\ s < count
                   /\ NameAt(slots, strtab, s) = q.name /\ DataAt(slots, s) = q.data

(* What PropDbClose committed is found in a closed database, with its data *)
(* (tests/propdb.c:93-105).                                                *)
CommittedIsFound ==
  lock = NoProc => \A q \in promised : Holds(q, numProps)

(* Neither a kill nor a full disk, then or later, costs a committed        *)
(* property its place in the file.                                         *)
CommittedIsStored == \A q \in promised : Holds(q, numSlots)

(* The slots of the file that lookups reach only grow in number, and their *)
(* contents are never written again, whatever was killed in between or     *)
(* could not be written.                                                   *)
AppendOnly ==
  [][\A s \in Slots :
       s < numProps /\ s < numSlots => s < numProps' /\ slots'[s] = slots[s]]_vars

(* "Ensure conflicting ID doesn't exist" (pkgdb.c:91): two properties of a *)
(* closed database that lookups reach have different names.                *)
DistinctNames ==
  lock = NoProc =>
    \A s, t \in Slots :
      /\ s < numProps /\ t < numProps /\ s # t
      /\ Live(s) /\ Live(t)
      => NameAt(slots, strtab, s) # NameAt(slots, strtab, t)

(* What a closed database shows was committed and not removed since        *)
(* (tests/propdb.c:113).                                                   *)
FoundWasCommitted ==
  lock = NoProc => \A n \in Names : Found(n) => \E q \in promised : q.name = n

(* The two counters of the header tell how many properties there are       *)
(* (propdb.c:44-45).                                                       *)
CountsAgree ==
  lock = NoProc =>
    numProps - numFreeProps = Cardinality({s \in Slots : Live(s)})

(* "Ensure it doesn't already exist" (propdb.c:66): init never empties a   *)
(* database that has been initialised.                                     *)
InitKeepsDatabase ==
  [][dbFile = "ready" => dbFile' = "ready" /\ numSlots' >= numSlots]_vars

(* Every call returns, or its process ends: LOCK_NB never waits, and the   *)
(* loops of PropDbClose end.                                               *)
CallsReturn ==
  \A p \in Procs :
    pc[p] \notin CreatePcs \cup {"idle", "open"} ~> pc[p] \in {"idle", "open"}

(* With one process, no removals and no kills, the engine implements the   *)
(* abstract store.                                                         *)
Entry(s) == [name |-> NameAt(slots, strtab, s), data |-> DataAt(slots, s)]

Store == INSTANCE PropStore WITH
  Users <- Procs, NoUser <- NoProc, Entries <- Props,
  store <- [i \in 1 .. numProps |-> Entry(i - 1)],
  owner <- lock,
  batch <- IF \E p \in Procs : Committing(p)
             THEN db[CHOOSE p \in Procs : Committing(p)].propsToAdd
             ELSE <<>>

ImplementsStore == Store!Spec

-----------------------------------------------------------------------------
(* The strengthenings the proofs use (PropDb_proofs).                      *)

(* A session d at label l stays within the files: what it has still to     *)
(* append fits.                                                            *)
ToAdd(d) == Len(d.propsToAdd) - d.added

SessionFits(l, d) ==
  /\ l \in {"open_strtab", "open", "closing", "storing"} => d.sz >= 0
  /\ l \notin {"open", "closing", "storing", "closed"} => d.propsToAdd = <<>>
  /\ l \notin {"closing", "storing", "closed"} => d.added = 0 /\ d.removed = 0
  /\ d.added <= Len(d.propsToAdd) /\ d.removed <= Len(d.propsToRm)
  /\ l = "open" => d.sz + ToAdd(d) <= MaxSlots /\ d.strtabOff + ToAdd(d) <= MaxStrs + 1
  /\ l = "closing" =>
       d.curEnd + ToAdd(d) <= MaxSlots /\ d.strtabOff + ToAdd(d) <= MaxStrs + 1
  /\ l = "storing" =>
       /\ ToAdd(d) > 0
       /\ d.curEnd + ToAdd(d) <= MaxSlots
       /\ d.strtabOff + ToAdd(d) <= MaxStrs + 2

(* Init is over, and no step of it is left to be taken.                    *)
InitDone ==
  dbFile = "ready" /\ strFile = "ready" /\ \A p \in Procs : pc[p] \notin CreatePcs

(* The session of the lock holder appends strings at the very end of the   *)
(* table, past every index in use.                                         *)
FreshStrings ==
  /\ dbFile = "ready" /\ strFile = "ready" /\ strtabLen >= 1
  /\ \A c \in Cells : 1 <= c /\ c < strtabLen => strtab[c] \in Names
  /\ \A p \in Procs :
       /\ pc[p] \notin CreatePcs
       /\ Committing(p) => db[p].strtabOff = strtabLen
       /\ pc[p] = "storing" => db[p].newId >= 1 /\ db[p].newId = strtabLen - 1
  /\ \A s \in Slots :
       /\ slots[s][0].val < strtabLen
       /\ Live(s) => slots[s][0].val >= 1
       /\ \A p \in Procs : pc[p] = "storing" => slots[s][0].val # db[p].newId

(* Without kills, the count a session will write covers the file.          *)
CountCovers ==
  \A p \in Procs :
    LET d == db[p] IN
      /\ pc[p] \notin CreatePcs \cup {"idle"} => d.sz <= numSlots
      /\ pc[p] \in HoldPcs \ {"closing", "storing"} => numSlots <= numProps
      /\ pc[p] \in {"closing", "storing"} =>
           numSlots <= d.numProps /\ d.curEnd <= d.numProps

TypeInv   == TypeOK /\ \A p \in Procs : SessionFits(pc[p], db[p])
StringInv == FreshStrings /\ OwnStrings
HiddenInv == NeverHidden /\ CountCovers
=============================================================================
