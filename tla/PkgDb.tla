-------------------------------- MODULE PkgDb --------------------------------
(***************************************************************************)
(* The package databases of a process: pkg.c, the list of open databases   *)
(* and its destination, over pkgdb.c, packages and the recursive lookup of *)
(* their dependencies.  One process at a time uses the library, calls it   *)
(* in any order and may be killed anywhere; then another one starts.       *)
(*                                                                         *)
(* A database is what PropDb makes of it when processes do not overlap:    *)
(* PropDbOpen is one step, PropDbCreate one for each file it makes and     *)
(* each header it writes, PropDbClose one for each property it clears,     *)
(* one for each it writes and one for the header.  A write to a database   *)
(* may fail; PropDbClose does not look.  Where an addition goes after a    *)
(* removal, and a name that could not be written to the string table, are  *)
(* the matter of PropDb and Transaction: a process adds only to a database *)
(* without free properties, never adds and removes at once, and names are  *)
(* written.  As there, a database fits in its page, so that a slot past    *)
(* the end of its file reads as zero.                                      *)
(***************************************************************************)
EXTENDS Integers, Sequences, FiniteSets

CONSTANTS
  Ids,        \* identifiers of packages
  NoId,       \* string index 0: no dependency, or a property that is cleared
  Header,     \* what string index 1, inside the table's header, reads as
  Locations,  \* where databases may be (a NnpkgDbLocation_t each)
  Nowhere,    \* where an uninitialised pointer leads
  Packages,   \* packages a process may add
  MaxDeps,    \* dependencies a propDbPkg_t has room for; 60 in the code
  MaxSlots,   \* bound: properties of each database
  MaxRemoves, \* bound: properties removed from a database
  Fragile     \* bound: locations where calls that write fail, and where a
              \* process may be killed between them

Package == [id : Ids, deps : Seq(Ids)]

ASSUME PkgDbAssumption ==
  /\ NoId \notin Ids /\ Header \notin Ids /\ Header # NoId
  /\ Nowhere \notin Locations
  /\ Packages \subseteq Package
  /\ MaxDeps \in Nat /\ MaxRemoves \in Nat /\ MaxSlots \in [Locations -> Nat]

VARIABLES
  files,    \* the databases
  proc,     \* "running", or "gone" until the next process starts
  pkgDbs,   \* the list of open databases; destDb is the one of type DEST
  creating, \* the location for which PropDbCreate is running, or Nowhere
  closing,  \* PkgCloseDbs is running
  lookup,   \* the call of PkgFindPackage that is running or has returned
  error,    \* cb->error of the last call
  errHint,  \* cb->errHint
  promised, \* history: what was committed to each database, as it was added
  torn      \* history: databases whose commit was cut off behind a property

dbVars == <<files, proc, pkgDbs, creating, closing, lookup, error, errHint,
            promised, torn>>

Property == [id : Ids \cup {NoId}, deps : Seq(Ids)]
Cleared  == [id |-> NoId, deps |-> <<>>]

(* What PropDbCreate has made so far: an empty file, one with a header and *)
(* no string table, or both files.  count and free are numProps and        *)
(* numFreeProps of the header.                                             *)
Stages == {"absent", "empty", "bare", "ready"}
File   == [made : Stages, props : Seq(Property), count : Nat, free : Nat]
NoFile == [made |-> "absent", props |-> <<>>, count |-> 0, free |-> 0]

Types   == {"SOURCE", "DEST"}
Removal == [loc : Locations \cup {Nowhere}, slot : Nat]

(* num and end are numProps and curEnd of PropDbClose, in properties;      *)
(* stored are the packages whose property it has written.                  *)
OpenDb  == [loc : Locations, type : Types, toAdd : Seq(Packages),
            toRm : Seq(Removal), free : Nat, num : Nat, end : Nat,
            stored : SUBSET Packages]

(* A frame of pkgDbFindPackage: the property it is at and the index of the *)
(* dependency it looks up.                                                 *)
Frame == [slot : Nat \ {0}, dep : Nat \ {0}]

(* parts are the packages that the tree of the result is made of.          *)
Lookup   == [status : {"none", "running", "found", "null"},
             name : Ids \cup {NoId}, at : Nat, stack : Seq(Frame),
             parts : SUBSET Package]
NoLookup == [status |-> "none", name |-> NoId, at |-> 0, stack |-> <<>>,
             parts |-> {}]

Errors == {"NONE", "SYS", "DB_LOCKED", "PKG_EXIST", "PKG_NO_EXIST", "BROKEN_DEP"}

DbTypeOK ==
  /\ files \in [Locations -> File]
  /\ proc \in {"running", "gone"}
  /\ pkgDbs \in Seq(OpenDb)
  /\ creating \in Locations \cup {Nowhere}
  /\ closing \in BOOLEAN
  /\ lookup \in Lookup
  /\ error \in Errors
  /\ errHint \in Seq(Ids \cup {Header})
  /\ promised \in [Locations -> SUBSET Packages]
  /\ torn \subseteq Locations

DbInit ==
  /\ files = [l \in Locations |-> NoFile]
  /\ proc = "gone"
  /\ pkgDbs = <<>> /\ creating = Nowhere /\ closing = FALSE
  /\ lookup = NoLookup /\ error = "NONE" /\ errHint = <<>>
  /\ promised = [l \in Locations |-> {}] /\ torn = {}

-----------------------------------------------------------------------------
(* Processes and calls. *)

Begin == proc = "gone" /\ proc' = "running"

First == Head(pkgDbs)

(* A property is in the file that the header does not count yet. *)
Writing(l) == closing /\ First.loc = l /\ First.stored # {}

(* The process exits or dies: the rest of what it queued is not written,   *)
(* and a header it was to store behind a property is not stored.           *)
Leave ==
  /\ proc' = "gone"
  /\ pkgDbs' = <<>> /\ creating' = Nowhere /\ closing' = FALSE
  /\ lookup' = NoLookup /\ error' = "NONE" /\ errHint' = <<>>
  /\ torn' = torn \cup {l \in Locations : Writing(l)}

Dies == Leave /\ UNCHANGED <<files, promised>>

Ready ==
  proc = "running" /\ ~closing /\ creating = Nowhere /\ lookup.status # "running"

(* A call that returns at once.  cb->error is cleared before each call.    *)
Returns(e, h) ==
  /\ error' = e /\ errHint' = h
  /\ lookup' = NoLookup
  /\ UNCHANGED <<proc, closing, torn>>

OpenLocs == {pkgDbs[k].loc : k \in DOMAIN pkgDbs}
DestDbs  == {k \in DOMAIN pkgDbs : pkgDbs[k].type = "DEST"}

-----------------------------------------------------------------------------
(* PropDbCreate.  It refuses what is there, in whatever stage.             *)
CreateDb(l) ==
  /\ Ready
  /\ creating' = IF files[l].made = "absent" THEN l ELSE Nowhere
  /\ Returns("NONE", <<>>) /\ UNCHANGED <<files, pkgDbs, promised>>

Making == proc = "running" /\ creating # Nowhere

(* creat and write of the database, then creat of the string table; last   *)
(* the table's header is written.  Without it the first description takes  *)
(* its place, which is no name either.                                     *)
Stage(made) ==
  CASE made = "absent" -> "empty" [] made = "empty" -> "bare" [] OTHER -> "ready"

CreateStep ==
  /\ Making
  /\ files' = [files EXCEPT ![creating].made = Stage(@)]
  /\ creating' = IF files[creating].made = "ready" THEN Nowhere ELSE creating
  /\ UNCHANGED <<proc, pkgDbs, closing, lookup, error, errHint, promised, torn>>

(* The next of these calls fails, and what is made is left behind. *)
CreateFails ==
  /\ Making /\ creating \in Fragile
  /\ creating' = Nowhere
  /\ UNCHANGED <<files, proc, pkgDbs, closing, lookup, error, errHint, promised, torn>>

(* PkgOpenDb.  A second lock on a database fails within a process, too.    *)
PkgOpenDb(l, t) ==
  /\ Ready /\ files[l].made = "ready" /\ l \notin OpenLocs
  /\ t = "DEST" => DestDbs = {}
  /\ pkgDbs' = Append(pkgDbs, [loc |-> l, type |-> t, toAdd |-> <<>>, toRm |-> <<>>,
                               free |-> files[l].free, num |-> files[l].count,
                               end |-> Len(files[l].props), stored |-> {}])
  /\ Returns("NONE", <<>>)
  /\ UNCHANGED <<files, creating, promised>>

(* PropDbOpen goes on with what PropDbOpenStrtab has freed when there is   *)
(* no string table: if it survives that, it has failed, and may have kept  *)
(* the lock that the next call then meets.                                 *)
OpenErrors(l) ==
  CASE l \in OpenLocs            -> {"DB_LOCKED"}
    [] files[l].made = "absent"  -> {"SYS"}
    [] files[l].made = "bare"    -> {"SYS", "DB_LOCKED"}
    [] OTHER                     -> {}

PkgOpenDbFails(l) ==
  /\ Ready
  /\ \E e \in OpenErrors(l) : Returns(e, <<>>)
  /\ UNCHANGED <<files, pkgDbs, creating, promised>>

(* It does not survive that, or it reads the header of an empty file; or   *)
(* assert (!destDb), once the second destination is open.                  *)
PkgOpenDbDies(l) ==
  /\ Ready /\ l \notin OpenLocs
  /\ files[l].made \in {"empty", "bare"} \/ (files[l].made = "ready" /\ DestDbs # {})
  /\ Dies

-----------------------------------------------------------------------------
(* PropDbFindProp: the slot of a property among those the header counts, 0 *)
(* if there is none.                                                       *)
SlotOf(l, n) ==
  LET props == files[l].props
      at    == {s \in DOMAIN props : s <= files[l].count /\ props[s].id = n}
  IN  IF at = {} THEN 0 ELSE CHOOSE s \in at : \A r \in at : s <= r

(* internalPkg->deps[i].idx.  Behind the last of MaxDeps comes the next    *)
(* property: its name, at its offset 0, and at 8 its type and the reserved *)
(* bytes behind it, which read as index 1.  A page is zero past the end of *)
(* its file.                                                               *)
NextId(l, s) == IF s < Len(files[l].props) THEN files[l].props[s + 1].id ELSE NoId

DepAt(l, s, i) ==
  LET deps == files[l].props[s].deps
  IN  CASE i <= Len(deps)                    -> deps[i]
        [] i > Len(deps) /\ i <= MaxDeps     -> NoId
        [] i > Len(deps) /\ i = MaxDeps + 1  -> NextId(l, s)
        [] OTHER                             -> Header

-----------------------------------------------------------------------------
(* PkgFindPackage. *)

FindPackage(n) ==
  /\ Ready /\ pkgDbs # <<>>
  /\ lookup' = [NoLookup EXCEPT !.status = "running", !.name = n, !.at = 1]
  /\ error' = "NONE" /\ errHint' = <<>>
  /\ UNCHANGED <<files, proc, pkgDbs, creating, closing, promised, torn>>

Running == proc = "running" /\ lookup.status = "running"
Here    == pkgDbs[lookup.at].loc
Depth   == Len(lookup.stack)
Top     == lookup.stack[Depth]
TopDep  == DepAt(Here, Top.slot, Top.dep)

(* No path without a cycle is deeper than the database has properties; one *)
(* with a cycle ends where the stack does.                                 *)
Overflow == Depth > Len(files[Here].props)

(* pkgDbFindPackage is entered. *)
Enters(s) == lookup' = [lookup EXCEPT !.stack = Append(@, [slot |-> s, dep |-> 1])]

(* PkgDbFindPackage has returned NULL: the next database of the list.      *)
NextDbStays == lookup' = [lookup EXCEPT !.stack = <<>>, !.parts = {}]
                                                          \* seeded fault
NextDb ==
  lookup' = IF lookup.at < Len(pkgDbs)
              THEN [lookup EXCEPT !.at = @ + 1, !.stack = <<>>, !.parts = {}]
              ELSE [lookup EXCEPT !.status = "null", !.stack = <<>>, !.parts = {}]

(* The property of the package itself. *)
FindTop ==
  /\ Running /\ Depth = 0
  /\ LET s == SlotOf(Here, lookup.name)
     IN  \/ /\ s # 0
            /\ Enters(s)
            /\ UNCHANGED <<error, errHint>>
         \/ /\ s = 0
            /\ NextDb
            /\ error' = "PKG_NO_EXIST" /\ UNCHANGED errHint
  /\ UNCHANGED <<files, proc, pkgDbs, creating, closing, promised, torn>>

(* The next dependency is looked up, in the same database. *)
FindDep ==
  /\ Running /\ Depth > 0 /\ TopDep # NoId
  /\ SlotOf(Here, TopDep) # 0 /\ ~Overflow
  /\ Enters(SlotOf(Here, TopDep))
  /\ UNCHANGED <<files, proc, pkgDbs, creating, closing, error, errHint, promised, torn>>

(* It is not there; -1 is returned through all frames. *)
HintOutermost == <<lookup.name, TopDep>>                  \* seeded faults
HintNext == <<files[Here].props[Top.slot].id, DepAt(Here, Top.slot, Top.dep + 1)>>
Hint == <<files[Here].props[Top.slot].id, TopDep>>

FindBroken ==
  /\ Running /\ Depth > 0 /\ TopDep # NoId
  /\ SlotOf(Here, TopDep) = 0
  /\ NextDb
  /\ error' = "BROKEN_DEP" /\ errHint' = Hint
  /\ UNCHANGED <<files, proc, pkgDbs, creating, closing, promised, torn>>

(* No dependency is left: the package is returned to the frame above.      *)
FindReturns ==
  /\ Running /\ Depth > 0 /\ TopDep = NoId
  /\ LET part  == [id   |-> files[Here].props[Top.slot].id,
                   deps |-> [i \in 1 .. Top.dep - 1 |-> DepAt(Here, Top.slot, i)]]
         rest  == SubSeq(lookup.stack, 1, Depth - 1)
     IN  lookup' =
           [lookup EXCEPT
              !.parts = @ \cup {part},
              !.stack = IF rest = <<>> THEN <<>> ELSE [rest EXCEPT ![Depth - 1].dep = @ + 1],
              !.status = IF rest = <<>> THEN "found" ELSE @]
  /\ UNCHANGED <<files, proc, pkgDbs, creating, closing, error, errHint, promised, torn>>

(* Packages that depend on each other: the stack overflows. *)
FindDies == Running /\ Overflow /\ Dies

-----------------------------------------------------------------------------
(* PkgAddPackage. *)

Dest == CHOOSE k \in DestDbs : TRUE

PkgExists(pkg) ==
  \/ \E k \in DOMAIN pkgDbs[Dest].toAdd : pkgDbs[Dest].toAdd[k].id = pkg.id
  \/ SlotOf(pkgDbs[Dest].loc, pkg.id) # 0

PkgAddPackage(pkg) ==
  /\ Ready /\ DestDbs # {}
  /\ pkgDbs[Dest].free = 0 /\ pkgDbs[Dest].toRm = <<>>
  /\ \/ /\ PkgExists(pkg)
        /\ Returns("PKG_EXIST", <<pkg.id>>)
        /\ UNCHANGED pkgDbs
     \/ /\ ~PkgExists(pkg)
        /\ pkgDbs' = [pkgDbs EXCEPT ![Dest].toAdd = Append(@, pkg)]
        /\ Returns("NONE", <<>>)
  /\ UNCHANGED <<files, creating, promised>>

Room ==
  LET db == pkgDbs[Dest]
  IN  \A n \in {db.num, db.end} : n + Len(db.toAdd) < MaxSlots[db.loc]

(* More dependencies than deps[] has room for are written past the end of  *)
(* its heap block.                                                         *)
PkgAddPackageDies(pkg) ==
  /\ Ready /\ DestDbs # {}
  /\ ~PkgExists(pkg) /\ Len(pkg.deps) > MaxDeps
  /\ Dies

(* dataLen ends with deps[]: what was written behind it is not stored.     *)
StoredShort(pkg) ==                                       \* seeded fault
  IF Len(pkg.deps) < MaxDeps THEN pkg
                             ELSE [pkg EXCEPT !.deps = SubSeq(@, 1, MaxDeps - 1)]
Stored(pkg) ==
  IF Len(pkg.deps) <= MaxDeps THEN pkg
                              ELSE [pkg EXCEPT !.deps = SubSeq(@, 1, MaxDeps)]

-----------------------------------------------------------------------------
(* PkgRemovePackage, of the package found last: its property is queued in  *)
(* the destination, whichever database it was found in.                    *)

ClearedAt(l) == {s \in DOMAIN files[l].props : files[l].props[s] = Cleared}
MayRemove ==
  \A l \in Locations : Cardinality(ClearedAt(l)) + Len(pkgDbs[Dest].toRm) < MaxRemoves

Queue(r) ==
  /\ pkgDbs' = [pkgDbs EXCEPT ![Dest].toRm = Append(@, r)]
  /\ Returns("NONE", <<>>)
  /\ UNCHANGED <<files, creating, promised>>

PkgRemovePackage ==
  /\ Ready /\ DestDbs # {} /\ MayRemove
  /\ lookup.status = "found" /\ pkgDbs[Dest].toAdd = <<>>
  /\ Queue([loc |-> Here, slot |-> SlotOf(Here, lookup.name)])

(* Of a package just added: prop->internal was never set.  The assertion   *)
(* sees it, or the property is queued.                                     *)
PkgRemoveAdded ==
  /\ Ready /\ DestDbs # {} /\ MayRemove
  /\ pkgDbs[Dest].toAdd # <<>>
  /\ Dies \/ Queue([loc |-> Nowhere, slot |-> 0])

(* assert (destDb) and assert (pkgDbs). *)
CallDies == Ready /\ DestDbs = {} /\ Dies

-----------------------------------------------------------------------------
(* PkgCloseDbs closes the databases in the order of the list. *)

PkgCloseDbs ==
  /\ Ready /\ pkgDbs # <<>>
  /\ closing' = TRUE
  /\ lookup' = NoLookup /\ error' = "NONE" /\ errHint' = <<>>
  /\ UNCHANGED <<files, proc, pkgDbs, creating, promised, torn>>

Closing == proc = "running" /\ closing

(* The property is cleared through the mapping it was found in. *)
CloseRemove ==
  /\ Closing /\ First.toRm # <<>>
  /\ LET r == Head(First.toRm)
     IN  /\ r.loc \in OpenLocs
         /\ promised' = [promised EXCEPT ![r.loc] =
                           {q \in @ : q.id # files[r.loc].props[r.slot].id}]
         /\ files' = [files EXCEPT ![r.loc].props[r.slot] = Cleared]
  /\ pkgDbs' = [pkgDbs EXCEPT ![1].toRm = Tail(@), ![1].free = @ + 1]
  /\ UNCHANGED <<proc, creating, closing, lookup, error, errHint, torn>>

(* The database it was found in is closed already, or the pointer wild.    *)
CloseRemoveDies ==
  /\ Closing /\ First.toRm # <<>>
  /\ Head(First.toRm).loc \notin OpenLocs
  /\ Dies

(* pwrite of a property; what it skips past the end of the file is zero.   *)
WriteAt(props, n, x) ==
  [s \in 1 .. (IF n > Len(props) THEN n ELSE Len(props)) |->
     IF s = n THEN x ELSE IF s <= Len(props) THEN props[s] ELSE Cleared]

(* On to the next property to add. *)
NextAddSame(db) == [db EXCEPT !.toAdd = Tail(@), !.num = @ + 1]   \* seeded fault
NextAdd(db) == [db EXCEPT !.toAdd = Tail(@), !.num = @ + 1, !.end = @ + 1]
Puts(db)    == [NextAdd(db) EXCEPT !.stored = @ \cup {Head(db.toAdd)}]

Appending == Closing /\ First.toRm = <<>> /\ First.toAdd # <<>>

CloseAppend ==
  /\ Appending
  /\ files' = [files EXCEPT ![First.loc].props =
                  WriteAt(@, First.end + 1, Stored(Head(First.toAdd)))]
  /\ pkgDbs' = [pkgDbs EXCEPT ![1] = Puts(@)]
  /\ UNCHANGED <<proc, creating, closing, lookup, error, errHint, promised, torn>>

(* The result of pwrite is ignored: the property is counted all the same.  *)
CloseAppendFails ==
  /\ Appending /\ First.loc \in Fragile
  /\ pkgDbs' = [pkgDbs EXCEPT ![1] = NextAdd(@)]
  /\ UNCHANGED <<files, proc, creating, closing, lookup, error, errHint, promised, torn>>

(* The header is stored, of which a process that does not add and remove   *)
(* at once changes one of the counts; then the database is unlocked.       *)
CloseDb ==
  /\ Closing /\ First.toRm = <<>> /\ First.toAdd = <<>>
  /\ files' = [files EXCEPT ![First.loc].count = First.num, ![First.loc].free = First.free]
  /\ promised' = [promised EXCEPT ![First.loc] = @ \cup First.stored]
  /\ pkgDbs' = Tail(pkgDbs)
  /\ closing' = (Tail(pkgDbs) # <<>>)
  /\ UNCHANGED <<proc, creating, lookup, error, errHint, torn>>

-----------------------------------------------------------------------------
(* The calls a process may make, and the steps of the one that is running. *)
Call ==
  \/ \E l \in Locations : \/ CreateDb(l) \/ PkgOpenDbFails(l) \/ PkgOpenDbDies(l)
                          \/ \E t \in Types : PkgOpenDb(l, t)
  \/ \E n \in Ids : FindPackage(n)
  \/ /\ DestDbs # {}
     /\ \E pkg \in Packages : \/ (Room \/ PkgExists(pkg)) /\ PkgAddPackage(pkg)
                            \/ PkgAddPackageDies(pkg)
  \/ PkgRemovePackage \/ PkgRemoveAdded \/ CallDies \/ PkgCloseDbs

Step ==
  \/ CreateStep \/ CreateFails
  \/ FindTop \/ FindDep \/ FindBroken \/ FindReturns \/ FindDies
  \/ CloseRemove \/ CloseRemoveDies \/ CloseAppend \/ CloseAppendFails \/ CloseDb

SameButProc ==
  UNCHANGED <<files, pkgDbs, creating, closing, lookup, error, errHint, promised, torn>>
BeginProcess == Begin /\ SameButProc

Between(l) == creating = l \/ Writing(l)
MayEnd     == proc = "running" /\ \A l \in Locations \ Fragile : ~Between(l)
Exit       == MayEnd /\ Dies

DbNext == BeginProcess \/ Call \/ Step \/ Exit

DbSpec == DbInit /\ [][DbNext]_dbVars

-----------------------------------------------------------------------------
(* Properties.                                                             *)

FirstDeps(p) == {p.deps[i] : i \in {i \in DOMAIN p.deps : i <= MaxDeps}}
Full(p)      == Len(p.deps) >= MaxDeps

(* A set of packages that has the name n and all that any of them needs.   *)
Serves(S, n) ==
  /\ \E p \in S : p.id = n
  /\ \A p \in S : \A d \in FirstDeps(p) : \E q \in S : q.id = d

(* The database at l has n with all its dependencies; and has it without   *)
(* any package that fills its list of dependencies.                        *)
Complete(l, n) == \E S \in SUBSET promised[l] : Serves(S, n)
Simple(l, n)   == \E S \in SUBSET {p \in promised[l] : ~Full(p)} : Serves(S, n)

(* "Finds a package in the first available database" (pkg.h:130): a        *)
(* package is found only where all it depends on is, and no database       *)
(* before that one had it with its dependencies; and NULL is returned only *)
(* if none has.  No more than that can be said of a package that fills its *)
(* list of dependencies, as the lookup reads on behind it, and nothing of  *)
(* a torn database: what was written before the kill takes the place of    *)
(* what is committed next (PropDb: CommittedIsFound).                      *)
LookupIsRight ==
  /\ lookup.status = "found" =>
       /\ Here \notin torn => Complete(Here, lookup.name)
       /\ \A k \in 1 .. lookup.at - 1 :
            pkgDbs[k].loc \notin torn => ~Simple(pkgDbs[k].loc, lookup.name)
  /\ lookup.status = "null" =>
       \A l \in OpenLocs \ torn : ~Simple(l, lookup.name)

(* What is found is what was added (tests/pkg.c:140-155): every package of *)
(* the result has the dependencies it was added with, in their order, and  *)
(* the result has each of them; and every package was committed to that    *)
(* database and not removed since, unless the database is torn.            *)
Kept(l) == IF l \in torn THEN Packages ELSE promised[l]

FoundAsAdded ==
  lookup.status = "found" =>
    /\ \E p \in lookup.parts : p.id = lookup.name
    /\ \A p \in lookup.parts :
         /\ \E q \in Kept(Here) :
              /\ q.id = p.id
              /\ p.deps = SubSeq(q.deps, 1, IF Full(q) THEN MaxDeps ELSE Len(q.deps))
         /\ \A i \in DOMAIN p.deps : \E q \in lookup.parts : q.id = p.deps[i]

(* "prevent overwriting diagnostic info" (pkgdb.c:206) and "dependent on   *)
(* non-existant package" (addPkg.c:93): the error of a lookup that fails   *)
(* speaks of the last database, and names a package there and one of its   *)
(* own dependencies that is missing, however deep in the recursion it was  *)
(* met, or what is read behind the list of a package that fills it.  Of a  *)
(* torn database it may deny a package that was committed.                 *)
LastLoc == pkgDbs[Len(pkgDbs)].loc

ErrorIsTrue ==
  lookup.status = "null" /\ LastLoc \notin torn =>
    LET last == promised[LastLoc]
    IN  \/ error = "PKG_NO_EXIST" /\ \A p \in last : p.id # lookup.name
        \/ /\ error = "BROKEN_DEP"
           /\ \E p \in last :
                /\ p.id = errHint[1]
                /\ \/ errHint[2] \in FirstDeps(p) /\ \A q \in last : q.id # errHint[2]
                   \/ errHint[2] = Header /\ Full(p)
=============================================================================
