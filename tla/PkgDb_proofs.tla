---------------------------- MODULE PkgDb_proofs ----------------------------
(***************************************************************************)
(* Proofs about the package databases (PkgDb), for any number of packages, *)
(* databases and dependencies.  What is proved here is that every step of  *)
(* the package databases preserves an invariant; the theorems about the    *)
(* programs that take these steps are in Nnpkg_proofs.                     *)
(***************************************************************************)
EXTENDS PkgDb, SequenceTheorems, WellFoundedInduction, TLAPS

Slots(l)   == DOMAIN files[l].props
Prop(l, s) == files[l].props[s]
Counted(l) == {s \in Slots(l) : s <= files[l].count}

(* The packages that are in the file and not yet committed.                *)
Pending(l) == IF Writing(l) THEN First.stored ELSE {}

(* A database is what was promised of it: the properties in use are the    *)
(* packages that were committed and not removed, each once, without the    *)
(* dependencies there was no room for, and those that are being added.     *)
(* All are counted, unless one is being added.                             *)
Whole(l) ==
  /\ \A s \in Slots(l) :
       Prop(l, s).id # NoId => \E q \in promised[l] \cup Pending(l) : Prop(l, s) = Stored(q)
  /\ \A q \in promised[l] : \E s \in Slots(l) : Prop(l, s) = Stored(q)
  /\ \A s, t \in Slots(l) :
       Prop(l, s).id # NoId /\ Prop(l, s).id = Prop(l, t).id => s = t
  /\ ~Writing(l) => Len(files[l].props) <= files[l].count

(* That is lost with a kill behind a property (torn); what stays is that   *)
(* each property in use is a package as it is stored.                      *)
StoredInv ==
  \A l \in Locations :
    /\ \A s \in Slots(l) :
         Prop(l, s).id # NoId => \E q \in Packages : Prop(l, s) = Stored(q)
    /\ l \notin torn => Whole(l)

(* A database is open once.  What is queued for it is not in it, nor is it *)
(* queued twice; what is queued for removal is a property, or comes from   *)
(* the uninitialised pointer.  What is added is added behind all           *)
(* properties, and will be counted.                                        *)
New(db) ==
  db.loc \notin torn =>
    \A x \in DOMAIN db.toAdd :
      /\ \A s \in Slots(db.loc) : Prop(db.loc, s).id # db.toAdd[x].id
      /\ \A y \in DOMAIN db.toAdd : db.toAdd[x].id = db.toAdd[y].id => x = y

Removes(db) ==
  \A x \in DOMAIN db.toRm :
    db.toRm[x].loc \in Locations => db.toRm[x].slot \in Slots(db.toRm[x].loc)

Ends(db) ==
  /\ Len(files[db.loc].props) <= db.end
  /\ db.loc \notin torn => db.end <= db.num
  /\ \A q \in db.stored : \E s \in Slots(db.loc) : Prop(db.loc, s) = Stored(q)

EntryInv(db) == New(db) /\ Removes(db) /\ Ends(db)

QueueInv ==
  /\ \A j, k \in DOMAIN pkgDbs : pkgDbs[j].loc = pkgDbs[k].loc => j = k
  /\ \A k \in DOMAIN pkgDbs :
       /\ EntryInv(pkgDbs[k])
       /\ pkgDbs[k].stored # {} => closing /\ k = 1 /\ pkgDbs[k].toRm = <<>>

ProcInv ==
  /\ proc = "gone" => pkgDbs = <<>> /\ creating = Nowhere /\ ~closing /\ lookup = NoLookup
  /\ closing => pkgDbs # <<>> /\ creating = Nowhere /\ lookup = NoLookup
  /\ creating # Nowhere => lookup = NoLookup

(* What the frames of a lookup in a database stand for.  The one at the    *)
(* bottom is of the package itself, each above it of the dependency at     *)
(* which the one below is; the dependencies a frame is past are found.     *)
IdOf(l, frame) == Prop(l, frame.slot).id

Frames(l, lk) ==
  \A j \in 1 .. Len(lk.stack) :
    LET frame == lk.stack[j]
    IN  /\ frame.slot \in Counted(l) /\ IdOf(l, frame) \in Ids
        /\ j = 1 => IdOf(l, frame) = lk.name
        /\ j > 1 => IdOf(l, frame) = DepAt(l, lk.stack[j - 1].slot, lk.stack[j - 1].dep)
        /\ \A i \in 1 .. frame.dep - 1 :
             /\ DepAt(l, frame.slot, i) # NoId
             /\ \E p \in lk.parts : p.id = DepAt(l, frame.slot, i)

(* Whatever set of packages serves the name has all that is looked up,     *)
(* unless the database is torn.                                            *)
Needed(l, lk) ==
  l \notin torn =>
  \A S \in SUBSET {p \in promised[l] : ~Full(p)} :
    Serves(S, lk.name) =>
      \A j \in 1 .. Len(lk.stack) : \E p \in S : p.id = IdOf(l, lk.stack[j])

(* The packages of the tree are packages of the database, and the tree has *)
(* all their dependencies.                                                 *)
Parts(l, lk) ==
  \A p \in lk.parts :
    /\ \E s \in Counted(l) : p = Prop(l, s) /\ p.id # NoId
    /\ \A i \in DOMAIN p.deps : \E q \in lk.parts : q.id = p.deps[i]

Misses(l, n) == l \notin torn => ~Simple(l, n)

LookupInv ==
  lookup.status # "none" =>
    /\ lookup.name \in Ids
    /\ lookup.at \in 1 .. Len(pkgDbs)
    /\ \A k \in 1 .. lookup.at - 1 : Misses(pkgDbs[k].loc, lookup.name)
    /\ lookup.status = "running" =>
         Frames(Here, lookup) /\ Needed(Here, lookup) /\ Parts(Here, lookup)
    /\ lookup.status = "found" =>
         Parts(Here, lookup) /\ \E p \in lookup.parts : p.id = lookup.name
    /\ lookup.status = "null" =>
         /\ lookup.at = Len(pkgDbs) /\ Misses(Here, lookup.name)
         /\ ErrorIsTrue

DbInv == DbTypeOK /\ StoredInv /\ QueueInv /\ ProcInv /\ LookupInv

-----------------------------------------------------------------------------
(* The operators of the model.                                             *)

LEMMA DbFacts ==
  /\ NoId \notin Ids /\ Header \notin Ids /\ Header # NoId
  /\ Nowhere \notin Locations
  /\ MaxDeps \in Nat
  /\ \A q \in Packages : /\ q = [id |-> q.id, deps |-> q.deps]
                         /\ q.id \in Ids /\ q.deps \in Seq(Ids) /\ Len(q.deps) \in Nat
<1>1. \A q \in Package : /\ q = [id |-> q.id, deps |-> q.deps]
                        /\ q.id \in Ids /\ q.deps \in Seq(Ids) /\ Len(q.deps) \in Nat
  BY DEF Package
<1> QED  BY <1>1, PkgDbAssumption DEF PkgDbAssumption

(* What is stored of a package: its name and as much of its dependencies   *)
(* as there is room for.                                                   *)
LEMMA StoredFacts ==
  ASSUME NEW q \in Packages
  PROVE  /\ Stored(q) \in Property /\ Stored(q) \in Package
         /\ Stored(q).id = q.id /\ q.id \in Ids /\ q.id # NoId
         /\ Stored(q).deps \in Seq(Ids)
         /\ Len(Stored(q).deps) \in Nat /\ Len(Stored(q).deps) <= MaxDeps
         /\ Len(Stored(q).deps) = MaxDeps <=> Full(q)
         /\ ~Full(q) => Stored(q) = q
         /\ Stored(q).deps = SubSeq(q.deps, 1, IF Full(q) THEN MaxDeps ELSE Len(q.deps))
         /\ FirstDeps(q) = {Stored(q).deps[i] : i \in 1 .. Len(Stored(q).deps)}
<1> USE DbFacts
<1>1. /\ q = [id |-> q.id, deps |-> q.deps] /\ q.id \in Ids /\ q.deps \in Seq(Ids)
      /\ Len(q.deps) \in Nat /\ DOMAIN q.deps = 1 .. Len(q.deps)
  OBVIOUS
<1>2. CASE Len(q.deps) <= MaxDeps
  <2>1. Stored(q) = q
    BY <1>2 DEF Stored
  <2>2. SubSeq(q.deps, 1, Len(q.deps)) = q.deps
    BY <1>1, SubSeqFull
  <2>3. Full(q) => Len(q.deps) = MaxDeps
    BY <1>1, <1>2 DEF Full
  <2>4. FirstDeps(q) = {q.deps[i] : i \in 1 .. Len(q.deps)}
    BY <1>1, <1>2 DEF FirstDeps
  <2>5. Full(q) <=> Len(q.deps) = MaxDeps
    BY <1>1, <1>2 DEF Full
  <2> QED  BY <1>1, <1>2, <2>1, <2>2, <2>3, <2>4, <2>5 DEF Property, Package
<1>3. CASE Len(q.deps) > MaxDeps
  <2> DEFINE ds == SubSeq(q.deps, 1, MaxDeps)
  <2>1. Stored(q) = [id |-> q.id, deps |-> ds]
    <3>1. ~(Len(q.deps) <= MaxDeps)
      BY <1>1, <1>3
    <3>2. Stored(q) = [q EXCEPT !.deps = ds]
      BY <3>1 DEF Stored
    <3> HIDE DEF ds
    <3>3. [[id |-> q.id, deps |-> q.deps] EXCEPT !.deps = ds] = [id |-> q.id, deps |-> ds]
      OBVIOUS
    <3> QED  BY <1>1, <3>2, <3>3
  <2>2. /\ ds \in Seq(Ids) /\ Len(ds) = MaxDeps
        /\ \A j \in 1 .. MaxDeps : ds[j] = q.deps[j]
    BY <1>1, <1>3
  <2>3. Full(q)
    BY <1>1, <1>3 DEF Full
  <2>4. FirstDeps(q) = {ds[i] : i \in 1 .. MaxDeps}
    BY <1>1, <1>3, <2>2 DEF FirstDeps
  <2> HIDE DEF ds
  <2>5. Stored(q).id = q.id /\ Stored(q).deps = ds
    BY <2>1
  <2>6. Stored(q) \in Property /\ Stored(q) \in Package
    BY <1>1, <2>1, <2>2 DEF Property, Package
  <2> QED  BY <1>1, <2>2, <2>3, <2>4, <2>5, <2>6 DEF ds
<1> QED  BY <1>1, <1>2, <1>3

LEMMA FileFacts ==
  ASSUME DbTypeOK, NEW l \in Locations
  PROVE  /\ files[l] \in File
         /\ files[l].props \in Seq(Property) /\ Len(files[l].props) \in Nat
         /\ Slots(l) = 1 .. Len(files[l].props)
         /\ \A s \in Slots(l) : /\ Prop(l, s) \in Property
                                /\ Prop(l, s).id \in Ids \cup {NoId}
                                /\ Prop(l, s).deps \in Seq(Ids)
                                /\ Prop(l, s) = [id |-> Prop(l, s).id, deps |-> Prop(l, s).deps]
         /\ promised[l] \subseteq Packages
<1>1. files[l] \in File /\ promised[l] \subseteq Packages
  BY DEF DbTypeOK
<1>2. files[l].props \in Seq(Property) /\ Len(files[l].props) \in Nat
      /\ Slots(l) = 1 .. Len(files[l].props)
  BY <1>1 DEF File, Slots
<1>3. \A s \in Slots(l) : Prop(l, s) \in Property
  BY <1>2 DEF Prop
<1> QED  BY <1>1, <1>2, <1>3 DEF Property

(* A property in use, and a package of a database, by the other.           *)
LEMMA PropIsStored ==
  ASSUME StoredInv, NEW l \in Locations, NEW s \in Slots(l), Prop(l, s).id # NoId
  PROVE  \E q \in Packages : Prop(l, s) = Stored(q)
BY DEF StoredInv

LEMMA PropIsPromised ==
  ASSUME DbTypeOK, StoredInv, ~closing, NEW l \in Locations \ torn,
         NEW s \in Slots(l), Prop(l, s).id # NoId
  PROVE  /\ \E q \in promised[l] : Prop(l, s) = Stored(q)
         /\ \A q \in promised[l] : q.id = Prop(l, s).id => Prop(l, s) = Stored(q)
<1>0. Whole(l) /\ Pending(l) = {}
  BY DEF StoredInv, Pending, Writing
<1>1. \E q \in promised[l] : Prop(l, s) = Stored(q)
  BY <1>0 DEF Whole
<1>2. ASSUME NEW q \in promised[l], q.id = Prop(l, s).id
      PROVE  Prop(l, s) = Stored(q)
  <2>1. PICK t \in Slots(l) : Prop(l, t) = Stored(q)
    BY <1>0 DEF Whole
  <2>2. Prop(l, t).id = Prop(l, s).id
    BY <1>2, <2>1, FileFacts, StoredFacts
  <2>3. s = t
    BY <1>0, <2>2 DEF Whole
  <2> QED  BY <2>1, <2>3
<1> QED  BY <1>1, <1>2

(* A non-empty set of naturals has a first element. *)
LEMMA FirstExists ==
  ASSUME NEW S \in SUBSET Nat, S # {}
  PROVE  \E x \in S : \A y \in S : x <= y
<1>1. PICK x \in S : \A y \in S : ~(<<y, x>> \in OpToRel(<, Nat))
  BY NatLessThanWellFounded, WFMin, Zenon
<1>2. ASSUME NEW y \in S PROVE x <= y
  <2>1. x \in Nat /\ y \in Nat
    OBVIOUS
  <2>2. y < x => <<y, x>> \in OpToRel(<, Nat)
    BY <2>1 DEF OpToRel
  <2>3. ~(y < x)
    BY <1>1, <2>2, Zenon
  <2> QED  BY <2>1, <2>3
<1> QED  BY <1>2

(* PropDbFindProp finds a counted property of that name if there is one,   *)
(* and all are counted unless the database is torn.                        *)
LEMMA SlotOfFacts ==
  ASSUME DbTypeOK, StoredInv, ~closing, NEW l \in Locations, NEW n, n # NoId
  PROVE  /\ SlotOf(l, n) = 0 /\ l \notin torn =>
              /\ \A s \in Slots(l) : Prop(l, s).id # n
              /\ \A q \in promised[l] : q.id # n
         /\ SlotOf(l, n) # 0 => /\ SlotOf(l, n) \in Counted(l)
                                /\ Prop(l, SlotOf(l, n)).id = n
         /\ \A s \in Counted(l) : Prop(l, s).id = n => SlotOf(l, n) # 0
<1> DEFINE at == {s \in DOMAIN files[l].props : s <= files[l].count /\ files[l].props[s].id = n}
<1>1. at \in SUBSET Nat /\ at = {s \in Counted(l) : Prop(l, s).id = n}
  BY FileFacts DEF Slots, Prop, Counted
<1>2. SlotOf(l, n) = IF at = {} THEN 0 ELSE CHOOSE s \in at : \A r \in at : s <= r
  BY Zenon DEF SlotOf
<1> HIDE DEF at
<1>3. ASSUME at = {}, l \notin torn
      PROVE  /\ \A s \in Slots(l) : Prop(l, s).id # n
             /\ \A q \in promised[l] : q.id # n
  <2>1. Whole(l) /\ Len(files[l].props) <= files[l].count
    BY <1>3 DEF StoredInv, Whole, Writing
  <2>2. files[l].count \in Nat
    BY FileFacts DEF File
  <2>3. \A s \in Slots(l) : s <= files[l].count
    BY <2>1, <2>2, FileFacts
  <2>4. \A s \in Slots(l) : Prop(l, s).id # n
    BY <1>1, <1>3, <2>3 DEF Counted
  <2>5. \A q \in promised[l] : q.id # n
    BY <2>1, <2>4, FileFacts, StoredFacts DEF Whole
  <2> QED  BY <2>4, <2>5
<1>4. CASE at = {}
  BY <1>1, <1>2, <1>3, <1>4
<1>5. CASE at # {}
  <2>1. \E x \in at : \A r \in at : x <= r
    BY <1>1, <1>5, FirstExists
  <2>2. (CHOOSE x \in at : \A r \in at : x <= r) \in at
    BY <2>1
  <2>3. SlotOf(l, n) \in at
    BY <1>2, <1>5, <2>2
  <2>4. 0 \notin at
    BY <1>1, FileFacts DEF Counted
  <2> QED  BY <1>1, <2>3, <2>4
<1> QED  BY <1>4, <1>5

(* A property written behind the last, and what is skipped.                *)
LEMMA WriteAtFacts ==
  ASSUME NEW props \in Seq(Property), NEW x \in Property,
         NEW n \in Nat, n > Len(props)
  PROVE  /\ WriteAt(props, n, x) \in Seq(Property) /\ Len(WriteAt(props, n, x)) = n
         /\ DOMAIN WriteAt(props, n, x) = 1 .. n
         /\ \A s \in 1 .. n : WriteAt(props, n, x)[s] =
              IF s = n THEN x ELSE IF s <= Len(props) THEN props[s] ELSE Cleared
<1>1. Len(props) \in Nat /\ (IF n > Len(props) THEN n ELSE Len(props)) = n
  OBVIOUS
<1>2. WriteAt(props, n, x) =
        [s \in 1 .. n |-> IF s = n THEN x ELSE IF s <= Len(props) THEN props[s] ELSE Cleared]
  BY <1>1 DEF WriteAt
<1>3. Cleared \in Property
  BY DEF Cleared, Property
<1>4. \A s \in 1 .. n :
        (IF s = n THEN x ELSE IF s <= Len(props) THEN props[s] ELSE Cleared) \in Property
  BY <1>1, <1>3
<1>5. PICK f : f = WriteAt(props, n, x)
  OBVIOUS
<1>6. f \in [1 .. n -> Property]
  BY <1>2, <1>4, <1>5
<1>7. f \in Seq(Property) /\ Len(f) = n
  BY <1>6
<1> QED  BY <1>2, <1>5, <1>6, <1>7

-----------------------------------------------------------------------------
(* Steps that leave parts of the state alone.                              *)

LEMMA EntryFacts ==
  ASSUME DbTypeOK
  PROVE  /\ pkgDbs \in Seq(OpenDb) /\ Len(pkgDbs) \in Nat /\ DOMAIN pkgDbs = 1 .. Len(pkgDbs)
         /\ \A k \in DOMAIN pkgDbs :
              /\ pkgDbs[k] \in OpenDb
              /\ pkgDbs[k].loc \in Locations /\ pkgDbs[k].type \in Types
              /\ pkgDbs[k].toAdd \in Seq(Packages) /\ pkgDbs[k].toRm \in Seq(Removal)
              /\ pkgDbs[k].free \in Nat /\ pkgDbs[k].num \in Nat /\ pkgDbs[k].end \in Nat
              /\ pkgDbs[k].stored \subseteq Packages
         /\ OpenLocs \subseteq Locations
<1>1. pkgDbs \in Seq(OpenDb) /\ Len(pkgDbs) \in Nat /\ DOMAIN pkgDbs = 1 .. Len(pkgDbs)
  BY DEF DbTypeOK
<1>2. \A k \in DOMAIN pkgDbs : pkgDbs[k] \in OpenDb
  BY <1>1
<1>3. \A k \in DOMAIN pkgDbs :
        /\ pkgDbs[k].loc \in Locations /\ pkgDbs[k].type \in Types
        /\ pkgDbs[k].toAdd \in Seq(Packages) /\ pkgDbs[k].toRm \in Seq(Removal)
        /\ pkgDbs[k].free \in Nat /\ pkgDbs[k].num \in Nat /\ pkgDbs[k].end \in Nat
        /\ pkgDbs[k].stored \subseteq Packages
  BY <1>2 DEF OpenDb
<1> QED  BY <1>1, <1>2, <1>3 DEF OpenLocs

LEMMA LookupTypes ==
  /\ NoLookup \in Lookup /\ NoLookup.status = "none"
  /\ \A x \in Lookup :
       /\ x.status \in {"none", "running", "found", "null"}
       /\ x.name \in Ids \cup {NoId} /\ x.at \in Nat
       /\ x.stack \in Seq(Frame) /\ Len(x.stack) \in Nat
       /\ x.parts \subseteq Package
<1>1. NoLookup \in Lookup /\ NoLookup.status = "none"
  BY DEF NoLookup, Lookup
<1> QED  BY <1>1 DEF Lookup

LEMMA EmptySeqs == <<>> \in Seq(OpenDb) /\ <<>> \in Seq(Ids \cup {Header})
OBVIOUS

SameProps ==
  \A l \in Locations : /\ files'[l].props = files[l].props
                       /\ files'[l].count = files[l].count

(* No property is being added, or what is being added stays.               *)
LEMMA SameWriting ==
  ASSUME \/ closing' = closing /\ pkgDbs' = pkgDbs
         \/ ~closing /\ ~closing'
  PROVE  \A l : (Writing(l)' <=> Writing(l)) /\ Pending(l)' = Pending(l)
<1>1. \A l : Writing(l)' <=> Writing(l)
  BY DEF Writing, First
<1> QED  BY <1>1 DEF Pending, First, Writing

LEMMA SameStored ==
  ASSUME SameProps, promised' = promised, torn' = torn, StoredInv,
         \A l \in Locations : (Writing(l)' <=> Writing(l)) /\ Pending(l)' = Pending(l)
  PROVE  StoredInv'
<1>1. ASSUME NEW l \in Locations
      PROVE  /\ Slots(l)' = Slots(l) /\ \A s : Prop(l, s)' = Prop(l, s)
             /\ Len(files'[l].props) = Len(files[l].props) /\ files'[l].count = files[l].count
  BY DEF SameProps, Slots, Prop
<1>2. ASSUME NEW l \in Locations, l \notin torn
      PROVE  Whole(l)'
  <2>1. Whole(l)
    BY <1>2 DEF StoredInv
  <2> QED  BY <1>1, <1>2, <2>1 DEF Whole
<1>3. ASSUME NEW l \in Locations, NEW s \in Slots(l)', Prop(l, s)'.id # NoId
      PROVE  \E q \in Packages : Prop(l, s)' = Stored(q)
  BY <1>1, <1>3 DEF StoredInv
<1> QED  BY <1>2, <1>3 DEF StoredInv

LEMMA SameEntry ==
  ASSUME SameProps, torn' = torn, NEW db \in OpenDb, EntryInv(db)
  PROVE  EntryInv(db)'
<1>1. db.loc \in Locations
  BY DEF OpenDb
<1>2. New(db)'
  BY <1>1 DEF EntryInv, New, SameProps, Slots, Prop
<1>3. Removes(db)'
  BY DEF EntryInv, Removes, SameProps, Slots
<1>4. Ends(db)'
  BY <1>1 DEF EntryInv, Ends, SameProps, Slots, Prop
<1> QED  BY <1>2, <1>3, <1>4 DEF EntryInv

LEMMA SameQueue ==
  ASSUME DbTypeOK, SameProps, torn' = torn, pkgDbs' = pkgDbs, closing => closing', QueueInv
  PROVE  QueueInv'
<1>1. ASSUME NEW k \in DOMAIN pkgDbs
      PROVE  /\ EntryInv(pkgDbs[k])'
             /\ pkgDbs[k].stored # {} => closing' /\ k = 1 /\ pkgDbs[k].toRm = <<>>
  <2>1. PICK db \in OpenDb : db = pkgDbs[k]
    BY EntryFacts
  <2>2. EntryInv(db)'
    BY <2>1, SameEntry DEF QueueInv
  <2> QED  BY <2>1, <2>2 DEF EntryInv, New, Removes, Ends, QueueInv
<1>2. DOMAIN pkgDbs' = DOMAIN pkgDbs /\ \A k : pkgDbs'[k] = pkgDbs[k]
  OBVIOUS
<1> QED  BY <1>1, <1>2 DEF QueueInv

(* What is said of a lookup in one database depends on its contents only.  *)
LEMMA SameTree ==
  ASSUME SameProps, promised' = promised, torn' = torn, NEW l \in Locations, NEW lk
  PROVE  /\ Frames(l, lk)' = Frames(l, lk)
         /\ Needed(l, lk)' = Needed(l, lk)
         /\ Parts(l, lk)' = Parts(l, lk)
<1>1. /\ Counted(l)' = Counted(l) /\ \A s : Prop(l, s)' = Prop(l, s)
      /\ \A s, i : DepAt(l, s, i)' = DepAt(l, s, i)
  BY DEF Slots, Prop, Counted, DepAt, NextId, SameProps
<1>2. \A frame : IdOf(l, frame)' = IdOf(l, frame)
  BY <1>1 DEF IdOf
<1>3. Frames(l, lk)' = Frames(l, lk)
  BY <1>1, <1>2 DEF Frames
<1>4. Needed(l, lk)' = Needed(l, lk)
  <2>1. promised'[l] = promised[l]
    OBVIOUS
  <2>2. \A S : (\A j \in 1 .. Len(lk.stack) : \E p \in S : p.id = IdOf(l, lk.stack[j])')
           <=> (\A j \in 1 .. Len(lk.stack) : \E p \in S : p.id = IdOf(l, lk.stack[j]))
    BY <1>2
  <2> QED  BY <2>1, <2>2 DEF Needed
<1>5. Parts(l, lk)' = Parts(l, lk)
  BY <1>1 DEF Parts
<1> QED  BY <1>3, <1>4, <1>5

LEMMA SameLookup ==
  ASSUME DbTypeOK, LookupInv, SameProps, UNCHANGED <<pkgDbs, lookup, error, errHint, promised, torn>>
  PROVE  LookupInv'
<1> SUFFICES ASSUME lookup.status # "none" PROVE LookupInv'
  BY DEF LookupInv
<1>1. PICK l \in Locations, lk \in Lookup : l = Here /\ lk = lookup
  BY EntryFacts DEF LookupInv, Here, DbTypeOK
<1>2. Here' = l /\ lookup' = lk
  BY <1>1 DEF Here
<1>3. /\ Frames(l, lk)' = Frames(l, lk)
      /\ Needed(l, lk)' = Needed(l, lk)
      /\ Parts(l, lk)' = Parts(l, lk)
  BY SameTree
<1>4. \A m, n : Misses(m, n)' <=> Misses(m, n)
  BY DEF Misses, Simple, Serves
<1>5. ErrorIsTrue => ErrorIsTrue'
  BY DEF ErrorIsTrue, LastLoc
<1>6. /\ Frames(Here, lookup)' = Frames(l, lk)'
      /\ Needed(Here, lookup)' = Needed(l, lk)'
      /\ Parts(Here, lookup)' = Parts(l, lk)'
  BY <1>2 DEF Frames, Needed, Parts
<1> QED  BY <1>1, <1>2, <1>3, <1>4, <1>5, <1>6 DEF LookupInv

LEMMA ResetLookup == lookup' = NoLookup => LookupInv'
BY LookupTypes DEF LookupInv

-----------------------------------------------------------------------------
(* One lemma for each operation.                                           *)

LEMMA DbInitInv == DbInit => DbInv
<1> SUFFICES ASSUME DbInit PROVE DbInv
  OBVIOUS
<1>1. \A l \in Locations : files[l] = NoFile /\ promised[l] = {} /\ ~Writing(l)
  BY DEF DbInit, Writing
<1>2. NoFile \in File /\ NoFile.props = <<>> /\ NoFile.count = 0
  BY DEF NoFile, File, Stages
<1>3. DbTypeOK
  <2>1. files \in [Locations -> File] /\ promised \in [Locations -> SUBSET Packages]
    BY <1>2 DEF DbInit
  <2>2. /\ proc = "gone" /\ pkgDbs = <<>> /\ creating = Nowhere /\ closing = FALSE
        /\ lookup = NoLookup /\ error = "NONE" /\ errHint = <<>> /\ torn = {}
    BY DEF DbInit
  <2> QED  BY <2>1, <2>2, LookupTypes, EmptySeqs DEF DbTypeOK, Errors
<1>4. StoredInv
  <2>1. \A l \in Locations : Slots(l) = {} /\ Len(files[l].props) = 0 /\ files[l].count = 0
    BY <1>1, <1>2 DEF Slots
  <2> QED  BY <1>1, <2>1 DEF StoredInv, Whole
<1>5. QueueInv /\ ProcInv /\ LookupInv
  BY LookupTypes DEF QueueInv, ProcInv, LookupInv, DbInit
<1> QED  BY <1>3, <1>4, <1>5 DEF DbInv

LEMMA StutterInv == DbInv /\ UNCHANGED dbVars => DbInv'
<1> SUFFICES ASSUME DbInv, UNCHANGED dbVars PROVE DbInv'
  OBVIOUS
<1>1. SameProps
  BY DEF SameProps, dbVars
<1>2. StoredInv' /\ QueueInv' /\ LookupInv'
  BY <1>1, SameWriting, SameStored, SameQueue, SameLookup DEF DbInv, dbVars
<1> QED  BY <1>2 DEF DbInv, DbTypeOK, ProcInv, dbVars

LEMMA BeginInv == DbInv /\ BeginProcess => DbInv'
<1> SUFFICES ASSUME DbInv, BeginProcess PROVE DbInv'
  OBVIOUS
<1>1. SameProps
  BY DEF SameProps, BeginProcess, SameButProc
<1>2. StoredInv' /\ QueueInv' /\ LookupInv'
  BY <1>1, SameWriting, SameStored, SameQueue, SameLookup DEF DbInv, BeginProcess, SameButProc
<1> QED  BY <1>2 DEF DbInv, DbTypeOK, ProcInv, BeginProcess, Begin, SameButProc

(* A process that ends behind a property of a database tears that one.     *)
LEMMA DiesInv == DbInv /\ Dies => DbInv'
<1> SUFFICES ASSUME DbInv, Dies PROVE DbInv'
  OBVIOUS
<1>1. /\ proc' = "gone" /\ pkgDbs' = <<>> /\ creating' = Nowhere /\ closing' = FALSE
      /\ lookup' = NoLookup /\ error' = "NONE" /\ errHint' = <<>>
      /\ files' = files /\ promised' = promised
      /\ torn' = torn \cup {l \in Locations : Writing(l)}
  BY DEF Dies, Leave
<1>2. ASSUME NEW l \in Locations
      PROVE  /\ \A s \in Slots(l)' :
                  Prop(l, s)'.id # NoId => \E q \in Packages : Prop(l, s)' = Stored(q)
             /\ l \notin torn' => Whole(l)'
  <2>1. Slots(l)' = Slots(l) /\ (\A s : Prop(l, s)' = Prop(l, s)) /\ ~Writing(l)'
    BY <1>1 DEF Slots, Prop, Writing
  <2>2. l \notin torn' => ~Writing(l) /\ Whole(l) /\ Pending(l) = {}
    BY <1>1 DEF DbInv, StoredInv, Pending
  <2>3. l \notin torn' => Whole(l)'
    BY <1>1, <2>1, <2>2 DEF Whole
  <2> QED  BY <2>1, <2>3 DEF DbInv, StoredInv
<1>3. StoredInv' /\ LookupInv'
  BY <1>1, <1>2, ResetLookup DEF StoredInv
<1>4. QueueInv' /\ ProcInv'
  BY <1>1 DEF QueueInv, ProcInv
<1>5. DbTypeOK'
  BY <1>1, LookupTypes, EmptySeqs DEF DbInv, DbTypeOK, Errors
<1> QED  BY <1>3, <1>4, <1>5 DEF DbInv

(* A call that returns without having changed the list or a file's         *)
(* properties.                                                             *)
LEMMA ReturnsInv ==
  ASSUME DbInv, NEW e \in Errors, NEW h \in Seq(Ids \cup {Header}), Ready, Returns(e, h),
         files' = files, promised' = promised, pkgDbs' = pkgDbs,
         creating' \in Locations \cup {Nowhere}
  PROVE  DbInv'
<1>0. SameProps /\ ~closing /\ ~closing' /\ torn' = torn
  BY DEF SameProps, Ready, Returns
<1>1. StoredInv' /\ QueueInv' /\ LookupInv'
  BY <1>0, SameWriting, SameStored, SameQueue, ResetLookup DEF DbInv, Returns
<1>2. DbTypeOK'
  BY LookupTypes DEF DbInv, DbTypeOK, Returns
<1>3. ProcInv'
  BY DEF DbInv, ProcInv, Returns, Ready
<1> QED  BY <1>1, <1>2, <1>3 DEF DbInv

LEMMA CreateDbInv ==
  ASSUME DbInv, NEW l \in Locations, CreateDb(l)
  PROVE  DbInv'
<1>1. "NONE" \in Errors /\ <<>> \in Seq(Ids \cup {Header})
  BY DEF Errors
<1>2. creating' \in Locations \cup {Nowhere}
  BY DEF CreateDb
<1> QED  BY <1>1, <1>2, ReturnsInv DEF CreateDb

(* What PropDbCreate makes has no property.                                *)
LEMMA CreatesInv ==
  ASSUME DbInv, Making, SameProps, files' \in [Locations -> File],
         creating' \in {creating, Nowhere},
         UNCHANGED <<proc, pkgDbs, closing, lookup, error, errHint, promised, torn>>
  PROVE  DbInv'
<1>1. StoredInv' /\ QueueInv' /\ LookupInv'
  BY SameWriting, SameStored, SameQueue, SameLookup DEF DbInv
<1> QED  BY <1>1 DEF DbInv, DbTypeOK, ProcInv, Making

LEMMA CreateStepInv == DbInv /\ (CreateStep \/ CreateFails) => DbInv'
<1> SUFFICES ASSUME DbInv, CreateStep \/ CreateFails PROVE DbInv'
  OBVIOUS
<1>1. /\ Making /\ creating' \in {creating, Nowhere} /\ creating \in Locations
      /\ files \in [Locations -> File]
      /\ UNCHANGED <<proc, pkgDbs, closing, lookup, error, errHint, promised, torn>>
  BY DEF CreateStep, CreateFails, DbInv, DbTypeOK, Making
<1>2. CASE CreateStep
  <2>1. PICK x : x = [files[creating] EXCEPT !.made = Stage(@)]
    OBVIOUS
  <2>2. x \in File /\ x.props = files[creating].props /\ x.count = files[creating].count
    <3>1. \A made : Stage(made) \in Stages
      BY DEF Stage, Stages
    <3>2. files[creating] \in File
      BY <1>1
    <3> QED  BY <2>1, <3>1, <3>2 DEF File
  <2>3. files' = [files EXCEPT ![creating] = x]
    BY <1>2, <2>1 DEF CreateStep
  <2>4. files' \in [Locations -> File] /\ SameProps
    BY <1>1, <2>2, <2>3 DEF SameProps
  <2> QED  BY <1>1, <2>4, CreatesInv
<1>3. CASE CreateFails
  <2>1. files' = files
    BY <1>3 DEF CreateFails
  <2>2. SameProps
    BY <2>1 DEF SameProps
  <2> QED  BY <1>1, <2>1, <2>2, CreatesInv
<1> QED  BY <1>2, <1>3

LEMMA OpenFailsInv ==
  ASSUME DbInv, NEW l \in Locations, PkgOpenDbFails(l)
  PROVE  DbInv'
<1>1. PICK e \in OpenErrors(l) : Returns(e, <<>>)
  BY DEF PkgOpenDbFails
<1>2. e \in Errors /\ <<>> \in Seq(Ids \cup {Header})
  <2>1. OpenErrors(l) \subseteq {"SYS", "DB_LOCKED"}
    BY DEF OpenErrors
  <2> QED  BY <2>1 DEF Errors
<1>3. /\ Ready /\ files' = files /\ promised' = promised /\ pkgDbs' = pkgDbs
      /\ creating' \in Locations \cup {Nowhere}
  BY DEF DbInv, DbTypeOK, PkgOpenDbFails
<1> QED  BY <1>1, <1>2, <1>3, ReturnsInv

LEMMA OpenInv ==
  ASSUME DbInv, NEW l \in Locations, NEW t \in Types, PkgOpenDb(l, t)
  PROVE  DbInv'
<1>0. PICK db : db = [loc |-> l, type |-> t, toAdd |-> <<>>, toRm |-> <<>>,
                      free |-> files[l].free, num |-> files[l].count,
                      end |-> Len(files[l].props), stored |-> {}]
  OBVIOUS
<1>1. /\ Ready /\ l \notin OpenLocs /\ pkgDbs' = Append(pkgDbs, db)
      /\ Returns("NONE", <<>>) /\ files' = files /\ promised' = promised
      /\ creating' = creating
  BY <1>0 DEF PkgOpenDb
<1>2. ~closing /\ ~closing' /\ torn' = torn /\ lookup' = NoLookup
  BY <1>1 DEF Ready, Returns
<1>3. db \in OpenDb
  <2>1. files[l].free \in Nat /\ files[l].count \in Nat /\ Len(files[l].props) \in Nat
    BY FileFacts DEF DbInv, File
  <2> QED  BY <1>0, <2>1 DEF OpenDb
<1>4. /\ pkgDbs' \in Seq(OpenDb) /\ Len(pkgDbs') = Len(pkgDbs) + 1
      /\ DOMAIN pkgDbs' = 1 .. Len(pkgDbs) + 1
      /\ \A k \in DOMAIN pkgDbs : pkgDbs'[k] = pkgDbs[k]
      /\ pkgDbs'[Len(pkgDbs) + 1] = db
  BY <1>1, <1>3, EntryFacts DEF DbInv
<1>5. \A k \in DOMAIN pkgDbs' : k \in DOMAIN pkgDbs \/ k = Len(pkgDbs) + 1
  BY <1>4, EntryFacts DEF DbInv
<1>6. SameProps
  BY <1>1 DEF SameProps
<1>7. StoredInv' /\ LookupInv'
  BY <1>1, <1>2, <1>6, SameWriting, SameStored, ResetLookup DEF DbInv
<1>8. DbTypeOK'
  BY <1>1, <1>4, LookupTypes DEF DbInv, DbTypeOK, Returns, Errors
<1>9. ProcInv'
  BY <1>1 DEF DbInv, ProcInv, Returns, Ready
<1>10. \A k \in DOMAIN pkgDbs : pkgDbs[k].loc # l
  BY <1>1 DEF OpenLocs
<1>11. /\ db.loc = l /\ db.toAdd = <<>> /\ db.toRm = <<>> /\ db.stored = {}
       /\ db.num = files[l].count /\ db.end = Len(files[l].props)
  BY <1>0
<1>12. EntryInv(db)'
  <2>1. l \notin torn => Len(files[l].props) <= files[l].count
    BY <1>2 DEF DbInv, StoredInv, Whole, Writing
  <2>2. Ends(db)'
    BY <1>1, <1>2, <1>11, <2>1, FileFacts DEF Ends, DbInv
  <2>3. New(db)' /\ Removes(db)'
    BY <1>11 DEF New, Removes
  <2> QED  BY <2>2, <2>3 DEF EntryInv
<1>13. QueueInv'
  <2>1. \A j, k \in DOMAIN pkgDbs' : pkgDbs'[j].loc = pkgDbs'[k].loc => j = k
    BY <1>4, <1>5, <1>10, <1>11 DEF DbInv, QueueInv
  <2>2. ASSUME NEW k \in DOMAIN pkgDbs'
        PROVE  EntryInv(pkgDbs[k])' /\ pkgDbs'[k].stored = {}
    <3>1. CASE k \in DOMAIN pkgDbs
      <4>1. PICK e \in OpenDb : e = pkgDbs[k] /\ e = pkgDbs'[k]
        BY <1>4, <3>1, EntryFacts DEF DbInv
      <4>2. EntryInv(e)' /\ e.stored = {}
        BY <1>2, <1>6, <3>1, <4>1, SameEntry DEF DbInv, QueueInv
      <4> QED  BY <4>1, <4>2 DEF EntryInv, New, Removes, Ends
    <3>2. CASE k = Len(pkgDbs) + 1
      <4>1. pkgDbs'[k] = db
        BY <1>4, <3>2
      <4> QED  BY <1>11, <1>12, <4>1 DEF EntryInv, New, Removes, Ends
    <3> QED  BY <1>5, <3>1, <3>2
  <2> QED  BY <2>1, <2>2 DEF QueueInv
<1> QED  BY <1>7, <1>8, <1>9, <1>13 DEF DbInv

(* PkgFindPackage begins: no frame, and no part of the result.             *)
LEMMA FindPackageInv ==
  ASSUME DbInv, NEW n \in Ids, FindPackage(n)
  PROVE  DbInv'
<1>1. /\ Ready /\ pkgDbs # <<>>
      /\ lookup' = [NoLookup EXCEPT !.status = "running", !.name = n, !.at = 1]
      /\ error' = "NONE" /\ errHint' = <<>>
      /\ files' = files /\ proc' = proc /\ pkgDbs' = pkgDbs /\ closing' = closing
      /\ promised' = promised /\ creating' = creating /\ torn' = torn
  BY DEF FindPackage
<1>2. lookup' = [status |-> "running", name |-> n, at |-> 1, stack |-> <<>>, parts |-> {}]
  BY <1>1 DEF NoLookup
<1>3. lookup' \in Lookup
  BY <1>2 DEF Lookup
<1>4. SameProps
  BY <1>1 DEF SameProps
<1>5. StoredInv' /\ QueueInv'
  BY <1>1, <1>4, SameWriting, SameStored, SameQueue DEF DbInv
<1>6. DbTypeOK'
  BY <1>1, <1>3, EmptySeqs DEF DbInv, DbTypeOK, Errors
<1>7. ProcInv'
  BY <1>1 DEF DbInv, ProcInv, Ready
<1>8. LookupInv'
  <2>1. 1 \in 1 .. Len(pkgDbs)
    BY <1>1, EntryFacts DEF DbInv
  <2>2. lookup'.stack = <<>> /\ lookup'.parts = {}
    BY <1>2
  <2>3. Frames(Here, lookup)' /\ Needed(Here, lookup)'
    BY <2>2 DEF Frames, Needed
  <2>4. Parts(Here, lookup)'
    BY <2>2 DEF Parts
  <2>5. lookup'.status = "running" /\ lookup'.name = n /\ lookup'.at = 1
    BY <1>2
  <2> QED  BY <1>1, <2>1, <2>3, <2>4, <2>5 DEF LookupInv
<1> QED  BY <1>5, <1>6, <1>7, <1>8 DEF DbInv

LEMMA CloseDbsInv == DbInv /\ PkgCloseDbs => DbInv'
<1> SUFFICES ASSUME DbInv, PkgCloseDbs PROVE DbInv'
  OBVIOUS
<1>1. /\ Ready /\ pkgDbs # <<>> /\ closing' = TRUE /\ lookup' = NoLookup
      /\ error' = "NONE" /\ errHint' = <<>>
      /\ files' = files /\ proc' = proc /\ pkgDbs' = pkgDbs /\ promised' = promised
      /\ creating' = creating /\ torn' = torn
  BY DEF PkgCloseDbs
<1>2. SameProps /\ ~closing /\ creating = Nowhere
  BY <1>1 DEF SameProps, Ready
<1>3. \A l \in Locations : (Writing(l)' <=> Writing(l)) /\ Pending(l)' = Pending(l)
  <2>1. 1 \in DOMAIN pkgDbs /\ First = pkgDbs[1]
    BY <1>1, EntryFacts DEF DbInv, First
  <2>2. First.stored = {}
    BY <1>2, <2>1 DEF DbInv, QueueInv
  <2>3. First' = First
    BY <1>1 DEF First
  <2>4. \A l : ~Writing(l) /\ ~Writing(l)'
    BY <1>2, <2>2, <2>3 DEF Writing
  <2> QED  BY <2>4 DEF Pending
<1>4. StoredInv' /\ QueueInv' /\ LookupInv'
  BY <1>1, <1>2, <1>3, SameStored, SameQueue, ResetLookup DEF DbInv
<1>5. DbTypeOK'
  BY <1>1, LookupTypes, EmptySeqs DEF DbInv, DbTypeOK, Errors
<1>6. ProcInv'
  BY <1>1, <1>2 DEF DbInv, ProcInv, Ready
<1> QED  BY <1>4, <1>5, <1>6 DEF DbInv

LEMMA EntryExcept ==
  ASSUME NEW old \in OpenDb
  PROVE  /\ \A q \in Seq(Packages) :
              LET db == [old EXCEPT !.toAdd = q]
              IN  /\ db \in OpenDb /\ db.loc = old.loc /\ db.toRm = old.toRm /\ db.toAdd = q
                  /\ db.num = old.num /\ db.end = old.end /\ db.stored = old.stored
         /\ \A q \in Seq(Removal) :
              LET db == [old EXCEPT !.toRm = q]
              IN  /\ db \in OpenDb /\ db.loc = old.loc /\ db.toAdd = old.toAdd /\ db.toRm = q
                  /\ db.num = old.num /\ db.end = old.end /\ db.stored = old.stored
BY DEF OpenDb

(* An entry of the list changes.                                           *)
LEMMA EntryChanges ==
  ASSUME DbInv, NEW k \in DOMAIN pkgDbs, NEW db \in OpenDb, db.loc = pkgDbs[k].loc,
         pkgDbs' = [pkgDbs EXCEPT ![k] = db], EntryInv(db)', closing' = closing,
         db.stored # {} => closing /\ k = 1 /\ db.toRm = <<>>,
         \A e \in OpenDb : EntryInv(e) /\ e.loc # db.loc /\ (k = 1 => e.stored = {})
                             => EntryInv(e)'
  PROVE  pkgDbs' \in Seq(OpenDb) /\ Len(pkgDbs') = Len(pkgDbs) /\ QueueInv'
<1>1. /\ pkgDbs \in Seq(OpenDb) /\ DOMAIN pkgDbs = 1 .. Len(pkgDbs) /\ Len(pkgDbs) \in Nat
  BY EntryFacts DEF DbInv
<1>2. /\ pkgDbs' \in Seq(OpenDb) /\ Len(pkgDbs') = Len(pkgDbs)
      /\ DOMAIN pkgDbs' = DOMAIN pkgDbs
      /\ \A j \in DOMAIN pkgDbs : pkgDbs'[j] = IF j = k THEN db ELSE pkgDbs[j]
  BY <1>1
<1>3. \A i, j \in DOMAIN pkgDbs' : pkgDbs'[i].loc = pkgDbs'[j].loc => i = j
  BY <1>2 DEF DbInv, QueueInv
<1>4. ASSUME NEW j \in DOMAIN pkgDbs'
      PROVE  /\ EntryInv(pkgDbs[j])'
             /\ pkgDbs'[j].stored # {} => closing' /\ j = 1 /\ pkgDbs'[j].toRm = <<>>
  <2>1. CASE j = k
    <3>1. pkgDbs'[j] = db
      BY <1>2, <2>1
    <3> QED  BY <2>1, <3>1 DEF EntryInv, New, Removes, Ends
  <2>2. CASE j # k
    <3>1. PICK e \in OpenDb : e = pkgDbs[j] /\ e = pkgDbs'[j]
      BY <1>2, <2>2, EntryFacts DEF DbInv
    <3>2. /\ EntryInv(e) /\ e.loc # db.loc /\ (k = 1 => e.stored = {})
          /\ e.stored # {} => closing /\ j = 1 /\ e.toRm = <<>>
      BY <1>2, <2>2, <3>1 DEF DbInv, QueueInv
    <3>3. EntryInv(e)'
      BY <3>2
    <3> QED  BY <3>1, <3>2, <3>3 DEF EntryInv, New, Removes, Ends
  <2> QED  BY <2>1, <2>2
<1> QED  BY <1>2, <1>3, <1>4 DEF QueueInv

LEMMA DestFacts == DestDbs # {} => Dest \in DestDbs /\ Dest \in DOMAIN pkgDbs
<1>1. DestDbs # {} => Dest \in DestDbs
  BY DEF Dest
<1> QED  BY <1>1 DEF DestDbs

(* A call that returns having queued something. *)
LEMMA QueuedInv ==
  ASSUME DbInv, Ready, DestDbs # {}, Returns("NONE", <<>>), SameProps,
         files' = files, promised' = promised, creating' = creating,
         pkgDbs' \in Seq(OpenDb), Len(pkgDbs') = Len(pkgDbs), QueueInv'
  PROVE  DbInv'
<1>0. ~closing /\ ~closing' /\ torn' = torn
  BY DEF Ready, Returns
<1>1. StoredInv' /\ LookupInv'
  BY <1>0, SameWriting, SameStored, ResetLookup DEF DbInv, Returns
<1>2. DbTypeOK'
  BY LookupTypes, EmptySeqs DEF DbInv, DbTypeOK, Returns, Errors
<1>3. ProcInv'
  BY DEF DbInv, ProcInv, Returns, Ready
<1> QED  BY <1>1, <1>2, <1>3 DEF DbInv

(* PkgAddPackage queues a package that is neither queued nor there.        *)
LEMMA AddInv ==
  ASSUME DbInv, NEW pkg \in Packages, PkgAddPackage(pkg)
  PROVE  DbInv'
<1>1. /\ Ready /\ DestDbs # {} /\ Dest \in DOMAIN pkgDbs /\ files' = files /\ promised' = promised
      /\ creating' = creating /\ creating' \in Locations \cup {Nowhere}
  BY DestFacts DEF PkgAddPackage, DbInv, DbTypeOK
<1>2. SameProps /\ ~closing
  BY <1>1 DEF SameProps, Ready
<1>3. CASE PkgExists(pkg) /\ Returns("PKG_EXIST", <<pkg.id>>) /\ UNCHANGED pkgDbs
  <2>1. "PKG_EXIST" \in Errors /\ <<pkg.id>> \in Seq(Ids \cup {Header})
    BY DbFacts DEF Errors
  <2> QED  BY <1>1, <1>3, <2>1, ReturnsInv
<1>4. CASE /\ ~PkgExists(pkg)
           /\ pkgDbs' = [pkgDbs EXCEPT ![Dest].toAdd = Append(@, pkg)]
           /\ Returns("NONE", <<>>)
  <2>1. PICK old \in OpenDb : old = pkgDbs[Dest]
    BY <1>1, EntryFacts DEF DbInv
  <2>2. old.loc \in Locations /\ old.toAdd \in Seq(Packages)
    BY DEF OpenDb
  <2>3. PICK db : db = [old EXCEPT !.toAdd = Append(old.toAdd, pkg)]
    OBVIOUS
  <2>4. /\ db \in OpenDb /\ db.loc = old.loc /\ db.toRm = old.toRm
        /\ db.toAdd = Append(old.toAdd, pkg)
        /\ db.num = old.num /\ db.end = old.end /\ db.stored = old.stored
    <3>1. Append(old.toAdd, pkg) \in Seq(Packages)
      BY <2>2
    <3> QED  BY <2>3, <3>1, EntryExcept
  <2>5. pkgDbs' = [pkgDbs EXCEPT ![Dest] = db]
    BY <1>4, <2>1, <2>3
  <2>6. /\ \A x \in DOMAIN old.toAdd : old.toAdd[x].id # pkg.id
        /\ old.loc \notin torn => \A s \in Slots(old.loc) : Prop(old.loc, s).id # pkg.id
    <3>1. pkg.id # NoId
      BY DbFacts
    <3>2. SlotOf(old.loc, pkg.id) = 0
      BY <1>4, <2>1 DEF PkgExists
    <3> QED  BY <1>2, <1>4, <2>1, <2>2, <3>1, <3>2, SlotOfFacts DEF PkgExists, DbInv
  <2>7. EntryInv(old) /\ old.stored = {}
    BY <1>1, <1>2, <2>1 DEF DbInv, QueueInv
  <2>8. New(db)
    <3>1. /\ DOMAIN db.toAdd = 1 .. Len(old.toAdd) + 1 /\ DOMAIN old.toAdd = 1 .. Len(old.toAdd)
          /\ Len(old.toAdd) \in Nat
          /\ \A x \in DOMAIN old.toAdd : db.toAdd[x] = old.toAdd[x]
          /\ db.toAdd[Len(old.toAdd) + 1] = pkg
      BY <2>2, <2>4
    <3>2. \A x \in DOMAIN db.toAdd : x \in DOMAIN old.toAdd \/ x = Len(old.toAdd) + 1
      BY <3>1
    <3> QED  BY <2>4, <2>6, <2>7, <3>1, <3>2 DEF EntryInv, New
  <2>9. EntryInv(db)
    BY <2>4, <2>7, <2>8 DEF EntryInv, Removes, Ends
  <2>10. EntryInv(db)' /\ closing' = closing /\ torn' = torn
    BY <1>2, <1>4, <2>4, <2>9, SameEntry DEF Returns
  <2>11. pkgDbs' \in Seq(OpenDb) /\ Len(pkgDbs') = Len(pkgDbs) /\ QueueInv'
    BY <1>1, <1>2, <2>1, <2>4, <2>5, <2>7, <2>10, EntryChanges, SameEntry
  <2> QED  BY <1>1, <1>2, <1>4, <2>11, QueuedInv
<1> QED  BY <1>3, <1>4 DEF PkgAddPackage

(* PkgRemovePackage queues the property of the package that was found.     *)
LEMMA QueueRemovalInv ==
  ASSUME DbInv, Ready, DestDbs # {}, NEW r \in Removal,
         r.loc \in Locations => r.slot \in Slots(r.loc), Queue(r)
  PROVE  DbInv'
<1>1. /\ Dest \in DOMAIN pkgDbs /\ files' = files /\ promised' = promised
      /\ Returns("NONE", <<>>) /\ creating' = creating
  BY DestFacts DEF Queue
<1>2. SameProps /\ ~closing
  BY <1>1 DEF SameProps, Ready
<1>3. PICK old \in OpenDb : old = pkgDbs[Dest]
  BY <1>1, EntryFacts DEF DbInv
<1>4. PICK db : db = [old EXCEPT !.toRm = Append(old.toRm, r)]
  OBVIOUS
<1>5. /\ db \in OpenDb /\ db.loc = old.loc /\ db.toAdd = old.toAdd
      /\ db.toRm = Append(old.toRm, r) /\ old.toRm \in Seq(Removal)
      /\ db.num = old.num /\ db.end = old.end /\ db.stored = old.stored
  <2>1. old.toRm \in Seq(Removal)
    BY DEF OpenDb
  <2>2. Append(old.toRm, r) \in Seq(Removal)
    BY <2>1
  <2> QED  BY <1>4, <2>1, <2>2, EntryExcept
<1>6. pkgDbs' = [pkgDbs EXCEPT ![Dest] = db]
  BY <1>3, <1>4 DEF Queue
<1>7. EntryInv(old) /\ old.stored = {}
  BY <1>1, <1>2, <1>3 DEF DbInv, QueueInv
<1>8. EntryInv(db)
  <2>1. \A x \in DOMAIN db.toRm : db.toRm[x] = r \/ (x \in DOMAIN old.toRm /\ db.toRm[x] = old.toRm[x])
    BY <1>5
  <2>2. Removes(db)
    BY <1>5, <1>7, <2>1 DEF EntryInv, Removes
  <2> QED  BY <1>5, <1>7, <2>2 DEF EntryInv, New, Ends
<1>9. EntryInv(db)' /\ closing' = closing /\ torn' = torn
  BY <1>1, <1>2, <1>5, <1>8, SameEntry DEF Returns
<1>10. pkgDbs' \in Seq(OpenDb) /\ Len(pkgDbs') = Len(pkgDbs) /\ QueueInv'
  BY <1>1, <1>2, <1>3, <1>5, <1>6, <1>7, <1>9, EntryChanges, SameEntry
<1> QED  BY <1>1, <1>2, <1>10, QueuedInv

LEMMA RemoveInv == DbInv /\ PkgRemovePackage => DbInv'
<1> SUFFICES ASSUME DbInv, PkgRemovePackage PROVE DbInv'
  OBVIOUS
<1> DEFINE slot == SlotOf(Here, lookup.name)
<1>1. /\ Ready /\ DestDbs # {} /\ lookup.status = "found"
      /\ Queue([loc |-> Here, slot |-> slot])
  BY DEF PkgRemovePackage
<1>2. /\ lookup.name \in Ids /\ Here \in Locations
      /\ \E p \in lookup.parts : p.id = lookup.name /\ \E s \in Counted(Here) : p = Prop(Here, s)
  BY <1>1, EntryFacts DEF DbInv, LookupInv, Parts, Here
<1>3. lookup.name # NoId /\ ~closing
  BY <1>1, <1>2, DbFacts DEF Ready
<1>4. slot # 0 /\ slot \in Slots(Here)
  BY <1>2, <1>3, SlotOfFacts DEF DbInv, Counted
<1>5. slot \in Nat
  BY <1>2, <1>4, FileFacts DEF DbInv
<1> HIDE DEF slot
<1>6. [loc |-> Here, slot |-> slot] \in Removal
  BY <1>2, <1>5 DEF Removal
<1> QED  BY <1>1, <1>4, <1>6, QueueRemovalInv

LEMMA RemoveAddedInv == DbInv /\ PkgRemoveAdded => DbInv'
<1> SUFFICES ASSUME DbInv, PkgRemoveAdded PROVE DbInv'
  OBVIOUS
<1>1. [loc |-> Nowhere, slot |-> 0] \in Removal /\ Nowhere \notin Locations
  BY DbFacts DEF Removal
<1>2. CASE Queue([loc |-> Nowhere, slot |-> 0])
  BY <1>1, <1>2, QueueRemovalInv DEF PkgRemoveAdded
<1> QED  BY <1>2, DiesInv DEF PkgRemoveAdded

-----------------------------------------------------------------------------
(* PkgCloseDbs: what is queued is written.                                 *)

LEMMA FirstFacts ==
  ASSUME DbInv, Closing
  PROVE  /\ pkgDbs # <<>> /\ 1 \in DOMAIN pkgDbs /\ First = pkgDbs[1] /\ First \in OpenDb
         /\ lookup = NoLookup
<1>1. pkgDbs # <<>> /\ lookup = NoLookup
  BY DEF DbInv, ProcInv, Closing
<1>2. pkgDbs \in Seq(OpenDb) /\ Len(pkgDbs) \in Nat /\ DOMAIN pkgDbs = 1 .. Len(pkgDbs)
  BY EntryFacts DEF DbInv
<1>3. 1 \in DOMAIN pkgDbs /\ Head(pkgDbs) = pkgDbs[1]
  BY <1>1, <1>2
<1> QED  BY <1>1, <1>2, <1>3 DEF First

LEMMA CloseRemoveInv == DbInv /\ CloseRemove => DbInv'
<1> SUFFICES ASSUME DbInv, CloseRemove PROVE DbInv'
  OBVIOUS
<1>1. PICK old \in OpenDb : old = pkgDbs[1] /\ old = First
  BY FirstFacts DEF CloseRemove
<1>2. /\ 1 \in DOMAIN pkgDbs /\ lookup = NoLookup /\ pkgDbs # <<>> /\ old.toRm # <<>> /\ closing
      /\ proc = "running"
  BY <1>1, FirstFacts DEF CloseRemove, Closing
<1>3. /\ old.toRm \in Seq(Removal) /\ old.toAdd \in Seq(Packages) /\ old.loc \in Locations
      /\ old.free \in Nat
  BY DEF OpenDb
<1>4. PICK r \in Removal : r = Head(old.toRm) /\ r = old.toRm[1]
  BY <1>2, <1>3
<1>5. /\ r.loc \in Locations
      /\ promised' = [promised EXCEPT ![r.loc] =
                        {q \in @ : q.id # files[r.loc].props[r.slot].id}]
      /\ files' = [files EXCEPT ![r.loc].props[r.slot] = Cleared]
      /\ pkgDbs' = [pkgDbs EXCEPT ![1].toRm = Tail(@), ![1].free = @ + 1]
      /\ UNCHANGED <<proc, creating, closing, lookup, error, errHint, torn>>
  BY <1>1, <1>4, EntryFacts DEF CloseRemove, DbInv
<1>6. EntryInv(old) /\ old.stored = {}
  BY <1>1, <1>2 DEF DbInv, QueueInv
<1>7. r.slot \in Slots(r.loc)
  <2>1. 1 \in DOMAIN old.toRm
    BY <1>2, <1>3
  <2> QED  BY <1>4, <1>5, <1>6, <2>1 DEF EntryInv, Removes
<1>8. Cleared \in Property /\ Cleared.id = NoId
  BY DEF Cleared, Property
<1>9. /\ files' \in [Locations -> File]
      /\ \A l \in Locations :
           /\ Slots(l)' = Slots(l) /\ Len(files'[l].props) = Len(files[l].props)
           /\ files'[l].count = files[l].count
      /\ \A l \in Locations : \A s \in Slots(l) :
           Prop(l, s)' = IF l = r.loc /\ s = r.slot THEN Cleared ELSE Prop(l, s)
  <2> DEFINE new(l) == [files[l] EXCEPT !.props = [files[l].props EXCEPT ![r.slot] = Cleared]]
  <2>1. files \in [Locations -> File]
    BY DEF DbInv, DbTypeOK
  <2>2. \A l \in Locations : files'[l] = IF l = r.loc THEN new(l) ELSE files[l]
    BY <1>5, <2>1
  <2>3. files' = [l \in Locations |-> IF l = r.loc THEN new(l) ELSE files[l]]
    BY <1>5, <2>1
  <2>4. /\ files[r.loc].props \in Seq(Property) /\ Slots(r.loc) = 1 .. Len(files[r.loc].props)
        /\ Len(files[r.loc].props) \in Nat /\ files[r.loc] \in File
    BY <1>5, FileFacts DEF DbInv
  <2>5. PICK ps : ps = [files[r.loc].props EXCEPT ![r.slot] = Cleared]
    OBVIOUS
  <2>6. /\ ps \in Seq(Property) /\ DOMAIN ps = Slots(r.loc)
        /\ Len(ps) = Len(files[r.loc].props)
        /\ \A s \in Slots(r.loc) : ps[s] = IF s = r.slot THEN Cleared ELSE Prop(r.loc, s)
    BY <1>7, <1>8, <2>4, <2>5 DEF Prop
  <2>7. new(r.loc) \in File /\ new(r.loc).props = ps /\ new(r.loc).count = files[r.loc].count
    <3>1. \A x \in File : /\ [x EXCEPT !.props = ps] \in File
                         /\ [x EXCEPT !.props = ps].props = ps
                         /\ [x EXCEPT !.props = ps].count = x.count
      BY <2>6 DEF File
    <3> QED  BY <2>4, <2>5, <3>1
  <2> HIDE DEF new
  <2>8. files' \in [Locations -> File]
    BY <2>1, <2>3, <2>7
  <2> QED  BY <1>5, <2>2, <2>6, <2>7, <2>8 DEF Slots, Prop
<1>10. /\ promised' \in [Locations -> SUBSET Packages]
       /\ \A l \in Locations : promised'[l] =
            IF l = r.loc THEN {q \in promised[l] : q.id # Prop(r.loc, r.slot).id} ELSE promised[l]
  BY <1>5 DEF DbInv, DbTypeOK, Prop
<1>11. PICK db : db = [old EXCEPT !.toRm = Tail(old.toRm), !.free = old.free + 1]
  OBVIOUS
<1>12. /\ db \in OpenDb /\ db.loc = old.loc /\ db.toAdd = old.toAdd /\ db.toRm = Tail(old.toRm)
       /\ db.num = old.num /\ db.end = old.end /\ db.stored = {}
  <2>0. Tail(old.toRm) \in Seq(Removal)
    BY <1>2, <1>3
  <2>1. PICK q \in Seq(Removal) : q = Tail(old.toRm)
    BY <2>0
  <2>2. old.free + 1 \in Nat
    BY <1>3
  <2> QED  BY <1>6, <1>11, <2>1, <2>2 DEF OpenDb
<1>13. pkgDbs' = [pkgDbs EXCEPT ![1] = db]
  BY <1>1, <1>2, <1>5, <1>11, EntryFacts DEF DbInv
<1>14. ASSUME NEW l
       PROVE  ~Writing(l) /\ ~Writing(l)' /\ Pending(l) = {} /\ Pending(l)' = {}
  <2>1. First' = db
    BY <1>2, <1>12, <1>13, EntryFacts DEF DbInv, First
  <2>2. ~Writing(l) /\ ~Writing(l)'
    BY <1>1, <1>6, <1>12, <2>1 DEF Writing
  <2> QED  BY <2>2 DEF Pending
<1>15. StoredInv'
  <2>1. ASSUME NEW l \in Locations, NEW s \in Slots(l)', Prop(l, s)'.id # NoId
        PROVE  /\ s \in Slots(l) /\ Prop(l, s)' = Prop(l, s)
               /\ ~(l = r.loc /\ s = r.slot)
    BY <1>8, <1>9, <2>1
  <2>2. ASSUME NEW l \in Locations, NEW s \in Slots(l)', Prop(l, s)'.id # NoId
        PROVE  \E q \in Packages : Prop(l, s)' = Stored(q)
    BY <2>1, <2>2 DEF DbInv, StoredInv
  <2>3. ASSUME NEW l \in Locations, l \notin torn
        PROVE  Whole(l)'
    <3>1. Whole(l)
      BY <2>3 DEF DbInv, StoredInv
    <3>2. ASSUME NEW s \in Slots(l)', Prop(l, s)'.id # NoId
          PROVE  \E q \in promised'[l] : Prop(l, s)' = Stored(q)
      <4>1. /\ s \in Slots(l) /\ Prop(l, s)' = Prop(l, s) /\ Prop(l, s).id # NoId
            /\ ~(l = r.loc /\ s = r.slot)
        BY <2>1, <3>2
      <4>2. PICK q \in promised[l] : Prop(l, s) = Stored(q)
        BY <1>14, <3>1, <4>1 DEF Whole
      <4>3. l = r.loc => Prop(l, s).id # Prop(r.loc, r.slot).id
        BY <1>7, <3>1, <4>1 DEF Whole
      <4>4. q \in Packages /\ Stored(q).id = q.id
        BY FileFacts, StoredFacts DEF DbInv
      <4>5. q \in promised'[l]
        BY <1>10, <4>2, <4>3, <4>4
      <4> QED  BY <4>1, <4>2, <4>5
    <3>3. ASSUME NEW q \in promised'[l]
          PROVE  \E s \in Slots(l)' : Prop(l, s)' = Stored(q)
      <4>1. q \in promised[l] /\ (l = r.loc => q.id # Prop(r.loc, r.slot).id)
        BY <1>10
      <4>2. PICK s \in Slots(l) : Prop(l, s) = Stored(q)
        BY <3>1, <4>1 DEF Whole
      <4>3. q \in Packages /\ Stored(q).id = q.id
        BY <4>1, FileFacts, StoredFacts DEF DbInv
      <4>4. ~(l = r.loc /\ s = r.slot)
        BY <4>1, <4>2, <4>3
      <4> QED  BY <1>9, <4>2, <4>4
    <3>4. ASSUME NEW s \in Slots(l)', NEW t \in Slots(l)', Prop(l, s)'.id # NoId,
                 Prop(l, s)'.id = Prop(l, t)'.id
          PROVE  s = t
      <4>1. /\ s \in Slots(l) /\ t \in Slots(l)
            /\ Prop(l, s)' = Prop(l, s) /\ Prop(l, t)' = Prop(l, t)
        BY <2>1, <3>4
      <4> QED  BY <3>1, <3>4, <4>1 DEF Whole
    <3>5. Len(files'[l].props) <= files'[l].count
      BY <1>9, <1>14, <3>1 DEF Whole
    <3> QED  BY <1>14, <3>2, <3>3, <3>4, <3>5 DEF Whole
  <2> QED  BY <1>5, <2>2, <2>3 DEF StoredInv
<1>16. ASSUME NEW e \in OpenDb, EntryInv(e), e.stored = {}
       PROVE  EntryInv(e)'
  <2>1. e.loc \in Locations /\ \A x \in DOMAIN e.toAdd : e.toAdd[x].id # NoId
    BY DbFacts DEF OpenDb
  <2>2. New(e)'
    BY <1>5, <1>8, <1>9, <1>16, <2>1 DEF EntryInv, New
  <2>3. Removes(e)'
    BY <1>9, <1>16 DEF EntryInv, Removes
  <2>4. Ends(e)'
    BY <1>5, <1>9, <1>16, <2>1 DEF EntryInv, Ends
  <2> QED  BY <2>2, <2>3, <2>4 DEF EntryInv
<1>17. EntryInv(db)
  <2>1. \A x \in DOMAIN db.toRm : x + 1 \in DOMAIN old.toRm /\ db.toRm[x] = old.toRm[x + 1]
    BY <1>2, <1>3, <1>12
  <2> QED  BY <1>6, <1>12, <2>1 DEF EntryInv, New, Removes, Ends
<1>18. pkgDbs' \in Seq(OpenDb) /\ Len(pkgDbs') = Len(pkgDbs) /\ QueueInv'
  <2>1. EntryInv(db)'
    BY <1>12, <1>16, <1>17
  <2> QED  BY <1>1, <1>2, <1>5, <1>12, <1>13, <1>16, <2>1, EntryChanges
<1>19. DbTypeOK'
  BY <1>5, <1>9, <1>10, <1>18 DEF DbInv, DbTypeOK
<1>20. ProcInv' /\ LookupInv'
  <2>1. pkgDbs' # <<>>
    BY <1>2, <1>18, EntryFacts DEF DbInv
  <2>2. creating = Nowhere
    BY <1>2 DEF DbInv, ProcInv
  <2> QED  BY <1>2, <1>5, <2>1, <2>2, ResetLookup DEF ProcInv
<1> QED  BY <1>15, <1>18, <1>19, <1>20 DEF DbInv

(* The entry of the database that is closed first, when its next package   *)
(* is written or fails to be.                                              *)
LEMMA NextAddFacts ==
  ASSUME NEW old \in OpenDb, old.toAdd # <<>>
  PROVE  /\ NextAdd(old) \in OpenDb /\ NextAdd(old).loc = old.loc
         /\ NextAdd(old).toAdd = Tail(old.toAdd) /\ NextAdd(old).toRm = old.toRm
         /\ NextAdd(old).num = old.num + 1 /\ NextAdd(old).end = old.end + 1
         /\ NextAdd(old).stored = old.stored
<1>1. old.toAdd \in Seq(Packages) /\ old.num \in Nat /\ old.end \in Nat
  BY DEF OpenDb
<1>2. PICK q \in Seq(Packages), n \in Nat, m \in Nat :
        q = Tail(old.toAdd) /\ n = old.num + 1 /\ m = old.end + 1
  <2>1. Tail(old.toAdd) \in Seq(Packages) /\ old.num + 1 \in Nat /\ old.end + 1 \in Nat
    BY <1>1
  <2> QED  BY <2>1
<1>3. NextAdd(old) = [old EXCEPT !.toAdd = q, !.num = n, !.end = m]
  BY <1>2 DEF NextAdd
<1> QED  BY <1>2, <1>3 DEF OpenDb

LEMMA PutsFacts ==
  ASSUME NEW old \in OpenDb, old.toAdd # <<>>, NEW pkg \in Packages, pkg = Head(old.toAdd)
  PROVE  /\ Puts(old) \in OpenDb /\ Puts(old).loc = old.loc
         /\ Puts(old).toAdd = Tail(old.toAdd) /\ Puts(old).toRm = old.toRm
         /\ Puts(old).num = old.num + 1 /\ Puts(old).end = old.end + 1
         /\ Puts(old).stored = old.stored \cup {pkg}
<1>1. PICK db \in OpenDb : db = NextAdd(old)
  BY NextAddFacts
<1>2. PICK S \in SUBSET Packages : S = old.stored \cup {pkg}
  <2>1. old.stored \in SUBSET Packages
    BY DEF OpenDb
  <2> QED  BY <2>1
<1>3. Puts(old) = [db EXCEPT !.stored = S]
  BY <1>1, <1>2, NextAddFacts DEF Puts
<1>4. /\ Puts(old) \in OpenDb /\ Puts(old).loc = db.loc /\ Puts(old).toAdd = db.toAdd
      /\ Puts(old).toRm = db.toRm /\ Puts(old).num = db.num /\ Puts(old).end = db.end
      /\ Puts(old).stored = S
  BY <1>3 DEF OpenDb
<1> QED  BY <1>1, <1>2, <1>4, NextAddFacts

(* What is left of a queue when its first package is written.              *)
LEMMA TailFacts ==
  ASSUME NEW q \in Seq(Packages), q # <<>>
  PROVE  /\ 1 \in DOMAIN q /\ Head(q) = q[1] /\ Head(q) \in Packages
         /\ \A x \in DOMAIN Tail(q) :
              /\ x + 1 \in DOMAIN q /\ x + 1 # 1 /\ Tail(q)[x] = q[x + 1] /\ x \in Nat
<1>1. DOMAIN q = 1 .. Len(q) /\ Len(q) \in Nat /\ Len(q) > 0
  OBVIOUS
<1>2. Tail(q) \in Seq(Packages) /\ Len(Tail(q)) = Len(q) - 1
  BY <1>1
<1>3. DOMAIN Tail(q) = 1 .. Len(q) - 1
  BY <1>1, <1>2
<1>4. \A x \in 1 .. Len(q) - 1 : x + 1 \in 1 .. Len(q) /\ Tail(q)[x] = q[x + 1]
  BY <1>1
<1> QED  BY <1>1, <1>3, <1>4

(* A package is written behind the last property.                          *)
LEMMA CloseAppendInv == DbInv /\ CloseAppend => DbInv'
<1> SUFFICES ASSUME DbInv, CloseAppend PROVE DbInv'
  OBVIOUS
<1>1. PICK old \in OpenDb : old = pkgDbs[1] /\ old = First
  BY FirstFacts DEF CloseAppend, Appending
<1>2. /\ 1 \in DOMAIN pkgDbs /\ lookup = NoLookup /\ pkgDbs # <<>> /\ closing
      /\ proc = "running" /\ old.toAdd # <<>> /\ old.toRm = <<>>
  BY <1>1, FirstFacts DEF CloseAppend, Appending, Closing
<1>3. /\ old.toAdd \in Seq(Packages) /\ old.loc \in Locations /\ old.end \in Nat
      /\ old.num \in Nat /\ old.stored \in SUBSET Packages
  BY DEF OpenDb
<1>4. PICK l \in Locations : l = old.loc
  BY <1>3
<1>5. PICK pkg \in Packages : pkg = Head(old.toAdd) /\ pkg = old.toAdd[1]
  BY <1>2, <1>3, TailFacts
<1>6. PICK db : db = Puts(old)
  OBVIOUS
<1>7. /\ db \in OpenDb /\ db.loc = l /\ db.toAdd = Tail(old.toAdd) /\ db.toRm = <<>>
      /\ db.num = old.num + 1 /\ db.end = old.end + 1 /\ db.stored = old.stored \cup {pkg}
  BY <1>2, <1>4, <1>5, <1>6, PutsFacts
<1>8. /\ files' = [files EXCEPT ![l].props = WriteAt(@, old.end + 1, Stored(pkg))]
      /\ pkgDbs' = [pkgDbs EXCEPT ![1] = db]
      /\ UNCHANGED <<proc, creating, closing, lookup, error, errHint, promised, torn>>
  <2>1. [pkgDbs EXCEPT ![1] = Puts(@)] = [pkgDbs EXCEPT ![1] = db]
    BY <1>1, <1>6
  <2> QED  BY <1>1, <1>4, <1>5, <2>1 DEF CloseAppend
<1>9. EntryInv(old)
  BY <1>1, <1>2 DEF DbInv, QueueInv
<1>10. PICK n \in Nat : n = old.end + 1
  BY <1>3
<1>11. PICK ps : ps = WriteAt(files[l].props, n, Stored(pkg))
  OBVIOUS
<1>12. /\ Len(files[l].props) \in Nat /\ Len(files[l].props) < n
       /\ Slots(l) = 1 .. Len(files[l].props)
       /\ ps \in Seq(Property) /\ Len(ps) = n /\ DOMAIN ps = 1 .. n
       /\ \A s \in 1 .. n : ps[s] = IF s = n THEN Stored(pkg)
                                    ELSE IF s \in Slots(l) THEN Prop(l, s) ELSE Cleared
  <2>1. /\ Len(files[l].props) \in Nat /\ files[l].props \in Seq(Property)
        /\ Slots(l) = 1 .. Len(files[l].props)
    BY FileFacts DEF DbInv
  <2>2. Len(files[l].props) < n
    BY <1>3, <1>4, <1>9, <1>10, <2>1 DEF EntryInv, Ends
  <2>3. Stored(pkg) \in Property
    BY StoredFacts
  <2>4. /\ ps \in Seq(Property) /\ Len(ps) = n /\ DOMAIN ps = 1 .. n
        /\ \A s \in 1 .. n : ps[s] = IF s = n THEN Stored(pkg)
                                     ELSE IF s <= Len(files[l].props) THEN files[l].props[s]
                                                                      ELSE Cleared
    <3>1. PICK props \in Seq(Property), x \in Property : props = files[l].props /\ x = Stored(pkg)
      BY <2>1, <2>3
    <3>2. n > Len(props) /\ ps = WriteAt(props, n, x)
      BY <1>11, <2>1, <2>2, <3>1
    <3>3. /\ ps \in Seq(Property) /\ Len(ps) = n /\ DOMAIN ps = 1 .. n
          /\ \A s \in 1 .. n :
               ps[s] = IF s = n THEN x ELSE IF s <= Len(props) THEN props[s] ELSE Cleared
      BY <3>2, WriteAtFacts
    <3> QED  BY <3>1, <3>3
  <2> QED  BY <2>1, <2>2, <2>4 DEF Prop
<1>13. /\ files' \in [Locations -> File]
       /\ \A m \in Locations : files'[m].count = files[m].count
       /\ \A m \in Locations : m # l => files'[m] = files[m]
       /\ files'[l].props = ps
  <2>1. files \in [Locations -> File]
    BY DEF DbInv, DbTypeOK
  <2>2. PICK x : x = [files[l] EXCEPT !.props = ps]
    OBVIOUS
  <2>3. x \in File /\ x.props = ps /\ x.count = files[l].count
    BY <1>12, <2>1, <2>2 DEF File
  <2>4. files' = [files EXCEPT ![l] = x]
    BY <1>8, <1>10, <1>11, <2>1, <2>2
  <2> QED  BY <2>1, <2>3, <2>4
<1>14. /\ \A m \in Locations : m # l => Slots(m)' = Slots(m) /\ \A s : Prop(m, s)' = Prop(m, s)
       /\ Slots(l)' = 1 .. n /\ Slots(l) \subseteq 1 .. n /\ n \in 1 .. n /\ n \notin Slots(l)
       /\ Prop(l, n)' = Stored(pkg)
       /\ \A s \in Slots(l) : Prop(l, s)' = Prop(l, s)
       /\ \A s \in 1 .. n : s # n /\ s \notin Slots(l) => Prop(l, s)'.id = NoId
  <2>1. Slots(l)' = 1 .. n /\ \A s : Prop(l, s)' = ps[s]
    BY <1>12, <1>13 DEF Slots, Prop
  <2>2. Slots(l) \subseteq 1 .. n /\ n \in 1 .. n /\ n \notin Slots(l)
    BY <1>10, <1>12
  <2>3. Cleared.id = NoId
    BY DEF Cleared
  <2> QED  BY <1>12, <1>13, <2>1, <2>2, <2>3 DEF Slots, Prop
<1>15. /\ Writing(l)' /\ Pending(l)' = old.stored \cup {pkg} /\ Pending(l) = old.stored
       /\ \A m : m # l => ~Writing(m) /\ ~Writing(m)' /\ Pending(m)' = {} /\ Pending(m) = {}
  <2>1. First' = db
    BY <1>2, <1>7, <1>8, EntryFacts DEF DbInv, First
  <2>2. Writing(l)' /\ \A m : m # l => ~Writing(m) /\ ~Writing(m)'
    BY <1>1, <1>2, <1>4, <1>7, <1>8, <2>1 DEF Writing
  <2>3. Writing(l) <=> old.stored # {}
    BY <1>1, <1>2, <1>4 DEF Writing
  <2> QED  BY <1>1, <1>7, <2>1, <2>2, <2>3 DEF Pending
<1>16. Stored(pkg).id = pkg.id /\ pkg.id # NoId
  BY StoredFacts
<1>17. StoredInv'
  <2>1. ASSUME NEW m \in Locations, NEW s \in Slots(m)', Prop(m, s)'.id # NoId
        PROVE  \/ s \in Slots(m) /\ Prop(m, s)' = Prop(m, s)
               \/ m = l /\ s = n /\ Prop(m, s)' = Stored(pkg)
    BY <1>14, <2>1
  <2>2. ASSUME NEW m \in Locations, NEW s \in Slots(m)', Prop(m, s)'.id # NoId
        PROVE  \E q \in Packages : Prop(m, s)' = Stored(q)
    BY <2>1, <2>2 DEF DbInv, StoredInv
  <2>3. ASSUME NEW m \in Locations, m \notin torn
        PROVE  Whole(m)'
    <3>1. Whole(m)
      BY <2>3 DEF DbInv, StoredInv
    <3>2. CASE m # l
      BY <1>8, <1>13, <1>14, <1>15, <3>1, <3>2 DEF Whole
    <3>3. CASE m = l
      <4>1. ASSUME NEW s \in Slots(l)', Prop(l, s)'.id # NoId
            PROVE  \E q \in promised'[l] \cup Pending(l)' : Prop(l, s)' = Stored(q)
        <5>1. s \in Slots(l) /\ Prop(l, s)' = Prop(l, s) => \E q \in promised[l] \cup old.stored : Prop(l, s)' = Stored(q)
          BY <1>15, <3>1, <3>3, <4>1 DEF Whole
        <5> QED  BY <1>8, <1>15, <2>1, <4>1, <5>1
      <4>2. \A q \in promised'[l] : \E s \in Slots(l)' : Prop(l, s)' = Stored(q)
        BY <1>8, <1>14, <3>1, <3>3 DEF Whole
      <4>3. \A s \in Slots(l) : Prop(l, s).id # pkg.id
        <5>1. 1 \in DOMAIN old.toAdd /\ old.toAdd[1] = pkg
          BY <1>2, <1>3, <1>5, TailFacts
        <5> QED  BY <1>4, <1>9, <2>3, <3>3, <5>1 DEF EntryInv, New
      <4>4. ASSUME NEW s \in Slots(l)', NEW x \in Slots(l)', Prop(l, s)'.id # NoId,
                   Prop(l, s)'.id = Prop(l, x)'.id
            PROVE  s = x
        <5>1. /\ \/ s \in Slots(l) /\ Prop(l, s)' = Prop(l, s)
                 \/ s = n /\ Prop(l, s)' = Stored(pkg)
              /\ \/ x \in Slots(l) /\ Prop(l, x)' = Prop(l, x)
                 \/ x = n /\ Prop(l, x)' = Stored(pkg)
          BY <2>1, <4>4
        <5>2. s \in Slots(l) /\ x \in Slots(l) /\ Prop(l, s)' = Prop(l, s) /\ Prop(l, x)' = Prop(l, x)
                => s = x
          BY <3>1, <3>3, <4>4 DEF Whole
        <5> QED  BY <1>16, <4>3, <4>4, <5>1, <5>2
      <4> QED  BY <1>15, <3>3, <4>1, <4>2, <4>4 DEF Whole
    <3> QED  BY <3>2, <3>3
  <2> QED  BY <1>8, <2>2, <2>3 DEF StoredInv
<1>18. ASSUME NEW e \in OpenDb, EntryInv(e), e.loc # l
       PROVE  EntryInv(e)'
  <2>1. e.loc \in Locations
    BY DEF OpenDb
  <2>2. New(e)'
    BY <1>8, <1>14, <1>18, <2>1 DEF EntryInv, New
  <2>3. Removes(e)'
    BY <1>14, <1>18 DEF EntryInv, Removes
  <2>4. Ends(e)'
    BY <1>8, <1>13, <1>14, <1>18, <2>1 DEF EntryInv, Ends
  <2> QED  BY <2>2, <2>3, <2>4 DEF EntryInv
<1>19. EntryInv(db)'
  <2>1. New(db)'
    <3> SUFFICES ASSUME l \notin torn, NEW x \in DOMAIN db.toAdd
                 PROVE  /\ \A s \in Slots(l)' : Prop(l, s)'.id # db.toAdd[x].id
                        /\ \A y \in DOMAIN db.toAdd : db.toAdd[x].id = db.toAdd[y].id => x = y
      BY <1>7, <1>8 DEF New
    <3>1. \A y \in DOMAIN db.toAdd :
            /\ y + 1 \in DOMAIN old.toAdd /\ y + 1 # 1 /\ db.toAdd[y] = old.toAdd[y + 1] /\ y \in Nat
            /\ 1 \in DOMAIN old.toAdd
      <4>1. PICK q \in Seq(Packages) : q = old.toAdd
        BY <1>3
      <4>2. q # <<>> /\ db.toAdd = Tail(q)
        BY <1>2, <1>7, <4>1
      <4> QED  BY <4>1, <4>2, TailFacts
    <3>2. /\ \A s \in Slots(l) : Prop(l, s).id # db.toAdd[x].id
          /\ pkg.id # db.toAdd[x].id
          /\ \A y \in DOMAIN db.toAdd : db.toAdd[x].id = db.toAdd[y].id => x + 1 = y + 1
      BY <1>4, <1>5, <1>9, <3>1 DEF EntryInv, New
    <3>3. db.toAdd[x].id # NoId
      <4>1. db.toAdd[x] \in Packages
        BY <1>7 DEF OpenDb
      <4> QED  BY <4>1, DbFacts
    <3>4. \A y \in DOMAIN db.toAdd : x + 1 = y + 1 => x = y
      BY <3>1
    <3> QED  BY <1>14, <1>16, <3>2, <3>3, <3>4
  <2>2. Removes(db)'
    BY <1>7 DEF Removes
  <2>3. Ends(db)'
    <3>1. l \notin torn => old.end <= old.num
      BY <1>4, <1>9 DEF EntryInv, Ends
    <3>2. \A q \in old.stored : \E s \in Slots(l) : Prop(l, s) = Stored(q)
      BY <1>4, <1>9 DEF EntryInv, Ends
    <3>3. \A q \in db.stored : \E s \in Slots(l)' : Prop(l, s)' = Stored(q)
      BY <1>7, <1>14, <3>2
    <3>4. Len(files'[l].props) <= db.end /\ (l \notin torn' => db.end <= db.num)
      BY <1>3, <1>7, <1>8, <1>10, <1>12, <1>13, <3>1
    <3> QED  BY <1>7, <3>3, <3>4 DEF Ends
  <2> QED  BY <2>1, <2>2, <2>3 DEF EntryInv
<1>20. pkgDbs' \in Seq(OpenDb) /\ Len(pkgDbs') = Len(pkgDbs) /\ QueueInv'
  BY <1>1, <1>2, <1>4, <1>7, <1>8, <1>18, <1>19, EntryChanges
<1>21. DbTypeOK'
  BY <1>8, <1>13, <1>20 DEF DbInv, DbTypeOK
<1>22. ProcInv' /\ LookupInv'
  <2>1. pkgDbs' # <<>>
    BY <1>2, <1>20, EntryFacts DEF DbInv
  <2>2. creating = Nowhere
    BY <1>2 DEF DbInv, ProcInv
  <2> QED  BY <1>2, <1>8, <2>1, <2>2, ResetLookup DEF ProcInv
<1> QED  BY <1>17, <1>20, <1>21, <1>22 DEF DbInv

(* A write that fails: the package is lost, and counted.                   *)
LEMMA CloseAppendFailsInv == DbInv /\ CloseAppendFails => DbInv'
<1> SUFFICES ASSUME DbInv, CloseAppendFails PROVE DbInv'
  OBVIOUS
<1>1. PICK old \in OpenDb : old = pkgDbs[1] /\ old = First
  BY FirstFacts DEF CloseAppendFails, Appending
<1>2. /\ 1 \in DOMAIN pkgDbs /\ lookup = NoLookup /\ pkgDbs # <<>> /\ closing
      /\ proc = "running" /\ old.toAdd # <<>> /\ old.toRm = <<>>
  BY <1>1, FirstFacts DEF CloseAppendFails, Appending, Closing
<1>3. old.toAdd \in Seq(Packages) /\ old.end \in Nat /\ old.num \in Nat
  BY DEF OpenDb
<1>4. PICK db : db = NextAdd(old)
  OBVIOUS
<1>5. /\ db \in OpenDb /\ db.loc = old.loc /\ db.toAdd = Tail(old.toAdd) /\ db.toRm = <<>>
      /\ db.num = old.num + 1 /\ db.end = old.end + 1 /\ db.stored = old.stored
  BY <1>2, <1>4, NextAddFacts
<1>6. /\ files' = files /\ pkgDbs' = [pkgDbs EXCEPT ![1] = db]
      /\ UNCHANGED <<proc, creating, closing, lookup, error, errHint, promised, torn>>
  BY <1>1, <1>4 DEF CloseAppendFails
<1>7. EntryInv(old) /\ SameProps
  BY <1>1, <1>2, <1>6 DEF DbInv, QueueInv, SameProps
<1>8. \A l : (Writing(l)' <=> Writing(l)) /\ Pending(l)' = Pending(l)
  <2>1. First' = db
    BY <1>2, <1>5, <1>6, EntryFacts DEF DbInv, First
  <2>2. \A l : Writing(l)' <=> Writing(l)
    BY <1>1, <1>5, <1>6, <2>1 DEF Writing
  <2> QED  BY <1>1, <1>5, <2>1, <2>2 DEF Pending
<1>9. EntryInv(db)
  <2>1. \A x \in DOMAIN db.toAdd :
          x + 1 \in DOMAIN old.toAdd /\ db.toAdd[x] = old.toAdd[x + 1] /\ x \in Nat
    BY <1>2, <1>3, <1>5, TailFacts
  <2>2. New(db)
    <3> SUFFICES ASSUME db.loc \notin torn, NEW x \in DOMAIN db.toAdd
                 PROVE  /\ \A s \in Slots(db.loc) : Prop(db.loc, s).id # db.toAdd[x].id
                        /\ \A y \in DOMAIN db.toAdd : db.toAdd[x].id = db.toAdd[y].id => x = y
      BY DEF New
    <3>1. /\ \A s \in Slots(db.loc) : Prop(db.loc, s).id # db.toAdd[x].id
          /\ \A y \in DOMAIN db.toAdd : db.toAdd[x].id = db.toAdd[y].id => x + 1 = y + 1
      BY <1>5, <1>7, <2>1 DEF EntryInv, New
    <3> QED  BY <2>1, <3>1
  <2>3. Removes(db) /\ Ends(db)
    <3>1. Len(files[old.loc].props) <= old.end /\ (old.loc \notin torn => old.end <= old.num)
      BY <1>7 DEF EntryInv, Ends
    <3>2. Len(files[old.loc].props) \in Nat
      BY FileFacts DEF DbInv, OpenDb
    <3>3. Len(files[old.loc].props) <= old.end + 1 /\ (old.loc \notin torn => old.end + 1 <= old.num + 1)
      BY <1>3, <3>1, <3>2
    <3> QED  BY <1>5, <1>7, <3>3 DEF EntryInv, Removes, Ends
  <2> QED  BY <2>2, <2>3 DEF EntryInv
<1>10. EntryInv(db)'
  BY <1>5, <1>6, <1>7, <1>9, SameEntry
<1>11. pkgDbs' \in Seq(OpenDb) /\ Len(pkgDbs') = Len(pkgDbs) /\ QueueInv'
  BY <1>1, <1>2, <1>5, <1>6, <1>7, <1>10, EntryChanges, SameEntry
<1>12. StoredInv'
  BY <1>6, <1>7, <1>8, SameStored DEF DbInv
<1>13. DbTypeOK'
  BY <1>6, <1>11 DEF DbInv, DbTypeOK
<1>14. ProcInv' /\ LookupInv'
  <2>1. pkgDbs' # <<>>
    BY <1>2, <1>11, EntryFacts DEF DbInv
  <2>2. creating = Nowhere
    BY <1>2 DEF DbInv, ProcInv
  <2> QED  BY <1>2, <1>6, <2>1, <2>2, ResetLookup DEF ProcInv
<1> QED  BY <1>11, <1>12, <1>13, <1>14 DEF DbInv

(* The header is stored: what was written is what is promised now.         *)
LEMMA CloseDbInv == DbInv /\ CloseDb => DbInv'
<1> SUFFICES ASSUME DbInv, CloseDb PROVE DbInv'
  OBVIOUS
<1>1. PICK old \in OpenDb : old = pkgDbs[1] /\ old = First
  BY FirstFacts DEF CloseDb
<1>2. /\ 1 \in DOMAIN pkgDbs /\ lookup = NoLookup /\ pkgDbs # <<>> /\ closing
      /\ proc = "running"
  BY FirstFacts DEF CloseDb, Closing
<1>3. /\ old.loc \in Locations /\ old.free \in Nat /\ old.num \in Nat /\ old.end \in Nat
      /\ old.stored \in SUBSET Packages
  BY DEF OpenDb
<1>4. PICK l \in Locations : l = old.loc
  BY <1>3
<1>5. /\ files' = [files EXCEPT ![l].count = old.num, ![l].free = old.free]
      /\ promised' = [promised EXCEPT ![l] = @ \cup old.stored]
      /\ pkgDbs' = Tail(pkgDbs) /\ closing' = (Tail(pkgDbs) # <<>>)
      /\ UNCHANGED <<proc, creating, lookup, error, errHint, torn>>
  BY <1>1, <1>4 DEF CloseDb
<1>6. EntryInv(old)
  BY <1>1, <1>2 DEF DbInv, QueueInv
<1>7. /\ files' \in [Locations -> File]
      /\ \A m \in Locations : files'[m].props = files[m].props
      /\ \A m \in Locations : m # l => files'[m] = files[m]
      /\ files'[l].count = old.num
  <2>1. files \in [Locations -> File]
    BY DEF DbInv, DbTypeOK
  <2>2. PICK x : x = [files[l] EXCEPT !.count = old.num, !.free = old.free]
    OBVIOUS
  <2>3. x \in File /\ x.props = files[l].props /\ x.count = old.num
    BY <1>3, <2>1, <2>2 DEF File
  <2>4. files' = [files EXCEPT ![l] = x]
    BY <1>5, <2>1, <2>2
  <2> QED  BY <2>1, <2>3, <2>4
<1>8. \A m \in Locations : Slots(m)' = Slots(m) /\ \A s : Prop(m, s)' = Prop(m, s)
  BY <1>7 DEF Slots, Prop
<1>9. /\ promised' \in [Locations -> SUBSET Packages]
      /\ \A m \in Locations : m # l => promised'[m] = promised[m]
      /\ promised'[l] = promised[l] \cup old.stored
  BY <1>3, <1>5 DEF DbInv, DbTypeOK
<1>10. /\ pkgDbs' \in Seq(OpenDb) /\ DOMAIN pkgDbs' = 1 .. Len(pkgDbs) - 1
       /\ \A k \in DOMAIN pkgDbs' : k + 1 \in DOMAIN pkgDbs /\ k + 1 # 1 /\ pkgDbs'[k] = pkgDbs[k + 1]
       /\ pkgDbs' # <<>> => 1 \in DOMAIN pkgDbs' /\ First' = pkgDbs'[1]
  BY <1>2, <1>5, EntryFacts DEF DbInv, First
<1>11. /\ \A m : ~Writing(m)' /\ Pending(m)' = {}
       /\ \A m : m # l => ~Writing(m) /\ Pending(m) = {}
       /\ Pending(l) = old.stored
  <2>1. \A m : ~Writing(m)'
    <3>1. closing' => First'.stored = {}
      <4> SUFFICES ASSUME closing' PROVE First'.stored = {}
        OBVIOUS
      <4>1. 1 \in DOMAIN pkgDbs' /\ First' = pkgDbs'[1]
        BY <1>5, <1>10
      <4>2. 1 + 1 \in DOMAIN pkgDbs /\ 1 + 1 # 1 /\ pkgDbs'[1] = pkgDbs[1 + 1]
        BY <1>10, <4>1
      <4> QED  BY <4>1, <4>2 DEF DbInv, QueueInv
    <3> QED  BY <3>1 DEF Writing
  <2>2. \A m : m # l => ~Writing(m)
    BY <1>1, <1>4 DEF Writing
  <2>3. Writing(l) <=> old.stored # {}
    BY <1>1, <1>2, <1>4 DEF Writing
  <2> QED  BY <1>1, <2>1, <2>2, <2>3 DEF Pending
<1>12. StoredInv'
  <2>1. ASSUME NEW m \in Locations, m \notin torn
        PROVE  Whole(m)'
    <3>1. Whole(m)
      BY <2>1 DEF DbInv, StoredInv
    <3>2. CASE m # l
      BY <1>7, <1>8, <1>9, <1>11, <3>1, <3>2 DEF Whole
    <3>3. CASE m = l
      <4>1. \A s \in Slots(l) : Prop(l, s).id # NoId => \E q \in promised'[l] : Prop(l, s) = Stored(q)
        BY <1>9, <1>11, <3>1, <3>3 DEF Whole
      <4>2. \A q \in promised'[l] : \E s \in Slots(l) : Prop(l, s) = Stored(q)
        BY <1>4, <1>6, <1>9, <3>1, <3>3 DEF Whole, EntryInv, Ends
      <4>3. Len(files[l].props) <= old.num
        BY <1>3, <1>4, <1>6, <2>1, <3>3, FileFacts DEF EntryInv, Ends, DbInv
      <4> QED  BY <1>7, <1>8, <1>11, <3>1, <3>3, <4>1, <4>2, <4>3 DEF Whole
    <3> QED  BY <3>2, <3>3
  <2>2. ASSUME NEW m \in Locations, NEW s \in Slots(m)', Prop(m, s)'.id # NoId
        PROVE  \E q \in Packages : Prop(m, s)' = Stored(q)
    BY <1>8, <2>2 DEF DbInv, StoredInv
  <2> QED  BY <1>5, <2>1, <2>2 DEF StoredInv
<1>13. QueueInv'
  <2>1. ASSUME NEW j \in DOMAIN pkgDbs', NEW k \in DOMAIN pkgDbs', pkgDbs'[j].loc = pkgDbs'[k].loc
        PROVE  j = k
    <3>1. j + 1 = k + 1
      BY <1>10, <2>1 DEF DbInv, QueueInv
    <3> QED  BY <1>10, <3>1, EntryFacts DEF DbInv
  <2>2. ASSUME NEW k \in DOMAIN pkgDbs'
        PROVE  EntryInv(pkgDbs[k])' /\ pkgDbs'[k].stored = {}
    <3>1. PICK e \in OpenDb : e = pkgDbs'[k] /\ e = pkgDbs[k + 1]
      BY <1>10
    <3>2. EntryInv(e) /\ e.stored = {} /\ e.loc \in Locations
      <4>1. EntryInv(e) /\ e.stored = {}
        BY <1>10, <3>1 DEF DbInv, QueueInv
      <4> QED  BY <4>1 DEF OpenDb
    <3>3. New(e)' /\ Removes(e)'
      BY <1>5, <1>8, <3>2 DEF EntryInv, New, Removes
    <3>4. Ends(e)'
      BY <1>5, <1>7, <1>8, <3>2 DEF EntryInv, Ends
    <3> QED  BY <3>1, <3>2, <3>3, <3>4 DEF EntryInv, New, Removes, Ends
  <2> QED  BY <2>1, <2>2 DEF QueueInv
<1>14. DbTypeOK'
  BY <1>5, <1>7, <1>9, <1>10 DEF DbInv, DbTypeOK
<1>15. ProcInv' /\ LookupInv'
  <2>1. creating = Nowhere
    BY <1>2 DEF DbInv, ProcInv
  <2> QED  BY <1>2, <1>5, <2>1, ResetLookup DEF ProcInv
<1> QED  BY <1>12, <1>13, <1>14, <1>15 DEF DbInv

-----------------------------------------------------------------------------
(* The lookup.                                                             *)

(* The dependencies as they are read: those that are stored, nothing up to *)
(* MaxDeps, the name of the next property, and Header for good.            *)
LEMMA DepAtFacts ==
  ASSUME DbTypeOK, StoredInv, NEW l \in Locations, NEW s \in Slots(l), Prop(l, s).id # NoId
  PROVE  LET n == Len(Prop(l, s).deps)
         IN  /\ n \in Nat /\ n <= MaxDeps
             /\ \A i \in 1 .. n : /\ DepAt(l, s, i) = Prop(l, s).deps[i]
                                  /\ DepAt(l, s, i) \in Ids
             /\ \A i \in Nat : n < i /\ i <= MaxDeps => DepAt(l, s, i) = NoId
             /\ DepAt(l, s, MaxDeps + 1) # NoId =>
                  \E t \in Slots(l) : Prop(l, t).id = DepAt(l, s, MaxDeps + 1)
             /\ \A i \in Nat : i > MaxDeps + 1 => DepAt(l, s, i) = Header
<1> DEFINE deps == files[l].props[s].deps
           n    == Len(deps)
<1>1. PICK q \in Packages : Prop(l, s) = Stored(q)
  BY PropIsStored
<1>2. /\ deps \in Seq(Ids) /\ n \in Nat /\ n <= MaxDeps /\ MaxDeps \in Nat
  BY <1>1, FileFacts, StoredFacts, DbFacts DEF Prop
<1> HIDE DEF deps
<1>3. \A i \in 1 .. n : deps[i] \in Ids
  BY <1>2
<1>4. \A i : DepAt(l, s, i) = CASE i <= n                       -> deps[i]
                               [] i > n /\ i <= MaxDeps       -> NoId
                               [] i > n /\ i = MaxDeps + 1    -> NextId(l, s)
                               [] OTHER                       -> Header
  BY DEF DepAt, deps
<1>5. \A i \in 1 .. n : DepAt(l, s, i) = deps[i]
  BY <1>2, <1>4
<1>6. \A i \in Nat : n < i /\ i <= MaxDeps => DepAt(l, s, i) = NoId
  BY <1>2, <1>4
<1>7. DepAt(l, s, MaxDeps + 1) = NextId(l, s)
  BY <1>2, <1>4
<1>8. \A i \in Nat : i > MaxDeps + 1 => DepAt(l, s, i) = Header
  BY <1>2, <1>4
<1>9. NextId(l, s) # NoId => \E t \in Slots(l) : Prop(l, t).id = NextId(l, s)
  <2>1. Slots(l) = 1 .. Len(files[l].props) /\ Len(files[l].props) \in Nat
    BY FileFacts
  <2>2. s < Len(files[l].props) => s + 1 \in Slots(l)
    BY <2>1
  <2> QED  BY <2>2 DEF NextId, Prop
<1> QED  BY <1>2, <1>3, <1>5, <1>6, <1>7, <1>8, <1>9 DEF Prop, deps

(* A frame that is past some dependencies, all of which were found, is at  *)
(* the next of those stored, or right behind them; or, where they fill the *)
(* list, it may read on.                                                   *)
LEMMA AtDep ==
  ASSUME DbTypeOK, StoredInv, NEW l \in Locations, NEW s \in Slots(l), Prop(l, s).id # NoId,
         NEW dep \in Nat \ {0}, \A i \in 1 .. dep - 1 : DepAt(l, s, i) # NoId
  PROVE  LET n == Len(Prop(l, s).deps)
         IN  /\ DepAt(l, s, dep) = NoId => dep = n + 1
             /\ DepAt(l, s, dep) # NoId =>
                  \/ dep \in 1 .. n
                  \/ n = MaxDeps /\ \E t \in Slots(l) : Prop(l, t).id = DepAt(l, s, dep)
                  \/ n = MaxDeps /\ DepAt(l, s, dep) = Header
<1> DEFINE n == Len(Prop(l, s).deps)
<1>1. /\ n \in Nat /\ n <= MaxDeps /\ MaxDeps \in Nat
      /\ \A i \in 1 .. n : DepAt(l, s, i) \in Ids
      /\ \A i \in Nat : n < i /\ i <= MaxDeps => DepAt(l, s, i) = NoId
      /\ DepAt(l, s, MaxDeps + 1) # NoId =>
           \E t \in Slots(l) : Prop(l, t).id = DepAt(l, s, MaxDeps + 1)
      /\ \A i \in Nat : i > MaxDeps + 1 => DepAt(l, s, i) = Header
  BY DepAtFacts, DbFacts
<1> HIDE DEF n
<1>2. NoId \notin Ids /\ Header # NoId
  BY DbFacts
<1>3. n < MaxDeps => dep <= n + 1
  <2> SUFFICES ASSUME n < MaxDeps, dep > n + 1 PROVE FALSE
    BY <1>1
  <2>1. n + 1 \in 1 .. dep - 1 /\ n + 1 \in Nat /\ n < n + 1 /\ n + 1 <= MaxDeps
    BY <1>1
  <2> QED  BY <1>1, <2>1
<1>4. ASSUME DepAt(l, s, dep) = NoId
      PROVE  dep = n + 1
  <2>1. dep \notin 1 .. n
    BY <1>1, <1>2, <1>4
  <2>2. ~(dep > MaxDeps + 1)
    BY <1>1, <1>2, <1>4
  <2> QED  BY <1>1, <1>3, <2>1, <2>2
<1>5. ASSUME DepAt(l, s, dep) # NoId, dep \notin 1 .. n
      PROVE  \/ n = MaxDeps /\ \E t \in Slots(l) : Prop(l, t).id = DepAt(l, s, dep)
             \/ n = MaxDeps /\ DepAt(l, s, dep) = Header
  <2>1. dep > MaxDeps
    BY <1>1, <1>5
  <2>2. n = MaxDeps
    BY <1>1, <1>3, <2>1
  <2>3. dep = MaxDeps + 1 \/ dep > MaxDeps + 1
    BY <1>1, <2>1
  <2> QED  BY <1>1, <1>5, <2>2, <2>3
<1> QED  BY <1>4, <1>5 DEF n

LEMMA RunningFacts ==
  ASSUME DbInv, Running
  PROVE  /\ lookup \in Lookup /\ lookup.name \in Ids /\ lookup.name # NoId
         /\ lookup.at \in 1 .. Len(pkgDbs) /\ Here \in Locations
         /\ Frames(Here, lookup) /\ Needed(Here, lookup) /\ Parts(Here, lookup)
         /\ \A k \in 1 .. lookup.at - 1 : Misses(pkgDbs[k].loc, lookup.name)
         /\ ~closing /\ creating = Nowhere
<1>1. lookup \in Lookup
  BY DEF DbInv, DbTypeOK
<1>2. lookup.status # "none"
  BY DEF Running
<1>3. ~closing /\ creating = Nowhere
  BY <1>2, LookupTypes DEF DbInv, ProcInv
<1> QED  BY <1>1, <1>2, <1>3, EntryFacts, DbFacts DEF DbInv, LookupInv, Running, Here

(* A step of the lookup within a database. *)
LEMMA LookupStep ==
  ASSUME DbInv, Running, NEW l \in Locations, l = Here, NEW lk \in Lookup, lookup' = lk,
         lk.name = lookup.name, lk.at = lookup.at,
         lk.status = "running" => Frames(l, lk) /\ Needed(l, lk),
         Parts(l, lk),
         \/ lk.status = "running"
         \/ lk.status = "found" /\ \E p \in lk.parts : p.id = lk.name,
         UNCHANGED <<files, proc, pkgDbs, creating, closing, error, errHint, promised, torn>>
  PROVE  DbInv'
<1>1. SameProps
  BY DEF SameProps
<1>2. StoredInv' /\ QueueInv'
  BY <1>1, SameWriting, SameStored, SameQueue DEF DbInv
<1>3. DbTypeOK' /\ ProcInv'
  BY RunningFacts DEF DbInv, DbTypeOK, ProcInv, Running
<1>4. LookupInv'
  <2>1. Here' = l
    BY DEF Here
  <2>2. /\ Frames(l, lk)' = Frames(l, lk)
        /\ Needed(l, lk)' = Needed(l, lk)
        /\ Parts(l, lk)' = Parts(l, lk)
    BY <1>1, SameTree
  <2>3. /\ Frames(Here, lookup)' = Frames(l, lk)'
        /\ Needed(Here, lookup)' = Needed(l, lk)'
        /\ Parts(Here, lookup)' = Parts(l, lk)'
    BY <2>1 DEF Frames, Needed, Parts
  <2>4. \A m, n : Misses(m, n)' <=> Misses(m, n)
    BY DEF Misses, Simple, Serves
  <2>5. /\ lookup.name \in Ids /\ lookup.at \in 1 .. Len(pkgDbs)
        /\ \A k \in 1 .. lookup.at - 1 : Misses(pkgDbs[k].loc, lookup.name)
    BY RunningFacts
  <2> QED  BY <2>1, <2>2, <2>3, <2>4, <2>5 DEF LookupInv
<1> QED  BY <1>2, <1>3, <1>4 DEF DbInv

LEMMA TopFacts ==
  ASSUME DbInv, Running, Depth > 0
  PROVE  /\ Depth \in 1 .. Len(lookup.stack) /\ Depth = Len(lookup.stack)
         /\ Top = lookup.stack[Depth] /\ Top \in Frame
         /\ Top.slot \in Counted(Here) /\ Top.slot \in Slots(Here)
         /\ Prop(Here, Top.slot).id \in Ids
         /\ Prop(Here, Top.slot).id # NoId
         /\ Top.dep \in Nat \ {0}
         /\ \A i \in 1 .. Top.dep - 1 :
              /\ DepAt(Here, Top.slot, i) # NoId
              /\ \E p \in lookup.parts : p.id = DepAt(Here, Top.slot, i)
         /\ TopDep = DepAt(Here, Top.slot, Top.dep)
<1>1. lookup.stack \in Seq(Frame) /\ Len(lookup.stack) \in Nat
  BY RunningFacts, LookupTypes
<1>2. Depth \in 1 .. Len(lookup.stack) /\ Depth = Len(lookup.stack) /\ Top = lookup.stack[Depth]
      /\ Top \in Frame
  BY <1>1 DEF Depth, Top
<1>3. Top.dep \in Nat \ {0}
  BY <1>2 DEF Frame
<1>4. Frames(Here, lookup)
  BY RunningFacts
<1>5. /\ Top.slot \in Counted(Here) /\ IdOf(Here, Top) \in Ids
      /\ \A i \in 1 .. Top.dep - 1 :
           /\ DepAt(Here, Top.slot, i) # NoId
           /\ \E p \in lookup.parts : p.id = DepAt(Here, Top.slot, i)
  BY <1>2, <1>4 DEF Frames
<1>6. Top.slot \in Slots(Here)
  BY <1>5 DEF Counted
<1> QED  BY <1>2, <1>3, <1>5, <1>6, DbFacts DEF IdOf, TopDep

(* A set of packages that serves the name has the dependency looked up.    *)
LEMMA NeededDep ==
  ASSUME DbInv, Running, Depth > 0, TopDep # NoId, Here \notin torn,
         NEW S \in SUBSET {p \in promised[Here] : ~Full(p)}, Serves(S, lookup.name)
  PROVE  \E q \in S : q.id = TopDep
<1>1. PICK l \in Locations \ torn : l = Here
  BY RunningFacts
<1>2. PICK s \in Slots(l) : s = Top.slot
  BY <1>1, TopFacts
<1>3. PICK p \in S : p.id = Prop(l, s).id
  BY <1>1, <1>2, RunningFacts, TopFacts DEF Needed, IdOf
<1>4. p \in promised[l] /\ ~Full(p) /\ p \in Packages
  BY <1>1, FileFacts DEF DbInv
<1>5. Prop(l, s).id # NoId
  BY <1>1, <1>2, TopFacts
<1>6. Prop(l, s) = Stored(p)
  BY <1>3, <1>4, <1>5, RunningFacts, PropIsPromised DEF DbInv
<1>7. Len(Prop(l, s).deps) # MaxDeps
  BY <1>4, <1>6, StoredFacts
<1>8. Top.dep \in 1 .. Len(Prop(l, s).deps)
  BY <1>1, <1>2, <1>5, <1>7, TopFacts, AtDep DEF DbInv
<1>9. TopDep = Stored(p).deps[Top.dep]
  BY <1>1, <1>2, <1>5, <1>6, <1>8, TopFacts, DepAtFacts DEF DbInv
<1>10. TopDep \in FirstDeps(p)
  BY <1>4, <1>6, <1>8, <1>9, StoredFacts
<1> QED  BY <1>10 DEF Serves

(* pkgDbFindPackage is entered, for the package or for a dependency.       *)
LEMMA EntersInv ==
  ASSUME DbInv, Running, NEW s \in Counted(Here), Prop(Here, s).id \in Ids, Enters(s),
         IF Depth = 0 THEN Prop(Here, s).id = lookup.name ELSE Prop(Here, s).id = TopDep,
         UNCHANGED <<files, proc, pkgDbs, creating, closing, error, errHint, promised, torn>>
  PROVE  DbInv'
<1>1. PICK l \in Locations : l = Here
  BY RunningFacts
<1>2. PICK new : new = [slot |-> s, dep |-> 1]
  OBVIOUS
<1>3. new \in Frame /\ new.slot = s /\ new.dep = 1
  <2>1. s \in Nat \ {0}
    BY <1>1, FileFacts DEF DbInv, Counted
  <2> QED  BY <1>2, <2>1 DEF Frame
<1>4. /\ lookup \in Lookup /\ lookup.stack \in Seq(Frame)
      /\ Depth = Len(lookup.stack) /\ Depth \in Nat
  BY RunningFacts, LookupTypes DEF Depth
<1>5. PICK stack : stack = Append(lookup.stack, new)
  OBVIOUS
<1>6. /\ stack \in Seq(Frame) /\ Len(stack) = Depth + 1 /\ stack[Depth + 1] = new
      /\ \A j \in 1 .. Depth : stack[j] = lookup.stack[j]
  BY <1>3, <1>4, <1>5
<1>7. PICK lk : lk = [lookup EXCEPT !.stack = stack]
  OBVIOUS
<1>8. /\ lk \in Lookup /\ lookup' = lk /\ lk.stack = stack /\ lk.name = lookup.name
      /\ lk.at = lookup.at /\ lk.status = lookup.status /\ lk.parts = lookup.parts
  BY <1>2, <1>4, <1>5, <1>6, <1>7 DEF Enters, Lookup
<1>9. Frames(l, lookup) /\ Needed(l, lookup) /\ Parts(l, lookup)
  BY <1>1, RunningFacts
<1>10. Frames(l, lk)
  <2> SUFFICES ASSUME NEW j \in 1 .. Len(stack)
               PROVE  /\ stack[j].slot \in Counted(l) /\ IdOf(l, stack[j]) \in Ids
                      /\ j = 1 => IdOf(l, stack[j]) = lk.name
                      /\ j > 1 => IdOf(l, stack[j]) = DepAt(l, stack[j - 1].slot, stack[j - 1].dep)
                      /\ \A i \in 1 .. stack[j].dep - 1 :
                           /\ DepAt(l, stack[j].slot, i) # NoId
                           /\ \E p \in lk.parts : p.id = DepAt(l, stack[j].slot, i)
    BY <1>8 DEF Frames
  <2>1. CASE j \in 1 .. Depth
    <3>1. stack[j] = lookup.stack[j] /\ (j > 1 => stack[j - 1] = lookup.stack[j - 1])
      BY <1>4, <1>6, <2>1
    <3> QED  BY <1>4, <1>8, <1>9, <2>1, <3>1 DEF Frames
  <2>2. CASE j = Depth + 1
    <3>1. stack[j] = new /\ IdOf(l, stack[j]) = Prop(l, s).id
      BY <1>3, <1>6, <2>2 DEF IdOf
    <3>2. j = 1 => IdOf(l, stack[j]) = lk.name
      BY <1>1, <1>4, <1>8, <2>2, <3>1
    <3>3. j > 1 => IdOf(l, stack[j]) = DepAt(l, stack[j - 1].slot, stack[j - 1].dep)
      <4> SUFFICES ASSUME j > 1 PROVE IdOf(l, stack[j]) = DepAt(l, stack[j - 1].slot, stack[j - 1].dep)
        OBVIOUS
      <4>1. Depth > 0 /\ j - 1 = Depth
        BY <1>4, <2>2
      <4>2. stack[j - 1] = Top
        BY <1>4, <1>6, <4>1 DEF Top
      <4> QED  BY <1>1, <1>4, <3>1, <4>1, <4>2, TopFacts
    <3> QED  BY <1>1, <1>3, <3>1, <3>2, <3>3
  <2> QED  BY <1>4, <1>6, <2>1, <2>2
<1>11. Needed(l, lk)
  <2> SUFFICES ASSUME l \notin torn,
                      NEW S \in SUBSET {p \in promised[l] : ~Full(p)}, Serves(S, lk.name),
                      NEW j \in 1 .. Len(stack)
               PROVE  \E p \in S : p.id = IdOf(l, stack[j])
    BY <1>8 DEF Needed
  <2>1. CASE j \in 1 .. Depth
    BY <1>4, <1>6, <1>8, <1>9, <2>1 DEF Needed
  <2>2. CASE j = Depth + 1
    <3>1. IdOf(l, stack[j]) = Prop(l, s).id
      BY <1>3, <1>6, <2>2 DEF IdOf
    <3>2. CASE Depth = 0
      BY <1>1, <1>8, <3>1, <3>2 DEF Serves
    <3>3. CASE Depth # 0
      <4>1. Depth > 0 /\ TopDep # NoId
        BY <1>1, <1>4, <3>3, DbFacts
      <4> QED  BY <1>1, <1>8, <3>1, <3>3, <4>1, NeededDep
    <3> QED  BY <3>2, <3>3
  <2> QED  BY <1>4, <1>6, <2>1, <2>2
<1>12. Parts(l, lk)
  BY <1>8, <1>9 DEF Parts
<1> QED  BY <1>1, <1>8, <1>10, <1>11, <1>12, LookupStep DEF Running

LEMMA FindDepInv == DbInv /\ FindDep => DbInv'
<1> SUFFICES ASSUME DbInv, FindDep PROVE DbInv'
  OBVIOUS
<1>1. Running /\ Depth > 0 /\ TopDep # NoId /\ SlotOf(Here, TopDep) # 0 /\ Here \in Locations
  BY RunningFacts DEF FindDep
<1>2. PICK s : s = SlotOf(Here, TopDep)
  OBVIOUS
<1>3. s \in Counted(Here) /\ Prop(Here, s).id = TopDep
  BY <1>1, <1>2, RunningFacts, SlotOfFacts DEF DbInv
<1>4. Prop(Here, s).id \in Ids
  BY <1>1, <1>3, FileFacts DEF DbInv, Counted
<1> QED  BY <1>1, <1>2, <1>3, <1>4, EntersInv DEF FindDep

(* What is said of a lookup that failed in the last database.              *)
Explains(l, n, e, h) ==
  \/ e = "PKG_NO_EXIST" /\ \A p \in promised[l] : p.id # n
  \/ /\ e = "BROKEN_DEP"
     /\ \E p \in promised[l] :
          /\ p.id = h[1]
          /\ \/ h[2] \in FirstDeps(p) /\ \A q \in promised[l] : q.id # h[2]
             \/ h[2] = Header /\ Full(p)

(* The lookup goes on in the next database, or ends in the last.           *)
LEMMA NextDbInv ==
  ASSUME DbInv, Running, NextDb, Misses(Here, lookup.name),
         NEW e \in Errors, error' = e, NEW h \in Seq(Ids \cup {Header}), errHint' = h,
         Here \notin torn => Explains(Here, lookup.name, e, h),
         UNCHANGED <<files, proc, pkgDbs, creating, closing, promised, torn>>
  PROVE  DbInv'
<1>1. SameProps
  BY DEF SameProps
<1>2. StoredInv' /\ QueueInv'
  BY <1>1, SameWriting, SameStored, SameQueue DEF DbInv
<1>3. PICK n \in Nat : n = Len(pkgDbs)
  BY EntryFacts DEF DbInv
<1>4. PICK at \in 1 .. n : at = lookup.at
  BY <1>3, RunningFacts
<1>5. /\ lookup \in Lookup /\ lookup.name \in Ids /\ lookup.status = "running"
      /\ \A k \in 1 .. at : Misses(pkgDbs[k].loc, lookup.name)
  BY <1>4, RunningFacts DEF Here, Running
<1>6. \A m, x : Misses(m, x)' <=> Misses(m, x)
  BY DEF Misses, Simple, Serves
<1>7. ProcInv'
  BY RunningFacts DEF ProcInv, Running
<1>8. CASE at < n
  <2>1. PICK lk : lk = [lookup EXCEPT !.at = at + 1, !.stack = <<>>, !.parts = {}]
    OBVIOUS
  <2>2. /\ lk \in Lookup /\ lookup' = lk /\ lk.name = lookup.name /\ lk.at = at + 1
        /\ lk.stack = <<>> /\ lk.parts = {} /\ lk.status = "running"
    <3>1. lookup' = lk
      BY <1>3, <1>4, <1>8, <2>1 DEF NextDb
    <3>2. at + 1 \in Nat /\ <<>> \in Seq(Frame) /\ {} \in SUBSET Package
      BY <1>4
    <3> QED  BY <1>5, <2>1, <3>1, <3>2 DEF Lookup
  <2>3. DbTypeOK'
    BY <2>2 DEF DbInv, DbTypeOK
  <2>4. Frames(Here, lookup)' /\ Needed(Here, lookup)' /\ Parts(Here, lookup)'
    BY <2>2 DEF Frames, Needed, Parts
  <2>5. LookupInv'
    <3>1. at + 1 \in 1 .. n /\ 1 .. (at + 1) - 1 = 1 .. at
      BY <1>4, <1>8
    <3> QED  BY <1>3, <1>5, <1>6, <2>2, <2>4, <3>1 DEF LookupInv
  <2> QED  BY <1>2, <1>7, <2>3, <2>5 DEF DbInv
<1>9. CASE ~(at < n)
  <2>1. PICK lk : lk = [lookup EXCEPT !.status = "null", !.stack = <<>>, !.parts = {}]
    OBVIOUS
  <2>2. /\ lk \in Lookup /\ lookup' = lk /\ lk.name = lookup.name /\ lk.at = at
        /\ lk.status = "null"
    <3>1. lookup' = lk
      BY <1>3, <1>4, <1>9, <2>1 DEF NextDb
    <3>2. <<>> \in Seq(Frame) /\ {} \in SUBSET Package
      OBVIOUS
    <3> QED  BY <1>4, <1>5, <2>1, <3>1, <3>2 DEF Lookup
  <2>3. DbTypeOK'
    BY <2>2 DEF DbInv, DbTypeOK
  <2>4. at = n /\ 1 .. at - 1 \subseteq 1 .. at /\ at \in 1 .. at
    BY <1>4, <1>9
  <2>5. ErrorIsTrue'
    BY <1>3, <1>4, <2>2, <2>4 DEF ErrorIsTrue, LastLoc, Explains, Here
  <2>6. Misses(Here, lookup.name)'
    BY <1>4, <1>6, <2>2 DEF Here
  <2>7. LookupInv'
    BY <1>3, <1>5, <1>6, <2>2, <2>4, <2>5, <2>6 DEF LookupInv
  <2> QED  BY <1>2, <1>7, <2>3, <2>7 DEF DbInv
<1> QED  BY <1>8, <1>9

LEMMA FindTopInv == DbInv /\ FindTop => DbInv'
<1> SUFFICES ASSUME DbInv, FindTop PROVE DbInv'
  OBVIOUS
<1>1. /\ Running /\ Depth = 0 /\ Here \in Locations
      /\ lookup.name \in Ids /\ lookup.name # NoId
  BY RunningFacts DEF FindTop
<1>2. PICK s : s = SlotOf(Here, lookup.name)
  OBVIOUS
<1>3. CASE s # 0 /\ Enters(s) /\ UNCHANGED <<error, errHint>>
  <2>1. s \in Counted(Here) /\ Prop(Here, s).id = lookup.name
    BY <1>1, <1>2, <1>3, RunningFacts, SlotOfFacts DEF DbInv
  <2> QED  BY <1>1, <1>3, <2>1, EntersInv DEF FindTop
<1>4. CASE s = 0 /\ NextDb /\ error' = "PKG_NO_EXIST" /\ UNCHANGED errHint
  <2>1. Here \notin torn => \A q \in promised[Here] : q.id # lookup.name
    BY <1>1, <1>2, <1>4, RunningFacts, SlotOfFacts DEF DbInv
  <2>2. Misses(Here, lookup.name)
    BY <2>1 DEF Misses, Simple, Serves
  <2>3. PICK h \in Seq(Ids \cup {Header}) : h = errHint
    BY DEF DbInv, DbTypeOK
  <2>4. "PKG_NO_EXIST" \in Errors
    BY DEF Errors
  <2>5. Here \notin torn => Explains(Here, lookup.name, "PKG_NO_EXIST", h)
    BY <2>1 DEF Explains
  <2> QED  BY <1>1, <1>4, <2>2, <2>3, <2>4, <2>5, NextDbInv DEF FindTop
<1> QED  BY <1>2, <1>3, <1>4 DEF FindTop

LEMMA FindBrokenInv == DbInv /\ FindBroken => DbInv'
<1> SUFFICES ASSUME DbInv, FindBroken PROVE DbInv'
  OBVIOUS
<1>1. /\ Running /\ Depth > 0 /\ TopDep # NoId /\ SlotOf(Here, TopDep) = 0 /\ NextDb
      /\ error' = "BROKEN_DEP" /\ errHint' = Hint
  BY DEF FindBroken
<1>2. PICK l \in Locations : l = Here
  BY <1>1, RunningFacts
<1>3. PICK s \in Slots(l) : s = Top.slot
  BY <1>1, <1>2, TopFacts
<1>4. Prop(l, s).id \in Ids /\ Prop(l, s).id # NoId
  BY <1>1, <1>2, <1>3, TopFacts
<1>5. TopDep = DepAt(l, s, Top.dep)
  BY <1>1, <1>2, <1>3, TopFacts
<1>6. \/ Top.dep \in 1 .. Len(Prop(l, s).deps)
      \/ Len(Prop(l, s).deps) = MaxDeps /\ \E x \in Slots(l) : Prop(l, x).id = TopDep
      \/ Len(Prop(l, s).deps) = MaxDeps /\ TopDep = Header
  BY <1>1, <1>2, <1>3, <1>4, <1>5, TopFacts, AtDep DEF DbInv
<1>7. Top.dep \in 1 .. Len(Prop(l, s).deps) => TopDep = Prop(l, s).deps[Top.dep] /\ TopDep \in Ids
  BY <1>4, <1>5, DepAtFacts DEF DbInv
<1>8. TopDep \in Ids \cup {Header}
  BY <1>1, <1>6, <1>7, FileFacts DEF DbInv
<1>9. l \notin torn => /\ \A x \in Slots(l) : Prop(l, x).id # TopDep
                      /\ \A q \in promised[l] : q.id # TopDep
  BY <1>1, <1>2, RunningFacts, SlotOfFacts DEF DbInv
<1>10. Misses(Here, lookup.name)
  BY <1>1, <1>2, <1>9, NeededDep DEF Misses, Simple
<1>11. PICK h : h = Hint
  OBVIOUS
<1>12. h = <<Prop(l, s).id, TopDep>>
  BY <1>2, <1>3, <1>11 DEF Hint, Prop
<1>13. h \in Seq(Ids \cup {Header}) /\ h[1] = Prop(l, s).id /\ h[2] = TopDep
  BY <1>4, <1>8, <1>12
<1>14. l \notin torn => Explains(l, lookup.name, "BROKEN_DEP", h)
  <2> SUFFICES ASSUME l \notin torn PROVE Explains(l, lookup.name, "BROKEN_DEP", h)
    OBVIOUS
  <2>1. PICK p \in promised[l] : Prop(l, s) = Stored(p)
    BY <1>1, <1>4, RunningFacts, PropIsPromised DEF DbInv
  <2>2. p \in Packages /\ p.id = Prop(l, s).id
    BY <2>1, FileFacts, StoredFacts DEF DbInv
  <2>3. TopDep \in FirstDeps(p) \/ (TopDep = Header /\ Full(p))
    <3>1. CASE Top.dep \in 1 .. Len(Prop(l, s).deps)
      BY <1>7, <2>1, <2>2, <3>1, StoredFacts
    <3>2. CASE Len(Prop(l, s).deps) = MaxDeps /\ TopDep = Header
      BY <2>1, <2>2, <3>2, StoredFacts
    <3> QED  BY <1>6, <1>9, <3>1, <3>2
  <2> QED  BY <1>9, <1>13, <2>2, <2>3 DEF Explains
<1>15. "BROKEN_DEP" \in Errors
  BY DEF Errors
<1> QED  BY <1>1, <1>2, <1>10, <1>11, <1>13, <1>14, <1>15, NextDbInv DEF FindBroken

LEMMA FindReturnsInv == DbInv /\ FindReturns => DbInv'
<1> SUFFICES ASSUME DbInv, FindReturns PROVE DbInv'
  OBVIOUS
<1>1. Running /\ Depth > 0 /\ TopDep = NoId
  BY DEF FindReturns
<1>2. PICK l \in Locations : l = Here
  BY <1>1, RunningFacts
<1>3. PICK s \in Slots(l), d \in Nat \ {0} : s = Top.slot /\ d = Top.dep
  BY <1>1, <1>2, TopFacts
<1>4. s \in Counted(l)
  BY <1>1, <1>2, <1>3, TopFacts
<1>5. PICK part : part = [id |-> Prop(l, s).id, deps |-> [i \in 1 .. d - 1 |-> DepAt(l, s, i)]]
  OBVIOUS
<1>6. PICK rest : rest = SubSeq(lookup.stack, 1, Depth - 1)
  OBVIOUS
<1>7. lookup' = [lookup EXCEPT
                   !.parts = @ \cup {part},
                   !.stack = IF rest = <<>> THEN <<>> ELSE [rest EXCEPT ![Depth - 1].dep = @ + 1],
                   !.status = IF rest = <<>> THEN "found" ELSE @]
  BY <1>2, <1>3, <1>5, <1>6, Zenon DEF FindReturns, Prop
<1>8. /\ Prop(l, s).id \in Ids /\ Prop(l, s).id # NoId
      /\ \A i \in 1 .. d - 1 : /\ DepAt(l, s, i) # NoId
                              /\ \E p \in lookup.parts : p.id = DepAt(l, s, i)
      /\ DepAt(l, s, d) = NoId
  BY <1>1, <1>2, <1>3, TopFacts
<1>9. d = Len(Prop(l, s).deps) + 1
  BY <1>8, AtDep DEF DbInv
<1>10. part = Prop(l, s) /\ part \in Package /\ DOMAIN part.deps = 1 .. d - 1
      /\ \A i \in 1 .. d - 1 : part.deps[i] = DepAt(l, s, i)
  <2>1. /\ Prop(l, s).deps \in Seq(Ids) /\ Len(Prop(l, s).deps) \in Nat
        /\ Prop(l, s) = [id |-> Prop(l, s).id, deps |-> Prop(l, s).deps]
    BY FileFacts DEF DbInv
  <2>2. \A i \in 1 .. d - 1 : DepAt(l, s, i) = Prop(l, s).deps[i]
    BY <1>8, <1>9, <2>1, DepAtFacts DEF DbInv
  <2>3. DOMAIN Prop(l, s).deps = 1 .. d - 1
    BY <1>9, <2>1
  <2>4. [i \in 1 .. d - 1 |-> DepAt(l, s, i)] = Prop(l, s).deps
    BY <2>1, <2>2, <2>3
  <2>5. part = Prop(l, s)
    BY <1>5, <2>1, <2>4
  <2> QED  BY <1>8, <2>1, <2>2, <2>3, <2>5 DEF Package
<1>11. /\ lookup \in Lookup /\ lookup.stack \in Seq(Frame)
       /\ Depth = Len(lookup.stack) /\ Depth \in Nat /\ lookup.parts \subseteq Package
  BY <1>1, RunningFacts, LookupTypes DEF Depth
<1>12. PICK parts : parts = lookup.parts \cup {part}
  OBVIOUS
<1>13. Frames(l, lookup) /\ Needed(l, lookup) /\ Parts(l, lookup) /\ lookup.status = "running"
  BY <1>1, <1>2, RunningFacts DEF Running
<1>14. /\ rest \in Seq(Frame) /\ Len(rest) = Depth - 1
       /\ \A j \in 1 .. Depth - 1 : rest[j] = lookup.stack[j]
  BY <1>1, <1>6, <1>11
<1>15. ASSUME NEW lk, lk.parts = parts
       PROVE  Parts(l, lk)
  <2>1. ASSUME NEW p \in parts
        PROVE  /\ \E t \in Counted(l) : p = Prop(l, t) /\ p.id # NoId
               /\ \A i \in DOMAIN p.deps : \E q \in parts : q.id = p.deps[i]
    <3>1. CASE p \in lookup.parts
      BY <1>12, <1>13, <3>1 DEF Parts
    <3>2. CASE p = part
      BY <1>4, <1>8, <1>10, <1>12, <3>2
    <3> QED  BY <1>12, <3>1, <3>2
  <2> QED  BY <1>15, <2>1 DEF Parts
<1>16. CASE rest = <<>>
  <2>1. Depth = 1
    BY <1>1, <1>11, <1>14, <1>16
  <2>2. PICK lk : lk = [lookup EXCEPT !.parts = parts, !.stack = <<>>, !.status = "found"]
    OBVIOUS
  <2>3. /\ lk \in Lookup /\ lookup' = lk /\ lk.name = lookup.name /\ lk.at = lookup.at
        /\ lk.parts = parts /\ lk.status = "found"
    <3>1. lookup' = lk
      BY <1>7, <1>12, <1>16, <2>2
    <3>2. <<>> \in Seq(Frame) /\ parts \in SUBSET Package
      BY <1>10, <1>11, <1>12
    <3> QED  BY <1>11, <2>2, <3>1, <3>2 DEF Lookup
  <2>4. part.id = lookup.name /\ part \in parts
    <3>1. IdOf(l, Top) = lookup.name
      BY <1>1, <1>11, <1>13, <2>1 DEF Frames, Top
    <3> QED  BY <1>3, <1>10, <1>12, <3>1 DEF IdOf
  <2> QED  BY <1>1, <1>2, <1>15, <2>3, <2>4, LookupStep DEF FindReturns
<1>17. CASE rest # <<>>
  <2>1. Depth - 1 \in 1 .. Depth - 1 /\ Depth > 1
    BY <1>1, <1>11, <1>14, <1>17
  <2>2. PICK below \in Frame : below = rest[Depth - 1] /\ below = lookup.stack[Depth - 1]
    BY <1>14, <2>1
  <2>3. PICK up : up = [below EXCEPT !.dep = below.dep + 1]
    OBVIOUS
  <2>4. /\ up \in Frame /\ up.slot = below.slot /\ up.dep = below.dep + 1
        /\ below.dep \in Nat \ {0}
    BY <2>3 DEF Frame
  <2>5. PICK stack : stack = [rest EXCEPT ![Depth - 1] = up]
    OBVIOUS
  <2>6. /\ stack \in Seq(Frame) /\ Len(stack) = Depth - 1
        /\ \A j \in 1 .. Depth - 1 : stack[j] = IF j = Depth - 1 THEN up ELSE lookup.stack[j]
    BY <1>14, <2>1, <2>4, <2>5
  <2>7. PICK lk : lk = [lookup EXCEPT !.parts = parts, !.stack = stack]
    OBVIOUS
  <2>8. /\ lk \in Lookup /\ lookup' = lk /\ lk.name = lookup.name /\ lk.at = lookup.at
        /\ lk.parts = parts /\ lk.stack = stack /\ lk.status = "running"
    <3>1. [rest EXCEPT ![Depth - 1].dep = @ + 1] = stack
      BY <1>14, <2>1, <2>2, <2>3, <2>5
    <3>2. lookup' = lk
      BY <1>7, <1>11, <1>12, <1>13, <1>17, <2>7, <3>1 DEF Lookup
    <3> QED  BY <1>10, <1>11, <1>12, <1>13, <2>6, <2>7, <3>2 DEF Lookup
  <2>9. \A j \in 1 .. Depth - 1 : stack[j].slot = lookup.stack[j].slot
    BY <2>2, <2>4, <2>6
  <2>10. Needed(l, lk)
    <3>1. \A j \in 1 .. Depth - 1 : j \in 1 .. Len(lookup.stack)
      BY <1>11
    <3> QED  BY <1>13, <2>6, <2>8, <2>9, <3>1 DEF Needed, IdOf
  <2>11. Frames(l, lk)
    <3> SUFFICES ASSUME NEW j \in 1 .. Depth - 1
                 PROVE  /\ stack[j].slot \in Counted(l) /\ IdOf(l, stack[j]) \in Ids
                        /\ j = 1 => IdOf(l, stack[j]) = lk.name
                        /\ j > 1 => IdOf(l, stack[j]) = DepAt(l, stack[j - 1].slot, stack[j - 1].dep)
                        /\ \A i \in 1 .. stack[j].dep - 1 :
                             /\ DepAt(l, stack[j].slot, i) # NoId
                             /\ \E p \in parts : p.id = DepAt(l, stack[j].slot, i)
      BY <2>6, <2>8 DEF Frames
    <3>1. /\ j \in 1 .. Len(lookup.stack) /\ IdOf(l, stack[j]) = IdOf(l, lookup.stack[j])
          /\ j > 1 => j - 1 \in 1 .. Depth - 1 /\ stack[j - 1] = lookup.stack[j - 1]
      <4>1. j \in 1 .. Len(lookup.stack) /\ (j > 1 => j - 1 \in 1 .. Depth - 1 /\ j - 1 # Depth - 1)
        BY <1>11
      <4>2. IdOf(l, stack[j]) = IdOf(l, lookup.stack[j])
        BY <2>9 DEF IdOf
      <4>3. j > 1 => stack[j - 1] = lookup.stack[j - 1]
        BY <2>6, <4>1
      <4> QED  BY <4>1, <4>2, <4>3
    <3>2. /\ stack[j].slot \in Counted(l) /\ IdOf(l, stack[j]) \in Ids
          /\ j = 1 => IdOf(l, stack[j]) = lk.name
          /\ j > 1 => IdOf(l, stack[j]) = DepAt(l, stack[j - 1].slot, stack[j - 1].dep)
      BY <1>13, <2>8, <2>9, <3>1 DEF Frames
    <3>3. ASSUME NEW i \in 1 .. lookup.stack[j].dep - 1
          PROVE  /\ DepAt(l, stack[j].slot, i) # NoId
                 /\ \E p \in parts : p.id = DepAt(l, stack[j].slot, i)
      BY <1>12, <1>13, <2>9, <3>1 DEF Frames
    <3>4. CASE j # Depth - 1
      <4>1. stack[j].dep = lookup.stack[j].dep
        BY <2>6, <3>4
      <4> QED  BY <3>2, <3>3, <4>1
    <3>5. CASE j = Depth - 1
      <4>1. stack[j].dep = below.dep + 1 /\ lookup.stack[j] = below
        BY <2>2, <2>4, <2>6, <3>5
      <4>2. \A i \in 1 .. stack[j].dep - 1 : i \in 1 .. lookup.stack[j].dep - 1 \/ i = below.dep
        BY <2>4, <4>1
      <4>3. DepAt(l, stack[j].slot, below.dep) = part.id
        <5>1. Depth \in 1 .. Len(lookup.stack) /\ Depth > 1 /\ Top = lookup.stack[Depth]
          BY <1>11, <2>1 DEF Top
        <5>2. IdOf(l, Top) = DepAt(l, below.slot, below.dep)
          BY <1>13, <2>2, <5>1 DEF Frames
        <5> QED  BY <1>3, <1>10, <2>4, <2>6, <3>5, <5>2 DEF IdOf
      <4>4. part.id # NoId /\ part \in parts
        BY <1>8, <1>10, <1>12
      <4> QED  BY <3>2, <3>3, <4>2, <4>3, <4>4
    <3> QED  BY <3>4, <3>5
  <2> QED  BY <1>1, <1>2, <1>15, <2>8, <2>10, <2>11, LookupStep DEF FindReturns
<1> QED  BY <1>16, <1>17

-----------------------------------------------------------------------------
(* Every step.                                                             *)

LEMMA CallInv == DbInv /\ Call => DbInv'
<1> SUFFICES ASSUME DbInv, Call PROVE DbInv'
  OBVIOUS
<1>1. ASSUME NEW l \in Locations, CreateDb(l) PROVE DbInv'
  BY <1>1, CreateDbInv
<1>2. ASSUME NEW l \in Locations, PkgOpenDbFails(l) PROVE DbInv'
  BY <1>2, OpenFailsInv
<1>3. ASSUME NEW l \in Locations, PkgOpenDbDies(l) PROVE DbInv'
  BY <1>3, DiesInv DEF PkgOpenDbDies
<1>4. ASSUME NEW l \in Locations, NEW t \in Types, PkgOpenDb(l, t) PROVE DbInv'
  BY <1>4, OpenInv
<1>5. ASSUME NEW n \in Ids, FindPackage(n) PROVE DbInv'
  BY <1>5, FindPackageInv
<1>6. ASSUME NEW pkg \in Packages, PkgAddPackage(pkg) PROVE DbInv'
  BY <1>6, AddInv
<1>7. ASSUME NEW pkg \in Packages, PkgAddPackageDies(pkg) PROVE DbInv'
  BY <1>7, DiesInv DEF PkgAddPackageDies
<1>8. CallDies => DbInv'
  BY DiesInv DEF CallDies
<1> QED  BY <1>1, <1>2, <1>3, <1>4, <1>5, <1>6, <1>7, <1>8,
            RemoveInv, RemoveAddedInv, CloseDbsInv DEF Call

LEMMA StepInv == DbInv /\ Step => DbInv'
<1>1. DbInv /\ FindDies => DbInv'
  BY DiesInv DEF FindDies
<1>2. DbInv /\ CloseRemoveDies => DbInv'
  BY DiesInv DEF CloseRemoveDies
<1> QED  BY <1>1, <1>2, FindTopInv, FindDepInv, FindBrokenInv, FindReturnsInv,
            CreateStepInv, CloseRemoveInv, CloseAppendInv, CloseAppendFailsInv, CloseDbInv
   DEF Step

-----------------------------------------------------------------------------
(* What the invariant says of a lookup that has returned.                  *)

(* The packages of the database that the tree of the result is made of     *)
(* serve the name.                                                         *)
LEMMA FoundIsComplete ==
  ASSUME DbInv, lookup.status = "found"
  PROVE  (Here \notin torn => Complete(Here, lookup.name)) /\ FoundAsAdded
<1>1. PICK l \in Locations : l = Here
  BY EntryFacts DEF DbInv, LookupInv, Here
<1>2. PICK parts : parts = lookup.parts
  OBVIOUS
<1>3. PICK top \in parts : top.id = lookup.name
  BY <1>2 DEF DbInv, LookupInv
<1>4. ~closing
  BY LookupTypes DEF DbInv, ProcInv
<1>5. ASSUME NEW p \in parts
      PROVE  /\ \E q \in Packages : p = Stored(q) /\ q.id = p.id
             /\ l \notin torn => /\ \E q \in promised[l] : p = Stored(q) /\ q.id = p.id
                                 /\ \A q \in promised[l] : q.id = p.id => p = Stored(q)
             /\ \A i \in DOMAIN p.deps : \E r \in parts : r.id = p.deps[i]
  <2>1. PICK s \in Slots(l) : p = Prop(l, s) /\ Prop(l, s).id # NoId
    BY <1>1, <1>2 DEF DbInv, LookupInv, Parts, Counted
  <2>2. PICK q \in Packages : p = Stored(q)
    BY <2>1, PropIsStored DEF DbInv
  <2>3. q.id = p.id
    BY <2>2, StoredFacts
  <2>4. ASSUME l \notin torn
        PROVE  /\ \E r \in promised[l] : p = Stored(r) /\ r.id = p.id
               /\ \A r \in promised[l] : r.id = p.id => p = Stored(r)
    <3>1. /\ \E r \in promised[l] : p = Stored(r)
          /\ \A r \in promised[l] : r.id = p.id => p = Stored(r)
      BY <1>4, <2>1, <2>4, PropIsPromised DEF DbInv
    <3> QED  BY <3>1, FileFacts, StoredFacts DEF DbInv
  <2>5. \A i \in DOMAIN p.deps : \E r \in parts : r.id = p.deps[i]
    BY <1>1, <1>2 DEF DbInv, LookupInv, Parts
  <2> QED  BY <2>2, <2>3, <2>4, <2>5
<1>6. ASSUME l \notin torn PROVE Complete(l, lookup.name)
  <2>1. PICK S \in SUBSET promised[l] : S = {q \in promised[l] : \E p \in parts : p.id = q.id}
    OBVIOUS
  <2>2. \E q \in S : q.id = lookup.name
    BY <1>3, <1>5, <1>6, <2>1
  <2>3. ASSUME NEW q \in S, NEW d \in FirstDeps(q)
        PROVE  \E r \in S : r.id = d
    <3>1. PICK p \in parts : p.id = q.id /\ p = Stored(q) /\ q \in Packages
      BY <1>5, <1>6, <2>1, FileFacts DEF DbInv
    <3>2. PICK i \in 1 .. Len(p.deps) : d = p.deps[i]
      BY <3>1, StoredFacts
    <3>3. i \in DOMAIN p.deps
      BY <3>1, StoredFacts
    <3>4. PICK part \in parts : part.id = d
      BY <1>5, <3>2, <3>3
    <3> QED  BY <1>5, <1>6, <2>1, <3>4
  <2> QED  BY <2>2, <2>3 DEF Serves, Complete
<1>7. FoundAsAdded
  <2>1. ASSUME NEW p \in parts
        PROVE  \E q \in Kept(l) :
                 /\ q.id = p.id
                 /\ p.deps = SubSeq(q.deps, 1, IF Full(q) THEN MaxDeps ELSE Len(q.deps))
    <3>1. PICK q \in Kept(l) : q \in Packages /\ p = Stored(q) /\ q.id = p.id
      BY <1>5, FileFacts DEF Kept, DbInv
    <3> QED  BY <3>1, StoredFacts
  <2> QED  BY <1>1, <1>2, <1>3, <1>5, <2>1 DEF FoundAsAdded
<1> QED  BY <1>1, <1>6, <1>7

LEMMA FoundInv == DbInv => FoundAsAdded
BY FoundIsComplete DEF FoundAsAdded

LEMMA RightInv == DbInv => LookupIsRight
<1> SUFFICES ASSUME DbInv PROVE LookupIsRight
  OBVIOUS
<1>1. lookup.status = "found" =>
        /\ Here \notin torn => Complete(Here, lookup.name)
        /\ \A k \in 1 .. lookup.at - 1 :
             pkgDbs[k].loc \notin torn => ~Simple(pkgDbs[k].loc, lookup.name)
  BY FoundIsComplete DEF DbInv, LookupInv, Misses
<1>2. ASSUME lookup.status = "null", NEW l \in OpenLocs \ torn
      PROVE  ~Simple(l, lookup.name)
  <2>1. PICK k \in DOMAIN pkgDbs : l = pkgDbs[k].loc
    BY DEF OpenLocs
  <2>2. k \in 1 .. lookup.at - 1 \/ k = lookup.at
    BY <1>2, EntryFacts DEF DbInv, LookupInv
  <2>3. Misses(l, lookup.name)
    BY <1>2, <2>1, <2>2 DEF DbInv, LookupInv, Here
  <2> QED  BY <2>3 DEF Misses
<1> QED  BY <1>1, <1>2 DEF LookupIsRight

LEMMA ErrorInv == DbInv => ErrorIsTrue
BY DEF DbInv, LookupInv, ErrorIsTrue

-----------------------------------------------------------------------------
(* Of the package databases by themselves. *)

LEMMA DbNextInv == DbInv /\ [DbNext]_dbVars => DbInv'
<1>1. DbInv /\ Exit => DbInv'
  BY DiesInv DEF Exit
<1> QED  BY <1>1, BeginInv, CallInv, StepInv, StutterInv DEF DbNext

(* A process that calls the package databases in any order and ends or is  *)
(* killed anywhere, PropDbCreate and PropDbClose included, and the next,   *)
(* is told the truth by PkgFindPackage of every database whose commit was  *)
(* not cut off behind a property: what it finds is in the first database   *)
(* that has all of it, and as it was added; when it finds nothing no       *)
(* database had it, and the error names what is missing.  A write that     *)
(* fails has committed nothing.                                            *)
THEOREM LookupIsTrue == DbSpec => [](LookupIsRight /\ FoundAsAdded /\ ErrorIsTrue)
<1>1. DbInit => DbInv
  BY DbInitInv
<1>2. DbInv /\ [DbNext]_dbVars => DbInv'
  BY DbNextInv
<1>3. DbInv => LookupIsRight /\ FoundAsAdded /\ ErrorIsTrue
  BY RightInv, FoundInv, ErrorInv
<1> QED  BY <1>1, <1>2, <1>3, PTL DEF DbSpec
=============================================================================
