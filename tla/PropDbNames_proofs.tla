-------------------------- MODULE PropDbNames_proofs --------------------------
(***************************************************************************)
(* Proofs about the names in the property database (PropDb): several       *)
(* processes that add and remove, none of which is killed or fails to      *)
(* write, never show a name that is not committed, nor one name twice.     *)
(***************************************************************************)
EXTENDS PropDb_proofs

(* The hypotheses: init has been run, no kills, no failing writes. *)
Undisturbed == Initers = {} /\ Crashable = {} /\ Faulty = {}

-----------------------------------------------------------------------------
(* The invariant.                                                          *)

NameOf(s) == NameAt(slots, strtab, s)

(* The headers in use are in the file, and no two have the same name. *)
FilesNamed ==
  /\ strtab[0] = StrtabHeader
  /\ \A s \in Slots : (slots[s][0].val # 0 => Live(s)) /\ (Live(s) => s < numSlots)
  /\ \A s, t \in Slots : Live(s) /\ Live(t) /\ NameOf(s) = NameOf(t) => s = t

(* The names in the file are committed, or stored by the session that is   *)
(* being closed.                                                           *)
Writing(l) == l \in {"closing", "storing"}
AddedBy(p, n) ==
  Writing(pc[p]) /\ \E i \in 1 .. db[p].added : n = db[p].propsToAdd[i].name

NamesKnown ==
  \A s \in Slots : Live(s) =>
    \/ \E q \in promised : q.name = NameOf(s)
    \/ \E p \in Procs : AddedBy(p, NameOf(s))

(* The queues of a session: what it adds is new, what it removes is where  *)
(* it was found, and nothing is in both.                                   *)
AddsNew(d) ==
  /\ \A i, j \in DOMAIN d.propsToAdd :
       d.propsToAdd[i].name = d.propsToAdd[j].name => i = j
  /\ \A i \in DOMAIN d.propsToAdd, s \in Slots :
       Live(s) /\ i > d.added => d.propsToAdd[i].name # NameOf(s)

RemovesFound(d) ==
  \A j \in DOMAIN d.propsToRm, s \in Slots :
    Live(s) /\ NameOf(s) = d.propsToRm[j].name => s = d.propsToRm[j].slot /\ j > d.removed

QueuesApart(d) ==
  \A i \in DOMAIN d.propsToAdd, j \in DOMAIN d.propsToRm :
    d.propsToAdd[i].name # d.propsToRm[j].name

SessionNames(l, d) ==
  /\ ~d.failed
  /\ l \notin {"open", "closing", "storing", "closed"} => d.propsToRm = <<>>
  /\ l = "open" => \A j \in DOMAIN d.propsToRm : Found(d.propsToRm[j].name)
  /\ l \in {"open", "closing", "storing"} => AddsNew(d) /\ RemovesFound(d) /\ QueuesApart(d)
  /\ l = "storing" => /\ d.removed = Len(d.propsToRm)
                      /\ strtab[d.newId] = d.propsToAdd[d.added + 1].name

NamesInv == FilesNamed /\ NamesKnown /\ \A p \in Procs : SessionNames(pc[p], db[p])

(* What the other invariants say, for a step that is not one of init. *)
SoundInv == TypeInv /\ LockExclusion /\ InitDone /\ StringInv /\ HiddenInv

-----------------------------------------------------------------------------
(* The names of a database that is open. *)
LEMMA FoundIsLive ==
  ASSUME SoundInv, FilesNamed, NEW n \in Names, Found(n)
  PROVE  /\ FindProp(n) \in Slots /\ Live(FindProp(n)) /\ NameOf(FindProp(n)) = n
         /\ FindProp(n) < numSlots
<1>1. /\ Matches(slots, strtab, numProps, n) \subseteq Slots
      /\ Matches(slots, strtab, numProps, n) # {} /\ Slots \subseteq Nat
  BY Sizes DEF Found, Matches, Slots
<1>2. FindProp(n) \in Matches(slots, strtab, numProps, n)
  BY <1>1, FirstOfIn DEF FindProp
<1>3. FindProp(n) \in Slots /\ NameOf(FindProp(n)) = n
  BY <1>2 DEF Matches, NameOf
<1>4. slots[FindProp(n)][0].val # 0
  BY <1>3, FormatAssumption DEF FormatAssumption, FilesNamed, NameOf, NameAt
<1> QED  BY <1>3, <1>4 DEF FilesNamed

LEMMA LiveIsFound ==
  ASSUME SoundInv, FilesNamed, NEW p \in Procs, pc[p] = "open", NEW s \in Slots, Live(s)
  PROVE  Found(NameOf(s))
<1>1. numSlots <= numProps
  BY HiddenParts DEF SoundInv, Covers, HoldPcs, SessionPcs
<1>2. s < numSlots /\ s \in Nat /\ numSlots \in Nat /\ numProps \in Nat
  BY Sizes DEF FilesNamed, Slots, SoundInv, TypeInv, TypeOK
<1>3. s \in Matches(slots, strtab, numProps, NameOf(s))
  BY <1>1, <1>2 DEF Matches, NameOf
<1> QED  BY <1>3 DEF Found

(* A session that is not committing does not depend on the files. *)
LEMMA IdleNames ==
  ASSUME NEW p \in Procs, SessionNames(pc[p], db[p]), ~Committing(p),
         pc'[p] = pc[p], db'[p] = db[p]
  PROVE  SessionNames(pc[p], db[p])'
BY DEF SessionNames, Committing

(* A step of p that changes the files. *)
LEMMA NamesWrite ==
  ASSUME SoundInv, NamesInv, NEW p \in Procs, Committing(p),
         NEW l, NEW d, pc' = [pc EXCEPT ![p] = l], db' = [db EXCEPT ![p] = d],
         SessionNames(l, d)', FilesNamed', NamesKnown'
  PROVE  NamesInv'
<1>a. pc'[p] = l /\ db'[p] = d /\ \A q \in Procs \ {p} : pc'[q] = pc[q] /\ db'[q] = db[q]
  BY DEF SoundInv, TypeInv, TypeOK
<1>1. ASSUME NEW q \in Procs, q # p
      PROVE  SessionNames(pc[q], db[q])'
  BY <1>a, <1>1, IdleNames, OneCommits DEF NamesInv, SoundInv
<1>2. SessionNames(pc[p], db[p])'
  BY <1>a
<1> QED  BY <1>1, <1>2 DEF NamesInv

(* A step of p that only reads them, and is not the end of a session. *)
LEMMA NamesRead ==
  ASSUME SoundInv, NamesInv, NEW p \in Procs,
         NEW l, NEW d, pc' = [pc EXCEPT ![p] = l], db' = [db EXCEPT ![p] = d],
         UNCHANGED <<dbVars, strVars, promised>>, ~Writing(pc[p]), SessionNames(l, d)
  PROVE  NamesInv'
<1>a. pc'[p] = l /\ db'[p] = d /\ \A q \in Procs \ {p} : pc'[q] = pc[q] /\ db'[q] = db[q]
  BY DEF SoundInv, TypeInv, TypeOK
<1>b. UNCHANGED <<slots, numSlots, numProps, strtab>>
  BY DEF dbVars, strVars
<1>1. FilesNamed'
  BY <1>b DEF NamesInv, FilesNamed, NameOf, NameAt, Live
<1>2. NamesKnown'
  <2>1. ASSUME NEW s \in Slots, Live(s)'
        PROVE  \/ \E q \in promised' : q.name = NameOf(s)'
               \/ \E q \in Procs : AddedBy(q, NameOf(s))'
    <3>1. Live(s) /\ NameOf(s)' = NameOf(s)
      BY <1>b, <2>1 DEF Live, NameOf, NameAt
    <3>2. CASE \E q \in promised : q.name = NameOf(s)
      BY <3>1, <3>2
    <3>3. CASE \E q \in Procs : AddedBy(q, NameOf(s))
      <4>1. PICK q \in Procs : AddedBy(q, NameOf(s))
        BY <3>3
      <4>2. q # p
        BY <4>1 DEF AddedBy
      <4> QED  BY <1>a, <3>1, <4>1, <4>2 DEF AddedBy
    <3> QED  BY <3>1, <3>2, <3>3 DEF NamesInv, NamesKnown
  <2> QED  BY <2>1 DEF NamesKnown
<1>3. \A m, e : SessionNames(m, e) => SessionNames(m, e)'
  BY <1>b DEF SessionNames, AddsNew, RemovesFound, QueuesApart, Found, Matches, NameOf,
              NameAt, Live
<1>4. \A q \in Procs : SessionNames(pc[q], db[q])'
  BY <1>a, <1>3 DEF NamesInv
<1> QED  BY <1>1, <1>2, <1>4 DEF NamesInv

LEMMA NoSessionNames == \A l \in {"idle", "leaked"} : SessionNames(l, NoSession)
BY DEF SessionNames, NoSession

LEMMA NamesOpen ==
  ASSUME SoundInv, NamesInv, NEW p \in Procs,
         \/ OpenStat(p) \/ OpenLock(p) \/ OpenMap(p) \/ OpenStrtab(p)
         \/ Leave(p) /\ ~Writing(pc[p]) /\ UNCHANGED <<dbVars, strVars, promised>>
  PROVE  NamesInv'
<1>0. PICK d : d = db[p]
  OBVIOUS
<1>a. /\ pc \in [Procs -> Pcs] /\ db \in [Procs -> Session] /\ d \in Session
      /\ SessionNames(pc[p], d) /\ SessionFits(pc[p], d)
  BY <1>0 DEF SoundInv, TypeInv, TypeOK, NamesInv
<1>1. CASE OpenStat(p)
  <2>1. SessionNames("opening", [NoSession EXCEPT !.sz = StatSize])
    BY DEF SessionNames, NoSession
  <2>2. /\ pc' = [pc EXCEPT ![p] = "opening"] /\ ~Writing(pc[p])
        /\ db' = [db EXCEPT ![p] = [NoSession EXCEPT !.sz = StatSize]]
        /\ UNCHANGED <<dbVars, strVars, promised>>
    BY <1>1 DEF OpenStat, Goto, SetDb, Writing
  <2>3. PICK e : e = [NoSession EXCEPT !.sz = StatSize]
    OBVIOUS
  <2> QED  BY <2>1, <2>2, <2>3, NamesRead
<1>2. CASE OpenLock(p)
  <2>1. /\ pc[p] = "opening" /\ pc' = [pc EXCEPT ![p] = "locked"] /\ ~Writing(pc[p])
        /\ db' = [db EXCEPT ![p] = d] /\ UNCHANGED <<dbVars, strVars, promised>>
    BY <1>0, <1>2, <1>a DEF OpenLock, Goto, Writing
  <2>2. SessionNames("locked", d)
    BY <1>a, <2>1 DEF SessionNames
  <2> QED  BY <2>1, <2>2, NamesRead
<1>3. CASE OpenMap(p)
  <2>0. PICK e : e = [d EXCEPT !.numFreeProps = numFreeProps]
    OBVIOUS
  <2>1. /\ pc[p] = "locked" /\ pc' = [pc EXCEPT ![p] = "open_strtab"] /\ ~Writing(pc[p])
        /\ db' = [db EXCEPT ![p] = e] /\ UNCHANGED <<dbVars, strVars, promised>>
    BY <1>0, <1>3, <1>a, <2>0 DEF OpenMap, Goto, SetDb, Writing
  <2>2. SessionNames("open_strtab", e)
    BY <1>a, <2>0, <2>1 DEF SessionNames, Session
  <2> QED  BY <2>1, <2>2, NamesRead
<1>4. CASE OpenStrtab(p)
  <2>0. PICK e : e = [d EXCEPT !.strtabOff = StrtabEnd, !.strtabMapped = strtabLen > 0]
    OBVIOUS
  <2>1. /\ pc[p] = "open_strtab" /\ pc' = [pc EXCEPT ![p] = "open"] /\ ~Writing(pc[p])
        /\ db' = [db EXCEPT ![p] = e] /\ UNCHANGED <<dbVars, strVars, promised>>
    BY <1>0, <1>4, <1>a, <2>0 DEF OpenStrtab, Goto, SetDb, Writing
  <2>2. e.propsToAdd = <<>> /\ e.propsToRm = <<>> /\ ~e.failed
    BY <1>a, <2>0, <2>1 DEF SessionNames, SessionFits, Session
  <2>3. SessionNames("open", e)
    BY <2>2 DEF SessionNames, AddsNew, RemovesFound, QueuesApart
  <2> QED  BY <2>1, <2>3, NamesRead
<1>5. CASE Leave(p) /\ ~Writing(pc[p]) /\ UNCHANGED <<dbVars, strVars, promised>>
  BY <1>5, NoSessionNames, NamesRead DEF Leave, Goto
<1> QED  BY <1>1, <1>2, <1>3, <1>4, <1>5

-----------------------------------------------------------------------------
(* The calls on an open database queue names of one kind or the other.     *)
LEMMA NamesAdd ==
  ASSUME SoundInv, NamesInv, NEW p \in Procs, AddProp(p)
  PROVE  NamesInv'
<1>0. PICK d : d = db[p]
  OBVIOUS
<1>a. /\ db \in [Procs -> Session] /\ d \in Session /\ FilesNamed
      /\ pc[p] = "open" /\ SessionNames("open", d) /\ d.added = 0
      /\ d.propsToAdd \in Seq(Props) /\ Props \subseteq Prop
  BY <1>0, SessionFields, PropDbAssumption
     DEF SoundInv, TypeInv, TypeOK, NamesInv, AddProp, SessionFits, PropDbAssumption
<1>1. PICK prop \in Props : /\ ~InBatch(p, prop.name) /\ ~Found(prop.name)
                            /\ db' = [db EXCEPT ![p] = [d EXCEPT !.propsToAdd = Append(@, prop)]]
  BY <1>0 DEF AddProp, SetDb
<1>2. PICK e : e = [d EXCEPT !.propsToAdd = Append(@, prop)]
  OBVIOUS
<1>3. /\ e.propsToAdd = Append(d.propsToAdd, prop) /\ e.propsToRm = d.propsToRm
      /\ e.added = 0 /\ e.removed = d.removed /\ e.failed = d.failed
  BY <1>2, <1>a DEF Session
<1>4. PICK n \in Nat : /\ n = Len(d.propsToAdd) /\ DOMAIN d.propsToAdd = 1 .. n
                       /\ DOMAIN e.propsToAdd = 1 .. n + 1
                       /\ \A i \in 1 .. n : e.propsToAdd[i] = d.propsToAdd[i]
                       /\ e.propsToAdd[n + 1] = prop
  BY <1>3, <1>a
<1>5. \A i \in 1 .. n + 1 : i \in 1 .. n \/ i = n + 1
  OBVIOUS
<1>6. \A i \in 1 .. n : d.propsToAdd[i].name # prop.name
  BY <1>0, <1>1, <1>4 DEF InBatch
<1>7. \A s \in Slots : Live(s) => NameOf(s) # prop.name
  BY <1>1, <1>a, LiveIsFound
<1>8. AddsNew(e)
  <2>1. \A i, j \in 1 .. n : d.propsToAdd[i].name = d.propsToAdd[j].name => i = j
    BY <1>4, <1>a DEF SessionNames, AddsNew
  <2>2. ASSUME NEW i \in 1 .. n + 1, NEW j \in 1 .. n + 1,
               e.propsToAdd[i].name = e.propsToAdd[j].name
        PROVE  i = j
    <3>1. CASE i \in 1 .. n /\ j \in 1 .. n
      BY <1>4, <2>1, <2>2, <3>1
    <3>2. CASE i \in 1 .. n /\ j = n + 1
      BY <1>4, <1>6, <2>2, <3>2
    <3>3. CASE i = n + 1 /\ j \in 1 .. n
      BY <1>4, <1>6, <2>2, <3>3
    <3> QED  BY <1>5, <3>1, <3>2, <3>3
  <2>3. ASSUME NEW i \in 1 .. n, NEW s \in Slots, Live(s)
        PROVE  d.propsToAdd[i].name # NameOf(s)
    <3>1. i > d.added
      BY <1>a
    <3> QED  BY <1>4, <1>a, <2>3, <3>1 DEF SessionNames, AddsNew
  <2>4. \A i \in 1 .. n + 1, s \in Slots : Live(s) => e.propsToAdd[i].name # NameOf(s)
    BY <1>4, <1>5, <1>7, <2>3
  <2> QED  BY <1>4, <2>2, <2>4 DEF AddsNew
<1>9. RemovesFound(e)
  BY <1>3, <1>a DEF SessionNames, RemovesFound
<1>10. QueuesApart(e)
  <2>1. \A j \in DOMAIN d.propsToRm : d.propsToRm[j].name # prop.name
    BY <1>1, <1>a DEF SessionNames
  <2>2. \A i \in 1 .. n, j \in DOMAIN d.propsToRm : d.propsToAdd[i].name # d.propsToRm[j].name
    BY <1>4, <1>a DEF SessionNames, QueuesApart
  <2> QED  BY <1>3, <1>4, <1>5, <2>1, <2>2 DEF QueuesApart
<1>11. SessionNames("open", e)
  BY <1>3, <1>8, <1>9, <1>10, <1>a DEF SessionNames
<1>12. /\ pc' = [pc EXCEPT ![p] = "open"] /\ db' = [db EXCEPT ![p] = e] /\ ~Writing(pc[p])
       /\ UNCHANGED <<dbVars, strVars, promised>>
  BY <1>1, <1>2, <1>a DEF AddProp, Writing, SoundInv, TypeInv, TypeOK
<1> QED  BY <1>11, <1>12, NamesRead

LEMMA NamesRemove ==
  ASSUME SoundInv, NamesInv, NEW p \in Procs, RemoveProp(p)
  PROVE  NamesInv'
<1>0. PICK d : d = db[p]
  OBVIOUS
<1>a. /\ db \in [Procs -> Session] /\ d \in Session /\ FilesNamed
      /\ pc[p] = "open" /\ SessionNames("open", d) /\ d.added = 0 /\ d.removed = 0
      /\ d.propsToRm \in Seq(Removal)
  BY <1>0, SessionFields DEF SoundInv, TypeInv, TypeOK, NamesInv, RemoveProp, SessionFits
<1>1. PICK n \in Names :
        /\ Found(n)
        /\ db' = [db EXCEPT ![p] = [d EXCEPT !.propsToRm =
                                      Append(@, [slot |-> FindProp(n), name |-> n])]]
  BY <1>0 DEF RemoveProp, SetDb
<1>r. PICK r : r = [slot |-> FindProp(n), name |-> n]
  OBVIOUS
<1>f. /\ r.slot \in Slots /\ Live(r.slot) /\ NameOf(r.slot) = n /\ r.name = n /\ r \in Removal
  BY <1>1, <1>a, <1>r, FoundIsLive DEF Removal
<1>2. PICK e : e = [d EXCEPT !.propsToRm = Append(@, r)]
  OBVIOUS
<1>3. /\ e.propsToRm = Append(d.propsToRm, r) /\ e.propsToAdd = d.propsToAdd
      /\ e.added = 0 /\ e.removed = 0 /\ e.failed = d.failed
  BY <1>2, <1>a DEF Session
<1>4. PICK m \in Nat : /\ m = Len(d.propsToRm) /\ DOMAIN d.propsToRm = 1 .. m
                       /\ DOMAIN e.propsToRm = 1 .. m + 1
                       /\ \A j \in 1 .. m : e.propsToRm[j] = d.propsToRm[j]
                       /\ e.propsToRm[m + 1] = r
  BY <1>3, <1>a, <1>f
<1>5. \A j \in 1 .. m + 1 : j > 0 /\ (j \in 1 .. m \/ j = m + 1)
  OBVIOUS
<1>6. AddsNew(e)
  BY <1>3, <1>a DEF SessionNames, AddsNew
<1>7. RemovesFound(e)
  <2>1. ASSUME NEW s \in Slots, Live(s), NameOf(s) = n
        PROVE  s = r.slot
    BY <1>a, <1>f, <2>1 DEF FilesNamed
  <2>2. \A j \in 1 .. m, s \in Slots :
          Live(s) /\ NameOf(s) = d.propsToRm[j].name => s = d.propsToRm[j].slot
    BY <1>4, <1>a DEF SessionNames, RemovesFound
  <2> QED  BY <1>3, <1>4, <1>5, <1>f, <2>1, <2>2 DEF RemovesFound
<1>8. QueuesApart(e)
  <2>1. ASSUME NEW i \in DOMAIN d.propsToAdd
        PROVE  d.propsToAdd[i].name # n
    <3>1. i > d.added
      <4>1. DOMAIN d.propsToAdd = 1 .. Len(d.propsToAdd) /\ Len(d.propsToAdd) \in Nat
        BY <1>a, SessionFields
      <4> QED  BY <1>a, <4>1
    <3> QED  BY <1>a, <1>f, <3>1 DEF SessionNames, AddsNew
  <2>2. \A i \in DOMAIN d.propsToAdd, j \in 1 .. m :
          d.propsToAdd[i].name # d.propsToRm[j].name
    BY <1>4, <1>a DEF SessionNames, QueuesApart
  <2> QED  BY <1>3, <1>4, <1>5, <1>f, <2>1, <2>2 DEF QueuesApart
<1>9. SessionNames("open", e)
  <2>1. \A j \in DOMAIN e.propsToRm : Found(e.propsToRm[j].name)
    BY <1>1, <1>4, <1>5, <1>a, <1>f DEF SessionNames
  <2> QED  BY <1>3, <1>6, <1>7, <1>8, <1>a, <2>1 DEF SessionNames
<1>10. /\ pc' = [pc EXCEPT ![p] = "open"] /\ db' = [db EXCEPT ![p] = e] /\ ~Writing(pc[p])
       /\ UNCHANGED <<dbVars, strVars, promised>>
  BY <1>1, <1>2, <1>a, <1>r DEF RemoveProp, Writing, SoundInv, TypeInv, TypeOK
<1> QED  BY <1>9, <1>10, NamesRead

LEMMA NamesBegin ==
  ASSUME SoundInv, NamesInv, NEW p \in Procs, BeginClose(p)
  PROVE  NamesInv'
<1>0. PICK d : d = db[p]
  OBVIOUS
<1>2. PICK e : e = [d EXCEPT !.curEnd = AppendAt(d), !.numProps = numProps]
  OBVIOUS
<1>a. /\ d \in Session /\ pc[p] = "open" /\ SessionNames("open", d)
  BY <1>0 DEF SoundInv, TypeInv, TypeOK, NamesInv, BeginClose
<1>3. /\ e.propsToRm = d.propsToRm /\ e.propsToAdd = d.propsToAdd
      /\ e.added = d.added /\ e.removed = d.removed /\ e.failed = d.failed
  BY <1>2, <1>a DEF Session
<1>4. SessionNames("closing", e)
  BY <1>3, <1>a DEF SessionNames, AddsNew, RemovesFound, QueuesApart
<1>5. /\ pc' = [pc EXCEPT ![p] = "closing"] /\ db' = [db EXCEPT ![p] = e] /\ ~Writing(pc[p])
      /\ UNCHANGED <<dbVars, strVars, promised>>
  BY <1>0, <1>2 DEF BeginClose, Goto, SetDb, Writing
<1> QED  BY <1>4, <1>5, NamesRead

-----------------------------------------------------------------------------
(* PropDbClose. *)

(* While a session is closing, what is in the file is committed or its own *)
(* addition.                                                               *)
LEMMA OwnKnown ==
  ASSUME SoundInv, NamesInv, NEW p \in Procs, Committing(p), NEW s \in Slots, Live(s)
  PROVE  \/ \E q \in promised : q.name = NameOf(s)
         \/ \E i \in 1 .. db[p].added : NameOf(s) = db[p].propsToAdd[i].name
<1>1. ASSUME NEW q \in Procs, AddedBy(q, NameOf(s))
      PROVE  q = p
  BY <1>1, OneCommits DEF AddedBy, Writing, Committing, SoundInv
<1> QED  BY <1>1 DEF NamesInv, NamesKnown, AddedBy

(* Its steps leave what is committed, and add to its own additions. *)
LEMMA KnownAfter ==
  ASSUME SoundInv, NEW p \in Procs, NEW l, NEW d, Writing(l),
         pc' = [pc EXCEPT ![p] = l], db' = [db EXCEPT ![p] = d], UNCHANGED promised,
         \A s \in Slots : Live(s)' =>
           \/ \E q \in promised : q.name = NameOf(s)'
           \/ \E i \in 1 .. d.added : NameOf(s)' = d.propsToAdd[i].name
  PROVE  NamesKnown'
<1>a. pc'[p] = l /\ db'[p] = d
  BY DEF SoundInv, TypeInv, TypeOK
<1>1. ASSUME NEW s \in Slots, NEW i \in 1 .. d.added, NameOf(s)' = d.propsToAdd[i].name
      PROVE  AddedBy(p, NameOf(s))'
  BY <1>a, <1>1 DEF AddedBy
<1> QED  BY <1>1 DEF NamesKnown

LEMMA NamesCloseRemove ==
  ASSUME SoundInv, NamesInv, NEW p \in Procs, CloseRemove(p)
  PROVE  NamesInv'
<1>0. PICK d : d = db[p]
  OBVIOUS
<1>a. /\ db \in [Procs -> Session] /\ d \in Session /\ FilesNamed
      /\ pc[p] = "closing" /\ SessionNames("closing", d) /\ Committing(p)
      /\ slots \in [Slots -> Slot]
  BY <1>0 DEF SoundInv, TypeInv, TypeOK, NamesInv, CloseRemove, Committing
<1>b. /\ d.removed \in Nat /\ Len(d.propsToRm) \in Nat /\ d.removed < Len(d.propsToRm)
      /\ d.propsToRm \in Seq(Removal)
  BY <1>0, <1>a, SessionFields DEF CloseRemove
<1>1. PICK k : k = d.removed + 1
  OBVIOUS
<1>2. PICK t : t = d.propsToRm[k].slot
  OBVIOUS
<1>3. k \in DOMAIN d.propsToRm /\ t \in Slots
  <2>1. PICK n \in Nat : n = Len(d.propsToRm) /\ DOMAIN d.propsToRm = 1 .. n
    BY <1>b
  <2>2. k \in 1 .. n
    BY <1>b, <1>1, <2>1
  <2>3. d.propsToRm[k] \in Removal
    BY <1>b, <2>1, <2>2
  <2> QED  BY <1>2, <2>1, <2>2, <2>3 DEF Removal
<1>4. PICK e : e = [d EXCEPT !.numFreeProps = Freed(@), !.removed = @ + 1]
  OBVIOUS
<1>5. /\ e.propsToRm = d.propsToRm /\ e.propsToAdd = d.propsToAdd
      /\ e.added = d.added /\ e.removed = k /\ e.failed = d.failed
  BY <1>1, <1>4, <1>a DEF Session
<1>6. /\ pc' = [pc EXCEPT ![p] = "closing"] /\ db' = [db EXCEPT ![p] = e]
      /\ UNCHANGED <<numSlots, numProps, strtab, strtabLen, promised>>
      /\ slots' = InFile(ClearHeader(slots, t))
  BY <1>0, <1>1, <1>2, <1>4, <1>a DEF CloseRemove, SetDb, strVars, SoundInv, TypeInv, TypeOK
<1>7. \A s \in Slots : slots'[s][0] = IF s < numSlots /\ s = t THEN ZeroWord ELSE slots[s][0]
  BY <1>3, <1>6, <1>a, ClearHeaderType DEF InFile
<1>8. ZeroWord.val = 0 /\ ZeroWord.type # NNPKG_PROP_TYPE_PKG
  BY DEF ZeroWord, NNPKG_PROP_TYPE_PKG, NNPKG_PROP_TYPE_INVALID
<1>9. \A s \in Slots : Live(s)' => /\ Live(s) /\ s # t /\ NameOf(s)' = NameOf(s)
                                   /\ slots'[s][0] = slots[s][0]
  BY <1>6, <1>7, <1>8, <1>a DEF FilesNamed, Live, NameOf, NameAt
<1>10. FilesNamed'
  <2>1. \A s \in Slots : slots'[s][0].val # 0 => Live(s)'
    BY <1>7, <1>8, <1>a DEF FilesNamed, Live
  <2> QED  BY <1>6, <1>9, <1>a, <2>1 DEF FilesNamed
<1>11. NamesKnown'
  <2>1. ASSUME NEW s \in Slots, Live(s)'
        PROVE  \/ \E q \in promised : q.name = NameOf(s)'
               \/ \E i \in 1 .. e.added : NameOf(s)' = e.propsToAdd[i].name
    BY <1>0, <1>5, <1>9, <1>a, <2>1, OwnKnown
  <2>2. Writing("closing") /\ SoundInv /\ UNCHANGED promised
    BY <1>6 DEF Writing
  <2>3. \A s \in Slots : Live(s)' =>
          \/ \E q \in promised : q.name = NameOf(s)'
          \/ \E i \in 1 .. e.added : NameOf(s)' = e.propsToAdd[i].name
    BY <2>1, <2>2
  <2> QED  BY <1>6, <2>2, <2>3, KnownAfter
<1>12. RemovesFound(e)'
  <2>1. ASSUME NEW j \in DOMAIN d.propsToRm, NEW s \in Slots, Live(s)',
               NameOf(s)' = d.propsToRm[j].name
        PROVE  s = d.propsToRm[j].slot /\ j > k
    <3>1. /\ s = d.propsToRm[j].slot /\ j > d.removed
      BY <1>9, <1>a, <2>1 DEF SessionNames, RemovesFound
    <3>2. j # k /\ j \in Nat
      BY <1>2, <1>9, <1>b, <2>1, <3>1
    <3> QED  BY <1>1, <1>b, <3>1, <3>2
  <2> QED  BY <1>5, <2>1 DEF RemovesFound
<1>13. AddsNew(e)' /\ QueuesApart(e)'
  BY <1>5, <1>9, <1>a DEF SessionNames, AddsNew, QueuesApart
<1>14. SessionNames("closing", e)'
  BY <1>5, <1>12, <1>13, <1>a DEF SessionNames
<1> QED  BY <1>6, <1>10, <1>11, <1>14, <1>a, NamesWrite
(* The name of an entry goes past every name the file refers to. *)
LEMMA AllocatedSame ==
  ASSUME NEW d \in Session
  PROVE  Allocated(d).failed = d.failed
<1>1. AllocProp(d).failed = d.failed
  <2>1. CASE Candidates(d) = {}
    BY <2>1 DEF AllocProp, Session
  <2>2. CASE Candidates(d) # {}
    BY <2>2 DEF AllocProp, Session
  <2> QED  BY <2>1, <2>2
<1>2. \A a : [a EXCEPT !.newId = d.strtabOff, !.strtabOff = NextOff(d.strtabOff)].failed = a.failed
  OBVIOUS
<1> QED  BY <1>1, <1>2 DEF Allocated

LEMMA NamesCloseAlloc ==
  ASSUME SoundInv, NamesInv, NEW p \in Procs, CloseAlloc(p)
  PROVE  NamesInv'
<1>0. PICK d : d = db[p]
  OBVIOUS
<1>00. PICK off : off = d.strtabOff
  OBVIOUS
<1>a. /\ db \in [Procs -> Session] /\ d \in Session /\ FilesNamed
      /\ pc[p] = "closing" /\ SessionNames("closing", d) /\ Committing(p)
      /\ slots \in [Slots -> Slot] /\ numProps \in Nat /\ strtabLen \in Nat
      /\ strtab \in [Cells -> Names \cup {NoString, StrtabHeader}]
      /\ SessionFits("closing", d) /\ d.added # Len(d.propsToAdd)
      /\ d.removed = Len(d.propsToRm)
  BY <1>0 DEF SoundInv, TypeInv, TypeOK, NamesInv, CloseAlloc, AllocPlace, Committing,
              AddsDone, RemovesDone
<1>1. off \in Cells /\ off + 1 \in 0 .. MaxStrs + 1 /\ off = strtabLen /\ off >= 1
  BY <1>0, <1>00, <1>a, AllocatedFits DEF SoundInv, StringInv, FreshStrings
<1>2. PICK e : e = Allocated(d)
  OBVIOUS
<1>3. /\ e.propsToRm = d.propsToRm /\ e.propsToAdd = d.propsToAdd /\ e.newId = off
      /\ e.added = d.added /\ e.removed = d.removed /\ e.failed = d.failed
  BY <1>00, <1>1, <1>2, <1>a, AllocatedType, AllocatedSame
<1>4. /\ pc' = [pc EXCEPT ![p] = "storing"] /\ db' = [db EXCEPT ![p] = e]
      /\ UNCHANGED <<slots, numSlots, promised>>
      /\ strtab' = [strtab EXCEPT ![off] = d.propsToAdd[d.added + 1].name]
  BY <1>0, <1>00, <1>2 DEF CloseAlloc, AllocPlace, Goto, SetDb, dbVars
<1>5. \A s \in Slots : slots[s][0].val \in Cells /\ slots[s][0].val # off
  <2>1. ASSUME NEW s \in Slots
        PROVE  slots[s][0].val \in Cells /\ slots[s][0].val # off
    <3>1. slots[s][0].val \in Cells
      BY <1>a, HeaderType
    <3>2. slots[s][0].val < strtabLen
      BY DEF SoundInv, StringInv, FreshStrings
    <3> QED  BY <1>1, <1>a, <3>1, <3>2 DEF Cells
  <2> QED  BY <2>1
<1>6. /\ \A s \in Slots : Live(s)' = Live(s) /\ NameOf(s)' = NameOf(s)
      /\ strtab'[0] = strtab[0] /\ strtab'[off] = d.propsToAdd[d.added + 1].name
  <2>1. 0 \in Cells /\ off # 0
    BY <1>1, Sizes DEF Cells
  <2> QED  BY <1>1, <1>4, <1>5, <1>a, <2>1 DEF Live, NameOf, NameAt
<1>7. FilesNamed'
  BY <1>4, <1>6, <1>a DEF FilesNamed
<1>8. NamesKnown'
  <2>1. ASSUME NEW s \in Slots, Live(s)'
        PROVE  \/ \E q \in promised : q.name = NameOf(s)'
               \/ \E i \in 1 .. e.added : NameOf(s)' = e.propsToAdd[i].name
    BY <1>0, <1>3, <1>6, <1>a, <2>1, OwnKnown
  <2>2. Writing("storing") /\ SoundInv /\ UNCHANGED promised
    BY <1>4 DEF Writing
  <2>3. \A s \in Slots : Live(s)' =>
          \/ \E q \in promised : q.name = NameOf(s)'
          \/ \E i \in 1 .. e.added : NameOf(s)' = e.propsToAdd[i].name
    BY <2>1
  <2> QED  BY <1>4, <2>2, <2>3, KnownAfter
<1>9. AddsNew(e)' /\ RemovesFound(e)' /\ QueuesApart(e)'
  BY <1>3, <1>6, <1>a DEF SessionNames, AddsNew, RemovesFound, QueuesApart
<1>10. SessionNames("storing", e)'
  BY <1>3, <1>6, <1>9, <1>a DEF SessionNames
<1> QED  BY <1>4, <1>7, <1>8, <1>10, <1>a, NamesWrite

(* An entry is stored under the name it was given. *)
LEMMA NamesCloseStore ==
  ASSUME SoundInv, NamesInv, NEW p \in Procs, CloseAppend(p) \/ CloseReuse(p)
  PROVE  NamesInv'
<1>0. PICK d : d = db[p]
  OBVIOUS
<1>a. /\ db \in [Procs -> Session] /\ d \in Session /\ FilesNamed
      /\ pc[p] = "storing" /\ SessionNames("storing", d) /\ Committing(p)
      /\ slots \in [Slots -> Slot] /\ numSlots \in Nat /\ SessionFits("storing", d)
  BY <1>0 DEF SoundInv, TypeInv, TypeOK, NamesInv, CloseAppend, CloseReuse, Committing
<1>b. PICK n \in Nat : /\ n = Len(d.propsToAdd) /\ DOMAIN d.propsToAdd = 1 .. n
                       /\ d.added \in Nat /\ d.added + 1 \in 1 .. n
  <2>1. ToAdd(d) > 0 /\ d.added \in Nat /\ Len(d.propsToAdd) \in Nat
    BY <1>a, SessionFields DEF SessionFits
  <2>2. DOMAIN d.propsToAdd = 1 .. Len(d.propsToAdd)
    BY <1>a, SessionFields
  <2> QED  BY <2>1, <2>2 DEF ToAdd
<1>1. PICK k : k = d.added + 1
  OBVIOUS
<1>n. PICK nm : nm = d.propsToAdd[k].name
  OBVIOUS
<1>2. PICK e : db' = [db EXCEPT ![p] = e] /\ (e = Counted(d) \/ e = [Counted(d) EXCEPT !.curEnd = @ + 1])
  BY <1>0 DEF CloseAppend, CloseReuse, SetDb
<1>3. /\ e.propsToRm = d.propsToRm /\ e.propsToAdd = d.propsToAdd
      /\ e.added = k /\ e.removed = d.removed /\ e.failed = d.failed
  BY <1>1, <1>2, <1>a DEF Counted, Session
<1>4. /\ pc' = [pc EXCEPT ![p] = "closing"]
      /\ UNCHANGED <<strtab, strtabLen, promised>> /\ numSlots' >= numSlots
  <2>1. d.curEnd \in Nat
    BY <1>a, SessionFields
  <2> QED  BY <1>0, <1>a, <2>1 DEF CloseAppend, CloseReuse, EndStore, Goto, strVars, Larger
<1>5. PICK t \in Nat : \A s \in Slots :
        \/ slots'[s][0] \in {slots[s][0], ZeroWord}
        \/ /\ s = t /\ s < numSlots'
           /\ slots'[s][0] = [val |-> d.newId, type |-> NNPKG_PROP_TYPE_PKG]
  BY <1>0, StoreHeaders DEF SoundInv
<1>6. ZeroWord.val = 0 /\ ZeroWord.type # NNPKG_PROP_TYPE_PKG
  BY DEF ZeroWord, NNPKG_PROP_TYPE_PKG, NNPKG_PROP_TYPE_INVALID
<1>7. strtab[d.newId] = nm
  BY <1>1, <1>n, <1>a DEF SessionNames
<1> DEFINE Old(s) == Live(s) /\ slots'[s][0] = slots[s][0]
           New(s) == s = t /\ s < numSlots' /\ NameOf(s)' = nm
<1>8. \A s \in Slots : Live(s)' => Old(s) \/ New(s)
  <2>1. ASSUME NEW s \in Slots, Live(s)'
        PROVE  Old(s) \/ New(s)
    <3>1. CASE slots'[s][0] = slots[s][0]
      BY <2>1, <3>1 DEF Live
    <3>2. CASE slots'[s][0] = ZeroWord
      BY <1>6, <2>1, <3>2 DEF Live
    <3>3. CASE /\ s = t /\ s < numSlots'
               /\ slots'[s][0] = [val |-> d.newId, type |-> NNPKG_PROP_TYPE_PKG]
      BY <1>4, <1>7, <3>3 DEF NameOf, NameAt
    <3> QED  BY <1>5, <3>1, <3>2, <3>3
  <2> QED  BY <2>1
<1>9. \A s \in Slots : Old(s) => NameOf(s)' = NameOf(s) /\ NameOf(s) # nm /\ s < numSlots'
  <2>1. ASSUME NEW s \in Slots, Old(s)
        PROVE  NameOf(s)' = NameOf(s) /\ NameOf(s) # nm /\ s < numSlots'
    <3>1. NameOf(s)' = NameOf(s)
      BY <1>4, <2>1 DEF NameOf, NameAt
    <3>2. NameOf(s) # nm
      <4>1. k > d.added /\ k \in DOMAIN d.propsToAdd
        BY <1>b, <1>1
      <4> QED  BY <1>a, <1>n, <2>1, <4>1 DEF SessionNames, AddsNew
    <3>3. s < numSlots /\ s \in Nat /\ numSlots' \in Int
      <4>1. numSlots' \in Int
        <5>1. d.curEnd \in Nat
          BY <1>a, SessionFields
        <5> QED  BY <1>0, <1>a, <5>1 DEF CloseAppend, CloseReuse, Larger
      <4> QED  BY <1>a, <2>1, <4>1, Sizes DEF FilesNamed, Slots
    <3> QED  BY <1>4, <1>a, <3>1, <3>2, <3>3
  <2> QED  BY <2>1
<1>10. FilesNamed'
  <2>1. strtab'[0] = StrtabHeader
    BY <1>4, <1>a DEF FilesNamed
  <2>2. \A s \in Slots : slots'[s][0].val # 0 => Live(s)'
    <3>1. ASSUME NEW s \in Slots, slots'[s][0].val # 0
          PROVE  Live(s)'
      <4>1. CASE slots'[s][0] = slots[s][0]
        BY <1>a, <3>1, <4>1 DEF Live, FilesNamed
      <4>2. CASE slots'[s][0] # slots[s][0]
        BY <1>5, <1>6, <3>1, <4>2 DEF Live
      <4> QED  BY <4>1, <4>2
    <3> QED  BY <3>1
  <2>3. \A s \in Slots : Live(s)' => s < numSlots'
    BY <1>8, <1>9
  <2>4. ASSUME NEW s \in Slots, NEW u \in Slots, Live(s)', Live(u)', NameOf(s)' = NameOf(u)'
        PROVE  s = u
    <3>1. CASE Old(s) /\ Old(u)
      BY <1>9, <1>a, <2>4, <3>1 DEF FilesNamed
    <3>2. CASE New(s) /\ New(u)
      BY <3>2
    <3>3. CASE Old(s) /\ New(u)
      BY <1>9, <2>4, <3>3
    <3>4. CASE New(s) /\ Old(u)
      BY <1>9, <2>4, <3>4
    <3> QED  BY <1>8, <2>4, <3>1, <3>2, <3>3, <3>4
  <2> QED  BY <2>1, <2>2, <2>3, <2>4 DEF FilesNamed
<1>11. NamesKnown'
  <2>1. ASSUME NEW s \in Slots, Live(s)'
        PROVE  \/ \E q \in promised : q.name = NameOf(s)'
               \/ \E i \in 1 .. e.added : NameOf(s)' = e.propsToAdd[i].name
    <3>1. CASE New(s)
      <4>1. k \in 1 .. e.added
        BY <1>b, <1>1, <1>3
      <4> QED  BY <1>n, <1>3, <3>1, <4>1
    <3>2. CASE Old(s)
      <4>1. \A i \in 1 .. d.added : i \in 1 .. e.added
        BY <1>b, <1>1, <1>3
      <4> QED  BY <1>0, <1>3, <1>9, <1>a, <3>2, <4>1, OwnKnown
    <3> QED  BY <1>8, <2>1, <3>1, <3>2
  <2>2. Writing("closing") /\ SoundInv /\ UNCHANGED promised
    BY <1>4 DEF Writing
  <2>3. \A s \in Slots : Live(s)' =>
          \/ \E q \in promised : q.name = NameOf(s)'
          \/ \E i \in 1 .. e.added : NameOf(s)' = e.propsToAdd[i].name
    BY <2>1
  <2> QED  BY <1>2, <1>4, <2>2, <2>3, KnownAfter
<1>12. AddsNew(e)'
  <2>1. \A i, j \in DOMAIN e.propsToAdd :
          e.propsToAdd[i].name = e.propsToAdd[j].name => i = j
    BY <1>3, <1>a DEF SessionNames, AddsNew
  <2>2. ASSUME NEW i \in DOMAIN e.propsToAdd, NEW s \in Slots, Live(s)', i > e.added
        PROVE  e.propsToAdd[i].name # NameOf(s)'
    <3>1. i > d.added /\ i # k /\ k \in DOMAIN e.propsToAdd
      BY <1>b, <1>1, <1>3, <2>2
    <3>2. CASE New(s)
      BY <1>3, <1>n, <2>1, <3>1, <3>2
    <3>3. CASE Old(s)
      BY <1>3, <1>9, <1>a, <3>1, <3>3 DEF SessionNames, AddsNew
    <3> QED  BY <1>8, <2>2, <3>2, <3>3
  <2> QED  BY <2>1, <2>2 DEF AddsNew
<1>13. RemovesFound(e)' /\ QueuesApart(e)'
  <2>1. ASSUME NEW j \in DOMAIN e.propsToRm, NEW s \in Slots, Live(s)',
               NameOf(s)' = e.propsToRm[j].name
        PROVE  s = e.propsToRm[j].slot /\ j > e.removed
    <3>1. CASE New(s)
      <4>1. k \in DOMAIN d.propsToAdd
        BY <1>b, <1>1
      <4> QED  BY <1>3, <1>n, <1>a, <2>1, <3>1, <4>1 DEF SessionNames, QueuesApart
    <3>2. CASE Old(s)
      BY <1>3, <1>9, <1>a, <2>1, <3>2 DEF SessionNames, RemovesFound
    <3> QED  BY <1>8, <2>1, <3>1, <3>2
  <2> QED  BY <1>3, <1>a, <2>1 DEF SessionNames, RemovesFound, QueuesApart
<1>14. SessionNames("closing", e)'
  BY <1>3, <1>12, <1>13, <1>a DEF SessionNames
<1> QED  BY <1>2, <1>4, <1>10, <1>11, <1>14, <1>a, NamesWrite
(* With the header the session's additions are committed, and nobody is    *)
(* writing any more.                                                       *)
LEMMA NamesCloseHeader ==
  ASSUME SoundInv, NamesInv, NEW p \in Procs, CloseHeader(p)
  PROVE  NamesInv'
<1>0. PICK d : d = db[p]
  OBVIOUS
<1>a. /\ db \in [Procs -> Session] /\ d \in Session /\ FilesNamed
      /\ pc[p] = "closing" /\ SessionNames("closing", d) /\ Committing(p)
      /\ d.added = Len(d.propsToAdd) /\ d.removed = Len(d.propsToRm)
  BY <1>0 DEF SoundInv, TypeInv, TypeOK, NamesInv, CloseHeader, AddsDone, RemovesDone, Committing
<1>b. /\ \A i \in 1 .. d.added : i \in DOMAIN d.propsToAdd
      /\ \A j \in DOMAIN d.propsToRm : ~(j > d.removed)
  <2>1. /\ DOMAIN d.propsToAdd = 1 .. Len(d.propsToAdd)
        /\ DOMAIN d.propsToRm = 1 .. Len(d.propsToRm) /\ Len(d.propsToRm) \in Nat
    BY <1>a, SessionFields
  <2> QED  BY <1>a, <2>1
<1>1. /\ pc' = [pc EXCEPT ![p] = "closed"] /\ db' = [db EXCEPT ![p] = d]
      /\ UNCHANGED <<slots, numSlots, strtab>>
  BY <1>0, <1>a DEF CloseHeader, Goto, strVars
<1>2. promised' = {q \in promised : \A j \in DOMAIN d.propsToRm : d.propsToRm[j].name # q.name}
                  \cup {d.propsToAdd[i] : i \in DOMAIN d.propsToAdd}
  BY <1>0, <1>a DEF CloseHeader, SessionNames
<1>3. \A s \in Slots : Live(s)' = Live(s) /\ NameOf(s)' = NameOf(s)
  BY <1>1 DEF Live, NameOf, NameAt
<1>4. FilesNamed'
  BY <1>1, <1>3, <1>a DEF FilesNamed
<1>5. NamesKnown'
  <2>1. ASSUME NEW s \in Slots, Live(s)
        PROVE  \E q \in promised' : q.name = NameOf(s)
    <3>1. CASE \E q \in promised : q.name = NameOf(s)
      <4>1. PICK q \in promised : q.name = NameOf(s)
        BY <3>1
      <4>2. \A j \in DOMAIN d.propsToRm : d.propsToRm[j].name # q.name
        BY <1>a, <1>b, <2>1, <4>1 DEF SessionNames, RemovesFound
      <4> QED  BY <1>2, <4>1, <4>2
    <3>2. CASE \E i \in 1 .. d.added : NameOf(s) = d.propsToAdd[i].name
      BY <1>b, <1>2, <3>2
    <3> QED  BY <1>0, <1>a, <2>1, <3>1, <3>2, OwnKnown
  <2> QED  BY <1>3, <2>1 DEF NamesKnown
<1>6. SessionNames("closed", d)'
  BY <1>a DEF SessionNames
<1> QED  BY <1>1, <1>4, <1>5, <1>6, <1>a, NamesWrite

-----------------------------------------------------------------------------
(* Every step. *)
LEMMA NamesStay ==
  ASSUME NamesInv, UNCHANGED vars
  PROVE  NamesInv'
<1>1. UNCHANGED <<slots, numSlots, numProps, strtab, pc, db, promised>>
  BY DEF vars
<1> QED  BY <1>1 DEF NamesInv, FilesNamed, NamesKnown, AddedBy, SessionNames, AddsNew,
                     RemovesFound, QueuesApart, Found, Matches, NameOf, NameAt, Live

LEMMA NamesStep ==
  ASSUME Undisturbed, SoundInv, NamesInv, [Next]_vars
  PROVE  NamesInv'
<1>1. CASE UNCHANGED vars
  BY <1>1, NamesStay
<1>2. ASSUME NEW p \in Procs, StepOf(p)
      PROVE  NamesInv'
  <2>1. /\ ~Create(p) /\ ~OpenStrtabFails(p) /\ ~Crash(p) /\ ~BusError(p)
        /\ ~CloseAllocFails(p) /\ ~CloseAppendFails(p)
    BY NoCreate DEF SoundInv, InitDone, OpenStrtabFails, Undisturbed, Crash, BusError,
                    HeaderMapped, CloseAllocFails, CloseAppendFails
  <2>2. CASE OpenLocked(p) \/ OpenMapDies(p) \/ FindDies(p) \/ CloseUnlock(p) \/ Exit(p)
    <3>1. Leave(p) /\ ~Writing(pc[p]) /\ UNCHANGED <<dbVars, strVars, promised>>
      BY <2>2 DEF OpenLocked, OpenMapDies, FindDies, CloseUnlock, Exit, Writing
    <3> QED  BY <3>1, NamesOpen
  <2> QED
    BY <1>2, <2>1, <2>2, NamesOpen, NamesAdd, NamesRemove, NamesBegin, NamesCloseRemove,
       NamesCloseAlloc, NamesCloseStore, NamesCloseHeader DEF StepOf, Open, Close
<1> QED  BY <1>1, <1>2 DEF Next, StepOf

LEMMA NamesInit ==
  ASSUME Initers = {}, Init
  PROVE  NamesInv
<1>1. \A s \in Slots : slots[s][0] = ZeroWord
  BY Sizes DEF Init, ZeroSlot, Words
<1>2. \A s \in Slots : ~Live(s) /\ slots[s][0].val = 0
  BY <1>1 DEF ZeroWord, Live, NNPKG_PROP_TYPE_PKG, NNPKG_PROP_TYPE_INVALID
<1>3. strtab[0] = StrtabHeader
  BY Sizes DEF Init, NewTable, EmptyTable, Cells
<1>4. \A p \in Procs : SessionNames(pc[p], db[p])
  BY NoSessionNames DEF Init
<1> QED  BY <1>2, <1>3, <1>4 DEF NamesInv, FilesNamed, NamesKnown

LEMMA NamesInvariant ==
  ASSUME Undisturbed
  PROVE  Spec => [](SoundInv /\ NamesInv)
<1>1. Init => NamesInv
  BY NamesInit DEF Undisturbed
<1>2. TypeInv /\ LockExclusion /\ InitDone /\ StringInv /\ HiddenInv /\ NamesInv
        /\ [Next]_vars => NamesInv'
  BY NamesStep DEF SoundInv
<1>3. (Spec => []InitDone) /\ (Spec => []StringInv) /\ (Spec => []HiddenInv)
  BY InitDoneInvariant, StringInvariant, HiddenInvariant DEF Undisturbed
<1> QED  BY <1>1, <1>2, <1>3, TypeInvariant, Exclusion, PTL DEF Spec, SoundInv

-----------------------------------------------------------------------------
(* Whatever the interleaving of processes that add, remove and look up,    *)
(* what a closed database shows was committed and not removed since        *)
(* (tests/propdb.c:113), as long as none is killed and every write reaches *)
(* the file.                                                               *)
THEOREM OnlyCommittedIsFound ==
  ASSUME Undisturbed
  PROVE  Spec => []FoundWasCommitted
<1>1. ASSUME SoundInv, NamesInv, lock = NoProc, NEW n \in Names, Found(n)
      PROVE  \E q \in promised : q.name = n
  <2>1. /\ FindProp(n) \in Slots /\ Live(FindProp(n)) /\ NameOf(FindProp(n)) = n
    BY <1>1, FoundIsLive DEF NamesInv
  <2>2. \A p \in Procs : ~AddedBy(p, n)
    BY <1>1, PropDbAssumption
       DEF SoundInv, LockExclusion, AddedBy, Writing, HoldPcs, SessionPcs, PropDbAssumption
  <2> QED  BY <1>1, <2>1, <2>2 DEF NamesInv, NamesKnown
<1>2. SoundInv /\ NamesInv => FoundWasCommitted
  BY <1>1 DEF FoundWasCommitted
<1> QED  BY <1>2, NamesInvariant, PTL

(* Under the same conditions no two properties of a closed database have   *)
(* one name (pkgdb.c:91): it takes a kill between two steps of a close to  *)
(* break this (the run PropDbOrphan).                                      *)
THEOREM NamesAreDistinct ==
  ASSUME Undisturbed
  PROVE  Spec => []DistinctNames
<1>1. SoundInv /\ NamesInv => DistinctNames
  BY DEF NamesInv, FilesNamed, NameOf, DistinctNames
<1> QED  BY <1>1, NamesInvariant, PTL
=============================================================================
