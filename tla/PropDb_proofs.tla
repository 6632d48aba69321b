---------------------------- MODULE PropDb_proofs ----------------------------
(***************************************************************************)
(* Proofs about the property database engine (PropDb).                     *)
(***************************************************************************)
EXTENDS PropDb, SequenceTheorems, WellFoundedInduction, TLAPS

LEMMA Sizes ==
  W \in Nat \ {0} /\ MaxSlots \in Nat /\ MaxStrs \in Nat
BY FormatAssumption DEF FormatAssumption

USE Sizes

-----------------------------------------------------------------------------
(* The operators of the format.                                            *)

(* A non-empty set of naturals has a first element, and FirstOf is it. *)
LEMMA FirstOfIn ==
  ASSUME NEW S, S \subseteq Nat, S # {}
  PROVE  FirstOf(S) \in S /\ \A y \in S : FirstOf(S) <= y
<1>1. PICK x \in S : \A y \in S : ~(<<y, x>> \in OpToRel(<, Nat))
  BY NatLessThanWellFounded, WFMin, Zenon
<1>2. \A y \in S : ~(y < x)
  <2>1. SUFFICES ASSUME NEW y \in S, y < x PROVE FALSE
    OBVIOUS
  <2>2. <<y, x>> \in OpToRel(<, Nat)
    BY <2>1 DEF OpToRel
  <2> QED  BY <1>1, <2>2, Zenon
<1>3. \A y \in S : x <= y
  BY <1>2
<1> QED  BY <1>3, Zenon DEF FirstOf

LEMMA ZeroTypes == ZeroWord \in Word /\ ZeroSlot \in Slot
BY DEF ZeroWord, ZeroSlot, Word, Slot, Cells, PropTypes,
       NNPKG_PROP_TYPE_INVALID, NNPKG_PROP_TYPE_PKG

LEMMA SerializeType ==
  ASSUME NEW id \in Cells, NEW data \in Data
  PROVE  /\ Serialize(id, data) \in Slot
         /\ Serialize(id, data)[0] = [val |-> id, type |-> NNPKG_PROP_TYPE_PKG]
BY DEF Serialize, Slot, Word, Words, Data, PropTypes, NNPKG_PROP_TYPE_PKG

(* What a store at word pos does to the headers of the slots. *)
LEMMA StoreAtWordType ==
  ASSUME NEW m \in [Slots -> Slot], NEW pos \in Words, NEW image \in Slot
  PROVE  /\ StoreAtWord(m, pos, image) \in [Slots -> Slot]
         /\ \A s \in Slots :
              StoreAtWord(m, pos, image)[s][0] =
                CASE s = 0 /\ pos = 0 -> image[0]
                  [] s = 1 /\ pos # 0 -> ZeroWord
                  [] OTHER -> m[s][0]
<1>1. ASSUME NEW s \in Slots
      PROVE  /\ StoreAtWord(m, pos, image)[s] \in Slot
             /\ StoreAtWord(m, pos, image)[s][0] =
                  CASE s = 0 /\ pos = 0 -> image[0]
                    [] s = 1 /\ pos # 0 -> ZeroWord
                    [] OTHER -> m[s][0]
  <2>1. CASE s = 0
    <3>1. StoreAtWord(m, pos, image)[s] =
            [w \in Words |-> IF w < pos THEN m[0][w] ELSE image[w - pos]]
      BY <2>1 DEF StoreAtWord
    <3>2. \A w \in Words : w >= pos => w - pos \in Words
      BY DEF Words
    <3> QED  BY <2>1, <3>1, <3>2 DEF Slot, Words
  <2>2. CASE s = 1
    <3>1. StoreAtWord(m, pos, image)[s] =
            [w \in Words |-> IF w < pos THEN ZeroWord ELSE m[1][w]]
      BY <2>2 DEF StoreAtWord
    <3> QED  BY <2>2, <3>1, ZeroTypes DEF Slot, Words
  <2>3. CASE s # 0 /\ s # 1
    <3>1. StoreAtWord(m, pos, image)[s] = m[s]
      BY <2>3 DEF StoreAtWord
    <3> QED  BY <2>3, <3>1
  <2> QED  BY <2>1, <2>2, <2>3
<1>2. StoreAtWord(m, pos, image) \in [Slots -> Slot]
  BY <1>1 DEF StoreAtWord
<1> QED  BY <1>1, <1>2

LEMMA ClearHeaderType ==
  ASSUME NEW m \in [Slots -> Slot], NEW s \in Slots
  PROVE  /\ ClearHeader(m, s) \in [Slots -> Slot]
         /\ \A t \in Slots :
              ClearHeader(m, s)[t][0] = IF t = s THEN ZeroWord ELSE m[t][0]
BY ZeroTypes DEF ClearHeader, Slot, Words

LEMMA InFileType ==
  ASSUME slots \in [Slots -> Slot], NEW m \in [Slots -> Slot]
  PROVE  /\ InFile(m) \in [Slots -> Slot]
         /\ \A s \in Slots : InFile(m)[s] \in {m[s], slots[s]}
BY DEF InFile

-----------------------------------------------------------------------------
(* Sessions.                                                               *)

LEMMA NoSessionType == NoSession \in Session /\ SessionFits("idle", NoSession)
<1>1. NoSession \in Session
  BY DEF NoSession, Session, Cells, Words
<1> QED  BY <1>1 DEF SessionFits, NoSession, ToAdd

LEMMA SessionFields ==
  ASSUME NEW d \in Session
  PROVE  /\ d.propsToAdd \in Seq(Props) /\ Len(d.propsToAdd) \in Nat
         /\ d.propsToRm \in Seq(Removal) /\ Len(d.propsToRm) \in Nat
         /\ d.added \in Nat /\ d.removed \in Nat /\ d.numProps \in Nat
         /\ d.numFreeProps \in Nat
         /\ d.sz \in Int /\ d.sz >= -1 /\ d.sz <= MaxSlots
         /\ d.curEnd \in 0 .. MaxSlots
         /\ d.strtabOff \in 0 .. MaxStrs + 1
         /\ d.newId \in Cells
         /\ d.newProp \in Words \cup {-1}
<1>1. /\ d.propsToAdd \in Seq(Props)
      /\ d.propsToRm \in Seq(Removal)
      /\ d.added \in Nat /\ d.removed \in Nat /\ d.numProps \in Nat
      /\ d.numFreeProps \in Nat
      /\ d.sz \in -1 .. MaxSlots
      /\ d.curEnd \in 0 .. MaxSlots
      /\ d.strtabOff \in 0 .. MaxStrs + 1
      /\ d.newId \in Cells
      /\ d.newProp \in Words \cup {-1}
  BY DEF Session
<1>2. Len(d.propsToAdd) \in Nat
  BY <1>1
<1>3. Len(d.propsToRm) \in Nat
  BY <1>1
<1>4. d.sz \in Int /\ d.sz >= -1 /\ d.sz <= MaxSlots
  BY <1>1
<1> QED  BY <1>1, <1>2, <1>3, <1>4

(* propDbAllocProp picks a word of the first slot, or none, and changes    *)
(* nothing of the session but its own bookkeeping.                         *)
LEMMA AllocPropType ==
  ASSUME NEW d \in Session, numProps \in Nat
  PROVE  /\ AllocProp(d) \in Session
         /\ \A f \in {"sz", "curEnd", "strtabOff", "added", "removed",
                      "numProps", "propsToAdd", "propsToRm"} :
              AllocProp(d)[f] = d[f]
<1>1. CASE Candidates(d) = {}
  BY <1>1 DEF AllocProp, Session
<1>2. CASE Candidates(d) # {}
  <2> DEFINE w == FirstOf(Candidates(d))
  <2>1. ScanStart(d) \in Nat /\ ScanLen(d) \in Nat
    BY DEF ScanStart, ScanLen, Session
  <2>2. Candidates(d) \subseteq Nat
    BY DEF Candidates, FreeWords, Words
  <2>3. w \in Candidates(d)
    BY <1>2, <2>2, FirstOfIn
  <2>4. /\ d.numFreeProps \in Nat \ {0}
        /\ w \in Words
        /\ ScanStart(d) <= w /\ w < ScanStart(d) + ScanLen(d)
    BY <2>3 DEF Candidates, FreeWords, Session
  <2>5. /\ d.numFreeProps - 1 \in Nat
        /\ ScanLen(d) - (w - ScanStart(d)) \in Nat
        /\ w + 1 \in Nat
    BY <2>1, <2>4 DEF Words
  <2>6. AllocProp(d) = [d EXCEPT !.newProp = w,
                                 !.numFreeProps = @ - 1,
                                 !.propsLeft = ScanLen(d) - (w - ScanStart(d)),
                                 !.allocMark = w + 1]
    BY <1>2 DEF AllocProp
  <2> DEFINE free == d.numFreeProps - 1
             left == ScanLen(d) - (w - ScanStart(d))
             mark == w + 1
             e    == [d EXCEPT !.newProp = w, !.numFreeProps = free, !.propsLeft = left,
                               !.allocMark = mark]
  <2>7. AllocProp(d) = e
    BY <2>6
  <2> HIDE DEF w, free, left, mark
  <2>8. e \in Session
    BY <2>4, <2>5 DEF Session, free, left, mark
  <2>9. \A f \in {"sz", "curEnd", "strtabOff", "added", "removed", "numProps", "propsToAdd",
                  "propsToRm"} : e[f] = d[f]
    BY DEF Session
  <2> QED  BY <2>7, <2>8, <2>9
<1> QED  BY <1>1, <1>2

-----------------------------------------------------------------------------
(* The type invariant.                                                     *)

SessionsOK ==
  /\ pc \in [Procs -> Pcs] /\ db \in [Procs -> Session]
  /\ \A p \in Procs : SessionFits(pc[p], db[p])

(* A step that moves one process, to a label its session fits. *)
LEMMA MoveFits ==
  ASSUME SessionsOK, NEW p \in Procs,
         NEW l \in Pcs, NEW d \in Session, SessionFits(l, d),
         pc' = [pc EXCEPT ![p] = l], db' = [db EXCEPT ![p] = d]
  PROVE  SessionsOK'
<1>1. \A q \in Procs : (q = p => pc'[q] = l /\ db'[q] = d)
                     /\ (q # p => pc'[q] = pc[q] /\ db'[q] = db[q])
  BY DEF SessionsOK
<1>2. pc' \in [Procs -> Pcs] /\ db' \in [Procs -> Session]
  BY DEF SessionsOK
<1>3. ASSUME NEW q \in Procs PROVE SessionFits(pc'[q], db'[q])
  BY <1>1, <1>3 DEF SessionsOK
<1> QED  BY <1>2, <1>3 DEF SessionsOK

LEMMA StayFits ==
  ASSUME SessionsOK, NEW p \in Procs, NEW l \in Pcs, SessionFits(l, db[p]),
         pc' = [pc EXCEPT ![p] = l], UNCHANGED db
  PROVE  SessionsOK'
<1>1. \A q \in Procs : (q = p => pc'[q] = l) /\ (q # p => pc'[q] = pc[q])
  BY DEF SessionsOK
<1>2. pc' \in [Procs -> Pcs] /\ db' \in [Procs -> Session]
  BY DEF SessionsOK
<1>3. ASSUME NEW q \in Procs PROVE SessionFits(pc'[q], db'[q])
  BY <1>1, <1>3 DEF SessionsOK
<1> QED  BY <1>2, <1>3 DEF SessionsOK

LEMMA HereFits ==
  ASSUME SessionsOK, NEW p \in Procs, NEW d \in Session, SessionFits(pc[p], d),
         UNCHANGED pc, db' = [db EXCEPT ![p] = d]
  PROVE  SessionsOK'
<1>1. \A q \in Procs : (q = p => db'[q] = d) /\ (q # p => db'[q] = db[q])
  BY DEF SessionsOK
<1>2. pc' \in [Procs -> Pcs] /\ db' \in [Procs -> Session]
  BY DEF SessionsOK
<1>3. ASSUME NEW q \in Procs PROVE SessionFits(pc'[q], db'[q])
  BY <1>1, <1>3 DEF SessionsOK
<1> QED  BY <1>2, <1>3 DEF SessionsOK

RestOK == lock \in Procs \cup {NoProc} /\ promised \subseteq Props

LEMMA LeaveFits ==
  ASSUME SessionsOK, RestOK, NEW p \in Procs, Leave(p), UNCHANGED promised
  PROVE  SessionsOK' /\ RestOK'
<1>1. "idle" \in Pcs
  BY DEF Pcs
<1>2. SessionsOK'
  BY <1>1, NoSessionType, MoveFits DEF Leave, Goto
<1> QED  BY <1>2 DEF Leave, RestOK

LEMMA PcsMembers ==
  /\ CreatePcs \subseteq Pcs /\ SessionPcs \subseteq Pcs
  /\ "idle" \in Pcs /\ "opening" \in Pcs /\ "leaked" \in Pcs
BY DEF Pcs, HoldPcs

(* The files keep their types. *)
FilesOK ==
  /\ dbFile \in FileStates /\ strFile \in FileStates
  /\ slots \in [Slots -> Slot]
  /\ numSlots \in 0 .. MaxSlots
  /\ numProps \in Nat /\ numFreeProps \in Nat
  /\ strtab \in [Cells -> Names \cup {NoString, StrtabHeader}]
  /\ strtabLen \in 0 .. MaxStrs + 1

LEMMA TypeInvParts ==
  /\ TypeInv  <=> FilesOK  /\ SessionsOK  /\ RestOK
  /\ TypeInv' <=> FilesOK' /\ SessionsOK' /\ RestOK'
BY DEF TypeInv, TypeOK, FilesOK, SessionsOK, RestOK

LEMMA TypeInvInit == Init => TypeInv
<1> SUFFICES ASSUME Init PROVE TypeInv
  OBVIOUS
<1>1. SessionsOK
  BY NoSessionType, PcsMembers DEF Init, SessionsOK
<1>2. FilesOK
  BY ZeroTypes DEF Init, FilesOK, FileStates, NewTable, EmptyTable, Cells
<1> QED  BY <1>1, <1>2, TypeInvParts DEF Init, RestOK

(* The steps of init leave every session alone. *)
LEMMA TypeInvCreate ==
  ASSUME TypeInv, NEW p \in Procs, Create(p)
  PROVE  TypeInv'
<1>a. SessionsOK /\ FilesOK /\ RestOK
  BY TypeInvParts
<1>b. PICK l \in CreatePcs \cup {"idle"} :
        /\ pc[p] \in CreatePcs \cup {"idle"}
        /\ pc' = [pc EXCEPT ![p] = l]
        /\ UNCHANGED <<lock, db, promised>>
  BY DEF Create, CreateStat, CreatDb, WriteHeader, StrtabStat, CreatStrtab,
         WriteStrtabHeader, Goto, CreatePcs
<1>1. SessionFits(l, db[p])
  BY <1>a, <1>b DEF SessionsOK, SessionFits, CreatePcs
<1>2. SessionsOK'
  BY <1>a, <1>b, <1>1, StayFits, PcsMembers
<1>3. FilesOK'
  <2>1. CASE CreateStat(p)
    BY <1>a, <2>1 DEF CreateStat, FilesOK, dbVars, strVars
  <2>2. CASE CreatDb(p)
      <3>1. UNCHANGED <<strFile, strtab, strtabLen>>
      BY <2>2 DEF CreatDb, strVars
    <3>2. slots' \in [Slots -> Slot]
      BY <2>2, ZeroTypes DEF CreatDb
    <3>3. dbFile' \in FileStates /\ numSlots' \in 0 .. MaxSlots /\ numProps' \in Nat /\ numFreeProps' \in Nat
      BY <2>2 DEF CreatDb, FileStates
    <3> QED BY <1>a, <3>1, <3>2, <3>3 DEF FilesOK
  <2>3. CASE WriteHeader(p)
    BY <1>a, <2>3 DEF WriteHeader, FilesOK, strVars, FileStates
  <2>4. CASE StrtabStat(p)
    BY <1>a, <2>4 DEF StrtabStat, FilesOK, dbVars, strVars
  <2>5. CASE CreatStrtab(p)
    BY <1>a, <2>5 DEF CreatStrtab, FilesOK, dbVars, FileStates, EmptyTable
  <2>6. CASE WriteStrtabHeader(p)
    BY <1>a, <2>6 DEF WriteStrtabHeader, FilesOK, dbVars, FileStates, Larger, Cells
  <2> QED  BY <2>1, <2>2, <2>3, <2>4, <2>5, <2>6 DEF Create
<1> QED  BY <1>a, <1>b, <1>2, <1>3, TypeInvParts DEF RestOK

(* A step that only ends the session of a process. *)
LEMMA TypeInvLeave ==
  ASSUME TypeInv, NEW p \in Procs, Leave(p), UNCHANGED <<dbVars, strVars, promised>>
  PROVE  TypeInv'
<1>1. SessionsOK' /\ RestOK'
  BY LeaveFits, TypeInvParts
<1>2. FilesOK'
  BY TypeInvParts DEF FilesOK, dbVars, strVars
<1> QED  BY <1>1, <1>2, TypeInvParts

LEMMA TypeInvOpen ==
  ASSUME TypeInv, NEW p \in Procs, OpenStat(p) \/ Open(p)
  PROVE  TypeInv'
<1>a. SessionsOK /\ FilesOK /\ RestOK
  BY TypeInvParts
<1>b. db[p] \in Session /\ SessionFits(pc[p], db[p])
  BY <1>a DEF SessionsOK
<1>l. {"opening", "locked", "open_strtab", "open", "leaked"} \subseteq Pcs
  BY PcsMembers DEF SessionPcs
<1>1. CASE OpenStat(p)
  <2> DEFINE d == [NoSession EXCEPT !.sz = StatSize]
  <2>1. StatSize \in -1 .. MaxSlots
    BY <1>a DEF StatSize, FilesOK
  <2>2. d \in Session
    BY <2>1, NoSessionType DEF Session
  <2>3. d.propsToAdd = <<>> /\ d.added = 0 /\ d.removed = 0 /\ d.propsToRm = <<>>
    BY DEF NoSession
  <2>4. SessionFits("opening", d)
    BY <2>3 DEF SessionFits
  <2>5. db' = [db EXCEPT ![p] = d] /\ pc' = [pc EXCEPT ![p] = "opening"]
    BY <1>1 DEF OpenStat, SetDb, Goto
  <2> HIDE DEF d
  <2>6. SessionsOK'
    BY <1>a, <1>l, <2>2, <2>4, <2>5, MoveFits
  <2> QED  BY <1>1, <1>a, <2>6, TypeInvParts DEF OpenStat, RestOK, FilesOK, dbVars, strVars
<1>2. CASE OpenLock(p)
  <2>1. SessionFits("locked", db[p])
    BY <1>2, <1>b DEF SessionFits, OpenLock
  <2>2. SessionsOK'
    BY <1>2, <1>a, <1>l, <2>1, StayFits DEF OpenLock, Goto
  <2> QED  BY <1>2, <1>a, <2>2, TypeInvParts DEF OpenLock, RestOK, FilesOK, dbVars, strVars
<1>3. CASE OpenLocked(p)
  BY <1>3, TypeInvLeave DEF OpenLocked
<1>4. CASE OpenMap(p)
  <2> DEFINE d == [db[p] EXCEPT !.numFreeProps = numFreeProps]
  <2>1. d \in Session
    BY <1>a, <1>b DEF Session, FilesOK
  <2>2. SessionFits("open_strtab", d)
    BY <1>4, <1>b DEF SessionFits, OpenMap, Session
  <2>3. db' = [db EXCEPT ![p] = d] /\ pc' = [pc EXCEPT ![p] = "open_strtab"]
    BY <1>4 DEF OpenMap, SetDb, Goto
  <2> HIDE DEF d
  <2>4. SessionsOK'
    BY <1>a, <1>l, <2>1, <2>2, <2>3, MoveFits
  <2> QED  BY <1>4, <1>a, <2>4, TypeInvParts DEF OpenMap, RestOK, FilesOK, dbVars, strVars
<1>5. CASE OpenMapDies(p)
  BY <1>5, TypeInvLeave DEF OpenMapDies
<1>6. CASE OpenStrtab(p)
  <2> DEFINE d == [db[p] EXCEPT !.strtabOff = StrtabEnd, !.strtabMapped = strtabLen > 0]
  <2>1. d \in Session
    <3>1. strtabLen \in 0 .. MaxStrs + 1 /\ (strtabLen > 0) \in BOOLEAN
      BY <1>a DEF FilesOK
    <3> QED  BY <1>b, <3>1, Zenon DEF Session, StrtabEnd
  <2>2. SessionFits("open", d)
    <3>1. /\ db[p].propsToAdd = <<>> /\ db[p].added = 0 /\ db[p].removed = 0
          /\ db[p].sz \in 0 .. MaxSlots /\ strtabLen \in 0 .. MaxStrs + 1
      BY <1>6, <1>a, <1>b DEF SessionFits, OpenStrtab, Session, FilesOK
    <3>2. /\ d.propsToAdd = <<>> /\ d.added = 0 /\ d.removed = 0
          /\ d.propsToRm = db[p].propsToRm
          /\ d.sz = db[p].sz /\ d.strtabOff = strtabLen
      BY <1>b, <3>1 DEF Session, StrtabEnd
    <3>3. Len(d.propsToRm) \in Nat
      BY <1>b, <3>2 DEF Session
    <3> QED  BY <3>1, <3>2, <3>3 DEF SessionFits, ToAdd
  <2>3. db' = [db EXCEPT ![p] = d] /\ pc' = [pc EXCEPT ![p] = "open"]
    BY <1>6 DEF OpenStrtab, SetDb, Goto
  <2> HIDE DEF d
  <2>4. SessionsOK'
    BY <1>a, <1>l, <2>1, <2>2, <2>3, MoveFits
  <2> QED  BY <1>6, <1>a, <2>4, TypeInvParts DEF OpenStrtab, RestOK, FilesOK, dbVars, strVars
<1>7. CASE OpenStrtabFails(p)
  <2>1. CASE Leave(p)
    BY <1>7, <2>1, TypeInvLeave DEF OpenStrtabFails
  <2>2. CASE Goto(p, "leaked") /\ SetDb(p, NoSession) /\ UNCHANGED lock
    <3>1. SessionFits("leaked", NoSession)
      BY NoSessionType DEF SessionFits
    <3>2. SessionsOK'
      BY <1>a, <1>l, <2>2, <3>1, NoSessionType, MoveFits DEF Goto, SetDb
    <3> QED  BY <1>7, <1>a, <2>2, <3>2, TypeInvParts
             DEF OpenStrtabFails, RestOK, FilesOK, dbVars, strVars
  <2> QED  BY <1>7, <2>1, <2>2 DEF OpenStrtabFails
<1> QED  BY <1>1, <1>2, <1>3, <1>4, <1>5, <1>6, <1>7 DEF Open

LEMMA TypeInvCalls ==
  ASSUME TypeInv, NEW p \in Procs,
         AddProp(p) \/ RemoveProp(p) \/ FindDies(p) \/ BeginClose(p)
  PROVE  TypeInv'
<1>a. SessionsOK /\ FilesOK /\ RestOK
  BY TypeInvParts
<1>b. db[p] \in Session /\ SessionFits(pc[p], db[p])
  BY <1>a DEF SessionsOK
<1>c. /\ db[p].propsToAdd \in Seq(Props) /\ Len(db[p].propsToAdd) \in Nat
      /\ db[p].propsToRm \in Seq(Removal) /\ Len(db[p].propsToRm) \in Nat
      /\ db[p].added \in Nat /\ db[p].removed \in Nat
      /\ db[p].sz \in Int /\ db[p].sz <= MaxSlots
      /\ db[p].strtabOff \in 0 .. MaxStrs + 1
  BY <1>b, SessionFields
<1>1. CASE AddProp(p)
  <2>1. PICK prop \in Props :
          /\ pc[p] = "open"
          /\ db[p].sz + Len(db[p].propsToAdd) < MaxSlots
          /\ db[p].strtabOff + Len(db[p].propsToAdd) <= MaxStrs
          /\ SetDb(p, [db[p] EXCEPT !.propsToAdd = Append(@, prop)])
    BY <1>1 DEF AddProp
  <2> DEFINE d == [db[p] EXCEPT !.propsToAdd = Append(@, prop)]
  <2>2. /\ Append(db[p].propsToAdd, prop) \in Seq(Props)
        /\ Len(Append(db[p].propsToAdd, prop)) = Len(db[p].propsToAdd) + 1
    BY <1>c
  <2>3. d \in Session
    BY <1>b, <2>2 DEF Session
  <2>4. /\ d.propsToAdd = Append(db[p].propsToAdd, prop)
        /\ d.propsToRm = db[p].propsToRm /\ d.sz = db[p].sz
        /\ d.strtabOff = db[p].strtabOff
        /\ d.added = db[p].added /\ d.removed = db[p].removed
    BY <1>b DEF Session
  <2> HIDE DEF d
  <2>5. SessionFits("open", d)
    <3>1. /\ Len(d.propsToAdd) = Len(db[p].propsToAdd) + 1
          /\ db[p].added = 0 /\ db[p].removed = 0 /\ db[p].sz >= 0
      BY <1>b, <2>1, <2>2, <2>4 DEF SessionFits
    <3>2. ToAdd(d) = Len(db[p].propsToAdd) + 1
      BY <1>c, <2>4, <3>1 DEF ToAdd
    <3> DEFINE n == Len(db[p].propsToAdd)
    <3>a. /\ n \in Nat /\ db[p].sz \in Int /\ db[p].strtabOff \in Nat
          /\ db[p].sz + n < MaxSlots /\ db[p].strtabOff + n <= MaxStrs
      BY <1>c, <2>1
    <3>b. d.sz = db[p].sz /\ d.strtabOff = db[p].strtabOff /\ ToAdd(d) = n + 1
      BY <2>4, <3>2
    <3> HIDE DEF n
    <3>3. /\ d.sz >= 0 /\ d.sz + ToAdd(d) <= MaxSlots
          /\ d.strtabOff + ToAdd(d) <= MaxStrs + 1
      BY <3>a, <3>b, <3>1
    <3>4. d.added = 0 /\ d.removed = 0 /\ Len(d.propsToAdd) >= 0 /\ Len(d.propsToRm) >= 0
      BY <1>c, <2>4, <3>1
    <3> QED  BY <3>3, <3>4 DEF SessionFits
  <2>6. db' = [db EXCEPT ![p] = d] /\ UNCHANGED pc
    BY <1>1, <2>1 DEF AddProp, SetDb, d
  <2>7. SessionsOK'
    BY <1>a, <2>1, <2>3, <2>5, <2>6, HereFits
  <2> QED  BY <1>1, <1>a, <2>7, TypeInvParts DEF AddProp, RestOK, FilesOK, dbVars, strVars
<1>2. CASE RemoveProp(p)
  <2>1. PICK n \in Names :
          /\ pc[p] = "open" /\ Found(n)
          /\ SetDb(p, [db[p] EXCEPT !.propsToRm =
                         Append(@, [slot |-> FindProp(n), name |-> n])])
    BY <1>2 DEF RemoveProp
  <2> DEFINE r == [slot |-> FindProp(n), name |-> n]
             d == [db[p] EXCEPT !.propsToRm = Append(@, r)]
  <2>2. r \in Removal
    <3>1. Matches(slots, strtab, numProps, n) \subseteq Slots
      BY DEF Matches
    <3>2. FindProp(n) \in Slots
      BY <2>1, <3>1, FirstOfIn DEF FindProp, Found, Slots
    <3> QED  BY <3>2 DEF Removal
  <2> HIDE DEF r
  <2>3. /\ Append(db[p].propsToRm, r) \in Seq(Removal)
        /\ Len(Append(db[p].propsToRm, r)) = Len(db[p].propsToRm) + 1
    BY <1>c, <2>2
  <2>4. d \in Session
    BY <1>b, <2>3 DEF Session
  <2>5. /\ d.propsToRm = Append(db[p].propsToRm, r)
        /\ d.propsToAdd = db[p].propsToAdd /\ d.sz = db[p].sz
        /\ d.strtabOff = db[p].strtabOff
        /\ d.added = db[p].added /\ d.removed = db[p].removed
    BY <1>b DEF Session
  <2>6. db' = [db EXCEPT ![p] = d] /\ UNCHANGED pc
    BY <1>2, <2>1 DEF RemoveProp, SetDb, r
  <2> HIDE DEF d
  <2>7. SessionFits("open", d)
    BY <1>b, <1>c, <2>1, <2>3, <2>5 DEF SessionFits, ToAdd
  <2>8. SessionsOK'
    BY <1>a, <2>1, <2>4, <2>6, <2>7, HereFits
  <2> QED  BY <1>2, <1>a, <2>8, TypeInvParts
           DEF RemoveProp, RestOK, FilesOK, dbVars, strVars
<1>3. CASE FindDies(p)
  BY <1>3, TypeInvLeave DEF FindDies
<1>4. CASE BeginClose(p)
  <2> DEFINE d == [db[p] EXCEPT !.curEnd = AppendAt(db[p]), !.numProps = numProps]
  <2>1. pc[p] = "open"
    BY <1>4 DEF BeginClose
  <2>2. d \in Session
    <3>1. AppendAt(db[p]) \in 0 .. MaxSlots
      BY <1>b, <1>c, <2>1 DEF AppendAt, SessionFits
    <3>2. numProps \in Nat
      BY <1>a DEF FilesOK
    <3> QED  BY <1>b, <3>1, <3>2 DEF Session
  <2>3. /\ d.propsToAdd = db[p].propsToAdd /\ d.propsToRm = db[p].propsToRm
        /\ d.sz = db[p].sz /\ d.strtabOff = db[p].strtabOff
        /\ d.added = db[p].added /\ d.removed = db[p].removed
        /\ d.curEnd = db[p].sz
    BY <1>b DEF Session, AppendAt
  <2>4. db' = [db EXCEPT ![p] = d] /\ pc' = [pc EXCEPT ![p] = "closing"]
    BY <1>4 DEF BeginClose, SetDb, Goto
  <2> HIDE DEF d
  <2>5. SessionFits("closing", d)
    BY <1>b, <1>c, <2>1, <2>3 DEF SessionFits, ToAdd
  <2>6. SessionsOK'
    BY <1>a, <2>2, <2>4, <2>5, MoveFits, PcsMembers DEF SessionPcs
  <2> QED  BY <1>4, <1>a, <2>6, TypeInvParts DEF BeginClose, RestOK, FilesOK, dbVars, strVars
<1> QED  BY <1>1, <1>2, <1>3, <1>4

(* What SessionFits says of a session that is being closed, in numbers. *)
LEMMA ClosingNumbers ==
  ASSUME NEW d \in Session,
         SessionFits("closing", d) \/ SessionFits("storing", d)
  PROVE  /\ ToAdd(d) \in Nat /\ ToAdd(d) = Len(d.propsToAdd) - d.added
         /\ d.curEnd + ToAdd(d) <= MaxSlots
         /\ d.sz >= 0
         /\ d.removed <= Len(d.propsToRm)
<1> DEFINE n == Len(d.propsToAdd)
<1>1. /\ n \in Nat /\ d.added \in Nat /\ d.added <= n
      /\ d.sz >= 0 /\ d.removed <= Len(d.propsToRm)
      /\ d.curEnd + ToAdd(d) <= MaxSlots
  BY SessionFields DEF SessionFits
<1>2. ToAdd(d) = n - d.added
  BY DEF ToAdd
<1> HIDE DEF n
<1>3. ToAdd(d) \in Nat
  BY <1>1, <1>2
<1> QED  BY <1>1, <1>2, <1>3 DEF n

LEMMA AddedEntry ==
  ASSUME NEW d \in Session, ToAdd(d) > 0
  PROVE  d.added + 1 \in DOMAIN d.propsToAdd /\ d.propsToAdd[d.added + 1] \in Prop
<1> DEFINE n == Len(d.propsToAdd)
<1>1. n \in Nat /\ d.added \in Nat
  BY SessionFields
<1>2. n - d.added > 0
  BY DEF ToAdd
<1> HIDE DEF n
<1>3. d.added + 1 \in 1 .. n
  BY <1>1, <1>2
<1>4. d.propsToAdd \in Seq(Props) /\ Props \subseteq Prop
  BY SessionFields, PropDbAssumption DEF PropDbAssumption
<1> QED  BY <1>3, <1>4 DEF n

LEMMA ImageType ==
  ASSUME NEW p \in Procs, db[p] \in Session, SessionFits("storing", db[p])
  PROVE  EntryImage(p) \in Slot
<1>1. ToAdd(db[p]) > 0 /\ db[p].newId \in Cells
  BY SessionFields DEF SessionFits
<1>2. db[p].propsToAdd[db[p].added + 1].data \in Data
  BY <1>1, AddedEntry DEF Prop
<1> QED  BY <1>1, <1>2, SerializeType DEF EntryImage

(* The updates of PropDbClose keep a session a session, and change only    *)
(* the fields they name.                                                   *)
LEMMA CountedType ==
  ASSUME NEW d \in Session
  PROVE  /\ Counted(d) \in Session
         /\ Counted(d).propsToAdd = d.propsToAdd /\ Counted(d).propsToRm = d.propsToRm
         /\ Counted(d).sz = d.sz /\ Counted(d).strtabOff = d.strtabOff
         /\ Counted(d).curEnd = d.curEnd /\ Counted(d).numProps = d.numProps + 1
         /\ Counted(d).added = d.added + 1 /\ Counted(d).removed = d.removed
<1>1. d.numProps + 1 \in Nat /\ d.added + 1 \in Nat
  BY SessionFields
<1>2. Counted(d) \in Session
  BY <1>1 DEF Session, Counted
<1> QED  BY <1>2 DEF Session, Counted

LEMMA AppendedType ==
  ASSUME NEW d \in Session, d.curEnd + 1 \in 0 .. MaxSlots
  PROVE  LET a == [Counted(d) EXCEPT !.curEnd = @ + 1] IN
         /\ a \in Session
         /\ a.propsToAdd = d.propsToAdd /\ a.propsToRm = d.propsToRm
         /\ a.sz = d.sz /\ a.strtabOff = d.strtabOff
         /\ a.curEnd = d.curEnd + 1 /\ a.numProps = d.numProps + 1
         /\ a.added = d.added + 1 /\ a.removed = d.removed
<1> DEFINE c == Counted(d)
<1>1. /\ c \in Session
      /\ c.propsToAdd = d.propsToAdd /\ c.propsToRm = d.propsToRm
      /\ c.sz = d.sz /\ c.strtabOff = d.strtabOff
      /\ c.curEnd = d.curEnd /\ c.numProps = d.numProps + 1
      /\ c.added = d.added + 1 /\ c.removed = d.removed
  BY CountedType
<1> HIDE DEF c
<1>2. [c EXCEPT !.curEnd = @ + 1] \in Session
  BY <1>1 DEF Session
<1>3. LET a == [c EXCEPT !.curEnd = @ + 1] IN
         /\ a.propsToAdd = d.propsToAdd /\ a.propsToRm = d.propsToRm
         /\ a.sz = d.sz /\ a.strtabOff = d.strtabOff
         /\ a.curEnd = d.curEnd + 1 /\ a.numProps = d.numProps + 1
         /\ a.added = d.added + 1 /\ a.removed = d.removed
  BY <1>1 DEF Session
<1> QED  BY <1>2, <1>3 DEF c

LEMMA RemovedType ==
  ASSUME NEW d \in Session
  PROVE  LET r == [d EXCEPT !.numFreeProps = Freed(@), !.removed = @ + 1] IN
         /\ r \in Session
         /\ r.propsToAdd = d.propsToAdd /\ r.propsToRm = d.propsToRm
         /\ r.sz = d.sz /\ r.strtabOff = d.strtabOff
         /\ r.curEnd = d.curEnd /\ r.numProps = d.numProps
         /\ r.added = d.added /\ r.removed = d.removed + 1
<1> DEFINE r == [d EXCEPT !.numFreeProps = Freed(@), !.removed = @ + 1]
<1>1. Freed(d.numFreeProps) \in Nat /\ d.removed + 1 \in Nat
  BY SessionFields DEF Freed
<1>2. r \in Session
  BY <1>1 DEF Session
<1>3. /\ r.propsToAdd = d.propsToAdd /\ r.propsToRm = d.propsToRm
      /\ r.sz = d.sz /\ r.strtabOff = d.strtabOff
      /\ r.curEnd = d.curEnd /\ r.numProps = d.numProps
      /\ r.added = d.added /\ r.removed = d.removed + 1
  BY DEF Session
<1> QED  BY <1>2, <1>3

(* An entry has been given its place. *)
LEMMA AllocatedType ==
  ASSUME NEW d \in Session, numProps \in Nat, d.strtabOff \in Cells,
         d.strtabOff + 1 \in 0 .. MaxStrs + 1
  PROVE  LET a == Allocated(d) IN
         /\ a \in Session
         /\ a.propsToAdd = d.propsToAdd /\ a.propsToRm = d.propsToRm
         /\ a.sz = d.sz /\ a.strtabOff = d.strtabOff + 1 /\ a.newId = d.strtabOff
         /\ a.curEnd = d.curEnd /\ a.numProps = d.numProps
         /\ a.added = d.added /\ a.removed = d.removed
<1> DEFINE b == AllocProp(d)
<1>1. /\ b \in Session
      /\ b.propsToAdd = d.propsToAdd /\ b.propsToRm = d.propsToRm
      /\ b.sz = d.sz /\ b.curEnd = d.curEnd /\ b.numProps = d.numProps
      /\ b.added = d.added /\ b.removed = d.removed
  BY AllocPropType
<1> HIDE DEF b
<1>2. Allocated(d) = [b EXCEPT !.newId = d.strtabOff, !.strtabOff = d.strtabOff + 1]
  BY DEF Allocated, NextOff, b
<1>3. Allocated(d) \in Session
  BY <1>1, <1>2 DEF Session
<1> QED  BY <1>1, <1>2, <1>3 DEF Session

LEMMA AllocatedFits ==
  ASSUME NEW d \in Session, numProps \in Nat, SessionFits("closing", d),
         d.added # Len(d.propsToAdd)
  PROVE  /\ Allocated(d) \in Session /\ SessionFits("storing", Allocated(d))
         /\ d.strtabOff \in Cells /\ d.strtabOff + 1 \in 0 .. MaxStrs + 1
         /\ ToAdd(d) > 0
<1>1. ToAdd(d) > 0
  <2> DEFINE n == Len(d.propsToAdd)
  <2>1. n \in Nat /\ d.added \in Nat /\ d.added <= n /\ d.added # n
    BY SessionFields DEF SessionFits
  <2>2. ToAdd(d) = n - d.added
    BY DEF ToAdd
  <2> HIDE DEF n
  <2> QED  BY <2>1, <2>2
<1>2. d.strtabOff \in Cells /\ d.strtabOff + 1 \in 0 .. MaxStrs + 1
  <2> DEFINE off == d.strtabOff
  <2>1. off + ToAdd(d) <= MaxStrs + 1 /\ off \in 0 .. MaxStrs + 1
    BY SessionFields DEF SessionFits
  <2>2. ToAdd(d) \in Nat
    BY ClosingNumbers
  <2> HIDE DEF off
  <2>3. off \in Cells /\ off + 1 \in 0 .. MaxStrs + 1
    BY <1>1, <2>1, <2>2 DEF Cells
  <2> QED  BY <2>3 DEF off
<1> DEFINE a == Allocated(d)
           off == d.strtabOff
<1>3. /\ a \in Session
      /\ a.propsToAdd = d.propsToAdd /\ a.propsToRm = d.propsToRm
      /\ a.sz = d.sz /\ a.strtabOff = off + 1 /\ a.curEnd = d.curEnd
      /\ a.added = d.added /\ a.removed = d.removed
  BY <1>2, AllocatedType
<1>4. ToAdd(a) = ToAdd(d)
  BY <1>3 DEF ToAdd
<1>5. /\ d.sz >= 0 /\ d.added <= Len(d.propsToAdd)
      /\ d.removed <= Len(d.propsToRm)
      /\ d.curEnd + ToAdd(d) <= MaxSlots
      /\ off + ToAdd(d) <= MaxStrs + 1
  BY DEF SessionFits
<1>6. (off + 1) + ToAdd(d) <= MaxStrs + 2
  BY <1>2, <1>5, ClosingNumbers DEF Cells
<1> HIDE DEF a, off
<1>7. SessionFits("storing", a)
  BY <1>1, <1>3, <1>4, <1>5, <1>6 DEF SessionFits
<1> QED  BY <1>1, <1>2, <1>3, <1>7 DEF a

(* Noting that a write failed changes nothing else. *)
LEMMA FailedType ==
  ASSUME NEW d \in Session
  PROVE  LET f == [d EXCEPT !.failed = TRUE] IN
         /\ f \in Session
         /\ f.propsToAdd = d.propsToAdd /\ f.propsToRm = d.propsToRm
         /\ f.sz = d.sz /\ f.strtabOff = d.strtabOff /\ f.newId = d.newId
         /\ f.curEnd = d.curEnd /\ f.numProps = d.numProps
         /\ f.added = d.added /\ f.removed = d.removed
BY DEF Session

LEMMA FailedFits ==
  ASSUME NEW d \in Session, NEW l, SessionFits(l, d)
  PROVE  /\ [d EXCEPT !.failed = TRUE] \in Session
         /\ SessionFits(l, [d EXCEPT !.failed = TRUE])
<1> DEFINE f == [d EXCEPT !.failed = TRUE]
<1>1. /\ f \in Session
      /\ f.propsToAdd = d.propsToAdd /\ f.propsToRm = d.propsToRm
      /\ f.sz = d.sz /\ f.strtabOff = d.strtabOff
      /\ f.curEnd = d.curEnd
      /\ f.added = d.added /\ f.removed = d.removed
  BY FailedType
<1> HIDE DEF f
<1>2. SessionFits(l, f)
  BY <1>1 DEF SessionFits, ToAdd
<1> QED  BY <1>1, <1>2 DEF f

(* One entry has been stored. *)
LEMMA StoredFits ==
  ASSUME NEW c \in Session, SessionFits("storing", c), NEW d \in Session,
         d.propsToAdd = c.propsToAdd, d.propsToRm = c.propsToRm,
         d.sz = c.sz, d.strtabOff = c.strtabOff,
         d.curEnd = c.curEnd \/ d.curEnd = c.curEnd + 1,
         d.added = c.added + 1, d.removed = c.removed
  PROVE  SessionFits("closing", d)
<1>1. /\ ToAdd(c) \in Nat /\ ToAdd(c) > 0
      /\ c.curEnd + ToAdd(c) <= MaxSlots
      /\ c.strtabOff + ToAdd(c) <= MaxStrs + 2
      /\ c.curEnd \in Nat /\ c.strtabOff \in Nat
  BY ClosingNumbers, SessionFields DEF SessionFits
<1>2. ToAdd(d) = ToAdd(c) - 1 /\ d.added <= Len(d.propsToAdd)
  <2> DEFINE n == Len(c.propsToAdd)
  <2>1. n \in Nat /\ c.added \in Nat /\ ToAdd(c) = n - c.added
    BY SessionFields DEF ToAdd
  <2>2. Len(d.propsToAdd) = n /\ ToAdd(d) = n - d.added
    BY DEF ToAdd
  <2> HIDE DEF n
  <2> QED  BY <1>1, <2>1, <2>2
<1>3. d.curEnd + ToAdd(d) <= MaxSlots /\ d.strtabOff + ToAdd(d) <= MaxStrs + 1
  BY <1>1, <1>2
<1>4. d.sz >= 0 /\ d.removed <= Len(d.propsToRm)
  BY ClosingNumbers
<1> QED  BY <1>2, <1>3, <1>4 DEF SessionFits

LEMMA AppendedFits ==
  ASSUME NEW d \in Session, SessionFits("storing", d)
  PROVE  /\ d.curEnd \in Slots /\ d.curEnd + 1 \in 0 .. MaxSlots
         /\ [Counted(d) EXCEPT !.curEnd = @ + 1] \in Session
         /\ SessionFits("closing", [Counted(d) EXCEPT !.curEnd = @ + 1])
<1>1. d.curEnd \in Slots /\ d.curEnd + 1 \in 0 .. MaxSlots
  <2>1. /\ ToAdd(d) > 0 /\ ToAdd(d) \in Nat
        /\ d.curEnd + ToAdd(d) <= MaxSlots /\ d.curEnd \in 0 .. MaxSlots
    BY ClosingNumbers, SessionFields DEF SessionFits
  <2> QED  BY <2>1 DEF Slots
<1> DEFINE a == [Counted(d) EXCEPT !.curEnd = @ + 1]
<1>2. /\ a \in Session
      /\ a.propsToAdd = d.propsToAdd /\ a.propsToRm = d.propsToRm
      /\ a.sz = d.sz /\ a.strtabOff = d.strtabOff
      /\ a.curEnd = d.curEnd + 1
      /\ a.added = d.added + 1 /\ a.removed = d.removed
  BY <1>1, AppendedType
<1> HIDE DEF a
<1>3. SessionFits("closing", a)
  BY <1>2, StoredFits
<1> QED  BY <1>1, <1>2, <1>3 DEF a

LEMMA TypeInvClose ==
  ASSUME TypeInv, NEW p \in Procs, Close(p)
  PROVE  TypeInv'
<1>a. SessionsOK /\ FilesOK /\ RestOK
  BY TypeInvParts
<1>b. db[p] \in Session /\ SessionFits(pc[p], db[p]) /\ pc \in [Procs -> Pcs]
  BY <1>a DEF SessionsOK
<1>c. slots \in [Slots -> Slot] /\ numProps \in Nat
  BY <1>a DEF FilesOK
<1>l. {"closing", "storing", "closed"} \subseteq Pcs
  BY PcsMembers DEF SessionPcs
<1>1. CASE CloseRemove(p)
  <2> DEFINE d == [db[p] EXCEPT !.numFreeProps = Freed(@), !.removed = @ + 1]
  <2>1. pc[p] = "closing" /\ db[p].removed < Len(db[p].propsToRm)
    BY <1>1 DEF CloseRemove
  <2>2. /\ d \in Session
        /\ d.propsToAdd = db[p].propsToAdd /\ d.propsToRm = db[p].propsToRm
        /\ d.sz = db[p].sz /\ d.strtabOff = db[p].strtabOff
        /\ d.curEnd = db[p].curEnd
        /\ d.added = db[p].added /\ d.removed = db[p].removed + 1
    BY <1>b, RemovedType, Zenon
  <2>3. db' = [db EXCEPT ![p] = d] /\ UNCHANGED pc
    BY <1>1 DEF CloseRemove, SetDb
  <2> HIDE DEF d
  <2>4. SessionFits("closing", d)
    <3>1. ToAdd(d) = ToAdd(db[p])
      BY <2>2 DEF ToAdd
    <3>2. db[p].removed + 1 <= Len(db[p].propsToRm)
      BY <1>b, <2>1, SessionFields
    <3>3. /\ db[p].sz >= 0 /\ db[p].added <= Len(db[p].propsToAdd)
          /\ db[p].curEnd + ToAdd(db[p]) <= MaxSlots
          /\ db[p].strtabOff + ToAdd(db[p]) <= MaxStrs + 1
      BY <1>b, <2>1 DEF SessionFits
    <3> QED  BY <2>2, <3>1, <3>2, <3>3 DEF SessionFits
  <2>5. SessionsOK'
    BY <1>a, <2>1, <2>2, <2>3, <2>4, HereFits
  <2>6. slots' \in [Slots -> Slot]
    <3> DEFINE r == db[p].propsToRm[db[p].removed + 1]
    <3>1. r \in Removal
      <4> DEFINE rm == db[p].propsToRm
                 k == db[p].removed
      <4>1. rm \in Seq(Removal) /\ k \in Nat /\ k < Len(rm)
        BY <1>b, <2>1, SessionFields
      <4> HIDE DEF rm, k
      <4>2. k + 1 \in DOMAIN rm
        BY <4>1
      <4>3. rm[k + 1] \in Removal
        BY <4>1, <4>2
      <4> QED  BY <4>3 DEF rm, k
    <3>2. r.slot \in Slots
      BY <3>1 DEF Removal
    <3>3. slots' = InFile(ClearHeader(slots, r.slot))
      BY <1>1 DEF CloseRemove
    <3> HIDE DEF r
    <3> QED  BY <1>c, <3>2, <3>3, ClearHeaderType, InFileType
  <2>7. FilesOK'
    BY <1>1, <1>a, <2>6 DEF CloseRemove, FilesOK, strVars
  <2> QED  BY <1>1, <1>a, <2>5, <2>7, TypeInvParts DEF CloseRemove, RestOK
<1>2. CASE CloseAlloc(p)
  <2> DEFINE off == db[p].strtabOff
             d == Allocated(db[p])
             e == db[p].propsToAdd[db[p].added + 1]
  <2>1. pc[p] = "closing" /\ ~AddsDone(p)
    BY <1>2 DEF CloseAlloc, AllocPlace
  <2>2. /\ d \in Session /\ SessionFits("storing", d)
        /\ off \in Cells /\ off + 1 \in 0 .. MaxStrs + 1 /\ ToAdd(db[p]) > 0
    BY <1>b, <1>c, <2>1, AllocatedFits DEF AddsDone
  <2>3. db' = [db EXCEPT ![p] = d] /\ pc' = [pc EXCEPT ![p] = "storing"]
    BY <1>2 DEF CloseAlloc, AllocPlace, SetDb, Goto
  <2>4. e.name \in Names
    BY <1>b, <2>2, AddedEntry DEF Prop
  <2>5. strtab' = [strtab EXCEPT ![off] = e.name] /\ strtabLen' = Larger(strtabLen, off + 1)
    BY <1>2 DEF CloseAlloc
  <2> HIDE DEF d, e, off
  <2>6. SessionsOK'
    BY <1>a, <1>l, <2>2, <2>3, MoveFits
  <2>7. FilesOK'
    <3>1. strtab' \in [Cells -> Names \cup {NoString, StrtabHeader}]
      BY <1>a, <2>4, <2>5 DEF FilesOK
    <3>2. strtabLen' \in 0 .. MaxStrs + 1
      BY <1>a, <2>2, <2>5 DEF FilesOK, Larger
    <3> QED  BY <1>2, <1>a, <3>1, <3>2 DEF CloseAlloc, AllocPlace, FilesOK, dbVars
  <2> QED  BY <1>2, <1>a, <2>6, <2>7, TypeInvParts DEF CloseAlloc, AllocPlace, RestOK
<1>3. CASE CloseAppend(p)
  <2> DEFINE d == [Counted(db[p]) EXCEPT !.curEnd = @ + 1]
  <2>1. pc[p] = "storing" /\ SessionFits("storing", db[p])
    BY <1>3, <1>b DEF CloseAppend
  <2>2. /\ db[p].curEnd \in Slots /\ db[p].curEnd + 1 \in 0 .. MaxSlots
        /\ d \in Session /\ SessionFits("closing", d)
    BY <1>b, <2>1, AppendedFits
  <2>4. db' = [db EXCEPT ![p] = d] /\ pc' = [pc EXCEPT ![p] = "closing"]
    BY <1>3 DEF CloseAppend, EndStore, SetDb, Goto
  <2> HIDE DEF d
  <2>6. SessionsOK'
    BY <1>a, <1>l, <2>2, <2>4, MoveFits
  <2>7. slots' \in [Slots -> Slot]
    BY <1>3, <1>b, <1>c, <2>1, <2>2, ImageType DEF CloseAppend
  <2>8. numSlots' \in 0 .. MaxSlots
    BY <1>3, <1>a, <2>2 DEF CloseAppend, Larger, FilesOK
  <2>9. FilesOK'
    BY <1>3, <1>a, <2>7, <2>8 DEF CloseAppend, EndStore, FilesOK, strVars
  <2> QED  BY <1>3, <1>a, <2>6, <2>9, TypeInvParts DEF CloseAppend, EndStore, RestOK
<1>4. CASE CloseReuse(p)
  <2> DEFINE d == Counted(db[p])
  <2>1. pc[p] = "storing" /\ SessionFits("storing", db[p])
    BY <1>4, <1>b DEF CloseReuse
  <2>2. /\ d \in Session
        /\ d.propsToAdd = db[p].propsToAdd /\ d.propsToRm = db[p].propsToRm
        /\ d.sz = db[p].sz /\ d.strtabOff = db[p].strtabOff
        /\ d.curEnd = db[p].curEnd
        /\ d.added = db[p].added + 1 /\ d.removed = db[p].removed
    BY <1>b, CountedType
  <2>3. db' = [db EXCEPT ![p] = d] /\ pc' = [pc EXCEPT ![p] = "closing"]
    BY <1>4 DEF CloseReuse, EndStore, SetDb, Goto
  <2> HIDE DEF d
  <2>4. SessionFits("closing", d)
    <3>1. db[p].curEnd \in 0 .. MaxSlots
      BY <1>b, SessionFields
    <3> QED  BY <1>b, <2>1, <2>2, <3>1, StoredFits
  <2>5. SessionsOK'
    BY <1>a, <1>l, <2>2, <2>3, <2>4, MoveFits
  <2>6. slots' \in [Slots -> Slot]
    <3>1. db[p].newProp \in Words
      BY <1>4, <1>b, SessionFields DEF CloseReuse
    <3>2. EntryImage(p) \in Slot
      BY <1>b, <2>1, ImageType
    <3>3. slots' = InFile(StoreAtWord(slots, db[p].newProp, EntryImage(p)))
      BY <1>4 DEF CloseReuse
    <3> QED  BY <1>c, <3>1, <3>2, <3>3, StoreAtWordType, InFileType
  <2>7. FilesOK'
    BY <1>4, <1>a, <2>6 DEF CloseReuse, EndStore, FilesOK, strVars
  <2> QED  BY <1>4, <1>a, <2>5, <2>7, TypeInvParts DEF CloseReuse, EndStore, RestOK
<1>5. CASE CloseHeader(p)
  <2>1. pc[p] = "closing"
    BY <1>5 DEF CloseHeader
  <2>2. SessionFits("closed", db[p])
    BY <1>b, <2>1 DEF SessionFits
  <2>3. SessionsOK'
    BY <1>5, <1>a, <1>l, <2>2, StayFits DEF CloseHeader, Goto
  <2>4. db[p].numProps \in Nat /\ db[p].numFreeProps \in Nat
    BY <1>b, SessionFields
  <2>5. FilesOK'
    BY <1>5, <1>a, <2>4 DEF CloseHeader, FilesOK, strVars
  <2>6. RestOK'
    <3>1. db[p].propsToAdd \in Seq(Props)
      BY <1>b, SessionFields
    <3>2. \A i \in DOMAIN db[p].propsToAdd : db[p].propsToAdd[i] \in Props
      BY <3>1
    <3>3. promised' \subseteq promised \cup {db[p].propsToAdd[i] : i \in DOMAIN db[p].propsToAdd}
      BY <1>5 DEF CloseHeader
    <3>4. promised' \subseteq Props
      BY <1>a, <3>2, <3>3, Zenon DEF RestOK
    <3> QED  BY <1>5, <1>a, <3>4 DEF CloseHeader, RestOK
  <2> QED  BY <2>3, <2>5, <2>6, TypeInvParts
<1>6. CASE CloseUnlock(p)
  BY <1>6, TypeInvLeave DEF CloseUnlock
<1>7. CASE CloseAllocFails(p)
  <2> DEFINE a == Allocated(db[p])
             d == [a EXCEPT !.failed = TRUE]
  <2>1. pc[p] = "closing" /\ ~AddsDone(p)
    BY <1>7 DEF CloseAllocFails, AllocPlace
  <2>2. a \in Session /\ SessionFits("storing", a)
    BY <1>b, <1>c, <2>1, AllocatedFits DEF AddsDone
  <2>3. db' = [db EXCEPT ![p] = d] /\ pc' = [pc EXCEPT ![p] = "storing"]
    BY <1>7 DEF CloseAllocFails, AllocPlace, SetDb, Goto
  <2> HIDE DEF a
  <2>4. d \in Session /\ SessionFits("storing", d)
    BY <2>2, FailedFits
  <2> HIDE DEF d
  <2>5. SessionsOK'
    BY <1>a, <1>l, <2>3, <2>4, MoveFits
  <2>6. FilesOK'
    BY <1>7, <1>a DEF CloseAllocFails, AllocPlace, FilesOK, dbVars
  <2> QED  BY <1>7, <1>a, <2>5, <2>6, TypeInvParts DEF CloseAllocFails, AllocPlace, RestOK
<1>8. CASE CloseAppendFails(p)
  <2> DEFINE a == [Counted(db[p]) EXCEPT !.curEnd = @ + 1]
             d == [a EXCEPT !.failed = TRUE]
  <2>1. pc[p] = "storing" /\ SessionFits("storing", db[p])
    BY <1>8, <1>b DEF CloseAppendFails
  <2>2. a \in Session /\ SessionFits("closing", a)
    BY <1>b, <2>1, AppendedFits
  <2>3. db' = [db EXCEPT ![p] = d] /\ pc' = [pc EXCEPT ![p] = "closing"]
    BY <1>8 DEF CloseAppendFails, EndStore, SetDb, Goto
  <2> HIDE DEF a
  <2>4. d \in Session /\ SessionFits("closing", d)
    BY <2>2, FailedFits
  <2> HIDE DEF d
  <2>5. SessionsOK'
    BY <1>a, <1>l, <2>3, <2>4, MoveFits
  <2>6. FilesOK'
    BY <1>8, <1>a DEF CloseAppendFails, EndStore, FilesOK, strVars
  <2> QED  BY <1>8, <1>a, <2>5, <2>6, TypeInvParts DEF CloseAppendFails, EndStore, RestOK
<1> QED  BY <1>1, <1>2, <1>3, <1>4, <1>5, <1>6, <1>7, <1>8 DEF Close

(* Every reachable state is well typed, and no session has queued more     *)
(* than still fits behind where its files ended when it was opened: the    *)
(* bookkeeping of PropDbOpen, PropDbAddProp and PropDbClose agree.         *)
THEOREM TypeInvariant == Spec => []TypeInv
<1>1. ASSUME TypeInv, [Next]_vars PROVE TypeInv'
  <2>1. CASE UNCHANGED vars
    BY <1>1, <2>1 DEF vars, TypeInv, TypeOK
  <2>2. ASSUME NEW p \in Procs,
               \/ Create(p) \/ OpenStat(p) \/ Open(p)
               \/ AddProp(p) \/ RemoveProp(p) \/ FindDies(p)
               \/ BeginClose(p) \/ Close(p)
               \/ BusError(p) \/ Exit(p) \/ Crash(p)
        PROVE  TypeInv'
    <3>1. CASE BusError(p) \/ Exit(p) \/ Crash(p)
      BY <1>1, <3>1, TypeInvLeave DEF BusError, Exit, Crash
    <3> QED  BY <1>1, <2>2, <3>1, TypeInvCreate, TypeInvOpen, TypeInvCalls, TypeInvClose
  <2> QED  BY <1>1, <2>1, <2>2 DEF Next
<1> QED  BY <1>1, TypeInvInit, PTL DEF Spec

(* Every reachable state is well typed, whatever is created, truncated or  *)
(* killed (the variables of PropDb, for propdb.c and strtab.c).            *)
THEOREM TypeCorrect == Spec => []TypeOK
<1>1. TypeInv => TypeOK
  BY DEF TypeInv
<1> QED  BY <1>1, TypeInvariant, PTL

-----------------------------------------------------------------------------
(* Mutual exclusion.                                                       *)

(* A step that moves process p to label l and leaves the others where they *)
(* are keeps LockExclusion if it keeps it for p and hands the lock to      *)
(* nobody else.                                                            *)
LEMMA MoveExclusion ==
  ASSUME LockExclusion, pc \in [Procs -> Pcs], NEW p \in Procs, NEW l,
         pc' = [pc EXCEPT ![p] = l],
         (lock' = p) <=> (l \in HoldPcs),
         \A q \in Procs \ {p} : (lock' = q) <=> (lock = q)
  PROVE  LockExclusion'
BY DEF LockExclusion

LEMMA StayExclusion ==
  ASSUME LockExclusion, UNCHANGED <<lock, pc>>
  PROVE  LockExclusion'
BY DEF LockExclusion

LEMMA LeaveExclusion ==
  ASSUME LockExclusion, pc \in [Procs -> Pcs], NEW p \in Procs, Leave(p)
  PROVE  LockExclusion'
<1>1. p # NoProc /\ \A q \in Procs : q # NoProc
  BY PropDbAssumption DEF PropDbAssumption
<1>2. "idle" \notin HoldPcs
  BY DEF HoldPcs, SessionPcs
<1>3. (lock' = p) <=> ("idle" \in HoldPcs)
  BY <1>1, <1>2 DEF Leave
<1>4. \A q \in Procs \ {p} : (lock' = q) <=> (lock = q)
  BY <1>1 DEF Leave
<1> QED  BY <1>3, <1>4, MoveExclusion DEF Leave, Goto

LEMMA ExclusionStep ==
  ASSUME TypeInv, LockExclusion, [Next]_vars
  PROVE  LockExclusion'
<1>a. pc \in [Procs -> Pcs] /\ \A q \in Procs : q # NoProc
  BY PropDbAssumption DEF TypeInv, TypeOK, PropDbAssumption
<1>1. CASE UNCHANGED vars
  BY <1>1, StayExclusion DEF vars
<1>2. ASSUME NEW p \in Procs, Create(p)
      PROVE  LockExclusion'
  <2>1. PICK l \in CreatePcs \cup {"idle"} :
          /\ pc[p] \in CreatePcs \cup {"idle"}
          /\ pc' = [pc EXCEPT ![p] = l] /\ UNCHANGED lock
    BY <1>2 DEF Create, CreateStat, CreatDb, WriteHeader, StrtabStat, CreatStrtab,
                WriteStrtabHeader, Goto, CreatePcs
  <2>2. pc[p] \notin HoldPcs /\ l \notin HoldPcs
    BY <2>1 DEF CreatePcs, HoldPcs, SessionPcs
  <2>3. lock # p
    BY <2>2 DEF LockExclusion
  <2> QED  BY <1>a, <2>1, <2>2, <2>3, MoveExclusion
<1>3. ASSUME NEW p \in Procs, OpenStat(p)
      PROVE  LockExclusion'
  <2>1. pc[p] \notin HoldPcs /\ "opening" \notin HoldPcs
    BY <1>3 DEF OpenStat, HoldPcs, SessionPcs
  <2>2. lock # p
    BY <2>1 DEF LockExclusion
  <2> QED  BY <1>3, <1>a, <2>1, <2>2, MoveExclusion DEF OpenStat, Goto
<1>4. ASSUME NEW p \in Procs, OpenLock(p)
      PROVE  LockExclusion'
  BY <1>4, <1>a, MoveExclusion DEF OpenLock, LockFree, Goto, HoldPcs, SessionPcs
<1>5. ASSUME NEW p \in Procs,
             \/ OpenMap(p) \/ OpenStrtab(p) \/ BeginClose(p)
             \/ CloseAlloc(p) \/ CloseAllocFails(p) \/ CloseAppend(p)
             \/ CloseAppendFails(p) \/ CloseReuse(p) \/ CloseHeader(p)
             \/ OpenStrtabFails(p) /\ UNCHANGED lock
      PROVE  LockExclusion'
  <2>1. CASE Leave(p)
    BY <1>a, <2>1, LeaveExclusion
  <2>2. CASE ~Leave(p)
    <3>1. PICK l \in HoldPcs : pc[p] \in HoldPcs /\ pc' = [pc EXCEPT ![p] = l]
                               /\ UNCHANGED lock
      BY <1>5, <2>2 DEF OpenMap, OpenStrtab, OpenStrtabFails, BeginClose, CloseAlloc,
           CloseAllocFails, AllocPlace, CloseAppend, CloseAppendFails, CloseReuse,
           CloseHeader, EndStore, Goto, HoldPcs, SessionPcs
    <3>2. lock = p
      BY <3>1 DEF LockExclusion
    <3> QED  BY <1>a, <3>1, <3>2, MoveExclusion
  <2> QED  BY <2>1, <2>2
<1>6. ASSUME NEW p \in Procs, AddProp(p) \/ RemoveProp(p) \/ CloseRemove(p)
      PROVE  LockExclusion'
  BY <1>6, StayExclusion DEF AddProp, RemoveProp, CloseRemove
<1>7. ASSUME NEW p \in Procs,
             \/ OpenLocked(p) \/ OpenMapDies(p) \/ Leave(p) \/ FindDies(p)
             \/ CloseUnlock(p) \/ BusError(p) \/ Exit(p) \/ Crash(p)
      PROVE  LockExclusion'
  BY <1>7, <1>a, LeaveExclusion
     DEF OpenLocked, OpenMapDies, FindDies, CloseUnlock, BusError, Exit, Crash
<1>8. ASSUME NEW p \in Procs, OpenStrtabFails(p)
      PROVE  LockExclusion'
  BY <1>5, <1>7, <1>8 DEF OpenStrtabFails
<1> QED
  BY <1>1, <1>2, <1>3, <1>4, <1>5, <1>6, <1>7, <1>8 DEF Next, Open, Close

(* Two processes are never both between flock and its release, and a       *)
(* process that is has the lock, whatever is killed (propdb.c:179-413).    *)
THEOREM Exclusion == Spec => []LockExclusion
<1>1. Init => LockExclusion
  BY PropDbAssumption DEF Init, LockExclusion, HoldPcs, SessionPcs, PropDbAssumption
<1>2. TypeInv /\ LockExclusion /\ [Next]_vars => LockExclusion'
  BY ExclusionStep
<1> QED  BY <1>1, <1>2, TypeInvariant, PTL DEF Spec

-----------------------------------------------------------------------------
(* The string table.  With init done, the session that holds the lock      *)
(* appends at the very end of the table, so an index is never handed out   *)
(* twice and never written over.                                           *)

HeadersOK ==
  \A s \in Slots : slots[s][0].val < strtabLen /\ (Live(s) => slots[s][0].val >= 1)

TableOK ==
  /\ dbFile = "ready" /\ strFile = "ready" /\ strtabLen >= 1
  /\ \A c \in Cells : 1 <= c /\ c < strtabLen => strtab[c] \in Names

SessionStringsOK(q) ==
  /\ pc[q] \notin CreatePcs
  /\ Committing(q) => db[q].strtabOff = strtabLen
  /\ pc[q] = "storing" =>
       /\ db[q].newId >= 1 /\ db[q].newId = strtabLen - 1
       /\ \A s \in Slots : slots[s][0].val # db[q].newId

LEMMA StringInvParts ==
  /\ StringInv  => TableOK /\ HeadersOK /\ OwnStrings
  /\ StringInv  => \A q \in Procs : SessionStringsOK(q)
  /\ TableOK' /\ HeadersOK' /\ OwnStrings' /\ (\A q \in Procs : SessionStringsOK(q)')
       => StringInv'
BY DEF StringInv, FreshStrings, TableOK, HeadersOK, SessionStringsOK, Committing

(* A header in use is a header word of a slot. *)
LEMMA HeaderType ==
  ASSUME slots \in [Slots -> Slot], NEW s \in Slots
  PROVE  slots[s][0] \in Word /\ slots[s][0].val \in Cells
BY DEF Slot, Word, Words

(* Steps that keep every header, or clear it, keep the headers right. *)
LEMMA HeadersKept ==
  ASSUME StringInv, strtabLen \in Nat, UNCHANGED <<dbFile, strVars>>,
         \A s \in Slots : slots'[s][0] \in {slots[s][0], ZeroWord}
  PROVE  TableOK' /\ HeadersOK' /\ OwnStrings'
<1>a. TableOK /\ HeadersOK /\ OwnStrings
  BY StringInvParts
<1>b. strtab' = strtab /\ strtabLen' = strtabLen /\ strFile' = strFile /\ dbFile' = dbFile
  BY DEF strVars
<1>c. ZeroWord.val = 0 /\ ZeroWord.type # NNPKG_PROP_TYPE_PKG
  BY DEF ZeroWord, NNPKG_PROP_TYPE_PKG, NNPKG_PROP_TYPE_INVALID
<1>1. TableOK'
  BY <1>a, <1>b DEF TableOK
<1>2. \A s \in Slots : slots'[s][0].type = NNPKG_PROP_TYPE_PKG => slots'[s][0] = slots[s][0]
  BY <1>c
<1>3. HeadersOK'
  BY <1>a, <1>b, <1>c, <1>2 DEF HeadersOK, Live, TableOK
<1>4. OwnStrings'
  BY <1>a, <1>b, <1>2 DEF OwnStrings, Live, NameAt
<1> QED  BY <1>1, <1>3, <1>4

(* So do steps that also put a header with a fresh index in one slot. *)
LEMMA HeaderStored ==
  ASSUME StringInv, slots \in [Slots -> Slot], strtabLen \in 0 .. MaxStrs + 1,
         UNCHANGED <<dbFile, strVars>>,
         NEW t \in Slots, NEW id \in Cells, id >= 1, id < strtabLen,
         \A s \in Slots : slots[s][0].val # id,
         \A s \in Slots : \/ slots'[s][0] \in {slots[s][0], ZeroWord}
                          \/ /\ s = t
                             /\ slots'[s][0] = [val |-> id, type |-> NNPKG_PROP_TYPE_PKG]
  PROVE  TableOK' /\ HeadersOK' /\ OwnStrings'
<1>a. TableOK /\ HeadersOK /\ OwnStrings
  BY StringInvParts
<1>b. strtab' = strtab /\ strtabLen' = strtabLen /\ strFile' = strFile /\ dbFile' = dbFile
  BY DEF strVars
<1>c. ZeroWord.val = 0 /\ ZeroWord.type # NNPKG_PROP_TYPE_PKG
  BY DEF ZeroWord, NNPKG_PROP_TYPE_PKG, NNPKG_PROP_TYPE_INVALID
<1>1. TableOK'
  BY <1>a, <1>b DEF TableOK
<1>2. \A s \in Slots : slots'[s][0].type = NNPKG_PROP_TYPE_PKG =>
        slots'[s][0] = slots[s][0] \/ (s = t /\ slots'[s][0].val = id)
  BY <1>c
<1>3. HeadersOK'
  <2>1. ASSUME NEW s \in Slots
        PROVE slots'[s][0].val \in {slots[s][0].val, 0, id}
    BY <1>c
  <2>2. \A s \in Slots : slots'[s][0].val < strtabLen
    BY <1>a, <2>1 DEF HeadersOK, TableOK
  <2>3. \A s \in Slots : slots'[s][0].type = NNPKG_PROP_TYPE_PKG => slots'[s][0].val >= 1
    BY <1>a, <1>2 DEF HeadersOK, Live
  <2> QED  BY <1>b, <2>2, <2>3 DEF HeadersOK, Live
<1>4. OwnStrings'
  <2>1. strtab[id] \in Names
    BY <1>a DEF TableOK
  <2>2. ASSUME NEW s \in Slots, slots'[s][0].type = NNPKG_PROP_TYPE_PKG
        PROVE  strtab[slots'[s][0].val] \in Names
    BY <1>a, <1>2, <2>1, <2>2 DEF OwnStrings, Live, NameAt
  <2>3. ASSUME NEW s \in Slots, NEW u \in Slots, s # u,
               slots'[s][0].type = NNPKG_PROP_TYPE_PKG,
               slots'[u][0].type = NNPKG_PROP_TYPE_PKG
        PROVE  slots'[s][0].val # slots'[u][0].val
    BY <1>a, <1>2, <2>3 DEF OwnStrings, Live
  <2> QED  BY <1>b, <2>2, <2>3 DEF OwnStrings, Live, NameAt
<1> QED  BY <1>1, <1>3, <1>4

(* Steps that leave the files alone and end at a label where p is not      *)
(* about to store an entry.                                                *)
LEMMA StringFrame ==
  ASSUME StringInv, UNCHANGED <<dbFile, slots, strVars>>, NEW p \in Procs,
         \A q \in Procs \ {p} : pc'[q] = pc[q] /\ db'[q] = db[q],
         pc'[p] \notin CreatePcs, pc'[p] # "storing",
         pc'[p] \in {"open", "closing"} => db'[p].strtabOff = strtabLen
  PROVE  StringInv'
<1>a. TableOK /\ HeadersOK /\ OwnStrings /\ \A q \in Procs : SessionStringsOK(q)
  BY StringInvParts
<1>b. /\ strtab' = strtab /\ strtabLen' = strtabLen /\ strFile' = strFile
      /\ dbFile' = dbFile /\ slots' = slots
  BY DEF strVars
<1>1. TableOK' /\ HeadersOK' /\ OwnStrings'
  BY <1>a, <1>b DEF TableOK, HeadersOK, OwnStrings, Live, NameAt
<1>2. SessionStringsOK(p)'
  BY <1>b DEF SessionStringsOK, Committing
<1>3. ASSUME NEW q \in Procs \ {p}
      PROVE  SessionStringsOK(q)'
  BY <1>a, <1>b, <1>3 DEF SessionStringsOK, Committing
<1> QED  BY <1>1, <1>2, <1>3, StringInvParts

(* Only the owner of the lock is committing. *)
LEMMA OneCommits ==
  ASSUME LockExclusion, NEW p \in Procs, Committing(p), NEW q \in Procs, q # p
  PROVE  ~Committing(q)
BY DEF LockExclusion, Committing, HoldPcs, SessionPcs

LEMMA StringOpen ==
  ASSUME StringInv, TypeInv, NEW p \in Procs,
         \/ OpenStat(p) \/ Open(p) \/ AddProp(p) \/ RemoveProp(p) \/ FindDies(p)
         \/ BeginClose(p) \/ CloseHeader(p) \/ CloseUnlock(p)
         \/ BusError(p) \/ Exit(p) \/ Crash(p)
  PROVE  StringInv'
<1>a. pc \in [Procs -> Pcs] /\ db \in [Procs -> Session]
  BY DEF TypeInv, TypeOK
<1>b. SessionStringsOK(p)
  BY StringInvParts
<1>1. CASE Leave(p) /\ UNCHANGED <<dbVars, strVars>>
  BY <1>a, <1>1, StringFrame DEF Leave, Goto, CreatePcs, dbVars
<1>2. CASE OpenStat(p) \/ OpenLock(p) \/ OpenMap(p)
  BY <1>a, <1>2, StringFrame DEF OpenStat, OpenLock, OpenMap, Goto, SetDb, CreatePcs, dbVars
<1>3. CASE OpenStrtab(p)
  BY <1>a, <1>3, StringFrame DEF OpenStrtab, StrtabEnd, Goto, SetDb, CreatePcs, dbVars, Session
<1>4. CASE OpenStrtabFails(p) /\ ~Leave(p)
  BY <1>a, <1>4, StringFrame DEF OpenStrtabFails, Goto, SetDb, CreatePcs, dbVars
<1>5. CASE AddProp(p) \/ RemoveProp(p)
  <2>1. pc' = pc /\ pc[p] = "open" /\ UNCHANGED <<dbFile, slots, strVars>>
    BY <1>5 DEF AddProp, RemoveProp, dbVars
  <2>2. db'[p].strtabOff = db[p].strtabOff /\ \A q \in Procs \ {p} : db'[q] = db[q]
    <3>1. CASE AddProp(p)
      BY <1>a, <3>1 DEF AddProp, SetDb, Session
    <3>2. CASE RemoveProp(p)
      BY <1>a, <3>2 DEF RemoveProp, SetDb, Session
    <3> QED  BY <1>5, <3>1, <3>2
  <2>3. db[p].strtabOff = strtabLen
    BY <1>b, <2>1 DEF SessionStringsOK, Committing
  <2> QED  BY <2>1, <2>2, <2>3, StringFrame DEF CreatePcs
<1>6. CASE BeginClose(p)
  <2>1. pc[p] = "open" /\ UNCHANGED <<dbFile, slots, strVars>>
    BY <1>6 DEF BeginClose, dbVars
  <2>2. db'[p].strtabOff = db[p].strtabOff /\ \A q \in Procs \ {p} : db'[q] = db[q]
    BY <1>a, <1>6 DEF BeginClose, SetDb, Session
  <2>3. db[p].strtabOff = strtabLen
    BY <1>b, <2>1 DEF SessionStringsOK, Committing
  <2>4. pc'[p] = "closing" /\ \A q \in Procs \ {p} : pc'[q] = pc[q]
    BY <1>a, <1>6 DEF BeginClose, Goto
  <2> QED  BY <2>1, <2>2, <2>3, <2>4, StringFrame DEF CreatePcs
<1>7. CASE CloseHeader(p)
  BY <1>a, <1>7, StringFrame DEF CloseHeader, Goto, CreatePcs, dbVars
<1> QED
  BY <1>1, <1>2, <1>3, <1>4, <1>5, <1>6, <1>7
     DEF Open, OpenLocked, OpenMapDies, OpenStrtabFails, FindDies, CloseUnlock,
         BusError, Exit, Crash

LEMMA StringRemove ==
  ASSUME StringInv, TypeInv, NEW p \in Procs, CloseRemove(p)
  PROVE  StringInv'
<1>a. /\ pc \in [Procs -> Pcs] /\ db \in [Procs -> Session]
      /\ slots \in [Slots -> Slot] /\ strtabLen \in Nat
  BY DEF TypeInv, TypeOK
<1>b. \A q \in Procs : SessionStringsOK(q)
  BY StringInvParts
<1>1. \A s \in Slots : slots'[s][0] \in {slots[s][0], ZeroWord}
  BY <1>a, Sizes DEF CloseRemove, InFile, ClearHeader, Slot, Words
<1>2. TableOK' /\ HeadersOK' /\ OwnStrings'
  BY <1>a, <1>1, HeadersKept DEF CloseRemove
<1>3. pc' = pc /\ UNCHANGED strVars
  BY DEF CloseRemove
<1>4. \A q \in Procs : db'[q].strtabOff = db[q].strtabOff /\ db'[q].newId = db[q].newId
  BY <1>a DEF CloseRemove, SetDb, Session
<1>5. ASSUME NEW q \in Procs
      PROVE  SessionStringsOK(q)'
  <2>1. SessionStringsOK(q) /\ strtabLen' = strtabLen
    BY <1>b, <1>3 DEF strVars
  <2>2. pc[q] = "storing" => \A s \in Slots : slots'[s][0].val # db[q].newId
    BY <1>1, <2>1 DEF SessionStringsOK, ZeroWord
  <2> QED  BY <1>3, <1>4, <2>1, <2>2 DEF SessionStringsOK, Committing
<1> QED  BY <1>2, <1>5, StringInvParts

LEMMA StringAlloc ==
  ASSUME StringInv, TypeInv, LockExclusion, NEW p \in Procs, CloseAlloc(p)
  PROVE  StringInv'
<1> DEFINE off == db[p].strtabOff
<1>a. /\ pc \in [Procs -> Pcs] /\ db \in [Procs -> Session]
      /\ strtabLen \in 0 .. MaxStrs + 1 /\ SessionFits("closing", db[p])
      /\ slots \in [Slots -> Slot]
      /\ strtab \in [Cells -> Names \cup {NoString, StrtabHeader}]
  BY DEF TypeInv, TypeOK, CloseAlloc, AllocPlace
<1>b. TableOK /\ HeadersOK /\ OwnStrings /\ \A q \in Procs : SessionStringsOK(q)
  BY StringInvParts
<1>c. pc[p] = "closing" /\ Committing(p)
  BY DEF CloseAlloc, AllocPlace, Committing
<1>1. off = strtabLen /\ strtabLen >= 1
  BY <1>b, <1>c DEF SessionStringsOK, TableOK
<1>2. off \in Cells /\ off + 1 \in 0 .. MaxStrs + 1
      /\ db[p].propsToAdd[db[p].added + 1].name \in Names
  <2>1. db[p].added # Len(db[p].propsToAdd) /\ numProps \in Nat
    BY DEF CloseAlloc, AllocPlace, AddsDone, TypeInv, TypeOK
  <2>2. off \in Cells /\ off + 1 \in 0 .. MaxStrs + 1 /\ ToAdd(db[p]) > 0
    BY <1>a, <2>1, AllocatedFits
  <2> QED  BY <1>a, <2>2, AddedEntry DEF Prop
<1>3. /\ strtab' = [strtab EXCEPT ![off] = db[p].propsToAdd[db[p].added + 1].name]
      /\ strtabLen' = strtabLen + 1
      /\ strFile' = strFile /\ dbFile' = dbFile /\ slots' = slots
  BY <1>a, <1>1 DEF CloseAlloc, AllocPlace, Larger, dbVars
<1>4. TableOK'
  <2>1. ASSUME NEW c \in Cells, 1 <= c, c < strtabLen + 1
        PROVE  strtab'[c] \in Names
    <3>1. CASE c = off
      BY <1>a, <1>2, <1>3, <3>1
    <3>2. CASE c # off
      <4>1. c < strtabLen
        BY <1>a, <1>1, <2>1, <3>2 DEF Cells
      <4>2. strtab'[c] = strtab[c]
        BY <1>a, <1>3, <3>2
      <4> QED  BY <1>b, <2>1, <4>1, <4>2 DEF TableOK
    <3> QED  BY <3>1, <3>2
  <2>2. strtabLen + 1 >= 1
    BY <1>a
  <2> QED  BY <1>b, <1>3, <2>1, <2>2 DEF TableOK
<1>5. \A s \in Slots : slots[s][0].val < strtabLen /\ slots[s][0].val # off
  <2>1. ASSUME NEW s \in Slots
        PROVE  slots[s][0].val < strtabLen /\ slots[s][0].val # off
    <3>1. slots[s][0].val \in Nat /\ strtabLen \in Nat
      BY <1>a, HeaderType DEF Cells
    <3>2. slots[s][0].val < strtabLen
      BY <1>b DEF HeadersOK
    <3> QED  BY <1>1, <3>1, <3>2
  <2> QED  BY <2>1
<1>6. HeadersOK'
  <2>1. ASSUME NEW s \in Slots
        PROVE  slots[s][0].val < strtabLen + 1
    <3>1. slots[s][0].val \in Nat /\ strtabLen \in Nat
      BY <1>a, HeaderType DEF Cells
    <3>2. slots[s][0].val < strtabLen
      BY <1>5
    <3> QED  BY <3>1, <3>2
  <2> QED  BY <1>b, <1>3, <2>1 DEF HeadersOK, Live
<1>7. OwnStrings'
  BY <1>a, <1>b, <1>3, <1>5 DEF OwnStrings, Live, NameAt
<1>8. SessionStringsOK(p)'
  <2>1. pc'[p] = "storing" /\ db'[p] = Allocated(db[p])
    BY <1>a DEF CloseAlloc, AllocPlace, Goto, SetDb
  <2>2. numProps \in Nat
    BY DEF TypeInv, TypeOK
  <2>3. Allocated(db[p]).newId = off /\ Allocated(db[p]).strtabOff = off + 1
    BY <1>a, <1>2, <2>2, AllocatedType
  <2> QED  BY <1>1, <1>3, <1>5, <2>1, <2>3, <1>a DEF SessionStringsOK, Committing, CreatePcs
<1>9. ASSUME NEW q \in Procs, q # p
      PROVE  SessionStringsOK(q)'
  <2>1. ~Committing(q) /\ pc'[q] = pc[q]
    BY <1>a, <1>c, <1>9, OneCommits DEF CloseAlloc, AllocPlace, Goto
  <2> QED  BY <1>b, <2>1 DEF SessionStringsOK, Committing
<1> QED  BY <1>4, <1>6, <1>7, <1>8, <1>9, StringInvParts

(* What is common to the two ways of storing an entry. *)
LEMMA StringStored ==
  ASSUME StringInv, TypeInv, LockExclusion, NEW p \in Procs,
         pc[p] = "storing", pc' = [pc EXCEPT ![p] = "closing"],
         db' = [db EXCEPT ![p] = Counted(db[p])]
               \/ \E e : db' = [db EXCEPT ![p] = [Counted(db[p]) EXCEPT !.curEnd = e]],
         UNCHANGED <<dbFile, strVars>>,
         TableOK', HeadersOK', OwnStrings'
  PROVE  StringInv'
<1>a. pc \in [Procs -> Pcs] /\ db \in [Procs -> Session]
  BY DEF TypeInv, TypeOK
<1>b. \A q \in Procs : SessionStringsOK(q)
  BY StringInvParts
<1>c. Committing(p)
  BY DEF Committing
<1>1. db'[p].strtabOff = db[p].strtabOff
  <2>1. db[p] \in Session
    BY <1>a
  <2>2. Counted(db[p]) \in Session /\ Counted(db[p]).strtabOff = db[p].strtabOff
    BY <2>1, CountedType
  <2>3. \A e : [Counted(db[p]) EXCEPT !.curEnd = e].strtabOff = db[p].strtabOff
    BY <2>2 DEF Session
  <2> QED  BY <1>a, <2>2, <2>3
<1>2. SessionStringsOK(p)'
  BY <1>a, <1>b, <1>c, <1>1 DEF SessionStringsOK, Committing, CreatePcs, strVars
<1>3. ASSUME NEW q \in Procs, q # p
      PROVE  SessionStringsOK(q)'
  <2>1. ~Committing(q) /\ pc'[q] = pc[q]
    BY <1>a, <1>c, <1>3, OneCommits
  <2> QED  BY <1>b, <2>1 DEF SessionStringsOK, Committing
<1> QED  BY <1>2, <1>3, StringInvParts

(* Storing an entry puts its header in one slot of the file, or in none,   *)
(* and leaves or clears the other headers.                                 *)
LEMMA StoreHeaders ==
  ASSUME TypeInv, NEW p \in Procs, CloseAppend(p) \/ CloseReuse(p)
  PROVE  \E t \in Nat : \A s \in Slots :
           \/ slots'[s][0] \in {slots[s][0], ZeroWord}
           \/ /\ s = t /\ s < numSlots'
              /\ slots'[s][0] = [val |-> db[p].newId, type |-> NNPKG_PROP_TYPE_PKG]
<1> DEFINE id == db[p].newId
<1>a. /\ pc \in [Procs -> Pcs] /\ db \in [Procs -> Session] /\ slots \in [Slots -> Slot]
      /\ pc[p] = "storing" /\ SessionFits("storing", db[p]) /\ numSlots \in Nat
  BY DEF TypeInv, TypeOK, CloseAppend, CloseReuse
<1>2. EntryImage(p)[0] = [val |-> id, type |-> NNPKG_PROP_TYPE_PKG]
  BY Sizes DEF EntryImage, Serialize, Words
<1>3. CASE CloseAppend(p)
  <2>1. db[p].curEnd \in Slots /\ db[p].curEnd \in Nat
    <3>1. db[p].curEnd \in 0 .. MaxSlots
      BY <1>a, SessionFields
    <3>2. db[p].curEnd \in Slots
      BY <1>a, AppendedFits
    <3> QED  BY <3>1, <3>2
  <2>2. numSlots' \in Nat /\ db[p].curEnd < numSlots'
    BY <1>3, <1>a, <2>1 DEF CloseAppend, Larger
  <2>3. \A s \in Slots : \/ slots'[s][0] \in {slots[s][0], ZeroWord}
                         \/ /\ s = db[p].curEnd
                            /\ slots'[s][0] = [val |-> id, type |-> NNPKG_PROP_TYPE_PKG]
    BY <1>a, <1>2, <1>3 DEF CloseAppend
  <2> QED  BY <2>1, <2>2, <2>3
<1>4. CASE CloseReuse(p)
  <2> DEFINE pos == db[p].newProp
             m == StoreAtWord(slots, pos, EntryImage(p))
  <2>1. pos \in Nat /\ 0 \in Words
    BY <1>a, <1>4, SessionFields DEF CloseReuse, Words
  <2>2. ASSUME NEW s \in Slots
        PROVE  \/ m[s][0] \in {slots[s][0], ZeroWord}
               \/ s = 0 /\ m[s][0] = EntryImage(p)[0]
    <3>1. CASE s = 0
      <4>1. m[s] = [w \in Words |-> IF w < pos THEN slots[0][w] ELSE EntryImage(p)[w - pos]]
        BY <3>1 DEF StoreAtWord
      <4>2. m[s][0] = IF 0 < pos THEN slots[0][0] ELSE EntryImage(p)[0 - pos]
        BY <2>1, <4>1
      <4>3. ~(0 < pos) => 0 - pos = 0
        BY <2>1
      <4> QED  BY <3>1, <4>2, <4>3
    <3>2. CASE s = 1
      <4>1. m[s] = [w \in Words |-> IF w < pos THEN ZeroWord ELSE slots[1][w]]
        BY <3>2 DEF StoreAtWord
      <4> QED  BY <2>1, <3>2, <4>1
    <3>3. CASE s # 0 /\ s # 1
      BY <3>3 DEF StoreAtWord
    <3> QED  BY <3>1, <3>2, <3>3
  <2>3. \A s \in Slots : slots'[s] = IF s < numSlots THEN m[s] ELSE slots[s]
    BY <1>4 DEF CloseReuse, InFile
  <2>4. numSlots' = numSlots
    BY <1>4 DEF CloseReuse
  <2>5. ASSUME NEW s \in Slots
        PROVE  \/ slots'[s][0] \in {slots[s][0], ZeroWord}
               \/ /\ s = 0 /\ s < numSlots'
                  /\ slots'[s][0] = [val |-> id, type |-> NNPKG_PROP_TYPE_PKG]
    <3>1. CASE s < numSlots
      BY <1>2, <2>2, <2>3, <2>4, <3>1
    <3>2. CASE ~(s < numSlots)
      BY <2>3, <3>2
    <3> QED  BY <3>1, <3>2
  <2> QED  BY <2>5
<1> QED  BY <1>3, <1>4

LEMMA StringStore ==
  ASSUME StringInv, TypeInv, LockExclusion, NEW p \in Procs,
         CloseAppend(p) \/ CloseReuse(p)
  PROVE  StringInv'
<1> DEFINE id == db[p].newId
<1>a. /\ pc \in [Procs -> Pcs] /\ db \in [Procs -> Session]
      /\ slots \in [Slots -> Slot] /\ strtabLen \in 0 .. MaxStrs + 1
  BY DEF TypeInv, TypeOK
<1>b. pc[p] = "storing" /\ UNCHANGED <<dbFile, strVars>>
      /\ pc' = [pc EXCEPT ![p] = "closing"]
  BY DEF CloseAppend, CloseReuse, EndStore, Goto
<1>c. SessionStringsOK(p) /\ id \in Cells
  BY <1>a, StringInvParts DEF Session
<1>1. id >= 1 /\ id < strtabLen /\ \A s \in Slots : slots[s][0].val # id
  BY <1>a, <1>b, <1>c DEF SessionStringsOK, Cells
<1>2. PICK t \in Nat :
        \A s \in Slots : \/ slots'[s][0] \in {slots[s][0], ZeroWord}
                         \/ /\ s = t
                            /\ slots'[s][0] = [val |-> id, type |-> NNPKG_PROP_TYPE_PKG]
  BY StoreHeaders
<1>3. TableOK' /\ HeadersOK' /\ OwnStrings'
  <2>1. CASE t \in Slots
    BY <1>a, <1>b, <1>c, <1>1, <1>2, <2>1, HeaderStored
  <2>2. CASE t \notin Slots
    <3>1. \A s \in Slots : slots'[s][0] \in {slots[s][0], ZeroWord}
      BY <1>2, <2>2
    <3> QED  BY <1>a, <1>b, <3>1, HeadersKept
  <2> QED  BY <2>1, <2>2
<1>4. db' = [db EXCEPT ![p] = Counted(db[p])]
      \/ \E e : db' = [db EXCEPT ![p] = [Counted(db[p]) EXCEPT !.curEnd = e]]
  BY DEF CloseAppend, CloseReuse, SetDb
<1> QED  BY <1>b, <1>3, <1>4, StringStored

(* Without init among the processes, and as long as what is written        *)
(* reaches the files, the string table is never appended to anywhere but   *)
(* at its end, killed sessions included.                                   *)
LEMMA StringStep ==
  ASSUME Initers = {}, Faulty = {}, TypeInv, LockExclusion, StringInv, [Next]_vars
  PROVE  StringInv'
<1>1. CASE UNCHANGED vars
  BY <1>1 DEF vars, StringInv, FreshStrings, OwnStrings, Live, NameAt, Committing
<1>2. ASSUME NEW p \in Procs, Create(p)
      PROVE  FALSE
  <2>1. SessionStringsOK(p)
    BY StringInvParts
  <2> QED
    BY <1>2, <2>1 DEF SessionStringsOK, Create, CreateStat, CreatDb, WriteHeader,
         StrtabStat, CreatStrtab, WriteStrtabHeader, CreatePcs
<1>3. ASSUME NEW p \in Procs
      PROVE  ~CloseAllocFails(p) /\ ~CloseAppendFails(p)
  BY DEF CloseAllocFails, CloseAppendFails
<1> QED
  BY <1>1, <1>2, <1>3, StringOpen, StringRemove, StringAlloc, StringStore DEF Next, Close

LEMMA StringInit ==
  ASSUME Initers = {}, Init
  PROVE  StringInv
<1>1. \A s \in Slots : slots[s][0] = ZeroWord
  BY Sizes DEF Init, ZeroSlot, Words
<1>2. \A s \in Slots : slots[s][0].val = 0 /\ ~Live(s)
  BY <1>1 DEF ZeroWord, Live, NNPKG_PROP_TYPE_PKG, NNPKG_PROP_TYPE_INVALID
<1>3. dbFile = "ready" /\ strFile = "ready" /\ strtabLen = 1
  BY DEF Init
<1>4. \A p \in Procs : pc[p] = "idle"
  BY DEF Init
<1>5. TableOK /\ HeadersOK /\ OwnStrings
  BY <1>2, <1>3 DEF TableOK, HeadersOK, OwnStrings, Cells
<1> QED
  BY <1>2, <1>3, <1>4, <1>5 DEF StringInv, FreshStrings, TableOK, HeadersOK,
     Committing, CreatePcs

LEMMA StringInvariant ==
  ASSUME Initers = {}, Faulty = {}
  PROVE  Spec => []StringInv
<1>1. Init => StringInv
  BY StringInit
<1>2. TypeInv /\ LockExclusion /\ StringInv /\ [Next]_vars => StringInv'
  BY StringStep
<1> QED  BY <1>1, <1>2, TypeInvariant, Exclusion, PTL DEF Spec

(* Once init has run, and while no write fails, every stored property has  *)
(* a name of its own in the string table, whatever is removed, reused or   *)
(* killed (strtab.c:133).                                                  *)
THEOREM StringsAreOwned ==
  ASSUME Initers = {}, Faulty = {}
  PROVE  Spec => []OwnStrings
<1>1. StringInv => OwnStrings
  BY DEF StringInv
<1> QED  BY <1>1, StringInvariant, PTL

(* Once init has run, and while no write fails, the assertion of           *)
(* PropDbGetString (strtab.c:146) never fails in an open session.          *)
THEOREM IndexNeverOutOfBounds ==
  ASSUME Initers = {}, Faulty = {}
  PROVE  Spec => []StringIndexInBounds
<1>1. StringInv => StringIndexInBounds
  BY DEF StringInv, FreshStrings, StringIndexInBounds
<1> QED  BY <1>1, StringInvariant, PTL

-----------------------------------------------------------------------------
(* Sessions see only their own changes.                                    *)

(* Every action of one process. *)
StepOf(p) ==
  \/ Create(p) \/ OpenStat(p) \/ Open(p)
  \/ AddProp(p) \/ RemoveProp(p) \/ FindDies(p)
  \/ BeginClose(p) \/ Close(p) \/ BusError(p) \/ Exit(p) \/ Crash(p)

(* Once init has run nothing takes its files back, failing writes and      *)
(* kills included.                                                         *)
LEMMA NoCreate ==
  ASSUME InitDone, NEW p \in Procs
  PROVE  ~Create(p)
BY DEF InitDone, Create, CreateStat, DbMissing, CreatDb, WriteHeader, StrtabStat,
       CreatStrtab, WriteStrtabHeader, CreatePcs

LEMMA InitDoneStep ==
  ASSUME TypeInv, InitDone, [Next]_vars
  PROVE  InitDone'
<1>a. pc \in [Procs -> Pcs]
  BY DEF TypeInv, TypeOK
<1>1. CASE UNCHANGED vars
  BY <1>1 DEF vars, InitDone
<1>2. ASSUME NEW p \in Procs, StepOf(p)
      PROVE  InitDone'
  <2>1. UNCHANGED <<dbFile, strFile>>
    BY <1>2, NoCreate DEF StepOf, OpenStat, Open, OpenLock, OpenLocked, OpenMap,
       OpenMapDies, OpenStrtab, OpenStrtabFails, AddProp, RemoveProp, FindDies,
       BeginClose, Close, CloseRemove, CloseAlloc, CloseAllocFails, AllocPlace,
       CloseAppend, CloseAppendFails, CloseReuse, EndStore, CloseHeader, CloseUnlock,
       BusError, Exit, Crash, dbVars, strVars
  <2>2. pc' = pc \/ \E l \in Pcs \ CreatePcs : pc' = [pc EXCEPT ![p] = l]
    BY <1>2, NoCreate DEF StepOf, OpenStat, Open, OpenLock, OpenLocked, OpenMap,
       OpenMapDies, OpenStrtab, OpenStrtabFails, AddProp, RemoveProp, FindDies,
       BeginClose, Close, CloseRemove, CloseAlloc, CloseAllocFails, AllocPlace,
       CloseAppend, CloseAppendFails, CloseReuse, EndStore, CloseHeader, CloseUnlock,
       BusError, Exit, Crash, Leave, Goto, Pcs, HoldPcs, SessionPcs, CreatePcs
  <2>3. \A q \in Procs : pc'[q] \notin CreatePcs
    BY <1>a, <2>2 DEF InitDone
  <2> QED  BY <2>1, <2>3 DEF InitDone
<1> QED  BY <1>1, <1>2 DEF Next, StepOf

LEMMA InitDoneInvariant ==
  ASSUME Initers = {}
  PROVE  Spec => []InitDone
<1>1. Init => InitDone
  BY DEF Init, InitDone, CreatePcs
<1>2. TypeInv /\ InitDone /\ [Next]_vars => InitDone'
  BY InitDoneStep
<1> QED  BY <1>1, <1>2, TypeInvariant, PTL DEF Spec

(* With init done, a step that changes a file is one of a session that is  *)
(* committing, and moves that session on.                                  *)
LEMMA WriterCommits ==
  ASSUME TypeInv, InitDone, NEW p \in Procs, StepOf(p)
  PROVE  \/ UNCHANGED <<dbVars, strVars>>
         \/ Committing(p) /\ (pc'[p] # pc[p] \/ db'[p] # db[p])
<1>a. pc \in [Procs -> Pcs] /\ db \in [Procs -> Session]
  BY DEF TypeInv, TypeOK
<1>1. ~Create(p)
  BY NoCreate
<1>2. CASE CloseRemove(p)
  <2>1. db'[p].removed = db[p].removed + 1 /\ db[p].removed \in Nat
    BY <1>a, <1>2 DEF CloseRemove, SetDb, Session
  <2>2. db'[p] # db[p]
    BY <2>1
  <2> QED  BY <1>2, <2>2 DEF CloseRemove, Committing
<1>3. CASE \/ CloseAlloc(p) \/ CloseAllocFails(p) \/ CloseAppend(p)
           \/ CloseAppendFails(p) \/ CloseReuse(p) \/ CloseHeader(p)
  BY <1>a, <1>3 DEF CloseAlloc, CloseAllocFails, AllocPlace, CloseAppend,
       CloseAppendFails, CloseReuse, CloseHeader, EndStore, Goto, Committing
<1>4. CASE \/ OpenStat(p) \/ Open(p) \/ AddProp(p) \/ RemoveProp(p) \/ FindDies(p)
           \/ BeginClose(p) \/ CloseUnlock(p) \/ BusError(p) \/ Exit(p) \/ Crash(p)
  BY <1>4 DEF OpenStat, Open, OpenLock, OpenLocked, OpenMap, OpenMapDies, OpenStrtab,
       OpenStrtabFails, AddProp, RemoveProp, FindDies, BeginClose, CloseUnlock,
       BusError, Exit, Crash
<1> QED  BY <1>1, <1>2, <1>3, <1>4 DEF StepOf, Close

LEMMA IsolationStep ==
  ASSUME TypeInv, LockExclusion, InitDone, [Next]_vars,
         NEW p \in Procs, Committing(p), pc'[p] = pc[p], db'[p] = db[p]
  PROVE  UNCHANGED <<dbVars, strVars>>
<1>1. CASE UNCHANGED vars
  BY <1>1 DEF vars, dbVars, strVars
<1>2. ASSUME NEW q \in Procs, StepOf(q)
      PROVE  UNCHANGED <<dbVars, strVars>>
  <2>1. CASE q = p
    BY <1>2, <2>1, WriterCommits
  <2>2. CASE q # p
    BY <1>2, <2>2, WriterCommits, OneCommits
  <2> QED  BY <2>1, <2>2
<1> QED  BY <1>1, <1>2 DEF Next, StepOf

(* Once init has run, nothing changes under an open session, whatever      *)
(* other processes try or fail to write and wherever they are killed       *)
(* (propdb.c:179).                                                         *)
THEOREM SessionsAreIsolated ==
  ASSUME Initers = {}
  PROVE  Spec => SessionIsolation
<1>1. TypeInv /\ LockExclusion /\ InitDone /\ [Next]_vars
        => [\A p \in Procs :
              Committing(p) /\ pc'[p] = pc[p] /\ db'[p] = db[p]
                => UNCHANGED <<dbVars, strVars>>]_vars
  BY IsolationStep
<1> QED
  BY <1>1, TypeInvariant, Exclusion, InitDoneInvariant, PTL DEF Spec, SessionIsolation

-----------------------------------------------------------------------------
(* The count in the header covers the file, as long as nothing is killed.  *)

Covers(q) ==
  LET d == db[q] IN
    /\ pc[q] \notin CreatePcs \cup {"idle"} => d.sz <= numSlots
    /\ pc[q] \in HoldPcs \ {"closing", "storing"} => numSlots <= numProps
    /\ pc[q] \in {"closing", "storing"} => numSlots <= d.numProps /\ d.curEnd <= d.numProps

LEMMA HiddenParts ==
  /\ HiddenInv <=> NeverHidden /\ \A q \in Procs : Covers(q)
  /\ HiddenInv' <=> NeverHidden' /\ \A q \in Procs : Covers(q)'
BY DEF HiddenInv, CountCovers, Covers

(* A step of p: the file may only grow, and file and count change only if  *)
(* p holds the lock.                                                       *)
LEMMA HiddenFrame ==
  ASSUME HiddenInv, TypeInv, LockExclusion, NEW p \in Procs,
         \A q \in Procs \ {p} : pc'[q] = pc[q] /\ db'[q] = db[q],
         numSlots' \in Nat, numSlots' >= numSlots,
         pc[p] \in HoldPcs \/ (numSlots' = numSlots /\ numProps' = numProps),
         Covers(p)', lock' = NoProc => numSlots' <= numProps'
  PROVE  HiddenInv'
<1>1. ASSUME NEW q \in Procs \ {p}
      PROVE  Covers(q)'
  <2>1. Covers(q) /\ pc'[q] = pc[q] /\ db'[q] = db[q]
    BY HiddenParts
  <2>2. db[q].sz \in Int /\ numSlots \in Nat
    BY SessionFields DEF TypeInv, TypeOK
  <2>3. pc[q] \notin CreatePcs \cup {"idle"} => db'[q].sz <= numSlots'
    BY <2>1, <2>2 DEF Covers
  <2>4. CASE pc[p] \in HoldPcs
    BY <2>1, <2>3, <2>4 DEF Covers, LockExclusion, HoldPcs, SessionPcs
  <2>5. CASE numSlots' = numSlots /\ numProps' = numProps
    BY <2>1, <2>5 DEF Covers
  <2> QED  BY <2>4, <2>5
<1>2. NeverHidden'
  BY DEF NeverHidden
<1> QED  BY <1>1, <1>2, HiddenParts

LEMMA HiddenLeave ==
  ASSUME HiddenInv, TypeInv, LockExclusion, NEW p \in Procs, Leave(p),
         UNCHANGED <<numSlots, numProps>>, pc[p] \notin {"closing", "storing"}
  PROVE  HiddenInv'
<1>a. /\ pc \in [Procs -> Pcs] /\ db \in [Procs -> Session] /\ numSlots \in Nat
      /\ NeverHidden /\ Covers(p)
  BY HiddenParts DEF TypeInv, TypeOK
<1>1. pc'[p] = "idle" /\ \A q \in Procs \ {p} : pc'[q] = pc[q] /\ db'[q] = db[q]
  BY <1>a DEF Leave, Goto
<1>2. Covers(p)'
  BY <1>1 DEF Covers, HoldPcs, SessionPcs
<1>3. lock' = NoProc => numSlots' <= numProps'
  <2>1. CASE lock = p
    BY <1>a, <2>1 DEF Covers, LockExclusion
  <2>2. CASE lock # p
    BY <1>a, <2>2 DEF Leave, NeverHidden
  <2> QED  BY <2>1, <2>2
<1> QED  BY <1>a, <1>1, <1>2, <1>3, HiddenFrame

LEMMA HiddenOpen ==
  ASSUME HiddenInv, TypeInv, LockExclusion, NEW p \in Procs,
         OpenStat(p) \/ Open(p) \/ AddProp(p) \/ RemoveProp(p) \/ FindDies(p)
  PROVE  HiddenInv'
<1>a. /\ pc \in [Procs -> Pcs] /\ db \in [Procs -> Session] /\ numSlots \in Nat
      /\ NeverHidden /\ Covers(p) /\ p # NoProc
  BY HiddenParts, PropDbAssumption DEF TypeInv, TypeOK, PropDbAssumption
<1>1. CASE Leave(p) /\ UNCHANGED dbVars /\ pc[p] \in {"opening", "locked", "open_strtab", "open"}
  BY <1>1, HiddenLeave DEF dbVars
<1>2. CASE /\ ~Leave(p)
           /\ OpenStat(p) \/ OpenLock(p) \/ OpenMap(p) \/ OpenStrtab(p)
              \/ OpenStrtabFails(p) \/ AddProp(p) \/ RemoveProp(p)
  <2>1. UNCHANGED <<numSlots, numProps>>
    BY <1>2 DEF OpenStat, OpenLock, OpenMap, OpenStrtab, OpenStrtabFails, AddProp,
                RemoveProp, dbVars
  <2>2. \A q \in Procs \ {p} : pc'[q] = pc[q] /\ db'[q] = db[q]
    BY <1>a, <1>2 DEF OpenStat, OpenLock, OpenMap, OpenStrtab, OpenStrtabFails, AddProp,
                      RemoveProp, Goto, SetDb
  <2>3. /\ pc'[p] \in {"opening", "locked", "open_strtab", "open", "leaked"}
        /\ pc'[p] # "opening" => numSlots <= numProps
        /\ lock' = NoProc => lock = NoProc
    BY <1>a, <1>2 DEF OpenStat, OpenLock, OpenMap, OpenStrtab, OpenStrtabFails, AddProp,
         RemoveProp, Goto, LockFree, NeverHidden, Covers, HoldPcs, SessionPcs
  <2>4. db'[p].sz <= numSlots
    <3>1. CASE OpenStat(p)
      BY <1>a, <3>1 DEF OpenStat, SetDb, StatSize, NoSession
    <3>2. CASE OpenStrtabFails(p)
      BY <1>a, <1>2, <3>2 DEF OpenStrtabFails, SetDb, NoSession
    <3>3. CASE OpenLock(p) \/ OpenMap(p) \/ OpenStrtab(p) \/ AddProp(p) \/ RemoveProp(p)
      <4>1. db'[p].sz = db[p].sz
        <5>1. CASE OpenLock(p)
          BY <5>1 DEF OpenLock
        <5>2. CASE OpenMap(p)
          BY <1>a, <5>2 DEF OpenMap, SetDb, Session
        <5>3. CASE OpenStrtab(p)
          BY <1>a, <5>3 DEF OpenStrtab, SetDb, Session
        <5>4. CASE AddProp(p)
          BY <1>a, <5>4 DEF AddProp, SetDb, Session
        <5>5. CASE RemoveProp(p)
          BY <1>a, <5>5 DEF RemoveProp, SetDb, Session
        <5> QED  BY <3>3, <5>1, <5>2, <5>3, <5>4, <5>5
      <4>2. pc[p] \in {"opening", "locked", "open_strtab", "open"}
        BY <3>3 DEF OpenLock, OpenMap, OpenStrtab, AddProp, RemoveProp
      <4> QED  BY <1>a, <4>1, <4>2 DEF Covers, CreatePcs
    <3> QED  BY <1>2, <3>1, <3>2, <3>3
  <2>5. Covers(p)'
    BY <2>1, <2>3, <2>4 DEF Covers, HoldPcs, SessionPcs
  <2>6. lock' = NoProc => numSlots' <= numProps'
    BY <1>a, <2>1, <2>3 DEF NeverHidden
  <2> QED  BY <1>a, <2>1, <2>2, <2>5, <2>6, HiddenFrame
<1>3. CASE OpenLocked(p) \/ OpenMapDies(p) \/ FindDies(p)
  BY <1>1, <1>3 DEF OpenLocked, OpenMapDies, FindDies
<1>4. CASE OpenStrtabFails(p)
  BY <1>1, <1>2, <1>4 DEF OpenStrtabFails
<1>5. CASE OpenStat(p) \/ OpenLock(p) \/ OpenMap(p) \/ OpenStrtab(p) \/ AddProp(p)
           \/ RemoveProp(p)
  <2>1. UNCHANGED dbVars
        /\ pc[p] \in {"idle", "opening", "locked", "open_strtab", "open"}
    BY <1>5 DEF OpenStat, OpenLock, OpenMap, OpenStrtab, AddProp, RemoveProp
  <2>2. CASE Leave(p)
    BY <2>1, <2>2, HiddenLeave DEF dbVars
  <2> QED  BY <1>2, <1>5, <2>2
<1> QED  BY <1>3, <1>4, <1>5 DEF Open

LEMMA HiddenClose ==
  ASSUME HiddenInv, TypeInv, LockExclusion, NEW p \in Procs,
         \/ BeginClose(p) \/ CloseRemove(p) \/ CloseAlloc(p)
         \/ CloseAllocFails(p) \/ CloseAppend(p) \/ CloseAppendFails(p)
         \/ CloseReuse(p) \/ CloseHeader(p)
  PROVE  HiddenInv'
<1>a. /\ pc \in [Procs -> Pcs] /\ db \in [Procs -> Session]
      /\ numSlots \in Nat /\ numProps \in Nat /\ Covers(p) /\ p # NoProc
  BY HiddenParts, PropDbAssumption DEF TypeInv, TypeOK, PropDbAssumption
<1>b. /\ db[p] \in Session /\ db[p].sz \in Int /\ db[p].curEnd \in Nat
      /\ db[p].numProps \in Nat
  BY <1>a, SessionFields
<1>1. pc[p] \in HoldPcs /\ lock' # NoProc
  BY <1>a DEF BeginClose, CloseRemove, CloseAlloc, CloseAllocFails, AllocPlace,
              CloseAppend, CloseAppendFails, CloseReuse, CloseHeader,
              EndStore, LockExclusion, HoldPcs, SessionPcs
<1>2. \A q \in Procs \ {p} : pc'[q] = pc[q] /\ db'[q] = db[q]
  BY <1>a DEF BeginClose, CloseRemove, CloseAlloc, CloseAllocFails, AllocPlace,
              CloseAppend, CloseAppendFails, CloseReuse, CloseHeader,
              EndStore, Goto, SetDb
<1>c. /\ pc[p] \in HoldPcs \/ (numSlots' = numSlots /\ numProps' = numProps)
      /\ lock' = NoProc => numSlots' <= numProps'
  BY <1>1
<1>3. db[p].sz <= numSlots
  BY <1>a DEF BeginClose, CloseRemove, CloseAlloc, CloseAllocFails, AllocPlace,
              CloseAppend, CloseAppendFails, CloseReuse, CloseHeader,
              Covers, CreatePcs
<1>4. CASE BeginClose(p)
  <2>1. pc'[p] = "closing" /\ numSlots' = numSlots /\ pc[p] = "open"
    BY <1>a, <1>4 DEF BeginClose, Goto, dbVars
  <2>2. /\ db'[p].sz = db[p].sz /\ db'[p].curEnd = db[p].sz /\ db'[p].numProps = numProps
    BY <1>a, <1>4 DEF BeginClose, SetDb, AppendAt, Session
  <2>3. numSlots <= numProps
    BY <1>a, <2>1 DEF Covers, HoldPcs, SessionPcs
  <2>4. db[p].sz <= numProps
    BY <1>a, <1>b, <1>3, <2>3
  <2>5. Covers(p)'
    BY <1>3, <2>1, <2>2, <2>3, <2>4 DEF Covers
  <2>6. numSlots' \in Nat /\ numSlots' >= numSlots
    BY <1>a, <2>1
  <2> QED  BY <1>c, <1>2, <2>5, <2>6, HiddenFrame
<1>5. CASE CloseRemove(p) \/ CloseAlloc(p) \/ CloseAllocFails(p)
  <2>1. pc[p] = "closing" /\ pc'[p] \in {"closing", "storing"} /\ numSlots' = numSlots
    BY <1>a, <1>5 DEF CloseRemove, CloseAlloc, CloseAllocFails, AllocPlace, Goto, dbVars
  <2>2. db'[p].sz = db[p].sz /\ db'[p].curEnd = db[p].curEnd
        /\ db'[p].numProps = db[p].numProps
    <3>1. CASE CloseRemove(p)
      BY <1>a, <3>1 DEF CloseRemove, SetDb, Session
    <3>2. CASE CloseAlloc(p) \/ CloseAllocFails(p)
      <4> DEFINE a == Allocated(db[p])
      <4>1. SessionFits("closing", db[p]) /\ db[p].added # Len(db[p].propsToAdd)
        BY <2>1, <3>2 DEF CloseAlloc, CloseAllocFails, AllocPlace, AddsDone, TypeInv
      <4>2. db[p].strtabOff \in Cells /\ db[p].strtabOff + 1 \in 0 .. MaxStrs + 1
        BY <1>a, <1>b, <4>1, AllocatedFits
      <4>3. /\ a \in Session /\ a.sz = db[p].sz /\ a.curEnd = db[p].curEnd
            /\ a.numProps = db[p].numProps
        BY <1>a, <1>b, <4>2, AllocatedType
      <4>4. db'[p] = a \/ db'[p] = [a EXCEPT !.failed = TRUE]
        BY <1>a, <3>2 DEF CloseAlloc, CloseAllocFails, SetDb
      <4> HIDE DEF a
      <4> QED  BY <4>3, <4>4, FailedType
    <3> QED  BY <1>5, <3>1, <3>2
  <2>3. numSlots <= db[p].numProps /\ db[p].curEnd <= db[p].numProps
    BY <1>a, <2>1 DEF Covers
  <2>4. Covers(p)'
    BY <1>3, <2>1, <2>2, <2>3 DEF Covers, HoldPcs, SessionPcs
  <2>5. numSlots' \in Nat /\ numSlots' >= numSlots
    BY <1>a, <2>1
  <2> QED  BY <1>c, <1>2, <2>4, <2>5, HiddenFrame
<1>6. CASE CloseAppend(p) \/ CloseAppendFails(p) \/ CloseReuse(p)
  <2>1. pc[p] = "storing" /\ pc'[p] = "closing"
    BY <1>a, <1>6 DEF CloseAppend, CloseAppendFails, CloseReuse, EndStore, Goto
  <2>2. numSlots <= db[p].numProps /\ db[p].curEnd <= db[p].numProps
    BY <1>a, <2>1 DEF Covers
  <2>3. /\ Counted(db[p]) \in Session /\ Counted(db[p]).sz = db[p].sz
        /\ Counted(db[p]).curEnd = db[p].curEnd
        /\ Counted(db[p]).numProps = db[p].numProps + 1
    BY <1>b, CountedType
  <2>4. /\ db'[p].sz = db[p].sz /\ db'[p].numProps = db[p].numProps + 1
        /\ db'[p].curEnd \in {db[p].curEnd, db[p].curEnd + 1}
    <3>1. CASE CloseReuse(p)
      BY <1>a, <2>3, <3>1 DEF CloseReuse, SetDb
    <3>2. CASE CloseAppend(p)
      BY <1>a, <2>3, <3>2 DEF CloseAppend, SetDb, Session
    <3>3. CASE CloseAppendFails(p)
      BY <1>a, <2>3, <3>3 DEF CloseAppendFails, SetDb, Session
    <3> QED  BY <1>6, <3>1, <3>2, <3>3
  <2>5. numSlots' \in {numSlots, db[p].curEnd + 1} /\ numSlots' >= numSlots
    BY <1>a, <1>b, <1>6 DEF CloseAppend, CloseAppendFails, CloseReuse, Larger
  <2>6. numSlots' <= db'[p].numProps /\ db'[p].curEnd <= db'[p].numProps
        /\ db'[p].sz <= numSlots' /\ numSlots' \in Nat
    BY <1>a, <1>b, <1>3, <2>2, <2>4, <2>5
  <2>7. Covers(p)'
    BY <2>1, <2>6 DEF Covers
  <2> QED  BY <1>c, <1>2, <2>5, <2>6, <2>7, HiddenFrame
<1>7. CASE CloseHeader(p)
  <2>1. /\ pc[p] = "closing" /\ pc'[p] = "closed" /\ db' = db
        /\ numSlots' = numSlots /\ numProps' = db[p].numProps
    BY <1>a, <1>7 DEF CloseHeader, Goto
  <2>2. numSlots <= db[p].numProps
    BY <1>a, <2>1 DEF Covers
  <2>3. Covers(p)'
    BY <1>3, <2>1, <2>2 DEF Covers
  <2>4. numSlots' \in Nat /\ numSlots' >= numSlots
    BY <1>a, <2>1
  <2> QED  BY <1>c, <1>2, <2>3, <2>4, HiddenFrame
<1> QED  BY <1>4, <1>5, <1>6, <1>7

LEMMA HiddenStep ==
  ASSUME Crashable = {}, TypeInv, LockExclusion, InitDone, HiddenInv, [Next]_vars
  PROVE  HiddenInv'
<1>1. CASE UNCHANGED vars
  BY <1>1 DEF vars, HiddenInv, NeverHidden, CountCovers
<1>2. ASSUME NEW p \in Procs, StepOf(p)
      PROVE  HiddenInv'
  <2>1. ~Create(p)
    BY NoCreate
  <2>2. ~BusError(p) /\ ~Crash(p)
    BY DEF InitDone, BusError, Crash, HeaderMapped
  <2>3. CASE CloseUnlock(p) \/ Exit(p)
    BY <2>3, HiddenLeave DEF CloseUnlock, Exit, dbVars
  <2> QED  BY <1>2, <2>1, <2>2, <2>3, HiddenOpen, HiddenClose DEF StepOf, Close
<1> QED  BY <1>1, <1>2 DEF Next, StepOf

LEMMA HiddenInit == Init => HiddenInv
BY DEF Init, HiddenInv, NeverHidden, CountCovers, CreatePcs, HoldPcs, SessionPcs

LEMMA HiddenInvariant ==
  ASSUME Initers = {}, Crashable = {}
  PROVE  Spec => []HiddenInv
<1>1. Init => HiddenInv
  BY HiddenInit
<1>2. TypeInv /\ LockExclusion /\ InitDone /\ HiddenInv /\ [Next]_vars => HiddenInv'
  BY HiddenStep
<1> QED  BY <1>1, <1>2, TypeInvariant, Exclusion, InitDoneInvariant, PTL DEF Spec

(* When no process is killed, the header of a closed database counts every *)
(* slot of the file, however many processes overlap and however old the    *)
(* sizes they took before they had the lock, on a full disk too            *)
(* (propdb.c:159, 402).                                                    *)
THEOREM NothingIsHidden ==
  ASSUME Initers = {}, Crashable = {}
  PROVE  Spec => []NeverHidden
<1>1. HiddenInv => NeverHidden
  BY DEF HiddenInv
<1> QED  BY <1>1, HiddenInvariant, PTL
=============================================================================
