------------------------- MODULE PropDbAppend_proofs -------------------------
(***************************************************************************)
(* Proofs about the property database engine (PropDb) when one process at  *)
(* most uses it and removes nothing: what has been written stays, through  *)
(* kills and failing writes, and without those the engine implements the   *)
(* abstract store (PropStore).                                             *)
(***************************************************************************)
EXTENDS PropDb_proofs, FiniteSetTheorems

(* The hypotheses: init has been run, nothing is removed, one process. *)
OneAppender ==
  Initers = {} /\ Removers = {} /\ \A p, q \in Procs : p = q

-----------------------------------------------------------------------------
(* The invariant.                                                          *)

(* Property q is in a slot of the file, under an index the table has. *)
Stored(q) ==
  \E s \in Slots : /\ s < numSlots /\ slots[s][0].val < strtabLen
                   /\ NameAt(slots, strtab, s) = q.name /\ DataAt(slots, s) = q.data

(* A session appends behind all the file holds, of entries and of strings. *)
AppendsBehind(l, d) ==
  /\ d.numFreeProps = 0 /\ d.newProp = -1 /\ d.propsToRm = <<>>
  /\ l \in {"opening", "locked", "open_strtab", "open"} => d.sz = numSlots
  /\ l \in {"closing", "storing"} => numSlots <= d.curEnd /\ numProps <= d.numProps
  /\ l \in {"open", "closing", "storing"} => strtabLen <= d.strtabOff

(* As long as none of its writes failed, what it has appended is stored.   *)
StoresAll(l, d) ==
  /\ l \in {"open", "closing", "storing"} => d.strtabOff = strtabLen
  /\ l \in {"closing", "storing"} => \A i \in 1 .. d.added : Stored(d.propsToAdd[i])
  /\ l = "storing" => /\ d.newId < strtabLen
                      /\ strtab[d.newId] = d.propsToAdd[d.added + 1].name

AppendSession(l, d) == AppendsBehind(l, d) /\ (~d.failed => StoresAll(l, d))

AppendInv ==
  /\ numFreeProps = 0
  /\ \A p \in Procs : AppendSession(pc[p], db[p])
  /\ \A q \in promised : Stored(q)

(* What the files hold stays. *)
FilesKept ==
  /\ numSlots <= numSlots' /\ strtabLen <= strtabLen'
  /\ \A s \in Slots : s < numSlots => slots'[s] = slots[s]
  /\ \A c \in Cells : c < strtabLen => strtab'[c] = strtab[c]

-----------------------------------------------------------------------------
LEMMA StoredKept ==
  ASSUME TypeOK, TypeOK', FilesKept, NEW q, Stored(q)
  PROVE  Stored(q)'
<1>1. PICK s \in Slots : /\ s < numSlots /\ slots[s][0].val < strtabLen
                         /\ strtab[slots[s][0].val] = q.name /\ DataAt(slots, s) = q.data
  BY DEF Stored, NameAt
<1>2. /\ slots'[s] = slots[s] /\ strtab'[slots[s][0].val] = strtab[slots[s][0].val]
  BY <1>1, HeaderType DEF FilesKept, TypeOK
<1>3. s < numSlots' /\ slots[s][0].val < strtabLen'
  <2>1. slots[s][0].val \in Nat /\ s \in Nat
    BY HeaderType DEF TypeOK, Cells, Slots
  <2>2. /\ numSlots \in Nat /\ numSlots' \in Nat
        /\ strtabLen \in Nat /\ strtabLen' \in Nat
    BY DEF TypeOK
  <2> QED  BY <1>1, <2>1, <2>2 DEF FilesKept
<1> QED  BY <1>1, <1>2, <1>3 DEF Stored, NameAt, DataAt

(* What holds of the one process holds of all. *)
LEMMA AppendFrame ==
  ASSUME OneAppender, TypeOK, TypeOK', AppendInv, FilesKept, UNCHANGED <<numFreeProps, promised>>,
         NEW p \in Procs, AppendSession(pc[p], db[p])'
  PROVE  AppendInv'
<1>1. \A q \in promised' : Stored(q)'
  BY StoredKept DEF AppendInv
<1>2. \A q \in Procs : AppendSession(pc[q], db[q])'
  <2>1. \A q \in Procs : q = p
    BY DEF OneAppender
  <2> QED  BY <2>1
<1> QED  BY <1>1, <1>2 DEF AppendInv

LEMMA FilesSame ==
  ASSUME TypeOK, UNCHANGED <<dbVars, strVars>>
  PROVE  FilesKept /\ UNCHANGED <<numProps, numFreeProps>>
BY DEF FilesKept, dbVars, strVars, TypeOK

(* A session that is over satisfies it. *)
LEMMA NoSessionAppends == AppendSession("idle", NoSession)
BY DEF AppendSession, AppendsBehind, StoresAll, NoSession

LEMMA AppendLeave ==
  ASSUME OneAppender, TypeInv, TypeInv', AppendInv, NEW p \in Procs, Leave(p),
         UNCHANGED <<dbVars, strVars, promised>>
  PROVE  AppendInv'
<1>1. pc'[p] = "idle" /\ db'[p] = NoSession
  BY DEF Leave, Goto, TypeInv, TypeOK
<1>2. AppendSession(pc[p], db[p])'
  BY <1>1, NoSessionAppends DEF AppendSession, AppendsBehind, StoresAll, NoSession
<1> QED  BY <1>2, FilesSame, AppendFrame DEF TypeInv

(* Opening, adding and beginning to close: the files are only read. *)
LEMMA AppendOpen ==
  ASSUME OneAppender, TypeInv, TypeInv', InitDone, AppendInv, NEW p \in Procs,
         OpenStat(p) \/ OpenLock(p) \/ OpenMap(p) \/ OpenStrtab(p) \/ AddProp(p)
           \/ BeginClose(p)
  PROVE  AppendInv'
<1>a. /\ pc \in [Procs -> Pcs] /\ db \in [Procs -> Session] /\ TypeOK /\ TypeOK'
      /\ AppendSession(pc[p], db[p]) /\ db[p] \in Session
  BY DEF TypeInv, TypeOK, AppendInv
<1>b. /\ dbFile = "ready" /\ numFreeProps = 0
      /\ numSlots \in Nat /\ numProps \in Nat /\ strtabLen \in Nat
  BY <1>a DEF InitDone, AppendInv, TypeOK
<1>c. UNCHANGED <<dbVars, strVars, promised>>
  BY DEF OpenStat, OpenLock, OpenMap, OpenStrtab, AddProp, BeginClose
<1>d. UNCHANGED <<numSlots, numProps, strtabLen, numFreeProps>> /\ FilesKept
  BY <1>a, <1>c, FilesSame DEF dbVars, strVars
<1>1. CASE OpenStat(p)
  <2>1. pc'[p] = "opening" /\ db'[p] = [NoSession EXCEPT !.sz = numSlots]
    BY <1>1, <1>a, <1>b DEF OpenStat, Goto, SetDb, StatSize
  <2>2. AppendSession("opening", [NoSession EXCEPT !.sz = numSlots])
    BY DEF AppendSession, AppendsBehind, StoresAll, NoSession
  <2>3. AppendSession(pc[p], db[p])'
    BY <1>d, <2>1, <2>2 DEF AppendSession, AppendsBehind, StoresAll, NoSession
  <2> QED  BY <1>a, <1>c, <1>d, <2>3, AppendFrame
<1>2. CASE OpenLock(p)
  <2>1. pc[p] = "opening" /\ pc'[p] = "locked" /\ db' = db
    BY <1>2, <1>a DEF OpenLock, Goto
  <2>2. AppendSession(pc[p], db[p])'
    BY <1>a, <1>d, <2>1 DEF AppendSession, AppendsBehind, StoresAll
  <2> QED  BY <1>a, <1>c, <1>d, <2>2, AppendFrame
<1>3. CASE OpenMap(p)
  <2>1. /\ pc[p] = "locked" /\ pc'[p] = "open_strtab"
        /\ db'[p] = [db[p] EXCEPT !.numFreeProps = 0]
    BY <1>3, <1>a, <1>b DEF OpenMap, Goto, SetDb
  <2>2. AppendSession(pc[p], db[p])'
    BY <1>a, <1>d, <2>1 DEF AppendSession, AppendsBehind, StoresAll, Session
  <2> QED  BY <1>a, <1>c, <1>d, <2>2, AppendFrame
<1>4. CASE OpenStrtab(p)
  <2>1. /\ pc[p] = "open_strtab" /\ pc'[p] = "open"
        /\ db'[p] = [db[p] EXCEPT !.strtabOff = strtabLen, !.strtabMapped = strtabLen > 0]
    BY <1>4, <1>a DEF OpenStrtab, Goto, SetDb, StrtabEnd
  <2>2. AppendSession(pc[p], db[p])'
    BY <1>a, <1>b, <1>d, <2>1 DEF AppendSession, AppendsBehind, StoresAll, Session
  <2> QED  BY <1>a, <1>c, <1>d, <2>2, AppendFrame
<1>5. CASE AddProp(p)
  <2>1. /\ pc[p] = "open" /\ pc' = pc
        /\ \E s : db'[p] = [db[p] EXCEPT !.propsToAdd = s]
    BY <1>5, <1>a DEF AddProp, SetDb
  <2>2. AppendSession(pc[p], db[p])'
    BY <1>a, <1>d, <2>1 DEF AppendSession, AppendsBehind, StoresAll, Session
  <2> QED  BY <1>a, <1>c, <1>d, <2>2, AppendFrame
<1>6. CASE BeginClose(p)
  <2>1. /\ pc[p] = "open" /\ pc'[p] = "closing"
        /\ db'[p] = [db[p] EXCEPT !.curEnd = db[p].sz, !.numProps = numProps]
    BY <1>6, <1>a DEF BeginClose, Goto, SetDb, AppendAt
  <2>2. db[p].added = 0 /\ db[p].sz = numSlots
    BY <1>a, <2>1 DEF TypeInv, SessionFits, AppendSession, AppendsBehind
  <2>3. /\ db'[p].numFreeProps = db[p].numFreeProps /\ db'[p].newProp = db[p].newProp
        /\ db'[p].propsToRm = db[p].propsToRm /\ db'[p].strtabOff = db[p].strtabOff
        /\ db'[p].failed = db[p].failed /\ db'[p].added = 0
        /\ db'[p].curEnd = numSlots /\ db'[p].numProps = numProps
    BY <1>a, <2>1, <2>2 DEF Session
  <2>4. AppendsBehind(pc[p], db[p])'
    BY <1>a, <1>b, <1>d, <2>1, <2>3 DEF AppendSession, AppendsBehind
  <2>5. ~db'[p].failed => StoresAll(pc[p], db[p])'
    BY <1>a, <1>d, <2>1, <2>3 DEF AppendSession, StoresAll
  <2> QED  BY <1>a, <1>c, <1>d, <2>4, <2>5, AppendFrame DEF AppendSession
<1> QED  BY <1>1, <1>2, <1>3, <1>4, <1>5, <1>6

(* With no free entry propDbAllocProp picks none. *)
LEMMA NoneFree ==
  ASSUME NEW d \in Session, d.numFreeProps = 0, d.newProp = -1
  PROVE  AllocProp(d) = d
<1>1. AllocProp(d) = [d EXCEPT !.newProp = -1]
  BY DEF AllocProp, Candidates
<1> QED  BY <1>1 DEF Session

LEMMA AllocatesLast ==
  ASSUME NEW d \in Session, d.numFreeProps = 0, d.newProp = -1
  PROVE  Allocated(d) = [d EXCEPT !.newId = d.strtabOff, !.strtabOff = d.strtabOff + 1]
BY NoneFree DEF Allocated, NextOff

LEMMA AppendAlloc ==
  ASSUME OneAppender, TypeInv, TypeInv', AppendInv, NEW p \in Procs,
         CloseAlloc(p) \/ CloseAllocFails(p)
  PROVE  AppendInv' /\ FilesKept /\ UNCHANGED <<slots, numSlots, numProps, numFreeProps>>
<1>0. PICK d : d = db[p]
  OBVIOUS
<1>00. PICK off : off = d.strtabOff
  OBVIOUS
<1>a. /\ pc \in [Procs -> Pcs] /\ db \in [Procs -> Session] /\ TypeOK /\ TypeOK'
      /\ AppendSession("closing", d) /\ d \in Session
      /\ pc[p] = "closing" /\ pc'[p] = "storing" /\ d.added # Len(d.propsToAdd)
  BY <1>0 DEF TypeInv, TypeOK, AppendInv, CloseAlloc, CloseAllocFails, AllocPlace, Goto, AddsDone
<1>b. /\ numSlots \in Nat /\ numProps \in Nat /\ strtabLen \in Nat
      /\ strtab \in [Cells -> Names \cup {NoString, StrtabHeader}]
  BY <1>a DEF TypeOK
<1>c. UNCHANGED <<dbVars, promised>>
  BY DEF CloseAlloc, CloseAllocFails, AllocPlace
<1>d. UNCHANGED <<slots, numSlots, numProps, numFreeProps>>
  BY <1>c DEF dbVars
<1>e. off \in Cells /\ off \in Nat /\ strtabLen <= off
  <2>1. SessionFits("closing", d)
    BY <1>0, <1>a DEF TypeInv
  <2>2. off \in Cells
    BY <1>00, <1>a, <1>b, <2>1, AllocatedFits
  <2> QED  BY <1>00, <1>a, <2>2 DEF AppendSession, AppendsBehind, Cells
<1>f. PICK e : e = [d EXCEPT !.newId = off, !.strtabOff = off + 1]
  OBVIOUS
<1>1. /\ e.numFreeProps = 0 /\ e.newProp = -1 /\ e.propsToRm = <<>>
      /\ e.curEnd = d.curEnd /\ e.numProps = d.numProps /\ e.added = d.added
      /\ e.propsToAdd = d.propsToAdd /\ e.failed = d.failed
      /\ e.newId = off /\ e.strtabOff = off + 1
  BY <1>a, <1>f DEF AppendSession, AppendsBehind, Session
<1>2. Allocated(d) = e
  BY <1>00, <1>a, <1>f, AllocatesLast DEF AppendSession, AppendsBehind
<1>3. CASE CloseAlloc(p)
  <2>1. /\ db'[p] = e
        /\ strtab' = [strtab EXCEPT ![off] = d.propsToAdd[d.added + 1].name]
        /\ strtabLen' = off + 1
    BY <1>0, <1>00, <1>3, <1>a, <1>b, <1>2, <1>e DEF CloseAlloc, SetDb, Larger
  <2>2. FilesKept
    BY <1>b, <1>d, <1>e, <2>1 DEF FilesKept, Cells
  <2>3. AppendsBehind("storing", e)'
    BY <1>1, <1>a, <1>b, <1>d, <1>e, <2>1 DEF AppendSession, AppendsBehind
  <2>4. ASSUME ~e.failed
        PROVE  StoresAll("storing", e)'
    <3>1. \A i \in 1 .. d.added : Stored(d.propsToAdd[i])'
      BY <1>1, <1>a, <2>2, <2>4, StoredKept DEF AppendSession, StoresAll
    <3>2. strtab'[off] = d.propsToAdd[d.added + 1].name
      BY <1>b, <1>e, <2>1
    <3> QED  BY <1>1, <1>e, <2>1, <3>1, <3>2 DEF StoresAll
  <2>5. AppendSession(pc[p], db[p])'
    BY <1>a, <2>1, <2>3, <2>4 DEF AppendSession
  <2> QED  BY <1>a, <1>c, <1>d, <2>2, <2>5, AppendFrame
<1>4. CASE CloseAllocFails(p)
  <2>1. db'[p] = [e EXCEPT !.failed = TRUE] /\ UNCHANGED <<strtab, strtabLen>>
    BY <1>0, <1>4, <1>a, <1>2 DEF CloseAllocFails, SetDb
  <2>2. FilesKept
    BY <1>b, <1>d, <2>1 DEF FilesKept
  <2>3. /\ db'[p].numFreeProps = 0 /\ db'[p].newProp = -1 /\ db'[p].propsToRm = <<>>
        /\ db'[p].curEnd = d.curEnd /\ db'[p].numProps = d.numProps
        /\ db'[p].strtabOff = off + 1 /\ db'[p].failed
    BY <1>1, <1>a, <1>f, <2>1 DEF Session
  <2>4. AppendSession(pc[p], db[p])'
    BY <1>a, <1>b, <1>d, <1>e, <2>1, <2>3 DEF AppendSession, AppendsBehind
  <2> QED  BY <1>a, <1>c, <1>d, <2>2, <2>4, AppendFrame
<1> QED  BY <1>3, <1>4

LEMMA AppendStore ==
  ASSUME OneAppender, TypeInv, TypeInv', AppendInv, NEW p \in Procs,
         CloseAppend(p) \/ CloseAppendFails(p)
  PROVE  AppendInv' /\ FilesKept /\ UNCHANGED <<numProps, numFreeProps, strtab, strtabLen>>
<1>0. PICK d : d = db[p]
  OBVIOUS
<1>a. /\ pc \in [Procs -> Pcs] /\ db \in [Procs -> Session] /\ TypeOK /\ TypeOK'
      /\ AppendSession("storing", d) /\ d \in Session /\ SessionFits("storing", d)
      /\ pc[p] = "storing" /\ pc'[p] = "closing"
  BY <1>0 DEF TypeInv, TypeOK, AppendInv, CloseAppend, CloseAppendFails, EndStore, Goto
<1>b. /\ numSlots \in Nat /\ numProps \in Nat /\ strtabLen \in Nat
      /\ slots \in [Slots -> Slot]
      /\ d.curEnd \in Slots /\ d.curEnd \in Nat /\ numSlots <= d.curEnd
      /\ d.numProps \in Nat /\ numProps <= d.numProps /\ d.added \in Nat
  <2>1. /\ numSlots \in Nat /\ numProps \in Nat /\ strtabLen \in Nat
        /\ slots \in [Slots -> Slot]
    BY <1>a DEF TypeOK
  <2>2. d.curEnd \in Slots /\ d.curEnd \in Nat
    <3>1. d.curEnd \in 0 .. MaxSlots
      BY <1>a, SessionFields
    <3>2. d.curEnd \in Slots
      BY <1>a, AppendedFits
    <3> QED  BY <3>1, <3>2, Sizes
  <2>3. d.numProps \in Nat /\ d.added \in Nat
    BY <1>a, SessionFields
  <2>4. numSlots <= d.curEnd /\ numProps <= d.numProps
    BY <1>a DEF AppendSession, AppendsBehind
  <2> QED  BY <2>1, <2>2, <2>3, <2>4
<1>c. UNCHANGED <<numProps, numFreeProps, strtab, strtabLen, promised>>
  BY DEF CloseAppend, CloseAppendFails, EndStore, strVars
<1>d. PICK e : e = [Counted(d) EXCEPT !.curEnd = @ + 1]
  OBVIOUS
<1>1. /\ e.numFreeProps = 0 /\ e.newProp = -1 /\ e.propsToRm = <<>>
      /\ e.curEnd = d.curEnd + 1 /\ e.numProps = d.numProps + 1
      /\ e.added = d.added + 1 /\ e.propsToAdd = d.propsToAdd
      /\ e.strtabOff = d.strtabOff /\ e.failed = d.failed
  BY <1>a, <1>d DEF AppendSession, AppendsBehind, Session, Counted
<1>3. CASE CloseAppend(p)
  <2>1. /\ db'[p] = e
        /\ slots' = [slots EXCEPT ![d.curEnd] = EntryImage(p)]
        /\ numSlots' = d.curEnd + 1
    BY <1>0, <1>d, <1>3, <1>a, <1>b DEF CloseAppend, SetDb, Larger
  <2>2. FilesKept
    BY <1>b, <1>c, <2>1 DEF FilesKept
  <2>3. AppendsBehind("closing", e)'
    BY <1>1, <1>a, <1>b, <1>c, <2>1 DEF AppendSession, AppendsBehind
  <2>4. ASSUME ~e.failed
        PROVE  StoresAll("closing", e)'
    <3>1. ASSUME NEW i \in 1 .. d.added
          PROVE  Stored(d.propsToAdd[i])'
      BY <1>1, <1>a, <2>2, <2>4, StoredKept DEF AppendSession, StoresAll
    <3>2. Stored(d.propsToAdd[d.added + 1])'
      <4>0. PICK q : q = d.propsToAdd[d.added + 1]
        OBVIOUS
      <4>1. q \in Prop
        BY <1>a, <4>0, AddedEntry DEF SessionFits
      <4>2. /\ EntryImage(p)[0].val = d.newId
            /\ \A w \in 1 .. W - 1 : EntryImage(p)[w] = q.data[w]
        <5>1. EntryImage(p) = [w \in Words |->
                 IF w = 0 THEN [val |-> d.newId, type |-> NNPKG_PROP_TYPE_PKG] ELSE q.data[w]]
          BY <1>0, <4>0 DEF EntryImage, Serialize
        <5>2. 0 \in Words /\ \A w \in 1 .. W - 1 : w \in Words /\ w # 0
          BY Sizes DEF Words
        <5> QED  BY <5>1, <5>2
      <4>3. slots'[d.curEnd] = EntryImage(p)
        BY <1>b, <2>1
      <4>4. DataAt(slots', d.curEnd) = q.data
        BY <4>1, <4>2, <4>3 DEF DataAt, Prop, Data
      <4>5. d.newId < strtabLen /\ strtab[d.newId] = q.name
        BY <1>1, <1>a, <2>4, <4>0 DEF AppendSession, StoresAll
      <4>6. d.curEnd < numSlots'
        BY <1>b, <2>1
      <4> QED  BY <1>b, <1>c, <4>0, <4>2, <4>3, <4>4, <4>5, <4>6 DEF Stored, NameAt
    <3>3. \A i \in 1 .. d.added + 1 : Stored(d.propsToAdd[i])'
      <4>1. \A i \in 1 .. d.added + 1 : i \in 1 .. d.added \/ i = d.added + 1
        BY <1>b
      <4> QED  BY <3>1, <3>2, <4>1
    <3>4. d.strtabOff = strtabLen
      BY <1>1, <1>a, <2>4 DEF AppendSession, StoresAll
    <3> QED  BY <1>1, <1>c, <3>3, <3>4 DEF StoresAll
  <2>5. AppendSession(pc[p], db[p])'
    BY <1>a, <2>1, <2>3, <2>4 DEF AppendSession
  <2> QED  BY <1>a, <1>c, <2>2, <2>5, AppendFrame
<1>4. CASE CloseAppendFails(p)
  <2>1. /\ db'[p] = [Counted(d) EXCEPT !.curEnd = @ + 1, !.failed = TRUE]
        /\ UNCHANGED <<slots, numSlots>>
    BY <1>0, <1>4, <1>a DEF CloseAppendFails, SetDb
  <2>2. FilesKept
    BY <1>b, <1>c, <2>1 DEF FilesKept
  <2>3. /\ db'[p].numFreeProps = 0 /\ db'[p].newProp = -1 /\ db'[p].propsToRm = <<>>
        /\ db'[p].curEnd = d.curEnd + 1 /\ db'[p].numProps = d.numProps + 1
        /\ db'[p].strtabOff = d.strtabOff /\ db'[p].failed
    BY <1>a, <2>1 DEF AppendSession, AppendsBehind, Session, Counted
  <2>4. AppendSession(pc[p], db[p])'
    BY <1>a, <1>b, <1>c, <2>1, <2>3 DEF AppendSession, AppendsBehind
  <2> QED  BY <1>a, <1>c, <2>2, <2>4, AppendFrame
<1> QED  BY <1>3, <1>4

(* The header makes visible what is stored. *)
LEMMA AppendHeader ==
  ASSUME OneAppender, TypeInv, TypeInv', AppendInv, NEW p \in Procs, CloseHeader(p)
  PROVE  AppendInv' /\ FilesKept /\ numProps <= numProps' /\ numProps' = db[p].numProps
<1> DEFINE d == db[p]
<1>a. /\ pc \in [Procs -> Pcs] /\ TypeOK /\ TypeOK'
      /\ AppendSession("closing", d) /\ d \in Session
      /\ pc[p] = "closing" /\ pc'[p] = "closed" /\ db' = db
  BY DEF TypeInv, TypeOK, AppendInv, CloseHeader, Goto
<1>b. /\ UNCHANGED <<slots, numSlots, strtab, strtabLen>>
      /\ numProps' = d.numProps /\ numFreeProps' = d.numFreeProps
      /\ d.added = Len(d.propsToAdd)
  BY DEF CloseHeader, strVars, AddsDone
<1>1. FilesKept
  BY <1>a, <1>b DEF FilesKept, TypeOK
<1>2. numProps <= d.numProps /\ d.numFreeProps = 0
  BY <1>a DEF AppendSession, AppendsBehind
<1>3. AppendSession(pc[p], db[p])'
  BY <1>a DEF AppendSession, AppendsBehind, StoresAll
<1>4. ASSUME NEW q \in promised'
      PROVE  Stored(q)'
  <2>1. CASE q \in promised
    BY <1>1, <1>a, <2>1, StoredKept DEF AppendInv
  <2>2. CASE q \notin promised
    <3>1. PICK i \in DOMAIN d.propsToAdd : q = d.propsToAdd[i] /\ ~d.failed
      BY <2>2 DEF CloseHeader
    <3>2. i \in 1 .. d.added
      BY <1>a, <1>b, SessionFields
    <3>3. Stored(q)
      BY <1>a, <3>1, <3>2 DEF AppendSession, StoresAll
    <3> QED  BY <1>1, <1>a, <3>3, StoredKept
  <2> QED  BY <2>1, <2>2
<1>5. \A q \in Procs : AppendSession(pc[q], db[q])'
  <2>1. \A q \in Procs : q = p
    BY DEF OneAppender
  <2> QED  BY <1>3, <2>1
<1>6. numFreeProps' = 0
  BY <1>b, <1>2
<1> QED  BY <1>1, <1>2, <1>4, <1>5, <1>6, <1>b DEF AppendInv

(* Every step keeps the invariant and what the files hold, and the count   *)
(* in the header never falls.                                              *)
LEMMA AppendStep ==
  ASSUME OneAppender, TypeInv, TypeInv', InitDone, AppendInv, [Next]_vars
  PROVE  AppendInv' /\ FilesKept /\ numProps <= numProps'
<1>a. /\ TypeOK /\ TypeOK' /\ numProps \in Nat
  BY DEF TypeInv, TypeOK
<1>1. CASE UNCHANGED vars
  <2>1. UNCHANGED <<dbVars, strVars, promised, pc, db>>
    BY <1>1 DEF vars, dbVars, strVars
  <2>2. FilesKept /\ UNCHANGED <<numProps, numFreeProps>>
    BY <1>a, <2>1, FilesSame
  <2>3. AppendInv'
    <3>1. \A q \in promised' : Stored(q)'
      BY <1>a, <2>1, <2>2, StoredKept DEF AppendInv
    <3>2. \A p \in Procs : AppendSession(pc[p], db[p])'
      <4>1. \A q : Stored(q)' = Stored(q)
        BY <2>1 DEF Stored, NameAt, DataAt, dbVars, strVars
      <4> QED
        BY <2>1, <4>1 DEF AppendInv, AppendSession, AppendsBehind, StoresAll, dbVars, strVars
    <3> QED  BY <2>2, <3>1, <3>2 DEF AppendInv
  <2> QED  BY <1>a, <2>2, <2>3
<1>2. ASSUME NEW p \in Procs, StepOf(p)
      PROVE  AppendInv' /\ FilesKept /\ numProps <= numProps'
  <2>a. /\ db[p] \in Session /\ AppendsBehind(pc[p], db[p])
    BY DEF TypeInv, TypeOK, AppendInv, AppendSession
  <2>1. /\ ~Create(p) /\ ~OpenStrtabFails(p) /\ ~RemoveProp(p)
        /\ ~CloseRemove(p) /\ ~CloseReuse(p)
    <3>1. ~CloseRemove(p)
      <4>1. Len(db[p].propsToRm) = 0 /\ db[p].removed \in Nat
        BY <2>a, SessionFields DEF AppendsBehind
      <4> QED  BY <4>1 DEF CloseRemove
    <3> QED  BY <2>a, <3>1, NoCreate DEF OpenStrtabFails, InitDone, RemoveProp, OneAppender,
                  CloseReuse, AppendsBehind
  <2>2. CASE Leave(p) /\ UNCHANGED <<dbVars, strVars, promised>>
    BY <1>a, <2>2, AppendLeave, FilesSame
  <2>3. CASE \/ OpenStat(p) \/ OpenLock(p) \/ OpenMap(p) \/ OpenStrtab(p)
             \/ AddProp(p) \/ BeginClose(p)
    <3>1. UNCHANGED <<dbVars, strVars>>
      BY <2>3 DEF OpenStat, OpenLock, OpenMap, OpenStrtab, AddProp, BeginClose
    <3> QED  BY <1>a, <2>3, <3>1, AppendOpen, FilesSame
  <2>4. CASE CloseAlloc(p) \/ CloseAllocFails(p)
    BY <1>a, <2>4, AppendAlloc
  <2>5. CASE CloseAppend(p) \/ CloseAppendFails(p)
    BY <1>a, <2>5, AppendStore
  <2>6. CASE CloseHeader(p)
    BY <2>6, AppendHeader
  <2>7. CASE \/ OpenLocked(p) \/ OpenMapDies(p) \/ FindDies(p) \/ CloseUnlock(p)
             \/ BusError(p) \/ Exit(p) \/ Crash(p)
    BY <2>2, <2>7 DEF OpenLocked, OpenMapDies, FindDies, CloseUnlock, BusError, Exit, Crash
  <2> QED  BY <1>2, <2>1, <2>3, <2>4, <2>5, <2>6, <2>7 DEF StepOf, Open, Close
<1> QED  BY <1>1, <1>2 DEF Next, StepOf

LEMMA AppendInvariant ==
  ASSUME OneAppender
  PROVE  Spec => []AppendInv
<1>1. Init => AppendInv
  BY NoSessionAppends DEF Init, AppendInv
<1>2. TypeInv /\ TypeInv' /\ InitDone /\ AppendInv /\ [Next]_vars => AppendInv'
  BY AppendStep
<1>3. Spec => []InitDone
  BY InitDoneInvariant DEF OneAppender
<1> QED  BY <1>1, <1>2, <1>3, TypeInvariant, PTL DEF Spec

(* With one process and no removals, what PropDbClose committed keeps its  *)
(* place in the file and its name in the string table, whatever is killed  *)
(* or cannot be written, then or later (propdb.c:343-367).                 *)
THEOREM CommittedStaysStored ==
  ASSUME OneAppender
  PROVE  Spec => []CommittedIsStored
<1>1. AppendInv => CommittedIsStored
  BY DEF AppendInv, Stored, CommittedIsStored, Holds
<1> QED  BY <1>1, AppendInvariant, PTL

(* Under the same conditions no slot that lookups reach is written again,  *)
(* and none is taken back from them.                                       *)
THEOREM OnlyAppends ==
  ASSUME OneAppender
  PROVE  Spec => AppendOnly
<1>1. ASSUME TypeInv, TypeInv', InitDone, AppendInv, [Next]_vars
      PROVE  [\A s \in Slots :
                s < numProps /\ s < numSlots => s < numProps' /\ slots'[s] = slots[s]]_vars
  <2>1. FilesKept /\ numProps <= numProps'
    BY <1>1, AppendStep
  <2>2. numProps \in Nat /\ numProps' \in Nat
    BY <1>1 DEF TypeInv, TypeOK
  <2> QED  BY <2>1, <2>2 DEF FilesKept, Slots
<1>2. Spec => []InitDone
  BY InitDoneInvariant DEF OneAppender
<1> QED  BY <1>1, <1>2, AppendInvariant, TypeInvariant, PTL DEF Spec, AppendOnly

(* If moreover nothing is killed, what was committed is found in a closed  *)
(* database, with its data (tests/propdb.c:93-105): also when writes fail  *)
(* in later sessions.                                                      *)
THEOREM CommittedStaysFound ==
  ASSUME OneAppender, Crashable = {}
  PROVE  Spec => []CommittedIsFound
<1>1. ASSUME TypeInv, AppendInv, NeverHidden, lock = NoProc, NEW q \in promised
      PROVE  Holds(q, numProps)
  <2>1. PICK s \in Slots : s < numSlots /\ NameAt(slots, strtab, s) = q.name
                           /\ DataAt(slots, s) = q.data
    BY <1>1 DEF AppendInv, Stored
  <2>2. numSlots \in Nat /\ numProps \in Nat /\ numSlots <= numProps
    BY <1>1 DEF TypeInv, TypeOK, NeverHidden
  <2> QED  BY <2>1, <2>2 DEF Holds, Slots
<1>2. TypeInv /\ AppendInv /\ NeverHidden => CommittedIsFound
  BY <1>1 DEF CommittedIsFound
<1>3. Spec => []NeverHidden
  BY NothingIsHidden DEF OneAppender
<1> QED  BY <1>2, <1>3, AppendInvariant, TypeInvariant, PTL

-----------------------------------------------------------------------------
(* Without kills and failing writes the file holds the committed           *)
(* properties, then those the session has appended, and nothing else.      *)

Unharmed == OneAppender /\ Crashable = {} /\ Faulty = {}

Storing(l) == l \in {"closing", "storing"}

WholeSession(l, d) ==
  /\ ~d.failed
  /\ l \in {"open", "closing", "storing"} => d.strtabMapped
  /\ Storing(l) =>
       /\ d.curEnd = numSlots /\ d.numProps = numSlots
       /\ numSlots = numProps + d.added
       /\ \A i \in 1 .. d.added : Entry(numProps + i - 1) = d.propsToAdd[i]

WholeInv ==
  /\ \A s \in Slots : Live(s) <=> s < numSlots
  /\ (\A p \in Procs : ~Storing(pc[p])) => numSlots = numProps
  /\ \A p \in Procs : WholeSession(pc[p], db[p])

(* An entry of the file reads the same as long as the files are kept. *)
LEMMA EntryKept ==
  ASSUME TypeOK, StringInv, FilesKept, NEW s \in Slots, s < numSlots
  PROVE  Entry(s)' = Entry(s) /\ (Live(s)' <=> Live(s))
<1>1. slots'[s] = slots[s]
  BY DEF FilesKept
<1>2. slots[s][0].val \in Cells /\ slots[s][0].val < strtabLen
  BY HeaderType, StringInvParts DEF TypeOK, HeadersOK
<1>3. strtab'[slots[s][0].val] = strtab[slots[s][0].val]
  BY <1>2 DEF FilesKept
<1> QED  BY <1>1, <1>3 DEF Entry, NameAt, DataAt, Live

(* Steps of p that leave the files, and do not store. *)
LEMMA WholeRead ==
  ASSUME Unharmed, TypeInv, WholeInv, NEW p \in Procs,
         UNCHANGED <<slots, numSlots, numProps, strVars>>,
         ~Storing(pc[p]), ~Storing(pc'[p]),
         ~db'[p].failed, pc'[p] = "open" => db'[p].strtabMapped
  PROVE  WholeInv'
<1>1. \A q \in Procs : q = p
  BY DEF Unharmed, OneAppender
<1>2. numSlots' = numProps'
  BY <1>1 DEF WholeInv
<1>3. \A s \in Slots : Live(s)' <=> s < numSlots'
  BY DEF WholeInv, Live
<1>4. WholeSession(pc[p], db[p])'
  BY DEF WholeSession, Storing
<1> QED  BY <1>1, <1>2, <1>3, <1>4 DEF WholeInv

LEMMA WholeOpen ==
  ASSUME Unharmed, TypeInv, StringInv, WholeInv, NEW p \in Procs,
         \/ OpenStat(p) \/ OpenLock(p) \/ OpenMap(p) \/ OpenStrtab(p) \/ AddProp(p)
         \/ Leave(p) /\ ~Storing(pc[p]) /\ UNCHANGED <<dbVars, strVars>>
  PROVE  WholeInv'
<1>a. /\ pc \in [Procs -> Pcs] /\ db \in [Procs -> Session] /\ db[p] \in Session
      /\ ~db[p].failed /\ (pc[p] = "open" => db[p].strtabMapped)
  BY DEF TypeInv, TypeOK, WholeInv, WholeSession
<1>b. strtabLen >= 1 /\ strtabLen \in Nat
  BY StringInvParts DEF TableOK, TypeInv, TypeOK
<1>c. UNCHANGED <<slots, numSlots, numProps, strVars>>
  BY DEF OpenStat, OpenLock, OpenMap, OpenStrtab, AddProp, dbVars
<1>1. ~Storing(pc[p]) /\ ~Storing(pc'[p])
  BY <1>a DEF OpenStat, OpenLock, OpenMap, OpenStrtab, AddProp, Leave, Goto, Storing
<1>2. ~db'[p].failed /\ (pc'[p] = "open" => db'[p].strtabMapped)
  <2>1. CASE OpenStat(p) \/ OpenLock(p) \/ Leave(p)
    BY <1>a, <2>1 DEF OpenStat, OpenLock, Leave, Goto, SetDb, NoSession
  <2>2. CASE OpenMap(p)
    BY <1>a, <2>2 DEF OpenMap, Goto, SetDb, Session
  <2>3. CASE OpenStrtab(p)
    <3>1. (strtabLen > 0) = TRUE
      BY <1>b
    <3>2. db'[p] = [db[p] EXCEPT !.strtabOff = StrtabEnd, !.strtabMapped = TRUE]
      BY <1>a, <2>3, <3>1, Zenon DEF OpenStrtab, SetDb
    <3> QED  BY <1>a, <3>2 DEF Session
  <2>4. CASE AddProp(p)
    BY <1>a, <2>4 DEF AddProp, SetDb, Session
  <2> QED  BY <2>1, <2>2, <2>3, <2>4
<1> QED  BY <1>c, <1>1, <1>2, WholeRead

LEMMA WholeClose ==
  ASSUME Unharmed, TypeInv, TypeInv', StringInv, AppendInv, WholeInv, NEW p \in Procs,
         BeginClose(p) \/ CloseAlloc(p) \/ CloseAppend(p) \/ CloseHeader(p)
  PROVE  WholeInv'
<1>0. PICK d : d = db[p]
  OBVIOUS
<1>00. PICK e : e = db'[p]
  OBVIOUS
<1>a. /\ pc \in [Procs -> Pcs] /\ db \in [Procs -> Session] /\ d \in Session
      /\ TypeOK /\ TypeOK' /\ OneAppender /\ ~d.failed
      /\ AppendSession(pc[p], d) /\ WholeSession(pc[p], d) /\ SessionFits(pc[p], d)
  BY <1>0 DEF TypeInv, TypeOK, Unharmed, WholeInv, WholeSession, AppendInv
<1>b. \A q \in Procs : q = p
  BY DEF Unharmed, OneAppender
<1>c. /\ numSlots \in Nat /\ numProps \in Nat /\ slots \in [Slots -> Slot]
      /\ d.added \in Nat /\ d.propsToAdd \in Seq(Props) /\ numSlots <= MaxSlots
  BY <1>a, SessionFields DEF TypeOK
<1>1. CASE BeginClose(p)
  <2>1. /\ pc[p] = "open" /\ pc'[p] = "closing" /\ UNCHANGED <<slots, numSlots, numProps, strVars>>
        /\ e = [d EXCEPT !.curEnd = d.sz, !.numProps = numProps]
    BY <1>0, <1>00, <1>1, <1>a DEF BeginClose, Goto, SetDb, AppendAt, dbVars
  <2>2. numSlots = numProps /\ d.sz = numSlots /\ d.added = 0 /\ d.strtabMapped
    BY <1>a, <1>b, <2>1 DEF WholeInv, Storing, AppendSession, AppendsBehind, SessionFits,
                            WholeSession
  <2>3. /\ e.curEnd = numSlots /\ e.numProps = numSlots /\ e.added = 0 /\ e.strtabMapped
        /\ ~e.failed
    BY <1>a, <2>1, <2>2 DEF Session
  <2>4. WholeSession(pc[p], db[p])'
    BY <1>00, <1>c, <2>1, <2>2, <2>3 DEF WholeSession
  <2>5. \A s \in Slots : Live(s)' <=> s < numSlots'
    BY <2>1 DEF WholeInv, Live
  <2> QED  BY <1>b, <2>1, <2>4, <2>5 DEF WholeInv, Storing
<1>2. CASE CloseAlloc(p)
  <2>1. FilesKept /\ UNCHANGED <<slots, numSlots, numProps>>
    BY <1>2, <1>a, AppendAlloc
  <2>2. /\ pc[p] = "closing" /\ pc'[p] = "storing"
        /\ e = [d EXCEPT !.newId = d.strtabOff, !.strtabOff = d.strtabOff + 1]
    BY <1>0, <1>00, <1>2, <1>a, AllocatesLast
       DEF CloseAlloc, AllocPlace, Goto, SetDb, AppendSession, AppendsBehind
  <2>3. /\ d.curEnd = numSlots /\ d.numProps = numSlots /\ d.strtabMapped
        /\ numSlots = numProps + d.added
        /\ \A i \in 1 .. d.added : Entry(numProps + i - 1) = d.propsToAdd[i]
    BY <1>a, <2>2 DEF WholeSession, Storing
  <2>4. /\ e.curEnd = d.curEnd /\ e.numProps = d.numProps /\ e.added = d.added
        /\ e.strtabMapped = d.strtabMapped /\ e.propsToAdd = d.propsToAdd /\ e.failed = d.failed
    BY <1>a, <2>2 DEF Session
  <2>5. ASSUME NEW i \in 1 .. d.added
        PROVE  Entry(numProps + i - 1)' = d.propsToAdd[i]
    <3>1. PICK s : s = numProps + i - 1
      OBVIOUS
    <3>2. s \in Slots /\ s < numSlots
      BY <1>c, <2>3, <3>1, Sizes DEF Slots
    <3>3. Entry(s)' = Entry(s)
      BY <1>a, <2>1, <3>2, EntryKept
    <3>4. Entry(numProps + i - 1)' = Entry(s)'
      BY <2>1, <3>1 DEF Entry
    <3> QED  BY <2>3, <3>1, <3>3, <3>4
  <2>6. WholeSession(pc[p], db[p])'
    BY <1>00, <1>a, <2>1, <2>2, <2>3, <2>4, <2>5 DEF WholeSession
  <2>7. \A s \in Slots : Live(s)' <=> s < numSlots'
    BY <2>1 DEF WholeInv, Live
  <2> QED  BY <1>b, <2>2, <2>6, <2>7 DEF WholeInv, Storing
<1>3. CASE CloseAppend(p)
  <2>1. FilesKept /\ UNCHANGED <<numProps, strtab, strtabLen>>
    BY <1>3, <1>a, AppendStore
  <2>2. /\ pc[p] = "storing" /\ pc'[p] = "closing"
        /\ e = [Counted(d) EXCEPT !.curEnd = @ + 1]
        /\ slots' = [slots EXCEPT ![d.curEnd] = EntryImage(p)]
        /\ numSlots' = Larger(numSlots, d.curEnd + 1)
    BY <1>0, <1>00, <1>3, <1>a DEF CloseAppend, EndStore, Goto, SetDb
  <2>3. /\ d.curEnd = numSlots /\ d.numProps = numSlots /\ d.strtabMapped
        /\ numSlots = numProps + d.added
        /\ \A i \in 1 .. d.added : Entry(numProps + i - 1) = d.propsToAdd[i]
    BY <1>a, <2>2 DEF WholeSession, Storing
  <2>4. /\ e.curEnd = numSlots + 1 /\ e.numProps = numSlots + 1 /\ e.added = d.added + 1
        /\ e.strtabMapped = d.strtabMapped /\ e.propsToAdd = d.propsToAdd /\ e.failed = d.failed
    BY <1>a, <2>2, <2>3 DEF Session, Counted
  <2>5. numSlots' = numSlots + 1 /\ numSlots \in Slots
    BY <1>a, <1>c, <2>2, <2>3, AppendedFits DEF Larger
  <2>6. ASSUME NEW i \in 1 .. d.added
        PROVE  Entry(numProps + i - 1)' = d.propsToAdd[i]
    <3>1. PICK s : s = numProps + i - 1
      OBVIOUS
    <3>2. s \in Slots /\ s < numSlots
      BY <1>c, <2>3, <3>1, Sizes DEF Slots
    <3>3. Entry(s)' = Entry(s)
      BY <1>a, <2>1, <3>2, EntryKept
    <3>4. Entry(numProps + i - 1)' = Entry(s)'
      BY <2>1, <3>1 DEF Entry
    <3> QED  BY <2>3, <3>1, <3>3, <3>4
  <2>0. PICK n : n = numSlots
    OBVIOUS
  <2>7. Entry(n)' = d.propsToAdd[d.added + 1] /\ Live(n)'
    <3>0. PICK q : q = d.propsToAdd[d.added + 1]
      OBVIOUS
    <3>1. q \in Prop
      BY <1>a, <2>2, <3>0, AddedEntry DEF SessionFits
    <3>2. EntryImage(p) = [w \in Words |->
             IF w = 0 THEN [val |-> d.newId, type |-> NNPKG_PROP_TYPE_PKG] ELSE q.data[w]]
      BY <1>0, <3>0 DEF EntryImage, Serialize
    <3>3. 0 \in Words /\ \A w \in 1 .. W - 1 : w \in Words /\ w # 0
      BY Sizes DEF Words
    <3>4. slots'[n] = EntryImage(p)
      BY <1>c, <2>0, <2>2, <2>3, <2>5
    <3>5. slots'[n][0] = [val |-> d.newId, type |-> NNPKG_PROP_TYPE_PKG]
      BY <3>2, <3>3, <3>4
    <3>6. DataAt(slots', n) = q.data
      BY <3>1, <3>2, <3>3, <3>4 DEF DataAt, Prop, Data
    <3>7. strtab[d.newId] = q.name
      BY <1>a, <2>2, <3>0 DEF AppendSession, StoresAll
    <3>8. q = [name |-> q.name, data |-> q.data]
      BY <3>1 DEF Prop
    <3> QED  BY <2>1, <3>0, <3>5, <3>6, <3>7, <3>8 DEF Entry, NameAt, Live
  <2>8. \A i \in 1 .. d.added + 1 : Entry(numProps + i - 1)' = d.propsToAdd[i]
    <3>1. numProps + (d.added + 1) - 1 = n
      BY <1>c, <2>0, <2>3
    <3>2. Entry(numProps + (d.added + 1) - 1)' = d.propsToAdd[d.added + 1]
      BY <2>1, <2>7, <3>1 DEF Entry
    <3>3. \A i \in 1 .. d.added + 1 : i \in 1 .. d.added \/ i = d.added + 1
      BY <1>c
    <3> QED  BY <2>6, <3>2, <3>3
  <2>9. WholeSession(pc[p], db[p])'
    <3>1. numSlots + 1 = numProps + (d.added + 1)
      BY <1>c, <2>3
    <3> QED  BY <1>00, <1>a, <2>1, <2>3, <2>4, <2>5, <2>8, <3>1 DEF WholeSession
  <2>10. ASSUME NEW s \in Slots
         PROVE  Live(s)' <=> s < numSlots'
    <3>1. CASE s < numSlots
      BY <1>a, <1>c, <2>1, <2>5, <3>1, EntryKept, Sizes DEF WholeInv, Slots
    <3>2. CASE s = numSlots
      BY <1>c, <2>0, <2>5, <2>7, <3>2 DEF Live
    <3>3. CASE numSlots < s
      <4>1. slots'[s] = slots[s]
        BY <1>c, <2>2, <2>3, <3>3, Sizes DEF Slots
      <4> QED  BY <1>c, <2>5, <3>3, <4>1, Sizes DEF WholeInv, Live, Slots
    <3> QED  BY <1>c, <3>1, <3>2, <3>3, Sizes DEF Slots
  <2> QED  BY <1>b, <2>2, <2>9, <2>10 DEF WholeInv, Storing
<1>4. CASE CloseHeader(p)
  <2>1. /\ pc[p] = "closing" /\ pc'[p] = "closed" /\ e = d
        /\ UNCHANGED <<slots, numSlots, strVars>> /\ numProps' = d.numProps
    BY <1>0, <1>00, <1>4, <1>a DEF CloseHeader, Goto
  <2>2. d.numProps = numSlots
    BY <1>a, <2>1 DEF WholeSession, Storing
  <2>3. \A s \in Slots : Live(s)' <=> s < numSlots'
    BY <2>1 DEF WholeInv, Live
  <2>4. WholeSession(pc[p], db[p])'
    BY <1>00, <1>a, <2>1 DEF WholeSession, Storing
  <2> QED  BY <1>b, <2>1, <2>2, <2>3, <2>4 DEF WholeInv, Storing
<1> QED  BY <1>1, <1>2, <1>3, <1>4

(* The steps such a process can take. *)
GoodInv == TypeInv /\ LockExclusion /\ InitDone /\ StringInv /\ AppendInv /\ WholeInv

LEMMA PossibleSteps ==
  ASSUME Unharmed, GoodInv, NEW p \in Procs, StepOf(p)
  PROVE  \/ OpenStat(p) \/ OpenLock(p) \/ OpenMap(p) \/ OpenStrtab(p) \/ AddProp(p)
         \/ BeginClose(p) \/ CloseAlloc(p) \/ CloseAppend(p) \/ CloseHeader(p)
         \/ Leave(p) /\ ~Committing(p) /\ UNCHANGED <<dbVars, strVars, promised>>
<1>a. db[p] \in Session /\ AppendsBehind(pc[p], db[p]) /\ WholeSession(pc[p], db[p])
  BY DEF GoodInv, TypeInv, TypeOK, AppendInv, AppendSession, WholeInv
<1>1. /\ ~Create(p) /\ ~OpenStrtabFails(p) /\ ~RemoveProp(p) /\ ~Crash(p)
      /\ ~CloseReuse(p) /\ ~CloseAllocFails(p) /\ ~CloseAppendFails(p) /\ ~BusError(p)
  BY <1>a, NoCreate DEF GoodInv, OpenStrtabFails, InitDone, RemoveProp, Unharmed, OneAppender,
       CloseReuse, AppendsBehind, Crash, CloseAllocFails, CloseAppendFails, BusError, HeaderMapped
<1>2. ~CloseRemove(p)
  <2>1. Len(db[p].propsToRm) = 0 /\ db[p].removed \in Nat
    BY <1>a, SessionFields DEF AppendsBehind
  <2> QED  BY <2>1 DEF CloseRemove
<1>3. ~FindDies(p)
  <2>1. SUFFICES ASSUME pc[p] = "open" PROVE Readable(p, numProps)
    BY DEF FindDies
  <2>2. db[p].strtabMapped /\ db[p].strtabOff = strtabLen
    BY <1>a, <2>1 DEF WholeSession, GoodInv, StringInv, FreshStrings, Committing
  <2>3. ASSUME NEW s \in Slots PROVE slots[s][0].val <= strtabLen
    <3>1. slots[s][0].val < strtabLen
      BY StringInvParts DEF GoodInv, HeadersOK
    <3>2. slots[s][0].val \in Nat /\ strtabLen \in Nat
      BY HeaderType DEF GoodInv, TypeInv, TypeOK, Cells
    <3> QED  BY <3>1, <3>2
  <2> QED  BY <2>2, <2>3 DEF Readable, InBounds
<1> QED
  BY <1>1, <1>2, <1>3 DEF StepOf, Open, Close, OpenLocked, OpenMapDies, CloseUnlock, Exit, Committing

LEMMA WholeStep ==
  ASSUME Unharmed, GoodInv, TypeInv', [Next]_vars
  PROVE  WholeInv'
<1>a. TypeInv /\ StringInv /\ AppendInv /\ WholeInv
  BY DEF GoodInv
<1>1. CASE UNCHANGED vars
  BY <1>a, <1>1 DEF vars, WholeInv, WholeSession, Live, Entry, NameAt, DataAt
<1>2. ASSUME NEW p \in Procs, StepOf(p)
      PROVE  WholeInv'
  BY <1>a, <1>2, PossibleSteps, WholeOpen, WholeClose DEF Storing, Committing
<1> QED  BY <1>1, <1>2 DEF Next, StepOf

LEMMA WholeInit ==
  ASSUME Init
  PROVE  WholeInv
<1>1. \A s \in Slots : slots[s][0] = ZeroWord
  BY Sizes DEF Init, ZeroSlot, Words
<1>2. \A s \in Slots : ~Live(s) /\ ~(s < 0)
  BY <1>1, Sizes DEF ZeroWord, Live, NNPKG_PROP_TYPE_PKG, NNPKG_PROP_TYPE_INVALID, Slots
<1>3. \A p \in Procs : WholeSession(pc[p], db[p])
  BY DEF Init, WholeSession, NoSession, Storing
<1> QED  BY <1>2, <1>3 DEF Init, WholeInv

LEMMA GoodInvariant ==
  ASSUME Unharmed
  PROVE  Spec => []GoodInv
<1>1. Init => WholeInv
  BY WholeInit
<1>2. TypeInv /\ LockExclusion /\ InitDone /\ StringInv /\ AppendInv /\ WholeInv
        /\ TypeInv' /\ [Next]_vars => WholeInv'
  BY WholeStep DEF GoodInv
<1>3. (Spec => []InitDone) /\ (Spec => []StringInv) /\ (Spec => []AppendInv)
  BY InitDoneInvariant, StringInvariant, AppendInvariant DEF Unharmed, OneAppender
<1> QED  BY <1>1, <1>2, <1>3, TypeInvariant, Exclusion, PTL DEF Spec, GoodInv

(* The two counters of the header of a closed database tell how many       *)
(* properties there are (propdb.c:44-45), as long as one process uses it,  *)
(* removes nothing, is not killed and can write.                           *)
THEOREM CountersAgree ==
  ASSUME Unharmed
  PROVE  Spec => []CountsAgree
<1>1. ASSUME GoodInv, lock = NoProc
      PROVE  numProps - numFreeProps = Cardinality({s \in Slots : Live(s)})
  <2>1. \A p \in Procs : ~Storing(pc[p])
    BY <1>1, PropDbAssumption DEF GoodInv, LockExclusion, HoldPcs, SessionPcs, Storing,
                                  PropDbAssumption
  <2>2. numSlots = numProps /\ numFreeProps = 0
    BY <1>1, <2>1 DEF GoodInv, WholeInv, AppendInv
  <2>3. numSlots \in 0 .. MaxSlots
    BY <1>1 DEF GoodInv, TypeInv, TypeOK
  <2>4. {s \in Slots : Live(s)} = 0 .. numSlots - 1
    BY <1>1, <2>3, Sizes DEF GoodInv, WholeInv, Slots
  <2>5. Cardinality(0 .. numSlots - 1) = numSlots
    <3>1. 0 \in Int /\ numSlots - 1 \in Int
      BY <2>3, Sizes
    <3>2. Cardinality(0 .. numSlots - 1) = IF 0 > numSlots - 1 THEN 0 ELSE (numSlots - 1) - 0 + 1
      BY <3>1, FS_Interval
    <3> QED  BY <2>3, <3>2, Sizes
  <2>6. Cardinality({s \in Slots : Live(s)}) = numSlots
    BY <2>4, <2>5, Zenon
  <2>7. numProps - numFreeProps = numSlots
    BY <2>2, <2>3
  <2> QED  BY <2>6, <2>7, Zenon
<1>2. GoodInv => CountsAgree
  BY <1>1 DEF CountsAgree
<1> QED  BY <1>2, GoodInvariant, PTL

-----------------------------------------------------------------------------
(* Refinement: the engine implements the store (PropStore).                *)

RefStore == [i \in 1 .. numProps |-> Entry(i - 1)]
RefBatch == IF \E p \in Procs : Committing(p)
              THEN db[CHOOSE p \in Procs : Committing(p)].propsToAdd
              ELSE <<>>

LEMMA BatchOf ==
  ASSUME OneAppender, NEW p \in Procs
  PROVE  RefBatch = IF Committing(p) THEN db[p].propsToAdd ELSE <<>>
<1>1. \A q \in Procs : q = p
  BY DEF OneAppender
<1>2. CASE Committing(p)
  <2>1. (CHOOSE q \in Procs : Committing(q)) = p
    BY <1>1, <1>2
  <2> QED  BY <1>2, <2>1 DEF RefBatch
<1>3. CASE ~Committing(p)
  BY <1>1, <1>3 DEF RefBatch
<1> QED  BY <1>2, <1>3

LEMMA BatchOfNext ==
  ASSUME OneAppender, NEW p \in Procs
  PROVE  RefBatch' = IF Committing(p)' THEN db'[p].propsToAdd ELSE <<>>
<1>1. \A q \in Procs : q = p
  BY DEF OneAppender
<1>2. CASE Committing(p)'
  <2>1. (CHOOSE q \in Procs : Committing(q)') = p
    BY <1>1, <1>2
  <2> QED  BY <1>2, <2>1 DEF RefBatch
<1>3. CASE ~Committing(p)'
  BY <1>1, <1>3 DEF RefBatch
<1> QED  BY <1>2, <1>3

(* What is committed is within the file. *)
LEMMA Committed ==
  ASSUME Unharmed, GoodInv
  PROVE  /\ numProps \in Nat /\ numSlots \in Nat /\ numProps <= numSlots
         /\ \A i \in 1 .. numProps : i - 1 \in Slots /\ i - 1 < numSlots
<1>1. /\ numSlots \in Nat /\ numProps \in Nat /\ numSlots <= MaxSlots
      /\ \A p \in Procs : db[p].added \in Nat
  BY SessionFields DEF GoodInv, TypeInv, TypeOK
<1>2. numProps <= numSlots
  <2>1. CASE \A p \in Procs : ~Storing(pc[p])
    BY <1>1, <2>1 DEF GoodInv, WholeInv
  <2>2. ASSUME NEW p \in Procs, Storing(pc[p])
        PROVE  numProps <= numSlots
    BY <1>1, <2>2 DEF GoodInv, WholeInv, WholeSession
  <2> QED  BY <2>1, <2>2
<1> QED  BY <1>1, <1>2, Sizes DEF Slots

(* The committed properties read the same while files and count stay. *)
LEMMA StoreKept ==
  ASSUME Unharmed, GoodInv, TypeInv', FilesKept, UNCHANGED numProps
  PROVE  RefStore' = RefStore
<1>1. ASSUME NEW i \in 1 .. numProps
      PROVE  Entry(i - 1)' = Entry(i - 1)
  <2>1. PICK s : s = i - 1
    OBVIOUS
  <2>2. s \in Slots /\ s < numSlots
    BY <2>1, Committed
  <2>3. Entry(s)' = Entry(s)
    BY <2>2, EntryKept DEF GoodInv, TypeInv
  <2> QED  BY <2>1, <2>3
<1> QED  BY <1>1 DEF RefStore

LEMMA StoreSeq ==
  ASSUME Unharmed, GoodInv
  PROVE  /\ RefStore \in Seq({Entry(s) : s \in Slots})
         /\ Len(RefStore) = numProps /\ DOMAIN RefStore = 1 .. numProps
<1>1. RefStore \in [1 .. numProps -> {Entry(s) : s \in Slots}] /\ numProps \in Nat
  BY Committed DEF RefStore
<1> QED  BY <1>1, SeqDef

(* The steps of the engine are those of the store, or steps it does not    *)
(* see.                                                                    *)
LEMMA RefineAdd ==
  ASSUME Unharmed, GoodInv, NEW p \in Procs, AddProp(p)
  PROVE  /\ lock = p /\ lock' = lock /\ RefStore' = RefStore
         /\ \E e \in Props : /\ ~Store!Has(RefStore, e.name) /\ ~Store!Has(RefBatch, e.name)
                             /\ RefBatch' = Append(RefBatch, e)
<1>a. /\ pc \in [Procs -> Pcs] /\ db \in [Procs -> Session] /\ OneAppender
      /\ Committing(p) /\ Committing(p)'
  BY DEF GoodInv, TypeInv, TypeOK, Unharmed, AddProp, Committing
<1>1. lock = p /\ lock' = lock
  BY DEF AddProp, GoodInv, LockExclusion, HoldPcs, SessionPcs
<1>2. RefStore' = RefStore
  BY DEF AddProp, RefStore, Entry, NameAt, DataAt, dbVars, strVars
<1>3. PICK e \in Props : /\ ~InBatch(p, e.name) /\ ~Found(e.name)
                         /\ SetDb(p, [db[p] EXCEPT !.propsToAdd = Append(@, e)])
  BY DEF AddProp
<1>4. RefBatch = db[p].propsToAdd /\ RefBatch' = db'[p].propsToAdd
  BY <1>a, BatchOf, BatchOfNext
<1>5. db'[p].propsToAdd = Append(db[p].propsToAdd, e)
  BY <1>a, <1>3 DEF SetDb, Session
<1>6. ~Store!Has(RefBatch, e.name)
  BY <1>3, <1>4 DEF Store!Has, InBatch
<1>7. ~Store!Has(RefStore, e.name)
  <2>1. ASSUME NEW i \in 1 .. numProps
        PROVE  RefStore[i].name # e.name
    <3>1. i - 1 \in Slots /\ i - 1 < numProps
      BY Committed
    <3>2. i - 1 \notin Matches(slots, strtab, numProps, e.name)
      BY <1>3 DEF Found
    <3>3. NameAt(slots, strtab, i - 1) # e.name
      BY <3>1, <3>2 DEF Matches
    <3> QED  BY <3>3 DEF RefStore, Entry
  <2> QED  BY <2>1, StoreSeq DEF Store!Has
<1> QED  BY <1>1, <1>2, <1>3, <1>4, <1>5, <1>6, <1>7

LEMMA RefineCommit ==
  ASSUME Unharmed, GoodInv, NEW p \in Procs, CloseHeader(p)
  PROVE  /\ lock = p /\ lock' = lock
         /\ RefStore' = RefStore \o RefBatch /\ RefBatch' = <<>>
<1>0. PICK d : d = db[p]
  OBVIOUS
<1>a. /\ pc[p] = "closing" /\ pc'[p] = "closed" /\ OneAppender /\ d \in Session
      /\ WholeSession("closing", d) /\ d.added = Len(d.propsToAdd)
  BY <1>0 DEF GoodInv, TypeInv, TypeOK, Unharmed, CloseHeader, Goto, AddsDone, WholeInv
<1>1. lock = p /\ lock' = lock
  BY <1>a DEF CloseHeader, GoodInv, LockExclusion, HoldPcs, SessionPcs
<1>2. RefBatch = d.propsToAdd /\ RefBatch' = <<>>
  BY <1>0, <1>a, BatchOf, BatchOfNext DEF Committing
<1>3. /\ numProps' = d.numProps /\ d.numProps = numProps + d.added
      /\ \A i \in 1 .. d.added : Entry(numProps + i - 1) = d.propsToAdd[i]
  BY <1>0, <1>a DEF CloseHeader, WholeSession, Storing
<1>4. \A s : Entry(s)' = Entry(s)
  BY DEF CloseHeader, Entry, NameAt, DataAt, strVars
<1>b. numProps \in Nat /\ d.added \in Nat /\ d.propsToAdd \in Seq(Props)
  BY <1>a, Committed, SessionFields
<1> DEFINE T == {Entry(s) : s \in Slots} \cup Props
<1>5. RefStore \in Seq(T) /\ d.propsToAdd \in Seq(T) /\ RefStore' \in Seq(T)
  <2>1. RefStore \in Seq(T) /\ d.propsToAdd \in Seq(T)
    BY <1>b, StoreSeq, SeqMonotonic
  <2>2. numProps' \in Nat /\ \A i \in 1 .. numProps' : i - 1 \in Slots
    <3>1. numProps' = numSlots
      BY <1>0, <1>3, <1>a DEF WholeSession, Storing
    <3>2. numSlots \in 0 .. MaxSlots
      BY DEF GoodInv, TypeInv, TypeOK
    <3> QED  BY <3>1, <3>2, Sizes DEF Slots
  <2>3. RefStore' \in [1 .. numProps' -> T]
    BY <1>4, <2>2 DEF RefStore
  <2> QED  BY <2>1, <2>2, <2>3, SeqDef
<1>6. Len(RefStore) = numProps /\ Len(RefStore') = numProps + d.added
  BY <1>3, <1>b, StoreSeq DEF RefStore
<1>7. /\ RefStore \o d.propsToAdd \in Seq(T)
      /\ Len(RefStore \o d.propsToAdd) = numProps + d.added
      /\ \A i \in 1 .. numProps + d.added :
           (RefStore \o d.propsToAdd)[i] =
             IF i <= numProps THEN RefStore[i] ELSE d.propsToAdd[i - numProps]
  <2> HIDE DEF T
  <2>1. /\ RefStore \o d.propsToAdd \in Seq(T)
        /\ Len(RefStore \o d.propsToAdd) = Len(RefStore) + Len(d.propsToAdd)
        /\ \A i \in 1 .. Len(RefStore) + Len(d.propsToAdd) :
             (RefStore \o d.propsToAdd)[i] =
               IF i <= Len(RefStore) THEN RefStore[i] ELSE d.propsToAdd[i - Len(RefStore)]
    BY <1>5, ConcatProperties
  <2> QED  BY <1>6, <1>a, <2>1
<1>8. ASSUME NEW i \in 1 .. numProps + d.added
      PROVE  RefStore'[i] = (RefStore \o d.propsToAdd)[i]
  <2>1. RefStore'[i] = Entry(i - 1)
    BY <1>3, <1>4 DEF RefStore
  <2>2. CASE i <= numProps
    <3>1. RefStore[i] = Entry(i - 1)
      BY <1>b, <2>2 DEF RefStore
    <3> QED  BY <1>7, <2>1, <2>2, <3>1
  <2>3. CASE ~(i <= numProps)
    <3>1. PICK j : j = i - numProps
      OBVIOUS
    <3>2. j \in 1 .. d.added /\ numProps + j - 1 = i - 1
      BY <1>b, <2>3, <3>1
    <3>3. Entry(i - 1) = d.propsToAdd[j]
      BY <1>3, <3>2
    <3> QED  BY <1>7, <2>1, <2>3, <3>1, <3>3
  <2> QED  BY <2>2, <2>3
<1>9. RefStore' = RefStore \o d.propsToAdd
  <2> HIDE DEF T
  <2> QED  BY <1>5, <1>6, <1>7, <1>8, SeqEqual
<1> QED  BY <1>1, <1>2, <1>9

(* Everything else is a step the store does not see, or opens or leaves it. *)
LEMMA RefineRest ==
  ASSUME Unharmed, GoodInv, TypeInv', FilesKept, NEW p \in Procs,
         \/ OpenStat(p) \/ OpenLock(p) \/ OpenMap(p) \/ OpenStrtab(p)
         \/ BeginClose(p) \/ CloseAlloc(p) \/ CloseAppend(p)
         \/ Leave(p) /\ ~Committing(p) /\ UNCHANGED <<dbVars, strVars, promised>>
  PROVE  /\ RefStore' = RefStore /\ RefBatch' = RefBatch
         /\ \/ lock' = lock
            \/ lock = NoProc /\ lock' = p
            \/ lock = p /\ RefBatch = <<>> /\ lock' = NoProc
<1>a. /\ pc \in [Procs -> Pcs] /\ db \in [Procs -> Session] /\ OneAppender
      /\ db[p] \in Session /\ SessionFits(pc[p], db[p])
  BY DEF GoodInv, TypeInv, TypeOK, Unharmed
<1>1. UNCHANGED numProps
  BY DEF OpenStat, OpenLock, OpenMap, OpenStrtab, BeginClose, CloseAlloc, AllocPlace,
         CloseAppend, EndStore, dbVars
<1>2. RefStore' = RefStore
  BY <1>1, StoreKept
<1>3. CASE \/ OpenStat(p) \/ OpenLock(p) \/ OpenMap(p)
           \/ Leave(p) /\ ~Committing(p)
  <2>1. ~Committing(p) /\ ~Committing(p)'
    BY <1>3, <1>a DEF OpenStat, OpenLock, OpenMap, Leave, Goto, Committing
  <2>2. RefBatch = <<>> /\ RefBatch' = <<>>
    BY <1>a, <2>1, BatchOf, BatchOfNext
  <2>3. lock' = lock \/ (lock = NoProc /\ lock' = p) \/ (lock = p /\ lock' = NoProc)
    BY <1>3 DEF OpenStat, OpenLock, OpenMap, Leave, LockFree
  <2> QED  BY <1>2, <2>2, <2>3
<1>4. CASE OpenStrtab(p)
  <2>1. ~Committing(p) /\ Committing(p)' /\ pc[p] = "open_strtab" /\ lock' = lock
    BY <1>4, <1>a DEF OpenStrtab, Goto, Committing
  <2>2. db'[p].propsToAdd = <<>>
    BY <1>4, <1>a, <2>1 DEF OpenStrtab, SetDb, Session, SessionFits
  <2>3. RefBatch = <<>> /\ RefBatch' = <<>>
    BY <1>a, <2>1, <2>2, BatchOf, BatchOfNext
  <2> QED  BY <1>2, <2>1, <2>3
<1>5. CASE BeginClose(p) \/ CloseAlloc(p) \/ CloseAppend(p)
  <2>1. Committing(p) /\ Committing(p)' /\ lock' = lock
    BY <1>5, <1>a DEF BeginClose, CloseAlloc, AllocPlace, CloseAppend, EndStore, Goto, Committing
  <2>2. db'[p].propsToAdd = db[p].propsToAdd
    <3>1. CASE BeginClose(p)
      BY <1>a, <3>1 DEF BeginClose, SetDb, Session
    <3>2. CASE CloseAlloc(p)
      <4>1. AppendsBehind(pc[p], db[p])
        BY DEF GoodInv, AppendInv, AppendSession
      <4>2. db'[p] = [db[p] EXCEPT !.newId = db[p].strtabOff, !.strtabOff = db[p].strtabOff + 1]
        BY <1>a, <3>2, <4>1, AllocatesLast DEF CloseAlloc, SetDb, AppendsBehind
      <4> QED  BY <1>a, <4>2 DEF Session
    <3>3. CASE CloseAppend(p)
      BY <1>a, <3>3 DEF CloseAppend, SetDb, Counted, Session
    <3> QED  BY <1>5, <3>1, <3>2, <3>3
  <2>3. RefBatch' = RefBatch
    BY <1>a, <2>1, <2>2, BatchOf, BatchOfNext
  <2> QED  BY <1>2, <2>1, <2>3
<1> QED  BY <1>3, <1>4, <1>5

LEMMA RefineStep ==
  ASSUME Unharmed, GoodInv, TypeInv', [Next]_vars
  PROVE  [Store!Next]_(Store!vars)
<1>a. TypeInv /\ InitDone /\ AppendInv /\ OneAppender
  BY DEF GoodInv, Unharmed
<1>b. FilesKept
  BY <1>a, AppendStep
<1>1. CASE UNCHANGED vars
  <2>1. RefStore' = RefStore /\ RefBatch' = RefBatch /\ lock' = lock
    BY <1>1 DEF vars, RefStore, RefBatch, Entry, NameAt, DataAt, Committing
  <2> QED  BY <2>1 DEF Store!vars, RefStore, RefBatch
<1>2. ASSUME NEW p \in Procs, StepOf(p)
      PROVE  [Store!Next]_(Store!vars)
  <2>1. CASE AddProp(p)
    <3>1. PICK e \in Props :
            /\ lock = p /\ lock' = lock /\ RefStore' = RefStore
            /\ ~Store!Has(RefStore, e.name) /\ ~Store!Has(RefBatch, e.name)
            /\ RefBatch' = Append(RefBatch, e)
      BY <2>1, RefineAdd
    <3>2. Store!Add(p, e)
      BY <3>1 DEF Store!Add, RefStore, RefBatch
    <3> QED  BY <3>2 DEF Store!Next
  <2>2. CASE CloseHeader(p)
    <3>1. Store!Commit(p)
      BY <2>2, RefineCommit DEF Store!Commit, RefStore, RefBatch
    <3> QED  BY <3>1 DEF Store!Next
  <2>3. CASE ~AddProp(p) /\ ~CloseHeader(p)
    <3>1. /\ RefStore' = RefStore /\ RefBatch' = RefBatch
          /\ \/ lock' = lock
             \/ lock = NoProc /\ lock' = p
             \/ lock = p /\ RefBatch = <<>> /\ lock' = NoProc
      BY <1>2, <1>b, <2>3, PossibleSteps, RefineRest
    <3>2. CASE lock' = lock
      BY <3>1, <3>2 DEF Store!vars, RefStore, RefBatch
    <3>3. CASE lock = NoProc /\ lock' = p
      <4>1. Store!Acquire(p)
        BY <3>1, <3>3 DEF Store!Acquire, RefStore, RefBatch
      <4> QED  BY <4>1 DEF Store!Next
    <3>4. CASE lock = p /\ RefBatch = <<>> /\ lock' = NoProc
      <4>1. Store!Release(p)
        BY <3>1, <3>4 DEF Store!Release, RefStore, RefBatch
      <4> QED  BY <4>1 DEF Store!Next
    <3> QED  BY <3>1, <3>2, <3>3, <3>4
  <2> QED  BY <2>1, <2>2, <2>3
<1> QED  BY <1>1, <1>2 DEF Next, StepOf

LEMMA RefineInit ==
  ASSUME OneAppender, Init
  PROVE  Store!Init
<1>1. RefBatch = <<>>
  BY DEF Init, RefBatch, Committing
<1>2. RefStore = <<>>
  <2>1. RefStore = [i \in 1 .. 0 |-> Entry(i - 1)]
    BY DEF Init, RefStore
  <2>2. RefStore \in Seq({}) /\ Len(RefStore) = 0
    BY <2>1
  <2> QED  BY <2>2, EmptySeq
<1>3. lock = NoProc
  BY DEF Init
<1> QED  BY <1>1, <1>2, <1>3 DEF Store!Init, RefStore, RefBatch

(* One process that adds, is not killed and can write, implements the      *)
(* abstract store: its additions become visible all at once, in order, at  *)
(* PropDbClose (propdb.c:317-415), and stay.                               *)
THEOREM EngineImplementsStore ==
  ASSUME Unharmed
  PROVE  Spec => ImplementsStore
<1>1. Init => Store!Init
  BY RefineInit DEF Unharmed
<1>2. GoodInv /\ TypeInv' /\ [Next]_vars => [Store!Next]_(Store!vars)
  BY RefineStep
<1> QED
  BY <1>1, <1>2, GoodInvariant, TypeInvariant, PTL DEF Spec, ImplementsStore, Store!Spec
=============================================================================
