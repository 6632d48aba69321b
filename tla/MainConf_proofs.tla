--------------------------- MODULE MainConf_proofs ---------------------------
(***************************************************************************)
(* Proofs about the main configuration (MainConf), for files of any        *)
(* length.  What a parse makes of a file is a recursive function of the    *)
(* number of values read; that such a function exists, and what it yields, *)
(* follows by induction, which is stated on sets of naturals because the   *)
(* provers instantiate no theorem on a predicate.                          *)
(***************************************************************************)
EXTENDS MainConf, WellFoundedInduction, TLAPS

(* A set of naturals that has 0 and the successor of each has them all. *)
LEMMA InductionOnSets ==
  ASSUME NEW S \in SUBSET Nat, 0 \in S, \A n \in S : n + 1 \in S
  PROVE  S = Nat
<1> SUFFICES ASSUME Nat \ S # {} PROVE FALSE
  OBVIOUS
<1>1. PICK x \in Nat \ S : \A y \in Nat \ S : ~(<<y, x>> \in OpToRel(<, Nat))
  BY NatLessThanWellFounded, WFMin, Zenon
<1>2. x # 0 /\ x - 1 \in Nat
  OBVIOUS
<1>3. x - 1 \in S
  <2>1. <<x - 1, x>> \in OpToRel(<, Nat)
    BY <1>2 DEF OpToRel
  <2> QED  BY <1>1, <1>2, <2>1, Zenon
<1> QED  BY <1>2, <1>3

-----------------------------------------------------------------------------
(* What a file does to the structure.                                      *)

State == [conf : [Fields -> Field], ok : BOOLEAN]

LEMMA ApplyType ==
  ASSUME NEW s \in State, NEW v \in Value
  PROVE  Apply(s, v) \in State
BY DEF Apply, State, Value, Field, Fields

(* The function that After chooses exists.                                 *)
LEMMA AfterExists ==
  ASSUME NEW vals, Len(vals) \in Nat
  PROVE  /\ DOMAIN After(vals) = 0 .. Len(vals)
         /\ After(vals)[0] = [conf |-> conf, ok |-> TRUE]
         /\ \A n \in 1 .. Len(vals) : After(vals)[n] = Apply(After(vals)[n - 1], vals[n])
<1> DEFINE Start == [conf |-> conf, ok |-> TRUE]
           Is(f, m) == f = [n \in 0 .. m |-> IF n = 0 THEN Start
                                             ELSE Apply(f[n - 1], vals[n])]
           S == {m \in Nat : \E f : Is(f, m)}
<1>1. 0 \in S
  <2>1. Is([n \in 0 .. 0 |-> Start], 0)
    OBVIOUS
  <2> QED  BY <2>1
<1>2. ASSUME NEW m \in S
      PROVE  m + 1 \in S
  <2>1. PICK f : Is(f, m)
    OBVIOUS
  <2> DEFINE g == [n \in 0 .. m + 1 |-> IF n = m + 1 THEN Apply(f[m], vals[m + 1]) ELSE f[n]]
             h == [n \in 0 .. m + 1 |-> IF n = 0 THEN Start ELSE Apply(g[n - 1], vals[n])]
  <2>2. ASSUME NEW n \in 0 .. m + 1
        PROVE  g[n] = h[n]
    <3>1. CASE n = m + 1
      <4>1. g[n - 1] = f[m] /\ n # 0
        BY <3>1
      <4> QED  BY <3>1, <4>1
    <3>2. CASE n # m + 1 /\ n # 0
      <4>1. n \in 0 .. m /\ n - 1 \in 0 .. m /\ n - 1 # m + 1
        BY <3>2
      <4>2. g[n] = f[n] /\ g[n - 1] = f[n - 1]
        BY <4>1
      <4>3. f[n] = Apply(f[n - 1], vals[n])
        BY <2>1, <3>2, <4>1
      <4> QED  BY <3>2, <4>2, <4>3
    <3>3. CASE n = 0
      <4>1. g[n] = f[n] /\ f[n] = Start
        BY <2>1, <3>3
      <4> QED  BY <3>3, <4>1
    <3> QED  BY <3>1, <3>2, <3>3
  <2>3. g = h
    <3> HIDE DEF Is
    <3> QED  BY <2>2, Zenon
  <2>4. Is(g, m + 1)
    BY <2>3, Zenon
  <2>5. m + 1 \in Nat /\ \E f1 : Is(f1, m + 1)
    <3> HIDE DEF Is
    <3> QED  BY <2>4
  <2> QED  BY <2>5
<1>3. S = Nat
  <2> HIDE DEF S
  <2> QED  BY <1>1, <1>2, InductionOnSets DEF S
<1>4. \E f : Is(f, Len(vals))
  BY <1>3
<1>5. After(vals) = CHOOSE f : Is(f, Len(vals))
  BY Zenon DEF After
<1>6. Is(After(vals), Len(vals))
  <2> HIDE DEF Is
  <2> QED  BY <1>4, <1>5, Zenon
<1> DEFINE a == After(vals)
<1>7. a = [n \in 0 .. Len(vals) |-> IF n = 0 THEN Start ELSE Apply(a[n - 1], vals[n])]
  BY <1>6, Zenon
<1> HIDE DEF a
<1>8. /\ DOMAIN a = 0 .. Len(vals)
      /\ a[0] = Start
      /\ \A n \in 1 .. Len(vals) : a[n] = Apply(a[n - 1], vals[n])
  <2> DEFINE body(n) == IF n = 0 THEN Start ELSE Apply(a[n - 1], vals[n])
  <2>1. DOMAIN a = 0 .. Len(vals) /\ \A n \in 0 .. Len(vals) : a[n] = body(n)
    <3> HIDE DEF Start
    <3> QED  BY <1>7, Zenon
  <2> HIDE DEF Start
  <2> QED  BY <2>1
<1> QED  BY <1>8 DEF a

(* What the first n values of a file make of the structure: what it was,   *)
(* for the paths they do not give, and the last they give for the others.  *)
Taken(vals, n) ==
  LET s == After(vals)[n]
  IN  /\ s \in State
      /\ s.ok => \A k \in 1 .. n : vals[k].field # "refused"
      /\ s.ok => \A f \in Fields :
           \/ /\ s.conf[f] = conf[f]
              /\ \A k \in 1 .. n : vals[k].field # f
           \/ \E k \in 1 .. n :
                /\ vals[k].field = f
                /\ \A j \in k + 1 .. n : vals[j].field # f
                /\ s.conf[f] = [path |-> vals[k].path, live |-> TRUE]

(* One value more. *)
LEMMA TakenStep ==
  ASSUME NEW vals \in Seq(Value), NEW n \in Nat, n < Len(vals), Taken(vals, n)
  PROVE  Taken(vals, n + 1)
<1> DEFINE s == After(vals)[n]
           t == After(vals)[n + 1]
           v == vals[n + 1]
<1>1. Len(vals) \in Nat /\ n + 1 \in 1 .. Len(vals) /\ v \in Value
  OBVIOUS
<1>2. t = Apply(s, v)
  <2>1. (n + 1) - 1 = n
    OBVIOUS
  <2> QED  BY <1>1, <2>1, AfterExists
<1>3. t \in State
  BY <1>1, <1>2, ApplyType DEF Taken
<1> HIDE DEF s, t, v
<1>4. ASSUME t.ok
      PROVE  /\ s.ok /\ v.field \in Fields
             /\ t.conf = [s.conf EXCEPT ![v.field] = [path |-> v.path, live |-> TRUE]]
  <2>1. s \in State
    BY DEF Taken, s
  <2> QED  BY <1>1, <1>2, <1>4, <2>1 DEF Apply, Value, State
<1>5. ASSUME t.ok, NEW k \in 1 .. n + 1
      PROVE  vals[k].field # "refused"
  BY <1>4, <1>5 DEF Taken, s, v, Fields
<1>6. ASSUME t.ok, NEW f \in Fields
      PROVE  \/ /\ t.conf[f] = conf[f]
                /\ \A k \in 1 .. n + 1 : vals[k].field # f
             \/ \E k \in 1 .. n + 1 :
                  /\ vals[k].field = f
                  /\ \A j \in k + 1 .. n + 1 : vals[j].field # f
                  /\ t.conf[f] = [path |-> vals[k].path, live |-> TRUE]
  <2>1. s.conf \in [Fields -> Field]
    BY DEF Taken, State, s
  <2>2. CASE v.field = f
    <3>1. t.conf[f] = [path |-> v.path, live |-> TRUE]
      BY <1>4, <1>6, <2>1, <2>2
    <3>2. /\ n + 1 \in 1 .. n + 1 /\ vals[n + 1].field = f
          /\ \A j \in (n + 1) + 1 .. n + 1 : vals[j].field # f
      BY <2>2 DEF v
    <3> QED  BY <3>1, <3>2 DEF v
  <2>3. CASE v.field # f
    <3>1. t.conf[f] = s.conf[f]
      BY <1>4, <1>6, <2>1, <2>3
    <3>2. s.ok
      BY <1>4, <1>6
    <3>3. CASE /\ s.conf[f] = conf[f]
               /\ \A k \in 1 .. n : vals[k].field # f
      BY <2>3, <3>1, <3>3 DEF v
    <3>4. CASE \E k \in 1 .. n :
                 /\ vals[k].field = f
                 /\ \A j \in k + 1 .. n : vals[j].field # f
                 /\ s.conf[f] = [path |-> vals[k].path, live |-> TRUE]
      <4>1. PICK k \in 1 .. n :
                 /\ vals[k].field = f
                 /\ \A j \in k + 1 .. n : vals[j].field # f
                 /\ s.conf[f] = [path |-> vals[k].path, live |-> TRUE]
        BY <3>4
      <4>2. k \in 1 .. n + 1 /\ \A j \in k + 1 .. n + 1 : vals[j].field # f
        BY <2>3, <4>1 DEF v
      <4> QED  BY <3>1, <4>1, <4>2
    <3> QED  BY <3>2, <3>3, <3>4 DEF Taken, s
  <2> QED  BY <2>2, <2>3
<1> QED  BY <1>3, <1>5, <1>6 DEF Taken, t

(* What a whole file makes of it. *)
LEMMA TakenWhole ==
  ASSUME conf \in [Fields -> Field], NEW vals \in Seq(Value)
  PROVE  Taken(vals, Len(vals))
<1> DEFINE S == {n \in Nat : n <= Len(vals) => Taken(vals, n)}
<1>1. Len(vals) \in Nat
  OBVIOUS
<1>2. Taken(vals, 0)
  <2>1. After(vals)[0] = [conf |-> conf, ok |-> TRUE]
    BY <1>1, AfterExists
  <2>2. 1 .. 0 = {}
    OBVIOUS
  <2> QED  BY <2>1, <2>2 DEF Taken, State
<1>3. ASSUME NEW n \in S
      PROVE  n + 1 \in S
  BY <1>1, TakenStep
<1>4. S = Nat
  <2>1. S \in SUBSET Nat /\ 0 \in S
    BY <1>2
  <2> HIDE DEF S
  <2> QED  BY <1>3, <2>1, InductionOnSets
<1> QED  BY <1>1, <1>4

-----------------------------------------------------------------------------
(* The steps that change the main configuration.                           *)

ConfInv == ConfTypeOK /\ ConfIsOfFile

LEMMA ConfInitInv == ConfInit => ConfInv
<1> SUFFICES ASSUME ConfInit PROVE ConfInv
  OBVIOUS
<1>1. NoParse \in [ok : BOOLEAN, vals : Seq(Value), first : BOOLEAN] /\ ~NoParse.ok
  BY DEF NoParse
<1>2. Null \in Field
  BY DEF Null, Field
<1> QED  BY <1>1, <1>2 DEF ConfInit, ConfInv, ConfTypeOK, ConfIsOfFile

LEMMA ConfClearInv == ConfClear => ConfInit' /\ ConfInv'
<1>1. ConfClear => ConfInit'
  BY DEF ConfClear, ConfInit
<1>2. ConfInit' => ConfInv'
  BY ConfInitInv, PTL
<1> QED  BY <1>1, <1>2

LEMMA DestroyInv == ConfInv /\ DestroyMainConf => ConfInv'
<1> SUFFICES ASSUME ConfInv, DestroyMainConf PROVE ConfInv'
  OBVIOUS
<1>1. conf' \in [Fields -> Field]
  BY DEF ConfInv, ConfTypeOK, DestroyMainConf, Field
<1>2. parse' \in [ok : BOOLEAN, vals : Seq(Value), first : BOOLEAN] /\ ~parse'.ok
  BY DEF ConfInv, ConfTypeOK, DestroyMainConf
<1> QED  BY <1>1, <1>2 DEF ConfInv, ConfTypeOK, ConfIsOfFile, DestroyMainConf

LEMMA ParseMainConfInv ==
  ASSUME ConfInv, NEW file, ParseMainConf(file)
  PROVE  ConfInv'
<1> DEFINE vals == IF file \in ConfFiles THEN Values[file] ELSE <<>>
           r    == After(vals)[Len(vals)]
           ok   == file \in ConfFiles /\ r.ok /\ \A f \in Fields : r.conf[f].path # NoPath
<1>1. vals \in Seq(Value)
  BY MainConfAssumption DEF MainConfAssumption
<1>2. /\ conf' = r.conf /\ cbConf' = (cbConf \/ ok)
      /\ parse' = [ok |-> ok, vals |-> vals, first |-> \A f \in Fields : conf[f] = Null]
  BY DEF ParseMainConf
<1> HIDE DEF vals
<1>3. Taken(vals, Len(vals)) /\ Len(vals) \in Nat /\ DOMAIN vals = 1 .. Len(vals)
  BY <1>1, TakenWhole DEF ConfInv, ConfTypeOK
<1>4. r \in State
  BY <1>3 DEF Taken
<1> HIDE DEF r
<1>5. ConfTypeOK'
  BY <1>1, <1>2, <1>4 DEF ConfInv, ConfTypeOK, State
<1>6. ASSUME parse'.ok
      PROVE  /\ \A k \in DOMAIN parse'.vals : parse'.vals[k].field # "refused"
             /\ \A f \in Fields :
                  \/ Given(f)' = {} /\ ~parse'.first
                  \/ \E k \in Given(f)' :
                       /\ \A j \in Given(f)' : j <= k
                       /\ conf'[f] = [path |-> parse'.vals[k].path, live |-> TRUE]
  <2>1. r.ok /\ \A f \in Fields : r.conf[f].path # NoPath
    BY <1>2, <1>6
  <2>2. \A k \in 1 .. Len(vals) : vals[k].field # "refused"
    BY <1>3, <2>1 DEF Taken, r
  <2>3. ASSUME NEW f \in Fields
        PROVE  \/ Given(f)' = {} /\ ~parse'.first
               \/ \E k \in Given(f)' :
                    /\ \A j \in Given(f)' : j <= k
                    /\ conf'[f] = [path |-> parse'.vals[k].path, live |-> TRUE]
    <3>1. Given(f)' = {k \in 1 .. Len(vals) : vals[k].field = f}
      BY <1>2, <1>3 DEF Given
    <3>2. CASE /\ r.conf[f] = conf[f]
               /\ \A k \in 1 .. Len(vals) : vals[k].field # f
      <4>1. conf[f] # Null
        BY <2>1, <3>2 DEF Null
      <4> QED  BY <1>2, <3>1, <3>2, <4>1
    <3>3. CASE \E k \in 1 .. Len(vals) :
                 /\ vals[k].field = f
                 /\ \A j \in k + 1 .. Len(vals) : vals[j].field # f
                 /\ r.conf[f] = [path |-> vals[k].path, live |-> TRUE]
      <4>1. PICK k \in 1 .. Len(vals) :
                 /\ vals[k].field = f
                 /\ \A j \in k + 1 .. Len(vals) : vals[j].field # f
                 /\ r.conf[f] = [path |-> vals[k].path, live |-> TRUE]
        BY <3>3
      <4>2. k \in Given(f)' /\ \A j \in Given(f)' : j <= k
        BY <1>3, <3>1, <4>1
      <4> QED  BY <1>2, <4>1, <4>2
    <3> QED  BY <1>3, <2>1, <3>2, <3>3 DEF Taken, r
  <2> QED  BY <1>2, <1>3, <2>2, <2>3
<1> QED  BY <1>5, <1>6 DEF ConfInv, ConfIsOfFile
=============================================================================
