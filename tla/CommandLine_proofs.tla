-------------------------- MODULE CommandLine_proofs --------------------------
(***************************************************************************)
(* Proofs about the parser of the command line (CommandLine), for lines of *)
(* any length over any set of words.  What is proved here is that every    *)
(* step of the parser preserves an invariant on the words it has read; the *)
(* theorem about the whole program is in Nnpkg_proofs.                     *)
(***************************************************************************)
EXTENDS CommandLine, TLAPS

(* What the grammar asks of the word at k. *)
WordOK(k) ==
  \/ IsArg(k)
  \/ /\ IsOption(k) /\ k < Len(argv) /\ IsArg(k + 1)
     /\ argv[k] \in ConfOptions \cup IF IsAdd THEN BareDashes ELSE {}
  \/ IsAdd /\ ~IsOption(k)

(* The words before n that the grammar takes for a configuration, and for  *)
(* a package.                                                              *)
ConfAt(n) == {k \in 2 .. n - 1 : IsArg(k) /\ argv[k - 1] \in ConfOptions}
PkgAt(n)  == {k \in 2 .. n - 1 : /\ argv[k] \notin Dashed
                                 /\ IsArg(k) => argv[k - 1] \in BareDashes}

(* The parser is between two words, an option and its argument being one:  *)
(* all the words before are right, and the last of them counts.            *)
ReadSoFar ==
  /\ argv # <<>> /\ argv[1] \in {"init", "add"}
  /\ i \in 2 .. Len(argv) + 1
  /\ ~IsOption(i - 1)
  /\ \A k \in 2 .. i - 1 : WordOK(k)
  /\ confFile = LastAt(ConfAt(i), DefaultConf)
  /\ IsAdd => pkgPath = LastAt(PkgAt(i), NoWord)

ParserInv ==
  /\ CliTypeOK
  /\ parsed = "none" => i = 0 /\ argv = <<>>
  /\ parsed = "action" => confFile = DefaultConf /\ pkgPath = NoWord
  /\ parsed = "options" => ReadSoFar
  /\ ParserMeetsGrammar

-----------------------------------------------------------------------------
LEMMA WordFacts ==
  /\ Dashed \subseteq Words /\ ConfOptions \subseteq Dashed /\ BareDashes \subseteq Dashed
  /\ ConfOptions \cap BareDashes = {}
  /\ {"init", "add", "help", "version"} \subseteq Words \ Dashed
  /\ DefaultConf \in Words /\ NoWord \notin Words
BY CommandLineAssumption DEF CommandLineAssumption

(* The grammar, as a condition on the words. *)
LEMMA AcceptedWords == Accepted <=> \A k \in 2 .. Len(argv) : WordOK(k)
BY DEF Accepted, WordOK, Positions

(* The last of a set of positions that has a last one. *)
LEMMA LastIs ==
  ASSUME NEW ks \in SUBSET Int, NEW m \in ks, \A j \in ks : j <= m, NEW default
  PROVE  LastAt(ks, default) = argv[m]
<1> DEFINE IsLast(k) == \A j \in ks : j <= k
           last      == CHOOSE k \in ks : IsLast(k)
<1>1. IsLast(m)
  OBVIOUS
<1>2. last \in ks /\ IsLast(last)
  <2> HIDE DEF IsLast
  <2> QED  BY <1>1
<1>3. last = m
  <2>1. last <= m /\ m <= last
    BY <1>2
  <2>2. last \in Int /\ m \in Int
    BY <1>2
  <2> HIDE DEF last
  <2> QED  BY <2>1, <2>2
<1>4. LastAt(ks, default) = argv[last]
  BY Zenon DEF LastAt
<1> QED  BY <1>3, <1>4, Zenon

LEMMA ReadSoFarIsTyped ==
  ASSUME CliTypeOK, parsed = "options", ReadSoFar
  PROVE  /\ Len(argv) \in Nat /\ Len(argv) > 0
         /\ \A k \in 1 .. Len(argv) : argv[k] \in Words
         /\ i \in Nat
         /\ i >= 2 /\ i <= Len(argv) + 1
BY DEF CliTypeOK, ReadSoFar

-----------------------------------------------------------------------------
(* Actions that leave a line half read leave ParserMeetsGrammar true, and  *)
(* those that fail fail on a word the grammar refuses.                     *)

LEMMA ParseActionInv == ParserInv /\ ParseAction => ParserInv'
<1> SUFFICES ASSUME ParserInv, ParseAction PROVE ParserInv'
  OBVIOUS
<1> USE WordFacts
<1>1. /\ parsed = "action" /\ i' = 2
      /\ argv' = argv /\ confFile' = DefaultConf /\ pkgPath' = NoWord
  BY DEF ParserInv, ParseAction
<1>2. CliTypeOK'
  BY <1>1 DEF ParserInv, ParseAction, CliTypeOK
<1>3. CASE parsed' = "options"
  <2>1. argv # <<>> /\ argv[1] \in {"init", "add"}
    BY <1>3 DEF ParseAction
  <2>0. Len(argv) \in Nat /\ Len(argv) > 0
    BY <2>1 DEF ParserInv, CliTypeOK
  <2>2. ConfAt(2) = {} /\ PkgAt(2) = {}
    BY DEF ConfAt, PkgAt
  <2>3. ReadSoFar'
    BY <1>1, <2>0, <2>1, <2>2 DEF ReadSoFar, IsOption, LastAt, ConfAt, PkgAt, IsAdd
  <2> QED  BY <1>1, <1>2, <1>3, <2>3 DEF ParserInv, ParserMeetsGrammar
<1>4. CASE parsed' = "failed"
  <2>1. argv = <<>> \/ argv[1] \notin {"init", "add"}
    BY <1>4 DEF ParseAction
  <2> QED  BY <1>1, <1>2, <1>4, <2>1 DEF ParserInv, ParserMeetsGrammar
<1>5. CASE parsed' = "helped"
  BY <1>1, <1>2, <1>5 DEF ParserInv, ParserMeetsGrammar
<1> QED  BY <1>3, <1>4, <1>5 DEF ParseAction

(* A step that fails at a word the grammar refuses. *)
LEMMA FailsInv ==
  ASSUME ParserInv, InOptions, Fails, ~WordOK(i)
  PROVE  ParserInv'
<1> USE WordFacts
<1>1. i \in 2 .. Len(argv)
  BY ReadSoFarIsTyped DEF ParserInv, InOptions
<1>2. ~Accepted
  BY <1>1, AcceptedWords
<1>3. Accepted' = Accepted
  BY DEF Fails, Accepted, Positions, IsArg, IsOption, IsAdd
<1>4. parsed' = "failed" /\ argv' = argv /\ i' = i /\ confFile' = confFile /\ pkgPath' = pkgPath
  BY DEF Fails
<1> QED  BY <1>2, <1>3, <1>4 DEF ParserInv, CliTypeOK, ParserMeetsGrammar

(* The words before the one at i + 1 are right when those before i are and *)
(* i is; and likewise for the one at i + 2.                                *)
LEMMA Advance ==
  ASSUME NEW n \in Nat, n >= 2
  PROVE  /\ ConfAt(n + 1) = ConfAt(n) \cup
              (IF IsArg(n) /\ argv[n - 1] \in ConfOptions THEN {n} ELSE {})
         /\ PkgAt(n + 1) = PkgAt(n) \cup
              (IF argv[n] \notin Dashed /\ (IsArg(n) => argv[n - 1] \in BareDashes)
                 THEN {n} ELSE {})
<1>1. 2 .. (n + 1) - 1 = (2 .. n - 1) \cup {n}
  OBVIOUS
<1> QED  BY <1>1 DEF ConfAt, PkgAt

(* The last word is the one that was added, if one was. *)
LEMMA LastAdded ==
  ASSUME NEW n \in Nat, NEW ks \in SUBSET (2 .. n - 1), NEW default
  PROVE  LastAt(ks \cup {n}, default) = argv[n]
<1>1. ks \cup {n} \in SUBSET Int /\ \A j \in ks \cup {n} : j <= n
  OBVIOUS
<1> QED  BY <1>1, LastIs

LEMMA AtSubset == \A n : ConfAt(n) \subseteq 2 .. n - 1 /\ PkgAt(n) \subseteq 2 .. n - 1
BY DEF ConfAt, PkgAt

(* What an option with its argument adds. *)
LEMMA OptionWithArg ==
  ASSUME ParserInv, InOptions, HasArg, argv[i] \in Dashed
  PROVE  /\ i \in Nat /\ i >= 2 /\ i + 1 <= Len(argv)
         /\ IsOption(i) /\ ~IsArg(i) /\ IsArg(i + 1) /\ ~IsOption(i + 1)
         /\ LastAt(ConfAt(i + 2), DefaultConf) =
              IF argv[i] \in ConfOptions THEN argv[i + 1]
                                         ELSE LastAt(ConfAt(i), DefaultConf)
         /\ LastAt(PkgAt(i + 2), NoWord) =
              IF argv[i] \in BareDashes THEN argv[i + 1]
                                        ELSE LastAt(PkgAt(i), NoWord)
<1>1. i \in Nat /\ i >= 2 /\ i + 1 <= Len(argv) /\ Len(argv) \in Nat
  BY ReadSoFarIsTyped DEF ParserInv, HasArg, InOptions
<1>2. IsOption(i) /\ ~IsArg(i) /\ ~IsOption(i + 1) /\ IsArg(i + 1)
  BY <1>1 DEF IsOption, IsArg, HasArg
<1>3. ConfAt(i + 1) = ConfAt(i) /\ PkgAt(i + 1) = PkgAt(i)
  BY <1>1, <1>2, Advance DEF IsOption
<1>4. /\ ConfAt(i + 2) = ConfAt(i) \cup
              (IF argv[i] \in ConfOptions THEN {i + 1} ELSE {})
      /\ PkgAt(i + 2) = PkgAt(i) \cup
              (IF argv[i] \in BareDashes THEN {i + 1} ELSE {})
  <2>1. (i + 1) + 1 = i + 2 /\ (i + 1) - 1 = i /\ i + 1 \in Nat /\ i + 1 >= 2
    BY <1>1
  <2>2. argv[i + 1] \notin Dashed
    BY DEF HasArg
  <2> QED  BY <2>1, <2>2, <1>2, <1>3, Advance
<1>5. ConfAt(i) \in SUBSET (2 .. (i + 1) - 1) /\ PkgAt(i) \in SUBSET (2 .. (i + 1) - 1)
  BY <1>1, AtSubset
<1>6. /\ LastAt(ConfAt(i) \cup {i + 1}, DefaultConf) = argv[i + 1]
      /\ LastAt(PkgAt(i) \cup {i + 1}, NoWord) = argv[i + 1]
  <2> DEFINE n == i + 1
  <2>1. n \in Nat /\ ConfAt(i) \in SUBSET (2 .. n - 1) /\ PkgAt(i) \in SUBSET (2 .. n - 1)
    BY <1>1, <1>5
  <2> HIDE DEF n
  <2>2. /\ LastAt(ConfAt(i) \cup {n}, DefaultConf) = argv[n]
        /\ LastAt(PkgAt(i) \cup {n}, NoWord) = argv[n]
    BY <2>1, LastAdded
  <2> QED  BY <2>2 DEF n
<1> QED  BY <1>1, <1>2, <1>4, <1>6

(* A step to between two words n, all of which the grammar accepts.        *)
LEMMA AdvanceInv ==
  ASSUME ParserInv, InOptions, NEW n \in Nat, n > i, n <= Len(argv) + 1,
         i' = n, UNCHANGED <<argv, parsed>>, confFile' \in Words, pkgPath' \in Words \cup {NoWord},
         ~IsOption(n - 1), \A k \in i .. n - 1 : WordOK(k),
         confFile' = LastAt(ConfAt(n), DefaultConf),
         IsAdd => pkgPath' = LastAt(PkgAt(n), NoWord)
  PROVE  ParserInv'
<1>1. CliTypeOK'
  BY DEF ParserInv, CliTypeOK
<1>2. parsed = "options" /\ parsed' = "options" /\ ReadSoFar
  BY DEF ParserInv, InOptions
<1>3. n \in 2 .. Len(argv) + 1 /\ \A k \in 2 .. n - 1 : WordOK(k)
  <2>1. i \in Nat /\ i >= 2 /\ \A k \in 2 .. i - 1 : WordOK(k)
    BY <1>2, ReadSoFarIsTyped DEF ParserInv, ReadSoFar
  <2>2. Len(argv) \in Nat
    BY DEF ParserInv, CliTypeOK
  <2> QED  BY <2>1, <2>2
<1>4. ReadSoFar'
  <2>1. \A k : (WordOK(k))' = WordOK(k)
    BY DEF WordOK, IsArg, IsOption, IsAdd
  <2>2. (~IsOption(i - 1))' <=> ~IsOption(n - 1)
    BY DEF IsOption
  <2>3. /\ (LastAt(ConfAt(i), DefaultConf))' = LastAt(ConfAt(n), DefaultConf)
        /\ (LastAt(PkgAt(i), NoWord))' = LastAt(PkgAt(n), NoWord)
    BY DEF LastAt, ConfAt, PkgAt, IsArg, IsOption
  <2>4. argv # <<>> /\ argv[1] \in {"init", "add"}
    BY <1>2 DEF ReadSoFar
  <2> QED  BY <1>3, <2>1, <2>2, <2>3, <2>4 DEF ReadSoFar, IsAdd
<1> QED  BY <1>1, <1>2, <1>4 DEF ParserInv, ParserMeetsGrammar

(* An option that has no argument, or is none of the action's, is refused. *)
LEMMA OptionAlone ==
  ASSUME ParserInv, InOptions, argv[i] \in Dashed
  PROVE  /\ IsOption(i) /\ ~IsArg(i)
         /\ ~HasArg => ~WordOK(i)
         /\ argv[i] \notin ConfOptions \cup (IF IsAdd THEN BareDashes ELSE {}) => ~WordOK(i)
<1>1. i \in Nat /\ i >= 2 /\ i <= Len(argv) /\ Len(argv) \in Nat
  BY ReadSoFarIsTyped DEF ParserInv, InOptions
<1>2. IsOption(i) /\ ~IsArg(i)
  BY <1>1 DEF IsOption, IsArg
<1>3. IsArg(i + 1) => argv[i + 1] \notin Dashed
  BY DEF IsArg
<1> QED  BY <1>2, <1>3 DEF WordOK, HasArg

LEMMA ParseConfInv == ParserInv /\ ParseConf => ParserInv'
<1> SUFFICES ASSUME ParserInv, ParseConf PROVE ParserInv'
  OBVIOUS
<1> USE WordFacts
<1>1. InOptions /\ argv[i] \in ConfOptions /\ argv[i] \in Dashed /\ argv[i] \notin BareDashes
  BY DEF ParseConf
<1>2. CASE HasArg /\ confFile' = argv[i + 1] /\ i' = i + 2 /\ UNCHANGED <<argv, pkgPath, parsed>>
  <2>1. /\ i \in Nat /\ i >= 2 /\ i + 1 <= Len(argv)
        /\ IsOption(i) /\ IsArg(i + 1) /\ ~IsOption(i + 1)
        /\ LastAt(ConfAt(i + 2), DefaultConf) = argv[i + 1]
        /\ LastAt(PkgAt(i + 2), NoWord) = LastAt(PkgAt(i), NoWord)
    BY <1>1, <1>2, OptionWithArg
  <2>2. Len(argv) \in Nat /\ argv[i + 1] \in Words /\ pkgPath \in Words \cup {NoWord}
    BY <2>1 DEF ParserInv, CliTypeOK
  <2>3. WordOK(i) /\ WordOK(i + 1)
    BY <1>1, <2>1, <2>2 DEF WordOK
  <2>4. IsAdd => pkgPath = LastAt(PkgAt(i), NoWord)
    BY <1>1 DEF ParserInv, InOptions, ReadSoFar
  <2>5. /\ i + 2 \in Nat /\ i + 2 > i /\ i + 2 <= Len(argv) + 1 /\ (i + 2) - 1 = i + 1
        /\ \A k \in i .. (i + 2) - 1 : k = i \/ k = i + 1
    BY <2>1, <2>2
  <2> HIDE DEF IsAdd
  <2> QED  BY <1>1, <1>2, <2>1, <2>2, <2>3, <2>4, <2>5, AdvanceInv
<1>3. CASE ~HasArg /\ Fails
  <2>1. ~WordOK(i)
    BY <1>1, <1>3, OptionAlone
  <2> QED  BY <1>1, <1>3, <2>1, FailsInv
<1> QED  BY <1>2, <1>3 DEF ParseConf

LEMMA ParseBareDashInv == ParserInv /\ ParseBareDash => ParserInv'
<1> SUFFICES ASSUME ParserInv, ParseBareDash PROVE ParserInv'
  OBVIOUS
<1> USE WordFacts
<1>1. InOptions /\ argv[i] \in BareDashes /\ argv[i] \in Dashed /\ argv[i] \notin ConfOptions
  BY DEF ParseBareDash
<1>2. CASE IsAdd /\ HasArg /\ pkgPath' = argv[i + 1] /\ i' = i + 2
           /\ UNCHANGED <<argv, confFile, parsed>>
  <2>1. /\ i \in Nat /\ i >= 2 /\ i + 1 <= Len(argv)
        /\ IsOption(i) /\ IsArg(i + 1) /\ ~IsOption(i + 1)
        /\ LastAt(ConfAt(i + 2), DefaultConf) = LastAt(ConfAt(i), DefaultConf)
        /\ LastAt(PkgAt(i + 2), NoWord) = argv[i + 1]
    BY <1>1, <1>2, OptionWithArg
  <2>2. Len(argv) \in Nat /\ argv[i + 1] \in Words /\ confFile \in Words
    BY <2>1 DEF ParserInv, CliTypeOK
  <2>3. WordOK(i) /\ WordOK(i + 1)
    BY <1>1, <1>2, <2>1, <2>2 DEF WordOK
  <2>4. confFile = LastAt(ConfAt(i), DefaultConf)
    BY <1>1 DEF ParserInv, InOptions, ReadSoFar
  <2>5. /\ i + 2 \in Nat /\ i + 2 > i /\ i + 2 <= Len(argv) + 1 /\ (i + 2) - 1 = i + 1
        /\ \A k \in i .. (i + 2) - 1 : k = i \/ k = i + 1
    BY <2>1, <2>2
  <2> HIDE DEF IsAdd
  <2> QED  BY <1>1, <1>2, <2>1, <2>2, <2>3, <2>4, <2>5, AdvanceInv
<1>3. CASE ~(IsAdd /\ HasArg) /\ Fails
  <2>1. ~WordOK(i)
    <3>1. CASE ~HasArg
      BY <1>1, <3>1, OptionAlone
    <3>2. CASE ~IsAdd
      BY <1>1, <3>2, OptionAlone DEF WordOK, IsArg
    <3> QED  BY <1>3, <3>1, <3>2
  <2> QED  BY <1>1, <1>3, <2>1, FailsInv
<1> QED  BY <1>2, <1>3 DEF ParseBareDash

LEMMA ParsePlainInv == ParserInv /\ ParsePlain => ParserInv'
<1> SUFFICES ASSUME ParserInv, ParsePlain PROVE ParserInv'
  OBVIOUS
<1> USE WordFacts
<1>1. InOptions /\ argv[i] \notin Dashed /\ ReadSoFar
  BY DEF ParsePlain, ParserInv, InOptions
<1>2. /\ i \in Nat /\ i >= 2 /\ i <= Len(argv) /\ Len(argv) \in Nat
      /\ argv[i] \in Words /\ confFile \in Words
  BY <1>1, ReadSoFarIsTyped DEF ParserInv, InOptions, CliTypeOK
<1>3. ~IsArg(i) /\ ~IsOption(i)
  BY <1>1 DEF ReadSoFar, IsArg, IsOption
<1>4. CASE IsAdd /\ pkgPath' = argv[i] /\ i' = i + 1 /\ UNCHANGED <<argv, confFile, parsed>>
  <2>1. WordOK(i)
    BY <1>3, <1>4 DEF WordOK
  <2>2. ConfAt(i + 1) = ConfAt(i) /\ PkgAt(i + 1) = PkgAt(i) \cup {i}
    BY <1>1, <1>2, <1>3, Advance
  <2>3. LastAt(PkgAt(i + 1), NoWord) = argv[i]
    BY <1>2, <2>2, AtSubset, LastAdded
  <2>4. confFile = LastAt(ConfAt(i + 1), DefaultConf)
    BY <1>1, <2>2 DEF ReadSoFar
  <2>5. /\ i + 1 \in Nat /\ i + 1 > i /\ i + 1 <= Len(argv) + 1 /\ (i + 1) - 1 = i
        /\ \A k \in i .. (i + 1) - 1 : k = i
    BY <1>2
  <2> HIDE DEF IsAdd
  <2> QED  BY <1>1, <1>2, <1>3, <1>4, <2>1, <2>3, <2>4, <2>5, AdvanceInv
<1>5. CASE ~IsAdd /\ Fails
  <2>1. ~WordOK(i)
    BY <1>3, <1>5 DEF WordOK
  <2> QED  BY <1>1, <1>5, <2>1, FailsInv
<1> QED  BY <1>4, <1>5 DEF ParsePlain

LEMMA ParseUnrecognizedInv == ParserInv /\ ParseUnrecognized => ParserInv'
<1> SUFFICES ASSUME ParserInv, ParseUnrecognized PROVE ParserInv'
  OBVIOUS
<1>1. ~WordOK(i)
  BY OptionAlone DEF ParseUnrecognized, WordOK, IsArg
<1> QED  BY <1>1, FailsInv DEF ParseUnrecognized

LEMMA ParseEndsInv == ParserInv /\ ParseEnds => ParserInv'
<1> SUFFICES ASSUME ParserInv, ParseEnds PROVE ParserInv'
  OBVIOUS
<1>1. /\ parsed = "options" /\ parsed' = "ok" /\ i > Len(argv)
      /\ argv' = argv /\ i' = i /\ confFile' = confFile /\ pkgPath' = pkgPath
      /\ ReadSoFar /\ CliTypeOK
  BY DEF ParseEnds, ParserInv
<1>2. i = Len(argv) + 1 /\ Len(argv) \in Nat
  BY <1>1, ReadSoFarIsTyped
<1>3. 2 .. i - 1 = 2 .. Len(argv)
  BY <1>2
<1>4. Accepted
  BY <1>1, <1>3, AcceptedWords DEF ReadSoFar
<1>5. ConfAt(i) = {k \in Positions : IsArg(k) /\ argv[k - 1] \in ConfOptions}
  BY <1>3 DEF ConfAt, Positions
<1>6. PkgAt(i) = {k \in Positions : /\ argv[k] \notin Dashed
                                    /\ IsArg(k) => argv[k - 1] \in BareDashes}
  BY <1>3 DEF PkgAt, Positions
<1>7. confFile = ConfGiven /\ (IsAdd => pkgPath = PkgGiven)
  BY <1>1, <1>5, <1>6 DEF ReadSoFar, ConfGiven, PkgGiven
<1>8. /\ Accepted' = Accepted /\ ConfGiven' = ConfGiven /\ PkgGiven' = PkgGiven
      /\ IsAdd' = IsAdd
  BY <1>1 DEF Accepted, ConfGiven, PkgGiven, LastAt, Positions, IsArg, IsOption, IsAdd
<1> QED  BY <1>1, <1>4, <1>7, <1>8 DEF ParserInv, CliTypeOK, ParserMeetsGrammar

(* Every step of the parser. *)
LEMMA ParseInv == ParserInv /\ Parse => ParserInv'
BY ParseActionInv, ParseConfInv, ParseBareDashInv, ParsePlainInv,
   ParseUnrecognizedInv, ParseEndsInv DEF Parse

(* A line is given to a parser that has not begun. *)
LEMMA CliStartInv ==
  ASSUME NEW words \in Seq(Words), CliInit, CliStart(words)
  PROVE  ParserInv'
BY WordFacts DEF CliInit, CliStart, ParserInv, CliTypeOK, ParserMeetsGrammar

LEMMA CliInitInv == CliInit => ParserInv
BY WordFacts DEF CliInit, ParserInv, CliTypeOK, ParserMeetsGrammar

LEMMA CliClearInv == CliClear => CliInit' /\ ParserInv'
<1>1. CliClear => CliInit'
  BY DEF CliInit, CliClear
<1>2. CliInit' => ParserInv'
  BY CliInitInv, PTL
<1> QED  BY <1>1, <1>2

=============================================================================
