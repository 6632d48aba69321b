----------------------------- MODULE CommandLine -----------------------------
(***************************************************************************)
(* The command line of nnpkg: parseArgs, parseAction and parseArg (main.c) *)
(* over the option tables of init and add.  One step handles one option    *)
(* with the argument it takes, or one word that is not an option.  A word  *)
(* is told apart by what the parser asks of it: whether it begins with a   *)
(* dash, and which entry of the option table it matches.                   *)
(***************************************************************************)
EXTENDS Integers, Sequences, FiniteSets

CONSTANTS
  Words,        \* words of a command line; none is empty
  Dashed,       \* those that begin with "-"
  ConfOptions,  \* "--conf", "-c" and whatever else begins with "-c"
  BareDashes,   \* "-" and "--"
  DefaultConf,  \* NNPKG_CONFFILE_PATH
  NoWord        \* NULL

ASSUME CommandLineAssumption ==
  /\ Dashed \subseteq Words
  /\ ConfOptions \subseteq Dashed /\ BareDashes \subseteq Dashed
  /\ ConfOptions \cap BareDashes = {}
  /\ {"init", "add", "help", "version"} \subseteq Words \ Dashed
  /\ DefaultConf \in Words
  /\ NoWord \notin Words

VARIABLES
  argv,      \* the words after the program's name
  i,         \* the word the parser is at
  confFile,  \* confFile of the action
  pkgPath,   \* pkgPath of add
  parsed     \* what parseArgs has come to

cliVars == <<argv, i, confFile, pkgPath, parsed>>

CliTypeOK ==
  /\ argv \in Seq(Words)
  /\ i \in Nat
  /\ confFile \in Words
  /\ pkgPath \in Words \cup {NoWord}
  /\ parsed \in {"none", "action", "options", "ok", "failed", "helped"}

CliClear == argv' = <<>> /\ i' = 0 /\ confFile' = DefaultConf /\ pkgPath' = NoWord
            /\ parsed' = "none"

CliInit == argv = <<>> /\ i = 0 /\ confFile = DefaultConf /\ pkgPath = NoWord
           /\ parsed = "none"

CliStart(words) ==
  /\ argv' = words /\ i' = 1 /\ parsed' = "action"
  /\ UNCHANGED <<confFile, pkgPath>>

IsAdd == argv[1] = "add"

(* parseArgs: the action, which must not look like an option. *)
ParseAction ==
  /\ parsed = "action"
  /\ parsed' = IF argv = <<>> \/ argv[1] \in Dashed THEN "failed"
               ELSE CASE argv[1] \in {"help", "version"} -> "helped"
                      [] argv[1] \in {"init", "add"}     -> "options"
                      [] OTHER                           -> "failed"
  /\ i' = 2
  /\ UNCHANGED <<argv, confFile, pkgPath>>

InOptions == parsed = "options" /\ i <= Len(argv)

(* parseArg: the next word is the argument unless it is an option.         *)
HasArgAlways == i < Len(argv)                             \* seeded fault
HasArg == i < Len(argv) /\ argv[i + 1] \notin Dashed

Fails == parsed' = "failed" /\ UNCHANGED <<argv, i, confFile, pkgPath>>

(* An option of the first entry of both tables. *)
ParseConf ==
  /\ InOptions /\ argv[i] \in ConfOptions
  /\ \/ /\ HasArg
        /\ confFile' = argv[i + 1] /\ i' = i + 2
        /\ UNCHANGED <<argv, pkgPath, parsed>>
     \/ ~HasArg /\ Fails

(* The second entry of add, for the package, has the short option '\0' and *)
(* the long option "": "-" and "--" match it, and take an argument.        *)
ParseBareDash ==
  /\ InOptions /\ argv[i] \in BareDashes
  /\ \/ /\ IsAdd /\ HasArg
        /\ pkgPath' = argv[i + 1] /\ i' = i + 2
        /\ UNCHANGED <<argv, confFile, parsed>>
     \/ ~(IsAdd /\ HasArg) /\ Fails

(* It also takes the words that are no options; init has no such entry.    *)
ParsePlain ==
  /\ InOptions /\ argv[i] \notin Dashed
  /\ \/ /\ IsAdd
        /\ pkgPath' = argv[i] /\ i' = i + 1
        /\ UNCHANGED <<argv, confFile, parsed>>
     \/ ~IsAdd /\ Fails

ParseUnrecognized ==
  /\ InOptions
  /\ argv[i] \in Dashed \ (ConfOptions \cup BareDashes)
  /\ Fails

ParseEnds ==
  /\ parsed = "options" /\ i > Len(argv)
  /\ parsed' = "ok"
  /\ UNCHANGED <<argv, i, confFile, pkgPath>>

Parse == ParseAction \/ ParseConf \/ ParseBareDash \/ ParsePlain
         \/ ParseUnrecognized \/ ParseEnds

-----------------------------------------------------------------------------
(* The same language without a parser: which words are arguments follows   *)
(* from the word before each.                                              *)

IsOption(k) == k > 1 /\ argv[k] \in Dashed
IsArg(k)    == k > 2 /\ IsOption(k - 1) /\ argv[k] \notin Dashed
Positions   == 2 .. Len(argv)

Accepted ==
  \A k \in Positions :
    \/ IsArg(k)
    \/ /\ IsOption(k) /\ k < Len(argv) /\ IsArg(k + 1)
       /\ argv[k] \in ConfOptions \cup IF IsAdd THEN BareDashes ELSE {}
    \/ IsAdd /\ ~IsOption(k)

(* The last of the words at these positions, or a default. *)
LastAt(ks, default) ==
  IF ks = {} THEN default ELSE argv[CHOOSE k \in ks : \A j \in ks : j <= k]

ConfGiven == LastAt({k \in Positions : IsArg(k) /\ argv[k - 1] \in ConfOptions},
                    DefaultConf)
PkgGiven  == LastAt({k \in Positions : /\ argv[k] \notin Dashed
                                       /\ IsArg(k) => argv[k - 1] \in BareDashes},
                    NoWord)

(* The parser accepts exactly that language, whatever the order of words:  *)
(* an option never takes another option as its argument, a word is never   *)
(* used twice, and the last of several configurations or packages counts.  *)
ParserMeetsGrammar ==
  /\ parsed = "ok" =>
       /\ Accepted
       /\ confFile = ConfGiven
       /\ IsAdd => pkgPath = PkgGiven
  /\ parsed = "failed" => argv = <<>> \/ argv[1] \notin {"init", "add"} \/ ~Accepted
=============================================================================
