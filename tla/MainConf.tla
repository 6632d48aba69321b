------------------------------- MODULE MainConf -------------------------------
(***************************************************************************)
(* The main configuration of a process (pkgconf.c): PkgParseMainConf,      *)
(* PkgDestroyMainConf and the static structure both work on, which nothing *)
(* resets.  A configuration file is the sequence of its values, as libconf *)
(* (external) delivers them; the first value or block that is wrong ends   *)
(* the parse and leaves what came before in the structure.                 *)
(***************************************************************************)
EXTENDS Integers, Sequences

CONSTANTS
  Paths,      \* paths a configuration may name
  NoPath,     \* NULL
  ConfFiles,  \* names of the files that libconf parses
  Values      \* the values in each

Fields == {"dbPath", "strtabPath", "idxPath"}    \* of NnpkgMainConf_t

(* A value of "packageDb", "strtab" or "indexPath", or something that is   *)
(* refused: another property or block, or a value that is not a string.    *)
Value == [field : Fields \cup {"refused"}, path : Paths]

ASSUME MainConfAssumption ==
  /\ NoPath \notin Paths
  /\ Values \in [ConfFiles -> Seq(Value)]

VARIABLES
  conf,    \* the static structure; a field is live until it is freed
  cbConf,  \* cb->conf is set
  parse    \* history: the last parse

confVars == <<conf, cbConf, parse>>

Field   == [path : Paths \cup {NoPath}, live : BOOLEAN]
Null    == [path |-> NoPath, live |-> FALSE]
NoParse == [ok |-> FALSE, vals |-> <<>>, first |-> TRUE]

ConfTypeOK ==
  /\ conf \in [Fields -> Field]
  /\ cbConf \in BOOLEAN
  /\ parse \in [ok : BOOLEAN, vals : Seq(Value), first : BOOLEAN]

ConfInit == conf = [f \in Fields |-> Null] /\ cbConf = FALSE /\ parse = NoParse

(* The process is gone, and its static data. *)
ConfClear ==
  conf' = [f \in Fields |-> Null] /\ cbConf' = FALSE /\ parse' = NoParse

(* pkgConfAddProperty: a path given again replaces the first. *)
ApplyFirst(s, v) ==                                       \* seeded fault
  IF ~s.ok \/ v.field = "refused" THEN [s EXCEPT !.ok = FALSE]
  ELSE IF s.conf[v.field].live THEN s
  ELSE [s EXCEPT !.conf[v.field] = [path |-> v.path, live |-> TRUE]]
Apply(s, v) ==
  IF ~s.ok \/ v.field = "refused" THEN [s EXCEPT !.ok = FALSE]
  ELSE [s EXCEPT !.conf[v.field] = [path |-> v.path, live |-> TRUE]]

(* The structure, and whether all is well, after each value of a file.     *)
After(vals) ==
  LET after[n \in 0 .. Len(vals)] ==
        IF n = 0 THEN [conf |-> conf, ok |-> TRUE] ELSE Apply(after[n - 1], vals[n])
  IN  after

(* What is checked in the end is that no path is NULL. *)
ParseMainConf(file) ==
  LET vals == IF file \in ConfFiles THEN Values[file] ELSE <<>>
      r    == After(vals)[Len(vals)]
      ok   == file \in ConfFiles /\ r.ok /\ \A f \in Fields : r.conf[f].path # NoPath
  IN  /\ conf' = r.conf
      /\ cbConf' = (cbConf \/ ok)
      /\ parse' = [ok |-> ok, vals |-> vals, first |-> \A f \in Fields : conf[f] = Null]

(* PkgDestroyMainConf frees the three paths and leaves the pointers.       *)
Destroyable == \A f \in Fields : conf[f].live

DestroyMainConf ==
  /\ conf' = [f \in Fields |-> [conf[f] EXCEPT !.live = FALSE]]
  /\ parse' = [parse EXCEPT !.ok = FALSE]
  /\ UNCHANGED cbConf

-----------------------------------------------------------------------------
Given(f) == {k \in DOMAIN parse.vals : parse.vals[k].field = f}

(* A parse that succeeds has taken the last value the file has of every    *)
(* property, and, if it is the first one of the process, the file has all  *)
(* three: "package database path not specified" (pkgconf.c:223) and the    *)
(* two messages after it.                                                  *)
ConfIsOfFile ==
  parse.ok =>
    /\ \A k \in DOMAIN parse.vals : parse.vals[k].field # "refused"
    /\ \A f \in Fields :
         \/ /\ Given(f) = {} /\ ~parse.first
         \/ \E k \in Given(f) :
              /\ \A j \in Given(f) : j <= k
              /\ conf[f] = [path |-> parse.vals[k].path, live |-> TRUE]
=============================================================================
