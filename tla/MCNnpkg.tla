------------------------------- MODULE MCNnpkg -------------------------------
(***************************************************************************)
(* Instances of Nnpkg for TLC.                                             *)
(***************************************************************************)
EXTENDS Nnpkg, TLC

CONSTANTS a, b, c, l1, l2, idx

MCConfFiles == {"one", "two", "both", "bad", "index", "database"}

P(id, deps) == [id |-> id, deps |-> deps]

(* Two versions of a, one of which depends on b as b does on a; and c,     *)
(* with one dependency too many: as stored, it fills its list of them.     *)
MCPackages == {P(a, <<>>), P(a, <<b>>), P(b, <<a>>), P(c, <<a, a, a>>)}

(* A client adds up to two packages at l1, where kills and failing writes  *)
(* hit; at l2 only a command or a transaction adds, and only one.          *)
MCMaxSlots == (l1 :> 2) @@ (l2 :> 0)

(* Any order of these words, and commands that do something.               *)
MCDashed == {"-c", "-", "-x"}
Lines    == {"init", "add", "help", "one", "pkg"} \cup MCDashed
MCWords  == Lines \cup MCConfFiles \cup {"version", "pkgb"}

MCFirstLines == UNION {[1 .. n -> Lines] : n \in 0 .. 4}
MCCommands   == {<<"init">>, <<"add", "pkg">>, <<"init", "-c", "bad">>,
                 <<"init", "-c", "both">>, <<"add", "-c", "one", "pkg", "-c", "two">>}
MCDescribed  == ("pkg" :> P(a, <<>>)) @@ ("pkgb" :> P(b, <<a>>))

V(field, path) == [field |-> field, path |-> path]
Db(l) == <<V("dbPath", l), V("strtabPath", l)>>

(* A configuration of each location, one of both, where the last counts,   *)
(* one that is wrong after its paths, and one that gives only the index,   *)
(* or only the database.                                                   *)
MCValues ==
  [f \in MCConfFiles |->
     CASE f = "one"   -> Db(l1) \o <<V("idxPath", idx)>>
       [] f = "two"   -> Db(l2) \o <<V("idxPath", idx)>>
       [] f = "both"  -> Db(l1) \o Db(l2) \o <<V("idxPath", idx)>>
       [] f = "bad"   -> Db(l1) \o <<V("refused", idx)>>
       [] f = "index"    -> <<V("idxPath", idx)>>
       [] f = "database" -> Db(l1)]
=============================================================================
