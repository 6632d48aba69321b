---------------------------- MODULE MCTransaction ----------------------------
(***************************************************************************)
(* Instances of Transaction for TLC.                                       *)
(***************************************************************************)
EXTENDS Transaction

CONSTANTS
  na, nb, p1, p2, f1, f2,
  ca,     \* package na with one file
  cb,     \* package nb, which has that file and another
  caNew,  \* a second version of na, with the other file only
  cbDep,  \* package nb, dependent on na
  cSyntax, cNoPrefix, cNoDesc   \* configuration files that are not complete

Plain == [parses |-> TRUE, id |-> na, deps |-> {}, prefix |-> TRUE,
          description |-> TRUE, files |-> {f1}]

PkgOf(c) ==
  CASE c = ca        -> Plain
    [] c = cb        -> [Plain EXCEPT !.id = nb, !.files = {f1, f2}]
    [] c = caNew     -> [Plain EXCEPT !.files = {f2}]
    [] c = cbDep     -> [Plain EXCEPT !.id = nb, !.deps = {na}]
    [] c = cSyntax   -> [Plain EXCEPT !.parses = FALSE, !.deps = {nb}]
    [] c = cNoPrefix -> [Plain EXCEPT !.prefix = FALSE]
    [] c = cNoDesc   -> [Plain EXCEPT !.description = FALSE, !.id = nb]

Pkgs == [c \in Confs |-> PkgOf(c)]
=============================================================================
