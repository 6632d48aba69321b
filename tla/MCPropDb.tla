------------------------------ MODULE MCPropDb ------------------------------
(***************************************************************************)
(* Instances of PropDb for TLC.                                            *)
(***************************************************************************)
EXTENDS PropDb

CONSTANTS na, nb, nc, p1, p2

(* The data of a property: the first data word, whose type field is the    *)
(* package type, 0 as PkgReadConf leaves it or 1; the other words are as   *)
(* for a package without dependencies.                                     *)
DataOfType(t) ==
  [w \in 1 .. W - 1 |-> IF w = 1 THEN [val |-> 0, type |-> t] ELSE ZeroWord]

TypedProps == {[name |-> n, data |-> DataOfType(t)] : n \in Names, t \in {0, 1}}
PlainProps == {[name |-> n, data |-> DataOfType(1)] : n \in Names}
=============================================================================
