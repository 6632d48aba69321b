------------------------------ MODULE PropStore ------------------------------
(***************************************************************************)
(* What the property database promises its users: a sequence of properties *)
(* with distinct names, one session at a time, and additions that become   *)
(* visible all at once, in the order they were made, and stay.             *)
(***************************************************************************)
EXTENDS Sequences

CONSTANTS
  Users,    \* processes
  NoUser,   \* owner of a store nobody has open
  Entries   \* records with a field name

VARIABLES
  store,    \* the committed properties
  owner,    \* who has the store open
  batch     \* what the owner has added since

vars == <<store, owner, batch>>

Has(seq, n) == \E i \in DOMAIN seq : seq[i].name = n

Init == store = <<>> /\ owner = NoUser /\ batch = <<>>

Acquire(u) ==
  /\ owner = NoUser
  /\ owner' = u
  /\ UNCHANGED <<store, batch>>

Add(u, e) ==
  /\ owner = u
  /\ ~Has(store, e.name) /\ ~Has(batch, e.name)
  /\ batch' = Append(batch, e)
  /\ UNCHANGED <<store, owner>>

Commit(u) ==
  /\ owner = u
  /\ store' = store \o batch
  /\ batch' = <<>>
  /\ UNCHANGED owner

Release(u) ==
  /\ owner = u /\ batch = <<>>
  /\ owner' = NoUser
  /\ UNCHANGED <<store, batch>>

Next ==
  \E u \in Users :
    \/ Acquire(u) \/ Commit(u) \/ Release(u)
    \/ \E e \in Entries : Add(u, e)

Spec == Init /\ [][Next]_vars
=============================================================================
