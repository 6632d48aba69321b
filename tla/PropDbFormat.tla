---------------------------- MODULE PropDbFormat ----------------------------
(***************************************************************************)
(* The on-disk format of the property database (propdb.c) and of its       *)
(* string table (strtab.c), and the pure functions of that format.         *)
(*                                                                         *)
(* The database file is a header followed by 512-byte slots.  The code     *)
(* reads and writes a slot through 12-byte units (sizeof                   *)
(* propDbProperty_t): the first unit of a slot is the property header,     *)
(* the others are its data.  The model keeps the first W units, "words",   *)
(* of every slot; the rest of a slot is zero as long as a property uses    *)
(* only its first W words.  Of a word it keeps the two fields the code     *)
(* ever interprets: val, the 32-bit field at byte 0 (the string index of   *)
(* a header), and type, the 16-bit field at byte 8.                        *)
(*                                                                         *)
(* The string table is an array of cells, one per string; cell 0 is the    *)
(* table's header, so that an all-zero slot points at cell 0.              *)
(***************************************************************************)
EXTENDS Integers

CONSTANTS
  Names,        \* identifiers of properties
  NoString,     \* content of a cell that was never written
  StrtabHeader, \* content of cell 0
  W,            \* bound: words kept of a slot
  MaxSlots,     \* bound: slots a database file can hold
  MaxStrs       \* bound: highest cell of the string table

ASSUME FormatAssumption ==
  /\ NoString \notin Names
  /\ StrtabHeader \notin Names
  /\ W \in Nat \ {0}
  /\ MaxSlots \in Nat
  /\ MaxStrs \in Nat

Slots == 0 .. MaxSlots - 1
Words == 0 .. W - 1
Cells == 0 .. MaxStrs

NNPKG_PROP_TYPE_INVALID == 0
NNPKG_PROP_TYPE_PKG     == 1
PropTypes == {NNPKG_PROP_TYPE_INVALID, NNPKG_PROP_TYPE_PKG}

Word == [val : Cells, type : PropTypes]
Slot == [Words -> Word]
Data == [1 .. W - 1 -> Word]          \* what follows the header of a slot
Prop == [name : Names, data : Data]   \* NnpkgProp_t as its caller fills it

ZeroWord == [val |-> 0, type |-> NNPKG_PROP_TYPE_INVALID]
ZeroSlot == [w \in Words |-> ZeroWord]

Larger(a, b) == IF a >= b THEN a ELSE b

-----------------------------------------------------------------------------
(* Serialising a property: the header word, then its data. *)
Serialize(id, data) ==
  [w \in Words |-> IF w = 0
                     THEN [val |-> id, type |-> NNPKG_PROP_TYPE_PKG]
                     ELSE data[w]]

(* The image stored by pointer arithmetic at word pos of the first slot: it *)
(* runs pos words into the second slot, where its tail, all zero, lands.    *)
StoreAtWord(m, pos, image) ==
  [s \in Slots |->
     CASE s = 0 -> [w \in Words |-> IF w < pos THEN m[0][w] ELSE image[w - pos]]
       [] s = 1 -> [w \in Words |-> IF w < pos THEN ZeroWord ELSE m[1][w]]
       [] OTHER -> m[s]]

(* memset of the header of a removed property. *)
ClearType(m, s) ==                                        \* seeded fault
  [m EXCEPT ![s] = [@ EXCEPT ![0] = [@ EXCEPT !.type = NNPKG_PROP_TYPE_INVALID]]]
ClearHeader(m, s) == [m EXCEPT ![s] = [@ EXCEPT ![0] = ZeroWord]]

(* The words of the first slot that a scan of len steps from word start    *)
(* takes for free properties.  The scan steps by one propDbProperty_t, 12  *)
(* bytes, so it looks at consecutive words of the FIRST slot.              *)
FreeWords(m, start, len) ==
  {w \in Words : /\ start <= w /\ w < start + len
                 /\ m[0][w].type = NNPKG_PROP_TYPE_INVALID}

FirstOf(S) == CHOOSE x \in S : \A y \in S : x <= y

(* Reading a slot back. *)
NameAt(m, strtab, s) == strtab[m[s][0].val]
DataAt(m, s)         == [w \in 1 .. W - 1 |-> m[s][w]]

(* The slots a lookup of n among the first count slots matches. *)
Matches(m, strtab, count, n) ==
  {s \in Slots : s < count /\ NameAt(m, strtab, s) = n}
=============================================================================
