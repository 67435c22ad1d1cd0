---------------------------- MODULE BuilderMemory ----------------------------
(***************************************************************************)
(* The memory of a builder: one block of molecule_builder.h, be it the one *)
(* of the data or that of the numbers, while a push or add function makes  *)
(* room in it.  The capacity is a mol_num_t, and doubling it wraps around; *)
(* nobody looks at what malloc and realloc return.                         *)
(*                                                                         *)
(* MoleculeBuilder has what the functions do to builders that stay below   *)
(* half of what a mol_num_t counts and whose memory does not run out.      *)
(* Here a step is a turn of the loop, and both may happen.                 *)
(***************************************************************************)
EXTENDS Integers

CONSTANTS Half,              \* half of the numbers a mol_num_t has, 2^31 in the code
          InitialCapacities  \* those a client initializes a builder with

Modulus == 2 * Half

ASSUME HalfAssumption == Half \in Nat \ {0}
ASSUME InitialCapacitiesAssumption == InitialCapacities \subseteq 1..(Modulus - 1)

VARIABLES pc,           \* "idle", "grow" in the loop, "crashed"
          cap, used,    \* data_cap and data_used, or those of the numbers
          len,          \* the length of the item being pushed
          block,        \* the pointer is not NULL
          kept,         \* how many of the client's bytes lie in the block, from the first on
          faults        \* "memory": there was none left; "size": an item needed more than Half

memory == <<pc, cap, used, len, block, kept, faults>>

(***************************************************************************)
(* mol_builder_initialize: malloc, whose result goes into the builder.     *)
(***************************************************************************)
MemoryInit ==
  /\ pc = "idle"
  /\ cap \in InitialCapacities
  /\ used = 0
  /\ len = 0
  /\ block \in BOOLEAN
  /\ kept = 0
  /\ faults = IF block THEN {} ELSE {"memory"}

\* BUG: the loop looks at what is used, not at what the item needs as well.
FitsWithoutItem(n) == cap >= used

Needed(n) == (used + n) % Modulus
Fits(n) == cap >= Needed(n)

Push(n) ==
  /\ pc = "idle"
  /\ pc' = "grow"
  /\ len' = n
  /\ faults' = IF used + n > Half THEN faults \cup {"size"} ELSE faults
  /\ UNCHANGED <<cap, used, block, kept>>

(***************************************************************************)
(* One turn of the loop.  realloc of no bytes frees the block; a realloc   *)
(* that fails leaves the old block behind, and a later one starts from     *)
(* NULL, as malloc does, with nothing of the client's data.                *)
(***************************************************************************)
Realloc(size) ==
  \/ /\ size > 0
     /\ block' = TRUE
     /\ kept' = IF kept <= size THEN kept ELSE size
     /\ UNCHANGED faults
  \/ /\ block' = FALSE
     /\ kept' = 0
     /\ faults' = IF size > 0 THEN faults \cup {"memory"} ELSE faults

\* BUG: the capacity grows by half, rounded down.
GrowByHalf ==
  /\ pc = "grow"
  /\ ~Fits(len)
  /\ cap' = (cap + cap \div 2) % Modulus
  /\ Realloc(cap')
  /\ UNCHANGED <<pc, used, len>>

Double ==
  /\ pc = "grow"
  /\ ~Fits(len)
  /\ cap' = (2 * cap) % Modulus
  /\ Realloc(cap')
  /\ UNCHANGED <<pc, used, len>>

(***************************************************************************)
(* memcpy to the end of what is used.  Without a block it faults; past the *)
(* end of one it overwrites what lies there, which may do as well.         *)
(***************************************************************************)
StoreItem ==
  /\ pc = "grow"
  /\ Fits(len)
  /\ used' = Needed(len)
  /\ \/ /\ len > 0 => block /\ used + len <= cap
        /\ kept' = IF kept = used THEN used + len ELSE kept
        /\ pc' = "idle"
     \/ /\ len > 0 /\ block /\ used + len > cap
        /\ kept' = IF kept = used THEN cap ELSE kept
        /\ pc' \in {"idle", "crashed"}
     \/ /\ len > 0 /\ ~block
        /\ pc' = "crashed"
        /\ UNCHANGED kept
  /\ UNCHANGED <<cap, len, block, faults>>

MemoryNext == (\E n \in 0..(Modulus - 1) : Push(n)) \/ Double \/ StoreItem

MemorySpec == MemoryInit /\ [][MemoryNext]_memory /\ WF_memory(Double \/ StoreItem)

-----------------------------------------------------------------------------
(* The variables have the values the declarations promise: above all, a      *)
(* capacity is a mol_num_t.                                                  *)
MemoryTypeOK ==
  /\ pc \in {"idle", "grow", "crashed"}
  /\ cap \in 0..(Modulus - 1)
  /\ used \in 0..(Modulus - 1)
  /\ len \in 0..(Modulus - 1)
  /\ block \in BOOLEAN
  /\ kept \in 0..(Modulus - 1)
  /\ faults \subseteq {"memory", "size"}

(* As long as the memory lasts and no item needs more than half of what a    *)
(* mol_num_t counts, all that the client pushed is in the block, the block   *)
(* has room for it, and nothing was written anywhere else.                   *)
DataInPlace ==
  faults = {} => block /\ pc # "crashed" /\ kept = used /\ used <= cap

(* A memory that runs out is not noticed at once, but it is never the reason *)
(* for a write outside the block: only a size that wraps around is.          *)
WritesInBlock == "size" \notin faults => used <= cap

(* The capacity wraps to 0, from where doubling leads nowhere, only for an   *)
(* item that needs more than half of what a mol_num_t counts.                *)
StuckOnlyBeyondHalf == cap = 0 => "size" \in faults

(* What a builder was given is where it belongs, or the item that spoilt it  *)
(* needed more than half of what a mol_num_t counts.                         *)
MemoryIsSound == MemoryTypeOK /\ DataInPlace /\ WritesInBlock /\ StuckOnlyBeyondHalf

(* Doubling never shrinks a block, unless the item needs more than that.     *)
CapacityNeverShrinks == [][cap' >= cap \/ "size" \in faults]_memory

(* A push returns, or crashes for lack of memory, unless its item needs more *)
(* than half of what a mol_num_t counts.                                     *)
PushEnds == pc = "grow" /\ "size" \notin faults ~> pc # "grow"
=============================================================================
