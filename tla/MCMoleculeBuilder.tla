------------------------- MODULE MCMoleculeBuilder --------------------------
(***************************************************************************)
(* Every type of the generated headers, with two values for each field or  *)
(* item: its default, and one that differs from it in every part.          *)
(*                                                                         *)
(* And, one level below, a block of a builder's memory with numbers of     *)
(* four bits: capacities that double to 0 (1, 4), to less than they were   *)
(* (11), and past their half without doing so (3).  The two are models of  *)
(* the same functions and share no state: in a behaviour one of them goes  *)
(* on while the other rests where it starts.                               *)
(***************************************************************************)
EXTENDS MoleculeBuilder, BuilderMemory, ProtocolTypes

RECURSIVE Sample(_)
Sample(type) ==
  CASE type.kind = "struct" -> [k \in 1..type.size |-> (k % 150) + 1]
    [] type.kind = "fixvec" -> Pack(2) \o [k \in 1..(2 * type.item) |-> 7]
    [] type.kind = "option" -> Sample(type.item)
    [] type.kind = "union" -> Pack(Len(type.items) - 1) \o Sample(Last(type.items))
    [] type.kind = "dynvec" -> Assembled(<<Sample(type.item)>>)
    [] type.kind = "table" -> Assembled(Each(Sample, type.fields))

MCDefault(type) == Default(type)
MCDefaultSize(type) == DefaultSize(type)
MCAccepts(type, buf, compatible) == Verifies(type, buf, compatible)
MCValues(type) == {Default(type), Sample(type)}
MCSchema == BlockchainSchema @@ ExtensionSchema @@ ProtocolSchema

MCHalf == 8
MCCapacities == {1, 3, 4, 11}

BuilderRests == name = "Byte32" /\ Init
MemoryRests == MemoryInit /\ block /\ cap = 1

MCInit == (Init /\ MemoryRests) \/ (MemoryInit /\ BuilderRests)
MCNext == \/ MemoryRests /\ Next /\ UNCHANGED memory
          \/ BuilderRests /\ MemoryNext /\ UNCHANGED vars
MCSpec == MCInit /\ [][MCNext]_<<vars, memory>> /\ WF_memory(Double \/ StoreItem)
=============================================================================
