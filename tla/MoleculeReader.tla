--------------------------- MODULE MoleculeReader ---------------------------
(***************************************************************************)
(* molecule_reader.h: numbers, sizes and the getters of Molecule values.   *)
(* A buffer is a sequence of bytes; an address counts from its first byte, *)
(* and a segment (mol_seg_t) is a pointer and a size.  A mol_num_t has     *)
(* four bytes of `Byte' values each, so that small instances keep the      *)
(* layout of the code and wrap around at Word.                             *)
(***************************************************************************)
EXTENDS Integers, Sequences

CONSTANT Byte           \* the number of values of a byte, 256 in the code

ASSUME ByteAssumption == Byte \in Nat /\ Byte >= 2

NumSize == 4
Word == Byte * (Byte * (Byte * Byte))

IsBuffer(buf) == buf \in Seq(0..(Byte - 1)) /\ Len(buf) < Word

Segment(ptr, size) == [ptr |-> ptr, size |-> size]
Inside(seg, buf) == seg.ptr + seg.size <= Len(buf)

(***************************************************************************)
(* mol_unpack_number: little-endian.  Nobody checks the address; what lies *)
(* outside the buffer stands for 0 here.  The properties show that neither *)
(* a verified value is read there nor the head of one being verified; what *)
(* the verifier of an item may find there is left open by its caller.      *)
(***************************************************************************)
At(buf, a) == IF a + 1 \in DOMAIN buf THEN buf[a + 1] ELSE 0

Num(buf, p) ==
  At(buf, p) + Byte * (At(buf, p + 1) + Byte * (At(buf, p + 2) + Byte * At(buf, p + 3)))

(***************************************************************************)
(* mol_fixvec_verify, an error number.  The size is computed in mol_num_t. *)
(***************************************************************************)
FixvecSize(item_size, item_count) == (NumSize + item_size * item_count) % Word

\* BUG: the vector may be longer than the value.
FixvecErrnoAtMost(buf, item_size) ==
  CASE Len(buf) < NumSize -> "HEADER"
    [] Len(buf) >= NumSize /\ Num(buf, 0) = 0 ->
         IF Len(buf) = NumSize THEN "OK" ELSE "TOTAL_SIZE"
    [] OTHER -> IF Len(buf) <= FixvecSize(item_size, Num(buf, 0)) THEN "OK" ELSE "TOTAL_SIZE"

FixvecErrno(buf, item_size) ==
  CASE Len(buf) < NumSize -> "HEADER"
    [] Len(buf) >= NumSize /\ Num(buf, 0) = 0 ->
         IF Len(buf) = NumSize THEN "OK" ELSE "TOTAL_SIZE"
    [] OTHER -> IF Len(buf) = FixvecSize(item_size, Num(buf, 0)) THEN "OK" ELSE "TOTAL_SIZE"

(***************************************************************************)
(* The getters of vectors.  Each says which addresses it reads a number    *)
(* at, whether it has an item for the index, and the item's segment; the   *)
(* segment of mol_seg_res_t is left uninitialized where there is none.     *)
(***************************************************************************)
FixvecHas(buf, n) == n < Num(buf, 0)
FixvecItem(item_size, n) == Segment(NumSize + ((item_size * n) % Word), item_size)

DynvecLength(buf) ==
  IF Num(buf, 0) = NumSize THEN 0 ELSE (Num(buf, NumSize) \div 4 - 1) % Word

DynvecHas(buf, n) == n < DynvecLength(buf)

DynvecReads(buf, n) ==
  {0} \cup (IF Num(buf, 0) = NumSize THEN {} ELSE {NumSize})
      \cup (IF ~DynvecHas(buf, n) THEN {}
            ELSE {NumSize * (n + 1)}
                   \cup (IF n + 1 = DynvecLength(buf) THEN {} ELSE {NumSize * (n + 2)}))

\* BUG: the end of an item is taken to be that of the one after it.
DynvecItemEndsLate(buf, n) ==
  LET start == Num(buf, NumSize * (n + 1))
      end == IF n + 2 >= DynvecLength(buf) THEN Num(buf, 0) ELSE Num(buf, NumSize * (n + 3))
  IN  Segment(start, end - start)

DynvecItem(buf, n) ==
  LET start == Num(buf, NumSize * (n + 1))
      end == IF n + 1 = DynvecLength(buf) THEN Num(buf, 0) ELSE Num(buf, NumSize * (n + 2))
  IN  Segment(start, end - start)

(***************************************************************************)
(* The head of a vector or table: its size, and an offset for every item   *)
(* or field.  Each ends where the next one begins, the last with the value.*)
(***************************************************************************)
Count(buf) == IF Len(buf) = NumSize THEN 0 ELSE Num(buf, NumSize) \div 4 - 1
Offset(buf, k) == Num(buf, NumSize * k)
End(buf, k) == IF k = Count(buf) THEN Len(buf) ELSE Offset(buf, k + 1)

HeadFits(buf) ==
  /\ Len(buf) >= NumSize * 2
  /\ Len(buf) = Num(buf, 0)
  /\ Offset(buf, 1) % 4 = 0
  /\ Offset(buf, 1) \in (NumSize * 2)..Len(buf)
  /\ \A k \in 1..Count(buf) : Offset(buf, k) <= End(buf, k)

NoItems(buf) == Len(buf) = NumSize /\ Num(buf, 0) = NumSize
=============================================================================
