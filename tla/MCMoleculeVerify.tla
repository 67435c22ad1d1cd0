-------------------------- MODULE MCMoleculeVerify --------------------------
(***************************************************************************)
(* Bytes of three values, so that a number is below 81: all short values,  *)
(* and values that begin with four numbers, a total size and up to three   *)
(* offsets, right or wrong.                                                *)
(***************************************************************************)
EXTENDS MoleculeVerify

CONSTANTS MaxShort,     \* length of the short values
          Offsets,      \* the numbers in the place of offsets
          MaxPayload    \* bytes after the numbers

Bytes == 0..(Byte - 1)
Pack(n) == [k \in 1..NumSize |-> (n \div Byte^(k - 1)) % Byte]

MCBuffers ==
  UNION {[1..n -> Bytes] : n \in 0..MaxShort}
    \cup {Pack(total) \o Pack(a) \o Pack(b) \o Pack(c) \o [k \in 1..n |-> 0] :
            n \in 0..MaxPayload, total \in {16, 17, 18, 19},
            a \in Offsets, b \in Offsets, c \in Offsets}

MCShapes == [kind : {"fixvec"}, n : {1, 2}] \cup [kind : {"dynvec"}, n : {0}]
              \cup [kind : {"table"}, n : 0..3]
=============================================================================
