--------------------------- MODULE MoleculeSchema ---------------------------
(***************************************************************************)
(* Types within types: what the verifier of a type accepts, and its        *)
(* default.  The types themselves are in BlockchainTypes, ExtensionTypes   *)
(* and ProtocolTypes, which mirror the headers.                            *)
(***************************************************************************)
EXTENDS MoleculeTypes

(***************************************************************************)
(* MolReader_T_verify(buf, compatible) == MOL_OK                           *)
(***************************************************************************)
RECURSIVE Verifies(_, _, _)
Verifies(T, buf, compatible) ==
  /\ HeadVerifies(T, buf, compatible)
  /\ LET parts == Parts(T, buf)
     IN  \A k \in DOMAIN parts : Verifies(parts[k].type, parts[k].bytes, compatible)

(***************************************************************************)
(* The bytes of a table from those of its fields.                          *)
(***************************************************************************)
Each(Op(_), seq) == FoldLeft(LAMBDA done, x : Append(done, Op(x)), << >>, seq)

Assembled(fields) ==
  LET lengths == Each(Len, fields)
  IN  Framed(Starts(lengths), Ends(lengths)[Len(fields)], FlattenSeq(fields))

(***************************************************************************)
(* MolDefault_T: its bytes, and the size the headers give the array.       *)
(***************************************************************************)
RECURSIVE Default(_)
Default(T) ==
  CASE T.kind = "struct" -> [k \in 1..T.size |-> 0]
    [] T.kind = "fixvec" -> Pack(0)
    [] T.kind = "dynvec" -> Pack(NumSize)
    [] T.kind = "option" -> << >>
    [] T.kind = "union" -> Pack(0) \o Default(T.items[1])
    [] T.kind = "table" -> Assembled(Each(Default, T.fields))

RECURSIVE DefaultSize(_)
DefaultSize(T) ==
  CASE T.kind = "struct" -> T.size
    [] T.kind = "fixvec" -> NumSize
    [] T.kind = "dynvec" -> NumSize
    [] T.kind = "option" -> 0
    [] T.kind = "union" -> NumSize + DefaultSize(T.items[1])
    [] T.kind = "table" -> T.size
=============================================================================
