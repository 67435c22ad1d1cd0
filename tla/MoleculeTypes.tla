---------------------------- MODULE MoleculeTypes ----------------------------
(***************************************************************************)
(* What the types of the generated headers are made of, and for each kind  *)
(* of type what its verifier and its getters do with a value themselves.   *)
(* A verifier hands the parts of a value on to the verifiers of their      *)
(* types: MoleculeSchema joins them, for types in types.                   *)
(*                                                                         *)
(* MoleculeVerify takes the verifiers apart step by step; here a verifier  *)
(* is the predicate its callers see, since they compare with MOL_OK only.  *)
(***************************************************************************)
EXTENDS MoleculeReader, SequencesExt

Slice(offset, length) == [offset |-> offset, length |-> length]

Struct(total, slices) == [kind |-> "struct", size |-> total, slices |-> slices]
Array(n) == Struct(n, [k \in 1..n |-> Slice(k - 1, 1)])
Fixvec(n) == [kind |-> "fixvec", item |-> n]
Dynvec(T) == [kind |-> "dynvec", item |-> T]
Option(T) == [kind |-> "option", item |-> T]
Table(size, fields) == [kind |-> "table", size |-> size, fields |-> fields]
Union(capacity, items) == [kind |-> "union", capacity |-> capacity, items |-> items]

byte == Array(1)

(***************************************************************************)
(* mol_pack_number, and the bytes of a segment.                            *)
(***************************************************************************)
Pack(n) ==
  LET second == n \div Byte
      third == second \div Byte
      fourth == third \div Byte
  IN  <<n % Byte, second % Byte, third % Byte, fourth % Byte>>

BytesOf(buf, seg) ==
  IF Inside(seg, buf) THEN SubSeq(buf, seg.ptr + 1, seg.ptr + seg.size)
  ELSE [k \in 1..seg.size |-> At(buf, seg.ptr + k - 1)]
From(buf, p) == BytesOf(buf, Segment(p, Len(buf) - p))

(***************************************************************************)
(* What MolReader_T_verify(buf, compatible) compares itself.               *)
(***************************************************************************)
\* BUG: a table with a field more than its type is never accepted.
HeadVerifiesExactTables(T, buf, compatible) ==
  CASE T.kind = "struct" -> Len(buf) = T.size
    [] T.kind = "fixvec" -> FixvecErrno(buf, T.item) = "OK"
    [] T.kind = "option" -> TRUE
    [] T.kind = "union" -> Len(buf) >= NumSize /\ Num(buf, 0) < Len(T.items)
    [] T.kind = "dynvec" -> NoItems(buf) \/ HeadFits(buf)
    [] T.kind = "table" ->
         \/ T.fields = << >> /\ NoItems(buf)
         \/ HeadFits(buf) /\ Count(buf) = Len(T.fields)

HeadVerifies(T, buf, compatible) ==
  CASE T.kind = "struct" -> Len(buf) = T.size
    [] T.kind = "fixvec" -> FixvecErrno(buf, T.item) = "OK"
    [] T.kind = "option" -> TRUE
    [] T.kind = "union" -> Len(buf) >= NumSize /\ Num(buf, 0) < Len(T.items)
    [] T.kind = "dynvec" -> NoItems(buf) \/ HeadFits(buf)
    [] T.kind = "table" ->
         \/ T.fields = << >> /\ NoItems(buf)
         \/ /\ HeadFits(buf)
            /\ Count(buf) >= Len(T.fields)
            /\ Count(buf) = Len(T.fields) \/ compatible

(***************************************************************************)
(* What it hands on, to the verifiers of which types.                      *)
(***************************************************************************)
PartAt(T, buf, k) ==
  [type |-> T, bytes |-> BytesOf(buf, Segment(Offset(buf, k), End(buf, k) - Offset(buf, k)))]

Parts(T, buf) ==
  CASE T.kind \in {"struct", "fixvec"} -> << >>
    [] T.kind = "option" -> IF Len(buf) = 0 THEN << >> ELSE <<[type |-> T.item, bytes |-> buf]>>
    [] T.kind = "union" -> <<[type |-> T.items[Num(buf, 0) + 1], bytes |-> From(buf, NumSize)]>>
    [] T.kind = "dynvec" -> [k \in 1..Count(buf) |-> PartAt(T.item, buf, k)]
    [] T.kind = "table" ->
         [k \in 1..Len(T.fields) |-> PartAt(T.fields[k], buf, k)]

(***************************************************************************)
(* What the getters return of a verified value, item by item.              *)
(***************************************************************************)
Contents(T, buf) ==
  CASE T.kind = "struct" ->
         [k \in DOMAIN T.slices |-> BytesOf(buf, Segment(T.slices[k].offset, T.slices[k].length))]
    [] T.kind = "fixvec" -> [k \in 1..Num(buf, 0) |-> BytesOf(buf, FixvecItem(T.item, k - 1))]
    [] T.kind = "option" -> IF Len(buf) = 0 THEN << >> ELSE <<buf>>
    [] T.kind = "union" -> <<Pack(Num(buf, 0)), From(buf, NumSize)>>
    [] T.kind = "dynvec" -> [k \in 1..DynvecLength(buf) |-> BytesOf(buf, DynvecItem(buf, k - 1))]
    [] T.kind = "table" -> [k \in DOMAIN T.fields |-> BytesOf(buf, DynvecItem(buf, k - 1))]

(***************************************************************************)
(* A vector or table as it is built: its size, where each part begins, and *)
(* the parts.  `starts' are counted from the end of the header on.         *)
(***************************************************************************)
Framed(starts, total, body) ==
  LET head == NumSize * (Len(starts) + 1)
  IN  Pack(head + total) \o FlattenSeq([k \in DOMAIN starts |-> Pack(head + starts[k])]) \o body

(* Where parts of these lengths end that follow each other from 0 on.       *)
Ends(lengths) ==
  LET ends[k \in 0..Len(lengths)] == IF k = 0 THEN 0 ELSE ends[k - 1] + lengths[k]
  IN  ends

Starts(lengths) ==
  LET ends == Ends(lengths)
  IN  [k \in DOMAIN lengths |-> ends[k - 1]]
=============================================================================
