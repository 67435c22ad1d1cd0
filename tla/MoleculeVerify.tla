--------------------------- MODULE MoleculeVerify ---------------------------
(***************************************************************************)
(* A value is verified and then read, as the parsers do it.  The verifiers *)
(* of the generated headers are copies of three, given here by a `shape':  *)
(* a vector of items of `n' bytes (fixvec), a vector of items of any size  *)
(* (dynvec) and a table of at least `n' fields.  What an item or a field   *)
(* is made of is left open: its own verifier may say anything of the       *)
(* segment it is handed.                                                   *)
(***************************************************************************)
EXTENDS MoleculeReader

CONSTANTS Buffers,      \* the values
          Shapes,       \* the types they are verified as: [kind, n]
          MaxIndex      \* bound on the indices a vector is asked for

ASSUME BuffersAssumption == \A b \in Buffers : IsBuffer(b)
ASSUME ShapesAssumption == \A s \in Shapes : /\ s.kind \in {"fixvec", "dynvec", "table"}
                                             /\ s.n \in Nat
ASSUME MaxIndexAssumption == MaxIndex \in Nat

VARIABLES buf, shape,
          compatible,   \* fields this version does not know are accepted
          pc,
          offsets,      \* the offsets read so far; a vector keeps the last alone
          ptr, i,
          errno,
          checked,      \* the segments handed to the verifiers of items or fields
          reads,        \* the addresses the last step read a number at, its own and
                        \* the first one of the verifier it called
          index, item   \* the last getter's argument and result

vars == <<buf, shape, compatible, pc, offsets, ptr, i, errno, checked, reads, index, item>>

NoItem == Segment(-1, -1)     \* res.seg as it lies on the stack

Init ==
  /\ buf \in Buffers
  /\ shape \in Shapes
  /\ compatible \in BOOLEAN
  /\ pc = "verify"
  /\ offsets = << >>
  /\ ptr = 0
  /\ i = 0
  /\ errno = "OK"
  /\ checked = << >>
  /\ reads = {}
  /\ index = -1
  /\ item = NoItem

size == Len(buf)
Last == offsets[Len(offsets)]
count == offsets[1] \div 4 - 1
MayBeEmpty == shape.kind = "dynvec" \/ shape.n = 0

InnerErrors == {"HEADER", "TOTAL_SIZE", "OFFSET", "FIELD_COUNT", "UNKNOWN_ITEM", "DATA"}

Fail(e) == pc' = "failed" /\ errno' = e
Pass == pc' = "verified" /\ UNCHANGED errno
Goto(label) == pc' = label /\ UNCHANGED errno

VerifyFixvec ==
  /\ pc = "verify"
  /\ shape.kind = "fixvec"
  /\ reads' = IF size < NumSize THEN {} ELSE {0}
  /\ errno' = FixvecErrno(buf, shape.n)
  /\ pc' = IF errno' = "OK" THEN "verified" ELSE "failed"
  /\ UNCHANGED <<buf, shape, compatible, offsets, ptr, i, checked, index, item>>

(***************************************************************************)
(* The total size, which the value holds as its first number.              *)
(***************************************************************************)
VerifySize ==
  /\ pc = "verify"
  /\ shape.kind # "fixvec"
  /\ \/ size < NumSize /\ Fail("HEADER") /\ reads' = {}
     \/ /\ size >= NumSize
        /\ reads' = {0}
        /\ \/ size # Num(buf, 0) /\ Fail("TOTAL_SIZE")
           \/ size = Num(buf, 0) /\ size = NumSize /\ MayBeEmpty /\ Pass
           \/ size = Num(buf, 0) /\ size < NumSize * 2 /\ ~(size = NumSize /\ MayBeEmpty)
              /\ Fail("HEADER")
           \/ size = Num(buf, 0) /\ size >= NumSize * 2 /\ Goto("offset")
  /\ UNCHANGED <<buf, shape, compatible, offsets, ptr, i, checked, index, item>>

\* BUG: a table may have too few fields.
OffsetErrnoFewerFields(offset) ==
  LET n == offset \div 4 - 1
  IN  CASE offset % 4 > 0 \/ offset < NumSize * 2 -> "OFFSET"
        [] offset % 4 = 0 /\ offset >= NumSize * 2 /\ shape.kind = "table"
             /\ ~compatible /\ n > shape.n -> "FIELD_COUNT"
        [] OTHER -> IF size < NumSize * (n + 1) THEN "HEADER" ELSE "OK"

OffsetErrno(offset) ==
  LET n == offset \div 4 - 1
  IN  CASE offset % 4 > 0 \/ offset < NumSize * 2 -> "OFFSET"
        [] offset % 4 = 0 /\ offset >= NumSize * 2 /\ shape.kind = "table"
             /\ (n < shape.n \/ (~compatible /\ n > shape.n)) -> "FIELD_COUNT"
        [] OTHER -> IF size < NumSize * (n + 1) THEN "HEADER" ELSE "OK"

VerifyFirstOffset ==
  /\ pc = "offset"
  /\ ptr' = NumSize
  /\ reads' = {ptr'}
  /\ LET offset == Num(buf, ptr') IN
       \/ OffsetErrno(offset) # "OK" /\ Fail(OffsetErrno(offset)) /\ UNCHANGED <<offsets, i>>
       \/ OffsetErrno(offset) = "OK" /\ Goto("loop") /\ offsets' = <<offset>> /\ i' = 1
  /\ UNCHANGED <<buf, shape, compatible, checked, index, item>>

(***************************************************************************)
(* The other offsets.  A vector has an item verified as soon as it knows   *)
(* its end, which no one has compared with the vector's size by then; a    *)
(* table collects all offsets first.                                       *)
(*                                                                         *)
(* The verifier of an item or field begins with its size.  That of a       *)
(* vector, table or option reads a number where the segment begins, if it  *)
(* is long enough; that of a struct or array reads nothing.  What it reads *)
(* after that is what this module says of the segment as a value.          *)
(***************************************************************************)
Inner(from, to) == Segment(from, to - from)

InnerReads(seg) == {{}} \cup (IF seg.size >= NumSize THEN {{seg.ptr}} ELSE {})

\* BUG: `offset = end' is forgotten.
VerifyNextOffsetStays ==
  /\ pc = "loop"
  /\ i < count
  /\ ptr' = ptr + NumSize
  /\ reads' = {ptr'}
  /\ LET end == Num(buf, ptr') IN
       \/ Last > end /\ Fail("OFFSET") /\ UNCHANGED <<offsets, i, checked>>
       \/ /\ Last <= end /\ Goto("loop") /\ i' = i + 1
          /\ IF shape.kind = "dynvec"
               THEN checked' = Append(checked, Inner(Last, end)) /\ UNCHANGED offsets
               ELSE offsets' = Append(offsets, end) /\ UNCHANGED checked
  /\ UNCHANGED <<buf, shape, compatible, index, item>>

VerifyNextOffset ==
  /\ pc = "loop"
  /\ i < count
  /\ ptr' = ptr + NumSize
  /\ LET end == Num(buf, ptr') IN
       \/ /\ Last > end /\ Fail("OFFSET") /\ UNCHANGED <<offsets, i, checked>>
          /\ reads' = {ptr'}
       \/ /\ Last <= end /\ shape.kind = "dynvec"
          /\ checked' = Append(checked, Inner(Last, end))
          /\ \E r \in InnerReads(Inner(Last, end)) : reads' = {ptr'} \cup r
          /\ \/ Fail("DATA") /\ UNCHANGED <<offsets, i>>
             \/ Goto("loop") /\ offsets' = Append(offsets, end) /\ i' = i + 1
       \/ /\ Last <= end /\ shape.kind = "table" /\ Goto("loop") /\ UNCHANGED checked
          /\ offsets' = Append(offsets, end) /\ i' = i + 1
          /\ reads' = {ptr'}
  /\ UNCHANGED <<buf, shape, compatible, index, item>>

(***************************************************************************)
(* The last item or field ends where the value does.  A vector passes on   *)
(* what the verifier of its last item returns.                             *)
(***************************************************************************)
\* BUG: the last offset is not compared with the size.
VerifyEndUnbounded ==
  /\ pc = "loop"
  /\ i >= count
  /\ reads' = {}
  /\ \/ /\ shape.kind = "dynvec"
        /\ checked' = Append(checked, Inner(Last, size))
        /\ (Pass \/ \E e \in InnerErrors : Fail(e))
        /\ UNCHANGED <<offsets, i>>
     \/ /\ shape.kind = "table" /\ Goto("fields") /\ UNCHANGED checked
        /\ offsets' = Append(offsets, size) /\ i' = 0
  /\ UNCHANGED <<buf, shape, compatible, ptr, index, item>>

VerifyEnd ==
  /\ pc = "loop"
  /\ i >= count
  /\ \/ Last > size /\ Fail("OFFSET") /\ UNCHANGED <<offsets, i, checked>> /\ reads' = {}
     \/ /\ Last <= size /\ shape.kind = "dynvec"
        /\ checked' = Append(checked, Inner(Last, size))
        /\ reads' \in InnerReads(Inner(Last, size))
        /\ (Pass \/ \E e \in InnerErrors : Fail(e))
        /\ UNCHANGED <<offsets, i>>
     \/ /\ Last <= size /\ shape.kind = "table" /\ Goto("fields") /\ UNCHANGED checked
        /\ offsets' = Append(offsets, size) /\ i' = 0
        /\ reads' = {}
  /\ UNCHANGED <<buf, shape, compatible, ptr, index, item>>

VerifyField ==
  /\ pc = "fields"
  /\ i < shape.n
  /\ checked' = Append(checked, Inner(offsets[i + 1], offsets[i + 2]))
  /\ reads' \in InnerReads(Inner(offsets[i + 1], offsets[i + 2]))
  /\ \/ Fail("DATA") /\ UNCHANGED i
     \/ Goto("fields") /\ i' = i + 1
  /\ UNCHANGED <<buf, shape, compatible, offsets, ptr, index, item>>

VerifyFieldsDone ==
  /\ pc = "fields"
  /\ i >= shape.n
  /\ reads' = {}
  /\ Pass
  /\ UNCHANGED <<buf, shape, compatible, offsets, ptr, i, checked, index, item>>

-----------------------------------------------------------------------------
(***************************************************************************)
(* The getters, called once the value is verified: a field the table is    *)
(* known to have, or a vector's item at any index.                         *)
(***************************************************************************)
GetFixvecItem(n) ==
  /\ pc = "verified"
  /\ shape.kind = "fixvec"
  /\ index' = n
  /\ reads' = {0}
  /\ item' = IF FixvecHas(buf, n) THEN FixvecItem(shape.n, n) ELSE NoItem
  /\ UNCHANGED <<buf, shape, compatible, pc, offsets, ptr, i, errno, checked>>

GetDynvecItem(n) ==
  /\ pc = "verified"
  /\ \/ shape.kind = "dynvec"
     \/ shape.kind = "table" /\ n < shape.n
  /\ index' = n
  /\ reads' = DynvecReads(buf, n)
  /\ item' = IF DynvecHas(buf, n) THEN DynvecItem(buf, n) ELSE NoItem
  /\ UNCHANGED <<buf, shape, compatible, pc, offsets, ptr, i, errno, checked>>

Next ==
  \/ VerifyFixvec \/ VerifySize \/ VerifyFirstOffset \/ VerifyNextOffset \/ VerifyEnd
  \/ VerifyField \/ VerifyFieldsDone
  \/ \E n \in 0..MaxIndex : GetFixvecItem(n) \/ GetDynvecItem(n)

Spec == Init /\ [][Next]_vars

-----------------------------------------------------------------------------
(* The variables have the values the declarations promise.                   *)
TypeOK ==
  /\ IsBuffer(buf)
  /\ shape \in Shapes
  /\ compatible \in BOOLEAN
  /\ pc \in {"verify", "offset", "loop", "fields", "verified", "failed"}
  /\ offsets \in Seq(Nat)
  /\ ptr \in Nat
  /\ i \in Nat
  /\ errno \in {"OK"} \cup InnerErrors
  /\ checked \in Seq([ptr : Nat, size : Nat])
  /\ reads \subseteq Nat
  /\ index \in Nat \cup {-1}
  /\ item \in {NoItem} \cup [ptr : Nat, size : Nat]

(* A verifier reads numbers of its own in the value only, and what else is   *)
(* read lies where it sent the verifier of an item.  That may be outside the *)
(* value: a vector compares the end of an item with the next one's alone,    *)
(* and the last with its size only when all the others have been verified.   *)
ReadsHandedOut ==
  \A a \in reads :
    \/ a + NumSize <= size
    \/ \E n \in DOMAIN checked :
         /\ ~Inside(checked[n], buf)
         /\ checked[n].ptr <= a /\ a + NumSize <= checked[n].ptr + checked[n].size

(* A table never sends a verifier outside the value, for it has compared all *)
(* offsets by then; a vector that did is turned down, so that a verified one *)
(* was read nowhere else either.                                             *)
OutsideIsRejected ==
  shape.kind = "table" \/ pc = "verified" => \A n \in DOMAIN checked : Inside(checked[n], buf)

(* The offsets of a table are an array on the stack, whose length the value  *)
(* chooses: it takes no more bytes than the value has, and no offset is      *)
(* written past its end.                                                     *)
OffsetsFitTheirArray ==
  shape.kind = "table" /\ pc \in {"loop", "fields"} =>
    /\ NumSize * (count + 1) <= size
    /\ Len(offsets) <= count + 1

(* What a value claims about itself can make a vector's verifier have items  *)
(* verified that lie past the value's end, and nothing worse: every read     *)
(* outside the value is at such an item, the value it happens for is turned  *)
(* down, a table has no field verified there, and its offsets fit their      *)
(* array.  This is one level of a type: what the verifier of an item reads   *)
(* after its first number is said of the item as a value in its turn.        *)
OverrunsAreRejected == ReadsHandedOut /\ OutsideIsRejected /\ OffsetsFitTheirArray

(* What was verified is all there is: the items or fields of a verified      *)
(* value follow each other from the end of its header on and, unless fields  *)
(* this version does not know come last, up to its end.                      *)
VerifiedWithoutGaps ==
  pc = "verified" /\ checked # << >> =>
    LET end(n) == checked[n].ptr + checked[n].size
        N == Len(checked)
    IN  /\ checked[1].ptr = Num(buf, NumSize)
        /\ \A n \in 1..(N - 1) : end(n) = checked[n + 1].ptr
        /\ shape.kind = "dynvec" \/ ~compatible => end(N) = size

(* A getter returns the very segment that the verifier handed to the item's  *)
(* or field's own verifier, and has one for exactly those indices.           *)
GetterReturnsChecked ==
  shape.kind # "fixvec" /\ index >= 0 =>
    item = IF index < Len(checked) THEN checked[index + 1] ELSE NoItem

(* A table's fields are always there, so that the segment that               *)
(* mol_table_slice_by_index returns without looking at the error number is   *)
(* never uninitialized.                                                      *)
TableHasItsFields == shape.kind = "table" /\ index >= 0 => item # NoItem

(* A fixvec's size is computed in mol_num_t, and a count that makes it wrap  *)
(* around can agree with a much shorter value.  Only then does a verified    *)
(* vector have an item outside it, and never a `vector <byte>'.              *)
SizeFits == NumSize + shape.n * Num(buf, 0) < Word

FixvecItemInBounds ==
  shape.kind = "fixvec" /\ item # NoItem /\ (shape.n = 1 \/ SizeFits) => Inside(item, buf)

(* The notice above the getters in molecule_reader.h, as far as it is true:  *)
(* they raise no fault if their input was checked.  A getter returns what    *)
(* was verified, always has a table's field, and has a fixvec's items in the *)
(* value unless its size wraps around.                                       *)
GetterReturnsVerified == GetterReturnsChecked /\ TableHasItsFields /\ FixvecItemInBounds

(***************************************************************************)
(* The verifiers taken apart, against the predicate their callers see: a   *)
(* value gets past its head if and only if it is well formed.              *)
(***************************************************************************)
WellFormed ==
  \/ MayBeEmpty /\ NoItems(buf)
  \/ /\ HeadFits(buf)
     /\ shape.kind = "table" =>
          Count(buf) >= shape.n /\ (Count(buf) = shape.n \/ compatible)

(* A verifier that says yes has seen a well-formed value, and one that says  *)
(* no has seen one that is not, unless it was an item or field that said it. *)
VerifierAgrees ==
  shape.kind # "fixvec" =>
    /\ pc \in {"fields", "verified"} => WellFormed
    /\ pc = "failed" /\ errno # "DATA" /\ (offsets = << >> \/ Len(checked) < count) => ~WellFormed
=============================================================================
