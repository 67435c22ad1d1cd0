------------------------ MODULE MoleculeVerify_proofs ------------------------
(***************************************************************************)
(* Proofs about the verifiers and getters of MoleculeVerify, for every     *)
(* value, every type of the three shapes and every size of a byte.         *)
(***************************************************************************)
EXTENDS MoleculeVerify, TLAPS

LEMMA HornerStep ==
  ASSUME NEW B \in Nat, B >= 1, NEW M \in Nat, NEW d \in 0..(B - 1), NEW x \in 0..(M - 1)
  PROVE  d + B * x \in 0..(B * M - 1)
<1>1. B * x \in Nat
  OBVIOUS
<1>2. B * x <= B * (M - 1)
  OBVIOUS
<1>3. B * (M - 1) = B * M - B
  OBVIOUS
<1>4. B * M \in Nat
  OBVIOUS
<1> QED BY <1>1, <1>2, <1>3, <1>4

(* A number read anywhere is one that mol_num_t holds. *)
LEMMA NumInWord ==
  ASSUME NEW b, IsBuffer(b), NEW p \in Nat
  PROVE  Num(b, p) \in 0..(Word - 1)
<1>1. \A a \in Nat : At(b, a) \in 0..(Byte - 1)
  BY ByteAssumption DEF At, IsBuffer
<1> DEFINE b0 == At(b, p)
           b1 == At(b, p + 1)
           b2 == At(b, p + 2)
           b3 == At(b, p + 3)
<1>2. b0 \in 0..(Byte - 1) /\ b1 \in 0..(Byte - 1) /\ b2 \in 0..(Byte - 1) /\ b3 \in 0..(Byte - 1)
  BY <1>1
<1>3. Byte \in Nat /\ Byte >= 1
  BY ByteAssumption
<1> HIDE DEF b0, b1, b2, b3
<1>4. b2 + Byte * b3 \in 0..(Byte * Byte - 1)
  BY <1>2, <1>3, HornerStep
<1>5. Byte * Byte \in Nat
  BY <1>3
<1>6. b1 + Byte * (b2 + Byte * b3) \in 0..(Byte * (Byte * Byte) - 1)
  BY <1>2, <1>3, <1>4, <1>5, HornerStep
<1>7. Byte * (Byte * Byte) \in Nat
  BY <1>3
<1>8. b0 + Byte * (b1 + Byte * (b2 + Byte * b3)) \in 0..(Byte * (Byte * (Byte * Byte)) - 1)
  BY <1>2, <1>3, <1>6, <1>7, HornerStep
<1> QED BY <1>8 DEF Num, Word, b0, b1, b2, b3

LEMMA WordIsLarge == Word \in Nat /\ Word >= 16
<1>1. Byte \in Nat /\ Byte >= 2
  BY ByteAssumption
<1>2. Byte * Byte \in Nat /\ Byte * Byte >= 4
  BY <1>1
<1>3. Byte * (Byte * Byte) \in Nat /\ Byte * (Byte * Byte) >= 8
  BY <1>1, <1>2
<1>4. Byte * (Byte * (Byte * Byte)) \in Nat /\ Byte * (Byte * (Byte * Byte)) >= 16
  BY <1>1, <1>3
<1> QED BY <1>4 DEF Word

LEMMA ItemOfSeq ==
  ASSUME NEW S, NEW s \in Seq(S), NEW k \in 1..Len(s) PROVE s[k] \in S
  OBVIOUS

LEMMA ModSmall == ASSUME NEW W \in Nat, NEW x \in 0..(W - 1) PROVE x % W = x
  OBVIOUS

LEMMA ModOnce ==
  ASSUME NEW W \in Nat, NEW x \in 0..(W - 1), W >= 1 PROVE (W + x) % W = x
  OBVIOUS

-----------------------------------------------------------------------------
(***************************************************************************)
(* The offsets a value has, and the segments they are the ends of.  Off is *)
(* what the verifiers copy into `offsets' and the getters read again.      *)
(***************************************************************************)
Items == Num(buf, NumSize) \div 4 - 1
Off(k) == IF k <= Items THEN Num(buf, NumSize * k) ELSE size

HeaderFits ==
  /\ size = Num(buf, 0)
  /\ Num(buf, NumSize) % 4 = 0
  /\ Num(buf, NumSize) >= NumSize * 2
  /\ NumSize * (Items + 1) <= size
  /\ shape.kind = "table" => shape.n <= Items /\ (~compatible => shape.n = Items)

Ordered(m) == \A j, k \in 1..m : j <= k => Off(j) <= Off(k)

CheckedAre(m) ==
  /\ Len(checked) = m
  /\ \A k \in 1..m : checked[k] = Segment(Off(k), Off(k + 1) - Off(k))

InLoop ==
  /\ HeaderFits
  /\ i \in 1..Items
  /\ ptr = NumSize * i
  /\ Len(offsets) = i
  /\ \A k \in 1..i : offsets[k] = Off(k)
  /\ Ordered(i)
  /\ CheckedAre(IF shape.kind = "dynvec" THEN i - 1 ELSE 0)

InFields ==
  /\ HeaderFits
  /\ shape.kind = "table"
  /\ i <= shape.n
  /\ Len(offsets) = Items + 1
  /\ \A k \in 1..(Items + 1) : offsets[k] = Off(k)
  /\ Ordered(Items + 1)
  /\ CheckedAre(i)

Empty ==
  /\ size = NumSize
  /\ Num(buf, 0) = NumSize
  /\ shape.kind = "table" => shape.n = 0
  /\ CheckedAre(0)

Full ==
  /\ HeaderFits
  /\ Ordered(Items + 1)
  /\ CheckedAre(IF shape.kind = "dynvec" THEN Items ELSE shape.n)

FixvecFits ==
  /\ size >= NumSize
  /\ shape.n = 1 \/ SizeFits => Num(buf, 0) = 0 \/ size = NumSize + shape.n * Num(buf, 0)

Got ==
  /\ index >= 0 => pc = "verified"
  /\ index < 0 => item = NoItem
  /\ shape.kind = "table" => index < shape.n
  /\ FixvecItemInBounds
  /\ GetterReturnsChecked

SegmentsOK == shape.kind = "table" => \A n \in DOMAIN checked : Inside(checked[n], buf)

Inv ==
  /\ TypeOK
  /\ ReadsHandedOut
  /\ Got
  /\ SegmentsOK
  /\ shape.kind = "fixvec" => pc \in {"verify", "failed", "verified"}
  /\ pc = "verify" => checked = << >> /\ offsets = << >>
  /\ pc = "offset" => /\ size = Num(buf, 0) /\ size >= NumSize * 2
                      /\ checked = << >> /\ offsets = << >>
  /\ pc = "loop" => InLoop
  /\ pc = "fields" => InFields
  /\ pc = "verified" => IF shape.kind = "fixvec" THEN FixvecFits /\ checked = << >>
                                                  ELSE Empty \/ Full

LEMMA OffsetsAreNumbers ==
  ASSUME IsBuffer(buf), HeaderFits
  PROVE  /\ Items \in Nat /\ Items >= 1
         /\ size \in Nat
         /\ \A k \in 1..(Items + 1) : Off(k) \in Nat
<1>1. Num(buf, NumSize) \in Nat
  BY NumInWord, WordIsLarge DEF NumSize
<1>2. Items \in Nat /\ Items >= 1
  BY <1>1 DEF HeaderFits, Items, NumSize
<1>3. size \in Nat
  BY DEF IsBuffer, size
<1>4. \A k \in 1..(Items + 1) : Off(k) \in Nat
  BY <1>2, <1>3, NumInWord, WordIsLarge DEF Off, NumSize
<1> QED BY <1>2, <1>3, <1>4

(* A segment between two of the ordered offsets is inside the value. *)
LEMMA SegmentInside ==
  ASSUME IsBuffer(buf), HeaderFits, Ordered(Items + 1), NEW k \in 1..Items
  PROVE  /\ Segment(Off(k), Off(k + 1) - Off(k)) \in [ptr : Nat, size : Nat]
         /\ Inside(Segment(Off(k), Off(k + 1) - Off(k)), buf)
<1>1. Items \in Nat /\ size \in Nat /\ Off(k) \in Nat /\ Off(k + 1) \in Nat
  BY OffsetsAreNumbers
<1>2. Off(k) <= Off(k + 1) /\ Off(k + 1) <= Off(Items + 1)
  BY <1>1 DEF Ordered
<1>3. Off(Items + 1) = size
  BY <1>1 DEF Off
<1> QED BY <1>1, <1>2, <1>3 DEF Segment, Inside, size

LEMMA MultiplesFit ==
  ASSUME NEW m \in Nat, NEW k \in Nat, NEW c \in Nat, k < c
  PROVE  m * k \in Nat /\ m * k + m <= m * c
<1>1. PICK d \in Nat : c = k + 1 + d
  <2>1. c - k - 1 \in Nat /\ c = k + 1 + (c - k - 1)
    OBVIOUS
  <2> QED BY <2>1
<1>2. m * c = m * k + m + m * d
  BY <1>1
<1>3. m * d \in Nat /\ m * k \in Nat
  OBVIOUS
<1> QED BY <1>2, <1>3

(* What a step leaves alone. *)
LEMMA ValueStays ==
  ASSUME UNCHANGED <<buf, shape, compatible>>
  PROVE  /\ Items' = Items
         /\ \A k : Off(k)' = Off(k)
         /\ HeaderFits' = HeaderFits
         /\ \A m : Ordered(m)' = Ordered(m)
<1>1. Items' = Items
  BY DEF Items
<1>2. \A k : Off(k)' = Off(k)
  BY <1>1 DEF Off, size
<1>3. HeaderFits' = HeaderFits
  BY <1>1 DEF HeaderFits, size
<1>4. \A m : Ordered(m)' = Ordered(m)
  BY <1>2 DEF Ordered
<1> QED BY <1>1, <1>2, <1>3, <1>4

LEMMA InitEstablishesInv == Init => Inv
<1> SUFFICES ASSUME Init PROVE Inv
  OBVIOUS
<1>1. TypeOK
  BY BuffersAssumption DEF Init, TypeOK
<1>2. ReadsHandedOut /\ Got /\ SegmentsOK
  <2>1. index = -1 /\ reads = {} /\ checked = << >> /\ item = NoItem
    BY DEF Init
  <2>2. shape.n \in Nat
    BY ShapesAssumption DEF Init
  <2> QED BY <2>1, <2>2 DEF ReadsHandedOut, Got, SegmentsOK,
                            FixvecItemInBounds, SizeFits, GetterReturnsChecked
<1> QED BY <1>1, <1>2 DEF Inv, Init

-----------------------------------------------------------------------------
LEMMA VerifyFixvecKeepsInv == Inv /\ VerifyFixvec => Inv'
<1> SUFFICES ASSUME Inv, VerifyFixvec PROVE Inv'
  OBVIOUS
<1> USE DEF VerifyFixvec, size
<1>1. TypeOK /\ pc = "verify" /\ checked = << >> /\ index < 0
  BY DEF Inv, Got, TypeOK
<1>2. errno' \in {"OK", "HEADER", "TOTAL_SIZE"}
  BY DEF FixvecErrno
<1>3. TypeOK'
  BY <1>1, <1>2 DEF TypeOK, InnerErrors, IsBuffer, NumSize
<1>4. ReadsHandedOut'
  BY <1>1 DEF ReadsHandedOut, TypeOK, IsBuffer, NumSize
<1>5. Got' /\ SegmentsOK'
  BY <1>1 DEF Inv, Got, SegmentsOK, FixvecItemInBounds, SizeFits, GetterReturnsChecked
<1>6. errno' = "OK" => FixvecFits'
  <2> SUFFICES ASSUME errno' = "OK", shape.n = 1 \/ SizeFits, Num(buf, 0) # 0
               PROVE  size = NumSize + shape.n * Num(buf, 0)
    <3>1. errno' = "OK" => size >= NumSize
      BY <1>1 DEF FixvecErrno, TypeOK, IsBuffer, NumSize
    <3> QED BY <3>1 DEF FixvecFits, SizeFits
  <2>0. IsBuffer(buf) /\ shape.n \in Nat
    BY <1>1, ShapesAssumption DEF TypeOK
  <2>n. Num(buf, 0) \in 0..(Word - 1)
    BY <2>0, NumInWord
  <2>1. Num(buf, 0) \in 1..(Word - 1) /\ size \in 0..(Word - 1) /\ Word \in Nat /\ Word >= 16
    BY <2>0, <2>n, WordIsLarge DEF IsBuffer
  <2> DEFINE m == shape.n * Num(buf, 0)
  <2>m. m \in Nat
    BY <2>0, <2>1
  <2>2. size >= NumSize /\ size = (NumSize + m) % Word
    BY <2>1 DEF FixvecErrno, FixvecSize, NumSize
  <2>s. SizeFits <=> NumSize + m < Word
    BY DEF SizeFits
  <2>o. shape.n = 1 => m = Num(buf, 0)
    BY <2>1
  <2> HIDE DEF m
  <2>3. CASE NumSize + m < Word
    BY <2>1, <2>2, <2>3, <2>m, ModSmall DEF NumSize, m
  <2>4. CASE NumSize + m >= Word
    <3> DEFINE x == NumSize + m - Word
    <3>1. x \in 0..3 /\ NumSize + m = Word + x
      BY <2>1, <2>4, <2>m, <2>s, <2>o DEF NumSize
    <3>2. (Word + x) % Word = x
      BY <3>1, <2>1, ModOnce
    <3> QED BY <3>1, <3>2, <2>2 DEF NumSize
  <2> QED BY <2>1, <2>m, <2>3, <2>4 DEF NumSize
<1> QED BY <1>1, <1>3, <1>4, <1>5, <1>6 DEF Inv

LEMMA VerifySizeKeepsInv == Inv /\ VerifySize => Inv'
<1> SUFFICES ASSUME Inv, VerifySize PROVE Inv'
  OBVIOUS
<1> USE DEF VerifySize, size
<1>1. TypeOK /\ pc = "verify" /\ checked = << >> /\ offsets = << >> /\ index < 0
  BY DEF Inv, Got, TypeOK
<1>2. TypeOK'
  BY <1>1 DEF TypeOK, InnerErrors, IsBuffer, NumSize, Fail, Pass, Goto
<1>3. ReadsHandedOut'
  BY <1>1 DEF ReadsHandedOut, TypeOK, IsBuffer, NumSize
<1>4. Got' /\ SegmentsOK'
  BY <1>1 DEF Inv, Got, SegmentsOK, FixvecItemInBounds, SizeFits, GetterReturnsChecked
<1>5. pc' = "verified" => Empty'
  BY <1>1 DEF Empty, MayBeEmpty, Fail, Pass, Goto, CheckedAre
<1>6. pc' \in {"failed", "verified", "offset"} /\ shape.kind # "fixvec"
  BY DEF Fail, Pass, Goto
<1>7. pc' = "offset" => size' = Num(buf, 0)' /\ size' >= NumSize * 2
  BY DEF Fail, Pass, Goto
<1> QED BY <1>1, <1>2, <1>3, <1>4, <1>5, <1>6, <1>7 DEF Inv

LEMMA VerifyFirstOffsetKeepsInv == Inv /\ VerifyFirstOffset => Inv'
<1> SUFFICES ASSUME Inv, VerifyFirstOffset PROVE Inv'
  OBVIOUS
<1> USE DEF VerifyFirstOffset, size
<1> DEFINE offset == Num(buf, NumSize)
<1>1. /\ TypeOK /\ pc = "offset" /\ checked = << >> /\ offsets = << >> /\ index < 0
      /\ size = Num(buf, 0) /\ size >= NumSize * 2
      /\ shape.kind # "fixvec"
  BY DEF Inv, Got, TypeOK
<1>2. offset \in Nat /\ ptr' = NumSize /\ NumSize \in Nat
  <2>1. IsBuffer(buf) /\ NumSize \in Nat
    BY <1>1 DEF TypeOK, NumSize
  <2>2. offset \in 0..(Word - 1) /\ Word \in Nat
    BY <2>1, NumInWord, WordIsLarge
  <2> QED BY <2>1, <2>2
<1>e. OffsetErrno(offset) \in {"OK", "OFFSET", "FIELD_COUNT", "HEADER"}
  BY DEF OffsetErrno
<1>f. /\ errno' \in {"OK"} \cup InnerErrors
      /\ pc' \in {"failed", "loop"} /\ offsets' \in Seq(Nat) /\ i' \in Nat
  <2>1. \/ /\ OffsetErrno(offset) # "OK" /\ pc' = "failed" /\ errno' = OffsetErrno(offset)
           /\ UNCHANGED <<offsets, i>>
        \/ /\ OffsetErrno(offset) = "OK" /\ pc' = "loop" /\ UNCHANGED errno
           /\ offsets' = <<offset>> /\ i' = 1
    BY <1>2 DEF Fail, Goto
  <2>2. offsets \in Seq(Nat) /\ i \in Nat /\ errno \in {"OK"} \cup InnerErrors
    BY <1>1 DEF TypeOK
  <2>3. errno' \in {"OK"} \cup InnerErrors /\ pc' \in {"failed", "loop"}
    BY <1>e, <2>1, <2>2 DEF InnerErrors
  <2>4. i' \in Nat
    BY <2>1, <2>2
  <2>5. <<offset>> \in Seq(Nat)
    BY <1>2
  <2>6. offsets' \in Seq(Nat)
    BY <2>1, <2>2, <2>5
  <2> QED BY <2>3, <2>4, <2>6
<1>3. TypeOK'
  BY <1>1, <1>2, <1>f DEF TypeOK, InnerErrors
<1>4. ReadsHandedOut'
  BY <1>1 DEF ReadsHandedOut, TypeOK, IsBuffer, NumSize
<1>5. Got' /\ SegmentsOK'
  BY <1>1 DEF Inv, Got, SegmentsOK, FixvecItemInBounds, SizeFits, GetterReturnsChecked
<1>6. CASE OffsetErrno(offset) # "OK"
  BY <1>1, <1>2, <1>3, <1>4, <1>5, <1>6 DEF Inv, Fail
<1>7. CASE OffsetErrno(offset) = "OK"
  <2>1. pc' = "loop" /\ offsets' = <<offset>> /\ i' = 1
    BY <1>2, <1>7 DEF Goto, Fail
  <2>c. shape.n \in Nat /\ size \in Nat /\ offset \div 4 \in Nat /\ offset % 4 \in Nat
    BY <1>1, <1>2, ShapesAssumption DEF TypeOK, IsBuffer
  <2>d. offset % 4 = 0 /\ offset >= NumSize * 2
    BY <1>2, <1>7, <2>c DEF OffsetErrno, NumSize
  <2>e. shape.kind = "table" =>
          shape.n <= offset \div 4 - 1 /\ (~compatible => shape.n = offset \div 4 - 1)
    BY <1>7, <2>c, <2>d DEF OffsetErrno
  <2>f. size >= NumSize * (offset \div 4 - 1 + 1)
    BY <1>7, <2>c, <2>d, <2>e DEF OffsetErrno, NumSize
  <2>2. HeaderFits
    BY <1>1, <2>c, <2>d, <2>e, <2>f DEF HeaderFits, Items, NumSize
  <2>3. Items \in Nat /\ Items >= 1
    BY <1>1, <2>2, OffsetsAreNumbers DEF TypeOK
  <2>4. HeaderFits' /\ Items' = Items /\ Off(1)' = offset
    BY <2>2, <2>3, ValueStays DEF Off, NumSize
  <2>5. InLoop'
    BY <1>1, <1>2, <2>1, <2>3, <2>4 DEF InLoop, Ordered, CheckedAre, NumSize
  <2> QED BY <1>1, <1>3, <1>4, <1>5, <2>1, <2>5 DEF Inv
<1> QED BY <1>6, <1>7

-----------------------------------------------------------------------------
(* A step that calls the verifier of a segment reads in the value itself;    *)
(* what the other reads is in the value or in the segment.                   *)
LEMMA CallReadsHandedOut ==
  ASSUME IsBuffer(buf), checked \in Seq([ptr : Nat, size : Nat]),
         NEW seg \in [ptr : Nat, size : Nat], NEW r \in InnerReads(seg),
         NEW own \in SUBSET Nat, \A a \in own : a + NumSize <= size,
         reads' = own \cup r, checked' = Append(checked, seg), UNCHANGED buf
  PROVE  ReadsHandedOut' /\ reads' \subseteq Nat
<1> DEFINE N == Len(checked) + 1
<1>1. N \in DOMAIN checked' /\ checked'[N] = seg
  OBVIOUS
<1>2. seg.ptr \in Nat /\ seg.size \in Nat /\ size \in Nat /\ size' = size /\ NumSize \in Nat
  BY DEF size, IsBuffer, NumSize
<1>3. \A a \in r : a = seg.ptr /\ seg.size >= NumSize
  BY DEF InnerReads
<1>4. reads' \subseteq Nat
  BY <1>2, <1>3
<1> SUFFICES ASSUME NEW a \in reads', ~(a + NumSize <= size)
             PROVE  \E n \in DOMAIN checked' :
                      /\ ~Inside(checked'[n], buf)
                      /\ checked'[n].ptr <= a
                      /\ a + NumSize <= checked'[n].ptr + checked'[n].size
  BY <1>2, <1>4 DEF ReadsHandedOut, Inside
<1>5. a = seg.ptr /\ seg.size >= NumSize
  BY <1>3
<1>6. ~Inside(seg, buf) /\ seg.ptr <= a /\ a + NumSize <= seg.ptr + seg.size
  BY <1>2, <1>5 DEF Inside, size
<1> WITNESS N \in DOMAIN checked'
<1> QED BY <1>1, <1>6

LEMMA VerifyNextOffsetKeepsInv == Inv /\ VerifyNextOffset => Inv'
<1> SUFFICES ASSUME Inv, VerifyNextOffset PROVE Inv'
  OBVIOUS
<1> USE DEF VerifyNextOffset, size
<1>1. /\ TypeOK /\ pc = "loop" /\ index < 0 /\ InLoop
      /\ shape.kind # "fixvec" /\ IsBuffer(buf)
  BY DEF Inv, Got, TypeOK
<1>2. /\ Items \in Nat /\ \A k \in 1..(Items + 1) : Off(k) \in Nat
  BY <1>1, OffsetsAreNumbers DEF InLoop
<1>3. count = Items /\ Last = Off(i) /\ i \in Nat /\ i >= 1
  BY <1>1, <1>2 DEF InLoop, count, Last, Off, Items, NumSize
<1>4. i + 1 \in 1..Items /\ ptr' = NumSize * (i + 1)
  BY <1>1, <1>2, <1>3 DEF InLoop, NumSize
<1>5. Num(buf, ptr') = Off(i + 1) /\ Off(i + 1) \in Nat /\ Off(i) \in Nat
  BY <1>1, <1>2, <1>4 DEF Off, InLoop
<1>6. ptr' \in Nat /\ ptr' + NumSize <= size
  BY <1>1, <1>2, <1>4 DEF InLoop, HeaderFits, NumSize, IsBuffer
<1>7. Got'
  BY <1>1 DEF Inv, Got, FixvecItemInBounds, SizeFits, GetterReturnsChecked
<1>8. CASE Off(i) > Off(i + 1)
  <2>1. pc' = "failed" /\ errno' = "OFFSET" /\ UNCHANGED <<offsets, i, checked>>
    BY <1>3, <1>5, <1>8 DEF Fail, Goto
  <2>r. reads' = {ptr'}
    BY <1>3, <1>5, <1>8
  <2>2. TypeOK'
    BY <1>1, <1>6, <2>1, <2>r DEF TypeOK, InnerErrors
  <2>3. SegmentsOK' /\ ReadsHandedOut'
    BY <1>6, <2>1, <2>r DEF Inv, SegmentsOK, ReadsHandedOut
  <2> QED BY <1>1, <1>7, <2>1, <2>2, <2>3 DEF Inv
<1>9. CASE Off(i) <= Off(i + 1)
  <2> DEFINE seg == Segment(Off(i), Off(i + 1) - Off(i))
  <2>1. seg \in [ptr : Nat, size : Nat]
    BY <1>5, <1>9 DEF Segment
  <2>2. Ordered(i + 1)
    BY <1>1, <1>2, <1>3, <1>4, <1>9 DEF InLoop, Ordered
  <2>3. \/ /\ shape.kind = "dynvec" /\ checked' = Append(checked, seg)
           /\ pc' = "failed" /\ errno' = "DATA" /\ UNCHANGED <<offsets, i>>
        \/ /\ shape.kind = "dynvec" /\ checked' = Append(checked, seg)
           /\ pc' = "loop" /\ UNCHANGED errno
           /\ offsets' = Append(offsets, Off(i + 1)) /\ i' = i + 1
        \/ /\ shape.kind = "table" /\ UNCHANGED checked
           /\ pc' = "loop" /\ UNCHANGED errno
           /\ offsets' = Append(offsets, Off(i + 1)) /\ i' = i + 1
    BY <1>3, <1>5, <1>9 DEF Fail, Goto, Inner
  <2>r. reads' \subseteq Nat /\ ReadsHandedOut'
    <3>1. CASE shape.kind = "dynvec"
      <4>1. PICK r \in InnerReads(seg) : reads' = {ptr'} \cup r
        BY <1>3, <1>5, <1>9, <3>1 DEF Inner
      <4>2. checked' = Append(checked, seg) /\ checked \in Seq([ptr : Nat, size : Nat])
        BY <1>1, <2>3, <3>1 DEF TypeOK
      <4> DEFINE own == {ptr'}
      <4>3. own \in SUBSET Nat /\ \A a \in own : a + NumSize <= size
        BY <1>6
      <4> HIDE DEF seg, own
      <4> QED BY <1>1, <2>1, <4>1, <4>2, <4>3, CallReadsHandedOut DEF own
    <3>2. CASE shape.kind = "table"
      <4>1. reads' = {ptr'}
        BY <1>3, <1>5, <1>9, <3>2
      <4> QED BY <1>6, <4>1 DEF ReadsHandedOut
    <3> QED BY <2>3, <3>1, <3>2
  <2>4. TypeOK'
    <3>1. checked' \in Seq([ptr : Nat, size : Nat]) /\ offsets' \in Seq(Nat) /\ i' \in Nat
      <4>1. offsets \in Seq(Nat) /\ checked \in Seq([ptr : Nat, size : Nat])
        BY <1>1 DEF TypeOK
      <4> HIDE DEF seg
      <4>2. Append(checked, seg) \in Seq([ptr : Nat, size : Nat])
        BY <2>1, <4>1
      <4>3. Append(offsets, Off(i + 1)) \in Seq(Nat)
        BY <1>5, <4>1
      <4>4. i' \in Nat
        BY <1>3, <2>3
      <4>5. offsets' \in Seq(Nat)
        BY <2>3, <4>1, <4>3
      <4>6. checked' \in Seq([ptr : Nat, size : Nat])
        BY <2>3, <4>1, <4>2
      <4> QED BY <4>4, <4>5, <4>6
    <3>2. pc' \in {"failed", "loop"} /\ errno' \in {"OK"} \cup InnerErrors
      BY <1>1, <2>3 DEF TypeOK, InnerErrors
    <3> QED BY <1>1, <1>6, <2>r, <3>1, <3>2 DEF TypeOK
  <2>5. SegmentsOK'
    BY <1>1, <2>3 DEF InLoop, CheckedAre, SegmentsOK, TypeOK
  <2>6. pc' = "loop" => InLoop'
    <3> SUFFICES ASSUME pc' = "loop" PROVE InLoop'
      OBVIOUS
    <3>0. PICK m \in Nat : m = i
      BY <1>3
    <3>1. /\ offsets' = Append(offsets, Off(i + 1)) /\ i' = i + 1
          /\ checked' = IF shape.kind = "dynvec" THEN Append(checked, seg) ELSE checked
      BY <2>3
    <3>2. HeaderFits' /\ Items' = Items /\ (\A k : Off(k)' = Off(k)) /\ Ordered(m + 1)'
      BY <1>1, <2>2, <3>0, ValueStays DEF InLoop
    <3>3. Len(offsets') = i + 1 /\ \A k \in 1..(i + 1) : offsets'[k] = Off(k)
      BY <1>1, <1>3, <3>1 DEF InLoop, TypeOK
    <3>4. CASE shape.kind = "dynvec"
      <4>1. Len(checked) = m - 1 /\ checked \in Seq([ptr : Nat, size : Nat])
            /\ \A k \in 1..(m - 1) : checked[k] = Segment(Off(k), Off(k + 1) - Off(k))
        BY <1>1, <3>0, <3>4 DEF InLoop, CheckedAre, TypeOK
      <4>2. Len(checked') = m /\ \A k \in 1..m : checked'[k] = Segment(Off(k), Off(k + 1) - Off(k))
        BY <1>3, <2>1, <3>0, <3>1, <3>4, <4>1
      <4>3. CheckedAre(m)'
        BY <3>2, <4>2 DEF CheckedAre
      <4> QED BY <1>1, <1>3, <1>4, <3>0, <3>1, <3>2, <3>3, <3>4, <4>3 DEF InLoop
    <3>5. CASE shape.kind # "dynvec"
      <4>1. CheckedAre(0)'
        BY <1>1, <3>1, <3>5 DEF InLoop, CheckedAre
      <4> QED BY <1>1, <1>3, <1>4, <3>0, <3>1, <3>2, <3>3, <3>5, <4>1 DEF InLoop
    <3> QED BY <3>4, <3>5
  <2> QED BY <1>1, <1>7, <2>r, <2>3, <2>4, <2>5, <2>6 DEF Inv
<1> QED BY <1>5, <1>8, <1>9

LEMMA VerifyEndKeepsInv == Inv /\ VerifyEnd => Inv'
<1> SUFFICES ASSUME Inv, VerifyEnd PROVE Inv'
  OBVIOUS
<1> USE DEF VerifyEnd, size
<1>1. /\ TypeOK /\ pc = "loop" /\ index < 0 /\ InLoop
      /\ shape.kind # "fixvec" /\ IsBuffer(buf) /\ HeaderFits
  BY DEF Inv, Got, TypeOK, InLoop
<1>2. /\ Items \in Nat /\ (\A k \in 1..(Items + 1) : Off(k) \in Nat) /\ size \in Nat
  BY <1>1, OffsetsAreNumbers
<1>3. count = Items /\ Last = Off(i) /\ i = Items /\ i >= 1
  BY <1>1, <1>2 DEF InLoop, count, Last, Off, Items, NumSize
<1>4. Off(Items + 1) = size /\ Off(Items) \in Nat
  BY <1>2, <1>3 DEF Off
<1>5. Got'
  BY <1>1 DEF Inv, Got, FixvecItemInBounds, SizeFits, GetterReturnsChecked
<1>6. CASE Off(Items) > size
  <2>1. pc' = "failed" /\ errno' = "OFFSET" /\ UNCHANGED <<offsets, i, checked>> /\ reads' = {}
    BY <1>2, <1>3, <1>4, <1>6 DEF Fail, Goto
  <2>2. TypeOK' /\ SegmentsOK' /\ ReadsHandedOut'
    BY <1>1, <2>1 DEF Inv, TypeOK, InnerErrors, SegmentsOK, ReadsHandedOut
  <2> QED BY <1>1, <1>5, <2>1, <2>2 DEF Inv
<1>7. CASE Off(Items) <= size
  <2> DEFINE seg == Segment(Off(Items), Off(Items + 1) - Off(Items))
  <2>1. seg \in [ptr : Nat, size : Nat]
    BY <1>4, <1>7 DEF Segment
  <2>2. Ordered(Items + 1)
    BY <1>1, <1>2, <1>3, <1>4, <1>7 DEF InLoop, Ordered
  <2>3. HeaderFits' /\ Ordered(Items + 1)' /\ Items' = Items /\ (\A k : Off(k)' = Off(k))
    BY <1>1, <2>2, ValueStays
  <2>4. CASE shape.kind = "dynvec"
    <3>1. /\ checked' = Append(checked, seg) /\ UNCHANGED <<offsets, i>>
          /\ reads' \in InnerReads(seg)
          /\ \/ pc' = "verified" /\ UNCHANGED errno
             \/ pc' = "failed" /\ errno' \in InnerErrors
      BY <1>2, <1>3, <1>4, <1>7, <2>4 DEF Inner, Pass, Fail
    <3>2. checked \in Seq([ptr : Nat, size : Nat]) /\ Len(checked) = Items - 1
          /\ \A k \in 1..(Items - 1) : checked[k] = Segment(Off(k), Off(k + 1) - Off(k))
      BY <1>1, <1>3, <2>4 DEF InLoop, CheckedAre, TypeOK
    <3> HIDE DEF seg
    <3>3. checked' \in Seq([ptr : Nat, size : Nat]) /\ Len(checked') = Items
          /\ \A k \in 1..Items : checked'[k] = IF k = Items THEN seg ELSE checked[k]
      BY <1>2, <1>3, <2>1, <3>1, <3>2
    <3> USE DEF seg
    <3>a. \A k \in 1..Items : checked'[k] = Segment(Off(k), Off(k + 1) - Off(k))
      <4> SUFFICES ASSUME NEW k \in 1..Items
                   PROVE  checked'[k] = Segment(Off(k), Off(k + 1) - Off(k))
        OBVIOUS
      <4>1. CASE k = Items
        BY <3>3, <4>1
      <4>2. CASE k # Items
        <5>1. k \in 1..(Items - 1)
          BY <1>2, <4>2
        <5> HIDE DEF seg
        <5> QED BY <3>2, <3>3, <4>2, <5>1
      <4> QED BY <4>1, <4>2
    <3>4. CheckedAre(Items)'
      BY <2>3, <3>3, <3>a DEF CheckedAre
    <3>r. reads' \subseteq Nat /\ ReadsHandedOut'
      <4> HIDE DEF seg
      <4> DEFINE own == {}
      <4>1. own \in SUBSET Nat /\ reads' = own \cup reads'
            /\ \A a \in own : a + NumSize <= size
        OBVIOUS
      <4> HIDE DEF own
      <4> QED BY <1>1, <2>1, <3>1, <3>2, <4>1, CallReadsHandedOut
    <3>5. TypeOK'
      BY <1>1, <3>1, <3>3, <3>r DEF TypeOK
    <3> QED BY <1>1, <1>5, <2>3, <2>4, <3>1, <3>r, <3>4, <3>5 DEF Inv, Full, SegmentsOK
  <2>5. CASE shape.kind = "table"
    <3>1. /\ checked' = checked /\ checked = << >> /\ offsets' = Append(offsets, Off(Items + 1))
          /\ i' = 0 /\ pc' = "fields" /\ UNCHANGED errno /\ reads' = {}
      BY <1>1, <1>2, <1>3, <1>4, <1>7, <2>5 DEF Goto, Fail, InLoop, CheckedAre, TypeOK
    <3>2. offsets \in Seq(Nat) /\ Len(offsets) = Items /\ \A k \in 1..Items : offsets[k] = Off(k)
      BY <1>1, <1>3 DEF InLoop, TypeOK
    <3>3. offsets' \in Seq(Nat) /\ Len(offsets') = Items + 1
          /\ \A k \in 1..(Items + 1) : offsets'[k] = Off(k)
      <4> DEFINE next == Off(Items + 1)
      <4>1. next \in Nat /\ Items \in Nat
        BY <1>2, <1>4
      <4>2. offsets' = Append(offsets, next) /\ \A k \in 1..Items : offsets[k] = Off(k)
        BY <3>1, <3>2
      <4>3. next = Off(Items + 1)
        OBVIOUS
      <4> HIDE DEF next
      <4>4. /\ offsets' \in Seq(Nat) /\ Len(offsets') = Items + 1
            /\ offsets'[Items + 1] = next /\ \A k \in 1..Items : offsets'[k] = offsets[k]
        BY <3>2, <4>1, <4>2
      <4>5. ASSUME NEW k \in 1..(Items + 1) PROVE offsets'[k] = Off(k)
        <5>1. CASE k = Items + 1
          BY <4>3, <4>4, <5>1
        <5>2. CASE k # Items + 1
          <6>1. k \in 1..Items
            BY <4>1, <5>2
          <6> QED BY <4>2, <4>4, <6>1
        <5> QED BY <5>1, <5>2
      <4> QED BY <4>4, <4>5
    <3>4. TypeOK' /\ SegmentsOK' /\ ReadsHandedOut'
      BY <1>1, <3>1, <3>3 DEF TypeOK, SegmentsOK, ReadsHandedOut
    <3>5. InFields'
      BY SMTT(20), <1>1, <1>2, <2>3, <2>5, <3>1, <3>3, ShapesAssumption DEF InFields, CheckedAre, TypeOK
    <3> QED BY <1>1, <1>5, <2>5, <3>1, <3>4, <3>5 DEF Inv
  <2> QED BY <1>1, <2>4, <2>5, ShapesAssumption DEF TypeOK
<1> QED BY <1>2, <1>4, <1>6, <1>7

LEMMA VerifyFieldKeepsInv == Inv /\ VerifyField => Inv'
<1> SUFFICES ASSUME Inv, VerifyField PROVE Inv'
  OBVIOUS
<1> USE DEF VerifyField, size
<1>1. /\ TypeOK /\ pc = "fields" /\ index < 0 /\ InFields
      /\ shape.kind = "table" /\ IsBuffer(buf) /\ HeaderFits /\ i \in Nat /\ shape.n \in Nat
  BY ShapesAssumption DEF Inv, Got, TypeOK, InFields
<1>2. /\ Items \in Nat /\ (\A k \in 1..(Items + 1) : Off(k) \in Nat)
  BY <1>1, OffsetsAreNumbers
<1>3. i + 1 \in 1..Items
  BY <1>1, <1>2 DEF HeaderFits
<1> DEFINE seg == Segment(Off(i + 1), Off(i + 2) - Off(i + 1))
<1>4. seg \in [ptr : Nat, size : Nat] /\ Inside(seg, buf)
  <2> DEFINE k == i + 1
  <2>1. k \in 1..Items /\ k + 1 = i + 2
    BY <1>1, <1>3
  <2> HIDE DEF k
  <2>2. /\ Segment(Off(k), Off(k + 1) - Off(k)) \in [ptr : Nat, size : Nat]
        /\ Inside(Segment(Off(k), Off(k + 1) - Off(k)), buf)
    BY <1>1, <2>1, SegmentInside DEF InFields
  <2> QED BY <2>1, <2>2 DEF k
<1>5. checked' = Append(checked, seg)
  BY <1>1, <1>2, <1>3 DEF InFields, Inner
<1>6. checked \in Seq([ptr : Nat, size : Nat]) /\ Len(checked) = i
      /\ \A k \in 1..i : checked[k] = Segment(Off(k), Off(k + 1) - Off(k))
  BY <1>1 DEF InFields, CheckedAre, TypeOK
<1>7. checked' \in Seq([ptr : Nat, size : Nat]) /\ Len(checked') = i + 1
      /\ \A k \in 1..(i + 1) : checked'[k] = IF k = i + 1 THEN seg ELSE checked[k]
  <2> HIDE DEF seg
  <2> QED BY SMTT(20), <1>1, <1>4, <1>5, <1>6
<1>8. \/ pc' = "failed" /\ errno' = "DATA" /\ UNCHANGED i
      \/ pc' = "fields" /\ UNCHANGED errno /\ i' = i + 1
  BY DEF Fail, Goto
<1>r. reads' \subseteq Nat /\ ReadsHandedOut'
  <2> DEFINE own == {}
  <2>1. own \in SUBSET Nat /\ reads' = own \cup reads' /\ \A a \in own : a + NumSize <= size
    OBVIOUS
  <2>2. reads' \in InnerReads(seg)
    BY <1>1, <1>2, <1>3 DEF InFields, Inner
  <2> HIDE DEF seg, own
  <2> QED BY <1>1, <1>4, <1>5, <1>6, <2>1, <2>2, CallReadsHandedOut
<1>9. TypeOK'
  BY SMTT(20), <1>1, <1>7, <1>8, <1>r DEF TypeOK, InnerErrors
<1>10. Got'
  BY <1>1 DEF Inv, Got, FixvecItemInBounds, SizeFits, GetterReturnsChecked
<1>11. SegmentsOK'
  <2>1. \A k \in DOMAIN checked : Inside(checked[k], buf)
    BY <1>1 DEF Inv, SegmentsOK
  <2>2. \A k \in DOMAIN checked' : Inside(checked'[k], buf)
    <3> HIDE DEF seg
    <3> QED BY <1>1, <1>4, <1>6, <1>7, <2>1
  <2> QED BY <2>2 DEF SegmentsOK, Inside
<1>12. pc' = "fields" => InFields'
  <2> SUFFICES ASSUME pc' = "fields" PROVE InFields'
    OBVIOUS
  <2>0. PICK m \in Nat : m = i + 1
    BY <1>1
  <2>1. HeaderFits' /\ Ordered(Items + 1)' /\ Items' = Items /\ (\A k : Off(k)' = Off(k))
    BY <1>1, ValueStays DEF InFields
  <2>2. \A k \in 1..m : checked'[k] = Segment(Off(k), Off(k + 1) - Off(k))
    BY <1>1, <1>6, <1>7, <2>0
  <2>3. CheckedAre(m)' /\ i' = m
    BY <1>7, <1>8, <2>0, <2>1, <2>2 DEF CheckedAre
  <2> QED BY <1>1, <1>3, <1>2, <2>0, <2>1, <2>3 DEF InFields
<1> QED BY <1>1, <1>r, <1>8, <1>9, <1>10, <1>11, <1>12 DEF Inv

LEMMA VerifyFieldsDoneKeepsInv == Inv /\ VerifyFieldsDone => Inv'
<1> SUFFICES ASSUME Inv, VerifyFieldsDone PROVE Inv'
  OBVIOUS
<1> USE DEF VerifyFieldsDone, size, Pass
<1>1. /\ TypeOK /\ index < 0 /\ InFields /\ i \in Nat /\ shape.n \in Nat /\ i = shape.n
      /\ shape.kind = "table"
  BY ShapesAssumption DEF Inv, Got, TypeOK, InFields
<1>2. HeaderFits' /\ Ordered(Items + 1)' /\ Items' = Items /\ (\A k : Off(k)' = Off(k))
  BY <1>1, ValueStays DEF InFields
<1>3. CheckedAre(shape.n)'
  BY <1>1, <1>2 DEF InFields, CheckedAre
<1>4. TypeOK' /\ ReadsHandedOut' /\ Got' /\ SegmentsOK'
  BY <1>1 DEF Inv, TypeOK, Got,
              FixvecItemInBounds, SizeFits, GetterReturnsChecked, ReadsHandedOut, SegmentsOK
<1> QED BY <1>1, <1>2, <1>3, <1>4 DEF Inv, Full

-----------------------------------------------------------------------------
(* What DynvecItem gives for an index the value has an item for.             *)
LEMMA GetterOfFull ==
  ASSUME IsBuffer(buf), HeaderFits, Ordered(Items + 1), NEW n \in Nat
  PROVE  /\ DynvecHas(buf, n) <=> n < Items
         /\ \A a \in DynvecReads(buf, n) : a \in Nat /\ a + NumSize <= size
         /\ n < Items => DynvecItem(buf, n) = Segment(Off(n + 1), Off(n + 2) - Off(n + 1))
<1>1. Items \in Nat /\ Items >= 1 /\ size \in Nat
  BY OffsetsAreNumbers
<1>2. Num(buf, NumSize) \in 0..(Word - 1) /\ Word \in Nat
  BY NumInWord, WordIsLarge DEF NumSize
<1>3. Items \in 0..(Word - 1)
  BY <1>1, <1>2 DEF Items
<1>4. Num(buf, 0) = size /\ size >= NumSize * 2 /\ NumSize * (Items + 1) <= size
  BY <1>1 DEF HeaderFits, NumSize
<1>5. DynvecLength(buf) = Items
  BY <1>2, <1>3, <1>4, ModSmall DEF DynvecLength, Items, NumSize
<1>6. DynvecHas(buf, n) <=> n < Items
  BY <1>5 DEF DynvecHas
<1>7. \A a \in DynvecReads(buf, n) : a \in Nat /\ a + NumSize <= size
  BY <1>1, <1>4, <1>5, <1>6 DEF DynvecReads, NumSize
<1>8. ASSUME n < Items
      PROVE  DynvecItem(buf, n) = Segment(Off(n + 1), Off(n + 2) - Off(n + 1))
  BY <1>1, <1>4, <1>5, <1>8 DEF DynvecItem, Off
<1> QED BY <1>6, <1>7, <1>8

LEMMA GetDynvecItemKeepsInv ==
  ASSUME Inv, NEW n \in 0..MaxIndex, GetDynvecItem(n) PROVE Inv'
<1> USE DEF GetDynvecItem, size
<1>1. /\ TypeOK /\ pc = "verified" /\ IsBuffer(buf) /\ n \in Nat
      /\ shape.kind \in {"dynvec", "table"} /\ shape.kind # "fixvec" /\ shape.n \in Nat
      /\ Empty \/ Full
  BY ShapesAssumption, MaxIndexAssumption DEF Inv, TypeOK
<1>2. CASE Full
  <2>1. /\ DynvecHas(buf, n) <=> n < Items
        /\ \A a \in DynvecReads(buf, n) : a \in Nat /\ a + NumSize <= size
        /\ n < Items => DynvecItem(buf, n) = Segment(Off(n + 1), Off(n + 2) - Off(n + 1))
    BY <1>1, <1>2, GetterOfFull DEF Full
  <2>2. Items \in Nat /\ \A k \in 1..(Items + 1) : Off(k) \in Nat
    BY <1>1, <1>2, OffsetsAreNumbers DEF Full
  <2>3. n < Len(checked) => n < Items
    BY <1>1, <1>2, <2>2 DEF Full, CheckedAre, HeaderFits
  <2>4. n < Items => n < Len(checked)
    BY <1>1, <1>2, <2>2 DEF Full, CheckedAre, HeaderFits
  <2>5. n < Items => checked[n + 1] = Segment(Off(n + 1), Off(n + 2) - Off(n + 1))
    <3> SUFFICES ASSUME n < Items
                 PROVE  checked[n + 1] = Segment(Off(n + 1), Off(n + 2) - Off(n + 1))
      OBVIOUS
    <3>1. PICK m : CheckedAre(m)
      BY <1>2 DEF Full
    <3>2. Len(checked) = m /\ n + 1 \in 1..m
      BY <1>1, <2>4, <3>1 DEF CheckedAre, TypeOK
    <3>3. checked[n + 1] = Segment(Off(n + 1), Off((n + 1) + 1) - Off(n + 1))
      BY <3>1, <3>2, Zenon DEF CheckedAre
    <3>4. (n + 1) + 1 = n + 2
      BY <1>1
    <3> QED BY <3>3, <3>4
  <2>6. item' = IF n < Len(checked) THEN checked[n + 1] ELSE NoItem
    BY <2>1, <2>3, <2>4, <2>5
  <2>7. item' \in {NoItem} \cup [ptr : Nat, size : Nat]
    <3>1. CASE n < Len(checked)
      <4>1. n + 1 \in 1..Len(checked) /\ checked \in Seq([ptr : Nat, size : Nat])
        BY <1>1, <3>1 DEF TypeOK
      <4> DEFINE S == [ptr : Nat, size : Nat]
      <4>2. checked \in Seq(S)
        BY <4>1
      <4> HIDE DEF S
      <4>3. checked[n + 1] \in S
        BY <4>1, <4>2, ItemOfSeq
      <4> QED BY <2>6, <3>1, <4>3 DEF S
    <3>2. CASE ~(n < Len(checked))
      BY <2>6, <3>2
    <3> QED BY <3>1, <3>2
  <2>8. TypeOK' /\ ReadsHandedOut'
    BY <1>1, <2>1, <2>7 DEF TypeOK, ReadsHandedOut
  <2>9. Got'
    BY <1>1, <2>6 DEF Got, FixvecItemInBounds, SizeFits, GetterReturnsChecked
  <2>10. Full'
    BY <1>2, ValueStays DEF Full, CheckedAre
  <2>11. SegmentsOK'
    BY DEF Inv, SegmentsOK
  <2> QED BY <1>1, <2>8, <2>9, <2>10, <2>11 DEF Inv
<1>3. CASE Empty
  <2>1. DynvecLength(buf) = 0 /\ ~DynvecHas(buf, n) /\ DynvecReads(buf, n) = {0}
    BY <1>1, <1>3 DEF Empty, DynvecLength, DynvecHas, DynvecReads
  <2>2. item' = NoItem /\ reads' = {0} /\ Len(checked) = 0
    BY <1>3, <2>1 DEF Empty, CheckedAre
  <2>3. TypeOK' /\ ReadsHandedOut' /\ Got' /\ Empty' /\ SegmentsOK'
    BY <1>1, <1>3, <2>2 DEF Inv, TypeOK, ReadsHandedOut, Got,
                            FixvecItemInBounds, SizeFits, GetterReturnsChecked, Empty,
                           CheckedAre, SegmentsOK, NumSize, Off, Items
  <2> QED BY <1>1, <2>3 DEF Inv
<1> QED BY <1>1, <1>2, <1>3

LEMMA GetFixvecItemKeepsInv ==
  ASSUME Inv, NEW n \in 0..MaxIndex, GetFixvecItem(n) PROVE Inv'
<1> USE DEF GetFixvecItem, size
<1>1. /\ TypeOK /\ pc = "verified" /\ IsBuffer(buf) /\ n \in Nat /\ shape.n \in Nat
      /\ shape.kind = "fixvec" /\ FixvecFits /\ checked = << >>
  BY ShapesAssumption, MaxIndexAssumption DEF Inv, TypeOK
<1>2. Num(buf, 0) \in Nat
  BY <1>1, NumInWord, WordIsLarge
<1>3. item' \in {NoItem} \cup [ptr : Nat, size : Nat]
  <2>1. shape.n * n \in Nat
    BY <1>1
  <2>4. (shape.n * n) % Word \in Nat
    BY <2>1, WordIsLarge
  <2>2. FixvecItem(shape.n, n) \in [ptr : Nat, size : Nat]
    BY <1>1, <2>4 DEF FixvecItem, Segment, NumSize
  <2>3. item' = FixvecItem(shape.n, n) \/ item' = NoItem
    OBVIOUS
  <2> QED BY <2>2, <2>3
<1>4. FixvecItemInBounds'
  <2> SUFFICES ASSUME shape.n = 1 \/ SizeFits, n < Num(buf, 0)
               PROVE  Inside(FixvecItem(shape.n, n), buf)
    BY DEF FixvecHas, FixvecItemInBounds, SizeFits, Inside
  <2>1. size = NumSize + shape.n * Num(buf, 0) /\ size \in Nat /\ size < Word
    BY <1>1, <1>2 DEF FixvecFits, IsBuffer
  <2>2. shape.n * n \in Nat /\ shape.n * n + shape.n <= shape.n * Num(buf, 0)
    BY <1>1, <1>2, MultiplesFit
  <2>3. shape.n * Num(buf, 0) \in Nat
    BY <1>1, <1>2
  <2>4. shape.n * n < Word
    BY <1>1, <2>1, <2>2, <2>3, WordIsLarge DEF NumSize
  <2>5. (shape.n * n) % Word = shape.n * n
    BY <2>2, <2>4, WordIsLarge
  <2> QED BY <1>1, <2>1, <2>2, <2>3, <2>5 DEF FixvecItem, Segment, Inside, NumSize
<1>5. ReadsHandedOut'
  <2>1. size >= NumSize /\ size \in Nat
    BY <1>1 DEF FixvecFits, IsBuffer
  <2> QED BY <2>1 DEF ReadsHandedOut, NumSize
<1>6. TypeOK' /\ Got' /\ SegmentsOK' /\ FixvecFits'
  BY <1>1, <1>3, <1>4 DEF TypeOK, Got,
                          FixvecItemInBounds, SizeFits, GetterReturnsChecked, SegmentsOK, FixvecFits
<1> QED BY <1>1, <1>5, <1>6 DEF Inv

-----------------------------------------------------------------------------
LEMMA InvIsInvariant == Spec => []Inv
<1>1. Init => Inv
  BY InitEstablishesInv
<1>2. Inv /\ [Next]_vars => Inv'
  <2> SUFFICES ASSUME Inv, [Next]_vars PROVE Inv'
    OBVIOUS
  <2>1. CASE VerifyFixvec
    BY <2>1, VerifyFixvecKeepsInv
  <2>2. CASE VerifySize
    BY <2>2, VerifySizeKeepsInv
  <2>3. CASE VerifyFirstOffset
    BY <2>3, VerifyFirstOffsetKeepsInv
  <2>4. CASE VerifyNextOffset
    BY <2>4, VerifyNextOffsetKeepsInv
  <2>5. CASE VerifyEnd
    BY <2>5, VerifyEndKeepsInv
  <2>6. CASE VerifyField
    BY <2>6, VerifyFieldKeepsInv
  <2>7. CASE VerifyFieldsDone
    BY <2>7, VerifyFieldsDoneKeepsInv
  <2>8. ASSUME NEW n \in 0..MaxIndex, GetFixvecItem(n) PROVE Inv'
    BY <2>8, GetFixvecItemKeepsInv
  <2>9. ASSUME NEW n \in 0..MaxIndex, GetDynvecItem(n) PROVE Inv'
    BY <2>9, GetDynvecItemKeepsInv
  <2>10. CASE UNCHANGED vars
    <3>1. TypeOK' /\ ReadsHandedOut' /\ Got' /\ SegmentsOK'
      BY <2>10 DEF vars, Inv, TypeOK, ReadsHandedOut, Got, FixvecItemInBounds, SizeFits,
                   GetterReturnsChecked, SegmentsOK, size
    <3>2. InLoop => InLoop'
      BY <2>10 DEF vars, InLoop, HeaderFits, Ordered, CheckedAre, Off, Items, size
    <3>3. InFields => InFields'
      BY <2>10 DEF vars, InFields, HeaderFits, Ordered, CheckedAre, Off, Items, size
    <3>4. Full => Full'
      BY <2>10 DEF vars, Full, HeaderFits, Ordered, CheckedAre, Off, Items, size
    <3>5. Empty => Empty'
      BY <2>10 DEF vars, Empty, CheckedAre, Off, size
    <3>6. FixvecFits => FixvecFits'
      BY <2>10 DEF vars, FixvecFits, SizeFits, size
    <3> QED BY <2>10, <3>1, <3>2, <3>3, <3>4, <3>5, <3>6 DEF vars, Inv, size
  <2> QED BY <2>1, <2>2, <2>3, <2>4, <2>5, <2>6, <2>7, <2>8, <2>9, <2>10 DEF Next
<1> QED BY <1>1, <1>2, PTL DEF Spec

LEMMA InvImpliesOutsideIsRejected == Inv => OutsideIsRejected
<1> SUFFICES ASSUME Inv, pc = "verified", shape.kind # "table", NEW n \in DOMAIN checked
             PROVE  Inside(checked[n], buf)
  BY DEF OutsideIsRejected, Inv, SegmentsOK
<1>1. Full /\ shape.kind = "dynvec" /\ IsBuffer(buf) /\ checked \in Seq([ptr : Nat, size : Nat])
  BY ShapesAssumption DEF Inv, TypeOK, Empty, CheckedAre
<1>2. Items \in Nat
  BY <1>1, OffsetsAreNumbers DEF Full
<1>3. n \in 1..Items /\ checked[n] = Segment(Off(n), Off(n + 1) - Off(n))
  BY <1>1, <1>2 DEF Full, CheckedAre
<1> QED BY <1>1, <1>3, SegmentInside DEF Full

LEMMA InvImpliesVerifiedWithoutGaps == Inv => VerifiedWithoutGaps
<1> SUFFICES ASSUME Inv, pc = "verified", checked # << >> PROVE VerifiedWithoutGaps
  BY DEF VerifiedWithoutGaps
<1>1. /\ Full /\ shape.kind \in {"dynvec", "table"} /\ IsBuffer(buf) /\ shape.n \in Nat
      /\ checked \in Seq([ptr : Nat, size : Nat]) /\ Len(checked) >= 1
  BY ShapesAssumption DEF Inv, TypeOK, Empty, CheckedAre
<1>0. PICK N : N = Len(checked)
  OBVIOUS
<1>2. Items \in Nat /\ Items >= 1 /\ \A k \in 1..(Items + 1) : Off(k) \in Nat
  BY <1>1, OffsetsAreNumbers DEF Full
<1>3. N \in 1..Items /\ (shape.kind = "dynvec" \/ ~compatible => N = Items)
  <2>1. N \in Nat /\ N >= 1
    BY <1>0, <1>1
  <2>2. N = IF shape.kind = "dynvec" THEN Items ELSE shape.n
    BY <1>0, <1>1 DEF Full, CheckedAre
  <2> QED BY SMTT(20), <1>1, <1>2, <2>1, <2>2 DEF Full, HeaderFits
<1>4. \A k \in 1..N : checked[k] = Segment(Off(k), Off(k + 1) - Off(k))
  BY <1>0, <1>1 DEF Full, CheckedAre
<1>5. \A k \in 1..N : checked[k].ptr = Off(k) /\ checked[k].ptr + checked[k].size = Off(k + 1)
  <2> TAKE k \in 1..N
  <2>1. Off(k) \in Nat /\ Off(k + 1) \in Nat
    BY <1>2, <1>3
  <2>2. checked[k] = [ptr |-> Off(k), size |-> Off(k + 1) - Off(k)]
    BY <1>4 DEF Segment
  <2>3. checked[k].ptr = Off(k) /\ checked[k].size = Off(k + 1) - Off(k)
    BY <2>2
  <2> QED BY <2>1, <2>3
<1>6. Off(1) = Num(buf, NumSize) /\ Off(Items + 1) = size
  BY <1>2 DEF Off, NumSize
<1>7. checked[1].ptr = Num(buf, NumSize)
  BY <1>3, <1>5, <1>6
<1>8. \A k \in 1..(N - 1) : checked[k].ptr + checked[k].size = checked[k + 1].ptr
  <2> TAKE k \in 1..(N - 1)
  <2>1. k \in 1..N /\ k + 1 \in 1..N
    BY <1>2, <1>3
  <2> QED BY <1>5, <2>1
<1>9. shape.kind = "dynvec" \/ ~compatible => checked[N].ptr + checked[N].size = size
  BY <1>2, <1>3, <1>5, <1>6
<1> QED BY <1>0, <1>7, <1>8, <1>9 DEF VerifiedWithoutGaps

LEMMA InvImpliesTableHasItsFields == Inv => TableHasItsFields
<1> SUFFICES ASSUME Inv, shape.kind = "table", index >= 0 PROVE item # NoItem
  BY DEF TableHasItsFields
<1>1. /\ Empty \/ Full
      /\ index < shape.n /\ shape.n \in Nat /\ index \in Nat
      /\ checked \in Seq([ptr : Nat, size : Nat])
      /\ item = IF index < Len(checked) THEN checked[index + 1] ELSE NoItem
  BY ShapesAssumption DEF Inv, Got, TypeOK, GetterReturnsChecked
<1>2. Full /\ Len(checked) = shape.n
  BY <1>1 DEF Empty, Full, CheckedAre
<1>3. item \in [ptr : Nat, size : Nat]
  <2>1. index + 1 \in 1..Len(checked) /\ item = checked[index + 1]
    BY <1>1, <1>2
  <2> DEFINE S == [ptr : Nat, size : Nat]
  <2>2. checked \in Seq(S)
    BY <1>1
  <2> HIDE DEF S
  <2>3. checked[index + 1] \in S
    BY <2>1, <2>2, ItemOfSeq
  <2> QED BY <2>1, <2>3 DEF S
<1> QED BY <1>3 DEF NoItem, Segment

LEMMA InvImpliesOffsetsFitTheirArray == Inv => OffsetsFitTheirArray
<1> SUFFICES ASSUME Inv, shape.kind = "table", pc \in {"loop", "fields"}
             PROVE  NumSize * (count + 1) <= size /\ Len(offsets) <= count + 1
  BY DEF OffsetsFitTheirArray
<1>1. (InLoop \/ InFields) /\ HeaderFits /\ IsBuffer(buf)
  BY DEF Inv, InLoop, InFields, TypeOK
<1>2. Items \in Nat /\ Items >= 1
  BY <1>1, OffsetsAreNumbers
<1>3. offsets[1] = Off(1) /\ Len(offsets) <= Items + 1
  BY <1>1, <1>2 DEF InLoop, InFields
<1>4. count = Items
  BY <1>2, <1>3 DEF count, Items, Off, NumSize
<1> QED BY <1>1, <1>3, <1>4 DEF HeaderFits

(* The locals of verifiers and getters hold values of their types: above all *)
(* no offset, and no size computed of two of them, is ever negative.         *)
THEOREM TypeAlwaysOK == Spec => []TypeOK
<1>1. Inv => TypeOK
  BY DEF Inv
<1> QED BY <1>1, InvIsInvariant, PTL

(* Whatever the value holds: a number is read outside it only at an item     *)
(* that a vector handed on too early, a vector that did so is never          *)
(* verified, a table hands on no field there, and its offsets take no more   *)
(* of the stack than the value has bytes.                                    *)
THEOREM OverrunsAlwaysRejected == Spec => []OverrunsAreRejected
<1>1. Inv => OverrunsAreRejected
  BY InvImpliesOutsideIsRejected, InvImpliesOffsetsFitTheirArray DEF Inv, OverrunsAreRejected
<1> QED BY <1>1, InvIsInvariant, PTL

(* The items or fields of a verified value leave no byte of it out.          *)
THEOREM VerifiedAlwaysWithoutGaps == Spec => []VerifiedWithoutGaps
  BY InvIsInvariant, InvImpliesVerifiedWithoutGaps, PTL

(* What a getter returns is what was verified, at any index; the field of a  *)
(* table is always there; an item of a fixvec is in the value, at any index  *)
(* and of any size, unless the vector's size wraps around.                   *)
THEOREM GetterAlwaysReturnsVerified == Spec => []GetterReturnsVerified
<1>1. Inv => GetterReturnsVerified
  BY InvImpliesTableHasItsFields DEF Inv, Got, GetterReturnsVerified
<1> QED BY <1>1, InvIsInvariant, PTL

-----------------------------------------------------------------------------
(***************************************************************************)
(* The verifiers against the predicate: what the head of a value is to the *)
(* callers, and what the verifiers go by.                                  *)
(***************************************************************************)
LEMMA HeadOfValue ==
  ASSUME IsBuffer(buf), HeaderFits
  PROVE  /\ size >= NumSize * 2
         /\ Count(buf) = Items
         /\ \A k \in 1..Items : Offset(buf, k) = Off(k) /\ End(buf, k) = Off(k + 1)
<1>1. Items \in Nat /\ Items >= 1 /\ size \in Nat
  BY OffsetsAreNumbers
<1>2. size >= NumSize * 2
  BY <1>1 DEF HeaderFits, NumSize
<1>3. Count(buf) = Items
  <2>1. size # NumSize
    BY <1>1, <1>2 DEF NumSize
  <2> QED BY <2>1 DEF Count, Items, size
<1>4. \A k \in 1..Items : Offset(buf, k) = Off(k) /\ End(buf, k) = Off(k + 1)
  <2> TAKE k \in 1..Items
  <2>1. k = Items <=> ~(k + 1 <= Items)
    BY <1>1
  <2>2. k <= Items
    BY <1>1
  <2> QED BY <1>3, <2>1, <2>2 DEF Offset, End, Off, size
<1> QED BY <1>2, <1>3, <1>4

LEMMA OrderedIsWellFormed ==
  ASSUME IsBuffer(buf), HeaderFits, Ordered(Items + 1), shape \in Shapes
  PROVE  WellFormed
<1>1. /\ Items \in Nat /\ Items >= 1 /\ size \in Nat /\ size >= NumSize * 2
      /\ Count(buf) = Items
      /\ \A k \in 1..Items : Offset(buf, k) = Off(k) /\ End(buf, k) = Off(k + 1)
  BY OffsetsAreNumbers, HeadOfValue
<1>2. \A k \in 1..Items : Off(k) <= Off(k + 1)
  BY <1>1 DEF Ordered
<1>3. Num(buf, NumSize) \in Nat
  BY NumInWord, WordIsLarge DEF NumSize
<1>4. Offset(buf, 1) = Num(buf, NumSize)
  BY DEF Offset, NumSize
<1>5. Offset(buf, 1) % 4 = 0 /\ Offset(buf, 1) \in (NumSize * 2)..size
  BY <1>1, <1>3, <1>4 DEF HeaderFits, Items, NumSize
<1>6. HeadFits(buf)
  BY <1>1, <1>2, <1>5 DEF HeadFits, HeaderFits, size
<1>7. shape.kind = "table" => Count(buf) >= shape.n /\ (Count(buf) = shape.n \/ compatible)
  BY <1>1, ShapesAssumption DEF HeaderFits
<1> QED BY <1>6, <1>7 DEF WellFormed

LEMMA DisorderIsNotWellFormed ==
  ASSUME IsBuffer(buf), HeaderFits, NEW k \in 1..Items, Off(k) > Off(k + 1)
  PROVE  ~WellFormed
<1>1. /\ Items \in Nat /\ size \in Nat /\ size >= NumSize * 2 /\ Count(buf) = Items
      /\ Offset(buf, k) = Off(k) /\ End(buf, k) = Off(k + 1)
      /\ Off(k) \in Nat /\ Off(k + 1) \in Nat
  BY OffsetsAreNumbers, HeadOfValue
<1>2. ~HeadFits(buf)
  BY <1>1 DEF HeadFits
<1>3. ~NoItems(buf)
  <2>1. size # NumSize
    BY <1>1 DEF NumSize
  <2> QED BY <2>1 DEF NoItems, size
<1> QED BY <1>2, <1>3 DEF WellFormed

(* Who says no by the head of a value, and not for an item or field, is      *)
(* right.  It is an invariant beside Inv: `failed' is left by no step.       *)
NoFalseAlarm ==
  shape.kind # "fixvec" /\ pc = "failed" /\ errno # "DATA"
    /\ (offsets = << >> \/ Len(checked) < count) => ~WellFormed

LEMMA SizeFailsRightly == Inv /\ VerifySize => NoFalseAlarm'
<1> SUFFICES ASSUME Inv, VerifySize, pc' = "failed", WellFormed PROVE FALSE
  BY DEF NoFalseAlarm, VerifySize, WellFormed, MayBeEmpty
<1>1. size \in Nat /\ pc = "verify"
  <2>1. buf \in Seq(0..(Byte - 1))
    BY DEF Inv, TypeOK, IsBuffer
  <2> QED BY <2>1 DEF VerifySize, size
<1>2. size = Num(buf, 0)
  BY DEF WellFormed, HeadFits, NoItems, size
<1>3. size >= NumSize * 2 \/ (size = NumSize /\ MayBeEmpty)
  BY DEF WellFormed, HeadFits, NoItems, size
<1>4. size >= NumSize
  BY <1>1, <1>3 DEF NumSize
<1>5. pc' = "failed" => size < NumSize * 2 /\ ~(size = NumSize /\ MayBeEmpty)
  BY <1>1, <1>2, <1>4 DEF VerifySize, Fail, Pass, Goto, NumSize
<1> QED BY <1>1, <1>3, <1>5 DEF NumSize

LEMMA FirstOffsetFailsRightly == Inv /\ VerifyFirstOffset => NoFalseAlarm'
<1> SUFFICES ASSUME Inv, VerifyFirstOffset, pc' = "failed", WellFormed PROVE FALSE
  BY DEF NoFalseAlarm, VerifyFirstOffset, WellFormed, MayBeEmpty
<1> DEFINE offset == Num(buf, NumSize)
<1>1. /\ size \in Nat /\ size >= NumSize * 2 /\ IsBuffer(buf)
      /\ shape \in Shapes /\ shape.n \in Nat /\ compatible \in BOOLEAN
  BY ShapesAssumption DEF Inv, TypeOK, VerifyFirstOffset, IsBuffer, size
<1>2. offset \in Nat
  BY <1>1, NumInWord, WordIsLarge DEF NumSize
<1>3. OffsetErrno(offset) # "OK"
  BY DEF VerifyFirstOffset, Fail, Goto
<1>4. HeadFits(buf) /\ Count(buf) = offset \div 4 - 1
      /\ (shape.kind = "table" =>
            Count(buf) >= shape.n /\ (Count(buf) = shape.n \/ compatible))
  <2>1. size # NumSize
    BY <1>1 DEF NumSize
  <2> QED BY <2>1 DEF WellFormed, NoItems, Count, size
<1>5. offset % 4 = 0 /\ offset >= NumSize * 2 /\ offset <= size
  BY <1>1, <1>2, <1>4 DEF HeadFits, Offset, size, NumSize
<1>6. offset \div 4 \in Nat /\ NumSize * (offset \div 4 - 1 + 1) = offset
  BY <1>2, <1>5 DEF NumSize
<1>7. shape.kind = "table" =>
        ~(offset \div 4 - 1 < shape.n \/ (~compatible /\ offset \div 4 - 1 > shape.n))
  BY <1>1, <1>4, <1>6
<1> HIDE DEF offset
<1>8. OffsetErrno(offset) = "OK"
  BY <1>1, <1>2, <1>5, <1>6, <1>7 DEF OffsetErrno, NumSize
<1> QED BY <1>3, <1>8

LEMMA LoopKnowsOffsets ==
  ASSUME Inv, pc = "loop"
  PROVE  /\ IsBuffer(buf) /\ HeaderFits /\ Items \in Nat /\ i \in 1..Items
         /\ \A k \in 1..(Items + 1) : Off(k) \in Nat
         /\ count = Items /\ Last = Off(i) /\ offsets # << >>
         /\ Len(checked) = IF shape.kind = "dynvec" THEN i - 1 ELSE 0
<1>1. InLoop /\ IsBuffer(buf) /\ HeaderFits
  BY DEF Inv, InLoop, TypeOK
<1>2. Items \in Nat /\ Items >= 1 /\ \A k \in 1..(Items + 1) : Off(k) \in Nat
  BY <1>1, OffsetsAreNumbers
<1>3. i \in 1..Items /\ Len(offsets) = i /\ \A k \in 1..i : offsets[k] = Off(k)
  BY <1>1 DEF InLoop
<1>4. Last = Off(i) /\ offsets # << >>
  BY <1>2, <1>3 DEF Last
<1>5. offsets[1] = Off(1) /\ Off(1) = Num(buf, NumSize)
  BY <1>2, <1>3 DEF Off, NumSize
<1>6. count = Items
  BY <1>5 DEF count, Items
<1>7. Len(checked) = IF shape.kind = "dynvec" THEN i - 1 ELSE 0
  BY <1>1 DEF InLoop, CheckedAre
<1> QED BY <1>1, <1>2, <1>3, <1>4, <1>6, <1>7

LEMMA NextOffsetFailsRightly == Inv /\ VerifyNextOffset => NoFalseAlarm'
<1> SUFFICES ASSUME Inv, VerifyNextOffset, pc' = "failed", errno' # "DATA" PROVE ~WellFormed
  BY DEF NoFalseAlarm, VerifyNextOffset, WellFormed, MayBeEmpty
<1>1. /\ IsBuffer(buf) /\ HeaderFits /\ Items \in Nat /\ i \in 1..Items /\ i < Items
      /\ Last = Off(i)
  BY LoopKnowsOffsets DEF VerifyNextOffset
<1>2. ptr = NumSize * i
  BY DEF Inv, InLoop, VerifyNextOffset
<1>3. Num(buf, ptr + NumSize) = Off(i + 1)
  <2>1. ptr + NumSize = NumSize * (i + 1) /\ i + 1 <= Items
    BY <1>1, <1>2 DEF NumSize
  <2> QED BY <2>1 DEF Off
<1>4. Last > Num(buf, ptr + NumSize)
  BY DEF VerifyNextOffset, Fail, Goto
<1>5. Off(i) > Off(i + 1)
  BY <1>1, <1>3, <1>4
<1> QED BY <1>1, <1>5, DisorderIsNotWellFormed

LEMMA EndFailsRightly == Inv /\ VerifyEnd => NoFalseAlarm'
<1> SUFFICES ASSUME Inv, VerifyEnd, pc' = "failed", offsets' = << >> \/ Len(checked') < count'
             PROVE  ~WellFormed
  BY DEF NoFalseAlarm, VerifyEnd, WellFormed, MayBeEmpty
<1>1. /\ IsBuffer(buf) /\ HeaderFits /\ Items \in Nat /\ i \in 1..Items
      /\ count = Items /\ Last = Off(i) /\ offsets # << >>
      /\ Len(checked) = IF shape.kind = "dynvec" THEN i - 1 ELSE 0
  BY LoopKnowsOffsets DEF VerifyEnd
<1>2. i = Items
  BY <1>1 DEF VerifyEnd
<1>3. Last > size
  <2> SUFFICES ASSUME shape.kind = "dynvec", checked' = Append(checked, Inner(Last, size)),
                      UNCHANGED offsets
               PROVE  FALSE
    BY DEF VerifyEnd, Fail, Goto
  <2>1. checked \in Seq([ptr : Nat, size : Nat])
    BY DEF Inv, TypeOK
  <2>2. Len(checked') = Items
    BY <1>1, <1>2, <2>1
  <2>3. offsets' = offsets /\ count' = count
    BY DEF count
  <2> QED BY <1>1, <2>2, <2>3
<1>4. Off(i + 1) = size
  BY <1>1, <1>2 DEF Off
<1>5. Off(i) > Off(i + 1)
  BY <1>1, <1>3, <1>4
<1> QED BY <1>1, <1>5, DisorderIsNotWellFormed

LEMMA NeverAFalseAlarm == Spec => []NoFalseAlarm
<1>1. Init => NoFalseAlarm
  BY DEF Init, NoFalseAlarm
<1>2. Inv /\ NoFalseAlarm /\ [Next]_vars => NoFalseAlarm'
  <2> SUFFICES ASSUME Inv, NoFalseAlarm, [Next]_vars PROVE NoFalseAlarm'
    OBVIOUS
  <2>1. CASE VerifyFixvec
    BY <2>1 DEF VerifyFixvec, NoFalseAlarm
  <2>2. CASE VerifySize \/ VerifyFirstOffset \/ VerifyNextOffset \/ VerifyEnd
    BY <2>2, SizeFailsRightly, FirstOffsetFailsRightly, NextOffsetFailsRightly, EndFailsRightly
  <2>3. CASE VerifyField \/ VerifyFieldsDone
    BY <2>3 DEF VerifyField, VerifyFieldsDone, NoFalseAlarm, Fail, Goto, Pass
  <2>4. CASE \E n \in 0..MaxIndex : GetFixvecItem(n) \/ GetDynvecItem(n)
    BY <2>4 DEF GetFixvecItem, GetDynvecItem, NoFalseAlarm
  <2>5. CASE UNCHANGED vars
    BY <2>5 DEF vars, NoFalseAlarm, WellFormed, MayBeEmpty, count
  <2> QED BY <2>1, <2>2, <2>3, <2>4, <2>5 DEF Next
<1> QED BY <1>1, <1>2, InvIsInvariant, PTL DEF Spec

(* A verifier gets past the head of a value if and only if its size and its  *)
(* offsets are well formed: it lets no other through, and it turns down no   *)
(* value that is, but for an item or field whose own verifier does.          *)
THEOREM VerifierAlwaysAgrees == Spec => []VerifierAgrees
<1>1. Inv /\ shape.kind # "fixvec" /\ pc \in {"fields", "verified"} => WellFormed
  <2> SUFFICES ASSUME Inv, shape.kind # "fixvec", pc \in {"fields", "verified"} PROVE WellFormed
    OBVIOUS
  <2>1. IsBuffer(buf) /\ shape \in Shapes /\ (InFields \/ Full \/ Empty)
    BY DEF Inv, TypeOK
  <2>2. CASE Empty
    <3>1. MayBeEmpty
      BY <2>1, <2>2, ShapesAssumption DEF Empty, MayBeEmpty
    <3> QED BY <2>2, <3>1 DEF Empty, WellFormed, NoItems, size
  <2>3. CASE InFields \/ Full
    BY <2>1, <2>3, OrderedIsWellFormed DEF InFields, Full
  <2> QED BY <2>1, <2>2, <2>3
<1>2. Inv /\ NoFalseAlarm => VerifierAgrees
  BY <1>1 DEF NoFalseAlarm, VerifierAgrees
<1> QED BY <1>2, InvIsInvariant, NeverAFalseAlarm, PTL
=============================================================================
