---------------------------- MODULE MCColumnScan -----------------------------
(***************************************************************************)
(* Columns of up to two rows.  Next to two values that differ in every     *)
(* byte there are an empty one, one that lost its last byte, and for cells *)
(* one with a type script and one whose lock script is of a newer version. *)
(***************************************************************************)
EXTENDS ColumnScan, JsonParsers

RECURSIVE Sample(_, _)
Sample(type, from) ==
  CASE type.kind = "struct" -> [k \in 1..type.size |-> ((k + from) % 150) + 1]
    [] type.kind = "fixvec" -> Pack(2) \o [k \in 1..(2 * type.item) |-> from]
    [] type.kind = "option" -> IF from % 2 = 0 THEN << >> ELSE Sample(type.item, from)
    [] type.kind = "table" -> Assembled(Each(LAMBDA field : Sample(field, from), type.fields))

NewerOutput ==
  Assembled(<<Sample(Uint64, 1), Assembled(<<Sample(Byte32, 1), <<1>>, Pack(0), <<9>>>>), << >>>>)

MCRowValues(class) ==
  LET type == Schema[class]
      sample == Sample(type, 1)
  IN  {sample, Sample(type, 2), << >>, SubSeq(sample, 1, Len(sample) - 1)}
        \cup IF class = "CellEntry"
               THEN {Assembled([Contents(type, sample) EXCEPT ![1] = NewerOutput])} ELSE {}

MCParseFromByte(class, before, buf) == Parse(class, before, buf)
MCEmpty == << >>
MCFamilies(column) == {<<column>>, <<"default">>, <<"default", column>>}
MCColumnFamilies == {"default", "9", "10", "11", "12"}
=============================================================================
