--------------------------- MODULE MCParserObject ----------------------------
(***************************************************************************)
(* Every class, with stored values of this version and of one in which a   *)
(* table has a field more, and with values that were cut or are longer.    *)
(***************************************************************************)
EXTENDS ParserObject

Counting(n, from) == [k \in 1..n |-> ((k + from) % 150) + 1]

(* Values that differ in every byte and, next to each other in a vector, in  *)
(* which options they have.                                                  *)
RECURSIVE Sample(_, _)
Sample(type, from) ==
  CASE type.kind = "struct" -> Counting(type.size, from)
    [] type.kind = "fixvec" -> Pack(2) \o Counting(2 * type.item, from)
    [] type.kind = "option" -> IF from % 2 = 0 THEN << >> ELSE Sample(type.item, from)
    [] type.kind = "dynvec" -> Assembled(<<Sample(type.item, from), Sample(type.item, from + 1)>>)
    [] type.kind = "table" ->
         Assembled([k \in DOMAIN type.fields |-> Sample(type.fields[k], from + k)])

(* One table, at any depth, has a field more than its type.                 *)
RECURSIVE Newer(_)
Newer(type) ==
  CASE type.kind = "table" ->
         LET fields == [k \in DOMAIN type.fields |-> Sample(type.fields[k], k)]
         IN  {Assembled(Append(fields, more)) : more \in {<< >>, <<9>>}}
               \cup UNION {{Assembled([fields EXCEPT ![k] = newer]) : newer \in Newer(type.fields[k])} :
                             k \in DOMAIN fields}
    [] type.kind = "dynvec" -> {Assembled(<<newer>>) : newer \in Newer(type.item)}
    [] type.kind = "option" -> Newer(type.item)
    [] OTHER -> {}

MCStored ==
  [c \in DOMAIN Parsers |->
     LET type == Schema[TypeOf(c)]
         sample == Sample(type, 0)
     IN  {Default(type), sample, Sample(type, 5), << >>, SubSeq(sample, 1, Len(sample) - 1),
          Append(sample, 1), SubSeq(sample, 1, 10)} \cup Newer(type)]

MCValues(c) == MCStored[c]
=============================================================================
