--------------------------- MODULE MoleculeBuilder --------------------------
(***************************************************************************)
(* molecule_builder.h and the _build functions of the generated headers: a *)
(* client gives a builder its fields or items, in any order and as often   *)
(* as it likes, and builds the value, which is then read back.             *)
(*                                                                         *)
(* A mol_builder_t is two blocks of memory.  `data' and `number' are what  *)
(* is used of them; data_cap and number_cap count bytes, as in the code.   *)
(***************************************************************************)
EXTENDS MoleculeTypes

CONSTANTS Schema,             \* the types by their names
          MolDefault(_),      \* the bytes of the default of a type,
          SizeOfDefault(_),   \* and the length of that array in the header
          Accepts(_, _, _),   \* the verifiers of the types of fields and items
          Values(_),          \* the bytes a client has for a field or item of a type
          Capacities,         \* initial capacities of vectors and tables
          MaxCalls            \* bound on the calls of the set, add and push functions

Octets == 0..(Byte - 1)
Zeros(n) == [k \in 1..n |-> 0]

(***************************************************************************)
(* The bound on sizes: no block needs more than half of what a mol_num_t   *)
(* counts.  Beyond that doubling a capacity wraps around, see              *)
(* BuilderMemory.                                                          *)
(***************************************************************************)
Counted(size) == size <= Word \div 2

(***************************************************************************)
(* The verifier of a type, which hands the parts on to those of their own  *)
(* types, and a value of a type: one that is accepted, kindly and strictly.*)
(* A whole one is none any more when it is cut or something is behind it.  *)
(***************************************************************************)
Verifier(type, buf, compatible) ==
  /\ HeadVerifies(type, buf, compatible)
  /\ LET parts == Parts(type, buf)
     IN  \A k \in DOMAIN parts : Accepts(parts[k].type, parts[k].bytes, compatible)

IsValue(type, bytes) ==
  bytes \in Seq(Octets) /\ \A compatible \in BOOLEAN : Accepts(type, bytes, compatible)

IsWhole(type, bytes) ==
  /\ \A n \in 0..(Len(bytes) - 1) : ~Accepts(type, SubSeq(bytes, 1, n), TRUE)
  /\ \A n \in 1..4 : ~Accepts(type, bytes \o Zeros(n), TRUE)

(***************************************************************************)
(* The types are those of headers: a struct's fields lie in it and do not  *)
(* overlap, the first block of a union has room for the default of its     *)
(* first item, and the sizes in the functions are those of the defaults.   *)
(***************************************************************************)
IsList(s) == Len(s) \in Nat /\ s = [k \in 1..Len(s) |-> s[k]]

HasDefault(type) ==
  IsValue(type, MolDefault(type)) /\ SizeOfDefault(type) = Len(MolDefault(type))

IsType(type) ==
  \/ /\ type.kind = "struct"
     /\ type.size \in Nat /\ Counted(type.size)
     /\ type.slices \in Seq([offset : Nat, length : Nat])
     /\ \A k \in DOMAIN type.slices :
          LET end == type.slices[k].offset + type.slices[k].length
          IN  /\ end <= type.size
              /\ \A j \in DOMAIN type.slices : k < j => end <= type.slices[j].offset
  \/ type.kind \in {"option", "dynvec"}
  \/ type.kind = "fixvec" /\ type.item \in Nat \ {0}
  \/ /\ type.kind = "union"
     /\ type.capacity \in Nat /\ Counted(type.capacity)
     /\ IsList(type.items) /\ Len(type.items) \in 1..(Word - 1)
     /\ HasDefault(type.items[1]) /\ IsWhole(type.items[1], MolDefault(type.items[1]))
     /\ NumSize + SizeOfDefault(type.items[1]) <= type.capacity
  \/ /\ type.kind = "table"
     /\ IsList(type.fields) /\ Counted(NumSize * (Len(type.fields) * 2))
     /\ \A k \in 1..Len(type.fields) : HasDefault(type.fields[k])

(***************************************************************************)
(* What a client has for the fields or items of a type are values of their *)
(* types.  Nothing at all is one only where it is the default.             *)
(***************************************************************************)
ClientHas(type) ==
  CASE type.kind = "struct" ->
         \A k \in DOMAIN type.slices : Values(Array(type.slices[k].length)) \subseteq Seq(Octets)
    [] type.kind = "fixvec" -> Values(Array(type.item)) \subseteq Seq(Octets)
    [] type.kind = "option" -> \A bytes \in Values(type) : bytes = << >> \/ IsValue(type.item, bytes)
    [] type.kind = "dynvec" -> \A bytes \in Values(type.item) : IsValue(type.item, bytes)
    [] type.kind = "union" ->
         \A k \in 1..Len(type.items) : \A bytes \in Values(type.items[k]) :
           IsValue(type.items[k], bytes) /\ IsWhole(type.items[k], bytes)
    [] type.kind = "table" ->
         \A k \in 1..Len(type.fields) : \A bytes \in Values(type.fields[k]) :
           /\ IsValue(type.fields[k], bytes)
           /\ bytes = << >> => MolDefault(type.fields[k]) = << >>

ASSUME SchemaAssumption == \A n \in DOMAIN Schema : IsType(Schema[n])
ASSUME ValuesAssumption == \A n \in DOMAIN Schema : ClientHas(Schema[n])
ASSUME CapacitiesAssumption ==
  \A capacity \in Capacities : capacity \in Nat \ {0} /\ Counted(capacity)
ASSUME MaxCallsAssumption == MaxCalls \in Nat

VARIABLES name,         \* the name of the type
          builder,
          calls,
          asked,        \* the contents the client asked for
          built         \* <<seg>>, the value that was built, or << >>

vars == <<name, builder, calls, asked, built>>

T == Schema[name]

Allocated(data, data_cap, number, number_cap) ==
  [data |-> data, data_cap |-> data_cap, number |-> number, number_cap |-> number_cap]

(***************************************************************************)
(* MolBuilder_T_init                                                       *)
(***************************************************************************)
Initialized(type, capacity) ==
  CASE type.kind = "struct" -> Allocated(Zeros(type.size), type.size, << >>, 0)
    [] type.kind = "option" -> Allocated(<< >>, 0, << >>, 0)
    [] type.kind = "union" -> Allocated(Pack(0) \o MolDefault(type.items[1]), type.capacity, << >>, 0)
    [] type.kind = "fixvec" -> Allocated(<< >>, capacity, <<0>>, NumSize)
    [] type.kind = "dynvec" -> Allocated(<< >>, capacity, << >>, capacity)
    [] type.kind = "table" -> LET n == Len(type.fields) * 2
                              IN  Allocated(<< >>, capacity, Zeros(n), NumSize * n)

(* A client that has not called yet asks for the defaults.                   *)
NothingAsked(type) ==
  CASE type.kind = "struct" -> [k \in DOMAIN type.slices |-> Zeros(type.slices[k].length)]
    [] type.kind \in {"option", "fixvec", "dynvec"} -> << >>
    [] type.kind = "union" -> <<Pack(0), MolDefault(type.items[1])>>
    [] type.kind = "table" -> [k \in 1..Len(type.fields) |-> MolDefault(type.fields[k])]

Init ==
  /\ name \in DOMAIN Schema
  /\ \E capacity \in Capacities : builder = Initialized(T, capacity)
  /\ calls = 0
  /\ asked = NothingAsked(T)
  /\ built = << >>

(***************************************************************************)
(* The loops that double a capacity until it is enough.                    *)
(***************************************************************************)
Grown(cap, needed) ==
  LET doubled[n \in 0..needed] == IF n = 0 THEN cap ELSE 2 * doubled[n - 1]
  IN  doubled[CHOOSE n \in 0..needed :
                doubled[n] >= needed /\ \A m \in 0..(n - 1) : doubled[m] < needed]

\* BUG: the loop ends one byte early.
StoreGrowsLate(b, bytes) ==
  [b EXCEPT !.data = @ \o bytes, !.data_cap = Grown(@, Len(b.data) + Len(bytes) - 1)]

Store(b, bytes) ==
  [b EXCEPT !.data = @ \o bytes, !.data_cap = Grown(@, Len(b.data) + Len(bytes))]

Call ==
  /\ built = << >>
  /\ calls < MaxCalls
  /\ calls' = calls + 1
  /\ UNCHANGED <<name, built>>

(***************************************************************************)
(* mol_builder_set_by_offset: MolBuilder_T_set_* of arrays and structs.    *)
(***************************************************************************)
Overwrite(data, slice, bytes) ==
  [k \in DOMAIN data |->
     IF k - slice.offset \in DOMAIN bytes THEN bytes[k - slice.offset] ELSE data[k]]

SetByOffset(k, bytes) ==
  /\ Call
  /\ T.kind = "struct"
  /\ Len(bytes) = T.slices[k].length
  /\ builder' = [builder EXCEPT !.data = Overwrite(@, T.slices[k], bytes)]
  /\ asked' = [asked EXCEPT ![k] = bytes]

(***************************************************************************)
(* mol_option_builder_set and mol_union_builder_set: the last one counts.  *)
(***************************************************************************)
SetTo(bytes) ==
  [builder EXCEPT !.data = bytes,
                  !.data_cap = IF bytes = << >> THEN 0 ELSE IF @ < Len(bytes) THEN Len(bytes) ELSE @]

OptionSet(bytes) ==
  /\ Call
  /\ T.kind = "option"
  /\ Counted(Len(bytes))
  /\ builder' = SetTo(bytes)
  /\ asked' = IF bytes = << >> THEN << >> ELSE <<bytes>>

UnionSet(item_id, bytes) ==
  /\ Call
  /\ T.kind = "union"
  /\ Counted(NumSize + Len(bytes))
  /\ builder' = SetTo(Pack(item_id) \o bytes)
  /\ asked' = <<Pack(item_id), bytes>>

(***************************************************************************)
(* mol_fixvec_builder_push and mol_dynvec_builder_push                     *)
(***************************************************************************)
FixvecPush(bytes) ==
  /\ Call
  /\ T.kind = "fixvec"
  /\ Len(bytes) = T.item
  /\ Counted(Len(builder.data) + Len(bytes))
  /\ builder' = [Store(builder, bytes) EXCEPT !.number[1] = (@ + 1) % Word]
  /\ asked' = Append(asked, bytes)

DynvecPush(bytes) ==
  /\ Call
  /\ T.kind = "dynvec"
  /\ Counted(Len(builder.data) + Len(bytes))
  /\ LET used == NumSize * Len(builder.number) IN
       /\ Counted(used + NumSize)
       /\ builder' = [Store(builder, bytes) EXCEPT
                        !.number = Append(@, Len(builder.data)),
                        !.number_cap = Grown(@, used + NumSize)]
  /\ asked' = Append(asked, bytes)

TableAdd(k, bytes) ==
  /\ Call
  /\ T.kind = "table"
  /\ Counted(Len(builder.data) + Len(bytes))
  /\ builder' = IF bytes = << >>
                THEN [builder EXCEPT !.number[2 * k - 1] = 0, !.number[2 * k] = 0]
                ELSE [Store(builder, bytes) EXCEPT !.number[2 * k - 1] = Len(builder.data),
                                                   !.number[2 * k] = Len(bytes)]
  /\ asked' = [asked EXCEPT ![k] = bytes]

(***************************************************************************)
(* MolBuilder_T_build.  A table writes its fields in the order of the type *)
(* and takes the default of one that was not added.                        *)
(***************************************************************************)
BuildFixvec == Pack(builder.number[1]) \o builder.data

BuildDynvec == Framed(builder.number, Len(builder.data), builder.data)

FieldAdded(k) == builder.number[2 * k] # 0
FieldSize(k) == IF FieldAdded(k) THEN builder.number[2 * k] ELSE SizeOfDefault(T.fields[k])
FieldBytes(k) ==
  IF FieldAdded(k) THEN BytesOf(builder.data, Segment(builder.number[2 * k - 1], builder.number[2 * k]))
  ELSE SubSeq(MolDefault(T.fields[k]), 1, SizeOfDefault(T.fields[k]))

\* BUG: the offsets are those of the order in which the fields were added.
BuildTableUnordered ==
  LET n == Len(T.fields)
      ends == Ends([k \in 1..n |-> FieldSize(k)])
      starts == [k \in 1..n |-> IF FieldAdded(k) THEN builder.number[2 * k - 1] ELSE ends[k - 1]]
  IN  Framed(starts, ends[n], FlattenSeq([k \in 1..n |-> FieldBytes(k)]))

BuildTable ==
  LET n == Len(T.fields)
      lengths == [k \in 1..n |-> FieldSize(k)]
  IN  Framed(Starts(lengths), Ends(lengths)[n], FlattenSeq([k \in 1..n |-> FieldBytes(k)]))

Built ==
  CASE T.kind \in {"struct", "option", "union"} -> builder.data
    [] T.kind = "fixvec" -> BuildFixvec
    [] T.kind = "dynvec" -> BuildDynvec
    [] T.kind = "table" -> BuildTable

Build ==
  /\ built = << >>
  /\ Len(Built) < Word
  /\ built' = <<Built>>
  /\ UNCHANGED <<name, builder, calls, asked>>

Next ==
  \/ T.kind = "struct" /\ \E k \in DOMAIN T.slices :
       \E bytes \in Values(Array(T.slices[k].length)) : SetByOffset(k, bytes)
  \/ T.kind = "option" /\ \E bytes \in Values(T) : OptionSet(bytes)
  \/ T.kind = "union" /\ \E k \in DOMAIN T.items :
       \E bytes \in Values(T.items[k]) : UnionSet(k - 1, bytes)
  \/ T.kind = "fixvec" /\ \E bytes \in Values(Array(T.item)) : FixvecPush(bytes)
  \/ T.kind = "dynvec" /\ \E bytes \in Values(T.item) : DynvecPush(bytes)
  \/ T.kind = "table" /\ \E k \in DOMAIN T.fields :
       \E bytes \in Values(T.fields[k]) : TableAdd(k, bytes)
  \/ Build

Spec == Init /\ [][Next]_vars

-----------------------------------------------------------------------------
(* The variables have the values the declarations promise.                   *)
TypeOK ==
  /\ name \in DOMAIN Schema
  /\ builder.data \in Seq(Octets)
  /\ builder.number \in Seq(0..(Word - 1))
  /\ builder.data_cap \in 0..(Word - 1)
  /\ builder.number_cap \in 0..(Word - 1)
  /\ calls \in 0..MaxCalls
  /\ asked \in Seq(Seq(Octets))
  /\ built \in Seq(Seq(Octets)) /\ Len(built) <= 1

(* Nothing is ever written behind the end of an allocated block.             *)
UsedIsAllocated ==
  /\ TypeOK
  /\ Len(builder.data) <= builder.data_cap
  /\ NumSize * Len(builder.number) <= builder.number_cap

(* Whatever the calls and their order, the value has the fields and items    *)
(* that were asked for last and the default of every other field, and the    *)
(* verifiers accept it, the strict one as well as the one that is kinder to  *)
(* unknown fields.                                                           *)
ReadsBack ==
  built # << >> => /\ Contents(T, built[1]) = asked
                   /\ \A compatible \in BOOLEAN : Verifier(T, built[1], compatible)

(* A value that a newer node wrote with more fields (BlockV1, CompactBlockV1)*)
(* is read by the older type with the same contents if compatible fields are *)
(* accepted, as the parsers do, and rejected otherwise.                      *)
Extends(newer, older) ==
  /\ newer.kind = "table" /\ older.kind = "table"
  /\ older.fields # << >>
  /\ Len(older.fields) < Len(newer.fields)
  /\ older.fields = SubSeq(newer.fields, 1, Len(older.fields))

OlderTypeReads ==
  built # << >> =>
    \A n \in DOMAIN Schema : Extends(T, Schema[n]) =>
      /\ Verifier(Schema[n], built[1], TRUE)
      /\ ~Verifier(Schema[n], built[1], FALSE)
      /\ Contents(Schema[n], built[1]) = SubSeq(asked, 1, Len(Schema[n].fields))

(* The other way round, a value of the older type is not taken for one of    *)
(* the newer, whose getters would return fields that are not there.          *)
NewerTypeRejects ==
  built # << >> =>
    \A n \in DOMAIN Schema : Extends(Schema[n], T) => ~Verifier(Schema[n], built[1], TRUE)

(* The two versions of a type that grew a field can be used side by side.    *)
VersionsInterwork == OlderTypeReads /\ NewerTypeRejects

(* A value that lost its end, or has something behind it, is no value of its *)
(* type: only an option, which is never stored by itself, may be cut to      *)
(* nothing.                                                                  *)
Cuts(bytes) == (0..8 \cup (Len(bytes) - 8)..(Len(bytes) - 1)) \cap 0..(Len(bytes) - 1)

CutOrLongerIsRejected ==
  built # << >> /\ T.kind # "option" =>
    /\ \A n \in Cuts(built[1]) : ~Verifier(T, SubSeq(built[1], 1, n), TRUE)
    /\ \A n \in 1..4 : ~Verifier(T, built[1] \o Zeros(n), TRUE)
=============================================================================
