----------------------------- MODULE JsonParsers -----------------------------
(***************************************************************************)
(* molecule/blockchain.cpp: the 25 ParseFromByte functions and             *)
(* ParseFromByteWithHash, each of which verifies a value and puts what its *)
(* getters return into the JSON document of its object.                    *)
(*                                                                         *)
(* A parser is a record that says what it verifies and which members it    *)
(* sets; Parse is what all of them do with it.  Text stands for the hex    *)
(* digits of bytes, Number for an unsigned number, Decimal for one that is *)
(* shown as a string; numbers are the digits that are not leading zeros.   *)
(***************************************************************************)
EXTENDS BlockchainTypes, ExtensionTypes

Schema == BlockchainSchema @@ ExtensionSchema

(***************************************************************************)
(* nlohmann::json: operator[] makes an object of a null, push_back an      *)
(* array, and clear() leaves the kind of value as it is.                   *)
(***************************************************************************)
Null == [kind |-> "null"]
Text(bytes) == [kind |-> "text", bytes |-> bytes]
List(items) == [kind |-> "array", items |-> items]
Object(members) == [kind |-> "object", members |-> members]

Significant(bytes) ==
  LET nonzero == {k \in DOMAIN bytes : bytes[k] # 0}
  IN  IF nonzero = {} THEN << >> ELSE SubSeq(bytes, 1, Max(nonzero))
Number(bytes) == [kind |-> "number", digits |-> Significant(bytes)]
Decimal(bytes) == [kind |-> "decimal", digits |-> Significant(bytes)]

Members(json) == IF json = Null THEN << >> ELSE json.members
With(json, name, value) == Object((name :> value) @@ Members(json))
Member(json, name) == IF name \in DOMAIN Members(json) THEN Members(json)[name] ELSE Null
PushBack(json, value) == List(Append(IF json = Null THEN << >> ELSE json.items, value))

\* BUG: the document keeps the members it had.
ClearNothing(json) == json

Clear(json) == CASE json.kind = "array" -> List(<< >>)
                 [] json.kind = "object" -> Object(<< >>)
                 [] OTHER -> json

-----------------------------------------------------------------------------
(***************************************************************************)
(* What a parser does with a field: it is shown, or parsed by an object of *)
(* its own.  One that is `optional' is left out when it has no bytes, one  *)
(* that is `lenient' when its parser rejects it, and the items of one that *)
(* is `pushed' are appended to the member.                                 *)
(***************************************************************************)
Shown(name, field, how) == [name |-> name, field |-> field, how |-> how, mode |-> "set"]
Nested(name, field, parser) == Shown(name, field, parser)
Optional(member) == [member EXCEPT !.mode = "optional"]
Lenient(member) == [member EXCEPT !.mode = "lenient"]
Pushed(member) == [member EXCEPT !.mode = "pushed"]

Verified(type, members) ==
  [form |-> "object", type |-> type, compatible |-> TRUE, members |-> members]
Strictly(parser) == [parser EXCEPT !.compatible = FALSE]
Items(type, how, into) == [form |-> "items", type |-> type, how |-> how, into |-> into]
View(words, positions, slices, start, body) ==
  [form |-> "view", words |-> words, positions |-> positions, slices |-> slices,
   start |-> start, body |-> body]
NoName == ""

BytesVecParser == Items("BytesVec", "text", NoName)
Byte32VecParser == Items("Byte32Vec", "text", NoName)
ProposalShortIdVecParser == Items("ProposalShortIdVec", "text", NoName)
CellInputVecParser == Items("CellInputVec", "CellInput", NoName)
CellOutputVecParser == Items("CellOutputVec", "CellOutput", NoName)
CellDepVecParser == Items("CellDepVec", "CellDep", NoName)

\* BUG: unknown fields are accepted in a script as elsewhere.
ScriptParserLenient ==
  Verified("Script", <<Shown("code_hash", 1, "text"), Shown("hash_type", 2, "number"),
                       Shown("args", 1, "text")>>)

(* The arguments are shown from `bytes', which still holds the code hash.    *)
ScriptParser ==
  Strictly(Verified("Script", <<Shown("code_hash", 1, "text"), Shown("hash_type", 2, "number"),
                                Shown("args", 1, "text")>>))
OutPointParser ==
  Verified("OutPoint", <<Shown("tx_hash", 1, "text"), Shown("index", 2, "number")>>)
CellInputParser ==
  Verified("CellInput", <<Shown("since", 1, "number"),
                          Optional(Nested("previous_output", 2, "OutPoint"))>>)

CellOutputParser ==
  Verified("CellOutput", <<Shown("capacity", 1, "number"), Optional(Nested("lock", 2, "Script")),
                           Optional(Nested("type_", 3, "Script"))>>)
CellDepParser ==
  Verified("CellDep", <<Lenient(Nested("out_point", 1, "OutPoint")),
                        Shown("dep_type", 2, "number")>>)
RawTransactionParser ==
  Verified("RawTransaction",
    <<Shown("version", 1, "number"), Nested("cell_deps", 2, "CellDepVec"),
      Nested("header_deps", 3, "Byte32Vec"), Nested("inputs", 4, "CellInputVec"),
      Nested("outputs", 5, "CellOutputVec"), Nested("outputs_data", 6, "BytesVec")>>)

TransactionParser ==
  View(5, << >>, <<[name |-> "hash", from |-> 2, to |-> 3],
                   [name |-> "witnesses", from |-> 3, to |-> 4]>>, 4,
       Verified("Transaction", <<Nested("raw", 1, "RawTransaction")>>))

RawHeaderParser ==
  Verified("RawHeader",
    <<Shown("version", 1, "number"), Shown("compact_target", 2, "number"),
      Shown("timestamp", 3, "number"), Shown("number", 4, "number"),
      Shown("epoch", 5, "number"), Shown("parent_hash", 6, "text"),
      Shown("transactions_root", 7, "text"), Shown("proposals_hash", 8, "text"),
      Shown("extra_hash", 9, "text"), Shown("dao", 10, "text")>>)
HeaderParser ==
  Verified("Header", <<Nested("raw", 1, "RawHeader"), Shown("nonce", 2, "decimal")>>)

(* Column 1 holds the hash and the header one after the other.               *)
HeaderWithHashParser ==
  View(0, <<0, 32>>, <<[name |-> "hash", from |-> 1, to |-> 2]>>, 2, HeaderParser)

UncleBlockParser ==
  Verified("UncleBlock", <<Nested("header", 1, "Header"),
                           Nested("proposals", 2, "ProposalShortIdVec")>>)

(* Column 3: the hashes of the uncles, and the uncles.                       *)
UncleBlockVecParser ==
  View(4, << >>, <<[name |-> "hash", from |-> 2, to |-> 3]>>, 3,
       Items("UncleBlockVec", "UncleBlock", "data"))

TransactionKeyParser ==
  Verified("TransactionKey", <<Shown("block_hash", 1, "text"), Shown("index", 2, "swapped")>>)

(* The epoch is copied to the block number, which has been shown already.    *)
TransactionInfoParser ==
  Verified("TransactionInfo",
    <<Shown("block_number", 1, "number"), Shown("block_epoch", 2, "zero"),
      Nested("key", 3, "TransactionKey")>>)
BlockExtParser ==
  Verified("BlockExt",
    <<Shown("total_difficulty", 1, "text"), Shown("total_uncles_count", 2, "number"),
      Shown("received_at", 3, "number"), Pushed(Shown("txs_fees", 4, "number")),
      Optional(Shown("verified", 5, "text"))>>)
EpochExtParser ==
  Verified("EpochExt",
    <<Shown("previous_epoch_hash_rate", 1, "text"),
      Shown("last_block_hash_in_previous_epoch", 2, "text"),
      Shown("compact_target", 3, "number"), Shown("number", 4, "number"),
      Shown("base_block_reward", 5, "number"), Shown("remainder_reward", 6, "number"),
      Shown("start_number", 7, "number"), Shown("length", 8, "number")>>)

CellEntryParser ==
  Verified("CellEntry",
    <<Nested("output", 1, "CellOutput"), Shown("block_hash", 2, "text"),
      Shown("number", 3, "number"), Shown("block_epoch", 4, "number"),
      Shown("index", 5, "number"), Shown("data_size", 6, "number")>>)
CellDataEntryParser ==
  Verified("CellDataEntry", <<Shown("output_data", 1, "text"),
                              Shown("output_data_hash", 2, "text")>>)
HeaderViewParser ==
  Verified("HeaderView", <<Shown("hash", 1, "text"), Nested("data", 2, "Header")>>)

Parsers ==
  [BytesVec |-> BytesVecParser, Byte32Vec |-> Byte32VecParser, Script |-> ScriptParser,
   OutPoint |-> OutPointParser, CellInput |-> CellInputParser,
   CellInputVec |-> CellInputVecParser, CellOutput |-> CellOutputParser,
   CellOutputVec |-> CellOutputVecParser, CellDep |-> CellDepParser,
   CellDepVec |-> CellDepVecParser, RawTransaction |-> RawTransactionParser,
   Transaction |-> TransactionParser, RawHeader |-> RawHeaderParser, Header |-> HeaderParser,
   HeaderWithHash |-> HeaderWithHashParser, ProposalShortIdVec |-> ProposalShortIdVecParser,
   UncleBlock |-> UncleBlockParser, UncleBlockVec |-> UncleBlockVecParser,
   TransactionKey |-> TransactionKeyParser, TransactionInfo |-> TransactionInfoParser,
   BlockExt |-> BlockExtParser, EpochExt |-> EpochExtParser, CellEntry |-> CellEntryParser,
   CellDataEntry |-> CellDataEntryParser, HeaderView |-> HeaderViewParser]

-----------------------------------------------------------------------------
(***************************************************************************)
(* A call of a parser leaves a verdict and a document behind.  "undefined" *)
(* is what becomes of a view whose offsets lead out of the value.          *)
(***************************************************************************)
Result(verdict, json) == [verdict |-> verdict, json |-> json]

Conversions == {"text", "number", "swapped", "decimal", "zero"}
Converted(how, bytes) ==
  CASE how = "text" -> Text(bytes)
    [] how = "number" -> Number(bytes)
    [] how = "swapped" -> Number(Reverse(bytes))
    [] how = "decimal" -> Decimal(bytes)
    [] how = "zero" -> Number(<< >>)

(* The head of a view: the numbers the value begins with, or fixed places.   *)
Positions(P, buf) ==
  IF P.words = 0 THEN P.positions ELSE [k \in 1..P.words |-> Num(buf, NumSize * (k - 1))]

InBounds(P, buf) ==
  LET at == Positions(P, buf)
  IN  /\ NumSize * P.words <= Len(buf)
      /\ \A k \in DOMAIN P.slices : at[P.slices[k].from] <= at[P.slices[k].to]
                                      /\ at[P.slices[k].to] <= Len(buf)
      /\ at[P.start] <= Len(buf)

RECURSIVE Parse(_, _, _), Convert(_, _, _)

(* A field by itself; `json' is the document of the object that parses it,   *)
(* declared on the spot or, in the loops over items, used again.             *)
Convert(how, json, bytes) ==
  IF how \in Conversions THEN Result("accepted", Converted(how, bytes)) ELSE Parse(how, json, bytes)

\* BUG: the object that parses the items is not cleared between two of them.
ParseItemsUncleared(P, json, buf) ==
  LET push(s, bytes) ==
        LET r == Convert(P.how, s.item, bytes)
        IN  IF s.verdict # "accepted" THEN s
            ELSE IF r.verdict # "accepted" THEN [s EXCEPT !.verdict = r.verdict]
            ELSE [s EXCEPT !.item = r.json,
                           !.json = IF P.into = NoName THEN PushBack(@, r.json)
                                    ELSE With(@, P.into, PushBack(Member(@, P.into), r.json))]
      s == FoldLeft(push, [verdict |-> "accepted", json |-> json, item |-> Null],
                    Contents(Schema[P.type], buf))
  IN  IF ~Verifies(Schema[P.type], buf, TRUE) THEN Result("rejected", Clear(json))
      ELSE Result(s.verdict, s.json)

ParseItems(P, json, buf) ==
  LET push(s, bytes) ==
        LET r == Convert(P.how, Clear(s.item), bytes)
        IN  IF s.verdict # "accepted" THEN s
            ELSE IF r.verdict # "accepted" THEN [s EXCEPT !.verdict = r.verdict]
            ELSE [s EXCEPT !.item = r.json,
                           !.json = IF P.into = NoName THEN PushBack(@, r.json)
                                    ELSE With(@, P.into, PushBack(Member(@, P.into), r.json))]
      s == FoldLeft(push, [verdict |-> "accepted", json |-> json, item |-> Null],
                    Contents(Schema[P.type], buf))
  IN  IF ~Verifies(Schema[P.type], buf, TRUE) THEN Result("rejected", Clear(json))
      ELSE Result(s.verdict, s.json)

SetMember(json, m, bytes) ==
  LET r == Convert(m.how, Null, bytes)
  IN  CASE m.mode = "optional" /\ bytes = << >> -> Result("accepted", json)
        [] m.mode = "pushed" ->
             LET push(j, x) == With(j, m.name, PushBack(Member(j, m.name), Converted(m.how, x)))
             IN  Result("accepted", FoldLeft(push, json, Contents(Uint64Vec, bytes)))
        [] r.verdict = "accepted" -> Result("accepted", With(json, m.name, r.json))
        [] r.verdict # "accepted" /\ m.mode = "lenient" -> Result("accepted", json)
        [] OTHER -> Result(r.verdict, json)

ParseObject(P, json, buf) ==
  LET set(s, m) == IF s.verdict # "accepted" THEN s
                   ELSE SetMember(s.json, m, Contents(Schema[P.type], buf)[m.field])
  IN  IF ~Verifies(Schema[P.type], buf, P.compatible) THEN Result("rejected", Clear(json))
      ELSE FoldLeft(set, Result("accepted", json), P.members)

ParseBody(P, json, buf) ==
  IF P.form = "items" THEN ParseItems(P, json, buf) ELSE ParseObject(P, json, buf)

(* The slices of the head are shown before anything is verified.             *)
ParseView(P, json, buf) ==
  LET at == Positions(P, buf)
      set(j, s) == With(j, s.name, Text(SubSeq(buf, at[s.from] + 1, at[s.to])))
  IN  IF ~InBounds(P, buf) THEN Result("undefined", Null)
      ELSE ParseBody(P.body, FoldLeft(set, json, P.slices), From(buf, at[P.start]))

Parse(name, json, buf) ==
  CASE buf = << >> -> Result("rejected", json)
    [] buf # << >> /\ Parsers[name].form = "view" -> ParseView(Parsers[name], json, buf)
    [] OTHER -> ParseBody(Parsers[name], json, buf)
=============================================================================
