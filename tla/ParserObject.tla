---------------------------- MODULE ParserObject ----------------------------
(***************************************************************************)
(* blockchain.h: an object of one of the classes, and the calls a caller   *)
(* may make on it in any order.  The document is a member of the object:   *)
(* it lives on between two calls, and only Clear and a failed verification *)
(* empty it.                                                               *)
(*                                                                         *)
(* What a document should say is written down from the .mol files, by the  *)
(* names and types of their fields.  Where the parsers show something else *)
(* this is said at the place.                                              *)
(***************************************************************************)
EXTENDS JsonParsers

CONSTANTS
  Values(_),    \* the values a caller may hand to an object of a class
  MaxCalls      \* the bound on the calls of one object

VARIABLES
  class,        \* the class of the object
  json,         \* its document
  value,        \* the value of the last call of ParseFromByte,
  verdict,      \* what the call returned, "none" after Clear
  before,       \* and the document it found
  calls

vars == <<class, json, value, verdict, before, calls>>

Init ==
  /\ class \in DOMAIN Parsers
  /\ json = Null
  /\ value = << >>
  /\ verdict = "none"
  /\ before = Null
  /\ calls = 0

ClearDocument ==
  /\ verdict \notin {"none", "undefined"}
  /\ calls < MaxCalls
  /\ json' = Clear(json)
  /\ verdict' = "none"
  /\ calls' = calls + 1
  /\ UNCHANGED <<class, value, before>>

ParseFromByte(bytes) ==
  /\ verdict # "undefined"
  /\ calls < MaxCalls
  /\ LET result == Parse(class, json, bytes)
     IN  json' = result.json /\ verdict' = result.verdict
  /\ value' = bytes
  /\ before' = json
  /\ calls' = calls + 1
  /\ UNCHANGED class

Next == ClearDocument \/ \E bytes \in Values(class) : ParseFromByte(bytes)
Spec == Init /\ [][Next]_vars

-----------------------------------------------------------------------------
(***************************************************************************)
(* The fields of the .mol files, of which the parsers rename one: number   *)
(* of a CellEntry is block_number in extensions.mol.  Three classes read   *)
(* what the node stores as a view, and put its fields and those of the     *)
(* data in it side by side.                                                *)
(***************************************************************************)
TypeOf(c) == CASE c = "Transaction" -> "TransactionView"
               [] c = "UncleBlockVec" -> "UncleBlockVecView"
               [] c = "HeaderWithHash" -> "HeaderView"
               [] OTHER -> c
Views == {"Transaction", "UncleBlockVec", "HeaderWithHash"}

Fields ==
  [Script |-> <<<<"code_hash", "Byte32">>, <<"hash_type", "byte">>, <<"args", "Bytes">>>>,
   OutPoint |-> <<<<"tx_hash", "Byte32">>, <<"index", "Uint32">>>>,
   CellInput |-> <<<<"since", "Uint64">>, <<"previous_output", "OutPoint">>>>,
   CellOutput |-> <<<<"capacity", "Uint64">>, <<"lock", "Script">>, <<"type_", "ScriptOpt">>>>,
   CellDep |-> <<<<"out_point", "OutPoint">>, <<"dep_type", "byte">>>>,
   RawTransaction |->
     <<<<"version", "Uint32">>, <<"cell_deps", "CellDepVec">>, <<"header_deps", "Byte32Vec">>,
       <<"inputs", "CellInputVec">>, <<"outputs", "CellOutputVec">>,
       <<"outputs_data", "BytesVec">>>>,
   RawHeader |->
     <<<<"version", "Uint32">>, <<"compact_target", "Uint32">>, <<"timestamp", "Uint64">>,
       <<"number", "Uint64">>, <<"epoch", "Uint64">>, <<"parent_hash", "Byte32">>,
       <<"transactions_root", "Byte32">>, <<"proposals_hash", "Byte32">>,
       <<"extra_hash", "Byte32">>, <<"dao", "Byte32">>>>,
   Header |-> <<<<"raw", "RawHeader">>, <<"nonce", "Uint128">>>>,
   UncleBlock |-> <<<<"header", "Header">>, <<"proposals", "ProposalShortIdVec">>>>,
   HeaderView |-> <<<<"hash", "Byte32">>, <<"data", "Header">>>>,
   BlockExt |->
     <<<<"total_difficulty", "Uint256">>, <<"total_uncles_count", "Uint64">>,
       <<"received_at", "Uint64">>, <<"txs_fees", "Uint64Vec">>, <<"verified", "BoolOpt">>>>,
   EpochExt |->
     <<<<"previous_epoch_hash_rate", "Uint256">>,
       <<"last_block_hash_in_previous_epoch", "Byte32">>, <<"compact_target", "Uint32">>,
       <<"number", "Uint64">>, <<"base_block_reward", "Uint64">>,
       <<"remainder_reward", "Uint64">>, <<"start_number", "Uint64">>, <<"length", "Uint64">>>>,
   TransactionKey |-> <<<<"block_hash", "Byte32">>, <<"index", "BeUint32">>>>,
   TransactionInfo |-> <<<<"block_number", "Uint64">>, <<"block_epoch", "Uint64">>,
                         <<"key", "TransactionKey">>>>,
   CellEntry |->
     <<<<"output", "CellOutput">>, <<"block_hash", "Byte32">>, <<"number", "Uint64">>,
       <<"block_epoch", "Uint64">>, <<"index", "Uint32">>, <<"data_size", "Uint64">>>>,
   CellDataEntry |-> <<<<"output_data", "Bytes">>, <<"output_data_hash", "Byte32">>>>]

ItemType ==
  [BytesVec |-> "Bytes", Byte32Vec |-> "Byte32", ProposalShortIdVec |-> "ProposalShortId",
   CellDepVec |-> "CellDep", CellInputVec |-> "CellInput", CellOutputVec |-> "CellOutput",
   UncleBlockVec |-> "UncleBlock", Uint64Vec |-> "Uint64"]
OptionType == [ScriptOpt |-> "Script", BoolOpt |-> "Bool"]

Names(type) == {Fields[type][k][1] : k \in DOMAIN Fields[type]}
Empty(j) == j \in {Null, List(<< >>), Object(<< >>)}

(***************************************************************************)
(* A document shows the bytes of a value.  Numbers are little-endian, but  *)
(* for BeUint32; the bytes of the other basic types are shown as they are  *)
(* stored, those of Bytes with their length.                               *)
(*                                                                         *)
(* Three members do not show their field, and nothing is said of what they *)
(* show: the args of a script, which are its code hash once more           *)
(* (blockchain.cpp:108), the block_epoch of a TransactionInfo, which is 0  *)
(* for every value (blockchain.cpp:771-773), and the witnesses of a        *)
(* transaction, which are the view's witness_hash (blockchain.cpp:443).    *)
(***************************************************************************)
Wrong == {<<"Script", "args">>, <<"TransactionInfo", "block_epoch">>}

RECURSIVE Shows(_, _, _)
Shows(j, type, bytes) ==
  CASE type \in {"byte", "Uint32", "Uint64"} -> j = Number(bytes)
    [] type = "BeUint32" -> j = Number(Reverse(bytes))
    [] type = "Uint128" -> j = Decimal(bytes)
    [] type \in {"Byte32", "Uint256", "Bytes", "ProposalShortId", "Bool"} -> j = Text(bytes)
    [] type \in DOMAIN OptionType ->
         IF bytes = << >> THEN j = Null ELSE Shows(j, OptionType[type], bytes)
    [] type \in DOMAIN ItemType ->
         LET items == Contents(Schema[type], bytes)
         IN  \/ items = << >> /\ Empty(j)
             \/ /\ j.kind = "array"
                /\ Len(j.items) = Len(items)
                /\ \A k \in DOMAIN items : Shows(j.items[k], ItemType[type], items[k])
    [] type \in DOMAIN Fields ->
         LET parts == Contents(Schema[type], bytes)
         IN  /\ j.kind = "object"
             /\ DOMAIN j.members \subseteq Names(type)
             /\ \A k \in DOMAIN parts :
                  LET name == Fields[type][k][1]
                  IN  <<type, name>> \in Wrong \/ Shows(Member(j, name), Fields[type][k][2], parts[k])

(***************************************************************************)
(* A view in extensions.mol is what the node computed beforehand and, as   *)
(* its last field, the data.  `hash' is the view's hash, or for uncles its *)
(* vector of hashes, shown as it is stored.  A transaction has a member    *)
(* `witnesses', of which nothing is said: it is not what the .mol files    *)
(* call so.                                                                *)
(***************************************************************************)
ShowsView(j, c, bytes) ==
  LET parts == Contents(Schema[TypeOf(c)], bytes)
  IN  /\ j.kind = "object"
      /\ Member(j, "hash") = Text(parts[1])
      /\ CASE c = "Transaction" ->
                /\ DOMAIN j.members = {"hash", "witnesses", "raw"}
                /\ Shows(Member(j, "raw"), "RawTransaction", Contents(Transaction, parts[3])[1])
           [] c = "UncleBlockVec" ->
                /\ DOMAIN j.members \subseteq {"hash", "data"}
                /\ Shows(Member(j, "data"), "UncleBlockVec", parts[2])
           [] c = "HeaderWithHash" ->
                Shows(Object([m \in DOMAIN j.members \ {"hash"} |-> j.members[m]]),
                      "Header", parts[2])

(***************************************************************************)
(* The scripts inside a value have no field this version does not know.    *)
(***************************************************************************)
RECURSIVE ScriptsKnown(_, _)
ScriptsKnown(T, bytes) ==
  CASE T = Script -> Verifies(T, bytes, FALSE)
    [] T.kind = "table" /\ T # Script ->
         \A k \in DOMAIN T.fields : ScriptsKnown(T.fields[k], Contents(T, bytes)[k])
    [] T.kind = "dynvec" -> \A k \in DOMAIN Contents(T, bytes) :
                              ScriptsKnown(T.item, Contents(T, bytes)[k])
    [] T.kind = "option" -> bytes = << >> \/ ScriptsKnown(T.item, bytes)
    [] OTHER -> TRUE

Stored(c, bytes) == bytes # << >> /\ Verifies(Schema[TypeOf(c)], bytes, TRUE)
NewerView(c, bytes) ==
  /\ c \in Views /\ Schema[TypeOf(c)].kind = "table"
  /\ LET known == Len(Schema[TypeOf(c)].fields)
     IN  Count(bytes) > known /\ Offset(bytes, known + 1) < Len(bytes)

-----------------------------------------------------------------------------
JsonKinds == {"null", "text", "array", "object", "number", "decimal"}

(* The variables have the values the declarations promise.                   *)
TypeOK ==
  /\ class \in DOMAIN Parsers
  /\ json.kind \in {"null", "array", "object"}
  /\ json.kind = "array" => Parsers[class].form = "items"
  /\ json.kind = "object" => Parsers[class].form # "items"
  /\ verdict \in {"none", "accepted", "rejected", "undefined"}
  /\ value \in Values(class) \cup {<< >>}
  /\ calls \in 0..MaxCalls

(* A stored value is accepted, also one of a version with more fields, but   *)
(* for a script that has more or a view with bytes in them.  Apart from the  *)
(* head of a view, which is used before anything is verified, nothing else   *)
(* is accepted; and on a value the node stored even that head leads nowhere  *)
(* outside the value.                                                        *)
AcceptsKnownVersions ==
  /\ TypeOK
  /\ Stored(class, value) /\ verdict # "none" =>
       /\ verdict # "undefined"
       /\ verdict = "accepted" <=> /\ ScriptsKnown(Schema[TypeOf(class)], value)
                                   /\ ~NewerView(class, value)
  /\ verdict = "accepted" /\ class \notin Views => Stored(class, value)

(* The document of an accepted value shows the value and nothing else, if    *)
(* it was empty before: each field under its name, but for the three members *)
(* that contradict the .mol files (see Wrong and ShowsView).  The scanners   *)
(* of main.cpp do without Clear, and do so rightly: their four classes set   *)
(* the same members for every value.                                         *)
Reusable == {"HeaderView", "CellDataEntry", "CellEntry", "EpochExt"}
DocumentShowsContents ==
  verdict = "accepted" /\ Stored(class, value) /\ (Empty(before) \/ class \in Reusable) =>
    IF class \in Views THEN ShowsView(json, class, value) ELSE Shows(json, class, value)

(* A rejected value leaves an empty document, unless it verified and a       *)
(* script deeper down was rejected, or it was empty and was not looked at.   *)
RejectedLeavesNothing ==
  verdict = "rejected" /\ value # << >> /\ ~Empty(json) =>
    Stored(class, value) /\ ~ScriptsKnown(Schema[TypeOf(class)], value)
=============================================================================
