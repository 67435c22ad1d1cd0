----------------------------- MODULE BlockExport -----------------------------
(***************************************************************************)
(* main() of main.cpp: for every height of the range on its command line   *)
(* it reads the block's rows, assembles the JSON document and writes       *)
(* <height>.txt.  RocksDBReadOnly is the database object on its stack.     *)
(*                                                                         *)
(* A stored value is a record: `id' is the <<column, key>> it is stored    *)
(* under, `as' the columns whose Molecule type its bytes verify as, and    *)
(* `data' what the tool takes out of it: the hash in columns 0 and 2, the  *)
(* items of the vectors in columns 3 and 7, the count in column 13.  What  *)
(* is exported is the id, so that a document names the rows it is made of. *)
(* A key is a sequence of numbers, each standing for one packed field; a   *)
(* 32-bit field has the value its bytes have in big-endian order.          *)
(***************************************************************************)
EXTENDS RocksDBReadOnly, Integers, FiniteSets

CONSTANTS Databases,    \* the contents the database may have
          Families,     \* the manifests it may have
          CommandLines, \* the command lines: [argc, start, end]
          MaxRemovals,  \* bound on the files the node removes during a run
          NaN,          \* an argument std::stoul does not accept
          Null          \* a JSON null, or a member that is absent

Columns == {"0", "1", "2", "3", "5", "6", "7", "10", "12", "13", "15"}

ASSUME ColumnsExist == Columns \subseteq ColumnFamilies

ASSUME DatabasesAssumption ==
  \A db \in Databases : \A cf \in ColumnFamilies : \A key \in DOMAIN db[cf] :
    /\ db[cf][key].id = <<cf, key>>
    /\ db[cf][key].data \in Seq(Nat)
    /\ cf = "13" => db[cf][key].data # << >>

ASSUME FamiliesAssumption == \A f \in Families : f \in Seq(ColumnFamilies)
ASSUME RemovalsBound == MaxRemovals \in Nat
ASSUME NullIsNoId == Null \notin ColumnFamilies \X Seq(Nat)

ASSUME CommandLinesAssumption ==
  \A c \in CommandLines : /\ c.argc \in Nat
                          /\ c.start \in Nat \cup {NaN}
                          /\ c.end \in Nat \cup {NaN}

VARIABLES pc,           \* the read the program is about to make
          args,
          height, hash_bytes, value,
          uncles, proposals, txs_len, i,
          block,        \* declared before the loop: keeps its members
          json, tx_infos, tx_index,
          files,        \* files[h] is what <h>.txt holds, Null if damaged
          exit_code,
          removals      \* files the node removed since the start

tool == <<pc, args, height, hash_bytes, value, uncles, proposals, txs_len, i,
          block, json, tx_infos, tx_index, files, exit_code>>
vars == <<dbVars, tool, removals>>

EmptyString == [id |-> <<"", << >>>>, as |-> {}, data |-> << >>]
EmptyBlock == [header |-> Null, uncles |-> Null, transactions |-> << >>,
               proposals |-> Null, extension |-> Null]
EmptyJson == [block |-> Null, info |-> << >>, entry |-> << >>,
              data_entry |-> << >>, block_ext |-> Null]

Init ==
  /\ ObjectInit
  /\ rows \in Databases
  /\ families \in Families
  /\ unreadable = {}
  /\ pc = "start"
  /\ args \in CommandLines
  /\ height = 0
  /\ hash_bytes = << >>
  /\ value = EmptyString
  /\ uncles = Null
  /\ proposals = Null
  /\ txs_len = 0
  /\ i = 0
  /\ block = EmptyBlock
  /\ json = EmptyJson
  /\ tx_infos = << >>
  /\ tx_index = 0
  /\ files = << >>
  /\ exit_code = 0
  /\ removals = 0

-----------------------------------------------------------------------------
(***************************************************************************)
(* Conversions.  Bytes2Hex makes text of bytes and Hex2Bytes undoes it.    *)
(* json.clear() empties an array and leaves a null a null; push_back makes *)
(* an array of a null.  tx_index is copied into the key as it lies in      *)
(* memory, little-endian, while the body index goes through htobe32.       *)
(***************************************************************************)
Bytes2Hex(b) == [hex |-> b]
Hex2Bytes(s) == s.hex

Clear(j) == IF j = Null THEN Null ELSE << >>
PushAll(j, items) == IF items = << >> THEN j
                     ELSE IF j = Null THEN items ELSE j \o items

Byte(n, k) == (n \div 256^k) % 256
\* BUG: the number is put into the key without thought of its byte order.
NoByteSwap(n) == n

ByteSwap32(n) == Byte(n, 0) * 256^3 + Byte(n, 1) * 256^2 + Byte(n, 2) * 256 + Byte(n, 3)

HeightKey == <<height>>
NumberHashKey == <<height>> \o hash_bytes
BodyKey(hash, n) == hash \o <<n>>
CellKey(hash, n) == hash \o <<ByteSwap32(n)>>

Parses(cf, v) == cf \in v.as

(***************************************************************************)
(* ReadData as main calls it, with `value' and `status' as out parameters. *)
(***************************************************************************)
Read(cf, key) ==
  /\ status' = StatusAfter(cf, key)
  /\ value' = ValueAfter(cf, key, value)
  /\ UNCHANGED <<object, external, args, files, removals>>

Return(code) == pc' = "return" /\ exit_code' = code

(***************************************************************************)
(* The parsers of columns 1, 2 and 3 use lengths and offsets of the value  *)
(* before they verify it: what they do with a malformed one is undefined,  *)
(* and they may abort the process instead of returning false.              *)
(***************************************************************************)
Reject(cf, code) ==
  \/ Return(code)
  \/ cf \in {"1", "2", "3"} /\ pc' = "aborted" /\ exit_code' = 134

Goto(label) == pc' = label /\ UNCHANGED exit_code

-----------------------------------------------------------------------------
(***************************************************************************)
(* RocksDBReadOnly db(db_path, status), then the two early returns and the *)
(* conversion of argv[1].  std::stoul throws for NaN, and nothing catches. *)
(***************************************************************************)
Construct == (ListColumnFamilies \/ OpenForReadOnly) /\ UNCHANGED <<tool, removals>>

\* BUG: the Status of the constructor is not looked at.
StartUnchecked ==
  /\ phase = "built"
  /\ pc = "start"
  /\ \/ args.argc < 3 /\ Return(0) /\ UNCHANGED height
     \/ args.argc >= 3 /\ args.start # NaN /\ height' = args.start /\ Goto("loop")
  /\ UNCHANGED <<dbVars, args, hash_bytes, value, uncles, proposals, txs_len, i,
                 block, json, tx_infos, tx_index, files, removals>>

Start ==
  /\ phase = "built"
  /\ pc = "start"
  /\ \/ status # "OK" /\ Return(-1) /\ UNCHANGED height
     \/ status = "OK" /\ args.argc < 3 /\ Return(0) /\ UNCHANGED height
     \/ /\ status = "OK" /\ args.argc >= 3
        /\ \/ args.start = NaN /\ pc' = "aborted" /\ exit_code' = 134 /\ UNCHANGED height
           \/ args.start # NaN /\ height' = args.start /\ Goto("loop")
  /\ UNCHANGED <<dbVars, args, hash_bytes, value, uncles, proposals, txs_len, i,
                 block, json, tx_infos, tx_index, files, removals>>

(***************************************************************************)
(* The loop test, which converts argv[2] every time, and the declarations  *)
(* at the top of the body.                                                 *)
(***************************************************************************)
\* BUG: the end of the range is included.
LoopInclusive ==
  /\ pc = "loop"
  /\ args.end # NaN
  /\ \/ height > args.end /\ Return(0) /\ UNCHANGED <<json, tx_infos>>
     \/ height <= args.end /\ Goto("0") /\ json' = EmptyJson /\ tx_infos' = << >>
  /\ UNCHANGED <<dbVars, args, height, hash_bytes, value, uncles, proposals, txs_len, i,
                 block, tx_index, files, removals>>

\* BUG: tx_infos is declared outside the loop, as block is.
LoopKeepsTxInfos ==
  /\ pc = "loop"
  /\ args.end # NaN
  /\ \/ height >= args.end /\ Return(0) /\ UNCHANGED json
     \/ height < args.end /\ Goto("0") /\ json' = EmptyJson
  /\ UNCHANGED <<dbVars, args, height, hash_bytes, value, uncles, proposals, txs_len, i,
                 block, tx_infos, tx_index, files, removals>>

Loop ==
  /\ pc = "loop"
  /\ \/ args.end = NaN /\ pc' = "aborted" /\ exit_code' = 134 /\ UNCHANGED <<json, tx_infos>>
     \/ args.end # NaN /\ height >= args.end /\ Return(0) /\ UNCHANGED <<json, tx_infos>>
     \/ args.end # NaN /\ height < args.end /\ Goto("0")
        /\ json' = EmptyJson /\ tx_infos' = << >>
  /\ UNCHANGED <<dbVars, args, height, hash_bytes, value, uncles, proposals, txs_len, i,
                 block, tx_index, files, removals>>

(***************************************************************************)
(* Column 0 is read into hash_bytes instead of value.                      *)
(***************************************************************************)
ReadIndex ==
  /\ pc = "0"
  /\ status' = StatusAfter("0", HeightKey)
  /\ \/ ~ReadReturns("0", HeightKey) /\ Return(-2) /\ UNCHANGED hash_bytes
     \/ ReadReturns("0", HeightKey) /\ Goto("1")
        /\ hash_bytes' = rows["0"][HeightKey].data
  /\ UNCHANGED <<object, external, args, height, value, uncles, proposals, txs_len, i,
                 block, json, tx_infos, tx_index, files, removals>>

ReadHeader ==
  /\ pc = "1"
  /\ Read("1", hash_bytes)
  /\ \/ ~ReadReturns("1", hash_bytes) /\ Return(-3) /\ UNCHANGED block
     \/ ReadReturns("1", hash_bytes) /\ ~Parses("1", value') /\ Reject("1", -4)
        /\ UNCHANGED block
     \/ ReadReturns("1", hash_bytes) /\ Parses("1", value') /\ Goto("3")
        /\ block' = [block EXCEPT !.header = value'.id]
  /\ UNCHANGED <<height, hash_bytes, uncles, proposals, txs_len, i, json, tx_infos, tx_index>>

(***************************************************************************)
(* The uncles document is an object: `hash' is assigned, `data' appended   *)
(* to what Clear leaves of it.                                             *)
(***************************************************************************)
\* BUG: uncles.Clear() is forgotten.
ReadUnclesNotCleared ==
  /\ pc = "3"
  /\ Read("3", hash_bytes)
  /\ \/ ~ReadReturns("3", hash_bytes) /\ Return(-5) /\ UNCHANGED <<uncles, block>>
     \/ ReadReturns("3", hash_bytes) /\ Parses("3", value') /\ Goto("13")
        /\ uncles' = PushAll(uncles, value'.data)
        /\ block' = [block EXCEPT !.uncles = [hash |-> value'.id, data |-> uncles']]
  /\ UNCHANGED <<height, hash_bytes, proposals, txs_len, i, json, tx_infos, tx_index>>

\* BUG: what ReadData returns is not looked at.
ReadUnclesUnchecked ==
  /\ pc = "3"
  /\ Read("3", hash_bytes)
  /\ \/ ~Parses("3", value') /\ Reject("3", -6) /\ UNCHANGED <<uncles, block>>
     \/ Parses("3", value') /\ Goto("13")
        /\ uncles' = PushAll(Clear(uncles), value'.data)
        /\ block' = [block EXCEPT !.uncles = [hash |-> value'.id, data |-> uncles']]
  /\ UNCHANGED <<height, hash_bytes, proposals, txs_len, i, json, tx_infos, tx_index>>

ReadUncles ==
  /\ pc = "3"
  /\ Read("3", hash_bytes)
  /\ \/ ~ReadReturns("3", hash_bytes) /\ Return(-5) /\ UNCHANGED <<uncles, block>>
     \/ ReadReturns("3", hash_bytes) /\ ~Parses("3", value') /\ Reject("3", -6)
        /\ uncles' = Clear(uncles) /\ UNCHANGED block
     \/ ReadReturns("3", hash_bytes) /\ Parses("3", value') /\ Goto("13")
        /\ uncles' = PushAll(Clear(uncles), value'.data)
        /\ block' = [block EXCEPT !.uncles = [hash |-> value'.id, data |-> uncles']]
  /\ UNCHANGED <<height, hash_bytes, proposals, txs_len, i, json, tx_infos, tx_index>>

(***************************************************************************)
(* The count is copied from the value as it lies, without a check.         *)
(***************************************************************************)
\* BUG: the index of the body loop is declared with txs_len, outside the loop.
ReadCountKeepsIndex ==
  /\ pc = "13"
  /\ Read("13", NumberHashKey)
  /\ \/ ~ReadReturns("13", NumberHashKey) /\ Return(-7) /\ UNCHANGED txs_len
     \/ ReadReturns("13", NumberHashKey) /\ Goto("2") /\ txs_len' = value'.data[1]
  /\ UNCHANGED <<height, hash_bytes, uncles, proposals, i, block, json, tx_infos, tx_index>>

ReadCount ==
  /\ pc = "13"
  /\ Read("13", NumberHashKey)
  /\ \/ ~ReadReturns("13", NumberHashKey) /\ Return(-7) /\ UNCHANGED <<txs_len, i>>
     \/ ReadReturns("13", NumberHashKey) /\ Goto("2")
        /\ txs_len' = value'.data[1] /\ i' = 0
  /\ UNCHANGED <<height, hash_bytes, uncles, proposals, block, json, tx_infos, tx_index>>

ReadBody ==
  /\ pc = "2"
  /\ i < txs_len
  /\ LET key == BodyKey(hash_bytes, i) IN
     /\ Read("2", key)
     /\ \/ ~ReadReturns("2", key) /\ Return(-8) /\ UNCHANGED <<i, tx_infos, block>>
        \/ ReadReturns("2", key) /\ ~Parses("2", value') /\ Reject("2", -9)
           /\ UNCHANGED <<i, tx_infos, block>>
        \/ ReadReturns("2", key) /\ Parses("2", value') /\ Goto("2")
           /\ tx_infos' = Append(tx_infos, Bytes2Hex(value'.data))
           /\ block' = [block EXCEPT !.transactions = Append(@, value'.id)]
           /\ i' = i + 1
  /\ UNCHANGED <<height, hash_bytes, uncles, proposals, txs_len, json, tx_index>>

\* BUG: the last transaction is left out.
BodyDoneEarly ==
  /\ pc = "2"
  /\ i + 1 >= txs_len
  /\ Goto("7")
  /\ UNCHANGED <<dbVars, args, height, hash_bytes, value, uncles, proposals, txs_len, i,
                 block, json, tx_infos, tx_index, files, removals>>

BodyDone ==
  /\ pc = "2"
  /\ i >= txs_len
  /\ Goto("7")
  /\ UNCHANGED <<dbVars, args, height, hash_bytes, value, uncles, proposals, txs_len, i,
                 block, json, tx_infos, tx_index, files, removals>>

ReadProposals ==
  /\ pc = "7"
  /\ Read("7", hash_bytes)
  /\ \/ ~ReadReturns("7", hash_bytes) /\ Return(-9) /\ UNCHANGED <<proposals, block>>
     \/ ReadReturns("7", hash_bytes) /\ ~Parses("7", value') /\ Reject("7", -10)
        /\ proposals' = Clear(proposals) /\ UNCHANGED block
     \/ ReadReturns("7", hash_bytes) /\ Parses("7", value') /\ Goto("15")
        /\ proposals' = PushAll(Clear(proposals), value'.data)
        /\ block' = [block EXCEPT !.proposals = proposals']
  /\ UNCHANGED <<height, hash_bytes, uncles, txs_len, i, json, tx_infos, tx_index>>

-----------------------------------------------------------------------------
(***************************************************************************)
(* The optional columns.  main ignores what ReadData returns and goes by   *)
(* the Status, which a read of a column that is not mapped leaves alone.   *)
(***************************************************************************)
\* BUG: the Status is not looked at.
ReadExtensionUnchecked ==
  /\ pc = "15"
  /\ Read("15", hash_bytes)
  /\ block' = [block EXCEPT !.extension = Bytes2Hex(value'.id)]
  /\ json' = [json EXCEPT !.block = block']
  /\ tx_index' = 0
  /\ Goto(IF tx_infos = << >> THEN "6" ELSE "5")
  /\ UNCHANGED <<height, hash_bytes, uncles, proposals, txs_len, i, tx_infos>>

ReadExtension ==
  /\ pc = "15"
  /\ Read("15", hash_bytes)
  /\ block' = IF status' = "OK" THEN [block EXCEPT !.extension = Bytes2Hex(value'.id)]
                                ELSE block
  /\ json' = [json EXCEPT !.block = block']
  /\ tx_index' = 0
  /\ Goto(IF tx_infos = << >> THEN "6" ELSE "5")
  /\ UNCHANGED <<height, hash_bytes, uncles, proposals, txs_len, i, tx_infos>>

TxHash == Hex2Bytes(tx_infos[tx_index + 1])

ReadInfo ==
  /\ pc = "5"
  /\ Read("5", TxHash)
  /\ json' = IF status' = "OK" /\ Parses("5", value')
               THEN [json EXCEPT !.info = Append(@, value'.id)] ELSE json
  /\ Goto("10")
  /\ UNCHANGED <<height, hash_bytes, uncles, proposals, txs_len, i, block, tx_infos, tx_index>>

ReadEntry ==
  /\ pc = "10"
  /\ Read("10", CellKey(TxHash, tx_index))
  /\ json' = IF status' = "OK" /\ Parses("10", value')
               THEN [json EXCEPT !.entry = Append(@, value'.id)] ELSE json
  /\ Goto("12")
  /\ UNCHANGED <<height, hash_bytes, uncles, proposals, txs_len, i, block, tx_infos, tx_index>>

ReadDataEntry ==
  /\ pc = "12"
  /\ Read("12", CellKey(TxHash, tx_index))
  /\ json' = IF status' = "OK" /\ Parses("12", value')
               THEN [json EXCEPT !.data_entry = Append(@, value'.id)] ELSE json
  /\ tx_index' = tx_index + 1
  /\ Goto(IF tx_index' < Len(tx_infos) THEN "5" ELSE "6")
  /\ UNCHANGED <<height, hash_bytes, uncles, proposals, txs_len, i, block, tx_infos>>

ReadBlockExt ==
  /\ pc = "6"
  /\ Read("6", hash_bytes)
  /\ json' = IF status' = "OK" /\ Parses("6", value')
               THEN [json EXCEPT !.block_ext = value'.id] ELSE json
  /\ Goto("write")
  /\ UNCHANGED <<height, hash_bytes, uncles, proposals, txs_len, i, block, tx_infos, tx_index>>

WriteFile ==
  /\ pc = "write"
  /\ \E content \in {json, Null} :
       files' = [h \in DOMAIN files \cup {height} |->
                   IF h = height THEN content ELSE files[h]]
  /\ height' = height + 1
  /\ Goto("loop")
  /\ UNCHANGED <<dbVars, args, hash_bytes, value, uncles, proposals, txs_len, i, block,
                 json, tx_infos, tx_index, removals>>

(***************************************************************************)
(* Leaving main destroys db; an abort does not unwind the stack.           *)
(***************************************************************************)
Exit ==
  /\ pc = "return"
  /\ Destroy
  /\ Goto("done")
  /\ UNCHANGED <<args, height, hash_bytes, value, uncles, proposals, txs_len, i, block,
                 json, tx_infos, tx_index, files, removals>>

Main == Construct \/ Start \/ Loop \/ ReadIndex \/ ReadHeader \/ ReadUncles \/ ReadCount
          \/ ReadBody \/ BodyDone \/ ReadProposals \/ ReadExtension \/ ReadInfo \/ ReadEntry
          \/ ReadDataEntry \/ ReadBlockExt \/ WriteFile \/ Exit

(***************************************************************************)
(* The node compacts away a file the tool may still need.                  *)
(***************************************************************************)
NodeStep ==
  /\ removals < MaxRemovals
  /\ removals' = removals + 1
  /\ phase = "built"
  /\ pc \notin {"done", "aborted"}
  /\ \E cf \in ColumnFamilies : \E key \in DOMAIN rows[cf] : NodeRemovesFile(cf, key)
  /\ UNCHANGED tool

Next == Main \/ NodeStep

Spec == Init /\ [][Next]_vars /\ WF_vars(Main)
=============================================================================
