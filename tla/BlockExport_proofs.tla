------------------------- MODULE BlockExport_proofs -------------------------
(***************************************************************************)
(* What main() guarantees for every database, command line and number of   *)
(* removed files: where the data of a document comes from, and that the    *)
(* run deals with the heights one by one.                                  *)
(***************************************************************************)
EXTENDS BlockExportProperties, FiniteSetTheorems, TLAPS

USE DEF object, external, dbVars, tool

LEMMA AppendedLast ==
  ASSUME NEW T, NEW s \in Seq(T), NEW e \in T
  PROVE  Append(s, e)[Len(s) + 1] = e
  OBVIOUS

LEMMA FirstIsNumber ==
  ASSUME NEW s \in Seq(Nat), s # << >>
  PROVE  s[1] \in Nat
  OBVIOUS

(* Appending to what Clear leaves of a document gives the same items as      *)
(* appending to a null.                                                      *)
LEMMA PushAllClear ==
  ASSUME NEW j, NEW items \in Seq(Nat)
  PROVE  PushAll(Null, PushAll(Clear(j), items)) = PushAll(Null, items)
<1>1. CASE items = << >>
  BY <1>1 DEF PushAll, Clear
<1>2. CASE items # << >> /\ Clear(j) = Null
  BY <1>2 DEF PushAll
<1>3. CASE items # << >> /\ Clear(j) = << >>
  <2>1. << >> \o items = items
    OBVIOUS
  <2> QED BY <1>3, <2>1 DEF PushAll
<1> QED
  BY <1>1, <1>2, <1>3 DEF Clear

-----------------------------------------------------------------------------
(***************************************************************************)
(* The invariant follows the block through one round of the loop: from the *)
(* read of column 0 on hash_bytes is the hash of this height, and behind   *)
(* each read the member it fills comes from a row under that hash.         *)
(***************************************************************************)
RowsInv ==
  \A cf \in ColumnFamilies : \A key \in DOMAIN rows[cf] :
    /\ rows[cf][key].id = <<cf, key>>
    /\ rows[cf][key].data \in Seq(Nat)

Behind1 == {"3", "13", "2", "7", "15", "5", "10", "12", "6", "write"}
Behind3 == Behind1 \ {"3"}
Behind7 == Behind3 \ {"13", "2", "7"}
Behind15 == Behind7 \ {"15"}

IsBlock(b) == b = [header |-> b.header, uncles |-> b.uncles,
                   transactions |-> b.transactions,
                   proposals |-> b.proposals, extension |-> b.extension]
IsJson(j) == j = [block |-> j.block, info |-> j.info, entry |-> j.entry,
                  data_entry |-> j.data_entry, block_ext |-> j.block_ext]

HeaderOf(b, h) == b.header = <<"1", HashAt(h)>>
UnclesOf(b, h) == /\ b.uncles.hash = <<"3", HashAt(h)>>
                  /\ PushAll(Null, b.uncles.data) = PushAll(Null, rows["3"][HashAt(h)].data)
ProposalsOf(b, h) == PushAll(Null, b.proposals) = PushAll(Null, rows["7"][HashAt(h)].data)

AssemblyInv ==
  /\ IsBlock(block)
  /\ IsJson(json)
  /\ pc \in Behind1 \cup {"1"} => hash_bytes = HashAt(height)
  /\ pc \in Behind1 => HeaderOf(block, height)
  /\ pc \in Behind3 => UnclesOf(block, height)
  /\ pc \in Behind7 => ProposalsOf(block, height)
  /\ pc \in Behind15 => json.block = block

OwnInv == RowsInv /\ AssemblyInv /\ OwnBlockData

USE DEF Behind1, Behind3, Behind7, Behind15, HashAt

(* No step of the tool or of the node writes to the rows.                    *)
LEMMA RowsStep == [Next]_vars => UNCHANGED rows
<1> SUFFICES ASSUME [Next]_vars PROVE UNCHANGED rows
  OBVIOUS
<1>1. CASE Construct
  BY <1>1 DEF Construct, ListColumnFamilies, OpenForReadOnly
<1>2. CASE ReadHeader \/ ReadUncles \/ ReadCount \/ ReadBody \/ ReadProposals
            \/ ReadExtension \/ ReadInfo \/ ReadEntry \/ ReadDataEntry \/ ReadBlockExt
  BY <1>2 DEF Read, ReadHeader, ReadUncles, ReadCount, ReadBody, ReadProposals,
              ReadExtension, ReadInfo, ReadEntry, ReadDataEntry, ReadBlockExt
<1>3. CASE Start \/ Loop \/ ReadIndex \/ BodyDone \/ WriteFile
  BY <1>3 DEF Start, Loop, ReadIndex, BodyDone, WriteFile
<1>4. CASE Exit
  BY <1>4 DEF Exit, Destroy
<1>5. CASE NodeStep
  BY <1>5 DEF NodeStep, NodeRemovesFile
<1>6. CASE UNCHANGED vars
  BY <1>6 DEF vars
<1> QED
  BY <1>1, <1>2, <1>3, <1>4, <1>5, <1>6 DEF Next, Main

(* A successful ReadData delivers the row stored under the key.              *)
LEMMA ReadDelivers ==
  ASSUME RowsInv, NEW cf \in ColumnFamilies, NEW key,
         Read(cf, key), ReadReturns(cf, key)
  PROVE  /\ value' = rows[cf][key]
         /\ value'.id = <<cf, key>>
         /\ value'.data \in Seq(Nat)
<1>1. key \in DOMAIN rows[cf]
  BY DEF ReadReturns, GetStatus
<1>2. value' = rows[cf][key]
  BY DEF Read, ValueAfter
<1> QED
  BY <1>1, <1>2 DEF RowsInv
-----------------------------------------------------------------------------
(***************************************************************************)
(* Assigning a member leaves the others as they were.                      *)
(***************************************************************************)
LEMMA SetHeader ==
  ASSUME NEW b, IsBlock(b), NEW v, NEW c, c = [b EXCEPT !.header = v]
  PROVE  /\ IsBlock(c) /\ c.header = v
         /\ c.transactions = b.transactions /\ c.extension = b.extension
  BY DEF IsBlock

LEMMA SetUncles ==
  ASSUME NEW b, IsBlock(b), NEW v, NEW c, c = [b EXCEPT !.uncles = v]
  PROVE  /\ IsBlock(c) /\ c.uncles = v /\ c.header = b.header
         /\ c.transactions = b.transactions /\ c.extension = b.extension
  BY DEF IsBlock

LEMMA SetTransactions ==
  ASSUME NEW b, IsBlock(b), NEW v, NEW c, c = [b EXCEPT !.transactions = v]
  PROVE  /\ IsBlock(c) /\ c.uncles = b.uncles /\ c.header = b.header
         /\ c.transactions = v /\ c.extension = b.extension
  BY DEF IsBlock

LEMMA SetProposals ==
  ASSUME NEW b, IsBlock(b), NEW v, NEW c, c = [b EXCEPT !.proposals = v]
  PROVE  /\ IsBlock(c) /\ c.proposals = v /\ c.uncles = b.uncles /\ c.header = b.header
         /\ c.transactions = b.transactions /\ c.extension = b.extension
  BY DEF IsBlock

LEMMA SetExtension ==
  ASSUME NEW b, IsBlock(b), NEW v, NEW c, c = [b EXCEPT !.extension = v]
  PROVE  /\ IsBlock(c) /\ c.uncles = b.uncles /\ c.header = b.header
         /\ c.proposals = b.proposals
         /\ c.transactions = b.transactions /\ c.extension = v
  BY DEF IsBlock

LEMMA SetJsonBlock ==
  ASSUME NEW j, IsJson(j), NEW v, NEW k, k = [j EXCEPT !.block = v]
  PROVE  IsJson(k) /\ k.block = v
  BY DEF IsJson

LEMMA SetJsonOther ==
  ASSUME NEW j, IsJson(j), NEW v, NEW k,
         \/ k = [j EXCEPT !.info = v]
         \/ k = [j EXCEPT !.entry = v]
         \/ k = [j EXCEPT !.data_entry = v]
         \/ k = [j EXCEPT !.block_ext = v]
  PROVE  IsJson(k) /\ k.block = j.block
  BY DEF IsJson

LEMMA SetJsonMember ==
  ASSUME NEW j, IsJson(j), NEW v
  PROVE  /\ LET k == [j EXCEPT !.block = v]
            IN  /\ k.info = j.info /\ k.entry = j.entry /\ k.data_entry = j.data_entry
                /\ k.block_ext = j.block_ext
         /\ LET k == [j EXCEPT !.info = v]
            IN  /\ k.info = v /\ k.entry = j.entry /\ k.data_entry = j.data_entry
                /\ k.block_ext = j.block_ext
         /\ LET k == [j EXCEPT !.entry = v]
            IN  /\ k.info = j.info /\ k.entry = v /\ k.data_entry = j.data_entry
                /\ k.block_ext = j.block_ext
         /\ LET k == [j EXCEPT !.data_entry = v]
            IN  /\ k.info = j.info /\ k.entry = j.entry /\ k.data_entry = v
                /\ k.block_ext = j.block_ext
         /\ LET k == [j EXCEPT !.block_ext = v]
            IN  /\ k.info = j.info /\ k.entry = j.entry /\ k.data_entry = j.data_entry
                /\ k.block_ext = v
  BY DEF IsJson

-----------------------------------------------------------------------------
LEMMA AssemblyStep == RowsInv /\ AssemblyInv /\ [Next]_vars => AssemblyInv'
<1> SUFFICES ASSUME RowsInv, AssemblyInv, [Next]_vars PROVE AssemblyInv'
  OBVIOUS
<1> USE ColumnsExist DEF Columns, Goto, Return, Reject
<1>r. UNCHANGED rows
  BY RowsStep
<1>u. ASSUME UNCHANGED <<rows, hash_bytes, height, block, json>>, pc' \in {pc, "return", "aborted"}
      PROVE  AssemblyInv'
  BY <1>u DEF AssemblyInv, HeaderOf, UnclesOf, ProposalsOf
<1>1. CASE Construct
  BY <1>1, <1>r, <1>u DEF Construct
<1>2. CASE Start
  <2>1. pc' \in {"return", "aborted", "loop"} /\ UNCHANGED <<hash_bytes, block, json>>
    BY <1>2 DEF Start
  <2> QED BY <2>1 DEF AssemblyInv
<1>3. CASE Loop
  <2>1. /\ pc' \in {"return", "aborted", "0"}
        /\ json' \in {json, EmptyJson}
        /\ UNCHANGED <<hash_bytes, block>>
    BY <1>3 DEF Loop
  <2>2. IsJson(EmptyJson)
    BY DEF IsJson, EmptyJson
  <2> QED BY <2>1, <2>2 DEF AssemblyInv
<1>4. CASE ReadIndex
  <2>1. /\ pc = "0" /\ UNCHANGED <<height, block, json>>
        /\ \/ pc' = "return"
           \/ pc' = "1" /\ hash_bytes' = rows["0"][<<height>>].data
    BY <1>4 DEF ReadIndex, HeightKey
  <2> QED BY <1>r, <2>1 DEF AssemblyInv
<1>5. CASE ReadHeader
  <2>1. CASE pc' = "3"
    <3>1. /\ pc = "1" /\ UNCHANGED <<height, hash_bytes, json>>
          /\ Read("1", hash_bytes) /\ ReadReturns("1", hash_bytes)
          /\ block' = [block EXCEPT !.header = value'.id]
      BY <1>5, <2>1 DEF ReadHeader
    <3>2. value'.id = <<"1", hash_bytes>>
      BY <3>1, ReadDelivers
    <3>3. IsBlock(block') /\ block'.header = value'.id
      BY <3>1, SetHeader DEF AssemblyInv
    <3> QED
      BY <1>r, <2>1, <3>1, <3>2, <3>3 DEF AssemblyInv, HeaderOf
  <2>2. CASE pc' # "3"
    BY <1>5, <1>r, <1>u, <2>2 DEF ReadHeader
  <2> QED BY <2>1, <2>2
<1>6. CASE ReadUncles
  <2>1. CASE pc' = "13"
    <3>1. /\ pc = "3" /\ UNCHANGED <<height, hash_bytes, json>>
          /\ Read("3", hash_bytes) /\ ReadReturns("3", hash_bytes)
          /\ uncles' = PushAll(Clear(uncles), value'.data)
          /\ block' = [block EXCEPT !.uncles = [hash |-> value'.id, data |-> uncles']]
      BY <1>6, <2>1 DEF ReadUncles
    <3>2. value' = rows["3"][hash_bytes] /\ value'.id = <<"3", hash_bytes>>
            /\ value'.data \in Seq(Nat)
      BY <3>1, ReadDelivers
    <3>3. /\ IsBlock(block') /\ block'.header = block.header
          /\ block'.uncles = [hash |-> value'.id, data |-> uncles']
      BY <3>1, SetUncles DEF AssemblyInv
    <3>4. PushAll(Null, uncles') = PushAll(Null, value'.data)
      BY <3>1, <3>2, PushAllClear
    <3>5. hash_bytes = HashAt(height) /\ HeaderOf(block, height)
      BY <3>1 DEF AssemblyInv
    <3>6. UnclesOf(block', height)
      <4>1. block'.uncles.hash = value'.id /\ block'.uncles.data = uncles'
        BY <3>3
      <4>2. value'.id = <<"3", HashAt(height)>> /\ value'.data = rows["3"][HashAt(height)].data
        BY <3>2, <3>5
      <4> QED BY <3>4, <4>1, <4>2, Zenon DEF UnclesOf
    <3>7. UnclesOf(block, height)' /\ HeaderOf(block, height)'
      <4>1. HeaderOf(block', height)
        BY <3>3, <3>5 DEF HeaderOf
      <4>2. rows' = rows /\ height' = height
        BY <1>r, <3>1
      <4> HIDE DEF HashAt
      <4>3. HashAt(height)' = HashAt(height)
        BY <4>2 DEF HashAt
      <4> QED BY <3>6, <4>1, <4>2, <4>3 DEF HeaderOf, UnclesOf
    <3>8. hash_bytes' = HashAt(height)'
      BY <1>r, <3>1, <3>5
    <3> QED
      BY <2>1, <3>1, <3>3, <3>7, <3>8 DEF AssemblyInv
  <2>2. CASE pc' # "13"
    BY <1>6, <1>r, <1>u, <2>2 DEF ReadUncles
  <2> QED BY <2>1, <2>2
<1>7. CASE ReadCount \/ BodyDone
  <2>1. /\ pc \in {"13", "2"} /\ pc' \in {"return", "2", "7"}
        /\ UNCHANGED <<height, hash_bytes, block, json>>
    BY <1>7 DEF ReadCount, BodyDone
  <2> QED
    BY <1>r, <2>1 DEF AssemblyInv, HeaderOf, UnclesOf
<1>8. CASE ReadBody
  <2>1. CASE pc' = "2"
    <3>1. /\ pc = "2" /\ UNCHANGED <<height, hash_bytes, json>>
          /\ block' = [block EXCEPT !.transactions = Append(block.transactions, value'.id)]
      BY <1>8, <2>1 DEF ReadBody
    <3> DEFINE longer == Append(block.transactions, value'.id)
    <3>2. IsBlock(block') /\ block'.header = block.header /\ block'.uncles = block.uncles
      <4>1. IsBlock(block) /\ block' = [block EXCEPT !.transactions = longer]
        BY <3>1 DEF AssemblyInv
      <4> HIDE DEF longer
      <4> QED BY <4>1, SetTransactions
    <3> QED
      BY <1>r, <2>1, <3>1, <3>2 DEF AssemblyInv, HeaderOf, UnclesOf
  <2>2. CASE pc' # "2"
    BY <1>8, <1>r, <1>u, <2>2 DEF ReadBody
  <2> QED BY <2>1, <2>2
<1>9. CASE ReadProposals
  <2>1. CASE pc' = "15"
    <3>1. /\ pc = "7" /\ UNCHANGED <<height, hash_bytes, json>>
          /\ Read("7", hash_bytes) /\ ReadReturns("7", hash_bytes)
          /\ proposals' = PushAll(Clear(proposals), value'.data)
          /\ block' = [block EXCEPT !.proposals = proposals']
      BY <1>9, <2>1 DEF ReadProposals
    <3>2. value' = rows["7"][hash_bytes] /\ value'.data \in Seq(Nat)
      BY <3>1, ReadDelivers
    <3>3. /\ IsBlock(block') /\ block'.header = block.header
          /\ block'.uncles = block.uncles /\ block'.proposals = proposals'
      BY <3>1, SetProposals DEF AssemblyInv
    <3>4. PushAll(Null, proposals') = PushAll(Null, value'.data)
      BY <3>1, <3>2, PushAllClear
    <3>5. hash_bytes = HashAt(height) /\ HeaderOf(block, height) /\ UnclesOf(block, height)
      BY <3>1 DEF AssemblyInv
    <3>6. ProposalsOf(block', height)
      BY <3>2, <3>3, <3>4, <3>5 DEF ProposalsOf
    <3> QED
      BY <1>r, <2>1, <3>1, <3>3, <3>5, <3>6
      DEF AssemblyInv, HeaderOf, UnclesOf, ProposalsOf
  <2>2. CASE pc' # "15"
    BY <1>9, <1>r, <1>u, <2>2 DEF ReadProposals
  <2> QED BY <2>1, <2>2
<1>10. CASE ReadExtension
  <2>1. /\ pc = "15" /\ pc' \in {"5", "6"} /\ UNCHANGED <<height, hash_bytes>>
        /\ block' = block \/ block' = [block EXCEPT !.extension = Bytes2Hex(value'.id)]
        /\ json' = [json EXCEPT !.block = block']
    BY <1>10 DEF ReadExtension
  <2>2. /\ IsBlock(block') /\ block'.header = block.header
        /\ block'.uncles = block.uncles /\ block'.proposals = block.proposals
    BY <2>1, SetExtension DEF AssemblyInv
  <2>3. IsJson(json') /\ json'.block = block'
    BY <2>1, SetJsonBlock DEF AssemblyInv
  <2> QED
    BY <1>r, <2>1, <2>2, <2>3
    DEF AssemblyInv, HeaderOf, UnclesOf, ProposalsOf
<1>11. CASE ReadInfo \/ ReadEntry \/ ReadDataEntry \/ ReadBlockExt
  <2>1. /\ pc \in {"5", "10", "12", "6"} /\ pc' \in {"10", "12", "5", "6", "write"}
        /\ UNCHANGED <<height, hash_bytes, block>>
        /\ \/ json' = json
           \/ json' = [json EXCEPT !.info = Append(json.info, value'.id)]
           \/ json' = [json EXCEPT !.entry = Append(json.entry, value'.id)]
           \/ json' = [json EXCEPT !.data_entry = Append(json.data_entry, value'.id)]
           \/ json' = [json EXCEPT !.block_ext = value'.id]
    BY <1>11 DEF ReadInfo, ReadEntry, ReadDataEntry, ReadBlockExt
  <2>2. IsJson(json') /\ json'.block = json.block
    <3>1. CASE json' = json
      BY <3>1 DEF AssemblyInv
    <3>2. ASSUME NEW v, \/ json' = [json EXCEPT !.info = v]
                        \/ json' = [json EXCEPT !.entry = v]
                        \/ json' = [json EXCEPT !.data_entry = v]
                        \/ json' = [json EXCEPT !.block_ext = v]
          PROVE  IsJson(json') /\ json'.block = json.block
      BY <3>2, SetJsonOther DEF AssemblyInv
    <3> QED BY <2>1, <3>1, <3>2
  <2> QED
    BY <1>r, <2>1, <2>2 DEF AssemblyInv, HeaderOf, UnclesOf, ProposalsOf
<1>12. CASE WriteFile \/ Exit
  <2>1. pc' \in {"loop", "done"} /\ UNCHANGED <<hash_bytes, block, json>>
    BY <1>12 DEF WriteFile, Exit
  <2> QED BY <2>1 DEF AssemblyInv
<1>13. CASE NodeStep
  BY <1>13, <1>r, <1>u DEF NodeStep
<1>14. CASE UNCHANGED vars
  BY <1>14, <1>u DEF vars
<1> QED
  BY <1>1, <1>2, <1>3, <1>4, <1>5, <1>6, <1>7, <1>8, <1>9, <1>10, <1>11, <1>12, <1>13, <1>14
  DEF Next, Main
-----------------------------------------------------------------------------
(***************************************************************************)
(* A document is complete when it is written, and no other step touches a  *)
(* file.                                                                   *)
(***************************************************************************)
OwnDocument(h) == HeaderOf(files[h].block, h) /\ UnclesOf(files[h].block, h)
                    /\ ProposalsOf(files[h].block, h)

LEMMA OwnDocuments == OwnBlockData <=> \A h \in Written : OwnDocument(h)
  BY DEF OwnBlockData, OwnDocument, HeaderOf, UnclesOf, ProposalsOf

LEMMA FilesStep == [Next]_vars => WriteFile \/ UNCHANGED files
<1> SUFFICES ASSUME [Next]_vars PROVE WriteFile \/ UNCHANGED files
  OBVIOUS
<1>1. CASE ReadHeader \/ ReadUncles \/ ReadCount \/ ReadBody \/ ReadProposals
            \/ ReadExtension \/ ReadInfo \/ ReadEntry \/ ReadDataEntry \/ ReadBlockExt
  BY <1>1 DEF Read, ReadHeader, ReadUncles, ReadCount, ReadBody, ReadProposals,
              ReadExtension, ReadInfo, ReadEntry, ReadDataEntry, ReadBlockExt
<1>2. CASE Construct \/ Start \/ Loop \/ ReadIndex \/ BodyDone \/ Exit
  BY <1>2 DEF Construct, Start, Loop, ReadIndex, BodyDone, Exit
<1>3. CASE NodeStep \/ UNCHANGED vars
  BY <1>3 DEF NodeStep, vars
<1> QED
  BY <1>1, <1>2, <1>3 DEF Next, Main

LEMMA OwnStep == OwnInv /\ [Next]_vars => OwnInv'
<1> SUFFICES ASSUME OwnInv, [Next]_vars PROVE OwnInv'
  OBVIOUS
<1>1. RowsInv' /\ AssemblyInv'
  BY RowsStep, AssemblyStep DEF OwnInv, RowsInv
<1>2. rows' = rows
  BY RowsStep
<1> HIDE DEF HashAt
<1>o. OwnBlockData' <=> \A h \in Written' : OwnDocument(h)'
  BY DEF OwnBlockData, OwnDocument, HeaderOf, UnclesOf, ProposalsOf
<1>3. \A h : HashAt(h)' = HashAt(h)
  BY <1>2 DEF HashAt
<1>4. ASSUME NEW h, files'[h] = files[h], OwnDocument(h) PROVE OwnDocument(h)'
  BY <1>2, <1>3, <1>4 DEF OwnDocument, HeaderOf, UnclesOf, ProposalsOf
<1>5. CASE UNCHANGED files
  BY <1>o, <1>1, <1>4, <1>5, OwnDocuments DEF OwnInv, Written
<1>6. CASE WriteFile
  <2>1. PICK content \in {json, Null} :
          files' = [h \in DOMAIN files \cup {height} |->
                      IF h = height THEN content ELSE files[h]]
    BY <1>6 DEF WriteFile
  <2>2. json.block = block /\ HeaderOf(block, height) /\ UnclesOf(block, height)
          /\ ProposalsOf(block, height)
    BY <1>6 DEF OwnInv, AssemblyInv, WriteFile
  <2>3. ASSUME NEW h \in Written' PROVE OwnDocument(h)'
    <3>1. CASE h = height
      <4>1. files'[h].block = block
        BY <2>1, <2>2, <2>3, <3>1 DEF Written
      <4> QED BY <1>2, <1>3, <2>2, <3>1, <4>1
              DEF OwnDocument, HeaderOf, UnclesOf, ProposalsOf
    <3>2. CASE h # height
      BY <1>4, <2>1, <2>3, <3>2, OwnDocuments DEF OwnInv, Written
    <3> QED BY <3>1, <3>2
  <2> QED BY <1>o, <1>1, <2>3 DEF OwnInv
<1> QED
  BY <1>5, <1>6, FilesStep

LEMMA OwnInit == Init => OwnInv
<1> SUFFICES ASSUME Init PROVE OwnInv
  OBVIOUS
<1>1. RowsInv
  BY DatabasesAssumption DEF Init, RowsInv
<1>2. AssemblyInv
  BY DEF Init, AssemblyInv, EmptyBlock, EmptyJson, IsBlock, IsJson
<1>3. OwnBlockData
  BY DEF Init, OwnBlockData, Written
<1> QED
  BY <1>1, <1>2, <1>3 DEF OwnInv

(* Header, uncles and proposals of every written document are those of the   *)
(* block column 0 names for its height.                                      *)
THEOREM OwnBlockDataAlways == Spec => []OwnBlockData
<1>1. OwnInv => OwnBlockData
  BY DEF OwnInv
<1> QED
  BY <1>1, OwnInit, OwnStep, PTL DEF Spec
-----------------------------------------------------------------------------
(***************************************************************************)
(* As long as db_ is unassigned main can only be on its way out with -1.   *)
(***************************************************************************)
FaultInv ==
  /\ phase \in {"raw", "listed"} => pc = "start"
  /\ pc = "start" => /\ files = << >> /\ ~fault /\ phase # "gone"
                     /\ phase = "built" /\ db_ = "garbage" => status = "IOError"
  /\ pc # "start" /\ db_ = "garbage" => pc = "return" /\ exit_code = -1 /\ files = << >>
  /\ fault => pc = "done" /\ exit_code = -1 /\ files = << >>

LEMMA FaultStep == FaultInv /\ [Next]_vars => FaultInv'
<1> SUFFICES ASSUME FaultInv, [Next]_vars PROVE FaultInv'
  OBVIOUS
<1> USE DEF FaultInv
<1>1. CASE Construct
  <2>1. CASE ListColumnFamilies
    BY <1>1, <2>1 DEF ListColumnFamilies, Construct
  <2>2. CASE OpenForReadOnly
    BY <1>1, <2>2, NullptrAssumption DEF OpenForReadOnly, Construct
  <2> QED BY <1>1, <2>1, <2>2 DEF Construct
<1>2. CASE Start
  BY <1>2 DEF Start, Return, Goto
<1>3. CASE Loop \/ ReadIndex \/ BodyDone \/ WriteFile
  <2>1. pc \in {"loop", "0", "2", "write"} /\ pc' # "start" /\ UNCHANGED object
    BY <1>3 DEF Loop, ReadIndex, BodyDone, WriteFile, Return, Goto
  <2> QED BY <2>1
<1>4. CASE ReadHeader \/ ReadUncles \/ ReadCount \/ ReadBody \/ ReadProposals
            \/ ReadExtension \/ ReadInfo \/ ReadEntry \/ ReadDataEntry \/ ReadBlockExt
  <2>1. /\ pc \in {"1", "3", "13", "2", "7", "15", "5", "10", "12", "6"}
        /\ pc' # "start" /\ UNCHANGED object
    BY <1>4 DEF Read, ReadHeader, ReadUncles, ReadCount, ReadBody, ReadProposals,
                ReadExtension, ReadInfo, ReadEntry, ReadDataEntry, ReadBlockExt,
                Return, Goto, Reject
  <2> QED BY <2>1
<1>5. CASE Exit
  BY <1>5, NullptrAssumption DEF Exit, Destroy, Goto
<1>6. CASE NodeStep
  BY <1>6 DEF NodeStep, NodeRemovesFile
<1>7. CASE UNCHANGED vars
  BY <1>7 DEF vars
<1> QED
  BY <1>1, <1>2, <1>3, <1>4, <1>5, <1>6, <1>7 DEF Next, Main

LEMMA FaultInit == Init => FaultInv
  BY DEF Init, ObjectInit, FaultInv

(* A run whose destructor deletes the unassigned pointer has written nothing *)
(* and reports -1.                                                           *)
THEOREM FaultOnlyInFailedRunAlways == Spec => []FaultOnlyInFailedRun
<1>1. FaultInv => FaultOnlyInFailedRun
  BY DEF FaultInv, FaultOnlyInFailedRun
<1> QED
  BY <1>1, FaultInit, FaultStep, PTL DEF Spec
-----------------------------------------------------------------------------
(***************************************************************************)
(* Type correctness.  The counts agree behind the loop over the body       *)
(* because inside it every transaction read so far has left its hash.      *)
(***************************************************************************)
InputsInv ==
  /\ families \in Seq(ColumnFamilies)
  /\ \A key \in DOMAIN rows["13"] : /\ rows["13"][key].data \in Seq(Nat)
                                    /\ rows["13"][key].data # << >>

LengthInv ==
  /\ tx_infos \in Seq([hex : Seq(Nat)])
  /\ pc \in {"0", "1", "3", "13"} => tx_infos = << >>
  /\ pc = "2" => Len(tx_infos) = i

TypeInv == TypeOK /\ InputsInv /\ LengthInv /\ RowsInv

LEMMA InputsStep == InputsInv /\ [Next]_vars => InputsInv'
<1> SUFFICES ASSUME InputsInv, [Next]_vars PROVE InputsInv'
  OBVIOUS
<1>1. UNCHANGED families
  <2>1. CASE Construct
    BY <2>1 DEF Construct, ListColumnFamilies, OpenForReadOnly
  <2>2. CASE ReadHeader \/ ReadUncles \/ ReadCount \/ ReadBody \/ ReadProposals
              \/ ReadExtension \/ ReadInfo \/ ReadEntry \/ ReadDataEntry \/ ReadBlockExt
    BY <2>2 DEF Read, ReadHeader, ReadUncles, ReadCount, ReadBody, ReadProposals,
                ReadExtension, ReadInfo, ReadEntry, ReadDataEntry, ReadBlockExt
  <2>3. CASE Start \/ Loop \/ ReadIndex \/ BodyDone \/ WriteFile
    BY <2>3 DEF Start, Loop, ReadIndex, BodyDone, WriteFile
  <2>4. CASE Exit
    BY <2>4 DEF Exit, Destroy
  <2>5. CASE NodeStep
    BY <2>5 DEF NodeStep, NodeRemovesFile
  <2>6. CASE UNCHANGED vars
    BY <2>6 DEF vars
  <2> QED BY <2>1, <2>2, <2>3, <2>4, <2>5, <2>6 DEF Next, Main
<1> QED
  BY <1>1, RowsStep DEF InputsInv

(* The database object of main() keeps its type, by the lemmas that          *)
(* RocksDBClient_proofs has of the client's.                                 *)
LEMMA ObjectInitType == ObjectInit => ObjectTypeOK
<1>1. << >> \in Seq(ColumnFamilies) /\ << >> \in Seq(ColumnFamilies \cup {nullptr})
  OBVIOUS
<1>2. DOMAIN << >> = {}
  OBVIOUS
<1> QED BY <1>1, <1>2 DEF ObjectInit, ObjectTypeOK, Statuses

LEMMA ConstructorType ==
  ASSUME ObjectTypeOK, families \in Seq(ColumnFamilies),
         ListColumnFamilies \/ OpenForReadOnly
  PROVE  ObjectTypeOK'
<1> USE DEF ObjectTypeOK, Elements
<1>1. CASE ListColumnFamilies
  BY <1>1 DEF ListColumnFamilies, Statuses
<1>2. CASE OpenForReadOnly
  <2>1. CASE db_' = nullptr /\ UNCHANGED <<cf_handles_, column_family_handles_, init_success_>>
    BY <1>2, <2>1 DEF OpenForReadOnly, Statuses
  <2>2. CASE /\ status' = "OK" /\ db_' = "open" /\ cf_handles_' = names /\ init_success_' = TRUE
             /\ column_family_handles_' = [n \in Elements(names) |-> n]
    BY <1>2, <2>2 DEF OpenForReadOnly, Statuses
  <2> QED BY <1>2, <2>1, <2>2 DEF OpenForReadOnly
<1> QED
  BY <1>1, <1>2

LEMMA DestructorType ==
  ASSUME ObjectTypeOK, Destroy
  PROVE  ObjectTypeOK'
<1> USE DEF ObjectTypeOK, Elements
<1>1. /\ cf_handles_' = [n \in DOMAIN cf_handles_ |-> nullptr]
      /\ column_family_handles_' = [n \in DOMAIN column_family_handles_ |-> nullptr]
      /\ phase' = "gone" /\ init_success_' = FALSE /\ fault' \in BOOLEAN /\ db_' = nullptr
      /\ UNCHANGED <<names, status>>
  BY DEF Destroy
<1>2. cf_handles_' \in Seq({nullptr})
  <2>1. DOMAIN cf_handles_ = 1..Len(cf_handles_) /\ Len(cf_handles_) \in Nat
    OBVIOUS
  <2> QED BY <1>1, <2>1
<1>3. cf_handles_' \in Seq(ColumnFamilies \cup {nullptr})
  BY <1>2
<1>4. Elements(cf_handles_') \subseteq {nullptr}
  BY <1>1
<1>5. /\ DOMAIN column_family_handles_' \subseteq ColumnFamilies
      /\ \A n \in DOMAIN column_family_handles_' : column_family_handles_'[n] \in {n, nullptr}
  BY <1>1
<1> QED BY <1>1, <1>3, <1>4, <1>5

(* A call leaves the members alone, and gives the Status a value it may have.*)
LEMMA CallType ==
  ASSUME ObjectTypeOK, UNCHANGED object, status' \in Statuses
  PROVE  ObjectTypeOK'
  BY DEF ObjectTypeOK, Elements

LEMMA ReadStatusType ==
  ASSUME ObjectTypeOK, NEW cf, NEW key
  PROVE  StatusAfter(cf, key) \in Statuses
<1>1. GetStatus(cf, key) \in Statuses
  BY DEF GetStatus, Statuses
<1> QED
  BY <1>1 DEF StatusAfter, ObjectTypeOK

LEMMA ExportObjectType ==
  ASSUME TypeOK, InputsInv, [Next]_vars
  PROVE  ObjectTypeOK' /\ (pc' = "done" => phase' = "gone")
<1>1. /\ ObjectTypeOK /\ families \in Seq(ColumnFamilies) /\ status \in Statuses
      /\ pc = "done" => phase = "gone"
  BY DEF TypeOK, ObjectTypeOK, InputsInv
<1>2. CASE Construct
  <2>1. phase # "gone" /\ UNCHANGED pc
    BY <1>2 DEF Construct, ListColumnFamilies, OpenForReadOnly
  <2> QED BY <1>1, <1>2, <2>1, ConstructorType DEF Construct
<1>3. CASE Exit
  BY <1>1, <1>3, DestructorType DEF Exit, Destroy
<1>4. CASE UNCHANGED <<object, status>> /\ (pc' = "done" => pc = "done")
  BY <1>1, <1>4, CallType
<1>5. CASE Start \/ Loop \/ BodyDone \/ WriteFile
  BY <1>4, <1>5 DEF Start, Loop, BodyDone, WriteFile, Return, Goto
<1>6. CASE NodeStep \/ UNCHANGED vars
  BY <1>4, <1>6 DEF NodeStep, NodeRemovesFile, vars
<1>7. CASE /\ \E cf \in ColumnFamilies : \E key : status' = StatusAfter(cf, key)
           /\ UNCHANGED object
           /\ pc' # "done"
  BY <1>1, <1>7, CallType, ReadStatusType
<1>8. ASSUME NEW cf \in Columns, NEW key, Read(cf, key), pc' # "done"
      PROVE  ObjectTypeOK' /\ (pc' = "done" => phase' = "gone")
  BY <1>7, <1>8, ColumnsExist DEF Read
<1>9. CASE ReadIndex
  BY <1>7, <1>9, ColumnsExist DEF ReadIndex, Return, Goto, Columns
<1>10. CASE ReadHeader \/ ReadUncles \/ ReadCount \/ ReadProposals
  BY <1>8, <1>10 DEF ReadHeader, ReadUncles, ReadCount, ReadProposals, Return, Goto, Reject, Columns
<1>11. CASE ReadBody
  BY <1>8, <1>11 DEF ReadBody, Return, Goto, Reject, Columns
<1>12. CASE ReadExtension \/ ReadInfo \/ ReadEntry \/ ReadDataEntry \/ ReadBlockExt
  BY <1>8, <1>12 DEF ReadExtension, ReadInfo, ReadEntry, ReadDataEntry, ReadBlockExt, Goto, Columns
<1> QED
  BY <1>2, <1>3, <1>5, <1>6, <1>9, <1>10, <1>11, <1>12 DEF Next, Main
ReadAny == ReadHeader \/ ReadUncles \/ ReadCount \/ ReadBody \/ ReadProposals
             \/ ReadExtension \/ ReadInfo \/ ReadEntry \/ ReadDataEntry \/ ReadBlockExt

LEMMA ReadAnyReads ==
  ASSUME ReadAny
  PROVE  \E cf \in ColumnFamilies : \E key : Read(cf, key)
BY ColumnsExist DEF ReadAny, ReadHeader, ReadUncles, ReadCount, ReadBody, ReadProposals,
   ReadExtension, ReadInfo, ReadEntry, ReadDataEntry, ReadBlockExt, Columns

(* What is left in value is a stored row, or the empty string it began as.   *)
LEMMA ValueStep == StoredValue(value) /\ [Next]_vars => StoredValue(value)'
<1> SUFFICES ASSUME StoredValue(value), [Next]_vars PROVE StoredValue(value)'
  OBVIOUS
<1>1. rows' = rows
  BY RowsStep
<1>2. CASE UNCHANGED value
  BY <1>1, <1>2 DEF StoredValue
<1>3. ASSUME NEW cf \in ColumnFamilies, NEW key, Read(cf, key)
      PROVE  StoredValue(value)'
  <2>1. CASE ReadReturns(cf, key)
    BY <1>1, <1>3, <2>1 DEF Read, ValueAfter, ReadReturns, GetStatus, StoredValue
  <2>2. CASE ~ReadReturns(cf, key)
    BY <1>2, <1>3, <2>2 DEF Read, ValueAfter
  <2> QED BY <2>1, <2>2
<1>4. CASE Construct \/ Start \/ Loop \/ ReadIndex \/ BodyDone \/ WriteFile \/ Exit
  BY <1>2, <1>4 DEF Construct, Start, Loop, ReadIndex, BodyDone, WriteFile, Exit
<1>5. CASE ReadAny
  BY <1>3, <1>5, ReadAnyReads
<1>6. CASE NodeStep \/ UNCHANGED vars
  BY <1>2, <1>6 DEF NodeStep, vars
<1> QED
  BY <1>4, <1>5, <1>6 DEF Next, Main, ReadAny

(* The counters of main and their agreement with the list of hashes.         *)
Labels == Columns \cup {"start", "loop", "write", "return", "done", "aborted"}

Counters ==
  /\ pc \in Labels
  /\ height \in Nat /\ i \in Nat /\ txs_len \in Nat /\ tx_index \in Nat
  /\ pc \in Columns \ {"0", "1", "3", "13"} => i <= txs_len
  /\ pc \in {"7", "15", "5", "10", "12", "6"} => Len(tx_infos) = txs_len
  /\ pc \in {"5", "10", "12"} => tx_index < Len(tx_infos)
  /\ LengthInv

LEMMA CountersStay ==
  ASSUME Counters, UNCHANGED <<height, i, txs_len, tx_index, tx_infos>>,
         pc' \in {pc, "return", "aborted", "done", "write"}
  PROVE  Counters'
BY DEF Counters, LengthInv, Labels, Columns

LEMMA CountersStep ==
  ASSUME Counters, TypeOK, InputsInv, RowsInv, [Next]_vars
  PROVE  Counters'
<1> USE DEF Counters, LengthInv, Labels, Columns
<1>1. CASE Construct \/ Exit \/ NodeStep \/ UNCHANGED vars
  <2>1. UNCHANGED <<height, i, txs_len, tx_index, tx_infos>> /\ pc' \in {pc, "done"}
    BY <1>1 DEF Construct, Exit, NodeStep, vars, Goto
  <2> QED BY <2>1, CountersStay
<1>2. CASE Start
  <2>1. args \in CommandLines
    BY DEF TypeOK
  <2>2. height' \in Nat /\ pc' \in {"loop", "return", "aborted"}
    BY <1>2, <2>1, CommandLinesAssumption DEF Start, Return, Goto
  <2> QED BY <1>2, <2>2 DEF Start
<1>3. CASE Loop
  <2>1. UNCHANGED <<height, i, txs_len, tx_index>>
    BY <1>3 DEF Loop
  <2>2. CASE UNCHANGED tx_infos /\ pc' \in {"return", "aborted"}
    BY <2>1, <2>2, CountersStay
  <2>3. CASE tx_infos' = << >> /\ pc' = "0"
    BY <2>1, <2>3
  <2> QED BY <1>3, <2>2, <2>3 DEF Loop, Return, Goto
<1>4. CASE ReadIndex \/ ReadHeader \/ ReadUncles
  <2>1. UNCHANGED <<height, i, txs_len, tx_index, tx_infos>>
    BY <1>4 DEF ReadIndex, ReadHeader, ReadUncles
  <2>2. /\ pc \in {"0", "1", "3"}
        /\ pc' \in {"1", "3", "13", "return", "aborted"}
    BY <1>4 DEF ReadIndex, ReadHeader, ReadUncles, Return, Goto, Reject
  <2> QED BY <2>1, <2>2
<1>5. CASE ReadCount
  <2>1. UNCHANGED <<height, tx_index, tx_infos>> /\ pc = "13"
    BY <1>5 DEF ReadCount
  <2>2. CASE pc' = "return" /\ UNCHANGED <<txs_len, i>>
    BY <2>1, <2>2
  <2>3. CASE ReadReturns("13", NumberHashKey) /\ txs_len' = value'.data[1] /\ i' = 0 /\ pc' = "2"
    <3>1. Read("13", NumberHashKey)
      BY <1>5 DEF ReadCount
    <3>2. NumberHashKey \in DOMAIN rows["13"] /\ value' = rows["13"][NumberHashKey]
      BY <2>3, <3>1 DEF Read, ValueAfter, ReadReturns, GetStatus
    <3>3. value'.data \in Seq(Nat) /\ value'.data # << >>
      BY <3>2 DEF InputsInv
    <3>4. value'.data[1] \in Nat
      BY <3>3, FirstIsNumber
    <3>5. Len(tx_infos) = 0
      BY <2>1
    <3> QED BY <2>1, <2>3, <3>4, <3>5
  <2> QED BY <1>5, <2>2, <2>3 DEF ReadCount, Return, Goto
<1>6. CASE ReadBody
  <2> DEFINE key == BodyKey(hash_bytes, i)
  <2>1. UNCHANGED <<height, txs_len, tx_index>> /\ pc = "2" /\ i < txs_len /\ Read("2", key)
    BY <1>6 DEF ReadBody
  <2>2. CASE UNCHANGED <<i, tx_infos>> /\ pc' \in {"return", "aborted"}
    BY <2>1, <2>2
  <2>3. CASE /\ ReadReturns("2", key) /\ pc' = "2" /\ i' = i + 1
             /\ tx_infos' = Append(tx_infos, Bytes2Hex(value'.data))
    <3>1. value'.data \in Seq(Nat)
      BY <2>1, <2>3, ReadDelivers, ColumnsExist
    <3>2. Bytes2Hex(value'.data) \in [hex : Seq(Nat)]
      BY <3>1 DEF Bytes2Hex
    <3>3. tx_infos' \in Seq([hex : Seq(Nat)]) /\ Len(tx_infos') = Len(tx_infos) + 1
      BY <2>3, <3>2
    <3> QED BY <2>1, <2>3, <3>3
  <2> QED BY <1>6, <2>2, <2>3 DEF ReadBody, Return, Goto, Reject
<1>7. CASE BodyDone
  BY <1>7 DEF BodyDone, Goto
<1>8. CASE ReadProposals
  BY <1>8 DEF ReadProposals, Return, Goto, Reject
<1>9. CASE ReadExtension
  <2>1. /\ pc = "15" /\ tx_index' = 0 /\ UNCHANGED <<height, i, txs_len, tx_infos>>
        /\ pc' = IF tx_infos = << >> THEN "6" ELSE "5"
    BY <1>9 DEF ReadExtension, Goto
  <2>2. tx_infos # << >> => 0 < Len(tx_infos)
    OBVIOUS
  <2> QED BY <2>1, <2>2
<1>10. CASE ReadInfo \/ ReadEntry
  <2>1. /\ UNCHANGED <<height, i, txs_len, tx_index, tx_infos>>
        /\ pc \in {"5", "10"} /\ pc' \in {"10", "12"}
    BY <1>10 DEF ReadInfo, ReadEntry, Goto
  <2> QED BY <2>1
<1>11. CASE ReadDataEntry
  <2>1. /\ pc = "12" /\ tx_index' = tx_index + 1 /\ UNCHANGED <<height, i, txs_len, tx_infos>>
        /\ pc' = IF tx_index' < Len(tx_infos) THEN "5" ELSE "6"
    BY <1>11 DEF ReadDataEntry, Goto
  <2> QED BY <2>1
<1>12. CASE ReadBlockExt
  BY <1>12, CountersStay DEF ReadBlockExt, Goto
<1>13. CASE WriteFile
  BY <1>13 DEF WriteFile, Goto
<1> QED
  BY <1>1, <1>2, <1>3, <1>4, <1>5, <1>6, <1>7, <1>8, <1>9, <1>10, <1>11, <1>12, <1>13
     DEF Next, Main

LEMMA ResultsStep ==
  ASSUME TypeOK, [Next]_vars
  PROVE  /\ args' \in CommandLines
         /\ exit_code' \in (-10)..0 \cup {134}
         /\ DOMAIN files' \subseteq Nat
         /\ removals' \in 0..MaxRemovals
<1>1. /\ args \in CommandLines /\ exit_code \in (-10)..0 \cup {134} /\ DOMAIN files \subseteq Nat
      /\ removals \in 0..MaxRemovals /\ height \in Nat
  BY DEF TypeOK
<1>2. UNCHANGED args
  <2>1. CASE ReadAny
    BY <2>1, ReadAnyReads DEF Read
  <2>2. CASE Construct \/ Start \/ Loop \/ ReadIndex \/ BodyDone \/ WriteFile \/ Exit
    BY <2>2 DEF Construct, Start, Loop, ReadIndex, BodyDone, WriteFile, Exit
  <2>3. CASE NodeStep \/ UNCHANGED vars
    BY <2>3 DEF NodeStep, vars
  <2> QED BY <2>1, <2>2, <2>3 DEF Next, Main, ReadAny
<1>3. DOMAIN files' \subseteq Nat
  BY <1>1, FilesStep DEF WriteFile
<1>4. exit_code' \in {exit_code, 134} \cup (-10)..0
  <2>1. CASE ReadAny
    BY <2>1 DEF ReadAny, ReadHeader, ReadUncles, ReadCount, ReadBody, ReadProposals,
       ReadExtension, ReadInfo, ReadEntry, ReadDataEntry, ReadBlockExt, Return, Goto, Reject
  <2>2. CASE Construct \/ Start \/ Loop \/ ReadIndex \/ BodyDone \/ WriteFile \/ Exit
    BY <2>2 DEF Construct, Start, Loop, ReadIndex, BodyDone, WriteFile, Exit, Return, Goto
  <2>3. CASE NodeStep \/ UNCHANGED vars
    BY <2>3 DEF NodeStep, vars
  <2> QED BY <2>1, <2>2, <2>3 DEF Next, Main, ReadAny
<1>5. removals' \in 0..MaxRemovals
  <2>1. CASE ReadAny
    BY <1>1, <2>1, ReadAnyReads DEF Read
  <2>2. CASE Construct \/ Start \/ Loop \/ ReadIndex \/ BodyDone \/ WriteFile \/ Exit
    BY <1>1, <2>2 DEF Construct, Start, Loop, ReadIndex, BodyDone, WriteFile, Exit
  <2>3. CASE NodeStep
    BY <1>1, <2>3, RemovalsBound DEF NodeStep
  <2>4. CASE UNCHANGED vars
    BY <1>1, <2>4 DEF vars
  <2> QED BY <2>1, <2>2, <2>3, <2>4 DEF Next, Main, ReadAny
<1> QED
  BY <1>1, <1>2, <1>3, <1>4, <1>5
LEMMA TypeInit == Init => TypeInv
<1> SUFFICES ASSUME Init PROVE TypeInv
  OBVIOUS
<1>1. ObjectTypeOK
  BY ObjectInitType DEF Init
<1>2. RowsInv /\ InputsInv
  BY DatabasesAssumption, FamiliesAssumption, ColumnsExist
     DEF Init, RowsInv, InputsInv, Columns
<1>3. LengthInv
  BY DEF Init, LengthInv
<1>4. StoredValue(value)
  BY DEF Init, StoredValue
<1>5. DOMAIN files = {}
  BY DEF Init
<1>6. phase = "raw" /\ pc = "start"
  BY DEF Init, ObjectInit
<1>7. TypeOK
  BY <1>1, <1>2, <1>4, <1>5, <1>6, RemovalsBound DEF Init, TypeOK, RowsInv, Columns
<1> QED BY <1>2, <1>3, <1>7 DEF TypeInv

LEMMA TypeStep == TypeInv /\ [Next]_vars => TypeInv'
<1> SUFFICES ASSUME TypeInv, [Next]_vars PROVE TypeInv'
  OBVIOUS
<1>1. TypeOK /\ InputsInv /\ RowsInv /\ LengthInv /\ StoredValue(value)
  BY DEF TypeInv, TypeOK
<1>2. Counters
  BY <1>1 DEF Counters, Labels, TypeOK
<1>3. Counters'
  BY <1>1, <1>2, CountersStep
<1>4. RowsInv'
  BY <1>1, RowsStep DEF RowsInv
<1>5. InputsInv' /\ StoredValue(value)'
  BY <1>1, InputsStep, ValueStep
<1>6. ObjectTypeOK' /\ (pc' = "done" => phase' = "gone")
  BY <1>1, ExportObjectType
<1>7. /\ args' \in CommandLines
      /\ exit_code' \in (-10)..0 \cup {134}
      /\ DOMAIN files' \subseteq Nat
      /\ removals' \in 0..MaxRemovals
  BY <1>1, ResultsStep
<1>8. TypeOK'
  BY <1>3, <1>4, <1>5, <1>6, <1>7 DEF TypeOK, Counters, Labels, RowsInv
<1> QED BY <1>3, <1>4, <1>5, <1>8 DEF TypeInv, Counters

(* The variables hold values of their types, and what counts transactions    *)
(* agrees with the list of their hashes.                                     *)
THEOREM ExportTypeAlwaysOK == Spec => []TypeOK
<1>1. TypeInv => TypeOK
  BY DEF TypeInv
<1> QED
  BY <1>1, TypeInit, TypeStep, PTL DEF Spec

-----------------------------------------------------------------------------
(***************************************************************************)
(* main() deals with the heights in order: the safety part of the          *)
(* refinement of ExportRange.                                              *)
(***************************************************************************)
(***************************************************************************)
(* While the loop runs the files are those of the heights behind it, and   *)
(* inside the body the height is one that was asked for.                   *)
(***************************************************************************)
Body == Columns \cup {"write"}

Started == /\ args.argc >= 3 /\ args.start # NaN /\ args.start \in Nat
           /\ height \in Nat /\ args.start <= height
           /\ DOMAIN files = args.start..(height - 1)

ProgressInv ==
  /\ args \in CommandLines
  /\ pc = "start" => DOMAIN files = {}
  /\ pc \in Body \cup {"loop"} => Started
  /\ pc \in Body => args.end # NaN /\ args.end \in Nat /\ height < args.end
  /\ pc = "loop" => \/ height = args.start
                    \/ args.end # NaN /\ args.end \in Nat /\ height <= args.end
  /\ pc \in {"return", "done"} /\ exit_code = 0 => DOMAIN files = Requested

ReadStep == ReadIndex \/ ReadHeader \/ ReadUncles \/ ReadCount \/ ReadBody \/ BodyDone
              \/ ReadProposals \/ ReadExtension \/ ReadInfo \/ ReadEntry \/ ReadDataEntry
              \/ ReadBlockExt

(* A read leaves the height, the arguments and the files alone, and main     *)
(* returns from the middle of the body only with a code that is not 0.       *)
LEMMA ReadStepStays ==
  ASSUME ReadStep
  PROVE  /\ pc \in Columns
         /\ UNCHANGED <<args, height, files>>
         /\ \/ pc' \in Body
            \/ pc' = "return" /\ exit_code' # 0
            \/ pc' = "aborted"
<1> USE DEF Columns, Body, Return, Goto, Reject
<1>1. CASE ReadIndex \/ BodyDone
  BY <1>1 DEF ReadIndex, BodyDone
<1>2. CASE ReadHeader \/ ReadUncles \/ ReadCount \/ ReadProposals
  BY <1>2 DEF Read, ReadHeader, ReadUncles, ReadCount, ReadProposals
<1>3. CASE ReadBody
  BY <1>3 DEF Read, ReadBody
<1>4. CASE ReadExtension \/ ReadInfo \/ ReadEntry \/ ReadDataEntry \/ ReadBlockExt
  BY <1>4 DEF Read, ReadExtension, ReadInfo, ReadEntry, ReadDataEntry, ReadBlockExt
<1> QED
  BY <1>1, <1>2, <1>3, <1>4 DEF ReadStep

LEMMA ProgressStep == ProgressInv /\ [Next]_vars => ProgressInv'
<1> SUFFICES ASSUME ProgressInv, [Next]_vars PROVE ProgressInv'
  OBVIOUS
<1> USE DEF ProgressInv, Started, Requested
<1>0. args.argc \in Nat /\ args.start \in Nat \cup {NaN} /\ args.end \in Nat \cup {NaN}
  BY CommandLinesAssumption
<1>1. CASE UNCHANGED tool
  BY <1>1
<1>2. CASE ReadStep
  BY <1>2, ReadStepStays DEF Body, Columns
<1>3. CASE Start
  BY <1>0, <1>3 DEF Start, Return, Goto, Body, Columns
<1>4. CASE Loop
  <2>1. UNCHANGED <<args, height, files>> /\ pc = "loop"
    BY <1>4 DEF Loop
  <2>2. CASE pc' = "aborted"
    BY <2>1, <2>2 DEF Body, Columns
  <2>3. CASE args.end # NaN /\ height >= args.end /\ Return(0)
    <3>1. args.start..(height - 1) = args.start..(args.end - 1)
      BY <1>0, <2>1, <2>3 DEF Body
    <3>2. Requested = args.start..(args.end - 1) /\ DOMAIN files = args.start..(height - 1)
      BY <1>0, <2>1, <2>3 DEF Body
    <3>3. (DOMAIN files = Requested)'
      BY <2>1, <3>1, <3>2
    <3> QED BY <2>1, <2>3, <3>3 DEF Body, Columns, Return
  <2>4. CASE args.end # NaN /\ height < args.end /\ Goto("0")
    BY <1>0, <2>1, <2>4 DEF Body, Columns, Goto
  <2> QED BY <1>4, <2>2, <2>3, <2>4 DEF Loop
<1>5. CASE WriteFile
  <2>1. /\ pc = "write" /\ pc' = "loop" /\ UNCHANGED args /\ height' = height + 1
        /\ DOMAIN files' = DOMAIN files \cup {height}
    BY <1>5 DEF WriteFile, Goto
  <2>2. Started /\ args.end # NaN /\ args.end \in Nat /\ height < args.end
    BY <2>1 DEF Body
  <2>3. (args.start..(height - 1)) \cup {height} = args.start..(height + 1 - 1)
    BY <2>2
  <2> QED BY <2>1, <2>2, <2>3 DEF Body, Columns
<1>6. CASE Exit
  BY <1>6 DEF Exit, Goto, Body, Columns
<1> QED
  BY <1>1, <1>2, <1>3, <1>4, <1>5, <1>6
  DEF Next, Main, ReadStep, Construct, NodeStep, vars

LEMMA ProgressInit == Init => ProgressInv
  BY DEF Init, ProgressInv, Body, Columns

-----------------------------------------------------------------------------
(* No step of the tool touches the file of an earlier height: what is        *)
(* written is the file of the height the loop is at, which has none yet.     *)
LEMMA FilesKept ==
  ProgressInv /\ [Next]_vars =>
    \A h \in DOMAIN files : h \in DOMAIN files' /\ files'[h] = files[h]
<1> SUFFICES ASSUME ProgressInv, [Next]_vars
             PROVE  \A h \in DOMAIN files : h \in DOMAIN files' /\ files'[h] = files[h]
  OBVIOUS
<1>1. CASE UNCHANGED files
  BY <1>1
<1>2. CASE WriteFile
  <2>1. height \notin DOMAIN files
    BY <1>2 DEF ProgressInv, WriteFile, Started, Body
  <2> QED BY <1>2, <2>1 DEF WriteFile
<1>3. CASE ReadStep
  BY <1>1, <1>3, ReadStepStays
<1> QED
  BY <1>1, <1>2, <1>3
  DEF Next, Main, ReadStep, Construct, NodeStep, Start, Loop, Exit, vars

(* The file of an earlier height is never written again.                     *)
THEOREM WrittenOnceAlways == Spec => WrittenOnce
<1>1. ProgressInv /\ [Next]_vars
        => [\A h \in DOMAIN files : h \in DOMAIN files' /\ files'[h] = files[h]]_vars
  BY FilesKept
<1> QED
  BY <1>1, ProgressInit, ProgressStep, PTL DEF Spec, WrittenOnce

-----------------------------------------------------------------------------
(* Every step of the tool or of the node is a step of ExportRange or leaves  *)
(* its variables unchanged.                                                  *)
LEMMA RefinementStep ==
  ProgressInv /\ [Next]_vars => [Abstract!Next]_(Abstract!vars)
<1> SUFFICES ASSUME ProgressInv, [Next]_vars PROVE [Abstract!Next]_(Abstract!vars)
  OBVIOUS
<1> USE DEF Abstract!Next, Abstract!vars, Abstract!Export, Abstract!Complete, Abstract!Fail
<1>0. args.argc \in Nat /\ args.start \in Nat \cup {NaN} /\ args.end \in Nat \cup {NaN}
  BY CommandLinesAssumption DEF ProgressInv
<1>1. CASE UNCHANGED tool
  BY <1>1 DEF Requested, Outcome
<1>2. CASE ReadStep
  <2>1. Outcome = "running" /\ Outcome' \in {"running", "failed"}
    BY <1>2, ReadStepStays DEF Outcome, Body, Columns
  <2>2. UNCHANGED <<Requested, files>>
    BY <1>2, ReadStepStays DEF Requested
  <2> QED BY <2>1, <2>2
<1>3. CASE Start
  <2>1. UNCHANGED <<args, files>> /\ pc = "start" /\ DOMAIN files = {}
    BY <1>3 DEF Start, ProgressInv
  <2>2. CASE pc' = "loop" \/ pc' = "aborted" \/ (pc' = "return" /\ exit_code' = -1)
    BY <2>1, <2>2 DEF Requested, Outcome
  <2>3. CASE args.argc < 3 /\ Return(0)
    BY <2>1, <2>3 DEF Requested, Outcome, Return
  <2> QED BY <1>3, <2>2, <2>3 DEF Start, Return, Goto
<1>4. CASE Loop
  <2>1. UNCHANGED <<args, height, files>> /\ pc = "loop" /\ Started
    BY <1>4 DEF Loop, ProgressInv
  <2>2. CASE pc' \in {"aborted", "0"}
    BY <2>1, <2>2 DEF Requested, Outcome
  <2>3. CASE Return(0)
    <3>1. DOMAIN files' = Requested'
      BY <2>3, ProgressStep DEF ProgressInv, Return
    <3> QED BY <2>1, <2>3, <3>1 DEF Requested, Outcome, Return
  <2> QED BY <1>4, <2>2, <2>3 DEF Loop, Goto
<1>5. CASE WriteFile
  <2>1. /\ pc = "write" /\ pc' = "loop" /\ UNCHANGED args
        /\ DOMAIN files' = DOMAIN files \cup {height}
    BY <1>5 DEF WriteFile, Goto
  <2>2. Started /\ args.end # NaN /\ args.end \in Nat /\ height < args.end
    BY <2>1 DEF ProgressInv, Body
  <2>3. Requested = args.start..(args.end - 1)
    BY <1>0, <2>2 DEF Requested, Started
  <2>4. /\ height \in Requested \ DOMAIN files
        /\ \A g \in Requested \ DOMAIN files : height <= g
    BY <2>2, <2>3 DEF Started
  <2>5. Outcome = "running" /\ Outcome' = "running" /\ UNCHANGED Requested
    BY <2>1 DEF Outcome, Requested
  <2> QED BY <2>1, <2>4, <2>5, FilesKept
<1>6. CASE Exit
  BY <1>6 DEF Exit, Goto, Requested, Outcome
<1> QED
  BY <1>1, <1>2, <1>3, <1>4, <1>5, <1>6
  DEF Next, Main, ReadStep, Construct, NodeStep, vars

LEMMA RefinementInit == Init => Abstract!Init
<1> SUFFICES ASSUME Init PROVE Abstract!Init
  OBVIOUS
<1>1. args.start \in Nat \cup {NaN} /\ args.end \in Nat \cup {NaN}
  BY CommandLinesAssumption DEF Init
<1>2. Requested = {} \/ /\ args.start \in Nat /\ args.end \in Nat
                        /\ Requested = args.start..(args.end - 1)
  BY <1>1 DEF Requested
<1>3. Requested \in SUBSET Nat /\ \A g, h \in Requested : g..h \subseteq Requested
  BY <1>2
<1>4. IsFiniteSet(Requested)
  <2>1. CASE Requested = {}
    BY <2>1, FS_EmptySet
  <2>2. CASE Requested # {}
    <3>1. args.start \in Int /\ args.end - 1 \in Int
      BY <1>2, <2>2
    <3>2. IsFiniteSet(args.start..(args.end - 1))
      BY <3>1, FS_Interval
    <3> QED BY <1>2, <2>2, <3>2
  <2> QED BY <2>1, <2>2
<1>5. DOMAIN files = {} /\ Outcome = "running"
  BY DEF Init, Outcome
<1> QED
  BY <1>3, <1>4, <1>5 DEF Abstract!Init, Abstract!IsFiniteSet, IsFiniteSet

(* Every behaviour of main() is, as far as safety goes, a behaviour of       *)
(* ExportRange: the requested heights are dealt with from the lowest up, and *)
(* completion is reported only when all of them are.                         *)
THEOREM ExportsInOrder == Spec => Abstract!Safety
  BY ProgressInit, ProgressStep, RefinementInit, RefinementStep, PTL DEF Spec, Abstract!Safety
-----------------------------------------------------------------------------
(***************************************************************************)
(* What stands in the documents and what the exit code says: the lists     *)
(* that grow from read to read, the members that stay from block to block, *)
(* and the reads that fail.                                                *)
(***************************************************************************)
HIDE DEF Behind1, Behind3, Behind7, Behind15, HashAt

(***************************************************************************)
(* Front: the own transactions are still to be read.  Rear: they all are.  *)
(* Optional: the columns a block may lack are read.                        *)
(***************************************************************************)
Front == {"loop", "0", "1", "3", "13"}
Optional == {"5", "10", "12", "6", "write"}
Rear == {"7", "15"} \cup Optional
BehindCount == {"2"} \cup Rear

(***************************************************************************)
(* From the first conversion of an argument on the object is open, and it  *)
(* has a handle for every column the constructor listed.                   *)
(***************************************************************************)
HandlesInv ==
  /\ pc = "start" /\ phase = "built" /\ status = "OK" => init_success_
  /\ pc \in Body \cup {"loop"} => init_success_
  /\ init_success_ => DOMAIN column_family_handles_ = Elements(names)

(***************************************************************************)
(* The count is this block's, the index has come to it when the loop over  *)
(* the body is over, and the hashes kept are those of this block's body.   *)
(***************************************************************************)
CountInv ==
  /\ pc \in BehindCount => /\ txs_len = CountAt(height)
                           /\ Len(tx_infos) = i
                           /\ \A n \in 0..(Len(tx_infos) - 1) :
                                /\ tx_infos[n + 1] = Bytes2Hex(BodyAt(height, n).data)
                                /\ BodyAt(height, n).data \in Seq(Nat)
  /\ pc \in Rear => i = txs_len

(***************************************************************************)
(* txs has the transactions of all heights from args.start up to h - 1,    *)
(* and then n of those of h; at[g] is where those of g begin.              *)
(***************************************************************************)
Laid(at, txs, h, n) ==
  /\ at[args.start] = 0
  /\ Len(txs) = at[h] + n
  /\ \A g \in args.start..(h - 1) :
       /\ CountAt(g) \in Nat /\ at[g + 1] = at[g] + CountAt(g)
       /\ \A m \in 1..CountAt(g) : txs[at[g] + m] = <<"2", HashAt(g) \o <<m - 1>>>>
  /\ \A m \in 1..n : txs[at[h] + m] = <<"2", HashAt(h) \o <<m - 1>>>>

Offsets(txs, h) == [args.start..h -> 0..Len(txs)]

TransactionIds == {<<"2", key>> : key \in DOMAIN rows["2"]}

TransactionsInv ==
  /\ block.transactions \in Seq(TransactionIds)
  /\ pc = "start" => block.transactions = << >>
  /\ pc \in Front => \E at \in Offsets(block.transactions, height) :
                       Laid(at, block.transactions, height, 0)
  /\ pc \in BehindCount => \E at \in Offsets(block.transactions, height) :
                             Laid(at, block.transactions, height, i)

(***************************************************************************)
(* The extension shown is that of the latest height up to `last' with one. *)
(***************************************************************************)
NoExtension(g) == ~Readable("15", HashAt(g))
Latest(ext, last) ==
  \/ ext = Null /\ \A g \in args.start..last : NoExtension(g)
  \/ \E g \in args.start..last : /\ ext = Bytes2Hex(<<"15", HashAt(g)>>)
                                 /\ \A f \in (g + 1)..last : NoExtension(f)

ExtensionInv ==
  /\ pc = "start" => block.extension = Null
  /\ pc = "15" => status = "OK" /\ value.id = <<"7", hash_bytes>>
  /\ Mapped("15") /\ pc \in Front \cup {"2", "7", "15"} => Latest(block.extension, height - 1)
  /\ Mapped("15") /\ pc \in Optional => Latest(block.extension, height)
  /\ ~Mapped("15") /\ pc \in Optional => block.extension = Bytes2Hex(<<"7", HashAt(height)>>)

(***************************************************************************)
(* What a read of a column that is not there leaves in value is a row of   *)
(* this block all the same, or else the Status says that it is stale.      *)
(***************************************************************************)
Prefixes(h) == {HashAt(h)} \cup {BodyAt(h, n).data : n \in 0..(CountAt(h) - 1)}
RowIds == UNION {{<<cf, key>> : key \in DOMAIN rows[cf]} : cf \in ColumnFamilies}
OwnIds(h) == {id \in RowIds : \E p \in Prefixes(h) : SubSeq(id[2], 1, Len(p)) = p}

OptionalInv ==
  /\ pc \in Body \ {"0"} => hash_bytes \in Seq(Nat)
  /\ pc \in Body \ Optional => json.info = << >> /\ json.entry = << >> /\ json.data_entry = << >>
  /\ pc \in Body \ {"write"} => json.block_ext = Null
  /\ pc \in {"15"} \cup Optional => (status = "OK" => value.id \in OwnIds(height))
  /\ pc \in Optional => /\ json.info \in Seq(OwnIds(height))
                        /\ json.entry \in Seq(OwnIds(height))
                        /\ json.data_entry \in Seq(OwnIds(height))
                        /\ json.block_ext \in OwnIds(height) \cup {Null}

(***************************************************************************)
(* info has the records of the first n transactions, in their order.       *)
(***************************************************************************)
Recorded(info, h, n, of) ==
  /\ \A m \in DOMAIN info : info[m] = <<"5", BodyAt(h, of[m]).data>>
  /\ \A l, m \in DOMAIN info : l < m => of[l] < of[m]
  /\ \A k \in 0..(n - 1) : Parsable("5", BodyAt(h, k).data) => \E m \in DOMAIN info : of[m] = k

Records(info, h, n) == \E of \in [DOMAIN info -> 0..(n - 1)] : Recorded(info, h, n, of)

BlockExtOf(ext, h) == /\ ext \in {Null, <<"6", HashAt(h)>>}
                      /\ Parsable("6", HashAt(h)) => ext # Null

InfoInv ==
  /\ Mapped("5") => /\ pc = "5" => Records(json.info, height, tx_index)
                    /\ pc \in {"10", "12"} => Records(json.info, height, tx_index + 1)
                    /\ pc \in {"6", "write"} => Records(json.info, height, CountAt(height))
  /\ Mapped("6") /\ pc = "write" => BlockExtOf(json.block_ext, height)

(***************************************************************************)
(* The lists of cells have at most the first output's, and before the read *)
(* for the first transaction nothing.                                      *)
(***************************************************************************)
FirstCell(cf, list, h) ==
  list = << >> \/ list = <<(<<cf, BodyAt(h, 0).data \o <<0>>>>)>>

CellsInv ==
  /\ rows \in Databases
  /\ pc \in BehindCount => txs_len < 65536
  /\ Mapped("10") => /\ pc \in Optional => FirstCell("10", json.entry, height)
                     /\ pc \in {"5", "10"} /\ tx_index = 0 => json.entry = << >>
  /\ Mapped("12") => /\ pc \in Optional => FirstCell("12", json.data_entry, height)
                     /\ pc \in {"5", "10", "12"} /\ tx_index = 0 => json.data_entry = << >>

-----------------------------------------------------------------------------
(***************************************************************************)
(* What a step leaves alone: the node only makes rows unreadable, and the  *)
(* names are the constructor's once main has looked at the Status.         *)
(***************************************************************************)
LEMMA StepFrame ==
  ASSUME FaultInv, [Next]_vars
  PROVE  /\ rows' = rows /\ args' = args
         /\ unreadable \subseteq unreadable'
         /\ pc # "start" => names' = names
<1>1. rows' = rows
  BY RowsStep
<1>2. CASE ReadAny
  BY <1>1, <1>2, ReadAnyReads DEF Read
<1>3. CASE Start \/ Loop \/ ReadIndex \/ BodyDone \/ WriteFile
  BY <1>3 DEF Start, Loop, ReadIndex, BodyDone, WriteFile
<1>4. CASE Construct
  BY <1>4 DEF Construct, ListColumnFamilies, OpenForReadOnly, FaultInv
<1>5. CASE Exit
  BY <1>5 DEF Exit, Destroy
<1>6. CASE NodeStep \/ UNCHANGED vars
  BY <1>6 DEF NodeStep, NodeRemovesFile, vars
<1> QED
  BY <1>1, <1>2, <1>3, <1>4, <1>5, <1>6 DEF Next, Main, ReadAny

LEMMA HandlesStep == FaultInv /\ HandlesInv /\ [Next]_vars => HandlesInv'
<1> SUFFICES ASSUME FaultInv, HandlesInv, [Next]_vars PROVE HandlesInv'
  OBVIOUS
<1> USE DEF HandlesInv, Elements
<1>1. CASE UNCHANGED <<object, status>> /\ (pc' = "start" => pc = "start")
           /\ (pc' \in Body \cup {"loop"} => pc \in Body \cup {"loop"})
  BY <1>1
<1>2. CASE Construct
  <2>1. pc = "start" /\ UNCHANGED pc /\ "start" \notin Body \cup {"loop"}
    BY <1>2 DEF Construct, ListColumnFamilies, OpenForReadOnly, FaultInv, Body, Columns
  <2>2. CASE ListColumnFamilies
    BY <1>2, <2>1, <2>2 DEF ListColumnFamilies
  <2>3. CASE OpenForReadOnly
    BY <1>2, <2>1, <2>3 DEF OpenForReadOnly
  <2> QED BY <1>2, <2>2, <2>3 DEF Construct
<1>3. CASE Start
  BY <1>3 DEF Start, Goto, Return, Body, Columns
<1>4. CASE Loop \/ WriteFile
  BY <1>1, <1>4 DEF Loop, WriteFile, Goto, Return, Body
<1>5. CASE ReadStep
  <2>1. UNCHANGED object /\ pc \in Columns /\ pc' # "start"
    <3>1. CASE ReadAny
      BY <3>1, <1>5, ReadAnyReads, ReadStepStays DEF Read, Body, Columns
    <3>2. CASE ReadIndex \/ BodyDone
      BY <3>2 DEF ReadIndex, BodyDone, Goto, Return, Columns
    <3> QED BY <1>5, <3>1, <3>2 DEF ReadStep, ReadAny
  <2> QED BY <2>1 DEF Body, Columns
<1>6. CASE Exit
  BY <1>6 DEF Exit, Destroy, Goto, Body, Columns
<1>7. CASE NodeStep \/ UNCHANGED vars
  BY <1>1, <1>7 DEF NodeStep, NodeRemovesFile, vars
<1> QED
  BY <1>2, <1>3, <1>4, <1>5, <1>6, <1>7 DEF Next, Main, ReadStep

(***************************************************************************)
(* The invariants proved so far.                                           *)
(***************************************************************************)
BaseInv == TypeInv /\ OwnInv /\ FaultInv /\ ProgressInv /\ HandlesInv

LEMMA BaseAlways == Spec => []BaseInv
<1>1. Init => HandlesInv
  BY DEF Init, ObjectInit, HandlesInv, Body, Columns
<1>2. Init => TypeInv /\ OwnInv /\ FaultInv /\ ProgressInv
  BY TypeInit, OwnInit, FaultInit, ProgressInit
<1> QED
  BY <1>1, <1>2, TypeStep, OwnStep, FaultStep, ProgressStep, HandlesStep, PTL
     DEF Spec, BaseInv

(* The three outcomes of a ReadData of main.                                 *)
LEMMA ReadOutcome ==
  ASSUME BaseInv, pc \in Columns, NEW cf \in ColumnFamilies, NEW key, Read(cf, key)
  PROVE  /\ ReadReturns(cf, key) => /\ Mapped(cf) /\ Readable(cf, key)
                                    /\ status' = "OK" /\ value' = rows[cf][key]
                                    /\ value'.id = <<cf, key>> /\ value'.data \in Seq(Nat)
         /\ ~ReadReturns(cf, key) /\ Mapped(cf) =>
              ~Readable(cf, key) /\ status' # "OK" /\ value' = value
         /\ ~Mapped(cf) => ~ReadReturns(cf, key) /\ UNCHANGED <<status, value>>
<1>1. HasHandle(cf) <=> Mapped(cf)
  BY DEF BaseInv, HandlesInv, Body, HasHandle, Mapped
<1>2. GetStatus(cf, key) = "OK" <=> Readable(cf, key)
  BY DEF GetStatus, Readable
<1>3. ReadReturns(cf, key) => value' = rows[cf][key] /\ value'.id = <<cf, key>>
                               /\ value'.data \in Seq(Nat)
  BY ReadDelivers DEF BaseInv, OwnInv
<1> QED
  BY <1>1, <1>2, <1>3 DEF Read, ReadReturns, StatusAfter, ValueAfter

-----------------------------------------------------------------------------
(* The hash main goes by is that of this height from the read of column 0    *)
(* on, and the blocks of the database do not change.                         *)
LEMMA HashKnown == BaseInv /\ pc \in Body \ {"0"} => hash_bytes = HashAt(height)
  BY DEF BaseInv, OwnInv, AssemblyInv, Behind1, Body, Columns

LEMMA BlocksStay ==
  ASSUME [Next]_vars
  PROVE  \A h : /\ HashAt(h)' = HashAt(h)
                /\ CountAt(h)' = CountAt(h)
                /\ \A n : BodyAt(h, n)' = BodyAt(h, n)
  BY RowsStep DEF HashAt, CountAt, BodyAt

LEMMA CountStep == BaseInv /\ CountInv /\ [Next]_vars => CountInv'
<1> SUFFICES ASSUME BaseInv, CountInv, [Next]_vars PROVE CountInv'
  OBVIOUS
<1> USE DEF BehindCount, Rear, Optional
<1>r. \A h : /\ HashAt(h)' = HashAt(h)
             /\ CountAt(h)' = CountAt(h)
             /\ \A n : BodyAt(h, n)' = BodyAt(h, n)
  BY BlocksStay
<1>s. ASSUME UNCHANGED <<height, txs_len, tx_infos, i>>,
             pc' \in BehindCount => pc \in BehindCount,
             pc' \in Rear => pc \in Rear
      PROVE  CountInv'
  BY <1>r, <1>s DEF CountInv
<1>n. ASSUME pc' \notin BehindCount PROVE CountInv'
  BY <1>n DEF CountInv
<1>1. CASE Start \/ Loop \/ WriteFile \/ ReadIndex \/ ReadHeader \/ ReadUncles \/ Exit
  BY <1>1, <1>n DEF Start, Loop, WriteFile, ReadIndex, ReadHeader, ReadUncles, Exit,
                    Return, Goto, Reject
<1>2. CASE ReadCount
  <2>1. CASE pc' = "2"
    <3>1. /\ pc = "13" /\ Read("13", NumberHashKey) /\ ReadReturns("13", NumberHashKey)
          /\ txs_len' = value'.data[1] /\ i' = 0 /\ UNCHANGED <<height, hash_bytes, tx_infos>>
      BY <1>2, <2>1 DEF ReadCount, Return, Goto
    <3>2. value' = rows["13"][NumberHashKey]
      BY <3>1, ReadDelivers, ColumnsExist DEF BaseInv, OwnInv, Columns
    <3>3. tx_infos = << >> /\ hash_bytes = HashAt(height)
      BY <3>1, HashKnown DEF BaseInv, TypeInv, LengthInv, Body, Columns
    <3>4. txs_len' = CountAt(height)
      BY <3>1, <3>2, <3>3 DEF CountAt, NumberHashKey
    <3>5. Len(tx_infos') = 0
      BY <3>1, <3>3
    <3>6. CountAt(height)' = CountAt(height)
      BY <1>r, <3>1
    <3> QED BY <2>1, <3>1, <3>4, <3>5, <3>6 DEF CountInv
  <2>2. CASE pc' # "2"
    BY <1>2, <1>n, <2>2 DEF ReadCount, Return, Goto
  <2> QED BY <2>1, <2>2
<1>3. CASE ReadBody
  <2> DEFINE key == BodyKey(hash_bytes, i)
  <2>1. CASE pc' = "2"
    <3>1. /\ pc = "2" /\ Read("2", key) /\ ReadReturns("2", key)
          /\ i' = i + 1 /\ tx_infos' = Append(tx_infos, Bytes2Hex(value'.data))
          /\ UNCHANGED <<height, hash_bytes, txs_len>>
      BY <1>3, <2>1 DEF ReadBody, Return, Goto, Reject
    <3>2. value' = rows["2"][key] /\ value'.data \in Seq(Nat)
      BY <3>1, ReadDelivers, ColumnsExist DEF BaseInv, OwnInv, Columns
    <3>3. hash_bytes = HashAt(height) /\ i \in Nat /\ Len(tx_infos) = i
            /\ tx_infos \in Seq([hex : Seq(Nat)])
      BY <3>1, HashKnown DEF BaseInv, TypeInv, TypeOK, LengthInv, Body, Columns
    <3>4. value'.data = BodyAt(height, i).data
      BY <3>2, <3>3 DEF BodyAt, BodyKey
    <3>5. Bytes2Hex(value'.data) \in [hex : Seq(Nat)]
      BY <3>2 DEF Bytes2Hex
    <3>6. /\ Len(tx_infos') = i + 1
          /\ \A n \in 0..(i - 1) : tx_infos'[n + 1] = tx_infos[n + 1]
          /\ tx_infos'[i + 1] = Bytes2Hex(BodyAt(height, i).data)
      BY <3>1, <3>3, <3>4, <3>5
    <3>7. \A n \in 0..i : /\ tx_infos'[n + 1] = Bytes2Hex(BodyAt(height, n).data)
                          /\ BodyAt(height, n).data \in Seq(Nat)
      BY <3>1, <3>2, <3>3, <3>4, <3>6 DEF CountInv
    <3>8. \A n : BodyAt(height, n)' = BodyAt(height, n)
      BY <1>r, <3>1
    <3>9. CountAt(height)' = CountAt(height) /\ txs_len = CountAt(height)
      BY <1>r, <3>1 DEF CountInv
    <3> QED BY <2>1, <3>1, <3>3, <3>6, <3>7, <3>8, <3>9 DEF CountInv
  <2>2. CASE pc' # "2"
    BY <1>3, <1>n, <2>2 DEF ReadBody, Return, Goto, Reject
  <2> QED BY <2>1, <2>2
<1>4. CASE BodyDone
  <2>1. /\ pc = "2" /\ pc' = "7" /\ i >= txs_len /\ UNCHANGED <<height, txs_len, tx_infos, i>>
    BY <1>4 DEF BodyDone, Goto
  <2>2. i \in Nat /\ txs_len \in Nat /\ i <= txs_len
    BY <2>1 DEF BaseInv, TypeInv, TypeOK, Columns
  <2>3. i = txs_len
    BY <2>1, <2>2
  <2> QED BY <1>r, <2>1, <2>3 DEF CountInv
<1>5. CASE ReadProposals
  BY <1>5, <1>s DEF ReadProposals, Return, Goto, Reject
<1>6. CASE ReadExtension \/ ReadInfo \/ ReadEntry \/ ReadDataEntry \/ ReadBlockExt
  BY <1>6, <1>s DEF ReadExtension, ReadInfo, ReadEntry, ReadDataEntry, ReadBlockExt, Goto
<1>7. CASE Construct \/ NodeStep \/ UNCHANGED vars
  BY <1>7, <1>s DEF Construct, NodeStep, vars
<1> QED
  BY <1>1, <1>2, <1>3, <1>4, <1>5, <1>6, <1>7 DEF Next, Main

-----------------------------------------------------------------------------
(***************************************************************************)
(* The transactions.  What is appended is the next one of this height, and *)
(* when the document is written the offset of the next height is known.    *)
(***************************************************************************)
LEMMA LaidEmpty ==
  ASSUME args.start \in Nat
  PROVE  \E at \in Offsets(<< >>, args.start) : Laid(at, << >>, args.start, 0)
<1> DEFINE at == [g \in args.start..args.start |-> 0]
<1>1. at \in Offsets(<< >>, args.start) /\ at[args.start] = 0
  BY DEF Offsets
<1>2. args.start..(args.start - 1) = {} /\ 1..0 = {} /\ Len(<< >>) = 0
  OBVIOUS
<1> QED BY <1>1, <1>2 DEF Laid

LEMMA LaidAppend ==
  ASSUME args.start \in Nat, NEW h \in Nat, args.start <= h, NEW n \in Nat,
         NEW S, NEW txs \in Seq(S), <<"2", HashAt(h) \o <<n>>>> \in S,
         NEW at \in Offsets(txs, h), Laid(at, txs, h, n),
         NEW longer, longer = Append(txs, <<"2", HashAt(h) \o <<n>>>>)
  PROVE  at \in Offsets(longer, h) /\ Laid(at, longer, h, n + 1)
<1> DEFINE tx == <<"2", HashAt(h) \o <<n>>>>
<1>1. Len(longer) = Len(txs) + 1 /\ Len(txs) \in Nat
  OBVIOUS
<1>2. \A k \in 1..Len(txs) : longer[k] = txs[k]
  OBVIOUS
<1>3. longer[Len(txs) + 1] = tx
  <2> HIDE DEF tx
  <2>1. tx \in S /\ longer = Append(txs, tx)
    BY DEF tx
  <2>2. Append(txs, tx)[Len(txs) + 1] = tx
    BY <2>1, AppendedLast
  <2> QED BY <2>1, <2>2
<1>4. at[args.start] = 0 /\ Len(txs) = at[h] + n
  BY DEF Laid
<1>5. \A g \in args.start..h : at[g] \in Nat /\ at[g] <= Len(txs)
  <2>1. \A g \in args.start..h : at[g] \in 0..Len(txs)
    BY DEF Offsets
  <2> QED BY <1>1, <2>1
<1>6. ASSUME NEW g \in args.start..(h - 1)
      PROVE  /\ CountAt(g) \in Nat /\ at[g + 1] = at[g] + CountAt(g)
             /\ \A m \in 1..CountAt(g) : longer[at[g] + m] = <<"2", HashAt(g) \o <<m - 1>>>>
  <2>1. CountAt(g) \in Nat /\ at[g + 1] = at[g] + CountAt(g)
    BY DEF Laid
  <2>2. at[g] \in Nat /\ at[g + 1] <= Len(txs)
    <3>1. g \in args.start..h /\ g + 1 \in args.start..h
      OBVIOUS
    <3> QED BY <1>5, <3>1
  <2>3. ASSUME NEW m \in 1..CountAt(g)
        PROVE  longer[at[g] + m] = <<"2", HashAt(g) \o <<m - 1>>>>
    <3>1. at[g] + m \in 1..Len(txs)
      <4>1. \A a, c, b, len \in Nat :
              b = a + c /\ b <= len /\ m \in 1..c => a + m \in 1..len
        OBVIOUS
      <4>2. \A a, c \in Nat : a + c \in Nat
        OBVIOUS
      <4>3. at[g] \in Nat /\ at[g + 1] \in Nat
        BY <2>1, <2>2, <4>2, Zenon
      <4> QED BY <1>1, <2>1, <2>2, <4>1, <4>3, Zenon
    <3>2. txs[at[g] + m] = <<"2", HashAt(g) \o <<m - 1>>>>
      BY DEF Laid
    <3> QED BY <1>2, <3>1, <3>2
  <2> QED BY <2>1, <2>3
<1>7. at[h] \in Nat
  BY <1>5
<1>8. ASSUME NEW m \in 1..(n + 1)
      PROVE  longer[at[h] + m] = <<"2", HashAt(h) \o <<m - 1>>>>
  <2>1. CASE m = n + 1
    <3>1. at[h] + m = Len(txs) + 1 /\ m - 1 = n
      BY <1>4, <1>7, <2>1
    <3> QED BY <1>3, <3>1
  <2>2. CASE m # n + 1
    <3>1. m \in 1..n
      BY <2>2
    <3>2. at[h] + m \in 1..Len(txs)
      <4>1. \A a, len \in Nat : len = a + n => a + m \in 1..len
        BY <3>1
      <4> QED BY <1>1, <1>4, <1>7, <4>1, Zenon
    <3>3. txs[at[h] + m] = <<"2", HashAt(h) \o <<m - 1>>>>
      BY <3>1 DEF Laid
    <3> QED BY <1>2, <3>2, <3>3
  <2> QED BY <2>1, <2>2
<1>9. at \in Offsets(longer, h)
  BY <1>1 DEF Offsets
<1>10. Len(longer) = at[h] + (n + 1)
  BY <1>1, <1>4, <1>7
<1> QED
  BY <1>4, <1>6, <1>8, <1>9, <1>10 DEF Laid

LEMMA LaidNext ==
  ASSUME args.start \in Nat, NEW h \in Nat, args.start <= h, CountAt(h) \in Nat,
         NEW S, NEW txs \in Seq(S),
         NEW at \in Offsets(txs, h), Laid(at, txs, h, CountAt(h))
  PROVE  \E next \in Offsets(txs, h + 1) : Laid(next, txs, h + 1, 0)
<1> DEFINE next == [g \in args.start..(h + 1) |-> IF g = h + 1 THEN Len(txs) ELSE at[g]]
<1>1. \A g \in args.start..h : at[g] \in 0..Len(txs) /\ next[g] = at[g]
  BY DEF Offsets
<1>2. next[h + 1] = Len(txs) /\ Len(txs) \in Nat /\ next[h + 1] = next[h] + CountAt(h)
  BY <1>1 DEF Laid
<1>3. next \in Offsets(txs, h + 1)
  BY <1>1, <1>2 DEF Offsets
<1>4. next[args.start] = 0
  BY <1>1 DEF Laid
<1> HIDE DEF next
<1>5. ASSUME NEW g \in args.start..h
      PROVE  /\ CountAt(g) \in Nat /\ next[g + 1] = next[g] + CountAt(g)
             /\ \A m \in 1..CountAt(g) : txs[next[g] + m] = <<"2", HashAt(g) \o <<m - 1>>>>
  <2>1. CASE g = h
    BY <1>1, <1>2, <2>1 DEF Laid
  <2>2. CASE g # h
    <3>1. g \in args.start..(h - 1) /\ g + 1 \in args.start..h
      BY <2>2
    <3>2. next[g] = at[g] /\ next[g + 1] = at[g + 1]
      BY <1>1, <3>1
    <3>3. /\ CountAt(g) \in Nat /\ at[g + 1] = at[g] + CountAt(g)
          /\ \A m \in 1..CountAt(g) : txs[at[g] + m] = <<"2", HashAt(g) \o <<m - 1>>>>
      BY <3>1, Zenon DEF Laid
    <3> QED BY <3>2, <3>3, Zenon
  <2> QED BY <2>1, <2>2
<1>6. (h + 1) - 1 = h /\ Len(txs) = next[h + 1] + 0 /\ 1..0 = {}
  BY <1>2
<1>7. Laid(next, txs, h + 1, 0)
  BY <1>4, <1>5, <1>6 DEF Laid
<1> QED BY <1>3, <1>7

(* Only the loop over the body appends a transaction, and only the read of   *)
(* column 15 assigns the extension.                                          *)
LEMMA MembersStep ==
  ASSUME BaseInv, [Next]_vars
  PROVE  /\ (ReadBody /\ pc' = "2") \/ block'.transactions = block.transactions
         /\ ReadExtension \/ block'.extension = block.extension
<1>0. IsBlock(block)
  BY DEF BaseInv, OwnInv, AssemblyInv
<1> USE DEF Return, Goto, Reject
<1>1. CASE UNCHANGED block
  BY <1>1
<1>2. CASE ReadHeader
  BY <1>0, <1>1, <1>2, SetHeader DEF ReadHeader
<1>3. CASE ReadUncles
  BY <1>0, <1>1, <1>3, SetUncles DEF ReadUncles
<1>4. CASE ReadBody
  <2>1. CASE UNCHANGED block
    BY <1>1, <2>1
  <2>2. CASE pc' = "2" /\ block' = [block EXCEPT !.transactions = Append(block.transactions, value'.id)]
    BY <1>0, <1>4, <2>2, SetTransactions
  <2> QED BY <1>4, <2>1, <2>2 DEF ReadBody
<1>5. CASE ReadProposals
  BY <1>0, <1>1, <1>5, SetProposals DEF ReadProposals
<1>6. CASE ReadExtension
  BY <1>0, <1>1, <1>6, SetExtension DEF ReadExtension
<1>7. CASE Construct \/ Start \/ Loop \/ ReadIndex \/ ReadCount \/ BodyDone \/ ReadInfo
            \/ ReadEntry \/ ReadDataEntry \/ ReadBlockExt \/ WriteFile \/ Exit
            \/ NodeStep \/ UNCHANGED vars
  BY <1>1, <1>7 DEF Construct, Start, Loop, ReadIndex, ReadCount, BodyDone, ReadInfo,
     ReadEntry, ReadDataEntry, ReadBlockExt, WriteFile, Exit, NodeStep, vars
<1> QED
  BY <1>2, <1>3, <1>4, <1>5, <1>6, <1>7 DEF Next, Main

LEMMA TransactionsStep ==
  BaseInv /\ CountInv /\ TransactionsInv /\ [Next]_vars => TransactionsInv'
<1> SUFFICES ASSUME BaseInv, CountInv, TransactionsInv, [Next]_vars PROVE TransactionsInv'
  OBVIOUS
<1> USE DEF BehindCount, Rear, Optional, Front
<1>r. /\ rows' = rows /\ args' = args
      /\ \A h : HashAt(h)' = HashAt(h) /\ CountAt(h)' = CountAt(h)
  BY StepFrame, BlocksStay DEF BaseInv
<1>o. \A txs, h : Offsets(txs, h)' = Offsets(txs, h)
  BY <1>r DEF Offsets
<1>d. ASSUME NEW at, NEW txs, NEW h, NEW n PROVE Laid(at, txs, h, n)' <=> Laid(at, txs, h, n)
  BY <1>r DEF Laid
<1>g. /\ pc \in Front \cup BehindCount => args.start \in Nat /\ args.start <= height
      /\ height \in Nat
  BY DEF BaseInv, ProgressInv, Started, Body, Columns, TypeInv, TypeOK
<1>t. (block.transactions \in Seq(TransactionIds))' <=> block'.transactions \in Seq(TransactionIds)
  BY <1>r DEF TransactionIds
<1>s. ASSUME height' = height, block'.transactions = block.transactions,
             pc' = "start" => pc = "start",
             pc' \in Front => pc \in Front,
             pc' \in BehindCount => pc \in BehindCount /\ i' = i
      PROVE  TransactionsInv'
  BY <1>s, <1>o, <1>d, <1>t DEF TransactionsInv
<1>m. ASSUME block'.transactions = block.transactions PROVE block'.transactions \in Seq(TransactionIds)
  BY <1>m DEF TransactionsInv
<1>1. CASE Start
  <2>1. /\ pc = "start" /\ pc' \in {"return", "aborted", "loop"}
        /\ UNCHANGED block
        /\ pc' = "loop" => height' = args.start /\ args.start # NaN
    BY <1>1 DEF Start, Return, Goto
  <2>2. CASE pc' = "loop"
    <3>1. args.start \in Nat
      BY <2>1, <2>2, CommandLinesAssumption DEF BaseInv, ProgressInv
    <3>2. block'.transactions = << >>
      BY <2>1 DEF TransactionsInv
    <3>3. \E at \in Offsets(block'.transactions, height') : Laid(at, block'.transactions, height', 0)
      BY <2>1, <2>2, <3>1, <3>2, LaidEmpty
    <3> QED BY <1>o, <1>d, <1>t, <1>m, <2>1, <2>2, <3>3 DEF TransactionsInv
  <2>3. CASE pc' # "loop"
    BY <1>t, <1>m, <2>1, <2>3 DEF TransactionsInv
  <2> QED BY <2>2, <2>3
<1>2. CASE Loop \/ ReadIndex \/ ReadHeader \/ ReadUncles
  <2>1. /\ UNCHANGED height /\ block'.transactions = block.transactions /\ pc \in Front
        /\ pc' \in Front \cup {"return", "aborted"}
    BY <1>2, MembersStep DEF Loop, ReadIndex, ReadHeader, ReadUncles, ReadBody, Return, Goto, Reject
  <2> QED BY <1>s, <2>1
<1>3. CASE ReadCount
  <2>1. /\ UNCHANGED <<height, block>> /\ pc = "13"
        /\ pc' = "return" \/ (pc' = "2" /\ i' = 0)
    BY <1>3 DEF ReadCount, Return, Goto
  <2> QED BY <1>o, <1>d, <1>t, <2>1 DEF TransactionsInv
<1>4. CASE ReadBody
  <2> DEFINE key == BodyKey(hash_bytes, i)
  <2>1. CASE pc' = "2"
    <3>1. /\ pc = "2" /\ Read("2", key) /\ ReadReturns("2", key) /\ i' = i + 1
          /\ block' = [block EXCEPT !.transactions = Append(block.transactions, value'.id)]
          /\ UNCHANGED height
      BY <1>4, <2>1 DEF ReadBody, Return, Goto, Reject
    <3>2. value'.id = <<"2", key>> /\ key \in DOMAIN rows["2"]
      BY <3>1, ReadOutcome, ColumnsExist DEF Columns, Readable
    <3>3. hash_bytes = HashAt(height)
      BY <3>1, HashKnown DEF Body, Columns
    <3>4. key = HashAt(height) \o <<i>>
      BY <3>3 DEF BodyKey
    <3>5. block'.transactions = Append(block.transactions, <<"2", HashAt(height) \o <<i>>>>)
      BY <3>1, <3>2, <3>4, SetTransactions DEF BaseInv, OwnInv, AssemblyInv
    <3>6. <<"2", HashAt(height) \o <<i>>>> \in TransactionIds
      BY <3>2, <3>4 DEF TransactionIds
    <3>7. block.transactions \in Seq(TransactionIds)
      BY DEF TransactionsInv, TransactionIds
    <3>8. block'.transactions \in Seq(TransactionIds)
      BY <3>5, <3>6, <3>7
    <3>9. PICK at \in Offsets(block.transactions, height) :
                 Laid(at, block.transactions, height, i)
      BY <3>1 DEF TransactionsInv
    <3>10. i \in Nat
      BY DEF BaseInv, TypeInv, TypeOK
    <3>11. /\ at \in Offsets(block'.transactions, height)
           /\ Laid(at, block'.transactions, height, i + 1)
      BY <1>g, <3>1, <3>5, <3>6, <3>7, <3>9, <3>10, LaidAppend
    <3> QED BY <1>o, <1>d, <1>t, <2>1, <3>1, <3>8, <3>11 DEF TransactionsInv
  <2>2. CASE pc' # "2"
    <3>1. /\ pc' \in {"return", "aborted"} /\ block'.transactions = block.transactions
      BY <1>4, <2>2, MembersStep DEF ReadBody, ReadExtension, Return, Goto, Reject
    <3> QED BY <1>t, <1>m, <3>1 DEF TransactionsInv
  <2> QED BY <2>1, <2>2
<1>5. CASE BodyDone \/ ReadProposals \/ ReadExtension \/ ReadInfo \/ ReadEntry \/ ReadDataEntry
            \/ ReadBlockExt
  <2>1. /\ UNCHANGED <<height, i>> /\ block'.transactions = block.transactions
        /\ pc \in BehindCount /\ pc' \in BehindCount \cup {"return", "aborted"}
    BY <1>5, MembersStep DEF BodyDone, ReadProposals, ReadExtension, ReadInfo, ReadEntry,
       ReadDataEntry, ReadBlockExt, ReadBody, Return, Goto, Reject
  <2> QED BY <1>s, <2>1
<1>6. CASE WriteFile
  <2>1. /\ pc = "write" /\ pc' = "loop" /\ height' = height + 1 /\ UNCHANGED block
    BY <1>6 DEF WriteFile, Goto
  <2>2. i = CountAt(height) /\ i \in Nat
    BY <2>1 DEF CountInv, BaseInv, TypeInv, TypeOK
  <2>3. block.transactions \in Seq(TransactionIds)
    BY DEF TransactionsInv, TransactionIds
  <2>4. \E at \in Offsets(block.transactions, height) :
           Laid(at, block.transactions, height, CountAt(height))
    BY <2>1, <2>2 DEF TransactionsInv
  <2>5. \E at \in Offsets(block.transactions, height + 1) :
           Laid(at, block.transactions, height + 1, 0)
    BY <1>g, <2>1, <2>2, <2>3, <2>4, LaidNext
  <2> QED BY <1>o, <1>d, <1>t, <1>m, <2>1, <2>5 DEF TransactionsInv
<1>7. CASE Construct \/ Exit \/ NodeStep \/ UNCHANGED vars
  <2>1. /\ UNCHANGED <<height, i, block>> /\ pc' \in {pc, "done"}
    BY <1>7 DEF Construct, Exit, NodeStep, vars, Goto
  <2> QED BY <1>s, <2>1
<1> QED
  BY <1>1, <1>2, <1>3, <1>4, <1>5, <1>6, <1>7 DEF Next, Main

LEMMA TransactionsInit == Init => CountInv /\ TransactionsInv
<1> SUFFICES ASSUME Init PROVE CountInv /\ TransactionsInv
  OBVIOUS
<1>1. pc = "start" /\ block.transactions = << >>
  BY DEF Init, EmptyBlock
<1> QED
  BY <1>1 DEF CountInv, TransactionsInv, BehindCount, Rear, Optional, Front

(***************************************************************************)
(* The documents.  Every step keeps those that are written, and a document *)
(* is what was assembled for the height the loop is at.                    *)
(***************************************************************************)
LEMMA DocumentsStep ==
  ASSUME BaseInv, [Next]_vars, NEW h \in Written'
  PROVE  \/ h \in Written /\ files'[h] = files[h] /\ pc # "start"
         \/ /\ pc = "write" /\ h = height /\ files'[h] = json /\ json.block = block
            /\ height \in Nat /\ args.start \in Nat /\ args.start <= height
<1>1. CASE UNCHANGED files
  <2>1. h \in Written /\ files'[h] = files[h]
    BY <1>1 DEF Written
  <2>2. pc # "start"
    BY <2>1 DEF BaseInv, FaultInv, Written
  <2> QED BY <2>1, <2>2
<1>2. CASE WriteFile
  <2>1. PICK content \in {json, Null} :
          files' = [g \in DOMAIN files \cup {height} |->
                      IF g = height THEN content ELSE files[g]]
    BY <1>2 DEF WriteFile
  <2>2. pc = "write"
    BY <1>2 DEF WriteFile
  <2>3. /\ json.block = block /\ height \in Nat /\ args.start \in Nat /\ args.start <= height
    BY <2>2 DEF BaseInv, OwnInv, AssemblyInv, ProgressInv, Started, Body, Behind15, Behind7,
                Behind3, Behind1
  <2> QED BY <2>1, <2>2, <2>3 DEF Written
<1> QED BY <1>1, <1>2, FilesStep

TransactionsUpTo(txs, h) ==
  \E at \in [args.start..(h + 1) -> 0..Len(txs)] :
    /\ at[args.start] = 0
    /\ at[h + 1] = Len(txs)
    /\ \A g \in args.start..h :
         /\ at[g + 1] = at[g] + CountAt(g)
         /\ \A n \in 1..CountAt(g) : txs[at[g] + n] = TransactionsAt(g)[n]

LEMMA TransactionsStored ==
  ASSUME BaseInv, CountInv, TransactionsInv, pc = "write"
  PROVE  TransactionsUpTo(block.transactions, height)
<1> DEFINE txs == block.transactions
<1>1. args.start \in Nat /\ args.start <= height /\ height \in Nat
  BY DEF BaseInv, ProgressInv, Started, Body
<1>2. i = CountAt(height) /\ i \in Nat
  BY DEF CountInv, BehindCount, Rear, Optional, BaseInv, TypeInv, TypeOK
<1>3. txs \in Seq(TransactionIds)
  BY DEF TransactionsInv
<1>4. \E at \in Offsets(txs, height) : Laid(at, txs, height, CountAt(height))
  BY <1>2 DEF TransactionsInv, BehindCount, Rear, Optional
<1>5. PICK at \in Offsets(txs, height + 1) : Laid(at, txs, height + 1, 0)
  BY <1>1, <1>2, <1>3, <1>4, LaidNext
<1>6. /\ at \in [args.start..(height + 1) -> 0..Len(txs)]
      /\ at[height + 1] \in 0..Len(txs)
  BY <1>1, <1>5 DEF Offsets
<1>7. at[args.start] = 0 /\ Len(txs) = at[height + 1] + 0
  BY <1>5 DEF Laid
<1>8. at[height + 1] = Len(txs)
  BY <1>3, <1>6, <1>7
<1>9. ASSUME NEW g \in args.start..height
      PROVE  /\ at[g + 1] = at[g] + CountAt(g)
             /\ \A n \in 1..CountAt(g) : txs[at[g] + n] = TransactionsAt(g)[n]
  <2>1. g \in args.start..((height + 1) - 1)
    BY <1>1
  <2> QED BY <1>5, <2>1 DEF Laid, TransactionsAt
<1> QED BY <1>6, <1>7, <1>8, <1>9 DEF TransactionsUpTo

LEMMA TransactionsFiles ==
  BaseInv /\ CountInv /\ TransactionsInv /\ NoTransactionLostOrRepeated /\ [Next]_vars
    => NoTransactionLostOrRepeated'
<1> SUFFICES ASSUME BaseInv, CountInv, TransactionsInv, NoTransactionLostOrRepeated, [Next]_vars,
                    NEW h \in Written'
             PROVE  TransactionsUpTo(files[h].block.transactions, h)'
  BY DEF NoTransactionLostOrRepeated, TransactionsUpTo
<1>1. ASSUME NEW txs, TransactionsUpTo(txs, h) PROVE TransactionsUpTo(txs, h)'
  <2>1. args' = args
    BY StepFrame DEF BaseInv
  <2>2. \A g : CountAt(g)' = CountAt(g) /\ TransactionsAt(g)' = TransactionsAt(g)
    BY BlocksStay DEF TransactionsAt
  <2> QED BY <1>1, <2>1, <2>2 DEF TransactionsUpTo
<1>2. CASE h \in Written /\ files'[h] = files[h]
  <2>1. TransactionsUpTo(files[h].block.transactions, h)
    BY <1>2 DEF NoTransactionLostOrRepeated, TransactionsUpTo
  <2> QED BY <1>1, <1>2, <2>1
<1>3. CASE pc = "write" /\ h = height /\ files'[h] = json /\ json.block = block
  BY <1>1, <1>3, TransactionsStored
<1> QED BY <1>2, <1>3, DocumentsStep

(* The documents of a run repeat no transaction and lose none: each has all  *)
(* those of the heights up to its own, in order.                             *)
THEOREM NoTransactionLostOrRepeatedAlways == Spec => []NoTransactionLostOrRepeated
<1>1. Init => NoTransactionLostOrRepeated
  BY DEF Init, NoTransactionLostOrRepeated, Written
<1>2. BaseInv /\ CountInv /\ TransactionsInv /\ NoTransactionLostOrRepeated /\ [Next]_vars
        => (CountInv /\ TransactionsInv /\ NoTransactionLostOrRepeated)'
  BY CountStep, TransactionsStep, TransactionsFiles
<1> QED
  BY <1>1, <1>2, BaseAlways, TransactionsInit, PTL DEF Spec

-----------------------------------------------------------------------------
(***************************************************************************)
(* The extension.  A height without one stays so, as the node only makes   *)
(* rows unreadable, and block keeps the member of the height before.       *)
(***************************************************************************)
LEMMA ReadableShrinks ==
  ASSUME BaseInv, [Next]_vars
  PROVE  /\ \A cf, key : Readable(cf, key)' => Readable(cf, key)
         /\ \A cf, key : Parsable(cf, key)' => Parsable(cf, key)
         /\ \A g : NoExtension(g) => NoExtension(g)'
<1>1. rows' = rows /\ unreadable \subseteq unreadable' /\ \A h : HashAt(h)' = HashAt(h)
  BY StepFrame, BlocksStay DEF BaseInv
<1>2. \A cf, key : Readable(cf, key)' => Readable(cf, key)
  BY <1>1 DEF Readable
<1>3. \A cf, key : Parsable(cf, key)' => Parsable(cf, key)
  BY <1>1, <1>2 DEF Parsable
<1>4. ASSUME NEW g, NoExtension(g) PROVE NoExtension(g)'
  <2>1. HashAt(g)' = HashAt(g)
    BY <1>1
  <2> QED BY <1>2, <1>4, <2>1 DEF NoExtension
<1> QED BY <1>2, <1>3, <1>4

LEMMA LatestStays ==
  ASSUME BaseInv, [Next]_vars, NEW ext, NEW last, Latest(ext, last)
  PROVE  Latest(ext, last)'
<1>1. args' = args /\ \A h : HashAt(h)' = HashAt(h)
  BY StepFrame, BlocksStay DEF BaseInv
<1>2. CASE ext = Null /\ \A g \in args.start..last : NoExtension(g)
  BY <1>1, <1>2, ReadableShrinks DEF Latest
<1>3. ASSUME NEW g \in args.start..last, ext = Bytes2Hex(<<"15", HashAt(g)>>),
             \A f \in (g + 1)..last : NoExtension(f)
      PROVE  Latest(ext, last)'
  <2>1. HashAt(g)' = HashAt(g)
    BY <1>1
  <2> QED BY <1>1, <1>3, <2>1, ReadableShrinks DEF Latest, Bytes2Hex
<1> QED BY <1>2, <1>3 DEF Latest

LEMMA LatestNext ==
  ASSUME args.start \in Nat, NEW h \in Nat, args.start <= h, NEW ext,
         \/ Latest(ext, h - 1) /\ NoExtension(h)
         \/ ext = Bytes2Hex(<<"15", HashAt(h)>>)
  PROVE  Latest(ext, h)
<1>1. args.start..h = (args.start..(h - 1)) \cup {h} /\ (h + 1)..h = {}
  OBVIOUS
<1>2. CASE ext = Bytes2Hex(<<"15", HashAt(h)>>)
  BY <1>1, <1>2 DEF Latest
<1>3. CASE /\ ext = Null /\ \A g \in args.start..(h - 1) : NoExtension(g)
           /\ NoExtension(h)
  BY <1>1, <1>3 DEF Latest
<1>4. ASSUME NEW g \in args.start..(h - 1), ext = Bytes2Hex(<<"15", HashAt(g)>>),
             \A f \in (g + 1)..(h - 1) : NoExtension(f), NoExtension(h)
      PROVE  Latest(ext, h)
  <2>1. (g + 1)..h = ((g + 1)..(h - 1)) \cup {h} /\ g \in args.start..h
    OBVIOUS
  <2> QED BY <1>4, <2>1 DEF Latest
<1> QED BY <1>2, <1>3, <1>4 DEF Latest

LEMMA LatestEmpty ==
  ASSUME args.start \in Nat
  PROVE  Latest(Null, args.start - 1)
<1>1. args.start..(args.start - 1) = {}
  OBVIOUS
<1> QED BY <1>1 DEF Latest

LEMMA ExtensionStep == BaseInv /\ ExtensionInv /\ [Next]_vars => ExtensionInv'
<1> SUFFICES ASSUME BaseInv, ExtensionInv, [Next]_vars PROVE ExtensionInv'
  OBVIOUS
<1> USE DEF Optional, Front
<1>h. \A h : HashAt(h)' = HashAt(h)
  BY BlocksStay
<1>n. pc # "start" => Mapped("15")' = Mapped("15")
  BY StepFrame DEF Mapped, Elements, BaseInv
<1>s. ASSUME height' = height, block'.extension = block.extension, pc # "start",
             pc' \notin {"start", "15"},
             pc' \in Front \cup {"2", "7"} => pc \in Front \cup {"2", "7"},
             pc' \in Optional => pc \in Optional
      PROVE  ExtensionInv'
  BY <1>s, <1>h, <1>n, LatestStays DEF ExtensionInv
<1>1. CASE Start
  <2>1. /\ pc = "start" /\ pc' \in {"return", "aborted", "loop"} /\ UNCHANGED block
        /\ pc' = "loop" => height' = args.start /\ args.start # NaN
    BY <1>1 DEF Start, Return, Goto
  <2>2. ASSUME pc' = "loop" PROVE Latest(block.extension, height - 1)'
    <3>1. args.start \in Nat
      BY <2>1, <2>2, CommandLinesAssumption DEF BaseInv, ProgressInv
    <3>2. block'.extension = Null /\ height' = args.start
      BY <2>1, <2>2 DEF ExtensionInv
    <3> QED BY <3>1, <3>2, LatestEmpty, LatestStays
  <2> QED BY <2>1, <2>2 DEF ExtensionInv
<1>2. CASE Loop \/ ReadIndex \/ ReadHeader \/ ReadUncles \/ ReadCount \/ ReadBody \/ BodyDone
  <2>1. /\ UNCHANGED height /\ block'.extension = block.extension
        /\ pc \in Front \cup {"2"}
        /\ pc' \in Front \cup {"2", "7", "return", "aborted"}
    BY <1>2, MembersStep DEF Loop, ReadIndex, ReadHeader, ReadUncles, ReadCount, ReadBody,
       BodyDone, ReadExtension, Return, Goto, Reject
  <2> QED BY <1>s, <2>1
<1>3. CASE ReadProposals
  <2>1. CASE pc' = "15"
    <3>1. /\ pc = "7" /\ Read("7", hash_bytes) /\ ReadReturns("7", hash_bytes)
          /\ UNCHANGED <<height, hash_bytes>> /\ block'.extension = block.extension
      BY <1>3, <2>1, MembersStep DEF ReadProposals, ReadExtension, Return, Goto, Reject
    <3>2. status' = "OK" /\ value'.id = <<"7", hash_bytes>>
      BY <3>1, ReadOutcome, ColumnsExist DEF Columns
    <3> QED BY <1>h, <1>n, <2>1, <3>1, <3>2, LatestStays DEF ExtensionInv
  <2>2. CASE pc' # "15"
    <3>1. pc' \in {"return", "aborted"} /\ UNCHANGED height /\ block'.extension = block.extension
            /\ pc = "7"
      BY <1>3, <2>2, MembersStep DEF ReadProposals, ReadExtension, Return, Goto, Reject
    <3> QED BY <1>s, <3>1
  <2> QED BY <2>1, <2>2
<1>4. CASE ReadExtension
  <2>1. /\ pc = "15" /\ pc' \in {"5", "6"} /\ Read("15", hash_bytes) /\ UNCHANGED <<height>>
        /\ block' = IF status' = "OK" THEN [block EXCEPT !.extension = Bytes2Hex(value'.id)]
                                      ELSE block
    BY <1>4 DEF ReadExtension, Goto
  <2>2. block'.extension = IF status' = "OK" THEN Bytes2Hex(value'.id) ELSE block.extension
    BY <2>1, SetExtension DEF BaseInv, OwnInv, AssemblyInv
  <2>3. hash_bytes = HashAt(height) /\ height \in Nat /\ args.start \in Nat /\ args.start <= height
    BY <2>1, HashKnown DEF BaseInv, ProgressInv, Started, Body, Columns
  <2>4. CASE Mapped("15")
    <3>1. Latest(block.extension, height - 1)
      BY <2>1, <2>4 DEF ExtensionInv
    <3>2. CASE ReadReturns("15", hash_bytes)
      <4>1. block'.extension = Bytes2Hex(<<"15", HashAt(height)>>)
        BY <2>1, <2>2, <2>3, <3>2, ReadOutcome, ColumnsExist DEF Columns
      <4> QED BY <1>n, <2>1, <2>3, <2>4, <4>1, LatestNext, LatestStays DEF ExtensionInv
    <3>3. CASE ~ReadReturns("15", hash_bytes)
      <4>1. block'.extension = block.extension /\ NoExtension(height)
        BY <2>1, <2>2, <2>3, <2>4, <3>3, ReadOutcome, ColumnsExist DEF Columns, NoExtension
      <4> QED BY <1>n, <2>1, <2>3, <2>4, <3>1, <4>1, LatestNext, LatestStays DEF ExtensionInv
    <3> QED BY <3>2, <3>3
  <2>5. CASE ~Mapped("15")
    <3>1. status' = "OK" /\ value'.id = <<"7", hash_bytes>>
      BY <2>1, <2>5, ReadOutcome, ColumnsExist DEF Columns, ExtensionInv
    <3> QED BY <1>h, <1>n, <2>1, <2>2, <2>3, <2>5, <3>1 DEF ExtensionInv
  <2> QED BY <2>4, <2>5
<1>5. CASE ReadInfo \/ ReadEntry \/ ReadDataEntry \/ ReadBlockExt
  <2>1. /\ UNCHANGED <<height, block>> /\ pc \in Optional /\ pc' \in Optional
    BY <1>5 DEF ReadInfo, ReadEntry, ReadDataEntry, ReadBlockExt, Goto
  <2> QED BY <1>s, <2>1
<1>6. CASE WriteFile
  <2>1. /\ pc = "write" /\ pc' = "loop" /\ height' = height + 1 /\ UNCHANGED block
    BY <1>6 DEF WriteFile, Goto
  <2>2. height' - 1 = height
    BY <2>1 DEF BaseInv, TypeInv, TypeOK
  <2> QED BY <1>n, <2>1, <2>2, LatestStays DEF ExtensionInv
<1>7. CASE Exit
  <2>1. pc = "return" /\ pc' = "done" /\ UNCHANGED <<height, block>>
    BY <1>7 DEF Exit, Goto
  <2> QED BY <1>s, <2>1
<1>8. CASE Construct \/ NodeStep \/ UNCHANGED vars
  <2>1. UNCHANGED <<pc, height, block, value, hash_bytes>>
    BY <1>8 DEF Construct, NodeStep, vars
  <2>2. pc # "start" => status' = status
    BY <1>8 DEF Construct, ListColumnFamilies, OpenForReadOnly, NodeStep, NodeRemovesFile, vars,
                BaseInv, FaultInv
  <2> QED BY <1>h, <1>n, <2>1, <2>2, LatestStays DEF ExtensionInv
<1> QED
  BY <1>1, <1>2, <1>3, <1>4, <1>5, <1>6, <1>7, <1>8 DEF Next, Main

LEMMA ExtensionInit == Init => ExtensionInv
<1> SUFFICES ASSUME Init PROVE ExtensionInv
  OBVIOUS
<1>1. pc = "start" /\ block.extension = Null
  BY DEF Init, EmptyBlock
<1> QED
  BY <1>1 DEF ExtensionInv, Optional, Front

(* What a document shows as the extension.                                   *)
ExtensionAt(ext, h) == IF Mapped("15") THEN Latest(ext, h)
                       ELSE ext = Bytes2Hex(<<"7", HashAt(h)>>)

LEMMA ExtensionOfDocuments ==
  ExtensionSource <=> \A h \in Written : ExtensionAt(files[h].block.extension, h)
  BY DEF ExtensionSource, ExtensionAt, Latest, NoExtension

LEMMA ExtensionFiles ==
  BaseInv /\ ExtensionInv /\ ExtensionSource /\ [Next]_vars => ExtensionSource'
<1> SUFFICES ASSUME BaseInv, ExtensionInv, ExtensionSource, [Next]_vars, NEW h \in Written'
             PROVE  ExtensionAt(files[h].block.extension, h)'
  BY DEF ExtensionSource, ExtensionAt, Latest, NoExtension
<1>1. ASSUME NEW ext, ExtensionAt(ext, h), pc # "start" PROVE ExtensionAt(ext, h)'
  <2>1. Mapped("15")' = Mapped("15") /\ HashAt(h)' = HashAt(h)
    BY <1>1, StepFrame, BlocksStay DEF Mapped, Elements, BaseInv
  <2> QED BY <1>1, <2>1, LatestStays DEF ExtensionAt
<1>2. CASE h \in Written /\ files'[h] = files[h] /\ pc # "start"
  BY <1>1, <1>2, ExtensionOfDocuments
<1>3. CASE pc = "write" /\ h = height /\ files'[h] = json /\ json.block = block
  BY <1>1, <1>3 DEF ExtensionInv, ExtensionAt, Optional
<1> QED BY <1>2, <1>3, DocumentsStep

(* The extension of a document is that of the latest height that has one, or *)
(* in a database without the column the block's own proposals.               *)
THEOREM ExtensionSourceAlways == Spec => []ExtensionSource
<1>1. Init => ExtensionSource
  BY DEF Init, ExtensionSource, Written
<1>2. BaseInv /\ ExtensionInv /\ ExtensionSource /\ [Next]_vars
        => (ExtensionInv /\ ExtensionSource)'
  BY ExtensionStep, ExtensionFiles
<1> QED
  BY <1>1, <1>2, BaseAlways, ExtensionInit, PTL DEF Spec

-----------------------------------------------------------------------------
(***************************************************************************)
(* The optional columns.  The key of every read among them begins with the *)
(* block's hash or with the hash of one of its transactions.               *)
(***************************************************************************)
LEMMA PrefixOfKey ==
  ASSUME NEW S, NEW p \in Seq(S), NEW key, NEW x, key = p \/ key = p \o <<x>>
  PROVE  SubSeq(key, 1, Len(p)) = p
<1> DEFINE T == S \cup {x}
<1>1. p \in Seq(T) /\ Len(p) \in Nat
  OBVIOUS
<1>2. key \in Seq(T) /\ Len(p) <= Len(key) /\ \A n \in 1..Len(p) : key[n] = p[n]
  BY <1>1
<1>3. SubSeq(key, 1, Len(p)) \in Seq(T) /\ Len(SubSeq(key, 1, Len(p))) = Len(p)
        /\ \A n \in 1..Len(p) : SubSeq(key, 1, Len(p))[n] = key[n]
  BY <1>1, <1>2
<1> QED BY <1>1, <1>2, <1>3

LEMMA TxHashKnown ==
  ASSUME BaseInv, CountInv, pc \in {"5", "10", "12"}
  PROVE  /\ TxHash = BodyAt(height, tx_index).data
         /\ TxHash \in Seq(Nat)
         /\ TxHash \in Prefixes(height)
         /\ tx_index \in Nat /\ tx_index < CountAt(height) /\ CountAt(height) \in Nat
         /\ Len(tx_infos) = CountAt(height)
<1>1. /\ tx_index \in Nat /\ tx_index < Len(tx_infos) /\ tx_infos \in Seq([hex : Seq(Nat)])
      /\ txs_len \in Nat
  BY DEF BaseInv, TypeInv, TypeOK, LengthInv
<1>2. tx_index \in 0..(Len(tx_infos) - 1)
  BY <1>1
<1>3. /\ tx_infos[tx_index + 1] = Bytes2Hex(BodyAt(height, tx_index).data)
      /\ BodyAt(height, tx_index).data \in Seq(Nat)
      /\ Len(tx_infos) = CountAt(height) /\ CountAt(height) = txs_len
  BY <1>2 DEF CountInv, BehindCount, Rear, Optional
<1>4. TxHash = BodyAt(height, tx_index).data
  BY <1>3 DEF TxHash, Hex2Bytes, Bytes2Hex
<1>5. tx_index \in 0..(CountAt(height) - 1)
  BY <1>2, <1>3
<1> QED BY <1>1, <1>3, <1>4, <1>5 DEF Prefixes

(* The optional members of the JSON document change only where a row of      *)
(* theirs is read, and at the top of the loop.                               *)
LEMMA JsonStep ==
  ASSUME BaseInv, [Next]_vars
  PROVE  \/ Loop /\ pc' = "0" /\ json' = EmptyJson
         \/ /\ json'.info = json.info \/ ReadInfo
            /\ json'.entry = json.entry \/ ReadEntry
            /\ json'.data_entry = json.data_entry \/ ReadDataEntry
            /\ json'.block_ext = json.block_ext \/ ReadBlockExt
<1>0. IsJson(json)
  BY DEF BaseInv, OwnInv, AssemblyInv
<1>1. CASE UNCHANGED json
  BY <1>1
<1>2. CASE ReadExtension
  BY <1>0, <1>2, SetJsonMember DEF ReadExtension
<1>3. CASE ReadInfo
  BY <1>0, <1>1, <1>3, SetJsonMember DEF ReadInfo
<1>4. CASE ReadEntry
  BY <1>0, <1>1, <1>4, SetJsonMember DEF ReadEntry
<1>5. CASE ReadDataEntry
  BY <1>0, <1>1, <1>5, SetJsonMember DEF ReadDataEntry
<1>6. CASE ReadBlockExt
  BY <1>0, <1>1, <1>6, SetJsonMember DEF ReadBlockExt
<1>7. CASE Loop
  BY <1>1, <1>7 DEF Loop, Goto
<1>8. CASE Construct \/ Start \/ ReadIndex \/ ReadHeader \/ ReadUncles \/ ReadCount \/ ReadBody
            \/ BodyDone \/ ReadProposals \/ WriteFile \/ Exit \/ NodeStep \/ UNCHANGED vars
  BY <1>1, <1>8 DEF Construct, Start, ReadIndex, ReadHeader, ReadUncles, ReadCount, ReadBody,
     BodyDone, ReadProposals, WriteFile, Exit, NodeStep, vars
<1> QED
  BY <1>2, <1>3, <1>4, <1>5, <1>6, <1>7, <1>8 DEF Next, Main

(* What a read behind the own transactions leaves in value.                  *)
LEMMA ReadOwn ==
  ASSUME BaseInv, OptionalInv, pc \in {"7", "15", "5", "10", "12", "6"},
         NEW cf \in Columns,
         NEW p \in Prefixes(height), p \in Seq(Nat),
         NEW key, NEW x, key = p \/ key = p \o <<x>>, Read(cf, key),
         pc = "7" => ReadReturns(cf, key)
  PROVE  status' = "OK" => value'.id \in OwnIds(height)
<1>1. cf \in ColumnFamilies /\ pc \in Columns
  BY ColumnsExist DEF Columns
<1>2. CASE ReadReturns(cf, key)
  <2>1. value'.id = <<cf, key>> /\ key \in DOMAIN rows[cf]
    BY <1>1, <1>2, ReadOutcome DEF Readable
  <2>2. SubSeq(key, 1, Len(p)) = p
    BY PrefixOfKey
  <2>3. <<cf, key>> \in RowIds
    BY <1>1, <2>1 DEF RowIds
  <2> QED BY <2>1, <2>2, <2>3 DEF OwnIds
<1>3. CASE ~ReadReturns(cf, key) /\ Mapped(cf)
  BY <1>1, <1>3, ReadOutcome
<1>4. CASE ~Mapped(cf)
  BY <1>1, <1>4, ReadOutcome DEF OptionalInv, Optional
<1> QED BY <1>2, <1>3, <1>4

Grown(list, cf) == IF status' = "OK" /\ Parses(cf, value') THEN Append(list, value'.id) ELSE list

LEMMA JsonReads ==
  ASSUME BaseInv
  PROVE  /\ ReadInfo => json'.info = Grown(json.info, "5")
         /\ ReadEntry => json'.entry = Grown(json.entry, "10")
         /\ ReadDataEntry => json'.data_entry = Grown(json.data_entry, "12")
         /\ ReadBlockExt => json'.block_ext = IF status' = "OK" /\ Parses("6", value')
                                               THEN value'.id ELSE json.block_ext
<1>0. IsJson(json)
  BY DEF BaseInv, OwnInv, AssemblyInv
<1>1. ReadInfo => json'.info = Grown(json.info, "5")
  BY <1>0, SetJsonMember DEF ReadInfo, Grown
<1>2. ReadEntry => json'.entry = Grown(json.entry, "10")
  BY <1>0, SetJsonMember DEF ReadEntry, Grown
<1>3. ReadDataEntry => json'.data_entry = Grown(json.data_entry, "12")
  BY <1>0, SetJsonMember DEF ReadDataEntry, Grown
<1>4. ReadBlockExt => json'.block_ext = IF status' = "OK" /\ Parses("6", value')
                                         THEN value'.id ELSE json.block_ext
  BY <1>0, SetJsonMember DEF ReadBlockExt
<1> QED BY <1>1, <1>2, <1>3, <1>4

LEMMA GrownIds ==
  ASSUME NEW S, NEW list \in Seq(S), NEW cf, status' = "OK" => value'.id \in S
  PROVE  Grown(list, cf) \in Seq(S)
  BY DEF Grown

LEMMA OptionalStep ==
  BaseInv /\ CountInv /\ OptionalInv /\ [Next]_vars => OptionalInv'
<1> SUFFICES ASSUME BaseInv, CountInv, OptionalInv, [Next]_vars PROVE OptionalInv'
  OBVIOUS
<1> USE DEF Optional, Body, Columns
<1>h. rows' = rows /\ \A h : Prefixes(h)' = Prefixes(h) /\ OwnIds(h)' = OwnIds(h)
  <2>1. rows' = rows
    BY RowsStep
  <2>2. \A h : Prefixes(h)' = Prefixes(h)
    BY BlocksStay DEF Prefixes
  <2>3. RowIds' = RowIds
    BY <2>1 DEF RowIds
  <2> QED BY <2>1, <2>2, <2>3 DEF OwnIds
<1>n. ASSUME pc' \notin Body PROVE OptionalInv'
  BY <1>n DEF OptionalInv
<1>p. HashAt(height) \in Prefixes(height)
  BY DEF Prefixes
<1>1. CASE Start \/ WriteFile \/ Exit
  BY <1>1, <1>n DEF Start, WriteFile, Exit, Return, Goto
<1>2. CASE Loop
  <2>1. pc' = "0" => json' = EmptyJson
    BY <1>2 DEF Loop, Goto, Return
  <2>2. pc' \in {"0", "return", "aborted"}
    BY <1>2 DEF Loop, Goto, Return
  <2> QED BY <1>n, <2>1, <2>2 DEF OptionalInv, EmptyJson
<1>3. CASE ReadIndex
  <2>1. CASE pc' = "1"
    <3>1. /\ pc = "0" /\ UNCHANGED json
          /\ HeightKey \in DOMAIN rows["0"] /\ hash_bytes' = rows["0"][HeightKey].data
      BY <1>3, <2>1 DEF ReadIndex, Return, Goto, ReadReturns, GetStatus
    <3>2. hash_bytes' \in Seq(Nat)
      BY <3>1, ColumnsExist DEF BaseInv, OwnInv, RowsInv
    <3> QED BY <2>1, <3>1, <3>2 DEF OptionalInv
  <2>2. CASE pc' # "1"
    BY <1>3, <1>n, <2>2 DEF ReadIndex, Return, Goto
  <2> QED BY <2>1, <2>2
<1>4. CASE ReadHeader \/ ReadUncles \/ ReadCount \/ ReadBody \/ BodyDone
  <2>1. /\ UNCHANGED <<hash_bytes, json>> /\ pc \in {"1", "3", "13", "2"}
        /\ pc' \in {"3", "13", "2", "7", "return", "aborted"}
    BY <1>4 DEF ReadHeader, ReadUncles, ReadCount, ReadBody, BodyDone, Return, Goto, Reject
  <2> QED BY <2>1 DEF OptionalInv
<1>5. CASE ReadProposals
  <2>1. /\ pc = "7" /\ Read("7", hash_bytes) /\ UNCHANGED <<height, hash_bytes, json>>
        /\ \/ pc' = "15" /\ ReadReturns("7", hash_bytes)
           \/ pc' \in {"return", "aborted"}
    BY <1>5 DEF ReadProposals, Return, Goto, Reject
  <2>2. CASE pc' = "15"
    <3>1. hash_bytes \in Prefixes(height) /\ hash_bytes \in Seq(Nat)
      BY <1>p, <2>1, HashKnown DEF OptionalInv
    <3>2. status' = "OK" => value'.id \in OwnIds(height)
      BY <2>1, <2>2, <3>1, ReadOwn
    <3> QED BY <1>h, <2>1, <2>2, <3>2 DEF OptionalInv
  <2> QED BY <1>n, <2>1, <2>2
<1>6. ASSUME pc \in {"15", "5", "10", "12", "6"}, UNCHANGED <<height, hash_bytes>>,
             pc' \in Optional, pc' = "write" \/ json'.block_ext = json.block_ext,
             status' = "OK" => value'.id \in OwnIds(height),
             json'.info \in Seq(OwnIds(height)), json'.entry \in Seq(OwnIds(height)),
             json'.data_entry \in Seq(OwnIds(height)),
             json'.block_ext \in OwnIds(height) \cup {Null}
      PROVE  OptionalInv'
  BY <1>6, <1>h DEF OptionalInv
<1>e. pc \in {"15", "5", "10", "12", "6"} =>
        /\ json.info \in Seq(OwnIds(height)) /\ json.entry \in Seq(OwnIds(height))
        /\ json.data_entry \in Seq(OwnIds(height)) /\ json.block_ext = Null
  <2>1. CASE pc = "15"
    <3>1. << >> \in Seq(OwnIds(height))
      OBVIOUS
    <3>2. /\ json.info = << >> /\ json.entry = << >> /\ json.data_entry = << >>
          /\ json.block_ext = Null
      BY <2>1 DEF OptionalInv
    <3> QED BY <3>1, <3>2
  <2>2. CASE pc \in {"5", "10", "12", "6"}
    BY <2>2 DEF OptionalInv
  <2> QED BY <2>1, <2>2
<1>7. CASE ReadExtension
  <2>1. /\ pc = "15" /\ Read("15", hash_bytes) /\ UNCHANGED <<height, hash_bytes>>
        /\ pc' \in {"5", "6"}
    BY <1>7 DEF ReadExtension, Goto
  <2>2. hash_bytes \in Prefixes(height) /\ hash_bytes \in Seq(Nat)
    BY <1>p, <2>1, HashKnown DEF OptionalInv
  <2>3. status' = "OK" => value'.id \in OwnIds(height)
    BY <2>1, <2>2, ReadOwn
  <2>4. /\ json'.info = json.info /\ json'.entry = json.entry
        /\ json'.data_entry = json.data_entry /\ json'.block_ext = json.block_ext
    BY <2>1, JsonStep DEF Loop, ReadInfo, ReadEntry, ReadDataEntry, ReadBlockExt
  <2> QED BY <1>6, <1>e, <2>1, <2>3, <2>4
<1>8. CASE ReadInfo
  <2>1. /\ pc = "5" /\ Read("5", TxHash) /\ UNCHANGED <<height, hash_bytes>> /\ pc' = "10"
    BY <1>8 DEF ReadInfo, Goto
  <2>2. status' = "OK" => value'.id \in OwnIds(height)
    BY <2>1, TxHashKnown, ReadOwn
  <2>3. /\ json'.entry = json.entry
        /\ json'.data_entry = json.data_entry /\ json'.block_ext = json.block_ext
    BY <2>1, JsonStep DEF Loop, ReadInfo, ReadEntry, ReadDataEntry, ReadBlockExt
  <2>4. json'.info \in Seq(OwnIds(height))
    BY <1>8, <1>e, <2>1, <2>2, GrownIds, JsonReads
  <2> QED BY <1>6, <1>e, <2>1, <2>2, <2>3, <2>4
<1>9. CASE ReadEntry
  <2>1. /\ pc = "10" /\ Read("10", TxHash \o <<ByteSwap32(tx_index)>>)
        /\ UNCHANGED <<height, hash_bytes>> /\ pc' = "12"
    BY <1>9 DEF ReadEntry, CellKey, Goto
  <2>2. status' = "OK" => value'.id \in OwnIds(height)
    BY <2>1, TxHashKnown, ReadOwn
  <2>3. /\ json'.info = json.info
        /\ json'.data_entry = json.data_entry /\ json'.block_ext = json.block_ext
    BY <2>1, JsonStep DEF Loop, ReadInfo, ReadEntry, ReadDataEntry, ReadBlockExt
  <2>4. json'.entry \in Seq(OwnIds(height))
    BY <1>9, <1>e, <2>1, <2>2, GrownIds, JsonReads
  <2> QED BY <1>6, <1>e, <2>1, <2>2, <2>3, <2>4
<1>10. CASE ReadDataEntry
  <2>1. /\ pc = "12" /\ Read("12", TxHash \o <<ByteSwap32(tx_index)>>)
        /\ UNCHANGED <<height, hash_bytes>> /\ pc' \in {"5", "6"}
    BY <1>10 DEF ReadDataEntry, CellKey, Goto
  <2>2. status' = "OK" => value'.id \in OwnIds(height)
    BY <2>1, TxHashKnown, ReadOwn
  <2>3. /\ json'.info = json.info /\ json'.entry = json.entry
        /\ json'.block_ext = json.block_ext
    BY <2>1, JsonStep DEF Loop, ReadInfo, ReadEntry, ReadDataEntry, ReadBlockExt
  <2>4. json'.data_entry \in Seq(OwnIds(height))
    BY <1>10, <1>e, <2>1, <2>2, GrownIds, JsonReads
  <2> QED BY <1>6, <1>e, <2>1, <2>2, <2>3, <2>4
<1>11. CASE ReadBlockExt
  <2>1. /\ pc = "6" /\ Read("6", hash_bytes) /\ UNCHANGED <<height, hash_bytes>>
        /\ pc' = "write"
    BY <1>11 DEF ReadBlockExt, Goto
  <2>2. hash_bytes \in Prefixes(height) /\ hash_bytes \in Seq(Nat)
    BY <1>p, <2>1, HashKnown DEF OptionalInv
  <2>3. status' = "OK" => value'.id \in OwnIds(height)
    BY <2>1, <2>2, ReadOwn
  <2>4. /\ json'.info = json.info /\ json'.entry = json.entry
        /\ json'.data_entry = json.data_entry
    BY <2>1, JsonStep DEF Loop, ReadInfo, ReadEntry, ReadDataEntry, ReadBlockExt
  <2>5. json'.block_ext \in OwnIds(height) \cup {Null}
    BY <1>11, <1>e, <2>1, <2>3, JsonReads
  <2> QED BY <1>6, <1>e, <2>1, <2>3, <2>4, <2>5
<1>12. CASE Construct \/ NodeStep \/ UNCHANGED vars
  <2>1. UNCHANGED <<pc, height, json, value, hash_bytes>>
    BY <1>12 DEF Construct, NodeStep, vars
  <2>2. pc # "start" => status' = status
    BY <1>12 DEF Construct, ListColumnFamilies, OpenForReadOnly, NodeStep, NodeRemovesFile, vars,
                BaseInv, FaultInv
  <2> QED BY <1>h, <2>1, <2>2 DEF OptionalInv
<1> QED
  BY <1>1, <1>2, <1>3, <1>4, <1>5, <1>7, <1>8, <1>9, <1>10, <1>11, <1>12 DEF Next, Main

LEMMA OptionalInit == Init => OptionalInv
<1> SUFFICES ASSUME Init PROVE OptionalInv
  OBVIOUS
<1>1. pc = "start"
  BY DEF Init
<1> QED
  BY <1>1 DEF OptionalInv, Optional, Body, Columns

OwnOptional(f, h) ==
  LET own(id) == \E p \in Prefixes(h) : SubSeq(id[2], 1, Len(p)) = p
  IN  /\ \A id \in Elements(f.info) \cup Elements(f.entry) \cup Elements(f.data_entry) : own(id)
      /\ f.block_ext # Null => own(f.block_ext)

LEMMA OptionalFiles ==
  BaseInv /\ OptionalInv /\ OptionalDataIsOfThisBlock /\ [Next]_vars
    => OptionalDataIsOfThisBlock'
<1> SUFFICES ASSUME BaseInv, OptionalInv, OptionalDataIsOfThisBlock, [Next]_vars, NEW h \in Written'
             PROVE  OwnOptional(files[h], h)'
  BY DEF OptionalDataIsOfThisBlock, OwnOptional, Prefixes
<1>1. ASSUME NEW f, OwnOptional(f, h) PROVE OwnOptional(f, h)'
  <2>1. Prefixes(h)' = Prefixes(h)
    BY BlocksStay DEF Prefixes
  <2> QED BY <1>1, <2>1 DEF OwnOptional, Elements
<1>2. CASE h \in Written /\ files'[h] = files[h]
  <2>1. OwnOptional(files[h], h)
    BY <1>2 DEF OptionalDataIsOfThisBlock, OwnOptional, Prefixes
  <2> QED BY <1>1, <1>2, <2>1
<1>3. CASE pc = "write" /\ h = height /\ files'[h] = json
  <2>1. /\ json.info \in Seq(OwnIds(height)) /\ json.entry \in Seq(OwnIds(height))
        /\ json.data_entry \in Seq(OwnIds(height))
        /\ json.block_ext \in OwnIds(height) \cup {Null}
    BY <1>3 DEF OptionalInv, Optional
  <2>2. ASSUME NEW list \in Seq(OwnIds(height)) PROVE Elements(list) \subseteq OwnIds(height)
    BY DEF Elements
  <2>3. OwnOptional(json, height)
    BY <2>1, <2>2 DEF OwnOptional, OwnIds
  <2> QED BY <1>1, <1>3, <2>3
<1> QED BY <1>2, <1>3, DocumentsStep

(* Whatever columns the database lacks, a document lists only rows stored    *)
(* under its own block's hash or under those of its transactions.            *)
THEOREM OptionalDataIsOfThisBlockAlways == Spec => []OptionalDataIsOfThisBlock
<1>1. Init => OptionalDataIsOfThisBlock
  BY DEF Init, OptionalDataIsOfThisBlock, Written
<1>2. BaseInv /\ CountInv /\ OptionalInv /\ OptionalDataIsOfThisBlock /\ [Next]_vars
        => (CountInv /\ OptionalInv /\ OptionalDataIsOfThisBlock)'
  BY CountStep, OptionalStep, OptionalFiles
<1> QED
  BY <1>1, <1>2, BaseAlways, TransactionsInit, OptionalInit, PTL DEF Spec

-----------------------------------------------------------------------------
(***************************************************************************)
(* The records of the transactions: behind the read for the n-th one, info *)
(* has those of the first n, and only a row that cannot be parsed is left  *)
(* out.                                                                    *)
(***************************************************************************)
LEMMA RecordsEmpty == ASSUME NEW h PROVE Records(<< >>, h, 0)
<1> DEFINE of == [m \in DOMAIN << >> |-> 0]
<1>1. DOMAIN << >> = {} /\ 0..(0 - 1) = {}
  OBVIOUS
<1>2. of \in [DOMAIN << >> -> 0..(0 - 1)]
  BY <1>1
<1> QED BY <1>1, <1>2 DEF Records, Recorded

LEMMA RecordsNext ==
  ASSUME NEW S, NEW info \in Seq(S), NEW h, NEW n \in Nat, Records(info, h, n),
         NEW id \in S, id = <<"5", BodyAt(h, n).data>>
  PROVE  Records(Append(info, id), h, n + 1)
<1> DEFINE next == Append(info, id)
           last == Len(info) + 1
<1>1. PICK of \in [DOMAIN info -> 0..(n - 1)] : Recorded(info, h, n, of)
  BY DEF Records
<1> DEFINE more == [m \in DOMAIN next |-> IF m = last THEN n ELSE of[m]]
<1>2. /\ DOMAIN info = 1..Len(info) /\ DOMAIN next = 1..last /\ Len(info) \in Nat
      /\ next[last] = id /\ \A m \in 1..Len(info) : next[m] = info[m]
  OBVIOUS
<1>3. more[last] = n /\ \A m \in 1..Len(info) : more[m] = of[m] /\ of[m] \in 0..(n - 1)
  BY <1>2
<1>4. more \in [DOMAIN next -> 0..((n + 1) - 1)]
  BY <1>2, <1>3
<1> HIDE DEF more, next, last
<1>5. 1..last = (1..Len(info)) \cup {last} /\ \A m \in 1..Len(info) : m < last
  BY <1>2 DEF last
<1>6. ASSUME NEW m \in 1..last PROVE next[m] = <<"5", BodyAt(h, more[m]).data>>
  <2>1. CASE m = last
    BY <1>2, <1>3, <2>1
  <2>2. CASE m \in 1..Len(info)
    BY <1>1, <1>2, <1>3, <2>2 DEF Recorded
  <2> QED BY <1>5, <2>1, <2>2
<1>7. ASSUME NEW l \in 1..last, NEW m \in 1..last, l < m PROVE more[l] < more[m]
  <2>1. l \in 1..Len(info)
    BY <1>2, <1>7 DEF last
  <2>2. CASE m = last
    BY <1>3, <2>1, <2>2
  <2>3. CASE m \in 1..Len(info)
    BY <1>1, <1>2, <1>3, <1>7, <2>1, <2>3 DEF Recorded
  <2> QED BY <1>5, <2>2, <2>3
<1>8. ASSUME NEW k \in 0..((n + 1) - 1), Parsable("5", BodyAt(h, k).data)
      PROVE  \E m \in 1..last : more[m] = k
  <2>1. CASE k = n
    BY <1>3, <1>5, <2>1
  <2>2. CASE k # n
    <3>1. k \in 0..(n - 1)
      BY <2>2
    <3>2. PICK m \in 1..Len(info) : of[m] = k
      BY <1>1, <1>2, <1>8, <3>1 DEF Recorded
    <3> QED BY <1>3, <1>5, <3>2
  <2> QED BY <2>1, <2>2
<1>9. Recorded(next, h, n + 1, more)
  BY <1>2, <1>6, <1>7, <1>8 DEF Recorded
<1> QED BY <1>4, <1>9 DEF Records, next

LEMMA RecordsSkip ==
  ASSUME NEW info, NEW h, NEW n \in Nat, Records(info, h, n),
         ~Parsable("5", BodyAt(h, n).data)
  PROVE  Records(info, h, n + 1)
<1>1. PICK of \in [DOMAIN info -> 0..(n - 1)] : Recorded(info, h, n, of)
  BY DEF Records
<1>2. (n + 1) - 1 = n /\ 0..n = (0..(n - 1)) \cup {n}
  OBVIOUS
<1>3. of \in [DOMAIN info -> 0..((n + 1) - 1)]
  BY <1>2
<1>4. Recorded(info, h, n + 1, of)
  BY <1>1, <1>2 DEF Recorded
<1> QED BY <1>3, <1>4 DEF Records

LEMMA RecordsStay ==
  ASSUME BaseInv, [Next]_vars, NEW info, NEW h, NEW n, Records(info, h, n)
  PROVE  Records(info, h, n)'
<1>1. PICK of \in [DOMAIN info -> 0..(n - 1)] : Recorded(info, h, n, of)
  BY DEF Records
<1>2. \A k : BodyAt(h, k)' = BodyAt(h, k)
  BY BlocksStay
<1>3. \A key : Parsable("5", key)' => Parsable("5", key)
  BY ReadableShrinks
<1>4. Recorded(info, h, n, of)'
  BY <1>1, <1>2, <1>3 DEF Recorded
<1> QED BY <1>4 DEF Records

LEMMA BlockExtStays ==
  ASSUME BaseInv, [Next]_vars, NEW ext, NEW h, BlockExtOf(ext, h)
  PROVE  BlockExtOf(ext, h)'
<1>1. HashAt(h)' = HashAt(h)
  BY BlocksStay
<1>2. \A key : Parsable("6", key)' => Parsable("6", key)
  BY ReadableShrinks
<1> QED BY <1>1, <1>2 DEF BlockExtOf

(* What main does with a row of columns 5 and 6 it finds or does not find.   *)
LEMMA RecordRead ==
  ASSUME BaseInv, pc \in Columns, NEW cf \in Columns, NEW key, Read(cf, key), Mapped(cf)
  PROVE  \/ status' = "OK" /\ Parses(cf, value') /\ value'.id = <<cf, key>>
         \/ ~(status' = "OK" /\ Parses(cf, value')) /\ ~Parsable(cf, key)
<1>1. cf \in ColumnFamilies
  BY ColumnsExist
<1>2. CASE ReadReturns(cf, key)
  <2>1. status' = "OK" /\ value' = rows[cf][key] /\ value'.id = <<cf, key>>
    BY <1>1, <1>2, ReadOutcome
  <2> QED BY <2>1 DEF Parsable
<1>3. CASE ~ReadReturns(cf, key)
  BY <1>1, <1>3, ReadOutcome DEF Parsable
<1> QED BY <1>2, <1>3

LEMMA InfoStep ==
  BaseInv /\ CountInv /\ OptionalInv /\ InfoInv /\ [Next]_vars => InfoInv'
<1> SUFFICES ASSUME BaseInv, CountInv, OptionalInv, InfoInv, [Next]_vars PROVE InfoInv'
  OBVIOUS
<1>n. ASSUME pc' \notin Optional PROVE InfoInv'
  BY <1>n DEF InfoInv, Optional
<1>m. pc # "start" => Mapped("5")' = Mapped("5") /\ Mapped("6")' = Mapped("6")
  BY StepFrame DEF Mapped, Elements, BaseInv
<1>c. CountAt(height)' = CountAt(height) \/ height' # height
  BY BlocksStay
<1>1. CASE pc' \notin Optional
  BY <1>1, <1>n
<1>2. CASE ReadExtension
  <2>1. /\ pc = "15" /\ tx_index' = 0 /\ UNCHANGED <<height, tx_infos>>
        /\ pc' = IF tx_infos = << >> THEN "6" ELSE "5"
    BY <1>2 DEF ReadExtension, Goto
  <2>2. json'.info = << >>
    BY <2>1, JsonStep DEF Loop, ReadInfo, OptionalInv, Optional, Body, Columns
  <2>3. Records(json.info, height, 0)'
    BY <2>2, RecordsEmpty, RecordsStay
  <2>4. tx_infos = << >> => CountAt(height) = 0
    BY <2>1 DEF CountInv, BehindCount, Rear
  <2> QED BY <1>c, <2>1, <2>3, <2>4 DEF InfoInv
<1>3. CASE ReadInfo
  <2>1. /\ pc = "5" /\ Read("5", TxHash) /\ UNCHANGED <<height, tx_index>> /\ pc' = "10"
    BY <1>3 DEF ReadInfo, Goto
  <2>2. ASSUME Mapped("5") PROVE Records(json'.info, height, tx_index + 1)
    <3>1. TxHash = BodyAt(height, tx_index).data /\ tx_index \in Nat /\ TxHash \in Prefixes(height)
      BY <2>1, TxHashKnown
    <3>2. Records(json.info, height, tx_index) /\ json.info \in Seq(OwnIds(height))
      BY <2>1, <2>2 DEF InfoInv, OptionalInv, Optional
    <3>3. json'.info = Grown(json.info, "5")
      BY <1>3, JsonReads
    <3>4. CASE status' = "OK" /\ Parses("5", value') /\ value'.id = <<"5", TxHash>>
      <4>1. value'.id \in OwnIds(height)
        BY <2>1, <3>4, TxHashKnown, ReadOwn DEF Columns
      <4>2. json'.info = Append(json.info, value'.id)
        BY <3>3, <3>4 DEF Grown
      <4> QED BY <3>1, <3>2, <3>4, <4>1, <4>2, RecordsNext
    <3>5. CASE ~(status' = "OK" /\ Parses("5", value')) /\ ~Parsable("5", TxHash)
      BY <3>1, <3>2, <3>3, <3>5, RecordsSkip DEF Grown
    <3> QED BY <2>1, <2>2, <3>4, <3>5, RecordRead DEF Columns
  <2> QED BY <1>m, <2>1, <2>2, RecordsStay DEF InfoInv
<1>4. CASE ReadEntry
  <2>1. /\ pc = "10" /\ UNCHANGED <<height, tx_index>> /\ pc' = "12" /\ json'.info = json.info
    BY <1>4, JsonStep DEF ReadEntry, Loop, ReadInfo, Goto
  <2> QED BY <1>m, <2>1, RecordsStay DEF InfoInv
<1>5. CASE ReadDataEntry
  <2>1. /\ pc = "12" /\ UNCHANGED <<height, tx_infos>> /\ tx_index' = tx_index + 1
        /\ pc' = IF tx_index + 1 < Len(tx_infos) THEN "5" ELSE "6"
        /\ json'.info = json.info
    BY <1>5, JsonStep DEF ReadDataEntry, Loop, ReadInfo, Goto
  <2>2. tx_index \in Nat /\ tx_index < CountAt(height) /\ CountAt(height) \in Nat
          /\ Len(tx_infos) = CountAt(height)
    BY <2>1, TxHashKnown
  <2>3. pc' = "6" => tx_index + 1 = CountAt(height)
    BY <2>1, <2>2
  <2>4. Mapped("5") => Records(json.info, height, tx_index)'
    BY <2>1, RecordsStay DEF InfoInv
  <2> QED BY <1>c, <1>m, <2>1, <2>3, <2>4 DEF InfoInv
<1>6. CASE ReadBlockExt
  <2>1. /\ pc = "6" /\ Read("6", hash_bytes) /\ UNCHANGED height /\ pc' = "write"
        /\ json'.info = json.info
    BY <1>6, JsonStep DEF ReadBlockExt, Loop, ReadInfo, Goto
  <2>2. hash_bytes = HashAt(height) /\ hash_bytes \in Seq(Nat) /\ json.block_ext = Null
    BY <2>1, HashKnown DEF OptionalInv, Body, Columns
  <2>3. ASSUME Mapped("6") PROVE BlockExtOf(json'.block_ext, height)
    <3>1. json'.block_ext = IF status' = "OK" /\ Parses("6", value') THEN value'.id ELSE Null
      BY <1>6, <2>2, JsonReads
    <3>2. Null # <<"6", hash_bytes>>
      BY <2>2, NullIsNoId, ColumnsExist DEF Columns
    <3> QED BY <2>1, <2>2, <2>3, <3>1, <3>2, RecordRead DEF Columns, BlockExtOf
  <2> QED BY <1>c, <1>m, <2>1, <2>3, RecordsStay, BlockExtStays DEF InfoInv
<1>7. CASE Construct \/ NodeStep \/ UNCHANGED vars
  <2>1. UNCHANGED <<pc, height, json, tx_index>>
    BY <1>7 DEF Construct, NodeStep, vars
  <2>2. CASE pc = "start"
    BY <1>n, <2>1, <2>2 DEF Optional
  <2>3. CASE pc # "start"
    BY <1>c, <1>m, <2>1, <2>3, RecordsStay, BlockExtStays DEF InfoInv
  <2> QED BY <2>2, <2>3
<1>8. CASE Start \/ Loop \/ ReadIndex \/ ReadHeader \/ ReadUncles \/ ReadCount \/ ReadBody
            \/ BodyDone \/ ReadProposals \/ WriteFile \/ Exit
  BY <1>8, <1>n DEF Start, Loop, ReadIndex, ReadHeader, ReadUncles, ReadCount, ReadBody,
     BodyDone, ReadProposals, WriteFile, Exit, Return, Goto, Reject, Optional
<1> QED
  BY <1>2, <1>3, <1>4, <1>5, <1>6, <1>7, <1>8 DEF Next, Main

InfoOf(f, h) == /\ Mapped("5") => Records(f.info, h, CountAt(h))
                /\ Mapped("6") => BlockExtOf(f.block_ext, h)

LEMMA InfoOfDocuments ==
  InfoIsOwnAndComplete <=> \A h \in Written : InfoOf(files[h], h)
  BY DEF InfoIsOwnAndComplete, InfoOf, Records, Recorded, BlockExtOf

LEMMA InfoFiles ==
  BaseInv /\ InfoInv /\ InfoIsOwnAndComplete /\ [Next]_vars => InfoIsOwnAndComplete'
<1> SUFFICES ASSUME BaseInv, InfoInv, InfoIsOwnAndComplete, [Next]_vars, NEW h \in Written'
             PROVE  InfoOf(files[h], h)'
  BY DEF InfoIsOwnAndComplete, InfoOf, Records, Recorded, BlockExtOf
<1>1. ASSUME NEW f, InfoOf(f, h), pc # "start" PROVE InfoOf(f, h)'
  <2>1. Mapped("5")' = Mapped("5") /\ Mapped("6")' = Mapped("6") /\ CountAt(h)' = CountAt(h)
    BY <1>1, StepFrame, BlocksStay DEF Mapped, Elements, BaseInv
  <2> QED BY <1>1, <2>1, RecordsStay, BlockExtStays DEF InfoOf
<1>2. CASE h \in Written /\ files'[h] = files[h] /\ pc # "start"
  BY <1>1, <1>2, InfoOfDocuments
<1>3. CASE pc = "write" /\ h = height /\ files'[h] = json
  BY <1>1, <1>3 DEF InfoInv, InfoOf
<1> QED BY <1>2, <1>3, DocumentsStep

(* In a database with the columns, info has the record of each of the        *)
(* block's transactions that has one, in their order and nothing else, and   *)
(* block_ext the block's.                                                    *)
THEOREM InfoIsOwnAndCompleteAlways == Spec => []InfoIsOwnAndComplete
<1>1. Init => InfoIsOwnAndComplete /\ InfoInv
  BY DEF Init, InfoIsOwnAndComplete, Written, InfoInv
<1>2. BaseInv /\ CountInv /\ OptionalInv /\ InfoInv /\ InfoIsOwnAndComplete /\ [Next]_vars
        => (CountInv /\ OptionalInv /\ InfoInv /\ InfoIsOwnAndComplete)'
  BY CountStep, OptionalStep, InfoStep, InfoFiles
<1> QED
  BY <1>1, <1>2, BaseAlways, TransactionsInit, OptionalInit, PTL DEF Spec

-----------------------------------------------------------------------------
(***************************************************************************)
(* The cells.  In a small block the index of any transaction but the first *)
(* becomes, with its bytes swapped, that of no output.                     *)
(***************************************************************************)
LEMMA SwappedIndex ==
  ASSUME NEW n \in Nat, n < 65536
  PROVE  /\ ByteSwap32(n) \in Nat
         /\ n = 0 => ByteSwap32(n) = 0
         /\ n # 0 => ByteSwap32(n) >= 65536
<1>1. 256^0 = 1 /\ 256^1 = 256 /\ 256^2 = 65536 /\ 256^3 = 16777216
  OBVIOUS
<1> DEFINE q == n \div 256
           r == n % 256
<1>2. q \in 0..255 /\ r \in 0..255 /\ n = 256 * q + r
  OBVIOUS
<1> HIDE DEF q, r
<1>3. Byte(n, 0) = r /\ Byte(n, 1) = q /\ Byte(n, 2) = 0 /\ Byte(n, 3) = 0
  BY <1>1, <1>2 DEF Byte
<1>4. ByteSwap32(n) = r * 16777216 + q * 65536
  BY <1>1, <1>2, <1>3 DEF ByteSwap32
<1> QED BY <1>2, <1>4

LEMMA CellRead ==
  ASSUME SmallBlocks, BaseInv, CountInv, CellsInv, pc \in {"10", "12"},
         NEW cf \in {"10", "12"}, Mapped(cf), Read(cf, CellKey(TxHash, tx_index)),
         NEW S, NEW list \in Seq(S), FirstCell(cf, list, height), tx_index = 0 => list = << >>
  PROVE  FirstCell(cf, Grown(list, cf), height)
<1> DEFINE key == CellKey(TxHash, tx_index)
<1>1. /\ TxHash = BodyAt(height, tx_index).data /\ TxHash \in Seq(Nat)
      /\ tx_index \in Nat /\ tx_index < CountAt(height) /\ CountAt(height) \in Nat
  BY TxHashKnown
<1>2. CountAt(height) < 65536
  BY DEF CountInv, CellsInv, BehindCount, Rear, Optional
<1>3. tx_index < 65536
  BY <1>1, <1>2
<1>4. CASE tx_index = 0
  <2>1. ByteSwap32(tx_index) = 0
    BY <1>1, <1>3, <1>4, SwappedIndex
  <2>2. key = BodyAt(height, tx_index).data \o <<0>>
    BY <1>1, <2>1 DEF CellKey
  <2>3. status' = "OK" /\ Parses(cf, value') => value'.id = <<cf, key>>
    BY RecordRead DEF Columns
  <2>4. Append(<< >>, value'.id) = <<value'.id>>
    OBVIOUS
  <2>5. Grown(list, cf) = << >> \/ Grown(list, cf) = <<(<<cf, key>>)>>
    BY <1>4, <2>3, <2>4 DEF Grown
  <2> QED BY <1>4, <2>2, <2>5 DEF FirstCell
<1>5. CASE tx_index # 0
  <2> DEFINE out == ByteSwap32(tx_index)
  <2>1. out \in Nat /\ out >= 65536
    BY <1>1, <1>3, <1>5, SwappedIndex
  <2> HIDE DEF out
  <2>2. key = TxHash \o <<out>>
    BY DEF CellKey, out
  <2>3. key \in Seq(Nat) /\ key[Len(key)] = out
    BY <1>1, <2>1, <2>2
  <2>4. key \notin DOMAIN rows[cf]
    BY <2>1, <2>3 DEF SmallBlocks, CellsInv
  <2>5. ~ReadReturns(cf, key)
    BY <2>4 DEF ReadReturns, GetStatus
  <2>6. status' # "OK"
    BY <2>5, ReadOutcome, ColumnsExist DEF Columns
  <2> QED BY <2>6 DEF Grown
<1> QED BY <1>4, <1>5

LEMMA CellsStep ==
  ASSUME SmallBlocks
  PROVE  BaseInv /\ CountInv /\ OptionalInv /\ CellsInv /\ [Next]_vars => CellsInv'
<1> SUFFICES ASSUME BaseInv, CountInv, OptionalInv, CellsInv, [Next]_vars PROVE CellsInv'
  OBVIOUS
<1> USE DEF BehindCount, Rear, Optional
<1>r. rows' \in Databases
  BY RowsStep DEF CellsInv
<1>m. pc # "start" => Mapped("10")' = Mapped("10") /\ Mapped("12")' = Mapped("12")
  BY StepFrame DEF Mapped, Elements, BaseInv
<1>f. \A cf, list, h : FirstCell(cf, list, h)' <=> FirstCell(cf, list, h)
  BY BlocksStay DEF FirstCell
<1>n. ASSUME pc' \notin BehindCount PROVE CellsInv'
  BY <1>n, <1>r DEF CellsInv
<1>b. ASSUME pc \in BehindCount, UNCHANGED txs_len, pc' \in BehindCount \ Optional PROVE CellsInv'
  BY <1>b, <1>r DEF CellsInv
<1>o. ASSUME pc \in {"15"} \cup Optional, pc' \in Optional, UNCHANGED <<height, txs_len>>,
             Mapped("10") => /\ FirstCell("10", json'.entry, height)
                             /\ pc' \in {"5", "10"} /\ tx_index' = 0 => json'.entry = << >>,
             Mapped("12") => /\ FirstCell("12", json'.data_entry, height)
                             /\ pc' \in {"5", "10", "12"} /\ tx_index' = 0
                                  => json'.data_entry = << >>
      PROVE  CellsInv'
  BY <1>o, <1>r, <1>m, <1>f DEF CellsInv
<1>1. CASE ReadCount
  <2>1. CASE pc' = "2"
    <3>1. Read("13", NumberHashKey) /\ ReadReturns("13", NumberHashKey) /\ txs_len' = value'.data[1]
      BY <1>1, <2>1 DEF ReadCount, Return, Goto
    <3>2. NumberHashKey \in DOMAIN rows["13"] /\ value' = rows["13"][NumberHashKey]
      BY <3>1 DEF Read, ReadReturns, GetStatus, ValueAfter
    <3>3. txs_len' < 65536
      BY <3>1, <3>2 DEF SmallBlocks, CellsInv
    <3> QED BY <1>r, <2>1, <3>3 DEF CellsInv
  <2>2. CASE pc' # "2"
    BY <1>1, <1>n, <2>2 DEF ReadCount, Return, Goto
  <2> QED BY <2>1, <2>2
<1>2. CASE ReadBody \/ BodyDone \/ ReadProposals
  <2>1. /\ pc \in {"2", "7"} /\ UNCHANGED txs_len
        /\ pc' \in {"2", "7", "15", "return", "aborted"}
    BY <1>2 DEF ReadBody, BodyDone, ReadProposals, Return, Goto, Reject
  <2> QED BY <1>n, <1>b, <2>1
<1>3. CASE ReadExtension
  <2>1. /\ pc = "15" /\ pc' \in {"5", "6"} /\ UNCHANGED <<height, txs_len>>
        /\ json'.entry = << >> /\ json'.data_entry = << >>
    BY <1>3, JsonStep DEF ReadExtension, Goto, Loop, ReadEntry, ReadDataEntry, OptionalInv,
       Body, Columns
  <2> QED BY <1>o, <2>1 DEF FirstCell
<1>4. CASE ReadInfo
  <2>1. /\ pc = "5" /\ pc' = "10" /\ UNCHANGED <<height, txs_len, tx_index>>
        /\ json'.entry = json.entry /\ json'.data_entry = json.data_entry
    BY <1>4, JsonStep DEF ReadInfo, Goto, Loop, ReadEntry, ReadDataEntry
  <2> QED BY <1>o, <2>1 DEF CellsInv
<1>5. CASE ReadEntry
  <2>1. /\ pc = "10" /\ pc' = "12" /\ UNCHANGED <<height, txs_len, tx_index>>
        /\ json'.data_entry = json.data_entry /\ Read("10", CellKey(TxHash, tx_index))
    BY <1>5, JsonStep DEF ReadEntry, Goto, Loop, ReadDataEntry
  <2>2. json'.entry = Grown(json.entry, "10") /\ json.entry \in Seq(OwnIds(height))
    BY <1>5, <2>1, JsonReads DEF OptionalInv
  <2>3. Mapped("10") => FirstCell("10", json'.entry, height)
    BY <2>1, <2>2, CellRead DEF CellsInv
  <2> QED BY <1>o, <2>1, <2>3 DEF CellsInv
<1>6. CASE ReadDataEntry
  <2>1. /\ pc = "12" /\ pc' \in {"5", "6"} /\ UNCHANGED <<height, txs_len>>
        /\ tx_index' = tx_index + 1 /\ tx_index \in Nat
        /\ json'.entry = json.entry /\ Read("12", CellKey(TxHash, tx_index))
    BY <1>6, JsonStep DEF ReadDataEntry, Goto, Loop, ReadEntry, BaseInv, TypeInv, TypeOK
  <2>2. json'.data_entry = Grown(json.data_entry, "12") /\ json.data_entry \in Seq(OwnIds(height))
    BY <1>6, <2>1, JsonReads DEF OptionalInv
  <2>3. Mapped("12") => FirstCell("12", json'.data_entry, height)
    BY <2>1, <2>2, CellRead DEF CellsInv
  <2>4. tx_index' # 0
    BY <2>1
  <2> QED BY <1>o, <2>1, <2>3, <2>4 DEF CellsInv
<1>7. CASE ReadBlockExt
  <2>1. /\ pc = "6" /\ pc' = "write" /\ UNCHANGED <<height, txs_len>>
        /\ json'.entry = json.entry /\ json'.data_entry = json.data_entry
    BY <1>7, JsonStep DEF ReadBlockExt, Goto, Loop, ReadEntry, ReadDataEntry
  <2> QED BY <1>o, <2>1 DEF CellsInv
<1>8. CASE Start \/ Loop \/ ReadIndex \/ ReadHeader \/ ReadUncles \/ WriteFile \/ Exit
  BY <1>8, <1>n DEF Start, Loop, ReadIndex, ReadHeader, ReadUncles, WriteFile, Exit,
     Return, Goto, Reject
<1>9. CASE Construct \/ NodeStep \/ UNCHANGED vars
  <2>1. UNCHANGED <<pc, height, json, tx_index, txs_len>>
    BY <1>9 DEF Construct, NodeStep, vars
  <2>2. CASE pc \in Optional
    BY <1>o, <2>1, <2>2 DEF CellsInv
  <2>3. CASE pc \notin Optional
    BY <1>n, <1>b, <2>1, <2>3
  <2> QED BY <2>2, <2>3
<1> QED
  BY <1>1, <1>2, <1>3, <1>4, <1>5, <1>6, <1>7, <1>8, <1>9 DEF Next, Main

CellsOf(f, h) == /\ Mapped("10") => FirstCell("10", f.entry, h)
                 /\ Mapped("12") => FirstCell("12", f.data_entry, h)

LEMMA CellsOfDocuments ==
  OnlyFirstCell <=> \A h \in Written : CellsOf(files[h], h)
  BY DEF OnlyFirstCell, CellsOf, FirstCell

LEMMA CellsFiles ==
  BaseInv /\ CellsInv /\ OnlyFirstCell /\ [Next]_vars => OnlyFirstCell'
<1> SUFFICES ASSUME BaseInv, CellsInv, OnlyFirstCell, [Next]_vars, NEW h \in Written'
             PROVE  CellsOf(files[h], h)'
  BY DEF OnlyFirstCell, CellsOf, FirstCell
<1>1. ASSUME NEW f, CellsOf(f, h), pc # "start" PROVE CellsOf(f, h)'
  <2>1. Mapped("10")' = Mapped("10") /\ Mapped("12")' = Mapped("12")
    BY <1>1, StepFrame DEF Mapped, Elements, BaseInv
  <2> QED BY <1>1, <2>1, BlocksStay DEF CellsOf, FirstCell
<1>2. CASE h \in Written /\ files'[h] = files[h] /\ pc # "start"
  BY <1>1, <1>2, CellsOfDocuments
<1>3. CASE pc = "write" /\ h = height /\ files'[h] = json
  BY <1>1, <1>3 DEF CellsInv, CellsOf, Optional
<1> QED BY <1>2, <1>3, DocumentsStep

(* In a chain of small blocks a document shows at most one cell under entry  *)
(* and one under data_entry: output 0 of the block's first transaction.      *)
THEOREM OnlyFirstCellAlways ==
  ASSUME SmallBlocks
  PROVE  Spec => []OnlyFirstCell
<1>1. Init => OnlyFirstCell /\ CellsInv
  BY DEF Init, OnlyFirstCell, Written, CellsInv, BehindCount, Rear, Optional
<1>2. BaseInv /\ CountInv /\ OptionalInv /\ CellsInv /\ OnlyFirstCell /\ [Next]_vars
        => (CountInv /\ OptionalInv /\ CellsInv /\ OnlyFirstCell)'
  BY CountStep, OptionalStep, CellsStep, CellsFiles
<1> QED
  BY <1>1, <1>2, BaseAlways, TransactionsInit, OptionalInit, PTL DEF Spec

-----------------------------------------------------------------------------
(***************************************************************************)
(* The exit code.  Main returns from the middle of the body right behind   *)
(* the read that fails, and what made it fail stays so.                    *)
(***************************************************************************)
Failed(cf, key) == ~Mapped(cf) \/ ~Readable(cf, key)
Malformed(cf, key) == key \in DOMAIN rows[cf] /\ ~Parses(cf, rows[cf][key])
BodyKeys == {HashAt(height) \o <<n>> : n \in 0..(txs_len - 1)}

Explains(code) ==
  /\ code = -2 => Failed("0", <<height>>)
  /\ code = -3 => Failed("1", hash_bytes)
  /\ code = -4 => Malformed("1", hash_bytes)
  /\ code = -5 => Failed("3", hash_bytes)
  /\ code = -6 => Malformed("3", hash_bytes)
  /\ code = -7 => Failed("13", <<height>> \o hash_bytes)
  /\ code = -8 => \E key \in BodyKeys : Failed("2", key)
  /\ code = -9 => \/ Failed("7", hash_bytes)
                  \/ \E key \in BodyKeys : Malformed("2", key)
  /\ code = -10 => Malformed("7", hash_bytes)

Stopped(code) == /\ DOMAIN files = args.start..(height - 1)
                 /\ height < args.end
                 /\ code < -2 => hash_bytes = HashAt(height)

LEMMA ExitCodeParts ==
  ExitCodeExplains <=>
    (pc \in {"return", "done"} /\ exit_code < -1 => Stopped(exit_code) /\ Explains(exit_code))
  BY DEF ExitCodeExplains, Stopped, Explains, Failed, Malformed, BodyKeys

(* Why a ReadData of main returned false, and why a parser did.              *)
LEMMA ReadFailed ==
  ASSUME BaseInv, pc \in Columns, NEW cf \in Columns, NEW key, Read(cf, key)
  PROVE  /\ ~ReadReturns(cf, key) => Failed(cf, key)
         /\ ReadReturns(cf, key) /\ ~Parses(cf, value') => Malformed(cf, key)
<1>1. cf \in ColumnFamilies
  BY ColumnsExist
<1>2. ~ReadReturns(cf, key) => Failed(cf, key)
  BY <1>1, ReadOutcome DEF Failed
<1>3. ReadReturns(cf, key) /\ ~Parses(cf, value') => Malformed(cf, key)
  BY <1>1, ReadOutcome DEF Malformed, Readable
<1> QED BY <1>2, <1>3

(* The reason is as good after the step in which main returns with it and    *)
(* after any later one.                                                      *)
LEMMA ReasonStays ==
  ASSUME BaseInv, [Next]_vars, UNCHANGED <<height, txs_len, hash_bytes>>, pc # "start",
         NEW code \in (-10)..(-2), Explains(code)
  PROVE  Explains(code)'
<1>1. /\ rows' = rows /\ \A cf : Mapped(cf)' = Mapped(cf)
      /\ \A h : HashAt(h)' = HashAt(h)
  BY StepFrame, BlocksStay DEF Mapped, Elements, BaseInv
<1>2. \A cf, key : Failed(cf, key) => Failed(cf, key)'
  BY <1>1, ReadableShrinks DEF Failed
<1>3. \A cf, key : Malformed(cf, key) => Malformed(cf, key)'
  BY <1>1 DEF Malformed
<1>4. BodyKeys' = BodyKeys
  BY <1>1 DEF BodyKeys
<1> QED BY <1>2, <1>3, <1>4 DEF Explains

LEMMA ExitCodeStep ==
  BaseInv /\ ExitCodeExplains /\ [Next]_vars => ExitCodeExplains'
<1> SUFFICES ASSUME BaseInv, ExitCodeExplains, [Next]_vars,
                    pc' \in {"return", "done"}, exit_code' < -1
             PROVE  Stopped(exit_code)' /\ Explains(exit_code)'
  BY DEF ExitCodeExplains, Stopped, Explains, Failed, Malformed, BodyKeys
<1>h. args' = args /\ \A h : HashAt(h)' = HashAt(h)
  BY StepFrame, BlocksStay DEF BaseInv
<1>c. exit_code' \in (-10)..(-2)
  <2>1. exit_code' \in (-10)..0 \cup {134}
    BY ResultsStep DEF BaseInv, TypeInv
  <2> QED BY <2>1
<1>s. ASSUME pc \in {"return", "done"}, UNCHANGED <<exit_code, height, txs_len, hash_bytes, files>>
      PROVE  Stopped(exit_code)' /\ Explains(exit_code)'
  <2>1. Stopped(exit_code) /\ Explains(exit_code)
    BY <1>s, ExitCodeParts
  <2> QED BY <1>h, <1>c, <1>s, <2>1, ReasonStays DEF Stopped
<1>b. ASSUME pc \in Columns, UNCHANGED <<height, txs_len, hash_bytes>>, Explains(exit_code'),
             pc = "0" => exit_code' = -2
      PROVE  Stopped(exit_code)' /\ Explains(exit_code)'
  <2>1. UNCHANGED files
    BY <1>b, FilesStep DEF WriteFile, Columns
  <2>2. DOMAIN files = args.start..(height - 1) /\ height < args.end
    BY <1>b DEF BaseInv, ProgressInv, Started, Body
  <2>3. pc # "0" => hash_bytes = HashAt(height)
    BY <1>b, HashKnown DEF Body
  <2>4. Explains(exit_code)'
    BY <1>b, <1>c, ReasonStays DEF Columns
  <2> QED BY <1>h, <1>b, <2>1, <2>2, <2>3, <2>4 DEF Stopped
<1>1. CASE ReadIndex
  <2>1. /\ pc = "0" /\ ~ReadReturns("0", HeightKey) /\ exit_code' = -2
        /\ UNCHANGED <<height, txs_len, hash_bytes>>
    BY <1>1 DEF ReadIndex, Return, Goto
  <2>2. Failed("0", HeightKey)
    BY <2>1, ColumnsExist DEF Failed, ReadReturns, HasHandle, GetStatus, Readable, Mapped, Columns,
       BaseInv, HandlesInv, Body
  <2> QED BY <1>b, <2>1, <2>2 DEF Explains, HeightKey, Columns
<1>2. CASE ReadHeader
  <2>1. /\ pc = "1" /\ Read("1", hash_bytes) /\ UNCHANGED <<height, txs_len, hash_bytes>>
        /\ \/ ~ReadReturns("1", hash_bytes) /\ exit_code' = -3
           \/ ReadReturns("1", hash_bytes) /\ ~Parses("1", value') /\ exit_code' = -4
    BY <1>2 DEF ReadHeader, Return, Goto, Reject
  <2>2. /\ exit_code' = -3 => Failed("1", hash_bytes)
        /\ exit_code' = -4 => Malformed("1", hash_bytes)
    BY <2>1, ReadFailed DEF Columns
  <2>3. Explains(exit_code')
    BY <2>1, <2>2 DEF Explains
  <2> QED BY <1>b, <2>1, <2>3 DEF Columns
<1>3. CASE ReadUncles
  <2>1. /\ pc = "3" /\ Read("3", hash_bytes) /\ UNCHANGED <<height, txs_len, hash_bytes>>
        /\ \/ ~ReadReturns("3", hash_bytes) /\ exit_code' = -5
           \/ ReadReturns("3", hash_bytes) /\ ~Parses("3", value') /\ exit_code' = -6
    BY <1>3 DEF ReadUncles, Return, Goto, Reject
  <2>2. /\ exit_code' = -5 => Failed("3", hash_bytes)
        /\ exit_code' = -6 => Malformed("3", hash_bytes)
    BY <2>1, ReadFailed DEF Columns
  <2>3. Explains(exit_code')
    BY <2>1, <2>2 DEF Explains
  <2> QED BY <1>b, <2>1, <2>3 DEF Columns
<1>4. CASE ReadCount
  <2>1. /\ pc = "13" /\ Read("13", NumberHashKey) /\ UNCHANGED <<height, txs_len, hash_bytes>>
        /\ ~ReadReturns("13", NumberHashKey) /\ exit_code' = -7
    BY <1>4 DEF ReadCount, Return, Goto
  <2> QED BY <1>b, <2>1, ReadFailed DEF Explains, NumberHashKey, Columns
<1>5. CASE ReadBody
  <2> DEFINE key == BodyKey(hash_bytes, i)
  <2>1. /\ pc = "2" /\ i < txs_len /\ Read("2", key) /\ UNCHANGED <<height, txs_len, hash_bytes>>
        /\ \/ ~ReadReturns("2", key) /\ exit_code' = -8
           \/ ReadReturns("2", key) /\ ~Parses("2", value') /\ exit_code' = -9
    BY <1>5 DEF ReadBody, Return, Goto, Reject
  <2>2. key \in BodyKeys
    <3>1. i \in 0..(txs_len - 1)
      BY <2>1 DEF BaseInv, TypeInv, TypeOK
    <3> QED BY <2>1, <3>1, HashKnown DEF BodyKeys, BodyKey, Body, Columns
  <2>3. /\ exit_code' = -8 => Failed("2", key)
        /\ exit_code' = -9 => Malformed("2", key)
    BY <2>1, ReadFailed DEF Columns
  <2>4. Explains(exit_code')
    BY <2>1, <2>2, <2>3 DEF Explains
  <2> QED BY <1>b, <2>1, <2>4 DEF Columns
<1>6. CASE ReadProposals
  <2>1. /\ pc = "7" /\ Read("7", hash_bytes) /\ UNCHANGED <<height, txs_len, hash_bytes>>
        /\ \/ ~ReadReturns("7", hash_bytes) /\ exit_code' = -9
           \/ ReadReturns("7", hash_bytes) /\ ~Parses("7", value') /\ exit_code' = -10
    BY <1>6 DEF ReadProposals, Return, Goto, Reject
  <2>2. /\ exit_code' = -9 => Failed("7", hash_bytes)
        /\ exit_code' = -10 => Malformed("7", hash_bytes)
    BY <2>1, ReadFailed DEF Columns
  <2>3. Explains(exit_code')
    BY <2>1, <2>2 DEF Explains
  <2> QED BY <1>b, <2>1, <2>3 DEF Columns
<1>7. CASE Start \/ Loop
  BY <1>7 DEF Start, Loop, Return, Goto
<1>8. CASE BodyDone \/ ReadExtension \/ ReadInfo \/ ReadEntry \/ ReadDataEntry \/ ReadBlockExt
            \/ WriteFile
  BY <1>8 DEF BodyDone, ReadExtension, ReadInfo, ReadEntry, ReadDataEntry, ReadBlockExt,
     WriteFile, Goto
<1>9. CASE Exit
  BY <1>9, <1>s DEF Exit, Goto
<1>10. CASE Construct \/ NodeStep \/ UNCHANGED vars
  BY <1>10, <1>s DEF Construct, NodeStep, vars
<1> QED
  BY <1>1, <1>2, <1>3, <1>4, <1>5, <1>6, <1>7, <1>8, <1>9, <1>10 DEF Next, Main

(* A negative exit code names a read that fails at the height the run        *)
(* stopped at, and all heights before it were dealt with.                    *)
THEOREM ExitCodeExplainsAlways == Spec => []ExitCodeExplains
<1>1. Init => ExitCodeExplains
  BY DEF Init, ExitCodeExplains
<1> QED
  BY <1>1, ExitCodeStep, BaseAlways, PTL DEF Spec
=============================================================================
