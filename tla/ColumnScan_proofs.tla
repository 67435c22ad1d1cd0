-------------------------- MODULE ColumnScan_proofs --------------------------
(***************************************************************************)
(* What the four scanners print and return, for every column, every parser *)
(* that overwrites what its object showed before, and every number of      *)
(* files the node removes.  The database object is a client's, and what    *)
(* RocksDBClient_proofs says of a scan holds of theirs.                    *)
(***************************************************************************)
EXTENDS ColumnScan, SequenceTheorems, TLAPS

P == INSTANCE RocksDBClient_proofs

USE DEF object, external, dbVars, client, scan
USE DEF DB!object, DB!external, DB!dbVars, DB!client
USE DEF P!object, P!external, P!dbVars, P!client

(* What distinguishes the functions, as far as the proofs look at it.        *)
LEMMA ScannerFacts ==
  ASSUME scanner \in Started
  PROVE  /\ S.column \in ColumnFamilies
         /\ Families(S.column) \subseteq Seq(ColumnFamilies)
         /\ S.rejected \in {-2, -3}
         /\ S.skips \in BOOLEAN
<1>1. scanner \in {"main_uncles", "main_data_entry", "main_entry", "main_epoch_ext"}
  BY StartedAssumption DEF Scanners
<1>2. S.rejected \in {-2, -3} /\ S.skips \in BOOLEAN
  <2>1. CASE scanner = "main_uncles"
    BY <2>1 DEF S, Scanners
  <2>2. CASE scanner = "main_data_entry"
    BY <2>2 DEF S, Scanners
  <2>3. CASE scanner = "main_entry"
    BY <2>3 DEF S, Scanners
  <2>4. CASE scanner = "main_epoch_ext"
    BY <2>4 DEF S, Scanners
  <2> QED BY <1>1, <2>1, <2>2, <2>3, <2>4
<1> QED
  BY <1>2, FamiliesAssumption DEF S

-----------------------------------------------------------------------------
(***************************************************************************)
(* A step of a scanner is a step of the client, or none.                   *)
(***************************************************************************)
LEMMA ConstructIs ==
  ASSUME DB!Construct
  PROVE  /\ ListColumnFamilies \/ OpenForReadOnly
         /\ UNCHANGED <<client, changes>>
  BY DEF DB!Construct, DB!ListColumnFamilies, DB!OpenForReadOnly,
         ListColumnFamilies, OpenForReadOnly, DB!Elements, Elements

LEMMA ConstructClient ==
  ASSUME DB!Construct PROVE P!Construct
  BY DEF DB!Construct, DB!ListColumnFamilies, DB!OpenForReadOnly, DB!Elements,
         P!Construct, P!ListColumnFamilies, P!OpenForReadOnly, P!Elements

LEMMA GetAllDataClient ==
  ASSUME NEW cf, DB!GetAllData(cf) PROVE P!GetAllData(cf)
  BY DEF DB!GetAllData, DB!MayCall, DB!HasHandle, P!GetAllData, P!MayCall, P!HasHandle

LEMMA IterateClient ==
  ASSUME DB!IteratorNext \/ DB!IteratorEnd PROVE P!IteratorNext \/ P!IteratorEnd
  BY DEF DB!IteratorNext, DB!IteratorEnd, DB!IteratorValid, DB!IteratorKey,
         P!IteratorNext, P!IteratorEnd, P!IteratorValid, P!IteratorKey

LEMMA DeleteClient ==
  ASSUME DB!Delete
  PROVE  P!Delete /\ Destroy /\ UNCHANGED <<client, changes>>
  BY DEF DB!Delete, DB!Destroy, P!Delete, P!Destroy, Destroy

LEMMA NodeClient ==
  ASSUME DB!NodeStep
  PROVE  P!NodeStep
  BY DEF DB!NodeStep, DB!NodeCreates, DB!NodeDrops, DB!NodeRemovesFile, DB!Elements,
         P!NodeStep, P!NodeCreates, P!NodeDrops, P!NodeRemovesFile, P!Elements

LEMMA ClientStep ==
  ASSUME scanner \in Started, [Next]_vars
  PROVE  [P!Next]_(P!vars)
<1>1. CASE Open
  BY <1>1, ConstructClient DEF Open, P!Next
<1>2. CASE CheckStatus
  BY <1>2, GetAllDataClient, ScannerFacts DEF CheckStatus, P!Next, P!vars
<1>3. CASE Iterate
  BY <1>3, IterateClient DEF Iterate, P!Next
<1>4. CASE Return
  BY <1>4, DeleteClient DEF Return, P!Next
<1>5. CASE NodeStep
  BY <1>5, NodeClient DEF NodeStep, P!Next
<1>6. CASE CheckResult \/ Finish \/ Ended \/ UNCHANGED vars
  BY <1>6 DEF CheckResult, Finish, Ended, vars, P!vars
<1>7. ASSUME NEW k \in left, Skip(k) \/ ShowRow(k)
      PROVE  UNCHANGED P!vars
  BY <1>7 DEF Skip, ShowRow, P!vars
<1> QED
  BY <1>1, <1>2, <1>3, <1>4, <1>5, <1>6, <1>7 DEF Next, Step

-----------------------------------------------------------------------------
(***************************************************************************)
(* So the invariants of the client are theirs.                             *)
(***************************************************************************)
ClientInv ==
  /\ scanner \in Started
  /\ families \in Seq(ColumnFamilies)
  /\ ObjectTypeOK
  /\ P!UsableMeansOpen
  /\ P!ScanInv

LEMMA ObjectTypeIs ==
  /\ P!ObjectTypeOK <=> ObjectTypeOK
  /\ P!ObjectTypeOK' <=> ObjectTypeOK'
  BY DEF P!ObjectTypeOK, ObjectTypeOK, P!Statuses, Statuses, P!Elements, Elements

LEMMA ObjectStep ==
  ASSUME ClientInv, [Next]_vars
  PROVE  ObjectTypeOK' /\ families' \in Seq(ColumnFamilies)
<1> USE DEF ClientInv
<1>1. CASE Open
  <2>1. P!ListColumnFamilies \/ P!OpenForReadOnly
    BY <1>1, ConstructClient DEF Open, P!Construct
  <2>2. P!ObjectTypeOK'
    BY <2>1, ObjectTypeIs, P!ConstructorType, NullptrAssumption, KeysAreOrdered, ChangesBound,
       NullptrIsNoIterator
  <2>3. UNCHANGED families
    BY <1>1, ConstructIs DEF Open, ListColumnFamilies, OpenForReadOnly
  <2> QED BY <2>2, <2>3, ObjectTypeIs
<1>2. CASE Return
  <2>1. P!Destroy
    BY <1>2, DeleteClient DEF Return, P!Delete
  <2>2. P!ObjectTypeOK'
    BY <2>1, ObjectTypeIs, P!DestructorType, NullptrAssumption, KeysAreOrdered, ChangesBound,
       NullptrIsNoIterator
  <2>3. UNCHANGED families
    BY <1>2, DeleteClient DEF Return, Destroy
  <2> QED BY <2>2, <2>3, ObjectTypeIs
<1>3. ASSUME UNCHANGED <<object, status>>
      PROVE  ObjectTypeOK'
  BY <1>3 DEF ObjectTypeOK, Elements
<1>4. CASE NodeStep
  <2>1. PICK cf \in ColumnFamilies : \/ P!NodeCreates(cf)
                                     \/ P!NodeDrops(cf)
                                     \/ \E key \in Keys : P!NodeRemovesFile(cf, key)
    BY <1>4, NodeClient DEF NodeStep, P!NodeStep
  <2>2. UNCHANGED <<object, status>>
    BY <2>1 DEF P!NodeCreates, P!NodeDrops, P!NodeRemovesFile
  <2>3. families' \in Seq(ColumnFamilies)
    BY <2>1, P!FamiliesStep, NullptrAssumption, KeysAreOrdered, ChangesBound,
       NullptrIsNoIterator DEF P!NodeRemovesFile
  <2> QED BY <1>3, <2>2, <2>3
<1>5. CASE CheckStatus \/ Iterate \/ CheckResult \/ Finish \/ Ended \/ UNCHANGED vars
  <2>1. UNCHANGED dbVars
    BY <1>5 DEF CheckStatus, DB!GetAllData, Iterate, DB!IteratorNext, DB!IteratorEnd,
                CheckResult, Finish, Ended, vars
  <2> QED BY <1>3, <2>1
<1>6. ASSUME NEW k \in left, Skip(k) \/ ShowRow(k)
      PROVE  UNCHANGED dbVars
  BY <1>6 DEF Skip, ShowRow
<1>7. CASE UNCHANGED dbVars
  BY <1>3, <1>7
<1> QED
  BY <1>1, <1>2, <1>4, <1>5, <1>6, <1>7 DEF Next, Step

(* The function that runs and the rows stay the same.                        *)
LEMMA SameScanner ==
  ASSUME [Next]_vars
  PROVE  UNCHANGED <<scanner, rows>>
<1>1. CASE Open
  BY <1>1, ConstructIs DEF Open, ListColumnFamilies, OpenForReadOnly
<1>2. CASE Return
  BY <1>2, DeleteClient DEF Return, Destroy
<1>3. CASE NodeStep
  BY <1>3, NodeClient DEF NodeStep, P!NodeStep, P!NodeCreates, P!NodeDrops,
                          P!NodeRemovesFile
<1>4. CASE CheckStatus \/ Iterate \/ CheckResult \/ Finish \/ Ended \/ UNCHANGED vars
  BY <1>4 DEF CheckStatus, DB!GetAllData, Iterate, DB!IteratorNext, DB!IteratorEnd,
              CheckResult, Finish, Ended, vars
<1>5. ASSUME NEW k \in left, Skip(k) \/ ShowRow(k)
      PROVE  UNCHANGED <<scanner, rows>>
  BY <1>5 DEF Skip, ShowRow
<1> QED
  BY <1>1, <1>2, <1>3, <1>4, <1>5 DEF Next, Step

LEMMA ClientInvStep == ClientInv /\ [Next]_vars => ClientInv'
<1> SUFFICES ASSUME ClientInv, [Next]_vars PROVE ClientInv'
  OBVIOUS
<1>1. [P!Next]_(P!vars)
  BY ClientStep DEF ClientInv
<1>2. P!UsableMeansOpen'
  BY <1>1, P!UsableStep, NullptrAssumption, KeysAreOrdered, ChangesBound,
     NullptrIsNoIterator DEF ClientInv
<1>3. P!ScanInv'
  BY <1>1, P!ScanStep, NullptrAssumption, KeysAreOrdered, ChangesBound,
     NullptrIsNoIterator DEF ClientInv
<1> QED
  BY <1>2, <1>3, ObjectStep, SameScanner DEF ClientInv

-----------------------------------------------------------------------------
(***************************************************************************)
(* What the scan has brought.  Behind a scan that returned true a row is   *)
(* missing only if the node removed the file of a row up to it.            *)
(***************************************************************************)
Complete ==
  \A k \in DOMAIN rows[S.column] :
    \/ k \in DOMAIN data
    \/ \E j \in DOMAIN rows[S.column] : j <= k /\ <<S.column, j>> \in unreadable

DataInv ==
  /\ \A k \in DOMAIN rows[S.column] : rows[S.column][k] \in RowValues(S.class)
  /\ DOMAIN data \subseteq DOMAIN rows[S.column]
  /\ \A k \in DOMAIN data : data[k] = rows[S.column][k]
  /\ pc \in {"open", "scan", "rows", "return", "ended"}
  /\ pc = "open" => /\ scanned = nullptr
                    /\ phase = "built" => (init_success_ <=> status = "OK")
  /\ pc = "scan" => /\ scanned = S.column
                    /\ init_success_
                    /\ it = nullptr /\ ~ret => S.column \notin Elements(names)
                    /\ it = nullptr /\ ret => Complete
  /\ pc = "rows" => Complete

(* The step that fetches the rows: without a handle there is no column.      *)
LEMMA CheckStatusData ==
  ASSUME ClientInv, DataInv, CheckStatus
  PROVE  DataInv'
<1> USE DEF ClientInv, DataInv
<1>1. S.column \in ColumnFamilies /\ S' = S
  BY ScannerFacts DEF CheckStatus, S
<1>2. CASE status # "OK" /\ Exit(-1) /\ UNCHANGED <<dbVars, client, changes>>
  BY <1>1, <1>2 DEF Exit, CheckStatus
<1>3. CASE status = "OK" /\ pc' = "scan" /\ DB!GetAllData(S.column) /\ UNCHANGED exit_code
  <2>1. init_success_ /\ DOMAIN column_family_handles_ = Elements(names)
    BY <1>3 DEF CheckStatus, P!UsableMeansOpen, P!Elements, Elements
  <2>2. /\ scanned' = S.column
        /\ UNCHANGED <<dbVars, data>>
        /\ it = nullptr
    BY <1>3 DEF DB!GetAllData, DB!MayCall
  <2>3. CASE DB!HasHandle(S.column)
    <3>1. it' = DOMAIN rows[S.column]
      BY <1>3, <2>3 DEF DB!GetAllData
    <3>2. it' # nullptr
      BY <1>1, <3>1, NullptrIsNoIterator DEF P!ScanInv
    <3> QED BY <1>1, <1>3, <2>1, <2>2, <3>2
  <2>4. CASE ~DB!HasHandle(S.column)
    <3>1. ret' = FALSE
      BY <1>3, <2>4 DEF DB!GetAllData
    <3>2. S.column \notin Elements(names)
      BY <2>1, <2>4 DEF DB!HasHandle
    <3>3. S.column' \notin Elements(names)'
      BY <1>1, <2>2, <3>2 DEF Elements
    <3> QED BY <1>1, <1>3, <2>1, <2>2, <3>1, <3>3
  <2> QED BY <2>3, <2>4
<1> QED
  BY <1>2, <1>3 DEF CheckStatus

(* A turn of the scan: it ends behind the last row, or at an unreadable one  *)
(* that no row it still has ahead comes before.                              *)
LEMMA IterateData ==
  ASSUME ClientInv, DataInv, Iterate
  PROVE  DataInv'
<1> USE DEF ClientInv, DataInv
<1>1. S.column \in ColumnFamilies /\ S' = S /\ pc = "scan" /\ pc' = "scan"
  BY ScannerFacts DEF Iterate, S
<1>2. /\ scanned = S.column /\ init_success_
      /\ UNCHANGED <<dbVars, scanned>>
      /\ it # nullptr
  BY <1>1 DEF Iterate, DB!IteratorNext, DB!IteratorEnd
<1>3. /\ it \subseteq DOMAIN rows[S.column] /\ it \subseteq Keys /\ it \subseteq Nat
      /\ DOMAIN rows[S.column] \ it \subseteq DOMAIN data
  BY <1>1, <1>2, KeysAreOrdered DEF P!ScanInv
<1>4. it # {} => DB!IteratorKey \in it /\ \A j \in it : DB!IteratorKey <= j
  <2> SUFFICES ASSUME it # {}
               PROVE  DB!IteratorKey \in it /\ \A j \in it : DB!IteratorKey <= j
    OBVIOUS
  <2>1. \E k \in it : \A j \in it : k <= j
    BY <1>3, P!LeastNat, NullptrAssumption, KeysAreOrdered, ChangesBound, NullptrIsNoIterator
  <2> QED BY <2>1 DEF DB!IteratorKey
<1>5. CASE DB!IteratorNext
  <2> DEFINE key == DB!IteratorKey
  <2>1. key \in DOMAIN rows[S.column]
    BY <1>3, <1>4, <1>5 DEF DB!IteratorNext, DB!IteratorValid
  <2>2. /\ data' = [k \in DOMAIN data \cup {key} |->
                      IF k \in DOMAIN data THEN data[k] ELSE rows[scanned][k]]
        /\ it' = it \ {key}
    BY <1>5 DEF DB!IteratorNext
  <2> HIDE DEF key
  <2>3. it' # nullptr
    BY <1>3, <2>2, NullptrIsNoIterator
  <2>4. /\ DOMAIN data' \subseteq DOMAIN rows[S.column]
        /\ \A k \in DOMAIN data' : data'[k] = rows[S.column][k]
    BY <1>2, <2>1, <2>2
  <2> QED BY <1>1, <1>2, <2>3, <2>4
<1>6. CASE DB!IteratorEnd
  <2>1. ret' = TRUE /\ UNCHANGED data
    BY <1>6 DEF DB!IteratorEnd
  <2>2. Complete
    <3>1. CASE it = {}
      BY <1>3, <3>1 DEF Complete
    <3>2. CASE it # {}
      <4>1. <<S.column, DB!IteratorKey>> \in unreadable
        BY <1>2, <1>6, <3>2 DEF DB!IteratorEnd, DB!IteratorValid
      <4> QED BY <1>3, <1>4, <3>2, <4>1 DEF Complete
    <3> QED BY <3>1, <3>2
  <2>3. Complete'
    BY <1>1, <1>2, <2>1, <2>2 DEF Complete
  <2> QED BY <1>1, <1>2, <2>1, <2>3
<1> QED
  BY <1>5, <1>6 DEF Iterate

LEMMA DataStep == ClientInv /\ DataInv /\ [Next]_vars => DataInv'
<1> SUFFICES ASSUME ClientInv, DataInv, [Next]_vars PROVE DataInv'
  OBVIOUS
<1> USE DEF DataInv
<1>1. S' = S /\ UNCHANGED rows
  BY SameScanner DEF S
<1>2. CASE Open
  <2>1. UNCHANGED <<scan, client>> /\ pc = "open"
    BY <1>2, ConstructIs DEF Open
  <2>2. phase' = "built" => (init_success_' <=> status' = "OK")
    <3>1. CASE ListColumnFamilies
      BY <3>1 DEF ListColumnFamilies
    <3>2. CASE OpenForReadOnly
      <4>1. ~init_success_
        BY <3>2 DEF ClientInv, P!UsableMeansOpen, OpenForReadOnly
      <4> QED BY <3>2, <4>1 DEF OpenForReadOnly
    <3> QED BY <1>2, <3>1, <3>2, ConstructIs DEF Open
  <2> QED BY <1>1, <2>1, <2>2
<1>3. CASE CheckStatus
  BY <1>3, CheckStatusData
<1>4. CASE Iterate
  BY <1>4, IterateData
<1>5. CASE Return
  BY <1>1, <1>5, DeleteClient DEF Return
<1>6. CASE NodeStep
  <2>1. /\ UNCHANGED <<scan, client, object, status>>
        /\ unreadable \subseteq unreadable'
    BY <1>6, NodeClient DEF NodeStep, P!NodeStep, P!NodeCreates, P!NodeDrops,
                            P!NodeRemovesFile
  <2>2. Complete => Complete'
    BY <1>1, <2>1 DEF Complete
  <2>3. UNCHANGED names /\ Elements(names)' = Elements(names)
    BY <2>1 DEF Elements
  <2> QED BY <1>1, <2>1, <2>2, <2>3
<1>7. CASE UNCHANGED <<dbVars, client>> /\ (UNCHANGED pc \/ pc' = "return")
  <2>1. Complete => Complete'
    BY <1>1, <1>7 DEF Complete
  <2>2. Elements(names)' = Elements(names)
    BY <1>7 DEF Elements
  <2> QED BY <1>1, <1>7, <2>1, <2>2
<1>8. CASE CheckResult
  <2>1. Complete => Complete'
    BY <1>1, <1>8 DEF Complete, CheckResult
  <2> QED BY <1>1, <1>8, <2>1 DEF CheckResult, Exit
<1>9. CASE Finish \/ Ended \/ UNCHANGED vars
  BY <1>7, <1>9 DEF Finish, Exit, Ended, vars
<1>10. ASSUME NEW k \in left, Skip(k) \/ ShowRow(k)
       PROVE  UNCHANGED <<dbVars, client>> /\ (UNCHANGED pc \/ pc' = "return")
  BY <1>10 DEF Skip, ShowRow, Exit
<1> QED
  BY <1>2, <1>3, <1>4, <1>5, <1>6, <1>7, <1>8, <1>9, <1>10 DEF Next, Step

-----------------------------------------------------------------------------
(***************************************************************************)
(* What the loop has printed.  The object shows what it has accepted last, *)
(* and by ParserOverwrites that does not matter to the next row.           *)
(***************************************************************************)
Alone(v) == ParseFromByte(S.class, NoDocument, v)
Accepts(v) == Alone(v).verdict = "accepted"

Line == {KeyLine(k) : k \in Keys} \cup {DocumentLine(Alone(v).json) : v \in RowValues(S.class)}

IsDocument(n) == output[n].line = "document"
KeyOf(n) == output[n - 1].key

OutputInv ==
  /\ exit_code \in {nullptr, 0, -1, -2, -3}
  /\ pc \in {"return", "ended"} <=> exit_code # nullptr
  /\ pc \in {"open", "scan"} => left = {} /\ json = NoDocument /\ output = << >>
  /\ pc = "rows" => /\ Len(output) % 2 = 0
                    /\ \/ json = NoDocument
                       \/ \E v \in RowValues(S.class) : Accepts(v) /\ json = Alone(v).json
  /\ left \subseteq DOMAIN data
  /\ output \in Seq(Line)
  /\ \A n \in DOMAIN output : output[n].line = IF n % 2 = 1 THEN "key" ELSE "document"
  /\ \A n \in DOMAIN output : IsDocument(n) =>
       /\ KeyOf(n) \in DOMAIN data \ left
       /\ Accepts(data[KeyOf(n)])
       /\ output[n].document = Alone(data[KeyOf(n)]).json
  /\ \A m, n \in DOMAIN output : IsDocument(m) /\ IsDocument(n) /\ KeyOf(m) = KeyOf(n) => m = n

LEMMA LineFacts ==
  ASSUME NEW k, NEW doc
  PROVE  /\ KeyLine(k).line = "key" /\ KeyLine(k).key = k
         /\ DocumentLine(doc).line = "document" /\ DocumentLine(doc).document = doc
  BY DEF KeyLine, DocumentLine

(* Two lines more.                                                           *)
LEMMA TwoMore ==
  ASSUME NEW T, NEW s \in Seq(T), NEW a \in T, NEW b \in T
  PROVE  /\ s \o <<a, b>> \in Seq(T)
         /\ Len(s \o <<a, b>>) = Len(s) + 2
         /\ DOMAIN (s \o <<a, b>>) = 1..(Len(s) + 2)
         /\ \A n \in 1..Len(s) : (s \o <<a, b>>)[n] = s[n]
         /\ (s \o <<a, b>>)[Len(s) + 1] = a
         /\ (s \o <<a, b>>)[Len(s) + 2] = b
<1>1. <<a, b>> \in Seq(T) /\ Len(<<a, b>>) = 2 /\ <<a, b>>[1] = a /\ <<a, b>>[2] = b
  OBVIOUS
<1> DEFINE t == <<a, b>>
<1>2. t \in Seq(T) /\ Len(t) = 2 /\ t[1] = a /\ t[2] = b /\ Len(s) \in Nat
  BY <1>1
<1> HIDE DEF t
<1>3. /\ s \o t \in Seq(T)
      /\ Len(s \o t) = Len(s) + Len(t)
      /\ \A n \in 1..Len(s) + Len(t) :
           (s \o t)[n] = IF n <= Len(s) THEN s[n] ELSE t[n - Len(s)]
  BY <1>2, ConcatProperties
<1>4. DOMAIN (s \o t) = 1..(Len(s) + 2)
  BY <1>2, <1>3
<1>5. \A n \in 1..Len(s) : (s \o t)[n] = s[n]
  BY <1>2, <1>3
<1>6. (s \o t)[Len(s) + 1] = a /\ (s \o t)[Len(s) + 2] = b
  BY <1>2, <1>3
<1> QED
  BY <1>2, <1>3, <1>4, <1>5, <1>6 DEF t

(* One line more.                                                            *)
LEMMA OneMore ==
  ASSUME NEW T, NEW s \in Seq(T), NEW a \in T
  PROVE  /\ Append(s, a) \in Seq(T)
         /\ Len(Append(s, a)) = Len(s) + 1
         /\ DOMAIN Append(s, a) = 1..(Len(s) + 1)
         /\ \A n \in 1..Len(s) : Append(s, a)[n] = s[n]
         /\ Append(s, a)[Len(s) + 1] = a
  OBVIOUS

(* What a used object makes of a row is what a new one would.                *)
LEMMA UsedAsNew ==
  ASSUME scanner \in Started, NEW v \in RowValues(S.class),
         \/ json = NoDocument
         \/ \E u \in RowValues(S.class) : Accepts(u) /\ json = Alone(u).json
  PROVE  /\ ParseFromByte(S.class, json, v).verdict = Alone(v).verdict
         /\ Accepts(v) => ParseFromByte(S.class, json, v).json = Alone(v).json
<1>1. CASE json = NoDocument
  BY <1>1 DEF Alone
<1>2. ASSUME NEW u \in RowValues(S.class), Accepts(u), json = Alone(u).json
      PROVE  /\ ParseFromByte(S.class, json, v).verdict = Alone(v).verdict
             /\ Accepts(v) => ParseFromByte(S.class, json, v).json = Alone(v).json
  BY <1>2, ParserOverwrites DEF Alone, Accepts, S
<1> QED
  BY <1>1, <1>2

(* A document stands below a line.                                           *)
LEMMA BelowAKey ==
  ASSUME OutputInv, NEW n \in DOMAIN output, IsDocument(n)
  PROVE  n - 1 \in DOMAIN output
<1>1. n \in Nat /\ 1 <= n /\ n <= Len(output) /\ DOMAIN output = 1..Len(output)
  BY DEF OutputInv
<1>2. n # 1
  BY DEF OutputInv, IsDocument
<1> QED
  BY <1>1, <1>2

(* A row that the parser accepts: two lines more.                            *)
LEMMA AcceptedOutput ==
  ASSUME ClientInv, DataInv, OutputInv, NEW k \in left, ShowRow(k),
         pc' = "rows"
  PROVE  OutputInv'
<1> DEFINE doc == Alone(data[k]).json
<1>1. /\ S' = S /\ UNCHANGED <<exit_code, data, scanner>> /\ pc = "rows"
      /\ left' = left \ {k} /\ k \in left
  BY DEF ShowRow, S, Exit
<1>2. k \in DOMAIN data /\ data[k] \in RowValues(S.class) /\ k \in Keys
  BY <1>1, ScannerFacts DEF ClientInv, DataInv, OutputInv, P!ScanInv
<1>3. /\ ParseFromByte(S.class, json, data[k]).verdict = Alone(data[k]).verdict
      /\ Accepts(data[k]) => ParseFromByte(S.class, json, data[k]).json = Alone(data[k]).json
  BY <1>1, <1>2, UsedAsNew DEF ClientInv, OutputInv
<1>4. /\ ParseFromByte(S.class, json, data[k]).verdict = "accepted"
      /\ json' = ParseFromByte(S.class, json, data[k]).json
      /\ output' = output \o <<KeyLine(k), DocumentLine(json')>>
  BY <1>1 DEF ShowRow, Exit
<1>5. Accepts(data[k]) /\ json' = doc /\ output' = output \o <<KeyLine(k), DocumentLine(doc)>>
  BY <1>3, <1>4 DEF Accepts
<1>6. output \in Seq(Line) /\ KeyLine(k) \in Line /\ DocumentLine(doc) \in Line
  BY <1>2 DEF OutputInv, Line
<1>6a. PICK len \in Nat : len = Len(output)
  BY <1>6
<1>7. DOMAIN output = 1..len /\ len % 2 = 0
  BY <1>6a, <1>1, <1>6 DEF OutputInv
<1> HIDE DEF doc
<1>8. /\ output' \in Seq(Line)
      /\ Len(output') = len + 2
      /\ DOMAIN output' = 1..(len + 2)
      /\ \A n \in 1..len : output'[n] = output[n]
      /\ output'[len + 1] = KeyLine(k)
      /\ output'[len + 2] = DocumentLine(doc)
  BY <1>6a, <1>5, <1>6, TwoMore
<1>9. \A n \in DOMAIN output' : n \in 1..len \/ n = len + 1 \/ n = len + 2
  BY <1>7, <1>8
<1>10. (len + 1) % 2 = 1 /\ (len + 2) % 2 = 0
  BY <1>7
<1>11. \A n \in DOMAIN output' :
         output'[n].line = IF n % 2 = 1 THEN "key" ELSE "document"
  <2>1. \A n \in 1..len : output'[n].line = IF n % 2 = 1 THEN "key" ELSE "document"
    BY <1>7, <1>8 DEF OutputInv
  <2>2. output'[len + 1].line = "key" /\ output'[len + 2].line = "document"
    BY <1>8, LineFacts
  <2> QED BY <1>9, <1>10, <2>1, <2>2
<1>12. ~IsDocument(len + 1)' /\ IsDocument(len + 2)' /\ KeyOf(len + 2)' = k
  BY <1>7, <1>8, LineFacts DEF IsDocument, KeyOf
<1>13. ASSUME NEW n \in 1..len, IsDocument(n)'
       PROVE  IsDocument(n) /\ KeyOf(n)' = KeyOf(n) /\ output'[n] = output[n]
  <2>1. IsDocument(n) /\ output'[n] = output[n]
    BY <1>8, <1>13 DEF IsDocument
  <2>2. n - 1 \in 1..len
    BY <1>7, <2>1, BelowAKey
  <2> QED BY <1>8, <2>1, <2>2 DEF KeyOf
<1>14. ASSUME NEW n \in DOMAIN output', IsDocument(n)'
       PROVE  /\ KeyOf(n)' \in DOMAIN data \ (left \ {k})
              /\ Accepts(data[KeyOf(n)'])
              /\ output'[n].document = Alone(data[KeyOf(n)']).json
  <2>1. CASE n \in 1..len
    BY <1>7, <1>13, <1>14, <2>1 DEF OutputInv
  <2>2. CASE n = len + 2
    BY <1>2, <1>5, <1>8, <1>12, <2>2, LineFacts DEF doc
  <2>3. n # len + 1
    BY <1>12, <1>14
  <2> QED BY <1>9, <2>1, <2>2, <2>3
<1>15. ASSUME NEW m \in DOMAIN output', NEW n \in DOMAIN output',
              IsDocument(m)', IsDocument(n)', KeyOf(m)' = KeyOf(n)'
       PROVE  m = n
  <2>1. \A j \in 1..len : IsDocument(j)' => KeyOf(j)' # k
    BY <1>1, <1>7, <1>13 DEF OutputInv
  <2>2. CASE m \in 1..len /\ n \in 1..len
    BY <1>7, <1>13, <1>15, <2>2 DEF OutputInv
  <2>3. m # len + 1 /\ n # len + 1
    BY <1>12, <1>15
  <2> QED BY <1>9, <1>12, <1>15, <2>1, <2>2, <2>3
<1>16. Line' = Line /\ \A v : Alone(v)' = Alone(v) /\ Accepts(v)' = Accepts(v)
  BY <1>1 DEF Line, Alone, Accepts
<1>17. /\ exit_code' \in {nullptr, 0, -1, -2, -3} /\ exit_code' = nullptr
       /\ left' \subseteq DOMAIN data'
  BY <1>1 DEF OutputInv
<1>18. Len(output') % 2 = 0 /\ \E v \in RowValues(S.class) : Accepts(v) /\ json' = Alone(v).json
  BY <1>2, <1>5, <1>8, <1>10 DEF doc
<1>19. \A n \in DOMAIN output' : IsDocument(n)' =>
         /\ KeyOf(n)' \in DOMAIN data' \ left'
         /\ Accepts(data[KeyOf(n)])'
         /\ output'[n].document = Alone(data[KeyOf(n)])'.json
  BY <1>1, <1>14 DEF Alone, Accepts
<1> QED
  BY <1>1, <1>8, <1>11, <1>15, <1>16, <1>17, <1>18, <1>19 DEF OutputInv

(* A row that the parser rejects: no document, though perhaps its key.       *)
LEMMA RejectedOutput ==
  ASSUME ClientInv, DataInv, OutputInv, NEW k \in left, ShowRow(k),
         pc' = "return"
  PROVE  OutputInv'
<1>1. /\ S' = S /\ UNCHANGED <<left, data, scanner>> /\ pc = "rows"
      /\ exit_code' = S.rejected
      /\ output' = IF S.skips THEN output ELSE Append(output, KeyLine(k))
  BY DEF ShowRow, S, Exit
<1>2. S.rejected \in {-2, -3} /\ S.rejected # nullptr
  BY ScannerFacts, NullptrIsNoExitCode DEF ClientInv
<1>3. k \in Keys
  BY ScannerFacts DEF ClientInv, DataInv, OutputInv, P!ScanInv
<1>4. output \in Seq(Line) /\ KeyLine(k) \in Line
  BY <1>3 DEF OutputInv, Line
<1>5. PICK len \in Nat : len = Len(output)
  BY <1>4
<1>6. DOMAIN output = 1..len /\ len % 2 = 0 /\ (len + 1) % 2 = 1
  BY <1>1, <1>4, <1>5 DEF OutputInv
<1>7. /\ output' \in Seq(Line)
      /\ \A n \in DOMAIN output' : n \in 1..len \/ n = len + 1
      /\ \A n \in 1..len : output'[n] = output[n]
      /\ len + 1 \in DOMAIN output' => output'[len + 1] = KeyLine(k)
  <2>1. CASE output' = output
    BY <1>4, <1>6, <2>1
  <2>2. CASE output' = Append(output, KeyLine(k))
    BY <1>4, <1>5, <2>2, OneMore
  <2> QED BY <1>1, <2>1, <2>2
<1>8. \A n \in DOMAIN output' :
        output'[n].line = IF n % 2 = 1 THEN "key" ELSE "document"
  <2>1. \A n \in 1..len : output'[n].line = IF n % 2 = 1 THEN "key" ELSE "document"
    BY <1>6, <1>7 DEF OutputInv
  <2> QED BY <1>6, <1>7, <2>1, LineFacts
<1>9. ASSUME NEW n \in DOMAIN output', IsDocument(n)'
      PROVE  /\ n \in 1..len /\ IsDocument(n)
             /\ KeyOf(n)' = KeyOf(n) /\ output'[n] = output[n]
  <2>1. n \in 1..len /\ IsDocument(n) /\ output'[n] = output[n]
    BY <1>7, <1>9, LineFacts DEF IsDocument
  <2>2. n - 1 \in 1..len
    BY <1>6, <2>1, BelowAKey
  <2> QED BY <1>7, <2>1, <2>2 DEF KeyOf
<1>10. \A n \in DOMAIN output' : IsDocument(n)' =>
         /\ KeyOf(n)' \in DOMAIN data' \ left'
         /\ Accepts(data[KeyOf(n)])'
         /\ output'[n].document = Alone(data[KeyOf(n)])'.json
  BY <1>1, <1>6, <1>9 DEF OutputInv, Alone, Accepts
<1>11. \A m, n \in DOMAIN output' :
         IsDocument(m)' /\ IsDocument(n)' /\ KeyOf(m)' = KeyOf(n)' => m = n
  BY <1>6, <1>9 DEF OutputInv
<1>12. Line' = Line
  BY <1>1 DEF Line, Alone
<1>13. left' \subseteq DOMAIN data'
  BY <1>1 DEF OutputInv
<1> QED
  BY <1>1, <1>2, <1>7, <1>8, <1>10, <1>11, <1>12, <1>13 DEF OutputInv

(* Where nothing is printed, what there is says what it said.                *)
LEMMA SameOutput ==
  ASSUME OutputInv, S' = S, UNCHANGED <<data, output>>, left' \subseteq left
  PROVE  /\ output' \in Seq(Line')
         /\ left' \subseteq DOMAIN data'
         /\ \A n \in DOMAIN output' :
              output'[n].line = IF n % 2 = 1 THEN "key" ELSE "document"
         /\ \A n \in DOMAIN output' : IsDocument(n)' =>
              /\ KeyOf(n)' \in DOMAIN data' \ left'
              /\ Accepts(data[KeyOf(n)])'
              /\ output'[n].document = Alone(data[KeyOf(n)])'.json
         /\ \A m, n \in DOMAIN output' :
              IsDocument(m)' /\ IsDocument(n)' /\ KeyOf(m)' = KeyOf(n)' => m = n
<1>1. Line' = Line
  BY DEF Line, Alone
<1>2. \A n : IsDocument(n)' = IsDocument(n) /\ KeyOf(n)' = KeyOf(n)
  BY DEF IsDocument, KeyOf
<1>3. \A v : Alone(v)' = Alone(v) /\ Accepts(v)' = Accepts(v)
  BY DEF Alone, Accepts
<1>4. \A n \in DOMAIN output' : IsDocument(n)' =>
              /\ KeyOf(n)' \in DOMAIN data' \ left'
              /\ Accepts(data[KeyOf(n)])'
              /\ output'[n].document = Alone(data[KeyOf(n)])'.json
  BY <1>2 DEF OutputInv, Alone, Accepts
<1> QED
  BY <1>1, <1>2, <1>4 DEF OutputInv

(* While the rows are fetched nothing has been printed yet.                  *)
LEMMA NoOutput ==
  ASSUME output' = << >>, left' \subseteq DOMAIN data',
         exit_code' \in {nullptr, 0, -1, -2, -3},
         pc' \in {"return", "ended"} <=> exit_code' # nullptr,
         pc' \in {"open", "scan"} => left' = {},
         json' = NoDocument
  PROVE  OutputInv'
<1>1. output' \in Seq(Line') /\ DOMAIN output' = {} /\ Len(output') % 2 = 0
  OBVIOUS
<1> QED
  BY <1>1 DEF OutputInv

LEMMA OutputStep == ClientInv /\ DataInv /\ OutputInv /\ [Next]_vars => OutputInv'
<1> SUFFICES ASSUME ClientInv, DataInv, OutputInv, [Next]_vars PROVE OutputInv'
  OBVIOUS
<1>1. S' = S
  BY SameScanner DEF S
<1>2. CASE Open \/ CheckStatus \/ Iterate \/ CheckResult
  <2>1. pc \in {"open", "scan"} /\ output' = output /\ json' = json
    BY <1>2 DEF Open, CheckStatus, Iterate, CheckResult
  <2>2. /\ output' = << >> /\ json' = NoDocument /\ left = {} /\ exit_code = nullptr
    BY <2>1 DEF OutputInv
  <2>3. CASE Open \/ Iterate
    BY <2>1, <2>2, <2>3, NoOutput DEF Open, Iterate
  <2>4. CASE CheckStatus
    BY <2>2, <2>4, NoOutput, NullptrIsNoExitCode DEF CheckStatus, Exit
  <2>5. CASE CheckResult
    BY <2>2, <2>5, NoOutput, NullptrIsNoExitCode DEF CheckResult, Exit
  <2> QED BY <1>2, <2>3, <2>4, <2>5
<1>3. ASSUME NEW k \in left, Skip(k)
      PROVE  OutputInv'
  <2>1. /\ UNCHANGED <<data, output, json, pc, exit_code>> /\ left' \subseteq left
        /\ pc = "rows"
    BY <1>3 DEF Skip
  <2>2. \A v : Alone(v)' = Alone(v) /\ Accepts(v)' = Accepts(v)
    BY <1>1 DEF Alone, Accepts
  <2> QED BY <1>1, <2>1, <2>2, SameOutput DEF OutputInv
<1>4. ASSUME NEW k \in left, ShowRow(k)
      PROVE  OutputInv'
  <2>1. pc' = "rows" \/ pc' = "return"
    BY <1>4 DEF ShowRow, Exit
  <2> QED BY <1>4, <2>1, AcceptedOutput, RejectedOutput
<1>5. CASE Finish
  <2>1. UNCHANGED <<data, output, left>> /\ pc' = "return" /\ exit_code' = 0
    BY <1>5 DEF Finish, Exit
  <2> QED BY <1>1, <2>1, SameOutput, NullptrIsNoExitCode DEF OutputInv
<1>6. CASE Return
  <2>1. /\ UNCHANGED <<data, output, left, exit_code>>
        /\ pc = "return" /\ pc' = "ended"
    BY <1>6, DeleteClient DEF Return
  <2> QED BY <1>1, <2>1, SameOutput DEF OutputInv
<1>7. CASE NodeStep \/ Ended \/ UNCHANGED vars
  <2>1. UNCHANGED <<data, output, left, exit_code, pc, json>>
    BY <1>7, NodeClient DEF NodeStep, P!NodeStep, Ended, vars
  <2>2. \A v : Alone(v)' = Alone(v) /\ Accepts(v)' = Accepts(v)
    BY <1>1 DEF Alone, Accepts
  <2> QED BY <1>1, <2>1, <2>2, SameOutput DEF OutputInv
<1> QED
  BY <1>2, <1>3, <1>4, <1>5, <1>6, <1>7 DEF Next, Step

-----------------------------------------------------------------------------
(***************************************************************************)
(* A row the loop has left behind is printed or was empty.                 *)
(***************************************************************************)
Printed(k) == \E n \in DOMAIN output : IsDocument(n) /\ KeyOf(n) = k

PrintedInv ==
  /\ pc = "rows" \/ exit_code = 0 =>
       /\ Complete
       /\ \A k \in DOMAIN data \ left : Printed(k) \/ (S.skips /\ data[k] = Empty)
  /\ exit_code = 0 => left = {}

LEMMA PrintedStep ==
  ClientInv /\ DataInv /\ OutputInv /\ PrintedInv /\ [Next]_vars => PrintedInv'
<1> SUFFICES ASSUME ClientInv, DataInv, OutputInv, PrintedInv, [Next]_vars
             PROVE  PrintedInv'
  OBVIOUS
<1>1. S' = S /\ UNCHANGED rows
  BY SameScanner DEF S
<1>2. ASSUME UNCHANGED <<data, output, unreadable>>
      PROVE  /\ Complete => Complete'
             /\ \A k : Printed(k) => Printed(k)'
  BY <1>1, <1>2 DEF Complete, Printed, IsDocument, KeyOf
<1>3. CASE Open \/ CheckStatus \/ Iterate
  <2>1. pc' # "rows" /\ exit_code' # 0
    BY <1>3, NullptrIsNoExitCode DEF Open, CheckStatus, Iterate, Exit, OutputInv
  <2> QED BY <2>1 DEF PrintedInv
<1>4. CASE CheckResult
  <2>1. UNCHANGED <<data, output, unreadable>>
    BY <1>4 DEF CheckResult
  <2>2. CASE ~ret /\ Exit(-2) /\ UNCHANGED left
    <3>1. pc' # "rows" /\ exit_code' # 0
      BY <2>2 DEF Exit
    <3> QED BY <3>1 DEF PrintedInv
  <2>3. CASE ret /\ pc' = "rows" /\ left' = DOMAIN data /\ UNCHANGED exit_code
    <3>1. Complete' /\ exit_code' # 0
      BY <1>2, <1>4, <2>1, <2>3, NullptrIsNoExitCode DEF CheckResult, DataInv, OutputInv
    <3> QED BY <2>1, <2>3, <3>1 DEF PrintedInv
  <2> QED BY <1>4, <2>2, <2>3 DEF CheckResult
<1>5. ASSUME NEW k \in left, Skip(k)
      PROVE  PrintedInv'
  <2>1. /\ UNCHANGED <<data, output, unreadable, exit_code>> /\ left' = left \ {k}
        /\ S.skips /\ data[k] = Empty /\ pc = "rows"
    BY <1>5 DEF Skip
  <2>2. exit_code' # 0
    BY <2>1, NullptrIsNoExitCode DEF OutputInv
  <2> QED BY <1>1, <1>2, <2>1, <2>2 DEF PrintedInv
<1>6. ASSUME NEW k \in left, ShowRow(k)
      PROVE  PrintedInv'
  <2>1. pc = "rows" /\ UNCHANGED <<data, unreadable>>
    BY <1>6 DEF ShowRow
  <2>2. CASE Exit(S.rejected)
    <3>1. pc' = "return" /\ exit_code' # 0
      BY <2>2, ScannerFacts DEF Exit, ClientInv
    <3> QED BY <3>1 DEF PrintedInv
  <2>3. CASE /\ output' = output \o <<KeyLine(k), DocumentLine(json')>>
             /\ left' = left \ {k}
             /\ UNCHANGED <<pc, exit_code>>
    <3>1. PICK len \in Nat : len = Len(output) /\ DOMAIN output = 1..len
      BY DEF OutputInv
    <3> DEFINE T == Line \cup {KeyLine(k), DocumentLine(json')}
    <3>2. output \in Seq(T) /\ KeyLine(k) \in T /\ DocumentLine(json') \in T
      BY DEF OutputInv
    <3> HIDE DEF T
    <3>3. /\ DOMAIN output' = 1..(len + 2)
          /\ \A n \in 1..len : output'[n] = output[n]
          /\ output'[len + 1] = KeyLine(k)
          /\ output'[len + 2] = DocumentLine(json')
      BY <2>3, <3>1, <3>2, TwoMore
    <3>4. Printed(k)'
      <4>1. IsDocument(len + 2)' /\ KeyOf(len + 2)' = k
        BY <3>3, LineFacts DEF IsDocument, KeyOf
      <4> QED BY <3>3, <4>1 DEF Printed
    <3>5. ASSUME NEW j, Printed(j)
          PROVE  Printed(j)'
      <4>1. PICK n \in DOMAIN output : IsDocument(n) /\ KeyOf(n) = j
        BY <3>5 DEF Printed
      <4>2. n - 1 \in DOMAIN output
        BY <4>1, BelowAKey
      <4>3. n \in DOMAIN output' /\ IsDocument(n)' /\ KeyOf(n)' = j
        BY <3>1, <3>3, <4>1, <4>2 DEF IsDocument, KeyOf
      <4> QED BY <4>3 DEF Printed
    <3>6. Complete' /\ exit_code' # 0
      BY <1>1, <2>1, <2>3, NullptrIsNoExitCode DEF Complete, PrintedInv, OutputInv
    <3> QED BY <1>1, <2>1, <2>3, <3>4, <3>5, <3>6 DEF PrintedInv
  <2> QED BY <1>6, <2>2, <2>3 DEF ShowRow
<1>7. CASE Finish
  <2>1. /\ UNCHANGED <<data, output, unreadable, left>> /\ left = {} /\ pc = "rows"
    BY <1>7 DEF Finish
  <2> QED BY <1>1, <1>2, <2>1 DEF PrintedInv
<1>8. CASE Return
  <2>1. /\ UNCHANGED <<data, output, unreadable, left, exit_code>> /\ pc' = "ended"
    BY <1>8, DeleteClient DEF Return, Destroy
  <2> QED BY <1>1, <1>2, <2>1 DEF PrintedInv
<1>9. CASE NodeStep
  <2>1. /\ UNCHANGED <<data, output, left, exit_code, pc>>
        /\ unreadable \subseteq unreadable'
    BY <1>9, NodeClient DEF NodeStep, P!NodeStep, P!NodeCreates, P!NodeDrops,
                            P!NodeRemovesFile
  <2>2. Complete => Complete'
    BY <1>1, <2>1 DEF Complete
  <2>3. \A k : Printed(k) => Printed(k)'
    BY <2>1 DEF Printed, IsDocument, KeyOf
  <2> QED BY <1>1, <2>1, <2>2, <2>3 DEF PrintedInv
<1>10. CASE Ended \/ UNCHANGED vars
  BY <1>1, <1>2, <1>10 DEF Ended, vars, PrintedInv
<1> QED
  BY <1>3, <1>4, <1>5, <1>6, <1>7, <1>8, <1>9, <1>10 DEF Next, Step

-----------------------------------------------------------------------------
(***************************************************************************)
(* An exit code explains itself when it is set, and what it is explained   *)
(* by stays as it is until the program ends.                               *)
(***************************************************************************)
LEMMA Settled ==
  ASSUME OutputInv, [Next]_vars, exit_code # nullptr
  PROVE  /\ UNCHANGED <<scanner, data, left, names, status, output, exit_code>>
         /\ init_success_' => init_success_
<1>1. pc \in {"return", "ended"}
  BY DEF OutputInv
<1>2. CASE Return
  BY <1>2, DeleteClient DEF Return, Destroy
<1>3. CASE NodeStep
  <2>1. UNCHANGED <<scanner, data, left, names, status, output, exit_code, init_success_>>
    BY <1>3, NodeClient DEF NodeStep, P!NodeStep, P!NodeCreates, P!NodeDrops,
                            P!NodeRemovesFile
  <2> QED BY <2>1
<1>4. CASE Ended \/ UNCHANGED vars
  BY <1>4 DEF Ended, vars
<1>5. ~Open /\ ~CheckStatus /\ ~Iterate /\ ~CheckResult /\ ~Finish
  BY <1>1 DEF Open, CheckStatus, Iterate, CheckResult, Finish
<1>6. \A k \in left : ~Skip(k) /\ ~ShowRow(k)
  BY <1>1 DEF Skip, ShowRow
<1>7. Return \/ NodeStep \/ Ended \/ UNCHANGED vars
  BY <1>5, <1>6 DEF Next, Step
<1> QED
  BY <1>2, <1>3, <1>4, <1>7

ExplainInv ==
  /\ exit_code = -1 => ~init_success_ /\ status # "OK" /\ output = << >>
  /\ exit_code = -2 /\ S.rejected # -2 => S.column \notin Elements(names) /\ output = << >>
  /\ exit_code = -2 /\ S.rejected = -2 =>
       \/ \E k \in left : ~Accepts(data[k])
       \/ S.column \notin Elements(names)
  /\ exit_code = -3 => \E k \in left : ~Accepts(data[k])
  /\ Len(output) % 2 = 1 => ~S.skips /\ exit_code \in {nullptr, S.rejected}

LEMMA ExplainStep ==
  ClientInv /\ DataInv /\ OutputInv /\ OutputInv' /\ ExplainInv /\ [Next]_vars => ExplainInv'
<1> SUFFICES ASSUME ClientInv, DataInv, OutputInv, OutputInv', ExplainInv, [Next]_vars
             PROVE  ExplainInv'
  OBVIOUS
<1>1. S' = S
  BY SameScanner DEF S
<1>2. CASE exit_code # nullptr
  <2>1. /\ UNCHANGED <<scanner, data, left, names, status, output, exit_code>>
        /\ init_success_' => init_success_
    BY <1>2, Settled
  <2>2. \A v : Accepts(v)' = Accepts(v)
    BY <1>1 DEF Accepts, Alone
  <2>3. Elements(names)' = Elements(names)
    BY <2>1 DEF Elements
  <2> QED BY <1>1, <2>1, <2>2, <2>3 DEF ExplainInv
<1>3. ASSUME exit_code' = nullptr, Len(output') % 2 = 0
      PROVE  ExplainInv'
  BY <1>3, NullptrIsNoExitCode DEF ExplainInv
<1>4. Len(<< >>) % 2 = 0
  OBVIOUS
<1>5. CASE Open \/ Iterate
  <2>1. UNCHANGED scan /\ pc \in {"open", "scan"}
    BY <1>5 DEF Open, Iterate
  <2> QED BY <1>3, <1>4, <2>1 DEF OutputInv
<1>6. CASE CheckStatus
  <2>1. output' = << >>
    BY <1>6 DEF CheckStatus, OutputInv
  <2>2. CASE status # "OK" /\ Exit(-1) /\ UNCHANGED <<dbVars, client, changes>>
    BY <1>4, <1>6, <2>1, <2>2 DEF CheckStatus, Exit, ExplainInv, DataInv
  <2>3. CASE UNCHANGED exit_code
    <3>1. exit_code' = nullptr
      BY <1>6, <2>3 DEF CheckStatus, OutputInv
    <3> QED BY <1>3, <1>4, <2>1, <3>1
  <2> QED BY <1>6, <2>2, <2>3 DEF CheckStatus
<1>7. CASE CheckResult
  <2>1. output' = << >> /\ UNCHANGED names
    BY <1>7 DEF CheckResult, OutputInv
  <2>2. CASE ~ret /\ Exit(-2)
    <3>1. (S.column \notin Elements(names))'
      BY <1>1, <1>7, <2>1, <2>2 DEF CheckResult, DataInv, Elements
    <3> QED BY <1>4, <2>1, <2>2, <3>1 DEF Exit, ExplainInv
  <2>3. CASE UNCHANGED exit_code
    <3>1. exit_code' = nullptr
      BY <1>7, <2>3 DEF CheckResult, OutputInv
    <3> QED BY <1>3, <1>4, <2>1, <3>1
  <2> QED BY <1>7, <2>2, <2>3 DEF CheckResult
<1>8. ASSUME NEW k \in left, Skip(k)
      PROVE  ExplainInv'
  <2>1. UNCHANGED <<output, exit_code>> /\ pc = "rows"
    BY <1>8 DEF Skip
  <2> QED BY <1>3, <2>1 DEF OutputInv
<1>9. ASSUME NEW k \in left, ShowRow(k)
      PROVE  ExplainInv'
  <2>1. pc = "rows" /\ UNCHANGED <<data, names>>
    BY <1>9 DEF ShowRow
  <2>2. CASE UNCHANGED <<pc, exit_code>>
    <3>1. exit_code' = nullptr /\ Len(output') % 2 = 0
      BY <2>1, <2>2 DEF OutputInv
    <3> QED BY <1>3, <3>1
  <2>3. CASE /\ ParseFromByte(S.class, json, data[k]).verdict # "accepted"
             /\ output' = IF S.skips THEN output ELSE Append(output, KeyLine(k))
             /\ Exit(S.rejected)
             /\ UNCHANGED left
    <3>1. data[k] \in RowValues(S.class)
      BY DEF DataInv, OutputInv
    <3>2. ~Accepts(data[k])
      BY <2>1, <2>3, <3>1, UsedAsNew DEF ClientInv, OutputInv, Accepts
    <3>3. (\E j \in left : ~Accepts(data[j]))'
      BY <1>1, <2>1, <2>3, <3>2 DEF Accepts, Alone
    <3>4. S.rejected \in {-2, -3} /\ exit_code' = S.rejected
      BY <2>3, ScannerFacts DEF ClientInv, Exit
    <3>5. Len(output') % 2 = 1 => ~S.skips
      <4>1. S.skips => output' = output
        BY <2>3
      <4>2. Len(output) % 2 = 0
        BY <2>1 DEF OutputInv
      <4> QED BY <4>1, <4>2
    <3> QED BY <1>1, <3>3, <3>4, <3>5 DEF ExplainInv
  <2> QED BY <1>9, <2>2, <2>3 DEF ShowRow
<1>10. CASE Finish
  <2>1. exit_code' = 0 /\ output' = output /\ pc = "rows"
    BY <1>10 DEF Finish, Exit
  <2> QED BY <2>1 DEF ExplainInv, OutputInv
<1>11. CASE NodeStep \/ Ended \/ UNCHANGED vars
  <2>1. UNCHANGED <<scanner, data, left, names, status, output, exit_code, init_success_>>
    BY <1>11, NodeClient DEF NodeStep, P!NodeStep, P!NodeCreates, P!NodeDrops,
                             P!NodeRemovesFile, Ended, vars
  <2>2. \A v : Accepts(v)' = Accepts(v)
    BY <1>1 DEF Accepts, Alone
  <2>3. Elements(names)' = Elements(names)
    BY <2>1 DEF Elements
  <2> QED BY <1>1, <2>1, <2>2, <2>3 DEF ExplainInv
<1>12. CASE Return
  BY <1>2, <1>12 DEF Return, OutputInv
<1> QED
  BY <1>5, <1>6, <1>7, <1>8, <1>9, <1>10, <1>11, <1>12 DEF Next, Step

-----------------------------------------------------------------------------
LEMMA InitClient == Init => ClientInv
<1> SUFFICES ASSUME Init PROVE ClientInv
  OBVIOUS
<1>1. scanner \in Started /\ families \in Seq(ColumnFamilies)
  BY ScannerFacts DEF Init
<1>2. P!UsableMeansOpen
  BY DEF Init, ObjectInit, P!UsableMeansOpen
<1>3. ObjectTypeOK
  <2>1. P!ObjectInit
    BY DEF Init, ObjectInit, P!ObjectInit
  <2> QED BY <2>1, ObjectTypeIs, P!ObjectInitType, NullptrAssumption, KeysAreOrdered,
             ChangesBound, NullptrIsNoIterator
<1>4. P!ScanInv
  <2>1. PICK stored \in SUBSET Keys : \E content \in [stored -> RowValues(S.class)] :
          rows = [cf \in ColumnFamilies |-> IF cf = S.column THEN content ELSE << >>]
    BY DEF Init
  <2>2. PICK content \in [stored -> RowValues(S.class)] :
          rows = [cf \in ColumnFamilies |-> IF cf = S.column THEN content ELSE << >>]
    BY <2>1
  <2>3. DOMAIN << >> = {}
    OBVIOUS
  <2>4. \A cf \in ColumnFamilies : DOMAIN rows[cf] \subseteq Keys
    BY <2>2, <2>3
  <2>5. data = << >> /\ scanned = nullptr /\ it = nullptr
    BY DEF Init
  <2> QED BY <2>3, <2>4, <2>5 DEF P!ScanInv, P!ScanIsPrefix
<1> QED
  BY <1>1, <1>2, <1>3, <1>4 DEF ClientInv

LEMMA InitScan == Init => DataInv /\ OutputInv /\ PrintedInv /\ ExplainInv
<1> SUFFICES ASSUME Init PROVE DataInv /\ OutputInv /\ PrintedInv /\ ExplainInv
  OBVIOUS
<1>1. DOMAIN << >> = {} /\ Len(<< >>) % 2 = 0 /\ << >> \in Seq(Line)
  OBVIOUS
<1>2. /\ data = << >> /\ output = << >> /\ left = {} /\ json = NoDocument /\ pc = "open"
      /\ scanned = nullptr /\ exit_code = nullptr /\ phase = "raw"
  BY DEF Init, ObjectInit
<1>3. \A k \in DOMAIN rows[S.column] : rows[S.column][k] \in RowValues(S.class)
  <2>1. PICK stored \in SUBSET Keys : \E content \in [stored -> RowValues(S.class)] :
          rows = [cf \in ColumnFamilies |-> IF cf = S.column THEN content ELSE << >>]
    BY DEF Init
  <2>2. PICK content \in [stored -> RowValues(S.class)] :
          rows = [cf \in ColumnFamilies |-> IF cf = S.column THEN content ELSE << >>]
    BY <2>1
  <2>3. rows[S.column] = content
    BY <2>2, ScannerFacts DEF Init
  <2> QED BY <2>2, <2>3
<1>4. DataInv
  BY <1>1, <1>2, <1>3 DEF DataInv
<1>5. OutputInv
  BY <1>1, <1>2 DEF OutputInv
<1> QED
  BY <1>1, <1>2, <1>4, <1>5, NullptrIsNoExitCode DEF PrintedInv, ExplainInv

ScannersInv == ClientInv /\ DataInv /\ OutputInv /\ PrintedInv /\ ExplainInv

LEMMA ScannersInvAlways == Spec => []ScannersInv
<1>1. Init => ScannersInv
  BY InitClient, InitScan DEF ScannersInv
<1>2. ScannersInv /\ [Next]_vars => ScannersInv'
  BY ClientInvStep, DataStep, OutputStep, PrintedStep, ExplainStep DEF ScannersInv
<1> QED
  BY <1>1, <1>2, PTL DEF Spec

(* The lines alternate, a key first; below a key stands the document a new   *)
(* object would make of that row's value, though the one object has parsed   *)
(* other rows before and is never cleared; and no row is printed twice.      *)
THEOREM AlwaysOwnDocument == Spec => []OwnDocument
<1>1. ScannersInv => OwnDocument
  <2> SUFFICES ASSUME ScannersInv PROVE OwnDocument
    OBVIOUS
  <2> USE DEF ScannersInv
  <2>1. TypeOK
    BY DEF TypeOK, ClientInv, DataInv, OutputInv
  <2>2. ASSUME NEW n \in Documents
        PROVE  LET row == rows[S.column][output[n - 1].key]
               IN  /\ ParseFromByte(S.class, NoDocument, row).verdict = "accepted"
                   /\ output[n].document = ParseFromByte(S.class, NoDocument, row).json
    <3>1. n \in DOMAIN output /\ IsDocument(n)
      BY DEF Documents, IsDocument
    <3>2. KeyOf(n) \in DOMAIN data /\ data[KeyOf(n)] = rows[S.column][KeyOf(n)]
      BY <3>1 DEF OutputInv, DataInv
    <3>3. Accepts(data[KeyOf(n)]) /\ output[n].document = Alone(data[KeyOf(n)]).json
      BY <3>1 DEF OutputInv
    <3> QED BY <3>2, <3>3 DEF Accepts, Alone, KeyOf
  <2>3. \A m, n \in Documents : output[m - 1].key = output[n - 1].key => m = n
    BY DEF Documents, OutputInv, IsDocument, KeyOf
  <2> QED BY <2>1, <2>2, <2>3 DEF OwnDocument
<1> QED
  BY <1>1, ScannersInvAlways, PTL

(* Exit code 0 means that every row with a value is printed, unless the node *)
(* removed the file of that row or of one before it.                         *)
THEOREM ZeroAlwaysMeansComplete == Spec => []ZeroMeansComplete
<1>1. ScannersInv => ZeroMeansComplete
  <2> SUFFICES ASSUME ScannersInv, exit_code = 0, NEW k \in DOMAIN rows[S.column],
                      k \in DOMAIN data
               PROVE  \/ \E n \in Documents : output[n - 1].key = k
                      \/ S.skips /\ rows[S.column][k] = Empty
    BY DEF ZeroMeansComplete, ScannersInv, PrintedInv, Complete
  <2>1. Printed(k) \/ (S.skips /\ data[k] = Empty)
    BY DEF ScannersInv, PrintedInv
  <2> QED BY <2>1 DEF Printed, IsDocument, KeyOf, Documents, ScannersInv, DataInv
<1> QED
  BY <1>1, ScannersInvAlways, PTL

(* What an exit code says: -1 that the constructor failed, -2 that there is  *)
(* no such column, which main_epoch_ext also says of a row that its parser   *)
(* rejects, and -3 that there is such a row.                                 *)
THEOREM ExitCodeAlwaysExplains == Spec => []ExitCodeExplains
<1>1. ScannersInv => ExitCodeExplains
  BY DEF ScannersInv, ExplainInv, ExitCodeExplains, Accepts, Alone
<1> QED
  BY <1>1, ScannersInvAlways, PTL

(* Every step of a scanner is a step of RocksDBClient's most general client  *)
(* or leaves the database, its object and the out parameters alone.          *)
THEOREM ScannersAreClients == Spec => [][P!Next]_(P!vars)
<1>1. ScannersInv /\ [Next]_vars => [P!Next]_(P!vars)
  BY ClientStep DEF ScannersInv, ClientInv
<1> QED
  BY <1>1, ScannersInvAlways, PTL DEF Spec
=============================================================================
