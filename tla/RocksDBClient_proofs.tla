------------------------ MODULE RocksDBClient_proofs ------------------------
(***************************************************************************)
(* The invariants of RocksDBClient for every set of column families and    *)
(* keys and any number of changes by the node.                             *)
(***************************************************************************)
EXTENDS RocksDBClient, WellFoundedInduction, TLAPS

USE DEF object, external, dbVars, client

(* A non-empty set of numbers has a least element. *)
LEMMA LeastNat ==
  ASSUME NEW S, S \subseteq Nat, S # {}
  PROVE  \E k \in S : \A j \in S : k <= j
<1>1. \E k \in S : \A j \in S : ~(j < k)
  <2>1. \E k \in S : \A j \in S : ~(<<j, k>> \in OpToRel(<, Nat))
    BY NatLessThanWellFounded, WFMin
  <2>2. \A j, k \in S : j < k => <<j, k>> \in OpToRel(<, Nat)
    <3> TAKE j, k \in S
    <3> HAVE j < k
    <3>1. <<j, k>> \in Nat \X Nat /\ <<j, k>>[1] < <<j, k>>[2]
      OBVIOUS
    <3> QED BY <3>1, Zenon DEF OpToRel
  <2> QED BY <2>1, <2>2, Zenon
<1> QED
  BY <1>1

-----------------------------------------------------------------------------
(***************************************************************************)
(* Type correctness of the database object, whoever calls it.              *)
(***************************************************************************)
LEMMA ObjectInitType == ObjectInit => ObjectTypeOK
<1>1. << >> \in Seq(ColumnFamilies) /\ << >> \in Seq(ColumnFamilies \cup {nullptr})
  OBVIOUS
<1>2. DOMAIN << >> = {}
  OBVIOUS
<1> QED BY <1>1, <1>2 DEF ObjectInit, ObjectTypeOK, Statuses

LEMMA ConstructorType ==
  ASSUME ObjectTypeOK, families \in Seq(ColumnFamilies),
         ListColumnFamilies \/ OpenForReadOnly
  PROVE  ObjectTypeOK'
<1> USE DEF ObjectTypeOK, Elements
<1>1. CASE ListColumnFamilies
  BY <1>1 DEF ListColumnFamilies, Statuses
<1>2. CASE OpenForReadOnly
  <2>1. CASE db_' = nullptr /\ UNCHANGED <<cf_handles_, column_family_handles_, init_success_>>
    BY <1>2, <2>1 DEF OpenForReadOnly, Statuses
  <2>2. CASE /\ status' = "OK" /\ db_' = "open" /\ cf_handles_' = names /\ init_success_' = TRUE
             /\ column_family_handles_' = [n \in Elements(names) |-> n]
    BY <1>2, <2>2 DEF OpenForReadOnly, Statuses
  <2> QED BY <1>2, <2>1, <2>2 DEF OpenForReadOnly
<1> QED
  BY <1>1, <1>2

LEMMA DestructorType ==
  ASSUME ObjectTypeOK, Destroy
  PROVE  ObjectTypeOK'
<1> USE DEF ObjectTypeOK, Elements
<1>1. /\ cf_handles_' = [n \in DOMAIN cf_handles_ |-> nullptr]
      /\ column_family_handles_' = [n \in DOMAIN column_family_handles_ |-> nullptr]
      /\ phase' = "gone" /\ init_success_' = FALSE /\ fault' \in BOOLEAN /\ db_' = nullptr
      /\ UNCHANGED <<names, status>>
  BY DEF Destroy
<1>2. cf_handles_' \in Seq({nullptr})
  <2>1. DOMAIN cf_handles_ = 1..Len(cf_handles_) /\ Len(cf_handles_) \in Nat
    OBVIOUS
  <2> QED BY <1>1, <2>1
<1>3. cf_handles_' \in Seq(ColumnFamilies \cup {nullptr})
  BY <1>2
<1>4. Elements(cf_handles_') \subseteq {nullptr}
  BY <1>1
<1>5. /\ DOMAIN column_family_handles_' \subseteq ColumnFamilies
      /\ \A n \in DOMAIN column_family_handles_' : column_family_handles_'[n] \in {n, nullptr}
  BY <1>1
<1> QED BY <1>1, <1>3, <1>4, <1>5

(* A call leaves the members alone, and gives the Status a value it may have.*)
LEMMA CallType ==
  ASSUME ObjectTypeOK, UNCHANGED object, status' \in Statuses
  PROVE  ObjectTypeOK'
  BY DEF ObjectTypeOK, Elements

LEMMA ReadStatusType ==
  ASSUME ObjectTypeOK, NEW cf, NEW key
  PROVE  StatusAfter(cf, key) \in Statuses
<1>1. GetStatus(cf, key) \in Statuses
  BY DEF GetStatus, Statuses
<1> QED
  BY <1>1 DEF StatusAfter, ObjectTypeOK

-----------------------------------------------------------------------------
(* An object whose init_success_ lets reads through is open and its map is   *)
(* complete: the flag is set by the step that fills the map and reset by the *)
(* destructor, and nothing the node does reaches the members.                *)
LEMMA UsableStep == UsableMeansOpen /\ [Next]_vars => UsableMeansOpen'
<1> SUFFICES ASSUME UsableMeansOpen, [Next]_vars PROVE UsableMeansOpen'
  OBVIOUS
<1> USE DEF UsableMeansOpen
<1>1. CASE Construct
  <2>1. CASE ListColumnFamilies
    BY <2>1 DEF ListColumnFamilies
  <2>2. CASE OpenForReadOnly
    BY <2>2 DEF OpenForReadOnly
  <2> QED BY <1>1, <2>1, <2>2 DEF Construct
<1>2. CASE Delete
  BY <1>2 DEF Delete, Destroy
<1>3. CASE UNCHANGED object
  BY <1>3
<1>4. CASE NodeStep
  BY <1>3, <1>4 DEF NodeStep, NodeCreates, NodeDrops, NodeRemovesFile
<1>5. ASSUME NEW cf \in ColumnFamilies, NEW key \in Keys, ReadData(cf, key)
      PROVE  UsableMeansOpen'
  BY <1>3, <1>5 DEF ReadData
<1>6. ASSUME NEW cf \in ColumnFamilies, GetAllData(cf)
      PROVE  UsableMeansOpen'
  BY <1>3, <1>6 DEF GetAllData
<1>7. CASE IteratorNext \/ IteratorEnd
  BY <1>3, <1>7 DEF IteratorNext, IteratorEnd
<1>8. ASSUME NEW keys, MultiReadData(keys)
      PROVE  UsableMeansOpen'
  BY <1>3, <1>8 DEF MultiReadData
<1>9. CASE UNCHANGED vars
  BY <1>3, <1>9 DEF vars
<1> QED
  BY <1>1, <1>2, <1>4, <1>5, <1>6, <1>7, <1>8, <1>9 DEF Next

(* Whenever the read functions are let through, db_ is open and every name   *)
(* that was listed maps to its own handle.                                   *)
THEOREM UsableAlwaysOpen == Spec => []UsableMeansOpen
<1>1. Init => UsableMeansOpen
  BY DEF Init, ObjectInit, UsableMeansOpen
<1> QED
  BY <1>1, UsableStep, PTL DEF Spec

-----------------------------------------------------------------------------
(***************************************************************************)
(* FaultWasReported is not inductive: one has to know that while db_ is    *)
(* unassigned no read gets through that could overwrite the Status.        *)
(***************************************************************************)
GarbageInv ==
  /\ phase \in {"raw", "listed", "built", "gone"}
  /\ phase = "raw" => names = << >>
  /\ phase \in {"raw", "listed"} => ~init_success_
  /\ phase # "gone" => ~fault
  /\ phase = "built" /\ db_ = "garbage" =>
       ~init_success_ /\ names = << >> /\ status = "IOError"
  /\ FaultWasReported

LEMMA GarbageStep == GarbageInv /\ [Next]_vars => GarbageInv'
<1> SUFFICES ASSUME GarbageInv, [Next]_vars PROVE GarbageInv'
  OBVIOUS
<1> USE DEF GarbageInv, FaultWasReported
<1>1. CASE Construct
  <2>1. CASE ListColumnFamilies
    BY <2>1 DEF ListColumnFamilies
  <2>2. CASE OpenForReadOnly
    BY <2>2, NullptrAssumption DEF OpenForReadOnly
  <2> QED BY <1>1, <2>1, <2>2 DEF Construct
<1>2. CASE Delete
  BY <1>2, NullptrAssumption DEF Delete, Destroy
<1>3. CASE UNCHANGED object /\ UNCHANGED status
  BY <1>3
<1>4. CASE NodeStep
  BY <1>3, <1>4 DEF NodeStep, NodeCreates, NodeDrops, NodeRemovesFile
<1>5. ASSUME NEW cf \in ColumnFamilies, NEW key \in Keys, ReadData(cf, key)
      PROVE  GarbageInv'
  <2>1. phase = "built" /\ UNCHANGED object
    BY <1>5 DEF ReadData, MayCall
  <2>2. ~init_success_ => status' = status
    BY <1>5 DEF ReadData, StatusAfter, HasHandle
  <2> QED BY <2>1, <2>2
<1>6. ASSUME NEW cf \in ColumnFamilies, GetAllData(cf)
      PROVE  GarbageInv'
  BY <1>3, <1>6 DEF GetAllData
<1>7. CASE IteratorNext \/ IteratorEnd
  BY <1>3, <1>7 DEF IteratorNext, IteratorEnd
<1>8. ASSUME NEW keys, MultiReadData(keys)
      PROVE  GarbageInv'
  BY <1>3, <1>8 DEF MultiReadData
<1>9. CASE UNCHANGED vars
  BY <1>3, <1>9 DEF vars
<1> QED
  BY <1>1, <1>2, <1>4, <1>5, <1>6, <1>7, <1>8, <1>9 DEF Next

(* The destructor deletes an unassigned pointer only in an object whose      *)
(* constructor reported that it could not list the column families.          *)
THEOREM FaultAlwaysReported == Spec => []FaultWasReported
<1>1. Init => GarbageInv
  BY DEF Init, ObjectInit, GarbageInv, FaultWasReported
<1>2. GarbageInv => FaultWasReported
  BY DEF GarbageInv
<1> QED
  BY <1>1, <1>2, GarbageStep, PTL DEF Spec

-----------------------------------------------------------------------------
(***************************************************************************)
(* A scan in progress has every row behind the iterator.                   *)
(***************************************************************************)
ScanInv ==
  /\ \A cf \in ColumnFamilies : DOMAIN rows[cf] \subseteq Keys
  /\ scanned \in ColumnFamilies \cup {nullptr}
  /\ scanned = nullptr => DOMAIN data = {} /\ it = nullptr
  /\ it # nullptr => /\ it \subseteq DOMAIN rows[scanned]
                     /\ DOMAIN rows[scanned] \ it \subseteq DOMAIN data
  /\ DOMAIN data \subseteq Nat
  /\ ScanIsPrefix

(* The iterator is at the least key that is still ahead of it. *)
LEMMA IteratorKeyIsLeast ==
  ASSUME ScanInv, IteratorNext
  PROVE  IteratorKey \in it /\ \A j \in it : IteratorKey <= j
<1>1. it \subseteq Nat /\ it # {}
  BY KeysAreOrdered DEF ScanInv, IteratorNext, IteratorValid
<1>2. \E k \in it : \A j \in it : k <= j
  BY <1>1, LeastNat
<1> QED
  BY <1>2 DEF IteratorKey

(* One step of the scan keeps the prefix: the key it adds is the least that  *)
(* was not behind the iterator.                                              *)
LEMMA IteratorStep ==
  ASSUME ScanInv, IteratorNext
  PROVE  ScanInv'
<1> USE DEF ScanInv, ScanIsPrefix
<1>1. scanned \in ColumnFamilies /\ it \subseteq Nat /\ it # {}
  BY KeysAreOrdered DEF IteratorNext, IteratorValid
<1>3. IteratorKey \in it /\ \A j \in it : IteratorKey <= j
  BY IteratorKeyIsLeast
<1> DEFINE key == IteratorKey
<1>4. key \in DOMAIN rows[scanned] /\ key \in Nat
  BY <1>1, <1>3 DEF IteratorNext
<1>5. /\ data' = [k \in DOMAIN data \cup {key} |->
                    IF k \in DOMAIN data THEN data[k] ELSE rows[scanned][k]]
      /\ it' = it \ {key}
      /\ UNCHANGED <<rows, scanned>>
  BY DEF IteratorNext
<1> HIDE DEF key
<1>6. DOMAIN data' = DOMAIN data \cup {key}
  BY <1>5
<1>7. \A k \in DOMAIN data' : data'[k] = rows[scanned][k]
  BY <1>5
<1>8. \A j \in DOMAIN rows[scanned] : j < key => j \in DOMAIN data
  <2> SUFFICES ASSUME NEW j \in DOMAIN rows[scanned], j < key, j \notin DOMAIN data
               PROVE  FALSE
    OBVIOUS
  <2>1. j \in it
    BY DEF IteratorNext
  <2>2. j \in Nat /\ key <= j
    BY <1>1, <1>3, <2>1 DEF key
  <2> QED BY <1>4, <2>2
<1>9. ScanIsPrefix'
  BY <1>5, <1>6, <1>7, <1>8
<1> QED
  <2>1. it # nullptr /\ it \subseteq DOMAIN rows[scanned]
         /\ DOMAIN rows[scanned] \ it \subseteq DOMAIN data
    BY DEF IteratorNext
  <2>2. /\ it' \subseteq DOMAIN rows[scanned]
        /\ DOMAIN rows[scanned] \ it' \subseteq DOMAIN data'
    BY <1>5, <1>6, <2>1
  <2>3. scanned # nullptr
    BY <1>1, NullptrAssumption
  <2> QED BY <1>4, <1>5, <1>6, <1>9, <2>2, <2>3

LEMMA ScanStep == ScanInv /\ [Next]_vars => ScanInv'
<1> SUFFICES ASSUME ScanInv, [Next]_vars PROVE ScanInv'
  OBVIOUS
<1>1. CASE UNCHANGED <<rows, data, scanned, it>>
  BY <1>1 DEF ScanInv, ScanIsPrefix
<1>2. CASE Construct \/ Delete
  BY <1>1, <1>2 DEF Construct, Delete, Destroy, ListColumnFamilies, OpenForReadOnly
<1>3. CASE NodeStep
  BY <1>1, <1>3 DEF NodeStep, NodeCreates, NodeDrops, NodeRemovesFile
<1>4. ASSUME NEW cf \in ColumnFamilies, NEW key \in Keys, ReadData(cf, key)
      PROVE  ScanInv'
  BY <1>1, <1>4 DEF ReadData
<1>5. ASSUME NEW cf \in ColumnFamilies, GetAllData(cf)
      PROVE  ScanInv'
  <2>1. /\ scanned' = cf /\ scanned \in {nullptr, cf} /\ it = nullptr
        /\ it' = nullptr \/ it' = DOMAIN rows[cf]
        /\ UNCHANGED <<rows, data>>
    BY <1>5 DEF GetAllData, MayCall
  <2>2. cf # nullptr
    BY NullptrAssumption
  <2> QED BY <2>1, <2>2 DEF ScanInv, ScanIsPrefix
<1>6. CASE IteratorNext
  BY <1>6, IteratorStep
<1>7. CASE IteratorEnd
  <2>1. it' = nullptr /\ UNCHANGED <<rows, data, scanned>>
    BY <1>7 DEF IteratorEnd
  <2> QED BY <2>1 DEF ScanInv, ScanIsPrefix
<1>8. ASSUME NEW keys, MultiReadData(keys)
      PROVE  ScanInv'
  BY <1>1, <1>8 DEF MultiReadData
<1>9. CASE UNCHANGED vars
  BY <1>1, <1>9 DEF vars
<1> QED
  BY <1>2, <1>3, <1>4, <1>5, <1>6, <1>7, <1>8, <1>9 DEF Next

LEMMA ScanInvAlways == Spec => []ScanInv
<1>1. Init => ScanInv
  <2> SUFFICES ASSUME Init PROVE ScanInv
    OBVIOUS
  <2>1. PICK stored \in [ColumnFamilies -> SUBSET Keys] :
          rows = [cf \in ColumnFamilies |-> [k \in stored[cf] |-> <<cf, k>>]]
    BY DEF Init
  <2>2. \A cf \in ColumnFamilies : DOMAIN rows[cf] \subseteq Keys
    BY <2>1
  <2>3. DOMAIN data = {}
    BY DEF Init
  <2> QED BY <2>2, <2>3 DEF Init, ScanInv, ScanIsPrefix
<1> QED
  BY <1>1, ScanStep, PTL DEF Spec

(* What a client has of a column is a beginning of it in key order, however  *)
(* many files the node removes while it scans.                               *)
THEOREM ScanAlwaysPrefix == Spec => []ScanIsPrefix
<1>1. ScanInv => ScanIsPrefix
  BY DEF ScanInv
<1> QED
  BY <1>1, ScanInvAlways, PTL

-----------------------------------------------------------------------------
(***************************************************************************)
(* Type correctness.  What reads deliver is a stored row because the       *)
(* handles are those of the listed families (UsableMeansOpen), and what a  *)
(* scan delivers because its keys come from the column (ScanInv).          *)
(***************************************************************************)
LEMMA ObjectTypeStep ==
  ASSUME TypeOK, [Next]_vars
  PROVE  ObjectTypeOK'
<1>1. ObjectTypeOK /\ families \in Seq(ColumnFamilies) /\ status \in Statuses
  BY DEF TypeOK, ObjectTypeOK
<1>2. CASE Construct
  BY <1>1, <1>2, ConstructorType DEF Construct
<1>3. CASE Delete
  BY <1>1, <1>3, DestructorType DEF Delete
<1>4. CASE UNCHANGED <<object, status>>
  BY <1>1, <1>4, CallType
<1>5. ASSUME NEW cf \in ColumnFamilies, NEW key \in Keys, ReadData(cf, key)
      PROVE  ObjectTypeOK'
  BY <1>1, <1>5, CallType, ReadStatusType DEF ReadData
<1>6. ASSUME NEW cf \in ColumnFamilies, GetAllData(cf)
      PROVE  ObjectTypeOK'
  BY <1>4, <1>6 DEF GetAllData
<1>7. CASE IteratorNext \/ IteratorEnd
  BY <1>4, <1>7 DEF IteratorNext, IteratorEnd
<1>8. ASSUME NEW keys, MultiReadData(keys)
      PROVE  ObjectTypeOK'
  BY <1>4, <1>8 DEF MultiReadData
<1>9. CASE NodeStep
  BY <1>4, <1>9 DEF NodeStep, NodeCreates, NodeDrops, NodeRemovesFile
<1>10. CASE UNCHANGED vars
  BY <1>4, <1>10 DEF vars
<1> QED
  BY <1>2, <1>3, <1>5, <1>6, <1>7, <1>8, <1>9, <1>10 DEF Next

(* The manifest stays a sequence of names. *)
LEMMA FamiliesStep ==
  ASSUME families \in Seq(ColumnFamilies), NEW cf \in ColumnFamilies,
         NodeCreates(cf) \/ NodeDrops(cf)
  PROVE  families' \in Seq(ColumnFamilies)
<1>1. CASE NodeCreates(cf)
  BY <1>1 DEF NodeCreates
<1>2. CASE NodeDrops(cf)
  <2>1. PICK n \in DOMAIN families :
          families' = SubSeq(families, 1, n - 1) \o SubSeq(families, n + 1, Len(families))
    BY <1>2 DEF NodeDrops
  <2>2. n \in Int /\ Len(families) \in Int /\ n <= Len(families) /\ n >= 1
    OBVIOUS
  <2>3. SubSeq(families, 1, n - 1) \in Seq(ColumnFamilies)
    BY <2>2
  <2>4. SubSeq(families, n + 1, Len(families)) \in Seq(ColumnFamilies)
    BY <2>2
  <2> QED BY <2>1, <2>3, <2>4
<1> QED
  BY <1>1, <1>2

(* A read through a handle of this database delivers the row that is stored. *)
LEMMA ReadIsStored ==
  ASSUME TypeOK, NEW cf \in ColumnFamilies, NEW key \in Keys, GetStatus(cf, key) = "OK"
  PROVE  rows[cf][key] \in Stored
<1>1. key \in DOMAIN rows[cf]
  BY DEF GetStatus
<1> QED
  <2>1. rows[cf][key] = <<cf, key>>
    BY <1>1 DEF TypeOK
  <2> QED BY <2>1 DEF Stored

LEMMA TypeStep == TypeOK /\ UsableMeansOpen /\ ScanInv /\ ScanInv' /\ [Next]_vars => TypeOK'
<1> SUFFICES ASSUME TypeOK, UsableMeansOpen, ScanInv, ScanInv', [Next]_vars PROVE TypeOK'
  OBVIOUS
<1> USE ObjectTypeStep
<1>1. CASE Construct \/ Delete
  <2>1. UNCHANGED <<external, client, changes>>
    BY <1>1 DEF Construct, Delete, ListColumnFamilies, OpenForReadOnly, Destroy
  <2> QED BY <2>1 DEF TypeOK
<1>2. ASSUME NEW cf \in ColumnFamilies, NEW key \in Keys, ReadData(cf, key)
      PROVE  TypeOK'
  <2>1. value' \in Stored \cup {nullptr}
    BY <1>2, ReadIsStored DEF ReadData, ValueAfter, ReadReturns, TypeOK
  <2>2. ret' \in BOOLEAN
    BY <1>2 DEF ReadData, ReadReturns, HasHandle, TypeOK, ObjectTypeOK
  <2> QED BY <1>2, <2>1, <2>2 DEF ReadData, TypeOK
<1>3. ASSUME NEW cf \in ColumnFamilies, GetAllData(cf)
      PROVE  TypeOK'
  BY <1>3 DEF GetAllData, TypeOK
<1>4. CASE IteratorNext
  <2>1. DOMAIN data' = DOMAIN data \cup {IteratorKey} /\ it' = it \ {IteratorKey}
    BY <1>4 DEF IteratorNext
  <2>2. it \subseteq Keys /\ DOMAIN data \subseteq Keys /\ it # nullptr
    BY <1>4 DEF IteratorNext, TypeOK
  <2>3. DOMAIN data' \subseteq Keys /\ it' \subseteq Keys
    BY <1>4, <2>1, <2>2, IteratorKeyIsLeast
  <2> QED BY <1>4, <2>3 DEF IteratorNext, TypeOK
<1>5. CASE IteratorEnd
  BY <1>5 DEF IteratorEnd, TypeOK
<1>6. ASSUME NEW keys \in [DOMAIN cf_handles_ -> Keys], MultiReadData(keys)
      PROVE  TypeOK'
  <2>1. \A n \in DOMAIN values' : values'[n] \in Stored \cup {nullptr}
    <3>1. CASE init_success_
      <4>1. \A n \in DOMAIN keys : cf_handles_[n] \in ColumnFamilies /\ keys[n] \in Keys
        BY <3>1 DEF UsableMeansOpen, TypeOK, ObjectTypeOK
      <4>2. values' = [n \in DOMAIN keys |->
                         IF GetStatus(cf_handles_[n], keys[n]) = "OK"
                           THEN rows[cf_handles_[n]][keys[n]] ELSE nullptr]
        BY <1>6, <3>1 DEF MultiReadData, MultiReadValues
      <4> QED BY <4>1, <4>2, ReadIsStored
    <3>2. CASE ~init_success_
      BY <1>6, <3>2 DEF MultiReadData, MultiReadValues, TypeOK
    <3> QED BY <3>1, <3>2
  <2>2. \A n \in DOMAIN statuses' : statuses'[n] \in Statuses
    <3>1. \A cf, key : GetStatus(cf, key) \in Statuses
      BY DEF GetStatus, Statuses
    <3> QED BY <1>6, <3>1 DEF MultiReadData, MultiReadStatuses, TypeOK
  <2>3. ret' \in BOOLEAN
    BY <1>6 DEF MultiReadData, MultiReadReturns, TypeOK, ObjectTypeOK
  <2> QED BY <1>6, <2>1, <2>2, <2>3 DEF MultiReadData, TypeOK
<1>7. CASE NodeStep
  <2>1. PICK cf \in ColumnFamilies : \/ NodeCreates(cf)
                                     \/ NodeDrops(cf)
                                     \/ \E key \in Keys : NodeRemovesFile(cf, key)
    BY <1>7 DEF NodeStep
  <2>2. families' \in Seq(ColumnFamilies)
    BY <2>1, FamiliesStep DEF TypeOK, NodeRemovesFile
  <2>3. UNCHANGED rows /\ unreadable' \subseteq Stored
    <3>1. CASE NodeCreates(cf) \/ NodeDrops(cf)
      BY <3>1 DEF TypeOK, NodeCreates, NodeDrops
    <3>2. ASSUME NEW key \in Keys, NodeRemovesFile(cf, key)
          PROVE  UNCHANGED rows /\ unreadable' \subseteq Stored
      BY <3>2 DEF TypeOK, Stored, NodeRemovesFile
    <3> QED BY <2>1, <3>1, <3>2
  <2>4. changes' \in 0..MaxChanges
    BY <1>7, ChangesBound DEF NodeStep, TypeOK
  <2> QED BY <1>7, <2>2, <2>3, <2>4 DEF NodeStep, TypeOK
<1>8. CASE UNCHANGED vars
  BY <1>8 DEF vars, TypeOK
<1> QED
  BY <1>1, <1>2, <1>3, <1>4, <1>5, <1>6, <1>7, <1>8 DEF Next

(* The members and out parameters hold values of their types. *)
THEOREM ClientTypeAlwaysOK == Spec => []TypeOK
<1>1. Init => TypeOK
  <2> SUFFICES ASSUME Init PROVE TypeOK
    OBVIOUS
  <2>1. ObjectTypeOK
    BY ObjectInitType DEF Init
  <2>2. PICK stored \in [ColumnFamilies -> SUBSET Keys] :
          rows = [cf \in ColumnFamilies |-> [k \in stored[cf] |-> <<cf, k>>]]
    BY DEF Init
  <2>3. families \in Seq(ColumnFamilies)
    BY DEF Init
  <2>4. /\ DOMAIN rows = ColumnFamilies
        /\ \A cf \in ColumnFamilies : /\ DOMAIN rows[cf] \subseteq Keys
                                      /\ \A k \in DOMAIN rows[cf] : rows[cf][k] = <<cf, k>>
    BY <2>2
  <2>5. DOMAIN data = {} /\ DOMAIN values = {} /\ DOMAIN statuses = {}
    BY DEF Init
  <2>6. /\ unreadable = {} /\ value = nullptr /\ ret = FALSE /\ scanned = nullptr
        /\ it = nullptr /\ changes \in 0..MaxChanges
    BY ChangesBound DEF Init
  <2> QED BY <2>1, <2>3, <2>4, <2>5, <2>6, Zenon DEF TypeOK
<1> QED
  BY <1>1, TypeStep, UsableAlwaysOpen, ScanInvAlways, PTL DEF Spec
-----------------------------------------------------------------------------
(***************************************************************************)
(* What MultiReadData delivered names the family it was read from; before  *)
(* the object is built nothing was delivered, and the listed names are not *)
(* touched after that.                                                     *)
(***************************************************************************)
MultiReadInv ==
  /\ phase \in {"raw", "listed"} => values = << >>
  /\ MultiReadByListedOrder

LEMMA MultiReadStep ==
  MultiReadInv /\ TypeOK /\ UsableMeansOpen /\ [Next]_vars => MultiReadInv'
<1> SUFFICES ASSUME MultiReadInv, TypeOK, UsableMeansOpen, [Next]_vars PROVE MultiReadInv'
  OBVIOUS
<1> USE DEF MultiReadInv, MultiReadByListedOrder
<1>1. CASE UNCHANGED <<phase, names, values>>
  BY <1>1
<1>2. CASE Construct
  <2>1. values = << >> /\ UNCHANGED values
    BY <1>2 DEF Construct, ListColumnFamilies, OpenForReadOnly
  <2> QED BY <2>1
<1>3. CASE Delete
  BY <1>3 DEF Delete, Destroy
<1>4. ASSUME NEW keys \in [DOMAIN cf_handles_ -> Keys], MultiReadData(keys)
      PROVE  MultiReadInv'
  <2>1. phase = "built" /\ UNCHANGED <<phase, names>>
    BY <1>4 DEF MultiReadData, MayCall
  <2>2. CASE ~init_success_
    BY <1>4, <2>1, <2>2 DEF MultiReadData, MultiReadValues
  <2>3. CASE init_success_
    <3>1. /\ cf_handles_ = names
          /\ values' = [n \in DOMAIN keys |->
                          IF GetStatus(cf_handles_[n], keys[n]) = "OK"
                            THEN rows[cf_handles_[n]][keys[n]] ELSE nullptr]
      BY <1>4, <2>3 DEF MultiReadData, MultiReadValues, UsableMeansOpen
    <3>2. \A n \in DOMAIN keys : names[n] \in ColumnFamilies /\ keys[n] \in Keys
      BY <3>1 DEF TypeOK, ObjectTypeOK
    <3>3. ASSUME NEW n \in DOMAIN values', values'[n] # nullptr
          PROVE  values'[n][1] = names[n]
      <4>1. n \in DOMAIN keys /\ values'[n] = rows[names[n]][keys[n]]
              /\ GetStatus(names[n], keys[n]) = "OK"
        BY <3>1, <3>3
      <4>2. keys[n] \in DOMAIN rows[names[n]]
        BY <4>1 DEF GetStatus
      <4> QED BY <3>2, <4>1, <4>2 DEF TypeOK
    <3> QED BY <2>1, <3>3
  <2> QED BY <2>2, <2>3
<1>5. ASSUME NEW cf \in ColumnFamilies, NEW key \in Keys, ReadData(cf, key)
      PROVE  MultiReadInv'
  BY <1>1, <1>5 DEF ReadData
<1>6. ASSUME NEW cf \in ColumnFamilies, GetAllData(cf)
      PROVE  MultiReadInv'
  BY <1>1, <1>6 DEF GetAllData
<1>7. CASE IteratorNext \/ IteratorEnd
  BY <1>1, <1>7 DEF IteratorNext, IteratorEnd
<1>8. CASE NodeStep
  BY <1>1, <1>8 DEF NodeStep, NodeCreates, NodeDrops, NodeRemovesFile
<1>9. CASE UNCHANGED vars
  BY <1>1, <1>9 DEF vars
<1> QED
  BY <1>2, <1>3, <1>4, <1>5, <1>6, <1>7, <1>8, <1>9 DEF Next

(* MultiReadData has no column argument: position n of its answer is of the  *)
(* family the constructor listed at n, whatever the manifest has there now.  *)
THEOREM MultiReadAlwaysInListedOrder == Spec => []MultiReadByListedOrder
<1>1. Init => MultiReadInv
  BY DEF Init, MultiReadInv, MultiReadByListedOrder
<1>2. MultiReadInv => MultiReadByListedOrder
  BY DEF MultiReadInv
<1> QED
  BY <1>1, <1>2, MultiReadStep, ClientTypeAlwaysOK, UsableAlwaysOpen, PTL DEF Spec

-----------------------------------------------------------------------------
(* A scan ends with every row delivered or at a row that cannot be read: the *)
(* rows that are not ahead of the iterator are in the answer.                *)
THEOREM ScanAlwaysEndsAtUnreadable == Spec => ScanEndsAtUnreadable
<1> DEFINE Ends == it # nullptr /\ it' = nullptr =>
                     \/ DOMAIN rows[scanned] \subseteq DOMAIN data
                     \/ /\ it # {}
                        /\ <<scanned, IteratorKey>> \in unreadable
<1>1. ScanInv /\ [Next]_vars => [Ends]_vars
  <2> SUFFICES ASSUME ScanInv, Next, it # nullptr, it' = nullptr PROVE Ends
    OBVIOUS
  <2>1. IteratorEnd
    <3>1. ~IteratorNext
      <4> SUFFICES ASSUME IteratorNext PROVE FALSE
        OBVIOUS
      <4>1. it' = it \ {IteratorKey} /\ IteratorKey \in it
        BY IteratorKeyIsLeast DEF IteratorNext
      <4>2. it' \subseteq Keys
        BY <4>1 DEF ScanInv, IteratorNext
      <4> QED BY <4>1, <4>2, NullptrIsNoIterator
    <3> QED BY <3>1 DEF Next, Construct, GetAllData, ReadData, MultiReadData, MayCall,
                        Delete, NodeStep, ListColumnFamilies, OpenForReadOnly, NodeCreates,
                        NodeDrops, NodeRemovesFile
  <2>2. it = {} \/ (it # {} /\ <<scanned, IteratorKey>> \in unreadable)
    BY <2>1 DEF IteratorEnd, IteratorValid
  <2> QED BY <2>2 DEF ScanInv
<1> QED
  BY <1>1, ScanInvAlways, PTL DEF Spec, ScanEndsAtUnreadable

-----------------------------------------------------------------------------
(* A read that fails and leaves an OK in the Status found no handle: with a  *)
(* handle the Status is Get's own, and an OK of Get's makes ReadData return  *)
(* true.  In a usable object the names without a handle are those that were  *)
(* not listed.                                                               *)
THEOREM StaleOKAlwaysForMissingColumn == Spec => StaleOKOnlyForMissingColumn
<1> DEFINE Stale == \A cf \in ColumnFamilies, key \in Keys :
                      ReadData(cf, key) /\ ~ret' /\ status' = "OK" /\ init_success_
                        => cf \notin Elements(names)
<1>1. UsableMeansOpen => Stale
  <2> SUFFICES ASSUME UsableMeansOpen, NEW cf \in ColumnFamilies, NEW key \in Keys,
                      ReadData(cf, key), ~ret', status' = "OK", init_success_
               PROVE  cf \notin Elements(names)
    OBVIOUS
  <2>1. ~ReadReturns(cf, key) /\ StatusAfter(cf, key) = "OK"
    BY DEF ReadData
  <2>2. ~HasHandle(cf)
    BY <2>1 DEF ReadReturns, StatusAfter
  <2>3. DOMAIN column_family_handles_ = Elements(names)
    BY DEF UsableMeansOpen
  <2> QED BY <2>2, <2>3 DEF HasHandle
<1>2. UsableMeansOpen /\ [Next]_vars => [Stale]_vars
  BY <1>1
<1> QED
  BY <1>2, UsableAlwaysOpen, PTL DEF Spec, StaleOKOnlyForMissingColumn
=============================================================================
