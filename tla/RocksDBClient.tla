---------------------------- MODULE RocksDBClient ----------------------------
(***************************************************************************)
(* The most general client of one RocksDBReadOnly object: one thread calls *)
(* the public functions in any order the language allows, while the node   *)
(* changes the database directory between any two steps.  The scan of      *)
(* GetAllDataByColumnFamily is a step per row, because it is long.         *)
(*                                                                         *)
(* A row's value is the pair <<column family, key>> it is stored under, so *)
(* that what a read delivers names where it came from.                     *)
(***************************************************************************)
EXTENDS RocksDBReadOnly, FiniteSets

CONSTANTS Keys,         \* the keys of every column family
          MaxChanges    \* bound on what the node does to the directory

ASSUME KeysAreOrdered == Keys \subseteq Nat
ASSUME ChangesBound == MaxChanges \in Nat
ASSUME NullptrIsNoIterator == \A K \in SUBSET Keys : nullptr # K

VARIABLES value,        \* out parameter of ReadData
          ret,          \* what the last call returned
          data,         \* out parameter of GetAllDataByColumnFamily
          scanned,      \* the column family `data' was filled from
          it,           \* keys still ahead of the iterator; nullptr if there is none
          values,       \* out parameters of MultiReadData
          statuses,
          changes       \* number of changes the node made so far

client == <<value, ret, data, scanned, it, values, statuses>>
vars == <<dbVars, client, changes>>

Init ==
  /\ ObjectInit
  /\ families \in {s \in UNION {[1..n -> ColumnFamilies] : n \in 0..Cardinality(ColumnFamilies)} :
                     \A m, n \in DOMAIN s : s[m] = s[n] => m = n}
  /\ \E stored \in [ColumnFamilies -> SUBSET Keys] :
       rows = [cf \in ColumnFamilies |-> [k \in stored[cf] |-> <<cf, k>>]]
  /\ unreadable = {}
  /\ value = nullptr
  /\ ret = FALSE
  /\ data = << >>
  /\ scanned = nullptr
  /\ it = nullptr
  /\ values = << >>
  /\ statuses = << >>
  /\ changes = 0

Construct == (ListColumnFamilies \/ OpenForReadOnly) /\ UNCHANGED <<client, changes>>

(***************************************************************************)
(* A call needs a constructed object and no other call on the stack.       *)
(***************************************************************************)
MayCall == phase = "built" /\ it = nullptr

ReadData(cf, key) ==
  /\ MayCall
  /\ ret' = ReadReturns(cf, key)
  /\ status' = StatusAfter(cf, key)
  /\ value' = ValueAfter(cf, key, value)
  /\ UNCHANGED <<object, external, data, scanned, it, values, statuses, changes>>

(***************************************************************************)
(* GetAllDataByColumnFamily: the two early returns and SeekToFirst; then   *)
(* one step per row, insert keeping an entry `data' already has; a row     *)
(* that cannot be read makes the iterator invalid and so ends the loop as  *)
(* the last row does.  Both ways the function returns true and leaves the  *)
(* Status alone.                                                           *)
(***************************************************************************)
GetAllData(cf) ==
  /\ MayCall
  /\ scanned \in {nullptr, cf}
  /\ scanned' = cf
  /\ \/ ~HasHandle(cf) /\ ret' = FALSE /\ UNCHANGED it
     \/ HasHandle(cf) /\ it' = DOMAIN rows[cf] /\ UNCHANGED ret
  /\ UNCHANGED <<dbVars, value, data, values, statuses, changes>>

IteratorKey == CHOOSE k \in it : \A j \in it : k <= j
IteratorValid == it # {} /\ <<scanned, IteratorKey>> \notin unreadable

\* BUG: a row that cannot be read is skipped.
IteratorNextSkips ==
  /\ it # nullptr
  /\ it # {}
  /\ it' = it \ {IteratorKey}
  /\ data' = IF IteratorValid
               THEN [k \in DOMAIN data \cup {IteratorKey} |->
                       IF k \in DOMAIN data THEN data[k] ELSE rows[scanned][k]]
               ELSE data
  /\ UNCHANGED <<dbVars, value, ret, scanned, values, statuses, changes>>

IteratorNext ==
  /\ it # nullptr
  /\ IteratorValid
  /\ data' = [k \in DOMAIN data \cup {IteratorKey} |->
                IF k \in DOMAIN data THEN data[k] ELSE rows[scanned][k]]
  /\ it' = it \ {IteratorKey}
  /\ UNCHANGED <<dbVars, value, ret, scanned, values, statuses, changes>>

IteratorEnd ==
  /\ it # nullptr
  /\ ~IteratorValid
  /\ ret' = TRUE
  /\ it' = nullptr
  /\ UNCHANGED <<dbVars, value, data, scanned, values, statuses, changes>>

(***************************************************************************)
(* MultiReadData, called as RocksDB requires: a key for every handle.      *)
(***************************************************************************)
MultiReadData(keys) ==
  /\ MayCall
  /\ ret' = MultiReadReturns(keys)
  /\ values' = MultiReadValues(keys, values)
  /\ statuses' = MultiReadStatuses(keys, statuses)
  /\ UNCHANGED <<dbVars, value, data, scanned, it, changes>>

Delete == it = nullptr /\ Destroy /\ UNCHANGED <<client, changes>>

NodeStep ==
  /\ changes < MaxChanges
  /\ changes' = changes + 1
  /\ \E cf \in ColumnFamilies : \/ NodeCreates(cf)
                                \/ NodeDrops(cf)
                                \/ \E key \in Keys : NodeRemovesFile(cf, key)
  /\ UNCHANGED client

Next ==
  \/ Construct
  \/ \E cf \in ColumnFamilies : \/ GetAllData(cf)
                                \/ \E key \in Keys : ReadData(cf, key)
  \/ IteratorNext
  \/ IteratorEnd
  \/ \E keys \in [DOMAIN cf_handles_ -> Keys] : MultiReadData(keys)
  \/ Delete
  \/ NodeStep

Spec == Init /\ [][Next]_vars

-----------------------------------------------------------------------------
Stored == ColumnFamilies \X Keys

(* The members and out parameters hold values of their types. *)
TypeOK ==
  /\ ObjectTypeOK
  /\ families \in Seq(ColumnFamilies)
  /\ DOMAIN rows = ColumnFamilies
  /\ \A cf \in ColumnFamilies : /\ DOMAIN rows[cf] \subseteq Keys
                                /\ \A k \in DOMAIN rows[cf] : rows[cf][k] = <<cf, k>>
  /\ unreadable \subseteq Stored
  /\ value \in Stored \cup {nullptr}
  /\ ret \in BOOLEAN
  /\ DOMAIN data \subseteq Keys
  /\ scanned \in ColumnFamilies \cup {nullptr}
  /\ it = nullptr \/ it \subseteq Keys
  /\ \A n \in DOMAIN values : values[n] \in Stored \cup {nullptr}
  /\ \A n \in DOMAIN statuses : statuses[n] \in Statuses
  /\ changes \in 0..MaxChanges

(* While init_success_ lets the read functions through, the pointer they     *)
(* use is an open database, and the handle they find under a name is that    *)
(* family's, whatever the node did to the manifest while the constructor     *)
(* was between listing and opening.                                          *)
UsableMeansOpen ==
  init_success_ =>
    /\ phase = "built"
    /\ db_ = "open"
    /\ cf_handles_ = names
    /\ DOMAIN column_family_handles_ = Elements(names)
    /\ \A n \in Elements(names) : column_family_handles_[n] = n

(* The destructor deletes the never assigned db_ only where the constructor  *)
(* had reported a failure, and no call in between can have overwritten the   *)
(* Status that reported it.                                                  *)
FaultWasReported == fault => status = "IOError" /\ names = << >>

(* A client that goes by the Status, as main does for the optional columns,  *)
(* mistakes a read that found nothing for a success only when the column     *)
(* was not there to be opened.                                               *)
StaleOKOnlyForMissingColumn ==
  [][\A cf \in ColumnFamilies, key \in Keys :
       ReadData(cf, key) /\ ~ret' /\ status' = "OK" /\ init_success_
         => cf \notin Elements(names)]_vars

(* However the node removes files during and between scans, what a client    *)
(* has of a column is a beginning of it in key order, row for row.           *)
ScanIsPrefix ==
  \A k \in DOMAIN data :
    /\ data[k] = rows[scanned][k]
    /\ \A j \in DOMAIN rows[scanned] : j < k => j \in DOMAIN data

(* A scan returns true even when it was cut short.  It is cut short only by  *)
(* a row that cannot be read, and then at that row.                          *)
ScanEndsAtUnreadable ==
  [][it # nullptr /\ it' = nullptr =>
       \/ DOMAIN rows[scanned] \subseteq DOMAIN data
       \/ /\ it # {}
          /\ <<scanned, IteratorKey>> \in unreadable]_vars

(* MultiReadData has no column argument: it reads position n in the family   *)
(* the constructor listed at n, not in the one the manifest has there now.   *)
MultiReadByListedOrder ==
  \A n \in DOMAIN values : values[n] # nullptr => values[n][1] = names[n]
=============================================================================
