-------------------------- MODULE RocksDBReadOnly --------------------------
(***************************************************************************)
(* The read-only database handle of db/rocksdb_read_only.cpp: how the      *)
(* object is constructed and destroyed, and what its three read functions  *)
(* give back.  RocksDB itself and the CKB node that owns the files are     *)
(* external: `families', `rows' and `unreadable' stand for what they hold,  *)
(* and the Node actions for what the node does to the directory while the  *)
(* tool runs.                                                              *)
(*                                                                         *)
(* Out parameters other than the Status belong to the caller, so a read    *)
(* function is given by what it returns (ReadReturns), the Status it       *)
(* leaves (StatusAfter) and the bytes it leaves in the out parameter       *)
(* (ValueAfter); a client module assigns them.                             *)
(***************************************************************************)
EXTENDS Naturals, Sequences

CONSTANTS ColumnFamilies,  \* the names a column family may have
          nullptr

ASSUME NullptrAssumption == nullptr \notin ColumnFamilies \cup {"garbage", "open"}

VARIABLES families,        \* external: the names in the manifest, in creation order
          rows,            \* external: rows[cf] maps the keys of cf to their values
          unreadable,      \* external: the <<cf, key>> whose table file is gone
          phase,           \* "raw", "listed" (inside the constructor), "built", "gone"
          names,           \* column_family_names, a local of the constructor
          init_success_,
          db_,             \* "garbage" until first assigned, then nullptr or "open"
          cf_handles_,
          column_family_handles_,
          status,          \* the caller's rocksdb::Status
          fault            \* the destructor deleted a pointer that was never assigned

object == <<phase, names, init_success_, db_, cf_handles_,
            column_family_handles_, fault>>
external == <<families, rows, unreadable>>
dbVars == <<object, external, status>>

Elements(s) == {s[n] : n \in DOMAIN s}

Statuses == {"OK", "NotFound", "IOError", "InvalidArgument"}

(***************************************************************************)
(* Before the constructor runs.  The members have no initializer, so db_   *)
(* holds whatever the stack held.                                          *)
(***************************************************************************)
ObjectInit ==
  /\ phase = "raw"
  /\ names = << >>
  /\ init_success_ = FALSE
  /\ db_ = "garbage"
  /\ cf_handles_ = << >>
  /\ column_family_handles_ = << >>
  /\ status = "OK"
  /\ fault = FALSE

(***************************************************************************)
(* The constructor, in two steps because the node may change the manifest  *)
(* between the call that lists the families and the call that opens them.  *)
(* When the listing fails it returns before `db_ = nullptr'.               *)
(***************************************************************************)
ListColumnFamilies ==
  /\ phase = "raw"
  /\ init_success_' = FALSE
  /\ \/ /\ status' = "OK"
        /\ names' = families
        /\ phase' = "listed"
     \/ /\ status' = "IOError"
        /\ phase' = "built"
        /\ UNCHANGED names
  /\ UNCHANGED <<db_, cf_handles_, column_family_handles_, fault, external>>

\* BUG: the handles are in the order of the manifest when it is opened.
OpenInManifestOrder ==
  /\ phase = "listed"
  /\ Elements(names) \subseteq Elements(families)
  /\ phase' = "built"
  /\ status' = "OK"
  /\ db_' = "open"
  /\ cf_handles_' = SelectSeq(families, LAMBDA f : f \in Elements(names))
  /\ column_family_handles_' = [n \in Elements(names) |-> n]
  /\ init_success_' = TRUE
  /\ UNCHANGED <<names, fault, external>>

OpenForReadOnly ==
  /\ phase = "listed"
  /\ phase' = "built"
  /\ \/ /\ Elements(names) \subseteq Elements(families)
        /\ status' = "OK"
        /\ db_' = "open"
        /\ cf_handles_' = names
        /\ column_family_handles_' = [n \in Elements(names) |-> n]
        /\ init_success_' = TRUE
     \/ /\ status' \in IF Elements(names) \subseteq Elements(families)
                         THEN {"IOError"} ELSE {"InvalidArgument"}
        /\ db_' = nullptr
        /\ UNCHANGED <<cf_handles_, column_family_handles_, init_success_>>
  /\ UNCHANGED <<names, fault, external>>

(***************************************************************************)
(* The destructor.  Deleting a pointer that was never assigned is          *)
(* undefined: it goes unnoticed or it is a fault.                          *)
(***************************************************************************)
\* BUG: db_ is left dangling.
DestroyLeavesDb ==
  /\ phase = "built"
  /\ phase' = "gone"
  /\ init_success_' = FALSE
  /\ cf_handles_' = [n \in DOMAIN cf_handles_ |-> nullptr]
  /\ column_family_handles_' = [n \in DOMAIN column_family_handles_ |-> nullptr]
  /\ fault' \in IF db_ = "garbage" THEN BOOLEAN ELSE {FALSE}
  /\ UNCHANGED <<names, db_, status, external>>

Destroy ==
  /\ phase = "built"
  /\ phase' = "gone"
  /\ init_success_' = FALSE
  /\ cf_handles_' = [n \in DOMAIN cf_handles_ |-> nullptr]
  /\ column_family_handles_' = [n \in DOMAIN column_family_handles_ |-> nullptr]
  /\ fault' \in IF db_ = "garbage" THEN BOOLEAN ELSE {FALSE}
  /\ db_' = nullptr
  /\ UNCHANGED <<names, status, external>>

(***************************************************************************)
(* db_->Get on a handle of this database.                                  *)
(***************************************************************************)
GetStatus(cf, key) ==
  CASE key \notin DOMAIN rows[cf] -> "NotFound"
    [] key \in DOMAIN rows[cf] /\ <<cf, key>> \in unreadable -> "IOError"
    [] OTHER -> "OK"

(***************************************************************************)
(* ReadData(column_family_name, key, value, status).  Without a handle it  *)
(* returns false and leaves both out parameters as they were; a Get that   *)
(* fails leaves the value as it was.                                       *)
(***************************************************************************)
HasHandle(cf) == init_success_ /\ cf \in DOMAIN column_family_handles_

ReadReturns(cf, key) == HasHandle(cf) /\ GetStatus(cf, key) = "OK"

\* BUG: a call without a handle reports through the Status.
StatusAfterWritten(cf, key) == IF HasHandle(cf) THEN GetStatus(cf, key) ELSE "NotFound"

\* BUG: a key that is not there leaves the Status as it was.
StatusAfterFound(cf, key) ==
  IF HasHandle(cf) /\ GetStatus(cf, key) # "NotFound" THEN GetStatus(cf, key) ELSE status

StatusAfter(cf, key) == IF HasHandle(cf) THEN GetStatus(cf, key) ELSE status

ValueAfter(cf, key, value) ==
  IF ReadReturns(cf, key) THEN rows[cf][key] ELSE value

(***************************************************************************)
(* MultiReadData(keys, values, statuses): MultiGet reads keys[n] from      *)
(* cf_handles_[n] and leaves values[n] empty when it fails.  RocksDB       *)
(* requires one handle per key.                                            *)
(***************************************************************************)
MultiReadReturns(keys) ==
  init_success_ /\ \A n \in DOMAIN keys : GetStatus(cf_handles_[n], keys[n]) = "OK"

MultiReadValues(keys, values) ==
  IF init_success_
    THEN [n \in DOMAIN keys |->
            IF GetStatus(cf_handles_[n], keys[n]) = "OK"
              THEN rows[cf_handles_[n]][keys[n]] ELSE nullptr]
    ELSE values

MultiReadStatuses(keys, statuses) ==
  IF init_success_ THEN [n \in DOMAIN keys |-> GetStatus(cf_handles_[n], keys[n])]
                   ELSE statuses

-----------------------------------------------------------------------------
(***************************************************************************)
(* The node that owns the files: it may add or drop a column family and,   *)
(* by compacting, remove a table file a read-only instance still needs.    *)
(***************************************************************************)
NodeCreates(cf) ==
  /\ cf \notin Elements(families)
  /\ families' = Append(families, cf)
  /\ UNCHANGED <<object, rows, unreadable, status>>

NodeDrops(cf) ==
  /\ \E n \in DOMAIN families :
       /\ families[n] = cf
       /\ families' = SubSeq(families, 1, n - 1) \o SubSeq(families, n + 1, Len(families))
  /\ UNCHANGED <<object, rows, unreadable, status>>

NodeRemovesFile(cf, key) ==
  /\ key \in DOMAIN rows[cf]
  /\ <<cf, key>> \notin unreadable
  /\ unreadable' = unreadable \cup {<<cf, key>>}
  /\ UNCHANGED <<object, families, rows, status>>

-----------------------------------------------------------------------------
ObjectTypeOK ==
  /\ phase \in {"raw", "listed", "built", "gone"}
  /\ names \in Seq(ColumnFamilies)
  /\ init_success_ \in BOOLEAN
  /\ db_ \in {"garbage", nullptr, "open"}
  /\ cf_handles_ \in Seq(ColumnFamilies \cup {nullptr})
  /\ DOMAIN column_family_handles_ \subseteq ColumnFamilies
  /\ \A n \in DOMAIN column_family_handles_ :
       column_family_handles_[n] \in {n, nullptr}
  /\ status \in Statuses
  /\ fault \in BOOLEAN
  /\ phase = "gone" => /\ db_ = nullptr
                       /\ Elements(cf_handles_) \subseteq {nullptr}
=============================================================================
