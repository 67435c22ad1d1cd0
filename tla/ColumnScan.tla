----------------------------- MODULE ColumnScan -----------------------------
(***************************************************************************)
(* main.cpp: main_uncles, main_data_entry, main_entry and main_epoch_ext,  *)
(* which print every row of one column.  Each opens the database, copies   *)
(* the column into an unordered_map, and lets one object parse the values  *)
(* in whatever order the map has, without ever clearing it.                *)
(*                                                                         *)
(* The database object and the node are those of RocksDBClient.  The       *)
(* parsers are those of JsonParsers; they are a constant here, so that     *)
(* nothing is said of a document but which call it is the result of.       *)
(***************************************************************************)
EXTENDS RocksDBReadOnly, Integers, FiniteSets

CONSTANTS
  Keys, MaxChanges,      \* as in RocksDBClient
  Started,               \* the functions that may be called
  RowValues(_),          \* the values a row of a column of a class may have
  Families(_),           \* the manifests, given the scanner's column
  Empty,                 \* the value without bytes
  NoDocument,            \* the document of an object that has not parsed anything
  ParseFromByte(_, _, _) \* given the class, the document of the
                         \* object and the value, the verdict and the document

ASSUME KeysAreOrdered == Keys \subseteq Nat
ASSUME ChangesBound == MaxChanges \in Nat
ASSUME NullptrIsNoIterator == \A K \in SUBSET Keys : nullptr # K
ASSUME NullptrIsNoExitCode == nullptr \notin {0, -1, -2, -3}

VARIABLES value, ret, data, scanned, it, values, statuses, changes   \* of RocksDBClient

DB == INSTANCE RocksDBClient

VARIABLES
  scanner,    \* the function that runs
  pc,         \* "open", "scan", "rows", "return", "ended"
  left,       \* the keys of `data' the loop has not come to
  json,       \* the document of the one object
  output,     \* the lines printed: a key, or a document
  exit_code

client == <<value, ret, data, scanned, it, values, statuses>>
scan == <<scanner, pc, left, json, output, exit_code>>
vars == <<dbVars, client, changes, scan>>

(***************************************************************************)
(* What distinguishes the four functions.                                  *)
(***************************************************************************)
Scanners ==
  [main_uncles |->
     [column |-> "11", class |-> "HeaderView", skips |-> TRUE, rejected |-> -3],
   main_data_entry |->
     [column |-> "12", class |-> "CellDataEntry", skips |-> TRUE, rejected |-> -3],
   main_entry |->
     [column |-> "10", class |-> "CellEntry", skips |-> FALSE, rejected |-> -3],
   main_epoch_ext |->
     [column |-> "9", class |-> "EpochExt", skips |-> FALSE, rejected |-> -2]]

ASSUME StartedAssumption == Started \subseteq DOMAIN Scanners
ASSUME FamiliesAssumption ==
  \A f \in Started : /\ Scanners[f].column \in ColumnFamilies
                     /\ Families(Scanners[f].column) \subseteq Seq(ColumnFamilies)

(* An object that has parsed one value parses the next as a new object does. *)
ASSUME ParserOverwrites ==
  \A f \in Started : \A first, next \in RowValues(Scanners[f].class) :
    LET class == Scanners[f].class
        before == ParseFromByte(class, NoDocument, first)
        again == ParseFromByte(class, before.json, next)
        alone == ParseFromByte(class, NoDocument, next)
    IN  before.verdict = "accepted" =>
          /\ again.verdict = alone.verdict
          /\ alone.verdict = "accepted" => again.json = alone.json

S == Scanners[scanner]

KeyLine(k) == [line |-> "key", key |-> k]
DocumentLine(doc) == [line |-> "document", document |-> doc]

Init ==
  /\ ObjectInit
  /\ scanner \in Started
  /\ families \in Families(S.column)
  /\ \E stored \in SUBSET Keys : \E content \in [stored -> RowValues(S.class)] :
       rows = [cf \in ColumnFamilies |-> IF cf = S.column THEN content ELSE << >>]
  /\ unreadable = {}
  /\ value = nullptr /\ ret = FALSE /\ data = << >> /\ scanned = nullptr /\ it = nullptr
  /\ values = << >> /\ statuses = << >> /\ changes = 0
  /\ pc = "open"
  /\ left = {}
  /\ json = NoDocument
  /\ output = << >>
  /\ exit_code = nullptr

Exit(code) ==
  /\ pc' = "return"
  /\ exit_code' = code

Open ==
  /\ pc = "open"
  /\ DB!Construct
  /\ UNCHANGED scan

\* BUG: the Status of the constructor is not looked at.
CheckStatusNever ==
  /\ pc = "open" /\ phase = "built"
  /\ pc' = "scan"
  /\ DB!GetAllData(S.column)
  /\ UNCHANGED <<scanner, left, json, output, exit_code>>

CheckStatus ==
  /\ pc = "open" /\ phase = "built"
  /\ \/ status # "OK" /\ Exit(-1) /\ UNCHANGED <<dbVars, client, changes>>
     \/ status = "OK" /\ pc' = "scan" /\ DB!GetAllData(S.column) /\ UNCHANGED exit_code
  /\ UNCHANGED <<scanner, left, json, output>>

Iterate ==
  /\ pc = "scan"
  /\ DB!IteratorNext \/ DB!IteratorEnd
  /\ UNCHANGED scan

CheckResult ==
  /\ pc = "scan" /\ it = nullptr
  /\ \/ ~ret /\ Exit(-2) /\ UNCHANGED left
     \/ ret /\ pc' = "rows" /\ left' = DOMAIN data /\ UNCHANGED exit_code
  /\ UNCHANGED <<dbVars, client, changes, scanner, json, output>>

(***************************************************************************)
(* One turn of the loop.  Two of the functions pass over an empty value;   *)
(* the others print the key before they parse, so that it is printed also  *)
(* where the parser rejects the value.                                     *)
(***************************************************************************)
Skip(k) ==
  /\ pc = "rows" /\ k \in left
  /\ S.skips /\ data[k] = Empty
  /\ left' = left \ {k}
  /\ UNCHANGED <<dbVars, client, changes, scanner, pc, json, output, exit_code>>

\* BUG: the document is printed whether or not the value was accepted.
ShowAlways(k) ==
  /\ pc = "rows" /\ k \in left
  /\ ~(S.skips /\ data[k] = Empty)
  /\ LET result == ParseFromByte(S.class, json, data[k])
     IN  /\ json' = result.json
         /\ output' = output \o <<KeyLine(k), DocumentLine(json')>>
  /\ left' = left \ {k}
  /\ UNCHANGED <<dbVars, client, changes, scanner, pc, exit_code>>

\* BUG: a value that is rejected is passed over.
ShowOrPass(k) ==
  /\ pc = "rows" /\ k \in left
  /\ ~(S.skips /\ data[k] = Empty)
  /\ LET result == ParseFromByte(S.class, json, data[k])
     IN  /\ json' = result.json
         /\ output' = IF result.verdict = "accepted"
                       THEN output \o <<KeyLine(k), DocumentLine(json')>> ELSE output
  /\ left' = left \ {k}
  /\ UNCHANGED <<dbVars, client, changes, scanner, pc, exit_code>>

ShowRow(k) ==
  /\ pc = "rows" /\ k \in left
  /\ ~(S.skips /\ data[k] = Empty)
  /\ LET result == ParseFromByte(S.class, json, data[k])
     IN  /\ json' = result.json
         /\ \/ /\ result.verdict = "accepted"
               /\ output' = output \o <<KeyLine(k), DocumentLine(json')>>
               /\ left' = left \ {k}
               /\ UNCHANGED <<pc, exit_code>>
            \/ /\ result.verdict # "accepted"
               /\ output' = IF S.skips THEN output ELSE Append(output, KeyLine(k))
               /\ Exit(S.rejected)
               /\ UNCHANGED left
  /\ UNCHANGED <<dbVars, client, changes, scanner>>

Finish ==
  /\ pc = "rows" /\ left = {}
  /\ Exit(0)
  /\ UNCHANGED <<dbVars, client, changes, scanner, left, json, output>>

Return ==
  /\ pc = "return"
  /\ DB!Delete
  /\ pc' = "ended"
  /\ UNCHANGED <<scanner, left, json, output, exit_code>>

Step ==
  \/ Open
  \/ CheckStatus
  \/ Iterate
  \/ CheckResult
  \/ \E k \in left : Skip(k) \/ ShowRow(k)
  \/ Finish
  \/ Return

NodeStep == DB!NodeStep /\ pc # "ended" /\ UNCHANGED scan

(* The program stays where it ended: to stop anywhere else is a deadlock.    *)
Ended == pc = "ended" /\ UNCHANGED vars

Next == Step \/ NodeStep \/ Ended

Spec == Init /\ [][Next]_vars

-----------------------------------------------------------------------------
Documents == {n \in DOMAIN output : output[n].line = "document"}

(* The variables have the values the declarations promise.                   *)
TypeOK ==
  /\ ObjectTypeOK
  /\ pc \in {"open", "scan", "rows", "return", "ended"}
  /\ left \subseteq DOMAIN data
  /\ exit_code \in {nullptr, 0, -1, -2, -3}
  /\ pc \in {"return", "ended"} <=> exit_code # nullptr
  /\ \A n \in DOMAIN output : output[n].line = IF n % 2 = 1 THEN "key" ELSE "document"

(* The lines alternate, a key first; below a key stands the document a new   *)
(* object would make of that row's value, though the object has parsed other *)
(* rows before and no Clear is ever called on it; no row is printed twice.   *)
OwnDocument ==
  /\ TypeOK
  /\ \A n \in Documents :
       LET row == rows[S.column][output[n - 1].key]
       IN  /\ ParseFromByte(S.class, NoDocument, row).verdict = "accepted"
           /\ output[n].document = ParseFromByte(S.class, NoDocument, row).json
  /\ \A m, n \in Documents : output[m - 1].key = output[n - 1].key => m = n

(* Exit code 0 means that every row with a value is printed, unless the node *)
(* removed a file the scan needed: the iterator's Status is read but not     *)
(* returned.                                                                 *)
ZeroMeansComplete ==
  exit_code = 0 =>
    \A k \in DOMAIN rows[S.column] :
      \/ \E n \in Documents : output[n - 1].key = k
      \/ S.skips /\ rows[S.column][k] = Empty
      \/ \E j \in DOMAIN rows[S.column] : j <= k /\ <<S.column, j>> \in unreadable

(* What an exit code says: -1 that the constructor failed, -2 that there is  *)
(* no such column, which main_epoch_ext also says of a row that its parser   *)
(* rejects, and -3 that there is such a row; it is the last one looked at.   *)
ExitCodeExplains ==
  LET rejected == \E k \in left : ParseFromByte(S.class, NoDocument, data[k]).verdict # "accepted"
  IN  /\ exit_code = -1 => ~init_success_ /\ status # "OK" /\ output = << >>
      /\ exit_code = -2 /\ S.rejected # -2 =>
           S.column \notin Elements(names) /\ output = << >>
      /\ exit_code = -2 /\ S.rejected = -2 => rejected \/ S.column \notin Elements(names)
      /\ exit_code = -3 => rejected
      /\ Len(output) % 2 = 1 => ~S.skips /\ exit_code \in {nullptr, S.rejected}
=============================================================================
