# Verification of parse_ckb_db

parse_ckb_db opens the RocksDB directory of a CKB node read-only and writes, for
every height of a range given on its command line, one file `<height>.txt` with a
JSON document made of the rows of a dozen columns. This directory holds TLA+
models of the program, the TLC configurations that check them on small instances,
and theorems about them whose proofs TLAPS checks for every value of the constants.
Paths such as `main.cpp:214` are relative to `src/`.

1. [The system](#1-the-system): components, interactions, what is hard
2. [The modules](#2-the-modules): which models what, and how
3. [The runs](#3-the-runs): what each checks, its bounds, why they are enough
4. [Fairness](#4-fairness)
5. [The proofs](#5-the-proofs)
6. [Only model-checked](#6-only-model-checked)
7. [Findings](#7-findings) and observations
8. [Not modelled](#8-not-modelled)
9. [Plan](#9-plan)

Inside this directory: `tlc -config MCFaults.cfg MCBlockExport` checks a run,
`tlapm BlockExport_proofs.tla` the proofs of a module.

---

## 1. The system

### 1.1 Components

| component | source | state | operations |
|---|---|---|---|
| database object | `db/rocksdb_read_only.*` | `init_success_`, `db_`, `cf_handles_`, `column_family_handles_`; the caller's `Status` | constructor (list, then open), destructor, `ReadData`, `MultiReadData`, `GetAllDataByColumnFamily` |
| block export | `main.cpp` `main()` | the locals of main: `height`, `hash_bytes`, `value`, the parser objects, `block`, `json`, `tx_infos`; the files | one loop over heights; per height ten reads, some in inner loops, then a write |
| column scanners | `main.cpp:27-137` | none beyond the call | four alternative entry points that print one column; nothing calls them |
| Molecule reader | `molecule/generated/molecule_reader.h` and the `MolReader_*` of `blockchain.h`, `extensions.h`, `protocols.h` | none (functions of a byte buffer) | `_verify`, `_get_*`, `_length`, `_get`, `_unpack` for 95 types |
| Molecule builder | `molecule/generated/molecule_builder.h` and the `MolBuilder_*` of the three headers | `mol_builder_t`: two blocks of memory with capacity and fill | `_init`, `_set`, `_push`, `_add`, `_build`, `_clear` |
| JSON parsers | `molecule/blockchain.*` | each parser's `json`, which outlives a parse | 25 `ParseFromByte`: verify a value, call getters, fill `json` |
| singletons | `utils/magicsingleton.hpp`, `utils/singleton.hpp` | a static `shared_ptr`, a mutex | `GetInstance`, `DesInstance`; unused |
| logging | `log/logging.*` | the sink, the handlers of two signals | `LogInit`, the macros, `LogFini`, error handler, crash handler; never initialised by main |
| helpers | `utils/crypto_utils.*`, `utils/net_utils.*` | none | hex, base58, hashes, addresses; only the hex pair is used |
| dependency build | `make_depend.sh`, `CMakeLists.txt` | directories on disk | unpack, configure and make each library unless its directory is there |
| test runner | `test/main.cpp` | none | starts GoogleTest; holds no test |

`PROJECT.json` gives every one of them a status.

### 1.2 Interactions

```
 CKB node ──(manifest, table files)──► RocksDB ──► RocksDBReadOnly ──► main() ──► <height>.txt
    │                                   external        │ Status,        │
    └─ builds values (MolBuilder_*)                     │ value          ├─► JSON parsers ─► MolReader_*_verify, _get
                                                        └────────────────┘
```

* main and the database object share two out parameters, `status` and `value`.
  `ReadData` leaves **both as they were** when the column is not mapped
  (`rocksdb_read_only.cpp:115-127`), and leaves `value` alone when `Get` fails. main
  looks at the return value for the mandatory reads and at `status` for the optional
  ones (columns 15, 5, 10, 12, 6), so it can act on another read's result.
* main and the node share the directory. The node may add or drop a column family
  between the list and the open of the constructor, and may compact away a table
  file at any time, since a read-only instance pins nothing.
* main and the parsers share the parsers' `json`, cleared at the start of a parse
  but not reset, and main keeps parser objects and `block` across heights.
* the parsers call a verifier and then getters that check nothing themselves. Three
  of them read offsets before they verify.

* the scanners use the same object and the same parsers, a whole column at a time, and
  never clear the parser object they use for all rows.
* threads of a program that uses them would share `instance_` of MagicSingleton, whose
  reads and copies are outside its lock, and the logger's sink, whose mutex the crash
  handler may find held by its own thread.
* one configuration run leaves directories to the next (`make_depend.sh`).

The tool has one thread; what interleaves with it is the node. Singletons and logging
are written for several threads and are modelled with several.

### 1.3 What is hard to get right, and hard to test

All of it is listed under `hazards` in `PROJECT.json`, each at its line; in groups:

* **State that outlives a height, an item or a row**: `block`, `value`, `status`,
  parser objects and their documents (`main.cpp:155-239`, `main.cpp:47`,
  `blockchain.cpp:283`).
* **The node between two steps**: the listing and the open; two reads of one block; two
  rows of a scan.
* **Partial failure**: one read of a height fails after others were assembled; the
  iterator of a scan fails in mid-column and the scanner reports 0; the file stream
  fails; the constructor returns before `db_` is assigned and the destructor runs all
  the same; a nested parser fails after its document was begun; a constructor throws
  under the singleton's lock; `realloc` returns NULL.
* **Numbers**: the vector size that wraps around 2^32, the capacity that doubles to 0;
  offsets that come from the value itself; `tx_index` in host byte order in a cell key;
  the range.
* **Order of checks**: a vector hands items to their verifier before it knows that the
  last one ends within the value, and that verifier reads there; views that slice by the value's own offsets before
  anything is verified; getters that rely on an earlier verify with the same type and
  the same idea of unknown fields; a `Script` verified strictly inside lenient tables.
* **Builder memory**: two blocks that double independently; fields of a table added
  in any order, twice, or not at all.
* **Threads**: a `shared_ptr` seen half written; a crash while the crashed thread, or
  another one, holds the sink's mutex or prints its trace.
* **Restart**: what an interrupted configuration leaves is taken for complete.

### 1.4 What makes each component correct

* *database object*: reads go through only while `db_` is open and every name maps to
  its own handle; the undefined delete happens only behind a reported failure; a scan
  gives a beginning of the column; a stale OK only where there is no column.
* *block export*: every member of a document comes from its own block; nothing is
  lost or repeated; an exit code names what failed at the height where the run
  stopped; heights are dealt with in order and once; the run ends.
* *column scanners*: below a key stands the document of that row, whatever order the
  rows come in; exit code 0 means that all rows were printed.
* *Molecule reader*: a value whose verifier, or that of one of its items, read a number
  outside it is turned down; what a getter returns is what the verifier checked; a
  verifier says yes exactly to well-formed values.
* *Molecule builder*: nothing is written behind a block; what is built verifies and
  reads back as what was asked for, also as an older version of the type.
* *JSON parsers*: a value the node stored is accepted, and its document shows the fields
  of the value under their names and nothing of an earlier value. Three members show
  something else ([Findings](#7-findings)).
* *singletons*: one object, made once; who was returned it has it until it lets go.
* *logging*: a record whose macro returned is in the file; a crash leaves its trace
  there and ends the process, which a crash inside the sink does not
  ([Findings](#7-findings)).
* *dependency build*: what a run leaves behind, a later one takes for what it is.

---

## 2. The modules

```
RocksDBReadOnly ─┬─ RocksDBClient ──┬─ MCRocksDBClient
                 │       ▲          └─ RocksDBClient_proofs ◄─INSTANCE─┐
                 ├───────┴─INSTANCE── ColumnScan ─┬─ ColumnScan_proofs ┘
                 │                  JsonParsers ──┴─ MCColumnScan
                 └─ BlockExport ─ BlockExportProperties ─┬─ MCBlockExport
                              ExportRange ◄──INSTANCE────┤
                                                         └─ BlockExport_proofs
MoleculeReader ──┬─ MoleculeVerify ─┬─ MCMoleculeVerify
                 │                  └─ MoleculeVerify_proofs
                 └─ MoleculeTypes ──┬─ MoleculeSchema ─ BlockchainTypes ─ ExtensionTypes ─ ProtocolTypes ─┐
                                    │                         JsonParsers ◄──────┘                       │
                                    │                            └─ ParserObject ─ MCParserObject        │
                                    └─ MoleculeBuilder ─┬────────────────────────────────────────────────┴─ MCMoleculeBuilder
                                    BuilderMemory ──────┴─ MoleculeBuilder_proofs and MCMoleculeBuilder
MagicSingleton ─┬─ MCMagicSingleton
                └─ MagicSingleton_proofs
Logging ─┬─ MCLogging                    MakeDepend ─┬─ MCMakeDepend
         └─ Logging_proofs                           └─ MakeDepend_proofs
```

**RocksDBReadOnly** — `db/rocksdb_read_only.cpp`. The members of the object, with
the values that uninitialised storage may have (`db_ = "garbage"`). The constructor
is two actions, `ListColumnFamilies` and `OpenForReadOnly`, since the node may act in
between; its early returns are their disjuncts. The read functions are operators
(`ReadReturns`, `StatusAfter`, `ValueAfter`, …) for what they return and what they
leave in the out parameters, because the out parameters belong to the caller. RocksDB
is external: `families` is the manifest, `rows` the contents, `unreadable` the rows
whose table file is gone. The node's three actions are external too.

**RocksDBClient** — the most general client: any calls in any order, the node between
any two steps. `GetAllDataByColumnFamily` is one step per row (`GetAllData`,
`IteratorNext`, `IteratorEnd`), because the scan of a column of a real node takes long
and the node may remove a file meanwhile.

**BlockExport** — `main()`, with the object of RocksDBReadOnly on its stack. `pc` is
the column about to be read; there is one action per read, together with all that
main does up to the next one (`ReadIndex`, `ReadHeader`, `ReadUncles`, `ReadCount`,
`ReadBody`, `BodyDone`, `ReadProposals`, `ReadExtension`, `ReadInfo`, `ReadEntry`,
`ReadDataEntry`, `ReadBlockExt`, `WriteFile`, `Exit`), so that the node can act between
any two reads. A stored value is a record `[id, as, data]`: the place it is stored
at, the columns whose type its bytes verify as, and what main takes out of it. `as` is
a set because stale bytes of one column may parse as another's type (52 bytes of
extension data have the size of a `TransactionInfo`). A document names the places its
parts come from, which is what the properties compare. Keys are sequences of numbers;
`ByteSwap32` is what the missing `htobe32` at `main.cpp:246` does to the index. A
value that does not verify may make the parsers of columns 1, 2 and 3 return false or
abort (`Reject`), as they use its offsets first. A failing `ofstream` leaves a damaged
file (`Null`) and, as in the code, changes nothing else.

**BlockExportProperties** — what makes the files correct; shared by the runs and the
proofs.

**ExportRange** — the abstract specification: a range of heights is dealt with from
the lowest up, one file each, no file touched again, until all are done or the run
gives up; the report at the end tells which, and the end comes (`Ends`). BlockExport
implements it with `range` ← the heights asked for, `written` ← `files`, `outcome` ←
from `pc` and `exit_code`.

**ColumnScan** — `main_uncles`, `main_data_entry`, `main_entry` and `main_epoch_ext`,
which differ in what the table `Scanners` says: the column, the class, whether an empty
value is passed over, and the exit code for a value that is rejected. The database
object and the scan are RocksDBClient's actions by INSTANCE, the rows come in any order
(`unordered_map`). `ParseFromByte` is a constant, so that proofs do not meet the recursion
of the parsers: in the run it is JsonParsers' `Parse`, on real bytes.

**MoleculeReader** — numbers, `mol_fixvec_verify`, lengths and getters, on bytes.
Only the number of values of a byte is a parameter (`Byte`, 256 in the code): the
layout and the modular arithmetic are the code's, and a small `Byte` lets TLC
enumerate all values and lets sizes wrap around. The predicates on the head of a vector or
table (`Count`, `Offset`, `End`, `HeadFits`, `NoItems`) are here too, since both the
step-by-step verifiers and the types use them.

**MoleculeVerify** — a value is verified and then read. The generated verifiers are
copies of three algorithms (vector of fixed items, vector of any items, table), which
are taken apart step by step, every read of a number recorded in `reads` and every
segment handed to an inner verifier in `checked`. The inner verifier may answer
anything, and begins by reading a number where its segment begins if that is long enough
and its type has one there (`InnerReads`): it does so also when the segment lies outside
the value, which the vector finds out only afterwards (`blockchain.h:746-763`). What it
reads further on is what the module says of the segment as a value.

**MoleculeTypes** — the type constructors, and for each kind of type what the verifier and
the getters do with a value themselves: what is compared (`HeadVerifies`), which parts are
handed on to the verifiers of which types (`Parts`), what the getters return (`Contents`),
and how a vector or table is written (`Framed`, `Ends`, `Starts`). There is no recursion in
it, so that theorems can be proved about it.

**MoleculeSchema** — types within types: what the verifier of a type accepts (`Verifies`),
and its default (`Default`). **BlockchainTypes**, **ExtensionTypes**, **ProtocolTypes** list
the 95 types of the three headers from their `MolDefault_*` arrays, slice offsets, union
items and field order. The builders repeat the size of a field's default as a literal in
three places (`blockchain.h:1555-1603`); the one definition `DefaultSize`, computed from the
default itself, stands for all three. The literals of the three headers agree with it
everywhere, but nothing here would notice one that does not.

**MoleculeBuilder** — a client fills a builder by any calls in any order and builds a
value. `builder.data`/`data_cap` and `builder.number`/`number_cap` are the two blocks;
`asked` is the history of what the client wanted last. The value is then verified and
read by the predicates of MoleculeTypes. The schema, the defaults and their sizes, the
verifiers of fields and items (`Accepts`) and what a client has for them (`Values`) are
constants: in the run the 95 types, the arrays of the headers and `Verifies`; in the proofs
any that satisfy `SchemaAssumption` and `ValuesAssumption`. `Counted` bounds every
size by half of what a `mol_num_t` counts.

**BuilderMemory** — one of these blocks, below the functions: a turn of the doubling
loop is a step, capacities are `mol_num_t`s and wrap around, `malloc` and `realloc` may
return NULL, which nobody looks at, and a `realloc` of no bytes frees. `kept` is how
much of what the client pushed still lies in the block. MoleculeBuilder is what the
functions do while none of that happens.

**JsonParsers** — the 25 parsers of `blockchain.cpp` as records: the type that is
verified, leniently or `Strictly`; the members in the order they are set, how each is
converted, and whether an empty or rejected field is left out; for `View`s, the words
that are used as offsets before anything is verified. `Parse` is what all of them do
with that: the order of `Clear`, verify, set and early return. Documents are
nlohmann's: `push_back` makes an array of null, and `clear()` keeps the kind.

**ParserObject** — an object of one of the classes of `blockchain.h`, and calls on it in
any order. What its document should say (`Fields`, `Shows`) is written down from the
`.mol` files, not from the parsers. Where the two differ the module says so: `number` of a
CellEntry goes by `block_number` in `extensions.mol`, `hash` of an uncles document is the
view's vector `hashes` as it is stored, and three members show the wrong bytes
([Findings](#7-findings)). Those three are left out of `Shows` and `ShowsView`.

**MagicSingleton** — threads in `GetInstance` and their callers. `instance_` is two
words, `instance_ptr` and `instance_count`, written one after the other (`StorePtr`,
`StoreCount`) while others look at and copy them without the lock (`Look`, `CopyPtr`,
`CopyCount`). The use count is atomic (`Drop`). `DesInstance` runs only while no other
call does; at the same time as one it is a race of which nothing can be said.

**Logging** — `LogInit`, threads that log, and `SystemErrorHandler`, which runs on the
stack of the thread that crashed wherever that was, and logs. The sink is spdlog's:
write and flush, each under a mutex that is not recursive. The program may be ended in
any thread's own code (`Exit`) and is ended by the error handler (`WriteFails`), at
whatever place of the sink the other threads are: `g_sink` is static, so its file is
closed and what was buffered is written (`Leave`).

**MakeDepend** — `make_depend.sh` in steps: for each library the `[ -d ]`, the unpacking,
the `mv`, the build, with a `Kill` between any two and the next run on what it left.

Operators marked `\* BUG:` are mutated forms of the definition that follows them; they
take part in no specification and exist so that each property can be seen to fail on
a plausible mistake.

---

## 3. The runs

Each passing run finishes in about three minutes or less with two workers. `CHECK_DEADLOCK`
is off where the systems really stop: main returns, a client may have deleted its
object, a value ends verified, failed or built, a process is killed. It is on in
`scanners`, where a scanner that stops anywhere but at its end is a deadlock.

| run | model, cfg | distinct states | properties |
|---|---|---|---|
| `client` | MCRocksDBClient | 427 244 | TypeOK, UsableMeansOpen, FaultWasReported, ScanIsPrefix, StaleOKOnlyForMissingColumn |
| `faults` | MCBlockExport, MCFaults | 1 339 619 | TypeOK, OwnBlockData, NoTransactionLostOrRepeated, InfoIsOwnAndComplete, OnlyFirstCell, ExitCodeExplains |
| `columns` | MCBlockExport, MCColumns | 424 632 | OptionalDataIsOfThisBlock, ExtensionSource, FaultOnlyInFailedRun, ImplementsExportRange |
| `scanners` | MCColumnScan | 64 090 | OwnDocument, ZeroMeansComplete, ExitCodeExplains |
| `verify` | MCMoleculeVerify | 200 006 | OverrunsAreRejected, VerifiedWithoutGaps, GetterReturnsVerified, VerifierAgrees |
| `builder` | MCMoleculeBuilder | 69 975 | UsedIsAllocated, ReadsBack, VersionsInterwork, CutOrLongerIsRejected, MemoryIsSound, PushEnds |
| `parsers` | MCParserObject | 4 413 | AcceptsKnownVersions, DocumentShowsContents, RejectedLeavesNothing |
| `singleton` | MCMagicSingleton | 147 615 | OneObject, ReturnsTheObject, SharesKeepAlive, CallsEnd |
| `logging` | MCLogging | 125 082 | LogSurvives, CrashEnds |
| `make_depend` | MCMakeDepend | 1 218 432 | PartialOnlyInPlace, RunRepairsTheRest |
| `own_transactions` | MCBlockExport, MCOwnTransactions | violation | BlockHasOwnTransactions |
| `crash_printed` | MCLogging, MCCrashPrinted | violation | CrashIsPrinted |

A property that is the conjunction of several named ones is checked as one; the type
invariant is a conjunct of another property where it has no line of its own.

**client.** Two column families with two keys each, every manifest order and every
subset of rows, and at most two changes by the node (`MaxChanges`), with symmetry over
the families. Two changes are enough to drop one family and create another between the
listing and the open, which is what could misalign names and handles, and to remove
both rows of a column during a scan. It shows what a client may rely on:
the handle found under a name is that family's; a destructor that deletes the
unassigned pointer was announced by an `IOError`; a scan cut short (which the code
reports as complete) is still a prefix, cut at an unreadable row; a client that goes
by the `Status`, as main does, is misled only where the column does not exist.

**faults.** Two blocks (`Last = 1`) of zero to two transactions, each combination with
one row of any column gone or malformed (`MaxFaults = 1`), and a node that removes one
more file at any time (`MaxRemovals = 1`). One fault reaches every early return of the
loop body at the first and at the second height, and main stops there; the removal adds
the case in which an optional row goes missing between two reads of a block, alone or
next to a fault. Two transactions make the inner loops run zero, one and several times.
Block 0 has a proposal and block 1 has one or none (`MinProposals`, `MaxProposals`), so
that the first block's would be seen in the second.
It shows that the documents consist of rows of the right blocks and that an exit code,
the files and the height where the run stopped agree.

**columns.** Three blocks (`Last = 2`) of up to one transaction. A database may lack any
one of the columns; the command line is a range, a reversed or empty range, an argument
that is no number, or too short; the constructor may fail at either step; up to two
rows of columns 5 and 15 are gone or malformed. Stale `value` and `status` matter only in
missing columns, and one missing column exercises each of main's reads in that
situation; three heights are needed for "at h, not at h+1, not at h+2", in which
something of an earlier height appears later. It shows that a stale value is never
another block's, that the extension is that of the latest height that has one, and that
the run implements ExportRange, safety and end.

**scanners.** Columns of up to two rows, each one of two good values, an empty one, one
cut by a byte and, for cells, one whose lock script is of a newer version; three
manifests, one change by the node. Two rows are what it takes to see one of them through
an object that parsed the other, in both orders, and a scan that breaks off between
them. It shows that a key is followed by its own row's document; that 0 means complete
but for a scan that the node cut short; what each exit code says; and that a scanner
gets stuck nowhere.

**verify.** Bytes of three values (numbers up to 80), all values of up to five bytes,
and values that begin with four numbers (a total size and three offsets, each right or
wrong in several ways) and up to three more bytes; vectors of items of one and two
bytes, vectors of any items, tables of zero to three fields; strict and compatible.
Three offsets let an offset be too small, equal, decreasing, beyond the end and
misaligned, first, in the middle and last, and an item lie past the value's end. It shows
that a verifier that reads outside the value does so only at an item it was sent to, and
that such a value is turned down. `VerifierAgrees` ties the step-by-step
verifier to the predicates of which the one of the builder, parser and scanner runs is made:
neither stronger nor weaker.

**builder.** All 95 types, initial capacities 4 and 16, and up to three calls with the
default or another value of each field's type. Three calls are what it takes to add a
field, another one and the first again, and to push items across a doubling; the
capacities make a block grow by none, one and several doublings. `Byte = 200`, because a
number of four bytes of 256 values exceeds the integers TLC counts with; nothing depends
on it. TLC also
evaluates here the assumptions of the proofs, for every type of the headers. The run shows that
every generated type verifies and reads what was built for it, that
a value of a newer version of a type (BlockV1, CompactBlockV1) is read by the older one
and not the other way round, and that a truncated or prolonged value is rejected.

The same run has BuilderMemory beside MoleculeBuilder: the two are models of the same
functions at two levels and share no state, and in a behaviour one goes on while the other
rests where it starts (`MCSpec`). Numbers have four bits there (`Half = 8`), items any
length, capacities double to 0 (1, 4), to less than they were (11) and past their half
without (3), and any call of `malloc` and `realloc` may fail. It shows that up to items of half of what a
`mol_num_t` counts nothing is written beyond the block, that nothing is lost while the
memory lasts, and that the loop ends; all three fail beyond that size.

**parsers.** An object of each of the 25 classes, up to three calls, with the default
value, two in which every byte and option differs, an empty one, one cut by a byte, one
cut to ten, one a byte longer, and every value in which one table, at any depth, has a
field more. Three calls are what it takes to parse one value, reject another and parse a
third. It shows that a stored value is accepted unless it has a script or view of a
newer version; that its document shows the value, every field under its own name, except
for three members of which nothing is claimed, as they contradict the `.mol` files
([Findings](#7-findings)); and what a rejection leaves behind.

**singleton.** Three threads, two calls each; as many objects as calls could make, so
that `make_shared` never runs short. Two threads race for the first look, and a third
one copies half of what they write. Two calls of each let a thread destroy what it was
returned before, and call again after that. It shows that one object is made however the
looks and the lock fall, that the half-written copy is harmless as long as nobody calls
`DesInstance`, and what `DesInstance` takes from whom.

**logging.** Two threads that log up to two records, crash up to twice (in their own code
or holding the sink's mutex), and print a trace of two lines each; a file that does not
open, a write that fails; either thread may end the program at any place of its own code,
while the other is anywhere in the sink or in its handler. Two crashes are one in each
thread, or one in the handler of the other. It shows that a record whose macro returned
is in the file whatever happens, that a process that dies of its only crash has its whole
trace there, and that a crash outside the sink ends the process. What a crash inside the
sink does is the run `crash_printed`.

**make_depend.** Three runs of the script, one archive missing, any archive broken, any
build failing, killed anywhere. Three runs are one that breaks off, one that makes up
for it and breaks off elsewhere, and one that comes to its end. It shows which
interruptions a later run makes up for, and that the others leave a mark the property
names.

**own_transactions** and **crash_printed** each state one thing the repository says, which
what the code does refutes; see [Findings](#7-findings). `own_transactions` has all rows in
place, so that nothing but the reused `block` can be the cause. `crash_printed` has one crash,
as a second may cut the trace of the first, and counts an end of the program by `exit` as
fulfilled.

Every property of a passing run has a mutant under `mutants`: a changed definition of
the model, in the way the code could plausibly be wrong, on which the run's own
configuration reports the property violated.

---

## 4. Fairness

* **BlockExport** has `WF_vars(Main)`: main is one sequential thread that waits for
  nobody; every call it makes (RocksDB, the file system) returns, so as long as it has
  not ended it takes another step. The node's actions have none: it may never do
  anything. That main implements ExportRange's `Ends` then is a fact about its loops: the
  heights, the count in column 13 and the transactions are finite.
* **BuilderMemory** has `WF_memory(Double \/ StoreItem)`: a push that has begun goes on. A
  client need not push.
* **MagicSingleton** and **Logging** have weak fairness of each thread's next step inside
  a call: the scheduler runs a thread that can run. It is weak because a mutex promises
  no order among those who wait; the properties hold all the same because the calls are
  bounded and the lock is let go of. Nobody has to call, to release, to log, to crash or to
  end the program.
* The others have none. RocksDBClient, MoleculeVerify, MoleculeBuilder, ParserObject: a
  client may stop. MakeDepend: a run may be killed. ColumnScan: that a scanner comes to
  its end follows from the deadlock check, since each of its steps moves it on and the
  node's changes are bounded.

---

## 5. The proofs

Forty-one theorems. They hold for every set of databases, manifests, command lines,
values, types, schemas, calls, widths of numbers, archives and numbers of threads that satisfies the named
assumptions, with no bound on heights, transactions, what the node does, records, crashes or runs.

| theorem | property | argument |
|---|---|---|
| `ClientTypeAlwaysOK` | TypeOK of RocksDBClient | with `UsableMeansOpen` and `ScanInv` |
| `UsableAlwaysOpen` | UsableMeansOpen | inductive as it stands |
| `FaultAlwaysReported` | FaultWasReported | `GarbageInv` |
| `ScanAlwaysPrefix` | ScanIsPrefix | `ScanInv` |
| `MultiReadAlwaysInListedOrder` | MultiReadByListedOrder | `MultiReadInv` |
| `ScanAlwaysEndsAtUnreadable` | ScanEndsAtUnreadable | `ScanInv` |
| `StaleOKAlwaysForMissingColumn` | StaleOKOnlyForMissingColumn | `UsableMeansOpen` |
| `ExportTypeAlwaysOK` | TypeOK of BlockExport | `TypeInv` |
| `OwnBlockDataAlways` | OwnBlockData | `OwnInv` |
| `FaultOnlyInFailedRunAlways` | FaultOnlyInFailedRun | `FaultInv` |
| `ExportsInOrder` | safety part of ImplementsExportRange | `ProgressInv` |
| `WrittenOnceAlways` | WrittenOnce | `ProgressInv` |
| `NoTransactionLostOrRepeatedAlways` | NoTransactionLostOrRepeated | `BaseInv`, `CountInv`, `TransactionsInv` |
| `ExtensionSourceAlways` | ExtensionSource | `BaseInv`, `ExtensionInv` |
| `OptionalDataIsOfThisBlockAlways` | OptionalDataIsOfThisBlock | `BaseInv`, `CountInv`, `OptionalInv` |
| `InfoIsOwnAndCompleteAlways` | InfoIsOwnAndComplete | these and `InfoInv` |
| `OnlyFirstCellAlways` | OnlyFirstCell | `BaseInv`, `CountInv`, `OptionalInv`, `CellsInv`; `SmallBlocks` |
| `ExitCodeExplainsAlways` | ExitCodeExplains | `BaseInv`, `CountInv` |
| `AlwaysOwnDocument` | OwnDocument | `ClientInv`, `DataInv`, `OutputInv`; `ParserOverwrites` |
| `ZeroAlwaysMeansComplete` | ZeroMeansComplete | these and `PrintedInv` |
| `ExitCodeAlwaysExplains` | ExitCodeExplains of ColumnScan | these and `ExplainInv` |
| `ScannersAreClients` | steps of ColumnScan are RocksDBClient's | `ClientInv` |
| `TypeAlwaysOK`, `OverrunsAlwaysRejected`, `VerifiedAlwaysWithoutGaps`, `GetterAlwaysReturnsVerified` | TypeOK, OverrunsAreRejected, VerifiedWithoutGaps, GetterReturnsVerified of MoleculeVerify | `Inv` |
| `VerifierAlwaysAgrees` | VerifierAgrees | `Inv`, `NoFalseAlarm` |
| `BuilderKeepsWhatIsAsked` | the invariant itself | `Keeps` of each kind of type |
| `UsedIsAlwaysAllocated`, `AlwaysReadsBack`, `VersionsAlwaysInterwork`, `CutOrLongerAlwaysRejected` | UsedIsAllocated (its TypeOK included), ReadsBack, VersionsInterwork, CutOrLongerIsRejected | `BuilderInv` |
| `MemoryAlwaysSound` | MemoryIsSound | `RoomForItem`, `DataInPlace` |
| `CapacityAlwaysGrows` | CapacityNeverShrinks | the same |
| `SingletonTypeAlwaysOK`, `AlwaysOneObject`, `AlwaysReturnsTheObject`, `SharesAlwaysKeepAlive` | TypeOK, OneObject, ReturnsTheObject, SharesKeepAlive of MagicSingleton | `Inv` |
| `LogAlwaysSurvives` | LogSurvives, its TypeOK included | `LogInv` |
| `PartialAlwaysInPlace`, `RunAlwaysRepairsTheRest` | PartialOnlyInPlace, RunRepairsTheRest | `DependInv` |

* **Type correctness.** The lemmas about the object alone stand before those about its
  users. For the client, that a read delivers a stored row needs `UsableMeansOpen` (the handles
  are those of the listed families) and, during a scan, `ScanInv` (the iterator's key is
  in the column). For main, `TypeInv` adds `LengthInv` (inside the loop over the body each
  transaction read so far has left its hash, so that behind it `Len(tx_infos) = txs_len`)
  and `InputsInv` (a row of column 13 holds a number).
* **FaultAlwaysReported.** `GarbageInv` adds what `fault` alone does not remember: as
  long as `db_` is unassigned no call gets past `init_success_`, so none writes the
  `Status` with which the constructor reported the failed listing.
* **ScanAlwaysPrefix, ScanAlwaysEndsAtUnreadable.** `ScanInv` adds that during a scan the
  iterator has rows of the scanned column only, and every row that is not ahead of it has
  been gathered. A step moves the least key over, so that all smaller ones are gathered;
  that there is a least one is `LeastNat`, from the well-foundedness of `<` on the
  naturals.
* **OwnBlockDataAlways.** A document is compared with the rows only when it is written,
  long after its members were read, so the invariant follows the block through the
  loop: `AssemblyInv` says that from the read of column 0 on `hash_bytes` is the hash
  indexed at `height`, and that behind each read the member it fills was made from the
  row under that hash (`Behind1`, `Behind3`, `Behind7` name the places behind the read
  of columns 1, 3 and 7). `RowsInv` says that rows know their places and never change.
  `PushAllClear` is the fact about `json.clear()` that makes a reused parser harmless up
  to `null` against `[]`.
* **FaultOnlyInFailedRunAlways.** `FaultInv`: past the start of main `db_` is unassigned
  only where main returns -1 with nothing written.
* **ExportsInOrder, WrittenOnceAlways.** `ProgressInv`: in the loop the files are those
  of `start..height-1`, and in its body `height < end`. Each step of main then is
  `Export(height)`, `Complete`, `Fail` or a stutter of ExportRange, and the files it had
  keep what they hold (`FilesKept`).
* **StaleOKAlwaysForMissingColumn.** With a handle the `Status` is that of this `Get`, and
  an OK of `Get` makes `ReadData` return true; so a failed read under an OK had no handle,
  which by `UsableMeansOpen` means that the column was not listed.
* **What stands in a document.** Each property compares a document that is written at the
  end of an iteration with rows that were read along it, so each has an invariant for the
  document under construction, all of them above `BaseInv`: the invariants named so far
  and `HandlesInv` (inside the loop the object has a handle for every listed column).
  Every step keeps what is written and the rows; the node only adds to `unreadable`
  (`StepFrame`, `DocumentsStep`).
  `CountInv` ties the counter, the index and the hashes kept in `tx_infos` to the block at
  `height`; without it nothing relates the keys of columns 5, 10 and 12 to the block.
  `TransactionsInv` gives for every earlier height the offset at which its transactions
  begin in the list that is never cleared (`Laid`): the witness for the offsets is not a
  recursion over the heights but a function that grows by one with each document.
  `ExtensionInv` names the last height that had an extension, which a later removal
  cannot change as it does not bring a row back. `OptionalInv` says of the value that is
  left over that it is a row of this block, or the `Status` is not OK, which is what
  makes stale data harmless. `InfoInv` and `CellsInv` follow the two loops over
  `tx_infos` transaction by transaction, with an increasing function from the entries to
  the transactions they are of.
* **OnlyFirstCellAlways** needs that no index with its bytes swapped is an index again. In
  a block of 65536 transactions it would be: index 65536 becomes 256, an output that may
  exist. `SmallBlocks` excludes blocks that large, which the chain's limit of some
  600 kB for a block does (`MCBlockExport` assumes it of the databases it enumerates, as
  `BlocksAreSmall`, and TLC evaluates it).
* **ExitCodeExplainsAlways.** Main returns right behind the read that fails; what made it
  fail stays, since names, handles and rows do and an unreadable row never recovers. The
  property states each code's meaning as an implication.
* **Logging.** `RecordInv` follows a record from the buffer to the disk: a thread about to
  flush may find its record flushed already by another. `HandlerInv` says that a
  signal whose handler was entered has its default again, which is why a handler that
  returns ends the process. `TraceInv` counts the lines of the only crash: lines done,
  lines left and the record begun add up.
* **The dependency build.** `AtLibrary` says what the directory of the library at hand is
  at each place of the script, `Settled` that every other directory that exists belongs
  to a library of which `RunRepairsTheRest` holds, and so does every library the
  run has passed; `LibraryOrder` is where the order of the script enters: what spdlog needs
  comes before it.
* **The scanners.** `ScannersAreClients` comes first: each step is one of the most general
  client's, so that `UsableMeansOpen` and `ScanInv` are had from RocksDBClient_proofs.
  `DataInv` adds what the scanner makes of them: without a handle there is no column, and
  behind a scan that returned true a row is missing only if one up to it is unreadable
  (`Complete`). `OutputInv` says that the documents printed are those a new object would
  make, of rows the loop has left behind, each once; for the next row one has to know what
  the object shows when it parses it, which is the document of some row it has accepted.
  There `ParserOverwrites` enters: an object that has accepted one value parses the next as
  a new object does. It is an assumption because the parsers are recursive; it holds since
  each of the four sets every member of its document, and TLC evaluates it with the
  parsers of JsonParsers. `PrintedInv` has what is left behind printed or empty; of
  `ExplainInv`, that what explains a code stays as it is is `Settled`.
* **The verifiers.** `Inv` relates the program counter to what has been compared so
  far: the header fits into the value (`HeaderFits`), the offsets read so far are those in the
  value and do not decrease (`InLoop`), `ptr` is the address of the next one, the segments
  handed on lie between consecutive offsets (`CheckedAre`), and after the last comparison
  all of them end within the value (`InFields`, `Full`). A number an inner verifier reads is
  in the segment handed on in the same step (`CallReadsHandedOut`), and only a vector's
  segment can be outside; a vector that is not turned down has had its last offset, which
  bounds all the others, compared with the size (`Full` once more). Getters compute modulo
  `Word`; the invariant bounds every operand so that nothing wraps (`ModSmall`,
  `ModOnce`), except for a vector of items of more than one byte whose size does, which
  `GetterReturnsVerified` leaves out.
* **The builders.** That a value reads back says nothing of the builder before the value is
  built. `BuilderInv` says what its two blocks hold on the way (`Keeps`, one
  conjunct per kind of type): a struct has each field at its offset, a vector its items
  one behind the other, a vector of items of different lengths also where each begins
  (`Layout`), a table the field that was added last where `number` says so, and a length of 0
  for a field that has its default. `Holds(buf, p, bytes)` is the one relation all
  of this is said in: it survives what is written behind the bytes or beside them. Each
  call keeps `Keeps` for what the client now asks for (`StructKept`, `TableKept`, …); this
  is where slices that do not overlap matter, and that an added field of no bytes has to
  be one whose default is empty. From a builder that keeps its contents `_build` writes
  a value that `HasParts` (`FieldsAreWritten`, `TableBuilt`, `FramedHasParts`), in which
  the verifier and the getters find the same parts (`PartsAreRead`); for this, numbers are
  shown to survive `mol_pack_number` and `mol_unpack_number` (`NumOfPack`), and the running
  sums and the concatenation, which the model has as recursive functions, are unrolled
  by induction (`FollowsExists`, `EndsAreSums`, `FlattenedHolds`, `GrownIsEnough`). A value
  of another length has the wrong size in front (`FrameIsWhole`).
  The theorems are about one level of a type, with the verifiers of its fields and items as
  a constant: `IsValue` and `IsWhole` are what the conclusion says again of the value
  built, which makes them the step of an induction over nested types. The induction itself
  is over data and out of reach; TLC runs all 95 types with the recursive verifier.
* **The builder's memory.** `DataInPlace` is not inductive: in the loop the item is yet to
  come. `RoomForItem` says that, as long as no item was too large, what is used and the
  item's length add up to at most `Half`, so that `Needed` does not wrap; a capacity below
  that is below `Half` and doubles without wrapping either.
* **The verifiers agree.** One direction is in `Inv`: behind the loop the offsets are in
  order, which is `HeadFits`. The other is an invariant of its own, `NoFalseAlarm`: each of the four
  places a verifier fails at is shown to refute one conjunct of `WellFormed`, the loop's by
  `DisorderIsNotWellFormed`, for which `LoopKnowsOffsets` says that `i` and the last offset
  read are those of the value.
* **The singleton.** `Inv` says who is inside the lock (`Locked`), that `DesInstance` runs
  alone (`Alone`), at which step a thread has a temporary, a pointer or a share (`Places`),
  what the two words of `instance_` may be while one of them is written (`Words`) and, the
  heart of it, `Making`: a thread about to make an object has seen that there is none
  but those taken out, and one that was made and not taken out has a share, the
  temporary's or that of `instance_`. That the use count is the number of shares is a fact
  about cardinalities of sets of threads, from the theorems on finite sets
  (`ShareIsCounted`); with `Living` (an object lives as long as it is counted) it shows
  that a caller that lets go, and `DesInstance`, destroy exactly what nobody else has.

Assumptions, all named and evaluated by TLC on the runs: `NullptrAssumption`,
`NullptrIsNoIterator` (no column, no set of keys is `nullptr`), `KeysAreOrdered` and
`ChangesBound` (keys and bound are natural numbers), `ColumnsExist` (the columns main
names are among the names), `NullIsNoId` (a null document is no row), `DatabasesAssumption` (a row knows its place; its data are
numbers; a row of column 13 has one), `FamiliesAssumption` (a manifest is a sequence of
names), `RemovalsBound`, `CommandLinesAssumption`, `ByteAssumption` (a byte has at least
two values), `BuffersAssumption` (a value is a sequence of bytes shorter than a
`mol_num_t` counts), `ShapesAssumption`, `MaxIndexAssumption`, `SchemaAssumption` (types are those of
headers: slices lie in their struct and do not overlap, the first block of a union has
room for the default of its first item, defaults are values of their types and as long as
the functions say), `ValuesAssumption` (a client has values of the types of fields and
items, and none of no bytes for a field whose default has some), `CapacitiesAssumption`
and `MaxCallsAssumption` of MoleculeBuilder, `HalfAssumption` and
`InitialCapacitiesAssumption` of BuilderMemory (a client begins with some capacity, not 0),
`StartedAssumption`, `FamiliesAssumption`, `NullptrIsNoExitCode` and `ParserOverwrites` of
ColumnScan, `ThreadsAssumption` (finitely many), `NullAssumption`,
`CallsBound`, `LogBounds`, `FreeAssumption` (no thread is "free"), `ArchivesAssumption` and
`RunsBound`. The rest are used by TLC only.

---

## 6. Only model-checked

* Liveness: `Ends` of `ImplementsExportRange`, `PushEnds`, `CallsEnd`, `CrashEnds`. TLAPS
  proves neither fairness nor ENABLED.
* `AcceptsKnownVersions`, `DocumentShowsContents` and `RejectedLeavesNothing` of ParserObject:
  the types are nested, the verifiers of MoleculeSchema and the parsers of JsonParsers
  recursive, and induction over a type is out of the prover's reach. For the same reason
  the theorems about builders are about one level of a type: that the 95 types satisfy
  `SchemaAssumption` with the recursive verifier is evaluated by TLC, for the values of the
  run.

---

## 7. Findings

Two runs refute what the repository says.

**A document lists other blocks' transactions** (`main.cpp:214`, run `own_transactions`).
`block` is declared before the loop and `block["transactions"]` only appended to: the
document of a height lists the transactions of all heights exported before it.
`blockchain.mol:94-99` makes a block of its own transactions, and `main.cpp:10` calls column
2 the block body. The trace: block 0 has a transaction, block 1 has none and shows that of
block 0. What does hold is `NoTransactionLostOrRepeated`: each transaction exactly once, in
order, its own at the end.

**A crash inside the sink prints nothing and hangs the process** (`logging.cpp:70`, run
`crash_printed`): the handler waits for the mutex its own thread holds, where `:44` says
that the call stack is printed when the program crashes.

Three members of the documents contradict the `.mol` files. No property claims anything of
what they show:

* `args` of a script is its code hash (`blockchain.cpp:107-108`): the local variable was
  not filled again. `blockchain.mol:33` has `args: Bytes`.
* `block_epoch` of a TransactionInfo is 0 for every value (`blockchain.cpp:771-773`): its bytes
  are copied into the variable of the block number. `extensions.mol:74` has
  `block_epoch: Uint64`.
* `witnesses` of a transaction is the second part of the view (`blockchain.cpp:443`), which
  `extensions.mol:39` calls `witness_hash`; the `witnesses: BytesVec` of `blockchain.mol:68`
  are shown nowhere.

Observations, which the passing properties state as the exceptions they are:

* `block["extension"]` is set when the `Status` is OK and never removed
  (`main.cpp:228-232`), so that a block without an extension shows that of an earlier one,
  where `main.cpp:23` calls column 15 the block's extension data. In a database without
  column 15 the `Status` and `value` are those of the proposals, which are exported as the
  extension. `ExtensionSource` says exactly what is shown.

* A verified vector of items of more than one byte may have items outside the value: its
  size is computed modulo 2^32 (`molecule_reader.h:123`), although the notice above the
  getters (`:131-134`) asks only that their input be checked. `GetterReturnsVerified`
  excludes that case and proves all others, vectors of bytes included.
* The verifier of a vector sends that of an item outside the value before it compares any
  offset with the size (`blockchain.h:746-763`). Whatever is read there, the verdict is no
  (`OverrunsAreRejected`).
* A `Script` is verified strictly (`:89`) where everything around it is not, and the view
  parsers of columns 2 and 3 slice to the end of the value, so that an unknown extra field
  is rejected after all (`AcceptsKnownVersions`).
* A run that could not list the column families deletes an uninitialised pointer
  (`rocksdb_read_only.cpp:46`); the models let it be harmless or a fault.
* `GetAllDataByColumnFamily` returns true when its iterator failed (`:72`), so that a
  scanner ends with 0 after part of a column (`ZeroMeansComplete`).
* Exit code -9 of main stands for a malformed transaction and for missing proposals alike,
  -2 of `main_epoch_ext` for a missing column and for a rejected row.
* A cell is looked up at the index of its *transaction*, in host byte order: only the
  first output of the first transaction is ever found (`OnlyFirstCell`).
* A file that could not be written is not reported: the run still returns 0.
* A push of an item of more than 2^31 bytes doubles the capacity to 0 and never ends, and
  a failed `realloc` shows only when the item is written (`molecule_builder.h:177-184`).
* A caller of `GetInstance` may be returned the pointer without a share of it, if it
  copied between the two words of the assignment (`magicsingleton.hpp:20-23`); a later
  `DesInstance` then takes the object from it. `DesInstance` takes no lock (`:29-32`).
* An interrupted configuration leaves a directory, and every later one skips that library
  and ends with "compile depend done" (`make_depend.sh:25`, `:111`).

---

## 8. Not modelled

* **A value in column 13 that is not four bytes long.** `memcpy` at `main.cpp:200`
  copies it into a `uint32_t`; what it overwrites is the compiler's layout.
* **DesInstance at the same time as another call**: a data race on two words that have no
  atomic access. Nothing in the tree calls it.
* **singleton.hpp**: its pointer is set before main and never changes.
* **Crypto and network helpers**: wrappers of libraries, used nowhere but for the hex pair.
* **The crash handler's own calls**: `backtrace_symbols` allocates, which in a thread that
  crashed inside `malloc` may wait for its own lock as the logger does for the sink's. The
  **console sink** beside the file's has the same mutex discipline.
* **`_clear` of a builder**, after which nothing is observed.
* **The size of the stack** under the variable-length array of offsets
  (`blockchain.h:946`); that the array takes no more bytes than the value is proved.
* **Big-endian hosts**: `htobe32` and the native order at line 246 are modelled for the
  little-endian hosts the build targets.
* **The test runner**, which holds no test.

---

## 9. Plan

Done, in this order: RocksDBReadOnly and its client; BlockExport, its properties and
ExportRange; MoleculeReader and MoleculeVerify; MoleculeSchema, the types and the
builder; proofs of the first three; the parsers; the scanners; the builder's memory,
the singleton and their proofs; logging; the dependency build; proofs of main's documents
and exit codes, of the stale answers of the database, of the scanners, of logging, of the
dependency build, of the singleton, of the verifiers in both directions, and of the builders
from the first call to the value that is read back.

What is left is one model, ColumnTypes: which pairs of columns have types that one byte
string can satisfy, to justify the sets `as` of BlockExport by the verifiers themselves.
