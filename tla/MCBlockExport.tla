--------------------------- MODULE MCBlockExport ---------------------------
(***************************************************************************)
(* Small databases for BlockExport.  Heights are 0..Last; a database is    *)
(* given by the number of transactions and of proposals at each height and *)
(* by the rows that are missing or malformed.  An uncle and an extension   *)
(* are at every height, and a transaction has a cell at outputs 0 and 1.   *)
(***************************************************************************)
EXTENDS BlockExportProperties, TLC

CONSTANTS Last,         \* the highest block
          MaxTxs,       \* transactions of a block
          MaxProposals, \* proposals of a block
          MinProposals, \* at least so many of block 0, to be seen stale after it
          FaultColumns, \* the columns whose rows may be missing or malformed
          MaxFaults,    \* how many of them are
          Missing       \* sets of columns the database was created without

Heights == 0..Last
Hash(h) == <<1, h>>
TxHashOf(h, n) == <<2, h, n>>
Value(cf, key, data) == [id |-> <<cf, key>>, as |-> {cf}, data |-> data]

(* An extension of 52 bytes also has the size of a TransactionInfo. *)
Extension(h) == [Value("15", Hash(h), << >>) EXCEPT !.as = {"15", "5"}]

Rows(txs, props) ==
  LET all == {<<h, n>> : h \in Heights, n \in 0..(MaxTxs - 1)}
      present == {<<h, n>> \in all : n < txs[h]}
      Of(keys, ValueOf(_)) == [k \in keys |-> ValueOf(k)]
      hashes == {Hash(h) : h \in Heights}
      cells == {TxHashOf(p[1], p[2]) \o <<o>> : p \in present, o \in 0..1}
  IN  [cf \in ColumnFamilies |->
        CASE cf = "0"  -> Of({<<h>> : h \in Heights}, LAMBDA k : Value(cf, k, Hash(k[1])))
          [] cf \in {"1", "6"} -> Of(hashes, LAMBDA k : Value(cf, k, << >>))
          [] cf = "3"  -> Of(hashes, LAMBDA k : Value(cf, k, <<10 + k[2]>>))
          [] cf = "13" -> Of({<<h>> \o Hash(h) : h \in Heights},
                             LAMBDA k : Value(cf, k, <<txs[k[1]]>>))
          [] cf = "2"  -> Of({Hash(p[1]) \o <<p[2]>> : p \in present},
                             LAMBDA k : Value(cf, k, TxHashOf(k[2], k[3])))
          [] cf = "7"  -> Of(hashes, LAMBDA k : Value(cf, k, [n \in 1..props[k[2]] |-> 20 + k[2]]))
          [] cf = "15" -> Of(hashes, LAMBDA k : Extension(k[2]))
          [] cf = "5"  -> Of({TxHashOf(p[1], p[2]) : p \in present},
                             LAMBDA k : Value(cf, k, << >>))
          [] OTHER     -> Of(cells, LAMBDA k : Value(cf, k, << >>))]

Places(db) == UNION {{<<cf, k>> : k \in DOMAIN db[cf]} : cf \in ColumnFamilies}

(* Columns 0, 13 and 15 hold no Molecule type that main parses. *)
MayBeMalformed == {"1", "2", "3", "5", "6", "7", "10", "12"}

Damaged(db, gone, bad) ==
  [cf \in ColumnFamilies |->
     [k \in {k \in DOMAIN db[cf] : <<cf, k>> \notin gone} |->
        IF <<cf, k>> \in bad THEN [db[cf][k] EXCEPT !.as = {}] ELSE db[cf][k]]]

AtMost(S, n) ==
  LET upTo[m \in 0..n] ==
        IF m = 0 THEN {{}} ELSE upTo[m - 1] \cup {T \cup {x} : T \in upTo[m - 1], x \in S}
  IN  upTo[n]

Faulty(db) ==
  LET places == {p \in Places(db) : p[1] \in FaultColumns}
      faults == (places \X {"gone"}) \cup ({p \in places : p[1] \in MayBeMalformed} \X {"bad"})
      of(F, kind) == {f[1] : f \in {g \in F : g[2] = kind}}
  IN  {Damaged(db, of(F, "gone"), of(F, "bad")) : F \in AtMost(faults, MaxFaults)}

MCDatabases ==
  UNION {Faulty(Rows(txs, props)) :
           txs \in [Heights -> 0..MaxTxs],
           props \in {p \in [Heights -> 0..MaxProposals] : p[0] >= MinProposals}}

AllFamilies == <<"0", "1", "2", "3", "5", "6", "7", "10", "12", "13", "15">>
MCFamilies == {SelectSeq(AllFamilies, LAMBDA cf : cf \notin m) : m \in Missing}

(* The databases are of small blocks, as the proofs about cells suppose. *)
ASSUME BlocksAreSmall == SmallBlocks

WholeRange == [argc : {3}, start : {0}, end : {Last + 1}]
AnyCommandLine ==
  WholeRange \cup [argc : {3}, start : {0, 1, NaN}, end : {0, 1, NaN}]
             \cup [argc : {1}, start : {NaN}, end : {NaN}]
=============================================================================
