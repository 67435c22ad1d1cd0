------------------------ MODULE BlockExportProperties ------------------------
(***************************************************************************)
(* What makes the files of main() correct.  The properties speak of files, *)
(* exit codes and the database they come from, not of main's locals.       *)
(***************************************************************************)
EXTENDS BlockExport

StoredValue(v) == v = EmptyString \/ \E cf \in ColumnFamilies : \E key \in DOMAIN rows[cf] :
                                       v = rows[cf][key]

(* The variables hold values of their types; the count of transactions seen  *)
(* so far, the index of the next one and the list of their hashes agree, and *)
(* after main has returned nothing of the database object is left.           *)
TypeOK ==
  /\ ObjectTypeOK
  /\ \A cf \in ColumnFamilies : \A key \in DOMAIN rows[cf] : rows[cf][key].id = <<cf, key>>
  /\ args \in CommandLines
  /\ pc \in Columns \cup {"start", "loop", "write", "return", "done", "aborted"}
  /\ height \in Nat /\ i \in Nat /\ txs_len \in Nat /\ tx_index \in Nat
  /\ StoredValue(value)
  /\ pc \in Columns \ {"0", "1", "3", "13"} => i <= txs_len
  /\ pc \in {"7", "15", "5", "10", "12", "6"} => Len(tx_infos) = txs_len
  /\ pc \in {"5", "10", "12"} => tx_index < Len(tx_infos)
  /\ exit_code \in (-10)..0 \cup {134}
  /\ DOMAIN files \subseteq Nat
  /\ pc = "done" => phase = "gone"
  /\ removals \in 0..MaxRemovals

-----------------------------------------------------------------------------
(***************************************************************************)
(* The database a document is compared with.                               *)
(***************************************************************************)
HashAt(h) == rows["0"][<<h>>].data
CountAt(h) == rows["13"][<<h>> \o HashAt(h)].data[1]
BodyAt(h, n) == rows["2"][HashAt(h) \o <<n>>]
TransactionsAt(h) == [n \in 1..CountAt(h) |-> <<"2", HashAt(h) \o <<n - 1>>>>]

Mapped(cf) == cf \in Elements(names)
Readable(cf, key) == key \in DOMAIN rows[cf] /\ <<cf, key>> \notin unreadable
Parsable(cf, key) == Readable(cf, key) /\ Parses(cf, rows[cf][key])

Written == {h \in DOMAIN files : files[h] # Null}

(* A written document has the header, the uncles and the proposals of the    *)
(* block its height is indexed to and of no other, however many blocks were  *)
(* assembled in the same objects before it.                                  *)
OwnBlockData ==
  \A h \in Written :
    LET b == files[h].block
    IN  /\ b.header = <<"1", HashAt(h)>>
        /\ b.uncles.hash = <<"3", HashAt(h)>>
        /\ PushAll(Null, b.uncles.data) = PushAll(Null, rows["3"][HashAt(h)].data)
        /\ PushAll(Null, b.proposals) = PushAll(Null, rows["7"][HashAt(h)].data)

(* The transactions of a document are those of all the heights of the run up *)
(* to its own, each once and in order, its own last: block is declared       *)
(* outside the loop and push_back appends to what the heights before left.   *)
(* at[g] is the number of transactions of the heights before g.              *)
NoTransactionLostOrRepeated ==
  \A h \in Written :
    LET txs == files[h].block.transactions
    IN  \E at \in [args.start..(h + 1) -> 0..Len(txs)] :
          /\ at[args.start] = 0
          /\ at[h + 1] = Len(txs)
          /\ \A g \in args.start..h :
               /\ at[g + 1] = at[g] + CountAt(g)
               /\ \A n \in 1..CountAt(g) : txs[at[g] + n] = TransactionsAt(g)[n]

(* The extension of a document is that of the latest height of the run that  *)
(* has one.  In a database without the column it is the value read before,   *)
(* the block's proposals, since the Status still says OK.                    *)
ExtensionSource ==
  \A h \in Written :
    LET ext == files[h].block.extension
        none(g) == ~Readable("15", HashAt(g))
    IN  IF Mapped("15")
          THEN \/ ext = Null /\ \A g \in args.start..h : none(g)
               \/ \E g \in args.start..h : /\ ext = Bytes2Hex(<<"15", HashAt(g)>>)
                                           /\ \A f \in (g + 1)..h : none(f)
          ELSE ext = Bytes2Hex(<<"7", HashAt(h)>>)

(* info lists the records of the block's own transactions in their order and *)
(* leaves one out only where the row is not there, cannot be read or is not  *)
(* a TransactionInfo; the same holds of block_ext.  of[m] is the transaction *)
(* the m-th record is of.                                                    *)
InfoIsOwnAndComplete ==
  \A h \in Written :
    LET info == files[h].info
        key(n) == BodyAt(h, n).data
        ns == 0..(CountAt(h) - 1)
    IN  /\ Mapped("5") => \E of \in [DOMAIN info -> ns] :
             /\ \A m \in DOMAIN info : info[m] = <<"5", key(of[m])>>
             /\ \A l, m \in DOMAIN info : l < m => of[l] < of[m]
             /\ \A n \in ns : Parsable("5", key(n)) => \E m \in DOMAIN info : of[m] = n
        /\ Mapped("6") => /\ files[h].block_ext \in {Null, <<"6", HashAt(h)>>}
                          /\ Parsable("6", HashAt(h)) => files[h].block_ext # Null

(* Whatever columns the database lacks and whatever is left in value and     *)
(* status by the read before, a document lists under info, entry, data_entry *)
(* and block_ext only rows stored under its own block's hash or the hashes   *)
(* of that block's transactions: a stale value is never another block's.     *)
OptionalDataIsOfThisBlock ==
  \A h \in Written :
    LET f == files[h]
        prefixes == {HashAt(h)} \cup {BodyAt(h, n).data : n \in 0..(CountAt(h) - 1)}
        own(id) == \E p \in prefixes : SubSeq(id[2], 1, Len(p)) = p
    IN  /\ \A id \in Elements(f.info) \cup Elements(f.entry) \cup Elements(f.data_entry) :
             own(id)
        /\ f.block_ext # Null => own(f.block_ext)

(* Of all the cells of a block, only output 0 of its first transaction can   *)
(* appear: the key is made of the transaction's index instead of an output's *)
(* and, unlike the body's, not in big-endian order, so that any other index  *)
(* asks for an output no transaction has.                                    *)
OnlyFirstCell ==
  \A h \in Written :
    LET Cells(cf, list) ==
          \/ list = << >>
          \/ list = <<(<<cf, BodyAt(h, 0).data \o <<0>>>>)>>
    IN  /\ Mapped("10") => Cells("10", files[h].entry)
        /\ Mapped("12") => Cells("12", files[h].data_entry)

(* A block of a CKB chain is limited in size, so that neither the number of  *)
(* its transactions nor the index of an output comes near 2^16.              *)
SmallBlocks ==
  \A db \in Databases :
    /\ \A key \in DOMAIN db["13"] : db["13"][key].data[1] < 65536
    /\ \A cf \in {"10", "12"} : \A key \in DOMAIN db[cf] :
         key \in Seq(Nat) => key[Len(key)] < 65536

(* A block is made of its own transactions (blockchain.mol:94-99): a         *)
(* document shows the transactions of the height it is named after, and no   *)
(* other.                                                                    *)
BlockHasOwnTransactions ==
  \A h \in Written : files[h].block.transactions = TransactionsAt(h)

-----------------------------------------------------------------------------
(* A negative exit code names a read that fails at the height the run        *)
(* stopped at: the row is not there, cannot be read or does not parse.  All  *)
(* heights before it were dealt with, and neither it nor a later one was.    *)
(* Code -9 stands for a bad transaction and for missing proposals alike.     *)
ExitCodeExplains ==
  pc \in {"return", "done"} /\ exit_code < -1 =>
    LET Failed(cf, key) == ~Mapped(cf) \/ ~Readable(cf, key)
        Malformed(cf, key) == key \in DOMAIN rows[cf] /\ ~Parses(cf, rows[cf][key])
        body == {HashAt(height) \o <<n>> : n \in 0..(txs_len - 1)}
    IN  /\ DOMAIN files = args.start..(height - 1)
        /\ height < args.end
        /\ exit_code < -2 => hash_bytes = HashAt(height)
        /\ exit_code = -2 => Failed("0", <<height>>)
        /\ exit_code = -3 => Failed("1", hash_bytes)
        /\ exit_code = -4 => Malformed("1", hash_bytes)
        /\ exit_code = -5 => Failed("3", hash_bytes)
        /\ exit_code = -6 => Malformed("3", hash_bytes)
        /\ exit_code = -7 => Failed("13", <<height>> \o hash_bytes)
        /\ exit_code = -8 => \E key \in body : Failed("2", key)
        /\ exit_code = -9 => \/ Failed("7", hash_bytes)
                             \/ \E key \in body : Malformed("2", key)
        /\ exit_code = -10 => Malformed("7", hash_bytes)

(* Deleting the never assigned pointer happens only to a run that reports -1 *)
(* and has written nothing.                                                  *)
FaultOnlyInFailedRun == fault => exit_code = -1 /\ files = << >>

(* No file of an earlier height is touched again.                            *)
WrittenOnce ==
  [][\A h \in DOMAIN files : h \in DOMAIN files' /\ files'[h] = files[h]]_vars

-----------------------------------------------------------------------------
Requested == IF args.argc < 3 \/ args.start = NaN \/ args.end = NaN THEN {}
             ELSE args.start..(args.end - 1)

Outcome == CASE pc \in {"return", "done"} /\ exit_code = 0 -> "complete"
             [] pc \in {"return", "done"} /\ exit_code # 0 -> "failed"
             [] pc = "aborted" -> "failed"
             [] OTHER -> "running"

Abstract == INSTANCE ExportRange WITH range <- Requested,
                                      written <- files, outcome <- Outcome

(* The run deals with the requested heights from the lowest up, one at a     *)
(* time, never touches the file of an earlier height again, reports          *)
(* completion only when it has dealt with all of them, and comes to an end,  *)
(* whatever the rows, the arguments and the node do.                         *)
ImplementsExportRange == Abstract!Spec
=============================================================================
