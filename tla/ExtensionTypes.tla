--------------------------- MODULE ExtensionTypes ---------------------------
(* extensions.h: what a node stores in its columns and relays to others. *)
EXTENDS BlockchainTypes

Bool                   == Array(1)
BeUint32               == Array(4)
BeUint64               == Array(8)
Uint32Vec              == Fixvec(4)
Uint64Vec              == Fixvec(8)
HeaderVec              == Fixvec(208)
OutPointVec            == Fixvec(36)
HeaderView             == Struct(240, <<Slice(0, 32), Slice(32, 208)>>)
EpochExt               == Struct(108, <<Slice(0, 32), Slice(32, 32), Slice(64, 4),
                            Slice(68, 8), Slice(76, 8), Slice(84, 8), Slice(92, 8),
                            Slice(100, 8)>>)
TransactionKey         == Struct(36, <<Slice(0, 32), Slice(32, 4)>>)
NumberHash             == Struct(40, <<Slice(0, 8), Slice(8, 32)>>)
TransactionInfo        == Struct(52, <<Slice(0, 8), Slice(8, 8), Slice(16, 36)>>)
BoolOpt                == Option(Bool)
Byte32Opt              == Option(Byte32)
CellOutputOpt          == Option(CellOutput)
UncleBlockVecView      == Table(20, <<Byte32Vec, UncleBlockVec>>)
TransactionView        == Table(148, <<Byte32, Byte32, Transaction>>)
BlockExt               == Table(76, <<Uint256, Uint64, Uint64, Uint64Vec, BoolOpt>>)
CellEntry              == Table(165, <<CellOutput, Byte32, Uint64, Uint64, Uint32, Uint64>>)
CellDataEntry          == Table(48, <<Bytes, Byte32>>)
IndexTransaction       == Table(84, <<Uint32, Transaction>>)
IndexTransactionVec    == Dynvec(IndexTransaction)
CompactBlock           == Table(248, <<Header, ProposalShortIdVec, IndexTransactionVec,
                            Byte32Vec, ProposalShortIdVec>>)
RelayTransaction       == Table(88, <<Uint64, Transaction>>)
RelayTransactionVec    == Dynvec(RelayTransaction)
RelayTransactions      == Table(12, <<RelayTransactionVec>>)
RelayTransactionHashes == Table(12, <<Byte32Vec>>)
GetRelayTransactions   == Table(12, <<Byte32Vec>>)
GetBlockTransactions   == Table(56, <<Byte32, Uint32Vec, Uint32Vec>>)
BlockTransactions      == Table(56, <<Byte32, TransactionVec, UncleBlockVec>>)
GetBlockProposal       == Table(48, <<Byte32, ProposalShortIdVec>>)
BlockProposal          == Table(12, <<TransactionVec>>)
RelayMessage           == Union(256, <<CompactBlock, RelayTransactions, RelayTransactionHashes,
                            GetRelayTransactions, GetBlockTransactions, BlockTransactions,
                            GetBlockProposal, BlockProposal>>)
CompactBlockV1         == Table(256, <<Header, ProposalShortIdVec, IndexTransactionVec,
                            Byte32Vec, ProposalShortIdVec, Bytes>>)
GetHeaders             == Table(48, <<Byte32, Byte32Vec>>)
SendHeaders            == Table(12, <<HeaderVec>>)
GetBlocks              == Table(12, <<Byte32Vec>>)
SendBlock              == Table(248, <<Block>>)
SetFilter              == Table(25, <<Uint32, Bytes, byte>>)
AddFilter              == Table(12, <<Bytes>>)
ClearFilter            == Table(4, << >>)
MerkleProof            == Table(20, <<Uint32Vec, Byte32Vec>>)
FilteredBlock          == Table(248, <<Header, TransactionVec, MerkleProof>>)
InIBD                  == Table(4, << >>)
SyncMessage            == Union(64, <<GetHeaders, SendHeaders, GetBlocks, SendBlock, SetFilter,
                            AddFilter, ClearFilter, FilteredBlock, InIBD>>)
Time                   == Table(16, <<Uint64>>)
RawAlert               == Table(56, <<Uint64, Uint32, Uint32, Uint32, Bytes, BytesOpt,
                            BytesOpt>>)
Alert                  == Table(72, <<RawAlert, BytesVec>>)
Identify               == Table(32, <<Uint64, Bytes, Bytes>>)

ExtensionSchema ==
  [Bool |-> Bool, BeUint32 |-> BeUint32, BeUint64 |-> BeUint64, Uint32Vec |-> Uint32Vec,
   Uint64Vec |-> Uint64Vec, HeaderVec |-> HeaderVec, OutPointVec |-> OutPointVec,
   HeaderView |-> HeaderView, EpochExt |-> EpochExt, TransactionKey |-> TransactionKey,
   NumberHash |-> NumberHash, TransactionInfo |-> TransactionInfo, BoolOpt |-> BoolOpt,
   Byte32Opt |-> Byte32Opt, CellOutputOpt |-> CellOutputOpt,
   UncleBlockVecView |-> UncleBlockVecView, TransactionView |-> TransactionView,
   BlockExt |-> BlockExt, CellEntry |-> CellEntry, CellDataEntry |-> CellDataEntry,
   IndexTransaction |-> IndexTransaction, IndexTransactionVec |-> IndexTransactionVec,
   CompactBlock |-> CompactBlock, RelayTransaction |-> RelayTransaction,
   RelayTransactionVec |-> RelayTransactionVec, RelayTransactions |-> RelayTransactions,
   RelayTransactionHashes |-> RelayTransactionHashes,
   GetRelayTransactions |-> GetRelayTransactions,
   GetBlockTransactions |-> GetBlockTransactions, BlockTransactions |-> BlockTransactions,
   GetBlockProposal |-> GetBlockProposal, BlockProposal |-> BlockProposal,
   RelayMessage |-> RelayMessage, CompactBlockV1 |-> CompactBlockV1,
   GetHeaders |-> GetHeaders, SendHeaders |-> SendHeaders, GetBlocks |-> GetBlocks,
   SendBlock |-> SendBlock, SetFilter |-> SetFilter, AddFilter |-> AddFilter,
   ClearFilter |-> ClearFilter, MerkleProof |-> MerkleProof, FilteredBlock |-> FilteredBlock,
   InIBD |-> InIBD, SyncMessage |-> SyncMessage, Time |-> Time, RawAlert |-> RawAlert,
   Alert |-> Alert, Identify |-> Identify]
=============================================================================
