-------------------------- MODULE BlockchainTypes --------------------------
(* blockchain.h: the types of blocks, transactions and scripts. *)
EXTENDS MoleculeSchema

Uint32             == Array(4)
Uint64             == Array(8)
Uint128            == Array(16)
Byte32             == Array(32)
Uint256            == Array(32)
Bytes              == Fixvec(1)
Byte32Vec          == Fixvec(32)
ProposalShortId    == Array(10)
ProposalShortIdVec == Fixvec(10)
CellDepVec         == Fixvec(37)
CellInputVec       == Fixvec(44)
OutPoint           == Struct(36, <<Slice(0, 32), Slice(32, 4)>>)
CellInput          == Struct(44, <<Slice(0, 8), Slice(8, 36)>>)
CellDep            == Struct(37, <<Slice(0, 36), Slice(36, 1)>>)
RawHeader          == Struct(192, <<Slice(0, 4), Slice(4, 4), Slice(8, 8), Slice(16, 8),
                        Slice(24, 8), Slice(32, 32), Slice(64, 32), Slice(96, 32),
                        Slice(128, 32), Slice(160, 32)>>)
Header             == Struct(208, <<Slice(0, 192), Slice(192, 16)>>)
BytesOpt           == Option(Bytes)
BytesVec           == Dynvec(Bytes)
Script             == Table(53, <<Byte32, byte, Bytes>>)
ScriptOpt          == Option(Script)
UncleBlock         == Table(224, <<Header, ProposalShortIdVec>>)
UncleBlockVec      == Dynvec(UncleBlock)
CellOutput         == Table(77, <<Uint64, Script, ScriptOpt>>)
CellOutputVec      == Dynvec(CellOutput)
RawTransaction     == Table(52, <<Uint32, CellDepVec, Byte32Vec, CellInputVec, CellOutputVec,
                        BytesVec>>)
Transaction        == Table(68, <<RawTransaction, BytesVec>>)
TransactionVec     == Dynvec(Transaction)
Block              == Table(240, <<Header, UncleBlockVec, TransactionVec, ProposalShortIdVec>>)
BlockV1            == Table(248, <<Header, UncleBlockVec, TransactionVec, ProposalShortIdVec,
                        Bytes>>)
CellbaseWitness    == Table(69, <<Script, Bytes>>)
WitnessArgs        == Table(16, <<BytesOpt, BytesOpt, BytesOpt>>)

BlockchainSchema ==
  [Uint32 |-> Uint32, Uint64 |-> Uint64, Uint128 |-> Uint128, Byte32 |-> Byte32,
   Uint256 |-> Uint256, Bytes |-> Bytes, Byte32Vec |-> Byte32Vec,
   ProposalShortId |-> ProposalShortId, ProposalShortIdVec |-> ProposalShortIdVec,
   CellDepVec |-> CellDepVec, CellInputVec |-> CellInputVec, OutPoint |-> OutPoint,
   CellInput |-> CellInput, CellDep |-> CellDep, RawHeader |-> RawHeader, Header |-> Header,
   BytesOpt |-> BytesOpt, BytesVec |-> BytesVec, Script |-> Script, ScriptOpt |-> ScriptOpt,
   UncleBlock |-> UncleBlock, UncleBlockVec |-> UncleBlockVec, CellOutput |-> CellOutput,
   CellOutputVec |-> CellOutputVec, RawTransaction |-> RawTransaction,
   Transaction |-> Transaction, TransactionVec |-> TransactionVec, Block |-> Block,
   BlockV1 |-> BlockV1, CellbaseWitness |-> CellbaseWitness, WitnessArgs |-> WitnessArgs]
=============================================================================
