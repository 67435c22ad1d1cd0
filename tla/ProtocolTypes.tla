--------------------------- MODULE ProtocolTypes ---------------------------
(* protocols.h: the messages by which nodes find each other. *)
EXTENDS ExtensionTypes

Uint16           == Array(2)
Ping             == Table(12, <<Uint32>>)
Pong             == Table(12, <<Uint32>>)
PingPayload      == Union(16, <<Ping, Pong>>)
PingMessage      == Table(24, <<PingPayload>>)
Node             == Table(12, <<BytesVec>>)
NodeVec          == Dynvec(Node)
PortOpt          == Option(Uint16)
GetNodes         == Table(24, <<Uint32, Uint32, PortOpt>>)
Nodes            == Table(17, <<Bool, NodeVec>>)
DiscoveryPayload == Union(32, <<GetNodes, Nodes>>)
DiscoveryMessage == Table(36, <<DiscoveryPayload>>)
Address          == Table(12, <<Bytes>>)
AddressVec       == Dynvec(Address)
IdentifyMessage  == Table(36, <<AddressVec, Address, Bytes>>)

ProtocolSchema ==
  [Uint16 |-> Uint16, Ping |-> Ping, Pong |-> Pong, PingPayload |-> PingPayload,
   PingMessage |-> PingMessage, Node |-> Node, NodeVec |-> NodeVec, PortOpt |-> PortOpt,
   GetNodes |-> GetNodes, Nodes |-> Nodes, DiscoveryPayload |-> DiscoveryPayload,
   DiscoveryMessage |-> DiscoveryMessage, Address |-> Address, AddressVec |-> AddressVec,
   IdentifyMessage |-> IdentifyMessage]
=============================================================================
