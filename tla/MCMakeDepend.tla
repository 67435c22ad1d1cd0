---------------------------- MODULE MCMakeDepend ----------------------------
(* MakeDepend with all archives but one that no other library needs.         *)
EXTENDS MakeDepend

MCArchives == LibrarySet \ {"protobuf"}
=============================================================================
