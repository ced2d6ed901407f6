--------------------------- MODULE MCKeeperSweeps ---------------------------
(* An instance of KeeperSweeps; the constants are in the .cfg file.         *)
EXTENDS KeeperSweeps
=============================================================================
