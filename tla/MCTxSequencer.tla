--------------------------- MODULE MCTxSequencer ---------------------------
(* Instances of TxSequencer for TLC: the constants are in the .cfg files.  *)
EXTENDS TxSequencer

=============================================================================
