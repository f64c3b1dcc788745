----------------------------- MODULE MCFoxHound -----------------------------
(* Instances of FoxHound for TLC: the constants are in the .cfg files.     *)
EXTENDS FoxHound

=============================================================================
