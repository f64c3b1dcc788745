---------------------------- MODULE MCRigControl ----------------------------
(* RigControl for TLC: the two dial frequencies are interchangeable.       *)
EXTENDS RigControl, TLC

FreqSymmetry == Permutations(Freqs)
=============================================================================
