----------------------------- MODULE MCAutoSeq -----------------------------
(* Instances of AutoSeq for TLC: settings, and how often each operator     *)
(* does something.                                                         *)
EXTENDS AutoSeq, TLC

CONSTANTS a, b, c

\* Stations with the Wait features also pick the first caller.
MixedSettings ==
  {x \in [callFirst : BOOLEAN, rr73 : BOOLEAN, wait : BOOLEAN] : x.wait => x.callFirst}

UsualSettings == {[callFirst |-> TRUE, rr73 |-> TRUE, wait |-> FALSE]}

TwoAndOne == (a :> 2) @@ (b :> 1)

ThreeForOne == (a :> 3) @@ (b :> 1) @@ (c :> 1)

\* b and c have the same settings and bounds.
Callers == Permutations({b, c})

=============================================================================
