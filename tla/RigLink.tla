------------------------------ MODULE RigLink ------------------------------
(***************************************************************************)
(* What the sequence numbers of rig control promise to the main window,    *)
(* with everything else left out: commands are numbered; a Transceiver     *)
(* object carries them out in the order of their numbers, each at most     *)
(* once, though it may never see some of them; and the main window is told *)
(* of the rig only when some object has carried out the last command.      *)
(***************************************************************************)
EXTENDS Naturals

CONSTANT Objects

VARIABLES issued,   \* the number of the last command
          done,     \* for every object, the last command it has carried out
          told      \* the command whose outcome the main window was last told

linkVars == <<issued, done, told>>

LinkInit ==
  /\ issued = 0
  /\ done = [i \in Objects |-> 0]
  /\ told = 0

\* Opening the rig for a request issues two commands at once.
Issue ==
  /\ issued' \in {issued + 1, issued + 2}
  /\ UNCHANGED <<done, told>>

CarryOut(i) ==
  /\ \E n \in (done[i] + 1)..issued : done' = [done EXCEPT ![i] = n]
  /\ UNCHANGED <<issued, told>>

Tell ==
  /\ \E i \in Objects : done[i] = issued
  /\ told' = issued
  /\ UNCHANGED <<issued, done>>

LinkNext == Issue \/ Tell \/ \E i \in Objects : CarryOut(i)

LinkSpec == LinkInit /\ [][LinkNext]_linkVars
=============================================================================
