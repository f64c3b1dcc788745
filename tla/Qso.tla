-------------------------------- MODULE Qso --------------------------------
(***************************************************************************)
(* What a contact is: two stations exchange reports, each confirms the     *)
(* report it got, and only then does either enter the contact in its log.  *)
(* Another entry for the same station takes another report or confirmation *)
(* of it.                                                                  *)
(***************************************************************************)
EXTENDS Naturals

CONSTANT Stations

VARIABLES got,        \* <<s, p>>: s has p's report
          confirmed,  \* <<s, p>>: p has confirmed the report of s
          news,       \* <<s, p>>: s heard one of these since it last logged p
          logs        \* logs[<<s, p>>]: entries for p in the log of s

exchange == <<got, confirmed, news, logs>>

Pairs == {pair \in Stations \X Stations : pair[1] # pair[2]}

QsoInit == /\ got = {} /\ confirmed = {} /\ news = {}
           /\ logs = [pair \in Pairs |-> 0]

\* s hears p: a report, a confirmation or both.
Hear(s, p, report, confirmation) ==
  /\ report \/ confirmation
  /\ got' = IF report THEN got \cup {<<s, p>>} ELSE got
  /\ confirmed' = IF confirmation THEN confirmed \cup {<<s, p>>} ELSE confirmed
  /\ news' = news \cup {<<s, p>>}
  /\ UNCHANGED logs

\* Each has the report of the other, and s knows that p has its own.
Enter(s, p) ==
  /\ {<<s, p>>, <<p, s>>} \subseteq got
  /\ <<s, p>> \in confirmed \cap news
  /\ news' = news \ {<<s, p>>}
  /\ logs' = [logs EXCEPT ![<<s, p>>] = @ + 1]
  /\ UNCHANGED <<got, confirmed>>

QsoNext == \E pair \in Pairs :
             \/ \E report, confirmation \in BOOLEAN :
                  Hear(pair[1], pair[2], report, confirmation)
             \/ Enter(pair[1], pair[2])

QsoSpec == QsoInit /\ [][QsoNext]_exchange

=============================================================================
