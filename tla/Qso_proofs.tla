----------------------------- MODULE Qso_proofs -----------------------------
(* What the abstract contact guarantees of the logs.                       *)
EXTENDS Qso, TLAPS

QsoTypeOK == /\ got \subseteq Pairs /\ confirmed \subseteq Pairs /\ news \subseteq Pairs
             /\ logs \in [Pairs -> Nat]

LoggedIsWorked ==
  \A s, p \in Stations : s # p /\ logs[<<s, p>>] > 0 =>
    <<s, p>> \in got /\ <<p, s>> \in got /\ <<s, p>> \in confirmed

IInv == QsoTypeOK /\ LoggedIsWorked

\* Hearing a station only adds to what was exchanged.
LEMMA HearKeeps ==
  ASSUME IInv, NEW pair \in Pairs, NEW report \in BOOLEAN, NEW confirmation \in BOOLEAN,
         Hear(pair[1], pair[2], report, confirmation)
  PROVE  IInv'
<1>1. pair = <<pair[1], pair[2]>> /\ pair[1] \in Stations /\ pair[2] \in Stations
  BY DEF Pairs
<1>2. QsoTypeOK'
  BY <1>1 DEF IInv, QsoTypeOK, Hear
<1>3. got \subseteq got' /\ confirmed \subseteq confirmed' /\ logs' = logs
  BY DEF Hear
<1>4. LoggedIsWorked'
  BY <1>3 DEF IInv, LoggedIsWorked
<1> QED BY <1>2, <1>4 DEF IInv

\* An entry is made only when both reports and the confirmation are there.
LEMMA EnterKeeps ==
  ASSUME IInv, NEW pair \in Pairs, Enter(pair[1], pair[2])
  PROVE  IInv'
<1>1. pair = <<pair[1], pair[2]>> /\ pair[1] \in Stations /\ pair[2] \in Stations
  BY DEF Pairs
<1>2. QsoTypeOK'
  BY <1>1 DEF IInv, QsoTypeOK, Enter
<1>3. got' = got /\ confirmed' = confirmed
  BY DEF Enter
<1>4. ASSUME NEW s \in Stations, NEW p \in Stations, s # p, logs'[<<s, p>>] > 0
      PROVE  <<s, p>> \in got /\ <<p, s>> \in got /\ <<s, p>> \in confirmed
  <2>1. <<s, p>> \in Pairs
    BY <1>4 DEF Pairs
  <2>2. CASE <<s, p>> = pair
    <3>1. s = pair[1] /\ p = pair[2]
      BY <1>1, <2>2
    <3> QED BY <3>1 DEF Enter
  <2>3. CASE <<s, p>> # pair
    <3>1. logs'[<<s, p>>] = logs[<<s, p>>]
      BY <1>1, <2>1, <2>3 DEF Enter, IInv, QsoTypeOK
    <3> QED BY <1>4, <3>1 DEF IInv, LoggedIsWorked
  <2> QED BY <2>2, <2>3
<1> QED BY <1>2, <1>3, <1>4 DEF IInv, LoggedIsWorked

\* A station in the log is one with which reports were exchanged both ways and
\* which confirmed its own: what a log entry stands for (on_logQSOButton_clicked).
THEOREM EntriesAreContacts == QsoSpec => []LoggedIsWorked
<1>1. QsoInit => IInv
  <2> SUFFICES ASSUME QsoInit PROVE IInv
    OBVIOUS
  <2>1. QsoTypeOK
    BY DEF QsoInit, QsoTypeOK
  <2>2. \A s, p \in Stations : s # p => <<s, p>> \in Pairs
    BY DEF Pairs
  <2>3. LoggedIsWorked
    BY <2>2 DEF QsoInit, LoggedIsWorked
  <2> QED BY <2>1, <2>3 DEF IInv
<1>2. IInv /\ [QsoNext]_exchange => IInv'
  <2> SUFFICES ASSUME IInv, [QsoNext]_exchange PROVE IInv'
    OBVIOUS
  <2>1. CASE QsoNext
    BY <2>1, HearKeeps, EnterKeeps DEF QsoNext
  <2>2. CASE UNCHANGED exchange
    BY <2>2 DEF exchange, IInv, QsoTypeOK, LoggedIsWorked
  <2> QED BY <2>1, <2>2
<1>3. IInv => LoggedIsWorked
  BY DEF IInv
<1> QED BY <1>1, <1>2, <1>3, PTL DEF QsoSpec

=============================================================================
