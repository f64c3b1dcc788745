--------------------------- MODULE AutoSeq_proofs ---------------------------
(* Type correctness of AutoSeq, for any stations, settings and bounds; in  *)
(* particular no window counts more idle periods than the Tx watchdog      *)
(* allows, however its handlers are combined.                              *)
(*                                                                         *)
(* Then two stations, with any settings and bounds: what one of them logs  *)
(* is a contact of the abstract module Qso.  Their handlers come in three  *)
(* sorts, which is all the proof looks at: they send a message, take       *)
(* notice of one, or only switch Enable Tx and log (Sends, Takes, Rests).  *)
EXTENDS AutoSeq, TLAPS

\* What the lemmas about handlers assume of a station.
Station(s) == s \in Stations /\ setting \in [Stations -> Settings]

LEMMA SettingTypes ==
  ASSUME NEW s, Station(s)
  PROVE  /\ setting[s].callFirst \in BOOLEAN
         /\ setting[s].rr73 \in BOOLEAN
         /\ setting[s].wait \in BOOLEAN
BY SettingsAssumption DEF Station

\* A window stays a window when one of its fields gets a value of its type.
LEMMA Fields ==
  ASSUME NEW w \in Window, NEW x \in BOOLEAN
  PROVE  /\ [w EXCEPT !.auto = x] \in Window
         /\ [w EXCEPT !.callingCQ = x] \in Window
         /\ [w EXCEPT !.doubleClicked = x] \in Window
         /\ [w EXCEPT !.selected = x] \in Window
         /\ [w EXCEPT !.restart = x] \in Window
         /\ [w EXCEPT !.logTimer = x] \in Window
         /\ [w EXCEPT !.stopWRTimer = x] \in Window
         /\ [w EXCEPT !.last73 = x] \in Window
         /\ \A i \in 0..Patience : [w EXCEPT !.idle = i] \in Window
         /\ \A n \in 1..6 : [w EXCEPT !.ntx = n] \in Window
         /\ \A p \in CALLING..SIGNOFF : [w EXCEPT !.progress = p] \in Window
         /\ \A d \in Stations : [w EXCEPT !.dx = d] \in Window
         /\ \A f \in {0, 1} : [w EXCEPT !.txFirst = f] \in Window
         /\ \A m \in Message : [w EXCEPT !.msgSent0 = m] \in Window
BY DEF Window

\* The answers to a message set the selected message and the progress.
LEMMA Selects ==
  ASSUME NEW w \in Window, NEW n \in 1..6, NEW p \in CALLING..SIGNOFF
  PROVE  [w EXCEPT !.ntx = n, !.progress = p] \in Window
<1>1. [w EXCEPT !.ntx = n, !.progress = p] = [[w EXCEPT !.ntx = n] EXCEPT !.progress = p]
  BY DEF Window
<1> QED BY <1>1, Fields

\* The values of QSOProgress.
LEMMA ProgressValues ==
  {CALLING, REPLYING, REPORT, ROGER_REPORT, ROGERS, SIGNOFF} \subseteq CALLING..SIGNOFF
BY DEF CALLING, REPLYING, REPORT, ROGER_REPORT, ROGERS, SIGNOFF

\* Enable Tx switched on or off.
LEMMA AutoTxModeType ==
  ASSUME NEW s, Station(s), NEW w \in Window, NEW on \in BOOLEAN
  PROVE  AutoTxMode(s, w, on) \in Window
<1> DEFINE c == on /\ (w.callingCQ \/ (setting[s].callFirst /\ w.progress = CALLING))
<1>1. c \in BOOLEAN
  OBVIOUS
<1>2. AutoTxMode(s, w, on)
        = [w EXCEPT !.auto = on, !.stopWRTimer = FALSE, !.callingCQ = c]
  BY Zenon DEF AutoTxMode
<1> HIDE DEF c
<1>3. [w EXCEPT !.auto = on, !.stopWRTimer = FALSE, !.callingCQ = c]
        = [[[w EXCEPT !.auto = on] EXCEPT !.stopWRTimer = FALSE] EXCEPT !.callingCQ = c]
  BY DEF Window
<1>4. [[w EXCEPT !.auto = on] EXCEPT !.stopWRTimer = FALSE] \in Window
  BY Fields
<1>5. [[[w EXCEPT !.auto = on] EXCEPT !.stopWRTimer = FALSE] EXCEPT !.callingCQ = c] \in Window
  BY <1>1, <1>4, Fields
<1> QED BY <1>2, <1>3, <1>5

\* Enable Tx leaves the DX Call and the restart alone.
LEMMA AutoTxModeKeeps ==
  ASSUME NEW s, NEW w \in Window, NEW on
  PROVE  /\ AutoTxMode(s, w, on).dx = w.dx
         /\ AutoTxMode(s, w, on).restart = w.restart
BY DEF AutoTxMode, Window

\* Halt Tx.
LEMMA OnStopTxType ==
  ASSUME NEW s, Station(s), NEW w \in Window
  PROVE  OnStopTxButton(s, w) \in Window
<1> DEFINE v == IF w.auto THEN AutoTxMode(s, w, FALSE) ELSE w
<1>1. v \in Window
  BY AutoTxModeType
<1>2. OnStopTxButton(s, w) = [[v EXCEPT !.callingCQ = FALSE] EXCEPT !.stopWRTimer = FALSE]
  BY <1>1 DEF OnStopTxButton, Window
<1> HIDE DEF v
<1> QED BY <1>1, <1>2, Fields

\* Every kind of message selects one of the six.
LEMMA TextType ==
  ASSUME NEW s, Station(s), NEW w \in Window, w.ntx # 6 => w.dx # NoCall
  PROVE  Text(s, w) \in Message
BY SettingTypes DEF Text, Window, Message, Kinds, Station

\* The answer to a message for us.
LEMMA AnswerType ==
  ASSUME NEW w \in Window, NEW kind
  PROVE  Answer(w, kind) \in Window
<1> DEFINE p == IF w.progress >= ROGER_REPORT THEN SIGNOFF ELSE w.progress
<1>1. p \in CALLING..SIGNOFF
  BY ProgressValues DEF Window
<1>2. 1..6 = {1, 2, 3, 4, 5, 6}
  OBVIOUS
<1>3. kind = "grid" => Answer(w, kind) \in Window
  <2>1. [w EXCEPT !.ntx = 2, !.progress = REPORT] \in Window
    BY <1>2, ProgressValues, Selects
  <2> QED BY <2>1 DEF Answer
<1>4. kind = "rpt" => Answer(w, kind) \in Window
  <2>1. [w EXCEPT !.ntx = 3, !.progress = ROGER_REPORT] \in Window
    BY <1>2, ProgressValues, Selects
  <2> QED BY <2>1 DEF Answer
<1>5. kind = "Rrpt" => Answer(w, kind) \in Window
  <2>1. [w EXCEPT !.ntx = 4, !.progress = ROGERS] \in Window
    BY <1>2, ProgressValues, Selects
  <2> QED BY <2>1 DEF Answer
<1>6. kind \in {"RRR", "RR73"} => Answer(w, kind) \in Window
  <2>1. [w EXCEPT !.ntx = 5, !.progress = p] \in Window
    BY <1>1, <1>2, Selects
  <2>2. kind \in {"RRR", "RR73"} => Answer(w, kind) = [w EXCEPT !.ntx = 5, !.progress = p]
    BY DEF Answer
  <2> QED BY <2>1, <2>2
<1>7. kind = "73" => Answer(w, kind) \in Window
  <2> DEFINE v == [w EXCEPT !.ntx = 6, !.logTimer = TRUE, !.progress = SIGNOFF]
  <2>1. [w EXCEPT !.ntx = 6, !.progress = SIGNOFF] \in Window
    BY <1>2, ProgressValues, Selects
  <2>2. v = [[w EXCEPT !.ntx = 6, !.progress = SIGNOFF] EXCEPT !.logTimer = TRUE]
    BY DEF Window
  <2>3. v \in Window
    BY <2>1, <2>2, Fields
  <2>4. kind = "73" => Answer(w, kind) \in {v, w}
    BY DEF Answer
  <2> QED BY <2>3, <2>4
<1>8. kind \notin {"grid", "rpt", "Rrpt", "RRR", "RR73", "73"} => Answer(w, kind) = w
  BY DEF Answer
<1> QED BY <1>3, <1>4, <1>5, <1>6, <1>7, <1>8

\* The reaction to a message.
LEMMA ReactType ==
  ASSUME NEW s, Station(s), NEW w \in Window, NEW m \in Message
  PROVE  React(s, w, m) \in Window
<1> DEFINE r == [w EXCEPT !.dx = m.from, !.restart = @ \/ Transmitting(s)]
<1>1. m.from \in Stations /\ (w.restart \/ Transmitting(s)) \in BOOLEAN
  BY DEF Message
<1>2. r \in Window
  BY <1>1 DEF Window
<1>3. [AutoTxMode(s, r, TRUE) EXCEPT !.doubleClicked = FALSE] \in Window
  BY <1>2, AutoTxModeType, Fields
<1> QED BY <1>2, <1>3 DEF React

\* A message that is processed.
LEMMA ProcessMessageType ==
  ASSUME NEW s, Station(s), NEW w \in Window, NEW m \in Message, parity \in {0, 1}
  PROVE  ProcessMessage(s, w, m) \in Window
<1> DEFINE r == [w EXCEPT !.txFirst = parity]
<1>1. r \in Window
  BY Fields
<1>2. Answer(r, m.kind) \in Window
  BY <1>1, AnswerType
<1>3. 1 \in 1..6 /\ 2 \in 1..6
  OBVIOUS
<1>4. [r EXCEPT !.ntx = 2, !.progress = REPORT] \in Window
  BY <1>1, <1>3, ProgressValues, Selects
<1>5. [r EXCEPT !.ntx = 1, !.progress = REPLYING] \in Window
  BY <1>1, <1>3, ProgressValues, Selects
<1> HIDE DEF r
<1>6. /\ React(s, r, m) \in Window
      /\ React(s, Answer(r, m.kind), m) \in Window
      /\ React(s, [r EXCEPT !.ntx = 2, !.progress = REPORT], m) \in Window
      /\ React(s, [r EXCEPT !.ntx = 1, !.progress = REPLYING], m) \in Window
  BY <1>1, <1>2, <1>4, <1>5, ReactType
<1>7. ProcessMessage(s, w, m) \in
        {r, React(s, r, m), React(s, Answer(r, m.kind), m),
         React(s, [r EXCEPT !.ntx = 2, !.progress = REPORT], m),
         React(s, [r EXCEPT !.ntx = 1, !.progress = REPLYING], m)}
  BY Zenon DEF ProcessMessage, r
<1> QED BY <1>1, <1>6, <1>7

\* A message that Auto Seq looks at.
LEMMA AutoSequenceType ==
  ASSUME NEW s, Station(s), NEW w \in Window, NEW m \in Message, parity \in {0, 1},
         NEW near \in BOOLEAN
  PROVE  AutoSequence(s, w, m, near) \in Window
BY OnStopTxType, ProcessMessageType DEF AutoSequence

\* A message that Wait & Reply looks at.
LEMMA WaitAndReplyType ==
  ASSUME NEW s, Station(s), NEW w \in Window, NEW m \in Message, parity \in {0, 1}
  PROVE  WaitAndReply(s, w, m) \in Window
<1> DEFINE v == [w EXCEPT !.idle = 0, !.doubleClicked = TRUE]
<1>1. v \in Window
  <2>1. v = [[w EXCEPT !.idle = 0] EXCEPT !.doubleClicked = TRUE]
    BY DEF Window
  <2>2. 0 \in 0..Patience
    BY BoundsAssumption
  <2> HIDE DEF v
  <2>3. [w EXCEPT !.idle = 0] \in Window
    BY <2>2, Fields
  <2> QED BY <2>1, <2>3, Fields
<1> HIDE DEF v
<1>2. AutoTxMode(s, ProcessMessage(s, v, m), TRUE) \in Window
  BY <1>1, ProcessMessageType, AutoTxModeType
<1>3. [AutoTxMode(s, ProcessMessage(s, v, m), TRUE) EXCEPT !.stopWRTimer = TRUE] \in Window
  BY <1>2, Fields
<1> QED BY <1>3 DEF WaitAndReply, v

\* A message that may answer a CQ.
LEMMA CqFirstType ==
  ASSUME NEW s, Station(s), NEW w \in Window, NEW m \in Message, parity \in {0, 1}
  PROVE  CqFirst(s, w, m) \in Window
<1> DEFINE v == [w EXCEPT !.doubleClicked = TRUE, !.selected = TRUE]
<1>1. v \in Window
  BY DEF Window
<1> HIDE DEF v
<1>2. ProcessMessage(s, AutoTxMode(s, v, TRUE), m) \in Window
  BY <1>1, ProcessMessageType, AutoTxModeType
<1> QED BY <1>2 DEF CqFirst, v

\* The tones of the selected message; this ends a restart.
LEMMA GenerateType ==
  ASSUME NEW s, Station(s), NEW w \in Window
  PROVE  Generate(s, w) \in Window /\ ~Generate(s, w).restart
<1> DEFINE m == Text(s, w)
           log == w.logTimer \/ ((Is73(m) /\ ~w.last73) /\ w.progress # CALLING)
           is73 == Is73(m)
           cq == w.ntx = 6
           g == [w EXCEPT !.restart = FALSE, !.last73 = is73, !.callingCQ = cq,
                          !.logTimer = log]
           off == AutoTxMode(s, g, FALSE)
<1>1. log \in BOOLEAN /\ is73 \in BOOLEAN /\ cq \in BOOLEAN
  BY DEF Is73
<1>2. Generate(s, w) \in {g, [off EXCEPT !.ntx = 6, !.progress = CALLING]}
  BY Zenon DEF Generate
<1> HIDE DEF log, is73, cq
<1>3. g = [[[[w EXCEPT !.restart = FALSE] EXCEPT !.last73 = is73]
             EXCEPT !.callingCQ = cq] EXCEPT !.logTimer = log]
  BY DEF Window
<1>4. g \in Window
  <2>1. [w EXCEPT !.restart = FALSE] \in Window
    BY Fields
  <2>2. [[w EXCEPT !.restart = FALSE] EXCEPT !.last73 = is73] \in Window
    BY <1>1, <2>1, Fields
  <2>3. [[[w EXCEPT !.restart = FALSE] EXCEPT !.last73 = is73] EXCEPT !.callingCQ = cq] \in Window
    BY <1>1, <2>2, Fields
  <2>4. [[[[w EXCEPT !.restart = FALSE] EXCEPT !.last73 = is73]
             EXCEPT !.callingCQ = cq] EXCEPT !.logTimer = log] \in Window
    BY <1>1, <2>3, Fields
  <2> QED BY <1>3, <2>4
<1>5. ~g.restart
  BY DEF Window
<1> HIDE DEF g
<1>6. off \in Window /\ ~off.restart
  <2>1. off \in Window
    BY <1>4, AutoTxModeType
  <2>2. off.restart = g.restart
    BY <1>4, AutoTxModeKeeps
  <2> QED BY <1>5, <2>1, <2>2
<1> HIDE DEF off
<1>7. [off EXCEPT !.ntx = 6, !.progress = CALLING] \in Window
  <2>1. 6 \in 1..6
    OBVIOUS
  <2> QED BY <1>6, <2>1, ProgressValues, Selects
<1>8. ~[off EXCEPT !.ntx = 6, !.progress = CALLING].restart
  BY <1>6 DEF Window
<1> QED BY <1>2, <1>4, <1>5, <1>7, <1>8

\* The rising edge.
LEMMA DisplayType ==
  ASSUME NEW w \in Window, NEW m \in Message
  PROVE  Display(w, m) \in Window
<1> DEFINE i == IF m = w.msgSent0 THEN w.idle ELSE 0
           p == w.ntx % 6
<1>1. i \in 0..Patience /\ p \in CALLING..SIGNOFF
  BY BoundsAssumption DEF Window, CALLING, SIGNOFF
<1>2. Display(w, m) = [w EXCEPT !.idle = i, !.msgSent0 = m, !.progress = p]
  BY Zenon DEF Display
<1> HIDE DEF i, p
<1>3. [w EXCEPT !.idle = i, !.msgSent0 = m, !.progress = p]
        = [[[w EXCEPT !.idle = i] EXCEPT !.msgSent0 = m] EXCEPT !.progress = p]
  BY DEF Window
<1>4. [w EXCEPT !.idle = i] \in Window
  BY <1>1, Fields
<1>5. [[w EXCEPT !.idle = i] EXCEPT !.msgSent0 = m] \in Window
  BY <1>4, Fields
<1>6. [[[w EXCEPT !.idle = i] EXCEPT !.msgSent0 = m] EXCEPT !.progress = p] \in Window
  BY <1>1, <1>5, Fields
<1> QED BY <1>2, <1>3, <1>6

-----------------------------------------------------------------------------
(* A message changes during its transmission only when there is a DX Call  *)
(* to put into the new one.                                                *)

Addressed(w) == w.restart => w.dx # NoCall

\* Enable Tx keeps a window addressed.
LEMMA AutoTxModeAddresses ==
  ASSUME NEW s, NEW w \in Window, NEW on, Addressed(w)
  PROVE  Addressed(AutoTxMode(s, w, on))
<1>1. AutoTxMode(s, w, on).dx = w.dx /\ AutoTxMode(s, w, on).restart = w.restart
  BY AutoTxModeKeeps
<1> QED BY <1>1 DEF Addressed

\* Halt Tx leaves the DX Call and the restart alone.
LEMMA OnStopTxKeeps ==
  ASSUME NEW s, Station(s), NEW w \in Window
  PROVE  /\ OnStopTxButton(s, w).dx = w.dx
         /\ OnStopTxButton(s, w).restart = w.restart
<1> DEFINE v == IF w.auto THEN AutoTxMode(s, w, FALSE) ELSE w
<1>1. v \in Window /\ v.dx = w.dx /\ v.restart = w.restart
  BY AutoTxModeType, AutoTxModeKeeps
<1>2. OnStopTxButton(s, w) = [v EXCEPT !.callingCQ = FALSE, !.stopWRTimer = FALSE]
  BY Zenon DEF OnStopTxButton
<1> HIDE DEF v
<1> QED BY <1>1, <1>2 DEF Window

\* A reaction addresses the sender of the message.
LEMMA ReactAddresses ==
  ASSUME NEW s, Station(s), NEW w \in Window, NEW m \in Message
  PROVE  Addressed(React(s, w, m))
<1> DEFINE x == w.restart \/ Transmitting(s)
           r == [w EXCEPT !.dx = m.from, !.restart = x]
           on == AutoTxMode(s, r, TRUE)
<1>1. m.from \in Stations /\ x \in BOOLEAN
  BY DEF Message
<1>2. React(s, w, m) \in {r, [on EXCEPT !.doubleClicked = FALSE]}
  BY Zenon DEF React
<1> HIDE DEF x
<1>3. r = [[w EXCEPT !.dx = m.from] EXCEPT !.restart = x]
  BY DEF Window
<1>4. [w EXCEPT !.dx = m.from] \in Window
  BY <1>1, Fields
<1>5. r \in Window
  BY <1>1, <1>3, <1>4, Fields
<1>6. r.dx = m.from
  BY DEF Window
<1> HIDE DEF r
<1>7. on \in Window /\ on.dx = m.from
  BY <1>5, <1>6, AutoTxModeType, AutoTxModeKeeps
<1> HIDE DEF on
<1>8. [on EXCEPT !.doubleClicked = FALSE].dx = m.from
  BY <1>7 DEF Window
<1>9. React(s, w, m).dx = m.from
  BY <1>2, <1>6, <1>8
<1> QED BY <1>1, <1>9, StationsAssumption DEF Addressed

\* Whatever is processed is addressed.
LEMMA ProcessMessageAddresses ==
  ASSUME NEW s, Station(s), NEW w \in Window, NEW m \in Message, parity \in {0, 1},
         Addressed(w)
  PROVE  Addressed(ProcessMessage(s, w, m))
<1> DEFINE r == [w EXCEPT !.txFirst = parity]
           report == [r EXCEPT !.ntx = 2, !.progress = REPORT]
           reply == [r EXCEPT !.ntx = 1, !.progress = REPLYING]
<1>1. r \in Window
  BY Fields
<1>2. Addressed(r)
  BY DEF Addressed, Window
<1>3. ProcessMessage(s, w, m) \in
        {r, React(s, r, m), React(s, Answer(r, m.kind), m), React(s, report, m),
         React(s, reply, m)}
  BY Zenon DEF ProcessMessage
<1>4. Answer(r, m.kind) \in Window
  BY <1>1, AnswerType
<1> HIDE DEF r
<1>5. 1 \in 1..6 /\ 2 \in 1..6
  OBVIOUS
<1>6. report \in Window /\ reply \in Window
  BY <1>1, <1>5, ProgressValues, Selects
<1> HIDE DEF report, reply
<1>7. /\ Addressed(React(s, r, m)) /\ Addressed(React(s, Answer(r, m.kind), m))
      /\ Addressed(React(s, report, m)) /\ Addressed(React(s, reply, m))
  BY <1>1, <1>4, <1>6, ReactAddresses
<1> QED BY <1>2, <1>3, <1>7

\* A message that Auto Seq looks at.
LEMMA AutoSequenceAddresses ==
  ASSUME NEW s, Station(s), NEW w \in Window, NEW m \in Message, parity \in {0, 1},
         NEW near \in BOOLEAN, Addressed(w)
  PROVE  Addressed(AutoSequence(s, w, m, near))
<1>1. Addressed(OnStopTxButton(s, w))
  BY OnStopTxKeeps DEF Addressed
<1>2. Addressed(ProcessMessage(s, w, m))
  BY ProcessMessageAddresses
<1> QED BY <1>1, <1>2 DEF AutoSequence

\* A message that Wait & Reply looks at.
LEMMA WaitAndReplyAddresses ==
  ASSUME NEW s, Station(s), NEW w \in Window, NEW m \in Message, parity \in {0, 1},
         Addressed(w)
  PROVE  Addressed(WaitAndReply(s, w, m))
<1> DEFINE v == [w EXCEPT !.idle = 0, !.doubleClicked = TRUE]
           p == ProcessMessage(s, v, m)
           on == AutoTxMode(s, p, TRUE)
<1>1. WaitAndReply(s, w, m) \in {[on EXCEPT !.stopWRTimer = TRUE], w}
  BY Zenon DEF WaitAndReply
<1>2. v \in Window /\ Addressed(v)
  <2>1. v = [[w EXCEPT !.idle = 0] EXCEPT !.doubleClicked = TRUE]
    BY DEF Window
  <2>2. 0 \in 0..Patience
    BY BoundsAssumption
  <2>3. [w EXCEPT !.idle = 0] \in Window
    BY <2>2, Fields
  <2>4. v \in Window
    BY <2>1, <2>3, Fields
  <2>5. v.dx = w.dx /\ v.restart = w.restart
    BY DEF Window
  <2> QED BY <2>4, <2>5 DEF Addressed
<1> HIDE DEF v
<1>3. p \in Window /\ Addressed(p)
  BY <1>2, ProcessMessageType, ProcessMessageAddresses
<1> HIDE DEF p
<1>4. on \in Window /\ Addressed(on)
  BY <1>3, AutoTxModeType, AutoTxModeAddresses
<1> HIDE DEF on
<1>5. Addressed([on EXCEPT !.stopWRTimer = TRUE])
  BY <1>4 DEF Addressed, Window
<1> QED BY <1>1, <1>5

\* A message that may answer a CQ.
LEMMA CqFirstAddresses ==
  ASSUME NEW s, Station(s), NEW w \in Window, NEW m \in Message, parity \in {0, 1},
         Addressed(w)
  PROVE  Addressed(CqFirst(s, w, m))
<1> DEFINE v == [w EXCEPT !.doubleClicked = TRUE, !.selected = TRUE]
           on == AutoTxMode(s, v, TRUE)
<1>1. CqFirst(s, w, m) \in {ProcessMessage(s, on, m), w}
  BY Zenon DEF CqFirst
<1>2. v \in Window
  BY DEF Window
<1>3. v.dx = w.dx /\ v.restart = w.restart
  BY DEF Window
<1> HIDE DEF v
<1>4. on \in Window /\ Addressed(on)
  BY <1>2, <1>3, AutoTxModeType, AutoTxModeKeeps DEF Addressed
<1> HIDE DEF on
<1>5. Addressed(ProcessMessage(s, on, m))
  BY <1>4, ProcessMessageAddresses
<1> QED BY <1>1, <1>5

-----------------------------------------------------------------------------
(* The steps.                                                              *)

\* Inductive: the types, and whoever is about to restart has a DX Call.
IInv == TypeOK /\ \A s \in Stations : Addressed(st[s])

\* The type invariant of the variables that are not windows.
Rest ==
  /\ setting \in [Stations -> Settings]
  /\ parity \in {0, 1}
  /\ air \subseteq Message
  /\ inbox \in [Stations -> SUBSET Message] /\ shown \in [Stations -> SUBSET Message]
  /\ acts \in [Stations -> Nat]
  /\ manual \subseteq Stations /\ disturbed \in BOOLEAN

\* A step that gives one station another window.
LEMMA OneWindow ==
  ASSUME IInv, NEW s \in Stations, NEW w \in Window, Addressed(w), Set(s, w), Rest'
  PROVE  IInv'
BY DEF IInv, TypeOK, Set, Rest, Addressed

\* The windows of an invariant state.
LEMMA Windows ==
  ASSUME IInv, NEW s \in Stations
  PROVE  Station(s) /\ st[s] \in Window /\ Addressed(st[s]) /\ Rest
BY DEF IInv, TypeOK, Station, Rest

\* The start of a transmission.
LEMMA StartTxKeeps == ASSUME IInv, NEW s \in Stations, StartTx(s) PROVE IInv'
<1> DEFINE m == Text(s, st[s])
           g == Generate(s, st[s])
<1>1. Station(s) /\ st[s] \in Window /\ Rest
  BY Windows
<1>2. m \in Message
  BY <1>1, TextType DEF StartTx
<1>3. g \in Window /\ ~g.restart
  BY <1>1, GenerateType
<1>4. Set(s, Display(g, m)) /\ air' = air \cup {m}
  BY DEF StartTx
<1>5. Rest'
  BY <1>1, <1>2, <1>4 DEF Rest, StartTx
<1> HIDE DEF m, g
<1>6. Display(g, m) \in Window
  BY <1>2, <1>3, DisplayType
<1>7. Addressed(Display(g, m))
  BY <1>3 DEF Display, Addressed, Window
<1> QED BY <1>4, <1>5, <1>6, <1>7, OneWindow

\* The change of a message during its transmission.
LEMMA RestartKeeps == ASSUME IInv, NEW s \in Stations, Restart(s) PROVE IInv'
<1>1. Station(s) /\ st[s] \in Window /\ Addressed(st[s]) /\ Rest
  BY Windows
<1>2. Text(s, st[s]) \in Message
  BY <1>1, TextType DEF Restart, Addressed
<1>3. Generate(s, st[s]) \in Window /\ Addressed(Generate(s, st[s]))
  BY <1>1, GenerateType DEF Addressed
<1>4. Rest'
  BY <1>1, <1>2 DEF Rest, Restart
<1>5. Set(s, Generate(s, st[s]))
  BY DEF Restart
<1> QED BY <1>3, <1>4, <1>5, OneWindow

\* A decoded message.
LEMMA DecodeKeeps == ASSUME IInv, NEW s \in Stations, Decode(s) PROVE IInv'
<1>1. Station(s) /\ st[s] \in Window /\ Addressed(st[s]) /\ Rest
  BY Windows
<1>2. PICK m \in inbox[s], near \in BOOLEAN :
        /\ Set(s, AutoSequence(s, CqFirst(s, WaitAndReply(s, st[s], m), m), m, near))
        /\ inbox' = [inbox EXCEPT ![s] = @ \ {m}]
        /\ shown' = [shown EXCEPT ![s] = @ \cup {m}]
        /\ air' = IF st'[s].auto \/ ~st[s].auto THEN air ELSE {n \in air : n.from # s}
        /\ UNCHANGED <<setting, parity, acts, manual, disturbed>>
  BY DEF Decode
<1>3. m \in Message /\ parity \in {0, 1}
  BY <1>1 DEF Rest
<1> DEFINE v == WaitAndReply(s, st[s], m)
           u == CqFirst(s, v, m)
           w == AutoSequence(s, u, m, near)
<1>4. v \in Window /\ Addressed(v)
  BY <1>1, <1>3, WaitAndReplyType, WaitAndReplyAddresses
<1> HIDE DEF v
<1>5. u \in Window /\ Addressed(u)
  BY <1>1, <1>3, <1>4, CqFirstType, CqFirstAddresses
<1> HIDE DEF u
<1>6. w \in Window /\ Addressed(w)
  BY <1>1, <1>3, <1>5, AutoSequenceType, AutoSequenceAddresses
<1>7. Set(s, w)
  BY <1>2 DEF u, v
<1> HIDE DEF w
<1>8. Rest'
  BY <1>1, <1>2, <1>3 DEF Rest
<1> QED BY <1>6, <1>7, <1>8, OneWindow

\* Enable Tx switched off by a timer or by the watchdog.
LEMMA Off ==
  ASSUME IInv, NEW s \in Stations
  PROVE  /\ AutoTxMode(s, st[s], FALSE) \in Window
         /\ Addressed(AutoTxMode(s, st[s], FALSE))
<1>1. Station(s) /\ st[s] \in Window /\ Addressed(st[s])
  BY Windows
<1> QED BY <1>1, AutoTxModeType, AutoTxModeAddresses

\* An entry in the log.
LEMMA LogQSOKeeps == ASSUME IInv, NEW s \in Stations, LogQSO(s) PROVE IInv'
<1> DEFINE off == AutoTxMode(s, st[s], FALSE)
<1>1. off \in Window /\ Addressed(off)
  BY Off
<1>2. Set(s, [off EXCEPT !.logTimer = FALSE])
  BY DEF LogQSO
<1>3. Rest'
  BY Windows DEF LogQSO, Rest
<1> HIDE DEF off
<1>4. [off EXCEPT !.logTimer = FALSE] \in Window
  BY <1>1, Fields
<1>5. Addressed([off EXCEPT !.logTimer = FALSE])
  BY <1>1 DEF Addressed, Window
<1> QED BY <1>2, <1>3, <1>4, <1>5, OneWindow

\* The Tx watchdog.
LEMMA TxWatchdogKeeps == ASSUME IInv, NEW s \in Stations, TxWatchdog(s) PROVE IInv'
<1>1. Set(s, AutoTxMode(s, st[s], FALSE))
  BY DEF TxWatchdog
<1>2. Rest'
  BY Windows DEF TxWatchdog, Rest
<1> QED BY <1>1, <1>2, Off, OneWindow

\* The timer of Wait & Reply.
LEMMA StopWRTimeoutKeeps == ASSUME IInv, NEW s \in Stations, StopWRTimeout(s) PROVE IInv'
<1>1. Set(s, AutoTxMode(s, st[s], FALSE))
  BY DEF StopWRTimeout
<1>2. Rest'
  BY Windows DEF StopWRTimeout, Rest
<1> QED BY <1>1, <1>2, Off, OneWindow

\* An operator's act.
LEMMA ActKeeps ==
  ASSUME IInv, NEW s \in Stations, NEW w \in Window, Addressed(w), NEW interferes \in BOOLEAN,
         Act(s, w, interferes), air' \subseteq air
  PROVE  IInv'
<1>1. Set(s, [w EXCEPT !.idle = 0])
  BY DEF Act
<1>2. Rest'
  BY Windows DEF Act, Rest
<1>3. 0 \in 0..Patience
  BY BoundsAssumption
<1>4. [w EXCEPT !.idle = 0] \in Window
  BY <1>3, Fields
<1>5. Addressed([w EXCEPT !.idle = 0])
  BY DEF Addressed, Window
<1> QED BY <1>1, <1>2, <1>4, <1>5, OneWindow

\* Enable Tx.
LEMMA EnableTxKeeps == ASSUME IInv, NEW s \in Stations, EnableTx(s) PROVE IInv'
<1> DEFINE on == AutoTxMode(s, st[s], TRUE)
<1>1. on \in Window /\ Addressed(on)
  <2>1. Station(s) /\ st[s] \in Window /\ Addressed(st[s])
    BY Windows
  <2> QED BY <2>1, AutoTxModeType, AutoTxModeAddresses
<1>2. Act(s, on, FALSE) /\ air' \subseteq air
  BY DEF EnableTx
<1> QED BY <1>1, <1>2, ActKeeps

\* Halt Tx.
LEMMA StopTxKeeps == ASSUME IInv, NEW s \in Stations, StopTx(s) PROVE IInv'
<1> DEFINE off == OnStopTxButton(s, st[s])
<1>1. off \in Window /\ Addressed(off)
  BY Windows, OnStopTxType, OnStopTxKeeps DEF Addressed
<1>2. Act(s, off, TRUE) /\ air' \subseteq air
  BY DEF StopTx
<1> QED BY <1>1, <1>2, ActKeeps

\* A double-click on a decoded message.
LEMMA DoubleClickKeeps == ASSUME IInv, NEW s \in Stations, DoubleClick(s) PROVE IInv'
<1>1. Station(s) /\ st[s] \in Window /\ Addressed(st[s]) /\ Rest
  BY Windows
<1> DEFINE v == [st[s] EXCEPT !.doubleClicked = TRUE]
<1>2. PICK m \in shown[s] :
        Act(s, ProcessMessage(s, v, m), st[s].auto) /\ UNCHANGED air
  BY DEF DoubleClick
<1>3. m \in Message /\ parity \in {0, 1}
  BY <1>1 DEF Rest
<1>4. v \in Window
  BY <1>1, Fields
<1>5. Addressed(v)
  BY <1>1 DEF Addressed, Window
<1>6. st[s].auto \in BOOLEAN
  BY <1>1 DEF Window
<1> HIDE DEF v
<1>7. ProcessMessage(s, v, m) \in Window /\ Addressed(ProcessMessage(s, v, m))
  BY <1>1, <1>3, <1>4, <1>5, ProcessMessageType, ProcessMessageAddresses
<1> QED BY <1>2, <1>6, <1>7, ActKeeps

\* The next period: nobody's watchdog is due, so that nobody's idle periods
\* exceed it.
LEMMA NextPeriodKeeps == ASSUME IInv, NextPeriod PROVE IInv'
<1> DEFINE idle(s) == IF st[s].auto THEN st[s].idle + 1 ELSE 0
           w(s) == [st[s] EXCEPT !.selected = FALSE, !.idle = idle(s)]
<1>1. \A s \in Stations : w(s) \in Window /\ Addressed(w(s))
  <2> TAKE s \in Stations
  <2>1. st[s] \in Window /\ Addressed(st[s])
    BY Windows
  <2>2. idle(s) \in 0..Patience
    <3>1. st[s].idle \in 0..Patience
      BY <2>1 DEF Window
    <3>2. ~(st[s].auto /\ st[s].idle = Patience)
      BY DEF NextPeriod, WatchdogDue
    <3> QED BY <3>1, <3>2, BoundsAssumption
  <2>3. [st[s] EXCEPT !.selected = FALSE] \in Window
    BY <2>1, Fields
  <2> HIDE DEF idle
  <2>4. w(s) = [[st[s] EXCEPT !.selected = FALSE] EXCEPT !.idle = idle(s)]
    BY <2>1 DEF Window
  <2>5. w(s) \in Window
    BY <2>2, <2>3, <2>4, Fields
  <2>6. w(s).dx = st[s].dx /\ w(s).restart = st[s].restart
    BY <2>1 DEF Window
  <2> QED BY <2>1, <2>5, <2>6 DEF Addressed
<1>2. st' = [s \in Stations |-> w(s)]
  BY Zenon DEF NextPeriod
<1> HIDE DEF w
<1>3. st' \in [Stations -> Window] /\ \A s \in Stations : Addressed(st'[s])
  BY <1>1, <1>2
<1>4. Rest'
  <2>1. parity' \in {0, 1}
    <3>1. parity \in {0, 1} /\ parity' = 1 - parity
      BY DEF NextPeriod, IInv, TypeOK
    <3> QED BY <3>1
  <2>2. inbox' \in [Stations -> SUBSET Message] /\ shown' \in [Stations -> SUBSET Message]
    BY DEF NextPeriod, IInv, TypeOK
  <2>3. disturbed' \in BOOLEAN
    BY DEF NextPeriod, IInv, TypeOK
  <2> QED BY <2>1, <2>2, <2>3 DEF NextPeriod, IInv, TypeOK, Rest
<1> QED BY <1>3, <1>4 DEF IInv, TypeOK, Rest, Addressed

\* All stations start with a window.
LEMMA InitKeeps == Init => IInv
<1> SUFFICES ASSUME Init PROVE IInv
  OBVIOUS
<1>1. PICK first \in [Stations -> TxFirst] :
        st = [s \in Stations |->
              [auto |-> FALSE, ntx |-> 6, progress |-> CALLING, dx |-> NoCall,
               txFirst |-> first[s], callingCQ |-> FALSE, doubleClicked |-> FALSE,
               selected |-> FALSE, restart |-> FALSE, logTimer |-> FALSE,
               stopWRTimer |-> FALSE, idle |-> 0, last73 |-> FALSE,
               msgSent0 |-> NoMessage]]
  BY DEF Init
<1>2. \A s \in Stations : st[s] \in Window /\ Addressed(st[s])
  <2> TAKE s \in Stations
  <2>1. first[s] \in {0, 1}
    BY <1>1, TxFirstAssumption
  <2>2. 0 \in 0..Patience /\ 6 \in 1..6
    BY BoundsAssumption
  <2> QED BY <1>1, <2>1, <2>2, ProgressValues DEF Window, Addressed
<1>3. Rest
  BY DEF Init, Rest
<1> QED BY <1>1, <1>2, <1>3 DEF IInv, TypeOK, Rest

\* Every step keeps the invariant.
LEMMA NextKeeps == IInv /\ [Next]_vars => IInv'
<1> SUFFICES ASSUME IInv, [Next]_vars PROVE IInv'
  OBVIOUS
<1>1. CASE NextPeriod
  BY <1>1, NextPeriodKeeps
<1>2. ASSUME NEW s \in Stations,
             \/ StartTx(s) \/ Restart(s) \/ Decode(s)
             \/ LogQSO(s) \/ TxWatchdog(s) \/ StopWRTimeout(s)
             \/ EnableTx(s) \/ StopTx(s) \/ DoubleClick(s)
      PROVE  IInv'
  BY <1>2, StartTxKeeps, RestartKeeps, DecodeKeeps, LogQSOKeeps, TxWatchdogKeeps,
     StopWRTimeoutKeeps, EnableTxKeeps, StopTxKeeps, DoubleClickKeeps
<1>3. CASE UNCHANGED vars
  BY <1>3 DEF vars, IInv, TypeOK, Addressed
<1> QED BY <1>1, <1>2, <1>3 DEF Next

\* All variables keep their types; a station that is about to change its
\* message has a DX Call, and no station exceeds its Tx watchdog.
THEOREM TypeCorrect == Spec => []TypeOK
<1>1. IInv => TypeOK
  BY DEF IInv
<1> QED BY InitKeeps, NextKeeps, <1>1, PTL DEF Spec

-----------------------------------------------------------------------------
(* Two stations: what each of them knows of the exchange.                  *)

\* What a station has received in this period.
Heard(s) == inbox[s] \cup shown[s]

\* A message has the calls of two stations, or calls everyone.
Proper(m) == m.to # m.from /\ (m.to = Everyone <=> m.kind = "CQ")

\* Between two stations: m is from the other one, to s or to everyone.
ForUs(s, m) == m.from # s /\ (m.to = s <=> m.kind # "CQ")

\* After the message m the sender has selected this one of Tx1 .. Tx6.
Said(m, n) == /\ m.kind = "rpt" => n = 2
              /\ m.kind = "Rrpt" => n = 3
              /\ m.kind \in {"RRR", "RR73"} => n \in {4, 6}

\* In each period one station hears the other: one message, which it shows
\* after decoding it; a message is replaced only before the period ends.
Channel ==
  /\ \A m, n \in air : m.from = n.from => m = n
  /\ \A m \in air : Proper(m) /\ (st[m.from].restart \/ Said(m, st[m.from].ntx))
  /\ \A s \in Stations :
       /\ st[s].dx # s
       /\ \A m, n \in Heard(s) : m = n
       /\ inbox[s] \cap shown[s] = {}
       /\ \A m \in Heard(s) : ForUs(s, m) /\ Said(m, st[m.from].ntx)
       /\ st[s].restart => inbox[s] = {}
  /\ \A s, p \in Stations : s # p => Heard(s) = {} \/ Heard(p) = {}

\* Whoever has the confirmation does not sign off while the other still waits
\* for it.
NoCross == \A s, p \in Stations : s # p => ~(st[s].ntx = 5 /\ st[p].ntx = 3)

Both(s, p) == {<<s, p>>, <<p, s>>} \subseteq got

\* What a message or a window says of the exchange is so.
Truthful(m) == /\ m.kind = "Rrpt" => <<m.from, m.to>> \in got
               /\ m.kind \in {"RRR", "RR73"} => Both(m.from, m.to)

Knows(s, p) ==
  /\ st[s].logTimer => st[s].dx = p /\ Both(s, p) /\ <<s, p>> \in confirmed
  /\ st[s].ntx = 3 => <<s, p>> \in got
  /\ st[s].ntx \in {4, 5} \/ st[s].progress = ROGERS => Both(s, p) /\ <<s, p>> \in confirmed

Knowledge ==
  /\ \A m \in air : Truthful(m)
  /\ \A s \in Stations : \A m \in Heard(s) : Truthful(m)
  /\ \A s, p \in Stations : s # p => Knows(s, p)

\* A window that raises no log entry by itself.
Spent(s) ==
  /\ st[s].ntx = 5 => st[s].progress = CALLING
  /\ st[s].ntx = 4 \/ st[s].progress = ROGERS =>
       /\ st[s].ntx = 4 /\ st[s].last73 /\ st[s].restart
       /\ inbox[s] = {} /\ setting[s].rr73

\* While the log timer runs, what is still to be decoded cannot ask for RRR.
Logging(s) ==
  st[s].logTimer /\ inbox[s] # {} =>
    /\ Transmitting(s) /\ ~st[s].auto /\ st[s].last73 /\ st[s].progress = CALLING
    /\ st[s].ntx = 6
    /\ ~setting[s].rr73 => \A m \in inbox[s] : m.kind # "Rrpt"

\* A log entry is asked for once for what was heard since the last one.
OncePerNews ==
  \A s, p \in Stations : s # p =>
    /\ st[s].logTimer => <<s, p>> \in news
    /\ st[s].logTimer \/ <<s, p>> \notin news => Spent(s)
    /\ Logging(s)

QsoInv == Channel /\ NoCross /\ Knowledge /\ OncePerNews

\* Without the Wait features nothing happens by itself after a log entry.
Attended ==
  \A s \in Stations : ~setting[s].wait /\ s \notin manual =>
    /\ ~st[s].auto /\ ~st[s].logTimer
    /\ st[s].restart =>
         (st[s].ntx = 5 => st[s].progress = CALLING) /\ (st[s].ntx = 4 => st[s].last73)

-----------------------------------------------------------------------------
(* What the handlers do to the part of a window that a QSO depends on.     *)

\* The selected message, the progress and what goes with them are the same.
Same(w, v) ==
  /\ v.ntx = w.ntx /\ v.progress = w.progress /\ v.dx = w.dx
  /\ v.restart = w.restart /\ v.last73 = w.last73

\* What the answer to a message of this kind changes.
Answered(w, v, kind) ==
  CASE kind = "CQ" -> v.ntx = 1 /\ v.progress = REPLYING /\ v.logTimer = w.logTimer
    [] kind = "grid" -> v.ntx = 2 /\ v.progress = REPORT /\ v.logTimer = w.logTimer
    [] kind = "rpt" -> v.ntx = 3 /\ v.progress = ROGER_REPORT /\ v.logTimer = w.logTimer
    [] kind = "Rrpt" -> v.ntx = 4 /\ v.progress = ROGERS /\ v.logTimer = w.logTimer
    [] kind \in {"RRR", "RR73"} ->
         /\ v.ntx = 5 /\ v.logTimer = w.logTimer
         /\ v.progress = IF w.progress >= ROGER_REPORT THEN SIGNOFF ELSE w.progress
    [] kind = "73" /\ w.progress = ROGERS ->
         v.ntx = 6 /\ v.progress = SIGNOFF /\ v.logTimer
    [] OTHER -> v.ntx = w.ntx /\ v.progress = w.progress /\ v.logTimer = w.logTimer

\* The window v is w after the message m has been looked at: it is left alone
\* or reacts to m.
Reacted(s, w, v, m) ==
  \/ Same(w, v) /\ v.logTimer = w.logTimer
  \/ /\ v.dx = m.from /\ v.last73 = w.last73
     /\ v.restart = (w.restart \/ Transmitting(s))
     /\ Answered(w, v, m.kind)

\* Looking at a message twice is looking at it once.
LEMMA ReactedTwice ==
  ASSUME NEW s, NEW w \in Window, NEW v \in Window, NEW u \in Window, NEW m \in Message,
         Reacted(s, w, v, m), Reacted(s, v, u, m)
  PROVE  Reacted(s, w, u, m)
<1>1. CASE Same(w, v) /\ v.logTimer = w.logTimer
  BY <1>1 DEF Reacted, Same, Answered
<1>2. CASE Same(v, u) /\ u.logTimer = v.logTimer
  BY <1>2 DEF Reacted, Same, Answered
<1>3. CASE /\ v.dx = m.from /\ v.last73 = w.last73
           /\ v.restart = (w.restart \/ Transmitting(s))
           /\ Answered(w, v, m.kind)
           /\ u.dx = m.from /\ u.last73 = v.last73
           /\ u.restart = (v.restart \/ Transmitting(s))
           /\ Answered(v, u, m.kind)
  <2>1. Answered(w, u, m.kind)
    BY <1>3 DEF Answered, Message, Kinds, Window, CALLING, REPLYING, REPORT, ROGER_REPORT,
                ROGERS, SIGNOFF
  <2>2. (w.restart \/ Transmitting(s)) \in BOOLEAN /\ w.restart \in BOOLEAN
    BY DEF Window, Transmitting
  <2>3. u.restart = (w.restart \/ Transmitting(s))
    BY <1>3, <2>2
  <2> QED BY <1>3, <2>1, <2>3 DEF Reacted
<1> QED BY <1>1, <1>2, <1>3 DEF Reacted

\* Enable Tx.
LEMMA AutoTxModeSame ==
  ASSUME NEW s, NEW w \in Window, NEW on
  PROVE  /\ Same(w, AutoTxMode(s, w, on))
         /\ AutoTxMode(s, w, on).logTimer = w.logTimer
         /\ AutoTxMode(s, w, on).doubleClicked = w.doubleClicked
BY DEF AutoTxMode, Window, Same

LEMMA AutoTxModeAuto ==
  ASSUME NEW s, NEW w \in Window
  PROVE  AutoTxMode(s, w, TRUE).auto = TRUE /\ AutoTxMode(s, w, FALSE).auto = FALSE
BY DEF AutoTxMode, Window

LEMMA AutoTxModeOff ==
  ASSUME NEW s, NEW w \in Window
  PROVE  /\ Same(w, AutoTxMode(s, w, FALSE))
         /\ AutoTxMode(s, w, FALSE).logTimer = w.logTimer
         /\ AutoTxMode(s, w, FALSE).auto = FALSE
<1>1. Same(w, AutoTxMode(s, w, FALSE))
  BY AutoTxModeSame
<1>2. AutoTxMode(s, w, FALSE).logTimer = w.logTimer
  BY AutoTxModeSame
<1>3. AutoTxMode(s, w, FALSE).auto = FALSE
  BY AutoTxModeAuto
<1> QED BY <1>1, <1>2, <1>3

\* Halt Tx.
LEMMA OnStopTxSame ==
  ASSUME NEW s, Station(s), NEW w \in Window
  PROVE  /\ Same(w, OnStopTxButton(s, w))
         /\ OnStopTxButton(s, w).logTimer = w.logTimer
         /\ OnStopTxButton(s, w).auto = FALSE
<1> DEFINE v == IF w.auto THEN AutoTxMode(s, w, FALSE) ELSE w
<1>1. v \in Window /\ Same(w, v) /\ v.logTimer = w.logTimer /\ v.auto = FALSE
  <2>1. CASE w.auto
    <3>1. v = AutoTxMode(s, w, FALSE)
      BY <2>1
    <3>2. AutoTxMode(s, w, FALSE) \in Window
      BY AutoTxModeType
    <3>3. Same(w, AutoTxMode(s, w, FALSE)) /\ AutoTxMode(s, w, FALSE).logTimer = w.logTimer
      BY AutoTxModeSame
    <3>4. AutoTxMode(s, w, FALSE).auto = FALSE
      BY AutoTxModeAuto
    <3> QED BY <3>1, <3>2, <3>3, <3>4
  <2>2. CASE ~w.auto
    <3>1. v = w
      BY <2>2
    <3> QED BY <2>2, <3>1 DEF Same, Window
  <2> QED BY <2>1, <2>2
<1>2. OnStopTxButton(s, w) = [v EXCEPT !.callingCQ = FALSE, !.stopWRTimer = FALSE]
  BY Zenon DEF OnStopTxButton
<1> HIDE DEF v
<1> QED BY <1>1, <1>2 DEF Window, Same

\* The answer.
LEMMA AnswerAnswers ==
  ASSUME NEW w \in Window, NEW kind \in Kinds, kind # "CQ"
  PROVE  /\ Answered(w, Answer(w, kind), kind)
         /\ Answer(w, kind).dx = w.dx /\ Answer(w, kind).restart = w.restart
         /\ Answer(w, kind).last73 = w.last73 /\ Answer(w, kind).auto = w.auto
         /\ Answer(w, kind).doubleClicked = w.doubleClicked
<1> DEFINE p == IF w.progress >= ROGER_REPORT THEN SIGNOFF ELSE w.progress
<1>1. CASE kind = "grid"
  BY <1>1 DEF Answer, Answered, Window
<1>2. CASE kind = "rpt"
  BY <1>2 DEF Answer, Answered, Window
<1>3. CASE kind = "Rrpt"
  BY <1>3 DEF Answer, Answered, Window
<1>4. CASE kind \in {"RRR", "RR73"}
  <2>1. Answer(w, kind) = [w EXCEPT !.ntx = 5, !.progress = p]
    BY <1>4 DEF Answer
  <2>2. Answered(w, Answer(w, kind), kind) <=>
          /\ Answer(w, kind).ntx = 5 /\ Answer(w, kind).logTimer = w.logTimer
          /\ Answer(w, kind).progress = p
    BY <1>4 DEF Answered
  <2> HIDE DEF p
  <2> QED BY <2>1, <2>2 DEF Window
<1>5. CASE kind = "73" /\ w.progress = ROGERS
  BY <1>5 DEF Answer, Answered, Window
<1>6. CASE kind = "73" /\ w.progress # ROGERS
  BY <1>6 DEF Answer, Answered, Window
<1> QED BY <1>1, <1>2, <1>3, <1>4, <1>5, <1>6 DEF Kinds

\* The reaction to a message, whatever has been selected before it.
LEMMA ReactSame ==
  ASSUME NEW s, Station(s), NEW w \in Window, NEW m \in Message
  PROVE  LET v == React(s, w, m)
         IN  /\ v.dx = m.from /\ v.last73 = w.last73
             /\ v.restart = (w.restart \/ Transmitting(s))
             /\ v.ntx = w.ntx /\ v.progress = w.progress /\ v.logTimer = w.logTimer
             /\ v.auto = (w.auto \/ w.doubleClicked)
<1> DEFINE x == w.restart \/ Transmitting(s)
           r == [w EXCEPT !.dx = m.from, !.restart = x]
           on == AutoTxMode(s, r, TRUE)
<1>1. m.from \in Stations /\ x \in BOOLEAN
  BY DEF Message
<1>2. React(s, w, m) = IF r.doubleClicked THEN [on EXCEPT !.doubleClicked = FALSE] ELSE r
  BY Zenon DEF React
<1> HIDE DEF x
<1>3. r = [[w EXCEPT !.dx = m.from] EXCEPT !.restart = x]
  BY DEF Window
<1>4. [w EXCEPT !.dx = m.from] \in Window
  BY <1>1, Fields
<1>5. r \in Window
  BY <1>1, <1>3, <1>4, Fields
<1>6. /\ r.dx = m.from /\ r.last73 = w.last73 /\ r.restart = x /\ r.ntx = w.ntx
      /\ r.progress = w.progress /\ r.logTimer = w.logTimer /\ r.auto = w.auto
      /\ r.doubleClicked = w.doubleClicked
  BY DEF Window
<1> HIDE DEF r
<1>7. on \in Window /\ Same(r, on) /\ on.logTimer = r.logTimer /\ on.auto = TRUE
  <2>1. on \in Window
    BY <1>5, AutoTxModeType
  <2>2. Same(r, on) /\ on.logTimer = r.logTimer /\ on.auto = TRUE
    BY <1>5, AutoTxModeSame, AutoTxModeAuto
  <2> QED BY <2>1, <2>2
<1> HIDE DEF on
<1>8. CASE w.doubleClicked
  <2>1. React(s, w, m) = [on EXCEPT !.doubleClicked = FALSE]
    BY <1>2, <1>6, <1>8
  <2> QED BY <1>6, <1>7, <1>8, <2>1 DEF Window, Same, x
<1>9. CASE ~w.doubleClicked
  <2>1. React(s, w, m) = r
    BY <1>2, <1>6, <1>9
  <2>2. w.auto = (w.auto \/ w.doubleClicked)
    BY <1>9 DEF Window
  <2> QED BY <1>6, <2>1, <2>2 DEF x
<1> QED BY <1>8, <1>9 DEF Window

\* Any message of the other station is answered according to its kind, or it
\* is the second 73.
LEMMA ProcessReacts ==
  ASSUME NEW s, Station(s), NEW w \in Window, NEW m \in Message, parity \in {0, 1},
         ForUs(s, m), w.dx \in {m.from, NoCall}
  PROVE  Reacted(s, w, ProcessMessage(s, w, m), m)
<1> DEFINE r == [w EXCEPT !.txFirst = parity]
           reply == [r EXCEPT !.ntx = 1, !.progress = REPLYING]
           v == ProcessMessage(s, w, m)
<1>1. r \in Window
  BY Fields
<1>2. /\ r.ntx = w.ntx /\ r.progress = w.progress /\ r.dx = w.dx /\ r.restart = w.restart
      /\ r.last73 = w.last73 /\ r.logTimer = w.logTimer
  BY DEF Window
<1>3. m.kind \in Kinds
  BY DEF Message
<1>4. FromDx(w, m)
  BY DEF FromDx
<1>5. CASE m.to = s
  <2>1. v = IF w.doubleClicked /\ m.kind = "73" THEN r ELSE React(s, Answer(r, m.kind), m)
    BY <1>4, <1>5, Zenon DEF ProcessMessage
  <2>2. Reacted(s, w, r, m)
    BY <1>2 DEF Reacted, Same
  <2>3. m.kind # "CQ"
    BY <1>5 DEF ForUs
  <2> DEFINE a == Answer(r, m.kind)
             x == React(s, a, m)
  <2>4. a \in Window
    BY <1>1, AnswerType
  <2>5. Answered(r, a, m.kind) /\ a.restart = r.restart /\ a.last73 = r.last73
    BY <1>1, <1>3, <2>3, AnswerAnswers
  <2> HIDE DEF a, r
  <2>6. /\ x.dx = m.from /\ x.last73 = a.last73
        /\ x.restart = (a.restart \/ Transmitting(s))
        /\ x.ntx = a.ntx /\ x.progress = a.progress /\ x.logTimer = a.logTimer
    BY <2>4, ReactSame
  <2> HIDE DEF x
  <2>7. Answered(w, x, m.kind)
    BY <1>2, <2>5, <2>6 DEF Answered
  <2>8. Reacted(s, w, x, m)
    BY <1>2, <2>5, <2>6, <2>7 DEF Reacted
  <2>9. v \in {r, x}
    BY <2>1 DEF x, a
  <2> QED BY <2>2, <2>8, <2>9
<1>6. CASE m.to # s
  <2>1. m.kind = "CQ"
    BY <1>6 DEF ForUs
  <2>2. v = React(s, reply, m)
    <3>1. ~Is73(m)
      BY <2>1 DEF Is73
    <3> QED BY <1>6, <3>1, Zenon DEF ProcessMessage
  <2>3. 1 \in 1..6
    OBVIOUS
  <2>4. reply \in Window
    BY <1>1, <2>3, ProgressValues, Selects
  <2>5. /\ reply.ntx = 1 /\ reply.progress = REPLYING /\ reply.restart = r.restart
        /\ reply.last73 = r.last73 /\ reply.logTimer = r.logTimer
    BY <1>1 DEF Window
  <2> HIDE DEF reply, r
  <2>6. /\ v.dx = m.from /\ v.last73 = reply.last73
        /\ v.restart = (reply.restart \/ Transmitting(s))
        /\ v.ntx = reply.ntx /\ v.progress = reply.progress /\ v.logTimer = reply.logTimer
    BY <2>2, <2>4, ReactSame
  <2> HIDE DEF v
  <2>7. Answered(w, v, m.kind)
    BY <1>2, <2>1, <2>5, <2>6 DEF Answered
  <2> QED BY <1>2, <2>5, <2>6, <2>7 DEF Reacted, v
<1> QED BY <1>5, <1>6

\* Whatever looks at a message leaves a DX Call that the message fits.
LEMMA ReactedDx ==
  ASSUME NEW s, NEW w, NEW v, NEW m, Reacted(s, w, v, m), w.dx \in {m.from, NoCall}
  PROVE  v.dx \in {m.from, NoCall}
BY DEF Reacted, Same

LEMMA Untouched ==
  ASSUME NEW s, NEW w, NEW m
  PROVE  Reacted(s, w, w, m)
BY DEF Reacted, Same

\* Auto Seq.
LEMMA AutoSequenceReacts ==
  ASSUME NEW s, Station(s), NEW w \in Window, NEW m \in Message, parity \in {0, 1},
         ForUs(s, m), w.dx \in {m.from, NoCall}, NEW near \in BOOLEAN
  PROVE  Reacted(s, w, AutoSequence(s, w, m, near), m)
<1>1. AutoSequence(s, w, m, near) \in {OnStopTxButton(s, w), ProcessMessage(s, w, m), w}
  BY Zenon DEF AutoSequence
<1>2. Reacted(s, w, OnStopTxButton(s, w), m)
  BY OnStopTxSame DEF Reacted
<1>3. Reacted(s, w, ProcessMessage(s, w, m), m)
  BY ProcessReacts
<1> QED BY <1>1, <1>2, <1>3, Untouched

\* Wait & Reply.
LEMMA WaitAndReplyReacts ==
  ASSUME NEW s, Station(s), NEW w \in Window, NEW m \in Message, parity \in {0, 1},
         ForUs(s, m), w.dx \in {m.from, NoCall}
  PROVE  Reacted(s, w, WaitAndReply(s, w, m), m)
<1> DEFINE v == [w EXCEPT !.idle = 0, !.doubleClicked = TRUE]
           p == ProcessMessage(s, v, m)
           on == AutoTxMode(s, p, TRUE)
           x == [on EXCEPT !.stopWRTimer = TRUE]
<1>1. WaitAndReply(s, w, m) \in {x, w}
  BY Zenon DEF WaitAndReply
<1>2. v \in Window
  <2>1. v = [[w EXCEPT !.idle = 0] EXCEPT !.doubleClicked = TRUE]
    BY DEF Window
  <2>2. 0 \in 0..Patience
    BY BoundsAssumption
  <2>3. [w EXCEPT !.idle = 0] \in Window
    BY <2>2, Fields
  <2> HIDE DEF v
  <2> QED BY <2>1, <2>3, Fields
<1>3. Same(w, v) /\ v.logTimer = w.logTimer
  BY DEF Window, Same
<1> HIDE DEF v
<1>4. v.dx \in {m.from, NoCall}
  BY <1>3 DEF Same
<1>5. p \in Window /\ Reacted(s, v, p, m)
  <2>1. p \in Window
    BY <1>2, ProcessMessageType
  <2>2. Reacted(s, v, p, m)
    BY <1>2, <1>4, ProcessReacts
  <2> QED BY <2>1, <2>2
<1> HIDE DEF p
<1>6. on \in Window
  BY <1>5, AutoTxModeType
<1>7. Same(p, on) /\ on.logTimer = p.logTimer
  BY <1>5, AutoTxModeSame
<1> HIDE DEF on
<1>8. Same(on, x) /\ x.logTimer = on.logTimer
  BY <1>6 DEF Window, Same
<1> HIDE DEF x
<1>9. Reacted(s, v, x, m)
  BY <1>5, <1>7, <1>8 DEF Reacted, Same, Answered
<1>10. Reacted(s, w, x, m)
  BY <1>3, <1>9 DEF Reacted, Same, Answered
<1> QED BY <1>1, <1>10, Untouched

\* CQ: First.
LEMMA CqFirstReacts ==
  ASSUME NEW s, Station(s), NEW w \in Window, NEW m \in Message, parity \in {0, 1},
         ForUs(s, m), w.dx \in {m.from, NoCall}
  PROVE  Reacted(s, w, CqFirst(s, w, m), m)
<1> DEFINE v == [w EXCEPT !.doubleClicked = TRUE, !.selected = TRUE]
           on == AutoTxMode(s, v, TRUE)
           x == ProcessMessage(s, on, m)
<1>1. CqFirst(s, w, m) \in {x, w}
  BY Zenon DEF CqFirst
<1>2. v \in Window
  BY DEF Window
<1>3. Same(w, v) /\ v.logTimer = w.logTimer
  BY DEF Window, Same
<1> HIDE DEF v
<1>4. on \in Window
  BY <1>2, AutoTxModeType
<1>5. Same(v, on) /\ on.logTimer = v.logTimer
  BY <1>2, AutoTxModeSame
<1> HIDE DEF on
<1>6. on.dx \in {m.from, NoCall}
  BY <1>3, <1>5 DEF Same
<1>7. Reacted(s, on, x, m)
  BY <1>4, <1>6, ProcessReacts
<1> HIDE DEF x
<1>8. Reacted(s, w, x, m)
  BY <1>3, <1>5, <1>7 DEF Reacted, Same, Answered
<1> QED BY <1>1, <1>8, Untouched

\* The tones of the selected message.
Signs(s, w) == w.ntx = 5 \/ (w.ntx = 4 /\ setting[s].rr73)

LEMMA TextSays ==
  ASSUME NEW s, Station(s), NEW w \in Window
  PROVE  /\ Text(s, w).from = s
         /\ Text(s, w).to = IF w.ntx = 6 THEN Everyone ELSE w.dx
         /\ Text(s, w).kind = "CQ" <=> w.ntx = 6
         /\ Text(s, w).kind = "rpt" <=> w.ntx = 2
         /\ Text(s, w).kind = "Rrpt" <=> w.ntx = 3
         /\ Text(s, w).kind \in {"RRR", "RR73"} <=> w.ntx = 4
         /\ Is73(Text(s, w)) <=> Signs(s, w)
BY DEF Text, Window, Is73, Signs

LEMMA GenerateSame ==
  ASSUME NEW s, Station(s), NEW w \in Window
  PROVE  LET v == Generate(s, w)
         IN  /\ v.dx = w.dx /\ v.restart = FALSE
             /\ v.last73 <=> Signs(s, w)
             /\ v.logTimer <=> w.logTimer \/ (Signs(s, w) /\ ~w.last73 /\ w.progress # CALLING)
             /\ Signs(s, w) => v.ntx = 6 /\ v.progress = CALLING /\ v.auto = FALSE
             /\ ~Signs(s, w) => v.ntx = w.ntx /\ v.progress = w.progress /\ v.auto = w.auto
<1> DEFINE m == Text(s, w)
           is73 == Is73(m)
           log == w.logTimer \/ ((Is73(m) /\ ~w.last73) /\ w.progress # CALLING)
           cq == w.ntx = 6
           g == [w EXCEPT !.restart = FALSE, !.last73 = is73, !.callingCQ = cq,
                          !.logTimer = log]
           off == AutoTxMode(s, g, FALSE)
           x == [off EXCEPT !.ntx = 6, !.progress = CALLING]
<1>1. is73 <=> Signs(s, w)
  BY TextSays
<1>2. log <=> w.logTimer \/ (Signs(s, w) /\ ~w.last73 /\ w.progress # CALLING)
  BY <1>1 DEF Window
<1>3. is73 \in BOOLEAN /\ log \in BOOLEAN /\ cq \in BOOLEAN
  BY DEF Is73
<1>4. Generate(s, w) = IF is73 THEN x ELSE g
  BY Zenon DEF Generate
<1> HIDE DEF is73, log, cq
<1>5. g = [[[[w EXCEPT !.restart = FALSE] EXCEPT !.last73 = is73]
             EXCEPT !.callingCQ = cq] EXCEPT !.logTimer = log]
  BY DEF Window
<1>6. g \in Window
  <2>1. [w EXCEPT !.restart = FALSE] \in Window
    BY Fields
  <2>2. [[w EXCEPT !.restart = FALSE] EXCEPT !.last73 = is73] \in Window
    BY <1>3, <2>1, Fields
  <2>3. [[[w EXCEPT !.restart = FALSE] EXCEPT !.last73 = is73] EXCEPT !.callingCQ = cq] \in Window
    BY <1>3, <2>2, Fields
  <2>4. [[[[w EXCEPT !.restart = FALSE] EXCEPT !.last73 = is73]
             EXCEPT !.callingCQ = cq] EXCEPT !.logTimer = log] \in Window
    BY <1>3, <2>3, Fields
  <2> QED BY <1>5, <2>4
<1>7. /\ g.dx = w.dx /\ g.restart = FALSE /\ g.last73 = is73 /\ g.logTimer = log
      /\ g.ntx = w.ntx /\ g.progress = w.progress /\ g.auto = w.auto
  BY DEF Window
<1> HIDE DEF g
<1>8. off \in Window
  BY <1>6, AutoTxModeType
<1>9. Same(g, off) /\ off.logTimer = g.logTimer
  BY <1>6, AutoTxModeSame
<1>10. off.auto = FALSE
  BY <1>6, AutoTxModeAuto
<1> HIDE DEF off
<1>11. /\ x.dx = off.dx /\ x.restart = off.restart /\ x.last73 = off.last73
       /\ x.logTimer = off.logTimer /\ x.ntx = 6 /\ x.progress = CALLING /\ x.auto = off.auto
  BY <1>8 DEF Window
<1> HIDE DEF x
<1>12. CASE is73
  <2>1. Generate(s, w) = x
    BY <1>4, <1>12
  <2> QED BY <1>1, <1>2, <1>7, <1>9, <1>10, <1>11, <1>12, <2>1 DEF Same
<1>13. CASE ~is73
  <2>1. Generate(s, w) = g
    BY <1>4, <1>13
  <2> QED BY <1>1, <1>2, <1>7, <1>13, <2>1
<1> QED BY <1>12, <1>13

\* The rising edge.
LEMMA DisplaySame ==
  ASSUME NEW w \in Window, NEW m
  PROVE  LET v == Display(w, m)
         IN  /\ v.ntx = w.ntx /\ v.dx = w.dx /\ v.restart = w.restart /\ v.auto = w.auto
             /\ v.last73 = w.last73 /\ v.logTimer = w.logTimer
             /\ v.progress = IF w.ntx = 6 THEN CALLING ELSE w.ntx
BY DEF Display, Window, CALLING

-----------------------------------------------------------------------------
(* What a step of one station is to the other and to the channel.          *)

\* The statements below are about two stations.
Two == \E a, b : a # b /\ Stations = {a, b}

\* What the steps are taken from.
Before == Two /\ IInv /\ QsoInv

OthersStay(s) == /\ \A q \in Stations \ {s} : st'[q] = st[q]
                 /\ {m \in air' : m.from # s} = {m \in air : m.from # s}

\* s starts a transmission or changes its message.
Sends(s) ==
  LET w == st[s]
      v == st'[s]
  IN /\ OthersStay(s)
     /\ v.dx = w.dx /\ ~v.restart
     /\ v.last73 <=> Signs(s, w)
     /\ v.logTimer <=> w.logTimer \/ (Signs(s, w) /\ ~w.last73 /\ w.progress # CALLING)
     /\ Signs(s, w) => v.ntx = 6 /\ v.progress = CALLING /\ ~v.auto
     /\ ~Signs(s, w) => /\ v.ntx = w.ntx /\ v.auto = w.auto
                        /\ \/ v.progress = w.progress
                           \/ v.progress = IF w.ntx = 6 THEN CALLING ELSE w.ntx
     /\ w.ntx # 6 => w.dx # NoCall
     /\ \/ ~Transmitting(s) /\ w.auto /\ air' = air \cup {Text(s, w)}
        \/ w.restart /\ air' = {m \in air : m.from # s} \cup {Text(s, w)}
        \/ w.restart /\ ~Transmitting(s) /\ air' = air
     /\ UNCHANGED <<setting, inbox, shown, got, confirmed, news, manual>>

\* s takes notice of m: it decodes it, or its operator double-clicks it.
Takes(s, m) ==
  /\ OthersStay(s) /\ air' \subseteq air
  /\ m \in Heard(s)
  /\ Reacted(s, st[s], st'[s], m)
  /\ Hear(s, m)
  /\ inbox'[s] = {} /\ shown'[s] = Heard(s)
  /\ \A q \in Stations \ {s} : inbox'[q] = inbox[q] /\ shown'[q] = shown[q]
  /\ UNCHANGED setting
  /\ \/ /\ m \in inbox[s] /\ UNCHANGED manual
        /\ ~st[s].auto /\ ~setting[s].wait => st'[s] = st[s]
     \/ /\ m \notin inbox[s] /\ manual' = manual \cup {s} /\ ~st[s].logTimer
        /\ m.kind = "73" => Same(st[s], st'[s]) /\ ~st'[s].logTimer

\* s changes Enable Tx, or enters the QSO in its log.
Rests(s) ==
  /\ OthersStay(s) /\ air' \subseteq air
  /\ Same(st[s], st'[s])
  /\ UNCHANGED <<setting, inbox, shown, got, confirmed>>
  /\ \/ /\ st[s].logTimer /\ ~st'[s].logTimer /\ ~st'[s].auto
        /\ news' = news \ {<<s, st[s].dx>>} /\ manual' = manual \ {s}
     \/ /\ st'[s].logTimer = st[s].logTimer /\ UNCHANGED <<news, manual>>
        /\ ~st'[s].auto /\ (air' = air \/ st[s].auto)
     \/ /\ ~st[s].logTimer /\ ~st'[s].logTimer
        /\ UNCHANGED news /\ manual' = manual \cup {s}

\* The window of a station and its messages, as far as they matter here.
LEMMA Facts ==
  ASSUME Before, NEW s \in Stations
  PROVE  /\ Station(s) /\ st[s] \in Window /\ Addressed(st[s]) /\ parity \in {0, 1}
         /\ st[s].ntx \in 1..6 /\ st[s].progress \in CALLING..SIGNOFF
         /\ st[s].dx \in Stations \cup {NoCall} /\ st[s].dx # s
         /\ air \subseteq Message /\ Heard(s) \subseteq Message
         /\ setting[s].rr73 \in BOOLEAN
BY Windows, SettingTypes DEF Before, QsoInv, Channel, Rest, Window, Heard

\* There is nobody else.
LEMMA Partner ==
  ASSUME Before, NEW s \in Stations
  PROVE  \E p \in Stations : p # s /\ Stations = {s, p}
BY DEF Before, Two

\* A message that was heard is the partner's.
LEMMA HeardFrom ==
  ASSUME Before, NEW s \in Stations, NEW p \in Stations, s # p, NEW m \in Heard(s)
  PROVE  /\ m \in Message /\ m.from = p /\ m.kind \in Kinds
         /\ ForUs(s, m) /\ Said(m, st[p].ntx) /\ Truthful(m)
         /\ st[s].dx \in {m.from, NoCall}
         /\ Heard(s) = {m} /\ Heard(p) = {}
<1>1. m \in Message /\ Station(s) /\ st[s].dx \in Stations \cup {NoCall} /\ st[s].dx # s
  BY Facts
<1>2. ForUs(s, m) /\ Said(m, st[m.from].ntx) /\ Truthful(m)
  BY DEF Before, QsoInv, Channel, Knowledge
<1>3. m.from \in Stations /\ m.from # s /\ m.kind \in Kinds
  BY <1>1, <1>2 DEF Message, ForUs
<1>4. m.from = p /\ st[s].dx \in {p, NoCall}
  BY <1>1, <1>3 DEF Before, Two
<1>5. Heard(s) = {m} /\ Heard(p) = {}
  BY DEF Before, QsoInv, Channel
<1> QED BY <1>1, <1>2, <1>3, <1>4, <1>5

\* Set gives one station another window.
LEMMA SetOne ==
  ASSUME IInv, NEW s \in Stations, NEW w, Set(s, w)
  PROVE  st'[s] = w /\ \A q \in Stations \ {s} : st'[q] = st[q]
BY DEF Set, IInv, TypeOK

\* A transmission starts.
LEMMA StartTxSends == ASSUME Before, NEW s \in Stations, StartTx(s) PROVE Sends(s)
<1> DEFINE w == st[s]
           m == Text(s, w)
           g == Generate(s, w)
           v == Display(g, m)
<1>1. Station(s) /\ w \in Window
  BY Facts
<1>2. st'[s] = v /\ \A q \in Stations \ {s} : st'[q] = st[q]
  BY SetOne DEF StartTx, Before
<1>3. g \in Window
  BY <1>1, GenerateType
<1>4. m.from = s
  BY <1>1, TextSays
<1>5. OthersStay(s)
  BY <1>2, <1>4 DEF StartTx, OthersStay
<1>6. /\ g.dx = w.dx /\ g.restart = FALSE
      /\ g.last73 <=> Signs(s, w)
      /\ g.logTimer <=> w.logTimer \/ (Signs(s, w) /\ ~w.last73 /\ w.progress # CALLING)
      /\ Signs(s, w) => g.ntx = 6 /\ g.progress = CALLING /\ g.auto = FALSE
      /\ ~Signs(s, w) => g.ntx = w.ntx /\ g.progress = w.progress /\ g.auto = w.auto
  BY <1>1, GenerateSame
<1> HIDE DEF g
<1>7. /\ v.ntx = g.ntx /\ v.dx = g.dx /\ v.restart = g.restart /\ v.auto = g.auto
      /\ v.last73 = g.last73 /\ v.logTimer = g.logTimer
      /\ v.progress = IF g.ntx = 6 THEN CALLING ELSE g.ntx
  BY <1>3, DisplaySame
<1>8. /\ ~Transmitting(s) /\ w.auto /\ air' = air \cup {m}
      /\ w.ntx # 6 => w.dx # NoCall
      /\ UNCHANGED <<setting, inbox, shown, got, confirmed, news, manual>>
  BY DEF StartTx, history
<1> HIDE DEF v
<1>9. /\ Signs(s, w) => v.ntx = 6 /\ v.progress = CALLING /\ ~v.auto
      /\ ~Signs(s, w) => /\ v.ntx = w.ntx /\ v.auto = w.auto
                         /\ v.progress = IF w.ntx = 6 THEN CALLING ELSE w.ntx
  BY <1>6, <1>7
<1> QED BY <1>2, <1>5, <1>6, <1>7, <1>8, <1>9 DEF Sends

\* The message of a transmission changes.
LEMMA RestartSends == ASSUME Before, NEW s \in Stations, Restart(s) PROVE Sends(s)
<1> DEFINE w == st[s]
           m == Text(s, w)
           g == Generate(s, w)
<1>1. Station(s) /\ w \in Window /\ Addressed(w)
  BY Facts
<1>2. st'[s] = g /\ \A q \in Stations \ {s} : st'[q] = st[q]
  BY SetOne DEF Restart, Before
<1>3. m.from = s
  BY <1>1, TextSays
<1>4. OthersStay(s)
  BY <1>2, <1>3 DEF Restart, OthersStay
<1>5. /\ g.dx = w.dx /\ g.restart = FALSE
      /\ g.last73 <=> Signs(s, w)
      /\ g.logTimer <=> w.logTimer \/ (Signs(s, w) /\ ~w.last73 /\ w.progress # CALLING)
      /\ Signs(s, w) => g.ntx = 6 /\ g.progress = CALLING /\ g.auto = FALSE
      /\ ~Signs(s, w) => g.ntx = w.ntx /\ g.progress = w.progress /\ g.auto = w.auto
  BY <1>1, GenerateSame
<1> HIDE DEF g
<1>6. /\ w.restart
      /\ \/ air' = {n \in air : n.from # s} \cup {m}
         \/ ~Transmitting(s) /\ air' = air
      /\ UNCHANGED <<setting, inbox, shown, got, confirmed, news, manual>>
  BY DEF Restart, history
<1>7. w.dx # NoCall
  BY <1>1, <1>6 DEF Addressed
<1> QED BY <1>2, <1>4, <1>5, <1>6, <1>7 DEF Sends

\* What was decoded before is what was heard.
LEMMA HeardOnce ==
  ASSUME Before, NEW s \in Stations, NEW m \in Heard(s)
  PROVE  /\ inbox \in [Stations -> SUBSET Message] /\ shown \in [Stations -> SUBSET Message]
         /\ m \in inbox[s] => inbox[s] = {m} /\ shown[s] = {}
         /\ m \notin inbox[s] => inbox[s] = {} /\ shown[s] = {m}
<1>1. \A n \in Heard(s) : n = m
  BY DEF Before, QsoInv, Channel
<1>2. inbox[s] \cap shown[s] = {}
  BY DEF Before, QsoInv, Channel
<1>3. inbox \in [Stations -> SUBSET Message] /\ shown \in [Stations -> SUBSET Message]
  BY DEF Before, IInv, TypeOK
<1> QED BY <1>1, <1>2, <1>3 DEF Heard

\* A message is decoded.
LEMMA DecodeTakes ==
  ASSUME Before, NEW s \in Stations, Decode(s)
  PROVE  \E m \in Heard(s) : Takes(s, m)
<1>1. PICK m \in inbox[s], near \in BOOLEAN :
        /\ Set(s, AutoSequence(s, CqFirst(s, WaitAndReply(s, st[s], m), m), m, near))
        /\ inbox' = [inbox EXCEPT ![s] = @ \ {m}]
        /\ shown' = [shown EXCEPT ![s] = @ \cup {m}]
        /\ Hear(s, m)
        /\ air' = IF st'[s].auto \/ ~st[s].auto THEN air ELSE {n \in air : n.from # s}
        /\ UNCHANGED <<setting, parity, acts, manual, disturbed>>
  BY DEF Decode
<1>2. PICK p \in Stations : p # s /\ Stations = {s, p}
  BY Partner
<1>3. m \in Heard(s)
  BY DEF Heard
<1>4. m \in Message /\ ForUs(s, m) /\ st[s].dx \in {m.from, NoCall}
  BY <1>2, <1>3, HeardFrom
<1>5. Station(s) /\ st[s] \in Window /\ parity \in {0, 1}
  BY Facts
<1> DEFINE v == WaitAndReply(s, st[s], m)
           u == CqFirst(s, v, m)
           w == AutoSequence(s, u, m, near)
<1>6. v \in Window /\ Reacted(s, st[s], v, m)
  BY <1>4, <1>5, WaitAndReplyType, WaitAndReplyReacts
<1>7. ~st[s].auto /\ ~setting[s].wait => v = st[s]
  BY Zenon DEF WaitAndReply
<1> HIDE DEF v
<1>8. v.dx \in {m.from, NoCall}
  BY <1>4, <1>6, ReactedDx
<1>9. u \in Window /\ Reacted(s, v, u, m)
  BY <1>4, <1>5, <1>6, <1>8, CqFirstType, CqFirstReacts
<1>10. ~v.auto => u = v
  BY DEF CqFirst
<1> HIDE DEF u
<1>11. Reacted(s, st[s], u, m)
  BY <1>4, <1>5, <1>6, <1>9, ReactedTwice
<1>12. u.dx \in {m.from, NoCall}
  BY <1>4, <1>11, ReactedDx
<1>13. w \in Window /\ Reacted(s, u, w, m)
  BY <1>4, <1>5, <1>9, <1>12, AutoSequenceType, AutoSequenceReacts
<1>14. ~u.auto => w = u
  BY DEF AutoSequence
<1>15. Set(s, w)
  BY <1>1 DEF u, v
<1> HIDE DEF w
<1>16. Reacted(s, st[s], w, m)
  BY <1>4, <1>5, <1>9, <1>11, <1>13, ReactedTwice
<1>17. st'[s] = w /\ \A q \in Stations \ {s} : st'[q] = st[q]
  BY <1>15, SetOne DEF Before
<1>18. OthersStay(s) /\ air' \subseteq air
  BY <1>1, <1>17 DEF OthersStay
<1>19. /\ inbox'[s] = {} /\ shown'[s] = Heard(s)
       /\ \A q \in Stations \ {s} : inbox'[q] = inbox[q] /\ shown'[q] = shown[q]
  <2>1. inbox[s] = {m} /\ shown[s] = {}
    BY <1>3, HeardOnce
  <2>2. inbox \in [Stations -> SUBSET Message] /\ shown \in [Stations -> SUBSET Message]
    BY <1>3, HeardOnce
  <2> QED BY <1>1, <2>1, <2>2 DEF Heard
<1>20. ~st[s].auto /\ ~setting[s].wait => st'[s] = st[s]
  BY <1>7, <1>10, <1>14, <1>17
<1> QED BY <1>1, <1>3, <1>16, <1>18, <1>19, <1>20, <1>17 DEF Takes

\* A second 73 that is double-clicked changes nothing.
LEMMA SecondSeventyThree ==
  ASSUME NEW s, NEW w \in Window, NEW m, ForUs(s, m), m.kind = "73", w.doubleClicked
  PROVE  ProcessMessage(s, w, m) = [w EXCEPT !.txFirst = parity]
BY Zenon DEF ProcessMessage, ForUs

\* A message is double-clicked.
LEMMA DoubleClickTakes ==
  ASSUME Before, NEW s \in Stations, DoubleClick(s)
  PROVE  \E m \in Heard(s) : Takes(s, m)
<1> DEFINE v == [st[s] EXCEPT !.doubleClicked = TRUE]
<1>1. PICK m \in shown[s] :
        Act(s, ProcessMessage(s, v, m), st[s].auto) /\ Hear(s, m) /\ UNCHANGED air
  BY DEF DoubleClick
<1>2. PICK p \in Stations : p # s /\ Stations = {s, p}
  BY Partner
<1>3. m \in Heard(s)
  BY DEF Heard
<1>4. m \in Message /\ ForUs(s, m) /\ st[s].dx \in {m.from, NoCall}
  BY <1>2, <1>3, HeardFrom
<1>5. Station(s) /\ st[s] \in Window /\ parity \in {0, 1}
  BY Facts
<1>6. v \in Window
  BY <1>5, Fields
<1>7. Same(st[s], v) /\ v.logTimer = st[s].logTimer /\ v.doubleClicked
  BY <1>5 DEF Window, Same
<1> HIDE DEF v
<1> DEFINE w == ProcessMessage(s, v, m)
           x == [w EXCEPT !.idle = 0]
<1>8. w \in Window
  BY <1>4, <1>5, <1>6, ProcessMessageType
<1>9. Reacted(s, v, w, m)
  BY <1>4, <1>5, <1>6, <1>7, ProcessReacts DEF Same
<1>10. m.kind = "73" => Same(v, w) /\ w.logTimer = v.logTimer
  <2> SUFFICES ASSUME m.kind = "73" PROVE Same(v, w) /\ w.logTimer = v.logTimer
    OBVIOUS
  <2>1. w = [v EXCEPT !.txFirst = parity]
    BY <1>4, <1>6, <1>7, SecondSeventyThree
  <2> HIDE DEF w
  <2> QED BY <1>6, <2>1 DEF Window, Same
<1>11. Set(s, x) /\ ~st[s].logTimer /\ manual' = manual \cup {s}
       /\ UNCHANGED <<setting, inbox, shown>>
  BY <1>1 DEF Act
<1> HIDE DEF w
<1>12. Same(w, x) /\ x.logTimer = w.logTimer
  BY <1>8 DEF Window, Same
<1> HIDE DEF x
<1>13. st'[s] = x /\ \A q \in Stations \ {s} : st'[q] = st[q]
  BY <1>11, SetOne DEF Before
<1>14. Reacted(s, st[s], x, m)
  BY <1>7, <1>9, <1>12 DEF Reacted, Same, Answered
<1>15. OthersStay(s) /\ air' \subseteq air
  BY <1>1, <1>13 DEF OthersStay
<1>16. m \notin inbox[s] /\ inbox'[s] = {} /\ shown'[s] = Heard(s)
       /\ \A q \in Stations \ {s} : inbox'[q] = inbox[q] /\ shown'[q] = shown[q]
  BY <1>3, <1>11, HeardOnce DEF Heard
<1>17. m.kind = "73" => Same(st[s], st'[s]) /\ ~st'[s].logTimer
  BY <1>7, <1>10, <1>11, <1>12, <1>13 DEF Same
<1> QED BY <1>1, <1>3, <1>11, <1>13, <1>14, <1>15, <1>16, <1>17 DEF Takes

\* Enable Tx goes off by itself.
LEMMA OffRests ==
  ASSUME Before, NEW s \in Stations, Set(s, AutoTxMode(s, st[s], FALSE)),
         air' \subseteq air, {m \in air' : m.from # s} = {m \in air : m.from # s},
         air' = air \/ st[s].auto,
         UNCHANGED <<setting, inbox, shown, got, confirmed, news, manual>>
  PROVE  Rests(s)
<1> DEFINE w == AutoTxMode(s, st[s], FALSE)
<1>1. st[s] \in Window
  BY Facts
<1>2. Same(st[s], w) /\ w.logTimer = st[s].logTimer /\ w.auto = FALSE
  BY <1>1, AutoTxModeOff, Zenon
<1> HIDE DEF w
<1>4. st'[s] = w /\ \A q \in Stations \ {s} : st'[q] = st[q]
  BY SetOne DEF Before, w
<1> QED BY <1>2, <1>4 DEF Rests, OthersStay

LEMMA TxWatchdogRests == ASSUME Before, NEW s \in Stations, TxWatchdog(s) PROVE Rests(s)
<1>1. Set(s, AutoTxMode(s, st[s], FALSE)) /\ air' = {m \in air : m.from # s} /\ st[s].auto
  BY DEF TxWatchdog, WatchdogDue
<1>2. UNCHANGED <<setting, inbox, shown, got, confirmed, news, manual>>
  BY DEF TxWatchdog, history
<1> QED BY <1>1, <1>2, OffRests

LEMMA StopWRTimeoutRests == ASSUME Before, NEW s \in Stations, StopWRTimeout(s) PROVE Rests(s)
<1>1. Set(s, AutoTxMode(s, st[s], FALSE)) /\ air' = air
  BY DEF StopWRTimeout
<1>2. UNCHANGED <<setting, inbox, shown, got, confirmed, news, manual>>
  BY DEF StopWRTimeout, history
<1> QED BY <1>1, <1>2, OffRests

\* The QSO is entered in the log.
LEMMA LogQSORests == ASSUME Before, NEW s \in Stations, LogQSO(s) PROVE Rests(s)
<1> DEFINE off == AutoTxMode(s, st[s], FALSE)
           w == [off EXCEPT !.logTimer = FALSE]
<1>1. Station(s) /\ st[s] \in Window
  BY Facts
<1>2. off \in Window
  BY <1>1, AutoTxModeType
<1>3. Same(st[s], off) /\ off.auto = FALSE
  <2>1. Same(st[s], off)
    BY <1>1, AutoTxModeSame
  <2>2. off.auto = FALSE
    BY <1>1, AutoTxModeAuto
  <2> QED BY <2>1, <2>2
<1>4. Set(s, w)
  BY DEF LogQSO
<1> HIDE DEF off
<1>5. Same(off, w) /\ w.auto = off.auto /\ w.logTimer = FALSE
  BY <1>2 DEF Window, Same
<1> HIDE DEF w
<1>6. st'[s] = w /\ \A q \in Stations \ {s} : st'[q] = st[q]
  BY <1>4, SetOne DEF Before
<1>7. Same(st[s], w)
  BY <1>3, <1>5 DEF Same
<1>8. /\ st[s].logTimer /\ news' = news \ {<<s, st[s].dx>>} /\ manual' = manual \ {s}
      /\ UNCHANGED <<setting, air, inbox, shown, got, confirmed>>
  BY DEF LogQSO
<1> QED BY <1>3, <1>5, <1>6, <1>7, <1>8 DEF Rests, OthersStay

\* The operator enables or halts transmission.
LEMMA ActRests ==
  ASSUME Before, NEW s \in Stations, NEW w \in Window, NEW interferes, Act(s, w, interferes),
         Same(st[s], w), w.logTimer = st[s].logTimer,
         air' \subseteq air, {m \in air' : m.from # s} = {m \in air : m.from # s},
         UNCHANGED <<got, confirmed, news>>
  PROVE  Rests(s)
<1> DEFINE x == [w EXCEPT !.idle = 0]
<1>1. /\ Set(s, x) /\ ~st[s].logTimer /\ manual' = manual \cup {s}
      /\ UNCHANGED <<setting, inbox, shown>>
  BY DEF Act
<1>2. Same(w, x) /\ x.logTimer = w.logTimer
  BY DEF Window, Same
<1> HIDE DEF x
<1>3. st'[s] = x /\ \A q \in Stations \ {s} : st'[q] = st[q]
  BY <1>1, SetOne DEF Before
<1>4. Same(st[s], x)
  BY <1>2 DEF Same
<1> QED BY <1>1, <1>2, <1>3, <1>4 DEF Rests, OthersStay

LEMMA EnableTxRests == ASSUME Before, NEW s \in Stations, EnableTx(s) PROVE Rests(s)
<1> DEFINE w == AutoTxMode(s, st[s], TRUE)
<1>1. Station(s) /\ st[s] \in Window
  BY Facts
<1>2. w \in Window
  BY <1>1, AutoTxModeType
<1>3. Same(st[s], w) /\ w.logTimer = st[s].logTimer
  BY <1>1, AutoTxModeSame
<1>4. Act(s, w, FALSE) /\ air' = air /\ UNCHANGED <<got, confirmed, news>>
  BY DEF EnableTx, history
<1> HIDE DEF w
<1> QED BY <1>2, <1>3, <1>4, ActRests

LEMMA StopTxRests == ASSUME Before, NEW s \in Stations, StopTx(s) PROVE Rests(s)
<1> DEFINE w == OnStopTxButton(s, st[s])
<1>1. Station(s) /\ st[s] \in Window
  BY Facts
<1>2. w \in Window
  BY <1>1, OnStopTxType
<1>3. Same(st[s], w) /\ w.logTimer = st[s].logTimer
  BY <1>1, OnStopTxSame
<1>4. /\ Act(s, w, TRUE) /\ air' = {m \in air : m.from # s}
      /\ UNCHANGED <<got, confirmed, news>>
  BY DEF StopTx, history
<1> HIDE DEF w
<1> QED BY <1>2, <1>3, <1>4, ActRests

-----------------------------------------------------------------------------
(* The channel.                                                            *)

LEMMA TransmittingStays ==
  ASSUME NEW s, NEW q, q # s, OthersStay(s)
  PROVE  Transmitting(q)' = Transmitting(q)
BY DEF OthersStay, Transmitting

LEMMA SendsChannel == ASSUME Before, NEW s \in Stations, Sends(s) PROVE Channel'
<1> DEFINE w == st[s]
           t == Text(s, w)
<1>1. /\ Station(s) /\ w \in Window /\ w.dx \in Stations \cup {NoCall} /\ w.dx # s
      /\ w.ntx \in 1..6 /\ air \subseteq Message
  BY Facts
<1>2. /\ t.from = s /\ t.to = IF w.ntx = 6 THEN Everyone ELSE w.dx
      /\ t.kind = "CQ" <=> w.ntx = 6
      /\ t.kind = "rpt" <=> w.ntx = 2
      /\ t.kind = "Rrpt" <=> w.ntx = 3
      /\ t.kind \in {"RRR", "RR73"} <=> w.ntx = 4
  BY <1>1, TextSays
<1> HIDE DEF t
<1>3. \/ ~Transmitting(s) /\ air' = air \cup {t}
      \/ air' = {m \in air : m.from # s} \cup {t}
      \/ ~Transmitting(s) /\ air' = air
  BY DEF Sends, t
<1>4. \A m \in air' : m = t \/ (m \in air /\ m.from # s)
  BY <1>3 DEF Transmitting
<1>5. /\ \A q \in Stations \ {s} : st'[q] = st[q]
      /\ \A q \in Stations : st'[q].dx = st[q].dx
      /\ inbox' = inbox /\ shown' = shown /\ ~st'[s].restart
  BY DEF Sends, OthersStay
<1>6. \A k : Said([kind |-> k], w.ntx) => Said([kind |-> k], st'[s].ntx)
  <2>1. CASE Signs(s, w)
    BY <2>1, <1>1 DEF Sends, Signs, Said
  <2>2. CASE ~Signs(s, w)
    BY <2>2 DEF Sends
  <2> QED BY <2>1, <2>2
<1>7. \A m : Said(m, w.ntx) => Said(m, st'[s].ntx)
  BY <1>6 DEF Said
<1>8. \A m, n \in air' : m.from = n.from => m = n
  BY <1>2, <1>4 DEF Before, QsoInv, Channel
<1>9. Proper(t) /\ Said(t, st'[s].ntx)
  <2>1. w.ntx # 6 => w.dx \in Stations
    BY <1>1 DEF Sends
  <2>2. Proper(t)
    BY <1>1, <1>2, <2>1, StationsAssumption DEF Proper
  <2>3. Said(t, w.ntx)
    BY <1>2 DEF Said
  <2> QED BY <1>7, <2>2, <2>3
<1>10. \A m \in air' : Proper(m) /\ (st'[m.from].restart \/ Said(m, st'[m.from].ntx))
  <2> TAKE m \in air'
  <2>1. CASE m = t
    BY <1>2, <1>9, <2>1
  <2>2. CASE m \in air /\ m.from # s
    <3>1. m.from \in Stations \ {s}
      BY <1>1, <2>2 DEF Message
    <3>2. st'[m.from] = st[m.from]
      BY <1>5, <3>1
    <3> QED BY <2>2, <3>2 DEF Before, QsoInv, Channel
  <2> QED BY <1>4, <2>1, <2>2
<1>11. ASSUME NEW q \in Stations
       PROVE  /\ st'[q].dx # q
              /\ \A m, n \in Heard(q) : m = n
              /\ inbox[q] \cap shown[q] = {}
              /\ \A m \in Heard(q) : ForUs(q, m) /\ Said(m, st'[m.from].ntx)
              /\ st'[q].restart => inbox[q] = {}
  <2>1. /\ \A m, n \in Heard(q) : m = n
        /\ inbox[q] \cap shown[q] = {}
        /\ \A m \in Heard(q) : ForUs(q, m) /\ Said(m, st[m.from].ntx)
        /\ st[q].restart => inbox[q] = {}
        /\ st[q].dx # q
    BY DEF Before, QsoInv, Channel
  <2>2. \A m \in Heard(q) : m.from \in Stations
    BY Facts DEF Message
  <2>3. \A m \in Heard(q) : Said(m, st'[m.from].ntx)
    BY <1>5, <1>7, <2>1, <2>2
  <2> QED BY <1>5, <2>1, <2>3
<1>12. \A q \in Stations : Heard(q)' = Heard(q)
  BY <1>5 DEF Heard
<1>13. \A q, p \in Stations : q # p => Heard(q) = {} \/ Heard(p) = {}
  BY DEF Before, QsoInv, Channel
<1> QED BY <1>5, <1>8, <1>10, <1>11, <1>12, <1>13 DEF Channel

LEMMA TakesChannel ==
  ASSUME Before, NEW s \in Stations, NEW m \in Heard(s), Takes(s, m)
  PROVE  Channel'
<1>1. PICK p \in Stations : p # s /\ Stations = {s, p}
  BY Partner
<1>2. m.from = p /\ Heard(s) = {m} /\ Heard(p) = {} /\ ForUs(s, m) /\ Said(m, st[p].ntx)
  BY <1>1, HeardFrom
<1>3. /\ st'[p] = st[p] /\ air' \subseteq air
      /\ inbox'[s] = {} /\ shown'[s] = Heard(s)
      /\ inbox'[p] = inbox[p] /\ shown'[p] = shown[p]
      /\ Reacted(s, st[s], st'[s], m)
  BY <1>1 DEF Takes, OthersStay
<1>4. \A n \in air : n.from \in {s, p}
  BY <1>1, Facts DEF Message
<1>5. \A n \in air' : Proper(n) /\ (st'[n.from].restart \/ Said(n, st'[n.from].ntx))
  <2> TAKE n \in air'
  <2>1. Proper(n) /\ (st[n.from].restart \/ Said(n, st[n.from].ntx))
    BY <1>3 DEF Before, QsoInv, Channel
  <2>2. CASE n.from = p
    BY <1>3, <2>1, <2>2
  <2>3. CASE n.from = s
    <3>1. Transmitting(s)
      BY <1>3, <2>3 DEF Transmitting
    <3>2. Same(st[s], st'[s]) \/ st'[s].restart
      BY <1>3, <3>1 DEF Reacted
    <3> QED BY <2>1, <2>3, <3>2 DEF Same
  <2> QED BY <1>3, <1>4, <2>2, <2>3
<1>6. st'[s].dx # s /\ st'[p].dx # p
  BY <1>1, <1>2, <1>3, Facts DEF Reacted, Same
<1>7. Heard(s)' = {m} /\ Heard(p)' = {}
  BY <1>2, <1>3 DEF Heard
<1>8. inbox'[p] = {} /\ shown'[p] = {} /\ inbox'[s] = {}
  BY <1>2, <1>3 DEF Heard
<1>9. \A n1, n2 \in air' : n1.from = n2.from => n1 = n2
  BY <1>3 DEF Before, QsoInv, Channel
<1>10. \A q \in Stations :
         /\ st'[q].dx # q
         /\ \A n1, n2 \in Heard(q)' : n1 = n2
         /\ inbox'[q] \cap shown'[q] = {}
         /\ \A n \in Heard(q)' : ForUs(q, n) /\ Said(n, st'[n.from].ntx)
         /\ st'[q].restart => inbox'[q] = {}
  BY <1>1, <1>2, <1>3, <1>6, <1>7, <1>8
<1>11. \A q, r \in Stations : q # r => Heard(q)' = {} \/ Heard(r)' = {}
  BY <1>1, <1>7
<1> QED BY <1>5, <1>9, <1>10, <1>11 DEF Channel

LEMMA RestsChannel == ASSUME Before, NEW s \in Stations, Rests(s) PROVE Channel'
<1>1. /\ \A q \in Stations : Same(st[q], st'[q])
      /\ air' \subseteq air /\ inbox' = inbox /\ shown' = shown
  BY DEF Rests, OthersStay, Same
<1>2. \A q \in Stations : Heard(q)' = Heard(q)
  BY <1>1 DEF Heard
<1>3. \A m \in air : m.from \in Stations
  BY Facts DEF Message
<1>4. \A q \in Stations : \A m \in Heard(q) : m.from \in Stations
  BY Facts DEF Message
<1> QED BY <1>1, <1>2, <1>3, <1>4 DEF Before, QsoInv, Channel, Same

\* What was on the air is what the others hear, unless they transmitted.
LEMMA NextPeriodChannel == ASSUME Before, NextPeriod PROVE Channel'
<1>1. /\ inbox' = [q \in Stations |-> IF Transmitting(q) THEN {} ELSE air]
      /\ shown' = [q \in Stations |-> {}] /\ air' = {}
      /\ \A q \in Stations : ~st[q].restart
  BY DEF NextPeriod
<1>2. \A q \in Stations : Same(st[q], st'[q])
  <2> TAKE q \in Stations
  <2>1. st[q] \in Window
    BY Facts
  <2> QED BY <2>1 DEF NextPeriod, Same, Window
<1>3. \A q \in Stations : Heard(q)' = IF Transmitting(q) THEN {} ELSE air
  BY <1>1 DEF Heard
<1>4. \A m \in air : /\ m \in Message /\ m.from \in Stations /\ Proper(m)
                     /\ Said(m, st[m.from].ntx)
                     /\ m.to \in Stations \cup {Everyone}
  <2> TAKE m \in air
  <2>1. m \in Message
    BY DEF Before, IInv, TypeOK
  <2>2. Proper(m) /\ (st[m.from].restart \/ Said(m, st[m.from].ntx))
    BY DEF Before, QsoInv, Channel
  <2> QED BY <1>1, <2>1, <2>2 DEF Message
<1>5. \A q \in Stations : \A m \in Heard(q)' : m \in air /\ m.from # q
  BY <1>3 DEF Transmitting
<1>6. ASSUME NEW q \in Stations
      PROVE  /\ st'[q].dx # q
             /\ \A m, n \in Heard(q)' : m = n
             /\ inbox'[q] \cap shown'[q] = {}
             /\ \A m \in Heard(q)' : ForUs(q, m) /\ Said(m, st'[m.from].ntx)
             /\ ~st'[q].restart
  <2>1. PICK p \in Stations : p # q /\ Stations = {q, p}
    BY Partner
  <2>2. \A m \in Heard(q)' : m \in air /\ m.from = p
    BY <1>4, <1>5, <2>1
  <2>3. \A m, n \in Heard(q)' : m = n
    BY <2>2 DEF Before, QsoInv, Channel
  <2>4. \A m \in Heard(q)' : ForUs(q, m)
    BY <1>4, <2>1, <2>2, StationsAssumption DEF ForUs, Proper
  <2>5. \A m \in Heard(q)' : Said(m, st'[m.from].ntx)
    BY <1>2, <1>4, <2>2 DEF Same
  <2>6. st'[q].dx # q /\ ~st'[q].restart
    BY <1>1, <1>2, Facts DEF Same
  <2> QED BY <1>1, <2>3, <2>4, <2>5, <2>6
<1>7. ASSUME NEW q \in Stations, NEW p \in Stations, q # p, Heard(q)' # {}
      PROVE  Heard(p)' = {}
  <2>1. PICK m \in Heard(q)' : m \in air /\ m.from # q
    BY <1>5, <1>7
  <2>2. m.from = p
    BY <1>4, <1>7, <2>1 DEF Before, Two
  <2> QED BY <1>3, <2>1, <2>2 DEF Transmitting
<1> QED BY <1>1, <1>6, <1>7 DEF Channel

-----------------------------------------------------------------------------
(* Nobody signs off while the other waits, and what they know is so.       *)

\* The answers that matter to the other station.
LEMMA AnsweredNtx ==
  ASSUME NEW w, NEW v, NEW kind \in Kinds, Answered(w, v, kind)
  PROVE  /\ v.ntx = 3 => kind = "rpt" \/ (v.ntx = w.ntx /\ kind = "73")
         /\ v.ntx = 4 => kind = "Rrpt" \/ (v.ntx = w.ntx /\ kind = "73")
         /\ v.ntx = 5 => kind \in {"RRR", "RR73"} \/ (v.ntx = w.ntx /\ kind = "73")
<1>1. CASE kind \in {"CQ", "grid", "rpt", "Rrpt"}
  BY <1>1 DEF Answered
<1>2. CASE kind \in {"RRR", "RR73"}
  BY <1>2 DEF Answered
<1>3. CASE kind = "73"
  BY <1>3 DEF Answered
<1> QED BY <1>1, <1>2, <1>3 DEF Kinds

\* Two stations to look at, each with the other.
LEMMA Pairwise ==
  ASSUME NEW s, NEW p, Stations = {s, p}, NEW q \in Stations, NEW r \in Stations, q # r
  PROVE  (q = s /\ r = p) \/ (q = p /\ r = s)
OBVIOUS

LEMMA SendsNoCross == ASSUME Before, NEW s \in Stations, Sends(s) PROVE NoCross'
<1>1. /\ st'[s].ntx \in {st[s].ntx, 6}
      /\ \A q \in Stations \ {s} : st'[q] = st[q]
  BY DEF Sends, OthersStay
<1> QED BY <1>1 DEF Before, QsoInv, NoCross

LEMMA TakesNoCross ==
  ASSUME Before, NEW s \in Stations, NEW m \in Heard(s), Takes(s, m)
  PROVE  NoCross'
<1>1. PICK p \in Stations : p # s /\ Stations = {s, p}
  BY Partner
<1>2. m.kind \in Kinds /\ Said(m, st[p].ntx)
  BY <1>1, HeardFrom
<1>3. st'[p] = st[p] /\ Reacted(s, st[s], st'[s], m)
  BY <1>1 DEF Takes, OthersStay
<1>4. ~(st[s].ntx = 5 /\ st[p].ntx = 3) /\ ~(st[p].ntx = 5 /\ st[s].ntx = 3)
  BY <1>1 DEF Before, QsoInv, NoCross
<1>5. \/ st'[s].ntx = st[s].ntx
      \/ /\ st'[s].ntx = 3 => m.kind = "rpt"
         /\ st'[s].ntx = 5 => m.kind \in {"RRR", "RR73"}
  BY <1>2, <1>3, AnsweredNtx DEF Reacted, Same
<1>6. ~(st'[s].ntx = 5 /\ st'[p].ntx = 3) /\ ~(st'[p].ntx = 5 /\ st'[s].ntx = 3)
  BY <1>2, <1>3, <1>4, <1>5 DEF Said
<1> QED BY <1>1, <1>6, Pairwise DEF NoCross

LEMMA RestsNoCross == ASSUME Before, NEW s \in Stations, Rests(s) PROVE NoCross'
<1>1. \A q \in Stations : st'[q].ntx = st[q].ntx
  BY DEF Rests, OthersStay, Same
<1> QED BY <1>1 DEF Before, QsoInv, NoCross

\* At the end of a period the windows stay as they are.
LEMMA NextPeriodSame ==
  ASSUME Before, NextPeriod, NEW q \in Stations
  PROVE  /\ Same(st[q], st'[q])
         /\ st'[q].logTimer = st[q].logTimer /\ st'[q].auto = st[q].auto
<1>1. st[q] \in Window
  BY Facts
<1> QED BY <1>1 DEF NextPeriod, Same, Window

LEMMA NextPeriodNoCross == ASSUME Before, NextPeriod PROVE NoCross'
<1>1. \A q \in Stations : st'[q].ntx = st[q].ntx
  BY NextPeriodSame DEF Same
<1> QED BY <1>1 DEF Before, QsoInv, NoCross

LEMMA SendsKnowledge == ASSUME Before, NEW s \in Stations, Sends(s) PROVE Knowledge'
<1> DEFINE w == st[s]
           v == st'[s]
           t == Text(s, w)
<1>1. PICK p \in Stations : p # s /\ Stations = {s, p}
  BY Partner
<1>2. /\ Station(s) /\ w \in Window /\ w.dx \in Stations \cup {NoCall} /\ w.dx # s
      /\ w.ntx \in 1..6
  BY Facts
<1>3. Knows(s, p) /\ Knows(p, s)
  BY <1>1 DEF Before, QsoInv, Knowledge
<1>4. w.ntx # 6 => w.dx = p
  BY <1>1, <1>2 DEF Sends
<1>5. Truthful(t)
  <2>1. /\ t.from = s /\ t.to = IF w.ntx = 6 THEN Everyone ELSE w.dx
        /\ t.kind = "Rrpt" <=> w.ntx = 3
        /\ t.kind \in {"RRR", "RR73"} <=> w.ntx = 4
    BY <1>2, TextSays
  <2> HIDE DEF t
  <2>2. CASE t.kind = "Rrpt"
    BY <1>3, <1>4, <2>1, <2>2 DEF Truthful, Knows
  <2>3. CASE t.kind \in {"RRR", "RR73"}
    BY <1>3, <1>4, <2>1, <2>3 DEF Truthful, Knows
  <2> QED BY <2>2, <2>3 DEF Truthful
<1>6. air' \subseteq air \cup {t}
  BY DEF Sends
<1> HIDE DEF t
<1>7. /\ inbox' = inbox /\ shown' = shown /\ got' = got /\ confirmed' = confirmed
      /\ st'[p] = st[p]
  BY <1>1 DEF Sends, OthersStay
<1>8. \A n \in air' : Truthful(n)'
  BY <1>5, <1>6, <1>7 DEF Truthful, Both, Before, QsoInv, Knowledge
<1>9. \A q \in Stations : \A n \in Heard(q)' : Truthful(n)'
  BY <1>7 DEF Truthful, Both, Before, QsoInv, Knowledge, Heard
<1>10. Knows(p, s)'
  BY <1>3, <1>7 DEF Knows, Both
<1>11. Knows(s, p)'
  <2>1. v.logTimer => v.dx = p /\ Both(s, p) /\ <<s, p>> \in confirmed
    <3>1. v.dx = w.dx
          /\ (v.logTimer => w.logTimer \/ w.ntx \in {4, 5})
      BY DEF Sends, Signs
    <3> QED BY <1>3, <1>4, <3>1 DEF Knows
  <2>2. v.ntx = 3 => <<s, p>> \in got
    <3>1. v.ntx = 3 => w.ntx = 3
      BY DEF Sends
    <3> QED BY <1>3, <3>1 DEF Knows
  <2>3. v.ntx \in {4, 5} \/ v.progress = ROGERS => Both(s, p) /\ <<s, p>> \in confirmed
    <3>1. v.ntx \in {4, 5} => w.ntx \in {4, 5}
      BY DEF Sends
    <3>2. v.progress = ROGERS => w.progress = ROGERS \/ w.ntx = 4
      BY DEF Sends, CALLING, ROGERS
    <3> QED BY <1>3, <3>1, <3>2 DEF Knows
  <2> QED BY <1>7, <2>1, <2>2, <2>3 DEF Knows, Both
<1> QED BY <1>1, <1>8, <1>9, <1>10, <1>11, Pairwise DEF Knowledge

\* What is known stays known when more is heard.
LEMMA TruthGrows ==
  ASSUME NEW m, Truthful(m), got \subseteq got'
  PROVE  Truthful(m)'
BY DEF Truthful, Both

LEMMA TakesKnowledge ==
  ASSUME Before, NEW s \in Stations, NEW m \in Heard(s), Takes(s, m)
  PROVE  Knowledge'
<1> DEFINE w == st[s]
           v == st'[s]
<1>1. PICK p \in Stations : p # s /\ Stations = {s, p}
  BY Partner
<1>2. /\ m.from = p /\ m.kind \in Kinds /\ ForUs(s, m) /\ Truthful(m)
      /\ Heard(s) = {m} /\ Heard(p) = {}
  BY <1>1, HeardFrom
<1>3. /\ st'[p] = st[p] /\ air' \subseteq air
      /\ inbox'[s] = {} /\ shown'[s] = Heard(s)
      /\ inbox'[p] = inbox[p] /\ shown'[p] = shown[p]
      /\ Reacted(s, w, v, m) /\ Hear(s, m)
  BY <1>1 DEF Takes, OthersStay
<1>4. Heard(s)' = {m} /\ Heard(p)' = {}
  BY <1>2, <1>3 DEF Heard
<1>5. /\ got \subseteq got' /\ confirmed \subseteq confirmed'
      /\ m.kind \in {"rpt", "Rrpt"} => <<s, p>> \in got'
      /\ m.kind \in {"Rrpt", "RRR", "RR73"} => <<s, p>> \in confirmed'
  BY <1>2, <1>3 DEF Hear, ForUs, Reports, Confirms
<1>6. \A n \in air' : Truthful(n)'
  BY <1>3, <1>5, TruthGrows DEF Before, QsoInv, Knowledge
<1>7. \A q \in Stations : \A n \in Heard(q)' : Truthful(n)'
  BY <1>1, <1>2, <1>4, <1>5, TruthGrows
<1>8. Knows(s, p) /\ Knows(p, s)
  BY <1>1 DEF Before, QsoInv, Knowledge
<1>9. Knows(p, s)'
  BY <1>3, <1>5, <1>8 DEF Knows, Both
<1>10. CASE Same(w, v) /\ v.logTimer = w.logTimer
  <2>1. Knows(s, p)'
    BY <1>5, <1>8, <1>10 DEF Knows, Both, Same
  <2> QED BY <1>1, <1>6, <1>7, <1>9, <2>1, Pairwise DEF Knowledge
<1>11. CASE v.dx = p /\ Answered(w, v, m.kind)
  <2>1. m.kind = "Rrpt" => <<p, s>> \in got
    BY <1>2 DEF Truthful, ForUs
  <2>2. m.kind \in {"RRR", "RR73"} => Both(p, s)
    BY <1>2 DEF Truthful, ForUs
  <2>3. m.kind \in {"Rrpt", "RRR", "RR73"} =>
          {<<s, p>>, <<p, s>>} \subseteq got' /\ <<s, p>> \in confirmed'
    BY <1>5, <2>1, <2>2 DEF Both
  <2>4. w.ntx \in {4, 5} \/ w.progress = ROGERS \/ w.logTimer =>
          {<<s, p>>, <<p, s>>} \subseteq got' /\ <<s, p>> \in confirmed'
    BY <1>5, <1>8 DEF Knows, Both
  <2>5. v.logTimer => w.logTimer \/ w.progress = ROGERS
    BY <1>2, <1>11 DEF Answered, Kinds
  <2>6. v.ntx = 3 => <<s, p>> \in got'
    BY <1>2, <1>5, <1>8, <1>11, AnsweredNtx DEF Knows
  <2>7. v.ntx \in {4, 5} => w.ntx \in {4, 5} \/ m.kind \in {"Rrpt", "RRR", "RR73"}
    BY <1>2, <1>11, AnsweredNtx
  <2>8. v.progress = ROGERS => w.progress = ROGERS \/ m.kind = "Rrpt"
    BY <1>2, <1>11 DEF Answered, Kinds, CALLING, REPLYING, REPORT, ROGER_REPORT, ROGERS, SIGNOFF
  <2>9. Knows(s, p)'
    BY <1>11, <2>3, <2>4, <2>5, <2>6, <2>7, <2>8 DEF Knows, Both
  <2> QED BY <1>1, <1>6, <1>7, <1>9, <2>9, Pairwise DEF Knowledge
<1> QED BY <1>2, <1>3, <1>10, <1>11 DEF Reacted

LEMMA RestsKnowledge == ASSUME Before, NEW s \in Stations, Rests(s) PROVE Knowledge'
<1>1. /\ \A q \in Stations : Same(st[q], st'[q]) /\ (st'[q].logTimer => st[q].logTimer)
      /\ air' \subseteq air /\ inbox' = inbox /\ shown' = shown
      /\ got' = got /\ confirmed' = confirmed
  BY DEF Rests, OthersStay, Same
<1>2. \A n \in air' : Truthful(n)'
  BY <1>1, TruthGrows DEF Before, QsoInv, Knowledge
<1>3. \A q \in Stations : \A n \in Heard(q)' : Truthful(n)'
  BY <1>1, TruthGrows DEF Before, QsoInv, Knowledge, Heard
<1>4. \A q, p \in Stations : q # p => Knows(q, p)'
  <2> SUFFICES ASSUME NEW q \in Stations, NEW p \in Stations, q # p PROVE Knows(q, p)'
    OBVIOUS
  <2>1. Knows(q, p)
    BY DEF Before, QsoInv, Knowledge
  <2> QED BY <1>1, <2>1 DEF Knows, Both, Same
<1> QED BY <1>2, <1>3, <1>4 DEF Knowledge

LEMMA NextPeriodKnowledge == ASSUME Before, NextPeriod PROVE Knowledge'
<1>1. /\ \A q \in Stations : Heard(q)' \subseteq air
      /\ air' = {} /\ got' = got /\ confirmed' = confirmed
  BY DEF NextPeriod, Heard, history
<1>2. \A q \in Stations : \A n \in Heard(q)' : Truthful(n)'
  BY <1>1, TruthGrows DEF Before, QsoInv, Knowledge
<1>3. \A q, p \in Stations : q # p => Knows(q, p)'
  <2> SUFFICES ASSUME NEW q \in Stations, NEW p \in Stations, q # p PROVE Knows(q, p)'
    OBVIOUS
  <2>1. Knows(q, p)
    BY DEF Before, QsoInv, Knowledge
  <2>2. Same(st[q], st'[q]) /\ st'[q].logTimer = st[q].logTimer
    BY NextPeriodSame
  <2> QED BY <1>1, <2>1, <2>2 DEF Knows, Both, Same
<1> QED BY <1>1, <1>2, <1>3 DEF Knowledge

-----------------------------------------------------------------------------
(* One log entry for what was heard since the last one.                    *)

\* The parts of OncePerNews about s and p.
Once(s, p) ==
  /\ st[s].logTimer => <<s, p>> \in news
  /\ st[s].logTimer \/ <<s, p>> \notin news => Spent(s)
  /\ Logging(s)

LEMMA OnceBefore ==
  ASSUME Before, NEW s \in Stations, NEW p \in Stations, s # p
  PROVE  Once(s, p)
BY DEF Before, QsoInv, OncePerNews, Once

LEMMA OnceAfter ==
  ASSUME NEW s, NEW p, Stations = {s, p}, Once(s, p)', Once(p, s)'
  PROVE  OncePerNews'
<1> SUFFICES ASSUME NEW q \in Stations, NEW r \in Stations, q # r
             PROVE  /\ st'[q].logTimer => <<q, r>> \in news'
                    /\ st'[q].logTimer \/ <<q, r>> \notin news' => Spent(q)'
                    /\ Logging(q)'
  BY DEF OncePerNews
<1>1. CASE q = s /\ r = p
  BY <1>1 DEF Once
<1>2. CASE q = p /\ r = s
  BY <1>2 DEF Once
<1> QED BY <1>1, <1>2, Pairwise

\* The partner is in the same state when it keeps its window and its messages.
LEMMA OnceStays ==
  ASSUME NEW s, NEW p \in Stations, s # p, Once(p, s), OthersStay(s),
         inbox'[p] = inbox[p], setting' = setting,
         <<p, s>> \in news' <=> <<p, s>> \in news
  PROVE  Once(p, s)'
<1>1. st'[p] = st[p]
  BY DEF OthersStay
<1>2. Transmitting(p)' = Transmitting(p)
  BY TransmittingStays
<1>3. Spent(p)' <=> Spent(p)
  BY <1>1 DEF Spent
<1>4. Logging(p)' <=> Logging(p)
  BY <1>1, <1>2 DEF Logging
<1> QED BY <1>1, <1>3, <1>4 DEF Once

LEMMA SendsOnce == ASSUME Before, NEW s \in Stations, Sends(s) PROVE OncePerNews'
<1> DEFINE w == st[s]
           v == st'[s]
<1>1. PICK p \in Stations : p # s /\ Stations = {s, p}
  BY Partner
<1>2. Once(s, p) /\ Once(p, s)
  BY <1>1, OnceBefore
<1>3. OthersStay(s) /\ UNCHANGED <<setting, inbox, news>>
  BY DEF Sends
<1>4. Once(p, s)'
  BY <1>1, <1>2, <1>3, OnceStays
<1>5. v.logTimer => w.logTimer \/ (Signs(s, w) /\ ~w.last73 /\ w.progress # CALLING)
  BY DEF Sends
<1>6. v.logTimer => <<s, p>> \in news'
  BY <1>2, <1>3, <1>5 DEF Once, Spent, Signs
<1>7. ASSUME v.logTimer \/ <<s, p>> \notin news'
      PROVE  Spent(s)'
  <2>1. CASE Signs(s, w)
    <3>1. v.ntx = 6 /\ v.progress = CALLING
      BY <2>1 DEF Sends
    <3> QED BY <3>1 DEF Spent, CALLING, ROGERS
  <2>2. CASE ~Signs(s, w)
    <3>1. /\ v.ntx = w.ntx
          /\ v.progress \in {w.progress, IF w.ntx = 6 THEN CALLING ELSE w.ntx}
      BY <2>2 DEF Sends
    <3>2. Spent(s)
      BY <1>2, <1>3, <1>5, <1>7, <2>2 DEF Once
    <3>3. w.ntx # 5 /\ w.ntx # 4 /\ w.progress # ROGERS
      BY <2>2, <3>2 DEF Spent, Signs
    <3>4. v.progress # ROGERS
      BY <3>1, <3>3 DEF CALLING, ROGERS
    <3> QED BY <3>1, <3>3, <3>4 DEF Spent
  <2> QED BY <2>1, <2>2
<1>8. Logging(s)'
  <2> SUFFICES ASSUME v.logTimer, inbox[s] # {}
               PROVE  /\ Transmitting(s)' /\ ~v.auto /\ v.last73 /\ v.progress = CALLING
                      /\ v.ntx = 6
                      /\ ~setting[s].rr73 => \A m \in inbox[s] : m.kind # "Rrpt"
    BY <1>3 DEF Logging
  <2>1. ~w.restart
    BY DEF Before, QsoInv, Channel
  <2>2. ~Transmitting(s) /\ air' = air \cup {Text(s, w)}
    BY <2>1 DEF Sends
  <2>3. Station(s) /\ w \in Window
    BY Facts
  <2>4. Text(s, w).from = s
    BY <2>3, TextSays
  <2>5. Transmitting(s)'
    BY <2>2, <2>4 DEF Transmitting
  <2>6. Signs(s, w)
    BY <1>2, <1>5, <2>2 DEF Once, Logging
  <2>7. ~v.auto /\ v.last73 /\ v.progress = CALLING /\ v.ntx = 6
    BY <2>6 DEF Sends
  <2>8. ASSUME ~setting[s].rr73, NEW m \in inbox[s] PROVE m.kind # "Rrpt"
    <3>1. w.ntx = 5
      BY <2>6, <2>8 DEF Signs
    <3>2. st[p].ntx # 3
      BY <1>1, <3>1 DEF Before, QsoInv, NoCross
    <3>3. Said(m, st[p].ntx)
      BY <1>1, HeardFrom DEF Heard
    <3> QED BY <3>2, <3>3 DEF Said
  <2> QED BY <2>5, <2>7, <2>8
<1>9. Once(s, p)'
  BY <1>6, <1>7, <1>8 DEF Once
<1> QED BY <1>1, <1>4, <1>9, OnceAfter

LEMMA TakesOnce ==
  ASSUME Before, NEW s \in Stations, NEW m \in Heard(s), Takes(s, m)
  PROVE  OncePerNews'
<1> DEFINE w == st[s]
           v == st'[s]
<1>1. PICK p \in Stations : p # s /\ Stations = {s, p}
  BY Partner
<1>2. /\ m.from = p /\ m.kind \in Kinds /\ ForUs(s, m)
      /\ Heard(s) = {m} /\ Heard(p) = {}
  BY <1>1, HeardFrom
<1>3. Once(s, p) /\ Once(p, s)
  BY <1>1, OnceBefore
<1>4. /\ OthersStay(s) /\ setting' = setting
      /\ inbox'[s] = {} /\ inbox'[p] = inbox[p]
      /\ Reacted(s, w, v, m) /\ Hear(s, m)
  BY <1>1 DEF Takes
<1>5. /\ news \subseteq news' /\ news' \subseteq news \cup {<<s, p>>}
      /\ m.kind \in {"Rrpt", "RRR", "RR73"} => <<s, p>> \in news'
  BY <1>2, <1>4 DEF Hear, ForUs, Reports, Confirms
<1>6. Once(p, s)'
  BY <1>1, <1>3, <1>4, <1>5, OnceStays
<1>7. \/ m \in inbox[s]
      \/ /\ ~w.logTimer
         /\ m.kind = "73" => Same(w, v) /\ ~v.logTimer
  BY DEF Takes
<1>8. Logging(s)'
  BY <1>4 DEF Logging
<1>9. CASE Same(w, v) /\ v.logTimer = w.logTimer
  <2>1. v.logTimer => <<s, p>> \in news'
    BY <1>3, <1>5, <1>9 DEF Once
  <2>2. v.logTimer \/ <<s, p>> \notin news' => Spent(s)'
    BY <1>3, <1>4, <1>5, <1>9 DEF Once, Spent, Same
  <2> QED BY <1>1, <1>6, <1>8, <2>1, <2>2, OnceAfter DEF Once
<1>10. CASE /\ v.last73 = w.last73 /\ v.restart = (w.restart \/ Transmitting(s))
            /\ Answered(w, v, m.kind)
  <2>1. CASE m.kind \in {"CQ", "grid", "rpt"}
    <3>1. /\ v.ntx \notin {4, 5} /\ v.progress # ROGERS /\ v.logTimer = w.logTimer
      BY <1>10, <2>1 DEF Answered, REPLYING, REPORT, ROGER_REPORT, ROGERS
    <3>2. Once(s, p)'
      BY <1>3, <1>5, <1>8, <3>1 DEF Once, Spent
    <3> QED BY <1>1, <1>6, <3>2, OnceAfter
  <2>2. CASE m.kind = "Rrpt"
    <3>1. v.ntx = 4 /\ v.progress = ROGERS /\ v.logTimer = w.logTimer
      BY <1>10, <2>2 DEF Answered
    <3>2. ASSUME v.logTimer PROVE Spent(s)'
      <4>1. w.logTimer /\ m \in inbox[s]
        BY <1>7, <3>1, <3>2
      <4>2. setting[s].rr73 /\ Transmitting(s) /\ w.last73
        BY <1>3, <2>2, <4>1 DEF Once, Logging
      <4>3. v.restart /\ v.last73
        BY <1>10, <4>2
      <4> QED BY <1>4, <3>1, <4>2, <4>3 DEF Spent
    <3>3. Once(s, p)'
      BY <1>5, <1>8, <2>2, <3>2 DEF Once
    <3> QED BY <1>1, <1>6, <3>3, OnceAfter
  <2>3. CASE m.kind \in {"RRR", "RR73"}
    <3>1. /\ v.ntx = 5 /\ v.logTimer = w.logTimer
          /\ w.progress = CALLING => v.progress = CALLING
      BY <1>10, <2>3 DEF Answered, CALLING, ROGER_REPORT
    <3>2. ASSUME v.logTimer PROVE Spent(s)'
      <4>1. w.logTimer /\ m \in inbox[s]
        BY <1>7, <3>1, <3>2
      <4>2. w.progress = CALLING
        BY <1>3, <4>1 DEF Once, Logging
      <4> QED BY <3>1, <4>2 DEF Spent, CALLING, ROGERS
    <3>3. Once(s, p)'
      BY <1>5, <1>8, <2>3, <3>2 DEF Once
    <3> QED BY <1>1, <1>6, <3>3, OnceAfter
  <2>4. CASE m.kind = "73" /\ w.progress = ROGERS
    <3>1. v.ntx = 6 /\ v.progress = SIGNOFF /\ v.logTimer
      BY <1>10, <2>4 DEF Answered
    <3>2. m \in inbox[s]
      BY <1>7, <2>4, <3>1
    <3>3. <<s, p>> \in news
      BY <1>3, <2>4, <3>2 DEF Once, Spent
    <3>4. Once(s, p)'
      BY <1>5, <1>8, <3>1, <3>3 DEF Once, Spent, SIGNOFF, ROGERS
    <3> QED BY <1>1, <1>6, <3>4, OnceAfter
  <2>5. CASE m.kind = "73" /\ w.progress # ROGERS
    <3>1. /\ v.ntx = w.ntx /\ v.progress = w.progress /\ v.logTimer = w.logTimer
          /\ v.last73 = w.last73 /\ (w.restart => v.restart)
      BY <1>10, <2>5 DEF Answered
    <3>2. v.logTimer => <<s, p>> \in news'
      BY <1>3, <1>5, <3>1 DEF Once
    <3>3. v.logTimer \/ <<s, p>> \notin news' => Spent(s)'
      BY <1>3, <1>4, <1>5, <3>1 DEF Once, Spent
    <3> QED BY <1>1, <1>6, <1>8, <3>2, <3>3, OnceAfter DEF Once
  <2> QED BY <1>2, <2>1, <2>2, <2>3, <2>4, <2>5 DEF Kinds
<1> QED BY <1>4, <1>9, <1>10 DEF Reacted

LEMMA RestsOnce == ASSUME Before, NEW s \in Stations, Rests(s) PROVE OncePerNews'
<1> DEFINE w == st[s]
           v == st'[s]
<1>1. PICK p \in Stations : p # s /\ Stations = {s, p}
  BY Partner
<1>2. Once(s, p) /\ Once(p, s)
  BY <1>1, OnceBefore
<1>3. OthersStay(s) /\ setting' = setting /\ inbox' = inbox /\ Same(w, v)
  BY DEF Rests
<1>4. <<p, s>> \in news' <=> <<p, s>> \in news
  BY <1>1 DEF Rests
<1>5. Once(p, s)'
  BY <1>1, <1>2, <1>3, <1>4, OnceStays
<1>6. Spent(s)' <=> Spent(s)
  BY <1>3 DEF Spent, Same
<1>7. CASE w.logTimer /\ ~v.logTimer
  BY <1>1, <1>2, <1>5, <1>6, <1>7, OnceAfter DEF Once, Logging
<1>8. CASE /\ v.logTimer = w.logTimer /\ news' = news /\ ~v.auto
           /\ air' = air \/ w.auto
  <2>1. Logging(s)'
    BY <1>2, <1>3, <1>8 DEF Once, Logging, Transmitting, Same
  <2> QED BY <1>1, <1>2, <1>5, <1>6, <1>8, <2>1, OnceAfter DEF Once
<1>9. CASE ~w.logTimer /\ ~v.logTimer /\ news' = news
  BY <1>1, <1>2, <1>5, <1>6, <1>9, OnceAfter DEF Once, Logging
<1> QED BY <1>7, <1>8, <1>9 DEF Rests

LEMMA NextPeriodOnce == ASSUME Before, NextPeriod PROVE OncePerNews'
<1> SUFFICES ASSUME NEW q \in Stations, NEW r \in Stations, q # r
             PROVE  /\ st'[q].logTimer => <<q, r>> \in news'
                    /\ st'[q].logTimer \/ <<q, r>> \notin news' => Spent(q)'
                    /\ Logging(q)'
  BY DEF OncePerNews
<1>1. /\ Same(st[q], st'[q]) /\ ~st'[q].logTimer
      /\ ~st[q].restart /\ news' = news /\ setting' = setting
  BY NextPeriodSame DEF NextPeriod, history
<1>2. Once(q, r)
  BY OnceBefore
<1>3. <<q, r>> \notin news' => Spent(q)'
  BY <1>1, <1>2 DEF Once, Spent, Same
<1> QED BY <1>1, <1>3 DEF Logging

-----------------------------------------------------------------------------
(* Without the Wait features nothing happens by itself after a log entry.  *)

\* The part of Attended about s.
Idle(s) ==
  ~setting[s].wait /\ s \notin manual =>
    /\ ~st[s].auto /\ ~st[s].logTimer
    /\ st[s].restart =>
         (st[s].ntx = 5 => st[s].progress = CALLING) /\ (st[s].ntx = 4 => st[s].last73)

LEMMA SendsAttended ==
  ASSUME Before, Attended, NEW s \in Stations, Sends(s)
  PROVE  Attended'
<1> DEFINE w == st[s]
           v == st'[s]
<1>1. \A q \in Stations : Idle(q)
  BY DEF Attended, Idle
<1>2. OthersStay(s) /\ UNCHANGED <<setting, manual>>
  BY DEF Sends
<1>3. \A q \in Stations \ {s} : Idle(q)'
  BY <1>1, <1>2 DEF Idle, OthersStay
<1>4. ASSUME ~setting[s].wait, s \notin manual
      PROVE  ~v.auto /\ ~v.logTimer /\ ~v.restart
  <2>1. /\ ~w.auto /\ ~w.logTimer
        /\ w.restart => (w.ntx = 5 => w.progress = CALLING) /\ (w.ntx = 4 => w.last73)
    BY <1>1, <1>4 DEF Idle
  <2>2. w.restart /\ ~v.restart
    BY <2>1 DEF Sends
  <2>3. ~(Signs(s, w) /\ ~w.last73 /\ w.progress # CALLING)
    BY <2>1, <2>2 DEF Signs
  <2>4. ~v.logTimer
    BY <2>1, <2>3 DEF Sends
  <2>5. ~v.auto
    BY <2>1 DEF Sends
  <2> QED BY <2>2, <2>4, <2>5
<1>5. Idle(s)'
  BY <1>2, <1>4 DEF Idle
<1>6. \A q \in Stations : Idle(q)'
  BY <1>3, <1>5
<1> QED BY <1>6 DEF Attended, Idle

LEMMA TakesAttended ==
  ASSUME Before, Attended, NEW s \in Stations, NEW m \in Heard(s), Takes(s, m)
  PROVE  Attended'
<1>1. \A q \in Stations : Idle(q)
  BY DEF Attended, Idle
<1>2. OthersStay(s) /\ setting' = setting
  BY DEF Takes
<1>3. manual' = manual \/ manual' = manual \cup {s}
  BY DEF Takes
<1>4. \A q \in Stations \ {s} : Idle(q)'
  BY <1>1, <1>2, <1>3 DEF Idle, OthersStay
<1>5. \/ manual' = manual /\ (~st[s].auto /\ ~setting[s].wait => st'[s] = st[s])
      \/ manual' = manual \cup {s}
  BY DEF Takes
<1>6. Idle(s)'
  BY <1>1, <1>2, <1>5 DEF Idle
<1>7. \A q \in Stations : Idle(q)'
  BY <1>4, <1>6
<1> QED BY <1>7 DEF Attended, Idle

LEMMA RestsAttended ==
  ASSUME Before, Attended, NEW s \in Stations, Rests(s)
  PROVE  Attended'
<1> DEFINE w == st[s]
           v == st'[s]
<1>1. \A q \in Stations : Idle(q)
  BY DEF Attended, Idle
<1>2. OthersStay(s) /\ setting' = setting /\ Same(w, v)
  BY DEF Rests
<1>3. \A q \in Stations \ {s} : q \in manual' <=> q \in manual
  BY DEF Rests
<1>4. \A q \in Stations \ {s} : Idle(q)'
  BY <1>1, <1>2, <1>3 DEF Idle, OthersStay
<1>5. CASE w.logTimer /\ ~v.logTimer /\ ~v.auto
  <2>1. PICK p \in Stations : p # s
    BY Partner
  <2>2. Spent(s)
    BY <1>5, <2>1, OnceBefore DEF Once
  <2>3. Idle(s)'
    BY <1>2, <1>5, <2>2 DEF Spent, Idle, Same
  <2> QED BY <1>4, <2>3 DEF Attended, Idle
<1>6. CASE v.logTimer = w.logTimer /\ manual' = manual /\ ~v.auto
  <2>1. Idle(s)'
    BY <1>1, <1>2, <1>6 DEF Idle, Same
  <2> QED BY <1>4, <2>1 DEF Attended, Idle
<1>7. CASE manual' = manual \cup {s}
  <2>1. Idle(s)'
    BY <1>7 DEF Idle
  <2> QED BY <1>4, <2>1 DEF Attended, Idle
<1> QED BY <1>5, <1>6, <1>7 DEF Rests

LEMMA NextPeriodAttended == ASSUME Before, Attended, NextPeriod PROVE Attended'
<1>1. setting' = setting /\ manual' = manual
  BY DEF NextPeriod
<1>2. \A q \in Stations : Idle(q)'
  <2> TAKE q \in Stations
  <2>1. Idle(q)
    BY DEF Attended, Idle
  <2>2. /\ Same(st[q], st'[q])
        /\ st'[q].logTimer = st[q].logTimer /\ st'[q].auto = st[q].auto
    BY NextPeriodSame
  <2> QED BY <1>1, <2>1, <2>2 DEF Idle, Same
<1> QED BY <1>2 DEF Attended, Idle

-----------------------------------------------------------------------------
(* Every step.                                                             *)

\* What two stations always satisfy.
QInv == Before /\ Attended /\ logs \in [Q!Pairs -> Nat]

LEMMA SendsKeeps ==
  ASSUME Before, Attended, NEW s \in Stations, Sends(s)
  PROVE  QsoInv' /\ Attended'
BY SendsChannel, SendsNoCross, SendsKnowledge, SendsOnce, SendsAttended DEF QsoInv

LEMMA TakesKeeps ==
  ASSUME Before, Attended, NEW s \in Stations, NEW m \in Heard(s), Takes(s, m)
  PROVE  QsoInv' /\ Attended'
BY TakesChannel, TakesNoCross, TakesKnowledge, TakesOnce, TakesAttended DEF QsoInv

LEMMA RestsKeeps ==
  ASSUME Before, Attended, NEW s \in Stations, Rests(s)
  PROVE  QsoInv' /\ Attended'
BY RestsChannel, RestsNoCross, RestsKnowledge, RestsOnce, RestsAttended DEF QsoInv

\* What a station hears of the other is heard in the abstract contact, too.
LEMMA HearHears ==
  ASSUME Before, NEW s \in Stations, NEW m \in Heard(s), Takes(s, m)
  PROVE  [Q!QsoNext]_(Q!exchange) /\ logs' = logs
<1>1. PICK p \in Stations : p # s /\ m.from = p
  BY Partner, HeardFrom
<1>2. Hear(s, m) /\ m.to \in Stations \cup {Everyone}
  BY Facts DEF Takes, Message
<1>3. <<s, p>> \in Q!Pairs /\ <<s, p>>[1] = s /\ <<s, p>>[2] = p
  BY <1>1 DEF Q!Pairs
<1>4. Reports(m) \in BOOLEAN /\ Confirms(m) \in BOOLEAN
  BY DEF Reports, Confirms
<1>5. CASE m.to = s /\ (Reports(m) \/ Confirms(m))
  <2>1. Q!Hear(s, p, Reports(m), Confirms(m))
    BY <1>1, <1>2, <1>5 DEF Hear, Q!Hear
  <2>2. Q!QsoNext
    BY <1>3, <1>4, <2>1 DEF Q!QsoNext
  <2> QED BY <1>2, <2>2 DEF Hear
<1>6. CASE ~(m.to = s /\ (Reports(m) \/ Confirms(m)))
  BY <1>2, <1>6 DEF Hear, Q!exchange
<1> QED BY <1>5, <1>6

\* A log entry is the entry of a contact.
LEMMA LogQSOEnters ==
  ASSUME Before, NEW s \in Stations, LogQSO(s)
  PROVE  \E p \in Stations : /\ p = st[s].dx /\ <<s, p>> \in Q!Pairs
                             /\ Q!Enter(s, p) /\ Q!QsoNext
<1>1. PICK p \in Stations : p # s
  BY Partner
<1>2. st[s].logTimer
  BY DEF LogQSO
<1>3. Knows(s, p) /\ Once(s, p)
  BY <1>1, OnceBefore DEF Before, QsoInv, Knowledge
<1>4. st[s].dx = p /\ Both(s, p) /\ <<s, p>> \in confirmed /\ <<s, p>> \in news
  BY <1>2, <1>3 DEF Knows, Once
<1>5. Q!Enter(s, p)
  BY <1>4 DEF LogQSO, Q!Enter, Both
<1>6. <<s, p>> \in Q!Pairs /\ <<s, p>>[1] = s /\ <<s, p>>[2] = p
  BY <1>1 DEF Q!Pairs
<1>7. Q!QsoNext
  BY <1>5, <1>6 DEF Q!QsoNext
<1> QED BY <1>4, <1>5, <1>6, <1>7

\* A station logs another only after its operator acted.
Manually ==
  \A s \in Stations :
    ~setting[s].wait /\ (\E p \in Stations \ {s} : logs'[<<s, p>>] # logs[<<s, p>>])
      => s \in manual

\* Every step keeps the invariant, is a step of the abstract contact or none,
\* and logs nobody unattended.
LEMMA StepKeeps ==
  ASSUME QInv, [Next]_vars
  PROVE  QInv' /\ [Q!QsoNext]_(Q!exchange) /\ Manually
<1>1. Before /\ Attended /\ Two /\ IInv
  BY DEF QInv, Before
<1>2. IInv'
  BY <1>1, NextKeeps
<1>3. CASE NextPeriod
  <2>1. QsoInv' /\ Attended'
    BY <1>1, <1>3, NextPeriodChannel, NextPeriodNoCross, NextPeriodKnowledge, NextPeriodOnce,
       NextPeriodAttended DEF QsoInv
  <2>2. UNCHANGED history
    BY <1>3 DEF NextPeriod
  <2> QED BY <1>1, <1>2, <2>1, <2>2 DEF QInv, Before, Two, history, Q!exchange, Manually
<1>4. ASSUME NEW s \in Stations, StartTx(s) \/ Restart(s)
      PROVE  QInv' /\ [Q!QsoNext]_(Q!exchange) /\ Manually
  <2>1. Sends(s)
    BY <1>1, <1>4, StartTxSends, RestartSends
  <2>2. QsoInv' /\ Attended'
    BY <1>1, <2>1, SendsKeeps
  <2>3. UNCHANGED history
    BY <1>4 DEF StartTx, Restart
  <2> QED BY <1>1, <1>2, <2>2, <2>3 DEF QInv, Before, Two, history, Q!exchange, Manually
<1>5. ASSUME NEW s \in Stations, Decode(s) \/ DoubleClick(s)
      PROVE  QInv' /\ [Q!QsoNext]_(Q!exchange) /\ Manually
  <2>1. PICK m \in Heard(s) : Takes(s, m)
    BY <1>1, <1>5, DecodeTakes, DoubleClickTakes
  <2>2. QsoInv' /\ Attended'
    BY <1>1, <2>1, TakesKeeps
  <2>3. [Q!QsoNext]_(Q!exchange) /\ logs' = logs
    BY <1>1, <2>1, HearHears
  <2> QED BY <1>1, <1>2, <2>2, <2>3 DEF QInv, Before, Two, Manually
<1>6. ASSUME NEW s \in Stations,
             TxWatchdog(s) \/ StopWRTimeout(s) \/ EnableTx(s) \/ StopTx(s)
      PROVE  QInv' /\ [Q!QsoNext]_(Q!exchange) /\ Manually
  <2>1. Rests(s)
    BY <1>1, <1>6, TxWatchdogRests, StopWRTimeoutRests, EnableTxRests, StopTxRests
  <2>2. QsoInv' /\ Attended'
    BY <1>1, <2>1, RestsKeeps
  <2>3. UNCHANGED history
    BY <1>6 DEF TxWatchdog, StopWRTimeout, EnableTx, StopTx
  <2> QED BY <1>1, <1>2, <2>2, <2>3 DEF QInv, Before, Two, history, Q!exchange, Manually
<1>7. ASSUME NEW s \in Stations, LogQSO(s)
      PROVE  QInv' /\ [Q!QsoNext]_(Q!exchange) /\ Manually
  <2>1. QsoInv' /\ Attended'
    BY <1>1, <1>7, LogQSORests, RestsKeeps
  <2>2. PICK p \in Stations : p = st[s].dx /\ <<s, p>> \in Q!Pairs /\ Q!Enter(s, p) /\ Q!QsoNext
    BY <1>1, <1>7, LogQSOEnters
  <2>3. logs' = [logs EXCEPT ![<<s, p>>] = @ + 1]
    BY <2>2 DEF Q!Enter
  <2>4. logs \in [Q!Pairs -> Nat]
    BY DEF QInv
  <2>5. logs' \in [Q!Pairs -> Nat]
    BY <2>2, <2>3, <2>4
  <2>6. ASSUME NEW q \in Stations, NEW r \in Stations \ {q}, ~setting[q].wait,
               logs'[<<q, r>>] # logs[<<q, r>>]
        PROVE  q \in manual
    <3>1. <<q, r>> \in Q!Pairs
      BY <2>6 DEF Q!Pairs
    <3>2. <<q, r>> = <<s, p>>
      BY <2>3, <2>4, <2>6, <3>1
    <3>3. q = s /\ st[s].logTimer
      BY <1>7, <3>2 DEF LogQSO
    <3> QED BY <1>1, <2>6, <3>3 DEF Attended
  <2>7. Manually
    BY <2>6 DEF Manually
  <2> QED BY <1>1, <1>2, <2>1, <2>2, <2>5, <2>7 DEF QInv, Before, Two
<1>8. CASE UNCHANGED vars
  <2>1. QsoInv' /\ Attended'
    BY <1>1, <1>8 DEF vars, history, Before, QsoInv, Channel, Heard, NoCross, Knowledge, Knows,
       Truthful, Both, OncePerNews, Spent, Logging, Transmitting, Attended
  <2> QED BY <1>1, <1>2, <1>8, <2>1 DEF QInv, Before, Two, vars, history, Q!exchange, Manually
<1> QED BY <1>3, <1>4, <1>5, <1>6, <1>7, <1>8 DEF Next

LEMMA InitEstablishes == ASSUME Two, Init PROVE QInv /\ Q!QsoInit
<1>1. IInv
  BY InitKeeps
<1>2. \A s \in Stations :
        /\ st[s].ntx = 6 /\ st[s].progress = CALLING /\ st[s].dx = NoCall
        /\ ~st[s].restart /\ ~st[s].logTimer /\ ~st[s].auto
        /\ inbox[s] = {} /\ shown[s] = {}
  BY DEF Init
<1>3. air = {} /\ got = {} /\ confirmed = {} /\ news = {}
      /\ logs = [pair \in Q!Pairs |-> 0]
  BY DEF Init
<1>4. Channel
  BY <1>2, <1>3, StationsAssumption DEF Channel, Heard
<1>5. NoCross /\ Knowledge
  BY <1>2, <1>3 DEF NoCross, Knowledge, Heard, Knows, CALLING, ROGERS
<1>6. OncePerNews
  BY <1>2 DEF OncePerNews, Spent, Logging, CALLING, ROGERS
<1>7. Attended
  BY <1>2 DEF Attended
<1>8. logs \in [Q!Pairs -> Nat]
  BY <1>3
<1> QED BY <1>1, <1>3, <1>4, <1>5, <1>6, <1>7, <1>8 DEF QInv, Before, QsoInv, Q!QsoInit

\* Between two stations each log entry is a contact with exchanged reports and
\* a confirmation, and a new one: what the automatic log of Auto Seq promises,
\* whatever is lost on the way, double-clicked or timed out.
THEOREM TwoStationsImplementQso == Two /\ Spec => ImplementsQso
<1>1. Two /\ Init => QInv /\ Q!QsoInit
  BY InitEstablishes
<1>2. QInv /\ [Next]_vars => QInv' /\ [Q!QsoNext]_(Q!exchange)
  BY StepKeeps
<1> QED BY <1>1, <1>2, PTL DEF Spec, ImplementsQso, Q!QsoSpec

\* Between two stations, and without the Wait features, an operator acts
\* before every log entry after the first: WSJT-X makes no QSOs by itself.
THEOREM TwoStationsNeedOperators == Two /\ Spec => NoConsecutiveQsos
<1>1. Two /\ Init => QInv
  BY InitEstablishes
<1>2. QInv /\ [Next]_vars => QInv' /\ Manually
  BY StepKeeps
<1> QED BY <1>1, <1>2, PTL DEF Spec, NoConsecutiveQsos, Manually

-----------------------------------------------------------------------------

P == INSTANCE Qso_proofs

\* So two stations that have each other in the log have exchanged reports both
\* ways, and the one that logged has its own confirmed.
THEOREM TwoStationsLogContacts == Two /\ Spec => []P!LoggedIsWorked
<1>1. Q!QsoInit => P!QsoInit
  BY DEF Q!QsoInit, P!QsoInit, Q!Pairs, P!Pairs
<1>2. [Q!QsoNext]_(Q!exchange) => [P!QsoNext]_(P!exchange)
  BY DEF Q!QsoNext, P!QsoNext, Q!exchange, P!exchange, Q!Pairs, P!Pairs, Q!Hear, P!Hear,
     Q!Enter, P!Enter
<1>3. P!QsoSpec => []P!LoggedIsWorked
  BY P!EntriesAreContacts
<1> QED BY <1>1, <1>2, <1>3, TwoStationsImplementQso, PTL
    DEF ImplementsQso, Q!QsoSpec, P!QsoSpec

=============================================================================
