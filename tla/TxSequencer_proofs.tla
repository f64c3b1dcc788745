------------------------- MODULE TxSequencer_proofs -------------------------
(***************************************************************************)
(* What holds of TxSequencer for every set of messages, every watchdog     *)
(* time and every bound: the inductive invariant, from it the invariants   *)
(* of the runs and that the Tx watchdog stops a transmission.              *)
(***************************************************************************)
EXTENDS TxSequencer, TLAPS

\* What a handler other than guiUpdate does to a transmission: at most clear
\* m_btxok.
Keeps(u, v) ==
  /\ v \in MainWindow
  /\ v.iptt = u.iptt
  /\ v.iptt0 = u.iptt0
  /\ v.btxok0 = u.btxok0
  /\ v.transmitting = u.transmitting
  /\ v.ptt0Timer = u.ptt0Timer
  /\ v.btxok => u.btxok

Armed(u) ==
  /\ u.iptt => u.transmitting /\ u.iptt0 /\ u.btxok0
  /\ u.transmitting \/ u.iptt0 \/ u.btxok => u.iptt

\* PTT is asked for only during a transmission or until ptt0Timer fires, and
\* the rig is keyed only if PTT was asked for or its request is on the way;
\* both take an open rig.
PttFollows(u, r) ==
  /\ r.asked => u.iptt \/ u.ptt0Timer > 0
  /\ r.ptt => r.asked \/ r.request = "posted"
  /\ r.ptt \/ r.request = "posted" => r.online

IInv == TypeOK /\ Armed(ui) /\ PttFollows(ui, rig)

-----------------------------------------------------------------------------
(* The handlers.                                                           *)

\* A MainWindow with one field replaced is one.
LEMMA Fields ==
  ASSUME NEW u \in MainWindow, NEW b \in BOOLEAN
  PROVE  /\ [u EXCEPT !.auto = b] \in MainWindow
         /\ [u EXCEPT !.tune = b] \in MainWindow
         /\ [u EXCEPT !.tuneButton = b] \in MainWindow
         /\ [u EXCEPT !.lastChecked = b] \in MainWindow
         /\ [u EXCEPT !.txTime = b] \in MainWindow
         /\ [u EXCEPT !.iptt = b] \in MainWindow
         /\ [u EXCEPT !.iptt0 = b] \in MainWindow
         /\ [u EXCEPT !.btxok = b] \in MainWindow
         /\ [u EXCEPT !.btxok0 = b] \in MainWindow
         /\ [u EXCEPT !.transmitting = b] \in MainWindow
         /\ [u EXCEPT !.txWhenReady = b] \in MainWindow
         /\ [u EXCEPT !.tuneATU_Timer = b] \in MainWindow
         /\ [u EXCEPT !.swallowed = b] \in MainWindow
BY DEF MainWindow

\* The same for the timers.
LEMMA TimerFields ==
  ASSUME NEW u \in MainWindow, NEW t \in Timer
  PROVE  /\ [u EXCEPT !.blocked = t] \in MainWindow
         /\ [u EXCEPT !.ptt0Timer = t] \in MainWindow
         /\ [u EXCEPT !.ptt1Timer = t] \in MainWindow
         /\ [u EXCEPT !.tuneButtonTimer = t] \in MainWindow
BY DEF MainWindow

\* A timer that has just been started is one.
LEMMA StartedIsTimer == Started \in Timer
BY DEF Started, Timer

\* on_autoButton_clicked touches nothing of a transmission.
LEMMA AutoKeeps ==
  ASSUME NEW u \in MainWindow, NEW checked \in BOOLEAN
  PROVE  Keeps(u, OnAutoButton(u, checked))
BY DEF Keeps, OnAutoButton, MainWindow

\* on_tuneButton_clicked touches nothing of a transmission.
LEMMA TuneKeeps ==
  ASSUME NEW u \in MainWindow, NEW checked \in BOOLEAN
  PROVE  Keeps(u, OnTuneButton(u, checked))
<1> DEFINE b == u.tune \/ TuneToggles(u, checked)
           t == IF TuneToggles(u, checked) /\ u.tune THEN Started
                ELSE u.tuneButtonTimer
           v == [u EXCEPT !.auto = FALSE, !.tuneATU_Timer = checked,
                          !.lastChecked = checked, !.tune = b,
                          !.tuneButtonTimer = t]
<1>1. b \in BOOLEAN /\ t \in Timer
  BY StartedIsTimer DEF TuneToggles, MainWindow
<1>2. OnTuneButton(u, checked)
        = IF u.blocked > 0 THEN [u EXCEPT !.swallowed = TRUE] ELSE v
  BY DEF OnTuneButton, MainWindow
<1> HIDE DEF b, t
<1>3. v \in MainWindow
  BY <1>1, Fields, TimerFields
<1>4. /\ v.iptt = u.iptt /\ v.iptt0 = u.iptt0 /\ v.btxok0 = u.btxok0
      /\ v.transmitting = u.transmitting /\ v.ptt0Timer = u.ptt0Timer
      /\ v.btxok = u.btxok
  BY DEF MainWindow
<1>5. Keeps(u, [u EXCEPT !.swallowed = TRUE])
  BY DEF Keeps, MainWindow
<1>6. Keeps(u, v)
  BY <1>3, <1>4 DEF Keeps
<1> QED BY <1>2, <1>5, <1>6

\* stop_tuning leaves Tune and touches nothing of a transmission.
LEMMA StopTuningKeeps ==
  ASSUME NEW u \in MainWindow
  PROVE  Keeps(u, StopTuning(u)) /\ ~StopTuning(u).tune
<1> DEFINE v == [u EXCEPT !.tuneATU_Timer = FALSE]
<1> DEFINE w == OnTuneButton(v, FALSE)
<1>1. Keeps(u, v)
  BY DEF Keeps, MainWindow
<1>2. Keeps(v, w)
  BY <1>1, TuneKeeps DEF Keeps
<1>3. Keeps(u, w)
  BY <1>1, <1>2 DEF Keeps
<1>4. CASE u.tune
  <2>1. StopTuning(u) = [w EXCEPT !.tuneButton = FALSE, !.txTime = FALSE, !.tune = FALSE]
    BY <1>4 DEF StopTuning
  <2> HIDE DEF w
  <2>2. w \in MainWindow
    BY <1>3 DEF Keeps
  <2>3. StopTuning(u) \in MainWindow
    <3>1. [w EXCEPT !.tuneButton = FALSE, !.txTime = FALSE, !.tune = FALSE]
            \in MainWindow
      BY <2>2, Fields
    <3> QED BY <2>1, <3>1
  <2>4. /\ StopTuning(u).iptt = w.iptt /\ StopTuning(u).iptt0 = w.iptt0
        /\ StopTuning(u).btxok0 = w.btxok0 /\ StopTuning(u).btxok = w.btxok
        /\ StopTuning(u).transmitting = w.transmitting
        /\ StopTuning(u).ptt0Timer = w.ptt0Timer /\ ~StopTuning(u).tune
    BY <2>1, <2>2 DEF MainWindow
  <2> QED BY <1>3, <2>3, <2>4 DEF Keeps
<1>5. CASE ~u.tune
  BY <1>5 DEF StopTuning, Keeps, MainWindow
<1> QED BY <1>4, <1>5

\* on_stopTxButton_clicked only clears m_btxok.
LEMMA StopButtonKeeps ==
  ASSUME NEW u \in MainWindow
  PROVE  /\ Keeps(u, OnStopTxButton(u))
         /\ ~OnStopTxButton(u).tune /\ ~OnStopTxButton(u).auto
<1> DEFINE v == StopTuning(u)
<1>1. Keeps(u, v) /\ ~v.tune
  BY StopTuningKeeps
<1>2. OnStopTxButton(u)
        = [v EXCEPT !.auto = FALSE, !.btxok = FALSE, !.tuneATU_Timer = FALSE]
  BY DEF OnStopTxButton
<1> HIDE DEF v
<1>3. v \in MainWindow
  BY <1>1 DEF Keeps
<1>4. OnStopTxButton(u) \in MainWindow
  <2>1. [v EXCEPT !.auto = FALSE, !.btxok = FALSE, !.tuneATU_Timer = FALSE]
          \in MainWindow
    BY <1>3, Fields
  <2> QED BY <1>2, <2>1
<1>5. /\ OnStopTxButton(u).iptt = v.iptt /\ OnStopTxButton(u).iptt0 = v.iptt0
      /\ OnStopTxButton(u).btxok0 = v.btxok0 /\ ~OnStopTxButton(u).btxok
      /\ OnStopTxButton(u).transmitting = v.transmitting
      /\ OnStopTxButton(u).ptt0Timer = v.ptt0Timer
  BY <1>2, <1>3 DEF MainWindow
<1>6. ~OnStopTxButton(u).tune /\ ~OnStopTxButton(u).auto
  BY <1>1, <1>2, <1>3 DEF MainWindow
<1> QED BY <1>1, <1>4, <1>5, <1>6 DEF Keeps

\* tx_watchdog (true) turns off what could start or continue a transmission.
LEMMA WatchdogKeeps ==
  ASSUME NEW u \in MainWindow
  PROVE  /\ Keeps(u, TxWatchdog(u))
         /\ ~TxWatchdog(u).tune /\ ~TxWatchdog(u).auto /\ ~TxWatchdog(u).txTime
<1> DEFINE v == StopTuning(u)
<1>1. Keeps(u, v) /\ ~v.tune
  BY StopTuningKeeps
<1>2. TxWatchdog(u) = [v EXCEPT !.txTime = FALSE, !.auto = FALSE]
  BY DEF TxWatchdog
<1> HIDE DEF v
<1>3. v \in MainWindow
  BY <1>1 DEF Keeps
<1>4. TxWatchdog(u) \in MainWindow
  <2>1. [v EXCEPT !.txTime = FALSE, !.auto = FALSE] \in MainWindow
    BY <1>3, Fields
  <2> QED BY <1>2, <2>1
<1>5. /\ TxWatchdog(u).iptt = v.iptt /\ TxWatchdog(u).iptt0 = v.iptt0
      /\ TxWatchdog(u).btxok0 = v.btxok0 /\ TxWatchdog(u).btxok = v.btxok
      /\ TxWatchdog(u).transmitting = v.transmitting
      /\ TxWatchdog(u).ptt0Timer = v.ptt0Timer
  BY <1>2, <1>3 DEF MainWindow
<1>6. ~TxWatchdog(u).tune /\ ~TxWatchdog(u).auto /\ ~TxWatchdog(u).txTime
  BY <1>1, <1>2, <1>3 DEF MainWindow
<1> QED BY <1>1, <1>4, <1>5, <1>6 DEF Keeps

\* tx_watchdog (false) and on_the_minute only count.
LEMMA CountKeeps ==
  ASSUME NEW u \in MainWindow
  PROVE  Keeps(u, Intervention(u)) /\ Keeps(u, Minute(u))
<1>1. 0 \in 0..Watchdog
  BY WatchdogAssumption
<1>2. Keeps(u, Intervention(u))
  BY <1>1 DEF Keeps, Intervention, MainWindow
<1>3. CASE ~u.auto
  BY <1>2, <1>3 DEF Minute
<1>4. CASE u.auto /\ u.idleMinutes < Watchdog
  <2>1. u.idleMinutes + 1 \in 0..Watchdog
    BY <1>4, WatchdogAssumption DEF MainWindow
  <2> QED BY <1>2, <1>4, <2>1 DEF Minute, Keeps, MainWindow
<1>5. CASE u.auto /\ ~(u.idleMinutes < Watchdog)
  BY <1>2, <1>5 DEF Minute, Keeps
<1> QED BY <1>2, <1>3, <1>4, <1>5

\* What Keeps, keeps the invariant of a transmission.
LEMMA KeepsArmed ==
  ASSUME NEW u \in MainWindow, NEW v, Keeps(u, v), Armed(u),
         NEW r, PttFollows(u, r)
  PROVE  v \in MainWindow /\ Armed(v) /\ PttFollows(v, r)
BY DEF Keeps, Armed, PttFollows, MainWindow

\* What the handlers post is for the Modulator.
LEMMA SignalTypes ==
  ASSUME NEW u \in MainWindow, NEW checked \in BOOLEAN
  PROVE  /\ TuneSignal(u, checked) \in Seq(ModulatorSignals)
         /\ StopTuningSignal(u) \in Seq(ModulatorSignals)
<1>1. <<"tune on">> \in Seq(ModulatorSignals) /\ <<"tune off">> \in Seq(ModulatorSignals)
      /\ <<>> \in Seq(ModulatorSignals)
  BY DEF ModulatorSignals
<1>2. \A x \in BOOLEAN : TuneSignal(u, x) \in {<<>>, <<"tune on">>, <<"tune off">>}
  BY DEF TuneSignal
<1>3. TuneSignal(u, checked) \in Seq(ModulatorSignals)
  BY <1>1, <1>2
<1>4. StopTuningSignal(u) \in Seq(ModulatorSignals)
  BY <1>1, <1>2 DEF StopTuningSignal
<1> QED BY <1>3, <1>4

-----------------------------------------------------------------------------
(* The parts of guiUpdate.                                                 *)

\* Keeps is transitive.
LEMMA KeepsTrans ==
  ASSUME NEW u, NEW v, NEW w, Keeps(u, v), Keeps(v, w)
  PROVE  Keeps(u, w)
BY DEF Keeps

\* The parts of a tick before the start at most clear m_btxok.
LEMMA BeforeStart ==
  ASSUME NEW u \in MainWindow, NEW phase, NEW forbidden \in BOOLEAN
  PROVE  /\ Keeps(u, InSequence(u, phase))
         /\ Keeps(u, Guarded(u, forbidden))
         /\ Keeps(u, Watched(u))
         /\ Keeps(u, NothingToSend(u))
<1>1. Keeps(u, InSequence(u, phase))
  <2> DEFINE b == phase # "off" \/ u.tune
  <2>1. b \in BOOLEAN
    BY DEF MainWindow
  <2>2. InSequence(u, phase) = [u EXCEPT !.txTime = b]
    BY DEF InSequence
  <2> HIDE DEF b
  <2> QED BY <2>1, <2>2 DEF Keeps, MainWindow
<1>2. Keeps(u, Guarded(u, forbidden))
  <2> DEFINE v == [u EXCEPT !.txTime = FALSE, !.auto = FALSE]
  <2>1. v \in MainWindow
    BY Fields
  <2>2. /\ v.iptt = u.iptt /\ v.iptt0 = u.iptt0 /\ v.btxok0 = u.btxok0
        /\ v.transmitting = u.transmitting /\ v.ptt0Timer = u.ptt0Timer
        /\ v.btxok = u.btxok
    BY DEF MainWindow
  <2>3. Guarded(u, forbidden) = v \/ Guarded(u, forbidden) = u
    BY DEF Guarded
  <2> HIDE DEF v
  <2> QED BY <2>1, <2>2, <2>3 DEF Keeps
<1>3. Keeps(u, Watched(u))
  BY WatchdogKeeps DEF Watched, Keeps
<1>4. Keeps(u, NothingToSend(u))
  BY StopButtonKeeps DEF NothingToSend, Keeps
<1> QED BY <1>1, <1>2, <1>3, <1>4

\* What the tick is about to start from.
Ready(u, phase, forbidden) ==
  NothingToSend(Watched(Guarded(InSequence(u, phase), forbidden)))

LEMMA ReadyKeeps ==
  ASSUME NEW u \in MainWindow, NEW phase, NEW forbidden \in BOOLEAN
  PROVE  Keeps(u, Ready(u, phase, forbidden))
<1> DEFINE a == InSequence(u, phase)
           b == Guarded(a, forbidden)
           c == Watched(b)
<1>1. Keeps(u, a)
  BY BeforeStart
<1>2. Keeps(a, b)
  BY <1>1, BeforeStart DEF Keeps
<1>3. Keeps(b, c)
  BY <1>2, BeforeStart DEF Keeps
<1>4. Keeps(c, NothingToSend(c))
  BY <1>3, BeforeStart DEF Keeps
<1> HIDE DEF a, b, c
<1>5. Keeps(u, NothingToSend(c))
  BY <1>1, <1>2, <1>3, <1>4, KeepsTrans
<1> QED BY <1>5 DEF Ready, a, b, c

\* A start raises g_iptt, which only the rising edge of this tick shows.
LEMMA StartRises ==
  ASSUME NEW v \in MainWindow, NEW phase, Armed(v)
  PROVE  LET g == TimeToStop(Start(v, phase))
         IN  /\ g \in MainWindow
             /\ g.ptt0Timer = v.ptt0Timer
             /\ Starts(v, phase) => Rising(g)
             /\ ~Starts(v, phase) => Armed(g) /\ g.iptt = v.iptt
<1> DEFINE w == Start(v, phase)
           g == TimeToStop(w)
<1>1. w \in MainWindow
  <2>1. [v EXCEPT !.iptt = TRUE, !.txWhenReady = TRUE] \in MainWindow
    BY Fields
  <2> QED BY <2>1 DEF Start
<1>2. CASE Starts(v, phase)
  <2>1. w = [v EXCEPT !.iptt = TRUE, !.txWhenReady = TRUE]
    BY <1>2 DEF Start
  <2>2. w.iptt /\ w.iptt0 = v.iptt0 /\ w.ptt0Timer = v.ptt0Timer
    BY <2>1 DEF MainWindow
  <2>3. ~v.iptt0
    BY <1>2 DEF Starts, Armed
  <2> HIDE DEF w
  <2>4. g \in MainWindow /\ g.iptt = w.iptt /\ g.iptt0 = w.iptt0
        /\ g.ptt0Timer = w.ptt0Timer
    <3>1. g = [w EXCEPT !.btxok = FALSE] \/ g = w
      BY DEF TimeToStop
    <3>2. [w EXCEPT !.btxok = FALSE] \in MainWindow
      BY <1>1, Fields
    <3>3. /\ [w EXCEPT !.btxok = FALSE].iptt = w.iptt
          /\ [w EXCEPT !.btxok = FALSE].iptt0 = w.iptt0
          /\ [w EXCEPT !.btxok = FALSE].ptt0Timer = w.ptt0Timer
      BY <1>1 DEF MainWindow
    <3> QED BY <1>1, <3>1, <3>2, <3>3
  <2> QED BY <1>2, <2>2, <2>3, <2>4 DEF Rising, w
<1>3. CASE ~Starts(v, phase)
  <2>1. w = v
    BY <1>3 DEF Start
  <2>2. Keeps(v, g)
    BY <2>1 DEF TimeToStop, Keeps, MainWindow
  <2> QED BY <1>3, <2>2 DEF Keeps, Armed
<1> QED BY <1>2, <1>3

\* The rising edge is shown; without one nothing is.
LEMMA Shown ==
  ASSUME NEW g \in MainWindow
  PROVE  LET s == Display(Sent(Generate(g), g.ntx))
         IN  /\ s \in MainWindow
             /\ s.ptt0Timer = g.ptt0Timer
             /\ Rising(g) => s.iptt /\ s.transmitting /\ s.btxok /\ ~s.iptt0
             /\ ~Rising(g) => s = g
<1> DEFINE a == Generate(g)
           b == Sent(a, g.ntx)
           s == Display(b)
<1>1. a \in MainWindow /\ a.iptt = g.iptt /\ a.iptt0 = g.iptt0
      /\ a.ptt0Timer = g.ptt0Timer
  <2> DEFINE x == [g EXCEPT !.auto = FALSE]
  <2>1. x \in MainWindow /\ x.iptt = g.iptt /\ x.iptt0 = g.iptt0
        /\ x.ptt0Timer = g.ptt0Timer
    BY DEF MainWindow
  <2>2. a = [x EXCEPT !.ntx = "CQ"] \/ a = g
    BY DEF Generate
  <2> HIDE DEF x, a
  <2> QED BY <2>1, <2>2, MessagesAssumption DEF MainWindow
<1>2. b \in MainWindow /\ b.iptt = g.iptt /\ b.iptt0 = g.iptt0
      /\ b.ptt0Timer = g.ptt0Timer
  <2> DEFINE x == Intervention(a)
  <2>1. Keeps(a, x)
    BY <1>1, CountKeeps
  <2>2. b = [x EXCEPT !.msgSent0 = g.ntx] \/ b = a
    BY DEF Sent
  <2>3. g.ntx \in Messages
    BY DEF MainWindow
  <2> HIDE DEF x, a, b
  <2> QED BY <1>1, <2>1, <2>2, <2>3 DEF Keeps, MainWindow
<1>3. CASE Rising(g)
  <2>1. Rising(b)
    BY <1>2, <1>3 DEF Rising
  <2> HIDE DEF b
  <2>2. s = [b EXCEPT !.transmitting = TRUE, !.btxok = TRUE]
    BY <2>1 DEF Display
  <2>3. s \in MainWindow
    <3>1. [b EXCEPT !.transmitting = TRUE, !.btxok = TRUE] \in MainWindow
      BY <1>2, Fields
    <3> QED BY <2>2, <3>1
  <2>4. s.iptt = b.iptt /\ s.iptt0 = b.iptt0 /\ s.ptt0Timer = b.ptt0Timer
        /\ s.transmitting /\ s.btxok
    BY <1>2, <2>2 DEF MainWindow
  <2> QED BY <1>2, <1>3, <2>1, <2>3, <2>4 DEF Rising, b
<1>4. CASE ~Rising(g)
  <2>1. a = g
    BY <1>4 DEF Generate
  <2>2. b = g
    BY <1>4, <2>1 DEF Sent
  <2>3. s = g
    BY <1>4, <2>2 DEF Display
  <2> QED BY <1>4, <2>3
<1> QED BY <1>3, <1>4

\* The end of a tick: the falling edge stops, and the latches are set.
LEMMA Latched ==
  ASSUME NEW s \in MainWindow
  PROVE  LET f == Latch(IF Stops(s) THEN StopTx(s) ELSE s)
         IN  /\ f \in MainWindow
             /\ f.auto = s.auto /\ f.tune = s.tune
             /\ Stops(s) => ~f.iptt /\ ~f.transmitting /\ ~f.btxok /\ ~f.iptt0
                            /\ f.ptt0Timer = Started
             /\ ~Stops(s) => f.iptt = s.iptt /\ f.transmitting = s.transmitting
                             /\ f.btxok = s.btxok /\ f.iptt0 = s.iptt
                             /\ f.btxok0 = s.btxok /\ f.ptt0Timer = s.ptt0Timer
<1> DEFINE t == IF Stops(s) THEN StopTx(s) ELSE s
           f == Latch(t)
<1>1. t \in MainWindow
  BY Fields, TimerFields, StartedIsTimer DEF StopTx
<1>2. /\ t.auto = s.auto /\ t.tune = s.tune
      /\ Stops(s) => ~t.iptt /\ ~t.transmitting /\ ~t.btxok /\ t.ptt0Timer = Started
      /\ ~Stops(s) => t = s
  BY DEF StopTx, MainWindow
<1> HIDE DEF t
<1>3. f \in MainWindow
  <2>1. t.iptt \in BOOLEAN /\ t.btxok \in BOOLEAN
    BY <1>1 DEF MainWindow
  <2> QED BY <1>1, <2>1, Fields DEF Latch
<1>4. /\ f.auto = t.auto /\ f.tune = t.tune /\ f.iptt = t.iptt
      /\ f.transmitting = t.transmitting /\ f.btxok = t.btxok
      /\ f.iptt0 = t.iptt /\ f.btxok0 = t.btxok /\ f.ptt0Timer = t.ptt0Timer
  BY <1>1 DEF Latch, MainWindow
<1> HIDE DEF f
<1>5. /\ f.auto = s.auto /\ f.tune = s.tune
      /\ Stops(s) => ~f.iptt /\ ~f.transmitting /\ ~f.btxok /\ ~f.iptt0
                      /\ f.ptt0Timer = Started
      /\ ~Stops(s) => f.iptt = s.iptt /\ f.transmitting = s.transmitting
                      /\ f.btxok = s.btxok /\ f.iptt0 = s.iptt
                      /\ f.btxok0 = s.btxok /\ f.ptt0Timer = s.ptt0Timer
  BY <1>2, <1>4
<1> QED BY <1>3, <1>5 DEF f, t

-----------------------------------------------------------------------------
(* A tick.                                                                 *)

\* Time that passes without a tick leaves a transmission alone; a phase does
\* not end before ptt0Timer of the previous one has fired.
LEMMA AgedKeeps ==
  ASSUME NEW u \in MainWindow, NEW r, Armed(u), PttFollows(u, r),
         u.ptt0Timer # 1
  PROVE  Aged(u) \in MainWindow /\ Armed(Aged(u)) /\ PttFollows(Aged(u), r)
<1>1. \A t \in Timer : Older(t) \in Timer /\ (t # 1 /\ t > 0 => Older(t) > 0)
  BY DEF Older, Timer
<1>2. /\ u.ptt0Timer \in Timer /\ u.ptt1Timer \in Timer
      /\ u.tuneButtonTimer \in Timer /\ u.blocked \in Timer
  BY DEF MainWindow
<1>3. PICK t0, t1, t2, t3 \in Timer :
        /\ Aged(u) = [u EXCEPT !.ptt0Timer = t0, !.ptt1Timer = t1,
                               !.tuneButtonTimer = t2, !.blocked = t3]
        /\ u.ptt0Timer > 0 => t0 > 0
  BY <1>1, <1>2 DEF Aged, MainWindow
<1> DEFINE v == [u EXCEPT !.ptt0Timer = t0, !.ptt1Timer = t1,
                          !.tuneButtonTimer = t2, !.blocked = t3]
<1>4. v \in MainWindow
  BY TimerFields
<1>5. /\ v.iptt = u.iptt /\ v.iptt0 = u.iptt0 /\ v.btxok0 = u.btxok0
      /\ v.transmitting = u.transmitting /\ v.btxok = u.btxok
      /\ v.ptt0Timer = t0
  BY DEF MainWindow
<1> HIDE DEF v
<1>6. Armed(v) /\ PttFollows(v, r)
  BY <1>3, <1>5 DEF Armed, PttFollows
<1> QED BY <1>3, <1>4, <1>6 DEF v

\* A rig that is opened starts unkeyed.
LEMMA OpenedRig ==
  ASSUME NEW r \in Rig
  PROVE  Opened(r) \in Rig /\ Opened(r).online /\ (Opened(r).ptt => r.ptt)
BY DEF Opened, Rig

\* Configuration notes what was asked for; PTT itself changes later.
LEMMA PttAsked ==
  ASSUME NEW r \in Rig, NEW on \in BOOLEAN
  PROVE  LET q == TransceiverPtt(r, on)
         IN  /\ q \in Rig
             /\ q.asked = on /\ q.ptt = r.ptt /\ q.online = r.online
             /\ q.request = IF r.online THEN "posted" ELSE "none"
BY DEF TransceiverPtt, Rig

\* The signals of a tick are for the Modulator.
LEMMA EndSignal ==
  /\ <<>> \in Seq(ModulatorSignals)
  /\ <<"endTransmitMessage">> \in Seq(ModulatorSignals)
BY DEF ModulatorSignals

\* guiUpdate keeps the invariant of a transmission: a start is shown in the
\* same tick, so it is never the one that is stopped, and a stop leaves
\* ptt0Timer running.
LEMMA TickKeeps ==
  ASSUME NEW u \in MainWindow, Armed(u), rig \in Rig, PttFollows(u, rig),
         toMod \in Seq(ModulatorSignals), mod \in Modulator,
         env \in [acts : Nat, incidents : Nat],
         NEW phase \in Phases, NEW forbidden \in BOOLEAN, NEW opens \in BOOLEAN,
         GuiUpdate(u, phase, forbidden, opens)
  PROVE  IInv'
<1> DEFINE begun == InSequence(u, phase)
           ready == Ready(u, phase, forbidden)
           going == IF Busy(begun) THEN TimeToStop(Start(ready, phase)) ELSE begun
           shown == Display(Sent(Generate(going), going.ntx))
           starts == Busy(begun) /\ Starts(ready, phase)
<1>1. /\ ui' = Latch(IF Stops(shown) THEN StopTx(shown) ELSE shown)
      /\ toMod' = toMod
           \o (IF Busy(begun) /\ WatchdogDue(u) THEN StopTuningSignal(begun) ELSE <<>>)
           \o (IF Stops(shown) THEN <<"endTransmitMessage">> ELSE <<>>)
      /\ rig' = IF starts
                THEN TransceiverPtt(IF opens THEN Opened(rig) ELSE rig, TRUE)
                ELSE rig
      /\ clock' = phase
      /\ mod' = mod /\ env' = env
  BY DEF GuiUpdate, Ready
<1>2. Keeps(u, begun) /\ Keeps(u, ready)
  BY BeforeStart, ReadyKeeps
<1>3. begun \in MainWindow /\ Armed(begun) /\ ready \in MainWindow /\ Armed(ready)
  BY <1>2, KeepsArmed
<1>4. /\ going \in MainWindow
      /\ going.ptt0Timer = u.ptt0Timer
      /\ starts => Rising(going)
      /\ ~starts => Armed(going) /\ going.iptt = u.iptt
  BY <1>2, <1>3, StartRises DEF Keeps
<1> HIDE DEF going, ready, starts
<1>5. /\ shown \in MainWindow
      /\ shown.ptt0Timer = going.ptt0Timer
      /\ Rising(going) => shown.iptt /\ shown.transmitting /\ shown.btxok /\ ~shown.iptt0
      /\ ~Rising(going) => shown = going
  BY <1>4, Shown
<1> HIDE DEF shown
<1>6. /\ ui' \in MainWindow
      /\ Stops(shown) => ~ui'.iptt /\ ~ui'.transmitting /\ ~ui'.btxok /\ ~ui'.iptt0
                         /\ ui'.ptt0Timer = Started
      /\ ~Stops(shown) => /\ ui'.iptt = shown.iptt
                          /\ ui'.transmitting = shown.transmitting
                          /\ ui'.btxok = shown.btxok /\ ui'.iptt0 = shown.iptt
                          /\ ui'.btxok0 = shown.btxok
                          /\ ui'.ptt0Timer = shown.ptt0Timer
  BY <1>1, <1>5, Latched
<1>7. toMod' \in Seq(ModulatorSignals)
  <2>1. PICK p, q \in Seq(ModulatorSignals) : toMod' = toMod \o p \o q
    <3>1. StopTuningSignal(begun) \in Seq(ModulatorSignals)
      BY <1>3, SignalTypes
    <3>2. <<>> \in Seq(ModulatorSignals)
          /\ <<"endTransmitMessage">> \in Seq(ModulatorSignals)
      BY EndSignal
    <3> QED BY <1>1, <3>1, <3>2
  <2> QED BY <2>1
<1>8. SUFFICES Armed(ui') /\ PttFollows(ui', rig') /\ rig' \in Rig
  BY <1>1, <1>6, <1>7 DEF IInv, TypeOK
<1>9. CASE starts
  <2>1. ~Stops(shown) /\ ui'.iptt /\ ui'.transmitting /\ ui'.btxok /\ ui'.iptt0
        /\ ui'.btxok0
    BY <1>4, <1>5, <1>6, <1>9 DEF Stops
  <2>2. Armed(ui')
    BY <2>1 DEF Armed
  <2> DEFINE q == IF opens THEN Opened(rig) ELSE rig
  <2>3. q \in Rig /\ (q.ptt => q.online)
    BY OpenedRig DEF PttFollows
  <2>4. rig' = TransceiverPtt(q, TRUE)
    BY <1>1, <1>9
  <2> HIDE DEF q
  <2>5. rig' \in Rig /\ rig'.ptt = q.ptt /\ rig'.online = q.online /\ rig'.asked
        /\ (rig'.request = "posted" => q.online)
    BY <2>3, <2>4, PttAsked
  <2> QED BY <2>1, <2>2, <2>3, <2>5 DEF PttFollows
<1>10. CASE ~starts
  <2>1. Armed(going) /\ shown = going /\ going.iptt = u.iptt
    BY <1>4, <1>5, <1>10 DEF Armed, Rising
  <2>2. Armed(ui')
    BY <1>5, <1>6, <2>1 DEF Armed, Stops, MainWindow
  <2>3. u.iptt \/ u.ptt0Timer > 0 => ui'.iptt \/ ui'.ptt0Timer > 0
    <3>1. CASE Stops(shown)
      BY <1>6, <3>1 DEF Started
    <3>2. CASE ~Stops(shown)
      BY <1>4, <1>5, <1>6, <2>1, <3>2
    <3> QED BY <3>1, <3>2
  <2>4. rig' = rig
    BY <1>1, <1>10
  <2> QED BY <2>2, <2>3, <2>4 DEF PttFollows
<1> QED BY <1>9, <1>10

\* A due watchdog leaves nothing on that could start or go on.
LEMMA DueTick ==
  ASSUME NEW u \in MainWindow, Armed(u), WatchdogDue(u),
         NEW phase \in Phases, NEW forbidden \in BOOLEAN, NEW opens \in BOOLEAN,
         GuiUpdate(u, phase, forbidden, opens)
  PROVE  ~ui'.iptt /\ ~ui'.auto /\ ~ui'.tune
<1> DEFINE begun == InSequence(u, phase)
           guarded == Guarded(begun, forbidden)
           ready == Ready(u, phase, forbidden)
           going == IF Busy(begun) THEN TimeToStop(Start(ready, phase)) ELSE begun
           shown == Display(Sent(Generate(going), going.ntx))
<1>1. ui' = Latch(IF Stops(shown) THEN StopTx(shown) ELSE shown)
  BY DEF GuiUpdate, Ready
<1>2. Keeps(u, begun) /\ Keeps(u, ready)
  BY BeforeStart, ReadyKeeps
<1>3. begun \in MainWindow /\ Armed(begun) /\ ready \in MainWindow /\ Armed(ready)
  BY <1>2 DEF Keeps, Armed, MainWindow
<1>4. ~ready.auto /\ ~ready.tune /\ ~ready.txTime
  <2>1. Keeps(begun, guarded)
    BY <1>3, BeforeStart
  <2>2. guarded \in MainWindow /\ WatchdogDue(guarded)
    <3>1. WatchdogDue(begun)
      BY DEF WatchdogDue, InSequence, MainWindow
    <3>2. WatchdogDue(guarded)
      BY <3>1, <1>3 DEF WatchdogDue, Guarded, MainWindow
    <3> QED BY <2>1, <3>2 DEF Keeps
  <2> DEFINE w == TxWatchdog(guarded)
  <2>3. w \in MainWindow /\ ~w.tune /\ ~w.auto /\ ~w.txTime
    BY <2>2, WatchdogKeeps DEF Keeps
  <2>4. ready = NothingToSend(w)
    BY <2>2 DEF Ready, Watched
  <2> HIDE DEF w, ready
  <2>5. CASE w.ntx = ""
    <3>1. ready = [w EXCEPT !.auto = FALSE, !.btxok = FALSE, !.tuneATU_Timer = FALSE]
      BY <2>3, <2>4, <2>5 DEF NothingToSend, OnStopTxButton, StopTuning
    <3> QED BY <2>3, <3>1 DEF MainWindow
  <2>6. CASE w.ntx # ""
    BY <2>3, <2>4, <2>6 DEF NothingToSend
  <2> QED BY <2>5, <2>6
<1> HIDE DEF ready
<1>5. /\ going \in MainWindow
      /\ going.iptt => going.iptt0 /\ going.btxok0 /\ ~going.btxok
      /\ ~going.auto /\ ~going.tune
  <2>1. CASE Busy(begun)
    <3>1. Start(ready, phase) = ready
      BY <1>4 DEF Start, Starts
    <3>2. going = [ready EXCEPT !.btxok = FALSE]
      BY <1>4, <2>1, <3>1 DEF TimeToStop
    <3>3. [ready EXCEPT !.btxok = FALSE] \in MainWindow
      BY <1>3, Fields
    <3>4. /\ going.iptt = ready.iptt /\ going.iptt0 = ready.iptt0
          /\ going.btxok0 = ready.btxok0 /\ ~going.btxok
          /\ going.auto = ready.auto /\ going.tune = ready.tune
      BY <1>3, <3>2 DEF MainWindow
    <3> QED BY <1>3, <1>4, <3>2, <3>3, <3>4 DEF Armed
  <2>2. CASE ~Busy(begun)
    BY <1>3, <2>2 DEF Busy, Armed
  <2> QED BY <2>1, <2>2
<1> HIDE DEF going
<1>6. shown = going
  BY <1>5 DEF Generate, Sent, Display, Rising
<1>7. Stops(shown) \/ ~shown.iptt
  BY <1>5, <1>6 DEF Stops
<1> HIDE DEF shown
<1> QED BY <1>1, <1>5, <1>6, <1>7, Latched

-----------------------------------------------------------------------------
(* The other steps.                                                        *)

\* The invariant holds initially: nothing is transmitted.
LEMMA InitInv == Init => IInv
<1> SUFFICES ASSUME Init PROVE IInv
  OBVIOUS
<1>1. ui \in MainWindow
  <2>1. 0 \in 0..Watchdog /\ 0 \in Timer
    BY WatchdogAssumption DEF Timer
  <2>2. "CQ" \in Messages /\ "" \in Messages
    BY MessagesAssumption
  <2>3. ui = [auto |-> FALSE, tune |-> FALSE, tuneButton |-> FALSE,
              lastChecked |-> FALSE, txTime |-> FALSE, iptt |-> FALSE,
              iptt0 |-> FALSE, btxok |-> FALSE, btxok0 |-> FALSE,
              transmitting |-> FALSE, txWhenReady |-> FALSE, blocked |-> 0,
              idleMinutes |-> 0, ntx |-> "CQ", msgSent0 |-> "", ptt0Timer |-> 0,
              ptt1Timer |-> 0, tuneButtonTimer |-> 0, tuneATU_Timer |-> FALSE,
              swallowed |-> FALSE]
    BY DEF Init
  <2> QED BY <2>1, <2>2, <2>3 DEF MainWindow
<1>2. toMod \in Seq(ModulatorSignals)
  <2>1. toMod = <<>>
    BY DEF Init
  <2> QED BY <2>1, EndSignal
<1>3. mod \in Modulator /\ rig \in Rig
  BY DEF Init, Modulator, Rig
<1>4. clock \in Phases /\ env \in [acts : Nat, incidents : Nat]
  BY DEF Init, Phases
<1>5. Armed(ui) /\ PttFollows(ui, rig)
  BY DEF Init, Armed, PttFollows
<1> QED BY <1>1, <1>2, <1>3, <1>4, <1>5 DEF IInv, TypeOK

\* What the bounds count stays a number.
LEMMA CountTypes ==
  ASSUME NEW e \in [acts : Nat, incidents : Nat]
  PROVE  /\ [e EXCEPT !.acts = @ + 1] \in [acts : Nat, incidents : Nat]
         /\ [e EXCEPT !.incidents = @ + 1] \in [acts : Nat, incidents : Nat]
OBVIOUS

\* An act whose handler keeps a transmission keeps the invariant.
LEMMA ActInv ==
  ASSUME IInv, NEW u, Keeps(ui, u), NEW signals \in Seq(ModulatorSignals),
         Act(u, signals)
  PROVE  IInv'
<1>1. ui' = u /\ rig' = rig /\ mod' = mod /\ clock' = clock
      /\ toMod' = toMod \o signals /\ env' = [env EXCEPT !.acts = @ + 1]
  BY DEF Act
<1>2. u \in MainWindow /\ Armed(u) /\ PttFollows(u, rig)
  <2>1. ui \in MainWindow /\ Armed(ui) /\ PttFollows(ui, rig)
    BY DEF IInv, TypeOK
  <2> QED BY <2>1, KeepsArmed
<1>3. toMod' \in Seq(ModulatorSignals)
  <2>1. toMod \in Seq(ModulatorSignals)
    BY DEF IInv, TypeOK
  <2> QED BY <1>1, <2>1
<1>4. env' \in [acts : Nat, incidents : Nat]
  BY <1>1, CountTypes DEF IInv, TypeOK
<1> QED BY <1>1, <1>2, <1>3, <1>4 DEF IInv, TypeOK

\* Clicks, requests and decodes keep the invariant.
LEMMA ActsInv == IInv /\ Acts => IInv'
<1> SUFFICES ASSUME IInv, Acts PROVE IInv'
  OBVIOUS
<1>1. ui \in MainWindow /\ Intervention(ui) \in MainWindow
      /\ Keeps(ui, ui) /\ Keeps(ui, Intervention(ui))
  BY CountKeeps DEF IInv, TypeOK, Keeps
<1>2. \A u \in MainWindow : \A msg \in Messages : Keeps(u, [u EXCEPT !.ntx = msg])
  BY DEF Keeps, MainWindow
<1>3. <<>> \in Seq(ModulatorSignals)
  OBVIOUS
<1>4. CASE ClickAuto
  <2> DEFINE u == Intervention(ui)
             v == OnAutoButton(u, ~ui.auto)
  <2>1. (~ui.auto) \in BOOLEAN
    OBVIOUS
  <2>2. Keeps(ui, v)
    BY <1>1, <2>1, AutoKeeps, KeepsTrans
  <2>3. Act(v, <<>>)
    BY <1>4 DEF ClickAuto
  <2> HIDE DEF v
  <2> QED BY <1>3, <2>2, <2>3, ActInv
<1>5. CASE ClickTune
  <2> DEFINE b == ~Intervention(ui).tuneButton
             u == [Intervention(ui) EXCEPT !.tuneButton = b]
             v == OnTuneButton(u, u.tuneButton)
             signals == TuneSignal(u, u.tuneButton)
  <2>1. Keeps(Intervention(ui), u)
    BY <1>1 DEF Keeps, MainWindow
  <2>2. Act(v, signals)
    BY <1>5 DEF ClickTune
  <2> HIDE DEF u
  <2>3. u \in MainWindow /\ u.tuneButton \in BOOLEAN
    BY <2>1 DEF Keeps, MainWindow
  <2>4. Keeps(u, v)
    BY <2>3, TuneKeeps
  <2>5. Keeps(ui, v)
    BY <1>1, <2>1, <2>4, KeepsTrans
  <2>6. signals \in Seq(ModulatorSignals)
    BY <2>3, SignalTypes
  <2> HIDE DEF v, signals
  <2> QED BY <2>2, <2>5, <2>6, ActInv
<1>6. CASE ClickStopTx
  <2>1. PICK u \in {ui, Intervention(ui)} : Act(OnStopTxButton(u), StopTuningSignal(u))
    BY <1>6 DEF ClickStopTx
  <2>2. u \in MainWindow /\ Keeps(ui, u)
    BY <1>1
  <2>3. Keeps(ui, OnStopTxButton(u))
    BY <2>2, StopButtonKeeps, KeepsTrans
  <2>4. StopTuningSignal(u) \in Seq(ModulatorSignals)
    BY <2>2, SignalTypes
  <2> QED BY <2>1, <2>3, <2>4, ActInv
<1>7. CASE HaltAutoTx
  <2>1. Keeps(ui, OnAutoButton(ui, FALSE))
    BY <1>1, AutoKeeps
  <2> QED BY <1>3, <1>7, <2>1, ActInv DEF HaltAutoTx
<1>8. CASE AcceptQSO
  <2> DEFINE off == OnAutoButton(ui, FALSE)
  <2>1. Keeps(ui, off)
    BY <1>1, AutoKeeps
  <2>2. PICK u \in {ui, off}, msg \in {ui.ntx, "CQ"} :
           ui' = [[u EXCEPT !.blocked = Started] EXCEPT !.ntx = msg]
    <3>1. ASSUME NEW u \in MainWindow
          PROVE  /\ [u EXCEPT !.blocked = Started]
                       = [[u EXCEPT !.blocked = Started] EXCEPT !.ntx = u.ntx]
                 /\ [u EXCEPT !.blocked = Started, !.ntx = "CQ"]
                       = [[u EXCEPT !.blocked = Started] EXCEPT !.ntx = "CQ"]
      BY DEF MainWindow
    <3>2. off \in MainWindow
      BY <1>1, <2>1 DEF Keeps
    <3>3. \/ ui' = [ui EXCEPT !.blocked = Started]
          \/ \E u \in {ui, off} : ui' = [u EXCEPT !.blocked = Started, !.ntx = "CQ"]
      BY <1>8 DEF AcceptQSO
    <3> HIDE DEF off
    <3> QED BY <1>1, <3>1, <3>2, <3>3
  <2> DEFINE v == [u EXCEPT !.blocked = Started]
  <2>3. Keeps(ui, u) /\ u \in MainWindow
    <3> HIDE DEF off
    <3> QED BY <1>1, <2>1, <2>2 DEF Keeps
  <2>4. Keeps(u, v) /\ v \in MainWindow /\ msg \in Messages
    BY <1>1, <2>3, StartedIsTimer, MessagesAssumption DEF Keeps, MainWindow
  <2>5. Keeps(ui, ui')
    <3> HIDE DEF v
    <3> QED BY <1>2, <2>2, <2>3, <2>4, KeepsTrans DEF v
  <2>6. ui' \in MainWindow /\ Armed(ui') /\ PttFollows(ui', rig)
    <3>1. Armed(ui) /\ PttFollows(ui, rig)
      BY DEF IInv
    <3> QED BY <1>1, <2>5, <3>1, KeepsArmed
  <2>7. env' \in [acts : Nat, incidents : Nat]
    <3>1. env' = [env EXCEPT !.incidents = @ + 1]
      BY <1>8 DEF AcceptQSO
    <3> QED BY <3>1, CountTypes DEF IInv, TypeOK
  <2> QED BY <1>8, <2>6, <2>7 DEF AcceptQSO, IInv, TypeOK
<1>9. CASE \E msg \in Messages : Select(msg)
  <2>1. PICK msg \in Messages : Select(msg)
    BY <1>9
  <2>2. PICK u \in {ui, Intervention(ui)} :
          \/ Act([u EXCEPT !.ntx = msg], <<>>)
          \/ Act(OnAutoButton([u EXCEPT !.ntx = msg], TRUE), <<>>)
    BY <2>1 DEF Select
  <2> DEFINE v == [u EXCEPT !.ntx = msg]
  <2>3. u \in MainWindow /\ Keeps(ui, u)
    BY <1>1
  <2>4. Keeps(ui, v)
    BY <1>2, <2>3, KeepsTrans
  <2> HIDE DEF v
  <2>5. Keeps(ui, OnAutoButton(v, TRUE))
    <3>1. v \in MainWindow
      BY <2>4 DEF Keeps
    <3>2. Keeps(v, OnAutoButton(v, TRUE))
      BY <3>1, AutoKeeps
    <3> QED BY <2>4, <3>2, KeepsTrans
  <2>6. Act(v, <<>>) \/ Act(OnAutoButton(v, TRUE), <<>>)
    BY <2>2 DEF v
  <2> QED BY <1>3, <2>4, <2>5, <2>6, ActInv
<1> QED BY <1>4, <1>5, <1>6, <1>7, <1>8, <1>9 DEF Acts

\* ptt0Timer unkeys: nothing is asked for any more.  The other timers at most
\* clear m_btxok.
LEMMA TimersInv == IInv /\ Timers => IInv'
<1> SUFFICES ASSUME IInv, Timers PROVE IInv'
  OBVIOUS
<1>1. /\ ui \in MainWindow /\ Armed(ui) /\ PttFollows(ui, rig)
      /\ rig \in Rig /\ toMod \in Seq(ModulatorSignals) /\ 0 \in Timer
  BY DEF IInv, TypeOK, Timer
<1>2. ASSUME Keeps(ui, ui'), rig' = rig, toMod' \in Seq(ModulatorSignals),
             mod' = mod, clock' = clock, env' = env
      PROVE  IInv'
  <2>1. ui' \in MainWindow /\ Armed(ui') /\ PttFollows(ui', rig)
    BY <1>1, <1>2, KeepsArmed
  <2> QED BY <1>2, <2>1 DEF IInv, TypeOK
<1>3. CASE OnTheMinute
  <2>1. Keeps(ui, ui')
    BY <1>1, <1>3, CountKeeps DEF OnTheMinute
  <2> QED BY <1>1, <1>2, <1>3, <2>1 DEF OnTheMinute
<1>4. CASE StopTx2
  <2>1. ui' = [ui EXCEPT !.ptt0Timer = 0] /\ rig' = TransceiverPtt(rig, FALSE)
    BY <1>4 DEF StopTx2
  <2>2. ui' \in MainWindow
    BY <1>1, <2>1, TimerFields
  <2>3. Armed(ui')
    BY <1>1, <2>1 DEF Armed, MainWindow
  <2>4. /\ rig' \in Rig /\ ~rig'.asked /\ rig'.ptt = rig.ptt
        /\ rig'.online = rig.online
        /\ rig'.request = IF rig.online THEN "posted" ELSE "none"
    BY <1>1, <2>1, PttAsked
  <2>5. PttFollows(ui', rig')
    BY <1>1, <2>4 DEF PttFollows
  <2> QED BY <1>1, <1>4, <2>2, <2>3, <2>4, <2>5 DEF StopTx2, IInv, TypeOK
<1>5. CASE StartTx2
  <2>1. ui' = [ui EXCEPT !.ptt1Timer = 0]
    BY <1>5 DEF StartTx2
  <2>2. Keeps(ui, ui')
    BY <1>1, <2>1 DEF Keeps, MainWindow
  <2>3. toMod' \in Seq(ModulatorSignals)
    <3>1. "sendMessage" \in ModulatorSignals
      BY DEF ModulatorSignals
    <3>2. Append(toMod, "sendMessage") \in Seq(ModulatorSignals)
      BY <1>1, <3>1
    <3> QED BY <1>1, <1>5, <3>2 DEF StartTx2
  <2> QED BY <1>2, <1>5, <2>2, <2>3 DEF StartTx2
<1>6. CASE EndTuning
  <2> DEFINE u == [ui EXCEPT !.tuneButtonTimer = 0]
  <2>1. ui' = OnStopTxButton(u) /\ toMod' = toMod \o StopTuningSignal(u)
    BY <1>6 DEF EndTuning
  <2>2. Keeps(ui, u)
    BY <1>1 DEF Keeps, MainWindow
  <2> HIDE DEF u
  <2>3. u \in MainWindow
    BY <2>2 DEF Keeps
  <2>4. Keeps(ui, ui')
    BY <2>1, <2>2, <2>3, StopButtonKeeps, KeepsTrans
  <2>5. StopTuningSignal(u) \in Seq(ModulatorSignals)
    BY <2>3, SignalTypes
  <2>6. toMod' \in Seq(ModulatorSignals)
    BY <1>1, <2>1, <2>5
  <2> QED BY <1>2, <1>6, <2>4, <2>6 DEF EndTuning
<1>7. CASE StopTuneATU
  <2> DEFINE u == [ui EXCEPT !.tuneATU_Timer = FALSE]
             v == OnTuneButton(u, FALSE)
  <2>1. ui' = [v EXCEPT !.txTime = FALSE] /\ toMod' = toMod \o TuneSignal(u, FALSE)
    BY <1>7 DEF StopTuneATU
  <2>2. Keeps(ui, u)
    BY <1>1 DEF Keeps, MainWindow
  <2> HIDE DEF u
  <2>3. u \in MainWindow
    BY <2>2 DEF Keeps
  <2>4. Keeps(u, v)
    BY <2>3, TuneKeeps
  <2> HIDE DEF v
  <2>5. v \in MainWindow
    BY <2>4 DEF Keeps
  <2>6. Keeps(v, ui')
    BY <2>1, <2>5 DEF Keeps, MainWindow
  <2>7. Keeps(ui, ui')
    BY <2>2, <2>4, <2>6, KeepsTrans
  <2>8. TuneSignal(u, FALSE) \in Seq(ModulatorSignals)
    BY <2>3, SignalTypes
  <2>9. toMod' \in Seq(ModulatorSignals)
    <3> DEFINE signals == TuneSignal(u, FALSE)
    <3>1. toMod' = toMod \o signals
      BY <2>1
    <3>2. signals \in Seq(ModulatorSignals)
      BY <2>8
    <3> HIDE DEF signals
    <3> QED BY <1>1, <3>1, <3>2
  <2> QED BY <1>2, <1>7, <2>7, <2>9 DEF StopTuneATU
<1>8. CASE Unblock
  <2>1. ui' = [ui EXCEPT !.blocked = 0]
    BY <1>8 DEF Unblock
  <2>2. Keeps(ui, ui')
    BY <1>1, <2>1 DEF Keeps, MainWindow
  <2> QED BY <1>1, <1>2, <1>8, <2>2 DEF Unblock
<1> QED BY <1>3, <1>4, <1>5, <1>6, <1>7, <1>8 DEF Timers

\* The rig does what was asked for last, and is unkeyed when it fails.
LEMMA RigInv ==
  IInv /\ (Transceiver \/ HandleTransceiverFailure \/ RigOpen) => IInv'
<1> SUFFICES ASSUME IInv, Transceiver \/ HandleTransceiverFailure \/ RigOpen
             PROVE  IInv'
  OBVIOUS
<1>1. /\ ui \in MainWindow /\ Armed(ui) /\ PttFollows(ui, rig)
      /\ rig \in Rig /\ toMod \in Seq(ModulatorSignals)
  BY DEF IInv, TypeOK
<1>2. CASE RigObeys
  <2>1. rig' = [rig EXCEPT !.ptt = rig.asked, !.request = "done"]
    BY <1>2 DEF RigObeys
  <2>2. rig' \in Rig
    BY <1>1, <2>1 DEF Rig
  <2>3. PttFollows(ui, rig')
    BY <1>1, <1>2, <2>1 DEF PttFollows, RigObeys, Rig
  <2> QED BY <1>1, <1>2, <2>2, <2>3 DEF RigObeys, IInv, TypeOK
<1>3. CASE HandleTransceiverUpdate
  <2>1. rig' = [rig EXCEPT !.request = "none"]
    BY <1>3 DEF HandleTransceiverUpdate
  <2>2. rig' \in Rig /\ PttFollows(ui, rig')
    <3>1. rig' \in Rig /\ rig'.asked = rig.asked /\ rig'.ptt = rig.ptt
          /\ rig'.online = rig.online /\ rig'.request = "none"
      BY <1>1, <2>1 DEF Rig
    <3>2. rig.request = "done"
      BY <1>3 DEF HandleTransceiverUpdate
    <3> QED BY <1>1, <3>1, <3>2 DEF PttFollows
  <2>3. Keeps(ui, ui')
    <3>1. ui' = [ui EXCEPT !.ptt1Timer = Started, !.txWhenReady = FALSE] \/ ui' = ui
      BY <1>3 DEF HandleTransceiverUpdate
    <3> DEFINE v == [ui EXCEPT !.ptt1Timer = Started, !.txWhenReady = FALSE]
    <3>2. v \in MainWindow
      BY <1>1, Fields, TimerFields, StartedIsTimer
    <3>3. /\ v.iptt = ui.iptt /\ v.iptt0 = ui.iptt0 /\ v.btxok0 = ui.btxok0
          /\ v.transmitting = ui.transmitting /\ v.ptt0Timer = ui.ptt0Timer
          /\ v.btxok = ui.btxok
      BY <1>1 DEF MainWindow
    <3> HIDE DEF v
    <3>4. Keeps(ui, v) /\ Keeps(ui, ui)
      BY <1>1, <3>2, <3>3 DEF Keeps
    <3> QED BY <3>1, <3>4 DEF v
  <2>4. ui' \in MainWindow /\ Armed(ui') /\ PttFollows(ui', rig')
    BY <1>1, <2>2, <2>3, KeepsArmed
  <2> QED BY <1>1, <1>3, <2>2, <2>4 DEF HandleTransceiverUpdate, IInv, TypeOK
<1>4. CASE HandleTransceiverFailure
  <2>1. /\ rig' = [rig EXCEPT !.online = FALSE, !.ptt = FALSE, !.request = "none"]
        /\ ui' = OnStopTxButton(ui) /\ toMod' = toMod \o StopTuningSignal(ui)
        /\ env' = [env EXCEPT !.incidents = @ + 1]
        /\ mod' = mod /\ clock' = clock
    BY <1>4 DEF HandleTransceiverFailure
  <2>2. rig' \in Rig /\ PttFollows(ui, rig')
    BY <1>1, <2>1 DEF Rig, PttFollows
  <2>3. Keeps(ui, ui')
    BY <1>1, <2>1, StopButtonKeeps
  <2>4. ui' \in MainWindow /\ Armed(ui') /\ PttFollows(ui', rig')
    BY <1>1, <2>2, <2>3, KeepsArmed
  <2>5. toMod' \in Seq(ModulatorSignals)
    <3>1. StopTuningSignal(ui) \in Seq(ModulatorSignals)
      BY <1>1, SignalTypes
    <3> QED BY <1>1, <2>1, <3>1
  <2>6. env' \in [acts : Nat, incidents : Nat]
    BY <2>1, CountTypes DEF IInv, TypeOK
  <2> QED BY <2>1, <2>2, <2>4, <2>5, <2>6 DEF IInv, TypeOK
<1>5. CASE RigOpen
  <2>1. rig' = [online |-> TRUE, asked |-> FALSE, ptt |-> FALSE, request |-> "none"]
    BY <1>5 DEF RigOpen, Opened
  <2>2. rig' \in Rig /\ PttFollows(ui, rig')
    BY <2>1 DEF Rig, PttFollows
  <2> QED BY <1>1, <1>5, <2>2 DEF RigOpen, IInv, TypeOK
<1> QED BY <1>2, <1>3, <1>4, <1>5 DEF Transceiver

\* The Modulator keys nothing.
LEMMA AudioInv == IInv /\ AudioThread => IInv'
<1> SUFFICES ASSUME IInv, AudioThread PROVE IInv'
  OBVIOUS
<1>1. mod \in Modulator /\ toMod \in Seq(ModulatorSignals)
  BY DEF IInv, TypeOK
<1>2. /\ ui' = ui /\ rig' = rig /\ clock' = clock /\ env' = env
      /\ toMod' \in Seq(ModulatorSignals) /\ mod' \in Modulator
  <2>1. CASE ModulatorSlot
    <3>1. toMod' \in Seq(ModulatorSignals)
      BY <1>1, <2>1 DEF ModulatorSlot
    <3>2. Head(toMod) \in ModulatorSignals
      BY <1>1, <2>1 DEF ModulatorSlot
    <3>3. Handled(mod, Head(toMod)) \in Modulator
      BY <1>1, <3>2 DEF Handled, Modulator, ModulatorSignals
    <3> QED BY <2>1, <3>1, <3>3 DEF ModulatorSlot
  <2>2. CASE EndOfMessage
    BY <1>1, <2>2 DEF EndOfMessage, Modulator
  <2> QED BY <2>1, <2>2 DEF AudioThread
<1> QED BY <1>2 DEF IInv, TypeOK

\* The invariant is inductive.
LEMMA StepInv == IInv /\ [Next]_vars => IInv'
<1> SUFFICES ASSUME IInv, [Next]_vars PROVE IInv'
  OBVIOUS
<1>1. /\ ui \in MainWindow /\ Armed(ui) /\ PttFollows(ui, rig)
      /\ rig \in Rig /\ toMod \in Seq(ModulatorSignals) /\ mod \in Modulator
      /\ clock \in Phases /\ env \in [acts : Nat, incidents : Nat]
  BY DEF IInv, TypeOK
<1>2. CASE Tick
  <2>1. PICK forbidden, opens \in BOOLEAN : GuiUpdate(ui, clock, forbidden, opens)
    BY <1>2 DEF Tick
  <2> QED BY <1>1, <2>1, TickKeeps
<1>3. CASE NextPhase
  <2>1. PICK forbidden, opens \in BOOLEAN :
          GuiUpdate(Aged(ui), After(clock), forbidden, opens)
    BY <1>3 DEF NextPhase
  <2>2. ui.ptt0Timer # 1
    BY <1>3 DEF NextPhase
  <2>3. Aged(ui) \in MainWindow /\ Armed(Aged(ui)) /\ PttFollows(Aged(ui), rig)
    BY <1>1, <2>2, AgedKeeps
  <2>4. After(clock) \in Phases
    BY <1>1 DEF After, Phases
  <2> QED BY <1>1, <2>1, <2>3, <2>4, TickKeeps
<1>4. CASE Timers \/ Acts \/ AudioThread
  BY <1>4, TimersInv, ActsInv, AudioInv
<1>5. CASE Transceiver \/ HandleTransceiverFailure \/ RigOpen
  BY <1>5, RigInv
<1>6. CASE UNCHANGED vars
  BY <1>1, <1>6 DEF vars, IInv, TypeOK
<1> QED BY <1>2, <1>3, <1>4, <1>5, <1>6 DEF Next

-----------------------------------------------------------------------------
(* The theorems.                                                           *)

\* The inductive invariant holds throughout.
THEOREM Inductive == Spec => []IInv
BY InitInv, StepInv, PTL DEF Spec

\* Every variable stays within its type: the minutes without intervention stop
\* at Watchdog, and the timers, the rig and the Modulator keep to their states.
THEOREM TypeCorrect == Spec => []TypeOK
<1>1. IInv => TypeOK
  BY DEF IInv
<1> QED BY <1>1, Inductive, PTL

\* guiUpdate can always see the falling edge that stops a transmission.
THEOREM StopArmed == Spec => []StopIsArmed
<1>1. IInv => StopIsArmed
  BY DEF IInv, Armed, StopIsArmed
<1> QED BY <1>1, Inductive, PTL

\* A keyed rig transmits for us or is about to be unkeyed, however the timers,
\* the rig's answers, its failures and the operator interleave.
THEOREM PttIsNotStuck == Spec => []NoStuckPtt
<1>1. IInv => NoStuckPtt
  BY DEF IInv, TypeOK, PttFollows, NoStuckPtt, Rig
<1> QED BY <1>1, Inductive, PTL

\* The Tx watchdog ends the transmission, Tune and Enable Tx at the tick after
\* it is due.
THEOREM WatchdogWorks == Spec => WatchdogStops
<1> DEFINE A == WatchdogDue(ui) /\ (Tick \/ NextPhase)
                => ~ui'.iptt /\ ~ui'.auto /\ ~ui'.tune
<1>1. IInv /\ [Next]_vars => [A]_vars
  <2> SUFFICES ASSUME IInv, WatchdogDue(ui), Tick \/ NextPhase
               PROVE  ~ui'.iptt /\ ~ui'.auto /\ ~ui'.tune
    OBVIOUS
  <2>1. /\ ui \in MainWindow /\ Armed(ui) /\ PttFollows(ui, rig) /\ clock \in Phases
    BY DEF IInv, TypeOK
  <2>2. CASE Tick
    <3>1. PICK forbidden, opens \in BOOLEAN : GuiUpdate(ui, clock, forbidden, opens)
      BY <2>2 DEF Tick
    <3> QED BY <2>1, <3>1, DueTick
  <2>3. CASE NextPhase
    <3>1. PICK forbidden, opens \in BOOLEAN :
            GuiUpdate(Aged(ui), After(clock), forbidden, opens)
      BY <2>3 DEF NextPhase
    <3>2. ui.ptt0Timer # 1
      BY <2>3 DEF NextPhase
    <3>3. Aged(ui) \in MainWindow /\ Armed(Aged(ui))
      BY <2>1, <3>2, AgedKeeps
    <3>4. WatchdogDue(Aged(ui))
      BY <2>1 DEF Aged, WatchdogDue, MainWindow
    <3>5. After(clock) \in Phases
      BY <2>1 DEF After, Phases
    <3> QED BY <3>1, <3>3, <3>4, <3>5, DueTick
  <2> QED BY <2>2, <2>3
<1> QED BY <1>1, Inductive, PTL DEF Spec, WatchdogStops
=============================================================================
