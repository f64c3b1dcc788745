---------------------------- MODULE TxTune_proofs ----------------------------
(***************************************************************************)
(* What holds of Tune in TxSequencer, for every set of messages, watchdog  *)
(* time and bound: unless a call of on_tuneButton_clicked was swallowed,   *)
(* Tune excludes Enable Tx, and the Modulator makes the tuning carrier     *)
(* only in Tune.  The static lastChecked of that handler is the link: it   *)
(* is what the Modulator has been told, or will be by the signals posted.  *)
(***************************************************************************)
EXTENDS TxSequencer_proofs

\* lastChecked of a running Tune or of a call that was swallowed; and Tune
\* excludes Enable Tx.
Linked(u) ==
  /\ u.lastChecked => u.tune \/ u.swallowed
  /\ u.tune /\ u.tuneButton /\ u.auto => u.swallowed

TuneSignals == {"tune on", "tune off"}

\* After the signals q the Modulator m will be tuning if checked.
Tells(m, q, checked) ==
  /\ (\A i \in DOMAIN q : q[i] \notin TuneSignals) => m.tuning = checked
  /\ \A i \in DOMAIN q :
       (\A j \in DOMAIN q : i < j => q[j] \notin TuneSignals) =>
         /\ q[i] = "tune on" => checked = TRUE
         /\ q[i] = "tune off" => checked = FALSE

TInv == Linked(ui) /\ Tells(mod, toMod, ui.lastChecked)

\* A handler that takes u to v and posts s for the Modulator.
Tunes(u, v, s) ==
  /\ Linked(u) => Linked(v)
  /\ v.lastChecked = u.lastChecked => s = <<>>
  /\ v.lastChecked # u.lastChecked =>
       s = <<IF v.lastChecked THEN "tune on" ELSE "tune off">>

\* One that has nothing to do with Tune; it may turn Enable Tx off.
Quiet(u, v) ==
  /\ v.lastChecked = u.lastChecked /\ v.tune = u.tune
  /\ v.tuneButton = u.tuneButton /\ v.swallowed = u.swallowed
  /\ v.auto => u.auto

-----------------------------------------------------------------------------
(* The signals.                                                            *)

\* A handler's signal tells the Modulator what the handler remembers.
LEMMA TellsTuned ==
  ASSUME NEW u \in MainWindow, NEW v \in MainWindow, NEW m,
         NEW q \in Seq(ModulatorSignals), NEW s,
         Tells(m, q, u.lastChecked), Tunes(u, v, s)
  PROVE  Tells(m, q \o s, v.lastChecked)
<1>1. CASE v.lastChecked = u.lastChecked
  <2>1. q \o s = q
    BY <1>1 DEF Tunes
  <2> QED BY <1>1, <2>1
<1>2. CASE v.lastChecked # u.lastChecked
  <2> DEFINE x == IF v.lastChecked THEN "tune on" ELSE "tune off"
  <2>1. s = <<x>>
    BY <1>2 DEF Tunes
  <2>2. x \in TuneSignals /\ v.lastChecked \in BOOLEAN
    BY DEF TuneSignals, MainWindow
  <2>3. /\ x = "tune on" => v.lastChecked = TRUE
        /\ x = "tune off" => v.lastChecked = FALSE
    BY <2>2
  <2> HIDE DEF x
  <2> DEFINE n == Len(q) + 1
  <2>4. /\ n \in Nat /\ DOMAIN (q \o s) = 1..n /\ (q \o s)[n] = x
    BY <2>1
  <2>5. \A i \in 1..n : i # n => i < n
    BY <2>4
  <2> HIDE DEF n
  <2>6. n \in 1..n
    BY <2>4, <2>1
  <2> QED BY <2>2, <2>3, <2>4, <2>5, <2>6 DEF Tells
<1> QED BY <1>1, <1>2

\* Other signals say nothing of Tune.
LEMMA TellsOther ==
  ASSUME NEW m, NEW q \in Seq(ModulatorSignals), NEW checked,
         Tells(m, q, checked), NEW x \in ModulatorSignals \ TuneSignals
  PROVE  Tells(m, q \o <<x>>, checked)
<1> DEFINE p == q \o <<x>>
           n == Len(q) + 1
<1>1. /\ n \in Nat /\ DOMAIN q = 1..Len(q) /\ Len(q) \in Nat /\ DOMAIN p = 1..n
      /\ p[n] = x /\ \A i \in 1..Len(q) : p[i] = q[i]
  OBVIOUS
<1>2. DOMAIN q \subseteq DOMAIN p /\ \A i \in DOMAIN p : i \in DOMAIN q \/ i = n
  BY <1>1
<1>3. x \notin TuneSignals /\ x # "tune on" /\ x # "tune off"
  BY DEF TuneSignals
<1> HIDE DEF p, n
<1>4. (\A i \in DOMAIN p : p[i] \notin TuneSignals) => m.tuning = checked
  BY <1>1, <1>2 DEF Tells
<1>5. ASSUME NEW i \in DOMAIN p,
             \A j \in DOMAIN p : i < j => p[j] \notin TuneSignals
      PROVE  /\ p[i] = "tune on" => checked = TRUE
             /\ p[i] = "tune off" => checked = FALSE
  <2>1. CASE i = n
    BY <1>1, <1>3, <2>1
  <2>2. CASE i \in DOMAIN q
    <3>1. \A j \in DOMAIN q : i < j => q[j] \notin TuneSignals
      BY <1>1, <1>2, <1>5
    <3>2. p[i] = q[i]
      BY <1>1, <2>2
    <3> QED BY <2>2, <3>1, <3>2 DEF Tells
  <2> QED BY <1>2, <2>1, <2>2
<1>6. Tells(m, p, checked)
  BY <1>4, <1>5 DEF Tells
<1> QED BY <1>6 DEF p

\* The Modulator handles the first signal.
LEMMA TellsHead ==
  ASSUME NEW m \in Modulator, NEW q \in Seq(ModulatorSignals), q # <<>>,
         NEW checked, Tells(m, q, checked)
  PROVE  Tells(Handled(m, Head(q)), Tail(q), checked)
<1> DEFINE p == Tail(q)
           h == Handled(m, Head(q))
<1>1. /\ Len(q) \in Nat \ {0} /\ DOMAIN q = 1..Len(q) /\ Head(q) = q[1]
      /\ DOMAIN p = 1..(Len(q) - 1)
      /\ \A i \in 1..(Len(q) - 1) : p[i] = q[i + 1]
  OBVIOUS
<1>2. q[1] \in ModulatorSignals
  BY <1>1
<1>3. /\ q[1] = "tune on" => h.tuning = TRUE
      /\ q[1] = "tune off" => h.tuning = FALSE
      /\ q[1] \notin TuneSignals => h.tuning = m.tuning
  BY <1>1, <1>2 DEF Handled, Modulator, ModulatorSignals, TuneSignals
<1> HIDE DEF p, h
<1>4. ASSUME \A i \in DOMAIN p : p[i] \notin TuneSignals
      PROVE  h.tuning = checked
  <2>1. \A j \in DOMAIN q : 1 < j => q[j] \notin TuneSignals
    <3> SUFFICES ASSUME NEW j \in DOMAIN q, 1 < j PROVE q[j] \notin TuneSignals
      OBVIOUS
    <3>1. j - 1 \in 1..(Len(q) - 1) /\ (j - 1) + 1 = j
      BY <1>1
    <3> QED BY <1>1, <1>4, <3>1
  <2>2. 1 \in DOMAIN q
    BY <1>1
  <2>3. CASE q[1] \in TuneSignals
    BY <1>3, <2>1, <2>2, <2>3 DEF Tells, TuneSignals
  <2>4. CASE q[1] \notin TuneSignals
    <3>1. \A j \in DOMAIN q : j = 1 \/ 1 < j
      BY <1>1
    <3>2. \A j \in DOMAIN q : q[j] \notin TuneSignals
      BY <2>1, <2>4, <3>1
    <3> QED BY <1>3, <2>4, <3>2 DEF Tells
  <2> QED BY <2>3, <2>4
<1>5. ASSUME NEW i \in DOMAIN p,
             \A j \in DOMAIN p : i < j => p[j] \notin TuneSignals
      PROVE  /\ p[i] = "tune on" => checked = TRUE
             /\ p[i] = "tune off" => checked = FALSE
  <2>1. i + 1 \in DOMAIN q /\ p[i] = q[i + 1]
    BY <1>1
  <2>2. \A j \in DOMAIN q : i + 1 < j => q[j] \notin TuneSignals
    <3> SUFFICES ASSUME NEW j \in DOMAIN q, i + 1 < j PROVE q[j] \notin TuneSignals
      OBVIOUS
    <3>1. j - 1 \in DOMAIN p /\ i < j - 1 /\ (j - 1) + 1 = j
      BY <1>1
    <3> QED BY <1>1, <1>5, <3>1
  <2> QED BY <2>1, <2>2 DEF Tells
<1>6. Tells(h, p, checked)
  BY <1>4, <1>5 DEF Tells
<1> QED BY <1>6 DEF p, h

-----------------------------------------------------------------------------
(* The handlers.                                                           *)

\* What has nothing to do with Tune posts nothing.
LEMMA QuietTunes ==
  ASSUME NEW u \in MainWindow, NEW v \in MainWindow, Quiet(u, v)
  PROVE  Tunes(u, v, <<>>)
BY DEF Quiet, Tunes, Linked

\* One handler after the other, of which at most one posts something.
LEMMA TunesTrans ==
  ASSUME NEW u, NEW v, NEW w, NEW s
  PROVE  /\ Tunes(u, v, s) /\ Tunes(v, w, <<>>) => Tunes(u, w, s)
         /\ Tunes(u, v, <<>>) /\ Tunes(v, w, s) => Tunes(u, w, s)
<1>1. ASSUME NEW x, NEW y, Tunes(x, y, <<>>)
      PROVE  y.lastChecked = x.lastChecked
  <2>1. \A a : <<>> # <<a>>
    OBVIOUS
  <2> QED BY <1>1, <2>1 DEF Tunes
<1>2. ASSUME Tunes(u, v, s), Tunes(v, w, <<>>) PROVE Tunes(u, w, s)
  <2>1. w.lastChecked = v.lastChecked
    BY <1>1, <1>2
  <2> QED BY <1>2, <2>1 DEF Tunes
<1>3. ASSUME Tunes(u, v, <<>>), Tunes(v, w, s) PROVE Tunes(u, w, s)
  <2>1. v.lastChecked = u.lastChecked
    BY <1>1, <1>3
  <2> QED BY <1>3, <2>1 DEF Tunes
<1> QED BY <1>2, <1>3

\* Enable Tx is not turned on while the Tune button is down.
LEMMA AutoTunes ==
  ASSUME NEW u \in MainWindow, NEW checked \in BOOLEAN
  PROVE  Tunes(u, OnAutoButton(u, checked), <<>>)
<1> DEFINE v == [u EXCEPT !.auto = checked]
<1>1. CASE checked /\ u.tuneButton
  <2>1. OnAutoButton(u, checked) = u
    BY <1>1 DEF OnAutoButton
  <2> QED BY <2>1 DEF Tunes
<1>2. CASE ~(checked /\ u.tuneButton)
  <2>1. OnAutoButton(u, checked) = v
    BY <1>2 DEF OnAutoButton
  <2>2. /\ v.lastChecked = u.lastChecked /\ v.tune = u.tune
        /\ v.tuneButton = u.tuneButton /\ v.swallowed = u.swallowed /\ v.auto = checked
    BY DEF MainWindow
  <2> HIDE DEF v
  <2> QED BY <1>2, <2>1, <2>2 DEF Tunes, Linked
<1> QED BY <1>1, <1>2

\* on_tuneButton_clicked tells the Modulator what it remembers, and turns
\* Enable Tx off, unless it is swallowed.
LEMMA TuneTunes ==
  ASSUME NEW u \in MainWindow, NEW checked \in BOOLEAN
  PROVE  LET v == OnTuneButton(u, checked)
             s == TuneSignal(u, checked)
         IN  /\ (u.lastChecked => u.tune \/ u.swallowed) => Linked(v)
             /\ v.lastChecked = u.lastChecked => s = <<>>
             /\ v.lastChecked # u.lastChecked =>
                  s = <<IF v.lastChecked THEN "tune on" ELSE "tune off">>
             /\ v.lastChecked => checked \/ v.swallowed \/ u.blocked > 0
             /\ u.blocked > 0 => v.swallowed
<1> DEFINE v == OnTuneButton(u, checked)
           s == TuneSignal(u, checked)
           b == u.tune \/ TuneToggles(u, checked)
           t == IF TuneToggles(u, checked) /\ u.tune THEN Started
                ELSE u.tuneButtonTimer
           w == [u EXCEPT !.auto = FALSE, !.tuneATU_Timer = checked,
                          !.lastChecked = checked, !.tune = b,
                          !.tuneButtonTimer = t]
<1>1. CASE u.blocked > 0
  <2>1. v = [u EXCEPT !.swallowed = TRUE]
    BY <1>1 DEF OnTuneButton
  <2>2. v.swallowed /\ v.lastChecked = u.lastChecked
    BY <2>1 DEF MainWindow
  <2>3. s = <<>>
    BY <1>1 DEF TuneSignal, TuneToggles, MainWindow, Timer
  <2> HIDE DEF v, s
  <2> QED BY <1>1, <2>2, <2>3 DEF Linked, v, s
<1>2. CASE ~(u.blocked > 0)
  <2>1. v = w
    BY <1>2 DEF OnTuneButton, MainWindow
  <2>2. u.blocked = 0
    BY <1>2 DEF MainWindow, Timer
  <2>3. TuneToggles(u, checked) <=> u.lastChecked # checked
    BY <2>2 DEF TuneToggles
  <2>4. b <=> u.tune \/ u.lastChecked # checked
    BY <2>3
  <2>5. s = IF u.lastChecked # checked THEN <<IF checked THEN "tune on" ELSE "tune off">>
            ELSE <<>>
    BY <2>3 DEF TuneSignal
  <2> HIDE DEF b, t, s
  <2>6. /\ w.lastChecked = checked /\ w.tune = b /\ w.swallowed = u.swallowed
        /\ w.auto = FALSE
    BY DEF MainWindow
  <2> HIDE DEF v, w
  <2>7. Linked(v) <=> (checked => b \/ u.swallowed)
    BY <2>1, <2>6 DEF Linked
  <2>8. (u.lastChecked => u.tune \/ u.swallowed) => Linked(v)
    BY <2>4, <2>7
  <2> QED BY <1>2, <2>1, <2>5, <2>6, <2>8 DEF v, s
<1> QED BY <1>1, <1>2

\* stop_tuning.
LEMMA StopTuningTunes ==
  ASSUME NEW u \in MainWindow
  PROVE  Tunes(u, StopTuning(u), StopTuningSignal(u))
<1> DEFINE v == [u EXCEPT !.tuneATU_Timer = FALSE]
           w == OnTuneButton(v, FALSE)
           x == [w EXCEPT !.tuneButton = FALSE, !.txTime = FALSE, !.tune = FALSE]
<1>1. CASE ~u.tune
  BY <1>1 DEF StopTuning, StopTuningSignal, Tunes
<1>2. CASE u.tune
  <2>1. /\ v \in MainWindow /\ v.lastChecked = u.lastChecked /\ v.blocked = u.blocked
        /\ v.tune = u.tune /\ v.swallowed = u.swallowed
    BY DEF MainWindow
  <2>2. StopTuning(u) = x /\ StopTuningSignal(u) = TuneSignal(v, FALSE)
    BY <1>2, <2>1 DEF StopTuning, StopTuningSignal, TuneSignal, TuneToggles
  <2> HIDE DEF v
  <2>3. w \in MainWindow
    BY <2>1, TuneKeeps DEF Keeps
  <2>4. /\ w.lastChecked = v.lastChecked => TuneSignal(v, FALSE) = <<>>
        /\ w.lastChecked # v.lastChecked =>
             TuneSignal(v, FALSE) = <<IF w.lastChecked THEN "tune on" ELSE "tune off">>
        /\ w.lastChecked => w.swallowed
    BY <2>1, TuneTunes
  <2> HIDE DEF w
  <2>5. x.lastChecked = w.lastChecked /\ x.swallowed = w.swallowed /\ x.tune = FALSE
    BY <2>3 DEF MainWindow
  <2> HIDE DEF x
  <2> QED BY <2>1, <2>2, <2>4, <2>5 DEF Tunes, Linked
<1> QED BY <1>1, <1>2

\* Halt Tx and the Tx watchdog leave Tune by stop_tuning.
LEMMA StopsTune ==
  ASSUME NEW u \in MainWindow
  PROVE  /\ Tunes(u, OnStopTxButton(u), StopTuningSignal(u))
         /\ Tunes(u, TxWatchdog(u), StopTuningSignal(u))
<1> DEFINE v == StopTuning(u)
           w == [v EXCEPT !.auto = FALSE, !.btxok = FALSE, !.tuneATU_Timer = FALSE]
           x == [v EXCEPT !.txTime = FALSE, !.auto = FALSE]
<1>1. v \in MainWindow
  BY StopTuningKeeps DEF Keeps
<1>2. Tunes(u, v, StopTuningSignal(u))
  BY StopTuningTunes
<1>3. OnStopTxButton(u) = w /\ TxWatchdog(u) = x
  BY DEF OnStopTxButton, TxWatchdog
<1> HIDE DEF v
<1>4. w \in MainWindow /\ x \in MainWindow
  BY <1>1, Fields
<1>5. Quiet(v, w) /\ Quiet(v, x)
  BY <1>1 DEF Quiet, MainWindow
<1> HIDE DEF w, x
<1>6. Tunes(v, w, <<>>) /\ Tunes(v, x, <<>>)
  BY <1>1, <1>4, <1>5, QuietTunes
<1> QED BY <1>2, <1>3, <1>6, TunesTrans

\* tx_watchdog (false) and on_the_minute.
LEMMA CountQuiet ==
  ASSUME NEW u \in MainWindow
  PROVE  Quiet(u, Intervention(u)) /\ Quiet(u, Minute(u))
<1>1. Quiet(u, u)
  BY DEF Quiet
<1>2. Quiet(u, Intervention(u))
  BY DEF Quiet, Intervention, MainWindow
<1>3. Quiet(u, [u EXCEPT !.idleMinutes = @ + 1])
  BY DEF Quiet, MainWindow
<1> QED BY <1>1, <1>2, <1>3 DEF Minute

\* Time that passes without a tick.
LEMMA AgedQuiet ==
  ASSUME NEW u \in MainWindow
  PROVE  Quiet(u, Aged(u))
BY DEF Quiet, Aged, MainWindow

\* Quiet is transitive.
LEMMA QuietTrans ==
  ASSUME NEW u, NEW v, NEW w, Quiet(u, v), Quiet(v, w)
  PROVE  Quiet(u, w)
BY DEF Quiet

-----------------------------------------------------------------------------
(* A tick.                                                                 *)

\* The parts of a tick before the start: only a due watchdog leaves Tune.
LEMMA ReadyTunes ==
  ASSUME NEW u \in MainWindow, NEW phase, NEW forbidden \in BOOLEAN
  PROVE  LET begun == InSequence(u, phase)
         IN  /\ Quiet(u, begun)
             /\ Tunes(u, Ready(u, phase, forbidden),
                      IF WatchdogDue(u) THEN StopTuningSignal(begun) ELSE <<>>)
<1> DEFINE a == InSequence(u, phase)
           b == Guarded(a, forbidden)
           c == Watched(b)
           d == NothingToSend(c)
           s == IF WatchdogDue(u) THEN StopTuningSignal(a) ELSE <<>>
<1>1. a \in MainWindow /\ b \in MainWindow /\ c \in MainWindow /\ d \in MainWindow
  BY BeforeStart DEF Keeps
<1>2. Quiet(u, a) /\ a.blocked = u.blocked /\ a.idleMinutes = u.idleMinutes
  BY DEF Quiet, InSequence, MainWindow
<1> HIDE DEF a
<1>3. Quiet(a, b) /\ b.blocked = a.blocked /\ b.idleMinutes = a.idleMinutes
  BY <1>1 DEF Quiet, Guarded, MainWindow
<1>4. StopTuningSignal(b) = StopTuningSignal(a)
  BY <1>3 DEF Quiet, StopTuningSignal, TuneSignal, TuneToggles
<1>5. WatchdogDue(b) <=> WatchdogDue(u)
  BY <1>2, <1>3 DEF WatchdogDue
<1> HIDE DEF b
<1>6. Tunes(b, c, s)
  <2>1. CASE WatchdogDue(u)
    BY <1>1, <1>4, <1>5, <2>1, StopsTune DEF Watched
  <2>2. CASE ~WatchdogDue(u)
    BY <1>5, <2>2 DEF Watched, Tunes
  <2> QED BY <2>1, <2>2
<1> HIDE DEF c, s
<1>7. Tunes(c, d, <<>>)
  <2>1. CASE c.ntx = "" /\ ~c.tune
    <3>1. d = OnStopTxButton(c) /\ StopTuningSignal(c) = <<>>
      BY <2>1 DEF NothingToSend, StopTuningSignal
    <3>2. Tunes(c, OnStopTxButton(c), StopTuningSignal(c))
      BY <1>1, StopsTune
    <3> QED BY <3>1, <3>2
  <2>2. CASE ~(c.ntx = "" /\ ~c.tune)
    BY <2>2 DEF NothingToSend, Tunes
  <2> QED BY <2>1, <2>2
<1> HIDE DEF d
<1>8. Tunes(u, b, <<>>)
  BY <1>1, <1>2, <1>3, QuietTrans, QuietTunes
<1>9. Tunes(u, d, s)
  BY <1>6, <1>7, <1>8, TunesTrans
<1> QED BY <1>2, <1>9 DEF Ready, a, b, c, d, s

\* The start of a transmission and its end have nothing to do with Tune.
LEMMA StartQuiet ==
  ASSUME NEW v \in MainWindow, NEW phase
  PROVE  TimeToStop(Start(v, phase)) \in MainWindow
         /\ Quiet(v, TimeToStop(Start(v, phase)))
<1> DEFINE w == Start(v, phase)
           x == [v EXCEPT !.iptt = TRUE, !.txWhenReady = TRUE]
<1>1. x \in MainWindow /\ Quiet(v, x)
  <2>1. x \in MainWindow
    BY Fields
  <2> QED BY <2>1 DEF Quiet, MainWindow
<1>2. w \in MainWindow /\ Quiet(v, w)
  <2>1. w = x \/ w = v
    BY DEF Start
  <2> QED BY <1>1, <2>1 DEF Quiet
<1> HIDE DEF w, x
<1> DEFINE y == [w EXCEPT !.btxok = FALSE]
<1>3. y \in MainWindow /\ Quiet(w, y)
  <2>1. y \in MainWindow
    BY <1>2, Fields
  <2> QED BY <1>2, <2>1 DEF Quiet, MainWindow
<1>4. TimeToStop(w) = y \/ TimeToStop(w) = w
  BY DEF TimeToStop
<1> HIDE DEF y
<1> QED BY <1>2, <1>3, <1>4, QuietTrans DEF w

\* Nor have the message and its display, but a 73 turns Enable Tx off.
LEMMA ShownQuiet ==
  ASSUME NEW g \in MainWindow
  PROVE  Quiet(g, Display(Sent(Generate(g), g.ntx)))
<1> DEFINE a == Generate(g)
           b == Sent(a, g.ntx)
           s == Display(b)
<1>1. a \in MainWindow /\ Quiet(g, a)
  <2> DEFINE x == [g EXCEPT !.auto = FALSE, !.ntx = "CQ"]
  <2>1. x \in MainWindow /\ Quiet(g, x)
    <3>1. [g EXCEPT !.auto = FALSE] \in MainWindow
      BY Fields
    <3>2. x \in MainWindow
      BY <3>1, MessagesAssumption DEF MainWindow
    <3> QED BY <3>2 DEF Quiet, MainWindow
  <2>2. a = x \/ a = g
    BY DEF Generate
  <2> HIDE DEF a, x
  <2> QED BY <2>1, <2>2 DEF Quiet
<1> HIDE DEF a
<1>2. b \in MainWindow /\ Quiet(a, b)
  <2> DEFINE i == Intervention(a)
             x == [i EXCEPT !.msgSent0 = g.ntx]
  <2>1. i \in MainWindow /\ Quiet(a, i)
    BY <1>1, CountKeeps, CountQuiet DEF Keeps
  <2>2. b = x \/ b = a
    BY DEF Sent
  <2>3. g.ntx \in Messages
    BY DEF MainWindow
  <2> HIDE DEF i, b
  <2>4. x \in MainWindow /\ Quiet(i, x)
    BY <2>1, <2>3 DEF Quiet, MainWindow
  <2> HIDE DEF x
  <2>5. Quiet(a, x) /\ Quiet(a, a)
    BY <2>1, <2>4, QuietTrans DEF Quiet
  <2> QED BY <1>1, <2>2, <2>4, <2>5
<1> HIDE DEF b
<1>3. Quiet(b, s)
  <2> DEFINE x == [b EXCEPT !.transmitting = TRUE, !.btxok = TRUE]
  <2>1. Quiet(b, x) /\ Quiet(b, b)
    BY <1>2 DEF Quiet, MainWindow
  <2>2. s = x \/ s = b
    BY DEF Display
  <2> HIDE DEF x, s
  <2> QED BY <2>1, <2>2
<1> QED BY <1>1, <1>2, <1>3, QuietTrans DEF a, b

\* Nor has the end of the tick.
LEMMA LatchQuiet ==
  ASSUME NEW s \in MainWindow
  PROVE  Quiet(s, Latch(IF Stops(s) THEN StopTx(s) ELSE s))
<1> DEFINE t == IF Stops(s) THEN StopTx(s) ELSE s
<1>1. t \in MainWindow
  BY Fields, TimerFields, StartedIsTimer DEF StopTx
<1>2. Quiet(s, t)
  BY DEF StopTx, Quiet, MainWindow
<1> HIDE DEF t
<1>3. Quiet(t, Latch(t))
  BY <1>1 DEF Latch, Quiet, MainWindow
<1> QED BY <1>2, <1>3, QuietTrans DEF t

\* guiUpdate tells the Modulator what it remembers of Tune.
LEMMA TickTells ==
  ASSUME NEW u \in MainWindow, Linked(u), Tells(mod, toMod, u.lastChecked),
         toMod \in Seq(ModulatorSignals),
         NEW phase \in Phases, NEW forbidden \in BOOLEAN, NEW opens \in BOOLEAN,
         GuiUpdate(u, phase, forbidden, opens)
  PROVE  TInv'
<1> DEFINE begun == InSequence(u, phase)
           ready == Ready(u, phase, forbidden)
           going == IF Busy(begun) THEN TimeToStop(Start(ready, phase)) ELSE begun
           shown == Display(Sent(Generate(going), going.ntx))
           s == IF Busy(begun) /\ WatchdogDue(u) THEN StopTuningSignal(begun) ELSE <<>>
<1>1. /\ ui' = Latch(IF Stops(shown) THEN StopTx(shown) ELSE shown)
      /\ toMod' = toMod \o s
           \o (IF Stops(shown) THEN <<"endTransmitMessage">> ELSE <<>>)
      /\ mod' = mod
  BY DEF GuiUpdate, Ready
<1>2. begun \in MainWindow /\ ready \in MainWindow
  BY BeforeStart, ReadyKeeps DEF Keeps
<1>3. s \in Seq(ModulatorSignals)
  BY <1>2, SignalTypes, EndSignal
<1>4. Quiet(u, begun)
      /\ Tunes(u, ready, IF WatchdogDue(u) THEN StopTuningSignal(begun) ELSE <<>>)
  BY ReadyTunes
<1>5. /\ TimeToStop(Start(ready, phase)) \in MainWindow
      /\ Quiet(ready, TimeToStop(Start(ready, phase)))
  BY <1>2, StartQuiet
<1> HIDE DEF ready
<1>6. going \in MainWindow /\ Tunes(u, going, s)
  <2>1. CASE Busy(begun)
    <3>1. Tunes(u, ready, s)
      BY <1>4, <2>1
    <3>2. Tunes(ready, going, <<>>)
      BY <1>2, <1>5, <2>1, QuietTunes
    <3> HIDE DEF s
    <3>3. Tunes(u, going, s)
      BY <3>1, <3>2, TunesTrans
    <3> QED BY <1>5, <2>1, <3>3
  <2>2. CASE ~Busy(begun)
    BY <1>2, <1>4, <2>2, QuietTunes
  <2> QED BY <2>1, <2>2
<1> HIDE DEF begun, going, s
<1>7. shown \in MainWindow /\ Quiet(going, shown)
  BY <1>6, Shown, ShownQuiet
<1> HIDE DEF shown
<1>8. ui' \in MainWindow /\ Quiet(shown, ui')
  BY <1>1, <1>7, Latched, LatchQuiet
<1>9. Tunes(u, ui', s)
  BY <1>6, <1>7, <1>8, QuietTrans, QuietTunes, TunesTrans
<1>10. Linked(ui')
  BY <1>9 DEF Tunes
<1>11. Tells(mod, toMod \o s, ui'.lastChecked)
  BY <1>8, <1>9, TellsTuned
<1>12. Tells(mod, toMod', ui'.lastChecked)
  <2> DEFINE p == toMod \o s
  <2>1. p \in Seq(ModulatorSignals)
    BY <1>3
  <2>2. "endTransmitMessage" \in ModulatorSignals \ TuneSignals
    BY DEF ModulatorSignals, TuneSignals
  <2>3. toMod' = p \o <<"endTransmitMessage">> \/ toMod' = p \o <<>>
    BY <1>1
  <2> HIDE DEF p
  <2>4. p \o <<>> = p
    BY <2>1
  <2> QED BY <1>11, <2>1, <2>2, <2>3, <2>4, TellsOther DEF p
<1> QED BY <1>1, <1>10, <1>12 DEF TInv

-----------------------------------------------------------------------------
(* The other steps.                                                        *)

\* At first there is no Tune, and the Modulator knows.
LEMMA InitTune == Init => TInv
<1> SUFFICES ASSUME Init PROVE TInv
  OBVIOUS
<1>1. Linked(ui) /\ ui.lastChecked = FALSE
  BY DEF Init, Linked
<1>2. toMod = <<>> /\ mod.tuning = FALSE
  BY DEF Init
<1>3. DOMAIN <<>> = {}
  OBVIOUS
<1> QED BY <1>1, <1>2, <1>3 DEF TInv, Tells

\* A handler that tunes keeps the invariant.
LEMMA TunesInv ==
  ASSUME IInv, TInv, NEW s, ui' \in MainWindow, Tunes(ui, ui', s),
         toMod' = toMod \o s, mod' = mod
  PROVE  TInv'
<1>1. ui \in MainWindow /\ toMod \in Seq(ModulatorSignals)
  BY DEF IInv, TypeOK
<1>2. Linked(ui')
  BY DEF TInv, Tunes
<1>3. Tells(mod, toMod \o s, ui'.lastChecked)
  BY <1>1, TellsTuned DEF TInv
<1> QED BY <1>2, <1>3 DEF TInv

\* So does one that has nothing to do with Tune.
LEMMA QuietInv ==
  ASSUME IInv, TInv, ui' \in MainWindow, Quiet(ui, ui'),
         toMod' = toMod, mod' = mod
  PROVE  TInv'
<1>1. ui \in MainWindow /\ toMod \in Seq(ModulatorSignals)
  BY DEF IInv, TypeOK
<1>2. toMod' = toMod \o <<>>
  BY <1>1
<1>3. Tunes(ui, ui', <<>>)
  BY <1>1, QuietTunes
<1> QED BY <1>2, <1>3, TunesInv

\* The clicks, requests and decodes.
LEMMA ActsTune == IInv /\ TInv /\ Acts => TInv'
<1> SUFFICES ASSUME IInv, TInv, Acts PROVE TInv'
  OBVIOUS
<1> DEFINE i == Intervention(ui)
<1>1. /\ ui \in MainWindow /\ i \in MainWindow /\ Quiet(ui, i) /\ Quiet(ui, ui)
      /\ ui' \in MainWindow /\ toMod \in Seq(ModulatorSignals)
  <2>1. IInv'
    BY ActsInv
  <2> QED BY <2>1, CountKeeps, CountQuiet DEF IInv, TypeOK, Keeps, Quiet
<1>2. Tunes(ui, i, <<>>) /\ Tunes(ui, ui, <<>>)
  BY <1>1, QuietTunes
<1> HIDE DEF i
<1>3. ASSUME NEW u, NEW s, Act(u, s), Tunes(ui, u, s) PROVE TInv'
  BY <1>1, <1>3, TunesInv DEF Act
<1>4. CASE ClickAuto
  <2>1. Act(OnAutoButton(i, ~ui.auto), <<>>) /\ (~ui.auto) \in BOOLEAN
    BY <1>4 DEF ClickAuto, i
  <2>2. Tunes(ui, OnAutoButton(i, ~ui.auto), <<>>)
    BY <1>1, <1>2, <2>1, AutoTunes, TunesTrans
  <2> QED BY <1>3, <2>1, <2>2
<1>5. CASE ClickTune
  <2> DEFINE b == ~i.tuneButton
             u == [i EXCEPT !.tuneButton = b]
             v == OnTuneButton(u, u.tuneButton)
             s == TuneSignal(u, u.tuneButton)
  <2>1. Act(v, s)
    BY <1>5 DEF ClickTune, i
  <2>2. /\ u \in MainWindow /\ u.tuneButton \in BOOLEAN
        /\ u.lastChecked = ui.lastChecked /\ u.tune = ui.tune
        /\ u.swallowed = ui.swallowed
    BY <1>1 DEF Quiet, MainWindow
  <2> HIDE DEF u
  <2>3. /\ (u.lastChecked => u.tune \/ u.swallowed) => Linked(v)
        /\ v.lastChecked = u.lastChecked => s = <<>>
        /\ v.lastChecked # u.lastChecked =>
             s = <<IF v.lastChecked THEN "tune on" ELSE "tune off">>
    BY <2>2, TuneTunes
  <2> HIDE DEF v, s
  <2>4. Tunes(ui, v, s)
    BY <2>2, <2>3 DEF Tunes, Linked
  <2> QED BY <1>3, <2>1, <2>4
<1>6. CASE ClickStopTx
  <2>1. PICK u \in {ui, i} : Act(OnStopTxButton(u), StopTuningSignal(u))
    BY <1>6 DEF ClickStopTx, i
  <2> DEFINE v == OnStopTxButton(u)
             s == StopTuningSignal(u)
  <2>2. Tunes(u, v, s)
    BY <1>1, StopsTune
  <2>3. Act(v, s)
    BY <2>1
  <2> HIDE DEF v, s
  <2>4. Tunes(ui, v, s)
    BY <1>2, <2>2, TunesTrans
  <2> QED BY <1>3, <2>3, <2>4
<1>7. CASE HaltAutoTx
  <2>1. Tunes(ui, OnAutoButton(ui, FALSE), <<>>)
    BY <1>1, AutoTunes
  <2> QED BY <1>3, <1>7, <2>1 DEF HaltAutoTx
<1>8. CASE AcceptQSO
  <2>1. \/ ui' = [ui EXCEPT !.blocked = Started]
        \/ ui' = [ui EXCEPT !.blocked = Started, !.ntx = "CQ"]
        \/ ui' = [[ui EXCEPT !.auto = FALSE] EXCEPT !.blocked = Started, !.ntx = "CQ"]
    BY <1>8 DEF AcceptQSO, OnAutoButton
  <2>2. Quiet(ui, ui')
    BY <1>1, <2>1 DEF Quiet, MainWindow
  <2> QED BY <1>1, <1>8, <2>2, QuietInv DEF AcceptQSO
<1>9. CASE \E msg \in Messages : Select(msg)
  <2>1. PICK msg \in Messages, u \in {ui, i} :
          \/ Act([u EXCEPT !.ntx = msg], <<>>)
          \/ Act(OnAutoButton([u EXCEPT !.ntx = msg], TRUE), <<>>)
    BY <1>9 DEF Select, i
  <2> DEFINE v == [u EXCEPT !.ntx = msg]
  <2>2. v \in MainWindow /\ Quiet(u, v)
    BY <1>1 DEF Quiet, MainWindow
  <2>3. Act(v, <<>>) \/ Act(OnAutoButton(v, TRUE), <<>>)
    BY <2>1
  <2> HIDE DEF v
  <2>4. Tunes(ui, v, <<>>)
    BY <1>1, <2>2, QuietTrans, QuietTunes
  <2>5. Tunes(v, OnAutoButton(v, TRUE), <<>>)
    BY <2>2, AutoTunes
  <2>6. Tunes(ui, OnAutoButton(v, TRUE), <<>>)
    BY <2>4, <2>5, TunesTrans
  <2> QED BY <1>3, <2>3, <2>4, <2>6
<1> QED BY <1>4, <1>5, <1>6, <1>7, <1>8, <1>9 DEF Acts

\* The timers.
LEMMA TimersTune == IInv /\ TInv /\ Timers => TInv'
<1> SUFFICES ASSUME IInv, TInv, Timers PROVE TInv'
  OBVIOUS
<1>1. /\ ui \in MainWindow /\ ui' \in MainWindow
      /\ toMod \in Seq(ModulatorSignals) /\ 0 \in Timer
  <2>1. IInv'
    BY TimersInv
  <2> QED BY <2>1 DEF IInv, TypeOK, Timer
<1>2. CASE OnTheMinute
  BY <1>1, <1>2, CountQuiet, QuietInv DEF OnTheMinute
<1>3. CASE StopTx2
  <2>1. Quiet(ui, ui')
    BY <1>1, <1>3 DEF StopTx2, Quiet, MainWindow
  <2> QED BY <1>1, <1>3, <2>1, QuietInv DEF StopTx2
<1>4. CASE Unblock
  <2>1. Quiet(ui, ui')
    BY <1>1, <1>4 DEF Unblock, Quiet, MainWindow
  <2> QED BY <1>1, <1>4, <2>1, QuietInv DEF Unblock
<1>5. CASE StartTx2
  <2>1. Quiet(ui, ui')
    BY <1>1, <1>5 DEF StartTx2, Quiet, MainWindow
  <2>2. mod' = mod
    BY <1>5 DEF StartTx2
  <2>3. CASE toMod' = toMod
    BY <1>1, <2>1, <2>2, <2>3, QuietInv
  <2>4. CASE toMod' = toMod \o <<"sendMessage">>
    <3>1. "sendMessage" \in ModulatorSignals \ TuneSignals
      BY DEF ModulatorSignals, TuneSignals
    <3>2. Tells(mod, toMod', ui.lastChecked)
      BY <1>1, <2>4, <3>1, TellsOther DEF TInv
    <3>3. ui'.lastChecked = ui.lastChecked /\ Linked(ui')
      BY <2>1 DEF Quiet, Linked, TInv
    <3> QED BY <2>2, <3>2, <3>3 DEF TInv
  <2>5. Append(toMod, "sendMessage") = toMod \o <<"sendMessage">>
    BY <1>1
  <2> QED BY <1>5, <2>3, <2>4, <2>5 DEF StartTx2
<1>6. CASE EndTuning
  <2> DEFINE u == [ui EXCEPT !.tuneButtonTimer = 0]
             s == StopTuningSignal(u)
  <2>1. ui' = OnStopTxButton(u) /\ toMod' = toMod \o s /\ mod' = mod
    BY <1>6 DEF EndTuning
  <2>2. u \in MainWindow /\ Quiet(ui, u)
    BY <1>1 DEF Quiet, MainWindow
  <2> HIDE DEF u
  <2>3. Tunes(u, ui', s)
    BY <2>1, <2>2, StopsTune
  <2> HIDE DEF s
  <2>4. Tunes(ui, ui', s)
    BY <1>1, <2>2, <2>3, QuietTunes, TunesTrans
  <2> QED BY <1>1, <2>1, <2>4, TunesInv
<1>7. CASE StopTuneATU
  <2> DEFINE u == [ui EXCEPT !.tuneATU_Timer = FALSE]
             v == OnTuneButton(u, FALSE)
             s == TuneSignal(u, FALSE)
  <2>1. ui' = [v EXCEPT !.txTime = FALSE] /\ toMod' = toMod \o s /\ mod' = mod
    BY <1>7 DEF StopTuneATU
  <2>2. u \in MainWindow /\ Quiet(ui, u)
    BY <1>1 DEF Quiet, MainWindow
  <2> HIDE DEF u
  <2>3. Linked(u)
    BY <2>2 DEF TInv, Linked, Quiet
  <2>4. /\ (u.lastChecked => u.tune \/ u.swallowed) => Linked(v)
        /\ v.lastChecked = u.lastChecked => s = <<>>
        /\ v.lastChecked # u.lastChecked =>
             s = <<IF v.lastChecked THEN "tune on" ELSE "tune off">>
    BY <2>2, TuneTunes
  <2>5. v \in MainWindow
    BY <2>2, TuneKeeps DEF Keeps
  <2> HIDE DEF v, s
  <2>6. Tunes(u, v, s)
    BY <2>3, <2>4 DEF Tunes, Linked
  <2>7. Quiet(v, ui')
    BY <2>1, <2>5 DEF Quiet, MainWindow
  <2>8. Tunes(ui, ui', s)
    BY <1>1, <2>2, <2>5, <2>6, <2>7, QuietTunes, TunesTrans
  <2> QED BY <1>1, <2>1, <2>8, TunesInv
<1> QED BY <1>2, <1>3, <1>4, <1>5, <1>6, <1>7 DEF Timers

\* The rig.
LEMMA RigTune ==
  IInv /\ TInv /\ (Transceiver \/ HandleTransceiverFailure \/ RigOpen) => TInv'
<1> SUFFICES ASSUME IInv, TInv, Transceiver \/ HandleTransceiverFailure \/ RigOpen
             PROVE  TInv'
  OBVIOUS
<1>1. ui \in MainWindow /\ ui' \in MainWindow
  <2>1. IInv'
    BY RigInv
  <2> QED BY <2>1 DEF IInv, TypeOK
<1>2. CASE RigObeys \/ RigOpen
  BY <1>1, <1>2, QuietInv DEF RigObeys, RigOpen, Quiet
<1>3. CASE HandleTransceiverUpdate
  <2> DEFINE v == [ui EXCEPT !.ptt1Timer = Started, !.txWhenReady = FALSE]
  <2>1. Quiet(ui, v) /\ Quiet(ui, ui)
    BY <1>1 DEF Quiet, MainWindow
  <2>2. ui' = v \/ ui' = ui
    BY <1>3 DEF HandleTransceiverUpdate
  <2> HIDE DEF v
  <2> QED BY <1>1, <1>3, <2>1, <2>2, QuietInv DEF HandleTransceiverUpdate
<1>4. CASE HandleTransceiverFailure
  <2> DEFINE s == StopTuningSignal(ui)
  <2>1. Tunes(ui, OnStopTxButton(ui), s)
    BY <1>1, StopsTune
  <2>2. ui' = OnStopTxButton(ui) /\ toMod' = toMod \o s /\ mod' = mod
    BY <1>4 DEF HandleTransceiverFailure
  <2> HIDE DEF s
  <2> QED BY <1>1, <2>1, <2>2, TunesInv
<1> QED BY <1>2, <1>3, <1>4 DEF Transceiver

\* The Modulator does what it is told.
LEMMA AudioTune == IInv /\ TInv /\ AudioThread => TInv'
<1> SUFFICES ASSUME IInv, TInv, AudioThread PROVE TInv'
  OBVIOUS
<1>1. mod \in Modulator /\ toMod \in Seq(ModulatorSignals)
  BY DEF IInv, TypeOK
<1>2. CASE ModulatorSlot
  <2>1. Tells(mod', toMod', ui.lastChecked)
    BY <1>1, <1>2, TellsHead DEF ModulatorSlot, TInv
  <2> QED BY <1>2, <2>1 DEF ModulatorSlot, TInv
<1>3. CASE EndOfMessage
  <2>1. mod'.tuning = mod.tuning /\ toMod' = toMod /\ ui' = ui
    BY <1>1, <1>3 DEF EndOfMessage, Modulator
  <2> QED BY <2>1 DEF TInv, Tells
<1> QED BY <1>2, <1>3 DEF AudioThread

\* The invariant is inductive, with that of TxSequencer_proofs.
LEMMA StepTune == IInv /\ TInv /\ [Next]_vars => TInv'
<1> SUFFICES ASSUME IInv, TInv, [Next]_vars PROVE TInv'
  OBVIOUS
<1>1. /\ ui \in MainWindow /\ toMod \in Seq(ModulatorSignals) /\ clock \in Phases
      /\ Linked(ui) /\ Tells(mod, toMod, ui.lastChecked)
  BY DEF IInv, TypeOK, TInv
<1>2. CASE Tick
  <2>1. PICK forbidden, opens \in BOOLEAN : GuiUpdate(ui, clock, forbidden, opens)
    BY <1>2 DEF Tick
  <2> QED BY <1>1, <2>1, TickTells
<1>3. CASE NextPhase
  <2>1. PICK forbidden, opens \in BOOLEAN :
          GuiUpdate(Aged(ui), After(clock), forbidden, opens)
    BY <1>3 DEF NextPhase
  <2>2. Aged(ui) \in MainWindow
    <3>1. Armed(ui) /\ PttFollows(ui, rig) /\ ui.ptt0Timer # 1
      BY <1>3 DEF IInv, NextPhase
    <3> QED BY <1>1, <3>1, AgedKeeps
  <2>3. Linked(Aged(ui)) /\ Aged(ui).lastChecked = ui.lastChecked
    BY <1>1, AgedQuiet DEF Quiet, Linked
  <2>4. After(clock) \in Phases
    BY <1>1 DEF After, Phases
  <2> QED BY <1>1, <2>1, <2>2, <2>3, <2>4, TickTells
<1>4. CASE Timers \/ Acts \/ AudioThread
  BY <1>4, TimersTune, ActsTune, AudioTune
<1>5. CASE Transceiver \/ HandleTransceiverFailure \/ RigOpen
  BY <1>5, RigTune
<1>6. CASE UNCHANGED vars
  BY <1>6 DEF vars, TInv, Tells
<1> QED BY <1>2, <1>3, <1>4, <1>5, <1>6 DEF Next

-----------------------------------------------------------------------------
(* The theorems.                                                           *)

\* What is remembered of Tune, and what the Modulator has been told, agree.
THEOREM TuneInductive == Spec => []TInv
BY InitTune, StepTune, Inductive, PTL DEF Spec

\* Unless a call of on_tuneButton_clicked was swallowed, Enable Tx is off
\* while tuning, whatever decodes, requests and timers do.
THEOREM TuneIsExclusive == Spec => []TuneExcludesAuto
<1>1. TInv => TuneExcludesAuto
  BY DEF TInv, Linked, TuneExcludesAuto
<1> QED BY <1>1, TuneInductive, PTL

\* Once the Modulator has handled its signals it makes the tuning carrier only
\* in Tune, unless a call was swallowed.
THEOREM CarrierIsTune == Spec => []CarrierOnlyInTune
<1>1. TInv => CarrierOnlyInTune
  <2> SUFFICES ASSUME TInv, mod.tuning, toMod = <<>>
               PROVE  ui.tune \/ ui.swallowed
    BY DEF CarrierOnlyInTune
  <2>1. DOMAIN toMod = {}
    OBVIOUS
  <2>2. mod.tuning = ui.lastChecked
    BY <2>1 DEF TInv, Tells
  <2> QED BY <2>2 DEF TInv, Linked
<1> QED BY <1>1, TuneInductive, PTL
=============================================================================
