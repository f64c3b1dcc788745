---------------------------- MODULE TxSequencer ----------------------------
(***************************************************************************)
(* How WSJT-X keys the transmitter.  guiUpdate, called every 100 ms by a   *)
(* timer, starts and stops transmissions; buttons, decodes, UDP requests   *)
(* and five more timers change what it decides from; PTT is asked of the   *)
(* rig through Configuration (RigControl), and the Modulator makes audio   *)
(* in a thread of its own.  FT8 with Auto Seq, the Tx watchdog and the     *)
(* Tune watchdog enabled.                                                  *)
(***************************************************************************)
EXTENDS Naturals, Sequences

CONSTANTS Messages,   \* the texts m_ntx may select: "" is an empty one
          Watchdog,   \* minutes without intervention that stop Tx
          MaxActs,    \* bound: acts of the operator, of UDP and of decodes
          MaxIncidents, \* bound: QSOs accepted in the log dialog, rig failures
          MaxBacklog  \* bound: signals the audio thread has yet to handle

ASSUME MessagesAssumption == {"", "73", "CQ"} \subseteq Messages

ASSUME WatchdogAssumption == Watchdog \in Nat \ {0}

VARIABLES ui,     \* MainWindow
          toMod,  \* signals posted to the Modulator in the audio thread
          mod,    \* the Modulator
          rig,    \* the rig, seen through Configuration
          clock,  \* where we are in the T/R sequence
          env     \* history: what the bounds below count

vars == <<ui, toMod, mod, rig, clock, env>>

\* A timer of at most 250 ms is stopped (0), started in this phase of the
\* sequence (2) or in the one before (1).
Timer == 0..2
Started == 2

\* In our sequence a transmission may start "early", within 0.75 of it.
Phases == {"early", "late", "off"}

MainWindow ==
  [auto : BOOLEAN, tune : BOOLEAN,                 \* m_auto, m_tune
   tuneButton : BOOLEAN, lastChecked : BOOLEAN,    \* the button, and the static
   txTime : BOOLEAN, iptt : BOOLEAN, iptt0 : BOOLEAN,
   btxok : BOOLEAN, btxok0 : BOOLEAN, transmitting : BOOLEAN,
   txWhenReady : BOOLEAN, blocked : Timer,
   idleMinutes : 0..Watchdog, ntx : Messages, msgSent0 : Messages,
   ptt0Timer : Timer, ptt1Timer : Timer, tuneButtonTimer : Timer,
   tuneATU_Timer : BOOLEAN,
   swallowed : BOOLEAN]   \* history: a call of on_tuneButton_clicked was blocked

\* Configuration and the rig: what PTT was last asked for, what it is, and
\* whether the last request is to be carried out, or to be answered.
Rig == [online : BOOLEAN, asked : BOOLEAN, ptt : BOOLEAN,
        request : {"none", "posted", "done"}]

\* Modulator::m_state; "padding" is Active after the last sample of the message.
Modulator == [state : {"Idle", "Active", "padding"}, tuning : BOOLEAN]

ModulatorSignals == {"sendMessage", "endTransmitMessage", "tune on", "tune off"}

-----------------------------------------------------------------------------
(* Handlers of MainWindow as functions of its state: they call each other. *)

OnAutoButton(u, checked) ==
  IF checked /\ u.tuneButton THEN u ELSE [u EXCEPT !.auto = checked]

TuneToggles(u, checked) == u.blocked = 0 /\ u.lastChecked # checked

\* Faulty variant: the tune watchdog is not started.
OnTuneButtonUnwatched(u, checked) ==
  IF u.blocked > 0 THEN [u EXCEPT !.swallowed = TRUE]
  ELSE [u EXCEPT !.auto = FALSE, !.tuneATU_Timer = FALSE, !.lastChecked = checked,
                 !.tune = @ \/ TuneToggles(u, checked),
                 !.tuneButtonTimer = IF TuneToggles(u, checked) /\ u.tune
                                     THEN Started ELSE @]

\* Faulty variant: Enable Tx stays on.
OnTuneButtonAuto(u, checked) ==
  IF u.blocked > 0 THEN [u EXCEPT !.swallowed = TRUE]
  ELSE [u EXCEPT !.tuneATU_Timer = checked, !.lastChecked = checked,
                 !.tune = @ \/ TuneToggles(u, checked),
                 !.tuneButtonTimer = IF TuneToggles(u, checked) /\ u.tune
                                     THEN Started ELSE @]

\* Whichever way the button goes: a running Tune is ended 250 ms later, one
\* that does not run is begun.
OnTuneButton(u, checked) ==
  IF u.blocked > 0 THEN [u EXCEPT !.swallowed = TRUE]
  ELSE [u EXCEPT !.auto = FALSE, !.tuneATU_Timer = checked, !.lastChecked = checked,
                 !.tune = @ \/ TuneToggles(u, checked),
                 !.tuneButtonTimer = IF TuneToggles(u, checked) /\ u.tune
                                     THEN Started ELSE @]

TuneSignal(u, checked) ==
  IF ~TuneToggles(u, checked) THEN <<>>
  ELSE <<IF checked THEN "tune on" ELSE "tune off">>

\* Faulty variant: the Modulator is not told.
StopTuningSignalLost(u) == <<>>

StopTuningSignal(u) == IF u.tune THEN TuneSignal(u, FALSE) ELSE <<>>

StopTuning(u) ==
  IF ~u.tune THEN u
  ELSE [OnTuneButton([u EXCEPT !.tuneATU_Timer = FALSE], FALSE) EXCEPT
          !.tuneButton = FALSE, !.txTime = FALSE, !.tune = FALSE]

OnStopTxButton(u) ==
  [StopTuning(u) EXCEPT !.auto = FALSE, !.btxok = FALSE, !.tuneATU_Timer = FALSE]

\* tx_watchdog (true)
TxWatchdog(u) == [StopTuning(u) EXCEPT !.txTime = FALSE, !.auto = FALSE]

\* tx_watchdog (false): any key or mouse button, among others.
Intervention(u) == [u EXCEPT !.idleMinutes = 0]

\* Faulty variant: minutes are counted for ever.
MinuteUncapped(u) == IF u.auto THEN [u EXCEPT !.idleMinutes = @ + 1] ELSE Intervention(u)

\* on_the_minute: counts only while Enable Tx is on.
Minute(u) ==
  IF ~u.auto THEN Intervention(u)
  ELSE IF u.idleMinutes < Watchdog THEN [u EXCEPT !.idleMinutes = @ + 1] ELSE u

-----------------------------------------------------------------------------
(* guiUpdate, part by part.                                                *)

Busy(u) == u.transmitting \/ u.auto \/ u.tune

InSequence(u, phase) == [u EXCEPT !.txTime = phase # "off" \/ u.tune]

\* The 30 m guard band.
Guarded(u, forbidden) ==
  IF forbidden THEN [u EXCEPT !.txTime = FALSE, !.auto = FALSE] ELSE u

WatchdogDue(u) == u.idleMinutes >= Watchdog

\* Faulty variant: only Enable Tx is turned off.
WatchedAutoOnly(u) == IF WatchdogDue(u) THEN [u EXCEPT !.auto = FALSE] ELSE u

Watched(u) == IF WatchdogDue(u) THEN TxWatchdog(u) ELSE u

NothingToSend(u) == IF u.ntx = "" /\ ~u.tune THEN OnStopTxButton(u) ELSE u

Starts(u, phase) ==
  /\ ~u.iptt
  /\ u.tune \/ (u.txTime /\ phase = "early" /\ u.ntx # "")

Start(u, phase) ==
  IF Starts(u, phase) THEN [u EXCEPT !.iptt = TRUE, !.txWhenReady = TRUE] ELSE u

\* Faulty variant: a transmission in progress is not ended with the sequence.
TimeToStopIgnored(u) == u

TimeToStop(u) == IF ~u.txTime /\ ~u.tune THEN [u EXCEPT !.btxok = FALSE] ELSE u

Rising(u) == u.iptt /\ ~u.iptt0

\* The message is generated; a 73 turns Enable Tx off and selects the CQ.
Generate(u) ==
  IF Rising(u) /\ ~u.tune /\ u.ntx = "73"
  THEN [u EXCEPT !.auto = FALSE, !.ntx = "CQ"] ELSE u

\* Faulty variant: every transmission resets the watchdog.
SentAlways(u, msg) ==
  IF Rising(u) THEN [Intervention(u) EXCEPT !.msgSent0 = msg] ELSE u

\* A message other than the last one resets the watchdog.
Sent(u, msg) ==
  IF Rising(u) /\ ~u.tune /\ msg # u.msgSent0
  THEN [Intervention(u) EXCEPT !.msgSent0 = msg] ELSE u

Display(u) ==
  IF Rising(u) THEN [u EXCEPT !.transmitting = TRUE, !.btxok = TRUE] ELSE u

\* Faulty variant: nothing will lower PTT.
StopTxNoTimer(u) ==
  [u EXCEPT !.btxok = FALSE, !.transmitting = FALSE, !.iptt = FALSE]

StopTx(u) ==
  [u EXCEPT !.btxok = FALSE, !.transmitting = FALSE, !.iptt = FALSE,
            !.ptt0Timer = Started]

Stops(u) == ~u.btxok /\ u.btxok0 /\ u.iptt

\* Faulty variant: m_btxok0 is not remembered.
LatchIptt(u) == [u EXCEPT !.iptt0 = u.iptt, !.txTime = FALSE]

\* m_bTxTime is read by guiUpdate only, which assigns it first: forgotten here.
Latch(u) == [u EXCEPT !.iptt0 = u.iptt, !.btxok0 = u.btxok, !.txTime = FALSE]

-----------------------------------------------------------------------------
(* Configuration: a rig that is not open drops the request.                *)

TransceiverPtt(r, on) ==
  [r EXCEPT !.asked = on, !.request = IF r.online THEN "posted" ELSE "none"]

Opened(r) ==
  IF r.online THEN r
  ELSE [online |-> TRUE, asked |-> FALSE, ptt |-> FALSE, request |-> "none"]

-----------------------------------------------------------------------------

Init ==
  /\ ui = [auto |-> FALSE, tune |-> FALSE, tuneButton |-> FALSE,
           lastChecked |-> FALSE, txTime |-> FALSE, iptt |-> FALSE,
           iptt0 |-> FALSE, btxok |-> FALSE, btxok0 |-> FALSE,
           transmitting |-> FALSE, txWhenReady |-> FALSE, blocked |-> 0,
           idleMinutes |-> 0, ntx |-> "CQ", msgSent0 |-> "", ptt0Timer |-> 0,
           ptt1Timer |-> 0, tuneButtonTimer |-> 0, tuneATU_Timer |-> FALSE,
           swallowed |-> FALSE]
  /\ toMod = <<>>
  /\ mod = [state |-> "Idle", tuning |-> FALSE]
  /\ rig = [online |-> TRUE, asked |-> FALSE, ptt |-> FALSE, request |-> "none"]
  /\ clock = "off"
  /\ env = [acts |-> 0, incidents |-> 0]

Older(t) == IF t = 0 THEN 0 ELSE t - 1

Aged(u) == [u EXCEPT !.ptt0Timer = Older(@), !.ptt1Timer = Older(@),
                     !.tuneButtonTimer = Older(@), !.blocked = Older(@)]

\* setRig opens the rig when the station is monitoring: opens.  (A one-element
\* set is the tick before the start, after it, and with what was started.)
GuiUpdate(u, phase, forbidden, opens) ==
  \E begun \in {InSequence(u, phase)} :
  \E ready \in {NothingToSend(Watched(Guarded(begun, forbidden)))} :
  \E going \in {IF Busy(begun) THEN TimeToStop(Start(ready, phase)) ELSE begun} :
  \E shown \in {Display(Sent(Generate(going), going.ntx))} :
    /\ Len(toMod) < MaxBacklog
    /\ ui' = Latch(IF Stops(shown) THEN StopTx(shown) ELSE shown)
    /\ toMod' = toMod
         \o (IF Busy(begun) /\ WatchdogDue(u) THEN StopTuningSignal(begun) ELSE <<>>)
         \o (IF Stops(shown) THEN <<"endTransmitMessage">> ELSE <<>>)
    /\ rig' = IF Busy(begun) /\ Starts(ready, phase)
              THEN TransceiverPtt(IF opens THEN Opened(rig) ELSE rig, TRUE)
              ELSE rig
    /\ clock' = phase
    /\ UNCHANGED <<mod, env>>

\* A timer tick of the same phase.
Tick == \E forbidden, opens \in BOOLEAN : GuiUpdate(ui, clock, forbidden, opens)

After(phase) == CASE phase = "early" -> "late"
                  [] phase = "late"  -> "off"
                  [] phase = "off"   -> "early"

\* The first tick of the next phase: nothing else reads the clock.  Phases last
\* seconds, so the audio thread has handled what was posted to it, and no timer
\* of at most 250 ms outlives a whole phase.
NextPhase ==
  /\ toMod = <<>>
  /\ 1 \notin {ui.ptt0Timer, ui.ptt1Timer, ui.tuneButtonTimer, ui.blocked}
  /\ \E forbidden, opens \in BOOLEAN :
       GuiUpdate(Aged(ui), After(clock), forbidden, opens)

-----------------------------------------------------------------------------
(* The timers.                                                             *)

OnTheMinute ==
  /\ ui' = Minute(ui)
  /\ UNCHANGED <<toMod, mod, rig, clock, env>>

\* ptt0Timer, 200 ms after stopTx: lower PTT, whatever has begun meanwhile.
StopTx2 ==
  /\ ui.ptt0Timer > 0
  /\ ui' = [ui EXCEPT !.ptt0Timer = 0]
  /\ rig' = TransceiverPtt(rig, FALSE)
  /\ UNCHANGED <<toMod, mod, clock, env>>

\* ptt1Timer, the Tx delay after the rig was keyed: audio, unless the
\* Modulator, in its thread, is active at the moment.
StartTx2 ==
  /\ Len(toMod) < MaxBacklog
  /\ ui.ptt1Timer > 0
  /\ ui' = [ui EXCEPT !.ptt1Timer = 0]
  /\ toMod' = IF mod.state = "Idle" THEN Append(toMod, "sendMessage") ELSE toMod
  /\ UNCHANGED <<mod, rig, clock, env>>

EndTuning ==
  /\ Len(toMod) < MaxBacklog
  /\ ui.tuneButtonTimer > 0
  /\ LET u == [ui EXCEPT !.tuneButtonTimer = 0]
     IN  /\ ui' = OnStopTxButton(u)
         /\ toMod' = toMod \o StopTuningSignal(u)
  /\ UNCHANGED <<mod, rig, clock, env>>

\* The tune watchdog.
StopTuneATU ==
  /\ Len(toMod) < MaxBacklog
  /\ ui.tuneATU_Timer
  /\ LET u == [ui EXCEPT !.tuneATU_Timer = FALSE]
     IN  /\ ui' = [OnTuneButton(u, FALSE) EXCEPT !.txTime = FALSE]
         /\ toMod' = toMod \o TuneSignal(u, FALSE)
  /\ UNCHANGED <<mod, rig, clock, env>>

Unblock ==
  /\ ui.blocked > 0
  /\ ui' = [ui EXCEPT !.blocked = 0]
  /\ UNCHANGED <<toMod, mod, rig, clock, env>>

-----------------------------------------------------------------------------
(* The operator, decodes and UDP requests.                                 *)

Act(u, signals) ==
  /\ Len(toMod) < MaxBacklog
  /\ env.acts < MaxActs
  /\ ui' = u
  /\ toMod' = toMod \o signals
  /\ env' = [env EXCEPT !.acts = @ + 1]
  /\ UNCHANGED <<mod, rig, clock>>

ClickAuto == Act(OnAutoButton(Intervention(ui), ~ui.auto), <<>>)

\* The button toggles before its handler runs.
ClickTune ==
  LET u == [Intervention(ui) EXCEPT !.tuneButton = ~@]
  IN  Act(OnTuneButton(u, u.tuneButton), TuneSignal(u, u.tuneButton))

\* The button, or a UDP request, which does not count as intervention.
ClickStopTx ==
  \E u \in {ui, Intervention(ui)} : Act(OnStopTxButton(u), StopTuningSignal(u))

\* A UDP request that lets the transmission finish.
HaltAutoTx == ui.auto /\ Act(OnAutoButton(ui, FALSE), <<>>)

\* A decode or a request selects the next message, and may enable Tx and
\* count as intervention.
Select(msg) ==
  \E u \in {ui, Intervention(ui)} :
     LET v == [u EXCEPT !.ntx = msg]
     IN  Act(v, <<>>) \/ Act(OnAutoButton(v, TRUE), <<>>)

\* acceptQSO: if so configured the DX call is cleared, which selects the CQ and,
\* unless QSOProgress is CALLING, turns Enable Tx off; for 50 ms Tune clicks are
\* ignored.
AcceptQSO ==
  /\ env.incidents < MaxIncidents
  /\ \/ ui' = [ui EXCEPT !.blocked = Started]
     \/ \E u \in {ui, OnAutoButton(ui, FALSE)} :
          ui' = [u EXCEPT !.blocked = Started, !.ntx = "CQ"]
  /\ env' = [env EXCEPT !.incidents = @ + 1]
  /\ UNCHANGED <<toMod, mod, rig, clock>>

-----------------------------------------------------------------------------
(* The rig (what RigControl promises) and the Modulator.                   *)

RigObeys ==
  /\ rig.request = "posted"
  /\ rig' = [rig EXCEPT !.ptt = rig.asked, !.request = "done"]
  /\ UNCHANGED <<ui, toMod, mod, clock, env>>

\* "safe to start audio": the Tx delay begins.
HandleTransceiverUpdate ==
  /\ rig.request = "done"
  /\ rig' = [rig EXCEPT !.request = "none"]
  /\ ui' = IF rig.ptt /\ ui.txWhenReady /\ ui.iptt
           THEN [ui EXCEPT !.ptt1Timer = Started, !.txWhenReady = FALSE] ELSE ui
  /\ UNCHANGED <<toMod, mod, clock, env>>

HandleTransceiverFailure ==
  /\ Len(toMod) < MaxBacklog
  /\ rig.online
  /\ env.incidents < MaxIncidents
  /\ rig' = [rig EXCEPT !.online = FALSE, !.ptt = FALSE, !.request = "none"]
  /\ ui' = OnStopTxButton(ui)
  /\ toMod' = toMod \o StopTuningSignal(ui)
  /\ env' = [env EXCEPT !.incidents = @ + 1]
  /\ UNCHANGED <<mod, clock>>

RigOpen ==
  /\ ~rig.online
  /\ rig' = Opened(rig)
  /\ UNCHANGED <<ui, toMod, mod, clock, env>>

\* The slots start, stop and tune.
Handled(m, signal) ==
  CASE signal = "sendMessage"        -> [m EXCEPT !.state = "Active"]
    [] signal = "endTransmitMessage" -> [m EXCEPT !.state = "Idle"]
    [] signal = "tune on"            -> [m EXCEPT !.tuning = TRUE]
    [] signal = "tune off"           -> [state |-> "Idle", tuning |-> FALSE]

ModulatorSlot ==
  /\ toMod # <<>>
  /\ mod' = Handled(mod, Head(toMod))
  /\ toMod' = Tail(toMod)
  /\ UNCHANGED <<ui, rig, clock, env>>

\* readData after the last sample: silence, but m_state stays Active.
EndOfMessage ==
  /\ mod.state = "Active"
  /\ ~mod.tuning
  /\ mod' = [mod EXCEPT !.state = "padding"]
  /\ UNCHANGED <<ui, toMod, rig, clock, env>>

-----------------------------------------------------------------------------

Timers == OnTheMinute \/ StopTx2 \/ StartTx2 \/ EndTuning \/ StopTuneATU \/ Unblock

Acts == \/ ClickAuto \/ ClickTune \/ ClickStopTx \/ HaltAutoTx \/ AcceptQSO
        \/ \E msg \in Messages : Select(msg)

Transceiver == RigObeys \/ HandleTransceiverUpdate

AudioThread == ModulatorSlot \/ EndOfMessage

Next == \/ Tick \/ NextPhase \/ Timers \/ Acts \/ Transceiver \/ AudioThread
        \/ HandleTransceiverFailure \/ RigOpen

Spec == Init /\ [][Next]_vars

\* Time passes, timers fire, the rig answers and the audio thread runs; nothing
\* is assumed of the operator, of decodes or of a rig that has failed.
Fairness ==
  /\ WF_vars(NextPhase) /\ WF_vars(OnTheMinute)
  /\ WF_vars(StopTx2) /\ WF_vars(StartTx2) /\ WF_vars(EndTuning)
  /\ WF_vars(StopTuneATU) /\ WF_vars(Unblock)
  /\ WF_vars(Transceiver) /\ WF_vars(AudioThread)

FairSpec == Spec /\ Fairness

-----------------------------------------------------------------------------
(* Properties.                                                             *)

TypeOK ==
  /\ ui \in MainWindow
  /\ toMod \in Seq(ModulatorSignals)
  /\ mod \in Modulator
  /\ rig \in Rig
  /\ clock \in Phases
  /\ env \in [acts : Nat, incidents : Nat]

\* guiUpdate stops a transmission only on a falling edge of m_btxok that it
\* sees itself, while g_iptt is 1: during a transmission the latches hold what
\* that takes, so clearing m_btxok at any moment stops it.
StopIsArmed ==
  /\ ui.iptt => ui.transmitting /\ ui.iptt0 /\ ui.btxok0
  /\ ui.transmitting \/ ui.iptt0 \/ ui.btxok => ui.iptt

\* "Lower PTT": a keyed rig is transmitting for us, or ptt0Timer is going to
\* unkey it, or the request to do so is on its way.
NoStuckPtt ==
  rig.ptt => \/ ui.iptt
             \/ ui.ptt0Timer > 0
             \/ rig.request = "posted" /\ ~rig.asked

\* Enable Tx is "not allowed while tuning".
TuneExcludesAuto ==
  ui.tune /\ ui.tuneButton /\ ui.auto => ui.swallowed

\* The Modulator makes the tuning carrier only in Tune: a message is not sent
\* as a carrier.
CarrierOnlyInTune ==
  mod.tuning /\ toMod = <<>> => ui.tune \/ ui.swallowed

\* The runaway Tx watchdog: once it is due, the next guiUpdate ends the
\* transmission, Tune and Enable Tx.
WatchdogStops ==
  [][WatchdogDue(ui) /\ (Tick \/ NextPhase) => ~ui'.iptt /\ ~ui'.auto /\ ~ui'.tune]_vars

\* Outside Tune every transmission comes to an end.
TransmissionEnds == ui.iptt ~> (~ui.iptt \/ ui.tune)

\* Tune ends: by hand, by Halt Tx or by the tune watchdog.
TuneEnds == ui.tune ~> (~ui.tune \/ ui.swallowed)

\* A station left alone falls silent: no transmission, no PTT, no audio.
FallsSilent ==
  \/ <>[](~ui.iptt /\ ~rig.ptt /\ mod.state # "Active")
  \/ <>ui.swallowed

\* The tune watchdog "protects your Rig!": it ends Tune.
TuneWatchdogEndsTune == (ui.tune /\ ui.tuneATU_Timer) ~> ~ui.tune

\* "Halt Tx terminates a transmission immediately": audio starts only during
\* a transmission ("waiting to Tx and still needed").
AudioOnlyInTransmission ==
  [][Len(toMod') > Len(toMod) /\ toMod'[Len(toMod')] = "sendMessage"
     => ui.iptt]_vars
=============================================================================
