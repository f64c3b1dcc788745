# Verification of WSJT-X Neo

TLA+ models of the control logic of WSJT-X Neo (`src/wsjtx/`), checked with TLC
and, for most of their safety properties, proved with TLAPS. Paths below are relative to `src/wsjtx/`
unless they start with `src/`.

WSJT-X is an amateur radio program. It keys a transmitter, moves its dial,
sends and decodes short messages in fixed time slots, and sequences contacts.
What it does wrong happens on the air, so this project starts where the program
commands the transmitter.

## 1. Inventory

| Component | State it keeps | Operations | Interacts with | What makes it correct |
|---|---|---|---|---|
| Transceiver objects: `Transceiver/TransceiverBase.cpp`, `PollingTransceiver.cpp`, `EmulateSplitTransceiver.cpp` | `requested_`, `actual_`, `last_`, `last_sequence_number_`; `next_state_`, `last_signalled_state_`, `retries_`, the poll timer; the wrapper's rx and tx frequency | `start`, `set`, `stop`, `handle_timeout`, `offline` | runs in `transceiver_thread_`; queued slots and signals from and to Configuration; back end calls that throw | a keyed radio has an object that knows it; misreads while the radio settles stay hidden |
| Back ends: `HamlibTransceiver.cpp`, HRD, OmniRig, DX Lab, TCI | handle of the rig, VFO map | `do_start`, `do_frequency`, `do_tx_frequency`, `do_ptt`, `do_tune`, `do_poll`, `do_stop` | the radio | an exception half-way leaves a state that can be recovered |
| Rig control in `Configuration.cpp` | `rig_active_`, `cached_rig_state_`, `transceiver_command_number_`, `rig_connections_` | `open_rig`, `close_rig`, `transceiver_frequency` and the other requests, `handle_transceiver_update`, `handle_transceiver_failure` | MainWindow by calls and signals; Transceiver objects by queued signals | answers are those of the last command; events reach live objects; requests are answered |
| Transmit sequencing in `widgets/mainwindow.cpp` (`guiUpdate` 7835-8685, `startTx2`, `stopTx`, `stopTx2`, tune) | `m_transmitting`, `g_iptt`, `m_btxok`, `m_btxok0`, `m_bTxTime`, `m_tx_when_ready`, `m_tune`, `m_auto`, five timers | the 100 ms tick, PTT timers, buttons, watchdogs | Configuration (requests), Modulator (queued), rig updates | PTT follows transmissions; what starts ends; the watchdog silences the station |
| Auto sequencing (`processMessage` 9098, `auto_sequence` 7667, `guiUpdate` 8178-8330) | `m_QSOProgress`, `m_ntx`, `m_hisCall`, `m_sentFirst73`, `m_bCallingCQ`, `m_bDoubleClicked`, `logQSOTimer` | one decoded message; a click on one; the start of a transmission; log | decoder output, transmit sequencing, log | log entries are contacts; both sides log; no QSO after QSO unattended |
| Fox and Hound (`houndCallers`, `foxRxSequencer`, `foxTxSequencer` 15107) | the queue, `m_foxQSO`, `m_foxQSOinProgress`, `m_loggedByFox`, strikes | select a Hound, receive, build the slots of one period, time out | decoder output, Fox log | a Hound is in one list and is not forgotten; only worked Hounds are logged |
| Decoder hand-shake (`dataSink`, `decode`, `readFromStdout`, `decodeDone`, `lib/jt9a.f90`) | `m_decoderBusy`, `m_dataAvailable`, flags in shared memory, the pipe | start a decode, read lines, finish, clear a hung decoder | the `jt9` process | the busy flag is true; samples stay while they are decoded; both sides go on |
| Audio chain (`Audio/`, `Detector/`, `Modulator/`) | Modulator state, ring buffers | start, stop, tune, read and write samples | audio thread, transmit sequencing | audio only in a transmission |
| UDP messages (`Network/MessageClient.cpp`, `UDPExamples/MessageServer.cpp`) | server address, pending messages, negotiated schema, client table | heartbeats, time outs, DNS look-up | other programs, over UDP | messages before the look-up are not lost |
| PSK Reporter (`Network/PSKReporter.cpp`) | spot queue, payload, residue, socket | add a spot, send a report, reconnect | a server, over UDP or TCP | a spot is sent once |
| WSPRnet (`Network/wsprnet.cpp`), WSPR scheduling (`WSPR/`) | spot queue, outstanding replies; hopping tables | upload; choose band and transmit period | a web server, transmit sequencing | an upload ends |
| Logbook, models, other web clients, settings dialog, start-up | tables, settings | look-ups, edits | the GUI | not modelled |
| Signal processing (`lib/`), `map65/`, `qmap/` | samples | numerical | | not modelled |

`PROJECT.json` lists every component with what is modelled of it, and under
`hazards` each place where this code is hard to test, with the properties that
cover it, or a note saying why no property does.

### What makes it hard

* **Two threads and two event queues.** Commands are posted to the Transceiver
  objects; their signals are posted back. Each side acts on a state that the
  other may already have changed.
* **Objects replaced under way.** Opening the rig closes the old object and
  creates another; events of the old one are still in the queues.
* **Exceptions in every back end call**, half-way through a slot.
* **Timers**: polls against commands, PTT delays against new transmissions.
* **Two processes and shared memory.** The window and `jt9` signal each other by
  flags that both poll or overwrite, next to samples that are decoded in place.
* **Decodes late and early.** A message may be decoded before or after the next
  transmission has started, and handled with the state of that moment.
* **A lossy channel**: the air. Every step of a QSO may have to be repeated.

## 2. Plan

In order of the weight of what can go wrong on the air. All of it is done:

1. **Rig control**: `Transceiver`, `RigControl`, the abstract `RigLink`; theorems in
   `Transceiver_proofs` and `RigControl_proofs`.
2. **TxSequencer**: `guiUpdate`, `startTx2`, `stopTx`, `stopTx2`, tune, the PTT
   timers and watchdogs, with the Modulator; theorems in `TxSequencer_proofs` and
   `TxTune_proofs`.
3. **FoxHound**: the Fox's callers, queue, QSOs in progress, slots, strikes and the
   13 s timer; theorems in `FoxHound_proofs`.
4. **AutoSeq**: stations that work each other over a lossy channel, shown to
   implement `Qso`, what a contact is; theorems in `AutoSeq_proofs` and `Qso_proofs`.
5. **DecoderIPC**: the window and `jt9`; theorems in `DecoderIPC_proofs`.

Worth adding, in this order: the composition of `TxSequencer` with `RigControl`
(requests that set audio and PTT together), FT4 and contests in `AutoSeq`, the
lists of Fox with calls that are part of others, disk recordings and WSPR in
`DecoderIPC`. Section 10 says why the remaining components are left out.

## 3. The model of rig control

### Modules

* `Transceiver` has no variables. A slot of one Transceiver object is an
  operator from a *context* to a context: the object, the radio, the signals
  emitted so far, and the set `bad` of back end calls that throw in this slot.
  `Throw`, `Try` and `Caught` are the C++ exception: after a throw nothing runs
  until the handler. `Set`, `Start`, `Stop` and `Timeout` are the slots;
  `DoPtt`, `DoFrequency`, `DoTxFrequency`, `DoTune` and `DoPoll` are the Hamlib
  operations, each with the `do_post_*` of PollingTransceiver that follows it.
  The wrapper (`EmulateSplitTransceiver`) and the object it wraps are one object.
* `RigControl` is the system: the GUI thread (Configuration and what MainWindow
  does with rig control), both event queues, and the transceiver thread.
* `RigLink` is the abstract promise of the sequence numbers.
* `MCRigControl` adds the symmetry of the dial frequencies for TLC.
* `Transceiver_proofs`, `RigControl_proofs` hold the lemmas and the theorems.

### State and actions

| Variable | Code |
|---|---|
| `ui` | `Configuration::impl`: `active` `rig_active_`, `cmd` `transceiver_command_number_`, `cached` `cached_rig_state_`, `conns` the objects in `rig_connections_` or still connected |
| `client` | MainWindow: the last state it was told, `m_first_error` |
| `toRig`, `toUI` | the event queues of the two threads, the single shot of `rigOpen` included; one emission to several connected objects is one event with several receivers, handled in the order of connection |
| `emitting` | the signals that the slot being run has still to emit |
| `obj` | the Transceiver objects, with `life` |
| `radio` | dial, transmit dial (`NoFreq`: no split), PTT, `settling` (a read may return the wrong VFO) |
| `env` | counters for the bounds |

`ForcedOpen`, `UserClose`, `ForceReset`, `SetFrequency`, `SetTxFrequency`, `SetPtt`
and `SetTune` are calls in the GUI thread; `HandleUpdate`, `HandleFailure` and
`RetryOpen` its handling of what was posted to it.
`HandleStart`, `HandleSet`, `HandleStop`, `HandleDelete` and `Poll` are the
transceiver thread, one event at a time, run to completion. The GUI thread may
disconnect an object in the middle of a slot: the slot changes the object and
the radio and emits its first signal in one step, and each later signal is a
step of its own (`EmitNext`), posted only if the object is still connected then.
No other event of the transceiver thread runs in between.

A failure closes the rig, which disconnects the object, and `rigFailure` retries once:
`QTimer::singleShot (0, ...)` posts `rigOpen` to the GUI thread itself, so `HandleFailure`
appends a `retry` to `toUI`, *behind* what the object had posted before it was
disconnected, and `RetryOpen` handles it, if the rig is not open by then. After the second
failure a message box comes up; its Retry button opens the rig as `ForcedOpen` does. When
`m_first_error` is set again, at the end of the box, is a choice.

`ForceReset` is `on_calibration_*_valueChanged`, which clears `rig_active_` and
nothing else. The next open then finds nothing to close, so the old object stays
connected: the model has two live objects commanding one radio, as the code has.

### What is abstracted

* A serial CAT rig, not TCI, `data_mode_none` (the mode requested is always
  `UNK`), frequency, split and PTT can be read, VFOs A and B. Nobody changes split
  or PTT at the front panel; the operator may turn the dial.
* A poll either succeeds or throws; a partial poll is followed by `offline`,
  which discards what was read.
* `tune` stands for the group of audio fields that `set()` carries out instead of
  PTT and frequencies. PWR and SWR meters, which differ only in display, are left out.
* `known` is FALSE while mode and split of a state are still `UNK` and unknown:
  they take part in `operator !=` and so in what is signalled.
* Errors of the factory and the modal settings dialog: a failure is always passed
  to MainWindow. What MainWindow then requests to stop a transmission are `SetPtt`
  and `SetTune`, which may happen at any time.
* Calibration and station offsets are added and removed symmetrically and left out.
* The end of the process.

`MaxObjects`, `MaxCommand`, `MaxBacklog`, `MaxResets`, `MaxTunes`, `MaxFaults`,
`MaxTurns` and `MaxMisreads` bound the model; each is a guard of the action that
counts. `MaxBacklog` stops the poll timer while the GUI has that many signals to
handle. `want`, `unkeyFailed`, `truth`, `from`, `cause` and `faulty` are
history: no action of the program depends on them, only properties and bounds do.

## 4. The model of transmit sequencing

`TxSequencer` is the main window's half: who decides that the radio transmits.
The GUI thread is one event loop: `guiUpdate` every 100 ms, five more timers,
buttons, decodes, UDP requests, the answers of the rig. Posted to another thread are
only the signals to the Modulator.

| Variable | Code |
|---|---|
| `ui` | MainWindow: `auto` `m_auto`, `tune` `m_tune`, `tuneButton` the check state of the button, `lastChecked` the static of `on_tuneButton_clicked`, `txTime` `m_bTxTime`, `iptt`/`iptt0` `g_iptt`/`m_iptt0`, `btxok`/`btxok0`, `transmitting`, `txWhenReady`, `blocked`, `idleMinutes`, `ntx` the text that `m_ntx` selects, `msgSent0`, the timers |
| `toMod`, `mod` | signals posted to the audio thread; `Modulator::m_state` and `m_tuning` |
| `rig` | Configuration and the rig: PTT last asked for, PTT, the request on its way |
| `clock` | the part of the T/R sequence: `early` (a start is allowed, `fTR < 0.75`), `late`, `off` |
| `env` | counters for the bounds |

`GuiUpdate` is one call of `guiUpdate`, as the composition of its parts in the
order of the code: `InSequence`, `Guarded` (30 m guard band), `Watched`,
`NothingToSend`, `Start`, `TimeToStop`, `Generate`, `Sent`, `Display`, `StopTx`,
`Latch`. The handlers call each other (`tx_watchdog` calls `stop_tuning`, which
calls `on_tuneButton_clicked`), so they are functions of the window's state:
`OnTuneButton`, `StopTuning`, `OnStopTxButton`, `TxWatchdog`, `OnAutoButton`.
`StopTx2`, `StartTx2`, `EndTuning`, `StopTuneATU`, `Unblock` and `OnTheMinute` are
the timers; `ClickAuto`, `ClickTune`, `ClickStopTx`, `HaltAutoTx`, `Select` and
`AcceptQSO` the operator, decodes and UDP; `RigObeys`, `HandleTransceiverUpdate`,
`HandleTransceiverFailure` and `RigOpen` the rig, which does what it was asked for
last or fails, as `RigControl` promises.

`AcceptQSO` is the entry accepted in the log dialog: it sets `blocked` and, if the
settings say so, clears the DX Call, which selects the CQ (`m_ntx` 6) and
clears Enable Tx unless no QSO was in progress (`clearDX` 10022).

**Time.** A `Tick` may happen at any moment. `NextPhase` is the first tick of the
next part of the sequence. A phase lasts seconds: when it ends, the audio thread has
handled what was posted, and a timer of at most 250 ms (the two PTT timers, the tune
button's, the 50 ms of `blocked`) does not survive a *whole* phase: a timer is
0 (stopped), 2 (started in this phase) or 1 (in the one before), and `NextPhase`
waits for those at 1. The tune watchdog and the minute timer may fire at any time.

**Abstracted.** FT8 with Auto Seq, both watchdogs enabled, one sequence ours and the
next not. Texts are `""` (nothing to send), a 73 and a CQ. `m_bTxTime` is
read only by the `guiUpdate` that assigns it, so it is forgotten at the end of a
tick. `setRig` opens a closed rig when the station is monitoring: either way is
possible. Left out: the branches for WSPR, FST4W, Echo, Fox and SuperFox, TCI
audio, `m_restart`, CW identification, a change of sequence, and the check state
of the Enable Tx button (taken to agree with `m_auto`). `swallowed` is history: a
call of `on_tuneButton_clicked` was ignored because of `blocked`.

## 5. The model of Fox and Hound

`FoxHound` is the window of a Fox. One action per operation:

| Action | Code |
|---|---|
| `HoundCallers` | `houndCallers` 14976: which decoded callers are listed |
| `SelectHound`, `QueueActiveWindowHound` | `selectHound` 14932, `queueActiveWindowHound2` 6142: into the queue |
| `EraseQueue`, `EraseCallers` | Erase in the context menu of either window (`displaytext.cpp` 68), a change of font (2276) |
| `ClickQueue`, `ClickInProgress` | `doubleClickOnFoxQueue` 15369, `doubleClickOnFoxInProgress` 15406 |
| `FoxReset` | the reset button, a change of band |
| `FoxRxSequencer` | `foxRxSequencer` 15070: R+report from a Hound |
| `StartTx`, `Restart` | `guiUpdate` calls `foxTxSequencer` 15107 (`Transmit`: with or without a free text, a one-time password, or with a CQ alone); `Restart` is Halt Tx and Enable Tx within one period |
| `LeaveInProgress` | the 13 s single shot of a logged Hound, 15273 |
| `EndPeriod` | 15 s |

The variables have the names of the members. `leaving` is the set of running single
shots, `shown` the left window, `queueText` the lines in the window of the queue, `air` the
present transmission. `answered`, `overtaken`, `hidden` and `interventions` are history.

`queueText` is a variable because the code reads it: `selectHound` and `houndCallers` test
for a queued Hound in the *text* of that window (14944, 15022), only
`queueActiveWindowHound2` in the queue. The window is rewritten from the queue
(`Displayed`), written by `selectHound` (`TextWith`), or erased, which leaves the queue
alone. `hidden` has the Hounds that were queued when it was erased.

A blank line is the empty call, 0. A click with Alt puts it on top of the queue, even when
the queue has none, and it is called like a Hound; a click on a blank line of the QSOs in
progress makes a record of it.

`FoxTxSequencer` is cut as the function is: `List1` (calls to be sent RR73, chosen in
three rounds over the keys of the map), `Repeated` and `Dequeued` (calls to be sent a
report, from the QSOs in progress and from the queue), then the records after sending
(`Sent`), strikes (`Struck`), and what is removed (`Finished`). `QMap::operator[]`
inserts a record for a call it does not find: `At`, `With` and `DefaultQSO` say where. The
free text and the one-time password of a Fox take a slot each (`Texts`); in SuperFox mode they
are sent beside the slots.

**Abstracted.** No call is part of another (the code searches text in several places).
Which callers are accepted (band, continent, call area, SNR, age) is any subset. When a
CQ or a one-time password is due is any choice; texts and the composition of compound messages are left
out, as are the log dialog, the FT8 verification messages and the Hound's own half
of the mode, which is that of the next section with other frequencies.

## 6. The model of a QSO

`AutoSeq` has two or more stations that all run the program in FT8, and the channel.
`st[s]` is the window of station `s`: `auto` `m_auto`, `ntx` `m_ntx`, `progress`
`m_QSOProgress`, `dx` the DX Call, `txFirst`, `callingCQ` `m_bCallingCQ`,
`doubleClicked`, `selected` (a caller was picked in this period), `restart`
`m_restart`, `logTimer` `logQSOTimer`, `stopWRTimer`, `idle` the Tx watchdog,
`last73` that the last message had 73 (`m_lastMessageSent`), `msgSent0`.

| Definition | Code |
|---|---|
| `StartTx`, `Restart` | `guiUpdate`: start, generate the message (`Generate` 8178-8330), rising edge (`Display`) |
| `Decode` | the part of `readFromStdout` for one line: `WaitAndReply`, `CqFirst`, `AutoSequence` 7667, each of which may call `ProcessMessage` 9098 |
| `LogQSO` | `on_logQSOButton_clicked` by the timer, entry accepted |
| `TxWatchdog`, `StopWRTimeout` | the watchdog, the eight periods of Wait & Reply |
| `EnableTx`, `StopTx`, `DoubleClick` | the operator |
| `NextPeriod` | 15 s; stations that did not transmit get what was on the air |

A message is transmitted in one period and decoded in the next, before or after the
receiver's own transmission has started: a message decoded late changes a transmission
under way (`Restart`). A message that is in `inbox` when the period ends is lost.
`got`, `confirmed`, `news`, `logs`, `manual` and `disturbed` are history.

`Qso` says what a contact is, with two actions: `Hear` (a station hears a report or
a confirmation of another) and `Enter` (it logs the other, when each has the
other's report, the other confirmed, and something new was heard since the last
entry). `ImplementsQso` maps the history of `AutoSeq` to it.

**Abstracted.** FT8, standard calls none of which is part of another, Auto Seq and
Tx1 enabled, automatic logging accepted at once, no Wait & Call and no Wait & Pounce, no
quick call; clicks on messages of the present period. Whether two signals are within the
tolerance in frequency is a choice (`near`). `m_bAutoReply` is FALSE in all of the
modelled paths and left out; the value of `m_sentFirst73` cannot be seen by
`auto_sequence`, since Enable Tx is off after a 73.

## 7. The model of the decoder hand-shake

`DecoderIPC` is the window and the process `jt9`, interleaved step by step.

| Variable | Code |
|---|---|
| `busy`, `available` | `m_decoderBusy`, `m_dataAvailable` |
| `schedule`, `mark` | the half-symbols of a period at which `dataSink`, or seconds at which `guiUpdate`, clear a hung decoder or start a decode |
| `start`, `done` | `ipc[1]`, `ipc[2]` in shared memory |
| `pc` | `jt9a.f90`: loop 10 (idle), decoding, loop 100 (waiting) |
| `finished`, `ready` | `<DecodeFinished>` lines in the pipe, `readyRead` due |
| `polled`, `late` | jt9 polls every 10 ms, marks are at least 0.28 s apart; how often output waits longer than that |
| `torn`, `disturbed` | history: samples replaced while they are decoded; the flag was forced and nothing has come to rest |

The window's actions are `Mark`, `ReadFromStdout`, and the operator's `ClickDecode`,
`RightClickDecode`, `ToggleCQOnly`, `SwitchToFT2` and `ChangeMode`; the process has
`PollStart`, `Output`, `Finish` and `PollDone`. Nobody reads `ipc[0]`, so to "allow jt9
to bail out early" changes nothing: it is not a variable.

**Abstracted.** The samples and the text of decodes; recordings read from disk; WSPR and
its process; the fast modes, which are decoded in the window's own process; the end of
`jt9`.

## 8. Runs

| Run | Bounds | What it shows |
|---|---|---|
| `rig_safety` | 2 frequencies, all split modes, 2 objects, 3 commands, 1 fault (one call or a call and the unkeying after it), 1 forced reset, 1 tune | `TypeOK`; `AnswerIsCurrent`; `NoOrphanPtt`; `EventsReachLiveObjects`; `NothingStaleAfterRetry`: whatever a failed object has posted is handled before the automatic retry; `ImplementsRigLink`. About 2.3 million states. |
| `rig_liveness` | all split modes, 2 objects, 2 commands, 2 stabilisation polls, 1 fault, 1 dial turn, 1 misread | `HoldOffHidesMisreads`: in a run that is `Undisturbed`, a misread dial frequency is never signalled by a poll; `CommandAnswered`, `DialFollowed`, `ClosedIsUnkeyed` under `FairSpec`. About 460 000 states. |
| `rig_ping_pong` | no fault, no operator | a violation of `NoPingPong`: see the findings |
| `tx_sequencer` | 3 texts, watchdog of 2 minutes, 2 acts, 1 incident, 2 signals to the audio thread | `StopIsArmed`, `NoStuckPtt`, `TuneExcludesAuto`, `CarrierOnlyInTune`, `WatchdogStops` and, under `FairSpec`, `TransmissionEnds`, `TuneEnds`, `FallsSilent`. About 300 000 states. |
| `tx_tune_watchdog` | 1 act, 1 incident | a violation of `TuneWatchdogEndsTune`: see the findings |
| `tx_late_audio` | 2 acts, no incident | a violation of `AudioOnlyInTransmission`: see the findings |
| `fox_hound` | Fox with 1 slot and SuperFox with 2, 2 Hounds and blank lines, a queue of 2, 2 strikes, 4 transmissions, time-outs after 1 and 2 transmissions, 1 intervention (a reset, restart, erasure or click on a blank line) | `InOnePlace` and `LogsOnlyWorked`, with the exception of Hounds that were queued when the window of the queue was erased; `FitsSlots`, `UnansweredIsCalled`. About 820 000 states. |
| `fox_erased` | 1 Hound, no blank lines, SuperFox with more reports listed than slots when a free text is sent | a violation of `RR73AfterReport`: see the findings |
| `auto_qso` | 2 stations with any mix of the settings, watchdog of 3 periods, 2 acts of one operator and 1 of the other | `ImplementsQso`, `NoConsecutiveQsos`, and under `FairSpec` `NoEndlessQso`, `PartnerLogs`. About 470 000 states. |
| `auto_second_sign_off` | 3 stations with the usual settings | a violation of `SigningOffLogs`: see the findings |
| `decoder_ipc` | FT8, FT8 above 45 MHz and one other mode, 3 acts, output late 3 times | `BusyIsTrue`, `SamplesStay`, and under `FairSpec` `DecodeEnds`, `RequestTaken`. About 32 000 states. |
| `decoder_told` | a mode other than FT8, no operator, nothing late | a violation of `ToldGoesOn`: see the findings |

**Why the bounds are enough.** Rig control: two objects are an old and a new instance,
and two live ones after a forced reset. Three commands are an open, a request and one
that overtakes its answer; in `rig_liveness` two are an open and a change that is held
off. There are fewer misreads than polls because with as many the premise of
`HoldOffHidesMisreads` is false: the last poll is signalled as it is. A forced reset is left
to `rig_safety`, since with two live objects one holds nothing off for the other.

In `tx_sequencer` two acts are an act and one that undoes or overtakes it (Tune
and Halt Tx, Enable Tx and another message); an incident is a rig failure or a QSO
accepted in the log dialog, the two things that happen to the operator; two signals let
a stop be posted behind a start that the audio thread has yet to handle; a watchdog of
one minute would be due at the first minute, whatever reset it before. Ticks, phases and
minutes are not bounded.

Two Hounds compete for one slot, in the lists and in the transmission; four
transmissions are a call, the RR73, and the Hound's next QSO or its time-out, for
which `m_maxFoxWait` is 1; the course of `fox_erased` takes three. A SuperFox with free text
takes 4 Hounds for 2 slots, so that some are in progress before their first report:
`fox_erased` has 2 for 1, `fox_hound` 1 for 1, the theorems any numbers. In
`auto_qso` three acts let either station start the QSO, and one of them be halted, or
started again, or another message be clicked; a watchdog of three periods is longer than
each step of a QSO takes, so that a QSO with a loss can still complete. Periods are
unbounded. In the decoder three late outputs let a decode end before the last line of
the one before has been read, and a mark come between; three acts are a change of mode
and two clicks. Periods and decodes are unbounded.

Deadlock is checked where the clock always runs. It is not checked in the runs of rig
control: a rig that is closed, with both queues empty and the bounds used up, has
nothing to do.

**Fairness.** Qt event loops handle every posted event, and a running QTimer fires
again and again, so a non-empty queue is served and a poll that would change
something takes place. Nothing is assumed of the user, the operator or the faults.
The conjuncts of `Fairness` are written out instead of `WF_vars(A)`: `ENABLED
<<Poll(i)>>_vars` would hold for ever because a *fault* is always possible while the
bound allows it, so weak fairness would force a fault; written out, the condition is
that a poll *without* a fault would change something.

In `TxSequencer` the clock, the timers, the rig's answers and the audio thread are
fair; clicks, decodes, accepted QSOs and rig failures need never happen, and a rig
that failed need never open again. `Tick` needs no fairness, since `NextPhase`
includes one.

In `AutoSeq` periods pass (`NextPeriod`), and 0 ms timers and the tick of a watchdog that is
due take place: `NextPeriod` waits for these, so that a QSO cannot outrun them. That a station
*starts* a transmission is not assumed (`disturbed` remembers when it did not), nor that
a message is decoded, nor anything of the operators. In `DecoderIPC` the receiver runs
(`Mark`), `readyRead` is handled, jt9 polls its flags and every decode ends. Nothing is
assumed of the operator or of output before the end. `FoxHound` has no liveness: all
that drives it is the operator and the channel.

**Mutants.** Each property of a passing run has a faulty variant of a definition (it
stands next to the definition, marked so) which makes TLC find the property
violated: a poll counter decremented below zero, a request without a new number, a
shutdown that forgets PTT, a close that forgets to disconnect or disconnects too
early, an answer passed on whatever its number, a change that spends no polls, an
update that is not forced, a passive change that is not signalled, a retry that overtakes
what is posted; a stop that starts
no timer to lower PTT, a latch that is not remembered, a Tune that leaves Enable Tx
on, a watchdog that only clears Enable Tx or is reset by every transmission, a
sequence that ends without ending the transmission; a Hound left in the list it was taken
from, a free text that takes no slot, a report not waited for, a timer that takes the head
of the list, an unset time that is not the one tested for; any report taken for
R+report, a 73 that raises no log, a log entry that leaves Enable Tx on, a watchdog off
by one or reset by every transmission; a decode started although one runs or not noted as
running, a hung decoder left alone, output taken for the end, a jt9 that is not told.

### Findings

* **jt9 waits for ever.** `decodeDone` (5913) "tell[s] jt9 we know it has finished" by a flag
  that jt9 looks at every 10 ms. `decode` copies all parameters over shared memory, flags first
  (5798), and so clears a flag not yet seen. `decoder_told` shows a decode that starts within these
  10 ms: jt9 waits for the end of the old decode, the window for that of the new one. In FT8
  the next period clears the decoder (`DecodeEnds`, `RequestTaken`); in other modes only
  the operator does.
* **The second sign-off is not logged.** The user guide says that the log dialog comes up "when you
  send a message containing 73". `guiUpdate` (8282) raises it only when the message before
  was none, whoever it was for: `auto_second_sign_off` shows a station that sends RR73 to
  one caller, is double-clicked onto the R+report of another and sends RR73 to that
  one without an entry.
* **A Hound queued twice.** `foxTxSequencer` takes it that "we received R+rpt" (15191) from
  those it sends RR73, and `selectHound` means not to "add a call already enqueued" (14943), but
  looks for it in the text of the queue's window. `fox_erased` shows a Hound queued, the window
  erased, and the Hound listed and queued again: it gets in progress twice, with one record. Struck
  out, here by a click, it loses the record and one of the two lines (15340-15341), the display of the other
  inserts a record by `operator[]` with a report time of 0 (15101), and the next transmission
  sends RR73 and logs a Hound that has answered nothing.
* **Ping-pong.** `Transceiver.hpp:217-222` says sequence numbers serve to ignore
  updates until a transaction has been processed, "avoiding any unwanted ping-pong".
  `handle_transceiver_update` merges frequency and split of *every* update into the
  cache before it looks at the number, and the next request posts the whole cache:
  `rig_ping_pong` shows a PTT request that reverts the QSY before it, so that the
  radio transmits on the old frequency.
* **The tune watchdog can be swallowed.** `on_tuneButton_clicked` returns while
  `blocked` is set, for 50 ms after `acceptQSO`. `stopTuneATU` stops its timer and
  then calls it: `tx_tune_watchdog` shows a Tune that nobody ends, although the
  release notes say of this watchdog "it protects your Rig!". The other properties
  about Tune hold as long as no call was swallowed.
* **Audio after the transmission.** Nothing stops `ptt1Timer`, and `startTx2` does not
  look at `g_iptt`, although the Tx delay is for a station "waiting to Tx and
  still needed": `tx_late_audio` shows the message started after its transmission
  has been stopped. The rig is unkeyed 200 ms after the stop, so no more than that
  is radiated; but the Modulator then stays active in its padding (in FT8 `m_amp`
  never reaches 0), and the next transmission, if nothing stops the Modulator
  before, is keyed without audio.

**Observations** that no document contradicts, or that lie outside the instances:

* *Fox.* A click on a blank line of the QSOs in progress makes the empty call look like one
  that was called too often, and the next transmission may send it RR73; one with Alt on a
  blank line of the queue gives it a QSO and a slot. The log never gets it. A Hound queued again within
  13 s of a restarted transmission is removed by the timer of its last QSO and stays in the
  map (`overtaken`). A Hound whose R+report arrives in the last cycle allowed is
  dropped by its strikes. `queueActiveWindowHound2` removes the caller from the left window
  even when the queue is full.
* *QSO.* A 73 of a third station near our frequency re-addresses Tx3, despite the comment at
  9549. With more than two stations, a decode between the end of a QSO and its 0 ms
  log timer can change the DX Call that is logged. A click on a 73 leaves
  `m_bDoubleClicked` set for the next message. A click on an old message can log a
  contact again.
* *Rig.* A failing object posts a failure and an offline update, and either closes the rig
  whichever object sent it (only the TCI branch compares sequence numbers). The automatic
  retry comes after both (`NothingStaleAfterRetry`); a forced open from the settings
  dialog is not ordered behind the queue, and may be closed by an event of the old object.
  A request that changes both frequencies sets only the first
  (`TransceiverBase.cpp:160`); it takes a ping-pong to get there.

## 9. Proofs

### Rig control

`tlapm` proves, for every value of the constants that satisfies
`ConstAssumption`, `ModesAssumption` and `BoundAssumption` (frequencies and their
null value are distinct, the numbers are naturals, the split modes are the
code's three):

| Theorem | Statement |
|---|---|
| `Inductive` | `Spec => []IInv` |
| `TypeCorrect` | `Spec => []TypeOK` |
| `AnswersAreCurrent` | `Spec => []AnswerIsCurrent` |
| `PttHasOwner` | `Spec => []NoOrphanPtt` |
| `NoEventForTheDead` | `Spec => []EventsReachLiveObjects` |
| `RetryComesLast` | `Spec => []NothingStaleAfterRetry` |
| `LinkImplemented` | `Spec => Link!LinkSpec` |
| `MisreadsStayHidden` | `Spec => []HoldOffHidesMisreads` |

The bounds do not weaken these: they are constants with no upper limit.

**The inductive invariant** `IInv` is `TypeOK /\ QueueInv /\ SignalsBehind /\
NoOrphanPtt`.

* `QueueInv` is about the command queue: numbers increase along it and lie
  between what an object has carried out and the last number issued; an
  object's `stop` comes after all its commands and only its `delete` after that;
  a connected object has neither; receivers are live. It says why nothing
  reaches a deleted object, and why an object carries out commands in order.
* `SignalsBehind` relates the queues: every signal in `toUI` or `emitting`
  carries a number not above what its sender has carried out. With `QueueInv`
  this gives `AnswerIsCurrent`: if the number is the last one issued, the
  sender has nothing left.
* `NoOrphanPtt` is inductive with the types: keying requires that the object is
  online, and each way offline goes through `Unkey`.

`Transceiver_proofs` shows once for each operator of a slot what the system
needs of it (`Calling`, `Follows`, `Stamped`, `SamePtt`): it keeps the types, the
signals it adds carry the object's number, and it changes PTT only where it says so.
Each action of `RigControl` is then a short lemma. `LinkImplemented` has one lemma
for each kind of step: opening issues one or two numbers, a slot carries
one out, an answer tells.

**The retry.** `RetryComesLast` rests on `RetryInv`: without an edit of the calibration a
rig that is not open has no object connected, every connected object is younger than each
failure whose retry is posted, and nothing that stands behind a retry in `toUI` comes from an
object as old as that failure. It needs `IInv` only for the types. The exception is
real: the edit clears `rig_active_` alone, so the old object stays connected.

**The hold-off.** `MisreadsStayHidden` is about the polls: "clients don't see intermediate
states". What is claimed had to be made precise before it could be proved. With two live
objects, after a calibration reset, one holds nothing off for the other. A split done by the
rig is less robust, for which TLC gave two counterexamples:

* Transmitting, its polls do not read the dial. A misread of before the transmission becomes
  the frequency expected when the count of polls ends in it, and the same misread after the
  transmission is then signalled at once, as what was expected. So two misreads suffice,
  however many polls there are.
* A poll fails and so does the unkeying: `next_state_` keeps the transmit frequency. When the
  same one is asked for again nothing new is expected, and `do_post_tx_frequency` leaves the
  count where it was. So one fault and one misread can suffice.

`Undisturbed` excludes these: no dial turn, no reset, fewer misreads than polls and, with the
split done by the rig, at most one and that without a fault. `rig_liveness` checks
it with 2 polls, one misread and one fault; the theorem has any number of polls, objects and
requests, of misreads below the number of polls, and of faults where the rig does not split.

The inductive invariant is `IInv /\ FaithfulInv`, and the latter says, of an undisturbed run:

* `Succession`: objects take the radio over in the order of their creation; an object
  disconnected but online has its `stop` in the queue, and no event for an older object comes after one
  for a younger. So a poll is always that of the one object that drives the radio
  (its `Owner`), which is what lets an object know anything.
* `Faithful`, of that object: what it remembers of dial, split and PTT is what the radio has,
  *or* misreads have been counted; while the radio settles, the polls left and the misreads counted
  are at least `PollsToStabilize` together (`MisreadsOutlasted`). The last says that every
  request that unsettles the radio restarts the hold-off. With the split done by the rig, `ChangesHeld`
  has the count complete as long as nothing was misread.
* `RadioLeft`: a radio that no object is connected to is left without a split, so the next object starts from
  what it believes.
* `Truthful` for all signals on their way.

`Transceiver_proofs` has, for each call, what it does field by field (`...Effect`) and
that it keeps `Base`, the part of `Faithful` that survives an exception; a slot is put together
from these (`SetFaithful`, `StartFaithful`, `StopFaithful`, `TimeoutFaithful`).
`RigControl_proofs` shows that the queue keeps the `Succession`, one lemma for each way to
post and to handle, and then one lemma for each action.

### Transmit sequencing

For every set of messages with the three texts above, every watchdog time above zero
and every bound (`MessagesAssumption`, `WatchdogAssumption`), `TxSequencer_proofs`
has

| Theorem | Statement |
|---|---|
| `Inductive` | `Spec => []IInv` |
| `TypeCorrect` | `Spec => []TypeOK` |
| `StopArmed` | `Spec => []StopIsArmed` |
| `PttIsNotStuck` | `Spec => []NoStuckPtt` |
| `WatchdogWorks` | `Spec => WatchdogStops` |

and `TxTune_proofs`, which extends it,

| Theorem | Statement |
|---|---|
| `TuneInductive` | `Spec => []TInv` |
| `TuneIsExclusive` | `Spec => []TuneExcludesAuto` |
| `CarrierIsTune` | `Spec => []CarrierOnlyInTune` |

**The inductive invariant** `IInv` is `TypeOK /\ Armed(ui) /\ PttFollows(ui, rig)`.
`Armed`, which is `StopIsArmed` of any window state, says that between two ticks
`g_iptt`, `m_transmitting`, `m_iptt0` and `m_btxok0` agree, although each is assigned
at another place of `guiUpdate`. `NoStuckPtt` is not inductive: `PttFollows` says
what makes it so, that PTT is *asked for* only during a transmission or until
`ptt0Timer` fires, and that a keyed rig was asked to key or has a request on the way.

Every handler other than a tick is shown to satisfy `Keeps`, which changes of
a transmission at most `m_btxok`, and `Keeps` preserves `Armed` and `PttFollows`
(`KeepsArmed`). A tick is cut as the code is: the parts before the start keep
(`ReadyKeeps`), a start raises `g_iptt` (`StartRises`), the rising edge of the same
tick shows it (`Shown`), the falling edge stops and the latches are set
(`Latched`); `TickKeeps` puts these together. `WatchdogWorks` uses `DueTick`: after
`tx_watchdog (true)` nothing can start, `m_btxok` is cleared, and by `Armed` the
falling edge is seen in that very tick. `AgedKeeps` is why `NextPhase` must not
lose `ptt0Timer`.

**The invariant of Tune** `TInv` is `Linked(ui) /\ Tells(mod, toMod, ui.lastChecked)`.
Neither property about Tune is inductive, because the window and the Modulator agree only
after the signals posted have been handled. `Tells` says what they agree on: the
last "tune on" or "tune off" in the queue or, if there is none, the Modulator itself is what
the static `lastChecked` of `on_tuneButton_clicked` remembers. `Linked` says that
`lastChecked` implies Tune unless a call was swallowed. A handler `Tunes` if it posts a
signal exactly when it changes `lastChecked`, and is `Quiet` if it has nothing to do with
Tune. `TellsTuned`, `TellsOther` and `TellsHead` are the facts about the queue, for one of
any length; the bound `MaxBacklog` plays no part in them. `swallowed` is needed: the
run `tx_tune_watchdog` shows a Tune that outlives the call that should have ended it.

### Fox and Hound

For any number of Hounds, slots, strikes, transmissions and interventions
(`HoundsAssumption`, `SlotsAssumption`, `LimitsAssumption`), with or without blank
lines, `FoxHound_proofs` has `TypeCorrect`, `OnePlace` (`Spec => []InOnePlace`),
`UnansweredCalled` (`Spec => []UnansweredIsCalled`) and `OnlyWorkedLogged`
(`Spec => LogsOnlyWorked`).

`IInv` is `TypeOK`, `InOnePlace`, `UnansweredIsCalled` and three facts more. `QueueShown`: the
window of the queue shows the Hounds of the queue but for those in `hidden`, and no others;
this is what the tests of `selectHound` and `houndCallers` are worth, so `InOnePlace` rests on
it, and an erasure is the one step that must add to `hidden`. `ReportsAreAnswers`: a record
with a time of R+report belongs to a Hound that answered in this QSO, or is in `hidden`,
which is what makes `List1`, chosen by that time, safe; it needs `InOnePlace` because a strike-out
must leave no line without its record, and a fresh record must replace none in the map that
still counts. `TimersAreForAnswered`: a timer runs for a Hound that answered, or that was
queued again. `SelectedFacts` and `CutFacts` are about the list operators, the lemmas
after them about the parts of `FoxTxSequencer`.

`SlotsSuffice` (`Spec => []FitsSlots`) is a step property written as an invariant: what is on
the air was composed by one call of `foxTxSequencer`. Its core is `RankBound`: of the
members of a finite set in a strict order, those with fewer than n before them are at most n. From it
follow the bounds of the list of RR73s (`List1Bound`), of reports repeated
(`RepeatedBound`) and of reports in all (`ReportsBound`). The 5 slots of a SuperFox in
the code, 2 when a free text is sent, appear as `SuperSlotsMsg < SuperSlots` in
`SlotsAssumption`.

### A QSO

`AutoSeq_proofs` proves `TypeCorrect` for any set of stations, settings and patience: every
handler maps a window to a window. The strengthening is that a station whose message is to be
restarted has a DX Call, without which the message would be addressed to nobody.
`Qso_proofs` proves `EntriesAreContacts` of the abstract specification: who has logged a
station has its report and its confirmation, and the station has its report.

For two stations (`Two`), with any settings, parities, patience and numbers of acts:

| Theorem | Statement |
|---|---|
| `TwoStationsImplementQso` | `Two /\ Spec => ImplementsQso` |
| `TwoStationsNeedOperators` | `Two /\ Spec => NoConsecutiveQsos` |
| `TwoStationsLogContacts` | `Two /\ Spec => []P!LoggedIsWorked`, `EntriesAreContacts` of the program's log |

**The inductive invariant** `QInv` adds `QsoInv` and `Attended` to `IInv`. TLC checked both
before the proof, on all states of an instance with three acts and on random behaviours of up to
twenty with all settings. `QsoInv` has four parts, each needed by the next:

* `Channel`: in a period one station hears the other and not the reverse; what a station has yet
  to decode is what the other one has *selected*, because a sender may change its message
  only while it transmits (`restart`), that is, in its own period.
* `NoCross`: no station signs off (Tx5) while the other sends R+report (Tx3).
* `Knowledge`: a message or a window that implies a report or a confirmation tells the truth; who
  sends R+report has the report, who sends RRR, RR73 or 73, or has the log timer running, has
  both and its own confirmed, and its DX Call is the partner.
* `OncePerNews`: a station that has logged all it heard is `Spent`, it cannot raise another
  entry without hearing something new; and while the log timer runs, what is still
  to be decoded cannot make it send RRR (`Logging`). This is the delicate
  part: a second R+report, decoded after the transmission of RR73 began, selects Tx4
  again, and only `last73`, the message on the air, keeps the restart from asking for a second entry.

`Attended` says that a station without the Wait features whose operator did nothing since its last
entry has Enable Tx off, no log timer, and at most a restart that will not start one.

The handlers come in three sorts, and only these are looked at afterwards: `Sends` (`StartTx`,
`Restart`), `Takes` (`Decode`, `DoubleClick`: the composition of `WaitAndReply`, `CqFirst` and
`AutoSequence` reacts to a message once, `ReactedTwice`), `Rests` (the others). For each sort there
is a lemma for each part of the invariant; `StepKeeps` puts them together with the step of `Qso`.

*Why two.* With three stations the statement is false in the model, which a simulation with TLC
shows: b receives 73 from a, which starts the log timer of 0 ms, but before it fires b's
next CQ starts and the line of c that follows in the same period is decoded; the DX Call is c's when
the entry is made. In the program the timer has little room to be late, so
this says more about the interleavings the model allows than about the code,
and the claim about more stations is not made.

### The decoder hand-shake

`DecoderIPC_proofs` proves `TypeCorrect`, `BusyTrue` (`Spec => []BusyIsTrue`) and
`SamplesKept` (`Spec => []SamplesStay`) for every schedule and bound. `IInv` is
`TypeOK /\ BusyIsTrue /\ TornDecoding`, the last one saying that torn samples are being
decoded since a disturbance. A disturbance is forgotten only when both sides are at rest, where
`Outstanding` is 0 and the flag clear: so the exception in `BusyIsTrue` is one that ends.

### Only model-checked

Liveness (`CommandAnswered`, `DialFollowed`, `ClosedIsUnkeyed`, `TransmissionEnds`,
`TuneEnds`, `FallsSilent`, `NoEndlessQso`, `PartnerLogs`, `DecodeEnds`, `RequestTaken`) is beyond
the prover. Every invariant and action property of the passing runs is proved: those of
rig control, transmit sequencing, Fox and Hound and the decoder for every
value of the constants, those of a QSO for two stations.

## 10. Not modelled

* **UDP messages, PSK Reporter, WSPRnet.** Independent of the transmitter. What the UDP
  client does depends on the remote programs, of which the repository has an example;
  whether a spot fits a datagram is decided by the length of every field, so a
  model of PSK Reporter would count bytes; WSPRnet is a queue and HTTP replies. Their
  hazards are listed.
* **WSPR scheduling.** Tables and random draws, no state shared but the choice.
* **Other back ends, TCI.** Other protocols under the same template methods; TCI has an event
  loop of its own. Rigs whose state cannot be read.
* **The settings dialog, logbook, models, downloads, start-up**: windows, tables, input and
  output, with little state that several actors share.
* **Process exit.** `~impl` quits the transceiver thread without waiting for `finished`;
  what is left of the posted events is decided inside Qt. Listed as a hazard.
* **Other modes of operation** in the modelled components: WSPR, FST4W, Echo, Fox and SuperFox
  branches of `guiUpdate`, contests, FT4 and MSK144 in auto sequencing.
* **Signal processing**, MAP65 and QMAP: numerical, or separate programs.
