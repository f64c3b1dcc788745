----------------------------- MODULE RigControl -----------------------------
(***************************************************************************)
(* Rig control of WSJT-X: MainWindow asks Configuration (GUI thread) for   *)
(* frequencies, PTT and tuning; Configuration numbers every request, keeps *)
(* a cached rig state, and posts it to the Transceiver objects connected   *)
(* to it, which live in the transceiver thread and post their signals      *)
(* back.  Both directions are Qt event queues: what has been posted is     *)
(* delivered, also after a disconnect; what is emitted after it is not     *)
(* posted.                                                                 *)
(***************************************************************************)
EXTENDS Transceiver, FiniteSets

CONSTANTS Modes,        \* the split modes a user may have configured
          MaxObjects,   \* bound: Transceiver objects ever created
          MaxCommand,   \* bound: command numbers issued
          MaxBacklog,   \* bound: signals the GUI has not yet handled when
                        \*   the poll timer fires
          MaxResets,    \* bound: edits of a calibration value
          MaxTunes,     \* bound: requests to the tuner of the rig
          MaxFaults,    \* bound: slots in which a back end call throws
          MaxTurns,     \* bound: turns of the dial by the operator
          MaxMisreads   \* bound: polls that read a wrong dial frequency

ASSUME ModesAssumption == Modes \subseteq SplitModes

ASSUME BoundAssumption == MaxObjects \in Nat

VARIABLES ui,       \* Configuration::impl
          client,   \* MainWindow: what it was told, and m_first_error
          toRig,    \* events posted to the transceiver thread
          toUI,     \* events posted to the GUI thread
          emitting, \* signals that the slot being run has yet to emit
          obj,      \* the Transceiver objects
          radio,    \* the radio
          env       \* history: what the bounds below count

vars == <<ui, client, toRig, toUI, emitting, obj, radio, env>>

Objects == 1..MaxObjects

\* One emission of set_transceiver, start_transceiver or stop_transceiver is
\* an event for every connected object; delete is the deferred deletion.
Event == [op : {"set", "start", "stop", "delete"}, to : SUBSET Objects,
          state : TransceiverState, seq : Nat]

\* What rig control keeps in Configuration::impl.  want is history: the dial
\* frequency last asked for through setRig.
Configuration == [active : BOOLEAN, cmd : Nat, cached : TransceiverState,
                  created : 0..MaxObjects, conns : SUBSET Objects,
                  splitMode : SplitModes, want : Freqs \cup {NoFreq}]

Command(m) == m.op \in {"set", "start"}

-----------------------------------------------------------------------------
(* The GUI thread.  u is the Configuration before the call.                *)

Post(op, u, state) ==
  IF u.conns = {} THEN <<>>
  ELSE <<[op |-> op, to |-> u.conns, state |-> state, seq |-> u.cmd]>>

\* Faulty variant: nothing is disconnected.
CloseRigConnected(u) == IF u.active THEN [u EXCEPT !.active = FALSE] ELSE u

\* close_rig: nothing happens unless rig_active_.
CloseRig(u) ==
  IF u.active THEN [u EXCEPT !.active = FALSE, !.conns = {}] ELSE u

\* Faulty variant: disconnected before stop_transceiver is emitted.
CloseEventsLate(u) == IF u.active THEN Post("stop", CloseRig(u), Offline) ELSE <<>>

CloseEvents(u) == IF u.active THEN Post("stop", u, Offline) ELSE <<>>

\* open_rig: close, create and connect a new object, start what is connected.
OpenRig(u) ==
  [CloseRig(u) EXCEPT !.active = TRUE, !.cmd = @ + 1, !.cached = Offline,
                      !.created = @ + 1, !.conns = @ \cup {u.created + 1}]

OpenEvents(u) == CloseEvents(u) \o Post("start", OpenRig(u), Offline)

CreateObject(u) == [obj EXCEPT ![u.created + 1] = NewObject(u.splitMode)]

CanOpen(u) == u.created < MaxObjects /\ u.cmd < MaxCommand

\* Faulty variant: the command number is not incremented.
RequestingUnnumbered(u, state) ==
  [u EXCEPT !.cached = [state EXCEPT !.online = TRUE]]

\* Every request: online, one field changed, the next command number.
Requesting(u, state) ==
  [u EXCEPT !.cached = [state EXCEPT !.online = TRUE], !.cmd = @ + 1]

RequestEvents(u, state) ==
  LET v == Requesting(u, state) IN Post("set", v, v.cached)

-----------------------------------------------------------------------------

Init ==
  /\ ui \in [active : {FALSE}, cmd : {0}, cached : {Offline}, created : {0},
             conns : {{}}, splitMode : Modes, want : {NoFreq}]
  /\ client = [state |-> Offline, seq |-> 0, firstError |-> TRUE]
  /\ toRig = <<>>
  /\ toUI = <<>>
  /\ emitting = <<>>
  /\ obj = [i \in Objects |-> [NewObject("none") EXCEPT !.life = "none"]]
  /\ radio \in [freq : Freqs, tx : {NoFreq}, ptt : {FALSE},
                settling : {FALSE}, unkeyFailed : {FALSE}]
  /\ env = [resets |-> 0, tunes |-> 0, faults |-> 0, turns |-> 0, misreads |-> 0]

\* The settings dialog and the Test CAT button: a forced open.  The Retry
\* button of MainWindow's message box opens the rig in the same way, unless it
\* is open.
ForcedOpen ==
  /\ CanOpen(ui)
  /\ ui' = [OpenRig(ui) EXCEPT !.want = NoFreq]
  /\ toRig' = toRig \o OpenEvents(ui)
  /\ obj' = CreateObject(ui)
  /\ UNCHANGED <<client, toUI, emitting, radio, env>>

\* transceiver_offline: the main window closes the rig.
UserClose ==
  /\ ui.active
  /\ ui' = CloseRig(ui)
  /\ toRig' = toRig \o CloseEvents(ui)
  /\ UNCHANGED <<client, toUI, emitting, obj, radio, env>>

\* A calibration value was edited: rig_active_ = false, and that is all.
ForceReset ==
  /\ ui.active
  /\ env.resets < MaxResets
  /\ ui' = [ui EXCEPT !.active = FALSE]
  /\ env' = [env EXCEPT !.resets = @ + 1]
  /\ UNCHANGED <<client, toRig, toUI, emitting, obj, radio>>

\* MainWindow::setRig: the rig is opened if it is not, then transceiver_frequency.
SetFrequency(f) ==
  /\ ui.cmd < MaxCommand
  /\ LET opened == IF ui.active THEN ui ELSE OpenRig(ui)
         before == IF ui.active THEN <<>> ELSE OpenEvents(ui)
         state  == [opened.cached EXCEPT !.freq = f]
     IN  /\ ui.active \/ (CanOpen(ui) /\ ui.cmd + 1 < MaxCommand)
         /\ ui' = [Requesting(opened, state) EXCEPT !.want = f]
         /\ toRig' = toRig \o before \o RequestEvents(opened, state)
         /\ obj' = IF ui.active THEN obj ELSE CreateObject(ui)
  /\ UNCHANGED <<client, toUI, emitting, radio, env>>

Request(state) ==
  /\ ui.cmd < MaxCommand
  /\ ui' = Requesting(ui, state)
  /\ toRig' = toRig \o RequestEvents(ui, state)
  /\ UNCHANGED <<client, toUI, emitting, obj, radio>>

\* setXIT: only with the rig open and a split mode configured.
SetTxFrequency(f) ==
  /\ ui.active
  /\ ui.splitMode # "none"
  /\ Request([ui.cached EXCEPT !.tx = f, !.split = (f # NoFreq)])
  /\ UNCHANGED env

SetPtt(on) ==
  /\ Request([ui.cached EXCEPT !.ptt = on])
  /\ UNCHANGED env

SetTune(on) ==
  /\ env.tunes < MaxTunes
  /\ Request([ui.cached EXCEPT !.tune = on])
  /\ env' = [env EXCEPT !.tunes = @ + 1]

\* Faulty variant: every update goes to MainWindow.
AnswersAny(signal) == TRUE

\* An update passed on to MainWindow: the current command is processed.
Answers(signal) == signal.seq = ui.cmd

\* handle_transceiver_update: the cache follows every update, whatever its
\* sequence number; only the answer to the last command goes to MainWindow.
HandleUpdate ==
  /\ toUI # <<>>
  /\ Head(toUI).sig = "update"
  /\ LET s == Head(toUI).state
         u == [ui EXCEPT !.cached.online = s.online, !.cached.freq = s.freq,
                         !.cached.split = s.split]
     IN  /\ ui' = IF s.online THEN u ELSE CloseRig(u)
         /\ toRig' = toRig \o (IF s.online THEN <<>> ELSE CloseEvents(u))
         /\ client' = IF Answers(Head(toUI))
                      THEN [client EXCEPT !.state = s, !.seq = Head(toUI).seq]
                      ELSE client
  /\ toUI' = Tail(toUI)
  /\ UNCHANGED <<emitting, obj, radio, env>>

\* MainWindow::rigFailure: one automatic retry, then a message box, at the end
\* of which, before the next failure or after it, m_first_error is set again.
\* What it does to a transmission in progress are requests like any other:
\* SetTune, SetPtt.
RigFailed(c) ==
  {[c EXCEPT !.firstError = first] :
     first \in IF c.firstError THEN {FALSE} ELSE BOOLEAN}

\* Faulty variant: the reopening does not wait for the events already posted.
RetryPostedFirst(failure) ==
  IF client.firstError THEN <<[failure EXCEPT !.sig = "retry"]>> \o Tail(toUI)
  ELSE Tail(toUI)

\* The retry is posted to the GUI thread, behind what is there.
RetryPosted(failure) ==
  IF client.firstError THEN Append(Tail(toUI), [failure EXCEPT !.sig = "retry"])
  ELSE Tail(toUI)

\* handle_transceiver_failure, with the settings dialog closed.
HandleFailure ==
  /\ toUI # <<>>
  /\ Head(toUI).sig = "failure"
  /\ ui' = CloseRig(ui)
  /\ toRig' = toRig \o CloseEvents(ui)
  /\ client' \in RigFailed(client)
  /\ toUI' = RetryPosted(Head(toUI))
  /\ UNCHANGED <<emitting, obj, radio, env>>

\* rigOpen, posted by rigFailure: transceiver_online, which opens a rig that is
\* not open (and, in the model, does nothing more once the bounds are reached).
RetryOpen ==
  /\ toUI # <<>>
  /\ Head(toUI).sig = "retry"
  /\ IF ui.active \/ ~CanOpen(ui)
     THEN UNCHANGED <<ui, toRig, obj>>
     ELSE /\ ui' = [OpenRig(ui) EXCEPT !.want = NoFreq]
          /\ toRig' = toRig \o OpenEvents(ui)
          /\ obj' = CreateObject(ui)
  /\ toUI' = Tail(toUI)
  /\ UNCHANGED <<client, emitting, radio, env>>

-----------------------------------------------------------------------------
(* The transceiver thread: one event at a time, run to completion.         *)

\* The sets of calls that may throw in one slot.
Faults ==
  {{}} \cup (IF env.faults < MaxFaults
             THEN {{k} : k \in Calls} \cup {{k, "pttOff"} : k \in Calls}
             ELSE {})

\* The receivers of an event handle it in turn, the oldest first.
First(i, m) == i \in m.to /\ \A j \in m.to : i <= j

Rest(m, i) ==
  IF m.to = {i} THEN Tail(toRig)
  ELSE [toRig EXCEPT ![1] = [m EXCEPT !.to = @ \ {i}]]

\* The GUI thread may disconnect the object between two signals of a slot; a
\* slot is one step at its first signal, EmitNext is each of the others.
Emits(i, signals) ==
  IF signals = <<>> \/ i \notin ui.conns
  THEN UNCHANGED <<toUI, emitting>>
  ELSE /\ toUI' = Append(toUI, Head(signals))
       /\ emitting' = Tail(signals)

Finish(i, c, misread) ==
  /\ emitting = <<>>
  /\ obj' = [obj EXCEPT ![i] = c.o]
  /\ radio' = c.r
  /\ Emits(i, c.out)
  /\ env' = [env EXCEPT !.faults = IF c.faulty THEN @ + 1 ELSE @,
                         !.misreads = IF misread THEN @ + 1 ELSE @]

EmitNext ==
  /\ emitting # <<>>
  /\ toUI' = IF Head(emitting).from \in ui.conns
             THEN Append(toUI, Head(emitting)) ELSE toUI
  /\ emitting' = Tail(emitting)
  /\ UNCHANGED <<ui, client, toRig, obj, radio, env>>

HandleSet(i) ==
  /\ toRig # <<>>
  /\ Head(toRig).op = "set"
  /\ First(i, Head(toRig))
  /\ \E bad \in Faults :
       Finish(i, Set(Begin(i, obj[i], radio, bad, "slot"),
                     Head(toRig).state, Head(toRig).seq), FALSE)
  /\ toRig' = Rest(Head(toRig), i)
  /\ UNCHANGED <<ui, client>>

HandleStart(i) ==
  /\ toRig # <<>>
  /\ Head(toRig).op = "start"
  /\ First(i, Head(toRig))
  /\ \E bad \in Faults :
       Finish(i, Start(Begin(i, obj[i], radio, bad, "slot"), Head(toRig).seq),
              FALSE)
  /\ toRig' = Rest(Head(toRig), i)
  /\ UNCHANGED <<ui, client>>

\* stop, then finished, which queues the deletion of the object.
HandleStop(i) ==
  /\ toRig # <<>>
  /\ Head(toRig).op = "stop"
  /\ First(i, Head(toRig))
  /\ \E bad \in Faults :
       Finish(i, Stop(Begin(i, obj[i], radio, bad, "slot")), FALSE)
  /\ toRig' = Append(Rest(Head(toRig), i),
                     [op |-> "delete", to |-> {i}, state |-> Offline, seq |-> 0])
  /\ UNCHANGED <<ui, client>>

HandleDelete ==
  /\ toRig # <<>>
  /\ emitting = <<>>
  /\ Head(toRig).op = "delete"
  /\ obj' = [i \in Objects |-> IF i \in Head(toRig).to
                               THEN [obj[i] EXCEPT !.life = "deleted"]
                               ELSE obj[i]]
  /\ toRig' = Tail(toRig)
  /\ UNCHANGED <<ui, client, toUI, emitting, radio, env>>

\* The poll timer.  While the rig settles a poll may read a wrong dial.
Poll(i) ==
  /\ obj[i].life = "live"
  /\ obj[i].polling
  /\ Len(toUI) < MaxBacklog
  /\ \E bad \in {b \in Faults : b = {} \/ "poll" \in b},
        reading \in (IF radio.settling /\ env.misreads < MaxMisreads
                     THEN Freqs ELSE {radio.freq}) :
       Finish(i, Timeout(Begin(i, obj[i], radio, bad, "poll"), reading),
              reading # radio.freq)
  /\ UNCHANGED <<ui, client, toRig>>

\* The operator turns the dial of the radio.
TurnDial(f) ==
  /\ env.turns < MaxTurns
  /\ f # radio.freq
  /\ radio' = [radio EXCEPT !.freq = f]
  /\ env' = [env EXCEPT !.turns = @ + 1]
  /\ UNCHANGED <<ui, client, toRig, toUI, emitting, obj>>

-----------------------------------------------------------------------------

GUI == \/ ForcedOpen \/ UserClose \/ ForceReset
       \/ \E f \in Freqs : SetFrequency(f)
       \/ \E f \in Freqs \cup {NoFreq} : SetTxFrequency(f)
       \/ \E on \in BOOLEAN : SetPtt(on)
       \/ \E on \in BOOLEAN : SetTune(on)

Deliver == HandleUpdate \/ HandleFailure \/ RetryOpen

Thread == \/ \E i \in Objects : HandleSet(i) \/ HandleStart(i) \/ HandleStop(i)
          \/ HandleDelete \/ EmitNext

Next == \/ GUI \/ Deliver \/ Thread
        \/ \E i \in Objects : Poll(i)
        \/ \E f \in Freqs : TurnDial(f)

Spec == Init /\ [][Next]_vars

\* A poll without a fault would change something.
PollDue(i) ==
  /\ obj[i].life = "live"
  /\ obj[i].polling
  /\ Len(toUI) < MaxBacklog
  /\ emitting = <<>>
  /\ \E c \in {Timeout(Begin(i, obj[i], radio, {}, "poll"), radio.freq)} :
       c.o # obj[i] \/ c.r # radio \/ c.out # <<>>

(***************************************************************************)
(* Both event loops keep running and the poll timer keeps firing; nothing  *)
(* is assumed of the user, the operator or the faults.  Each conjunct is   *)
(* weak fairness of an action, with the condition under which it has       *)
(* something to do written out: ENABLED would count a fault as such.       *)
(***************************************************************************)
Fairness ==
  /\ []<>(toUI = <<>>) \/ []<><<Deliver>>_vars
  /\ []<>(toRig = <<>> /\ emitting = <<>>) \/ []<><<Thread>>_vars
  /\ \A i \in Objects : []<>~PollDue(i) \/ []<><<Poll(i)>>_vars

FairSpec == Spec /\ Fairness

-----------------------------------------------------------------------------
(* Properties.                                                             *)

TypeOK ==
  /\ ui \in Configuration
  /\ client \in [state : TransceiverState, seq : Nat, firstError : BOOLEAN]
  /\ toRig \in Seq(Event)
  /\ toUI \in Seq(Signal)
  /\ emitting \in Seq(Signal)
  /\ obj \in [Objects -> Object]
  /\ radio \in Radio
  /\ env \in [resets : Nat, tunes : Nat, faults : Nat, turns : Nat, misreads : Nat]

\* What the sequence numbers are for: when an update carries the number of
\* the last command, no command is still waiting for the object that sent it,
\* so what MainWindow is told was decided after its last request was carried
\* out (Configuration.cpp "pass on to clients if current command is processed").
AnswerIsCurrent ==
  \A k \in DOMAIN toUI, l \in DOMAIN toRig :
     ~(toUI[k].seq = ui.cmd /\ Command(toRig[l]) /\ toUI[k].from \in toRig[l].to)

\* TransceiverBase::shutdown "try and ensure PTT isn't left set": the radio
\* transmits only while some object is connected to it, unless the command to
\* leave transmit threw.
NoOrphanPtt ==
  radio.ptt => \/ radio.unkeyFailed
               \/ \E i \in Objects : obj[i].requested.online

\* "Schedule eventual destruction": an object is deleted only after the last
\* event posted to it, whichever way it was closed.
EventsReachLiveObjects ==
  \A l \in DOMAIN toRig : \A i \in toRig[l].to : obj[i].life = "live"

\* Misreads that the stabilisation polls outlast.  A split done by the rig is
\* less robust.  Transmitting, its polls do not read the dial: a misread of
\* before becomes the frequency expected, and the same misread again is taken
\* for its arrival.  And the transmit frequency of a rig whose unkeying threw
\* is still expected when it is asked for again, which holds nothing off.
Outlasted ==
  /\ env.misreads < PollsToStabilize
  /\ ui.splitMode = "rig" =>
       env.misreads = 0 \/ (env.misreads = 1 /\ env.faults = 0)

\* Nobody turns the dial, and no reset of the calibration leaves two objects
\* in charge of one radio.
Undisturbed == env.turns = 0 /\ env.resets = 0 /\ Outlasted

\* PollingTransceiver "clients don't see intermediate states": in an
\* undisturbed run an update signalled by a poll carries the true dial
\* frequency (of a receiving radio).
HoldOffHidesMisreads ==
  Undisturbed =>
     \A k \in DOMAIN toUI :
        (toUI[k].cause = "poll" /\ toUI[k].sig = "update"
         /\ toUI[k].state.online /\ ~toUI[k].state.ptt)
        => toUI[k].state.freq = toUI[k].truth

Quiet == env = [resets |-> 0, tunes |-> 0, faults |-> 0, turns |-> 0, misreads |-> 0]

\* Transceiver.hpp: sequence numbers avoid "any unwanted ping-pong due to
\* signals crossing in transit".  With no fault and no operator, a keyed radio
\* that has carried out every command is on the frequency last asked for.
NoPingPong ==
  (Quiet /\ toRig = <<>> /\ emitting = <<>> /\ radio.ptt /\ ui.splitMode = "none"
   /\ ui.want # NoFreq)
  => radio.freq = ui.want

\* TransceiverBase::offline emits a failure and then an offline update, and
\* either closes the rig whichever object sent it.  So MainWindow's "one automatic
\* retry" is of use only if nothing that the failed object, or one before it, has
\* posted is still to come when the rig is opened again: it is disconnected before
\* the retry is posted.  The exception is a rig that was made inactive by an edit
\* of its calibration, which close_rig leaves connected.
NothingStaleAfterRetry ==
  env.resets = 0 =>
    \A k, l \in DOMAIN toUI :
      (k < l /\ toUI[k].sig = "retry" /\ toUI[l].sig # "retry")
      => toUI[k].from < toUI[l].from

\* The numbered commands keep the promise of RigLink: an object carries them
\* out in order, and MainWindow is told only of the outcome of the last one.
Link == INSTANCE RigLink WITH issued <- ui.cmd,
                              done <- [i \in Objects |-> obj[i].seq],
                              told <- client.seq

ImplementsRigLink == Link!LinkSpec

\* A request is answered or the rig gets closed.
CommandAnswered ==
  \A n \in 1..MaxCommand :
     (ui.active /\ ui.cmd = n) ~> (client.seq >= n \/ ~ui.active \/ ui.cmd > n)

\* Following the operator: a rig that stays open ends with the cached dial
\* frequency equal to the dial, unless it is transmitting.
DialFollowed ==
  <>[](ui.active /\ ~radio.ptt => ui.cached.freq = radio.freq)

\* A closed rig does not stay keyed.
ClosedIsUnkeyed ==
  (ui.conns = {}) ~> (~radio.ptt \/ ui.conns # {} \/ radio.unkeyFailed)
=============================================================================
