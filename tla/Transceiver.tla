---------------------------- MODULE Transceiver ----------------------------
(***************************************************************************)
(* One Transceiver object of the transceiver thread: the template methods  *)
(* of TransceiverBase, the polling of PollingTransceiver, the back end     *)
(* operations of HamlibTransceiver and the EmulateSplitTransceiver         *)
(* wrapper.  No variables: a slot of the object is an operator from a      *)
(* context (the object, the radio, the signals emitted so far, the back    *)
(* end calls that throw) to the context after it.                          *)
(***************************************************************************)
EXTENDS Naturals, Sequences

CONSTANTS Freqs,              \* dial frequencies
          NoFreq,             \* the frequency 0: unknown, or no split
          PollsToStabilize    \* polls_to_stabilize

ASSUME ConstAssumption ==
  /\ NoFreq \notin Freqs
  /\ PollsToStabilize \in Nat

SplitModes == {"none", "rig", "emulate"}

\* The back end calls that can throw.
Calls == {"start", "freq", "tx", "pttOn", "pttOff", "tune", "poll"}

(***************************************************************************)
(* TransceiverState, restricted to the fields that a serial CAT rig uses   *)
(* here; tune stands for the group of "audio" fields of set(), and known    *)
(* is FALSE while the mode and the split are still unknown.                *)
(***************************************************************************)
TransceiverState == [online : BOOLEAN, known : BOOLEAN,
                     freq : Freqs \cup {NoFreq},
                     tx : Freqs \cup {NoFreq}, split : BOOLEAN,
                     ptt : BOOLEAN, tune : BOOLEAN]

Offline == [online |-> FALSE, known |-> FALSE, freq |-> NoFreq,
            tx |-> NoFreq, split |-> FALSE, ptt |-> FALSE, tune |-> FALSE]

\* The radio on the other end of the cable.  settling: a frequency command
\* switched the VFO, and a poll may still read the wrong dial.  unkeyFailed is
\* a history flag: the last command to leave transmit threw.
Radio == [freq : Freqs, tx : Freqs \cup {NoFreq}, ptt : BOOLEAN,
          settling : BOOLEAN, unkeyFailed : BOOLEAN]

(***************************************************************************)
(* requested, actual and last are members of TransceiverBase; next,        *)
(* signalled, retries and polling of PollingTransceiver; rx, tx and split  *)
(* of EmulateSplitTransceiver.                                             *)
(***************************************************************************)
Object == [life : {"none", "live", "deleted"}, mode : SplitModes,
           requested : TransceiverState, actual : TransceiverState,
           last : TransceiverState, next : TransceiverState,
           signalled : TransceiverState, retries : 0..PollsToStabilize,
           polling : BOOLEAN, seq : Nat,
           rx : Freqs \cup {NoFreq}, tx : Freqs \cup {NoFreq},
           split : BOOLEAN]

NewObject(mode) ==
  [life |-> "live", mode |-> mode, requested |-> Offline,
   actual |-> Offline, last |-> Offline, next |-> Offline,
   signalled |-> Offline, retries |-> 0, polling |-> FALSE, seq |-> 0,
   rx |-> NoFreq, tx |-> NoFreq, split |-> FALSE]

\* A signal emitted to Configuration.  from, truth and cause are history: the
\* object, the dial frequency of the radio then, and the kind of slot.  A retry
\* is no signal but rigOpen, which MainWindow posts to itself.
Signal == [sig : {"update", "failure", "retry"}, state : TransceiverState, seq : Nat,
           from : Nat, truth : Freqs, cause : {"slot", "poll"}]

Context == [id : Nat, o : Object, r : Radio, out : Seq(Signal),
            bad : SUBSET Calls, thrown : BOOLEAN, faulty : BOOLEAN,
            cause : {"slot", "poll"}]

Begin(id, object, rad, bad, cause) ==
  [id |-> id, o |-> object, r |-> rad, out |-> <<>>, bad |-> bad,
   thrown |-> FALSE, faulty |-> FALSE, cause |-> cause]

-----------------------------------------------------------------------------
(* Exceptions: nothing runs after a throw until the handler that catches.  *)
(* faulty is history: some call has thrown.                                *)

Throw(c) == [c EXCEPT !.thrown = TRUE, !.faulty = TRUE]

Try(c, call, done) ==
  IF c.thrown THEN c ELSE IF call \in c.bad THEN Throw(c) ELSE done

Caught(c) == [c EXCEPT !.thrown = FALSE]

\* Faulty variant: no polls are spent on a change.
ExpectingNothing(c, changed) == c.o.retries

\* A change of the expected state restarts the stabilisation polls.
Expecting(c, changed) == IF changed THEN PollsToStabilize ELSE c.o.retries

-----------------------------------------------------------------------------
(* Back end calls, each with the post action that follows it.              *)

DoPtt(c, on) ==
  IF c.thrown THEN c
  ELSE IF (IF on THEN "pttOn" ELSE "pttOff") \in c.bad
  THEN [Throw(c) EXCEPT
          !.r = [@ EXCEPT !.unkeyFailed = IF on THEN c.r.unkeyFailed ELSE TRUE]]
  ELSE [c EXCEPT
          !.r = [@ EXCEPT !.ptt = on, !.unkeyFailed = FALSE],
          !.o = [@ EXCEPT !.actual.ptt = on, !.next.ptt = on,
                          !.retries = Expecting(c, c.o.next.ptt # on)]]

DoFrequency(c, f) ==
  Try(c, "freq",
      [c EXCEPT
         !.r = [@ EXCEPT !.freq = f, !.settling = TRUE],
         !.o = [@ EXCEPT !.actual.freq = f, !.requested.freq = f,
                         !.next.freq = f,
                         !.retries = Expecting(c, c.o.next.freq # f)]])

\* Zero as transmit frequency means no split.
IsSplit(f) == f # NoFreq

\* The request is recorded first, so that a shutdown after an exception
\* resets the split.
AskTxFrequency(c, f) ==
  [c EXCEPT !.o = [@ EXCEPT !.requested.tx = f, !.requested.split = IsSplit(f)]]

ExpectedSplit(c, f) ==
  IF c.o.next.tx # f THEN IsSplit(f) ELSE c.o.next.split

DoTxFrequency(c, f) ==
  LET asked == AskTxFrequency(c, f)
  IN  IF c.thrown THEN c
      ELSE Try(asked, "tx",
               [asked EXCEPT
                  !.r = [@ EXCEPT !.tx = f, !.settling = TRUE],
                  !.o = [@ EXCEPT
                           !.actual.tx = f, !.actual.split = IsSplit(f),
                           !.next.tx = f,
                           !.next.split = ExpectedSplit(c, f),
                           !.retries = Expecting(c, c.o.next.tx # f)]])

\* The tuner of the rig: PTT is shown on during the call and off after it.
ShowPtt(c, on) == [c EXCEPT !.o = [@ EXCEPT !.actual.ptt = on]]

DoTune(c, on) ==
  IF ~on \/ c.thrown THEN c
  ELSE Try(ShowPtt(c, TRUE), "tune", ShowPtt(c, FALSE))

\* The split state, then the frequencies and the mode that can be read without
\* disturbing a split transmission, then PTT.  The dial frequency read is reading.
DoPoll(c, call, reading) ==
  LET split == IsSplit(c.r.tx)
      blind == c.o.actual.ptt /\ split
  IN  Try(c, call,
          [c EXCEPT
             !.r = [@ EXCEPT !.settling = c.r.settling /\ reading # c.r.freq],
             !.o = [@ EXCEPT
                      !.actual.split = split,
                      !.actual.known = c.o.actual.known \/ ~blind,
                      !.actual.tx = IF split THEN c.r.tx ELSE c.o.actual.tx,
                      !.actual.freq = IF blind THEN c.o.actual.freq ELSE reading,
                      !.requested.freq = IF blind THEN c.o.requested.freq
                                        ELSE reading,
                      !.actual.ptt = c.r.ptt]])

-----------------------------------------------------------------------------
(* Signals.                                                                *)

Emit(c, sig, state) ==
  [c EXCEPT !.out = Append(@, [sig |-> sig, state |-> state, seq |-> c.o.seq,
                               from |-> c.id, truth |-> c.r.freq,
                               cause |-> c.cause])]

\* EmulateSplitTransceiver::handle_update, or the signal passed through.
Wrapped(c, state) ==
  IF c.o.mode # "emulate" THEN Emit(c, "update", state)
  ELSE IF state.split THEN Emit(c, "failure", Offline)
  ELSE Emit(c, "update",
            [state EXCEPT !.freq = IF state.ptt THEN c.o.rx ELSE @,
                          !.tx = c.o.tx, !.split = c.o.split])

\* do_pre_update: a change that is being held off is withheld.
HeldOff(o) == o.retries > 0 /\ o.actual # o.next

\* Faulty variant: nothing forces an update.
UpdateUnforced(c, force) ==
  IF ~HeldOff(c.o) /\ c.o.actual # c.o.last
  THEN [Wrapped(c, c.o.actual) EXCEPT !.o = [@ EXCEPT !.last = c.o.actual]]
  ELSE c

UpdateComplete(c, force) ==
  IF force \/ (~HeldOff(c.o) /\ c.o.actual # c.o.last)
  THEN [Wrapped(c, c.o.actual) EXCEPT !.o = [@ EXCEPT !.last = c.o.actual]]
  ELSE c

-----------------------------------------------------------------------------
(* Connecting and disconnecting.                                           *)

\* Faulty variant: only split is reset.
UnkeySplitOnly(c) ==
  Caught(IF c.o.requested.split THEN DoTxFrequency(c, NoFreq) ELSE c)

\* PTT off, then split off; an exception of either abandons both.
Unkey(c) ==
  LET p == DoPtt(c, FALSE)
  IN  Caught(IF c.o.requested.split THEN DoTxFrequency(p, NoFreq) ELSE p)

Shutdown(c) ==
  LET d == IF c.o.requested.online THEN Unkey(c) ELSE c
  IN  UpdateComplete([d EXCEPT !.o = [@ EXCEPT !.polling = FALSE,
                                               !.actual = Offline,
                                               !.requested = Offline]],
                     FALSE)

GoOffline(c) == Shutdown(Emit(Caught(c), "failure", Offline))

GoOnline(c) ==
  [c EXCEPT !.o = [@ EXCEPT !.actual.online = TRUE, !.requested.online = TRUE]]

Connect(c) ==
  LET up == DoPoll(GoOnline(c), "start", c.r.freq)
  IN  IF up.thrown THEN up
      ELSE [up EXCEPT !.o = [@ EXCEPT
                               !.polling = TRUE, !.next.online = TRUE,
                               !.retries = Expecting(up, ~up.o.next.online)]]

Startup(c) ==
  LET up == Connect(c) IN IF up.thrown THEN GoOffline(up) ELSE up

-----------------------------------------------------------------------------
(* The slots.                                                              *)

Numbered(c, n) == [c EXCEPT !.o = [@ EXCEPT !.seq = n]]

Start(c, n) == UpdateComplete(Startup(Shutdown(Numbered(c, n))), TRUE)

Stop(c) == Shutdown(c)

\* An audio command of set() and nothing else.
ApplyAudio(c, s) ==
  LET d == DoTune(c, s.tune)
  IN  IF d.thrown THEN d
      ELSE [d EXCEPT !.o = [@ EXCEPT !.requested.tune = s.tune]]

\* PTT off first, then one of the two frequencies, then PTT on.
ApplyRig(c, s) ==
  LET on  == s.ptt /\ ~c.o.requested.ptt
      off == ~s.ptt /\ c.o.requested.ptt
      p   == IF off THEN DoPtt(c, FALSE) ELSE c
      q   == IF s.freq # NoFreq /\ s.freq # c.o.requested.freq
             THEN DoFrequency(p, s.freq)
             ELSE IF s.tx # c.o.requested.tx \/ (s.tx # NoFreq /\ on)
             THEN DoTxFrequency(p, s.tx)
             ELSE p
      k   == IF on THEN DoPtt(q, TRUE) ELSE q
  IN  IF (on \/ off) /\ ~k.thrown
      THEN [k EXCEPT !.o = [@ EXCEPT !.requested.ptt = k.o.actual.ptt]]
      ELSE k

Apply(c, s) ==
  IF c.o.requested.tune # s.tune THEN ApplyAudio(c, s) ELSE ApplyRig(c, s)

\* TransceiverBase::set.  The forced update is emitted on every way out, the
\* exceptional one included, and the failure after it.
SetBase(c, s, n) ==
  LET b == Numbered(c, n)
      d == IF ~s.online /\ b.o.requested.online THEN Shutdown(b)
           ELSE IF s.online /\ ~b.o.requested.online THEN Startup(Shutdown(b))
           ELSE b
      e == IF d.o.requested.online THEN Apply(d, s) ELSE d
      u == UpdateComplete(e, TRUE)
  IN  IF u.thrown THEN GoOffline(u) ELSE u

\* EmulateSplitTransceiver::set: the dial is moved while transmitting.
Set(c, s, n) ==
  IF c.o.mode # "emulate" THEN SetBase(c, s, n)
  ELSE SetBase([c EXCEPT !.o = [@ EXCEPT !.rx = s.freq, !.tx = s.tx,
                                         !.split = s.split]],
               [s EXCEPT !.freq = IF s.ptt /\ s.split THEN s.tx ELSE @,
                         !.split = FALSE, !.tx = NoFreq],
               n)

\* Faulty variant: the polls left are decremented without a test for zero.
PollsLeftUnguarded(o) == o.retries - 1

PollsLeft(o) == IF o.retries > 0 THEN o.retries - 1 ELSE 0

\* Faulty variant: changes that nobody asked for are not signalled.
SignalDueDeaf(o) == o.retries > 0 /\ (o.actual = o.next \/ PollsLeft(o) = 0)

\* The expected state has arrived or there are no more retries; with no change
\* expected, the state is not the one signalled last.
SignalDue(o) ==
  IF o.retries > 0 THEN o.actual = o.next \/ PollsLeft(o) = 0
  ELSE o.actual # o.signalled

\* PollingTransceiver::handle_timeout.  The dial frequency read is reading.
Timeout(c, reading) ==
  LET p == DoPoll(c, "poll", reading)
      settled == [p EXCEPT !.o = [@ EXCEPT !.retries = 0, !.next = p.o.actual,
                                           !.signalled = p.o.actual]]
  IN  IF p.thrown THEN GoOffline(p)
      ELSE IF SignalDue(p.o) THEN UpdateComplete(settled, TRUE)
      ELSE [p EXCEPT !.o = [@ EXCEPT !.retries = PollsLeft(p.o)]]
=============================================================================
