----------------------------- MODULE DecoderIPC -----------------------------
(***************************************************************************)
(* The hand-shake between the main window and the decoder process jt9.     *)
(* The window copies samples and parameters to shared memory and sets a    *)
(* start flag (ipc[1], ipc(2) in Fortran); jt9 polls it every 10 ms,       *)
(* decodes the samples where they are, writes lines to its output, the     *)
(* last one <DecodeFinished>, and waits for a done flag (ipc[2], ipc(3)),  *)
(* by which the window says that it has read that line.                    *)
(***************************************************************************)
EXTENDS Naturals, Sequences

CONSTANTS
  Schedules,  \* what happens in a T/R period, one sequence for a mode:
              \* "clear" a hung decoder, or "decode" the samples so far
  MaxActs,    \* bound: acts of the operator
  MaxLate     \* bound: marks of dataSink and ends of decodes that overtake
              \* output that waits to be read

ASSUME ScheduleAssumption ==
  Schedules \subseteq Seq({"clear", "decode"}) \ {<<>>}

ASSUME BoundAssumption == MaxActs \in Nat /\ MaxLate \in Nat

VARIABLES
  busy,       \* m_decoderBusy
  available,  \* m_dataAvailable
  schedule,   \* the marks of the present mode
  mark,       \* the next of them
  start,      \* ipc[1] = 1
  done,       \* ipc[2] = 1
  pc,         \* jt9: idle (loop 10), decoding, waiting (loop 100)
  finished,   \* <DecodeFinished> lines not yet read
  ready,      \* readyRead is due
  polled,     \* jt9 has looked at a flag since the last mark
  acts, late, \* what the bounds count
  torn,       \* history: samples replaced during the decode of them
  disturbed   \* history: the busy flag was forced, and nothing has come to rest

gui == <<busy, available, schedule, mark>>
shared == <<start, done>>
jt9 == <<pc, torn>>
pipe == <<finished, ready>>
bounds == <<polled, acts, late>>
vars == <<gui, shared, jt9, pipe, bounds, disturbed>>

\* Only FT8 clears a hung decoder in every period.
Rescued == \E i \in DOMAIN schedule : schedule[i] = "clear"

\* Neither side has anything to do for the other.
AtRest == ~busy /\ ~start /\ pc # "decoding" /\ finished = 0

Overtaking(output) ==
  /\ output => late < MaxLate
  /\ late' = IF output THEN late + 1 ELSE late

Remember(forced) == disturbed' = ((disturbed \/ forced) /\ ~AtRest')

-----------------------------------------------------------------------------
(* The main window *)

\* mutant: jt9 is not told
DecodeDoneUntold == busy' = FALSE /\ UNCHANGED done

DecodeDone == busy' = FALSE /\ done' = TRUE

\* mutant: the window does not note that the decoder is busy
CopyIdle(newdat) ==
  /\ UNCHANGED busy
  /\ start' = TRUE
  /\ done' = (done /\ ~newdat)
  /\ torn' = (torn \/ (newdat /\ pc = "decoding"))

\* The copy of new data begins with the flags: it clears done.
Copy(newdat) ==
  /\ busy' = TRUE
  /\ start' = TRUE
  /\ done' = (done /\ ~newdat)
  /\ torn' = (torn \/ (newdat /\ pc = "decoding"))

\* mutant: a decode is started although one is under way
DecodeAnyway(newdat) == Copy(newdat)

Decode(newdat) ==
  IF busy THEN UNCHANGED <<busy, start, done, torn>> ELSE Copy(newdat)

\* mutant: a hung decoder is left alone
ClearHungNever == UNCHANGED <<busy, available, start, done, torn>>

\* to_jt9 (ihsym, -1, -1) before it changes only ipc[0], which nobody reads.
ClearHung ==
  /\ IF busy THEN DecodeDone ELSE UNCHANGED <<busy, done>>
  /\ UNCHANGED <<available, start, torn>>

\* dataSink at a mark of the period, or guiUpdate at its seconds. Marks are 0.28 s
\* or more apart, and jt9 polls every 10 ms.
Mark ==
  /\ polled \/ pc = "decoding"
  /\ Overtaking(ready)
  /\ polled' = FALSE
  /\ mark' = IF mark = Len(schedule) THEN 1 ELSE mark + 1
  /\ \/ schedule[mark] = "clear" /\ ClearHung
     \/ /\ schedule[mark] = "decode"
        /\ available' = TRUE
        /\ Decode(TRUE)
  /\ UNCHANGED <<schedule, pc, pipe, acts>>
  /\ Remember(schedule[mark] = "clear" /\ busy)

\* mutant: any output is taken for the end of the decode
ReadFromStdoutAny ==
  /\ ready
  /\ ready' = FALSE
  /\ finished' = finished - 1 /\ DecodeDone
  /\ UNCHANGED <<available, schedule, mark, start, jt9, bounds>>
  /\ Remember(FALSE)

\* readyRead: lines are read up to the first <DecodeFinished>; what follows it
\* waits for the next readyRead.
ReadFromStdout ==
  /\ ready
  /\ ready' = FALSE
  /\ \/ finished > 0 /\ finished' = finished - 1 /\ DecodeDone
     \/ finished = 0 /\ UNCHANGED <<finished, busy, done>>
  /\ UNCHANGED <<available, schedule, mark, start, jt9, bounds>>
  /\ Remember(FALSE)

-----------------------------------------------------------------------------
(* The operator *)

Act == acts < MaxActs /\ acts' = acts + 1 /\ UNCHANGED <<pc, pipe, polled, late>>

\* The Decode button or Shift+D: the samples that jt9 already has.
ClickDecode ==
  /\ Act
  /\ available
  /\ Decode(FALSE)
  /\ UNCHANGED <<available, schedule, mark>>
  /\ Remember(FALSE)

RightClickDecode ==
  /\ Act
  /\ ClearHung
  /\ UNCHANGED <<schedule, mark>>
  /\ Remember(busy)

ToggleCQOnly ==
  /\ Act
  /\ start' = TRUE
  /\ busy' = TRUE
  /\ UNCHANGED <<available, schedule, mark, done, torn>>
  /\ Remember(busy)

\* The FT2 button clears the decoder, busy or not; 50 ms later the mode changes.
SwitchToFT2 ==
  /\ Act
  /\ DecodeDone
  /\ UNCHANGED <<available, schedule, mark, start, torn>>
  /\ Remember(busy)

\* Another mode, or a receiver that is switched on in the middle of a period.
ChangeMode ==
  /\ Act
  /\ schedule' \in Schedules
  /\ mark' \in DOMAIN schedule'
  /\ UNCHANGED <<busy, available, start, done, torn, disturbed>>

-----------------------------------------------------------------------------
(* The decoder process *)

\* Loop 10: wait for the start flag and reset it.
PollStart ==
  /\ pc = "idle"
  /\ polled' = TRUE
  /\ \/ start /\ start' = FALSE /\ pc' = "decoding"
     \/ ~start /\ UNCHANGED <<start, pc>>
  /\ UNCHANGED <<gui, done, torn, pipe, acts, late>>
  /\ Remember(FALSE)

Output ==
  /\ pc = "decoding"
  /\ ready' = TRUE
  /\ UNCHANGED <<gui, shared, jt9, finished, bounds, disturbed>>

Finish ==
  /\ pc = "decoding"
  /\ Overtaking(ready /\ finished > 0)
  /\ pc' = "waiting"
  /\ torn' = FALSE
  /\ finished' = finished + 1
  /\ ready' = TRUE
  /\ UNCHANGED <<gui, shared, polled, acts>>
  /\ Remember(FALSE)

\* Loop 100: wait for the done flag and reset it.
PollDone ==
  /\ pc = "waiting"
  /\ polled' = TRUE
  /\ \/ done /\ done' = FALSE /\ pc' = "idle"
     \/ ~done /\ UNCHANGED <<done, pc>>
  /\ UNCHANGED <<gui, start, torn, pipe, acts, late>>
  /\ Remember(FALSE)

-----------------------------------------------------------------------------
Init ==
  /\ busy = FALSE /\ available = FALSE
  /\ schedule \in Schedules
  /\ mark = 1
  /\ start = FALSE /\ done = FALSE
  /\ pc = "idle" /\ finished = 0 /\ ready = FALSE
  /\ polled = FALSE /\ acts = 0 /\ late = 0
  /\ torn = FALSE /\ disturbed = FALSE

Window ==
  \/ Mark
  \/ ReadFromStdout
  \/ ClickDecode
  \/ RightClickDecode
  \/ ToggleCQOnly
  \/ SwitchToFT2
  \/ ChangeMode

Decoder == PollStart \/ Output \/ Finish \/ PollDone

Next == Window \/ Decoder

Spec == Init /\ [][Next]_vars

\* The receiver runs, the event loop handles readyRead, jt9 polls its flags and
\* every decode ends. Nothing is assumed of the operator.
FairSpec ==
  /\ Spec
  /\ WF_vars(Mark)
  /\ WF_vars(ReadFromStdout)
  /\ WF_vars(PollStart)
  /\ WF_vars(Finish)
  /\ WF_vars(PollDone)

-----------------------------------------------------------------------------
TypeOK ==
  /\ busy \in BOOLEAN /\ available \in BOOLEAN
  /\ schedule \in Schedules /\ mark \in DOMAIN schedule
  /\ start \in BOOLEAN /\ done \in BOOLEAN
  /\ pc \in {"idle", "decoding", "waiting"} /\ torn \in BOOLEAN
  /\ finished \in Nat /\ ready \in BOOLEAN
  /\ polled \in BOOLEAN /\ acts \in 0 .. MaxActs /\ late \in 0 .. MaxLate
  /\ disturbed \in BOOLEAN

\* m_decoderBusy, which the window keeps on its own, tells the truth about jt9:
\* it is set exactly while a decode is requested, under way or finished with its
\* last line unread, and only one of these at a time. It may be wrong only after
\* it was forced (decodeDone of a decode under way, CQ only toggled), until both
\* sides have come to rest.
Outstanding == (IF start THEN 1 ELSE 0) + (IF pc = "decoding" THEN 1 ELSE 0) + finished

BusyIsTrue == ~disturbed => Outstanding = (IF busy THEN 1 ELSE 0)

\* jt9 decodes the live samples in shared memory (multimode_decoder gets
\* shared_data%id2): decode () replaces them under a decode only if the busy flag
\* was forced.
SamplesStay == torn => disturbed

\* FT8 clears a hung decoder in every period: whatever happened, a window that
\* waits for a decode stops waiting,
DecodeEnds == (busy /\ Rescued) ~> (~busy \/ ~Rescued)

\* and jt9 takes up a decode that was requested, even if the done flag it waited
\* for was lost.
RequestTaken == (start /\ Rescued) ~> (pc = "decoding" \/ ~Rescued)

\* decodeDone: "Tell jt9 we know it has finished". A jt9 that waits and was told
\* stops waiting.
ToldGoesOn == (pc = "waiting" /\ done) ~> (pc # "waiting")
=============================================================================
