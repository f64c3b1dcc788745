-------------------------- MODULE DecoderIPC_proofs --------------------------
(***************************************************************************)
(* For all modes and bounds: the window's busy flag tells the truth until  *)
(* it is forced, and a decode keeps its samples as long.                   *)
(***************************************************************************)
EXTENDS DecoderIPC, TLAPS

\* Only a decode under way has samples to lose.
TornDecoding == torn => disturbed /\ pc = "decoding"

IInv == TypeOK /\ BusyIsTrue /\ TornDecoding

-----------------------------------------------------------------------------
\* Every mode has a first mark.
LEMMA Marks ==
  ASSUME NEW s \in Schedules
  PROVE  Len(s) \in Nat \ {0} /\ DOMAIN s = 1 .. Len(s)
<1>1. s \in Seq({"clear", "decode"}) /\ s # <<>>
  BY ScheduleAssumption
<1> QED BY <1>1

\* Initially nothing is requested, and every variable has its type.
LEMMA InitIInv == Init => IInv
<1> SUFFICES ASSUME Init PROVE IInv
  OBVIOUS
<1>1. mark \in DOMAIN schedule
  BY Marks DEF Init
<1>2. TypeOK
  <2>1. acts \in 0 .. MaxActs /\ late \in 0 .. MaxLate /\ finished \in Nat
    BY BoundAssumption DEF Init
  <2>2. /\ busy \in BOOLEAN /\ available \in BOOLEAN /\ schedule \in Schedules
        /\ start \in BOOLEAN /\ done \in BOOLEAN /\ ready \in BOOLEAN
        /\ pc \in {"idle", "decoding", "waiting"} /\ torn \in BOOLEAN
        /\ polled \in BOOLEAN /\ disturbed \in BOOLEAN
    BY DEF Init
  <2> QED BY <1>1, <2>1, <2>2 DEF TypeOK
<1>3. BusyIsTrue
  <2>1. Outstanding = 0
    BY DEF Init, Outstanding
  <2> QED BY <2>1 DEF Init, BusyIsTrue
<1>4. TornDecoding
  BY DEF Init, TornDecoding
<1> QED BY <1>2, <1>3, <1>4 DEF IInv

\* What Overtaking leaves of the bound.
LEMMA OvertakingType ==
  ASSUME TypeOK, NEW output \in BOOLEAN, Overtaking(output)
  PROVE  late' \in 0 .. MaxLate
BY BoundAssumption DEF TypeOK, Overtaking

\* What the operator's acts leave of the bound.
LEMMA ActType ==
  ASSUME TypeOK, Act
  PROVE  /\ acts' \in 0 .. MaxActs
         /\ pc' = pc /\ finished' = finished /\ ready' = ready
         /\ polled' = polled /\ late' = late
BY BoundAssumption DEF TypeOK, Act, pipe

\* The memory of a disturbance is a truth value.
LEMMA RememberType ==
  ASSUME NEW forced, Remember(forced)
  PROVE  disturbed' \in BOOLEAN
BY DEF Remember

\* decode () keeps the types of the flags, whether it starts a decode or not.
LEMMA DecodeType ==
  ASSUME TypeOK, NEW newdat \in BOOLEAN, Decode(newdat)
  PROVE  busy' \in BOOLEAN /\ start' \in BOOLEAN /\ done' \in BOOLEAN
         /\ torn' \in BOOLEAN
<1>1. CASE busy
  BY <1>1 DEF Decode, TypeOK
<1>2. CASE ~busy
  <2>1. Copy(newdat)
    BY <1>2 DEF Decode
  <2> QED BY <2>1 DEF Copy
<1> QED BY <1>1, <1>2

\* So does the clearing of a hung decoder.
LEMMA ClearType ==
  ASSUME TypeOK, ClearHung
  PROVE  busy' \in BOOLEAN /\ start' \in BOOLEAN /\ done' \in BOOLEAN
         /\ torn' \in BOOLEAN /\ available' \in BOOLEAN
<1>1. CASE busy
  BY <1>1 DEF ClearHung, DecodeDone, TypeOK
<1>2. CASE ~busy
  BY <1>2 DEF ClearHung, TypeOK
<1> QED BY <1>1, <1>2

\* Each action keeps the types.
LEMMA TypeStep == TypeOK /\ [Next]_vars => TypeOK'
<1> SUFFICES ASSUME TypeOK, [Next]_vars PROVE TypeOK'
  OBVIOUS
<1> USE DEF TypeOK
<1>1. CASE Mark
  <2>1. mark' \in DOMAIN schedule
    BY <1>1, Marks DEF Mark
  <2>2. late' \in 0 .. MaxLate
    BY <1>1, OvertakingType DEF Mark
  <2>3. disturbed' \in BOOLEAN
    BY <1>1, RememberType DEF Mark
  <2>4. /\ busy' \in BOOLEAN /\ start' \in BOOLEAN /\ done' \in BOOLEAN
        /\ torn' \in BOOLEAN /\ available' \in BOOLEAN
    BY <1>1, ClearType, DecodeType DEF Mark
  <2> QED BY <1>1, <2>1, <2>2, <2>3, <2>4 DEF Mark, pipe
<1>2. CASE ReadFromStdout
  <2>1. finished' \in Nat /\ busy' \in BOOLEAN /\ done' \in BOOLEAN
    <3>1. CASE finished > 0 /\ finished' = finished - 1 /\ DecodeDone
      <4>1. finished' \in Nat
        BY <3>1
      <4> QED BY <3>1, <4>1 DEF DecodeDone
    <3>2. CASE finished = 0 /\ UNCHANGED <<finished, busy, done>>
      BY <3>2
    <3> QED BY <1>2, <3>1, <3>2 DEF ReadFromStdout
  <2>2. disturbed' \in BOOLEAN
    BY <1>2, RememberType DEF ReadFromStdout
  <2> QED BY <1>2, <2>1, <2>2 DEF ReadFromStdout, jt9, bounds
<1>3. CASE ClickDecode
  BY <1>3, ActType, DecodeType, RememberType DEF ClickDecode
<1>4. CASE RightClickDecode
  BY <1>4, ActType, ClearType, RememberType DEF RightClickDecode
<1>5. CASE ToggleCQOnly
  BY <1>5, ActType, RememberType DEF ToggleCQOnly
<1>6. CASE SwitchToFT2
  BY <1>6, ActType, RememberType DEF SwitchToFT2, DecodeDone
<1>7. CASE ChangeMode
  BY <1>7, ActType DEF ChangeMode
<1>8. CASE PollStart
  BY <1>8 DEF PollStart, Remember, gui, pipe
<1>9. CASE Output
  BY <1>9 DEF Output, gui, shared, jt9, bounds
<1>10. CASE Finish
  <2>1. late' \in 0 .. MaxLate
    BY <1>10, OvertakingType DEF Finish
  <2>2. disturbed' \in BOOLEAN
    BY <1>10, RememberType DEF Finish
  <2>3. finished' \in Nat
    BY <1>10 DEF Finish
  <2> QED BY <1>10, <2>1, <2>2, <2>3 DEF Finish, gui, shared
<1>11. CASE PollDone
  BY <1>11 DEF PollDone, Remember, gui, pipe
<1>12. CASE UNCHANGED vars
  BY <1>12 DEF vars, gui, shared, jt9, pipe, bounds
<1> QED
  BY <1>1, <1>2, <1>3, <1>4, <1>5, <1>6, <1>7, <1>8, <1>9, <1>10, <1>11, <1>12
     DEF Next, Window, Decoder

-----------------------------------------------------------------------------
\* Where both sides are at rest the flag is true, so forgetting is sound.
LEMMA Rest == AtRest => Outstanding = 0 /\ ~busy
BY DEF AtRest, Outstanding

\* A flag that is not set leaves nothing outstanding.
LEMMA NotBusy ==
  ASSUME TypeOK, BusyIsTrue, ~disturbed, ~busy
  PROVE  ~start /\ pc # "decoding" /\ finished = 0
BY DEF TypeOK, BusyIsTrue, Outstanding

\* A flag that is set has one thing outstanding.
LEMMA Busy ==
  ASSUME TypeOK, BusyIsTrue, ~disturbed, busy
  PROVE  \/ start /\ pc # "decoding" /\ finished = 0
         \/ ~start /\ pc = "decoding" /\ finished = 0
         \/ ~start /\ pc # "decoding" /\ finished = 1
BY DEF TypeOK, BusyIsTrue, Outstanding

\* What an action has to establish: the flag is true again, unless the action
\* forced it or it was forced before.
LEMMA TrueAfter ==
  ASSUME NEW forced \in BOOLEAN, TypeOK, Remember(forced),
         ~disturbed /\ ~forced => Outstanding' = (IF busy' THEN 1 ELSE 0)
  PROVE  BusyIsTrue'
<1> SUFFICES ASSUME ~disturbed' PROVE Outstanding' = (IF busy' THEN 1 ELSE 0)
  BY DEF BusyIsTrue
<1>1. CASE AtRest'
  <2>1. Outstanding' = 0 /\ ~busy'
    BY <1>1, Rest DEF AtRest, Outstanding
  <2> QED BY <2>1
<1>2. CASE ~AtRest'
  BY <1>2 DEF Remember, TypeOK
<1> QED BY <1>1, <1>2

\* A decode is started only where the flag is clear.
LEMMA DecodeBusy ==
  ASSUME TypeOK, BusyIsTrue, ~disturbed, NEW newdat \in BOOLEAN, Decode(newdat),
         UNCHANGED <<pc, finished>>
  PROVE  Outstanding' = (IF busy' THEN 1 ELSE 0)
<1>1. CASE busy
  BY <1>1 DEF Decode, Outstanding, BusyIsTrue, TypeOK
<1>2. CASE ~busy
  BY <1>2, NotBusy DEF Decode, Copy, Outstanding
<1> QED BY <1>1, <1>2 DEF TypeOK

\* Each action keeps the flag true.
LEMMA BusyStep == IInv /\ [Next]_vars => BusyIsTrue'
<1> SUFFICES ASSUME IInv, [Next]_vars PROVE BusyIsTrue'
  OBVIOUS
<1> USE DEF IInv
<1>1. CASE Mark
  <2> DEFINE forced == schedule[mark] = "clear" /\ busy
  <2>1. Remember(forced) /\ forced \in BOOLEAN
    BY <1>1 DEF Mark, TypeOK
  <2>2. UNCHANGED <<pc, finished>>
    BY <1>1 DEF Mark, pipe
  <2>3. ASSUME ~disturbed, ~forced
        PROVE  Outstanding' = (IF busy' THEN 1 ELSE 0)
    <3>1. CASE schedule[mark] = "clear" /\ ClearHung
      <4>1. UNCHANGED <<busy, start>>
        BY <3>1, <2>3 DEF ClearHung, TypeOK
      <4> QED BY <4>1, <2>2, <2>3 DEF Outstanding, BusyIsTrue
    <3>2. CASE schedule[mark] = "decode" /\ Decode(TRUE)
      BY <3>2, <2>2, <2>3, DecodeBusy
    <3> QED BY <1>1, <3>1, <3>2 DEF Mark
  <2> HIDE DEF forced
  <2> QED BY <2>1, <2>3, TrueAfter
<1>2. CASE ReadFromStdout
  <2>1. Remember(FALSE) /\ UNCHANGED <<start, pc>>
    BY <1>2 DEF ReadFromStdout, jt9
  <2>2. ASSUME ~disturbed PROVE Outstanding' = (IF busy' THEN 1 ELSE 0)
    <3>1. CASE finished > 0 /\ finished' = finished - 1 /\ DecodeDone
      <4>1. ~start /\ pc # "decoding" /\ finished = 1
        BY <3>1, <2>2, Busy, NotBusy DEF TypeOK
      <4> QED BY <4>1, <3>1, <2>1 DEF DecodeDone, Outstanding
    <3>2. CASE finished = 0 /\ UNCHANGED <<finished, busy, done>>
      BY <3>2, <2>1, <2>2 DEF Outstanding, BusyIsTrue
    <3> QED BY <1>2, <3>1, <3>2 DEF ReadFromStdout
  <2> QED BY <2>1, <2>2, TrueAfter
<1>3. CASE ClickDecode
  <2>1. Remember(FALSE) /\ Decode(FALSE) /\ UNCHANGED <<pc, finished>>
    BY <1>3 DEF ClickDecode, Act, pipe
  <2> QED BY <2>1, DecodeBusy, TrueAfter
<1>4. CASE RightClickDecode
  <2>1. Remember(busy) /\ busy \in BOOLEAN
    BY <1>4 DEF RightClickDecode, TypeOK
  <2>2. ~busy => UNCHANGED <<busy, start, pc, finished>>
    BY <1>4 DEF RightClickDecode, ClearHung, Act, pipe
  <2>3. ~disturbed /\ ~busy => Outstanding' = (IF busy' THEN 1 ELSE 0)
    BY <2>2 DEF Outstanding, BusyIsTrue
  <2> QED BY <2>1, <2>3, TrueAfter
<1>5. CASE ToggleCQOnly
  <2>1. Remember(busy) /\ busy \in BOOLEAN
    BY <1>5 DEF ToggleCQOnly, TypeOK
  <2>2. start' /\ busy' /\ UNCHANGED <<pc, finished>>
    BY <1>5 DEF ToggleCQOnly, Act, pipe
  <2>3. ~disturbed /\ ~busy => Outstanding' = (IF busy' THEN 1 ELSE 0)
    BY <2>2, NotBusy DEF Outstanding
  <2> QED BY <2>1, <2>3, TrueAfter
<1>6. CASE SwitchToFT2
  <2>1. Remember(busy) /\ busy \in BOOLEAN
    BY <1>6 DEF SwitchToFT2, TypeOK
  <2>2. ~busy' /\ UNCHANGED <<start, pc, finished>>
    BY <1>6 DEF SwitchToFT2, DecodeDone, Act, pipe
  <2>3. ~disturbed /\ ~busy => Outstanding' = (IF busy' THEN 1 ELSE 0)
    BY <2>2, NotBusy DEF Outstanding
  <2> QED BY <2>1, <2>3, TrueAfter
<1>7. CASE ChangeMode
  BY <1>7 DEF ChangeMode, Act, pipe, BusyIsTrue, Outstanding
<1>8. CASE PollStart
  <2>1. Remember(FALSE) /\ UNCHANGED <<busy, finished>>
    BY <1>8 DEF PollStart, gui, pipe
  <2>2. ~disturbed => Outstanding' = (IF busy' THEN 1 ELSE 0)
    BY <1>8, <2>1 DEF PollStart, Outstanding, BusyIsTrue, TypeOK
  <2> QED BY <2>1, <2>2, TrueAfter
<1>9. CASE Output
  BY <1>9 DEF Output, gui, shared, jt9, BusyIsTrue, Outstanding
<1>10. CASE Finish
  <2>1. Remember(FALSE) /\ UNCHANGED <<busy, start>> /\ pc = "decoding"
        /\ pc' = "waiting" /\ finished' = finished + 1
    BY <1>10 DEF Finish, gui, shared
  <2>2. ~disturbed => Outstanding' = (IF busy' THEN 1 ELSE 0)
    BY <2>1 DEF Outstanding, BusyIsTrue, TypeOK
  <2> QED BY <2>1, <2>2, TrueAfter
<1>11. CASE PollDone
  <2>1. Remember(FALSE) /\ UNCHANGED <<busy, start, finished>>
        /\ pc # "decoding" /\ pc' # "decoding"
    BY <1>11 DEF PollDone, gui, pipe
  <2>2. ~disturbed => Outstanding' = (IF busy' THEN 1 ELSE 0)
    BY <2>1 DEF Outstanding, BusyIsTrue, TypeOK
  <2> QED BY <2>1, <2>2, TrueAfter
<1>12. CASE UNCHANGED vars
  BY <1>12 DEF vars, gui, shared, jt9, pipe, BusyIsTrue, Outstanding
<1> QED
  BY <1>1, <1>2, <1>3, <1>4, <1>5, <1>6, <1>7, <1>8, <1>9, <1>10, <1>11, <1>12
     DEF Next, Window, Decoder

-----------------------------------------------------------------------------
\* Under a torn decode nothing is at rest, so the disturbance is remembered.
LEMMA TornRemembered ==
  ASSUME NEW forced \in BOOLEAN, TornDecoding, TypeOK, Remember(forced),
         UNCHANGED <<torn, pc>>
  PROVE  TornDecoding'
BY DEF TornDecoding, Remember, AtRest, TypeOK

\* Samples are replaced under a decode only where the flag is not true.
LEMMA TornByDecode ==
  ASSUME IInv, NEW newdat \in BOOLEAN, Decode(newdat), UNCHANGED pc,
         Remember(FALSE)
  PROVE  TornDecoding'
<1> USE DEF IInv
<1>1. CASE busy
  BY <1>1, TornRemembered DEF Decode
<1>2. CASE ~busy /\ ~disturbed
  <2>1. pc # "decoding" /\ ~torn
    BY <1>2, NotBusy DEF TornDecoding
  <2> QED BY <1>2, <2>1 DEF Decode, Copy, TornDecoding
<1>3. CASE ~busy /\ disturbed
  BY <1>3 DEF Decode, Copy, TornDecoding, Remember, AtRest
<1> QED BY <1>1, <1>2, <1>3 DEF TypeOK

\* Each action keeps the samples of an undisturbed decode.
LEMMA TornStep == IInv /\ [Next]_vars => TornDecoding'
<1> SUFFICES ASSUME IInv, [Next]_vars PROVE TornDecoding'
  OBVIOUS
<1> USE DEF IInv
<1>1. CASE Mark
  <2>1. UNCHANGED pc /\ Remember(schedule[mark] = "clear" /\ busy)
    BY <1>1 DEF Mark
  <2>2. CASE schedule[mark] = "clear" /\ ClearHung
    <3>1. UNCHANGED torn
      BY <2>2 DEF ClearHung
    <3> QED BY <2>1, <3>1, TornRemembered DEF TypeOK
  <2>3. CASE schedule[mark] = "decode" /\ Decode(TRUE)
    <3>1. Remember(FALSE)
      BY <2>1, <2>3 DEF Remember
    <3> QED BY <2>1, <2>3, <3>1, TornByDecode
  <2> QED BY <1>1, <2>2, <2>3 DEF Mark
<1>2. CASE ReadFromStdout
  BY <1>2, TornRemembered DEF ReadFromStdout, jt9
<1>3. CASE ClickDecode
  BY <1>3, TornByDecode DEF ClickDecode, Act
<1>4. CASE RightClickDecode
  BY <1>4, TornRemembered DEF RightClickDecode, ClearHung, Act, TypeOK
<1>5. CASE ToggleCQOnly
  BY <1>5, TornRemembered DEF ToggleCQOnly, Act, TypeOK
<1>6. CASE SwitchToFT2
  BY <1>6, TornRemembered DEF SwitchToFT2, Act, TypeOK
<1>7. CASE ChangeMode
  BY <1>7 DEF ChangeMode, Act, TornDecoding
<1>8. CASE PollStart
  BY <1>8 DEF PollStart, TornDecoding
<1>9. CASE Output
  BY <1>9 DEF Output, jt9, TornDecoding
<1>10. CASE Finish
  BY <1>10 DEF Finish, TornDecoding
<1>11. CASE PollDone
  BY <1>11 DEF PollDone, TornDecoding
<1>12. CASE UNCHANGED vars
  BY <1>12 DEF vars, jt9, TornDecoding
<1> QED
  BY <1>1, <1>2, <1>3, <1>4, <1>5, <1>6, <1>7, <1>8, <1>9, <1>10, <1>11, <1>12
     DEF Next, Window, Decoder

-----------------------------------------------------------------------------
\* The inductive invariant holds in every reachable state of the hand-shake.
THEOREM Inductive == Spec => []IInv
<1>1. IInv /\ [Next]_vars => IInv'
  BY TypeStep, BusyStep, TornStep DEF IInv
<1> QED BY InitIInv, <1>1, PTL DEF Spec

\* Every reachable state is well typed: no end of a decode is read that jt9 has
\* not written.
THEOREM TypeCorrect == Spec => []TypeOK
<1>1. IInv => TypeOK
  BY DEF IInv
<1> QED BY Inductive, <1>1, PTL

\* m_decoderBusy is set exactly while one decode is outstanding, until it is
\* forced.
THEOREM BusyTrue == Spec => []BusyIsTrue
<1>1. IInv => BusyIsTrue
  BY DEF IInv
<1> QED BY Inductive, <1>1, PTL

\* decode () never replaces the samples of a decode under way, until the flag is
\* forced.
THEOREM SamplesKept == Spec => []SamplesStay
<1>1. IInv => SamplesStay
  BY DEF IInv, TornDecoding, SamplesStay
<1> QED BY Inductive, <1>1, PTL
=============================================================================
