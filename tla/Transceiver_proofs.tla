------------------------- MODULE Transceiver_proofs -------------------------
(***************************************************************************)
(* What the slots of a Transceiver object preserve, for every context.     *)
(* First every operator of module Transceiver gets one lemma, in the order *)
(* of their definitions, about types, numbers and PTT.  The second part    *)
(* is about the hold-off: what an object knows of the radio while it is    *)
(* the only one that drives it (Faithful), and that an update which a poll *)
(* then signals shows the dial (Truthful).                                 *)
(***************************************************************************)
EXTENDS Transceiver, TLAPS

\* Every signal emitted so far carries the object, its last command and the
\* kind of the slot; it is a signal.
Stamped(c) ==
  \A k \in DOMAIN c.out :
     /\ c.out[k].seq = c.o.seq
     /\ c.out[k].from = c.id
     /\ c.out[k].cause = c.cause
     /\ c.out[k].sig # "retry"

\* A keyed radio has a connected object, or refused to be unkeyed.
Unkeyed(c) == c.r.ptt => c.r.unkeyFailed

Held(c) == c.o.requested.online \/ Unkeyed(c)

\* d is a later context of the same slot.
Follows(c, d) ==
  /\ d \in Context
  /\ d.id = c.id
  /\ d.cause = c.cause
  /\ d.o.seq = c.o.seq
  /\ d.o.life = c.o.life
  /\ d.o.mode = c.o.mode
  /\ Stamped(c) => Stamped(d)

\* ... reached by back end calls only.
Calling(c, d) ==
  /\ Follows(c, d)
  /\ d.out = c.out
  /\ d.o.requested.online = c.o.requested.online

\* ... which leave the transmitter alone.
SamePtt(c, d) == d.r.ptt = c.r.ptt /\ d.r.unkeyFailed = c.r.unkeyFailed

-----------------------------------------------------------------------------

LEMMA OfflineType == Offline \in TransceiverState
  BY DEF Offline, TransceiverState

\* The shape of every change that a back end call makes.
Changed(c, r, actual, requested, next, retries) ==
  [c EXCEPT !.r = r,
            !.o = [c.o EXCEPT !.actual = actual, !.requested = requested,
                              !.next = next, !.retries = retries]]

LEMMA BackEnd ==
  ASSUME NEW c \in Context, NEW r \in Radio, NEW a \in TransceiverState,
         NEW q \in TransceiverState, NEW n \in TransceiverState,
         NEW k \in 0..PollsToStabilize, q.online = c.o.requested.online
  PROVE  Calling(c, Changed(c, r, a, q, n, k)) /\ Changed(c, r, a, q, n, k).r = r
  <1> DEFINE o == [c.o EXCEPT !.actual = a, !.requested = q,
                              !.next = n, !.retries = k]
             d == Changed(c, r, a, q, n, k)
  <1>1. o \in Object
    BY DEF Context, Object
  <1>2. o.seq = c.o.seq /\ o.life = c.o.life /\ o.mode = c.o.mode /\ o.requested = q
    BY DEF Context, Object
  <1>3. d = [c EXCEPT !.r = r, !.o = o]
    BY DEF Changed
  <1> HIDE DEF o, d
  <1>4. /\ d \in Context /\ d.r = r /\ d.o = o
        /\ d.id = c.id /\ d.cause = c.cause /\ d.out = c.out
    BY <1>1, <1>3 DEF Context
  <1> QED
    BY <1>2, <1>4 DEF Calling, Follows, Stamped, d

LEMMA ThrowCalls ==
  ASSUME NEW c \in Context
  PROVE  Calling(c, Throw(c)) /\ SamePtt(c, Throw(c))
  <1>1. /\ Throw(c) \in Context /\ Throw(c).r = c.r /\ Throw(c).o = c.o
        /\ Throw(c).id = c.id /\ Throw(c).cause = c.cause /\ Throw(c).out = c.out
    BY DEF Context, Throw
  <1> QED
    BY <1>1 DEF Calling, Follows, Stamped, SamePtt

LEMMA SelfCalls ==
  ASSUME NEW c \in Context
  PROVE  Calling(c, c) /\ SamePtt(c, c)
  BY DEF Calling, Follows, SamePtt

LEMMA CallingTrans ==
  ASSUME NEW c, NEW d, NEW e, Calling(c, d), Calling(d, e)
  PROVE  Calling(c, e)
  BY DEF Calling, Follows

LEMMA FollowsTrans ==
  ASSUME NEW c, NEW d, NEW e, Follows(c, d), Follows(d, e)
  PROVE  Follows(c, e)
  BY DEF Follows

LEMMA TryCalls ==
  ASSUME NEW c \in Context, NEW call, NEW done, Calling(c, done)
  PROVE  /\ Calling(c, Try(c, call, done))
         /\ SamePtt(c, done) => SamePtt(c, Try(c, call, done))
  BY ThrowCalls, SelfCalls DEF Try

LEMMA ExpectingType ==
  ASSUME NEW c \in Context, NEW changed
  PROVE  Expecting(c, changed) \in 0..PollsToStabilize
  BY ConstAssumption DEF Expecting, Context, Object

LEMMA DoPttCalls ==
  ASSUME NEW c \in Context, NEW on \in BOOLEAN
  PROVE  /\ Calling(c, DoPtt(c, on))
         /\ ~on /\ ~c.thrown => Unkeyed(DoPtt(c, on))
         /\ c.o.requested.online => Held(DoPtt(c, on))
  <1>1. CASE c.thrown
    BY <1>1, SelfCalls DEF DoPtt, Held
  <1>2. CASE ~c.thrown /\ (IF on THEN "pttOn" ELSE "pttOff") \in c.bad
    <2> DEFINE t == Throw(c)
               r == [t.r EXCEPT !.unkeyFailed = IF on THEN c.r.unkeyFailed ELSE TRUE]
               d == [t EXCEPT !.r = r]
    <2>1. DoPtt(c, on) = d
      BY <1>2 DEF DoPtt
    <2>2. /\ t \in Context /\ t.r = c.r /\ t.o = c.o
          /\ t.id = c.id /\ t.cause = c.cause /\ t.out = c.out
      BY DEF Context, Throw
    <2>3. r \in Radio /\ (~on => r.unkeyFailed)
      BY <2>2 DEF Context, Radio
    <2> HIDE DEF t, r
    <2>4. /\ d \in Context /\ d.r = r /\ d.o = c.o
          /\ d.id = c.id /\ d.cause = c.cause /\ d.out = c.out
      BY <2>2, <2>3 DEF Context
    <2> QED
      BY <2>1, <2>3, <2>4 DEF Calling, Follows, Stamped, Held, Unkeyed
  <1>3. CASE ~c.thrown /\ (IF on THEN "pttOn" ELSE "pttOff") \notin c.bad
    <2> DEFINE r == [c.r EXCEPT !.ptt = on, !.unkeyFailed = FALSE]
               a == [c.o.actual EXCEPT !.ptt = on]
               n == [c.o.next EXCEPT !.ptt = on]
               k == Expecting(c, c.o.next.ptt # on)
               q == c.o.requested
    <2>1. DoPtt(c, on) = Changed(c, r, a, q, n, k)
      <3>1. [c.o EXCEPT !.actual.ptt = on, !.next.ptt = on, !.retries = k]
              = [c.o EXCEPT !.actual = a, !.requested = q, !.next = n,
                            !.retries = k]
        BY DEF Context, Object
      <3> QED
        BY <1>3, <3>1 DEF DoPtt, Changed
    <2>2. r \in Radio /\ r.ptt = on
      BY DEF Context, Radio
    <2>3. a \in TransceiverState /\ n \in TransceiverState /\ q \in TransceiverState
      BY DEF Context, Object, TransceiverState
    <2>4. k \in 0..PollsToStabilize
      BY ExpectingType
    <2>5. q.online = c.o.requested.online
      OBVIOUS
    <2> HIDE DEF r, a, n, k, q
    <2>6. /\ Calling(c, Changed(c, r, a, q, n, k))
          /\ Changed(c, r, a, q, n, k).r = r
      BY <2>2, <2>3, <2>4, <2>5, BackEnd
    <2> QED
      BY <2>1, <2>2, <2>6 DEF Calling, Held, Unkeyed
  <1> QED
    BY <1>1, <1>2, <1>3

LEMMA DoFrequencyCalls ==
  ASSUME NEW c \in Context, NEW f \in Freqs
  PROVE  Calling(c, DoFrequency(c, f)) /\ SamePtt(c, DoFrequency(c, f))
  <1> DEFINE r == [c.r EXCEPT !.freq = f, !.settling = TRUE]
             a == [c.o.actual EXCEPT !.freq = f]
             q == [c.o.requested EXCEPT !.freq = f]
             n == [c.o.next EXCEPT !.freq = f]
             k == Expecting(c, c.o.next.freq # f)
  <1>1. DoFrequency(c, f) = Try(c, "freq", Changed(c, r, a, q, n, k))
    <2>1. [c.o EXCEPT !.actual.freq = f, !.requested.freq = f,
                      !.next.freq = f, !.retries = k]
            = [c.o EXCEPT !.actual = a, !.requested = q, !.next = n,
                          !.retries = k]
      BY DEF Context, Object
    <2> QED
      BY <2>1 DEF DoFrequency, Changed
  <1>2. r \in Radio /\ r.ptt = c.r.ptt /\ r.unkeyFailed = c.r.unkeyFailed
    BY DEF Context, Radio
  <1>3. /\ a \in TransceiverState /\ n \in TransceiverState
        /\ q \in TransceiverState /\ q.online = c.o.requested.online
    BY DEF Context, Object, TransceiverState
  <1>4. k \in 0..PollsToStabilize
    BY ExpectingType
  <1> HIDE DEF r, a, n, k, q
  <1>5. /\ Calling(c, Changed(c, r, a, q, n, k))
        /\ Changed(c, r, a, q, n, k).r = r
    BY <1>2, <1>3, <1>4, BackEnd
  <1> QED
    BY <1>1, <1>2, <1>5, TryCalls DEF SamePtt

\* A change of the object alone that keeps what Calling compares.
LEMMA ObjectChange ==
  ASSUME NEW c \in Context, NEW o \in Object, o.seq = c.o.seq,
         o.life = c.o.life /\ o.mode = c.o.mode
  PROVE  LET d == [c EXCEPT !.o = o] IN
         /\ Follows(c, d) /\ SamePtt(c, d) /\ d.o = o /\ d.r = c.r
         /\ d.thrown = c.thrown /\ d.bad = c.bad /\ d.faulty = c.faulty /\ d.out = c.out
         /\ o.requested.online = c.o.requested.online => Calling(c, d)
  <1> DEFINE d == [c EXCEPT !.o = o]
  <1>1. /\ d \in Context /\ d.r = c.r /\ d.o = o /\ d.id = c.id /\ d.cause = c.cause
        /\ d.out = c.out /\ d.thrown = c.thrown /\ d.bad = c.bad /\ d.faulty = c.faulty
    BY DEF Context
  <1> HIDE DEF d
  <1>2. /\ Follows(c, d) /\ SamePtt(c, d)
        /\ o.requested.online = c.o.requested.online => Calling(c, d)
    BY <1>1 DEF Calling, Follows, Stamped, SamePtt
  <1> QED
    BY <1>1, <1>2 DEF d

LEMMA SplitType == ASSUME NEW f PROVE IsSplit(f) \in BOOLEAN
  BY DEF IsSplit

LEMMA AskTxFrequencyCalls ==
  ASSUME NEW c \in Context, NEW f \in Freqs \cup {NoFreq}
  PROVE  LET d == AskTxFrequency(c, f) IN
         Calling(c, d) /\ SamePtt(c, d) /\ d.r = c.r /\ d.thrown = c.thrown
  <1> DEFINE q == [c.o.requested EXCEPT !.tx = f, !.split = IsSplit(f)]
             o == [c.o EXCEPT !.requested = q]
  <1>1. q \in TransceiverState /\ q.online = c.o.requested.online
    BY SplitType DEF Context, Object, TransceiverState
  <1>2. o = [c.o EXCEPT !.requested.tx = f, !.requested.split = IsSplit(f)]
    BY DEF Context, Object
  <1>3. /\ o \in Object /\ o.seq = c.o.seq /\ o.life = c.o.life /\ o.mode = c.o.mode
        /\ o.requested.online = c.o.requested.online
    <2> HIDE DEF q
    <2> QED
      BY <1>1 DEF Context, Object
  <1> HIDE DEF o
  <1> QED
    BY <1>2, <1>3, ObjectChange DEF AskTxFrequency

LEMMA DoTxFrequencyCalls ==
  ASSUME NEW c \in Context, NEW f \in Freqs \cup {NoFreq}
  PROVE  Calling(c, DoTxFrequency(c, f)) /\ SamePtt(c, DoTxFrequency(c, f))
  <1> DEFINE b == AskTxFrequency(c, f)
             r == [b.r EXCEPT !.tx = f, !.settling = TRUE]
             a == [b.o.actual EXCEPT !.tx = f, !.split = IsSplit(f)]
             x == ExpectedSplit(c, f)
             n == [b.o.next EXCEPT !.tx = f, !.split = x]
             q == b.o.requested
             k == Expecting(c, c.o.next.tx # f)
  <1>1. Calling(c, b) /\ SamePtt(c, b)
    BY AskTxFrequencyCalls
  <1>2. b \in Context
    BY <1>1 DEF Calling, Follows
  <1> HIDE DEF b
  <1>3. DoTxFrequency(c, f)
          = IF c.thrown THEN c ELSE Try(b, "tx", Changed(b, r, a, q, n, k))
    <2>1. [b.o EXCEPT !.actual.tx = f, !.actual.split = IsSplit(f),
                      !.next.tx = f, !.next.split = x, !.retries = k]
            = [b.o EXCEPT !.actual = a, !.requested = q, !.next = n,
                          !.retries = k]
      <3> HIDE DEF x, k
      <3> QED
        BY <1>2 DEF Context, Object
    <2> QED
      <3>1. DoTxFrequency(c, f)
              = IF c.thrown THEN c
                ELSE Try(b, "tx",
                         [b EXCEPT !.r = r,
                                   !.o = [b.o EXCEPT !.actual.tx = f,
                                            !.actual.split = IsSplit(f),
                                            !.next.tx = f, !.next.split = x,
                                            !.retries = k]])
        BY DEF DoTxFrequency, b
      <3>2. Changed(b, r, a, q, n, k)
              = [b EXCEPT !.r = r,
                          !.o = [b.o EXCEPT !.actual.tx = f,
                                            !.actual.split = IsSplit(f),
                                            !.next.tx = f, !.next.split = x,
                                            !.retries = k]]
        <4> HIDE DEF a, q, n, x, k, r, b
        <4> QED BY <2>1 DEF Changed
      <3> QED
        BY <3>1, <3>2
  <1>4. r \in Radio /\ r.ptt = b.r.ptt /\ r.unkeyFailed = b.r.unkeyFailed
    BY <1>2 DEF Context, Radio
  <1>5. /\ a \in TransceiverState /\ n \in TransceiverState
        /\ q \in TransceiverState /\ q.online = b.o.requested.online
    <2>1. x \in BOOLEAN
      <3>1. c.o.next.split \in BOOLEAN
        BY DEF Context, Object, TransceiverState
      <3> QED
        BY <3>1, SplitType DEF ExpectedSplit
    <2> HIDE DEF x
    <2> QED
      BY <1>2, <2>1, SplitType, ZenonT(30) DEF Context, Object, TransceiverState
  <1>6. k \in 0..PollsToStabilize
    BY ExpectingType
  <1> HIDE DEF r, a, n, k, q
  <1>7. /\ Calling(b, Changed(b, r, a, q, n, k))
        /\ SamePtt(b, Changed(b, r, a, q, n, k))
    BY <1>2, <1>4, <1>5, <1>6, BackEnd DEF SamePtt
  <1>8. /\ Calling(b, Try(b, "tx", Changed(b, r, a, q, n, k)))
        /\ SamePtt(b, Try(b, "tx", Changed(b, r, a, q, n, k)))
    BY <1>2, <1>7, TryCalls
  <1>9. /\ Calling(c, Try(b, "tx", Changed(b, r, a, q, n, k)))
        /\ SamePtt(c, Try(b, "tx", Changed(b, r, a, q, n, k)))
    BY <1>1, <1>8, CallingTrans DEF SamePtt
  <1> QED
    BY <1>3, <1>9, SelfCalls

LEMMA ShowPttCalls ==
  ASSUME NEW c \in Context, NEW on \in BOOLEAN
  PROVE  Calling(c, ShowPtt(c, on)) /\ SamePtt(c, ShowPtt(c, on))
  <1> DEFINE a == [c.o.actual EXCEPT !.ptt = on]
             o == [c.o EXCEPT !.actual = a]
  <1>1. a \in TransceiverState
    BY DEF Context, Object, TransceiverState
  <1>2. /\ o \in Object /\ o.seq = c.o.seq /\ o.life = c.o.life /\ o.mode = c.o.mode
        /\ o.requested = c.o.requested
    <2> HIDE DEF a
    <2> QED
      BY <1>1 DEF Context, Object
  <1>3. ShowPtt(c, on) = [c EXCEPT !.o = o]
    BY DEF ShowPtt
  <1> HIDE DEF o
  <1> QED
    BY <1>2, <1>3, ObjectChange

LEMMA DoTuneCalls ==
  ASSUME NEW c \in Context, NEW on \in BOOLEAN
  PROVE  Calling(c, DoTune(c, on)) /\ SamePtt(c, DoTune(c, on))
  <1> DEFINE b == ShowPtt(c, TRUE)
             e == ShowPtt(c, FALSE)
  <1>1. Calling(c, b) /\ SamePtt(c, b) /\ Calling(c, e) /\ SamePtt(c, e)
    BY ShowPttCalls
  <1>2. Calling(b, e) /\ SamePtt(b, e)
    <2>1. b.out = c.out /\ b.o.seq = c.o.seq /\ b.id = c.id /\ b.cause = c.cause
      BY <1>1 DEF Calling, Follows
    <2>2. Stamped(b) => Stamped(c)
      BY <2>1 DEF Stamped
    <2> QED
      BY <1>1, <2>2 DEF Calling, Follows, SamePtt
  <1>3. b \in Context
    BY <1>1 DEF Calling, Follows
  <1>4. Calling(b, Try(b, "tune", e)) /\ SamePtt(b, Try(b, "tune", e))
    <2> HIDE DEF b, e
    <2> QED
      BY <1>2, <1>3, TryCalls
  <1>5. Calling(c, Try(b, "tune", e)) /\ SamePtt(c, Try(b, "tune", e))
    <2> HIDE DEF b, e
    <2> QED
      BY <1>1, <1>4, CallingTrans DEF SamePtt
  <1> QED
    BY <1>5, SelfCalls DEF DoTune

LEMMA DoPollCalls ==
  ASSUME NEW c \in Context, NEW call, NEW reading \in Freqs
  PROVE  Calling(c, DoPoll(c, call, reading)) /\ SamePtt(c, DoPoll(c, call, reading))
  <1> DEFINE split == IsSplit(c.r.tx)
             blind == c.o.actual.ptt /\ split
             af == IF blind THEN c.o.actual.freq ELSE reading
             qf == IF blind THEN c.o.requested.freq ELSE reading
             at == IF split THEN c.r.tx ELSE c.o.actual.tx
             rs == c.r.settling /\ reading # c.r.freq
             kn == c.o.actual.known \/ ~blind
             r == [c.r EXCEPT !.settling = rs]
             a == [c.o.actual EXCEPT !.split = split, !.known = kn, !.tx = at,
                                     !.freq = af, !.ptt = c.r.ptt]
             q == [c.o.requested EXCEPT !.freq = qf]
             o == [c.o EXCEPT !.actual = a, !.requested = q]
  <1>1. /\ af \in Freqs \cup {NoFreq} /\ qf \in Freqs \cup {NoFreq}
        /\ at \in Freqs \cup {NoFreq} /\ split \in BOOLEAN
        /\ c.r.ptt \in BOOLEAN
    BY SplitType DEF Context, Object, TransceiverState, Radio
  <1>2. rs \in BOOLEAN /\ kn \in BOOLEAN
    OBVIOUS
  <1>3. DoPoll(c, call, reading) = Try(c, call, [c EXCEPT !.r = r, !.o = o])
    <2> HIDE DEF af, qf, at, rs, kn
    <2>1. o = [c.o EXCEPT !.actual.split = split, !.actual.known = kn,
                          !.actual.tx = at,
                          !.actual.freq = af, !.requested.freq = qf,
                          !.actual.ptt = c.r.ptt]
      BY ZenonT(30) DEF Context, Object, TransceiverState
    <2> QED
      BY <2>1, Zenon DEF DoPoll, r, af, qf, at, rs, kn
  <1>4. r \in Radio /\ r.ptt = c.r.ptt /\ r.unkeyFailed = c.r.unkeyFailed
    <2> HIDE DEF rs
    <2> QED
      BY <1>2 DEF Context, Radio
  <1>5. /\ a \in TransceiverState /\ q \in TransceiverState
        /\ q.online = c.o.requested.online
    <2>1. c.o.actual \in TransceiverState /\ c.o.requested \in TransceiverState
      BY DEF Context, Object
    <2> HIDE DEF af, qf, at, kn, split
    <2>2. a \in TransceiverState
      BY <1>1, <1>2, <2>1 DEF TransceiverState
    <2>3. q \in TransceiverState /\ q.online = c.o.requested.online
      BY <1>1, <2>1 DEF TransceiverState
    <2> QED
      BY <2>2, <2>3
  <1>6. /\ o \in Object /\ o.seq = c.o.seq /\ o.life = c.o.life /\ o.mode = c.o.mode
        /\ o.requested = q
    <2> HIDE DEF a, q
    <2> QED
      BY <1>5 DEF Context, Object
  <1> DEFINE d == [c EXCEPT !.r = r, !.o = o]
  <1>7. Calling(c, d) /\ SamePtt(c, d)
    <2> HIDE DEF r, o
    <2>1. /\ d \in Context /\ d.r = r /\ d.o = o /\ d.id = c.id /\ d.cause = c.cause
          /\ d.out = c.out
      BY <1>4, <1>6 DEF Context
    <2> HIDE DEF d
    <2> QED
      BY <1>4, <1>5, <1>6, <2>1 DEF Calling, Follows, Stamped, SamePtt
  <1> QED
    <2> HIDE DEF d
    <2>1. Calling(c, Try(c, call, d)) /\ SamePtt(c, Try(c, call, d))
      BY <1>7, TryCalls
    <2> QED
      BY <1>3, <2>1 DEF d

-----------------------------------------------------------------------------
(* Signals.                                                                *)

LEMMA EmitFollows ==
  ASSUME NEW c \in Context, NEW sig \in {"update", "failure"},
         NEW state \in TransceiverState
  PROVE  LET d == Emit(c, sig, state) IN
         /\ Follows(c, d) /\ d.o = c.o /\ d.r = c.r
         /\ d.thrown = c.thrown /\ d.bad = c.bad /\ d.faulty = c.faulty
  <1> DEFINE e == [sig |-> sig, state |-> state, seq |-> c.o.seq,
                   from |-> c.id, truth |-> c.r.freq, cause |-> c.cause]
             out == Append(c.out, e)
             d == [c EXCEPT !.out = out]
  <1>1. e \in Signal
    BY DEF Context, Object, Radio, Signal
  <1>2. e.seq = c.o.seq /\ e.from = c.id /\ e.cause = c.cause /\ e.sig # "retry"
    OBVIOUS
  <1> HIDE DEF e
  <1>3. c.out \in Seq(Signal)
    BY DEF Context
  <1>4. /\ out \in Seq(Signal)
        /\ \A k \in DOMAIN out : out[k] = e \/ (k \in DOMAIN c.out /\ out[k] = c.out[k])
    BY <1>1, <1>3
  <1> HIDE DEF out
  <1>5. /\ d \in Context /\ d.o = c.o /\ d.r = c.r /\ d.id = c.id /\ d.cause = c.cause
        /\ d.out = out /\ d.thrown = c.thrown /\ d.bad = c.bad /\ d.faulty = c.faulty
    BY <1>4 DEF Context
  <1>6. Emit(c, sig, state) = d
    BY DEF Emit, out, e
  <1> HIDE DEF d
  <1> QED
    BY <1>2, <1>4, <1>5, <1>6 DEF Follows, Stamped

LEMMA WrappedFollows ==
  ASSUME NEW c \in Context, NEW state \in TransceiverState
  PROVE  LET d == Wrapped(c, state) IN
         /\ Follows(c, d) /\ d.o = c.o /\ d.r = c.r
         /\ d.thrown = c.thrown /\ d.bad = c.bad /\ d.faulty = c.faulty
  <1> DEFINE f == IF state.ptt THEN c.o.rx ELSE state.freq
             s == [state EXCEPT !.freq = f, !.tx = c.o.tx, !.split = c.o.split]
  <1>1. f \in Freqs \cup {NoFreq}
    BY DEF Context, Object, TransceiverState
  <1>2. s \in TransceiverState
    <2> HIDE DEF f
    <2> QED
      BY <1>1 DEF Context, Object, TransceiverState
  <1>3. \/ Wrapped(c, state) = Emit(c, "update", state)
        \/ Wrapped(c, state) = Emit(c, "failure", Offline)
        \/ Wrapped(c, state) = Emit(c, "update", s)
    BY Zenon DEF Wrapped
  <1> HIDE DEF s
  <1> QED
    BY <1>2, <1>3, EmitFollows, OfflineType

LEMMA UpdateCompleteFollows ==
  ASSUME NEW c \in Context, NEW force \in BOOLEAN
  PROVE  LET d == UpdateComplete(c, force) IN
         /\ Follows(c, d) /\ d.r = c.r /\ d.o.requested = c.o.requested
         /\ d.o.retries = c.o.retries /\ d.o.actual = c.o.actual
         /\ d.o.next = c.o.next /\ d.o.polling = c.o.polling
         /\ d.thrown = c.thrown /\ d.bad = c.bad /\ d.faulty = c.faulty
  <1> DEFINE w == Wrapped(c, c.o.actual)
             o == [w.o EXCEPT !.last = c.o.actual]
             d == [w EXCEPT !.o = o]
  <1>1. c.o.actual \in TransceiverState
    BY DEF Context, Object
  <1>2. /\ Follows(c, w) /\ w.o = c.o /\ w.r = c.r
        /\ w.thrown = c.thrown /\ w.bad = c.bad /\ w.faulty = c.faulty
    BY <1>1, WrappedFollows
  <1>3. w \in Context
    BY <1>2 DEF Follows
  <1> HIDE DEF w
  <1>4. /\ o \in Object /\ o.seq = w.o.seq /\ o.life = w.o.life /\ o.mode = w.o.mode
        /\ o.requested = w.o.requested /\ o.retries = w.o.retries
        /\ o.actual = w.o.actual /\ o.next = w.o.next /\ o.polling = w.o.polling
    BY <1>1, <1>3 DEF Context, Object
  <1> HIDE DEF o
  <1>5. /\ Follows(w, d) /\ d.o = o /\ d.r = w.r
        /\ d.thrown = w.thrown /\ d.bad = w.bad /\ d.faulty = w.faulty
    BY <1>3, <1>4, ObjectChange
  <1>6. UpdateComplete(c, force) =
           IF force \/ (~HeldOff(c.o) /\ c.o.actual # c.o.last) THEN d ELSE c
    BY DEF UpdateComplete, w, o
  <1> HIDE DEF d
  <1>7. /\ Follows(c, d)
        /\ d.o.requested = c.o.requested /\ d.o.retries = c.o.retries
        /\ d.o.actual = c.o.actual /\ d.o.next = c.o.next /\ d.o.polling = c.o.polling
    BY <1>2, <1>4, <1>5, FollowsTrans
  <1>8. Follows(c, c)
    BY DEF Follows
  <1> QED
    BY <1>2, <1>5, <1>6, <1>7, <1>8

-----------------------------------------------------------------------------
(* Connecting and disconnecting.                                           *)

LEMMA CaughtCalls ==
  ASSUME NEW c \in Context
  PROVE  LET d == Caught(c) IN
         Calling(c, d) /\ d.r = c.r /\ d.o = c.o /\ ~d.thrown /\ d.faulty = c.faulty
  <1>1. /\ Caught(c) \in Context /\ Caught(c).r = c.r /\ Caught(c).o = c.o
        /\ Caught(c).id = c.id /\ Caught(c).cause = c.cause
        /\ Caught(c).out = c.out /\ ~Caught(c).thrown /\ Caught(c).faulty = c.faulty
    BY DEF Context, Caught
  <1> QED
    BY <1>1 DEF Calling, Follows, Stamped

\* An unkey that starts without a pending exception leaves a radio that
\* receives or that refused the command.
LEMMA UnkeyCalls ==
  ASSUME NEW c \in Context, ~c.thrown
  PROVE  LET d == Unkey(c) IN Calling(c, d) /\ Unkeyed(d) /\ ~d.thrown
  <1> DEFINE p == DoPtt(c, FALSE)
             t == DoTxFrequency(p, NoFreq)
             e == IF c.o.requested.split THEN t ELSE p
  <1>1. Calling(c, p) /\ Unkeyed(p)
    BY DoPttCalls
  <1>2. p \in Context
    BY <1>1 DEF Calling, Follows
  <1> HIDE DEF p
  <1>3. Calling(p, t) /\ SamePtt(p, t)
    BY <1>2, DoTxFrequencyCalls
  <1> HIDE DEF t
  <1>4. Calling(c, e) /\ Unkeyed(e)
    BY <1>1, <1>3, CallingTrans DEF SamePtt, Unkeyed
  <1>5. e \in Context
    BY <1>4 DEF Calling, Follows
  <1>6. Unkey(c) = Caught(e)
    BY DEF Unkey, e, p, t
  <1> HIDE DEF e
  <1>7. Calling(e, Caught(e)) /\ Caught(e).r = e.r /\ ~Caught(e).thrown
    BY <1>5, CaughtCalls
  <1> QED
    BY <1>4, <1>6, <1>7, CallingTrans DEF Unkeyed

\* What every way out of a connection establishes: offline, and a radio that
\* was held by this object is not left transmitting.
Closed(c, d) ==
  /\ Follows(c, d)
  /\ ~d.thrown
  /\ ~d.o.requested.online
  /\ Held(c) => Held(d)

LEMMA ShutdownCloses ==
  ASSUME NEW c \in Context, ~c.thrown
  PROVE  Closed(c, Shutdown(c))
  <1> DEFINE d == IF c.o.requested.online THEN Unkey(c) ELSE c
             o == [d.o EXCEPT !.polling = FALSE, !.actual = Offline,
                              !.requested = Offline]
             e == [d EXCEPT !.o = o]
  <1>1. Calling(c, d) /\ ~d.thrown /\ (Held(c) => Unkeyed(d))
    BY UnkeyCalls, SelfCalls DEF Held
  <1>2. d \in Context
    BY <1>1 DEF Calling, Follows
  <1> HIDE DEF d
  <1>3. /\ o \in Object /\ o.seq = d.o.seq /\ o.life = d.o.life /\ o.mode = d.o.mode
        /\ o.requested = Offline
    BY <1>2, OfflineType DEF Context, Object
  <1> HIDE DEF o
  <1>4. Follows(d, e) /\ e.o = o /\ e.r = d.r /\ e.thrown = d.thrown
    BY <1>2, <1>3, ObjectChange
  <1>5. e \in Context
    BY <1>4 DEF Follows
  <1>6. Shutdown(c) = UpdateComplete(e, FALSE)
    BY DEF Shutdown, d, o
  <1> HIDE DEF e
  <1> DEFINE u == UpdateComplete(e, FALSE)
  <1>7. /\ Follows(e, u) /\ u.r = e.r /\ u.thrown = e.thrown
        /\ u.o.requested = e.o.requested
    BY <1>5, UpdateCompleteFollows
  <1> HIDE DEF u
  <1>8. Follows(c, u)
    BY <1>1, <1>4, <1>7, FollowsTrans DEF Calling
  <1>9. ~u.o.requested.online
    BY <1>3, <1>4, <1>7 DEF Offline
  <1> QED
    BY <1>1, <1>4, <1>6, <1>7, <1>8, <1>9 DEF Closed, Held, Unkeyed, u

LEMMA GoOfflineCloses ==
  ASSUME NEW c \in Context
  PROVE  Closed(c, GoOffline(c))
  <1> DEFINE b == Caught(c)
             e == Emit(b, "failure", Offline)
  <1>1. Follows(c, b) /\ b.r = c.r /\ b.o = c.o /\ ~b.thrown
    BY CaughtCalls DEF Calling
  <1>2. b \in Context
    BY <1>1 DEF Follows
  <1> HIDE DEF b
  <1>3. Follows(b, e) /\ e.o = b.o /\ e.r = b.r /\ ~e.thrown
    BY <1>1, <1>2, EmitFollows, OfflineType
  <1>4. e \in Context
    BY <1>3 DEF Follows
  <1> HIDE DEF e
  <1>5. Closed(e, Shutdown(e))
    BY <1>3, <1>4, ShutdownCloses
  <1>6. GoOffline(c) = Shutdown(e)
    BY DEF GoOffline, e, b
  <1>7. Follows(c, e)
    BY <1>1, <1>3, FollowsTrans
  <1>8. Held(c) => Held(e)
    BY <1>1, <1>3 DEF Held, Unkeyed
  <1> QED
    BY <1>5, <1>6, <1>7, <1>8, FollowsTrans DEF Closed

\* What every slot establishes.
Served(c, d) ==
  /\ Follows(c, d)
  /\ ~d.thrown
  /\ Held(c) => Held(d)

LEMMA ConnectFollows ==
  ASSUME NEW c \in Context
  PROVE  Follows(c, Connect(c)) /\ (Held(c) => Held(Connect(c)))
         /\ Connect(c).o.requested.online
  <1> DEFINE a == [c.o.actual EXCEPT !.online = TRUE]
             q == [c.o.requested EXCEPT !.online = TRUE]
             o == [c.o EXCEPT !.actual = a, !.requested = q]
             b == [c EXCEPT !.o = o]
  <1>1. /\ a \in TransceiverState /\ q \in TransceiverState /\ q.online
    BY DEF Context, Object, TransceiverState
  <1>2. /\ o \in Object /\ o.seq = c.o.seq /\ o.life = c.o.life /\ o.mode = c.o.mode
        /\ o.requested = q
    <2> HIDE DEF a, q
    <2> QED
      BY <1>1 DEF Context, Object
  <1>3. o = [c.o EXCEPT !.actual.online = TRUE, !.requested.online = TRUE]
    BY DEF Context, Object
  <1>4. GoOnline(c) = b
    <2> HIDE DEF o
    <2> QED
      BY <1>3 DEF GoOnline
  <1> HIDE DEF o
  <1>5. Follows(c, b) /\ b.o = o /\ b.r = c.r
    BY <1>2, ObjectChange
  <1>6. b \in Context /\ c.r.freq \in Freqs
    BY <1>5 DEF Follows, Context, Radio
  <1> HIDE DEF b, q
  <1> DEFINE p == DoPoll(b, "start", c.r.freq)
  <1>7. Calling(b, p)
    BY <1>6, DoPollCalls
  <1>8. p \in Context /\ Follows(c, p) /\ p.o.requested.online
    BY <1>1, <1>2, <1>5, <1>7, FollowsTrans DEF Calling, Follows
  <1> DEFINE n == [p.o.next EXCEPT !.online = TRUE]
             k == Expecting(p, ~p.o.next.online)
             u == [p.o EXCEPT !.polling = TRUE, !.next = n, !.retries = k]
             e == [p EXCEPT !.o = u]
  <1>9. Connect(c) = IF p.thrown THEN p ELSE e
    <2>1. Connect(c) = IF p.thrown THEN p
            ELSE [p EXCEPT !.o = [p.o EXCEPT !.polling = TRUE,
                                    !.next.online = TRUE, !.retries = k]]
      BY <1>4 DEF Connect
    <2> HIDE DEF p, k
    <2>2. u = [p.o EXCEPT !.polling = TRUE, !.next.online = TRUE, !.retries = k]
      BY <1>8 DEF Context, Object
    <2> QED
      BY <2>1, <2>2
  <1> HIDE DEF p
  <1>10. k \in 0..PollsToStabilize /\ n \in TransceiverState
    BY <1>8, ExpectingType DEF Context, Object, TransceiverState
  <1>11. /\ u \in Object /\ u.seq = p.o.seq /\ u.life = p.o.life /\ u.mode = p.o.mode
         /\ u.requested = p.o.requested
    <2> HIDE DEF n, k
    <2> QED
      BY <1>8, <1>10 DEF Context, Object
  <1> HIDE DEF u
  <1>12. Follows(p, e) /\ e.o = u
    BY <1>8, <1>11, ObjectChange
  <1>13. Follows(c, e) /\ e.o.requested.online
    BY <1>8, <1>11, <1>12, FollowsTrans
  <1> HIDE DEF e
  <1> QED
    BY <1>8, <1>9, <1>13 DEF Held

LEMMA StartupServes ==
  ASSUME NEW c \in Context
  PROVE  Served(c, Startup(c))
  <1> DEFINE u == Connect(c)
  <1>1. Follows(c, u) /\ (Held(c) => Held(u))
    BY ConnectFollows
  <1>2. u \in Context
    BY <1>1 DEF Follows
  <1>3. Startup(c) = IF u.thrown THEN GoOffline(u) ELSE u
    BY DEF Startup
  <1> HIDE DEF u
  <1>4. Closed(u, GoOffline(u))
    BY <1>2, GoOfflineCloses
  <1> QED
    BY <1>1, <1>3, <1>4, FollowsTrans DEF Served, Closed

-----------------------------------------------------------------------------
(* The slots.                                                              *)

LEMMA NumberedFacts ==
  ASSUME NEW c \in Context, NEW n \in Nat
  PROVE  LET d == Numbered(c, n) IN
         /\ d \in Context /\ d.r = c.r /\ d.id = c.id /\ d.cause = c.cause /\ d.out = c.out
         /\ d.thrown = c.thrown /\ d.o.seq = n /\ d.o.life = c.o.life /\ d.o.mode = c.o.mode
         /\ d.o.requested = c.o.requested
  <1> DEFINE o == [c.o EXCEPT !.seq = n]
  <1>1. /\ o \in Object /\ o.seq = n /\ o.life = c.o.life /\ o.mode = c.o.mode
        /\ o.requested = c.o.requested
    BY DEF Context, Object
  <1>2. Numbered(c, n) = [c EXCEPT !.o = o]
    BY DEF Numbered
  <1> HIDE DEF o
  <1> QED
    BY <1>1, <1>2 DEF Context

LEMMA StartServes ==
  ASSUME NEW c \in Context, ~c.thrown, NEW n \in Nat
  PROVE  Served(Numbered(c, n), Start(c, n))
  <1> DEFINE b == Numbered(c, n)
             s == Shutdown(b)
             u == Startup(s)
             d == UpdateComplete(u, TRUE)
  <1>1. b \in Context /\ ~b.thrown
    BY NumberedFacts
  <1>2. Closed(b, s)
    BY <1>1, ShutdownCloses
  <1>3. s \in Context
    BY <1>2 DEF Closed, Follows
  <1> HIDE DEF s
  <1>4. Served(s, u)
    BY <1>3, StartupServes
  <1>5. u \in Context
    BY <1>4 DEF Served, Follows
  <1> HIDE DEF u
  <1>6. /\ Follows(u, d) /\ d.r = u.r /\ d.o.requested = u.o.requested
        /\ d.thrown = u.thrown
    BY <1>5, UpdateCompleteFollows
  <1>7. Start(c, n) = d
    BY DEF Start, s, u
  <1> HIDE DEF d, b
  <1>8. Served(b, d)
    BY <1>2, <1>4, <1>6, FollowsTrans DEF Closed, Served, Held, Unkeyed
  <1> QED
    BY <1>7, <1>8 DEF b

LEMMA StopServes ==
  ASSUME NEW c \in Context, ~c.thrown
  PROVE  Served(c, Stop(c))
  BY ShutdownCloses DEF Stop, Served, Closed

LEMMA ApplyAudioCalls ==
  ASSUME NEW c \in Context, NEW s \in TransceiverState
  PROVE  Calling(c, ApplyAudio(c, s)) /\ (Held(c) => Held(ApplyAudio(c, s)))
  <1> DEFINE d == DoTune(c, s.tune)
             q == [d.o.requested EXCEPT !.tune = s.tune]
             o == [d.o EXCEPT !.requested = q]
             e == [d EXCEPT !.o = o]
  <1>1. s.tune \in BOOLEAN
    BY DEF TransceiverState
  <1>2. Calling(c, d) /\ SamePtt(c, d)
    BY <1>1, DoTuneCalls
  <1>3. d \in Context
    BY <1>2 DEF Calling, Follows
  <1>4. ApplyAudio(c, s) = IF d.thrown THEN d ELSE e
    <2> HIDE DEF d
    <2>1. o = [d.o EXCEPT !.requested.tune = s.tune]
      BY <1>3 DEF Context, Object
    <2> QED
      BY <2>1 DEF ApplyAudio, d
  <1> HIDE DEF d
  <1>5. q \in TransceiverState /\ q.online = d.o.requested.online
    BY <1>1, <1>3 DEF Context, Object, TransceiverState
  <1>6. /\ o \in Object /\ o.seq = d.o.seq /\ o.life = d.o.life /\ o.mode = d.o.mode
        /\ o.requested = q
    <2> HIDE DEF q
    <2> QED
      BY <1>3, <1>5 DEF Context, Object
  <1> HIDE DEF o, q
  <1>7. Calling(d, e) /\ e.r = d.r
    BY <1>3, <1>5, <1>6, ObjectChange
  <1>8. Calling(c, e)
    BY <1>2, <1>7, CallingTrans
  <1> HIDE DEF e
  <1> QED
    BY <1>2, <1>4, <1>7, <1>8 DEF Calling, SamePtt, Held, Unkeyed

LEMMA ApplyRigCalls ==
  ASSUME NEW c \in Context, NEW s \in TransceiverState, c.o.requested.online
  PROVE  Calling(c, ApplyRig(c, s))
  <1> DEFINE on  == s.ptt /\ ~c.o.requested.ptt
             off == ~s.ptt /\ c.o.requested.ptt
             p   == IF off THEN DoPtt(c, FALSE) ELSE c
             q   == IF s.freq # NoFreq /\ s.freq # c.o.requested.freq
                    THEN DoFrequency(p, s.freq)
                    ELSE IF s.tx # c.o.requested.tx \/ (s.tx # NoFreq /\ on)
                    THEN DoTxFrequency(p, s.tx)
                    ELSE p
             k   == IF on THEN DoPtt(q, TRUE) ELSE q
             r   == [k.o.requested EXCEPT !.ptt = k.o.actual.ptt]
             o   == [k.o EXCEPT !.requested = r]
             e   == [k EXCEPT !.o = o]
  <1>1. Calling(c, p)
    BY DoPttCalls, SelfCalls
  <1>2. p \in Context
    BY <1>1 DEF Calling, Follows
  <1>3. s.freq \in Freqs \cup {NoFreq} /\ s.tx \in Freqs \cup {NoFreq}
    BY DEF TransceiverState
  <1>4. Calling(p, q)
    <2> HIDE DEF p, on
    <2>1. CASE s.freq # NoFreq /\ s.freq # c.o.requested.freq
      BY <1>2, <1>3, <2>1, DoFrequencyCalls
    <2>2. CASE ~(s.freq # NoFreq /\ s.freq # c.o.requested.freq)
      BY <1>2, <1>3, <2>2, DoTxFrequencyCalls, SelfCalls
    <2> QED
      BY <2>1, <2>2
  <1>5. q \in Context
    BY <1>4 DEF Calling, Follows
  <1>6. Calling(q, k)
    <2> HIDE DEF q, on
    <2> QED
      BY <1>5, DoPttCalls, SelfCalls
  <1>7. k \in Context
    BY <1>6 DEF Calling, Follows
  <1>8. Calling(c, k)
    <2> HIDE DEF p, q, k
    <2> QED
      BY <1>1, <1>4, <1>6, CallingTrans
  <1>9. ApplyRig(c, s) = IF (on \/ off) /\ ~k.thrown THEN e ELSE k
    <2>1. o = [k.o EXCEPT !.requested.ptt = k.o.actual.ptt]
      <3> HIDE DEF k
      <3> QED
        BY <1>7 DEF Context, Object
    <2>2. ApplyRig(c, s)
            = IF (on \/ off) /\ ~k.thrown
              THEN [k EXCEPT !.o = [k.o EXCEPT !.requested.ptt = k.o.actual.ptt]]
              ELSE k
      BY Zenon DEF ApplyRig
    <2> HIDE DEF k, o, on, off
    <2> QED
      BY <2>1, <2>2
  <1> HIDE DEF k, on, off
  <1>10. r \in TransceiverState /\ r.online = k.o.requested.online
    BY <1>7 DEF Context, Object, TransceiverState
  <1>11. /\ o \in Object /\ o.seq = k.o.seq /\ o.life = k.o.life /\ o.mode = k.o.mode
         /\ o.requested = r
    <2> HIDE DEF r
    <2> QED
      BY <1>7, <1>10 DEF Context, Object
  <1> HIDE DEF o, r
  <1>12. Calling(k, e)
    BY <1>7, <1>10, <1>11, ObjectChange
  <1> HIDE DEF e
  <1> QED
    BY <1>8, <1>9, <1>12, CallingTrans

LEMMA ApplyCalls ==
  ASSUME NEW c \in Context, NEW s \in TransceiverState, c.o.requested.online
  PROVE  Calling(c, Apply(c, s))
  BY ApplyAudioCalls, ApplyRigCalls DEF Apply

LEMMA SetBaseServes ==
  ASSUME NEW c \in Context, ~c.thrown, NEW s \in TransceiverState, NEW n \in Nat
  PROVE  Served(Numbered(c, n), SetBase(c, s, n))
  <1> DEFINE b == Numbered(c, n)
             x == Shutdown(b)
             y == Startup(x)
             d == IF ~s.online /\ b.o.requested.online THEN x
                  ELSE IF s.online /\ ~b.o.requested.online THEN y
                  ELSE b
             e == IF d.o.requested.online THEN Apply(d, s) ELSE d
             u == UpdateComplete(e, TRUE)
  <1>1. b \in Context /\ ~b.thrown
    BY NumberedFacts
  <1> HIDE DEF b
  <1>2. Closed(b, x) /\ x \in Context
    BY <1>1, ShutdownCloses DEF Closed, Follows
  <1> HIDE DEF x
  <1>3. Served(x, y)
    BY <1>2, StartupServes
  <1> HIDE DEF y
  <1>4. Served(b, d)
    <2>1. Served(b, b)
      BY <1>1 DEF Served, Follows
    <2>2. Served(b, x) /\ Served(b, y)
      BY <1>2, <1>3, FollowsTrans DEF Served, Closed
    <2> QED
      BY <2>1, <2>2
  <1>5. d \in Context
    BY <1>4 DEF Served, Follows
  <1> HIDE DEF d
  <1>6. /\ Follows(d, e) /\ (Held(d) => Held(e))
    <2>1. CASE d.o.requested.online
      BY <1>5, <2>1, ApplyCalls DEF Calling, Held
    <2>2. CASE ~d.o.requested.online
      BY <1>5, <2>2 DEF Follows
    <2> QED
      BY <2>1, <2>2
  <1>7. e \in Context
    BY <1>6 DEF Follows
  <1> HIDE DEF e
  <1>8. /\ Follows(e, u) /\ u.r = e.r /\ u.o.requested = e.o.requested
    BY <1>7, UpdateCompleteFollows
  <1>9. u \in Context /\ Follows(b, u) /\ (Held(b) => Held(u))
    BY <1>4, <1>6, <1>8, FollowsTrans DEF Served, Follows, Held, Unkeyed
  <1>10. SetBase(c, s, n) = IF u.thrown THEN GoOffline(u) ELSE u
    BY DEF SetBase, b, d, x, y, e
  <1> HIDE DEF u
  <1>11. Closed(u, GoOffline(u))
    BY <1>9, GoOfflineCloses
  <1>12. Served(b, SetBase(c, s, n))
    BY <1>9, <1>10, <1>11, FollowsTrans DEF Served, Closed
  <1> QED
    BY <1>12 DEF b

\* What a slot started with number n leaves, whatever it did in between.
Outcome(c, d, n) ==
  /\ d \in Context
  /\ d.id = c.id
  /\ d.cause = c.cause
  /\ d.o.life = c.o.life
  /\ d.o.mode = c.o.mode
  /\ d.o.seq = n
  /\ Stamped(d)
  /\ Held(c) => Held(d)

LEMMA NumberedOutcome ==
  ASSUME NEW c \in Context, c.out = <<>>, NEW n \in Nat, NEW d,
         Served(Numbered(c, n), d)
  PROVE  Outcome(c, d, n)
  <1>1. Stamped(Numbered(c, n))
    BY NumberedFacts DEF Stamped
  <1> QED
    BY <1>1, NumberedFacts DEF Served, Follows, Outcome, Held, Unkeyed

LEMMA StartOutcome ==
  ASSUME NEW c \in Context, ~c.thrown, c.out = <<>>, NEW n \in Nat
  PROVE  Outcome(c, Start(c, n), n)
  BY StartServes, NumberedOutcome

LEMMA StopOutcome ==
  ASSUME NEW c \in Context, ~c.thrown, c.out = <<>>
  PROVE  Outcome(c, Stop(c), c.o.seq)
  <1>1. Served(c, Stop(c)) /\ Stamped(c)
    BY StopServes DEF Stamped
  <1> QED
    BY <1>1 DEF Served, Follows, Outcome

LEMMA SetOutcome ==
  ASSUME NEW c \in Context, ~c.thrown, c.out = <<>>,
         NEW s \in TransceiverState, NEW n \in Nat
  PROVE  Outcome(c, Set(c, s, n), n)
  <1> DEFINE o == [c.o EXCEPT !.rx = s.freq, !.tx = s.tx, !.split = s.split]
             b == [c EXCEPT !.o = o]
             f == IF s.ptt /\ s.split THEN s.tx ELSE s.freq
             t == [s EXCEPT !.freq = f, !.split = FALSE, !.tx = NoFreq]
  <1>1. /\ o \in Object /\ o.seq = c.o.seq /\ o.life = c.o.life /\ o.mode = c.o.mode
        /\ o.requested = c.o.requested
    BY DEF Context, Object, TransceiverState
  <1> HIDE DEF o
  <1>2. /\ b \in Context /\ ~b.thrown /\ b.out = <<>> /\ b.id = c.id /\ b.cause = c.cause
        /\ b.o = o /\ b.r = c.r
    BY <1>1 DEF Context
  <1>3. f \in Freqs \cup {NoFreq}
    BY DEF TransceiverState
  <1>4. t \in TransceiverState
    <2> HIDE DEF f
    <2> QED
      BY <1>3 DEF TransceiverState
  <1>5. Set(c, s, n) = IF c.o.mode # "emulate" THEN SetBase(c, s, n)
                       ELSE SetBase(b, t, n)
    BY Zenon DEF Set, o
  <1> HIDE DEF b, t, f
  <1>6. Outcome(c, SetBase(c, s, n), n)
    BY SetBaseServes, NumberedOutcome
  <1>7. Outcome(b, SetBase(b, t, n), n)
    BY <1>2, <1>4, SetBaseServes, NumberedOutcome
  <1>8. Outcome(c, SetBase(b, t, n), n)
    BY <1>1, <1>2, <1>7 DEF Outcome, Held, Unkeyed
  <1> QED
    BY <1>5, <1>6, <1>8

LEMMA PollsLeftType ==
  ASSUME NEW o \in Object
  PROVE  PollsLeft(o) \in 0..PollsToStabilize
  BY ConstAssumption DEF Object, PollsLeft

LEMMA TimeoutOutcome ==
  ASSUME NEW c \in Context, ~c.thrown, c.out = <<>>, NEW reading \in Freqs
  PROVE  Outcome(c, Timeout(c, reading), c.o.seq)
  <1> DEFINE p == DoPoll(c, "poll", reading)
             g == [p.o EXCEPT !.retries = 0, !.next = p.o.actual,
                              !.signalled = p.o.actual]
             s == [p EXCEPT !.o = g]
             h == [p.o EXCEPT !.retries = PollsLeft(p.o)]
             l == [p EXCEPT !.o = h]
  <1>1. Calling(c, p) /\ SamePtt(c, p)
    BY DoPollCalls
  <1>2. p \in Context /\ p.o \in Object
    BY <1>1 DEF Calling, Follows, Context
  <1>3. Timeout(c, reading)
          = IF p.thrown THEN GoOffline(p)
            ELSE IF SignalDue(p.o) THEN UpdateComplete(s, TRUE) ELSE l
    BY DEF Timeout
  <1> HIDE DEF p
  <1>4. Held(c) => Held(p)
    BY <1>1 DEF Calling, SamePtt, Held, Unkeyed
  <1>5. CASE p.thrown
    <2>1. Closed(p, GoOffline(p))
      BY <1>2, GoOfflineCloses
    <2> QED
      BY <1>1, <1>3, <1>4, <1>5, <2>1 DEF Calling, Closed, Follows, Outcome, Stamped
  <1>6. CASE ~p.thrown /\ SignalDue(p.o)
    <2>1. /\ g \in Object /\ g.seq = p.o.seq /\ g.life = p.o.life /\ g.mode = p.o.mode
          /\ g.requested = p.o.requested
      <3>1. 0 \in 0..PollsToStabilize
        BY ConstAssumption
      <3>2. p.o.actual \in TransceiverState
        BY <1>2 DEF Object
      <3> QED
        BY <1>2, <3>1, <3>2 DEF Object
    <2> HIDE DEF g
    <2>2. Follows(p, s) /\ s.r = p.r /\ s.o = g
      BY <1>2, <2>1, ObjectChange
    <2>3. s \in Context
      BY <2>2 DEF Follows
    <2> HIDE DEF s
    <2> DEFINE u == UpdateComplete(s, TRUE)
    <2>4. Follows(s, u) /\ u.r = s.r /\ u.o.requested = s.o.requested
      BY <2>3, UpdateCompleteFollows
    <2>5. Timeout(c, reading) = u
      BY <1>3, <1>6
    <2> HIDE DEF u
    <2> QED
      BY <1>1, <1>4, <2>1, <2>2, <2>4, <2>5
         DEF Calling, Follows, Outcome, Stamped, Held, Unkeyed
  <1>7. CASE ~p.thrown /\ ~SignalDue(p.o)
    <2>1. /\ h \in Object /\ h.seq = p.o.seq /\ h.life = p.o.life /\ h.mode = p.o.mode
          /\ h.requested = p.o.requested
      BY <1>2, PollsLeftType DEF Object
    <2> HIDE DEF h
    <2>2. Follows(p, l) /\ l.r = p.r /\ l.o = h
      BY <1>2, <2>1, ObjectChange
    <2>3. Timeout(c, reading) = l
      BY <1>3, <1>7
    <2> HIDE DEF l
    <2> QED
      BY <1>1, <1>4, <2>1, <2>2, <2>3
         DEF Calling, Follows, Outcome, Stamped, Held, Unkeyed
  <1> QED
    BY <1>5, <1>6, <1>7

LEMMA BeginContext ==
  ASSUME NEW i \in Nat, NEW o \in Object, NEW r \in Radio,
         NEW bad \in SUBSET Calls, NEW cause \in {"slot", "poll"}
  PROVE  LET c == Begin(i, o, r, bad, cause) IN
         /\ c \in Context /\ ~c.thrown /\ c.out = <<>>
         /\ c.id = i /\ c.o = o /\ c.r = r /\ c.cause = cause /\ ~c.faulty
  BY DEF Begin, Context

-----------------------------------------------------------------------------
(* What the calls do, field by field.                                      *)

\* An object with other states and polls, or another radio.
LEMMA ChangedFields ==
  ASSUME NEW c \in Context, NEW r, NEW a, NEW q, NEW n, NEW k
  PROVE  LET d == Changed(c, r, a, q, n, k) IN
         /\ d.r = r /\ d.o.actual = a /\ d.o.requested = q /\ d.o.next = n
         /\ d.o.retries = k /\ d.o.polling = c.o.polling
         /\ d.thrown = c.thrown /\ d.faulty = c.faulty
  <1> DEFINE o == [c.o EXCEPT !.actual = a, !.requested = q,
                              !.next = n, !.retries = k]
  <1>1. /\ o.actual = a /\ o.requested = q /\ o.next = n /\ o.retries = k
        /\ o.polling = c.o.polling
    BY DEF Context, Object
  <1>2. Changed(c, r, a, q, n, k) = [c EXCEPT !.r = r, !.o = o]
    BY DEF Changed
  <1> HIDE DEF o
  <1> QED
    BY <1>1, <1>2 DEF Context

LEMMA ThrowFields ==
  ASSUME NEW c \in Context
  PROVE  /\ Throw(c).r = c.r /\ Throw(c).o = c.o
         /\ Throw(c).thrown /\ Throw(c).faulty
  BY DEF Context, Throw

\* transmitter_ptt_: it throws and changes nothing but the fault flags, or keys.
LEMMA DoPttEffect ==
  ASSUME NEW c \in Context, NEW on \in BOOLEAN, ~c.thrown
  PROVE  LET d == DoPtt(c, on) IN
         /\ d.r.freq = c.r.freq /\ d.r.tx = c.r.tx /\ d.r.settling = c.r.settling
         /\ d.o.polling = c.o.polling /\ d.o.requested = c.o.requested
         /\ d.thrown => d.faulty /\ d.o = c.o /\ d.r.ptt = c.r.ptt
         /\ ~d.thrown =>
              /\ d.faulty = c.faulty /\ d.r.ptt = on
              /\ d.o.actual = [c.o.actual EXCEPT !.ptt = on]
              /\ d.o.next = [c.o.next EXCEPT !.ptt = on]
              /\ d.o.retries = Expecting(c, c.o.next.ptt # on)
  <1>1. CASE (IF on THEN "pttOn" ELSE "pttOff") \in c.bad
    <2> DEFINE t == Throw(c)
               r == [t.r EXCEPT !.unkeyFailed = IF on THEN c.r.unkeyFailed ELSE TRUE]
               d == [t EXCEPT !.r = r]
    <2>1. DoPtt(c, on) = d
      BY <1>1 DEF DoPtt
    <2>2. t \in Context /\ t.r = c.r /\ t.o = c.o /\ t.thrown /\ t.faulty
      BY DEF Context, Throw
    <2>3. r.freq = c.r.freq /\ r.tx = c.r.tx /\ r.settling = c.r.settling /\ r.ptt = c.r.ptt
      BY <2>2 DEF Context, Radio
    <2> HIDE DEF t, r
    <2>4. d.r = r /\ d.o = c.o /\ d.thrown /\ d.faulty
      BY <2>2 DEF Context
    <2> QED
      BY <2>1, <2>3, <2>4
  <1>2. CASE (IF on THEN "pttOn" ELSE "pttOff") \notin c.bad
    <2> DEFINE r == [c.r EXCEPT !.ptt = on, !.unkeyFailed = FALSE]
               a == [c.o.actual EXCEPT !.ptt = on]
               n == [c.o.next EXCEPT !.ptt = on]
               k == Expecting(c, c.o.next.ptt # on)
    <2>1. DoPtt(c, on) = Changed(c, r, a, c.o.requested, n, k)
      <3>1. [c.o EXCEPT !.actual.ptt = on, !.next.ptt = on, !.retries = k]
              = [c.o EXCEPT !.actual = a, !.requested = c.o.requested, !.next = n,
                            !.retries = k]
        BY DEF Context, Object
      <3> QED
        BY <1>2, <3>1 DEF DoPtt, Changed
    <2>2. r.freq = c.r.freq /\ r.tx = c.r.tx /\ r.settling = c.r.settling /\ r.ptt = on
      BY DEF Context, Radio
    <2> HIDE DEF r, a, n, k
    <2>3. LET d == Changed(c, r, a, c.o.requested, n, k) IN
          /\ d.r = r /\ d.o.actual = a /\ d.o.requested = c.o.requested
          /\ d.o.next = n
          /\ d.o.retries = k /\ d.o.polling = c.o.polling
          /\ d.thrown = c.thrown /\ d.faulty = c.faulty
      BY ChangedFields
    <2> QED
      BY <2>1, <2>2, <2>3 DEF a, n, k
  <1> QED
    BY <1>1, <1>2

\* A new dial frequency is expected, and held off while the radio settles.
LEMMA DoFrequencyEffect ==
  ASSUME NEW c \in Context, NEW f \in Freqs, ~c.thrown
  PROVE  LET d == DoFrequency(c, f) IN
         /\ d.o.polling = c.o.polling /\ d.r.tx = c.r.tx /\ d.r.ptt = c.r.ptt
         /\ d.thrown => d.faulty /\ d.o = c.o /\ d.r = c.r
         /\ ~d.thrown =>
              /\ d.faulty = c.faulty /\ d.r.freq = f /\ d.r.settling
              /\ d.o.actual = [c.o.actual EXCEPT !.freq = f]
              /\ d.o.requested = [c.o.requested EXCEPT !.freq = f]
              /\ d.o.next = [c.o.next EXCEPT !.freq = f]
              /\ d.o.retries = Expecting(c, c.o.next.freq # f)
  <1> DEFINE r == [c.r EXCEPT !.freq = f, !.settling = TRUE]
             a == [c.o.actual EXCEPT !.freq = f]
             q == [c.o.requested EXCEPT !.freq = f]
             n == [c.o.next EXCEPT !.freq = f]
             k == Expecting(c, c.o.next.freq # f)
  <1>1. DoFrequency(c, f) = Try(c, "freq", Changed(c, r, a, q, n, k))
    <2>1. [c.o EXCEPT !.actual.freq = f, !.requested.freq = f,
                      !.next.freq = f, !.retries = k]
            = [c.o EXCEPT !.actual = a, !.requested = q, !.next = n,
                          !.retries = k]
      BY DEF Context, Object
    <2> QED
      BY <2>1 DEF DoFrequency, Changed
  <1>2. r.ptt = c.r.ptt /\ r.tx = c.r.tx /\ r.freq = f /\ r.settling
    BY DEF Context, Radio
  <1> HIDE DEF r, a, n, k, q
  <1>3. LET d == Changed(c, r, a, q, n, k) IN
        /\ d.r = r /\ d.o.actual = a /\ d.o.requested = q /\ d.o.next = n
        /\ d.o.retries = k /\ d.o.polling = c.o.polling
        /\ d.thrown = c.thrown /\ d.faulty = c.faulty
    BY ChangedFields
  <1> QED
    BY <1>1, <1>2, <1>3, ThrowFields DEF Try, a, q, n, k

\* The transmit frequency given to the radio itself.
LEMMA AskTxFrequencyEffect ==
  ASSUME NEW c \in Context, NEW f \in Freqs \cup {NoFreq}
  PROVE  LET d == AskTxFrequency(c, f) IN
         /\ d \in Context
         /\ d.r = c.r /\ d.thrown = c.thrown /\ d.faulty = c.faulty
         /\ d.o.requested = [c.o.requested EXCEPT !.tx = f, !.split = IsSplit(f)]
         /\ d.o.actual = c.o.actual /\ d.o.next = c.o.next
         /\ d.o.polling = c.o.polling
  <1> DEFINE q == [c.o.requested EXCEPT !.tx = f, !.split = IsSplit(f)]
             o == [c.o EXCEPT !.requested = q]
  <1>1. AskTxFrequency(c, f) = [c EXCEPT !.o = o]
    <2>1. o = [c.o EXCEPT !.requested.tx = f, !.requested.split = IsSplit(f)]
      BY DEF Context, Object
    <2> HIDE DEF o
    <2> QED
      BY <2>1 DEF AskTxFrequency
  <1>2. /\ o.requested = q /\ o.actual = c.o.actual /\ o.next = c.o.next
        /\ o.polling = c.o.polling
    <2> HIDE DEF q
    <2> QED
      BY DEF Context, Object
  <1> HIDE DEF o
  <1>3. LET d == [c EXCEPT !.o = o] IN
        d.o = o /\ d.r = c.r /\ d.thrown = c.thrown /\ d.faulty = c.faulty
    BY DEF Context
  <1>4. AskTxFrequency(c, f) \in Context
    BY AskTxFrequencyCalls DEF Calling, Follows
  <1> QED
    BY <1>1, <1>2, <1>3, <1>4 DEF q

\* The transmit frequency, through the emulated split as the case may be.
LEMMA DoTxFrequencyEffect ==
  ASSUME NEW c \in Context, NEW f \in Freqs \cup {NoFreq}, ~c.thrown
  PROVE  LET d == DoTxFrequency(c, f) IN
         /\ d.o.polling = c.o.polling /\ d.r.freq = c.r.freq /\ d.r.ptt = c.r.ptt
         /\ d.o.requested = [c.o.requested EXCEPT !.tx = f, !.split = IsSplit(f)]
         /\ d.o.actual.freq = c.o.actual.freq /\ d.o.actual.ptt = c.o.actual.ptt
         /\ d.o.next.freq = c.o.next.freq /\ d.o.next.ptt = c.o.next.ptt
         /\ d.thrown => d.faulty
         /\ ~d.thrown =>
              /\ d.faulty = c.faulty /\ d.r.tx = f /\ d.r.settling
              /\ d.o.actual.tx = f /\ d.o.next.tx = f
              /\ d.o.retries = Expecting(c, c.o.next.tx # f)
  <1> DEFINE b == AskTxFrequency(c, f)
             r == [b.r EXCEPT !.tx = f, !.settling = TRUE]
             a == [b.o.actual EXCEPT !.tx = f, !.split = IsSplit(f)]
             x == ExpectedSplit(c, f)
             n == [b.o.next EXCEPT !.tx = f, !.split = x]
             q == b.o.requested
             k == Expecting(c, c.o.next.tx # f)
             e == Changed(b, r, a, q, n, k)
  <1>1. /\ b \in Context
        /\ b.r = c.r /\ b.thrown = c.thrown /\ b.faulty = c.faulty
        /\ b.o.requested = [c.o.requested EXCEPT !.tx = f, !.split = IsSplit(f)]
        /\ b.o.actual = c.o.actual /\ b.o.next = c.o.next
        /\ b.o.polling = c.o.polling
    BY AskTxFrequencyEffect
  <1> HIDE DEF b
  <1>2. DoTxFrequency(c, f) = Try(b, "tx", e)
    <2>1. [b.o EXCEPT !.actual.tx = f, !.actual.split = IsSplit(f),
                      !.next.tx = f, !.next.split = x, !.retries = k]
            = [b.o EXCEPT !.actual = a, !.requested = q, !.next = n,
                          !.retries = k]
      <3> HIDE DEF x, k
      <3> QED
        BY <1>1 DEF Context, Object
    <2>2. DoTxFrequency(c, f)
            = Try(b, "tx",
                  [b EXCEPT !.r = r,
                            !.o = [b.o EXCEPT !.actual.tx = f,
                                     !.actual.split = IsSplit(f),
                                     !.next.tx = f, !.next.split = x,
                                     !.retries = k]])
      BY DEF DoTxFrequency, b
    <2>3. e = [b EXCEPT !.r = r,
                        !.o = [b.o EXCEPT !.actual.tx = f,
                                 !.actual.split = IsSplit(f),
                                 !.next.tx = f, !.next.split = x,
                                 !.retries = k]]
      <3> HIDE DEF a, q, n, x, k, r
      <3> QED
        BY <2>1 DEF Changed
    <2> HIDE DEF e
    <2> QED
      BY <2>2, <2>3
  <1>3. r.ptt = c.r.ptt /\ r.freq = c.r.freq /\ r.tx = f /\ r.settling
    BY <1>1 DEF Context, Radio
  <1>4. /\ a.freq = c.o.actual.freq /\ a.ptt = c.o.actual.ptt /\ a.tx = f
        /\ n.freq = c.o.next.freq /\ n.ptt = c.o.next.ptt /\ n.tx = f
    <2> HIDE DEF x
    <2> QED
      BY <1>1 DEF Context, Object, TransceiverState
  <1> HIDE DEF r, a, q, n, k
  <1>5. /\ e.r = r /\ e.o.actual = a /\ e.o.requested = q /\ e.o.next = n
        /\ e.o.retries = k /\ e.o.polling = b.o.polling
        /\ e.thrown = b.thrown /\ e.faulty = b.faulty
    BY <1>1, ChangedFields
  <1> HIDE DEF e
  <1>6. CASE "tx" \in b.bad
    <2>1. DoTxFrequency(c, f) = Throw(b)
      BY <1>1, <1>2, <1>6 DEF Try
    <2>2. Throw(b).r = b.r /\ Throw(b).o = b.o /\ Throw(b).thrown /\ Throw(b).faulty
      BY <1>1, ThrowFields
    <2> QED
      BY <1>1, <2>1, <2>2
  <1>7. CASE "tx" \notin b.bad
    <2>1. DoTxFrequency(c, f) = e
      BY <1>1, <1>2, <1>7 DEF Try
    <2> QED
      BY <1>1, <1>3, <1>4, <1>5, <2>1 DEF q, k
  <1> QED
    BY <1>6, <1>7

LEMMA ShowPttEffect ==
  ASSUME NEW c \in Context, NEW on \in BOOLEAN
  PROVE  LET d == ShowPtt(c, on) IN
         /\ d.r = c.r /\ d.thrown = c.thrown /\ d.faulty = c.faulty
         /\ d.o.actual = [c.o.actual EXCEPT !.ptt = on]
         /\ d.o.polling = c.o.polling /\ d.o.requested = c.o.requested
         /\ d.o.next = c.o.next /\ d.o.retries = c.o.retries
  <1> DEFINE a == [c.o.actual EXCEPT !.ptt = on]
             o == [c.o EXCEPT !.actual = a]
  <1>1. /\ o.actual = a /\ o.polling = c.o.polling /\ o.requested = c.o.requested
        /\ o.next = c.o.next /\ o.retries = c.o.retries
    <2> HIDE DEF a
    <2> QED
      BY DEF Context, Object
  <1>2. ShowPtt(c, on) = [c EXCEPT !.o = o]
    BY DEF ShowPtt
  <1> HIDE DEF o
  <1> QED
    BY <1>1, <1>2 DEF Context

LEMMA DoTuneEffect ==
  ASSUME NEW c \in Context, NEW on \in BOOLEAN, ~c.thrown
  PROVE  LET d == DoTune(c, on) IN
         /\ d.r = c.r /\ d.o.polling = c.o.polling
         /\ d.o.requested = c.o.requested /\ d.o.next = c.o.next
         /\ d.o.retries = c.o.retries
         /\ d.o.actual.freq = c.o.actual.freq /\ d.o.actual.tx = c.o.actual.tx
         /\ d.thrown => d.faulty
         /\ ~d.thrown => d.faulty = c.faulty /\ (d.o.actual.ptt => c.o.actual.ptt)
  <1> DEFINE b == ShowPtt(c, TRUE)
             e == ShowPtt(c, FALSE)
             Shown(d, x) == /\ d.r = c.r /\ d.thrown = c.thrown /\ d.faulty = c.faulty
                            /\ d.o.actual = [c.o.actual EXCEPT !.ptt = x]
                            /\ d.o.polling = c.o.polling
                            /\ d.o.requested = c.o.requested
                            /\ d.o.next = c.o.next /\ d.o.retries = c.o.retries
  <1>1. Shown(b, TRUE) /\ Shown(e, FALSE)
    BY ShowPttEffect
  <1>2. b \in Context
    BY ShowPttCalls DEF Calling, Follows
  <1>3. DoTune(c, on) = IF on THEN Try(b, "tune", e) ELSE c
    BY DEF DoTune
  <1> HIDE DEF b, e
  <1>4. Throw(b).r = b.r /\ Throw(b).o = b.o /\ Throw(b).thrown /\ Throw(b).faulty
    BY <1>2, ThrowFields
  <1>5. c.o.actual \in TransceiverState
    BY DEF Context, Object
  <1> QED
    BY <1>1, <1>3, <1>4, <1>5 DEF Try, TransceiverState

\* A poll that does not throw.
LEMMA DoPollEffect ==
  ASSUME NEW c \in Context, NEW call, NEW reading \in Freqs, ~c.thrown
  PROVE  LET d == DoPoll(c, call, reading)
             blind == c.o.actual.ptt /\ IsSplit(c.r.tx)
         IN
         /\ d.o.polling = c.o.polling /\ d.o.next = c.o.next
         /\ d.o.retries = c.o.retries /\ d.r.freq = c.r.freq
         /\ d.r.tx = c.r.tx /\ d.r.ptt = c.r.ptt
         /\ d.thrown => d.faulty /\ d.o = c.o /\ d.r = c.r
         /\ ~d.thrown =>
              /\ d.faulty = c.faulty
              /\ d.r.settling = (c.r.settling /\ reading # c.r.freq)
              /\ d.o.actual.ptt = c.r.ptt
              /\ d.o.actual.online = c.o.actual.online
              /\ d.o.actual.tx = IF IsSplit(c.r.tx) THEN c.r.tx ELSE c.o.actual.tx
              /\ d.o.actual.freq = IF blind THEN c.o.actual.freq ELSE reading
              /\ d.o.requested = [c.o.requested EXCEPT
                                    !.freq = IF blind THEN @ ELSE reading]
  <1> DEFINE split == IsSplit(c.r.tx)
             blind == c.o.actual.ptt /\ split
             af == IF blind THEN c.o.actual.freq ELSE reading
             qf == IF blind THEN c.o.requested.freq ELSE reading
             at == IF split THEN c.r.tx ELSE c.o.actual.tx
             rs == c.r.settling /\ reading # c.r.freq
             kn == c.o.actual.known \/ ~blind
             r == [c.r EXCEPT !.settling = rs]
             a == [c.o.actual EXCEPT !.split = split, !.known = kn, !.tx = at,
                                     !.freq = af, !.ptt = c.r.ptt]
             q == [c.o.requested EXCEPT !.freq = qf]
             e == Changed(c, r, a, q, c.o.next, c.o.retries)
  <1>1. DoPoll(c, call, reading) = Try(c, call, e)
    <2> DEFINE o == [c.o EXCEPT !.actual = a, !.requested = q]
    <2> HIDE DEF af, qf, at, rs, kn
    <2>1. o = [c.o EXCEPT !.actual.split = split, !.actual.known = kn,
                          !.actual.tx = at,
                          !.actual.freq = af, !.requested.freq = qf,
                          !.actual.ptt = c.r.ptt]
      BY ZenonT(30) DEF Context, Object, TransceiverState
    <2>2. DoPoll(c, call, reading) = Try(c, call, [c EXCEPT !.r = r, !.o = o])
      BY <2>1, Zenon DEF DoPoll, r, af, qf, at, rs, kn
    <2>3. o = [c.o EXCEPT !.actual = a, !.requested = q, !.next = c.o.next,
                          !.retries = c.o.retries]
      <3> HIDE DEF a, q
      <3> QED
        BY DEF Context, Object
    <2>4. e = [c EXCEPT !.r = r, !.o = o]
      <3> HIDE DEF a, q, r, o
      <3> QED
        BY <2>3 DEF Changed
    <2> HIDE DEF e, o
    <2> QED
      BY <2>2, <2>4
  <1>2. r.freq = c.r.freq /\ r.tx = c.r.tx /\ r.ptt = c.r.ptt /\ r.settling = rs
    <2> HIDE DEF rs
    <2> QED
      BY DEF Context, Radio
  <1>3. /\ a.ptt = c.r.ptt /\ a.online = c.o.actual.online /\ a.tx = at /\ a.freq = af
    <2>1. c.o.actual \in TransceiverState
      BY DEF Context, Object
    <2> HIDE DEF af, at, kn, split
    <2> QED
      BY <2>1 DEF TransceiverState
  <1>4. q = [c.o.requested EXCEPT !.freq = IF blind THEN @ ELSE reading]
    OBVIOUS
  <1> HIDE DEF r, a, q
  <1>5. /\ e.r = r /\ e.o.actual = a /\ e.o.requested = q /\ e.o.next = c.o.next
        /\ e.o.retries = c.o.retries /\ e.o.polling = c.o.polling
        /\ e.thrown = c.thrown /\ e.faulty = c.faulty
    BY ChangedFields
  <1>6. Throw(c).r = c.r /\ Throw(c).o = c.o /\ Throw(c).thrown /\ Throw(c).faulty
    BY ThrowFields
  <1> HIDE DEF e
  <1>7. CASE call \in c.bad
    <2>1. DoPoll(c, call, reading) = Throw(c)
      BY <1>1, <1>7 DEF Try
    <2> QED
      BY <1>6, <2>1
  <1>8. CASE call \notin c.bad
    <2>1. DoPoll(c, call, reading) = e
      BY <1>1, <1>8 DEF Try
    <2> QED
      BY <1>2, <1>3, <1>4, <1>5, <2>1
  <1> QED
    BY <1>7, <1>8

-----------------------------------------------------------------------------
(* What an object knows of the radio that it alone drives, after k misread *)
(* polls; calm: no call has thrown so far.                                 *)

RigSplit(o) == o.mode = "rig"

\* An object that is not connected remembers nothing but what it expected.
Blank(o) ==
  ~o.requested.online =>
     o.requested = Offline /\ o.actual = Offline /\ ~o.polling

PttKnown(o, r) == o.polling /\ o.actual.ptt => r.ptt

DialKnown(o, r, k) ==
  /\ k = 0 /\ o.polling => o.actual.freq = r.freq /\ o.requested.freq = r.freq
  /\ ~RigSplit(o) /\ o.polling /\ ~r.settling => o.requested.freq = r.freq

DialExpected(o, r, k) ==
  k = 0 \/ ~RigSplit(o) => o.next.freq \in {NoFreq, r.freq}

\* The polls left are at least the misreads still to come.
MisreadsOutlasted(o, r, k) ==
  ~RigSplit(o) /\ o.polling /\ r.settling => o.retries + k >= PollsToStabilize

SplitKnown(o, r, calm) ==
  ~RigSplit(o) \/ calm =>
     IF o.requested.online
     THEN /\ o.requested.tx = r.tx /\ o.actual.tx = r.tx /\ o.next.tx = r.tx
          /\ o.requested.split = IsSplit(r.tx)
          /\ ~RigSplit(o) => r.tx = NoFreq
     ELSE r.tx = NoFreq /\ o.next.tx = NoFreq

\* A rig that does the split: a change of the transmit frequency is not read
\* back as the dial frequency, so the polls are counted only until a misread.
ChangesHeld(o, r, k, calm) ==
  RigSplit(o) /\ k = 0 /\ calm =>
     /\ o.polling /\ r.settling => r.ptt \/ o.retries >= PollsToStabilize
     /\ o.requested.ptt => r.ptt /\ o.next.ptt

Faithful(o, r, k, calm) ==
  /\ Blank(o) /\ PttKnown(o, r) /\ DialKnown(o, r, k) /\ DialExpected(o, r, k)
  /\ MisreadsOutlasted(o, r, k) /\ SplitKnown(o, r, calm)
  /\ ChangesHeld(o, r, k, calm)

\* The part that holds between two calls of a slot, a pending exception
\* included.  z: no call had thrown before the slot.
Base(c, k, z) ==
  /\ Blank(c.o) /\ DialKnown(c.o, c.r, k) /\ DialExpected(c.o, c.r, k)
  /\ MisreadsOutlasted(c.o, c.r, k) /\ SplitKnown(c.o, c.r, z /\ ~c.faulty)
  /\ c.thrown => c.faulty

\* The parts of a context.
LEMMA FieldTypes ==
  ASSUME NEW c \in Context
  PROVE  /\ c.o \in Object /\ c.r \in Radio
         /\ c.o.actual \in TransceiverState /\ c.o.requested \in TransceiverState
         /\ c.o.next \in TransceiverState /\ c.o.retries \in 0..PollsToStabilize
         /\ c.r.freq \in Freqs /\ c.r.tx \in Freqs \cup {NoFreq}
         /\ c.thrown \in BOOLEAN /\ c.faulty \in BOOLEAN
         /\ c.r.settling \in BOOLEAN /\ c.r.ptt \in BOOLEAN
         /\ c.o.polling \in BOOLEAN /\ c.o.requested.online \in BOOLEAN
         /\ c.o.next.freq \in Freqs \cup {NoFreq}
         /\ c.o.requested.freq \in Freqs \cup {NoFreq}
  BY DEF Context, Object, Radio, TransceiverState

LEMMA DoPttBase ==
  ASSUME NEW c \in Context, NEW on \in BOOLEAN, NEW k \in Nat, NEW z \in BOOLEAN,
         Base(c, k, z), c.o.requested.online
  PROVE  LET d == DoPtt(c, on) IN
         /\ Base(d, k, z)
         /\ ~d.thrown => PttKnown(d.o, d.r)
  <1> DEFINE d == DoPtt(c, on)
  <1>1. CASE c.thrown
    BY <1>1 DEF DoPtt
  <1>2. CASE ~c.thrown
    <2>1. /\ d.r.freq = c.r.freq /\ d.r.tx = c.r.tx /\ d.r.settling = c.r.settling
          /\ d.o.polling = c.o.polling /\ d.o.requested = c.o.requested
          /\ d.thrown => d.faulty /\ d.o = c.o /\ d.r.ptt = c.r.ptt
          /\ ~d.thrown =>
               /\ d.faulty = c.faulty /\ d.r.ptt = on
               /\ d.o.actual = [c.o.actual EXCEPT !.ptt = on]
               /\ d.o.next = [c.o.next EXCEPT !.ptt = on]
               /\ d.o.retries = Expecting(c, c.o.next.ptt # on)
      BY <1>2, DoPttEffect
    <2>2. d.o.mode = c.o.mode /\ d \in Context
      BY DoPttCalls DEF Calling, Follows
    <2> HIDE DEF d
    <2>3. ~d.thrown =>
            /\ d.o.actual.freq = c.o.actual.freq /\ d.o.actual.tx = c.o.actual.tx
            /\ d.o.actual.ptt = on
            /\ d.o.next.freq = c.o.next.freq /\ d.o.next.tx = c.o.next.tx
      BY <2>1, FieldTypes DEF TransceiverState
    <2>4. ~d.thrown => d.o.retries \in {c.o.retries, PollsToStabilize}
      BY <2>1 DEF Expecting
    <2>5. d.o.retries \in Nat /\ c.o.retries \in Nat
      BY <2>2, FieldTypes, ConstAssumption
    <2>6. Blank(d.o) /\ DialKnown(d.o, d.r, k) /\ DialExpected(d.o, d.r, k)
      BY <2>1, <2>2, <2>3 DEF Base, Blank, DialKnown, DialExpected, RigSplit
    <2>7. MisreadsOutlasted(d.o, d.r, k)
      BY <2>1, <2>2, <2>4, <2>5, ConstAssumption DEF Base, MisreadsOutlasted, RigSplit
    <2>8. SplitKnown(d.o, d.r, z /\ ~d.faulty)
      BY <1>2, <2>1, <2>2, <2>3 DEF Base, SplitKnown, RigSplit
    <2>9. ~d.thrown => PttKnown(d.o, d.r)
      BY <2>1, <2>3 DEF PttKnown
    <2> QED
      BY <2>1, <2>6, <2>7, <2>8, <2>9 DEF Base, d
  <1> QED
    BY <1>1, <1>2

LEMMA DoFrequencyBase ==
  ASSUME NEW c \in Context, NEW f \in Freqs, NEW k \in Nat, NEW z \in BOOLEAN,
         Base(c, k, z), c.o.requested.online, f # c.o.requested.freq
  PROVE  LET d == DoFrequency(c, f) IN
         /\ Base(d, k, z)
         /\ ~d.thrown /\ PttKnown(c.o, c.r) => PttKnown(d.o, d.r)
  <1> DEFINE d == DoFrequency(c, f)
  <1>1. CASE c.thrown
    BY <1>1 DEF DoFrequency, Try
  <1>2. CASE ~c.thrown
    <2>1. /\ d.o.polling = c.o.polling /\ d.r.tx = c.r.tx /\ d.r.ptt = c.r.ptt
          /\ d.thrown => d.faulty /\ d.o = c.o /\ d.r = c.r
          /\ ~d.thrown =>
               /\ d.faulty = c.faulty /\ d.r.freq = f /\ d.r.settling
               /\ d.o.actual = [c.o.actual EXCEPT !.freq = f]
               /\ d.o.requested = [c.o.requested EXCEPT !.freq = f]
               /\ d.o.next = [c.o.next EXCEPT !.freq = f]
               /\ d.o.retries = Expecting(c, c.o.next.freq # f)
      BY <1>2, DoFrequencyEffect
    <2>2. d.o.mode = c.o.mode /\ d \in Context
      BY DoFrequencyCalls DEF Calling, Follows
    <2> HIDE DEF d
    <2>3. ~d.thrown =>
            /\ d.o.actual.freq = f /\ d.o.actual.tx = c.o.actual.tx
            /\ d.o.actual.ptt = c.o.actual.ptt
            /\ d.o.requested.freq = f /\ d.o.requested.tx = c.o.requested.tx
            /\ d.o.requested.split = c.o.requested.split
            /\ d.o.requested.online = c.o.requested.online
            /\ d.o.next.freq = f /\ d.o.next.tx = c.o.next.tx
      <3> SUFFICES ASSUME ~d.thrown
                   PROVE  /\ d.o.actual.freq = f /\ d.o.actual.tx = c.o.actual.tx
                          /\ d.o.actual.ptt = c.o.actual.ptt
                          /\ d.o.requested.freq = f
                          /\ d.o.requested.tx = c.o.requested.tx
                          /\ d.o.requested.split = c.o.requested.split
                          /\ d.o.requested.online = c.o.requested.online
                          /\ d.o.next.freq = f /\ d.o.next.tx = c.o.next.tx
        OBVIOUS
      <3>1. /\ c.o.actual \in TransceiverState /\ c.o.requested \in TransceiverState
            /\ c.o.next \in TransceiverState
        BY FieldTypes
      <3>2. /\ d.o.actual.freq = f /\ d.o.actual.tx = c.o.actual.tx
            /\ d.o.actual.ptt = c.o.actual.ptt
        <4>1. d.o.actual = [c.o.actual EXCEPT !.freq = f]
          BY <2>1
        <4> QED
          BY <3>1, <4>1 DEF TransceiverState
      <3>3. /\ d.o.requested.freq = f /\ d.o.requested.tx = c.o.requested.tx
            /\ d.o.requested.split = c.o.requested.split
            /\ d.o.requested.online = c.o.requested.online
        <4>1. d.o.requested = [c.o.requested EXCEPT !.freq = f]
          BY <2>1
        <4> QED
          BY <3>1, <4>1 DEF TransceiverState
      <3>4. d.o.next.freq = f /\ d.o.next.tx = c.o.next.tx
        <4>1. d.o.next = [c.o.next EXCEPT !.freq = f]
          BY <2>1
        <4> QED
          BY <3>1, <4>1 DEF TransceiverState
      <3> QED
        BY <3>2, <3>3, <3>4
    <2>4. d.o.retries \in Nat /\ c.o.retries \in Nat
      BY <2>2, FieldTypes, ConstAssumption
    <2>5. Blank(d.o) /\ DialKnown(d.o, d.r, k) /\ DialExpected(d.o, d.r, k)
      BY <2>1, <2>2, <2>3 DEF Base, Blank, DialKnown, DialExpected, RigSplit
    <2>6. MisreadsOutlasted(d.o, d.r, k)
      <3>1. CASE d.thrown
        BY <2>1, <3>1 DEF Base
      <3>2. CASE ~d.thrown /\ c.o.next.freq # f
        BY <2>1, <3>2, ConstAssumption DEF Expecting, MisreadsOutlasted
      <3>3. CASE ~d.thrown /\ c.o.next.freq = f
        <4>1. ~RigSplit(c.o) => c.r.freq = f
          BY <3>3, ConstAssumption DEF Base, DialExpected
        <4>2. ~RigSplit(c.o) /\ c.o.polling => c.r.settling
          BY <4>1, FieldTypes DEF Base, DialKnown
        <4>3. d.o.retries = c.o.retries
          BY <2>1, <3>3 DEF Expecting
        <4> QED
          BY <2>1, <2>2, <4>2, <4>3 DEF Base, MisreadsOutlasted, RigSplit
      <3> QED
        BY <3>1, <3>2, <3>3
    <2>7. SplitKnown(d.o, d.r, z /\ ~d.faulty)
      BY <1>2, <2>1, <2>2, <2>3 DEF Base, SplitKnown, RigSplit
    <2>8. ~d.thrown /\ PttKnown(c.o, c.r) => PttKnown(d.o, d.r)
      BY <2>1, <2>3 DEF PttKnown
    <2> QED
      BY <2>1, <2>5, <2>6, <2>7, <2>8 DEF Base, d
  <1> QED
    BY <1>1, <1>2

\* Only a rig that does the split gets a transmit frequency.
LEMMA DoTxFrequencyBase ==
  ASSUME NEW c \in Context, NEW f \in Freqs \cup {NoFreq}, NEW k \in Nat,
         NEW z \in BOOLEAN, Base(c, k, z), c.o.requested.online, RigSplit(c.o)
  PROVE  LET d == DoTxFrequency(c, f) IN
         /\ Base(d, k, z)
         /\ ~d.thrown /\ PttKnown(c.o, c.r) => PttKnown(d.o, d.r)
  <1> DEFINE d == DoTxFrequency(c, f)
  <1>1. CASE c.thrown
    BY <1>1 DEF DoTxFrequency
  <1>2. CASE ~c.thrown
    <2>1. /\ d.o.polling = c.o.polling /\ d.r.freq = c.r.freq /\ d.r.ptt = c.r.ptt
          /\ d.o.requested = [c.o.requested EXCEPT !.tx = f, !.split = IsSplit(f)]
          /\ d.o.actual.freq = c.o.actual.freq /\ d.o.actual.ptt = c.o.actual.ptt
          /\ d.o.next.freq = c.o.next.freq /\ d.o.next.ptt = c.o.next.ptt
          /\ d.thrown => d.faulty
          /\ ~d.thrown =>
               /\ d.faulty = c.faulty /\ d.r.tx = f /\ d.r.settling
               /\ d.o.actual.tx = f /\ d.o.next.tx = f
               /\ d.o.retries = Expecting(c, c.o.next.tx # f)
      BY <1>2, DoTxFrequencyEffect
    <2>2. d.o.mode = c.o.mode /\ d \in Context
      BY DoTxFrequencyCalls DEF Calling, Follows
    <2> HIDE DEF d
    <2>3. /\ d.o.requested.freq = c.o.requested.freq
          /\ d.o.requested.tx = f /\ d.o.requested.split = IsSplit(f)
          /\ d.o.requested.online = c.o.requested.online
      BY <2>1, FieldTypes DEF TransceiverState
    <2>4. Blank(d.o) /\ DialKnown(d.o, d.r, k) /\ DialExpected(d.o, d.r, k)
          /\ MisreadsOutlasted(d.o, d.r, k)
      BY <2>1, <2>2, <2>3
         DEF Base, Blank, DialKnown, DialExpected, MisreadsOutlasted, RigSplit
    <2>5. SplitKnown(d.o, d.r, z /\ ~d.faulty)
      BY <2>1, <2>2, <2>3 DEF SplitKnown, RigSplit
    <2>6. ~d.thrown /\ PttKnown(c.o, c.r) => PttKnown(d.o, d.r)
      BY <2>1 DEF PttKnown
    <2> QED
      BY <2>1, <2>4, <2>5, <2>6 DEF Base, d
  <1> QED
    BY <1>1, <1>2

\* Contexts that agree on what Base and Faithful are about.
Alike(c, d) ==
  /\ d.r = c.r /\ d.thrown = c.thrown /\ d.faulty = c.faulty
  /\ d.o.mode = c.o.mode /\ d.o.requested = c.o.requested
  /\ d.o.actual = c.o.actual /\ d.o.next = c.o.next
  /\ d.o.retries = c.o.retries /\ d.o.polling = c.o.polling

\* Signalling and numbering change nothing that Base and Faithful are about.
LEMMA AlikeKeeps ==
  ASSUME NEW c, NEW d, Alike(c, d), NEW k, NEW z
  PROVE  /\ Base(c, k, z) => Base(d, k, z)
         /\ Faithful(c.o, c.r, k, z) => Faithful(d.o, d.r, k, z)
  BY DEF Alike, Base, Faithful, Blank, PttKnown, DialKnown, DialExpected,
         MisreadsOutlasted, SplitKnown, ChangesHeld, RigSplit

LEMMA UpdateCompleteAlike ==
  ASSUME NEW c \in Context, NEW force \in BOOLEAN
  PROVE  Alike(c, UpdateComplete(c, force))
  BY UpdateCompleteFollows DEF Alike, Follows

LEMMA NumberedAlike ==
  ASSUME NEW c \in Context, NEW n \in Nat
  PROVE  Alike(c, Numbered(c, n))
  <1> DEFINE o == [c.o EXCEPT !.seq = n]
  <1>1. /\ o.mode = c.o.mode /\ o.requested = c.o.requested
        /\ o.actual = c.o.actual /\ o.next = c.o.next
        /\ o.retries = c.o.retries /\ o.polling = c.o.polling
    BY DEF Context, Object
  <1>2. Numbered(c, n) = [c EXCEPT !.o = o]
    BY DEF Numbered
  <1> HIDE DEF o
  <1> QED
    BY <1>1, <1>2 DEF Alike, Context

\* Not connected, and no exception pending.
Rests(d) ==
  d.o.requested = Offline /\ d.o.actual = Offline /\ ~d.o.polling /\ ~d.thrown

\* An object that rests knows enough.
LEMMA RestFaithful ==
  ASSUME NEW d, NEW k, NEW z, Base(d, k, z), Rests(d)
  PROVE  Faithful(d.o, d.r, k, z /\ ~d.faulty)
  BY DEF Rests, Base, Faithful, PttKnown, ChangesHeld, Offline

\* Unkeying, whether or not it throws.
LEMMA UnkeyBase ==
  ASSUME NEW c \in Context, ~c.thrown, NEW k \in Nat, NEW z \in BOOLEAN,
         Base(c, k, z), c.o.requested.online
  PROVE  LET d == Unkey(c) IN
         /\ Base(d, k, z) /\ ~d.thrown
         /\ ~RigSplit(d.o) \/ (z /\ ~d.faulty) => d.r.tx = NoFreq /\ d.o.next.tx = NoFreq
  <1> DEFINE p == DoPtt(c, FALSE)
             t == IF c.o.requested.split THEN DoTxFrequency(p, NoFreq) ELSE p
             d == Caught(t)
  <1>1. Calling(c, p) /\ Base(p, k, z)
    BY DoPttCalls, DoPttBase
  <1>2. /\ p \in Context /\ p.o.requested.online /\ p.o.mode = c.o.mode
    BY <1>1 DEF Calling, Follows
  <1>3. p.o.requested = c.o.requested
    BY DoPttEffect
  <1> HIDE DEF p
  <1>4. CASE c.o.requested.split
    <2>1. RigSplit(c.o)
      BY <1>4 DEF Base, SplitKnown, IsSplit
    <2>2. RigSplit(p.o)
      BY <1>2, <2>1 DEF RigSplit
    <2> DEFINE x == DoTxFrequency(p, NoFreq)
    <2>3. Base(x, k, z)
      BY <1>1, <1>2, <2>2, DoTxFrequencyBase
    <2>4. x \in Context /\ x.o.mode = p.o.mode
      BY <1>2, DoTxFrequencyCalls DEF Calling, Follows
    <2>5. ~x.thrown => x.r.tx = NoFreq /\ x.o.next.tx = NoFreq
      <3>1. CASE p.thrown
        BY <3>1 DEF DoTxFrequency
      <3>2. CASE ~p.thrown
        <4>1. NoFreq \in Freqs \cup {NoFreq}
          OBVIOUS
        <4>2. ~x.thrown => x.r.tx = NoFreq /\ x.o.actual.tx = NoFreq /\ x.o.next.tx = NoFreq
          BY <1>2, <3>2, <4>1, DoTxFrequencyEffect
        <4> QED
          BY <4>2
      <3> QED
        BY <3>1, <3>2
    <2>6. t = x
      BY <1>4
    <2> HIDE DEF x, t
    <2>7. d.r = t.r /\ d.o = t.o /\ ~d.thrown /\ d.faulty = t.faulty
      BY <2>4, <2>6, CaughtCalls
    <2> HIDE DEF d
    <2>8. Base(d, k, z) /\ RigSplit(d.o)
      BY <2>2, <2>3, <2>4, <2>6, <2>7 DEF Base, RigSplit
    <2>9. ~d.faulty => ~x.thrown
      BY <2>3, <2>6, <2>7 DEF Base
    <2> QED
      BY <2>5, <2>6, <2>7, <2>8, <2>9 DEF Unkey, d, t, x, p
  <1>5. CASE ~c.o.requested.split
    <2>1. t = p
      BY <1>5
    <2> HIDE DEF t
    <2>2. d.r = p.r /\ d.o = p.o /\ ~d.thrown /\ d.faulty = p.faulty
      BY <1>2, <2>1, CaughtCalls
    <2> HIDE DEF d
    <2>3. Base(d, k, z)
      BY <1>1, <2>2 DEF Base
    <2>4. ~d.o.requested.split /\ d.o.requested.online
      BY <1>2, <1>3, <1>5, <2>2
    <2>5. ~RigSplit(d.o) \/ (z /\ ~d.faulty) => d.r.tx = NoFreq /\ d.o.next.tx = NoFreq
      BY <2>3, <2>4 DEF Base, SplitKnown, IsSplit
    <2> QED
      BY <2>2, <2>3, <2>5 DEF Unkey, d, t, p
  <1> QED
    BY <1>4, <1>5

\* shutdown forgets everything about the radio, and undoes a split of its own.
LEMMA ShutdownBase ==
  ASSUME NEW c \in Context, ~c.thrown, NEW k \in Nat, NEW z \in BOOLEAN,
         Base(c, k, z)
  PROVE  Base(Shutdown(c), k, z) /\ Rests(Shutdown(c))
  <1> DEFINE d == IF c.o.requested.online THEN Unkey(c) ELSE c
             o == [d.o EXCEPT !.polling = FALSE, !.actual = Offline,
                              !.requested = Offline]
             e == [d EXCEPT !.o = o]
  <1>1. d \in Context
    BY UnkeyCalls DEF Calling, Follows
  <1>2. Base(d, k, z) /\ ~d.thrown
    BY UnkeyBase
  <1>3. ~RigSplit(d.o) \/ (z /\ ~d.faulty) => d.r.tx = NoFreq /\ d.o.next.tx = NoFreq
    <2>1. CASE c.o.requested.online
      BY <2>1, UnkeyBase
    <2>2. CASE ~c.o.requested.online
      BY <2>2 DEF Base, SplitKnown
    <2> QED
      BY <2>1, <2>2
  <1> HIDE DEF d
  <1>4. /\ o \in Object /\ o.mode = d.o.mode /\ o.next = d.o.next /\ ~o.polling
        /\ o.seq = d.o.seq /\ o.life = d.o.life
        /\ o.actual = Offline /\ o.requested = Offline
    BY <1>1, OfflineType DEF Context, Object
  <1> HIDE DEF o
  <1>5. /\ e \in Context /\ e.o = o /\ e.r = d.r /\ e.thrown = d.thrown
        /\ e.faulty = d.faulty
    BY <1>1, <1>4, ObjectChange DEF Follows
  <1> HIDE DEF e
  <1>6. Base(e, k, z)
    <2>1. ~e.o.requested.online
      BY <1>4, <1>5 DEF Offline
    <2> QED
      BY <1>2, <1>3, <1>4, <1>5, <2>1
         DEF Base, Blank, DialKnown, DialExpected, MisreadsOutlasted, SplitKnown,
             RigSplit
  <1>7. Shutdown(c) = UpdateComplete(e, FALSE)
    BY DEF Shutdown, d, o, e
  <1>8. Alike(e, Shutdown(c))
    BY <1>5, <1>7, UpdateCompleteAlike
  <1>9. Rests(Shutdown(c))
    BY <1>2, <1>4, <1>5, <1>8 DEF Alike, Rests
  <1> QED
    BY <1>6, <1>8, <1>9, AlikeKeeps

LEMMA GoOfflineBase ==
  ASSUME NEW c \in Context, NEW k \in Nat, NEW z \in BOOLEAN, Base(c, k, z)
  PROVE  Base(GoOffline(c), k, z) /\ Rests(GoOffline(c))
  <1> DEFINE b == Caught(c)
             e == Emit(b, "failure", Offline)
  <1>1. /\ b \in Context /\ b.r = c.r /\ b.o = c.o /\ ~b.thrown
        /\ b.faulty = c.faulty
    BY CaughtCalls DEF Calling, Follows
  <1> HIDE DEF b
  <1>2. /\ e \in Context /\ e.o = b.o /\ e.r = b.r /\ ~e.thrown
        /\ e.faulty = b.faulty
    BY <1>1, EmitFollows, OfflineType DEF Follows
  <1> HIDE DEF e
  <1>3. Base(e, k, z)
    BY <1>1, <1>2 DEF Base
  <1>4. GoOffline(c) = Shutdown(e)
    BY DEF GoOffline, e, b
  <1> QED
    BY <1>2, <1>3, <1>4, ShutdownBase

\* An object that goes online takes over the dial it reads.
LEMMA GoOnlineEffect ==
  ASSUME NEW c \in Context
  PROVE  LET d == GoOnline(c) IN
         /\ d \in Context /\ d.r = c.r /\ d.thrown = c.thrown /\ d.faulty = c.faulty
         /\ d.o.mode = c.o.mode /\ d.o.polling = c.o.polling
         /\ d.o.next = c.o.next
         /\ d.o.actual = [c.o.actual EXCEPT !.online = TRUE]
         /\ d.o.requested = [c.o.requested EXCEPT !.online = TRUE]
  <1> DEFINE a == [c.o.actual EXCEPT !.online = TRUE]
             q == [c.o.requested EXCEPT !.online = TRUE]
             o == [c.o EXCEPT !.actual = a, !.requested = q]
  <1>1. a \in TransceiverState /\ q \in TransceiverState
    BY DEF Context, Object, TransceiverState
  <1>2. GoOnline(c) = [c EXCEPT !.o = o]
    <2>1. o = [c.o EXCEPT !.actual.online = TRUE, !.requested.online = TRUE]
      BY DEF Context, Object
    <2> HIDE DEF o
    <2> QED
      BY <2>1 DEF GoOnline
  <1> HIDE DEF a, q
  <1>3. /\ o \in Object /\ o.mode = c.o.mode /\ o.polling = c.o.polling
        /\ o.next = c.o.next /\ o.actual = a /\ o.requested = q
        /\ o.seq = c.o.seq /\ o.life = c.o.life
    BY <1>1 DEF Context, Object
  <1> HIDE DEF o
  <1>4. LET d == [c EXCEPT !.o = o] IN
        /\ d \in Context /\ d.o = o /\ d.r = c.r /\ d.thrown = c.thrown
        /\ d.faulty = c.faulty
    BY <1>3 DEF Context
  <1> QED
    BY <1>2, <1>3, <1>4 DEF a, q

\* startup, by the object that takes the radio over.
LEMMA StartupFaithful ==
  ASSUME NEW c \in Context, NEW k \in Nat, NEW z \in BOOLEAN, Base(c, k, z),
         Rests(c)
  PROVE  LET d == Startup(c) IN
         /\ Base(d, k, z) /\ ~d.thrown
         /\ Faithful(d.o, d.r, k, z /\ ~d.faulty)
  <1> DEFINE g == GoOnline(c)
             p == DoPoll(g, "start", c.r.freq)
             n == [p.o.next EXCEPT !.online = TRUE]
             m == Expecting(p, ~p.o.next.online)
             u == [p.o EXCEPT !.polling = TRUE, !.next = n, !.retries = m]
             e == [p EXCEPT !.o = u]
  <1>1. /\ g \in Context /\ g.r = c.r /\ ~g.thrown /\ g.faulty = c.faulty
        /\ g.o.mode = c.o.mode /\ ~g.o.polling /\ g.o.next = c.o.next
        /\ g.o.actual = [Offline EXCEPT !.online = TRUE]
        /\ g.o.requested = [Offline EXCEPT !.online = TRUE]
    BY GoOnlineEffect DEF Rests
  <1>2. /\ g.o.requested.online /\ ~g.o.requested.ptt /\ g.o.requested.split = FALSE
        /\ g.o.requested.tx = NoFreq /\ g.o.actual.tx = NoFreq /\ ~g.o.actual.ptt
    BY <1>1 DEF Offline
  <1> HIDE DEF g
  <1>3. ~RigSplit(g.o) \/ (z /\ ~g.faulty) => g.r.tx = NoFreq /\ g.o.next.tx = NoFreq
    BY <1>1 DEF Base, SplitKnown, RigSplit, Rests, Offline
  <1>4. DialExpected(g.o, g.r, k)
    BY <1>1 DEF Base, DialExpected, RigSplit
  <1>5. Base(g, k, z)
    BY <1>1, <1>2, <1>3, <1>4
       DEF Base, Blank, DialKnown, MisreadsOutlasted, SplitKnown, IsSplit
  <1>6. c.r.freq \in Freqs
    BY FieldTypes
  <1>7. p \in Context /\ p.o.mode = g.o.mode
    BY <1>1, <1>6, DoPollCalls DEF Calling, Follows
  <1>8. /\ p.o.polling = g.o.polling /\ p.o.next = g.o.next
        /\ p.r.freq = g.r.freq /\ p.r.tx = g.r.tx /\ p.r.ptt = g.r.ptt
        /\ p.thrown => p.faulty /\ p.o = g.o /\ p.r = g.r
        /\ ~p.thrown =>
             /\ p.faulty = g.faulty /\ ~p.r.settling
             /\ p.o.actual.ptt = g.r.ptt
             /\ p.o.actual.tx = IF IsSplit(g.r.tx) THEN g.r.tx ELSE g.o.actual.tx
             /\ p.o.actual.freq = c.r.freq
             /\ p.o.requested = [g.o.requested EXCEPT !.freq = c.r.freq]
    <2> DEFINE blind == g.o.actual.ptt /\ IsSplit(g.r.tx)
    <2>1. /\ p.o.polling = g.o.polling /\ p.o.next = g.o.next
          /\ p.o.retries = g.o.retries /\ p.r.freq = g.r.freq
          /\ p.r.tx = g.r.tx /\ p.r.ptt = g.r.ptt
          /\ p.thrown => p.faulty /\ p.o = g.o /\ p.r = g.r
          /\ ~p.thrown =>
               /\ p.faulty = g.faulty
               /\ p.r.settling = (g.r.settling /\ c.r.freq # g.r.freq)
               /\ p.o.actual.ptt = g.r.ptt
               /\ p.o.actual.online = g.o.actual.online
               /\ p.o.actual.tx = IF IsSplit(g.r.tx) THEN g.r.tx ELSE g.o.actual.tx
               /\ p.o.actual.freq = IF blind THEN g.o.actual.freq ELSE c.r.freq
               /\ p.o.requested = [g.o.requested EXCEPT
                                     !.freq = IF blind THEN @ ELSE c.r.freq]
      BY <1>1, <1>6, DoPollEffect
    <2>2. ~blind /\ c.r.freq = g.r.freq
      BY <1>1, <1>2
    <2> HIDE DEF p, blind
    <2> QED
      BY <2>1, <2>2
  <1>9. Connect(c) = IF p.thrown THEN p ELSE e
    <2>1. Connect(c) = IF p.thrown THEN p
            ELSE [p EXCEPT !.o = [p.o EXCEPT !.polling = TRUE,
                                    !.next.online = TRUE, !.retries = m]]
      BY DEF Connect, g
    <2> HIDE DEF p, m
    <2>2. u = [p.o EXCEPT !.polling = TRUE, !.next.online = TRUE, !.retries = m]
      BY <1>7 DEF Context, Object
    <2> QED
      BY <2>1, <2>2
  <1> HIDE DEF p
  <1>10. CASE p.thrown
    <2>1. Base(p, k, z)
      BY <1>5, <1>8, <1>10 DEF Base, SplitKnown
    <2>2. Startup(c) = GoOffline(p)
      BY <1>9, <1>10 DEF Startup
    <2>3. Base(GoOffline(p), k, z) /\ Rests(GoOffline(p))
      BY <1>7, <2>1, GoOfflineBase
    <2> QED
      BY <2>2, <2>3, RestFaithful DEF Rests
  <1>11. CASE ~p.thrown
    <2>1. /\ n.freq = g.o.next.freq /\ n.tx = g.o.next.tx
      BY <1>7, <1>8, FieldTypes DEF TransceiverState
    <2>2. /\ p.o.requested.freq = c.r.freq /\ p.o.requested.online
          /\ p.o.requested.tx = NoFreq /\ p.o.requested.split = FALSE
          /\ ~p.o.requested.ptt
      BY <1>1, <1>2, <1>8, <1>11, FieldTypes, ZenonT(30) DEF TransceiverState
    <2> HIDE DEF n, m
    <2>3. /\ u.mode = p.o.mode /\ u.polling /\ u.next = n
          /\ u.actual = p.o.actual /\ u.requested = p.o.requested
      BY <1>7 DEF Context, Object
    <2> HIDE DEF u
    <2>4. e.o = u /\ e.r = p.r /\ ~e.thrown /\ e.faulty = p.faulty
      BY <1>7, <1>11 DEF Context
    <2>5. Startup(c) = e
      BY <1>9, <1>11, <2>4 DEF Startup
    <2> HIDE DEF e
    <2>6. e.r.freq = c.r.freq /\ e.r.tx = c.r.tx /\ ~e.r.settling
      BY <1>1, <1>8, <1>11, <2>4
    <2>7. Blank(e.o) /\ PttKnown(e.o, e.r) /\ DialKnown(e.o, e.r, k)
      BY <1>1, <1>8, <1>11, <2>2, <2>3, <2>4, <2>6 DEF Blank, PttKnown, DialKnown
    <2>8. DialExpected(e.o, e.r, k)
      BY <1>1, <1>4, <1>7, <1>8, <2>1, <2>3, <2>4, <2>6 DEF DialExpected, RigSplit
    <2>9. MisreadsOutlasted(e.o, e.r, k) /\ ChangesHeld(e.o, e.r, k, z /\ ~e.faulty)
      BY <2>2, <2>3, <2>4, <2>6 DEF MisreadsOutlasted, ChangesHeld
    <2>10. SplitKnown(e.o, e.r, z /\ ~e.faulty)
      <3>1. SUFFICES ASSUME ~RigSplit(e.o) \/ (z /\ ~e.faulty)
                     PROVE  /\ e.r.tx = NoFreq /\ e.o.actual.tx = NoFreq
                            /\ e.o.next.tx = NoFreq
        BY <2>2, <2>3, <2>4 DEF SplitKnown, IsSplit
      <3>2. RigSplit(e.o) = RigSplit(g.o) /\ e.faulty = g.faulty
        BY <1>7, <1>8, <1>11, <2>3, <2>4 DEF RigSplit
      <3>3. g.r.tx = NoFreq /\ g.o.next.tx = NoFreq
        BY <1>3, <3>1, <3>2
      <3>4. p.o.actual.tx = NoFreq
        BY <1>2, <1>8, <1>11, <3>3 DEF IsSplit
      <3> QED
        BY <1>1, <2>1, <2>3, <2>4, <2>6, <3>3, <3>4
    <2> QED
      BY <2>4, <2>5, <2>7, <2>8, <2>9, <2>10 DEF Base, Faithful
  <1> QED
    BY <1>10, <1>11

LEMMA StartFaithful ==
  ASSUME NEW c \in Context, ~c.thrown, NEW n \in Nat, NEW k \in Nat,
         NEW z \in BOOLEAN, Base(c, k, z)
  PROVE  LET d == Start(c, n) IN Faithful(d.o, d.r, k, z /\ ~d.faulty)
  <1> DEFINE b == Numbered(c, n)
             s == Shutdown(b)
             u == Startup(s)
             d == UpdateComplete(u, TRUE)
  <1>1. b \in Context /\ ~b.thrown /\ Base(b, k, z)
    BY NumberedFacts, NumberedAlike, AlikeKeeps
  <1> HIDE DEF b
  <1>2. s \in Context /\ Base(s, k, z) /\ Rests(s)
    BY <1>1, ShutdownCloses, ShutdownBase DEF Closed, Follows
  <1> HIDE DEF s
  <1>3. u \in Context /\ Faithful(u.o, u.r, k, z /\ ~u.faulty)
    BY <1>2, StartupServes, StartupFaithful DEF Served, Follows
  <1> HIDE DEF u
  <1>4. Alike(u, d)
    BY <1>3, UpdateCompleteAlike
  <1>5. Start(c, n) = d
    BY DEF Start, s, u, b
  <1> HIDE DEF d
  <1>6. d.faulty = u.faulty
    BY <1>4 DEF Alike
  <1> QED
    BY <1>3, <1>4, <1>5, <1>6, AlikeKeeps

LEMMA StopFaithful ==
  ASSUME NEW c \in Context, ~c.thrown, NEW k \in Nat, NEW z \in BOOLEAN,
         Base(c, k, z)
  PROVE  LET d == Stop(c) IN Faithful(d.o, d.r, k, z /\ ~d.faulty)
  BY ShutdownBase, RestFaithful DEF Stop

\* Between two steps of a slot that may throw.
Fine(c, k, z) ==
  /\ Base(c, k, z)
  /\ ~c.thrown => Faithful(c.o, c.r, k, z /\ ~c.faulty)

\* A step that did not throw owes the two parts that are not in Base.
LEMMA FineFromBase ==
  ASSUME NEW c, NEW k, NEW z, Base(c, k, z),
         ~c.thrown => PttKnown(c.o, c.r) /\ ChangesHeld(c.o, c.r, k, z /\ ~c.faulty)
  PROVE  Fine(c, k, z)
  BY DEF Fine, Base, Faithful

\* A request for the audio devices leaves dial and split alone.
LEMMA ApplyAudioFine ==
  ASSUME NEW c \in Context, ~c.thrown, NEW s \in TransceiverState, NEW k \in Nat,
         NEW z \in BOOLEAN, Fine(c, k, z), c.o.requested.online
  PROVE  Fine(ApplyAudio(c, s), k, z)
  <1> DEFINE d == DoTune(c, s.tune)
             q == [d.o.requested EXCEPT !.tune = s.tune]
             o == [d.o EXCEPT !.requested = q]
             e == [d EXCEPT !.o = o]
  <1>1. s.tune \in BOOLEAN
    BY DEF TransceiverState
  <1>2. /\ d.r = c.r /\ d.o.polling = c.o.polling
        /\ d.o.requested = c.o.requested /\ d.o.next = c.o.next
        /\ d.o.retries = c.o.retries
        /\ d.o.actual.freq = c.o.actual.freq /\ d.o.actual.tx = c.o.actual.tx
        /\ d.thrown => d.faulty
        /\ ~d.thrown => d.faulty = c.faulty /\ (d.o.actual.ptt => c.o.actual.ptt)
    BY <1>1, DoTuneEffect
  <1>3. d \in Context /\ d.o.mode = c.o.mode
    BY <1>1, DoTuneCalls DEF Calling, Follows
  <1>4. ApplyAudio(c, s) = IF d.thrown THEN d ELSE e
    <2>1. ApplyAudio(c, s)
            = IF d.thrown THEN d
              ELSE [d EXCEPT !.o = [d.o EXCEPT !.requested.tune = s.tune]]
      BY DEF ApplyAudio
    <2> HIDE DEF d
    <2>2. o = [d.o EXCEPT !.requested.tune = s.tune]
      BY <1>3 DEF Context, Object
    <2> QED
      BY <2>1, <2>2
  <1> HIDE DEF d
  <1>5. /\ q.online = c.o.requested.online /\ q.freq = c.o.requested.freq
        /\ q.tx = c.o.requested.tx /\ q.split = c.o.requested.split
        /\ q.ptt = c.o.requested.ptt
    BY <1>2, FieldTypes, ZenonT(30) DEF TransceiverState
  <1> HIDE DEF q
  <1>6. /\ o.mode = d.o.mode /\ o.polling = d.o.polling /\ o.requested = q
        /\ o.actual = d.o.actual /\ o.next = d.o.next /\ o.retries = d.o.retries
    BY <1>3 DEF Context, Object
  <1> HIDE DEF o
  <1>7. e.o = o /\ e.r = d.r /\ e.thrown = d.thrown /\ e.faulty = d.faulty
    BY <1>3 DEF Context
  <1> HIDE DEF e
  <1>8. CASE d.thrown
    <2>1. Base(d, k, z)
      <3>1. /\ Blank(d.o) /\ DialKnown(d.o, d.r, k) /\ DialExpected(d.o, d.r, k)
            /\ MisreadsOutlasted(d.o, d.r, k)
        BY <1>2, <1>3, <1>8
           DEF Fine, Base, Blank, DialKnown, DialExpected, MisreadsOutlasted, RigSplit
      <3>2. SplitKnown(d.o, d.r, z /\ ~d.faulty)
        BY <1>2, <1>3, <1>8 DEF Fine, Base, SplitKnown, RigSplit
      <3> QED
        BY <1>2, <1>3, <1>8, <3>1, <3>2 DEF Base
    <2> QED
      BY <1>4, <1>8, <2>1 DEF Fine
  <1>9. CASE ~d.thrown
    <2>1. Base(e, k, z)
      <3>1. /\ Blank(e.o) /\ DialKnown(e.o, e.r, k) /\ DialExpected(e.o, e.r, k)
            /\ MisreadsOutlasted(e.o, e.r, k)
        BY <1>2, <1>3, <1>5, <1>6, <1>7, <1>9
           DEF Fine, Base, Blank, DialKnown, DialExpected, MisreadsOutlasted, RigSplit
      <3>2. SplitKnown(e.o, e.r, z /\ ~e.faulty)
        BY <1>2, <1>3, <1>5, <1>6, <1>7, <1>9, ZenonT(30) DEF Fine, Base, SplitKnown, RigSplit
      <3> QED
        BY <1>2, <1>3, <1>5, <1>6, <1>7, <1>9, <3>1, <3>2 DEF Base
    <2>2. PttKnown(e.o, e.r) /\ ChangesHeld(e.o, e.r, k, z /\ ~e.faulty)
      BY <1>2, <1>3, <1>5, <1>6, <1>7, <1>9
         DEF Fine, Faithful, PttKnown, ChangesHeld, RigSplit
    <2> QED
      BY <1>4, <1>9, <2>1, <2>2, FineFromBase
  <1> QED
    BY <1>8, <1>9

\* The polls of a rig that does the split, while a request is carried out.
Guarded(c) ==
  c.o.polling /\ c.r.settling => c.r.ptt \/ c.o.retries >= PollsToStabilize

\* A request: unkey, frequencies, key, in the order of TransceiverBase::set.
LEMMA ApplyRigFine ==
  ASSUME NEW c \in Context, ~c.thrown, NEW s \in TransceiverState, NEW k \in Nat,
         NEW z \in BOOLEAN, Fine(c, k, z), c.o.requested.online,
         ~RigSplit(c.o) => s.tx = NoFreq
  PROVE  Fine(ApplyRig(c, s), k, z)
  <1> DEFINE on  == s.ptt /\ ~c.o.requested.ptt
             off == ~s.ptt /\ c.o.requested.ptt
             toF == s.freq # NoFreq /\ s.freq # c.o.requested.freq
             toTx == s.tx # c.o.requested.tx \/ (s.tx # NoFreq /\ on)
             p   == IF off THEN DoPtt(c, FALSE) ELSE c
             q   == IF toF THEN DoFrequency(p, s.freq)
                    ELSE IF toTx THEN DoTxFrequency(p, s.tx) ELSE p
             l   == IF on THEN DoPtt(q, TRUE) ELSE q
             r   == [l.o.requested EXCEPT !.ptt = l.o.actual.ptt]
             o   == [l.o EXCEPT !.requested = r]
             e   == [l EXCEPT !.o = o]
             \* a rig that does the split, nothing misread and nothing thrown
             Good(x) == RigSplit(x.o) /\ k = 0 /\ z /\ ~x.faulty
  <1>1. s.freq \in Freqs \cup {NoFreq} /\ s.tx \in Freqs \cup {NoFreq}
    BY DEF TransceiverState
  <1>2. Base(c, k, z) /\ PttKnown(c.o, c.r)
        /\ ChangesHeld(c.o, c.r, k, z /\ ~c.faulty)
    BY DEF Fine, Faithful
  \* PTT off
  <1>3. /\ p \in Context /\ p.o.mode = c.o.mode /\ p.o.requested = c.o.requested
        /\ Base(p, k, z) /\ (~p.thrown => PttKnown(p.o, p.r))
    <2>1. DoPtt(c, FALSE) \in Context /\ DoPtt(c, FALSE).o.mode = c.o.mode
      BY DoPttCalls DEF Calling, Follows
    <2>2. DoPtt(c, FALSE).o.requested = c.o.requested
      BY DoPttEffect
    <2>3. /\ Base(DoPtt(c, FALSE), k, z)
          /\ ~DoPtt(c, FALSE).thrown => PttKnown(DoPtt(c, FALSE).o, DoPtt(c, FALSE).r)
      BY <1>2, DoPttBase
    <2> QED
      BY <1>2, <2>1, <2>2, <2>3
  <1>4. Good(p) =>
          /\ Good(c) /\ ~p.thrown /\ Guarded(p)
          /\ p.o.polling = c.o.polling /\ p.o.next.tx = c.o.next.tx
          /\ p.o.next.freq = c.o.next.freq /\ p.r.freq = c.r.freq
          /\ off => ~p.o.actual.ptt
          /\ ~off => p.r.ptt = c.r.ptt /\ p.o.next.ptt = c.o.next.ptt
    <2> DEFINE d == DoPtt(c, FALSE)
    <2>1. CASE off
      <3>1. /\ d.r.freq = c.r.freq /\ d.r.tx = c.r.tx /\ d.r.settling = c.r.settling
            /\ d.o.polling = c.o.polling
            /\ d.thrown => d.faulty
            /\ ~d.thrown =>
                 /\ d.faulty = c.faulty /\ d.r.ptt = FALSE
                 /\ d.o.actual = [c.o.actual EXCEPT !.ptt = FALSE]
                 /\ d.o.next = [c.o.next EXCEPT !.ptt = FALSE]
                 /\ d.o.retries = Expecting(c, c.o.next.ptt # FALSE)
        BY DoPttEffect
      <3>2. p = d
        BY <2>1
      <3> HIDE DEF d, p
      <3>3. SUFFICES ASSUME Good(p)
                     PROVE  /\ Good(c) /\ ~p.thrown /\ Guarded(p)
                            /\ p.o.polling = c.o.polling
                            /\ p.o.next.tx = c.o.next.tx
                            /\ p.o.next.freq = c.o.next.freq
                            /\ p.r.freq = c.r.freq
                            /\ ~p.o.actual.ptt
        BY <2>1
      <3>4. ~p.thrown /\ Good(c)
        BY <1>3, <3>1, <3>2, <3>3 DEF RigSplit
      <3>5. c.o.next.ptt
        BY <1>2, <2>1, <3>4 DEF ChangesHeld
      <3>6. /\ p.o.actual.ptt = FALSE /\ p.o.next.tx = c.o.next.tx
            /\ p.o.next.freq = c.o.next.freq
        BY <3>1, <3>2, <3>4, FieldTypes DEF TransceiverState
      <3>7. p.o.retries = PollsToStabilize
        BY <3>1, <3>2, <3>4, <3>5 DEF Expecting
      <3> QED
        BY <3>1, <3>2, <3>4, <3>6, <3>7, ConstAssumption DEF Guarded
    <2>2. CASE ~off
      <3>1. p = c
        BY <2>2
      <3> HIDE DEF p
      <3> QED
        BY <1>2, <2>2, <3>1 DEF ChangesHeld, Guarded
    <2> QED
      BY <2>1, <2>2
  <1> HIDE DEF p
  \* one of the two frequencies
  <1>5. /\ q \in Context /\ q.o.mode = c.o.mode /\ q.o.requested.online
        /\ Base(q, k, z) /\ (~q.thrown => PttKnown(q.o, q.r))
    <2>1. CASE toF
      <3>1. s.freq \in Freqs /\ s.freq # p.o.requested.freq
        BY <1>1, <1>3, <2>1
      <3>2. q = DoFrequency(p, s.freq)
        BY <2>1
      <3> HIDE DEF q
      <3>3. q \in Context /\ q.o.mode = p.o.mode /\ q.o.requested.online
        BY <1>3, <3>1, <3>2, DoFrequencyCalls DEF Calling, Follows
      <3>4. Base(q, k, z) /\ (~q.thrown /\ PttKnown(p.o, p.r) => PttKnown(q.o, q.r))
        BY <1>3, <3>1, <3>2, DoFrequencyBase
      <3>5. ~q.thrown => ~p.thrown
        BY <3>2 DEF DoFrequency, Try
      <3> QED
        BY <1>3, <3>3, <3>4, <3>5
    <2>2. CASE ~toF /\ toTx
      <3>1. RigSplit(p.o)
        BY <1>2, <1>3, <2>2 DEF Base, SplitKnown, RigSplit
      <3>2. q = DoTxFrequency(p, s.tx)
        BY <2>2
      <3> HIDE DEF q
      <3>3. q \in Context /\ q.o.mode = p.o.mode /\ q.o.requested.online
        BY <1>1, <1>3, <3>2, DoTxFrequencyCalls DEF Calling, Follows
      <3>4. Base(q, k, z) /\ (~q.thrown /\ PttKnown(p.o, p.r) => PttKnown(q.o, q.r))
        BY <1>1, <1>3, <3>1, <3>2, DoTxFrequencyBase
      <3>5. ~q.thrown => ~p.thrown
        BY <3>2 DEF DoTxFrequency
      <3> QED
        BY <1>3, <3>3, <3>4, <3>5
    <2>3. CASE ~toF /\ ~toTx
      <3>1. q = p
        BY <2>3
      <3> HIDE DEF q
      <3> QED
        BY <1>3, <3>1
    <2> QED
      BY <2>1, <2>2, <2>3
  <1>6. Good(q) =>
          /\ Good(p) /\ (on \/ Guarded(q))
          /\ q.r.ptt = p.r.ptt /\ q.o.next.ptt = p.o.next.ptt
          /\ q.o.actual.ptt = p.o.actual.ptt
          /\ q.o.requested.ptt = c.o.requested.ptt
    <2>1. CASE toF
      <3>1. s.freq \in Freqs /\ s.freq # p.o.requested.freq
        BY <1>1, <1>3, <2>1
      <3>2. q = DoFrequency(p, s.freq)
        BY <2>1
      <3> HIDE DEF q, toF, toTx, on, off
      <3>3. SUFFICES ASSUME Good(q)
                     PROVE  /\ Good(p) /\ Guarded(q)
                            /\ q.r.ptt = p.r.ptt /\ q.o.next.ptt = p.o.next.ptt
                            /\ q.o.actual.ptt = p.o.actual.ptt
                            /\ q.o.requested.ptt = p.o.requested.ptt
        BY <1>3
      <3>4. ~q.thrown
        BY <1>5, <3>3 DEF Base
      <3>5. ~p.thrown
        BY <3>2, <3>4 DEF DoFrequency, Try
      <3>6. /\ q.o.polling = p.o.polling /\ q.r.ptt = p.r.ptt
            /\ q.faulty = p.faulty /\ q.r.freq = s.freq
            /\ q.o.actual = [p.o.actual EXCEPT !.freq = s.freq]
            /\ q.o.requested = [p.o.requested EXCEPT !.freq = s.freq]
            /\ q.o.next = [p.o.next EXCEPT !.freq = s.freq]
            /\ q.o.retries = Expecting(p, p.o.next.freq # s.freq)
        BY <1>3, <3>1, <3>2, <3>4, <3>5, DoFrequencyEffect
      <3>7. /\ q.o.actual.ptt = p.o.actual.ptt /\ q.o.next.ptt = p.o.next.ptt
            /\ q.o.requested.ptt = p.o.requested.ptt
        BY <1>3, <3>6, FieldTypes DEF TransceiverState
      <3>8. Good(p)
        BY <1>3, <1>5, <3>3, <3>6 DEF RigSplit
      <3>9. Guarded(q)
        <4>1. CASE ~p.o.polling
          BY <3>6, <4>1 DEF Guarded
        <4>2. CASE p.o.polling
          <5>1. p.o.requested.freq = p.r.freq /\ p.o.next.freq \in {NoFreq, p.r.freq}
            BY <1>3, <3>8, <4>2 DEF Base, DialKnown, DialExpected
          <5>2. p.o.next.freq # s.freq
            BY <3>1, <5>1, ConstAssumption
          <5>3. q.o.retries = PollsToStabilize
            BY <3>6, <5>2 DEF Expecting
          <5> QED
            BY <5>3, ConstAssumption DEF Guarded
        <4> QED
          BY <1>3, <4>1, <4>2, FieldTypes
      <3> QED
        BY <3>6, <3>7, <3>8, <3>9
    <2>2. CASE ~toF /\ toTx
      <3>1. q = DoTxFrequency(p, s.tx)
        BY <2>2
      <3>2. s.tx # c.o.requested.tx \/ on
        BY <2>2
      <3> HIDE DEF q, toF, toTx, on, off
      <3>3. SUFFICES ASSUME Good(q)
                     PROVE  /\ Good(p) /\ (on \/ Guarded(q))
                            /\ q.r.ptt = p.r.ptt /\ q.o.next.ptt = p.o.next.ptt
                            /\ q.o.actual.ptt = p.o.actual.ptt
                            /\ q.o.requested.ptt = p.o.requested.ptt
        BY <1>3
      <3>4. ~q.thrown
        BY <1>5, <3>3 DEF Base
      <3>5. ~p.thrown
        BY <3>1, <3>4 DEF DoTxFrequency
      <3>6. /\ q.o.polling = p.o.polling /\ q.r.ptt = p.r.ptt
            /\ q.o.requested = [p.o.requested EXCEPT !.tx = s.tx, !.split = IsSplit(s.tx)]
            /\ q.o.actual.ptt = p.o.actual.ptt /\ q.o.next.ptt = p.o.next.ptt
            /\ q.faulty = p.faulty
            /\ q.o.retries = Expecting(p, p.o.next.tx # s.tx)
        <4> DEFINE x == DoTxFrequency(p, s.tx)
        <4>1. /\ x.o.polling = p.o.polling /\ x.r.freq = p.r.freq /\ x.r.ptt = p.r.ptt
              /\ x.o.requested
                   = [p.o.requested EXCEPT !.tx = s.tx, !.split = IsSplit(s.tx)]
              /\ x.o.actual.freq = p.o.actual.freq /\ x.o.actual.ptt = p.o.actual.ptt
              /\ x.o.next.freq = p.o.next.freq /\ x.o.next.ptt = p.o.next.ptt
              /\ x.thrown => x.faulty
              /\ ~x.thrown =>
                   /\ x.faulty = p.faulty /\ x.r.tx = s.tx /\ x.r.settling
                   /\ x.o.actual.tx = s.tx /\ x.o.next.tx = s.tx
                   /\ x.o.retries = Expecting(p, p.o.next.tx # s.tx)
          BY <1>1, <1>3, <3>5, DoTxFrequencyEffect
        <4>2. q = x
          BY <3>1
        <4> HIDE DEF x
        <4> QED
          BY <3>4, <4>1, <4>2
      <3>7. q.o.requested.ptt = p.o.requested.ptt
        BY <1>3, <3>6, FieldTypes DEF TransceiverState
      <3>8. Good(p)
        BY <1>3, <1>5, <3>3, <3>6 DEF RigSplit
      <3>9. on \/ Guarded(q)
        <4>1. SUFFICES ASSUME s.tx # p.o.requested.tx
                       PROVE  Guarded(q)
          BY <1>3, <3>2
        <4>2. p.o.next.tx = p.o.requested.tx
          BY <1>3, <3>8 DEF Base, SplitKnown
        <4>3. q.o.retries = PollsToStabilize
          BY <3>6, <4>1, <4>2 DEF Expecting
        <4> QED
          BY <4>3, ConstAssumption DEF Guarded
      <3> QED
        BY <3>6, <3>7, <3>8, <3>9
    <2>3. CASE ~toF /\ ~toTx
      <3>1. q = p
        BY <2>3
      <3> HIDE DEF q, on
      <3> QED
        BY <1>3, <1>4, <3>1
    <2> QED
      BY <2>1, <2>2, <2>3
  <1> HIDE DEF q
  \* PTT on
  <1>7. /\ l \in Context /\ l.o.mode = c.o.mode /\ l.o.requested.online
        /\ Base(l, k, z) /\ (~l.thrown => PttKnown(l.o, l.r))
    <2>1. CASE on
      <3>1. l = DoPtt(q, TRUE)
        BY <2>1
      <3> HIDE DEF l
      <3>2. l \in Context /\ l.o.mode = q.o.mode /\ l.o.requested.online
        BY <1>5, <3>1, DoPttCalls DEF Calling, Follows
      <3>3. Base(l, k, z) /\ (~l.thrown => PttKnown(l.o, l.r))
        BY <1>5, <3>1, DoPttBase
      <3> QED
        BY <1>5, <3>2, <3>3
    <2>2. CASE ~on
      <3>1. l = q
        BY <2>2
      <3> HIDE DEF l
      <3> QED
        BY <1>5, <3>1
    <2> QED
      BY <2>1, <2>2
  <1>8. Good(l) =>
          /\ Guarded(l)
          /\ on => l.r.ptt /\ l.o.next.ptt
          /\ off => ~l.o.actual.ptt
          /\ ~on /\ ~off /\ l.o.requested.ptt => l.r.ptt /\ l.o.next.ptt
    <2>1. CASE on
      <3>1. l = DoPtt(q, TRUE) /\ ~off
        BY <2>1
      <3> HIDE DEF l, on, off
      <3>2. SUFFICES ASSUME Good(l) PROVE l.r.ptt /\ l.o.next.ptt
        BY <2>1, <3>1 DEF Guarded
      <3>3. ~l.thrown
        BY <1>7, <3>2 DEF Base
      <3>4. ~q.thrown
        BY <3>1, <3>3 DEF DoPtt
      <3>5. l.r.ptt = TRUE /\ l.o.next = [q.o.next EXCEPT !.ptt = TRUE]
        BY <1>5, <3>1, <3>3, <3>4, DoPttEffect
      <3> QED
        BY <1>5, <3>5, FieldTypes DEF TransceiverState
    <2>2. CASE ~on
      <3>1. l = q
        BY <2>2
      <3> HIDE DEF l, on, off
      <3>2. SUFFICES ASSUME Good(q)
                     PROVE  /\ Guarded(q)
                            /\ off => ~q.o.actual.ptt
                            /\ ~off /\ q.o.requested.ptt => q.r.ptt /\ q.o.next.ptt
        BY <2>2, <3>1
      <3>3. /\ Good(p) /\ Guarded(q)
            /\ q.r.ptt = p.r.ptt /\ q.o.next.ptt = p.o.next.ptt
            /\ q.o.actual.ptt = p.o.actual.ptt
            /\ q.o.requested.ptt = c.o.requested.ptt
        BY <1>6, <2>2, <3>2
      <3>4. /\ Good(c) /\ (off => ~p.o.actual.ptt)
            /\ ~off => p.r.ptt = c.r.ptt /\ p.o.next.ptt = c.o.next.ptt
        BY <1>4, <3>3
      <3>5. c.o.requested.ptt => c.r.ptt /\ c.o.next.ptt
        BY <1>2, <3>4 DEF ChangesHeld
      <3> QED
        BY <3>3, <3>4, <3>5
    <2> QED
      BY <2>1, <2>2
  \* the request is recorded
  <1>9. ApplyRig(c, s) = IF (on \/ off) /\ ~l.thrown THEN e ELSE l
    <2>1. o = [l.o EXCEPT !.requested.ptt = l.o.actual.ptt]
      <3> HIDE DEF l
      <3> QED
        BY <1>7 DEF Context, Object
    <2>2. ApplyRig(c, s)
            = IF (on \/ off) /\ ~l.thrown
              THEN [l EXCEPT !.o = [l.o EXCEPT !.requested.ptt = l.o.actual.ptt]]
              ELSE l
      BY Zenon DEF ApplyRig, q, p
    <2> HIDE DEF l, o, on, off
    <2> QED
      BY <2>1, <2>2
  <1> HIDE DEF l, on, off
  <1>10. CASE ~((on \/ off) /\ ~l.thrown)
    <2>1. ~l.thrown => ChangesHeld(l.o, l.r, k, z /\ ~l.faulty)
      BY <1>8, <1>10 DEF ChangesHeld, Guarded
    <2> QED
      BY <1>7, <1>9, <1>10, <2>1, FineFromBase
  <1>11. CASE (on \/ off) /\ ~l.thrown
    <2>1. /\ r.online = l.o.requested.online /\ r.freq = l.o.requested.freq
          /\ r.tx = l.o.requested.tx /\ r.split = l.o.requested.split
          /\ r.ptt = l.o.actual.ptt
      BY <1>7, FieldTypes DEF TransceiverState
    <2> HIDE DEF r
    <2>2. /\ o.mode = l.o.mode /\ o.polling = l.o.polling /\ o.requested = r
          /\ o.actual = l.o.actual /\ o.next = l.o.next /\ o.retries = l.o.retries
      BY <1>7 DEF Context, Object
    <2> HIDE DEF o
    <2>3. e.o = o /\ e.r = l.r /\ e.thrown = l.thrown /\ e.faulty = l.faulty
      BY <1>7 DEF Context
    <2> HIDE DEF e
    <2>4. /\ Blank(e.o) /\ DialKnown(e.o, e.r, k) /\ DialExpected(e.o, e.r, k)
          /\ MisreadsOutlasted(e.o, e.r, k)
      BY <1>7, <2>1, <2>2, <2>3
         DEF Base, Blank, DialKnown, DialExpected, MisreadsOutlasted, RigSplit
    <2>5. SplitKnown(e.o, e.r, z /\ ~e.faulty)
      BY <1>7, <2>1, <2>2, <2>3 DEF Base, SplitKnown, RigSplit
    <2>6. Base(e, k, z) /\ PttKnown(e.o, e.r)
      BY <1>7, <1>11, <2>2, <2>3, <2>4, <2>5 DEF Base, PttKnown
    <2>7. ChangesHeld(e.o, e.r, k, z /\ ~e.faulty)
      BY <1>8, <1>11, <2>1, <2>2, <2>3 DEF ChangesHeld, Guarded, RigSplit
    <2> QED
      BY <1>9, <1>11, <2>6, <2>7, FineFromBase
  <1> QED
    BY <1>10, <1>11

LEMMA SetBaseFaithful ==
  ASSUME NEW c \in Context, ~c.thrown, NEW s \in TransceiverState, NEW n \in Nat,
         NEW k \in Nat, NEW z \in BOOLEAN, Fine(c, k, z),
         ~RigSplit(c.o) => s.tx = NoFreq
  PROVE  LET d == SetBase(c, s, n) IN Faithful(d.o, d.r, k, z /\ ~d.faulty)
  <1> DEFINE b == Numbered(c, n)
             x == Shutdown(b)
             y == Startup(x)
             d == IF ~s.online /\ b.o.requested.online THEN x
                  ELSE IF s.online /\ ~b.o.requested.online THEN y
                  ELSE b
             e == IF d.o.requested.online THEN Apply(d, s) ELSE d
             u == UpdateComplete(e, TRUE)
  <1>1. b \in Context /\ ~b.thrown
    BY NumberedFacts
  <1>2. Fine(b, k, z) /\ b.o.mode = c.o.mode
    BY NumberedAlike, AlikeKeeps DEF Fine, Alike
  <1> HIDE DEF b
  <1>3. x \in Context /\ Base(x, k, z) /\ Rests(x) /\ x.o.mode = b.o.mode
    BY <1>1, <1>2, ShutdownCloses, ShutdownBase DEF Closed, Follows, Fine
  <1> HIDE DEF x
  <1>4. y \in Context /\ ~y.thrown /\ Fine(y, k, z) /\ y.o.mode = x.o.mode
    BY <1>3, StartupServes, StartupFaithful DEF Served, Follows, Fine
  <1> HIDE DEF y
  <1>5. d \in Context /\ ~d.thrown /\ Fine(d, k, z) /\ d.o.mode = c.o.mode
    <2>1. Fine(x, k, z) /\ ~x.thrown
      BY <1>3, RestFaithful DEF Fine, Rests
    <2> QED
      BY <1>1, <1>2, <1>3, <1>4, <2>1
  <1> HIDE DEF d
  <1>6. e \in Context /\ Fine(e, k, z)
    <2>1. CASE d.o.requested.online
      <3>1. Apply(d, s) \in Context
        BY <1>5, <2>1, ApplyCalls DEF Calling, Follows
      <3>2. ~RigSplit(d.o) => s.tx = NoFreq
        BY <1>5 DEF RigSplit
      <3>3. Fine(ApplyAudio(d, s), k, z) /\ Fine(ApplyRig(d, s), k, z)
        BY <1>5, <2>1, <3>2, ApplyAudioFine, ApplyRigFine
      <3> QED
        BY <2>1, <3>1, <3>3 DEF Apply
    <2>2. CASE ~d.o.requested.online
      BY <1>5, <2>2
    <2> QED
      BY <2>1, <2>2
  <1> HIDE DEF e
  <1>7. u \in Context /\ Fine(u, k, z)
    <2>1. u \in Context /\ Alike(e, u)
      BY <1>6, UpdateCompleteFollows, UpdateCompleteAlike DEF Follows
    <2> QED
      BY <1>6, <2>1, AlikeKeeps DEF Fine, Alike
  <1>8. SetBase(c, s, n) = IF u.thrown THEN GoOffline(u) ELSE u
    BY DEF SetBase, b, d, x, y, e
  <1> HIDE DEF u
  <1>9. Base(GoOffline(u), k, z) /\ Rests(GoOffline(u))
    BY <1>7, GoOfflineBase DEF Fine
  <1> QED
    BY <1>7, <1>8, <1>9, RestFaithful DEF Fine

\* The slot set, which ends offline if a call throws.
LEMMA SetFaithful ==
  ASSUME NEW c \in Context, ~c.thrown, NEW s \in TransceiverState, NEW n \in Nat,
         NEW k \in Nat, NEW z \in BOOLEAN, Fine(c, k, z),
         c.o.mode = "none" => s.tx = NoFreq
  PROVE  LET d == Set(c, s, n) IN Faithful(d.o, d.r, k, z /\ ~d.faulty)
  <1> DEFINE o == [c.o EXCEPT !.rx = s.freq, !.tx = s.tx, !.split = s.split]
             b == [c EXCEPT !.o = o]
             f == IF s.ptt /\ s.split THEN s.tx ELSE s.freq
             t == [s EXCEPT !.freq = f, !.split = FALSE, !.tx = NoFreq]
  <1>1. /\ o \in Object /\ o.mode = c.o.mode /\ o.requested = c.o.requested
        /\ o.actual = c.o.actual /\ o.next = c.o.next
        /\ o.retries = c.o.retries /\ o.polling = c.o.polling
    BY DEF Context, Object, TransceiverState
  <1> HIDE DEF o
  <1>2. b \in Context /\ ~b.thrown /\ Alike(c, b)
    BY <1>1 DEF Context, Alike
  <1>3. f \in Freqs \cup {NoFreq}
    BY DEF TransceiverState
  <1>4. t \in TransceiverState /\ t.tx = NoFreq
    <2> HIDE DEF f
    <2> QED
      BY <1>3 DEF TransceiverState
  <1>5. Set(c, s, n) = IF c.o.mode # "emulate" THEN SetBase(c, s, n)
                       ELSE SetBase(b, t, n)
    BY Zenon DEF Set, o
  <1> HIDE DEF b, t
  <1>6. Fine(b, k, z)
    BY <1>2, AlikeKeeps DEF Fine, Alike
  <1>7. CASE c.o.mode # "emulate"
    <2>1. c.o.mode \in {"none", "rig"}
      BY <1>7 DEF Context, Object, SplitModes
    <2>2. ~RigSplit(c.o) => s.tx = NoFreq
      BY <2>1 DEF RigSplit
    <2> QED
      BY <1>5, <1>7, <2>2, SetBaseFaithful
  <1>8. CASE c.o.mode = "emulate"
    BY <1>2, <1>4, <1>5, <1>6, <1>8, SetBaseFaithful
  <1> QED
    BY <1>7, <1>8

-----------------------------------------------------------------------------
(* What a poll signals.                                                    *)

\* An update signalled by a poll shows a receiving radio on its dial.
Truthful(x) ==
  x.cause = "poll" /\ x.sig = "update" /\ x.state.online /\ ~x.state.ptt
  => x.state.freq = x.truth

Told(c) == \A j \in DOMAIN c.out : Truthful(c.out[j])

\* A state that may be shown.
Shows(state, r) == state.online /\ ~state.ptt => state.freq = r.freq

\* One more signal.
LEMMA EmitTold ==
  ASSUME NEW c \in Context, NEW sig, NEW state, Told(c),
         sig = "update" => Shows(state, c.r)
  PROVE  Told(Emit(c, sig, state))
  <1> DEFINE x == [sig |-> sig, state |-> state, seq |-> c.o.seq,
                   from |-> c.id, truth |-> c.r.freq, cause |-> c.cause]
             out == Append(c.out, x)
  <1>1. Truthful(x)
    BY DEF Truthful, Shows
  <1> HIDE DEF x
  <1>2. c.out \in Seq(Signal)
    BY DEF Context
  <1>3. \A j \in DOMAIN out : out[j] = x \/ (j \in DOMAIN c.out /\ out[j] = c.out[j])
    BY <1>2
  <1> HIDE DEF out
  <1>4. Emit(c, sig, state).out = out
    BY DEF Emit, out, x, Context
  <1> QED
    BY <1>1, <1>3, <1>4 DEF Told

LEMMA WrappedTold ==
  ASSUME NEW c \in Context, NEW state \in TransceiverState, Told(c),
         Shows(state, c.r)
  PROVE  Told(Wrapped(c, state))
  <1> DEFINE f == IF state.ptt THEN c.o.rx ELSE state.freq
             s == [state EXCEPT !.freq = f, !.tx = c.o.tx, !.split = c.o.split]
  <1>1. Wrapped(c, state)
          = IF c.o.mode # "emulate" THEN Emit(c, "update", state)
            ELSE IF state.split THEN Emit(c, "failure", Offline)
            ELSE Emit(c, "update", s)
    BY DEF Wrapped
  <1>2. Shows(s, c.r)
    BY DEF Shows, TransceiverState
  <1> HIDE DEF s
  <1> QED
    BY <1>1, <1>2, EmitTold

\* update_complete shows nothing unless the hold-off is over or it is forced.
LEMMA UpdateCompleteTold ==
  ASSUME NEW c \in Context, NEW force \in BOOLEAN, Told(c), Shows(c.o.actual, c.r)
  PROVE  Told(UpdateComplete(c, force))
  <1> DEFINE w == Wrapped(c, c.o.actual)
             o == [w.o EXCEPT !.last = c.o.actual]
             d == [w EXCEPT !.o = o]
  <1>1. Told(w) /\ w \in Context
    BY FieldTypes, WrappedTold, WrappedFollows DEF Follows
  <1> HIDE DEF w, o
  <1>2. d.out = w.out
    BY <1>1 DEF Context
  <1>3. UpdateComplete(c, force)
          = IF force \/ (~HeldOff(c.o) /\ c.o.actual # c.o.last) THEN d ELSE c
    BY DEF UpdateComplete, w, o
  <1> HIDE DEF d
  <1> QED
    BY <1>1, <1>2, <1>3 DEF Told

\* Offline shows no frequency.
LEMMA ShutdownTold ==
  ASSUME NEW c \in Context, ~c.thrown, Told(c)
  PROVE  Told(Shutdown(c))
  <1> DEFINE d == IF c.o.requested.online THEN Unkey(c) ELSE c
             o == [d.o EXCEPT !.polling = FALSE, !.actual = Offline,
                              !.requested = Offline]
             e == [d EXCEPT !.o = o]
  <1>1. d \in Context /\ d.out = c.out
    BY UnkeyCalls DEF Calling, Follows
  <1> HIDE DEF d
  <1>2. o \in Object /\ o.actual = Offline
    BY <1>1, OfflineType DEF Context, Object
  <1> HIDE DEF o
  <1>3. e \in Context /\ e.o = o /\ e.out = d.out
    BY <1>1, <1>2 DEF Context
  <1>4. Shutdown(c) = UpdateComplete(e, FALSE)
    BY DEF Shutdown, d, o, e
  <1> HIDE DEF e
  <1>5. Told(e) /\ Shows(e.o.actual, e.r)
    BY <1>1, <1>2, <1>3 DEF Told, Shows, Offline
  <1> QED
    BY <1>3, <1>4, <1>5, UpdateCompleteTold

LEMMA GoOfflineTold ==
  ASSUME NEW c \in Context, Told(c)
  PROVE  Told(GoOffline(c))
  <1> DEFINE b == Caught(c)
             e == Emit(b, "failure", Offline)
  <1>1. b \in Context /\ b.out = c.out /\ ~b.thrown
    BY CaughtCalls DEF Calling, Follows
  <1> HIDE DEF b
  <1>2. e \in Context /\ ~e.thrown
    BY <1>1, EmitFollows, OfflineType DEF Follows
  <1>3. Told(e)
    BY <1>1, EmitTold DEF Told
  <1>4. GoOffline(c) = Shutdown(e)
    BY DEF GoOffline, e, b
  <1> HIDE DEF e
  <1> QED
    BY <1>2, <1>3, <1>4, ShutdownTold

\* A poll counts k2 misreads.
LEMMA TimeoutFaithful ==
  ASSUME NEW c \in Context, ~c.thrown, ~c.faulty, NEW reading \in Freqs,
         NEW k \in Nat, NEW z \in BOOLEAN, Faithful(c.o, c.r, k, z), Told(c),
         c.o.polling, reading # c.r.freq => c.r.settling,
         NEW k2, k2 = IF reading # c.r.freq THEN k + 1 ELSE k,
         k2 < PollsToStabilize,
         RigSplit(c.o) => k2 = 0 \/ (k2 = 1 /\ z /\ ~Timeout(c, reading).faulty)
  PROVE  LET d == Timeout(c, reading) IN
         Faithful(d.o, d.r, k2, z /\ ~d.faulty) /\ Told(d)
  <1> DEFINE p == DoPoll(c, "poll", reading)
             blind == c.o.actual.ptt /\ IsSplit(c.r.tx)
             g == [p.o EXCEPT !.retries = 0, !.next = p.o.actual,
                              !.signalled = p.o.actual]
             s == [p EXCEPT !.o = g]
             h == [p.o EXCEPT !.retries = PollsLeft(p.o)]
             l == [p EXCEPT !.o = h]
             d == Timeout(c, reading)
  <1>1. p \in Context /\ p.o.mode = c.o.mode /\ p.out = c.out
    BY DoPollCalls DEF Calling, Follows
  <1>2. /\ p.o.polling = c.o.polling /\ p.o.next = c.o.next
        /\ p.o.retries = c.o.retries /\ p.r.freq = c.r.freq
        /\ p.r.tx = c.r.tx /\ p.r.ptt = c.r.ptt
        /\ p.thrown => p.faulty /\ p.o = c.o /\ p.r = c.r
        /\ ~p.thrown =>
             /\ p.faulty = c.faulty
             /\ p.r.settling = (c.r.settling /\ reading # c.r.freq)
             /\ p.o.actual.ptt = c.r.ptt
             /\ p.o.actual.online = c.o.actual.online
             /\ p.o.actual.tx = IF IsSplit(c.r.tx) THEN c.r.tx ELSE c.o.actual.tx
             /\ p.o.actual.freq = IF blind THEN c.o.actual.freq ELSE reading
             /\ p.o.requested = [c.o.requested EXCEPT
                                   !.freq = IF blind THEN @ ELSE reading]
    BY DoPollEffect
  <1>3. d = IF p.thrown THEN GoOffline(p)
            ELSE IF SignalDue(p.o) THEN UpdateComplete(s, TRUE) ELSE l
    BY DEF Timeout
  <1>4. /\ k2 \in Nat /\ k2 >= k /\ (reading = c.r.freq => k2 = k)
        /\ (reading # c.r.freq => k2 = k + 1)
    OBVIOUS
  <1>5. c.o.requested.online
    BY DEF Faithful, Blank
  <1> HIDE DEF p, d
  <1>6. CASE p.thrown
    <2>1. Base(p, k2, z)
      <3>1. MisreadsOutlasted(p.o, p.r, k2)
        BY <1>2, <1>4, <1>6, FieldTypes, ConstAssumption
           DEF Faithful, MisreadsOutlasted
      <3>2. DialKnown(p.o, p.r, k2) /\ DialExpected(p.o, p.r, k2)
        BY <1>2, <1>4, <1>6 DEF Faithful, DialKnown, DialExpected
      <3>3. Blank(p.o) /\ SplitKnown(p.o, p.r, z /\ ~p.faulty)
        BY <1>2, <1>6 DEF Faithful, SplitKnown
      <3> QED
        BY <1>2, <1>6, <3>1, <3>2, <3>3 DEF Base
    <2>2. Told(p)
      BY <1>1 DEF Told
    <2>3. d = GoOffline(p)
      BY <1>3, <1>6
    <2>4. Base(d, k2, z) /\ Rests(d)
      BY <1>1, <1>4, <2>1, <2>3, GoOfflineBase
    <2>5. Faithful(d.o, d.r, k2, z /\ ~d.faulty)
      BY <2>4, RestFaithful
    <2>6. Told(d)
      BY <1>1, <2>2, <2>3, GoOfflineTold
    <2> QED
      BY <2>5, <2>6 DEF d
  <1>7. CASE ~p.thrown
    <2> HIDE DEF blind
    <2>1. ~blind => p.o.actual.freq = reading /\ p.o.requested.freq = reading
      <3>1. SUFFICES ASSUME ~blind
                     PROVE  p.o.actual.freq = reading /\ p.o.requested.freq = reading
        OBVIOUS
      <3>2. p.o.actual.freq = reading
        BY <1>2, <1>7, <3>1
      <3>3. p.o.requested = [c.o.requested EXCEPT !.freq = reading]
        BY <1>2, <1>7, <3>1
      <3>4. c.o.requested \in TransceiverState
        BY FieldTypes
      <3> QED
        BY <3>2, <3>3, <3>4 DEF TransceiverState
    <2>2. blind => /\ p.o.actual.freq = c.o.actual.freq
                   /\ p.o.requested.freq = c.o.requested.freq
      BY <1>2, <1>7, FieldTypes DEF TransceiverState
    <2>3. /\ p.o.requested.online /\ p.o.requested.tx = c.o.requested.tx
          /\ p.o.requested.split = c.o.requested.split
          /\ p.o.requested.ptt = c.o.requested.ptt
      BY <1>2, <1>5, <1>7, FieldTypes DEF TransceiverState
    <2>4. ~RigSplit(c.o) => ~blind
      BY <1>5 DEF Faithful, SplitKnown, IsSplit, blind
    <2>5. blind => c.r.ptt
      BY DEF Faithful, PttKnown, blind
    <2>6. p.r.settling => reading # c.r.freq /\ c.r.settling
      BY <1>2, <1>7
    <2>7. SplitKnown(p.o, p.r, z)
      <3>1. SUFFICES ASSUME ~RigSplit(c.o) \/ z
                     PROVE  SplitKnown(p.o, p.r, z)
        BY <1>1 DEF SplitKnown, RigSplit
      <3>2. /\ c.o.requested.tx = c.r.tx /\ c.o.actual.tx = c.r.tx
            /\ c.o.next.tx = c.r.tx /\ c.o.requested.split = IsSplit(c.r.tx)
            /\ ~RigSplit(c.o) => c.r.tx = NoFreq
        BY <1>5, <3>1 DEF Faithful, SplitKnown
      <3>3. p.o.actual.tx = c.r.tx
        BY <1>2, <1>7, <3>2
      <3> QED
        BY <1>1, <1>2, <2>3, <3>2, <3>3 DEF SplitKnown, RigSplit
    <2> DEFINE y == IF SignalDue(p.o) THEN UpdateComplete(s, TRUE) ELSE l
    <2>8. d = y
      BY <1>3, <1>7
    \* a misread that is signalled shows a transmitting rig
    <2>9. reading # c.r.freq /\ SignalDue(p.o) => RigSplit(c.o) /\ c.r.ptt /\ k2 # 0
      <3>1. SUFFICES ASSUME reading # c.r.freq, ~(RigSplit(c.o) /\ c.r.ptt)
                     PROVE  ~SignalDue(p.o)
        BY <1>4
      <3>2. ~blind
        BY <2>4, <2>5, <3>1
      <3>3. RigSplit(c.o) => k = 0 /\ z
        BY <1>4, <3>1
      <3>4. p.o.actual # p.o.next
        <4>1. c.o.next.freq \in {NoFreq, c.r.freq}
          BY <3>3 DEF Faithful, DialExpected
        <4> QED
          BY <1>2, <2>1, <3>1, <3>2, <4>1, ConstAssumption
      <3>5. p.o.retries \in Nat /\ p.o.retries >= 2
        <4>1. k + 1 < PollsToStabilize
          BY <1>4, <3>1
        <4>2. c.o.retries + k >= PollsToStabilize
          BY <3>1, <3>3, FieldTypes, ConstAssumption
             DEF Faithful, MisreadsOutlasted, ChangesHeld
        <4> QED
          BY <1>2, <4>1, <4>2, FieldTypes, ConstAssumption
      <3> QED
        BY <3>4, <3>5 DEF SignalDue, PollsLeft
    <2>10. ~RigSplit(c.o) /\ reading # c.r.freq =>
             c.o.retries + k >= PollsToStabilize /\ c.o.retries >= 2
      BY <1>4, FieldTypes, ConstAssumption
         DEF Faithful, MisreadsOutlasted
    <2>11. CASE SignalDue(p.o)
      <3>1. /\ g \in Object /\ g.seq = p.o.seq /\ g.life = p.o.life
            /\ g.mode = p.o.mode /\ g.polling = p.o.polling
            /\ g.requested = p.o.requested /\ g.actual = p.o.actual
            /\ g.next = p.o.actual
        <4>1. 0 \in 0..PollsToStabilize
          BY ConstAssumption
        <4>2. p.o.actual \in TransceiverState
          BY <1>1, FieldTypes
        <4> QED
          BY <1>1, <4>1, <4>2 DEF Context, Object
      <3> HIDE DEF g
      <3>2. /\ s \in Context /\ s.r = p.r /\ s.o = g /\ s.faulty = p.faulty
            /\ s.out = p.out
        BY <1>1, <3>1, ObjectChange DEF Follows
      <3> HIDE DEF s
      <3>3. d = UpdateComplete(s, TRUE)
        BY <2>8, <2>11 DEF y
      <3>4. Alike(s, d)
        BY <3>2, <3>3, UpdateCompleteAlike
      <3>5. PttKnown(s.o, s.r)
        BY <1>2, <1>7, <3>1, <3>2 DEF PttKnown
      <3>6. k2 = 0 \/ ~RigSplit(c.o) => reading = c.r.freq /\ ~p.r.settling
        BY <2>6, <2>9, <2>11
      <3>7. DialKnown(s.o, s.r, k2)
        <4>1. k2 = 0 => s.o.actual.freq = s.r.freq /\ s.o.requested.freq = s.r.freq
          <5>1. k2 = 0 => k = 0
            BY <1>4
          <5>2. k2 = 0 => c.o.actual.freq = c.r.freq /\ c.o.requested.freq = c.r.freq
            BY <5>1 DEF Faithful, DialKnown
          <5> QED
            BY <1>2, <2>1, <2>2, <3>1, <3>2, <3>6, <5>2
        <4>2. ~RigSplit(c.o) => s.o.requested.freq = s.r.freq
          BY <1>2, <2>1, <2>4, <3>1, <3>2, <3>6
        <4> QED
          BY <1>1, <3>1, <3>2, <4>1, <4>2 DEF DialKnown, RigSplit
      <3>8. DialExpected(s.o, s.r, k2)
        <4>1. ~RigSplit(c.o) => s.o.next.freq = s.r.freq
          BY <1>2, <2>1, <2>4, <3>1, <3>2, <3>6
        <4>2. k2 = 0 /\ s.o.polling => s.o.next.freq = s.r.freq
          BY <3>1, <3>2, <3>7 DEF DialKnown
        <4> QED
          BY <1>1, <1>2, <3>1, <3>2, <4>1, <4>2 DEF DialExpected, RigSplit
      <3>9. MisreadsOutlasted(s.o, s.r, k2)
        BY <1>1, <3>1, <3>2, <3>6 DEF MisreadsOutlasted, RigSplit
      <3>10. SplitKnown(s.o, s.r, z)
        BY <2>3, <2>7, <3>1, <3>2 DEF SplitKnown, RigSplit
      <3>11. ChangesHeld(s.o, s.r, k2, z)
        <4>1. k2 = 0 => k = 0 /\ ~p.r.settling
          BY <1>4, <3>6
        <4>2. RigSplit(c.o) /\ k = 0 /\ z /\ c.o.requested.ptt => c.r.ptt
          BY DEF Faithful, ChangesHeld
        <4> QED
          BY <1>1, <1>2, <1>7, <2>3, <3>1, <3>2, <4>1, <4>2 DEF ChangesHeld, RigSplit
      <3>12. Faithful(s.o, s.r, k2, z)
        BY <2>3, <3>1, <3>2, <3>5, <3>7, <3>8, <3>9, <3>10, <3>11 DEF Faithful, Blank
      <3>13. ~d.faulty
        BY <1>2, <1>7, <3>2, <3>4 DEF Alike
      <3>14. Faithful(d.o, d.r, k2, z /\ ~d.faulty)
        <4>1. Faithful(d.o, d.r, k2, z)
          BY <3>4, <3>12, AlikeKeeps
        <4>2. (z /\ ~d.faulty) = z
          BY <3>13
        <4> QED
          BY <4>1, <4>2
      <3>15. Shows(s.o.actual, s.r)
        <4>1. SUFFICES ASSUME ~s.o.actual.ptt PROVE s.o.actual.freq = s.r.freq
          BY DEF Shows
        <4>2. ~c.r.ptt
          BY <1>2, <1>7, <3>1, <3>2, <4>1
        <4> QED
          BY <1>2, <2>1, <2>5, <2>9, <2>11, <3>1, <3>2, <4>2
      <3>16. Told(d)
        BY <1>1, <3>2, <3>3, <3>15, UpdateCompleteTold DEF Told
      <3> QED
        BY <3>14, <3>16 DEF d
    <2>12. CASE ~SignalDue(p.o)
      <3>1. /\ h.mode = p.o.mode /\ h.polling = p.o.polling
            /\ h.requested = p.o.requested /\ h.actual = p.o.actual
            /\ h.next = p.o.next /\ h.retries = PollsLeft(p.o)
        BY <1>1 DEF Context, Object
      <3> HIDE DEF h
      <3>2. l.r = p.r /\ l.o = h /\ l.faulty = p.faulty /\ l.out = p.out
        BY <1>1 DEF Context
      <3> HIDE DEF l
      <3>3. d = l
        BY <2>8, <2>12 DEF y
      <3> HIDE DEF y
      <3>4. PttKnown(d.o, d.r)
        BY <1>2, <1>7, <3>1, <3>2, <3>3 DEF PttKnown
      <3>5. DialKnown(d.o, d.r, k2)
        <4>1. k2 = 0 => k = 0 /\ reading = c.r.freq
          BY <1>4
        <4>2. k = 0 => c.o.actual.freq = c.r.freq /\ c.o.requested.freq = c.r.freq
          BY DEF Faithful, DialKnown
        <4>3. k2 = 0 => d.o.actual.freq = d.r.freq /\ d.o.requested.freq = d.r.freq
          BY <1>2, <2>1, <2>2, <3>1, <3>2, <3>3, <4>1, <4>2
        <4>4. ~RigSplit(c.o) /\ ~d.r.settling => d.o.requested.freq = d.r.freq
          <5>1. ~d.r.settling => reading = c.r.freq
            BY <1>2, <1>7, <3>2, <3>3
          <5> QED
            BY <1>2, <2>1, <2>4, <3>1, <3>2, <3>3, <5>1
        <4> QED
          BY <1>1, <3>1, <3>2, <3>3, <4>3, <4>4 DEF DialKnown, RigSplit
      <3>6. DialExpected(d.o, d.r, k2)
        BY <1>1, <1>2, <1>4, <3>1, <3>2, <3>3 DEF Faithful, DialExpected, RigSplit
      <3>7. MisreadsOutlasted(d.o, d.r, k2)
        <4>1. SUFFICES ASSUME ~RigSplit(c.o), reading # c.r.freq
                       PROVE  d.o.retries + k2 >= PollsToStabilize
          BY <1>1, <2>6, <3>1, <3>2, <3>3 DEF MisreadsOutlasted, RigSplit
        <4>2. d.o.retries = c.o.retries - 1
          BY <1>2, <2>10, <3>1, <3>2, <3>3, <4>1, FieldTypes, ConstAssumption DEF PollsLeft
        <4> QED
          BY <1>4, <2>10, <4>1, <4>2, FieldTypes, ConstAssumption
      <3>8. SplitKnown(d.o, d.r, z)
        BY <2>3, <2>7, <3>1, <3>2, <3>3 DEF SplitKnown, RigSplit
      <3>9. ChangesHeld(d.o, d.r, k2, z)
        <4>1. k2 = 0 => k = 0 /\ ~p.r.settling
          BY <1>4, <2>6
        <4>2. RigSplit(c.o) /\ k = 0 /\ z /\ c.o.requested.ptt => c.r.ptt /\ c.o.next.ptt
          BY DEF Faithful, ChangesHeld
        <4> QED
          BY <1>1, <1>2, <2>3, <3>1, <3>2, <3>3, <4>1, <4>2 DEF ChangesHeld, RigSplit
      <3>10. Faithful(d.o, d.r, k2, z)
        BY <2>3, <3>1, <3>2, <3>3, <3>4, <3>5, <3>6, <3>7, <3>8, <3>9
           DEF Faithful, Blank
      <3>11. (z /\ ~d.faulty) = z
        BY <1>2, <1>7, <3>2, <3>3
      <3>12. Told(d)
        BY <1>1, <3>2, <3>3 DEF Told
      <3> QED
        BY <3>10, <3>11, <3>12 DEF d
    <2> QED
      BY <2>11, <2>12
  <1> QED
    BY <1>6, <1>7
=============================================================================
