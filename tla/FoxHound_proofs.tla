--------------------------- MODULE FoxHound_proofs ---------------------------
(***************************************************************************)
(* What holds of FoxHound for any number of Hounds, slots, strikes and     *)
(* restarts, whether or not blank lines are clicked: a Hound is in one     *)
(* place, only a Hound that answered is sent RR73 and logged -- but for a  *)
(* Hound that was queued when the queue's window was erased -- and one that *)
(* has not answered is in progress unless its timer overtook it.           *)
(***************************************************************************)
EXTENDS FoxHound, FiniteSetTheorems, TLAPS

\* The queue's window shows the queue, but for what was erased.
QueueShown ==
  /\ Range(m_houndQueue) \cap Hounds \subseteq queueText \cup hidden
  /\ queueText \cap Hounds \subseteq Range(m_houndQueue)

\* A report received, in the QSO the map has, was received in that QSO.
ReportsAreAnswers ==
  \A h \in (Hounds \cap DOMAIN m_foxQSO) \ hidden :
    m_foxQSO[h].tFoxRrpt >= 0 => h \in answered

\* A timer runs for a Hound that answered, or its next QSO has begun.
TimersAreForAnswered ==
  \A h \in leaving \cap DOMAIN m_foxQSO : m_foxQSO[h].tFoxRrpt < 0 => h \in overtaken

IInv == TypeOK /\ InOnePlace /\ QueueShown /\ ReportsAreAnswers /\ TimersAreForAnswered
        /\ UnansweredIsCalled

-----------------------------------------------------------------------------
(* Sequences.                                                              *)

\* What stands at some places of a sequence, in a sequence of its own.
LEMMA SelectedFacts ==
  ASSUME NEW S, NEW s \in Seq(S), NEW places \in SUBSET DOMAIN s,
         NEW f \in Selections(places)
  PROVE  /\ Selected(s, f) \in Seq(S)
         /\ Range(Selected(s, f)) = {s[i] : i \in places}
         /\ \A h : Once(s, h) => Once(Selected(s, f), h)
<1> DEFINE n == Cardinality(places)
           r == Selected(s, f)
<1>1. DOMAIN s = 1..Len(s) /\ Len(s) \in Nat
  OBVIOUS
<1>2. n \in Nat
  <2>1. IsFiniteSet(1..Len(s))
    BY <1>1, FS_Interval
  <2>2. IsFiniteSet(places)
    BY <1>1, <2>1, FS_Subset
  <2> QED BY <2>2, FS_CardinalityType
<1>3. /\ f \in [1..n -> places]
      /\ \A i, j \in DOMAIN f : i < j => f[i] < f[j]
      /\ Range(f) = places
  BY DEF Selections
<1> HIDE DEF n
<1>4. DOMAIN f = 1..n
  BY <1>3
<1>5. r = [i \in 1..n |-> s[f[i]]]
  BY <1>4 DEF Selected
<1>6. \A i \in 1..n : f[i] \in places /\ f[i] \in 1..Len(s) /\ s[f[i]] \in S
  BY <1>1, <1>3
<1> HIDE DEF r
<1>7. r \in Seq(S)
  BY <1>2, <1>5, <1>6
<1>8. Range(r) = {s[i] : i \in places}
  BY <1>3, <1>4, <1>5, <1>6 DEF Range
<1>9. ASSUME NEW h, Once(s, h), NEW i \in Places(r, h), NEW j \in Places(r, h)
      PROVE  i = j
  <2>1. i \in 1..n /\ j \in 1..n /\ s[f[i]] = h /\ s[f[j]] = h
    BY <1>5 DEF Places
  <2>2. f[i] = f[j]
    BY <1>1, <1>6, <1>9, <2>1 DEF Once, Places
  <2>3. ~(i < j) /\ ~(j < i)
    BY <1>3, <1>4, <1>6, <2>1, <2>2
  <2> QED BY <1>2, <2>1, <2>3
<1> QED BY <1>7, <1>8, <1>9 DEF Once, r

\* What is left of a sequence when the first places of some calls are removed:
\* all other calls, and none of these that was there once.
LEMMA RemovedFacts ==
  ASSUME NEW S, NEW s \in Seq(S), NEW G,
         NEW f \in Selections(DOMAIN s \ UNION {FirstOf(s, g) : g \in G})
  PROVE  /\ Selected(s, f) \in Seq(S)
         /\ Range(Selected(s, f)) \subseteq Range(s)
         /\ Range(s) \ G \subseteq Range(Selected(s, f))
         /\ \A h : Once(s, h) => Once(Selected(s, f), h)
         /\ \A h \in G : Once(s, h) => h \notin Range(Selected(s, f))
<1> DEFINE places == DOMAIN s \ UNION {FirstOf(s, g) : g \in G}
           r == Selected(s, f)
<1>1. /\ r \in Seq(S) /\ Range(r) = {s[i] : i \in places}
      /\ \A h : Once(s, h) => Once(r, h)
  BY SelectedFacts
<1> HIDE DEF r
<1>2. Range(r) \subseteq Range(s)
  BY <1>1 DEF Range
<1>3. ASSUME NEW i \in DOMAIN s, s[i] \notin G PROVE s[i] \in Range(r)
  <2>1. \A g \in G : i \notin FirstOf(s, g)
    BY <1>3 DEF FirstOf, Places
  <2> QED BY <1>1, <2>1
<1>4. ASSUME NEW h \in G, Once(s, h), NEW i \in places, s[i] = h PROVE FALSE
  <2>1. i \in Places(s, h) /\ i \in Nat
    BY <1>4 DEF Places
  <2>2. i \in FirstOf(s, h)
    BY <1>4, <2>1 DEF FirstOf, Once
  <2> QED BY <1>4, <2>2
<1>5. \A h \in G : Once(s, h) => h \notin Range(r)
  BY <1>1, <1>4
<1> QED BY <1>1, <1>2, <1>3, <1>5 DEF Range, r

\* The two parts a sequence is cut into.
LEMMA CutFacts ==
  ASSUME NEW S, NEW s \in Seq(S), NEW n \in 0..Len(s)
  PROVE  /\ SubSeq(s, 1, n) \in Seq(S) /\ SubSeq(s, n + 1, Len(s)) \in Seq(S)
         /\ Range(SubSeq(s, 1, n)) = {s[i] : i \in 1..n}
         /\ Range(SubSeq(s, n + 1, Len(s))) = {s[i] : i \in (n + 1)..Len(s)}
         /\ \A h : Once(s, h) =>
              /\ Once(SubSeq(s, 1, n), h) /\ Once(SubSeq(s, n + 1, Len(s)), h)
              /\ ~ (/\ h \in {s[i] : i \in 1..n}
                    /\ h \in {s[i] : i \in (n + 1)..Len(s)})
<1> DEFINE a == SubSeq(s, 1, n)
           b == SubSeq(s, n + 1, Len(s))
<1>1. /\ Len(s) \in Nat /\ n \in Nat /\ DOMAIN s = 1..Len(s)
      /\ \A i \in 1..Len(s) : s[i] \in S
  OBVIOUS
<1>2. a = [i \in 1..n |-> s[i]]
  BY <1>1
<1>3. b = [i \in 1..(Len(s) - n) |-> s[i + n]]
  BY <1>1
<1>4. a \in Seq(S)
  BY <1>1, <1>2
<1>5. b \in Seq(S)
  BY <1>1, <1>3
<1> HIDE DEF a, b
<1>6. Range(a) = {s[i] : i \in 1..n}
  BY <1>2 DEF Range
<1>7. Range(b) \subseteq {s[i] : i \in (n + 1)..Len(s)}
  BY <1>1, <1>3 DEF Range
<1>8. ASSUME NEW i \in (n + 1)..Len(s)  PROVE s[i] \in Range(b)
  <2>1. i - n \in 1..(Len(s) - n) /\ (i - n) + n = i
    BY <1>1
  <2> QED BY <1>3, <2>1 DEF Range
<1>9. ASSUME NEW h, Once(s, h) PROVE Once(a, h) /\ Once(b, h)
  <2>1. Once(a, h)
    <3> SUFFICES ASSUME NEW i \in Places(a, h), NEW j \in Places(a, h) PROVE i = j
      BY DEF Once
    <3>1. i \in Places(s, h) /\ j \in Places(s, h)
      BY <1>1, <1>2 DEF Places
    <3> QED BY <1>9, <3>1 DEF Once
  <2>2. Once(b, h)
    <3> SUFFICES ASSUME NEW i \in Places(b, h), NEW j \in Places(b, h) PROVE i = j
      BY DEF Once
    <3>1. /\ i \in 1..(Len(s) - n) /\ j \in 1..(Len(s) - n)
          /\ s[i + n] = h /\ s[j + n] = h
      BY <1>3 DEF Places
    <3>2. i + n \in Places(s, h) /\ j + n \in Places(s, h)
      BY <1>1, <3>1 DEF Places
    <3>3. i + n = j + n
      BY <1>9, <3>2 DEF Once
    <3> QED BY <1>1, <3>1, <3>3
  <2> QED BY <2>1, <2>2
<1>10. ASSUME NEW h, Once(s, h), NEW i \in 1..n, NEW j \in (n + 1)..Len(s),
              s[i] = h, s[j] = h
       PROVE  FALSE
  <2>1. i \in Places(s, h) /\ j \in Places(s, h) /\ i # j
    BY <1>1, <1>10 DEF Places
  <2> QED BY <1>10, <2>1 DEF Once
<1> QED BY <1>4, <1>5, <1>6, <1>7, <1>8, <1>9, <1>10 DEF a, b

\* One sequence after another.
LEMMA ConcatFacts ==
  ASSUME NEW S, NEW s \in Seq(S), NEW t \in Seq(S)
  PROVE  /\ s \o t \in Seq(S)
         /\ Range(s \o t) = Range(s) \cup Range(t)
         /\ \A h : Once(s, h) /\ Once(t, h) /\ h \notin Range(s) \cap Range(t)
                     => Once(s \o t, h)
<1> DEFINE c == s \o t
<1>1. /\ Len(s) \in Nat /\ Len(t) \in Nat
      /\ DOMAIN s = 1..Len(s) /\ DOMAIN t = 1..Len(t)
      /\ DOMAIN c = 1..(Len(s) + Len(t))
      /\ \A i \in 1..(Len(s) + Len(t)) : c[i] = IF i <= Len(s) THEN s[i] ELSE t[i - Len(s)]
  OBVIOUS
<1>2. c \in Seq(S)
  OBVIOUS
<1> HIDE DEF c
<1>3. Range(c) \subseteq Range(s) \cup Range(t)
  <2> SUFFICES ASSUME NEW i \in 1..(Len(s) + Len(t)) PROVE c[i] \in Range(s) \cup Range(t)
    BY <1>1 DEF Range
  <2>1. CASE i <= Len(s)
    BY <1>1, <2>1 DEF Range
  <2>2. CASE ~(i <= Len(s))
    <3>1. i - Len(s) \in 1..Len(t)
      BY <1>1, <2>2
    <3> QED BY <1>1, <2>2, <3>1 DEF Range
  <2> QED BY <2>1, <2>2
<1>4. Range(s) \subseteq Range(c)
  BY <1>1 DEF Range
<1>5. Range(t) \subseteq Range(c)
  <2> SUFFICES ASSUME NEW i \in 1..Len(t) PROVE t[i] \in Range(c)
    BY <1>1 DEF Range
  <2>1. i + Len(s) \in 1..(Len(s) + Len(t)) /\ ~(i + Len(s) <= Len(s))
        /\ (i + Len(s)) - Len(s) = i
    BY <1>1
  <2> QED BY <1>1, <2>1 DEF Range
<1>6. ASSUME NEW h, Once(s, h), Once(t, h), h \notin Range(s) \cap Range(t),
             NEW i \in Places(c, h), NEW j \in Places(c, h)
      PROVE  i = j
  <2>0. i \in 1..(Len(s) + Len(t)) /\ j \in 1..(Len(s) + Len(t)) /\ c[i] = h /\ c[j] = h
    BY <1>1 DEF Places
  <2>1. \A k \in 1..(Len(s) + Len(t)) : k <= Len(s) /\ c[k] = h => k \in Places(s, h)
    BY <1>1 DEF Places
  <2>2. \A k \in 1..(Len(s) + Len(t)) :
          ~(k <= Len(s)) /\ c[k] = h => k - Len(s) \in Places(t, h)
    <3> SUFFICES ASSUME NEW k \in 1..(Len(s) + Len(t)), ~(k <= Len(s)), c[k] = h
                 PROVE  k - Len(s) \in Places(t, h)
      OBVIOUS
    <3>1. k - Len(s) \in 1..Len(t)
      BY <1>1
    <3> QED BY <1>1, <3>1 DEF Places
  <2>3. Places(s, h) = {} \/ Places(t, h) = {}
    BY <1>6 DEF Places, Range
  <2>4. CASE i <= Len(s) /\ j <= Len(s)
    BY <1>6, <2>0, <2>1, <2>4 DEF Once
  <2>5. CASE ~(i <= Len(s)) /\ ~(j <= Len(s))
    <3>1. i - Len(s) = j - Len(s)
      BY <1>6, <2>0, <2>2, <2>5 DEF Once
    <3> QED BY <1>1, <2>0, <3>1
  <2> QED BY <2>0, <2>1, <2>2, <2>3, <2>4, <2>5
<1> QED BY <1>2, <1>3, <1>4, <1>5, <1>6 DEF Once, c

\* A sequence of one call.
LEMMA OneFacts ==
  ASSUME NEW S, NEW h \in S
  PROVE  <<h>> \in Seq(S) /\ Range(<<h>>) = {h} /\ \A g : Once(<<h>>, g)
BY DEF Range, Once, Places

\* A queue that gains a call at its end or on top.
LEMMA AddedFacts ==
  ASSUME NEW S, NEW s \in Seq(S), NEW h \in S
  PROVE  /\ Append(s, h) \in Seq(S) /\ <<h>> \o s \in Seq(S)
         /\ Range(Append(s, h)) = Range(s) \cup {h}
         /\ Range(<<h>> \o s) = Range(s) \cup {h}
         /\ \A g : Once(s, g) /\ (g = h => h \notin Range(s))
                     => Once(Append(s, h), g) /\ Once(<<h>> \o s, g)
<1> DEFINE one == <<h>>
<1>1. one \in Seq(S) /\ Range(one) = {h} /\ \A g : Once(one, g)
  BY OneFacts
<1>2. Append(s, h) = s \o one
  OBVIOUS
<1> HIDE DEF one
<1>3. /\ s \o one \in Seq(S)
      /\ Range(s \o one) = Range(s) \cup Range(one)
      /\ \A g : Once(s, g) /\ Once(one, g) /\ g \notin Range(s) \cap Range(one)
                  => Once(s \o one, g)
  BY <1>1, ConcatFacts
<1>4. /\ one \o s \in Seq(S)
      /\ Range(one \o s) = Range(one) \cup Range(s)
      /\ \A g : Once(one, g) /\ Once(s, g) /\ g \notin Range(one) \cap Range(s)
                  => Once(one \o s, g)
  BY <1>1, ConcatFacts
<1>5. /\ Range(s \o one) = Range(s) \cup {h} /\ Range(one \o s) = Range(s) \cup {h}
      /\ \A g : Once(s, g) /\ (g = h => h \notin Range(s))
                  => Once(s \o one, g) /\ Once(one \o s, g)
  BY <1>1, <1>3, <1>4
<1> QED BY <1>2, <1>3, <1>4, <1>5 DEF one

\* All Hounds of a queue are displayed, and nothing else but blank lines.
LEMMA DisplayedFacts ==
  ASSUME NEW s \in Seq(Calls)
  PROVE  /\ Range(s) \cap Hounds \subseteq Displayed(s)
         /\ Displayed(s) \subseteq Range(s) \cup {0}
<1> DEFINE lines == {s[i] : i \in {j \in DOMAIN s : \E k \in 1..j : s[k] # 0}}
<1>1. lines \subseteq Range(s)
  BY DEF Range
<1>2. ASSUME NEW i \in DOMAIN s, s[i] \in Hounds PROVE s[i] \in lines
  <2>1. i \in 1..i /\ s[i] # 0
    BY <1>2 DEF Hounds
  <2> QED BY <2>1
<1>3. Displayed(s) = IF lines = {} THEN NoText ELSE lines
  BY DEF Displayed
<1> HIDE DEF lines
<1> QED BY <1>1, <1>2, <1>3 DEF NoText, Range

\* Blank lines stand for no Hound.
LEMMA CallFacts == Hounds \subseteq Calls /\ 0 \notin Hounds /\ Calls \subseteq Hounds \cup {0}
BY HoundsAssumption DEF Calls, Hounds

-----------------------------------------------------------------------------
(* The lists and the operator.                                             *)

\* Reading the callers keeps the invariant.
LEMMA HoundCallersInv == IInv /\ HoundCallers => IInv'
<1> SUFFICES ASSUME IInv, HoundCallers PROVE IInv'
  OBVIOUS
<1> USE DEF IInv, lists, log, txCount, history
<1>1. /\ UNCHANGED <<superFox, m_houndQueue, queueText, m_foxQSO, m_foxQSOinProgress,
                     log, txCount, ourPeriod, history>>
      /\ m_discard' = FALSE
      /\ \/ m_houndCallers' = m_houndCallers /\ shown' = shown
         \/ /\ m_houndCallers' = shown'
            /\ m_houndCallers' \subseteq Hounds \ (queueText \cup DOMAIN m_foxQSO
                                                   \cup Range(m_foxQSOinProgress))
  BY DEF HoundCallers
<1>2. TypeOK'
  BY <1>1 DEF TypeOK
<1>3. InOnePlace'
  BY <1>1 DEF InOnePlace, QueueShown
<1> QED BY <1>1, <1>2, <1>3 DEF QueueShown, ReportsAreAnswers, TimersAreForAnswered,
                                UnansweredIsCalled

\* A caller that is selected leaves the list and is in the queue once.
LEMMA SelectHoundInv == IInv /\ SelectHound => IInv'
<1> SUFFICES ASSUME IInv, SelectHound PROVE IInv'
  OBVIOUS
<1> USE DEF IInv, lists, log, txCount, history
<1>1. PICK h \in shown \ queueText, top \in BOOLEAN :
        /\ m_houndCallers' = m_houndCallers \ {h}
        /\ shown' = m_houndCallers'
        /\ m_houndQueue' = IF top THEN <<h>> \o m_houndQueue ELSE Append(m_houndQueue, h)
        /\ queueText' = TextWith(h, top)
        /\ UNCHANGED <<superFox, m_foxQSO, m_foxQSOinProgress, log, m_discard, txCount,
                       ourPeriod, history>>
  BY DEF SelectHound
<1>2. h \in Hounds /\ h \in Calls /\ m_houndQueue \in Seq(Calls)
  BY CallFacts DEF TypeOK
<1>3. /\ m_houndQueue' \in Seq(Calls)
      /\ Range(m_houndQueue') = Range(m_houndQueue) \cup {h}
      /\ \A g : Once(m_houndQueue, g) /\ (g = h => h \notin Range(m_houndQueue))
                  => Once(m_houndQueue', g)
  BY <1>1, <1>2, AddedFacts
<1>4. /\ queueText' \subseteq queueText \cup {h}
      /\ (queueText \cap Hounds) \cup {h} \subseteq queueText'
  BY <1>1, CallFacts DEF TextWith, NoText
<1>5. TypeOK'
  BY <1>1, <1>2, <1>3, <1>4 DEF TypeOK
<1>6. InOnePlace'
  <2>1. h \in m_houndCallers
    BY <1>1 DEF InOnePlace
  <2>2. h \notin hidden => /\ h \notin Range(m_houndQueue) /\ h \notin DOMAIN m_foxQSO
                           /\ h \notin Range(m_foxQSOinProgress)
    BY <1>2, <2>1 DEF InOnePlace
  <2>3. /\ UNCHANGED <<m_foxQSO, m_foxQSOinProgress, hidden>>
        /\ m_houndCallers' = m_houndCallers \ {h} /\ shown' = m_houndCallers'
    BY <1>1
  <2>4. \A g \in Hounds \ hidden : g # h => Once(m_houndQueue', g)
    BY <1>3 DEF InOnePlace
  <2>5. h \notin hidden => Once(m_houndQueue', h)
    BY <1>2, <1>3, <2>2 DEF InOnePlace
  <2> QED BY <1>3, <2>2, <2>3, <2>4, <2>5 DEF InOnePlace
<1>7. QueueShown'
  BY <1>1, <1>3, <1>4 DEF QueueShown
<1> QED BY <1>1, <1>5, <1>6, <1>7 DEF ReportsAreAnswers, TimersAreForAnswered,
                                      UnansweredIsCalled

\* So does a station of the Active Stations window.
LEMMA QueueActiveWindowHoundInv == IInv /\ QueueActiveWindowHound => IInv'
<1> SUFFICES ASSUME IInv, QueueActiveWindowHound PROVE IInv'
  OBVIOUS
<1> USE DEF IInv, lists, log, txCount, history
<1>1. PICK h \in Hounds \ (Range(m_houndQueue) \cup Range(m_foxQSOinProgress)) :
        /\ \/ m_houndQueue' = Append(m_houndQueue, h) /\ queueText' = Displayed(m_houndQueue')
           \/ UNCHANGED <<m_houndQueue, queueText>>
        /\ m_houndCallers' = m_houndCallers \ {h}
        /\ shown' = IF h \in m_houndCallers THEN m_houndCallers' ELSE shown
        /\ UNCHANGED <<superFox, m_foxQSO, m_foxQSOinProgress, log, m_discard, txCount,
                       ourPeriod, history>>
  BY DEF QueueActiveWindowHound
<1>2. h \in Calls /\ m_houndQueue \in Seq(Calls)
  BY CallFacts DEF TypeOK
<1>3. /\ m_houndQueue' \in Seq(Calls)
      /\ Range(m_houndQueue) \subseteq Range(m_houndQueue')
      /\ Range(m_houndQueue') \subseteq Range(m_houndQueue) \cup {h}
      /\ \A g : Once(m_houndQueue, g) => Once(m_houndQueue', g)
  <2>1. CASE m_houndQueue' = Append(m_houndQueue, h)
    <3>1. /\ m_houndQueue' \in Seq(Calls)
          /\ Range(m_houndQueue') = Range(m_houndQueue) \cup {h}
          /\ \A g : Once(m_houndQueue, g) /\ (g = h => h \notin Range(m_houndQueue))
                      => Once(m_houndQueue', g)
      BY <1>2, <2>1, AddedFacts
    <3> QED BY <1>1, <3>1
  <2>2. CASE m_houndQueue' = m_houndQueue
    BY <1>2, <2>2
  <2> QED BY <1>1, <2>1, <2>2
<1>4. QueueShown' /\ queueText' \subseteq Hounds \cup {0}
  <2>1. CASE queueText' = Displayed(m_houndQueue')
    <3>1. /\ Range(m_houndQueue') \cap Hounds \subseteq queueText'
          /\ queueText' \subseteq Range(m_houndQueue') \cup {0}
      BY <1>3, <2>1, DisplayedFacts
    <3>2. Range(m_houndQueue') \subseteq Calls
      BY <1>3 DEF Range
    <3> QED BY <3>1, <3>2, CallFacts DEF QueueShown
  <2>2. CASE UNCHANGED <<m_houndQueue, queueText>>
    BY <1>1, <2>2 DEF QueueShown, TypeOK
  <2> QED BY <1>1, <2>1, <2>2
<1>5. TypeOK'
  BY <1>1, <1>3, <1>4 DEF TypeOK
<1>6. InOnePlace'
  <2>1. /\ UNCHANGED <<m_foxQSO, m_foxQSOinProgress, hidden>>
        /\ m_houndCallers' = m_houndCallers \ {h}
        /\ shown' \subseteq m_houndCallers'
        /\ h \notin Range(m_foxQSOinProgress)
    BY <1>1 DEF InOnePlace
  <2> QED BY <1>3, <2>1 DEF InOnePlace
<1> QED BY <1>1, <1>4, <1>5, <1>6 DEF ReportsAreAnswers, TimersAreForAnswered,
                                      UnansweredIsCalled

\* A click on the queue only deletes or moves a Hound, or adds a blank line.
LEMMA ClickQueueInv == IInv /\ ClickQueue => IInv'
<1> SUFFICES ASSUME IInv, ClickQueue PROVE IInv'
  OBVIOUS
<1> USE DEF IInv, lists, log, txCount, history
<1>1. PICK h \in queueText \cap Calls, alt \in BOOLEAN :
        /\ \E f \in Selections(DOMAIN m_houndQueue \ (IF alt THEN FirstOf(m_houndQueue, h)
                                                      ELSE Places(m_houndQueue, h))) :
             m_houndQueue' = (IF alt THEN <<h>> ELSE <<>>) \o Selected(m_houndQueue, f)
        /\ queueText' = Displayed(m_houndQueue')
        /\ interventions' = interventions \/ interventions' = interventions + 1
        /\ UNCHANGED <<superFox, m_houndCallers, shown, m_foxQSO, m_foxQSOinProgress, log,
                       m_discard, txCount, ourPeriod, answered, overtaken, hidden>>
  BY DEF ClickQueue, Intervention
<1>2. m_houndQueue \in Seq(Calls) /\ h \in Calls /\ h \in Range(m_houndQueue) \cup {0}
  BY CallFacts DEF TypeOK, QueueShown
<1>3. /\ m_houndQueue' \in Seq(Calls)
      /\ Range(m_houndQueue') \subseteq Range(m_houndQueue) \cup {0}
      /\ \A g : Once(m_houndQueue, g) => Once(m_houndQueue', g)
  <2> DEFINE q == m_houndQueue
             places == DOMAIN q \ (IF alt THEN FirstOf(q, h) ELSE Places(q, h))
  <2>1. PICK f \in Selections(places) :
          m_houndQueue' = (IF alt THEN <<h>> ELSE <<>>) \o Selected(q, f)
    BY <1>1
  <2> DEFINE r == Selected(q, f)
  <2>2. CASE alt
    <3>1. UNION {FirstOf(q, g) : g \in {h}} = FirstOf(q, h)
      OBVIOUS
    <3>2. f \in Selections(DOMAIN q \ UNION {FirstOf(q, g) : g \in {h}})
      BY <2>2, <3>1
    <3>3. /\ r \in Seq(Calls) /\ Range(r) \subseteq Range(q)
          /\ \A g : Once(q, g) => Once(r, g)
          /\ Once(q, h) => h \notin Range(r)
      BY <1>2, <3>2, RemovedFacts
    <3>4. m_houndQueue' = <<h>> \o r
      BY <2>1, <2>2
    <3> HIDE DEF r
    <3>5. /\ m_houndQueue' \in Seq(Calls)
          /\ Range(m_houndQueue') = Range(r) \cup {h}
          /\ \A g : Once(r, g) /\ (g = h => h \notin Range(r)) => Once(m_houndQueue', g)
      BY <1>2, <3>3, <3>4, AddedFacts
    <3> QED BY <1>2, <3>3, <3>5
  <2>3. CASE ~alt
    <3>1. f \in Selections(places) /\ places \in SUBSET DOMAIN q
      BY <2>1
    <3>2. /\ r \in Seq(Calls) /\ Range(r) = {q[i] : i \in places}
          /\ \A g : Once(q, g) => Once(r, g)
      BY <1>2, <3>1, SelectedFacts
    <3>3. Range(r) \subseteq Range(q)
      BY <3>2 DEF Range
    <3>4. m_houndQueue' = <<>> \o r
      BY <2>1, <2>3
    <3> HIDE DEF r
    <3>5. m_houndQueue' = r
      BY <3>2, <3>4
    <3> QED BY <3>2, <3>3, <3>5
  <2> QED BY <2>2, <2>3
<1>4. QueueShown' /\ queueText' \subseteq Hounds \cup {0}
  <2>1. /\ Range(m_houndQueue') \cap Hounds \subseteq queueText'
        /\ queueText' \subseteq Range(m_houndQueue') \cup {0}
    BY <1>1, <1>3, DisplayedFacts
  <2>2. Range(m_houndQueue') \subseteq Calls
    BY <1>3 DEF Range
  <2> QED BY <2>1, <2>2, CallFacts DEF QueueShown
<1>5. TypeOK'
  BY <1>1, <1>3, <1>4 DEF TypeOK
<1>6. InOnePlace'
  <2>1. \A g \in Hounds \ hidden : Once(m_houndQueue', g)
    BY <1>3 DEF InOnePlace
  <2> QED BY <1>1, <1>3, <2>1, CallFacts DEF InOnePlace
<1> QED BY <1>1, <1>4, <1>5, <1>6 DEF ReportsAreAnswers, TimersAreForAnswered,
                                      UnansweredIsCalled

\* Whatever was queued when the queue's window is erased is no longer asked for.
LEMMA EraseQueueInv == IInv /\ EraseQueue => IInv'
<1> SUFFICES ASSUME IInv, EraseQueue PROVE IInv'
  OBVIOUS
<1> USE DEF IInv, lists, log, txCount, history
<1>1. /\ interventions' = interventions + 1
      /\ queueText' = {0}
      /\ hidden' = hidden \cup (Range(m_houndQueue) \cap Hounds)
      /\ UNCHANGED <<superFox, m_houndCallers, shown, m_houndQueue, m_foxQSO,
                     m_foxQSOinProgress, log, m_discard, txCount, ourPeriod, answered,
                     overtaken>>
  BY DEF EraseQueue, Intervention, NoText
<1>2. TypeOK'
  BY <1>1 DEF TypeOK
<1>3. InOnePlace' /\ QueueShown'
  BY <1>1, CallFacts DEF InOnePlace, QueueShown
<1> QED BY <1>1, <1>2, <1>3 DEF ReportsAreAnswers, TimersAreForAnswered, UnansweredIsCalled

\* To erase the callers offers less.
LEMMA EraseCallersInv == IInv /\ EraseCallers => IInv'
<1> SUFFICES ASSUME IInv, EraseCallers PROVE IInv'
  OBVIOUS
<1> USE DEF IInv, lists, log, txCount, history
<1>1. /\ interventions' = interventions + 1
      /\ shown' = {}
      /\ UNCHANGED <<superFox, m_houndCallers, m_houndQueue, queueText, m_foxQSO,
                     m_foxQSOinProgress, log, m_discard, txCount, ourPeriod, answered,
                     overtaken, hidden>>
  BY DEF EraseCallers, Intervention
<1>2. TypeOK'
  BY <1>1 DEF TypeOK
<1>3. InOnePlace' /\ QueueShown'
  BY <1>1 DEF InOnePlace, QueueShown
<1> QED BY <1>1, <1>2, <1>3 DEF ReportsAreAnswers, TimersAreForAnswered, UnansweredIsCalled

\* A click on a QSO in progress, or on a blank line, changes no Hound's times.
LEMMA ClickInProgressInv == IInv /\ ClickInProgress => IInv'
<1> SUFFICES ASSUME IInv, ClickInProgress PROVE IInv'
  OBVIOUS
<1> USE DEF IInv, lists, log, txCount, history
<1>1. PICK h \in Range(m_foxQSOinProgress) \cup BlankLines :
        /\ m_foxQSO' = [With(m_foxQSO, {h}) EXCEPT ![h].ncall = MaxStrikes + 1]
        /\ interventions' = interventions \/ interventions' = interventions + 1
        /\ UNCHANGED <<superFox, lists, m_foxQSOinProgress, log, m_discard, txCount,
                       ourPeriod, answered, overtaken, hidden>>
  BY DEF ClickInProgress, Intervention
<1>2. h \in DOMAIN m_foxQSO \cup BlankLines
  BY DEF InOnePlace
<1>3. h \in Calls /\ BlankLines \subseteq {0} /\ 0 \notin Hounds
  BY <1>2, HoundsAssumption DEF TypeOK, Calls, Hounds
<1> DEFINE q == With(m_foxQSO, {h})
<1>4. /\ DOMAIN q = DOMAIN m_foxQSO \cup {h}
      /\ \A g \in DOMAIN m_foxQSO : q[g] = m_foxQSO[g]
      /\ h \notin DOMAIN m_foxQSO => q[h] = DefaultQSO
  BY DEF With, At
<1>5. \A g \in DOMAIN q : q[g] \in FoxQSO
  <2>1. DefaultQSO \in FoxQSO
    BY DEF FoxQSO, DefaultQSO
  <2>2. \A g \in DOMAIN m_foxQSO : m_foxQSO[g] \in FoxQSO
    BY DEF TypeOK
  <2> HIDE DEF q
  <2> QED BY <1>4, <2>1, <2>2
<1>6. /\ DOMAIN m_foxQSO' = DOMAIN q
      /\ \A g \in DOMAIN q : /\ m_foxQSO'[g] \in FoxQSO
                             /\ m_foxQSO'[g].tFoxRrpt = q[g].tFoxRrpt
      /\ m_foxQSO' = [g \in DOMAIN q |-> m_foxQSO'[g]]
  <2> HIDE DEF q
  <2>1. m_foxQSO' = [q EXCEPT ![h].ncall = MaxStrikes + 1]
    BY <1>1 DEF q
  <2>2. m_foxQSO' = [g \in DOMAIN q |->
                       IF g = h THEN [q[h] EXCEPT !.ncall = MaxStrikes + 1] ELSE q[g]]
    BY <1>4, <2>1
  <2>3. ASSUME NEW g \in DOMAIN q
        PROVE  m_foxQSO'[g] \in FoxQSO /\ m_foxQSO'[g].tFoxRrpt = q[g].tFoxRrpt
    <3>1. q[g] \in FoxQSO /\ MaxStrikes + 1 \in Nat
      BY <1>5, <2>3, LimitsAssumption
    <3> QED BY <2>2, <3>1 DEF FoxQSO
  <2> QED BY <2>2, <2>3
<1>7. h \notin DOMAIN m_foxQSO => h \notin Hounds
  BY <1>2, <1>3
<1>8. TypeOK'
  <2>1. DOMAIN m_foxQSO' \subseteq Calls /\ m_foxQSO' \in [DOMAIN m_foxQSO' -> FoxQSO]
    BY <1>3, <1>4, <1>6 DEF TypeOK
  <2>2. interventions' \in Nat
    BY <1>1 DEF TypeOK
  <2> QED BY <1>1, <2>1, <2>2 DEF TypeOK
<1>9. InOnePlace' /\ QueueShown'
  <2>1. Hounds \cap DOMAIN m_foxQSO' = Hounds \cap DOMAIN m_foxQSO
        /\ DOMAIN m_foxQSO \subseteq DOMAIN m_foxQSO'
    BY <1>4, <1>6, <1>7
  <2> QED BY <1>1, <2>1 DEF InOnePlace, QueueShown
<1>10. \A g \in Hounds \cap DOMAIN m_foxQSO' :
         g \in DOMAIN m_foxQSO /\ m_foxQSO'[g].tFoxRrpt = m_foxQSO[g].tFoxRrpt
  BY <1>4, <1>6, <1>7
<1>11. ReportsAreAnswers' /\ UnansweredIsCalled'
  BY <1>1, <1>10 DEF ReportsAreAnswers, UnansweredIsCalled
<1>12. TimersAreForAnswered'
  BY <1>1, <1>10 DEF TimersAreForAnswered, TypeOK
<1> QED BY <1>8, <1>9, <1>11, <1>12

\* After a reset there is nothing to keep.
LEMMA FoxResetInv == IInv /\ FoxReset => IInv'
<1> SUFFICES ASSUME IInv, FoxReset PROVE IInv'
  OBVIOUS
<1> USE DEF IInv, lists, log, txCount, history
<1>1. /\ shown' = {} /\ m_houndQueue' = <<>> /\ m_foxQSOinProgress' = <<>>
      /\ queueText' = {0}
      /\ m_foxQSO' = [h \in {} |-> DefaultQSO]
      /\ m_discard' = TRUE /\ answered' = {} /\ overtaken' = {} /\ hidden' = {}
      /\ m_loggedByFox' = m_loggedByFox \/ m_loggedByFox' = {}
      /\ interventions' = interventions + 1
      /\ UNCHANGED <<superFox, m_houndCallers, leaving, txCount, ourPeriod>>
  BY DEF FoxReset, Intervention, NoText
<1>2. DOMAIN m_foxQSO' = {} /\ m_foxQSO' \in [{} -> FoxQSO]
  BY <1>1
<1>3. Range(m_houndQueue') = {} /\ Range(m_foxQSOinProgress') = {}
      /\ \A h : Once(m_houndQueue', h) /\ Once(m_foxQSOinProgress', h)
  BY <1>1 DEF Range, Once, Places
<1>4. TypeOK'
  BY <1>1, <1>2 DEF TypeOK
<1>5. InOnePlace' /\ QueueShown'
  BY <1>1, <1>2, <1>3, CallFacts DEF InOnePlace, QueueShown
<1> QED BY <1>2, <1>4, <1>5 DEF ReportsAreAnswers, TimersAreForAnswered, UnansweredIsCalled

-----------------------------------------------------------------------------
(* Messages received and sent.                                             *)

\* R+report.
LEMMA FoxRxSequencerInv == IInv /\ FoxRxSequencer => IInv'
<1> SUFFICES ASSUME IInv, FoxRxSequencer PROVE IInv'
  OBVIOUS
<1> USE DEF IInv, lists, log, txCount, history
<1>1. PICK h \in Hounds \cap DOMAIN m_foxQSO :
        /\ m_foxQSO' = [m_foxQSO EXCEPT ![h].tFoxRrpt = m_tFoxTx]
        /\ answered' = answered \cup {h}
        /\ UNCHANGED <<superFox, lists, m_foxQSOinProgress, log, m_discard, txCount,
                       ourPeriod, overtaken, hidden, interventions>>
  BY DEF FoxRxSequencer
<1>2. m_tFoxTx \in Nat /\ m_foxQSO \in [DOMAIN m_foxQSO -> FoxQSO]
  BY DEF TypeOK
<1>3. m_foxQSO' = [g \in DOMAIN m_foxQSO |->
                     IF g = h THEN [m_foxQSO[h] EXCEPT !.tFoxRrpt = m_tFoxTx]
                     ELSE m_foxQSO[g]]
  BY <1>1
<1>4. [m_foxQSO[h] EXCEPT !.tFoxRrpt = m_tFoxTx] \in FoxQSO
      /\ [m_foxQSO[h] EXCEPT !.tFoxRrpt = m_tFoxTx].tFoxRrpt = m_tFoxTx
  BY <1>1, <1>2 DEF FoxQSO
<1>5. /\ DOMAIN m_foxQSO' = DOMAIN m_foxQSO
      /\ m_foxQSO' \in [DOMAIN m_foxQSO -> FoxQSO]
      /\ \A g \in DOMAIN m_foxQSO :
           m_foxQSO'[g].tFoxRrpt = IF g = h THEN m_tFoxTx ELSE m_foxQSO[g].tFoxRrpt
  BY <1>2, <1>3, <1>4
<1>6. TypeOK'
  BY <1>1, <1>5 DEF TypeOK
<1>7. InOnePlace' /\ QueueShown'
  BY <1>1, <1>5 DEF InOnePlace, QueueShown
<1>8. ~(m_tFoxTx < 0)
  BY <1>2
<1> QED BY <1>1, <1>5, <1>6, <1>7, <1>8
        DEF ReportsAreAnswers, TimersAreForAnswered, UnansweredIsCalled

\* As many Hounds are taken from the queue as there are, at most.
LEMMA DequeuedType ==
  ASSUME TypeOK, NEW room \in Int
  PROVE  Dequeued(room) \in 0..Len(m_houndQueue)
<1>1. Len(m_houndQueue) \in Nat /\ Len(m_foxQSOinProgress) \in Nat
      /\ DOMAIN m_foxQSOinProgress = 1..Len(m_foxQSOinProgress)
  BY DEF TypeOK
<1>2. IsFiniteSet(1..Len(m_foxQSOinProgress))
  BY <1>1, FS_Interval
<1>3. Repeated(room) \subseteq 1..Len(m_foxQSOinProgress)
  BY <1>1 DEF Repeated, Calling
<1>4. Cardinality(Repeated(room)) \in Nat
  BY <1>2, <1>3, FS_Subset, FS_CardinalityType
<1> QED BY <1>1, <1>4 DEF Dequeued, Min2

\* Reports are counted: those of a transmission, and those a Hound is sent.
LEMMA ReportsType ==
  ASSUME TypeOK, NEW room \in Int, NEW slots \in Nat
  PROVE  /\ Cardinality(Again(room, slots)) + Cardinality(First(room, slots)) \in Nat
         /\ \A h : Reports(h, room, slots) \in Nat
<1> DEFINE L == 1..Len(m_foxQSOinProgress)
           D == 1..Dequeued(room)
<1>1. IsFiniteSet(L) /\ Again(room, slots) \subseteq L
  <2>1. Len(m_foxQSOinProgress) \in Nat
        /\ DOMAIN m_foxQSOinProgress = 1..Len(m_foxQSOinProgress)
    BY DEF TypeOK
  <2> QED BY <2>1, FS_Interval DEF Again, Repeated, Calling
<1>2. IsFiniteSet(D) /\ First(room, slots) \subseteq D
  <2>1. Dequeued(room) \in 0..Len(m_houndQueue)
    BY DequeuedType
  <2> QED BY <2>1, FS_Interval DEF First
<1> HIDE DEF L, D
<1>3. ASSUME NEW A \in SUBSET Again(room, slots), NEW B \in SUBSET First(room, slots)
      PROVE  Cardinality(A) + Cardinality(B) \in Nat
  <2>1. A \in SUBSET L /\ B \in SUBSET D
    BY <1>1, <1>2
  <2>2. IsFiniteSet(A) /\ IsFiniteSet(B)
    BY <1>1, <1>2, <2>1, FS_Subset
  <2>3. Cardinality(A) \in Nat /\ Cardinality(B) \in Nat
    BY <2>2, FS_CardinalityType
  <2> QED BY <2>3
<1>4. ASSUME NEW h PROVE Reports(h, room, slots) \in Nat
  <2> DEFINE A == {i \in Again(room, slots) : m_foxQSOinProgress[i] = h}
             B == {j \in First(room, slots) : m_houndQueue[j] = h}
  <2>1. A \in SUBSET Again(room, slots) /\ B \in SUBSET First(room, slots)
    OBVIOUS
  <2>2. Reports(h, room, slots) = Cardinality(A) + Cardinality(B)
    BY DEF Reports
  <2> HIDE DEF A, B
  <2> QED BY <1>3, <2>1, <2>2
<1>5. /\ Again(room, slots) \in SUBSET Again(room, slots)
      /\ First(room, slots) \in SUBSET First(room, slots)
  OBVIOUS
<1> QED BY <1>3, <1>4, <1>5

\* A record after a transmission: its report is the old one, or none.
LEMMA SentFacts ==
  ASSUME TypeOK, NEW fresh, NEW list1, NEW reports \in Nat, NEW t \in Nat,
         NEW h \in DOMAIN m_foxQSO \cup fresh
  PROVE  /\ Struck(Sent(h, t, fresh, list1, reports)) \in FoxQSO
         /\ Struck(Sent(h, t, fresh, list1, reports)).tFoxRrpt
              = IF h \in fresh THEN Never ELSE m_foxQSO[h].tFoxRrpt
<1> DEFINE old == At(m_foxQSO, h)
           rogered == [old EXCEPT !.tFoxTxRR73 = t, !.nRR73 = @ + 1]
           q == IF h \in fresh THEN NewQSO ELSE IF h \in list1 THEN rogered ELSE old
           r == [q EXCEPT !.ncall = @ + reports]
           struck == [r EXCEPT !.ncall = @ + 1]
           rrpt == IF h \in fresh THEN Never ELSE m_foxQSO[h].tFoxRrpt
<1>1. old \in FoxQSO /\ (h \notin fresh => old = m_foxQSO[h])
  BY DEF TypeOK, At, FoxQSO, DefaultQSO
<1>2. rogered \in FoxQSO /\ rogered.tFoxRrpt = old.tFoxRrpt
  <2> DEFINE sent == [old EXCEPT !.tFoxTxRR73 = t]
             again == [sent EXCEPT !.nRR73 = @ + 1]
  <2>1. sent \in FoxQSO /\ sent.tFoxRrpt = old.tFoxRrpt /\ sent.nRR73 = old.nRR73
    <3> HIDE DEF old
    <3> QED BY <1>1 DEF FoxQSO
  <2>2. again \in FoxQSO /\ again.tFoxRrpt = sent.tFoxRrpt
    <3> HIDE DEF sent
    <3> QED BY <2>1 DEF FoxQSO
  <2>3. rogered = again
    <3> HIDE DEF old
    <3> QED BY <1>1 DEF FoxQSO
  <2> HIDE DEF old, sent, again, rogered
  <2> QED BY <2>1, <2>2, <2>3
<1>3. NewQSO \in FoxQSO /\ NewQSO.tFoxRrpt = Never
  BY DEF NewQSO, FoxQSO
<1>4. q \in FoxQSO /\ q.tFoxRrpt = rrpt
  <2> HIDE DEF old, rogered
  <2> QED BY <1>1, <1>2, <1>3
<1>5. Sent(h, t, fresh, list1, reports) = r
  BY DEF Sent
<1>6. r \in FoxQSO /\ r.tFoxRrpt = rrpt
  <2> HIDE DEF q, rrpt
  <2> QED BY <1>4 DEF FoxQSO
<1>7. struck \in FoxQSO /\ struck.tFoxRrpt = rrpt
  <2> HIDE DEF r, rrpt
  <2> QED BY <1>6 DEF FoxQSO
<1>8. Struck(r) = struck \/ Struck(r) = r
  BY DEF Struck
<1> HIDE DEF r, struck
<1>9. Struck(r) \in FoxQSO /\ Struck(r).tFoxRrpt = rrpt
  <2> HIDE DEF rrpt
  <2> QED BY <1>6, <1>7, <1>8
<1> QED BY <1>5, <1>9 DEF rrpt

\* The calls sent RR73 have a report, and were received unless they were hidden.
LEMMA ListFacts ==
  ASSUME IInv, NEW room \in Int
  PROVE  /\ List1(room) \subseteq DOMAIN m_foxQSO
         /\ \A h \in List1(room) : m_foxQSO[h].tFoxRrpt >= 0
         /\ List1(room) \cap Hounds \subseteq answered \cup hidden
<1>1. /\ List1(room) \subseteq DOMAIN m_foxQSO
      /\ \A h \in List1(room) : m_foxQSO[h].tFoxRrpt >= 0
  BY DEF List1, Due
<1>2. List1(room) \cap Hounds \subseteq answered \cup hidden
  BY <1>1 DEF IInv, ReportsAreAnswers
<1> QED BY <1>1, <1>2

\* One transmission.
LEMMA FoxTxSequencerInv ==
  ASSUME IInv, NEW text \in BOOLEAN, NEW otp \in BOOLEAN, NEW cqTime \in BOOLEAN,
         FoxTxSequencer(text, otp, cqTime),
         ourPeriod' \in BOOLEAN, interventions' \in Nat
  PROVE  /\ IInv'
         /\ air'.rr73 \cap Hounds \subseteq answered \cup hidden
         /\ m_loggedByFox' \ m_loggedByFox \subseteq answered \cup hidden
<1> DEFINE t == m_tFoxTx + 1
           slots == SlotsFor(text)
           texts == Texts(text, otp)
           room1 == IF cqTime THEN 0 ELSE slots - texts
           list1 == List1(room1)
           room == IF cqTime THEN 0 ELSE ReportsFor(text, texts)
           n == Dequeued(room)
           fresh == {m_houndQueue[i] : i \in 1..n}
           reports == Cardinality(Again(room, slots)) + Cardinality(First(room, slots))
           qsos == [h \in DOMAIN m_foxQSO \cup fresh |->
                      Struck(Sent(h, t, fresh, list1, Reports(h, room, slots)))]
           finished == {h \in DOMAIN qsos : Finished(qsos[h], t)}
           kept == DOMAIN qsos \ finished
           head == SubSeq(m_houndQueue, 1, n)
           rest == SubSeq(m_houndQueue, n + 1, Len(m_houndQueue))
           queued == m_foxQSOinProgress \o head
           places == DOMAIN queued \ UNION {FirstOf(queued, h) : h \in finished}
           logged == (list1 \ {0}) \ m_loggedByFox
           empty == list1 = {} /\ reports = 0
           full == texts + Cardinality(list1) >= slots \/ texts + reports >= slots
           cq == IF cqTime \/ (empty /\ ~full) THEN {1} ELSE IF full THEN {0} ELSE {0, 1}
<1>1. /\ m_tFoxTx' = t
      /\ m_houndQueue' = rest
      /\ queueText' = IF n > 0 THEN Displayed(rest) ELSE queueText
      /\ \E f \in Selections(places) : m_foxQSOinProgress' = Selected(queued, f)
      /\ m_foxQSO' = With([h \in kept |-> qsos[h]], Range(m_foxQSOinProgress'))
      /\ m_loggedByFox' = m_loggedByFox \cup logged
      /\ leaving \subseteq leaving' /\ leaving' \subseteq leaving \cup logged
      /\ \E cqs \in {0, 1} :
           air' = [rr73 |-> list1, reports |-> reports, slots |-> slots,
                   other |-> texts + cqs]
      /\ answered' = answered \ fresh
      /\ overtaken' = (overtaken \ fresh) \cup (fresh \cap leaving')
      /\ UNCHANGED <<superFox, m_houndCallers, shown, m_discard, hidden>>
  <2>1. /\ m_tFoxTx' = t
        /\ m_houndQueue' = rest
        /\ queueText' = IF n > 0 THEN Displayed(m_houndQueue') ELSE queueText
        /\ \E f \in Selections(places) : m_foxQSOinProgress' = Selected(queued, f)
        /\ m_foxQSO' = With([h \in kept |-> qsos[h]], Range(m_foxQSOinProgress'))
        /\ m_loggedByFox' = m_loggedByFox \cup logged
        /\ \E added \in SUBSET logged : leaving' = leaving \cup added
        /\ \E cqs \in cq :
             air' = [rr73 |-> list1, reports |-> reports, slots |-> slots,
                     other |-> texts + cqs]
        /\ answered' = answered \ fresh
        /\ overtaken' = (overtaken \ fresh) \cup (fresh \cap leaving')
        /\ UNCHANGED <<superFox, m_houndCallers, shown, m_discard, hidden>>
    BY Zenon DEF FoxTxSequencer
  <2>2. cq \subseteq {0, 1}
    <3> HIDE DEF empty, full
    <3> QED OBVIOUS
  <2> HIDE DEF t, slots, texts, list1, n, fresh, reports, qsos, kept, rest, queued, places,
               logged, cq
  <2> QED BY <2>1, <2>2
<1>2. /\ slots \in Nat /\ texts \in {0, 1, 2} /\ room1 \in Int /\ room \in Int
      /\ t \in Nat /\ superFox \in BOOLEAN
  <2>1. m_tFoxTx \in Nat /\ superFox \in BOOLEAN
    BY DEF IInv, TypeOK
  <2>2. slots \in Nat
    BY SlotsAssumption, <2>1 DEF SlotsFor
  <2>3. texts \in {0, 1, 2}
    BY SlotsAssumption, <2>1 DEF Texts, Min2
  <2> HIDE DEF slots, texts
  <2>4. ReportsFor(text, texts) \in Int
    BY SlotsAssumption, <2>1, <2>3 DEF ReportsFor
  <2>5. room1 \in Int /\ room \in Int
    BY <2>2, <2>3, <2>4
  <2> QED BY <2>1, <2>2, <2>3, <2>5
<1>3. n \in 0..Len(m_houndQueue)
  <2>1. TypeOK
    BY DEF IInv
  <2> HIDE DEF room
  <2> QED BY <1>2, <2>1, DequeuedType
<1>4. reports \in Nat /\ \A h : Reports(h, room, slots) \in Nat
  BY <1>2, ReportsType DEF IInv
<1> HIDE DEF t, slots, texts, room1, room, n, reports
<1>6. /\ list1 \subseteq DOMAIN m_foxQSO
      /\ \A h \in list1 : m_foxQSO[h].tFoxRrpt >= 0
      /\ list1 \cap Hounds \subseteq answered \cup hidden
  BY <1>2, ListFacts
<1> HIDE DEF list1
<1>7. /\ m_houndQueue \in Seq(Calls) /\ m_foxQSOinProgress \in Seq(Calls)
      /\ Range(m_foxQSOinProgress) \subseteq DOMAIN m_foxQSO
      /\ DOMAIN m_foxQSO \subseteq Calls
      /\ \A h \in Hounds \ hidden :
           /\ Once(m_houndQueue, h) /\ Once(m_foxQSOinProgress, h)
           /\ h \notin Range(m_houndQueue) \cap Range(m_foxQSOinProgress)
           /\ h \in m_houndCallers => h \notin Range(m_houndQueue) \cup DOMAIN m_foxQSO
  BY DEF IInv, TypeOK, InOnePlace
<1>8. /\ head \in Seq(Calls) /\ rest \in Seq(Calls)
      /\ Range(head) = fresh
      /\ Range(rest) = {m_houndQueue[i] : i \in (n + 1)..Len(m_houndQueue)}
      /\ \A h : Once(m_houndQueue, h) =>
           Once(head, h) /\ Once(rest, h) /\ ~(h \in fresh /\ h \in Range(rest))
  <2>1. /\ head \in Seq(Calls) /\ rest \in Seq(Calls)
        /\ Range(head) = fresh
        /\ Range(rest) = {m_houndQueue[i] : i \in (n + 1)..Len(m_houndQueue)}
        /\ \A h : Once(m_houndQueue, h) =>
             /\ Once(head, h) /\ Once(rest, h)
             /\ ~ (/\ h \in {m_houndQueue[i] : i \in 1..n}
                   /\ h \in {m_houndQueue[i] : i \in (n + 1)..Len(m_houndQueue)})
    BY <1>3, <1>7, CutFacts, SMTT(30)
  <2> HIDE DEF head, rest
  <2> QED BY <2>1
<1>9. /\ fresh \subseteq Range(m_houndQueue) /\ Range(rest) \subseteq Range(m_houndQueue)
      /\ n = 0 => Range(m_houndQueue) = Range(rest)
      /\ Range(m_houndQueue) \subseteq Calls
  <2>1. DOMAIN m_houndQueue = 1..Len(m_houndQueue) /\ Len(m_houndQueue) \in Nat
    BY <1>7
  <2>2. 1..n \subseteq DOMAIN m_houndQueue /\ (n + 1)..Len(m_houndQueue) \subseteq DOMAIN m_houndQueue
        /\ (n = 0 => (n + 1)..Len(m_houndQueue) = DOMAIN m_houndQueue)
    BY <1>3, <2>1
  <2> HIDE DEF rest
  <2>3. Range(m_houndQueue) \subseteq Calls
    BY <1>7 DEF Range
  <2> QED BY <1>8, <2>2, <2>3 DEF Range
<1> HIDE DEF head, rest, fresh
<1>10. /\ queued \in Seq(Calls)
       /\ Range(queued) = Range(m_foxQSOinProgress) \cup fresh
       /\ \A h \in Hounds \ hidden : Once(queued, h)
  <2>1. /\ queued \in Seq(Calls)
        /\ Range(queued) = Range(m_foxQSOinProgress) \cup Range(head)
        /\ \A h : Once(m_foxQSOinProgress, h) /\ Once(head, h)
                    /\ h \notin Range(m_foxQSOinProgress) \cap Range(head) => Once(queued, h)
    BY <1>7, <1>8, ConcatFacts
  <2> HIDE DEF queued
  <2>2. \A h \in Hounds \ hidden : Once(queued, h)
    BY <1>7, <1>8, <1>9, <2>1
  <2> QED BY <1>8, <2>1, <2>2
<1>11. /\ DOMAIN qsos = DOMAIN m_foxQSO \cup fresh
       /\ \A h \in DOMAIN qsos :
            /\ qsos[h] \in FoxQSO
            /\ qsos[h].tFoxRrpt = IF h \in fresh THEN Never ELSE m_foxQSO[h].tFoxRrpt
  BY <1>2, <1>4, SentFacts DEF IInv
<1>12. finished \subseteq DOMAIN qsos
  OBVIOUS
<1> HIDE DEF queued, qsos, finished
<1>13. /\ m_foxQSOinProgress' \in Seq(Calls)
       /\ Range(m_foxQSOinProgress') \subseteq Range(queued)
       /\ Range(queued) \ finished \subseteq Range(m_foxQSOinProgress')
       /\ \A h \in Hounds \ hidden : Once(m_foxQSOinProgress', h)
       /\ \A h \in Hounds \ hidden : h \in finished => h \notin Range(m_foxQSOinProgress')
  <2>1. PICK f \in Selections(places) : m_foxQSOinProgress' = Selected(queued, f)
    BY <1>1
  <2>2. /\ Selected(queued, f) \in Seq(Calls)
        /\ Range(Selected(queued, f)) \subseteq Range(queued)
        /\ Range(queued) \ finished \subseteq Range(Selected(queued, f))
        /\ \A h : Once(queued, h) => Once(Selected(queued, f), h)
        /\ \A h \in finished : Once(queued, h) => h \notin Range(Selected(queued, f))
    BY <1>10, RemovedFacts
  <2> QED BY <1>10, <2>1, <2>2
<1>14. /\ DOMAIN m_foxQSO' = kept \cup Range(m_foxQSOinProgress')
       /\ \A h \in kept : m_foxQSO'[h] = qsos[h]
       /\ \A h \in DOMAIN m_foxQSO' \ kept : m_foxQSO'[h] = DefaultQSO
       /\ m_foxQSO' = [h \in DOMAIN m_foxQSO' |-> m_foxQSO'[h]]
  <2> DEFINE old == [h \in kept |-> qsos[h]]
  <2>1. DOMAIN old = kept /\ \A h \in kept : old[h] = qsos[h]
    OBVIOUS
  <2>2. m_foxQSO' = [h \in kept \cup Range(m_foxQSOinProgress') |->
                       IF h \in kept THEN old[h] ELSE DefaultQSO]
    BY <1>1, <2>1 DEF With, At
  <2> HIDE DEF old, kept
  <2> QED BY <2>1, <2>2
<1>15. kept \subseteq DOMAIN qsos /\ \A h \in DOMAIN qsos : h \in kept <=> h \notin finished
  OBVIOUS
<1> HIDE DEF kept
<1>16. Range(queued) \subseteq DOMAIN qsos
  BY <1>7, <1>10, <1>11
<1>17. DOMAIN m_foxQSO' \subseteq DOMAIN m_foxQSO \cup fresh
  BY <1>11, <1>13, <1>14, <1>15, <1>16
<1>18. \A h \in DOMAIN m_foxQSO' \ kept : h \notin Hounds \ hidden
  BY <1>13, <1>14, <1>15, <1>16
<1>19. DefaultQSO \in FoxQSO /\ DefaultQSO.tFoxRrpt = 0
  BY DEF DefaultQSO, FoxQSO
<1>20. \A h \in DOMAIN m_foxQSO' : m_foxQSO'[h] \in FoxQSO
  BY <1>11, <1>14, <1>15, <1>19
<1>21. \A h \in DOMAIN m_foxQSO' :
         /\ h \in Hounds \ hidden \/ m_foxQSO'[h].tFoxRrpt < 0 => h \in kept
         /\ h \in kept => /\ h \in DOMAIN m_foxQSO \cup fresh
                          /\ m_foxQSO'[h].tFoxRrpt
                               = IF h \in fresh THEN Never ELSE m_foxQSO[h].tFoxRrpt
  BY <1>11, <1>14, <1>15, <1>18, <1>19
<1>22. TypeOK'
  <2>1. m_houndQueue' \in Seq(Calls) /\ m_foxQSOinProgress' \in Seq(Calls)
    BY <1>1, <1>8, <1>13
  <2>2. DOMAIN m_foxQSO' \subseteq Calls
    BY <1>7, <1>9, <1>17
  <2>3. m_foxQSO' \in [DOMAIN m_foxQSO' -> FoxQSO]
    BY <1>14, <1>20
  <2>4. logged \subseteq Hounds
    BY <1>6, <1>7, CallFacts
  <2>5. m_loggedByFox' \subseteq Hounds /\ leaving' \subseteq Hounds
    BY <1>1, <2>4 DEF IInv, TypeOK
  <2>6. air' \in Transmission
    <3>1. list1 \subseteq Calls
      BY <1>6, <1>7
    <3> QED BY <1>1, <1>2, <1>4, <3>1 DEF Transmission
  <2>7. answered' \subseteq Hounds /\ overtaken' \subseteq Hounds /\ hidden' \subseteq Hounds
    BY <1>1, <2>5 DEF IInv, TypeOK
  <2>8. /\ superFox' \in BOOLEAN /\ m_discard' \in BOOLEAN /\ m_tFoxTx' \in Nat
        /\ m_houndCallers' \subseteq Hounds /\ shown' \subseteq Hounds
    BY <1>1, <1>2 DEF IInv, TypeOK
  <2>9. queueText' \subseteq Hounds \cup {0}
    <3>1. Displayed(rest) \subseteq Range(rest) \cup {0}
      BY <1>8, DisplayedFacts
    <3>2. Range(rest) \subseteq Hounds \cup {0}
      BY <1>9, CallFacts
    <3> QED BY <1>1, <3>1, <3>2 DEF IInv, TypeOK
  <2> QED BY <2>1, <2>2, <2>3, <2>5, <2>6, <2>7, <2>8, <2>9 DEF TypeOK
<1>23. InOnePlace'
  <2>1. shown' \subseteq m_houndCallers'
    BY <1>1 DEF IInv, InOnePlace
  <2>2. Range(m_foxQSOinProgress') \subseteq DOMAIN m_foxQSO'
    BY <1>14
  <2> SUFFICES ASSUME NEW h \in Hounds \ hidden
               PROVE  /\ Once(m_houndQueue', h) /\ Once(m_foxQSOinProgress', h)
                      /\ h \notin Range(m_houndQueue') \cap Range(m_foxQSOinProgress')
                      /\ h \in m_houndCallers => h \notin Range(m_houndQueue') \cup DOMAIN m_foxQSO'
    BY <1>1, <2>1, <2>2 DEF InOnePlace
  <2>3. Once(m_houndQueue', h) /\ Once(m_foxQSOinProgress', h)
    BY <1>1, <1>7, <1>8, <1>13
  <2>4. h \notin Range(m_houndQueue') \cap Range(m_foxQSOinProgress')
    BY <1>1, <1>7, <1>8, <1>9, <1>10, <1>13
  <2>5. h \in m_houndCallers => h \notin Range(m_houndQueue') \cup DOMAIN m_foxQSO'
    BY <1>1, <1>7, <1>9, <1>17
  <2> QED BY <2>3, <2>4, <2>5
<1>24. QueueShown'
  <2>1. /\ Range(rest) \cap Hounds \subseteq Displayed(rest)
        /\ Displayed(rest) \subseteq Range(rest) \cup {0}
    BY <1>8, DisplayedFacts
  <2>2. CASE n = 0
    BY <1>1, <1>9, <2>2 DEF IInv, QueueShown
  <2>3. CASE n # 0
    <3>1. queueText' = Displayed(rest)
      BY <1>1, <1>3, <2>3
    <3> QED BY <1>1, <2>1, <3>1, CallFacts DEF QueueShown
  <2> QED BY <2>2, <2>3
<1>25. ReportsAreAnswers'
  <2> SUFFICES ASSUME NEW h \in (Hounds \cap DOMAIN m_foxQSO') \ hidden,
                      m_foxQSO'[h].tFoxRrpt >= 0
               PROVE  h \in answered'
    BY <1>1 DEF ReportsAreAnswers
  <2>1. h \notin fresh /\ h \in DOMAIN m_foxQSO /\ m_foxQSO[h].tFoxRrpt >= 0
    BY <1>21 DEF Never
  <2> QED BY <1>1, <2>1 DEF IInv, ReportsAreAnswers
<1>26. TimersAreForAnswered'
  <2> SUFFICES ASSUME NEW h \in leaving' \cap DOMAIN m_foxQSO', m_foxQSO'[h].tFoxRrpt < 0
               PROVE  h \in overtaken'
    BY DEF TimersAreForAnswered
  <2>1. CASE h \in fresh
    BY <1>1, <2>1
  <2>2. CASE h \notin fresh
    <3>1. h \in DOMAIN m_foxQSO /\ m_foxQSO[h].tFoxRrpt < 0
      BY <1>21, <2>2
    <3>2. m_foxQSO[h].tFoxRrpt \in Nat \cup {Never}
      BY <3>1 DEF IInv, TypeOK, FoxQSO
    <3>3. h \notin list1
      BY <1>6, <3>1, <3>2 DEF Never
    <3>4. h \in leaving
      BY <1>1, <3>3
    <3>5. h \in overtaken
      BY <3>1, <3>4 DEF IInv, TimersAreForAnswered
    <3> QED BY <1>1, <2>2, <3>5
  <2> QED BY <2>1, <2>2
<1>27. UnansweredIsCalled'
  <2> SUFFICES ASSUME NEW h \in Hounds \cap DOMAIN m_foxQSO', m_foxQSO'[h].tFoxRrpt < 0
               PROVE  h \in Range(m_foxQSOinProgress') \cup overtaken'
    BY DEF UnansweredIsCalled
  <2>1. h \in kept /\ h \notin finished
    BY <1>15, <1>21
  <2>2. CASE h \in fresh
    BY <1>10, <1>13, <2>1, <2>2
  <2>3. CASE h \notin fresh
    <3>1. h \in DOMAIN m_foxQSO /\ m_foxQSO[h].tFoxRrpt < 0
      BY <1>21, <2>1, <2>3
    <3>2. h \in Range(m_foxQSOinProgress) \cup overtaken
      BY <3>1 DEF IInv, UnansweredIsCalled
    <3> QED BY <1>1, <1>10, <1>13, <2>1, <2>3, <3>2
  <2> QED BY <2>2, <2>3
<1>28. air'.rr73 \cap Hounds \subseteq answered \cup hidden
  BY <1>1, <1>6
<1>29. m_loggedByFox' \ m_loggedByFox \subseteq answered \cup hidden
  BY <1>1, <1>6, <1>7, CallFacts
<1> QED BY <1>22, <1>23, <1>24, <1>25, <1>26, <1>27, <1>28, <1>29 DEF IInv

\* The 13 s timer.
LEMMA LeaveInProgressInv == IInv /\ LeaveInProgress => IInv'
<1> SUFFICES ASSUME IInv, LeaveInProgress PROVE IInv'
  OBVIOUS
<1> USE DEF IInv, lists, log, txCount, history
<1>1. PICK h \in leaving :
        /\ leaving' = leaving \ {h}
        /\ \E f \in Selections(DOMAIN m_foxQSOinProgress \ FirstOf(m_foxQSOinProgress, h)) :
             m_foxQSOinProgress' = Selected(m_foxQSOinProgress, f)
        /\ m_foxQSO' = With(m_foxQSO, Range(m_foxQSOinProgress'))
        /\ UNCHANGED <<superFox, lists, m_loggedByFox, m_discard, txCount, ourPeriod,
                       history>>
  BY DEF LeaveInProgress
<1>2. /\ m_foxQSOinProgress \in Seq(Calls)
      /\ Range(m_foxQSOinProgress) \subseteq DOMAIN m_foxQSO
      /\ m_foxQSO \in [DOMAIN m_foxQSO -> FoxQSO]
  BY DEF TypeOK, InOnePlace
<1>3. /\ m_foxQSOinProgress' \in Seq(Calls)
      /\ Range(m_foxQSOinProgress') \subseteq Range(m_foxQSOinProgress)
      /\ Range(m_foxQSOinProgress) \ {h} \subseteq Range(m_foxQSOinProgress')
      /\ \A g : Once(m_foxQSOinProgress, g) => Once(m_foxQSOinProgress', g)
  <2> DEFINE s == m_foxQSOinProgress
  <2>1. FirstOf(s, h) = UNION {FirstOf(s, g) : g \in {h}}
    OBVIOUS
  <2>2. PICK f \in Selections(DOMAIN s \ UNION {FirstOf(s, g) : g \in {h}}) :
               m_foxQSOinProgress' = Selected(s, f)
    BY <1>1, <2>1
  <2> HIDE DEF s
  <2>3. s \in Seq(Calls)
    BY <1>2 DEF s
  <2>4. /\ Selected(s, f) \in Seq(Calls)
        /\ Range(Selected(s, f)) \subseteq Range(s)
        /\ Range(s) \ {h} \subseteq Range(Selected(s, f))
        /\ \A g : Once(s, g) => Once(Selected(s, f), g)
    BY <2>3, RemovedFacts
  <2> QED BY <2>2, <2>4 DEF s
<1>4. m_foxQSO' = m_foxQSO
  <2>1. DOMAIN m_foxQSO \cup Range(m_foxQSOinProgress') = DOMAIN m_foxQSO
    BY <1>2, <1>3
  <2>2. m_foxQSO' = [g \in DOMAIN m_foxQSO |-> m_foxQSO[g]]
    BY <1>1, <2>1 DEF With, At
  <2> QED BY <1>2, <2>2
<1>5. TypeOK'
  BY <1>1, <1>3, <1>4 DEF TypeOK
<1>6. InOnePlace' /\ QueueShown'
  BY <1>1, <1>3, <1>4 DEF InOnePlace, QueueShown
<1>7. ReportsAreAnswers' /\ TimersAreForAnswered'
  BY <1>1, <1>4 DEF ReportsAreAnswers, TimersAreForAnswered
<1>8. UnansweredIsCalled'
  BY <1>1, <1>3, <1>4 DEF UnansweredIsCalled, TimersAreForAnswered
<1> QED BY <1>5, <1>6, <1>7, <1>8

-----------------------------------------------------------------------------
(* The slots of a transmission.                                            *)

\* Those who have fewer than n others before them are at most n.
LEMMA RankBound ==
  ASSUME NEW S, IsFiniteSet(S), NEW B \in [S -> SUBSET S], NEW n \in Nat,
         \A i \in S : i \notin B[i],
         \A i, j \in S : i # j => \/ i \in B[j] /\ B[i] \subseteq B[j]
                                  \/ j \in B[i] /\ B[j] \subseteq B[i]
  PROVE  /\ IsFiniteSet({i \in S : Cardinality(B[i]) < n})
         /\ Cardinality({i \in S : Cardinality(B[i]) < n}) <= n
<1> DEFINE T == {i \in S : Cardinality(B[i]) < n}
           rank == [i \in T |-> Cardinality(B[i])]
<1>1. IsFiniteSet(T) /\ Cardinality(T) \in Nat
  BY FS_Subset, FS_CardinalityType, T \in SUBSET S
<1>2. \A i \in S : IsFiniteSet(B[i]) /\ Cardinality(B[i]) \in Nat
  <2> TAKE i \in S
  <2>1. B[i] \in SUBSET S
    OBVIOUS
  <2>2. IsFiniteSet(B[i])
    BY <2>1, FS_Subset
  <2> QED BY <2>2, FS_CardinalityType
<1>3. rank \in [T -> 0..(n - 1)]
  BY <1>2
<1>4. IsFiniteSet(0..(n - 1)) /\ Cardinality(0..(n - 1)) = n
  <2>1. 0 \in Int /\ n - 1 \in Int
    OBVIOUS
  <2>2. /\ IsFiniteSet(0..(n - 1))
        /\ Cardinality(0..(n - 1)) = IF 0 > n - 1 THEN 0 ELSE (n - 1) - 0 + 1
    BY ONLY <2>1, FS_Interval
  <2> QED BY <2>2
<1>5. ASSUME NEW i \in S, NEW j \in S, i \in B[j], B[i] \subseteq B[j]
      PROVE  Cardinality(B[i]) # Cardinality(B[j])
  <2>1. B[i] \in SUBSET B[j] /\ B[i] # B[j]
    BY <1>5
  <2>2. Cardinality(B[j]) = Cardinality(B[i]) => B[j] = B[i]
    BY <1>2, <2>1, FS_Subset
  <2> QED BY <2>1, <2>2
<1>6. ASSUME NEW i \in T, NEW j \in T, i # j
      PROVE  rank[i] # rank[j]
  <2>1. i \in S /\ j \in S
    OBVIOUS
  <2>2. Cardinality(B[i]) # Cardinality(B[j])
    BY <1>5, <1>6, <2>1
  <2> QED BY <2>2
<1>7. ~(n < Cardinality(T))
  <2> HIDE DEF T, rank
  <2> SUFFICES ASSUME n < Cardinality(T) PROVE FALSE
    OBVIOUS
  <2>1. \E i, j \in T : i # j /\ rank[i] = rank[j]
    BY <1>1, <1>3, <1>4, FS_PigeonHole
  <2> QED BY <1>6, <2>1
<1> QED BY <1>1, <1>7

\* No more are sent RR73 than there is room.
LEMMA List1Bound ==
  ASSUME IInv, NEW room \in Nat
  PROVE  /\ IsFiniteSet(List1(room))
         /\ Cardinality(List1(room)) <= room
         /\ Cardinality(List1(room)) \in Nat
<1> DEFINE B == [h \in Due |-> RR73Before(h)]
<1>1. Due \subseteq 0..NHounds /\ NHounds \in Nat
  BY HoundsAssumption DEF Due, IInv, TypeOK, Calls, Hounds
<1>2. IsFiniteSet(Due)
  <2>1. IsFiniteSet(0..NHounds)
    BY <1>1, FS_Interval
  <2>2. Due \in SUBSET (0..NHounds)
    BY <1>1
  <2> QED BY ONLY <2>1, <2>2, FS_Subset
<1>3. \A h \in Due : Round(h) \in Nat /\ h \in Nat
  BY <1>1 DEF Round
<1>4. B \in [Due -> SUBSET Due]
  BY DEF RR73Before
<1> HIDE DEF Due
<1>5. \A g, h \in Due : g \in B[h] <=> \/ Round(g) < Round(h)
                                       \/ Round(g) = Round(h) /\ g < h
  <2> TAKE g, h \in Due
  <2>1. B[h] = RR73Before(h)
    OBVIOUS
  <2>2. g \in RR73Before(h) <=> \/ Round(g) < Round(h)
                                \/ Round(g) = Round(h) /\ g < h
    BY DEF RR73Before
  <2> QED BY <2>1, <2>2
<1>6. \A h \in Due : h \notin B[h]
  BY <1>3, <1>5
<1>7. ASSUME NEW i \in Due, NEW j \in Due, i \in B[j]
      PROVE  B[i] \subseteq B[j]
  <2> SUFFICES ASSUME NEW g \in B[i] PROVE g \in B[j]
    OBVIOUS
  <2> HIDE DEF B
  <2>1. g \in Due
    BY <1>4
  <2>2. /\ Round(g) < Round(i) \/ (Round(g) = Round(i) /\ g < i)
        /\ Round(i) < Round(j) \/ (Round(i) = Round(j) /\ i < j)
    BY <1>5, <1>7, <2>1
  <2>3. Round(g) < Round(j) \/ (Round(g) = Round(j) /\ g < j)
    BY <1>3, <2>1, <2>2
  <2> QED BY <1>5, <2>1, <2>3
<1>8. ASSUME NEW i \in Due, NEW j \in Due, i # j
      PROVE  i \in B[j] \/ j \in B[i]
  <2> HIDE DEF B
  <2>1. /\ Round(i) \in Nat /\ Round(j) \in Nat /\ i \in Nat /\ j \in Nat
    BY <1>3
  <2>2. \/ Round(i) < Round(j) \/ (Round(i) = Round(j) /\ i < j)
        \/ Round(j) < Round(i) \/ (Round(j) = Round(i) /\ j < i)
    BY <1>8, <2>1
  <2> QED BY <1>5, <2>2
<1>9. \A i, j \in Due : i # j => \/ i \in B[j] /\ B[i] \subseteq B[j]
                                 \/ j \in B[i] /\ B[j] \subseteq B[i]
  BY <1>7, <1>8
<1>10. List1(room) = {h \in Due : Cardinality(B[h]) < room}
  BY DEF List1
<1> HIDE DEF B
<1>11. IsFiniteSet(List1(room)) /\ Cardinality(List1(room)) <= room
  BY <1>2, <1>4, <1>6, <1>9, <1>10, RankBound
<1> QED BY <1>11, FS_CardinalityType

\* Those who have fewer than n others before them, among Hounds to be called again.
LEMMA RepeatedBound ==
  ASSUME IInv, NEW n \in Nat
  PROVE  /\ IsFiniteSet({i \in Calling : Place(i) < n})
         /\ Cardinality({i \in Calling : Place(i) < n}) <= n
<1> DEFINE B == [i \in Calling |-> {j \in Calling : j < i}]
<1>1. /\ Calling \subseteq 1..Len(m_foxQSOinProgress)
      /\ Len(m_foxQSOinProgress) \in Nat
  <2>1. m_foxQSOinProgress \in Seq(Calls)
    BY DEF IInv, TypeOK
  <2> QED BY <2>1 DEF Calling
<1>2. IsFiniteSet(Calling)
  <2>1. IsFiniteSet(1..Len(m_foxQSOinProgress))
    BY <1>1, FS_Interval
  <2>2. Calling \in SUBSET (1..Len(m_foxQSOinProgress))
    BY <1>1
  <2> QED BY ONLY <2>1, <2>2, FS_Subset
<1> HIDE DEF Calling
<1>3. B \in [Calling -> SUBSET Calling]
  OBVIOUS
<1>4. \A i \in Calling : i \in Nat /\ B[i] = {j \in Calling : j < i}
  BY <1>1
<1>5. \A i \in Calling : i \notin B[i]
  BY <1>4
<1>6. ASSUME NEW i \in Calling, NEW j \in Calling, i < j
      PROVE  i \in B[j] /\ B[i] \subseteq B[j]
  <2>1. \A g \in Calling : g < i => g < j
    BY <1>4, <1>6
  <2> HIDE DEF B
  <2> QED BY <1>4, <1>6, <2>1
<1>7. ASSUME NEW i \in Calling, NEW j \in Calling, i # j
      PROVE  \/ i \in B[j] /\ B[i] \subseteq B[j]
             \/ j \in B[i] /\ B[j] \subseteq B[i]
  <2>1. i < j \/ j < i
    BY <1>4, <1>7
  <2> HIDE DEF B
  <2> QED BY <1>6, <2>1
<1>8. {i \in Calling : Place(i) < n} = {i \in Calling : Cardinality(B[i]) < n}
  BY DEF Place
<1> HIDE DEF B
<1> QED BY <1>2, <1>3, <1>5, <1>7, <1>8, RankBound

\* No more are sent a report than there is room and than there are slots.
LEMMA ReportsBound ==
  ASSUME IInv, NEW room \in Nat, NEW slots \in Nat
  PROVE  LET reports == Cardinality(Again(room, slots)) + Cardinality(First(room, slots))
         IN reports \in Nat /\ reports <= room /\ reports <= slots
<1> DEFINE R == Repeated(room)
           A == {i \in R : Place(i) < slots}
           r == Cardinality(R)
           B == {j \in 1..Dequeued(room) : r + j <= slots}
<1>1. R = {i \in Calling : Place(i) < room} /\ A = Again(room, slots) /\ B = First(room, slots)
  BY DEF Repeated, Again, First
<1>2. IsFiniteSet(R) /\ r <= room /\ r \in Nat
  <2>1. IsFiniteSet(R) /\ r <= room
    BY <1>1, RepeatedBound
  <2> QED BY <2>1, FS_CardinalityType
<1>3. /\ IsFiniteSet(A) /\ Cardinality(A) <= r /\ Cardinality(A) <= slots
      /\ Cardinality(A) \in Nat
  <2>1. A \in SUBSET R /\ A \in SUBSET {i \in Calling : Place(i) < slots}
    BY <1>1
  <2>2. /\ IsFiniteSet({i \in Calling : Place(i) < slots})
        /\ Cardinality({i \in Calling : Place(i) < slots}) <= slots
        /\ Cardinality({i \in Calling : Place(i) < slots}) \in Nat
    <3>1. /\ IsFiniteSet({i \in Calling : Place(i) < slots})
          /\ Cardinality({i \in Calling : Place(i) < slots}) <= slots
      BY RepeatedBound
    <3> QED BY <3>1, FS_CardinalityType
  <2> DEFINE F == {i \in Calling : Place(i) < slots}
  <2> HIDE DEF A, R, F
  <2>3. IsFiniteSet(A) /\ Cardinality(A) <= Cardinality(R)
    BY <1>2, <2>1, FS_Subset
  <2>4. Cardinality(A) <= Cardinality(F)
    BY <2>1, <2>2, FS_Subset DEF F
  <2>5. Cardinality(A) \in Nat
    BY <2>3, FS_CardinalityType
  <2> QED BY <1>2, <2>2, <2>3, <2>4, <2>5 DEF F
<1>4. Dequeued(room) \in Nat /\ Dequeued(room) <= room - r
  <2>1. room \in Int
    OBVIOUS
  <2>2. Dequeued(room) \in 0..Len(m_houndQueue) /\ Len(m_houndQueue) \in Nat
    BY <2>1, DequeuedType DEF IInv, TypeOK
  <2> HIDE DEF R
  <2> QED BY <1>2, <2>2 DEF Dequeued, Min2, R
<1> HIDE DEF R, A, r
<1>5. /\ IsFiniteSet(B) /\ Cardinality(B) \in Nat
      /\ Cardinality(B) <= room - r
      /\ r < slots => Cardinality(B) <= slots - r
      /\ r >= slots => B = {}
  <2>1. ASSUME NEW k \in Nat, B \subseteq 1..k
        PROVE  IsFiniteSet(B) /\ Cardinality(B) \in Nat /\ Cardinality(B) <= k
    <3>1. 1 \in Int /\ k \in Int
      OBVIOUS
    <3>2. IsFiniteSet(1..k) /\ Cardinality(1..k) = IF 1 > k THEN 0 ELSE k - 1 + 1
      BY ONLY <3>1, FS_Interval
    <3>3. B \in SUBSET (1..k)
      BY <2>1
    <3> HIDE DEF B
    <3>4. IsFiniteSet(B) /\ Cardinality(B) <= Cardinality(1..k)
      BY ONLY <3>2, <3>3, FS_Subset
    <3>5. Cardinality(B) \in Nat
      BY ONLY <3>4, FS_CardinalityType
    <3> QED BY <3>2, <3>4, <3>5
  <2>2. B \subseteq 1..Dequeued(room)
    OBVIOUS
  <2>3. r < slots => slots - r \in Nat /\ B \subseteq 1..(slots - r)
    BY <1>2, <1>4
  <2>4. r >= slots => B = {}
    BY <1>2, <1>4
  <2> HIDE DEF B
  <2>5. IsFiniteSet(B) /\ Cardinality(B) \in Nat /\ Cardinality(B) <= Dequeued(room)
    BY <1>4, <2>1, <2>2
  <2>6. r < slots => Cardinality(B) <= slots - r
    BY <2>1, <2>3
  <2> QED BY <1>2, <1>4, <2>4, <2>5, <2>6
<1>6. B = {} => Cardinality(B) = 0
  BY FS_EmptySet
<1> HIDE DEF B
<1>7. Cardinality(A) + Cardinality(B) <= room /\ Cardinality(A) + Cardinality(B) <= slots
  BY <1>2, <1>3, <1>5, <1>6
<1> QED BY <1>1, <1>3, <1>5, <1>7

\* What one transmission sends fits its slots.
LEMMA FoxTxSequencerFits ==
  ASSUME IInv, NEW text \in BOOLEAN, NEW otp \in BOOLEAN, NEW cqTime \in BOOLEAN,
         cqTime => ~text /\ ~otp, superFox => ~otp, FoxTxSequencer(text, otp, cqTime)
  PROVE  FitsSlots'
<1> DEFINE slots == SlotsFor(text)
           texts == Texts(text, otp)
           room1 == IF cqTime THEN 0 ELSE slots - texts
           list1 == List1(room1)
           room == IF cqTime THEN 0 ELSE ReportsFor(text, texts)
           reports == Cardinality(Again(room, slots)) + Cardinality(First(room, slots))
           empty == list1 = {} /\ reports = 0
           full == texts + Cardinality(list1) >= slots \/ texts + reports >= slots
<1>1. /\ \E cqs \in IF cqTime \/ (empty /\ ~full) THEN {1} ELSE IF full THEN {0} ELSE {0, 1} :
           air' = [rr73 |-> list1, reports |-> reports, slots |-> slots,
                   other |-> texts + cqs]
      /\ superFox' = superFox
  BY DEF FoxTxSequencer
<1>2. /\ slots \in Nat \ {0} /\ texts \in {0, 1, 2} /\ room1 \in Nat /\ room \in Nat
      /\ room1 <= slots - texts
      /\ ~superFox => room <= slots - texts
      /\ superFox => texts = 0 /\ (room <= SuperSlots - 1 \/ slots <= SuperSlots - 1)
      /\ SuperSlots \in Nat
      /\ cqTime => room = 0 /\ room1 = 0 /\ texts = 0
  BY SlotsAssumption DEF IInv, TypeOK, SlotsFor, ReportsFor, Texts, Min2
<1> HIDE DEF slots, texts, room1, room
<1>3. Cardinality(list1) \in Nat /\ Cardinality(list1) <= room1
  BY <1>2, List1Bound
<1>4. reports \in Nat /\ reports <= room /\ reports <= slots
  BY <1>2, ReportsBound
<1> HIDE DEF list1, reports
<1>5. PICK cqs \in {0, 1} : /\ air' = [rr73 |-> list1, reports |-> reports, slots |-> slots,
                                       other |-> texts + cqs]
                            /\ cqs = 1 => cqTime \/ ~full
  BY <1>1
<1>6. Cardinality(list1) + (texts + cqs) <= slots /\ reports + (texts + cqs) <= slots
  BY <1>2, <1>3, <1>4, <1>5
<1>7. superFox => reports <= SuperSlots - 1
  BY <1>2, <1>4
<1> QED BY <1>1, <1>5, <1>6, <1>7 DEF FitsSlots

\* All other steps leave the present transmission alone, or end it.
LEMMA NextFits == IInv /\ FitsSlots /\ [Next]_vars => FitsSlots'
<1> SUFFICES ASSUME IInv, FitsSlots, [Next]_vars PROVE FitsSlots'
  OBVIOUS
<1>1. CASE UNCHANGED <<air, superFox>>
  BY <1>1 DEF FitsSlots
<1>2. CASE StartTx \/ Restart
  BY <1>2, FoxTxSequencerFits DEF StartTx, Restart, Transmit
<1>3. CASE UNCHANGED vars
  BY <1>1, <1>3 DEF vars, txCount
<1>4. CASE HoundCallers \/ FoxRxSequencer
  BY <1>1, <1>4 DEF HoundCallers, FoxRxSequencer, txCount
<1>5. CASE SelectHound \/ QueueActiveWindowHound \/ ClickQueue \/ ClickInProgress
  BY <1>1, <1>5 DEF SelectHound, QueueActiveWindowHound, ClickQueue, ClickInProgress, txCount
<1>6. CASE EraseQueue \/ EraseCallers \/ FoxReset \/ LeaveInProgress
  BY <1>1, <1>6 DEF EraseQueue, EraseCallers, FoxReset, LeaveInProgress, txCount
<1>7. CASE EndPeriod
  <2>1. air' = Silence /\ superFox' = superFox
    BY <1>7 DEF EndPeriod
  <2>2. superFox => SuperSlots \in Nat \ {0}
    BY SlotsAssumption
  <2> QED BY <2>1, <2>2, FS_EmptySet DEF FitsSlots, Silence
<1> QED BY <1>2, <1>3, <1>4, <1>5, <1>6, <1>7 DEF Next, Decoder, Operator

-----------------------------------------------------------------------------
(* The specification.                                                      *)

\* Every step keeps the invariant, and a transmission rogers and logs only
\* Hounds that answered or were hidden.
LEMMA NextInv ==
  ASSUME IInv, Next
  PROVE  /\ IInv'
         /\ m_tFoxTx' # m_tFoxTx =>
              (air'.rr73 \cap Hounds) \cup (m_loggedByFox' \ m_loggedByFox)
                \subseteq answered \cup hidden
<1>1. CASE HoundCallers
  BY <1>1, HoundCallersInv DEF HoundCallers, txCount
<1>2. CASE FoxRxSequencer
  BY <1>2, FoxRxSequencerInv DEF FoxRxSequencer, txCount
<1>3. CASE SelectHound
  BY <1>3, SelectHoundInv DEF SelectHound, txCount
<1>4. CASE QueueActiveWindowHound
  BY <1>4, QueueActiveWindowHoundInv DEF QueueActiveWindowHound, txCount
<1>5. CASE ClickQueue
  BY <1>5, ClickQueueInv DEF ClickQueue, txCount
<1>6. CASE EraseQueue
  BY <1>6, EraseQueueInv DEF EraseQueue, txCount
<1>7. CASE EraseCallers
  BY <1>7, EraseCallersInv DEF EraseCallers, txCount
<1>8. CASE ClickInProgress
  BY <1>8, ClickInProgressInv DEF ClickInProgress, txCount
<1>9. CASE FoxReset
  BY <1>9, FoxResetInv DEF FoxReset, txCount
<1>10. CASE StartTx \/ Restart
  <2>1. PICK text \in BOOLEAN, otp \in BOOLEAN, cqTime \in BOOLEAN :
          FoxTxSequencer(text, otp, cqTime)
    BY <1>10 DEF StartTx, Restart, Transmit
  <2>2. ourPeriod' \in BOOLEAN /\ interventions' \in Nat
    <3>1. interventions \in Nat /\ ourPeriod \in BOOLEAN
      BY DEF IInv, TypeOK
    <3>2. ourPeriod' \in BOOLEAN
      BY <1>10, <3>1, Zenon DEF StartTx, Restart
    <3>3. interventions' = interventions \/ interventions' = interventions + 1
      BY <1>10, Zenon DEF StartTx, Restart, Intervention
    <3> QED BY <3>1, <3>2, <3>3
  <2> QED BY <2>1, <2>2, FoxTxSequencerInv
<1>11. CASE LeaveInProgress
  BY <1>11, LeaveInProgressInv DEF LeaveInProgress, txCount
<1>12. CASE EndPeriod
  <2>1. Silence \in Transmission
    BY DEF Silence, Transmission
  <2>2. IInv'
    BY <1>12, <2>1 DEF EndPeriod, IInv, TypeOK, InOnePlace, QueueShown, ReportsAreAnswers,
                       TimersAreForAnswered, UnansweredIsCalled, lists, log, history
  <2> QED BY <1>12, <2>2 DEF EndPeriod
<1> QED BY <1>1, <1>2, <1>3, <1>4, <1>5, <1>6, <1>7, <1>8, <1>9, <1>10, <1>11, <1>12
        DEF Next, Decoder, Operator

\* The invariant holds at the start.
LEMMA InitInv == Init => IInv
<1> SUFFICES ASSUME Init PROVE IInv
  OBVIOUS
<1>1. /\ DOMAIN m_foxQSO = {} /\ m_foxQSO \in [{} -> FoxQSO]
      /\ m_houndQueue = <<>> /\ m_foxQSOinProgress = <<>> /\ queueText = {0}
      /\ m_houndCallers = {} /\ shown = {} /\ leaving = {}
  BY DEF Init, NoText
<1>2. air \in Transmission
  BY DEF Init, Transmission, Silence
<1>3. TypeOK
  <2>1. m_foxQSO \in [DOMAIN m_foxQSO -> FoxQSO] /\ DOMAIN m_foxQSO \subseteq Calls
    BY <1>1
  <2>2. m_houndQueue \in Seq(Calls) /\ m_foxQSOinProgress \in Seq(Calls)
    BY <1>1
  <2> QED BY <1>1, <1>2, <2>1, <2>2 DEF Init, TypeOK
<1>4. InOnePlace /\ QueueShown
  BY <1>1, CallFacts DEF InOnePlace, QueueShown, Range, Once, Places
<1> QED BY <1>1, <1>3, <1>4 DEF IInv, ReportsAreAnswers, TimersAreForAnswered,
                                UnansweredIsCalled

\* The invariant holds of every reachable state.
LEMMA Invariance == Spec => []IInv
<1>1. IInv /\ UNCHANGED vars => IInv'
  BY DEF IInv, TypeOK, InOnePlace, QueueShown, ReportsAreAnswers, TimersAreForAnswered,
         UnansweredIsCalled, vars, lists, log, txCount, history
<1>2. IInv /\ [Next]_vars => IInv'
  BY <1>1, NextInv
<1> QED BY <1>2, InitInv, PTL DEF Spec

\* The variables of Fox have the types of their declarations.
THEOREM TypeCorrect == Spec => []TypeOK
<1>1. IInv => TypeOK
  BY DEF IInv
<1> QED BY <1>1, Invariance, PTL

\* A Hound is never listed, queued or in progress twice, whatever the operator
\* selects, deletes and restarts, unless it was queued when the queue's window
\* was erased.
THEOREM OnePlace == Spec => []InOnePlace
<1>1. IInv => InOnePlace
  BY DEF IInv
<1> QED BY <1>1, Invariance, PTL

\* A Hound whose report is awaited is in progress, but for one that its timer
\* overtook: also where a Hound was queued twice.
THEOREM UnansweredCalled == Spec => []UnansweredIsCalled
<1>1. IInv => UnansweredIsCalled
  BY DEF IInv
<1> QED BY <1>1, Invariance, PTL

\* RR73 and the log are for Hounds that answered, or that were queued when the
\* queue's window was erased.
THEOREM OnlyWorkedLogged == Spec => LogsOnlyWorked
<1> DEFINE A == m_tFoxTx' # m_tFoxTx =>
                  (air'.rr73 \cap Hounds) \cup (m_loggedByFox' \ m_loggedByFox)
                    \subseteq answered \cup hidden
<1>1. IInv /\ [Next]_vars => [A]_vars
  BY NextInv
<1> QED BY <1>1, Invariance, PTL DEF Spec, LogsOnlyWorked

\* The messages of a transmission fit its slots, whatever is due.
THEOREM SlotsSuffice == Spec => []FitsSlots
<1>1. Init => FitsSlots
  <2> SUFFICES ASSUME Init PROVE FitsSlots
    OBVIOUS
  <2>1. air = Silence
    BY DEF Init
  <2> QED BY <2>1, SlotsAssumption, FS_EmptySet DEF FitsSlots, Silence
<1>2. IInv /\ FitsSlots /\ [Next]_vars => FitsSlots'
  BY NextFits
<1> QED BY <1>1, <1>2, Invariance, PTL DEF Spec

=============================================================================
