------------------------------ MODULE FoxHound ------------------------------
(***************************************************************************)
(* How a DXpedition station (Fox) works its callers (Hounds) in FT8.  A    *)
(* Hound is listed when it is decoded, queued by the operator, called with *)
(* a report in each of our transmissions until it answers R+report, sent   *)
(* RR73 and logged.  foxTxSequencer fills the slots of one transmission;   *)
(* a Hound that was logged leaves the list of QSOs in progress by a timer, *)
(* 13 s into the transmission.                                             *)
(*                                                                         *)
(* What is selected is tested against the text of the queue's window, which *)
(* may be erased while the queue stays as it is.                           *)
(*                                                                         *)
(* A Hound is its number in the order of QMap's keys; 0 is the empty call, *)
(* which a click on a blank line yields, and stands for a blank line.  No   *)
(* call is part of another.                                                *)
(***************************************************************************)
EXTENDS Integers, FiniteSets, Sequences, Functions

CONSTANTS NHounds,      \* the callers are 1..NHounds
          BlankLines,   \* {0} if the operator clicks on blank lines, else {}
          Slots,        \* m_Nslots
          SuperSlots,   \* m_Nslots in SuperFox mode ...
          SuperSlotsMsg, \* ... and when a free text is sent in it
          SuperReportsMsg, \* reports in a SuperFox transmission with free text
          QueueLimit,   \* MAX_HOUNDS_IN_QUEUE
          MaxStrikes,   \* m_maxStrikes
          MaxFoxWait,   \* m_maxFoxWait
          MaxTx,        \* bound: transmissions
          MaxInterventions \* bound: resets, restarts, erasures, blank lines

ASSUME HoundsAssumption == NHounds \in Nat /\ BlankLines \subseteq {0}

ASSUME SlotsAssumption ==
  /\ Slots \in Nat \ {0}
  /\ SuperSlots \in Nat \ {0}
  /\ SuperSlotsMsg \in Nat \ {0}
  /\ SuperSlotsMsg < SuperSlots
  /\ SuperReportsMsg \in Nat

ASSUME LimitsAssumption ==
  /\ MaxStrikes \in Nat \ {0}
  /\ MaxFoxWait \in Nat
  /\ QueueLimit \in Nat

VARIABLES superFox,            \* Configuration::superFox
          m_houndCallers,      \* the Hounds calling, sorted
          shown,               \* those the left window shows
          m_houndQueue,        \* selected Hounds, to be called
          queueText,           \* the lines of houndQueueTextBrowser
          m_foxQSO,            \* the QSOs, a map from calls
          m_foxQSOinProgress,  \* Hounds we call, in the order of their QSOs
          m_loggedByFox,       \* Hounds logged on this band
          m_discard,           \* m_discard_decoded_hounds_this_cycle
          m_tFoxTx,            \* counts our transmissions
          leaving,             \* Hounds whose 13 s timer runs
          ourPeriod,           \* in a period of ours
          air,                 \* the present transmission
          answered,            \* history: R+report received in the present QSO
          overtaken,           \* history: queued again before the timer fired
          hidden,              \* history: queued when the queue's text was erased
          interventions        \* history: those of the bound above

lists == <<m_houndCallers, shown, m_houndQueue, queueText>>
log == <<m_loggedByFox, leaving>>
txCount == <<m_tFoxTx, air>>
history == <<answered, overtaken, hidden, interventions>>
vars == <<superFox, lists, m_foxQSO, m_foxQSOinProgress, log, m_discard, txCount,
          ourPeriod, history>>

Hounds == 1..NHounds
Calls == Hounds \cup BlankLines

Never == -1

\* tFoxRrpt and tFoxTxRR73 are transmission counts.
FoxQSO == [ncall : Nat, nRR73 : Nat,
           tFoxRrpt : Nat \cup {Never}, tFoxTxRR73 : Nat \cup {Never}]

\* Faulty variant: another number than -1 stands for never.
NewQSOUnset == [ncall |-> 0, nRR73 |-> 0, tFoxRrpt |-> -99, tFoxTxRR73 |-> -99]

NewQSO == [ncall |-> 0, nRR73 |-> 0, tFoxRrpt |-> Never, tFoxTxRR73 |-> Never]

\* What QMap::operator[] inserts for a call it does not find.
DefaultQSO == [ncall |-> 0, nRR73 |-> 0, tFoxRrpt |-> 0, tFoxTxRR73 |-> 0]

At(qsos, h) == IF h \in DOMAIN qsos THEN qsos[h] ELSE DefaultQSO

With(qsos, calls) == [h \in DOMAIN qsos \cup calls |-> At(qsos, h)]

\* One transmission: calls sent RR73, how many are sent a report, other
\* messages, and the slots there were.
Transmission == [rr73 : SUBSET Calls, reports : Nat, other : 0..3, slots : Nat]

Silence == [rr73 |-> {}, reports |-> 0, other |-> 0, slots |-> 0]

\* Places of a sequence, in order.
Selections(places) ==
  {f \in [1..Cardinality(places) -> places] :
     /\ \A i, j \in DOMAIN f : i < j => f[i] < f[j]
     /\ Range(f) = places}

Selected(s, f) == [i \in DOMAIN f |-> s[f[i]]]

Places(s, h) == {i \in DOMAIN s : s[i] = h}

\* The first of them, if any: the one that QList::removeOne removes.
FirstOf(s, h) == {i \in Places(s, h) : \A j \in Places(s, h) : i <= j}

\* Resets, restarts, erasures and clicks on blank lines are bounded.
Intervention ==
  interventions < MaxInterventions /\ interventions' = interventions + 1

Min2(a, b) == IF a <= b THEN a ELSE b

-----------------------------------------------------------------------------
(* The lists.                                                              *)

NoText == {0}

\* The lines that refreshHoundQueueDisplay shows of a queue: a blank line is
\* lost where nothing precedes it.
Displayed(queue) ==
  LET lines == {queue[i] : i \in {j \in DOMAIN queue : \E k \in 1..j : queue[k] # 0}}
  IN IF lines = {} THEN NoText ELSE lines

\* The lines after a new one was inserted: at the end, where an empty text is
\* replaced, or on top.
TextWith(h, top) ==
  (IF queueText = NoText /\ ~top THEN {} ELSE queueText) \cup {h}

\* Read the callers decoded in the last periods and list the accepted: some
\* of those that are not in a list already, as chosen by band, continent, call
\* area and SNR.
HoundCallers ==
  \E accepted \in SUBSET (Hounds \ (queueText \cup DOMAIN m_foxQSO
                                    \cup Range(m_foxQSOinProgress))) :
    LET listed == ~m_discard /\ accepted # {}
    IN /\ m_discard' = FALSE
       /\ m_houndCallers' = IF listed THEN accepted ELSE m_houndCallers
       /\ shown' = IF listed THEN accepted ELSE shown
       /\ UNCHANGED <<superFox, m_houndQueue, queueText, m_foxQSO, m_foxQSOinProgress,
                      log, txCount, ourPeriod, history>>

\* Faulty variant: the line stays in the list of callers.
SelectHoundListed ==
  \E h \in shown \ queueText, top \in BOOLEAN :
    /\ Len(m_houndQueue) < QueueLimit
    /\ m_houndCallers' = m_houndCallers
    /\ shown' = m_houndCallers'
    /\ m_houndQueue' = IF top THEN <<h>> \o m_houndQueue ELSE Append(m_houndQueue, h)
    /\ queueText' = TextWith(h, top)
    /\ UNCHANGED <<superFox, m_foxQSO, m_foxQSOinProgress, log, m_discard, txCount,
                   ourPeriod, history>>

\* A caller is selected in the left window, to the end or the top of the queue.
SelectHound ==
  \E h \in shown \ queueText, top \in BOOLEAN :
    /\ Len(m_houndQueue) < QueueLimit
    /\ m_houndCallers' = m_houndCallers \ {h}
    /\ shown' = m_houndCallers'
    /\ m_houndQueue' = IF top THEN <<h>> \o m_houndQueue ELSE Append(m_houndQueue, h)
    /\ queueText' = TextWith(h, top)
    /\ UNCHANGED <<superFox, m_foxQSO, m_foxQSOinProgress, log, m_discard, txCount,
                   ourPeriod, history>>

\* A station is selected in the Active Stations window.
QueueActiveWindowHound ==
  \E h \in Hounds \ (Range(m_houndQueue) \cup Range(m_foxQSOinProgress)) :
    /\ IF Len(m_houndQueue) < QueueLimit
       THEN /\ m_houndQueue' = Append(m_houndQueue, h)
            /\ queueText' = Displayed(m_houndQueue')
       ELSE UNCHANGED <<m_houndQueue, queueText>>
    /\ m_houndCallers' = m_houndCallers \ {h}
    /\ shown' = IF h \in m_houndCallers THEN m_houndCallers' ELSE shown
    /\ UNCHANGED <<superFox, m_foxQSO, m_foxQSOinProgress, log, m_discard, txCount,
                   ourPeriod, history>>

\* A line of the queue's window is clicked: all its like are deleted from the
\* queue or, with Alt, the first is put on top of it.  A blank line is put there
\* even if the queue has none.
ClickQueue ==
  \E h \in queueText \cap Calls, alt \in BOOLEAN :
    /\ \E f \in Selections(DOMAIN m_houndQueue \ (IF alt THEN FirstOf(m_houndQueue, h)
                                               ELSE Places(m_houndQueue, h))) :
         m_houndQueue' = (IF alt THEN <<h>> ELSE <<>>) \o Selected(m_houndQueue, f)
    /\ queueText' = Displayed(m_houndQueue')
    /\ IF h = 0 THEN Intervention ELSE UNCHANGED interventions
    /\ UNCHANGED <<superFox, m_houndCallers, shown, m_foxQSO, m_foxQSOinProgress, log,
                   m_discard, txCount, ourPeriod, answered, overtaken, hidden>>

\* The queue's window is emptied, by Erase in its menu or a new font.
EraseQueue ==
  /\ queueText # NoText
  /\ Intervention
  /\ queueText' = NoText
  /\ hidden' = hidden \cup (Range(m_houndQueue) \cap Hounds)
  /\ UNCHANGED <<superFox, m_houndCallers, shown, m_houndQueue, m_foxQSO,
                 m_foxQSOinProgress, log, m_discard, txCount, ourPeriod, answered,
                 overtaken>>

\* So is the left window.
EraseCallers ==
  /\ shown # {}
  /\ Intervention
  /\ shown' = {}
  /\ UNCHANGED <<superFox, m_houndCallers, m_houndQueue, queueText, m_foxQSO,
                 m_foxQSOinProgress, log, m_discard, txCount, ourPeriod, answered,
                 overtaken, hidden>>

\* A line of the QSOs in progress is clicked: no more calls to that Hound.
ClickInProgress ==
  \E h \in Range(m_foxQSOinProgress) \cup BlankLines :
    /\ m_foxQSO' = [With(m_foxQSO, {h}) EXCEPT ![h].ncall = MaxStrikes + 1]
    /\ IF h = 0 THEN Intervention ELSE UNCHANGED interventions
    /\ UNCHANGED <<superFox, lists, m_foxQSOinProgress, log, m_discard, txCount,
                   ourPeriod, answered, overtaken, hidden>>

\* The reset button, or a change of band.
FoxReset ==
  /\ Intervention
  /\ shown' = {}
  /\ m_houndQueue' = <<>> /\ queueText' = NoText
  /\ m_foxQSO' = [h \in {} |-> DefaultQSO]
  /\ m_foxQSOinProgress' = <<>>
  /\ m_discard' = TRUE
  /\ answered' = {} /\ overtaken' = {} /\ hidden' = {}
  /\ m_loggedByFox' \in {m_loggedByFox, {}}
  /\ UNCHANGED <<superFox, m_houndCallers, leaving, txCount, ourPeriod>>

-----------------------------------------------------------------------------
(* Messages received and sent.                                             *)

\* R+report from a Hound.
FoxRxSequencer ==
  \E h \in Hounds \cap DOMAIN m_foxQSO :
    /\ m_foxQSO' = [m_foxQSO EXCEPT ![h].tFoxRrpt = m_tFoxTx]
    /\ answered' = answered \cup {h}
    /\ UNCHANGED <<superFox, lists, m_foxQSOinProgress, log, m_discard, txCount,
                   ourPeriod, overtaken, hidden, interventions>>

\* Calls that are to be sent RR73, and in which of three rounds.
LongSinceRR73(q) == q.tFoxRrpt - q.tFoxTxRR73 > 3

\* Faulty variant: a report is not waited for.
DueUnanswered == {h \in DOMAIN m_foxQSO :
                    LET q == m_foxQSO[h]
                    IN LongSinceRR73(q) \/ q.tFoxTxRR73 < 0
                       \/ q.tFoxTxRR73 <= q.tFoxRrpt}

Due == {h \in DOMAIN m_foxQSO :
          LET q == m_foxQSO[h]
          IN /\ q.tFoxRrpt >= 0
             /\ LongSinceRR73(q) \/ q.tFoxTxRR73 < 0 \/ q.tFoxTxRR73 <= q.tFoxRrpt}

Round(h) == LET q == m_foxQSO[h]
            IN CASE LongSinceRR73(q) -> 1
                 [] ~LongSinceRR73(q) /\ q.tFoxTxRR73 < 0 -> 2
                 [] OTHER -> 3

RR73Before(h) ==
  {g \in Due : Round(g) < Round(h) \/ (Round(g) = Round(h) /\ g < h)}

\* list1: calls to be sent RR73.
List1(room) == {h \in Due : Cardinality(RR73Before(h)) < room}

\* Hounds in progress to be called again, in the order of their QSOs.
Waiting(h) == At(m_foxQSO, h).tFoxRrpt < 0 /\ At(m_foxQSO, h).ncall < MaxStrikes

Calling == {i \in DOMAIN m_foxQSOinProgress : Waiting(m_foxQSOinProgress[i])}

Place(i) == Cardinality({j \in Calling : j < i})

Repeated(room) == {i \in Calling : Place(i) < room}

\* How many Hounds are taken from the queue.
Dequeued(room) ==
  LET free == room - Cardinality(Repeated(room))
  IN IF free <= 0 THEN 0 ELSE Min2(free, Len(m_houndQueue))

\* list2: calls to be sent a report, at their places in the QSOs in progress and
\* in the queue; no more are sent than there are slots.
Again(room, slots) == {i \in Repeated(room) : Place(i) < slots}

First(room, slots) == {j \in 1..Dequeued(room) : Cardinality(Repeated(room)) + j <= slots}

\* How many reports h is sent.
Reports(h, room, slots) ==
  Cardinality({i \in Again(room, slots) : m_foxQSOinProgress[i] = h})
    + Cardinality({j \in First(room, slots) : m_houndQueue[j] = h})

\* A record after the transmission t that sends RR73 to list1 and this many
\* reports to h, before strikes are counted.
Sent(h, t, fresh, list1, reports) ==
  LET q == IF h \in fresh THEN NewQSO
           ELSE IF h \in list1
                THEN [At(m_foxQSO, h) EXCEPT !.tFoxTxRR73 = t, !.nRR73 = @ + 1]
                ELSE At(m_foxQSO, h)
  IN [q EXCEPT !.ncall = @ + reports]

Struck(q) == IF q.ncall >= MaxStrikes THEN [q EXCEPT !.ncall = @ + 1] ELSE q

\* Strikeout or timeout.
Finished(q, t) ==
  \/ t - q.tFoxRrpt > 2 * MaxFoxWait /\ q.tFoxRrpt > 0
  \/ t - q.tFoxTxRR73 > MaxFoxWait /\ q.tFoxTxRR73 > 0
  \/ q.ncall >= MaxStrikes + MaxFoxWait
  \/ q.nRR73 >= MaxStrikes

SlotsFor(text) == IF ~superFox THEN Slots
                  ELSE IF text THEN SuperSlotsMsg ELSE SuperSlots

\* Messages sent besides those to Hounds: a free text and the one-time password.
Texts(text, otp) ==
  IF superFox THEN 0
  ELSE Min2(Slots, (IF text THEN 1 ELSE 0) + (IF otp THEN 1 ELSE 0))

\* Faulty variant: these messages take no slot.
ReportsForText(text, texts) == IF ~superFox THEN Slots
                               ELSE IF text THEN SuperReportsMsg ELSE SuperSlots - 1

\* Reports there may be besides them.
ReportsFor(text, texts) == IF ~superFox THEN Slots - texts
                           ELSE IF text THEN SuperReportsMsg ELSE SuperSlots - 1

\* Fill the slots of one transmission.  text: a free text message is to be
\* sent; otp: a one-time password is due; cqTime: "More CQs" is checked and it is
\* time for a transmission with a CQ alone.  A CQ is also sent in a slot left
\* empty, and the log may refuse a QSO.
FoxTxSequencer(text, otp, cqTime) ==
  LET t == m_tFoxTx + 1
      slots == SlotsFor(text)
      texts == Texts(text, otp)
      list1 == List1(IF cqTime THEN 0 ELSE slots - texts)
      room == IF cqTime THEN 0 ELSE ReportsFor(text, texts)
      n == Dequeued(room)
      fresh == {m_houndQueue[i] : i \in 1..n}
      reports == Cardinality(Again(room, slots)) + Cardinality(First(room, slots))
      empty == list1 = {} /\ reports = 0
      full == texts + Cardinality(list1) >= slots \/ texts + reports >= slots
      qsos == [h \in DOMAIN m_foxQSO \cup fresh |->
                 Struck(Sent(h, t, fresh, list1, Reports(h, room, slots)))]
      finished == {h \in DOMAIN qsos : Finished(qsos[h], t)}
      queued == m_foxQSOinProgress \o SubSeq(m_houndQueue, 1, n)
      logged == (list1 \ {0}) \ m_loggedByFox
  IN /\ m_tFoxTx < MaxTx
     /\ m_tFoxTx' = t
     /\ m_houndQueue' = SubSeq(m_houndQueue, n + 1, Len(m_houndQueue))
     /\ queueText' = IF n > 0 THEN Displayed(m_houndQueue') ELSE queueText
     /\ \E f \in Selections(DOMAIN queued \ UNION {FirstOf(queued, h) : h \in finished}) :
          m_foxQSOinProgress' = Selected(queued, f)
     /\ m_foxQSO' = With([h \in DOMAIN qsos \ finished |-> qsos[h]],
                         Range(m_foxQSOinProgress'))
     /\ m_loggedByFox' = m_loggedByFox \cup logged
     /\ \E added \in SUBSET logged : leaving' = leaving \cup added
     /\ \E cqs \in IF cqTime \/ (empty /\ ~full) THEN {1}
                ELSE IF full THEN {0} ELSE {0, 1} :
          air' = [rr73 |-> list1, reports |-> reports, slots |-> slots,
                  other |-> texts + cqs]
     /\ answered' = answered \ fresh
     /\ overtaken' = (overtaken \ fresh) \cup (fresh \cap leaving')
     /\ UNCHANGED <<superFox, m_houndCallers, shown, m_discard, hidden>>

\* A CQ alone leaves no slot for other messages; SuperFox mode sends the one-time
\* password beside the slots.
Transmit ==
  \E text, otp, cqTime \in BOOLEAN :
    /\ cqTime => ~text /\ ~otp
    /\ superFox => ~otp
    /\ FoxTxSequencer(text, otp, cqTime)

\* guiUpdate starts our transmission: 30 s after the last one, when the timers
\* of that one, started anew or not, have fired.
StartTx ==
  /\ ~ourPeriod
  /\ leaving = {}
  /\ ourPeriod' = TRUE
  /\ Transmit
  /\ UNCHANGED interventions

\* Halt Tx and Enable Tx within one period of ours.
Restart ==
  /\ ourPeriod
  /\ Intervention
  /\ Transmit
  /\ UNCHANGED ourPeriod

\* Faulty variant: the timer takes the head of the list.
LeaveInProgressHead ==
  \E h \in leaving :
    /\ leaving' = leaving \ {h}
    /\ m_foxQSOinProgress' = IF m_foxQSOinProgress = <<>> THEN <<>>
                             ELSE Tail(m_foxQSOinProgress)
    /\ UNCHANGED <<superFox, lists, m_foxQSO, m_loggedByFox, m_discard, txCount,
                   ourPeriod, history>>

\* The 13 s timer of a logged Hound.
LeaveInProgress ==
  \E h \in leaving :
    /\ leaving' = leaving \ {h}
    /\ \E f \in Selections(DOMAIN m_foxQSOinProgress \ FirstOf(m_foxQSOinProgress, h)) :
         m_foxQSOinProgress' = Selected(m_foxQSOinProgress, f)
    /\ m_foxQSO' = With(m_foxQSO, Range(m_foxQSOinProgress'))
    /\ UNCHANGED <<superFox, lists, m_loggedByFox, m_discard, txCount, ourPeriod, history>>

\* Our period ends, after 15 s.
EndPeriod ==
  /\ ourPeriod
  /\ ourPeriod' = FALSE
  /\ air' = Silence
  /\ UNCHANGED <<superFox, lists, m_foxQSO, m_foxQSOinProgress, log, m_discard,
                 m_tFoxTx, history>>

Init ==
  /\ superFox \in BOOLEAN
  /\ m_houndCallers = {} /\ shown = {}
  /\ m_houndQueue = <<>> /\ queueText = NoText /\ m_foxQSOinProgress = <<>>
  /\ m_foxQSO = [h \in {} |-> DefaultQSO]
  /\ m_loggedByFox = {} /\ leaving = {}
  /\ m_discard = FALSE
  /\ m_tFoxTx = 0
  /\ ourPeriod = FALSE
  /\ air = Silence
  /\ answered = {} /\ overtaken = {} /\ hidden = {} /\ interventions = 0

Decoder == HoundCallers \/ FoxRxSequencer

Operator == SelectHound \/ QueueActiveWindowHound \/ ClickQueue \/ ClickInProgress
            \/ EraseQueue \/ EraseCallers \/ FoxReset \/ Restart

Next == Decoder \/ Operator \/ StartTx \/ LeaveInProgress \/ EndPeriod

Spec == Init /\ [][Next]_vars

-----------------------------------------------------------------------------
(* Properties.                                                             *)

\* The variables have the values their declarations in MainWindow allow.
TypeOK ==
  /\ superFox \in BOOLEAN
  /\ m_houndCallers \subseteq Hounds /\ shown \subseteq Hounds
  /\ m_houndQueue \in Seq(Calls) /\ queueText \subseteq Hounds \cup {0}
  /\ m_foxQSOinProgress \in Seq(Calls)
  /\ DOMAIN m_foxQSO \subseteq Calls
  /\ m_foxQSO \in [DOMAIN m_foxQSO -> FoxQSO]
  /\ m_loggedByFox \subseteq Hounds /\ leaving \subseteq Hounds
  /\ m_discard \in BOOLEAN
  /\ m_tFoxTx \in Nat
  /\ ourPeriod \in BOOLEAN
  /\ air \in Transmission
  /\ answered \subseteq Hounds /\ overtaken \subseteq Hounds /\ hidden \subseteq Hounds
  /\ interventions \in Nat

Once(s, h) == \A i, j \in Places(s, h) : i = j

\* A Hound is in one place: listed as a caller, or queued, or in progress, and
\* there once; a Hound whose QSO is in the map is not offered as a caller, and
\* each line in progress has its record.  The exception is a Hound that was
\* queued when the queue's window was erased: selectHound and houndCallers take
\* what the window shows for the queue.
InOnePlace ==
  /\ shown \subseteq m_houndCallers
  /\ Range(m_foxQSOinProgress) \subseteq DOMAIN m_foxQSO
  /\ \A h \in Hounds \ hidden :
       /\ Once(m_houndQueue, h) /\ Once(m_foxQSOinProgress, h)
       /\ h \notin Range(m_houndQueue) \cap Range(m_foxQSOinProgress)
       /\ h \in m_houndCallers => h \notin Range(m_houndQueue) \cup DOMAIN m_foxQSO

\* The messages of one transmission fit its slots, and in SuperFox mode one
\* slot less is used for reports than there are slots.
FitsSlots ==
  /\ Cardinality(air.rr73) + air.other <= air.slots
  /\ air.reports + air.other <= air.slots
  /\ superFox => air.reports <= SuperSlots - 1

\* A Hound whose R+report we wait for is in progress, so that it is called
\* again or struck out: otherwise its record would stay in the map for ever,
\* and the Hound would be left out of the callers.  The one exception is a
\* Hound whose next QSO began, in a restarted transmission, before the timer
\* of its last one fired.
UnansweredIsCalled ==
  \A h \in Hounds \cap DOMAIN m_foxQSO :
    m_foxQSO[h].tFoxRrpt < 0 => h \in Range(m_foxQSOinProgress) \cup overtaken

\* Fox sends RR73 to, and logs, only Hounds whose R+report it has received in
\* the QSO it is in, or that were queued when the queue's window was erased.
\* (A blank line has no QSO: a click on it makes the empty call look like one
\* that was called too often, and the next transmission may send it RR73.  The
\* log never gets it.)
LogsOnlyWorked ==
  [][m_tFoxTx' # m_tFoxTx =>
       (air'.rr73 \cap Hounds) \cup (m_loggedByFox' \ m_loggedByFox)
         \subseteq answered \cup hidden]_vars

\* "We received R+rpt more recently than we sent RR73", says foxTxSequencer of
\* those it sends RR73 to, in its third round.
RR73AfterReport ==
  [][m_tFoxTx' # m_tFoxTx => air'.rr73 \cap Hounds \subseteq answered]_vars

=============================================================================
