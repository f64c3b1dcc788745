------------------------------ MODULE AutoSeq ------------------------------
(***************************************************************************)
(* Stations that all run the program with Auto Seq work each other in FT8, *)
(* over a channel that loses messages.  In each 15 s period the stations   *)
(* whose turn it is may transmit one message; what the others decode of it *)
(* they decode in the next period, before or after their own transmission  *)
(* has started.                                                            *)
(*                                                                         *)
(* A message is the selected one of Tx1 .. Tx6, with the calls of the two  *)
(* stations; the texts always hold the present DX Call.                    *)
(***************************************************************************)
EXTENDS Integers, FiniteSets

CONSTANTS Stations,
          Everyone,    \* the address of a CQ
          NoCall,      \* an empty DX Call
          Settings,    \* the settings the stations may have
          TxFirst,     \* the values of Tx even/1st they may start with, 0 if checked
          Patience,    \* Tx watchdog, in periods
          MaxActs      \* bound: what the operators do

ASSUME StationsAssumption == /\ Everyone \notin Stations
                             /\ NoCall \notin Stations

ASSUME SettingsAssumption ==
  Settings \subseteq [callFirst : BOOLEAN, \* "CQ: First" is selected
                      rr73 : BOOLEAN,      \* m_send_RR73
                      wait : BOOLEAN]      \* Wait_features_enabled

ASSUME TxFirstAssumption == TxFirst \subseteq {0, 1}

ASSUME BoundsAssumption == Patience \in Nat \ {0} /\ MaxActs \in [Stations -> Nat]

VARIABLES setting,   \* the settings of each station
          st,        \* MainWindow of each station
          parity,    \* the period is even (0) or odd (1)
          air,       \* messages being transmitted
          inbox,     \* messages of the last period yet to be decoded
          shown,     \* messages decoded in this period
          acts,      \* how often each operator did something
          got, confirmed, news, logs, \* history: see Qso
          manual,    \* history: who acted since their last log entry
          disturbed  \* history: a message was lost, or an operator interfered

history == <<got, confirmed, news, logs>>
vars == <<setting, st, parity, air, inbox, shown, acts, history, manual, disturbed>>

Q == INSTANCE Qso

Kinds == {"CQ", "grid", "rpt", "Rrpt", "RRR", "RR73", "73"}
Message == [from : Stations, to : Stations \cup {Everyone}, kind : Kinds]

NoMessage == [from |-> NoCall, to |-> Everyone, kind |-> "CQ"]

Is73(m) == m.kind \in {"RR73", "73"}

\* QSOProgress
CALLING == 0
REPLYING == 1
REPORT == 2
ROGER_REPORT == 3
ROGERS == 4
SIGNOFF == 5

Window ==
  [auto : BOOLEAN, ntx : 1..6, progress : CALLING..SIGNOFF,
   dx : Stations \cup {NoCall}, txFirst : {0, 1},
   callingCQ : BOOLEAN, doubleClicked : BOOLEAN, selected : BOOLEAN,
   restart : BOOLEAN, logTimer : BOOLEAN, stopWRTimer : BOOLEAN,
   idle : 0..Patience,             \* m_idleMinutes, in periods
   last73 : BOOLEAN,               \* m_currentMessage has 73 or RR73
   msgSent0 : Message \cup {NoMessage}]

Transmitting(s) == \E m \in air : m.from = s

Text(s, w) ==
  [from |-> s, to |-> IF w.ntx = 6 THEN Everyone ELSE w.dx,
   kind |-> CASE w.ntx = 1 -> "grid" [] w.ntx = 2 -> "rpt" [] w.ntx = 3 -> "Rrpt"
              [] w.ntx = 4 -> IF setting[s].rr73 THEN "RR73" ELSE "RRR"
              [] w.ntx = 5 -> "73" [] OTHER -> "CQ"]

-----------------------------------------------------------------------------
(* Handlers, as functions of the window w of station s.                    *)

AutoTxMode(s, w, on) ==
  [w EXCEPT !.auto = on, !.stopWRTimer = FALSE,
            !.callingCQ = on /\ (@ \/ (setting[s].callFirst /\ w.progress = CALLING))]

OnStopTxButton(s, w) ==
  [(IF w.auto THEN AutoTxMode(s, w, FALSE) ELSE w)
     EXCEPT !.callingCQ = FALSE, !.stopWRTimer = FALSE]

\* An empty DX Call is contained in every call.
FromDx(w, m) == w.dx \in {m.from, NoCall}

\* Faulty variant: any report is taken for R+report.
AnswerRoger(w, kind) ==
  CASE kind = "grid" -> [w EXCEPT !.ntx = 2, !.progress = REPORT]
    [] kind \in {"rpt", "Rrpt"} -> [w EXCEPT !.ntx = 4, !.progress = ROGERS]
    [] kind \in {"RRR", "RR73"} ->
         [w EXCEPT !.ntx = 5, !.progress = IF @ >= ROGER_REPORT THEN SIGNOFF ELSE @]
    [] kind = "73" /\ w.progress = ROGERS ->
         [w EXCEPT !.ntx = 6, !.logTimer = TRUE, !.progress = SIGNOFF]
    [] OTHER -> w

\* The answer to a message for us from the station we work.
Answer(w, kind) ==
  CASE kind = "grid" -> [w EXCEPT !.ntx = 2, !.progress = REPORT]
    [] kind = "rpt" -> [w EXCEPT !.ntx = 3, !.progress = ROGER_REPORT]
    [] kind = "Rrpt" -> [w EXCEPT !.ntx = 4, !.progress = ROGERS]
    [] kind \in {"RRR", "RR73"} ->
         [w EXCEPT !.ntx = 5, !.progress = IF @ >= ROGER_REPORT THEN SIGNOFF ELSE @]
    [] kind = "73" /\ w.progress = ROGERS ->
         [w EXCEPT !.ntx = 6, !.logTimer = TRUE, !.progress = SIGNOFF]
    [] OTHER -> w

\* "if we get here then we are reacting to the message"
React(s, w, m) ==
  LET r == [w EXCEPT !.dx = m.from, !.restart = @ \/ Transmitting(s)]
  IN IF r.doubleClicked
     THEN [AutoTxMode(s, r, TRUE) EXCEPT !.doubleClicked = FALSE]
     ELSE r

\* txFirst: we transmit when the other station does not.
ProcessMessage(s, w, m) ==
  LET r == [w EXCEPT !.txFirst = parity]
      forMe == m.to = s
  IN IF w.doubleClicked /\ forMe /\ m.kind = "73" THEN r
     ELSE IF forMe /\ (FromDx(w, m) \/ w.doubleClicked \/ w.progress = CALLING)
     THEN React(s, Answer(r, m.kind), m)
     ELSE IF forMe
     THEN IF Is73(m) THEN r ELSE React(s, [r EXCEPT !.ntx = 2, !.progress = REPORT], m)
     ELSE IF w.auto /\ w.ntx = 3 /\ Is73(m) THEN React(s, r, m)
     ELSE React(s, [r EXCEPT !.ntx = 1, !.progress = REPLYING], m)

\* near: the frequency of m is within the tolerance.  Our partner answers
\* somebody else, or a message of our QSO arrived.
AutoSequence(s, w, m, near) ==
  LET elsewhere == /\ w.progress = REPLYING /\ near
                   /\ m.to \notin {Everyone, s} /\ FromDx(w, m)
      acceptable73 == /\ Is73(m) /\ w.progress >= ROGER_REPORT
                      /\ {m.to, m.from} \cap {s, w.dx} # {}
      ours == (m.to = s /\ FromDx(w, m)) \/ (near /\ acceptable73)
  IN IF w.auto /\ elsewhere THEN OnStopTxButton(s, w)
     ELSE IF w.auto /\ ~w.callingCQ /\ ours THEN ProcessMessage(s, w, m)
     ELSE w

WaitAndReply(s, w, m) ==
  IF setting[s].wait /\ w.dx = m.from /\ m.to = s /\ ~Is73(m) /\ ~w.auto
  THEN [AutoTxMode(s, ProcessMessage(s, [w EXCEPT !.idle = 0, !.doubleClicked = TRUE], m), TRUE)
          EXCEPT !.stopWRTimer = TRUE]
  ELSE w

\* "CQ: First": work the first station that answers our CQ.
CqFirst(s, w, m) ==
  IF setting[s].callFirst /\ w.auto /\ w.callingCQ /\ m.to = s /\ ~w.selected
  THEN ProcessMessage(s, AutoTxMode(s, [w EXCEPT !.doubleClicked = TRUE, !.selected = TRUE],
                                    TRUE), m)
  ELSE w

\* Faulty variant: only RR73 raises the log, not 73.
GenerateRR73(s, w) ==
  LET m == Text(s, w)
      sentFirst73 == m.kind = "RR73" /\ ~w.last73
      g == [w EXCEPT !.restart = FALSE, !.last73 = Is73(m), !.callingCQ = w.ntx = 6,
                     !.logTimer = @ \/ (sentFirst73 /\ w.progress # CALLING)]
  IN IF Is73(m)
     THEN [AutoTxMode(s, g, FALSE) EXCEPT !.ntx = 6, !.progress = CALLING]
     ELSE g

\* The tick that calculates the tones of the selected message.
Generate(s, w) ==
  LET m == Text(s, w)
      sentFirst73 == Is73(m) /\ ~w.last73
      g == [w EXCEPT !.restart = FALSE, !.last73 = Is73(m), !.callingCQ = w.ntx = 6,
                     !.logTimer = @ \/ (sentFirst73 /\ w.progress # CALLING)]
  IN IF Is73(m)
     THEN [AutoTxMode(s, g, FALSE) EXCEPT !.ntx = 6, !.progress = CALLING]
     ELSE g

\* Faulty variant: every transmission starts the Tx watchdog anew.
DisplayAlways(w, m) ==
  [w EXCEPT !.idle = 0, !.msgSent0 = m, !.progress = w.ntx % 6]

\* The rising edge, in the tick that started the transmission of m.
Display(w, m) ==
  [w EXCEPT !.idle = IF m = w.msgSent0 THEN @ ELSE 0, !.msgSent0 = m,
            !.progress = w.ntx % 6]

-----------------------------------------------------------------------------
(* Steps.                                                                  *)

Set(s, w) == st' = [st EXCEPT ![s] = w]

\* guiUpdate starts a transmission.
StartTx(s) ==
  LET m == Text(s, st[s])
  IN /\ st[s].auto /\ st[s].txFirst = parity /\ ~Transmitting(s)
     /\ st[s].ntx # 6 => st[s].dx # NoCall
     /\ Set(s, Display(Generate(s, st[s]), m))
     /\ air' = air \cup {m}
     /\ UNCHANGED <<setting, parity, inbox, shown, acts, history, manual, disturbed>>

\* The message changed during its transmission, if that has not been halted.
Restart(s) ==
  /\ st[s].restart
  /\ Set(s, Generate(s, st[s]))
  /\ air' = IF Transmitting(s) THEN {m \in air : m.from # s} \cup {Text(s, st[s])} ELSE air
  /\ UNCHANGED <<setting, parity, inbox, shown, acts, history, manual, disturbed>>

Reports(m) == m.kind \in {"rpt", "Rrpt"}
Confirms(m) == m.kind \in {"Rrpt", "RRR", "RR73"}

\* History: m is taken notice of.
Hear(s, m) ==
  LET pair == {<<s, m.from>>}
  IN /\ got' = IF m.to = s /\ Reports(m) THEN got \cup pair ELSE got
     /\ confirmed' = IF m.to = s /\ Confirms(m) THEN confirmed \cup pair ELSE confirmed
     /\ news' = IF m.to = s /\ (Reports(m) \/ Confirms(m)) THEN news \cup pair ELSE news
     /\ UNCHANGED logs

\* A message is decoded and displayed.
Decode(s) ==
  \E m \in inbox[s], near \in BOOLEAN :
    /\ Set(s, AutoSequence(s, CqFirst(s, WaitAndReply(s, st[s], m), m), m, near))
    /\ inbox' = [inbox EXCEPT ![s] = @ \ {m}]
    /\ shown' = [shown EXCEPT ![s] = @ \cup {m}]
    /\ Hear(s, m)
    /\ air' = IF st'[s].auto \/ ~st[s].auto THEN air ELSE {n \in air : n.from # s}
    /\ UNCHANGED <<setting, parity, acts, manual, disturbed>>

\* Faulty variant: Enable Tx stays on.
LogQSOAuto(s) ==
  LET pair == <<s, st[s].dx>>
  IN /\ st[s].logTimer
     /\ Set(s, [st[s] EXCEPT !.logTimer = FALSE])
     /\ logs' = [logs EXCEPT ![pair] = @ + 1]
     /\ news' = news \ {pair}
     /\ manual' = manual \ {s}
     /\ UNCHANGED <<setting, parity, air, inbox, shown, acts, got, confirmed, disturbed>>

\* on_logQSOButton_clicked, by the timer; the entry is accepted.
LogQSO(s) ==
  LET pair == <<s, st[s].dx>>
  IN /\ st[s].logTimer
     /\ Set(s, [AutoTxMode(s, st[s], FALSE) EXCEPT !.logTimer = FALSE])
     /\ logs' = [logs EXCEPT ![pair] = @ + 1]
     /\ news' = news \ {pair}
     /\ manual' = manual \ {s}
     /\ UNCHANGED <<setting, parity, air, inbox, shown, acts, got, confirmed, disturbed>>

\* Faulty variant: off by one.
WatchdogDueLate(s) == st[s].auto /\ st[s].idle > Patience

WatchdogDue(s) == st[s].auto /\ st[s].idle = Patience

TxWatchdog(s) ==
  /\ WatchdogDue(s)
  /\ Set(s, AutoTxMode(s, st[s], FALSE))
  /\ air' = {m \in air : m.from # s}
  /\ disturbed' = TRUE
  /\ UNCHANGED <<setting, parity, inbox, shown, acts, history, manual>>

\* Wait & Reply transmits for eight periods at most.
StopWRTimeout(s) ==
  /\ st[s].stopWRTimer
  /\ Set(s, AutoTxMode(s, st[s], FALSE))
  /\ disturbed' = TRUE
  /\ UNCHANGED <<setting, parity, air, inbox, shown, acts, history, manual>>

\* The timers of 0 ms and the next ticks come before the next period.
NextPeriod ==
  /\ \A s \in Stations : ~st[s].restart /\ ~st[s].logTimer /\ ~WatchdogDue(s)
  /\ parity' = 1 - parity
  /\ inbox' = [s \in Stations |-> IF Transmitting(s) THEN {} ELSE air]
  /\ shown' = [s \in Stations |-> {}]
  /\ air' = {}
  /\ st' = [s \in Stations |->
              [st[s] EXCEPT !.selected = FALSE, !.idle = IF st[s].auto THEN @ + 1 ELSE 0]]
  /\ disturbed' = (disturbed \/ \E s \in Stations :
                     \/ inbox[s] # {}
                     \/ st[s].auto /\ st[s].txFirst = parity /\ ~Transmitting(s)
                     \/ Transmitting(s) /\ \E m \in air : m.from # s)
  /\ UNCHANGED <<setting, acts, history, manual>>

\* An operator does something: the Tx watchdog starts anew.
Act(s, w, interferes) ==
  /\ acts[s] < MaxActs[s]
  /\ acts' = [acts EXCEPT ![s] = @ + 1]
  /\ ~st[s].logTimer
  /\ Set(s, [w EXCEPT !.idle = 0])
  /\ manual' = manual \cup {s}
  /\ disturbed' = (disturbed \/ interferes)
  /\ UNCHANGED <<setting, parity, inbox, shown>>

EnableTx(s) == /\ ~st[s].auto
               /\ Act(s, AutoTxMode(s, st[s], TRUE), FALSE)
               /\ UNCHANGED <<air, history>>

StopTx(s) == /\ st[s].auto \/ Transmitting(s)
             /\ Act(s, OnStopTxButton(s, st[s]), TRUE)
             /\ air' = {m \in air : m.from # s}
             /\ UNCHANGED history

\* A decoded message is double-clicked.
DoubleClick(s) ==
  \E m \in shown[s] :
    /\ Act(s, ProcessMessage(s, [st[s] EXCEPT !.doubleClicked = TRUE], m), st[s].auto)
    /\ Hear(s, m)
    /\ UNCHANGED air

Init ==
  /\ setting \in [Stations -> Settings]
  /\ \E first \in [Stations -> TxFirst] :
       st = [s \in Stations |->
              [auto |-> FALSE, ntx |-> 6, progress |-> CALLING, dx |-> NoCall,
               txFirst |-> first[s], callingCQ |-> FALSE, doubleClicked |-> FALSE,
               selected |-> FALSE, restart |-> FALSE, logTimer |-> FALSE,
               stopWRTimer |-> FALSE, idle |-> 0, last73 |-> FALSE,
               msgSent0 |-> NoMessage]]
  /\ parity = 0
  /\ air = {}
  /\ inbox = [s \in Stations |-> {}] /\ shown = [s \in Stations |-> {}]
  /\ acts = [s \in Stations |-> 0]
  /\ got = {} /\ confirmed = {} /\ news = {}
  /\ logs = [pair \in Q!Pairs |-> 0]
  /\ manual = {} /\ disturbed = FALSE

Next ==
  \/ NextPeriod
  \/ \E s \in Stations :
       \/ StartTx(s) \/ Restart(s) \/ Decode(s)
       \/ LogQSO(s) \/ TxWatchdog(s) \/ StopWRTimeout(s)
       \/ EnableTx(s) \/ StopTx(s) \/ DoubleClick(s)

Spec == Init /\ [][Next]_vars

\* Time passes, ticks and timers of 0 ms happen; nothing is assumed of the
\* channel and of the operators.
Fairness ==
  /\ WF_vars(NextPeriod)
  /\ \A s \in Stations : /\ WF_vars(Restart(s)) /\ WF_vars(LogQSO(s))
                         /\ WF_vars(TxWatchdog(s))

FairSpec == Spec /\ Fairness

-----------------------------------------------------------------------------
(* Properties.                                                             *)

\* The variables have the values their declarations in MainWindow allow.
TypeOK ==
  /\ setting \in [Stations -> Settings]
  /\ st \in [Stations -> Window]
  /\ parity \in {0, 1}
  /\ air \subseteq Message
  /\ inbox \in [Stations -> SUBSET Message] /\ shown \in [Stations -> SUBSET Message]
  /\ acts \in [Stations -> Nat]
  /\ manual \subseteq Stations /\ disturbed \in BOOLEAN

\* A station enters another in its log only when both have each other's
\* report and it has the other's confirmation, and again only after a new
\* exchange: whatever is lost, repeated, clicked or timed out.
ImplementsQso == Q!QsoSpec

\* "WSJT-X will not make consecutive, fully automated QSOs": without the Wait
\* features, an operator acts between two log entries of a station.
NoConsecutiveQsos ==
  [][\A s \in Stations :
       ~setting[s].wait /\ (\E p \in Stations \ {s} : logs'[<<s, p>>] # logs[<<s, p>>])
         => s \in manual]_vars

\* However many messages are lost, all transmissions end by themselves.
NoEndlessQso == <>[](\A s \in Stations : ~st[s].auto)

\* When one station has logged the other, the other logs it too, unless a
\* message was lost, a watchdog or an operator ended a transmission, or an
\* operator interfered with a running sequence.
PartnerLogs ==
  \A s, p \in Stations : s # p =>
    (logs[<<s, p>>] > 0 ~> (logs[<<p, s>>] > 0 \/ disturbed))

\* "raises the confirmation screen automatically when you send a message
\* containing 73": it does so for a station that has not been logged and with
\* which reports and confirmations were exchanged.
SigningOffLogs ==
  [][\A s \in Stations : \A m \in air' \ air :
       m.from = s /\ Is73(m) /\ <<s, m.to>> \in got \cap confirmed /\ logs[<<s, m.to>>] = 0
         => st'[s].logTimer]_vars

=============================================================================
