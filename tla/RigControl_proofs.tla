------------------------- MODULE RigControl_proofs -------------------------
(***************************************************************************)
(* For every number of objects, commands, faults and so on: the type       *)
(* invariant and the safety invariants of RigControl, that it implements   *)
(* RigLink, and that the polls hide a misread dial frequency.              *)
(*                                                                         *)
(* The inductive invariant has a part that is about the GUI side only: a   *)
(* Configuration u, a queue q of events and the objects ob.  It is stated  *)
(* with these as parameters, because one GUI action posts up to three      *)
(* events in a row and passes through intermediate configurations.         *)
(***************************************************************************)
EXTENDS RigControl, Transceiver_proofs, SequenceTheorems

-----------------------------------------------------------------------------
(* The inductive invariant.                                                *)

\* The commands in the queue are numbered in the order they were posted, up
\* to the last number issued, and their receivers have not got that far.
CommandsInOrder(u, q, ob) ==
  \A l \in 1..Len(q) :
     Command(q[l]) =>
        /\ q[l].seq <= u.cmd
        /\ \A i \in q[l].to : ob[i].seq < q[l].seq
        /\ \A k \in 1..Len(q) : k < l /\ Command(q[k]) => q[k].seq < q[l].seq

\* Nothing refers to an object that has not been created.
ObjectsCreated(u, q, ob) ==
  /\ \A i \in Objects : ob[i].seq <= u.cmd
  /\ \A i \in u.conns : i <= u.created
  /\ \A l \in 1..Len(q) : \A i \in q[l].to : i <= u.created
  /\ \A i \in Objects :
        u.created < i => /\ ob[i].seq = 0
                         /\ ob[i].life # "live"
                         /\ ~ob[i].requested.online

\* An object gets no event after its stop, and none beside its deletion; it
\* is disconnected by then.
StopIsLast(u, q, ob) ==
  /\ \A i \in u.conns : ob[i].life = "live"
  /\ \A l \in 1..Len(q) : \A i \in q[l].to :
        /\ ob[i].life = "live"
        /\ q[l].op \in {"stop", "delete"} =>
              /\ i \notin u.conns
              /\ \A k \in 1..Len(q) : l < k => i \notin q[k].to
        /\ q[l].op = "delete" =>
              \A k \in 1..Len(q) : k < l => i \notin q[k].to

QueueInv(u, q, ob) ==
  /\ u \in Configuration
  /\ q \in Seq(Event)
  /\ ob \in [Objects -> Object]
  /\ CommandsInOrder(u, q, ob)
  /\ ObjectsCreated(u, q, ob)
  /\ StopIsLast(u, q, ob)

\* No signal is ahead of the object that sends it.
Behind(s, ob) ==
  \A k \in 1..Len(s) : s[k].from \in Objects /\ s[k].seq <= ob[s[k].from].seq

SignalsBehind == Behind(toUI, obj) /\ Behind(emitting, obj)

IInv ==
  /\ TypeOK
  /\ QueueInv(ui, toRig, obj)
  /\ SignalsBehind
  /\ NoOrphanPtt

-----------------------------------------------------------------------------
(* The GUI side.                                                           *)

LEMMA QueueTypes ==
  ASSUME NEW q \in Seq(Event)
  PROVE  /\ Len(q) \in Nat
         /\ \A l \in 1..Len(q) : /\ q[l] \in Event /\ q[l].seq \in Nat
                                 /\ q[l].to \subseteq Objects
  <1>1. \A l \in 1..Len(q) : q[l] \in Event
    OBVIOUS
  <1> QED
    BY <1>1 DEF Event

LEMMA PostType ==
  ASSUME NEW op \in {"set", "start", "stop"}, NEW u \in Configuration,
         NEW state \in TransceiverState
  PROVE  Post(op, u, state) \in Seq(Event)
  <1> DEFINE e == [op |-> op, to |-> u.conns, state |-> state, seq |-> u.cmd]
  <1>1. e \in Event
    BY DEF Event, Configuration
  <1>2. Post(op, u, state) = IF u.conns = {} THEN <<>> ELSE <<e>>
    BY DEF Post
  <1> HIDE DEF e
  <1> QED
    BY <1>1, <1>2

LEMMA CreatedObject ==
  ASSUME NEW mode \in SplitModes
  PROVE  /\ NewObject(mode) \in Object
         /\ NewObject(mode).seq = 0 /\ NewObject(mode).life = "live"
         /\ ~NewObject(mode).requested.online
  BY ConstAssumption, OfflineType DEF NewObject, Object, Offline

\* Appending an event that is neither a command nor a deletion, to receivers
\* that get disconnected with it.
LEMMA ClosePosts ==
  ASSUME NEW u, NEW q, NEW ob, QueueInv(u, q, ob)
  PROVE  QueueInv(CloseRig(u), q \o CloseEvents(u), ob)
  <1> DEFINE v == [u EXCEPT !.active = FALSE, !.conns = {}]
             e == [op |-> "stop", to |-> u.conns, state |-> Offline, seq |-> u.cmd]
  <1> USE DEF QueueInv
  <1>1. CASE ~u.active
    <2>1. CloseRig(u) = u /\ CloseEvents(u) = <<>>
      BY <1>1 DEF CloseRig, CloseEvents
    <2>2. q \o <<>> = q
      OBVIOUS
    <2> QED
      BY <2>1, <2>2
  <1>2. CASE u.active
    <2>1. /\ v \in Configuration /\ v.cmd = u.cmd /\ v.created = u.created
          /\ v.conns = {}
      BY DEF Configuration
    <2>2. CloseRig(u) = v
      BY <1>2 DEF CloseRig
    <2> HIDE DEF v
    <2>3. CASE u.conns = {}
      <3>1. CloseEvents(u) = <<>> /\ q \o <<>> = q
        BY <1>2, <2>3 DEF CloseEvents, Post
      <3> QED
        BY <2>1, <2>2, <3>1 DEF CommandsInOrder, ObjectsCreated, StopIsLast
    <2>4. CASE u.conns # {}
      <3>1. e \in Event
        BY OfflineType DEF Event, Configuration
      <3>2. e.to = u.conns /\ e.op = "stop"
        OBVIOUS
      <3>3. q \o CloseEvents(u) = Append(q, e)
        BY <1>2, <2>4 DEF CloseEvents, Post
      <3> HIDE DEF e
      <3> DEFINE r == Append(q, e)
      <3>4. /\ r \in Seq(Event) /\ Len(r) = Len(q) + 1
            /\ \A l \in 1..Len(q) : r[l] = q[l]
            /\ r[Len(q) + 1] = e
        BY <3>1
      <3> HIDE DEF r
      <3>5. CommandsInOrder(v, r, ob)
        BY <2>1, <3>2, <3>4, SMTT(20) DEF CommandsInOrder, Command
      <3>6. ObjectsCreated(v, r, ob)
        BY <2>1, <3>2, <3>4 DEF ObjectsCreated
      <3>7. StopIsLast(v, r, ob)
        BY <2>1, <3>2, <3>4 DEF StopIsLast
      <3> QED
        BY <2>1, <2>2, <3>3, <3>4, <3>5, <3>6, <3>7 DEF r
    <2> QED
      BY <2>3, <2>4
  <1> QED
    BY <1>1, <1>2 DEF Configuration

\* Posting one command: u becomes v, whose number is the next one and which
\* is connected to the receivers of the event.
LEMMA CommandPosts ==
  ASSUME NEW u, NEW q, NEW ob, QueueInv(u, q, ob),
         NEW v \in Configuration, v.cmd = u.cmd + 1, v.created = u.created,
         v.conns = u.conns, NEW op \in {"set", "start"},
         NEW state \in TransceiverState
  PROVE  QueueInv(v, q \o Post(op, v, state), ob)
  <1> DEFINE e == [op |-> op, to |-> v.conns, state |-> state, seq |-> v.cmd]
  <1> USE DEF QueueInv
  <1>1. CASE v.conns = {}
    <2>1. Post(op, v, state) = <<>> /\ q \o <<>> = q
      BY <1>1 DEF Post
    <2>2. u.cmd \in Nat
      BY DEF Configuration
    <2>3. CommandsInOrder(v, q, ob)
      BY <2>2, QueueTypes DEF CommandsInOrder
    <2>4. ObjectsCreated(v, q, ob)
      BY <2>2 DEF ObjectsCreated, Object
    <2>5. StopIsLast(v, q, ob)
      BY DEF StopIsLast
    <2> QED
      BY <2>1, <2>3, <2>4, <2>5
  <1>2. CASE v.conns # {}
    <2>1. e \in Event
      BY DEF Event, Configuration
    <2>2. /\ e.to = u.conns /\ e.op = op /\ e.seq = u.cmd + 1
      OBVIOUS
    <2>3. q \o Post(op, v, state) = Append(q, e)
      BY <1>2 DEF Post
    <2> HIDE DEF e
    <2> DEFINE r == Append(q, e)
    <2>4. /\ r \in Seq(Event) /\ Len(r) = Len(q) + 1
          /\ \A l \in 1..Len(q) : r[l] = q[l] /\ q[l] \in Event
          /\ r[Len(q) + 1] = e
      BY <2>1
    <2> HIDE DEF r
    <2>5. /\ u.cmd \in Nat /\ u.conns \subseteq Objects
          /\ \A l \in 1..Len(q) : q[l].seq \in Nat
          /\ \A i \in Objects : ob[i].seq \in Nat
      BY <2>4 DEF Configuration, Event, Object
    <2>6. CommandsInOrder(v, r, ob)
      <3> SUFFICES ASSUME NEW l \in 1..Len(r), Command(r[l])
                   PROVE  /\ r[l].seq <= v.cmd
                          /\ \A i \in r[l].to : ob[i].seq < r[l].seq
                          /\ \A k \in 1..Len(r) :
                               k < l /\ Command(r[k]) => r[k].seq < r[l].seq
        BY DEF CommandsInOrder
      <3>1. CASE l \in 1..Len(q)
        <4>1. r[l] = q[l] /\ q[l].seq <= v.cmd
          BY <2>4, <2>5, <3>1 DEF CommandsInOrder
        <4>2. \A k \in 1..Len(r) : k < l => k \in 1..Len(q)
          BY <2>4, <3>1
        <4> QED
          BY <2>4, <3>1, <4>1, <4>2 DEF CommandsInOrder
      <3>2. CASE l = Len(q) + 1
        <4>1. r[l] = e
          BY <2>4, <3>2
        <4>2. \A i \in r[l].to : ob[i].seq < r[l].seq
          BY <2>2, <2>5, <4>1 DEF ObjectsCreated
        <4>3. ASSUME NEW k \in 1..Len(r), k < l, Command(r[k])
              PROVE  r[k].seq < r[l].seq
          BY <2>2, <2>4, <2>5, <3>2, <4>1, <4>3, SMTT(20) DEF CommandsInOrder
        <4> QED
          BY <2>2, <2>5, <4>1, <4>2, <4>3
      <3> QED
        BY <2>4, <3>1, <3>2
    <2>7. ObjectsCreated(v, r, ob)
      BY <2>2, <2>4, <2>5 DEF ObjectsCreated
    <2>8. StopIsLast(v, r, ob)
      <3>1. e.op \notin {"stop", "delete"}
        BY <2>2
      <3> QED
        BY <2>2, <2>4, <3>1, SMTT(20) DEF StopIsLast
    <2> QED
      BY <2>3, <2>4, <2>6, <2>7, <2>8 DEF r
  <1> QED
    BY <1>1, <1>2

LEMMA RequestPosts ==
  ASSUME NEW u, NEW q, NEW ob, QueueInv(u, q, ob), NEW state \in TransceiverState
  PROVE  QueueInv(Requesting(u, state), q \o RequestEvents(u, state), ob)
  <1> DEFINE v == Requesting(u, state)
             s == [state EXCEPT !.online = TRUE]
  <1>1. s \in TransceiverState
    BY DEF TransceiverState
  <1>2. v = [u EXCEPT !.cached = s, !.cmd = @ + 1]
    BY DEF Requesting
  <1> HIDE DEF s
  <1>3. /\ v \in Configuration /\ v.cmd = u.cmd + 1 /\ v.created = u.created
        /\ v.conns = u.conns /\ v.cached \in TransceiverState
    <2>1. u \in Configuration
      BY DEF QueueInv
    <2>2. u.cmd + 1 \in Nat
      BY <2>1 DEF Configuration
    <2> DEFINE n == u.cmd + 1
               w == [u EXCEPT !.cached = s, !.cmd = n]
    <2>3. v = w
      BY <1>2
    <2> HIDE DEF n, v
    <2>4. w \in Configuration /\ w.cmd = n /\ w.created = u.created
          /\ w.conns = u.conns /\ w.cached = s
      BY <1>1, <2>1, <2>2 DEF Configuration, n
    <2> QED
      BY <1>1, <2>3, <2>4 DEF n
  <1>4. RequestEvents(u, state) = Post("set", v, v.cached)
    BY DEF RequestEvents
  <1> HIDE DEF v
  <1>5. QueueInv(v, q \o Post("set", v, v.cached), ob)
    BY <1>3, CommandPosts
  <1> QED
    BY <1>4, <1>5 DEF v

\* A new object, connected before anything is posted to it.
LEMMA ConnectKeeps ==
  ASSUME NEW u, NEW q, NEW ob, QueueInv(u, q, ob), u.created < MaxObjects,
         NEW v \in Configuration, v.cmd = u.cmd, v.created = u.created + 1,
         v.conns = u.conns \cup {u.created + 1}
  PROVE  QueueInv(v, q, [ob EXCEPT ![u.created + 1] = NewObject(u.splitMode)])
  <1> DEFINE x == u.created + 1
             o == NewObject(u.splitMode)
             oc == [ob EXCEPT ![x] = o]
  <1> USE DEF QueueInv
  <1>1. u.created \in Nat /\ x \in Objects /\ u.splitMode \in SplitModes
    BY BoundAssumption DEF Configuration, Objects
  <1>2. /\ o \in Object /\ o.seq = 0 /\ o.life = "live"
        /\ ~o.requested.online
    BY <1>1, CreatedObject
  <1> HIDE DEF o
  <1>3. /\ oc \in [Objects -> Object] /\ oc[x] = o
        /\ \A i \in Objects : i # x => oc[i] = ob[i]
    BY <1>1, <1>2
  <1> HIDE DEF oc
  <1>4. \A l \in 1..Len(q) : q[l].to \subseteq Objects
    BY QueueTypes
  <1>5. \A l \in 1..Len(q) : x \notin q[l].to
    BY <1>1 DEF ObjectsCreated
  <1>6. CommandsInOrder(v, q, oc)
    BY <1>3, <1>4, <1>5 DEF CommandsInOrder
  <1>7. ObjectsCreated(v, q, oc)
    <2>1. u.cmd \in Nat
      BY DEF Configuration
    <2>2. \A i \in Objects : oc[i].seq <= v.cmd
      BY <1>2, <1>3, <2>1 DEF ObjectsCreated
    <2>3. \A i \in Objects : i \in Nat
      BY BoundAssumption DEF Objects
    <2>4. \A i \in v.conns : i <= v.created
      BY <1>1, <2>3 DEF ObjectsCreated, Configuration
    <2>5. \A l \in 1..Len(q) : \A i \in q[l].to : i <= v.created
      BY <1>1, <1>4, <2>3 DEF ObjectsCreated
    <2>6. \A i \in Objects :
            v.created < i => /\ oc[i].seq = 0
                             /\ oc[i].life # "live"
                             /\ ~oc[i].requested.online
      BY <1>1, <1>3, <2>3 DEF ObjectsCreated
    <2> QED
      BY <2>2, <2>4, <2>5, <2>6 DEF ObjectsCreated
  <1>8. StopIsLast(v, q, oc)
    <2>1. v.conns \subseteq Objects /\ x \notin u.conns
      BY <1>1 DEF Configuration, ObjectsCreated
    <2> QED
      BY <1>2, <1>3, <1>4, <1>5, <2>1 DEF StopIsLast
  <1> QED
    BY <1>3, <1>6, <1>7, <1>8 DEF oc, o

LEMMA OpenPosts ==
  ASSUME NEW u, NEW q, NEW ob, QueueInv(u, q, ob), CanOpen(u)
  PROVE  QueueInv(OpenRig(u), q \o OpenEvents(u),
                  [ob EXCEPT ![u.created + 1] = NewObject(u.splitMode)])
  <1> DEFINE c == CloseRig(u)
             r == q \o CloseEvents(u)
             v == OpenRig(u)
             w == [v EXCEPT !.cmd = u.cmd]
             oc == [ob EXCEPT ![u.created + 1] = NewObject(u.splitMode)]
  <1>1. u \in Configuration /\ u.created < MaxObjects
    BY DEF QueueInv, CanOpen
  <1>2. /\ c \in Configuration /\ c.cmd = u.cmd /\ c.created = u.created
        /\ c.splitMode = u.splitMode
    BY <1>1 DEF CloseRig, Configuration
  <1>3. QueueInv(c, r, ob)
    BY ClosePosts
  <1> HIDE DEF c
  <1>4. /\ v \in Configuration /\ v.cmd = c.cmd + 1
        /\ v.created = c.created + 1 /\ v.conns = c.conns \cup {c.created + 1}
    <2>1. v = [c EXCEPT !.active = TRUE, !.cmd = @ + 1, !.cached = Offline,
                        !.created = @ + 1, !.conns = @ \cup {u.created + 1}]
      BY DEF OpenRig, c
    <2> HIDE DEF v
    <2> DEFINE n == c.cmd + 1
               m == c.created + 1
               s == c.conns \cup {m}
               x == [c EXCEPT !.active = TRUE, !.cmd = n, !.cached = Offline,
                              !.created = m, !.conns = s]
    <2>2. /\ n \in Nat /\ m \in 0..MaxObjects /\ m \in Objects
      BY <1>1, <1>2, BoundAssumption DEF Configuration, Objects
    <2>3. s \in SUBSET Objects
      BY <1>2, <2>2 DEF Configuration
    <2>4. v = x
      BY <1>2, <2>1
    <2> HIDE DEF n, m, s
    <2>5. x \in Configuration /\ x.cmd = n /\ x.created = m /\ x.conns = s
      BY <1>2, <2>2, <2>3, OfflineType DEF Configuration
    <2> QED
      BY <2>4, <2>5 DEF n, m, s
  <1>5. /\ w \in Configuration /\ w.cmd = c.cmd /\ w.created = v.created
        /\ w.conns = v.conns
    <2> HIDE DEF v
    <2> QED
      BY <1>1, <1>2, <1>4 DEF Configuration
  <1>6. OpenEvents(u) = CloseEvents(u) \o Post("start", v, Offline)
    BY DEF OpenEvents
  <1> HIDE DEF v, w, r, oc
  <1>7. QueueInv(w, r, oc)
    BY <1>1, <1>2, <1>3, <1>4, <1>5, ConnectKeeps DEF oc
  <1>8. QueueInv(v, r \o Post("start", v, Offline), oc)
    BY <1>2, <1>4, <1>5, <1>7, CommandPosts, OfflineType
  <1>9. r \o Post("start", v, Offline) = q \o OpenEvents(u)
    <2>1. q \in Seq(Event)
      BY DEF QueueInv
    <2>2. CloseEvents(u) \in Seq(Event)
      BY <1>1, OfflineType, PostType DEF CloseEvents
    <2>3. Post("start", v, Offline) \in Seq(Event)
      BY <1>4, OfflineType, PostType
    <2> QED
      BY <1>6, <2>1, <2>2, <2>3, ConcatAssociative DEF r
  <1> QED
    BY <1>8, <1>9 DEF v, oc

-----------------------------------------------------------------------------
(* The thread side.                                                        *)

LEMMA TailKeeps ==
  ASSUME NEW u, NEW q, NEW ob, QueueInv(u, q, ob), q # <<>>
  PROVE  QueueInv(u, Tail(q), ob)
  <1> DEFINE r == Tail(q)
  <1> USE DEF QueueInv
  <1>1. /\ r \in Seq(Event) /\ Len(q) = Len(r) + 1 /\ Len(r) \in Nat
        /\ \A l \in 1..Len(r) : r[l] = q[l + 1] /\ l + 1 \in 1..Len(q)
    OBVIOUS
  <1> HIDE DEF r
  <1>2. CommandsInOrder(u, r, ob)
    <2> SUFFICES ASSUME NEW l \in 1..Len(r), Command(r[l])
                 PROVE  /\ r[l].seq <= u.cmd
                        /\ \A i \in r[l].to : ob[i].seq < r[l].seq
                        /\ \A k \in 1..Len(r) :
                             k < l /\ Command(r[k]) => r[k].seq < r[l].seq
      BY DEF CommandsInOrder
    <2>1. l + 1 \in 1..Len(q) /\ r[l] = q[l + 1]
      BY <1>1
    <2>2. ASSUME NEW k \in 1..Len(r), k < l, Command(r[k])
          PROVE  r[k].seq < r[l].seq
      <3>1. k + 1 \in 1..Len(q) /\ r[k] = q[k + 1] /\ k + 1 < l + 1
        BY <1>1, <2>2
      <3> QED
        BY <2>1, <2>2, <3>1 DEF CommandsInOrder
    <2> QED
      BY <2>1, <2>2 DEF CommandsInOrder
  <1>3. ObjectsCreated(u, r, ob)
    BY <1>1 DEF ObjectsCreated
  <1>4. StopIsLast(u, r, ob)
    <2> SUFFICES ASSUME NEW l \in 1..Len(r), NEW i \in r[l].to
                 PROVE  /\ ob[i].life = "live"
                        /\ r[l].op \in {"stop", "delete"} =>
                             /\ i \notin u.conns
                             /\ \A k \in 1..Len(r) : l < k => i \notin r[k].to
                        /\ r[l].op = "delete" =>
                             \A k \in 1..Len(r) : k < l => i \notin r[k].to
      BY DEF StopIsLast
    <2>1. l + 1 \in 1..Len(q) /\ r[l] = q[l + 1]
      BY <1>1
    <2>2. \A k \in 1..Len(r) : /\ k + 1 \in 1..Len(q) /\ r[k] = q[k + 1]
                               /\ l < k => l + 1 < k + 1
                               /\ k < l => k + 1 < l + 1
      BY <1>1
    <2> QED
      BY <2>1, <2>2 DEF StopIsLast
  <1> QED
    BY <1>1, <1>2, <1>3, <1>4 DEF r

\* Fewer receivers for the event at the head.
LEMMA ShrinkKeeps ==
  ASSUME NEW u, NEW q, NEW ob, QueueInv(u, q, ob), q # <<>>,
         NEW to, to \subseteq Head(q).to
  PROVE  LET r == [q EXCEPT ![1] = [Head(q) EXCEPT !.to = to]] IN
         /\ QueueInv(u, r, ob)
         /\ Len(r) = Len(q)
         /\ r[1].to = to /\ r[1].op = Head(q).op /\ r[1].seq = Head(q).seq
         /\ \A l \in 1..Len(q) : l # 1 => r[l] = q[l]
  <1> DEFINE e == [Head(q) EXCEPT !.to = to]
             r == [q EXCEPT ![1] = e]
  <1> USE DEF QueueInv
  <1>1. /\ Len(q) \in Nat /\ 1 \in 1..Len(q) /\ Head(q) = q[1]
        /\ q[1] \in Event
    OBVIOUS
  <1>2. e \in Event /\ e.to = to /\ e.op = q[1].op /\ e.seq = q[1].seq
    BY <1>1 DEF Event
  <1> HIDE DEF e
  <1>3. r \in Seq(Event) /\ Len(r) = Len(q)
    BY <1>1, <1>2, ExceptSeq
  <1>4. r[1] = e /\ \A l \in 1..Len(q) : l # 1 => r[l] = q[l]
    BY <1>1
  <1> HIDE DEF r
  <1>5. \A l \in 1..Len(q) : /\ r[l].op = q[l].op /\ r[l].seq = q[l].seq
                             /\ r[l].to \subseteq q[l].to
    BY <1>1, <1>2, <1>4
  <1>6. CommandsInOrder(u, r, ob)
    BY <1>3, <1>5 DEF CommandsInOrder, Command
  <1>7. ObjectsCreated(u, r, ob)
    BY <1>3, <1>5 DEF ObjectsCreated
  <1>8. StopIsLast(u, r, ob)
    BY <1>3, <1>5, SMTT(20) DEF StopIsLast
  <1> QED
    BY <1>1, <1>2, <1>3, <1>4, <1>6, <1>7, <1>8 DEF r, e

\* An object moves on to command n, which no pending command precedes.
LEMMA ObjectKeeps ==
  ASSUME NEW u, NEW q, NEW ob, QueueInv(u, q, ob), NEW i \in Objects,
         i <= u.created, NEW o \in Object, o.life = ob[i].life,
         o.seq <= u.cmd,
         \A l \in 1..Len(q) : Command(q[l]) /\ i \in q[l].to => o.seq < q[l].seq
  PROVE  QueueInv(u, q, [ob EXCEPT ![i] = o])
  <1> DEFINE oc == [ob EXCEPT ![i] = o]
  <1> USE DEF QueueInv
  <1>1. /\ oc \in [Objects -> Object] /\ oc[i] = o
        /\ \A j \in Objects : j # i => oc[j] = ob[j]
    OBVIOUS
  <1> HIDE DEF oc
  <1>2. /\ \A l \in 1..Len(q) : q[l].to \subseteq Objects
        /\ u.conns \subseteq Objects
    BY QueueTypes DEF Configuration
  <1>3. CommandsInOrder(u, q, oc)
    BY <1>1, <1>2 DEF CommandsInOrder
  <1>4. ObjectsCreated(u, q, oc)
    <2>1. i \in Nat /\ u.created \in Nat
      BY BoundAssumption DEF Objects, Configuration
    <2>2. ~(u.created < i)
      BY <2>1
    <2> QED
      BY <1>1, <2>2 DEF ObjectsCreated
  <1>5. StopIsLast(u, q, oc)
    BY <1>1, <1>2 DEF StopIsLast
  <1> QED
    BY <1>1, <1>3, <1>4, <1>5 DEF oc

\* Receiver i has handled the event at the head and has become o.
LEMMA RestKeeps ==
  ASSUME QueueInv(ui, toRig, obj), toRig # <<>>, NEW i \in Head(toRig).to,
         NEW o \in Object, o.life = obj[i].life,
         o.seq = IF Command(Head(toRig)) THEN Head(toRig).seq ELSE obj[i].seq
  PROVE  LET r == Rest(Head(toRig), i) IN
         /\ QueueInv(ui, r, [obj EXCEPT ![i] = o])
         /\ Head(toRig).op = "stop" =>
              /\ i \notin ui.conns
              /\ \A l \in 1..Len(r) : i \notin r[l].to
  <1> DEFINE m == Head(toRig)
             r == Rest(m, i)
             t == Tail(toRig)
             s == [toRig EXCEPT ![1] = [m EXCEPT !.to = @ \ {i}]]
  <1>1. /\ toRig \in Seq(Event) /\ Len(toRig) \in Nat /\ 1 \in 1..Len(toRig)
        /\ m = toRig[1] /\ i \in Objects
    <2>1. toRig \in Seq(Event)
      BY DEF QueueInv
    <2>2. 1 \in 1..Len(toRig) /\ m = toRig[1]
      BY <2>1
    <2> QED
      BY <2>1, <2>2, QueueTypes
  <1>2. /\ t \in Seq(Event) /\ Len(toRig) = Len(t) + 1 /\ Len(t) \in Nat
        /\ \A l \in 1..Len(t) : t[l] = toRig[l + 1]
    BY <1>1
  <1>3. QueueInv(ui, t, obj)
    BY TailKeeps
  <1>4. /\ QueueInv(ui, s, obj) /\ Len(s) = Len(toRig)
        /\ s[1].to = m.to \ {i} /\ s[1].op = m.op /\ s[1].seq = m.seq
        /\ \A l \in 1..Len(toRig) : l # 1 => s[l] = toRig[l]
    BY ShrinkKeeps, SMTT(20)
  <1>5. r = t \/ r = s
    BY DEF Rest
  <1> HIDE DEF t, s, r, m
  <1>6. \A l \in 1..Len(toRig) : 1 < l /\ i \in toRig[l].to =>
           /\ m.op # "stop"
           /\ Command(toRig[l]) => o.seq < toRig[l].seq
    <2> SUFFICES ASSUME NEW l \in 1..Len(toRig), 1 < l, i \in toRig[l].to
                 PROVE  /\ m.op # "stop"
                        /\ Command(toRig[l]) => o.seq < toRig[l].seq
      OBVIOUS
    <2>1. m.op # "stop"
      BY <1>1 DEF QueueInv, StopIsLast, m
    <2>2. Command(toRig[l]) => o.seq < toRig[l].seq
      BY <1>1 DEF QueueInv, CommandsInOrder, m
    <2> QED
      BY <2>1, <2>2
  <1>7. \A l \in 1..Len(r) : i \in r[l].to =>
           /\ m.op # "stop"
           /\ Command(r[l]) => o.seq < r[l].seq
    <2>1. CASE r = t
      <3>1. \A l \in 1..Len(t) : l + 1 \in 1..Len(toRig) /\ 1 < l + 1
        BY <1>2
      <3> QED
        BY <1>2, <1>6, <2>1, <3>1
    <2>2. CASE r = s
      <3>1. i \notin s[1].to
        BY <1>4
      <3>2. \A l \in 1..Len(s) : i \in s[l].to => 1 < l /\ s[l] = toRig[l]
        BY <1>1, <1>4, <3>1
      <3> QED
        BY <1>4, <1>6, <2>2, <3>2
    <2> QED
      BY <1>5, <2>1, <2>2
  <1>8. o.seq <= ui.cmd /\ i <= ui.created
    <2>1. obj[i].seq <= ui.cmd /\ i <= ui.created
      BY <1>1 DEF QueueInv, ObjectsCreated, m
    <2>2. Command(m) => m.seq <= ui.cmd
      BY <1>1 DEF QueueInv, CommandsInOrder
    <2> QED
      BY <2>1, <2>2 DEF m
  <1>9. QueueInv(ui, r, [obj EXCEPT ![i] = o])
    BY <1>1, <1>3, <1>4, <1>5, <1>7, <1>8, ObjectKeeps
  <1>10. m.op = "stop" => i \notin ui.conns
    BY <1>1 DEF QueueInv, StopIsLast, m
  <1> QED
    BY <1>7, <1>9, <1>10 DEF r, m

\* The deferred deletion of an object that nothing is posted to any more.
LEMMA DeletionPosts ==
  ASSUME NEW u, NEW q, NEW ob, QueueInv(u, q, ob), NEW i \in Objects,
         i <= u.created, i \notin u.conns, ob[i].life = "live",
         \A l \in 1..Len(q) : i \notin q[l].to
  PROVE  QueueInv(u, Append(q, [op |-> "delete", to |-> {i},
                                state |-> Offline, seq |-> 0]), ob)
  <1> DEFINE e == [op |-> "delete", to |-> {i}, state |-> Offline, seq |-> 0]
             r == Append(q, e)
  <1> USE DEF QueueInv
  <1>1. e \in Event
    BY OfflineType DEF Event
  <1>2. e.to = {i} /\ e.op = "delete"
    OBVIOUS
  <1> HIDE DEF e
  <1>3. /\ r \in Seq(Event) /\ Len(q) \in Nat /\ Len(r) = Len(q) + 1
        /\ \A l \in 1..Len(q) : r[l] = q[l]
        /\ r[Len(q) + 1] = e
    BY <1>1
  <1> HIDE DEF r
  <1>4. CommandsInOrder(u, r, ob)
    BY <1>2, <1>3 DEF CommandsInOrder, Command
  <1>5. ObjectsCreated(u, r, ob)
    BY <1>2, <1>3 DEF ObjectsCreated
  <1>6. StopIsLast(u, r, ob)
    BY <1>2, <1>3 DEF StopIsLast
  <1> QED
    BY <1>3, <1>4, <1>5, <1>6 DEF r, e

LEMMA DeletionKeeps ==
  ASSUME QueueInv(ui, toRig, obj), HandleDelete
  PROVE  /\ QueueInv(ui, toRig', obj')
         /\ \A i \in Objects : /\ obj'[i] \in Object
                               /\ obj'[i].seq = obj[i].seq
                               /\ obj'[i].requested = obj[i].requested
  <1> DEFINE m == Head(toRig)
             t == Tail(toRig)
  <1> USE DEF QueueInv
  <1>1. /\ toRig # <<>> /\ m.op = "delete" /\ toRig' = t
        /\ obj' = [i \in Objects |-> IF i \in m.to
                                     THEN [obj[i] EXCEPT !.life = "deleted"]
                                     ELSE obj[i]]
    BY DEF HandleDelete
  <1>2. /\ Len(toRig) \in Nat /\ 1 \in 1..Len(toRig) /\ m = toRig[1]
        /\ t \in Seq(Event) /\ Len(toRig) = Len(t) + 1 /\ Len(t) \in Nat
        /\ \A l \in 1..Len(t) : t[l] = toRig[l + 1]
    BY <1>1
  <1>3. QueueInv(ui, t, obj)
    BY <1>1, TailKeeps
  <1> HIDE DEF t, m
  <1>4. \A i \in Objects :
           /\ obj'[i] \in Object /\ obj'[i].seq = obj[i].seq
           /\ obj'[i].requested = obj[i].requested
           /\ obj[i].life # "live" => obj'[i].life # "live"
           /\ i \notin m.to => obj'[i] = obj[i]
    <2> SUFFICES ASSUME NEW i \in Objects
                 PROVE  /\ obj'[i] \in Object /\ obj'[i].seq = obj[i].seq
                        /\ obj'[i].requested = obj[i].requested
                        /\ obj[i].life # "live" => obj'[i].life # "live"
                        /\ i \notin m.to => obj'[i] = obj[i]
      OBVIOUS
    <2>1. obj[i] \in Object
      OBVIOUS
    <2>2. obj'[i] = IF i \in m.to THEN [obj[i] EXCEPT !.life = "deleted"]
                    ELSE obj[i]
      BY <1>1
    <2> DEFINE e == [obj[i] EXCEPT !.life = "deleted"]
    <2>3. /\ e \in Object /\ e.seq = obj[i].seq
          /\ e.requested = obj[i].requested /\ e.life = "deleted"
      BY <2>1 DEF Object
    <2>4. obj'[i] = IF i \in m.to THEN e ELSE obj[i]
      BY <2>2
    <2> HIDE DEF e
    <2> QED
      BY <2>1, <2>3, <2>4
  <1>5. obj' \in [Objects -> Object]
    BY <1>1, <1>4
  <1>6. /\ \A i \in m.to : i \notin ui.conns
        /\ \A l \in 1..Len(t) : \A i \in t[l].to : i \notin m.to
    <2>1. \A i \in m.to : i \notin ui.conns
      BY <1>1, <1>2 DEF StopIsLast
    <2>2. ASSUME NEW l \in 1..Len(t), NEW i \in t[l].to
          PROVE  i \notin m.to
      <3>1. l + 1 \in 1..Len(toRig) /\ 1 < l + 1 /\ t[l] = toRig[l + 1]
        BY <1>2
      <3> QED
        BY <1>1, <1>2, <2>2, <3>1 DEF StopIsLast
    <2> QED
      BY <2>1, <2>2
  <1>7. /\ \A l \in 1..Len(t) : t[l].to \subseteq Objects
        /\ ui.conns \subseteq Objects
    BY <1>2, QueueTypes DEF Configuration
  <1>8. CommandsInOrder(ui, t, obj')
    BY <1>3, <1>4, <1>7 DEF CommandsInOrder
  <1>9. ObjectsCreated(ui, t, obj')
    BY <1>3, <1>4 DEF ObjectsCreated
  <1>10. StopIsLast(ui, t, obj')
    BY <1>3, <1>4, <1>6, <1>7 DEF StopIsLast
  <1> QED
    BY <1>1, <1>3, <1>4, <1>5, <1>8, <1>9, <1>10

-----------------------------------------------------------------------------
(* The steps.                                                              *)

ClientType == [state : TransceiverState, seq : Nat, firstError : BOOLEAN]

EnvType == [resets : Nat, tunes : Nat, faults : Nat, turns : Nat, misreads : Nat]

LEMMA PrimedSignals ==
  ASSUME Behind(toUI', obj'), Behind(emitting', obj')
  PROVE  SignalsBehind'
  BY DEF SignalsBehind, Behind

LEMMA PrimedQueue ==
  ASSUME QueueInv(ui', toRig', obj')
  PROVE  /\ QueueInv(ui, toRig, obj)'
         /\ ui' \in Configuration /\ toRig' \in Seq(Event)
         /\ obj' \in [Objects -> Object]
  BY DEF QueueInv, CommandsInOrder, ObjectsCreated, StopIsLast, Command

\* What is left to show of a step, beside the queue.
LEMMA Together ==
  ASSUME QueueInv(ui', toRig', obj'), client' \in ClientType,
         toUI' \in Seq(Signal), emitting' \in Seq(Signal), radio' \in Radio,
         env' \in EnvType, SignalsBehind', NoOrphanPtt'
  PROVE  IInv'
  BY PrimedQueue DEF IInv, TypeOK, ClientType, EnvType

\* What IInv says of the variables that the steps leave alone.
LEMMA TypesOf ==
  ASSUME IInv
  PROVE  /\ ui \in Configuration /\ toRig \in Seq(Event) /\ radio \in Radio
         /\ client \in ClientType /\ env \in EnvType
  BY DEF IInv, TypeOK, ClientType, EnvType

\* A Configuration that differs in nothing that the queue depends on.
LEMMA SameQueue ==
  ASSUME NEW u, NEW q, NEW ob, QueueInv(u, q, ob), NEW v \in Configuration,
         v.cmd = u.cmd, v.created = u.created, v.conns = u.conns
  PROVE  QueueInv(v, q, ob)
  BY DEF QueueInv, CommandsInOrder, ObjectsCreated, StopIsLast

\* A created object is not ahead of what it was before.
LEMMA CreationKeeps ==
  ASSUME IInv,
         obj' = obj \/ (ui.created < MaxObjects /\ obj' = CreateObject(ui))
  PROVE  \A i \in Objects : /\ obj[i].seq \in Nat
                            /\ obj'[i].seq = obj[i].seq
                            /\ obj[i].requested.online => obj'[i].requested.online
  <1>1. ui \in Configuration /\ obj \in [Objects -> Object]
    BY DEF IInv, TypeOK
  <1>2. CASE obj' = obj
    BY <1>1, <1>2 DEF Object
  <1>3. CASE ui.created < MaxObjects /\ obj' = CreateObject(ui)
    <2> DEFINE x == ui.created + 1
               o == NewObject(ui.splitMode)
    <2>1. x \in Objects /\ ui.created < x
      BY <1>1, <1>3, BoundAssumption DEF Configuration, Objects
    <2>2. obj[x].seq = 0 /\ ~obj[x].requested.online
      BY <2>1 DEF IInv, QueueInv, ObjectsCreated
    <2>3. o.seq = 0
      BY DEF NewObject
    <2>4. obj' = [obj EXCEPT ![x] = o]
      BY <1>3 DEF CreateObject
    <2> HIDE DEF o, x
    <2> QED
      BY <1>1, <2>1, <2>2, <2>3, <2>4 DEF Object
  <1> QED
    BY <1>2, <1>3

LEMMA TailBehind ==
  ASSUME NEW s \in Seq(Signal), NEW ob, Behind(s, ob), s # <<>>
  PROVE  Tail(s) \in Seq(Signal) /\ Behind(Tail(s), ob)
  <1> DEFINE t == Tail(s)
  <1>1. /\ t \in Seq(Signal) /\ Len(s) = Len(t) + 1 /\ Len(t) \in Nat
        /\ \A k \in 1..Len(t) : t[k] = s[k + 1] /\ k + 1 \in 1..Len(s)
    OBVIOUS
  <1> HIDE DEF t
  <1>2. Behind(t, ob)
    BY <1>1 DEF Behind
  <1> QED
    BY <1>1, <1>2 DEF t

LEMMA AppendBehind ==
  ASSUME NEW s \in Seq(Signal), NEW ob, Behind(s, ob), NEW x \in Signal,
         x.from \in Objects, x.seq <= ob[x.from].seq
  PROVE  Append(s, x) \in Seq(Signal) /\ Behind(Append(s, x), ob)
  <1> DEFINE t == Append(s, x)
  <1>1. /\ t \in Seq(Signal) /\ Len(t) = Len(s) + 1 /\ Len(s) \in Nat
        /\ \A k \in 1..Len(s) : t[k] = s[k]
        /\ t[Len(s) + 1] = x
    OBVIOUS
  <1> HIDE DEF t
  <1>2. \A k \in 1..Len(t) : k \in 1..Len(s) \/ k = Len(s) + 1
    BY <1>1
  <1>3. Behind(t, ob)
    BY <1>1, <1>2 DEF Behind
  <1> QED
    BY <1>1, <1>3 DEF t

\* Objects that move on leave the signals behind.
LEMMA StillBehind ==
  ASSUME NEW s \in Seq(Signal), NEW oa, NEW ob, Behind(s, oa),
         \A i \in Objects : /\ oa[i].seq \in Nat /\ ob[i].seq \in Nat
                            /\ oa[i].seq <= ob[i].seq
  PROVE  Behind(s, ob)
  <1>1. \A k \in 1..Len(s) : s[k].seq \in Nat
    <2>1. \A k \in 1..Len(s) : s[k] \in Signal
      OBVIOUS
    <2> QED
      BY <2>1 DEF Signal
  <1>2. ASSUME NEW k \in 1..Len(s)
        PROVE  s[k].from \in Objects /\ s[k].seq <= ob[s[k].from].seq
    <2> DEFINE i == s[k].from
    <2>1. i \in Objects /\ s[k].seq <= oa[i].seq
      BY DEF Behind
    <2>2. oa[i].seq \in Nat /\ ob[i].seq \in Nat /\ oa[i].seq <= ob[i].seq
      BY <2>1
    <2> QED
      BY <1>1, <2>1, <2>2
  <1> QED
    BY <1>2 DEF Behind

LEMMA SignalTypes ==
  ASSUME IInv
  PROVE  /\ toUI \in Seq(Signal) /\ emitting \in Seq(Signal)
         /\ Behind(toUI, obj) /\ Behind(emitting, obj)
         /\ obj \in [Objects -> Object] /\ ui \in Configuration
         /\ radio \in Radio
         /\ \A i \in Objects : obj[i] \in Object /\ obj[i].seq \in Nat
  <1>1. obj \in [Objects -> Object]
    BY DEF IInv, TypeOK
  <1> QED
    BY <1>1 DEF IInv, TypeOK, SignalsBehind, Object

\* The retry that is posted keeps the sender and the number of the failure.
LEMMA PostedBehind ==
  ASSUME NEW ob, toUI \in Seq(Signal), Behind(toUI, ob), toUI # <<>>
  PROVE  /\ RetryPosted(Head(toUI)) \in Seq(Signal)
         /\ Behind(RetryPosted(Head(toUI)), ob)
  <1> DEFINE h == toUI[1]
             x == [h EXCEPT !.sig = "retry"]
             t == Tail(toUI)
  <1>1. t \in Seq(Signal) /\ Behind(t, ob)
    BY TailBehind
  <1>2. Head(toUI) = h /\ h \in Signal /\ 1 \in 1..Len(toUI)
    OBVIOUS
  <1>3. h.from \in Objects /\ h.seq <= ob[h.from].seq
    BY <1>2 DEF Behind
  <1>4. x \in Signal /\ x.from = h.from /\ x.seq = h.seq
    BY <1>2 DEF Signal
  <1>5. RetryPosted(Head(toUI)) = t \/ RetryPosted(Head(toUI)) = Append(t, x)
    BY <1>2 DEF RetryPosted
  <1> HIDE DEF h, x, t
  <1>6. Append(t, x) \in Seq(Signal) /\ Behind(Append(t, x), ob)
    BY <1>1, <1>3, <1>4, AppendBehind
  <1> QED
    BY <1>1, <1>5, <1>6

\* A step of the GUI thread: the objects stay as they are, or one is created,
\* and the first event may be handled, a failure by posting a retry.
LEMMA GuiStep ==
  ASSUME IInv, QueueInv(ui', toRig', obj'), client' \in ClientType,
         env' \in EnvType, radio' = radio, emitting' = emitting,
         toUI' = toUI \/ (toUI # <<>> /\ toUI' \in {Tail(toUI), RetryPosted(Head(toUI))}),
         obj' = obj \/ (ui.created < MaxObjects /\ obj' = CreateObject(ui))
  PROVE  IInv'
  <1>1. /\ toUI \in Seq(Signal) /\ emitting \in Seq(Signal)
        /\ Behind(toUI, obj) /\ Behind(emitting, obj) /\ radio \in Radio
    BY SignalTypes
  <1>2. \A i \in Objects : /\ obj[i].seq \in Nat
                           /\ obj'[i].seq = obj[i].seq
                           /\ obj[i].requested.online => obj'[i].requested.online
    BY CreationKeeps
  <1>3. \A i \in Objects : /\ obj[i].seq \in Nat /\ obj'[i].seq \in Nat
                           /\ obj[i].seq <= obj'[i].seq
    BY <1>2
  <1>4. Behind(toUI, obj') /\ Behind(emitting', obj')
    BY <1>1, <1>3, StillBehind
  <1>5. toUI' \in Seq(Signal) /\ Behind(toUI', obj')
    BY <1>1, <1>4, TailBehind, PostedBehind
  <1>6. SignalsBehind'
    BY <1>4, <1>5, PrimedSignals
  <1>7. NoOrphanPtt'
    BY <1>2 DEF IInv, NoOrphanPtt
  <1> QED
    BY <1>1, <1>5, <1>6, <1>7, Together

\* A slot of object i: its queue of events is dealt with by the caller.
LEMMA SlotStep ==
  ASSUME IInv, NEW i \in Objects, NEW c, c.id = i, c.o = obj[i], c.r = radio,
         NEW d, NEW n \in Nat, Outcome(c, d, n), obj[i].seq <= n,
         emitting = <<>>, Emits(i, d.out),
         obj' = [obj EXCEPT ![i] = d.o], radio' = d.r
  PROVE  /\ toUI' \in Seq(Signal) /\ emitting' \in Seq(Signal)
         /\ radio' \in Radio
         /\ SignalsBehind' /\ NoOrphanPtt'
  <1>1. /\ toUI \in Seq(Signal) /\ emitting \in Seq(Signal)
        /\ Behind(toUI, obj) /\ Behind(emitting, obj)
        /\ obj \in [Objects -> Object] /\ radio \in Radio
        /\ \A j \in Objects : obj[j].seq \in Nat
    BY SignalTypes
  <1>2. /\ d \in Context /\ d.id = i /\ d.o.seq = n
        /\ Stamped(d)
        /\ Held(c) => Held(d)
    BY DEF Outcome
  <1>3. /\ d.r \in Radio /\ d.out \in Seq(Signal)
        /\ \A k \in 1..Len(d.out) : d.out[k].seq = n /\ d.out[k].from = i
    <2>1. d.r \in Radio /\ d.out \in Seq(Signal)
      BY <1>2 DEF Context
    <2>2. DOMAIN d.out = 1..Len(d.out)
      BY <2>1
    <2> QED
      BY <1>2, <2>1, <2>2 DEF Stamped
  <1>4. /\ obj'[i] = d.o
        /\ \A j \in Objects : j # i => obj'[j] = obj[j]
        /\ \A j \in Objects : /\ obj[j].seq \in Nat /\ obj'[j].seq \in Nat
                              /\ obj[j].seq <= obj'[j].seq
    BY <1>1, <1>2
  <1>5. Behind(toUI, obj') /\ Behind(emitting, obj')
    BY <1>1, <1>4, StillBehind
  <1>6. Behind(d.out, obj')
    BY <1>2, <1>3, <1>4 DEF Behind
  <1>7. /\ toUI' \in Seq(Signal) /\ emitting' \in Seq(Signal)
        /\ Behind(toUI', obj') /\ Behind(emitting', obj')
    <2>1. CASE d.out = <<>> \/ i \notin ui.conns
      BY <1>1, <1>5, <2>1 DEF Emits
    <2>2. CASE d.out # <<>> /\ i \in ui.conns
      <3>1. toUI' = Append(toUI, Head(d.out)) /\ emitting' = Tail(d.out)
        BY <2>2 DEF Emits
      <3>2. /\ 1 \in 1..Len(d.out) /\ Head(d.out) = d.out[1]
            /\ Head(d.out) \in Signal
        BY <1>3, <2>2
      <3>3. /\ Head(d.out).from \in Objects
            /\ Head(d.out).seq <= obj'[Head(d.out).from].seq
        BY <1>6, <3>2 DEF Behind
      <3>4. toUI' \in Seq(Signal) /\ Behind(toUI', obj')
        BY <1>1, <1>5, <3>1, <3>2, <3>3, AppendBehind
      <3>5. emitting' \in Seq(Signal) /\ Behind(emitting', obj')
        BY <1>3, <1>6, <2>2, <3>1, TailBehind
      <3> QED
        BY <3>4, <3>5
    <2> QED
      BY <2>1, <2>2
  <1>8. SignalsBehind'
    BY <1>7, PrimedSignals
  <1>9. NoOrphanPtt'
    <2>1. CASE Held(c)
      <3>1. d.o.requested.online \/ (radio'.ptt => radio'.unkeyFailed)
        BY <1>2, <2>1 DEF Held, Unkeyed
      <3>2. obj'[i].requested.online \/ (radio'.ptt => radio'.unkeyFailed)
        BY <1>4, <3>1
      <3> QED
        BY <3>2 DEF NoOrphanPtt
    <2>2. CASE ~Held(c)
      <3>1. /\ radio.ptt /\ ~radio.unkeyFailed /\ ~obj[i].requested.online
        BY <2>2 DEF Held, Unkeyed
      <3>2. PICK j \in Objects : obj[j].requested.online
        BY <3>1 DEF IInv, NoOrphanPtt
      <3> QED
        BY <1>4, <3>1, <3>2 DEF NoOrphanPtt
    <2> QED
      BY <2>1, <2>2
  <1> QED
    BY <1>3, <1>7, <1>8, <1>9

\* The history of faults and misreads.
LEMMA Counted ==
  ASSUME IInv, NEW c, NEW P \in BOOLEAN,
         env' = [env EXCEPT !.faults = IF c.faulty THEN @ + 1 ELSE @,
                            !.misreads = IF P THEN @ + 1 ELSE @]
  PROVE  env' \in EnvType
  <1> DEFINE f == IF c.faulty THEN env.faults + 1 ELSE env.faults
             r == IF P THEN env.misreads + 1 ELSE env.misreads
  <1>1. env \in EnvType
    BY TypesOf
  <1>2. f \in Nat /\ r \in Nat
    BY <1>1 DEF EnvType
  <1>3. env' = [env EXCEPT !.faults = f, !.misreads = r]
    BY <1>1 DEF EnvType
  <1> HIDE DEF f, r
  <1> QED
    BY <1>1, <1>2, <1>3 DEF EnvType

\* A slot for the event at the head, which object i has been the next to get.
LEMMA EventStep ==
  ASSUME IInv, toRig # <<>>, NEW i \in Head(toRig).to,
         NEW c, c.id = i, c.o = obj[i], c.r = radio,
         NEW d, NEW n, n = IF Command(Head(toRig)) THEN Head(toRig).seq
                           ELSE obj[i].seq,
         Outcome(c, d, n), Finish(i, d, FALSE)
  PROVE  LET r == Rest(Head(toRig), i) IN
         /\ i \in Objects /\ i <= ui.created /\ obj'[i].life = "live"
         /\ QueueInv(ui, r, obj')
         /\ Head(toRig).op = "stop" =>
              /\ i \notin ui.conns
              /\ \A l \in 1..Len(r) : i \notin r[l].to
         /\ toUI' \in Seq(Signal) /\ emitting' \in Seq(Signal)
         /\ radio' \in Radio /\ env' \in EnvType
         /\ SignalsBehind'
         /\ NoOrphanPtt'
  <1> DEFINE m == Head(toRig)
             r == Rest(m, i)
  <1>1. /\ QueueInv(ui, toRig, obj) /\ toRig \in Seq(Event)
        /\ obj \in [Objects -> Object]
    BY DEF IInv, TypeOK
  <1>2. 1 \in 1..Len(toRig) /\ m = toRig[1]
    BY <1>1
  <1>3. i \in Objects /\ m.seq \in Nat
    BY <1>1, <1>2, QueueTypes
  <1>4. /\ i <= ui.created
        /\ obj[i].life = "live"
        /\ Command(m) => obj[i].seq < m.seq
    <2> USE <1>1, <1>2 DEF QueueInv
    <2>1. i <= ui.created
      BY DEF ObjectsCreated, m
    <2>2. obj[i].life = "live"
      BY DEF StopIsLast, m
    <2>3. Command(m) => obj[i].seq < m.seq
      BY DEF CommandsInOrder
    <2> QED
      BY <2>1, <2>2, <2>3
  <1>5. obj[i].seq \in Nat
    BY <1>1, <1>3 DEF Object
  <1>6. n \in Nat /\ obj[i].seq <= n
    BY <1>3, <1>4, <1>5 DEF m
  <1>7. /\ obj' = [obj EXCEPT ![i] = d.o] /\ radio' = d.r
        /\ emitting = <<>> /\ Emits(i, d.out)
        /\ env' = [env EXCEPT !.faults = IF d.faulty THEN @ + 1 ELSE @,
                              !.misreads = IF FALSE THEN @ + 1 ELSE @]
    BY DEF Finish
  <1>8. env' \in EnvType
    BY <1>7, Counted
  <1>9. /\ d.o \in Object /\ d.o.life = obj[i].life /\ d.o.seq = n
        /\ toUI' \in Seq(Signal) /\ emitting' \in Seq(Signal)
        /\ radio' \in Radio
        /\ SignalsBehind' /\ NoOrphanPtt'
    <2>1. d.o \in Object /\ d.o.life = obj[i].life /\ d.o.seq = n
      BY DEF Outcome, Context
    <2>2. toUI' \in Seq(Signal) /\ emitting' \in Seq(Signal) /\ radio' \in Radio
      BY <1>3, <1>6, <1>7, SlotStep
    <2>3. SignalsBehind'
      BY <1>3, <1>6, <1>7, SlotStep
    <2>4. NoOrphanPtt'
      BY <1>3, <1>6, <1>7, SlotStep
    <2> QED
      BY <2>1, <2>2, <2>3, <2>4
  <1>10. /\ QueueInv(ui, r, [obj EXCEPT ![i] = d.o])
         /\ m.op = "stop" => /\ i \notin ui.conns
                             /\ \A l \in 1..Len(r) : i \notin r[l].to
    BY <1>1, <1>9, RestKeeps
  <1>11. obj'[i].life = "live"
    BY <1>1, <1>3, <1>4, <1>7, <1>9
  <1> QED
    BY <1>3, <1>4, <1>7, <1>8, <1>9, <1>10, <1>11 DEF m, r

\* Object i has got to command n, and no other object has moved.
Reaches(i, n) ==
  \A j \in Objects : obj'[j].seq = IF j = i THEN n ELSE obj[j].seq

LEMMA SlotReaches ==
  ASSUME IInv, NEW i \in Objects, NEW c, NEW d, NEW n, Outcome(c, d, n),
         NEW misread, Finish(i, d, misread)
  PROVE  Reaches(i, n)
  <1>1. obj \in [Objects -> Object] /\ obj' = [obj EXCEPT ![i] = d.o]
    BY DEF IInv, TypeOK, Finish
  <1>2. d.o.seq = n
    BY DEF Outcome
  <1> QED
    BY <1>1, <1>2 DEF Reaches

LEMMA FaultsType == ASSUME NEW bad \in Faults PROVE bad \in SUBSET Calls
  BY DEF Faults, Calls

\* What begins a slot.
LEMMA SlotBegins ==
  ASSUME IInv, NEW i \in Objects, NEW bad \in Faults, NEW cause \in {"slot", "poll"}
  PROVE  LET c == Begin(i, obj[i], radio, bad, cause) IN
         /\ c \in Context /\ ~c.thrown /\ c.out = <<>>
         /\ c.id = i /\ c.o = obj[i] /\ c.r = radio
         /\ obj[i].seq \in Nat /\ radio.freq \in Freqs
  <1>1. i \in Nat
    BY BoundAssumption DEF Objects
  <1>2. obj[i] \in Object /\ radio \in Radio
    BY DEF IInv, TypeOK
  <1>3. bad \in SUBSET Calls
    BY FaultsType
  <1>4. obj[i].seq \in Nat /\ radio.freq \in Freqs
    BY <1>2 DEF Object, Radio
  <1> QED
    BY <1>1, <1>2, <1>3, <1>4, BeginContext

\* The receiver that is next.
LEMMA Receiver ==
  ASSUME IInv, toRig # <<>>, NEW i, First(i, Head(toRig))
  PROVE  /\ i \in Head(toRig).to /\ Head(toRig) \in Event
         /\ Head(toRig).seq \in Nat /\ Head(toRig).state \in TransceiverState
  <1>1. toRig \in Seq(Event)
    BY DEF IInv, TypeOK
  <1>2. Head(toRig) \in Event
    BY <1>1
  <1> QED
    BY <1>2 DEF First, Event

LEMMA HandleSetStep ==
  ASSUME IInv, NEW i \in Objects, HandleSet(i)
  PROVE  IInv' /\ Reaches(i, Head(toRig).seq)
  <1> DEFINE m == Head(toRig)
  <1>1. PICK bad \in Faults :
           Finish(i, Set(Begin(i, obj[i], radio, bad, "slot"), m.state, m.seq),
                  FALSE)
    BY DEF HandleSet
  <1>2. /\ toRig # <<>> /\ m.op = "set" /\ First(i, m)
        /\ toRig' = Rest(m, i) /\ ui' = ui /\ client' = client
    BY DEF HandleSet
  <1> DEFINE c == Begin(i, obj[i], radio, bad, "slot")
             d == Set(c, m.state, m.seq)
  <1>3. /\ i \in m.to /\ m.seq \in Nat /\ m.state \in TransceiverState
    BY <1>2, Receiver
  <1>4. /\ c \in Context /\ ~c.thrown /\ c.out = <<>>
        /\ c.id = i /\ c.o = obj[i] /\ c.r = radio
    BY SlotBegins
  <1>5. Outcome(c, d, m.seq)
    <2> HIDE DEF c, m
    <2> QED
      BY <1>3, <1>4, SetOutcome
  <1>6. Command(m)
    BY <1>2 DEF Command
  <1>7. Finish(i, d, FALSE)
    BY <1>1
  <1> HIDE DEF c, d
  <1>8. /\ QueueInv(ui, Rest(m, i), obj')
        /\ toUI' \in Seq(Signal) /\ emitting' \in Seq(Signal)
        /\ radio' \in Radio /\ env' \in EnvType
        /\ SignalsBehind' /\ NoOrphanPtt'
    BY <1>2, <1>3, <1>4, <1>5, <1>6, <1>7, EventStep
  <1>9. Reaches(i, m.seq)
    BY <1>5, <1>7, SlotReaches
  <1> QED
    BY <1>2, <1>8, <1>9, Together DEF IInv, TypeOK, ClientType, m

LEMMA HandleStartStep ==
  ASSUME IInv, NEW i \in Objects, HandleStart(i)
  PROVE  IInv' /\ Reaches(i, Head(toRig).seq)
  <1> DEFINE m == Head(toRig)
  <1>1. PICK bad \in Faults :
           Finish(i, Start(Begin(i, obj[i], radio, bad, "slot"), m.seq), FALSE)
    BY DEF HandleStart
  <1>2. /\ toRig # <<>> /\ m.op = "start" /\ First(i, m)
        /\ toRig' = Rest(m, i) /\ ui' = ui /\ client' = client
    BY DEF HandleStart
  <1> DEFINE c == Begin(i, obj[i], radio, bad, "slot")
             d == Start(c, m.seq)
  <1>3. /\ i \in m.to /\ m.seq \in Nat
    BY <1>2, Receiver
  <1>4. /\ c \in Context /\ ~c.thrown /\ c.out = <<>>
        /\ c.id = i /\ c.o = obj[i] /\ c.r = radio
    BY SlotBegins
  <1>5. Outcome(c, d, m.seq)
    <2> HIDE DEF c, m
    <2> QED
      BY <1>3, <1>4, StartOutcome
  <1>6. Command(m)
    BY <1>2 DEF Command
  <1>7. Finish(i, d, FALSE)
    BY <1>1
  <1> HIDE DEF c, d
  <1>8. /\ QueueInv(ui, Rest(m, i), obj')
        /\ toUI' \in Seq(Signal) /\ emitting' \in Seq(Signal)
        /\ radio' \in Radio /\ env' \in EnvType
        /\ SignalsBehind' /\ NoOrphanPtt'
    BY <1>2, <1>3, <1>4, <1>5, <1>6, <1>7, EventStep
  <1>9. Reaches(i, m.seq)
    BY <1>5, <1>7, SlotReaches
  <1> QED
    BY <1>2, <1>8, <1>9, Together DEF IInv, TypeOK, ClientType, m

LEMMA HandleStopStep ==
  ASSUME IInv, NEW i \in Objects, HandleStop(i)
  PROVE  IInv' /\ Reaches(i, obj[i].seq)
  <1> DEFINE m == Head(toRig)
             r == Rest(m, i)
  <1>1. PICK bad \in Faults :
           Finish(i, Stop(Begin(i, obj[i], radio, bad, "slot")), FALSE)
    BY DEF HandleStop
  <1>2. /\ toRig # <<>> /\ m.op = "stop" /\ First(i, m)
        /\ toRig' = Append(r, [op |-> "delete", to |-> {i},
                               state |-> Offline, seq |-> 0])
        /\ ui' = ui /\ client' = client
    BY DEF HandleStop
  <1> DEFINE c == Begin(i, obj[i], radio, bad, "slot")
             d == Stop(c)
  <1>3. i \in m.to
    BY <1>2, Receiver
  <1>4. /\ c \in Context /\ ~c.thrown /\ c.out = <<>>
        /\ c.id = i /\ c.o = obj[i] /\ c.r = radio
    BY SlotBegins
  <1>5. Outcome(c, d, obj[i].seq)
    <2> HIDE DEF c
    <2> QED
      BY <1>4, StopOutcome
  <1>6. ~Command(m)
    BY <1>2 DEF Command
  <1> HIDE DEF d, r
  <1>7. /\ i \in Objects /\ i <= ui.created /\ obj'[i].life = "live"
        /\ QueueInv(ui, r, obj')
        /\ i \notin ui.conns
        /\ \A l \in 1..Len(r) : i \notin r[l].to
        /\ toUI' \in Seq(Signal) /\ emitting' \in Seq(Signal)
        /\ radio' \in Radio /\ env' \in EnvType
        /\ SignalsBehind' /\ NoOrphanPtt'
    BY <1>1, <1>2, <1>3, <1>4, <1>5, <1>6, EventStep DEF d, r
  <1>8. QueueInv(ui, toRig', obj')
    BY <1>2, <1>7, DeletionPosts
  <1>9. Reaches(i, obj[i].seq)
    BY <1>1, <1>5, <1>7, SlotReaches DEF d
  <1> QED
    BY <1>2, <1>7, <1>8, <1>9, Together, TypesOf

LEMMA HandleDeleteStep ==
  ASSUME IInv, HandleDelete
  PROVE  IInv'
  <1>1. /\ QueueInv(ui, toRig', obj')
        /\ \A i \in Objects : /\ obj'[i] \in Object
                              /\ obj'[i].seq = obj[i].seq
                              /\ obj'[i].requested = obj[i].requested
    BY DeletionKeeps DEF IInv
  <1>2. /\ ui' = ui /\ client' = client /\ toUI' = toUI /\ emitting' = emitting
        /\ radio' = radio /\ env' = env
    BY DEF HandleDelete
  <1>3. /\ toUI \in Seq(Signal) /\ emitting \in Seq(Signal)
        /\ Behind(toUI, obj) /\ Behind(emitting, obj)
        /\ \A i \in Objects : obj[i].seq \in Nat
    BY SignalTypes
  <1>4. \A i \in Objects : /\ obj[i].seq \in Nat /\ obj'[i].seq \in Nat
                           /\ obj[i].seq <= obj'[i].seq
    BY <1>1, <1>3
  <1>5. Behind(toUI', obj') /\ Behind(emitting', obj')
    BY <1>2, <1>3, <1>4, StillBehind
  <1>6. SignalsBehind'
    BY <1>5, PrimedSignals
  <1>7. NoOrphanPtt'
    BY <1>1, <1>2 DEF IInv, NoOrphanPtt
  <1>8. QueueInv(ui', toRig', obj')
    BY <1>1, <1>2
  <1> QED
    BY <1>1, <1>2, <1>3, <1>6, <1>7, <1>8, Together, TypesOf

LEMMA EmitNextStep ==
  ASSUME IInv, EmitNext
  PROVE  IInv'
  <1> DEFINE x == Head(emitting)
  <1>1. /\ toUI \in Seq(Signal) /\ emitting \in Seq(Signal)
        /\ Behind(toUI, obj) /\ Behind(emitting, obj)
    BY SignalTypes
  <1>2. /\ emitting # <<>> /\ emitting' = Tail(emitting)
        /\ toUI' = IF x.from \in ui.conns THEN Append(toUI, x) ELSE toUI
        /\ ui' = ui /\ client' = client /\ toRig' = toRig /\ obj' = obj
        /\ radio' = radio /\ env' = env
    BY DEF EmitNext
  <1>3. x \in Signal /\ x.from \in Objects /\ x.seq <= obj[x.from].seq
    <2>1. 1 \in 1..Len(emitting) /\ x = emitting[1] /\ x \in Signal
      BY <1>1, <1>2
    <2> QED
      BY <1>1, <2>1 DEF Behind
  <1> HIDE DEF x
  <1>4. toUI' \in Seq(Signal) /\ Behind(toUI', obj')
    BY <1>1, <1>2, <1>3, AppendBehind
  <1>5. emitting' \in Seq(Signal) /\ Behind(emitting', obj')
    BY <1>1, <1>2, TailBehind
  <1>6. SignalsBehind'
    BY <1>4, <1>5, PrimedSignals
  <1>7. NoOrphanPtt' /\ QueueInv(ui', toRig', obj')
    BY <1>2 DEF IInv, NoOrphanPtt
  <1> QED
    BY <1>2, <1>4, <1>5, <1>6, <1>7, Together, TypesOf

LEMMA PollStep ==
  ASSUME IInv, NEW i \in Objects, Poll(i)
  PROVE  IInv' /\ Reaches(i, obj[i].seq)
  <1>1. PICK bad \in Faults, reading \in Freqs :
           Finish(i, Timeout(Begin(i, obj[i], radio, bad, "poll"), reading),
                  reading # radio.freq)
    <2>1. radio.freq \in Freqs
      BY DEF IInv, TypeOK, Radio
    <2> QED
      BY <2>1 DEF Poll
  <1>2. /\ obj[i].life = "live" /\ toRig' = toRig /\ ui' = ui
        /\ client' = client
    BY DEF Poll
  <1> DEFINE c == Begin(i, obj[i], radio, bad, "poll")
             d == Timeout(c, reading)
  <1>3. /\ c \in Context /\ ~c.thrown /\ c.out = <<>>
        /\ c.id = i /\ c.o = obj[i] /\ c.r = radio /\ obj[i].seq \in Nat
    BY SlotBegins
  <1>4. Outcome(c, d, obj[i].seq)
    <2> HIDE DEF c
    <2> QED
      BY <1>3, TimeoutOutcome
  <1>5. /\ obj' = [obj EXCEPT ![i] = d.o] /\ radio' = d.r
        /\ emitting = <<>> /\ Emits(i, d.out)
        /\ env' = [env EXCEPT
                     !.faults = IF d.faulty THEN @ + 1 ELSE @,
                     !.misreads = IF reading # radio.freq THEN @ + 1 ELSE @]
    BY <1>1 DEF Finish
  <1>6. env' \in EnvType
    BY <1>5, Counted
  <1> HIDE DEF c, d
  <1>7. /\ toUI' \in Seq(Signal) /\ emitting' \in Seq(Signal) /\ radio' \in Radio
        /\ SignalsBehind' /\ NoOrphanPtt'
    <2>1. obj[i].seq <= obj[i].seq
      BY <1>3
    <2>2. toUI' \in Seq(Signal) /\ emitting' \in Seq(Signal) /\ radio' \in Radio
      BY <1>3, <1>4, <1>5, <2>1, SlotStep
    <2>3. SignalsBehind'
      BY <1>3, <1>4, <1>5, <2>1, SlotStep
    <2>4. NoOrphanPtt'
      BY <1>3, <1>4, <1>5, <2>1, SlotStep
    <2> QED
      BY <2>2, <2>3, <2>4
  <1>8. d.o \in Object /\ d.o.life = obj[i].life /\ d.o.seq = obj[i].seq
    BY <1>3, <1>4 DEF Outcome, Context
  <1>9. QueueInv(ui, toRig, obj)
    BY DEF IInv
  <1>10. i <= ui.created
    <2>1. ui.created \in Nat /\ i \in Nat
      BY <1>9, BoundAssumption DEF QueueInv, Configuration, Objects
    <2>2. ~(ui.created < i)
      BY <1>2, <1>9 DEF QueueInv, ObjectsCreated
    <2> QED
      BY <2>1, <2>2
  <1>11. \A l \in 1..Len(toRig) :
            Command(toRig[l]) /\ i \in toRig[l].to => d.o.seq < toRig[l].seq
    BY <1>8, <1>9 DEF QueueInv, CommandsInOrder
  <1>12. d.o.seq <= ui.cmd
    BY <1>8, <1>9 DEF QueueInv, ObjectsCreated
  <1>13. QueueInv(ui, toRig, [obj EXCEPT ![i] = d.o])
    BY <1>8, <1>9, <1>10, <1>11, <1>12, ObjectKeeps
  <1>14. Reaches(i, obj[i].seq)
    BY <1>1, <1>4, SlotReaches DEF c, d
  <1>15. ui' \in Configuration /\ client' \in ClientType /\ toRig' \in Seq(Event)
    BY <1>2, TypesOf
  <1>16. QueueInv(ui', toRig', obj')
    BY <1>2, <1>5, <1>13
  <1>17. IInv'
    BY <1>6, <1>7, <1>15, <1>16, Together
  <1> QED
    BY <1>14, <1>17

LEMMA TurnDialStep ==
  ASSUME IInv, NEW f \in Freqs, TurnDial(f)
  PROVE  IInv'
  <1>1. /\ radio' = [radio EXCEPT !.freq = f]
        /\ env' = [env EXCEPT !.turns = @ + 1]
        /\ ui' = ui /\ client' = client /\ toRig' = toRig /\ toUI' = toUI
        /\ emitting' = emitting /\ obj' = obj
    BY DEF TurnDial
  <1>2. /\ radio' \in Radio /\ radio'.ptt = radio.ptt
        /\ radio'.unkeyFailed = radio.unkeyFailed
    BY <1>1 DEF IInv, TypeOK, Radio
  <1>3. env' \in EnvType
    BY <1>1, TypesOf DEF EnvType
  <1>4. SignalsBehind' /\ NoOrphanPtt'
    BY <1>1, <1>2 DEF IInv, SignalsBehind, Behind, NoOrphanPtt
  <1>5. QueueInv(ui', toRig', obj') /\ toUI' \in Seq(Signal) /\ emitting' \in Seq(Signal)
    BY <1>1, SignalTypes DEF IInv
  <1> QED
    BY <1>1, <1>2, <1>3, <1>4, <1>5, Together, TypesOf

-----------------------------------------------------------------------------
(* The steps of the GUI thread.                                            *)

\* Opening the rig, by whichever call.
LEMMA OpenStep ==
  ASSUME IInv, CanOpen(ui), ui' = [OpenRig(ui) EXCEPT !.want = NoFreq],
         toRig' = toRig \o OpenEvents(ui), obj' = CreateObject(ui)
  PROVE  QueueInv(ui', toRig', obj') /\ ui.created < MaxObjects
  <1> DEFINE v == OpenRig(ui)
  <1>1. QueueInv(v, toRig', obj')
    BY OpenPosts DEF IInv, CreateObject
  <1> HIDE DEF v
  <1>2. /\ ui' \in Configuration /\ ui'.cmd = v.cmd
        /\ ui'.created = v.created /\ ui'.conns = v.conns
    BY <1>1 DEF QueueInv, Configuration, v
  <1> QED
    BY <1>1, <1>2, SameQueue DEF CanOpen

LEMMA ForcedOpenStep ==
  ASSUME IInv, ForcedOpen
  PROVE  IInv'
  <1>1. QueueInv(ui', toRig', obj') /\ ui.created < MaxObjects
    BY OpenStep DEF ForcedOpen
  <1> QED
    BY <1>1, GuiStep, TypesOf DEF ForcedOpen

LEMMA RetryOpenStep ==
  ASSUME IInv, RetryOpen
  PROVE  IInv'
  <1>1. /\ QueueInv(ui', toRig', obj')
        /\ obj' = obj \/ (ui.created < MaxObjects /\ obj' = CreateObject(ui))
    <2>1. CASE ui.active \/ ~CanOpen(ui)
      BY <2>1 DEF RetryOpen, IInv
    <2>2. CASE ~ui.active /\ CanOpen(ui)
      BY <2>2, OpenStep DEF RetryOpen
    <2> QED
      BY <2>1, <2>2
  <1> QED
    BY <1>1, GuiStep, TypesOf DEF RetryOpen

LEMMA UserCloseStep ==
  ASSUME IInv, UserClose
  PROVE  IInv'
  <1>1. QueueInv(ui', toRig', obj')
    BY ClosePosts DEF UserClose, IInv
  <1> QED
    BY <1>1, GuiStep, TypesOf DEF UserClose

LEMMA ForceResetStep ==
  ASSUME IInv, ForceReset
  PROVE  IInv'
  <1>1. /\ ui' \in Configuration /\ ui'.cmd = ui.cmd
        /\ ui'.created = ui.created /\ ui'.conns = ui.conns
    BY DEF ForceReset, IInv, TypeOK, Configuration
  <1>2. QueueInv(ui', toRig', obj')
    BY <1>1, SameQueue DEF ForceReset, IInv
  <1>3. env' \in EnvType
    <2>1. env \in EnvType
      BY TypesOf
    <2>2. env' = [env EXCEPT !.resets = @ + 1]
      BY DEF ForceReset
    <2> QED
      BY <2>1, <2>2 DEF EnvType
  <1> QED
    BY <1>2, <1>3, GuiStep, TypesOf DEF ForceReset

LEMMA RequestStep ==
  ASSUME IInv, NEW state \in TransceiverState, Request(state), env' \in EnvType
  PROVE  IInv'
  <1>1. QueueInv(ui', toRig', obj')
    BY RequestPosts DEF Request, IInv
  <1> QED
    BY <1>1, GuiStep, TypesOf DEF Request

LEMMA SetFrequencyStep ==
  ASSUME IInv, NEW f \in Freqs, SetFrequency(f)
  PROVE  IInv'
  <1> DEFINE o == IF ui.active THEN ui ELSE OpenRig(ui)
             b == IF ui.active THEN <<>> ELSE OpenEvents(ui)
             s == [o.cached EXCEPT !.freq = f]
             v == Requesting(o, s)
             e == RequestEvents(o, s)
  <1>1. /\ ui' = [v EXCEPT !.want = f]
        /\ toRig' = toRig \o b \o e
        /\ obj' = IF ui.active THEN obj ELSE CreateObject(ui)
        /\ ui.active \/ CanOpen(ui)
        /\ client' = client /\ toUI' = toUI /\ emitting' = emitting
        /\ radio' = radio /\ env' = env
    BY DEF SetFrequency
  <1>2. QueueInv(o, toRig \o b, obj')
    <2>1. CASE ui.active
      <3>1. toRig \o <<>> = toRig
        BY DEF IInv, TypeOK
      <3> QED
        BY <1>1, <2>1, <3>1 DEF IInv
    <2>2. CASE ~ui.active
      BY <1>1, <2>2, OpenPosts DEF IInv, CreateObject
    <2> QED
      BY <2>1, <2>2
  <1> HIDE DEF o, b
  <1>3. s \in TransceiverState
    BY <1>2 DEF QueueInv, Configuration, TransceiverState
  <1> HIDE DEF s
  <1>4. QueueInv(v, (toRig \o b) \o e, obj')
    BY <1>2, <1>3, RequestPosts
  <1> HIDE DEF v, e
  <1>5. /\ ui' \in Configuration /\ ui'.cmd = v.cmd
        /\ ui'.created = v.created /\ ui'.conns = v.conns
    BY <1>1, <1>4 DEF QueueInv, Configuration
  <1>6. QueueInv(ui', toRig', obj')
    BY <1>1, <1>4, <1>5, SameQueue
  <1>7. obj' = obj \/ (ui.created < MaxObjects /\ obj' = CreateObject(ui))
    BY <1>1 DEF CanOpen
  <1> QED
    BY <1>1, <1>6, <1>7, GuiStep, TypesOf

LEMMA SetTxFrequencyStep ==
  ASSUME IInv, NEW f \in Freqs \cup {NoFreq}, SetTxFrequency(f)
  PROVE  IInv'
  <1> DEFINE s == [ui.cached EXCEPT !.tx = f, !.split = (f # NoFreq)]
  <1>1. s \in TransceiverState
    BY DEF IInv, TypeOK, Configuration, TransceiverState
  <1>2. Request(s) /\ env' = env
    BY DEF SetTxFrequency
  <1> HIDE DEF s
  <1> QED
    BY <1>1, <1>2, RequestStep, TypesOf

LEMMA SetPttStep ==
  ASSUME IInv, NEW on \in BOOLEAN, SetPtt(on)
  PROVE  IInv'
  <1> DEFINE s == [ui.cached EXCEPT !.ptt = on]
  <1>1. s \in TransceiverState
    BY DEF IInv, TypeOK, Configuration, TransceiverState
  <1>2. Request(s) /\ env' = env
    BY DEF SetPtt
  <1> HIDE DEF s
  <1> QED
    BY <1>1, <1>2, RequestStep, TypesOf

LEMMA SetTuneStep ==
  ASSUME IInv, NEW on \in BOOLEAN, SetTune(on)
  PROVE  IInv'
  <1> DEFINE s == [ui.cached EXCEPT !.tune = on]
  <1>1. s \in TransceiverState
    BY DEF IInv, TypeOK, Configuration, TransceiverState
  <1>2. Request(s)
    BY DEF SetTune
  <1>3. env' \in EnvType
    <2>1. env \in EnvType
      BY TypesOf
    <2>2. env' = [env EXCEPT !.tunes = @ + 1]
      BY DEF SetTune
    <2> QED
      BY <2>1, <2>2 DEF EnvType
  <1> HIDE DEF s
  <1> QED
    BY <1>1, <1>2, <1>3, RequestStep

LEMMA HandleUpdateStep ==
  ASSUME IInv, HandleUpdate
  PROVE  IInv'
  <1> DEFINE h == Head(toUI)
             s == h.state
             x == [ui.cached EXCEPT !.online = s.online, !.freq = s.freq,
                                    !.split = s.split]
             u == [ui EXCEPT !.cached = x]
  <1>1. /\ toUI # <<>> /\ toUI' = Tail(toUI) /\ obj' = obj
        /\ emitting' = emitting /\ radio' = radio /\ env' = env
    BY DEF HandleUpdate
  <1>2. /\ ui' = IF s.online THEN u ELSE CloseRig(u)
        /\ toRig' = toRig \o (IF s.online THEN <<>> ELSE CloseEvents(u))
        /\ client' = IF Answers(h) THEN [client EXCEPT !.state = s, !.seq = h.seq]
                     ELSE client
    <2> DEFINE w == [ui EXCEPT !.cached.online = s.online, !.cached.freq = s.freq,
                               !.cached.split = s.split]
    <2>1. /\ ui' = IF s.online THEN w ELSE CloseRig(w)
          /\ toRig' = toRig \o (IF s.online THEN <<>> ELSE CloseEvents(w))
      BY Zenon DEF HandleUpdate
    <2>2. u = w
      BY DEF IInv, TypeOK, Configuration
    <2> HIDE DEF u, w, s
    <2>3. /\ toRig' = toRig \o (IF s.online THEN <<>> ELSE CloseEvents(u))
          /\ ui' = IF s.online THEN u ELSE CloseRig(u)
      BY <2>1, <2>2
    <2>4. client' = IF Answers(h)
                    THEN [client EXCEPT !.state = s, !.seq = h.seq]
                    ELSE client
      BY DEF HandleUpdate, s
    <2> QED
      BY <2>3, <2>4
  <1>3. s \in TransceiverState /\ h.seq \in Nat
    <2>1. toUI \in Seq(Signal)
      BY DEF IInv, TypeOK
    <2>2. h \in Signal
      BY <1>1, <2>1
    <2> QED
      BY <2>2 DEF Signal
  <1> HIDE DEF h, s
  <1>4. x \in TransceiverState
    BY <1>3 DEF IInv, TypeOK, Configuration, TransceiverState
  <1> HIDE DEF x
  <1>5. /\ u \in Configuration /\ u.cmd = ui.cmd
        /\ u.created = ui.created /\ u.conns = ui.conns
    BY <1>4 DEF IInv, TypeOK, Configuration
  <1> HIDE DEF u
  <1>6. QueueInv(u, toRig, obj)
    BY <1>5, SameQueue DEF IInv
  <1>7. QueueInv(ui', toRig', obj')
    <2>1. CASE s.online
      <3>1. toRig \o <<>> = toRig
        BY DEF IInv, TypeOK
      <3> QED
        BY <1>1, <1>2, <1>6, <2>1, <3>1
    <2>2. CASE ~s.online
      BY <1>1, <1>2, <1>6, <2>2, ClosePosts
    <2> QED
      BY <2>1, <2>2
  <1>8. client' \in ClientType
    <2>1. client \in ClientType
      BY TypesOf
    <2>2. [client EXCEPT !.state = s, !.seq = h.seq] \in ClientType
      BY <1>3, <2>1 DEF ClientType
    <2> QED
      BY <1>2, <2>1, <2>2
  <1> QED
    BY <1>1, <1>7, <1>8, GuiStep, TypesOf

LEMMA HandleFailureStep ==
  ASSUME IInv, HandleFailure
  PROVE  IInv'
  <1>1. /\ ui' = CloseRig(ui) /\ toRig' = toRig \o CloseEvents(ui)
        /\ toUI # <<>> /\ toUI' = RetryPosted(Head(toUI)) /\ obj' = obj
        /\ emitting' = emitting /\ radio' = radio /\ env' = env
    BY DEF HandleFailure
  <1>2. QueueInv(ui', toRig', obj')
    BY <1>1, ClosePosts DEF IInv
  <1>3. client' \in ClientType
    <2>1. client \in ClientType
      BY TypesOf
    <2>2. PICK first \in BOOLEAN :
             client' = [client EXCEPT !.firstError = first]
      BY DEF HandleFailure, RigFailed
    <2> QED
      BY <2>1, <2>2 DEF ClientType
  <1> QED
    BY <1>1, <1>2, <1>3, GuiStep, TypesOf

-----------------------------------------------------------------------------
(* The invariant is inductive.                                             *)

LEMMA InitIInv == Init => IInv
  <1> SUFFICES ASSUME Init PROVE IInv
    OBVIOUS
  <1> USE DEF Init
  <1>1. /\ ui \in Configuration /\ ui.cmd = 0 /\ ui.created = 0
        /\ ui.conns = {}
    <2>1. 0 \in 0..MaxObjects /\ ui.splitMode \in SplitModes
      BY BoundAssumption, ModesAssumption
    <2>2. ui = [active |-> FALSE, cmd |-> 0, cached |-> Offline, created |-> 0,
                conns |-> {}, splitMode |-> ui.splitMode, want |-> NoFreq]
      OBVIOUS
    <2> DEFINE m == ui.splitMode
    <2> HIDE DEF m
    <2>3. [active |-> FALSE, cmd |-> 0, cached |-> Offline, created |-> 0,
           conns |-> {}, splitMode |-> m, want |-> NoFreq] \in Configuration
      BY <2>1, OfflineType DEF Configuration, m
    <2> QED
      BY <2>2, <2>3 DEF m
  <1> DEFINE n == [NewObject("none") EXCEPT !.life = "none"]
  <1>2. /\ n \in Object /\ n.seq = 0 /\ n.life = "none"
        /\ ~n.requested.online
    <2>1. "none" \in SplitModes
      BY DEF SplitModes
    <2> QED
      BY <2>1, CreatedObject DEF Object
  <1>3. obj = [i \in Objects |-> n]
    OBVIOUS
  <1> HIDE DEF n
  <1>4. /\ obj \in [Objects -> Object]
        /\ \A i \in Objects : obj[i] = n
    BY <1>2, <1>3
  <1>5. toRig = <<>> /\ toRig \in Seq(Event) /\ Len(toRig) = 0
    OBVIOUS
  <1>6. /\ toUI = <<>> /\ toUI \in Seq(Signal) /\ Len(toUI) = 0
        /\ emitting = <<>> /\ emitting \in Seq(Signal) /\ Len(emitting) = 0
    OBVIOUS
  <1>7. client \in ClientType /\ env \in EnvType
    BY OfflineType DEF ClientType, EnvType
  <1>8. radio \in Radio /\ ~radio.ptt
    BY DEF Radio
  <1>9. QueueInv(ui, toRig, obj)
    <2>1. CommandsInOrder(ui, toRig, obj)
      BY <1>5 DEF CommandsInOrder
    <2>2. ObjectsCreated(ui, toRig, obj)
      BY <1>1, <1>2, <1>4, <1>5 DEF ObjectsCreated
    <2>3. StopIsLast(ui, toRig, obj)
      BY <1>1, <1>5 DEF StopIsLast
    <2> QED
      BY <1>1, <1>4, <1>5, <2>1, <2>2, <2>3 DEF QueueInv
  <1>10. TypeOK
    BY <1>1, <1>4, <1>5, <1>6, <1>7, <1>8 DEF TypeOK, ClientType, EnvType
  <1>11. SignalsBehind /\ NoOrphanPtt
    BY <1>6, <1>8 DEF SignalsBehind, Behind, NoOrphanPtt
  <1> QED
    BY <1>9, <1>10, <1>11 DEF IInv

LEMMA StutterIInv == IInv /\ UNCHANGED vars => IInv'
  BY DEF IInv, TypeOK, QueueInv, CommandsInOrder, ObjectsCreated, StopIsLast,
         SignalsBehind, Behind, NoOrphanPtt, Command, vars

LEMMA NextIInv == IInv /\ [Next]_vars => IInv'
  <1> SUFFICES ASSUME IInv, [Next]_vars
               PROVE  IInv'
    OBVIOUS
  <1>1. CASE GUI
    <2>1. CASE ForcedOpen
      BY <2>1, ForcedOpenStep
    <2>2. CASE UserClose
      BY <2>2, UserCloseStep
    <2>3. CASE ForceReset
      BY <2>3, ForceResetStep
    <2>4. ASSUME NEW f \in Freqs, SetFrequency(f)
          PROVE  IInv'
      BY <2>4, SetFrequencyStep
    <2>5. ASSUME NEW f \in Freqs \cup {NoFreq}, SetTxFrequency(f)
          PROVE  IInv'
      BY <2>5, SetTxFrequencyStep
    <2>6. ASSUME NEW on \in BOOLEAN, SetPtt(on)
          PROVE  IInv'
      BY <2>6, SetPttStep
    <2>7. ASSUME NEW on \in BOOLEAN, SetTune(on)
          PROVE  IInv'
      BY <2>7, SetTuneStep
    <2> QED
      BY <1>1, <2>1, <2>2, <2>3, <2>4, <2>5, <2>6, <2>7 DEF GUI
  <1>2. CASE Deliver
    BY <1>2, HandleUpdateStep, HandleFailureStep, RetryOpenStep DEF Deliver
  <1>3. CASE Thread
    BY <1>3, HandleSetStep, HandleStartStep, HandleStopStep, HandleDeleteStep,
       EmitNextStep DEF Thread
  <1>4. ASSUME NEW i \in Objects, Poll(i)
        PROVE  IInv'
    BY <1>4, PollStep
  <1>5. ASSUME NEW f \in Freqs, TurnDial(f)
        PROVE  IInv'
    BY <1>5, TurnDialStep
  <1>6. CASE UNCHANGED vars
    BY <1>6, StutterIInv
  <1> QED
    BY <1>1, <1>2, <1>3, <1>4, <1>5, <1>6 DEF Next

THEOREM Inductive == Spec => []IInv
  BY InitIInv, NextIInv, PTL DEF Spec

-----------------------------------------------------------------------------
(* What follows from it.                                                   *)

\* Every variable keeps its type: the settings, the queues, the objects and
\* their poll counters in Configuration and the transceiver thread.
THEOREM TypeCorrect == Spec => []TypeOK
  <1>1. IInv => TypeOK
    BY DEF IInv
  <1> QED
    BY <1>1, Inductive, PTL

\* The update that MainWindow is told of answers its last request
\* (Configuration::impl::handle_transceiver_update): the object that sent it
\* has no command left.
THEOREM AnswersAreCurrent == Spec => []AnswerIsCurrent
  <1>1. IInv => AnswerIsCurrent
    <2> SUFFICES ASSUME IInv, NEW k \in DOMAIN toUI, NEW l \in DOMAIN toRig,
                        toUI[k].seq = ui.cmd, Command(toRig[l]),
                        toUI[k].from \in toRig[l].to
                 PROVE  FALSE
      BY DEF AnswerIsCurrent
    <2>1. toUI \in Seq(Signal) /\ toRig \in Seq(Event) /\ ui \in Configuration
      BY DEF IInv, TypeOK
    <2>2. k \in 1..Len(toUI) /\ l \in 1..Len(toRig)
      BY <2>1
    <2> DEFINE i == toUI[k].from
    <2>3. i \in Objects /\ ui.cmd <= obj[i].seq
      BY <2>2 DEF IInv, SignalsBehind, Behind
    <2>4. toRig[l].seq <= ui.cmd /\ obj[i].seq < toRig[l].seq
      BY <2>2 DEF IInv, QueueInv, CommandsInOrder
    <2>5. /\ ui.cmd \in Nat /\ toRig[l].seq \in Nat /\ obj[i].seq \in Nat
      BY <2>1, <2>2, <2>3, QueueTypes DEF IInv, TypeOK, Configuration, Object
    <2> QED
      BY <2>3, <2>4, <2>5
  <1> QED
    BY <1>1, Inductive, PTL

\* TransceiverBase::shutdown and set: a transmitting radio has a connected
\* object, unless the command to leave transmit threw.
THEOREM PttHasOwner == Spec => []NoOrphanPtt
  <1>1. IInv => NoOrphanPtt
    BY DEF IInv
  <1> QED
    BY <1>1, Inductive, PTL

\* Configuration::impl::close_rig and finished: no event is delivered to an
\* object that has been deleted or was never created.
THEOREM NoEventForTheDead == Spec => []EventsReachLiveObjects
  <1>1. IInv => EventsReachLiveObjects
    <2> SUFFICES ASSUME IInv, NEW l \in DOMAIN toRig, NEW i \in toRig[l].to
                 PROVE  obj[i].life = "live"
      BY DEF EventsReachLiveObjects
    <2>1. toRig \in Seq(Event)
      BY DEF IInv, TypeOK
    <2>2. l \in 1..Len(toRig)
      BY <2>1
    <2> QED
      BY <2>2 DEF IInv, QueueInv, StopIsLast
  <1> QED
    BY <1>1, Inductive, PTL

-----------------------------------------------------------------------------
(* RigControl implements RigLink.                                          *)

\* The last command that every object has got to.
Done == [i \in Objects |-> obj[i].seq]

\* A step that leaves the numbers alone, or only issues new ones.
LEMMA LinkIssue ==
  ASSUME IInv, \A i \in Objects : obj'[i].seq = obj[i].seq,
         client'.seq = client.seq,
         ui'.cmd \in {ui.cmd, ui.cmd + 1, ui.cmd + 2}
  PROVE  [Link!LinkNext]_Link!linkVars
  <1>1. Done' = Done
    BY DEF Done
  <1> QED
    BY <1>1 DEF Link!LinkNext, Link!Issue, Link!linkVars, Done

LEMMA Numbers ==
  ASSUME NEW u \in Configuration
  PROVE  /\ CloseRig(u).cmd = u.cmd
         /\ OpenRig(u).cmd = u.cmd + 1
         /\ \A f : [OpenRig(u) EXCEPT !.want = f].cmd = u.cmd + 1
         /\ \A state : Requesting(u, state).cmd = u.cmd + 1
         /\ \A state, f : [Requesting(u, state) EXCEPT !.want = f].cmd = u.cmd + 1
         /\ \A state, f : [Requesting(OpenRig(u), state) EXCEPT !.want = f].cmd
                            = u.cmd + 2
  <1> DEFINE c == CloseRig(u)
             o == OpenRig(u)
  <1>1. c.cmd = u.cmd /\ c \in Configuration
    BY DEF CloseRig, Configuration
  <1> HIDE DEF c
  <1>2. o = [c EXCEPT !.active = TRUE, !.cmd = @ + 1, !.cached = Offline,
                      !.created = @ + 1, !.conns = @ \cup {u.created + 1}]
    BY DEF OpenRig, c
  <1> HIDE DEF o
  <1>3. /\ o.cmd = u.cmd + 1
        /\ \A f : [o EXCEPT !.want = f].cmd = u.cmd + 1
        /\ \A state : /\ [o EXCEPT !.cached = state, !.cmd = @ + 1].cmd
                            = u.cmd + 1 + 1
                      /\ \A f : [[o EXCEPT !.cached = state, !.cmd = @ + 1]
                                    EXCEPT !.want = f].cmd = u.cmd + 1 + 1
    BY <1>1, <1>2 DEF Configuration
  <1>4. u.cmd + 1 + 1 = u.cmd + 2
    BY DEF Configuration
  <1> QED
    BY <1>1, <1>3, <1>4 DEF Requesting, Configuration, c, o

LEMMA LinkRequest ==
  ASSUME IInv, NEW state, Request(state)
  PROVE  [Link!LinkNext]_Link!linkVars
  <1>1. ui \in Configuration
    BY DEF IInv, TypeOK
  <1>2. ui'.cmd = ui.cmd + 1 /\ obj' = obj /\ client' = client
    BY <1>1, Numbers DEF Request
  <1> QED
    BY <1>2, LinkIssue

\* A slot carries out the command it is given, or none.
LEMMA LinkCarryOut ==
  ASSUME IInv, NEW i \in Objects, NEW n \in Nat, Reaches(i, n),
         n = obj[i].seq \/ (obj[i].seq < n /\ n <= ui.cmd),
         ui' = ui, client' = client
  PROVE  [Link!LinkNext]_Link!linkVars
  <1>1. /\ \A j \in Objects : obj[j].seq \in Nat
        /\ ui.cmd \in Nat
    BY DEF IInv, TypeOK, Object, Configuration
  <1>2. Done' = [Done EXCEPT ![i] = n]
    BY DEF Done, Reaches
  <1>3. CASE n = obj[i].seq
    BY <1>3, LinkIssue DEF Reaches
  <1>4. CASE obj[i].seq < n /\ n <= ui.cmd
    <2>1. n \in (Done[i] + 1)..ui.cmd
      BY <1>1, <1>4 DEF Done
    <2> QED
      BY <1>2, <2>1 DEF Link!LinkNext, Link!CarryOut, Done
  <1> QED
    BY <1>3, <1>4

\* The command at the head has not been carried out by its receivers.
LEMMA HeadIsNext ==
  ASSUME IInv, toRig # <<>>, NEW i, First(i, Head(toRig)), Command(Head(toRig))
  PROVE  LET n == Head(toRig).seq IN
         n \in Nat /\ obj[i].seq < n /\ n <= ui.cmd
  <1> DEFINE m == Head(toRig)
  <1>1. toRig \in Seq(Event)
    BY DEF IInv, TypeOK
  <1>2. 1 \in 1..Len(toRig) /\ m = toRig[1]
    BY <1>1
  <1>3. i \in m.to /\ m.seq \in Nat
    BY Receiver
  <1> HIDE DEF m
  <1>4. obj[i].seq < m.seq /\ m.seq <= ui.cmd
    BY <1>2, <1>3 DEF IInv, QueueInv, CommandsInOrder, m
  <1> QED
    BY <1>3, <1>4 DEF m

LEMMA LinkInitial == Init => Link!LinkInit
  <1> SUFFICES ASSUME Init PROVE Link!LinkInit
    OBVIOUS
  <1>1. Done = [i \in Objects |-> 0]
    BY DEF Init, NewObject, Done
  <1>2. ui.cmd = 0 /\ client.seq = 0
    BY DEF Init
  <1> QED
    BY <1>1, <1>2 DEF Link!LinkInit, Done

LEMMA LinkGui ==
  ASSUME IInv, GUI
  PROVE  [Link!LinkNext]_Link!linkVars
  <1>1. ui \in Configuration
    BY DEF IInv, TypeOK
  <1>2. CASE ForcedOpen
    <2>1. ui'.cmd = ui.cmd + 1
      BY <1>1, <1>2, Numbers DEF ForcedOpen
    <2>2. \A i \in Objects : obj'[i].seq = obj[i].seq
      BY <1>2, CreationKeeps DEF ForcedOpen, CanOpen
    <2>3. client'.seq = client.seq
      BY <1>2 DEF ForcedOpen
    <2> QED
      BY <2>1, <2>2, <2>3, LinkIssue
  <1>3. CASE UserClose
    <2>1. ui'.cmd = ui.cmd
      BY <1>1, <1>3, Numbers DEF UserClose
    <2> QED
      BY <1>3, <2>1, LinkIssue DEF UserClose
  <1>4. CASE ForceReset
    <2>1. ui'.cmd = ui.cmd
      BY <1>1, <1>4 DEF ForceReset, Configuration
    <2> QED
      BY <1>4, <2>1, LinkIssue DEF ForceReset
  <1>5. ASSUME NEW f \in Freqs, SetFrequency(f)
        PROVE  [Link!LinkNext]_Link!linkVars
    <2>1. ui'.cmd \in {ui.cmd + 1, ui.cmd + 2}
      BY <1>1, <1>5, Numbers DEF SetFrequency
    <2>2. \A i \in Objects : obj'[i].seq = obj[i].seq
      BY <1>5, CreationKeeps DEF SetFrequency, CanOpen
    <2>3. client'.seq = client.seq
      BY <1>5 DEF SetFrequency
    <2> QED
      BY <2>1, <2>2, <2>3, LinkIssue
  <1>6. ASSUME NEW f \in Freqs \cup {NoFreq}, SetTxFrequency(f)
        PROVE  [Link!LinkNext]_Link!linkVars
    BY <1>6, LinkRequest DEF SetTxFrequency
  <1>7. ASSUME NEW on \in BOOLEAN, SetPtt(on)
        PROVE  [Link!LinkNext]_Link!linkVars
    BY <1>7, LinkRequest DEF SetPtt
  <1>8. ASSUME NEW on \in BOOLEAN, SetTune(on)
        PROVE  [Link!LinkNext]_Link!linkVars
    BY <1>8, LinkRequest DEF SetTune
  <1> QED
    BY <1>2, <1>3, <1>4, <1>5, <1>6, <1>7, <1>8 DEF GUI

LEMMA LinkRetry ==
  ASSUME IInv, RetryOpen
  PROVE  [Link!LinkNext]_Link!linkVars
  <1>1. ui \in Configuration
    BY DEF IInv, TypeOK
  <1>2. ui'.cmd \in {ui.cmd, ui.cmd + 1}
    <2>1. CASE ui.active \/ ~CanOpen(ui)
      BY <2>1 DEF RetryOpen
    <2>2. CASE ~ui.active /\ CanOpen(ui)
      <3>1. ui' = [OpenRig(ui) EXCEPT !.want = NoFreq]
        BY <2>2 DEF RetryOpen
      <3> QED
        BY <1>1, <3>1, Numbers
    <2> QED
      BY <2>1, <2>2
  <1>3. \A i \in Objects : obj'[i].seq = obj[i].seq
    BY CreationKeeps DEF RetryOpen, CanOpen
  <1>4. client'.seq = client.seq
    BY DEF RetryOpen
  <1> QED
    BY <1>2, <1>3, <1>4, LinkIssue

LEMMA LinkUpdate ==
  ASSUME IInv, HandleUpdate
  PROVE  [Link!LinkNext]_Link!linkVars
  <1> DEFINE h == Head(toUI)
             s == h.state
             x == [ui.cached EXCEPT !.online = s.online, !.freq = s.freq,
                                    !.split = s.split]
             u == [ui EXCEPT !.cached = x]
  <1>1. ui \in Configuration /\ toUI \in Seq(Signal)
    BY DEF IInv, TypeOK
  <1>2. toUI # <<>> /\ obj' = obj
    BY DEF HandleUpdate
  <1>3. ui' = u \/ ui' = CloseRig(u)
    <2>1. u = [ui EXCEPT !.cached.online = s.online, !.cached.freq = s.freq,
                         !.cached.split = s.split]
      BY <1>1 DEF Configuration
    <2> HIDE DEF u
    <2> QED
      BY <2>1 DEF HandleUpdate
  <1>4. ui'.cmd = ui.cmd
    <2> HIDE DEF x
    <2>1. u.cmd = ui.cmd /\ CloseRig(u).cmd = u.cmd
      BY <1>1 DEF CloseRig, Configuration
    <2> QED
      BY <1>3, <2>1
  <1>5. CASE ~Answers(h)
    <2>1. client' = client
      BY <1>5 DEF HandleUpdate
    <2> QED
      BY <1>2, <1>4, <2>1, LinkIssue
  <1>6. CASE Answers(h)
    <2>1. client'.seq = h.seq
      <3>1. client' = [client EXCEPT !.state = s, !.seq = h.seq]
        BY <1>6 DEF HandleUpdate
      <3> HIDE DEF h, s
      <3> QED
        BY <3>1 DEF IInv, TypeOK
    <2>2. h.seq = ui.cmd
      BY <1>6 DEF Answers
    <2>3. /\ h \in Signal /\ h.from \in Objects
          /\ h.seq <= obj[h.from].seq
      <3>1. 1 \in 1..Len(toUI) /\ h = toUI[1] /\ h \in Signal
        BY <1>1, <1>2
      <3> QED
        BY <3>1 DEF IInv, SignalsBehind, Behind
    <2> HIDE DEF h
    <2> DEFINE i == h.from
    <2>4. obj[i].seq = ui.cmd
      <3>1. obj[i].seq <= ui.cmd
        BY <2>3 DEF IInv, QueueInv, ObjectsCreated
      <3>2. obj[i].seq \in Nat /\ ui.cmd \in Nat
        BY <1>1, <2>3 DEF IInv, TypeOK, Object, Configuration
      <3> QED
        BY <2>2, <2>3, <3>1, <3>2
    <2>5. Done[i] = ui.cmd /\ Done' = Done
      BY <1>2, <2>3, <2>4 DEF Done
    <2>6. Link!Tell
      BY <1>4, <2>1, <2>2, <2>3, <2>5 DEF Link!Tell, Done
    <2> QED
      BY <2>6 DEF Link!LinkNext
  <1> QED
    BY <1>5, <1>6

LEMMA LinkDeliver ==
  ASSUME IInv, Deliver
  PROVE  [Link!LinkNext]_Link!linkVars
  <1>1. CASE HandleFailure
    <2>1. ui'.cmd = ui.cmd
      BY <1>1, Numbers DEF HandleFailure, IInv, TypeOK
    <2>2. client'.seq = client.seq
      BY <1>1 DEF HandleFailure, RigFailed, IInv, TypeOK
    <2> QED
      BY <1>1, <2>1, <2>2, LinkIssue DEF HandleFailure
  <1> QED
    BY <1>1, LinkUpdate, LinkRetry DEF Deliver

LEMMA LinkThread ==
  ASSUME IInv, NEW i \in Objects,
         HandleSet(i) \/ HandleStart(i) \/ HandleStop(i) \/ Poll(i)
  PROVE  [Link!LinkNext]_Link!linkVars
  <1>1. CASE HandleSet(i) \/ HandleStart(i)
    <2> DEFINE n == Head(toRig).seq
    <2>1. Reaches(i, n)
      BY <1>1, HandleSetStep, HandleStartStep
    <2>2. n \in Nat /\ obj[i].seq < n /\ n <= ui.cmd
      <3>1. toRig # <<>> /\ First(i, Head(toRig)) /\ Command(Head(toRig))
        BY <1>1 DEF HandleSet, HandleStart, Command
      <3> QED
        BY <3>1, HeadIsNext
    <2>3. ui' = ui /\ client' = client
      BY <1>1 DEF HandleSet, HandleStart
    <2> HIDE DEF n
    <2> QED
      BY <2>1, <2>2, <2>3, LinkCarryOut
  <1>2. CASE HandleStop(i) \/ Poll(i)
    <2>1. Reaches(i, obj[i].seq)
      BY <1>2, HandleStopStep, PollStep
    <2>2. obj[i].seq \in Nat
      BY DEF IInv, TypeOK, Object
    <2>3. ui' = ui /\ client' = client
      BY <1>2 DEF HandleStop, Poll
    <2> QED
      BY <2>1, <2>2, <2>3, LinkCarryOut
  <1> QED
    BY <1>1, <1>2

LEMMA LinkSame ==
  ASSUME IInv, HandleDelete \/ EmitNext \/ (\E f \in Freqs : TurnDial(f)) \/ UNCHANGED vars
  PROVE  [Link!LinkNext]_Link!linkVars
  <1>1. ui' = ui /\ client' = client
    BY DEF HandleDelete, EmitNext, TurnDial, vars
  <1>2. \A i \in Objects : obj'[i].seq = obj[i].seq
    <2>1. CASE HandleDelete
      BY <2>1, DeletionKeeps DEF IInv
    <2>2. CASE EmitNext \/ (\E f \in Freqs : TurnDial(f)) \/ UNCHANGED vars
      BY <2>2 DEF EmitNext, TurnDial, vars
    <2> QED
      BY <2>1, <2>2
  <1> QED
    BY <1>1, <1>2, LinkIssue

\* Numbered commands (Configuration::impl::transceiver_command_number_) are
\* carried out in order, each at most once, and MainWindow is told only of the
\* outcome of the last one: every step of RigControl is one of RigLink or none.
THEOREM LinkImplemented == Spec => ImplementsRigLink
  <1>1. Init => Link!LinkInit
    BY LinkInitial
  <1>2. IInv /\ [Next]_vars => [Link!LinkNext]_Link!linkVars
    <2> SUFFICES ASSUME IInv, [Next]_vars
                 PROVE  [Link!LinkNext]_Link!linkVars
      OBVIOUS
    <2> QED
      BY LinkGui, LinkDeliver, LinkThread, LinkSame DEF Next, Thread
  <1> QED
    BY <1>1, <1>2, Inductive, PTL DEF Spec, ImplementsRigLink, Link!LinkSpec

-----------------------------------------------------------------------------
(* One object after the other: as long as nothing disconnects rig_active_  *)
(* from the connections, the objects take the radio over in the order they *)
(* were created, each when its predecessor has stopped.                    *)

\* Every event has one receiver.
Single(q) == \A l \in 1..Len(q) : \E i \in Objects : q[l].to = {i}

Pending(q, i) == \E l \in 1..Len(q) : q[l].op # "delete" /\ i \in q[l].to

\* Only the latest object that has got a command can be connected.
Superseded(q, ob) ==
  \A i, j \in Objects :
     i < j /\ ob[j].seq # 0 =>
        ~ob[i].requested.online /\ ~ob[i].polling /\ ~Pending(q, i)

Fresh(o) ==
  o.requested = Offline /\ o.actual = Offline /\ o.next = Offline /\ ~o.polling

Untouched(ob) == \A i \in Objects : ob[i].seq = 0 => Fresh(ob[i])

\* The events are in the order of their receivers.
Ordered(q) ==
  \A k, l \in 1..Len(q) :
     k < l /\ q[k].op # "delete" /\ q[l].op # "delete" =>
        \A i \in q[k].to, j \in q[l].to : i <= j

Connected(u) == u.conns = IF u.active THEN {u.created} ELSE {}

\* A disconnected object that is connected to the radio, or going to be, has
\* its stop in the queue.
Commanded(q, i) == \E l \in 1..Len(q) : Command(q[l]) /\ i \in q[l].to

Stopped(q, i) == \E l \in 1..Len(q) : q[l].op = "stop" /\ i \in q[l].to

Stopping(u, q, ob) ==
  \A i \in Objects :
     i \notin u.conns /\ (ob[i].requested.online \/ Commanded(q, i))
     => Stopped(q, i)

\* Without a split mode no transmit frequency is ever asked for.
Unsplit(u, q) ==
  u.splitMode = "none" =>
     u.cached.tx = NoFreq /\ \A l \in 1..Len(q) : q[l].state.tx = NoFreq

OneMode(u, ob) == \A i \in Objects : i <= u.created => ob[i].mode = u.splitMode

Succession(u, q, ob) ==
  /\ Single(q) /\ Superseded(q, ob) /\ Untouched(ob) /\ Ordered(q)
  /\ Connected(u) /\ Stopping(u, q, ob) /\ Unsplit(u, q) /\ OneMode(u, ob)

\* Objects are numbered in the order of their creation.
LEMMA ObjectsAreNumbers == \A i \in Objects : i \in Nat
  BY BoundAssumption DEF Objects

\* An object that has not been created has got nothing.
LEMMA LaterIsUntouched ==
  ASSUME NEW u, NEW q, NEW ob, QueueInv(u, q, ob), NEW i \in Objects, u.created < i
  PROVE  ob[i].seq = 0 /\ ~ob[i].requested.online
  BY DEF QueueInv, ObjectsCreated

\* One more event at the end, which is not a deletion, for the last object.
LEMMA PostSucceeds ==
  ASSUME NEW u, NEW q, NEW ob, QueueInv(u, q, ob), Succession(u, q, ob), u.active,
         NEW e \in Event, e.to = {u.created},
         u.splitMode = "none" => e.state.tx = NoFreq
  PROVE  LET r == Append(q, e) IN
         /\ Single(r) /\ Superseded(r, ob) /\ Ordered(r)
         /\ u.splitMode = "none" => \A l \in 1..Len(r) : r[l].state.tx = NoFreq
         /\ \A i \in Objects : i # u.created =>
              /\ Commanded(r, i) => Commanded(q, i)
              /\ Stopped(q, i) => Stopped(r, i)
         /\ e.op = "stop" => Stopped(r, u.created)
  <1> DEFINE r == Append(q, e)
  <1>1. /\ q \in Seq(Event) /\ Len(r) = Len(q) + 1 /\ Len(q) \in Nat
        /\ \A l \in 1..Len(q) : r[l] = q[l]
        /\ r[Len(q) + 1] = e
    BY DEF QueueInv
  <1> HIDE DEF r
  <1>2. u.created \in Objects /\ u.created \in Nat
    <2>1. u.conns = {u.created} /\ u.conns \subseteq Objects
      BY DEF Succession, Connected, QueueInv, Configuration
    <2> QED
      BY <2>1, ObjectsAreNumbers
  <1>3. Single(r)
    BY <1>1, <1>2 DEF Succession, Single
  <1>4. \A i \in Objects : i # u.created => (Pending(r, i) => Pending(q, i))
    BY <1>1 DEF Pending
  <1>5. Superseded(r, ob)
    <2> SUFFICES ASSUME NEW i \in Objects, NEW j \in Objects, i < j, ob[j].seq # 0
                 PROVE  ~ob[i].requested.online /\ ~ob[i].polling /\ ~Pending(r, i)
      BY DEF Superseded
    <2>1. i # u.created
      BY LaterIsUntouched
    <2> QED
      BY <1>4, <2>1 DEF Succession, Superseded
  <1>6. Ordered(r)
    <2> SUFFICES ASSUME NEW k \in 1..Len(r), NEW l \in 1..Len(r), k < l,
                        r[k].op # "delete", r[l].op # "delete",
                        NEW i \in r[k].to, NEW j \in r[l].to
                 PROVE  i <= j
      BY DEF Ordered
    <2>1. k \in 1..Len(q) /\ r[k] = q[k]
      BY <1>1
    <2>2. CASE l = Len(q) + 1
      BY <1>1, <2>1, <2>2 DEF QueueInv, ObjectsCreated
    <2>3. CASE l \in 1..Len(q)
      BY <1>1, <2>1, <2>3 DEF Succession, Ordered
    <2> QED
      BY <1>1, <2>2, <2>3
  <1>7. u.splitMode = "none" => \A l \in 1..Len(r) : r[l].state.tx = NoFreq
    BY <1>1 DEF Succession, Unsplit
  <1>8. ASSUME NEW i \in Objects, i # u.created
        PROVE  /\ Commanded(r, i) => Commanded(q, i)
               /\ Stopped(q, i) => Stopped(r, i)
    BY <1>1, <1>8 DEF Commanded, Stopped
  <1>9. e.op = "stop" => Stopped(r, u.created)
    <2>1. Len(q) + 1 \in 1..Len(r)
      BY <1>1
    <2> QED
      BY <1>1, <2>1 DEF Stopped
  <1> QED
    BY <1>3, <1>5, <1>6, <1>7, <1>8, <1>9 DEF r

\* close_rig: the stop comes last, and the object is disconnected.
LEMMA CloseSucceeds ==
  ASSUME NEW u, NEW q, NEW ob, QueueInv(u, q, ob), Succession(u, q, ob)
  PROVE  Succession(CloseRig(u), q \o CloseEvents(u), ob)
  <1> DEFINE v == [u EXCEPT !.active = FALSE, !.conns = {}]
             e == [op |-> "stop", to |-> u.conns, state |-> Offline, seq |-> u.cmd]
  <1>1. q \in Seq(Event) /\ u \in Configuration
    BY DEF QueueInv
  <1>2. CASE ~u.active
    <2>1. CloseRig(u) = u /\ CloseEvents(u) = <<>> /\ q \o <<>> = q
      BY <1>1, <1>2 DEF CloseRig, CloseEvents
    <2> QED
      BY <2>1
  <1>3. CASE u.active
    <2>1. /\ v.created = u.created /\ v.conns = {} /\ v.active = FALSE
          /\ v.splitMode = u.splitMode /\ v.cached = u.cached
      BY <1>1 DEF Configuration
    <2>2. CloseRig(u) = v
      BY <1>3 DEF CloseRig
    <2> HIDE DEF v
    <2>3. u.conns = {u.created}
      BY <1>3 DEF Succession, Connected
    <2>4. /\ e \in Event /\ e.to = {u.created} /\ e.op = "stop" /\ e.state.tx = NoFreq
      BY <1>1, <2>3, OfflineType DEF Event, Configuration, Offline
    <2>5. q \o CloseEvents(u) = Append(q, e)
      <3>1. u.conns # {}
        BY <2>3
      <3> QED
        BY <1>3, <3>1 DEF CloseEvents, Post
    <2> HIDE DEF e
    <2> DEFINE r == Append(q, e)
    <2>6. /\ Single(r) /\ Superseded(r, ob) /\ Ordered(r)
          /\ u.splitMode = "none" => \A l \in 1..Len(r) : r[l].state.tx = NoFreq
          /\ \A i \in Objects : i # u.created =>
               /\ Commanded(r, i) => Commanded(q, i)
               /\ Stopped(q, i) => Stopped(r, i)
          /\ Stopped(r, u.created)
      BY <1>3, <2>4, PostSucceeds
    <2> HIDE DEF r
    <2>7. Stopping(v, r, ob)
      BY <2>3, <2>6 DEF Succession, Stopping
    <2>8. Succession(v, r, ob)
      BY <2>1, <2>6, <2>7 DEF Succession, Connected, Unsplit, OneMode
    <2> QED
      BY <2>2, <2>5, <2>8 DEF r
  <1> QED
    BY <1>2, <1>3

\* A command for the object that is connected, if there is one.
LEMMA CommandSucceeds ==
  ASSUME NEW u, NEW q, NEW ob, QueueInv(u, q, ob), Succession(u, q, ob),
         NEW v \in Configuration, v.created = u.created, v.conns = u.conns,
         v.active = u.active, v.splitMode = u.splitMode,
         NEW op \in {"set", "start"}, NEW state \in TransceiverState,
         v.splitMode = "none" => v.cached.tx = NoFreq /\ state.tx = NoFreq
  PROVE  Succession(v, q \o Post(op, v, state), ob)
  <1> DEFINE e == [op |-> op, to |-> v.conns, state |-> state, seq |-> v.cmd]
  <1>1. q \in Seq(Event)
    BY DEF QueueInv
  <1>2. CASE ~u.active
    <2>1. v.conns = {}
      BY <1>2 DEF Succession, Connected
    <2>2. Post(op, v, state) = <<>> /\ q \o <<>> = q
      BY <1>1, <2>1 DEF Post
    <2> QED
      BY <2>2 DEF Succession, Connected, Stopping, Unsplit, OneMode
  <1>3. CASE u.active
    <2>1. u.conns = {u.created}
      BY <1>3 DEF Succession, Connected
    <2>2. e \in Event /\ e.to = {u.created} /\ e.state = state
      BY <2>1 DEF Event, Configuration
    <2>3. q \o Post(op, v, state) = Append(q, e)
      BY <1>1, <2>1 DEF Post
    <2> HIDE DEF e
    <2> DEFINE r == Append(q, e)
    <2>4. /\ Single(r) /\ Superseded(r, ob) /\ Ordered(r)
          /\ u.splitMode = "none" => \A l \in 1..Len(r) : r[l].state.tx = NoFreq
          /\ \A i \in Objects : i # u.created =>
               /\ Commanded(r, i) => Commanded(q, i)
               /\ Stopped(q, i) => Stopped(r, i)
      BY <1>3, <2>2, PostSucceeds
    <2> HIDE DEF r
    <2>5. Stopping(v, r, ob)
      BY <2>1, <2>4 DEF Succession, Stopping
    <2>6. Succession(v, r, ob)
      BY <2>4, <2>5 DEF Succession, Connected, Unsplit, OneMode
    <2> QED
      BY <2>3, <2>6 DEF r
  <1> QED
    BY <1>2, <1>3

\* A request of MainWindow, which may have to open the rig first.
LEMMA RequestSucceeds ==
  ASSUME NEW u, NEW q, NEW ob, QueueInv(u, q, ob), Succession(u, q, ob),
         NEW state \in TransceiverState, u.splitMode = "none" => state.tx = NoFreq
  PROVE  Succession(Requesting(u, state), q \o RequestEvents(u, state), ob)
  <1> DEFINE v == Requesting(u, state)
             s == [state EXCEPT !.online = TRUE]
             n == u.cmd + 1
             w == [u EXCEPT !.cached = s, !.cmd = n]
  <1>1. s \in TransceiverState /\ s.tx = state.tx
    BY DEF TransceiverState
  <1>2. v = w
    BY DEF Requesting
  <1>3. u \in Configuration /\ n \in Nat
    BY DEF QueueInv, Configuration
  <1> HIDE DEF s, n, v
  <1>4. /\ w \in Configuration /\ w.created = u.created /\ w.conns = u.conns
        /\ w.cached = s /\ w.active = u.active /\ w.splitMode = u.splitMode
    BY <1>1, <1>3 DEF Configuration
  <1>5. RequestEvents(u, state) = Post("set", v, s)
    BY <1>2, <1>4 DEF RequestEvents, v
  <1> HIDE DEF w
  <1>6. Succession(w, q \o Post("set", w, s), ob)
    BY <1>1, <1>4, CommandSucceeds
  <1> QED
    BY <1>2, <1>5, <1>6 DEF v

\* A new object takes the place of a closed one.
LEMMA ConnectSucceeds ==
  ASSUME NEW u, NEW q, NEW ob, QueueInv(u, q, ob), Succession(u, q, ob),
         u.created < MaxObjects, u.conns = {},
         NEW v \in Configuration, v.active, v.created = u.created + 1,
         v.conns = {u.created + 1}, v.splitMode = u.splitMode,
         v.cached.tx = NoFreq
  PROVE  Succession(v, q, [ob EXCEPT ![u.created + 1] = NewObject(u.splitMode)])
  <1> DEFINE x == u.created + 1
             o == NewObject(u.splitMode)
             oc == [ob EXCEPT ![x] = o]
  <1>1. /\ u.created \in Nat /\ x \in Objects /\ x \in Nat
        /\ ob \in [Objects -> Object] /\ q \in Seq(Event)
    BY BoundAssumption DEF QueueInv, Configuration, Objects
  <1>2. /\ o.seq = 0 /\ Fresh(o) /\ ~o.requested.online /\ o.mode = u.splitMode
    BY DEF NewObject, Fresh, Offline
  <1> HIDE DEF o
  <1>3. /\ oc[x] = o
        /\ \A i \in Objects : i # x => oc[i] = ob[i]
    BY <1>1
  <1> HIDE DEF oc
  <1>4. ~Pending(q, x) /\ ~Commanded(q, x)
    BY <1>1 DEF QueueInv, ObjectsCreated, Pending, Commanded
  <1>5. ob[x].seq = 0
    BY <1>1, LaterIsUntouched
  <1>6. Superseded(q, oc)
    <2> SUFFICES ASSUME NEW i \in Objects, NEW j \in Objects, i < j, oc[j].seq # 0
                 PROVE  ~oc[i].requested.online /\ ~oc[i].polling /\ ~Pending(q, i)
      BY DEF Superseded
    <2>1. j # x /\ oc[j] = ob[j]
      BY <1>2, <1>3
    <2>2. i # x
      <3>1. ~(u.created < j)
        BY <2>1, LaterIsUntouched
      <3> QED
        BY <1>1, <3>1, ObjectsAreNumbers
    <2> QED
      BY <1>3, <2>1, <2>2 DEF Succession, Superseded
  <1>7. Untouched(oc)
    BY <1>2, <1>3 DEF Succession, Untouched
  <1>8. Stopping(v, q, oc)
    BY <1>3 DEF Succession, Stopping
  <1>9. OneMode(v, oc)
    BY <1>1, <1>2, <1>3, ObjectsAreNumbers DEF Succession, OneMode
  <1>10. Connected(v) /\ Unsplit(v, q)
    BY DEF Succession, Connected, Unsplit
  <1> QED
    BY <1>6, <1>7, <1>8, <1>9, <1>10 DEF Succession, oc, o

\* open_rig: the old object is closed, the new one gets start and, perhaps, a set.
LEMMA OpenSucceeds ==
  ASSUME NEW u, NEW q, NEW ob, QueueInv(u, q, ob), Succession(u, q, ob), CanOpen(u)
  PROVE  Succession(OpenRig(u), q \o OpenEvents(u),
                    [ob EXCEPT ![u.created + 1] = NewObject(u.splitMode)])
  <1> DEFINE c == CloseRig(u)
             r == q \o CloseEvents(u)
             v == OpenRig(u)
             w == [v EXCEPT !.cmd = u.cmd]
             oc == [ob EXCEPT ![u.created + 1] = NewObject(u.splitMode)]
  <1>1. u \in Configuration /\ u.created < MaxObjects
    BY DEF QueueInv, CanOpen
  <1>2. /\ c \in Configuration /\ c.cmd = u.cmd /\ c.created = u.created
        /\ c.splitMode = u.splitMode /\ ~c.active
    BY <1>1 DEF CloseRig, Configuration
  <1>3. QueueInv(c, r, ob) /\ Succession(c, r, ob)
    BY ClosePosts, CloseSucceeds
  <1> HIDE DEF c
  <1>4. c.conns = {}
    BY <1>2, <1>3 DEF Succession, Connected
  <1>5. /\ v \in Configuration /\ v.cmd = c.cmd + 1 /\ v.active
        /\ v.created = c.created + 1 /\ v.conns = {c.created + 1}
        /\ v.splitMode = c.splitMode /\ v.cached = Offline
    <2>1. v = [c EXCEPT !.active = TRUE, !.cmd = @ + 1, !.cached = Offline,
                        !.created = @ + 1, !.conns = @ \cup {u.created + 1}]
      BY DEF OpenRig, c
    <2> HIDE DEF v
    <2> DEFINE n == c.cmd + 1
               m == c.created + 1
               s == c.conns \cup {m}
               x == [c EXCEPT !.active = TRUE, !.cmd = n, !.cached = Offline,
                              !.created = m, !.conns = s]
    <2>2. /\ n \in Nat /\ m \in 0..MaxObjects /\ m \in Objects
      BY <1>1, <1>2, BoundAssumption DEF Configuration, Objects
    <2>3. s \in SUBSET Objects /\ s = {m}
      BY <1>4, <2>2
    <2>4. v = x
      BY <1>2, <2>1
    <2> HIDE DEF n, m, s
    <2>5. /\ x \in Configuration /\ x.cmd = n /\ x.created = m /\ x.conns = s
          /\ x.active = TRUE /\ x.splitMode = c.splitMode /\ x.cached = Offline
      BY <1>2, <2>2, <2>3, OfflineType DEF Configuration
    <2> QED
      BY <2>3, <2>4, <2>5 DEF n, m
  <1>6. /\ w \in Configuration /\ w.cmd = c.cmd /\ w.created = v.created
        /\ w.conns = v.conns /\ w.active = v.active /\ w.splitMode = v.splitMode
        /\ w.cached = v.cached
    <2> HIDE DEF v
    <2> QED
      BY <1>1, <1>2, <1>5 DEF Configuration
  <1>7. OpenEvents(u) = CloseEvents(u) \o Post("start", v, Offline)
    BY DEF OpenEvents
  <1>8. Offline.tx = NoFreq
    BY DEF Offline
  <1> HIDE DEF v, w, r, oc
  <1>9. QueueInv(w, r, oc)
    BY <1>1, <1>2, <1>3, <1>4, <1>5, <1>6, ConnectKeeps DEF oc
  <1>10. Succession(w, r, oc)
    BY <1>1, <1>2, <1>3, <1>4, <1>5, <1>6, <1>8, ConnectSucceeds DEF oc
  <1>11. Succession(v, r \o Post("start", v, Offline), oc)
    BY <1>5, <1>6, <1>8, <1>9, <1>10, CommandSucceeds, OfflineType
  <1>12. r \o Post("start", v, Offline) = q \o OpenEvents(u)
    <2>1. q \in Seq(Event)
      BY DEF QueueInv
    <2>2. CloseEvents(u) \in Seq(Event)
      BY <1>1, OfflineType, PostType DEF CloseEvents
    <2>3. Post("start", v, Offline) \in Seq(Event)
      BY <1>5, OfflineType, PostType
    <2> QED
      BY <1>7, <2>1, <2>2, <2>3, ConcatAssociative DEF r
  <1> QED
    BY <1>11, <1>12 DEF v, oc

\* The object that the radio is left to.
Owner(ob, i) == ob[i].seq # 0 /\ \A j \in Objects : i < j => ob[j].seq = 0

\* An event has been handled that leaves the object as it was.
LEMMA TailSucceeds ==
  ASSUME NEW u, NEW q \in Seq(Event), NEW ob, Succession(u, q, ob), q # <<>>
  PROVE  LET r == Tail(q) IN
         /\ Single(r) /\ Ordered(r) /\ Superseded(r, ob) /\ Unsplit(u, r)
         /\ \A i : Commanded(r, i) => Commanded(q, i)
         /\ \A i : Stopped(q, i) => Stopped(r, i)
                                    \/ (Head(q).op = "stop" /\ i \in Head(q).to)
  <1> DEFINE r == Tail(q)
  <1>1. /\ r \in Seq(Event) /\ Len(q) = Len(r) + 1 /\ Len(r) \in Nat
        /\ \A l \in 1..Len(r) : r[l] = q[l + 1] /\ l + 1 \in 1..Len(q)
        /\ \A l \in 1..Len(q) : l # 1 => l - 1 \in 1..Len(r) /\ r[l - 1] = q[l]
        /\ Head(q) = q[1]
    OBVIOUS
  <1> HIDE DEF r
  <1>2. Single(r)
    <2>1. \A l \in 1..Len(q) : \E i \in Objects : q[l].to = {i}
      BY DEF Succession, Single
    <2> QED
      BY <1>1, <2>1 DEF Single
  <1>3. Ordered(r)
    <2> SUFFICES ASSUME NEW k \in 1..Len(r), NEW l \in 1..Len(r), k < l,
                        r[k].op # "delete", r[l].op # "delete"
                 PROVE  \A i \in r[k].to, j \in r[l].to : i <= j
      BY DEF Ordered
    <2>1. /\ k + 1 \in 1..Len(q) /\ l + 1 \in 1..Len(q) /\ k + 1 < l + 1
          /\ r[k] = q[k + 1] /\ r[l] = q[l + 1]
      BY <1>1
    <2> QED
      BY <2>1 DEF Succession, Ordered
  <1>4. Superseded(r, ob)
    <2>1. \A i : Pending(r, i) => Pending(q, i)
      BY <1>1 DEF Pending
    <2> QED
      BY <2>1 DEF Succession, Superseded
  <1>5. Unsplit(u, r)
    BY <1>1 DEF Succession, Unsplit
  <1>6. \A i : Commanded(r, i) => Commanded(q, i)
    BY <1>1 DEF Commanded
  <1>7. \A i : Stopped(q, i) => Stopped(r, i)
                                \/ (Head(q).op = "stop" /\ i \in Head(q).to)
    BY <1>1 DEF Stopped
  <1> QED
    BY <1>2, <1>3, <1>4, <1>5, <1>6, <1>7 DEF r

\* No older object than the receiver of the event at the head is waited for.
LEMMA HeadIsOldest ==
  ASSUME NEW u, NEW q \in Seq(Event), NEW ob, Succession(u, q, ob), q # <<>>,
         NEW i \in Objects, Head(q).to = {i}, Head(q).op # "delete",
         NEW h \in Objects, Pending(q, h)
  PROVE  i <= h
  <1>1. 1 \in 1..Len(q) /\ Head(q) = q[1]
    OBVIOUS
  <1>2. PICK l \in 1..Len(q) : q[l].op # "delete" /\ h \in q[l].to
    BY DEF Pending
  <1>3. CASE l = 1
    BY <1>1, <1>2, <1>3, ObjectsAreNumbers
  <1>4. CASE l # 1
    BY <1>1, <1>2, <1>4 DEF Succession, Ordered
  <1> QED
    BY <1>3, <1>4

\* An object that gets a command has the radio to itself.
LEMMA TakesOver ==
  ASSUME NEW u, NEW q, NEW ob, QueueInv(u, q, ob), Succession(u, q, ob), q # <<>>,
         NEW i \in Objects, Head(q).to = {i}, Command(Head(q)),
         \A j \in Objects : Owner(ob, j) => Blank(ob[j])
  PROVE  /\ \A j \in Objects : i < j => ob[j].seq = 0
         /\ \A j \in Objects : j # i => ~ob[j].requested.online
         /\ \A j \in Objects : j < i => ~ob[j].polling /\ ~Pending(q, j)
  <1>1. q \in Seq(Event) /\ Head(q).op # "delete"
    BY DEF QueueInv, Command
  <1>2. 1 \in 1..Len(q) /\ Head(q) = q[1]
    BY <1>1
  <1>3. Pending(q, i)
    BY <1>1, <1>2 DEF Pending
  <1>4. \A j \in Objects : i < j => ob[j].seq = 0
    BY <1>3 DEF Succession, Superseded
  <1>5. ASSUME NEW j \in Objects, j < i
        PROVE  ~Pending(q, j)
    <2>1. Pending(q, j) => i <= j
      BY <1>1, HeadIsOldest
    <2> QED
      BY <1>5, <2>1, ObjectsAreNumbers
  <1>6. ASSUME NEW j \in Objects, j < i
        PROVE  ~ob[j].requested.online
    <2>1. i <= u.created /\ u.created \in Nat
      BY <1>2 DEF QueueInv, ObjectsCreated, Configuration
    <2>2. j \notin u.conns
      BY <1>6, <2>1, ObjectsAreNumbers DEF Succession, Connected
    <2>3. ~Stopped(q, j)
      BY <1>5, <1>6 DEF Pending, Stopped
    <2> QED
      BY <2>2, <2>3 DEF Succession, Stopping
  <1>7. ASSUME NEW j \in Objects, i < j
        PROVE  ~ob[j].requested.online
    BY <1>4, <1>7 DEF Succession, Untouched, Fresh, Offline
  <1>8. ASSUME NEW j \in Objects, j < i
        PROVE  ~ob[j].polling
    <2>1. CASE ob[j].seq = 0
      BY <2>1 DEF Succession, Untouched, Fresh
    <2>2. CASE Owner(ob, j)
      BY <1>6, <1>8, <2>2 DEF Blank
    <2>3. CASE ob[j].seq # 0 /\ ~Owner(ob, j)
      BY <2>3 DEF Owner, Succession, Superseded
    <2> QED
      BY <2>1, <2>2, <2>3
  <1> QED
    BY <1>4, <1>5, <1>6, <1>7, <1>8, ObjectsAreNumbers

\* An object carries out a command: all older ones have stopped.
LEMMA CommandHandled ==
  ASSUME NEW u, NEW q, NEW ob, QueueInv(u, q, ob), Succession(u, q, ob), q # <<>>,
         NEW i \in Objects, Head(q).to = {i}, Command(Head(q)),
         \A j \in Objects : Owner(ob, j) => Blank(ob[j]),
         NEW o \in Object, o.mode = ob[i].mode, o.seq # 0
  PROVE  Succession(u, Tail(q), [ob EXCEPT ![i] = o])
  <1> DEFINE oc == [ob EXCEPT ![i] = o]
             r == Tail(q)
  <1>1. q \in Seq(Event) /\ Head(q).op \notin {"delete", "stop"}
        /\ ob \in [Objects -> Object]
    BY DEF QueueInv, Command
  <1>2. 1 \in 1..Len(q) /\ Head(q) = q[1]
    BY <1>1
  <1>3. oc[i] = o /\ \A j \in Objects : j # i => oc[j] = ob[j]
    BY <1>1
  <1> HIDE DEF oc
  <1>4. /\ \A j \in Objects : i < j => ob[j].seq = 0
        /\ \A j \in Objects : j # i => ~ob[j].requested.online
        /\ \A j \in Objects : j < i => ~ob[j].polling /\ ~Pending(q, j)
    BY TakesOver
  <1>5. /\ Single(r) /\ Ordered(r) /\ Superseded(r, ob) /\ Unsplit(u, r)
        /\ \A j : Commanded(r, j) => Commanded(q, j)
        /\ \A j : Stopped(q, j) => Stopped(r, j)
    BY <1>1, TailSucceeds
  <1>6. r \in Seq(Event) /\ \A j : Pending(r, j) => Pending(q, j)
    <2>1. /\ r \in Seq(Event)
          /\ \A l \in 1..Len(r) : l + 1 \in 1..Len(q) /\ r[l] = q[l + 1]
      BY <1>1
    <2> QED
      BY <2>1 DEF Pending
  <1> HIDE DEF r
  <1>7. Superseded(r, oc)
    <2> SUFFICES ASSUME NEW h \in Objects, NEW j \in Objects, h < j, oc[j].seq # 0
                 PROVE  ~oc[h].requested.online /\ ~oc[h].polling /\ ~Pending(r, h)
      BY DEF Superseded
    <2>1. j <= i
      BY <1>3, <1>4, ObjectsAreNumbers
    <2>2. h < i /\ h # i
      BY <2>1, ObjectsAreNumbers
    <2> QED
      BY <1>3, <1>4, <1>6, <2>2
  <1>8. Untouched(oc)
    BY <1>3 DEF Succession, Untouched
  <1>9. Stopping(u, r, oc)
    <2> SUFFICES ASSUME NEW j \in Objects, j \notin u.conns,
                        oc[j].requested.online \/ Commanded(r, j)
                 PROVE  Stopped(r, j)
      BY DEF Stopping
    <2>1. ob[j].requested.online \/ Commanded(q, j)
      <3>1. CASE j = i
        BY <1>2, <3>1 DEF Commanded
      <3>2. CASE j # i
        BY <1>3, <1>5, <3>2
      <3> QED
        BY <3>1, <3>2
    <2> QED
      BY <1>5, <2>1 DEF Succession, Stopping
  <1>10. OneMode(u, oc)
    BY <1>3 DEF Succession, OneMode
  <1> QED
    BY <1>5, <1>7, <1>8, <1>9, <1>10 DEF Succession, oc, r

\* A stopped object rests until it is deleted.
LEMMA StopHandled ==
  ASSUME NEW u, NEW q, NEW ob, QueueInv(u, q, ob), Succession(u, q, ob), q # <<>>,
         NEW i \in Objects, Head(q).to = {i}, Head(q).op = "stop",
         NEW o \in Object, o.mode = ob[i].mode, o.seq = ob[i].seq,
         ~o.requested.online, ~o.polling, o.seq = 0 => Fresh(o)
  PROVE  Succession(u, Append(Tail(q), [op |-> "delete", to |-> {i},
                                        state |-> Offline, seq |-> 0]),
                    [ob EXCEPT ![i] = o])
  <1> DEFINE oc == [ob EXCEPT ![i] = o]
             t == Tail(q)
             e == [op |-> "delete", to |-> {i}, state |-> Offline, seq |-> 0]
             r == Append(t, e)
  <1>1. q \in Seq(Event) /\ ob \in [Objects -> Object]
    BY DEF QueueInv, Command
  <1>2. 1 \in 1..Len(q) /\ Head(q) = q[1]
    BY <1>1
  <1>3. oc[i] = o /\ \A j \in Objects : j # i => oc[j] = ob[j]
    BY <1>1
  <1> HIDE DEF oc
  <1>4. /\ Single(t) /\ Ordered(t) /\ Superseded(t, ob) /\ Unsplit(u, t)
        /\ \A j : Commanded(t, j) => Commanded(q, j)
        /\ \A j : Stopped(q, j) => Stopped(t, j) \/ j = i
    BY <1>1, TailSucceeds
  <1>5. t \in Seq(Event) /\ \A l \in 1..Len(t) : l + 1 \in 1..Len(q) /\ t[l] = q[l + 1]
    BY <1>1
  <1>6. e \in Event /\ e.to = {i} /\ e.op = "delete" /\ e.state.tx = NoFreq
    BY OfflineType DEF Event, Offline
  <1> HIDE DEF t, e
  <1>7. /\ r \in Seq(Event) /\ Len(r) = Len(t) + 1 /\ Len(t) \in Nat
        /\ \A l \in 1..Len(t) : r[l] = t[l]
        /\ r[Len(t) + 1] = e
    BY <1>5, <1>6
  <1> HIDE DEF r
  <1>8. \A j : /\ Pending(r, j) => Pending(t, j)
               /\ Commanded(r, j) => Commanded(t, j)
               /\ Stopped(t, j) => Stopped(r, j)
    <2>1. ASSUME NEW l \in 1..Len(r), r[l].op # "delete"
          PROVE  l \in 1..Len(t) /\ r[l] = t[l]
      BY <1>6, <1>7, <2>1
    <2>2. \A l \in 1..Len(t) : l \in 1..Len(r)
      BY <1>7
    <2> QED
      BY <1>7, <2>1, <2>2 DEF Pending, Commanded, Stopped, Command
  <1>9. Single(r)
    BY <1>4, <1>6, <1>7 DEF Single
  <1>10. Ordered(r)
    <2> SUFFICES ASSUME NEW k \in 1..Len(r), NEW l \in 1..Len(r), k < l,
                        r[k].op # "delete", r[l].op # "delete"
                 PROVE  \A h \in r[k].to, j \in r[l].to : h <= j
      BY DEF Ordered
    <2>1. k \in 1..Len(t) /\ l \in 1..Len(t) /\ r[k] = t[k] /\ r[l] = t[l]
      BY <1>6, <1>7, SMTT(20)
    <2> QED
      BY <1>4, <2>1 DEF Ordered
  <1>11. Superseded(r, oc)
    <2> SUFFICES ASSUME NEW h \in Objects, NEW j \in Objects, h < j, oc[j].seq # 0
                 PROVE  ~oc[h].requested.online /\ ~oc[h].polling /\ ~Pending(r, h)
      BY DEF Superseded
    <2>1. ob[j].seq # 0
      BY <1>3
    <2>2. ~ob[h].requested.online /\ ~ob[h].polling /\ ~Pending(t, h)
      BY <1>4, <2>1 DEF Superseded
    <2> QED
      BY <1>3, <1>8, <2>2
  <1>12. Untouched(oc)
    BY <1>3 DEF Succession, Untouched
  <1>13. Stopping(u, r, oc)
    <2> SUFFICES ASSUME NEW j \in Objects, j \notin u.conns,
                        oc[j].requested.online \/ Commanded(r, j)
                 PROVE  Stopped(r, j)
      BY DEF Stopping
    <2>1. j # i
      <3>1. ~Commanded(t, i)
        <4>1. \A l \in 1..Len(q) : 1 < l => i \notin q[l].to
          BY <1>2 DEF QueueInv, StopIsLast
        <4>2. \A l \in 1..Len(t) : 1 < l + 1
          BY <1>5
        <4> QED
          BY <1>5, <4>1, <4>2 DEF Commanded
      <3> QED
        BY <1>3, <1>8, <3>1
    <2>2. ob[j].requested.online \/ Commanded(q, j)
      BY <1>3, <1>4, <1>8, <2>1
    <2>3. Stopped(q, j)
      BY <2>2 DEF Succession, Stopping
    <2> QED
      BY <1>4, <1>8, <2>1, <2>3
  <1>14. Unsplit(u, r)
    BY <1>4, <1>6, <1>7 DEF Unsplit
  <1>15. OneMode(u, oc)
    BY <1>3 DEF Succession, OneMode
  <1> QED
    BY <1>9, <1>10, <1>11, <1>12, <1>13, <1>14, <1>15 DEF Succession, oc, r, t, e

\* An object has been changed that keeps its place.
LEMMA StayHandled ==
  ASSUME NEW u, NEW q, NEW ob, NEW oc, Succession(u, q, ob),
         \A i \in Objects :
            /\ oc[i].seq = ob[i].seq /\ oc[i].mode = ob[i].mode
            /\ oc[i].requested.online => ob[i].requested.online
            /\ ob[i].seq = 0 => Fresh(oc[i])
            /\ oc[i].polling => ob[i].polling
  PROVE  Succession(u, q, oc)
  BY DEF Succession, Superseded, Untouched, Stopping, OneMode

\* A deletion removes nothing that Succession is about.
LEMMA DeleteHandled ==
  ASSUME NEW u, NEW q \in Seq(Event), NEW ob, Succession(u, q, ob), q # <<>>,
         Head(q).op = "delete"
  PROVE  Succession(u, Tail(q), ob)
  <1> DEFINE r == Tail(q)
  <1>1. /\ Single(r) /\ Ordered(r) /\ Superseded(r, ob) /\ Unsplit(u, r)
        /\ \A j : Commanded(r, j) => Commanded(q, j)
        /\ \A j : Stopped(q, j) => Stopped(r, j)
    BY TailSucceeds
  <1> HIDE DEF r
  <1>2. Stopping(u, r, ob)
    BY <1>1 DEF Succession, Stopping
  <1> QED
    BY <1>1, <1>2 DEF Succession, r

-----------------------------------------------------------------------------
(* The strengthening of HoldOffHidesMisreads: the objects follow one       *)
(* another, the last one knows the radio, and no signal on its way lies.   *)

AllTruthful(s) == \A k \in 1..Len(s) : Truthful(s[k])

\* No call has thrown.
Calm == env.faults = 0

\* A radio without an object is not split.
RadioLeft ==
  (ui.splitMode # "rig" \/ Calm) /\ (\A i \in Objects : ~obj[i].requested.online)
  => radio.tx = NoFreq

OwnerFaithful ==
  \A i \in Objects :
     Owner(obj, i) => Faithful(obj[i], radio, env.misreads, Calm)

FaithfulInv ==
  Undisturbed =>
     /\ Succession(ui, toRig, obj)
     /\ RadioLeft
     /\ OwnerFaithful
     /\ AllTruthful(toUI) /\ AllTruthful(emitting)

-----------------------------------------------------------------------------

\* What a slot adds to the counts of faults and misreads.
LEMMA EnvCounts ==
  ASSUME IInv, NEW c \in Context, NEW misread \in BOOLEAN,
         env' = [env EXCEPT !.faults = IF c.faulty THEN @ + 1 ELSE @,
                            !.misreads = IF misread THEN @ + 1 ELSE @]
  PROVE  /\ env.misreads \in Nat /\ env.faults \in Nat /\ Calm \in BOOLEAN
         /\ env'.turns = env.turns /\ env'.resets = env.resets
         /\ env'.misreads = IF misread THEN env.misreads + 1 ELSE env.misreads
         /\ env'.faults = IF c.faulty THEN env.faults + 1 ELSE env.faults
         /\ Calm' = (Calm /\ ~c.faulty)
  <1>1. /\ env.misreads \in Nat /\ env.faults \in Nat /\ env \in EnvType
    BY TypesOf DEF EnvType
  <1>2. /\ env'.turns = env.turns /\ env'.resets = env.resets
        /\ env'.misreads = IF misread THEN env.misreads + 1 ELSE env.misreads
        /\ env'.faults = IF c.faulty THEN env.faults + 1 ELSE env.faults
    BY <1>1 DEF EnvType
  <1>3. Calm' = (Calm /\ ~c.faulty)
    BY <1>1, <1>2 DEF Calm
  <1> QED
    BY <1>1, <1>2, <1>3 DEF Calm

\* The counts only grow, so the run was undisturbed before if it is after.
LEMMA WasUndisturbed ==
  ASSUME IInv, NEW c \in Context, NEW misread \in BOOLEAN,
         env' = [env EXCEPT !.faults = IF c.faulty THEN @ + 1 ELSE @,
                            !.misreads = IF misread THEN @ + 1 ELSE @],
         ui' = ui, Undisturbed'
  PROVE  Undisturbed
  <1>1. /\ env.misreads \in Nat /\ env.faults \in Nat
        /\ env'.turns = env.turns /\ env'.resets = env.resets
        /\ env'.misreads = IF misread THEN env.misreads + 1 ELSE env.misreads
        /\ env'.faults = IF c.faulty THEN env.faults + 1 ELSE env.faults
    BY EnvCounts
  <1>2. env.misreads <= env'.misreads /\ env.faults <= env'.faults
    BY <1>1
  <1> QED
    BY <1>1, <1>2, ConstAssumption DEF Undisturbed, Outlasted

\* The signals of a slot, some delivered at once and the others emitting.
LEMMA EmitsTruthful ==
  ASSUME IInv, NEW i, NEW out \in Seq(Signal), Emits(i, out),
         AllTruthful(toUI), AllTruthful(emitting), AllTruthful(out)
  PROVE  AllTruthful(toUI') /\ AllTruthful(emitting')
  <1>1. toUI \in Seq(Signal)
    BY SignalTypes
  <1>2. CASE out = <<>> \/ i \notin ui.conns
    BY <1>2 DEF Emits, AllTruthful
  <1>3. CASE out # <<>> /\ i \in ui.conns
    <2>1. toUI' = Append(toUI, Head(out)) /\ emitting' = Tail(out)
      BY <1>3 DEF Emits
    <2>2. 1 \in 1..Len(out) /\ Head(out) = out[1]
      BY <1>3
    <2>3. Truthful(Head(out))
      BY <2>2 DEF AllTruthful
    <2> DEFINE x == Head(out)
               a == Append(toUI, x)
               t == Tail(out)
    <2>4. /\ Len(a) = Len(toUI) + 1 /\ a[Len(toUI) + 1] = x
          /\ \A l \in 1..Len(toUI) : a[l] = toUI[l]
      BY <1>1
    <2>5. \A l \in 1..Len(t) : l + 1 \in 1..Len(out) /\ t[l] = out[l + 1]
      BY <1>3
    <2> HIDE DEF x, a, t
    <2>6. AllTruthful(a)
      <3> SUFFICES ASSUME NEW l \in 1..Len(a) PROVE Truthful(a[l])
        BY DEF AllTruthful
      <3>1. l \in 1..Len(toUI) \/ l = Len(toUI) + 1
        BY <1>1, <2>4
      <3> QED
        BY <2>3, <2>4, <3>1 DEF AllTruthful, x
    <2>7. AllTruthful(t)
      BY <2>5 DEF AllTruthful
    <2> QED
      BY <2>1, <2>6, <2>7 DEF a, t, x
  <1> QED
    BY <1>2, <1>3

\* A slot that is not a poll tells nothing of the polls.
LEMMA SlotTruthful ==
  ASSUME NEW c, NEW d, NEW n, Outcome(c, d, n), c.cause = "slot"
  PROVE  AllTruthful(d.out)
  <1>1. d.out \in Seq(Signal)
    BY DEF Outcome, Context
  <1> QED
    BY <1>1 DEF Outcome, Stamped, AllTruthful, Truthful

\* A weaker claim: a call has thrown since.
LEMMA FaithfulWeakens ==
  ASSUME NEW o, NEW r, NEW k, NEW z \in BOOLEAN, NEW y \in BOOLEAN, y => z,
         Faithful(o, r, k, z)
  PROVE  Faithful(o, r, k, y)
  BY DEF Faithful, SplitKnown, ChangesHeld

\* An object that has not started knows nothing that could be wrong.
LEMMA FreshFaithful ==
  ASSUME NEW o, NEW r, NEW k, NEW z, Fresh(o), ~RigSplit(o) \/ z => r.tx = NoFreq
  PROVE  Faithful(o, r, k, z)
  BY DEF Fresh, Faithful, Blank, PttKnown, DialKnown, DialExpected,
         MisreadsOutlasted, SplitKnown, ChangesHeld, Offline

\* Between two slots: nothing is thrown.
LEMMA FaithfulBegins ==
  ASSUME NEW c, ~c.thrown, ~c.faulty, NEW k, NEW z \in BOOLEAN, Faithful(c.o, c.r, k, z)
  PROVE  Base(c, k, z) /\ Fine(c, k, z)
  <1>1. (z /\ ~c.faulty) = z
    OBVIOUS
  <1>2. Base(c, k, z)
    BY <1>1 DEF Base, Faithful
  <1> QED
    BY <1>1, <1>2 DEF Fine

\* The next receiver is the only one.
LEMMA OnlyReceiver ==
  ASSUME IInv, Single(toRig), toRig # <<>>, NEW i \in Objects, First(i, Head(toRig))
  PROVE  /\ Head(toRig).to = {i} /\ Rest(Head(toRig), i) = Tail(toRig)
         /\ i <= ui.created
  <1>1. 1 \in 1..Len(toRig) /\ Head(toRig) = toRig[1]
    BY DEF IInv, TypeOK
  <1>2. PICK j \in Objects : Head(toRig).to = {j}
    BY <1>1 DEF Single
  <1>3. i \in Head(toRig).to
    BY DEF First
  <1>4. i <= ui.created
    BY <1>1, <1>3 DEF IInv, QueueInv, ObjectsCreated
  <1> QED
    BY <1>2, <1>3, <1>4 DEF Rest

\* A part of the knowledge of the owner.
LEMMA OwnersBlank ==
  ASSUME OwnerFaithful
  PROVE  \A j \in Objects : Owner(obj, j) => Blank(obj[j])
  BY DEF OwnerFaithful, Faithful

\* What an object knows when it gets a command.
LEMMA ReceiverFaithful ==
  ASSUME IInv, Undisturbed, FaithfulInv, toRig # <<>>, NEW i \in Objects,
         Head(toRig).to = {i}, Command(Head(toRig)), i <= ui.created
  PROVE  /\ Faithful(obj[i], radio, env.misreads, Calm)
         /\ \A j \in Objects : i < j => obj[j].seq = 0
  <1>1. /\ Succession(ui, toRig, obj) /\ RadioLeft /\ OwnerFaithful
        /\ QueueInv(ui, toRig, obj)
    BY DEF FaithfulInv, IInv
  <1>2. /\ \A j \in Objects : i < j => obj[j].seq = 0
        /\ \A j \in Objects : j # i => ~obj[j].requested.online
    BY <1>1, TakesOver, OwnersBlank
  <1>3. Faithful(obj[i], radio, env.misreads, Calm)
    <2>1. CASE obj[i].seq # 0
      BY <1>1, <1>2, <2>1 DEF OwnerFaithful, Owner
    <2>2. CASE obj[i].seq = 0
      <3>1. Fresh(obj[i]) /\ obj[i].mode = ui.splitMode
        BY <1>1, <2>2 DEF Succession, Untouched, OneMode
      <3>2. ~obj[i].requested.online
        BY <3>1 DEF Fresh, Offline
      <3>3. ~RigSplit(obj[i]) \/ Calm => radio.tx = NoFreq
        BY <1>1, <1>2, <3>1, <3>2 DEF RadioLeft, RigSplit
      <3> QED
        BY <3>1, <3>3, FreshFaithful
    <2> QED
      BY <2>1, <2>2
  <1> QED
    BY <1>2, <1>3

\* The slot of the object that owns the radio afterwards.
LEMMA OwnerSlot ==
  ASSUME IInv, NEW i \in Objects, NEW d \in Context,
         obj' = [obj EXCEPT ![i] = d.o], radio' = d.r, ui' = ui,
         d.o.mode = ui.splitMode,
         Faithful(d.o, d.r, env'.misreads, Calm'),
         Succession(ui, toRig', obj'),
         \A j \in Objects : Owner(obj', j) => j = i,
         AllTruthful(toUI') /\ AllTruthful(emitting')
  PROVE  FaithfulInv'
  <1>1. obj'[i] = d.o
    BY DEF IInv, TypeOK
  <1>2. OwnerFaithful'
    <2>1. \A j \in Objects : Owner(obj', j) => Faithful(obj'[j], radio', env'.misreads, Calm')
      BY <1>1
    <2> QED
      BY <2>1 DEF OwnerFaithful, Owner
  <1>3. RadioLeft'
    <2> SUFFICES ASSUME ui.splitMode # "rig" \/ Calm', ~d.o.requested.online
                 PROVE  d.r.tx = NoFreq
      BY <1>1 DEF RadioLeft
    <2> QED
      BY DEF Faithful, SplitKnown, RigSplit
  <1> QED
    BY <1>2, <1>3 DEF FaithfulInv, Succession, Single, Superseded, Untouched,
         Ordered, Connected, Stopping, Unsplit, OneMode, Pending, Commanded, Stopped,
         Command, AllTruthful

\* A command that object i carries out: d is what its slot leaves.
LEMMA CommandKeepsFaithful ==
  ASSUME IInv, Undisturbed, FaithfulInv, toRig # <<>>, NEW i \in Objects,
         First(i, Head(toRig)), Command(Head(toRig)),
         NEW c, c.id = i, c.o = obj[i], c.r = radio, c.cause = "slot",
         NEW d, Outcome(c, d, Head(toRig).seq), Finish(i, d, FALSE),
         Faithful(d.o, d.r, env.misreads, Calm /\ ~d.faulty),
         ui' = ui, toRig' = Rest(Head(toRig), i)
  PROVE  FaithfulInv'
  <1>1. /\ Succession(ui, toRig, obj) /\ OwnerFaithful
        /\ AllTruthful(toUI) /\ AllTruthful(emitting) /\ QueueInv(ui, toRig, obj)
    BY DEF FaithfulInv, IInv
  <1>2. /\ Head(toRig).to = {i} /\ toRig' = Tail(toRig) /\ i <= ui.created
    BY <1>1, OnlyReceiver DEF Succession
  <1>3. /\ d \in Context /\ d.o \in Object /\ d.o.mode = obj[i].mode
        /\ d.o.seq = Head(toRig).seq /\ d.out \in Seq(Signal)
    BY DEF Outcome, Context
  <1>4. d.o.seq # 0
    <2>1. obj[i].seq \in Nat
      BY SignalTypes
    <2>2. Head(toRig).seq \in Nat /\ obj[i].seq < Head(toRig).seq
      BY HeadIsNext
    <2> QED
      BY <1>3, <2>1, <2>2
  <1>5. /\ obj' = [obj EXCEPT ![i] = d.o] /\ radio' = d.r /\ Emits(i, d.out)
        /\ env' = [env EXCEPT !.faults = IF d.faulty THEN @ + 1 ELSE @,
                              !.misreads = IF FALSE THEN @ + 1 ELSE @]
    BY DEF Finish
  <1>6. env'.misreads = env.misreads /\ Calm' = (Calm /\ ~d.faulty)
    BY <1>3, <1>5, EnvCounts
  <1>7. /\ Succession(ui, toRig', obj')
        /\ \A j \in Objects : Owner(obj', j) => j = i
    <2>1. \A j \in Objects : Owner(obj, j) => Blank(obj[j])
      BY <1>1, OwnersBlank
    <2>2. Succession(ui, Tail(toRig), [obj EXCEPT ![i] = d.o])
      BY <1>1, <1>2, <1>3, <1>4, <2>1, CommandHandled
    <2>3. \A j \in Objects : i < j => obj[j].seq = 0
      BY <1>2, ReceiverFaithful
    <2>4. obj'[i].seq # 0 /\ \A j \in Objects : i < j => obj'[j].seq = 0
      <3>1. obj \in [Objects -> Object] /\ \A j \in Objects : i < j => j # i
        BY SignalTypes, ObjectsAreNumbers
      <3>2. obj'[i] = d.o /\ \A j \in Objects : i < j => obj'[j] = obj[j]
        BY <1>5, <3>1
      <3> QED
        BY <1>4, <2>3, <3>2
    <2>5. \A j \in Objects : Owner(obj', j) => j = i
      BY <2>4, ObjectsAreNumbers DEF Owner
    <2> QED
      BY <1>2, <1>5, <2>2, <2>5
  <1>8. AllTruthful(toUI') /\ AllTruthful(emitting')
    <2>1. AllTruthful(d.out)
      BY SlotTruthful
    <2> QED
      BY <1>1, <1>3, <1>5, <2>1, EmitsTruthful
  <1>9. d.o.mode = ui.splitMode
    BY <1>1, <1>2, <1>3 DEF Succession, OneMode
  <1>10. Faithful(d.o, d.r, env'.misreads, Calm')
    BY <1>6
  <1> QED
    BY <1>3, <1>5, <1>7, <1>8, <1>9, <1>10, OwnerSlot

LEMMA SlotBeginsCalm ==
  ASSUME IInv, NEW i \in Objects, NEW bad \in Faults, NEW cause \in {"slot", "poll"}
  PROVE  LET c == Begin(i, obj[i], radio, bad, cause) IN
         ~c.faulty /\ c.cause = cause
  BY DEF Begin

\* A slot leaves a smaller count of faults and misreads before it than after.
LEMMA SlotUndisturbed ==
  ASSUME IInv, NEW i, NEW d \in Context, NEW misread \in BOOLEAN,
         Finish(i, d, misread), ui' = ui, Undisturbed'
  PROVE  Undisturbed
  BY WasUndisturbed DEF Finish

\* The events of the transceiver thread, one lemma each.
LEMMA HandleSetFaithful ==
  ASSUME IInv, FaithfulInv, NEW i \in Objects, HandleSet(i)
  PROVE  FaithfulInv'
  <1> DEFINE m == Head(toRig)
  <1>1. PICK bad \in Faults :
           Finish(i, Set(Begin(i, obj[i], radio, bad, "slot"), m.state, m.seq),
                  FALSE)
    BY DEF HandleSet
  <1>2. /\ toRig # <<>> /\ m.op = "set" /\ First(i, m)
        /\ toRig' = Rest(m, i) /\ ui' = ui
    BY DEF HandleSet
  <1> DEFINE c == Begin(i, obj[i], radio, bad, "slot")
             d == Set(c, m.state, m.seq)
  <1>3. /\ i \in m.to /\ m.seq \in Nat /\ m.state \in TransceiverState
    BY <1>2, Receiver
  <1>4. /\ c \in Context /\ ~c.thrown /\ c.out = <<>> /\ ~c.faulty
        /\ c.id = i /\ c.o = obj[i] /\ c.r = radio /\ c.cause = "slot"
    BY SlotBegins, SlotBeginsCalm
  <1>5. Command(m)
    BY <1>2 DEF Command
  <1>6. Finish(i, d, FALSE)
    BY <1>1
  <1> HIDE DEF c, m
  <1>7. Outcome(c, d, m.seq)
    BY <1>3, <1>4, SetOutcome
  <1>8. CASE Undisturbed'
    <2>1. d \in Context
      BY <1>7 DEF Outcome
    <2> HIDE DEF d
    <2>2. Undisturbed
      BY <1>2, <1>6, <1>8, <2>1, SlotUndisturbed
    <2>3. Succession(ui, toRig, obj)
      BY <2>2 DEF FaithfulInv
    <2>4. m.to = {i} /\ i <= ui.created
      BY <1>2, <2>3, OnlyReceiver DEF Succession, m
    <2>5. Faithful(c.o, c.r, env.misreads, Calm)
      BY <1>2, <1>4, <1>5, <2>2, <2>4, ReceiverFaithful DEF m
    <2>6. env.misreads \in Nat /\ Calm \in BOOLEAN
      BY TypesOf DEF EnvType, Calm
    <2>7. Fine(c, env.misreads, Calm)
      BY <1>4, <2>5, <2>6, FaithfulBegins
    <2>8. c.o.mode = "none" => m.state.tx = NoFreq
      <3>1. c.o.mode = ui.splitMode
        BY <1>4, <2>3, <2>4 DEF Succession, OneMode
      <3>2. 1 \in 1..Len(toRig) /\ m = toRig[1]
        BY <1>2 DEF IInv, TypeOK, m
      <3> QED
        BY <2>3, <3>1, <3>2 DEF Succession, Unsplit
    <2>9. Faithful(d.o, d.r, env.misreads, Calm /\ ~d.faulty)
      BY <1>3, <1>4, <2>6, <2>7, <2>8, SetFaithful DEF d
    <2> QED
      BY <1>2, <1>4, <1>5, <1>6, <1>7, <2>2, <2>9, CommandKeepsFaithful DEF m
  <1>9. CASE ~Undisturbed'
    BY <1>9 DEF FaithfulInv
  <1> QED
    BY <1>8, <1>9

LEMMA HandleStartFaithful ==
  ASSUME IInv, FaithfulInv, NEW i \in Objects, HandleStart(i)
  PROVE  FaithfulInv'
  <1> DEFINE m == Head(toRig)
  <1>1. PICK bad \in Faults :
           Finish(i, Start(Begin(i, obj[i], radio, bad, "slot"), m.seq), FALSE)
    BY DEF HandleStart
  <1>2. /\ toRig # <<>> /\ m.op = "start" /\ First(i, m)
        /\ toRig' = Rest(m, i) /\ ui' = ui
    BY DEF HandleStart
  <1> DEFINE c == Begin(i, obj[i], radio, bad, "slot")
             d == Start(c, m.seq)
  <1>3. i \in m.to /\ m.seq \in Nat
    BY <1>2, Receiver
  <1>4. /\ c \in Context /\ ~c.thrown /\ c.out = <<>> /\ ~c.faulty
        /\ c.id = i /\ c.o = obj[i] /\ c.r = radio /\ c.cause = "slot"
    BY SlotBegins, SlotBeginsCalm
  <1>5. Command(m)
    BY <1>2 DEF Command
  <1>6. Finish(i, d, FALSE)
    BY <1>1
  <1> HIDE DEF c, m
  <1>7. Outcome(c, d, m.seq)
    BY <1>3, <1>4, StartOutcome
  <1>8. CASE Undisturbed'
    <2>1. d \in Context
      BY <1>7 DEF Outcome
    <2> HIDE DEF d
    <2>2. Undisturbed
      BY <1>2, <1>6, <1>8, <2>1, SlotUndisturbed
    <2>3. Succession(ui, toRig, obj)
      BY <2>2 DEF FaithfulInv
    <2>4. m.to = {i} /\ i <= ui.created
      BY <1>2, <2>3, OnlyReceiver DEF Succession, m
    <2>5. Faithful(c.o, c.r, env.misreads, Calm)
      BY <1>2, <1>4, <1>5, <2>2, <2>4, ReceiverFaithful DEF m
    <2>6. env.misreads \in Nat /\ Calm \in BOOLEAN
      BY TypesOf DEF EnvType, Calm
    <2>7. Base(c, env.misreads, Calm)
      BY <1>4, <2>5, <2>6, FaithfulBegins
    <2>8. Faithful(d.o, d.r, env.misreads, Calm /\ ~d.faulty)
      BY <1>3, <1>4, <2>6, <2>7, StartFaithful DEF d
    <2> QED
      BY <1>2, <1>4, <1>5, <1>6, <1>7, <2>2, <2>8, CommandKeepsFaithful DEF m
  <1>9. CASE ~Undisturbed'
    BY <1>9 DEF FaithfulInv
  <1> QED
    BY <1>8, <1>9

\* An object that has not started leaves the radio alone when it is stopped.
LEMMA FreshStops ==
  ASSUME NEW c \in Context, ~c.thrown, Fresh(c.o)
  PROVE  Stop(c).r = c.r /\ Fresh(Stop(c).o)
  <1> DEFINE o == [c.o EXCEPT !.polling = FALSE, !.actual = Offline,
                              !.requested = Offline]
             e == [c EXCEPT !.o = o]
  <1>1. ~c.o.requested.online
    BY DEF Fresh, Offline
  <1>2. Stop(c) = UpdateComplete(e, FALSE)
    BY <1>1 DEF Stop, Shutdown
  <1>3. /\ o \in Object /\ Fresh(o) /\ o.mode = c.o.mode /\ o.seq = c.o.seq
        /\ o.life = c.o.life
    BY OfflineType DEF Context, Object, Fresh
  <1> HIDE DEF o
  <1>4. e \in Context /\ e.o = o /\ e.r = c.r
    BY <1>3, ObjectChange DEF Follows
  <1> HIDE DEF e
  <1> QED
    BY <1>2, <1>3, <1>4, UpdateCompleteFollows DEF Fresh

LEMMA HandleStopFaithful ==
  ASSUME IInv, FaithfulInv, NEW i \in Objects, HandleStop(i)
  PROVE  FaithfulInv'
  <1> DEFINE m == Head(toRig)
             e == [op |-> "delete", to |-> {i}, state |-> Offline, seq |-> 0]
  <1>1. PICK bad \in Faults :
           Finish(i, Stop(Begin(i, obj[i], radio, bad, "slot")), FALSE)
    BY DEF HandleStop
  <1>2. /\ toRig # <<>> /\ m.op = "stop" /\ First(i, m)
        /\ toRig' = Append(Rest(m, i), e) /\ ui' = ui
    BY DEF HandleStop
  <1> DEFINE c == Begin(i, obj[i], radio, bad, "slot")
             d == Stop(c)
  <1>3. /\ c \in Context /\ ~c.thrown /\ c.out = <<>> /\ ~c.faulty
        /\ c.id = i /\ c.o = obj[i] /\ c.r = radio /\ c.cause = "slot"
    BY SlotBegins, SlotBeginsCalm
  <1>4. Finish(i, d, FALSE)
    BY <1>1
  <1> HIDE DEF c, m, e
  <1>5. Outcome(c, d, c.o.seq)
    BY <1>3, StopOutcome
  <1>6. /\ d \in Context /\ d.o \in Object /\ d.o.mode = obj[i].mode
        /\ d.o.seq = obj[i].seq /\ d.out \in Seq(Signal)
    BY <1>3, <1>5 DEF Outcome, Context
  <1>7. CASE Undisturbed'
    <2>1. Undisturbed
      <3> HIDE DEF d
      <3> QED
        BY <1>2, <1>4, <1>6, <1>7, SlotUndisturbed
    <2>2. /\ Succession(ui, toRig, obj) /\ OwnerFaithful /\ RadioLeft
          /\ AllTruthful(toUI) /\ AllTruthful(emitting) /\ QueueInv(ui, toRig, obj)
      BY <2>1 DEF FaithfulInv, IInv
    <2>3. m.to = {i} /\ i <= ui.created /\ toRig' = Append(Tail(toRig), e)
      BY <1>2, <2>2, OnlyReceiver DEF Succession, m
    <2>4. env.misreads \in Nat /\ Calm \in BOOLEAN
      BY TypesOf DEF EnvType, Calm
    <2>5. /\ obj' = [obj EXCEPT ![i] = d.o] /\ radio' = d.r /\ Emits(i, d.out)
          /\ env' = [env EXCEPT !.faults = IF d.faulty THEN @ + 1 ELSE @,
                                !.misreads = IF FALSE THEN @ + 1 ELSE @]
      BY <1>4 DEF Finish
    <2>6. env'.misreads = env.misreads /\ Calm' = (Calm /\ ~d.faulty)
      <3> HIDE DEF d
      <3> QED
        BY <1>6, <2>5, EnvCounts
    <2>7. AllTruthful(toUI') /\ AllTruthful(emitting')
      <3> HIDE DEF d
      <3> QED
        <4>1. AllTruthful(d.out)
          BY <1>3, <1>5, SlotTruthful
        <4> QED
          BY <1>6, <2>2, <2>5, <4>1, EmitsTruthful
    <2>8. \A j \in Objects : i < j => obj[j].seq = 0
      <3>1. 1 \in 1..Len(toRig) /\ m = toRig[1]
        BY <1>2 DEF IInv, TypeOK, m
      <3>2. Pending(toRig, i)
        BY <1>2, <2>3, <3>1 DEF Pending
      <3> QED
        BY <2>2, <3>2 DEF Succession, Superseded
    <2>9. CASE obj[i].seq # 0
      <3>1. Owner(obj, i)
        BY <2>8, <2>9 DEF Owner
      <3>2. Base(c, env.misreads, Calm)
        BY <1>3, <2>2, <2>4, <3>1, FaithfulBegins DEF OwnerFaithful
      <3>3. Rests(d)
        BY <1>3, <2>4, <3>2, ShutdownBase DEF Stop
      <3>4. Faithful(d.o, d.r, env.misreads, Calm /\ ~d.faulty)
        BY <1>3, <2>4, <3>2, StopFaithful
      <3> HIDE DEF d
      <3>5. Faithful(d.o, d.r, env'.misreads, Calm')
        BY <2>6, <3>4
      <3>6. ~d.o.requested.online /\ ~d.o.polling
        BY <3>3 DEF Rests, Offline
      <3>7. Succession(ui, toRig', obj')
        <4>1. Succession(ui, Append(Tail(toRig), e), [obj EXCEPT ![i] = d.o])
          BY <1>2, <1>6, <2>2, <2>3, <2>9, <3>6, StopHandled DEF m, e
        <4> QED
          BY <2>3, <2>5, <4>1
      <3>8. \A j \in Objects : Owner(obj', j) => j = i
        <4>1. obj'[i].seq # 0 /\ \A j \in Objects : i < j => obj'[j].seq = 0
          BY <1>6, <2>5, <2>8, <2>9, SignalTypes, ObjectsAreNumbers
        <4> QED
          BY <4>1, ObjectsAreNumbers DEF Owner
      <3>9. d.o.mode = ui.splitMode
        BY <1>6, <2>2, <2>3 DEF Succession, OneMode
      <3> QED
        BY <1>2, <1>6, <2>5, <2>7, <3>5, <3>7, <3>8, <3>9, OwnerSlot
    <2>10. CASE obj[i].seq = 0
      <3>1. Fresh(obj[i])
        BY <2>2, <2>10 DEF Succession, Untouched
      <3>2. d.r = radio /\ Fresh(d.o)
        BY <1>3, <3>1, FreshStops
      <3> HIDE DEF d
      <3>3. ~d.o.requested.online /\ ~d.o.polling /\ ~obj[i].requested.online
        BY <3>1, <3>2 DEF Fresh, Offline
      <3>4. Succession(ui, toRig', obj')
        <4>1. Succession(ui, Append(Tail(toRig), e), [obj EXCEPT ![i] = d.o])
          BY <1>2, <1>6, <2>2, <2>3, <3>2, <3>3, StopHandled DEF m, e
        <4> QED
          BY <2>3, <2>5, <4>1
      <3>5. /\ obj'[i] = d.o /\ \A j \in Objects : j # i => obj'[j] = obj[j]
            /\ radio' = radio
        BY <2>5, <3>2, SignalTypes
      <3>6. RadioLeft'
        BY <1>2, <2>2, <2>6, <3>3, <3>5 DEF RadioLeft
      <3>7. OwnerFaithful'
        <4>1. ASSUME NEW j \in Objects, Owner(obj', j)
              PROVE  Faithful(obj'[j], radio', env'.misreads, Calm')
          <5>1. j # i /\ obj'[j] = obj[j]
            BY <1>6, <2>10, <3>5, <4>1 DEF Owner
          <5>2. Owner(obj, j)
            BY <1>6, <2>10, <3>5, <4>1, <5>1 DEF Owner
          <5>3. Faithful(obj[j], radio, env.misreads, Calm)
            BY <2>2, <5>2 DEF OwnerFaithful
          <5>4. d.faulty \in BOOLEAN
            BY <1>6 DEF Context
          <5>5. Faithful(obj[j], radio, env.misreads, Calm /\ ~d.faulty)
            BY <2>4, <5>3, <5>4, FaithfulWeakens
          <5> QED
            BY <2>6, <3>5, <5>1, <5>5
        <4> QED
          BY <4>1 DEF OwnerFaithful, Owner
      <3> QED
        BY <1>2, <2>7, <3>4, <3>6, <3>7
           DEF FaithfulInv, Succession, Single, Superseded, Untouched, Ordered,
               Connected, Stopping, Unsplit, OneMode, Pending, Commanded, Stopped,
               Command, AllTruthful
    <2> QED
      BY <2>9, <2>10
  <1>8. CASE ~Undisturbed'
    BY <1>8 DEF FaithfulInv
  <1> QED
    BY <1>7, <1>8

\* The order of succession, in the next state.
LEMMA PrimedSuccession ==
  ASSUME Succession(ui', toRig', obj') PROVE Succession(ui, toRig, obj)'
  BY DEF Succession, Single, Superseded, Untouched, Ordered, Connected, Stopping,
         Unsplit, OneMode, Pending, Commanded, Stopped, Command

\* A step that changes no object that owns the radio, and no radio.
LEMMA BystanderKeeps ==
  ASSUME IInv, FaithfulInv, Undisturbed' => Undisturbed,
         Undisturbed => Succession(ui', toRig', obj'),
         radio' = radio, ui'.splitMode = ui.splitMode,
         env'.faults = env.faults, env'.misreads = env.misreads,
         \A i \in Objects :
            /\ obj'[i].seq = obj[i].seq
            /\ obj'[i].requested.online = obj[i].requested.online
            /\ obj[i].seq # 0 => /\ obj'[i].requested = obj[i].requested
                                 /\ obj'[i].actual = obj[i].actual
                                 /\ obj'[i].next = obj[i].next
                                 /\ obj'[i].polling = obj[i].polling
                                 /\ obj'[i].retries = obj[i].retries
                                 /\ obj'[i].mode = obj[i].mode,
         AllTruthful(toUI) /\ AllTruthful(emitting)
         => AllTruthful(toUI') /\ AllTruthful(emitting')
  PROVE  FaithfulInv'
  <1>1. CASE ~Undisturbed'
    BY <1>1 DEF FaithfulInv
  <1>2. CASE Undisturbed'
    <2>1. /\ Succession(ui', toRig', obj') /\ RadioLeft /\ OwnerFaithful
          /\ AllTruthful(toUI') /\ AllTruthful(emitting')
      BY <1>2 DEF FaithfulInv
    <2>2. Calm' = Calm
      BY DEF Calm
    <2>3. RadioLeft'
      BY <2>1, <2>2 DEF RadioLeft
    <2>4. OwnerFaithful'
      <3>1. ASSUME NEW i \in Objects, Owner(obj', i)
            PROVE  Faithful(obj'[i], radio', env'.misreads, Calm')
        <4>1. Owner(obj, i)
          BY <3>1 DEF Owner
        <4>2. Faithful(obj[i], radio, env.misreads, Calm)
          BY <2>1, <4>1 DEF OwnerFaithful
        <4>3. obj[i].seq # 0
          BY <4>1 DEF Owner
        <4> QED
          BY <2>2, <4>2, <4>3
             DEF Faithful, Blank, PttKnown, DialKnown, DialExpected,
                 MisreadsOutlasted, SplitKnown, ChangesHeld, RigSplit
      <3> QED
        BY <3>1 DEF OwnerFaithful, Owner
    <2>5. AllTruthful(toUI)' /\ AllTruthful(emitting)'
      BY <2>1 DEF AllTruthful
    <2> QED
      BY <2>1, <2>3, <2>4, <2>5, PrimedSuccession DEF FaithfulInv
  <1> QED
    BY <1>1, <1>2

LEMMA HandleDeleteFaithful ==
  ASSUME IInv, FaithfulInv, HandleDelete
  PROVE  FaithfulInv'
  <1> DEFINE m == Head(toRig)
  <1>1. /\ toRig # <<>> /\ m.op = "delete" /\ toRig' = Tail(toRig)
        /\ obj' = [i \in Objects |-> IF i \in m.to
                                     THEN [obj[i] EXCEPT !.life = "deleted"]
                                     ELSE obj[i]]
        /\ ui' = ui /\ toUI' = toUI /\ emitting' = emitting /\ radio' = radio
        /\ env' = env
    BY DEF HandleDelete
  <1> HIDE DEF m
  <1>2. ASSUME NEW i \in Objects
        PROVE  /\ obj'[i].seq = obj[i].seq /\ obj'[i].requested = obj[i].requested
               /\ obj'[i].actual = obj[i].actual /\ obj'[i].next = obj[i].next
               /\ obj'[i].polling = obj[i].polling /\ obj'[i].mode = obj[i].mode
               /\ obj'[i].retries = obj[i].retries
    <2> DEFINE e == [obj[i] EXCEPT !.life = "deleted"]
    <2>1. obj[i] \in Object
      BY SignalTypes
    <2>2. /\ e.seq = obj[i].seq /\ e.requested = obj[i].requested
          /\ e.actual = obj[i].actual /\ e.next = obj[i].next
          /\ e.polling = obj[i].polling /\ e.mode = obj[i].mode
          /\ e.retries = obj[i].retries
      BY <2>1 DEF Object
    <2>3. obj'[i] = e \/ obj'[i] = obj[i]
      BY <1>1
    <2> HIDE DEF e
    <2> QED
      BY <2>2, <2>3
  <1>3. Undisturbed => Succession(ui', toRig', obj')
    <2> SUFFICES ASSUME Undisturbed PROVE Succession(ui, toRig', obj')
      BY <1>1
    <2>1. Succession(ui, toRig, obj) /\ toRig \in Seq(Event)
      BY DEF FaithfulInv, IInv, TypeOK
    <2>2. Succession(ui, Tail(toRig), obj)
      BY <1>1, <2>1, DeleteHandled DEF m
    <2>3. \A i \in Objects :
            /\ obj'[i].seq = obj[i].seq /\ obj'[i].mode = obj[i].mode
            /\ obj'[i].requested.online => obj[i].requested.online
            /\ obj[i].seq = 0 => Fresh(obj'[i])
            /\ obj'[i].polling => obj[i].polling
      BY <1>2, <2>1 DEF Succession, Untouched, Fresh
    <2>4. Succession(ui, Tail(toRig), obj')
      BY <2>2, <2>3, StayHandled
    <2> QED
      BY <1>1, <2>4
  <1>4. Undisturbed' => Undisturbed
    BY <1>1 DEF Undisturbed, Outlasted
  <1> QED
    BY <1>1, <1>2, <1>3, <1>4, BystanderKeeps

LEMMA EmitNextFaithful ==
  ASSUME IInv, FaithfulInv, EmitNext
  PROVE  FaithfulInv'
  <1> DEFINE x == Head(emitting)
             a == Append(toUI, x)
             t == Tail(emitting)
  <1>1. /\ emitting # <<>> /\ emitting' = t
        /\ toUI' = IF x.from \in ui.conns THEN a ELSE toUI
        /\ ui' = ui /\ toRig' = toRig /\ obj' = obj /\ radio' = radio /\ env' = env
    BY DEF EmitNext
  <1>2. toUI \in Seq(Signal) /\ emitting \in Seq(Signal)
    BY SignalTypes
  <1>3. 1 \in 1..Len(emitting) /\ x = emitting[1]
    BY <1>1, <1>2
  <1>4. /\ Len(a) = Len(toUI) + 1 /\ a[Len(toUI) + 1] = x
        /\ \A l \in 1..Len(toUI) : a[l] = toUI[l]
    BY <1>2
  <1>5. \A l \in 1..Len(t) : l + 1 \in 1..Len(emitting) /\ t[l] = emitting[l + 1]
    BY <1>1, <1>2
  <1> HIDE DEF x, a, t
  <1>6. AllTruthful(toUI) /\ AllTruthful(emitting)
        => AllTruthful(toUI') /\ AllTruthful(emitting')
    <2> SUFFICES ASSUME AllTruthful(toUI), AllTruthful(emitting)
                 PROVE  AllTruthful(a) /\ AllTruthful(t)
      BY <1>1
    <2>1. Truthful(x)
      BY <1>3 DEF AllTruthful
    <2>2. ASSUME NEW l \in 1..Len(a) PROVE Truthful(a[l])
      <3>1. l \in 1..Len(toUI) \/ l = Len(toUI) + 1
        BY <1>2, <1>4
      <3> QED
        BY <1>4, <2>1, <3>1 DEF AllTruthful
    <2> QED
      BY <1>5, <2>2 DEF AllTruthful
  <1>7. Undisturbed' => Undisturbed
    BY <1>1 DEF Undisturbed, Outlasted
  <1>8. Undisturbed => Succession(ui', toRig', obj')
    BY <1>1 DEF FaithfulInv
  <1> QED
    BY <1>1, <1>6, <1>7, <1>8, BystanderKeeps

\* The operator turns the dial: nothing is promised any more.
LEMMA TurnDialFaithful ==
  ASSUME IInv, NEW f, TurnDial(f)
  PROVE  FaithfulInv'
  <1>1. env' = [env EXCEPT !.turns = @ + 1] /\ env.turns \in Nat /\ env \in EnvType
    BY TypesOf DEF TurnDial, EnvType
  <1>2. env'.turns # 0
    BY <1>1 DEF EnvType
  <1> QED
    BY <1>2 DEF FaithfulInv, Undisturbed

\* A poll: the one slot whose reading may be wrong.
LEMMA PollFaithful ==
  ASSUME IInv, FaithfulInv, NEW i \in Objects, Poll(i)
  PROVE  FaithfulInv'
  <1>1. PICK bad \in Faults, reading \in Freqs :
           /\ Finish(i, Timeout(Begin(i, obj[i], radio, bad, "poll"), reading),
                     reading # radio.freq)
           /\ reading # radio.freq => radio.settling
    <2>1. radio.freq \in Freqs
      BY DEF IInv, TypeOK, Radio
    <2> QED
      BY <2>1 DEF Poll
  <1>2. obj[i].polling /\ toRig' = toRig /\ ui' = ui
    BY DEF Poll
  <1> DEFINE c == Begin(i, obj[i], radio, bad, "poll")
             d == Timeout(c, reading)
  <1>3. /\ c \in Context /\ ~c.thrown /\ c.out = <<>> /\ ~c.faulty
        /\ c.id = i /\ c.o = obj[i] /\ c.r = radio /\ obj[i].seq \in Nat
    BY SlotBegins, SlotBeginsCalm
  <1> HIDE DEF c
  <1>4. Outcome(c, d, c.o.seq)
    BY <1>3, TimeoutOutcome
  <1>5. Finish(i, d, reading # radio.freq)
    BY <1>1 DEF c
  <1>6. /\ d \in Context /\ d.o \in Object /\ d.o.mode = obj[i].mode
        /\ d.o.seq = obj[i].seq /\ d.out \in Seq(Signal)
    BY <1>3, <1>4 DEF Outcome, Context
  <1>7. CASE ~Undisturbed'
    BY <1>7 DEF FaithfulInv
  <1>8. CASE Undisturbed'
    <2> HIDE DEF d
    <2> DEFINE misread == reading # radio.freq
    <2>1. misread \in BOOLEAN
      OBVIOUS
    <2>2. Undisturbed
      BY <1>2, <1>5, <1>6, <1>8, <2>1, SlotUndisturbed
    <2>3. /\ Succession(ui, toRig, obj) /\ OwnerFaithful
          /\ AllTruthful(toUI) /\ AllTruthful(emitting) /\ QueueInv(ui, toRig, obj)
      BY <2>2 DEF FaithfulInv, IInv
    <2>4. /\ obj' = [obj EXCEPT ![i] = d.o] /\ radio' = d.r /\ Emits(i, d.out)
          /\ env' = [env EXCEPT !.faults = IF d.faulty THEN @ + 1 ELSE @,
                                !.misreads = IF misread THEN @ + 1 ELSE @]
      BY <1>5 DEF Finish
    <2>5. /\ env.misreads \in Nat /\ Calm \in BOOLEAN
          /\ env'.misreads = IF misread THEN env.misreads + 1 ELSE env.misreads
          /\ Calm' = (Calm /\ ~d.faulty)
      BY <1>6, <2>1, <2>4, EnvCounts
    <2>6. obj[i].seq # 0
      BY <1>2, <2>3 DEF Succession, Untouched, Fresh
    <2>7. Owner(obj, i)
      BY <1>2, <2>3, <2>6 DEF Owner, Succession, Superseded
    <2>8. Faithful(c.o, c.r, env.misreads, Calm)
      BY <1>3, <2>3, <2>7 DEF OwnerFaithful
    <2>9. i <= ui.created
      <3>1. ~(ui.created < i)
        BY <2>3, <2>6, LaterIsUntouched
      <3> QED
        BY <2>3, <3>1, ObjectsAreNumbers DEF QueueInv, Configuration
    <2>10. d.o.mode = ui.splitMode
      BY <1>6, <2>3, <2>9 DEF Succession, OneMode
    <2>11. /\ env'.misreads < PollsToStabilize
           /\ RigSplit(c.o) => env'.misreads = 0
                               \/ (env'.misreads = 1 /\ Calm /\ ~d.faulty)
      <3>1. /\ env'.misreads < PollsToStabilize
            /\ ui.splitMode = "rig" =>
                 env'.misreads = 0 \/ (env'.misreads = 1 /\ Calm')
        BY <1>2, <1>8 DEF Undisturbed, Outlasted, Calm
      <3>2. RigSplit(c.o) => ui.splitMode = "rig"
        BY <1>3, <1>6, <2>10 DEF RigSplit
      <3> QED
        BY <2>5, <3>1, <3>2
    <2>12. Told(c) /\ c.o.polling
      BY <1>2, <1>3 DEF Told
    <2>13. Faithful(d.o, d.r, env'.misreads, Calm /\ ~d.faulty) /\ Told(d)
      <3> DEFINE k2 == env'.misreads
      <3>1. k2 = IF reading # c.r.freq THEN env.misreads + 1 ELSE env.misreads
        BY <1>3, <2>5
      <3>2. reading # c.r.freq => c.r.settling
        BY <1>1, <1>3
      <3>3. /\ k2 < PollsToStabilize
            /\ RigSplit(c.o) =>
                 k2 = 0 \/ (k2 = 1 /\ Calm /\ ~Timeout(c, reading).faulty)
        BY <2>11 DEF d
      <3> HIDE DEF k2
      <3>4. LET e == Timeout(c, reading) IN
            Faithful(e.o, e.r, k2, Calm /\ ~e.faulty) /\ Told(e)
        BY <1>3, <2>5, <2>8, <2>12, <3>1, <3>2, <3>3, TimeoutFaithful
      <3> QED
        BY <3>4 DEF d, k2
    <2>14. Faithful(d.o, d.r, env'.misreads, Calm')
      BY <2>5, <2>13
    <2>15. AllTruthful(toUI') /\ AllTruthful(emitting')
      <3>1. AllTruthful(d.out)
        BY <1>6, <2>13 DEF Told, AllTruthful
      <3> QED
        BY <1>6, <2>3, <2>4, <3>1, EmitsTruthful
    <2>16. /\ obj'[i] = d.o /\ \A j \in Objects : j # i => obj'[j] = obj[j]
      BY <2>4, SignalTypes
    <2>17. Succession(ui, toRig', obj')
      <3>1. obj[i].requested.online
        BY <1>2, <1>3, <2>8 DEF Faithful, Blank
      <3>2. \A j \in Objects :
              /\ obj'[j].seq = obj[j].seq /\ obj'[j].mode = obj[j].mode
              /\ obj'[j].requested.online => obj[j].requested.online
              /\ obj[j].seq = 0 => Fresh(obj'[j])
              /\ obj'[j].polling => obj[j].polling
        BY <1>2, <1>6, <2>3, <2>6, <2>16, <3>1 DEF Succession, Untouched
      <3> QED
        BY <1>2, <2>3, <3>2, StayHandled
    <2>18. \A j \in Objects : Owner(obj', j) => j = i
      <3>1. obj'[i].seq # 0
        BY <1>6, <2>6, <2>16
      <3>2. \A j \in Objects : i < j => obj'[j].seq = 0
        BY <2>7, <2>16, ObjectsAreNumbers DEF Owner
      <3> QED
        BY <3>1, <3>2, ObjectsAreNumbers DEF Owner
    <2> QED
      BY <1>2, <1>6, <2>4, <2>10, <2>14, <2>15, <2>17, <2>18, OwnerSlot
  <1> QED
    BY <1>7, <1>8

\* A step of the GUI thread: the objects stay as they are, or one is created,
\* and the signals may become fewer.
LEMMA GuiFaithful ==
  ASSUME IInv, FaithfulInv, Succession(ui, toRig, obj) => Succession(ui', toRig', obj'),
         ui'.splitMode = ui.splitMode, radio' = radio, emitting' = emitting,
         toUI' = toUI \/ (toUI # <<>> /\ toUI' \in {Tail(toUI), RetryPosted(Head(toUI))}),
         obj' = obj \/ (ui.created < MaxObjects /\ obj' = CreateObject(ui)),
         env'.turns = env.turns, env'.resets = env.resets,
         env'.faults = env.faults, env'.misreads = env.misreads
  PROVE  FaithfulInv'
  <1>1. toUI \in Seq(Signal) /\ obj \in [Objects -> Object] /\ QueueInv(ui, toRig, obj)
    BY SignalTypes DEF IInv
  <1>2. AllTruthful(toUI) /\ AllTruthful(emitting)
        => AllTruthful(toUI') /\ AllTruthful(emitting')
    <2>1. CASE toUI' = toUI
      BY <2>1 DEF AllTruthful
    <2>2. CASE toUI # <<>> /\ toUI' \in {Tail(toUI), RetryPosted(Head(toUI))}
      <3> DEFINE t == Tail(toUI)
                 x == [Head(toUI) EXCEPT !.sig = "retry"]
      <3>1. /\ t \in Seq(Signal)
            /\ \A l \in 1..Len(t) : l + 1 \in 1..Len(toUI) /\ t[l] = toUI[l + 1]
        BY <1>1, <2>2
      <3>2. Truthful(x)
        <4>1. Head(toUI) \in Signal
          BY <1>1, <2>2
        <4> QED
          BY <4>1 DEF Truthful, Signal
      <3>3. toUI' = t \/ toUI' = Append(t, x)
        BY <2>2 DEF RetryPosted
      <3> HIDE DEF t, x
      <3>4. AllTruthful(toUI) => AllTruthful(t)
        BY <3>1 DEF AllTruthful
      <3>5. AllTruthful(t) => AllTruthful(Append(t, x))
        <4> DEFINE a == Append(t, x)
        <4>1. /\ \A l \in 1..Len(a) : l \in 1..Len(t) \/ l = Len(t) + 1
              /\ \A l \in 1..Len(t) : a[l] = t[l]
              /\ a[Len(t) + 1] = x
          BY <3>1
        <4> HIDE DEF a
        <4> QED
          BY <3>2, <4>1 DEF AllTruthful, a
      <3> QED
        BY <3>3, <3>4, <3>5 DEF AllTruthful
    <2> QED
      BY <2>1, <2>2
  <1>3. \A i \in Objects :
          /\ obj'[i].seq = obj[i].seq
          /\ obj'[i].requested.online = obj[i].requested.online
          /\ obj[i].seq # 0 => obj'[i] = obj[i]
    <2>1. CASE obj' = obj
      BY <2>1
    <2>2. CASE ui.created < MaxObjects /\ obj' = CreateObject(ui)
      <3> DEFINE x == ui.created + 1
                 o == NewObject(ui.splitMode)
      <3>1. x \in Objects /\ ui.created < x
        BY <1>1, <2>2, BoundAssumption DEF QueueInv, Configuration, Objects
      <3>2. o.seq = 0 /\ ~o.requested.online
        BY DEF NewObject, Offline
      <3>3. obj[x].seq = 0 /\ ~obj[x].requested.online
        BY <1>1, <3>1, LaterIsUntouched
      <3>4. obj' = [obj EXCEPT ![x] = o]
        BY <2>2 DEF CreateObject
      <3> HIDE DEF o, x
      <3>5. obj'[x] = o /\ \A j \in Objects : j # x => obj'[j] = obj[j]
        BY <1>1, <3>1, <3>4
      <3>6. o.requested.online = obj[x].requested.online
        <4>1. o.requested.online = FALSE
          BY DEF NewObject, Offline, o
        <4>2. obj[x].requested.online \in BOOLEAN
          BY <1>1, <3>1 DEF Object, TransceiverState
        <4> QED
          BY <3>3, <4>1, <4>2
      <3> QED
        BY <3>2, <3>3, <3>5, <3>6
    <2> QED
      BY <2>1, <2>2
  <1>4. \A i \in Objects :
            /\ obj'[i].seq = obj[i].seq
            /\ obj'[i].requested.online = obj[i].requested.online
            /\ obj[i].seq # 0 => /\ obj'[i].requested = obj[i].requested
                                 /\ obj'[i].actual = obj[i].actual
                                 /\ obj'[i].next = obj[i].next
                                 /\ obj'[i].polling = obj[i].polling
                                 /\ obj'[i].retries = obj[i].retries
                                 /\ obj'[i].mode = obj[i].mode
    BY <1>3
  <1>5. Undisturbed' => Undisturbed
    BY DEF Undisturbed, Outlasted
  <1>6. Undisturbed => Succession(ui', toRig', obj')
    BY DEF FaithfulInv
  <1> QED
    BY <1>2, <1>4, <1>5, <1>6, BystanderKeeps

\* Opening the rig, by whichever call.
LEMMA OpenFaithful ==
  ASSUME IInv, CanOpen(ui), ui' = [OpenRig(ui) EXCEPT !.want = NoFreq],
         toRig' = toRig \o OpenEvents(ui), obj' = CreateObject(ui)
  PROVE  /\ Succession(ui, toRig, obj) => Succession(ui', toRig', obj')
         /\ ui'.splitMode = ui.splitMode
         /\ ui.created < MaxObjects
  <1> DEFINE v == OpenRig(ui)
  <1>1. QueueInv(ui, toRig, obj)
    BY DEF IInv
  <1>2. QueueInv(v, toRig', obj')
    BY <1>1, OpenPosts DEF CreateObject
  <1>3. Succession(ui, toRig, obj) => Succession(v, toRig', obj')
    BY <1>1, OpenSucceeds DEF CreateObject
  <1>4. v.splitMode = ui.splitMode
    BY <1>1 DEF OpenRig, CloseRig, QueueInv, Configuration
  <1> HIDE DEF v
  <1>5. /\ ui'.active = v.active /\ ui'.created = v.created /\ ui'.conns = v.conns
        /\ ui'.splitMode = v.splitMode /\ ui'.cached = v.cached
    BY <1>2 DEF QueueInv, Configuration, v
  <1>6. Succession(v, toRig', obj') => Succession(ui', toRig', obj')
    BY <1>5 DEF Succession, Connected, Stopping, Unsplit, OneMode
  <1> QED
    BY <1>3, <1>4, <1>5, <1>6 DEF CanOpen

\* The calls of MainWindow and the signals it receives, one lemma each.
LEMMA ForcedOpenFaithful ==
  ASSUME IInv, FaithfulInv, ForcedOpen
  PROVE  FaithfulInv'
  <1>1. /\ Succession(ui, toRig, obj) => Succession(ui', toRig', obj')
        /\ ui'.splitMode = ui.splitMode /\ ui.created < MaxObjects
    BY OpenFaithful DEF ForcedOpen
  <1> QED
    BY <1>1, GuiFaithful DEF ForcedOpen

LEMMA RetryOpenFaithful ==
  ASSUME IInv, FaithfulInv, RetryOpen
  PROVE  FaithfulInv'
  <1>1. CASE ui.active \/ ~CanOpen(ui)
    BY <1>1, GuiFaithful DEF RetryOpen
  <1>2. CASE ~ui.active /\ CanOpen(ui)
    <2>1. /\ Succession(ui, toRig, obj) => Succession(ui', toRig', obj')
          /\ ui'.splitMode = ui.splitMode /\ ui.created < MaxObjects
      BY <1>2, OpenFaithful DEF RetryOpen
    <2> QED
      BY <1>2, <2>1, GuiFaithful DEF RetryOpen
  <1> QED
    BY <1>1, <1>2

\* Closing leaves the split mode, which the user chooses when the rig is closed.
LEMMA ClosedMode ==
  ASSUME NEW u \in Configuration
  PROVE  CloseRig(u).splitMode = u.splitMode
  BY DEF CloseRig, Configuration

LEMMA UserCloseFaithful ==
  ASSUME IInv, FaithfulInv, UserClose
  PROVE  FaithfulInv'
  <1>1. QueueInv(ui, toRig, obj)
    BY DEF IInv
  <1>2. Succession(ui, toRig, obj) => Succession(ui', toRig', obj')
    BY <1>1, CloseSucceeds DEF UserClose
  <1>3. ui'.splitMode = ui.splitMode
    BY ClosedMode, TypesOf DEF UserClose
  <1> QED
    BY <1>2, <1>3, GuiFaithful DEF UserClose

\* A calibration value was edited: nothing is promised any more.
LEMMA ForceResetFaithful ==
  ASSUME IInv, ForceReset
  PROVE  FaithfulInv'
  <1>1. env' = [env EXCEPT !.resets = @ + 1] /\ env.resets \in Nat /\ env \in EnvType
    BY TypesOf DEF ForceReset, EnvType
  <1>2. env'.resets # 0
    BY <1>1 DEF EnvType
  <1> QED
    BY <1>2 DEF FaithfulInv, Undisturbed

LEMMA RequestFaithful ==
  ASSUME IInv, FaithfulInv, NEW state \in TransceiverState, Request(state),
         Succession(ui, toRig, obj) /\ ui.splitMode = "none" => state.tx = NoFreq,
         env'.turns = env.turns, env'.resets = env.resets,
         env'.faults = env.faults, env'.misreads = env.misreads
  PROVE  FaithfulInv'
  <1>1. QueueInv(ui, toRig, obj)
    BY DEF IInv
  <1>2. /\ ui' = Requesting(ui, state) /\ toRig' = toRig \o RequestEvents(ui, state)
        /\ obj' = obj /\ toUI' = toUI /\ emitting' = emitting /\ radio' = radio
    BY DEF Request
  <1>3. Succession(ui, toRig, obj) => Succession(ui', toRig', obj')
    BY <1>1, <1>2, RequestSucceeds
  <1>4. ui'.splitMode = ui.splitMode
    BY <1>1, <1>2 DEF Requesting, QueueInv, Configuration
  <1> QED
    BY <1>2, <1>3, <1>4, GuiFaithful

\* What is cached of a rig without split.
LEMMA CachedSplit ==
  ASSUME Succession(ui, toRig, obj), ui.splitMode = "none"
  PROVE  ui.cached.tx = NoFreq
  BY DEF Succession, Unsplit

LEMMA SetTxFrequencyFaithful ==
  ASSUME IInv, FaithfulInv, NEW f \in Freqs \cup {NoFreq}, SetTxFrequency(f)
  PROVE  FaithfulInv'
  <1> DEFINE s == [ui.cached EXCEPT !.tx = f, !.split = (f # NoFreq)]
  <1>1. s \in TransceiverState
    BY DEF IInv, TypeOK, Configuration, TransceiverState
  <1>2. Request(s) /\ env' = env /\ ui.splitMode # "none"
    BY DEF SetTxFrequency
  <1> HIDE DEF s
  <1> QED
    BY <1>1, <1>2, RequestFaithful

LEMMA SetPttFaithful ==
  ASSUME IInv, FaithfulInv, NEW on \in BOOLEAN, SetPtt(on)
  PROVE  FaithfulInv'
  <1> DEFINE s == [ui.cached EXCEPT !.ptt = on]
  <1>1. s \in TransceiverState /\ s.tx = ui.cached.tx
    BY DEF IInv, TypeOK, Configuration, TransceiverState
  <1>2. Request(s) /\ env' = env
    BY DEF SetPtt
  <1> HIDE DEF s
  <1> QED
    BY <1>1, <1>2, RequestFaithful, CachedSplit

LEMMA SetTuneFaithful ==
  ASSUME IInv, FaithfulInv, NEW on \in BOOLEAN, SetTune(on)
  PROVE  FaithfulInv'
  <1> DEFINE s == [ui.cached EXCEPT !.tune = on]
  <1>1. s \in TransceiverState /\ s.tx = ui.cached.tx
    BY DEF IInv, TypeOK, Configuration, TransceiverState
  <1>2. Request(s)
    BY DEF SetTune
  <1>3. /\ env'.turns = env.turns /\ env'.resets = env.resets
        /\ env'.faults = env.faults /\ env'.misreads = env.misreads
    <2>1. env \in EnvType /\ env' = [env EXCEPT !.tunes = @ + 1]
      BY TypesOf DEF SetTune
    <2> QED
      BY <2>1 DEF EnvType
  <1> HIDE DEF s
  <1> QED
    BY <1>1, <1>2, <1>3, RequestFaithful, CachedSplit

LEMMA SetFrequencyFaithful ==
  ASSUME IInv, FaithfulInv, NEW f \in Freqs, SetFrequency(f)
  PROVE  FaithfulInv'
  <1> DEFINE o == IF ui.active THEN ui ELSE OpenRig(ui)
             b == IF ui.active THEN <<>> ELSE OpenEvents(ui)
             s == [o.cached EXCEPT !.freq = f]
             v == Requesting(o, s)
             e == RequestEvents(o, s)
  <1>1. /\ ui' = [v EXCEPT !.want = f]
        /\ toRig' = toRig \o b \o e
        /\ obj' = IF ui.active THEN obj ELSE CreateObject(ui)
        /\ ui.active \/ CanOpen(ui)
        /\ toUI' = toUI /\ emitting' = emitting
        /\ radio' = radio /\ env' = env
    BY DEF SetFrequency
  <1>2. /\ QueueInv(o, toRig \o b, obj')
        /\ Succession(ui, toRig, obj) => Succession(o, toRig \o b, obj')
        /\ o.splitMode = ui.splitMode
    <2>1. CASE ui.active
      <3>1. toRig \o <<>> = toRig
        BY DEF IInv, TypeOK
      <3> QED
        BY <1>1, <2>1, <3>1 DEF IInv
    <2>2. CASE ~ui.active
      <3>1. QueueInv(ui, toRig, obj)
        BY DEF IInv
      <3>2. QueueInv(OpenRig(ui), toRig \o OpenEvents(ui), obj')
        BY <1>1, <2>2, <3>1, OpenPosts DEF CreateObject
      <3>3. Succession(ui, toRig, obj)
            => Succession(OpenRig(ui), toRig \o OpenEvents(ui), obj')
        BY <1>1, <2>2, <3>1, OpenSucceeds DEF CreateObject
      <3>4. OpenRig(ui).splitMode = ui.splitMode
        BY <3>1 DEF OpenRig, CloseRig, QueueInv, Configuration
      <3> QED
        BY <2>2, <3>2, <3>3, <3>4
    <2> QED
      BY <2>1, <2>2
  <1> HIDE DEF o, b
  <1>3. s \in TransceiverState /\ s.tx = o.cached.tx
    BY <1>2 DEF QueueInv, Configuration, TransceiverState
  <1> HIDE DEF s
  <1>4. QueueInv(v, (toRig \o b) \o e, obj')
    BY <1>2, <1>3, RequestPosts
  <1>5. Succession(ui, toRig, obj) => Succession(v, (toRig \o b) \o e, obj')
    <2>1. Succession(o, toRig \o b, obj') /\ o.splitMode = "none" => s.tx = NoFreq
      BY <1>3 DEF Succession, Unsplit
    <2> QED
      BY <1>2, <1>3, <2>1, RequestSucceeds
  <1>6. v.splitMode = o.splitMode
    BY <1>2 DEF Requesting, QueueInv, Configuration
  <1> HIDE DEF v, e
  <1>7. /\ ui'.active = v.active /\ ui'.created = v.created /\ ui'.conns = v.conns
        /\ ui'.splitMode = v.splitMode /\ ui'.cached = v.cached
    BY <1>1, <1>4 DEF QueueInv, Configuration
  <1>8. Succession(ui, toRig, obj) => Succession(ui', toRig', obj')
    <2>1. Succession(v, toRig', obj') => Succession(ui', toRig', obj')
      BY <1>7 DEF Succession, Connected, Stopping, Unsplit, OneMode
    <2> QED
      BY <1>1, <1>5, <2>1
  <1>9. obj' = obj \/ (ui.created < MaxObjects /\ obj' = CreateObject(ui))
    BY <1>1 DEF CanOpen
  <1> QED
    BY <1>1, <1>2, <1>6, <1>7, <1>8, <1>9, GuiFaithful

LEMMA HandleUpdateFaithful ==
  ASSUME IInv, FaithfulInv, HandleUpdate
  PROVE  FaithfulInv'
  <1> DEFINE s == Head(toUI).state
             x == [ui.cached EXCEPT !.online = s.online, !.freq = s.freq,
                                    !.split = s.split]
             u == [ui EXCEPT !.cached = x]
  <1>1. /\ toUI # <<>> /\ toUI' = Tail(toUI) /\ obj' = obj
        /\ emitting' = emitting /\ radio' = radio /\ env' = env
    BY DEF HandleUpdate
  <1>2. /\ ui' = IF s.online THEN u ELSE CloseRig(u)
        /\ toRig' = toRig \o (IF s.online THEN <<>> ELSE CloseEvents(u))
    <2> DEFINE w == [ui EXCEPT !.cached.online = s.online, !.cached.freq = s.freq,
                               !.cached.split = s.split]
    <2>1. /\ ui' = IF s.online THEN w ELSE CloseRig(w)
          /\ toRig' = toRig \o (IF s.online THEN <<>> ELSE CloseEvents(w))
      BY Zenon DEF HandleUpdate
    <2>2. u = w
      BY DEF IInv, TypeOK, Configuration
    <2> HIDE DEF u, w, s
    <2> QED
      BY <2>1, <2>2
  <1>3. s \in TransceiverState
    <2>1. toUI \in Seq(Signal)
      BY DEF IInv, TypeOK
    <2>2. Head(toUI) \in Signal
      BY <1>1, <2>1
    <2> QED
      BY <2>2 DEF Signal
  <1> HIDE DEF s
  <1>4. x \in TransceiverState /\ x.tx = ui.cached.tx
    BY <1>3 DEF IInv, TypeOK, Configuration, TransceiverState
  <1> HIDE DEF x
  <1>5. /\ u \in Configuration /\ u.cmd = ui.cmd /\ u.active = ui.active
        /\ u.created = ui.created /\ u.conns = ui.conns
        /\ u.splitMode = ui.splitMode /\ u.cached = x
    BY <1>4 DEF IInv, TypeOK, Configuration
  <1> HIDE DEF u
  <1>6. QueueInv(u, toRig, obj)
    BY <1>5, SameQueue DEF IInv
  <1>7. Succession(ui, toRig, obj) => Succession(u, toRig, obj)
    BY <1>4, <1>5 DEF Succession, Connected, Stopping, Unsplit, OneMode
  <1>8. Succession(ui, toRig, obj) => Succession(ui', toRig', obj')
    <2>1. CASE s.online
      <3>1. toRig \o <<>> = toRig
        BY DEF IInv, TypeOK
      <3> QED
        BY <1>1, <1>2, <1>7, <2>1, <3>1
    <2>2. CASE ~s.online
      BY <1>1, <1>2, <1>6, <1>7, <2>2, CloseSucceeds
    <2> QED
      BY <2>1, <2>2
  <1>9. ui'.splitMode = ui.splitMode
    BY <1>2, <1>5, ClosedMode
  <1> QED
    BY <1>1, <1>8, <1>9, GuiFaithful

LEMMA HandleFailureFaithful ==
  ASSUME IInv, FaithfulInv, HandleFailure
  PROVE  FaithfulInv'
  <1>1. /\ ui' = CloseRig(ui) /\ toRig' = toRig \o CloseEvents(ui)
        /\ toUI # <<>> /\ toUI' = RetryPosted(Head(toUI)) /\ obj' = obj
        /\ emitting' = emitting /\ radio' = radio /\ env' = env
    BY DEF HandleFailure
  <1>2. Succession(ui, toRig, obj) => Succession(ui', toRig', obj')
    BY <1>1, CloseSucceeds DEF IInv
  <1>3. ui'.splitMode = ui.splitMode
    BY <1>1, ClosedMode, TypesOf
  <1> QED
    BY <1>1, <1>2, <1>3, GuiFaithful

\* No object has started.
LEMMA InitFaithful == Init => FaithfulInv
  <1> SUFFICES ASSUME Init PROVE FaithfulInv
    OBVIOUS
  <1>1. IInv
    BY InitIInv
  <1>2. /\ ui.active = FALSE /\ ui.created = 0 /\ ui.conns = {} /\ ui.cached = Offline
        /\ radio.tx = NoFreq
        /\ Len(toRig) = 0 /\ Len(toUI) = 0 /\ Len(emitting) = 0
    BY DEF Init
  <1>3. \A i \in Objects : obj[i].seq = 0 /\ Fresh(obj[i])
    BY DEF Init, NewObject, Fresh
  <1>4. Succession(ui, toRig, obj)
    <2>1. Single(toRig) /\ Ordered(toRig)
      BY <1>2 DEF Single, Ordered
    <2>2. Superseded(toRig, obj) /\ Untouched(obj)
      BY <1>3 DEF Superseded, Untouched
    <2>3. Connected(ui) /\ Unsplit(ui, toRig)
      BY <1>2 DEF Connected, Unsplit, Offline
    <2>4. Stopping(ui, toRig, obj)
      BY <1>2, <1>3 DEF Stopping, Commanded, Fresh, Offline
    <2>5. OneMode(ui, obj)
      BY <1>2, BoundAssumption DEF OneMode, Objects
    <2> QED
      BY <2>1, <2>2, <2>3, <2>4, <2>5 DEF Succession
  <1>5. RadioLeft /\ OwnerFaithful
    BY <1>2, <1>3 DEF RadioLeft, OwnerFaithful, Owner
  <1>6. AllTruthful(toUI) /\ AllTruthful(emitting)
    BY <1>2 DEF AllTruthful
  <1> QED
    BY <1>4, <1>5, <1>6 DEF FaithfulInv

LEMMA StutterFaithful == FaithfulInv /\ UNCHANGED vars => FaithfulInv'
  BY DEF FaithfulInv, Undisturbed, Outlasted, Succession, Single, Superseded,
         Untouched, Ordered, Connected, Stopping, Unsplit, OneMode, Pending,
         Commanded, Stopped, Command, RadioLeft, OwnerFaithful, Owner, Calm,
         AllTruthful, vars

\* Every step preserves the strengthening.
LEMMA NextFaithful == IInv /\ FaithfulInv /\ [Next]_vars => FaithfulInv'
  <1> SUFFICES ASSUME IInv, FaithfulInv, [Next]_vars
               PROVE  FaithfulInv'
    OBVIOUS
  <1>1. CASE GUI
    <2>1. ASSUME NEW f \in Freqs, SetFrequency(f)
          PROVE  FaithfulInv'
      BY <2>1, SetFrequencyFaithful
    <2>2. ASSUME NEW f \in Freqs \cup {NoFreq}, SetTxFrequency(f)
          PROVE  FaithfulInv'
      BY <2>2, SetTxFrequencyFaithful
    <2>3. ASSUME NEW on \in BOOLEAN, SetPtt(on)
          PROVE  FaithfulInv'
      BY <2>3, SetPttFaithful
    <2>4. ASSUME NEW on \in BOOLEAN, SetTune(on)
          PROVE  FaithfulInv'
      BY <2>4, SetTuneFaithful
    <2> QED
      BY <1>1, <2>1, <2>2, <2>3, <2>4, ForcedOpenFaithful, UserCloseFaithful,
         ForceResetFaithful DEF GUI
  <1>2. CASE Deliver
    BY <1>2, HandleUpdateFaithful, HandleFailureFaithful, RetryOpenFaithful DEF Deliver
  <1>3. CASE Thread
    BY <1>3, HandleSetFaithful, HandleStartFaithful, HandleStopFaithful,
       HandleDeleteFaithful, EmitNextFaithful DEF Thread
  <1>4. ASSUME NEW i \in Objects, Poll(i)
        PROVE  FaithfulInv'
    BY <1>4, PollFaithful
  <1>5. ASSUME NEW f \in Freqs, TurnDial(f)
        PROVE  FaithfulInv'
    BY <1>5, TurnDialFaithful
  <1>6. CASE UNCHANGED vars
    BY <1>6, StutterFaithful
  <1> QED
    BY <1>1, <1>2, <1>3, <1>4, <1>5, <1>6 DEF Next

\* PollingTransceiver "clients don't see intermediate states": however many
\* objects, requests and polls there are, an update that a poll signals, in a
\* run with fewer misreads than stabilisation polls and no dial turn, carries
\* the frequency the receiving radio is on.
THEOREM MisreadsStayHidden == Spec => []HoldOffHidesMisreads
  <1>1. IInv /\ FaithfulInv => HoldOffHidesMisreads
    <2> SUFFICES ASSUME IInv, FaithfulInv, Undisturbed, NEW k \in DOMAIN toUI
                 PROVE  Truthful(toUI[k])
      BY DEF HoldOffHidesMisreads, Truthful
    <2>1. k \in 1..Len(toUI)
      BY SignalTypes
    <2> QED
      BY <2>1 DEF FaithfulInv, AllTruthful
  <1>2. Init => IInv /\ FaithfulInv
    BY InitIInv, InitFaithful
  <1>3. IInv /\ FaithfulInv /\ [Next]_vars => IInv' /\ FaithfulInv'
    BY NextIInv, NextFaithful
  <1> QED
    BY <1>1, <1>2, <1>3, PTL DEF Spec

-----------------------------------------------------------------------------
(* The retry after a failure.  Only an open rig has objects connected, none *)
(* of them as old as a failure whose retry is posted; what a connected     *)
(* object posts is no retry.                                               *)

Retried(u, s) ==
  /\ ~u.active => u.conns = {}
  /\ \A k \in 1..Len(s) : s[k].from <= u.created
  /\ \A k \in 1..Len(s) : s[k].sig = "retry" => \A i \in u.conns : s[k].from < i
  /\ \A k, l \in 1..Len(s) :
        (k < l /\ s[k].sig = "retry" /\ s[l].sig # "retry") => s[k].from < s[l].from

NoRetry(s) == \A k \in 1..Len(s) : s[k].sig # "retry"

RetryInv == NoRetry(emitting) /\ (env.resets = 0 => Retried(ui, toUI))

\* What is created and connected is newer.
LEMMA RetriedLater ==
  ASSUME NEW u \in Configuration, NEW v \in Configuration, NEW s \in Seq(Signal),
         Retried(u, s), ~v.active => v.conns = {}, u.created <= v.created,
         \A i \in v.conns : i \in u.conns \/ u.created < i
  PROVE  Retried(v, s)
  <1>1. \A k \in 1..Len(s) : s[k].from \in Nat
    <2>1. \A k \in 1..Len(s) : s[k] \in Signal
      OBVIOUS
    <2> QED
      BY <2>1 DEF Signal
  <1>2. /\ u.created \in Nat /\ v.created \in Nat
        /\ \A i \in v.conns : i \in Nat
    BY BoundAssumption DEF Configuration, Objects
  <1>3. \A k \in 1..Len(s) : s[k].from <= v.created
    BY <1>1, <1>2 DEF Retried
  <1>4. ASSUME NEW k \in 1..Len(s), s[k].sig = "retry", NEW i \in v.conns
        PROVE  s[k].from < i
    <2>1. s[k].from <= u.created
      BY DEF Retried
    <2>2. CASE i \in u.conns
      BY <1>4, <2>2 DEF Retried
    <2>3. CASE u.created < i
      BY <1>1, <1>2, <2>1, <2>3
    <2> QED
      BY <2>2, <2>3
  <1> QED
    BY <1>3, <1>4 DEF Retried

LEMMA RetriedTail ==
  ASSUME NEW u, NEW s \in Seq(Signal), s # <<>>, Retried(u, s)
  PROVE  Tail(s) \in Seq(Signal) /\ Retried(u, Tail(s))
  <1> DEFINE t == Tail(s)
  <1>1. /\ t \in Seq(Signal)
        /\ \A k \in 1..Len(t) : k + 1 \in 1..Len(s) /\ t[k] = s[k + 1]
        /\ \A k, l \in 1..Len(t) : k < l => k + 1 < l + 1
    OBVIOUS
  <1> HIDE DEF t
  <1>2. \A k \in 1..Len(t) :
          /\ t[k].from <= u.created
          /\ t[k].sig = "retry" => \A i \in u.conns : t[k].from < i
    BY <1>1 DEF Retried
  <1>3. \A k, l \in 1..Len(t) :
          (k < l /\ t[k].sig = "retry" /\ t[l].sig # "retry") => t[k].from < t[l].from
    BY <1>1 DEF Retried
  <1> QED
    BY <1>1, <1>2, <1>3 DEF Retried, t

\* A signal of a connected object, or a retry posted when there is none.
LEMMA RetriedAppend ==
  ASSUME NEW u, NEW s \in Seq(Signal), NEW x \in Signal, Retried(u, s),
         x.from <= u.created,
         \/ x.sig # "retry" /\ x.from \in u.conns
         \/ x.sig = "retry" /\ u.conns = {}
  PROVE  Retried(u, Append(s, x))
  <1> DEFINE t == Append(s, x)
             n == Len(s) + 1
  <1>1. /\ \A k \in 1..Len(t) : k \in 1..Len(s) \/ k = n
        /\ \A k \in 1..Len(s) : t[k] = s[k] /\ ~(n < k)
        /\ t[n] = x /\ ~(n < n)
    OBVIOUS
  <1> HIDE DEF t, n
  <1>2. \A k \in 1..Len(t) :
          /\ t[k].from <= u.created
          /\ t[k].sig = "retry" => \A i \in u.conns : t[k].from < i
    BY <1>1 DEF Retried
  <1>3. ASSUME NEW k \in 1..Len(t), NEW l \in 1..Len(t),
               k < l, t[k].sig = "retry", t[l].sig # "retry"
        PROVE  t[k].from < t[l].from
    <2>1. k \in 1..Len(s)
      BY <1>1, <1>3
    <2>2. CASE l \in 1..Len(s)
      BY <1>1, <1>3, <2>1, <2>2 DEF Retried
    <2>3. CASE l = n
      BY <1>1, <1>3, <2>1, <2>3 DEF Retried
    <2> QED
      BY <1>1, <2>2, <2>3
  <1> QED
    BY <1>2, <1>3 DEF Retried, t

\* What the GUI thread does to rig control: it closes, opens, and asks.
Tended(u, v) ==
  /\ ~v.active => v.conns = {}
  /\ u.created <= v.created
  /\ \A i \in v.conns : i \in u.conns \/ u.created < i

LEMMA ClosedTended ==
  ASSUME NEW u \in Configuration, ~u.active => u.conns = {}
  PROVE  /\ CloseRig(u) \in Configuration /\ CloseRig(u).conns = {}
         /\ CloseRig(u).created = u.created /\ Tended(u, CloseRig(u))
  <1> DEFINE c == [u EXCEPT !.active = FALSE, !.conns = {}]
  <1>1. u.created \in Nat
    BY BoundAssumption DEF Configuration
  <1>2. c \in Configuration /\ c.conns = {} /\ c.created = u.created
    BY DEF Configuration
  <1>3. CloseRig(u) = c \/ (~u.active /\ CloseRig(u) = u)
    BY DEF CloseRig
  <1> HIDE DEF c
  <1>4. CloseRig(u) \in Configuration /\ CloseRig(u).conns = {} /\ CloseRig(u).created = u.created
    BY <1>2, <1>3
  <1> QED
    BY <1>1, <1>4 DEF Tended

LEMMA OpenedTended ==
  ASSUME NEW u \in Configuration, ~u.active => u.conns = {}
  PROVE  /\ OpenRig(u).active /\ Tended(u, OpenRig(u))
         /\ \A f : /\ [OpenRig(u) EXCEPT !.want = f].active
                   /\ Tended(u, [OpenRig(u) EXCEPT !.want = f])
  <1> DEFINE c == CloseRig(u)
             w == OpenRig(u)
  <1>1. c \in Configuration /\ c.conns = {} /\ c.created = u.created
    BY ClosedTended
  <1>2. u.created \in Nat
    BY BoundAssumption DEF Configuration
  <1> HIDE DEF c
  <1>3. w = [c EXCEPT !.active = TRUE, !.cmd = @ + 1, !.cached = Offline,
                      !.created = @ + 1, !.conns = @ \cup {u.created + 1}]
    BY DEF OpenRig, c
  <1> HIDE DEF w
  <1>4. /\ c.created + 1 = u.created + 1
        /\ c.conns \cup {u.created + 1} = {u.created + 1}
    BY <1>1
  <1>5. w.active /\ w.created = u.created + 1 /\ w.conns = {u.created + 1}
    BY <1>1, <1>3, <1>4 DEF Configuration
  <1>6. \A f : LET y == [w EXCEPT !.want = f]
              IN /\ y.active = w.active /\ y.created = w.created /\ y.conns = w.conns
    BY <1>1, <1>3 DEF Configuration
  <1> QED
    BY <1>2, <1>5, <1>6 DEF Tended, w

LEMMA RequestedTended ==
  ASSUME NEW u \in Configuration, ~u.active => u.conns = {}, NEW state, NEW f
  PROVE  /\ Tended(u, Requesting(u, state))
         /\ u.active => Tended(u, [Requesting(u, state) EXCEPT !.want = f])
         /\ Tended(u, [Requesting(OpenRig(u), state) EXCEPT !.want = f])
  <1> DEFINE s == [state EXCEPT !.online = TRUE]
             c == CloseRig(u)
             w == OpenRig(u)
  <1>1. c \in Configuration /\ c.conns = {} /\ c.created = u.created
    BY ClosedTended
  <1>2. u.created \in Nat
    BY BoundAssumption DEF Configuration
  <1> HIDE DEF c, s
  <1>3. w = [c EXCEPT !.active = TRUE, !.cmd = @ + 1, !.cached = Offline,
                      !.created = @ + 1, !.conns = @ \cup {u.created + 1}]
    BY DEF OpenRig, c
  <1> HIDE DEF w
  <1> DEFINE y == [w EXCEPT !.cached = s, !.cmd = @ + 1]
             z == [y EXCEPT !.want = f]
             v == [u EXCEPT !.cached = s, !.cmd = @ + 1]
             t == [v EXCEPT !.want = f]
  <1>4. /\ c.created + 1 = u.created + 1
        /\ c.conns \cup {u.created + 1} = {u.created + 1}
    BY <1>1
  <1>5. z.active /\ z.created = u.created + 1 /\ z.conns = {u.created + 1}
    BY <1>1, <1>3, <1>4 DEF Configuration
  <1>6. /\ v.active = u.active /\ v.created = u.created /\ v.conns = u.conns
        /\ t.active = u.active /\ t.created = u.created /\ t.conns = u.conns
    BY DEF Configuration
  <1>7. /\ Requesting(u, state) = v /\ [Requesting(u, state) EXCEPT !.want = f] = t
        /\ [Requesting(OpenRig(u), state) EXCEPT !.want = f] = z
    BY DEF Requesting, s, w
  <1> HIDE DEF v, t, z
  <1>8. Tended(u, v)
    BY <1>2, <1>6 DEF Tended
  <1>9. u.active => Tended(u, t)
    BY <1>2, <1>6 DEF Tended
  <1>10. Tended(u, z)
    BY <1>2, <1>5 DEF Tended
  <1> QED
    BY <1>7, <1>8, <1>9, <1>10

LEMMA PrimedRetry ==
  ASSUME NoRetry(emitting'), env'.resets = 0 => Retried(ui', toUI')
  PROVE  RetryInv'
  BY DEF RetryInv, NoRetry, Retried

\* A step of the GUI thread that posts no retry.
LEMMA GuiRetried ==
  ASSUME IInv, IInv', RetryInv, emitting' = emitting, env'.resets = env.resets,
         (~ui.active => ui.conns = {}) => Tended(ui, ui'),
         toUI' = toUI \/ (toUI # <<>> /\ toUI' = Tail(toUI))
  PROVE  RetryInv'
  <1>1. /\ ui \in Configuration /\ toUI \in Seq(Signal)
    BY DEF IInv, TypeOK
  <1>2. ui' \in Configuration
    BY DEF IInv, TypeOK
  <1>3. ASSUME env.resets = 0
        PROVE  Retried(ui', toUI')
    <2>1. Retried(ui, toUI)
      BY <1>3 DEF RetryInv
    <2>2. Tended(ui, ui')
      BY <2>1 DEF Retried
    <2>3. toUI' \in Seq(Signal) /\ Retried(ui, toUI')
      BY <1>1, <2>1, RetriedTail
    <2> QED
      BY <1>1, <1>2, <2>2, <2>3, RetriedLater DEF Tended
  <1> QED
    BY <1>3, PrimedRetry DEF RetryInv

LEMMA ForcedOpenRetried ==
  ASSUME IInv, IInv', RetryInv, ForcedOpen \/ RetryOpen
  PROVE  RetryInv'
  <1>1. ui \in Configuration
    BY DEF IInv, TypeOK
  <1>2. ui' = [OpenRig(ui) EXCEPT !.want = NoFreq] \/ ui' = ui
    BY DEF ForcedOpen, RetryOpen
  <1>3. (~ui.active => ui.conns = {}) => Tended(ui, ui')
    <2> SUFFICES ASSUME ~ui.active => ui.conns = {} PROVE Tended(ui, ui')
      OBVIOUS
    <2>1. ui.created \in Nat
      BY <1>1, BoundAssumption DEF Configuration
    <2>2. Tended(ui, ui)
      BY <2>1 DEF Tended
    <2> QED
      BY <1>1, <1>2, <2>2, OpenedTended
  <1>4. /\ emitting' = emitting /\ env' = env
        /\ toUI' = toUI \/ (toUI # <<>> /\ toUI' = Tail(toUI))
    BY DEF ForcedOpen, RetryOpen
  <1> QED
    BY <1>3, <1>4, GuiRetried

LEMMA UserCloseRetried ==
  ASSUME IInv, IInv', RetryInv, UserClose
  PROVE  RetryInv'
  <1>1. ui \in Configuration
    BY DEF IInv, TypeOK
  <1>2. (~ui.active => ui.conns = {}) => Tended(ui, ui')
    BY <1>1, ClosedTended DEF UserClose
  <1> QED
    BY <1>2, GuiRetried DEF UserClose

LEMMA ForceResetRetried ==
  ASSUME IInv, RetryInv, ForceReset
  PROVE  RetryInv'
  <1>1. env' = [env EXCEPT !.resets = @ + 1] /\ emitting' = emitting
    BY DEF ForceReset
  <1>2. env'.resets # 0
    BY <1>1, TypesOf DEF EnvType
  <1> QED
    BY <1>1, <1>2, PrimedRetry DEF RetryInv

LEMMA RequestsRetried ==
  ASSUME IInv, IInv', RetryInv,
         \/ \E f \in Freqs : SetFrequency(f)
         \/ \E f \in Freqs \cup {NoFreq} : SetTxFrequency(f)
         \/ \E on \in BOOLEAN : SetPtt(on)
         \/ \E on \in BOOLEAN : SetTune(on)
  PROVE  RetryInv'
  <1>1. ui \in Configuration
    BY DEF IInv, TypeOK
  <1>2. CASE \E f \in Freqs : SetFrequency(f)
    <2>1. PICK f \in Freqs : SetFrequency(f)
      BY <1>2
    <2> DEFINE o == IF ui.active THEN ui ELSE OpenRig(ui)
               state == [o.cached EXCEPT !.freq = f]
    <2>2. /\ toUI' = toUI /\ emitting' = emitting /\ env' = env
          /\ ui' = [Requesting(o, state) EXCEPT !.want = f]
      BY <2>1 DEF SetFrequency
    <2> HIDE DEF state
    <2>3. (~ui.active => ui.conns = {}) => Tended(ui, ui')
      <3>1. CASE ui.active
        <4>1. ui' = [Requesting(ui, state) EXCEPT !.want = f]
          BY <2>2, <3>1
        <4> QED
          BY <1>1, <3>1, <4>1, RequestedTended
      <3>2. CASE ~ui.active
        <4>1. ui' = [Requesting(OpenRig(ui), state) EXCEPT !.want = f]
          BY <2>2, <3>2
        <4> QED
          BY <1>1, <4>1, RequestedTended
      <3> QED
        BY <3>1, <3>2
    <2> QED
      BY <2>2, <2>3, GuiRetried
  <1>3. CASE ~\E f \in Freqs : SetFrequency(f)
    <2>1. PICK state : /\ Request(state)
                       /\ env' = env \/ env' = [env EXCEPT !.tunes = @ + 1]
      BY <1>3, Zenon DEF SetTxFrequency, SetPtt, SetTune
    <2>2. /\ ui' = Requesting(ui, state) /\ toUI' = toUI /\ emitting' = emitting
      BY <2>1 DEF Request
    <2>3. (~ui.active => ui.conns = {}) => Tended(ui, ui')
      BY <1>1, <2>2, RequestedTended
    <2>4. env'.resets = env.resets
      BY <2>1, TypesOf DEF EnvType
    <2> QED
      BY <2>2, <2>3, <2>4, GuiRetried
  <1> QED
    BY <1>2, <1>3

LEMMA HandleUpdateRetried ==
  ASSUME IInv, IInv', RetryInv, HandleUpdate
  PROVE  RetryInv'
  <1> DEFINE s == Head(toUI).state
             u == [ui EXCEPT !.cached.online = s.online, !.cached.freq = s.freq,
                             !.cached.split = s.split]
  <1>1. /\ toUI # <<>> /\ toUI' = Tail(toUI)
        /\ emitting' = emitting /\ env' = env
    BY DEF HandleUpdate
  <1>2. ui' = u \/ ui' = CloseRig(u)
    BY Zenon DEF HandleUpdate
  <1>3. ui \in Configuration /\ ui.created \in Nat
    BY BoundAssumption DEF IInv, TypeOK, Configuration
  <1>4. u.active = ui.active /\ u.created = ui.created /\ u.conns = ui.conns
    BY <1>3 DEF Configuration
  <1>5. CloseRig(u).created = ui.created
        /\ (CloseRig(u) = u \/ CloseRig(u).conns = {})
    <2> DEFINE c == [u EXCEPT !.active = FALSE, !.conns = {}]
    <2>1. c.created = ui.created /\ c.conns = {}
      BY <1>3 DEF Configuration
    <2>2. CloseRig(u) = c \/ CloseRig(u) = u
      BY DEF CloseRig
    <2> HIDE DEF c, u
    <2> QED
      BY <1>4, <2>1, <2>2
  <1> HIDE DEF u, s
  <1>6. (~ui.active => ui.conns = {}) => Tended(ui, ui')
    BY <1>2, <1>3, <1>4, <1>5 DEF Tended
  <1> QED
    BY <1>1, <1>6, GuiRetried

\* The failure closes the rig, so that no object is connected when the retry
\* is posted.
LEMMA HandleFailureRetried ==
  ASSUME IInv, IInv', RetryInv, HandleFailure
  PROVE  RetryInv'
  <1> DEFINE h == Head(toUI)
             t == Tail(toUI)
             x == [h EXCEPT !.sig = "retry"]
             c == CloseRig(ui)
  <1>1. /\ ui' = c /\ toUI # <<>> /\ (toUI' = t \/ toUI' = Append(t, x))
        /\ emitting' = emitting /\ env' = env
    BY DEF HandleFailure, RetryPosted
  <1>2. ui \in Configuration /\ toUI \in Seq(Signal)
    BY DEF IInv, TypeOK
  <1>3. /\ h \in Signal /\ h = toUI[1] /\ 1 \in 1..Len(toUI)
    BY <1>1, <1>2
  <1> HIDE DEF h
  <1>4. x \in Signal /\ x.sig = "retry" /\ x.from = h.from
    BY <1>3 DEF Signal
  <1> HIDE DEF x
  <1>5. ASSUME env.resets = 0
        PROVE  Retried(c, toUI')
    <2>1. Retried(ui, toUI)
      BY <1>5 DEF RetryInv
    <2>2. c \in Configuration /\ c.conns = {} /\ c.created = ui.created /\ Tended(ui, c)
      BY <1>2, <2>1, ClosedTended DEF Retried
    <2> HIDE DEF c
    <2>3. t \in Seq(Signal) /\ Retried(ui, t)
      BY <1>1, <1>2, <2>1, RetriedTail
    <2>4. Retried(c, t)
      BY <1>2, <2>2, <2>3, RetriedLater DEF Tended
    <2>5. x.from <= c.created
      BY <1>3, <1>4, <2>1, <2>2 DEF Retried
    <2> HIDE DEF t
    <2>6. Retried(c, Append(t, x))
      BY <1>4, <2>2, <2>3, <2>4, <2>5, RetriedAppend
    <2> QED
      BY <1>1, <2>4, <2>6
  <1> QED
    BY <1>1, <1>5, PrimedRetry DEF RetryInv

\* A signal is posted for a connected object alone.
LEMMA SignalRetried ==
  ASSUME IInv, RetryInv, env.resets = 0, NEW x \in Signal, x.sig # "retry",
         x.from \in ui.conns
  PROVE  Retried(ui, Append(toUI, x))
  <1>1. toUI \in Seq(Signal) /\ Retried(ui, toUI)
    BY DEF IInv, TypeOK, RetryInv
  <1>2. x.from <= ui.created
    BY DEF IInv, QueueInv, ObjectsCreated
  <1> QED
    BY <1>1, <1>2, RetriedAppend

LEMMA TailNoRetry ==
  ASSUME NEW s \in Seq(Signal), s # <<>>, NoRetry(s)
  PROVE  /\ NoRetry(Tail(s))
         /\ Head(s) \in Signal /\ Head(s).sig # "retry" /\ Head(s) = s[1]
         /\ 1 \in 1..Len(s)
  <1> DEFINE t == Tail(s)
  <1>1. /\ \A k \in 1..Len(t) : k + 1 \in 1..Len(s) /\ t[k] = s[k + 1]
        /\ 1 \in 1..Len(s) /\ Head(s) = s[1] /\ Head(s) \in Signal
    OBVIOUS
  <1> HIDE DEF t
  <1> QED
    BY <1>1 DEF NoRetry, t

LEMMA SlotRetried ==
  ASSUME IInv, RetryInv, NEW i \in Objects, NEW c, c.id = i, NEW d, NEW n,
         Outcome(c, d, n), NEW misread, Finish(i, d, misread), ui' = ui
  PROVE  RetryInv'
  <1>1. /\ emitting = <<>> /\ Emits(i, d.out)
        /\ env' = [env EXCEPT !.faults = IF d.faulty THEN @ + 1 ELSE @,
                              !.misreads = IF misread THEN @ + 1 ELSE @]
    BY DEF Finish
  <1>2. env'.resets = env.resets
    BY <1>1, TypesOf DEF EnvType
  <1>3. d.out \in Seq(Signal)
    BY DEF Outcome, Context
  <1>4. NoRetry(d.out) /\ \A k \in 1..Len(d.out) : d.out[k].from = i
    <2>1. DOMAIN d.out = 1..Len(d.out)
      BY <1>3
    <2> QED
      BY <2>1 DEF Outcome, Stamped, NoRetry
  <1>5. CASE d.out = <<>> \/ i \notin ui.conns
    BY <1>1, <1>2, <1>5, PrimedRetry DEF Emits, RetryInv
  <1>6. CASE d.out # <<>> /\ i \in ui.conns
    <2> DEFINE x == Head(d.out)
    <2>1. toUI' = Append(toUI, x) /\ emitting' = Tail(d.out)
      BY <1>1, <1>6 DEF Emits
    <2>2. /\ NoRetry(emitting') /\ x \in Signal /\ x.sig # "retry" /\ x.from = i
      BY <1>3, <1>4, <1>6, <2>1, TailNoRetry
    <2> HIDE DEF x
    <2>3. env.resets = 0 => Retried(ui', toUI')
      BY <1>6, <2>1, <2>2, SignalRetried
    <2> QED
      BY <1>2, <2>2, <2>3, PrimedRetry
  <1> QED
    BY <1>5, <1>6

LEMMA HandleSetRetried ==
  ASSUME IInv, RetryInv, NEW i \in Objects, HandleSet(i)
  PROVE  RetryInv'
  <1> DEFINE m == Head(toRig)
  <1>1. PICK bad \in Faults :
           Finish(i, Set(Begin(i, obj[i], radio, bad, "slot"), m.state, m.seq), FALSE)
    BY DEF HandleSet
  <1>2. toRig # <<>> /\ First(i, m) /\ ui' = ui
    BY DEF HandleSet
  <1> DEFINE c == Begin(i, obj[i], radio, bad, "slot")
             d == Set(c, m.state, m.seq)
  <1>3. m.seq \in Nat /\ m.state \in TransceiverState
    BY <1>2, Receiver
  <1>4. c \in Context /\ ~c.thrown /\ c.out = <<>> /\ c.id = i
    BY SlotBegins
  <1>5. Outcome(c, d, m.seq)
    <2> HIDE DEF c, m
    <2> QED
      BY <1>3, <1>4, SetOutcome
  <1>6. Finish(i, d, FALSE)
    BY <1>1
  <1> HIDE DEF c, d, m
  <1> QED
    BY <1>2, <1>4, <1>5, <1>6, SlotRetried

LEMMA HandleStartRetried ==
  ASSUME IInv, RetryInv, NEW i \in Objects, HandleStart(i)
  PROVE  RetryInv'
  <1> DEFINE m == Head(toRig)
  <1>1. PICK bad \in Faults :
           Finish(i, Start(Begin(i, obj[i], radio, bad, "slot"), m.seq), FALSE)
    BY DEF HandleStart
  <1>2. toRig # <<>> /\ First(i, m) /\ ui' = ui
    BY DEF HandleStart
  <1> DEFINE c == Begin(i, obj[i], radio, bad, "slot")
             d == Start(c, m.seq)
  <1>3. m.seq \in Nat
    BY <1>2, Receiver
  <1>4. c \in Context /\ ~c.thrown /\ c.out = <<>> /\ c.id = i
    BY SlotBegins
  <1>5. Outcome(c, d, m.seq)
    <2> HIDE DEF c, m
    <2> QED
      BY <1>3, <1>4, StartOutcome
  <1>6. Finish(i, d, FALSE)
    BY <1>1
  <1> HIDE DEF c, d, m
  <1> QED
    BY <1>2, <1>4, <1>5, <1>6, SlotRetried

LEMMA HandleStopRetried ==
  ASSUME IInv, RetryInv, NEW i \in Objects, HandleStop(i)
  PROVE  RetryInv'
  <1>1. PICK bad \in Faults :
           Finish(i, Stop(Begin(i, obj[i], radio, bad, "slot")), FALSE)
    BY DEF HandleStop
  <1>2. ui' = ui
    BY DEF HandleStop
  <1> DEFINE c == Begin(i, obj[i], radio, bad, "slot")
             d == Stop(c)
  <1>3. /\ c \in Context /\ ~c.thrown /\ c.out = <<>> /\ c.id = i /\ c.o = obj[i]
    BY SlotBegins
  <1>4. Outcome(c, d, obj[i].seq)
    <2> HIDE DEF c
    <2> QED
      BY <1>3, StopOutcome
  <1>5. Finish(i, d, FALSE)
    BY <1>1
  <1> HIDE DEF c, d
  <1> QED
    BY <1>2, <1>3, <1>4, <1>5, SlotRetried

LEMMA PollRetried ==
  ASSUME IInv, RetryInv, NEW i \in Objects, Poll(i)
  PROVE  RetryInv'
  <1>1. PICK bad \in Faults, reading \in Freqs :
           Finish(i, Timeout(Begin(i, obj[i], radio, bad, "poll"), reading),
                  reading # radio.freq)
    <2>1. radio.freq \in Freqs
      BY DEF IInv, TypeOK, Radio
    <2> QED
      BY <2>1 DEF Poll
  <1>2. ui' = ui
    BY DEF Poll
  <1> DEFINE c == Begin(i, obj[i], radio, bad, "poll")
             d == Timeout(c, reading)
  <1>3. /\ c \in Context /\ ~c.thrown /\ c.out = <<>> /\ c.id = i
        /\ c.o = obj[i] /\ obj[i].seq \in Nat
    BY SlotBegins
  <1>4. Outcome(c, d, obj[i].seq)
    <2> HIDE DEF c
    <2> QED
      BY <1>3, TimeoutOutcome
  <1>5. Finish(i, d, reading # radio.freq)
    BY <1>1
  <1> HIDE DEF c, d
  <1> QED
    BY <1>2, <1>3, <1>4, <1>5, SlotRetried

LEMMA EmitNextRetried ==
  ASSUME IInv, RetryInv, EmitNext
  PROVE  RetryInv'
  <1> DEFINE x == Head(emitting)
  <1>1. /\ emitting # <<>> /\ emitting' = Tail(emitting)
        /\ toUI' = IF x.from \in ui.conns THEN Append(toUI, x) ELSE toUI
        /\ ui' = ui /\ env' = env
    BY DEF EmitNext
  <1>2. emitting \in Seq(Signal)
    BY DEF IInv, TypeOK
  <1>3. NoRetry(emitting') /\ x \in Signal /\ x.sig # "retry"
    BY <1>1, <1>2, TailNoRetry DEF RetryInv
  <1> HIDE DEF x
  <1>4. ASSUME env.resets = 0
        PROVE  Retried(ui', toUI')
    <2>1. CASE x.from \in ui.conns
      BY <1>1, <1>3, <1>4, <2>1, SignalRetried
    <2>2. CASE x.from \notin ui.conns
      BY <1>1, <1>4, <2>2 DEF RetryInv
    <2> QED
      BY <2>1, <2>2
  <1> QED
    BY <1>1, <1>3, <1>4, PrimedRetry

LEMMA NextRetried == IInv /\ IInv' /\ RetryInv /\ [Next]_vars => RetryInv'
  <1> SUFFICES ASSUME IInv, IInv', RetryInv, [Next]_vars
               PROVE  RetryInv'
    OBVIOUS
  <1>1. CASE GUI
    BY <1>1, ForcedOpenRetried, UserCloseRetried, ForceResetRetried, RequestsRetried
       DEF GUI
  <1>2. CASE Deliver
    BY <1>2, HandleUpdateRetried, HandleFailureRetried, ForcedOpenRetried DEF Deliver
  <1>3. CASE HandleDelete \/ (\E f \in Freqs : TurnDial(f)) \/ UNCHANGED vars
    <2>1. /\ ui' = ui /\ toUI' = toUI /\ emitting' = emitting
          /\ env'.resets = env.resets
      BY <1>3, TypesOf DEF HandleDelete, TurnDial, vars, EnvType
    <2> QED
      BY <2>1, PrimedRetry DEF RetryInv
  <1>4. CASE Thread
    BY <1>3, <1>4, HandleSetRetried, HandleStartRetried, HandleStopRetried,
       EmitNextRetried DEF Thread
  <1>5. ASSUME NEW i \in Objects, Poll(i)
        PROVE  RetryInv'
    BY <1>5, PollRetried
  <1> QED
    BY <1>1, <1>2, <1>3, <1>4, <1>5 DEF Next

\* MainWindow's "one automatic retry" opens the rig behind everything that the
\* failed object has posted: between two handlers, whatever was requested, and
\* however many objects there were, unless a calibration edit has left an object
\* connected.
THEOREM RetryComesLast == Spec => []NothingStaleAfterRetry
  <1>1. Init => RetryInv
    <2> SUFFICES ASSUME Init PROVE RetryInv
      OBVIOUS
    <2>1. /\ Len(toUI) = 0 /\ Len(emitting) = 0 /\ ui.conns = {}
      BY DEF Init
    <2> QED
      BY <2>1 DEF RetryInv, Retried, NoRetry
  <1>2. IInv /\ RetryInv => NothingStaleAfterRetry
    <2> SUFFICES ASSUME IInv, RetryInv PROVE NothingStaleAfterRetry
      OBVIOUS
    <2>1. toUI \in Seq(Signal)
      BY DEF IInv, TypeOK
    <2>2. DOMAIN toUI = 1..Len(toUI)
      BY <2>1
    <2> QED
      BY <2>2 DEF RetryInv, Retried, NothingStaleAfterRetry
  <1> QED
    BY <1>1, <1>2, InitIInv, NextIInv, NextRetried, PTL DEF Spec
=============================================================================
