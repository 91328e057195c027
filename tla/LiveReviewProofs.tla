--------------------------- MODULE LiveReviewProofs ---------------------------
(***************************************************************************)
(* Theorems about LiveReview, for any number of participants, connections, *)
(* commands, failed writes, sweeps and crashes: who controls a room, and   *)
(* who sits in it.                                                         *)
(***************************************************************************)
EXTENDS LiveReview, SequenceTheorems, TLAPS

-----------------------------------------------------------------------------
(***************************************************************************)
(* Type correctness.                                                       *)
(***************************************************************************)

\* What the steps do to a view keeps it a view.
LEMMA ViewSteps ==
    /\ Blank \in View
    /\ \A v \in View :
          /\ Bumped(v) \in View
          /\ v.revision \in Int
          /\ v.epoch \in Nat /\ v.presenter \in Members /\ v.canvas \in Nat
          /\ v.playing \in BOOLEAN /\ v.present \in SUBSET Members
          /\ v.strokes \in [Members -> Nat]
          /\ Wiped(v) \in View
          /\ \A m \in Members : Drawing("stroke", v, m) \in View
          /\ \A m \in Members : v.strokes[m] > 0 => Drawing("remove", v, m) \in View
          /\ \A n \in Int, b \in BOOLEAN :
                [v EXCEPT !.playing = b, !.revision = n] \in View
          /\ \A n \in Int, e \in Nat, m \in Members :
                [v EXCEPT !.presenter = m, !.epoch = e, !.playing = FALSE, !.revision = n] \in View
          /\ \A m \in Members : Enters(v, m) \in View /\ Leaves(v, m) \in View
<1>1. Blank \in View
  BY LiveAssumption DEF Blank, View
<1>2. SUFFICES ASSUME NEW v \in View
               PROVE  ViewSteps!2!(v)
  BY <1>1
<1>3. /\ v.revision \in Int
      /\ v.epoch \in Nat /\ v.presenter \in Members /\ v.canvas \in Nat
      /\ v.playing \in BOOLEAN /\ v.present \in SUBSET Members
      /\ v.strokes \in [Members -> Nat]
  BY DEF View
<1>4. Bumped(v) \in View
  BY DEF Bumped, View
<1>5. Wiped(v) \in View
  <2>1. Blank.strokes \in [Members -> Nat] /\ v.canvas + 1 \in Nat
    BY <1>1, <1>3 DEF View
  <2>2. QED
    BY <2>1 DEF Wiped, View
<1>. DEFINE Drawn(f) == [v EXCEPT !.revision = @ + 1, !.strokes = f]
<1>. HIDE DEF Drawn
<1>6. ASSUME NEW f \in [Members -> Nat] PROVE Drawn(f) \in View
  <2> DEFINE n == v.revision + 1
  <2>1. n \in Int
    BY <1>3
  <2> HIDE DEF n
  <2>2. [v EXCEPT !.revision = n, !.strokes = f] \in View
    BY <2>1 DEF View
  <2>3. QED
    BY <2>2 DEF Drawn, n
<1>7. \A m \in Members : Drawing("stroke", v, m) \in View
  <2>1. ASSUME NEW m \in Members PROVE Drawing("stroke", v, m) = Drawn([v.strokes EXCEPT ![m] = @ + 1])
    BY DEF Drawing, Drawn, View
  <2>2. \A m \in Members : [v.strokes EXCEPT ![m] = @ + 1] \in [Members -> Nat]
    BY <1>3
  <2>3. QED
    BY <2>1, <2>2, <1>6
<1>8. \A m \in Members : v.strokes[m] > 0 => Drawing("remove", v, m) \in View
  <2>1. ASSUME NEW m \in Members PROVE Drawing("remove", v, m) = Drawn([v.strokes EXCEPT ![m] = @ - 1])
    BY DEF Drawing, Drawn, View
  <2>2. \A m \in Members : v.strokes[m] > 0 => [v.strokes EXCEPT ![m] = @ - 1] \in [Members -> Nat]
    BY <1>3
  <2>3. QED
    BY <2>1, <2>2, <1>6
<1>9. \A n \in Int, b \in BOOLEAN : [v EXCEPT !.playing = b, !.revision = n] \in View
  BY DEF View
<1>10. \A n \in Int, e \in Nat, m \in Members :
        [v EXCEPT !.presenter = m, !.epoch = e, !.playing = FALSE, !.revision = n] \in View
  BY DEF View
<1>11. \A m \in Members : Enters(v, m) \in View /\ Leaves(v, m) \in View
  <2>1. \A m \in Members : v.present \cup {m} \in SUBSET Members
                           /\ v.present \ {m} \in SUBSET Members
    BY <1>3
  <2>2. Bumped(v).present = v.present
    BY DEF Bumped, View
  <2>3. \A P \in SUBSET Members : [Bumped(v) EXCEPT !.present = P] \in View
    BY <1>4 DEF View
  <2>4. QED
    BY <2>1, <2>2, <2>3 DEF Enters, Leaves
<1>12. QED
  BY <1>3, <1>4, <1>5, <1>7, <1>8, <1>9, <1>10, <1>11

\* A room's fields, and what replaces them one by one.
LEMMA RoomSteps ==
    /\ NoRoom \in Room
    /\ \A r \in Room :
          /\ r.loaded \in BOOLEAN /\ r.ending \in BOOLEAN /\ r.timer \in BOOLEAN
          /\ r.snapshot \in View
          /\ r.sockets \in [Members -> Sockets \cup {NoSocket}]
          /\ \A v \in View : [r EXCEPT !.snapshot = v] \in Room
          /\ \A b \in BOOLEAN : [r EXCEPT !.timer = b] \in Room
          /\ \A b \in BOOLEAN : [r EXCEPT !.ending = b] \in Room
          /\ \A m \in Members, s \in Sockets \cup {NoSocket} :
                [r EXCEPT !.sockets[m] = s] \in Room
  <1>1. NoRoom \in Room
    BY ViewSteps DEF Room, NoRoom
  <1>2. QED
    BY <1>1 DEF Room

\* Messages and tasks are well formed.
LEMMA MessageTypes ==
    /\ \A v \in View : Snapshot(v) \in Seq(Message)
    /\ \A v \in View, m \in Members, kind \in {"stroke", "remove"} :
          Delta(kind, m, v) \in Seq(Message)
    /\ \A kind \in Commands \cup {"gone"}, s \in Sockets, n \in Nat, m \in Members :
          Job(kind, s, n, m) \in Task
    /\ \A m \in Members : Job("empty", NoSocket, 0, m) \in Task
  <1>1. ASSUME NEW v \in View PROVE Snapshot(v) \in Seq(Message)
    <2>1. [kind |-> "snapshot", view |-> v] \in Message
      BY DEF Message
    <2>2. QED
      BY <2>1 DEF Snapshot
  <1>2. ASSUME NEW v \in View, NEW m \in Members, NEW kind \in {"stroke", "remove"}
        PROVE  Delta(kind, m, v) \in Seq(Message)
    <2>1. [kind |-> kind, by |-> m, base |-> v.revision, canvas |-> v.canvas] \in Message
      BY ViewSteps DEF Message
    <2>2. QED
      BY <2>1 DEF Delta
  <1>3. QED
    BY <1>1, <1>2 DEF Job, Task

\* Publishing to the sockets of a room.
LEMMA TellType ==
    ASSUME TypeOK, NEW r, NEW messages \in Seq(Message), Tell(r, messages)
    PROVE  inbox' \in [Sockets -> Seq(Message)]
  <1>1. \A s \in Sockets : inbox[s] \o messages \in Seq(Message)
    BY ConcatProperties DEF TypeOK
  <1>2. QED
    BY <1>1 DEF TypeOK, Tell

\* A task's end, and the task that may follow it.
LEMMA QueueType ==
    ASSUME TypeOK
    PROVE  /\ \A t \in Task : Append(queue, t) \in Seq(Task)
           /\ queue # <<>> => /\ Tail(queue) \in Seq(Task)
                              /\ \A t \in Task : Append(Tail(queue), t) \in Seq(Task)
                              /\ task \in Task
                              /\ task.stamp \in Nat /\ task.to \in Members
                              /\ task.kind \in Commands \cup {"gone"} => task.by \in Sockets /\ from \in Members
  <1>1. \A q \in Seq(Task), t \in Task : Append(q, t) \in Seq(Task)
    BY AppendProperties
  <1>2. queue # <<>> => Tail(queue) \in Seq(Task) /\ task \in Task
    BY HeadTailProperties DEF TypeOK, task
  <1>3. \A t \in Task : /\ t.stamp \in Nat /\ t.to \in Members
                        /\ t.kind \in Commands \cup {"gone"} => t.by \in Sockets
    BY DEF Task, Commands
  <1>4. queue # <<>> /\ task.kind \in Commands \cup {"gone"} => from \in Members
    BY <1>2, <1>3 DEF from, TypeOK
  <1>5. QED
    BY <1>1, <1>2, <1>3, <1>4 DEF TypeOK

LEMMA ScheduleType ==
    ASSUME TypeOK, queue # <<>>, NEW r \in Room, NEW b \in BOOLEAN, ScheduleEmptyClose(r, b)
    PROVE  room' \in Room /\ queue' \in Seq(Task)
  BY LiveAssumption, QueueType, RoomSteps, MessageTypes DEF ScheduleEmptyClose

\* Whoever awaits a write is the first in the queue of a loaded room, and the
\* write is one its task makes.
Busy ==
    write.kind # "none" =>
        /\ room.loaded /\ queue # <<>>
        /\ write.kind = "playback" => task.kind \in {"play", "pause", "seek"}
        /\ write.kind = "transfer" => task.kind = "transfer"
        /\ write.kind = "pause" => task.kind \in {"transfer", "buffering", "gone"}

-----------------------------------------------------------------------------
(***************************************************************************)
(* What the room's helpers leave alone.                                    *)
(***************************************************************************)

\* A new snapshot in the room, published or not.
LEMMA AssignedRoom ==
    ASSUME TypeOK, NEW v \in View
    PROVE  /\ Assigned(v) \in Room
           /\ Assigned(v).snapshot = v /\ Assigned(v).sockets = room.sockets
           /\ Assigned(v).loaded = room.loaded /\ Assigned(v).ending = room.ending
  <1>. DEFINE b == room.rewound \/ v.revision < now.revision
  <1>1. Assigned(v) = [room EXCEPT !.snapshot = v, !.rewound = b]
    BY DEF Assigned, TypeOK, Room
  <1>2. b \in BOOLEAN
    BY ViewSteps, RoomSteps DEF TypeOK, Room
  <1>. HIDE DEF b
  <1>3. QED
    BY <1>1, <1>2 DEF TypeOK, Room

LEMMA ShowRoom ==
    ASSUME TypeOK, NEW v \in View, Show(v) \/ ShowAssigned(v)
    PROVE  /\ room' \in Room /\ inbox' \in [Sockets -> Seq(Message)]
           /\ room'.snapshot = v /\ room'.sockets = room.sockets
           /\ room'.loaded = room.loaded /\ room'.ending = room.ending
  <1>1. inbox' \in [Sockets -> Seq(Message)]
    BY TellType, MessageTypes DEF Show, ShowAssigned
  <1>2. CASE Show(v)
    BY <1>1, <1>2 DEF Show, TypeOK, Room
  <1>3. CASE ShowAssigned(v)
    BY <1>1, <1>3, AssignedRoom DEF ShowAssigned
  <1>4. QED
    BY <1>2, <1>3

\* A delta published to the room.
LEMMA RedrawRoom ==
    ASSUME TypeOK, from \in Members, NEW kind \in {"stroke", "remove"},
           kind = "remove" => now.strokes[from] > 0, Redraw(kind)
    PROVE  /\ room' \in Room /\ inbox' \in [Sockets -> Seq(Message)]
           /\ room'.snapshot = Drawing(kind, now, from) /\ room'.sockets = room.sockets
           /\ room'.loaded = room.loaded /\ room'.ending = room.ending
  <1>1. now \in View
    BY RoomSteps DEF TypeOK, now
  <1>2. Drawing(kind, now, from) \in View
    BY <1>1, ViewSteps
  <1>3. inbox' \in [Sockets -> Seq(Message)]
    BY <1>1, TellType, MessageTypes DEF Redraw
  <1>4. QED
    BY <1>2, <1>3 DEF Redraw, TypeOK, Room

\* A task appended behind the running one.
LEMMA BusyKept ==
    ASSUME TypeOK, Busy, UNCHANGED write, room'.loaded = room.loaded,
           queue' = queue \/ \E t \in Task : queue' = Append(queue, t)
    PROVE  Busy'
  <1>1. queue # <<>> => queue' # <<>> /\ task' = task
    <2>1. ASSUME NEW t \in Task, queue # <<>>
          PROVE  Append(queue, t) # <<>> /\ Head(Append(queue, t)) = Head(queue)
      BY <2>1, AppendProperties DEF TypeOK
    <2>2. QED
      BY <2>1 DEF task
  <1>2. QED
    BY <1>1 DEF Busy

-----------------------------------------------------------------------------
(***************************************************************************)
(* Connections and the browser keep the types.                             *)
(***************************************************************************)

LEMMA AuthTypes ==
    ASSUME TypeOK, Busy, NEW s \in Sockets,
           (\E m \in Opens[s] : AuthLoad(s, m)) \/ Auth(s)
    PROVE  TypeOK' /\ Busy'
  <1>. USE DEF memory, client
  <1>1. CASE \E m \in Opens[s] : AuthLoad(s, m)
    <2>1. PICK m \in Opens[s] : AuthLoad(s, m)
      BY <1>1
    <2>2. m \in Members
      BY LiveAssumption DEF Sockets
    <2>3. stage' \in [Sockets -> Joining \cup Connected \cup {"new", "closed"}]
      BY <2>1 DEF AuthLoad, Reach, Joining, TypeOK
    <2>4. TypeOK'
      BY <2>1, <2>2, <2>3 DEF AuthLoad, TypeOK
    <2>5. QED
      BY <2>1, <2>4, BusyKept DEF AuthLoad
  <1>2. CASE AuthCreate(s)
    <2>. DEFINE v == [Blank EXCEPT !.revision = db.revision, !.epoch = db.epoch,
                                   !.presenter = db.presenter]
    <2>1. v \in View
      BY ViewSteps DEF View, TypeOK
    <2>. HIDE DEF v
    <2>2. [NoRoom EXCEPT !.loaded = TRUE, !.snapshot = v] \in Room
      BY <2>1, RoomSteps DEF Room
    <2>3. room' = IF room.loaded THEN room ELSE [NoRoom EXCEPT !.loaded = TRUE, !.snapshot = v]
      BY <1>2 DEF AuthCreate, v
    <2>4. room' \in Room
      BY <2>2, <2>3 DEF TypeOK
    <2>5. stage' \in [Sockets -> Joining \cup Connected \cup {"new", "closed"}]
      BY <1>2 DEF AuthCreate, Reach, Joining, TypeOK
    <2>6. TypeOK'
      BY <1>2, <2>4, <2>5 DEF AuthCreate, TypeOK
    <2>7. Busy'
      BY <1>2, <2>3 DEF AuthCreate, Busy, task
    <2>8. QED
      BY <2>6, <2>7
  <1>3. CASE AuthJoin(s)
    <2>. DEFINE v == Enters(now, owner[s])
                f == [room.sockets EXCEPT ![owner[s]] = s]
    <2>1. v \in View
      BY RoomSteps, ViewSteps DEF TypeOK, now
    <2>2. f \in [Members -> Sockets \cup {NoSocket}]
      BY RoomSteps DEF TypeOK
    <2>3. room' = [room EXCEPT !.timer = FALSE, !.visited = TRUE, !.sockets = f, !.snapshot = v]
      BY <1>3 DEF AuthJoin, TypeOK, Room
    <2>. HIDE DEF v, f
    <2>4. room' \in Room /\ room'.loaded = room.loaded
      BY <2>1, <2>2, <2>3 DEF TypeOK, Room
    <2>5. stage' \in [Sockets -> Joining \cup Connected \cup {"new", "closed"}]
      BY <1>3 DEF AuthJoin, Connected, TypeOK
    <2>6. inbox' \in [Sockets -> Seq(Message)]
      BY <1>3 DEF AuthJoin, TypeOK
    <2>7. screen' \in [Sockets -> [view : View, awaiting : BOOLEAN]]
      BY <1>3, ViewSteps DEF AuthJoin, TypeOK, BlankScreen
    <2>8. TypeOK'
      BY <1>3, <2>4, <2>5, <2>6, <2>7 DEF AuthJoin, TypeOK
    <2>9. QED
      BY <1>3, <2>4, <2>8, BusyKept DEF AuthJoin
  <1>4. CASE AuthPublish(s)
    <2>1. inbox' \in [Sockets -> Seq(Message)]
      BY <1>4, TellType, MessageTypes, RoomSteps DEF AuthPublish, TypeOK
    <2>2. stage' \in [Sockets -> Joining \cup Connected \cup {"new", "closed"}]
      BY <1>4 DEF AuthPublish, Reach, Connected, TypeOK
    <2>3. TypeOK'
      BY <1>4, <2>1, <2>2 DEF AuthPublish, TypeOK
    <2>4. QED
      BY <1>4, <2>3, BusyKept DEF AuthPublish
  <1>5. CASE AuthFails(s)
    <2>1. TypeOK'
      BY <1>5 DEF AuthFails, TypeOK
    <2>2. QED
      BY <1>5, <2>1, BusyKept DEF AuthFails
  <1>6. QED
    BY <1>1, <1>2, <1>3, <1>4, <1>5 DEF Auth

LEMMA DisconnectTypes ==
    ASSUME TypeOK, Busy, NEW s \in Sockets, Disconnect(s)
    PROVE  TypeOK' /\ Busy'
  <1>1. Job("gone", s, 0, Manager) \in Task
    BY MessageTypes, LiveAssumption
  <1>2. queue' \in Seq(Task) /\ (queue' = queue \/ \E t \in Task : queue' = Append(queue, t))
    <2>1. queue' = queue \/ queue' = Append(queue, Job("gone", s, 0, Manager))
      BY DEF Disconnect
    <2>2. Append(queue, Job("gone", s, 0, Manager)) \in Seq(Task) /\ queue \in Seq(Task)
      BY <1>1, QueueType DEF TypeOK
    <2>3. QED
      BY <1>1, <2>1, <2>2
  <1>3. room' \in Room /\ room'.loaded = room.loaded
    <2>1. CASE room' = [room EXCEPT !.sockets[owner[s]] = NoSocket]
      BY <2>1, RoomSteps DEF TypeOK, Room
    <2>2. QED
      BY <2>1 DEF Disconnect, TypeOK
  <1>4. screen' \in [Sockets -> [view : View, awaiting : BOOLEAN]]
    BY ViewSteps DEF Disconnect, TypeOK, BlankScreen
  <1>5. inbox' \in [Sockets -> Seq(Message)]
    BY DEF Disconnect, TypeOK
  <1>6. stage' \in [Sockets -> Joining \cup Connected \cup {"new", "closed"}]
    BY DEF Disconnect, TypeOK
  <1>7. TypeOK'
    BY <1>2, <1>3, <1>4, <1>5, <1>6 DEF Disconnect, TypeOK
  <1>8. QED
    BY <1>2, <1>3, <1>7, BusyKept DEF Disconnect

-----------------------------------------------------------------------------
(***************************************************************************)
(* The queue and the writes keep the types.                                *)
(***************************************************************************)

\* A task has its turn.
LEMMA TurnFacts ==
    ASSUME TypeOK, NEW kinds, Turn(kinds)
    PROVE  /\ room.loaded /\ queue # <<>> /\ write.kind = "none" /\ task.kind \in kinds
           /\ task \in Task /\ task.to \in Members /\ Tail(queue) \in Seq(Task)
           /\ task.kind \in Commands \cup {"gone"} => task.by \in Sockets /\ from \in Members
           /\ now \in View
           /\ UNCHANGED <<db, recent, owner, stage, screen, sweep, events>>
  BY QueueType, RoomSteps DEF Turn, TypeOK, now

\* The task starts a write, and stays the first in the queue.
LEMMA AwaitFacts ==
    ASSUME TypeOK, NEW v \in View, NEW kind \in {"playback", "pause", "transfer", "end"},
           Await(kind, v)
    PROVE  /\ write' \in [kind : {"none", "playback", "pause", "transfer", "end"}, next : Int]
           /\ write'.kind = kind /\ UNCHANGED queue
  <1>1. v.revision \in Int
    BY DEF View
  <1>2. QED
    BY <1>1 DEF Await

\* A step of the queue that has these effects keeps the types.
LEMMA TurnTypes ==
    ASSUME TypeOK, NEW kinds, Turn(kinds),
           room' \in Room, inbox' \in [Sockets -> Seq(Message)],
           queue' \in Seq(Task),
           write' \in [kind : {"none", "playback", "pause", "transfer", "end"}, next : Int]
    PROVE  TypeOK'
  BY DEF Turn, TypeOK

\* The task starts a write that is one of its own.
LEMMA TurnAwaits ==
    ASSUME TypeOK, NEW kinds, Turn(kinds), NEW kind \in {"playback", "pause", "transfer", "end"},
           Await(kind, now), room' \in Room, room'.loaded = room.loaded, UNCHANGED inbox,
           kind = "playback" => task.kind \in {"play", "pause", "seek"},
           kind = "transfer" => task.kind = "transfer",
           kind = "pause" => task.kind \in {"transfer", "buffering", "gone"}
    PROVE  TypeOK' /\ Busy'
  <1>1. now \in View /\ queue \in Seq(Task) /\ inbox \in [Sockets -> Seq(Message)]
    BY TurnFacts DEF TypeOK
  <1>2. UNCHANGED queue /\ write'.kind = kind
    BY <1>1, AwaitFacts
  <1>3. write' \in [kind : {"none", "playback", "pause", "transfer", "end"}, next : Int]
    BY <1>1, AwaitFacts
  <1>4. TypeOK'
    BY <1>1, <1>2, <1>3, TurnTypes
  <1>5. room.loaded /\ queue # <<>>
    BY TurnFacts
  <1>6. QED
    BY <1>2, <1>4, <1>5 DEF Busy, task

\* The task ends.
LEMMA TurnEnds ==
    ASSUME TypeOK, NEW kinds, Turn(kinds), UNCHANGED write,
           room' \in Room, inbox' \in [Sockets -> Seq(Message)], queue' \in Seq(Task)
    PROVE  TypeOK' /\ Busy'
  <1>1. write \in [kind : {"none", "playback", "pause", "transfer", "end"}, next : Int]
    BY DEF TypeOK
  <1>2. TypeOK'
    BY <1>1, TurnTypes
  <1>3. write'.kind = "none"
    BY TurnFacts
  <1>4. QED
    BY <1>2, <1>3 DEF Busy

LEMMA RefuseTypes ==
    ASSUME TypeOK, NEW kinds, Turn(kinds), Refuse
    PROVE  TypeOK' /\ Busy'
  <1>1. UNCHANGED write /\ queue' = Tail(queue) /\ UNCHANGED <<room, inbox>>
    BY DEF Refuse, Done
  <1>2. room' \in Room /\ inbox' \in [Sockets -> Seq(Message)] /\ queue' \in Seq(Task)
    BY <1>1, TurnFacts DEF TypeOK
  <1>3. QED
    BY <1>1, <1>2, TurnEnds

\* Leaving the list of participants.
LEMMA DepartsTypes ==
    ASSUME TypeOK, queue # <<>>, from \in Members, NEW before \in Room,
           NEW messages \in Seq(Message), Departs(before, messages)
    PROVE  room' \in Room /\ queue' \in Seq(Task) /\ inbox' \in [Sockets -> Seq(Message)]
  <1>. DEFINE v == Leaves(before.snapshot, from)
              r == [before EXCEPT !.snapshot = v]
  <1>1. v \in View
    BY RoomSteps, ViewSteps
  <1>2. r \in Room /\ r.snapshot = v
    BY <1>1 DEF Room
  <1>3. Tell(r, messages \o Snapshot(r.snapshot)) /\ \E left \in BOOLEAN : ScheduleEmptyClose(r, left)
    BY DEF Departs
  <1>. HIDE DEF v, r
  <1>4. messages \o Snapshot(r.snapshot) \in Seq(Message)
    BY <1>1, <1>2, MessageTypes, ConcatProperties
  <1>5. inbox' \in [Sockets -> Seq(Message)]
    BY <1>3, <1>4, TellType
  <1>6. QED
    BY <1>2, <1>3, <1>5, ScheduleType

\* The gateway's work on the queue up to a write.
LEMMA TaskTypes ==
    ASSUME TypeOK, Busy,
           \/ DropStranger \/ Report \/ Resync \/ Playback \/ Transfer \/ Stroke \/ Undo
           \/ Clear \/ End \/ Gone \/ Empty
    PROVE  TypeOK' /\ Busy'
  <1>. USE DEF Commands
  <1>1. CASE DropStranger
    <2>1. task.by \in Sockets /\ Tail(queue) \in Seq(Task)
      BY <1>1, QueueType DEF DropStranger
    <2>2. screen' \in [Sockets -> [view : View, awaiting : BOOLEAN]]
      BY <1>1, <2>1, ViewSteps DEF DropStranger, TypeOK, BlankScreen
    <2>3. inbox' \in [Sockets -> Seq(Message)]
      BY <1>1, <2>1 DEF DropStranger, TypeOK
    <2>4. stage' \in [Sockets -> Joining \cup Connected \cup {"new", "closed"}]
      BY <1>1, <2>1 DEF DropStranger, TypeOK
    <2>5. TypeOK'
      BY <1>1, <2>1, <2>2, <2>3, <2>4 DEF DropStranger, Done, TypeOK
    <2>6. QED
      BY <1>1, <2>5 DEF DropStranger, Done, Busy
  <1>2. CASE Report
    <2>1. Turn({"ready", "buffering"})
      BY <1>2 DEF Report
    <2>2. CASE Stalls
      <3>1. Await("pause", now) /\ UNCHANGED <<room, inbox>> /\ task.kind = "buffering"
        BY <1>2, <2>1, <2>2, TurnFacts DEF Report, Stalls
      <3>2. QED
        BY <2>1, <3>1, TurnAwaits DEF TypeOK
    <2>3. CASE ~Stalls
      <3>1. Done /\ Show(Bumped(now))
        BY <1>2, <2>3 DEF Report
      <3>2. Bumped(now) \in View
        BY <2>1, TurnFacts, ViewSteps
      <3>3. QED
        BY <2>1, <3>1, <3>2, ShowRoom, TurnFacts, TurnEnds DEF Done
    <2>4. QED
      BY <2>2, <2>3
  <1>3. CASE Resync
    <2>1. Turn({"resync"})
      BY <1>3 DEF Resync
    <2>2. Snapshot(now) \in Seq(Message) /\ task.by \in Sockets /\ Tail(queue) \in Seq(Task)
      BY <2>1, TurnFacts, MessageTypes
    <2>3. inbox[task.by] \o Snapshot(now) \in Seq(Message)
      BY <2>2, ConcatProperties DEF TypeOK
    <2>4. inbox' = [inbox EXCEPT ![task.by] = @ \o Snapshot(now)]
      BY <1>3 DEF Resync
    <2>5. inbox' \in [Sockets -> Seq(Message)]
      BY <2>2, <2>3, <2>4 DEF TypeOK
    <2>6. QED
      BY <1>3, <2>1, <2>2, <2>5, TurnEnds DEF Resync, Done, TypeOK
  <1>4. CASE Playback
    <2>1. Turn({"play", "pause", "seek"})
      BY <1>4 DEF Playback
    <2>2. CASE Refuse
      BY <2>1, <2>2, RefuseTypes
    <2>3. CASE Await("playback", now) /\ UNCHANGED <<room, inbox>>
      BY <2>1, <2>3, TurnAwaits, TurnFacts DEF TypeOK
    <2>4. QED
      BY <1>4, <2>2, <2>3 DEF Playback
  <1>5. CASE Transfer
    <2>1. Turn({"transfer"})
      BY <1>5 DEF Transfer
    <2>2. CASE Refuse
      BY <2>1, <2>2, RefuseTypes
    <2>3. CASE Await("pause", now) /\ UNCHANGED <<room, inbox>>
      BY <2>1, <2>3, TurnAwaits, TurnFacts DEF TypeOK
    <2>4. CASE Await("transfer", now) /\ UNCHANGED <<room, inbox>>
      BY <2>1, <2>4, TurnAwaits, TurnFacts DEF TypeOK
    <2>5. QED
      BY <1>5, <2>2, <2>3, <2>4 DEF Transfer
  <1>6. CASE Stroke
    <2>1. Turn({"stroke"})
      BY <1>6 DEF Stroke
    <2>2. CASE Refuse
      BY <2>1, <2>2, RefuseTypes
    <2>3. CASE Done /\ Redraw("stroke")
      BY <2>1, <2>3, TurnFacts, RedrawRoom, TurnEnds DEF Done
    <2>4. QED
      BY <1>6, <2>2, <2>3 DEF Stroke
  <1>7. CASE Undo
    <2>1. Turn({"undo"})
      BY <1>7 DEF Undo
    <2>2. CASE Refuse
      BY <2>1, <2>2, RefuseTypes
    <2>3. CASE now.strokes[from] > 0 /\ Done /\ Redraw("remove")
      BY <2>1, <2>3, TurnFacts, RedrawRoom, TurnEnds DEF Done
    <2>4. QED
      BY <1>7, <2>2, <2>3 DEF Undo
  <1>8. CASE Clear
    <2>1. Turn({"clear"})
      BY <1>8 DEF Clear
    <2>2. CASE Refuse
      BY <2>1, <2>2, RefuseTypes
    <2>3. CASE Done /\ Show(Wiped(Bumped(now)))
      <3>1. Wiped(Bumped(now)) \in View
        BY <2>1, TurnFacts, ViewSteps
      <3>2. QED
        BY <2>1, <2>3, <3>1, ShowRoom, TurnFacts, TurnEnds DEF Done
    <2>4. QED
      BY <1>8, <2>2, <2>3 DEF Clear
  <1>9. ASSUME NEW kinds, Turn(kinds), StartsEnd PROVE TypeOK' /\ Busy'
    <2>1. Await("end", now) /\ UNCHANGED inbox
      BY <1>9 DEF StartsEnd
    <2>2. room' \in Room /\ room'.loaded = room.loaded
      BY <1>9 DEF StartsEnd, TypeOK, Room
    <2>3. QED
      BY <1>9, <2>1, <2>2, TurnAwaits
  <1>10. CASE End
    <2>1. Turn({"end"})
      BY <1>10 DEF End
    <2>2. CASE Refuse
      BY <2>1, <2>2, RefuseTypes
    <2>3. QED
      BY <1>10, <1>9, <2>1, <2>2 DEF End
  <1>11. CASE Gone
    <2>1. Turn({"gone"})
      BY <1>11 DEF Gone
    <2>2. CASE Refuse
      BY <2>1, <2>2, RefuseTypes
    <2>3. CASE Await("pause", now) /\ UNCHANGED <<room, inbox>>
      BY <2>1, <2>3, TurnAwaits, TurnFacts DEF TypeOK
    <2>4. CASE Departs(room, <<>>) /\ UNCHANGED write
      <3>1. <<>> \in Seq(Message) /\ room \in Room
        BY DEF TypeOK
      <3>2. room' \in Room /\ queue' \in Seq(Task) /\ inbox' \in [Sockets -> Seq(Message)]
        BY <2>1, <2>4, <3>1, TurnFacts, DepartsTypes
      <3>3. QED
        BY <2>1, <2>4, <3>2, TurnEnds
    <2>5. QED
      BY <1>11, <2>2, <2>3, <2>4 DEF Gone
  <1>12. CASE Empty
    <2>1. Turn({"empty"})
      BY <1>12 DEF Empty
    <2>2. CASE Refuse
      BY <2>1, <2>2, RefuseTypes
    <2>3. CASE ScheduleEmptyClose(room, FALSE) /\ UNCHANGED <<write, inbox>>
      BY <2>1, <2>3, TurnFacts, ScheduleType, TurnEnds DEF TypeOK
    <2>4. QED
      BY <1>12, <1>9, <2>1, <2>2, <2>3 DEF Empty
  <1>13. QED
    BY <1>1, <1>2, <1>3, <1>4, <1>5, <1>6, <1>7, <1>8, <1>10, <1>11, <1>12

\* The row behind a write is a row.
LEMMA WrittenType ==
    ASSUME TypeOK, Busy, write.kind # "none"
    PROVE  Written \in [active : BOOLEAN, presenter : Members, epoch : Nat,
                        playing : BOOLEAN, revision : Int]
  <1>1. task.to \in Members /\ write.next \in Int
    BY QueueType DEF Busy, TypeOK
  <1>2. write.kind \in {"playback", "pause", "transfer", "end"}
    BY DEF TypeOK
  <1>. DEFINE plays == (task.kind = "play")
  <1>3. plays \in BOOLEAN
    OBVIOUS
  <1>4. \/ Written = db
        \/ Written = [db EXCEPT !.playing = plays, !.revision = write.next]
        \/ Written = [db EXCEPT !.playing = FALSE, !.revision = write.next]
        \/ Written = [db EXCEPT !.presenter = task.to, !.epoch = @ + 1, !.playing = FALSE,
                                !.revision = write.next]
        \/ Written = [db EXCEPT !.active = FALSE, !.playing = FALSE, !.revision = write.next]
    BY <1>2 DEF Written
  <1>. HIDE DEF plays
  <1>5. /\ db \in [active : BOOLEAN, presenter : Members, epoch : Nat,
                   playing : BOOLEAN, revision : Int]
        /\ db.epoch + 1 \in Nat
    BY DEF TypeOK
  <1>6. CASE Written = [db EXCEPT !.playing = plays, !.revision = write.next]
    BY <1>1, <1>3, <1>5, <1>6
  <1>7. CASE Written = [db EXCEPT !.presenter = task.to, !.epoch = @ + 1, !.playing = FALSE,
                                  !.revision = write.next]
    BY <1>1, <1>5, <1>7
  <1>8. CASE Written = [db EXCEPT !.playing = FALSE, !.revision = write.next]
    BY <1>1, <1>5, <1>8
  <1>9. CASE Written = [db EXCEPT !.active = FALSE, !.playing = FALSE, !.revision = write.next]
    BY <1>1, <1>5, <1>9
  <1>10. QED
    BY <1>4, <1>5, <1>6, <1>7, <1>8, <1>9

\* The writes, and the work behind them.
LEMMA WriteTypes ==
    ASSUME TypeOK, Busy, PlaybackWritten \/ TransferWritten \/ PauseWritten \/ EndWritten \/ WriteFails
    PROVE  TypeOK' /\ Busy'
  <1>1. write.kind # "none" /\ queue # <<>>
    BY DEF PlaybackWritten, TransferWritten, PauseWritten, EndWritten, WriteFails, Commits, Busy
  <1>2. /\ Tail(queue) \in Seq(Task) /\ task \in Task /\ task.to \in Members /\ task.stamp \in Nat
        /\ write.next \in Int /\ now \in View /\ room \in Room
        /\ inbox \in [Sockets -> Seq(Message)]
    BY <1>1, QueueType, RoomSteps DEF TypeOK, now
  <1>3. NoWrite \in [kind : {"none", "playback", "pause", "transfer", "end"}, next : Int]
    BY DEF NoWrite
  <1>4. NoWrite.kind = "none"
    BY DEF NoWrite
  <1>5. ASSUME NEW n, Commits(n) 
        PROVE  /\ db' \in [active : BOOLEAN, presenter : Members, epoch : Nat,
                           playing : BOOLEAN, revision : Int]
               /\ UNCHANGED <<owner, sweep, events>>
    BY <1>1, <1>5, WrittenType DEF Commits
  <1>6. CASE PlaybackWritten
    <2>1. room' \in Room /\ inbox' \in [Sockets -> Seq(Message)]
      <3>1. CASE UNCHANGED <<room, inbox>>
        BY <1>2, <3>1
      <3>2. CASE \E v \in View : ShowAssigned(v)
        BY <3>2, ShowRoom
      <3>. DEFINE b == (task.kind = "play")
                  v == [now EXCEPT !.playing = b, !.revision = write.next]
      <3>3. v \in View /\ Wiped(v) \in View
        <4>1. b \in BOOLEAN
          OBVIOUS
        <4>. HIDE DEF b
        <4>2. v \in View
          BY <1>2, <4>1, ViewSteps
        <4>. HIDE DEF v
        <4>3. QED
          BY <4>2, ViewSteps
      <3>4. Matches => ShowAssigned(v) \/ ShowAssigned(Wiped(v))
        BY <1>6 DEF PlaybackWritten
      <3>5. ~Matches => UNCHANGED <<room, inbox>>
        BY <1>6 DEF PlaybackWritten
      <3>. HIDE DEF v
      <3>6. QED
        BY <3>1, <3>2, <3>3, <3>4, <3>5
    <2>2. TypeOK'
      BY <1>2, <1>3, <1>5, <1>6, <2>1 DEF PlaybackWritten, Finished, Kept, TypeOK
    <2>3. QED
      BY <1>4, <1>6, <2>2 DEF PlaybackWritten, Finished, Busy
  <1>7. CASE TransferWritten
    <2>. DEFINE e == task.stamp + 1
                v == [now EXCEPT !.presenter = task.to, !.epoch = e, !.playing = FALSE,
                                 !.revision = write.next]
    <2>1. v \in View
      <3>1. e \in Nat
        BY <1>2
      <3>. HIDE DEF e
      <3>2. QED
        BY <1>2, <3>1, ViewSteps
    <2>2. ShowAssigned(v) \/ UNCHANGED <<room, inbox>>
      BY <1>7 DEF TransferWritten
    <2>. HIDE DEF v
    <2>3. room' \in Room /\ inbox' \in [Sockets -> Seq(Message)]
      BY <1>2, <2>1, <2>2, ShowRoom
    <2>4. TypeOK'
      BY <1>2, <1>3, <1>5, <1>7, <2>3 DEF TransferWritten, Finished, Kept, TypeOK
    <2>5. QED
      BY <1>4, <1>7, <2>4 DEF TransferWritten, Finished, Busy
  <1>8. CASE EndWritten
    <2>1. inbox' \in [Sockets -> Seq(Message)]
      BY <1>2, <1>8 DEF EndWritten
    <2>2. screen' \in [Sockets -> [view : View, awaiting : BOOLEAN]]
      BY <1>8, ViewSteps DEF EndWritten, BlankScreen, TypeOK
    <2>3. stage' \in [Sockets -> Joining \cup Connected \cup {"new", "closed"}]
      BY <1>8 DEF EndWritten, TypeOK
    <2>4. TypeOK'
      BY <1>3, <1>5, <1>8, <2>1, <2>2, <2>3, RoomSteps DEF EndWritten, TypeOK
    <2>5. QED
      BY <1>4, <1>8, <2>4 DEF EndWritten, Busy
  <1>9. CASE WriteFails
    <2>1. room' \in Room /\ queue' \in Seq(Task)
      <3>1. CASE write.kind = "end"
        <4>1. [room EXCEPT !.ending = FALSE] \in Room
          BY <1>2, RoomSteps
        <4>2. ScheduleEmptyClose([room EXCEPT !.ending = FALSE], FALSE)
          BY <1>9, <3>1 DEF WriteFails
        <4>3. QED
          BY <1>1, <4>1, <4>2, ScheduleType
      <3>2. CASE write.kind # "end"
        BY <1>2, <1>9, <3>2 DEF WriteFails
      <3>3. QED
        BY <3>1, <3>2
    <2>2. events' \in 0..MaxEvents
      BY <1>9, LiveAssumption DEF WriteFails, Event, TypeOK
    <2>3. TypeOK'
      BY <1>3, <1>9, <2>1, <2>2 DEF WriteFails, client, TypeOK
    <2>4. QED
      BY <1>4, <1>9, <2>3 DEF WriteFails, Busy
  <1>10. CASE PauseWritten
    <2>. DEFINE w == [now EXCEPT !.playing = FALSE, !.revision = write.next]
                r == IF Matches THEN Assigned(w) ELSE room
                v == r.snapshot
                paused == IF Matches THEN Snapshot(v) ELSE <<>>
    <2>1. w \in View
      BY <1>2, ViewSteps
    <2>2. r \in Room /\ r.loaded = room.loaded
      <3>. HIDE DEF w
      <3>1. QED
        BY <1>2, <2>1, AssignedRoom
    <2>. HIDE DEF r
    <2>3. v \in View /\ paused \in Seq(Message)
      <3>1. v \in View
        BY <2>2, RoomSteps
      <3>. HIDE DEF v
      <3>2. paused \in Seq(Message)
        BY <3>1, MessageTypes
      <3>3. QED
        BY <3>1, <3>2
    <2>4. \/ /\ task.kind = "transfer"
             /\ room' = r /\ Tell(room, paused) /\ Await("transfer", v)
          \/ /\ room' = r /\ Tell(room, paused) /\ Finished
          \/ /\ Finished /\ room' = [r EXCEPT !.snapshot = Bumped(v)]
             /\ Tell(room, paused \o Snapshot(Bumped(v)))
          \/ /\ task.kind = "gone" /\ Departs(r, paused) /\ write' = NoWrite
      BY <1>1, <1>10 DEF PauseWritten, Busy, r
    <2>5. /\ Commits("pause") /\ Kept
      BY <1>10 DEF PauseWritten
    <2>. HIDE DEF v, paused
    <2>6. ASSUME room' \in Room, queue' \in Seq(Task), inbox' \in [Sockets -> Seq(Message)],
                  write' \in [kind : {"none", "playback", "pause", "transfer", "end"}, next : Int]
           PROVE  TypeOK'
      BY <1>5, <2>5, <2>6 DEF Kept, TypeOK
    <2>7. CASE /\ task.kind = "transfer"
               /\ room' = r /\ Tell(room, paused) /\ Await("transfer", v)
      <3>1. inbox' \in [Sockets -> Seq(Message)]
        BY <2>3, <2>7, TellType
      <3>2. /\ write' \in [kind : {"none", "playback", "pause", "transfer", "end"}, next : Int]
            /\ write'.kind = "transfer" /\ UNCHANGED queue
        BY <2>3, <2>7, AwaitFacts
      <3>3. queue' \in Seq(Task)
        BY <3>2 DEF TypeOK
      <3>4. TypeOK'
        BY <2>2, <2>7, <2>6, <3>1, <3>2, <3>3
      <3>5. QED
        BY <1>1, <2>2, <2>7, <3>2, <3>4 DEF Busy, task
    <2>8. CASE room' = r /\ Tell(room, paused) /\ Finished
      <3>1. inbox' \in [Sockets -> Seq(Message)]
        BY <2>3, <2>8, TellType
      <3>2. QED
        BY <1>2, <1>3, <1>4, <2>2, <2>8, <2>6, <3>1 DEF Finished, Busy
    <2>9. CASE /\ Finished /\ room' = [r EXCEPT !.snapshot = Bumped(v)]
               /\ Tell(room, paused \o Snapshot(Bumped(v)))
      <3>1. Bumped(v) \in View
        BY <2>3, ViewSteps
      <3>2. paused \o Snapshot(Bumped(v)) \in Seq(Message)
        BY <2>3, <3>1, MessageTypes, ConcatProperties
      <3>3. inbox' \in [Sockets -> Seq(Message)]
        BY <2>9, <3>2, TellType
      <3>4. room' \in Room
        BY <2>2, <2>9, <3>1, RoomSteps
      <3>5. QED
        BY <1>2, <1>3, <1>4, <2>9, <2>6, <3>3, <3>4 DEF Finished, Busy
    <2>10. CASE task.kind = "gone" /\ Departs(r, paused) /\ write' = NoWrite
      <3>1. from \in Members
        BY <1>1, <2>10, QueueType
      <3>2. room' \in Room /\ queue' \in Seq(Task) /\ inbox' \in [Sockets -> Seq(Message)]
        BY <1>1, <2>2, <2>3, <2>10, <3>1, DepartsTypes
      <3>3. QED
        BY <1>3, <1>4, <2>10, <2>6, <3>2 DEF Busy
    <2>11. QED
      BY <2>4, <2>7, <2>8, <2>9, <2>10
  <1>11. QED
    BY <1>6, <1>7, <1>8, <1>9, <1>10

-----------------------------------------------------------------------------
(***************************************************************************)
(* The browsers, the sweep and the crash keep the types.                   *)
(***************************************************************************)

LEMMA TimerTypes ==
    ASSUME TypeOK, Busy, TimerFires
    PROVE  TypeOK' /\ Busy'
  <1>1. Job("empty", NoSocket, 0, Manager) \in Task
    BY MessageTypes, LiveAssumption
  <1>2. queue' = Append(queue, Job("empty", NoSocket, 0, Manager)) /\ UNCHANGED write
    BY DEF TimerFires
  <1>3. room' \in Room /\ room'.loaded = room.loaded
    BY DEF TimerFires, TypeOK, Room
  <1>4. queue' \in Seq(Task)
    BY <1>1, <1>2, QueueType
  <1>5. TypeOK'
    BY <1>3, <1>4 DEF TimerFires, client, TypeOK
  <1>6. QED
    BY <1>1, <1>2, <1>3, <1>5, BusyKept

\* A task that the gateway takes when it has the room.
LEMMA EnqueuedType ==
    ASSUME TypeOK, NEW t \in Task, queue' = Enqueued(t)
    PROVE  queue' \in Seq(Task) /\ (queue' = queue \/ queue' = Append(queue, t))
  <1>1. Append(queue, t) \in Seq(Task) /\ queue \in Seq(Task)
    BY QueueType DEF TypeOK
  <1>2. QED
    BY <1>1 DEF Enqueued

LEMMA BrowserTypes ==
    ASSUME TypeOK, Busy, NEW s \in Sockets, Receive(s) \/ Sends(s)
    PROVE  TypeOK' /\ Busy'
  <1>. USE DEF memory, client
  <1>1. screen[s].view \in View /\ screen[s].awaiting \in BOOLEAN
    BY DEF TypeOK
  <1>2. CASE Receive(s)
    <2>. DEFINE message == Head(inbox[s])
                v == screen[s].view
    <2>1. message \in Message /\ Tail(inbox[s]) \in Seq(Message)
      BY <1>2, HeadTailProperties DEF Receive, TypeOK
    <2>2. inbox' \in [Sockets -> Seq(Message)]
      BY <1>2, <2>1 DEF Receive, TypeOK
    <2>3. /\ Job("ready", s, 0, Manager) \in Task
          /\ Job("resync", s, 0, Manager) \in Task
      BY MessageTypes, LiveAssumption DEF Commands
    <2>4. ReceiveSnapshot(s, message) \/ ReceiveDelta(s, message)
      BY <1>2 DEF Receive
    <2>. HIDE DEF message
    <2>5. screen' \in [Sockets -> [view : View, awaiting : BOOLEAN]]
      <3>1. CASE UNCHANGED screen
        BY <3>1 DEF TypeOK
      <3>2. CASE ReceiveSnapshot(s, message)
        <4>1. message.view \in View
          BY <2>1, <3>2 DEF ReceiveSnapshot, Message
        <4>2. \/ UNCHANGED screen
              \/ screen' = [screen EXCEPT ![s] = [view |-> message.view, awaiting |-> FALSE]]
          BY <3>2 DEF ReceiveSnapshot
        <4>3. [view |-> message.view, awaiting |-> FALSE] \in [view : View, awaiting : BOOLEAN]
          BY <4>1
        <4>. DEFINE shown == [view |-> message.view, awaiting |-> FALSE]
        <4>. HIDE DEF shown
        <4>4. \/ UNCHANGED screen
              \/ screen' = [screen EXCEPT ![s] = shown]
          BY <4>2 DEF shown
        <4>5. shown \in [view : View, awaiting : BOOLEAN]
          BY <4>3 DEF shown
        <4>6. QED
          BY <4>4, <4>5 DEF TypeOK
      <3>3. CASE ReceiveDelta(s, message)
        <4>1. message.kind \in {"stroke", "remove"} /\ message.by \in Members
          BY <2>1, <3>3 DEF ReceiveDelta, Message
        <4>2. CASE screen' = [screen EXCEPT ![s].awaiting = TRUE]
          BY <4>2 DEF TypeOK
        <4>3. CASE /\ Fits(v, message)
                   /\ screen' = [screen EXCEPT ![s].view = Drawing(message.kind, v, message.by)]
          <5>1. Drawing(message.kind, v, message.by) \in View
            BY <1>1, <4>1, <4>3, ViewSteps DEF Fits
          <5>2. QED
            BY <4>3, <5>1 DEF TypeOK
        <4>4. QED
          BY <3>1, <3>3, <4>2, <4>3 DEF ReceiveDelta
      <3>4. QED
        BY <2>4, <3>2, <3>3
    <2>6. \/ queue' = queue
          \/ queue' = Enqueued(Job("ready", s, 0, Manager))
          \/ queue' = Enqueued(Job("resync", s, 0, Manager))
      BY <2>4 DEF ReceiveSnapshot, ReceiveDelta
    <2>7. /\ queue' \in Seq(Task)
          /\ queue' = queue \/ \E t \in Task : queue' = Append(queue, t)
      BY <2>3, <2>6, EnqueuedType DEF TypeOK
    <2>8. TypeOK'
      BY <1>2, <2>2, <2>5, <2>7 DEF Receive, TypeOK
    <2>9. QED
      BY <1>2, <2>7, <2>8, BusyKept DEF Receive
  <1>3. CASE Sends(s)
    <2>1. \E kind \in Commands, n \in Nat, m \in Members : Command(s, kind, n, m)
      <3>1. /\ screen[s].view.epoch \in Nat /\ screen[s].view.canvas \in Nat
            /\ screen[s].view.present \subseteq Members
            /\ Manager \in Members
        BY <1>1, LiveAssumption DEF View
      <3>2. QED
        BY <1>3, <3>1 DEF Sends, Commands
    <2>2. PICK kind \in Commands, n \in Nat, m \in Members : Command(s, kind, n, m)
      BY <2>1
    <2>3. Job(kind, s, n, m) \in Task
      BY MessageTypes
    <2>4. queue' = Enqueued(Job(kind, s, n, m))
      BY <2>2 DEF Command
    <2>5. queue' \in Seq(Task) /\ (queue' = queue \/ \E t \in Task : queue' = Append(queue, t))
      BY <2>3, <2>4, EnqueuedType
    <2>6. events' \in 0..MaxEvents
      BY <2>2, LiveAssumption DEF Command, Event, TypeOK
    <2>7. TypeOK'
      BY <2>2, <2>5, <2>6 DEF Command, TypeOK
    <2>8. QED
      BY <2>2, <2>5, <2>7, BusyKept DEF Command
  <1>4. QED
    BY <1>2, <1>3

LEMMA SweepTypes ==
    ASSUME TypeOK, Busy, SweepFinds \/ SweepEnds \/ SweepDrops \/ Crash
    PROVE  TypeOK' /\ Busy'
  <1>. USE DEF memory, client
  <1>1. /\ NoWrite \in [kind : {"none", "playback", "pause", "transfer", "end"}, next : Int]
        /\ NoWrite.kind = "none" /\ NoRoom \in Room
    BY RoomSteps DEF NoWrite
  <1>2. Event => events' \in 0..MaxEvents
    BY LiveAssumption DEF Event, TypeOK
  <1>3. CASE SweepFinds
    <2>1. TypeOK'
      BY <1>2, <1>3 DEF SweepFinds, TypeOK
    <2>2. QED
      BY <1>3, <2>1, BusyKept DEF SweepFinds
  <1>4. CASE SweepEnds
    <2>1. db' \in [active : BOOLEAN, presenter : Members, epoch : Nat, playing : BOOLEAN,
                   revision : Int]
      BY <1>4 DEF SweepEnds, TypeOK
    <2>2. TypeOK'
      BY <1>4, <2>1 DEF SweepEnds, TypeOK
    <2>3. QED
      BY <1>4, <2>2, BusyKept DEF SweepEnds
  <1>5. CASE SweepDrops
    <2>1. stage' \in [Sockets -> Joining \cup Connected \cup {"new", "closed"}]
      BY <1>5 DEF SweepDrops, TypeOK
    <2>2. TypeOK'
      BY <1>1, <1>5, <2>1 DEF SweepDrops, TypeOK
    <2>3. QED
      BY <1>1, <1>5, <2>2 DEF SweepDrops, Busy
  <1>6. CASE Crash
    <2>1. PICK row \in {db, IF write.kind = "none" THEN db ELSE Written} :
             db' = [row EXCEPT !.playing = FALSE]
      BY <1>6 DEF Crash
    <2>2. row \in [active : BOOLEAN, presenter : Members, epoch : Nat, playing : BOOLEAN,
                   revision : Int]
      BY <2>1, WrittenType DEF TypeOK
    <2>3. db' \in [active : BOOLEAN, presenter : Members, epoch : Nat, playing : BOOLEAN,
                   revision : Int]
      BY <2>1, <2>2
    <2>4. stage' \in [Sockets -> Joining \cup Connected \cup {"new", "closed"}]
      BY <1>6 DEF Crash, TypeOK
    <2>5. screen' \in [Sockets -> [view : View, awaiting : BOOLEAN]]
      BY <1>6, ViewSteps DEF Crash, BlankScreen
    <2>6. inbox' \in [Sockets -> Seq(Message)]
      BY <1>6 DEF Crash
    <2>7. /\ room' \in Room /\ recent' \in BOOLEAN /\ sweep' \in {"idle", "found", "ended"}
          /\ write' \in [kind : {"none", "playback", "pause", "transfer", "end"}, next : Int]
          /\ queue' \in Seq(Task) /\ owner' \in [Sockets -> Members] /\ events' \in 0..MaxEvents
      <3>1. queue' = <<>> /\ room' = NoRoom /\ write' = NoWrite /\ ~recent' /\ sweep' = "idle"
            /\ recent' = FALSE /\ owner' = owner /\ Event
        BY <1>6 DEF Crash
      <3>2. <<>> \in Seq(Task)
        BY EmptySeq
      <3>3. QED
        BY <1>1, <1>2, <3>1, <3>2 DEF TypeOK
    <2>8. TypeOK'
      BY <2>3, <2>4, <2>5, <2>6, <2>7 DEF TypeOK
    <2>9. QED
      BY <1>1, <1>6, <2>8 DEF Crash, Busy
  <1>7. QED
    BY <1>3, <1>4, <1>5, <1>6

LEMMA TypeStep == TypeOK /\ Busy /\ [Next]_vars => TypeOK' /\ Busy'
  <1>. SUFFICES ASSUME TypeOK, Busy, [Next]_vars PROVE TypeOK' /\ Busy'
    OBVIOUS
  <1>1. CASE Next
    BY <1>1, AuthTypes, DisconnectTypes, TaskTypes, WriteTypes, TimerTypes, BrowserTypes,
       SweepTypes DEF Next, Serve
  <1>2. CASE UNCHANGED vars
    BY <1>2 DEF vars, memory, client, TypeOK, Busy, task
  <1>3. QED
    BY <1>1, <1>2

LEMMA TypeInit == Init => TypeOK /\ Busy
  <1>. SUFFICES ASSUME Init PROVE TypeOK /\ Busy
    OBVIOUS
  <1>1. /\ room \in Room /\ queue \in Seq(Task) /\ recent \in BOOLEAN
        /\ write \in [kind : {"none", "playback", "pause", "transfer", "end"}, next : Int]
    <2>1. NoWrite \in [kind : {"none", "playback", "pause", "transfer", "end"}, next : Int]
      BY DEF NoWrite
    <2>2. queue \in Seq(Task)
      BY EmptySeq DEF Init
    <2>3. QED
      BY <2>1, <2>2, RoomSteps DEF Init
  <1>2. db \in [active : BOOLEAN, presenter : Members, epoch : Nat, playing : BOOLEAN,
                revision : Int]
    BY LiveAssumption DEF Init
  <1>3. screen \in [Sockets -> [view : View, awaiting : BOOLEAN]]
    BY ViewSteps DEF Init, BlankScreen
  <1>4. inbox \in [Sockets -> Seq(Message)]
    BY EmptySeq DEF Init
  <1>5. /\ owner \in [Sockets -> Members] /\ sweep \in {"idle", "found", "ended"}
        /\ stage \in [Sockets -> Joining \cup Connected \cup {"new", "closed"}]
        /\ events \in 0..MaxEvents
    BY LiveAssumption DEF Init
  <1>6. QED
    BY <1>1, <1>2, <1>3, <1>4, <1>5 DEF TypeOK, Busy, Init, NoWrite

\* Every variable keeps its type, and whoever awaits a write is the running task
\* of a room in memory.
THEOREM TypeCorrect == Spec => [](TypeOK /\ Busy)
<1>1. QED
  BY TypeInit, TypeStep, PTL DEF Spec

-----------------------------------------------------------------------------
(***************************************************************************)
(* The invariant.                                                          *)
(***************************************************************************)

\* Without a room nothing is queued, nobody sits and nothing plays.
Unloaded ==
    ~room.loaded => /\ room = NoRoom /\ queue = <<>>
                    /\ db.active => ~db.playing

\* The sweep drops rooms of sessions it has ended.
Swept == sweep = "ended" => ~db.active

\* A room in memory has the control of its row, and while the session is active
\* its playback, also while a write is under way.
Agrees ==
    room.loaded => /\ now.presenter = db.presenter
                   /\ now.epoch = db.epoch
                   /\ db.active => now.playing = db.playing

\* A connection past loadRoom has a room to sit in.
LoadedHasRoom == \A s \in Sockets : stage[s] = "loaded" => room.loaded

\* Queued tasks come from connections that have been opened.
Senders ==
    \A i \in 1..Len(queue) : queue[i].kind # "empty" => stage[queue[i].by] # "new"

\* A room is ended by its manager's command or found empty, and lets nobody in.
Ending ==
    write.kind = "end" => /\ room.ending
                          /\ ~Occupied(room) \/ (task.kind = "end" /\ from = Manager)

\* Together they are inductive: who controls the room.
CInv == TypeOK /\ Busy /\ Unloaded /\ Swept /\ Agrees /\ LoadedHasRoom

-----------------------------------------------------------------------------
(***************************************************************************)
(* Control of the room: the room and the row agree.                        *)
(***************************************************************************)

\* What leaves a view's control alone.
SameControl(v, w) ==
    v.presenter = w.presenter /\ v.epoch = w.epoch /\ v.playing = w.playing

LEMMA ControlSteps ==
    ASSUME NEW v \in View
    PROVE  /\ SameControl(Bumped(v), v) /\ SameControl(Wiped(v), v)
           /\ SameControl(Wiped(Bumped(v)), v)
           /\ \A m : /\ SameControl(Enters(v, m), v) /\ SameControl(Leaves(v, m), v)
                     /\ \A kind : SameControl(Drawing(kind, v, m), v)
  <1>1. SameControl(Bumped(v), v) /\ SameControl(Wiped(v), v) /\ Bumped(v) \in View
    BY ViewSteps DEF SameControl, Bumped, Wiped, View
  <1>2. SameControl(Wiped(Bumped(v)), Bumped(v))
    BY <1>1 DEF SameControl, Wiped, View
  <1>3. ASSUME NEW m PROVE SameControl(Enters(v, m), v) /\ SameControl(Leaves(v, m), v)
    BY <1>1 DEF SameControl, Enters, Leaves, View
  <1>4. ASSUME NEW m, NEW kind PROVE SameControl(Drawing(kind, v, m), v)
    BY DEF SameControl, Drawing, View
  <1>5. QED
    BY <1>1, <1>2, <1>3, <1>4 DEF SameControl

\* Scheduling the end of an empty room.
LEMMA ScheduleRoom ==
    ASSUME NEW r \in Room, NEW b \in BOOLEAN, ScheduleEmptyClose(r, b)
    PROVE  /\ room'.loaded = r.loaded /\ room'.sockets = r.sockets
           /\ room'.snapshot = r.snapshot /\ room'.ending = r.ending
  BY DEF ScheduleEmptyClose, Room

LEMMA DepartsRoom ==
    ASSUME NEW before \in Room, from \in Members, NEW messages, Departs(before, messages)
    PROVE  /\ room'.loaded = before.loaded /\ room'.sockets = before.sockets
           /\ room'.snapshot = Leaves(before.snapshot, from) /\ room'.ending = before.ending
           /\ Tell(before, messages \o Snapshot(room'.snapshot))
  <1>. DEFINE v == Leaves(before.snapshot, from)
              r == [before EXCEPT !.snapshot = v]
  <1>1. v \in View
    BY RoomSteps, ViewSteps
  <1>2. /\ r \in Room /\ r.snapshot = v /\ r.loaded = before.loaded
        /\ r.sockets = before.sockets /\ r.ending = before.ending
    BY <1>1 DEF Room
  <1>3. Tell(r, messages \o Snapshot(r.snapshot)) /\ \E left \in BOOLEAN : ScheduleEmptyClose(r, left)
    BY DEF Departs
  <1>. HIDE DEF v, r
  <1>4. /\ room'.loaded = r.loaded /\ room'.sockets = r.sockets
        /\ room'.snapshot = r.snapshot /\ room'.ending = r.ending
    BY <1>2, <1>3, ScheduleRoom
  <1>5. Tell(before, messages \o Snapshot(room'.snapshot))
    BY <1>2, <1>3, <1>4 DEF Tell, Seated
  <1>6. QED
    BY <1>2, <1>4, <1>5 DEF v

\* Messages whose snapshots name a view's presenter and epoch; and a step that
\* sends nothing but messages of a set.
Naming(v) == {x \in Message : x.kind = "snapshot" => /\ x.view.presenter = v.presenter
                                                     /\ x.view.epoch = v.epoch}
SendsOnly(G) ==
    \A s \in Sockets : \A i \in 1..Len(inbox'[s]) :
        inbox'[s][i] \in G \/ \E j \in 1..Len(inbox[s]) : inbox'[s][i] = inbox[s][j]

LEMMA NamingMessages ==
    ASSUME NEW v \in View, NEW w, w.presenter = v.presenter, w.epoch = v.epoch
    PROVE  /\ Snapshot(v) \in Seq(Naming(w))
           /\ \A kind \in {"stroke", "remove"}, m \in Members, u \in View :
                 Delta(kind, m, u) \in Seq(Naming(w))
           /\ <<>> \in Seq(Naming(w))
  <1>1. [kind |-> "snapshot", view |-> v] \in Naming(w)
    BY DEF Naming, Message
  <1>2. Snapshot(v) \in Seq(Naming(w))
    BY <1>1 DEF Snapshot
  <1>3. ASSUME NEW kind \in {"stroke", "remove"}, NEW m \in Members, NEW u \in View
        PROVE  Delta(kind, m, u) \in Seq(Naming(w))
    <2>1. [kind |-> kind, by |-> m, base |-> u.revision, canvas |-> u.canvas] \in Naming(w)
      BY ViewSteps DEF Naming, Message
    <2>2. QED
      BY <2>1 DEF Delta
  <1>4. QED
    BY <1>2, <1>3, EmptySeq

LEMMA TellSends ==
    ASSUME TypeOK, NEW G, NEW r, NEW messages \in Seq(G), Tell(r, messages)
    PROVE  SendsOnly(G)
  <1>. SUFFICES ASSUME NEW s \in Sockets, NEW i \in 1..Len(inbox'[s])
                PROVE  inbox'[s][i] \in G \/ \E j \in 1..Len(inbox[s]) : inbox'[s][i] = inbox[s][j]
    BY DEF SendsOnly
  <1>1. CASE inbox'[s] = inbox[s]
    BY <1>1
  <1>2. CASE inbox'[s] = inbox[s] \o messages
    <2>. DEFINE q == inbox[s]
    <2>1. q \in Seq(Message) /\ Len(q) \in Nat /\ Len(messages) \in Nat
      BY LenProperties DEF TypeOK
    <2>. HIDE DEF q
    <2>2. /\ Len(q \o messages) = Len(q) + Len(messages)
          /\ i \in 1..Len(q) => (q \o messages)[i] = q[i]
          /\ i > Len(q) => (q \o messages)[i] = messages[i - Len(q)]
      BY <1>2, <2>1 DEF q
    <2>3. \A k \in 1..Len(messages) : messages[k] \in G
      BY ElementOfSeq
    <2>4. CASE i \in 1..Len(q)
      BY <1>2, <2>2, <2>4 DEF q
    <2>5. CASE i > Len(q)
      <3>1. i - Len(q) \in 1..Len(messages)
        BY <1>2, <2>1, <2>2, <2>5 DEF q
      <3>2. QED
        BY <1>2, <2>2, <2>3, <2>5, <3>1 DEF q
    <2>6. i \in 1..Len(q) \/ i > Len(q)
      BY <2>1
    <2>7. QED
      BY <2>4, <2>5, <2>6
  <1>3. QED
    BY <1>1, <1>2 DEF Tell, TypeOK

\* Nothing is sent.
LEMMA NothingSent ==
    ASSUME TypeOK, NEW G, inbox' \in [Sockets -> Seq(Message)],
           \A s \in Sockets : inbox'[s] = inbox[s] \/ inbox'[s] = <<>>
    PROVE  SendsOnly(G)
  BY DEF SendsOnly

\* A task changes what the room shows, never who sits in it or controls it.
LEMMA TaskEffects ==
    ASSUME TypeOK, Busy,
           Report \/ Resync \/ Playback \/ Transfer \/ Stroke \/ Undo \/ Clear \/ End \/ Gone \/ Empty
    PROVE  /\ room.loaded /\ room'.loaded /\ room'.sockets = room.sockets
           /\ SameControl(now', now)
           /\ SendsOnly(Naming(now'))
           /\ UNCHANGED <<db, owner, stage, screen, sweep>>
  <1>. USE DEF Commands
  <1>1. TypeOK'
    BY TaskTypes
  <1>2. PICK kinds : Turn(kinds)
    BY DEF Report, Resync, Playback, Transfer, Stroke, Undo, Clear, End, Gone, Empty
  <1>3. /\ room.loaded /\ now \in View /\ room \in Room /\ queue # <<>>
        /\ UNCHANGED <<db, owner, stage, screen, sweep>>
    BY <1>2, TurnFacts DEF TypeOK
  <1>4. now' = room'.snapshot /\ now = room.snapshot
    BY DEF now
  <1>5. now' \in View /\ inbox' \in [Sockets -> Seq(Message)]
    BY <1>1, <1>4, RoomSteps DEF TypeOK
  <1>6. SameControl(now, now)
    BY DEF SameControl
  <1>7. ASSUME UNCHANGED room, UNCHANGED inbox
        PROVE  /\ room'.loaded /\ room'.sockets = room.sockets
               /\ SameControl(now', now) /\ SendsOnly(Naming(now'))
    BY <1>3, <1>4, <1>5, <1>6, <1>7, NothingSent
  <1>8. ASSUME NEW v \in View, SameControl(v, now), Show(v)
        PROVE  /\ room'.loaded /\ room'.sockets = room.sockets
               /\ SameControl(now', now) /\ SendsOnly(Naming(now'))
    <2>1. room'.loaded /\ room'.sockets = room.sockets /\ now' = v
      BY <1>3, <1>4, <1>8, ShowRoom
    <2>2. Tell(room, Snapshot(v)) /\ Snapshot(v) \in Seq(Naming(v))
      BY <1>8, NamingMessages DEF Show
    <2>3. QED
      BY <1>8, <2>1, <2>2, TellSends
  <1>9. ASSUME NEW kind \in {"stroke", "remove"}, kind = "remove" => now.strokes[from] > 0,
               Redraw(kind), from \in Members
        PROVE  /\ room'.loaded /\ room'.sockets = room.sockets
               /\ SameControl(now', now) /\ SendsOnly(Naming(now'))
    <2>1. room'.loaded /\ room'.sockets = room.sockets /\ now' = Drawing(kind, now, from)
      BY <1>3, <1>4, <1>9, RedrawRoom
    <2>2. SameControl(now', now)
      BY <1>3, <2>1, ControlSteps
    <2>3. Tell(room, Delta(kind, from, now)) /\ Delta(kind, from, now) \in Seq(Naming(now'))
      BY <1>3, <1>5, <1>9, NamingMessages DEF Redraw
    <2>4. QED
      BY <2>1, <2>2, <2>3, TellSends
  <1>10. ASSUME StartsEnd
         PROVE  /\ room'.loaded /\ room'.sockets = room.sockets
                /\ SameControl(now', now) /\ SendsOnly(Naming(now'))
    <2>1. room' = [room EXCEPT !.ending = TRUE, !.timer = FALSE] /\ UNCHANGED inbox
      BY <1>10 DEF StartsEnd
    <2>2. room'.loaded /\ room'.sockets = room.sockets /\ now' = now
      BY <1>3, <1>4, <2>1 DEF Room
    <2>3. QED
      BY <1>5, <1>6, <2>1, <2>2, NothingSent
  <1>11. CASE Report
    BY <1>2, <1>3, <1>7, <1>8, <1>11, ControlSteps, ViewSteps DEF Report
  <1>12. CASE Resync
    <2>1. UNCHANGED room /\ inbox' = [inbox EXCEPT ![task.by] = @ \o Snapshot(now)]
      BY <1>12 DEF Resync
    <2>2. now' = now /\ room'.loaded /\ room'.sockets = room.sockets
      BY <1>3, <1>4, <2>1
    <2>3. Snapshot(now) \in Seq(Naming(now))
      BY <1>3, NamingMessages
    <2>4. SendsOnly(Naming(now))
      <3>1. ASSUME NEW s \in Sockets, NEW i \in 1..Len(inbox'[s])
            PROVE  inbox'[s][i] \in Naming(now) \/ \E j \in 1..Len(inbox[s]) : inbox'[s][i] = inbox[s][j]
        <4>. DEFINE x == [kind |-> "snapshot", view |-> now]
                    q == inbox[s]
        <4>1. q \in Seq(Message) /\ Len(q) \in Nat
          BY LenProperties DEF TypeOK
        <4>2. x \in Naming(now)
          BY <1>3 DEF Naming, Message
        <4>3. inbox'[s] = q \/ inbox'[s] = q \o <<x>>
          BY <2>1 DEF Snapshot, TypeOK
        <4>. HIDE DEF x, q
        <4>4. Len(q \o <<x>>) = Len(q) + 1 /\ (q \o <<x>>)[Len(q) + 1] = x
              /\ \A j \in 1..Len(q) : (q \o <<x>>)[j] = q[j]
          BY <4>1, <4>2
        <4>5. CASE inbox'[s] = q
          BY <4>5 DEF q
        <4>6. CASE inbox'[s] = q \o <<x>>
          <5>1. i \in 1..Len(q) \/ i = Len(q) + 1
            BY <4>1, <4>4, <4>6
          <5>2. QED
            BY <4>2, <4>4, <4>6, <5>1 DEF q
        <4>7. QED
          BY <4>3, <4>5, <4>6
      <3>2. QED
        BY <3>1 DEF SendsOnly
    <2>5. QED
      BY <1>3, <1>6, <2>2, <2>4
  <1>13. CASE Playback
    BY <1>3, <1>7, <1>13 DEF Playback, Refuse
  <1>14. CASE Transfer
    BY <1>3, <1>7, <1>14 DEF Transfer, Refuse
  <1>15. CASE Stroke
    <2>1. from \in Members
      BY <1>15, TurnFacts DEF Stroke
    <2>2. QED
      BY <1>3, <1>7, <1>9, <1>15, <2>1 DEF Stroke, Refuse
  <1>16. CASE Undo
    <2>1. from \in Members
      BY <1>16, TurnFacts DEF Undo
    <2>2. QED
      BY <1>3, <1>7, <1>9, <1>16, <2>1 DEF Undo, Refuse
  <1>17. CASE Clear
    <2>1. Wiped(Bumped(now)) \in View /\ SameControl(Wiped(Bumped(now)), now)
      BY <1>3, ControlSteps, ViewSteps
    <2>2. QED
      BY <1>3, <1>7, <1>8, <1>17, <2>1 DEF Clear, Refuse
  <1>18. CASE End
    BY <1>3, <1>7, <1>10, <1>18 DEF End, Refuse
  <1>19. CASE Gone
    <2>1. from \in Members
      BY <1>19, TurnFacts DEF Gone
    <2>2. CASE Departs(room, <<>>)
      <3>1. /\ room'.loaded /\ room'.sockets = room.sockets /\ now' = Leaves(now, from)
            /\ Tell(room, <<>> \o Snapshot(now'))
        BY <1>3, <1>4, <2>1, <2>2, DepartsRoom
      <3>2. SameControl(now', now)
        BY <1>3, <3>1, ControlSteps
      <3>3. <<>> \o Snapshot(now') \in Seq(Naming(now'))
        BY <1>5, NamingMessages, ConcatProperties
      <3>4. QED
        BY <1>3, <3>1, <3>2, <3>3, TellSends
    <2>3. QED
      BY <1>3, <1>7, <1>19, <2>2 DEF Gone, Refuse
  <1>20. CASE Empty
    <2>1. CASE ScheduleEmptyClose(room, FALSE) /\ UNCHANGED inbox
      <3>1. room'.loaded /\ room'.sockets = room.sockets /\ now' = now
        BY <1>3, <1>4, <2>1, ScheduleRoom
      <3>2. SendsOnly(Naming(now'))
        BY <1>5, <2>1, NothingSent
      <3>3. QED
        BY <1>3, <1>6, <3>1, <3>2
    <2>2. QED
      BY <1>3, <1>7, <1>10, <1>20, <2>1 DEF Empty, Refuse
  <1>21. QED
    BY <1>3, <1>11, <1>12, <1>13, <1>14, <1>15, <1>16, <1>17, <1>18, <1>19, <1>20

\* The row an update leaves, by the update's kind.
LEMMA WrittenRows ==
    ASSUME TypeOK, Busy, write.kind # "none"
    PROVE  /\ Written.active => db.active
           /\ write.kind # "transfer" =>
                 Written.epoch = db.epoch /\ Written.presenter = db.presenter
           /\ write.kind = "transfer" =>
                 \/ Written = db
                 \/ /\ Written.epoch = task.stamp + 1 /\ task.stamp = db.epoch
                    /\ Written.presenter = task.to /\ Written.playing = FALSE
           /\ write.kind # "end" => Written.active = db.active
           /\ write.kind = "end" => ~Written.active
           /\ ~Matches => Written = db
           /\ Matches /\ write.kind = "playback" => Written.playing = (task.kind = "play")
           /\ Matches /\ write.kind = "pause" => Written.playing = FALSE
           /\ db.active /\ write.kind = "pause" => Matches
           /\ Matches => db.active
  <1>. DEFINE b == (task.kind = "play")
  <1>1. write.kind \in {"playback", "pause", "transfer", "end"}
    BY DEF TypeOK
  <1>2. db \in [active : BOOLEAN, presenter : Members, epoch : Nat, playing : BOOLEAN, revision : Int]
    BY DEF TypeOK
  <1>3. CASE ~Matches
    BY <1>1, <1>2, <1>3 DEF Written, Matches
  <1>4. CASE Matches /\ write.kind = "playback"
    <2>1. Written = [db EXCEPT !.playing = b, !.revision = write.next]
      BY <1>4 DEF Written
    <2>2. db.active
      BY <1>4 DEF Matches
    <2>3. Written.playing = b
      <3>. HIDE DEF b
      <3>1. QED
        BY <1>2, <2>1
    <2>. HIDE DEF b
    <2>4. /\ Written.active = db.active /\ Written.epoch = db.epoch
          /\ Written.presenter = db.presenter
      BY <1>2, <2>1
    <2>5. QED
      BY <1>4, <2>2, <2>3, <2>4 DEF b
  <1>5. CASE Matches /\ write.kind = "pause"
    <2>1. Written = [db EXCEPT !.playing = FALSE, !.revision = write.next]
      BY <1>5 DEF Written
    <2>2. QED
      BY <1>2, <1>5, <2>1 DEF Matches
  <1>6. CASE Matches /\ write.kind = "transfer"
    <2>1. Written = [db EXCEPT !.presenter = task.to, !.epoch = @ + 1, !.playing = FALSE,
                               !.revision = write.next]
      BY <1>6 DEF Written
    <2>2. db.active /\ db.epoch = task.stamp
      BY <1>6 DEF Matches
    <2>3. QED
      BY <1>2, <1>6, <2>1, <2>2
  <1>7. CASE Matches /\ write.kind = "end"
    <2>1. Written = [db EXCEPT !.active = FALSE, !.playing = FALSE, !.revision = write.next]
      BY <1>7 DEF Written
    <2>2. QED
      BY <1>2, <1>7, <2>1 DEF Matches
  <1>8. QED
    BY <1>1, <1>3, <1>4, <1>5, <1>6, <1>7

\* The epoch of a row, and the presenter of an epoch.
Renamed == \/ db'.epoch = db.epoch /\ db'.presenter = db.presenter
           \/ db'.epoch > db.epoch

\* A write gives the room the control of the row it leaves.
LEMMA WriteEffects ==
    ASSUME TypeOK, Busy, Agrees, PlaybackWritten \/ TransferWritten \/ PauseWritten
    PROVE  /\ room.loaded /\ room'.loaded /\ room'.sockets = room.sockets
           /\ Agrees' /\ Renamed /\ db'.active = db.active
           /\ SendsOnly(Naming(now'))
           /\ UNCHANGED <<owner, stage, screen, sweep>>
  <1>1. TypeOK'
    BY WriteTypes
  <1>2. write.kind \in {"playback", "transfer", "pause"} /\ db' = Written /\ UNCHANGED <<owner, stage, screen, sweep>>
    BY DEF PlaybackWritten, TransferWritten, PauseWritten, Commits, Kept
  <1>3. /\ room.loaded /\ queue # <<>> /\ room \in Room /\ now = room.snapshot
        /\ now' = room'.snapshot
    BY <1>2 DEF Busy, TypeOK, now
  <1>4. now \in View /\ now' \in View /\ inbox' \in [Sockets -> Seq(Message)]
    BY <1>1, <1>3, RoomSteps DEF TypeOK
  <1>5. /\ task.to \in Members /\ task.stamp \in Nat /\ write.next \in Int
        /\ db.epoch \in Nat
    BY <1>3, QueueType DEF TypeOK
  <1>6. now.presenter = db.presenter /\ now.epoch = db.epoch
        /\ (db.active => now.playing = db.playing)
    BY <1>3 DEF Agrees
  <1>7. db'.active = db.active /\ Renamed
    <2>1. CASE write.kind = "transfer"
      <3>1. /\ Written.active = db.active
            /\ Written = db \/ (Written.epoch = task.stamp + 1 /\ task.stamp = db.epoch)
        BY <1>2, <2>1, WrittenRows
      <3>2. Written = db \/ Written.epoch > db.epoch
        BY <1>5, <3>1
      <3>3. QED
        BY <1>2, <3>1, <3>2 DEF Renamed
    <2>2. CASE write.kind # "transfer"
      BY <1>2, <2>2, WrittenRows DEF Renamed
    <2>3. QED
      BY <2>1, <2>2
  <1>8. ASSUME UNCHANGED <<room, inbox>>, ~Matches
        PROVE  /\ room'.loaded /\ room'.sockets = room.sockets /\ Agrees'
               /\ SendsOnly(Naming(now'))
    <2>1. db' = db /\ room' = room
      BY <1>2, <1>8, WrittenRows
    <2>2. Agrees'
      BY <1>3, <1>6, <2>1 DEF Agrees
    <2>3. SendsOnly(Naming(now'))
      BY <1>4, <1>8, NothingSent
    <2>4. QED
      BY <1>3, <2>1, <2>2, <2>3
  <1>9. ASSUME NEW v \in View, ShowAssigned(v), v.presenter = db'.presenter, v.epoch = db'.epoch,
               v.playing = db'.playing
        PROVE  /\ room'.loaded /\ room'.sockets = room.sockets /\ Agrees'
               /\ SendsOnly(Naming(now'))
    <2>1. room'.loaded /\ room'.sockets = room.sockets /\ now' = v
      BY <1>3, <1>9, ShowRoom
    <2>2. Tell(room, Snapshot(v)) /\ Snapshot(v) \in Seq(Naming(v))
      BY <1>9, NamingMessages DEF ShowAssigned
    <2>3. QED
      BY <1>9, <2>1, <2>2, TellSends DEF Agrees
  <1>10. CASE PlaybackWritten
    <2>. DEFINE b == (task.kind = "play")
                v == [now EXCEPT !.playing = b, !.revision = write.next]
    <2>1. CASE Matches
      <3>1. write.kind = "playback"
        BY <1>10 DEF PlaybackWritten, Commits
      <3>2. db'.playing = b /\ db'.epoch = db.epoch /\ db'.presenter = db.presenter
        BY <1>2, <2>1, <3>1, WrittenRows
      <3>3. ShowAssigned(v) \/ ShowAssigned(Wiped(v))
        BY <1>10, <2>1 DEF PlaybackWritten
      <3>4. b \in BOOLEAN
        OBVIOUS
      <3>. HIDE DEF b
      <3>5. v \in View
        BY <1>4, <1>5, <3>4, ViewSteps
      <3>6. v.presenter = now.presenter /\ v.epoch = now.epoch /\ v.playing = b
        BY <1>4 DEF View
      <3>. HIDE DEF v
      <3>7. SameControl(Wiped(v), v) /\ Wiped(v) \in View
        BY <3>5, ControlSteps, ViewSteps
      <3>8. QED
        BY <1>2, <1>3, <1>6, <1>7, <1>9, <3>2, <3>3, <3>5, <3>6, <3>7 DEF SameControl
    <2>2. CASE ~Matches
      BY <1>2, <1>3, <1>7, <1>8, <1>10, <2>2 DEF PlaybackWritten
    <2>3. QED
      BY <2>1, <2>2
  <1>11. CASE TransferWritten
    <2>. DEFINE e == task.stamp + 1
                v == [now EXCEPT !.presenter = task.to, !.epoch = e, !.playing = FALSE,
                                 !.revision = write.next]
    <2>1. CASE Matches
      <3>1. write.kind = "transfer"
        BY <1>11 DEF TransferWritten, Commits
      <3>2. db'.playing = FALSE /\ db'.epoch = e /\ db'.presenter = task.to
        <4>1. Written = [db EXCEPT !.presenter = task.to, !.epoch = @ + 1, !.playing = FALSE,
                                   !.revision = write.next]
          BY <2>1, <3>1 DEF Written
        <4>2. db.epoch = task.stamp
          BY <2>1, <3>1 DEF Matches
        <4>3. QED
          BY <1>2, <4>1, <4>2 DEF TypeOK
      <3>3. ShowAssigned(v)
        BY <1>11, <2>1 DEF TransferWritten
      <3>4. e \in Nat
        BY <1>5
      <3>. HIDE DEF e
      <3>5. v \in View
        BY <1>4, <1>5, <3>4, ViewSteps
      <3>6. v.presenter = task.to /\ v.epoch = e /\ v.playing = FALSE
        BY <1>4 DEF View
      <3>. HIDE DEF v
      <3>7. QED
        BY <1>2, <1>3, <1>7, <1>9, <3>2, <3>3, <3>5, <3>6
    <2>2. CASE ~Matches
      BY <1>2, <1>3, <1>7, <1>8, <1>11, <2>2 DEF TransferWritten
    <2>3. QED
      BY <2>1, <2>2
  <1>12. CASE PauseWritten
    <2>. DEFINE w == [now EXCEPT !.playing = FALSE, !.revision = write.next]
                r == IF Matches THEN Assigned(w) ELSE room
                v == r.snapshot
                paused == IF Matches THEN Snapshot(v) ELSE <<>>
    <2>1. w \in View /\ w.presenter = now.presenter /\ w.epoch = now.epoch /\ w.playing = FALSE
      BY <1>4, <1>5, ViewSteps DEF View
    <2>2. /\ r \in Room /\ r.loaded = room.loaded /\ r.sockets = room.sockets
          /\ Matches => v = w
          /\ ~Matches => v = now
      <3>. HIDE DEF w
      <3>1. QED
        BY <1>3, <2>1, AssignedRoom
    <2>3. write.kind = "pause"
      BY <1>12 DEF PauseWritten, Commits
    <2>4. /\ db'.presenter = db.presenter /\ db'.epoch = db.epoch
          /\ db.active => db'.playing = FALSE /\ Matches
      BY <1>2, <2>3, WrittenRows
    <2>. HIDE DEF r, w
    <2>5. /\ v \in View /\ v.presenter = db'.presenter /\ v.epoch = db'.epoch
          /\ db'.active => v.playing = db'.playing
      BY <1>4, <1>6, <1>7, <2>1, <2>2, <2>4
    <2>6. \/ room' = r /\ Tell(room, paused)
          \/ /\ room' = [r EXCEPT !.snapshot = Bumped(v)]
             /\ Tell(room, paused \o Snapshot(Bumped(v)))
          \/ task.kind = "gone" /\ Departs(r, paused)
      BY <1>12 DEF PauseWritten, r, w
    <2>. HIDE DEF v
    <2>7. ASSUME now'.presenter = v.presenter, now'.epoch = v.epoch, now'.playing = v.playing
          PROVE  Agrees' /\ paused \in Seq(Naming(now'))
      <3>1. Agrees'
        BY <2>5, <2>7 DEF Agrees
      <3>2. Snapshot(v) \in Seq(Naming(now')) /\ <<>> \in Seq(Naming(now'))
        BY <1>4, <2>5, <2>7, NamingMessages
      <3>3. QED
        BY <3>1, <3>2
    <2>. HIDE DEF paused
    <2>8. CASE room' = r /\ Tell(room, paused)
      <3>1. now' = v
        BY <1>3, <2>8 DEF v
      <3>2. QED
        BY <1>2, <1>3, <1>7, <2>2, <2>7, <2>8, <3>1, TellSends
    <2>9. CASE /\ room' = [r EXCEPT !.snapshot = Bumped(v)]
               /\ Tell(room, paused \o Snapshot(Bumped(v)))
      <3>1. Bumped(v) \in View /\ SameControl(Bumped(v), v)
        BY <2>5, ViewSteps, ControlSteps
      <3>2. now' = Bumped(v) /\ room'.loaded /\ room'.sockets = room.sockets
        BY <1>3, <2>2, <2>9, <3>1 DEF Room
      <3>3. Agrees' /\ paused \in Seq(Naming(now')) /\ Snapshot(now') \in Seq(Naming(now'))
        BY <1>4, <2>7, <3>1, <3>2, NamingMessages DEF SameControl
      <3>4. SendsOnly(Naming(now'))
        BY <2>9, <3>2, <3>3, TellSends, ConcatProperties
      <3>5. QED
        BY <1>2, <1>3, <1>7, <3>2, <3>3, <3>4
    <2>10. CASE task.kind = "gone" /\ Departs(r, paused)
      <3>1. from \in Members
        BY <1>3, <2>10, QueueType
      <3>2. /\ room'.loaded /\ room'.sockets = room.sockets /\ now' = Leaves(v, from)
            /\ Tell(r, paused \o Snapshot(now'))
        BY <1>3, <2>2, <2>10, <3>1, DepartsRoom DEF v
      <3>3. SameControl(Leaves(v, from), v)
        BY <2>5, ControlSteps
      <3>4. Agrees' /\ paused \in Seq(Naming(now')) /\ Snapshot(now') \in Seq(Naming(now'))
        BY <1>4, <2>7, <3>2, <3>3, NamingMessages DEF SameControl
      <3>5. SendsOnly(Naming(now'))
        BY <3>2, <3>4, TellSends, ConcatProperties
      <3>6. QED
        BY <1>2, <1>3, <1>7, <3>2, <3>4, <3>5
    <2>11. QED
      BY <2>6, <2>8, <2>9, <2>10
  <1>13. QED
    BY <1>10, <1>11, <1>12

\* A step that leaves the row and the control of the room alone.
LEMMA ControlKept ==
    ASSUME CInv, TypeOK', Busy', UNCHANGED <<db, sweep>>,
           \/ room.loaded /\ room'.loaded /\ SameControl(now', now)
           \/ UNCHANGED <<room, queue>>,
           \A s \in Sockets : stage'[s] = "loaded" => stage[s] = "loaded" \/ room.loaded
    PROVE  CInv' /\ Renamed
  <1>1. Renamed
    BY DEF Renamed
  <1>2. CASE room.loaded /\ room'.loaded /\ SameControl(now', now)
    <2>1. Unloaded' /\ Swept' /\ LoadedHasRoom'
      BY <1>2 DEF CInv, Unloaded, Swept, LoadedHasRoom
    <2>2. Agrees'
      BY <1>2 DEF CInv, Agrees, SameControl
    <2>3. QED
      BY <1>1, <2>1, <2>2 DEF CInv
  <1>3. CASE UNCHANGED <<room, queue>>
    <2>1. Unloaded' /\ Swept' /\ Agrees'
      BY <1>3 DEF CInv, Unloaded, Swept, Agrees, now
    <2>2. LoadedHasRoom'
      BY <1>3 DEF CInv, LoadedHasRoom
    <2>3. QED
      BY <1>1, <2>1, <2>2 DEF CInv
  <1>4. QED
    BY <1>2, <1>3

LEMMA NoSeats ==
    ASSUME Unloaded, TypeOK, NEW s \in Sockets, ~room.loaded
    PROVE  ~Joined(s) /\ ~room.timer /\ queue = <<>>
  BY DEF Unloaded, NoRoom, Joined, Seated, TypeOK, Sockets, NoSocket

\* The control step by step, and what the step sends.
LEMMA ControlStep ==
    ASSUME CInv, Next
    PROVE  CInv' /\ Renamed /\ SendsOnly(Naming(now'))
  <1>. USE DEF memory, client
  <1>1. /\ TypeOK /\ Busy /\ Unloaded /\ Swept /\ Agrees /\ LoadedHasRoom
        /\ room \in Room
    BY DEF CInv, TypeOK
  <1>2. TypeOK' /\ Busy'
    BY <1>1, TypeStep
  <1>3. now = room.snapshot /\ now' = room'.snapshot
    BY DEF now
  <1>4. /\ now \in View /\ now' \in View /\ room' \in Room
        /\ inbox' \in [Sockets -> Seq(Message)]
    BY <1>1, <1>2, <1>3, RoomSteps DEF TypeOK
  <1>5. ASSUME \A s \in Sockets : inbox'[s] = inbox[s] \/ inbox'[s] = <<>>
        PROVE  SendsOnly(Naming(now'))
    BY <1>1, <1>4, <1>5, NothingSent
  <1>6. UNCHANGED inbox => SendsOnly(Naming(now'))
    BY <1>5
  <1>7. SameControl(now, now)
    BY DEF SameControl
  <1>8. ASSUME NEW s \in Sockets, NEW m \in Opens[s], AuthLoad(s, m)
        PROVE  CInv' /\ Renamed /\ SendsOnly(Naming(now'))
    <2>1. UNCHANGED <<db, sweep, room, queue, inbox>>
      BY <1>8 DEF AuthLoad
    <2>2. \A q \in Sockets : stage'[q] = "loaded" => stage[q] = "loaded" \/ room.loaded
      BY <1>1, <1>8 DEF AuthLoad, Reach, TypeOK
    <2>3. QED
      BY <1>2, <1>6, <2>1, <2>2, ControlKept
  <1>9. ASSUME NEW s \in Sockets, AuthCreate(s)
        PROVE  CInv' /\ Renamed /\ SendsOnly(Naming(now'))
    <2>1. UNCHANGED <<db, sweep, queue, inbox>>
      BY <1>9 DEF AuthCreate
    <2>2. CASE room.loaded
      <3>1. UNCHANGED room
        BY <1>9, <2>2 DEF AuthCreate
      <3>2. QED
        BY <1>2, <1>3, <1>6, <1>7, <2>1, <2>2, <3>1, ControlKept
    <2>3. CASE ~room.loaded
      <3>1. /\ room'.loaded
            /\ now'.presenter = db.presenter /\ now'.epoch = db.epoch /\ now'.playing = FALSE
        BY <1>3, <1>9, <2>3 DEF AuthCreate, NoRoom, Blank
      <3>2. db.active => ~db.playing
        BY <1>1, <2>3 DEF Unloaded
      <3>3. Agrees'
        BY <1>1, <2>1, <3>1, <3>2 DEF Agrees, TypeOK
      <3>4. Unloaded' /\ Swept' /\ LoadedHasRoom' /\ Renamed
        BY <1>1, <2>1, <3>1 DEF Unloaded, Swept, LoadedHasRoom, Renamed
      <3>5. QED
        BY <1>2, <1>6, <2>1, <3>3, <3>4 DEF CInv
    <2>4. QED
      BY <2>2, <2>3
  <1>10. ASSUME NEW s \in Sockets, AuthJoin(s)
        PROVE  CInv' /\ Renamed /\ SendsOnly(Naming(now'))
    <2>1. UNCHANGED <<db, sweep, queue>>
      BY <1>10 DEF AuthJoin
    <2>2. room.loaded
      BY <1>1, <1>10 DEF AuthJoin, LoadedHasRoom
    <2>3. room'.loaded /\ now' = Enters(now, owner[s])
      BY <1>1, <1>3, <1>10, <2>2 DEF AuthJoin, Room
    <2>4. SameControl(now', now)
      BY <1>4, <2>3, ControlSteps
    <2>5. \A q \in Sockets : stage'[q] = "loaded" => stage[q] = "loaded"
      BY <1>10 DEF AuthJoin
    <2>6. SendsOnly(Naming(now'))
      BY <1>5, <1>10 DEF AuthJoin
    <2>7. QED
      BY <1>2, <2>1, <2>2, <2>3, <2>4, <2>5, <2>6, ControlKept
  <1>11. ASSUME NEW s \in Sockets, AuthPublish(s) \/ AuthFails(s)
         PROVE  CInv' /\ Renamed /\ SendsOnly(Naming(now'))
    <2>1. UNCHANGED <<db, sweep, room, queue>>
      BY <1>11 DEF AuthPublish, AuthFails
    <2>2. \A q \in Sockets : stage'[q] = "loaded" => stage[q] = "loaded"
      BY <1>1, <1>11 DEF AuthPublish, AuthFails, Reach, TypeOK
    <2>3. SendsOnly(Naming(now'))
      <3>1. now' = now
        BY <1>3, <2>1
      <3>2. Snapshot(now) \in Seq(Naming(now'))
        BY <1>4, <3>1, NamingMessages
      <3>3. Tell(room, Snapshot(now)) \/ UNCHANGED inbox
        BY <1>3, <1>11 DEF AuthPublish, AuthFails
      <3>4. QED
        BY <1>1, <1>6, <3>2, <3>3, TellSends
    <2>4. QED
      BY <1>2, <2>1, <2>2, <2>3, ControlKept
  <1>12. ASSUME NEW s \in Sockets, Disconnect(s)
         PROVE  CInv' /\ Renamed /\ SendsOnly(Naming(now'))
    <2>1. UNCHANGED <<db, sweep>>
      BY <1>12 DEF Disconnect
    <2>2. \A q \in Sockets : stage'[q] = "loaded" => stage[q] = "loaded"
      BY <1>1, <1>12 DEF Disconnect, TypeOK
    <2>3. SendsOnly(Naming(now'))
      BY <1>1, <1>5, <1>12 DEF Disconnect, TypeOK
    <2>4. CASE Joined(s)
      <3>1. room.loaded
        BY <1>1, <2>4, NoSeats
      <3>2. room' = [room EXCEPT !.sockets[owner[s]] = NoSocket]
        BY <1>12, <2>4 DEF Disconnect
      <3>3. room'.loaded /\ now' = now
        BY <1>1, <1>3, <3>1, <3>2 DEF Room
      <3>4. QED
        BY <1>2, <1>7, <2>1, <2>2, <2>3, <3>1, <3>3, ControlKept
    <2>5. CASE ~Joined(s)
      BY <1>2, <1>12, <2>1, <2>2, <2>3, <2>5, ControlKept DEF Disconnect
    <2>6. QED
      BY <2>4, <2>5
  <1>13. ASSUME NEW s \in Sockets, Receive(s)
         PROVE  CInv' /\ Renamed /\ SendsOnly(Naming(now'))
    <2>1. UNCHANGED <<db, sweep, room, stage>>
      BY <1>13 DEF Receive
    <2>2. room.loaded \/ UNCHANGED queue
      BY <1>13 DEF Receive, ReceiveSnapshot, ReceiveDelta, Enqueued
    <2>3. CInv' /\ Renamed
      BY <1>2, <1>3, <1>7, <2>1, <2>2, ControlKept
    <2>4. SendsOnly(Naming(now'))
      <3>. SUFFICES ASSUME NEW q \in Sockets, NEW i \in 1..Len(inbox'[q])
                    PROVE  \E j \in 1..Len(inbox[q]) : inbox'[q][i] = inbox[q][j]
        BY DEF SendsOnly
      <3>1. CASE q # s
        BY <1>1, <1>13, <3>1 DEF Receive, TypeOK
      <3>2. CASE q = s
        <4>1. inbox[s] \in Seq(Message) /\ inbox[s] # <<>> /\ inbox'[s] = Tail(inbox[s])
          BY <1>1, <1>13 DEF Receive, TypeOK
        <4>. DEFINE x == inbox[s]
        <4>. HIDE DEF x
        <4>2. /\ Len(x) \in Nat /\ Len(Tail(x)) = Len(x) - 1
              /\ \A k \in 1..Len(Tail(x)) : Tail(x)[k] = x[k + 1]
          BY <4>1, HeadTailProperties, LenProperties DEF x
        <4>3. i + 1 \in 1..Len(x) /\ Tail(x)[i] = x[i + 1]
          BY <3>2, <4>1, <4>2 DEF x
        <4>4. QED
          BY <3>2, <4>1, <4>3 DEF x
      <3>3. QED
        BY <3>1, <3>2
    <2>5. QED
      BY <2>3, <2>4
  <1>14. ASSUME NEW s \in Sockets, Sends(s)
         PROVE  CInv' /\ Renamed /\ SendsOnly(Naming(now'))
    <2>1. \E kind, n, m : Command(s, kind, n, m)
      BY <1>14 DEF Sends
    <2>2. UNCHANGED <<db, sweep, room, stage, inbox>> /\ (room.loaded \/ UNCHANGED queue)
      BY <2>1 DEF Command, Enqueued
    <2>3. QED
      BY <1>2, <1>3, <1>6, <1>7, <2>2, ControlKept
  <1>15. CASE Serve
    <2>1. CASE DropStranger
      <3>1. UNCHANGED <<db, sweep, room>> /\ room.loaded
        BY <2>1 DEF DropStranger
      <3>2. \A q \in Sockets : stage'[q] = "loaded" => stage[q] = "loaded"
        BY <1>1, <2>1 DEF DropStranger, TypeOK
      <3>3. SendsOnly(Naming(now'))
        BY <1>1, <1>5, <2>1 DEF DropStranger, TypeOK
      <3>4. QED
        BY <1>2, <1>3, <1>7, <3>1, <3>2, <3>3, ControlKept
    <2>2. CASE Report \/ Resync \/ Playback \/ Transfer \/ Stroke \/ Undo \/ Clear \/ End \/ Gone \/ Empty
      <3>1. /\ room.loaded /\ room'.loaded /\ SameControl(now', now)
            /\ SendsOnly(Naming(now')) /\ UNCHANGED <<db, stage, sweep>>
        BY <1>1, <2>2, TaskEffects
      <3>2. QED
        BY <1>2, <3>1, ControlKept
    <2>3. CASE PlaybackWritten \/ TransferWritten \/ PauseWritten
      <3>1. /\ room.loaded /\ room'.loaded /\ Agrees' /\ Renamed /\ db'.active = db.active
            /\ SendsOnly(Naming(now')) /\ UNCHANGED <<stage, sweep>>
        BY <1>1, <2>3, WriteEffects
      <3>2. Unloaded' /\ Swept' /\ LoadedHasRoom'
        BY <1>1, <3>1 DEF Unloaded, Swept, LoadedHasRoom
      <3>3. QED
        BY <1>2, <3>1, <3>2 DEF CInv
    <2>4. CASE EndWritten
      <3>1. /\ db' = Written /\ write.kind = "end" /\ UNCHANGED sweep
            /\ room' = NoRoom /\ queue' = <<>>
        BY <2>4 DEF EndWritten, Commits
      <3>2. ~db'.active /\ db'.epoch = db.epoch /\ db'.presenter = db.presenter
        BY <1>1, <3>1, WrittenRows
      <3>3. Unloaded' /\ Swept' /\ Agrees' /\ Renamed
        BY <3>1, <3>2 DEF Unloaded, Swept, Agrees, Renamed, NoRoom
      <3>4. LoadedHasRoom'
        BY <2>4 DEF EndWritten, LoadedHasRoom
      <3>5. SendsOnly(Naming(now'))
        BY <1>5, <2>4 DEF EndWritten
      <3>6. QED
        BY <1>2, <3>3, <3>4, <3>5 DEF CInv
    <2>5. QED
      BY <1>15, <2>1, <2>2, <2>3, <2>4 DEF Serve
  <1>16. CASE WriteFails
    <2>1. UNCHANGED <<db, sweep, stage, inbox>>
      BY <1>16 DEF WriteFails
    <2>2. room.loaded
      BY <1>1, <1>16 DEF WriteFails, Busy
    <2>3. room'.loaded /\ now' = now
      <3>1. CASE UNCHANGED room
        BY <1>3, <2>2, <3>1
      <3>. DEFINE r == [room EXCEPT !.ending = FALSE]
      <3>2. r \in Room /\ r.loaded = room.loaded /\ r.snapshot = now
        BY <1>1, <1>3 DEF Room
      <3>3. UNCHANGED room \/ ScheduleEmptyClose(r, FALSE)
        BY <1>16 DEF WriteFails
      <3>. HIDE DEF r
      <3>4. QED
        BY <1>3, <2>2, <3>1, <3>2, <3>3, ScheduleRoom
    <2>4. QED
      BY <1>2, <1>6, <1>7, <2>1, <2>2, <2>3, ControlKept
  <1>17. CASE TimerFires
    <2>1. UNCHANGED <<db, sweep, stage, inbox>>
      BY <1>17 DEF TimerFires
    <2>2. room.loaded
      BY <1>1, <1>17 DEF TimerFires, Unloaded, NoRoom
    <2>3. room'.loaded /\ now' = now
      BY <1>1, <1>3, <1>17, <2>2 DEF TimerFires, Room
    <2>4. QED
      BY <1>2, <1>6, <1>7, <2>1, <2>2, <2>3, ControlKept
  <1>18. CASE SweepFinds
    <2>1. UNCHANGED <<db, room, queue, stage, inbox>> /\ sweep' = "found"
      BY <1>18 DEF SweepFinds
    <2>2. QED
      BY <1>1, <1>2, <1>3, <1>6, <2>1 DEF CInv, Unloaded, Swept, Agrees, LoadedHasRoom, Renamed
  <1>19. CASE SweepEnds
    <2>1. UNCHANGED <<room, queue, stage, inbox>>
      BY <1>19 DEF SweepEnds
    <2>2. ~db'.active /\ db'.epoch = db.epoch /\ db'.presenter = db.presenter
      BY <1>1, <1>19 DEF SweepEnds, TypeOK
    <2>3. Unloaded' /\ Swept' /\ Agrees' /\ LoadedHasRoom' /\ Renamed
      BY <1>1, <1>3, <2>1, <2>2 DEF Unloaded, Swept, Agrees, LoadedHasRoom, Renamed
    <2>4. QED
      BY <1>2, <1>6, <2>1, <2>3 DEF CInv
  <1>20. CASE SweepDrops
    <2>1. /\ UNCHANGED <<db, inbox>> /\ sweep' = "idle" /\ room' = NoRoom /\ queue' = <<>>
          /\ ~db.active
      BY <1>1, <1>20 DEF SweepDrops, Swept
    <2>2. Unloaded' /\ Swept' /\ Agrees' /\ Renamed
      BY <2>1 DEF Unloaded, Swept, Agrees, Renamed, NoRoom
    <2>3. LoadedHasRoom'
      BY <1>20 DEF SweepDrops, LoadedHasRoom
    <2>4. QED
      BY <1>2, <1>6, <2>1, <2>2, <2>3 DEF CInv
  <1>21. CASE Crash
    <2>1. /\ sweep' = "idle" /\ room' = NoRoom /\ queue' = <<>>
          /\ \E row \in {db, IF write.kind = "none" THEN db ELSE Written} :
                db' = [row EXCEPT !.playing = FALSE]
      BY <1>21 DEF Crash
    <2>2. PICK row \in {db, IF write.kind = "none" THEN db ELSE Written} :
             db' = [row EXCEPT !.playing = FALSE]
      BY <2>1
    <2>3. row \in [active : BOOLEAN, presenter : Members, epoch : Nat, playing : BOOLEAN,
                   revision : Int]
      BY <1>1, <2>2, WrittenType DEF TypeOK
    <2>4. db'.epoch = row.epoch /\ db'.presenter = row.presenter /\ db'.playing = FALSE
      BY <2>2, <2>3
    <2>5. Renamed
      <3>1. row = db \/ (row = Written /\ write.kind # "none")
        BY <2>2
      <3>2. CASE row = db
        BY <2>4, <3>2 DEF Renamed
      <3>3. CASE row = Written /\ write.kind # "none"
        <4>1. \/ row.epoch = db.epoch /\ row.presenter = db.presenter
              \/ row.epoch = task.stamp + 1 /\ task.stamp = db.epoch
          BY <1>1, <3>3, WrittenRows
        <4>2. db.epoch \in Nat
          BY <1>1 DEF TypeOK
        <4>3. QED
          BY <2>4, <4>1, <4>2 DEF Renamed
      <3>4. QED
        BY <3>1, <3>2, <3>3
    <2>6. Unloaded' /\ Swept' /\ Agrees'
      BY <2>1, <2>4 DEF Unloaded, Swept, Agrees, NoRoom
    <2>7. LoadedHasRoom'
      BY <1>21 DEF Crash, LoadedHasRoom
    <2>8. SendsOnly(Naming(now'))
      BY <1>5, <1>21 DEF Crash
    <2>9. QED
      BY <1>2, <2>5, <2>6, <2>7, <2>8 DEF CInv
  <1>22. QED
    BY <1>8, <1>9, <1>10, <1>11, <1>12, <1>13, <1>14, <1>15, <1>16, <1>17, <1>18, <1>19, <1>20, <1>21
       DEF Next, Auth

LEMMA ControlInit == Init => CInv /\ db.epoch = 1
  <1>. SUFFICES ASSUME Init PROVE CInv /\ db.epoch = 1
    OBVIOUS
  <1>1. Unloaded /\ Swept /\ Agrees /\ LoadedHasRoom /\ db.epoch = 1
    BY DEF Init, Unloaded, Swept, Agrees, LoadedHasRoom, NoRoom
  <1>2. QED
    BY <1>1, TypeInit DEF CInv

LEMMA ControlNext == CInv /\ [Next]_vars => CInv'
  <1>1. CInv /\ UNCHANGED vars => CInv'
    BY DEF vars, memory, client, CInv, TypeOK, Busy, task, Unloaded, Swept, Agrees, now, LoadedHasRoom
  <1>2. QED
    BY <1>1, ControlStep

\* While no write is under way the room and the row of an active session agree on
\* presenter, control epoch and playback; they even agree while one is.
THEOREM ControlCorrect == Spec => []ControlAgrees
<1>1. CInv => ControlAgrees
  BY DEF CInv, Agrees, ControlAgrees
<1>2. QED
  BY <1>1, ControlInit, ControlNext, PTL DEF Spec

-----------------------------------------------------------------------------
(***************************************************************************)
(* The browsers: an epoch has one presenter.                               *)
(***************************************************************************)

\* Epochs start above that of an empty screen and only grow.
EInv == CInv /\ db.epoch >= 1 /\ EpochNamesPresenter

\* What a browser shows after a step: what it showed, nothing, or what the
\* presenter and the epoch of a snapshot sent to it are.
LEMMA ScreenStep ==
    ASSUME CInv, Next, NEW s \in Sockets
    PROVE  LET v == screen'[s].view
           IN  \/ v.presenter = screen[s].view.presenter /\ v.epoch = screen[s].view.epoch
               \/ v.epoch = 0
               \/ \E i \in 1..Len(inbox[s]) : inbox[s][i].kind = "snapshot" /\ v = inbox[s][i].view
  <1>. DEFINE v == screen'[s].view
              Goal == \/ v.presenter = screen[s].view.presenter /\ v.epoch = screen[s].view.epoch
                      \/ v.epoch = 0
                      \/ \E i \in 1..Len(inbox[s]) : inbox[s][i].kind = "snapshot" /\ v = inbox[s][i].view
  <1>. SUFFICES Goal
    OBVIOUS
  <1>. USE DEF memory, client
  <1>1. TypeOK /\ Busy
    BY DEF CInv
  <1>2. CASE screen'[s] = screen[s]
    BY <1>2
  <1>3. CASE screen'[s] = BlankScreen
    BY <1>3 DEF BlankScreen, Blank
  <1>4. ASSUME NEW q \in Sockets, Receive(q)
        PROVE  Goal
    <2>1. CASE q # s
      <3>1. screen'[s] = screen[s]
        BY <1>1, <1>4, <2>1 DEF Receive, ReceiveSnapshot, ReceiveDelta, TypeOK
      <3>2. QED
        BY <1>2, <3>1
    <2>2. CASE q = s
      <3>. DEFINE x == Head(inbox[s])
      <3>1. x = inbox[s][1] /\ 1 \in 1..Len(inbox[s]) /\ x \in Message
        <4>1. inbox[s] \in Seq(Message) /\ inbox[s] # <<>>
          BY <1>1, <1>4, <2>2 DEF Receive, TypeOK
        <4>2. QED
          BY <4>1, HeadTailProperties, LenProperties
      <3>2. ReceiveSnapshot(s, x) \/ ReceiveDelta(s, x)
        BY <1>4, <2>2 DEF Receive
      <3>. HIDE DEF x
      <3>3. CASE ReceiveSnapshot(s, x)
        <4>1. x.kind = "snapshot"
          BY <3>3 DEF ReceiveSnapshot
        <4>2. screen'[s] = screen[s] \/ v = x.view
          BY <1>1, <3>3 DEF ReceiveSnapshot, TypeOK
        <4>3. QED
          BY <1>2, <3>1, <4>1, <4>2
      <3>4. CASE ReceiveDelta(s, x)
        <4>1. \/ screen'[s] = screen[s]
              \/ v = screen[s].view
              \/ v = Drawing(x.kind, screen[s].view, x.by)
          BY <1>1, <3>4 DEF ReceiveDelta, TypeOK
        <4>2. screen[s].view \in View
          BY <1>1 DEF TypeOK
        <4>3. SameControl(Drawing(x.kind, screen[s].view, x.by), screen[s].view)
          BY <4>2, ControlSteps
        <4>4. QED
          BY <1>2, <4>1, <4>3 DEF SameControl
      <3>5. QED
        BY <3>2, <3>3, <3>4
    <2>3. QED
      BY <2>1, <2>2
  <1>5. ASSUME NEW q \in Sockets,
               (\E m \in Opens[q] : AuthLoad(q, m)) \/ Auth(q) \/ Disconnect(q) \/ Sends(q)
        PROVE  screen'[s] = screen[s] \/ screen'[s] = BlankScreen
    <2>1. CASE Sends(q)
      <3>1. \E kind, n, m : Command(q, kind, n, m)
        BY <2>1 DEF Sends
      <3>2. QED
        BY <3>1 DEF Command
    <2>2. QED
      BY <1>1, <1>5, <2>1 DEF AuthLoad, Auth, AuthCreate, AuthJoin, AuthPublish, AuthFails, Disconnect, TypeOK
  <1>6. CASE Serve
    <2>1. CASE DropStranger \/ EndWritten
      BY <1>1, <1>2, <1>3, <2>1 DEF DropStranger, EndWritten, TypeOK
    <2>2. CASE Report \/ Resync \/ Playback \/ Transfer \/ Stroke \/ Undo \/ Clear \/ End \/ Gone \/ Empty
      BY <1>1, <1>2, <2>2, TaskEffects
    <2>3. CASE PlaybackWritten \/ TransferWritten \/ PauseWritten
      BY <1>2, <2>3 DEF PlaybackWritten, TransferWritten, PauseWritten, Kept
    <2>4. QED
      BY <1>6, <2>1, <2>2, <2>3 DEF Serve
  <1>7. CASE WriteFails \/ TimerFires \/ SweepFinds \/ SweepEnds \/ SweepDrops
    BY <1>2, <1>7 DEF WriteFails, TimerFires, SweepFinds, SweepEnds, SweepDrops
  <1>8. CASE Crash
    BY <1>3, <1>8 DEF Crash
  <1>9. QED
    BY <1>2, <1>3, <1>4, <1>5, <1>6, <1>7, <1>8 DEF Next

\* Names, of the row a step leaves.
NamesNext(v) == v.epoch <= db'.epoch /\ (v.epoch = db'.epoch => v.presenter = db'.presenter)

LEMMA EpochStep == EInv /\ [Next]_vars => EInv'
  <1>. SUFFICES ASSUME EInv, [Next]_vars PROVE EInv'
    OBVIOUS
  <1>1. CInv /\ db.epoch >= 1 /\ EpochNamesPresenter /\ TypeOK /\ CInv'
    BY ControlNext DEF EInv, CInv
  <1>2. CASE UNCHANGED vars
    BY <1>1, <1>2 DEF EInv, vars, client, EpochNamesPresenter, Names
  <1>3. CASE Next
    <2>1. Renamed /\ SendsOnly(Naming(now'))
      BY <1>1, <1>3, ControlStep
    <2>2. db.epoch \in Nat /\ db'.epoch \in Nat
      BY <1>1 DEF CInv, TypeOK
    <2>3. db'.epoch >= 1
      BY <1>1, <2>1, <2>2 DEF Renamed
    <2>4. ASSUME NEW v, v.epoch \in Nat, v.epoch <= db.epoch,
                 v.epoch = db.epoch => v.presenter = db.presenter
          PROVE  v.epoch <= db'.epoch /\ (v.epoch = db'.epoch => v.presenter = db'.presenter)
      BY <2>1, <2>2, <2>4 DEF Renamed
    <2>5. /\ now'.epoch <= db'.epoch
          /\ now'.epoch = db'.epoch => now'.presenter = db'.presenter
      BY <1>1, <2>2, <2>3 DEF CInv, Agrees, Unloaded, NoRoom, Blank, now
    <2>6. ASSUME NEW s \in Sockets PROVE NamesNext(screen'[s].view)
      <3>. DEFINE v == screen'[s].view
      <3>1. v.epoch \in Nat /\ screen[s].view.epoch \in Nat
        BY <1>1 DEF CInv, TypeOK, View
      <3>2. CASE v.presenter = screen[s].view.presenter /\ v.epoch = screen[s].view.epoch
        <4>1. v.epoch <= db.epoch /\ (v.epoch = db.epoch => v.presenter = db.presenter)
          BY <1>1, <3>2 DEF EpochNamesPresenter, Names
        <4>2. QED
          BY <2>4, <3>1, <4>1 DEF NamesNext
      <3>3. CASE v.epoch = 0
        BY <2>2, <2>3, <3>3 DEF NamesNext
      <3>4. CASE \E i \in 1..Len(inbox[s]) : inbox[s][i].kind = "snapshot" /\ v = inbox[s][i].view
        <4>1. v.epoch <= db.epoch /\ (v.epoch = db.epoch => v.presenter = db.presenter)
          BY <1>1, <3>4 DEF EpochNamesPresenter, Names
        <4>2. QED
          BY <2>4, <3>1, <4>1 DEF NamesNext
      <3>5. QED
        BY <1>1, <1>3, <3>2, <3>3, <3>4, ScreenStep
    <2>7. ASSUME NEW s \in Sockets, NEW i \in 1..Len(inbox'[s]), inbox'[s][i].kind = "snapshot"
          PROVE  NamesNext(inbox'[s][i].view)
      <3>. DEFINE v == inbox'[s][i].view
      <3>1. CASE inbox'[s][i] \in Naming(now')
        BY <2>5, <2>7, <3>1 DEF Naming, NamesNext
      <3>2. CASE \E j \in 1..Len(inbox[s]) : inbox'[s][i] = inbox[s][j]
        <4>1. PICK j \in 1..Len(inbox[s]) : inbox'[s][i] = inbox[s][j]
          BY <3>2
        <4>2. v.epoch <= db.epoch /\ (v.epoch = db.epoch => v.presenter = db.presenter)
          BY <1>1, <2>7, <4>1 DEF EpochNamesPresenter, Names
        <4>3. inbox[s] \in Seq(Message)
          BY <1>1 DEF TypeOK
        <4>4. inbox[s][j] \in Message
          BY <4>1, <4>3, ElementOfSeq
        <4>5. v \in View
          BY <2>7, <4>1, <4>4 DEF Message
        <4>6. v.epoch \in Nat
          BY <4>5 DEF View
        <4>7. QED
          BY <2>4, <4>2, <4>6 DEF NamesNext
      <3>3. QED
        BY <2>1, <3>1, <3>2 DEF SendsOnly
    <2>8. QED
      BY <1>1, <2>3, <2>6, <2>7 DEF EInv, EpochNamesPresenter, Names, NamesNext
  <1>4. QED
    BY <1>2, <1>3

\* A browser that is in the row's control epoch names the row's presenter, and
\* none is ahead of the row, whatever was lost, delayed or crashed.
THEOREM OnePresenter == Spec => []EpochNamesPresenter
<1>1. Init => EInv
  BY ControlInit DEF Init, EInv, EpochNamesPresenter, Names, BlankScreen, Blank
<1>2. EInv => EpochNamesPresenter
  BY DEF EInv
<1>3. QED
  BY <1>1, <1>2, EpochStep, PTL DEF Spec

-----------------------------------------------------------------------------
(***************************************************************************)
(* The seats.                                                              *)
(***************************************************************************)

\* A session that has ended stays ended.
LEMMA ActiveStep ==
    ASSUME CInv, Next
    PROVE  db'.active => db.active
  <1>. USE DEF memory, client
  <1>1. TypeOK /\ Busy /\ Agrees
    BY DEF CInv
  <1>2. CASE Serve
    <2>1. CASE EndWritten
      BY <1>1, <2>1, WrittenRows DEF EndWritten, Commits
    <2>2. CASE PlaybackWritten \/ TransferWritten \/ PauseWritten
      BY <1>1, <2>2, WriteEffects
    <2>3. CASE DropStranger
      BY <2>3 DEF DropStranger
    <2>4. CASE Report \/ Resync \/ Playback \/ Transfer \/ Stroke \/ Undo \/ Clear \/ End \/ Gone \/ Empty
      BY <1>1, <2>4, TaskEffects
    <2>5. QED
      BY <1>2, <2>1, <2>2, <2>3, <2>4 DEF Serve
  <1>3. CASE Crash
    <2>1. PICK row \in {db, IF write.kind = "none" THEN db ELSE Written} :
             db' = [row EXCEPT !.playing = FALSE]
      BY <1>3 DEF Crash
    <2>2. row \in [active : BOOLEAN, presenter : Members, epoch : Nat, playing : BOOLEAN,
                   revision : Int]
      BY <1>1, <2>1, WrittenType DEF TypeOK
    <2>3. db'.active = row.active
      BY <2>1, <2>2
    <2>4. row.active => db.active
      BY <1>1, <2>1, WrittenRows
    <2>5. QED
      BY <2>3, <2>4
  <1>4. CASE SweepEnds
    BY <1>1, <1>4 DEF SweepEnds, TypeOK
  <1>5. CASE WriteFails \/ TimerFires \/ SweepFinds \/ SweepDrops
    BY <1>5 DEF WriteFails, TimerFires, SweepFinds, SweepDrops
  <1>6. ASSUME NEW s \in Sockets, Sends(s) PROVE db'.active => db.active
    <2>1. \E kind, n, m : Command(s, kind, n, m)
      BY <1>6 DEF Sends
    <2>2. QED
      BY <2>1 DEF Command
  <1>7. ASSUME NEW s \in Sockets,
               (\E m \in Opens[s] : AuthLoad(s, m)) \/ Auth(s) \/ Disconnect(s) \/ Receive(s)
        PROVE  db'.active => db.active
    BY <1>7 DEF AuthLoad, Auth, AuthCreate, AuthJoin, AuthPublish, AuthFails, Disconnect, Receive
  <1>8. QED
    BY <1>2, <1>3, <1>4, <1>5, <1>6, <1>7 DEF Next

\* Seats stay, and nobody is newly connected.
LEMMA SeatsStay ==
    ASSUME ConnectedAreSeated, room'.sockets = room.sockets, UNCHANGED owner,
           db'.active => db.active,
           \A s \in Sockets : stage'[s] \in Connected => stage[s] \in Connected
    PROVE  ConnectedAreSeated'
  BY DEF ConnectedAreSeated, Joined, Seated

LEMMA SeatsStep == CInv /\ ConnectedAreSeated /\ [Next]_vars => ConnectedAreSeated'
  <1>. SUFFICES ASSUME CInv, ConnectedAreSeated, [Next]_vars PROVE ConnectedAreSeated'
    OBVIOUS
  <1>. USE DEF memory, client
  <1>1. TypeOK /\ Busy /\ Unloaded /\ Agrees /\ LoadedHasRoom /\ room \in Room
    BY DEF CInv, TypeOK
  <1>2. CASE UNCHANGED vars
    BY <1>2 DEF vars, ConnectedAreSeated, Joined, Seated
  <1>3. SUFFICES ASSUME Next PROVE ConnectedAreSeated'
    BY <1>2
  <1>4. db'.active => db.active
    BY <1>3, ActiveStep
  <1>5. ASSUME UNCHANGED <<room, owner>>,
               \A s \in Sockets : stage'[s] \in Connected => stage[s] \in Connected
        PROVE  ConnectedAreSeated'
    BY <1>4, <1>5, SeatsStay
  <1>6. ASSUME NEW s \in Sockets, NEW m \in Opens[s], AuthLoad(s, m)
        PROVE  ConnectedAreSeated'
    <2>1. /\ UNCHANGED <<room, db>> /\ owner' = [owner EXCEPT ![s] = m]
          /\ stage' = [stage EXCEPT ![s] = "loaded"] \/ stage' = [stage EXCEPT ![s] = "reading"]
      BY <1>6 DEF AuthLoad, Reach
    <2>2. ASSUME NEW q \in Sockets, stage'[q] \in Connected, db'.active
          PROVE  Joined(q)'
      <3>1. q # s
        BY <1>1, <2>1, <2>2 DEF Connected, TypeOK
      <3>2. stage[q] \in Connected /\ owner'[q] = owner[q]
        BY <1>1, <2>1, <2>2, <3>1 DEF TypeOK
      <3>3. QED
        BY <1>4, <2>1, <2>2, <3>2 DEF ConnectedAreSeated, Joined, Seated
    <2>3. QED
      BY <2>2 DEF ConnectedAreSeated
  <1>7. ASSUME NEW s \in Sockets, AuthCreate(s)
        PROVE  ConnectedAreSeated'
    <2>1. \A q \in Sockets : stage'[q] \in Connected => stage[q] \in Connected
      BY <1>1, <1>7 DEF AuthCreate, Reach, Connected, TypeOK
    <2>2. room'.sockets = room.sockets /\ UNCHANGED owner
      BY <1>1, <1>7 DEF AuthCreate, Unloaded, NoRoom
    <2>3. QED
      BY <1>4, <2>1, <2>2, SeatsStay
  <1>8. ASSUME NEW s \in Sockets, AuthJoin(s)
        PROVE  ConnectedAreSeated'
    <2>1. /\ UNCHANGED owner /\ owner[s] \in Members
          /\ stage' = [q \in Sockets |-> IF q = s THEN "joining"
                             ELSE IF q = room.sockets[owner[s]] THEN "closed" ELSE stage[q]]
      BY <1>1, <1>8 DEF AuthJoin, TypeOK
    <2>2. room'.sockets = [room.sockets EXCEPT ![owner[s]] = s]
      BY <1>1, <1>8 DEF AuthJoin, Room
    <2>3. room.sockets \in [Members -> Sockets \cup {NoSocket}]
      BY <1>1, RoomSteps
    <2>4. ASSUME NEW q \in Sockets, stage'[q] \in Connected, db'.active
          PROVE  room'.sockets[owner[q]] = q
      <3>1. CASE q = s
        BY <2>1, <2>2, <2>3, <3>1
      <3>2. CASE q # s
        <4>1. stage[q] \in Connected /\ q # room.sockets[owner[s]]
          BY <2>1, <2>4, <3>2 DEF Connected
        <4>2. room.sockets[owner[q]] = q /\ owner[q] \in Members
          BY <1>1, <1>4, <2>4, <4>1 DEF ConnectedAreSeated, Joined, Seated, TypeOK
        <4>3. owner[q] # owner[s]
          BY <4>1, <4>2
        <4>4. QED
          BY <2>2, <2>3, <4>2, <4>3
      <3>3. QED
        BY <3>1, <3>2
    <2>5. QED
      BY <2>1, <2>4 DEF ConnectedAreSeated, Joined, Seated
  <1>9. ASSUME NEW s \in Sockets, AuthPublish(s) \/ AuthFails(s)
        PROVE  ConnectedAreSeated'
    <2>1. UNCHANGED <<room, owner>>
      BY <1>9 DEF AuthPublish, AuthFails
    <2>2. \A q \in Sockets : stage'[q] \in Connected => stage[q] \in Connected
      BY <1>1, <1>9 DEF AuthPublish, AuthFails, Reach, Connected, TypeOK
    <2>3. QED
      BY <1>5, <2>1, <2>2
  <1>10. ASSUME NEW s \in Sockets, Disconnect(s)
        PROVE  ConnectedAreSeated'
    <2>1. UNCHANGED <<db, owner>> /\ stage' = [stage EXCEPT ![s] = "closed"]
      BY <1>10 DEF Disconnect
    <2>2. \/ ~Joined(s) /\ UNCHANGED room
          \/ Joined(s) /\ room' = [room EXCEPT !.sockets[owner[s]] = NoSocket]
      BY <1>10 DEF Disconnect
    <2>3. ASSUME NEW q \in Sockets, stage'[q] \in Connected, db'.active
          PROVE  room'.sockets[owner[q]] = q
      <3>1. q # s /\ stage[q] \in Connected
        BY <1>1, <2>1, <2>3 DEF Connected, TypeOK
      <3>2. room.sockets[owner[q]] = q /\ owner[q] \in Members /\ owner[s] \in Members
        BY <1>1, <1>4, <2>3, <3>1 DEF ConnectedAreSeated, Joined, Seated, TypeOK
      <3>3. CASE UNCHANGED room
        BY <3>2, <3>3
      <3>4. CASE Joined(s) /\ room' = [room EXCEPT !.sockets[owner[s]] = NoSocket]
        <4>1. owner[q] # owner[s]
          BY <3>1, <3>2, <3>4 DEF Joined, Seated
        <4>2. room'.sockets = [room.sockets EXCEPT ![owner[s]] = NoSocket]
          BY <1>1, <3>4 DEF Room
        <4>3. room.sockets \in [Members -> Sockets \cup {NoSocket}]
          BY <1>1, RoomSteps
        <4>4. QED
          BY <3>2, <4>1, <4>2, <4>3
      <3>5. QED
        BY <2>2, <3>3, <3>4
    <2>4. QED
      BY <2>1, <2>3 DEF ConnectedAreSeated, Joined, Seated
  <1>11. ASSUME NEW s \in Sockets, Receive(s) \/ Sends(s)
         PROVE  ConnectedAreSeated'
    <2>1. UNCHANGED <<room, owner, stage>>
      <3>1. CASE Sends(s)
        <4>1. \E kind, n, m : Command(s, kind, n, m)
          BY <3>1 DEF Sends
        <4>2. QED
          BY <4>1 DEF Command
      <3>2. QED
        BY <1>11, <3>1 DEF Receive
    <2>2. QED
      BY <1>5, <2>1
  <1>12. CASE Serve
    <2>1. CASE EndWritten
      <3>1. ~db'.active
        BY <1>1, <2>1, WrittenRows DEF EndWritten, Commits
      <3>2. QED
        BY <3>1 DEF ConnectedAreSeated
    <2>2. CASE PlaybackWritten \/ TransferWritten \/ PauseWritten
      BY <1>1, <1>4, <2>2, WriteEffects, SeatsStay
    <2>3. CASE DropStranger
      <3>1. UNCHANGED <<room, owner>>
        BY <2>3 DEF DropStranger
      <3>2. \A q \in Sockets : stage'[q] \in Connected => stage[q] \in Connected
        BY <1>1, <2>3 DEF DropStranger, Connected, TypeOK
      <3>3. QED
        BY <1>5, <3>1, <3>2
    <2>4. CASE Report \/ Resync \/ Playback \/ Transfer \/ Stroke \/ Undo \/ Clear \/ End \/ Gone \/ Empty
      BY <1>1, <1>4, <2>4, TaskEffects, SeatsStay
    <2>5. QED
      BY <1>12, <2>1, <2>2, <2>3, <2>4 DEF Serve
  <1>13. CASE WriteFails
    <2>1. UNCHANGED <<owner, stage>>
      BY <1>13 DEF WriteFails
    <2>2. room'.sockets = room.sockets
      <3>. DEFINE r == [room EXCEPT !.ending = FALSE]
      <3>1. r \in Room /\ r.sockets = room.sockets
        BY <1>1 DEF Room
      <3>2. UNCHANGED room \/ ScheduleEmptyClose(r, FALSE)
        BY <1>13 DEF WriteFails
      <3>. HIDE DEF r
      <3>3. QED
        BY <3>1, <3>2, ScheduleRoom
    <2>3. QED
      BY <1>4, <2>1, <2>2, SeatsStay
  <1>14. CASE TimerFires
    <2>1. room'.sockets = room.sockets /\ UNCHANGED <<owner, stage>>
      BY <1>1, <1>14 DEF TimerFires, Room
    <2>2. QED
      BY <1>4, <2>1, SeatsStay
  <1>15. CASE SweepFinds \/ SweepEnds
    BY <1>5, <1>15 DEF SweepFinds, SweepEnds
  <1>16. CASE SweepDrops
    <2>1. ~db'.active
      BY <1>16, <1>4 DEF SweepDrops, CInv, Swept
    <2>2. QED
      BY <2>1 DEF ConnectedAreSeated
  <1>17. CASE Crash
    <2>1. \A q \in Sockets : stage'[q] \notin Connected
      BY <1>17 DEF Crash, Connected
    <2>2. QED
      BY <2>1 DEF ConnectedAreSeated
  <1>18. QED
    BY <1>3, <1>6, <1>7, <1>8, <1>9, <1>10, <1>11, <1>12, <1>13, <1>14, <1>15, <1>16, <1>17
       DEF Next, Auth

\* As long as the session is active every connected socket has its participant's
\* seat, through reconnects, failed writes, sweeps and crashes.
THEOREM SeatsKept == Spec => []ConnectedAreSeated
<1>1. Init => ConnectedAreSeated
  BY DEF Init, ConnectedAreSeated, Connected
<1>2. QED
  BY <1>1, ControlInit, ControlNext, SeatsStep, PTL DEF Spec

-----------------------------------------------------------------------------
(***************************************************************************)
(* How a room ends.                                                        *)
(***************************************************************************)

\* What a step of the gateway's queue leaves in it.
LEMMA QueueSteps ==
    ASSUME TypeOK, Busy,
           \/ DropStranger \/ Report \/ Resync \/ Playback \/ Transfer \/ Stroke \/ Undo
           \/ Clear \/ End \/ Gone \/ Empty
           \/ PlaybackWritten \/ TransferWritten \/ PauseWritten \/ WriteFails
    PROVE  /\ queue # <<>>
           /\ \/ UNCHANGED queue \/ queue' = Tail(queue)
              \/ queue' = Append(Tail(queue), Job("empty", NoSocket, 0, Manager))
  <1>1. queue # <<>>
    BY DEF DropStranger, Report, Resync, Playback, Transfer, Stroke, Undo, Clear, End, Gone, Empty,
           Turn, PlaybackWritten, TransferWritten, PauseWritten, WriteFails, Commits, Busy
  <1>2. ASSUME NEW r, NEW b, ScheduleEmptyClose(r, b)
        PROVE  \/ queue' = Tail(queue)
               \/ queue' = Append(Tail(queue), Job("empty", NoSocket, 0, Manager))
    BY <1>2 DEF ScheduleEmptyClose
  <1>3. ASSUME NEW before, NEW messages, Departs(before, messages)
        PROVE  \/ queue' = Tail(queue)
               \/ queue' = Append(Tail(queue), Job("empty", NoSocket, 0, Manager))
    BY <1>2, <1>3 DEF Departs
  <1>4. ASSUME NEW kind, NEW v, Await(kind, v) PROVE UNCHANGED queue
    BY <1>4 DEF Await
  <1>5. StartsEnd => UNCHANGED queue
    BY <1>4 DEF StartsEnd
  <1>6. Refuse \/ Done \/ Finished => queue' = Tail(queue)
    BY DEF Refuse, Done, Finished
  <1>7. CASE DropStranger \/ Report \/ Resync \/ Playback \/ Transfer
    BY <1>1, <1>4, <1>6, <1>7 DEF DropStranger, Report, Resync, Playback, Transfer
  <1>8. CASE Stroke \/ Undo \/ Clear \/ End
    BY <1>1, <1>5, <1>6, <1>8 DEF Stroke, Undo, Clear, End
  <1>9. CASE Gone
    BY <1>1, <1>3, <1>4, <1>6, <1>9 DEF Gone
  <1>10. CASE Empty
    BY <1>1, <1>2, <1>5, <1>6, <1>10 DEF Empty
  <1>11. CASE PlaybackWritten \/ TransferWritten
    BY <1>1, <1>6, <1>11 DEF PlaybackWritten, TransferWritten
  <1>12. CASE PauseWritten
    BY <1>1, <1>3, <1>4, <1>6, <1>12 DEF PauseWritten
  <1>13. CASE WriteFails
    BY <1>1, <1>2, <1>13 DEF WriteFails
  <1>14. QED
    BY <1>7, <1>8, <1>9, <1>10, <1>11, <1>12, <1>13

\* A task that starts the end of the room.
LEMMA EndStarts ==
    ASSUME TypeOK, Busy,
           \/ DropStranger \/ Report \/ Resync \/ Playback \/ Transfer \/ Stroke \/ Undo
           \/ Clear \/ End \/ Gone \/ Empty
           \/ PlaybackWritten \/ TransferWritten \/ PauseWritten \/ WriteFails,
           write'.kind = "end"
    PROVE  /\ room'.ending /\ room'.sockets = room.sockets
           /\ UNCHANGED <<queue, owner>>
           /\ ~Occupied(room) \/ (task.kind = "end" /\ from = Manager)
  <1>1. room \in Room
    BY DEF TypeOK
  <1>2. ASSUME NEW kinds, Turn(kinds), UNCHANGED write PROVE FALSE
    BY <1>2 DEF Turn
  <1>3. ASSUME NEW kind \in {"playback", "pause", "transfer"}, NEW v, Await(kind, v) PROVE FALSE
    BY <1>3 DEF Await
  <1>4. write' = NoWrite => FALSE
    BY DEF NoWrite
  <1>5. ASSUME NEW kinds, Turn(kinds), StartsEnd
        PROVE  room'.ending /\ room'.sockets = room.sockets /\ UNCHANGED <<queue, owner>>
    BY <1>1, <1>5 DEF StartsEnd, Await, Turn, Room
  <1>6. CASE End
    BY <1>2, <1>5, <1>6 DEF End, Refuse, Done, Turn
  <1>7. CASE Empty
    BY <1>2, <1>5, <1>7 DEF Empty, Refuse, Done
  <1>8. CASE DropStranger
    BY <1>8 DEF DropStranger, Done
  <1>9. CASE Report \/ Resync \/ Playback \/ Transfer
    BY <1>2, <1>3, <1>9 DEF Report, Resync, Playback, Transfer, Refuse, Done
  <1>10. CASE Stroke \/ Undo \/ Clear \/ Gone
    BY <1>2, <1>3, <1>10 DEF Stroke, Undo, Clear, Gone, Refuse, Done
  <1>11. CASE PlaybackWritten \/ TransferWritten \/ PauseWritten \/ WriteFails
    BY <1>3, <1>4, <1>11 DEF PlaybackWritten, TransferWritten, PauseWritten, WriteFails, Finished
  <1>12. QED
    BY <1>6, <1>7, <1>8, <1>9, <1>10, <1>11

\* What a queue holds after a task is appended, or the first is taken off.
LEMMA QueueElements ==
    ASSUME TypeOK
    PROVE  /\ \A t \in Task : \A i \in 1..Len(Append(queue, t)) :
                 Append(queue, t)[i] = t \/ \E j \in 1..Len(queue) : Append(queue, t)[i] = queue[j]
           /\ queue # <<>> =>
                 /\ \A i \in 1..Len(Tail(queue)) : \E j \in 1..Len(queue) : Tail(queue)[i] = queue[j]
                 /\ \A t \in Task : \A i \in 1..Len(Append(Tail(queue), t)) :
                       \/ Append(Tail(queue), t)[i] = t
                       \/ \E j \in 1..Len(queue) : Append(Tail(queue), t)[i] = queue[j]
  <1>1. ASSUME NEW q \in Seq(Task), NEW t \in Task, NEW i \in 1..Len(Append(q, t))
        PROVE  Append(q, t)[i] = t \/ (i \in 1..Len(q) /\ Append(q, t)[i] = q[i])
    <2>1. Len(q) \in Nat /\ Len(Append(q, t)) = Len(q) + 1
      BY <1>1, AppendProperties, LenProperties
    <2>2. CASE i = Len(q) + 1
      BY <2>1, <2>2, AppendProperties
    <2>3. CASE i # Len(q) + 1
      BY <1>1, <2>1, <2>3, AppendProperties
    <2>4. QED
      BY <2>2, <2>3
  <1>2. queue \in Seq(Task)
    BY DEF TypeOK
  <1>3. ASSUME queue # <<>>, NEW i \in 1..Len(Tail(queue))
        PROVE  \E j \in 1..Len(queue) : Tail(queue)[i] = queue[j]
    <2>1. /\ Len(queue) \in Nat /\ Len(Tail(queue)) = Len(queue) - 1
          /\ Tail(queue)[i] = queue[i + 1]
      BY <1>2, <1>3, HeadTailProperties, LenProperties
    <2>2. i + 1 \in 1..Len(queue)
      BY <2>1
    <2>3. QED
      BY <2>1, <2>2
  <1>4. ASSUME queue # <<>>, NEW t \in Task, NEW i \in 1..Len(Append(Tail(queue), t))
        PROVE  \/ Append(Tail(queue), t)[i] = t
               \/ \E j \in 1..Len(queue) : Append(Tail(queue), t)[i] = queue[j]
    <2>1. Tail(queue) \in Seq(Task)
      BY <1>4, QueueType
    <2>2. QED
      BY <1>1, <1>3, <1>4, <2>1
  <1>5. QED
    BY <1>1, <1>2, <1>3, <1>4

\* Nothing that has been opened becomes new, and its ticket stays its own.
LEMMA OpenedStep ==
    ASSUME CInv, Next, NEW s \in Sockets, stage[s] # "new"
    PROVE  stage'[s] # "new" /\ owner'[s] = owner[s]
  <1>. USE DEF memory, client
  <1>1. TypeOK /\ Busy /\ Agrees
    BY DEF CInv
  <1>2. ASSUME NEW q \in Sockets,
               (\E m \in Opens[q] : AuthLoad(q, m)) \/ Auth(q) \/ Disconnect(q)
        PROVE  stage'[s] # "new" /\ owner'[s] = owner[s]
    BY <1>1, <1>2 DEF AuthLoad, Auth, AuthCreate, AuthJoin, AuthPublish, AuthFails, Disconnect, Reach, TypeOK
  <1>3. ASSUME NEW q \in Sockets, Receive(q) \/ Sends(q)
        PROVE  stage'[s] # "new" /\ owner'[s] = owner[s]
    <2>1. CASE Sends(q)
      <3>1. \E kind, n, m : Command(q, kind, n, m)
        BY <2>1 DEF Sends
      <3>2. QED
        BY <3>1 DEF Command
    <2>2. QED
      BY <1>3, <2>1 DEF Receive
  <1>4. CASE Serve
    <2>1. CASE DropStranger \/ EndWritten
      BY <1>1, <2>1 DEF DropStranger, EndWritten, Commits, TypeOK
    <2>2. CASE PlaybackWritten \/ TransferWritten \/ PauseWritten
      BY <1>1, <2>2, WriteEffects
    <2>3. CASE Report \/ Resync \/ Playback \/ Transfer \/ Stroke \/ Undo \/ Clear \/ End \/ Gone \/ Empty
      BY <1>1, <2>3, TaskEffects
    <2>4. QED
      BY <1>4, <2>1, <2>2, <2>3 DEF Serve
  <1>5. CASE WriteFails \/ TimerFires \/ SweepFinds \/ SweepEnds
    BY <1>5 DEF WriteFails, TimerFires, SweepFinds, SweepEnds
  <1>6. CASE SweepDrops \/ Crash
    BY <1>6 DEF SweepDrops, Crash
  <1>7. QED
    BY <1>2, <1>3, <1>4, <1>5, <1>6 DEF Next

\* The queue holds what it held, and tasks of opened connections.
OnlyOpened ==
    \A i \in 1..Len(queue') : \/ queue'[i].kind = "empty"
                              \/ \E j \in 1..Len(queue) : queue'[i] = queue[j]
                              \/ stage'[queue'[i].by] # "new"

LEMMA SendersStep ==
    ASSUME CInv, Senders, Next
    PROVE  Senders'
  <1>. USE DEF memory, client
  <1>1. TypeOK /\ Busy
    BY DEF CInv
  <1>2. OnlyOpened => Senders'
    <2>. SUFFICES ASSUME OnlyOpened, NEW i \in 1..Len(queue'), queue'[i].kind # "empty"
                  PROVE  stage'[queue'[i].by] # "new"
      BY DEF Senders
    <2>1. CASE \E j \in 1..Len(queue) : queue'[i] = queue[j]
      <3>1. PICK j \in 1..Len(queue) : queue'[i] = queue[j]
        BY <2>1
      <3>2. queue[j] \in Task
        BY <1>1, <3>1, ElementOfSeq DEF TypeOK
      <3>3. queue[j].by \in Sockets /\ stage[queue[j].by] # "new"
        BY <3>1, <3>2 DEF Senders, Task
      <3>4. QED
        BY <3>1, <3>3, OpenedStep
    <2>2. QED
      BY <2>1 DEF OnlyOpened
  <1>. SUFFICES OnlyOpened
    BY <1>2
  <1>3. UNCHANGED queue => OnlyOpened
    BY DEF OnlyOpened
  <1>4. queue' = <<>> => OnlyOpened
    BY DEF OnlyOpened
  <1>5. ASSUME NEW s \in Sockets, NEW kind \in Commands \cup {"gone"}, NEW n \in Nat, NEW m \in Members,
               stage'[s] # "new",
               UNCHANGED queue \/ queue' = Append(queue, Job(kind, s, n, m))
        PROVE  OnlyOpened
    <2>. DEFINE t == Job(kind, s, n, m)
    <2>1. t \in Task /\ t.by = s
      BY MessageTypes DEF Job
    <2>. HIDE DEF t
    <2>2. UNCHANGED queue \/ queue' = Append(queue, t)
      BY <1>5 DEF t
    <2>3. QED
      <3>1. CASE queue' = Append(queue, t)
        <4>1. \A i \in 1..Len(queue') : queue'[i] = t \/ \E j \in 1..Len(queue) : queue'[i] = queue[j]
          BY <1>1, <2>1, <3>1, QueueElements
        <4>2. QED
          BY <1>5, <2>1, <4>1 DEF OnlyOpened
      <3>2. QED
        BY <1>3, <2>2, <3>1
  <1>6. ASSUME NEW s \in Sockets, (\E m \in Opens[s] : AuthLoad(s, m)) \/ Auth(s) PROVE OnlyOpened
    BY <1>3, <1>6 DEF AuthLoad, Auth, AuthCreate, AuthJoin, AuthPublish, AuthFails
  <1>7. ASSUME NEW s \in Sockets, Disconnect(s) PROVE OnlyOpened
    <2>1. stage'[s] = "closed"
      BY <1>1, <1>7 DEF Disconnect, TypeOK
    <2>2. UNCHANGED queue \/ queue' = Append(queue, Job("gone", s, 0, Manager))
      BY <1>7 DEF Disconnect
    <2>3. QED
      BY <1>5, <2>1, <2>2, LiveAssumption
  <1>8. ASSUME NEW s \in Sockets, Receive(s) PROVE OnlyOpened
    <2>1. stage'[s] # "new"
      BY <1>8 DEF Receive, Connected
    <2>2. \/ UNCHANGED queue \/ queue' = Append(queue, Job("ready", s, 0, Manager))
          \/ queue' = Append(queue, Job("resync", s, 0, Manager))
      BY <1>8 DEF Receive, ReceiveSnapshot, ReceiveDelta, Enqueued
    <2>3. QED
      BY <1>5, <2>1, <2>2, LiveAssumption DEF Commands
  <1>9. ASSUME NEW s \in Sockets, Sends(s) PROVE OnlyOpened
    <2>1. \E kind \in Commands, n \in Nat, m \in Members : Command(s, kind, n, m)
      <3>1. /\ screen[s].view.epoch \in Nat /\ screen[s].view.canvas \in Nat
            /\ screen[s].view.present \subseteq Members
            /\ Manager \in Members
        BY <1>1, LiveAssumption DEF TypeOK, View
      <3>2. QED
        BY <1>9, <3>1 DEF Sends, Commands
    <2>2. PICK kind \in Commands, n \in Nat, m \in Members : Command(s, kind, n, m)
      BY <2>1
    <2>3. stage'[s] # "new"
      BY <1>9, <2>2 DEF Sends, Command, Connected
    <2>4. UNCHANGED queue \/ queue' = Append(queue, Job(kind, s, n, m))
      BY <2>2 DEF Command, Enqueued
    <2>5. QED
      BY <1>5, <2>3, <2>4
  <1>10. CASE TimerFires
    <2>. DEFINE t == Job("empty", NoSocket, 0, Manager)
    <2>1. t \in Task /\ t.kind = "empty" /\ queue' = Append(queue, t)
      BY <1>10, MessageTypes, LiveAssumption DEF Job, TimerFires
    <2>. HIDE DEF t
    <2>2. QED
      BY <1>1, <2>1, QueueElements DEF OnlyOpened
  <1>11. CASE Serve \/ WriteFails
    <2>1. CASE EndWritten
      BY <1>4, <2>1 DEF EndWritten
    <2>2. CASE ~EndWritten
      <3>. DEFINE t == Job("empty", NoSocket, 0, Manager)
      <3>1. t \in Task /\ t.kind = "empty"
        BY MessageTypes, LiveAssumption DEF Job
      <3>2. /\ queue # <<>>
            /\ UNCHANGED queue \/ queue' = Tail(queue) \/ queue' = Append(Tail(queue), t)
        BY <1>1, <1>11, <2>2, QueueSteps DEF Serve
      <3>. HIDE DEF t
      <3>3. QED
        <4>1. CASE queue' = Append(Tail(queue), t)
          <5>1. \A i \in 1..Len(queue') : queue'[i] = t \/ \E j \in 1..Len(queue) : queue'[i] = queue[j]
            BY <1>1, <3>1, <3>2, <4>1, QueueElements
          <5>2. QED
            BY <3>1, <5>1 DEF OnlyOpened
        <4>2. CASE queue' = Tail(queue)
          <5>1. \A i \in 1..Len(queue') : \E j \in 1..Len(queue) : queue'[i] = queue[j]
            BY <1>1, <3>2, <4>2, QueueElements
          <5>2. QED
            BY <5>1 DEF OnlyOpened
        <4>3. QED
          BY <1>3, <3>2, <4>1, <4>2
    <2>3. QED
      BY <2>1, <2>2
  <1>12. CASE SweepFinds \/ SweepEnds
    BY <1>3, <1>12 DEF SweepFinds, SweepEnds
  <1>13. CASE SweepDrops \/ Crash
    BY <1>4, <1>13 DEF SweepDrops, Crash
  <1>14. QED
    BY <1>6, <1>7, <1>8, <1>9, <1>10, <1>11, <1>12, <1>13 DEF Next

\* The end that is under way keeps its reason.
LEMMA EndingKept ==
    ASSUME CInv, Senders, Ending, Next, UNCHANGED write,
           UNCHANGED queue \/ \E t \in Task : queue' = Append(queue, t),
           room.ending => room'.ending,
           room.ending => \A m \in Members : room'.sockets[m] # NoSocket => room.sockets[m] # NoSocket
    PROVE  Ending'
  <1>. SUFFICES ASSUME write.kind = "end"
                PROVE  room'.ending /\ (~Occupied(room') \/ (task.kind = "end" /\ from = Manager)')
    BY DEF Ending
  <1>1. TypeOK /\ Busy
    BY DEF CInv
  <1>2. queue # <<>> /\ room.ending
    BY <1>1 DEF Busy, Ending
  <1>3. task' = task
    <2>1. ASSUME NEW t \in Task PROVE Head(Append(queue, t)) = Head(queue)
      BY <1>1, <1>2, AppendProperties DEF TypeOK
    <2>2. QED
      BY <2>1 DEF task
  <1>4. CASE ~Occupied(room)
    BY <1>2, <1>4 DEF Occupied
  <1>5. CASE task.kind = "end" /\ from = Manager
    <2>1. task = queue[1] /\ 1 \in 1..Len(queue)
      BY <1>1, <1>2, HeadTailProperties, LenProperties DEF task, TypeOK
    <2>2. task.by \in Sockets
      BY <1>2, <1>5, <1>1, QueueType DEF Commands
    <2>3. stage[task.by] # "new"
      BY <1>5, <2>1 DEF Senders
    <2>4. owner'[task.by] = owner[task.by]
      BY <2>2, <2>3, OpenedStep
    <2>5. from' = from
      BY <1>3, <2>4 DEF from
    <2>6. QED
      BY <1>2, <1>3, <1>5, <2>5
  <1>6. QED
    BY <1>2, <1>4, <1>5 DEF Ending

\* What a browser sends goes behind the tasks the gateway has.
LEMMA BrowserQueue ==
    ASSUME TypeOK, NEW s \in Sockets, Receive(s) \/ Sends(s)
    PROVE  /\ UNCHANGED <<room, write>>
           /\ UNCHANGED queue \/ \E t \in Task : queue' = Append(queue, t)
  <1>. USE DEF memory, client
  <1>1. CASE Receive(s)
    <2>1. \/ UNCHANGED queue \/ queue' = Append(queue, Job("ready", s, 0, Manager))
          \/ queue' = Append(queue, Job("resync", s, 0, Manager))
      BY <1>1 DEF Receive, ReceiveSnapshot, ReceiveDelta, Enqueued
    <2>2. QED
      BY <1>1, <2>1, MessageTypes, LiveAssumption DEF Commands, Receive
  <1>2. CASE Sends(s)
    <2>1. /\ screen[s].view.epoch \in Nat /\ screen[s].view.canvas \in Nat
          /\ screen[s].view.present \subseteq Members
          /\ Manager \in Members
      BY LiveAssumption DEF TypeOK, View
    <2>2. PICK kind \in Commands, n \in Nat, m \in Members : Command(s, kind, n, m)
      BY <1>2, <2>1 DEF Sends, Commands
    <2>3. Job(kind, s, n, m) \in Task
      BY MessageTypes
    <2>4. QED
      BY <2>2, <2>3 DEF Command, Enqueued
  <1>3. QED
    BY <1>1, <1>2

LEMMA EndingStep ==
    ASSUME CInv, Senders, Ending, Next
    PROVE  Ending'
  <1>. USE DEF memory, client
  <1>1. TypeOK /\ Busy /\ room \in Room /\ room.sockets \in [Members -> Sockets \cup {NoSocket}]
    BY RoomSteps DEF CInv, TypeOK
  <1>2. UNCHANGED <<room, queue, write>> => Ending'
    BY EndingKept
  <1>3. write' = NoWrite => Ending'
    BY DEF NoWrite, Ending
  <1>4. ASSUME NEW s \in Sockets, NEW m \in Opens[s], AuthLoad(s, m) PROVE Ending'
    BY <1>2, <1>4 DEF AuthLoad
  <1>5. ASSUME NEW s \in Sockets, AuthCreate(s) \/ AuthJoin(s) PROVE Ending'
    <2>1. ~room.ending /\ UNCHANGED <<queue, write>>
      BY <1>5 DEF AuthCreate, AuthJoin
    <2>2. QED
      BY <2>1, EndingKept
  <1>6. ASSUME NEW s \in Sockets, AuthPublish(s) \/ AuthFails(s) PROVE Ending'
    BY <1>2, <1>6 DEF AuthPublish, AuthFails
  <1>7. ASSUME NEW s \in Sockets, Disconnect(s) PROVE Ending'
    <2>1. Job("gone", s, 0, Manager) \in Task
      BY MessageTypes, LiveAssumption
    <2>2. UNCHANGED write /\ (UNCHANGED queue \/ \E t \in Task : queue' = Append(queue, t))
      BY <1>7, <2>1 DEF Disconnect
    <2>3. CASE room' = [room EXCEPT !.sockets[owner[s]] = NoSocket]
      <3>1. room'.ending = room.ending /\ room'.sockets = [room.sockets EXCEPT ![owner[s]] = NoSocket]
        BY <1>1, <2>3 DEF Room
      <3>2. \A m \in Members : room'.sockets[m] # NoSocket => room.sockets[m] # NoSocket
        BY <1>1, <3>1
      <3>3. QED
        BY <2>2, <3>1, <3>2, EndingKept
    <2>4. CASE UNCHANGED room
      BY <2>2, <2>4, EndingKept
    <2>5. QED
      BY <1>7, <2>3, <2>4 DEF Disconnect
  <1>8. ASSUME NEW s \in Sockets, Receive(s) \/ Sends(s) PROVE Ending'
    <2>1. UNCHANGED <<room, write>> /\ (UNCHANGED queue \/ \E t \in Task : queue' = Append(queue, t))
      BY <1>1, <1>8, BrowserQueue
    <2>2. QED
      BY <2>1, EndingKept
  <1>9. CASE TimerFires
    <2>1. Job("empty", NoSocket, 0, Manager) \in Task
      BY MessageTypes, LiveAssumption
    <2>2. UNCHANGED write /\ \E t \in Task : queue' = Append(queue, t)
      BY <1>9, <2>1 DEF TimerFires
    <2>3. room'.ending = room.ending /\ room'.sockets = room.sockets
      BY <1>1, <1>9 DEF TimerFires, Room
    <2>4. QED
      BY <2>2, <2>3, EndingKept
  <1>10. CASE Serve
    <2>1. CASE EndWritten
      BY <1>3, <2>1 DEF EndWritten
    <2>2. CASE ~EndWritten
      <3>. SUFFICES ASSUME write'.kind = "end" PROVE Ending'
        BY DEF Ending
      <3>1. /\ room'.ending /\ room'.sockets = room.sockets /\ UNCHANGED <<queue, owner>>
            /\ ~Occupied(room) \/ (task.kind = "end" /\ from = Manager)
        BY <1>1, <1>10, <2>2, EndStarts DEF Serve
      <3>2. task' = task /\ from' = from /\ (Occupied(room)' => Occupied(room))
        BY <3>1 DEF task, from, Occupied
      <3>3. QED
        BY <3>1, <3>2 DEF Ending
    <2>3. QED
      BY <2>1, <2>2
  <1>11. CASE WriteFails
    BY <1>3, <1>11 DEF WriteFails
  <1>12. CASE SweepFinds \/ SweepEnds
    BY <1>2, <1>12 DEF SweepFinds, SweepEnds
  <1>13. CASE SweepDrops \/ Crash
    BY <1>3, <1>13 DEF SweepDrops, Crash
  <1>14. QED
    BY <1>4, <1>5, <1>6, <1>7, <1>8, <1>9, <1>10, <1>11, <1>12, <1>13 DEF Next, Auth

\* What an end needs: who sent it, and that nobody comes in behind it.
OInv == CInv /\ Senders /\ Ending

\* A session with somebody in its room ends only by its manager's command, or
\* when the sweep had found the room empty.
THEOREM RoomsClose == Spec => OnlyEmptyRoomsClose
<1>1. Init => OInv
  BY ControlInit DEF Init, OInv, Senders, Ending, NoWrite
<1>2. OInv /\ [Next]_vars => OInv'
  <2>1. OInv /\ UNCHANGED vars => OInv'
    BY ControlNext DEF OInv, vars, memory, client, Senders, Ending, Occupied, task, from
  <2>2. QED
    BY <2>1, ControlNext, SendersStep, EndingStep DEF OInv
<1>3. OInv /\ [Next]_vars =>
        (db.active /\ ~db'.active /\ sweep' = sweep =>
            ~Occupied(room) \/ (task.kind = "end" /\ from = Manager))
  <2>. SUFFICES ASSUME OInv, Next, db.active, ~db'.active, sweep' = sweep
                PROVE  ~Occupied(room) \/ (task.kind = "end" /\ from = Manager)
    BY DEF vars
  <2>. USE DEF memory, client
  <2>1. TypeOK /\ Busy /\ Agrees
    BY DEF OInv, CInv
  <2>2. SUFFICES write.kind = "end"
    BY DEF OInv, Ending
  <2>3. CASE Serve
    <3>1. CASE EndWritten
      BY <3>1 DEF EndWritten, Commits
    <3>2. CASE PlaybackWritten \/ TransferWritten \/ PauseWritten
      BY <2>1, <3>2, WriteEffects
    <3>3. CASE DropStranger
      BY <3>3 DEF DropStranger
    <3>4. CASE Report \/ Resync \/ Playback \/ Transfer \/ Stroke \/ Undo \/ Clear \/ End \/ Gone \/ Empty
      BY <2>1, <3>4, TaskEffects
    <3>5. QED
      BY <2>3, <3>1, <3>2, <3>3, <3>4 DEF Serve
  <2>4. CASE Crash
    <3>1. PICK row \in {db, IF write.kind = "none" THEN db ELSE Written} :
             db' = [row EXCEPT !.playing = FALSE]
      BY <2>4 DEF Crash
    <3>2. row \in [active : BOOLEAN, presenter : Members, epoch : Nat, playing : BOOLEAN,
                   revision : Int]
      BY <2>1, <3>1, WrittenType DEF TypeOK
    <3>3. row.active = FALSE
      BY <3>1, <3>2
    <3>4. QED
      BY <2>1, <3>1, <3>3, WrittenRows
  <2>5. CASE SweepEnds
    BY <2>5 DEF SweepEnds
  <2>6. CASE WriteFails \/ TimerFires \/ SweepFinds \/ SweepDrops
    BY <2>6 DEF WriteFails, TimerFires, SweepFinds, SweepDrops
  <2>7. ASSUME NEW s \in Sockets, Sends(s) PROVE FALSE
    <3>1. \E kind, n, m : Command(s, kind, n, m)
      BY <2>7 DEF Sends
    <3>2. QED
      BY <3>1 DEF Command
  <2>8. ASSUME NEW s \in Sockets,
               (\E m \in Opens[s] : AuthLoad(s, m)) \/ Auth(s) \/ Disconnect(s) \/ Receive(s)
        PROVE  FALSE
    BY <2>8 DEF AuthLoad, Auth, AuthCreate, AuthJoin, AuthPublish, AuthFails, Disconnect, Receive
  <2>9. QED
    BY <2>3, <2>4, <2>5, <2>6, <2>7, <2>8 DEF Next
<1>4. QED
  BY <1>1, <1>2, <1>3, PTL DEF Spec, OnlyEmptyRoomsClose

-----------------------------------------------------------------------------
(***************************************************************************)
(* Playing without a presenter.                                            *)
(***************************************************************************)

\* Whoever has a seat or starts playback is on the list, and so is the presenter
\* of a room that plays.
Listed ==
    /\ \A m \in Members : room.sockets[m] # NoSocket => m \in now.present
    /\ write.kind = "playback" => from \in now.present
    /\ db.active /\ now.playing => now.presenter \in now.present

LEMMA PresentSteps ==
    ASSUME NEW v \in View
    PROVE  /\ Bumped(v).present = v.present /\ Wiped(v).present = v.present
           /\ Wiped(Bumped(v)).present = v.present
           /\ \A m : /\ Enters(v, m).present = v.present \cup {m}
                     /\ Leaves(v, m).present = v.present \ {m}
                     /\ \A kind : Drawing(kind, v, m).present = v.present
  <1>1. Bumped(v).present = v.present /\ Wiped(v).present = v.present /\ Bumped(v) \in View
    BY ViewSteps DEF Bumped, Wiped, View
  <1>2. Wiped(Bumped(v)).present = v.present
    BY <1>1 DEF Wiped, View
  <1>3. ASSUME NEW m
        PROVE  Enters(v, m).present = v.present \cup {m} /\ Leaves(v, m).present = v.present \ {m}
    BY <1>1 DEF Enters, Leaves, View
  <1>4. ASSUME NEW m, NEW kind PROVE Drawing(kind, v, m).present = v.present
    BY DEF Drawing, View
  <1>5. QED
    BY <1>1, <1>2, <1>3, <1>4

\* A task takes nobody off the list but a participant who is gone, and then the
\* room does not play for that participant.
LEMMA TaskLists ==
    ASSUME TypeOK, Busy,
           Report \/ Resync \/ Playback \/ Transfer \/ Stroke \/ Undo \/ Clear \/ End \/ Gone \/ Empty
    PROVE  \/ now'.present = now.present
           \/ /\ room.sockets[from] = NoSocket /\ now'.present = now.present \ {from}
              /\ now.playing => now.presenter # from
  <1>1. /\ room \in Room /\ now \in View /\ now = room.snapshot /\ now' = room'.snapshot
    BY RoomSteps DEF TypeOK, now
  <1>2. UNCHANGED room => now' = now
    BY <1>1
  <1>3. ASSUME NEW v \in View, Show(v) PROVE now' = v
    BY <1>1, <1>3, ShowRoom
  <1>4. StartsEnd => now' = now
    BY <1>1 DEF StartsEnd, Room
  <1>5. CASE Report
    BY <1>1, <1>2, <1>3, <1>5, PresentSteps, ViewSteps DEF Report
  <1>6. CASE Resync \/ Playback \/ Transfer
    BY <1>2, <1>6 DEF Resync, Playback, Transfer, Refuse
  <1>7. CASE Stroke \/ Undo
    <2>1. now' = Drawing("stroke", now, from) \/ now' = Drawing("remove", now, from) \/ now' = now
      <3>1. ASSUME NEW kind, Redraw(kind) PROVE now' = Drawing(kind, now, from)
        BY <1>1, <3>1 DEF Redraw, Room
      <3>2. QED
        BY <1>2, <1>7, <3>1 DEF Stroke, Undo, Refuse
    <2>2. /\ Drawing("stroke", now, from).present = now.present
          /\ Drawing("remove", now, from).present = now.present
      BY <1>1 DEF Drawing, View
    <2>3. QED
      BY <2>1, <2>2
  <1>8. CASE Clear
    <2>1. Wiped(Bumped(now)) \in View
      BY <1>1, ViewSteps
    <2>2. QED
      BY <1>1, <1>2, <1>3, <1>8, <2>1, PresentSteps DEF Clear, Refuse
  <1>9. CASE End
    BY <1>2, <1>4, <1>9 DEF End, Refuse
  <1>10. CASE Empty
    <2>1. ScheduleEmptyClose(room, FALSE) => now' = now
      BY <1>1, ScheduleRoom
    <2>2. QED
      BY <1>2, <1>4, <1>10, <2>1 DEF Empty, Refuse
  <1>11. CASE Gone
    <2>1. from \in Members /\ task.kind = "gone"
      BY <1>11, TurnFacts DEF Gone
    <2>2. CASE Departs(room, <<>>) /\ room.sockets[from] = NoSocket /\ ~Stalls
      <3>1. now' = Leaves(now, from)
        BY <1>1, <2>1, <2>2, DepartsRoom
      <3>2. QED
        BY <1>1, <2>1, <2>2, <3>1, PresentSteps DEF Stalls
    <2>3. QED
      BY <1>2, <1>11, <2>2 DEF Gone, Refuse
  <1>12. QED
    BY <1>5, <1>6, <1>7, <1>8, <1>9, <1>10, <1>11

\* So does a write; and only playback of a participant on the list is behind a
\* room that plays.
LEMMA WriteLists ==
    ASSUME TypeOK, Busy, Agrees, PlaybackWritten \/ TransferWritten \/ PauseWritten
    PROVE  \/ UNCHANGED <<room, db>>
           \/ /\ \/ now'.present = now.present
                 \/ room.sockets[from] = NoSocket /\ now'.present = now.present \ {from}
              /\ db'.active /\ now'.playing =>
                    /\ write.kind = "playback" /\ now'.presenter = from
                    /\ now'.present = now.present
  <1>0. /\ room \in Room /\ now \in View /\ now = room.snapshot /\ now' = room'.snapshot
    BY RoomSteps DEF TypeOK, now
  <1>1. /\ write.kind \in {"playback", "transfer", "pause"} /\ db' = Written
    BY DEF PlaybackWritten, TransferWritten, PauseWritten, Commits
  <1>2. /\ room.loaded /\ queue # <<>>
        /\ task.to \in Members /\ task.stamp \in Nat /\ write.next \in Int
    BY <1>1, QueueType DEF Busy, TypeOK
  <1>3. /\ now'.presenter = db'.presenter /\ db'.active = db.active
        /\ db'.active => now'.playing = db'.playing
    BY WriteEffects DEF Agrees
  <1>4. ~Matches => db' = db
    BY <1>1, WrittenRows
  <1>5. CASE PlaybackWritten
    <2>1. write.kind = "playback"
      BY <1>5 DEF PlaybackWritten, Commits
    <2>. DEFINE b == (task.kind = "play")
                v == [now EXCEPT !.playing = b, !.revision = write.next]
    <2>2. v \in View /\ v.present = now.present
      <3>1. b \in BOOLEAN
        OBVIOUS
      <3>. HIDE DEF b
      <3>2. QED
        BY <1>0, <1>2, <3>1, ViewSteps DEF View
    <2>3. /\ Matches => ShowAssigned(v) \/ ShowAssigned(Wiped(v))
          /\ ~Matches => UNCHANGED room
      BY <1>5 DEF PlaybackWritten
    <2>. HIDE DEF v
    <2>4. Wiped(v) \in View /\ Wiped(v).present = now.present
      BY <2>2, PresentSteps, ViewSteps
    <2>5. Matches => now'.present = now.present
      BY <1>0, <2>2, <2>3, <2>4, ShowRoom
    <2>6. Matches => db.presenter = from
      BY <2>1 DEF Matches
    <2>7. db'.presenter = db.presenter
      BY <1>1, <2>1, WrittenRows
    <2>8. QED
      BY <1>3, <1>4, <2>1, <2>3, <2>5, <2>6, <2>7
  <1>6. CASE TransferWritten
    <2>. DEFINE e == task.stamp + 1
                v == [now EXCEPT !.presenter = task.to, !.epoch = e, !.playing = FALSE,
                                 !.revision = write.next]
    <2>1. v \in View /\ v.present = now.present /\ v.playing = FALSE
      <3>1. e \in Nat
        BY <1>2
      <3>. HIDE DEF e
      <3>2. QED
        BY <1>0, <1>2, <3>1, ViewSteps DEF View
    <2>2. /\ Matches => ShowAssigned(v)
          /\ ~Matches => UNCHANGED room
      BY <1>6 DEF TransferWritten
    <2>. HIDE DEF v
    <2>3. Matches => now' = v
      BY <1>0, <2>1, <2>2, ShowRoom
    <2>4. QED
      BY <1>4, <2>1, <2>2, <2>3
  <1>7. CASE PauseWritten
    <2>. DEFINE w == [now EXCEPT !.playing = FALSE, !.revision = write.next]
                r == IF Matches THEN Assigned(w) ELSE room
                v == r.snapshot
                paused == IF Matches THEN Snapshot(v) ELSE <<>>
    <2>1. w \in View /\ w.present = now.present
      BY <1>0, <1>2, ViewSteps DEF View
    <2>2. r \in Room /\ v \in View /\ v.present = now.present
      <3>. HIDE DEF w
      <3>1. QED
        BY <1>0, <2>1, AssignedRoom
    <2>3. db'.active => db'.playing = FALSE
      <3>1. write.kind = "pause"
        BY <1>7 DEF PauseWritten, Commits
      <3>2. QED
        BY <1>1, <1>3, <3>1, WrittenRows
    <2>4. \/ room' = r
          \/ room' = [r EXCEPT !.snapshot = Bumped(v)]
          \/ task.kind = "gone" /\ room.sockets[from] = NoSocket /\ Departs(r, paused)
      BY <1>7 DEF PauseWritten, r, w
    <2>. HIDE DEF r, w, paused
    <2>5. CASE room' = r
      BY <1>0, <1>3, <2>2, <2>3, <2>5
    <2>6. CASE room' = [r EXCEPT !.snapshot = Bumped(v)]
      <3>1. now' = Bumped(v)
        BY <1>0, <2>2, <2>6 DEF Room
      <3>2. QED
        BY <1>3, <2>2, <2>3, <3>1, PresentSteps
    <2>7. CASE task.kind = "gone" /\ room.sockets[from] = NoSocket /\ Departs(r, paused)
      <3>1. from \in Members
        BY <1>2, <2>7, QueueType
      <3>2. now' = Leaves(v, from)
        BY <1>0, <2>2, <2>7, <3>1, DepartsRoom
      <3>3. now'.present = now.present \ {from}
        BY <2>2, <3>2, PresentSteps
      <3>4. QED
        BY <1>3, <2>3, <2>7, <3>3
    <2>8. QED
      BY <2>4, <2>5, <2>6, <2>7
  <1>8. QED
    BY <1>5, <1>6, <1>7

\* Who starts playback is the sender of the running task, whatever comes behind it.
LEMMA FromKept ==
    ASSUME CInv, Senders, Next, write.kind = "playback",
           UNCHANGED queue \/ \E t \in Task : queue' = Append(queue, t)
    PROVE  from' = from
  <1>0. TypeOK /\ Busy
    BY DEF CInv
  <1>1. queue # <<>> /\ task.kind \in {"play", "pause", "seek"}
    BY <1>0 DEF Busy
  <1>2. task' = task
    <2>1. ASSUME NEW t \in Task PROVE Head(Append(queue, t)) = Head(queue)
      BY <1>0, <1>1, AppendProperties DEF TypeOK
    <2>2. QED
      BY <2>1 DEF task
  <1>3. task = queue[1] /\ 1 \in 1..Len(queue)
    BY <1>0, <1>1, HeadTailProperties, LenProperties DEF task, TypeOK
  <1>4. task.by \in Sockets
    BY <1>0, <1>1, QueueType DEF Commands
  <1>5. stage[task.by] # "new"
    BY <1>1, <1>3 DEF Senders
  <1>6. owner'[task.by] = owner[task.by]
    BY <1>4, <1>5, OpenedStep
  <1>7. QED
    BY <1>2, <1>6 DEF from

\* A task that starts to write playback has its sender in a seat.
LEMMA PlaybackStarts ==
    ASSUME TypeOK, Busy,
           \/ DropStranger \/ Report \/ Resync \/ Playback \/ Transfer \/ Stroke \/ Undo
           \/ Clear \/ End \/ Gone \/ Empty
           \/ PlaybackWritten \/ TransferWritten \/ PauseWritten \/ EndWritten \/ WriteFails,
           write'.kind = "playback"
    PROVE  /\ room.sockets[from] # NoSocket /\ from \in Members
           /\ UNCHANGED <<room, queue, owner>>
  <1>1. ASSUME NEW kinds, Turn(kinds), UNCHANGED write PROVE FALSE
    BY <1>1 DEF Turn
  <1>2. ASSUME NEW kind \in {"end", "pause", "transfer"}, NEW v, Await(kind, v) PROVE FALSE
    BY <1>2 DEF Await
  <1>3. write' = NoWrite => FALSE
    BY DEF NoWrite
  <1>4. CASE Playback
    <2>1. Turn({"play", "pause", "seek"})
      BY <1>4 DEF Playback
    <2>2. UNCHANGED <<room, owner>> /\ Await("playback", now)
      BY <1>1, <1>4, <2>1 DEF Playback, Refuse, Done, Turn
    <2>3. Joined(task.by) /\ task.by \in Sockets /\ from \in Members
      BY <2>1, TurnFacts DEF Turn, Commands
    <2>4. QED
      BY <2>2, <2>3 DEF Await, Joined, Seated, from, Sockets, NoSocket
  <1>5. CASE DropStranger
    BY <1>5 DEF DropStranger, Done
  <1>6. CASE Report \/ Resync \/ Transfer
    BY <1>1, <1>2, <1>6 DEF Report, Resync, Transfer, Refuse, Done
  <1>7. CASE Stroke \/ Undo \/ Clear \/ Gone
    BY <1>1, <1>2, <1>7 DEF Stroke, Undo, Clear, Gone, Refuse, Done
  <1>8. CASE End \/ Empty
    BY <1>1, <1>2, <1>8 DEF End, Empty, StartsEnd, Refuse, Done
  <1>9. CASE PlaybackWritten \/ TransferWritten \/ PauseWritten \/ EndWritten \/ WriteFails
    BY <1>2, <1>3, <1>9 DEF PlaybackWritten, TransferWritten, PauseWritten, EndWritten, WriteFails, Finished
  <1>10. QED
    BY <1>4, <1>5, <1>6, <1>7, <1>8, <1>9

\* A step that takes nobody off the list.
LEMMA ListedKept ==
    ASSUME Listed, UNCHANGED write, write.kind = "playback" => from' = from,
           now.present \subseteq now'.present,
           now'.presenter = now.presenter, now'.playing = now.playing, db'.active => db.active,
           \A m \in Members : room'.sockets[m] # NoSocket =>
                                  room.sockets[m] # NoSocket \/ m \in now'.present
    PROVE  Listed'
  BY DEF Listed

LEMMA ListedStep ==
    ASSUME CInv, Senders, Listed, Next
    PROVE  Listed'
  <1>. USE DEF memory, client
  <1>1. /\ TypeOK /\ Busy /\ Unloaded /\ Agrees /\ LoadedHasRoom
        /\ room \in Room /\ now \in View /\ now = room.snapshot /\ now' = room'.snapshot
        /\ room.sockets \in [Members -> Sockets \cup {NoSocket}]
    BY RoomSteps DEF CInv, TypeOK, now
  <1>2. db'.active => db.active
    BY ActiveStep
  <1>3. ASSUME UNCHANGED <<room, write>>,
               UNCHANGED queue \/ \E t \in Task : queue' = Append(queue, t)
        PROVE  Listed'
    <2>1. write.kind = "playback" => from' = from
      BY <1>3, FromKept
    <2>2. now' = now
      BY <1>1, <1>3
    <2>3. QED
      BY <1>2, <1>3, <2>1, <2>2, ListedKept
  <1>4. ASSUME room' = NoRoom, write' = NoWrite PROVE Listed'
    BY <1>1, <1>4 DEF Listed, NoRoom, NoWrite, Blank
  <1>5. ASSUME NEW s \in Sockets, NEW m \in Opens[s], AuthLoad(s, m) PROVE Listed'
    BY <1>3, <1>5 DEF AuthLoad
  <1>6. ASSUME NEW s \in Sockets, AuthCreate(s) PROVE Listed'
    <2>1. CASE room.loaded
      BY <1>3, <1>6, <2>1 DEF AuthCreate
    <2>2. CASE ~room.loaded
      <3>1. UNCHANGED write /\ write.kind # "playback"
        BY <1>1, <1>6, <2>2 DEF AuthCreate, Busy
      <3>2. now'.playing = FALSE /\ room'.sockets = NoRoom.sockets
        BY <1>1, <1>6, <2>2 DEF AuthCreate, NoRoom, Blank
      <3>3. QED
        BY <3>1, <3>2 DEF Listed, NoRoom
    <2>3. QED
      BY <2>1, <2>2
  <1>7. ASSUME NEW s \in Sockets, AuthJoin(s) PROVE Listed'
    <2>1. room.loaded /\ UNCHANGED <<write, queue>> /\ owner[s] \in Members
      BY <1>1, <1>7 DEF AuthJoin, LoadedHasRoom, TypeOK
    <2>2. now' = Enters(now, owner[s]) /\ room'.sockets = [room.sockets EXCEPT ![owner[s]] = s]
      BY <1>1, <1>7 DEF AuthJoin, Room
    <2>3. now'.present = now.present \cup {owner[s]} /\ SameControl(now', now)
      BY <1>1, <2>2, PresentSteps, ControlSteps
    <2>4. write.kind = "playback" => from' = from
      BY <2>1, FromKept
    <2>5. \A m \in Members : room'.sockets[m] # NoSocket =>
                                 room.sockets[m] # NoSocket \/ m \in now'.present
      BY <1>1, <2>1, <2>2, <2>3
    <2>6. QED
      BY <1>2, <2>1, <2>3, <2>4, <2>5, ListedKept DEF SameControl
  <1>8. ASSUME NEW s \in Sockets, AuthPublish(s) \/ AuthFails(s) PROVE Listed'
    BY <1>3, <1>8 DEF AuthPublish, AuthFails
  <1>9. ASSUME NEW s \in Sockets, Disconnect(s) PROVE Listed'
    <2>1. Job("gone", s, 0, Manager) \in Task
      BY MessageTypes, LiveAssumption
    <2>2. UNCHANGED write /\ (UNCHANGED queue \/ \E t \in Task : queue' = Append(queue, t))
      BY <1>9, <2>1 DEF Disconnect
    <2>3. CASE room' = [room EXCEPT !.sockets[owner[s]] = NoSocket]
      <3>1. now' = now /\ room'.sockets = [room.sockets EXCEPT ![owner[s]] = NoSocket]
        BY <1>1, <2>3 DEF Room
      <3>2. \A m \in Members : room'.sockets[m] # NoSocket => room.sockets[m] # NoSocket
        BY <1>1, <3>1
      <3>3. write.kind = "playback" => from' = from
        BY <2>2, FromKept
      <3>4. QED
        BY <1>2, <2>2, <3>1, <3>2, <3>3, ListedKept
    <2>4. CASE UNCHANGED room
      BY <1>3, <2>2, <2>4
    <2>5. QED
      BY <1>9, <2>3, <2>4 DEF Disconnect
  <1>10. ASSUME NEW s \in Sockets, Receive(s) \/ Sends(s) PROVE Listed'
    <2>1. UNCHANGED <<room, write>> /\ (UNCHANGED queue \/ \E t \in Task : queue' = Append(queue, t))
      BY <1>1, <1>10, BrowserQueue
    <2>2. QED
      BY <1>3, <2>1
  <1>11. CASE TimerFires
    <2>1. Job("empty", NoSocket, 0, Manager) \in Task
      BY MessageTypes, LiveAssumption
    <2>2. UNCHANGED write /\ \E t \in Task : queue' = Append(queue, t)
      BY <1>11, <2>1 DEF TimerFires
    <2>3. now' = now /\ room'.sockets = room.sockets
      BY <1>1, <1>11 DEF TimerFires, Room
    <2>4. write.kind = "playback" => from' = from
      BY <2>2, FromKept
    <2>5. QED
      BY <1>2, <2>2, <2>3, <2>4, ListedKept
  <1>12. CASE Serve
    <2>1. CASE EndWritten
      BY <1>4, <2>1 DEF EndWritten
    <2>2. CASE DropStranger
      <3>1. UNCHANGED <<room, write, db>> /\ write.kind = "none"
        BY <2>2 DEF DropStranger, Done
      <3>2. QED
        BY <1>1, <3>1 DEF Listed
    <2>3. CASE Report \/ Resync \/ Playback \/ Transfer \/ Stroke \/ Undo \/ Clear \/ End \/ Gone \/ Empty
      <3>1. room'.sockets = room.sockets /\ SameControl(now', now) /\ UNCHANGED <<db, owner>>
        BY <1>1, <2>3, TaskEffects
      <3>2. write'.kind = "playback" => from' \in now'.present
        <4>. SUFFICES ASSUME write'.kind = "playback" PROVE from' \in now'.present
          OBVIOUS
        <4>1. room.sockets[from] # NoSocket /\ from \in Members /\ UNCHANGED <<room, queue, owner>>
          BY <1>1, <2>3, PlaybackStarts
        <4>2. from' = from /\ now' = now
          BY <1>1, <4>1 DEF from, task
        <4>3. QED
          BY <4>1, <4>2 DEF Listed
      <3>3. CASE now'.present = now.present
        BY <3>1, <3>2, <3>3 DEF Listed, SameControl
      <3>4. CASE /\ room.sockets[from] = NoSocket /\ now'.present = now.present \ {from}
                 /\ now.playing => now.presenter # from
        BY <3>1, <3>2, <3>4 DEF Listed, SameControl
      <3>5. QED
        BY <1>1, <2>3, <3>3, <3>4, TaskLists
    <2>4. CASE PlaybackWritten \/ TransferWritten \/ PauseWritten
      <3>1. room'.sockets = room.sockets
        BY <1>1, <2>4, WriteEffects
      <3>2. write'.kind # "playback"
        BY <2>4 DEF PlaybackWritten, TransferWritten, PauseWritten, Finished, NoWrite, Await
      <3>3. CASE UNCHANGED <<room, db>>
        BY <1>1, <3>2, <3>3 DEF Listed
      <3>4. CASE /\ \/ now'.present = now.present
                    \/ room.sockets[from] = NoSocket /\ now'.present = now.present \ {from}
                 /\ db'.active /\ now'.playing =>
                       /\ write.kind = "playback" /\ now'.presenter = from
                       /\ now'.present = now.present
        BY <3>1, <3>2, <3>4 DEF Listed
      <3>5. QED
        BY <1>1, <2>4, <3>3, <3>4, WriteLists
    <2>5. QED
      BY <1>12, <2>1, <2>2, <2>3, <2>4 DEF Serve
  <1>13. CASE WriteFails
    <2>1. UNCHANGED db /\ write' = NoWrite
      BY <1>13 DEF WriteFails
    <2>2. room'.sockets = room.sockets /\ now' = now
      <3>. DEFINE r == [room EXCEPT !.ending = FALSE]
      <3>1. r \in Room /\ r.sockets = room.sockets /\ r.snapshot = now
        BY <1>1 DEF Room
      <3>2. UNCHANGED room \/ ScheduleEmptyClose(r, FALSE)
        BY <1>13 DEF WriteFails
      <3>. HIDE DEF r
      <3>3. QED
        BY <1>1, <3>1, <3>2, ScheduleRoom
    <2>3. QED
      BY <2>1, <2>2 DEF Listed, NoWrite
  <1>14. CASE SweepFinds \/ SweepEnds
    BY <1>3, <1>14 DEF SweepFinds, SweepEnds
  <1>15. CASE SweepDrops \/ Crash
    BY <1>4, <1>15 DEF SweepDrops, Crash
  <1>16. QED
    BY <1>5, <1>6, <1>7, <1>8, <1>9, <1>10, <1>11, <1>12, <1>13, <1>14, <1>15 DEF Next, Auth

\* An active room plays without its presenter only until the presenter's departure
\* has its turn, or while it keeps one it has lost on its list.
THEOREM LossPauses == Spec => []PresenterLossPauses
<1>. DEFINE LInv == CInv /\ Senders /\ Listed
<1>1. Init => LInv
  BY ControlInit DEF Init, Senders, Listed, NoWrite, NoRoom, Blank, now
<1>2. LInv /\ [Next]_vars => LInv'
  <2>1. LInv /\ UNCHANGED vars => LInv'
    BY ControlNext DEF vars, memory, client, Senders, Listed, now, task, from
  <2>2. QED
    BY <2>1, ControlNext, SendersStep, ListedStep
<1>3. LInv => PresenterLossPauses
  <2>1. TypeOK => now.presenter \in Members
    BY RoomSteps, ViewSteps DEF TypeOK, now
  <2>2. QED
    BY <2>1 DEF CInv, Listed, PresenterLossPauses, Forgotten
<1>. HIDE DEF LInv
<1>4. QED
  BY <1>1, <1>2, <1>3, PTL DEF Spec

===============================================================================
