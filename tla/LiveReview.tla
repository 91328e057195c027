------------------------------ MODULE LiveReview ------------------------------
(***************************************************************************)
(* One live review session: its row in the database, the room the gateway  *)
(* process keeps in memory, the sockets of its participants and what their *)
(* browsers show.                                                          *)
(*                                                                         *)
(* What participants send runs through one queue per room.  A task that    *)
(* writes to the database computes the room's next revision before the     *)
(* write and assigns it afterwards; a socket that authenticates in between *)
(* raises the revision from outside the queue.  A browser drops what does  *)
(* not raise its revision, so every update depends on a later one.         *)
(*                                                                         *)
(* Left out: positions, rates, pings and the shapes of strokes.  Playback  *)
(* is playing or paused, a canvas is its epoch and what each has drawn.    *)
(***************************************************************************)
EXTENDS Integers, Sequences

CONSTANTS
    Members,        \* LiveReviewParticipant ids
    Manager,        \* the participant who started the room
    MaxSockets,     \* bound: connections opened in all
    Opens,          \* who may open each of them
    MaxEvents       \* bound: commands, failed writes, sweeps and crashes in all

ASSUME LiveAssumption ==
    /\ Manager \in Members
    /\ MaxSockets \in Nat /\ MaxEvents \in Nat
    /\ Opens \in [1..MaxSockets -> SUBSET Members]

VARIABLES
    db,         \* the LiveReviewSession row
    room,       \* rooms.get(sessionId)
    queue,      \* room.queue; its head is the task that runs
    write,      \* the write the running task awaits
    recent,     \* recentlyEndedRooms.has(sessionId)
    owner,      \* per socket: the participant of its ticket
    stage,      \* per socket: how far authSocket has come
    inbox,      \* per socket: messages on their way to the browser
    screen,     \* per socket: snapshotRef and awaitingResyncRef
    sweep,      \* the sweep of inactive sessions
    events

memory == <<room, queue, write, recent>>
client == <<inbox, screen>>
vars == <<db, memory, owner, stage, client, sweep, events>>

Sockets == 1..MaxSockets
NoSocket == 0

Joining == {"reading", "loaded"}
Connected == {"joining", "open"}

Commands == {"ready", "buffering", "resync", "play", "pause", "seek", "transfer",
             "stroke", "undo", "clear", "end"}

View == [revision : Int, epoch : Nat, presenter : Members, playing : BOOLEAN,
         canvas : Nat, strokes : [Members -> Nat], present : SUBSET Members]
Room == [loaded : BOOLEAN, snapshot : View, sockets : [Members -> Sockets \cup {NoSocket}],
         ending : BOOLEAN, timer : BOOLEAN, visited : BOOLEAN, rewound : BOOLEAN]
Task == [kind : Commands \cup {"gone"}, by : Sockets, stamp : Nat, to : Members]
           \cup [kind : {"empty"}, by : {NoSocket}, stamp : Nat, to : Members]
Message == [kind : {"snapshot"}, view : View]
              \cup [kind : {"stroke", "remove"}, by : Members, base : Int, canvas : Nat]

\* No snapshot yet, and no room in memory.
Blank == [revision |-> -1, epoch |-> 0, presenter |-> Manager, playing |-> FALSE,
          canvas |-> 0, strokes |-> [m \in Members |-> 0], present |-> {}]
NoRoom == [loaded |-> FALSE, snapshot |-> Blank, sockets |-> [m \in Members |-> NoSocket],
           ending |-> FALSE, timer |-> FALSE, visited |-> FALSE, rewound |-> FALSE]
NoWrite == [kind |-> "none", next |-> 0]
BlankScreen == [view |-> Blank, awaiting |-> FALSE]

TypeOK ==
    /\ db \in [active : BOOLEAN, presenter : Members, epoch : Nat, playing : BOOLEAN,
               revision : Int]
    /\ room \in Room
    /\ queue \in Seq(Task)
    /\ write \in [kind : {"none", "playback", "pause", "transfer", "end"}, next : Int]
    /\ recent \in BOOLEAN
    /\ owner \in [Sockets -> Members]
    /\ stage \in [Sockets -> Joining \cup Connected \cup {"new", "closed"}]
    /\ inbox \in [Sockets -> Seq(Message)]
    /\ screen \in [Sockets -> [view : View, awaiting : BOOLEAN]]
    /\ sweep \in {"idle", "found", "ended"}
    /\ events \in 0..MaxEvents

\* startLiveRoom has committed; nobody has connected yet.
Init ==
    /\ db = [active |-> TRUE, presenter |-> Manager, epoch |-> 1, playing |-> FALSE,
             revision |-> 0]
    /\ room = NoRoom /\ queue = <<>> /\ write = NoWrite /\ recent = FALSE
    /\ owner = [s \in Sockets |-> Manager]
    /\ stage = [s \in Sockets |-> "new"]
    /\ inbox = [s \in Sockets |-> <<>>]
    /\ screen = [s \in Sockets |-> BlankScreen]
    /\ sweep = "idle"
    /\ events = 0

now == room.snapshot
Seated(r, s) == r.sockets[owner[s]] = s
Joined(s) == Seated(room, s)
Occupied(r) == \E m \in Members : r.sockets[m] # NoSocket
PendingJoin == \E s \in Sockets : stage[s] \in Joining

Event == events < MaxEvents /\ events' = events + 1

Job(kind, s, stamp, to) == [kind |-> kind, by |-> s, stamp |-> stamp, to |-> to]
Enqueued(task) == IF room.loaded THEN Append(queue, task) ELSE queue

Bumped(v) == [v EXCEPT !.revision = @ + 1]
Enters(v, m) == [Bumped(v) EXCEPT !.present = @ \cup {m}]
Leaves(v, m) == [Bumped(v) EXCEPT !.present = @ \ {m}]
Snapshot(v) == <<[kind |-> "snapshot", view |-> v]>>

\* publish and publishDrawing: to every socket of the room.
Tell(r, messages) ==
    inbox' = [s \in Sockets |-> IF Seated(r, s) THEN inbox[s] \o messages ELSE inbox[s]]

\* A write's revision is assigned.  "rewound" and "visited" are kept for the
\* properties: the room has taken a revision back, somebody has been in it.
Assigned(v) == [room EXCEPT !.snapshot = v,
                            !.rewound = @ \/ v.revision < now.revision]
ShowAssigned(v) == room' = Assigned(v) /\ Tell(room, Snapshot(v))

\* The room takes a snapshot's value and publishes it.
Show(v) == room' = [room EXCEPT !.snapshot = v] /\ Tell(room, Snapshot(v))

-----------------------------------------------------------------------------
(***************************************************************************)
(* authSocket: ticket and permission, the room, the seat, the broadcast.   *)
(* Only the broadcast comes after an await that the seat has preceded.     *)
(***************************************************************************)

Reach(s, here, there) == stage[s] = here /\ stage' = [stage EXCEPT ![s] = there]

\* A ticket of the active session is redeemed, the permission granted; loadRoom
\* finds the room in memory or asks the database for the session.
AuthLoad(s, m) ==
    /\ db.active /\ ~recent
    /\ \A q \in 1..(s - 1) : stage[q] # "new"
    /\ owner' = [owner EXCEPT ![s] = m]
    /\ \/ room.loaded /\ ~room.ending /\ Reach(s, "new", "loaded")
       \/ ~room.loaded /\ Reach(s, "new", "reading")
    /\ UNCHANGED <<db, memory, client, sweep, events>>

\* The session was active when it was read: loadRoom takes the room that
\* somebody else loaded since, or builds it from the row.
AuthCreate(s) ==
    /\ ~recent /\ ~room.ending
    /\ Reach(s, "reading", "loaded")
    /\ room' = IF room.loaded THEN room
               ELSE [NoRoom EXCEPT !.loaded = TRUE,
                        !.snapshot = [Blank EXCEPT !.revision = db.revision, !.epoch = db.epoch,
                                                   !.presenter = db.presenter]]
    /\ UNCHANGED <<db, queue, write, recent, owner, client, sweep, events>>

\* The participant takes the seat, from whoever holds it for them.
AuthJoin(s) ==
    LET m == owner[s]
        previous == room.sockets[m]
    IN  /\ stage[s] = "loaded" /\ ~room.ending
        /\ stage' = [q \in Sockets |-> IF q = s THEN "joining"
                                       ELSE IF q = previous THEN "closed" ELSE stage[q]]
        /\ room' = [room EXCEPT !.timer = FALSE, !.visited = TRUE, !.sockets[m] = s,
                                !.snapshot = Enters(now, m)]
        /\ inbox' = [q \in Sockets |-> IF q = previous THEN <<>> ELSE inbox[q]]
        /\ screen' = [q \in Sockets |-> IF q = previous THEN BlankScreen ELSE screen[q]]
        /\ UNCHANGED <<db, queue, write, recent, owner, sweep, events>>

\* lastSeenAt is written.
AuthPublish(s) ==
    /\ Reach(s, "joining", "open")
    /\ Tell(room, Snapshot(room.snapshot))
    /\ UNCHANGED <<db, memory, owner, screen, sweep, events>>

\* A query fails, the room has ended, or the socket has closed meanwhile: its
\* auth timer fired, or the browser gave up.
AuthFails(s) ==
    /\ stage[s] \in Joining
    /\ stage' = [stage EXCEPT ![s] = "closed"]
    /\ UNCHANGED <<db, memory, owner, client, sweep, events>>

Auth(s) == AuthCreate(s) \/ AuthJoin(s) \/ AuthPublish(s) \/ AuthFails(s)

\* The tab closes, the heartbeat stops, a permission check fails or is late, the
\* write behind the seat fails, or the participant leaves.
Disconnect(s) ==
    /\ stage[s] \in Connected
    /\ stage' = [stage EXCEPT ![s] = "closed"]
    /\ IF Joined(s)
       THEN /\ room' = [room EXCEPT !.sockets[owner[s]] = NoSocket]
            /\ queue' = Append(queue, Job("gone", s, 0, Manager))
       ELSE UNCHANGED <<room, queue>>
    /\ inbox' = [inbox EXCEPT ![s] = <<>>]
    /\ screen' = [screen EXCEPT ![s] = BlankScreen]
    /\ UNCHANGED <<db, write, recent, owner, sweep, events>>

-----------------------------------------------------------------------------
(***************************************************************************)
(* The queue.  A task runs up to its first write without interruption;     *)
(* the write and what follows it up to the next one are a step of their    *)
(* own.                                                                    *)
(***************************************************************************)
task == Head(queue)
from == owner[task.by]

\* A task's turn; what a participant sent is dropped unless it comes from the
\* connection that has the seat.
Turn(kinds) ==
    /\ room.loaded /\ queue # <<>> /\ write.kind = "none"
    /\ task.kind \in kinds
    /\ task.kind \in Commands => Joined(task.by)
    /\ UNCHANGED <<db, recent, owner, stage, screen, sweep, events>>

Done == queue' = Tail(queue) /\ UNCHANGED write
Await(kind, v) ==
    /\ write' = [kind |-> kind, next |-> v.revision + 1]
    /\ UNCHANGED queue
Refuse == Done /\ UNCHANGED <<room, inbox>>

\* handle closes a connection that has no seat.
DropStranger ==
    /\ room.loaded /\ queue # <<>> /\ write.kind = "none"
    /\ task.kind \in Commands /\ ~Joined(task.by)
    /\ Done
    /\ stage' = [stage EXCEPT ![task.by] = "closed"]
    /\ inbox' = [inbox EXCEPT ![task.by] = <<>>]
    /\ screen' = [screen EXCEPT ![task.by] = BlankScreen]
    /\ UNCHANGED <<db, room, recent, owner, sweep, events>>

\* Broken form: only buffering pauses the room.
StallsBuffering == task.kind = "buffering" /\ now.presenter = from /\ now.playing

\* Losing the presenter, or its buffering, pauses the room.
Stalls == task.kind \in {"buffering", "gone"} /\ now.presenter = from /\ now.playing

\* Broken form: a status is published under the revision the room has.
ReportSilently ==
    /\ Turn({"ready", "buffering"})
    /\ IF Stalls THEN Await("pause", now) /\ UNCHANGED <<room, inbox>>
       ELSE Done /\ Show(now)

Report ==
    /\ Turn({"ready", "buffering"})
    /\ IF Stalls THEN Await("pause", now) /\ UNCHANGED <<room, inbox>>
       ELSE Done /\ Show(Bumped(now))

Resync ==
    /\ Turn({"resync"})
    /\ inbox' = [inbox EXCEPT ![task.by] = @ \o Snapshot(now)]
    /\ Done /\ UNCHANGED room

Playback ==
    /\ Turn({"play", "pause", "seek"})
    /\ IF now.presenter = from /\ task.stamp = now.epoch
       THEN Await("playback", now) /\ UNCHANGED <<room, inbox>>
       ELSE Refuse

\* A target may also lose its permission.
Transfer ==
    /\ Turn({"transfer"})
    /\ \/ /\ from = Manager /\ task.stamp = now.epoch /\ room.sockets[task.to] # NoSocket
          /\ Await(IF now.playing THEN "pause" ELSE "transfer", now)
          /\ UNCHANGED <<room, inbox>>
       \/ Refuse

\* publishDrawing: one participant's strokes, and what the browsers do to them.
Drawing(kind, v, m) ==
    [v EXCEPT !.revision = @ + 1, !.strokes[m] = IF kind = "stroke" THEN @ + 1 ELSE @ - 1]
Delta(kind, m, v) == <<[kind |-> kind, by |-> m, base |-> v.revision, canvas |-> v.canvas]>>
Redraw(kind) ==
    /\ room' = [room EXCEPT !.snapshot = Drawing(kind, now, from)]
    /\ Tell(room, Delta(kind, from, now))

Stroke ==
    /\ Turn({"stroke"})
    /\ IF ~now.playing /\ task.stamp = now.canvas THEN Done /\ Redraw("stroke") ELSE Refuse

Undo ==
    /\ Turn({"undo"})
    /\ IF ~now.playing /\ task.stamp = now.canvas /\ now.strokes[from] > 0
       THEN Done /\ Redraw("remove") ELSE Refuse

Wiped(v) == [v EXCEPT !.strokes = Blank.strokes, !.canvas = @ + 1]

Clear ==
    /\ Turn({"clear"})
    /\ IF from = Manager /\ task.stamp = now.canvas
       THEN Done /\ Show(Wiped(Bumped(now)))
       ELSE Refuse

\* endRoom, from its start to its write.
StartsEnd ==
    /\ room' = [room EXCEPT !.ending = TRUE, !.timer = FALSE]
    /\ Await("end", now)
    /\ UNCHANGED inbox

End ==
    /\ Turn({"end"})
    /\ IF from = Manager THEN StartsEnd ELSE Refuse

\* scheduleEmptyClose, called at the end of a task.
ScheduleEmptyClose(r, intentional) ==
    LET empty == ~Occupied(r) /\ ~r.ending
        soon == intentional /\ ~PendingJoin
    IN  /\ room' = IF empty THEN [r EXCEPT !.timer = ~soon] ELSE r
        /\ queue' = IF empty /\ soon
                    THEN Append(Tail(queue), Job("empty", NoSocket, 0, Manager))
                    ELSE Tail(queue)

\* The close handler's task once the room is not playing: the participant leaves
\* the list.  Whether it left or lost its connection is chosen here.
Departs(before, messages) ==
    LET r == [before EXCEPT !.snapshot = Leaves(before.snapshot, from)]
    IN  /\ Tell(r, messages \o Snapshot(r.snapshot))
        /\ \E left \in BOOLEAN : ScheduleEmptyClose(r, left)

Gone ==
    /\ Turn({"gone"})
    /\ IF room.sockets[from] # NoSocket \/ room.ending THEN Refuse
       ELSE IF Stalls THEN Await("pause", now) /\ UNCHANGED <<room, inbox>>
       ELSE Departs(room, <<>>) /\ UNCHANGED write

\* Broken form: a pending join calls the end off.
EmptyOnce ==
    /\ Turn({"empty"})
    /\ IF Occupied(room) \/ room.ending \/ PendingJoin THEN Refuse ELSE StartsEnd

Empty ==
    /\ Turn({"empty"})
    /\ IF Occupied(room) \/ room.ending THEN Refuse
       ELSE IF PendingJoin
       THEN ScheduleEmptyClose(room, FALSE) /\ UNCHANGED <<write, inbox>>
       ELSE StartsEnd

TimerFires ==
    /\ room.timer
    /\ room' = [room EXCEPT !.timer = FALSE]
    /\ queue' = Append(queue, Job("empty", NoSocket, 0, Manager))
    /\ UNCHANGED <<db, write, recent, owner, stage, client, sweep, events>>

-----------------------------------------------------------------------------
(***************************************************************************)
(* The writes, and the task's code behind them.                            *)
(***************************************************************************)

\* The rows an update's where clause matches.
Matches ==
    /\ db.active
    /\ write.kind = "playback" => db.presenter = from /\ db.epoch = task.stamp
    /\ write.kind = "transfer" => db.epoch = task.stamp

\* The session's row behind the update.
Written ==
    IF ~Matches THEN db
    ELSE CASE write.kind = "playback" ->
                [db EXCEPT !.playing = (task.kind = "play"), !.revision = write.next]
           [] write.kind = "pause" ->
                [db EXCEPT !.playing = FALSE, !.revision = write.next]
           [] write.kind = "transfer" ->
                [db EXCEPT !.presenter = task.to, !.epoch = @ + 1, !.playing = FALSE,
                           !.revision = write.next]
           [] write.kind = "end" ->
                [db EXCEPT !.active = FALSE, !.playing = FALSE, !.revision = write.next]

Commits(kind) ==
    /\ write.kind = kind
    /\ db' = Written
    /\ UNCHANGED <<owner, sweep, events>>

\* The answer is that nothing matched: STALE_CONTROL.
Finished == queue' = Tail(queue) /\ write' = NoWrite
Kept == UNCHANGED <<recent, stage, screen>>

PlaybackWritten ==
    /\ Commits("playback") /\ Finished /\ Kept
    /\ IF Matches
       THEN LET v == [now EXCEPT !.playing = (task.kind = "play"), !.revision = write.next]
            IN  ShowAssigned(IF task.kind = "pause" THEN v ELSE Wiped(v))
       ELSE UNCHANGED <<room, inbox>>

TransferWritten ==
    /\ Commits("transfer") /\ Finished /\ Kept
    /\ IF Matches
       THEN ShowAssigned([now EXCEPT !.presenter = task.to, !.epoch = task.stamp + 1,
                                     !.playing = FALSE, !.revision = write.next])
       ELSE UNCHANGED <<room, inbox>>

\* pause returns to the task that called it; a participant who is back is not
\* taken off the list.
PauseWritten ==
    LET r == IF Matches THEN Assigned([now EXCEPT !.playing = FALSE, !.revision = write.next])
             ELSE room
        v == r.snapshot
        paused == IF Matches THEN Snapshot(v) ELSE <<>>
        back == task.kind = "gone" /\ room.sockets[from] # NoSocket
    IN  /\ Commits("pause") /\ Kept
        /\ \/ /\ task.kind = "transfer" \/ back
              /\ room' = r /\ Tell(room, paused)
              /\ IF back THEN Finished ELSE Await("transfer", v)
           \/ /\ task.kind = "buffering" /\ Finished
              /\ room' = [r EXCEPT !.snapshot = Bumped(v)]
              /\ Tell(room, paused \o Snapshot(Bumped(v)))
           \/ /\ task.kind = "gone" /\ ~back
              /\ Departs(r, paused) /\ write' = NoWrite

\* Everyone is told and disconnected; whoever still authenticates finds out.
EndWritten ==
    /\ Commits("end")
    /\ room' = NoRoom /\ queue' = <<>> /\ write' = NoWrite /\ recent' = TRUE
    /\ stage' = [s \in Sockets |-> IF Joined(s) \/ stage[s] = "loaded" THEN "closed"
                                   ELSE stage[s]]
    /\ inbox' = [s \in Sockets |-> IF Joined(s) THEN <<>> ELSE inbox[s]]
    /\ screen' = [s \in Sockets |-> IF Joined(s) THEN BlankScreen ELSE screen[s]]

\* The update throws: the queue logs it and goes on; endRoom undoes its mark.
WriteFails ==
    /\ write.kind # "none" /\ Event
    /\ write' = NoWrite
    /\ IF write.kind = "end" THEN ScheduleEmptyClose([room EXCEPT !.ending = FALSE], FALSE)
       ELSE queue' = Tail(queue) /\ UNCHANGED room
    /\ UNCHANGED <<db, recent, owner, stage, client, sweep>>

\* The gateway's work on the queue, one step at a time.
Serve ==
    \/ DropStranger \/ Report \/ Resync \/ Playback \/ Transfer \/ Stroke \/ Undo \/ Clear
    \/ End \/ Gone \/ Empty
    \/ PlaybackWritten \/ TransferWritten \/ PauseWritten \/ EndWritten

-----------------------------------------------------------------------------
(***************************************************************************)
(* The browser: use-live-review.                                           *)
(***************************************************************************)

\* shouldAcceptSnapshot, or the answer to a resync with the same revision.
Accepts(s, v) ==
    LET current == screen[s].view
    IN  \/ v.epoch >= current.epoch /\ v.revision > current.revision
        \/ /\ screen[s].awaiting /\ current # Blank
           /\ v.revision = current.revision
           /\ v.epoch >= current.epoch /\ v.canvas >= current.canvas

\* The first snapshot of a connection is answered with the status "ready".
ReceiveSnapshot(s, message) ==
    /\ message.kind = "snapshot"
    /\ IF Accepts(s, message.view)
       THEN /\ screen' = [screen EXCEPT ![s] = [view |-> message.view, awaiting |-> FALSE]]
            /\ queue' = IF screen[s].view = Blank
                        THEN Enqueued(Job("ready", s, 0, Manager)) ELSE queue
       ELSE UNCHANGED <<screen, queue>>

\* applyDrawingDelta.
Stale(v, delta) == v # Blank /\ delta.base < v.revision
Fits(v, delta) ==
    /\ v # Blank
    /\ delta.base = v.revision /\ delta.canvas = v.canvas
    /\ delta.kind = "remove" => v.strokes[delta.by] > 0

ReceiveDelta(s, message) ==
    LET v == screen[s].view
    IN  /\ message.kind # "snapshot"
        /\ \/ /\ screen[s].awaiting \/ Stale(v, message)
              /\ UNCHANGED <<screen, queue>>
           \/ /\ ~screen[s].awaiting /\ Fits(v, message)
              /\ screen' = [screen EXCEPT ![s].view = Drawing(message.kind, v, message.by)]
              /\ UNCHANGED queue
           \/ /\ ~screen[s].awaiting /\ ~Stale(v, message) /\ ~Fits(v, message)
              /\ screen' = [screen EXCEPT ![s].awaiting = TRUE]
              /\ queue' = Enqueued(Job("resync", s, 0, Manager))

Receive(s) ==
    /\ stage[s] \in Connected /\ inbox[s] # <<>>
    /\ ReceiveSnapshot(s, Head(inbox[s])) \/ ReceiveDelta(s, Head(inbox[s]))
    /\ inbox' = [inbox EXCEPT ![s] = Tail(@)]
    /\ UNCHANGED <<db, room, write, recent, owner, stage, sweep, events>>

\* A command carries the epoch of the snapshot it was chosen on.  Buffering is
\* reported by everyone and at any time; here by a presenter who plays, to the
\* room the rest is one more "ready".
Command(s, kind, stamp, to) ==
    /\ Event
    /\ queue' = Enqueued(Job(kind, s, stamp, to))
    /\ UNCHANGED <<db, room, write, recent, owner, stage, client, sweep>>

Sends(s) ==
    LET v == screen[s].view
        m == owner[s]
    IN  /\ stage[s] \in Connected /\ v # Blank
        /\ \/ v.presenter = m /\ \E kind \in {"play", "pause", "seek"} :
                                     Command(s, kind, v.epoch, Manager)
           \/ m = Manager /\ \E to \in v.present \ {v.presenter} : Command(s, "transfer", v.epoch, to)
           \/ ~v.playing /\ \E kind \in {"stroke", "undo"} : Command(s, kind, v.canvas, Manager)
           \/ m = Manager /\ Command(s, "clear", v.canvas, Manager)
           \/ m = Manager /\ Command(s, "end", 0, Manager)
           \/ v.presenter = m /\ v.playing /\ Command(s, "buffering", 0, Manager)

-----------------------------------------------------------------------------
(***************************************************************************)
(* The sweep of sessions nobody used for 30 minutes, and the crash.        *)
(***************************************************************************)

\* No socket was in the room when the sweep refreshed lastActiveAt.
SweepFinds ==
    /\ sweep = "idle" /\ db.active /\ ~Occupied(room) /\ Event
    /\ sweep' = "found"
    /\ UNCHANGED <<db, memory, owner, stage, client>>

SweepEnds ==
    /\ sweep = "found"
    /\ sweep' = "ended"
    /\ db' = IF db.active THEN [db EXCEPT !.active = FALSE, !.playing = FALSE] ELSE db
    /\ UNCHANGED <<memory, owner, stage, client, events>>

\* rooms.delete: the sockets stay open, the room's queue reaches nobody.
SweepDrops ==
    /\ sweep = "ended"
    /\ sweep' = "idle"
    /\ room' = NoRoom /\ queue' = <<>> /\ write' = NoWrite
    /\ stage' = [s \in Sockets |-> IF stage[s] = "loaded" THEN "closed" ELSE stage[s]]
    /\ UNCHANGED <<db, recent, owner, client, events>>

\* Broken form: the gateway starts again without pausing the sessions.
CrashPlaysOn ==
    /\ Event
    /\ db' \in {db, IF write.kind = "none" THEN db ELSE Written}
    /\ room' = NoRoom /\ queue' = <<>> /\ write' = NoWrite /\ recent' = FALSE
    /\ stage' = [s \in Sockets |-> IF stage[s] = "new" THEN "new" ELSE "closed"]
    /\ inbox' = [s \in Sockets |-> <<>>]
    /\ screen' = [s \in Sockets |-> BlankScreen]
    /\ sweep' = "idle"
    /\ UNCHANGED owner

\* A write under way may have reached the database.  The gateway starts again
\* with every session paused.
Crash ==
    /\ Event
    /\ \E row \in {db, IF write.kind = "none" THEN db ELSE Written} :
          db' = [row EXCEPT !.playing = FALSE]
    /\ room' = NoRoom /\ queue' = <<>> /\ write' = NoWrite /\ recent' = FALSE
    /\ stage' = [s \in Sockets |-> IF stage[s] = "new" THEN "new" ELSE "closed"]
    /\ inbox' = [s \in Sockets |-> <<>>]
    /\ screen' = [s \in Sockets |-> BlankScreen]
    /\ sweep' = "idle"
    /\ UNCHANGED owner

Next ==
    \/ \E s \in Sockets : (\E m \in Opens[s] : AuthLoad(s, m)) \/ Auth(s) \/ Disconnect(s) \/ Receive(s) \/ Sends(s)
    \/ Serve \/ WriteFails \/ TimerFires
    \/ SweepFinds \/ SweepEnds \/ SweepDrops \/ Crash

\* The event loop runs what is ready, timers fire, sockets deliver, and a join
\* that hangs is cut off.  Nothing makes participants stay or come back, and the
\* 30 minutes of the sweep need not pass.
Fairness ==
    /\ WF_vars(Serve) /\ WF_vars(TimerFires)
    /\ \A s \in Sockets : WF_vars(Auth(s)) /\ WF_vars(Receive(s))

Spec == Init /\ [][Next]_vars /\ Fairness

-----------------------------------------------------------------------------
(***************************************************************************)
(* Properties.                                                             *)
(***************************************************************************)

\* While no write is under way the room and the row of an active session agree
\* on presenter, control epoch and playback, whatever failed, joined or was
\* swept in between: otherwise STALE_CONTROL would answer every later command.
ControlAgrees ==
    db.active /\ room.loaded /\ write.kind = "none" =>
        /\ now.presenter = db.presenter
        /\ now.epoch = db.epoch
        /\ now.playing = db.playing

\* A control epoch has one presenter: a browser, however late, that is in the
\* row's epoch names the row's presenter, and none is ahead of the row.
Names(v) == v.epoch <= db.epoch /\ (v.epoch = db.epoch => v.presenter = db.presenter)
EpochNamesPresenter ==
    \A s \in Sockets :
        /\ Names(screen[s].view)
        /\ \A i \in 1..Len(inbox[s]) : inbox[s][i].kind = "snapshot" => Names(inbox[s][i].view)

\* As long as the session is active a connected socket has its participant's
\* seat in the room: no reconnect, crash, sweep or ending leaves one outside.
ConnectedAreSeated ==
    db.active => \A s \in Sockets : stage[s] \in Connected => Joined(s)

\* A session with somebody in its room ends only by its manager's command, or
\* when the sweep had found the room empty.
OnlyEmptyRoomsClose ==
    [][db.active /\ ~db'.active /\ sweep' = sweep =>
          ~Occupied(room) \/ (task.kind = "end" /\ from = Manager)]_vars

\* Whatever joins, fails or is dropped, every browser in the room comes to show
\* what the room holds, unless a write took the room's revision back below what
\* joins in between had made it: the browsers drop what comes next.
ViewsCatchUp ==
    []<>(room.rewound \/ \A s \in Sockets : Joined(s) => screen[s].view = now)

\* Departures that were lost because their pause failed: the participant stays on
\* the list, the room plays on and nothing is scheduled for an empty room.
Leaving(m) ==
    \E i \in 1..Len(queue) : queue[i].kind = "gone" /\ owner[queue[i].by] = m
Forgotten == {m \in now.present : room.sockets[m] = NoSocket /\ ~Leaving(m)}

\* An active room plays without its presenter only until the presenter's departure has its
\* turn in the queue: a seat changes hands, a write ends and a join comes at any time.
PresenterLossPauses ==
    db.active /\ now.playing =>
        \/ room.sockets[now.presenter] # NoSocket
        \/ Leaving(now.presenter)
        \/ now.presenter \in Forgotten

\* A room that everyone has left is taken up again or ends, without waiting for
\* the 30-minute sweep.
EmptyRoomsEnd ==
    room.visited /\ ~Occupied(room) ~> ~room.loaded \/ Occupied(room) \/ Forgotten # {}

\* The promise without that exception, as the documentation makes it: an empty
\* room ends, or is taken up again.
EmptyRoomsAlwaysEnd ==
    room.visited /\ ~Occupied(room) ~> ~room.loaded \/ Occupied(room)

===============================================================================
