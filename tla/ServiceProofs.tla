----------------------------- MODULE ServiceProofs -----------------------------
(***************************************************************************)
(* Proofs about the parts that MCService puts side by side.  Each part has *)
(* an inductive invariant of its own variables: a step of the part keeps   *)
(* it, and a step of any other part leaves those variables alone.          *)
(***************************************************************************)
EXTENDS MCService, TLAPS

-----------------------------------------------------------------------------
(***************************************************************************)
(* The limiter.  The count in the row bounds what was let through in the   *)
(* stretch, until the row is begun anew: then what was let through before  *)
(* is a first full count, unless the stretch is over for every statement   *)
(* that still waits.                                                       *)
(***************************************************************************)

LimitTypes ==
    /\ now \in Nat /\ from \in Nat /\ passed \in Nat /\ forgot \in BOOLEAN
    /\ bucket \in [count : Nat, start : Nat]
    /\ waiting \subseteq Nat

\* Calls of the window that the row still stands for.
Counted == IF bucket.count > MaxRequests THEN MaxRequests ELSE bucket.count

OneCount ==
    \/ passed <= Counted
    \/ bucket = NoRow /\ passed <= MaxRequests

TwoCounts ==
    /\ bucket # NoRow
    /\ passed <= MaxRequests + Counted
    /\ from <= bucket.start + MaxWait

StretchOver ==
    /\ passed <= 2 * MaxRequests
    /\ now + 2 * MaxWait > from + Window
    /\ \A t \in waiting : t + 2 * MaxWait > from + Window

LimitInv ==
    /\ LimitTypes
    /\ bucket # NoRow => bucket.count >= 1
    /\ bucket.start <= now
    /\ \A t \in waiting : t <= now /\ now <= t + MaxWait
    /\ passed > 0 => now >= from
    /\ ~forgot => OneCount \/ TwoCounts \/ StretchOver

LEMMA LimitInit == Init => LimitInv
<1> SUFFICES ASSUME Init PROVE LimitInv
  OBVIOUS
<1>1. now = 0 /\ bucket = NoRow /\ waiting = {} /\ passed = 0 /\ forgot = FALSE
  BY DEF Init
<1>2. from \in Nat
  BY LimitAssumption DEF Init, Times
<1>3. LimitTypes
  BY <1>1, <1>2 DEF LimitTypes, NoRow
<1>4. OneCount
  BY <1>1, LimitAssumption DEF OneCount
<1> QED
  BY <1>1, <1>3, <1>4 DEF LimitInv, NoRow

\* The statement of a call that began at t.
LEMMA UpsertKeeps ==
  ASSUME LimitInv, NEW t \in Times, Upsert(t)
  PROVE  LimitInv'
<1> USE LimitAssumption
<1>1. /\ t \in Nat /\ t <= now /\ now <= t + MaxWait
      /\ now' = now /\ from' = from /\ forgot' = forgot /\ waiting' \subseteq waiting
  BY DEF LimitInv, LimitTypes, Upsert
<1>2. bucket' \in [count : Nat, start : Nat] /\ bucket'.count >= 1 /\ bucket'.start <= now
  BY <1>1 DEF LimitInv, LimitTypes, Upsert
<1>3. passed' \in Nat /\ passed' \in {passed, passed + 1}
  BY <1>1 DEF LimitInv, LimitTypes, Upsert
<1>4. passed' > 0 => now >= from
  BY <1>1, <1>3 DEF LimitInv, LimitTypes, Upsert, InStretch
<1>5. bucket' # NoRow
  BY <1>2 DEF NoRow
<1>6. ASSUME ~forgot
      PROVE  OneCount' \/ TwoCounts' \/ StretchOver'
  <2> DEFINE fresh == bucket = NoRow \/ bucket.start + Window < t
  <2>1. ~InStretch(t) => passed' = passed
    BY DEF Upsert
  <2>2. passed' = passed + 1 => InStretch(t) /\ bucket'.count <= MaxRequests
    BY <1>3 DEF Upsert, LimitInv, LimitTypes
  <2>3. fresh => bucket' = [count |-> 1, start |-> t]
    BY DEF Upsert
  <2>4. ~fresh => bucket'.start = bucket.start /\ bucket'.count =
                    IF bucket.count > MaxRequests THEN bucket.count ELSE bucket.count + 1
    BY DEF Upsert, LimitInv, LimitTypes
  <2>5. CASE OneCount
    <3>1. CASE fresh
      <4>1. passed <= MaxRequests /\ Counted' = 1
        BY <1>3, <2>3, <2>5, <3>1 DEF OneCount, Counted, LimitInv, LimitTypes, NoRow
      <4>2. from <= t + MaxWait \/ passed' = 0
        BY <1>1, <1>3, <2>1, <2>2 DEF InStretch, LimitInv, LimitTypes
      <4>3. CASE passed' = 0
        BY <4>1, <4>3 DEF OneCount
      <4>4. CASE from <= t + MaxWait
        BY <1>1, <1>3, <1>5, <2>3, <3>1, <4>1, <4>4 DEF TwoCounts, LimitInv, LimitTypes
      <4> QED
        BY <4>2, <4>3, <4>4
    <3>2. CASE ~fresh
      <4>1. passed <= Counted
        BY <2>5, <3>2 DEF OneCount
      <4>2. passed' <= Counted'
        BY <1>3, <2>2, <2>4, <3>2, <4>1 DEF Counted, LimitInv, LimitTypes
      <4> QED
        BY <4>2 DEF OneCount
    <3> QED
      BY <3>1, <3>2
  <2>6. CASE TwoCounts
    <3>1. CASE fresh
      <4>1. now + MaxWait > from + Window
        BY <1>1, <2>6, <3>1 DEF TwoCounts, LimitInv, LimitTypes
      <4>2. ~InStretch(t)
        BY <1>1, <4>1 DEF InStretch, LimitInv, LimitTypes
      <4>3. passed' <= 2 * MaxRequests
        BY <2>1, <2>6, <4>2 DEF TwoCounts, Counted, LimitInv, LimitTypes
      <4>4. \A s \in waiting' : s + 2 * MaxWait > from + Window
        BY <1>1, <4>1 DEF LimitInv, LimitTypes
      <4> QED
        BY <1>1, <4>1, <4>3, <4>4 DEF StretchOver, LimitInv, LimitTypes
    <3>2. CASE ~fresh
      BY <1>1, <1>3, <1>5, <2>2, <2>4, <2>6, <3>2 DEF TwoCounts, Counted, LimitInv, LimitTypes
    <3> QED
      BY <3>1, <3>2
  <2>7. CASE StretchOver
    <3>1. ~InStretch(t)
      BY <2>7 DEF StretchOver, InStretch, Upsert, LimitInv, LimitTypes
    <3> QED
      BY <1>1, <2>1, <2>7, <3>1 DEF StretchOver
  <2> QED
    BY <1>6, <2>5, <2>6, <2>7 DEF LimitInv
<1> QED
  BY <1>1, <1>2, <1>3, <1>4, <1>5, <1>6 DEF LimitInv, LimitTypes

\* The row goes away: an hour old, or the whole table with the database.
LEMMA CleanupKeeps ==
  ASSUME LimitInv, Cleanup
  PROVE  LimitInv'
<1> USE LimitAssumption
<1>1. /\ bucket' = NoRow
      /\ now' = now /\ from' = from /\ forgot' = forgot /\ waiting' = waiting /\ passed' = passed
  BY DEF Cleanup
<1>2. CASE OneCount
  <2>1. passed <= MaxRequests
    BY <1>2 DEF OneCount, Counted, LimitInv, LimitTypes
  <2>2. OneCount'
    BY <1>1, <2>1 DEF OneCount
  <2> QED
    BY <1>1, <2>2 DEF LimitInv, LimitTypes, NoRow
<1>3. CASE TwoCounts
  <2>1. now + MaxWait > from + Window
    BY <1>3 DEF TwoCounts, Cleanup, LimitInv, LimitTypes
  <2>2. passed <= 2 * MaxRequests
    BY <1>3 DEF TwoCounts, Counted, LimitInv, LimitTypes
  <2>3. StretchOver'
    BY <1>1, <2>1, <2>2 DEF StretchOver, LimitInv, LimitTypes
  <2> QED
    BY <1>1, <2>3 DEF LimitInv, LimitTypes, NoRow
<1>4. CASE StretchOver
  BY <1>1, <1>4 DEF StretchOver, LimitInv, LimitTypes, NoRow
<1>5. CASE forgot
  BY <1>1, <1>5 DEF LimitInv, LimitTypes, NoRow
<1> QED
  BY <1>2, <1>3, <1>4, <1>5 DEF LimitInv

LEMMA RestartKeeps ==
  ASSUME LimitInv, Restart
  PROVE  LimitInv'
<1> USE LimitAssumption
<1>1. /\ bucket' = NoRow /\ waiting' = {} /\ forgot' = (forgot \/ InStretch(now))
      /\ now' = now /\ from' = from /\ passed' = passed
  BY DEF Restart
<1>2. ASSUME ~forgot'
      PROVE  OneCount' \/ StretchOver'
  <2>1. ~forgot /\ ~InStretch(now)
    BY <1>1, <1>2
  <2>2. passed <= 2 * MaxRequests
    BY <2>1 DEF LimitInv, LimitTypes, OneCount, TwoCounts, StretchOver, Counted
  <2>3. passed = 0 \/ now + 2 * MaxWait > from + Window
    BY <2>1 DEF InStretch, LimitInv, LimitTypes
  <2> QED
    BY <1>1, <2>2, <2>3 DEF OneCount, StretchOver
<1> QED
  BY <1>1, <1>2 DEF LimitInv, LimitTypes, NoRow, InStretch

LEMMA LimitStep == LimitInv /\ [Next]_vars => LimitInv'
<1> SUFFICES ASSUME LimitInv, [Next]_vars PROVE LimitInv'
  OBVIOUS
<1> USE LimitAssumption
<1>1. CASE Call
  BY <1>1 DEF Call, LimitInv, LimitTypes, OneCount, TwoCounts, StretchOver, Counted
<1>2. ASSUME NEW t \in Times, Fails(t)
      PROVE  LimitInv'
  BY <1>2 DEF Fails, InStretch, LimitInv, LimitTypes, OneCount, TwoCounts, StretchOver, Counted
<1>3. CASE Tick
  BY <1>3 DEF Tick, LimitInv, LimitTypes, OneCount, TwoCounts, StretchOver, Counted
<1>4. CASE UNCHANGED vars
  BY <1>4 DEF vars, LimitInv, LimitTypes, OneCount, TwoCounts, StretchOver, Counted
<1> QED
  BY <1>1, <1>2, <1>3, <1>4, UpsertKeeps, CleanupKeeps, RestartKeeps DEF Next

\* However late statements reach the row and whenever it is cleaned up, no more than
\* twice the limit is let through in a stretch as long as the window.
THEOREM AtMostTwice == ServiceSpec => []TwiceTheLimit
<1>1. ServiceInit => LimitInv
  BY LimitInit DEF ServiceInit
<1>2. LimitInv /\ [ServiceNext]_everything => LimitInv'
  <2>1. [ServiceNext]_everything => [Next]_vars
    BY DEF ServiceNext, everything, Limiting, SigningUp, Playing, Saving, Exporting, Counting, vars
  <2> QED
    BY <2>1, LimitStep
<1>3. LimitInv => TwiceTheLimit
  BY LimitAssumption
     DEF LimitInv, LimitTypes, OneCount, TwoCounts, StretchOver, Counted, TwiceTheLimit
<1> QED
  BY <1>1, <1>2, <1>3, PTL DEF ServiceSpec, ServiceNext, everything


-----------------------------------------------------------------------------
(***************************************************************************)
(* Watch progress.  Until another version is opened beside a save, every   *)
(* save that waits for an answer is of the version on screen, there is one *)
(* at most, and the page knows of it.                                      *)
(***************************************************************************)

Places == Progress!Positions \cup {0}

ProgressTypes ==
    /\ watched \in Progress!Versions
    /\ at \in Places /\ saved \in Places
    /\ reached \in [Progress!Versions -> SUBSET Places]
    /\ row \in [Progress!Versions -> Places]
    /\ pending \in [progress : Places, force : BOOLEAN]
    /\ busy \in BOOLEAN /\ crossed \in BOOLEAN
    /\ sends \subseteq [id : Int, of : Progress!Versions, progress : Places,
                        waits : BOOLEAN, done : BOOLEAN]
    /\ sent \in Int

\* Every place on its way to a row is one the viewer was at.
OwnPlaces ==
    /\ \A v \in Progress!Versions : 0 \in reached[v] /\ row[v] \in reached[v]
    /\ at \in reached[watched] /\ pending.progress \in reached[watched]
    /\ \A s \in sends : s.progress \in reached[s.of]

OneWaits ==
    /\ \A s \in sends : s.waits => s.of = watched /\ busy
    /\ \A s, t \in sends : s.waits /\ t.waits => s = t

ProgressInv == ProgressTypes /\ (~crossed => OwnPlaces /\ OneWaits)

LEMMA Nothing ==
  /\ Progress!NoPayload \in [progress : Places, force : BOOLEAN]
  /\ Progress!NoPayload.progress = 0
<1>1. 0 \in Places
  BY DEF Places
<1> QED
  BY <1>1 DEF Progress!NoPayload

LEMMA ProgressInit == Progress!Init => ProgressInv
<1> SUFFICES ASSUME Progress!Init PROVE ProgressInv
  OBVIOUS
<1>1. 0 \in Places /\ watched \in Progress!Versions
  BY DEF Places, Progress!Init, Progress!Versions
<1>2. ProgressTypes
  <2>1. reached \in [Progress!Versions -> SUBSET Places] /\ row \in [Progress!Versions -> Places]
    <3>1. {0} \in SUBSET Places
      BY <1>1
    <3>2. [v \in Progress!Versions |-> {0}] \in [Progress!Versions -> SUBSET Places]
      BY <3>1
    <3>3. [v \in Progress!Versions |-> 0] \in [Progress!Versions -> Places]
      BY <1>1
    <3> QED
      BY <3>2, <3>3 DEF Progress!Init
  <2>2. /\ at = 0 /\ pending = Progress!NoPayload /\ busy = FALSE /\ saved = 0
        /\ sends = {} /\ sent = 0 /\ crossed = FALSE
    BY Zenon DEF Progress!Init
  <2>3. /\ at \in Places /\ saved \in Places /\ sent \in Int
        /\ pending \in [progress : Places, force : BOOLEAN]
    BY <1>1, <2>2, Nothing
  <2>4. /\ busy \in BOOLEAN /\ crossed \in BOOLEAN
        /\ sends \subseteq [id : Int, of : Progress!Versions, progress : Places,
                            waits : BOOLEAN, done : BOOLEAN]
    BY <2>2
  <2> QED
    BY <1>1, <2>1, <2>3, <2>4, Zenon DEF ProgressTypes
<1>3. OwnPlaces /\ OneWaits
  BY <1>1, Nothing DEF Progress!Init, OwnPlaces, OneWaits
<1> QED
  BY <1>2, <1>3 DEF ProgressInv

LEMMA HigherOfTwo ==
  ASSUME NEW a, NEW b PROVE Progress!Higher(a, b) \in {a, b}
BY DEF Progress!Higher

\* flushScheduledWatchProgress sends nothing while a save is under way.
LEMMA FlushKeeps ==
  ASSUME ProgressInv, NEW payload \in [progress : Places, force : BOOLEAN],
         ~crossed => payload.progress \in reached[watched],
         Progress!flushScheduledWatchProgress(watched, payload, busy),
         UNCHANGED <<watched, at, reached, row, saved, crossed>>
  PROVE  ProgressInv'
<1>1. CASE UNCHANGED <<sends, sent>> /\ busy' = busy /\ pending' \in {payload, Progress!NoPayload}
  <2>1. pending' \in [progress : Places, force : BOOLEAN]
    BY <1>1, Nothing
  <2>2. ~crossed => pending'.progress \in reached[watched]
    BY <1>1 DEF Progress!NoPayload, ProgressInv, ProgressTypes, OwnPlaces
  <2> QED
    BY <1>1, <2>1, <2>2 DEF ProgressInv, ProgressTypes, OwnPlaces, OneWaits
<1>2. CASE /\ ~busy /\ busy' = TRUE /\ pending' = Progress!NoPayload
           /\ Progress!Send(watched, payload.progress, TRUE)
  <2> DEFINE new == [id |-> sent', of |-> watched, progress |-> payload.progress,
                     waits |-> TRUE, done |-> FALSE]
  <2>1. sends' = sends \cup {new} /\ sent' = sent + 1
    BY <1>2 DEF Progress!Send
  <2>2. new \in [id : Int, of : Progress!Versions, progress : Places,
                 waits : BOOLEAN, done : BOOLEAN]
    BY <2>1 DEF ProgressInv, ProgressTypes
  <2>3. pending' \in [progress : Places, force : BOOLEAN] /\ pending'.progress = 0
    BY <1>2 DEF Progress!NoPayload, Places
  <2>4. ProgressTypes'
    BY <1>2, <2>1, <2>2, <2>3 DEF ProgressInv, ProgressTypes
  <2>5. ASSUME ~crossed PROVE OwnPlaces' /\ OneWaits'
    <3>1. \A s \in sends : ~s.waits
      BY <1>2, <2>5 DEF ProgressInv, OneWaits
    <3>2. new.of = watched' /\ busy' = TRUE
      BY <1>2
    <3>3. OneWaits'
      BY <2>1, <3>1, <3>2 DEF OneWaits
    <3>4. OwnPlaces'
      BY <2>1, <2>3, <2>5 DEF OwnPlaces, ProgressInv, ProgressTypes
    <3> QED
      BY <3>3, <3>4
  <2> QED
    BY <2>4, <2>5 DEF ProgressInv
<1> QED
  BY <1>1, <1>2 DEF Progress!flushScheduledWatchProgress, ProgressInv, ProgressTypes

LEMMA ScheduleKeeps ==
  ASSUME ProgressInv, NEW force \in BOOLEAN, Progress!scheduleWatchProgressSave(force)
  PROVE  ProgressInv'
<1> DEFINE payload == [progress |-> Progress!Higher(pending.progress, at),
                       force |-> pending.force \/ force]
<1>1. payload.progress \in {pending.progress, at}
  BY HigherOfTwo
<1>2. payload \in [progress : Places, force : BOOLEAN]
  BY <1>1 DEF ProgressInv, ProgressTypes
<1>3. ~crossed => payload.progress \in reached[watched]
  BY <1>1 DEF ProgressInv, OwnPlaces
<1>4. UNCHANGED <<watched, at, reached, row, saved, crossed>>
  BY DEF Progress!scheduleWatchProgressSave
<1>5. CASE Progress!flushScheduledWatchProgress(watched, payload, busy)
  BY <1>2, <1>3, <1>4, <1>5, FlushKeeps
<1>6. CASE pending' = payload /\ UNCHANGED <<busy, sends, sent>>
  BY <1>2, <1>3, <1>4, <1>6 DEF ProgressInv, ProgressTypes, OwnPlaces, OneWaits
<1> QED
  BY <1>5, <1>6 DEF Progress!scheduleWatchProgressSave

\* The answer of a save sends what waits, of the same version.
LEMMA AnsweredKeeps ==
  ASSUME ProgressInv, NEW s \in sends, Progress!Answered(s)
  PROVE  ProgressInv'
<1> DEFINE rest == sends \ {s}
           new == [id |-> sent', of |-> s.of, progress |-> pending.progress,
                   waits |-> TRUE, done |-> FALSE]
<1>1. /\ s.waits /\ saved' = (IF s.done THEN s.progress ELSE saved)
      /\ pending' = Progress!NoPayload
      /\ UNCHANGED <<watched, at, reached, row, crossed>>
  BY DEF Progress!Answered
<1>2. s.progress \in Places /\ s.of \in Progress!Versions
  BY DEF ProgressInv, ProgressTypes
<1>3. pending' \in [progress : Places, force : BOOLEAN] /\ pending'.progress = 0
  BY <1>1 DEF Progress!NoPayload, Places
<1>4. ~crossed => s.of = watched /\ \A t \in rest : ~t.waits
  BY <1>1 DEF ProgressInv, OneWaits
<1>5. CASE sends' = rest /\ busy' = FALSE /\ sent' = sent
  BY <1>1, <1>2, <1>3, <1>4, <1>5 DEF ProgressInv, ProgressTypes, OwnPlaces, OneWaits
<1>6. CASE sends' = rest \cup {new} /\ busy' = TRUE /\ sent' = sent + 1
  <2>1. new \in [id : Int, of : Progress!Versions, progress : Places,
                 waits : BOOLEAN, done : BOOLEAN]
    BY <1>2, <1>6 DEF ProgressInv, ProgressTypes
  <2>2. ProgressTypes'
    BY <1>1, <1>2, <1>3, <1>6, <2>1 DEF ProgressInv, ProgressTypes
  <2>3. ~crossed => OneWaits'
    <3>1. watched' = watched /\ busy' = TRUE
      BY <1>1, <1>6
    <3>2. ~crossed => new.of = watched' /\ \A t \in rest : ~t.waits
      BY <1>4, <3>1
    <3> QED
      BY <1>6, <3>1, <3>2 DEF OneWaits
  <2>4. ~crossed => OwnPlaces'
    BY <1>1, <1>3, <1>4, <1>6 DEF OwnPlaces, ProgressInv, ProgressTypes
  <2> QED
    BY <1>1, <2>2, <2>3, <2>4 DEF ProgressInv
<1> QED
  BY <1>1, <1>5, <1>6 DEF Progress!Answered

LEMMA LeaveKeeps ==
  ASSUME ProgressInv, Progress!Leave
  PROVE  ProgressInv'
<1> DEFINE final == Progress!Higher(at, pending.progress)
           unheard == {[s EXCEPT !.waits = FALSE] : s \in {t \in sends : ~t.done}}
           new == [id |-> sent', of |-> watched, progress |-> final,
                   waits |-> FALSE, done |-> FALSE]
<1>1. /\ pending' = Progress!NoPayload /\ busy' = FALSE /\ saved' = 0 /\ at' = 0
      /\ UNCHANGED <<watched, reached, row, crossed>>
  BY DEF Progress!Leave, Progress!Fresh
<1>2. final \in {at, pending.progress}
  BY HigherOfTwo
<1>3. pending' \in [progress : Places, force : BOOLEAN] /\ pending'.progress = 0
  BY <1>1 DEF Progress!NoPayload, Places
<1>4. \A s \in unheard :
        /\ s \in [id : Int, of : Progress!Versions, progress : Places,
                  waits : BOOLEAN, done : BOOLEAN]
        /\ ~s.waits
        /\ \E t \in sends : s.of = t.of /\ s.progress = t.progress
  BY DEF ProgressInv, ProgressTypes
<1>5. CASE sends' = unheard /\ sent' = sent
  <2>1. ProgressTypes'
    BY <1>1, <1>3, <1>4, <1>5 DEF ProgressInv, ProgressTypes, Places
  <2>2. OneWaits'
    BY <1>4, <1>5 DEF OneWaits
  <2>3. ~crossed => OwnPlaces'
    BY <1>1, <1>3, <1>4, <1>5 DEF OwnPlaces, ProgressInv, ProgressTypes
  <2> QED
    BY <1>1, <2>1, <2>2, <2>3 DEF ProgressInv
<1>6. CASE sends' = unheard \cup {new} /\ sent' = sent + 1
  <2>1. new \in [id : Int, of : Progress!Versions, progress : Places,
                 waits : BOOLEAN, done : BOOLEAN]
    BY <1>2, <1>6 DEF ProgressInv, ProgressTypes
  <2>2. ProgressTypes'
    BY <1>1, <1>3, <1>4, <1>6, <2>1 DEF ProgressInv, ProgressTypes, Places
  <2>3. OneWaits'
    BY <1>4, <1>6 DEF OneWaits
  <2>4. ~crossed => OwnPlaces'
    BY <1>1, <1>2, <1>3, <1>4, <1>6 DEF OwnPlaces, ProgressInv, ProgressTypes
  <2> QED
    BY <1>1, <2>2, <2>3, <2>4 DEF ProgressInv
<1> QED
  BY <1>5, <1>6 DEF Progress!Leave

LEMMA ProgressStep == ProgressInv /\ [Progress!Next]_progress => ProgressInv'
<1> SUFFICES ASSUME ProgressInv, [Progress!Next]_progress PROVE ProgressInv'
  OBVIOUS
<1>1. CASE Progress!Watch
  BY <1>1 DEF Progress!Watch, ProgressInv, ProgressTypes, OwnPlaces, OneWaits, Places
<1>2. CASE Progress!Debounced
  <2>1. pending \in [progress : Places, force : BOOLEAN]
    BY DEF ProgressInv, ProgressTypes
  <2>2. ~crossed => pending.progress \in reached[watched]
    BY DEF ProgressInv, OwnPlaces
  <2> QED
    BY <1>2, <2>1, <2>2, FlushKeeps DEF Progress!Debounced
<1>3. CASE Progress!SwitchVersion
  <2>1. /\ watched' \in Progress!Versions /\ at' = 0 /\ pending' = Progress!NoPayload
        /\ busy' = FALSE /\ saved' = 0 /\ UNCHANGED <<reached, row, sends, sent>>
        /\ crossed' = (crossed \/ \E s \in sends : s.waits)
    BY <1>3 DEF Progress!SwitchVersion, Progress!Fresh, Progress!Versions, ProgressInv, ProgressTypes
  <2>2. pending' \in [progress : Places, force : BOOLEAN] /\ pending'.progress = 0
    BY <2>1 DEF Progress!NoPayload, Places
  <2>3. ProgressTypes'
    BY <2>1, <2>2 DEF ProgressInv, ProgressTypes, Places
  <2>4. ~crossed' => OwnPlaces' /\ OneWaits'
    BY <2>1, <2>2 DEF ProgressInv, OwnPlaces, OneWaits
  <2> QED
    BY <2>3, <2>4 DEF ProgressInv
<1>4. ASSUME NEW s \in sends, Progress!Saved(s)
      PROVE  ProgressInv'
  <2> DEFINE done == [s EXCEPT !.done = TRUE]
  <2>1. /\ row' = [row EXCEPT ![s.of] = s.progress]
        /\ sends' = (sends \ {s}) \cup (IF s.waits THEN {done} ELSE {})
        /\ UNCHANGED <<watched, at, reached, pending, busy, saved, sent, crossed>>
    BY <1>4 DEF Progress!Saved
  <2>2. /\ s \in [id : Int, of : Progress!Versions, progress : Places,
                  waits : BOOLEAN, done : BOOLEAN]
        /\ done \in [id : Int, of : Progress!Versions, progress : Places,
                     waits : BOOLEAN, done : BOOLEAN]
        /\ done.waits = s.waits /\ done.of = s.of /\ done.progress = s.progress
    BY DEF ProgressInv, ProgressTypes
  <2>3. ProgressTypes'
    BY <2>1, <2>2 DEF ProgressInv, ProgressTypes
  <2>4. ~crossed => OwnPlaces'
    BY <2>1, <2>2 DEF ProgressInv, ProgressTypes, OwnPlaces
  <2>5. ~crossed => OneWaits'
    BY <2>1, <2>2 DEF ProgressInv, OneWaits
  <2> QED
    BY <2>1, <2>3, <2>4, <2>5 DEF ProgressInv
<1>5. ASSUME NEW s \in sends, Progress!Lost(s)
      PROVE  ProgressInv'
  BY <1>5 DEF Progress!Lost, ProgressInv, ProgressTypes, OwnPlaces, OneWaits
<1>6. CASE UNCHANGED progress
  BY <1>6 DEF progress, ProgressInv, ProgressTypes, OwnPlaces, OneWaits
<1> QED
  BY <1>1, <1>2, <1>3, <1>4, <1>5, <1>6, ScheduleKeeps, AnsweredKeeps, LeaveKeeps
     DEF Progress!Next

\* The page never has two saves under way, and rows are places of their own version,
\* unless another version was opened beside a save.
THEOREM SavesOneByOne == ServiceSpec => []SavesInTurn
<1>1. ServiceInit => ProgressInv
  BY ProgressInit DEF ServiceInit
<1>2. ProgressInv /\ [ServiceNext]_everything => ProgressInv'
  <2>1. [ServiceNext]_everything => [Progress!Next]_progress
    BY DEF ServiceNext, everything, Limiting, SigningUp, Playing, Saving, Exporting, Counting, progress
  <2> QED
    BY <2>1, ProgressStep
<1>3. ProgressInv => SavesInTurn
  BY DEF ProgressInv, OwnPlaces, OneWaits, SavesInTurn, Progress!SavesInTurn
<1> QED
  BY <1>1, <1>2, <1>3, PTL DEF ServiceSpec

-----------------------------------------------------------------------------
(***************************************************************************)
(* Labels.  A label is split into the ten-minute block it is in, the       *)
(* minute of that block and the numbers of that minute; the formulas are   *)
(* divisions of one sum, and each has one answer.                          *)
(***************************************************************************)

LEMMA OneQuotient ==
  ASSUME NEW k \in Nat, k > 0, NEW c \in Int, NEW e \in Nat, e < k
  PROVE  (c * k + e) \div k = c /\ (c * k + e) % k = e
<1> DEFINE n == c * k + e
           c2 == n \div k
           e2 == n % k
<1>1. n \in Int /\ c2 \in Int /\ e2 \in 0 .. k - 1 /\ n = k * c2 + e2
  OBVIOUS
<1>2. k * (c - c2) = e2 - e
  BY <1>1
<1>3. ~(c - c2 >= 1)
  <2> SUFFICES ASSUME c - c2 >= 1 PROVE FALSE
    OBVIOUS
  <2>1. k * (c - c2) >= k
    BY <1>1
  <2> QED
    BY <1>1, <1>2, <2>1
<1>4. ~(c - c2 <= -1)
  <2> SUFFICES ASSUME c - c2 <= -1 PROVE FALSE
    OBVIOUS
  <2>1. k * (c - c2) <= -k
    BY <1>1
  <2> QED
    BY <1>1, <1>2, <2>1
<1>5. c = c2
  BY <1>1, <1>3, <1>4
<1>6. e = e2
  BY <1>1, <1>5
<1> QED
  BY <1>5, <1>6

LEMMA Distributed ==
  ASSUME NEW N \in Int, NEW D \in Int, NEW h \in Int, NEW z \in Int, NEW r \in Int,
         NEW s \in Int, NEW f \in Int
  PROVE  (h * 3600 + (10 * z + r) * 60 + s) * N + f - D * (54 * h + 9 * z + r)
           = (6 * h + z) * (N * 600 - D * 9) + (r * (N * 60 - D) + s * N + f)
<1>1. (h * 3600 + (10 * z + r) * 60 + s) * N
        = 3600 * (h * N) + 600 * (z * N) + 60 * (r * N) + s * N
  OBVIOUS
<1>2. D * (54 * h + 9 * z + r) = 54 * (D * h) + 9 * (D * z) + D * r
  OBVIOUS
<1>3. (6 * h + z) * (N * 600 - D * 9) = 3600 * (h * N) + 600 * (z * N) - 54 * (D * h) - 9 * (D * z)
  OBVIOUS
<1>4. r * (N * 60 - D) = 60 * (r * N) - D * r
  OBVIOUS
<1> QED
  BY <1>1, <1>2, <1>3, <1>4

LEMMA SumByBlock ==
  ASSUME NEW N \in Int, NEW D \in Int, NEW h \in Nat, NEW m \in Nat, NEW s \in Nat, NEW f \in Nat
  PROVE  (h * 3600 + m * 60 + s) * N + f - D * ((h * 60 + m) - (h * 60 + m) \div 10)
           = (6 * h + m \div 10) * (N * 600 - D * 9) + ((m % 10) * (N * 60 - D) + s * N + f)
<1>1. PICK z \in Int, r \in Int : z = m \div 10 /\ r = m % 10
  OBVIOUS
<1>2. m = 10 * z + r /\ (h * 60 + m) - (h * 60 + m) \div 10 = 54 * h + 9 * z + r
  BY <1>1
<1>3. (h * 3600 + m * 60 + s) * N + f - D * ((h * 60 + m) - (h * 60 + m) \div 10)
        = (h * 3600 + (10 * z + r) * 60 + s) * N + f - D * (54 * h + 9 * z + r)
  BY <1>2
<1>4. @ = (6 * h + z) * (N * 600 - D * 9) + (r * (N * 60 - D) + s * N + f)
  BY Distributed
<1> QED
  BY <1>1, <1>3, <1>4

\* A rate: some numbers in a second, of which fewer are left out.
RateOK(r) == r \in [nominal : Nat, drop : Nat] /\ r.drop < r.nominal

Labels == [h : 0 .. 23, m : 0 .. 59, s : 0 .. 59, f : 0 .. rate.nominal - 1]

\* parseNleOptions's sum, by block, minute and the rest.
LEMMA FramesByBlock ==
  ASSUME RateOK(rate), NEW l \in Labels
  PROVE  Clock!originFrames(l) =
           (6 * l.h + l.m \div 10) * (rate.nominal * 600 - rate.drop * 9)
           + ((l.m % 10) * (rate.nominal * 60 - rate.drop) + l.s * rate.nominal + l.f)
<1>1. /\ rate.nominal \in Int /\ rate.drop \in Int
      /\ l.h \in Nat /\ l.m \in Nat /\ l.s \in Nat /\ l.f \in Nat
  BY DEF RateOK, Labels
<1>2. PICK N \in Int, D \in Int, h \in Nat, m \in Nat, s \in Nat, f \in Nat :
        /\ N = rate.nominal /\ D = rate.drop
        /\ h = l.h /\ m = l.m /\ s = l.s /\ f = l.f
  BY <1>1
<1>3. Clock!originFrames(l)
        = (h * 3600 + m * 60 + s) * N + f - D * ((h * 60 + m) - (h * 60 + m) \div 10)
  BY <1>2 DEF Clock!originFrames
<1>4. @ = (6 * h + m \div 10) * (N * 600 - D * 9) + ((m % 10) * (N * 60 - D) + s * N + f)
  BY SumByBlock
<1> QED
  BY <1>2, <1>3, <1>4

\* nleTimecode undoes parseNleOptions's sum.
LEMMA LabelOfFrames ==
  ASSUME RateOK(rate), NEW l \in Labels, Clock!validOrigin(l)
  PROVE  Clock!nleTimecode(Clock!originFrames(l)) = l
<1>0. /\ rate.nominal \in Nat /\ rate.drop \in Nat /\ rate.drop < rate.nominal
      /\ l.h \in 0 .. 23 /\ l.m \in 0 .. 59 /\ l.s \in 0 .. 59
      /\ l.f \in Nat /\ l.f < rate.nominal
  BY DEF RateOK, Labels
<1>1. PICK N \in Nat, D \in Nat, h \in 0 .. 23, m \in 0 .. 59, s \in 0 .. 59, f \in Nat :
        /\ N = rate.nominal /\ D = rate.drop
        /\ h = l.h /\ m = l.m /\ s = l.s /\ f = l.f
        /\ D < N /\ f < N
  BY <1>0
<1>r. D < N /\ f < N /\ N > 0
  BY <1>1
<1>2. PICK b \in Nat, r \in 0 .. 9 : b = 6 * h + m \div 10 /\ r = m % 10
  OBVIOUS
<1>3. 10 * b + r = 60 * h + m
  BY <1>2
<1> DEFINE K == N * 600 - D * 9
           M == N * 60 - D
           n == b * K + (r * M + (s * N + f))
           past == ((n % K) - D) \div M
           skipped == IF D = 0 THEN 0 ELSE D * 9 * (n \div K) + D * (IF past > 0 THEN past ELSE 0)
           seconds == (n + skipped) \div N
<1>4. Clock!originFrames(l) = n
  BY <1>1, <1>2, FramesByBlock
<1>5. ~(D > 0 /\ r # 0 /\ s = 0 /\ f < D)
  BY <1>1, <1>2 DEF Clock!validOrigin
<1>6. n \div K = b /\ (D > 0 => (IF past > 0 THEN past ELSE 0) = r)
  <2> DEFINE w == s * N + f
             e == r * M + w
  <2>1. K \in Nat /\ K > 0 /\ M \in Nat /\ M > 0 /\ K = 10 * M + D
    BY <1>r
  <2>2. w \in Nat /\ w < M + D
    <3>1. s * N \in Nat /\ s * N <= 59 * N
      OBVIOUS
    <3> QED
      BY <1>r, <3>1
  <2>3. r * M \in Nat /\ r * M <= 9 * M
    BY <2>1
  <2>4. e \in Nat /\ e < K
    BY <2>1, <2>2, <2>3
  <2>5. n \div K = b /\ n % K = e
    BY <2>1, <2>4, OneQuotient
  <2>6. ASSUME D > 0 PROVE (IF past > 0 THEN past ELSE 0) = r
    <3>1. CASE r = 0
      <4>1. e - D < M /\ e - D >= -M
        BY <1>r, <2>1, <2>2, <3>1
      <4>2. (e - D) \div M \in Int /\ (e - D) \div M <= 0
        BY <2>1, <2>4, <4>1
      <4>3. past = (e - D) \div M
        <5> HIDE DEF K, M, n, e
        <5> QED
          BY <2>5
      <4>4. past \in Int /\ past <= 0
        <5> HIDE DEF past, K, M, n, e
        <5> QED
          BY <4>2, <4>3
      <4> HIDE DEF past
      <4> QED
        BY <3>1, <4>4
    <3>2. CASE r # 0
      <4>1. w - D \in Nat /\ w - D < M
        <5>1. CASE s = 0
          BY <1>r, <1>5, <2>2, <2>6, <3>2, <5>1
        <5>2. CASE s # 0
          <6>1. s * N >= N
            BY <1>r, <5>2
          <6> QED
            BY <1>r, <2>2, <6>1
        <5> QED
          BY <5>1, <5>2
      <4>2. e - D = r * M + (w - D)
        BY <2>1, <2>2, <2>3
      <4>3. (e - D) \div M = r
        BY <2>1, <4>1, <4>2, OneQuotient
      <4>4. past = r
        <5> HIDE DEF K, M, n, e
        <5> QED
          BY <2>5, <4>3
      <4> HIDE DEF past
      <4> QED
        BY <3>2, <4>4
    <3> QED
      BY <3>1, <3>2
  <2> QED
    BY <2>5, <2>6
<1>7. skipped = D * (9 * b + r)
  <2>1. CASE D = 0
    BY <2>1
  <2>2. CASE D # 0
    <3>1. skipped = D * 9 * b + D * r
      <4> HIDE DEF past, n, K
      <4> QED
        BY <1>r, <1>6, <2>2
    <3>2. D * 9 * b + D * r = D * (9 * b + r)
      OBVIOUS
    <3> QED
      BY <3>1, <3>2
  <2> QED
    BY <2>1, <2>2
<1>8. n + skipped = (600 * b + 60 * r + s) * N + f
  <2>1. b * K = 600 * (b * N) - 9 * (D * b) /\ r * M = 60 * (r * N) - D * r
    OBVIOUS
  <2>2. D * (9 * b + r) = 9 * (D * b) + D * r
    OBVIOUS
  <2>3. (600 * b + 60 * r + s) * N = 600 * (b * N) + 60 * (r * N) + s * N
    OBVIOUS
  <2> QED
    BY <1>4, <1>7, <2>1, <2>2, <2>3
<1>9. seconds = 600 * b + 60 * r + s /\ (n + skipped) % N = f
  <2>1. PICK c \in Int : c = 600 * b + 60 * r + s
    OBVIOUS
  <2>2. (c * N + f) \div N = c /\ (c * N + f) % N = f
    BY <1>r, OneQuotient
  <2>3. n + skipped = c * N + f
    BY <1>8, <2>1
  <2> HIDE DEF n, skipped
  <2> QED
    BY <2>1, <2>2, <2>3
<1>10. seconds = 3600 * h + 60 * m + s
  BY <1>3, <1>9
<1>11. seconds \div 3600 = h /\ (seconds \div 60) % 60 = m /\ seconds % 60 = s
  <2> HIDE DEF seconds
  <2> QED
    BY <1>10
<1>12. Clock!nleTimecode(n) = [h |-> seconds \div 3600, m |-> (seconds \div 60) % 60,
                               s |-> seconds % 60, f |-> (n + skipped) % N]
  BY <1>1, <1>4 DEF Clock!nleTimecode
<1>13. Clock!nleTimecode(Clock!originFrames(l)) = [h |-> l.h, m |-> l.m, s |-> l.s, f |-> l.f]
  BY <1>1, <1>4, <1>9, <1>11, <1>12
<1> QED
  BY <1>13 DEF Labels

LastLabel == [h |-> 23, m |-> 59, s |-> 59, f |-> rate.nominal - 1]

\* What counting to the next label comes to is the label of the next frame.
LEMMA NextLabel ==
  ASSUME RateOK(rate), NEW l \in Labels, Clock!validOrigin(l), l # LastLabel
  PROVE  /\ Clock!After(l) \in Labels /\ Clock!validOrigin(Clock!After(l))
         /\ Clock!originFrames(Clock!After(l)) = Clock!originFrames(l) + 1
<1>0. /\ rate.nominal \in Nat /\ rate.drop \in Nat /\ rate.drop < rate.nominal
      /\ l.h \in 0 .. 23 /\ l.m \in 0 .. 59 /\ l.s \in 0 .. 59
      /\ l.f \in Nat /\ l.f < rate.nominal
  BY DEF RateOK, Labels
<1>1. PICK N \in Nat, D \in Nat, h \in 0 .. 23, m \in 0 .. 59, s \in 0 .. 59, f \in Nat :
        /\ N = rate.nominal /\ D = rate.drop
        /\ h = l.h /\ m = l.m /\ s = l.s /\ f = l.f
        /\ D < N /\ f < N
  BY <1>0
<1>2. D < N /\ f < N /\ N > 0
  BY <1>1
<1>3. l = [h |-> h, m |-> m, s |-> s, f |-> f]
  BY <1>1 DEF Labels
<1>4. ~(D > 0 /\ m % 10 # 0 /\ s = 0 /\ f < D)
  BY <1>1 DEF Clock!validOrigin
<1> DEFINE Sum(h1, m1, s1, f1) ==
             (h1 * 3600 + m1 * 60 + s1) * N + f1 - D * ((h1 * 60 + m1) - (h1 * 60 + m1) \div 10)
<1>5. ASSUME NEW h1 \in 0 .. 23, NEW m1 \in 0 .. 59, NEW s1 \in 0 .. 59, NEW f1 \in Nat, f1 < N,
             ~(D > 0 /\ m1 % 10 # 0 /\ s1 = 0 /\ f1 < D),
             Clock!After(l) = [h |-> h1, m |-> m1, s |-> s1, f |-> f1],
             Sum(h1, m1, s1, f1) = Sum(h, m, s, f) + 1
      PROVE  /\ Clock!After(l) \in Labels /\ Clock!validOrigin(Clock!After(l))
             /\ Clock!originFrames(Clock!After(l)) = Clock!originFrames(l) + 1
  <2>1. Clock!After(l) \in Labels
    BY <1>1, <1>5 DEF Labels
  <2>2. Clock!validOrigin(Clock!After(l))
    BY <1>1, <1>5 DEF Clock!validOrigin
  <2>3. Clock!originFrames(l) = Sum(h, m, s, f)
    BY <1>1 DEF Clock!originFrames
  <2>4. Clock!originFrames(Clock!After(l)) = Sum(h1, m1, s1, f1)
    BY <1>1, <1>5 DEF Clock!originFrames
  <2> QED
    BY <1>5, <2>1, <2>2, <2>3, <2>4
<1>6. CASE f + 1 < N
  <2> PICK f1 \in Nat : f1 = f + 1
    OBVIOUS
  <2>1. Clock!After(l) = [h |-> h, m |-> m, s |-> s, f |-> f1]
    BY <1>1, <1>3, <1>6 DEF Clock!After
  <2>2. ~(D > 0 /\ m % 10 # 0 /\ s = 0 /\ f1 < D)
    BY <1>4
  <2>3. Sum(h, m, s, f1) = Sum(h, m, s, f) + 1
    OBVIOUS
  <2>4. f1 < N
    BY <1>6
  <2> HIDE DEF Sum
  <2> QED
    BY <1>5, <2>1, <2>2, <2>3, <2>4
<1>7. CASE f + 1 >= N /\ s < 59
  <2> PICK s1 \in 0 .. 59, f1 \in Nat : s1 = s + 1 /\ f1 = 0
    BY <1>7
  <2>1. Clock!After(l) = [h |-> h, m |-> m, s |-> s1, f |-> f1]
    <3>1. Clock!After(l) = [l EXCEPT !.f = 0, !.s = l.s + 1]
      BY <1>1, <1>7 DEF Clock!After
    <3> QED
      BY <1>3, <3>1
  <2>2. (h * 3600 + m * 60 + s1) * N = (h * 3600 + m * 60 + s) * N + N
    OBVIOUS
  <2>3. Sum(h, m, s1, f1) = Sum(h, m, s, f) + 1
    BY <1>2, <1>7, <2>2
  <2>4. s1 # 0 /\ f1 < N
    BY <1>2
  <2> HIDE DEF Sum
  <2> QED
    BY <1>5, <2>1, <2>3, <2>4
<1>8. CASE f + 1 >= N /\ s = 59 /\ m < 59
  <2> DEFINE g == IF (m + 1) % 10 = 0 THEN 0 ELSE D
  <2> PICK m1 \in 0 .. 59, s1 \in 0 .. 59, f1 \in Nat : m1 = m + 1 /\ s1 = 0 /\ f1 = g
    BY <1>8
  <2>1. Clock!After(l) = [h |-> h, m |-> m1, s |-> s1, f |-> f1]
    BY <1>1, <1>3, <1>8 DEF Clock!After
  <2>2. (h * 3600 + m1 * 60 + s1) * N = (h * 3600 + m * 60 + 59) * N + N
    OBVIOUS
  <2>3. D * ((h * 60 + m1) - (h * 60 + m1) \div 10)
          = D * ((h * 60 + m) - (h * 60 + m) \div 10) + g
    <3> DEFINE c == (h * 60 + m) - (h * 60 + m) \div 10
               c1 == (h * 60 + m1) - (h * 60 + m1) \div 10
    <3>1. c1 = (IF (m + 1) % 10 = 0 THEN c ELSE c + 1) /\ c \in Int
      OBVIOUS
    <3> HIDE DEF c, c1
    <3>2. D * (c + 1) = D * c + D
      BY <3>1
    <3>3. D * c1 = D * c + g
      BY <3>1, <3>2
    <3> QED
      BY <3>3 DEF c, c1
  <2>4. Sum(h, m1, s1, f1) = Sum(h, m, s, f) + 1
    BY <1>2, <1>8, <2>2, <2>3
  <2>5. f1 < N
    BY <1>2
  <2>6. ~(D > 0 /\ m1 % 10 # 0 /\ s1 = 0 /\ f1 < D)
    OBVIOUS
  <2> HIDE DEF g, Sum
  <2> QED
    BY <1>5, <2>1, <2>4, <2>5, <2>6
<1>9. CASE f + 1 >= N /\ s = 59 /\ m = 59
  <2>1. h < 23
    <3>1. h # 23
      BY <1>1, <1>2, <1>3, <1>9 DEF LastLabel
    <3> QED
      BY <3>1
  <2> PICK h1 \in 0 .. 23, m1 \in 0 .. 59, s1 \in 0 .. 59, f1 \in Nat :
        h1 = h + 1 /\ m1 = 0 /\ s1 = 0 /\ f1 = 0
    BY <2>1
  <2>2. Clock!After(l) = [h |-> h1, m |-> m1, s |-> s1, f |-> f1]
    BY <1>1, <1>3, <1>9 DEF Clock!After
  <2>3. (h1 * 3600 + m1 * 60 + s1) * N = (h * 3600 + 59 * 60 + 59) * N + N
    OBVIOUS
  <2>4. (h1 * 60 + m1) - (h1 * 60 + m1) \div 10 = (h * 60 + 59) - (h * 60 + 59) \div 10
    OBVIOUS
  <2>5. Sum(h1, m1, s1, f1) = Sum(h, m, s, f) + 1
    BY <1>2, <1>9, <2>3, <2>4
  <2>6. f1 < N /\ m1 % 10 = 0
    BY <1>2
  <2> HIDE DEF Sum
  <2> QED
    BY <1>5, <2>2, <2>5, <2>6
<1> QED
  BY <1>2, <1>6, <1>7, <1>8, <1>9

LEMMA FramesAreInt ==
  ASSUME RateOK(rate), NEW l \in Labels
  PROVE  Clock!originFrames(l) \in Int /\ Clock!dayFrames \in Int
<1>0. /\ rate.nominal \in Nat /\ rate.drop \in Nat
      /\ l.h \in Nat /\ l.m \in Nat /\ l.s \in Nat /\ l.f \in Nat
  BY DEF RateOK, Labels
<1>1. PICK N \in Nat, D \in Nat : N = rate.nominal /\ D = rate.drop
  BY <1>0
<1>2. PICK b \in Nat, r \in Nat, s \in Nat, f \in Nat :
        b = 6 * l.h + l.m \div 10 /\ r = l.m % 10 /\ s = l.s /\ f = l.f
  <2> PICK h \in Nat, m \in Nat : h = l.h /\ m = l.m
    BY <1>0
  <2>1. m \div 10 \in Nat /\ m % 10 \in Nat
    OBVIOUS
  <2>2. 6 * h + m \div 10 \in Nat
    BY <2>1
  <2> QED
    BY <1>0, <2>1, <2>2
<1>3. Clock!originFrames(l) = b * (N * 600 - D * 9) + (r * (N * 60 - D) + s * N + f)
  BY <1>1, <1>2, FramesByBlock
<1>4. /\ b * (N * 600 - D * 9) \in Int /\ r * (N * 60 - D) \in Int /\ s * N \in Int
  OBVIOUS
<1>5. Clock!dayFrames = N * 86400 - D * 1296
  BY <1>1 DEF Clock!dayFrames
<1> QED
  BY <1>3, <1>4, <1>5

LEMMA StartOfBlock ==
  ASSUME RateOK(rate), NEW l \in Labels, l.m % 10 = 0, l.s = 0, l.f = 0
  PROVE  Clock!originFrames(l) =
           (6 * l.h + l.m \div 10) * (rate.nominal * 600 - rate.drop * 9)
<1>0. /\ rate.nominal \in Nat /\ rate.drop \in Nat
      /\ l.h \in Nat /\ l.m \in Nat /\ l.s \in Nat /\ l.f \in Nat
  BY DEF RateOK, Labels
<1>1. PICK N \in Nat, D \in Nat, b \in Nat :
        N = rate.nominal /\ D = rate.drop /\ b = 6 * l.h + l.m \div 10
  BY <1>0
<1>2. Clock!originFrames(l) = b * (N * 600 - D * 9) + (0 * (N * 60 - D) + 0 * N + 0)
  BY <1>1, FramesByBlock
<1>3. b * (N * 600 - D * 9) \in Int
  OBVIOUS
<1>4. Clock!originFrames(l) = b * (N * 600 - D * 9)
  BY <1>2, <1>3
<1> QED
  BY <1>1, <1>4

\* The start of a block, from the label of another.
StartOf(c, l) == [l EXCEPT !.h = c \div 6, !.m = 10 * (c % 6)]

\* The label a block later is that of the frame a block later.
LEMMA NextBlock ==
  ASSUME RateOK(rate), NEW l \in Labels, l.m % 10 = 0, l.s = 0, l.f = 0,
         NEW c \in Nat, c = l.h * 6 + l.m \div 10 + 1, c <= 143
  PROVE  /\ StartOf(c, l) \in Labels /\ Clock!validOrigin(StartOf(c, l))
         /\ Clock!originFrames(StartOf(c, l)) =
              Clock!originFrames(l) + 600 * rate.nominal - 9 * rate.drop
<1> DEFINE k == StartOf(c, l)
<1>1. /\ rate.nominal \in Nat /\ rate.drop \in Nat /\ rate.drop < rate.nominal
      /\ l.h \in 0 .. 23 /\ l.m \in 0 .. 59
  BY DEF RateOK, Labels
<1>2. c \div 6 \in 0 .. 23 /\ 10 * (c % 6) \in 0 .. 59
  OBVIOUS
<1>3. k = [h |-> c \div 6, m |-> 10 * (c % 6), s |-> 0, f |-> 0]
  <2>1. l = [h |-> l.h, m |-> l.m, s |-> 0, f |-> 0]
    BY DEF Labels
  <2>2. StartOf(c, l) = [l EXCEPT !.h = c \div 6, !.m = 10 * (c % 6)]
    BY DEF StartOf
  <2> QED
    BY <2>1, <2>2
<1> HIDE DEF k
<1>4. k \in Labels
  BY <1>1, <1>2, <1>3 DEF Labels
<1>5. k.m % 10 = 0 /\ k.s = 0 /\ k.f = 0 /\ 6 * k.h + k.m \div 10 = c
  <2> c \div 6 \in Nat /\ c % 6 \in 0 .. 5
    OBVIOUS
  <2>1. PICK z \in Nat, r \in 0 .. 5 : z = c \div 6 /\ r = c % 6
    OBVIOUS
  <2>2. c = 6 * z + r
    BY <2>1
  <2>3. (10 * r) % 10 = 0 /\ (10 * r) \div 10 = r
    <3>1. r = 0 \/ r = 1 \/ r = 2 \/ r = 3 \/ r = 4 \/ r = 5
      OBVIOUS
    <3> HIDE <2>1
    <3> QED
      BY <3>1
  <2>4. k.h = z /\ k.m = 10 * r /\ k.s = 0 /\ k.f = 0
    BY <1>3, <2>1
  <2> QED
    BY <2>2, <2>3, <2>4
<1>6. PICK N \in Nat, D \in Nat, b \in Nat :
        N = rate.nominal /\ D = rate.drop /\ b = 6 * l.h + l.m \div 10 /\ c = b + 1
  <2>1. PICK b \in Nat : b = 6 * l.h + l.m \div 10
    BY <1>1
  <2>2. c = b + 1
    BY <1>1, <2>1
  <2> QED
    BY <1>1, <2>1, <2>2
<1>7. Clock!originFrames(l) = b * (N * 600 - D * 9)
  BY <1>6, StartOfBlock
<1>8. Clock!originFrames(k) = c * (N * 600 - D * 9)
  BY <1>4, <1>5, <1>6, StartOfBlock
<1>9. c * (N * 600 - D * 9) = b * (N * 600 - D * 9) + 600 * N - 9 * D
  <2>1. (b + 1) * (N * 600 - D * 9) = b * (N * 600 - D * 9) + (N * 600 - D * 9)
    OBVIOUS
  <2> QED
    BY <1>6, <2>1
<1>10. /\ k \in Labels /\ Clock!validOrigin(k)
       /\ Clock!originFrames(k) = Clock!originFrames(l) + 600 * rate.nominal - 9 * rate.drop
  BY <1>4, <1>5, <1>6, <1>7, <1>8, <1>9 DEF Clock!validOrigin
<1> QED
  BY <1>10 DEF k

\* The last frame of the day has the last label, and no other frame has.
LEMMA LastFrame ==
  ASSUME RateOK(rate), NEW l \in Labels, Clock!validOrigin(l)
  PROVE  Clock!originFrames(l) + 1 = Clock!dayFrames <=> l = LastLabel
<1>1. PICK N \in Nat, D \in Nat : N = rate.nominal /\ D = rate.drop /\ D < N
  BY DEF RateOK
<1>2. LastLabel \in Labels /\ Clock!validOrigin(LastLabel)
  BY <1>1 DEF LastLabel, Labels, Clock!validOrigin
<1>3. Clock!originFrames(LastLabel) = 86399 * N + (N - 1) - D * 1296
  BY <1>1 DEF Clock!originFrames, LastLabel
<1>4. Clock!dayFrames = Clock!originFrames(LastLabel) + 1
  BY <1>1, <1>3 DEF Clock!dayFrames
<1>5. Clock!originFrames(l) \in Int /\ Clock!originFrames(LastLabel) \in Int
  BY <1>2, FramesAreInt
<1>6. ASSUME Clock!originFrames(l) = Clock!originFrames(LastLabel)
      PROVE  l = LastLabel
  BY <1>2, <1>6, LabelOfFrames
<1> QED
  BY <1>4, <1>5, <1>6

ClockInv ==
    /\ RateOK(rate) /\ label \in Labels /\ Clock!validOrigin(label)
    /\ frame = Clock!originFrames(label)

LEMMA ClockInit == Clock!Init => ClockInv
<1> SUFFICES ASSUME Clock!Init PROVE ClockInv
  OBVIOUS
<1>1. RateOK(rate) /\ frame = 0 /\ label = [h |-> 0, m |-> 0, s |-> 0, f |-> 0]
  BY ServiceAssumption DEF Clock!Init, Clock!Midnight, RateOK
<1>2. rate.nominal \in Nat /\ rate.drop \in Nat /\ rate.nominal > 0
  BY <1>1 DEF RateOK
<1>3. label \in Labels
  BY <1>1, <1>2 DEF Labels
<1>4. Clock!validOrigin(label) /\ Clock!originFrames(label) = 0
  BY <1>1, <1>2 DEF Clock!validOrigin, Clock!originFrames
<1> QED
  BY <1>1, <1>3, <1>4 DEF ClockInv

LEMMA ClockStep == ClockInv /\ [Clock!Next]_clock => ClockInv'
<1> SUFFICES ASSUME ClockInv, [Clock!Next]_clock PROVE ClockInv'
  OBVIOUS
<1>1. CASE Clock!Frame
  <2>1. label # LastLabel
    <3>1. frame + 1 < Clock!dayFrames /\ frame \in Int /\ Clock!dayFrames \in Int
      BY <1>1, FramesAreInt DEF Clock!Frame, ClockInv
    <3>2. frame + 1 # Clock!dayFrames
      BY <3>1
    <3> QED
      BY <3>2, LastFrame DEF ClockInv
  <2>2. rate' = rate /\ label' = Clock!After(label) /\ frame' = frame + 1
    BY <1>1 DEF Clock!Frame
  <2>3. /\ label' \in Labels /\ Clock!validOrigin(label')
        /\ Clock!originFrames(label') = frame + 1
    BY <2>1, <2>2, NextLabel DEF ClockInv
  <2> QED
    BY <2>2, <2>3 DEF ClockInv, Labels, RateOK, Clock!validOrigin, Clock!originFrames
<1>2. CASE Clock!Leap
  <2>0. label.h \in Nat /\ label.m \in Nat
    BY DEF ClockInv, Labels
  <2> PICK c \in Nat : c = label.h * 6 + label.m \div 10 + 1
    BY <2>0
  <2>1. Clock!Block + 1 = c
    BY <2>0 DEF Clock!Block
  <2>2. Clock!Block \in Int /\ Clock!Block < 143
    BY <1>2, <2>0 DEF Clock!Leap, Clock!Block
  <2>3. /\ label.m % 10 = 0 /\ label.s = 0 /\ label.f = 0 /\ c <= 143
        /\ rate' = rate /\ frame' = frame + 600 * rate.nominal - 9 * rate.drop
    BY <1>2, <2>1, <2>2 DEF Clock!Leap, Clock!AtBlock
  <2> DEFINE k == StartOf(c, label)
  <2>4. label' = k
    BY <1>2, <2>1 DEF Clock!Leap, StartOf
  <2>5. /\ k \in Labels /\ Clock!validOrigin(k)
        /\ Clock!originFrames(k) = frame'
    <3>1. RateOK(rate) /\ label \in Labels /\ frame = Clock!originFrames(label)
      BY DEF ClockInv
    <3>2. label.m % 10 = 0 /\ label.s = 0 /\ label.f = 0 /\ c <= 143
      BY <2>3
    <3>3. /\ k \in Labels /\ Clock!validOrigin(k)
          /\ Clock!originFrames(k) =
               Clock!originFrames(label) + 600 * rate.nominal - 9 * rate.drop
      BY <3>1, <3>2, NextBlock
    <3> QED
      BY <2>3, <3>1, <3>3
  <2> QED
    BY <2>3, <2>4, <2>5 DEF ClockInv, Labels, RateOK, Clock!validOrigin, Clock!originFrames
<1>3. CASE UNCHANGED clock
  BY <1>3 DEF clock, ClockInv, Labels, RateOK, Clock!validOrigin, Clock!originFrames
<1> QED
  BY <1>1, <1>2, <1>3 DEF Clock!Next

\* At every rate, whatever it leaves out of a minute, the two formulas are each other's
\* inverse and agree with counting, on every frame of the day.
THEOREM LabelsAgree == ServiceSpec => []EveryFrameHasItsLabel
<1>1. ServiceInit => ClockInv
  BY ClockInit DEF ServiceInit
<1>2. ClockInv /\ [ServiceNext]_everything => ClockInv'
  <2>1. [ServiceNext]_everything => [Clock!Next]_clock
    BY DEF ServiceNext, everything, Limiting, SigningUp, Playing, Saving, Exporting, Counting, clock
  <2> QED
    BY <2>1, ClockStep
<1>3. ClockInv => EveryFrameHasItsLabel
  BY LabelOfFrames, LastFrame
     DEF ClockInv, EveryFrameHasItsLabel, Clock!EveryFrameHasItsLabel, LastLabel
<1> QED
  BY <1>1, <1>2, <1>3, PTL DEF ServiceSpec

-----------------------------------------------------------------------------
(***************************************************************************)
(* Signing up.  While an account waits to be verified, a request is on its *)
(* way to making a link for it, or the last link is among those there are. *)
(***************************************************************************)

Steps == {"idle", "create", "accept", "wipe", "insert", "verify", "count", "grant"}

Accounts == [id : Nat, verified : BOOLEAN, social : BOOLEAN, member : BOOLEAN, trials : Nat]

Requests == [step : Steps, id : Nat, invitation : BOOLEAN, token : Nat]

SignupTypes ==
    /\ account \in Accounts /\ calls \in [Calls -> Requests]
    /\ made \in Nat /\ last \in Nat
    /\ tokens \subseteq 1 .. last /\ expired \subseteq tokens
    /\ invited \in BOOLEAN /\ excused \in BOOLEAN

\* Ids are of accounts that were made.
Identified ==
    /\ account.id = 0 => account = Joining!NoAccount
    /\ \A c \in Calls : calls[c].step \in {"accept", "count", "grant"} => calls[c].id # 0

Waits == account.id # 0 /\ ~account.verified /\ ~account.social /\ ~excused

Promises(c) ==
    \/ calls[c].step \in {"wipe", "insert"}
    \/ calls[c].step = "accept" /\ calls[c].id = account.id

LinkComes == last \in tokens \/ \E c \in Calls : Promises(c)

SignupInv ==
    /\ SignupTypes /\ Identified
    /\ last \in expired => excused
    /\ ~Smtp /\ account.id # 0 => account.verified \/ account.social
    /\ Waits => LinkComes

LEMMA NoAccountTyped ==
  Joining!NoAccount \in Accounts /\ Joining!NoAccount.id = 0 /\ Joining!Idle \in Requests
BY DEF Joining!NoAccount, Joining!Idle, Accounts, Requests, Steps

LEMMA SignupInit == Joining!Init => SignupInv
<1> SUFFICES ASSUME Joining!Init PROVE SignupInv
  OBVIOUS
<1>1. /\ account = Joining!NoAccount /\ tokens = {} /\ expired = {} /\ last = 0
      /\ made = 0 /\ excused = FALSE /\ invited \in BOOLEAN
  BY DEF Joining!Init
<1>2. calls \in [Calls -> Requests] /\ \A c \in Calls : calls[c].step = "idle"
  BY NoAccountTyped DEF Joining!Init, Joining!Idle
<1>3. SignupTypes
  BY <1>1, <1>2, NoAccountTyped DEF SignupTypes
<1>4. Identified
  BY <1>1, <1>2 DEF Identified
<1> QED
  BY <1>1, <1>3, <1>4, NoAccountTyped DEF SignupInv, Waits

\* A request that promised no link goes on or ends, and the account, the links and what
\* is excused stay as they are.
LEMMA OthersKeep ==
  ASSUME SignupInv, NEW c \in Calls, NEW r \in Requests,
         ~Promises(c) \/ r.step \in {"wipe", "insert"},
         r.step \in {"accept", "count", "grant"} => r.id # 0,
         calls' = [calls EXCEPT ![c] = r], invited' \in BOOLEAN,
         UNCHANGED <<account, tokens, expired, made, last, excused>>
  PROVE  SignupInv'
<1>1. SignupTypes'
  BY DEF SignupInv, SignupTypes
<1>2. Identified'
  BY DEF SignupInv, SignupTypes, Identified
<1>3. \A d \in Calls : Promises(d) => Promises(d)'
  BY DEF Promises, SignupInv, SignupTypes
<1> QED
  BY <1>1, <1>2, <1>3 DEF SignupInv, Waits, LinkComes

\* The request that just moved, and the others.
LEMMA OneMoves ==
  ASSUME SignupTypes, NEW c \in Calls, NEW r \in Requests,
         calls' = [calls EXCEPT ![c] = r]
  PROVE  /\ calls' \in [Calls -> Requests] /\ calls'[c] = r
         /\ \A d \in Calls : d # c => calls'[d] = calls[d]
BY DEF SignupTypes

LEMMA Registering ==
  ASSUME SignupInv, NEW c \in Calls,
         Joining!RegisterCheck(c) \/ Joining!RegisterCreate(c) \/ Joining!RegisterAccept(c)
           \/ Joining!SocialSignIn(c)
  PROVE  SignupInv'
<1> USE ServiceAssumption, NoAccountTyped DEF Joining!At, Joining!Exists
<1>1. CASE Joining!RegisterCheck(c)
  <2> PICK invitation \in BOOLEAN :
         calls' = [calls EXCEPT ![c] = [Joining!Idle EXCEPT !.step = "create",
                                                          !.invitation = invitation]]
    BY <1>1 DEF Joining!RegisterCheck, Joining!Begins, SignupInv, SignupTypes
  <2> DEFINE r == [Joining!Idle EXCEPT !.step = "create", !.invitation = invitation]
  <2>1. r \in Requests /\ r.step = "create"
    BY DEF Joining!Idle, Requests, Steps
  <2>2. ~Promises(c)
    BY <1>1 DEF Joining!RegisterCheck, Joining!Begins, Joining!Idle, Promises
  <2>3. UNCHANGED <<account, tokens, expired, made, last, excused, invited>>
    BY <1>1 DEF Joining!RegisterCheck
  <2>4. invited' \in BOOLEAN
    BY <2>3 DEF SignupInv, SignupTypes
  <2> HIDE DEF r
  <2> QED
    BY <2>1, <2>2, <2>3, <2>4, OthersKeep DEF r
<1>2. CASE Joining!RegisterCreate(c) /\ account # Joining!NoAccount
  <2>1. /\ calls' = [calls EXCEPT ![c] = Joining!Idle] /\ calls[c].step = "create"
        /\ UNCHANGED <<account, tokens, expired, made, last, excused, invited>>
    BY <1>2 DEF Joining!RegisterCreate, Joining!Ends
  <2>2. ~Promises(c) /\ Joining!Idle.step = "idle" /\ invited' \in BOOLEAN
    BY <2>1 DEF Promises, Joining!Idle, SignupInv, SignupTypes
  <2> QED
    BY <2>1, <2>2, OthersKeep
<1>3. CASE Joining!RegisterCreate(c) /\ account = Joining!NoAccount
  <2> DEFINE step == IF calls[c].invitation THEN "accept" ELSE Joining!Owed
             r == [calls[c] EXCEPT !.id = made', !.step = step]
  <2>1. /\ made' = made + 1 /\ account' = [Joining!NoAccount EXCEPT !.id = made', !.verified = ~Smtp]
        /\ calls' = [calls EXCEPT ![c] = r]
        /\ UNCHANGED <<tokens, expired, last, invited, excused>>
    BY <1>3 DEF Joining!RegisterCreate, SignupInv, SignupTypes
  <2>2. made \in Nat /\ made' \in Nat /\ made' # 0
    BY <2>1 DEF SignupInv, SignupTypes
  <2>3. step \in Steps /\ (Smtp => step \in {"accept", "wipe"})
    BY DEF Steps, Joining!Owed
  <2>4. r \in Requests /\ r.id = made' /\ r.step = step
    BY <2>2, <2>3 DEF SignupInv, SignupTypes, Requests
  <2>5. /\ account' \in Accounts /\ account'.id = made' /\ account'.verified = ~Smtp
    BY <2>1, <2>2 DEF Accounts, Joining!NoAccount
  <2> HIDE DEF r
  <2>6. /\ calls' \in [Calls -> Requests] /\ calls'[c] = r
        /\ \A d \in Calls : d # c => calls'[d] = calls[d]
    BY <2>1, <2>4, OneMoves DEF SignupInv
  <2>7. SignupTypes'
    BY <2>1, <2>2, <2>5, <2>6 DEF SignupInv, SignupTypes
  <2>8. Identified'
    <3>1. \A d \in Calls : calls'[d].step \in {"accept", "count", "grant"} => calls'[d].id # 0
      BY <2>2, <2>4, <2>6 DEF SignupInv, Identified
    <3> QED
      BY <2>2, <2>5, <3>1 DEF Identified
  <2>9. Smtp => Promises(c)'
    BY <2>3, <2>4, <2>5, <2>6 DEF Promises
  <2>10. Waits' => Smtp
    BY <2>5 DEF Waits
  <2> QED
    BY <2>1, <2>5, <2>7, <2>8, <2>9, <2>10 DEF SignupInv, LinkComes
<1>4. CASE Joining!RegisterAccept(c) /\ invited' = FALSE /\ Joining!Goes(c, Joining!Owed)
             /\ account' = IF account.id = calls[c].id THEN [account EXCEPT !.member = TRUE]
                           ELSE account
  <2> DEFINE r == [calls[c] EXCEPT !.step = Joining!Owed]
  <2>1. /\ calls' = [calls EXCEPT ![c] = r] /\ calls[c].step = "accept"
        /\ UNCHANGED <<tokens, expired, made, last, excused>>
    BY <1>4 DEF Joining!Goes, Joining!RegisterAccept
  <2>2. /\ account' \in Accounts /\ account'.id = account.id
        /\ account'.verified = account.verified /\ account'.social = account.social
        /\ (account.id = 0 => calls[c].id # 0 /\ account' = account)
    BY <1>4, <2>1 DEF SignupInv, SignupTypes, Accounts, Identified
  <2>3. r \in Requests /\ r.step = Joining!Owed /\ r.id = calls[c].id /\ Joining!Owed \in {"wipe", "count"}
        /\ (Smtp => Joining!Owed = "wipe")
    BY DEF SignupInv, SignupTypes, Requests, Steps, Joining!Owed
  <2> HIDE DEF r
  <2>4. /\ calls' \in [Calls -> Requests] /\ calls'[c] = r
        /\ \A d \in Calls : d # c => calls'[d] = calls[d]
    BY <2>1, <2>3, OneMoves DEF SignupInv
  <2>5. SignupTypes'
    BY <1>4, <2>1, <2>2, <2>4 DEF SignupInv, SignupTypes
  <2>6. Identified'
    <3>1. \A d \in Calls : calls'[d].step \in {"accept", "count", "grant"} => calls'[d].id # 0
      BY <2>1, <2>3, <2>4 DEF SignupInv, Identified
    <3> QED
      BY <2>2, <3>1 DEF SignupInv, Identified
  <2>7. Waits' => Smtp
    BY <2>1, <2>2 DEF Waits, SignupInv
  <2>8. Smtp => Promises(c)'
    BY <2>3, <2>4 DEF Promises
  <2> QED
    BY <2>1, <2>2, <2>5, <2>6, <2>7, <2>8 DEF SignupInv, LinkComes
<1>5. CASE Joining!RegisterAccept(c) /\ Joining!Ends(c) /\ invited' = invited
             /\ account' = IF account.id = calls[c].id THEN Joining!NoAccount ELSE account
  <2>1. /\ calls' = [calls EXCEPT ![c] = Joining!Idle] /\ calls[c].step = "accept"
        /\ UNCHANGED <<tokens, expired, made, last, excused, invited>>
    BY <1>5 DEF Joining!Ends, Joining!RegisterAccept
  <2>2. CASE account.id # calls[c].id
    <3>1. ~Promises(c) /\ account' = account /\ Joining!Idle.step = "idle" /\ invited' \in BOOLEAN
      BY <1>5, <2>1, <2>2 DEF Promises, Joining!Idle, SignupInv, SignupTypes
    <3> QED
      BY <2>1, <3>1, OthersKeep
  <2>3. CASE account.id = calls[c].id
    <3>1. account' = Joining!NoAccount
      BY <1>5, <2>3
    <3>2. /\ calls' \in [Calls -> Requests] /\ calls'[c] = Joining!Idle
          /\ \A d \in Calls : d # c => calls'[d] = calls[d]
      BY <2>1, OneMoves DEF SignupInv
    <3>3. SignupTypes'
      BY <2>1, <3>1, <3>2 DEF SignupInv, SignupTypes
    <3>4. Identified'
      BY <3>1, <3>2 DEF SignupInv, Identified, Joining!Idle
    <3> QED
      BY <2>1, <3>1, <3>3, <3>4 DEF SignupInv, Waits
  <2> QED
    BY <2>2, <2>3
<1>6. CASE Joining!SocialSignIn(c)
  <2> DEFINE r == [Joining!Idle EXCEPT !.step = "count", !.id = made']
  <2>1. /\ made' = made + 1 /\ account' = [Joining!NoAccount EXCEPT !.id = made', !.social = TRUE]
        /\ calls' = [calls EXCEPT ![c] = r]
        /\ UNCHANGED <<tokens, expired, last, invited, excused>>
    BY <1>6 DEF Joining!SocialSignIn, Joining!Begins
  <2>2. made \in Nat /\ made' \in Nat /\ made' # 0
    BY <2>1 DEF SignupInv, SignupTypes
  <2>3. r \in Requests /\ r.id = made'
    BY <2>2 DEF Joining!Idle, Requests, Steps
  <2>4. account' \in Accounts /\ account'.id = made' /\ account'.social
    BY <2>1, <2>2 DEF Accounts, Joining!NoAccount
  <2> HIDE DEF r
  <2>5. /\ calls' \in [Calls -> Requests] /\ calls'[c] = r
        /\ \A d \in Calls : d # c => calls'[d] = calls[d]
    BY <2>1, <2>3, OneMoves DEF SignupInv
  <2>6. SignupTypes'
    BY <2>1, <2>2, <2>4, <2>5 DEF SignupInv, SignupTypes
  <2>7. Identified'
    <3>1. \A d \in Calls : calls'[d].step \in {"accept", "count", "grant"} => calls'[d].id # 0
      BY <2>2, <2>3, <2>5 DEF SignupInv, Identified
    <3> QED
      BY <2>2, <2>4, <3>1 DEF Identified
  <2> QED
    BY <2>1, <2>4, <2>6, <2>7 DEF SignupInv, Waits
<1> QED
  BY <1>1, <1>2, <1>3, <1>4, <1>5, <1>6 DEF Joining!RegisterAccept

LEMMA MakingALink ==
  ASSUME SignupInv, NEW c \in Calls,
         Joining!Resend(c) \/ Joining!Wipe(c) \/ Joining!Insert(c)
  PROVE  SignupInv'
<1> USE ServiceAssumption, NoAccountTyped DEF Joining!At
<1>1. CASE Joining!Resend(c)
  <2> DEFINE r == [Joining!Idle EXCEPT !.step = "wipe"]
  <2>1. r \in Requests /\ r.step = "wipe"
    BY DEF Joining!Idle, Requests, Steps
  <2>2. /\ calls' = [calls EXCEPT ![c] = r]
        /\ UNCHANGED <<account, tokens, expired, made, last, excused, invited>>
    BY <1>1 DEF Joining!Resend, Joining!Begins
  <2>3. invited' \in BOOLEAN
    BY <2>2 DEF SignupInv, SignupTypes
  <2> HIDE DEF r
  <2> QED
    BY <2>1, <2>2, <2>3, OthersKeep
<1>2. CASE Joining!Wipe(c)
  <2> DEFINE r == [calls[c] EXCEPT !.step = "insert"]
  <2>1. /\ calls' = [calls EXCEPT ![c] = r] /\ tokens' = {} /\ expired' = {}
        /\ UNCHANGED <<account, made, last, invited, excused>>
    BY <1>2 DEF Joining!Wipe, Joining!Goes
  <2>2. r \in Requests /\ r.step = "insert"
    BY DEF SignupInv, SignupTypes, Requests, Steps
  <2> HIDE DEF r
  <2>3. /\ calls' \in [Calls -> Requests] /\ calls'[c] = r
        /\ \A d \in Calls : d # c => calls'[d] = calls[d]
    BY <2>1, <2>2, OneMoves DEF SignupInv
  <2>4. SignupTypes'
    BY <2>1, <2>3 DEF SignupInv, SignupTypes
  <2>5. Identified'
    BY <2>1, <2>2, <2>3 DEF SignupInv, Identified
  <2>6. Promises(c)'
    BY <2>2, <2>3 DEF Promises
  <2> QED
    BY <2>1, <2>4, <2>5, <2>6 DEF SignupInv, LinkComes
<1>3. CASE Joining!Insert(c)
  <2>1. /\ calls' = [calls EXCEPT ![c] = Joining!Idle] /\ last' = last + 1
        /\ tokens' = tokens \cup {last'} /\ excused' = FALSE
        /\ UNCHANGED <<account, expired, made, invited>>
    BY <1>3 DEF Joining!Insert, Joining!Ends
  <2>2. /\ calls' \in [Calls -> Requests] /\ calls'[c] = Joining!Idle
        /\ \A d \in Calls : d # c => calls'[d] = calls[d]
    BY <2>1, OneMoves DEF SignupInv
  <2>3. last \in Nat /\ last' \in Nat /\ last' > last /\ tokens' \subseteq 1 .. last'
    BY <2>1 DEF SignupInv, SignupTypes
  <2>4. SignupTypes'
    BY <2>1, <2>2, <2>3 DEF SignupInv, SignupTypes
  <2>5. Identified'
    BY <2>1, <2>2 DEF SignupInv, Identified, Joining!Idle
  <2>6. last' \notin expired'
    BY <2>1, <2>3 DEF SignupInv, SignupTypes
  <2> QED
    BY <2>1, <2>4, <2>5, <2>6 DEF SignupInv, LinkComes
<1> QED
  BY <1>1, <1>2, <1>3

LEMMA UsingALink ==
  ASSUME SignupInv, NEW c \in Calls,
         (\E t \in Joining!Tokens : Joining!VerifyFind(c, t)) \/ Joining!VerifyCommit(c)
           \/ (\E t \in Joining!Tokens : Joining!Expire(t))
  PROVE  SignupInv'
<1> USE ServiceAssumption, NoAccountTyped DEF Joining!At
<1>1. ASSUME NEW t \in Joining!Tokens, Joining!VerifyFind(c, t) PROVE SignupInv'
  <2>1. CASE t \in expired /\ Joining!Used(t) /\ UNCHANGED calls
    <3>1. /\ tokens' = tokens \ {t} /\ expired' = expired \ {t}
          /\ UNCHANGED <<account, made, last, invited, excused, calls>>
      BY <1>1, <2>1 DEF Joining!VerifyFind, Joining!Used
    <3>2. SignupTypes' /\ Identified'
      BY <3>1 DEF SignupInv, SignupTypes, Identified
    <3>3. (\E d \in Calls : Promises(d)) => \E d \in Calls : Promises(d)'
      BY <3>1 DEF Promises
    <3> QED
      BY <2>1, <3>1, <3>2, <3>3 DEF SignupInv, Waits, LinkComes
  <2>2. CASE /\ Joining!Begins(c, [Joining!Idle EXCEPT !.step = "verify", !.token = t])
             /\ UNCHANGED <<tokens, expired>>
    <3> DEFINE r == [Joining!Idle EXCEPT !.step = "verify", !.token = t]
    <3>1. t \in Nat
      BY DEF Joining!Tokens
    <3>2. r \in Requests /\ r.step = "verify"
      BY <3>1 DEF Joining!Idle, Requests, Steps
    <3>3. calls' = [calls EXCEPT ![c] = r] /\ calls[c] = Joining!Idle
      BY <2>2 DEF Joining!Begins
    <3>4. UNCHANGED <<account, tokens, expired, made, last, excused, invited>>
      BY <1>1, <2>2 DEF Joining!VerifyFind
    <3>5. ~Promises(c) /\ invited' \in BOOLEAN
      BY <3>3, <3>4 DEF Promises, Joining!Idle, SignupInv, SignupTypes
    <3> HIDE DEF r
    <3> QED
      BY <3>2, <3>3, <3>4, <3>5, OthersKeep
  <2> QED
    BY <1>1, <2>1, <2>2 DEF Joining!VerifyFind
<1>2. CASE Joining!VerifyCommit(c) /\ calls[c].token \in tokens
  <2>1. /\ tokens' = tokens \ {calls[c].token} /\ expired' = expired \ {calls[c].token}
        /\ UNCHANGED <<made, last, invited, excused>>
    BY <1>2 DEF Joining!VerifyCommit, Joining!Used
  <2>2. CASE Joining!Exists /\ ~account.verified
    <3> DEFINE r == [Joining!Idle EXCEPT !.step = "count", !.id = account.id]
    <3>1. /\ account' = [account EXCEPT !.verified = TRUE] /\ calls' = [calls EXCEPT ![c] = r]
      BY <1>2, <2>2 DEF Joining!VerifyCommit
    <3>2. /\ account' \in Accounts /\ account'.verified /\ account'.id = account.id
          /\ account.id \in Nat /\ account.id # 0
      BY <2>2, <3>1 DEF SignupInv, SignupTypes, Accounts, Joining!Exists, Identified
    <3>3. r \in Requests /\ r.id = account.id
      BY <3>2 DEF Joining!Idle, Requests, Steps
    <3> HIDE DEF r
    <3>4. /\ calls' \in [Calls -> Requests] /\ calls'[c] = r
          /\ \A d \in Calls : d # c => calls'[d] = calls[d]
      BY <3>1, <3>3, OneMoves DEF SignupInv
    <3>5. SignupTypes'
      BY <2>1, <3>2, <3>4 DEF SignupInv, SignupTypes
    <3>6. Identified'
      <4>1. \A d \in Calls : calls'[d].step \in {"accept", "count", "grant"} => calls'[d].id # 0
        BY <3>2, <3>3, <3>4 DEF SignupInv, Identified
      <4> QED
        BY <3>2, <4>1 DEF Identified
    <3> QED
      BY <2>1, <3>2, <3>5, <3>6 DEF SignupInv, Waits
  <2>3. CASE ~(Joining!Exists /\ ~account.verified)
    <3>1. /\ calls' = [calls EXCEPT ![c] = Joining!Idle] /\ account' = account
      BY <1>2, <2>3 DEF Joining!VerifyCommit, Joining!Ends
    <3>2. /\ calls' \in [Calls -> Requests] /\ calls'[c] = Joining!Idle
          /\ \A d \in Calls : d # c => calls'[d] = calls[d]
      BY <3>1, OneMoves DEF SignupInv
    <3>3. SignupTypes' /\ Identified'
      BY <2>1, <3>1, <3>2 DEF SignupInv, SignupTypes, Identified, Joining!Idle
    <3>4. ~Waits'
      BY <2>3, <3>1 DEF Waits, Joining!Exists
    <3> QED
      BY <2>1, <3>1, <3>3, <3>4 DEF SignupInv
  <2> QED
    BY <2>2, <2>3
<1>3. CASE Joining!VerifyCommit(c) /\ calls[c].token \notin tokens
  <2>1. /\ calls' = [calls EXCEPT ![c] = Joining!Idle] /\ calls[c].step = "verify"
        /\ UNCHANGED <<account, tokens, expired, made, last, invited, excused>>
    BY <1>3 DEF Joining!VerifyCommit, Joining!Ends
  <2>2. ~Promises(c) /\ Joining!Idle.step = "idle" /\ invited' \in BOOLEAN
    BY <2>1 DEF Promises, Joining!Idle, SignupInv, SignupTypes
  <2> QED
    BY <2>1, <2>2, OthersKeep
<1>4. ASSUME NEW t \in Joining!Tokens, Joining!Expire(t) PROVE SignupInv'
  <2>1. /\ t \in tokens /\ expired' = expired \cup {t} /\ excused' = (excused \/ t = last)
        /\ UNCHANGED <<account, tokens, made, last, invited, calls>>
    BY <1>4 DEF Joining!Expire
  <2>2. SignupTypes' /\ Identified'
    BY <2>1 DEF SignupInv, SignupTypes, Identified
  <2>3. (\E d \in Calls : Promises(d)) => \E d \in Calls : Promises(d)'
    BY <2>1 DEF Promises
  <2> QED
    BY <2>1, <2>2, <2>3 DEF SignupInv, SignupTypes, Waits, LinkComes
<1> QED
  BY <1>1, <1>2, <1>3, <1>4

LEMMA TrialsAndCrashes ==
  ASSUME SignupInv, NEW c \in Calls,
         Joining!Count(c) \/ Joining!Grant(c) \/ Joining!ClaimTrial(c) \/ Joining!Crash(c)
  PROVE  SignupInv'
<1> USE ServiceAssumption, NoAccountTyped DEF Joining!At
<1>1. CASE Joining!Count(c)
  <2> PICK r \in {Joining!Idle, [calls[c] EXCEPT !.step = "grant"]} :
         calls' = [calls EXCEPT ![c] = r]
    BY <1>1 DEF Joining!Count, Joining!Ends, Joining!Goes
  <2>1. r \in Requests /\ (r.step \in {"accept", "count", "grant"} => r.id # 0)
    BY <1>1 DEF Joining!Count, SignupInv, SignupTypes, Identified, Requests, Steps, Joining!Idle
  <2>2. ~Promises(c) /\ invited' \in BOOLEAN
        /\ UNCHANGED <<account, tokens, expired, made, last, excused>>
    BY <1>1 DEF Joining!Count, Promises, SignupInv, SignupTypes
  <2> QED
    BY <2>1, <2>2, OthersKeep
<1>2. CASE Joining!Grant(c)
  <2>1. /\ calls' = [calls EXCEPT ![c] = Joining!Idle] /\ calls[c].step = "grant"
        /\ UNCHANGED <<tokens, expired, made, last, invited, excused>>
    BY <1>2 DEF Joining!Grant, Joining!Ends
  <2>2. /\ account' \in Accounts /\ account'.id = account.id
        /\ account'.verified = account.verified /\ account'.social = account.social
        /\ (account.id = 0 => account' = account)
    BY <1>2, <2>1 DEF Joining!Grant, SignupInv, SignupTypes, Identified, Accounts
  <2>3. /\ calls' \in [Calls -> Requests] /\ calls'[c] = Joining!Idle
        /\ \A d \in Calls : d # c => calls'[d] = calls[d]
    BY <2>1, OneMoves DEF SignupInv
  <2>4. SignupTypes' /\ Identified'
    BY <2>1, <2>2, <2>3 DEF SignupInv, SignupTypes, Identified, Joining!Idle
  <2>5. \A d \in Calls : Promises(d) => Promises(d)'
    BY <2>1, <2>2, <2>3 DEF Promises
  <2> QED
    BY <2>1, <2>2, <2>4, <2>5 DEF SignupInv, Waits, LinkComes
<1>3. CASE Joining!ClaimTrial(c)
  <2> DEFINE r == [Joining!Idle EXCEPT !.step = "grant", !.id = account.id]
  <2>1. account.id \in Nat /\ account.id # 0
    BY <1>3 DEF Joining!ClaimTrial, Joining!SignedIn, Joining!Exists, SignupInv, SignupTypes,
                Identified, Accounts
  <2>2. r \in Requests /\ r.id = account.id
    BY <2>1 DEF Joining!Idle, Requests, Steps
  <2>3. /\ calls' = [calls EXCEPT ![c] = r] /\ calls[c].step = "idle"
        /\ UNCHANGED <<account, tokens, expired, made, last, excused, invited>>
    BY <1>3 DEF Joining!ClaimTrial, Joining!Begins, Joining!Idle
  <2>4. ~Promises(c) /\ invited' \in BOOLEAN
    BY <2>3 DEF Promises, SignupInv, SignupTypes
  <2> HIDE DEF r
  <2> QED
    BY <2>1, <2>2, <2>3, <2>4, OthersKeep
<1>4. CASE Joining!Crash(c)
  <2>1. /\ calls' = [calls EXCEPT ![c] = Joining!Idle]
        /\ excused' = (excused \/ calls[c].step \in {"accept", "wipe", "insert"})
        /\ UNCHANGED <<account, tokens, expired, made, last, invited>>
    BY <1>4 DEF Joining!Crash, Joining!Ends
  <2>2. /\ calls' \in [Calls -> Requests] /\ calls'[c] = Joining!Idle
        /\ \A d \in Calls : d # c => calls'[d] = calls[d]
    BY <2>1, OneMoves DEF SignupInv
  <2>3. SignupTypes' /\ Identified'
    BY <2>1, <2>2 DEF SignupInv, SignupTypes, Identified, Joining!Idle
  <2>4. ~excused' => \A d \in Calls : Promises(d) => Promises(d)'
    BY <2>1, <2>2 DEF Promises
  <2> QED
    BY <2>1, <2>3, <2>4 DEF SignupInv, Waits, LinkComes
<1> QED
  BY <1>1, <1>2, <1>3, <1>4

LEMMA OthersInvite ==
  ASSUME SignupInv, Joining!Invite \/ Joining!InvitationEnds \/ Joining!LeaveTeam
  PROVE  SignupInv'
<1>1. /\ UNCHANGED <<tokens, expired, made, last, calls, excused>> /\ invited' \in BOOLEAN
  BY DEF Joining!Invite, Joining!InvitationEnds, Joining!LeaveTeam, SignupInv, SignupTypes
<1>2. /\ account' \in Accounts /\ account'.id = account.id
      /\ account'.verified = account.verified /\ account'.social = account.social
      /\ (account.id = 0 => account' = account)
  BY NoAccountTyped DEF Joining!Invite, Joining!InvitationEnds, Joining!LeaveTeam, Joining!SignedIn,
       Joining!Exists, Joining!NoAccount, SignupInv, SignupTypes, Identified, Accounts
<1>3. SignupTypes' /\ Identified'
  BY <1>1, <1>2 DEF SignupInv, SignupTypes, Identified
<1>4. \A d \in Calls : Promises(d) => Promises(d)'
  BY <1>1, <1>2 DEF Promises
<1> QED
  BY <1>1, <1>2, <1>3, <1>4 DEF SignupInv, Waits, LinkComes

LEMMA SignupStep == SignupInv /\ [ServiceNext]_everything => SignupInv'
<1> SUFFICES ASSUME SignupInv, [ServiceNext]_everything PROVE SignupInv'
  OBVIOUS
<1>1. CASE SigningUp
  <2>1. Joining!Next
    BY <1>1 DEF SigningUp
  <2>2. ASSUME NEW t \in Joining!Tokens, Joining!Expire(t) PROVE SignupInv'
    <3>1. CASE Calls = {}
      <4>1. /\ t \in tokens /\ expired' = expired \cup {t} /\ excused' = (excused \/ t = last)
            /\ UNCHANGED <<account, tokens, made, last, invited, calls>>
        BY <2>2 DEF Joining!Expire
      <4> QED
        BY <3>1, <4>1 DEF SignupInv, SignupTypes, Identified, Waits, LinkComes
    <3>2. CASE Calls # {}
      BY <2>2, <3>2, UsingALink
    <3> QED
      BY <3>1, <3>2
  <2> QED
    BY <2>1, <2>2, Registering, MakingALink, UsingALink, TrialsAndCrashes, OthersInvite
    DEF Joining!Next
<1>2. CASE UNCHANGED joining
  BY <1>2 DEF joining, SignupInv, SignupTypes, Identified, Waits, LinkComes, Promises
<1> QED
  BY <1>1, <1>2 DEF ServiceNext, Limiting, Playing, Saving, Exporting, Counting, everything

\* Whoever waits to be verified has a link that works, the last one made, until it is
\* too old: neither two requests for a link side by side nor a registration taken back
\* leave an account without one (createVerificationToken, the registration and the
\* resend route).
THEOREM LastLink == ServiceSpec => []LastLinkWorks
<1>1. ServiceInit => SignupInv
  BY SignupInit DEF ServiceInit
<1>2. SignupInv => LastLinkWorks
  BY NoAccountTyped DEF SignupInv, Identified, Waits, LinkComes, Promises, LastLinkWorks,
                        Joining!LastLinkWorks, Joining!Exists
<1> QED
  BY <1>1, <1>2, SignupStep, PTL DEF ServiceSpec

-----------------------------------------------------------------------------
(***************************************************************************)
(* The trial.  A request that is about to count or to grant is about an    *)
(* account that had proven its address when the request got there.  An     *)
(* account never loses that proof, and one made later has another id, so   *)
(* the request cannot reach an account that has proven nothing.            *)
(***************************************************************************)

Proven == account.verified \/ account.social

Grants(c) == calls[c].step \in {"count", "grant"} /\ calls[c].id = account.id

\* Ids are given in order, so a new account is nobody's.
IdsGiven == account.id <= made /\ \A c \in Calls : calls[c].id <= made

TrialInv ==
    /\ SignupInv /\ IdsGiven
    /\ account.trials <= 1
    /\ account.trials = 1 => Proven
    /\ \A c \in Calls : Grants(c) => Proven

LEMMA TrialInit == Joining!Init => TrialInv
<1> SUFFICES ASSUME Joining!Init PROVE TrialInv
  OBVIOUS
<1>1. SignupInv
  BY SignupInit
<1>2. account.id = 0 /\ account.trials = 0 /\ made = 0
  BY DEF Joining!Init, Joining!NoAccount
<1>3. \A c \in Calls : calls[c].step = "idle" /\ calls[c].id = 0
  BY DEF Joining!Init, Joining!Idle
<1> QED
  BY <1>1, <1>2, <1>3 DEF TrialInv, IdsGiven, Grants

\* The account there is keeps its id and its proof, and one more trial needs proof.
SameAccount ==
    /\ account'.id = account.id /\ made' = made
    /\ Proven => Proven'
    /\ account'.trials = account.trials \/ (account'.trials = 1 /\ Proven)

\* The address has another account, or none, with no trial yet.
OtherAccount ==
    /\ account'.trials = 0
    /\ \/ account'.id = 0 /\ made' = made
       \/ made' = made + 1 /\ account'.id = made'

\* One request moves.
LEMMA TrialMoves ==
  ASSUME TrialInv, SignupInv', NEW c \in Calls, NEW r \in Requests,
         calls' = [calls EXCEPT ![c] = r],
         SameAccount \/ OtherAccount,
         r.id <= made',
         r.step \in {"count", "grant"} /\ r.id = account'.id => Proven'
  PROVE  TrialInv'
<1>1. /\ calls'[c] = r /\ \A d \in Calls : d # c => calls'[d] = calls[d]
      /\ \A d \in Calls : calls[d].id \in Nat /\ calls[d].id <= made
      /\ \A d \in Calls : calls[d].step \in {"count", "grant"} => calls[d].id # 0
  BY OneMoves DEF TrialInv, SignupInv, SignupTypes, Identified, IdsGiven, Requests
<1>2. made \in Nat /\ account.id \in Nat /\ account.id <= made /\ account.trials \in Nat
  BY DEF TrialInv, SignupInv, SignupTypes, IdsGiven, Accounts
<1>3. made' \in {made, made + 1} /\ account'.id <= made'
  BY <1>2 DEF SameAccount, OtherAccount
<1>4. IdsGiven'
  BY <1>1, <1>2, <1>3 DEF IdsGiven
<1>5. account'.trials <= 1 /\ (account'.trials = 1 => Proven')
  BY <1>2 DEF SameAccount, OtherAccount, TrialInv
<1>6. ASSUME NEW d \in Calls, Grants(d)' PROVE Proven'
  <2>1. CASE d = c
    BY <1>1, <1>6, <2>1 DEF Grants
  <2>2. CASE d # c
    <3>1. calls[d].step \in {"count", "grant"} /\ calls[d].id = account'.id
      BY <1>1, <1>6, <2>2 DEF Grants
    <3>2. CASE SameAccount
      BY <3>1, <3>2 DEF SameAccount, Grants, TrialInv
    <3>3. CASE OtherAccount
      BY <1>1, <1>2, <3>1, <3>3 DEF OtherAccount
    <3> QED
      BY <3>2, <3>3
  <2> QED
    BY <2>1, <2>2
<1> QED
  BY <1>4, <1>5, <1>6 DEF TrialInv

\* No request moves.
LEMMA TrialStays ==
  ASSUME TrialInv, SignupInv', calls' = calls, SameAccount
  PROVE  TrialInv'
<1>1. account.trials \in Nat
  BY DEF TrialInv, SignupInv, SignupTypes, Accounts
<1>2. \A c \in Calls : Grants(c)' => Grants(c)
  BY DEF SameAccount, Grants
<1> QED
  BY <1>1, <1>2 DEF TrialInv, SameAccount, IdsGiven

LEMMA IdleKept == Joining!Idle \in Requests /\ Joining!Idle.step = "idle" /\ Joining!Idle.id = 0
BY NoAccountTyped DEF Joining!Idle

\* What the requests and the account look like to begin with.
LEMMA TrialTypes ==
  ASSUME TrialInv, NEW c \in Calls
  PROVE  /\ calls[c] \in Requests /\ calls[c].id \in Nat /\ calls[c].id <= made
         /\ made \in Nat /\ account \in Accounts /\ account.id <= made
BY DEF TrialInv, SignupInv, SignupTypes, IdsGiven, Requests

\* A request ends, or goes to a step that has nothing to do with a trial.
LEMMA TrialAside ==
  ASSUME TrialInv, SignupInv', NEW c \in Calls, NEW r \in Requests,
         calls' = [calls EXCEPT ![c] = r],
         SameAccount \/ OtherAccount,
         r.id \in {0, calls[c].id}, r.step \notin {"count", "grant"}
  PROVE  TrialInv'
<1>1. r.id <= made'
  BY TrialTypes DEF SameAccount, OtherAccount
<1> QED
  BY <1>1, TrialMoves

LEMMA TrialRegistering ==
  ASSUME TrialInv, SignupInv', NEW c \in Calls,
         Joining!RegisterCheck(c) \/ Joining!RegisterCreate(c) \/ Joining!RegisterAccept(c)
           \/ Joining!SocialSignIn(c)
  PROVE  TrialInv'
<1> USE ServiceAssumption, NoAccountTyped, IdleKept, TrialTypes DEF Joining!At, Joining!Exists
<1>1. CASE Joining!RegisterCheck(c)
  <2>1. PICK invitation \in {FALSE, invited} :
         calls' = [calls EXCEPT ![c] = [Joining!Idle EXCEPT !.step = "create",
                                                            !.invitation = invitation]]
    BY <1>1 DEF Joining!RegisterCheck, Joining!Begins
  <2> DEFINE r == [Joining!Idle EXCEPT !.step = "create", !.invitation = invitation]
  <2>2. r \in Requests /\ r.step = "create" /\ r.id = 0
    BY DEF Joining!Idle, Requests, Steps, TrialInv, SignupInv, SignupTypes
  <2>3. SameAccount
    BY <1>1 DEF Joining!RegisterCheck, SameAccount, Proven
  <2>4. calls' = [calls EXCEPT ![c] = r]
    BY <2>1
  <2> HIDE DEF r
  <2> QED
    BY <2>2, <2>3, <2>4, TrialAside
<1>2. CASE Joining!RegisterCreate(c) /\ account # Joining!NoAccount
  <2>1. /\ calls' = [calls EXCEPT ![c] = Joining!Idle] /\ account' = account /\ made' = made
    BY <1>2 DEF Joining!RegisterCreate, Joining!Ends
  <2>2. SameAccount
    BY <2>1 DEF SameAccount, Proven
  <2> QED
    BY <2>1, <2>2, TrialAside
<1>3. CASE Joining!RegisterCreate(c) /\ account = Joining!NoAccount
  <2> DEFINE step == IF calls[c].invitation THEN "accept" ELSE Joining!Owed
             r == [calls[c] EXCEPT !.id = made', !.step = step]
  <2>1. /\ made' = made + 1
        /\ account' = [Joining!NoAccount EXCEPT !.id = made', !.verified = ~Smtp]
        /\ calls' = [calls EXCEPT ![c] = r]
    BY <1>3 DEF Joining!RegisterCreate
  <2>2. step \in Steps /\ (step \in {"count", "grant"} => ~Smtp)
    BY DEF Steps, Joining!Owed
  <2>3. made' \in Nat
    BY <2>1
  <2>4. r \in Requests /\ r.id = made' /\ r.step = step
    BY <2>2, <2>3 DEF Requests
  <2>5. account'.id = made' /\ account'.verified = ~Smtp /\ account'.trials = 0
    BY <2>1 DEF Joining!NoAccount
  <2>6. OtherAccount
    BY <2>1, <2>5 DEF OtherAccount
  <2>7. r.step \in {"count", "grant"} => Proven'
    BY <2>2, <2>4, <2>5 DEF Proven
  <2>8. r.id <= made'
    BY <2>3, <2>4
  <2> HIDE DEF r, step
  <2> QED
    BY <2>1, <2>4, <2>6, <2>7, <2>8, TrialMoves
<1>4. CASE Joining!RegisterAccept(c) /\ Joining!Goes(c, Joining!Owed)
             /\ account' = IF account.id = calls[c].id THEN [account EXCEPT !.member = TRUE]
                           ELSE account
  <2> DEFINE r == [calls[c] EXCEPT !.step = Joining!Owed]
  <2>1. calls' = [calls EXCEPT ![c] = r] /\ calls[c].step = "accept" /\ made' = made
    BY <1>4 DEF Joining!Goes, Joining!RegisterAccept
  <2>2. /\ account'.id = account.id /\ account'.trials = account.trials
        /\ account'.verified = account.verified /\ account'.social = account.social
    BY <1>4 DEF Accounts
  <2>3. /\ r \in Requests /\ r.step = Joining!Owed /\ r.id = calls[c].id
        /\ (Joining!Owed \in {"count", "grant"} => ~Smtp)
    BY DEF Requests, Steps, Joining!Owed
  <2>4. SameAccount
    BY <2>1, <2>2 DEF SameAccount, Proven
  <2>5. r.id # 0
    BY <2>1, <2>3 DEF TrialInv, SignupInv, Identified
  <2>6. ~Smtp /\ account.id # 0 => Proven
    BY DEF TrialInv, SignupInv, Proven
  <2>7. r.step \in {"count", "grant"} /\ r.id = account'.id => Proven'
    BY <2>2, <2>3, <2>5, <2>6 DEF Proven
  <2>8. r.id <= made'
    BY <2>1, <2>3
  <2> HIDE DEF r
  <2> QED
    BY <2>1, <2>3, <2>4, <2>7, <2>8, TrialMoves
<1>5. CASE Joining!RegisterAccept(c) /\ Joining!Ends(c)
             /\ account' = IF account.id = calls[c].id THEN Joining!NoAccount ELSE account
  <2>1. calls' = [calls EXCEPT ![c] = Joining!Idle] /\ made' = made
    BY <1>5 DEF Joining!Ends, Joining!RegisterAccept
  <2>2. SameAccount \/ OtherAccount
    BY <1>5, <2>1 DEF SameAccount, OtherAccount, Proven, Joining!NoAccount
  <2> QED
    BY <2>1, <2>2, TrialAside
<1>6. CASE Joining!SocialSignIn(c)
  <2> DEFINE r == [Joining!Idle EXCEPT !.step = "count", !.id = made']
  <2>1. /\ made' = made + 1 /\ calls' = [calls EXCEPT ![c] = r]
        /\ account' = [Joining!NoAccount EXCEPT !.id = made', !.social = TRUE]
    BY <1>6 DEF Joining!SocialSignIn, Joining!Begins
  <2>2. made' \in Nat
    BY <2>1
  <2>3. r \in Requests /\ r.id = made'
    BY <2>2 DEF Joining!Idle, Requests, Steps
  <2>4. account'.id = made' /\ account'.social /\ account'.trials = 0
    BY <2>1 DEF Joining!NoAccount
  <2>5. OtherAccount /\ Proven' /\ r.id <= made'
    BY <2>1, <2>2, <2>3, <2>4 DEF OtherAccount, Proven
  <2> HIDE DEF r
  <2> QED
    BY <2>1, <2>3, <2>5, TrialMoves
<1> QED
  BY <1>1, <1>2, <1>3, <1>4, <1>5, <1>6 DEF Joining!RegisterAccept

LEMMA TrialLinks ==
  ASSUME TrialInv, SignupInv', NEW c \in Calls,
         \/ Joining!Resend(c) \/ Joining!Wipe(c) \/ Joining!Insert(c)
         \/ \E t \in Joining!Tokens : Joining!VerifyFind(c, t)
  PROVE  TrialInv'
<1> USE IdleKept, TrialTypes DEF Joining!At
<1>1. CASE account' = account /\ made' = made /\ calls' = calls
  BY <1>1, TrialStays DEF SameAccount, Proven
<1>2. ASSUME NEW r \in Requests, calls' = [calls EXCEPT ![c] = r],
             account' = account, made' = made,
             r.id \in {0, calls[c].id}, r.step \notin {"count", "grant"}
      PROVE  TrialInv'
  BY <1>2, TrialAside DEF SameAccount, Proven
<1>3. account' = account /\ made' = made
  BY DEF Joining!Resend, Joining!Wipe, Joining!Insert, Joining!VerifyFind
<1>4. CASE Joining!Resend(c)
  <2> DEFINE r == [Joining!Idle EXCEPT !.step = "wipe"]
  <2>1. r \in Requests /\ r.id = 0 /\ r.step = "wipe"
    BY DEF Joining!Idle, Requests, Steps
  <2>2. calls' = [calls EXCEPT ![c] = r]
    BY <1>4 DEF Joining!Resend, Joining!Begins
  <2> HIDE DEF r
  <2> QED
    BY <1>2, <1>3, <2>1, <2>2
<1>5. CASE Joining!Wipe(c)
  <2> DEFINE r == [calls[c] EXCEPT !.step = "insert"]
  <2>1. r \in Requests /\ r.id = calls[c].id /\ r.step = "insert"
    BY DEF Requests, Steps
  <2>2. calls' = [calls EXCEPT ![c] = r]
    BY <1>5 DEF Joining!Wipe, Joining!Goes
  <2> HIDE DEF r
  <2> QED
    BY <1>2, <1>3, <2>1, <2>2
<1>6. CASE Joining!Insert(c)
  BY <1>2, <1>3, <1>6 DEF Joining!Insert, Joining!Ends
<1>7. ASSUME NEW t \in Joining!Tokens, Joining!VerifyFind(c, t) PROVE TrialInv'
  <2>1. CASE calls' = calls
    BY <1>1, <1>3, <2>1
  <2>2. CASE Joining!Begins(c, [Joining!Idle EXCEPT !.step = "verify", !.token = t])
    <3> DEFINE r == [Joining!Idle EXCEPT !.step = "verify", !.token = t]
    <3>1. t \in Nat
      BY DEF Joining!Tokens
    <3>2. r \in Requests /\ r.id = 0 /\ r.step = "verify"
      BY <3>1 DEF Joining!Idle, Requests, Steps
    <3>3. calls' = [calls EXCEPT ![c] = r]
      BY <2>2 DEF Joining!Begins
    <3> HIDE DEF r
    <3> QED
      BY <1>2, <1>3, <3>2, <3>3
  <2> QED
    BY <1>7, <2>1, <2>2 DEF Joining!VerifyFind
<1> QED
  BY <1>4, <1>5, <1>6, <1>7

LEMMA TrialProving ==
  ASSUME TrialInv, SignupInv', NEW c \in Calls, Joining!VerifyCommit(c)
  PROVE  TrialInv'
<1> USE IdleKept, TrialTypes DEF Joining!At
<1>1. CASE /\ account' = [account EXCEPT !.verified = TRUE]
           /\ calls' = [calls EXCEPT ![c] = [Joining!Idle EXCEPT !.step = "count",
                                                                 !.id = account.id]]
  <2> DEFINE r == [Joining!Idle EXCEPT !.step = "count", !.id = account.id]
  <2>1. r \in Requests /\ r.id = account.id
    BY DEF Joining!Idle, Requests, Steps, Accounts
  <2>2. account'.id = account.id /\ account'.trials = account.trials /\ account'.verified
    BY <1>1 DEF Accounts
  <2>3. made' = made
    BY DEF Joining!VerifyCommit
  <2>4. SameAccount /\ Proven' /\ r.id <= made'
    BY <2>1, <2>2, <2>3 DEF SameAccount, Proven
  <2>5. calls' = [calls EXCEPT ![c] = r]
    BY <1>1
  <2> HIDE DEF r
  <2> QED
    BY <2>1, <2>4, <2>5, TrialMoves
<1>2. CASE Joining!Ends(c) /\ account' = account
  <2>1. calls' = [calls EXCEPT ![c] = Joining!Idle] /\ made' = made
    BY <1>2 DEF Joining!Ends, Joining!VerifyCommit
  <2>2. SameAccount
    BY <1>2, <2>1 DEF SameAccount, Proven
  <2> QED
    BY <2>1, <2>2, TrialAside
<1> QED
  BY <1>1, <1>2 DEF Joining!VerifyCommit

LEMMA TrialGranting ==
  ASSUME TrialInv, SignupInv', NEW c \in Calls,
         Joining!Count(c) \/ Joining!Grant(c) \/ Joining!ClaimTrial(c) \/ Joining!Crash(c)
  PROVE  TrialInv'
<1> USE IdleKept, TrialTypes DEF Joining!At
<1>1. made' = made
  BY DEF Joining!Count, Joining!Grant, Joining!ClaimTrial, Joining!Crash
<1>2. CASE account' = account /\ calls' = [calls EXCEPT ![c] = Joining!Idle]
  <2>1. SameAccount
    BY <1>1, <1>2 DEF SameAccount, Proven
  <2> QED
    BY <1>2, <2>1, TrialAside
<1>3. CASE Joining!Count(c) /\ Joining!Goes(c, "grant")
  <2> DEFINE r == [calls[c] EXCEPT !.step = "grant"]
  <2>1. r \in Requests /\ r.id = calls[c].id
    BY DEF Requests, Steps
  <2>2. calls' = [calls EXCEPT ![c] = r] /\ calls[c].step = "count" /\ account' = account
    BY <1>3 DEF Joining!Count, Joining!Goes
  <2>3. SameAccount /\ r.id <= made'
    BY <1>1, <2>1, <2>2 DEF SameAccount, Proven
  <2>4. r.id = account'.id => Proven'
    BY <2>1, <2>2 DEF TrialInv, Grants, Proven
  <2> HIDE DEF r
  <2> QED
    BY <2>1, <2>2, <2>3, <2>4, TrialMoves
<1>4. CASE Joining!Grant(c)
  <2>1. calls' = [calls EXCEPT ![c] = Joining!Idle] /\ calls[c].step = "grant"
    BY <1>4 DEF Joining!Grant, Joining!Ends
  <2>2. CASE account.id = calls[c].id /\ account.trials = 0
    <3>1. account' = [account EXCEPT !.trials = account.trials + 1]
      BY <1>4, <2>2 DEF Joining!Grant
    <3>2. /\ account'.id = account.id /\ account'.trials = 1
          /\ account'.verified = account.verified /\ account'.social = account.social
      BY <2>2, <3>1 DEF Accounts
    <3>3. Grants(c)
      BY <2>1, <2>2 DEF Grants
    <3>4. Proven
      BY <3>3 DEF TrialInv
    <3>5. SameAccount
      BY <1>1, <3>2, <3>4 DEF SameAccount, Proven
    <3> QED
      BY <2>1, <3>5, TrialAside
  <2>3. CASE ~(account.id = calls[c].id /\ account.trials = 0)
    BY <1>2, <1>4, <2>1, <2>3 DEF Joining!Grant
  <2> QED
    BY <2>2, <2>3
<1>5. CASE Joining!ClaimTrial(c)
  <2> DEFINE r == [Joining!Idle EXCEPT !.step = "grant", !.id = account.id]
  <2>1. r \in Requests /\ r.id = account.id
    BY DEF Joining!Idle, Requests, Steps, Accounts
  <2>2. calls' = [calls EXCEPT ![c] = r] /\ account' = account /\ Proven
    BY <1>5 DEF Joining!ClaimTrial, Joining!Begins, Joining!SignedIn, Proven
  <2>3. SameAccount /\ Proven' /\ r.id <= made'
    BY <1>1, <2>1, <2>2 DEF SameAccount, Proven
  <2> HIDE DEF r
  <2> QED
    BY <2>1, <2>2, <2>3, TrialMoves
<1> QED
  BY <1>2, <1>3, <1>4, <1>5 DEF Joining!Count, Joining!Crash, Joining!Ends

LEMMA TrialOthers ==
  ASSUME TrialInv, SignupInv',
         \/ Joining!Invite \/ Joining!InvitationEnds \/ Joining!LeaveTeam
         \/ \E t \in Joining!Tokens : Joining!Expire(t)
  PROVE  TrialInv'
<1>1. calls' = calls /\ made' = made
  BY DEF Joining!Invite, Joining!InvitationEnds, Joining!LeaveTeam, Joining!Expire
<1>2. account \in Accounts
  BY DEF TrialInv, SignupInv, SignupTypes
<1>3. \/ account' = account
      \/ \E member \in BOOLEAN : account' = [account EXCEPT !.member = member]
  BY DEF Joining!Invite, Joining!InvitationEnds, Joining!LeaveTeam, Joining!Expire
<1>4. /\ account'.id = account.id /\ account'.trials = account.trials
      /\ account'.verified = account.verified /\ account'.social = account.social
  BY <1>2, <1>3 DEF Accounts
<1>5. SameAccount
  BY <1>1, <1>4 DEF SameAccount, Proven
<1> QED
  BY <1>1, <1>5, TrialStays

LEMMA TrialStep == TrialInv /\ [ServiceNext]_everything => TrialInv'
<1> SUFFICES ASSUME TrialInv, [ServiceNext]_everything PROVE TrialInv'
  OBVIOUS
<1>1. SignupInv'
  BY SignupStep DEF TrialInv
<1>2. CASE SigningUp
  <2>1. Joining!Next
    BY <1>2 DEF SigningUp
  <2> QED
    BY <1>1, <2>1, TrialRegistering, TrialLinks, TrialProving, TrialGranting, TrialOthers
    DEF Joining!Next
<1>3. CASE UNCHANGED joining
  BY <1>1, <1>3, TrialStays DEF joining, SameAccount, Proven
<1> QED
  BY <1>2, <1>3 DEF ServiceNext, Limiting, Playing, Saving, Exporting, Counting, everything

\* No account is given two trials, and none before its address is proven: whichever of
\* registration, a social sign-in, a link and the claim of a deferred trial run side by
\* side, and whoever takes the address after a registration was taken back
\* (startCardlessTrialOnSignup, startCardlessTrial).
THEOREM TrialOnce == ServiceSpec => []Joining!TrialOnceProven
<1>1. ServiceInit => TrialInv
  BY TrialInit DEF ServiceInit
<1>2. TrialInv => Joining!TrialOnceProven
  BY DEF TrialInv, Proven, Joining!TrialOnceProven
<1> QED
  BY <1>1, <1>2, TrialStep, PTL DEF ServiceSpec

-----------------------------------------------------------------------------
(***************************************************************************)
(* The player.  An original that is not shown yet has nothing loaded, and  *)
(* an element with nothing loaded has no retry and no answer on its way    *)
(* that would load it; so whatever becomes ready was shown.                *)
(***************************************************************************)

Levels == {Player!Auto} \cup Renditions

Players == [
    mode : {"hls", "original"}, chosen : BOOLEAN, auto : BOOLEAN,
    hls : {"none", "loading", "parsed"}, level : Levels,
    el : {"empty", "loading", "playing", "failed"}, meta : BOOLEAN, position : Nat,
    timer : BOOLEAN, ready : BOOLEAN, shown : {"hls", "original"}, status : {"none", "error"},
    selected : Levels \cup {Player!Original}, options : {"none", "playlist", "hls"},
    resume : [time : Nat, of : Nat]]

Picks == [
    pref : {"auto", "original"}, here : BOOLEAN, height : Renditions \cup {0},
    pending : Levels \cup {0}, undecodable : BOOLEAN]

Answers == [of : Nat, kind : {"size", "list", "token", "reach"}, time : Nat]

Fits(r) ==
    /\ r.hls # "none" => r.mode = "hls"
    /\ r.mode = "hls" => r.shown = "hls"
    /\ r.mode = "original" /\ r.shown = "hls" => r.el = "empty"
    /\ r.el = "empty" => ~r.timer /\ ~r.ready
    /\ r.mode = "original" /\ r.ready =>
         r.selected = IF r.auto THEN Player!Auto ELSE Player!Original
    /\ r.hls = "parsed" => r.selected = r.level

Unbuilt(r) == r.el = "empty" /\ r.mode = "hls" /\ r.hls = "none"

PlayerInv ==
    /\ p \in Players /\ q \in Picks /\ asked \subseteq Answers
    /\ build \in Nat /\ version \in {1, 2} /\ built \in BOOLEAN
    /\ Fits(p) /\ (~built => Unbuilt(p))
    /\ \A a \in asked : a.of <= build
    /\ p.el = "empty" => \A a \in asked : a.of = build => a.kind \notin {"token", "reach"}

LEMMA LoadsFits ==
  ASSUME NEW r \in Players, r.hls # "none" => r.mode = "hls", r.mode = "hls" => r.shown = "hls",
         r.mode = "original" => r.shown = "original",
         r.mode = "original" /\ r.ready =>
           r.selected = IF r.auto THEN Player!Auto ELSE Player!Original,
         r.hls = "parsed" => r.selected = r.level
  PROVE  Player!Loads(r) \in Players /\ Fits(Player!Loads(r)) /\ Player!Loads(r).el = "loading"
<1> DEFINE s == Player!Loads(r)
<1>1. s \in Players /\ s.el = "loading"
  BY DEF Player!Loads, Players
<1>2. /\ s.mode = r.mode /\ s.hls = r.hls /\ s.shown = r.shown /\ s.ready = r.ready
      /\ s.selected = r.selected /\ s.auto = r.auto /\ s.level = r.level
  BY DEF Player!Loads, Players
<1> HIDE DEF s
<1>3. s.mode \in {"hls", "original"} /\ s.shown \in {"hls", "original"}
  BY <1>1 DEF Players
<1>4. Fits(s)
  BY <1>1, <1>2, <1>3 DEF Fits
<1> QED
  BY <1>1, <1>4 DEF s

LEMMA PlaybackFits ==
  ASSUME NEW r \in Players
  PROVE  LET s == Player!startHlsPlayback(r) IN
         s \in Players /\ Fits(s) /\ s.el = "loading"
<1> DEFINE r1 == [r EXCEPT !.mode = "hls", !.shown = "hls",
                           !.hls = IF hlsJs THEN "loading" ELSE "none"]
<1>1. r1 \in Players
  BY DEF Players
<1>2. r1.mode = "hls" /\ r1.shown = "hls" /\ r1.hls # "parsed"
  BY DEF Players
<1>3. Player!startHlsPlayback(r) = Player!Loads(r1)
  BY DEF Player!startHlsPlayback
<1> HIDE DEF r1
<1> QED
  BY <1>1, <1>2, <1>3, LoadsFits

LEMMA FallbackFits ==
  ASSUME NEW r \in Players
  PROVE  LET s == Player!activateOriginalFallback(r) IN
         s \in Players /\ Fits(s) /\ s.el = "loading"
<1> DEFINE r1 == [r EXCEPT
        !.mode = "original", !.chosen = FALSE, !.auto = FALSE, !.shown = "original",
        !.timer = FALSE, !.hls = "none", !.selected = Player!Original,
        !.status = "none", !.ready = FALSE]
<1>1. r1 \in Players
  BY DEF Players
<1>2. r1.mode = "original" /\ r1.shown = "original" /\ r1.hls = "none" /\ ~r1.ready
  BY DEF Players
<1>3. Player!activateOriginalFallback(r) = Player!Loads(r1)
  BY DEF Player!activateOriginalFallback, Player!retryOriginalLoad
<1> HIDE DEF r1
<1> QED
  BY <1>1, <1>2, <1>3, LoadsFits

LEMMA LeavingFits ==
  ASSUME NEW r \in Players, version \in {1, 2}
  PROVE  LET s == Player!leaveOriginalForHls(r) IN
         s \in Players /\ Fits(s) /\ s.el = "loading"
<1> DEFINE back == IF r.resume = Player!Nowhere /\ r.meta /\ r.position > 0
                   THEN [time |-> r.position, of |-> version] ELSE r.resume
           r1 == [r EXCEPT !.resume = back,
                           !.chosen = FALSE, !.auto = FALSE, !.timer = FALSE, !.ready = FALSE]
<1>1. r.position \in Nat /\ r.resume \in [time : Nat, of : Nat]
  BY DEF Players
<1>2. back \in [time : Nat, of : Nat]
  BY <1>1
<1>3. Player!leaveOriginalForHls(r) = Player!startHlsPlayback(r1)
  BY DEF Player!leaveOriginalForHls
<1> HIDE DEF back
<1>4. r1 \in Players
  BY <1>2 DEF Players
<1> HIDE DEF r1
<1> QED
  BY <1>3, <1>4, PlaybackFits

LEMMA CaptureTyped ==
  ASSUME NEW r \in Players, version \in {1, 2}
  PROVE  LET s == Player!captureResumePoint(r) IN
         s \in Players /\ s.resume \in [time : Nat, of : Nat]
<1>1. r.position \in Nat
  BY DEF Players
<1>2. [time |-> r.position, of |-> version] \in [time : Nat, of : Nat]
  BY <1>1
<1> DEFINE back == [time |-> r.position, of |-> version]
<1> HIDE DEF back
<1>3. Player!captureResumePoint(r) = [r EXCEPT !.resume = back]
  BY DEF Player!captureResumePoint, back
<1> QED
  BY <1>2, <1>3 DEF Players, back

\* A step after which something is loaded, or failed to, and that asks for nothing new
\* of a player that was not built.
LEMMA PlayerGoesOn ==
  ASSUME PlayerInv, p' \in Players, Fits(p'), p'.el # "empty", q' \in Picks,
         UNCHANGED <<version, build>>, built' = TRUE,
         asked' \subseteq Answers, \A a \in asked' : a.of <= build
  PROVE  PlayerInv'
BY DEF PlayerInv

LEMMA Asking ==
  ASSUME PlayerInv, NEW kind \in {"size", "list", "token", "reach"}, Player!Ask(kind)
  PROVE  /\ asked' \subseteq Answers /\ \A a \in asked' : a.of <= build
         /\ \A a \in asked' : a \in asked \/ (a.kind = kind /\ a.of = build)
<1>1. p.position \in Nat /\ build \in Nat
  BY DEF PlayerInv, Players
<1> DEFINE b == [of |-> build, kind |-> kind, time |-> p.position]
<1>2. b \in Answers /\ b.of = build /\ b.kind = kind
  BY <1>1 DEF Answers
<1>3. asked' = asked \cup {b}
  BY DEF Player!Ask
<1> HIDE DEF b
<1> QED
  BY <1>1, <1>2, <1>3 DEF PlayerInv

\* A torn down player asked for nothing that loads.
LEMMA Rebuilding ==
  ASSUME PlayerInv, NEW r \in Players, NEW picked \in Picks,
         NEW options \in {"none", "playlist", "hls"},
         Player!Rebuild(r, picked, options), version' \in {1, 2}, asked' = asked
  PROVE  PlayerInv'
<1> DEFINE sel == Player!Chosen(picked)
<1>1. /\ build' = build + 1 /\ built' = FALSE
      /\ p' = [Player!Torn EXCEPT !.selected = sel, !.options = options, !.resume = r.resume]
      /\ q' = [picked EXCEPT !.pending = 0, !.undecodable = FALSE]
  BY DEF Player!Rebuild
<1>2. sel \in Levels \cup {Player!Original} /\ r.resume \in [time : Nat, of : Nat]
      /\ Player!Auto \in Levels
  BY DEF Levels, Players, Player!Chosen
<1> HIDE DEF sel
<1>3. /\ p'.el = "empty" /\ p'.mode = "hls" /\ p'.hls = "none" /\ p'.shown = "hls"
      /\ ~p'.timer /\ ~p'.ready
  BY <1>1 DEF Player!Torn
<1>4. p' \in Players
  BY <1>1, <1>2 DEF Player!Torn, Players
<1>5. q' \in Picks
  BY <1>1 DEF Picks, Levels
<1>6. build' \in Nat /\ asked' \subseteq Answers
  BY <1>1 DEF PlayerInv
<1>7. \A a \in asked' : a.of <= build' /\ a.of # build'
  <2> TAKE a \in asked'
  <2>1. a.of \in Nat /\ build \in Nat /\ a.of <= build
    BY DEF PlayerInv, Answers
  <2> QED
    BY <1>1, <2>1
<1>8. Fits(p') /\ Unbuilt(p')
  BY <1>3 DEF Fits, Unbuilt
<1> QED
  BY <1>1, <1>4, <1>5, <1>6, <1>7, <1>8 DEF PlayerInv

LEMMA Building == PlayerInv /\ Player!initPlayer => PlayerInv'
<1> SUFFICES ASSUME PlayerInv, Player!initPlayer PROVE PlayerInv'
  OBVIOUS
<1>1. /\ ~built /\ built' = TRUE /\ UNCHANGED <<version, build, q>> /\ p \in Players
      /\ p.el = "empty" /\ p.hls = "none" /\ ~p.ready /\ ~p.timer
  BY DEF PlayerInv, Player!initPlayer, Unbuilt, Fits
<1>2. CASE /\ p' = Player!retryOriginalLoad([p EXCEPT !.mode = "original", !.chosen = TRUE,
                                                      !.shown = "original"])
           /\ UNCHANGED asked
  <2> DEFINE r == [p EXCEPT !.mode = "original", !.chosen = TRUE, !.shown = "original"]
  <2>1. r \in Players /\ r.mode = "original" /\ r.shown = "original" /\ r.hls = "none" /\ ~r.ready
    BY <1>1 DEF Players
  <2>2. p' = Player!Loads(r)
    BY <1>2 DEF Player!retryOriginalLoad
  <2> HIDE DEF r
  <2>3. p' \in Players /\ Fits(p') /\ p'.el = "loading"
    BY <2>1, <2>2, LoadsFits
  <2> QED
    BY <1>1, <1>2, <2>3, PlayerGoesOn DEF PlayerInv
<1>3. CASE /\ p' = [p EXCEPT !.mode = "original", !.chosen = TRUE, !.auto = TRUE]
           /\ Player!Ask("size")
  <2>1. p' \in Players
    BY <1>1, <1>3 DEF Players
  <2>2. p'.mode = "original" /\ p'.el = "empty" /\ p'.hls = "none" /\ ~p'.ready /\ ~p'.timer
    BY <1>1, <1>3 DEF Players
  <2>3. Fits(p')
    BY <2>2 DEF Fits
  <2>4. /\ asked' \subseteq Answers /\ \A a \in asked' : a.of <= build
        /\ \A a \in asked' : a \in asked \/ a.kind = "size"
    BY <1>3, Asking
  <2> QED
    BY <1>1, <2>1, <2>3, <2>4 DEF PlayerInv
<1>4. CASE p' = Player!startHlsPlayback(p) /\ UNCHANGED asked
  <2>1. p' \in Players /\ Fits(p') /\ p'.el = "loading"
    BY <1>1, <1>4, PlaybackFits
  <2> QED
    BY <1>1, <1>4, <2>1, PlayerGoesOn DEF PlayerInv
<1> QED
  BY <1>2, <1>3, <1>4 DEF Player!initPlayer

\* The picks stay typed whatever made the player leave its original.
LEMMA PicksTyped ==
  ASSUME PlayerInv, NEW why PROVE Player!Undecodable(why) \in Picks
BY DEF Player!Undecodable, PlayerInv, Picks

LEMMA Loading ==
  ASSUME PlayerInv, Player!ManifestParsed \/ Player!onLoadedMetadata PROVE PlayerInv'
<1>0. /\ built' = TRUE /\ UNCHANGED <<version, build>> /\ p \in Players /\ Fits(p)
      /\ version \in {1, 2} /\ q \in Picks
  BY DEF PlayerInv, Player!ManifestParsed, Player!onLoadedMetadata, Player!Here
<1>1. CASE Player!ManifestParsed
  <2> DEFINE l == Player!configureHlsLevels
  <2>1. l \in Levels
    <3>1. q.pending \in Levels \cup {0} /\ q.height \in Renditions \cup {0}
      BY <1>0 DEF Picks
    <3> QED
      BY <3>1 DEF Player!configureHlsLevels, Levels
  <2>2. /\ p.hls = "loading" /\ p.el = "loading"
        /\ p' = [p EXCEPT !.hls = "parsed", !.timer = FALSE, !.status = "none", !.options = "hls",
                          !.level = l, !.selected = l, !.ready = TRUE]
        /\ q' = [q EXCEPT !.pending = 0] /\ UNCHANGED asked
    BY <1>1 DEF Player!ManifestParsed
  <2> HIDE DEF l
  <2>3. p' \in Players /\ q' \in Picks
    BY <1>0, <2>1, <2>2 DEF Players, Picks
  <2>4. p'.hls = "parsed" /\ p'.mode = p.mode /\ p'.shown = p.shown /\ p'.el = "loading"
        /\ p'.selected = l /\ p'.level = l
    BY <1>0, <2>2 DEF Players
  <2>5. Fits(p')
    BY <1>0, <2>2, <2>4 DEF Fits
  <2> QED
    BY <1>0, <2>2, <2>3, <2>4, <2>5, PlayerGoesOn DEF PlayerInv
<1>2. CASE p' = Player!leaveOriginalForHls(p) /\ q' \in Picks /\ UNCHANGED asked
  <2>1. p' \in Players /\ Fits(p') /\ p'.el = "loading"
    BY <1>0, <1>2, LeavingFits
  <2> QED
    BY <1>0, <1>2, <2>1, PlayerGoesOn DEF PlayerInv
<1>3. CASE /\ Player!onLoadedMetadata /\ ~(p' = Player!leaveOriginalForHls(p) /\ UNCHANGED asked)
  <2> DEFINE sel == IF p.mode = "hls" THEN p.selected
                    ELSE IF p.auto THEN Player!Auto ELSE Player!Original
             time == p.resume.time
  <2>1. /\ p.el = "loading" /\ p.hls # "loading"
        /\ p' = [p EXCEPT !.el = "playing", !.meta = TRUE, !.timer = FALSE, !.ready = TRUE,
                          !.selected = sel, !.status = "none",
                          !.position = time, !.resume = Player!Nowhere]
        /\ q' = q
    BY <1>3 DEF Player!onLoadedMetadata
  <2>2. asked' = asked \/ Player!Ask("list")
    BY <1>3 DEF Player!onLoadedMetadata
  <2>3. sel \in Levels \cup {Player!Original} /\ time \in Nat
        /\ Player!Nowhere \in [time : Nat, of : Nat]
    BY <1>0 DEF Players, Levels, Player!Nowhere
  <2>4. p.mode = "original" => sel = IF p.auto THEN Player!Auto ELSE Player!Original
    OBVIOUS
  <2>5. p.mode = "hls" => sel = p.selected
    OBVIOUS
  <2> HIDE DEF sel, time
  <2>6. p' \in Players
    BY <1>0, <2>1, <2>3 DEF Players
  <2>7. /\ p'.mode = p.mode /\ p'.shown = p.shown /\ p'.hls = p.hls /\ p'.el = "playing"
        /\ p'.selected = sel /\ p'.level = p.level /\ p'.auto = p.auto
        /\ p.mode \in {"hls", "original"}
    BY <1>0, <2>1 DEF Players
  <2>8. Fits(p')
    BY <1>0, <2>1, <2>4, <2>5, <2>7 DEF Fits
  <2>9. asked' \subseteq Answers /\ \A a \in asked' : a.of <= build
    BY <2>2, Asking DEF PlayerInv
  <2> QED
    BY <1>0, <2>1, <2>6, <2>7, <2>8, <2>9, PlayerGoesOn
<1> QED
  <2>1. CASE Player!onLoadedMetadata /\ p' = Player!leaveOriginalForHls(p) /\ UNCHANGED asked
    <3>1. q' = q \/ q' = Player!Undecodable("decode")
      BY <2>1 DEF Player!onLoadedMetadata
    <3>2. q' \in Picks
      BY <1>0, <3>1, PicksTyped
    <3> QED
      BY <1>2, <2>1, <3>2
  <2> QED
    BY <1>1, <1>3, <2>1

\* Something that was loaded fails, and may ask for a fresh grant or for whether the
\* original is there.
LEMMA FailureFits ==
  ASSUME PlayerInv, Player!Here, p.el # "empty", NEW status \in {"none", "error"},
         NEW kind \in {"token", "reach"},
         p' = [p EXCEPT !.el = "failed", !.status = status] \/ p' = [p EXCEPT !.el = "failed"],
         asked' = asked \/ Player!Ask(kind), q' = q
  PROVE  PlayerInv'
<1>1. p \in Players /\ Fits(p) /\ q \in Picks
  BY DEF PlayerInv
<1>2. p' \in Players
  <2>1. [p EXCEPT !.el = "failed"] \in Players
    BY <1>1 DEF Players
  <2>2. [p EXCEPT !.el = "failed", !.status = status] \in Players
    BY <1>1 DEF Players
  <2> QED
    BY <2>1, <2>2
<1>3. /\ p'.mode = p.mode /\ p'.shown = p.shown /\ p'.hls = p.hls /\ p'.el = "failed"
      /\ p'.selected = p.selected /\ p'.level = p.level /\ p'.auto = p.auto /\ p'.ready = p.ready
  BY <1>1 DEF Players
<1>4. Fits(p')
  BY <1>1, <1>3 DEF Fits
<1>5. asked' \subseteq Answers /\ \A a \in asked' : a.of <= build
  BY Asking DEF PlayerInv
<1> QED
  BY <1>1, <1>2, <1>3, <1>4, <1>5, PlayerGoesOn DEF Player!Here

\* A player that leaves what it has for another source.
LEMMA OtherSource ==
  ASSUME PlayerInv, Player!Here,
         p' = Player!leaveOriginalForHls(p) \/ p' = Player!activateOriginalFallback(p),
         q' \in Picks, asked' \subseteq asked
  PROVE  PlayerInv'
<1>1. p \in Players /\ version \in {1, 2}
  BY DEF PlayerInv
<1>2. p' \in Players /\ Fits(p') /\ p'.el = "loading"
  BY <1>1, LeavingFits, FallbackFits
<1>3. asked' \subseteq Answers /\ \A a \in asked' : a.of <= build
  BY DEF PlayerInv
<1> QED
  BY <1>2, <1>3, PlayerGoesOn DEF Player!Here

LEMMA Failing ==
  ASSUME PlayerInv, Player!onVideoError \/ Player!HlsError \/ Player!RetryTimer
  PROVE  PlayerInv'
<1>0. Player!Here /\ p \in Players /\ Fits(p) /\ q \in Picks
  BY DEF PlayerInv, Player!onVideoError, Player!HlsError, Player!RetryTimer
<1>1. CASE p.el \in {"loading", "playing"} /\ Player!ChosenFails
  <2>1. CASE \E why \in {"decode", "network"} :
               /\ p' = Player!leaveOriginalForHls(p) /\ q' = Player!Undecodable(why)
               /\ UNCHANGED asked
    BY <1>0, <2>1, PicksTyped, OtherSource
  <2>2. CASE Player!recoverWithFreshToken
    BY <1>0, <1>1, <2>2, FailureFits DEF Player!recoverWithFreshToken
  <2>3. CASE p' = [p EXCEPT !.el = "failed"] /\ Player!Ask("reach") /\ UNCHANGED q
    BY <1>0, <1>1, <2>3, FailureFits
  <2> QED
    BY <1>1, <2>1, <2>2, <2>3 DEF Player!ChosenFails
<1>2. CASE p.el \in {"loading", "playing"} /\ Player!OtherFails
  <2>1. CASE Player!recoverWithFreshToken
    BY <1>0, <1>2, <2>1, FailureFits DEF Player!recoverWithFreshToken
  <2>2. CASE Player!GiveUp
    BY <1>0, <1>2, <2>2, FailureFits DEF Player!GiveUp
  <2>3. CASE p' = Player!activateOriginalFallback(p) /\ UNCHANGED <<q, asked>>
    BY <1>0, <2>3, OtherSource
  <2>4. CASE /\ p.mode = "original"
             /\ p' = [p EXCEPT !.el = "failed", !.timer = TRUE, !.ready = FALSE,
                               !.status = "none"]
             /\ UNCHANGED <<q, asked>>
    <3>1. p' \in Players
      BY <1>0, <2>4 DEF Players
    <3>2. /\ p'.mode = p.mode /\ p'.shown = p.shown /\ p'.hls = p.hls /\ p'.el = "failed"
          /\ p'.selected = p.selected /\ p'.level = p.level /\ ~p'.ready
      BY <1>0, <2>4 DEF Players
    <3>3. Fits(p')
      BY <1>0, <1>2, <3>2 DEF Fits
    <3> QED
      BY <1>0, <2>4, <3>1, <3>2, <3>3, PlayerGoesOn DEF Player!Here, PlayerInv
  <2> QED
    BY <1>2, <2>1, <2>2, <2>3, <2>4 DEF Player!OtherFails
<1>3. CASE Player!HlsError
  <2>1. p.el \in {"loading", "playing"}
    BY <1>3 DEF Player!HlsError
  <2>2. CASE Player!recoverWithFreshToken
    BY <1>0, <2>1, <2>2, FailureFits DEF Player!recoverWithFreshToken
  <2>3. CASE Player!GiveUp
    BY <1>0, <2>1, <2>3, FailureFits DEF Player!GiveUp
  <2>4. CASE p' = Player!activateOriginalFallback(p) /\ UNCHANGED <<q, asked>>
    BY <1>0, <2>4, OtherSource
  <2> QED
    BY <1>3, <2>2, <2>3, <2>4 DEF Player!HlsError
<1>4. CASE Player!RetryTimer
  <2> DEFINE r == [p EXCEPT !.timer = FALSE]
  <2>1. r \in Players /\ p.el # "empty"
    BY <1>0, <1>4 DEF Players, Player!RetryTimer, Fits
  <2>2. /\ r.mode = p.mode /\ r.shown = p.shown /\ r.hls = p.hls /\ r.selected = p.selected
        /\ r.level = p.level /\ r.auto = p.auto /\ r.ready = p.ready /\ r.shown \in {"hls", "original"}
    BY <1>0 DEF Players
  <2>3. p' = Player!Loads(r) /\ UNCHANGED <<q, asked>>
    BY <1>4 DEF Player!RetryTimer, Player!retryOriginalLoad
  <2> HIDE DEF r
  <2>4. p' \in Players /\ Fits(p') /\ p'.el = "loading"
    BY <1>0, <2>1, <2>2, <2>3, LoadsFits DEF Fits
  <2> QED
    BY <1>0, <2>3, <2>4, PlayerGoesOn DEF Player!Here, PlayerInv
<1> QED
  BY <1>1, <1>2, <1>3, <1>4 DEF Player!onVideoError

\* An answer is taken off.
LEMMA OneLess ==
  ASSUME PlayerInv, asked' \subseteq asked, UNCHANGED <<version, build, built, p, q>>
  PROVE  PlayerInv'
BY DEF PlayerInv, Unbuilt

LEMMA Answering ==
  ASSUME PlayerInv,
         \/ Player!AnswerForNobody \/ Player!SizeAnswered \/ Player!ReachAnswered
         \/ Player!TokenAnswered \/ Player!ListAnswered
  PROVE  PlayerInv'
<1>0. p \in Players /\ Fits(p) /\ q \in Picks /\ version \in {1, 2} /\ build \in Nat
  BY DEF PlayerInv
<1>1. CASE Player!AnswerForNobody
  BY <1>1, OneLess DEF Player!AnswerForNobody
<1>2. CASE Player!SizeAnswered
  <2>1. Player!Here /\ asked' \subseteq asked /\ q' = q
    BY <1>2 DEF Player!SizeAnswered, Player!Answered
  <2>2. CASE UNCHANGED p
    BY <2>1, <2>2, OneLess DEF Player!Here
  <2>3. CASE p' = Player!startHlsPlayback([p EXCEPT !.chosen = FALSE, !.auto = FALSE])
    <3>1. [p EXCEPT !.chosen = FALSE, !.auto = FALSE] \in Players
      BY <1>0 DEF Players
    <3>2. p' \in Players /\ Fits(p') /\ p'.el = "loading"
      BY <2>3, <3>1, PlaybackFits
    <3> QED
      BY <1>0, <2>1, <3>2, PlayerGoesOn DEF Player!Here, PlayerInv
  <2>4. CASE p.mode = "original"
             /\ p' = Player!retryOriginalLoad([p EXCEPT !.shown = "original"])
    <3> DEFINE r == [p EXCEPT !.shown = "original"]
    <3>1. /\ r \in Players /\ r.mode = "original" /\ r.shown = "original" /\ r.hls = "none"
          /\ r.ready = p.ready /\ r.selected = p.selected /\ r.auto = p.auto
      BY <1>0, <2>4 DEF Players, Fits
    <3>2. p' = Player!Loads(r)
      BY <2>4 DEF Player!retryOriginalLoad
    <3> HIDE DEF r
    <3>3. p' \in Players /\ Fits(p') /\ p'.el = "loading"
      BY <1>0, <2>4, <3>1, <3>2, LoadsFits DEF Fits
    <3> QED
      BY <1>0, <2>1, <3>3, PlayerGoesOn DEF Player!Here, PlayerInv
  <2> QED
    BY <1>2, <2>2, <2>3, <2>4 DEF Player!SizeAnswered
<1>3. CASE Player!ReachAnswered
  <2>1. Player!Here
    BY <1>3 DEF Player!ReachAnswered
  <2>2. CASE /\ Player!Answered("reach")
             /\ \E why \in {"decode", "network"} :
                  p' = Player!leaveOriginalForHls(p) /\ q' = Player!Undecodable(why)
    BY <2>1, <2>2, PicksTyped, OtherSource DEF Player!Answered
  <2>3. CASE /\ p' = [p EXCEPT !.status = "none"] /\ q' = q
             /\ \E a \in asked :
                  /\ a.kind = "reach" /\ a.of = build
                  /\ asked' = (asked \ {a}) \cup {[a EXCEPT !.kind = "token",
                                                            !.time = p.position]}
    <3> PICK a \in asked :
           /\ a.kind = "reach" /\ a.of = build
           /\ asked' = (asked \ {a}) \cup {[a EXCEPT !.kind = "token", !.time = p.position]}
      BY <2>3
    <3> DEFINE b == [a EXCEPT !.kind = "token", !.time = p.position]
    <3>1. a \in Answers /\ p.position \in Nat /\ p.el # "empty"
      BY <1>0 DEF PlayerInv, Players
    <3>2. b \in Answers /\ b.of = build
      BY <3>1 DEF Answers
    <3> HIDE DEF b
    <3>3. asked' \subseteq Answers /\ \A x \in asked' : x.of <= build
      BY <1>0, <3>2 DEF PlayerInv, b
    <3>4. p' \in Players
      BY <1>0, <2>3 DEF Players
    <3>5. /\ p'.mode = p.mode /\ p'.shown = p.shown /\ p'.hls = p.hls /\ p'.el = p.el
          /\ p'.selected = p.selected /\ p'.level = p.level /\ p'.auto = p.auto /\ p'.ready = p.ready
          /\ p'.timer = p.timer
      BY <1>0, <2>3 DEF Players
    <3>6. Fits(p')
      BY <1>0, <3>5 DEF Fits
    <3> QED
      BY <1>0, <2>1, <2>3, <3>1, <3>3, <3>4, <3>5, <3>6, PlayerGoesOn DEF Player!Here
  <2>4. CASE Player!Answered("reach") /\ UNCHANGED <<p, q>>
    BY <2>1, <2>4, OneLess DEF Player!Answered, Player!Here
  <2> QED
    BY <1>3, <2>2, <2>3, <2>4 DEF Player!ReachAnswered
<1>4. CASE Player!TokenAnswered
  <2> PICK a \in asked :
         /\ a.kind = "token" /\ a.of = build /\ asked' = asked \ {a}
         /\ p' = Player!Loads([p EXCEPT
                    !.resume = IF @ = Player!Nowhere THEN [time |-> a.time, of |-> version] ELSE @,
                    !.hls = IF @ = "none" THEN @ ELSE "loading"])
    BY <1>4 DEF Player!TokenAnswered
  <2> DEFINE back == IF p.resume = Player!Nowhere THEN [time |-> a.time, of |-> version]
                     ELSE p.resume
             hls == IF p.hls = "none" THEN p.hls ELSE "loading"
             r == [p EXCEPT !.resume = back, !.hls = hls]
  <2>1. a.time \in Nat /\ p.resume \in [time : Nat, of : Nat] /\ p.hls \in {"none", "loading", "parsed"}
    BY <1>0 DEF PlayerInv, Answers, Players
  <2>2. back \in [time : Nat, of : Nat] /\ hls \in {"none", "loading"} /\ (hls = "none" <=> p.hls = "none")
    BY <1>0, <2>1
  <2>3. p' = Player!Loads(r)
    OBVIOUS
  <2> HIDE DEF back, hls
  <2>4. r \in Players
    BY <1>0, <2>2 DEF Players
  <2>5. /\ r.mode = p.mode /\ r.shown = p.shown /\ r.hls = hls /\ r.selected = p.selected
        /\ r.auto = p.auto /\ r.ready = p.ready /\ p.shown \in {"hls", "original"}
    BY <1>0, <2>2 DEF Players
  <2>6. p.el # "empty"
    BY DEF PlayerInv
  <2> HIDE DEF r
  <2>7. p' \in Players /\ Fits(p') /\ p'.el = "loading"
    BY <1>0, <2>2, <2>3, <2>4, <2>5, <2>6, LoadsFits DEF Fits
  <2>8. Player!Here /\ q' = q
    BY <1>4 DEF Player!TokenAnswered
  <2> QED
    BY <1>0, <2>7, <2>8, PlayerGoesOn DEF Player!Here, PlayerInv
<1>5. CASE Player!ListAnswered
  <2>1. Player!Here /\ asked' \subseteq asked /\ q' = q
    BY <1>5 DEF Player!ListAnswered, Player!Answered
  <2>2. p' = p \/ p' = [p EXCEPT !.options = "playlist"]
    BY <1>5 DEF Player!ListAnswered
  <2>3. p' \in Players
    BY <1>0, <2>2 DEF Players
  <2>4. /\ p'.mode = p.mode /\ p'.shown = p.shown /\ p'.hls = p.hls /\ p'.el = p.el
        /\ p'.selected = p.selected /\ p'.level = p.level /\ p'.auto = p.auto /\ p'.ready = p.ready
        /\ p'.timer = p.timer
    BY <1>0, <2>2 DEF Players
  <2>5. Fits(p')
    BY <1>0, <2>4 DEF Fits
  <2> QED
    BY <1>0, <2>1, <2>3, <2>4, <2>5 DEF PlayerInv, Player!Here
<1> QED
  BY <1>1, <1>2, <1>3, <1>4, <1>5

LEMMA PickingTheOriginal == PlayerInv /\ Player!PickOriginal => PlayerInv'
<1> SUFFICES ASSUME PlayerInv, Player!PickOriginal PROVE PlayerInv'
  OBVIOUS
<1> DEFINE picked == [q EXCEPT !.pref = "original", !.here = TRUE, !.height = 0, !.pending = 0]
           r == Player!captureResumePoint(p)
<1>1. p \in Players /\ q \in Picks /\ p.options \in {"none", "playlist", "hls"} /\ version \in {1, 2}
  BY DEF PlayerInv, Players
<1>2. picked \in Picks
  BY <1>1 DEF Picks
<1>3. r \in Players
  BY <1>1, CaptureTyped
<1>4. UNCHANGED <<version, asked>>
  BY DEF Player!PickOriginal
<1>5. Player!Rebuild(r, picked, p.options) \/ (q' = picked /\ UNCHANGED <<build, built, p>>)
  BY DEF Player!PickOriginal
<1> HIDE DEF picked, r
<1>6. CASE Player!Rebuild(r, picked, p.options)
  BY <1>1, <1>2, <1>3, <1>4, <1>6, Rebuilding
<1>7. CASE q' = picked /\ UNCHANGED <<build, built, p>>
  BY <1>2, <1>4, <1>7 DEF PlayerInv, Unbuilt
<1> QED
  BY <1>5, <1>6, <1>7

LEMMA PickingAnother ==
  ASSUME PlayerInv, NEW l \in {Player!Auto} \cup Renditions, Player!PickAutoOrRendition(l)
  PROVE  PlayerInv'
<1> DEFINE height == IF l = Player!Auto THEN 0 ELSE Player!HeightAt(p.options, l)
           picked == [q EXCEPT !.height = height, !.pending = 0]
           r == Player!captureResumePoint(p)
<1>1. /\ p \in Players /\ Fits(p) /\ q \in Picks /\ p.options \in {"none", "playlist", "hls"}
      /\ version \in {1, 2} /\ l \in Levels /\ UNCHANGED <<version, asked>>
  BY DEF PlayerInv, Players, Levels, Player!PickAutoOrRendition
<1>2. height \in Renditions \cup {0}
  BY ServiceAssumption DEF Player!HeightAt
<1> HIDE DEF height
<1>3. picked \in Picks
  BY <1>1, <1>2 DEF Picks
<1>4. CASE Player!Rebuild(r, [picked EXCEPT !.pref = "auto"], p.options)
  <2> DEFINE other == [picked EXCEPT !.pref = "auto"]
  <2>1. other \in Picks
    BY <1>3 DEF Picks
  <2>2. r \in Players
    BY <1>1, CaptureTyped
  <2> HIDE DEF other, r
  <2> QED
    BY <1>1, <1>4, <2>1, <2>2, Rebuilding DEF other
<1>5. CASE q' = picked /\ UNCHANGED <<p, build, built>>
  BY <1>1, <1>3, <1>5 DEF PlayerInv, Unbuilt
<1>6. CASE /\ p.shown = "original" /\ UNCHANGED <<build, built>> /\ q' = picked
           /\ p' = Player!leaveOriginalForHls(Player!captureResumePoint([p EXCEPT !.selected = l]))
  <2>1. [p EXCEPT !.selected = l] \in Players
    BY <1>1 DEF Players
  <2>2. Player!captureResumePoint([p EXCEPT !.selected = l]) \in Players
    BY <1>1, <2>1, CaptureTyped
  <2>3. p' \in Players /\ Fits(p') /\ p'.el = "loading"
    BY <1>1, <1>6, <2>2, LeavingFits
  <2>4. built = TRUE
    BY <1>1, <1>6 DEF PlayerInv, Unbuilt, Fits
  <2> QED
    BY <1>1, <1>3, <1>6, <2>3, <2>4, PlayerGoesOn DEF PlayerInv
<1>7. CASE /\ p.shown # "original" /\ p.hls = "none" /\ UNCHANGED <<build, built>>
           /\ p' = [p EXCEPT !.selected = l] /\ q' = [picked EXCEPT !.pending = l]
  <2>1. p' \in Players /\ q' \in Picks
    BY <1>1, <1>3, <1>7 DEF Players, Picks
  <2>2. /\ p'.mode = p.mode /\ p'.shown = p.shown /\ p'.hls = p.hls /\ p'.el = p.el
        /\ p'.ready = p.ready /\ p'.timer = p.timer /\ p.shown \in {"hls", "original"}
    BY <1>1, <1>7 DEF Players
  <2>3. Fits(p')
    BY <1>1, <1>7, <2>2 DEF Fits
  <2> QED
    BY <1>1, <1>7, <2>1, <2>2, <2>3 DEF PlayerInv, Unbuilt
<1>8. CASE /\ p.hls # "none" /\ UNCHANGED <<build, built>>
           /\ p' = [p EXCEPT !.selected = l, !.level = l] /\ q' = picked
  <2>1. p' \in Players
    BY <1>1, <1>8 DEF Players
  <2>2. /\ p'.mode = p.mode /\ p'.shown = p.shown /\ p'.hls = p.hls /\ p'.el = p.el
        /\ p'.ready = p.ready /\ p'.timer = p.timer /\ p'.selected = l /\ p'.level = l
    BY <1>1, <1>8 DEF Players
  <2>3. Fits(p')
    BY <1>1, <1>8, <2>2 DEF Fits
  <2> QED
    BY <1>1, <1>3, <1>8, <2>1, <2>2, <2>3 DEF PlayerInv, Unbuilt
<1> QED
  <2>1. CASE Player!effective(q) = "original"
    BY <1>4, <2>1 DEF Player!PickAutoOrRendition, height
  <2>2. CASE Player!effective(q) # "original"
    <3>1. UNCHANGED <<build, built>>
      BY <2>2 DEF Player!PickAutoOrRendition
    <3>2. CASE p.shown = "original" /\ l = Player!Auto
      BY <1>5, <2>2, <3>1, <3>2 DEF Player!PickAutoOrRendition, height
    <3>3. CASE p.shown = "original" /\ l # Player!Auto
      BY <1>6, <2>2, <3>1, <3>3 DEF Player!PickAutoOrRendition, height
    <3>4. CASE p.shown # "original" /\ p.hls = "none"
      BY <1>7, <2>2, <3>1, <3>4 DEF Player!PickAutoOrRendition, height
    <3>5. CASE p.shown # "original" /\ p.hls # "none"
      BY <1>8, <2>2, <3>1, <3>5 DEF Player!PickAutoOrRendition, height
    <3> QED
      BY <3>2, <3>3, <3>4, <3>5
  <2> QED
    BY <2>1, <2>2

LEMMA WatchingAndSwitching ==
  ASSUME PlayerInv, Player!Watch \/ Player!SwitchVersion PROVE PlayerInv'
<1>1. CASE Player!Watch
  <2>1. p \in Players /\ Fits(p) /\ q \in Picks /\ p.el = "playing"
    BY <1>1 DEF PlayerInv, Player!Watch
  <2>2. p' = [p EXCEPT !.position = 1] /\ UNCHANGED <<q, asked>> /\ Player!Here
    BY <1>1 DEF Player!Watch
  <2>3. p' \in Players
    BY <2>1, <2>2 DEF Players
  <2>4. /\ p'.mode = p.mode /\ p'.shown = p.shown /\ p'.hls = p.hls /\ p'.el = p.el
        /\ p'.selected = p.selected /\ p'.level = p.level /\ p'.auto = p.auto
        /\ p'.ready = p.ready /\ p'.timer = p.timer
    BY <2>1, <2>2 DEF Players
  <2>5. Fits(p')
    BY <2>1, <2>4 DEF Fits
  <2> QED
    BY <2>1, <2>2, <2>3, <2>4, <2>5, PlayerGoesOn DEF Player!Here, PlayerInv
<1>2. CASE Player!SwitchVersion
  <2>1. p \in Players /\ q \in Picks /\ version \in {1, 2}
    BY DEF PlayerInv
  <2>2. Player!Rebuild(p, q, "none") /\ version' = 3 - version /\ asked' = asked
    BY <1>2 DEF Player!SwitchVersion
  <2>3. version' \in {1, 2}
    BY <2>1, <2>2
  <2> QED
    BY <2>1, <2>2, <2>3, Rebuilding
<1> QED
  BY <1>1, <1>2

LEMMA PlayerInit == Player!Init => PlayerInv
<1> SUFFICES ASSUME Player!Init PROVE PlayerInv
  OBVIOUS
<1> DEFINE sel == Player!Chosen(q)
<1>1. q \in Picks
  BY DEF Player!Init, Picks
<1>2. sel \in Levels \cup {Player!Original}
  BY DEF Levels, Player!Chosen
<1>3. p = [Player!Torn EXCEPT !.selected = sel]
  BY DEF Player!Init
<1> HIDE DEF sel
<1>4. p \in Players
  BY <1>2, <1>3 DEF Player!Torn, Player!Nowhere, Players, Levels
<1>5. Fits(p) /\ Unbuilt(p)
  BY <1>3 DEF Player!Torn, Fits, Unbuilt
<1> QED
  BY <1>1, <1>4, <1>5 DEF Player!Init, PlayerInv

LEMMA PlayerStep == PlayerInv /\ [ServiceNext]_everything => PlayerInv'
<1> SUFFICES ASSUME PlayerInv, [ServiceNext]_everything PROVE PlayerInv'
  OBVIOUS
<1>1. CASE Playing
  BY <1>1, Building, Loading, Failing, Answering, PickingTheOriginal, PickingAnother,
     WatchingAndSwitching DEF Playing, Player!Next
<1>2. CASE UNCHANGED player
  BY <1>2 DEF player, PlayerInv
<1> QED
  BY <1>1, <1>2 DEF ServiceNext, Limiting, SigningUp, Saving, Exporting, Counting, everything

-----------------------------------------------------------------------------
(***************************************************************************)
(* Without hls.js: the menu of the browser's own player.                   *)
(***************************************************************************)

\* It has no list of renditions.  While the renditions play, or what was chosen
\* does, the menu is where the effect has set it; and what was chosen is Auto's unless
\* the viewer asked for the original.
Native(r, picked) ==
    /\ r.hls = "none" /\ r.options = "none"
    /\ r.mode = "hls" => ~r.auto
    /\ r.mode = "hls" \/ r.chosen => r.selected = Player!Chosen(picked)
    /\ r.mode = "original" /\ r.chosen => (r.auto <=> Player!effective(picked) # "original")

\* Nothing is loaded while the size of the original is asked for, and it is asked once.
Sizes(answers) == {a \in answers : a.kind = "size" /\ a.of = build}

Sized(r, answers) ==
    /\ \A a \in Sizes(answers) : built /\ r.el = "empty" /\ r.mode = "original" /\ r.chosen
    /\ \A a, b \in Sizes(answers) : a = b

NativeInv ==
    ~hlsJs => /\ Native(p, q) /\ Sized(p, asked)
              /\ \A a \in asked : a.kind # "list"

LEMMA SamePick ==
  ASSUME q'.pref = q.pref, q'.here = q.here, allowed' = allowed
  PROVE  Player!effective(q)' = Player!effective(q) /\ Player!Chosen(q)' = Player!Chosen(q)
BY DEF Player!effective, Player!Chosen

LEMMA NativeGoesOn ==
  ASSUME q'.pref = q.pref, q'.here = q.here, UNCHANGED <<build, allowed>>, built' = TRUE,
         Native(p', q), \A a \in asked' : a.kind # "list",
         \A a \in Sizes(asked') : p'.el = "empty" /\ p'.mode = "original" /\ p'.chosen,
         \A a, b \in Sizes(asked') : a = b
  PROVE  NativeInv'
<1>1. Player!effective(q)' = Player!effective(q) /\ Player!Chosen(q)' = Player!Chosen(q)
  BY SamePick
<1>2. Native(p, q)'
  BY <1>1 DEF Native
<1>3. Sized(p, asked)'
  BY DEF Sized, Sizes
<1> QED
  BY <1>2, <1>3 DEF NativeInv

LEMMA LeavingShape ==
  ASSUME NEW r \in Players, version \in {1, 2}, ~hlsJs
  PROVE  LET s == Player!leaveOriginalForHls(r) IN
         /\ s.mode = "hls" /\ s.hls = "none" /\ s.options = r.options
         /\ s.selected = r.selected /\ ~s.auto
<1> DEFINE back == IF r.resume = Player!Nowhere /\ r.meta /\ r.position > 0
                   THEN [time |-> r.position, of |-> version] ELSE r.resume
           r1 == [r EXCEPT !.resume = back,
                           !.chosen = FALSE, !.auto = FALSE, !.timer = FALSE, !.ready = FALSE]
<1>1. Player!leaveOriginalForHls(r) = Player!startHlsPlayback(r1)
  BY DEF Player!leaveOriginalForHls
<1> HIDE DEF back
<1>2. r1.options = r.options /\ r1.selected = r.selected /\ ~r1.auto
  BY DEF Players
<1> QED
  BY <1>1 DEF Player!startHlsPlayback, Player!Loads, Players

LEMMA FallbackShape ==
  ASSUME NEW r \in Players
  PROVE  LET s == Player!activateOriginalFallback(r) IN
         s.mode = "original" /\ ~s.chosen /\ s.hls = "none" /\ s.options = r.options
BY DEF Player!activateOriginalFallback, Player!retryOriginalLoad, Player!Loads, Players

\* A step that keeps what the menu depends on, or leaves what was chosen for the
\* renditions, or takes the original in their place.
LEMMA NativeStays ==
  ASSUME PlayerInv, NativeInv, ~hlsJs, Player!Here, q'.pref = q.pref, q'.here = q.here,
         p'.hls = "none", p'.options = "none",
         \/ /\ p'.mode = p.mode /\ p'.chosen = p.chosen /\ p'.auto = p.auto
            /\ p'.selected = p.selected
         \/ /\ p'.mode = "hls" /\ ~p'.auto /\ p'.selected = p.selected
            /\ p.mode = "hls" \/ p.chosen
         \/ p'.mode = "original" /\ ~p'.chosen,
         p.el # "empty",
         \A a \in asked' : a \in asked \/ a.kind \in {"token", "reach"}
  PROVE  NativeInv'
<1>1. Native(p, q) /\ Sized(p, asked) /\ \A a \in asked : a.kind # "list"
  BY DEF NativeInv
<1>2. Native(p', q)
  BY <1>1 DEF Native
<1>3. Sizes(asked) = {}
  BY <1>1 DEF Sized
<1>4. \A a \in asked' : a.kind # "list" /\ a \notin Sizes(asked')
  BY <1>1, <1>3 DEF Sizes
<1>5. Sizes(asked') = {}
  BY <1>4 DEF Sizes
<1> QED
  BY <1>2, <1>4, <1>5, NativeGoesOn DEF Player!Here

LEMMA NativeBuilding ==
  ASSUME PlayerInv, NativeInv, ~hlsJs, Player!initPlayer PROVE NativeInv'
<1>1. Native(p, q) /\ Sized(p, asked) /\ \A a \in asked : a.kind # "list"
  BY DEF NativeInv
<1>2. /\ p \in Players /\ p.mode = "hls" /\ ~built /\ built' = TRUE
      /\ UNCHANGED <<build, q, allowed>>
  BY DEF PlayerInv, Unbuilt, Player!initPlayer
<1>3. Sizes(asked) = {} /\ \A a \in asked : a.kind # "list"
  BY <1>1, <1>2 DEF Sized
<1>4. CASE /\ Player!effective(q) = "original" /\ UNCHANGED asked
           /\ p' = Player!retryOriginalLoad([p EXCEPT !.mode = "original", !.chosen = TRUE,
                                                      !.shown = "original"])
  <2>1. /\ p'.mode = "original" /\ p'.hls = p.hls /\ p'.options = p.options
        /\ p'.auto = p.auto /\ p'.selected = p.selected
    BY <1>2, <1>4 DEF Player!retryOriginalLoad, Player!Loads, Players
  <2>2. Native(p', q)
    BY <1>1, <1>2, <1>4, <2>1 DEF Native
  <2> QED
    BY <1>2, <1>3, <1>4, <2>2, NativeGoesOn
<1>5. CASE /\ Player!effective(q) = "auto" /\ Player!Ask("size")
           /\ p' = [p EXCEPT !.mode = "original", !.chosen = TRUE, !.auto = TRUE]
  <2>1. /\ p'.mode = "original" /\ p'.chosen /\ p'.auto /\ p'.hls = p.hls
        /\ p'.options = p.options /\ p'.selected = p.selected /\ p'.el = p.el
    BY <1>2, <1>5 DEF Players
  <2>2. Native(p', q)
    BY <1>1, <1>2, <1>5, <2>1 DEF Native
  <2>3. p.el = "empty"
    BY <1>2 DEF PlayerInv, Unbuilt
  <2> DEFINE b == [of |-> build, kind |-> "size", time |-> p.position]
  <2>4. asked' = asked \cup {b} /\ b.kind = "size"
    BY <1>5 DEF Player!Ask
  <2> HIDE DEF b
  <2>5. Sizes(asked') \subseteq {b} /\ \A a \in asked' : a.kind # "list"
    BY <1>3, <2>4 DEF Sizes
  <2> QED
    BY <1>2, <2>1, <2>2, <2>3, <2>5, NativeGoesOn
<1>6. CASE p' = Player!startHlsPlayback(p) /\ UNCHANGED asked
  <2>1. /\ p'.mode = "hls" /\ p'.hls = "none" /\ p'.options = p.options
        /\ p'.auto = p.auto /\ p'.selected = p.selected
    BY <1>2, <1>6 DEF Player!startHlsPlayback, Player!Loads, Players
  <2>2. Native(p', q)
    BY <1>1, <1>2, <2>1 DEF Native
  <2> QED
    BY <1>2, <1>3, <1>6, <2>2, NativeGoesOn
<1> QED
  BY <1>4, <1>5, <1>6 DEF Player!initPlayer

LEMMA NativeLoading ==
  ASSUME PlayerInv, NativeInv, ~hlsJs, Player!ManifestParsed \/ Player!onLoadedMetadata
  PROVE  NativeInv'
<1>1. p \in Players /\ Native(p, q) /\ version \in {1, 2}
  BY DEF PlayerInv, NativeInv
<1>2. Player!onLoadedMetadata /\ Player!Here /\ p.el = "loading"
  BY <1>1 DEF Native, Player!ManifestParsed, Player!onLoadedMetadata
<1>3. q'.pref = q.pref /\ q'.here = q.here
  BY <1>2 DEF Player!onLoadedMetadata, Player!Undecodable, PlayerInv, Picks
<1>4. CASE p' = Player!leaveOriginalForHls(p) /\ p.chosen /\ UNCHANGED asked
  <2>1. p'.mode = "hls" /\ p'.hls = "none" /\ p'.options = p.options /\ ~p'.auto
        /\ p'.selected = p.selected
    BY <1>1, <1>4, LeavingShape
  <2> QED
    BY <1>1, <1>2, <1>3, <1>4, <2>1, NativeStays DEF Native
<1>5. CASE p' = [p EXCEPT
                !.el = "playing", !.meta = TRUE, !.timer = FALSE, !.ready = TRUE,
                !.selected = IF p.mode = "hls" THEN @ ELSE IF p.auto THEN Player!Auto
                             ELSE Player!Original,
                !.status = "none",
                !.position = p.resume.time, !.resume = Player!Nowhere]
           /\ UNCHANGED asked
  <2> DEFINE sel == IF p.mode = "hls" THEN p.selected
                    ELSE IF p.auto THEN Player!Auto ELSE Player!Original
  <2>1. /\ p'.mode = p.mode /\ p'.chosen = p.chosen /\ p'.auto = p.auto /\ p'.hls = p.hls
        /\ p'.options = p.options /\ p'.selected = sel
        /\ p.mode \in {"hls", "original"} /\ p.chosen \in BOOLEAN
    BY <1>1, <1>5 DEF Players
  <2>2. p.mode = "hls" \/ p.chosen => sel = p.selected
    BY <1>1, <2>1 DEF Native, Player!Chosen
  <2> HIDE DEF sel
  <2> QED
    BY <1>1, <1>2, <1>3, <1>5, <2>1, <2>2, NativeStays DEF Native
<1> QED
  BY <1>2, <1>4, <1>5 DEF Player!onLoadedMetadata

LEMMA NativeFailing ==
  ASSUME PlayerInv, NativeInv, ~hlsJs,
         Player!onVideoError \/ Player!HlsError \/ Player!RetryTimer
  PROVE  NativeInv'
<1>1. p \in Players /\ Native(p, q) /\ version \in {1, 2} /\ Fits(p)
  BY DEF PlayerInv, NativeInv
<1>2. Player!Here /\ p.el # "empty" /\ (Player!onVideoError \/ Player!RetryTimer)
  BY <1>1 DEF Native, Fits, Player!onVideoError, Player!HlsError, Player!RetryTimer
<1>3. q'.pref = q.pref /\ q'.here = q.here
  BY <1>2 DEF Player!onVideoError, Player!RetryTimer, Player!ChosenFails, Player!OtherFails,
     Player!recoverWithFreshToken, Player!GiveUp, Player!Undecodable, PlayerInv, Picks
<1>4. \A a \in asked' : a \in asked \/ a.kind \in {"token", "reach"}
  BY <1>2, Asking DEF Player!onVideoError, Player!RetryTimer, Player!ChosenFails,
     Player!OtherFails, Player!recoverWithFreshToken, Player!GiveUp
<1>5. CASE p' = Player!leaveOriginalForHls(p) /\ p.chosen
  <2>1. p'.mode = "hls" /\ p'.hls = "none" /\ p'.options = p.options /\ ~p'.auto
        /\ p'.selected = p.selected
    BY <1>1, <1>5, LeavingShape
  <2> QED
    BY <1>1, <1>2, <1>3, <1>4, <1>5, <2>1, NativeStays DEF Native
<1>6. CASE p' = Player!activateOriginalFallback(p)
  <2>1. p'.mode = "original" /\ ~p'.chosen /\ p'.hls = "none" /\ p'.options = p.options
    BY <1>1, <1>6, FallbackShape
  <2> QED
    BY <1>1, <1>2, <1>3, <1>4, <2>1, NativeStays DEF Native
<1>7. CASE \/ p' = [p EXCEPT !.el = "failed"]
           \/ p' = [p EXCEPT !.el = "failed", !.status = "none"]
           \/ p' = [p EXCEPT !.el = "failed", !.status = "error"]
           \/ p' = [p EXCEPT !.el = "failed", !.timer = TRUE, !.ready = FALSE,
                             !.status = "none"]
           \/ p' = Player!retryOriginalLoad([p EXCEPT !.timer = FALSE])
  <2>1. /\ p'.mode = p.mode /\ p'.chosen = p.chosen /\ p'.auto = p.auto /\ p'.hls = p.hls
        /\ p'.options = p.options /\ p'.selected = p.selected
    BY <1>1, <1>7 DEF Players, Player!retryOriginalLoad, Player!Loads
  <2> QED
    BY <1>1, <1>2, <1>3, <1>4, <2>1, NativeStays DEF Native
<1> QED
  BY <1>2, <1>5, <1>6, <1>7 DEF Player!onVideoError, Player!RetryTimer, Player!ChosenFails,
     Player!OtherFails, Player!recoverWithFreshToken, Player!GiveUp

LEMMA NativeAnswering ==
  ASSUME PlayerInv, NativeInv, ~hlsJs,
         \/ Player!AnswerForNobody \/ Player!SizeAnswered \/ Player!ReachAnswered
         \/ Player!TokenAnswered \/ Player!ListAnswered
  PROVE  NativeInv'
<1>1. /\ p \in Players /\ Native(p, q) /\ version \in {1, 2} /\ Sized(p, asked)
      /\ \A a \in asked : a.kind # "list"
  BY DEF PlayerInv, NativeInv
<1>2. ~Player!ListAnswered
  BY <1>1 DEF Player!ListAnswered, Player!Answered
<1>3. ASSUME asked' \subseteq asked, UNCHANGED <<build, built, p, q, hlsJs, allowed>>
      PROVE  NativeInv'
  <2>1. Player!Chosen(q)' = Player!Chosen(q) /\ Player!effective(q)' = Player!effective(q)
    BY <1>3, SamePick
  <2>2. Native(p, q)'
    BY <1>1, <1>3, <2>1 DEF Native
  <2>3. Sized(p, asked)'
    BY <1>1, <1>3 DEF Sized, Sizes
  <2> QED
    BY <1>1, <1>3, <2>2, <2>3 DEF NativeInv
<1>4. CASE Player!AnswerForNobody
  BY <1>3, <1>4 DEF Player!AnswerForNobody
<1>5. CASE Player!SizeAnswered
  <2>1. PICK a \in asked : a.kind = "size" /\ a.of = build /\ asked' = asked \ {a}
    BY <1>5 DEF Player!SizeAnswered, Player!Answered
  <2>2. p.el = "empty" /\ p.mode = "original" /\ p.chosen
    BY <1>1, <2>1 DEF Sized, Sizes
  <2>3. Player!Here /\ q' = q
    BY <1>5 DEF Player!SizeAnswered
  <2>4. p'.options = "none" /\ p'.hls = "none" /\ p'.selected = p.selected
        /\ \/ p'.mode = "hls" /\ ~p'.auto
           \/ p'.mode = p.mode /\ p'.chosen = p.chosen /\ p'.auto = p.auto
    <3>1. CASE p' = Player!startHlsPlayback([p EXCEPT !.chosen = FALSE, !.auto = FALSE])
      BY <1>1, <3>1 DEF Native, Player!startHlsPlayback, Player!Loads, Players
    <3>2. CASE p' = Player!retryOriginalLoad([p EXCEPT !.shown = "original"])
      BY <1>1, <3>2 DEF Native, Player!retryOriginalLoad, Player!Loads, Players
    <3> QED
      BY <1>5, <2>2, <3>1, <3>2 DEF Player!SizeAnswered
  <2>5. Native(p', q)
    BY <1>1, <2>2, <2>4 DEF Native
  <2>6. Sizes(asked') = {}
    BY <1>1, <2>1 DEF Sized, Sizes
  <2> QED
    BY <1>1, <2>1, <2>3, <2>5, <2>6, NativeGoesOn DEF Player!Here
<1>6. CASE Player!ReachAnswered
  <2>1. Player!Here
    BY <1>6 DEF Player!ReachAnswered
  <2>2. PICK a \in asked : a.kind = "reach" /\ a.of = build
    BY <1>6 DEF Player!ReachAnswered, Player!Answered
  <2>3. p.el # "empty"
    BY <2>2 DEF PlayerInv
  <2>4. q'.pref = q.pref /\ q'.here = q.here
    BY <1>6 DEF Player!ReachAnswered, Player!Undecodable, PlayerInv, Picks
  <2>5. \A x \in asked' : x \in asked \/ x.kind \in {"token", "reach"}
    <3>1. CASE Player!Answered("reach")
      BY <3>1 DEF Player!Answered
    <3>2. CASE \E b \in asked : asked' = (asked \ {b}) \cup {[b EXCEPT !.kind = "token",
                                                                !.time = p.position]}
      <4> PICK b \in asked : asked' = (asked \ {b}) \cup {[b EXCEPT !.kind = "token",
                                                            !.time = p.position]}
        BY <3>2
      <4>1. [b EXCEPT !.kind = "token", !.time = p.position].kind = "token"
        BY DEF PlayerInv, Answers
      <4> QED
        BY <4>1
    <3> QED
      BY <1>6, <3>1, <3>2 DEF Player!ReachAnswered
  <2>6. CASE p' = Player!leaveOriginalForHls(p) /\ p.chosen
    <3>1. p'.mode = "hls" /\ p'.hls = "none" /\ p'.options = p.options /\ ~p'.auto
          /\ p'.selected = p.selected
      BY <1>1, <2>6, LeavingShape
    <3> QED
      BY <1>1, <2>1, <2>3, <2>4, <2>5, <2>6, <3>1, NativeStays DEF Native
  <2>7. CASE p' = [p EXCEPT !.status = "none"] \/ p' = p
    <3>1. /\ p'.mode = p.mode /\ p'.chosen = p.chosen /\ p'.auto = p.auto /\ p'.hls = p.hls
          /\ p'.options = p.options /\ p'.selected = p.selected
      BY <1>1, <2>7 DEF Players
    <3> QED
      BY <1>1, <2>1, <2>3, <2>4, <2>5, <3>1, NativeStays DEF Native
  <2> QED
    BY <1>6, <2>6, <2>7 DEF Player!ReachAnswered
<1>7. CASE Player!TokenAnswered
  <2> PICK a \in asked :
         /\ a.kind = "token" /\ a.of = build /\ asked' = asked \ {a}
         /\ p' = Player!Loads([p EXCEPT
                    !.resume = IF @ = Player!Nowhere THEN [time |-> a.time, of |-> version] ELSE @,
                    !.hls = IF @ = "none" THEN @ ELSE "loading"])
    BY <1>7 DEF Player!TokenAnswered
  <2>1. p.el # "empty"
    BY DEF PlayerInv
  <2> DEFINE back == IF p.resume = Player!Nowhere THEN [time |-> a.time, of |-> version]
                     ELSE p.resume
  <2>2. p.hls = "none"
    BY <1>1 DEF Native
  <2>3. p' = Player!Loads([p EXCEPT !.resume = back, !.hls = "none"])
    BY <2>2
  <2> HIDE DEF back
  <2>4. /\ p'.mode = p.mode /\ p'.chosen = p.chosen /\ p'.auto = p.auto /\ p'.hls = "none"
        /\ p'.options = p.options /\ p'.selected = p.selected
    BY <1>1, <2>3 DEF Player!Loads, Players
  <2>5. Player!Here /\ q' = q
    BY <1>7 DEF Player!TokenAnswered
  <2> QED
    BY <1>1, <2>1, <2>4, <2>5, NativeStays DEF Native
<1> QED
  BY <1>2, <1>4, <1>5, <1>6, <1>7

\* A player that is built anew is set to what is to play, and nobody has asked for it.
LEMMA NativeRebuilding ==
  ASSUME PlayerInv, ~hlsJs, NEW r, NEW picked \in Picks, Player!Rebuild(r, picked, "none"),
         asked' = asked, allowed' = allowed, \A a \in asked : a.kind # "list"
  PROVE  NativeInv'
<1> DEFINE sel == Player!Chosen(picked)
           resume == r.resume
<1>1. /\ build' = build + 1
      /\ p' = [Player!Torn EXCEPT !.selected = sel, !.options = "none", !.resume = resume]
      /\ q' = [picked EXCEPT !.pending = 0, !.undecodable = FALSE]
  BY DEF Player!Rebuild
<1>2. q'.pref = picked.pref /\ q'.here = picked.here
  BY <1>1 DEF Picks
<1>3. Player!Chosen(q)' = sel
  BY <1>2 DEF Player!Chosen, Player!effective
<1> HIDE DEF sel, resume
<1>4. /\ p'.mode = "hls" /\ p'.hls = "none" /\ p'.options = "none" /\ ~p'.auto
      /\ p'.selected = sel
  BY <1>1 DEF Player!Torn
<1>5. Native(p, q)'
  BY <1>3, <1>4 DEF Native
<1>6. \A a \in asked' : a.of # build'
  <2> TAKE a \in asked'
  <2>1. a.of \in Nat /\ build \in Nat /\ a.of <= build
    BY DEF PlayerInv, Answers
  <2> QED
    BY <1>1, <2>1
<1>7. Sized(p, asked)'
  BY <1>6 DEF Sized, Sizes
<1> QED
  BY <1>5, <1>7 DEF NativeInv

LEMMA NativePicking ==
  ASSUME PlayerInv, NativeInv, ~hlsJs,
         \/ Player!PickOriginal
         \/ \E l \in {Player!Auto} \cup Renditions : Player!PickAutoOrRendition(l)
  PROVE  NativeInv'
<1>1. /\ p \in Players /\ q \in Picks /\ Native(p, q) /\ p.options = "none"
      /\ Sized(p, asked) /\ \A a \in asked : a.kind # "list"
  BY DEF PlayerInv, NativeInv, Native
<1>2. UNCHANGED <<asked, hlsJs, allowed>>
  BY DEF Player!PickOriginal, Player!PickAutoOrRendition
<1>3. CASE Player!PickOriginal
  <2> DEFINE picked == [q EXCEPT !.pref = "original", !.here = TRUE, !.height = 0, !.pending = 0]
  <2>1. picked \in Picks /\ picked.pref = "original" /\ picked.here
    BY <1>1 DEF Picks
  <2>2. CASE Player!Rebuild(Player!captureResumePoint(p), picked, p.options)
    BY <1>1, <1>2, <2>1, <2>2, NativeRebuilding
  <2>3. CASE Player!effective(q) = "original" /\ q' = picked /\ UNCHANGED <<build, built, p>>
    <3> HIDE DEF picked
    <3>1. Player!effective(q)' = "original"
      BY <2>1, <2>3 DEF Player!effective
    <3>2. Player!Chosen(q)' = Player!Chosen(q) /\ Player!effective(q)' = Player!effective(q)
      BY <2>3, <3>1 DEF Player!Chosen
    <3>3. Native(p, q)'
      BY <1>1, <2>3, <3>2 DEF Native
    <3>4. Sized(p, asked)'
      BY <1>1, <1>2, <2>3 DEF Sized, Sizes
    <3> QED
      BY <1>1, <1>2, <3>3, <3>4 DEF NativeInv
  <2> QED
    BY <1>3, <2>2, <2>3 DEF Player!PickOriginal
<1>4. CASE \E l \in {Player!Auto} \cup Renditions : Player!PickAutoOrRendition(l)
  <2> DEFINE picked == [q EXCEPT !.height = 0, !.pending = 0]
             other == [picked EXCEPT !.pref = "auto"]
  <2>1. Player!PickAutoOrRendition(Player!Auto)
    BY <1>1, <1>4 DEF Player!PickAutoOrRendition
  <2>2. picked \in Picks /\ other \in Picks /\ picked.pref = q.pref /\ picked.here = q.here
    BY <1>1 DEF Picks
  <2>3. CASE Player!effective(q) = "original"
    <3>1. Player!Rebuild(Player!captureResumePoint(p), other, "none")
      BY <1>1, <2>1, <2>3 DEF Player!PickAutoOrRendition
    <3> QED
      BY <1>1, <1>2, <2>2, <3>1, NativeRebuilding
  <2>4. CASE Player!effective(q) # "original"
    <3>1. UNCHANGED <<build, built>>
          /\ \/ q' = picked /\ p' = p
             \/ q' = [picked EXCEPT !.pending = Player!Auto]
                /\ p' = [p EXCEPT !.selected = Player!Auto]
      <4>1. p.hls = "none"
        BY <1>1 DEF Native
      <4> QED
        BY <2>1, <2>4, <4>1 DEF Player!PickAutoOrRendition
    <3>2. q'.pref = q.pref /\ q'.here = q.here
      BY <2>2, <3>1 DEF Picks
    <3>3. Player!Chosen(q)' = Player!Chosen(q) /\ Player!effective(q)' = Player!effective(q)
      BY <1>2, <3>2, SamePick
    <3>4. Player!Chosen(q) = Player!Auto
      BY <2>4 DEF Player!Chosen
    <3>5. /\ p'.mode = p.mode /\ p'.chosen = p.chosen /\ p'.auto = p.auto /\ p'.hls = p.hls
          /\ p'.options = p.options /\ p'.el = p.el
          /\ p'.selected \in {p.selected, Player!Auto}
      BY <1>1, <3>1 DEF Players
    <3>6. Native(p, q)'
      BY <1>1, <3>3, <3>4, <3>5 DEF Native
    <3>7. Sized(p, asked)'
      BY <1>1, <1>2, <3>1, <3>5 DEF Sized, Sizes
    <3> QED
      BY <1>1, <1>2, <3>6, <3>7 DEF NativeInv
  <2> QED
    BY <2>3, <2>4
<1> QED
  BY <1>3, <1>4

LEMMA NativeWatching ==
  ASSUME PlayerInv, NativeInv, ~hlsJs, Player!Watch \/ Player!SwitchVersion PROVE NativeInv'
<1>1. /\ p \in Players /\ q \in Picks /\ Native(p, q)
      /\ Sized(p, asked) /\ \A a \in asked : a.kind # "list"
  BY DEF PlayerInv, NativeInv
<1>2. CASE Player!Watch
  <2>1. p' = [p EXCEPT !.position = 1] /\ UNCHANGED <<q, asked>> /\ Player!Here /\ p.el # "empty"
    BY <1>2 DEF Player!Watch
  <2>2. /\ p'.mode = p.mode /\ p'.chosen = p.chosen /\ p'.auto = p.auto /\ p'.hls = p.hls
        /\ p'.options = p.options /\ p'.selected = p.selected
    BY <1>1, <2>1 DEF Players
  <2> QED
    BY <1>1, <2>1, <2>2, NativeStays DEF Native
<1>3. CASE Player!SwitchVersion
  BY <1>1, <1>3, NativeRebuilding DEF Player!SwitchVersion
<1> QED
  BY <1>2, <1>3

LEMMA NativeInit == Player!Init => NativeInv
<1> SUFFICES ASSUME Player!Init PROVE NativeInv
  OBVIOUS
<1> DEFINE sel == Player!Chosen(q)
<1>1. p = [Player!Torn EXCEPT !.selected = sel] /\ asked = {}
  BY DEF Player!Init
<1> HIDE DEF sel
<1>2. p.mode = "hls" /\ p.hls = "none" /\ p.options = "none" /\ ~p.auto /\ p.selected = sel
  BY <1>1 DEF Player!Torn
<1> QED
  BY <1>1, <1>2 DEF NativeInv, Native, Sized, Sizes, sel

LEMMA NativeStep == PlayerInv /\ NativeInv /\ [ServiceNext]_everything => NativeInv'
<1> SUFFICES ASSUME PlayerInv, NativeInv, [ServiceNext]_everything PROVE NativeInv'
  OBVIOUS
<1>1. CASE Playing
  <2>1. hlsJs' = hlsJs /\ Player!Next
    BY <1>1 DEF Playing, Player!Next, Player!initPlayer, Player!ManifestParsed,
       Player!onLoadedMetadata, Player!onVideoError, Player!HlsError, Player!RetryTimer,
       Player!AnswerForNobody, Player!SizeAnswered, Player!ReachAnswered, Player!TokenAnswered,
       Player!ListAnswered, Player!PickOriginal, Player!PickAutoOrRendition, Player!Watch,
       Player!SwitchVersion, Player!Here
  <2>2. CASE hlsJs
    BY <2>1, <2>2 DEF NativeInv
  <2>3. CASE ~hlsJs
    BY <2>1, <2>3, NativeBuilding, NativeLoading, NativeFailing, NativeAnswering,
       NativePicking, NativeWatching DEF Player!Next
  <2> QED
    BY <2>2, <2>3
<1>2. CASE UNCHANGED player
  BY <1>2 DEF player, NativeInv, Native, Sized, Sizes, Player!Chosen, Player!effective
<1> QED
  BY <1>1, <1>2 DEF ServiceNext, Limiting, SigningUp, Saving, Exporting, Counting, everything

\* The quality menu shows what plays, whatever failed, was picked or was built again on
\* the way, and hls.js never feeds the element while the original is loaded into it
\* (use-video-player).  In the browser's own player, which has no list of renditions, an
\* Original that the viewer chose stays marked after it has failed, and Auto otherwise.
THEOREM MenuAgrees == ServiceSpec => []MenuTellsWhatPlays
<1>1. ServiceInit => PlayerInv /\ NativeInv
  BY PlayerInit, NativeInit DEF ServiceInit
<1>2. PlayerInv /\ NativeInv => MenuTellsWhatPlays
  BY DEF PlayerInv, Fits, NativeInv, Native, MenuTellsWhatPlays, Player!MenuTellsWhatPlays
<1>3. PlayerInv /\ NativeInv /\ [ServiceNext]_everything => (PlayerInv /\ NativeInv)'
  BY PlayerStep, NativeStep
<1> QED
  BY <1>1, <1>2, <1>3, PTL DEF ServiceSpec

===============================================================================
