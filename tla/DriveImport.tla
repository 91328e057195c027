------------------------------ MODULE DriveImport ------------------------------
(***************************************************************************)
(* Google Drive imports of videos: the request that starts one, the copy   *)
(* that may run on behind it, and the polls that finish or fail it.        *)
(*                                                                         *)
(* There is no job queue.  The row's status is the only lock: whoever      *)
(* moves it from TRANSFERRING to FINALIZING writes the video, whoever      *)
(* moves it to FAILED gives back the quota and the media.  Everyone else   *)
(* works from what it read before, and any process may stop between two    *)
(* awaits.  Access is rechecked in the final transaction; here it may turn *)
(* out either way.                                                         *)
(***************************************************************************)
EXTENDS Naturals, FiniteSets

CONSTANTS
    Imports,        \* ids of DriveImport rows
    Procs,          \* requests and background copies the server runs at once
    Backends,       \* storage imports go to: "S3", "BUNNY"
    CopySlots,      \* S3_COPY_CONCURRENCY
    MaxCrashes,     \* bound: how often a process dies
    LostAnswers     \* TRUE: a statement may commit and its answer get lost

ASSUME ImportAssumption ==
    /\ Backends \subseteq {"S3", "BUNNY"}
    /\ CopySlots \in Nat \ {0}
    /\ MaxCrashes \in Nat
    /\ LostAnswers \in BOOLEAN

VARIABLES
    status,         \* DriveImport.status, "none" before the row exists
    backend,        \* which storage the import goes to
    hold,           \* its quota reservation: "none", "held", "released"
    recorded,       \* the row names the media: bunnyVideoId or objectKey
    transferred,    \* transferredAt is set
    media,          \* what storage has for the import
    rows,           \* video, version and asset rows written for it
    old,            \* older than DRIVE_IMPORT_MAX_AGE_MS
    at,             \* the next step of each process
    on,             \* the import it works on
    copying,        \* processes that hold a copy slot
    crashes

row == <<status, hold, recorded, transferred>>
vars == <<row, backend, media, rows, old, at, on, copying, crashes>>

Active == {"TRANSFERRING", "FINALIZING"}
Statuses == Active \cup {"none", "DONE", "FAILED"}

StartSteps == {"start.row", "fetch.send", "fetch.record", "fetch.search", "fetch.fail"}
CopySteps == {"copy.queued", "copy.read", "copy.open", "copy.record", "copy.send", "copy.mark",
              "copy.discard", "copy.abort", "copy.delete", "copy.fail"}
PollSteps == {"poll.fail", "poll.bunny"}
FinalSteps == {"final.claim", "final.check", "final.commit", "final.refuse", "final.handback"}
CleanSteps == {"clean.abort", "clean.object", "clean.bunny"}
Running == StartSteps \cup CopySteps \cup PollSteps \cup FinalSteps \cup CleanSteps

\* What a multipart upload or a Bunny fetch goes through; "broken" is a video
\* Bunny could not process.
Media == {"none", "open", "landed", "broken", "gone"}

TypeOK ==
    /\ status \in [Imports -> Statuses]
    /\ backend \in [Imports -> Backends]
    /\ hold \in [Imports -> {"none", "held", "released"}]
    /\ recorded \in [Imports -> BOOLEAN]
    /\ transferred \in [Imports -> BOOLEAN]
    /\ media \in [Imports -> Media]
    /\ rows \in [Imports -> Nat]
    /\ old \in [Imports -> BOOLEAN]
    /\ at \in [Procs -> Running \cup {"idle"}]
    /\ on \in [Procs -> Imports]
    /\ copying \subseteq Procs
    /\ crashes \in 0..MaxCrashes

Init ==
    /\ status = [i \in Imports |-> "none"]
    /\ backend \in [Imports -> Backends]
    /\ hold = [i \in Imports |-> "none"]
    /\ recorded = [i \in Imports |-> FALSE]
    /\ transferred = [i \in Imports |-> FALSE]
    /\ media = [i \in Imports |-> "none"]
    /\ rows = [i \in Imports |-> 0]
    /\ old = [i \in Imports |-> FALSE]
    /\ at = [p \in Procs |-> "idle"]
    /\ on \in [Procs -> Imports]
    /\ copying = {}
    /\ crashes = 0

\* A process that ends gives its copy slot to the next in line.
Goto(p, step) ==
    /\ at' = [at EXCEPT ![p] = step]
    /\ copying' = IF step = "idle" THEN copying \ {p} ELSE copying
    /\ UNCHANGED <<backend, old, crashes>>

Begin(p, i, step) ==
    /\ at[p] = "idle"
    /\ on' = [on EXCEPT ![p] = i]
    /\ Goto(p, step)

From(p, here, step) ==
    /\ at[p] = here
    /\ Goto(p, step)
    /\ UNCHANGED on

\* The step after a database statement, or after an exception in its place.
Answered == IF LostAnswers THEN BOOLEAN ELSE {TRUE}

Working(i, steps) == \E p \in Procs : on[p] = i /\ at[p] \in steps

(***************************************************************************)
(* startDriveImport: the reservation, then the row.                        *)
(***************************************************************************)
StartReserve(p, i) ==
    /\ hold[i] = "none"
    /\ hold' = [hold EXCEPT ![i] = "held"]
    /\ Begin(p, i, "start.row")
    /\ UNCHANGED <<status, recorded, transferred, media, rows>>

StartRow(p) ==
    LET i == on[p]
    IN  /\ status' = [status EXCEPT ![i] = "TRANSFERRING"]
        /\ \E answered \in Answered :
              /\ From(p, "start.row", IF ~answered THEN "idle"
                                      ELSE IF backend[i] = "S3" THEN "copy.queued"
                                      ELSE "fetch.send")
              /\ hold' = IF answered THEN hold ELSE [hold EXCEPT ![i] = "released"]
        /\ UNCHANGED <<recorded, transferred, media, rows>>

StartRowFails(p) ==
    /\ From(p, "start.row", "idle")
    /\ hold' = [hold EXCEPT ![on[p]] = "released"]
    /\ UNCHANGED <<status, recorded, transferred, media, rows>>

(***************************************************************************)
(* Bunny: ask for the fetch, write the video's id to the row.  Any         *)
(* exception leads to a search for the marker, then to failDriveImport.    *)
(***************************************************************************)
FetchSend(p) ==
    /\ media' = [media EXCEPT ![on[p]] = "open"]
    /\ From(p, "fetch.send", "fetch.record") \/ From(p, "fetch.send", "fetch.search")
    /\ UNCHANGED <<row, rows>>

FetchSendFails(p) ==
    /\ From(p, "fetch.send", "fetch.search")
    /\ UNCHANGED <<row, media, rows>>

FetchRecord(p) ==
    /\ recorded' = [recorded EXCEPT ![on[p]] = TRUE]
    /\ \E answered \in Answered :
          From(p, "fetch.record", IF answered THEN "idle" ELSE "fetch.search")
    /\ UNCHANGED <<status, hold, transferred, media, rows>>

FetchRecordFails(p) ==
    /\ From(p, "fetch.record", "fetch.search")
    /\ UNCHANGED <<row, media, rows>>

FetchSearch(p) ==
    /\ \/ media[on[p]] # "none" /\ recorded' = [recorded EXCEPT ![on[p]] = TRUE]
       \/ UNCHANGED recorded
    /\ From(p, "fetch.search", "fetch.fail")
    /\ UNCHANGED <<status, hold, transferred, media, rows>>

\* Bunny downloads from Drive and encodes on its own.
BunnyWorks(i) ==
    /\ backend[i] = "BUNNY"
    /\ \/ media[i] = "open" /\ \E m \in {"landed", "broken"} : media' = [media EXCEPT ![i] = m]
       \/ media[i] = "landed" /\ media' = [media EXCEPT ![i] = "broken"]
    /\ UNCHANGED <<row, backend, rows, old, at, on, copying, crashes>>

(***************************************************************************)
(* copyDriveFileToS3.                                                      *)
(***************************************************************************)
CopyAcquire(p) ==
    /\ at[p] = "copy.queued" /\ Cardinality(copying) < CopySlots
    /\ at' = [at EXCEPT ![p] = "copy.read"]
    /\ copying' = copying \cup {p}
    /\ UNCHANGED <<row, backend, media, rows, old, on, crashes>>

CopyRead(p) ==
    /\ From(p, "copy.read", IF status[on[p]] = "TRANSFERRING" THEN "copy.open" ELSE "idle")
    /\ UNCHANGED <<row, media, rows>>

CopyOpen(p) ==
    /\ media' = [media EXCEPT ![on[p]] = "open"]
    /\ From(p, "copy.open", "copy.record")
    /\ UNCHANGED <<row, rows>>

\* A multipart upload whose id never arrived stays open in storage.
CopyOpenFails(p) ==
    /\ \/ From(p, "copy.read", "copy.fail") /\ UNCHANGED media
       \/ From(p, "copy.open", "copy.fail") /\ UNCHANGED media
       \/ From(p, "copy.open", "copy.fail") /\ media' = [media EXCEPT ![on[p]] = "open"]
    /\ UNCHANGED <<row, rows>>

\* The row is written by id, whatever its status is by now.
CopyRecord(p) ==
    /\ recorded' = [recorded EXCEPT ![on[p]] = TRUE]
    /\ \E answered \in Answered :
          From(p, "copy.record", IF answered THEN "copy.send" ELSE "copy.abort")
    /\ UNCHANGED <<status, hold, transferred, media, rows>>

CopyRecordFails(p) ==
    /\ From(p, "copy.record", "copy.abort")
    /\ UNCHANGED <<row, media, rows>>

CopySend(p) ==
    /\ media[on[p]] = "open"
    /\ media' = [media EXCEPT ![on[p]] = "landed"]
    /\ From(p, "copy.send", "copy.mark") \/ From(p, "copy.send", "copy.abort")
    /\ UNCHANGED <<row, rows>>

\* Drive stalls, storage refuses, or the heartbeat finds the row failed.
CopySendFails(p) ==
    /\ From(p, "copy.send", "copy.abort")
    /\ UNCHANGED <<row, media, rows>>

CopyMark(p) ==
    LET i == on[p]
        marked == status[i] = "TRANSFERRING"
    IN  /\ transferred' = [transferred EXCEPT ![i] = @ \/ marked]
        /\ \E answered \in Answered :
              From(p, "copy.mark", IF ~answered THEN "copy.delete"
                                   ELSE IF marked THEN "final.claim" ELSE "copy.discard")
        /\ UNCHANGED <<status, hold, recorded, media, rows>>

CopyMarkFails(p) ==
    /\ From(p, "copy.mark", "copy.delete")
    /\ UNCHANGED <<row, media, rows>>

AbortUpload(i) == media' = [media EXCEPT ![i] = IF @ = "open" THEN "gone" ELSE @]
DeleteMedia(i) == media' = [media EXCEPT ![i] = IF @ = "none" THEN @ ELSE "gone"]

\* Deleting the finished object of a row that was failed meanwhile.
CopyDiscard(p) ==
    /\ DeleteMedia(on[p]) \/ UNCHANGED media
    /\ From(p, "copy.discard", "idle")
    /\ UNCHANGED <<row, rows>>

\* The catch block: abort or delete, best effort, then fail the row.
CopyUndo(p) ==
    /\ \/ From(p, "copy.abort", "copy.fail") /\ (AbortUpload(on[p]) \/ UNCHANGED media)
       \/ From(p, "copy.delete", "copy.fail") /\ (DeleteMedia(on[p]) \/ UNCHANGED media)
    /\ UNCHANGED <<row, rows>>

(***************************************************************************)
(* finalizeDriveImport.                                                    *)
(***************************************************************************)
FinalClaim(p) ==
    LET i == on[p]
        claimed == status[i] = "TRANSFERRING"
    IN  /\ status' = IF claimed THEN [status EXCEPT ![i] = "FINALIZING"] ELSE status
        /\ \E answered \in Answered :
              From(p, "final.claim", IF answered /\ claimed THEN "final.check" ELSE "idle")
        /\ UNCHANGED <<hold, recorded, transferred, media, rows>>

FinalClaimFails(p) ==
    /\ From(p, "final.claim", "idle")
    /\ UNCHANGED <<row, media, rows>>

FinalCheck(p) ==
    /\ From(p, "final.check", IF old[on[p]] THEN "final.refuse" ELSE "final.commit")
    /\ UNCHANGED <<row, media, rows>>

\* Broken form of FinalCommit: the reservation is released after the commit, if
\* nothing happens in between.
FinalCommitKeepsHold(p) ==
    LET i == on[p]
    IN  /\ recorded[i]
        /\ rows' = [rows EXCEPT ![i] = @ + 1]
        /\ status' = [status EXCEPT ![i] = "DONE"]
        /\ From(p, "final.commit", "idle")
        /\ UNCHANGED <<hold, recorded, transferred, media>>

\* One transaction: the new row, the reservation, the status.
FinalCommit(p) ==
    LET i == on[p]
    IN  /\ recorded[i]
        /\ rows' = [rows EXCEPT ![i] = @ + 1]
        /\ hold' = [hold EXCEPT ![i] = "released"]
        /\ status' = [status EXCEPT ![i] = "DONE"]
        /\ \E answered \in Answered :
              From(p, "final.commit", IF answered THEN "idle" ELSE "final.handback")
        /\ UNCHANGED <<recorded, transferred, media>>

\* Access is gone; or anything else went wrong.
FinalCommitFails(p) ==
    /\ From(p, "final.commit", "final.refuse") \/ From(p, "final.commit", "final.handback")
    /\ UNCHANGED <<row, media, rows>>

FinalHandback(p) ==
    LET i == on[p]
    IN  /\ \/ status' = IF status[i] = "FINALIZING"
                        THEN [status EXCEPT ![i] = "TRANSFERRING"] ELSE status
           \/ UNCHANGED status
        /\ From(p, "final.handback", "idle")
        /\ UNCHANGED <<hold, recorded, transferred, media, rows>>

(***************************************************************************)
(* failDriveImport: status and reservation in one transaction, then the    *)
(* media the row names.                                                    *)
(***************************************************************************)
Cleanup(i) ==
    IF ~recorded[i] THEN "idle"
    ELSE IF backend[i] = "BUNNY" THEN "clean.bunny"
    ELSE IF transferred[i] THEN "clean.object" ELSE "clean.abort"

FailSteps == {"fetch.fail", "copy.fail", "poll.fail", "final.refuse"}
FailsFrom(step) == IF step = "final.refuse" THEN "FINALIZING" ELSE "TRANSFERRING"

FailRow(p) ==
    LET i == on[p]
    IN  /\ at[p] \in FailSteps /\ status[i] = FailsFrom(at[p])
        /\ status' = [status EXCEPT ![i] = "FAILED"]
        /\ hold' = [hold EXCEPT ![i] = "released"]
        /\ \E answered \in Answered : From(p, at[p], IF answered THEN Cleanup(i) ELSE "idle")
        /\ UNCHANGED <<recorded, transferred, media, rows>>

\* Broken form of FailMisses: the media is cleaned up whoever failed the row.
FailMissesCleans(p) ==
    /\ at[p] \in FailSteps
    /\ From(p, at[p], Cleanup(on[p]))
    /\ UNCHANGED <<row, media, rows>>

\* Another process was first, or the transaction failed.
FailMisses(p) ==
    /\ at[p] \in FailSteps
    /\ From(p, at[p], "idle")
    /\ UNCHANGED <<row, media, rows>>

CleanMedia(p) ==
    /\ \/ at[p] = "clean.abort" /\ AbortUpload(on[p])
       \/ at[p] \in {"clean.object", "clean.bunny"} /\ DeleteMedia(on[p])
       \/ at[p] \in CleanSteps /\ UNCHANGED media
    /\ From(p, at[p], "idle")
    /\ UNCHANGED <<row, rows>>

(***************************************************************************)
(* reconcileDriveImport, for a row a poll has read.  A copy's heartbeat    *)
(* can look stale while it still runs.  The two long deadlines cannot: a   *)
(* start ends within its own timeouts, far below BUNNY_START_DEADLINE_MS,  *)
(* and a finalize ends within its transaction's, below FINALIZING_STALE_MS.*)
(***************************************************************************)
PollS3(p, i) ==
    /\ backend[i] = "S3"
    /\ \/ transferred[i] /\ Begin(p, i, "final.claim")
       \/ ~transferred[i] /\ Begin(p, i, "poll.fail")

PollBunny(p, i) ==
    /\ backend[i] = "BUNNY"
    /\ \/ ~recorded[i] /\ ~Working(i, StartSteps) /\ Begin(p, i, "poll.fail")
       \/ recorded[i] /\ Begin(p, i, "poll.bunny")

Poll(p, i) ==
    /\ status[i] = "TRANSFERRING"
    /\ IF old[i] THEN Begin(p, i, "poll.fail") ELSE PollS3(p, i) \/ PollBunny(p, i)
    /\ UNCHANGED <<row, media, rows>>

\* Bunny's answer; a fetch still open may have passed its deadline, and a
\* lookup that fails ends the poll.
PollStatus(p) ==
    /\ \/ media[on[p]] \in {"broken", "gone", "open"} /\ From(p, "poll.bunny", "poll.fail")
       \/ media[on[p]] = "landed" /\ From(p, "poll.bunny", "final.claim")
       \/ From(p, "poll.bunny", "idle")
    /\ UNCHANGED <<row, media, rows>>

\* Broken form of PollStale: a row somebody claimed is left to whoever did.
PollStaleWaits(p, i) ==
    /\ at[p] = "idle" /\ status[i] = "FINALIZING"
    /\ UNCHANGED vars

PollStale(p, i) ==
    /\ at[p] = "idle"
    /\ status[i] = "FINALIZING" /\ ~Working(i, FinalSteps \ {"final.claim"})
    /\ status' = [status EXCEPT ![i] = "TRANSFERRING"]
    /\ UNCHANGED <<hold, recorded, transferred, backend, media, rows, old, at, on, copying, crashes>>

Old(i) ==
    /\ status[i] # "none" /\ ~old[i]
    /\ old' = [old EXCEPT ![i] = TRUE]
    /\ UNCHANGED <<row, backend, media, rows, at, on, copying, crashes>>

Crash(p) ==
    /\ at[p] # "idle" /\ crashes < MaxCrashes
    /\ crashes' = crashes + 1
    /\ at' = [at EXCEPT ![p] = "idle"]
    /\ copying' = copying \ {p}
    /\ UNCHANGED <<row, backend, media, rows, old, on>>

Step(p) ==
    \/ StartRow(p) \/ StartRowFails(p)
    \/ FetchSend(p) \/ FetchSendFails(p) \/ FetchRecord(p) \/ FetchRecordFails(p) \/ FetchSearch(p)
    \/ CopyAcquire(p) \/ CopyRead(p) \/ CopyOpen(p) \/ CopyOpenFails(p)
    \/ CopyRecord(p) \/ CopyRecordFails(p) \/ CopySend(p) \/ CopySendFails(p)
    \/ CopyMark(p) \/ CopyMarkFails(p) \/ CopyDiscard(p) \/ CopyUndo(p)
    \/ FinalClaim(p) \/ FinalClaimFails(p) \/ FinalCheck(p) \/ FinalCommit(p)
    \/ FinalCommitFails(p) \/ FinalHandback(p)
    \/ FailRow(p) \/ FailMisses(p) \/ CleanMedia(p) \/ PollStatus(p)

Next ==
    \/ \E p \in Procs : Step(p) \/ Crash(p)
    \/ \E p \in Procs, i \in Imports : StartReserve(p, i) \/ Poll(p, i) \/ PollStale(p, i)
    \/ \E i \in Imports : BunnyWorks(i) \/ Old(i)

Spec == Init /\ [][Next]_vars

(***************************************************************************)
(* What runs goes on running, the uploader's page polls for as long as an  *)
(* import is open, time passes, and the database does not refuse to fail   *)
(* the same row for ever.                                                  *)
(***************************************************************************)
Polled(i) == \E p \in Procs : Poll(p, i) \/ PollStale(p, i)
Failed(i) == \E p \in Procs : on[p] = i /\ FailRow(p)

Fairness ==
    /\ \A p \in Procs : WF_vars(Step(p))
    /\ \A i \in Imports : SF_vars(Polled(i)) /\ WF_vars(Old(i)) /\ SF_vars(Failed(i))

FairSpec == Spec /\ Fairness

-----------------------------------------------------------------------------
(***************************************************************************)
(* Properties.                                                             *)
(***************************************************************************)

\* However many polls reach a finished import at once, and however often a
\* finalize crashes or is handed back, one video is written for it, and only
\* for an import that ends as DONE.
OneRowPerImport ==
    \A i \in Imports : rows[i] = IF status[i] = "DONE" THEN 1 ELSE 0

\* The quota of an import is held for as long as it can still become a video,
\* and not a step longer, whoever finished or failed it.
HoldFollowsStatus ==
    \A i \in Imports :
        /\ status[i] \in Active => hold[i] = "held"
        /\ status[i] \in {"DONE", "FAILED"} => hold[i] = "released"

\* No process that is late deletes the media of an import that became a video.
AttachedMediaStays ==
    \A i \in Imports : status[i] = "DONE" => media[i] \in {"landed", "broken"}

\* An import that is DONE or FAILED stays so, although rows are written by id.
SettledForGood ==
    [][\A i \in Imports : status[i] \in {"DONE", "FAILED"} => status'[i] = status[i]]_vars

\* An import somebody keeps polling is DONE or FAILED in the end, whatever
\* crashed on the way and however many copies wait for a slot.
ImportsSettle ==
    \A i \in Imports : status[i] \in Active ~> status[i] \in {"DONE", "FAILED"}
===============================================================================
