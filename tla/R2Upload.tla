------------------------------- MODULE R2Upload -------------------------------
(***************************************************************************)
(* The life of a direct upload to the instance's own S3/R2 bucket, from    *)
(* the r2-init POST that opens it to the row that owns its object, or to   *)
(* the cleanup that removes it.                                            *)
(*                                                                         *)
(* Four stores change, and no transaction spans them: the upload session   *)
(* row, the quota reservation row (the hold), the object in the bucket and *)
(* the version or asset row that names the object.  Every HTTP request is  *)
(* a process that runs one step per awaited call, so any two requests for  *)
(* the same upload interleave between any two of their awaits: a double    *)
(* click, a retry of a request whose answer was lost, or a tab that closes *)
(* (its keepalive DELETE) while another call is still running.             *)
(*                                                                         *)
(* Quota amounts are StorageLedger's subject; here a hold either counts or *)
(* does not.                                                               *)
(***************************************************************************)
EXTENDS FiniteSets

CONSTANTS
    Uploads,    \* uploads that may be opened, each with its own object key
    Requests,   \* request slots of the server; a slot serves many requests
    MayCrash    \* TRUE: a server process may die between two awaits

ASSUME CrashAssumption == MayCrash \in BOOLEAN

VARIABLES
    session,    \* VideoUploadSession.status, "none" before the row exists
    hold,       \* the UploadReservation row: "none", "held", "released"
    age,        \* which of the upload's deadlines have passed
    multipart,  \* the S3 multipart upload, "none" for a single PUT
    object,     \* what the bucket holds under the object key
    rows,       \* VideoVersion and VideoAsset rows naming the object
    at,         \* the next step of each request
    on,         \* the upload each request is about
    sweep       \* keys the orphan sweeper decided to delete

vars == <<session, hold, age, multipart, object, rows, at, on, sweep>>
stores == <<session, hold, multipart, object, rows>>

(***************************************************************************)
(* The reservation's deadline is computed before the session's, by the     *)
(* same POST and with the same TTL, so a session outlives its hold.  "old" *)
(* is the sweeper's seven days after the object was last written, when no  *)
(* presigned URL works and no request is still running.                    *)
(***************************************************************************)
Ages == {"fresh", "holdLapsed", "sessionLapsed", "old"}
Statuses == {"none", "INITIATED", "FINALIZED", "CANCELLED"}
Contents == {"video", "oversize", "notVideo"}

InitSteps == {"init.presign", "init.session"}
CompleteSteps == {"complete.send", "complete.abort", "complete.cancel", "complete.release"}
CancelSteps == {"cancel.update", "cancel.delete", "cancel.release"}
AttachSteps == {"attach.head", "attach.magic", "attach.cancel", "attach.delete", "attach.commit"}
RemoveSteps == {"remove.object", "remove.rows"}
Running == InitSteps \cup CompleteSteps \cup CancelSteps \cup AttachSteps \cup RemoveSteps
Steps == Running \cup {"idle", "cancel.refused"}

Row == [upload : Uploads, kind : {"version", "asset"}, by : Requests]
HasRow(u) == \E x \in rows : x.upload = u
Unexpired(u) == age[u] \in {"fresh", "holdLapsed"}
\* What the quota sums see: the row exists and its expiresAt has not passed.
Live(u) == hold[u] = "held" /\ age[u] = "fresh"
Released(u) == IF hold[u] = "held" THEN [hold EXCEPT ![u] = "released"] ELSE hold
InFlight(u) == {r \in Requests : on[r] = u /\ at[r] \in Running}

Goto(r, step) == at' = [at EXCEPT ![r] = step]

TypeOK ==
    /\ session \in [Uploads -> Statuses]
    /\ hold \in [Uploads -> {"none", "held", "released"}]
    /\ age \in [Uploads -> Ages]
    /\ multipart \in [Uploads -> {"none", "open", "completed", "aborted"}]
    /\ object \in [Uploads -> Contents \cup {"absent"}]
    /\ rows \subseteq Row
    /\ at \in [Requests -> Steps]
    /\ on \in [Requests -> Uploads]
    /\ sweep \subseteq Uploads

Init ==
    /\ session = [u \in Uploads |-> "none"]
    /\ hold = [u \in Uploads |-> "none"]
    /\ age = [u \in Uploads |-> "fresh"]
    /\ multipart = [u \in Uploads |-> "none"]
    /\ object = [u \in Uploads |-> "absent"]
    /\ rows = {}
    /\ at = [r \in Requests |-> "idle"]
    /\ on \in [Requests -> Uploads]
    /\ sweep = {}

Begin(r, u, step) ==
    /\ at[r] = "idle"
    /\ on' = [on EXCEPT ![r] = u]
    /\ Goto(r, step)
    /\ UNCHANGED <<age, sweep>>

Continue(r, here, step) ==
    /\ at[r] = here
    /\ Goto(r, step)
    /\ UNCHANGED <<on, age, sweep>>

(***************************************************************************)
(* POST r2-init: reserve the quota, ask storage for the URLs, write the    *)
(* session.  A presign failure aborts the multipart upload (best effort)   *)
(* and releases the hold; a failed session insert does neither.            *)
(***************************************************************************)
InitReserve(r, u) ==
    /\ session[u] = "none" /\ hold[u] = "none"
    /\ hold' = [hold EXCEPT ![u] = "held"]
    /\ Begin(r, u, "init.presign")
    /\ UNCHANGED <<session, multipart, object, rows>>

InitPresign(r) ==
    /\ \E m \in {"none", "open"} : multipart' = [multipart EXCEPT ![on[r]] = m]
    /\ Continue(r, "init.presign", "init.session")
    /\ UNCHANGED <<session, hold, object, rows>>

InitPresignFails(r) ==
    /\ \E m \in {"none", "open", "aborted"} : multipart' = [multipart EXCEPT ![on[r]] = m]
    /\ hold' = Released(on[r])
    /\ Continue(r, "init.presign", "idle")
    /\ UNCHANGED <<session, object, rows>>

InitSession(r) ==
    /\ session' = [session EXCEPT ![on[r]] = "INITIATED"]
    /\ Continue(r, "init.session", "idle")
    /\ UNCHANGED <<hold, multipart, object, rows>>

InitSessionFails(r) ==
    /\ Continue(r, "init.session", "idle")
    /\ UNCHANGED stores

(***************************************************************************)
(* The browser PUTs the file to the presigned URL.  The URL is good for an *)
(* hour from the POST and a slow PUT ends after that; nothing ties it to   *)
(* the session's status.                                                   *)
(***************************************************************************)
PutObject(u) ==
    /\ session[u] # "none" /\ multipart[u] = "none"
    /\ age[u] # "old" /\ object[u] = "absent"
    /\ \E c \in Contents : object' = [object EXCEPT ![u] = c]
    /\ UNCHANGED <<session, hold, age, multipart, rows, at, on, sweep>>

(***************************************************************************)
(* POST r2-complete.  Any exception of CompleteMultipartUpload, one whose  *)
(* request did reach storage included, is taken for a failed upload.       *)
(***************************************************************************)
CompleteRead(r, u) ==
    /\ session[u] = "INITIATED" /\ Unexpired(u) /\ multipart[u] # "none"
    /\ Begin(r, u, "complete.send")
    /\ UNCHANGED stores

Assemble(u) ==
    /\ multipart[u] = "open"
    /\ multipart' = [multipart EXCEPT ![u] = "completed"]
    /\ \E c \in Contents : object' = [object EXCEPT ![u] = c]

CompleteSend(r) ==
    /\ Assemble(on[r])
    /\ Continue(r, "complete.send", "idle")
    /\ UNCHANGED <<session, hold, rows>>

CompleteSendFails(r) ==
    /\ Assemble(on[r]) \/ UNCHANGED <<multipart, object>>
    /\ Continue(r, "complete.send", "complete.abort")
    /\ UNCHANGED <<session, hold, rows>>

AbortMultipart(u) ==
    multipart' = [multipart EXCEPT ![u] = IF @ = "open" THEN "aborted" ELSE @]

CompleteAbort(r) ==
    /\ AbortMultipart(on[r]) \/ UNCHANGED multipart
    /\ Continue(r, "complete.abort", "complete.cancel")
    /\ UNCHANGED <<session, hold, object, rows>>

\* updateMany ... where status = 'INITIATED': one statement, no rows otherwise.
CancelSession(u) ==
    session' = [session EXCEPT ![u] = IF @ = "INITIATED" THEN "CANCELLED" ELSE @]

CompleteCancel(r) ==
    /\ CancelSession(on[r])
    /\ Continue(r, "complete.cancel", "complete.release")
    /\ UNCHANGED <<hold, multipart, object, rows>>

CompleteRelease(r) ==
    /\ hold' = Released(on[r])
    /\ Continue(r, "complete.release", "idle")
    /\ UNCHANGED <<session, multipart, object, rows>>

(***************************************************************************)
(* DELETE r2-init.  Only the request whose update cancelled the session    *)
(* goes on to the bucket; the deletions there are best effort.             *)
(***************************************************************************)
CancelRead(r, u) ==
    /\ session[u] # "none"
    /\ Begin(r, u, IF session[u] = "INITIATED" /\ Unexpired(u)
                   THEN "cancel.update" ELSE "cancel.refused")
    /\ UNCHANGED stores

CancelUpdate(r) ==
    /\ Continue(r, "cancel.update",
                IF session[on[r]] = "INITIATED" THEN "cancel.delete" ELSE "cancel.refused")
    /\ CancelSession(on[r])
    /\ UNCHANGED <<hold, multipart, object, rows>>

DeleteObject(u) == object' = [object EXCEPT ![u] = "absent"]

CancelDelete(r) ==
    /\ AbortMultipart(on[r]) \/ UNCHANGED multipart
    /\ DeleteObject(on[r]) \/ UNCHANGED object
    /\ Continue(r, "cancel.delete", "cancel.release")
    /\ UNCHANGED <<session, hold, rows>>

CancelRelease(r) ==
    /\ hold' = Released(on[r])
    /\ Continue(r, "cancel.release", "idle")
    /\ UNCHANGED <<session, multipart, object, rows>>

(***************************************************************************)
(* POST videos, versions or assets with an R2 upload token.                *)
(* finalizeR2VideoUpload reads the session, heads the object and reads its *)
(* first bytes outside any transaction; cancelPendingUpload deletes the    *)
(* object whatever its update matched.  The transaction that follows       *)
(* checks the session's status again, but not its expiry.                  *)
(***************************************************************************)
AttachRead(r, u) ==
    /\ session[u] = "INITIATED" /\ Unexpired(u)
    /\ Begin(r, u, "attach.head")
    /\ UNCHANGED stores

AttachHead(r) ==
    /\ Continue(r, "attach.head",
                IF object[on[r]] \in {"absent", "oversize"}
                THEN "attach.cancel" ELSE "attach.magic")
    /\ UNCHANGED stores

AttachMagic(r) ==
    /\ Continue(r, "attach.magic",
                IF object[on[r]] \in {"absent", "notVideo"}
                THEN "attach.cancel" ELSE "attach.commit")
    /\ UNCHANGED stores

AttachCancel(r) ==
    /\ CancelSession(on[r])
    /\ Continue(r, "attach.cancel", "attach.delete")
    /\ UNCHANGED <<hold, multipart, object, rows>>

AttachDelete(r) ==
    /\ DeleteObject(on[r]) \/ UNCHANGED object
    /\ Continue(r, "attach.delete", "idle")
    /\ UNCHANGED <<session, hold, multipart, rows>>

\* Broken form of Finalize: the transaction trusts the status read before it.
FinalizeUnguarded(r, kind) ==
    /\ session' = [session EXCEPT ![on[r]] = "FINALIZED"]
    /\ rows' = rows \cup {[upload |-> on[r], kind |-> kind, by |-> r]}

Finalize(r, kind) ==
    /\ session[on[r]] = "INITIATED"
    /\ session' = [session EXCEPT ![on[r]] = "FINALIZED"]
    /\ rows' = rows \cup {[upload |-> on[r], kind |-> kind, by |-> r]}

\* Broken form of CommitVersion: the reservation is left to lapse.
CommitVersionKeepsHold(r) ==
    /\ ~ \E x \in rows : x.upload = on[r] /\ x.kind = "version"
    /\ Finalize(r, "version")
    /\ Continue(r, "attach.commit", "idle")
    /\ UNCHANGED <<hold, multipart, object>>

\* The unique index on an R2 version's video id refuses a second version row.
CommitVersion(r) ==
    /\ ~ \E x \in rows : x.upload = on[r] /\ x.kind = "version"
    /\ Finalize(r, "version")
    /\ hold' = Released(on[r])
    /\ Continue(r, "attach.commit", "idle")
    /\ UNCHANGED <<multipart, object>>

\* Only an unexpired reservation is consumed; without one the route runs its
\* own quota check, which passes here.
CommitAsset(r) ==
    /\ Finalize(r, "asset")
    /\ hold' = IF Live(on[r]) THEN Released(on[r]) ELSE hold
    /\ Continue(r, "attach.commit", "idle")
    /\ UNCHANGED <<multipart, object>>

\* Storage does not answer; access revoked; the session consumed by another
\* request; a conflict.
AttachFails(r) ==
    /\ \E here \in {"attach.head", "attach.magic", "attach.commit"} : Continue(r, here, "idle")
    /\ UNCHANGED stores

\* The assets route's catch block gives the reservation back as well.
AttachAssetFails(r) ==
    /\ hold' = Released(on[r])
    /\ Continue(r, "attach.commit", "idle")
    /\ UNCHANGED <<session, multipart, object, rows>>

(***************************************************************************)
(* Deletion.  Version, asset and video DELETE remove the row and then, best *)
(* effort, the object.  The bulk DELETE of whole videos removes its        *)
(* versions' objects first and keeps the rows when storage refuses.  Both  *)
(* ways of deleting a video leave R2 video assets' objects to the sweeper. *)
(***************************************************************************)
DropRows(u) == rows' = {x \in rows : x.upload # u}

DeleteRow(r, u) ==
    /\ HasRow(u)
    /\ DropRows(u)
    /\ Begin(r, u, "remove.object")
    /\ UNCHANGED <<session, hold, multipart, object>>

RemoveObject(r) ==
    /\ DeleteObject(on[r]) \/ UNCHANGED object
    /\ Continue(r, "remove.object", "idle")
    /\ UNCHANGED <<session, hold, multipart, rows>>

\* deleteProjectVideosWithCleanup
DeleteVideo(r, u) ==
    /\ HasRow(u)
    /\ IF \E x \in rows : x.upload = u /\ x.kind = "version"
       THEN DeleteObject(u) ELSE UNCHANGED object
    /\ Begin(r, u, "remove.rows")
    /\ UNCHANGED <<session, hold, multipart, rows>>

\* Storage refused the deletion of this object or of another one of the video.
DeleteVideoFails(r, u) ==
    /\ \E x \in rows : x.upload = u /\ x.kind = "version"
    /\ DeleteObject(u) \/ UNCHANGED object
    /\ Begin(r, u, "idle")
    /\ UNCHANGED <<session, hold, multipart, rows>>

RemoveRows(r) ==
    /\ DropRows(on[r])
    /\ Continue(r, "remove.rows", "idle")
    /\ UNCHANGED <<session, hold, multipart, object>>

(***************************************************************************)
(* r2-orphan-cleanup: list objects older than seven days, drop the ones a  *)
(* row refers to, delete the rest one by one.                              *)
(***************************************************************************)
\* Broken forms of SweepList: no look at the rows; whatever a session was ever
\* opened for is kept; whatever was ever finalized is kept.
SweepListAll ==
    /\ sweep = {}
    /\ sweep' = {u \in Uploads : age[u] = "old" /\ object[u] # "absent"}
    /\ UNCHANGED <<session, hold, age, multipart, object, rows, at, on>>
SweepListUnfinalized ==
    /\ sweep = {}
    /\ sweep' = {u \in Uploads : age[u] = "old" /\ object[u] # "absent" /\ session[u] # "FINALIZED"}
    /\ UNCHANGED <<session, hold, age, multipart, object, rows, at, on>>

SweepList ==
    /\ sweep = {}
    /\ sweep' = {u \in Uploads : age[u] = "old" /\ object[u] # "absent" /\ ~HasRow(u)}
    /\ UNCHANGED <<session, hold, age, multipart, object, rows, at, on>>

SweepDelete(u) ==
    /\ u \in sweep
    /\ DeleteObject(u)
    /\ sweep' = sweep \ {u}
    /\ UNCHANGED <<session, hold, age, multipart, rows, at, on>>

SweepFails(u) ==
    /\ u \in sweep
    /\ sweep' = sweep \ {u}
    /\ UNCHANGED <<session, hold, age, multipart, object, rows, at, on>>

(***************************************************************************)
(* Time, the answer to a refused DELETE, crashes.                          *)
(***************************************************************************)
Age(u) ==
    /\ hold[u] # "none"
    /\ \/ age[u] = "fresh" /\ age' = [age EXCEPT ![u] = "holdLapsed"]
       \/ /\ age[u] = "holdLapsed"
          /\ \A r \in InFlight(u) : at[r] \notin InitSteps
          /\ age' = [age EXCEPT ![u] = "sessionLapsed"]
       \/ /\ age[u] = "sessionLapsed" /\ InFlight(u) = {}
          /\ age' = [age EXCEPT ![u] = "old"]
    /\ UNCHANGED <<session, hold, multipart, object, rows, at, on, sweep>>

Answer(r) ==
    /\ at[r] = "cancel.refused"
    /\ Goto(r, "idle")
    /\ UNCHANGED <<session, hold, age, multipart, object, rows, on, sweep>>

Crash(r) ==
    /\ MayCrash
    /\ at[r] \in Running
    /\ Goto(r, "idle")
    /\ UNCHANGED <<session, hold, age, multipart, object, rows, on, sweep>>

ServerStep(r) ==
    \/ InitPresign(r) \/ InitPresignFails(r) \/ InitSession(r) \/ InitSessionFails(r)
    \/ CompleteSend(r) \/ CompleteSendFails(r) \/ CompleteAbort(r)
    \/ CompleteCancel(r) \/ CompleteRelease(r)
    \/ CancelUpdate(r) \/ CancelDelete(r) \/ CancelRelease(r)
    \/ AttachHead(r) \/ AttachMagic(r) \/ AttachCancel(r) \/ AttachDelete(r)
    \/ CommitVersion(r) \/ CommitAsset(r) \/ AttachFails(r) \/ AttachAssetFails(r)
    \/ RemoveObject(r) \/ RemoveRows(r)

Arrive(r, u) ==
    \/ InitReserve(r, u) \/ CompleteRead(r, u) \/ CancelRead(r, u) \/ AttachRead(r, u)
    \/ DeleteRow(r, u) \/ DeleteVideo(r, u) \/ DeleteVideoFails(r, u)

Next ==
    \/ \E r \in Requests : ServerStep(r) \/ Answer(r) \/ Crash(r)
    \/ \E r \in Requests, u \in Uploads : Arrive(r, u)
    \/ \E u \in Uploads : PutObject(u) \/ Age(u) \/ SweepDelete(u) \/ SweepFails(u)
    \/ SweepList

Spec == Init /\ [][Next]_vars

(***************************************************************************)
(* A request that was accepted runs on, time passes, the sweeper is run    *)
(* again and again, and storage does not refuse its deletions for ever.    *)
(* Nobody is obliged to send a request.                                    *)
(***************************************************************************)
Fairness ==
    /\ \A r \in Requests : WF_vars(ServerStep(r))
    /\ \A u \in Uploads : WF_vars(Age(u)) /\ SF_vars(SweepDelete(u))
    /\ WF_vars(SweepList)

FairSpec == Spec /\ Fairness

-----------------------------------------------------------------------------
(***************************************************************************)
(* Safety.                                                                 *)
(***************************************************************************)

\* Every version or asset row stands on a FINALIZED session whose hold has
\* stopped counting: the bytes are charged by the row alone, whichever of the
\* three routes committed it and whatever ran beside it.
RowsArePaidOnce ==
    \A x \in rows : session[x.upload] = "FINALIZED" /\ ~Live(x.upload)

\* Two requests that both passed the checks of finalizeR2VideoUpload never both
\* write a row for the object.
OneRowPerUpload ==
    \A x, y \in rows : x.upload = y.upload => x = y

\* A DELETE or r2-complete that is about to touch the bucket or the quota on
\* behalf of an abandoned upload does so for an upload nothing owns.
CleanupOnlyOfPending ==
    \A r \in Requests :
        /\ at[r] \in {"cancel.delete", "cancel.release"} =>
               session[on[r]] = "CANCELLED" /\ ~HasRow(on[r])
        /\ at[r] = "complete.release" => session[on[r]] # "INITIATED"

\* The sweeper never deletes an object that a row names, or that a request in
\* flight could still attach.
SweeperSparesUsedObjects ==
    \A u \in sweep :
        ~HasRow(u) /\ \A r \in InFlight(u) : at[r] \notin AttachSteps \cup CompleteSteps

\* A finalized upload stays finalized, a cancelled one cancelled, and once the
\* row is gone no late request brings it back.
SettledForGood ==
    [][\A u \in Uploads :
          /\ session[u] \in {"FINALIZED", "CANCELLED"} => session'[u] = session[u]
          /\ session[u] = "FINALIZED" /\ ~HasRow(u) => ~HasRow(u)']_vars

\* The object of an attached upload is removed only by a request to delete its
\* version, asset or video: no step of an upload request and not the sweeper.
AttachedObjectsStay ==
    [][\A u \in Uploads :
          HasRow(u) /\ object[u] # "absent" /\ object'[u] = "absent" =>
              /\ sweep' = sweep
              /\ \A r \in Requests :
                    at[r] \in AttachSteps \cup CancelSteps \cup CompleteSteps => at'[r] = at[r]]_vars

(***************************************************************************)
(* Liveness.                                                               *)
(***************************************************************************)

\* So does an upload whose request, session or version is gone once it is old.
UnownedObjectsGoAway ==
    \A u \in Uploads : age[u] = "old" /\ ~HasRow(u) ~> object[u] = "absent"
===============================================================================
