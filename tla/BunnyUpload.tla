----------------------------- MODULE BunnyUpload -----------------------------
(***************************************************************************)
(* Videos uploaded from the browser straight to Bunny Stream.              *)
(*                                                                         *)
(* The page runs one loop per drop of files: ask for a grant (which holds  *)
(* quota and creates an empty Bunny video), send the bytes, save the row.  *)
(* All loops of a page share four refs, so a second drop and the cancel    *)
(* button act on whatever the refs name at that moment.  The server takes  *)
(* the project lock for saving and for the cancel that deletes the video.  *)
(* A script deletes Bunny videos that nothing names after a week.          *)
(***************************************************************************)
EXTENDS Naturals, FiniteSets

CONSTANTS
    Files,  \* the files a user drops; each has a Bunny video of its own
    None

VARIABLES
    at,          \* [Files -> where the page's loop is with the file]
    of,          \* [Files -> the drop the file came with]
    status,      \* [Files -> what the dialog shows of it]
    cancelRef,   \* cancelRequestedRef
    tusRef,      \* activeTusUploadRef, None for an upload that has ended
    pendingRef,  \* pendingUploadRef
    uploading,   \* isUploading
    cancelling,  \* the file whose clean-up cancelPendingUpload awaits
    post,        \* [Files -> the request that saves the row]
    wipe,        \* [Files \X Askers -> the request that cancels the upload]
    lock,        \* the clean-up that has the project lock
    media,       \* [Files -> the Bunny video]
    hold,        \* [Files -> the storage reservation]
    rows,        \* [Files -> rows that name the video]
    age,         \* [Files -> 0, then 1: grant over, 2: hold over, 3: a week]
    sweep        \* the orphan script: its step and the videos it works on

page == <<at, of, status, cancelRef, tusRef, pendingRef, uploading, cancelling>>
server == <<post, wipe, lock, media, hold, rows, age, sweep>>
vars == <<page, server>>

Askers == {"loop", "button"}  \* the loop's own clean-up, and the cancel button's
InHand == {"init", "loading", "sending", "hung", "saving", "cleaning"}
Present == {"empty", "full"}
Expired == 1
Lapsed == 2
Week == 3

TypeOK ==
    /\ at \in [Files -> InHand \cup {"new", "queued", "over"}]
    /\ of \in [Files -> 0 .. Cardinality(Files)]
    /\ status \in [Files -> {"hidden", "pending", "uploading", "done", "error", "cancelled"}]
    /\ cancelRef \in BOOLEAN
    /\ uploading \in BOOLEAN
    /\ {tusRef, pendingRef, cancelling} \subseteq Files \cup {None}
    /\ post \in [Files -> {"none", "sent", "ok", "bad"}]
    /\ wipe \in [Files \X Askers -> {"none", "sent", "working", "answered"}]
    /\ lock \in (Files \X Askers) \cup {None}
    /\ lock # None => wipe[lock] = "working"
    /\ media \in [Files -> Present \cup {"none", "gone"}]
    /\ hold \in [Files -> {"none", "held", "released", "lapsed"}]
    /\ rows \in [Files -> 0 .. 1]
    /\ \A f \in Files : rows[f] = 1 => hold[f] # "held"
    /\ age \in [Files -> 0 .. Week]
    /\ sweep.step \in {"idle", "listed", "deleting"}
    /\ sweep.of \subseteq Files

Init ==
    /\ at = [f \in Files |-> "new"]
    /\ of = [f \in Files |-> 0]
    /\ status = [f \in Files |-> "hidden"]
    /\ cancelRef = FALSE
    /\ uploading = FALSE
    /\ tusRef = None
    /\ pendingRef = None
    /\ cancelling = None
    /\ post = [f \in Files |-> "none"]
    /\ wipe = [w \in Files \X Askers |-> "none"]
    /\ lock = None
    /\ media = [f \in Files |-> "none"]
    /\ hold = [f \in Files |-> "none"]
    /\ rows = [f \in Files |-> 0]
    /\ age = [f \in Files |-> 0]
    /\ sweep = [step |-> "idle", of |-> {}]

-----------------------------------------------------------------------------
(* The page. *)

\* Files land on the window; nothing asks whether an upload is running.  The
\* new queue replaces the list that is shown, and its loop starts at once.
Drop(S) ==
    /\ S # {} /\ \A f \in S : at[f] = "new"
    /\ \E first \in S :
        /\ at' = [f \in Files |->
                    IF f = first THEN "init" ELSE IF f \in S THEN "queued" ELSE at[f]]
        /\ status' = [f \in Files |->
                        IF f = first THEN "uploading"
                        ELSE IF f \in S THEN "pending" ELSE "hidden"]
    /\ LET drop == Cardinality({of[f] : f \in Files} \ {0}) + 1
       IN  of' = [f \in Files |-> IF f \in S THEN drop ELSE of[f]]
    /\ cancelRef' = FALSE
    /\ uploading' = TRUE
    /\ UNCHANGED <<tusRef, pendingRef, cancelling, server>>

Waiting(f) == {g \in Files : of[g] = of[f] /\ at[g] = "queued"}

\* What the dialog shows of f and g when the loop goes on from f.
Told(f, end, g) ==
    [h \in Files |->
        IF status[h] \notin {"pending", "uploading"} THEN status[h]
        ELSE IF h = f THEN end
        ELSE IF h = g THEN "uploading" ELSE status[h]]

\* The loop is through with f: the next file, or the end of the loop, which
\* clears the refs whoever set them.  After a cancel it breaks off unsaid.
Proceed(f, end) ==
    /\ tusRef' = None
    /\ pendingRef' = None
    /\ IF cancelRef \/ Waiting(f) = {}
         THEN /\ at' = [g \in Files |-> IF g \in Waiting(f) \cup {f} THEN "over" ELSE at[g]]
              /\ status' = IF cancelRef THEN status ELSE Told(f, end, f)
              /\ uploading' = FALSE
         ELSE \E g \in Waiting(f) :
                /\ at' = [at EXCEPT ![f] = "over", ![g] = "init"]
                /\ status' = Told(f, end, g)
                /\ UNCHANGED uploading
    /\ UNCHANGED <<of, cancelRef, cancelling>>

\* The upload failed or was cancelled once it had a grant: clean up after it.
GiveUp(f) ==
    /\ at' = [at EXCEPT ![f] = "cleaning"]
    /\ wipe' = [wipe EXCEPT ![<<f, "loop">>] = "sent"]
    /\ UNCHANGED <<of, status, cancelRef, uploading, cancelling>>

\* bunny-init granted: quota is held and an empty video exists.
Granted(f) ==
    /\ at[f] = "init"
    /\ hold' = [hold EXCEPT ![f] = "held"]
    /\ media' = [media EXCEPT ![f] = "empty"]
    /\ pendingRef' = f
    /\ IF cancelRef
         THEN GiveUp(f)
         ELSE /\ at' = [at EXCEPT ![f] = "loading"]
              /\ UNCHANGED <<of, status, cancelRef, uploading, cancelling, wipe>>
    /\ UNCHANGED <<tusRef, post, lock, rows, age, sweep>>

\* Over quota, refused by Bunny with the hold given back, or the request to
\* Bunny or the answer lost, which leaves the hold and perhaps the video.
InitFails(f) ==
    /\ at[f] = "init"
    /\ \E left \in {<<"none", "none">>, <<"held", "none">>, <<"held", "empty">>} :
        /\ hold' = [hold EXCEPT ![f] = left[1]]
        /\ media' = [media EXCEPT ![f] = left[2]]
    /\ Proceed(f, "error")
    /\ UNCHANGED <<post, wipe, lock, rows, age, sweep>>

\* The tus client has been loaded: the transfer starts.
StartTus(f) ==
    /\ at[f] = "loading"
    /\ at' = [at EXCEPT ![f] = "sending"]
    /\ tusRef' = f
    /\ UNCHANGED <<of, status, cancelRef, pendingRef, uploading, cancelling, server>>

\* (Variant) Nothing asks about a cancel once the bytes are there.
TusDoneHeedless(f) ==
    /\ at[f] = "sending" /\ media[f] = "empty" /\ age[f] <= Expired
    /\ media' = [media EXCEPT ![f] = "full"]
    /\ tusRef' = None
    /\ at' = [at EXCEPT ![f] = "saving"]
    /\ post' = [post EXCEPT ![f] = "sent"]
    /\ UNCHANGED <<of, status, cancelRef, uploading, cancelling, wipe>>
    /\ UNCHANGED <<pendingRef, lock, hold, rows, age, sweep>>

\* All bytes are there: save the row, unless the user has cancelled meanwhile.
TusDone(f) ==
    /\ at[f] = "sending" /\ media[f] = "empty" /\ age[f] <= Expired
    /\ media' = [media EXCEPT ![f] = "full"]
    /\ tusRef' = None
    /\ IF cancelRef
         THEN GiveUp(f) /\ UNCHANGED post
         ELSE /\ at' = [at EXCEPT ![f] = "saving"]
              /\ post' = [post EXCEPT ![f] = "sent"]
              /\ UNCHANGED <<of, status, cancelRef, uploading, cancelling, wipe>>
    /\ UNCHANGED <<pendingRef, lock, hold, rows, age, sweep>>

TusFails(f) ==
    /\ at[f] = "sending"
    /\ tusRef' = None
    /\ GiveUp(f)
    /\ UNCHANGED <<pendingRef, post, lock, media, hold, rows, age, sweep>>

\* The save was answered: the file is done, or it is cleaned up.
Saved(f) ==
    /\ at[f] = "saving" /\ post[f] = "ok"
    /\ post' = [post EXCEPT ![f] = "none"]
    /\ Proceed(f, "done")
    /\ UNCHANGED <<wipe, lock, media, hold, rows, age, sweep>>

SaveFails(f) ==
    /\ at[f] = "saving" /\ post[f] = "bad"
    /\ post' = [post EXCEPT ![f] = "none"]
    /\ GiveUp(f)
    /\ UNCHANGED <<tusRef, pendingRef, lock, media, hold, rows, age, sweep>>

\* The clean-up was answered, whatever it answered: the file failed.
CleanedUp(f) ==
    /\ at[f] = "cleaning" /\ wipe[<<f, "loop">>] = "answered"
    /\ wipe' = [wipe EXCEPT ![<<f, "loop">>] = "none"]
    /\ Proceed(f, "error")
    /\ UNCHANGED <<post, lock, media, hold, rows, age, sweep>>

\* The end of a cancel: what is not finished is called cancelled.
Discarded ==
    /\ status' = [f \in Files |->
                    IF status[f] \in {"uploading", "pending"} THEN "cancelled" ELSE status[f]]
    /\ tusRef' = None
    /\ pendingRef' = None
    /\ uploading' = FALSE
    /\ cancelling' = None

\* The cancel button.  Aborting a tus upload never settles its promise, so its
\* loop stays where it is; a pending upload is cleaned up before the dialog says so.
CancelUpload ==
    /\ uploading /\ cancelling = None
    /\ cancelRef' = TRUE
    /\ at' = [f \in Files |-> IF f = tusRef THEN "hung" ELSE at[f]]
    /\ IF pendingRef = None
         THEN Discarded /\ UNCHANGED wipe
         ELSE /\ wipe' = [wipe EXCEPT ![<<pendingRef, "button">>] = "sent"]
              /\ cancelling' = pendingRef
              /\ tusRef' = None
              /\ UNCHANGED <<status, pendingRef, uploading>>
    /\ UNCHANGED <<of, post, lock, media, hold, rows, age, sweep>>

\* (Variant) The dialog is left busy.
CancelAnsweredUnreset ==
    /\ cancelling # None /\ wipe[<<cancelling, "button">>] = "answered"
    /\ cancelling' = None
    /\ status' = [f \in Files |->
                    IF status[f] \in {"uploading", "pending"} THEN "cancelled" ELSE status[f]]
    /\ tusRef' = None
    /\ pendingRef' = None
    /\ wipe' = [wipe EXCEPT ![<<cancelling, "button">>] = "none"]
    /\ UNCHANGED <<uploading, at, of, cancelRef, post, lock, media, hold, rows, age, sweep>>

CancelAnswered ==
    /\ cancelling # None /\ wipe[<<cancelling, "button">>] = "answered"
    /\ wipe' = [wipe EXCEPT ![<<cancelling, "button">>] = "none"]
    /\ Discarded
    /\ UNCHANGED <<at, of, cancelRef, post, lock, media, hold, rows, age, sweep>>

\* The page goes away.  The upload form sends the clean-up of what is pending
\* on its way out; the drop area of a project does not.  An init that was sent may
\* still be served, to nobody.
Leave(tidy) ==
    /\ \E f \in Files : at[f] \in InHand \cup {"queued"}
    /\ at' = [f \in Files |-> IF at[f] \in InHand \cup {"queued"} THEN "over" ELSE at[f]]
    /\ status' = [f \in Files |-> "hidden"]
    /\ cancelRef' = FALSE
    /\ uploading' = FALSE
    /\ tusRef' = None
    /\ pendingRef' = None
    /\ cancelling' = None
    /\ post' = [f \in Files |-> IF post[f] = "sent" THEN "sent" ELSE "none"]
    /\ wipe' = [w \in Files \X Askers |->
                    IF tidy /\ w = <<pendingRef, "button">> /\ wipe[w] # "working" THEN "sent"
                    ELSE IF wipe[w] = "answered" THEN "none" ELSE wipe[w]]
    /\ \E S \in SUBSET {f \in Files : at[f] = "init"} :
        /\ media' = [f \in Files |-> IF f \in S THEN "empty" ELSE media[f]]
        /\ hold' = [f \in Files |-> IF f \in S THEN "held" ELSE hold[f]]
    /\ UNCHANGED <<of, lock, rows, age, sweep>>

-----------------------------------------------------------------------------
(* The server. *)

\* An answer that nobody waits for any more leaves no trace.
SaveAnswer(f, answer) == IF at[f] = "saving" THEN answer ELSE "none"

CleanupAnswer(w) ==
    IF (w[2] = "loop" /\ at[w[1]] = "cleaning") \/ (w[2] = "button" /\ cancelling = w[1])
      THEN "answered" ELSE "none"

\* The row and the end of the hold, in one transaction under the lock.  The
\* answer may be lost on the way.  Nothing asks Bunny whether the video is there.
Attach(f) ==
    /\ post[f] = "sent" /\ age[f] < Expired /\ lock = None
    /\ rows' = [rows EXCEPT ![f] = 1]
    /\ hold' = [hold EXCEPT ![f] = IF @ = "held" THEN "released" ELSE @]
    /\ \E answer \in {"ok", "bad"} : post' = [post EXCEPT ![f] = SaveAnswer(f, answer)]
    /\ UNCHANGED <<page, wipe, lock, media, age, sweep>>

\* The grant is over, access was revoked, or the server failed.
RefuseSave(f) ==
    /\ post[f] = "sent"
    /\ post' = [post EXCEPT ![f] = SaveAnswer(f, "bad")]
    /\ UNCHANGED <<page, wipe, lock, media, hold, rows, age, sweep>>

\* (Variant) The rows are counted without the lock.
StartCleanupUnlocked(w) ==
    /\ wipe[w] = "sent"
    /\ IF rows[w[1]] > 0 \/ age[w[1]] >= Expired
         THEN /\ wipe' = [wipe EXCEPT ![w] = CleanupAnswer(w)]
              /\ UNCHANGED <<lock, hold>>
         ELSE /\ wipe' = [wipe EXCEPT ![w] = "working"]
              /\ lock' = lock
              /\ hold' = [hold EXCEPT ![w[1]] = IF @ = "held" THEN "released" ELSE @]
    /\ UNCHANGED <<page, post, media, rows, age, sweep>>

\* Cancelling an upload under the lock: refused once a row names the video or
\* the grant is over, otherwise the hold ends before the video does.
StartCleanup(w) ==
    /\ wipe[w] = "sent" /\ lock = None
    /\ IF rows[w[1]] > 0 \/ age[w[1]] >= Expired
         THEN /\ wipe' = [wipe EXCEPT ![w] = CleanupAnswer(w)]
              /\ UNCHANGED <<lock, hold>>
         ELSE /\ wipe' = [wipe EXCEPT ![w] = "working"]
              /\ lock' = w
              /\ hold' = [hold EXCEPT ![w[1]] = IF @ = "held" THEN "released" ELSE @]
    /\ UNCHANGED <<page, post, media, rows, age, sweep>>

\* Bunny deletes the video, or does not answer: the hold stays released.
FinishCleanup(w) ==
    /\ wipe[w] = "working"
    /\ \E left \in {media[w[1]], "gone"} : media' = [media EXCEPT ![w[1]] = left]
    /\ wipe' = [wipe EXCEPT ![w] = CleanupAnswer(w)]
    /\ lock' = None
    /\ UNCHANGED <<page, post, hold, rows, age, sweep>>

\* The row is deleted first and the video after it, as far as Bunny lets us.
DeleteRow(f) ==
    /\ rows[f] > 0
    /\ rows' = [rows EXCEPT ![f] = 0]
    /\ \E left \in {media[f], "gone"} : media' = [media EXCEPT ![f] = left]
    /\ UNCHANGED <<page, post, wipe, lock, hold, age, sweep>>

-----------------------------------------------------------------------------
(* Time and the orphan script. *)

\* Something that takes seconds is going on.
Busy ==
    \/ cancelling # None
    \/ \E f \in Files : post[f] = "sent" \/ at[f] \in {"init", "loading", "saving", "cleaning"}
    \/ \E w \in Files \X Askers : wipe[w] \in {"sent", "working"}

Started(f) == media[f] # "none" \/ hold[f] = "held"

\* Hours pass, for all uploads at once, while no request is under way.
TimePasses ==
    /\ ~Busy
    /\ \E f \in Files : Started(f) /\ age[f] < Week
    /\ age' = [f \in Files |-> IF Started(f) /\ age[f] < Week THEN age[f] + 1 ELSE age[f]]
    /\ hold' = [f \in Files |->
                    IF hold[f] = "held" /\ age'[f] >= Lapsed THEN "lapsed" ELSE hold[f]]
    /\ UNCHANGED <<page, post, wipe, lock, media, rows, sweep>>

\* Broken form of Eligible: a grace that is never over.
EligibleLater(f) == media[f] \in Present /\ age[f] > Week

Eligible(f) == media[f] \in Present /\ age[f] >= Week

SweepList ==
    /\ sweep.step = "idle"
    /\ \E f \in Files : Eligible(f)
    /\ sweep' = [step |-> "listed", of |-> {f \in Files : Eligible(f)}]
    /\ UNCHANGED <<page, post, wipe, lock, media, hold, rows, age>>

SweepRead ==
    /\ sweep.step = "listed"
    /\ sweep' = [step |-> "deleting", of |-> {f \in sweep.of : rows[f] = 0}]
    /\ UNCHANGED <<page, post, wipe, lock, media, hold, rows, age>>

SweepDelete(f) ==
    /\ sweep.step = "deleting" /\ f \in sweep.of
    /\ media' = [media EXCEPT ![f] = "gone"]
    /\ sweep' = [sweep EXCEPT !.of = @ \ {f}]
    /\ UNCHANGED <<page, post, wipe, lock, hold, rows, age>>

SweepSkip(f) ==
    /\ sweep.step = "deleting" /\ f \in sweep.of
    /\ sweep' = [sweep EXCEPT !.of = @ \ {f}]
    /\ UNCHANGED <<page, post, wipe, lock, media, hold, rows, age>>

SweepEnd ==
    /\ sweep.step = "deleting" /\ sweep.of = {}
    /\ sweep' = [step |-> "idle", of |-> {}]
    /\ UNCHANGED <<page, post, wipe, lock, media, hold, rows, age>>

-----------------------------------------------------------------------------
LoopStep(f) ==
    \/ Granted(f) \/ InitFails(f) \/ StartTus(f) \/ TusDone(f) \/ TusFails(f)
    \/ Saved(f) \/ SaveFails(f) \/ CleanedUp(f)

Next ==
    \/ \E S \in SUBSET Files : Drop(S)
    \/ \E f \in Files :
        \/ LoopStep(f)
        \/ Attach(f) \/ RefuseSave(f) \/ DeleteRow(f)
        \/ SweepDelete(f) \/ SweepSkip(f)
    \/ \E w \in Files \X Askers : StartCleanup(w) \/ FinishCleanup(w)
    \/ CancelUpload \/ CancelAnswered
    \/ \E tidy \in BOOLEAN : Leave(tidy)
    \/ TimePasses \/ SweepList \/ SweepRead \/ SweepEnd

\* Requests are answered, transfers end, time passes and the script is run by
\* cron; Bunny does not fail every deletion of a video for ever.
Fairness ==
    /\ \A f \in Files :
        /\ WF_vars(LoopStep(f))
        /\ WF_vars(Attach(f) \/ RefuseSave(f))
        /\ SF_vars(SweepDelete(f))
    /\ \A w \in Files \X Askers :
        WF_vars(StartCleanup(w)) /\ WF_vars(FinishCleanup(w))
    /\ WF_vars(CancelAnswered) /\ WF_vars(TimePasses)
    /\ WF_vars(SweepList) /\ WF_vars(SweepRead) /\ WF_vars(SweepEnd)

Spec == Init /\ [][Next]_vars
FairSpec == Spec /\ Fairness

-----------------------------------------------------------------------------
\* A video that a row names is deleted with the row and in no other way: not by
\* a cancel that raced the save, nor by the script (bunny-init DELETE counts the
\* rows under the lock; the script waits for longer than a grant lives).
AttachedVideosStay ==
    [][\A f \in Files :
        rows[f] > 0 /\ rows'[f] > 0 /\ media[f] \in Present => media'[f] \in Present]_vars

\* While a cancel stands, no file is taken up and no row is asked for, however
\* many awaits the loops were in when it was clicked (isCancelled after each).
CancelStands ==
    [][\A f \in Files :
        cancelRef /\ cancelRef' /\ at'[f] \in {"init", "saving"} => at[f] = at'[f]]_vars

\* A Bunny video gets a row or goes away, whatever was lost: the cancel, its
\* answer, the page or the deletion with the row (scripts/bunny-orphan-cleanup).
StrayVideosGo ==
    \A f \in Files : media[f] \in Present ~> (rows[f] > 0 \/ media[f] = "gone")

\* The dialog does not stay busy: a loop ends, fails or is cancelled, and a
\* cancel ends although the aborted loop never does.
UploaderSettles == uploading ~> ~uploading

\* The cancel dialog: "the current upload and any remaining queued files will
\* be discarded" (components/video-drag-drop-uploader.tsx).
CancelDiscards == \A f \in Files : status[f] = "cancelled" => rows[f] = 0

\* The comment on the grant's reservation id: releasing it "means presenting the
\* token for that video, which also deletes that video" (lib/bunny-upload-token.ts).
ReleaseCostsTheVideo ==
    [][\A w \in Files \X Askers :
        wipe[w] = "working" /\ wipe'[w] # "working" => media'[w[1]] = "gone"]_vars
=============================================================================
