# OpenFrame: a TLA+ verification project

OpenFrame is a self-hosted review platform for video: people upload files,
stack new cuts on old ones, comment, approve, and watch together. The program
is a Next.js server over PostgreSQL (Prisma), object storage (S3/R2), Bunny
Stream and Stripe, plus two small processes of its own: the live review socket
server and the clean-up scripts.

There is no job queue and no long-lived coordinator. Nearly all of the
difficulty sits in HTTP handlers that touch several stores, one awaited call
after another, while other handlers do the same: two tabs, a retry after a lost
answer, a keepalive request from a tab that closes, a poll, a webhook, a cron
job. A process may die between any two awaits. In the browser the same happens
in small: a click changes a list before the server answers, while polls, notices
and late answers change it too. That is what these modules model.

Contents: 1 inventory, 2 the modules, 3 what each run checks, 4 what is proved,
5 assumptions and fairness, 6 where code and documentation disagree, 7 known
limits, 8 not modelled, 9 plan.

## 1. Inventory

Paths are relative to `src/`. Each part is listed with its state, its operations,
what makes it hard and when it is correct.

### Files and their storage
- **R2 uploads** (`R2Upload`). `VideoUploadSession`, the `UploadReservation` that
  holds quota, the S3 multipart upload, the object, the row that owns it. POST and
  DELETE `r2-init`, POST `r2-complete`, POST of a video, version or asset (through
  `lib/r2-video-finalize.ts`), deletions, `scripts/r2-orphan-cleanup.ts`. No
  transaction spans database and bucket; requests meet only in guarded updates
  (`updateMany ... where status = 'INITIATED'`). Correct when an upload gets one
  row, its bytes are paid for once, clean-up never touches what is attached, and
  what nobody owns goes away.
- **Storage quota** (`StorageLedger`). Sums over version, asset and subtitle rows,
  Bunny's figures, reservations with a deadline; admission with and without the
  advisory lock. Figures are read before the lock and rows are written by
  transactions that do not take it. Correct when concurrent uploads never book the
  same headroom.
- **Bunny uploads** (`BunnyUpload`). The grant, the video at Bunny, the reservation,
  the row; in the page one loop per drop of files, all loops sharing four refs
  (`components/video-drag-drop-uploader.tsx`, `lib/bunny-upload*.ts`), the DELETE of
  a grant, `scripts/bunny-orphan-cleanup.ts`. A cancel races the save; an aborted
  transfer's promise never settles. Correct when a video that a row names stays,
  what is cancelled is not taken up again, stray videos go and the dialog settles.
- **Drive imports of videos** (`DriveImport`, abstract: `ImportPromise`).
  `DriveImport.status` is the only lock between polls, copies and starts; copy slots
  are in memory; processes die; commits lose their answers. Correct when an import
  becomes one video, for good, holds quota exactly as long as it may become one, its
  media is not deleted by a late process, and a polled import ends.

### A project
- **Versions of a file** (`VersionStack`, abstract: `VersionShelf`). Numbers and the
  active flag; uploads, imports, activation in two statements, deletion after a
  count, stacking confirmed by a digest. Correct when numbers are unique and keep
  the order of the cuts, one version is shown and the last one stays.
- **Approvals** (`Approvals`). `ApprovalRequest.status` and one decision per
  approver; several last answers at once, a cancellation racing them, under
  PostgreSQL's serializable isolation; an announcement after the commit.
- **Folders, moves and access** (`ContentTree`). Tree, modes, members, share links,
  visibility, billing. Access is decided by a walk for one file and by nested
  queries for lists; every operation is one content transaction. Correct when both
  decisions agree after any sequence of operations, public is public throughout,
  links die with the access they were made under, and only who manages a thing
  opens it to more people.
- **Comments** (`CommentThread`). The rows of a version, the pages and the entity
  tag of the GET, and the list of one tab with its optimistic changes
  (`use-comment-actions.ts`, `use-video-page-data.ts`). A GET asks for the tag and for
  the total that ends the pages by two queries at once, and for the rows after them; a
  page with its replies is one step. Correct when a comment is shown once and a poll
  that the tag spares has missed nothing.
- **Live review** (`LiveReview`). The session's row, the room in the gateway's memory
  (snapshot, seats, task queue, empty-room timer), sockets, browsers
  (`scripts/live-review-server.ts`, `use-live-review.ts`). Authentication joins a
  room outside its queue; a task that writes computes the next revision before the
  write. Correct when memory and row agree on control, no connection loses its seat
  unnoticed, every screen catches up, and a room that everyone left ends.

### A team and its account
- **Billing** (`Billing`). Stripe's subscriptions with items, schedule and pending
  update; the mirror in `users`; webhooks in any order; the ten-minute lease for
  changes. Correct when the mirror is what Stripe said last, catches up after any
  failure, and a change never takes items that were paid for.
- **Access, trials and retention** (`Retention`). Trial, period, cutoff and notice
  dates; every decision written twice, on a row and as a query; a mirror write that
  carries dates it read before; `scripts/expired-billing-cleanup.ts`. Correct when
  both forms agree and nobody's content goes before its retention is over or before
  the day a notice gave.
- **Invitations and seats** (`Invitations`). Wide and narrow invitations accepted by
  the same code in different ways, registration with an invitation, cancellation,
  roles, the editor limit.
- **Email verification and signup** (`Signup`). Links made and mailed statement by
  statement, registration taken back, social sign-in, three ways to a trial.

### Around them
- **Rate limits** (`RateLimit`): one row of an unlogged table, an upsert and a cleanup.
- **Player** (`BunnyPlayer`): the source a Bunny version plays from, with fallbacks,
  late answers and rebuilt players around one element.
- **Watch progress** (`WatchProgress`): one save under way, one payload waiting.
- **Marker export** (`MarkerExport`, `Timecode`): threads, markers and drop-frame labels.

The parts meet in rows and calls: an upload reserves quota (`StorageLedger`), becomes a
version (`VersionStack`), is commented, approved and watched live; who may do so is
decided by `ContentTree` from roles that `Invitations` grants and from the access that
`Retention` reads off the mirror that `Billing` keeps.

## 2. The modules

| Module | What it is |
| --- | --- |
| `R2Upload` | upload lifecycle; `at`/`on` are a request's program counter and its upload, one action per awaited call |
| `StorageLedger` | sums and admission of one account; `up[i]` is an upload with what its request read |
| `BunnyUpload` | the page's loops and refs, the server's cancel and save, the sweep |
| `DriveImport`, `ImportPromise`, `DriveImportRefinement` | imports; abstract: one outcome and one charge per import; the mapping |
| `VersionStack`, `VersionShelf`, `VersionStackRefinement` | version rows and the requests over them; abstract: an ordered shelf per file and the version shown; `overlap` says of a behaviour whether requests overlap, and the mapping is of those where they do not |
| `Approvals` | requests, decisions, calls that take a snapshot and commit later |
| `ContentTree` | the tree and both access decisions; a loop or a nesting of the code is a set of folders of the way up, which is proved to be what the code's recursion finds |
| `CommentThread` | server rows, one tab's list, fetches and clicks |
| `LiveReview` | one live room; the task that runs is the head of `queue`, the update it awaits is `write` |
| `Billing` | one customer; `calls[c]` is a request or a webhook delivery with what it read |
| `Retention` | one account's row, Stripe's dates, the mirror's write, the cleanup, days passing |
| `Invitations` | invitations of one address to one place |
| `Signup` | one address: registration, links, trials, statement by statement |
| `RateLimit`, `BunnyPlayer`, `WatchProgress`, `MarkerExport`, `Timecode` | the parts around them |
| `MCUploads` | `R2Upload` beside `DriveImport` with lost answers (`UploadsSpec`), and `BunnyUpload` (`BunnySpec`) |
| `MCTeam` | `Retention`, `Invitations`, `StorageLedger`, `CommentThread` side by side |
| `MCProject` | `Approvals` and `ContentTree` side by side |
| `MCService` | `RateLimit`, `Signup`, `BunnyPlayer`, `WatchProgress`, `MarkerExport`, `Timecode` side by side |
| `MCVersionStack`, `MCDriveImport`, `MCLiveReview` | symmetry and bounds of their runs |
| `UploadProofs`, `VersionStackProofs`, `ProjectProofs`, `DriveImportProofs`, `LiveReviewProofs`, `TeamProofs`, `ServiceProofs`, `BillingProofs` | the theorems |

Side by side. The modules that put parts beside each other have a variable (`part`
or `about`) that is chosen in the initial state and says which part the
behaviour is about; the others never move. `overlap` (VersionStackRefinement) is chosen
likewise and says whether requests overlap. Such a run is the union of the runs of its
parts, not their interleavings: the parts share no state that their properties
speak of, so interleaving them would only multiply states.

Conventions. A request is a process with a program counter; what it read earlier
is kept in its own record and may be stale. A database transaction is one step
when PostgreSQL makes it one (Serializable with a retry, or a single guarded
statement) and several when it does not. `contentTransaction` (Serializable under
the project's advisory lock) is one step; its refusal after three conflicts is
`Refuse`. A call to storage is a step of its own that may succeed, fail, or
succeed and look failed. Operators marked "Mutation", or called a "broken form" of an
action, are that action with a plausible mistake; no specification uses them, they
document which mistake each property would catch.

History variables. A few variables only look on, for the properties: `entitled`,
`promised` and `erased` (Retention), `from`, `passed` and `forgot` (RateLimit), `excused`
(Signup), `reached` and `crossed` (WatchProgress), `overtaken`, `rewound`, `twice` and
`short` (CommentThread), `admitted` and `slipped` (StorageLedger), `rewound` and `visited`
(LiveReview), the counting `label` (Timecode).

## 3. What the runs check

| Run | Bounds | Shows |
| --- | --- | --- |
| `uploads` | 1 upload, 2 requests at once, crashes; beside it 1 import, 3 processes, 2 crashes, lost answers | attached once, charged once, unowned objects go away; every polled import settles |
| `bunny_upload` | 2 files, 2 askers of a clean-up | attached videos stay, a cancel stands, stray videos go, the dialog settles |
| `version_stack` | 2 files, 3 versions, 2 overlapping requests, numbers to 4, crashes; or one request after another | cuts keep their order; the rows implement `VersionShelf` |
| `team` | trial, grace and retention of 1 day, periods of 2, 2 subscriptions, 4 days; 2 invitations, 2 requests; 3 uploads of size 1 and a limit of 3; 2 comments of which 1 may be deleted, 1 fetch, 2 clicks, pages of 1 | dates, seats, headroom and the comment list |
| `project` | 2 requests on one version, 2 approvers, 3 calls, crashes; trees of 3 folders and a file, one other person, a guest, one granted role | approvals and access |
| `drive_import` | 2 imports, 3 processes, 1 copy slot, 1 crash, both storages | one video per import, quota and media of late losers, implements `ImportPromise` |
| `live_review` | 2 participants, 2 connections, 2 events (commands, failed writes, sweeps or crashes) | control, playback without its presenter, screens catch up, rooms end |
| `billing` | 1 other person, 2 subscriptions, 1 storage block, 2 calls, 2 events | mirror, paid items, the editors of Solo |
| `service` | a window of 4 with 2 calls in it, waits of 1, 9 instants; 2 requests, 3 links, 2 accounts; 2 renditions listed backwards, 2 players, 2 answers under way; 3 positions, 3 saves; 4 comments in every thread; five ten-minute blocks at 25, 29.97 and 59.94 | the parts around |
| `r2_attached_object`, `version_last`, `retention` | as small as the case needs | one counterexample each, section 6 |

Why the bounds are enough. Uploads share nothing but the bucket and the quota,
so one upload with two concurrent requests shows every pairwise race; the
theorems remove the bound for the safety properties. The ledger needs three uploads:
one committing, one between its reads and its lock, one holding; with a limit of 3 and
the code's strict comparison two of the three fit and the third must be refused. A
version race needs two requests and a third version to be stacked or left over.
Approvals need two approvers who both answer last and a third call that cancels or
creates. A tree of three folders has a folder above, between and below the one that is
moved, restricted or deleted. An import race needs the copy, a poll and another poll;
two imports share one copy slot so that one of them waits. In a live room the second
connection is the other participant's or the same one's reconnect, the two ways to
meet a running task; the two events are what participants and environment do about it.
Billing races need two calls (webhook deliveries are calls); a second subscription is
what makes another one authoritative. Retention needs a second subscription for one that
outranks the first, and four days for a trial, an access of two days and a retention to
begin and end. A comment list needs pages of one and a second comment, for a list that
ends at a full page and a comment that moves between pages; two clicks for two changes
in flight; and one comment that is deleted. What takes more than one deletion was
explored with `MaxGone` at 2 and fewer clicks. The rate limit's stretch of a window may begin at every instant and span
two windows. `Timecode` counts through whole ten-minute blocks (the pattern of dropped
numbers repeats after one) at the beginning, the middle and the very end of the day.
Every constant commented as a bound in its module bounds a counter; there are no
others, but for the count of `RateLimit`'s row, which stops one above the limit.

Properties that are stated but that no run lists were explored with a configuration of
their own: `NumbersAreUnique` (proved), `OnePending`, `SettledForGood` and the other
theorems of section 4, `NeverLowered` (Invitations, proved), `TrialOnceProven`
(Signup, proved), `SomethingUnderWay` (BunnyPlayer) and `ListingStaysInside` (ContentTree, proved) hold;
`OneActiveVersion` holds only while requests do not overlap; section 6 lists the ones
that fail. `LedgerFallback.cfg` (StorageLedger), `LiveLostDeparture.cfg` (MCLiveReview),
`CommentsMissed.cfg`, `CommentsPages.cfg` and `CommentsTag.cfg` (CommentThread) are kept
beside the runs; each ends with the counterexample of section 6: `tlc -config LedgerFallback.cfg StorageLedger`.


## 4. What is proved

All proofs are for arbitrary constants: any number of uploads, requests, files,
versions, approvers, calls, imports, processes, slots, participants, connections,
crashes, subscriptions, storage blocks, days, renditions, frame rates, invitations,
comments, pages, drops and sizes of files, within the named assumptions on the constants
of each module.

- `UploadProofs`, bucket. The safety invariants say nothing of requests in the middle
  of their work, so `IInv` adds three facts that do. The r2-init POST about to
  write a session holds the reservation, found no session and is the only one
  for its upload (`InitAlone`); every other request works on a session that
  exists (`SessionExists`); and the sweep lists only uploads that grew old, on
  which no attaching or completing request runs (`OldAreQuiet`, from the
  assumption on request durations of section 5). From them follow one row per
  upload, payment once, safe clean-up and a safe sweep; finality follows from
  the guards of the steps and `InitAlone`.
- `UploadProofs`, Bunny. Two things delete a video that a row might name: a clean-up and
  the orphan script. `BunnyInv` says why neither does. The clean-up that works is the one
  that holds the project lock and its file has no row (`CleaningAlone`), so no row is
  written behind its count and no second clean-up frees its lock. That needs every
  clean-up to be asked for once, though all loops of the page share their refs: a loop
  asks once and then awaits the answer (`LoopAwaits`), and the button clears the ref
  before it asks, which no later grant of the same file sets again (`ButtonAsksOnce`,
  `UnsentIsUnsaved`). What the script has listed is so old that its grant is over
  (`ListedIsOld`), so what it has found without a row stays without one. `CancelStands`
  follows from the guards: each step that takes a file up reads the ref after its await.
- `VersionStackProofs`. `NumbersAreUnique` is inductive over the type invariant
  once the arithmetic of stacking is known: `MergeNumbers` shows that the base
  plus a version's rank among the stacked versions is above every number of the
  target and keeps the order of the source. It rests on the library's facts on
  cardinalities of finite sets. `CutsKeepTheirOrder` needs no invariant but the
  types.
  `ImplementsShelf` is proved of requests that do not overlap, step by step. Its mapping
  chooses the list of a file's versions by number, so the lemmas on lists come first:
  a member's rank is its index (`ListRank`), hence there is only one list (`ListUnique`),
  and appending a highest member, removing one and putting a list behind another give
  lists (`ListAppend`, `ListRemove`, `ListConcat`). No induction is needed: every step
  builds the next list from the one before. The invariant `InTurn` says that every shelf
  is a list, that every file shows exactly one version (counting the one an activation
  has announced), and that what a request has read is still so. Then one lemma per
  operation (`Arrives`, `Activates`, `Drops`, `Discards`, `Stacks`) maps it to its step;
  all other steps map to a stutter. `StackIsSpec` says that this specification has only
  behaviours of `VersionStack`, so the other theorems hold of it too.
- `ProjectProofs`, the folders. `TreeInv` has six parts. `TypeOK`: values, and rows that
  refer to rows. `NoLoop`: of any set of folders one has its parent outside it; this form
  gives induction along the way up, by the least counterexample, without an induction
  theorem. `Shallow`: no folder deeper than the limit. `Blank`: a folder that does not exist
  has no mode left over. `Linked`: only files that exist have links. And `PublicIsOpen`,
  which is inductive only with the others, because what restricting or moving closes is
  found by walking the tree. The argument has four layers:
  - `Above` is the only recursive function; that its recursion has a solution, and what
    that solution is like (`WayFacts`: a way is inside the tree, a line, ends at the top,
    has a nearest folder of any kind), is proved for any parents (`WayExists`, ...).
  - A decision is a question about a way. `Admits` is the query without its level count,
    which a shallow tree never uses up (`AudienceIs`); the walk comes to every folder that
    no restriction hides, or to an admin's folder before it (`Comes`), so both decide alike
    (`Twins`). `QueryAsNested` and `WalkAsLooped` show that the operators of `ContentTree`,
    which speak of whole ways, satisfy the code's own recursion level by level.
  - A step changes ways in one of three manners (`CreateWays`, `DeleteWays`, `MovedWays`),
    which settles the invariant and the links (`SameEdge`: a boundary stays when its way and
    its restrictions do).
  - `OnlyManagersWiden`: a way is *owed* to an actor when the step narrows it or the actor
    could edit it before. Every way is owed in every operation (`Owed...`); the hard case is
    a move, where a restricted folder between the moved one and a file keeps out who edits
    the moved one (`Blocked`), and still does afterwards (`MoveBehind`).
  `PartsApart` carries all of it to the specification of the run `project`.
- `ProjectProofs`, the approvals. A call decides on a snapshot and commits later.
  `ReviewInv` says of each snapshot what the serialization check makes of it: the requests a
  creating transaction saw stay settled (`SeenSettled`), a deciding transaction
  saw its approver's answer pending (`SeenUnanswered`), at most one call is
  about to announce a request's outcome (`OneAnnouncer`), and a request and its
  decisions appear together (`RowsTogether`).
- `DriveImportProofs`. `IInv` says who has an import to itself: one worker
  between the reservation and the mark (`WorkersHold`, `OneWorker`,
  `RowBegins`), one finalizer between the claim and its last word
  (`OneFinalizer`, `FinalizersClaimed`). It gives one row per import and
  finality, also when answers are lost. That the hold follows the status, that
  late processes leave the media of a finished import alone (with `MediaInv`:
  who is past the claim finds the media in storage), and that `DriveImport`
  implements `ImportPromise` are proved under `~LostAnswers`: with lost answers
  the code does not guarantee them (section 7). For the refinement each step is
  first shown to move at most one import in the promise's eyes (`OneMoves`).
- `LiveReviewProofs`. A task that awaits a write is the head of the queue (`Busy`),
  so the queue is what orders the writes. `CInv` is what control rests on: without a
  room nothing is queued and the row of an active session does not play
  (`Unloaded`), the sweep drops only rooms of sessions it has ended (`Swept`), and a
  room agrees with its row even while a write is under way (`Agrees`), because only
  a write's answer changes either. Each step then sends nothing but snapshots that
  name the row's presenter and epoch (`SendsOnly`), which gives `EpochNamesPresenter`
  for browsers of any age. Seats follow because the connection that loses one is
  closed in the same step. That rooms end only when they may needs the sender of the
  running task to stay who it was (`Senders`) and that a room which is ending lets
  nobody in (`Ending`). `PresenterLossPauses` rests on `Listed`: seats and the
  sender of a playback are on the list of participants, and a presenter leaves it
  only when the room does not play.
- `TeamProofs`, retention. That the row and the queries agree is a lemma about any typed
  row (`Agrees`). The two properties of the cleanup are not inductive: `entitled` and
  `promised` remember days that neither the row nor Stripe may show any more.
  `RetentionInv` says what they are held by. Subscriptions are opened one after
  another, each after the earlier one ended (`SubsInTurn`), so the last one made is
  what the mirror shows unless an attempt outranks it. The last entitled day is not
  after the end of the trial, or not after the day the last subscription's access
  ends (`Held`); a mirror that is not behind carries that end (`MirrorDates`,
  `Mirrors`); and the promised day is borne by the row as it is *and* by every mirror
  write that is under way or may still come (`PromiseOK`, `Bears`). That a mirror write
  puts back dates it read before is kept apart by `SyncOK`: the write carries the
  trial's columns of the row, or the trial was begun since, which is `erased`.
- `TeamProofs`, seats. `SeatInv` says what a request in each step knows of an invitation:
  the row it works on exists, and what it read was a row (`Knows`). Each step then does
  one of two things to the place (`Moves`): it accepts an open invitation and raises the
  role or keeps it (`Admits`), or it accepts none and raises nobody in a folder or file.
  Both properties follow from that alone.
- `TeamProofs`, comments. `ShownOnce` is inductive once it is said what entries know of
  their rows (`Known`), that an unsaved entry belongs to a click still in flight and never
  stands beside its own row (`Unsaved`, `Sent`), also in the list a refused deletion would
  put back (`OrderOK`). For `TagVouches` (`TagInv`) a tag is *old* once the server would give
  another one (`Old`); old tags stay old. A tag that is not old vouches because the list
  follows the rows: without a click in flight it is the server's list, with one it is that
  list once the click's handler is through (`ViewFollows`), and two clicks that nothing else
  rewrote cannot both be in flight over one tag (`OneAlone`). What a fetch has gathered
  page by page under a tag that is not old is exactly the rows read so far (`PagesSoFar`).
  The total that ends the pages is counted by another query than the tag is read by:
  counted after the tag it is no less than what the tag knows, and counted before it, it
  may be less, which is `short`, the third of the three cases the property names.
- `TeamProofs`, ledger. The ledger adds up sizes with the community modules' fold over a
  set. No induction theorem with a predicate parameter can be used, so the sums are shown
  to exist, to be the only ones and to add up by a least counterexample under the strict
  subset order (`Total`, `SumAdds`, `TotalGrows`, `TotalUnion`). `LedgerInv` then says that
  what counts (`Booked`) is below the limit from the first reservation on, and that whoever
  has read the bytes at Bunny has seen at least the Bunny rows that count
  (`BookedBunny`): a row committed behind his back is one of the slips the property names.
- `BillingProofs`. A subscription is in order by itself (`InOrder`): a schedule waits for
  less than what is paid, one that waits for nothing stores today's items, and an update
  that waits for its invoice is more and stands beside no schedule. `BillingInv` adds what
  a change may go by while it holds the lease (`CallOK`, `Stands`): an upgrade finds the
  items it read and nothing scheduled that it did not see, a downgrade finds at most the
  items it read. Stripe and the customer do not ask for the lease, so what they do in
  between is shown to leave every reading standing (`Lives`, `CallLives`). `RouteFacts`
  says where a change goes: only what is more is charged at once. `PaidItemsStay` then
  needs two facts about what is written: an upgrade sends its target, though it is put
  together from two readings (`UpdatedIsTarget`), and the first phase of a schedule is
  what the subscription has (`PhasesWritten`). A lease that ran out under a live change
  would break `CallOK`; section 5 says why it does not.
- `BillingProofs`, mirror. `MirrorInv`: the mirror agrees with Stripe, or news is owed, or a
  delivery waits for the lock, or one has listed what is still so. Every write to Stripe
  makes it owe news; a write of the mirror is right because one call copies at a time and
  whatever it copied is either still so or owed. That the copy stays true under
  Checkout pages that open meanwhile needs that the subscription that counts is the only
  one that outranks the others (`NewestIsOne`, `ProviderStays`), which is shown by a
  greatest element since no induction with a predicate parameter can be used.
- `ServiceProofs`. Every part has an inductive invariant of its own variables; the
  steps of the others leave it alone.
  - *Limiter* (`LimitInv`). What passed in the stretch is bounded in one of three ways:
    by the row's count (`OneCount`); by a full count and the row's, once the row was
    begun anew and no earlier than the stretch began, less a wait (`TwoCounts`); or by
    two full counts when the stretch is over for whatever still waits (`StretchOver`).
    A statement that begins the row anew moves the first to the second and the second
    to the third. It needs what the code's tables give: a window no longer than the
    cleanup's age, and a wait of at most half of it.
  - *Signup* (`SignupInv`). Whoever waits to be verified has the last link, or some
    request has promised to insert one (`Promises`, `LinkComes`): the request that
    wipes links always inserts one, and a registration accepts only for its own account.
    The trial (`TrialInv`, theorem `TrialOnce`) is about ids: a request that will grant
    may outlive its account, and the address may have another one by then, which has
    proven nothing; but ids only grow (`IdsGiven`), so it is not the one that is granted.
  - *Progress* (`ProgressInv`). Unless crossed, at most one save is waited for and every
    position that waits, is under way or is stored was reached in its version.
  - *Player* (`PlayerInv`). `Fits` ties the source that is loaded, the element, hls.js
    and the menu together; nothing that is asked for is of a player not yet built, and
    a player whose element is empty has asked for no grant. What the browser's own player
    shows follows from a second invariant of builds without hls.js (`NativeInv`): no list
    of renditions is asked for, so nothing but the size of the original may still be
    answered, once (`Sized`), and while the renditions play the menu stays at what was
    chosen when the player was built (`Native`). So the menu is right there but for one case, which `MenuTellsWhatPlays` names:
    an Original that was chosen and failed stays marked (section 7).
  - *Clock* (`ClockInv`). The label is a valid origin and `parseNleOptions`' sum leads
    from it to the frame; `LabelOfFrames` shows by division with remainder (block of ten
    minutes, minute, frame) that `nleTimecode` undoes the sum. This holds for *every*
    rate with fewer dropped than nominal numbers, so also for counting through days of
    any length, where the run counts five blocks.

Only model-checked, and why:
- every liveness property (`UnownedObjectsGoAway`, `ImportsSettle`, `StrayVideosGo`,
  `UploaderSettles`, `ViewsCatchUp`, `EmptyRoomsEnd`, `MirrorCatchesUp`, `SoloSettles`):
  fairness and ENABLED are out of the prover's reach;
- `MarkersTell` (`MarkerExport`): its sequences are defined by induction over data.

## 5. Assumptions and fairness

- A single SQL statement is atomic; a unique index refuses duplicates;
  Serializable refuses what is not serializable. `Approvals` models the refusal
  (snapshot and commit) because there the outcome depends on it.
- An upload is "old" (seven days) only when no request for it still runs and no
  presigned URL works: TTLs are two hours, requests last minutes. A grant for Bunny
  is over after hours and the sweep waits for a week. Likewise a Drive import's
  five-minute deadlines are longer than the steps they guard, and the ten-minute lease
  of a billing change is longer than a change that is alive. The three-minute heartbeat
  of a Drive copy is not assumed to be: a copy that lives may look dead.
- Stripe delivers a notification until it is answered 200; it changes a subscription in
  one step; a period that ends is renewed, paid or not, before the day is over. A mirror
  write takes thirty seconds at most, so no day passes over it (`Retention`).
- A write of `LiveReview` that is reported failed did not happen; one under way at a
  crash may have.
- `MCUploads`: the files that are dropped are finitely many, and the constant for "no
  file" is neither one of them nor a clean-up.
- `ContentTree`: the limit of depth is at least one, and the names of the places, of
  nothing, of folders and files, of the owner and the guest are different ones.
- `MCTeam`: an account has finitely many uploads and a version finitely many comments, a
  file that is charged has a size, and the constant for "no row" is neither an invitation
  nor a role.
- External: Bunny's transcoding (`BunnyWorks`), fresh row ids, crashes, lost answers.
- Fairness of `R2Upload` (`uploads`): an accepted request runs on (weak), time passes
  (weak), the sweep runs again and again (weak) and a deletion that is tried again and
  again succeeds at last (strong). Nobody has to send a request.
- Fairness of `DriveImport` (`uploads`): a process runs on (weak), an import that is open
  is polled (strong, since polls need a free process), time passes, and the database does
  not refuse for ever to fail the same row (strong). The polling is what the project page
  does while imports are open; without a poll the code promises nothing.
- Fairness of `BunnyUpload`: a loop, an accepted request and a clean-up go on, a cancel's
  answer arrives, time passes and the script is run by cron (all weak); Bunny does not
  fail every deletion of one video for ever (strong).
- Fairness of `LiveReview`: the gateway works off its queue and its writes are
  answered (weak, one condition for the loop), a timer that is set fires (weak), a
  socket's authentication goes on or is cut off by its five-second timer (weak, per
  socket) and an open socket delivers (weak, per socket). Nobody has to send, stay
  or come back, writes may fail, and the sweep need not run.
- Fairness of `Billing`: requests that were accepted run on (weak), the advisory lock is
  given to who asks for it (strong: others may have it in between), a notification that is
  owed is delivered (weak), Stripe bills every period and stops dunning (weak), a lease
  that a crash left lapses (weak). Nobody has to pay, buy or cancel.
- `CommentsMissed.cfg` uses `CommentThread`'s `FairSpec`: the interval polls, requests are
  answered or time out, and not every fetch fails for ever.

## 6. Where the code and its comments disagree

With a run:
- `r2_attached_object`: `cancelPendingUpload` (`lib/r2-video-finalize.ts:145`) deletes
  the object although its update matched no row; a second request with the same
  token can have attached it.
- `version_last`: two deletions of the last two versions both pass "can't delete the
  last one" (`versions/[versionId]/route.ts:119`).
- `retention`: `incomplete_expired` outranks `canceled` (`lib/billing.ts:1156`), so an
  attempt that was never paid for hides the subscription that was, and the cleanup
  begins before the "last legitimate entitlement" of line 211 has had its retention.

With a configuration kept beside the runs:
- `LedgerFallback.cfg`: the quota check for an asset without a reservation leaves out
  version and subtitle bytes (`assets/route.ts:654`).
- `LiveLostDeparture.cfg`: `docs/live-review.md:15` says that an empty room ends after a
  grace period; when the last participant leaves a playing room and the write that
  pauses it fails, nothing is scheduled and the room waits for the sweep.
- `CommentsPages.cfg`: the pages of the list are separate requests joined by their offset
  (`use-video-page-data.ts:44`, "Fetch pages until we have all comments"); a comment that
  is written or deleted between two of them shows another one twice or hides it, even if
  the total they end by is no older than the tag.
- `CommentsTag.cfg`: the tag and the total of a GET come from two queries without a
  transaction (`comments/route.ts:94`). A comment written between them may be in the tag
  and not in the total; where the older total falls on the end of a page, `hasMore`
  (`:172`) ends the list there and every poll is answered 304 beside a list that lacks
  the comment, although `docs/live-review.md:17` says that polling recovers.
- `CommentsMissed.cfg`: the entity tag counts comments and takes the newest time
  (`comments/route.ts:103`); a comment that is added and deleted again around a GET
  stays on the screen, although `docs/live-review.md:17` says that polling recovers.

Stated in a module, and false there under the constants of its run:
- `AtMostOneLink` (Signup): `createVerificationToken` deletes and inserts in two statements,
  its comment says "at most one live token" (`lib/email-verification.ts:58`).
- `RowsAreOwn` (WatchProgress): the answer of the old version's save sends what waits for
  the new one under the old version's id (`use-watch-progress.ts:74`).
- `PickedRenditionPlays` (BunnyPlayer): a rendition picked from the playlist while Auto
  asks for a size becomes an index into the levels of hls.js (`use-video-player.ts:1754`,
  against its comment at 1691). `PositionSurvives` and `ResumesItsOwn`: a second pick
  before the first has loaded, or a version switch, loses or misplaces the position
  (comment at 589).
- `CancelDiscards`, `ReleaseCostsTheVideo` (BunnyUpload): see section 7.

## 7. Known limits of the code that the models show

Uploads and imports
- An upload cancelled by a failed finalize keeps its quota hold until it lapses.
- When the answer of the statement that hands a finished S3 copy over is lost, the
  copy's catch block deletes media that a poll may turn into a video
  (`AttachedMediaStays` is stated without lost answers).
- A reservation lapses slightly before its session: a version may be attached
  without any quota check. `StorageLedger` counts it as not admitted.
- DELETE `r2-init` refuses an upload that has expired (`r2-init/route.ts:317`), although
  the comment on `cancelR2UploadSession` (`lib/r2-upload-session.ts:46`) names it as
  the one that needs cancelling; the sweep collects it later.
- A Bunny upload that commits between another upload's read of Bunny's figures and
  its lock is in neither sum (`lib/storage-quota.ts:372`, "never counted zero times");
  `NoDoubleBooking` names this window as one of its two exceptions.
- A cancel during "Saving" may leave the saved row behind a file that is shown as
  cancelled (`video-drag-drop-uploader.tsx:828`, `CancelDiscards` fails); the hold of a
  Bunny grant is released before its video is deleted (`ReleaseCostsTheVideo` fails);
  the asset route's DELETE of a grant does not look for an attached row
  (`assets/bunny-init/route.ts:267`); one grant posted twice makes two rows, and so does
  the retry of a save whose answer was lost.

Versions
- Overlapping activations, or an activation that crashes between its two
  statements, leave a file with no shown version or with two: `ImplementsShelf` is
  about requests one after another.

Live review
- A participant who joins a live room twice during one write raises the revision above
  the one the write then assigns. The other browsers drop what the room publishes until
  its revision has passed theirs: `ViewsCatchUp` excepts rooms that were `rewound`.
- A departure whose pause fails is forgotten: the participant stays on the list and an
  empty room is not scheduled to end (`Forgotten`, and section 6).
- If the update behind a transfer were committed and reported failed, the room would
  keep the old epoch until it is loaded again; the model assumes it is not.
- A join that is abandoned after it has loaded a room leaves a room without a timer to
  the sweep: `EmptyRoomsEnd` speaks of rooms that somebody has entered (`visited`).

Billing and retention
- A sync reads `trialEndsAt` and `billingTrialConsumedAt` and writes them back: a trial that
  begins in between is erased, against "never cleared" (`lib/billing.ts:460`). `Retention`
  marks it (`erased`) and its properties except it.
- A webhook's sync between the pending mark and the writing of a schedule clears
  `pendingBillingPlan`; a crash after the claim of a cancellation leaves the mirror saying
  "cancels" until Stripe's next event; `MirrorCatchesUp` is about what comes after that.
- A subscription that was read as unpaid and is paid meanwhile is cancelled at once. Two
  open checkout sessions can both be paid. Two first requests of one account can make two
  Stripe customers (`getOrCreateStripeCustomerId`).
- `expired-billing-cleanup.ts` lists the owners once and deletes later without looking
  again: who subscribes in between loses the workspaces. `RetentionRuns` and
  `KeptAsPromised` speak of the listing.
- The workspaces of an account are counted and then created without a lock.

People
- The folders route's `revokeInvitation` cancels whatever the status; an acceptance of a
  wide invitation updates it by id; a registration that is taken back deletes an account
  another tab's acceptance may have used. Removing a workspace member leaves memberships
  in folders and files. `CancelledStaysOut` is therefore about narrow invitations.
- A new link is made by two statements (section 6), and the trial begins after the commit
  that verified the address: a crash in between leaves a verified account without it.

Comments and player
- A failed delete puts back the whole list as it was, under a newer tag
  (`use-comment-actions.ts:1249`); overlapping failed toggles undo each other (657);
  `cancelRecording` stages the cancelled blob (555); `submitCommentWithMedia` wipes what
  was staged next (625); edits within a millisecond share a tag (`comments/route.ts:103`).
  `ShownOnce` and `TagVouches` except lists that a late answer rewrote (`overtaken`),
  comments that came and went (`rewound`), pages that overlapped (`twice`) and lists that
  ended by a total older than their tag (`short`). DELETE of a comment removes R2 files
  although their `VideoAsset` row stays.
- In the browser's own player an Original that was chosen stays marked when it has failed
  and the renditions play instead: `leaveOriginalForHls` (`use-video-player.ts:958`) leaves
  the mark alone, which hls.js would set anew. `MenuTellsWhatPlays` excepts the case by
  name, `OriginalMeansOriginal` (BunnyPlayer) states the contrary and fails.
- The original that stands in for a cut being encoded never returns to renditions
  (`use-video-player.ts:526`). `LastLinkWorks` and `TwiceTheLimit` except what a process
  that died, a link that grew old, or a table that did not answer brings about.

## 8. Not modelled

- User interface: React components and pages render, and hold forms. The client modules
  that take part in a protocol are modelled with it: the upload clients, the comment list,
  the live review hook, the player and the watch progress. Rendering is the larger part
  of the repository, and the modelled lines are a small part of the whole for that reason.
- Drive imports of assets and images: synchronous within one request.
- API tokens and API v1, share links' passwords and limits, notifications, tags,
  analytics, editor panels: one row, one check or best effort after a commit.
- Of the modelled parts: thumbnails, labels and titles; the OAuth exchange and file names
  of Drive; positions, rates and the position checkpoint of live rooms, their rate and
  size limits and single rights; prices, intervals and invoices; mail, redirects and
  texts; YouTube, direct and image players; colours, texts and file formats of exports, and
  the range check of an export's timecodes.
- In `LiveReview` also: the duplicate check on repeated commands, sockets that come with a
  ticket of another session, and changes of a participant's rights while connected (one
  who loses access altogether is a `Disconnect`; the target of a transfer may have lost
  the right to present). Whether a participant left or lost the connection is chosen when
  the departure has its turn.
- In `Invitations`: `acceptPendingInvitationsForUser`, which only tests call; a role
  change is one step. In `WatchProgress`: the prompt to resume is of the version the
  server has as active. `Billing` and `Retention` split one row between them: one follows
  plans and races, the other dates.

## 9. Plan

Every safety and action property that a run checks is a theorem, but for those that
section 4 lists as only model-checked. What is left is a property that is stated and was
checked with a configuration of its own, `SomethingUnderWay` (BunnyPlayer).
