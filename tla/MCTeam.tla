-------------------------------- MODULE MCTeam --------------------------------
(***************************************************************************)
(* Four sets of rows a team shares, side by side: what its account is      *)
(* entitled to and until when (Retention), who is a member (Invitations),  *)
(* what the account stores (StorageLedger), and what the members say about *)
(* a version (CommentThread).  "about" says which of them a behaviour is   *)
(* about; the others never move.                                           *)
(***************************************************************************)
EXTENDS Retention

CONSTANTS
    Invites, Requests, None,                                    \* of Invitations
    Uploads, Kinds, Sizes, Limit,                               \* of StorageLedger
    Comments, MaxClicks, Fetches, PageSize, MaxClock, MaxGone   \* of CommentThread

ASSUME SharedAssumption ==
    /\ None \notin {"COMMENTATOR", "ADMIN"}
    /\ Comments \subseteq Nat \ {0} /\ IsFiniteSet(Comments) /\ PageSize \in Nat \ {0}
    /\ MaxClock \in Nat /\ MaxClicks \in Nat

VARIABLES
    about, up,
    scope, invite, account, member, solo, at, on, seen,
    comment, spent, clock, view, etag, mutating, fetch, op, overtaken, rewound, twice,
    short

Seats == INSTANCE Invitations WITH row <- invite
Ledger == INSTANCE StorageLedger
Thread == INSTANCE CommentThread WITH row <- comment

\* An upload has a size, the account has finitely many slots for uploads.
ASSUME LedgerAssumption ==
    /\ Sizes \subseteq Nat \ {0} /\ Limit \in Nat
    /\ IsFiniteSet(Uploads) /\ Kinds \subseteq Ledger!AllKinds

\* No invitation is the missing one.
ASSUME NoneIsNoInvitation == None \notin Seats!Row

seats == <<scope, invite, account, member, solo, at, on, seen>>
thread == <<comment, spent, clock, view, etag, mutating, fetch, op, overtaken, rewound, twice,
            short>>

TeamInit ==
    /\ about \in {"dates", "seats", "storage", "comments"}
    /\ Init /\ Seats!Init /\ Ledger!Init /\ Thread!Init
    /\ about # "dates" => user = Row0
    /\ about # "comments" => spent = {}
    /\ about # "seats" => scope = "WIDE" /\ ~account /\ ~solo

Dated == about = "dates" /\ Next /\ UNCHANGED <<about, seats, up, thread>>
Seated == about = "seats" /\ Seats!Next /\ UNCHANGED <<about, vars, up, thread>>
Stored == about = "storage" /\ Ledger!Next /\ UNCHANGED <<about, vars, seats, thread>>
Talk == about = "comments" /\ Thread!Next /\ UNCHANGED <<about, vars, seats, up>>

everything == <<about, vars, seats, up, thread>>

TeamNext == Dated \/ Seated \/ Stored \/ Talk

TeamSpec == TeamInit /\ [][TeamNext]_everything

-----------------------------------------------------------------------------
\* A cancelled invitation is not accepted afterwards (the two routes that
\* cancel one and the one that accepts it).
CancelledStaysOut == Seats!CancelledStaysOut

\* Concurrent uploads never book the same headroom of the account twice
\* (reserveStorageQuota), the two named slips excepted.
NoDoubleBooking == Ledger!NoDoubleBooking

\* A comment is shown once, whatever a poll or a notice brought while it was
\* being sent (use-comment-actions).
ShownOnce == Thread!ShownOnce

\* A poll that the entity tag spares leaves nothing missing, out of date or
\* undone on the screen (the GET route's tag and the list it stands for), three
\* named cases excepted.
TagVouches == Thread!TagVouches
===============================================================================
