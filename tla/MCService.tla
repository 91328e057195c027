------------------------------ MODULE MCService ------------------------------
(***************************************************************************)
(* What surrounds the files of a project, side by side: the limiter of     *)
(* calls (RateLimit), how an address becomes an account (Signup), the      *)
(* player (BunnyPlayer), how far a viewer got (WatchProgress), and the     *)
(* markers of an editor's timeline with their labels (MarkerExport,        *)
(* Timecode).  "about" says which of them a behaviour is about; the others *)
(* never move.                                                             *)
(***************************************************************************)
EXTENDS RateLimit, Integers, TLC

CONSTANTS
    Calls, MaxTokens, MaxUsers, Smtp,          \* of Signup
    Renditions, Listed, MaxBuilds, MaxAsked,   \* of BunnyPlayer
    LastPosition, MinDelta, MaxSends,          \* of WatchProgress
    Comments, Parts, Latest, Ranges, Length,   \* of MarkerExport
    Rates, Blocks                              \* of Timecode

ASSUME ServiceAssumption ==
    /\ MaxTokens \in Nat /\ MaxUsers \in Nat /\ Smtp \in BOOLEAN
    /\ Renditions \subseteq Nat \ {0} /\ Listed \in [Renditions -> Renditions]
    /\ Rates \subseteq {r \in [nominal : Nat, drop : Nat] : r.drop < r.nominal}

VARIABLES
    about,
    account, tokens, expired, mailed, made, last, invited, calls, excused,
    version, build, built, p, q, asked, place, hlsJs, allowed,
    watched, at, reached, row, pending, busy, saved, debounce, sends, sent, crossed,
    comments, includeResolved, exported, markers,
    rate, frame, label

Joining == INSTANCE Signup
Player == INSTANCE BunnyPlayer
Progress == INSTANCE WatchProgress WITH version <- watched
Editor == INSTANCE MarkerExport WITH asked <- exported
Clock == INSTANCE Timecode

joining == <<account, tokens, expired, mailed, made, last, invited, calls, excused>>
player == <<version, build, built, p, q, asked, place, hlsJs, allowed>>
progress == <<watched, at, reached, row, pending, busy, saved, debounce, sends, sent, crossed>>
editor == <<comments, includeResolved, exported, markers>>
clock == <<rate, frame, label>>

\* The parts a behaviour is not about begin in one state each.
ServiceInit ==
    /\ about \in {"limit", "signup", "player", "progress", "editor", "clock"}
    /\ Init /\ (about # "limit" => from = 0)
    /\ Joining!Init /\ (about # "signup" => ~invited)
    /\ Player!Init
    /\ (about # "player" => q.pref = "auto" /\ q.height = 0 /\ hlsJs /\ allowed)
    /\ Progress!Init
    /\ Clock!Init /\ (about # "clock" => rate = CHOOSE r \in Rates : TRUE)
    /\ IF about = "editor" THEN Editor!Init
       ELSE comments = <<>> /\ includeResolved = TRUE /\ exported = FALSE /\ markers = <<>>

Limiting ==
    about = "limit" /\ Next /\ UNCHANGED <<about, joining, player, progress, editor, clock>>
SigningUp ==
    about = "signup" /\ Joining!Next /\ UNCHANGED <<about, vars, player, progress, editor, clock>>
Playing ==
    about = "player" /\ Player!Next /\ UNCHANGED <<about, vars, joining, progress, editor, clock>>
Saving ==
    about = "progress" /\ Progress!Next /\ UNCHANGED <<about, vars, joining, player, editor, clock>>
Exporting ==
    about = "editor" /\ Editor!Export /\ UNCHANGED <<about, vars, joining, player, progress, clock>>
Counting ==
    about = "clock" /\ Clock!Next /\ UNCHANGED <<about, vars, joining, player, progress, editor>>

everything == <<about, vars, joining, player, progress, editor, clock>>

ServiceNext == Limiting \/ SigningUp \/ Playing \/ Saving \/ Exporting \/ Counting

ServiceSpec == ServiceInit /\ [][ServiceNext]_everything

\* The playlist lists the highest rendition first.
ListedBackwards == <<2, 1>>

\* Both drop-frame rates and one without, with the first ten minutes of the day, the
\* last of its middle and the very last counted through.
R30 == [nominal |-> 30, drop |-> 2]
R60 == [nominal |-> 60, drop |-> 4]
R25 == [nominal |-> 25, drop |-> 0]
SomeRates == {R25, R30, R60}
SomeBlocks == R30 :> {0, 71, 143} @@ R60 :> {143} @@ R25 :> {6}

-----------------------------------------------------------------------------
\* Whoever waits to be verified has a link that works, the last one made
\* (createVerificationToken, the registration and the resend route).
LastLinkWorks == Joining!LastLinkWorks

\* The quality menu shows what plays, whatever failed, was picked or was built again on
\* the way (use-video-player).  One case is excepted: in the browser's own player an
\* Original that was chosen stays marked after it has failed.
MenuTellsWhatPlays == Player!MenuTellsWhatPlays

\* One save of the viewer's position is under way at a time, and what is stored for a
\* version is a place the viewer was at in it (use-watch-progress).
SavesInTurn == Progress!SavesInTurn

\* Every comment of a thread that is asked for is on one marker, replies under what
\* they answer, and a marker is done when its threads are (groupMarkers, threadOrder).
MarkersTell == Editor!MarkersTell

\* The formulas for labels agree with counting (nleTimecode, parseNleOptions).
EveryFrameHasItsLabel == Clock!EveryFrameHasItsLabel
===============================================================================
