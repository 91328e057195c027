------------------------------ MODULE BunnyPlayer ------------------------------
(***************************************************************************)
(* Which source a Bunny version plays from: the renditions through hls.js  *)
(* or the browser's own player, or the uploaded original, chosen by the    *)
(* viewer, by Auto for a short cut, or standing in for a cut that is still *)
(* encoded.                                                                *)
(*                                                                         *)
(* One <video> element outlives the players that are built around it, one  *)
(* after another: for every version, and again when the viewer picks       *)
(* another kind of source.  The size of the original, its reachability, a  *)
(* fresh grant and the list of renditions are asked for and answered       *)
(* later, when the player that asked may be gone and the viewer may have   *)
(* picked something else.                                                  *)
(***************************************************************************)
EXTENDS Integers, FiniteSets

CONSTANTS
    Renditions,  \* heights, 1 .. n; hls.js numbers its levels in that order
    Listed,      \* Listed[i]: the height at position i of the master playlist
    MaxBuilds,   \* bound: players built
    MaxAsked     \* bound: answers under way

VARIABLES
    version,  \* the version on screen
    build,    \* the player, by number; an answer to an earlier one is for nobody
    built,    \* initPlayer has run
    p,        \* the player and the element
    q,        \* what the viewer picked
    asked,    \* answers under way
    place,    \* has the viewer got into the version
    hlsJs,    \* shouldUseHlsJs
    allowed   \* autoOriginalAllowed

vars == <<version, build, built, p, q, asked, place, hlsJs, allowed>>

Original == -2
Auto == -1
Nowhere == [time |-> 0, of |-> 0]

Torn == [
    mode |-> "hls", chosen |-> FALSE, auto |-> FALSE, hls |-> "none", level |-> Auto,
    el |-> "empty", meta |-> FALSE, position |-> 0, timer |-> FALSE,
    ready |-> FALSE, shown |-> "hls", status |-> "none", selected |-> Auto,
    options |-> "none", resume |-> Nowhere]

effective(picked) ==
    IF picked.pref = "original" /\ ~allowed /\ ~picked.here THEN "auto" ELSE picked.pref

HeightAt(options, l) == IF options = "playlist" THEN Listed[l] ELSE l

TypeOK ==
    /\ version \in {1, 2} /\ build \in 0 .. MaxBuilds
    /\ p.mode \in {"hls", "original"} /\ p.hls \in {"none", "loading", "parsed"}
    /\ p.el \in {"empty", "loading", "playing", "failed"}
    /\ p.options \in {"none", "playlist", "hls"} /\ p.shown \in {"hls", "original"}
    /\ p.selected \in {Original, Auto} \cup Renditions
    /\ q.pending \in {0, Auto} \cup Renditions /\ q.height \in Renditions \cup {0}
    /\ {built, p.ready, p.meta, hlsJs, allowed} \subseteq BOOLEAN

\* What the menu shows when a player is set up: what is to play.
Chosen(picked) == IF effective(picked) = "original" THEN Original ELSE Auto

\* What is remembered of an earlier visit: Auto, Original, or a height.
Init ==
    /\ version = 1 /\ build = 0 /\ built = FALSE /\ asked = {} /\ place = 0
    /\ hlsJs \in BOOLEAN /\ allowed \in BOOLEAN
    /\ \E pref \in {"auto", "original"}, h \in Renditions \cup {0} :
         /\ pref = "original" => h = 0
         /\ q = [pref |-> pref, here |-> FALSE, height |-> h, pending |-> 0, undecodable |-> FALSE]
    /\ p = [Torn EXCEPT !.selected = Chosen(q)]

-----------------------------------------------------------------------------
(***************************************************************************)
(* The pieces of a player.                                                 *)
(***************************************************************************)

Loads(r) == [r EXCEPT !.el = "loading", !.meta = FALSE, !.position = 0]

retryOriginalLoad(r) == Loads(r)

\* startHlsPlayback
startHlsPlayback(r) ==
    Loads([r EXCEPT !.mode = "hls", !.shown = "hls",
                    !.hls = IF hlsJs THEN "loading" ELSE "none"])

\* The original stands in for renditions that do not load.
activateOriginalFallback(r) ==
    retryOriginalLoad([r EXCEPT
        !.mode = "original", !.chosen = FALSE, !.auto = FALSE, !.shown = "original",
        !.timer = FALSE, !.hls = "none", !.selected = Original,
        !.status = "none", !.ready = FALSE])

\* From the original back to the renditions; a resume point that is there stays.
leaveOriginalForHls(r) ==
    startHlsPlayback([r EXCEPT
        !.resume = IF @ = Nowhere /\ r.meta /\ r.position > 0
                   THEN [time |-> r.position, of |-> version] ELSE @,
        !.chosen = FALSE, !.auto = FALSE, !.timer = FALSE, !.ready = FALSE])

\* Why it left matters when the viewer picks the original again.
Undecodable(why) ==
    [q EXCEPT !.undecodable = @ \/ (why = "decode" /\ p.chosen /\ ~p.auto)]

Ask(kind) ==
    /\ Cardinality(asked) < MaxAsked
    /\ asked' = asked \cup {[of |-> build, kind |-> kind, time |-> p.position]}

captureResumePoint(r) == [r EXCEPT !.resume = [time |-> r.position, of |-> version]]

\* The effect that tears one player down and sets up for the next; the renditions in
\* the menu stay if the version does, and the resume point stays in any case.
Rebuild(r, picked, options) ==
    /\ build < MaxBuilds /\ build' = build + 1 /\ built' = FALSE
    /\ p' = [Torn EXCEPT !.selected = Chosen(picked), !.options = options, !.resume = r.resume]
    /\ q' = [picked EXCEPT !.pending = 0, !.undecodable = FALSE]

Here == built /\ UNCHANGED <<version, build, built, hlsJs, allowed>>

-----------------------------------------------------------------------------
(***************************************************************************)
(* A player is built, and loads.                                           *)
(***************************************************************************)

\* initPlayer, a moment after the effect and once the first grant is there.  Auto
\* tries the original of a cut that is short, or of unknown length.
initPlayer ==
    /\ ~built /\ built' = TRUE
    /\ \/ /\ effective(q) = "original"
          /\ p' = retryOriginalLoad([p EXCEPT !.mode = "original", !.chosen = TRUE,
                                              !.shown = "original"])
          /\ UNCHANGED asked
       \/ /\ effective(q) = "auto" /\ allowed /\ q.height = 0
          /\ p' = [p EXCEPT !.mode = "original", !.chosen = TRUE, !.auto = TRUE]
          /\ Ask("size")
       \/ /\ effective(q) = "auto"
          /\ p' = startHlsPlayback(p)
          /\ UNCHANGED asked
    /\ UNCHANGED <<version, build, q, place, hlsJs, allowed>>

\* configureHlsLevels: the level that was picked while there was no list, else the one
\* of the preferred height, else hls.js chooses.
configureHlsLevels ==
    CASE q.pending \in Renditions -> q.pending
      [] q.pending = 0 /\ q.height # 0 -> q.height
      [] OTHER -> Auto

ManifestParsed ==
    /\ Here /\ p.hls = "loading" /\ p.el = "loading"
    /\ p' = [p EXCEPT !.hls = "parsed", !.timer = FALSE, !.status = "none", !.options = "hls",
                      !.level = configureHlsLevels, !.selected = configureHlsLevels,
                      !.ready = TRUE]
    /\ q' = [q EXCEPT !.pending = 0]
    /\ UNCHANGED <<asked, place>>

\* A chosen original that shows no picture, or is too long for Auto, gives way.
onLoadedMetadata ==
    /\ Here /\ p.el = "loading" /\ p.hls # "loading"
    /\ \/ /\ p.mode = "original" /\ p.chosen
          /\ \/ p' = leaveOriginalForHls(p) /\ q' = Undecodable("decode")
             \/ p.auto /\ p' = leaveOriginalForHls(p) /\ UNCHANGED q
          /\ UNCHANGED asked
       \/ /\ p' = [p EXCEPT
                !.el = "playing", !.meta = TRUE, !.timer = FALSE, !.ready = TRUE,
                !.selected = IF p.mode = "hls" THEN @ ELSE IF p.auto THEN Auto ELSE Original,
                !.status = "none",
                !.position = p.resume.time, !.resume = Nowhere]
          /\ IF p.mode = "original" /\ p.chosen /\ p.options # "playlist" /\ hlsJs
             THEN Ask("list") ELSE UNCHANGED asked
          /\ UNCHANGED q
    /\ UNCHANGED place

-----------------------------------------------------------------------------
(***************************************************************************)
(* It fails.                                                               *)
(***************************************************************************)

\* recoverWithFreshToken, at most once a minute
recoverWithFreshToken ==
    /\ p' = [p EXCEPT !.el = "failed", !.status = "none"]
    /\ Ask("token")
    /\ UNCHANGED q

GiveUp ==
    /\ p' = [p EXCEPT !.el = "failed", !.status = "error"]
    /\ UNCHANGED <<q, asked>>

\* onVideoError of the original the viewer or Auto chose
ChosenFails ==
    /\ p.mode = "original" /\ p.chosen
    /\ \/ \E why \in {"decode", "network"} :
            /\ p' = leaveOriginalForHls(p) /\ q' = Undecodable(why)
            /\ UNCHANGED asked
       \/ recoverWithFreshToken
       \/ p' = [p EXCEPT !.el = "failed"] /\ Ask("reach") /\ UNCHANGED q

\* onVideoError of the stand-in, and of the browser's own player
OtherFails ==
    /\ ~p.chosen
    /\ \/ p.meta /\ (recoverWithFreshToken \/ GiveUp)
       \/ /\ ~p.meta /\ p.mode = "hls"
          /\ p' = activateOriginalFallback(p)
          /\ UNCHANGED <<q, asked>>
       \/ /\ ~p.meta /\ p.mode = "original"
          /\ p' = [p EXCEPT !.el = "failed", !.timer = TRUE, !.ready = FALSE,
                            !.status = "none"]
          /\ UNCHANGED <<q, asked>>

onVideoError ==
    /\ Here /\ p.el \in {"loading", "playing"} /\ p.hls = "none"
    /\ ChosenFails \/ OtherFails
    /\ UNCHANGED place

HlsError ==
    /\ Here /\ p.hls # "none" /\ p.el \in {"loading", "playing"}
    /\ \/ /\ p.hls = "loading" \/ ~p.meta
          /\ p' = activateOriginalFallback(p)
          /\ UNCHANGED <<q, asked>>
       \/ recoverWithFreshToken
       \/ GiveUp
    /\ UNCHANGED place

RetryTimer ==
    /\ Here /\ p.timer
    /\ p' = retryOriginalLoad([p EXCEPT !.timer = FALSE])
    /\ UNCHANGED <<q, asked, place>>

-----------------------------------------------------------------------------
(***************************************************************************)
(* It is answered.                                                         *)
(***************************************************************************)

Answered(kind) ==
    \E a \in asked : a.kind = kind /\ a.of = build /\ asked' = asked \ {a}

\* Mutation: a destroyed player goes on to the renditions in the element of the next.
AnswerTakenAnyway ==
    /\ \E a \in asked : a.of # build /\ asked' = asked \ {a}
    /\ p' = [p EXCEPT !.hls = "loading", !.el = "loading"]
    /\ UNCHANGED <<version, build, built, q, place, hlsJs, allowed>>

\* The player that asked is destroyed.
AnswerForNobody ==
    /\ \E a \in asked : a.of # build /\ asked' = asked \ {a}
    /\ UNCHANGED <<version, build, built, p, q, place, hlsJs, allowed>>

\* Auto plays the original unless it is big, or a rendition was picked meanwhile.
SizeAnswered ==
    /\ Here /\ Answered("size")
    /\ IF p.mode # "original" THEN UNCHANGED p
       ELSE \/ p' = startHlsPlayback([p EXCEPT !.chosen = FALSE, !.auto = FALSE])
            \/ /\ q.height = 0 /\ q.pending \notin Renditions
               /\ p' = retryOriginalLoad([p EXCEPT !.shown = "original"])
    /\ UNCHANGED <<q, place>>

\* The original is there, and does not decode; or it is not, and one fresh grant
\* may help.
ReachAnswered ==
    /\ Here
    /\ \/ /\ p.mode = "original" /\ p.chosen /\ Answered("reach")
          /\ \E why \in {"decode", "network"} :
               p' = leaveOriginalForHls(p) /\ q' = Undecodable(why)
       \/ /\ p.mode = "original" /\ p.chosen
          /\ \E a \in asked :
               /\ a.kind = "reach" /\ a.of = build
               /\ asked' = (asked \ {a}) \cup {[a EXCEPT !.kind = "token", !.time = p.position]}
          /\ p' = [p EXCEPT !.status = "none"] /\ UNCHANGED q
       \/ ~(p.mode = "original" /\ p.chosen) /\ Answered("reach") /\ UNCHANGED <<p, q>>
    /\ UNCHANGED place

\* The same source is loaded again where it stopped, whichever it is by now.
TokenAnswered ==
    /\ Here
    /\ \E a \in asked :
         /\ a.kind = "token" /\ a.of = build /\ asked' = asked \ {a}
         /\ p' = Loads([p EXCEPT
                    !.resume = IF @ = Nowhere THEN [time |-> a.time, of |-> version] ELSE @,
                    !.hls = IF @ = "none" THEN @ ELSE "loading"])
    /\ UNCHANGED <<q, place>>

ListAnswered ==
    /\ Here /\ Answered("list")
    /\ p' = IF p.mode = "original" THEN [p EXCEPT !.options = "playlist"] ELSE p
    /\ UNCHANGED <<q, place>>

-----------------------------------------------------------------------------
(***************************************************************************)
(* The viewer picks, watches and moves on.                                 *)
(***************************************************************************)

\* handleQualityChange(-2)
PickOriginal ==
    LET picked == [q EXCEPT !.pref = "original", !.here = TRUE, !.height = 0, !.pending = 0] IN
    /\ IF effective(q) = "original"
       THEN IF p.shown # "original" /\ built /\ ~q.undecodable
            THEN Rebuild(captureResumePoint(p), picked, p.options)
            ELSE q' = picked /\ UNCHANGED <<build, built, p>>
       ELSE Rebuild(captureResumePoint(p), picked, p.options)
    /\ UNCHANGED <<version, asked, place, hlsJs, allowed>>

\* handleQualityChange of Auto or of a rendition in the menu
PickAutoOrRendition(l) ==
    LET picked == [q EXCEPT !.height = IF l = Auto THEN 0 ELSE HeightAt(p.options, l),
                            !.pending = 0]
    IN
    /\ l = Auto \/ p.options # "none"
    /\ IF effective(q) = "original"
       THEN Rebuild(captureResumePoint(p), [picked EXCEPT !.pref = "auto"], p.options)
       ELSE /\ CASE p.shown = "original" /\ l = Auto -> q' = picked /\ UNCHANGED p
                 [] p.shown = "original" /\ l # Auto ->
                      /\ p' = leaveOriginalForHls(captureResumePoint([p EXCEPT !.selected = l]))
                      /\ q' = picked
                 [] p.shown # "original" /\ p.hls = "none" ->
                      p' = [p EXCEPT !.selected = l] /\ q' = [picked EXCEPT !.pending = l]
                 [] OTHER ->
                      p' = [p EXCEPT !.selected = l, !.level = l] /\ q' = picked
            /\ UNCHANGED <<build, built>>
    /\ UNCHANGED <<version, asked, place, hlsJs, allowed>>

Watch ==
    /\ Here /\ p.el = "playing"
    /\ p' = [p EXCEPT !.position = 1] /\ place' = 1
    /\ UNCHANGED <<q, asked>>

\* Another version of the video is opened.
SwitchVersion ==
    /\ version' = 3 - version /\ place' = 0
    /\ Rebuild(p, q, "none")
    /\ UNCHANGED <<asked, hlsJs, allowed>>

Next ==
    \/ initPlayer \/ ManifestParsed \/ onLoadedMetadata \/ onVideoError \/ HlsError
    \/ RetryTimer \/ AnswerForNobody \/ SizeAnswered \/ ReachAnswered \/ TokenAnswered
    \/ ListAnswered \/ PickOriginal \/ \E l \in {Auto} \cup Renditions : PickAutoOrRendition(l)
    \/ Watch \/ SwitchVersion

Spec == Init /\ [][Next]_vars

-----------------------------------------------------------------------------
\* Once the player is ready the menu shows what plays, however it came to it: by a
\* pick, a fallback, a fresh grant or a rebuild; and hls.js never feeds the element
\* while the original is loaded into it.  One case is excepted: in the browser's own
\* player an Original that the viewer chose stays marked after it has failed and the
\* renditions play instead of it; otherwise that player's menu is on Auto.
MenuTellsWhatPlays ==
    /\ p.hls # "none" => p.mode = "hls"
    /\ built /\ p.ready =>
         CASE p.mode = "original" -> p.selected = IF p.auto THEN Auto ELSE Original
           [] p.hls = "parsed" -> p.selected = p.level
           [] p.mode = "hls" /\ ~hlsJs -> p.selected = Chosen(q)
           [] OTHER -> TRUE

\* Original is marked only while the original plays.  Not so in the case excepted above:
\* nothing unmarks it when the browser's own player takes over.
OriginalMeansOriginal == built /\ p.ready /\ p.selected = Original => p.mode = "original"

\* A player that shows neither a picture nor an error has something under way: a load,
\* a retry or an answer.
SomethingUnderWay ==
    built => \/ p.el \in {"loading", "playing"} \/ p.timer \/ p.status = "error"
             \/ \E a \in asked : a.of = build /\ a.kind \in {"size", "reach", "token"}

\* "Indices only mean something to the list they came from" (use-video-player.ts:1691):
\* the rendition that was picked is the one that plays.  Not so for one picked from the
\* list of the playlist while Auto asks for the size.
PickedRenditionPlays ==
    p.hls = "parsed" /\ q.height # 0 => HeightAt("hls", p.level) = q.height

\* "A source switch that failed before metadata still holds the viewer's position"
\* (use-video-player.ts:589): the viewer is taken back to where they were, in the same
\* version.  Not so after a second pick before the first has loaded.
PositionSurvives == p.el = "playing" /\ place = 1 => p.position = 1

\* A resume point is of the version on screen.  Not so after a version switch before
\* the pick has loaded.
ResumesItsOwn == p.resume.of \in {0, version}
===============================================================================
