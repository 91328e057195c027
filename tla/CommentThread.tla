---------------------------- MODULE CommentThread ----------------------------
(***************************************************************************)
(* The comments of one version of a video: the rows of the server, and the *)
(* list one browser tab shows of them.                                     *)
(*                                                                         *)
(* The tab changes its list before the server answers and undoes the       *)
(* change when the answer is a refusal or never comes; a poll and the      *)
(* notices of a live room replace the whole list by what the server        *)
(* returns page by page; an entity tag spares the poll the pages when      *)
(* nothing changed.  The list is a set of entries: the order on the screen *)
(* is not modelled.  A row that is deleted takes its replies with it.      *)
(***************************************************************************)
EXTENDS Integers, FiniteSets, FiniteSetsExt

CONSTANTS
  Comments,   \* the comments that may come to exist, in timeline order
  MaxClicks,  \* bound: the user's clicks, numbered as they are made
  Fetches,    \* the requests for the list that may overlap
  PageSize,   \* LIMIT: top-level comments of a page
  MaxClock,   \* bound: writes that set "updatedAt"
  MaxGone     \* bound: no comment is deleted once so many are gone

NoParent == 0          \* no parent: the comment is top-level
Ops == 1 .. MaxClicks
Texts == {"x", "y"}
ClickKinds == {"ADD", "EDIT", "RESOLVE", "DELETE"}

VARIABLES
  row,        \* the comments table: a comment's row, or NoRow
  spent,      \* the ids that were given out
  clock,      \* the database's clock, the last "updatedAt"
  view,       \* versions[active].comments of the tab, with their replies
  etag,       \* commentsEtagRef, or NoTag
  mutating,   \* isMutatingRef
  fetch,      \* Fetches -> a request for the list
  op,         \* Ops -> a click and what its handler remembers
  overtaken,  \* an answer has rewritten the tab's list after something else had
  rewound,    \* a comment written after the tab's tag was read is gone again
  twice,      \* the pages of the tab's list had a comment twice
  short       \* the tab's list ended early, by a total older than its tag

vars == <<row, spent, clock, view, etag, mutating, fetch, op, overtaken, rewound, twice, short>>
server == <<row, spent, clock>>

Entry(key, parent, done, text) ==
  [key |-> key, parent |-> parent, done |-> done, text |-> text]

temp(o) == -o            \* "temp-<time>": the key an unsaved comment is shown under
Temps == {temp(o) : o \in Ops}
Keys == Comments \cup Temps
Entries == [key : Keys, parent : Comments \cup {NoParent}, done : BOOLEAN, text : Texts]
Tags == [count : Nat, last : Nat]
NoTag == [count |-> -1, last |-> 0]
NoRow == [parent |-> NoParent, done |-> FALSE, text |-> "x", stamp |-> 0]

Existing == {c \in Comments : row[c].stamp # 0}
TopLevel == {c \in Existing : row[c].parent = NoParent}
shown(c) == Entry(c, row[c].parent, row[c].done, row[c].text)

\* What the pages hold together when nothing changes between them.
Listed == {shown(c) : c \in Existing}

NoOp == [phase |-> "idle", kind |-> "ADD", target |-> NoParent, done |-> FALSE,
         text |-> "x", ok |-> FALSE, id |-> NoParent, snapshot |-> {}, touched |-> FALSE]
NoFetch == [phase |-> "idle", header |-> NoTag, tag |-> NoTag, offset |-> 0,
            total |-> 0, got |-> {}, rewound |-> FALSE, twice |-> FALSE, short |-> FALSE]

InFlight == {o \in Ops : op[o].phase \in {"sent", "answered"}}

TypeOK ==
  /\ spent \subseteq Comments
  /\ clock \in 0 .. MaxClock
  /\ \A c \in Existing :
       /\ c \in spent
       /\ row[c] \in [parent : Comments \cup {NoParent}, done : BOOLEAN, text : Texts,
                      stamp : 1 .. clock]
       /\ row[c].parent # NoParent => row[c].parent \in Existing
  /\ view \subseteq Entries
  /\ etag = NoTag \/ etag \in Tags
  /\ {mutating, overtaken, rewound, twice, short} \subseteq BOOLEAN
  /\ \A f \in Fetches :
       /\ fetch[f].phase \in {"idle", "tag", "count", "revision", "rows", "apply"}
       /\ fetch[f].got \subseteq Entries
       /\ fetch[f].phase \in {"count", "rows", "apply"} => fetch[f].tag \in Tags
  /\ \A o \in Ops :
       /\ op[o].phase \in {"idle", "sent", "answered", "done"}
       /\ op[o].kind \in ClickKinds
       /\ op[o].snapshot \subseteq Entries
       /\ (op[o].phase = "answered" /\ op[o].kind = "ADD" /\ op[o].ok) => op[o].id \in spent

\* The version may have comments when the tab opens it.
Init ==
  /\ \E old \in SUBSET Comments :
       /\ spent = old /\ clock = Cardinality(old) /\ clock <= MaxClock
       /\ row = [c \in Comments |->
                  IF c \in old
                  THEN [NoRow EXCEPT !.stamp = Cardinality({d \in old : d <= c})] ELSE NoRow]
  /\ view = {} /\ etag = NoTag /\ mutating = FALSE
  /\ fetch = [f \in Fetches |-> NoFetch]
  /\ op = [o \in Ops |-> NoOp]
  /\ overtaken = FALSE /\ rewound = FALSE /\ twice = FALSE /\ short = FALSE

-----------------------------------------------------------------------------
(* The server's writes, each one transaction.                              *)

\* POST comments: the parent is looked up in the same version; a row may be
\* sorted anywhere in the timeline.
Insert(c, parent, text) ==
  /\ c \notin spent /\ clock < MaxClock
  /\ parent # NoParent => parent \in Existing
  /\ row' = [row EXCEPT ![c] = [parent |-> parent, done |-> FALSE, text |-> text,
                                stamp |-> clock + 1]]
  /\ spent' = spent \cup {c}
  /\ clock' = clock + 1
  /\ UNCHANGED <<fetch, rewound>>

\* PATCH comments/<id> with a content, or with isResolved.
Update(c, done, text) ==
  /\ c \in Existing /\ clock < MaxClock
  /\ row' = [row EXCEPT ![c].done = done, ![c].text = text, ![c].stamp = clock + 1]
  /\ clock' = clock + 1
  /\ UNCHANGED <<spent, fetch, rewound>>

\* DELETE comments/<id>; the foreign key takes the replies.
Remove(c) ==
  LET gone == {d \in Existing : d = c \/ row[d].parent = c}
      After(tag) == \E d \in gone : row[d].stamp > tag.last
  IN /\ c \in Existing /\ Cardinality(spent \ Existing) < MaxGone
     /\ row' = [d \in Comments |-> IF d \in gone THEN NoRow ELSE row[d]]
     /\ rewound' = (rewound \/ After(etag))
     /\ fetch' = [f \in Fetches |->
          [fetch[f] EXCEPT !.rewound = @ \/ (fetch[f].tag # NoTag /\ After(fetch[f].tag))]]
     /\ UNCHANGED <<spent, clock>>

\* Another user's request.  A reply is offered under a top-level comment only;
\* to this tab another user's edit is what another user's resolving is.
Elsewhere ==
  /\ \/ \E c \in Comments, p \in TopLevel \cup {NoParent} : Insert(c, p, "x")
     \/ \E c \in Existing : Update(c, ~row[c].done, row[c].text)
     \/ \E c \in Existing : Remove(c)
  /\ UNCHANGED <<view, etag, mutating, op, overtaken, twice, short>>

-----------------------------------------------------------------------------
(* What a handler does to the list.                                        *)

Without(entries, key) == {e \in entries : e.key # key /\ e.parent # key}

WithDone(entries, key, done) ==
  {IF e.key = key THEN [e EXCEPT !.done = done] ELSE e : e \in entries}

WithText(entries, key, text) ==
  {IF e.key = key THEN [e EXCEPT !.text = text] ELSE e : e \in entries}

\* Every other handler in flight sees that the list is no longer what it left.
Touch(ops, o) ==
  [p \in Ops |-> IF p # o /\ p \in InFlight THEN [ops[p] EXCEPT !.touched = TRUE]
                 ELSE ops[p]]

Begin(o, click, entries) ==
  /\ op[o].phase = "idle" /\ \A p \in 1 .. o - 1 : op[p].phase # "idle"
  /\ view' = entries
  /\ op' = Touch([op EXCEPT ![o] = [click EXCEPT !.phase = "sent"]], o)
  /\ mutating' = TRUE
  /\ UNCHANGED <<server, etag, fetch, overtaken, rewound, twice, short>>

\* handleAddComment, handleReplyComment: shown at once under a temporary id.
AddComment(o) ==
  \E p \in {e.key : e \in {v \in view : v.parent = NoParent /\ v.key \in Comments}} \cup {NoParent} :
    Begin(o, [NoOp EXCEPT !.kind = "ADD", !.target = p],
          view \cup {Entry(temp(o), p, FALSE, "x")})

\* handleResolveComment: the flag is flipped at once, from the value clicked on.
ResolveComment(o) ==
  \E e \in view :
    /\ e.parent = NoParent /\ e.key \in Comments
    /\ Begin(o, [NoOp EXCEPT !.kind = "RESOLVE", !.target = e.key, !.done = e.done],
             WithDone(view, e.key, ~e.done))

\* handleEditComment: nothing is shown before the answer.
EditComment(o) ==
  \E e \in view :
    /\ e.key \in Comments
    /\ \E t \in Texts \ {e.text} :
         Begin(o, [NoOp EXCEPT !.kind = "EDIT", !.target = e.key, !.text = t], view)

\* handleDeleteComment: the whole list is kept for the case that it fails.
DeleteComment(o) ==
  \E e \in view :
    /\ e.key \in Comments
    /\ Begin(o, [NoOp EXCEPT !.kind = "DELETE", !.target = e.key, !.snapshot = view],
             Without(view, e.key))

\* The request is carried out; the answer may be lost on its way back.
ServerAccepts(o) ==
  /\ op[o].phase = "sent"
  /\ \E ok \in BOOLEAN, c \in Comments :
       /\ CASE op[o].kind = "ADD" -> Insert(c, op[o].target, "x")
            [] op[o].kind = "RESOLVE" ->
                 c = op[o].target /\ Update(c, ~op[o].done, row[c].text)
            [] op[o].kind = "EDIT" ->
                 c = op[o].target /\ Update(c, row[c].done, op[o].text)
            [] op[o].kind = "DELETE" -> c = op[o].target /\ Remove(c)
       /\ op' = [op EXCEPT ![o].phase = "answered", ![o].ok = ok,
                           ![o].id = IF ok THEN c ELSE NoParent]
  /\ UNCHANGED <<view, etag, mutating, overtaken, twice, short>>

\* The request is lost, refused, or fails.
ServerRefuses(o) ==
  /\ op[o].phase = "sent"
  /\ op' = [op EXCEPT ![o].phase = "answered", ![o].ok = FALSE]
  /\ UNCHANGED <<server, view, etag, mutating, fetch, overtaken, rewound, twice, short>>

\* A comment that failed leaves the list.
DiscardNothing(o) == view    \* Mutation: it is left where it was shown.
Discard(o) == Without(view, temp(o))

\* What the answer makes of the list.
Answered(o) ==
  LET p == op[o] IN
    CASE p.kind = "ADD" /\ p.ok ->
           {IF e.key = temp(o) THEN Entry(p.id, e.parent, FALSE, "x") ELSE e : e \in view}
      [] p.kind = "ADD" /\ ~p.ok -> Discard(o)
      [] p.kind = "RESOLVE" /\ ~p.ok ->
           WithDone(view, p.target, p.done)
      [] p.kind = "EDIT" /\ p.ok ->
           WithText(view, p.target, p.text)
      [] p.kind = "DELETE" /\ ~p.ok -> p.snapshot
      [] OTHER -> view

\* The rest of the handler, and its "finally".
Answer(o) ==
  /\ op[o].phase = "answered"
  /\ view' = Answered(o)
  /\ op' = Touch([op EXCEPT ![o] = [NoOp EXCEPT !.phase = "done"]], o)
  /\ overtaken' = (overtaken \/ (op[o].touched /\ view' # view))
  /\ mutating' = FALSE
  /\ UNCHANGED <<server, etag, fetch, rewound, twice, short>>

-----------------------------------------------------------------------------
(* fetchVersionComments: the pages of the list.                            *)

Start(f, header) ==
  /\ fetch[f].phase = "idle"
  /\ fetch' = [fetch EXCEPT ![f] = [NoFetch EXCEPT !.phase = "tag", !.header = header]]
  /\ UNCHANGED <<server, view, etag, mutating, op, overtaken, rewound, twice, short>>

\* The interval, and the first load: not while a change of the user's is under way.
Poll(f) == ~mutating /\ Start(f, etag)

\* A live room's notice asks without a tag, whatever is under way.
LiveRefresh(f) == Start(f, NoTag)

Revision ==
  [count |-> Cardinality(Existing),
   last |-> IF Existing = {} THEN 0 ELSE Max({row[c].stamp : c \in Existing})]

\* Both answers are in: a tab that holds this tag is told so, else the rows are read.
Compared(f, read) ==
  fetch' = [fetch EXCEPT ![f] =
    IF read.offset = 0 /\ read.header = read.tag THEN NoFetch
    ELSE [read EXCEPT !.phase = "rows", !.header = NoTag]]

\* GET comments asks for the count and the last change of the version, and for the
\* number of its top-level comments, by two queries under way at once: either may be
\* answered first, and a write may come between them.  The tab keeps the first page's
\* tag; that of a later page is read for nobody.
ReadRevision(f) ==
  /\ fetch[f].phase \in {"tag", "revision"} /\ fetch[f].offset = 0
  /\ LET read == [fetch[f] EXCEPT
           !.tag = Revision,
           !.short = (fetch[f].phase = "revision" /\ fetch[f].total < Cardinality(TopLevel))]
     IN IF fetch[f].phase = "tag"
        THEN fetch' = [fetch EXCEPT ![f] = [read EXCEPT !.phase = "count"]]
        ELSE Compared(f, read)
  /\ UNCHANGED <<server, view, etag, mutating, op, overtaken, rewound, twice, short>>

\* Mutation: the tag of the last page is kept.
ReadTotalLast(f) ==
  /\ fetch[f].phase \in {"tag", "count"}
  /\ LET first == fetch[f].offset = 0
         read == [fetch[f] EXCEPT !.total = Cardinality(TopLevel),
                                  !.tag = IF first THEN @ ELSE Revision]
     IN IF fetch[f].phase = "tag" /\ first
        THEN fetch' = [fetch EXCEPT ![f] = [read EXCEPT !.phase = "revision"]]
        ELSE Compared(f, read)
  /\ UNCHANGED <<server, view, etag, mutating, op, overtaken, rewound, twice, short>>

ReadTotal(f) ==
  /\ fetch[f].phase \in {"tag", "count"}
  /\ LET read == [fetch[f] EXCEPT !.total = Cardinality(TopLevel)]
     IN IF fetch[f].phase = "tag" /\ fetch[f].offset = 0
        THEN fetch' = [fetch EXCEPT ![f] = [read EXCEPT !.phase = "revision"]]
        ELSE Compared(f, read)
  /\ UNCHANGED <<server, view, etag, mutating, op, overtaken, rewound, twice, short>>

Page(offset) ==
  {c \in TopLevel : Cardinality({d \in TopLevel : d < c}) \in offset .. offset + PageSize - 1}

ReadRows(f) ==
  LET page == Page(fetch[f].offset)
      read == {d \in Existing : d \in page \/ row[d].parent \in page}
      more == fetch[f].offset + Cardinality(page) < fetch[f].total
  IN /\ fetch[f].phase = "rows"
     /\ fetch' = [fetch EXCEPT
          ![f].got = @ \cup {shown(c) : c \in read},
          ![f].twice = @ \/ \E e \in fetch[f].got : e.key \in read,
          ![f].short = @ /\ ~more /\ fetch[f].offset + Cardinality(page) < Cardinality(TopLevel),
          ![f].offset = IF more THEN @ + PageSize ELSE 0,
          ![f].total = 0,
          ![f].phase = IF more THEN "tag" ELSE "apply"]
     /\ UNCHANGED <<server, view, etag, mutating, op, overtaken, rewound, twice, short>>

\* The tag and the list are kept together.
Apply(f) ==
  /\ fetch[f].phase = "apply"
  /\ etag' = fetch[f].tag
  /\ view' = fetch[f].got
  /\ op' = [o \in Ops |-> IF o \in InFlight THEN [op[o] EXCEPT !.touched = TRUE] ELSE op[o]]
  /\ overtaken' = FALSE
  /\ rewound' = fetch[f].rewound /\ twice' = fetch[f].twice /\ short' = fetch[f].short
  /\ fetch' = [fetch EXCEPT ![f] = NoFetch]
  /\ UNCHANGED <<server, mutating>>

\* A page that does not come leaves the list and the tag as they are.
FetchFails(f) ==
  /\ fetch[f].phase \in {"tag", "count", "revision", "rows"}
  /\ fetch' = [fetch EXCEPT ![f] = NoFetch]
  /\ UNCHANGED <<server, view, etag, mutating, op, overtaken, rewound, twice, short>>

-----------------------------------------------------------------------------
Click(o) == AddComment(o) \/ ResolveComment(o) \/ EditComment(o) \/ DeleteComment(o)

Next ==
  \/ Elsewhere
  \/ \E o \in Ops : Click(o) \/ ServerAccepts(o) \/ ServerRefuses(o) \/ Answer(o)
  \/ \E f \in Fetches : \/ Poll(f) \/ LiveRefresh(f) \/ ReadRevision(f) \/ ReadTotal(f)
                        \/ ReadRows(f) \/ Apply(f) \/ FetchFails(f)

Spec == Init /\ [][Next]_vars

(***************************************************************************)
(* The interval of the page keeps polling, a request that was sent is      *)
(* answered or times out, a handler runs to its end, and not every request *)
(* for the list fails for ever.                                            *)
(***************************************************************************)
Reads(f) ==
  Apply(f) \/ ((ReadRevision(f) \/ ReadTotal(f)) /\ fetch'[f].phase = "idle")
NetworkRecovers ==
  \/ <>[](\A f \in Fetches : fetch[f].phase = "idle")
  \/ []<><<\E f \in Fetches : Reads(f)>>_vars

FairSpec ==
  /\ Spec
  /\ \A o \in Ops : WF_vars(ServerAccepts(o) \/ ServerRefuses(o) \/ Answer(o))
  /\ \A f \in Fetches :
       WF_vars(Poll(f) \/ ReadRevision(f) \/ ReadTotal(f) \/ ReadRows(f) \/ Apply(f))
  /\ NetworkRecovers

-----------------------------------------------------------------------------
\* A comment is shown once: not under its temporary id beside its own row, and
\* under a temporary id only while it is being sent.  Two cases are excepted: an
\* answer that rewrote a newer list, and pages between which a comment was written, so
\* that another one moved from the one to the other.
ShownOnce ==
  /\ ~twice => \A e, g \in view : e.key = g.key => e = g \/ overtaken
  /\ \A e \in view, o \in Ops : e.key = temp(o) =>
       /\ overtaken \/ o \in InFlight
       /\ op[o].ok => \A g \in view : g.key # op[o].id

\* A tag in hand that is the server's own vouches for the list on the screen: no
\* poll that is spared leaves a comment missing, out of date or undone.  Three cases
\* are excepted: an answer that rewrote a newer list; a comment that came and went
\* again since the tag was read; and a list that ended at a full page because its total
\* was counted before a comment that its tag already knows was written.
TagVouches ==
  (etag = Revision /\ InFlight = {} /\ ~overtaken /\ ~rewound /\ ~short) => view = Listed

\* "Missed comment notifications recover through polling or reconnect"
\* (docs/live-review.md:17): a tab whose polls are all answered "not modified" has missed
\* nothing.  Not so: see the third case above.
SparedMissedNothing ==
  (etag = Revision /\ InFlight = {} /\ ~overtaken /\ ~rewound) => view = Listed

\* "Fetch pages until we have all comments" (use-video-page-data.ts:44): those that were
\* there all the while, once each.  Not so when one is written or deleted while they are
\* read, even if the total the pages end by was no older than the tag.
PagesHoldAll ==
  [][\A f \in Fetches :
       fetch[f].phase = "apply" /\ fetch'[f].phase # "apply" /\ ~fetch[f].short =>
         /\ ~fetch[f].twice
         /\ \A c \in Existing : row[c].stamp <= fetch[f].tag.last => shown(c) \in fetch[f].got]_vars

\* What the documentation says: what the tab missed, polling recovers.
MissedChangesRecover == <>[](overtaken \/ view = Listed)
=============================================================================
