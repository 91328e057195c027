------------------------------ MODULE MarkerExport ------------------------------
(***************************************************************************)
(* How the comments of a version become the markers of an editor's         *)
(* timeline: threads are kept or left out as a whole, comments that start  *)
(* on one frame share a marker, and a marker lists each comment before its *)
(* replies.  A reply has a time of its own, so a thread may be spread over *)
(* several markers.                                                        *)
(*                                                                         *)
(* Comments are numbered in the order in which they were written; times    *)
(* are counted in parts of a frame.                                        *)
(***************************************************************************)
EXTENDS Integers, FiniteSets, SequencesExt

CONSTANTS
    Comments,  \* 1 .. n
    Parts,     \* parts of a frame
    Latest,    \* bound: times, in parts of a frame
    Ranges,    \* the comments about a range; the others are about a point
    Length     \* of the ranges, in parts of a frame

VARIABLES
    comments,         \* the rows of the version
    includeResolved,  \* as the editor asked
    asked,
    markers           \* the answer

vars == <<comments, includeResolved, asked, markers>>

Times == 0 .. Latest

TypeOK == asked \in BOOLEAN /\ \A c \in Comments : comments[c].parent \in 0 .. c - 1 /\ comments[c].time \in Times

\* A reply answers a comment that was there.
Init ==
    /\ \E parent \in [Comments -> Comments \cup {0}], time \in [Comments -> Times],
          resolved \in [Comments -> BOOLEAN] :
         /\ \A c \in Comments : parent[c] < c
         /\ comments = [c \in Comments |-> [parent |-> parent[c], time |-> time[c],
                                            until |-> time[c] + (IF c \in Ranges THEN Length ELSE 0),
                                            resolved |-> resolved[c]]]
    /\ includeResolved \in BOOLEAN
    /\ asked = FALSE /\ markers = <<>>

-----------------------------------------------------------------------------
\* Half a frame rounds up.
secondsToNleFrames(time) == (2 * time + Parts) \div (2 * Parts)

start(c) == secondsToNleFrames(comments[c].time)
end(c) == LET e == secondsToNleFrames(comments[c].until)
          IN IF e > start(c) THEN e ELSE start(c) + 1

\* The query's order.
InOrder(cs) ==
    SetToSortSeq(cs, LAMBDA a, b :
        \/ comments[a].time < comments[b].time
        \/ comments[a].time = comments[b].time /\ a < b)

\* Up from a comment to the top of its thread, among the rows there are.
rootAmong(rows) ==
    LET up[c \in rows] == IF comments[c].parent \in rows THEN up[comments[c].parent] ELSE c
    IN up

selectNleThreads(rows) ==
    {c \in rows : includeResolved \/ ~comments[rootAmong(rows)[c]].resolved}

\* Mutation: the rows of a marker stay in the query's order.
threadOrderFlat(rows) ==
    LET depth[c \in rows] ==
            IF comments[c].parent \in rows THEN 1 + depth[comments[c].parent] ELSE 0
        listed == InOrder(rows)
    IN [i \in DOMAIN listed |-> [row |-> listed[i], depth |-> depth[listed[i]]]]

\* The rows of one marker: each comment, then its replies there, and theirs.
threadOrder(rows) ==
    LET visit[c \in rows, depth \in 0 .. Cardinality(rows)] ==
            LET replies == InOrder({r \in rows : comments[r].parent = c})
            IN <<[row |-> c, depth |-> depth]>>
                 \o FlattenSeq([i \in DOMAIN replies |-> visit[replies[i], depth + 1]])
        tops == InOrder({c \in rows : comments[c].parent \notin rows})
    IN FlattenSeq([i \in DOMAIN tops |-> visit[tops[i], 0]])

groupMarkers(rows) ==
    LET frames == SetToSortSeq({start(c) : c \in rows}, <)
        of(f) == {c \in rows : start(c) = f}
    IN [i \in DOMAIN frames |->
          LET entries == threadOrder(of(frames[i])) IN
          [start |-> frames[i],
           end |-> CHOOSE e \in {end(c) : c \in of(frames[i])} :
                     \A c \in of(frames[i]) : e >= end(c),
           entries |-> entries,
           done |-> \A j \in DOMAIN entries :
                      \/ entries[j].depth > 0
                      \/ comments[rootAmong(rows)[entries[j].row]].resolved]]

\* GET comments/export with format markers, edl or xml
Export ==
    /\ ~asked /\ asked' = TRUE
    /\ markers' = groupMarkers(selectNleThreads(Comments))
    /\ UNCHANGED <<comments, includeResolved>>

Spec == Init /\ [][Export]_vars

-----------------------------------------------------------------------------
\* The smallest set with c and the parent of each of its members.
Thread(c) ==
    {a \in Comments : \A s \in SUBSET Comments :
        c \in s /\ (\A x \in s : comments[x].parent \in s \cup {0}) => a \in s}
Root(c) == CHOOSE r \in Thread(c) : comments[r].parent = 0

\* Every comment of a thread that is asked for is on one marker, the one of its
\* frame, which lasts until it ends; a reply is listed under the comment it answers
\* with nothing but other replies of that comment between them, or at the top when
\* that one is on another marker; and a marker is done only when every thread it
\* opens is resolved at its root, wherever the root is.
MarkersTell ==
    asked =>
      LET At(c) == {i \in DOMAIN markers :
                      \E j \in DOMAIN markers[i].entries : markers[i].entries[j].row = c}
          Line(i, c) == {j \in DOMAIN markers[i].entries : markers[i].entries[j].row = c}
      IN
      /\ \A i, j \in DOMAIN markers : i < j => markers[i].start < markers[j].start
      /\ \A c \in Comments :
           IF includeResolved \/ ~comments[Root(c)].resolved
           THEN \E i \in DOMAIN markers : \E j \in DOMAIN markers[i].entries :
                  /\ At(c) = {i} /\ Line(i, c) = {j}
                  /\ markers[i].start = start(c) /\ markers[i].end >= end(c)
                  /\ LET depth == markers[i].entries[j].depth
                         parent == comments[c].parent
                     IN \/ /\ depth = 0
                           /\ parent = 0 \/ At(parent) # {i}
                        \/ \E k \in 1 .. j - 1 :
                             /\ markers[i].entries[k] = [row |-> parent, depth |-> depth - 1]
                             /\ \A l \in k + 1 .. j - 1 : markers[i].entries[l].depth >= depth
           ELSE At(c) = {}
      /\ \A i \in DOMAIN markers :
           markers[i].done <=>
             \A j \in DOMAIN markers[i].entries :
               LET c == markers[i].entries[j].row IN
               At(comments[c].parent) # {i} => comments[Root(c)].resolved
===============================================================================
