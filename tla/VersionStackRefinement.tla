------------------------ MODULE VersionStackRefinement ------------------------
(***************************************************************************)
(* VersionStack implements VersionShelf as long as requests do not overlap *)
(* in time.  "overlap" says of a behaviour whether they do, and then may   *)
(* crash too; it never changes.  An activation counts as done with its     *)
(* first write: from then on its version is the one that will be shown.    *)
(***************************************************************************)
EXTENDS VersionStack, SequencesExt

CONSTANT NoVersion  \* what an absent file shows

VARIABLE overlap

Alone(r) == \A q \in Requests \ {r} : req[q] = Idle

StackInit == overlap \in BOOLEAN /\ Init
Overlapping == overlap /\ Next /\ UNCHANGED overlap
OneByOne == ~overlap /\ (\E r \in Requests : Alone(r) /\ Step(r)) /\ UNCHANGED overlap
StackSpec == StackInit /\ [][Overlapping \/ OneByOne]_<<overlap, vars>>

-----------------------------------------------------------------------------
(***************************************************************************)
(* The mapping.                                                            *)
(***************************************************************************)

\* s lists every member of S once, in the order of num.
Lists(s, S, num) ==
    /\ S \subseteq ToSet(s)
    /\ \A i, j \in DOMAIN s : i < j => num[s[i]] < num[s[j]]

ListOf(S, num) == CHOOSE s \in [1..Cardinality(S) -> S] : Lists(s, S, num)

ShelfOf(v) == ListOf(Of(v), number)

Displayed(v) ==
    {x \in Of(v) :
        \/ x \in active
        \/ \E r \in Requests : req[r].at = "activate.set" /\ req[r].version = x}

OnlyOf(S) == IF S = {} THEN NoVersion ELSE CHOOSE x \in S : TRUE

Shelves == [v \in Videos |-> IF overlap THEN <<>> ELSE ShelfOf(v)]
Shown == [v \in Videos |-> IF overlap THEN NoVersion ELSE OnlyOf(Displayed(v))]

Shelf == INSTANCE VersionShelf WITH shelf <- Shelves, shown <- Shown

\* One request after the other, the versions of a file behave like the shelf: a
\* file keeps their order and its last one, and shows the version that was last
\* activated or added to be shown, or the newest of the rest when it is deleted.
ImplementsShelf == Shelf!ShelfSpec
===============================================================================
