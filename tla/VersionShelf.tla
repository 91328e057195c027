----------------------------- MODULE VersionShelf -----------------------------
(***************************************************************************)
(* What a user is promised about the versions of a file: they stand in the *)
(* order they arrived, exactly one of them is shown, a new one goes to the *)
(* end, and removing the shown one shows the newest of the rest.  Every    *)
(* operation is one step; a file exists as long as its shelf is not empty. *)
(***************************************************************************)
EXTENDS Sequences, SequencesExt

CONSTANTS Videos, Versions, NoVersion

VARIABLES
    shelf,      \* the versions of each file, oldest first
    shown       \* the version a viewer gets

shelfVars == <<shelf, shown>>

Shelved == UNION {ToSet(shelf[v]) : v \in Videos}

ShelfInit ==
    /\ shelf = [v \in Videos |-> <<>>]
    /\ shown = [v \in Videos |-> NoVersion]

Upload(v, x, show) ==
    /\ x \notin Shelved
    /\ shelf' = [shelf EXCEPT ![v] = Append(@, x)]
    /\ shown' = [shown EXCEPT ![v] = IF show \/ shelf[v] = <<>> THEN x ELSE @]

Show(v, x) ==
    /\ x \in ToSet(shelf[v])
    /\ shown' = [shown EXCEPT ![v] = x]
    /\ UNCHANGED shelf

Discard(v, i) ==
    LET rest == RemoveAt(shelf[v], i)
    IN  /\ i \in DOMAIN shelf[v] /\ rest # <<>>
        /\ shelf' = [shelf EXCEPT ![v] = rest]
        /\ shown' = [shown EXCEPT ![v] = IF @ = shelf[v][i] THEN Last(rest) ELSE @]

Stack(s, t) ==
    /\ s # t /\ shelf[s] # <<>> /\ shelf[t] # <<>>
    /\ shelf' = [shelf EXCEPT ![s] = <<>>, ![t] = @ \o shelf[s]]
    /\ shown' = [shown EXCEPT ![s] = NoVersion, ![t] = Last(shelf[s])]

Drop(v) ==
    /\ shelf[v] # <<>>
    /\ shelf' = [shelf EXCEPT ![v] = <<>>]
    /\ shown' = [shown EXCEPT ![v] = NoVersion]

ShelfNext ==
    \E v \in Videos :
        \/ \E x \in Versions : Upload(v, x, TRUE) \/ Upload(v, x, FALSE) \/ Show(v, x)
        \/ \E i \in DOMAIN shelf[v] : Discard(v, i)
        \/ \E t \in Videos : Stack(v, t)
        \/ Drop(v)

ShelfSpec == ShelfInit /\ [][ShelfNext]_shelfVars
===============================================================================
