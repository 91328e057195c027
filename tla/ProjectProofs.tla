------------------------------ MODULE ProjectProofs ------------------------------
(***************************************************************************)
(* What is proved of a project's folders (ContentTree) and approvals       *)
(* (Approvals), for any number of folders, files, people, requests and     *)
(* calls.                                                                  *)
(*                                                                         *)
(* Folders: the operations keep a tree, no deeper than the limit; so the   *)
(* two ways in which the code decides who may see a file agree, nothing    *)
(* public lies below a restriction, links do not outlive the access that   *)
(* allowed them, and nobody opens what they could not edit.                *)
(*                                                                         *)
(* Approvals: the outcome of a request depends on what a transaction saw   *)
(* when it began, so the inductive invariant says what a snapshot still    *)
(* tells of the tables by the time its transaction commits.                *)
(***************************************************************************)
EXTENDS MCProject, FiniteSetTheorems, TLAPS

-----------------------------------------------------------------------------
(* Trees, of any set of folders D with any parents p.  Above is defined by *)
(* recursion on the data; that the recursion has a solution, and what its  *)
(* solution is like, is proved from the least sets closed under parents.   *)

\* Whatever folders one takes, the parent of one of them is not among them: no loops.
Tree(D, p) == \A S \in SUBSET D : S # {} => \E f \in S : p[f] \notin S
\* a is the way of every folder up from itself, by the parents p.
IsWay(D, p, a) == \A f \in D : a[f] = {f} \cup (IF p[f] \in D THEN a[p[f]] ELSE {})

\* The recursive definition of the ways has a solution, loops or not.
LEMMA WayExists ==
  ASSUME NEW D, NEW p
  PROVE  \E a : a = [f \in D |-> {f} \cup (IF p[f] \in D THEN a[p[f]] ELSE {})]
<1> DEFINE C == {S \in SUBSET D : \A h \in S : p[h] \in D => p[h] \in S}
           w == [f \in D |-> {g \in D : \A S \in C : f \in S => g \in S}]
<1>1. ASSUME NEW f \in D
      PROVE  w[f] = {f} \cup (IF p[f] \in D THEN w[p[f]] ELSE {})
  <2>1. CASE p[f] \notin D
    <3>1. {f} \in C
      BY <2>1
    <3> QED
      BY <2>1, <3>1
  <2>2. CASE p[f] \in D
    <3>1. {f} \cup w[p[f]] \in C
      BY <2>2
    <3>2. \A g \in w[f] : g \in {f} \cup w[p[f]]
      BY <3>1
    <3>3. \A g \in w[p[f]] : g \in w[f]
      BY <2>2
    <3>4. f \in w[f]
      OBVIOUS
    <3> QED
      BY <2>2, <3>2, <3>3, <3>4
  <2> QED
    BY <2>1, <2>2
<1>2. w = [f \in D |-> {f} \cup (IF p[f] \in D THEN w[p[f]] ELSE {})]
  BY <1>1
<1> HIDE DEF w
<1> QED
  BY <1>2

\* A way begins at its folder.
LEMMA WayOwn ==
  ASSUME NEW D, NEW p, NEW a, IsWay(D, p, a), NEW f \in D
  PROVE  f \in a[f]
BY DEF IsWay

\* It stays among the folders.
LEMMA WayInside ==
  ASSUME NEW D, NEW p, NEW a, IsWay(D, p, a), Tree(D, p)
  PROVE  \A f \in D : a[f] \subseteq D
<1> DEFINE S == {f \in D : ~ (a[f] \subseteq D)}
<1>1. SUFFICES ASSUME S # {}
               PROVE  FALSE
  OBVIOUS
<1>2. PICK f \in S : p[f] \notin S
  BY <1>1 DEF Tree
<1> QED
  BY <1>2 DEF IsWay

\* The way on from a folder of a way is part of that way.
LEMMA WayUp ==
  ASSUME NEW D, NEW p, NEW a, IsWay(D, p, a), Tree(D, p)
  PROVE  \A f \in D : \A g \in a[f] : a[g] \subseteq a[f]
<1> DEFINE S == {f \in D : \E g \in a[f] : ~ (a[g] \subseteq a[f])}
<1>1. SUFFICES ASSUME S # {}
               PROVE  FALSE
  OBVIOUS
<1>2. PICK f \in S : p[f] \notin S
  BY <1>1 DEF Tree
<1>3. PICK g \in a[f] : ~ (a[g] \subseteq a[f])
  BY <1>2
<1>4. p[f] \in D /\ g \in a[p[f]] /\ a[f] = {f} \cup a[p[f]]
  BY <1>2, <1>3 DEF IsWay
<1> QED
  BY <1>2, <1>3, <1>4

\* No way comes back to where it began.
LEMMA WayLoopless ==
  ASSUME NEW D, NEW p, NEW a, IsWay(D, p, a), Tree(D, p), NEW f \in D, p[f] \in D
  PROVE  f \notin a[p[f]]
<1> SUFFICES ASSUME f \in a[p[f]]
             PROVE  FALSE
  OBVIOUS
<1> DEFINE S == {h \in D : h \in a[p[f]] /\ f \in a[h]}
<1>1. f \in S
  BY WayOwn
<1>2. PICK h \in S : p[h] \notin S
  BY <1>1 DEF Tree
<1>3. CASE h = f
  <2>1. p[f] \in a[p[f]]
    BY WayOwn
  <2> QED
    BY <1>2, <1>3, <2>1
<1>4. CASE h # f
  <2>1. p[h] \in D /\ f \in a[p[h]] /\ p[h] \in a[h]
    BY <1>4, WayOwn DEF IsWay
  <2>2. a[h] \subseteq a[p[f]]
    BY WayUp
  <2> QED
    BY <1>2, <2>1, <2>2
<1> QED
  BY <1>3, <1>4

\* Two folders are not above each other.
LEMMA WayApart ==
  ASSUME NEW D, NEW p, NEW a, IsWay(D, p, a), Tree(D, p),
         NEW g \in D, NEW h \in D, g \in a[h], h \in a[g]
  PROVE  g = h
<1> SUFFICES ASSUME g # h
             PROVE  FALSE
  OBVIOUS
<1>1. p[h] \in D /\ g \in a[p[h]]
  BY DEF IsWay
<1>2. h \in a[p[h]]
  BY <1>1, WayUp
<1> QED
  BY <1>1, <1>2, WayLoopless

\* Of two folders of a way one is above the other.
LEMMA WayLine ==
  ASSUME NEW D, NEW p, NEW a, IsWay(D, p, a), Tree(D, p)
  PROVE  \A f \in D : \A g, h \in a[f] : g \in a[h] \/ h \in a[g]
<1> DEFINE S == {f \in D : \E g, h \in a[f] : g \notin a[h] /\ h \notin a[g]}
<1>1. SUFFICES ASSUME S # {}
               PROVE  FALSE
  OBVIOUS
<1>2. PICK f \in S : p[f] \notin S
  BY <1>1 DEF Tree
<1>3. PICK g \in a[f], h \in a[f] : g \notin a[h] /\ h \notin a[g]
  BY <1>2
<1>4. g # f /\ h # f
  BY <1>3
<1>5. p[f] \in D /\ g \in a[p[f]] /\ h \in a[p[f]]
  BY <1>2, <1>3, <1>4 DEF IsWay
<1> QED
  BY <1>2, <1>3, <1>5

\* A way ends.
LEMMA WayFinite ==
  ASSUME NEW D, NEW p, NEW a, IsWay(D, p, a), Tree(D, p)
  PROVE  \A f \in D : IsFiniteSet(a[f])
<1> DEFINE S == {f \in D : ~ IsFiniteSet(a[f])}
<1>1. SUFFICES ASSUME S # {}
               PROVE  FALSE
  OBVIOUS
<1>2. PICK f \in S : p[f] \notin S
  BY <1>1 DEF Tree
<1>3. CASE p[f] \in D
  <2>1. IsFiniteSet(a[p[f]])
    BY <1>2, <1>3
  <2>2. a[f] = a[p[f]] \cup {f}
    BY <1>2, <1>3 DEF IsWay
  <2> QED
    BY <1>2, <2>1, <2>2, FS_AddElement
<1>4. CASE p[f] \notin D
  <2>1. a[f] = {f}
    BY <1>2, <1>4 DEF IsWay
  <2> QED
    BY <1>2, <2>1, FS_Singleton
<1> QED
  BY <1>3, <1>4

\* Of the folders of a way that are in Q there is one that comes first.
LEMMA WayNearest ==
  ASSUME NEW D, NEW p, NEW a, IsWay(D, p, a), Tree(D, p), NEW Q
  PROVE  \A f \in D : a[f] \cap Q # {} =>
           \E g \in a[f] \cap Q : (a[f] \ a[g]) \cap Q = {}
<1> DEFINE S == {f \in D : /\ a[f] \cap Q # {}
                           /\ \A g \in a[f] \cap Q : (a[f] \ a[g]) \cap Q # {}}
<1>1. SUFFICES ASSUME S # {}
               PROVE  FALSE
  OBVIOUS
<1>2. PICK f \in S : p[f] \notin S
  BY <1>1 DEF Tree
<1>3. f \in a[f]
  BY <1>2, WayOwn
<1>4. f \notin Q
  BY <1>2, <1>3
<1>5. p[f] \in D /\ a[f] = {f} \cup a[p[f]]
  BY <1>2, <1>4 DEF IsWay
<1>6. a[p[f]] \cap Q # {}
  BY <1>2, <1>4, <1>5
<1>7. PICK g \in a[p[f]] \cap Q : (a[p[f]] \ a[g]) \cap Q = {}
  BY <1>2, <1>5, <1>6
<1> QED
  BY <1>2, <1>4, <1>5, <1>7

\* A way ends at the top.
LEMMA WayTop ==
  ASSUME NEW D, NEW p, NEW a, IsWay(D, p, a), Tree(D, p)
  PROVE  \A f \in D : \E g \in a[f] : g \in D /\ p[g] \notin D
<1> DEFINE S == {f \in D : \A g \in a[f] : ~(g \in D /\ p[g] \notin D)}
<1>1. SUFFICES ASSUME S # {}
               PROVE  FALSE
  OBVIOUS
<1>2. PICK f \in S : p[f] \notin S
  BY <1>1 DEF Tree
<1>3. p[f] \in D /\ a[f] = {f} \cup a[p[f]]
  BY <1>2, WayOwn DEF IsWay
<1> QED
  BY <1>2, <1>3

\* Every folder of a way but its first is the parent of another.
LEMMA WayChild ==
  ASSUME NEW D, NEW p, NEW a, IsWay(D, p, a), Tree(D, p)
  PROVE  \A f \in D : \A g \in a[f] : g # f => \E c \in a[f] : c \in D /\ p[c] = g
<1> DEFINE S == {f \in D : \E g \in a[f] : g # f /\ \A c \in a[f] : ~ (c \in D /\ p[c] = g)}
<1>1. SUFFICES ASSUME S # {}
               PROVE  FALSE
  OBVIOUS
<1>2. PICK f \in S : p[f] \notin S
  BY <1>1 DEF Tree
<1>3. PICK g \in a[f] : g # f /\ \A c \in a[f] : ~ (c \in D /\ p[c] = g)
  BY <1>2
<1>4. p[f] \in D /\ a[f] = {f} \cup a[p[f]] /\ f \in a[f]
  BY <1>2, <1>3, WayOwn DEF IsWay
<1>5. g # p[f] /\ g \in a[p[f]]
  BY <1>3, <1>4
<1> QED
  BY <1>2, <1>3, <1>4, <1>5

\* A way no folder of which got another parent stays as it was.
LEMMA WaySame ==
  ASSUME NEW D, NEW p, NEW a, IsWay(D, p, a), Tree(D, p), NEW q, NEW b, IsWay(D, q, b)
  PROVE  \A f \in D : (\A h \in a[f] : q[h] = p[h]) => b[f] = a[f]
<1> DEFINE S == {f \in D : (\A h \in a[f] : q[h] = p[h]) /\ b[f] # a[f]}
<1>1. SUFFICES ASSUME S # {}
               PROVE  FALSE
  OBVIOUS
<1>2. PICK f \in S : p[f] \notin S
  BY <1>1 DEF Tree
<1>3. q[f] = p[f] /\ f \in D
  BY <1>2, WayOwn
<1>4. CASE p[f] \in D
  <2>1. a[f] = {f} \cup a[p[f]] /\ b[f] = {f} \cup b[p[f]]
    BY <1>3, <1>4 DEF IsWay
  <2>2. b[p[f]] = a[p[f]]
    BY <1>2, <1>4, <2>1
  <2> QED
    BY <1>2, <2>1, <2>2
<1>5. CASE p[f] \notin D
  BY <1>2, <1>3, <1>5 DEF IsWay
<1> QED
  BY <1>4, <1>5

\* When f alone gets another parent, the ways through f change from f on.
LEMMA WayMoved ==
  ASSUME NEW D, NEW p, NEW a, IsWay(D, p, a), Tree(D, p), NEW q, NEW b, IsWay(D, q, b),
         NEW f \in D, \A h \in D \ {f} : q[h] = p[h]
  PROVE  \A h \in D : f \in a[h] => b[h] = (a[h] \ a[f]) \cup b[f]
<1> DEFINE S == {h \in D : f \in a[h] /\ b[h] # (a[h] \ a[f]) \cup b[f]}
<1>1. SUFFICES ASSUME S # {}
               PROVE  FALSE
  OBVIOUS
<1>2. PICK h \in S : p[h] \notin S
  BY <1>1 DEF Tree
<1>3. h # f
  BY <1>2
<1>4. p[h] \in D /\ f \in a[p[h]] /\ a[h] = {h} \cup a[p[h]] /\ q[h] = p[h]
  BY <1>2, <1>3 DEF IsWay
<1>5. b[h] = {h} \cup b[p[h]]
  BY <1>2, <1>4 DEF IsWay
<1>6. b[p[h]] = (a[p[h]] \ a[f]) \cup b[f]
  BY <1>2, <1>4
<1>7. h \notin a[f]
  BY <1>2, <1>3, WayApart
<1> QED
  BY <1>2, <1>4, <1>5, <1>6, <1>7

\* Above is such a way.
LEMMA AboveIs ==
  \E a : /\ IsWay(Folders, parent, a)
         /\ \A d : Above(d) = IF d \in Folders /\ parent[d] # None THEN a[d] ELSE {}
<1> DEFINE IsIt(a) == a = [f \in Folders |-> {f} \cup (IF parent[f] \in Folders THEN a[parent[f]] ELSE {})]
           it == CHOOSE a : IsIt(a)
<1>1. \E a : IsIt(a)
  BY WayExists, Zenon
<1>2. IsIt(it)
  BY <1>1, Zenon
<1>3. \A d : Above(d) = IF d \in Folders /\ parent[d] # None THEN it[d] ELSE {}
  BY DEF Above
<1>4. IsWay(Folders, parent, it)
  <2> HIDE DEF it
  <2> QED
  BY <1>2 DEF IsWay
<1> QED
  BY <1>3, <1>4

-----------------------------------------------------------------------------
(* The ways of the project's folders.                                      *)

\* The folders of the project form a tree.
NoLoop == Tree(Folders, parent)

\* What the lemmas below say of Above, by name.
Inside == \A d : /\ Above(d) \subseteq Live
                 /\ d \in Live => d \in Above(d)
                 /\ d \notin Live => Above(d) = {}
Step == \A f \in Live : Above(f) = {f} \cup Above(parent[f]) /\ f \notin Above(parent[f])
Up == \A d : \A g \in Above(d) : Above(g) \subseteq Above(d)
Line == \A d : \A g, h \in Above(d) : g \in Above(h) \/ h \in Above(g)
Apart == \A g, h : g \in Above(h) /\ h \in Above(g) => g = h
Nearest == \A d, Q : Above(d) \cap Q # {} =>
             \E g \in Above(d) \cap Q : (Above(d) \ Above(g)) \cap Q = {}
Top == \A f \in Live : \E g \in Above(f) : parent[g] = Root
ByParent == \A f : \A g \in Above(f) : g # f => \E c \in Above(f) : parent[c] = g
Levels == /\ \A d : IsFiniteSet(Above(d)) /\ Depth(d) \in Nat
          /\ \A f \in Live : Depth(f) = Depth(parent[f]) + 1
          /\ \A d : \A g \in Above(d) : Depth(g) >= 1 /\ Depth(g) <= Depth(d)

\* Folders are not mistaken for the top or for nothing, and their parents exist.
Names == /\ Root \notin Folders /\ There \notin Folders /\ None \notin Folders
         /\ \A f \in Live : f \in Folders /\ parent[f] \in Live \cup {Root}

LEMMA LiveNames == TypeOK => Names
BY TreeAssumption DEF TypeOK, Live, Names

\* The ways of the folders that exist.
LEMMA WaysAre ==
  ASSUME Names, NoLoop
  PROVE  \E a : /\ IsWay(Folders, parent, a) /\ Tree(Folders, parent)
                /\ \A d \in Live : Above(d) = a[d]
                /\ \A d : d \notin Live => Above(d) = {}
<1>1. PICK a : /\ IsWay(Folders, parent, a)
               /\ \A d : Above(d) = IF d \in Folders /\ parent[d] # None THEN a[d] ELSE {}
  BY AboveIs
<1> QED
  BY <1>1 DEF Live, NoLoop

\* Each of the facts about Above follows from the tree's having no loops.
LEMMA InsideHolds ==
  ASSUME Names, NoLoop
  PROVE  Inside
<1>1. PICK a : /\ IsWay(Folders, parent, a) /\ Tree(Folders, parent)
               /\ \A d \in Live : Above(d) = a[d]
               /\ \A d : d \notin Live => Above(d) = {}
  BY WaysAre
<1>2. \A d \in Live : d \in Folders /\ d \in a[d]
  BY <1>1, WayOwn DEF Live
<1>3. \A d \in Live : a[d] \subseteq Live
  <2> DEFINE S == {d \in Live : ~ (a[d] \subseteq Live)}
  <2>1. SUFFICES ASSUME S # {}
                 PROVE  FALSE
    OBVIOUS
  <2>2. PICK f \in S : parent[f] \notin S
    BY <1>1, <2>1 DEF Tree, Live
  <2>3. a[f] = {f} \cup (IF parent[f] \in Folders THEN a[parent[f]] ELSE {})
    BY <1>1, <2>2 DEF IsWay, Names
  <2> QED
    BY <2>2, <2>3 DEF Names
<1> QED
  BY <1>1, <1>2, <1>3 DEF Inside

LEMMA StepHolds ==
  ASSUME Names, NoLoop
  PROVE  Step
<1>1. PICK a : /\ IsWay(Folders, parent, a) /\ Tree(Folders, parent)
               /\ \A d \in Live : Above(d) = a[d]
               /\ \A d : d \notin Live => Above(d) = {}
  BY WaysAre
<1>2. SUFFICES ASSUME NEW f \in Live
               PROVE  Above(f) = {f} \cup Above(parent[f]) /\ f \notin Above(parent[f])
  BY DEF Step
<1>3. f \in Folders /\ a[f] = {f} \cup (IF parent[f] \in Folders THEN a[parent[f]] ELSE {})
  BY <1>1 DEF IsWay, Names
<1>4. CASE parent[f] = Root
  <2>1. Above(parent[f]) = {}
    BY <1>1, <1>4 DEF Names, Live
  <2> QED
    BY <1>1, <1>3, <1>4, <2>1 DEF Names
<1>5. CASE parent[f] \in Live
  <2>1. parent[f] \in Folders
    BY <1>5 DEF Live
  <2>2. f \notin a[parent[f]]
    BY <1>1, <1>3, <2>1, WayLoopless
  <2> QED
    BY <1>1, <1>3, <1>5, <2>1, <2>2
<1> QED
  BY <1>4, <1>5 DEF Names

LEMMA UpHolds ==
  ASSUME Names, NoLoop
  PROVE  Up /\ Line /\ Apart
<1>1. PICK a : /\ IsWay(Folders, parent, a) /\ Tree(Folders, parent)
               /\ \A d \in Live : Above(d) = a[d]
               /\ \A d : d \notin Live => Above(d) = {}
  BY WaysAre
<1>2. Inside
  BY InsideHolds
<1>3. \A d \in Live : d \in Folders
  BY DEF Live
<1>4. \A f \in Folders : \A g \in a[f] : a[g] \subseteq a[f]
  BY <1>1, WayUp
<1>5. Up
  BY <1>1, <1>2, <1>3, <1>4 DEF Up, Inside
<1>6. \A f \in Folders : \A g, h \in a[f] : g \in a[h] \/ h \in a[g]
  BY <1>1, WayLine
<1>7. Line
  BY <1>1, <1>2, <1>3, <1>6 DEF Line, Inside
<1>8. ASSUME NEW g, NEW h, g \in Above(h), h \in Above(g)
      PROVE  g = h
  <2>1. g \in Live /\ h \in Live
    BY <1>2, <1>8 DEF Inside
  <2> QED
    BY <1>1, <1>3, <1>8, <2>1, WayApart
<1> QED
  BY <1>5, <1>7, <1>8 DEF Apart

LEMMA NearestHolds ==
  ASSUME Names, NoLoop
  PROVE  Nearest
<1>1. PICK a : /\ IsWay(Folders, parent, a) /\ Tree(Folders, parent)
               /\ \A d \in Live : Above(d) = a[d]
               /\ \A d : d \notin Live => Above(d) = {}
  BY WaysAre
<1>2. SUFFICES ASSUME NEW d, NEW Q, Above(d) \cap Q # {}
               PROVE  \E g \in Above(d) \cap Q : (Above(d) \ Above(g)) \cap Q = {}
  BY DEF Nearest
<1>3. d \in Live /\ d \in Folders
  BY <1>1, <1>2 DEF Live
<1>4. PICK g \in a[d] \cap Q : (a[d] \ a[g]) \cap Q = {}
  BY <1>1, <1>2, <1>3, WayNearest
<1>5. g \in Live
  BY <1>1, <1>3, <1>4, InsideHolds DEF Inside
<1> QED
  BY <1>1, <1>3, <1>4, <1>5

LEMMA TopHolds ==
  ASSUME Names, NoLoop
  PROVE  Top /\ ByParent
<1>1. PICK a : /\ IsWay(Folders, parent, a) /\ Tree(Folders, parent)
               /\ \A d \in Live : Above(d) = a[d]
               /\ \A d : d \notin Live => Above(d) = {}
  BY WaysAre
<1>2. Inside
  BY InsideHolds
<1>3. ASSUME NEW f \in Live
      PROVE  \E g \in Above(f) : parent[g] = Root
  <2>1. PICK g \in a[f] : g \in Folders /\ parent[g] \notin Folders
    BY <1>1, WayTop DEF Live
  <2>2. g \in Above(f) /\ g \in Live
    BY <1>1, <1>2, <2>1 DEF Inside
  <2>3. parent[g] \notin Live
    BY <2>1 DEF Live
  <2> QED
    BY <2>2, <2>3 DEF Names
<1>4. ASSUME NEW f, NEW g \in Above(f), g # f
      PROVE  \E c \in Above(f) : parent[c] = g
  <2>1. f \in Live /\ f \in Folders
    BY <1>1, <1>4 DEF Live
  <2>2. PICK c \in a[f] : c \in Folders /\ parent[c] = g
    BY <1>1, <1>4, <2>1, WayChild
  <2> QED
    BY <1>1, <2>1, <2>2
<1> QED
  BY <1>3, <1>4 DEF Top, ByParent

\* Ways are finite, so depths are numbers.
LEMMA FiniteHolds ==
  ASSUME Names, NoLoop
  PROVE  \A d : IsFiniteSet(Above(d)) /\ Depth(d) \in Nat
<1>1. PICK a : /\ IsWay(Folders, parent, a) /\ Tree(Folders, parent)
               /\ \A d \in Live : Above(d) = a[d]
               /\ \A d : d \notin Live => Above(d) = {}
  BY WaysAre
<1>2. \A f \in Folders : IsFiniteSet(a[f])
  BY <1>1, WayFinite
<1>3. ASSUME NEW d
      PROVE  IsFiniteSet(Above(d))
  BY <1>1, <1>2, FS_EmptySet DEF Live
<1> QED
  BY <1>3, FS_CardinalityType DEF Depth

LEMMA LevelsHold ==
  ASSUME Names, NoLoop
  PROVE  Levels
<1>1. \A d : IsFiniteSet(Above(d)) /\ Depth(d) \in Nat
  BY FiniteHolds
<1>2. Inside /\ Step /\ Up
  BY InsideHolds, StepHolds, UpHolds
<1>3. ASSUME NEW f \in Live
      PROVE  Depth(f) = Depth(parent[f]) + 1
  <2>1. Above(f) = Above(parent[f]) \cup {f} /\ f \notin Above(parent[f])
    BY <1>2 DEF Step
  <2>2. IsFiniteSet(Above(parent[f]))
    BY <1>1
  <2>3. Cardinality(Above(parent[f]) \cup {f}) = Cardinality(Above(parent[f])) + 1
    BY <2>1, <2>2, FS_AddElement
  <2> QED
    BY <2>1, <2>3 DEF Depth
<1>4. ASSUME NEW d, NEW g \in Above(d)
      PROVE  Depth(g) >= 1 /\ Depth(g) <= Depth(d)
  <2>1. Above(g) \subseteq Above(d) /\ g \in Live
    BY <1>2 DEF Up, Inside
  <2>2. Cardinality(Above(g)) <= Cardinality(Above(d))
    BY <1>1, <2>1, FS_Subset
  <2>3. Depth(g) <= Depth(d)
    BY <2>2 DEF Depth
  <2>4. Depth(g) = Depth(parent[g]) + 1 /\ Depth(parent[g]) \in Nat
    BY <1>1, <1>3, <2>1
  <2> QED
    BY <2>3, <2>4
<1> QED
  BY <1>1, <1>3, <1>4 DEF Levels

-----------------------------------------------------------------------------
(* The query form: who is let in by the way up from a folder.              *)

\* All of them, for the proofs that take them together.
WayFacts == /\ Inside /\ Step /\ Up /\ Line /\ Apart
            /\ Nearest /\ Top /\ ByParent /\ Levels

LEMMA Ways == Names /\ NoLoop => WayFacts
BY InsideHolds, StepHolds, UpHolds, NearestHolds, TopHolds, LevelsHold DEF WayFacts

\* No folder is deeper than the limit.
Shallow == \A f \in Live : Depth(f) <= MaxDepth

\* g as the end of a way that lets x in, and f as the beginning of one.
Lets(x, m, g) ==
  \/ Holds(x, g, m)
  \/ ~m /\ mode[g] = "PUBLIC" /\ Unrestricted(Above(g) \ {g})
  \/ mode[g] # "RESTRICTED" /\ parent[g] = Root /\ projectAudience(x, m, Root)
Admits(x, m, f) == \E g \in Above(f) : Lets(x, m, g) /\ Unrestricted(Before(f, g))

\* In a tree that shallow neither the levels of the query nor the turns of the loop
\* run out before the way does.
LEMMA TurnsSuffice ==
  ASSUME WayFacts, Shallow, NEW f, NEW g \in Above(f)
  PROVE  Turn(f, g) < MaxDepth /\ Depth(g) <= MaxDepth - Turn(f, g)
<1>1. f \in Live /\ Depth(f) <= MaxDepth
  BY DEF WayFacts, Inside, Shallow
<1>2. Depth(g) >= 1 /\ Depth(f) \in Nat /\ Depth(g) \in Nat
  BY DEF WayFacts, Levels
<1>3. MaxDepth \in Nat
  BY TreeAssumption
<1> QED
  BY <1>1, <1>2, <1>3 DEF Turn

\* So the query form does not depend on its number of levels.
LEMMA AudienceIs ==
  ASSUME WayFacts, Shallow, NEW x, NEW m \in BOOLEAN, NEW f
  PROVE  folderAudience(x, m, TRUE, f, MaxDepth) <=> Admits(x, m, f)
<1>1. ASSUME NEW g \in Above(f)
      PROVE  /\ Turn(f, g) < MaxDepth
             /\ openToRoot(g, MaxDepth - Turn(f, g)) <=> Unrestricted(Above(g) \ {g})
  BY TurnsSuffice, <1>1 DEF openToRoot
<1> QED
  BY <1>1 DEF folderAudience, Admits, Lets

\* Roles are roles, of whoever, and holding one is having it.
LEMMA RoleIs ==
  ASSUME TypeOK, NEW x, NEW t \in Things
  PROVE  RoleOf(x, t) \in Roles
BY DEF TypeOK, RoleOf, Roles

LEMMA HoldsIs ==
  ASSUME TypeOK, NEW x, NEW t \in Things
  PROVE  /\ Holds(x, t, TRUE) <=> RoleOf(x, t) = "ADMIN"
         /\ Holds(x, t, FALSE) <=> RoleOf(x, t) # "NONE"
<1>1. RoleOf(x, t) \in {"NONE", "COMMENTATOR", "ADMIN"}
  BY RoleIs DEF Roles
<1> QED
  BY <1>1 DEF Holds

\* The two forms of the project's access agree.
LEMMA ProjectTwin ==
  ASSUME TypeOK, NEW x, NEW pr \in {Root, There}
  PROVE  /\ checkProjectAccess(x, pr).hasAccess = projectAudience(x, FALSE, pr)
         /\ checkProjectAccess(x, pr).canEdit = projectAudience(x, TRUE, pr)
         /\ checkProjectAccess(x, pr) =
              [hasAccess |-> projectAudience(x, FALSE, pr), canEdit |-> projectAudience(x, TRUE, pr)]
<1>1. pr \in Things /\ Workspace \in Things
  BY DEF Things
<1>2. /\ Holds(x, pr, TRUE) <=> RoleOf(x, pr) = "ADMIN"
      /\ Holds(x, pr, FALSE) <=> RoleOf(x, pr) # "NONE"
      /\ Holds(x, Workspace, TRUE) <=> RoleOf(x, Workspace) = "ADMIN"
      /\ Holds(x, Workspace, FALSE) <=> RoleOf(x, Workspace) # "NONE"
  BY <1>1, HoldsIs
<1>3. RoleOf(x, Workspace) \in {"NONE", "COMMENTATOR", "ADMIN"}
  BY <1>1, RoleIs DEF Roles
<1>4. /\ workspaceRole(x) # "NONE" <=> x = Owner \/ RoleOf(x, Workspace) # "NONE"
      /\ workspaceRole(x) \in {"ADMIN", "OWNER"} <=> x = Owner \/ RoleOf(x, Workspace) = "ADMIN"
  BY <1>3 DEF workspaceRole
<1>5. /\ checkProjectAccess(x, pr).hasAccess <=> projectAudience(x, FALSE, pr)
      /\ checkProjectAccess(x, pr).canEdit <=> projectAudience(x, TRUE, pr)
  BY <1>2, <1>4 DEF checkProjectAccess, projectAudience
<1>6. /\ checkProjectAccess(x, pr).hasAccess \in BOOLEAN
      /\ checkProjectAccess(x, pr).canEdit \in BOOLEAN
      /\ projectAudience(x, FALSE, pr) \in BOOLEAN
      /\ projectAudience(x, TRUE, pr) \in BOOLEAN
      /\ checkProjectAccess(x, pr) = [hasAccess |-> checkProjectAccess(x, pr).hasAccess,
                                      canEdit |-> checkProjectAccess(x, pr).canEdit]
  BY DEF checkProjectAccess, projectAudience
<1> QED
  BY <1>5, <1>6

\* Who may edit a project sees it.
LEMMA EditsMore ==
  ASSUME NEW x, NEW pr, projectAudience(x, TRUE, pr)
  PROVE  projectAudience(x, FALSE, pr) /\ paid
BY DEF projectAudience, Holds

\* The right to edit a folder, in the query form.
LEMMA FolderRights ==
  ASSUME TypeOK, NEW a, a # Guest, NEW d \in Live \cup {Root, There}
  PROVE  checkFolderAccess(a, d).canEdit <=>
           IF d \in {Root, There} THEN projectAudience(a, TRUE, d)
                                  ELSE visibleFolder(a, TRUE, TRUE, d)
<1>1. CASE d \in {Root, There}
  <2>1. checkFolderAccess(a, d) = checkProjectAccess(a, d)
    BY <1>1 DEF checkFolderAccess
  <2> QED
    BY <1>1, <2>1, ProjectTwin
<1>2. CASE d \notin {Root, There}
  <2>1. /\ checkProjectAccess(a, Root).canEdit = projectAudience(a, TRUE, Root)
    BY ProjectTwin
  <2>2. d # There
    BY <1>2
  <2>3. CASE projectAudience(a, TRUE, Root)
    <3>1. checkFolderAccess(a, d) = checkProjectAccess(a, Root)
      BY <2>1, <2>2, <2>3 DEF checkFolderAccess
    <3>2. visibleFolder(a, TRUE, TRUE, d)
      BY <2>3, EditsMore DEF visibleFolder
    <3> QED
      BY <1>2, <2>1, <2>3, <3>1, <3>2
  <2>4. CASE ~ projectAudience(a, TRUE, Root)
    <3>1. checkFolderAccess(a, d).canEdit = (a # Guest /\ visibleFolder(a, TRUE, TRUE, d))
      BY <1>2, <2>1, <2>2, <2>4 DEF checkFolderAccess
    <3> QED
      BY <1>2, <3>1
  <2> QED
    BY <2>3, <2>4
<1> QED
  BY <1>1, <1>2

-----------------------------------------------------------------------------
(* The walk: it comes to what the query asks of.                           *)

\* The folders where x is an admin, which end the walk.
Stops(x) == {h \in Folders : RoleOf(x, h) = "ADMIN"}

LEMMA LiveThings == Live \subseteq Things /\ Live \subseteq Folders
BY DEF Live, Things

\* What lies between f and g shrinks as g comes nearer.
LEMMA Between ==
  ASSUME WayFacts, NEW f, NEW g \in Above(f), NEW h \in Above(f), g \in Above(h)
  PROVE  Before(f, h) \subseteq Before(f, g)
BY DEF WayFacts, Up, Before

\* The walk comes to every folder no restriction hides, or to an admin's folder before.
LEMMA Comes ==
  ASSUME WayFacts, Shallow, NEW x, NEW f, NEW g \in Above(f), Unrestricted(Before(f, g))
  PROVE  g \in comesTo(x, f, 0) \/ \E h \in comesTo(x, f, 0) : RoleOf(x, h) = "ADMIN"
<1>0. Above(f) \subseteq Folders
  BY LiveThings DEF WayFacts, Inside
<1>1. \A h \in Above(f) : 0 + Turn(f, h) < MaxDepth
  <2>1. \A h \in Above(f) : Turn(f, h) < MaxDepth
    BY TurnsSuffice
  <2>2. \A h \in Above(f) : 0 + Turn(f, h) = Turn(f, h)
    BY DEF WayFacts, Levels, Turn
  <2> QED
    BY <2>1, <2>2
<1>2. CASE Before(f, g) \cap Stops(x) = {}
  BY <1>0, <1>1, <1>2 DEF comesTo, Stops, Before, Unrestricted
<1>3. CASE Before(f, g) \cap Stops(x) # {}
  <2>1. Above(f) \cap Stops(x) # {}
    BY <1>3 DEF Before
  <2>2. PICK h \in Above(f) \cap Stops(x) : (Above(f) \ Above(h)) \cap Stops(x) = {}
    BY <2>1 DEF WayFacts, Nearest
  <2>3. g \in Above(h)
    <3>1. CASE g \in Above(h)
      BY <3>1
    <3>2. CASE h \in Above(g)
      <4>1. Above(h) \subseteq Above(g)
        BY <3>2 DEF WayFacts, Up
      <4> QED
        BY <1>3, <2>2, <4>1 DEF Before
    <3> QED
      BY <2>2, <3>1, <3>2 DEF WayFacts, Line
  <2>4. Before(f, h) \subseteq Before(f, g)
    BY <2>2, <2>3, Between
  <2>5. \A k \in Before(f, h) : RoleOf(x, k) # "ADMIN" /\ mode[k] # "RESTRICTED"
    <3>1. \A k \in Before(f, h) : mode[k] # "RESTRICTED"
      BY <2>4 DEF Unrestricted
    <3>2. \A k \in Before(f, h) : k \notin Stops(x) /\ k \in Folders
      BY <1>0, <2>2 DEF Before
    <3> QED
      BY <3>1, <3>2 DEF Stops
  <2>6. h \in comesTo(x, f, 0)
    BY <1>1, <2>2, <2>5 DEF comesTo
  <2> QED
    BY <2>2, <2>6 DEF Stops
<1> QED
  BY <1>2, <1>3

\* It comes to no other.
LEMMA SeenIs ==
  ASSUME NEW x, NEW f, NEW g \in comesTo(x, f, 0)
  PROVE  g \in Above(f) /\ Unrestricted(Before(f, g))
BY DEF comesTo, Unrestricted

\* The walk lets x edit exactly what the query does, project editors apart.
LEMMA WalkEdits ==
  ASSUME TypeOK, WayFacts, Shallow, NEW x, NEW f, NEW member \in BOOLEAN,
         ~ projectAudience(x, TRUE, Root)
  PROVE  Walk(x, f, 0, member, FALSE).canEdit <=> Admits(x, TRUE, f)
<1>1. Walk(x, f, 0, member, FALSE).canEdit = (\E g \in comesTo(x, f, 0) : RoleOf(x, g) = "ADMIN")
  BY DEF Walk
<1>2. \A g \in Above(f) : g \in Things
  BY LiveThings DEF WayFacts, Inside
<1>3. \A g \in Above(f) : Holds(x, g, TRUE) <=> RoleOf(x, g) = "ADMIN"
  BY <1>2, HoldsIs
<1>4. Admits(x, TRUE, f) <=> \E g \in Above(f) : RoleOf(x, g) = "ADMIN" /\ Unrestricted(Before(f, g))
  BY <1>3 DEF Admits, Lets
<1>5. ASSUME NEW g \in comesTo(x, f, 0), RoleOf(x, g) = "ADMIN"
      PROVE  Admits(x, TRUE, f)
  BY <1>4, <1>5, SeenIs
<1>6. ASSUME NEW g \in Above(f), RoleOf(x, g) = "ADMIN", Unrestricted(Before(f, g))
      PROVE  \E h \in comesTo(x, f, 0) : RoleOf(x, h) = "ADMIN"
  BY <1>6, Comes
<1> QED
  BY <1>1, <1>4, <1>5, <1>6

\* A way no folder of which is restricted.
LEMMA OpenWay ==
  ASSUME WayFacts, NEW f, NEW g \in Above(f), Unrestricted(Before(f, g)),
         mode[g] # "RESTRICTED", Unrestricted(Above(g) \ {g})
  PROVE  Unrestricted(Above(f))
BY DEF Unrestricted, Before

\* The way from a top folder is that folder.
LEMMA TopAlone ==
  ASSUME Names, WayFacts, NEW f, NEW g \in Above(f), parent[g] = Root
  PROVE  Above(g) = {g}
<1>1. g \in Live
  BY DEF WayFacts, Inside
<1>2. Root \notin Live
  BY DEF Names, Live
<1> QED
  BY <1>1, <1>2 DEF WayFacts, Inside, Step

\* The walk lets x see exactly what the query does.
LEMMA WalkSees ==
  ASSUME TypeOK, WayFacts, Shallow, NEW x, NEW f \in Live, NEW member \in BOOLEAN
  PROVE  Walk(x, f, 0, member, FALSE).hasAccess <=> member \/ Admits(x, FALSE, f)
<1> DEFINE seen == comesTo(x, f, 0)
           goesOn(g) == RoleOf(x, g) # "ADMIN" /\ mode[g] # "RESTRICTED"
           far == \E g \in seen : goesOn(g) /\ parent[g] = Root
           pub == \E g \in seen : mode[g] = "PUBLIC"
           held == \E g \in seen : RoleOf(x, g) # "NONE"
<1>1. Walk(x, f, 0, member, FALSE).hasAccess
        <=> member \/ held \/ (far /\ (pub \/ projectAudience(x, FALSE, Root)))
  <2>1. checkProjectAccess(x, Root).hasAccess = projectAudience(x, FALSE, Root)
    BY ProjectTwin
  <2> QED
    BY <2>1 DEF Walk
<1>2. \A g \in Above(f) : g \in Things
  BY LiveThings DEF WayFacts, Inside
<1>3. \A g \in Above(f) : Holds(x, g, FALSE) <=> RoleOf(x, g) # "NONE"
  BY <1>2, HoldsIs
<1>4. Names
  BY LiveNames
<1>5. held => Admits(x, FALSE, f)
  BY <1>3, SeenIs DEF Admits, Lets
<1>6. far => Unrestricted(Above(f))
  <2>1. SUFFICES ASSUME NEW g \in seen, goesOn(g), parent[g] = Root
                 PROVE  Unrestricted(Above(f))
    OBVIOUS
  <2>2. g \in Above(f) /\ Unrestricted(Before(f, g)) /\ Above(g) = {g}
    BY <1>4, <2>1, SeenIs, TopAlone
  <2> QED
    BY <2>1, <2>2 DEF Unrestricted, Before
<1>7. far /\ pub => Admits(x, FALSE, f)
  <2>1. SUFFICES ASSUME far, NEW g \in seen, mode[g] = "PUBLIC"
                 PROVE  Admits(x, FALSE, f)
    OBVIOUS
  <2>2. g \in Above(f) /\ Unrestricted(Before(f, g)) /\ Unrestricted(Above(f))
    BY <1>6, <2>1, SeenIs
  <2>3. Unrestricted(Above(g) \ {g})
    BY <2>2 DEF Unrestricted, WayFacts, Up
  <2> QED
    BY <2>1, <2>2, <2>3 DEF Admits, Lets
<1>8. far /\ projectAudience(x, FALSE, Root) => Admits(x, FALSE, f)
  <2>1. SUFFICES ASSUME projectAudience(x, FALSE, Root), NEW g \in seen, goesOn(g), parent[g] = Root
                 PROVE  Admits(x, FALSE, f)
    OBVIOUS
  <2>2. g \in Above(f) /\ Unrestricted(Before(f, g))
    BY <2>1, SeenIs
  <2> QED
    BY <2>1, <2>2 DEF Admits, Lets
<1>9. ASSUME Unrestricted(Above(f))
      PROVE  held \/ far
  <2>1. PICK t \in Above(f) : parent[t] = Root
    BY DEF WayFacts, Top
  <2>2. Unrestricted(Before(f, t)) /\ mode[t] # "RESTRICTED"
    BY <1>9, <2>1 DEF Unrestricted, Before
  <2>3. t \in seen \/ \E h \in seen : RoleOf(x, h) = "ADMIN"
    BY <2>1, <2>2, Comes
  <2> QED
    BY <2>1, <2>2, <2>3
<1>10. ASSUME NEW g \in Above(f), Lets(x, FALSE, g), Unrestricted(Before(f, g))
       PROVE  held \/ (far /\ (pub \/ projectAudience(x, FALSE, Root)))
  <2>1. g \in seen \/ held
    <3>1. g \in seen \/ \E h \in seen : RoleOf(x, h) = "ADMIN"
      BY <1>10, Comes
    <3> QED
      BY <3>1
  <2>2. CASE Holds(x, g, FALSE)
    BY <1>3, <2>1, <2>2
  <2>3. CASE mode[g] = "PUBLIC" /\ Unrestricted(Above(g) \ {g})
    <3>1. Unrestricted(Above(f))
      BY <1>10, <2>3, OpenWay
    <3> QED
      BY <1>9, <2>1, <2>3, <3>1
  <2>4. CASE mode[g] # "RESTRICTED" /\ parent[g] = Root /\ projectAudience(x, FALSE, Root)
    <3>1. Above(g) = {g}
      BY <1>4, <2>4, TopAlone
    <3>2. Unrestricted(Above(f))
      BY <1>10, <2>4, <3>1 DEF Unrestricted, Before
    <3> QED
      BY <1>9, <2>4, <3>2
  <2> QED
    BY <1>10, <2>2, <2>3, <2>4 DEF Lets
<1> HIDE DEF held, far, pub
<1> QED
  BY <1>1, <1>5, <1>7, <1>8, <1>10 DEF Admits

-----------------------------------------------------------------------------
(* The two forms agree.                                                    *)

\* A file's visibility, with the ways written out.
LEMMA VideoIs ==
  ASSUME TypeOK, WayFacts, Shallow, NEW x, NEW m \in BOOLEAN, NEW v \in LiveVideos
  PROVE  visibleVideo(x, m, TRUE, v) <=>
           /\ paid
           /\ \/ projectAudience(x, TRUE, projectOf(v))
              \/ Holds(x, v, m)
              \/ /\ vmode[v] = "INHERIT"
                 /\ \/ at[v] \in {Root, There} /\ projectAudience(x, m, at[v])
                    \/ at[v] \in Live /\ Admits(x, m, at[v])
<1>1. at[v] \in Live \cup {Root, There}
  BY DEF TypeOK
<1>2. Live \cap {Root, There} = {}
  BY LiveNames DEF Names, Live
<1>3. folderAudience(x, m, TRUE, at[v], MaxDepth) <=> Admits(x, m, at[v])
  BY AudienceIs
<1> QED
  BY <1>1, <1>2, <1>3 DEF visibleVideo

\* A folder's visibility, likewise.
LEMMA FolderIs ==
  ASSUME WayFacts, Shallow, NEW x, NEW m \in BOOLEAN, NEW f
  PROVE  visibleFolder(x, m, TRUE, f) <=>
           paid /\ (projectAudience(x, TRUE, Root) \/ Admits(x, m, f))
BY AudienceIs DEF visibleFolder

\* A file's project goes with its place.
LEMMA VideoThing ==
  ASSUME TypeOK, NEW v \in LiveVideos
  PROVE  /\ v \in Things /\ projectOf(v) \in {Root, There}
         /\ at[v] \in Live => projectOf(v) = Root
         /\ at[v] \in {Root, There} => projectOf(v) = at[v]
BY LiveNames DEF Things, LiveVideos, projectOf, Names, Live

\* checkVideoAccess and visibleVideoWhere agree on every file.
LEMMA Twins ==
  ASSUME TypeOK, WayFacts, Shallow, NEW x, NEW v \in LiveVideos
  PROVE  /\ checkVideoAccess(x, v).hasAccess <=> visibleVideo(x, FALSE, TRUE, v)
         /\ checkVideoAccess(x, v).canEdit <=> visibleVideo(x, TRUE, TRUE, v)
<1> DEFINE pr == projectOf(v)
           project == checkProjectAccess(x, pr)
           member == RoleOf(x, v) # "NONE"
           inherits == vmode[v] = "INHERIT" /\ RoleOf(x, v) # "ADMIN"
<1>1. /\ v \in Things /\ pr \in {Root, There}
      /\ at[v] \in Live => pr = Root
      /\ at[v] \in {Root, There} => pr = at[v]
  BY VideoThing
<1>2. /\ project.hasAccess = projectAudience(x, FALSE, pr)
      /\ project.canEdit = projectAudience(x, TRUE, pr)
  BY <1>1, ProjectTwin
<1>3. /\ Holds(x, v, TRUE) <=> RoleOf(x, v) = "ADMIN"
      /\ Holds(x, v, FALSE) <=> member
  BY <1>1, HoldsIs
<1>4a. visibleVideo(x, FALSE, TRUE, v) <=>
        /\ paid
        /\ \/ projectAudience(x, TRUE, pr)
           \/ member
           \/ /\ vmode[v] = "INHERIT"
              /\ \/ at[v] \in {Root, There} /\ projectAudience(x, FALSE, at[v])
                 \/ at[v] \in Live /\ Admits(x, FALSE, at[v])
  BY <1>3, VideoIs
<1>4b. visibleVideo(x, TRUE, TRUE, v) <=>
        /\ paid
        /\ \/ projectAudience(x, TRUE, pr)
           \/ RoleOf(x, v) = "ADMIN"
           \/ /\ vmode[v] = "INHERIT"
              /\ \/ at[v] \in {Root, There} /\ projectAudience(x, TRUE, at[v])
                 \/ at[v] \in Live /\ Admits(x, TRUE, at[v])
  BY <1>3, VideoIs
<1>5. CASE projectAudience(x, TRUE, pr)
  <2>1. checkVideoAccess(x, v) = project
    BY <1>2, <1>5 DEF checkVideoAccess
  <2> QED
    BY <1>2, <1>4a, <1>4b, <1>5, <2>1, EditsMore
<1>6. CASE ~ projectAudience(x, TRUE, pr) /\ ~ paid
  <2>1. checkVideoAccess(x, v) = [hasAccess |-> FALSE, canEdit |-> FALSE]
    BY <1>2, <1>6 DEF checkVideoAccess
  <2>2. ~ checkVideoAccess(x, v).hasAccess /\ ~ checkVideoAccess(x, v).canEdit
    BY <2>1
  <2> QED
    BY <1>4a, <1>4b, <1>6, <2>2, Zenon
<1>7. CASE ~ projectAudience(x, TRUE, pr) /\ paid /\ ~ inherits
  <2>1. checkVideoAccess(x, v) = [hasAccess |-> member, canEdit |-> RoleOf(x, v) = "ADMIN"]
    BY <1>2, <1>7 DEF checkVideoAccess
  <2>2. checkVideoAccess(x, v).hasAccess = member
        /\ checkVideoAccess(x, v).canEdit = (RoleOf(x, v) = "ADMIN")
    BY <2>1
  <2>3. RoleOf(x, v) = "ADMIN" => member
    OBVIOUS
  <2> QED
    BY <1>4a, <1>4b, <1>7, <2>2, <2>3, Zenon
<1>8. CASE ~ projectAudience(x, TRUE, pr) /\ paid /\ inherits /\ at[v] \in {Root, There}
  <2>1. checkVideoAccess(x, v) = [hasAccess |-> member \/ project.hasAccess, canEdit |-> FALSE]
    BY <1>2, <1>8 DEF checkVideoAccess
  <2>2. at[v] \notin Live
    BY <1>8, LiveNames DEF Names, Live
  <2>3. checkVideoAccess(x, v).hasAccess = (member \/ projectAudience(x, FALSE, pr))
        /\ checkVideoAccess(x, v).canEdit = FALSE
    BY <1>2, <2>1
  <2>4. at[v] = pr /\ RoleOf(x, v) # "ADMIN" /\ vmode[v] = "INHERIT"
    BY <1>1, <1>8
  <2> HIDE DEF member, pr
  <2> QED
    BY <1>4a, <1>4b, <1>8, <2>2, <2>3, <2>4, Zenon
<1>9. CASE ~ projectAudience(x, TRUE, pr) /\ paid /\ inherits /\ at[v] \notin {Root, There}
  <2>1. checkVideoAccess(x, v) = Walk(x, at[v], 0, member, FALSE)
    BY <1>2, <1>9 DEF checkVideoAccess
  <2>2. at[v] \in Live /\ pr = Root
    BY <1>1, <1>9 DEF TypeOK
  <2>3. Walk(x, at[v], 0, member, FALSE).hasAccess <=> member \/ Admits(x, FALSE, at[v])
    BY <2>2, WalkSees
  <2>4. Walk(x, at[v], 0, member, FALSE).canEdit <=> Admits(x, TRUE, at[v])
    BY <1>9, <2>2, WalkEdits
  <2> HIDE DEF member, pr
  <2> QED
    BY <1>3, <1>4a, <1>4b, <1>9, <2>1, <2>2, <2>3, <2>4
<1> QED
  BY <1>5, <1>6, <1>7, <1>8, <1>9

\* Which is the property the run checks.
LEMMA Agreement ==
  ASSUME TypeOK, WayFacts, Shallow
  PROVE  WalkMatchesQuery
<1> SUFFICES ASSUME NEW x \in People, NEW v \in LiveVideos
             PROVE  checkVideoAccess(x, v) = [hasAccess |-> visibleVideo(x, FALSE, TRUE, v),
                                              canEdit |-> visibleVideo(x, TRUE, TRUE, v)]
  BY DEF WalkMatchesQuery
<1>1. v \in Things /\ projectOf(v) \in {Root, There}
  BY VideoThing
<1>2. checkVideoAccess(x, v) = [hasAccess |-> checkVideoAccess(x, v).hasAccess,
                                canEdit |-> checkVideoAccess(x, v).canEdit]
  BY <1>1, ProjectTwin DEF checkVideoAccess, Walk
<1>3. checkVideoAccess(x, v).hasAccess \in BOOLEAN /\ checkVideoAccess(x, v).canEdit \in BOOLEAN
  <2>1. checkProjectAccess(x, projectOf(v)).hasAccess \in BOOLEAN
        /\ checkProjectAccess(x, projectOf(v)).canEdit \in BOOLEAN
    BY DEF checkProjectAccess
  <2> QED
    BY <2>1 DEF checkVideoAccess, Walk
<1>4. visibleVideo(x, FALSE, TRUE, v) \in BOOLEAN /\ visibleVideo(x, TRUE, TRUE, v) \in BOOLEAN
  BY DEF visibleVideo
<1> QED
  BY <1>2, <1>3, <1>4, Twins

-----------------------------------------------------------------------------
(* The operators of ContentTree say of the whole way at once what the code *)
(* decides folder by folder.  Here they are shown to satisfy the code's own *)
(* recursion: the nested query of folderAudience and openToRoot, and the   *)
(* loop of checkVideoAccess.                                               *)

\* The way on from the parent, seen from the folder and from the parent.
LEMMA ParentWay ==
  ASSUME WayFacts, NEW f \in Live, NEW g \in Above(parent[f])
  PROVE  /\ g \in Above(f) /\ g # f
         /\ Before(f, g) = {f} \cup Before(parent[f], g)
         /\ Turn(f, g) = Turn(parent[f], g) + 1 /\ Turn(parent[f], g) \in Nat
<1>1. Above(f) = {f} \cup Above(parent[f]) /\ f \notin Above(parent[f])
  BY DEF WayFacts, Step
<1>2. f \notin Above(g)
  BY <1>1 DEF WayFacts, Up
<1>3. Depth(f) = Depth(parent[f]) + 1 /\ Depth(g) <= Depth(parent[f])
      /\ Depth(f) \in Nat /\ Depth(g) \in Nat /\ Depth(parent[f]) \in Nat
  BY DEF WayFacts, Levels
<1>4. Turn(f, g) = Turn(parent[f], g) + 1 /\ Turn(parent[f], g) \in Nat
  BY <1>3 DEF Turn
<1> QED
  BY <1>1, <1>2, <1>4 DEF Before

\* A folder is no turn from itself.
LEMMA OwnWay ==
  ASSUME WayFacts, NEW f \in Live
  PROVE  f \in Above(f) /\ Before(f, f) = {} /\ Turn(f, f) = 0
         /\ \A g \in Above(f) : Turn(f, g) \in Nat
<1>1. f \in Above(f) /\ Depth(f) \in Nat
  BY DEF WayFacts, Inside, Levels
<1>2. \A g \in Above(f) : Depth(g) <= Depth(f) /\ Depth(g) \in Nat
  BY DEF WayFacts, Levels
<1> QED
  BY <1>1, <1>2 DEF Before, Turn

\* The nested query, level by level, as folderAudience builds it.
LEMMA AudienceUnrolls ==
  ASSUME Names, WayFacts, NEW x, NEW m \in BOOLEAN, NEW pub \in BOOLEAN,
         NEW f \in Live, NEW depth \in Int
  PROVE  folderAudience(x, m, pub, f, depth) <=>
           /\ depth > 0
           /\ \/ Holds(x, f, m)
              \/ ~m /\ pub /\ mode[f] = "PUBLIC" /\ openToRoot(f, depth)
              \/ /\ mode[f] # "RESTRICTED"
                 /\ IF parent[f] = Root THEN projectAudience(x, m, Root)
                    ELSE folderAudience(x, m, pub, parent[f], depth - 1)
<1> DEFINE lets(g, n) ==
             \/ Holds(x, g, m)
             \/ ~m /\ pub /\ mode[g] = "PUBLIC" /\ openToRoot(g, n)
             \/ mode[g] # "RESTRICTED" /\ parent[g] = Root /\ projectAudience(x, m, Root)
<1>1. \A e : \A n \in Int : folderAudience(x, m, pub, e, n) <=>
        \E g \in Above(e) : lets(g, n - Turn(e, g)) /\ Unrestricted(Before(e, g)) /\ Turn(e, g) < n
  BY DEF folderAudience
<1> HIDE DEF lets
<1>2. Above(f) = {f} \cup Above(parent[f])
  BY DEF WayFacts, Step
<1>3. f \in Above(f) /\ Before(f, f) = {} /\ Turn(f, f) = 0 /\ \A g \in Above(f) : Turn(f, g) \in Nat
  BY OwnWay
<1>4. ASSUME NEW g \in Above(parent[f])
      PROVE  /\ Unrestricted(Before(f, g)) <=> mode[f] # "RESTRICTED" /\ Unrestricted(Before(parent[f], g))
             /\ Turn(f, g) < depth <=> Turn(parent[f], g) < depth - 1
             /\ depth - Turn(f, g) = (depth - 1) - Turn(parent[f], g)
             /\ Turn(f, g) < depth => depth > 0
  <2>1. /\ Before(f, g) = {f} \cup Before(parent[f], g)
        /\ Turn(f, g) = Turn(parent[f], g) + 1 /\ Turn(parent[f], g) \in Nat
    BY ParentWay
  <2> QED
    BY <2>1 DEF Unrestricted
<1>5. lets(f, depth - Turn(f, f)) /\ Unrestricted(Before(f, f)) /\ Turn(f, f) < depth
        <=> lets(f, depth) /\ depth > 0
  <2>1. depth - 0 = depth
    OBVIOUS
  <2> QED
    BY <1>3, <2>1 DEF Unrestricted
<1>6. folderAudience(x, m, pub, f, depth) <=>
        depth > 0 /\ (lets(f, depth)
                      \/ (mode[f] # "RESTRICTED" /\ folderAudience(x, m, pub, parent[f], depth - 1)))
  <2>1. depth - 1 \in Int
    OBVIOUS
  <2>2. folderAudience(x, m, pub, parent[f], depth - 1) <=>
          \E g \in Above(parent[f]) :
            /\ lets(g, (depth - 1) - Turn(parent[f], g))
            /\ Unrestricted(Before(parent[f], g)) /\ Turn(parent[f], g) < depth - 1
    BY <1>1, <2>1
  <2>3. folderAudience(x, m, pub, f, depth) <=>
          \/ lets(f, depth) /\ depth > 0
          \/ \E g \in Above(parent[f]) :
               lets(g, depth - Turn(f, g)) /\ Unrestricted(Before(f, g)) /\ Turn(f, g) < depth
    BY <1>1, <1>2, <1>5
  <2>4. (\E g \in Above(parent[f]) :
           lets(g, depth - Turn(f, g)) /\ Unrestricted(Before(f, g)) /\ Turn(f, g) < depth)
        <=> depth > 0 /\ mode[f] # "RESTRICTED" /\ folderAudience(x, m, pub, parent[f], depth - 1)
    BY <1>4, <2>2
  <2> QED
    BY <2>3, <2>4
<1>7. parent[f] = Root => ~ folderAudience(x, m, pub, parent[f], depth - 1)
  BY DEF folderAudience, WayFacts, Inside, Names, Live
<1>8. lets(f, depth) <=>
        \/ Holds(x, f, m)
        \/ ~m /\ pub /\ mode[f] = "PUBLIC" /\ openToRoot(f, depth)
        \/ mode[f] # "RESTRICTED" /\ parent[f] = Root /\ projectAudience(x, m, Root)
  BY DEF lets
<1> QED
  BY <1>6, <1>7, <1>8

\* openToRoot is the query the code nests, level by level.
LEMMA OpenUnrolls ==
  ASSUME Names, WayFacts, NEW f \in Live, NEW depth \in Int
  PROVE  openToRoot(f, depth) <=>
           /\ depth > 0
           /\ parent[f] = Root \/ (mode[parent[f]] # "RESTRICTED" /\ openToRoot(parent[f], depth - 1))
<1>1. Above(f) \ {f} = Above(parent[f])
  BY DEF WayFacts, Step
<1>2. Depth(f) = Depth(parent[f]) + 1 /\ Depth(parent[f]) \in Nat
  BY DEF WayFacts, Levels
<1>3. CASE parent[f] = Root
  <2>1. Above(parent[f]) = {}
    BY <1>3 DEF WayFacts, Inside, Names, Live
  <2>2. Depth(parent[f]) = 0
    BY <2>1, FS_EmptySet DEF Depth
  <2> QED
    BY <1>1, <1>2, <1>3, <2>1, <2>2 DEF openToRoot, Unrestricted
<1>4. CASE parent[f] # Root
  <2>1. parent[f] \in Live /\ parent[f] \in Above(parent[f])
    BY <1>4 DEF Names, WayFacts, Inside
  <2>2. Depth(parent[f]) >= 1
    BY <2>1 DEF WayFacts, Levels
  <2>3. Unrestricted(Above(f) \ {f})
          <=> mode[parent[f]] # "RESTRICTED" /\ Unrestricted(Above(parent[f]) \ {parent[f]})
    BY <1>1, <2>1 DEF Unrestricted
  <2> QED
    BY <1>2, <1>4, <2>2, <2>3 DEF openToRoot
<1> QED
  BY <1>3, <1>4

\* The folders the loop looks at, one turn after the other.
LEMMA ComesUnrolls ==
  ASSUME WayFacts, NEW x, NEW f \in Live, NEW turn \in Nat
  PROVE  comesTo(x, f, turn) =
           IF turn >= MaxDepth THEN {}
           ELSE {f} \cup (IF RoleOf(x, f) # "ADMIN" /\ mode[f] # "RESTRICTED"
                          THEN comesTo(x, parent[f], turn + 1) ELSE {})
<1> DEFINE goesOn(h) == RoleOf(x, h) # "ADMIN" /\ mode[h] # "RESTRICTED"
<1>0. MaxDepth \in Nat
  BY TreeAssumption
<1>1. Above(f) = {f} \cup Above(parent[f])
  BY DEF WayFacts, Step
<1>2. f \in Above(f) /\ Before(f, f) = {} /\ Turn(f, f) = 0 /\ \A g \in Above(f) : Turn(f, g) \in Nat
  BY OwnWay
<1>3. \A e, n, g : g \in comesTo(x, e, n) <=>
        g \in Above(e) /\ (\A h \in Before(e, g) : goesOn(h)) /\ n + Turn(e, g) < MaxDepth
  BY DEF comesTo
<1> HIDE DEF goesOn
<1>4. \A g \in Above(f) : turn >= MaxDepth => ~ (turn + Turn(f, g) < MaxDepth)
  BY <1>0, <1>2
<1>5. f \in comesTo(x, f, turn) <=> turn < MaxDepth
  BY <1>0, <1>2, <1>3
<1>6. ASSUME NEW g \in Above(parent[f])
      PROVE  g \in comesTo(x, f, turn) <=> goesOn(f) /\ g \in comesTo(x, parent[f], turn + 1)
  <2>1. /\ g \in Above(f) /\ Before(f, g) = {f} \cup Before(parent[f], g)
        /\ Turn(f, g) = Turn(parent[f], g) + 1 /\ Turn(parent[f], g) \in Nat
    BY ParentWay
  <2>2. turn + Turn(f, g) < MaxDepth <=> (turn + 1) + Turn(parent[f], g) < MaxDepth
    BY <1>0, <2>1
  <2> QED
    BY <1>3, <1>6, <2>1, <2>2
<1>7. comesTo(x, parent[f], turn + 1) \subseteq Above(parent[f]) /\ comesTo(x, f, turn) \subseteq Above(f)
  BY <1>3
<1>8. goesOn(f) <=> RoleOf(x, f) # "ADMIN" /\ mode[f] # "RESTRICTED"
  BY DEF goesOn
<1>9. CASE turn >= MaxDepth
  <2>1. \A g : g \notin comesTo(x, f, turn)
    BY <1>3, <1>4, <1>9
  <2> QED
    BY <1>9, <2>1
<1>10. CASE ~ (turn >= MaxDepth)
  <2>1. f \in comesTo(x, f, turn)
    BY <1>0, <1>5, <1>10
  <2>2. CASE goesOn(f)
    <3>1. comesTo(x, f, turn) = {f} \cup comesTo(x, parent[f], turn + 1)
      BY <1>1, <1>6, <1>7, <2>1, <2>2
    <3> QED
      BY <1>8, <1>10, <2>2, <3>1
  <2>3. CASE ~ goesOn(f)
    <3>1. comesTo(x, f, turn) = {f}
      BY <1>1, <1>6, <1>7, <2>1, <2>3
    <3> QED
      BY <1>8, <1>10, <2>3, <3>1
  <2> QED
    BY <2>2, <2>3
<1> QED
  BY <1>9, <1>10

\* The loop of checkVideoAccess, one folder per turn.
LoopTurns ==
  \A x \in People, f \in Live, turn \in 0 .. MaxDepth :
  \A member, opened, here, wide \in BOOLEAN :
    here = (member \/ RoleOf(x, f) # "NONE") /\ wide = (opened \/ mode[f] = "PUBLIC") =>
      Walk(x, f, turn, member, opened) =
        IF turn = MaxDepth THEN [hasAccess |-> member, canEdit |-> FALSE]
        ELSE IF RoleOf(x, f) = "ADMIN" THEN [hasAccess |-> TRUE, canEdit |-> TRUE]
        ELSE IF mode[f] = "RESTRICTED" THEN [hasAccess |-> here, canEdit |-> FALSE]
        ELSE IF parent[f] = Root
             THEN [hasAccess |-> here \/ wide \/ checkProjectAccess(x, Root).hasAccess,
                   canEdit |-> FALSE]
        ELSE Walk(x, parent[f], turn + 1, here, wide)

\* The folders the walk comes to from f are f and those it comes to from f's parent.
LEMMA WalkUnrolls == TypeOK /\ NoLoop => LoopTurns
<1> USE DEF LoopTurns
<1> HAVE TypeOK /\ NoLoop
<1> TAKE x \in People, f \in Live, turn \in 0 .. MaxDepth
<1> TAKE member, opened, here, wide \in BOOLEAN
<1> HAVE here = (member \/ RoleOf(x, f) # "NONE") /\ wide = (opened \/ mode[f] = "PUBLIC")
<1> HIDE DEF LoopTurns
<1> DEFINE goesOn(g) == RoleOf(x, g) # "ADMIN" /\ mode[g] # "RESTRICTED"
           pa == checkProjectAccess(x, Root).hasAccess
           access(S, b, o) == \/ b \/ \E g \in S : RoleOf(x, g) # "NONE"
                              \/ /\ \E g \in S : goesOn(g) /\ parent[g] = Root
                                 /\ (o \/ \E g \in S : mode[g] = "PUBLIC") \/ pa
           edits(S) == \E g \in S : RoleOf(x, g) = "ADMIN"
           now == comesTo(x, f, turn)
           then == comesTo(x, parent[f], turn + 1)
<1>1. Names /\ WayFacts /\ MaxDepth \in Nat /\ turn \in Nat
  BY LiveNames, Ways, TreeAssumption
<1>2. now = IF turn >= MaxDepth THEN {}
            ELSE {f} \cup (IF goesOn(f) THEN then ELSE {})
  BY <1>1, ComesUnrolls
<1>3. /\ Walk(x, f, turn, member, opened)
           = [hasAccess |-> access(now, member, opened), canEdit |-> edits(now)]
      /\ Walk(x, parent[f], turn + 1, here, wide)
           = [hasAccess |-> access(then, here, wide), canEdit |-> edits(then)]
  BY DEF Walk
<1>4. RoleOf(x, f) \in {"NONE", "COMMENTATOR", "ADMIN"}
  BY RoleIs, LiveThings DEF Roles
<1>5. pa \in BOOLEAN
  BY DEF checkProjectAccess
<1> HIDE DEF pa, now, then
<1>6. CASE turn = MaxDepth
  <2>1. now = {}
    BY <1>1, <1>2, <1>6
  <2>2. access(now, member, opened) = member /\ edits(now) = FALSE
    BY <2>1
  <2> HIDE DEF access, edits
  <2> QED
    BY <1>3, <1>6, <2>2
<1>7. CASE turn # MaxDepth /\ ~ goesOn(f)
  <2>1. now = {f}
    BY <1>1, <1>2, <1>7
  <2>2. access(now, member, opened) = here
    BY <1>7, <2>1
  <2>3. edits(now) = (RoleOf(x, f) = "ADMIN")
    BY <2>1
  <2> HIDE DEF access, edits
  <2>4. CASE RoleOf(x, f) = "ADMIN"
    <3>1. here = TRUE
      BY <2>4
    <3>2. Walk(x, f, turn, member, opened) = [hasAccess |-> TRUE, canEdit |-> TRUE]
      BY <1>3, <2>2, <2>3, <2>4, <3>1
    <3> QED
      BY <1>7, <2>4, <3>2
  <2>5. CASE RoleOf(x, f) # "ADMIN"
    <3>1. Walk(x, f, turn, member, opened) = [hasAccess |-> here, canEdit |-> FALSE]
      BY <1>3, <2>2, <2>3, <2>5
    <3> QED
      BY <1>7, <2>5, <3>1
  <2> QED
    BY <2>4, <2>5
<1>8. CASE turn # MaxDepth /\ goesOn(f) /\ parent[f] = Root
  <2>1. then = {}
    BY <1>1, <1>8 DEF then, comesTo, WayFacts, Inside, Names, Live
  <2>2. now = {f}
    BY <1>1, <1>2, <1>8, <2>1
  <2>3. access(now, member, opened) = (here \/ wide \/ pa)
    <3>1. (\E g \in now : RoleOf(x, g) # "NONE") <=> RoleOf(x, f) # "NONE"
      BY <2>2
    <3>2. \E g \in now : goesOn(g) /\ parent[g] = Root
      BY <1>8, <2>2
    <3>3. (\E g \in now : mode[g] = "PUBLIC") <=> mode[f] = "PUBLIC"
      BY <2>2
    <3> QED
      BY <3>1, <3>2, <3>3
  <2>4. edits(now) = FALSE
    BY <1>8, <2>2
  <2> HIDE DEF access, edits
  <2>5. Walk(x, f, turn, member, opened) = [hasAccess |-> here \/ wide \/ pa, canEdit |-> FALSE]
    BY <1>3, <2>3, <2>4
  <2> QED
    BY <1>8, <2>5 DEF pa
<1>9. CASE turn # MaxDepth /\ goesOn(f) /\ parent[f] # Root
  <2>1. now = {f} \cup then
    BY <1>1, <1>2, <1>9
  <2>2. access(now, member, opened) = access(then, here, wide)
    <3>1. (\E g \in now : RoleOf(x, g) # "NONE")
            <=> RoleOf(x, f) # "NONE" \/ \E g \in then : RoleOf(x, g) # "NONE"
      BY <2>1
    <3>2. (\E g \in now : goesOn(g) /\ parent[g] = Root)
            <=> \E g \in then : goesOn(g) /\ parent[g] = Root
      BY <1>9, <2>1
    <3>3. (\E g \in now : mode[g] = "PUBLIC")
            <=> mode[f] = "PUBLIC" \/ \E g \in then : mode[g] = "PUBLIC"
      BY <2>1
    <3> QED
      BY <3>1, <3>2, <3>3
  <2>3. edits(now) = edits(then)
    BY <1>9, <2>1
  <2> HIDE DEF access, edits
  <2>4. Walk(x, f, turn, member, opened) = Walk(x, parent[f], turn + 1, here, wide)
    BY <1>3, <2>2, <2>3
  <2> QED
    BY <1>9, <2>4
<1> QED
  BY <1>6, <1>7, <1>8, <1>9

-----------------------------------------------------------------------------
(* Type correctness.                                                       *)

\* The names of nothing are the names of no thing.
LEMMA NoneNames == Root # None /\ There # None /\ None \notin Folders /\ None \notin Videos
                   /\ "INHERIT" \in Modes /\ "NONE" \in Roles
BY TreeAssumption DEF Modes, Roles

\* An empty project has its types.
LEMMA TypeInit == Init => TypeOK
<1> SUFFICES ASSUME Init
             PROVE  TypeOK
  OBVIOUS
<1>1. Live = {} /\ LiveVideos = {}
  BY DEF Init, Live, LiveVideos
<1>2. \A u \in Users, t \in Things : role[u][t] = "NONE"
  BY DEF Init
<1>3. role \in [Users -> [Things -> Roles]]
  BY NoneNames DEF Init
<1>4. public \in BOOLEAN /\ paid \in BOOLEAN /\ link \in [Videos -> BOOLEAN]
  BY DEF Init
<1>5. /\ parent \in [Folders -> Folders \cup {Root, None}]
      /\ mode \in [Folders -> Modes]
      /\ at \in [Videos -> Folders \cup {Root, There, None}]
      /\ vmode \in [Videos -> Modes \ {"PUBLIC"}]
  BY NoneNames DEF Init
<1> QED
  BY <1>1, <1>2, <1>3, <1>4, <1>5 DEF TypeOK

\* Roles after the rows of T are gone.
LEMMA Forgotten ==
  ASSUME TypeOK, NEW T, Forget(T)
  PROVE  /\ role' \in [Users -> [Things -> Roles]]
         /\ \A u \in Users, t \in Things : role'[u][t] # "NONE" => role'[u][t] = role[u][t] /\ t \notin T
BY NoneNames DEF TypeOK, Forget

\* Revoking leaves links only outside F and V, and makes none.
LEMMA Revoked ==
  ASSUME TypeOK, NEW F, NEW V, RevokeLinks(F, V)
  PROVE  /\ link' \in [Videos -> BOOLEAN]
         /\ \A v \in Videos : link'[v] => link[v] /\ v \notin V /\ at[v] \notin F
BY DEF TypeOK, RevokeLinks

\* Closing public folders leaves modes.
LEMMA ClosedModes ==
  ASSUME TypeOK, NEW F
  PROVE  ClosedPublic(F) \in [Folders -> Modes]
BY NoneNames DEF TypeOK, ClosedPublic

\* Each operation keeps the types, and no row refers to what it removes.
LEMMA TypeCreateFolder ==
  ASSUME TypeOK, NEW a, NEW f \in Folders, NEW d \in Live \cup {Root}, CreateFolder(a, f, d)
  PROVE  TypeOK'
<1>1. /\ parent' = [parent EXCEPT ![f] = d] /\ parent[f] = None
      /\ UNCHANGED <<mode, at, vmode, link, role, public, paid>>
  BY DEF CreateFolder
<1>2. parent' \in [Folders -> Folders \cup {Root, None}] /\ Live' = Live \cup {f} /\ LiveVideos' = LiveVideos
  BY <1>1, NoneNames DEF TypeOK, Live, LiveVideos
<1>3. \A g \in Live' : parent'[g] \in Live' \cup {Root}
  BY <1>1, <1>2 DEF TypeOK
<1> QED
  BY <1>1, <1>2, <1>3 DEF TypeOK

LEMMA TypeDeleteFolder ==
  ASSUME TypeOK, NEW a, NEW f \in Live, DeleteFolder(a, f)
  PROVE  TypeOK'
<1>1. /\ parent' = [parent EXCEPT ![f] = None] /\ mode' = [mode EXCEPT ![f] = "INHERIT"]
      /\ Forget({f}) /\ UNCHANGED <<at, vmode, link, public, paid>>
      /\ \A g \in Live : parent[g] # f
      /\ \A v \in LiveVideos : at[v] # f
  BY DEF DeleteFolder
<1>2. /\ parent' \in [Folders -> Folders \cup {Root, None}] /\ mode' \in [Folders -> Modes]
      /\ Live' = Live \ {f} /\ LiveVideos' = LiveVideos
  BY <1>1, NoneNames DEF TypeOK, Live, LiveVideos
<1>3. \A g \in Live' : parent'[g] \in Live' \cup {Root}
  BY <1>1, <1>2 DEF TypeOK
<1>4. \A v \in LiveVideos' : at'[v] \in Live' \cup {Root, There}
  BY <1>1, <1>2 DEF TypeOK
<1>5. /\ role' \in [Users -> [Things -> Roles]]
      /\ \A u \in Users, t \in Things : role'[u][t] # "NONE" => role'[u][t] = role[u][t] /\ t \notin {f}
  BY <1>1, Forgotten
<1>6. \A u \in Users, t \in Things :
        role'[u][t] # "NONE" => t \in Live' \cup LiveVideos' \cup {Root, There, Workspace}
  BY <1>2, <1>5 DEF TypeOK
<1> QED
  BY <1>1, <1>2, <1>3, <1>4, <1>5, <1>6 DEF TypeOK

LEMMA TypeSetFolderAccess ==
  ASSUME TypeOK, NEW a, NEW f \in Live, NEW m \in Modes, SetFolderAccess(a, f, m)
  PROVE  TypeOK'
<1>1. UNCHANGED <<parent, at, vmode, role, public, paid>>
  BY DEF SetFolderAccess
<1>2. PICK F : mode' = [ClosedPublic(F) EXCEPT ![f] = m]
  BY DEF SetFolderAccess
<1>3. mode' \in [Folders -> Modes]
  BY <1>2, ClosedModes
<1>4. link' \in [Videos -> BOOLEAN]
  BY Revoked DEF SetFolderAccess, TypeOK
<1>5. Live' = Live /\ LiveVideos' = LiveVideos
  BY <1>1 DEF Live, LiveVideos
<1> QED
  BY <1>1, <1>3, <1>4, <1>5 DEF TypeOK

LEMMA TypeMoveFolder ==
  ASSUME TypeOK, NEW a, NEW f \in Live, NEW d \in Live \cup {Root}, MoveFolder(a, f, d)
  PROVE  TypeOK'
<1>1. /\ parent' = [parent EXCEPT ![f] = d] /\ RevokeLinks(folderSubtree(f), {})
      /\ UNCHANGED <<at, vmode, role, public, paid>>
  BY DEF MoveFolder, Relocate
<1>2. mode' \in [Folders -> Modes]
  BY ClosedModes DEF MoveFolder
<1>3. link' \in [Videos -> BOOLEAN]
  BY <1>1, Revoked
<1>4. parent' \in [Folders -> Folders \cup {Root, None}] /\ Live' = Live /\ LiveVideos' = LiveVideos
  BY <1>1, NoneNames DEF TypeOK, Live, LiveVideos
<1>5. \A g \in Live' : parent'[g] \in Live' \cup {Root}
  BY <1>1, <1>4 DEF TypeOK
<1> QED
  BY <1>1, <1>2, <1>3, <1>4, <1>5 DEF TypeOK

LEMMA TypeSetVideoAccess ==
  ASSUME TypeOK, NEW a, NEW v \in LiveVideos, NEW m \in Modes \ {"PUBLIC"}, SetVideoAccess(a, v, m)
  PROVE  TypeOK'
<1>1. /\ vmode' = [vmode EXCEPT ![v] = m] /\ RevokeLinks({}, {v})
      /\ UNCHANGED <<parent, mode, at, role, public, paid>>
  BY DEF SetVideoAccess
<1>2. link' \in [Videos -> BOOLEAN]
  BY <1>1, Revoked
<1>3. Live' = Live /\ LiveVideos' = LiveVideos
  BY <1>1 DEF Live, LiveVideos
<1> QED
  BY <1>1, <1>2, <1>3 DEF TypeOK

LEMMA TypeMoveVideos ==
  ASSUME TypeOK, NEW a, NEW V \in SUBSET LiveVideos, NEW d \in Live \cup {Root, There},
         MoveVideos(a, V, d)
  PROVE  TypeOK'
<1>1. /\ at' = [v \in Videos |-> IF v \in V THEN d ELSE at[v]] /\ RevokeLinks({}, V)
      /\ UNCHANGED <<parent, mode, vmode, role, public, paid>>
  BY DEF MoveVideos
<1>2. link' \in [Videos -> BOOLEAN]
  BY <1>1, Revoked
<1>3. Live' = Live /\ Live \subseteq Folders
  BY <1>1 DEF Live
<1>4. d # None
  BY <1>3, NoneNames
<1>5. at' \in [Videos -> Folders \cup {Root, There, None}] /\ LiveVideos' = LiveVideos
  BY <1>1, <1>3, <1>4 DEF TypeOK, LiveVideos
<1>6. \A v \in LiveVideos' : at'[v] \in Live' \cup {Root, There}
  BY <1>1, <1>3, <1>5 DEF TypeOK, LiveVideos
<1> QED
  BY <1>1, <1>2, <1>3, <1>5, <1>6 DEF TypeOK

LEMMA TypeCreateVideo ==
  ASSUME TypeOK, NEW a, NEW v \in Videos, NEW d \in Live \cup {Root, There}, CreateVideo(a, v, d)
  PROVE  TypeOK'
<1>1. at' = [at EXCEPT ![v] = d] /\ UNCHANGED <<parent, mode, vmode, link, role, public, paid>>
  BY DEF CreateVideo
<1>2. Live' = Live /\ Live \subseteq Folders
  BY <1>1 DEF Live
<1>3. d # None
  BY <1>2, NoneNames
<1>4. at' \in [Videos -> Folders \cup {Root, There, None}] /\ LiveVideos' = LiveVideos \cup {v}
  BY <1>1, <1>2, <1>3 DEF TypeOK, LiveVideos
<1>5. \A w \in LiveVideos' : at'[w] \in Live' \cup {Root, There}
  BY <1>1, <1>2, <1>4 DEF TypeOK, LiveVideos
<1> QED
  BY <1>1, <1>2, <1>4, <1>5 DEF TypeOK

LEMMA TypeDeleteVideos ==
  ASSUME TypeOK, NEW a, NEW V \in SUBSET LiveVideos, DeleteVideos(a, V)
  PROVE  TypeOK'
<1>1. /\ at' = [v \in Videos |-> IF v \in V THEN None ELSE at[v]]
      /\ vmode' = [v \in Videos |-> IF v \in V THEN "INHERIT" ELSE vmode[v]]
      /\ RevokeLinks({}, V) /\ Forget(V) /\ UNCHANGED <<parent, mode, public, paid>>
  BY DEF DeleteVideos
<1>2. link' \in [Videos -> BOOLEAN]
  BY <1>1, Revoked
<1>3. Live' = Live
  BY <1>1 DEF Live
<1>4. at' \in [Videos -> Folders \cup {Root, There, None}] /\ LiveVideos' = LiveVideos \ V
  BY <1>1 DEF TypeOK, LiveVideos
<1>5. \A w \in LiveVideos' : at'[w] \in Live' \cup {Root, There}
  BY <1>1, <1>3, <1>4 DEF TypeOK, LiveVideos
<1>6. vmode' \in [Videos -> Modes \ {"PUBLIC"}]
  BY <1>1, NoneNames DEF TypeOK
<1>7. /\ role' \in [Users -> [Things -> Roles]]
      /\ \A u \in Users, t \in Things : role'[u][t] # "NONE" => role'[u][t] = role[u][t] /\ t \notin V
  BY <1>1, Forgotten
<1>8. \A u \in Users, t \in Things :
        role'[u][t] # "NONE" => t \in Live' \cup LiveVideos' \cup {Root, There, Workspace}
  BY <1>3, <1>4, <1>7 DEF TypeOK
<1> QED
  BY <1>1, <1>2, <1>3, <1>4, <1>5, <1>6, <1>7, <1>8 DEF TypeOK

\* Steps that change one role only.
LEMMA TypeRole ==
  ASSUME TypeOK, NEW u \in Users, NEW t \in Live \cup LiveVideos \cup {Root, There, Workspace},
         NEW r \in Roles, role' = [role EXCEPT ![u][t] = r],
         UNCHANGED <<parent, mode, at, vmode, link, public, paid>>
  PROVE  TypeOK'
<1>1. Live' = Live /\ LiveVideos' = LiveVideos /\ t \in Things
  BY DEF Live, LiveVideos, Things
<1>2. role' \in [Users -> [Things -> Roles]]
  BY <1>1 DEF TypeOK
<1>3. \A w \in Users, s \in Things : role'[w][s] = role[w][s] \/ (s = t)
  BY <1>1 DEF TypeOK
<1> QED
  BY <1>1, <1>2, <1>3 DEF TypeOK

\* So does every operation on the content, and every step.
LEMMA TypeContent ==
  ASSUME TypeOK, NEW a, Content(a)
  PROVE  TypeOK'
<1>1. ASSUME NEW v \in LiveVideos, Share(a, v) \/ Unshare(a, v)
      PROVE  TypeOK'
  <2>1. UNCHANGED <<parent, mode, at, vmode, role, public, paid>> /\ link' \in [Videos -> BOOLEAN]
    BY <1>1 DEF Share, Unshare, TypeOK
  <2> QED
    BY <2>1 DEF TypeOK, Live, LiveVideos
<1>2. ASSUME NEW u \in Users, NEW t \in Live \cup LiveVideos, RevokeMember(a, u, t)
      PROVE  TypeOK'
  BY <1>2, TypeRole, NoneNames DEF RevokeMember
<1>3. ASSUME SetVisibility(a)
      PROVE  TypeOK'
  <2>1. UNCHANGED <<parent, mode, at, vmode, link, role, paid>> /\ public' \in BOOLEAN
    BY <1>3 DEF SetVisibility, TypeOK
  <2> QED
    BY <2>1 DEF TypeOK, Live, LiveVideos
<1> QED
  BY <1>1, <1>2, <1>3, TypeCreateFolder, TypeDeleteFolder, TypeSetFolderAccess, TypeMoveFolder,
     TypeSetVideoAccess, TypeMoveVideos, TypeCreateVideo, TypeDeleteVideos DEF Content

LEMMA TypeStep == TypeOK /\ [Next]_vars => TypeOK'
<1> SUFFICES ASSUME TypeOK, [Next]_vars
             PROVE  TypeOK'
  OBVIOUS
<1>1. CASE \E a \in Actors : Content(a)
  BY <1>1, TypeContent
<1>2. ASSUME NEW u \in Users, NEW t \in Live \cup LiveVideos \cup {Root, There, Workspace},
             NEW r \in Roles \ {"NONE"}, Join(u, t, r)
      PROVE  TypeOK'
  BY <1>2, TypeRole DEF Join
<1>3. ASSUME NEW u \in Users, NEW t \in {Root, There, Workspace}, Leave(u, t)
      PROVE  TypeOK'
  BY <1>3, TypeRole, NoneNames DEF Leave
<1>4. CASE Billing \/ UNCHANGED vars
  <2>1. UNCHANGED <<parent, mode, at, vmode, link, role, public>> /\ paid' \in BOOLEAN
    BY <1>4 DEF Billing, vars, TypeOK
  <2> QED
    BY <2>1 DEF TypeOK, Live, LiveVideos
<1> QED
  BY <1>1, <1>2, <1>3, <1>4 DEF Next

-----------------------------------------------------------------------------
(* Ways before and after a step.                                           *)

\* The ways before a step and after it, in a form the temporal prover can carry over.
LEMMA WaysExist ==
  Names /\ NoLoop => \E a : /\ IsWay(Folders, parent, a) /\ Tree(Folders, parent)
                            /\ \A d \in Live : Above(d) = a[d]
                            /\ \A d : d \notin Live => Above(d) = {}
BY WaysAre

LEMMA NextWaysExist ==
  ASSUME Names', NoLoop'
  PROVE  \E a : /\ IsWay(Folders, parent', a) /\ Tree(Folders, parent')
                /\ \A d \in Live' : Above(d)' = a[d]
                /\ \A d : d \notin Live' => Above(d)' = {}
<1>1. (Names /\ NoLoop)' => (\E a : /\ IsWay(Folders, parent, a) /\ Tree(Folders, parent)
                                    /\ \A d \in Live : Above(d) = a[d]
                                    /\ \A d : d \notin Live => Above(d) = {})'
  BY WaysExist, PTL
<1> QED
  BY <1>1

\* A way is what it was when its folders keep their parents.
LEMMA SameWays ==
  ASSUME Names, NoLoop, Names', NoLoop', NEW d \in Live,
         \A h \in Above(d) : parent'[h] = parent[h]
  PROVE  d \in Live' /\ Above(d)' = Above(d)
<1>1. PICK a : /\ IsWay(Folders, parent, a) /\ Tree(Folders, parent)
               /\ \A e \in Live : Above(e) = a[e]
               /\ \A e : e \notin Live => Above(e) = {}
  BY WaysAre
<1>2. PICK b : /\ IsWay(Folders, parent', b) /\ Tree(Folders, parent')
               /\ \A e \in Live' : Above(e)' = b[e]
               /\ \A e : e \notin Live' => Above(e)' = {}
  BY NextWaysExist
<1>3. d \in Live' /\ d \in Folders
  BY InsideHolds DEF Inside, Live
<1>4. b[d] = a[d]
  BY <1>1, <1>2, <1>3, WaySame
<1> QED
  BY <1>1, <1>2, <1>3, <1>4

\* A move changes the ways through the moved folder and no others.
LEMMA MovedWays ==
  ASSUME TypeOK, NoLoop, Names', NoLoop', NEW f \in Live, NEW d \in Live \cup {Root},
         f \notin Above(d), parent' = [parent EXCEPT ![f] = d]
  PROVE  /\ Live' = Live
         /\ \A h \in Live : f \notin Above(h) => Above(h)' = Above(h)
         /\ Above(d)' = Above(d)
         /\ Above(f)' = {f} \cup Above(d)
         /\ \A h \in Live : f \in Above(h) => Above(h)' = (Above(h) \ Above(f)) \cup Above(f)'
<1>0. Names /\ Inside
  BY LiveNames, InsideHolds
<1>1. PICK a : /\ IsWay(Folders, parent, a) /\ Tree(Folders, parent)
               /\ \A e \in Live : Above(e) = a[e]
               /\ \A e : e \notin Live => Above(e) = {}
  BY <1>0, WaysAre
<1>2. PICK b : /\ IsWay(Folders, parent', b) /\ Tree(Folders, parent')
               /\ \A e \in Live' : Above(e)' = b[e]
               /\ \A e : e \notin Live' => Above(e)' = {}
  BY NextWaysExist
<1>3. Live' = Live /\ Live \subseteq Folders
  BY NoneNames DEF TypeOK, Live
<1>4. \A h \in Folders \ {f} : parent'[h] = parent[h]
  BY DEF TypeOK
<1>5. \A h \in Live : f \notin Above(h) => Above(h)' = Above(h)
  <2>1. SUFFICES ASSUME NEW h \in Live, f \notin Above(h)
                 PROVE  Above(h)' = Above(h)
    OBVIOUS
  <2>2. \A k \in Above(h) : parent'[k] = parent[k]
    BY <1>0, <1>3, <1>4, <2>1 DEF Inside
  <2> QED
    BY <1>0, <2>2, SameWays
<1>6. Above(d)' = Above(d)
  <2>1. CASE d \in Live
    BY <1>5, <2>1
  <2>2. CASE d \notin Live
    BY <1>1, <1>2, <1>3, <2>2
  <2> QED
    BY <2>1, <2>2
<1>7. Above(f)' = {f} \cup Above(d)
  <2>1. parent'[f] = d /\ f \in Folders
    BY <1>3 DEF TypeOK
  <2>2. b[f] = {f} \cup (IF d \in Folders THEN b[d] ELSE {})
    BY <1>2, <2>1 DEF IsWay
  <2>3. CASE d \in Live
    BY <1>2, <1>3, <1>6, <2>2, <2>3
  <2>4. CASE d \notin Live
    <3>1. d \notin Folders /\ Above(d) = {}
      BY <1>0, <1>1, <2>4 DEF Names
    <3> QED
      BY <1>2, <1>3, <2>2, <3>1
  <2> QED
    BY <2>3, <2>4
<1>8. \A h \in Folders : f \in a[h] => b[h] = (a[h] \ a[f]) \cup b[f]
  <2>1. IsWay(Folders, parent, a) /\ Tree(Folders, parent) /\ IsWay(Folders, parent', b)
    BY <1>1, <1>2
  <2>2. f \in Folders
    BY <1>3
  <2> QED
    BY ONLY <1>4, <2>1, <2>2, WayMoved
<1> QED
  BY <1>1, <1>2, <1>3, <1>5, <1>6, <1>7, <1>8

-----------------------------------------------------------------------------
(* The inductive invariant.  That a move closes no loop and that restricting *)
(* finds every public folder below needs the tree to be one; that the walk *)
(* and the query agree needs it to be no deeper than the limit; a folder that *)
(* is created where one was deleted must not inherit its mode.             *)

\* A folder that does not exist has the mode a new one gets.
Blank == \A f \in Folders : f \notin Live => mode[f] = "INHERIT"
\* A file that does not exist has no link.
Linked == \A v \in Videos : link[v] => at[v] # None
\* The inductive invariant.
TreeInv == /\ TypeOK /\ NoLoop /\ Shallow /\ Blank /\ Linked /\ PublicIsOpen

\* An empty project satisfies it.
LEMMA TreeInit == Init => TreeInv
<1> SUFFICES ASSUME Init
             PROVE  TreeInv
  OBVIOUS
<1>1. TypeOK
  BY TypeInit
<1>2. Live = {} /\ \A f \in Folders : parent[f] \notin Folders
  BY NoneNames DEF Init, Live
<1>3. NoLoop
  BY <1>2 DEF NoLoop, Tree
<1> QED
  BY <1>1, <1>2, <1>3 DEF TreeInv, Shallow, Blank, Linked, PublicIsOpen, Init

-----------------------------------------------------------------------------

\* A new folder closes no loop, nor does a deletion or a move that asks first.
LEMMA LoopCreate ==
  ASSUME TypeOK, NoLoop, NEW f \in Folders, NEW d \in Live \cup {Root}, parent[f] = None,
         parent' = [parent EXCEPT ![f] = d]
  PROVE  NoLoop'
<1> SUFFICES ASSUME NEW S \in SUBSET Folders, S # {}, \A g \in S : parent'[g] \in S
             PROVE  FALSE
  BY DEF NoLoop, Tree
<1>1. /\ parent'[f] = d /\ \A g \in Folders \ {f} : parent'[g] = parent[g]
      /\ d # f /\ f # Root /\ f \notin Live
  BY NoneNames, LiveNames DEF TypeOK, Live, Names
<1>2. PICK g \in S : g # f
  BY <1>1
<1>3. S \ {f} \in SUBSET Folders /\ S \ {f} # {}
  BY <1>2
<1>4. PICK h \in S \ {f} : parent[h] \notin S \ {f}
  BY <1>3 DEF NoLoop, Tree
<1>5. h \in Folders /\ parent[h] \in S /\ parent[h] = f
  BY <1>1, <1>4
<1>6. h \in Live
  BY <1>5, NoneNames DEF Live
<1> QED
  BY <1>1, <1>5, <1>6 DEF TypeOK

LEMMA LoopDelete ==
  ASSUME TypeOK, NoLoop, NEW f \in Folders, parent' = [parent EXCEPT ![f] = None]
  PROVE  NoLoop'
<1> SUFFICES ASSUME NEW S \in SUBSET Folders, S # {}, \A g \in S : parent'[g] \in S
             PROVE  FALSE
  BY DEF NoLoop, Tree
<1>1. parent'[f] = None /\ \A g \in Folders \ {f} : parent'[g] = parent[g]
  BY DEF TypeOK
<1>2. f \notin S
  BY <1>1, NoneNames
<1> QED
  BY <1>1, <1>2 DEF NoLoop, Tree

LEMMA LoopMove ==
  ASSUME TypeOK, NoLoop, NEW f \in Live, NEW d \in Live \cup {Root}, f \notin Above(d),
         parent' = [parent EXCEPT ![f] = d]
  PROVE  NoLoop'
<1> SUFFICES ASSUME NEW S \in SUBSET Folders, S # {}, \A g \in S : parent'[g] \in S
             PROVE  FALSE
  BY DEF NoLoop, Tree
<1>0. Names /\ WayFacts
  BY LiveNames, Ways
<1>1. parent'[f] = d /\ \A g \in Folders \ {f} : parent'[g] = parent[g]
  BY DEF TypeOK, Live
<1>2. f \in S
  BY <1>1 DEF NoLoop, Tree
<1>3. d \in S /\ d \in Live
  BY <1>0, <1>1, <1>2 DEF Names
<1>4. d \in S \cap Above(d)
  BY <1>0, <1>3 DEF WayFacts, Inside
<1>5. PICK g \in S \cap Above(d) : parent[g] \notin S \cap Above(d)
  BY <1>4 DEF NoLoop, Tree
<1>6. g # f /\ g \in Folders /\ parent[g] \in S /\ g \in Live
  BY <1>0, <1>1, <1>5 DEF WayFacts, Inside
<1>7. parent[g] \in Live
  BY <1>0, <1>6 DEF Names
<1>8. parent[g] \in Above(g)
  BY <1>0, <1>6, <1>7 DEF WayFacts, Step, Inside
<1> QED
  BY <1>0, <1>5, <1>6, <1>8 DEF WayFacts, Up

-----------------------------------------------------------------------------

\* The facts about ways hold after a step when they hold of its tree.
LEMMA WaysNext == (Names /\ NoLoop)' => WayFacts'
BY Ways, PTL

LEMMA NamesNext == TypeOK' => Names'
BY LiveNames, PTL

\* What the steps that change the tree do to the ways, in one place.
LEMMA CreateWays ==
  ASSUME TypeOK, NoLoop, NEW f \in Folders, NEW d \in Live \cup {Root}, parent[f] = None,
         parent' = [parent EXCEPT ![f] = d], TypeOK', NoLoop'
  PROVE  /\ Live' = Live \cup {f} /\ f \notin Live
         /\ \A h \in Live : Above(h)' = Above(h)
         /\ Above(d)' = Above(d)
         /\ Above(f)' = {f} \cup Above(d) /\ f \notin Above(d)
<1>1. Names /\ WayFacts /\ Names' /\ WayFacts'
  BY LiveNames, Ways, NamesNext, WaysNext
<1>2. Live' = Live \cup {f} /\ f \notin Live /\ \A h \in Live : parent'[h] = parent[h]
  BY NoneNames DEF TypeOK, Live
<1>3. \A h \in Live : Above(h)' = Above(h)
  BY <1>1, <1>2, SameWays DEF WayFacts, Inside
<1>4. Above(d)' = Above(d)
  <2>1. CASE d = Root
    <3>1. Root \notin Live /\ Root \notin Live'
      BY <1>1 DEF Names, Live
    <3> QED
      BY <1>1, <2>1, <3>1 DEF WayFacts, Inside
  <2> QED
    BY <1>3, <2>1
<1>5. f \notin Above(d)
  BY <1>1, <1>2 DEF WayFacts, Inside
<1>6. Above(f)' = {f} \cup Above(d)'
  <2>1. PICK b : /\ IsWay(Folders, parent', b) /\ Tree(Folders, parent')
                 /\ \A e \in Live' : Above(e)' = b[e]
                 /\ \A e : e \notin Live' => Above(e)' = {}
    BY <1>1, NextWaysExist
  <2>2. parent'[f] = d
    BY DEF TypeOK
  <2>3. b[f] = {f} \cup (IF d \in Folders THEN b[d] ELSE {})
    BY <2>1, <2>2 DEF IsWay
  <2>4. CASE d \in Live
    BY <1>2, <2>1, <2>3, <2>4 DEF Live
  <2>5. CASE d = Root
    <3>1. Root \notin Folders /\ Root \notin Live'
      BY <1>1 DEF Names, Live
    <3> QED
      BY <1>2, <2>1, <2>3, <2>5, <3>1
  <2> QED
    BY <2>4, <2>5
<1> QED
  BY <1>2, <1>3, <1>4, <1>5, <1>6

\* A deletion changes no other folder's way.
LEMMA DeleteWays ==
  ASSUME TypeOK, NoLoop, NEW f \in Live, \A g \in Live : parent[g] # f,
         parent' = [parent EXCEPT ![f] = None], TypeOK', NoLoop'
  PROVE  /\ Live' = Live \ {f}
         /\ \A h \in Live' : Above(h)' = Above(h) /\ f \notin Above(h)
<1>1. Names /\ WayFacts /\ Names' /\ WayFacts'
  BY LiveNames, Ways, NamesNext, WaysNext
<1>2. Live' = Live \ {f} /\ \A h \in Live' : parent'[h] = parent[h]
  BY NoneNames DEF TypeOK, Live
<1>3. \A h \in Live' : f \notin Above(h)
  BY <1>1, <1>2 DEF WayFacts, ByParent, Inside
<1>4. ASSUME NEW h \in Live'
      PROVE  Above(h)' = Above(h)
  <2>1. \A k \in Above(h) : parent'[k] = parent[k]
    BY <1>1, <1>2, <1>3 DEF WayFacts, Inside
  <2> QED
    BY <1>1, <1>2, <2>1, SameWays
<1> QED
  BY <1>2, <1>3, <1>4

\* Neither does a step that leaves the folders where they are.
LEMMA QuietWays ==
  ASSUME TypeOK, NoLoop, parent' = parent, TypeOK', NoLoop'
  PROVE  Live' = Live /\ \A h : Above(h)' = Above(h)
<1>1. Names /\ WayFacts /\ Names' /\ WayFacts'
  BY LiveNames, Ways, NamesNext, WaysNext
<1>2. Live' = Live
  BY DEF Live
<1>3. \A h \in Live : Above(h)' = Above(h)
  BY <1>1, SameWays
<1> QED
  BY <1>1, <1>2, <1>3 DEF WayFacts, Inside

\* PublicIsOpen without the parent: nothing restricted above a public folder.
LEMMA OpenIs ==
  Names /\ WayFacts =>
    (PublicIsOpen <=> \A f \in Live : mode[f] = "PUBLIC" => Unrestricted(Above(f) \ {f}))
<1> SUFFICES ASSUME Names, WayFacts
             PROVE  \A f \in Live : ~hasRestrictedAncestor(f) <=> Unrestricted(Above(f) \ {f})
  BY DEF PublicIsOpen
<1>1. \A f \in Live : Above(parent[f]) = Above(f) \ {f}
  BY DEF WayFacts, Step
<1> QED
  BY <1>1 DEF hasRestrictedAncestor, Enclosed

\* The same after a step.
LEMMA OpenNext ==
  ASSUME Names', WayFacts', \A f \in Live' : mode'[f] = "PUBLIC" => Unrestricted(Above(f) \ {f})'
  PROVE  PublicIsOpen'
<1>1. (Names /\ WayFacts)' => (PublicIsOpen <=>
         \A f \in Live : mode[f] = "PUBLIC" => Unrestricted(Above(f) \ {f}))'
  BY OpenIs, PTL
<1> QED
  BY <1>1

\* What is not in f's subtree does not lie below f.
LEMMA Below ==
  ASSUME NEW f, NEW d \in Live \cup {Root}, Names, WayFacts, d \notin folderSubtree(f)
  PROVE  f \notin Above(d)
BY DEF folderSubtree, Names, WayFacts, Inside

\* A move that the trigger's depth check lets pass leaves the tree shallow.
LEMMA MoveShallow ==
  ASSUME TreeInv, TypeOK', NoLoop', NEW f \in Live, NEW d \in Live \cup {Root}, f \notin Above(d),
         parent' = [parent EXCEPT ![f] = d],
         \A g \in folderSubtree(f) : Depth(d) + Depth(g) - Depth(f) < MaxDepth
  PROVE  Shallow'
<1>1. TypeOK /\ NoLoop /\ Shallow /\ Names /\ WayFacts /\ Names' /\ WayFacts'
  BY LiveNames, Ways, NamesNext, WaysNext DEF TreeInv
<1>2. /\ Live' = Live
      /\ \A h \in Live : f \notin Above(h) => Above(h)' = Above(h)
      /\ Above(f)' = {f} \cup Above(d)
      /\ \A h \in Live : f \in Above(h) => Above(h)' = (Above(h) \ Above(f)) \cup Above(f)'
  BY <1>1, MovedWays
<1>3. SUFFICES ASSUME NEW g \in Live
               PROVE  Cardinality(Above(g)') <= MaxDepth
  BY <1>2 DEF Shallow, Depth
<1>4. CASE f \notin Above(g)
  BY <1>1, <1>2, <1>4 DEF Shallow, Depth
<1>5. CASE f \in Above(g)
  <2> DEFINE upper == {f} \cup Above(d)
             lower == Above(g) \ Above(f)
  <2>1. Depth(d) + Depth(g) - Depth(f) < MaxDepth
    BY <1>5 DEF folderSubtree
  <2>2. /\ IsFiniteSet(Above(g)) /\ IsFiniteSet(Above(d))
        /\ Depth(g) \in Nat /\ Depth(f) \in Nat /\ Depth(d) \in Nat
    BY <1>1 DEF WayFacts, Levels
  <2>3. Above(g) \cap Above(f) = Above(f)
    BY <1>1, <1>5 DEF WayFacts, Up
  <2>4. IsFiniteSet(lower) /\ Cardinality(lower) = Depth(g) - Depth(f)
    BY <2>2, <2>3, FS_Difference DEF Depth
  <2>5. IsFiniteSet(upper) /\ Cardinality(upper) = Depth(d) + 1
    <3>1. upper = Above(d) \cup {f}
      OBVIOUS
    <3> QED
      BY <2>2, <3>1, FS_AddElement DEF Depth
  <2>6. Above(g)' = lower \cup upper
    BY <1>2, <1>5
  <2> HIDE DEF lower, upper
  <2>7. Cardinality(lower \cup upper) <= Cardinality(lower) + Cardinality(upper)
    <3>1. IsFiniteSet(lower \cap upper)
      <4>1. lower \cap upper \in SUBSET lower
        OBVIOUS
      <4> QED
        BY <2>4, <4>1, FS_Subset
    <3>2. Cardinality(lower \cap upper) \in Nat /\ Cardinality(lower) \in Nat /\ Cardinality(upper) \in Nat
      BY <2>4, <2>5, <3>1, FS_CardinalityType
    <3>3. Cardinality(lower \cup upper)
            = Cardinality(lower) + Cardinality(upper) - Cardinality(lower \cap upper)
      BY <2>4, <2>5, FS_Union
    <3> QED
      BY <3>2, <3>3
  <2>8. IsFiniteSet(lower \cup upper)
    BY <2>4, <2>5, FS_Union
  <2>9. Cardinality(lower \cup upper) \in Nat
    BY <2>8, FS_CardinalityType
  <2>10. Cardinality(Above(g)') \in Nat /\ Cardinality(Above(g)') <= Depth(g) - Depth(f) + (Depth(d) + 1)
    BY <2>4, <2>5, <2>6, <2>7, <2>9
  <2>11. MaxDepth \in Nat
    BY TreeAssumption
  <2> QED
    BY <2>1, <2>2, <2>10, <2>11
<1> QED
  BY <1>4, <1>5

-----------------------------------------------------------------------------

\* Each operation that changes folders or modes keeps the invariant.
LEMMA InvCreateFolder ==
  ASSUME TreeInv, TypeOK', NEW a, NEW f \in Folders, NEW d \in Live \cup {Root}, CreateFolder(a, f, d)
  PROVE  TreeInv'
<1>1. /\ parent' = [parent EXCEPT ![f] = d] /\ parent[f] = None /\ Depth(d) < MaxDepth
      /\ UNCHANGED <<mode, at, vmode, link, role, public, paid>>
  BY DEF CreateFolder
<1>2. NoLoop'
  BY <1>1, LoopCreate DEF TreeInv
<1>3. Names /\ WayFacts /\ Names' /\ WayFacts'
  BY <1>2, LiveNames, Ways, NamesNext, WaysNext DEF TreeInv
<1>4. /\ Live' = Live \cup {f} /\ f \notin Live
      /\ \A h \in Live : Above(h)' = Above(h)
      /\ Above(f)' = {f} \cup Above(d) /\ f \notin Above(d)
  BY <1>1, <1>2, CreateWays DEF TreeInv
<1>5. Shallow'
  <2>1. SUFFICES ASSUME NEW g \in Live'
                 PROVE  Cardinality(Above(g)') <= MaxDepth
    BY DEF Shallow, Depth
  <2>2. CASE g \in Live
    BY <1>4, <2>2 DEF TreeInv, Shallow, Depth
  <2>3. CASE g = f
    <3>1. IsFiniteSet(Above(d)) /\ Depth(d) \in Nat
      BY <1>3 DEF WayFacts, Levels
    <3>2. Above(g)' = Above(d) \cup {f}
      BY <1>4, <2>3
    <3>3. Cardinality(Above(d) \cup {f}) = Depth(d) + 1
      BY <1>4, <3>1, FS_AddElement DEF Depth
    <3>4. MaxDepth \in Nat
      BY TreeAssumption
    <3> QED
      BY <1>1, <3>1, <3>2, <3>3, <3>4
  <2> QED
    BY <1>4, <2>2, <2>3
<1>6. Blank'
  BY <1>1, <1>4 DEF TreeInv, Blank
<1>7. Linked'
  BY <1>1 DEF TreeInv, Linked
<1>8. PublicIsOpen'
  <2>1. SUFFICES ASSUME NEW g \in Live', mode'[g] = "PUBLIC"
                 PROVE  Unrestricted(Above(g) \ {g})'
    BY <1>3, OpenNext
  <2>2. g \in Live
    BY <1>1, <1>4, <2>1 DEF TreeInv, Blank
  <2>3. Unrestricted(Above(g) \ {g})
    BY <1>1, <1>3, <2>1, <2>2, OpenIs DEF TreeInv
  <2> QED
    BY <1>1, <1>4, <2>2, <2>3 DEF Unrestricted
<1> QED
  BY <1>2, <1>5, <1>6, <1>7, <1>8 DEF TreeInv

LEMMA InvDeleteFolder ==
  ASSUME TreeInv, TypeOK', NEW a, NEW f \in Live, DeleteFolder(a, f)
  PROVE  TreeInv'
<1>1. /\ parent' = [parent EXCEPT ![f] = None] /\ mode' = [mode EXCEPT ![f] = "INHERIT"]
      /\ UNCHANGED <<at, vmode, link, public, paid>>
      /\ \A g \in Live : parent[g] # f
  BY DEF DeleteFolder
<1>2. NoLoop'
  BY <1>1, LoopDelete DEF TreeInv, Live
<1>3. Names /\ WayFacts /\ Names' /\ WayFacts'
  BY <1>2, LiveNames, Ways, NamesNext, WaysNext DEF TreeInv
<1>4. /\ Live' = Live \ {f}
      /\ \A h \in Live' : Above(h)' = Above(h) /\ f \notin Above(h)
  BY <1>1, <1>2, DeleteWays DEF TreeInv
<1>5. mode'[f] = "INHERIT" /\ \A g \in Folders \ {f} : mode'[g] = mode[g]
  BY <1>1 DEF TreeInv, TypeOK, Live
<1>6. Shallow'
  BY <1>4 DEF TreeInv, Shallow, Depth
<1>7. Blank'
  BY <1>4, <1>5 DEF TreeInv, Blank
<1>8. Linked'
  BY <1>1 DEF TreeInv, Linked
<1>9. PublicIsOpen'
  <2>1. SUFFICES ASSUME NEW g \in Live', mode'[g] = "PUBLIC"
                 PROVE  Unrestricted(Above(g) \ {g})'
    BY <1>3, OpenNext
  <2>2. g \in Live /\ mode[g] = "PUBLIC"
    BY <1>4, <1>5, <2>1 DEF Live
  <2>3. Unrestricted(Above(g) \ {g})
    BY <1>3, <2>2, OpenIs DEF TreeInv
  <2>4. \A h \in Above(g) : mode'[h] = mode[h]
    BY <1>3, <1>4, <1>5, <2>1, <2>2, LiveThings DEF WayFacts, Inside
  <2> QED
    BY <1>4, <2>1, <2>3, <2>4 DEF Unrestricted
<1> QED
  BY <1>2, <1>6, <1>7, <1>8, <1>9 DEF TreeInv

\* The modes after the public folders of F are closed.
LEMMA ClosedIs ==
  ASSUME NEW F, NEW g \in Folders
  PROVE  /\ ClosedPublic(F)[g] = "RESTRICTED" <=> mode[g] = "RESTRICTED"
         /\ ClosedPublic(F)[g] = "PUBLIC" <=> mode[g] = "PUBLIC" /\ g \notin F
         /\ g \notin F => ClosedPublic(F)[g] = mode[g]
         /\ mode[g] = "INHERIT" => ClosedPublic(F)[g] = "INHERIT"
BY DEF ClosedPublic

\* The modes after SetFolderAccess.
LEMMA SetModes ==
  ASSUME TypeOK, NEW a, NEW f \in Live, NEW m \in Modes, SetFolderAccess(a, f, m)
  PROVE  /\ mode'[f] = m
         /\ \A g \in Folders \ {f} : /\ mode'[g] = "RESTRICTED" <=> mode[g] = "RESTRICTED"
                                     /\ mode'[g] = "PUBLIC" => mode[g] = "PUBLIC"
                                     /\ mode[g] = "INHERIT" => mode'[g] = "INHERIT"
                                     /\ g \notin folderSubtree(f) => mode'[g] = mode[g]
                                     /\ m = "RESTRICTED" /\ g \in folderSubtree(f) => mode'[g] # "PUBLIC"
<1> DEFINE F == IF m = "RESTRICTED" THEN folderSubtree(f) \ {f} ELSE {}
<1>1. mode' = [ClosedPublic(F) EXCEPT ![f] = m]
  BY DEF SetFolderAccess
<1>2. ClosedPublic(F) \in [Folders -> Modes] /\ f \in Folders
  BY ClosedModes DEF Live
<1>3. mode'[f] = m /\ \A g \in Folders \ {f} : mode'[g] = ClosedPublic(F)[g]
  BY <1>1, <1>2
<1>4. \A g \in Folders : /\ ClosedPublic(F)[g] = "RESTRICTED" <=> mode[g] = "RESTRICTED"
                         /\ ClosedPublic(F)[g] = "PUBLIC" <=> mode[g] = "PUBLIC" /\ g \notin F
                         /\ g \notin F => ClosedPublic(F)[g] = mode[g]
                         /\ mode[g] = "INHERIT" => ClosedPublic(F)[g] = "INHERIT"
  BY ClosedIs
<1> QED
  BY <1>3, <1>4

\* Restricting a folder closes what is public below it.
LEMMA InvSetFolderAccess ==
  ASSUME TreeInv, TypeOK', NEW a, NEW f \in Live, NEW m \in Modes, SetFolderAccess(a, f, m)
  PROVE  TreeInv'
<1>1. UNCHANGED <<parent, at>> /\ (m = "PUBLIC" => ~hasRestrictedAncestor(f))
  BY DEF SetFolderAccess
<1>2. NoLoop'
  BY <1>1 DEF TreeInv, NoLoop
<1>3. Names /\ WayFacts /\ Names' /\ WayFacts'
  BY <1>2, LiveNames, Ways, NamesNext, WaysNext DEF TreeInv
<1>4. Live' = Live /\ \A h : Above(h)' = Above(h)
  BY <1>1, <1>2, QuietWays DEF TreeInv
<1>5. /\ mode'[f] = m
      /\ \A g \in Folders \ {f} : /\ mode'[g] = "RESTRICTED" <=> mode[g] = "RESTRICTED"
                                  /\ mode'[g] = "PUBLIC" => mode[g] = "PUBLIC"
                                  /\ mode[g] = "INHERIT" => mode'[g] = "INHERIT"
                                  /\ m = "RESTRICTED" /\ g \in folderSubtree(f) => mode'[g] # "PUBLIC"
  BY SetModes DEF TreeInv
<1>6. Shallow'
  BY <1>4 DEF TreeInv, Shallow, Depth
<1>7. Blank'
  BY <1>4, <1>5 DEF TreeInv, Blank
<1>8. Linked'
  BY <1>1, Revoked DEF TreeInv, Linked, SetFolderAccess
<1>9. PublicIsOpen'
  <2>1. SUFFICES ASSUME NEW g \in Live, mode'[g] = "PUBLIC", NEW h \in Above(g), h # g, mode'[h] = "RESTRICTED"
                 PROVE  FALSE
    BY <1>3, <1>4, OpenNext DEF Unrestricted
  <2>2. g \in Folders /\ h \in Folders /\ h \in Live
    BY <1>3, LiveThings DEF WayFacts, Inside
  <2>3. \A k \in Live : mode[k] = "PUBLIC" => Unrestricted(Above(k) \ {k})
    BY <1>3, OpenIs DEF TreeInv
  <2>4. CASE g = f
    <3>1. h \in Above(parent[f]) /\ mode[h] = "RESTRICTED"
      BY <1>3, <1>5, <2>1, <2>2, <2>4 DEF WayFacts, Step
    <3> QED
      BY <1>1, <1>5, <2>1, <2>4, <3>1 DEF hasRestrictedAncestor, Enclosed, Unrestricted
  <2>5. CASE g # f /\ h # f
    BY <1>5, <2>1, <2>2, <2>3, <2>5 DEF Unrestricted
  <2>6. CASE g # f /\ h = f
    <3>1. g \in folderSubtree(f)
      BY <2>1, <2>6 DEF folderSubtree
    <3> QED
      BY <1>5, <2>1, <2>2, <2>6, <3>1
  <2> QED
    BY <2>4, <2>5, <2>6
<1> QED
  BY <1>2, <1>6, <1>7, <1>8, <1>9 DEF TreeInv

\* A move below a restricted folder closes what is public in what is moved.
LEMMA InvMoveFolder ==
  ASSUME TreeInv, TypeOK', NEW a, NEW f \in Live, NEW d \in Live \cup {Root}, MoveFolder(a, f, d)
  PROVE  TreeInv'
<1>1. /\ parent' = [parent EXCEPT ![f] = d] /\ at' = at
      /\ d \notin folderSubtree(f) /\ RevokeLinks(folderSubtree(f), {})
      /\ \A g \in folderSubtree(f) : Depth(d) + Depth(g) - Depth(f) < MaxDepth
      /\ mode' = ClosedPublic(IF Enclosed(d) THEN folderSubtree(f) ELSE {})
  BY DEF MoveFolder, Relocate
<1>2. f \notin Above(d)
  BY <1>1, Below, LiveNames, Ways DEF TreeInv
<1>3. NoLoop'
  BY <1>1, <1>2, LoopMove DEF TreeInv
<1>4. Names /\ WayFacts /\ Names' /\ WayFacts'
  BY <1>3, LiveNames, Ways, NamesNext, WaysNext DEF TreeInv
<1>5. /\ Live' = Live
      /\ \A h \in Live : f \notin Above(h) => Above(h)' = Above(h)
      /\ Above(f)' = {f} \cup Above(d)
      /\ \A h \in Live : f \in Above(h) => Above(h)' = (Above(h) \ Above(f)) \cup Above(f)'
  BY <1>1, <1>2, <1>3, <1>4, MovedWays DEF TreeInv
<1>6. \A g \in Folders : /\ mode'[g] = "RESTRICTED" <=> mode[g] = "RESTRICTED"
                         /\ mode'[g] = "PUBLIC" => mode[g] = "PUBLIC"
                         /\ mode'[g] = "PUBLIC" /\ g \in folderSubtree(f) => ~ Enclosed(d)
                         /\ mode[g] = "INHERIT" => mode'[g] = "INHERIT"
  BY <1>1, ClosedIs
<1>7. Shallow'
  BY <1>1, <1>2, <1>3, MoveShallow
<1>8. Blank'
  BY <1>5, <1>6 DEF TreeInv, Blank
<1>9. Linked'
  BY <1>1, Revoked DEF TreeInv, Linked
<1>10. PublicIsOpen'
  <2>1. SUFFICES ASSUME NEW g \in Live, mode'[g] = "PUBLIC", NEW h \in Above(g)', h # g, mode'[h] = "RESTRICTED"
                 PROVE  FALSE
    BY <1>4, <1>5, OpenNext DEF Unrestricted
  <2>2. g \in Folders /\ h \in Folders
    BY <1>4, <1>5, LiveThings DEF WayFacts, Inside
  <2>3. Unrestricted(Above(g) \ {g})
    BY <1>4, <1>6, <2>1, <2>2, OpenIs DEF TreeInv
  <2>4. mode[h] = "RESTRICTED"
    BY <1>6, <2>1, <2>2
  <2>5. h \notin Above(g)
    BY <2>1, <2>3, <2>4 DEF Unrestricted
  <2>6. f \in Above(g)
    BY <1>5, <2>1, <2>5
  <2>7. h \in {f} \cup Above(d)
    BY <1>5, <2>1, <2>5, <2>6
  <2>8. h \in Above(d)
    BY <2>5, <2>6, <2>7
  <2>9. g \in folderSubtree(f)
    BY <2>6 DEF folderSubtree
  <2>10. Enclosed(d)
    BY <2>4, <2>8 DEF Enclosed, Unrestricted
  <2> QED
    BY <1>6, <2>1, <2>2, <2>9, <2>10
<1> QED
  BY <1>3, <1>7, <1>8, <1>9, <1>10 DEF TreeInv

\* A step that leaves folders and modes alone keeps the invariant.
LEMMA InvQuiet ==
  ASSUME TreeInv, TypeOK', UNCHANGED <<parent, mode>>, Linked'
  PROVE  TreeInv'
<1>1. NoLoop'
  BY DEF TreeInv, NoLoop
<1>2. Names /\ WayFacts /\ Names' /\ WayFacts'
  BY <1>1, LiveNames, Ways, NamesNext, WaysNext DEF TreeInv
<1>3. Live' = Live /\ \A h : Above(h)' = Above(h)
  BY <1>1, QuietWays DEF TreeInv
<1>4. Shallow' /\ Blank'
  BY <1>3 DEF TreeInv, Shallow, Blank, Depth
<1>5. PublicIsOpen'
  <2>1. SUFFICES ASSUME NEW g \in Live, mode[g] = "PUBLIC"
                 PROVE  Unrestricted(Above(g) \ {g})'
    BY <1>2, <1>3, OpenNext
  <2>2. Unrestricted(Above(g) \ {g})
    BY <1>2, <2>1, OpenIs DEF TreeInv
  <2> QED
    BY <1>3, <2>2 DEF Unrestricted
<1> QED
  BY <1>1, <1>4, <1>5 DEF TreeInv

\* Every operation keeps it, and every step.
LEMMA InvContent ==
  ASSUME TreeInv, TypeOK', NEW a, Content(a)
  PROVE  TreeInv'
<1>0. TypeOK /\ Linked
  BY DEF TreeInv
<1>1. ASSUME NEW v \in LiveVideos, NEW m \in Modes \ {"PUBLIC"}, SetVideoAccess(a, v, m)
      PROVE  TreeInv'
  <2>1. UNCHANGED <<parent, mode, at>> /\ RevokeLinks({}, {v})
    BY <1>1 DEF SetVideoAccess
  <2> QED
    BY <1>0, <2>1, InvQuiet, Revoked DEF Linked
<1>2. ASSUME NEW V \in SUBSET LiveVideos, NEW d \in Live \cup {Root, There}, MoveVideos(a, V, d)
      PROVE  TreeInv'
  <2>1. /\ UNCHANGED <<parent, mode>> /\ RevokeLinks({}, V)
        /\ at' = [v \in Videos |-> IF v \in V THEN d ELSE at[v]]
    BY <1>2 DEF MoveVideos
  <2>2. Linked'
    BY <1>0, <2>1, Revoked DEF Linked
  <2> QED
    BY <2>1, <2>2, InvQuiet
<1>3. ASSUME NEW v \in Videos, NEW d \in Live \cup {Root, There}, CreateVideo(a, v, d)
      PROVE  TreeInv'
  <2>1. UNCHANGED <<parent, mode, link>> /\ at' = [at EXCEPT ![v] = d] /\ at[v] = None
    BY <1>3 DEF CreateVideo
  <2>2. Linked'
    BY <1>0, <2>1 DEF Linked, TypeOK
  <2> QED
    BY <2>1, <2>2, InvQuiet
<1>4. ASSUME NEW V \in SUBSET LiveVideos, DeleteVideos(a, V)
      PROVE  TreeInv'
  <2>1. /\ UNCHANGED <<parent, mode>> /\ RevokeLinks({}, V)
        /\ at' = [v \in Videos |-> IF v \in V THEN None ELSE at[v]]
    BY <1>4 DEF DeleteVideos
  <2>2. Linked'
    BY <1>0, <2>1, Revoked DEF Linked
  <2> QED
    BY <2>1, <2>2, InvQuiet
<1>5. ASSUME NEW v \in LiveVideos, Share(a, v) \/ Unshare(a, v)
      PROVE  TreeInv'
  <2>1. UNCHANGED <<parent, mode, at>> /\ \A w \in Videos : w # v => link'[w] = link[w]
    BY <1>0, <1>5 DEF Share, Unshare, TypeOK
  <2>2. Linked'
    BY <1>0, <2>1 DEF Linked, LiveVideos
  <2> QED
    BY <2>1, <2>2, InvQuiet
<1>6. ASSUME UNCHANGED <<parent, mode, at, link>>
      PROVE  TreeInv'
  BY <1>0, <1>6, InvQuiet DEF Linked
<1>7. ASSUME NEW u \in Users, NEW t \in Live \cup LiveVideos, RevokeMember(a, u, t)
      PROVE  TreeInv'
  BY <1>6, <1>7 DEF RevokeMember
<1>8. ASSUME SetVisibility(a)
      PROVE  TreeInv'
  BY <1>6, <1>8 DEF SetVisibility
<1> QED
  BY <1>1, <1>2, <1>3, <1>4, <1>5, <1>7, <1>8, InvCreateFolder, InvDeleteFolder,
     InvSetFolderAccess, InvMoveFolder DEF Content

LEMMA TreeStep == TreeInv /\ [Next]_vars => TreeInv'
<1> SUFFICES ASSUME TreeInv, [Next]_vars
             PROVE  TreeInv'
  OBVIOUS
<1>1. TypeOK'
  BY TypeStep DEF TreeInv
<1>2. CASE \E a \in Actors : Content(a)
  BY <1>1, <1>2, InvContent
<1>3. ASSUME UNCHANGED <<parent, mode, at, link>>
      PROVE  TreeInv'
  BY <1>1, <1>3, InvQuiet DEF TreeInv, Linked
<1>4. ASSUME ~ \E a \in Actors : Content(a)
      PROVE  UNCHANGED <<parent, mode, at, link>>
  BY <1>4 DEF Next, Join, Leave, Billing, vars
<1> QED
  BY <1>2, <1>3, <1>4

\* The folders form a tree no deeper than the limit, its rows refer to rows that exist,
\* and nothing public lies below a restriction, whatever was created, moved, restricted
\* and deleted in which order (the folder routes and the depth trigger).
THEOREM TreeInvariant == Spec => []TreeInv
BY TreeInit, TreeStep, PTL DEF Spec

\* No operation leaves a folder, a file or a member's row pointing at what is gone.
THEOREM TreeTyped == Spec => []TypeOK
<1>1. TreeInv => TypeOK
  BY DEF TreeInv
<1> QED
  BY <1>1, TreeInvariant, PTL

\* No public folder lies below a restricted one, after any sequence of moves and changes
\* of access (hasRestrictedAncestor's checks and the closing of public descendants).
THEOREM PublicOpen == Spec => []PublicIsOpen
<1>1. TreeInv => PublicIsOpen
  BY DEF TreeInv
<1> QED
  BY <1>1, TreeInvariant, PTL

\* Opening a file and listing it are decided alike for everybody, in every tree the
\* operations can make (checkVideoAccess and visibleVideoWhere).
THEOREM WalkAgrees == Spec => []WalkMatchesQuery
<1>1. TreeInv => WalkMatchesQuery
  BY LiveNames, Ways, Agreement DEF TreeInv
<1> QED
  BY <1>1, TreeInvariant, PTL

\* The nested query, as folderAudience and openToRoot build it level by level.
QueryNests ==
  \A x \in People, f \in Live, depth \in Int, m, pub \in BOOLEAN :
    /\ folderAudience(x, m, pub, f, depth) <=>
         /\ depth > 0
         /\ \/ Holds(x, f, m)
            \/ ~m /\ pub /\ mode[f] = "PUBLIC" /\ openToRoot(f, depth)
            \/ /\ mode[f] # "RESTRICTED"
               /\ IF parent[f] = Root THEN projectAudience(x, m, Root)
                  ELSE folderAudience(x, m, pub, parent[f], depth - 1)
    /\ openToRoot(f, depth) <=>
         /\ depth > 0
         /\ \/ parent[f] = Root
            \/ mode[parent[f]] # "RESTRICTED" /\ openToRoot(parent[f], depth - 1)

\* In every tree the operations make, what ContentTree says of a folder's whole way is
\* what the code's nested query says of it (folderAudience, openToRoot).
THEOREM QueryAsNested == Spec => []QueryNests
<1>1. ASSUME TreeInv
      PROVE  QueryNests
  <2>1. Names /\ WayFacts
    BY <1>1, LiveNames, Ways DEF TreeInv
  <2>2. SUFFICES ASSUME NEW x \in People, NEW f \in Live, NEW depth \in Int,
                        NEW m \in BOOLEAN, NEW pub \in BOOLEAN
                 PROVE  /\ folderAudience(x, m, pub, f, depth) <=>
                             /\ depth > 0
                             /\ \/ Holds(x, f, m)
                                \/ ~m /\ pub /\ mode[f] = "PUBLIC" /\ openToRoot(f, depth)
                                \/ /\ mode[f] # "RESTRICTED"
                                   /\ IF parent[f] = Root THEN projectAudience(x, m, Root)
                                      ELSE folderAudience(x, m, pub, parent[f], depth - 1)
                        /\ openToRoot(f, depth) <=>
                             /\ depth > 0
                             /\ \/ parent[f] = Root
                                \/ /\ mode[parent[f]] # "RESTRICTED"
                                   /\ openToRoot(parent[f], depth - 1)
    BY DEF QueryNests
  <2>3. QED
    BY <2>1, AudienceUnrolls, OpenUnrolls
<1>2. QED
  BY <1>1, TreeInvariant, PTL

\* Likewise the walk to the root is what the code's loop finds, turn by turn
\* (checkVideoAccess).
THEOREM WalkAsLooped == Spec => []LoopTurns
<1>1. TreeInv => LoopTurns
  BY WalkUnrolls DEF TreeInv
<1>2. QED
  BY <1>1, TreeInvariant, PTL

-----------------------------------------------------------------------------
(* What a listing shows.                                                   *)

\* Whom a role admits where nobody else is let in.
LEMMA RoleOnWay ==
  ASSUME TypeOK, WayFacts, NEW x, NEW g, NEW depth,
         ~ projectAudience(x, FALSE, Root), folderAudience(x, FALSE, FALSE, g, depth)
  PROVE  \E h \in Above(g) : RoleOf(x, h) # "NONE"
<1>1. PICK h \in Above(g) : Holds(x, h, FALSE)
  BY DEF folderAudience
<1>2. h \in Things
  BY LiveThings DEF WayFacts, Inside
<1> QED
  BY <1>1, <1>2, HoldsIs

\* What is opened with a folder lies in the innermost public folder around it.
LEMMA OpenedInside ==
  ASSUME WayFacts, NEW x, NEW f \in Live, NEW p \in Above(f), mode[p] = "PUBLIC",
         NEW g \in openedSubtree(x, f)
  PROVE  g \in folderSubtree(p)
<1> DEFINE found == {h \in Above(f) : /\ Turn(f, h) < MaxDepth /\ mode[h] = "PUBLIC"
                                      /\ \A k \in Before(f, h) : mode[k] = "INHERIT"}
           q == publicListingRoot(f)
<1>1. q \in Above(f) /\ p \in Above(q)
  <2>1. CASE found = {}
    <3>1. q = f
      BY <2>1 DEF publicListingRoot
    <3> QED
      BY <3>1 DEF WayFacts, Inside
  <2>2. CASE found # {}
    <3>1. q = CHOOSE h \in found : TRUE
      BY <2>2 DEF publicListingRoot
    <3>2. q \in found
      BY <2>2, <3>1
    <3>3. p \notin Before(f, q)
      BY <3>2
    <3> QED
      BY <3>2, <3>3 DEF Before
  <2> QED
    BY <2>1, <2>2
<1>2. g \in folderSubtree(q)
  BY DEF openedSubtree
<1> HIDE DEF q
<1> QED
  BY <1>1, <1>2 DEF folderSubtree, WayFacts, Up

\* Nothing else is listed, roles apart.
LEMMA Listing ==
  ASSUME TypeOK, WayFacts
  PROVE  ListingStaysInside
<1> SUFFICES ASSUME NEW x, NEW f \in Live, ~ checkProjectAccess(x, Root).hasAccess,
                    NEW p \in Above(f), mode[p] = "PUBLIC"
             PROVE  /\ \A g \in listedFolders(x, f) :
                         g \in folderSubtree(p) \/ \E h \in Above(g) : RoleOf(x, h) # "NONE"
                    /\ \A v \in listedVideos(x, f) :
                         \/ at[v] \in folderSubtree(p)
                         \/ \E h \in {v} \cup Above(at[v]) : RoleOf(x, h) # "NONE"
  BY DEF ListingStaysInside
<1>1. ~ projectAudience(x, FALSE, Root) /\ ~ projectAudience(x, TRUE, Root)
  BY ProjectTwin, EditsMore
<1>2. checkProjectAccess(x, Root).hasAccess = FALSE
  BY DEF checkProjectAccess
<1>3. ASSUME NEW g \in listedFolders(x, f)
      PROVE  g \in folderSubtree(p) \/ \E h \in Above(g) : RoleOf(x, h) # "NONE"
  <2>1. visibleFolder(x, FALSE, FALSE, g) \/ g \in openedSubtree(x, f)
    BY <1>2, <1>3 DEF listedFolders
  <2>2. CASE visibleFolder(x, FALSE, FALSE, g)
    <3>1. folderAudience(x, FALSE, FALSE, g, MaxDepth)
      BY <1>1, <2>2 DEF visibleFolder
    <3> QED
      BY <1>1, <3>1, RoleOnWay
  <2>3. CASE g \in openedSubtree(x, f)
    BY <2>3, OpenedInside
  <2> QED
    BY <2>1, <2>2, <2>3
<1>4. ASSUME NEW v \in listedVideos(x, f)
      PROVE  \/ at[v] \in folderSubtree(p)
             \/ \E h \in {v} \cup Above(at[v]) : RoleOf(x, h) # "NONE"
  <2>1. v \in LiveVideos /\ projectOf(v) = Root
        /\ (visibleVideo(x, FALSE, FALSE, v) \/ at[v] \in openedSubtree(x, f))
    BY <1>2, <1>4 DEF listedVideos
  <2>2. CASE visibleVideo(x, FALSE, FALSE, v)
    <3>1. v \in Things /\ (at[v] \in {Root, There} => at[v] = Root)
      BY <2>1, VideoThing
    <3>2. Holds(x, v, FALSE) \/ folderAudience(x, FALSE, FALSE, at[v], MaxDepth)
      BY <1>1, <2>1, <2>2, <3>1 DEF visibleVideo
    <3>3. CASE Holds(x, v, FALSE)
      BY <3>1, <3>3, HoldsIs
    <3>4. CASE folderAudience(x, FALSE, FALSE, at[v], MaxDepth)
      BY <1>1, <3>4, RoleOnWay
    <3> QED
      BY <3>2, <3>3, <3>4
  <2>3. CASE at[v] \in openedSubtree(x, f)
    BY <2>3, OpenedInside
  <2> QED
    BY <2>1, <2>2, <2>3
<1> QED
  BY <1>3, <1>4

\* Who has no access to the project and opens a folder is shown nothing outside the
\* innermost public folder around it, unless a role admits them (the project page).
THEOREM ListingInside == Spec => []ListingStaysInside
<1>1. TreeInv => ListingStaysInside
  BY LiveNames, Ways, Listing DEF TreeInv
<1> QED
  BY <1>1, TreeInvariant, PTL

-----------------------------------------------------------------------------
(* Share links.                                                            *)

\* Boundary, with the place of the file named.
Edge(v, p) ==
  LET restricted == {g \in Above(p) : mode[g] = "RESTRICTED"}
  IN IF vmode[v] = "RESTRICTED" THEN {v}
     ELSE IF restricted = {} THEN {IF p = There THEN There ELSE Root}
     ELSE {g \in restricted : restricted \subseteq Above(g)}

\* That is what Boundary is, before a step and after it.
LEMMA EdgeIs == \A v, p : at[v] = p => Boundary(v) = Edge(v, p)
BY DEF Edge, Boundary, projectOf

LEMMA EdgeNext == \A v, p : at'[v] = p => Boundary(v)' = Edge(v, p)'
<1>1. (\A v, p : at[v] = p => Boundary(v) = Edge(v, p))'
  BY EdgeIs, PTL
<1> QED
  BY <1>1

\* A boundary is what it was when its way and its restrictions are.
LEMMA SameEdge ==
  ASSUME TypeOK, NoLoop, NEW v \in LiveVideos, at'[v] = at[v], vmode'[v] = vmode[v],
         \A h \in Above(at[v]) : mode'[h] = "RESTRICTED" <=> mode[h] = "RESTRICTED",
         \A h \in Live : h \in {at[v]} \cup Above(at[v]) => Above(h)' = Above(h),
         \A h : h \notin Live' => Above(h)' = {},
         at[v] \in Live => at[v] \in Live', Names'
  PROVE  Boundary(v)' = Boundary(v)
<1>0. Names /\ WayFacts
  BY LiveNames, Ways
<1>1. PICK p : p = at[v]
  OBVIOUS
<1>2. p \in Live \cup {Root, There}
  BY <1>1 DEF TypeOK
<1>3. Above(p)' = Above(p)
  <2>1. CASE p \in Live
    BY <1>1, <2>1
  <2>2. CASE p \in {Root, There}
    <3>1. p \notin Live /\ p \notin Live'
      BY <1>0, <2>2 DEF Names, Live
    <3> QED
      BY <1>0, <3>1 DEF WayFacts, Inside
  <2> QED
    BY <1>2, <2>1, <2>2
<1>4. \A h \in Above(p) : Above(h)' = Above(h) /\ (mode'[h] = "RESTRICTED" <=> mode[h] = "RESTRICTED")
  BY <1>0, <1>1 DEF WayFacts, Inside
<1>5. Edge(v, p)' = Edge(v, p)
  <2>1. {g \in Above(p) : mode[g] = "RESTRICTED"}' = {g \in Above(p) : mode[g] = "RESTRICTED"}
    BY <1>3, <1>4
  <2>2. PICK R : R = {g \in Above(p) : mode[g] = "RESTRICTED"}
    OBVIOUS
  <2>3. \A g \in R : Above(g)' = Above(g)
    BY <1>4, <2>2
  <2>4. {g \in R : R \subseteq Above(g)'} = {g \in R : R \subseteq Above(g)}
    BY <2>3
  <2>5. Edge(v, p) = IF vmode[v] = "RESTRICTED" THEN {v}
                     ELSE IF R = {} THEN {IF p = There THEN There ELSE Root}
                     ELSE {g \in R : R \subseteq Above(g)}
    BY <2>2 DEF Edge
  <2>6. Edge(v, p)' = IF vmode'[v] = "RESTRICTED" THEN {v}
                      ELSE IF R = {} THEN {IF p = There THEN There ELSE Root}
                      ELSE {g \in R : R \subseteq Above(g)'}
    BY <2>1, <2>2 DEF Edge
  <2> QED
    BY <2>4, <2>5, <2>6
<1> QED
  BY <1>1, <1>5, EdgeIs, EdgeNext

\* Who has a link is there.
LEMMA LinkedVideo ==
  ASSUME TreeInv, NEW v \in Videos, link[v]
  PROVE  v \in LiveVideos /\ at[v] \in Live \cup {Root, There}
BY DEF TreeInv, Linked, LiveVideos, TypeOK

\* A step that leaves the folders alone and a file where it is moves no boundary.
LEMMA QuietEdge ==
  ASSUME TreeInv, TreeInv', NEW v \in LiveVideos, parent' = parent, at'[v] = at[v], vmode'[v] = vmode[v],
         \A h \in Above(at[v]) : mode'[h] = "RESTRICTED" <=> mode[h] = "RESTRICTED"
  PROVE  Boundary(v)' = Boundary(v)
<1>1. Live' = Live /\ \A h : Above(h)' = Above(h)
  BY QuietWays DEF TreeInv
<1>2. Names' /\ WayFacts'
  BY NamesNext, WaysNext DEF TreeInv
<1>3. \A h : h \notin Live' => Above(h)' = {}
  BY <1>2 DEF WayFacts, Inside
<1> QED
  BY <1>1, <1>2, <1>3, SameEdge DEF TreeInv

\* Each operation leaves the boundary of a file that keeps its link.
LEMMA LinksCreateFolder ==
  ASSUME TreeInv, TreeInv', NEW v \in LiveVideos, NEW a, NEW f \in Folders, NEW d \in Live \cup {Root},
         CreateFolder(a, f, d)
  PROVE  Boundary(v)' = Boundary(v)
<1>1. /\ parent' = [parent EXCEPT ![f] = d] /\ parent[f] = None
      /\ UNCHANGED <<mode, at, vmode>>
  BY DEF CreateFolder
<1>2. Live' = Live \cup {f} /\ \A h \in Live : Above(h)' = Above(h)
  BY <1>1, CreateWays DEF TreeInv
<1>3. Names' /\ WayFacts'
  BY NamesNext, WaysNext DEF TreeInv
<1>4. \A h : h \notin Live' => Above(h)' = {}
  BY <1>3 DEF WayFacts, Inside
<1> QED
  BY <1>1, <1>2, <1>3, <1>4, SameEdge DEF TreeInv

LEMMA LinksDeleteFolder ==
  ASSUME TreeInv, TreeInv', NEW v \in LiveVideos, NEW a, NEW f \in Live, DeleteFolder(a, f)
  PROVE  Boundary(v)' = Boundary(v)
<1>1. /\ parent' = [parent EXCEPT ![f] = None] /\ mode' = [mode EXCEPT ![f] = "INHERIT"]
      /\ UNCHANGED <<at, vmode>>
      /\ \A g \in Live : parent[g] # f
      /\ \A w \in LiveVideos : at[w] # f
  BY DEF DeleteFolder
<1>2. /\ Live' = Live \ {f}
      /\ \A h \in Live' : Above(h)' = Above(h) /\ f \notin Above(h)
  BY <1>1, DeleteWays DEF TreeInv
<1>3. Names /\ WayFacts /\ Names' /\ WayFacts'
  BY LiveNames, Ways, NamesNext, WaysNext DEF TreeInv
<1>4. \A h : h \notin Live' => Above(h)' = {}
  BY <1>3 DEF WayFacts, Inside
<1>5. at[v] # f /\ at[v] \in Live \cup {Root, There}
  BY <1>1 DEF TreeInv, TypeOK
<1>6. f \notin {at[v]} \cup Above(at[v])
  BY <1>2, <1>3, <1>5 DEF WayFacts, Inside
<1>7. \A h \in Above(at[v]) : mode'[h] = mode[h]
  BY <1>1, <1>3, <1>6, LiveThings DEF WayFacts, Inside, TreeInv, TypeOK
<1>8. \A h \in Live : h \in {at[v]} \cup Above(at[v]) => Above(h)' = Above(h)
  BY <1>2, <1>6
<1>9. at[v] \in Live => at[v] \in Live'
  BY <1>2, <1>5
<1> QED
  BY <1>1, <1>3, <1>4, <1>7, <1>8, <1>9, SameEdge DEF TreeInv

LEMMA LinksSetFolderAccess ==
  ASSUME TreeInv, TreeInv', NEW v \in LiveVideos, link'[v],
         NEW a, NEW f \in Live, NEW m \in Modes, SetFolderAccess(a, f, m)
  PROVE  Boundary(v)' = Boundary(v)
<1>1. UNCHANGED <<parent, at, vmode>>
  BY DEF SetFolderAccess
<1>2. /\ mode'[f] = m
      /\ \A g \in Folders \ {f} : mode'[g] = "RESTRICTED" <=> mode[g] = "RESTRICTED"
  BY SetModes DEF TreeInv
<1>3. Names /\ WayFacts
  BY LiveNames, Ways DEF TreeInv
<1>4. \A h \in Above(at[v]) : h \in Folders
  BY <1>3, LiveThings DEF WayFacts, Inside
<1>5. CASE m # "RESTRICTED" /\ mode[f] # "RESTRICTED"
  <2>1. \A h \in Above(at[v]) : mode'[h] = "RESTRICTED" <=> mode[h] = "RESTRICTED"
    BY <1>2, <1>4, <1>5
  <2> QED
    BY <1>1, <2>1, QuietEdge
<1>6. CASE ~ (m # "RESTRICTED" /\ mode[f] # "RESTRICTED")
  <2>1. RevokeLinks(folderSubtree(f), {})
    BY <1>6 DEF SetFolderAccess
  <2>2. v \in Videos
    BY DEF LiveVideos
  <2>3. at[v] \notin folderSubtree(f)
    BY <2>1, <2>2, Revoked DEF TreeInv
  <2>4. f \notin Above(at[v])
    BY <1>3, <2>3 DEF folderSubtree, WayFacts, Inside
  <2>5. \A h \in Above(at[v]) : mode'[h] = "RESTRICTED" <=> mode[h] = "RESTRICTED"
    BY <1>2, <1>4, <2>4
  <2> QED
    BY <1>1, <2>5, QuietEdge
<1> QED
  BY <1>5, <1>6

LEMMA LinksMoveFolder ==
  ASSUME TreeInv, TreeInv', NEW v \in LiveVideos, link'[v],
         NEW a, NEW f \in Live, NEW d \in Live \cup {Root}, MoveFolder(a, f, d)
  PROVE  Boundary(v)' = Boundary(v)
<1>1. /\ parent' = [parent EXCEPT ![f] = d] /\ UNCHANGED <<at, vmode>>
      /\ d \notin folderSubtree(f) /\ RevokeLinks(folderSubtree(f), {})
      /\ mode' = ClosedPublic(IF Enclosed(d) THEN folderSubtree(f) ELSE {})
  BY DEF MoveFolder, Relocate
<1>2. Names /\ WayFacts /\ Names' /\ WayFacts'
  BY LiveNames, Ways, NamesNext, WaysNext DEF TreeInv
<1>3. f \notin Above(d)
  BY <1>1, <1>2, Below
<1>4. /\ Live' = Live
      /\ \A h \in Live : f \notin Above(h) => Above(h)' = Above(h)
  BY <1>1, <1>2, <1>3, MovedWays DEF TreeInv
<1>5. \A g \in Folders : mode'[g] = "RESTRICTED" <=> mode[g] = "RESTRICTED"
  BY <1>1, ClosedIs
<1>6. at[v] \notin folderSubtree(f)
  BY <1>1, Revoked DEF TreeInv, LiveVideos
<1>7. f \notin Above(at[v])
  BY <1>2, <1>6 DEF folderSubtree, WayFacts, Inside
<1>8. \A h \in Live : h \in {at[v]} \cup Above(at[v]) => f \notin Above(h)
  BY <1>2, <1>7 DEF WayFacts, Up
<1>9. \A h : h \notin Live' => Above(h)' = {}
  BY <1>2 DEF WayFacts, Inside
<1>10. \A h \in Above(at[v]) : h \in Folders
  BY <1>2, LiveThings DEF WayFacts, Inside
<1>11. \A h \in Above(at[v]) : mode'[h] = "RESTRICTED" <=> mode[h] = "RESTRICTED"
  BY <1>5, <1>10
<1>12. \A h \in Live : h \in {at[v]} \cup Above(at[v]) => Above(h)' = Above(h)
  BY <1>4, <1>8
<1> QED
  BY <1>1, <1>2, <1>4, <1>9, <1>11, <1>12, SameEdge DEF TreeInv

\* Steps that leave the folders alone: what happens to a file's own place and mode.
LEMMA LinksVideos ==
  ASSUME TreeInv, TreeInv', NEW v \in LiveVideos, UNCHANGED <<parent, mode>>,
         at'[v] = at[v], vmode'[v] = vmode[v]
  PROVE  Boundary(v)' = Boundary(v)
BY QuietEdge

\* So does every operation, and every step.
LEMMA LinksContent ==
  ASSUME TreeInv, TreeInv', NEW v \in Videos, link[v], link'[v], NEW a, Content(a)
  PROVE  Boundary(v)' = Boundary(v)
<1>0. TypeOK /\ v \in LiveVideos /\ at[v] # None
  BY LinkedVideo DEF TreeInv, LiveVideos
<1>1. ASSUME UNCHANGED <<parent, mode>>, at'[v] = at[v], vmode'[v] = vmode[v]
      PROVE  Boundary(v)' = Boundary(v)
  BY <1>0, <1>1, LinksVideos
<1>2. ASSUME NEW w \in LiveVideos, NEW m \in Modes \ {"PUBLIC"}, SetVideoAccess(a, w, m)
      PROVE  Boundary(v)' = Boundary(v)
  <2>1. UNCHANGED <<parent, mode, at>> /\ RevokeLinks({}, {w}) /\ vmode' = [vmode EXCEPT ![w] = m]
    BY <1>2 DEF SetVideoAccess
  <2>2. v # w
    BY <1>0, <2>1, Revoked
  <2> QED
    BY <1>0, <1>1, <2>1, <2>2 DEF TypeOK
<1>3. ASSUME NEW V \in SUBSET LiveVideos, NEW d \in Live \cup {Root, There}, MoveVideos(a, V, d)
      PROVE  Boundary(v)' = Boundary(v)
  <2>1. /\ UNCHANGED <<parent, mode, vmode>> /\ RevokeLinks({}, V)
        /\ at' = [w \in Videos |-> IF w \in V THEN d ELSE at[w]]
    BY <1>3 DEF MoveVideos
  <2>2. v \notin V
    BY <1>0, <2>1, Revoked
  <2> QED
    BY <1>1, <2>1, <2>2
<1>4. ASSUME NEW w \in Videos, NEW d \in Live \cup {Root, There}, CreateVideo(a, w, d)
      PROVE  Boundary(v)' = Boundary(v)
  <2>1. UNCHANGED <<parent, mode, vmode>> /\ at' = [at EXCEPT ![w] = d] /\ at[w] = None
    BY <1>4 DEF CreateVideo
  <2> QED
    BY <1>0, <1>1, <2>1 DEF TypeOK
<1>5. ASSUME NEW V \in SUBSET LiveVideos, DeleteVideos(a, V)
      PROVE  Boundary(v)' = Boundary(v)
  <2>1. /\ UNCHANGED <<parent, mode>> /\ RevokeLinks({}, V)
        /\ at' = [w \in Videos |-> IF w \in V THEN None ELSE at[w]]
        /\ vmode' = [w \in Videos |-> IF w \in V THEN "INHERIT" ELSE vmode[w]]
    BY <1>5 DEF DeleteVideos
  <2>2. v \notin V
    BY <1>0, <2>1, Revoked
  <2> QED
    BY <1>1, <2>1, <2>2
<1>6. ASSUME NEW w \in LiveVideos, Share(a, w) \/ Unshare(a, w)
      PROVE  Boundary(v)' = Boundary(v)
  BY <1>1, <1>6 DEF Share, Unshare
<1>7. ASSUME NEW u \in Users, NEW t \in Live \cup LiveVideos, RevokeMember(a, u, t)
      PROVE  Boundary(v)' = Boundary(v)
  BY <1>1, <1>7 DEF RevokeMember
<1>8. ASSUME SetVisibility(a)
      PROVE  Boundary(v)' = Boundary(v)
  BY <1>1, <1>8 DEF SetVisibility
<1> QED
  BY <1>0, <1>2, <1>3, <1>4, <1>5, <1>6, <1>7, <1>8, LinksCreateFolder, LinksDeleteFolder,
     LinksSetFolderAccess, LinksMoveFolder DEF Content

LEMMA LinksStep ==
  TreeInv /\ TreeInv' /\ [Next]_vars =>
    [\A v \in Videos : link[v] /\ link'[v] => Boundary(v)' = Boundary(v)]_vars
<1> SUFFICES ASSUME TreeInv, TreeInv', [Next]_vars, NEW v \in Videos, link[v], link'[v]
             PROVE  Boundary(v)' = Boundary(v)
  OBVIOUS
<1>1. CASE \E a \in Actors : Content(a)
  BY <1>1, LinksContent
<1>2. CASE ~ \E a \in Actors : Content(a)
  <2>1. UNCHANGED <<parent, mode, at, vmode>>
    BY <1>2 DEF Next, Join, Leave, Billing, vars
  <2> QED
    BY <2>1, LinkedVideo, LinksVideos
<1> QED
  BY <1>1, <1>2

\* No share link survives a change of what its file is behind, however far above the
\* file the change is made (revokeShareLinks in every content transaction).
THEOREM LinksDie == Spec => LinksDieWithAccess
BY TreeInvariant, LinksStep, PTL DEF Spec, LinksDieWithAccess

-----------------------------------------------------------------------------
(* Nobody's access grows but by somebody who could edit what they come to see. *)

\* A step gives nobody a role.
FewerRoles == \A u \in Users, t \in Things : role'[u][t] \in {role[u][t], "NONE"}
\* A step lets nobody in by the way from p, or by the project, who was not let in.
Narrower(p) == \A x : \A m \in BOOLEAN : Admits(x, m, p)' => Admits(x, m, p)
NarrowProject(pr) == \A x : \A m \in BOOLEAN : projectAudience(x, m, pr)' => projectAudience(x, m, pr)

\* Then nobody holds what they did not hold.
LEMMA FewerHold ==
  ASSUME FewerRoles, NEW x, NEW t \in Things, NEW m \in BOOLEAN, Holds(x, t, m)'
  PROVE  Holds(x, t, m)
<1>1. RoleOf(x, t)' # "NONE" /\ (RoleOf(x, t)' = RoleOf(x, t) \/ RoleOf(x, t)' = "NONE")
  BY DEF FewerRoles, RoleOf, Holds
<1>2. RoleOf(x, t)' = RoleOf(x, t)
  BY <1>1
<1> QED
  BY <1>2 DEF Holds

\* And the project lets nobody in, its visibility apart.
LEMMA FewerProject ==
  ASSUME FewerRoles, paid' = paid, NEW pr \in {Root, There}, pr = There \/ public' = public
  PROVE  NarrowProject(pr)
<1> SUFFICES ASSUME NEW x, NEW m \in BOOLEAN, projectAudience(x, m, pr)'
             PROVE  projectAudience(x, m, pr)
  BY DEF NarrowProject
<1>1. pr \in Things /\ Workspace \in Things /\ Root # There
  BY TreeAssumption DEF Things
<1>2. isPublic(pr)' => isPublic(pr)
  BY <1>1 DEF isPublic
<1>3. /\ Holds(x, pr, m)' => Holds(x, pr, m)
      /\ Holds(x, Workspace, m)' => Holds(x, Workspace, m)
  BY <1>1, FewerHold
<1> QED
  BY <1>2, <1>3 DEF projectAudience

\* What is on a way that stays as it is, roles apart.
LEMMA SameNarrower ==
  ASSUME TreeInv, FewerRoles, NarrowProject(Root), NEW p, Above(p)' = Above(p),
         \A h \in Above(p) : /\ Above(h)' = Above(h) /\ parent'[h] = parent[h]
                             /\ mode'[h] = "RESTRICTED" <=> mode[h] = "RESTRICTED"
                             /\ mode'[h] = "PUBLIC" => mode[h] = "PUBLIC"
  PROVE  Narrower(p)
<1> SUFFICES ASSUME NEW x, NEW m \in BOOLEAN, Admits(x, m, p)'
             PROVE  Admits(x, m, p)
  BY DEF Narrower
<1>0. WayFacts
  BY LiveNames, Ways DEF TreeInv
<1>1. PICK g \in Above(p)' : Lets(x, m, g)' /\ Unrestricted(Before(p, g))'
  BY DEF Admits
<1>2. g \in Above(p) /\ g \in Things
  BY <1>0, <1>1, LiveThings DEF WayFacts, Inside
<1>3. Above(g) \subseteq Above(p)
  BY <1>0, <1>2 DEF WayFacts, Up
<1>4. Unrestricted(Before(p, g))
  BY <1>1, <1>2 DEF Unrestricted, Before
<1>5. Holds(x, g, m)' => Holds(x, g, m)
  BY <1>2, FewerHold
<1>6. Unrestricted(Above(g) \ {g})' => Unrestricted(Above(g) \ {g})
  BY <1>2, <1>3 DEF Unrestricted
<1>7. Lets(x, m, g)
  BY <1>1, <1>2, <1>5, <1>6 DEF Lets, NarrowProject
<1> QED
  BY <1>2, <1>4, <1>7 DEF Admits

\* Behind a restricted folder only roles held below it, or on it, count.
Hiding ==
  \A x, p, r : \A m \in BOOLEAN :
    r \in Above(p) /\ mode[r] = "RESTRICTED" /\ Admits(x, m, p) =>
      \E g \in Above(p) : Holds(x, g, m) /\ r \in Above(g) /\ Unrestricted(Before(p, g))

\* Which is so before a step and after it.
LEMMA HiddenBy == Names /\ WayFacts => Hiding
<1> SUFFICES ASSUME Names, WayFacts, NEW x, NEW p, NEW r \in Above(p), NEW m \in BOOLEAN,
                    mode[r] = "RESTRICTED", Admits(x, m, p)
             PROVE  \E g \in Above(p) : Holds(x, g, m) /\ r \in Above(g) /\ Unrestricted(Before(p, g))
  BY DEF Hiding
<1>1. PICK g \in Above(p) : Lets(x, m, g) /\ Unrestricted(Before(p, g))
  BY DEF Admits
<1>2. r \in Above(g)
  BY <1>1 DEF Unrestricted, Before
<1>3. ~ (mode[g] = "PUBLIC" /\ Unrestricted(Above(g) \ {g}))
  BY <1>2 DEF Unrestricted
<1>4. ~ (mode[g] # "RESTRICTED" /\ parent[g] = Root)
  BY <1>1, <1>2, TopAlone
<1> QED
  BY <1>1, <1>2, <1>3, <1>4 DEF Lets

LEMMA HiddenByNext == (Names /\ WayFacts)' => Hiding'
BY HiddenBy, PTL

\* Whoever edits f but not p below it is kept from p by a restricted folder in between.
LEMMA Blocked ==
  ASSUME WayFacts, NEW a, NEW f, NEW p, f \in Above(p), Admits(a, TRUE, f), ~ Admits(a, TRUE, p)
  PROVE  \E r \in Above(p) \ Above(f) : mode[r] = "RESTRICTED"
<1>1. PICK g \in Above(f) : Lets(a, TRUE, g) /\ Unrestricted(Before(f, g))
  BY DEF Admits
<1>2. g \in Above(p)
  BY <1>1 DEF WayFacts, Up
<1>3. ~ Unrestricted(Before(p, g))
  BY <1>1, <1>2 DEF Admits
<1> QED
  BY <1>1, <1>3 DEF Unrestricted, Before

-----------------------------------------------------------------------------
\* From ways to things.
Sees(x, m, t) == IF t \in Videos THEN visibleVideo(x, m, TRUE, t) ELSE visibleFolder(x, m, TRUE, t)

ReachTable ==
  \A x, t : Reaches(x, t) = IF Sees(x, TRUE, t) THEN 2 ELSE IF Sees(x, FALSE, t) THEN 1 ELSE 0
FolderSight ==
  \A x : \A m \in BOOLEAN : \A t \in Live :
    Sees(x, m, t) <=> paid /\ (projectAudience(x, TRUE, Root) \/ Admits(x, m, t))
VideoSight ==
  \A x, p, pr : \A m \in BOOLEAN : \A t \in LiveVideos :
    p = at[t] /\ pr = projectOf(t) =>
      (Sees(x, m, t) <=>
         /\ paid
         /\ \/ projectAudience(x, TRUE, pr)
            \/ Holds(x, t, m)
            \/ /\ vmode[t] = "INHERIT"
               /\ \/ p \in {Root, There} /\ projectAudience(x, m, p)
                  \/ p \in Live /\ Admits(x, m, p))

\* Reaches, in terms of what x sees and edits.
LEMMA ReachIs == ReachTable
BY DEF Reaches, Sees, ReachTable

LEMMA ReachNext == ReachTable'
BY ReachIs, PTL

\* Nobody reaches more who sees and edits no more.
LEMMA NotWider ==
  ASSUME NEW t, \A x : \A m \in BOOLEAN : Sees(x, m, t)' => Sees(x, m, t)
  PROVE  ~ Wider(t)
<1> SUFFICES ASSUME NEW x, Reaches(x, t)' > Reaches(x, t)
             PROVE  FALSE
  BY DEF Wider
<1>1. Reaches(x, t)' = IF Sees(x, TRUE, t)' THEN 2 ELSE IF Sees(x, FALSE, t)' THEN 1 ELSE 0
  BY ReachNext DEF ReachTable
<1>2. Reaches(x, t) = IF Sees(x, TRUE, t) THEN 2 ELSE IF Sees(x, FALSE, t) THEN 1 ELSE 0
  BY ReachIs DEF ReachTable
<1>3. (Sees(x, TRUE, t)' => Sees(x, TRUE, t)) /\ (Sees(x, FALSE, t)' => Sees(x, FALSE, t))
  OBVIOUS
<1>4. CASE Sees(x, TRUE, t)
  <2>1. Reaches(x, t) = 2
    BY <1>2, <1>4, Zenon
  <2> QED
    BY <1>1, <2>1
<1>5. CASE ~ Sees(x, TRUE, t) /\ Sees(x, FALSE, t)
  <2>1. Reaches(x, t) = 1 /\ (Reaches(x, t)' = 1 \/ Reaches(x, t)' = 0)
    BY <1>1, <1>2, <1>3, <1>5, Zenon
  <2> QED
    BY <2>1
<1>6. CASE ~ Sees(x, TRUE, t) /\ ~ Sees(x, FALSE, t)
  <2>1. Reaches(x, t) = 0 /\ Reaches(x, t)' = 0
    BY <1>1, <1>2, <1>3, <1>6, Zenon
  <2> QED
    BY <2>1
<1> QED
  BY <1>4, <1>5, <1>6

\* Seeing a folder is being let in by its way; the same after a step.
LEMMA SeesFolder == TypeOK /\ WayFacts /\ Shallow => FolderSight
<1>1. Folders \cap Videos = {}
  BY TreeAssumption
<1> QED
  BY <1>1, FolderIs DEF Sees, Live, FolderSight

LEMMA SeesFolderNext == (TypeOK /\ WayFacts /\ Shallow)' => FolderSight'
BY SeesFolder, PTL

\* Seeing a file is a role on it or being let in by the way of its folder.
LEMMA SeesVideo == TypeOK /\ WayFacts /\ Shallow => VideoSight
<1>1. ASSUME TypeOK, WayFacts, Shallow, NEW x, NEW p, NEW pr, NEW m \in BOOLEAN, NEW t \in LiveVideos,
             p = at[t], pr = projectOf(t)
      PROVE  Sees(x, m, t) <=>
               /\ paid
               /\ \/ projectAudience(x, TRUE, pr)
                  \/ Holds(x, t, m)
                  \/ /\ vmode[t] = "INHERIT"
                     /\ \/ p \in {Root, There} /\ projectAudience(x, m, p)
                        \/ p \in Live /\ Admits(x, m, p)
  <2>1. Sees(x, m, t) = visibleVideo(x, m, TRUE, t)
    BY DEF Sees, LiveVideos
  <2> QED
    BY <1>1, <2>1, VideoIs
<1> QED
  BY <1>1 DEF VideoSight

LEMMA SeesVideoNext == (TypeOK /\ WayFacts /\ Shallow)' => VideoSight'
BY SeesVideo, PTL

\* A folder whose way is narrower is reached by nobody else.
LEMMA NarrowFolder ==
  ASSUME TreeInv, TreeInv', paid' = paid, NarrowProject(Root), NEW t \in Live \cap Live', Narrower(t)
  PROVE  ~ Wider(t)
<1>1. TypeOK /\ WayFacts /\ Shallow /\ TypeOK' /\ WayFacts' /\ Shallow'
  BY LiveNames, Ways, NamesNext, WaysNext DEF TreeInv
<1>2. FolderSight /\ FolderSight'
  BY <1>1, SeesFolder, SeesFolderNext
<1>3. ASSUME NEW x, NEW m \in BOOLEAN, Sees(x, m, t)'
      PROVE  Sees(x, m, t)
  <2>1. paid' /\ (projectAudience(x, TRUE, Root)' \/ Admits(x, m, t)')
    BY <1>2, <1>3 DEF FolderSight
  <2>2. paid /\ (projectAudience(x, TRUE, Root) \/ Admits(x, m, t))
    BY <2>1 DEF NarrowProject, Narrower
  <2> QED
    BY <1>2, <2>2 DEF FolderSight
<1> QED
  BY <1>3, NotWider

\* Nor is a file whose folder's way is.
LEMMA NarrowVideo ==
  ASSUME TreeInv, TreeInv', paid' = paid, FewerRoles, NEW t \in LiveVideos, t \in LiveVideos',
         at'[t] = at[t], vmode'[t] = vmode[t],
         NEW pr, pr = projectOf(t), NarrowProject(pr), NEW p, p = at[t], p \in Live /\ vmode[t] = "INHERIT" => Narrower(p)
  PROVE  ~ Wider(t)
<1>1. TypeOK /\ WayFacts /\ Shallow /\ TypeOK' /\ WayFacts' /\ Shallow' /\ Names /\ Names'
  BY LiveNames, Ways, NamesNext, WaysNext DEF TreeInv
<1>3. pr = projectOf(t)'
  BY DEF projectOf
<1>4. VideoSight /\ VideoSight'
  BY <1>1, SeesVideo, SeesVideoNext
<1>5. ASSUME NEW x, NEW m \in BOOLEAN, Sees(x, m, t)'
      PROVE  Sees(x, m, t)
  <2>1. /\ paid'
        /\ \/ projectAudience(x, TRUE, pr)'
           \/ Holds(x, t, m)'
           \/ /\ vmode'[t] = "INHERIT"
              /\ \/ p \in {Root, There} /\ projectAudience(x, m, p)'
                 \/ p \in Live' /\ Admits(x, m, p)'
    BY <1>3, <1>4, <1>5 DEF VideoSight
  <2>2. p \in Live \cup {Root, There} /\ t \in Things /\ (p \in {Root, There} => pr = p)
    BY <1>1, VideoThing DEF TypeOK
  <2>3. Holds(x, t, m)' => Holds(x, t, m)
    BY <2>2, FewerHold
  <2>4. p \in Live' => p \in Live
    BY <1>1, <2>2 DEF Names, Live
  <2>5. /\ paid
        /\ \/ projectAudience(x, TRUE, pr)
           \/ Holds(x, t, m)
           \/ /\ vmode[t] = "INHERIT"
              /\ \/ p \in {Root, There} /\ projectAudience(x, m, p)
                 \/ p \in Live /\ Admits(x, m, p)
    BY <2>1, <2>2, <2>3, <2>4 DEF NarrowProject, Narrower
  <2> QED
    BY <1>4, <2>5 DEF VideoSight
<1> QED
  BY <1>5, NotWider

\* A way that a step of a narrows, or whose folder a could edit before.
Owed(a, p) == Narrower(p) \/ Admits(a, TRUE, p) \/ projectAudience(a, TRUE, Root)

\* When every way is owed, so is every thing.
LEMMA OwedThings ==
  ASSUME TreeInv, TreeInv', UNCHANGED <<at, vmode, public, paid>>, FewerRoles, paid,
         NEW a, \A p \in Live \cap Live' : Owed(a, p), NEW t \in Kept
  PROVE  Reaches(a, t) = 2 \/ ~ Wider(t)
<1>1. /\ TypeOK /\ WayFacts /\ Shallow /\ Names /\ TypeOK' /\ Names'
      /\ FolderSight /\ VideoSight /\ ReachTable
  BY LiveNames, Ways, NamesNext, SeesFolder, SeesVideo, ReachIs DEF TreeInv
<1>2. NarrowProject(Root) /\ NarrowProject(There)
  BY FewerProject
<1>3. Sees(a, TRUE, t) => Reaches(a, t) = 2
  BY <1>1 DEF ReachTable
<1>4. CASE t \in Live \cap Live'
  <2>1. CASE Narrower(t)
    BY <1>2, <1>4, <2>1, NarrowFolder
  <2>2. CASE Admits(a, TRUE, t) \/ projectAudience(a, TRUE, Root)
    <3>1. Sees(a, TRUE, t)
      BY <1>1, <1>4, <2>2 DEF FolderSight
    <3> QED
      BY <1>3, <3>1
  <2> QED
    BY <1>4, <2>1, <2>2 DEF Owed
<1>5. CASE t \in LiveVideos \cap LiveVideos'
  <2>1. PICK p, pr : p = at[t] /\ pr = projectOf(t)
    OBVIOUS
  <2>2. pr \in {Root, There} /\ t \in Videos
    BY <1>1, <1>5, <2>1, VideoThing DEF LiveVideos
  <2>3. NarrowProject(pr)
    BY <1>2, <2>2
  <2>4. CASE p \in Live /\ vmode[t] = "INHERIT"
    <3>1. p \in Live' /\ pr = Root
      <4>1. p \in Live' \cup {Root, There}
        BY <1>1, <1>5, <2>1 DEF TypeOK
      <4> QED
        BY <1>1, <1>5, <2>1, <2>4, <4>1, VideoThing DEF Names, Live
    <3>2. CASE Narrower(p)
      BY <1>5, <2>1, <2>3, <3>2, NarrowVideo
    <3>3. CASE Admits(a, TRUE, p) \/ projectAudience(a, TRUE, Root)
      <4>1. Sees(a, TRUE, t)
        BY <1>1, <1>5, <2>1, <2>4, <3>1, <3>3 DEF VideoSight
      <4> QED
        BY <1>3, <4>1
    <3> QED
      BY <2>4, <3>1, <3>2, <3>3 DEF Owed
  <2>5. CASE ~ (p \in Live /\ vmode[t] = "INHERIT")
    BY <1>5, <2>1, <2>3, <2>5, NarrowVideo
  <2> QED
    BY <2>4, <2>5
<1> QED
  BY <1>4, <1>5 DEF Kept

\* Steps that leave the folders and the file t alone.
LEMMA OwedFiles ==
  ASSUME TreeInv, TreeInv', UNCHANGED <<parent, mode, public, paid>>, FewerRoles, NEW t \in Kept,
         t \in LiveVideos \cap LiveVideos' => at'[t] = at[t] /\ vmode'[t] = vmode[t]
  PROVE  ~ Wider(t)
<1>1. Live' = Live /\ \A h : Above(h)' = Above(h)
  BY QuietWays DEF TreeInv
<1>2. NarrowProject(Root) /\ NarrowProject(There)
  BY FewerProject
<1>3. \A p : Narrower(p)
  BY <1>1, <1>2, SameNarrower
<1>4. CASE t \in Live \cap Live'
  BY <1>2, <1>3, <1>4, NarrowFolder
<1>5. CASE t \in LiveVideos \cap LiveVideos'
  <2>1. PICK p, pr : p = at[t] /\ pr = projectOf(t)
    OBVIOUS
  <2>2. pr \in {Root, There}
    BY <1>5, <2>1, VideoThing DEF TreeInv
  <2> QED
    BY <1>2, <1>3, <1>5, <2>1, <2>2, NarrowVideo
<1> QED
  BY <1>4, <1>5 DEF Kept

\* A step that leaves the roles alone gives nobody one.
LEMMA SameRoles == role' = role => FewerRoles
BY DEF FewerRoles

\* What the right to edit folder f is.
LEMMA EditorOf ==
  ASSUME TreeInv, NEW a \in Users, NEW f \in Live, checkFolderAccess(a, f).canEdit
  PROVE  paid /\ (projectAudience(a, TRUE, Root) \/ Admits(a, TRUE, f))
<1>1. TypeOK /\ WayFacts /\ Shallow /\ Names
  BY LiveNames, Ways DEF TreeInv
<1>2. f \notin {Root, There} /\ a # Guest
  BY <1>1, TreeAssumption DEF Names, Live
<1>3. visibleFolder(a, TRUE, TRUE, f)
  BY <1>1, <1>2, FolderRights
<1> QED
  BY <1>1, <1>3, FolderIs

\* Each operation opens to others only what its actor could edit.
LEMMA OwedCreateFolder ==
  ASSUME TreeInv, TreeInv', NEW a \in Users, NEW f \in Folders, NEW d \in Live \cup {Root},
         CreateFolder(a, f, d), NEW t \in Kept
  PROVE  Reaches(a, t) = 2 \/ ~ Wider(t)
<1>1. /\ parent' = [parent EXCEPT ![f] = d] /\ parent[f] = None
      /\ UNCHANGED <<mode, at, vmode, link, role, public, paid>>
      /\ checkFolderAccess(a, d).canEdit
  BY DEF CreateFolder
<1>2. Names /\ WayFacts
  BY LiveNames, Ways DEF TreeInv
<1>3. /\ Live' = Live \cup {f} /\ f \notin Live
      /\ \A h \in Live : Above(h)' = Above(h)
  BY <1>1, CreateWays DEF TreeInv
<1>4. paid
  <2>1. CASE d = Root
    BY <1>1, <2>1, FolderRights, EditsMore, TreeAssumption DEF TreeInv
  <2>2. CASE d \in Live
    BY <1>1, <2>2, EditorOf
  <2> QED
    BY <2>1, <2>2
<1>5. FewerRoles /\ NarrowProject(Root)
  BY <1>1, SameRoles, FewerProject
<1>6. ASSUME NEW p \in Live
      PROVE  Narrower(p)
  <2>1. \A h \in Above(p) : Above(h)' = Above(h) /\ parent'[h] = parent[h]
    BY <1>1, <1>2, <1>3 DEF WayFacts, Inside, TreeInv, TypeOK, Live
  <2> QED
    BY <1>1, <1>3, <1>5, <2>1, SameNarrower
<1>7. \A p \in Live \cap Live' : Owed(a, p)
  BY <1>6 DEF Owed
<1> QED
  BY <1>1, <1>4, <1>5, <1>7, OwedThings

LEMMA OwedDeleteFolder ==
  ASSUME TreeInv, TreeInv', NEW a \in Users, NEW f \in Live, DeleteFolder(a, f), NEW t \in Kept
  PROVE  Reaches(a, t) = 2 \/ ~ Wider(t)
<1>1. /\ parent' = [parent EXCEPT ![f] = None] /\ mode' = [mode EXCEPT ![f] = "INHERIT"]
      /\ Forget({f}) /\ UNCHANGED <<at, vmode, link, public, paid>>
      /\ \A g \in Live : parent[g] # f
      /\ checkFolderAccess(a, f).canEdit
  BY DEF DeleteFolder
<1>2. Names /\ WayFacts
  BY LiveNames, Ways DEF TreeInv
<1>3. /\ Live' = Live \ {f}
      /\ \A h \in Live' : Above(h)' = Above(h) /\ f \notin Above(h)
  BY <1>1, DeleteWays DEF TreeInv
<1>4. paid
  BY <1>1, EditorOf
<1>5. FewerRoles
  BY <1>1 DEF FewerRoles, Forget
<1>6. NarrowProject(Root)
  BY <1>1, <1>5, FewerProject
<1>7. ASSUME NEW p \in Live'
      PROVE  Narrower(p)
  <2>1. \A h \in Above(p) : h \in Live' /\ h # f /\ h \in Folders
    BY <1>2, <1>3, LiveThings DEF WayFacts, Inside
  <2>2. \A h \in Above(p) : Above(h)' = Above(h) /\ parent'[h] = parent[h] /\ mode'[h] = mode[h]
    BY <1>1, <1>3, <2>1 DEF TreeInv, TypeOK
  <2> QED
    BY <1>3, <1>5, <1>6, <2>2, SameNarrower
<1>8. \A p \in Live \cap Live' : Owed(a, p)
  BY <1>7 DEF Owed
<1> QED
  BY <1>1, <1>4, <1>5, <1>8, OwedThings

LEMMA OwedSetFolderAccess ==
  ASSUME TreeInv, TreeInv', NEW a \in Users, NEW f \in Live, NEW m \in Modes,
         SetFolderAccess(a, f, m), NEW t \in Kept
  PROVE  Reaches(a, t) = 2 \/ ~ Wider(t)
<1>1. UNCHANGED <<parent, at, vmode, role, public, paid>> /\ checkFolderAccess(a, f).canEdit
  BY DEF SetFolderAccess
<1>2. Names /\ WayFacts /\ Names' /\ WayFacts'
  BY LiveNames, Ways, NamesNext, WaysNext DEF TreeInv
<1>3. Live' = Live /\ \A h : Above(h)' = Above(h)
  BY <1>1, QuietWays DEF TreeInv
<1>4. \A g \in Folders \ {f} : /\ mode'[g] = "RESTRICTED" <=> mode[g] = "RESTRICTED"
                               /\ mode'[g] = "PUBLIC" => mode[g] = "PUBLIC"
  BY SetModes DEF TreeInv
<1>5. paid /\ (projectAudience(a, TRUE, Root) \/ Admits(a, TRUE, f))
  BY <1>1, EditorOf
<1>6. FewerRoles /\ NarrowProject(Root)
  BY <1>1, SameRoles, FewerProject
<1>7. \A p : \A h \in Above(p) : h \in Folders /\ h \in Things
  BY <1>2, LiveThings DEF WayFacts, Inside
<1>8. ASSUME NEW p \in Live, f \notin Above(p)
      PROVE  Narrower(p)
  <2>1. \A h \in Above(p) : /\ Above(h)' = Above(h) /\ parent'[h] = parent[h]
                            /\ mode'[h] = "RESTRICTED" <=> mode[h] = "RESTRICTED"
                            /\ mode'[h] = "PUBLIC" => mode[h] = "PUBLIC"
    BY <1>1, <1>3, <1>4, <1>7, <1>8
  <2> QED
    BY <1>3, <1>6, <2>1, SameNarrower
<1>9. ASSUME NEW p \in Live, f \in Above(p), ~ Admits(a, TRUE, p), ~ projectAudience(a, TRUE, Root)
      PROVE  Narrower(p)
  <2>1. PICK r \in Above(p) \ Above(f) : mode[r] = "RESTRICTED"
    BY <1>2, <1>5, <1>9, Blocked
  <2>2. r # f /\ r \in Above(p) /\ mode'[r] = "RESTRICTED"
    BY <1>2, <1>4, <1>7, <2>1 DEF WayFacts, Inside
  <2>3. SUFFICES ASSUME NEW x, NEW n \in BOOLEAN, Admits(x, n, p)'
                 PROVE  Admits(x, n, p)
    BY DEF Narrower
  <2>4. PICK g \in Above(p) : Holds(x, g, n)' /\ r \in Above(g) /\ Unrestricted(Before(p, g))'
    BY <1>2, <1>3, <2>2, <2>3, HiddenByNext DEF Hiding
  <2>5. g \notin Above(f)
    BY <1>2, <2>1, <2>4 DEF WayFacts, Up
  <2>6. f \in Above(g)
    BY <1>2, <1>9, <2>4, <2>5 DEF WayFacts, Line
  <2>7. Unrestricted(Before(p, g))
    BY <1>3, <1>4, <1>7, <2>4, <2>6 DEF Unrestricted, Before
  <2>8. Holds(x, g, n)
    BY <1>6, <1>7, <2>4, FewerHold
  <2> QED
    BY <2>4, <2>7, <2>8 DEF Admits, Lets
<1>10. \A p \in Live \cap Live' : Owed(a, p)
  BY <1>8, <1>9 DEF Owed
<1> QED
  BY <1>1, <1>5, <1>6, <1>10, OwedThings

\* The folder f moves below d: a file or folder behind a restricted r below f keeps it.
LEMMA MoveBehind ==
  ASSUME TreeInv, TreeInv', FewerRoles, NEW f \in Live, NEW d \in Live \cup {Root}, f \notin Above(d),
         parent' = [parent EXCEPT ![f] = d],
         \A h \in Folders : mode'[h] = "RESTRICTED" <=> mode[h] = "RESTRICTED",
         NEW p \in Live, f \in Above(p), NEW r \in Above(p) \ Above(f), mode[r] = "RESTRICTED"
  PROVE  Narrower(p)
<1>1. Names /\ WayFacts /\ Names' /\ WayFacts' /\ TypeOK /\ NoLoop
  BY LiveNames, Ways, NamesNext, WaysNext DEF TreeInv
<1>2. /\ Live' = Live
      /\ \A h \in Live : f \notin Above(h) => Above(h)' = Above(h)
      /\ Above(d)' = Above(d)
      /\ Above(f)' = {f} \cup Above(d)
      /\ \A h \in Live : f \in Above(h) => Above(h)' = (Above(h) \ Above(f)) \cup Above(f)'
  BY <1>1, MovedWays DEF TreeInv
<1>3. \A q : \A h \in Above(q) : h \in Folders /\ h \in Things /\ h \in Live
  BY <1>1, LiveThings DEF WayFacts, Inside
<1>4. \A h \in Above(p) \ Above(f) : f \in Above(h) /\ h # f /\ h \notin Above(d)
  <2>1. ASSUME NEW h \in Above(p) \ Above(f)
        PROVE  f \in Above(h) /\ h # f /\ h \notin Above(d)
    <3>1. f \in Above(h)
      BY <1>1 DEF WayFacts, Line
    <3>2. h # f
      BY <1>1 DEF WayFacts, Inside
    <3>3. Above(h) \subseteq Above(d) \/ h \notin Above(d)
      BY <1>1 DEF WayFacts, Up
    <3> QED
      BY <3>1, <3>2, <3>3
  <2> QED
    BY <2>1
<1>5. Above(p)' = (Above(p) \ Above(f)) \cup ({f} \cup Above(d))
  BY <1>2
<1>6. r \in Above(p)' /\ mode'[r] = "RESTRICTED"
  BY <1>3, <1>5
<1>7. SUFFICES ASSUME NEW x, NEW n \in BOOLEAN, Admits(x, n, p)'
               PROVE  Admits(x, n, p)
  BY DEF Narrower
<1>8. PICK g \in Above(p)' : Holds(x, g, n)' /\ r \in Above(g)' /\ Unrestricted(Before(p, g))'
  BY <1>1, <1>6, <1>7, HiddenByNext DEF Hiding
<1>9. g \in Above(p) \ Above(f)
  <2>1. g # f
    BY <1>2, <1>4, <1>8
  <2>2. g \notin Above(d)
    <3>1. SUFFICES ASSUME g \in Above(d)
                   PROVE  FALSE
      OBVIOUS
    <3>2. g \in Live /\ Above(g) \subseteq Above(d)
      BY <1>1, <1>3, <3>1 DEF WayFacts, Up
    <3>3. Above(g)' = Above(g)
      BY <1>2, <3>2
    <3> QED
      BY <1>4, <1>8, <3>2, <3>3
  <2> QED
    BY <1>5, <1>8, <2>1, <2>2
<1>10. Above(g)' = (Above(g) \ Above(f)) \cup ({f} \cup Above(d)) /\ f \in Above(g) /\ Above(f) \subseteq Above(g)
  BY <1>1, <1>2, <1>3, <1>4, <1>9 DEF WayFacts, Up
<1>11. Unrestricted(Before(p, g))
  <2>1. SUFFICES ASSUME NEW h \in Above(p), h \notin Above(g)
                 PROVE  mode[h] # "RESTRICTED"
    BY DEF Unrestricted, Before
  <2>2. h \in Above(p) \ Above(f)
    BY <1>10, <2>1
  <2>3. h \in Above(p)' /\ h \notin Above(g)'
    BY <1>4, <1>5, <1>10, <2>1, <2>2
  <2> QED
    BY <1>3, <1>8, <2>1, <2>3 DEF Unrestricted, Before
<1>12. Holds(x, g, n)
  BY <1>3, <1>8, <1>9, FewerHold
<1> QED
  BY <1>9, <1>11, <1>12 DEF Admits, Lets

\* A move opens at most what is moved, which its actor could edit, save what a
\* restricted folder in it kept and still keeps from the actor.
LEMMA OwedMoveFolder ==
  ASSUME TreeInv, TreeInv', NEW a \in Users, NEW f \in Live, NEW d \in Live \cup {Root},
         MoveFolder(a, f, d), NEW t \in Kept
  PROVE  Reaches(a, t) = 2 \/ ~ Wider(t)
<1>1. /\ parent' = [parent EXCEPT ![f] = d] /\ UNCHANGED <<at, vmode, role, public, paid>>
      /\ d \notin folderSubtree(f) /\ checkFolderAccess(a, f).canEdit
      /\ mode' = ClosedPublic(IF Enclosed(d) THEN folderSubtree(f) ELSE {})
  BY DEF MoveFolder, Relocate
<1>2. Names /\ WayFacts /\ Names' /\ WayFacts'
  BY LiveNames, Ways, NamesNext, WaysNext DEF TreeInv
<1>3. f \notin Above(d)
  BY <1>1, <1>2, Below
<1>4. /\ Live' = Live
      /\ \A h \in Live : f \notin Above(h) => Above(h)' = Above(h)
  BY <1>1, <1>2, <1>3, MovedWays DEF TreeInv
<1>5. \A g \in Folders : /\ mode'[g] = "RESTRICTED" <=> mode[g] = "RESTRICTED"
                         /\ mode'[g] = "PUBLIC" => mode[g] = "PUBLIC"
  BY <1>1, ClosedIs
<1>6. paid /\ (projectAudience(a, TRUE, Root) \/ Admits(a, TRUE, f))
  BY <1>1, EditorOf
<1>7. FewerRoles /\ NarrowProject(Root)
  BY <1>1, SameRoles, FewerProject
<1>8. \A p : \A h \in Above(p) : h \in Folders /\ h \in Live
  BY <1>2, LiveThings DEF WayFacts, Inside
<1>9. ASSUME NEW p \in Live, f \notin Above(p)
      PROVE  Narrower(p)
  <2>1. \A h \in Above(p) : f \notin Above(h) /\ h # f
    BY <1>2, <1>9 DEF WayFacts, Up
  <2>2. \A h \in Above(p) : Above(h)' = Above(h) /\ parent'[h] = parent[h]
    BY <1>1, <1>4, <1>8, <2>1 DEF TreeInv, TypeOK
  <2> QED
    BY <1>4, <1>5, <1>7, <1>8, <1>9, <2>2, SameNarrower
<1>10. ASSUME NEW p \in Live, f \in Above(p), ~ Admits(a, TRUE, p), ~ projectAudience(a, TRUE, Root)
       PROVE  Narrower(p)
  <2>1. PICK r \in Above(p) \ Above(f) : mode[r] = "RESTRICTED"
    BY <1>2, <1>6, <1>10, Blocked
  <2> QED
    BY <1>1, <1>3, <1>5, <1>7, <1>10, <2>1, MoveBehind
<1>11. \A p \in Live \cap Live' : Owed(a, p)
  BY <1>9, <1>10 DEF Owed
<1> QED
  BY <1>1, <1>6, <1>7, <1>11, OwedThings

\* The right to edit file v, by the walk: the query form decides alike.
LEMMA VideoEditor ==
  ASSUME TreeInv, NEW a, NEW v \in LiveVideos, checkVideoAccess(a, v).canEdit
  PROVE  Reaches(a, v) = 2
<1>1. visibleVideo(a, TRUE, TRUE, v)
  BY LiveNames, Ways, Twins DEF TreeInv
<1> QED
  BY <1>1 DEF Reaches, LiveVideos

\* Publishing the project is for its editors, who edit all of it.
LEMMA OwedVisibility ==
  ASSUME TreeInv, TreeInv', NEW a \in Users, SetVisibility(a), NEW t \in Kept
  PROVE  Reaches(a, t) = 2 \/ ~ Wider(t)
<1>1. UNCHANGED <<parent, mode, at, vmode, role, paid>> /\ checkProjectAccess(a, Root).canEdit
  BY DEF SetVisibility
<1>2. /\ TypeOK /\ WayFacts /\ Shallow /\ Names
      /\ FolderSight /\ VideoSight /\ ReachTable
  BY LiveNames, Ways, SeesFolder, SeesVideo, ReachIs DEF TreeInv
<1>3. projectAudience(a, TRUE, Root) /\ paid
  BY <1>1, <1>2, ProjectTwin, EditsMore
<1>4. Sees(a, TRUE, t) => Reaches(a, t) = 2
  BY <1>2 DEF ReachTable
<1>5. CASE t \in Live
  BY <1>2, <1>3, <1>4, <1>5 DEF FolderSight
<1>6. CASE t \in LiveVideos \cap LiveVideos'
  <2>1. PICK p, pr : p = at[t] /\ pr = projectOf(t)
    OBVIOUS
  <2>2. pr \in {Root, There}
    BY <1>2, <1>6, <2>1, VideoThing
  <2>3. CASE pr = Root
    BY <1>2, <1>3, <1>4, <1>6, <2>1, <2>3 DEF VideoSight
  <2>4. CASE pr = There
    <3>1. FewerRoles /\ NarrowProject(pr)
      BY <1>1, <2>4, SameRoles, FewerProject
    <3>2. p \notin Live
      BY <1>2, <1>6, <2>1, <2>4, VideoThing, TreeAssumption
    <3> QED
      BY <1>1, <1>6, <2>1, <3>1, <3>2, NarrowVideo
  <2> QED
    BY <2>2, <2>3, <2>4
<1> QED
  BY <1>5, <1>6 DEF Kept

\* So does every operation, and every step.
LEMMA OwedContent ==
  ASSUME TreeInv, TreeInv', NEW a \in Users, Content(a), NEW t \in Kept
  PROVE  Reaches(a, t) = 2 \/ ~ Wider(t)
<1>0. TypeOK /\ (t \in LiveVideos => t \in Videos)
  BY DEF TreeInv, LiveVideos
<1>1. ASSUME UNCHANGED <<parent, mode, at, vmode, public, paid>>, FewerRoles
      PROVE  ~ Wider(t)
  BY <1>1, OwedFiles
<1>2. ASSUME NEW v \in LiveVideos, NEW m \in Modes \ {"PUBLIC"}, SetVideoAccess(a, v, m)
      PROVE  Reaches(a, t) = 2 \/ ~ Wider(t)
  <2>1. /\ UNCHANGED <<parent, mode, at, role, public, paid>> /\ vmode' = [vmode EXCEPT ![v] = m]
        /\ checkVideoAccess(a, v).canEdit
    BY <1>2 DEF SetVideoAccess
  <2>2. CASE t = v
    BY <2>1, <2>2, VideoEditor
  <2>3. CASE t # v
    BY <1>0, <2>1, <2>3, OwedFiles, SameRoles DEF TypeOK
  <2> QED
    BY <2>2, <2>3
<1>3. ASSUME NEW V \in SUBSET LiveVideos, NEW d \in Live \cup {Root, There}, MoveVideos(a, V, d)
      PROVE  Reaches(a, t) = 2 \/ ~ Wider(t)
  <2>1. /\ UNCHANGED <<parent, mode, vmode, role, public, paid>>
        /\ at' = [w \in Videos |-> IF w \in V THEN d ELSE at[w]]
        /\ \A v \in V : checkVideoAccess(a, v).canEdit
    BY <1>3 DEF MoveVideos
  <2>2. CASE t \in V
    BY <2>1, <2>2, VideoEditor
  <2>3. CASE t \notin V
    BY <1>0, <2>1, <2>3, OwedFiles, SameRoles
  <2> QED
    BY <2>2, <2>3
<1>4. ASSUME NEW v \in Videos, NEW d \in Live \cup {Root, There}, CreateVideo(a, v, d)
      PROVE  ~ Wider(t)
  <2>1. UNCHANGED <<parent, mode, vmode, role, public, paid>> /\ at' = [at EXCEPT ![v] = d] /\ at[v] = None
    BY <1>4 DEF CreateVideo
  <2>2. t \in LiveVideos => t # v
    BY <2>1 DEF LiveVideos
  <2> QED
    BY <1>0, <2>1, <2>2, OwedFiles, SameRoles DEF TypeOK
<1>5. ASSUME NEW V \in SUBSET LiveVideos, DeleteVideos(a, V)
      PROVE  ~ Wider(t)
  <2>1. /\ UNCHANGED <<parent, mode, public, paid>> /\ Forget(V)
        /\ at' = [w \in Videos |-> IF w \in V THEN None ELSE at[w]]
        /\ vmode' = [w \in Videos |-> IF w \in V THEN "INHERIT" ELSE vmode[w]]
    BY <1>5 DEF DeleteVideos
  <2>2. t \in LiveVideos' => t \notin V
    BY <2>1 DEF LiveVideos
  <2>3. FewerRoles
    BY <2>1 DEF FewerRoles, Forget
  <2> QED
    BY <1>0, <2>1, <2>2, <2>3, OwedFiles
<1>6. ASSUME NEW v \in LiveVideos, Share(a, v) \/ Unshare(a, v)
      PROVE  ~ Wider(t)
  BY <1>1, <1>6, SameRoles DEF Share, Unshare
<1>7. ASSUME NEW u \in Users, NEW s \in Live \cup LiveVideos, RevokeMember(a, u, s)
      PROVE  ~ Wider(t)
  <2>1. UNCHANGED <<parent, mode, at, vmode, public, paid>> /\ role' = [role EXCEPT ![u][s] = "NONE"]
    BY <1>7 DEF RevokeMember
  <2>2. FewerRoles
    BY <1>0, <2>1 DEF FewerRoles, TypeOK
  <2> QED
    BY <1>1, <2>1, <2>2
<1> QED
  BY <1>2, <1>3, <1>4, <1>5, <1>6, <1>7, OwedVisibility, OwedCreateFolder, OwedDeleteFolder,
     OwedSetFolderAccess, OwedMoveFolder DEF Content

LEMMA WidenStep ==
  TreeInv /\ TreeInv' /\ [Next]_vars =>
    [Rearranged /\ ~Granted => \A a \in Users : Manager(a) =>
       \A t \in Kept : Reaches(a, t) = 2 \/ ~Wider(t) \/ ~Content(a)]_vars
BY OwedContent

\* No manager of a part of the tree opens another part, to anybody: who comes to see or
\* edit more owes it to somebody who could edit that very thing (the content transactions).
THEOREM ManagersWiden == Spec => OnlyManagersWiden
BY TreeInvariant, WidenStep, PTL DEF Spec, OnlyManagersWiden

-----------------------------------------------------------------------------
(* Approvals.                                                              *)

CallTypes == {Reviews!Idle} \cup Reviews!Creating \cup Reviews!Inserting \cup Reviews!Deciding \cup Reviews!Recording
                \cup Reviews!Announcing \cup Reviews!Canceling

\* A request has approvers from the moment it exists, and no decisions before.
RowsTogether ==
    \A q \in Requests :
        IF status[q] = "none" THEN \A a \in Approvers : decision[q][a] = "none"
        ELSE Reviews!Asked(q) # {}

\* A creating transaction saw no pending request, and those it saw stay settled.
SeenSettled ==
    \A c \in Calls : call[c].at = "create.commit" =>
        \A q \in call[c].seen : status[q] \notin {"none", "PENDING"}

\* A deciding transaction saw its approver's decision pending.
SeenUnanswered ==
    \A c \in Calls : call[c].at = "decide.commit" =>
        /\ status[call[c].request] # "none"
        /\ call[c].seen[call[c].approver] = "PENDING"

\* At most one call is about to announce a request's outcome.
OneAnnouncer ==
    \A c, d \in Calls :
        /\ call[c].at = "decide.announce" /\ call[d].at = "decide.announce"
        /\ call[c].request = call[d].request
        => c = d

ReviewInv ==
    /\ Reviews!TypeOK
    /\ RowsTogether
    /\ SeenSettled
    /\ SeenUnanswered
    /\ OneAnnouncer
    /\ Reviews!OutcomeMatchesAnswers
    /\ Reviews!OnePendingPerVersion
    /\ Reviews!OutcomeAnnouncedOnce

-----------------------------------------------------------------------------
(* Type correctness.                                                       *)

\* What a call is about to do says what it has read.
LEMMA CallType ==
    ASSUME Reviews!TypeOK, NEW c \in Calls
    PROVE  /\ call[c].at = "create.read" => call[c] \in Reviews!Creating
           /\ call[c].at = "create.commit" => call[c] \in Reviews!Inserting
           /\ call[c].at = "decide.read" => call[c] \in Reviews!Deciding
           /\ call[c].at = "decide.commit" => call[c] \in Reviews!Recording
           /\ call[c].at = "decide.announce" => call[c] \in Reviews!Announcing
           /\ call[c].at \in {"cancel.read", "cancel.commit"} => call[c] \in Reviews!Canceling
  BY DEF Reviews!TypeOK, Reviews!Idle, Reviews!Creating, Reviews!Inserting, Reviews!Deciding,
     Reviews!Recording, Reviews!Announcing, Reviews!Canceling

\* An outcome other than PENDING is an answer.
LEMMA OutcomeType ==
    ASSUME NEW m \in Reviews!Recording
    PROVE  Reviews!Outcome(m) \in {"PENDING", "APPROVED", "REJECTED"}
  BY DEF Reviews!Outcome

\* Every step keeps the tables and the calls in their types.
LEMMA ReviewTypeStep == Reviews!TypeOK /\ [Reviews!Next]_Reviews!vars => Reviews!TypeOK'
<1> SUFFICES ASSUME Reviews!TypeOK, [Reviews!Next]_Reviews!vars PROVE Reviews!TypeOK'
  OBVIOUS
<1> USE DEF Reviews!TypeOK, Reviews!Statuses, Reviews!Answers, Reviews!Decisions, Reviews!Put,
   Reviews!tables
<1>1. ASSUME NEW c \in Calls, Reviews!Continue(c) PROVE Reviews!TypeOK'
  <2> USE CallType
  <2>1. CASE Reviews!CreateRead(c)
    BY <2>1 DEF Reviews!CreateRead, Reviews!Creating, Reviews!Inserting, Reviews!Of
  <2>2. CASE Reviews!DecideRead(c)
    BY <2>2 DEF Reviews!DecideRead, Reviews!Deciding, Reviews!Recording
  <2>3. CASE Reviews!DecideCommit(c)
    <3> DEFINE m == call[c]
    <3>1. m \in Reviews!Recording /\ Reviews!Outcome(m) \in {"PENDING", "APPROVED", "REJECTED"}
      BY <2>3, OutcomeType DEF Reviews!DecideCommit
    <3>2. m.request \in Requests /\ m.approver \in Approvers /\ m.answer \in Reviews!Answers
      BY <3>1 DEF Reviews!Recording
    <3>3. decision' \in [Requests -> Reviews!Decisions]
      BY <2>3, <3>2 DEF Reviews!DecideCommit
    <3>4. status' \in [Requests -> Reviews!Statuses]
      BY <2>3, <3>1, <3>2 DEF Reviews!DecideCommit
    <3>5. call' \in [Calls -> CallTypes]
      <4>1. PICK state \in CallTypes : Reviews!Put(c, state)
        <5>1. CASE Reviews!Outcome(m) = "PENDING"
          BY <2>3, <5>1 DEF Reviews!DecideCommit, CallTypes
        <5>2. CASE Reviews!Outcome(m) # "PENDING"
          <6>1. [at |-> "decide.announce", request |-> m.request, outcome |-> Reviews!Outcome(m)]
                   \in Reviews!Announcing
            BY <3>1, <3>2, <5>2 DEF Reviews!Announcing
          <6>2. QED
            BY <2>3, <5>2, <6>1 DEF Reviews!DecideCommit, CallTypes
        <5>3. QED
          BY <5>1, <5>2
      <4>2. QED
        BY <4>1 DEF CallTypes
    <3>6. QED
      BY <2>3, <3>3, <3>4, <3>5 DEF Reviews!DecideCommit, CallTypes
  <2>4. CASE Reviews!Announce(c)
    BY <2>4 DEF Reviews!Announce, Reviews!Announcing
  <2>5. CASE Reviews!CancelRead(c)
    BY <2>5 DEF Reviews!CancelRead, Reviews!Canceling
  <2>6. CASE Reviews!CancelCommit(c)
    BY <2>6 DEF Reviews!CancelCommit, Reviews!Canceling
  <2>7. CASE Reviews!Refuse(c) \/ Reviews!Crash(c)
    BY <2>7 DEF Reviews!Refuse, Reviews!Crash
  <2>8. QED
    BY <1>1, <2>1, <2>2, <2>3, <2>4, <2>5, <2>6, <2>7 DEF Reviews!Continue
<1>2. ASSUME NEW c \in Calls, NEW v \in Versions, NEW S \in SUBSET Approvers,
             Reviews!CreateCheck(c, v, S)
      PROVE  Reviews!TypeOK'
  BY <1>2 DEF Reviews!CreateCheck, Reviews!Creating
<1>3. ASSUME NEW c \in Calls, NEW q \in Requests, Reviews!CreateCommit(c, q) PROVE Reviews!TypeOK'
  <2>1. call[c].version \in Versions
    BY <1>3, CallType DEF Reviews!CreateCommit, Reviews!Inserting
  <2>2. decision' \in [Requests -> Reviews!Decisions]
    BY <1>3 DEF Reviews!CreateCommit
  <2>3. QED
    BY <1>3, <2>1, <2>2 DEF Reviews!CreateCommit
<1>4. ASSUME NEW c \in Calls, NEW q \in Requests, Reviews!CancelCheck(c, q) PROVE Reviews!TypeOK'
  BY <1>4 DEF Reviews!CancelCheck, Reviews!Canceling
<1>5. ASSUME NEW c \in Calls, NEW q \in Requests, NEW a \in Approvers, NEW answer \in Reviews!Answers,
             Reviews!DecideCheck(c, q, a, answer)
      PROVE  Reviews!TypeOK'
  BY <1>5 DEF Reviews!DecideCheck, Reviews!Deciding
<1>6. CASE UNCHANGED Reviews!vars
  BY <1>6 DEF Reviews!vars
<1>7. QED
  BY <1>1, <1>2, <1>3, <1>4, <1>5, <1>6 DEF Reviews!Next

\* The tables and the calls keep their types, whatever calls overlap or die.
THEOREM ReviewTyped == Reviews!Spec => []Reviews!TypeOK
<1>1. Reviews!Init => Reviews!TypeOK
  BY DEF Reviews!Init, Reviews!TypeOK, Reviews!Statuses, Reviews!Decisions, Reviews!Answers
<1>2. Reviews!TypeOK /\ [Reviews!Next]_Reviews!vars => Reviews!TypeOK'
  BY ReviewTypeStep
<1>3. QED
  BY <1>1, <1>2, PTL DEF Reviews!Spec

-----------------------------------------------------------------------------
(* The inductive invariant.                                                *)
LEMMA ReviewInit == Reviews!Init => ReviewInv
<1> SUFFICES ASSUME Reviews!Init PROVE ReviewInv
  OBVIOUS
<1>1. Reviews!TypeOK
  BY DEF Reviews!Init, Reviews!TypeOK, Reviews!Statuses, Reviews!Decisions, Reviews!Answers
<1>2. \A c \in Calls : call[c].at = "idle"
  BY DEF Reviews!Init, Reviews!Idle
<1>3. QED
  BY <1>1, <1>2 DEF Reviews!Init, ReviewInv, RowsTogether, SeenSettled, SeenUnanswered,
     OneAnnouncer, Reviews!OutcomeMatchesAnswers, Reviews!OnePendingPerVersion,
     Reviews!OutcomeAnnouncedOnce, Reviews!Pending, Reviews!Answers

\* What the other calls refer to exists.
LEMMA CallsReferToRows ==
    ASSUME Reviews!TypeOK
    PROVE  /\ \A d \in Calls : call[d].at = "create.commit" => call[d].seen \subseteq Requests
           /\ \A d \in Calls : call[d].at \in {"decide.commit", "decide.announce"} =>
                 call[d].request \in Requests
           /\ \A d \in Calls : call[d].at = "decide.announce" => call[d].outcome \in Reviews!Answers
  BY CallType DEF Reviews!Inserting, Reviews!Recording, Reviews!Announcing

ReviewRest ==
    /\ RowsTogether /\ SeenSettled /\ SeenUnanswered /\ OneAnnouncer
    /\ Reviews!OutcomeMatchesAnswers /\ Reviews!OnePendingPerVersion /\ Reviews!OutcomeAnnouncedOnce

\* Opening a request: its row and its decisions appear together, on a version
\* none of whose requests is pending.
LEMMA CreateKeeps ==
    ASSUME ReviewInv, NEW c \in Calls, NEW q \in Requests, Reviews!CreateCommit(c, q)
    PROVE  ReviewRest'
<1> DEFINE v == call[c].version
           S == call[c].approvers
<1>0. Reviews!TypeOK
  BY DEF ReviewInv
<1>1. status[q] = "none" /\ v \in Versions /\ S \subseteq Approvers /\ S # {}
  BY <1>0, CallType DEF Reviews!CreateCommit, Reviews!Inserting
<1>2. \A p \in Requests : target[p] = v => status[p] # "PENDING"
  BY DEF Reviews!CreateCommit, Reviews!Of, ReviewInv, SeenSettled
<1>3. /\ status'[q] = "PENDING" /\ target'[q] = v
      /\ \A p \in Requests \ {q} : status'[p] = status[p] /\ target'[p] = target[p]
      /\ announced' = announced
  BY <1>0 DEF Reviews!CreateCommit, Reviews!TypeOK
<1>4. /\ \A b \in Approvers : decision'[q][b] = IF b \in S THEN "PENDING" ELSE "none"
      /\ \A p \in Requests \ {q} : decision'[p] = decision[p]
  BY <1>0 DEF Reviews!CreateCommit, Reviews!TypeOK
<1>5. call'[c].at = "idle" /\ \A d \in Calls \ {c} : call'[d] = call[d]
  BY <1>0 DEF Reviews!CreateCommit, Reviews!Idle, Reviews!Put, Reviews!TypeOK
<1> HIDE DEF v, S
<1>6. RowsTogether'
  BY <1>1, <1>3, <1>4 DEF ReviewInv, RowsTogether, Reviews!Asked
<1>7. Reviews!OutcomeMatchesAnswers'
  BY <1>1, <1>3, <1>4 DEF ReviewInv, Reviews!OutcomeMatchesAnswers, Reviews!Asked
<1>8. Reviews!OnePendingPerVersion'
  BY <1>2, <1>3 DEF ReviewInv, Reviews!OnePendingPerVersion, Reviews!Pending
<1>9. SeenSettled'
  BY <1>0, <1>1, <1>3, <1>5, CallsReferToRows DEF ReviewInv, SeenSettled
<1>10. SeenUnanswered'
  BY <1>0, <1>3, <1>5, CallsReferToRows DEF ReviewInv, SeenUnanswered
<1>11. OneAnnouncer'
  BY <1>5 DEF ReviewInv, OneAnnouncer
<1>12. Reviews!OutcomeAnnouncedOnce'
  <2>1. announced[q] # 1
    BY <1>1 DEF ReviewInv, Reviews!OutcomeAnnouncedOnce, Reviews!Answers
  <2>2. \A d \in Calls : call[d].at = "decide.announce" => call[d].request # q
    BY <1>0, <1>1, CallsReferToRows DEF ReviewInv, Reviews!OutcomeAnnouncedOnce, Reviews!Answers
  <2>3. QED
    BY <1>0, <1>3, <1>5, <2>1, <2>2, CallsReferToRows DEF ReviewInv, Reviews!OutcomeAnnouncedOnce
<1>13. QED
  BY <1>6, <1>7, <1>8, <1>9, <1>10, <1>11, <1>12 DEF ReviewRest

\* Recording an answer: it resolves the request exactly when it rejects it or
\* leaves no decision pending, and then no other call announces an outcome.
LEMMA DecideKeeps ==
    ASSUME ReviewInv, NEW c \in Calls, Reviews!DecideCommit(c)
    PROVE  ReviewRest'
<1> DEFINE m == call[c]
           q == m.request
           a == m.approver
<1>0. Reviews!TypeOK
  BY DEF ReviewInv
<1>1. m \in Reviews!Recording
  BY <1>0, CallType DEF Reviews!DecideCommit
<1>2. q \in Requests /\ a \in Approvers /\ m.answer \in Reviews!Answers
  BY <1>1 DEF Reviews!Recording
<1>3. /\ decision[q] = m.seen /\ decision[q][a] = "PENDING" /\ status[q] # "none"
      /\ Reviews!Outcome(m) # "PENDING" => status[q] = "PENDING"
  BY DEF Reviews!DecideCommit, Reviews!Serializable, ReviewInv, SeenUnanswered, Reviews!Pending
<1>4. /\ decision'[q][a] = m.answer
      /\ \A b \in Approvers \ {a} : decision'[q][b] = decision[q][b]
      /\ \A p \in Requests \ {q} : decision'[p] = decision[p]
  BY <1>0, <1>2 DEF Reviews!DecideCommit, Reviews!TypeOK, Reviews!Decisions
<1>5. /\ status'[q] = IF Reviews!Outcome(m) = "PENDING" THEN status[q] ELSE Reviews!Outcome(m)
      /\ \A p \in Requests \ {q} : status'[p] = status[p]
      /\ target' = target /\ announced' = announced
  BY <1>0, <1>2 DEF Reviews!DecideCommit, Reviews!TypeOK
<1>6. /\ \A d \in Calls \ {c} : call'[d] = call[d]
      /\ \/ call'[c].at = "idle"
         \/ /\ call'[c].at = "decide.announce" /\ call'[c].request = q
            /\ call'[c].outcome = Reviews!Outcome(m) /\ Reviews!Outcome(m) # "PENDING"
  BY <1>0 DEF Reviews!DecideCommit, Reviews!Idle, Reviews!Put, Reviews!TypeOK
<1>7. /\ Reviews!Outcome(m) \in {"PENDING"} \cup Reviews!Answers
      /\ Reviews!Outcome(m) = "REJECTED" <=> m.answer = "REJECTED"
      /\ Reviews!Outcome(m) = "APPROVED" <=>
            \A b \in Approvers : decision'[q][b] \in {"none", "APPROVED"}
  BY <1>2, <1>3, <1>4 DEF Reviews!Outcome, Reviews!Answers
<1> HIDE DEF m, q, a
<1>8. \A p \in Requests : \/ status'[p] = status[p]
                          \/ status[p] = "PENDING" /\ status'[p] \in Reviews!Answers
  BY <1>2, <1>3, <1>5, <1>7
<1>9. RowsTogether'
  <2>1. \E b \in Approvers : decision'[q][b] # "none"
    BY <1>2, <1>4 DEF Reviews!Answers
  <2>2. status'[q] # "none"
    BY <1>3, <1>5, <1>7 DEF Reviews!Answers
  <2>3. \A p \in Requests :
           IF status'[p] = "none" THEN \A b \in Approvers : decision'[p][b] = "none"
                                  ELSE {b \in Approvers : decision'[p][b] # "none"} # {}
    <3> SUFFICES ASSUME NEW p \in Requests
        PROVE  IF status'[p] = "none" THEN \A b \in Approvers : decision'[p][b] = "none"
                                      ELSE {b \in Approvers : decision'[p][b] # "none"} # {}
      OBVIOUS
    <3>1. CASE p = q
      BY <2>1, <2>2, <3>1
    <3>2. CASE p # q
      BY <1>4, <1>5, <3>2 DEF ReviewInv, RowsTogether, Reviews!Asked
    <3>3. QED
      BY <3>1, <3>2
  <2>4. QED
    BY <2>3 DEF RowsTogether, Reviews!Asked
<1>10. SeenSettled'
  BY <1>0, <1>6, <1>8, CallsReferToRows DEF ReviewInv, SeenSettled, Reviews!Answers
<1>11. SeenUnanswered'
  BY <1>0, <1>6, <1>8, CallsReferToRows DEF ReviewInv, SeenUnanswered, Reviews!Answers
<1>12. Reviews!OnePendingPerVersion'
  BY <1>5, <1>8 DEF ReviewInv, Reviews!OnePendingPerVersion, Reviews!Pending, Reviews!Answers
<1>13. CASE Reviews!Outcome(m) = "PENDING"
  <2>1. status' = status
    BY <1>0, <1>13 DEF Reviews!DecideCommit, m
  <2>2. call'[c].at = "idle"
    BY <1>6, <1>13
  <2>3. OneAnnouncer'
    BY <1>6, <2>2 DEF ReviewInv, OneAnnouncer
  <2>4. Reviews!OutcomeAnnouncedOnce'
    BY <1>5, <1>6, <2>1, <2>2 DEF ReviewInv, Reviews!OutcomeAnnouncedOnce
  <2>5. m.answer = "APPROVED" /\ ~ \A b \in Approvers : decision'[q][b] \in {"none", "APPROVED"}
    BY <1>2, <1>7, <1>13 DEF Reviews!Answers
  <2>6. status[q] # "APPROVED"
    BY <1>2, <1>3 DEF ReviewInv, Reviews!OutcomeMatchesAnswers, Reviews!Asked
  <2>7. \A b \in Approvers : decision'[q][b] = "REJECTED" <=> decision[q][b] = "REJECTED"
    BY <1>3, <1>4, <2>5
  <2>8. Reviews!OutcomeMatchesAnswers'
    BY <1>2, <1>4, <2>1, <2>5, <2>6, <2>7 DEF ReviewInv, Reviews!OutcomeMatchesAnswers,
       Reviews!Asked
  <2>9. QED
    BY <1>9, <1>10, <1>11, <1>12, <2>3, <2>4, <2>8 DEF ReviewRest
<1>14. CASE Reviews!Outcome(m) # "PENDING"
  <2>1. status[q] = "PENDING" /\ status'[q] = Reviews!Outcome(m) /\ Reviews!Outcome(m) \in Reviews!Answers
    BY <1>3, <1>5, <1>7, <1>14
  <2>2. announced[q] = 0
    BY <1>0, <1>2, <2>1 DEF ReviewInv, Reviews!OutcomeAnnouncedOnce, Reviews!TypeOK,
       Reviews!Answers
  <2>3. \A d \in Calls : call[d].at = "decide.announce" =>
           call[d].request \in Requests \ {q}
    BY <1>0, <2>1, CallsReferToRows DEF ReviewInv, Reviews!OutcomeAnnouncedOnce, Reviews!Answers
  <2>4. OneAnnouncer'
    BY <1>6, <2>3 DEF ReviewInv, OneAnnouncer
  <2>5. Reviews!OutcomeAnnouncedOnce'
    BY <1>2, <1>5, <1>6, <2>1, <2>2, <2>3 DEF ReviewInv, Reviews!OutcomeAnnouncedOnce
  <2>6. \A b \in Approvers : decision[q][b] # "REJECTED"
    BY <1>2, <2>1 DEF ReviewInv, Reviews!OutcomeMatchesAnswers, Reviews!Asked
  <2>7. \A b \in Approvers : decision'[q][b] = "REJECTED" <=> b = a /\ m.answer = "REJECTED"
    BY <1>2, <1>4, <2>6
  <2>8. Reviews!OutcomeMatchesAnswers'
    BY <1>2, <1>4, <1>5, <1>7, <2>1, <2>7 DEF ReviewInv, Reviews!OutcomeMatchesAnswers,
       Reviews!Asked, Reviews!Answers
  <2>9. QED
    BY <1>9, <1>10, <1>11, <1>12, <2>4, <2>5, <2>8 DEF ReviewRest
<1>15. QED
  BY <1>13, <1>14

\* Cancelling a pending request: nothing was announced, nothing is decided.
LEMMA CancelKeeps ==
    ASSUME ReviewInv, NEW c \in Calls, Reviews!CancelCommit(c)
    PROVE  ReviewRest'
<1> DEFINE q == call[c].request
<1>0. Reviews!TypeOK
  BY DEF ReviewInv
<1>1. q \in Requests /\ status[q] = "PENDING"
  BY <1>0, CallType DEF Reviews!CancelCommit, Reviews!Canceling, Reviews!Pending
<1>2. /\ status'[q] = "CANCELED"
      /\ \A p \in Requests \ {q} : status'[p] = status[p]
      /\ target' = target /\ decision' = decision /\ announced' = announced
  BY <1>0, <1>1 DEF Reviews!CancelCommit, Reviews!TypeOK
<1>3. call'[c].at = "idle" /\ \A d \in Calls \ {c} : call'[d] = call[d]
  BY <1>0 DEF Reviews!CancelCommit, Reviews!Idle, Reviews!Put, Reviews!TypeOK
<1> HIDE DEF q
<1>4. RowsTogether'
  BY <1>1, <1>2 DEF ReviewInv, RowsTogether, Reviews!Asked
<1>5. Reviews!OutcomeMatchesAnswers'
  BY <1>1, <1>2 DEF ReviewInv, Reviews!OutcomeMatchesAnswers, Reviews!Asked
<1>6. Reviews!OnePendingPerVersion'
  BY <1>2 DEF ReviewInv, Reviews!OnePendingPerVersion, Reviews!Pending
<1>7. SeenSettled'
  BY <1>0, <1>2, <1>3, CallsReferToRows DEF ReviewInv, SeenSettled
<1>8. SeenUnanswered'
  BY <1>0, <1>2, <1>3, CallsReferToRows DEF ReviewInv, SeenUnanswered
<1>9. OneAnnouncer'
  BY <1>3 DEF ReviewInv, OneAnnouncer
<1>10. Reviews!OutcomeAnnouncedOnce'
  <2>1. announced[q] # 1
    BY <1>1 DEF ReviewInv, Reviews!OutcomeAnnouncedOnce, Reviews!Answers
  <2>2. \A d \in Calls : call[d].at = "decide.announce" => call[d].request # q
    BY <1>0, <1>1, CallsReferToRows DEF ReviewInv, Reviews!OutcomeAnnouncedOnce, Reviews!Answers
  <2>3. QED
    BY <1>0, <1>2, <1>3, <2>1, <2>2, CallsReferToRows DEF ReviewInv, Reviews!OutcomeAnnouncedOnce
<1>11. QED
  BY <1>4, <1>5, <1>6, <1>7, <1>8, <1>9, <1>10 DEF ReviewRest

\* Announcing an outcome: the only call about to announce it did.
LEMMA AnnounceKeeps ==
    ASSUME ReviewInv, NEW c \in Calls, Reviews!Announce(c)
    PROVE  ReviewRest'
<1> DEFINE q == call[c].request
<1>0. Reviews!TypeOK
  BY DEF ReviewInv
<1>1. q \in Requests /\ status[q] \in Reviews!Answers /\ announced[q] = 0
  BY <1>0, CallsReferToRows DEF Reviews!Announce, ReviewInv, Reviews!OutcomeAnnouncedOnce
<1>2. /\ announced'[q] = 1
      /\ \A p \in Requests \ {q} : announced'[p] = announced[p]
      /\ status' = status /\ target' = target /\ decision' = decision
  BY <1>0, <1>1 DEF Reviews!Announce, Reviews!TypeOK, Reviews!tables
<1>3. call'[c].at = "idle" /\ \A d \in Calls \ {c} : call'[d] = call[d]
  BY <1>0 DEF Reviews!Announce, Reviews!Idle, Reviews!Put, Reviews!TypeOK
<1>4. \A d \in Calls \ {c} : call[d].at = "decide.announce" =>
         call[d].request \in Requests \ {q}
  BY <1>0, CallsReferToRows DEF Reviews!Announce, ReviewInv, OneAnnouncer
<1> HIDE DEF q
<1>5. (RowsTogether /\ Reviews!OutcomeMatchesAnswers /\ Reviews!OnePendingPerVersion)'
  BY <1>2 DEF ReviewInv, RowsTogether, Reviews!OutcomeMatchesAnswers,
     Reviews!OnePendingPerVersion, Reviews!Asked, Reviews!Pending
<1>6. (SeenSettled /\ SeenUnanswered /\ OneAnnouncer)'
  BY <1>2, <1>3 DEF ReviewInv, SeenSettled, SeenUnanswered, OneAnnouncer
<1>7. Reviews!OutcomeAnnouncedOnce'
  BY <1>1, <1>2, <1>3, <1>4 DEF ReviewInv, Reviews!OutcomeAnnouncedOnce
<1>8. QED
  BY <1>5, <1>6, <1>7 DEF ReviewRest

\* A step that only moves a call on, to a snapshot that tells the truth.
LEMMA ReadKeeps ==
    ASSUME ReviewInv, NEW c \in Calls, UNCHANGED <<status, target, decision, announced>>,
           \A d \in Calls \ {c} : call'[d] = call[d],
           call'[c].at # "decide.announce",
           call'[c].at = "create.commit" =>
               \A q \in call'[c].seen : status[q] \notin {"none", "PENDING"},
           call'[c].at = "decide.commit" =>
               /\ status[call'[c].request] # "none"
               /\ call'[c].seen[call'[c].approver] = "PENDING"
    PROVE  ReviewRest'
<1>1. (RowsTogether /\ Reviews!OutcomeMatchesAnswers /\ Reviews!OnePendingPerVersion)'
  BY DEF ReviewInv, RowsTogether, Reviews!OutcomeMatchesAnswers, Reviews!OnePendingPerVersion,
     Reviews!Asked, Reviews!Pending
<1>2. (SeenSettled /\ SeenUnanswered /\ OneAnnouncer /\ Reviews!OutcomeAnnouncedOnce)'
  BY DEF ReviewInv, SeenSettled, SeenUnanswered, OneAnnouncer, Reviews!OutcomeAnnouncedOnce
<1>3. QED
  BY <1>1, <1>2 DEF ReviewRest

\* The invariant survives every step.
LEMMA ReviewStep == ReviewInv /\ [Reviews!Next]_Reviews!vars => ReviewInv'
<1> SUFFICES ASSUME ReviewInv, [Reviews!Next]_Reviews!vars PROVE ReviewInv'
  OBVIOUS
<1>a. Reviews!TypeOK /\ Reviews!TypeOK'
  BY ReviewTypeStep DEF ReviewInv
<1>b. SUFFICES ReviewRest'
  BY <1>a DEF ReviewInv, ReviewRest
<1>c. call \in [Calls -> CallTypes]
  BY <1>a DEF Reviews!TypeOK, CallTypes
<1> USE DEF Reviews!Put, Reviews!tables, Reviews!Idle
<1>1. ASSUME NEW c \in Calls, Reviews!Continue(c) PROVE ReviewRest'
  <2>1. CASE Reviews!CreateRead(c)
    <3>1. \A q \in Reviews!Of(call[c].version) : status[q] \notin {"none", "PENDING"}
      BY <2>1 DEF Reviews!CreateRead, Reviews!Of, Reviews!Pending
    <3>2. QED
      BY <1>c, <2>1, <3>1, ReadKeeps DEF Reviews!CreateRead
  <2>2. CASE Reviews!DecideRead(c)
    BY <1>c, <2>2, ReadKeeps DEF Reviews!DecideRead, Reviews!Pending
  <2>3. CASE Reviews!CancelRead(c)
    BY <1>a, <1>c, <2>3, ReadKeeps, CallType DEF Reviews!CancelRead, Reviews!Canceling
  <2>4. CASE Reviews!Refuse(c) \/ Reviews!Crash(c)
    BY <1>c, <2>4, ReadKeeps DEF Reviews!Refuse, Reviews!Crash
  <2>5. QED
    BY <1>1, <2>1, <2>2, <2>3, <2>4, DecideKeeps, CancelKeeps, AnnounceKeeps DEF Reviews!Continue
<1>2. ASSUME NEW c \in Calls, NEW v \in Versions, NEW S \in SUBSET Approvers,
             Reviews!CreateCheck(c, v, S)
      PROVE  ReviewRest'
  BY <1>c, <1>2, ReadKeeps DEF Reviews!CreateCheck
<1>3. ASSUME NEW c \in Calls, NEW q \in Requests, Reviews!CancelCheck(c, q) PROVE ReviewRest'
  BY <1>c, <1>3, ReadKeeps DEF Reviews!CancelCheck
<1>4. ASSUME NEW c \in Calls, NEW q \in Requests, NEW a \in Approvers, NEW answer \in Reviews!Answers,
             Reviews!DecideCheck(c, q, a, answer)
      PROVE  ReviewRest'
  BY <1>c, <1>4, ReadKeeps DEF Reviews!DecideCheck
<1>5. CASE UNCHANGED Reviews!vars
  BY <1>5 DEF Reviews!vars, ReviewInv, ReviewRest, RowsTogether, SeenSettled, SeenUnanswered,
     OneAnnouncer, Reviews!OutcomeMatchesAnswers, Reviews!OnePendingPerVersion,
     Reviews!OutcomeAnnouncedOnce, Reviews!Asked, Reviews!Pending
<1>6. QED
  BY <1>1, <1>2, <1>3, <1>4, <1>5, CreateKeeps DEF Reviews!Next

THEOREM ReviewInvariant == Reviews!Spec => []ReviewInv
  BY ReviewInit, ReviewStep, PTL DEF Reviews!Spec

-----------------------------------------------------------------------------
(* What follows from it.                                                   *)

\* For any set of approvers answering, and any cancellation, at the same time,
\* the outcome of a request is the one its recorded answers call for.
THEOREM OutcomeCorrect == Reviews!Spec => []OutcomeMatchesAnswers
<1>1. ReviewInv => OutcomeMatchesAnswers
  BY DEF ReviewInv, OutcomeMatchesAnswers
<1>2. QED
  BY <1>1, ReviewInvariant, PTL

\* Concurrent calls that both found no pending request do not both open one.
THEOREM OnePending == Reviews!Spec => []Reviews!OnePendingPerVersion
<1>1. ReviewInv => Reviews!OnePendingPerVersion
  BY DEF ReviewInv
<1>2. QED
  BY <1>1, ReviewInvariant, PTL

\* The completion event and the rejection notice of a request are sent at most
\* once, by the call whose transaction resolved it.
THEOREM AnnouncedOnce == Reviews!Spec => []OutcomeAnnouncedOnce
<1>1. ReviewInv => OutcomeAnnouncedOnce
  BY DEF ReviewInv, OutcomeAnnouncedOnce
<1>2. QED
  BY <1>1, ReviewInvariant, PTL

\* No answer is replaced and no settled request moves again, whatever was read
\* before: the decision routes write only what they saw pending.
THEOREM AnswersFinal == Reviews!Spec => Reviews!AnswersAreFinal
<1>1. ASSUME ReviewInv, [Reviews!Next]_Reviews!vars
      PROVE  [\A q \in Requests :
                 /\ status[q] \in {"APPROVED", "REJECTED", "CANCELED"} => status'[q] = status[q]
                 /\ \A a \in Approvers :
                       decision[q][a] \in Reviews!Answers => decision'[q][a] = decision[q][a]]_Reviews!vars
  <2> DEFINE Goal == \A q \in Requests :
                 /\ status[q] \in {"APPROVED", "REJECTED", "CANCELED"} => status'[q] = status[q]
                 /\ \A a \in Approvers :
                       decision[q][a] \in Reviews!Answers => decision'[q][a] = decision[q][a]
  <2>0. Reviews!TypeOK
    BY <1>1 DEF ReviewInv
  <2> SUFFICES ASSUME Reviews!Next PROVE Goal
    BY <1>1
  <2>1. ASSUME NEW c \in Calls, Reviews!DecideCommit(c) PROVE Goal
    <3>1. call[c] \in Reviews!Recording
      BY <2>0, <2>1, CallType DEF Reviews!DecideCommit
    <3>2. decision[call[c].request][call[c].approver] = "PENDING"
      BY <1>1, <2>1 DEF Reviews!DecideCommit, Reviews!Serializable, ReviewInv, SeenUnanswered
    <3>3. \A q \in Requests : status[q] \in {"APPROVED", "REJECTED", "CANCELED"} =>
             status'[q] = status[q]
      BY <2>0, <2>1, <3>1 DEF Reviews!DecideCommit, Reviews!Serializable, Reviews!Pending,
         Reviews!TypeOK, Reviews!Recording
    <3>4. \A q \in Requests, a \in Approvers :
             decision[q][a] \in Reviews!Answers => decision'[q][a] = decision[q][a]
      BY <2>0, <2>1, <3>1, <3>2 DEF Reviews!DecideCommit, Reviews!TypeOK, Reviews!Decisions,
         Reviews!Recording, Reviews!Answers
    <3>5. QED
      BY <3>3, <3>4
  <2>2. ASSUME NEW c \in Calls, NEW q \in Requests, Reviews!CreateCommit(c, q) PROVE Goal
    BY <1>1, <2>0, <2>2 DEF Reviews!CreateCommit, Reviews!TypeOK, ReviewInv, RowsTogether,
       Reviews!Answers
  <2>3. ASSUME NEW c \in Calls, Reviews!CancelCommit(c) PROVE Goal
    BY <2>0, <2>3 DEF Reviews!CancelCommit, Reviews!Pending, Reviews!TypeOK
  <2>4. CASE UNCHANGED <<status, decision>>
    BY <2>4
  <2>5. QED
    BY <2>1, <2>2, <2>3, <2>4 DEF Reviews!Next, Reviews!Continue, Reviews!CreateCheck,
       Reviews!CreateRead, Reviews!DecideCheck, Reviews!DecideRead, Reviews!Announce,
       Reviews!CancelCheck, Reviews!CancelRead, Reviews!Refuse, Reviews!Crash, Reviews!tables
<1>2. QED
  BY <1>1, ReviewInvariant, PTL DEF Reviews!Spec, Reviews!AnswersAreFinal

-----------------------------------------------------------------------------
(* The two side by side.                                                  *)

\* A behaviour of the two parts side by side is one of each: what is proved of the folders
\* and of the approvals holds of what the run checks.
THEOREM PartsApart == ProjectSpec => Spec /\ Reviews!Spec
<1>1. ProjectInit => Init /\ Reviews!Init
  BY DEF ProjectInit
<1>2. [ProjectNext]_everything => [Next]_vars
  BY DEF ProjectNext, Reviewing, Arranging, everything
<1>3. [ProjectNext]_everything => [Reviews!Next]_Reviews!vars
  BY DEF ProjectNext, Reviewing, Arranging, everything, reviewVars, Reviews!vars
<1>4. QED
  BY <1>1, <1>2, <1>3, PTL DEF ProjectSpec, Spec, Reviews!Spec

===============================================================================
