-------------------------- MODULE VersionStackProofs --------------------------
(***************************************************************************)
(* Theorems about VersionStack, for any number of files, versions and      *)
(* concurrent requests: what requests that overlap can not do to the       *)
(* versions of a file, and that requests that do not overlap implement     *)
(* VersionShelf.                                                           *)
(***************************************************************************)
EXTENDS VersionStackRefinement, FiniteSetTheorems, SequenceTheorems, TLAPS

RequestTypes == {Idle} \cup Posting \cup Activating \cup Deleting \cup Merging

-----------------------------------------------------------------------------
(***************************************************************************)
(* The numbers stacking gives out.                                         *)
(***************************************************************************)

\* Stacking gives the versions of the source consecutive numbers: above the base,
\* within the size of the source, and growing with the old number.
LEMMA MergeNumbers ==
    ASSUME number \in [Versions -> 0..MaxNumber], NEW s, NEW base \in Nat,
           NEW x \in Of(s)
    PROVE  /\ MergeNumber(x, s, base) \in Nat
           /\ base < MergeNumber(x, s, base)
           /\ MergeNumber(x, s, base) <= base + Cardinality(Of(s))
           /\ Cardinality(Of(s)) \in Nat
           /\ \A y \in Of(s) :
                 number[x] < number[y] => MergeNumber(x, s, base) < MergeNumber(y, s, base)
<1> DEFINE Upto(z) == {y \in Of(s) : number[y] <= number[z]}
<1>1. Of(s) \subseteq Versions
  BY DEF Of
<1>2. IsFiniteSet(Of(s)) /\ Cardinality(Of(s)) \in Nat
  BY <1>1, StackAssumption, FS_Subset, FS_CardinalityType
<1>3. \A z \in Of(s) : /\ IsFiniteSet(Upto(z))
                       /\ Cardinality(Upto(z)) \in Nat
                       /\ Cardinality(Upto(z)) <= Cardinality(Of(s))
  BY <1>2, FS_Subset, FS_CardinalityType
<1>4. Cardinality(Upto(x)) > 0
  <2>1. x \in Upto(x)
    BY <1>1, StackAssumption
  <2> HIDE DEF Upto
  <2>2. QED
    BY <2>1, <1>3, FS_EmptySet
<1>5. ASSUME NEW y \in Of(s), number[x] < number[y]
      PROVE  Cardinality(Upto(x)) < Cardinality(Upto(y))
  <2>1. Upto(x) \subseteq Upto(y)
    BY <1>1, <1>5, StackAssumption
  <2>2. y \in Upto(y) /\ y \notin Upto(x)
    BY <1>1, <1>5, StackAssumption
  <2> HIDE DEF Upto
  <2>3. Cardinality(Upto(x)) <= Cardinality(Upto(y)) /\ Cardinality(Upto(x)) # Cardinality(Upto(y))
    BY <2>1, <2>2, <1>3, FS_Subset
  <2>4. QED
    BY <2>3, <1>3
<1> HIDE DEF Upto
<1>6. \A z \in Of(s) : MergeNumber(z, s, base) = base + Cardinality(Upto(z))
  BY DEF MergeNumber, Upto
<1>7. QED
  BY <1>2, <1>3, <1>4, <1>5, <1>6

-----------------------------------------------------------------------------
(***************************************************************************)
(* Type correctness.                                                       *)
(***************************************************************************)

\* What a request is about to do says what it has read.
LEMMA RequestType ==
    ASSUME TypeOK, NEW r \in Requests
    PROVE  /\ req[r].at = "post.commit" => req[r] \in Posting
           /\ req[r].at \in {"activate.clear", "activate.set"} => req[r] \in Activating
           /\ req[r].at \in {"delete.count", "delete.commit"} => req[r] \in Deleting
           /\ req[r].at = "merge.commit" => req[r] \in Merging
  BY DEF TypeOK, Idle, Posting, Activating, Deleting, Merging

\* Every step keeps the tables in their types: in particular no version is left
\* with a parent that is gone.
LEMMA TypeStep == TypeOK /\ [Next]_vars => TypeOK'
<1> SUFFICES ASSUME TypeOK, [Next]_vars PROVE TypeOK'
  OBVIOUS
<1> USE StackAssumption DEF TypeOK, Of, Free, Numbers, Put
<1>1. ASSUME NEW r \in Requests, Continue(r) PROVE TypeOK'
  <2> USE RequestType
  <2>1. CASE ActivateClear(r)
    BY <2>1 DEF ActivateClear, Activating
  <2>2. CASE ActivateSet(r)
    BY <2>2 DEF ActivateSet, Activating
  <2>3. CASE ActivateMisses(r)
    BY <2>3 DEF ActivateMisses, tables
  <2>4. CASE DeleteCount(r)
    BY <2>4 DEF DeleteCount, Deleting, tables
  <2>5. CASE DeleteCommit(r)
    BY <2>5 DEF DeleteCommit, Deleting
  <2>6. CASE MergeCommit(r)
    <3>1. req[r] \in Merging
      BY <2>6 DEF MergeCommit
    <3> DEFINE s == req[r].source
               t == req[r].target
    <3>2. s \in files /\ t \in files /\ s # t
      BY <2>6, <3>1 DEF MergeCommit, Merging
    <3>3. number' \in [Versions -> 0..MaxNumber]
      <4>1. PICK base \in 0..MaxNumber :
               /\ base + Cardinality(Of(s)) <= MaxNumber
               /\ number' = [x \in Versions |->
                                IF x \in Of(s) THEN MergeNumber(x, s, base) ELSE number[x]]
        BY <2>6 DEF MergeCommit
      <4>2. \A x \in Of(s) : MergeNumber(x, s, base) \in 0..MaxNumber
        BY <4>1, MergeNumbers
      <4>3. QED
        BY <4>1, <4>2
    <3>4. parent' \in [Versions -> files' \cup {NoVideo}]
      BY <2>6, <3>2 DEF MergeCommit
    <3>5. active' \subseteq Versions \ Free'
      BY <2>6, <3>2 DEF MergeCommit
    <3>6. files' \subseteq Videos /\ req' \in [Requests -> RequestTypes]
      BY <2>6 DEF MergeCommit, RequestTypes
    <3>7. QED
      BY <3>3, <3>4, <3>5, <3>6 DEF RequestTypes
  <2>7. CASE MergeAsksAgain(r)
    BY <2>7 DEF MergeAsksAgain, Merging, tables
  <2>8. CASE Refuse(r)
    BY <2>8 DEF Refuse, tables
  <2>9. QED
    BY <1>1, <2>1, <2>2, <2>3, <2>4, <2>5, <2>6, <2>7, <2>8 DEF Continue
<1>2. ASSUME NEW r \in Requests, NEW v \in Videos, PostRead(r, v) PROVE TypeOK'
  BY <1>2 DEF PostRead, Posting, tables
<1>3. ASSUME NEW r \in Requests, NEW v \in Videos, DeleteVideo(r, v) PROVE TypeOK'
  BY <1>3 DEF DeleteVideo
<1>4. ASSUME NEW r \in Requests, NEW x \in Versions, PostCommit(r, x) PROVE TypeOK'
  BY <1>4, RequestType DEF PostCommit, Posting, Create
<1>5. ASSUME NEW r \in Requests, NEW x \in Versions, ActivateRead(r, x) PROVE TypeOK'
  BY <1>5 DEF ActivateRead, Activating, tables
<1>6. ASSUME NEW r \in Requests, NEW x \in Versions, DeleteRead(r, x) PROVE TypeOK'
  BY <1>6 DEF DeleteRead, Deleting, tables
<1>7. ASSUME NEW r \in Requests, NEW v \in Videos, NEW x \in Versions, CreateVideo(r, v, x)
      PROVE  TypeOK'
  BY <1>7 DEF CreateVideo, Create
<1>8. ASSUME NEW r \in Requests, NEW v \in Videos, NEW x \in Versions, AddVersion(r, v, x)
      PROVE  TypeOK'
  BY <1>8 DEF AddVersion, Create
<1>9. ASSUME NEW r \in Requests, NEW s \in Videos, NEW t \in Videos, MergePreview(r, s, t)
      PROVE  TypeOK'
  BY <1>9 DEF MergePreview, Merging, tables
<1>10. CASE UNCHANGED vars
  BY <1>10 DEF vars
<1>11. ASSUME NEW r \in Requests, Crash(r) PROVE TypeOK'
  BY <1>11 DEF Crash, tables
<1>12. QED
  BY <1>1, <1>2, <1>3, <1>4, <1>5, <1>6, <1>7, <1>8, <1>9, <1>10, <1>11 DEF Next, Step

\* The tables and the requests keep their types, and no version outlives its
\* file, whatever requests overlap.
THEOREM TypeCorrect == Spec => []TypeOK
<1>1. Init => TypeOK
  BY StackAssumption DEF Init, TypeOK, Free, Of
<1>2. TypeOK /\ [Next]_vars => TypeOK'
  BY TypeStep
<1>3. QED
  BY <1>1, <1>2, PTL DEF Spec
-----------------------------------------------------------------------------
(***************************************************************************)
(* Numbers and order.                                                      *)
(***************************************************************************)

\* x stands before y in their file, or y is stacked onto the file of x.
Precedes(x, y) ==
    \/ parent[x] = parent[y] /\ number[x] < number[y]
    \/ parent[x] = parent'[x] /\ parent[x] # parent[y]

\* Stacking keeps every cut behind those that preceded it.
LEMMA MergeOrder ==
    ASSUME TypeOK, NEW r \in Requests, MergeCommit(r),
           NEW x \in Versions \ Free, NEW y \in Versions \ Free,
           parent'[x] = parent'[y], Precedes(x, y)
    PROVE  number'[x] < number'[y]
<1> DEFINE s == req[r].source
           t == req[r].target
<1>1. s \in Videos /\ t \in Videos /\ s # t
  BY RequestType DEF MergeCommit, Merging
<1>2. PICK base \in 0..MaxNumber :
         /\ \A z \in Of(t) : number[z] <= base
         /\ number' = [z \in Versions |->
                          IF z \in Of(s) THEN MergeNumber(z, s, base) ELSE number[z]]
  BY DEF MergeCommit, IsLatest
<1>3. parent' = [z \in Versions |-> IF z \in Of(s) THEN t ELSE parent[z]]
  BY DEF MergeCommit
<1> HIDE DEF s, t
<1>4. \A z \in Of(s) : /\ MergeNumber(z, s, base) \in Nat
                       /\ base < MergeNumber(z, s, base)
                       /\ \A w \in Of(s) : number[z] < number[w] =>
                             MergeNumber(z, s, base) < MergeNumber(w, s, base)
  BY MergeNumbers, <1>2, StackAssumption DEF TypeOK
<1>5. CASE x \in Of(s)
  BY <1>1, <1>2, <1>3, <1>4, <1>5 DEF Precedes, Of
<1>6. CASE x \notin Of(s) /\ y \in Of(s)
  <2>1. x \in Of(t)
    BY <1>1, <1>3, <1>6 DEF Of
  <2>2. QED
    BY <1>2, <1>4, <1>6, <2>1, StackAssumption DEF TypeOK
<1>7. CASE x \notin Of(s) /\ y \notin Of(s)
  BY <1>2, <1>3, <1>7 DEF Precedes
<1>8. QED
  BY <1>5, <1>6, <1>7

\* Every step keeps the order of the versions that exist before and after it.
LEMMA OrderStep ==
    ASSUME TypeOK, Next, NEW x \in Versions \ Free, NEW y \in Versions \ Free,
           {x, y} \cap Free' = {}, parent'[x] = parent'[y], Precedes(x, y)
    PROVE  number'[x] < number'[y]
<1> USE StackAssumption DEF TypeOK, Of, Free
<1>1. ASSUME NEW r \in Requests, Continue(r) PROVE number'[x] < number'[y]
  <2>1. CASE MergeCommit(r)
    BY <2>1, MergeOrder
  <2>2. CASE DeleteCommit(r)
    BY <2>2, RequestType DEF DeleteCommit, Deleting, Precedes
  <2>3. CASE UNCHANGED <<parent, number>>
    BY <2>3 DEF Precedes
  <2>4. QED
    BY <1>1, <2>1, <2>2, <2>3
       DEF Continue, ActivateClear, ActivateSet, ActivateMisses, DeleteCount, MergeAsksAgain,
           Refuse, tables
<1>2. ASSUME NEW r \in Requests, NEW v \in Videos, DeleteVideo(r, v)
      PROVE  number'[x] < number'[y]
  BY <1>2 DEF DeleteVideo, Precedes
<1>3. ASSUME NEW z \in Versions, NEW v \in Videos, NEW n \in Numbers, Create(z, v, n)
      PROVE  number'[x] < number'[y]
  BY <1>3 DEF Create, Precedes
<1>4. CASE UNCHANGED <<parent, number>>
  BY <1>4 DEF Precedes
<1>5. QED
  <2>1. ASSUME NEW r \in Requests, NEW z \in Versions, PostCommit(r, z)
        PROVE  number'[x] < number'[y]
    BY <2>1, <1>3, RequestType DEF PostCommit, Posting, Create
  <2>2. ASSUME NEW r \in Requests, NEW v \in Videos, NEW z \in Versions,
               CreateVideo(r, v, z) \/ AddVersion(r, v, z)
        PROVE  number'[x] < number'[y]
    BY <2>2, <1>3 DEF CreateVideo, AddVersion, Create
  <2>3. QED
    BY <1>1, <1>2, <1>4, <2>1, <2>2
       DEF Next, Step, Crash, PostRead, ActivateRead, DeleteRead, MergePreview, tables

\* A new number is free in its file, whether it was computed inside the
\* transaction or before it; stacking keeps distinct numbers distinct.
LEMMA UniqueStep == TypeOK /\ NumbersAreUnique /\ [Next]_vars => NumbersAreUnique'
<1> SUFFICES ASSUME TypeOK, NumbersAreUnique, [Next]_vars,
                    NEW x \in Versions \ Free', NEW y \in Versions \ Free',
                    parent'[x] = parent'[y], x # y
             PROVE  number'[x] # number'[y]
  BY DEF NumbersAreUnique
<1>1. x \in Versions /\ y \in Versions /\ \A z \in Versions : number[z] \in 0..MaxNumber
  BY DEF TypeOK
<1>2. ASSUME NEW z \in Versions, NEW v \in Videos, NEW n \in Numbers,
             Create(z, v, n), ~Taken(n, v)
      PROVE  number'[x] # number'[y]
  BY <1>2, <1>1 DEF Create, Taken, Of, Free, TypeOK, NumbersAreUnique
<1>3. ASSUME NEW r \in Requests, MergeCommit(r) PROVE number'[x] # number'[y]
  <2> DEFINE s == req[r].source
             t == req[r].target
  <2>1. parent' = [z \in Versions |-> IF z \in Of(s) THEN t ELSE parent[z]]
    BY <1>3 DEF MergeCommit
  <2>2. x \notin Free /\ y \notin Free
    <3>1. s \in Videos /\ NoVideo \notin Videos
      BY <1>3, RequestType, StackAssumption DEF MergeCommit, Merging
    <3>2. QED
      BY <2>1, <3>1 DEF Free, Of
  <2>3. \/ Precedes(x, y) \/ Precedes(y, x)
        \/ parent[x] = parent[y] /\ number[x] = number[y]
    <3>1. parent[x] = parent[y] \/ parent[x] = parent'[x] \/ parent[y] = parent'[y]
      BY <2>1 DEF Of
    <3>2. QED
      BY <1>1, <3>1, StackAssumption DEF Precedes
  <2>4. parent[x] # parent[y] \/ number[x] # number[y]
    BY <2>2 DEF NumbersAreUnique
  <2>5. number'[x] \in Int /\ number'[y] \in Int
    BY TypeStep, StackAssumption, <1>1 DEF TypeOK
  <2>6. QED
    BY <1>3, <2>2, <2>3, <2>4, <2>5, MergeOrder
<1>4. ASSUME NEW r \in Requests, DeleteCommit(r) PROVE number'[x] # number'[y]
  BY <1>4, <1>1, RequestType DEF DeleteCommit, Deleting, Of, Free, TypeOK, NumbersAreUnique
<1>5. ASSUME NEW r \in Requests, NEW v \in Videos, DeleteVideo(r, v)
      PROVE  number'[x] # number'[y]
  BY <1>5, <1>1 DEF DeleteVideo, Of, Free, TypeOK, NumbersAreUnique
<1>6. CASE UNCHANGED <<parent, number>>
  BY <1>6 DEF NumbersAreUnique, Free, Of
<1>7. ASSUME NEW r \in Requests, NEW z \in Versions, PostCommit(r, z)
      PROVE  number'[x] # number'[y]
  BY <1>7, <1>2, RequestType DEF PostCommit, Posting, Create
<1>8. ASSUME NEW r \in Requests, NEW v \in Videos, NEW z \in Versions, CreateVideo(r, v, z)
      PROVE  number'[x] # number'[y]
  <2>1. ~Taken(1, v)
    BY <1>8, StackAssumption DEF CreateVideo, Taken, Of, TypeOK
  <2>2. QED
    BY <1>8, <2>1, <1>2 DEF CreateVideo, Create
<1>9. ASSUME NEW r \in Requests, NEW v \in Videos, NEW z \in Versions, AddVersion(r, v, z)
      PROVE  number'[x] # number'[y]
  <2>1. PICK n \in 0..MaxNumber : IsLatest(n, v) /\ Create(z, v, n + 1)
    BY <1>9 DEF AddVersion
  <2>2. ~Taken(n + 1, v)
    BY <2>1, <1>1, StackAssumption DEF IsLatest, Taken, Of
  <2>3. QED
    BY <2>1, <2>2, <1>2 DEF Create
<1>10. QED
  BY <1>3, <1>4, <1>5, <1>6, <1>7, <1>8, <1>9
     DEF Next, Step, Continue, ActivateClear, ActivateSet, ActivateMisses, DeleteCount,
         MergeAsksAgain, Refuse, Crash, PostRead, ActivateRead, DeleteRead, MergePreview,
         tables, vars

\* No two versions of a file carry the same number, however many uploads,
\* deletions and stackings overlap.
THEOREM UniqueNumbers == Spec => []NumbersAreUnique
<1>1. Init => NumbersAreUnique
  BY DEF Init, NumbersAreUnique, Free, Of
<1>2. TypeOK /\ NumbersAreUnique /\ [Next]_vars => NumbersAreUnique'
  BY UniqueStep
<1>3. QED
  BY <1>1, <1>2, TypeCorrect, PTL DEF Spec

\* The cuts of a file are never reordered, and stacked cuts come last.
THEOREM OrderKept == Spec => CutsKeepTheirOrder
<1>1. ASSUME TypeOK, [Next]_vars
      PROVE  [\A x, y \in Versions \ Free :
                 /\ {x, y} \cap Free' = {}
                 /\ parent'[x] = parent'[y]
                 /\ \/ parent[x] = parent[y] /\ number[x] < number[y]
                    \/ parent[x] = parent'[x] /\ parent[x] # parent[y]
                 => number'[x] < number'[y]]_vars
  BY <1>1, OrderStep DEF Precedes
<1>2. QED
  BY <1>1, TypeCorrect, PTL DEF Spec, CutsKeepTheirOrder
-----------------------------------------------------------------------------
(***************************************************************************)
(* Lists of finite sets in the order of a number.                          *)
(***************************************************************************)

\* A sequence in S that lists S has its members for its indices, and is no longer.
LEMMA ListBijection ==
    ASSUME NEW S, NEW num, \A x \in S : num[x] \in Int,
           NEW s \in Seq(S), Lists(s, S, num)
    PROVE  /\ s \in [1..Len(s) -> S] /\ Len(s) \in Nat /\ DOMAIN s = 1..Len(s)
           /\ \A i, j \in 1..Len(s) : num[s[i]] <= num[s[j]] <=> i <= j
           /\ \A i, j \in 1..Len(s) : s[i] = s[j] => i = j
           /\ \A x \in S : \E i \in 1..Len(s) : s[i] = x
           /\ IsFiniteSet(S) /\ Cardinality(S) = Len(s)
<1>1. s \in [1..Len(s) -> S] /\ Len(s) \in Nat /\ DOMAIN s = 1..Len(s)
  OBVIOUS
<1>2. \A i, j \in 1..Len(s) : i < j => num[s[i]] < num[s[j]]
  BY <1>1 DEF Lists
<1>3. \A i, j \in 1..Len(s) : num[s[i]] <= num[s[j]] <=> i <= j
  <2> TAKE i, j \in 1..Len(s)
  <2>1. num[s[i]] \in Int /\ num[s[j]] \in Int
    BY <1>1
  <2>2. i < j \/ i = j \/ j < i
    BY <1>1
  <2>3. QED
    BY <2>1, <2>2, <1>2
<1>4. \A i, j \in 1..Len(s) : s[i] = s[j] => i = j
  <2> SUFFICES ASSUME NEW i \in 1..Len(s), NEW j \in 1..Len(s), s[i] = s[j] PROVE i = j
    OBVIOUS
  <2>1. num[s[i]] \in Int
    BY <1>1
  <2>2. i <= j /\ j <= i
    BY <2>1, <1>3
  <2>3. QED
    BY <2>2, <1>1
<1>5. \A x \in S : \E i \in 1..Len(s) : s[i] = x
  BY <1>1 DEF Lists, ToSet
<1>6. s \in Bijection(1..Len(s), S)
  BY <1>1, <1>4, <1>5 DEF Bijection, Injection, Surjection, IsInjective
<1>7. ExistsBijection(1..Len(s), S)
  BY <1>6 DEF ExistsBijection
<1>8. IsFiniteSet(S) /\ Cardinality(S) = Len(s)
  BY <1>1, <1>7, FS_CountingElements, FS_NatBijection
<1>9. QED
  BY <1>1, <1>3, <1>4, <1>5, <1>8

\* The member at index i has i members up to it.
LEMMA ListRank ==
    ASSUME NEW S, NEW num, \A x \in S : num[x] \in Int,
           NEW s \in Seq(S), Lists(s, S, num), NEW i \in 1..Len(s)
    PROVE  Cardinality({y \in S : num[y] <= num[s[i]]}) = i
<1> DEFINE U == {y \in S : num[y] <= num[s[i]]}
           f == [j \in 1..i |-> s[j]]
<1>1. /\ s \in [1..Len(s) -> S] /\ Len(s) \in Nat
      /\ \A k, j \in 1..Len(s) : num[s[k]] <= num[s[j]] <=> k <= j
      /\ \A k, j \in 1..Len(s) : s[k] = s[j] => k = j
      /\ \A x \in S : \E k \in 1..Len(s) : s[k] = x
  BY ListBijection
<1>2. \A j \in 1..i : j \in 1..Len(s) /\ j <= i /\ j \in Nat
  BY <1>1
<1>3. \A j \in 1..i : f[j] \in U
  BY <1>1, <1>2
<1>4. f \in [1..i -> U]
  BY <1>3
<1>5. \A k, j \in 1..i : f[k] = f[j] => k = j
  BY <1>1, <1>2
<1>6. ASSUME NEW y \in U PROVE \E j \in 1..i : f[j] = y
  <2>1. y \in S /\ num[y] <= num[s[i]]
    BY <1>6
  <2>2. PICK k \in 1..Len(s) : s[k] = y
    BY <1>1, <2>1
  <2>3. k <= i
    BY <1>1, <2>1, <2>2
  <2>4. k \in 1..i
    BY <1>1, <2>2, <2>3
  <2>5. QED
    BY <2>2, <2>4
<1> HIDE DEF f, U
<1>7. f \in Bijection(1..i, U)
  BY <1>4, <1>5, <1>6 DEF Bijection, Injection, Surjection, IsInjective
<1>8. ExistsBijection(1..i, U)
  BY <1>7 DEF ExistsBijection
<1>9. i \in Nat
  BY <1>1
<1>10. Cardinality(U) = i
  BY <1>8, <1>9, FS_CountingElements
<1>11. QED
  BY <1>10 DEF U

\* A set is listed in one way only.
LEMMA ListUnique ==
    ASSUME NEW S, NEW num, \A x \in S : num[x] \in Int,
           NEW s \in Seq(S), Lists(s, S, num),
           NEW t \in Seq(S), Lists(t, S, num)
    PROVE  s = t
<1>1. /\ s \in [1..Len(s) -> S] /\ Len(s) \in Nat
      /\ \A x \in S : \E k \in 1..Len(s) : s[k] = x
      /\ IsFiniteSet(S) /\ Cardinality(S) = Len(s)
  BY ListBijection
<1>2. /\ t \in [1..Len(t) -> S] /\ Len(t) \in Nat
      /\ \A k, j \in 1..Len(t) : num[t[k]] <= num[t[j]] <=> k <= j
      /\ \A x \in S : \E k \in 1..Len(t) : t[k] = x
      /\ Cardinality(S) = Len(t)
  BY ListBijection
<1>3. Len(s) = Len(t)
  BY <1>1, <1>2
<1>4. ASSUME NEW i \in 1..Len(s) PROVE s[i] = t[i]
  <2>1. PICK j \in 1..Len(t) : t[j] = s[i]
    BY <1>1, <1>2, <1>4
  <2>2. Cardinality({y \in S : num[y] <= num[s[i]]}) = i
    BY <1>4, ListRank
  <2>3. Cardinality({y \in S : num[y] <= num[t[j]]}) = j
    BY <2>1, ListRank
  <2>4. i = j
    BY <2>1, <2>2, <2>3
  <2>5. QED
    BY <2>1, <2>4
<1>5. QED
  BY <1>3, <1>4, SeqEqual

\* The list of a set is the sequence that lists it.
LEMMA ListIs ==
    ASSUME NEW S, NEW num, \A x \in S : num[x] \in Int,
           NEW s \in Seq(S), Lists(s, S, num)
    PROVE  ListOf(S, num) = s
<1>1. s \in [1..Len(s) -> S] /\ Cardinality(S) = Len(s) /\ Len(s) \in Nat
  BY ListBijection
<1>2. s \in [1..Cardinality(S) -> S]
  BY <1>1
<1>3. ListOf(S, num) \in [1..Cardinality(S) -> S] /\ Lists(ListOf(S, num), S, num)
  BY <1>2 DEF ListOf
<1>4. \A m \in Nat : \A g \in [1..m -> S] : g \in Seq(S)
  OBVIOUS
<1>5. ListOf(S, num) \in Seq(S)
  BY <1>1, <1>3, <1>4
<1>6. QED
  BY <1>3, <1>5, ListUnique

\* What has no member is listed by the empty sequence.
LEMMA ListEmpty ==
    ASSUME NEW num
    PROVE  <<>> \in Seq({}) /\ Lists(<<>>, {}, num) /\ ListOf({}, num) = <<>>
<1>1. <<>> \in Seq({}) /\ Lists(<<>>, {}, num)
  BY DEF Lists
<1>2. QED
  BY <1>1, ListIs

\* The last of a list is its greatest member.
LEMMA ListLast ==
    ASSUME NEW S, NEW num, \A x \in S : num[x] \in Int,
           NEW s \in Seq(S), Lists(s, S, num), S # {}
    PROVE  /\ s # <<>> /\ Last(s) \in S
           /\ \A y \in S : num[y] <= num[Last(s)]
           /\ {y \in S : \A z \in S : num[z] <= num[y]} = {Last(s)}
<1>1. /\ s \in [1..Len(s) -> S] /\ Len(s) \in Nat
      /\ \A k, j \in 1..Len(s) : num[s[k]] <= num[s[j]] <=> k <= j
      /\ \A k, j \in 1..Len(s) : s[k] = s[j] => k = j
      /\ \A x \in S : \E k \in 1..Len(s) : s[k] = x
  BY ListBijection
<1>2. Len(s) \in 1..Len(s) /\ s # <<>>
  BY <1>1
<1>3. Last(s) = s[Len(s)] /\ Last(s) \in S
  BY <1>1, <1>2 DEF Last
<1>4. \A y \in S : num[y] <= num[Last(s)]
  BY <1>1, <1>2, <1>3
<1>5. ASSUME NEW y \in S, \A z \in S : num[z] <= num[y] PROVE y = Last(s)
  <2>1. PICK k \in 1..Len(s) : s[k] = y
    BY <1>1
  <2>2. num[s[Len(s)]] <= num[s[k]]
    BY <1>3, <1>5, <2>1
  <2>3. Len(s) <= k
    BY <1>1, <1>2, <2>2
  <2>4. k = Len(s)
    <3>1. Len(s) \in Nat
      BY <1>1
    <3>2. QED
      BY <2>1, <2>3, <3>1
  <2>5. QED
    BY <1>3, <2>1, <2>4
<1>6. QED
  BY <1>2, <1>3, <1>4, <1>5

\* The same members keep their list when their numbers keep their order.
LEMMA ListKept ==
    ASSUME NEW S, NEW num, NEW num2, \A x \in S : num[x] \in Int /\ num2[x] \in Int,
           \A x, y \in S : num[x] < num[y] => num2[x] < num2[y],
           NEW s \in Seq(S), Lists(s, S, num)
    PROVE  Lists(s, S, num2)
<1>1. \A i \in DOMAIN s : s[i] \in S
  OBVIOUS
<1>2. QED
  BY <1>1 DEF Lists

\* Two lists one after the other, when the second is numbered above the first.
LEMMA ListConcat ==
    ASSUME NEW S, NEW T, NEW num, NEW num2,
           \A x \in S \cup T : num[x] \in Int,
           \A x \in S \cup T : num2[x] \in Int,
           \A x, y \in S : num[x] < num[y] => num2[x] < num2[y],
           \A x, y \in T : num[x] < num[y] => num2[x] < num2[y],
           \A x \in S, y \in T : num2[x] < num2[y],
           NEW s \in Seq(S), Lists(s, S, num),
           NEW t \in Seq(T), Lists(t, T, num)
    PROVE  s \o t \in Seq(S \cup T) /\ Lists(s \o t, S \cup T, num2)
<1> DEFINE c == s \o t
<1>1. /\ s \in [1..Len(s) -> S] /\ Len(s) \in Nat
      /\ \A i, j \in 1..Len(s) : num[s[i]] <= num[s[j]] <=> i <= j
      /\ \A x \in S : \E i \in 1..Len(s) : s[i] = x
  BY ListBijection
<1>2. /\ t \in [1..Len(t) -> T] /\ Len(t) \in Nat
      /\ \A i, j \in 1..Len(t) : num[t[i]] <= num[t[j]] <=> i <= j
      /\ \A x \in T : \E i \in 1..Len(t) : t[i] = x
  <2>1. \A x \in T : num[x] \in Int
    OBVIOUS
  <2>2. t \in [1..Len(t) -> T] /\ Len(t) \in Nat
    OBVIOUS
  <2>3. \A i, j \in 1..Len(t) : num[t[i]] <= num[t[j]] <=> i <= j
    BY <2>1, ListBijection
  <2>4. \A x \in T : \E i \in 1..Len(t) : t[i] = x
    BY <2>1, ListBijection
  <2>5. QED
    BY <2>2, <2>3, <2>4
<1>3. s \in Seq(S \cup T) /\ t \in Seq(S \cup T)
  BY SeqMonotonic
<1>4. /\ c \in Seq(S \cup T) /\ Len(c) = Len(s) + Len(t) /\ DOMAIN c = 1..(Len(s) + Len(t))
      /\ \A i \in 1..(Len(s) + Len(t)) : c[i] = IF i <= Len(s) THEN s[i] ELSE t[i - Len(s)]
  <2>1. /\ c \in Seq(S \cup T) /\ Len(c) = Len(s) + Len(t)
        /\ \A i \in 1..(Len(s) + Len(t)) : c[i] = IF i <= Len(s) THEN s[i] ELSE t[i - Len(s)]
    BY <1>3, ConcatProperties
  <2> HIDE DEF c
  <2>2. DOMAIN c = 1..Len(c)
    BY <2>1
  <2>3. QED
    BY <2>1, <2>2
<1> HIDE DEF c
<1>5. S \cup T \subseteq ToSet(c)
  <2>1. ASSUME NEW x \in S PROVE \E i \in DOMAIN c : c[i] = x
    <3>1. PICK i \in 1..Len(s) : s[i] = x
      BY <1>1
    <3>2. i \in 1..(Len(s) + Len(t)) /\ i <= Len(s)
      BY <1>1, <1>2
    <3>3. QED
      BY <1>4, <3>1, <3>2
  <2>2. ASSUME NEW x \in T PROVE \E i \in DOMAIN c : c[i] = x
    <3>1. PICK i \in 1..Len(t) : t[i] = x
      BY <1>2
    <3>2. /\ i + Len(s) \in 1..(Len(s) + Len(t)) /\ ~(i + Len(s) <= Len(s))
          /\ (i + Len(s)) - Len(s) = i
      BY <1>1, <1>2
    <3>3. c[i + Len(s)] = x
      BY <1>4, <3>1, <3>2
    <3>4. QED
      BY <1>4, <3>2, <3>3
  <2>3. QED
    BY <2>1, <2>2 DEF ToSet
<1>6. ASSUME NEW i \in DOMAIN c, NEW j \in DOMAIN c, i < j
      PROVE  num2[c[i]] < num2[c[j]]
  <2>1. i \in 1..(Len(s) + Len(t)) /\ j \in 1..(Len(s) + Len(t))
    BY <1>4
  <2>2. CASE j <= Len(s)
    <3>1. i \in 1..Len(s) /\ j \in 1..Len(s) /\ ~(j <= i)
      BY <1>1, <1>6, <2>1, <2>2
    <3>2. c[i] = s[i] /\ c[j] = s[j] /\ s[i] \in S /\ s[j] \in S
      BY <1>1, <1>4, <2>1, <3>1
    <3>3. ~(num[s[j]] <= num[s[i]])
      BY <1>1, <3>1
    <3>4. num[s[i]] < num[s[j]]
      BY <3>2, <3>3
    <3>5. QED
      BY <3>2, <3>4
  <2>3. CASE ~(i <= Len(s))
    <3>1. i - Len(s) \in 1..Len(t) /\ j - Len(s) \in 1..Len(t) /\ ~(j - Len(s) <= i - Len(s))
          /\ ~(j <= Len(s))
      BY <1>1, <1>2, <1>6, <2>1, <2>3
    <3> DEFINE a == i - Len(s)
               b == j - Len(s)
    <3>2. c[i] = t[a] /\ c[j] = t[b] /\ a \in 1..Len(t) /\ b \in 1..Len(t) /\ ~(b <= a)
      BY <1>4, <2>1, <2>3, <3>1
    <3> HIDE DEF a, b
    <3>3. t[a] \in T /\ t[b] \in T /\ ~(num[t[b]] <= num[t[a]])
      BY <1>2, <3>2
    <3>4. num[t[a]] < num[t[b]]
      BY <3>3
    <3>5. QED
      BY <3>2, <3>3, <3>4
  <2>4. CASE i <= Len(s) /\ ~(j <= Len(s))
    <3>1. c[i] = s[i] /\ i \in 1..Len(s)
      BY <1>1, <1>4, <2>1, <2>4
    <3>2. c[j] = t[j - Len(s)] /\ j - Len(s) \in 1..Len(t)
      BY <1>1, <1>2, <1>4, <2>1, <2>4
    <3>3. QED
      BY <1>1, <1>2, <3>1, <3>2
  <2>5. QED
    BY <1>1, <1>6, <2>1, <2>2, <2>3, <2>4
<1>7. QED
  BY <1>4, <1>5, <1>6 DEF Lists, c

\* A greatest member goes to the end.
LEMMA ListAppend ==
    ASSUME NEW S, NEW x, NEW num, NEW num2,
           \A y \in S : num[y] \in Int /\ num2[y] = num[y] /\ num2[y] < num2[x],
           num2[x] \in Int,
           NEW s \in Seq(S), Lists(s, S, num)
    PROVE  Append(s, x) \in Seq(S \cup {x}) /\ Lists(Append(s, x), S \cup {x}, num2)
<1> DEFINE n == [y \in S \cup {x} |-> num2[y]]
<1>1. Lists(s, S, n)
  BY ListKept
<1>2. <<x>> \in Seq({x}) /\ Lists(<<x>>, {x}, n)
  BY DEF Lists, ToSet
<1>3. /\ \A y \in S \cup {x} : n[y] \in Int
      /\ \A y \in S \cup {x} : num2[y] \in Int
      /\ \A y, z \in S : n[y] < n[z] => num2[y] < num2[z]
      /\ \A y, z \in {x} : n[y] < n[z] => num2[y] < num2[z]
      /\ \A y \in S, z \in {x} : num2[y] < num2[z]
  OBVIOUS
<1> HIDE DEF n
<1>4. s \o <<x>> \in Seq(S \cup {x}) /\ Lists(s \o <<x>>, S \cup {x}, num2)
  BY <1>1, <1>2, <1>3, ListConcat
<1>5. Append(s, x) = s \o <<x>>
  <2>1. s \in Seq(S \cup {x}) /\ x \in S \cup {x}
    BY SeqMonotonic
  <2>2. QED
    BY <2>1, AppendIsConcat
<1>6. QED
  BY <1>4, <1>5

\* The list without one of its members.
LEMMA ListRemove ==
    ASSUME NEW S, NEW num, NEW num2, NEW s \in Seq(S), Lists(s, S, num),
           NEW i \in 1..Len(s),
           \A y \in S : num[y] \in Int,
           \A y \in S \ {s[i]} : num2[y] = num[y]
    PROVE  RemoveAt(s, i) \in Seq(S \ {s[i]}) /\ Lists(RemoveAt(s, i), S \ {s[i]}, num2)
<1> DEFINE R == S \ {s[i]}
           d == RemoveAt(s, i)
           n == Len(s) - 1
           At(k) == IF k < i THEN k ELSE k + 1
<1>1. /\ s \in [1..Len(s) -> S] /\ Len(s) \in Nat /\ i \in Nat
      /\ \A j, k \in 1..Len(s) : num[s[j]] <= num[s[k]] <=> j <= k
      /\ \A j, k \in 1..Len(s) : s[j] = s[k] => j = k
      /\ \A x \in S : \E k \in 1..Len(s) : s[k] = x
  BY ListBijection
<1>2. d \in Seq(S) /\ Len(d) = n /\ \A k \in 1..n : d[k] = s[At(k)]
  <2> DEFINE a == SubSeq(s, 1, i - 1)
             b == SubSeq(s, i + 1, Len(s))
  <2>1. /\ a \in Seq(S) /\ Len(a) = i - 1
        /\ \A k \in 1..(i - 1) : a[k] = s[k]
    <3>1. \A k \in 1..(i - 1) : s[k] \in S
      BY <1>1
    <3>2. 1 \in Int /\ i - 1 \in Int
      BY <1>1
    <3>3. /\ SubSeq(s, 1, i - 1) \in Seq(S)
          /\ Len(SubSeq(s, 1, i - 1)) = IF 1 <= i - 1 THEN (i - 1) - 1 + 1 ELSE 0
          /\ \A k \in 1..((i - 1) - 1 + 1) : SubSeq(s, 1, i - 1)[k] = s[1 + k - 1]
      BY <3>1, <3>2, SubSeqProperties
    <3>4. QED
      BY <1>1, <3>3
  <2>2. /\ b \in Seq(S) /\ Len(b) = Len(s) - i
        /\ \A k \in 1..(Len(s) - i) : b[k] = s[i + k]
    <3>1. \A k \in (i + 1)..Len(s) : s[k] \in S
      BY <1>1
    <3>2. i + 1 \in Int /\ Len(s) \in Int
      BY <1>1
    <3>3. /\ SubSeq(s, i + 1, Len(s)) \in Seq(S)
          /\ Len(SubSeq(s, i + 1, Len(s))) =
                IF i + 1 <= Len(s) THEN Len(s) - (i + 1) + 1 ELSE 0
          /\ \A k \in 1..(Len(s) - (i + 1) + 1) :
                SubSeq(s, i + 1, Len(s))[k] = s[(i + 1) + k - 1]
      BY <3>1, <3>2, SubSeqProperties
    <3>4. \A k \in 1..(Len(s) - i) : k \in 1..(Len(s) - (i + 1) + 1) /\ (i + 1) + k - 1 = i + k
      BY <1>1
    <3>5. Len(b) = Len(s) - i
      <4>1. Len(b) = IF i + 1 <= Len(s) THEN Len(s) - (i + 1) + 1 ELSE 0
        BY <3>3
      <4>2. Len(s) \in Nat /\ i \in Nat /\ i <= Len(s)
        BY <1>1
      <4> HIDE DEF b
      <4>3. QED
        BY <4>1, <4>2
    <3>6. \A k \in 1..(Len(s) - i) : b[k] = s[i + k]
      BY <3>3, <3>4
    <3>7. QED
      BY <3>3, <3>5, <3>6
  <2> HIDE DEF a, b
  <2>3. d = a \o b
    BY DEF RemoveAt, a, b
  <2> HIDE DEF d
  <2>4. /\ d \in Seq(S) /\ Len(d) = Len(a) + Len(b)
        /\ \A k \in 1..(Len(a) + Len(b)) : d[k] = IF k <= Len(a) THEN a[k] ELSE b[k - Len(a)]
    BY <2>1, <2>2, <2>3, ConcatProperties
  <2>5. Len(a) + Len(b) = n
    BY <1>1, <2>1, <2>2
  <2>6. ASSUME NEW k \in 1..n PROVE d[k] = s[At(k)]
    <3>1. CASE k < i
      <4>1. k \in 1..(i - 1) /\ k <= Len(a)
        BY <1>1, <2>1, <2>6, <3>1
      <4>2. d[k] = a[k]
        BY <2>4, <2>5, <2>6, <4>1
      <4>3. QED
        BY <2>1, <3>1, <4>1, <4>2
    <3>2. CASE ~(k < i)
      <4>1. k - Len(a) \in 1..(Len(s) - i) /\ ~(k <= Len(a)) /\ i + (k - Len(a)) = k + 1
        BY <1>1, <2>1, <2>6, <3>2
      <4>2. d[k] = b[k - Len(a)]
        BY <2>4, <2>5, <2>6, <4>1
      <4>3. QED
        BY <2>2, <3>2, <4>1, <4>2
    <3>3. QED
      BY <3>1, <3>2
  <2>7. QED
    BY <2>4, <2>5, <2>6
<1> HIDE DEF d
<1>3. n \in Nat
  BY <1>1
<1>4. ASSUME NEW k \in 1..n PROVE At(k) \in 1..Len(s) /\ At(k) # i
  BY <1>1, <1>4
<1>5. DOMAIN d = 1..n /\ \A k \in 1..n : d[k] \in R
  <2>1. DOMAIN d = 1..n
    BY <1>2
  <2>2. ASSUME NEW k \in 1..n PROVE d[k] \in R
    BY <1>1, <1>2, <1>4, <2>2
  <2>3. QED
    BY <2>1, <2>2
<1>6. d \in Seq(R)
  <2>1. d \in [1..n -> R]
    BY <1>2, <1>5
  <2>2. QED
    BY <1>3, <2>1
<1>7. R \subseteq ToSet(d)
  <2>1. ASSUME NEW x \in R PROVE \E k \in 1..n : d[k] = x
    <3>1. PICK j \in 1..Len(s) : s[j] = x /\ j # i
      BY <1>1, <2>1
    <3>2. CASE j < i
      <4>1. j \in 1..n /\ At(j) = j
        BY <1>1, <3>1, <3>2
      <4>2. QED
        BY <1>2, <3>1, <4>1
    <3>3. CASE ~(j < i)
      <4>1. j - 1 \in 1..n /\ At(j - 1) = j
        BY <1>1, <3>1, <3>3
      <4>2. d[j - 1] = x
        BY <1>2, <3>1, <4>1
      <4>3. QED
        BY <4>1, <4>2
    <3>4. QED
      BY <3>2, <3>3
  <2>2. QED
    BY <1>5, <2>1 DEF ToSet
<1>8. ASSUME NEW j \in 1..n, NEW k \in 1..n, j < k PROVE num2[d[j]] < num2[d[k]]
  <2>1. At(j) < At(k)
    BY <1>1, <1>8
  <2>2. At(j) \in 1..Len(s) /\ At(k) \in 1..Len(s)
    BY <1>4
  <2>3. d[j] = s[At(j)] /\ d[k] = s[At(k)]
    BY <1>2
  <2> HIDE DEF At
  <2>4. ~(At(k) <= At(j))
    BY <1>1, <2>1, <2>2
  <2>5. ~(num[s[At(k)]] <= num[s[At(j)]])
    BY <1>1, <2>2, <2>4
  <2>6. num[d[j]] \in Int /\ num[d[k]] \in Int /\ num2[d[j]] = num[d[j]] /\ num2[d[k]] = num[d[k]]
    BY <1>5
  <2>7. QED
    BY <2>3, <2>5, <2>6
<1>9. Lists(d, R, num2)
  BY <1>5, <1>7, <1>8 DEF Lists
<1>10. QED
  BY <1>6, <1>9 DEF d

-----------------------------------------------------------------------------
(***************************************************************************)
(* One request after the other.                                            *)
(***************************************************************************)

\* The shelf of a file lists its versions.
Listed(v) == ShelfOf(v) \in Seq(Of(v)) /\ Lists(ShelfOf(v), Of(v), number)

\* What a request has read is still so.
ReadStill(r) ==
    /\ req[r].at = "post.commit" =>
          req[r].video \in files /\ IsLatest(req[r].latest, req[r].video)
    /\ req[r].at \in {"activate.clear", "activate.set"} => req[r].version \in Of(req[r].video)
    /\ req[r].at \in {"delete.count", "delete.commit"} =>
          /\ req[r].version \in Of(req[r].video)
          /\ req[r].wasActive <=> req[r].version \in active
    /\ req[r].at = "delete.commit" => Of(req[r].video) # {req[r].version}
    /\ req[r].at = "merge.commit" =>
          {req[r].source, req[r].target} \subseteq files /\ Confirmed(req[r])

\* Every shelf is a list, and every file shows exactly one of its versions.
InOrder ==
    /\ \A v \in Videos : Listed(v)
    /\ \A v \in files : \E x \in Of(v) : Displayed(v) = {x}

\* What requests that come one after the other keep.
InTurn == InOrder /\ \A r \in Requests : ReadStill(r)

\* Only a version that is being activated is shown without its flag.
LEMMA QuietShown ==
    ASSUME NEW r \in Requests, Alone(r), req[r].at # "activate.set"
    PROVE  \A w : Displayed(w) = Of(w) \cap active
  BY DEF Alone, Displayed, Idle

LEMMA QuietShownNext ==
    ASSUME NEW r \in Requests, \A q \in Requests \ {r} : req'[q] = Idle,
           req'[r].at # "activate.set"
    PROVE  \A w : Displayed(w)' = Of(w)' \cap active'
  BY DEF Displayed, Idle

\* A step moves its own request only, and what its request has read or will act
\* upon is so after the step.
LEMMA ReadsStep ==
    ASSUME TypeOK, InTurn, NEW r \in Requests, Alone(r), Step(r)
    PROVE  /\ \A q \in Requests \ {r} : req'[q] = Idle
           /\ \A q \in Requests : ReadStill(q)'
<1>1. \A q \in Requests \ {r} : req'[q] = Idle
  <2>1. req \in [Requests -> RequestTypes] /\ \A q \in Requests \ {r} : req[q] = Idle
    BY DEF TypeOK, RequestTypes, Alone
  <2>2. req' = req \/ \E m : Put(r, m)
    BY DEF Step, Continue, ActivateClear, ActivateSet, ActivateMisses, DeleteCount,
           DeleteCommit, MergeCommit, MergeAsksAgain, Refuse, PostRead, DeleteVideo,
           PostCommit, ActivateRead, DeleteRead, CreateVideo, AddVersion, MergePreview
  <2>3. QED
    BY <2>1, <2>2 DEF Put
<1>2. ASSUME req'[r].at = "idle" PROVE ReadStill(r)'
  BY <1>2 DEF ReadStill
<1>3. Idle.at = "idle"
  BY DEF Idle
<1>4. ASSUME NEW m, Put(r, m) PROVE req'[r] = m
  BY <1>4 DEF Put, TypeOK
<1>5. ReadStill(r)'
  <2>1. CASE Continue(r)
    <3>1. CASE ActivateClear(r)
      <4>1. req[r] \in Activating
        BY <3>1, RequestType DEF ActivateClear
      <4>2. req'[r] = [req[r] EXCEPT !.at = "activate.set"] /\ parent' = parent
        BY <3>1, <1>4 DEF ActivateClear
      <4>3. req[r].version \in Of(req[r].video)
        BY <3>1 DEF ActivateClear, InTurn, ReadStill
      <4>4. /\ req'[r].at = "activate.set" /\ req'[r].version = req[r].version
            /\ req'[r].video = req[r].video
        BY <4>1, <4>2 DEF Activating
      <4>5. QED
        BY <4>2, <4>3, <4>4 DEF ReadStill, Of
    <3>2. CASE DeleteCount(r)
      <4>1. CASE req'[r] = Idle
        BY <4>1, <1>2, <1>3
      <4>2. CASE Cardinality(Of(req[r].video)) > 1
        <5>1. req[r] \in Deleting
          BY <3>2, RequestType DEF DeleteCount
        <5>2. req'[r] = [req[r] EXCEPT !.at = "delete.commit"]
          BY <3>2, <4>2, <1>4 DEF DeleteCount
        <5>3. /\ req'[r].at = "delete.commit" /\ req'[r].version = req[r].version
              /\ req'[r].video = req[r].video /\ req'[r].wasActive = req[r].wasActive
          BY <5>1, <5>2 DEF Deleting
        <5>4. /\ req[r].version \in Of(req[r].video)
              /\ req[r].wasActive <=> req[r].version \in active
          BY <3>2 DEF DeleteCount, InTurn, ReadStill
        <5>5. Of(req[r].video) # {req[r].version}
          BY <4>2, FS_Singleton
        <5>6. parent' = parent /\ active' = active
          BY <3>2 DEF DeleteCount, tables
        <5>7. QED
          BY <5>3, <5>4, <5>5, <5>6 DEF ReadStill, Of
      <4>3. QED
        BY <3>2, <4>1, <4>2, <1>4 DEF DeleteCount
    <3>3. CASE MergeAsksAgain(r)
      <4>1. req[r] \in Merging
        BY <3>3, RequestType DEF MergeAsksAgain
      <4>2. req'[r] = [req[r] EXCEPT !.sourceVersions = Of(req[r].source),
                                     !.targetVersions = Of(req[r].target)]
        BY <3>3, <1>4 DEF MergeAsksAgain
      <4>3. /\ req'[r].at = "merge.commit" /\ req'[r].source = req[r].source
            /\ req'[r].target = req[r].target
            /\ req'[r].sourceVersions = Of(req[r].source)
            /\ req'[r].targetVersions = Of(req[r].target)
        BY <3>3, <4>1, <4>2 DEF Merging, MergeAsksAgain
      <4>4. parent' = parent /\ files' = files /\ {req[r].source, req[r].target} \subseteq files
        BY <3>3 DEF MergeAsksAgain, tables
      <4>5. QED
        BY <4>3, <4>4 DEF ReadStill, Of, Confirmed
    <3>4. CASE req'[r] = Idle
      BY <3>4, <1>2, <1>3
    <3>5. QED
      BY <2>1, <3>1, <3>2, <3>3, <3>4, <1>4
         DEF Continue, ActivateSet, ActivateMisses, DeleteCommit, MergeCommit, Refuse
  <2>2. ASSUME NEW v \in Videos, PostRead(r, v) PROVE ReadStill(r)'
    <3>1. PICK n \in 0..MaxNumber :
             IsLatest(n, v) /\ Put(r, [at |-> "post.commit", video |-> v, latest |-> n])
      BY <2>2 DEF PostRead
    <3>2. req'[r] = [at |-> "post.commit", video |-> v, latest |-> n]
      BY <3>1, <1>4
    <3>3. parent' = parent /\ number' = number /\ files' = files /\ v \in files
      BY <2>2 DEF PostRead, tables
    <3>4. req'[r].at = "post.commit" /\ req'[r].video = v /\ req'[r].latest = n
      BY <3>2
    <3>5. QED
      BY <3>1, <3>3, <3>4 DEF ReadStill, IsLatest, Of
  <2>3. ASSUME NEW x \in Versions, ActivateRead(r, x) PROVE ReadStill(r)'
    <3>1. req'[r] = [at |-> "activate.clear", video |-> parent[x], version |-> x]
      BY <2>3, <1>4 DEF ActivateRead
    <3>2. req'[r].at = "activate.clear" /\ req'[r].video = parent[x] /\ req'[r].version = x
      BY <3>1
    <3>3. parent' = parent
      BY <2>3 DEF ActivateRead, tables
    <3>4. QED
      BY <3>2, <3>3 DEF ReadStill, Of
  <2>4. ASSUME NEW x \in Versions, DeleteRead(r, x) PROVE ReadStill(r)'
    <3> DEFINE m == [at |-> "delete.count", video |-> parent[x], version |-> x,
                     wasActive |-> x \in active]
    <3>1. req'[r] = m
      BY <2>4, <1>4 DEF DeleteRead
    <3>2. m.at = "delete.count" /\ m.video = parent[x] /\ m.version = x
      OBVIOUS
    <3>3. m.wasActive <=> x \in active
      BY Zenon
    <3> HIDE DEF m
    <3>4. parent' = parent /\ active' = active
      BY <2>4 DEF DeleteRead, tables
    <3>5. QED
      BY <3>1, <3>2, <3>3, <3>4 DEF ReadStill, Of
  <2>5. ASSUME NEW s \in Videos, NEW t \in Videos, MergePreview(r, s, t) PROVE ReadStill(r)'
    <3>1. req'[r] = [at |-> "merge.commit", source |-> s, target |-> t,
                     sourceVersions |-> Of(s), targetVersions |-> Of(t)]
      BY <2>5, <1>4 DEF MergePreview
    <3>2. /\ req'[r].at = "merge.commit" /\ req'[r].source = s /\ req'[r].target = t
          /\ req'[r].sourceVersions = Of(s) /\ req'[r].targetVersions = Of(t)
      BY <3>1
    <3>3. parent' = parent /\ files' = files /\ {s, t} \subseteq files
      BY <2>5 DEF MergePreview, tables
    <3>4. QED
      BY <3>2, <3>3 DEF ReadStill, Of, Confirmed
  <2>6. CASE req'[r] = Idle
    BY <2>6, <1>2, <1>3
  <2>7. QED
    <3>1. ASSUME NEW v \in Videos, DeleteVideo(r, v) PROVE req'[r] = Idle
      BY <3>1 DEF DeleteVideo
    <3>2. ASSUME NEW x \in Versions, PostCommit(r, x) PROVE req'[r] = Idle
      BY <3>2, <1>4 DEF PostCommit
    <3>3. ASSUME NEW v \in Videos, NEW x \in Versions, CreateVideo(r, v, x) \/ AddVersion(r, v, x)
          PROVE  req'[r] = Idle
      BY <3>3 DEF CreateVideo, AddVersion
    <3>4. QED
      BY <2>1, <2>2, <2>3, <2>4, <2>5, <2>6, <3>1, <3>2, <3>3 DEF Step
<1>6. ASSUME NEW q \in Requests \ {r} PROVE ReadStill(q)'
  BY <1>1, <1>3, <1>6 DEF ReadStill
<1>7. QED
  BY <1>1, <1>5, <1>6

\* What the tables show in a state without overlap.
LEMMA Mapped ==
    ASSUME ~overlap
    PROVE  /\ Shelves = [v \in Videos |-> ShelfOf(v)]
           /\ Shown = [v \in Videos |-> OnlyOf(Displayed(v))]
  BY DEF Shelves, Shown

LEMMA MappedNext ==
    ASSUME ~overlap'
    PROVE  /\ Shelves' = [v \in Videos |-> ShelfOf(v)']
           /\ Shown' = [v \in Videos |-> OnlyOf(Displayed(v)')]
  BY DEF Shelves, Shown, OnlyOf

LEMMA OnlyOfOne == OnlyOf({}) = NoVersion /\ \A x : OnlyOf({x}) = x
  BY DEF OnlyOf

\* The versions of a file have numbers, and so after the step.
LEMMA NumbersTyped ==
    ASSUME TypeOK
    PROVE  \A v \in Videos : \A x \in Of(v) : x \in Versions /\ number[x] \in Int
  BY StackAssumption DEF TypeOK, Of

LEMMA NumbersTypedNext ==
    ASSUME TypeOK'
    PROVE  \A v \in Videos : \A x \in Of(v)' : x \in Versions /\ number'[x] \in Int
  BY StackAssumption DEF TypeOK, Of

\* A file whose versions and numbers stay keeps its shelf.
LEMMA SameShelf ==
    ASSUME TypeOK, TypeOK', NEW v \in Videos, Listed(v), Of(v)' = Of(v),
           \A x \in Of(v) : number'[x] = number[x]
    PROVE  Listed(v)' /\ ShelfOf(v)' = ShelfOf(v)
<1> DEFINE S == Of(v)
           s == ShelfOf(v)
           num == number
           num2 == number'
<1>1. s \in Seq(S) /\ Lists(s, S, num)
  BY DEF Listed
<1>2. \A x \in S : num[x] \in Int /\ num2[x] = num[x]
  BY NumbersTyped
<1>3. ShelfOf(v)' = ListOf(S, num2)
  BY DEF ShelfOf
<1>4. Listed(v)' <=> ShelfOf(v)' \in Seq(S) /\ Lists(ShelfOf(v)', S, num2)
  BY DEF Listed
<1> HIDE DEF S, s, num, num2
<1>5. Lists(s, S, num2)
  BY <1>1, <1>2, ListKept
<1>6. ListOf(S, num2) = s
  BY <1>1, <1>2, <1>5, ListIs
<1>7. ShelfOf(v)' = s
  BY <1>3, <1>6
<1>8. QED
  BY <1>1, <1>4, <1>5, <1>7 DEF s

\* Steps that change neither files nor numbers nor what is shown.
LEMMA NothingShown ==
    ASSUME TypeOK, TypeOK', InTurn, ~overlap, ~overlap', files' = files, parent' = parent,
           number' = number, \A v \in Videos : Displayed(v)' = Displayed(v)
    PROVE  InOrder' /\ UNCHANGED <<Shelves, Shown>>
<1>1. \A v \in Videos : Of(v)' = Of(v)
  BY DEF Of
<1>2. \A v \in Videos : Listed(v)' /\ ShelfOf(v)' = ShelfOf(v)
  BY <1>1, SameShelf DEF InTurn, InOrder
<1>3. \A v \in files' : \E x \in Of(v)' : Displayed(v)' = {x}
  BY <1>1 DEF InTurn, InOrder, TypeOK
<1>4. UNCHANGED <<Shelves, Shown>>
  BY <1>2, Mapped, MappedNext
<1>5. QED
  BY <1>2, <1>3, <1>4 DEF InOrder

\* A new version with the highest number of its file: it goes to the end.
LEMMA Arrives ==
    ASSUME TypeOK, TypeOK', InTurn, ~overlap, ~overlap',
           NEW v \in Videos, NEW x \in Free, NEW n \in Int, NEW show \in BOOLEAN,
           \A y \in Of(v) : number[y] < n,
           Of(v) = {} => show,
           files' = files \cup {v},
           parent' = [parent EXCEPT ![x] = v],
           number' = [number EXCEPT ![x] = n],
           active' = IF show THEN (active \ Of(v)) \cup {x} ELSE active,
           \A w : Displayed(w) = Of(w) \cap active,
           \A w : Displayed(w)' = Of(w)' \cap active'
    PROVE  InOrder' /\ Shelf!Upload(v, x, show)
<1>1. x \in Versions /\ x \notin active /\ \A w \in Videos : x \notin Of(w)
  BY StackAssumption DEF Free, Of, TypeOK
<1>2. Of(v)' = Of(v) \cup {x}
  BY <1>1 DEF Of, TypeOK
<1>3. ASSUME NEW w \in Videos, w # v
      PROVE  /\ Of(w)' = Of(w) /\ Listed(w)' /\ ShelfOf(w)' = ShelfOf(w)
             /\ Displayed(w)' = Displayed(w)
  <2>1. Of(w)' = Of(w)
    BY <1>1, <1>3 DEF Of, TypeOK
  <2>2. \A y \in Of(w) : number'[y] = number[y]
    BY <1>1 DEF TypeOK, Of
  <2>3. Listed(w)' /\ ShelfOf(w)' = ShelfOf(w)
    BY <2>1, <2>2, SameShelf DEF InTurn, InOrder
  <2>4. Of(w) \cap Of(v) = {}
    BY <1>3 DEF Of
  <2>5. Of(w) \cap active' = Of(w) \cap active
    BY <1>1, <2>4
  <2>6. QED
    BY <2>1, <2>3, <2>5
<1>4. Listed(v)' /\ ShelfOf(v)' = Append(ShelfOf(v), x)
  <2> DEFINE S == Of(v)
             s == ShelfOf(v)
             num == number
             num2 == number'
  <2>1. s \in Seq(S) /\ Lists(s, S, num)
    BY DEF Listed, InTurn, InOrder
  <2>2. num2[x] = n
    BY <1>1 DEF TypeOK
  <2>3. \A y \in S : num[y] \in Int /\ num2[y] = num[y] /\ num2[y] < num2[x]
    <3>1. \A y \in S : y \in Versions /\ y # x /\ number[y] \in Int
      BY <1>1, NumbersTyped
    <3>2. QED
      BY <2>2, <3>1 DEF TypeOK
  <2>4. ShelfOf(v)' = ListOf(S \cup {x}, num2)
    BY <1>2 DEF ShelfOf
  <2>5. Listed(v)' <=> ShelfOf(v)' \in Seq(S \cup {x}) /\ Lists(ShelfOf(v)', S \cup {x}, num2)
    BY <1>2 DEF Listed
  <2> HIDE DEF S, s, num, num2
  <2>6. num2[x] \in Int
    BY <2>2
  <2>7. Append(s, x) \in Seq(S \cup {x})
    BY <2>1
  <2>8. Lists(Append(s, x), S \cup {x}, num2)
    BY <2>1, <2>3, <2>6, ListAppend
  <2>9. ListOf(S \cup {x}, num2) = Append(s, x)
    <3>1. \A y \in S \cup {x} : num2[y] \in Int
      BY <2>3, <2>6
    <3>2. QED
      BY <2>7, <2>8, <3>1, ListIs
  <2>10. QED
    BY <2>4, <2>5, <2>7, <2>8, <2>9 DEF s
<1>5. Displayed(v)' = IF show THEN {x} ELSE Displayed(v)
  <2>1. CASE show
    BY <1>2, <2>1
  <2>2. CASE ~show
    BY <1>1, <1>2, <2>2
  <2>3. QED
    BY <2>1, <2>2
<1>6. x \notin Shelf!Shelved
  <2>1. \A w \in Videos : ToSet(ShelfOf(w)) \subseteq Of(w)
    BY DEF InTurn, InOrder, Listed, ToSet
  <2>2. \A w \in Videos : Shelves[w] = ShelfOf(w)
    BY Mapped
  <2>3. \A w \in Videos : x \notin ToSet(Shelves[w])
    BY <1>1, <2>1, <2>2
  <2>4. QED
    BY <2>3 DEF Shelf!Shelved, Shelf!ToSet, ToSet
<1>7. ShelfOf(v) = <<>> => show
  BY DEF InTurn, InOrder, Listed, Lists, ToSet
<1>8. Shelves' = [Shelves EXCEPT ![v] = Append(@, x)]
  BY <1>3, <1>4, Mapped, MappedNext
<1>9. Shown' = [Shown EXCEPT ![v] = IF show \/ Shelves[v] = <<>> THEN x ELSE @]
  <2>1. OnlyOf(Displayed(v)') = IF show \/ ShelfOf(v) = <<>> THEN x ELSE OnlyOf(Displayed(v))
    BY <1>5, <1>7, OnlyOfOne
  <2>2. \A w \in Videos \ {v} : OnlyOf(Displayed(w)') = OnlyOf(Displayed(w))
    BY <1>3
  <2>3. QED
    BY <2>1, <2>2, Mapped, MappedNext
<1>10. \A w \in Videos : Listed(w)'
  BY <1>3, <1>4
<1>11. ASSUME NEW w \in files' PROVE \E y \in Of(w)' : Displayed(w)' = {y}
  <2>1. CASE w # v
    BY <1>3, <2>1 DEF InTurn, InOrder, TypeOK
  <2>2. CASE w = v /\ show
    BY <1>2, <1>5, <2>2
  <2>3. CASE w = v /\ ~show
    <3>1. PICK y \in Of(v) : TRUE
      BY <2>3
    <3>2. parent[y] = v /\ parent[y] \in files \cup {NoVideo} /\ v # NoVideo
      BY <3>1, StackAssumption DEF Of, TypeOK
    <3>3. v \in files
      BY <3>2
    <3>4. QED
      BY <1>2, <1>5, <2>3, <3>3 DEF InTurn, InOrder
  <2>4. QED
    BY <2>1, <2>2, <2>3
<1>12. QED
  BY <1>6, <1>8, <1>9, <1>10, <1>11 DEF Shelf!Upload, InOrder

\* The first write of an activation: its version is the one that is shown.
LEMMA Activates ==
    ASSUME TypeOK, TypeOK', InTurn, ~overlap, ~overlap',
           NEW r \in Requests, Alone(r), ActivateClear(r),
           NEW v, v = req[r].video, NEW x, x = req[r].version
    PROVE  InOrder' /\ Shelf!Show(v, x)
<1>1. req[r] \in Activating /\ v \in Videos /\ x \in Versions /\ x \in Of(v)
  BY RequestType DEF ActivateClear, Activating, InTurn, InOrder, ReadStill
<1>2. /\ active' = active \ Of(v) /\ files' = files /\ parent' = parent /\ number' = number
      /\ req[r].at = "activate.clear"
  BY DEF ActivateClear
<1>3. /\ req'[r].at = "activate.set" /\ req'[r].version = x
      /\ \A q \in Requests \ {r} : req'[q].at = "idle" /\ req[q].at = "idle"
  <2>1. req' = [req EXCEPT ![r] = [req[r] EXCEPT !.at = "activate.set"]]
    BY DEF ActivateClear, Put
  <2>2. \A q \in Requests \ {r} : req[q].at = "idle" /\ req'[q] = req[q]
    BY <2>1 DEF Alone, Idle, TypeOK
  <2>3. req'[r] = [req[r] EXCEPT !.at = "activate.set"]
    BY <2>1 DEF TypeOK
  <2>4. QED
    BY <1>1, <2>2, <2>3 DEF Activating
<1>4. \A w \in Videos : Of(w)' = Of(w)
  BY <1>2 DEF Of
<1>5. \A w \in Videos : Listed(w)' /\ ShelfOf(w)' = ShelfOf(w)
  BY <1>2, <1>4, SameShelf DEF InTurn, InOrder
<1> DEFINE Coming(y) == \E q \in Requests : req'[q].at = "activate.set" /\ req'[q].version = y
<1>6. \A y : Coming(y) <=> y = x
  BY <1>3
<1>7. \A w : Displayed(w)' = {y \in Of(w)' : y \in active' \/ Coming(y)}
  BY DEF Displayed
<1> HIDE DEF Coming
<1>8. Displayed(v)' = {x}
  BY <1>1, <1>2, <1>4, <1>6, <1>7
<1>9. ASSUME NEW w \in Videos, w # v PROVE Displayed(w)' = Displayed(w)
  <2>1. x \notin Of(w) /\ Of(w) \cap Of(v) = {}
    BY <1>1, <1>9 DEF Of
  <2>2. Displayed(w)' = Of(w) \cap active
    BY <1>2, <1>4, <1>9, <1>6, <1>7, <2>1
  <2>3. Displayed(w) = Of(w) \cap active
    BY <1>2, QuietShown
  <2>4. QED
    BY <2>2, <2>3
<1>10. ASSUME NEW w \in files' PROVE \E y \in Of(w)' : Displayed(w)' = {y}
  <2>1. CASE w = v
    BY <1>1, <1>4, <1>8, <2>1
  <2>2. CASE w # v
    BY <1>2, <1>4, <1>9, <2>2 DEF InTurn, InOrder, TypeOK
  <2>3. QED
    BY <2>1, <2>2
<1>11. x \in Shelf!ToSet(Shelves[v])
  <2>1. x \in ToSet(ShelfOf(v))
    BY <1>1 DEF InTurn, InOrder, Listed, Lists
  <2>2. QED
    BY <1>1, <2>1, Mapped DEF Shelf!ToSet, ToSet
<1>12. Shelves' = Shelves
  BY <1>5, Mapped, MappedNext
<1>13. Shown' = [Shown EXCEPT ![v] = x]
  <2>1. OnlyOf(Displayed(v)') = x
    BY <1>8, OnlyOfOne
  <2>2. \A w \in Videos \ {v} : OnlyOf(Displayed(w)') = OnlyOf(Displayed(w))
    BY <1>9
  <2>3. QED
    BY <1>1, <2>1, <2>2, Mapped, MappedNext
<1>14. QED
  BY <1>5, <1>10, <1>11, <1>12, <1>13 DEF Shelf!Show, InOrder

\* A file is deleted with its versions.
LEMMA Drops ==
    ASSUME TypeOK, TypeOK', InTurn, ~overlap, ~overlap',
           NEW r \in Requests, Alone(r), NEW v \in Videos, DeleteVideo(r, v)
    PROVE  InOrder' /\ Shelf!Drop(v)
<1>1. /\ req[r] = Idle /\ v \in files /\ files' = files \ {v}
      /\ parent' = [x \in Versions |-> IF x \in Of(v) THEN NoVideo ELSE parent[x]]
      /\ number' = [x \in Versions |-> IF x \in Of(v) THEN 0 ELSE number[x]]
      /\ active' = active \ Of(v) /\ req' = req
  BY DEF DeleteVideo
<1>2. \A w : Displayed(w) = Of(w) \cap active
  BY <1>1, QuietShown DEF Idle
<1>3. \A w : Displayed(w)' = Of(w)' \cap active'
  <2>1. req'[r].at # "activate.set" /\ \A q \in Requests \ {r} : req'[q] = Idle
    BY <1>1 DEF Idle, Alone
  <2>2. QED
    BY <2>1, QuietShownNext
<1>4. ASSUME NEW w \in Videos, w # v
      PROVE  /\ Of(w)' = Of(w) /\ Listed(w)' /\ ShelfOf(w)' = ShelfOf(w)
             /\ Displayed(w)' = Displayed(w)
  <2>1. Of(w)' = Of(w) /\ Of(w) \cap Of(v) = {}
    BY <1>1, <1>4, StackAssumption DEF Of
  <2>2. \A y \in Of(w) : number'[y] = number[y]
    BY <1>1, <2>1 DEF Of
  <2>3. Listed(w)' /\ ShelfOf(w)' = ShelfOf(w)
    BY <2>1, <2>2, SameShelf DEF InTurn, InOrder
  <2>4. QED
    BY <1>1, <1>2, <1>3, <2>1, <2>3
<1>5. Of(v)' = {} /\ Displayed(v)' = {}
  BY <1>1, <1>3, StackAssumption DEF Of
<1>6. Listed(v)' /\ ShelfOf(v)' = <<>>
  BY <1>5, ListEmpty DEF Listed, ShelfOf
<1>7. Shelves[v] # <<>>
  <2>1. Of(v) # {} /\ Of(v) \subseteq ToSet(ShelfOf(v))
    BY <1>1 DEF InTurn, InOrder, Listed, Lists
  <2>2. QED
    BY <2>1, Mapped DEF ToSet
<1>8. Shelves' = [Shelves EXCEPT ![v] = <<>>]
  BY <1>4, <1>6, Mapped, MappedNext
<1>9. Shown' = [Shown EXCEPT ![v] = NoVersion]
  BY <1>4, <1>5, Mapped, MappedNext, OnlyOfOne
<1>10. \A w \in files' : \E y \in Of(w)' : Displayed(w)' = {y}
  BY <1>1, <1>4 DEF InTurn, InOrder, TypeOK
<1>11. QED
  BY <1>4, <1>6, <1>7, <1>8, <1>9, <1>10 DEF Shelf!Drop, InOrder

\* A version is deleted: the newest of the rest is shown when it was the shown one.
LEMMA Discards ==
    ASSUME TypeOK, TypeOK', InTurn, ~overlap, ~overlap',
           NEW r \in Requests, Alone(r), DeleteCommit(r),
           NEW v, v = req[r].video, NEW x, x = req[r].version
    PROVE  InOrder' /\ \E i \in DOMAIN Shelves[v] : Shelf!Discard(v, i)
<1> DEFINE R == Of(v) \ {x}
           newest == {y \in R : \A z \in R : number[z] <= number[y]}
<1>1. v \in Videos /\ x \in Versions /\ x \in Of(v) /\ R # {}
      /\ (req[r].wasActive <=> x \in active)
  <2>1. req[r] \in Deleting
    BY RequestType DEF DeleteCommit
  <2>2. x \in Of(v) /\ Of(v) # {x} /\ (req[r].wasActive <=> x \in active)
    BY DEF DeleteCommit, InTurn, InOrder, ReadStill
  <2>3. QED
    BY <2>1, <2>2 DEF Deleting
<1>2. /\ files' = files /\ parent' = [parent EXCEPT ![x] = NoVideo]
      /\ number' = [number EXCEPT ![x] = 0] /\ Put(r, Idle)
      /\ req[r].at # "activate.set"
  BY DEF DeleteCommit
<1>3. active' = (active \ {x}) \cup
                   {y \in R : req[r].wasActive /\ \A z \in R : number[z] <= number[y]}
  BY DEF DeleteCommit
<1>4. active' = IF x \in active THEN (active \ {x}) \cup newest ELSE active
  BY <1>1, <1>3
<1>5. \A w : Displayed(w) = Of(w) \cap active
  BY <1>2, QuietShown
<1>6. \A w : Displayed(w)' = Of(w)' \cap active'
  <2>1. req'[r] = Idle /\ \A q \in Requests \ {r} : req'[q] = Idle
    BY <1>2 DEF Put, Alone, TypeOK
  <2>2. req'[r].at # "activate.set"
    BY <2>1 DEF Idle
  <2>3. QED
    BY <2>1, <2>2, QuietShownNext
<1>7. newest \subseteq R
  OBVIOUS
<1>8. Of(v)' = R
  BY <1>1, <1>2, StackAssumption DEF Of, TypeOK
<1> HIDE DEF R
<1>9. R \subseteq Of(v) /\ x \notin R
  BY DEF R
<1> HIDE DEF newest
<1>10. ASSUME NEW w \in Videos, w # v
       PROVE  /\ Of(w)' = Of(w) /\ Listed(w)' /\ ShelfOf(w)' = ShelfOf(w)
              /\ Displayed(w)' = Displayed(w)
  <2>1. Of(w)' = Of(w) /\ Of(w) \cap Of(v) = {} /\ x \notin Of(w)
    BY <1>1, <1>2, <1>10, StackAssumption DEF Of, TypeOK
  <2>2. \A y \in Of(w) : number'[y] = number[y]
    BY <1>2, <2>1 DEF Of, TypeOK
  <2>3. Listed(w)' /\ ShelfOf(w)' = ShelfOf(w)
    BY <2>1, <2>2, SameShelf DEF InTurn, InOrder
  <2>4. Of(w) \cap active' = Of(w) \cap active
    BY <1>4, <1>7, <1>9, <2>1
  <2>5. QED
    BY <1>5, <1>6, <2>1, <2>3, <2>4
<1>11. PICK i \in 1..Len(ShelfOf(v)) :
          /\ ShelfOf(v)[i] = x /\ i \in DOMAIN ShelfOf(v)
          /\ ShelfOf(v)' = RemoveAt(ShelfOf(v), i) /\ Listed(v)'
          /\ RemoveAt(ShelfOf(v), i) # <<>>
          /\ newest = {Last(RemoveAt(ShelfOf(v), i))}
  <2> DEFINE S == Of(v)
             s == ShelfOf(v)
             num == number
             num2 == number'
  <2>1. s \in Seq(S) /\ Lists(s, S, num)
    BY <1>1 DEF Listed, InTurn, InOrder
  <2>2. (\A y \in S : num[y] \in Int) /\ x \in S
    BY <1>1, NumbersTyped
  <2>3. \A y \in R : num2[y] = num[y]
    BY <1>2, <1>9, <2>2 DEF Of, TypeOK
  <2>4. ShelfOf(v)' = ListOf(R, num2)
    BY <1>8 DEF ShelfOf
  <2>5. Listed(v)' <=> ShelfOf(v)' \in Seq(R) /\ Lists(ShelfOf(v)', R, num2)
    BY <1>8 DEF Listed
  <2>6. R = S \ {x}
    BY DEF R
  <2>7. newest = {y \in R : \A z \in R : num[z] <= num[y]}
    BY DEF newest
  <2> HIDE DEF S, s, num, num2
  <2>8. PICK i \in 1..Len(s) : s[i] = x /\ i \in DOMAIN s
    BY <2>1, <2>2, ListBijection
  <2> DEFINE d == RemoveAt(s, i)
  <2>9. \A y \in S \ {s[i]} : num2[y] = num[y]
    BY <2>3, <2>6, <2>8
  <2>10. d \in Seq(S \ {s[i]})
    BY <2>1, <2>2, <2>9, ListRemove
  <2>11. Lists(d, S \ {s[i]}, num2)
    BY <2>1, <2>2, <2>9, ListRemove
  <2> HIDE DEF d
  <2>12. d \in Seq(R) /\ Lists(d, R, num2)
    BY <2>6, <2>8, <2>10, <2>11
  <2>13. \A y \in R : num2[y] \in Int
    BY <2>2, <2>3, <2>6
  <2>14. ListOf(R, num2) = d
    BY <2>12, <2>13, ListIs
  <2>15. d # <<>>
    BY <1>1, <2>12, <2>13, ListLast
  <2>16. {y \in R : \A z \in R : num2[z] <= num2[y]} = {Last(d)}
    BY <1>1, <2>12, <2>13, ListLast
  <2>17. newest = {Last(d)}
    BY <2>3, <2>7, <2>16
  <2>18. QED
    BY <2>4, <2>5, <2>8, <2>12, <2>14, <2>15, <2>17 DEF s, d
<1> DEFINE rest == RemoveAt(ShelfOf(v), i)
<1> HIDE DEF rest
<1>12. PICK z \in Of(v) : Displayed(v) = {z}
  <2>1. v \in files
    <3>1. parent[x] = v /\ parent[x] \in files \cup {NoVideo} /\ v # NoVideo
      BY <1>1, StackAssumption DEF Of, TypeOK
    <3>2. QED
      BY <3>1
  <2>2. QED
    BY <2>1 DEF InTurn, InOrder
<1>13. Displayed(v)' = {IF z = x THEN Last(rest) ELSE z}
  <2>1. newest = {Last(rest)}
    BY <1>11 DEF rest
  <2>2. CASE z = x
    <3>1. x \in active /\ R \cap active = {}
      BY <1>5, <1>9, <1>12, <2>2
    <3>2. active' = (active \ {x}) \cup newest
      BY <1>4, <3>1
    <3>3. R \cap active' = newest
      BY <1>7, <3>1, <3>2
    <3>4. QED
      BY <1>6, <1>8, <2>1, <2>2, <3>3
  <2>3. CASE z # x
    <3>1. x \notin active /\ Of(v) \cap active = {z}
      BY <1>1, <1>5, <1>12, <2>3
    <3>2. R \cap active' = {z}
      BY <1>4, <2>3, <3>1 DEF R
    <3>3. QED
      BY <1>6, <1>8, <2>3, <3>2
  <2>4. QED
    BY <2>2, <2>3
<1>14. ASSUME NEW w \in files' PROVE \E y \in Of(w)' : Displayed(w)' = {y}
  <2>1. CASE w = v
    <3>1. Displayed(v)' \subseteq Of(v)'
      BY <1>6
    <3>2. QED
      BY <1>13, <2>1, <3>1
  <2>2. CASE w # v
    BY <1>2, <1>10, <2>2 DEF InTurn, InOrder, TypeOK
  <2>3. QED
    BY <2>1, <2>2
<1>15. Shelves[v] = ShelfOf(v) /\ Shown[v] = z
  <2>1. Shelves[v] = ShelfOf(v) /\ Shown[v] = OnlyOf(Displayed(v))
    BY <1>1, Mapped
  <2>2. QED
    BY <1>12, <2>1, OnlyOfOne
<1>16. Shelves' = [Shelves EXCEPT ![v] = rest]
  <2>1. ShelfOf(v)' = rest
    BY <1>11 DEF rest
  <2>2. QED
    BY <1>1, <1>10, <2>1, Mapped, MappedNext
<1>17. Shown' = [Shown EXCEPT ![v] = IF z = x THEN Last(rest) ELSE z]
  <2>1. OnlyOf(Displayed(v)') = IF z = x THEN Last(rest) ELSE z
    BY <1>13, OnlyOfOne
  <2>2. \A w \in Videos \ {v} : OnlyOf(Displayed(w)') = OnlyOf(Displayed(w))
    BY <1>10
  <2>3. QED
    BY <1>1, <2>1, <2>2, Mapped, MappedNext
<1>18. Shelf!Discard(v, i)
  <2>1. Shelf!RemoveAt(Shelves[v], i) = rest
    BY <1>15 DEF Shelf!RemoveAt, RemoveAt, rest
  <2>2. \A q : Shelf!Last(q) = Last(q)
    BY DEF Shelf!Last, Last
  <2>3. i \in DOMAIN Shelves[v] /\ Shelves[v][i] = x /\ rest # <<>>
    BY <1>11, <1>15 DEF rest
  <2>4. Shown' = [Shown EXCEPT ![v] = IF @ = Shelves[v][i] THEN Last(rest) ELSE @]
    BY <1>15, <1>17, <2>3
  <2>5. QED
    BY <1>16, <2>1, <2>2, <2>3, <2>4 DEF Shelf!Discard
<1>19. QED
  BY <1>10, <1>11, <1>14, <1>15, <1>18 DEF InOrder

\* One file is stacked onto another: its versions come last and its last is shown.
LEMMA Stacks ==
    ASSUME TypeOK, TypeOK', InTurn, ~overlap, ~overlap',
           NEW r \in Requests, Alone(r), MergeCommit(r),
           NEW s, s = req[r].source, NEW t, t = req[r].target
    PROVE  InOrder' /\ Shelf!Stack(s, t)
<1> DEFINE newest == {x \in Of(s) : \A y \in Of(s) : number[y] <= number[x]}
           last == Last(ShelfOf(s))
<1>1. s \in Videos /\ t \in Videos /\ s # t
  BY RequestType DEF MergeCommit, Merging
<1>2. /\ s \in files /\ t \in files /\ Of(s) # {} /\ files' = files \ {s}
      /\ parent' = [x \in Versions |-> IF x \in Of(s) THEN t ELSE parent[x]]
      /\ Put(r, Idle) /\ req[r].at # "activate.set"
  BY DEF MergeCommit
<1>3. active' = (active \ (Of(t) \cup Of(s))) \cup newest
  BY DEF MergeCommit
<1>4. PICK base \in 0..MaxNumber :
         /\ \A x \in Of(t) : number[x] <= base
         /\ number' = [x \in Versions |->
                          IF x \in Of(s) THEN MergeNumber(x, s, base) ELSE number[x]]
  BY DEF MergeCommit, IsLatest
<1>5. \A w : Displayed(w) = Of(w) \cap active
  BY <1>2, QuietShown
<1>6. \A w : Displayed(w)' = Of(w)' \cap active'
  <2>1. req'[r] = Idle /\ \A q \in Requests \ {r} : req'[q] = Idle
    BY <1>2 DEF Put, Alone, TypeOK
  <2>2. req'[r].at # "activate.set"
    BY <2>1 DEF Idle
  <2>3. QED
    BY <2>1, <2>2, QuietShownNext
<1>7. Of(t)' = Of(t) \cup Of(s) /\ Of(s)' = {}
  BY <1>1, <1>2 DEF Of
<1>8. /\ ShelfOf(s) \in Seq(Of(s)) /\ Lists(ShelfOf(s), Of(s), number)
      /\ ShelfOf(t) \in Seq(Of(t)) /\ Lists(ShelfOf(t), Of(t), number)
  BY <1>1 DEF InTurn, InOrder, Listed
<1>9. newest = {last} /\ last \in Of(s) /\ ShelfOf(s) # <<>>
  <2>1. \A x \in Of(s) : number[x] \in Int
    BY <1>1, NumbersTyped
  <2>2. QED
    BY <1>2, <1>8, <2>1, ListLast
<1> HIDE DEF newest, last
<1>10. Of(t) # {} /\ ShelfOf(t) # <<>>
  <2>1. Of(t) # {}
    BY <1>2 DEF InTurn, InOrder
  <2>2. QED
    BY <1>8, <2>1 DEF Lists, ToSet
<1>11. ASSUME NEW w \in Videos, w # s, w # t
       PROVE  /\ Of(w)' = Of(w) /\ Listed(w)' /\ ShelfOf(w)' = ShelfOf(w)
              /\ Displayed(w)' = Displayed(w)
  <2>1. Of(w)' = Of(w) /\ Of(w) \cap (Of(t) \cup Of(s)) = {}
    BY <1>1, <1>2, <1>11 DEF Of
  <2>2. \A y \in Of(w) : number'[y] = number[y]
    BY <1>4, <2>1 DEF Of
  <2>3. Listed(w)' /\ ShelfOf(w)' = ShelfOf(w)
    BY <2>1, <2>2, SameShelf DEF InTurn, InOrder
  <2>4. Of(w) \cap active' = Of(w) \cap active
    BY <1>3, <1>9, <2>1
  <2>5. QED
    BY <1>5, <1>6, <2>1, <2>3, <2>4
<1>12. Listed(s)' /\ ShelfOf(s)' = <<>> /\ Displayed(s)' = {}
  BY <1>6, <1>7, ListEmpty DEF Listed, ShelfOf
<1>13. Displayed(t)' = {last}
  BY <1>3, <1>6, <1>7, <1>9
<1>14. Listed(t)' /\ ShelfOf(t)' = ShelfOf(t) \o ShelfOf(s)
  <2> DEFINE S == Of(t)
             T == Of(s)
             a == ShelfOf(t)
             b == ShelfOf(s)
             num == number
             num2 == number'
  <2>1. a \in Seq(S) /\ Lists(a, S, num) /\ b \in Seq(T) /\ Lists(b, T, num)
    BY <1>8
  <2>2. S \cap T = {} /\ S \subseteq Versions /\ T \subseteq Versions
    BY <1>1 DEF Of
  <2>3. \A x \in S \cup T : num[x] \in Int
    BY <1>1, NumbersTyped
  <2>4. \A x \in S : num2[x] = num[x] /\ num2[x] <= base
    BY <1>4, <2>2
  <2>5. \A x \in T : num2[x] = MergeNumber(x, s, base)
    BY <1>4, <2>2
  <2>6. ASSUME NEW x \in T
        PROVE  /\ num2[x] \in Nat /\ base < num2[x]
               /\ \A y \in T : num[x] < num[y] => num2[x] < num2[y]
    <3>1. number \in [Versions -> 0..MaxNumber] /\ base \in Nat
      BY DEF TypeOK
    <3>2. /\ MergeNumber(x, s, base) \in Nat /\ base < MergeNumber(x, s, base)
          /\ \A y \in Of(s) :
                number[x] < number[y] => MergeNumber(x, s, base) < MergeNumber(y, s, base)
      BY <3>1, <2>6, MergeNumbers
    <3>3. QED
      BY <2>5, <3>2
  <2>7. ShelfOf(t)' = ListOf(S \cup T, num2)
    BY <1>7 DEF ShelfOf
  <2>8. Listed(t)' <=> ShelfOf(t)' \in Seq(S \cup T) /\ Lists(ShelfOf(t)', S \cup T, num2)
    BY <1>7 DEF Listed
  <2> HIDE DEF S, T, a, b, num, num2
  <2>9. \A x \in S \cup T : num2[x] \in Int
    BY <2>3, <2>4, <2>6
  <2>10. \A x, y \in S : num[x] < num[y] => num2[x] < num2[y]
    BY <2>4
  <2>11. \A x, y \in T : num[x] < num[y] => num2[x] < num2[y]
    BY <2>6
  <2>12. \A x \in S, y \in T : num2[x] < num2[y]
    <3>1. TAKE x \in S, y \in T
    <3>2. num2[x] \in Int /\ num2[y] \in Int /\ base \in Int
      BY <2>9
    <3>3. num2[x] <= base /\ base < num2[y]
      BY <2>4, <2>6
    <3>4. QED
      BY <3>2, <3>3
  <2>13. a \o b \in Seq(S \cup T)
    BY <2>1, <2>3, <2>9, <2>10, <2>11, <2>12, ListConcat
  <2>14. Lists(a \o b, S \cup T, num2)
    BY <2>1, <2>3, <2>9, <2>10, <2>11, <2>12, ListConcat
  <2>15. ListOf(S \cup T, num2) = a \o b
    BY <2>9, <2>13, <2>14, ListIs
  <2>16. QED
    BY <2>7, <2>8, <2>13, <2>14, <2>15 DEF a, b
<1>15. Shelves[s] = ShelfOf(s) /\ Shelves[t] = ShelfOf(t)
  BY <1>1, Mapped
<1>16. Shelves' = [Shelves EXCEPT ![s] = <<>>, ![t] = @ \o Shelves[s]]
  <2>1. Shelves'[s] = <<>>
    BY <1>1, <1>12, MappedNext
  <2>2. Shelves'[t] = Shelves[t] \o Shelves[s]
    <3>1. Shelves'[t] = ShelfOf(t)'
      BY <1>1, MappedNext
    <3>2. QED
      BY <1>14, <1>15, <3>1
  <2>3. \A w \in Videos \ {s, t} : Shelves'[w] = Shelves[w]
    BY <1>11, Mapped, MappedNext
  <2>4. QED
    BY <1>1, <2>1, <2>2, <2>3, Mapped, MappedNext
<1>17. Shown' = [Shown EXCEPT ![s] = NoVersion, ![t] = last]
  <2>1. OnlyOf(Displayed(t)') = last /\ OnlyOf(Displayed(s)') = NoVersion
    BY <1>12, <1>13, OnlyOfOne
  <2>2. \A w \in Videos \ {s, t} : OnlyOf(Displayed(w)') = OnlyOf(Displayed(w))
    BY <1>11
  <2>3. \A w \in Videos : Shown'[w] = IF w = s THEN NoVersion ELSE
                             IF w = t THEN last ELSE Shown[w]
    BY <1>1, <2>1, <2>2, Mapped, MappedNext
  <2>4. QED
    BY <1>1, <2>3, Mapped, MappedNext
<1>18. Shelf!Stack(s, t)
  <2>1. Shelf!Last(Shelves[s]) = last
    BY <1>15 DEF Shelf!Last, Last, last
  <2>2. QED
    BY <1>1, <1>9, <1>10, <1>15, <1>16, <1>17, <2>1 DEF Shelf!Stack
<1>19. ASSUME NEW w \in Videos PROVE Listed(w)'
  BY <1>11, <1>12, <1>14
<1>20. ASSUME NEW w \in files' PROVE \E y \in Of(w)' : Displayed(w)' = {y}
  <2>1. CASE w = t
    BY <1>7, <1>9, <1>13, <2>1
  <2>2. CASE w # t
    <3>1. w \in Videos /\ w # s /\ w \in files
      BY <1>2, <1>20 DEF TypeOK
    <3>2. QED
      BY <1>11, <2>2, <3>1 DEF InTurn, InOrder
  <2>3. QED
    BY <2>1, <2>2
<1>21. QED
  BY <1>18, <1>19, <1>20 DEF InOrder

\* A step taken in turn is a step of the shelf, or none that it shows.
LEMMA TurnStep ==
    ASSUME TypeOK, TypeOK', InTurn, ~overlap, ~overlap',
           NEW r \in Requests, Alone(r), Step(r)
    PROVE  InTurn' /\ (Shelf!ShelfNext \/ UNCHANGED <<Shelves, Shown>>)
<1> DEFINE Goal == InOrder' /\ (Shelf!ShelfNext \/ UNCHANGED <<Shelves, Shown>>)
<1>1. /\ \A q \in Requests \ {r} : req'[q] = Idle
      /\ \A q \in Requests : ReadStill(q)'
  BY ReadsStep
<1>2. ASSUME NEW m, Put(r, m) PROVE req'[r] = m
  BY <1>2 DEF Put, TypeOK
<1>3. Idle.at = "idle"
  BY DEF Idle
<1>4. ASSUME req[r].at # "activate.set", req'[r].at # "activate.set"
      PROVE  /\ \A w : Displayed(w) = Of(w) \cap active
             /\ \A w : Displayed(w)' = Of(w)' \cap active'
  BY <1>1, <1>4, QuietShown, QuietShownNext
<1>5. ASSUME req[r].at # "activate.set", req'[r].at # "activate.set", UNCHANGED tables
      PROVE  Goal
  <2>1. \A w : Of(w)' = Of(w)
    BY <1>5 DEF tables, Of
  <2>2. \A w \in Videos : Displayed(w)' = Displayed(w)
    BY <1>4, <1>5, <2>1 DEF tables
  <2>3. QED
    BY <1>5, <2>2, NothingShown DEF tables
<1>6. ASSUME NEW v \in Videos, NEW x \in Versions, NEW n \in Int, NEW show \in BOOLEAN,
             Create(x, v, n), \A y \in Of(v) : number[y] < n, Of(v) = {} => show,
             files' = files \cup {v},
             active' = IF show THEN (active \ Of(v)) \cup {x} ELSE active,
             req[r].at # "activate.set", req'[r].at # "activate.set"
      PROVE  Goal
  <2>1. /\ x \in Free /\ parent' = [parent EXCEPT ![x] = v]
        /\ number' = [number EXCEPT ![x] = n]
    BY <1>6 DEF Create
  <2>2. InOrder' /\ Shelf!Upload(v, x, show)
    BY <1>4, <1>6, <2>1, Arrives
  <2>3. Shelf!Upload(v, x, TRUE) \/ Shelf!Upload(v, x, FALSE)
    BY <2>2
  <2>4. Shelf!ShelfNext
    BY <2>3 DEF Shelf!ShelfNext
  <2>5. QED
    BY <2>2, <2>4
<1>7. ASSUME Continue(r) PROVE Goal
  <2>1. CASE ActivateClear(r)
    <3>1. PICK v, x : v = req[r].video /\ x = req[r].version
      OBVIOUS
    <3>2. InOrder' /\ Shelf!Show(v, x)
      BY <2>1, <3>1, Activates
    <3>3. v \in Videos /\ x \in Versions
      BY <2>1, <3>1, RequestType DEF ActivateClear, Activating
    <3>4. QED
      BY <3>2, <3>3 DEF Shelf!ShelfNext
  <2>2. CASE ActivateSet(r)
    <3>1. PICK x : x = req[r].version
      OBVIOUS
    <3>2. /\ req[r].at = "activate.set" /\ active' = active \cup {x} /\ files' = files
          /\ parent' = parent /\ number' = number /\ req'[r] = Idle
      BY <2>2, <3>1, <1>2 DEF ActivateSet
    <3> DEFINE Coming(y) == \E q \in Requests :
                               req[q].at = "activate.set" /\ req[q].version = y
    <3>3. \A y : Coming(y) <=> y = x
      BY <3>1, <3>2, <1>3 DEF Alone
    <3>4. \A w : Displayed(w) = {y \in Of(w) : y \in active \/ Coming(y)}
      BY DEF Displayed
    <3> HIDE DEF Coming
    <3>5. \A w : Displayed(w)' = Of(w)' \cap active'
      BY <1>1, <3>2, <1>3, QuietShownNext
    <3>6. \A w : Of(w)' = Of(w)
      BY <3>2 DEF Of
    <3>7. \A w \in Videos : Displayed(w)' = Displayed(w)
      BY <3>2, <3>3, <3>4, <3>5, <3>6
    <3>8. QED
      BY <3>2, <3>7, NothingShown
  <2>3. CASE ActivateMisses(r)
    <3>1. req[r].version \in Of(req[r].video) /\ req[r].video \in Videos
      BY <2>3, RequestType DEF ActivateMisses, InTurn, ReadStill, Activating
    <3>2. QED
      BY <2>3, <3>1, StackAssumption DEF ActivateMisses, Free, Of
  <2>4. CASE DeleteCount(r)
    <3>1. req[r].at # "activate.set" /\ UNCHANGED tables
      BY <2>4 DEF DeleteCount
    <3>2. req'[r] = Idle \/ req'[r] = [req[r] EXCEPT !.at = "delete.commit"]
      BY <2>4, <1>2 DEF DeleteCount
    <3>3. req'[r].at # "activate.set"
      BY <2>4, <3>2, <1>3, RequestType DEF DeleteCount, Deleting
    <3>4. QED
      BY <3>1, <3>3, <1>5
  <2>5. CASE DeleteCommit(r)
    <3>1. PICK v, x : v = req[r].video /\ x = req[r].version
      OBVIOUS
    <3>2. InOrder' /\ \E i \in DOMAIN Shelves[v] : Shelf!Discard(v, i)
      BY <2>5, <3>1, Discards
    <3>3. v \in Videos
      BY <2>5, <3>1, RequestType DEF DeleteCommit, Deleting
    <3>4. QED
      BY <3>2, <3>3 DEF Shelf!ShelfNext
  <2>6. CASE MergeCommit(r)
    <3>1. PICK s, t : s = req[r].source /\ t = req[r].target
      OBVIOUS
    <3>2. InOrder' /\ Shelf!Stack(s, t)
      BY <2>6, <3>1, Stacks
    <3>3. s \in Videos /\ t \in Videos
      BY <2>6, <3>1, RequestType DEF MergeCommit, Merging
    <3>4. QED
      BY <3>2, <3>3 DEF Shelf!ShelfNext
  <2>7. CASE MergeAsksAgain(r)
    <3>1. Confirmed(req[r])
      BY <2>7 DEF MergeAsksAgain, InTurn, ReadStill
    <3>2. QED
      BY <2>7, <3>1 DEF MergeAsksAgain
  <2>8. CASE Refuse(r)
    <3>1. req[r].at # "activate.set" /\ UNCHANGED tables /\ req'[r] = Idle
      BY <2>8, <1>2 DEF Refuse
    <3>2. QED
      BY <3>1, <1>3, <1>5
  <2>9. QED
    BY <1>7, <2>1, <2>2, <2>3, <2>4, <2>5, <2>6, <2>7, <2>8 DEF Continue
<1>8. ASSUME NEW v \in Videos, PostRead(r, v) PROVE Goal
  <2>1. PICK n \in 0..MaxNumber : Put(r, [at |-> "post.commit", video |-> v, latest |-> n])
    BY <1>8 DEF PostRead
  <2>2. req'[r].at = "post.commit"
    BY <2>1, <1>2
  <2>3. req[r] = Idle /\ UNCHANGED tables
    BY <1>8 DEF PostRead
  <2>4. QED
    BY <2>2, <2>3, <1>3, <1>5
<1>9. ASSUME NEW v \in Videos, DeleteVideo(r, v) PROVE Goal
  <2>1. InOrder' /\ Shelf!Drop(v)
    BY <1>9, Drops
  <2>2. QED
    BY <2>1 DEF Shelf!ShelfNext
<1>10. ASSUME NEW x \in Versions, PostCommit(r, x) PROVE Goal
  <2>1. PICK v, n : v = req[r].video /\ n = req[r].latest
    OBVIOUS
  <2>2. req[r].at = "post.commit" /\ Create(x, v, n + 1) /\ files' = files /\ v \in files
    BY <1>10, <2>1 DEF PostCommit
  <2>3. PICK show \in BOOLEAN : active' = IF show THEN (active \ Of(v)) \cup {x} ELSE active
    BY <1>10, <2>1 DEF PostCommit
  <2>4. v \in Videos /\ n \in 0..MaxNumber /\ n + 1 \in Int
    BY <2>1, <2>2, RequestType, StackAssumption DEF Posting
  <2>5. IsLatest(n, v)
    BY <2>1, <2>2 DEF InTurn, ReadStill
  <2>6. \A y \in Of(v) : number[y] < n + 1
    BY <2>4, <2>5, NumbersTyped DEF IsLatest
  <2>7. Of(v) # {}
    BY <2>2 DEF InTurn, InOrder
  <2>8. req'[r] = Idle
    BY <1>10, <1>2 DEF PostCommit
  <2>9. files' = files \cup {v}
    BY <2>2
  <2>10. QED
    BY <2>2, <2>3, <2>4, <2>6, <2>7, <2>8, <2>9, <1>3, <1>6
<1>11. ASSUME NEW x \in Versions, ActivateRead(r, x) PROVE Goal
  <2>1. req'[r].at = "activate.clear"
    BY <1>11, <1>2 DEF ActivateRead
  <2>2. QED
    BY <1>11, <2>1, <1>3, <1>5 DEF ActivateRead
<1>12. ASSUME NEW x \in Versions, DeleteRead(r, x) PROVE Goal
  <2>1. req'[r].at = "delete.count"
    BY <1>12, <1>2 DEF DeleteRead
  <2>2. QED
    BY <1>12, <2>1, <1>3, <1>5 DEF DeleteRead
<1>13. ASSUME NEW v \in Videos, NEW x \in Versions, CreateVideo(r, v, x) PROVE Goal
  <2>1. /\ req[r] = Idle /\ v \notin files /\ files' = files \cup {v} /\ Create(x, v, 1)
        /\ active' = active \cup {x} /\ req' = req
    BY <1>13 DEF CreateVideo
  <2>2. Of(v) = {}
    BY <2>1, StackAssumption DEF Of, TypeOK
  <2>3. active' = IF TRUE THEN (active \ Of(v)) \cup {x} ELSE active
    BY <2>1, <2>2
  <2>4. 1 \in Int /\ TRUE \in BOOLEAN /\ \A y \in Of(v) : number[y] < 1
    BY <2>2
  <2>5. req[r].at # "activate.set" /\ req'[r].at # "activate.set"
    BY <2>1, <1>3
  <2>6. QED
    BY <2>1, <2>2, <2>3, <2>4, <2>5, <1>6
<1>14. ASSUME NEW v \in Videos, NEW x \in Versions, AddVersion(r, v, x) PROVE Goal
  <2>1. /\ req[r] = Idle /\ v \in files /\ files' = files
        /\ active' = (active \ Of(v)) \cup {x} /\ req' = req
    BY <1>14 DEF AddVersion
  <2>2. PICK n \in 0..MaxNumber : IsLatest(n, v) /\ Create(x, v, n + 1)
    BY <1>14 DEF AddVersion
  <2>3. \A y \in Of(v) : number[y] < n + 1
    BY <2>2, NumbersTyped, StackAssumption DEF IsLatest
  <2>4. files' = files \cup {v} /\ n + 1 \in Int
    BY <2>1, StackAssumption
  <2>5. active' = IF TRUE THEN (active \ Of(v)) \cup {x} ELSE active
    BY <2>1
  <2>6. QED
    BY <2>1, <2>2, <2>3, <2>4, <2>5, <1>3, <1>6
<1>15. ASSUME NEW s \in Videos, NEW t \in Videos, MergePreview(r, s, t) PROVE Goal
  <2>1. req'[r].at = "merge.commit"
    BY <1>15, <1>2 DEF MergePreview
  <2>2. QED
    BY <1>15, <2>1, <1>3, <1>5 DEF MergePreview
<1>16. Goal
  BY <1>7, <1>8, <1>9, <1>10, <1>11, <1>12, <1>13, <1>14, <1>15 DEF Step
<1>17. QED
  BY <1>1, <1>16 DEF InTurn

-----------------------------------------------------------------------------
\* Whether requests overlap or not, they are those of VersionStack.
THEOREM StackIsSpec == StackSpec => Spec
<1>1. StackInit => Init
  BY DEF StackInit
<1>2. [Overlapping \/ OneByOne]_<<overlap, vars>> => [Next]_vars
  BY DEF Overlapping, OneByOne, Next
<1>3. QED
  BY <1>1, <1>2, PTL DEF StackSpec, Spec

\* The inductive invariant of requests that do not overlap.
TurnInv == ~overlap => InTurn

\* At first no file exists, and every shelf is empty.
LEMMA TurnInit == StackInit => TurnInv /\ Shelf!ShelfInit
<1> SUFFICES ASSUME StackInit PROVE TurnInv /\ Shelf!ShelfInit
  OBVIOUS
<1>1. /\ files = {} /\ \A v \in Videos : Of(v) = {}
      /\ \A r \in Requests : req[r] = Idle
  BY StackAssumption DEF StackInit, Init, Of
<1>2. \A v \in Videos : Listed(v) /\ ShelfOf(v) = <<>> /\ Displayed(v) = {}
  BY <1>1, ListEmpty DEF Listed, ShelfOf, Displayed
<1>3. \A r \in Requests : ReadStill(r)
  BY <1>1 DEF ReadStill, Idle
<1>4. Shelves = [v \in Videos |-> <<>>] /\ Shown = [v \in Videos |-> NoVersion]
  BY <1>2, OnlyOfOne DEF Shelves, Shown
<1>5. QED
  BY <1>1, <1>2, <1>3, <1>4 DEF TurnInv, InTurn, InOrder, Shelf!ShelfInit

\* A behaviour with overlaps shows an empty shelf, one without a step of the shelf.
LEMMA TurnNext ==
    TypeOK /\ TypeOK' /\ TurnInv /\ [Overlapping \/ OneByOne]_<<overlap, vars>>
    => TurnInv' /\ [Shelf!ShelfNext]_(Shelf!shelfVars)
<1> SUFFICES ASSUME TypeOK, TypeOK', TurnInv, [Overlapping \/ OneByOne]_<<overlap, vars>>
             PROVE  TurnInv' /\ (Shelf!ShelfNext \/ UNCHANGED <<Shelves, Shown>>)
  BY DEF Shelf!shelfVars
<1>1. CASE Overlapping
  BY <1>1 DEF Overlapping, TurnInv, Shelves, Shown
<1>2. CASE OneByOne
  <2>1. ~overlap /\ ~overlap'
    BY <1>2 DEF OneByOne
  <2>2. PICK r \in Requests : Alone(r) /\ Step(r)
    BY <1>2 DEF OneByOne
  <2>3. QED
    BY <2>1, <2>2, TurnStep DEF TurnInv
<1>3. CASE UNCHANGED <<overlap, vars>>
  <2>1. /\ overlap' = overlap /\ files' = files /\ parent' = parent /\ number' = number
        /\ active' = active /\ req' = req
    BY <1>3 DEF vars
  <2>2. \A v : Of(v)' = Of(v)
    BY <2>1 DEF Of
  <2>3. \A v : ShelfOf(v)' = ShelfOf(v) /\ Displayed(v)' = Displayed(v)
    BY <2>1, <2>2 DEF ShelfOf, Displayed
  <2>4. InTurn' <=> InTurn
    BY <2>1, <2>2, <2>3 DEF InTurn, InOrder, Listed, ReadStill, IsLatest, Confirmed
  <2>5. UNCHANGED <<Shelves, Shown>>
    BY <2>1, <2>3 DEF Shelves, Shown
  <2>6. QED
    BY <2>1, <2>4, <2>5 DEF TurnInv
<1>4. QED
  BY <1>1, <1>2, <1>3

\* The tables are well typed, overlaps or not.
LEMMA StackTyped == StackSpec => []TypeOK
  BY StackIsSpec, TypeCorrect, PTL

\* Requests that do not overlap leave every file with its versions in one order,
\* at least one of them and exactly one shown, and act on what is still so.
THEOREM TurnsKept == StackSpec => []TurnInv
<1>1. StackInit => TurnInv
  BY TurnInit
<1>2. TypeOK /\ TypeOK' /\ TurnInv /\ [Overlapping \/ OneByOne]_<<overlap, vars>> => TurnInv'
  BY TurnNext
<1>3. QED
  BY <1>1, <1>2, StackTyped, PTL DEF StackSpec

\* As long as requests do not overlap, the versions of every file behave like the
\* shelf: uploads, stackings and deletions keep the order in which they arrived, a
\* file keeps its last one, and the one it shows is the last that was activated or
\* added to be shown, or the newest of the rest when that one was deleted.
THEOREM StackIsShelf == StackSpec => ImplementsShelf
<1>1. StackInit => Shelf!ShelfInit
  BY TurnInit
<1>2. TypeOK /\ TypeOK' /\ TurnInv /\ [Overlapping \/ OneByOne]_<<overlap, vars>>
      => [Shelf!ShelfNext]_(Shelf!shelfVars)
  BY TurnNext
<1>3. QED
  BY <1>1, <1>2, StackTyped, TurnsKept, PTL DEF StackSpec, ImplementsShelf, Shelf!ShelfSpec
===============================================================================
