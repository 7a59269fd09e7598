---------------------------- MODULE RefCountProofs ----------------------------
(***************************************************************************)
(* The counts of list_rc.c and rc.c are exact, for every number of nodes,  *)
(* keys, buckets and threads.                                              *)
(***************************************************************************)
EXTENDS RefCount, HashListProofs, FiniteSetTheorems

\* A step of an updater, or its next call.
Writer(w) == UpdateStep(w) \/ (Call(w) /\ UNCHANGED <<rcVars, rd>>)

\* A step of search, or its next call.
Reader(r) == SearchStep(r) \/ \E k \in Keys : SearchCall(r, k)

(***************************************************************************)
(* Counting                                                                *)
(***************************************************************************)
One(b) == IF b THEN 1 ELSE 0

\* Two finite sets that differ in one element at most.
LEMMA OneApart ==
  ASSUME NEW S, NEW T, NEW x, IsFiniteSet(S), IsFiniteSet(T), S \ {x} = T \ {x}
  PROVE  /\ Cardinality(S) \in Nat /\ Cardinality(T) \in Nat
         /\ Cardinality(T) = Cardinality(S) - One(x \in S) + One(x \in T)
<1>1. Cardinality(S) \in Nat /\ Cardinality(T) \in Nat
  BY FS_CardinalityType
<1>2. Cardinality(S \ {x}) = IF x \in S THEN Cardinality(S) - 1 ELSE Cardinality(S)
  BY FS_RemoveElement
<1>3. Cardinality(T \ {x}) = IF x \in T THEN Cardinality(T) - 1 ELSE Cardinality(T)
  BY FS_RemoveElement
<1> QED
  BY <1>1, <1>2, <1>3 DEF One

\* There are finitely many threads.
LEMMA ThreadsFinite == IsFiniteSet(Threads)
BY RefCountAssumption, FS_Union DEF Threads

\* The references to a node can be counted.
LEMMA Countable ==
  ASSUME NEW n
  PROVE  /\ IsFiniteSet(Before(n)) /\ IsFiniteSet(Standing(n))
         /\ IsFiniteSet(Taking(n)) /\ IsFiniteSet(Dropping(n))
         /\ Cardinality(Before(n)) \in Nat /\ Cardinality(Standing(n)) \in Nat
         /\ Cardinality(Taking(n)) \in Nat /\ Cardinality(Dropping(n)) \in Nat
         /\ Linked(n) \in {0, 1}
<1>1. /\ Before(n) \subseteq Nodes /\ Standing(n) \subseteq Readers
      /\ Taking(n) \subseteq Readers /\ Dropping(n) \subseteq Threads
  BY DEF Before, Standing, Taking, Dropping, Zombies
<1>2. /\ IsFiniteSet(Before(n)) /\ IsFiniteSet(Standing(n))
      /\ IsFiniteSet(Taking(n)) /\ IsFiniteSet(Dropping(n))
  BY <1>1, RefCountAssumption, ThreadsFinite, FS_Subset
<1>3. Linked(n) \in {0, 1}
  BY DEF Linked
<1> QED
  BY <1>2, <1>3, FS_CardinalityType

\* So can they after a step.
LEMMA CountableNext ==
  ASSUME NEW n
  PROVE  /\ IsFiniteSet(Before(n)') /\ IsFiniteSet(Standing(n)')
         /\ IsFiniteSet(Taking(n)') /\ IsFiniteSet(Dropping(n)')
         /\ Cardinality(Before(n)') \in Nat /\ Cardinality(Standing(n)') \in Nat
         /\ Cardinality(Taking(n)') \in Nat /\ Cardinality(Dropping(n)') \in Nat
         /\ Linked(n)' \in {0, 1}
<1>1. /\ Before(n)' \subseteq Nodes /\ Standing(n)' \subseteq Readers
      /\ Taking(n)' \subseteq Readers /\ Dropping(n)' \subseteq Threads
  BY DEF Before, Standing, Taking, Dropping, Zombies
<1>2. /\ IsFiniteSet(Before(n)') /\ IsFiniteSet(Standing(n)')
      /\ IsFiniteSet(Taking(n)') /\ IsFiniteSet(Dropping(n)')
  BY <1>1, RefCountAssumption, ThreadsFinite, FS_Subset
<1>3. Linked(n)' \in {0, 1}
  BY DEF Linked
<1> QED
  BY <1>2, <1>3, FS_CardinalityType

\* A node that some thread is dropping, and that is linked or led to as well,
\* has more than one reference.
LEMMA DroppedCounts ==
  ASSUME NEW n, NEW t \in Threads, dec[t] = n
  PROVE  References(n) >= Linked(n) + 1
<1>1. Dropping(n) # {}
  BY DEF Dropping
<1>2. Cardinality(Dropping(n)) # 0
  BY <1>1, Countable, FS_EmptySet
<1> QED
  BY <1>2, Countable DEF References

\* Nodes in the hands of updaters, and nodes taken to 0.
LEMMA HandsAndDying ==
  /\ \A n : n \in InHand <=> \E w \in Writers : n \in Held(w)
  /\ \A n : n \in Dying <=> \E t \in Threads : n \in dying[t]
BY DEF InHand, Dying

\* The last reference that is dropped is that of an unlinked node.
LEMMA LastIsZombie ==
  ASSUME CountInv, NEW t \in Threads, dec[t] # NULL
  PROVE  /\ dec[t] \in Nodes /\ rc[dec[t]] \in Nat /\ rc[dec[t]] >= 1
         /\ rc[dec[t]] = 1 => dec[t] \in Zombies
<1>1. PICK p : p = dec[t]
  OBVIOUS
<1>2. p \in Nodes /\ rc[p] \in Nat /\ rc[p] = References(p)
  BY <1>1 DEF CountInv, TypeOK, NodePtr, CountsExact
<1>3. rc[p] >= Linked(p) + 1 /\ Linked(p) \in {0, 1}
  BY <1>1, <1>2, DroppedCounts, Countable
<1>4. rc[p] >= 1
  BY <1>2, <1>3
<1>5. p \notin free \cup Dying
  BY <1>4 DEF CountInv, GoneAtZero
<1>6. rc[p] = 1 => p \notin live \cup InHand
  BY <1>3 DEF Linked
<1> QED
  BY <1>1, <1>2, <1>4, <1>5, <1>6 DEF Zombies

(***************************************************************************)
(* lfrc_refcnt_dec                                                         *)
(***************************************************************************)
\* The nodes that one level of lfrc_refcnt_dec frees or marks.
LEMMA DecNodes ==
  ASSUME CountInv, NEW t \in Threads, RefcntDec(t), NEW p, p = dec[t]
  PROVE  /\ UNCHANGED <<live, InHand>>
         /\ free' \cup Dying' = free \cup Dying \cup (IF rc[p] = 1 THEN {p} ELSE {})
         /\ DyingApart'
<1>0. TypeOK /\ DyingApart /\ p # NULL /\ p \in Nodes
  BY LastIsZombie DEF CountInv, RefcntDec, DecWith
<1> DEFINE last == rc[p] = 1
           dead == IF last THEN dying[t] \cup {p} ELSE dying[t]
           deep == IF last THEN next[p] ELSE NULL
<1>1. /\ UNCHANGED <<live, wpc, wcur, wnew>>
      /\ dying' = [dying EXCEPT ![t] = IF deep = NULL THEN {} ELSE dead]
      /\ free' = IF deep = NULL THEN free \cup dead ELSE free
  BY <1>0 DEF RefcntDec, DecWith, writerVars
<1>2. UNCHANGED InHand
  BY <1>1 DEF InHand, Held
<1>3. \A s \in Threads : dying'[s] = IF s = t THEN (IF deep = NULL THEN {} ELSE dead) ELSE dying[s]
  BY <1>0, <1>1 DEF TypeOK
<1>4. \A n : n \in Dying' <=> \E s \in Threads : n \in dying'[s]
  BY DEF Dying
<1>5. \A n : n \in Dying <=> \E s \in Threads : n \in dying[s]
  BY DEF Dying
<1>6. free' \cup Dying' = free \cup Dying \cup (IF last THEN {p} ELSE {})
  <2>1. dying[t] \subseteq dead /\ dead = dying[t] \cup (IF last THEN {p} ELSE {})
    OBVIOUS
  <2>2. CASE deep = NULL
    <3>1. \A n : n \in free' \cup Dying' <=> n \in free \/ n \in dead \/ n \in Dying
      BY <1>1, <1>3, <1>4, <1>5, <2>1, <2>2
    <3> QED
      BY <1>5, <2>1, <3>1
  <2>3. CASE deep # NULL
    <3>1. \A n : n \in free' \cup Dying' <=> n \in free \/ n \in dead \/ n \in Dying
      BY <1>1, <1>3, <1>4, <1>5, <2>1, <2>3
    <3> QED
      BY <1>5, <2>1, <3>1
  <2> QED
    BY <2>2, <2>3
<1>7. last => p \notin live \cup free \cup InHand /\ \A s \in Threads : p \notin dying[s]
  BY <1>0, <1>5, LastIsZombie DEF Zombies
<1>8. /\ dead \cap (live \cup free \cup InHand) = {}
      /\ \A s \in Threads : s # t => dead \cap dying[s] = {}
  BY <1>0, <1>7 DEF DyingApart
<1>9. DyingApart'
  <2>1. \A s \in Threads : dying'[s] \cap (live \cup free' \cup InHand) = {}
    <3>1. CASE deep = NULL
      BY <1>0, <1>1, <1>3, <1>8, <3>1 DEF DyingApart
    <3>2. CASE deep # NULL
      BY <1>0, <1>1, <1>3, <1>8, <3>2 DEF DyingApart
    <3> QED
      BY <3>1, <3>2
  <2>2. \A s, u \in Threads : s # u => dying'[s] \cap dying'[u] = {}
    BY <1>0, <1>3, <1>8 DEF DyingApart
  <2> QED
    BY <1>1, <1>2, <2>1, <2>2 DEF DyingApart
<1> QED
  BY <1>1, <1>2, <1>6, <1>9

\* The reference that is dropped is gone, and that of a node which is taken
\* to 0 to its successor is the next one to drop.
LEMMA DecCounts ==
  ASSUME CountInv, NEW t \in Threads, RefcntDec(t), NEW n \in Nodes
  PROVE  rc'[n] = References(n)'
<1>0. TypeOK /\ rc[n] = References(n) /\ n # NULL
  BY HashListAssumption DEF CountInv, CountsExact
<1>1. PICK p : p = dec[t]
  OBVIOUS
<1>2. PICK d : d = IF rc[p] = 1 THEN next[p] ELSE NULL
  OBVIOUS
<1>3. p # NULL /\ p \in Nodes /\ rc[p] \in Nat /\ rc[p] >= 1
  BY <1>1, LastIsZombie DEF RefcntDec, DecWith
<1>4. /\ rc' = [rc EXCEPT ![p] = @ - 1] /\ dec' = [dec EXCEPT ![t] = d]
      /\ UNCHANGED <<next, rd>>
  BY <1>1, <1>2, <1>3 DEF RefcntDec, DecWith, memVars
<1>5. /\ UNCHANGED <<live, InHand>>
      /\ free' \cup Dying' = free \cup Dying \cup (IF rc[p] = 1 THEN {p} ELSE {})
  BY <1>1, DecNodes
<1>6. Linked(n)' = Linked(n) /\ Standing(n)' = Standing(n) /\ Taking(n)' = Taking(n)
  BY <1>4, <1>5 DEF Linked, Standing, Taking
<1>7. Cardinality(Dropping(n)') = Cardinality(Dropping(n)) - One(n = p) + One(n = d)
  <2>1. \A s \in Threads : dec'[s] = IF s = t THEN d ELSE dec[s]
    BY <1>0, <1>4 DEF TypeOK
  <2>2. Dropping(n) \ {t} = Dropping(n)' \ {t}
    BY <2>1 DEF Dropping
  <2>3. (t \in Dropping(n) <=> n = p) /\ (t \in Dropping(n)' <=> n = d)
    BY <1>1, <2>1 DEF Dropping
  <2>4. Cardinality(Dropping(n)') =
          Cardinality(Dropping(n)) - One(t \in Dropping(n)) + One(t \in Dropping(n)')
    BY <2>2, Countable, CountableNext, OneApart
  <2> QED
    BY <2>3, <2>4 DEF One
<1>8. Cardinality(Before(n)') = Cardinality(Before(n)) - One(n = d)
  <2>1. Zombies' = Zombies \ (IF rc[p] = 1 THEN {p} ELSE {})
    BY <1>5 DEF Zombies
  <2>2. CASE rc[p] # 1
    <3>1. Before(n)' = Before(n) /\ n # d
      BY <1>0, <1>2, <1>4, <2>1, <2>2 DEF Before
    <3> QED
      BY <3>1, Countable DEF One
  <2>3. CASE rc[p] = 1
    <3>1. p \in Zombies
      BY <1>1, <1>3, <2>3, LastIsZombie
    <3>2. Before(n) \ {p} = Before(n)' \ {p} /\ p \notin Before(n)'
      BY <1>4, <2>1, <2>3 DEF Before
    <3>3. p \in Before(n) <=> n = d
      BY <1>2, <2>3, <3>1 DEF Before
    <3>4. Cardinality(Before(n)') =
            Cardinality(Before(n)) - One(p \in Before(n)) + One(p \in Before(n)')
      BY <3>2, Countable, CountableNext, OneApart
    <3> QED
      BY <3>2, <3>3, <3>4, Countable DEF One
  <2> QED
    BY <2>2, <2>3
<1>9. rc'[n] = rc[n] - One(n = p)
  BY <1>0, <1>3, <1>4 DEF One, TypeOK
<1> QED
  BY <1>0, <1>6, <1>7, <1>8, <1>9, Countable DEF References, One

\* One level of lfrc_refcnt_dec keeps the inductive invariant.
LEMMA DecInv ==
  ASSUME CountInv, NEW t \in Threads, RefcntDec(t)
  PROVE  CountInv'
<1>0. TypeOK /\ ListInv /\ OneRole /\ ListTypeOK
  BY DEF CountInv, ListInv
<1>1. PICK p : p = dec[t]
  OBVIOUS
<1>2. /\ p # NULL /\ p \in Nodes /\ rc[p] \in Nat /\ rc[p] >= 1
      /\ rc[p] = 1 => p \in Zombies
  BY <1>1, LastIsZombie DEF RefcntDec, DecWith
<1>3. /\ rc' = [rc EXCEPT ![p] = @ - 1]
      /\ dec' = [dec EXCEPT ![t] = IF rc[p] = 1 THEN next[p] ELSE NULL]
      /\ UNCHANGED <<memVars, lock, live, writerVars, searchVars, rd>>
  BY <1>1, <1>2 DEF RefcntDec, DecWith
<1>4. /\ UNCHANGED <<live, InHand>> /\ DyingApart'
      /\ free' \cup Dying' = free \cup Dying \cup (IF rc[p] = 1 THEN {p} ELSE {})
  BY <1>1, DecNodes
<1>5. Dying \subseteq Nodes /\ Dying \cap (live \cup InHand) = {}
  BY DEF CountInv, TypeOK, DyingApart, Dying
<1>6. free' \subseteq Nodes /\ free' \cap (live \cup InHand) = {}
  <2>1. free \subseteq Nodes /\ free \cap (live \cup InHand) = {}
    BY <1>0 DEF ListTypeOK, OneRole, InHand
  <2> QED
    BY <1>2, <1>4, <1>5, <2>1 DEF Zombies
<1>7. ListInv'
  <2>1. \A w \in Writers : Held(w) \cap free' = {}
    BY <1>6, HandsAndDying
  <2> QED
    BY <1>0, <1>3, <1>6, <2>1, FreeAwayInv
<1>8. TypeOK'
  <2>1. rc' \in [Nodes -> Nat] /\ dec' \in [Threads -> NodePtr]
    BY <1>0, <1>2, <1>3 DEF TypeOK, ListTypeOK, NodePtr
  <2>2. dying' \in [Threads -> SUBSET Nodes]
    BY <1>0, <1>1, <1>2 DEF RefcntDec, DecWith, TypeOK
  <2> QED
    BY <1>0, <1>3, <1>7, <2>1, <2>2 DEF TypeOK, ListInv
<1>9. CountsExact'
  BY DecCounts DEF CountsExact
<1>10. GoneAtZero'
  <2>1. \A n \in free \cup Dying : rc[n] = 0 /\ n \in Nodes /\ n # p
    BY <1>0, <1>2, <1>5 DEF CountInv, GoneAtZero, ListTypeOK
  <2>2. \A n \in Nodes : rc'[n] = IF n = p THEN rc[p] - 1 ELSE rc[n]
    BY <1>0, <1>3 DEF TypeOK
  <2> QED
    BY <1>2, <1>4, <2>1, <2>2 DEF GoneAtZero
<1>11. Control'
  BY <1>3 DEF CountInv, Control, writerVars, searchVars
<1> QED
  BY <1>4, <1>7, <1>8, <1>9, <1>10, <1>11 DEF CountInv

(***************************************************************************)
(* The updater                                                             *)
(***************************************************************************)
\* A step of insert or delete moves nodes between the list, the free nodes
\* and its own hands, and no others.
LEMMA RolesStay ==
  ASSUME ListInv, NEW w \in Writers, wpc[w] # "free",
         WriterStep(w) \/ \E op \in {"insert", "delete"}, k \in Keys : BeginCall(w, op, k)
  PROVE  \A n \in Nodes : n \in live \cup free \cup Held(w) <=> n \in live' \cup free' \cup Held(w)'
<1>0. ListTypeOK
  BY DEF ListInv
<1>1. \A n \in Nodes : n \notin live \cup free \cup Held(w) => n \notin live' \cup free' \cup Held(w)'
  BY ApartStable
<1>2. live \cup free \cup Held(w) \subseteq live' \cup free' \cup Held(w)'
  <2>1. CASE \E op \in {"insert", "delete"}, k \in Keys : BeginCall(w, op, k)
    BY <1>0, <2>1 DEF BeginCall, Held, GoTo, ListTypeOK
  <2>2. CASE LockW(w) \/ Step(w) \/ Miss(w) \/ UnlockW(w)
    BY <1>0, <2>2 DEF LockW, Step, Miss, UnlockW, Held, GoTo, ListTypeOK
  <2>3. CASE Unlink(w)
    BY <1>0, <2>3 DEF Unlink, Held, GoTo, ListTypeOK
  <2>4. CASE NewNode(w)
    BY <1>0, <2>4 DEF NewNode, Held, GoTo, ListTypeOK
  <2>5. CASE SetKey(w) \/ SetNext(w)
    BY <1>0, <2>5 DEF SetKey, SetNext, Held, GoTo, ListTypeOK
  <2>6. CASE Link(w)
    BY <1>0, <2>6 DEF Link, Held, GoTo, ListTypeOK
  <2>7. CASE FreeNode(w)
    BY <2>7 DEF FreeNode
  <2> QED
    BY <2>1, <2>2, <2>3, <2>4, <2>5, <2>6, <2>7 DEF WriterStep
<1> QED
  BY <1>1, <1>2

\* So the zombies stay what they are, and lead where they did.
LEMMA ZombiesStay ==
  ASSUME CountInv, NEW w \in Writers, WriterStep(w) \/ Call(w), dying' = dying
  PROVE  /\ \A n \in Nodes : n \in live \cup free \cup InHand <=> n \in live' \cup free' \cup InHand'
         /\ Zombies' = Zombies /\ Dying' = Dying
         /\ \A n \in Nodes : Before(n)' = Before(n)
<1>0. ListInv /\ wpc[w] # "free"
  BY DEF CountInv, Control
<1>1. \A n \in Nodes : n \in live \cup free \cup Held(w) <=> n \in live' \cup free' \cup Held(w)'
  BY <1>0, RolesStay DEF Call, InsertCall, DeleteCall
<1>2. /\ \A n \in Nodes : n \notin live \cup free \cup Held(w) => next'[n] = next[n]
      /\ \A v \in Writers : v # w => Held(v)' = Held(v)
  BY <1>0, ApartStable DEF Call, InsertCall, DeleteCall
<1>3. \A n : n \in InHand <=> \E v \in Writers : n \in Held(v)
  BY DEF InHand
<1>4. \A n : n \in InHand' <=> \E v \in Writers : n \in Held(v)'
  BY DEF InHand
<1>5. \A n \in Nodes : n \in live \cup free \cup InHand <=> n \in live' \cup free' \cup InHand'
  BY <1>1, <1>2, <1>3, <1>4
<1>6. Dying' = Dying
  BY DEF Dying
<1>7. Zombies' = Zombies
  BY <1>5, <1>6 DEF Zombies
<1>8. \A m \in Zombies : next'[m] = next[m]
  BY <1>2, <1>3 DEF Zombies
<1> QED
  BY <1>5, <1>6, <1>7, <1>8 DEF Before

\* An updater never comes to free_node.
LEMMA ControlStep ==
  ASSUME CountInv, NEW w \in Writers, Writer(w)
  PROVE  Control'
<1>0. Control /\ ListTypeOK
  BY DEF CountInv, ListInv
<1>1. UNCHANGED rd
  BY DEF Writer, UpdateStep
<1>2. UNCHANGED want
  BY DEF Writer, UpdateStep, InitNewNode, FreeNodeLater, Call, InsertCall, DeleteCall, BeginCall,
         WriterStep, LockW, Step, Miss, Unlink, FreeNode, NewNode, SetKey, SetNext, Link,
         UnlockW, searchVars
<1>3. \A v \in Writers : wpc'[v] \notin {"free", "late"}
  <2>1. CASE WriterStep(w)
    BY <1>0, <2>1 DEF WriterStep, LockW, Step, Miss, Unlink, FreeNode, NewNode, SetKey,
                     SetNext, Link, UnlockW, GoTo, ListTypeOK, Control
  <2>2. CASE FreeNodeLater(w) \/ Call(w)
    BY <1>0, <2>2 DEF FreeNodeLater, Call, InsertCall, DeleteCall, BeginCall, GoTo, ListTypeOK, Control
  <2> QED
    BY <2>1, <2>2 DEF Writer, UpdateStep, InitNewNode, WriterStep
<1> QED
  BY <1>0, <1>1, <1>2, <1>3 DEF Control

\* The links of a step that allocates nothing count the same nodes.
LEMMA QuietInv ==
  ASSUME CountInv, NEW w \in Writers, Control', UNCHANGED <<rcVars, rd>>,
         (WriterStep(w) /\ wpc'[w] # "setkey") \/ Call(w)
  PROVE  CountInv'
<1>0. TypeOK /\ ListInv /\ OneRole /\ ListTypeOK
  BY DEF CountInv, ListInv
<1>1. ListInv'
  BY <1>0, WriterStepInv, CallInv DEF Call, InsertCall, DeleteCall
<1>2. free' = free
  <2>1. ~NewNode(w)
    BY <1>0 DEF NewNode, Call, InsertCall, DeleteCall, BeginCall, GoTo, ListTypeOK
  <2>2. CASE Call(w)
    BY <2>2 DEF Call, InsertCall, DeleteCall, BeginCall
  <2>3. wpc[w] # "free"
    BY DEF CountInv, Control
  <2> QED
    BY <2>1, <2>2, <2>3
       DEF WriterStep, LockW, Step, Miss, Unlink, FreeNode, SetKey, SetNext, Link, UnlockW
<1>3. /\ \A n \in Nodes : n \in live \cup free \cup InHand <=> n \in live' \cup free' \cup InHand'
      /\ Dying' = Dying
      /\ \A n \in Nodes : Before(n)' = Before(n)
  BY ZombiesStay DEF rcVars
<1>4. free \cap (live \cup InHand) = {} /\ free' \cap (live' \cup InHand') = {}
  BY <1>0, <1>1 DEF ListInv, OneRole, InHand
<1>5. \A n \in Nodes : n \in live \cup InHand <=> n \in live' \cup InHand'
  BY <1>2, <1>3, <1>4
<1>6. \A n \in Nodes : References(n)' = References(n)
  BY <1>3, <1>5 DEF References, Linked, Standing, Taking, Dropping, rcVars
<1>7. CountsExact'
  BY <1>6 DEF CountInv, CountsExact, rcVars
<1>8. GoneAtZero'
  BY <1>2, <1>3 DEF CountInv, GoneAtZero, rcVars
<1>9. DyingApart'
  <2>1. \A t \in Threads : dying[t] \subseteq Nodes /\ dying[t] \cap (live \cup free \cup InHand) = {}
    BY <1>0 DEF CountInv, TypeOK, DyingApart
  <2> QED
    BY <1>3, <2>1 DEF CountInv, DyingApart, rcVars
<1>10. TypeOK'
  BY <1>0, <1>1 DEF TypeOK, ListInv, rcVars
<1> QED
  BY <1>1, <1>7, <1>8, <1>9, <1>10 DEF CountInv

\* A new node has the reference its link will be, and no other.
LEMMA NewInvariant ==
  ASSUME CountInv, NEW w \in Writers, Control', InitNewNode(w), UNCHANGED <<dying, rd>>
  PROVE  CountInv'
<1>0. TypeOK /\ ListInv /\ OneRole /\ ListTypeOK
  BY DEF CountInv, ListInv
<1>1. ListInv' /\ WriterStep(w)
  BY <1>0, WriterStepInv DEF InitNewNode, WriterStep
<1>2. PICK a \in free : free' = free \ {a} /\ wnew' = [wnew EXCEPT ![w] = a]
  BY DEF InitNewNode, NewNode
<1>3. a \in Nodes /\ a # NULL /\ wnew'[w] = a
  BY <1>0, <1>2, HashListAssumption DEF ListTypeOK
<1>4. rc' = [rc EXCEPT ![a] = @ + 1] /\ dec' = dec
  BY <1>3 DEF InitNewNode, Incremented
<1>5. /\ \A n \in Nodes : n \in live \cup free \cup InHand <=> n \in live' \cup free' \cup InHand'
      /\ Dying' = Dying
      /\ \A n \in Nodes : Before(n)' = Before(n)
  BY <1>1, ZombiesStay
<1>6. free \cap (live \cup InHand) = {} /\ free' \cap (live' \cup InHand') = {}
  BY <1>0, <1>1 DEF ListInv, OneRole, InHand
<1>7. \A n \in Nodes : n \in live' \cup InHand' <=> n \in live \cup InHand \/ n = a
  BY <1>2, <1>3, <1>5, <1>6
<1>8. ASSUME NEW n \in Nodes PROVE rc'[n] = References(n)'
  <2>1. rc[n] = References(n) /\ rc'[n] = rc[n] + One(n = a)
    BY <1>0, <1>4 DEF CountInv, CountsExact, TypeOK, One
  <2>2. Linked(n)' = Linked(n) + One(n = a)
    BY <1>6, <1>7 DEF Linked, One
  <2>3. /\ Before(n)' = Before(n) /\ Standing(n)' = Standing(n)
        /\ Taking(n)' = Taking(n) /\ Dropping(n)' = Dropping(n)
    BY <1>4, <1>5 DEF Standing, Taking, Dropping
  <2> QED
    BY <2>1, <2>2, <2>3, Countable DEF References, One
<1>9. a \notin Dying
  BY <1>2 DEF CountInv, DyingApart, Dying
<1>10. GoneAtZero'
  <2>1. \A n \in free' \cup Dying' : n # a /\ n \in free \cup Dying /\ n \in Nodes
    BY <1>0, <1>2, <1>5, <1>9 DEF Dying, TypeOK, ListTypeOK
  <2> QED
    BY <1>0, <1>4, <2>1 DEF CountInv, GoneAtZero, TypeOK
<1>11. DyingApart'
  <2>1. \A t \in Threads : dying[t] \subseteq Nodes /\ dying[t] \cap (live \cup free \cup InHand) = {}
    BY <1>0 DEF CountInv, TypeOK, DyingApart
  <2> QED
    BY <1>5, <2>1 DEF CountInv, DyingApart
<1>12. TypeOK'
  BY <1>0, <1>1, <1>3, <1>4 DEF TypeOK, ListInv
<1> QED
  BY <1>1, <1>8, <1>10, <1>11, <1>12 DEF CountInv, CountsExact

\* free_node_later: the second link to the successor is counted, and the link
\* to the node becomes the reference to drop.
LEMMA RetireInvariant ==
  ASSUME CountInv, NEW w \in Writers, Control', FreeNodeLater(w), dec[w] = NULL, UNCHANGED <<dying, rd>>
  PROVE  CountInv'
<1>0. TypeOK /\ ListInv /\ OneRole /\ ListTypeOK /\ wpc[w] = "retire"
  BY DEF CountInv, ListInv, FreeNodeLater
<1>1. PICK c : c = wcur[w]
  OBVIOUS
<1>2. c \in Nodes /\ Held(w) = {c} /\ c # NULL /\ next[c] \in NodePtr
  BY <1>0, <1>1, HashListAssumption DEF ListInv, Position, WellPlaced, Held, ListTypeOK
<1>3. PICK d \in NodePtr : d = next[c]
  BY <1>2
<1>4. /\ rc' = Incremented(d) /\ dec' = [dec EXCEPT ![w] = c] /\ GoTo(w, "unlock")
      /\ UNCHANGED <<memVars, lock, free, live, wop, wkey, wprev, wcur, wnew, searchVars>>
  BY <1>1, <1>3 DEF FreeNodeLater
<1>5. ListInv'
  BY <1>0, <1>4, RetireAwayInv DEF OneRole, ListTypeOK
<1>6. Held(w)' = {} /\ \A v \in Writers : v # w => Held(v)' = Held(v)
  BY <1>0, <1>4 DEF Held, GoTo, ListTypeOK
<1>7. \A n : n \in InHand' <=> n \in InHand /\ n # c
  <2>1. \A v \in Writers : v # w => c \notin Held(v)
    BY <1>0, <1>2 DEF OneRole
  <2>2. \A n : n \in InHand <=> \E v \in Writers : n \in Held(v)
    BY DEF InHand
  <2>3. \A n : n \in InHand' <=> \E v \in Writers : n \in Held(v)'
    BY DEF InHand
  <2> QED
    BY <1>2, <1>6, <2>1, <2>2, <2>3
<1>8. c \in InHand /\ c \notin live \cup free \cup Dying /\ Dying' = Dying
  BY <1>0, <1>2 DEF InHand, OneRole, CountInv, DyingApart, Dying
<1>9. Zombies' = Zombies \cup {c} /\ c \notin Zombies
  BY <1>2, <1>4, <1>7, <1>8 DEF Zombies
<1>10. ASSUME NEW n \in Nodes PROVE rc'[n] = References(n)'
  <2>0. n # NULL
    BY HashListAssumption
  <2>1. rc[n] = References(n) /\ rc[n] \in Nat /\ rc'[n] = rc[n] + One(n = d)
    BY <1>0, <1>4, <2>0 DEF CountInv, CountsExact, TypeOK, One, Incremented, NodePtr
  <2>2. Linked(n)' = Linked(n) - One(n = c)
    BY <1>4, <1>7, <1>8 DEF Linked, One
  <2>3. Standing(n)' = Standing(n) /\ Taking(n)' = Taking(n)
    BY DEF Standing, Taking
  <2>4. Cardinality(Dropping(n)') = Cardinality(Dropping(n)) + One(n = c)
    <3>1. \A s \in Threads : dec'[s] = IF s = w THEN c ELSE dec[s]
      BY <1>0, <1>4 DEF TypeOK, Threads
    <3>2. w \in Threads /\ Dropping(n) \ {w} = Dropping(n)' \ {w}
      BY <3>1 DEF Dropping, Threads
    <3>3. w \notin Dropping(n) /\ (w \in Dropping(n)' <=> n = c)
      BY <2>0, <3>1, <3>2 DEF Dropping
    <3>4. Cardinality(Dropping(n)') =
            Cardinality(Dropping(n)) - One(w \in Dropping(n)) + One(w \in Dropping(n)')
      BY <3>2, Countable, CountableNext, OneApart
    <3> QED
      BY <3>3, <3>4, Countable DEF One
  <2>5. Cardinality(Before(n)') = Cardinality(Before(n)) + One(n = d)
    <3>1. Before(n) \ {c} = Before(n)' \ {c}
      BY <1>4, <1>9 DEF Before, memVars
    <3>2. c \notin Before(n) /\ (c \in Before(n)' <=> n = d)
      BY <1>3, <1>4, <1>9 DEF Before, memVars
    <3>3. Cardinality(Before(n)') =
            Cardinality(Before(n)) - One(c \in Before(n)) + One(c \in Before(n)')
      BY <3>1, Countable, CountableNext, OneApart
    <3> QED
      BY <3>2, <3>3, Countable DEF One
  <2> QED
    BY <2>1, <2>2, <2>3, <2>4, <2>5, Countable DEF References, One
<1>11. GoneAtZero'
  <2>1. d # NULL => d \in live
    <3>1. AtPosition(w) /\ d = Deref(WriterBucket(w), wprev[w])
      BY <1>0, <1>1, <1>3 DEF ListInv, Position, WellPlaced
    <3> QED
      BY <1>0, <3>1, DerefLive
  <2>2. d \notin free \cup Dying \/ d = NULL
    BY <1>0, <2>1 DEF OneRole, CountInv, DyingApart, Dying
  <2>3. free \subseteq Nodes /\ Dying \subseteq Nodes /\ NULL \notin Nodes
    BY <1>0, HashListAssumption DEF ListTypeOK, TypeOK, Dying
  <2>4. \A n \in Nodes : n # d => rc'[n] = rc[n]
    BY <1>0, <1>4 DEF Incremented, TypeOK
  <2> QED
    BY <1>4, <1>8, <2>2, <2>3, <2>4 DEF CountInv, GoneAtZero
<1>12. DyingApart'
  BY <1>4, <1>7 DEF CountInv, DyingApart
<1>13. TypeOK'
  <2>1. rc' \in [Nodes -> Nat]
    BY <1>0, <1>4 DEF Incremented, TypeOK, NodePtr
  <2>2. dec' \in [Threads -> NodePtr]
    BY <1>0, <1>2, <1>4 DEF TypeOK, NodePtr
  <2> QED
    BY <1>0, <1>5, <2>1, <2>2 DEF TypeOK, ListInv
<1> QED
  BY <1>5, <1>10, <1>11, <1>12, <1>13 DEF CountInv, CountsExact

\* Every step of an updater keeps the inductive invariant.
LEMMA WriterInv ==
  ASSUME CountInv, NEW w \in Writers, Writer(w)
  PROVE  CountInv'
<1>0. Control'
  BY ControlStep
<1>1. CASE ((WriterStep(w) /\ wpc'[w] # "setkey") \/ Call(w)) /\ UNCHANGED <<rcVars, rd>>
  BY <1>0, <1>1, QuietInv
<1>2. CASE InitNewNode(w) /\ UNCHANGED <<dying, rd>>
  BY <1>0, <1>2, NewInvariant
<1>3. CASE FreeNodeLater(w) /\ dec[w] = NULL /\ UNCHANGED <<dying, rd>>
  BY <1>0, <1>3, RetireInvariant
<1> QED
  BY <1>1, <1>2, <1>3 DEF Writer, UpdateStep, rcVars

(***************************************************************************)
(* search and safe_read                                                    *)
(***************************************************************************)
\* The reference to n that a pointer p is, and those that the locals of a
\* search are.
Names(p, n) == IF n = p THEN 1 ELSE 0

Hold(locals, n) ==
  Names(locals.cur, n) + (IF locals.pc = "check" THEN Names(locals.q, n) ELSE 0)

\* A step of reader r to the locals in state that counts every reference it
\* takes or gives away to a call that drops p, and takes none to a node that
\* has none.
Accounted(r, state, p) ==
  /\ ReaderFrame(r) /\ Become(r, state) /\ dec' = [dec EXCEPT ![r] = p]
  /\ \/ UNCHANGED searchVars /\ rd[r].pc # "idle"
     \/ \E k \in Keys : BeginSearch(r, k)
     \/ state.pc = "idle" /\ \E x \in {0, 1} : EndSearch(r, x)
  /\ rc' \in [Nodes -> Nat]
  /\ \A n \in Nodes : rc[n] = 0 => rc'[n] = 0
  /\ \A n \in Nodes : rc'[n] = rc[n] - Hold(rd[r], n) + Hold(state, n) + Names(p, n)
  /\ state.pc \in {"inc", "check"} => state.q # NULL
  /\ state.pc \in {"idle", "return"} => state.cur = NULL

\* What a reader's locals and its next lfrc_refcnt_dec do to the references.
LEMMA ReaderCounts ==
  ASSUME CountInv, NEW r \in Readers, ReaderFrame(r), NEW state \in ReaderState, Become(r, state),
         NEW p \in NodePtr, dec' = [dec EXCEPT ![r] = p], NEW n \in Nodes
  PROVE  /\ References(n) \in Nat
         /\ References(n)' = References(n) - Hold(rd[r], n) + Hold(state, n) + Names(p, n)
<1>0. TypeOK /\ n # NULL /\ r \in Threads
  BY HashListAssumption DEF CountInv, Threads
<1>1. UNCHANGED <<next, live, free, wpc, wcur, wnew, dying>>
  BY DEF ReaderFrame, memVars, writerVars
<1>2. UNCHANGED <<InHand, Dying>>
  BY <1>1 DEF InHand, Dying, Held
<1>3. Linked(n)' = Linked(n) /\ Before(n)' = Before(n)
  BY <1>1, <1>2 DEF Linked, Before, Zombies
<1>4. \A s \in Readers : rd'[s] = IF s = r THEN state ELSE rd[s]
  BY <1>0 DEF Become, TypeOK
<1>5. \A s \in Threads : dec'[s] = IF s = r THEN p ELSE dec[s]
  BY <1>0 DEF TypeOK
<1>6. Cardinality(Standing(n)') = Cardinality(Standing(n)) - One(n = rd[r].cur) + One(n = state.cur)
  <2>1. Standing(n) \ {r} = Standing(n)' \ {r}
    BY <1>4 DEF Standing
  <2>2. (r \in Standing(n) <=> n = rd[r].cur) /\ (r \in Standing(n)' <=> n = state.cur)
    BY <1>4 DEF Standing
  <2>3. Cardinality(Standing(n)') =
          Cardinality(Standing(n)) - One(r \in Standing(n)) + One(r \in Standing(n)')
    BY <2>1, Countable, CountableNext, OneApart
  <2> QED
    BY <2>2, <2>3 DEF One
<1>7. Cardinality(Taking(n)') = Cardinality(Taking(n))
        - One(rd[r].pc = "check" /\ rd[r].q = n) + One(state.pc = "check" /\ state.q = n)
  <2>1. Taking(n) \ {r} = Taking(n)' \ {r}
    BY <1>4 DEF Taking
  <2>2. /\ r \in Taking(n) <=> rd[r].pc = "check" /\ rd[r].q = n
        /\ r \in Taking(n)' <=> state.pc = "check" /\ state.q = n
    BY <1>4 DEF Taking
  <2>3. Cardinality(Taking(n)') =
          Cardinality(Taking(n)) - One(r \in Taking(n)) + One(r \in Taking(n)')
    BY <2>1, Countable, CountableNext, OneApart
  <2> QED
    BY <2>2, <2>3 DEF One
<1>8. Cardinality(Dropping(n)') = Cardinality(Dropping(n)) + One(n = p)
  <2>1. Dropping(n) \ {r} = Dropping(n)' \ {r}
    BY <1>5 DEF Dropping
  <2>2. r \notin Dropping(n) /\ (r \in Dropping(n)' <=> n = p)
    BY <1>0, <1>5 DEF Dropping, ReaderFrame
  <2>3. Cardinality(Dropping(n)') =
          Cardinality(Dropping(n)) - One(r \in Dropping(n)) + One(r \in Dropping(n)')
    BY <2>1, Countable, CountableNext, OneApart
  <2> QED
    BY <2>2, <2>3, Countable DEF One
<1> QED
  BY <1>3, <1>6, <1>7, <1>8, Countable DEF References, Hold, Names, One

\* Such a step keeps the inductive invariant.
LEMMA ReaderStepInv ==
  ASSUME CountInv, NEW r \in Readers, NEW state \in ReaderState, NEW p \in NodePtr,
         Accounted(r, state, p)
  PROVE  CountInv'
<1>0. TypeOK /\ ListInv /\ ListTypeOK
  BY DEF CountInv, ListInv
<1>1. UNCHANGED <<memVars, lock, free, live, writerVars, dying>>
  BY DEF Accounted, ReaderFrame
<1>2. ListInv'
  BY <1>0, <1>1, SearchInv DEF Accounted
<1>3. \A s \in Readers : rd'[s] = IF s = r THEN state ELSE rd[s]
  BY <1>0 DEF Accounted, Become, TypeOK
<1>4. TypeOK'
  <2>1. rd' \in [Readers -> ReaderState]
    BY <1>0 DEF Accounted, Become, TypeOK
  <2>2. dec' \in [Threads -> NodePtr]
    BY <1>0 DEF Accounted, TypeOK
  <2> QED
    BY <1>0, <1>1, <1>2, <2>1, <2>2 DEF Accounted, TypeOK, ListInv
<1>5. Control'
  <2>1. want' \in [Readers -> Keys \cup {NULL}] /\ want \in [Readers -> Keys \cup {NULL}]
    BY <1>0, <1>2 DEF ListInv, ListTypeOK
  <2>2. /\ \A s \in Readers : s # r => want'[s] = want[s]
        /\ state.pc # "idle" => want'[r] # NULL
    BY <2>1, HashListAssumption DEF Accounted, CountInv, Control, searchVars, BeginSearch, EndSearch
  <2> QED
    BY <1>1, <1>3, <2>2 DEF Accounted, CountInv, Control, writerVars
<1>6. UNCHANGED <<InHand, Dying>>
  BY <1>1 DEF InHand, Dying, Held, writerVars
<1>7. DyingApart'
  BY <1>1, <1>6 DEF CountInv, DyingApart
<1>8. CountsExact'
  <2>1. ASSUME NEW n \in Nodes PROVE rc'[n] = References(n)'
    <3>1. ReaderFrame(r) /\ Become(r, state) /\ dec' = [dec EXCEPT ![r] = p]
      BY DEF Accounted
    <3>2. /\ References(n) \in Nat
          /\ References(n)' = References(n) - Hold(rd[r], n) + Hold(state, n) + Names(p, n)
      BY <3>1, ReaderCounts
    <3>3. rc[n] = References(n)
      BY DEF CountInv, CountsExact
    <3> QED
      BY <3>2, <3>3 DEF Accounted
  <2> QED
    BY <2>1 DEF CountsExact
<1>9. GoneAtZero'
  <2>1. free \cup Dying \subseteq Nodes
    BY <1>0 DEF ListTypeOK, TypeOK, Dying
  <2> QED
    BY <1>1, <1>6, <2>1 DEF Accounted, CountInv, GoneAtZero
<1> QED
  BY <1>2, <1>4, <1>5, <1>7, <1>8, <1>9 DEF CountInv

\* What safe_read loads is a node or NULL.
LEMMA LinkType ==
  ASSUME CountInv, NEW r \in Readers, rd[r].pc # "idle"
  PROVE  Deref(Bucket(r), rd[r].cur) \in NodePtr
<1>1. ListTypeOK /\ rd[r].cur \in NodePtr
  BY DEF CountInv, TypeOK, ReaderState
<1>2. want[r] \in Nat
  BY <1>1, HashListAssumption DEF CountInv, Control, ListTypeOK
<1>3. Bucket(r) \in Buckets
  BY <1>2, BucketRange DEF Bucket
<1> QED
  BY <1>1, <1>3 DEF ListTypeOK, Deref, NodePtr

\* Every step of a reader keeps the inductive invariant.
LEMMA ReaderInv ==
  ASSUME CountInv, NEW r \in Readers, Reader(r)
  PROVE  CountInv'
<1>0. TypeOK /\ rd[r] \in ReaderState /\ rc \in [Nodes -> Nat] /\ NULL \notin Nodes
  BY HashListAssumption DEF CountInv, TypeOK
<1>1. /\ rd[r].cur \in NodePtr /\ rd[r].q \in NodePtr /\ rd[r].retval \in {0, 1}
      /\ rd[r].pc \in {"inc", "check"} => rd[r].q \in Nodes
      /\ rd[r].pc \in {"idle", "return"} => rd[r].cur = NULL
  BY <1>0 DEF ReaderState, CountInv, Control, NodePtr
<1>2. dec[r] = NULL => dec = [dec EXCEPT ![r] = NULL]
  BY <1>0 DEF TypeOK
<1>3. NULL \in NodePtr /\ AtRest \in ReaderState /\ AtRest.cur = NULL /\ AtRest.pc = "idle"
  BY DEF NodePtr, AtRest, ReaderState
<1>4. CASE \E k \in Keys : SearchCall(r, k)
  <2> DEFINE state == [AtRest EXCEPT !.pc = "load"]
  <2>1. state \in ReaderState /\ state.pc = "load" /\ state.cur = NULL
    BY <1>3 DEF ReaderState, AtRest
  <2>2. /\ ReaderFrame(r) /\ Become(r, state) /\ rd[r].pc = "idle"
        /\ \E k \in Keys : BeginSearch(r, k)
        /\ rc' = rc /\ dec' = [dec EXCEPT ![r] = NULL]
    BY <1>2, <1>4 DEF SearchCall, ReaderFrame
  <2>3. \A n \in Nodes : rc'[n] = rc[n] - Hold(rd[r], n) + Hold(state, n) + Names(NULL, n)
    BY <1>0, <1>1, <2>1, <2>2 DEF Hold, Names
  <2> HIDE DEF state
  <2> QED
    BY <1>0, <1>3, <2>1, <2>2, <2>3, ReaderStepInv DEF Accounted
<1>5. CASE LoadLink(r)
  <2>1. PICK q : q = Deref(Bucket(r), rd[r].cur)
    OBVIOUS
  <2>2. ReaderFrame(r) /\ UNCHANGED <<rc, searchVars>> /\ rd[r].pc = "load"
    BY <1>5 DEF LoadLink
  <2>3. CASE q = NULL
    <3> DEFINE state == [AtRest EXCEPT !.pc = "return"]
    <3>1. state \in ReaderState /\ state.pc = "return" /\ state.cur = NULL
      BY <1>3 DEF ReaderState, AtRest
    <3>2. Become(r, state) /\ dec' = [dec EXCEPT ![r] = rd[r].cur]
      BY <1>5, <2>1, <2>3 DEF LoadLink, DropAnd
    <3>3. \A n \in Nodes : rc'[n] = rc[n] - Hold(rd[r], n) + Hold(state, n) + Names(rd[r].cur, n)
      BY <1>0, <2>2, <3>1 DEF Hold, Names
    <3> HIDE DEF state
    <3> QED
      BY <1>0, <1>1, <2>2, <3>1, <3>2, <3>3, ReaderStepInv DEF Accounted
  <2>4. CASE q # NULL
    <3>1. q \in NodePtr
      BY <2>1, <2>2, LinkType
    <3> DEFINE state == [rd[r] EXCEPT !.pc = "inc", !.q = q]
    <3>2. state \in ReaderState /\ state.pc = "inc" /\ state.cur = rd[r].cur /\ state.q = q
      BY <1>0, <3>1 DEF ReaderState
    <3>3. Become(r, state) /\ dec' = [dec EXCEPT ![r] = NULL]
      BY <1>2, <1>5, <2>1, <2>4 DEF LoadLink, ReaderFrame
    <3>4. \A n \in Nodes : rc'[n] = rc[n] - Hold(rd[r], n) + Hold(state, n) + Names(NULL, n)
      BY <1>0, <2>2, <3>2 DEF Hold, Names
    <3> HIDE DEF state
    <3> QED
      BY <1>0, <1>3, <2>2, <2>4, <3>2, <3>3, <3>4, ReaderStepInv DEF Accounted
  <2> QED
    BY <2>3, <2>4
<1>6. CASE IncrementIfNotZero(r)
  <2>1. ReaderFrame(r) /\ UNCHANGED searchVars /\ rd[r].pc = "inc" /\ dec' = [dec EXCEPT ![r] = NULL]
    BY <1>2, <1>6 DEF IncrementIfNotZero, ReaderFrame
  <2>2. PICK q \in Nodes : q = rd[r].q
    BY <1>1, <2>1
  <2>3. CASE rc[q] = 0
    <3> DEFINE state == [rd[r] EXCEPT !.pc = "load", !.q = NULL]
    <3>1. state \in ReaderState /\ state.pc = "load" /\ state.cur = rd[r].cur
      BY <1>0, <1>3 DEF ReaderState
    <3>2. Become(r, state) /\ rc' = rc
      BY <1>6, <2>2, <2>3 DEF IncrementIfNotZero
    <3>3. \A n \in Nodes : rc'[n] = rc[n] - Hold(rd[r], n) + Hold(state, n) + Names(NULL, n)
      BY <1>0, <2>1, <3>1, <3>2 DEF Hold, Names
    <3> HIDE DEF state
    <3> QED
      BY <1>0, <1>3, <2>1, <3>1, <3>2, <3>3, ReaderStepInv DEF Accounted
  <2>4. CASE rc[q] # 0
    <3> DEFINE state == [rd[r] EXCEPT !.pc = "check"]
    <3>1. state \in ReaderState /\ state.pc = "check" /\ state.cur = rd[r].cur /\ state.q = q
      BY <1>0, <2>2 DEF ReaderState
    <3>2. Become(r, state) /\ rc' = [rc EXCEPT ![q] = @ + 1]
      BY <1>0, <1>6, <2>2, <2>4 DEF IncrementIfNotZero, Incremented
    <3>3. rc' \in [Nodes -> Nat] /\ \A n \in Nodes : rc[n] = 0 => rc'[n] = 0
      BY <1>0, <2>4, <3>2
    <3>4. \A n \in Nodes : rc'[n] = rc[n] - Hold(rd[r], n) + Hold(state, n) + Names(NULL, n)
      <4> HIDE DEF state
      <4>1. \A n \in Nodes : rc[n] \in Nat /\ rc'[n] = IF n = q THEN rc[n] + 1 ELSE rc[n]
        BY <1>0, <3>2
      <4>2. \A n \in Nodes : Hold(rd[r], n) = IF n = rd[r].cur THEN 1 ELSE 0
        BY <2>1 DEF Hold, Names
      <4>3. \A n \in Nodes : Hold(state, n) =
              (IF n = rd[r].cur THEN 1 ELSE 0) + (IF n = q THEN 1 ELSE 0)
        BY <3>1 DEF Hold, Names
      <4>4. \A n \in Nodes : Names(NULL, n) = 0
        BY <1>0 DEF Names
      <4> QED
        BY <4>1, <4>2, <4>3, <4>4
    <3>5. q # NULL
      BY <1>0
    <3> HIDE DEF state
    <3>6. Accounted(r, state, NULL)
      BY <2>1, <3>1, <3>2, <3>3, <3>4, <3>5 DEF Accounted
    <3> QED
      BY <1>3, <3>1, <3>6, ReaderStepInv
  <2> QED
    BY <2>3, <2>4
<1>7. CASE CheckLink(r)
  <2>1. ReaderFrame(r) /\ UNCHANGED <<rc, searchVars>> /\ rd[r].pc = "check"
    BY <1>7 DEF CheckLink
  <2>2. CASE Deref(Bucket(r), rd[r].cur) = rd[r].q
    <3> DEFINE state == [AtRest EXCEPT !.pc = "key", !.cur = rd[r].q]
    <3>1. state \in ReaderState /\ state.pc = "key" /\ state.cur = rd[r].q
      BY <1>1, <1>3 DEF ReaderState, AtRest
    <3>2. Become(r, state) /\ dec' = [dec EXCEPT ![r] = rd[r].cur]
      BY <1>7, <2>2 DEF CheckLink, DropAnd
    <3>3. \A n \in Nodes : rc'[n] = rc[n] - Hold(rd[r], n) + Hold(state, n) + Names(rd[r].cur, n)
      BY <1>0, <2>1, <3>1 DEF Hold, Names
    <3> HIDE DEF state
    <3> QED
      BY <1>0, <1>1, <2>1, <3>1, <3>2, <3>3, ReaderStepInv DEF Accounted
  <2>3. CASE Deref(Bucket(r), rd[r].cur) # rd[r].q
    <3> DEFINE state == [rd[r] EXCEPT !.pc = "load", !.q = NULL]
    <3>1. state \in ReaderState /\ state.pc = "load" /\ state.cur = rd[r].cur
      BY <1>0, <1>3 DEF ReaderState
    <3>2. Become(r, state) /\ dec' = [dec EXCEPT ![r] = rd[r].q]
      BY <1>7, <2>3 DEF CheckLink, DropAnd
    <3>3. \A n \in Nodes : rc'[n] = rc[n] - Hold(rd[r], n) + Hold(state, n) + Names(rd[r].q, n)
      BY <1>0, <2>1, <3>1 DEF Hold, Names
    <3> HIDE DEF state
    <3> QED
      BY <1>0, <1>1, <2>1, <3>1, <3>2, <3>3, ReaderStepInv DEF Accounted
  <2> QED
    BY <2>2, <2>3
<1>8. CASE ReadKey(r)
  <2>1. ReaderFrame(r) /\ UNCHANGED <<rc, searchVars>> /\ rd[r].pc = "key"
    BY <1>8 DEF ReadKey
  <2>2. CASE key[rd[r].cur] >= want[r]
    <3> DEFINE state == [AtRest EXCEPT !.pc = "return",
                                       !.retval = IF key[rd[r].cur] = want[r] THEN 1 ELSE 0]
    <3>1. state \in ReaderState /\ state.pc = "return" /\ state.cur = NULL
      BY <1>3 DEF ReaderState, AtRest
    <3>2. Become(r, state) /\ dec' = [dec EXCEPT ![r] = rd[r].cur]
      BY <1>8, <2>2 DEF ReadKey, DropAnd
    <3>3. \A n \in Nodes : rc'[n] = rc[n] - Hold(rd[r], n) + Hold(state, n) + Names(rd[r].cur, n)
      BY <1>0, <2>1, <3>1 DEF Hold, Names
    <3> HIDE DEF state
    <3> QED
      BY <1>0, <1>1, <2>1, <3>1, <3>2, <3>3, ReaderStepInv DEF Accounted
  <2>3. CASE ~(key[rd[r].cur] >= want[r])
    <3> DEFINE state == [rd[r] EXCEPT !.pc = "load"]
    <3>1. state \in ReaderState /\ state.pc = "load" /\ state.cur = rd[r].cur
      BY <1>0 DEF ReaderState
    <3>2. Become(r, state) /\ dec' = [dec EXCEPT ![r] = NULL]
      BY <1>2, <1>8, <2>3 DEF ReadKey, ReaderFrame
    <3>3. \A n \in Nodes : rc'[n] = rc[n] - Hold(rd[r], n) + Hold(state, n) + Names(NULL, n)
      BY <1>0, <2>1, <3>1 DEF Hold, Names
    <3> HIDE DEF state
    <3> QED
      BY <1>0, <1>3, <2>1, <3>1, <3>2, <3>3, ReaderStepInv DEF Accounted
  <2> QED
    BY <2>2, <2>3
<1>9. CASE Return(r)
  <2>1. /\ ReaderFrame(r) /\ Become(r, AtRest) /\ rd[r].pc = "return"
        /\ \E x \in {0, 1} : EndSearch(r, x)
        /\ rc' = rc /\ dec' = [dec EXCEPT ![r] = NULL]
    BY <1>1, <1>2, <1>9 DEF Return, ReaderFrame
  <2>2. \A n \in Nodes : rc'[n] = rc[n] - Hold(rd[r], n) + Hold(AtRest, n) + Names(NULL, n)
    BY <1>0, <1>1, <1>3, <2>1 DEF Hold, Names
  <2> QED
    BY <1>0, <1>3, <2>1, <2>2, ReaderStepInv DEF Accounted
<1> QED
  BY <1>4, <1>5, <1>6, <1>7, <1>8, <1>9 DEF Reader, SearchStep

(***************************************************************************)
(* What search has found out                                               *)
(***************************************************************************)
\* The key of an open search and its bucket.
LEMMA OpenSearch ==
  ASSUME CountInv, NEW r \in Readers, rd[r].pc # "idle"
  PROVE  want[r] \in Keys /\ want[r] \in Nat /\ want[r] # NULL /\ Bucket(r) \in Buckets
<1>1. want[r] \in Keys /\ want[r] # NULL
  BY DEF CountInv, TypeOK, ListTypeOK, Control
<1> QED
  BY <1>1, BucketRange, HashListAssumption DEF Bucket

\* A zombie is an unlinked node, and nobody's.
LEMMA ZombieApart ==
  ASSUME NEW n \in Zombies
  PROVE  n \in Nodes /\ n \notin live \cup free /\ \A w \in Writers : n \notin Held(w)
BY DEF Zombies, InHand

\* Fit is about a node, and stays as long as the node and the reader's search
\* are what they were.
LEMMA FitStays ==
  ASSUME NEW r \in Readers, NEW S, NEW T, NEW n, Fit(r, S, n),
         (Unfreed(n) \/ n \in S) => Unfreed(n)' \/ n \in T,
         key'[n] = key[n], want'[r] = want[r], seen[r] \subseteq seen'[r]
  PROVE  Fit(r, T, n)'
BY DEF Fit, Bucket

\* What the link of the node search stands on leads to.
LEMMA LinkLeads ==
  ASSUME CountInv, NEW r \in Readers, NEW S \in SUBSET Zombies, Walk(r, S),
         rd[r].pc \in {"load", "check"}
  PROVE  Leads(r, S, Deref(Bucket(r), rd[r].cur))
<1>1. /\ want[r] \in Keys /\ want[r] \in Nat /\ Bucket(r) = BucketOf(want[r])
      /\ ListInv /\ rd[r].cur \in NodePtr
  BY OpenSearch DEF Bucket, CountInv, TypeOK, ReaderState
<1>2. CASE rd[r].cur = NULL
  BY <1>1, <1>2, HeadAnswers DEF Deref, Leads, Fit, Unfreed
<1>3. CASE rd[r].cur # NULL
  <2>1. PICK c \in Nodes : c = rd[r].cur
    BY <1>1, <1>3 DEF NodePtr
  <2>2. Fit(r, S, c) /\ key[c] < want[r] /\ Deref(Bucket(r), rd[r].cur) = next[c]
    BY <1>3, <2>1 DEF Walk, Deref
  <2>3. CASE c \in S
    BY <2>2, <2>3 DEF Walk, Fit
  <2>4. CASE Unfreed(c)
    BY <1>1, <2>2, <2>4, NextAnswers DEF Leads, Fit, Unfreed
  <2> QED
    BY <2>2, <2>3, <2>4 DEF Fit
<1> QED
  BY <1>2, <1>3

\* Nothing else refers to a node whose last reference is dropped.
LEMMA LastAlone ==
  ASSUME CountInv, NEW t \in Threads, NEW p, p = dec[t], p # NULL, rc[p] = 1
  PROVE  /\ \A m \in Zombies : next[m] # p
         /\ \A r \in Readers : rd[r].cur # p
<1>1. p \in Nodes /\ References(p) = 1
  BY DEF CountInv, TypeOK, NodePtr, CountsExact
<1>2. Dropping(p) # {}
  BY DEF Dropping
<1>3. Cardinality(Dropping(p)) # 0
  BY <1>2, Countable, FS_EmptySet
<1>4. Cardinality(Before(p)) = 0 /\ Cardinality(Standing(p)) = 0
  BY <1>1, <1>3, Countable DEF References
<1>5. Before(p) = {} /\ Standing(p) = {}
  BY <1>4, Countable, FS_EmptySet
<1> QED
  BY <1>5 DEF Before, Standing

\* lfrc_refcnt_dec takes no node away that a search can come to.
LEMMA DecWalk ==
  ASSUME CountInv, NEW t \in Threads, RefcntDec(t), NEW r \in Readers, SearchInvariant(r)
  PROVE  SearchInvariant(r)'
<1>1. PICK p : p = dec[t]
  OBVIOUS
<1>2. p # NULL /\ UNCHANGED <<head, key, next, live, wpc, wcur, want, seen, rd>>
  BY <1>1 DEF RefcntDec, DecWith, memVars, writerVars, searchVars
<1>3. /\ live' = live /\ InHand' = InHand
      /\ free' \cup Dying' = free \cup Dying \cup (IF rc[p] = 1 THEN {p} ELSE {})
  BY <1>1, DecNodes
<1>4. Zombies' = Zombies \ (IF rc[p] = 1 THEN {p} ELSE {})
  BY <1>3 DEF Zombies
<1> SUFFICES ASSUME rd[r].pc # "idle" PROVE \E T \in SUBSET Zombies' : Walk(r, T)'
  BY <1>2 DEF SearchInvariant
<1>5. PICK S \in SUBSET Zombies : Walk(r, S)
  BY DEF SearchInvariant
<1>6. PICK T : T = S \cap Zombies'
  OBVIOUS
<1>7. \A n : Unfreed(n)' = Unfreed(n)
  BY <1>2 DEF Unfreed
<1>8. ASSUME NEW n, Fit(r, S, n), rc[p] = 1 => n # p
      PROVE  Fit(r, T, n)'
  <2>1. n \in S => n \in T
    BY <1>4, <1>6, <1>8
  <2> QED
    BY <1>2, <1>7, <1>8, <2>1, FitStays
<1>9. /\ \A m \in T : m \in S /\ m \in Zombies /\ (rc[p] = 1 => next[m] # p)
      /\ rc[p] = 1 => rd[r].cur # p
  BY <1>1, <1>2, <1>5, <1>6, LastAlone
<1>10. ASSUME NEW m \in T, BucketOf(key[m]) = Bucket(r), key[m] < want[r]
       PROVE  Leads(r, T, next[m])'
  <2>1. Leads(r, S, next[m])
    BY <1>5, <1>9, <1>10 DEF Walk
  <2>2. CASE next[m] = NULL
    BY <1>2, <2>1, <2>2 DEF Leads
  <2>3. CASE next[m] # NULL
    <3>1. Fit(r, T, next[m])'
      BY <1>2, <1>8, <1>9, <2>1, <2>3 DEF Leads
    <3> QED
      BY <1>2, <2>3, <3>1 DEF Leads
  <2> QED
    BY <2>2, <2>3
<1>11. Walk(r, T)'
  <2>1. Bucket(r)' = Bucket(r)
    BY <1>2 DEF Bucket
  <2>2. Fit(r, S, rd[r].cur) => Fit(r, T, rd[r].cur)'
    BY <1>2, <1>8, <1>9
  <2> QED
    BY <1>2, <1>5, <1>10, <2>1, <2>2 DEF Walk
<1> QED
  BY <1>6, <1>11

\* Nor does an updater: what it unlinks leads the search on as before.
LEMMA WriterWalk ==
  ASSUME CountInv, NEW w \in Writers, Writer(w), NEW r \in Readers, SearchInvariant(r)
  PROVE  SearchInvariant(r)'
<1>0. ListInv /\ ListTypeOK /\ UNCHANGED <<rd, dying>> /\ NULL \notin Nodes
  BY HashListAssumption DEF CountInv, ListInv, Writer, UpdateStep, rcVars
<1> SUFFICES ASSUME rd[r].pc # "idle" PROVE \E T \in SUBSET Zombies' : Walk(r, T)'
  BY <1>0 DEF SearchInvariant
<1>1. PICK S \in SUBSET Zombies : Walk(r, S)
  BY DEF SearchInvariant
<1>2. want[r] \in Keys /\ want[r] \in Nat
  BY OpenSearch
<1>3. CASE WriterStep(w) \/ Call(w)
  <2>1. Zombies' = Zombies
    BY <1>0, <1>3, ZombiesStay
  <2>2. /\ \A n \in Nodes : Unfreed(n) => Unfreed(n)' /\ key'[n] = key[n]
        /\ seen[r] \subseteq seen'[r] /\ want' = want
    BY <1>0, <1>3, WriterStable DEF Call, InsertCall, DeleteCall
  <2>3. \A n \in S : n \in Nodes /\ key'[n] = key[n] /\ next'[n] = next[n]
    BY <1>0, <1>3, ZombieApart, ApartStable DEF Call, InsertCall, DeleteCall
  <2>4. \A n : Fit(r, S, n) => n \in Nodes \/ Unfreed(n)
    BY <2>3 DEF Fit
  <2>5. \A n : Unfreed(n) => n \in Nodes
    BY <1>0 DEF Unfreed, ListTypeOK, ListInv, Position, WellPlaced
  <2>6. ASSUME NEW n, Fit(r, S, n)
        PROVE  Fit(r, S, n)' /\ key'[n] = key[n]
    <3>1. n \in Nodes /\ (Unfreed(n) \/ n \in S)
      BY <2>4, <2>5, <2>6 DEF Fit
    <3>2. key'[n] = key[n] /\ (Unfreed(n) => Unfreed(n)')
      BY <2>2, <2>3, <3>1
    <3> QED
      BY <2>2, <2>6, <3>2, FitStays
  <2>7. Bucket(r)' = Bucket(r)
    BY <2>2 DEF Bucket
  <2>8. ASSUME NEW m \in S, BucketOf(key'[m]) = Bucket(r), key'[m] < want[r]
        PROVE  Leads(r, S, next[m])'
    <3>1. Leads(r, S, next[m]) /\ next'[m] = next[m]
      BY <1>1, <2>3, <2>8 DEF Walk
    <3>2. CASE next[m] = NULL
      BY <2>2, <3>1, <3>2 DEF Leads
    <3>3. CASE next[m] # NULL
      <4>1. Fit(r, S, next[m])
        BY <3>1, <3>3 DEF Leads
      <4>2. PICK n : n = next[m]
        OBVIOUS
      <4>3. Fit(r, S, n)'
        BY <2>6, <4>1, <4>2
      <4> QED
        BY <3>1, <3>3, <4>2, <4>3 DEF Leads, Fit
    <3> QED
      BY <3>2, <3>3
  <2>9. PICK c : c = rd[r].cur
    OBVIOUS
  <2>10. Fit(r, S, c) => Fit(r, S, c)' /\ key'[c] = key[c]
    BY <2>6
  <2>11. Walk(r, S)'
    BY <1>0, <1>1, <2>2, <2>7, <2>8, <2>9, <2>10 DEF Walk, Fit
  <2> QED
    BY <2>1, <2>11
<1>4. CASE FreeNodeLater(w)
  <2>1. /\ UNCHANGED <<head, key, next, free, live, wcur, wnew, want, seen>>
        /\ wpc[w] = "retire" /\ wpc' = [wpc EXCEPT ![w] = "unlock"]
    BY <1>4 DEF FreeNodeLater, memVars, searchVars, GoTo
  <2>2. PICK c : c = wcur[w]
    OBVIOUS
  <2>3. /\ c \in Nodes /\ Held(w) = {c} /\ c \notin live \cup free
        /\ \A v \in Writers : v # w => c \notin Held(v)
    BY <1>0, <2>1, <2>2 DEF ListInv, Position, WellPlaced, OneRole, Held
  <2>4. \A v \in Writers : Held(v)' = IF v = w THEN {} ELSE Held(v)
    BY <1>0, <2>1 DEF Held, ListTypeOK
  <2>5. c \notin InHand' /\ c \notin Dying' /\ InHand' \subseteq InHand /\ Dying' = Dying
    <3>1. c \in InHand /\ c \notin InHand' /\ InHand' \subseteq InHand
      BY <2>3, <2>4 DEF InHand
    <3>2. Dying' = Dying /\ c \notin Dying
      BY <1>0, <3>1 DEF Dying, CountInv, DyingApart
    <3> QED
      BY <3>1, <3>2
  <2>6. Zombies \cup {c} \subseteq Zombies'
    BY <2>1, <2>3, <2>5 DEF Zombies
  <2>7. PICK T : T = S \cup {c}
    OBVIOUS
  <2>8. Unfreed(c) /\ \A n : Unfreed(n) => Unfreed(n)' \/ n = c
    BY <1>0, <2>1, <2>2 DEF Unfreed, ListTypeOK
  <2>9. \A n : Fit(r, S, n) => Fit(r, T, n)'
    BY <2>1, <2>7, <2>8, FitStays DEF Fit
  <2>10. ASSUME NEW m \in T, BucketOf(key[m]) = Bucket(r), key[m] < want[r]
         PROVE  Leads(r, S, next[m])
    <3>1. CASE m \in S
      BY <1>1, <2>10, <3>1 DEF Walk
    <3>2. CASE m = c
      BY <1>0, <1>2, <2>3, <2>8, <2>10, <3>2, NextAnswers DEF Leads, Fit, Unfreed, Bucket
    <3> QED
      BY <2>7, <3>1, <3>2
  <2>11. ASSUME NEW m \in T, BucketOf(key[m]) = Bucket(r), key[m] < want[r]
         PROVE  Leads(r, T, next[m])'
    BY <2>1, <2>9, <2>10, <2>11 DEF Leads
  <2>12. Bucket(r)' = Bucket(r)
    BY <2>1 DEF Bucket
  <2>13. Fit(r, S, rd[r].cur) => Fit(r, T, rd[r].cur)'
    BY <1>0, <2>9
  <2>14. Walk(r, T)'
    BY <1>0, <1>1, <2>1, <2>11, <2>12, <2>13 DEF Walk
  <2> QED
    BY <2>6, <2>7, <2>14
<1> QED
  BY <1>3, <1>4 DEF Writer, UpdateStep, InitNewNode, WriterStep

\* A step of a reader writes nothing but its own variables and the counts.
LEMMA ReaderLocals ==
  ASSUME CountInv, NEW r \in Readers, Reader(r)
  PROVE  /\ UNCHANGED <<head, key, next, live, Zombies>> /\ \A n : Unfreed(n)' = Unfreed(n)
         /\ \A s \in Readers : s # r => /\ rd'[s] = rd[s] /\ want'[s] = want[s]
                                        /\ seen'[s] = seen[s]
         /\ rd[r].pc # "idle" /\ ~Return(r) => want' = want /\ seen' = seen
<1>0. ListTypeOK /\ rd \in [Readers -> ReaderState]
  BY DEF CountInv, TypeOK
<1>1. UNCHANGED <<head, key, next, free, live, wpc, wcur, wnew, dying>>
  BY DEF Reader, SearchStep, SearchCall, LoadLink, IncrementIfNotZero, CheckLink, ReadKey, Return,
         ReaderFrame, memVars, writerVars
<1>2. UNCHANGED Zombies /\ \A n : Unfreed(n)' = Unfreed(n)
  BY <1>1 DEF Zombies, InHand, Dying, Held, Unfreed
<1>3. ASSUME NEW s \in Readers, s # r PROVE rd'[s] = rd[s]
  BY <1>0, <1>3 DEF Reader, SearchStep, SearchCall, LoadLink, IncrementIfNotZero, CheckLink,
         ReadKey, Return, Become, DropAnd
<1>4. ASSUME NEW s \in Readers, s # r PROVE want'[s] = want[s] /\ seen'[s] = seen[s]
  BY <1>0, <1>4 DEF Reader, SearchStep, SearchCall, LoadLink, IncrementIfNotZero, CheckLink,
         ReadKey, Return, BeginSearch, EndSearch, searchVars, ListTypeOK
<1>5. rd[r].pc # "idle" /\ ~Return(r) => want' = want /\ seen' = seen
  BY DEF Reader, SearchStep, SearchCall, LoadLink, IncrementIfNotZero, CheckLink,
         ReadKey, searchVars
<1> QED
  BY <1>1, <1>2, <1>3, <1>4, <1>5

\* A step of one reader leaves the others' walks alone.
LEMMA OtherWalk ==
  ASSUME CountInv, NEW r \in Readers, Reader(r), NEW s \in Readers, s # r, SearchInvariant(s)
  PROVE  SearchInvariant(s)'
<1>1. /\ UNCHANGED <<key, next, Zombies>> /\ \A n : Unfreed(n)' = Unfreed(n)
      /\ rd'[s] = rd[s] /\ want'[s] = want[s] /\ seen'[s] = seen[s]
  BY ReaderLocals
<1>2. \A S : Walk(s, S)' = Walk(s, S)
  BY <1>1 DEF Walk, Leads, Fit, Bucket
<1> QED
  BY <1>1, <1>2 DEF SearchInvariant

\* A search goes on as its list leads it.
LEMMA OwnWalk ==
  ASSUME CountInv, NEW r \in Readers, Reader(r), SearchInvariant(r)
  PROVE  SearchInvariant(r)'
<1>0. /\ rd[r] \in ReaderState /\ rd \in [Readers -> ReaderState] /\ ListTypeOK
      /\ AtRest.cur = NULL /\ AtRest.pc = "idle" /\ AtRest \in ReaderState
  BY DEF CountInv, TypeOK, AtRest, ReaderState, NodePtr
<1>1. /\ UNCHANGED <<head, key, next, live, Zombies>> /\ \A n : Unfreed(n)' = Unfreed(n)
      /\ rd[r].pc # "idle" /\ ~Return(r) => want' = want /\ seen' = seen
  BY ReaderLocals
<1>2. CASE Return(r) \/ \E k \in Keys : SearchCall(r, k)
  <2>1. CASE Return(r)
    BY <1>0, <2>1 DEF Return, Become, SearchInvariant
  <2>2. CASE \E k \in Keys : SearchCall(r, k)
    <3>1. rd'[r] = [AtRest EXCEPT !.pc = "load"]
      BY <1>0, <2>2 DEF SearchCall, Become
    <3>2. rd'[r].pc = "load" /\ rd'[r].cur = NULL
      BY <3>1 DEF AtRest
    <3>3. Walk(r, {})'
      BY <3>2 DEF Walk
    <3> QED
      BY <3>3 DEF SearchInvariant
  <2> QED
    BY <1>2, <2>1, <2>2
<1>3. CASE LoadLink(r) \/ IncrementIfNotZero(r) \/ CheckLink(r) \/ ReadKey(r)
  <2>0. rd[r].pc \in {"load", "inc", "check", "key"} /\ ~Return(r)
    BY <1>3 DEF LoadLink, IncrementIfNotZero, CheckLink, ReadKey, Return
  <2>1. want' = want /\ seen' = seen /\ Bucket(r)' = Bucket(r)
    BY <1>1, <2>0 DEF Bucket
  <2>2. PICK S \in SUBSET Zombies : Walk(r, S)
    BY <2>0 DEF SearchInvariant
  <2>3. /\ want[r] \in Keys /\ want[r] \in Nat
        /\ \A n \in Nodes : key[n] \in Nat
    BY <1>0, <2>0, OpenSearch DEF ListTypeOK
  <2>4. \A n : Fit(r, S, n)' = Fit(r, S, n)
    BY <1>1, <2>1 DEF Fit
  <2>5. \A n \in S : BucketOf(key'[n]) = Bucket(r)' /\ key'[n] < want'[r] => Leads(r, S, next[n])'
    <3>1. \A n : Leads(r, S, n)' = Leads(r, S, n)
      BY <2>1, <2>4 DEF Leads
    <3> QED
      BY <1>1, <2>1, <2>2, <3>1 DEF Walk, Leads
  <2> SUFFICES /\ rd'[r].pc \in {"load", "inc", "check"} /\ rd'[r].cur # NULL =>
                    Fit(r, S, rd'[r].cur) /\ key[rd'[r].cur] < want[r]
               /\ rd'[r].pc = "key" => rd'[r].cur # NULL /\ Fit(r, S, rd'[r].cur)
               /\ rd'[r].pc = "return" => rd'[r].retval \in seen[r]
    BY <1>1, <2>1, <2>2, <2>4, <2>5 DEF Walk, Fit, SearchInvariant
  <2>6. CASE LoadLink(r)
    <3>1. PICK q : q = Deref(Bucket(r), rd[r].cur)
      OBVIOUS
    <3>2. rd[r].pc = "load" /\ Leads(r, S, q)
      BY <2>2, <2>6, <3>1, LinkLeads DEF LoadLink
    <3>3. CASE q = NULL
      <4>1. rd'[r] = [AtRest EXCEPT !.pc = "return"]
        BY <1>0, <2>6, <3>1, <3>3 DEF LoadLink, DropAnd, Become
      <4>2. rd'[r].pc = "return" /\ rd'[r].retval = 0
        BY <4>1 DEF AtRest
      <4> QED
        BY <3>2, <3>3, <4>2 DEF Leads
    <3>4. CASE q # NULL
      <4>1. rd'[r] = [rd[r] EXCEPT !.pc = "inc", !.q = q]
        BY <1>0, <2>6, <3>1, <3>4 DEF LoadLink, Become
      <4>2. rd'[r].pc = "inc" /\ rd'[r].cur = rd[r].cur
        BY <1>0, <4>1 DEF ReaderState
      <4> QED
        BY <2>2, <3>2, <4>2 DEF Walk
    <3> QED
      BY <3>3, <3>4
  <2>7. CASE IncrementIfNotZero(r)
    <3>1. \/ rd'[r] = [rd[r] EXCEPT !.pc = "load", !.q = NULL]
          \/ rd'[r] = [rd[r] EXCEPT !.pc = "check"]
      BY <1>0, <2>7 DEF IncrementIfNotZero, Become
    <3>2. rd'[r].pc \in {"load", "check"} /\ rd'[r].cur = rd[r].cur /\ rd[r].pc = "inc"
      BY <1>0, <2>7, <3>1 DEF ReaderState, IncrementIfNotZero
    <3> QED
      BY <2>2, <3>2 DEF Walk
  <2>8. CASE CheckLink(r)
    <3>1. /\ rd[r].pc = "check" /\ rd[r].q # NULL
          /\ Leads(r, S, Deref(Bucket(r), rd[r].cur))
      BY <2>2, <2>8, LinkLeads DEF CheckLink, CountInv, Control
    <3>2. CASE Deref(Bucket(r), rd[r].cur) = rd[r].q
      <4>1. rd'[r] = [AtRest EXCEPT !.pc = "key", !.cur = rd[r].q]
        BY <1>0, <2>8, <3>2 DEF CheckLink, DropAnd, Become
      <4>2. rd'[r].pc = "key" /\ rd'[r].cur = rd[r].q
        BY <4>1 DEF AtRest
      <4> QED
        BY <3>1, <3>2, <4>2 DEF Leads
    <3>3. CASE Deref(Bucket(r), rd[r].cur) # rd[r].q
      <4>1. rd'[r] = [rd[r] EXCEPT !.pc = "load", !.q = NULL]
        BY <1>0, <2>8, <3>3 DEF CheckLink, DropAnd, Become
      <4>2. rd'[r].pc = "load" /\ rd'[r].cur = rd[r].cur
        BY <1>0, <4>1 DEF ReaderState
      <4> QED
        BY <2>2, <3>1, <4>2 DEF Walk
    <3> QED
      BY <3>2, <3>3
  <2>9. CASE ReadKey(r)
    <3>1. rd[r].pc = "key" /\ rd[r].cur \in Nodes /\ Fit(r, S, rd[r].cur)
      BY <1>0, <2>2, <2>9 DEF ReadKey, Walk, ReaderState, NodePtr
    <3>2. CASE key[rd[r].cur] >= want[r]
      <4>1. rd'[r] = [AtRest EXCEPT !.pc = "return",
                                    !.retval = IF key[rd[r].cur] = want[r] THEN 1 ELSE 0]
        BY <1>0, <2>9, <3>2 DEF ReadKey, DropAnd, Become
      <4>2. rd'[r].pc = "return" /\ rd'[r].retval = IF key[rd[r].cur] = want[r] THEN 1 ELSE 0
        BY <4>1 DEF AtRest
      <4> QED
        BY <2>3, <3>1, <3>2, <4>2 DEF Fit
    <3>3. CASE ~(key[rd[r].cur] >= want[r])
      <4>1. rd'[r] = [rd[r] EXCEPT !.pc = "load"]
        BY <1>0, <2>9, <3>3 DEF ReadKey, Become
      <4>2. rd'[r].pc = "load" /\ rd'[r].cur = rd[r].cur
        BY <1>0, <4>1 DEF ReaderState
      <4> QED
        BY <2>3, <3>1, <3>3, <4>2
    <3> QED
      BY <3>2, <3>3
  <2> QED
    BY <1>3, <2>6, <2>7, <2>8, <2>9
<1> QED
  BY <1>2, <1>3 DEF Reader, SearchStep

(***************************************************************************)
(* The theorems                                                            *)
(***************************************************************************)
\* calloc and init_list: nothing is counted, and nothing refers to a node.
LEMMA InitInv == Init => IInv
<1> SUFFICES ASSUME Init PROVE IInv
  OBVIOUS
<1>1. ListInit /\ ListInv /\ ListTypeOK /\ free = Nodes
  BY ListInitInv DEF Init, ListInit, ListInv
<1>2. /\ rc = [n \in Nodes |-> 0] /\ dec = [t \in Threads |-> NULL]
      /\ dying = [t \in Threads |-> {}] /\ rd = [r \in Readers |-> AtRest]
  BY DEF Init
<1>3. AtRest \in ReaderState /\ AtRest.pc = "idle" /\ AtRest.cur = NULL
  BY DEF AtRest, ReaderState, NodePtr
<1>4. TypeOK
  BY <1>1, <1>2, <1>3 DEF TypeOK, NodePtr
<1>5. Control
  BY <1>1, <1>2, <1>3 DEF Control, ListInit
<1>6. Dying = {} /\ DyingApart
  BY <1>2 DEF Dying, DyingApart
<1>7. GoneAtZero
  BY <1>1, <1>2, <1>6 DEF GoneAtZero
<1>8. ASSUME NEW n \in Nodes PROVE rc[n] = References(n)
  <2>1. Before(n) = {}
    BY <1>1 DEF Before, Zombies
  <2>2. Standing(n) = {} /\ Taking(n) = {} /\ Dropping(n) = {}
    BY <1>2, <1>3, HashListAssumption DEF Standing, Taking, Dropping
  <2>3. n \notin live \cup InHand
    BY <1>1 DEF ListInv, OneRole, InHand
  <2> QED
    BY <1>2, <2>1, <2>2, <2>3, FS_EmptySet DEF References, Linked
<1> QED
  BY <1>1, <1>2, <1>3, <1>4, <1>5, <1>6, <1>7, <1>8 DEF IInv, CountInv, CountsExact, SearchInvariant

\* No step of any thread breaks the inductive invariant.
LEMMA StepInvariant == IInv /\ [Next]_vars => IInv'
<1> SUFFICES ASSUME IInv, [Next]_vars PROVE IInv'
  OBVIOUS
<1>0. CountInv /\ \A r \in Readers : SearchInvariant(r)
  BY DEF IInv
<1>1. CASE \E t \in Threads : RefcntDec(t)
  BY <1>0, <1>1, DecInv, DecWalk DEF IInv
<1>2. CASE \E w \in Writers : Writer(w)
  BY <1>0, <1>2, WriterInv, WriterWalk DEF IInv
<1>3. CASE \E r \in Readers : Reader(r)
  <2>1. PICK r \in Readers : Reader(r)
    BY <1>3
  <2>2. \A s \in Readers : SearchInvariant(s)'
    BY <1>0, <2>1, OwnWalk, OtherWalk
  <2> QED
    BY <1>0, <2>1, <2>2, ReaderInv DEF IInv
<1>4. CASE UNCHANGED vars
  <2>1. UNCHANGED <<head, key, next, lock, free, live, wpc, wop, wkey, wprev, wcur, wnew,
                    want, seen, ret, rc, dec, dying, rd>>
    BY <1>4 DEF vars, listVars, memVars, writerVars, searchVars, rcVars
  <2>2. ListInv'
    BY <1>0, <2>1, FreeAwayInv DEF CountInv, ListInv, OneRole, ListTypeOK, memVars, writerVars, searchVars
  <2>3. UNCHANGED <<InHand, Dying, Zombies>>
    BY <2>1 DEF InHand, Dying, Zombies, Held
  <2>4. \A n \in Nodes : References(n)' = References(n)
    BY <2>1, <2>3 DEF References, Linked, Before, Standing, Taking, Dropping
  <2>5. TypeOK' /\ Control'
    BY <1>0, <2>1, <2>2 DEF CountInv, TypeOK, ListInv, Control
  <2>6. CountInv'
    BY <1>0, <2>1, <2>2, <2>3, <2>4, <2>5 DEF CountInv, DyingApart, GoneAtZero, CountsExact
  <2>7. ASSUME NEW r \in Readers PROVE SearchInvariant(r)'
    <3>1. \A S : Walk(r, S)' = Walk(r, S)
      BY <2>1 DEF Walk, Leads, Fit, Bucket, Unfreed
    <3> QED
      BY <1>0, <2>1, <2>3, <3>1 DEF SearchInvariant
  <2> QED
    BY <2>6, <2>7 DEF IInv
<1> QED
  BY <1>1, <1>2, <1>3, <1>4 DEF Next, Writer, Reader

(***************************************************************************)
(* The inductive invariant holds in every reachable state of list_rc.c and *)
(* rc.c, for every number of nodes, updaters and readers: the list is      *)
(* sorted and linked, a node is in one place, every reference is counted.  *)
(***************************************************************************)
THEOREM Invariance == Spec => []IInv
BY InitInv, StepInvariant, PTL DEF Spec

(***************************************************************************)
(* rc is at every moment the number of references to the node: the order   *)
(* of free_node_later (list_rc.c:52), which counts n->next only after n is *)
(* unlinked, and the count safe_read (rc.c:52) takes and gives back on a   *)
(* node that was recycled under it, lose no reference and invent none.     *)
(***************************************************************************)
THEOREM ExactCounts == Spec => []CountsExact
<1>1. IInv => CountsExact
  BY DEF IInv, CountInv
<1> QED
  BY <1>1, Invariance, PTL

(***************************************************************************)
(* The assertion of lfrc_refcnt_dec (rc.c:78) never fails, and a node that *)
(* was given back to the allocator is not referred to: no reader stands on *)
(* it (list_rc.c:36, :42), no zombie leads to it, no call drops it.        *)
(***************************************************************************)
THEOREM CountsProtect == Spec => []CountedNotFreed
<1>1. IInv => CountedNotFreed
  <2> SUFFICES ASSUME IInv PROVE CountedNotFreed
    OBVIOUS
  <2>1. ASSUME NEW t \in Threads, dec[t] # NULL PROVE rc[dec[t]] > 0
    BY <2>1, LastIsZombie DEF IInv
  <2>2. ASSUME NEW n \in free PROVE References(n) = 0
    BY DEF IInv, CountInv, CountsExact, GoneAtZero, ListInv, ListTypeOK
  <2> QED
    BY <2>1, <2>2 DEF CountedNotFreed
<1> QED
  BY <1>1, Invariance, PTL

\* A search that returns gives an answer that was right during its call.
LEMMA ReturnsSeen ==
  ASSUME IInv, NEW r \in Readers, SearchStep(r)
  PROVE  \/ UNCHANGED searchVars
         \/ want[r] \in Keys /\ \E x \in seen[r] : EndSearch(r, x)
<1>1. CASE LoadLink(r) \/ IncrementIfNotZero(r) \/ CheckLink(r) \/ ReadKey(r)
  BY <1>1 DEF LoadLink, IncrementIfNotZero, CheckLink, ReadKey
<1>2. CASE Return(r)
  <2>1. rd[r].pc = "return" /\ EndSearch(r, rd[r].retval)
    BY <1>2 DEF Return
  <2>2. rd[r].retval \in seen[r] /\ want[r] \in Keys
    BY <2>1, OpenSearch DEF IInv, SearchInvariant, Walk
  <2> QED
    BY <2>1, <2>2
<1> QED
  BY <1>1, <1>2 DEF SearchStep

(***************************************************************************)
(* The table of list_rc.c is a linearizable set, for any number of readers *)
(* and updaters: a reader may walk on through a chain of nodes that were   *)
(* unlinked behind it (list_rc.c:42), and still answers as the set did at  *)
(* some moment of its call.                                                *)
(***************************************************************************)
THEOREM Refinement == Spec => SetSpec
<1>1. Init => Set!Init
  BY SetInit DEF Init
<1>2. IInv /\ [Next]_vars => [Set!Next]_(Set!vars)
  <2> SUFFICES ASSUME IInv, [Next]_vars PROVE Set!Next \/ UNCHANGED <<Members, want, seen, ret>>
    BY DEF Set!vars
  <2>1. ASSUME NEW w \in Writers, Writer(w)
        PROVE  Set!Next \/ UNCHANGED <<Members, want, seen, ret>>
    <3>1. CASE FreeNodeLater(w)
      BY <3>1 DEF FreeNodeLater, Members, memVars, searchVars
    <3>2. CASE Call(w) \/ WriterStep(w)
      BY <3>2, WriterRefines DEF IInv, CountInv, Call, InsertCall, DeleteCall
    <3> QED
      BY <2>1, <3>1, <3>2 DEF Writer, UpdateStep, InitNewNode, WriterStep
  <2>2. ASSUME NEW r \in Readers, NEW k \in Keys, SearchCall(r, k) PROVE Set!Next
    BY <2>2, CallRefines DEF SearchCall, ReaderFrame, memVars
  <2>3. ASSUME NEW r \in Readers, SearchStep(r)
        PROVE  Set!Next \/ UNCHANGED <<Members, want, seen, ret>>
    <3>1. UNCHANGED <<key, live>>
      BY <2>3, ReaderLocals DEF Reader, IInv
    <3> QED
      BY <2>3, <3>1, ReturnsSeen, ReturnRefines DEF Members, searchVars
  <2>4. ASSUME NEW t \in Threads, RefcntDec(t) PROVE UNCHANGED <<Members, want, seen, ret>>
    BY <2>4 DEF RefcntDec, DecWith, Members, memVars, searchVars
  <2>5. CASE UNCHANGED vars
    BY <2>5 DEF vars, listVars, memVars, searchVars, Members
  <2> QED
    BY <2>1, <2>2, <2>3, <2>4, <2>5 DEF Next, Writer
<1> QED
  BY <1>1, <1>2, Invariance, PTL DEF Spec, SetSpec, Set!Spec
===============================================================================
