---------------------------- MODULE AllocatorProofs ----------------------------
(***************************************************************************)
(* new_node never returns a node that is in use, for every number of       *)
(* nodes, threads and iterations, in every build with one updater and in   *)
(* the one in which updaters do not free; and the zombie lists of hp.c,    *)
(* which share mr_next with the allocator, do not change that.             *)
(***************************************************************************)
EXTENDS ZombieList, TLAPS

\* The names of the places are all different.
LEMMA PlaceNames ==
  /\ "heap" \notin Threads /\ "held" \notin Threads /\ "shared" \notin Threads
  /\ "zombie" \notin Threads /\ "lost" \notin Threads
  /\ NULL \notin Nodes /\ NULL \notin Threads
BY AllocatorAssumption

\* Before the first call all lists are empty and no node is in use.
LEMMA InitInv == Init => Inv
<1> SUFFICES ASSUME Init PROVE Inv
  OBVIOUS
<1> USE AllocatorAssumption DEF Init
<1>1. TypeOK
  BY DEF TypeOK, NodePtr, Places, Pc
<1>2. \A n \in Nodes : ~Chained(n)
  BY DEF Chained
<1>3. HeadsInPlace /\ LinksInPlace
  BY <1>2 DEF HeadsInPlace, LinksInPlace, Owns
<1>4. Acyclic
  BY <1>2 DEF Acyclic
<1>5. TailsInPlace /\ Phases /\ InUse
  BY DEF TailsInPlace, Phases, InUse, Pushing, Workers, Threads
<1> QED
  BY <1>1, <1>3, <1>4, <1>5 DEF Inv

(***************************************************************************)
(* Lists without cycles stay so when links are dropped, when a node that   *)
(* nothing leads to is put in front of another, and when the tail of one   *)
(* list is linked to the head of another.                                  *)
(***************************************************************************)
LEMMA AcyclicKept ==
  ASSUME Acyclic, \A n \in Nodes : Chained(n)' => Chained(n) /\ mr_next'[n] = mr_next[n]
  PROVE  Acyclic'
BY DEF Acyclic

LEMMA AcyclicInFront ==
  ASSUME Acyclic, NEW c \in Nodes, mr_next'[c] # c,
         \A n \in Nodes : n # c /\ Chained(n)' =>
                            Chained(n) /\ mr_next'[n] = mr_next[n] /\ mr_next[n] # c
  PROVE  Acyclic'
<1> SUFFICES ASSUME NEW S \in SUBSET Nodes, S # {}
             PROVE  \E n \in S : Chained(n)' => mr_next'[n] \notin S
  BY DEF Acyclic
<1>1. CASE S \subseteq {c}
  BY <1>1
<1>2. CASE ~(S \subseteq {c})
  <2> DEFINE T == S \ {c}
  <2>1. PICK n \in T : Chained(n) => mr_next[n] \notin T
    BY <1>2 DEF Acyclic
  <2> QED
    BY <2>1
<1> QED
  BY <1>1, <1>2

LEMMA AcyclicJoined ==
  ASSUME Inv, NEW c \in Nodes, place[c] # "shared", Chained(c)' => place[mr_next'[c]] = "shared",
         \A n \in Nodes : n # c /\ Chained(n)' => Chained(n) /\ mr_next'[n] = mr_next[n]
  PROVE  Acyclic'
<1> SUFFICES ASSUME NEW S \in SUBSET Nodes, S # {}
             PROVE  \E n \in S : Chained(n)' => mr_next'[n] \notin S
  BY DEF Acyclic
<1> DEFINE T == {n \in S : place[n] = "shared"}
<1>1. CASE T = {} /\ c \in S
  BY <1>1
<1>2. CASE T = {} /\ c \notin S
  BY <1>2 DEF Inv, Acyclic
<1>3. CASE T # {}
  <2>1. PICK n \in T : Chained(n) => mr_next[n] \notin T
    BY <1>3 DEF Inv, Acyclic
  <2>2. Chained(n) => place[mr_next[n]] = "shared"
    BY <2>1 DEF Inv, LinksInPlace
  <2> QED
    BY <2>1, <2>2
<1> QED
  BY <1>1, <1>2, <1>3

(***************************************************************************)
(* What the steps of the allocator leave of the zombie lists: a zombie     *)
(* stays one, and no link to a zombie is made.                             *)
(***************************************************************************)
ZombiesStay == \A n \in Nodes : place[n] = "zombie" => place'[n] = "zombie"

NoZombieLinked ==
  \A n \in Nodes : Chained(n)' =>
    (Chained(n) /\ mr_next'[n] = mr_next[n]) \/ place[mr_next'[n]] # "zombie"

(***************************************************************************)
(* Main and the workers take turns: no step of one of them can happen      *)
(* while the other is inside the allocator.                                *)
(***************************************************************************)
LEMMA PhasesStep ==
  ASSUME Inv, Next
  PROVE  Phases'
<1> USE DEF Inv, TypeOK
<1>0. Updaters \subseteq Workers /\ Main \notin Workers /\ Main \notin Lasting /\ Workers \cap Lasting = {}
      /\ Workers \subseteq Threads /\ Main \in Threads /\ Main \in Allocators /\ Updaters \subseteq Allocators
  BY AllocatorAssumption DEF Workers, Threads, Allocators
<1>1. ASSUME NEW t \in Threads, NewNode(t) PROVE Phases'
  <2>1. pc' = [pc EXCEPT ![t] = pc'[t]] /\ pc'[t] \in {"load", "pop"} /\ UNCHANGED running
    BY <1>1 DEF NewNode, GoTo
  <2>2. CASE t = Main /\ todo > 0
    <3>1. ~running
      BY <2>2 DEF Phases
    <3> QED
      BY <1>0, <2>1, <2>2, <3>1 DEF Phases
  <2>3. CASE t \in Updaters /\ running /\ UNCHANGED todo
    BY <1>0, <2>1, <2>3 DEF Phases
  <2> QED
    BY <1>1, <2>2, <2>3 DEF NewNode
<1>2. ASSUME NEW t \in Threads, CallStep(t) PROVE Phases'
  <2>1. /\ pc' = [pc EXCEPT ![t] = pc'[t]] /\ UNCHANGED <<running, todo>>
        /\ pc[t] \in {"load", "swap", "pop", "read", "link", "expect", "push"}
        /\ pc'[t] \in {"load", "swap", "pop"} => pc[t] \in {"load", "swap", "pop"}
    BY <1>2 DEF CallStep, Load, Swap, Pop, ReadFreelist, LinkTail, Expect, Push, HandOut, GoTo, testVars
  <2> QED
    BY <1>0, <2>1 DEF Phases
<1>3. ASSUME NEW t \in Threads, NEW n \in Nodes, FreeNode(t, n) PROVE Phases'
  <2>1. /\ pc' = [pc EXCEPT ![t] = pc'[t]] /\ pc'[t] \in {"read", "idle"} /\ UNCHANGED <<running, todo>>
        /\ t \in Lasting \/ (t \in Workers /\ running)
    BY <1>3 DEF FreeNode, AddFree, GoTo, testVars
  <2> QED
    BY <1>0, <2>1 DEF Phases
<1>4. ASSUME NEW t \in Threads, NEW n \in Nodes, CallRcu(t, n) PROVE Phases'
  BY <1>4 DEF CallRcu, Phases, testVars
<1>5. CASE InitAllocator
  BY <1>5 DEF InitAllocator, Phases
<1>6. CASE NextIteration
  BY <1>6 DEF NextIteration, Phases
<1> QED
  BY <1>1, <1>2, <1>3, <1>4, <1>5, <1>6 DEF Next

(***************************************************************************)
(* Steps that leave the lists and the tails alone.                         *)
(***************************************************************************)
LEMMA QuietStep ==
  ASSUME Inv, NEW t \in Threads, TypeOK', Phases',
         UNCHANGED <<freers, freelist, mr_next, lfl, lfl_tail, place, users>>,
         \A s \in Threads : s # t => pc'[s] = pc[s] /\ reg'[s] = reg[s],
         Pushing(t)' = Pushing(t), Owns(t)' => Owns(t),
         pc'[t] \in {"swap", "pop"} => lfl[t] # NULL,
         pc'[t] = "push" => reg'[t] = mr_next[lfl_tail[t]],
         table' \cup retired' \subseteq table \cup retired, table' \cap retired' = {}
  PROVE  Inv' /\ ZombiesStay /\ NoZombieLinked
<1>1. \A s \in Threads : Pushing(s)' = Pushing(s) /\ (Owns(s)' => Owns(s))
  BY DEF Pushing, Owns
<1>2. \A n \in Nodes : Chained(n)' => Chained(n)
  BY <1>1 DEF Loose, Chained
<1>3. HeadsInPlace'
  BY <1>1, <1>2 DEF Inv, HeadsInPlace
<1>4. LinksInPlace'
  BY <1>2 DEF Inv, LinksInPlace
<1>5. Acyclic'
  BY <1>2, AcyclicKept DEF Inv
<1>6. TailsInPlace'
  BY <1>1 DEF Inv, TailsInPlace
<1>7. InUse'
  BY DEF Inv, InUse
<1> QED
  BY <1>2, <1>3, <1>4, <1>5, <1>6, <1>7 DEF Inv, ZombiesStay, NoZombieLinked

\* The call of new_node only decides whether lfl or freelist is looked at.
LEMMA NewNodeInv ==
  ASSUME Inv, Phases', NEW t \in Threads, NewNode(t)
  PROVE  Inv' /\ ZombiesStay /\ NoZombieLinked
<1>1. /\ pc[t] = "idle" /\ pc' = [pc EXCEPT ![t] = IF lfl[t] = NULL THEN "load" ELSE "pop"]
      /\ UNCHANGED <<freers, freelist, mr_next, lfl, lfl_tail, lcnt, reg, place, users, table, retired>>
  BY DEF NewNode, GoTo, localVars
<1>2. TypeOK'
  <2>1. todo' \in Nat /\ UNCHANGED <<iter, running>>
    BY DEF NewNode, Inv, TypeOK
  <2> QED
    BY <1>1, <2>1 DEF Inv, TypeOK, Pc
<1>3. pc'[t] = (IF lfl[t] = NULL THEN "load" ELSE "pop") /\ \A s \in Threads : s # t => pc'[s] = pc[s]
  BY <1>1 DEF Inv, TypeOK
<1>4. Pushing(t)' = Pushing(t) /\ Owns(t)
  BY <1>1, <1>3 DEF Pushing, Owns
<1>5. table' \cup retired' \subseteq table \cup retired /\ table' \cap retired' = {}
  BY <1>1 DEF Inv, InUse
<1> QED
  BY <1>1, <1>2, <1>3, <1>4, <1>5, QuietStep

\* A step of add_free that only loads a register.
LEMMA RegisterInv ==
  ASSUME Inv, Phases', NEW t \in Threads, ReadFreelist(t) \/ Expect(t)
  PROVE  Inv' /\ ZombiesStay /\ NoZombieLinked
<1>1. /\ pc[t] \in {"read", "expect"} /\ reg' = [reg EXCEPT ![t] = reg'[t]]
      /\ pc' = [pc EXCEPT ![t] = IF pc[t] = "read" THEN "link" ELSE "push"]
      /\ pc[t] = "expect" => reg'[t] = mr_next[lfl_tail[t]]
      /\ pc[t] = "read" => reg'[t] = freelist
      /\ UNCHANGED <<freers, freelist, mr_next, lfl, lfl_tail, lcnt, place, users, table, retired,
                     iter, running, todo>>
  BY DEF ReadFreelist, Expect, GoTo, testVars, Inv, TypeOK
<1>2. reg'[t] \in NodePtr
  BY <1>1 DEF Inv, TypeOK, TailsInPlace, Pushing, NodePtr
<1>3. TypeOK'
  BY <1>1, <1>2 DEF Inv, TypeOK, Pc
<1>4. /\ pc'[t] = (IF pc[t] = "read" THEN "link" ELSE "push")
      /\ \A s \in Threads : s # t => pc'[s] = pc[s] /\ reg'[s] = reg[s]
  BY <1>1 DEF Inv, TypeOK
<1>5. Pushing(t)' = Pushing(t) /\ Owns(t)
  BY <1>1, <1>4 DEF Pushing, Owns
<1>6. table' \cup retired' \subseteq table \cup retired /\ table' \cap retired' = {}
  BY <1>1 DEF Inv, InUse
<1> QED
  BY <1>1, <1>3, <1>4, <1>5, <1>6, QuietStep

\* call_rcu takes a node out of the table and leaves it in use.
LEMMA CallRcuInv ==
  ASSUME Inv, Phases', NEW t \in Threads, NEW n \in Nodes, CallRcu(t, n)
  PROVE  Inv' /\ ZombiesStay /\ NoZombieLinked
<1>1. /\ n \in table /\ table' = table \ {n} /\ retired' = retired \cup {n} /\ pc[t] = "idle"
      /\ UNCHANGED <<freers, freelist, mr_next, lfl, lfl_tail, lcnt, reg, pc, place, users,
                     iter, running, todo>>
  BY DEF CallRcu, localVars, testVars
<1>2. TypeOK'
  BY <1>1 DEF Inv, TypeOK
<1>3. table' \cup retired' \subseteq table \cup retired /\ table' \cap retired' = {}
  BY <1>1 DEF Inv, InUse
<1>4. Pushing(t)' = Pushing(t) /\ Owns(t)
  BY <1>1 DEF Pushing, Owns
<1> QED
  BY <1>1, <1>2, <1>3, <1>4, QuietStep

\* init_allocator drops the shared list.
LEMMA InitAllocatorInv ==
  ASSUME Inv, Phases', InitAllocator
  PROVE  Inv' /\ ZombiesStay /\ NoZombieLinked
<1>1. /\ freelist' = NULL /\ running' = TRUE
      /\ UNCHANGED <<freers, mr_next, lfl, lfl_tail, lcnt, reg, pc, place, users, table, retired,
                     iter, todo>>
  BY DEF InitAllocator, localVars
<1>2. TypeOK'
  BY <1>1 DEF Inv, TypeOK, NodePtr
<1>3. \A n \in Nodes : Chained(n)' = Chained(n)
  BY <1>1 DEF Chained, Loose, Pushing
<1>4. HeadsInPlace'
  BY <1>1, <1>3 DEF Inv, HeadsInPlace, Owns, Chained
<1>5. LinksInPlace' /\ TailsInPlace' /\ InUse'
  BY <1>1, <1>3 DEF Inv, LinksInPlace, TailsInPlace, InUse, Pushing
<1>6. Acyclic'
  BY <1>1, <1>3, AcyclicKept DEF Inv
<1> QED
  BY <1>1, <1>2, <1>3, <1>4, <1>5, <1>6 DEF Inv, ZombiesStay, NoZombieLinked

\* The lists of the threads of the last iteration are forgotten.
LEMMA NextIterationInv ==
  ASSUME Inv, Phases', NextIteration
  PROVE  Inv' /\ ZombiesStay /\ NoZombieLinked
<1>1. /\ \A t \in Workers : pc[t] = "idle"
      /\ \A t \in Threads : /\ lfl'[t] = (IF t \in Workers THEN NULL ELSE lfl[t])
                            /\ lfl_tail'[t] = (IF t \in Workers THEN NULL ELSE lfl_tail[t])
      /\ table' = {}
      /\ UNCHANGED <<freers, freelist, mr_next, reg, pc, place, users, retired>>
  BY DEF NextIteration
<1>2. TypeOK'
  <2>1. lfl' \in [Threads -> NodePtr] /\ lfl_tail' \in [Threads -> NodePtr]
    BY DEF NextIteration, Inv, TypeOK, NodePtr
  <2>2. lcnt' \in [Threads -> Nat]
    BY DEF NextIteration, Inv, TypeOK
  <2>3. iter' = iter + 1 /\ todo' = NbKeys /\ running' = FALSE
    BY DEF NextIteration
  <2>4. iter' \in Nat /\ todo' \in Nat
    BY <2>3, AllocatorAssumption DEF Inv, TypeOK
  <2> QED
    BY <1>1, <2>1, <2>2, <2>3, <2>4 DEF Inv, TypeOK
<1>3. \A t \in Threads : Pushing(t)' = Pushing(t) /\ Owns(t)' = Owns(t) /\ (Pushing(t) => t \notin Workers)
  BY <1>1 DEF Pushing, Owns
<1>4. \A n \in Nodes : Chained(n)' = Chained(n)
  BY <1>1, <1>3 DEF Chained, Loose
<1>5. HeadsInPlace'
  <2>1. \A t \in Threads : pc[t] \in {"swap", "pop"} => t \notin Workers
    BY <1>1
  <2>2. \A n \in Nodes : Chained(n)' => mr_next[n] # NULL
    BY <1>4 DEF Chained
  <2> QED
    BY <1>1, <1>3, <1>4, <2>1, <2>2 DEF Inv, HeadsInPlace
<1>6. LinksInPlace'
  BY <1>1, <1>4 DEF Inv, LinksInPlace
<1>7. TailsInPlace'
  BY <1>1, <1>3 DEF Inv, TailsInPlace
<1>8. InUse'
  BY <1>1 DEF Inv, InUse
<1>9. Acyclic'
  BY <1>1, <1>4, AcyclicKept DEF Inv
<1> QED
  BY <1>1, <1>2, <1>4, <1>5, <1>6, <1>7, <1>8, <1>9 DEF Inv, ZombiesStay, NoZombieLinked

\* lfl_tail->mr_next = freelist: until the CAS nobody follows this link.
LEMMA LinkTailInv ==
  ASSUME Inv, Phases', NEW t \in Threads, LinkTail(t)
  PROVE  Inv' /\ ZombiesStay /\ NoZombieLinked
<1> DEFINE p == lfl_tail[t]
<1>1. /\ pc[t] = "link" /\ pc' = [pc EXCEPT ![t] = "expect"]
      /\ mr_next' = [mr_next EXCEPT ![p] = reg[t]]
      /\ UNCHANGED <<freers, freelist, lfl, lfl_tail, lcnt, reg, place, users, table, retired,
                     iter, running, todo>>
  BY DEF LinkTail, GoTo, localVars, testVars
<1>2. p \in Nodes /\ p # NULL
  BY <1>1 DEF Inv, TypeOK, TailsInPlace, Pushing, NodePtr
<1>3. /\ pc'[t] = "expect" /\ \A s \in Threads : s # t => pc'[s] = pc[s]
      /\ \A n \in Nodes : n # p => mr_next'[n] = mr_next[n]
  BY <1>1, <1>2 DEF Inv, TypeOK
<1>4. \A s \in Threads : Pushing(s)' = Pushing(s) /\ Owns(s)' = Owns(s)
  BY <1>1, <1>3 DEF Pushing, Owns
<1>5. ~Chained(p)'
  BY <1>1, <1>3, <1>4 DEF Chained, Loose, Pushing
<1>6. \A n \in Nodes : Chained(n)' => n # p /\ Chained(n)
  BY <1>1, <1>3, <1>4, <1>5 DEF Chained, Loose
<1>7. TypeOK'
  BY <1>1 DEF Inv, TypeOK, Pc
<1>8. HeadsInPlace'
  BY <1>1, <1>3, <1>4, <1>6 DEF Inv, HeadsInPlace
<1>9. LinksInPlace'
  BY <1>1, <1>3, <1>6 DEF Inv, LinksInPlace
<1>10. TailsInPlace' /\ InUse'
  BY <1>1, <1>4 DEF Inv, TailsInPlace, InUse
<1>11. Acyclic'
  BY <1>3, <1>6, AcyclicKept DEF Inv
<1> QED
  BY <1>1, <1>3, <1>6, <1>7, <1>8, <1>9, <1>10, <1>11 DEF Inv, ZombiesStay, NoZombieLinked

(***************************************************************************)
(* The CAS of add_free makes the thread's list the shared one, or nothing. *)
(* What was shared is behind the tail if the tail's link is the old        *)
(* freelist, and behind nothing otherwise.                                 *)
(***************************************************************************)
LEMMA PushInv ==
  ASSUME Inv, Phases', NEW t \in Threads, Push(t)
  PROVE  Inv' /\ ZombiesStay /\ NoZombieLinked
<1>a. PICK p \in Nodes : p = lfl_tail[t]
  BY DEF Push, Inv, TypeOK, TailsInPlace, Pushing, NodePtr
<1>0. /\ pc[t] = "push" /\ Pushing(t) /\ Owns(t)
      /\ lfl[t] \in Nodes /\ place[lfl[t]] = t /\ lfl[t] # NULL
      /\ reg' = [reg EXCEPT ![t] = NULL]
      /\ UNCHANGED <<freers, mr_next, users, table, retired, iter, running, todo>>
  BY PlaceNames DEF Push, Inv, TypeOK, HeadsInPlace, TailsInPlace, Pushing, Owns, NodePtr, testVars
<1>1. CASE freelist # reg[t]
  <2>1. /\ pc' = [pc EXCEPT ![t] = "read"]
        /\ UNCHANGED <<freelist, place, lfl, lfl_tail, lcnt>>
    BY <1>1 DEF Push, GoTo
  <2>2. TypeOK'
    BY <1>0, <2>1 DEF Inv, TypeOK, Pc, NodePtr
  <2>3. pc'[t] = "read" /\ \A s \in Threads : s # t => pc'[s] = pc[s] /\ reg'[s] = reg[s]
    BY <1>0, <2>1 DEF Inv, TypeOK
  <2>4. Pushing(t)' = Pushing(t) /\ Owns(t)
    BY <1>0, <2>3 DEF Pushing
  <2>5. table' \cup retired' \subseteq table \cup retired /\ table' \cap retired' = {}
    BY <1>0 DEF Inv, InUse
  <2> QED
    BY <1>0, <2>1, <2>2, <2>3, <2>4, <2>5, QuietStep
<1>2. CASE freelist = reg[t]
  <2> DEFINE B == Behind(t)
  <2>0. B \in Places \ {"heap", "held", t}
    BY <1>a, PlaceNames DEF Behind, Places, Inv, TypeOK
  <2> HIDE DEF B
  <2>1. /\ freelist' = lfl[t]
        /\ pc' = [pc EXCEPT ![t] = "idle"]
        /\ lfl_tail' = [lfl_tail EXCEPT ![t] = NULL]
        /\ lfl' = [lfl EXCEPT ![t] = NULL]
        /\ lcnt' = [lcnt EXCEPT ![t] = 0]
        /\ place' = [n \in Nodes |-> IF place[n] = t THEN "shared"
                                     ELSE IF place[n] = "shared" THEN B ELSE place[n]]
    BY <1>2 DEF Push, GoTo, MoveBoth, B
  <2>2. TypeOK'
    <3>1. place' \in [Nodes -> Places]
      BY <2>0, <2>1 DEF Inv, TypeOK, Places
    <3> QED
      BY <1>0, <2>1, <3>1 DEF Inv, TypeOK, Pc, NodePtr
  <2>3. /\ pc'[t] = "idle" /\ lfl'[t] = NULL /\ lfl_tail'[t] = NULL
        /\ \A s \in Threads : s # t => /\ pc'[s] = pc[s] /\ lfl'[s] = lfl[s]
                                       /\ lfl_tail'[s] = lfl_tail[s] /\ reg'[s] = reg[s]
    BY <1>0, <2>1 DEF Inv, TypeOK
  <2>4. \A n \in Nodes : /\ place'[n] = (IF place[n] = t THEN "shared"
                                         ELSE IF place[n] = "shared" THEN B ELSE place[n])
                         /\ place'[n] = "held" <=> place[n] = "held"
                         /\ place'[n] = "heap" <=> place[n] = "heap"
                         /\ place[n] = "lost" => place'[n] = "lost"
                         /\ place[n] = "zombie" => place'[n] = "zombie"
    BY <2>0, <2>1, PlaceNames
  <2>5. /\ ~Pushing(t)' /\ Owns(t)'
        /\ \A s \in Threads : s # t => Pushing(s)' = Pushing(s) /\ Owns(s)' = Owns(s)
    BY <2>3 DEF Pushing, Owns
  <2>6. \A n \in Nodes : mr_next'[n] = mr_next[n] /\ mr_next[n] \in NodePtr
    BY <1>0 DEF Inv, TypeOK
  <2>7. \A n \in Nodes : (n # p \/ mr_next[p] # freelist) /\ Chained(n)' => Chained(n)
    <3> SUFFICES ASSUME NEW n \in Nodes, n # p \/ mr_next[p] # freelist, Chained(n)' PROVE Chained(n)
      OBVIOUS
    <3>1. Loose(n) => Loose(n)'
      BY <1>a, <1>2, <1>0, <2>3, <2>5, <2>6 DEF Loose
    <3> QED
      BY <2>4, <2>6, <3>1 DEF Chained
  \* The tail's link is followed from now on: it leads to the old freelist.
  <2>8. ASSUME Chained(p)', mr_next[p] = freelist
        PROVE  /\ freelist \in Nodes /\ freelist # NULL /\ place[freelist] = "shared"
               /\ place[p] # "shared" /\ place'[p] = place'[freelist]
    <3>1. freelist \in Nodes /\ freelist # NULL /\ place[freelist] = "shared"
      BY <2>6, <2>8 DEF Chained, Inv, HeadsInPlace, NodePtr
    <3>2. place[p] \notin {"heap", "held"} /\ place'[p] # "lost"
      BY <2>4, <2>8 DEF Chained
    <3>3. place[p] = "shared" => B = "lost"
      BY <1>a, PlaceNames DEF Behind, B
    <3>4. place[p] # "shared"
      BY <2>4, <3>2, <3>3, PlaceNames
    <3>5. B = IF place[p] = t THEN "shared" ELSE place[p]
      BY <1>a, <2>8, <3>2, <3>4 DEF Behind, B
    <3> QED
      BY <2>4, <3>1, <3>4, <3>5, PlaceNames
  <2>9. HeadsInPlace'
    <3>1. freelist' # NULL => place'[freelist'] = "shared"
      BY <1>0, <2>1, <2>4
    <3>2. \A s \in Threads : Owns(s)' /\ lfl'[s] # NULL => place'[lfl'[s]] = s
      <4> SUFFICES ASSUME NEW s \in Threads, Owns(s)', lfl'[s] # NULL PROVE place'[lfl'[s]] = s
        OBVIOUS
      <4>1. s # t /\ Owns(s) /\ lfl'[s] = lfl[s] /\ lfl[s] \in Nodes
        BY <2>3, <2>5 DEF Inv, TypeOK, NodePtr
      <4> QED
        BY <2>4, <4>1, PlaceNames DEF Inv, HeadsInPlace
    <3>3. \A s \in Threads : pc'[s] \in {"swap", "pop"} => lfl'[s] # NULL
      BY <2>3 DEF Inv, HeadsInPlace
    <3>4. ASSUME NEW n \in Nodes, Chained(n)', NEW s \in Threads, Owns(s)'
          PROVE  mr_next'[n] # freelist' /\ mr_next'[n] # lfl'[s]
      <4>0. mr_next[n] # NULL
        BY <2>6, <3>4 DEF Chained
      <4>1. CASE n = p /\ mr_next[p] = freelist
        <5>1. place[freelist] = "shared" /\ freelist # NULL
          BY <2>8, <3>4, <4>1
        <5>2. freelist # lfl[t] /\ \A u \in Threads : Owns(u) /\ lfl[u] # NULL => freelist # lfl[u]
          BY <1>0, <5>1, PlaceNames DEF Inv, HeadsInPlace
        <5> QED
          BY <2>1, <2>3, <2>5, <2>6, <3>4, <4>0, <4>1, <5>2
      <4>2. CASE n # p \/ mr_next[p] # freelist
        <5>1. Chained(n)
          BY <2>7, <3>4, <4>2
        <5> QED
          BY <1>0, <2>1, <2>3, <2>5, <2>6, <3>4, <4>0, <5>1 DEF Inv, HeadsInPlace
      <4> QED
        BY <4>1, <4>2
    <3>5. \A n \in Nodes : Chained(n)' =>
            mr_next'[n] # freelist' /\ \A s \in Threads : Owns(s)' => mr_next'[n] # lfl'[s]
      BY <2>5, <3>4
    <3> QED
      BY <3>1, <3>2, <3>3, <3>5 DEF HeadsInPlace
  <2>10. LinksInPlace'
    <3>1. ASSUME NEW n \in Nodes, Chained(n)' PROVE place'[mr_next'[n]] = place'[n]
      <4>1. CASE n = p /\ mr_next[p] = freelist
        BY <2>6, <2>8, <3>1, <4>1
      <4>2. CASE n # p \/ mr_next[p] # freelist
        <5>1. Chained(n) /\ mr_next[n] \in Nodes /\ place[mr_next[n]] = place[n]
          BY <2>6, <2>7, <3>1, <4>2 DEF Inv, LinksInPlace, Chained, NodePtr
        <5> QED
          BY <2>4, <2>6, <5>1
      <4> QED
        BY <4>1, <4>2
    <3>2. ASSUME NEW m \in Nodes, NEW n \in Nodes, Chained(m)', Chained(n)', mr_next'[m] = mr_next'[n]
          PROVE  m = n
      <4>1. \A x \in Nodes : (x # p \/ mr_next[p] # freelist) /\ Chained(x)' =>
              Chained(x) /\ mr_next[x] # freelist
        BY <2>7 DEF Inv, HeadsInPlace
      <4> QED
        BY <2>6, <3>2, <4>1 DEF Inv, LinksInPlace
    <3> QED
      BY <3>1, <3>2 DEF LinksInPlace
  <2>11. Acyclic'
    <3>1. CASE mr_next[p] = freelist /\ Chained(p)'
      <4>1. place[p] # "shared" /\ place[mr_next'[p]] = "shared"
        BY <2>6, <2>8, <3>1
      <4> QED
        BY <2>6, <2>7, <4>1, AcyclicJoined
    <3>2. CASE ~(mr_next[p] = freelist /\ Chained(p)')
      <4>1. \A n \in Nodes : Chained(n)' => Chained(n) /\ mr_next'[n] = mr_next[n]
        BY <2>6, <2>7, <3>2
      <4> QED
        BY <4>1, AcyclicKept DEF Inv
    <3> QED
      BY <3>1, <3>2
  <2>12. TailsInPlace'
    <3> SUFFICES ASSUME NEW s \in Threads, s # t
                 PROVE  /\ lfl_tail'[s] # NULL =>
                             s \in freers' /\ (s \notin Updaters => place'[lfl_tail'[s]] = s)
                        /\ Pushing(s)' => lfl_tail'[s] # NULL /\ lfl'[s] # NULL
      BY <2>3, <2>5 DEF TailsInPlace
    <3>1. lfl_tail[s] # NULL => lfl_tail[s] \in Nodes
      BY DEF Inv, TypeOK, NodePtr
    <3> QED
      BY <1>0, <2>3, <2>4, <2>5, <3>1, PlaceNames DEF Inv, TailsInPlace
  <2>13. InUse'
    <3>1. \A n \in table \cup retired : n \in Nodes
      BY DEF Inv, TypeOK
    <3> QED
      BY <1>0, <2>4, <3>1, PlaceNames DEF Inv, InUse
  <2>14. ZombiesStay /\ NoZombieLinked
    BY <2>4, <2>6, <2>7, <2>8 DEF ZombiesStay, NoZombieLinked
  <2> QED
    BY <2>2, <2>9, <2>10, <2>11, <2>12, <2>13, <2>14 DEF Inv
<1> QED
  BY <1>1, <1>2

\* get_free's read of freelist is only a guess; an empty one leads to calloc.
LEMMA LoadInv ==
  ASSUME Inv, Phases', NEW t \in Threads, Load(t)
  PROVE  Inv' /\ ZombiesStay /\ NoZombieLinked
<1>0. /\ pc[t] = "load" /\ lfl' = [lfl EXCEPT ![t] = freelist]
      /\ UNCHANGED <<freers, freelist, mr_next, lfl_tail, lcnt, reg, retired, iter, running, todo>>
  BY DEF Load, Inv, HeadsInPlace, testVars
<1>1. CASE freelist # NULL
  <2>1. pc' = [pc EXCEPT ![t] = "swap"] /\ UNCHANGED <<place, users, table>>
    BY <1>1 DEF Load, GoTo
  <2>2. TypeOK'
    BY <1>0, <2>1 DEF Inv, TypeOK, Pc
  <2>3. /\ pc'[t] = "swap" /\ lfl'[t] = freelist
        /\ \A s \in Threads : s # t => pc'[s] = pc[s] /\ lfl'[s] = lfl[s]
    BY <1>0, <2>1 DEF Inv, TypeOK
  <2>4. /\ ~Pushing(t)' /\ ~Pushing(t) /\ ~Owns(t)'
        /\ \A s \in Threads : s # t => Pushing(s)' = Pushing(s) /\ Owns(s)' = Owns(s)
    BY <1>0, <2>3 DEF Pushing, Owns
  <2>5. \A n \in Nodes : Chained(n)' = Chained(n)
    BY <1>0, <2>1, <2>4 DEF Chained, Loose
  <2>6. HeadsInPlace'
    BY <1>0, <1>1, <2>1, <2>3, <2>4, <2>5 DEF Inv, HeadsInPlace
  <2>7. LinksInPlace'
    BY <1>0, <2>1, <2>5 DEF Inv, LinksInPlace
  <2>8. TailsInPlace'
    BY <1>0, <2>1, <2>3, <2>4 DEF Inv, TailsInPlace
  <2>9. InUse'
    BY <1>0, <2>1 DEF Inv, InUse
  <2>10. Acyclic'
    BY <1>0, <2>5, AcyclicKept DEF Inv
  <2> QED
    BY <1>0, <2>1, <2>2, <2>5, <2>6, <2>7, <2>8, <2>9, <2>10 DEF Inv, ZombiesStay, NoZombieLinked
<1>2. CASE freelist = NULL
  <2>1. PICK n \in Nodes : /\ place[n] = "heap"
                           /\ place' = [place EXCEPT ![n] = "held"]
                           /\ users' = [users EXCEPT ![n] = @ + 1]
                           /\ table' = table \cup {n}
                           /\ pc' = [pc EXCEPT ![t] = "idle"]
    BY <1>2 DEF Load, HandOut, GoTo, Heap
  <2>2. TypeOK'
    <3>1. place' \in [Nodes -> Places] /\ users' \in [Nodes -> Nat]
      BY <2>1 DEF Inv, TypeOK, Places
    <3> QED
      BY <1>0, <2>1, <3>1 DEF Inv, TypeOK, Pc
  <2>3. /\ pc'[t] = "idle" /\ lfl'[t] = NULL
        /\ \A s \in Threads : s # t => pc'[s] = pc[s] /\ lfl'[s] = lfl[s]
        /\ \A m \in Nodes : place'[m] = IF m = n THEN "held" ELSE place[m]
    BY <1>0, <1>2, <2>1 DEF Inv, TypeOK
  <2>4. /\ ~Pushing(t)' /\ ~Pushing(t)
        /\ \A s \in Threads : s # t => Pushing(s)' = Pushing(s) /\ Owns(s)' = Owns(s)
    BY <1>0, <2>3 DEF Pushing, Owns
  <2>5. \A m \in Nodes : Chained(m)' => Chained(m) /\ m # n /\ mr_next[m] \in Nodes /\ mr_next[m] # n
    <3>1. \A m \in Nodes : Chained(m)' => Chained(m) /\ m # n /\ mr_next[m] \in Nodes
      BY <1>0, <2>3, <2>4 DEF Chained, Loose, Inv, TypeOK, NodePtr
    <3> QED
      BY <2>1, <3>1 DEF Inv, LinksInPlace, Chained
  <2>6. HeadsInPlace'
    <3>1. \A s \in Threads : Owns(s)' /\ lfl'[s] # NULL => place'[lfl'[s]] = s
      <4> SUFFICES ASSUME NEW s \in Threads, Owns(s)', lfl'[s] # NULL PROVE place'[lfl'[s]] = s
        OBVIOUS
      <4>1. s # t /\ Owns(s) /\ lfl'[s] = lfl[s] /\ lfl[s] \in Nodes /\ place[lfl[s]] = s
        BY <2>3, <2>4 DEF Inv, TypeOK, NodePtr, HeadsInPlace
      <4> QED
        BY <2>1, <2>3, <4>1, PlaceNames
    <3>2. \A m \in Nodes : Chained(m)' => \A s \in Threads : Owns(s)' => mr_next[m] # lfl'[s]
      BY <2>3, <2>4, <2>5, PlaceNames DEF Inv, HeadsInPlace
    <3> QED
      BY <1>0, <1>2, <2>3, <2>5, <3>1, <3>2, PlaceNames DEF Inv, HeadsInPlace
  <2>7. LinksInPlace'
    BY <1>0, <2>3, <2>5 DEF Inv, LinksInPlace
  <2>8. TailsInPlace'
    <3>1. \A s \in Threads : lfl_tail[s] # NULL =>
            lfl_tail[s] \in Nodes /\ (s \notin Updaters => lfl_tail[s] # n)
      BY <2>1, PlaceNames DEF Inv, TailsInPlace, TypeOK, NodePtr
    <3> QED
      BY <1>0, <2>1, <2>3, <2>4, <3>1 DEF Inv, TailsInPlace
  <2>9. InUse'
    <3>1. users[n] = 0 /\ n \notin retired
      BY <2>1 DEF Inv, InUse
    <3>2. \A m \in Nodes : users'[m] = IF m = n THEN 1 ELSE users[m]
      BY <2>1, <3>1 DEF Inv, TypeOK
    <3>3. \A m \in table \cup retired : m \in Nodes
      BY DEF Inv, TypeOK
    <3> QED
      BY <1>0, <2>1, <2>3, <3>1, <3>2, <3>3 DEF Inv, InUse
  <2>10. Acyclic'
    BY <1>0, <2>5, AcyclicKept DEF Inv
  <2> QED
    BY <1>0, <2>1, <2>2, <2>3, <2>5, <2>6, <2>7, <2>8, <2>9, <2>10 DEF Inv, ZombiesStay, NoZombieLinked
<1> QED
  BY <1>1, <1>2

\* The CAS of get_free makes the whole shared list the thread's own, or nothing.
LEMMA SwapInv ==
  ASSUME Inv, Phases', NEW t \in Threads, Swap(t)
  PROVE  Inv' /\ ZombiesStay /\ NoZombieLinked
<1>0. /\ pc[t] = "swap" /\ lfl[t] # NULL /\ lfl[t] \in Nodes
      /\ UNCHANGED <<freers, mr_next, lfl, lfl_tail, lcnt, reg, users, table, retired, iter, running, todo>>
  BY DEF Swap, Inv, TypeOK, HeadsInPlace, localVars, testVars, NodePtr
<1>1. CASE freelist # lfl[t]
  <2>1. pc' = [pc EXCEPT ![t] = "load"] /\ UNCHANGED <<freelist, place>>
    BY <1>1 DEF Swap, GoTo
  <2>2. TypeOK'
    BY <1>0, <2>1 DEF Inv, TypeOK, Pc
  <2>3. /\ pc'[t] = "load" /\ \A s \in Threads : s # t => pc'[s] = pc[s] /\ reg'[s] = reg[s]
    BY <1>0, <2>1, <2>2 DEF Inv, TypeOK
  <2>4. Pushing(t)' = Pushing(t) /\ ~Owns(t)'
    BY <1>0, <2>3 DEF Pushing, Owns
  <2>5. table' \cup retired' \subseteq table \cup retired /\ table' \cap retired' = {}
    BY <1>0 DEF Inv, InUse
  <2> QED
    BY <1>0, <2>1, <2>2, <2>3, <2>4, <2>5, QuietStep
<1>2. CASE freelist = lfl[t]
  <2>1. /\ freelist' = NULL /\ pc' = [pc EXCEPT ![t] = "pop"]
        /\ place' = [n \in Nodes |-> IF place[n] = "shared" THEN t ELSE place[n]]
    BY <1>2 DEF Swap, GoTo, Move
  <2>2. TypeOK'
    <3>1. place' \in [Nodes -> Places]
      BY <2>1 DEF Inv, TypeOK, Places
    <3> QED
      BY <1>0, <2>1, <3>1 DEF Inv, TypeOK, Pc, NodePtr
  <2>3. pc'[t] = "pop" /\ \A s \in Threads : s # t => pc'[s] = pc[s]
    BY <2>1 DEF Inv, TypeOK
  <2>4. \A n \in Nodes : /\ place'[n] = (IF place[n] = "shared" THEN t ELSE place[n])
                         /\ \A x \in {"heap", "held", "lost", "zombie"} : place'[n] = x <=> place[n] = x
    BY <2>1, PlaceNames
  <2>5. /\ \A s \in Threads : Pushing(s)' = Pushing(s)
        /\ \A s \in Threads : s # t => Owns(s)' = Owns(s)
    BY <1>0, <2>3 DEF Pushing, Owns
  <2>6. \A n \in Nodes : Chained(n)' = Chained(n)
    <3>1. \A n \in Nodes : Loose(n)' = Loose(n)
      BY <1>0, <2>3, <2>5 DEF Loose
    <3> QED
      BY <1>0, <2>4, <3>1 DEF Chained
  <2>7. HeadsInPlace'
    <3>1. \A s \in Threads : Owns(s)' /\ lfl'[s] # NULL => place'[lfl'[s]] = s
      <4> SUFFICES ASSUME NEW s \in Threads, Owns(s)', lfl[s] # NULL PROVE place'[lfl[s]] = s
        BY <1>0
      <4>1. CASE s = t
        BY <1>0, <1>2, <2>4, <4>1 DEF Inv, HeadsInPlace
      <4>2. CASE s # t
        <5>1. lfl[s] \in Nodes /\ place[lfl[s]] = s
          BY <2>5, <4>2 DEF Inv, TypeOK, NodePtr, HeadsInPlace
        <5> QED
          BY <2>4, <5>1, PlaceNames
      <4> QED
        BY <4>1, <4>2
    <3>2. \A n \in Nodes : Chained(n)' =>
            mr_next[n] # NULL /\ \A s \in Threads : Owns(s)' => mr_next[n] # lfl[s]
      <4>1. \A n \in Nodes : Chained(n) => mr_next[n] # NULL /\ mr_next[n] # lfl[t]
        BY <1>2 DEF Inv, HeadsInPlace, Chained
      <4> QED
        BY <2>5, <2>6, <4>1 DEF Inv, HeadsInPlace
    <3> QED
      BY <1>0, <2>1, <2>3, <3>1, <3>2 DEF Inv, HeadsInPlace
  <2>8. LinksInPlace'
    <3>1. \A n \in Nodes : Chained(n) => mr_next[n] \in Nodes
      BY DEF Chained, Inv, TypeOK, NodePtr
    <3> QED
      BY <1>0, <2>4, <2>6, <3>1 DEF Inv, LinksInPlace
  <2>9. TailsInPlace'
    <3>1. \A s \in Threads : lfl_tail[s] # NULL => lfl_tail[s] \in Nodes
      BY DEF Inv, TypeOK, NodePtr
    <3> QED
      BY <1>0, <2>4, <2>5, <3>1, PlaceNames DEF Inv, TailsInPlace
  <2>10. InUse'
    <3>1. \A n \in table \cup retired : n \in Nodes
      BY DEF Inv, TypeOK
    <3> QED
      BY <1>0, <2>4, <3>1 DEF Inv, InUse
  <2>11. Acyclic'
    BY <1>0, <2>6, AcyclicKept DEF Inv
  <2> QED
    BY <1>0, <2>2, <2>4, <2>6, <2>7, <2>8, <2>9, <2>10, <2>11 DEF Inv, ZombiesStay, NoZombieLinked
<1> QED
  BY <1>1, <1>2

(***************************************************************************)
(* While a thread takes nodes off its list, or a scan is between two       *)
(* nodes, none of these nodes is the tail of a push: a thread that does    *)
(* not allocate has its tail on its own list, and there is no other        *)
(* updater.                                                                *)
(***************************************************************************)
LEMMA NotLoose ==
  ASSUME Inv, Tame(freers), NEW t \in Allocators, pc[t] \in {"idle", "pop"}, t = Main => ~running,
         NEW n \in Nodes, place[n] \in {t, "zombie"}
  PROVE  ~Loose(n)
<1> SUFFICES ASSUME NEW s \in Threads, Pushing(s), lfl_tail[s] = n PROVE FALSE
  BY DEF Loose
<1>1. s \in freers /\ s # t /\ lfl_tail[s] # NULL
  BY DEF Inv, TailsInPlace, Pushing
<1>2. s \notin Updaters => place[n] = s
  BY <1>1 DEF Inv, TailsInPlace
<1>3. s \in Updaters
  BY <1>1, <1>2, PlaceNames
<1>4. t = Main
  BY <1>1, <1>3 DEF Tame, Allocators
<1>5. s \in Workers
  BY <1>3, AllocatorAssumption DEF Workers, Threads
<1> QED
  BY <1>4, <1>5 DEF Inv, Phases, Pushing

\* get_free hands out a node that is on no list any more and was not in use.
LEMMA PopInv ==
  ASSUME Inv, Phases', Tame(freers), NEW t \in Threads, Pop(t)
  PROVE  Inv' /\ ZombiesStay /\ NoZombieLinked
<1>a. PICK h \in Nodes : h = lfl[t]
  BY DEF Pop, Inv, TypeOK, HeadsInPlace, NodePtr
<1>0. /\ pc[t] = "pop" /\ Owns(t) /\ place[h] = t /\ h # NULL
      /\ lfl' = [lfl EXCEPT ![t] = mr_next[h]]
      /\ place' = [place EXCEPT ![h] = "held"]
      /\ users' = [users EXCEPT ![h] = @ + 1]
      /\ table' = table \cup {h}
      /\ pc' = [pc EXCEPT ![t] = "idle"]
      /\ UNCHANGED <<freers, freelist, mr_next, lfl_tail, lcnt, reg, retired, iter, running, todo>>
  BY <1>a, PlaceNames DEF Pop, HandOut, GoTo, Owns, Inv, HeadsInPlace, testVars
<1>1. TypeOK'
  <2>1. place' \in [Nodes -> Places] /\ users' \in [Nodes -> Nat]
    BY <1>0 DEF Inv, TypeOK, Places
  <2> QED
    BY <1>0, <2>1 DEF Inv, TypeOK, Pc
<1>2. /\ pc'[t] = "idle" /\ lfl'[t] = mr_next[h]
      /\ \A s \in Threads : s # t => pc'[s] = pc[s] /\ lfl'[s] = lfl[s]
      /\ \A m \in Nodes : place'[m] = IF m = h THEN "held" ELSE place[m]
  BY <1>0 DEF Inv, TypeOK
<1>3. /\ ~Pushing(t)' /\ ~Pushing(t)
      /\ \A s \in Threads : s # t => Pushing(s)' = Pushing(s) /\ Owns(s)' = Owns(s)
  BY <1>0, <1>2 DEF Pushing, Owns
<1>4. ~Loose(h)
  <2>1. t \in Allocators /\ (t = Main => ~running)
    BY <1>0 DEF Inv, Phases
  <2> QED
    BY <1>0, <2>1, NotLoose
<1>5. mr_next[h] # NULL => Chained(h) /\ place[mr_next[h]] = t /\ mr_next[h] # h /\ mr_next[h] \in Nodes
  <2>1. mr_next[h] # NULL => Chained(h)
    BY <1>0, <1>4, PlaceNames DEF Chained
  <2> QED
    BY <1>0, <1>a, <2>1 DEF Inv, TypeOK, NodePtr, LinksInPlace, HeadsInPlace
<1>6. \A m \in Nodes : Chained(m)' => Chained(m) /\ m # h /\ mr_next[m] \in Nodes /\ mr_next[m] # h
  <2>1. \A m \in Nodes : Loose(m)' = Loose(m)
    BY <1>0, <1>2, <1>3 DEF Loose
  <2>2. \A m \in Nodes : Chained(m)' => Chained(m) /\ m # h /\ mr_next[m] \in Nodes
    BY <1>0, <1>2, <2>1 DEF Chained, Inv, TypeOK, NodePtr
  <2> QED
    BY <1>0, <1>a, <2>2 DEF Inv, HeadsInPlace
<1>7. HeadsInPlace'
  <2>1. \A s \in Threads : Owns(s)' /\ lfl'[s] # NULL => place'[lfl'[s]] = s
    <3> SUFFICES ASSUME NEW s \in Threads, Owns(s)', lfl'[s] # NULL PROVE place'[lfl'[s]] = s
      OBVIOUS
    <3>1. CASE s = t
      BY <1>2, <1>5, <3>1
    <3>2. CASE s # t
      <4>1. Owns(s) /\ lfl'[s] = lfl[s] /\ lfl[s] \in Nodes /\ place[lfl[s]] = s
        BY <1>2, <1>3, <3>2 DEF Inv, TypeOK, NodePtr, HeadsInPlace
      <4> QED
        BY <1>0, <1>2, <3>2, <4>1
    <3> QED
      BY <3>1, <3>2
  <2>2. \A m \in Nodes : Chained(m)' =>
          mr_next[m] # freelist /\ \A s \in Threads : Owns(s)' => mr_next[m] # lfl'[s]
    <3> SUFFICES ASSUME NEW m \in Nodes, Chained(m)', NEW s \in Threads, Owns(s)'
                 PROVE  mr_next[m] # freelist /\ mr_next[m] # lfl'[s]
      BY <1>2 DEF Owns
    <3>1. Chained(m) /\ m # h /\ mr_next[m] \in Nodes
      BY <1>6
    <3>2. CASE s = t
      BY <1>2, <1>5, <3>1, <3>2, PlaceNames DEF Inv, HeadsInPlace, LinksInPlace
    <3>3. CASE s # t
      BY <1>2, <1>3, <3>1, <3>3 DEF Inv, HeadsInPlace
    <3> QED
      BY <3>2, <3>3
  <2>3. freelist # NULL => freelist # h /\ freelist \in Nodes
    BY <1>0, PlaceNames DEF Inv, HeadsInPlace, TypeOK, NodePtr
  <2> QED
    BY <1>0, <1>2, <2>1, <2>2, <2>3 DEF Inv, HeadsInPlace
<1>8. LinksInPlace' /\ Acyclic'
  BY <1>0, <1>2, <1>6, AcyclicKept DEF Inv, LinksInPlace
<1>9. TailsInPlace'
  <2>1. \A s \in Threads : lfl_tail[s] # NULL => lfl_tail[s] \in Nodes
    BY DEF Inv, TypeOK, NodePtr
  <2>2. ASSUME NEW s \in Threads, lfl_tail[s] # NULL, s \notin Updaters PROVE lfl_tail[s] # h
    <3>1. t # s
      BY <1>0, <2>2, AllocatorAssumption DEF Inv, Phases, TailsInPlace, TypeOK, Allocators
    <3> QED
      BY <1>0, <2>2, <3>1 DEF Inv, TailsInPlace
  <2> QED
    BY <1>0, <1>2, <1>3, <2>1, <2>2 DEF Inv, TailsInPlace
<1>10. InUse'
  <2>1. users[h] = 0 /\ h \notin retired
    BY <1>0, PlaceNames DEF Inv, InUse
  <2>2. \A m \in Nodes : users'[m] = IF m = h THEN 1 ELSE users[m]
    BY <1>0, <2>1 DEF Inv, TypeOK
  <2>3. \A m \in table \cup retired : m \in Nodes
    BY DEF Inv, TypeOK
  <2> QED
    BY <1>0, <1>2, <2>1, <2>2, <2>3 DEF Inv, InUse
<1>11. ZombiesStay /\ NoZombieLinked
  BY <1>0, <1>2, <1>6, PlaceNames DEF ZombiesStay, NoZombieLinked
<1> QED
  BY <1>1, <1>7, <1>8, <1>9, <1>10, <1>11 DEF Inv

(***************************************************************************)
(* add_free puts a node that was in use, or a zombie, in front of the      *)
(* thread's own list.                                                      *)
(***************************************************************************)
LEMMA AddFreeInv ==
  ASSUME Inv, Phases', NEW t \in Threads, NEW n \in Nodes, AddFree(t, n),
         pc[t] = "idle", t \in freers, place[n] \in {"held", "zombie"},
         \A m \in Nodes : Chained(m) => mr_next[m] # n,
         users' = [users EXCEPT ![n] = 0], table' = table \ {n}, retired' = retired \ {n}
  PROVE  Inv' /\ NoZombieLinked /\ (Chained(n)' => place[mr_next'[n]] = t)
<1>0. /\ lfl_tail' = [lfl_tail EXCEPT ![t] = IF lfl_tail[t] = NULL THEN n ELSE lfl_tail[t]]
      /\ mr_next' = [mr_next EXCEPT ![n] = lfl[t]]
      /\ lfl' = [lfl EXCEPT ![t] = n]
      /\ lcnt' = [lcnt EXCEPT ![t] = @ + 1]
      /\ place' = [place EXCEPT ![n] = t]
      /\ pc' = [pc EXCEPT ![t] = pc'[t]] /\ pc'[t] \in {"read", "idle"} /\ Owns(t)
      /\ UNCHANGED <<freers, freelist, reg, iter, running, todo>>
  BY DEF AddFree, GoTo, Owns, Inv, TypeOK, testVars
<1>2. TypeOK'
  <2>1. place' \in [Nodes -> Places] /\ users' \in [Nodes -> Nat]
    BY <1>0 DEF Inv, TypeOK, Places
  <2>2. lfl_tail' \in [Threads -> NodePtr] /\ lcnt' \in [Threads -> Nat] /\ mr_next' \in [Nodes -> NodePtr]
    BY <1>0 DEF Inv, TypeOK, NodePtr
  <2>3. lfl' \in [Threads -> NodePtr] /\ pc' \in [Threads -> Pc]
    BY <1>0 DEF Inv, TypeOK, NodePtr, Pc
  <2> QED
    BY <1>0, <2>1, <2>2, <2>3 DEF Inv, TypeOK
<1>3. /\ lfl'[t] = n /\ lfl_tail'[t] = (IF lfl_tail[t] = NULL THEN n ELSE lfl_tail[t])
      /\ \A s \in Threads : s # t => /\ pc'[s] = pc[s] /\ lfl'[s] = lfl[s]
                                     /\ lfl_tail'[s] = lfl_tail[s]
      /\ \A m \in Nodes : /\ place'[m] = IF m = n THEN t ELSE place[m]
                          /\ mr_next'[m] = IF m = n THEN lfl[t] ELSE mr_next[m]
  BY <1>0 DEF Inv, TypeOK
<1>4. /\ ~Pushing(t) /\ Owns(t)' /\ n # NULL
      /\ \A s \in Threads : s # t => Pushing(s)' = Pushing(s) /\ Owns(s)' = Owns(s)
  BY <1>0, <1>3, PlaceNames DEF Pushing, Owns
<1>5. \A s \in Threads : s \notin Updaters /\ lfl_tail[s] # NULL => lfl_tail[s] # n
  BY <1>0, PlaceNames DEF Inv, TailsInPlace
<1>6. \A m \in Nodes : Chained(m)' /\ m # n =>
        Chained(m) /\ mr_next[m] \in Nodes /\ mr_next[m] # n /\ mr_next'[m] = mr_next[m]
  <2>1. \A m \in Nodes : m # n /\ Loose(m) => Loose(m)'
    BY <1>0, <1>3, <1>4 DEF Loose
  <2> QED
    BY <1>3, <2>1 DEF Chained, Inv, TypeOK, NodePtr
<1>7. Chained(n)' => lfl[t] \in Nodes /\ lfl[t] # NULL /\ place[lfl[t]] = t /\ lfl[t] # n
  <2>1. Chained(n)' => lfl[t] # NULL
    BY <1>3 DEF Chained
  <2> QED
    BY <1>0, <2>1, PlaceNames DEF Inv, TypeOK, NodePtr, HeadsInPlace
<1>8. HeadsInPlace'
  <2>1. freelist' # NULL => place'[freelist'] = "shared"
    BY <1>0, <1>3 DEF Inv, HeadsInPlace, TypeOK, NodePtr
  <2>2. \A s \in Threads : Owns(s)' /\ lfl'[s] # NULL => place'[lfl'[s]] = s
    <3> SUFFICES ASSUME NEW s \in Threads, Owns(s)', lfl'[s] # NULL PROVE place'[lfl'[s]] = s
      OBVIOUS
    <3>1. CASE s = t
      BY <1>3, <3>1
    <3>2. CASE s # t
      <4>1. Owns(s) /\ lfl'[s] = lfl[s] /\ lfl[s] \in Nodes /\ place[lfl[s]] = s
        BY <1>3, <1>4, <3>2 DEF Inv, TypeOK, NodePtr, HeadsInPlace
      <4> QED
        BY <1>0, <1>3, <4>1, PlaceNames
    <3> QED
      BY <3>1, <3>2
  <2>3. \A s \in Threads : pc'[s] \in {"swap", "pop"} => lfl'[s] # NULL
    BY <1>0, <1>3 DEF Inv, HeadsInPlace
  <2>4. ASSUME NEW m \in Nodes, Chained(m)', NEW s \in Threads, Owns(s)'
        PROVE  mr_next'[m] # freelist' /\ mr_next'[m] # lfl'[s]
    <3>1. CASE m = n
      <4>1. lfl[t] # freelist
        BY <1>7, <2>4, <3>1, PlaceNames DEF Inv, HeadsInPlace
      <4>2. s # t => lfl[t] # lfl[s]
        BY <1>4, <1>7, <2>4, <3>1 DEF Inv, HeadsInPlace
      <4> QED
        BY <1>0, <1>3, <1>7, <2>4, <3>1, <4>1, <4>2
    <3>2. CASE m # n
      BY <1>0, <1>3, <1>4, <1>6, <2>4, <3>2 DEF Inv, HeadsInPlace
    <3> QED
      BY <3>1, <3>2
  <2>5. \A m \in Nodes : Chained(m)' =>
          mr_next'[m] # freelist' /\ \A s \in Threads : Owns(s)' => mr_next'[m] # lfl'[s]
    BY <1>4, <2>4
  <2> QED
    BY <2>1, <2>2, <2>3, <2>5 DEF HeadsInPlace
<1>9. LinksInPlace'
  <2>1. \A m \in Nodes : Chained(m)' => place'[mr_next'[m]] = place'[m]
    BY <1>3, <1>6, <1>7 DEF Inv, LinksInPlace
  <2>2. \A m \in Nodes : Chained(m)' /\ m # n => mr_next[m] # lfl[t]
    BY <1>0, <1>6 DEF Inv, HeadsInPlace
  <2> QED
    BY <1>3, <1>6, <2>1, <2>2 DEF Inv, LinksInPlace
<1>10. Acyclic'
  <2>1. mr_next'[n] # n
    BY <1>0, <1>3, <1>4, PlaceNames DEF Inv, HeadsInPlace
  <2> QED
    BY <1>6, <2>1, AcyclicInFront DEF Inv
<1>11. TailsInPlace'
  <2>1. ASSUME NEW s \in Threads, lfl_tail'[s] # NULL
        PROVE  s \in freers /\ (s \notin Updaters => place'[lfl_tail'[s]] = s)
    <3>1. CASE lfl_tail[s] = NULL
      BY <1>0, <1>3, <2>1, <3>1
    <3>2. CASE lfl_tail[s] # NULL
      <4>1. lfl_tail[s] \in Nodes /\ lfl_tail'[s] = lfl_tail[s]
        BY <1>3, <3>2 DEF Inv, TypeOK, NodePtr
      <4> QED
        BY <1>0, <1>3, <1>5, <3>2, <4>1 DEF Inv, TailsInPlace
    <3> QED
      BY <3>1, <3>2
  <2>2. \A s \in Threads : Pushing(s)' => lfl_tail'[s] # NULL /\ lfl'[s] # NULL
    BY <1>3, <1>4 DEF Inv, TailsInPlace
  <2> QED
    BY <1>0, <2>1, <2>2 DEF TailsInPlace
<1>12. InUse'
  <2>1. \A m \in Nodes : users'[m] = IF m = n THEN 0 ELSE users[m]
    BY DEF Inv, TypeOK
  <2>2. \A m \in table \cup retired : m \in Nodes
    BY DEF Inv, TypeOK
  <2> QED
    BY <1>0, <1>3, <2>1, <2>2, PlaceNames DEF Inv, InUse
<1>13. Chained(n)' => place[mr_next'[n]] = t
  BY <1>3, <1>7
<1>14. NoZombieLinked
  BY <1>6, <1>13, PlaceNames DEF NoZombieLinked
<1> QED
  BY <1>2, <1>8, <1>9, <1>10, <1>11, <1>12, <1>13, <1>14 DEF Inv

\* free_node is given a node of the table or one whose grace period is over.
LEMMA FreeNodeInv ==
  ASSUME Inv, Phases', NEW t \in Threads, NEW n \in Nodes, FreeNode(t, n)
  PROVE  Inv' /\ ZombiesStay /\ NoZombieLinked
<1>1. place[n] = "held" /\ users[n] = 1
  BY DEF FreeNode, Inv, InUse
<1>2. \A m \in Nodes : Chained(m) => mr_next[m] # n
  BY <1>1 DEF Chained, Inv, LinksInPlace
<1>3. users' = [users EXCEPT ![n] = 0]
  BY <1>1 DEF FreeNode
<1>4. Inv' /\ NoZombieLinked
  BY <1>1, <1>2, <1>3, AddFreeInv DEF FreeNode
<1>5. place' = [place EXCEPT ![n] = t]
  BY DEF FreeNode, AddFree
<1> QED
  BY <1>1, <1>4, <1>5 DEF ZombiesStay, Inv, TypeOK

\* The build does not change while it runs.
LEMMA SameBuild == [Next]_vars => freers' = freers
BY DEF Next, CallStep, NewNode, Load, Swap, Pop, FreeNode, AddFree, CallRcu, ReadFreelist, LinkTail,
       Expect, Push, InitAllocator, NextIteration, vars

\* Inv speaks of nothing but the variables.
LEMMA StutterInv ==
  ASSUME Inv, UNCHANGED vars
  PROVE  Inv' /\ ZombiesStay /\ NoZombieLinked
<1> USE DEF vars, localVars, testVars, Inv
<1>1. TypeOK' /\ InUse' /\ Phases'
  BY DEF TypeOK, InUse, Phases
<1>2. \A n \in Nodes : Chained(n)' = Chained(n)
  BY DEF Chained, Loose, Pushing
<1>3. HeadsInPlace' /\ LinksInPlace' /\ Acyclic'
  BY <1>2, AcyclicKept DEF HeadsInPlace, LinksInPlace, Owns
<1>4. TailsInPlace'
  BY DEF TailsInPlace, Pushing
<1> QED
  BY <1>1, <1>2, <1>3, <1>4 DEF ZombiesStay, NoZombieLinked

\* Every step of the allocator and of its callers preserves Inv.
LEMMA NextInv ==
  ASSUME Inv, Tame(freers), [Next]_vars
  PROVE  Inv' /\ ZombiesStay /\ NoZombieLinked
<1> DEFINE Goal == Inv' /\ ZombiesStay /\ NoZombieLinked
<1>0. CASE UNCHANGED vars
  BY <1>0, StutterInv
<1> SUFFICES ASSUME Next PROVE Goal
  BY <1>0
<1> USE PhasesStep
<1>1. ASSUME NEW t \in Threads, NewNode(t) PROVE Goal
  BY <1>1, NewNodeInv
<1>2. ASSUME NEW t \in Threads, CallStep(t) PROVE Goal
  <2>1. CASE Load(t)
    BY <2>1, LoadInv
  <2>2. CASE Swap(t)
    BY <2>2, SwapInv
  <2>3. CASE Pop(t)
    BY <2>3, PopInv
  <2>4. CASE ReadFreelist(t) \/ Expect(t)
    BY <2>4, RegisterInv
  <2>5. CASE LinkTail(t)
    BY <2>5, LinkTailInv
  <2>6. CASE Push(t)
    BY <2>6, PushInv
  <2> QED
    BY <1>2, <2>1, <2>2, <2>3, <2>4, <2>5, <2>6 DEF CallStep
<1>3. ASSUME NEW t \in Threads, NEW n \in Nodes, FreeNode(t, n) PROVE Goal
  BY <1>3, FreeNodeInv
<1>4. ASSUME NEW t \in Threads, NEW n \in Nodes, CallRcu(t, n) PROVE Goal
  BY <1>4, CallRcuInv
<1>5. CASE InitAllocator
  BY <1>5, InitAllocatorInv
<1>6. CASE NextIteration
  BY <1>6, NextIterationInv
<1> HIDE DEF Goal
<1> QED
  BY <1>1, <1>2, <1>3, <1>4, <1>5, <1>6 DEF Next

(***************************************************************************)
(* For every number of nodes, threads, keys and iterations: the lists stay *)
(* apart and end, and only nodes that are not in use are on them, in every *)
(* build with one updater (GECOS, SGECOS, locks, reference counting) and   *)
(* in the RCU build with any number.                                       *)
(***************************************************************************)
THEOREM Invariance == Spec => []IInv
<1>1. Init => IInv
  BY InitInv DEF IInv
<1>2. IInv /\ [Next]_vars => IInv'
  BY NextInv, SameBuild DEF IInv, Tame
<1> QED
  BY <1>1, <1>2, PTL DEF Spec

\* What a step of the allocator does to the nodes in use.
LEMMA PoolStep ==
  ASSUME Inv, [Next]_vars
  PROVE  [Pool!Next]_users
<1> SUFFICES ASSUME users' # users PROVE Pool!Next
  BY DEF Pool!Next
<1>1. ASSUME NEW t \in Threads, NEW n \in Nodes, place[n] \notin {"held", "zombie"}, HandOut(t, n)
      PROVE  Pool!Next
  <2>1. users[n] = 0
    BY <1>1 DEF Inv, InUse
  <2>2. users' = [users EXCEPT ![n] = 1]
    BY <1>1, <2>1 DEF HandOut
  <2> QED
    BY <2>1, <2>2 DEF Pool!Next, Pool!New
<1>2. ASSUME NEW t \in Threads, Load(t) PROVE Pool!Next
  BY <1>1, <1>2 DEF Load, Heap
<1>3. ASSUME NEW t \in Threads, Pop(t) PROVE Pool!Next
  <2>1. lfl[t] \in Nodes /\ place[lfl[t]] = t
    BY <1>3 DEF Pop, Inv, TypeOK, NodePtr, HeadsInPlace, Owns
  <2> QED
    BY <1>1, <1>3, <2>1, PlaceNames DEF Pop
<1>4. ASSUME NEW t \in Threads, NEW n \in Nodes, FreeNode(t, n) PROVE Pool!Next
  <2>1. users[n] = 1
    BY <1>4 DEF FreeNode, Inv, InUse
  <2>2. users' = [users EXCEPT ![n] = 0]
    BY <1>4, <2>1 DEF FreeNode
  <2> QED
    BY <2>1, <2>2 DEF Pool!Next, Pool!Free
<1> QED
  BY <1>2, <1>3, <1>4 DEF Next, CallStep, NewNode, Swap, CallRcu, ReadFreelist, LinkTail,
       Expect, Push, InitAllocator, NextIteration, vars

(***************************************************************************)
(* new_node returns only nodes that are not in use: the allocator          *)
(* implements NodePool, if every build considered has one updater or       *)
(* updaters that do not free.                                              *)
(***************************************************************************)
THEOREM PoolSafe ==
  ASSUME \A F \in FreerSets : Tame(F)
  PROVE  Spec => PoolSpec
<1>1. Init => Pool!Init
  BY DEF Init, Pool!Init
<1>2. IInv /\ freers \in FreerSets /\ [Next]_vars => [Pool!Next]_users
  BY PoolStep DEF IInv
<1>3. Init => freers \in FreerSets
  BY DEF Init
<1>4. freers \in FreerSets /\ [Next]_vars => (freers \in FreerSets)'
  BY SameBuild
<1> QED
  BY <1>1, <1>2, <1>3, <1>4, Invariance, PTL DEF Spec, PoolSpec, Pool!Spec

(***************************************************************************)
(* The zombie lists                                                        *)
(***************************************************************************)
Zombified == Inv /\ ZombieTypeOK /\ ZombieHeads

\* With hazard pointers updaters free, so there is only one.
LEMMA OneUpdater ==
  ASSUME Zombified, Tame(freers), hp, NEW t \in Updaters
  PROVE  /\ t \in freers /\ t \in Threads /\ t \in Allocators /\ t # Main
         /\ \A s \in Updaters : s = t
BY AllocatorAssumption DEF Zombified, ZombieHeads, Tame, Threads, Allocators

\* The allocator's own steps leave the zombie lists as they are.
LEMMA AllocatorStepInv ==
  ASSUME Zombified, Tame(freers), [Next]_vars, UNCHANGED <<hp, zombieVars>>,
         scanning # {} => running'
  PROVE  Zombified'
<1>1. Inv' /\ ZombiesStay /\ NoZombieLinked /\ freers' = freers
  BY NextInv, SameBuild DEF Zombified
<1>2. ZombieTypeOK'
  BY DEF Zombified, ZombieTypeOK, zombieVars
<1>3. \A t \in Updaters : zlist[t] \in NodePtr /\ tmplist[t] \in NodePtr
  BY DEF Zombified, ZombieTypeOK
<1>4. \A n \in Nodes : Chained(n)' => mr_next'[n] # NULL
  BY DEF Chained
<1>5. ZombieHeads'
  BY <1>1, <1>3, <1>4 DEF Zombified, ZombieHeads, ZombiesStay, NoZombieLinked, zombieVars, NodePtr
<1> QED
  BY <1>1, <1>2, <1>5 DEF Zombified

\* A node nothing leads to is put in front of the zombie list.
LEMMA ZombieInFront ==
  ASSUME Zombified, NEW t \in Updaters, NEW c \in Nodes,
         place[c] \in {"held", "zombie"}, zlist[t] # c,
         \A m \in Nodes : Chained(m) => mr_next[m] # c,
         mr_next' = [mr_next EXCEPT ![c] = zlist[t]], place' = [place EXCEPT ![c] = "zombie"],
         table' = table \ {c}, retired' = retired \ {c},
         UNCHANGED <<freers, freelist, localVars, pc, users, testVars>>
  PROVE  /\ Inv' /\ mr_next'[c] = zlist[t]
         /\ \A m \in Nodes : m # c /\ Chained(m)' => Chained(m) /\ mr_next'[m] = mr_next[m]
<1> USE DEF Zombified, localVars, testVars
<1>1. /\ zlist[t] \in NodePtr
      /\ zlist[t] # NULL => place[zlist[t]] = "zombie" /\ \A m \in Nodes : Chained(m) => mr_next[m] # zlist[t]
  BY DEF ZombieTypeOK, ZombieHeads
<1>2. \A m \in Nodes : /\ place'[m] = IF m = c THEN "zombie" ELSE place[m]
                       /\ mr_next'[m] = IF m = c THEN zlist[t] ELSE mr_next[m]
  BY DEF Inv, TypeOK
<1>3. \A s \in Threads : Pushing(s)' = Pushing(s) /\ Owns(s)' = Owns(s)
  BY DEF Pushing, Owns
<1>4. \A m \in Nodes : m # c /\ Chained(m)' => Chained(m) /\ mr_next'[m] = mr_next[m]
  <2>1. \A m \in Nodes : m # c => Loose(m)' = Loose(m)
    BY <1>2, <1>3 DEF Loose
  <2> QED
    BY <1>2, <2>1 DEF Chained
<1>5. Chained(c)' => mr_next'[c] = zlist[t] /\ zlist[t] \in Nodes /\ place[zlist[t]] = "zombie"
  <2>1. Chained(c)' => zlist[t] # NULL
    BY <1>2 DEF Chained
  <2> QED
    BY <1>1, <1>2, <2>1 DEF NodePtr
<1>6. TypeOK'
  <2>1. place' \in [Nodes -> Places] /\ mr_next' \in [Nodes -> NodePtr]
    BY <1>1 DEF Inv, TypeOK, Places
  <2> QED
    BY <2>1 DEF Inv, TypeOK
<1>7. HeadsInPlace'
  <2>1. freelist # NULL => freelist # c /\ freelist \in Nodes
    BY DEF Inv, HeadsInPlace, TypeOK, NodePtr
  <2>2. \A s \in Threads : Owns(s) /\ lfl[s] # NULL => lfl[s] # c /\ lfl[s] \in Nodes /\ place[lfl[s]] = s
    BY PlaceNames DEF Inv, HeadsInPlace, TypeOK, NodePtr
  <2>3. \A m \in Nodes : Chained(m)' =>
          mr_next'[m] # freelist /\ \A s \in Threads : Owns(s) => mr_next'[m] # lfl[s]
    <3> SUFFICES ASSUME NEW m \in Nodes, Chained(m)'
                 PROVE  mr_next'[m] # freelist /\ \A s \in Threads : Owns(s) => mr_next'[m] # lfl[s]
      OBVIOUS
    <3>1. CASE m = c
      BY <1>5, <2>2, <3>1, PlaceNames DEF Inv, HeadsInPlace
    <3>2. CASE m # c
      BY <1>4, <3>2 DEF Inv, HeadsInPlace
    <3> QED
      BY <3>1, <3>2
  <2>4. freelist # NULL => place'[freelist] = "shared"
    BY <1>2, <2>1 DEF Inv, HeadsInPlace
  <2>5. \A s \in Threads : Owns(s) /\ lfl[s] # NULL => place'[lfl[s]] = s
    BY <1>2, <2>2
  <2> QED
    BY <1>3, <2>3, <2>4, <2>5 DEF Inv, HeadsInPlace
<1>8. LinksInPlace'
  <2>1. \A m \in Nodes : Chained(m)' /\ m # c =>
          mr_next[m] # c /\ mr_next[m] # zlist[t] /\ mr_next[m] \in Nodes
    <3>1. \A m \in Nodes : Chained(m) => mr_next[m] \in Nodes
      BY DEF Chained, Inv, TypeOK, NodePtr
    <3> QED
      BY <1>1, <1>4, <3>1, PlaceNames
  <2>2. \A m \in Nodes : Chained(m)' => place'[mr_next'[m]] = place'[m]
    BY <1>2, <1>4, <1>5, <2>1 DEF Inv, LinksInPlace
  <2> QED
    BY <1>4, <1>5, <2>1, <2>2 DEF Inv, LinksInPlace
<1>9. Acyclic'
  BY <1>2, <1>4, AcyclicInFront DEF Inv
<1>10. TailsInPlace'
  <2>1. \A s \in Threads : lfl_tail[s] # NULL =>
          lfl_tail[s] \in Nodes /\ (s \notin Updaters => lfl_tail[s] # c)
    BY PlaceNames DEF Inv, TailsInPlace, TypeOK, NodePtr
  <2> QED
    BY <1>2, <1>3, <2>1 DEF Inv, TailsInPlace
<1>11. InUse'
  <2>1. \A m \in table \cup retired : m \in Nodes
    BY DEF Inv, TypeOK
  <2> QED
    BY <1>2, <2>1 DEF Inv, InUse
<1>12. Phases'
  BY DEF Inv, Phases
<1> QED
  BY <1>2, <1>4, <1>6, <1>7, <1>8, <1>9, <1>10, <1>11, <1>12 DEF Inv

\* free_node_later puts a node of the table on the zombie list, and a scan
\* starts with the whole of it.
LEMMA FreeNodeLaterInv ==
  ASSUME Zombified, Tame(freers), hp, hp' = hp, NEW t \in Updaters, t \notin scanning,
         NEW n \in Nodes, FreeNodeLater(t, n)
  PROVE  Zombified'
<1> USE DEF FreeNodeLater, RetireKeeping
<1>0. place[n] = "held" /\ n \notin retired
  BY DEF Zombified, Inv, InUse
<1>1. \A m \in Nodes : Chained(m) => mr_next[m] # n
  BY <1>0 DEF Chained, Zombified, Inv, LinksInPlace
<1>2. zlist[t] # n /\ tmplist[t] # n
  BY <1>0, PlaceNames DEF Zombified, ZombieHeads
<1>3. retired' = retired \ {n}
  BY <1>0
<1>4. /\ Inv' /\ mr_next'[n] = zlist[t]
      /\ \A m \in Nodes : m # n /\ Chained(m)' => Chained(m) /\ mr_next'[m] = mr_next[m]
  BY <1>0, <1>1, <1>2, <1>3, ZombieInFront
<1>5. ZombieTypeOK'
  <2>1. zlist' \in [Updaters -> NodePtr] /\ tmplist' \in [Updaters -> NodePtr] /\ scanning' \subseteq Updaters
    BY DEF Zombified, ZombieTypeOK, NodePtr
  <2>2. number' \in [Updaters -> Nat]
    BY DEF Zombified, ZombieTypeOK
  <2> QED
    BY <2>1, <2>2 DEF Zombified, ZombieTypeOK
<1>6. \A m \in Nodes : place'[m] = IF m = n THEN "zombie" ELSE place[m]
  BY DEF Zombified, Inv, TypeOK
<1>7. \A m \in Nodes : Chained(m)' => mr_next'[m] # NULL /\ mr_next'[m] # n
  BY <1>1, <1>2, <1>4 DEF Chained
<1>8. tmplist[t] \in NodePtr /\ zlist[t] \in NodePtr
  BY DEF Zombified, ZombieTypeOK
<1>9. CASE number[t] + 1 > R
  <2>1. zlist'[t] = NULL /\ tmplist'[t] = n
    BY <1>9 DEF Zombified, ZombieTypeOK
  <2> QED
    BY <1>4, <1>5, <1>6, <1>7, <2>1, OneUpdater DEF Zombified, ZombieHeads, testVars
<1>10. CASE ~(number[t] + 1 > R)
  <2>1. zlist'[t] = n /\ tmplist'[t] = tmplist[t] /\ scanning' = scanning
    BY <1>10 DEF Zombified, ZombieTypeOK
  <2>2. \A m \in Nodes : Chained(m)' => mr_next'[m] # tmplist[t]
    BY <1>4, <1>7 DEF Zombified, ZombieHeads
  <2>3. tmplist[t] # NULL => place'[tmplist[t]] = "zombie"
    BY <1>6, <1>8 DEF Zombified, ZombieHeads, NodePtr
  <2> QED
    BY <1>2, <1>4, <1>5, <1>6, <1>7, <2>1, <2>2, <2>3, OneUpdater DEF Zombified, ZombieHeads, testVars
<1> QED
  BY <1>9, <1>10

\* What scan looks at next is on no list, and what follows it leads nowhere else.
LEMMA NextZombie ==
  ASSUME Zombified, Tame(freers), hp, NEW t \in Updaters, pc[t] = "idle", NEW n \in Nodes, n = tmplist[t]
  PROVE  /\ place[n] = "zombie" /\ n # NULL /\ n # zlist[t] /\ ~Loose(n)
         /\ \A m \in Nodes : Chained(m) => mr_next[m] # n
         /\ mr_next[n] # NULL => /\ mr_next[n] \in Nodes /\ place[mr_next[n]] = "zombie"
                                 /\ mr_next[n] # n /\ mr_next[n] # zlist[t]
                                 /\ \A m \in Nodes : Chained(m) /\ m # n => mr_next[m] # mr_next[n]
<1>1. /\ place[n] = "zombie" /\ n # NULL /\ n # zlist[t]
      /\ \A m \in Nodes : Chained(m) => mr_next[m] # n /\ mr_next[m] # zlist[t]
  BY PlaceNames DEF Zombified, ZombieHeads
<1>2. ~Loose(n)
  BY <1>1, OneUpdater, NotLoose DEF Zombified
<1>3. mr_next[n] # NULL => Chained(n)
  BY <1>1, <1>2 DEF Chained
<1> QED
  BY <1>1, <1>2, <1>3 DEF Zombified, Inv, TypeOK, LinksInPlace, NodePtr

\* A zombie some slot names goes back on the list.
LEMMA KeepZombieInv ==
  ASSUME Zombified, Tame(freers), hp, hp' = hp, NEW t \in Updaters, KeepZombie(t)
  PROVE  Zombified'
<1>a. PICK n \in Nodes : n = tmplist[t]
  BY DEF KeepZombie, PopZombie, Zombified, ZombieTypeOK, NodePtr
<1>0. /\ t \in scanning /\ pc[t] = "idle" /\ tmplist' = [tmplist EXCEPT ![t] = mr_next[n]]
      /\ mr_next' = [mr_next EXCEPT ![n] = zlist[t]]
      /\ zlist' = [zlist EXCEPT ![t] = n] /\ number' = [number EXCEPT ![t] = @ + 1]
      /\ UNCHANGED <<freers, freelist, localVars, pc, place, users, table, retired, testVars, scanning>>
  BY <1>a DEF KeepZombie, PopZombie
<1>1. /\ place[n] = "zombie" /\ n # NULL /\ n # zlist[t]
      /\ \A m \in Nodes : Chained(m) => mr_next[m] # n
      /\ mr_next[n] # NULL => /\ mr_next[n] \in Nodes /\ place[mr_next[n]] = "zombie"
                              /\ mr_next[n] # n /\ mr_next[n] # zlist[t]
                              /\ \A m \in Nodes : Chained(m) /\ m # n => mr_next[m] # mr_next[n]
  BY <1>a, <1>0, NextZombie
<1>2. place' = [place EXCEPT ![n] = "zombie"] /\ table' = table \ {n} /\ retired' = retired \ {n}
  BY <1>0, <1>1 DEF Zombified, Inv, TypeOK, InUse
<1>3. /\ Inv' /\ mr_next'[n] = zlist[t]
      /\ \A m \in Nodes : m # n /\ Chained(m)' => Chained(m) /\ mr_next'[m] = mr_next[m]
  BY <1>0, <1>1, <1>2, ZombieInFront
<1>4. zlist'[t] = n /\ tmplist'[t] = mr_next[n] /\ mr_next[n] \in NodePtr
  BY <1>0 DEF Zombified, ZombieTypeOK, Inv, TypeOK
<1>5. ZombieTypeOK'
  <2>1. zlist' \in [Updaters -> NodePtr] /\ tmplist' \in [Updaters -> NodePtr]
    BY <1>0, <1>4 DEF Zombified, ZombieTypeOK, NodePtr
  <2>2. number' \in [Updaters -> Nat]
    BY <1>0 DEF Zombified, ZombieTypeOK
  <2> QED
    BY <1>0, <2>1, <2>2 DEF Zombified, ZombieTypeOK
<1>6. \A m \in Nodes : Chained(m)' => mr_next'[m] # NULL /\ mr_next'[m] # n /\ mr_next'[m] # mr_next[n]
  BY <1>1, <1>3 DEF Chained
<1>7. ZombieHeads'
  BY <1>0, <1>1, <1>4, <1>6, OneUpdater DEF Zombified, ZombieHeads, testVars
<1> QED
  BY <1>3, <1>5, <1>7 DEF Zombified

\* A zombie no slot names is freed; it may be one that was freed before and
\* that a stale tail has led the zombie list to.
LEMMA FreeZombieInv ==
  ASSUME Zombified, Tame(freers), hp, hp' = hp, NEW t \in Updaters, FreeZombie(t)
  PROVE  Zombified'
<1>a. PICK n \in Nodes : n = tmplist[t]
  BY DEF FreeZombie, PopZombie, Zombified, ZombieTypeOK, NodePtr
<1>0. /\ t \in scanning /\ pc[t] = "idle" /\ tmplist' = [tmplist EXCEPT ![t] = mr_next[n]]
      /\ AddFree(t, n) /\ users' = [users EXCEPT ![n] = 0]
      /\ UNCHANGED <<table, retired, zlist, number, scanning>>
  BY <1>a DEF FreeZombie, Release, PopZombie
<1>1. /\ place[n] = "zombie" /\ n # NULL /\ n # zlist[t]
      /\ \A m \in Nodes : Chained(m) => mr_next[m] # n
      /\ mr_next[n] # NULL => /\ mr_next[n] \in Nodes /\ place[mr_next[n]] = "zombie"
                              /\ mr_next[n] # n /\ mr_next[n] # zlist[t]
                              /\ \A m \in Nodes : Chained(m) /\ m # n => mr_next[m] # mr_next[n]
  BY <1>a, <1>0, NextZombie
<1>2. users' = [users EXCEPT ![n] = 0] /\ table' = table \ {n} /\ retired' = retired \ {n}
  <2>1. n \notin table /\ n \notin retired
    BY <1>1 DEF Zombified, Inv, InUse
  <2>2. table = table \ {n} /\ retired = retired \ {n}
    BY <2>1
  <2> QED
    BY <1>0, <2>2
<1>3. t \in freers /\ t \in Threads /\ t # Main /\ running
  BY <1>0, OneUpdater DEF Zombified, ZombieHeads
<1>4. Phases'
  <2>1. pc' = [pc EXCEPT ![t] = pc'[t]] /\ pc'[t] \in {"read", "idle"} /\ UNCHANGED <<running, todo>>
    BY <1>0, <1>3 DEF AddFree, GoTo, testVars, Zombified, Inv, TypeOK
  <2>2. pc[Main] = "idle" /\ todo = 0 /\ pc'[Main] = pc[Main] /\ \A s \in Threads : s # t => pc'[s] = pc[s]
    BY <1>3, <2>1 DEF Zombified, Inv, TypeOK, Phases, Threads
  <2> QED
    BY <1>3, <2>1, <2>2 DEF Zombified, Inv, Phases
<1>5. Inv' /\ NoZombieLinked /\ (Chained(n)' => place[mr_next'[n]] = t)
  BY <1>0, <1>1, <1>2, <1>3, <1>4, AddFreeInv DEF Zombified
<1>6. /\ \A m \in Nodes : place'[m] = IF m = n THEN t ELSE place[m]
      /\ mr_next' = [mr_next EXCEPT ![n] = lfl[t]]
      /\ UNCHANGED <<freers, running>>
  BY <1>0 DEF AddFree, testVars, Zombified, Inv, TypeOK
<1>7. tmplist'[t] = mr_next[n] /\ mr_next[n] \in NodePtr /\ zlist[t] \in NodePtr
  BY <1>0 DEF Zombified, ZombieTypeOK, Inv, TypeOK
<1>8. ZombieTypeOK'
  BY <1>0, <1>7 DEF Zombified, ZombieTypeOK, NodePtr
<1>9. \A m \in Nodes : Chained(m)' => /\ mr_next'[m] # NULL /\ mr_next'[m] # zlist[t]
                                      /\ mr_next'[m] # mr_next[n]
  <2> SUFFICES ASSUME NEW m \in Nodes, Chained(m)'
               PROVE  mr_next'[m] # NULL /\ mr_next'[m] # zlist[t] /\ mr_next'[m] # mr_next[n]
    OBVIOUS
  <2>0. mr_next'[m] # NULL
    BY DEF Chained
  <2>1. CASE place[mr_next'[m]] # "zombie"
    BY <1>1, <2>0, <2>1 DEF Zombified, ZombieHeads
  <2>2. CASE place[mr_next'[m]] = "zombie"
    <3>1. m # n /\ Chained(m) /\ mr_next'[m] = mr_next[m]
      BY <1>3, <1>5, <2>2, PlaceNames DEF NoZombieLinked
    <3> QED
      BY <1>1, <2>0, <3>1 DEF Zombified, ZombieHeads
  <2> QED
    BY <2>1, <2>2
<1>10. ZombieHeads'
  <2>1. zlist[t] # NULL => place'[zlist[t]] = "zombie" /\ zlist[t] # mr_next[n]
    BY <1>1, <1>6, <1>7 DEF Zombified, ZombieHeads, NodePtr
  <2>2. mr_next[n] # NULL => place'[mr_next[n]] = "zombie"
    BY <1>1, <1>6
  <2> QED
    BY <1>0, <1>6, <1>7, <1>9, <2>1, <2>2, OneUpdater DEF Zombified, ZombieHeads
<1> QED
  BY <1>5, <1>8, <1>10 DEF Zombified

\* Every step of the allocator and of scan preserves the invariant.
LEMMA ZombieStepInv ==
  ASSUME Zombified, Tame(freers), [ZombieNext]_allVars
  PROVE  Zombified' /\ freers' = freers
<1>1. ASSUME [Next]_vars, UNCHANGED <<hp, zombieVars>>, scanning # {} => running'
      PROVE  Zombified' /\ freers' = freers
  BY <1>1, AllocatorStepInv, SameBuild
<1>2. CASE UNCHANGED allVars
  <2>1. UNCHANGED vars /\ UNCHANGED <<hp, zombieVars>> /\ running' = running
    BY <1>2 DEF allVars, vars, testVars
  <2> QED
    BY <1>1, <2>1 DEF Zombified, ZombieHeads
<1>3. ASSUME NEW t \in Threads, NodeStep(t), UNCHANGED <<hp, zombieVars>>
      PROVE  Zombified' /\ freers' = freers
  <2>1. Next
    BY <1>3 DEF NodeStep, Next
  <2>2. running' = running
    BY <1>3 DEF NodeStep, NewNode, CallStep, Load, Swap, Pop, ReadFreelist, LinkTail, Expect, Push,
                FreeNode, AddFree, CallRcu, testVars
  <2> QED
    BY <1>1, <1>3, <2>1, <2>2 DEF Zombified, ZombieHeads
<1>4. CASE InitAllocator /\ UNCHANGED <<hp, zombieVars>>
  <2>1. Next /\ running'
    BY <1>4 DEF Next, InitAllocator
  <2> QED
    BY <1>1, <1>4, <2>1
<1>5. CASE NextIteration /\ scanning = {} /\ UNCHANGED <<hp, zombieVars>>
  <2>1. Next
    BY <1>5 DEF Next
  <2> QED
    BY <1>1, <1>5, <2>1
<1>6. ASSUME hp, hp' = hp, NEW t \in Updaters, ScanStep(t)
      PROVE  Zombified' /\ freers' = freers
  <2>1. CASE KeepZombie(t)
    BY <1>6, <2>1, KeepZombieInv DEF KeepZombie
  <2>2. CASE FreeZombie(t)
    BY <1>6, <2>2, FreeZombieInv DEF FreeZombie, Release, AddFree
  <2>3. CASE ScanDone(t)
    <3>1. UNCHANGED vars /\ UNCHANGED <<zlist, tmplist, number>> /\ scanning' \subseteq scanning
      BY <2>3 DEF ScanDone
    <3>2. Inv' /\ ZombiesStay /\ NoZombieLinked /\ freers' = freers /\ running' = running
      BY <3>1, StutterInv DEF vars, testVars, Zombified
    <3>3. \A n \in Nodes : Chained(n)' => Chained(n) /\ mr_next'[n] = mr_next[n]
      BY <3>1 DEF vars, localVars, Chained, Loose, Pushing
    <3>4. place' = place
      BY <3>1 DEF vars
    <3> QED
      BY <1>6, <3>1, <3>2, <3>3, <3>4 DEF Zombified, ZombieTypeOK, ZombieHeads
  <2> QED
    BY <1>6, <2>1, <2>2, <2>3 DEF ScanStep
<1>7. ASSUME hp, hp' = hp, NEW t \in Updaters, t \notin scanning, NEW n \in Nodes, FreeNodeLater(t, n)
      PROVE  Zombified' /\ freers' = freers
  BY <1>7, FreeNodeLaterInv DEF FreeNodeLater, RetireKeeping
<1> QED
  BY <1>2, <1>3, <1>4, <1>5, <1>6, <1>7 DEF ZombieNext

(***************************************************************************)
(* The zombie lists of hp.c and the free lists of allocator_malloc.c are   *)
(* linked through the same field and stay apart, for every R, number of    *)
(* nodes, threads and iterations, although a push in the middle of a scan  *)
(* writes mr_next of a zombie the scan has not come to: a node is in the   *)
(* table, a zombie, or on one free list.                                   *)
(***************************************************************************)
THEOREM ZombieInvariance == ZombieSpec => []ZombieInv
<1>1. ZombieInit => ZombieInv
  <2> SUFFICES ASSUME ZombieInit PROVE Zombified
    BY DEF ZombieInv, Zombified
  <2>1. Inv /\ \A n \in Nodes : ~Chained(n)
    BY InitInv DEF ZombieInit, Init, Chained
  <2>2. ZombieTypeOK /\ ZombieHeads
    BY <2>1 DEF ZombieInit, ZombieTypeOK, ZombieHeads, NodePtr
  <2> QED
    BY <2>1, <2>2 DEF Zombified
<1>2. ZombieInv /\ [ZombieNext]_allVars => ZombieInv'
  <2>1. [ZombieNext]_allVars => freers' = freers
    BY SameBuild DEF ZombieNext, NodeStep, Next, ScanStep, KeepZombie, FreeZombie, Release, AddFree,
                     ScanDone, FreeNodeLater, RetireKeeping, allVars, vars
  <2>2. Zombified /\ Tame(freers) /\ [ZombieNext]_allVars => Zombified'
    BY ZombieStepInv
  <2> QED
    BY <2>1, <2>2 DEF ZombieInv, Zombified, Tame
<1> QED
  BY <1>1, <1>2, PTL DEF ZombieSpec

(***************************************************************************)
(* The loop of scan (hp.c:91) walks a list that ends.                      *)
(***************************************************************************)
THEOREM ScansEnd ==
  ASSUME \A F \in FreerSets : Tame(F)
  PROVE  ZombieSpec => []ScanEnds
<1>1. ASSUME Zombified, Tame(freers) PROVE ScanEnds
  <2> SUFFICES ASSUME NEW t \in scanning, pc[t] = "idle", NEW S \in SUBSET Nodes, tmplist[t] \in S
               PROVE  \E n \in S : mr_next[n] \notin S
    BY DEF ScanEnds
  <2> DEFINE T == {n \in S : place[n] = "zombie"}
  <2>1. t \in Updaters /\ hp
    BY <1>1 DEF Zombified, ZombieTypeOK, ZombieHeads
  <2>2. tmplist[t] \in T
    BY <1>1, <2>1, PlaceNames DEF Zombified, ZombieHeads
  <2>3. PICK n \in T : Chained(n) => mr_next[n] \notin T
    BY <1>1, <2>2 DEF Zombified, Inv, Acyclic
  <2>4. ~Loose(n)
    BY <1>1, <2>1, <2>3, OneUpdater, NotLoose DEF Zombified
  <2>5. Chained(n) => place[mr_next[n]] = "zombie"
    BY <1>1, <2>3 DEF Zombified, Inv, LinksInPlace
  <2>6. ~Chained(n) => mr_next[n] = NULL
    BY <2>3, <2>4 DEF Chained
  <2> QED
    BY <2>3, <2>5, <2>6, PlaceNames
<1>2. ZombieInv /\ freers \in FreerSets => ScanEnds
  BY <1>1 DEF ZombieInv, Zombified
<1>3. ZombieInit => freers \in FreerSets
  BY DEF ZombieInit, Init
<1>4. freers \in FreerSets /\ ZombieInv /\ [ZombieNext]_allVars => (freers \in FreerSets)'
  BY ZombieStepInv DEF ZombieInv, Zombified
<1> QED
  BY <1>2, <1>3, <1>4, ZombieInvariance, PTL DEF ZombieSpec

(***************************************************************************)
(* With the zombie lists in between, too, new_node returns only nodes that *)
(* are not in use.  A node that scan frees a second time stays with nobody *)
(* until it is returned again.                                             *)
(***************************************************************************)
THEOREM ZombiePoolSafe ==
  ASSUME \A F \in FreerSets : Tame(F)
  PROVE  ZombieSpec => PoolSpec
<1>1. ZombieInit => Pool!Init /\ freers \in FreerSets
  BY DEF ZombieInit, Init, Pool!Init
<1>2. ASSUME Zombified, [ZombieNext]_allVars PROVE [Pool!Next]_users
  <2>1. CASE [Next]_vars
    BY <1>2, <2>1, PoolStep DEF Zombified
  <2>2. ASSUME NEW t \in Updaters, FreeZombie(t) PROVE [Pool!Next]_users
    <3>1. PICK n \in Nodes : n = tmplist[t]
      BY <1>2, <2>2 DEF FreeZombie, PopZombie, Zombified, ZombieTypeOK, NodePtr
    <3>2. users' = [users EXCEPT ![n] = 0]
      BY <2>2, <3>1 DEF FreeZombie, Release
    <3>3. CASE users[n] = 0
      <4>1. users' = users
        BY <1>2, <3>2, <3>3 DEF Zombified, Inv, TypeOK
      <4> QED
        BY <4>1
    <3>4. CASE users[n] = 1
      BY <3>2, <3>4 DEF Pool!Next, Pool!Free
    <3> QED
      BY <1>2, <3>3, <3>4 DEF Zombified, Inv, InUse
  <2>3. CASE UNCHANGED users
    BY <2>3
  <2> QED
    BY <1>2, <2>1, <2>2, <2>3 DEF ZombieNext, NodeStep, Next, ScanStep, KeepZombie, ScanDone,
                                  FreeNodeLater, RetireKeeping, allVars, vars
<1>3. ZombieInv /\ freers \in FreerSets /\ [ZombieNext]_allVars => [Pool!Next]_users
  BY <1>2 DEF ZombieInv, Zombified
<1>4. freers \in FreerSets /\ ZombieInv /\ [ZombieNext]_allVars => (freers \in FreerSets)'
  BY ZombieStepInv DEF ZombieInv, Zombified
<1> QED
  BY <1>1, <1>3, <1>4, ZombieInvariance, PTL DEF ZombieSpec, PoolSpec, Pool!Spec

\* Only free_node counts lcnt up.
LEMMA FreesOnly ==
  ASSUME Zombified, Tame(freers), ZombieNext, NEW t \in Threads, NEW n \in Nodes, Frees(t, n)
  PROVE  \/ FreeNode(t, n)
         \/ hp /\ t \in Updaters /\ FreeZombie(t) /\ n = tmplist[t]
<1>0. lcnt \in [Threads -> Nat] /\ lfl \in [Threads -> NodePtr]
  BY DEF Zombified, Inv, TypeOK
<1>1. ASSUME lcnt'[t] = lcnt[t] \/ lcnt'[t] = 0 PROVE FALSE
  <2>1. lcnt[t] \in Nat /\ lcnt'[t] = lcnt[t] + 1
    BY <1>0 DEF Frees
  <2> QED
    BY <1>1, <2>1
<1>2. ASSUME NEW s \in Threads, NewNode(s) \/ CallStep(s) PROVE FALSE
  BY <1>0, <1>1, <1>2 DEF NewNode, CallStep, Load, Swap, Pop, ReadFreelist, LinkTail, Expect, Push,
                          HandOut, localVars
<1>3. CASE InitAllocator \/ NextIteration
  BY <1>0, <1>1, <1>3 DEF InitAllocator, NextIteration, localVars
<1>4. ASSUME NEW s \in Threads, NEW m \in Nodes, FreeNode(s, m) \/ CallRcu(s, m)
      PROVE  FreeNode(t, n)
  <2>1. FreeNode(s, m)
    BY <1>1, <1>4 DEF CallRcu, localVars
  <2>2. s = t
    BY <1>0, <1>1, <2>1 DEF FreeNode, AddFree
  <2>3. lfl'[t] = m
    BY <1>0, <2>1, <2>2 DEF FreeNode, AddFree
  <2> QED
    BY <2>1, <2>2, <2>3 DEF Frees
<1>5. ASSUME hp, NEW s \in Updaters, ScanStep(s)
      PROVE  t \in Updaters /\ FreeZombie(t) /\ n = tmplist[t]
  <2>1. FreeZombie(s) /\ s \in Threads
    BY <1>1, <1>5, OneUpdater DEF ScanStep, KeepZombie, ScanDone, vars, localVars
  <2>2. s = t
    BY <1>0, <1>1, <2>1 DEF FreeZombie, Release, AddFree
  <2>3. lfl'[t] = tmplist[t]
    BY <1>0, <2>1, <2>2 DEF FreeZombie, Release, AddFree
  <2> QED
    BY <1>5, <2>1, <2>2, <2>3 DEF Frees
<1>6. ASSUME NEW s \in Updaters, NEW m \in Nodes, FreeNodeLater(s, m) PROVE FALSE
  BY <1>1, <1>6 DEF FreeNodeLater, RetireKeeping, localVars
<1> QED
  BY <1>2, <1>3, <1>4, <1>5, <1>6 DEF ZombieNext, NodeStep

(***************************************************************************)
(* free_node (allocator_malloc.c:186) takes back a node that is in use, or *)
(* one on no list that scan frees a second time (hp.c:101), for every      *)
(* number of nodes, threads and iterations and every R.                    *)
(***************************************************************************)
THEOREM FreesAreOffLists ==
  ASSUME \A F \in FreerSets : Tame(F)
  PROVE  ZombieSpec => FreesOffLists
<1> DEFINE A == \A t \in Threads, n \in Nodes : Frees(t, n) => users[n] = 1 \/ (hp /\ OffLists(n))
<1>1. ZombieInit => freers \in FreerSets
  BY DEF ZombieInit, Init
<1>2. ASSUME Zombified, Tame(freers), ZombieNext, NEW t \in Threads, NEW n \in Nodes, Frees(t, n)
      PROVE  users[n] = 1 \/ (hp /\ OffLists(n))
  <2>1. CASE FreeNode(t, n)
    BY <1>2, <2>1 DEF FreeNode, Zombified, Inv, InUse
  <2>2. CASE hp /\ t \in Updaters /\ FreeZombie(t) /\ n = tmplist[t]
    <3>1. place[n] = "zombie" /\ n # NULL /\ \A m \in Nodes : Chained(m) => mr_next[m] # n
      BY <1>2, <2>2, NextZombie DEF FreeZombie, PopZombie
    <3>2. n # freelist
      BY <1>2, <3>1, PlaceNames DEF Zombified, Inv, HeadsInPlace
    <3>3. \A s \in Threads : Owns(s) => lfl[s] # n
      BY <1>2, <3>1, PlaceNames DEF Zombified, Inv, HeadsInPlace
    <3> QED
      BY <2>2, <3>1, <3>2, <3>3 DEF OffLists
  <2> QED
    BY <1>2, <2>1, <2>2, FreesOnly
<1>3. ZombieInv /\ freers \in FreerSets /\ [ZombieNext]_allVars => [A]_allVars
  BY <1>2 DEF ZombieInv, Zombified
<1>4. freers \in FreerSets /\ ZombieInv /\ [ZombieNext]_allVars => (freers \in FreerSets)'
  BY ZombieStepInv DEF ZombieInv, Zombified
<1> QED
  BY <1>1, <1>3, <1>4, ZombieInvariance, PTL DEF ZombieSpec, FreesOffLists
===============================================================================
