------------------------------- MODULE Allocator -------------------------------
(***************************************************************************)
(* allocator_malloc.c: nodes are recycled through a list local to each     *)
(* thread (lfl), refilled by taking the whole shared freelist with one     *)
(* CAS, and emptied into it, again with one CAS, every AMORT_FREE_ON       *)
(* frees.  Both are linked through mr_next.                                *)
(*                                                                         *)
(* get_free pops from lfl and leaves lfl_tail and lcnt alone, so in a      *)
(* thread that allocates as well as frees, lfl_tail may name a node that   *)
(* is no longer in lfl and may be in use, and lcnt counts frees, not the   *)
(* length of lfl.                                                          *)
(*                                                                         *)
(* The callers are those of mrow.c: the main thread populates the table of *)
(* each iteration; updaters allocate; who frees depends on the build.      *)
(* With GECOS, SGECOS, the locks and hazard pointers it is the updater,    *)
(* with RCU the thread that runs the callbacks, with reference counting    *)
(* the updater and the readers.                                            *)
(***************************************************************************)
EXTENDS Naturals

CONSTANTS
  Nodes,      \* the node_t objects calloc can produce (bounds the memory)
  Main,       \* the main thread
  Updaters,   \* the updater threads
  Others,     \* the other threads that may free: readers, RCU callbacks
  Lasting,    \* those of Others that outlive an iteration (RCU callbacks)
  FreerSets,  \* the sets of threads that free, one per build under study
  AmortFree,  \* AMORT_FREE_ON
  NbKeys,     \* nbkeys: the nodes hash_init inserts
  MaxIter,    \* bound: the iterations of test(), ITERATION in the code
  NULL

Threads    == {Main} \cup Updaters \cup Others
Allocators == {Main} \cup Updaters
Workers    == Threads \ ({Main} \cup Lasting)

ASSUME AllocatorAssumption ==
  /\ NULL \notin Nodes \cup Threads
  /\ Main \notin Updaters \cup Others
  /\ Updaters \cap Others = {}
  /\ Lasting \subseteq Others
  /\ \A F \in FreerSets : F \subseteq Updaters \cup Others
  /\ AmortFree \in Nat \ {0}
  /\ NbKeys \in Nat
  /\ MaxIter \in Nat
  /\ Threads \cap {"heap", "held", "shared", "zombie", "lost"} = {}

VARIABLES
  freers,              \* the threads that free in this build
  freelist,            \* the shared list
  mr_next,             \* node_t.mr_next
  lfl, lfl_tail, lcnt, \* thread-local
  reg,                 \* the value add_free has loaded: freelist, then the tail's link
  pc,                  \* where the thread is in new_node or free_node
  place,               \* history: "heap", "held", or the list a node is on
  users,               \* history: the calls of new_node that n was returned to
  table,               \* the nodes of this iteration's table
  retired,             \* the nodes handed to call_rcu, not yet to free_node
  iter, running, todo  \* the iteration, its threads exist, inserts before that

localVars == <<lfl, lfl_tail, lcnt, reg>>
testVars  == <<iter, running, todo>>
vars == <<freers, freelist, mr_next, localVars, pc, place, users, table, retired, testVars>>

NodePtr == Nodes \cup {NULL}
Places  == {"heap", "held", "shared", "zombie", "lost"} \cup Threads
Pc == {"idle", "load", "swap", "pop", "read", "link", "expect", "push"}

TypeOK ==
  /\ freers \in FreerSets
  /\ freelist \in NodePtr
  /\ mr_next \in [Nodes -> NodePtr]
  /\ lfl \in [Threads -> NodePtr]
  /\ lfl_tail \in [Threads -> NodePtr]
  /\ lcnt \in [Threads -> Nat]
  /\ reg \in [Threads -> NodePtr]
  /\ pc \in [Threads -> Pc]
  /\ place \in [Nodes -> Places]
  /\ users \in [Nodes -> Nat]
  /\ table \subseteq Nodes
  /\ retired \subseteq Nodes
  /\ iter \in Nat
  /\ running \in BOOLEAN
  /\ todo \in Nat

Init ==
  /\ freers \in FreerSets
  /\ freelist = NULL
  /\ mr_next = [n \in Nodes |-> NULL]
  /\ lfl = [t \in Threads |-> NULL]
  /\ lfl_tail = [t \in Threads |-> NULL]
  /\ lcnt = [t \in Threads |-> 0]
  /\ reg = [t \in Threads |-> NULL]
  /\ pc = [t \in Threads |-> "idle"]
  /\ place = [n \in Nodes |-> "heap"]
  /\ users = [n \in Nodes |-> 0]
  /\ table = {}
  /\ retired = {}
  /\ iter = 1
  /\ running = FALSE
  /\ todo = NbKeys

GoTo(t, p) == pc' = [pc EXCEPT ![t] = p]

\* A step of thread t moves all nodes of one place to another.
Move(from, to) == place' = [n \in Nodes |-> IF place[n] = from THEN to ELSE place[n]]

(***************************************************************************)
(* new_node and get_free                                                   *)
(***************************************************************************)
Heap == {n \in Nodes : place[n] = "heap"}

\* n is what new_node returns.
HandOut(t, n) ==
  /\ place' = [place EXCEPT ![n] = "held"]
  /\ users' = [users EXCEPT ![n] = @ + 1]
  /\ table' = table \cup {n}
  /\ GoTo(t, "idle")

\* insert calls new_node: the main thread in hash_init, an updater in run.
\* The bound on memory: no call is made that would find nothing left in calloc.
NewNode(t) ==
  /\ pc[t] = "idle"
  /\ \/ /\ t = Main
        /\ todo > 0
        /\ todo' = todo - 1
     \/ /\ t \in Updaters
        /\ running
        /\ UNCHANGED todo
  /\ lfl[t] = NULL /\ freelist = NULL => Heap # {}
  /\ GoTo(t, IF lfl[t] = NULL THEN "load" ELSE "pop")
  /\ UNCHANGED <<freers, freelist, mr_next, localVars, place, users, table, retired, iter, running>>

\* lfl = freelist; NULL sends new_node to calloc
Load(t) ==
  /\ pc[t] = "load"
  /\ lfl' = [lfl EXCEPT ![t] = freelist]
  /\ IF freelist = NULL
       THEN \E n \in Heap : HandOut(t, n)
       ELSE GoTo(t, "swap") /\ UNCHANGED <<place, users, table>>
  /\ UNCHANGED <<freers, freelist, mr_next, lfl_tail, lcnt, reg, retired, testVars>>

\* CAS(&freelist, lfl, NULL): the list is this thread's now, or try again.
Swap(t) ==
  /\ pc[t] = "swap"
  /\ IF freelist = lfl[t]
       THEN freelist' = NULL /\ Move("shared", t) /\ GoTo(t, "pop")
       ELSE UNCHANGED <<freelist, place>> /\ GoTo(t, "load")
  /\ UNCHANGED <<freers, mr_next, localVars, users, table, retired, testVars>>

\* node = lfl; lfl = node->mr_next
Pop(t) ==
  /\ pc[t] = "pop"
  /\ HandOut(t, lfl[t])
  /\ lfl' = [lfl EXCEPT ![t] = mr_next[lfl[t]]]
  /\ UNCHANGED <<freers, freelist, mr_next, lfl_tail, lcnt, reg, retired, testVars>>

(***************************************************************************)
(* free_node and add_free                                                  *)
(***************************************************************************)
\* The RCU build: delete leaves the node to call_rcu.
CallRcu(t, n) ==
  /\ pc[t] = "idle"
  /\ t \in Updaters
  /\ running
  /\ freers \subseteq Lasting
  /\ n \in table
  /\ table' = table \ {n}
  /\ retired' = retired \cup {n}
  /\ UNCHANGED <<freers, freelist, mr_next, localVars, pc, place, users, testVars>>

\* add_free up to the test of lcnt; all of it is local to the thread.
AddFree(t, n) ==
  /\ lfl_tail' = [lfl_tail EXCEPT ![t] = IF @ = NULL THEN n ELSE @]
  /\ mr_next' = [mr_next EXCEPT ![n] = lfl[t]]
  /\ lfl' = [lfl EXCEPT ![t] = n]
  /\ lcnt' = [lcnt EXCEPT ![t] = @ + 1]
  /\ place' = [place EXCEPT ![n] = t]
  /\ GoTo(t, IF lcnt[t] + 1 >= AmortFree THEN "read" ELSE "idle")
  /\ UNCHANGED <<freers, freelist, reg, testVars>>

\* free_node of a node of the table, or of one whose grace period is over
FreeNode(t, n) ==
  /\ pc[t] = "idle"
  /\ t \in freers
  /\ \/ t \in Lasting /\ n \in retired
     \/ t \in Workers /\ running /\ n \in table
  /\ table' = table \ {n}
  /\ retired' = retired \ {n}
  /\ users' = [users EXCEPT ![n] = @ - 1]
  /\ AddFree(t, n)

\* lfl_tail->mr_next = freelist: the load, then the store
ReadFreelist(t) ==
  /\ pc[t] = "read"
  /\ reg' = [reg EXCEPT ![t] = freelist]
  /\ GoTo(t, "link")
  /\ UNCHANGED <<freers, freelist, mr_next, lfl, lfl_tail, lcnt, place, users, table, retired, testVars>>

LinkTail(t) ==
  /\ pc[t] = "link"
  /\ mr_next' = [mr_next EXCEPT ![lfl_tail[t]] = reg[t]]
  /\ GoTo(t, "expect")
  /\ UNCHANGED <<freers, freelist, localVars, place, users, table, retired, testVars>>

\* The expected value of the CAS is read back from the tail.
Expect(t) ==
  /\ pc[t] = "expect"
  /\ reg' = [reg EXCEPT ![t] = mr_next[lfl_tail[t]]]
  /\ GoTo(t, "push")
  /\ UNCHANGED <<freers, freelist, mr_next, lfl, lfl_tail, lcnt, place, users, table, retired, testVars>>

\* Where the nodes that were on freelist are now: behind the tail, wherever
\* that is, or behind nothing.
Behind(t) ==
  LET at == place[lfl_tail[t]] IN
  IF at = t THEN "shared"
  ELSE IF mr_next[lfl_tail[t]] = freelist /\ at \notin {"heap", "held", "shared"} THEN at
  ELSE "lost"

\* The list of t becomes the shared one.
MoveBoth(t) ==
  place' = [n \in Nodes |-> IF place[n] = t THEN "shared"
                           ELSE IF place[n] = "shared" THEN Behind(t) ELSE place[n]]

\* Mutant: a plain store instead of the CAS.
PushStore(t) ==
  /\ pc[t] = "push"
  /\ reg' = [reg EXCEPT ![t] = NULL]
  /\ freelist' = lfl[t]
  /\ MoveBoth(t)
  /\ lfl_tail' = [lfl_tail EXCEPT ![t] = NULL]
  /\ lfl' = [lfl EXCEPT ![t] = NULL]
  /\ lcnt' = [lcnt EXCEPT ![t] = 0]
  /\ GoTo(t, "idle")
  /\ UNCHANGED <<freers, mr_next, users, table, retired, testVars>>

\* Mutant: a failed CAS is tried again with the same expected value.
PushSpins(t) ==
  /\ pc[t] = "push"
  /\ IF freelist = reg[t]
       THEN /\ reg' = [reg EXCEPT ![t] = NULL]
            /\ freelist' = lfl[t]
            /\ MoveBoth(t)
            /\ lfl_tail' = [lfl_tail EXCEPT ![t] = NULL]
            /\ lfl' = [lfl EXCEPT ![t] = NULL]
            /\ lcnt' = [lcnt EXCEPT ![t] = 0]
            /\ GoTo(t, "idle")
       ELSE UNCHANGED <<reg, freelist, place, lfl, lfl_tail, lcnt, pc>>
  /\ UNCHANGED <<freers, mr_next, users, table, retired, testVars>>

\* CAS(&freelist, lfl_tail->mr_next, lfl); a failure links the tail again.
Push(t) ==
  /\ pc[t] = "push"
  /\ reg' = [reg EXCEPT ![t] = NULL]
  /\ IF freelist = reg[t]
       THEN /\ freelist' = lfl[t]
            /\ MoveBoth(t)
            /\ lfl_tail' = [lfl_tail EXCEPT ![t] = NULL]
            /\ lfl' = [lfl EXCEPT ![t] = NULL]
            /\ lcnt' = [lcnt EXCEPT ![t] = 0]
            /\ GoTo(t, "idle")
       ELSE /\ GoTo(t, "read")
            /\ UNCHANGED <<freelist, place, lfl, lfl_tail, lcnt>>
  /\ UNCHANGED <<freers, mr_next, users, table, retired, testVars>>

(***************************************************************************)
(* test(): hash_init, init_allocator, then the threads.  The table is not  *)
(* deleted at the end, and the lists of the threads die with them.         *)
(***************************************************************************)
InitAllocator ==
  /\ ~running
  /\ todo = 0
  /\ pc[Main] = "idle"
  /\ freelist' = NULL
  /\ running' = TRUE
  /\ UNCHANGED <<freers, mr_next, localVars, pc, place, users, table, retired, iter, todo>>

NextIteration ==
  /\ running
  /\ iter < MaxIter
  /\ \A t \in Workers : pc[t] = "idle"
  /\ iter' = iter + 1
  /\ running' = FALSE
  /\ todo' = NbKeys
  /\ table' = {}
  /\ lfl' = [t \in Threads |-> IF t \in Workers THEN NULL ELSE lfl[t]]
  /\ lfl_tail' = [t \in Threads |-> IF t \in Workers THEN NULL ELSE lfl_tail[t]]
  /\ lcnt' = [t \in Threads |-> IF t \in Workers THEN 0 ELSE lcnt[t]]
  /\ UNCHANGED <<freers, freelist, mr_next, reg, pc, place, users, retired>>

\* A call of new_node or free_node that was made goes on.
CallStep(t) ==
  \/ Load(t) \/ Swap(t) \/ Pop(t)
  \/ ReadFreelist(t) \/ LinkTail(t) \/ Expect(t) \/ Push(t)

Next ==
  \/ \E t \in Threads :
       \/ NewNode(t)
       \/ CallStep(t)
       \/ \E n \in Nodes : FreeNode(t, n) \/ CallRcu(t, n)
  \/ InitAllocator
  \/ NextIteration

Spec == Init /\ [][Next]_vars

\* A thread inside the allocator is not descheduled for ever.
FairSpec == Spec /\ \A t \in Threads : WF_vars(CallStep(t))

(***************************************************************************)
(* Properties                                                              *)
(***************************************************************************)
(***************************************************************************)
(* new_node (allocator_malloc.c:173) never returns a node that is still in *)
(* use, whatever else is being pushed on or taken off the lists.  What     *)
(* free_node takes back is in use here by its guard; scan of hp.c calls it *)
(* for other nodes too, see FreesOffLists.                                 *)
(***************************************************************************)
Pool == INSTANCE NodePool
PoolSpec == Pool!Spec

\* There is one updater, or updaters do not free.
Tame(F) == F \cap Updaters = {} \/ \A s, t \in Updaters : s = t

\* A thread that allocates is the only one that frees, or does not free.
\* Reference counting is the build in which this is not so.
Unmixed(F) == F \cap Allocators = {} \/ \E t \in Threads : F = {t}

(***************************************************************************)
(* Every call of new_node (the loop at allocator_malloc.c:90) and of       *)
(* free_node (:142) returns: its CAS cannot fail for ever.  With reference *)
(* counting an updater that keeps pushing may starve a reader's push.      *)
(***************************************************************************)
CallsReturn ==
  \A t \in Threads : (Unmixed(freers) /\ pc[t] # "idle") ~> (pc[t] = "idle")

(***************************************************************************)
(* The inductive invariant.  A list is described by the place of its nodes *)
(* rather than by what can be reached from its head: it may hold nodes     *)
(* that were cut off (leaked), but never one that is somewhere else.       *)
(***************************************************************************)
\* lfl is the thread's own, except while it is a guess at freelist.
Owns(t) == pc[t] \notin {"load", "swap"}

\* n is used as the tail of a list on its way to freelist, and its link is
\* the guess at freelist the thread is about to try, or will be replaced.
Pushing(t) == pc[t] \in {"read", "link", "expect", "push"}
Loose(n) ==
  \E t \in Threads : Pushing(t) /\ lfl_tail[t] = n /\ (pc[t] = "push" => reg[t] = mr_next[n])

\* n is on a list, and its link is one that get_free or scan will follow.
Chained(n) == place[n] \notin {"heap", "held", "lost"} /\ ~Loose(n) /\ mr_next[n] # NULL

\* The heads name nodes of their lists, and nothing precedes a head.
HeadsInPlace ==
  /\ freelist # NULL => place[freelist] = "shared"
  /\ \A t \in Threads : Owns(t) /\ lfl[t] # NULL => place[lfl[t]] = t
  /\ \A t \in Threads : pc[t] \in {"swap", "pop"} => lfl[t] # NULL
  /\ \A n \in Nodes : Chained(n) =>
       /\ mr_next[n] # freelist
       /\ \A t \in Threads : Owns(t) => mr_next[n] # lfl[t]

\* A list is a list: links stay inside it, no two of them meet, and no set of
\* nodes leads round and round.
LinksInPlace ==
  /\ \A n \in Nodes : Chained(n) => place[mr_next[n]] = place[n]
  /\ \A m, n \in Nodes : Chained(m) /\ Chained(n) /\ mr_next[m] = mr_next[n] => m = n

Acyclic ==
  \A S \in SUBSET Nodes : S # {} => \E n \in S : Chained(n) => mr_next[n] \notin S

(***************************************************************************)
(* The tail of a thread that does not allocate is on its own list.  That   *)
(* of an updater may be anywhere: in use, a zombie, on the list of another *)
(* thread or on the shared one.                                            *)
(***************************************************************************)
TailsInPlace ==
  /\ \A t \in Threads : lfl_tail[t] # NULL =>
       t \in freers /\ (t \notin Updaters => place[lfl_tail[t]] = t)
  /\ \A t \in Threads : Pushing(t) => lfl_tail[t] # NULL /\ lfl[t] # NULL

\* The main thread allocates while there are no others, and does not free.
Phases ==
  /\ running => todo = 0 /\ pc[Main] = "idle"
  /\ ~running => \A t \in Workers : pc[t] = "idle"
  /\ \A t \in Threads : pc[t] \in {"load", "swap", "pop"} => t \in Allocators

InUse ==
  /\ \A n \in Nodes : users[n] = 1 \/ users[n] = 0
  /\ \A n \in Nodes : place[n] = "held" => users[n] = 1
  /\ \A n \in Nodes : users[n] = 1 => place[n] \in {"held", "zombie"}
  /\ \A n \in table \cup retired : place[n] = "held"
  /\ table \cap retired = {}

Inv == TypeOK /\ HeadsInPlace /\ LinksInPlace /\ Acyclic /\ TailsInPlace /\ Phases /\ InUse

IInv == Tame(freers) => Inv
===============================================================================
