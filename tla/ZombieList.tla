------------------------------ MODULE ZombieList ------------------------------
(***************************************************************************)
(* The zombie list of the hazard pointer build (hp.c) on top of the        *)
(* allocator.  Zombies are linked through mr_next, the field the free      *)
(* lists use: scan frees while it walks, and the push that add_free does   *)
(* every AMORT_FREE_ON frees stores through a tail that may be a zombie    *)
(* scan has not come to yet.                                               *)
(*                                                                         *)
(* What scan finds in HP is left open: any node may be named by a slot.    *)
(***************************************************************************)
EXTENDS Allocator

CONSTANTS
  R,          \* R of hp.h
  WithHP      \* the builds under study: FALSE any other, TRUE hazard pointers

ASSUME ZombieAssumption == R \in Nat /\ WithHP \subseteq BOOLEAN

VARIABLES
  hp,                  \* this is the hazard pointer build
  zlist, number,       \* zlist[thread].p and .number, which outlive the thread
  scanning, tmplist    \* the threads in scan; what each has yet to look at

zombieVars == <<zlist, number, scanning, tmplist>>
allVars    == <<vars, hp, zombieVars>>

ZombieTypeOK ==
  /\ hp \in WithHP
  /\ zlist \in [Updaters -> NodePtr]
  /\ number \in [Updaters -> Nat]
  /\ scanning \subseteq Updaters
  /\ tmplist \in [Updaters -> NodePtr]

\* Only updaters free in this build.
ZombieInit ==
  /\ Init
  /\ hp \in WithHP
  /\ hp => freers = Updaters
  /\ zlist = [t \in Updaters |-> NULL]
  /\ number = [t \in Updaters |-> 0]
  /\ scanning = {}
  /\ tmplist = [t \in Updaters |-> NULL]

(***************************************************************************)
(* free_node_later: push n; with more than R zombies start scan, up to the *)
(* loop of stage 3.                                                        *)
(***************************************************************************)
RetireKeeping(t, n, rest) ==
  /\ pc[t] = "idle"
  /\ running
  /\ n \in table
  /\ table' = table \ {n}
  /\ mr_next' = [mr_next EXCEPT ![n] = zlist[t]]
  /\ IF number[t] + 1 > R
       THEN /\ scanning' = scanning \cup {t}
            /\ tmplist' = [tmplist EXCEPT ![t] = n]
            /\ zlist' = [zlist EXCEPT ![t] = rest]
            /\ number' = [number EXCEPT ![t] = 0]
       ELSE /\ zlist' = [zlist EXCEPT ![t] = n]
            /\ number' = [number EXCEPT ![t] = @ + 1]
            /\ UNCHANGED <<scanning, tmplist>>
  /\ place' = [place EXCEPT ![n] = "zombie"]
  /\ UNCHANGED <<freers, freelist, localVars, pc, users, retired, testVars>>

\* Mutant: zl->p is not reset.
FreeNodeLaterTwice(t, n) == RetireKeeping(t, n, n)

FreeNodeLater(t, n) == RetireKeeping(t, n, NULL)

\* cur = tmplist; tmplist = tmplist->mr_next
PopZombie(t, links) ==
  /\ t \in scanning
  /\ pc[t] = "idle"
  /\ tmplist[t] # NULL
  /\ tmplist' = [tmplist EXCEPT ![t] = links[tmplist[t]]]

\* A slot names cur: back on the zombie list.
KeepZombie(t) ==
  /\ PopZombie(t, mr_next)
  /\ mr_next' = [mr_next EXCEPT ![tmplist[t]] = zlist[t]]
  /\ zlist' = [zlist EXCEPT ![t] = tmplist[t]]
  /\ number' = [number EXCEPT ![t] = @ + 1]
  /\ UNCHANGED <<freers, freelist, localVars, pc, place, users, table, retired, testVars, scanning>>

\* free_node(cur): nobody has cur any more.  It may be a node that was freed
\* before: a second free_node without a new_node in between.
Release(t) ==
  /\ tmplist[t] # NULL
  /\ AddFree(t, tmplist[t])
  /\ users' = [users EXCEPT ![tmplist[t]] = 0]
  /\ UNCHANGED <<table, retired, zlist, number, scanning>>

\* Mutant: cur->mr_next is read after free_node has overwritten it.
FreeZombieFirst(t) == Release(t) /\ PopZombie(t, mr_next')

FreeZombie(t) == PopZombie(t, mr_next) /\ Release(t)

ScanDone(t) ==
  /\ t \in scanning
  /\ pc[t] = "idle"
  /\ tmplist[t] = NULL
  /\ scanning' = scanning \ {t}
  /\ UNCHANGED <<vars, zlist, number, tmplist>>

ScanStep(t) == KeepZombie(t) \/ FreeZombie(t) \/ ScanDone(t)

\* The calls of the allocator of a thread that is not in scan, and what a
\* call of free_node does after add_free has started it.
NodeStep(t) ==
  /\ t \in scanning => pc[t] # "idle"
  /\ \/ NewNode(t) \/ CallStep(t)
     \/ ~hp /\ \E n \in Nodes : FreeNode(t, n) \/ CallRcu(t, n)

ZombieNext ==
  \/ /\ \/ \E t \in Threads : NodeStep(t)
        \/ InitAllocator
        \/ NextIteration /\ scanning = {}
     /\ UNCHANGED <<hp, zombieVars>>
  \/ /\ hp
     /\ \E t \in Updaters :
          \/ ScanStep(t)
          \/ t \notin scanning /\ \E n \in Nodes : FreeNodeLater(t, n)
     /\ UNCHANGED hp

ZombieSpec == ZombieInit /\ [][ZombieNext]_allVars

(***************************************************************************)
(* scan comes to an end (hp.c:91), although add_free relinks nodes of the  *)
(* list it walks, frees them, and leads it on to nodes that a stale tail   *)
(* has cut off from freelist: whenever the loop goes on, what it has yet   *)
(* to walk leads out of every set of nodes, and so to NULL.                *)
(***************************************************************************)
ScanEnds ==
  \A t \in scanning : pc[t] = "idle" =>
    \A S \in SUBSET Nodes : tmplist[t] \in S => \E n \in S : mr_next[n] \notin S

\* No free list begins with n, and no link that get_free or scan will follow
\* leads to it.
OffLists(n) ==
  /\ n # freelist
  /\ \A t \in Threads : Owns(t) => lfl[t] # n
  /\ \A m \in Nodes : Chained(m) => mr_next[m] # n

\* This step is a free_node(n) of t.
Frees(t, n) == lcnt'[t] = lcnt[t] + 1 /\ lfl'[t] = n

(***************************************************************************)
(* What free_node (allocator_malloc.c:186) is called for: a node that one  *)
(* caller has, or, in the hazard pointer build, one that was freed before. *)
(* scan does that (hp.c:101) when a stale tail has hung freed nodes behind *)
(* a zombie, but only to nodes that have dropped out of the free lists by  *)
(* then, so no list gets a node twice.                                     *)
(***************************************************************************)
FreesOffLists ==
  [][\A t \in Threads, n \in Nodes : Frees(t, n) => users[n] = 1 \/ (hp /\ OffLists(n))]_allVars

(***************************************************************************)
(* The zombie list and what scan has yet to walk are lists of their own.   *)
(***************************************************************************)
ZombieHeads ==
  /\ \A t \in Updaters :
       /\ zlist[t] # NULL => place[zlist[t]] = "zombie" /\ zlist[t] # tmplist[t]
       /\ tmplist[t] # NULL => place[tmplist[t]] = "zombie"
       /\ \A n \in Nodes : Chained(n) => mr_next[n] # zlist[t] /\ mr_next[n] # tmplist[t]
  /\ scanning # {} => hp /\ running
  /\ hp => freers = Updaters

(***************************************************************************)
(* The inductive invariant.  However mr_next is shared, a node is in the   *)
(* table, a zombie or on one free list: what get_free                      *)
(* (allocator_malloc.c:97) would return next is neither in use nor a       *)
(* zombie, and what scan would free next is on no free list.               *)
(***************************************************************************)
ZombieInv == Tame(freers) => Inv /\ ZombieTypeOK /\ ZombieHeads
===============================================================================
