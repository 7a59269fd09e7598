-------------------------------- MODULE Harness --------------------------------
(***************************************************************************)
(* mrow.c: main checks its arguments and runs test() ITERATION times.      *)
(* test() builds the table, starts the threads, releases them together     *)
(* through ready and go, joins them from the last to the first, and sets   *)
(* done on the way, when it has joined the lowest reader: threads below    *)
(* nbupdaters update until done, the others search NB_TEST times.          *)
(*                                                                         *)
(* What the calls of insert, delete and search do is the subject of the    *)
(* other modules; here they are one step each.                             *)
(***************************************************************************)
EXTENDS Integers, FiniteSets

CONSTANTS
  MaxThreads, MaxUpdaters,  \* bounds: the arguments tried are 0 .. these
  NB_TEST,
  ITERATION,
  MaxOps   \* bound: an updater that got this far goes on only once done is set

ASSUME HarnessAssumption ==
  MaxThreads \in Nat /\ MaxUpdaters \in Nat /\ NB_TEST \in Nat
  /\ ITERATION \in Nat /\ MaxOps \in Nat

VARIABLES
  nbthreads, nbupdaters,
  mpc, mi,            \* where main is, and the i of the loop it is in
  iteration,
  done, go, ready,
  tpc, i              \* where each thread is in run, and its i

Threads == 0 .. MaxThreads - 1
mainVars   == <<mpc, mi, iteration>>
sharedVars == <<done, go, ready>>
threadVars == <<tpc, i>>
vars == <<nbthreads, nbupdaters, mainVars, sharedVars, threadVars>>

MainPc   == {"setup", "init", "create", "ready", "join", "end", "exit"}
ThreadPc == {"none", "start", "barrier", "call", "test", "results", "joinable"}

TypeOK ==
  /\ nbthreads \in 0 .. MaxThreads
  /\ nbupdaters \in 0 .. MaxUpdaters
  /\ mpc \in MainPc
  /\ mi \in -1 .. MaxThreads
  /\ iteration \in 0 .. ITERATION
  /\ done \in {0, 1} /\ go \in {0, 1} /\ ready \in 0 .. MaxThreads
  /\ tpc \in [Threads -> ThreadPc]
  /\ i \in [Threads -> Nat]

\* The globals start at 0; the arguments are what the user typed.
Init ==
  /\ nbthreads \in 0 .. MaxThreads
  /\ nbupdaters \in 0 .. MaxUpdaters
  /\ mpc = "setup" /\ mi = 0 /\ iteration = 0
  /\ done = 0 /\ go = 0 /\ ready = 0
  /\ tpc = [t \in Threads |-> "none"]
  /\ i = [t \in Threads |-> 0]

(***************************************************************************)
(* main, setup_test and test                                               *)
(***************************************************************************)
SetupTest ==
  /\ mpc = "setup"
  /\ mpc' = IF nbthreads <= nbupdaters THEN "exit"
            ELSE IF ITERATION = 0 THEN "end" ELSE "init"
  /\ UNCHANGED <<nbthreads, nbupdaters, mi, iteration, sharedVars, threadVars>>

\* Mutant: go is not reset.
InitTestKeepsGo ==
  /\ mpc = "init"
  /\ done' = 0 /\ ready' = 0
  /\ mi' = 0
  /\ mpc' = "create"
  /\ UNCHANGED <<nbthreads, nbupdaters, iteration, go, threadVars>>

\* Mutant: ready is not reset.
InitTestKeepsReady ==
  /\ mpc = "init"
  /\ done' = 0 /\ go' = 0
  /\ mi' = 0
  /\ mpc' = "create"
  /\ UNCHANGED <<nbthreads, nbupdaters, iteration, ready, threadVars>>

\* hash_init, init_allocator, and the flags are reset
InitTest ==
  /\ mpc = "init"
  /\ done' = 0 /\ go' = 0 /\ ready' = 0
  /\ mi' = 0
  /\ mpc' = "create"
  /\ UNCHANGED <<nbthreads, nbupdaters, iteration, threadVars>>

\* pthread_create(&thread[i], &attr, run, i); the thread's locals are fresh
Create ==
  /\ mpc = "create"
  /\ tpc' = [tpc EXCEPT ![mi] = "start"]
  /\ i' = [i EXCEPT ![mi] = 0]
  /\ mi' = mi + 1
  /\ mpc' = IF mi + 1 = nbthreads THEN "ready" ELSE "create"
  /\ UNCHANGED <<nbthreads, nbupdaters, iteration, sharedVars>>

\* while (ready != nbthreads); go = 1
Release ==
  /\ mpc = "ready"
  /\ ready = nbthreads
  /\ go' = 1
  /\ mi' = nbthreads - 1
  /\ mpc' = "join"
  /\ UNCHANGED <<nbthreads, nbupdaters, iteration, done, ready, threadVars>>

\* The body of the join loop with done set after thread last, down to thread first.
JoinLoop(last, first) ==
  /\ mpc = "join"
  /\ tpc[mi] = "joinable"
  /\ tpc' = [tpc EXCEPT ![mi] = "none"]
  /\ done' = IF mi = last THEN 1 ELSE done
  /\ mi' = mi - 1
  /\ IF mi > first
       THEN UNCHANGED <<mpc, iteration>>
       ELSE /\ iteration' = iteration + 1
            /\ mpc' = IF iteration + 1 < ITERATION THEN "init" ELSE "end"
  /\ UNCHANGED <<nbthreads, nbupdaters, go, ready, i>>

\* Mutants: done is set after the last reader, or not until an updater ends;
\* thread 0 is not joined.
JoinEarly == JoinLoop(nbthreads - 1, 0)
JoinLate  == JoinLoop(nbupdaters - 1, 0)
JoinShort == JoinLoop(nbupdaters, 1)

\* pthread_join(thread[i]); after the lowest reader, done = 1
Join == JoinLoop(nbupdaters, 0)

MainStep == SetupTest \/ InitTest \/ Create \/ Release \/ Join

(***************************************************************************)
(* run                                                                     *)
(***************************************************************************)
IsReader(t) == t >= nbupdaters

Goto(t, p) == tpc' = [tpc EXCEPT ![t] = p]

\* atomic_xadd4(&ready, 1)
Arrive(t) ==
  /\ tpc[t] = "start"
  /\ ready' = ready + 1
  /\ Goto(t, "barrier")
  /\ UNCHANGED <<nbthreads, nbupdaters, mainVars, done, go, i>>

\* while (!go)
Pass(t) ==
  /\ tpc[t] = "barrier"
  /\ go = 1
  /\ Goto(t, "call")
  /\ UNCHANGED <<nbthreads, nbupdaters, mainVars, sharedVars, i>>

\* search, insert or delete on a random key
CallOp(t) ==
  /\ tpc[t] = "call"
  /\ IsReader(t) \/ i[t] < MaxOps \/ done = 1
  /\ Goto(t, "test")
  /\ UNCHANGED <<nbthreads, nbupdaters, mainVars, sharedVars, i>>

\* break, or ++i and round again
Test(t) ==
  /\ tpc[t] = "test"
  /\ IF IF IsReader(t) THEN i[t] >= NB_TEST ELSE done = 1
       THEN Goto(t, "results") /\ UNCHANGED i
       ELSE Goto(t, "call") /\ i' = [i EXCEPT ![t] = @ + 1]
  /\ UNCHANGED <<nbthreads, nbupdaters, mainVars, sharedVars>>

\* The results are stored, and run returns.
Results(t) ==
  /\ tpc[t] = "results"
  /\ Goto(t, "joinable")
  /\ UNCHANGED <<nbthreads, nbupdaters, mainVars, sharedVars, i>>

ThreadStep(t) == Arrive(t) \/ Pass(t) \/ CallOp(t) \/ Test(t) \/ Results(t)

\* Once main has returned or exited there is no next step.
Next == MainStep \/ \E t \in Threads : ThreadStep(t)

Spec == Init /\ [][Next]_vars

\* Every thread is scheduled again and again, and a call that it makes returns.
FairSpec == Spec /\ WF_vars(MainStep) /\ \A t \in Threads : WF_vars(ThreadStep(t))

(***************************************************************************)
(* Properties                                                              *)
(***************************************************************************)
Running(t) == tpc[t] \notin {"none", "joinable"}
InLoop(t)  == tpc[t] \in {"call", "test"}

\* The benchmark ends: nobody waits for ready, go, done or a join for ever.
Terminates == <>(mpc \in {"end", "exit"})

(***************************************************************************)
(* The readers are measured under updates: no updater leaves its loop      *)
(* (mrow.c:171) before every reader of the iteration has left its own,     *)
(* although readers finish in any order and the joins (mrow.c:327) follow  *)
(* the indices.                                                            *)
(***************************************************************************)
UpdatersOutlastReaders ==
  \A u, r \in 0 .. nbthreads - 1 :
    ~IsReader(u) /\ tpc[u] \in {"results", "joinable"} /\ IsReader(r) => ~Running(r)

(***************************************************************************)
(* No thread operates on the table before all of them exist and have       *)
(* arrived (mrow.c:146), in any iteration: go is down again by then.       *)
(***************************************************************************)
StartTogether ==
  \A t \in 0 .. nbthreads - 1 : InLoop(t) =>
    /\ ready = nbthreads
    /\ \A s \in 0 .. nbthreads - 1 : tpc[s] # "start"

(***************************************************************************)
(* hash_init and init_allocator (mrow.c:308) replace the table and the     *)
(* free list while no thread of the last iteration is left to use them.    *)
(***************************************************************************)
NoStragglers == mpc \in {"init", "end"} => \A t \in Threads : tpc[t] = "none"

(***************************************************************************)
(* The inductive invariant: what each phase of main knows of the threads   *)
(***************************************************************************)
Started == 0 .. nbthreads - 1

\* The threads that have counted themselves in ready.
Arrived == {t \in Threads : tpc[t] = "barrier"}

\* No thread exists outside test().
NoThreads == mpc \in {"setup", "init", "end", "exit"} => \A t \in Threads : tpc[t] = "none"

\* Past setup_test there is a reader, and an iteration to be done.
Accepted ==
  /\ mpc = "setup" => iteration = 0
  /\ mpc \in {"init", "create", "ready", "join"} => nbupdaters < nbthreads /\ iteration < ITERATION

\* Until go is set the threads there are wait at the barrier or come to it.
Gathering ==
  mpc \in {"create", "ready"} =>
    /\ go = 0 /\ done = 0
    /\ mpc = "create" => mi \in Started
    /\ \A t \in Threads :
         IF t < IF mpc = "create" THEN mi ELSE nbthreads
           THEN tpc[t] \in {"start", "barrier"} ELSE tpc[t] = "none"
    /\ ready = Cardinality(Arrived)

\* Afterwards all have arrived, those above mi have been joined, done is set
\* once no reader is left, and no updater ends before.
Joining ==
  mpc = "join" =>
    /\ ready = nbthreads /\ mi \in Started
    /\ \A t \in Threads : IF t <= mi THEN tpc[t] \notin {"none", "start"} ELSE tpc[t] = "none"
    /\ done = 1 <=> mi < nbupdaters
    /\ \A t \in Threads : ~IsReader(t) /\ tpc[t] \in {"results", "joinable"} => done = 1

IInv == TypeOK /\ NoThreads /\ Accepted /\ Gathering /\ Joining
===============================================================================
