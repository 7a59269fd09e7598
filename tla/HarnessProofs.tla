----------------------------- MODULE HarnessProofs -----------------------------
(***************************************************************************)
(* The barriers of mrow.c hold for every number of threads, updaters,      *)
(* iterations and operations.                                              *)
(***************************************************************************)
EXTENDS Harness, FiniteSetTheorems, TLAPS

\* The bounds of the arguments are naturals.
LEMMA Bounds ==
  ASSUME TypeOK
  PROVE  /\ nbthreads \in Nat /\ nbupdaters \in Nat /\ mi \in Int /\ iteration \in Nat
         /\ nbthreads <= MaxThreads /\ MaxThreads \in Nat /\ ITERATION \in Nat
         /\ Started \subseteq Threads
         /\ \A t \in Threads : t \in Int /\ 0 <= t
BY HarnessAssumption DEF TypeOK, Started, Threads

\* The threads that have arrived can be counted.
LEMMA ArrivedFinite ==
  /\ IsFiniteSet(Arrived) /\ Cardinality(Arrived) \in Nat
  /\ IsFiniteSet(Arrived') /\ Cardinality(Arrived') \in 0 .. MaxThreads
<1>1. IsFiniteSet(Threads) /\ Cardinality(Threads) = MaxThreads
  BY FS_Interval, HarnessAssumption DEF Threads
<1>2. Arrived \subseteq Threads /\ Arrived' \subseteq Threads
  BY DEF Arrived
<1>3. IsFiniteSet(Arrived) /\ IsFiniteSet(Arrived') /\ Cardinality(Arrived') <= MaxThreads
  BY <1>1, <1>2, FS_Subset
<1>4. Cardinality(Arrived) \in Nat /\ Cardinality(Arrived') \in Nat
  BY <1>3, FS_CardinalityType
<1> QED
  BY <1>3, <1>4, HarnessAssumption

\* The arguments are checked before anything else.
LEMMA SetupInv ==
  ASSUME IInv, SetupTest
  PROVE  IInv'
<1>0. TypeOK /\ NoThreads /\ Accepted
  BY DEF IInv
<1>1. /\ mpc = "setup" /\ UNCHANGED <<nbthreads, nbupdaters, mi, iteration, done, go, ready, tpc, i>>
      /\ mpc' = IF nbthreads <= nbupdaters THEN "exit" ELSE IF ITERATION = 0 THEN "end" ELSE "init"
  BY DEF SetupTest, sharedVars, threadVars
<1>2. TypeOK'
  BY <1>0, <1>1 DEF TypeOK, MainPc
<1>3. NoThreads' /\ Gathering' /\ Joining'
  BY <1>0, <1>1 DEF NoThreads, Gathering, Joining
<1>4. Accepted'
  <2>1. mpc' = "init" => nbupdaters < nbthreads /\ iteration < ITERATION
    BY <1>0, <1>1, Bounds DEF Accepted
  <2>2. mpc' \in {"exit", "end", "init"}
    BY <1>1
  <2> QED
    BY <1>1, <2>1, <2>2 DEF Accepted
<1> QED
  BY <1>2, <1>3, <1>4 DEF IInv

\* hash_init and the flags: nobody has arrived, and go is down.
LEMMA InitTestInv ==
  ASSUME IInv, InitTest
  PROVE  IInv'
<1>0. TypeOK /\ NoThreads /\ Accepted
  BY DEF IInv
<1>1. /\ mpc = "init" /\ mpc' = "create" /\ mi' = 0 /\ done' = 0 /\ go' = 0 /\ ready' = 0
      /\ UNCHANGED <<nbthreads, nbupdaters, iteration, tpc, i>>
  BY DEF InitTest, threadVars
<1>2. TypeOK'
  BY <1>0, <1>1, HarnessAssumption DEF TypeOK, MainPc
<1>3. NoThreads' /\ Accepted' /\ Joining'
  BY <1>0, <1>1 DEF NoThreads, Accepted, Joining
<1>4. Gathering'
  <2>1. 0 \in Started'
    BY <1>0, <1>1, Bounds DEF Accepted, Started
  <2>2. \A t \in Threads : tpc'[t] = "none"
    BY <1>0, <1>1 DEF NoThreads
  <2>3. Arrived' = {}
    BY <2>2 DEF Arrived
  <2>4. ready' = Cardinality(Arrived')
    BY <1>1, <2>3, FS_EmptySet
  <2> QED
    BY <1>0, <1>1, <2>1, <2>2, <2>4, Bounds DEF Gathering
<1> QED
  BY <1>2, <1>3, <1>4 DEF IInv

\* A new thread has not arrived yet.
LEMMA CreateInv ==
  ASSUME IInv, Create
  PROVE  IInv'
<1>0. TypeOK /\ Accepted /\ Gathering
  BY DEF IInv
<1>1. /\ mpc = "create" /\ mpc' = (IF mi + 1 = nbthreads THEN "ready" ELSE "create") /\ mi' = mi + 1
      /\ tpc' = [tpc EXCEPT ![mi] = "start"] /\ i' = [i EXCEPT ![mi] = 0]
      /\ UNCHANGED <<nbthreads, nbupdaters, iteration, done, go, ready>>
  BY DEF Create, sharedVars
<1>2. mi \in Started /\ mi \in Threads /\ mi \in 0 .. nbthreads - 1
  BY <1>0, <1>1, Bounds DEF Gathering, Started
<1>3. TypeOK'
  BY <1>0, <1>1, <1>2, Bounds DEF TypeOK, MainPc, ThreadPc
<1>4. NoThreads' /\ Accepted' /\ Joining'
  BY <1>0, <1>1 DEF NoThreads, Accepted, Joining
<1>5. Gathering'
  <2>1. \A t \in Threads : IF t < mi THEN tpc[t] \in {"start", "barrier"} ELSE tpc[t] = "none"
    BY <1>0, <1>1 DEF Gathering
  <2>2. \A t \in Threads : tpc'[t] = IF t = mi THEN "start" ELSE tpc[t]
    BY <1>0, <1>1 DEF TypeOK
  <2>3. \A t \in Threads : IF t < mi + 1 THEN tpc'[t] \in {"start", "barrier"} ELSE tpc'[t] = "none"
    BY <1>0, <2>1, <2>2, Bounds
  <2>4. tpc[mi] = "none"
    BY <1>0, <1>2, <2>1, Bounds
  <2>5. Arrived' = Arrived
    BY <1>2, <2>2, <2>4 DEF Arrived
  <2>6. ready' = Cardinality(Arrived') /\ go' = 0
    BY <1>0, <1>1, <2>5 DEF Gathering
  <2>7. mpc' = "create" => mi' \in Started'
    BY <1>0, <1>1, <1>2, Bounds DEF Started
  <2> QED
    BY <1>0, <1>1, <2>3, <2>6, <2>7, Bounds DEF Gathering
<1> QED
  BY <1>3, <1>4, <1>5 DEF IInv

\* ready = nbthreads shows that every thread has come to the barrier.
LEMMA AllArrived ==
  ASSUME IInv, mpc = "ready", ready = nbthreads
  PROVE  \A t \in Threads : tpc[t] = IF t < nbthreads THEN "barrier" ELSE "none"
<1>0. TypeOK /\ Gathering
  BY DEF IInv
<1>1. /\ \A t \in Threads : IF t < nbthreads THEN tpc[t] \in {"start", "barrier"} ELSE tpc[t] = "none"
      /\ Cardinality(Arrived) = nbthreads
  BY <1>0 DEF Gathering
<1>2. Arrived \subseteq Started
  <2>1. ASSUME NEW t \in Threads, tpc[t] = "barrier" PROVE t \in Started
    <3>1. t < nbthreads
      BY <1>1, <2>1
    <3> QED
      BY <1>0, <3>1, Bounds DEF Started
  <2> QED
    BY <2>1 DEF Arrived
<1>3. IsFiniteSet(Started) /\ Cardinality(Started) = nbthreads
  <2>1. 0 \in Int /\ nbthreads - 1 \in Int /\ nbthreads \in Nat
    BY <1>0, Bounds
  <2>2. /\ IsFiniteSet(0 .. nbthreads - 1)
        /\ Cardinality(0 .. nbthreads - 1) =
             IF 0 > nbthreads - 1 THEN 0 ELSE nbthreads - 1 - 0 + 1
    BY <2>1, FS_Interval
  <2> QED
    BY <2>1, <2>2 DEF Started
<1>4. Arrived = Started
  BY <1>1, <1>2, <1>3, FS_Subset
<1> QED
  BY <1>0, <1>1, <1>4, Bounds DEF Arrived, Started

\* go is set when all of them wait.
LEMMA ReleaseInv ==
  ASSUME IInv, Release
  PROVE  IInv'
<1>0. TypeOK /\ Accepted /\ Gathering
  BY DEF IInv
<1>1. /\ mpc = "ready" /\ ready = nbthreads /\ mpc' = "join" /\ mi' = nbthreads - 1 /\ go' = 1
      /\ UNCHANGED <<nbthreads, nbupdaters, iteration, done, ready, tpc, i>>
  BY DEF Release, threadVars
<1>2. nbupdaters < nbthreads
  BY <1>0, <1>1 DEF Accepted
<1>3. TypeOK'
  BY <1>0, <1>1, Bounds DEF TypeOK, MainPc
<1>4. NoThreads' /\ Accepted' /\ Gathering'
  BY <1>0, <1>1 DEF NoThreads, Accepted, Gathering
<1>5. Joining'
  <2>1. mi' \in Started'
    BY <1>0, <1>1, <1>2, Bounds DEF Started
  <2>2. \A t \in Threads : tpc'[t] = IF t <= mi' THEN "barrier" ELSE "none"
    BY <1>0, <1>1, AllArrived, Bounds
  <2>3. done' = 0
    BY <1>0, <1>1 DEF Gathering
  <2> QED
    BY <1>0, <1>1, <1>2, <2>1, <2>2, <2>3, Bounds DEF Joining
<1> QED
  BY <1>3, <1>4, <1>5 DEF IInv

\* The body of the join loop: done is set with the lowest reader.
LEMMA JoinInv ==
  ASSUME IInv, Join
  PROVE  IInv'
<1>0. TypeOK /\ Accepted /\ Joining
  BY DEF IInv
<1>1. /\ mpc = "join" /\ tpc[mi] = "joinable" /\ tpc' = [tpc EXCEPT ![mi] = "none"]
      /\ done' = (IF mi = nbupdaters THEN 1 ELSE done) /\ mi' = mi - 1
      /\ IF mi > 0 THEN UNCHANGED <<mpc, iteration>>
         ELSE /\ iteration' = iteration + 1
              /\ mpc' = IF iteration + 1 < ITERATION THEN "init" ELSE "end"
      /\ UNCHANGED <<nbthreads, nbupdaters, go, ready, i>>
  BY DEF Join, JoinLoop
<1>2. /\ mi \in 0 .. nbthreads - 1 /\ ready = nbthreads
      /\ \A t \in Threads : IF t <= mi THEN tpc[t] \notin {"none", "start"} ELSE tpc[t] = "none"
      /\ done = 1 <=> mi < nbupdaters
      /\ \A t \in Threads : ~IsReader(t) /\ tpc[t] \in {"results", "joinable"} => done = 1
      /\ nbupdaters < nbthreads /\ iteration < ITERATION
  BY <1>0, <1>1 DEF Joining, Accepted, Started
<1>3. TypeOK'
  <2>1. mpc' \in MainPc
    BY <1>1 DEF MainPc
  <2>2. iteration' \in 0 .. ITERATION
    BY <1>0, <1>1, <1>2, Bounds DEF TypeOK
  <2>3. mi' \in -1 .. MaxThreads
    BY <1>0, <1>1, <1>2, Bounds
  <2>4. tpc' \in [Threads -> ThreadPc]
    BY <1>0, <1>1 DEF TypeOK, ThreadPc
  <2>5. done' \in {0, 1}
    BY <1>0, <1>1 DEF TypeOK
  <2> QED
    BY <1>0, <1>1, <2>1, <2>2, <2>3, <2>4, <2>5 DEF TypeOK
<1>4. \A t \in Threads : tpc'[t] = IF t = mi THEN "none" ELSE tpc[t]
  BY <1>0, <1>1 DEF TypeOK
<1>5. \A t \in Threads : IF t <= mi' THEN tpc'[t] \notin {"none", "start"} ELSE tpc'[t] = "none"
  BY <1>0, <1>1, <1>2, <1>4, Bounds
<1>6. CASE mi > 0
  <2>1. NoThreads' /\ Accepted' /\ Gathering'
    BY <1>0, <1>1, <1>6 DEF NoThreads, Accepted, Gathering
  <2>2. mi' \in Started' /\ (done' = 1 <=> mi' < nbupdaters)
    BY <1>0, <1>1, <1>2, <1>6, Bounds DEF Started, TypeOK
  <2>3. ASSUME NEW t \in Threads, ~IsReader(t)', tpc'[t] \in {"results", "joinable"} PROVE done' = 1
    BY <1>1, <1>2, <1>4, <2>3 DEF IsReader
  <2> QED
    BY <1>1, <1>2, <1>3, <1>5, <1>6, <2>1, <2>2, <2>3 DEF IInv, Joining
<1>7. CASE mi = 0
  <2>1. \A t \in Threads : tpc'[t] = "none"
    BY <1>0, <1>1, <1>5, <1>7, Bounds
  <2>2. mpc' = (IF iteration + 1 < ITERATION THEN "init" ELSE "end") /\ iteration' = iteration + 1
    BY <1>1, <1>7
  <2>3. Accepted'
    BY <1>1, <1>2, <2>2 DEF Accepted
  <2> QED
    BY <1>3, <2>1, <2>2, <2>3 DEF IInv, NoThreads, Gathering, Joining
<1> QED
  BY <1>2, <1>6, <1>7, <1>0, Bounds

\* A thread that comes to the barrier counts itself.
LEMMA ArriveInv ==
  ASSUME IInv, NEW t \in Threads, Arrive(t)
  PROVE  IInv'
<1>0. TypeOK /\ NoThreads /\ Accepted /\ Gathering /\ Joining
  BY DEF IInv
<1>1. /\ tpc[t] = "start" /\ ready' = ready + 1 /\ tpc' = [tpc EXCEPT ![t] = "barrier"]
      /\ UNCHANGED <<nbthreads, nbupdaters, mpc, mi, iteration, done, go, i>>
  BY DEF Arrive, Goto, mainVars
<1>2. mpc \in {"create", "ready"}
  <2>1. mpc # "join"
    BY <1>0, <1>1 DEF Joining
  <2>2. mpc \notin {"setup", "init", "end", "exit"}
    BY <1>0, <1>1 DEF NoThreads
  <2> QED
    BY <1>0, <2>1, <2>2 DEF TypeOK, MainPc
<1>3. \A s \in Threads : tpc'[s] = IF s = t THEN "barrier" ELSE tpc[s]
  BY <1>0, <1>1 DEF TypeOK
<1>4. ready' = Cardinality(Arrived')
  <2>1. Arrived' = Arrived \cup {t} /\ t \notin Arrived
    BY <1>1, <1>3 DEF Arrived
  <2>2. Cardinality(Arrived') = Cardinality(Arrived) + 1
    BY <2>1, ArrivedFinite, FS_AddElement
  <2> QED
    BY <1>0, <1>1, <1>2, <2>2 DEF Gathering
<1>5. TypeOK'
  BY <1>0, <1>1, <1>4, ArrivedFinite DEF TypeOK, ThreadPc
<1>6. NoThreads' /\ Accepted' /\ Joining'
  BY <1>0, <1>1, <1>2 DEF NoThreads, Accepted, Joining
<1>7. Gathering'
  <2> DEFINE bound == IF mpc = "create" THEN mi ELSE nbthreads
  <2>1. \A s \in Threads : IF s < bound THEN tpc[s] \in {"start", "barrier"} ELSE tpc[s] = "none"
    BY <1>0, <1>2 DEF Gathering
  <2>2. \A s \in Threads : IF s < bound THEN tpc'[s] \in {"start", "barrier"} ELSE tpc'[s] = "none"
    BY <1>1, <1>3, <2>1
  <2>3. go' = 0 /\ done' = 0 /\ (mpc' = "create" => mi' \in Started')
    BY <1>0, <1>1, <1>2 DEF Gathering, Started
  <2> QED
    BY <1>1, <1>4, <2>2, <2>3 DEF Gathering
<1> QED
  BY <1>5, <1>6, <1>7 DEF IInv

\* Past the barrier a thread moves in its own loop; an updater leaves it when
\* done is set.
LEMMA LoopInv ==
  ASSUME IInv, NEW t \in Threads, Pass(t) \/ CallOp(t) \/ Test(t) \/ Results(t)
  PROVE  IInv'
<1>0. TypeOK /\ NoThreads /\ Accepted /\ Gathering /\ Joining
  BY DEF IInv
<1>1. UNCHANGED <<nbthreads, nbupdaters, mpc, mi, iteration, done, go, ready>>
  BY DEF Pass, CallOp, Test, Results, mainVars, sharedVars
<1>2. PICK p \in {"call", "test", "results", "joinable"} : tpc' = [tpc EXCEPT ![t] = p]
  BY DEF Pass, CallOp, Test, Results, Goto
<1>3. tpc[t] \notin {"none", "start"} /\ (tpc[t] = "barrier" => go = 1)
  BY DEF Pass, CallOp, Test, Results
<1>4. mpc = "join"
  <2>1. mpc \notin {"setup", "init", "end", "exit"}
    BY <1>0, <1>3 DEF NoThreads
  <2>2. mpc \notin {"create", "ready"}
    BY <1>0, <1>3 DEF Gathering
  <2> QED
    BY <1>0, <2>1, <2>2 DEF TypeOK, MainPc
<1>5. i' \in [Threads -> Nat]
  BY <1>0 DEF Pass, CallOp, Test, Results, TypeOK
<1>6. TypeOK'
  BY <1>0, <1>1, <1>2, <1>5 DEF TypeOK, ThreadPc
<1>7. NoThreads' /\ Accepted' /\ Gathering'
  BY <1>0, <1>1, <1>4 DEF NoThreads, Accepted, Gathering
<1>8. Joining'
  <2>1. \A s \in Threads : tpc'[s] = IF s = t THEN p ELSE tpc[s]
    BY <1>0, <1>2 DEF TypeOK
  <2>2. /\ ready = nbthreads /\ mi \in Started /\ (done = 1 <=> mi < nbupdaters)
        /\ \A s \in Threads : IF s <= mi THEN tpc[s] \notin {"none", "start"} ELSE tpc[s] = "none"
        /\ \A s \in Threads : ~IsReader(s) /\ tpc[s] \in {"results", "joinable"} => done = 1
    BY <1>0, <1>4 DEF Joining
  <2>3. \A s \in Threads : IF s <= mi THEN tpc'[s] \notin {"none", "start"} ELSE tpc'[s] = "none"
    BY <1>3, <2>1, <2>2
  <2>4. ~IsReader(t) /\ p \in {"results", "joinable"} => done = 1
    <3>1. CASE Pass(t) \/ CallOp(t)
      <4>1. tpc'[t] \in {"call", "test"}
        BY <1>0, <3>1 DEF Pass, CallOp, Goto, TypeOK
      <4> QED
        BY <2>1, <4>1
    <3>2. CASE Test(t)
      <4>1. ~IsReader(t) /\ done # 1 => tpc'[t] = "call"
        BY <1>0, <3>2 DEF Test, Goto, TypeOK
      <4> QED
        BY <2>1, <4>1
    <3>3. CASE Results(t)
      BY <2>2, <3>3 DEF Results
    <3> QED
      BY <3>1, <3>2, <3>3
  <2>5. \A s \in Threads : ~IsReader(s)' /\ tpc'[s] \in {"results", "joinable"} => done = 1
    BY <1>1, <2>1, <2>2, <2>4 DEF IsReader
  <2>6. mi' \in Started'
    BY <1>1, <2>2 DEF Started
  <2> QED
    BY <1>1, <2>2, <2>3, <2>5, <2>6 DEF Joining
<1> QED
  BY <1>6, <1>7, <1>8 DEF IInv

\* The program before main checks its arguments.
LEMMA InitInv == Init => IInv
<1> SUFFICES ASSUME Init PROVE IInv
  OBVIOUS
<1>1. TypeOK
  BY HarnessAssumption DEF Init, TypeOK, MainPc, ThreadPc
<1> QED
  BY <1>1 DEF Init, IInv, NoThreads, Accepted, Gathering, Joining

\* Every step keeps the inductive invariant.
LEMMA StepInvariant == IInv /\ [Next]_vars => IInv'
<1> SUFFICES ASSUME IInv, [Next]_vars PROVE IInv'
  OBVIOUS
<1>1. CASE MainStep
  BY <1>1, SetupInv, InitTestInv, CreateInv, ReleaseInv, JoinInv DEF MainStep
<1>2. CASE \E t \in Threads : ThreadStep(t)
  BY <1>2, ArriveInv, LoopInv DEF ThreadStep
<1>3. CASE UNCHANGED vars
  <2> USE <1>3 DEF vars, mainVars, sharedVars, threadVars
  <2>1. TypeOK'
    BY DEF IInv, TypeOK
  <2>2. NoThreads' /\ Accepted' /\ Gathering'
    BY DEF IInv, NoThreads, Accepted, Gathering, Started, Arrived
  <2>3. Joining'
    BY DEF IInv, Joining, Started, IsReader
  <2> QED
    BY <2>1, <2>2, <2>3 DEF IInv
<1> QED
  BY <1>1, <1>2, <1>3 DEF Next

\* What each phase of test() knows of the threads it has started.
THEOREM Invariance == Spec => []IInv
BY InitInv, StepInvariant, PTL DEF Spec

(***************************************************************************)
(* The readers are measured under updates, for every number of readers and *)
(* updaters: no updater leaves its loop (mrow.c:171) before every reader   *)
(* of the iteration has left its own.                                      *)
(***************************************************************************)
THEOREM UpdatesThroughout == Spec => []UpdatersOutlastReaders
<1>1. IInv => UpdatersOutlastReaders
  <2> SUFFICES ASSUME IInv, NEW u \in Started, NEW r \in Started,
                      ~IsReader(u), tpc[u] \in {"results", "joinable"}, IsReader(r)
               PROVE  tpc[r] = "none"
    BY DEF UpdatersOutlastReaders, Started, Running
  <2>0. TypeOK /\ u \in Threads /\ r \in Threads
    BY Bounds DEF IInv
  <2>1. mpc = "join"
    <3>1. mpc \notin {"setup", "init", "end", "exit"}
      BY <2>0 DEF IInv, NoThreads
    <3>2. mpc \notin {"create", "ready"}
      BY <2>0 DEF IInv, Gathering
    <3> QED
      BY <2>0, <3>1, <3>2 DEF TypeOK, MainPc
  <2>2. mi < nbupdaters
    BY <2>0, <2>1 DEF IInv, Joining
  <2>3. ~(r <= mi)
    BY <2>0, <2>2, Bounds DEF IsReader
  <2> QED
    BY <2>0, <2>1, <2>3 DEF IInv, Joining
<1> QED
  BY <1>1, Invariance, PTL

(***************************************************************************)
(* No thread operates on the table before all of them exist and have       *)
(* arrived (mrow.c:146), in any iteration.                                 *)
(***************************************************************************)
THEOREM StartsTogether == Spec => []StartTogether
<1>1. IInv => StartTogether
  <2> SUFFICES ASSUME IInv, NEW t \in Started, InLoop(t)
               PROVE  ready = nbthreads /\ \A s \in Started : tpc[s] # "start"
    BY DEF StartTogether, Started
  <2>0. TypeOK /\ t \in Threads /\ tpc[t] \in {"call", "test"} /\ Started \subseteq Threads
    BY Bounds DEF IInv, InLoop
  <2>1. mpc = "join"
    <3>1. mpc \notin {"setup", "init", "end", "exit"}
      BY <2>0 DEF IInv, NoThreads
    <3>2. mpc \notin {"create", "ready"}
      BY <2>0 DEF IInv, Gathering
    <3> QED
      BY <2>0, <3>1, <3>2 DEF TypeOK, MainPc
  <2>2. ready = nbthreads /\ \A s \in Threads : tpc[s] # "start"
    BY <2>1 DEF IInv, Joining
  <2> QED
    BY <2>0, <2>2
<1> QED
  BY <1>1, Invariance, PTL

(***************************************************************************)
(* The table and the free list are replaced (mrow.c:308) while no thread   *)
(* of the last iteration is left to use them.                              *)
(***************************************************************************)
THEOREM NoneLeft == Spec => []NoStragglers
<1>1. IInv => NoStragglers
  BY DEF IInv, NoThreads, NoStragglers
<1> QED
  BY <1>1, Invariance, PTL
===============================================================================
