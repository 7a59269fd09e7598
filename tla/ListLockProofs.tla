---------------------------- MODULE ListLockProofs ----------------------------
(***************************************************************************)
(* The searches of list_lock.c, with every lock_t it can be built with,    *)
(* and of list_rcu.c are linearizable and never rely on a freed node, for  *)
(* every number of nodes, keys, buckets and threads.                       *)
(***************************************************************************)
EXTENDS ListLock, HashListProofs

\* A step of an updater: of a call it is in, or the next call.
Writer(w) == UpdateStep(w) \/ (Call(w) /\ UNCHANGED <<syncVars, readerVars>>)

\* A step of a reader.
Reader(r) == SearchStep(r) \/ \E k \in Keys : SearchCall(r, k)

\* The builds under study.
LEMMA BuildRange ==
  ASSUME IInv
  PROVE  build \in Builds
BY ListLockAssumption DEF IInv, TypeOK, build

\* A step of search writes nothing but the reader's own variables.
LEMMA SearchFrame ==
  ASSUME NEW r \in Readers, SearchStep(r)
  PROVE  /\ ReaderFrame
         /\ UNCHANGED searchVars \/ \E x \in {0, 1} : EndSearch(r, x)
<1>1. CASE LockR(r) \/ Validate(r) \/ ReadKey(r) \/ SearchRetry(r)
  BY <1>1 DEF LockR, LockRWhen, Validate, ReadKey, SearchRetry
<1>2. CASE ReadHead(r) \/ ReadNext(r)
  BY <1>2 DEF ReadHead, ReadNext, Visit
<1>3. CASE UnlockR(r)
  BY <1>3 DEF UnlockR, FinishWith, Result
<1> QED
  BY <1>1, <1>2, <1>3 DEF SearchStep

\* The node a delete is about to retire.
LEMMA RetiredNode ==
  ASSUME ListInv, NEW w \in Writers, wpc[w] = "retire"
  PROVE  /\ wcur[w] \in Nodes /\ Held(w) = {wcur[w]}
         /\ wcur[w] \notin live /\ wcur[w] \notin free /\ Unfreed(wcur[w])
         /\ BucketOf(key[wcur[w]]) = WriterBucket(w) /\ WriterBucket(w) \in Buckets
         /\ ~OneWriter => lock[WriterBucket(w)] = w
<1>1. wkey[w] \in Keys
  BY DEF ListInv, OwnsBucket
<1>2. WriterBucket(w) \in Buckets
  BY <1>1, BucketRange, HashListAssumption DEF WriterBucket
<1>3. wcur[w] \in Nodes /\ BucketOf(key[wcur[w]]) = WriterBucket(w)
  BY DEF ListInv, Position, WellPlaced, WriterBucket
<1>4. Held(w) = {wcur[w]} /\ Unfreed(wcur[w])
  BY DEF Held, Unfreed
<1>5. ~OneWriter => lock[WriterBucket(w)] = w
  BY DEF ListInv, OwnsBucket, InCall
<1> QED
  BY <1>2, <1>3, <1>4, <1>5 DEF ListInv, OneRole

\* The list's invariant holds whichever thread takes a step.
LEMMA ListStep ==
  ASSUME IInv, Next
  PROVE  ListInv'
<1>0. ListInv /\ ListTypeOK /\ OneRole
  BY DEF IInv, ListInv
<1>1. ASSUME NEW w \in Writers, Retire(w) PROVE ListInv'
  <2>1. CASE FreesLate
    BY <1>0, <1>1, <2>1, EarlyUnlockInv, ListLockAssumption DEF Retire
  <2>2. CASE ~FreesLate
    <3>1. free' = free \/ free' = free \cup {wcur[w]}
      BY <1>1, <2>2 DEF Retire, CallRcu, FreeAtOnce
    <3>2. /\ free' \subseteq Nodes /\ free' \cap live = {}
          /\ \A v \in Writers : v # w => Held(v) \cap free' = {}
      BY <1>0, <1>1, <3>1, RetiredNode DEF Retire, OneRole, ListTypeOK
    <3> QED
      BY <1>0, <1>1, <2>2, <3>2, RetireAwayInv DEF Retire
  <2> QED
    BY <2>1, <2>2
<1>2. ASSUME NEW w \in Writers, FreeLate(w) PROVE ListInv'
  BY <1>0, <1>2, LateFreeInv DEF FreeLate, FreeAtOnce
<1>3. ASSUME NEW w \in Writers, UpdateStep(w) PROVE ListInv'
  BY <1>0, <1>1, <1>2, <1>3, WriterStepInv DEF UpdateStep
<1>4. ASSUME NEW w \in Writers, Call(w) PROVE ListInv'
  BY <1>0, <1>4, CallInv DEF Call, InsertCall, DeleteCall
<1>5. ASSUME NEW n \in Nodes, FreeNodeCb(n) PROVE ListInv'
  <2>1. /\ free' \subseteq Nodes /\ free' \cap live = {}
        /\ \A v \in Writers : Held(v) \cap free' = {}
    BY <1>0, <1>5 DEF FreeNodeCb, IInv, Grace, ListTypeOK, OneRole
  <2> QED
    BY <1>0, <1>5, <2>1, FreeAwayInv DEF FreeNodeCb
<1>6. ASSUME NEW r \in Readers, SearchStep(r) PROVE ListInv'
  BY <1>0, <1>6, SearchFrame, SearchInv DEF ReaderFrame
<1>7. ASSUME NEW r \in Readers, NEW k \in Keys, SearchCall(r, k) PROVE ListInv'
  BY <1>0, <1>7, SearchInv DEF SearchCall, ReaderFrame
<1> QED
  BY <1>3, <1>4, <1>5, <1>6, <1>7 DEF Next

\* The bucket an open search is in.
LEMMA ReaderBucket ==
  ASSUME IInv, NEW r \in Readers, rpc[r] # "idle"
  PROVE  want[r] \in Keys /\ want[r] \in Nat /\ Bucket(r) \in Buckets
BY BucketRange, HashListAssumption DEF IInv, TypeOK, ListTypeOK, SearchInvariant, Bucket

\* Every step keeps the types.
LEMMA TypeStep ==
  ASSUME IInv, Next
  PROVE  TypeOK'
<1>0. ListTypeOK' /\ TypeOK
  BY ListStep DEF IInv, ListInv
<1>1. ASSUME NEW w \in Writers, UpdateStep(w) PROVE TypeOK'
  <2>1. UNCHANGED <<crew, readerVars>> /\ gen' \in [Buckets -> Nat]
    BY <1>0, <1>1 DEF UpdateStep, CountUnlock, TypeOK
  <2>2. waiting' \in [Nodes -> SUBSET Readers] /\ pending' \subseteq Nodes
    <3>1. CASE UNCHANGED <<waiting, pending>>
      BY <1>0, <3>1 DEF TypeOK
    <3>2. CASE Retire(w) /\ CallRcu(w)
      <4>1. wcur[w] \in Nodes
        BY <3>2, RetiredNode DEF Retire, IInv
      <4>2. UNION {holders[b] : b \in Buckets} \in SUBSET Readers
        BY <1>0 DEF TypeOK
      <4> QED
        BY <1>0, <3>2, <4>1, <4>2 DEF TypeOK, CallRcu
    <3> QED
      BY <1>1, <3>1, <3>2 DEF UpdateStep, Retire, FreeLate, FreeAtOnce
  <2> QED
    BY <1>0, <2>1, <2>2 DEF TypeOK, readerVars
<1>2. ASSUME NEW w \in Writers, UNCHANGED <<syncVars, readerVars>> PROVE TypeOK'
  BY <1>0, <1>2 DEF TypeOK, syncVars, readerVars
<1>3. ASSUME NEW n \in Nodes, FreeNodeCb(n) PROVE TypeOK'
  BY <1>0, <1>3 DEF TypeOK, FreeNodeCb, readerVars
<1>4. ASSUME NEW r \in Readers, SearchStep(r) PROVE TypeOK'
  <2>0. rpc[r] # "idle"
    BY <1>4 DEF SearchStep, LockR, LockRWhen, ReadHead, Validate, ReadKey, ReadNext,
                SearchRetry, UnlockR, FinishWith
  <2>1. Bucket(r) \in Buckets /\ ReaderFrame
    BY <1>4, <2>0, ReaderBucket, SearchFrame
  <2>2. /\ gen[Bucket(r)] \in Nat /\ head[Bucket(r)] \in NodePtr
        /\ UNCHANGED <<crew, gen, pending>>
    BY <1>0, <2>1 DEF TypeOK, ListTypeOK, ReaderFrame
  <2>3. ASSUME NEW n \in NodePtr, Visit(r, n) PROVE TypeOK'
    BY <1>0, <2>2, <2>3 DEF TypeOK, Visit, Jump, ReaderPc
  <2>4. CASE LockR(r)
    BY <1>0, <2>1, <2>2, <2>4 DEF TypeOK, LockR, LockRWhen, Jump, ReaderPc
  <2>5. CASE ReadHead(r)
    BY <2>2, <2>3, <2>5 DEF ReadHead
  <2>6. CASE Validate(r)
    BY <1>0, <2>2, <2>6 DEF TypeOK, Validate, Jump, ReaderPc
  <2>7. CASE ReadKey(r) \/ ReadNext(r)
    <3>1. cur[r] \in Nodes
      BY <1>0, <2>7 DEF ReadKey, ReadNext, IInv, SearchInvariant, TypeOK, NodePtr
    <3>2. key[cur[r]] \in Nat /\ next[cur[r]] \in NodePtr
      BY <1>0, <3>1 DEF TypeOK, ListTypeOK
    <3>3. CASE ReadKey(r)
      BY <1>0, <2>2, <3>2, <3>3 DEF TypeOK, ReadKey, Jump, ReaderPc
    <3>4. CASE ReadNext(r)
      BY <2>3, <3>2, <3>4 DEF ReadNext
    <3> QED
      BY <2>7, <3>3, <3>4
  <2>8. CASE SearchRetry(r)
    BY <1>0, <2>1, <2>2, <2>8 DEF TypeOK, SearchRetry, Leave, Jump, ReaderPc, NodePtr
  <2>9. CASE UnlockR(r)
    BY <1>0, <2>1, <2>2, <2>9
       DEF TypeOK, UnlockR, FinishWith, Leave, Jump, ReaderPc, NodePtr
  <2> QED
    BY <1>4, <2>4, <2>5, <2>6, <2>7, <2>8, <2>9 DEF SearchStep
<1>5. ASSUME NEW r \in Readers, NEW k \in Keys, SearchCall(r, k) PROVE TypeOK'
  BY <1>0, <1>5 DEF TypeOK, SearchCall, ReaderFrame, Jump, ReaderPc
<1> QED
  BY <1>1, <1>2, <1>3, <1>4, <1>5 DEF Next

(***************************************************************************)
(* The updaters and the readers                                            *)
(***************************************************************************)
\* What an updater leaves alone, and what it only adds to.
LEMMA WriterFrame ==
  ASSUME IInv, NEW w \in Writers, Writer(w)
  PROVE  /\ UNCHANGED <<crew, holders, rpc, cur, cur_key, rgen, want>>
         /\ \A r \in Readers : seen[r] \subseteq seen'[r]
         /\ \A r \in Readers : Bucket(r)' = Bucket(r) /\ Inside(r)' = Inside(r)
         /\ build' = build
<1>1. UNCHANGED <<crew, holders, rpc, cur, cur_key, rgen>>
  BY DEF Writer, UpdateStep, syncVars, readerVars
<1>2. UNCHANGED want /\ \A r \in Readers : seen[r] \subseteq seen'[r]
  <2>1. CASE Retire(w) \/ FreeLate(w)
    BY <2>1 DEF Retire, FreeLate, searchVars
  <2>2. CASE Call(w) \/ WriterStep(w)
    BY <2>2, WriterStable DEF IInv, Call, InsertCall, DeleteCall
  <2> QED
    BY <2>1, <2>2 DEF Writer, UpdateStep
<1> QED
  BY <1>1, <1>2 DEF Bucket, Inside, build

\* No counter goes back, and a lock that is let go is counted; a bucket is
\* locked only by a call that found it free of readers, if they are to wait.
LEMMA WriterLocks ==
  ASSUME IInv, NEW w \in Writers, Writer(w), NEW b \in Buckets
  PROVE  /\ gen[b] \in Nat /\ gen'[b] \in Nat /\ gen[b] <= gen'[b]
         /\ Counting /\ gen'[b] = gen[b] /\ lock'[b] = NULL => lock[b] = NULL
         /\ Counting /\ gen'[b] = gen[b] /\ lock[b] # NULL => lock'[b] # NULL
         /\ Exclusive /\ lock[b] = NULL /\ lock'[b] # NULL => holders[b] = {}
<1>0. gen[b] \in Nat /\ TypeOK /\ ListTypeOK /\ OwnsBucket
  BY DEF IInv, ListInv, TypeOK
<1>1. CASE Call(w) /\ UNCHANGED <<syncVars, readerVars>>
  BY <1>0, <1>1 DEF Call, InsertCall, DeleteCall, BeginCall, syncVars
<1>2. CASE UpdateStep(w)
  <2>1. gen'[b] = IF Counting /\ lock[b] # NULL /\ lock'[b] = NULL THEN gen[b] + 1 ELSE gen[b]
    BY <1>2 DEF UpdateStep, CountUnlock
  <2>2. CASE LockW(w)
    <3>1. wkey[w] \in Keys /\ WriterBucket(w) \in Buckets
      BY <1>0, <2>2, BucketRange, HashListAssumption DEF LockW, OwnsBucket, WriterBucket
    <3>2. lock'[b] # lock[b] => b = WriterBucket(w)
      BY <1>0, <2>2, <3>1 DEF LockW, ListTypeOK
    <3>3. Exclusive => holders[WriterBucket(w)] = {}
      BY <1>2, <2>2 DEF UpdateStep, LockW
    <3> QED
      BY <1>0, <2>1, <3>2, <3>3
  <2>3. CASE ~LockW(w)
    <3>1. lock'[b] = lock[b] \/ lock'[b] = NULL
      <4>1. CASE WriterStep(w)
        BY <1>0, <2>3, <4>1 DEF WriterStep, Step, Miss, Unlink, FreeNode, NewNode, SetKey,
                               SetNext, Link, UnlockW, ListTypeOK
      <4>2. CASE Retire(w) \/ FreeLate(w)
        BY <1>0, <4>2 DEF Retire, FreeLate, ListTypeOK
      <4> QED
        BY <1>2, <4>1, <4>2 DEF UpdateStep
    <3> QED
      BY <1>0, <2>1, <3>1
  <2> QED
    BY <2>2, <2>3
<1> QED
  BY <1>1, <1>2 DEF Writer

\* A reader that finds its bucket's counter as it was found it so before.
LEMMA WriterUnmoved ==
  ASSUME IInv, NEW w \in Writers, Writer(w), NEW r \in Readers, Inside(r)
  PROVE  rgen[r] <= gen'[Bucket(r)] /\ (Unmoved(r)' => Unmoved(r))
<1>1. Bucket(r) \in Buckets /\ rgen[r] \in Nat /\ rgen[r] <= gen[Bucket(r)]
  BY ReaderBucket DEF IInv, TypeOK, SearchInvariant, Inside
<1>2. /\ rgen' = rgen /\ Bucket(r)' = Bucket(r) /\ build' = build
      /\ Counting' = Counting
  BY WriterFrame DEF Counting
<1>3. /\ gen[Bucket(r)] \in Nat /\ gen'[Bucket(r)] \in Nat
      /\ gen[Bucket(r)] <= gen'[Bucket(r)]
      /\ Counting /\ gen'[Bucket(r)] = gen[Bucket(r)] /\ lock'[Bucket(r)] = NULL =>
           lock[Bucket(r)] = NULL
  BY <1>1, WriterLocks
<1> QED
  BY <1>1, <1>2, <1>3 DEF Unmoved

\* A node given to call_rcu is left alone by insert and delete.
LEMMA PendingApart ==
  ASSUME IInv, NEW n \in pending, NEW w \in Writers
  PROVE  n \in Nodes /\ n \notin live \cup free \cup Held(w)
BY DEF IInv, TypeOK, Grace

\* Which nodes wait for which readers after a step of an updater.
LEMMA WriterWaiting ==
  ASSUME IInv, NEW w \in Writers, Writer(w), NEW r \in Readers, NEW n \in Nodes
  PROVE  /\ r \in waiting[n] => r \in waiting'[n]
         /\ r \in waiting'[n] /\ r \notin waiting[n] =>
              /\ build = "RCU" /\ wpc[w] = "retire" /\ n = wcur[w] /\ Inside(r)
              /\ pending' = pending \cup {n} /\ UNCHANGED <<memVars, live, searchVars>>
<1>1. CASE UNCHANGED waiting
  BY <1>1
<1>2. CASE Retire(w) /\ build = "RCU" /\ CallRcu(w)
  <2>1. Held(w) = {wcur[w]} /\ wcur[w] \in Nodes
    BY <1>2, RetiredNode DEF Retire, IInv
  <2>2. \A s \in waiting[wcur[w]] : FALSE
    BY <2>1 DEF IInv, Grace
  <2>3. /\ n # wcur[w] => waiting'[n] = waiting[n]
        /\ waiting'[wcur[w]] = UNION {holders[b] : b \in Buckets}
        /\ pending' = pending \cup {wcur[w]}
    BY <1>2, <2>1 DEF CallRcu, IInv, TypeOK
  <2>4. r \in waiting'[wcur[w]] => Inside(r)
    BY <2>3 DEF IInv, Holding
  <2>5. UNCHANGED <<memVars, live, searchVars>> /\ wpc[w] = "retire"
    BY <1>2 DEF Retire
  <2>6. CASE n = wcur[w]
    BY <1>2, <2>2, <2>3, <2>4, <2>5, <2>6
  <2>7. CASE n # wcur[w]
    BY <2>3, <2>7
  <2> QED
    BY <2>6, <2>7
<1> QED
  BY <1>1, <1>2 DEF Writer, UpdateStep, Retire, FreeLate, FreeAtOnce, syncVars, FreesLate

(***************************************************************************)
(* The heart of the matter, build by build: whatever a delete frees, or    *)
(* lets out of its hands, is not a node of the bucket of a reader that     *)
(* would still believe what it read there.                                 *)
(***************************************************************************)
LEMMA WriterGuards ==
  ASSUME IInv, NEW w \in Writers, Writer(w), NEW r \in Readers, Inside(r), Unmoved(r)',
         NEW n \in Nodes, Guarded(r, n), BucketOf(key[n]) = Bucket(r)
  PROVE  Guarded(r, n)' /\ key'[n] = key[n]
<1>0. ListInv /\ TypeOK /\ Bucket(r) \in Buckets /\ build \in Builds /\ r \in holders[Bucket(r)]
  BY ReaderBucket, BuildRange DEF IInv, Inside, Holding
<1>1. CASE r \in waiting[n]
  <2>1. r \in waiting'[n]
    BY <1>1, WriterWaiting
  <2>2. n \in pending
    BY <1>1 DEF IInv, Grace
  <2>3. key'[n] = key[n]
    <3>1. CASE Retire(w) \/ FreeLate(w)
      BY <3>1 DEF Retire, FreeLate, memVars
    <3>2. CASE Call(w) \/ WriterStep(w)
      BY <1>0, <2>2, <3>2, PendingApart, ApartStable DEF Call, InsertCall, DeleteCall
    <3> QED
      BY <3>1, <3>2 DEF Writer, UpdateStep
  <2> QED
    BY <2>1, <2>3 DEF Guarded
<1>2. CASE Unfreed(n)
  <2>1. CASE Call(w) \/ WriterStep(w)
    BY <1>0, <1>2, <2>1, WriterStable DEF Call, InsertCall, DeleteCall, Guarded
  <2>2. CASE FreeLate(w)
    <3>1. UNCHANGED <<live, key>>
      BY <2>2 DEF FreeLate, memVars
    <3>2. \A v \in Writers : wpc[v] = "retire" => wpc'[v] = "retire" /\ wcur'[v] = wcur[v]
      BY <1>0, <2>2 DEF FreeLate, GoTo, TypeOK, ListTypeOK
    <3> QED
      BY <1>2, <3>1, <3>2 DEF Guarded, Unfreed
  <2>3. CASE UpdateStep(w) /\ Retire(w)
    <3>1. UNCHANGED <<live, key, wcur>> /\ wpc[w] = "retire"
      BY <2>3 DEF Retire, memVars
    <3>2. \A v \in Writers : v # w => wpc'[v] = wpc[v]
      BY <1>0, <2>3 DEF Retire, GoTo, TypeOK, ListTypeOK
    <3>3. CASE n # wcur[w]
      BY <1>2, <3>1, <3>2, <3>3 DEF Guarded, Unfreed
    <3>4. CASE n = wcur[w] /\ build = "RCU"
      <4>1. r \in waiting'[n]
        BY <1>0, <2>3, <3>4 DEF Retire, FreesLate, CallRcu, TypeOK
      <4> QED
        BY <3>1, <4>1 DEF Guarded
    <3>5. CASE n = wcur[w] /\ build # "RCU"
      <4>1. WriterBucket(w) = Bucket(r) /\ lock[Bucket(r)] = w /\ w # NULL
        BY <1>0, <3>1, <3>5, RetiredNode, ListLockAssumption, HashListAssumption
      <4>2. ~Exclusive
        BY <1>0, <4>1 DEF IInv, Holding
      <4>3. Counting /\ build' = build /\ Counting' = Counting
        BY <1>0, <3>5, <4>2, WriterFrame DEF Counting, Exclusive, Builds
      <4>4. CASE FreesLate
        <5>1. lock'[Bucket(r)] = NULL
          BY <1>0, <2>3, <4>1, <4>4 DEF Retire, TypeOK, ListTypeOK
        <5>2. gen'[Bucket(r)] = gen[Bucket(r)] + 1
          BY <1>0, <2>3, <4>1, <4>3, <5>1 DEF UpdateStep, CountUnlock
        <5>3. gen[Bucket(r)] \in Nat /\ rgen[r] \in Nat /\ rgen[r] <= gen[Bucket(r)]
          BY <1>0 DEF IInv, TypeOK, SearchInvariant
        <5>4. gen'[Bucket(r)] = rgen[r]
          BY <4>3, WriterFrame DEF Unmoved
        <5> QED
          BY <5>2, <5>3, <5>4
      <4>5. CASE ~FreesLate
        <5>1. build = "SEQLOCK"
          BY <4>3, <4>5 DEF Counting, FreesLate
        <5>2. lock' = lock
          BY <2>3, <4>5 DEF Retire
        <5>3. lock'[Bucket(r)] = NULL
          BY <4>3, <5>1, WriterFrame DEF Unmoved
        <5> QED
          BY <4>1, <5>2, <5>3
      <4> QED
        BY <4>4, <4>5
    <3> QED
      BY <3>3, <3>4, <3>5
  <2> QED
    BY <2>1, <2>2, <2>3 DEF Writer, UpdateStep
<1> QED
  BY <1>1, <1>2 DEF Guarded

\* A node that is fit for a reader remains so.
LEMMA WriterFit ==
  ASSUME IInv, NEW w \in Writers, Writer(w), NEW r \in Readers, Inside(r), Unmoved(r)',
         NEW n \in NodePtr, Leads(r, n)
  PROVE  /\ n # NULL => Fit(r, n)' /\ key'[n] = key[n]
         /\ n = NULL => 0 \in seen'[r]
<1>1. want' = want /\ Bucket(r)' = Bucket(r) /\ seen[r] \subseteq seen'[r]
  BY WriterFrame
<1>2. CASE n = NULL
  BY <1>1, <1>2 DEF Leads
<1>3. CASE n # NULL
  <2>1. n \in Nodes /\ Fit(r, n)
    BY <1>3 DEF Leads, NodePtr
  <2>2. Guarded(r, n)' /\ key'[n] = key[n]
    BY <2>1, WriterGuards DEF Fit
  <2> QED
    BY <1>1, <1>3, <2>1, <2>2 DEF Fit
<1> QED
  BY <1>2, <1>3

\* What a reader has concluded stands while updaters go on.
LEMMA WriterKeepsSearch ==
  ASSUME IInv, NEW w \in Writers, Writer(w), NEW r \in Readers
  PROVE  SearchInvariant(r)'
<1>1. /\ UNCHANGED <<rpc, cur, cur_key, rgen, want>>
      /\ Bucket(r)' = Bucket(r) /\ Inside(r)' = Inside(r)
  BY WriterFrame
<1>2. SearchInvariant(r) /\ cur[r] \in NodePtr
  BY DEF IInv, TypeOK
<1>3. Inside(r) => rgen[r] <= gen'[Bucket(r)] /\ (Unmoved(r)' => Unmoved(r))
  BY WriterUnmoved
<1>4. ASSUME Inside(r), Unmoved(r)'
      PROVE  /\ rpc[r] # "head" => Leads(r, cur[r])'
             /\ rpc[r] = "next" => key'[cur[r]] < want[r]
             /\ rpc[r] = "unlock" /\ cur[r] # NULL =>
                  cur_key[r] = key'[cur[r]] /\ key'[cur[r]] >= want[r]
  <2>1. CASE rpc[r] = "head"
    BY <2>1
  <2>2. CASE rpc[r] # "head"
    <3>1. Leads(r, cur[r])
      BY <1>2, <1>3, <1>4, <2>2 DEF SearchInvariant
    <3>2. /\ cur[r] # NULL => Fit(r, cur[r])' /\ key'[cur[r]] = key[cur[r]]
          /\ cur[r] = NULL => 0 \in seen'[r]
      <4>1. PICK n \in NodePtr : n = cur[r]
        BY <1>2
      <4>2. /\ n # NULL => Fit(r, n)' /\ key'[n] = key[n]
            /\ n = NULL => 0 \in seen'[r]
        BY <1>4, <3>1, <4>1, WriterFit
      <4> QED
        BY <1>1, <4>1, <4>2 DEF Fit, Guarded, Unfreed
    <3>3. Leads(r, cur[r])'
      BY <1>1, <3>2 DEF Leads
    <3> QED
      BY <1>2, <1>3, <1>4, <3>2, <3>3 DEF SearchInvariant
  <2> QED
    BY <2>1, <2>2
<1> QED
  BY <1>1, <1>2, <1>3, <1>4 DEF SearchInvariant

\* An unlinked node goes on leading where it led when it was unlinked.
LEMMA WriterKeepsPending ==
  ASSUME IInv, NEW w \in Writers, Writer(w), NEW r \in Readers
  PROVE  PendingLeads(r)'
<1>0. UNCHANGED want /\ Bucket(r)' = Bucket(r) /\ Inside(r)' = Inside(r) /\ build' = build
  BY WriterFrame
<1> SUFFICES ASSUME NEW n \in Nodes, r \in waiting'[n],
                    BucketOf(key'[n]) = Bucket(r), key'[n] < want[r]
             PROVE  Leads(r, next[n])'
  BY <1>0 DEF PendingLeads
<1>1. CASE r \in waiting[n]
  <2>1. n \in pending /\ Inside(r) /\ Unmoved(r)'
    BY <1>0, <1>1 DEF IInv, Grace, Unmoved, Counting
  <2>2. key'[n] = key[n] /\ next'[n] = next[n]
    <3>1. CASE Retire(w) \/ FreeLate(w)
      BY <3>1 DEF Retire, FreeLate, memVars
    <3>2. CASE Call(w) \/ WriterStep(w)
      BY <2>1, <3>2, PendingApart, ApartStable DEF IInv, Call, InsertCall, DeleteCall
    <3> QED
      BY <3>1, <3>2 DEF Writer, UpdateStep
  <2>3. Leads(r, next[n])
    BY <1>1, <2>2 DEF IInv, PendingLeads
  <2>4. PICK m \in NodePtr : m = next[n]
    BY DEF IInv, TypeOK, ListTypeOK
  <2>5. /\ m # NULL => Fit(r, m)' /\ key'[m] = key[m]
        /\ m = NULL => 0 \in seen'[r]
    BY <2>1, <2>3, <2>4, WriterFit
  <2> QED
    BY <2>2, <2>4, <2>5 DEF Leads, Fit, Guarded, Unfreed
<1>2. CASE r \notin waiting[n]
  <2>1. /\ wpc[w] = "retire" /\ n = wcur[w] /\ Inside(r)
        /\ UNCHANGED <<key, next, live, want, seen>>
    BY <1>2, WriterWaiting DEF memVars, searchVars
  <2>2. want[r] \in Keys /\ Unfreed(n)
    BY <2>1, ReaderBucket DEF Inside, Unfreed
  <2>3. /\ next[n] = NULL => 0 \in seen[r]
        /\ next[n] # NULL => /\ next[n] \in live
                             /\ BucketOf(key[next[n]]) = BucketOf(want[r])
                             /\ key[next[n]] = want[r] => 1 \in seen[r]
                             /\ key[next[n]] > want[r] => 0 \in seen[r]
    BY <2>1, <2>2, NextAnswers DEF IInv, Bucket
  <2> QED
    BY <2>1, <2>3 DEF Leads, Fit, Guarded, Unfreed, Bucket
<1> QED
  BY <1>1, <1>2

\* The locks keep excluding, and what is given to call_rcu stays apart.
LEMMA WriterKeepsHolding ==
  ASSUME IInv, NEW w \in Writers, Writer(w)
  PROVE  Holding' /\ Grace'
<1>0. /\ UNCHANGED holders /\ build' = build /\ Exclusive' = Exclusive
      /\ \A r \in Readers : Bucket(r)' = Bucket(r) /\ Inside(r)' = Inside(r)
  BY WriterFrame DEF Exclusive
<1>1. Holding'
  BY <1>0, WriterLocks DEF IInv, Holding
<1>2. Grace'
  <2>1. \A r \in Readers, n \in Nodes : r \in waiting'[n] => n \in pending' /\ Inside(r)'
    <3> SUFFICES ASSUME NEW r \in Readers, NEW n \in Nodes, r \in waiting'[n]
                 PROVE  n \in pending' /\ Inside(r)
      BY <1>0
    <3>1. CASE r \in waiting[n]
      BY <3>1 DEF IInv, Grace, Writer, UpdateStep, Retire, CallRcu, FreeAtOnce, FreeLate, syncVars
    <3>2. CASE r \notin waiting[n]
      BY <3>2, WriterWaiting
    <3> QED
      BY <3>1, <3>2
  <2>2. waiting' \in [Nodes -> SUBSET Readers]
    BY TypeStep DEF Next, Writer, TypeOK
  <2>3. /\ build # "RCU" => pending' = {}
        /\ pending' \cap (live' \cup free') = {}
        /\ \A v \in Writers : Held(v)' \cap pending' = {}
    <3>1. CASE (Call(w) \/ WriterStep(w)) /\ UNCHANGED pending
      <4>1. \A n \in pending : n \notin live' \cup free' \cup Held(w)'
        BY <3>1, PendingApart, ApartStable DEF IInv, Call, InsertCall, DeleteCall
      <4>2. \A v \in Writers : v # w => Held(v)' = Held(v)
        BY <3>1, ApartStable DEF IInv, Call, InsertCall, DeleteCall
      <4> QED
        BY <3>1, <4>1, <4>2 DEF IInv, Grace
    <3>2. CASE Retire(w)
      <4>1. \A v \in Writers : v # w => Held(v)' = Held(v)
        BY <3>2 DEF Retire, GoTo, Held, IInv, ListInv, ListTypeOK
      <4>2. UNCHANGED live
        BY <3>2 DEF Retire
      <4>3. Held(w) = {wcur[w]} /\ wcur[w] \notin live /\ wcur[w] \notin free
        BY <3>2, RetiredNode DEF Retire, IInv
      <4>4. CASE FreesLate
        <5>1. Held(w)' = Held(w)
          BY <3>2, <4>4 DEF Retire, GoTo, Held, IInv, ListInv, ListTypeOK
        <5>2. UNCHANGED <<pending, free>>
          BY <3>2, <4>4 DEF Retire
        <5> QED
          BY <4>1, <4>2, <5>1, <5>2 DEF IInv, Grace
      <4>5. CASE ~FreesLate
        <5>1. Held(w)' = {}
          BY <3>2, <4>5 DEF Retire, GoTo, Held, IInv, ListInv, ListTypeOK
        <5>2. CASE build = "RCU"
          <6>1. pending' = pending \cup {wcur[w]} /\ free' = free
            BY <3>2, <4>5, <5>2 DEF Retire, CallRcu
          <6>2. \A v \in Writers : v # w => wcur[w] \notin Held(v)
            BY <4>3 DEF IInv, ListInv, OneRole
          <6> QED
            BY <4>1, <4>2, <4>3, <5>1, <5>2, <6>1, <6>2 DEF IInv, Grace
        <5>3. CASE build # "RCU"
          <6>1. pending' = {}
            BY <3>2, <4>5, <5>3 DEF Retire, FreeAtOnce, IInv, Grace
          <6> QED
            BY <6>1
        <5> QED
          BY <5>2, <5>3
      <4> QED
        BY <4>4, <4>5
    <3>3. CASE FreeLate(w)
      <4>1. /\ \A v \in Writers : v # w => Held(v)' = Held(v)
            /\ Held(w)' = {} /\ Held(w) = {wcur[w]}
        BY <3>3 DEF FreeLate, GoTo, Held, IInv, ListInv, ListTypeOK
      <4> QED
        BY <3>3, <4>1 DEF FreeLate, FreeAtOnce, IInv, Grace
    <3> QED
      BY <3>1, <3>2, <3>3 DEF Writer, UpdateStep, syncVars
  <2> QED
    BY <1>0, <2>1, <2>2, <2>3 DEF Grace
<1> QED
  BY <1>1, <1>2

\* free_node_cb frees a node no reader inside can be on.
LEMMA CallbackKeeps ==
  ASSUME IInv, NEW c \in Nodes, FreeNodeCb(c)
  PROVE  /\ Holding' /\ Grace'
         /\ \A r \in Readers : SearchInvariant(r)' /\ PendingLeads(r)'
<1>1. /\ UNCHANGED <<head, key, next, lock, live, wpc, wcur, wnew, want, seen, crew, gen, waiting>>
      /\ UNCHANGED <<holders, rpc, cur, cur_key, rgen>>
      /\ pending' = pending \ {c} /\ free' = free \cup {c} /\ c \in pending /\ waiting[c] = {}
  BY DEF FreeNodeCb, memVars, writerVars, searchVars, readerVars
<1>2. \A n : Unfreed(n)' = Unfreed(n)
  BY <1>1 DEF Unfreed
<1>3. \A r \in Readers : \A n : Guarded(r, n)' = Guarded(r, n)
  BY <1>1, <1>2 DEF Guarded
<1>4. \A r \in Readers : \A n : Leads(r, n)' = Leads(r, n)
  BY <1>1, <1>3 DEF Leads, Fit, Bucket
<1>5. \A r \in Readers : Inside(r)' = Inside(r) /\ Unmoved(r)' = Unmoved(r) /\ Bucket(r)' = Bucket(r)
  BY <1>1 DEF Inside, Unmoved, Bucket, Counting, build
<1>6. \A r \in Readers : Leads(r, cur[r])' = Leads(r, cur[r])
  BY <1>1, <1>3 DEF Leads, Fit, Guarded, Unfreed, Bucket
<1>7. \A r \in Readers : SearchInvariant(r)'
  BY <1>1, <1>5, <1>6 DEF IInv, SearchInvariant
<1>8. \A r \in Readers, n \in Nodes : Leads(r, next[n])' = Leads(r, next[n])
  BY <1>1, <1>3 DEF Leads, Fit, Guarded, Unfreed, Bucket
<1>9. \A r \in Readers : PendingLeads(r)'
  BY <1>1, <1>5, <1>8 DEF IInv, PendingLeads
<1>10. Holding'
  BY <1>1, <1>5 DEF IInv, Holding, Exclusive, build
<1>11. Grace'
  <2>1. \A w \in Writers : Held(w)' = Held(w)
    BY <1>1 DEF Held
  <2>2. \A n \in Nodes : \A r \in waiting[n] : r \in Readers
    BY DEF IInv, TypeOK
  <2> QED
    BY <1>1, <1>5, <2>1, <2>2 DEF IInv, Grace, build
<1> QED
  BY <1>7, <1>9, <1>10, <1>11

(***************************************************************************)
(* The steps of search                                                     *)
(***************************************************************************)
\* The variables of a reader are unchanged by the steps of another one.
SameLocals(s) ==
  /\ rpc'[s] = rpc[s] /\ cur'[s] = cur[s] /\ cur_key'[s] = cur_key[s] /\ rgen'[s] = rgen[s]
  /\ want'[s] = want[s] /\ seen'[s] = seen[s]
  /\ \A b \in Buckets : s \in holders'[b] <=> s \in holders[b]
  /\ \A n \in Nodes : s \in waiting'[n] <=> s \in waiting[n]

\* What no step of a reader changes, and what follows from it.
LEMMA ReaderQuiet ==
  ASSUME IInv, NEW r \in Readers, Reader(r)
  PROVE  /\ UNCHANGED <<head, key, next, lock, free, live, wpc, wcur, wnew, crew, gen, pending>>
         /\ build' = build /\ Exclusive' = Exclusive /\ Counting' = Counting
         /\ \A n : Unfreed(n)' = Unfreed(n)
         /\ \A w \in Writers : Held(w)' = Held(w)
<1>1. UNCHANGED <<head, key, next, lock, free, live, wpc, wcur, wnew, crew, gen, pending>>
  BY SearchFrame DEF Reader, SearchCall, ReaderFrame, memVars, writerVars
<1> QED
  BY <1>1 DEF build, Exclusive, Counting, Unfreed, Held

\* A step of one reader touches no variable of another.
LEMMA ReaderLocals ==
  ASSUME IInv, NEW r \in Readers, Reader(r), NEW s \in Readers, s # r
  PROVE  SameLocals(s)
<1> USE DEF IInv, TypeOK, ListTypeOK, Jump, searchVars, SameLocals
<1>0. rpc[r] # "idle" => Bucket(r) \in Buckets
  BY ReaderBucket
<1>1. CASE LockR(r)
  BY <1>0, <1>1 DEF LockR, LockRWhen
<1>2. CASE Validate(r) \/ ReadKey(r)
  BY <1>2 DEF Validate, ReadKey
<1>3. CASE ReadHead(r) \/ ReadNext(r)
  BY <1>3 DEF ReadHead, ReadNext, Visit
<1>4. CASE SearchRetry(r)
  BY <1>0, <1>4 DEF SearchRetry, Leave
<1>5. CASE UnlockR(r)
  BY <1>0, <1>5 DEF UnlockR, FinishWith, Leave, EndSearch
<1>6. CASE \E k \in Keys : SearchCall(r, k)
  BY <1>6 DEF SearchCall, BeginSearch
<1> QED
  BY <1>1, <1>2, <1>3, <1>4, <1>5, <1>6 DEF Reader, SearchStep

\* So what one reader does is invisible to the others.
LEMMA OtherReaders ==
  ASSUME IInv, NEW r \in Readers, Reader(r), NEW s \in Readers, s # r
  PROVE  /\ SearchInvariant(s)' /\ PendingLeads(s)'
         /\ Inside(s)' = Inside(s) /\ Bucket(s)' = Bucket(s)
<1>1. SameLocals(s)
  BY ReaderLocals
<1>2. /\ UNCHANGED <<key, next, lock, gen>> /\ build' = build /\ Counting' = Counting
      /\ \A n : Unfreed(n)' = Unfreed(n)
  BY ReaderQuiet
<1>3. Inside(s)' = Inside(s) /\ Bucket(s)' = Bucket(s) /\ Unmoved(s)' = Unmoved(s)
  BY <1>1, <1>2 DEF SameLocals, Inside, Bucket, Unmoved
<1>4. ASSUME NEW n \in NodePtr PROVE Leads(s, n)' = Leads(s, n)
  <2>1. CASE n = NULL
    BY <1>1, <2>1 DEF SameLocals, Leads
  <2>2. CASE n # NULL
    <3>1. Guarded(s, n)' = Guarded(s, n)
      BY <1>1, <1>2, <2>2 DEF SameLocals, Guarded, NodePtr
    <3> QED
      BY <1>1, <1>2, <1>3, <2>2, <3>1 DEF SameLocals, Leads, Fit
  <2> QED
    BY <2>1, <2>2
<1>5. Leads(s, cur[s])' = Leads(s, cur[s])
  <2>1. PICK n \in NodePtr : n = cur[s]
    BY DEF IInv, TypeOK
  <2>2. cur'[s] = n
    BY <1>1, <2>1 DEF SameLocals
  <2>3. Leads(s, n)' = Leads(s, n)
    BY <1>4
  <2> QED
    BY <2>1, <2>2, <2>3 DEF Leads, Fit, Guarded, Unfreed
<1>6. ASSUME NEW m \in Nodes PROVE Leads(s, next[m])' = Leads(s, next[m])
  <2>1. PICK n \in NodePtr : n = next[m]
    BY DEF IInv, TypeOK, ListTypeOK
  <2>2. next'[m] = n
    BY <1>2, <2>1
  <2>3. Leads(s, n)' = Leads(s, n)
    BY <1>4
  <2> QED
    BY <2>1, <2>2, <2>3 DEF Leads, Fit, Guarded, Unfreed
<1>7. SearchInvariant(s) /\ PendingLeads(s)
  BY DEF IInv
<1>8. SearchInvariant(s)'
  BY <1>1, <1>2, <1>3, <1>5, <1>7 DEF SameLocals, SearchInvariant
<1>9. PendingLeads(s)'
  BY <1>1, <1>2, <1>3, <1>6, <1>7 DEF SameLocals, PendingLeads
<1> QED
  BY <1>3, <1>8, <1>9

\* The reader itself is among the holders of its bucket while it is inside,
\* and no node waits for it once it is out.
LEMMA OwnHolding ==
  ASSUME IInv, NEW r \in Readers, Reader(r)
  PROVE  /\ \A b \in Buckets : r \in holders'[b] <=> Inside(r)' /\ Bucket(r)' = b
         /\ \A n \in Nodes : r \in waiting'[n] => r \in waiting[n] /\ Inside(r)'
         /\ \A b \in Buckets : holders'[b] = {} \/ holders'[b] \subseteq holders[b]
                                 \/ (Exclusive => lock[b] = NULL)
<1>0. /\ \A b \in Buckets : r \in holders[b] <=> Inside(r) /\ Bucket(r) = b
      /\ \A n \in Nodes : r \in waiting[n] => Inside(r) /\ ~Counting
      /\ holders \in [Buckets -> SUBSET Readers] /\ waiting \in [Nodes -> SUBSET Readers]
      /\ rpc \in [Readers -> ReaderPc]
  BY DEF IInv, Holding, Grace, TypeOK, Counting
<1>1. rpc[r] # "idle" => Bucket(r) \in Buckets
  BY ReaderBucket
<1>2. CASE LockR(r)
  <2>1. rpc'[r] = "head" /\ Bucket(r)' = Bucket(r) /\ UNCHANGED waiting
    BY <1>0, <1>2 DEF LockR, LockRWhen, Jump, Bucket, searchVars
  <2>2. holders' = [holders EXCEPT ![Bucket(r)] = @ \cup {r}] /\ ~Inside(r)
    BY <1>2 DEF LockR, LockRWhen, Inside
  <2>3. Exclusive => lock[Bucket(r)] = NULL
    BY <1>2 DEF LockR, LockRWhen
  <2>4. Bucket(r) \in Buckets
    BY <1>1, <1>2 DEF LockR, LockRWhen
  <2> QED
    BY <1>0, <2>1, <2>2, <2>3, <2>4 DEF Inside
<1>3. CASE Validate(r) \/ ReadKey(r) \/ ReadHead(r) \/ ReadNext(r)
  <2>1. /\ rpc[r] \notin {"idle", "lock"} /\ rpc'[r] \notin {"idle", "lock"}
        /\ UNCHANGED <<want, waiting, holders>>
    BY <1>0, <1>3 DEF Validate, ReadKey, ReadHead, ReadNext, Visit, Jump, searchVars
  <2> QED
    BY <1>0, <2>1 DEF Inside, Bucket
<1>4. CASE SearchRetry(r)
  <2>1. rpc'[r] = "lock" /\ UNCHANGED waiting /\ Counting
    BY <1>0, <1>4 DEF SearchRetry, Jump, Unmoved
  <2>2. holders' = [holders EXCEPT ![Bucket(r)] = @ \ {r}] /\ Bucket(r) \in Buckets
    BY <1>1, <1>4 DEF SearchRetry, Leave
  <2> QED
    BY <1>0, <2>1, <2>2 DEF Inside
<1>5. CASE UnlockR(r)
  <2>1. rpc'[r] = "idle" /\ \A n \in Nodes : waiting'[n] = waiting[n] \ {r}
    BY <1>0, <1>5 DEF UnlockR, FinishWith, Jump
  <2>2. holders' = [holders EXCEPT ![Bucket(r)] = @ \ {r}] /\ Bucket(r) \in Buckets
    BY <1>1, <1>5 DEF UnlockR, FinishWith, Leave
  <2> QED
    BY <1>0, <2>1, <2>2 DEF Inside
<1>6. CASE \E k \in Keys : SearchCall(r, k)
  <2>1. rpc[r] = "idle" /\ rpc'[r] = "lock" /\ UNCHANGED <<waiting, holders>>
    BY <1>0, <1>6 DEF SearchCall, Jump
  <2> QED
    BY <1>0, <2>1 DEF Inside
<1> QED
  BY <1>2, <1>3, <1>4, <1>5, <1>6 DEF Reader, SearchStep

\* So the holders remain the readers inside, and the locks exclude.
LEMMA ReaderKeepsHolding ==
  ASSUME IInv, NEW r \in Readers, Reader(r)
  PROVE  Holding' /\ Grace'
<1>0. /\ UNCHANGED <<lock, free, live, pending>> /\ build' = build /\ Exclusive' = Exclusive
      /\ \A w \in Writers : Held(w)' = Held(w)
  BY ReaderQuiet
<1>1. \A s \in Readers : s # r => SameLocals(s) /\ Inside(s)' = Inside(s) /\ Bucket(s)' = Bucket(s)
  BY ReaderLocals, OtherReaders
<1>2. TypeOK'
  BY TypeStep DEF Next, Reader
<1>3. Holding'
  <2>1. \A b \in Buckets, s \in Readers : s \in holders'[b] <=> Inside(s)' /\ Bucket(s)' = b
    BY <1>1, OwnHolding DEF SameLocals, IInv, Holding
  <2>2. Exclusive => \A b \in Buckets : lock[b] # NULL => holders'[b] = {}
    BY OwnHolding DEF IInv, Holding
  <2> QED
    BY <1>0, <2>1, <2>2 DEF Holding
<1>4. Grace'
  <2>1. \A n \in Nodes : \A s \in waiting'[n] : s \in Readers /\ n \in pending' /\ Inside(s)'
    BY <1>0, <1>1, <1>2, OwnHolding DEF SameLocals, TypeOK, IInv, Grace
  <2> QED
    BY <1>0, <2>1 DEF IInv, Grace
<1> QED
  BY <1>3, <1>4

\* What follows a node before the key that is fit is fit, whether the node is
\* linked, just unlinked or given to call_rcu.
LEMMA FitLeads ==
  ASSUME IInv, NEW r \in Readers, Inside(r), NEW c \in Nodes, Fit(r, c), key[c] < want[r]
  PROVE  Leads(r, next[c])
<1>1. want[r] \in Keys
  BY ReaderBucket DEF Inside
<1>2. CASE r \in waiting[c]
  BY <1>2 DEF IInv, PendingLeads, Fit
<1>3. CASE Unfreed(c)
  <2>1. BucketOf(key[c]) = BucketOf(want[r])
    BY DEF Fit, Bucket
  <2> QED
    BY <1>1, <1>3, <2>1, NextAnswers DEF IInv, Leads, Fit, Guarded, Unfreed, Bucket
<1> QED
  BY <1>2, <1>3 DEF Fit, Guarded

\* What a reader knows of a node stays true over a step that goes on.
LEMMA LeadsFrame ==
  ASSUME IInv, NEW r \in Readers, Reader(r), UNCHANGED <<searchVars, waiting>>, NEW n
  PROVE  Leads(r, n)' = Leads(r, n)
<1>1. UNCHANGED <<key, want, seen, waiting>> /\ Unfreed(n)' = Unfreed(n)
  BY ReaderQuiet DEF searchVars
<1> QED
  BY <1>1 DEF Leads, Fit, Guarded, Bucket

\* A step that goes on without lock_rlock compares with the same counter.
LEMMA UnmovedFrame ==
  ASSUME IInv, NEW r \in Readers, Reader(r), UNCHANGED <<searchVars, rgen>>
  PROVE  Unmoved(r)' = Unmoved(r) /\ Bucket(r)' = Bucket(r) /\ gen' = gen
BY ReaderQuiet DEF Unmoved, Bucket, searchVars

\* The unlinked nodes lead a reader on as before.
LEMMA OwnPending ==
  ASSUME IInv, NEW r \in Readers, Reader(r)
  PROVE  PendingLeads(r)'
<1>0. \A n \in Nodes : r \in waiting'[n] => r \in waiting[n] /\ Inside(r)'
  BY OwnHolding
<1>1. CASE UNCHANGED <<searchVars, waiting>>
  <2>1. UNCHANGED <<key, next, want>> /\ Bucket(r)' = Bucket(r)
    BY <1>1, ReaderQuiet DEF searchVars, Bucket
  <2>2. ASSUME NEW n \in Nodes PROVE Leads(r, next[n])' = Leads(r, next[n])
    <3>1. PICK m : m = next[n]
      OBVIOUS
    <3>2. Leads(r, m)' = Leads(r, m)
      BY <1>1, LeadsFrame
    <3> QED
      BY <2>1, <3>1, <3>2 DEF Leads, Fit, Guarded, Unfreed
  <2> QED
    BY <1>0, <2>1, <2>2 DEF IInv, PendingLeads
<1>2. CASE ~Inside(r)'
  BY <1>0, <1>2 DEF PendingLeads
<1>3. CASE UnlockR(r) \/ \E k \in Keys : SearchCall(r, k)
  <2>1. ~Inside(r)'
    BY <1>3 DEF UnlockR, FinishWith, SearchCall, Jump, Inside, IInv, TypeOK
  <2> QED
    BY <1>2, <2>1
<1>4. CASE LockR(r) \/ ReadHead(r) \/ Validate(r) \/ ReadKey(r) \/ ReadNext(r) \/ SearchRetry(r)
  BY <1>1, <1>4 DEF LockR, LockRWhen, ReadHead, Validate, ReadKey, ReadNext, SearchRetry, Visit
<1> QED
  BY <1>3, <1>4 DEF Reader, SearchStep

\* The loop starts a turn at a node that is fit if the counter has not moved.
LEMMA OwnVisit ==
  ASSUME IInv, NEW r \in Readers, Reader(r), Inside(r), NEW n \in NodePtr, Visit(r, n),
         Unmoved(r) => Leads(r, n)
  PROVE  SearchInvariant(r)'
<1>1. /\ cur'[r] = n /\ UNCHANGED <<searchVars, waiting, rgen>>
      /\ rpc'[r] = IF n = NULL THEN "unlock" ELSE IF Validates THEN "check" ELSE "key"
  BY DEF Visit, Jump, IInv, TypeOK
<1>2. Leads(r, cur[r])' = Leads(r, n)
  <2>1. Leads(r, n)' = Leads(r, n)
    BY <1>1, LeadsFrame
  <2> QED
    BY <1>1, <2>1 DEF Leads, Fit, Guarded, Unfreed
<1>3. Unmoved(r)' = Unmoved(r) /\ Bucket(r)' = Bucket(r) /\ gen' = gen
  BY <1>1, UnmovedFrame
<1>4. want'[r] = want[r] /\ want[r] # NULL /\ rgen[r] <= gen[Bucket(r)]
  BY <1>1 DEF searchVars, IInv, SearchInvariant, Inside
<1>5. CASE n = NULL
  <2>1. rpc'[r] = "unlock" /\ cur'[r] = NULL
    BY <1>1, <1>5
  <2> QED
    BY <1>1, <1>2, <1>3, <1>4, <2>1 DEF SearchInvariant, Inside
<1>6. CASE n # NULL
  <2>1. rpc'[r] \in {"check", "key"} /\ cur'[r] # NULL
    BY <1>1, <1>6
  <2> QED
    BY <1>1, <1>2, <1>3, <1>4, <2>1 DEF SearchInvariant, Inside
<1> QED
  BY <1>5, <1>6

\* A step of search keeps what the reader relies on.
LEMMA OwnStep ==
  ASSUME IInv, NEW r \in Readers, SearchStep(r)
  PROVE  SearchInvariant(r)'
<1>0. /\ SearchInvariant(r) /\ Reader(r) /\ rpc[r] # "idle"
      /\ want[r] \in Keys /\ want[r] \in Nat /\ Bucket(r) \in Buckets
      /\ gen[Bucket(r)] \in Nat /\ rgen[r] \in Nat
      /\ cur[r] \in NodePtr
  <2>1. rpc[r] # "idle"
    BY DEF SearchStep, LockR, LockRWhen, ReadHead, Validate, ReadKey, ReadNext,
           SearchRetry, UnlockR, FinishWith
  <2> QED
    BY <2>1, ReaderBucket DEF IInv, TypeOK, Reader
<1>1. CASE LockR(r)
  <2>1. /\ rpc'[r] = "head" /\ rgen'[r] = gen[Bucket(r)] /\ cur'[r] = NULL
        /\ want'[r] = want[r] /\ Bucket(r)' = Bucket(r) /\ gen' = gen
    BY <1>0, <1>1, ReaderQuiet
       DEF LockR, LockRWhen, Jump, searchVars, Bucket, IInv, TypeOK, SearchInvariant
  <2> QED
    BY <1>0, <2>1 DEF SearchInvariant
<1>2. CASE ReadHead(r)
  <2>1. head[Bucket(r)] \in NodePtr /\ Inside(r)
    BY <1>0, <1>2 DEF IInv, TypeOK, ListTypeOK, ReadHead, Inside
  <2>2. Leads(r, head[Bucket(r)])
    BY <1>0, HeadAnswers DEF IInv, Bucket, Leads, Fit, Guarded, Unfreed
  <2> QED
    BY <1>0, <1>2, <2>1, <2>2, OwnVisit DEF ReadHead
<1>3. CASE Validate(r)
  <2>1. /\ rpc'[r] = "key" /\ rpc[r] = "check" /\ want'[r] = want[r]
        /\ UNCHANGED <<searchVars, waiting, cur, rgen>>
    BY <1>3 DEF Validate, Jump, searchVars, IInv, TypeOK
  <2>2. Unmoved(r)' = Unmoved(r) /\ Bucket(r)' = Bucket(r) /\ gen' = gen
    BY <1>0, <2>1, UnmovedFrame
  <2>3. Leads(r, cur[r])' = Leads(r, cur[r])
    BY <1>0, <2>1, LeadsFrame DEF Leads, Fit, Guarded, Unfreed
  <2> QED
    BY <1>0, <2>1, <2>2, <2>3 DEF SearchInvariant, Inside
<1>4. CASE ReadKey(r)
  <2>1. /\ rpc'[r] = IF key[cur[r]] >= want[r] THEN "unlock" ELSE "next"
        /\ cur_key'[r] = key[cur[r]] /\ rpc[r] = "key" /\ want'[r] = want[r]
        /\ UNCHANGED <<searchVars, waiting, cur, rgen>> /\ key' = key
    BY <1>0, <1>4, ReaderQuiet DEF ReadKey, Jump, searchVars, IInv, TypeOK
  <2>2. Unmoved(r)' = Unmoved(r) /\ Bucket(r)' = Bucket(r) /\ gen' = gen
    BY <1>0, <2>1, UnmovedFrame
  <2>3. Leads(r, cur[r])' = Leads(r, cur[r])
    BY <1>0, <2>1, LeadsFrame DEF Leads, Fit, Guarded, Unfreed
  <2>4. cur[r] \in Nodes /\ key[cur[r]] \in Nat
    BY <1>0, <2>1 DEF SearchInvariant, NodePtr, IInv, TypeOK, ListTypeOK
  <2>5. CASE key[cur[r]] >= want[r]
    <3>1. rpc'[r] = "unlock"
      BY <2>1, <2>5
    <3> QED
      BY <1>0, <2>1, <2>2, <2>3, <2>5, <3>1 DEF SearchInvariant, Inside
  <2>6. CASE ~(key[cur[r]] >= want[r])
    <3>1. rpc'[r] = "next" /\ key[cur[r]] < want[r]
      BY <1>0, <2>1, <2>4, <2>6
    <3> QED
      BY <1>0, <2>1, <2>2, <2>3, <3>1 DEF SearchInvariant, Inside
  <2> QED
    BY <2>5, <2>6
<1>5. CASE ReadNext(r)
  <2>1. cur[r] \in Nodes /\ next[cur[r]] \in NodePtr /\ Inside(r)
    BY <1>0, <1>5 DEF ReadNext, SearchInvariant, NodePtr, IInv, TypeOK, ListTypeOK, Inside
  <2>2. ASSUME Unmoved(r) PROVE Leads(r, next[cur[r]])
    <3>1. Fit(r, cur[r]) /\ key[cur[r]] < want[r]
      BY <1>0, <1>5, <2>1, <2>2, HashListAssumption DEF ReadNext, SearchInvariant, Leads
    <3> QED
      BY <2>1, <3>1, FitLeads
  <2> QED
    BY <1>0, <1>5, <2>1, <2>2, OwnVisit DEF ReadNext
<1>6. CASE SearchRetry(r)
  <2>1. rpc'[r] = "lock" /\ want'[r] = want[r] /\ cur'[r] = NULL
    BY <1>6 DEF SearchRetry, Leave, Jump, searchVars, IInv, TypeOK
  <2> QED
    BY <1>0, <2>1 DEF SearchInvariant, Inside
<1>7. CASE UnlockR(r)
  <2>1. rpc'[r] = "idle" /\ want'[r] = NULL /\ cur'[r] = NULL
    BY <1>7 DEF UnlockR, FinishWith, Leave, Jump, EndSearch, IInv, TypeOK, ListTypeOK
  <2> QED
    BY <2>1 DEF SearchInvariant, Inside
<1> QED
  BY <1>1, <1>2, <1>3, <1>4, <1>5, <1>6, <1>7 DEF SearchStep

\* A search starts with nothing to rely on.
LEMMA OwnCall ==
  ASSUME IInv, NEW r \in Readers, NEW k \in Keys, SearchCall(r, k)
  PROVE  SearchInvariant(r)'
<1>1. rpc'[r] = "lock" /\ want'[r] = k /\ k # NULL /\ cur'[r] = NULL
  BY HashListAssumption
     DEF SearchCall, BeginSearch, Jump, IInv, TypeOK, ListTypeOK, SearchInvariant
<1> QED
  BY <1>1 DEF SearchInvariant, Inside

(***************************************************************************)
(* The theorems                                                            *)
(***************************************************************************)
LEMMA InitInv == Init => IInv
<1> SUFFICES ASSUME Init PROVE IInv
  OBVIOUS
<1> USE DEF Init
<1>1. ListInv
  BY ListInitInv
<1>2. TypeOK
  BY <1>1 DEF TypeOK, ReaderPc, NodePtr, ListInv
<1>3. \A r \in Readers : rpc[r] = "idle" /\ want[r] = NULL /\ cur[r] = NULL
  BY DEF ListInit
<1>4. Holding
  BY <1>3 DEF Holding, Inside
<1>5. Grace
  BY DEF Grace
<1>6. \A r \in Readers : SearchInvariant(r) /\ PendingLeads(r)
  BY <1>3 DEF SearchInvariant, PendingLeads, Inside
<1> QED
  BY <1>1, <1>2, <1>4, <1>5, <1>6 DEF IInv

\* Every step keeps the inductive invariant.
LEMMA StepInvariant == IInv /\ [Next]_vars => IInv'
<1> SUFFICES ASSUME IInv, [Next]_vars PROVE IInv'
  OBVIOUS
<1>1. CASE Next
  <2>1. TypeOK' /\ ListInv'
    BY <1>1, TypeStep, ListStep
  <2>2. ASSUME NEW w \in Writers, Writer(w) PROVE IInv'
    BY <2>1, <2>2, WriterKeepsHolding, WriterKeepsSearch, WriterKeepsPending DEF IInv
  <2>3. ASSUME NEW n \in Nodes, FreeNodeCb(n) PROVE IInv'
    BY <2>1, <2>3, CallbackKeeps DEF IInv
  <2>4. ASSUME NEW r \in Readers, Reader(r) PROVE IInv'
    <3>1. Holding' /\ Grace'
      BY <2>4, ReaderKeepsHolding
    <3>2. SearchInvariant(r)' /\ PendingLeads(r)'
      BY <2>4, OwnStep, OwnCall, OwnPending DEF Reader
    <3>3. \A s \in Readers : s # r => SearchInvariant(s)' /\ PendingLeads(s)'
      BY <2>4, OtherReaders
    <3> QED
      BY <2>1, <3>1, <3>2, <3>3 DEF IInv
  <2> QED
    BY <1>1, <2>2, <2>3, <2>4 DEF Next, Writer, Reader
<1>2. CASE UNCHANGED vars
  <2> USE <1>2 DEF vars, listVars, memVars, writerVars, searchVars, readerVars, syncVars
  <2>1. ListInv'
    BY FreeAwayInv DEF IInv, ListInv, ListTypeOK, OneRole
  <2>2. TypeOK'
    BY <2>1 DEF IInv, TypeOK, ListInv
  <2>3. /\ \A n : Unfreed(n)' = Unfreed(n)
        /\ \A w \in Writers : Held(w)' = Held(w)
        /\ \A r : Inside(r)' = Inside(r) /\ Bucket(r)' = Bucket(r) /\ Unmoved(r)' = Unmoved(r)
        /\ build' = build /\ Exclusive' = Exclusive
    BY DEF Unfreed, Held, Inside, Bucket, Unmoved, Counting, build, Exclusive
  <2>4. Holding' /\ Grace'
    BY <2>3 DEF IInv, Holding, Grace
  <2>5. \A r \in Readers : SearchInvariant(r)'
    BY <2>3 DEF IInv, SearchInvariant, Leads, Fit, Guarded
  <2>6. \A r \in Readers : PendingLeads(r)'
    BY <2>3 DEF IInv, PendingLeads, Leads, Fit, Guarded
  <2> QED
    BY <2>1, <2>2, <2>4, <2>5, <2>6 DEF IInv
<1> QED
  BY <1>1, <1>2

\* The inductive invariant of list_lock.c and list_rcu.c: types, the shape of
\* the list at every store of the updaters, who excludes whom, what call_rcu
\* waits for, and what each check of a reader establishes.
THEOREM Invariance == Spec => []IInv
BY InitInv, StepInvariant, PTL DEF Spec

\* The node a reader inside stands on is fit, if it still believes it.
LEMMA OnFitNode ==
  ASSUME IInv, NEW r \in Readers, Inside(r), cur[r] # NULL, Unmoved(r)
  PROVE  Fit(r, cur[r]) /\ cur[r] \in Nodes
<1>1. SearchInvariant(r) /\ cur[r] \in NodePtr
  BY DEF IInv, TypeOK
<1>2. rpc[r] # "head"
  BY <1>1 DEF SearchInvariant
<1> QED
  BY <1>1, <1>2 DEF SearchInvariant, Leads, NodePtr

\* LSPIN, RWLOCK: a reader between lock_rlock and lock_runlock stands on a
\* linked node of its bucket, and no writer is in that bucket.
THEOREM LockProtection == Spec => []LockProtects
<1>1. IInv => LockProtects
  <2> SUFFICES ASSUME IInv, Exclusive, NEW r \in Readers, Inside(r)
               PROVE  /\ cur[r] # NULL => cur[r] \in live /\ InPlace(r)
                      /\ \A w \in Writers : InCall(w) => WriterBucket(w) # Bucket(r)
    BY DEF LockProtects
  <2>1. Bucket(r) \in Buckets /\ r \in holders[Bucket(r)]
    BY ReaderBucket DEF Inside, IInv, Holding
  <2>2. lock[Bucket(r)] = NULL
    BY <2>1 DEF IInv, Holding
  <2>3. \A w \in Writers : InCall(w) => WriterBucket(w) # Bucket(r)
    BY <2>2, ListLockAssumption, HashListAssumption DEF IInv, ListInv, OwnsBucket
  <2>4. ASSUME cur[r] # NULL PROVE cur[r] \in live /\ InPlace(r)
    <3>1. Fit(r, cur[r]) /\ cur[r] \in Nodes
      BY <2>4, OnFitNode DEF Exclusive, Unmoved, Counting
    <3>2. Unfreed(cur[r]) /\ InPlace(r)
      BY <3>1 DEF Fit, Guarded, InPlace, IInv, Grace, Exclusive
    <3>3. \A w \in Writers : wpc[w] = "retire" => wcur[w] # cur[r]
      BY <2>3, <3>2, RetiredNode DEF IInv, InPlace, InCall
    <3> QED
      BY <3>2, <3>3 DEF Unfreed
  <2> QED
    BY <2>3, <2>4
<1> QED
  BY <1>1, Invariance, PTL

\* SEQLOCK, GCLOCK: while the counter is what lock_rlock read, the reader's
\* node is in its bucket and was not freed.
THEOREM CounterProtection == Spec => []CounterProtects
<1>1. IInv => CounterProtects
  <2> SUFFICES ASSUME IInv, Counting, NEW r \in Readers, Inside(r), cur[r] # NULL, Unmoved(r)
               PROVE  Unfreed(cur[r]) /\ InPlace(r)
    BY DEF CounterProtects
  <2>1. Fit(r, cur[r]) /\ cur[r] \in Nodes
    BY OnFitNode
  <2> QED
    BY <2>1 DEF Fit, Guarded, InPlace, IInv, Grace, Counting
<1> QED
  BY <1>1, Invariance, PTL

\* RCU: a reader in its read-side section never stands on a freed node.
THEOREM GraceProtection == Spec => []GraceProtects
<1>1. IInv => GraceProtects
  <2> SUFFICES ASSUME IInv, build = "RCU", NEW r \in Readers, Inside(r), cur[r] # NULL
               PROVE  cur[r] \notin free /\ InPlace(r)
    BY DEF GraceProtects
  <2>1. Fit(r, cur[r]) /\ cur[r] \in Nodes
    BY OnFitNode DEF Unmoved, Counting
  <2>2. Unfreed(cur[r]) => cur[r] \notin free
    BY RetiredNode DEF Unfreed, IInv, ListInv, OneRole
  <2>3. r \in waiting[cur[r]] => cur[r] \notin free
    BY <2>1 DEF IInv, Grace
  <2> QED
    BY <2>1, <2>2, <2>3 DEF Fit, Guarded, InPlace
<1> QED
  BY <1>1, Invariance, PTL

\* A search that returns gives an answer that was right during its call.
LEMMA ReturnsSeen ==
  ASSUME IInv, NEW r \in Readers, SearchStep(r)
  PROVE  \/ UNCHANGED searchVars
         \/ want[r] \in Keys /\ \E x \in seen[r] : EndSearch(r, x)
<1>1. CASE LockR(r) \/ ReadHead(r) \/ Validate(r) \/ ReadKey(r) \/ ReadNext(r) \/ SearchRetry(r)
  BY <1>1 DEF LockR, LockRWhen, ReadHead, Validate, ReadKey, ReadNext, SearchRetry, Visit
<1>2. CASE UnlockR(r)
  <2>1. /\ want[r] \in Keys /\ want[r] \in Nat /\ SearchInvariant(r) /\ cur[r] \in NodePtr
        /\ rpc[r] = "unlock" /\ Unmoved(r) /\ EndSearch(r, Result(r))
    BY <1>2, ReaderBucket DEF UnlockR, FinishWith, IInv, TypeOK
  <2>2. Leads(r, cur[r]) /\ (cur[r] # NULL => cur_key[r] = key[cur[r]] /\ key[cur[r]] >= want[r])
    BY <2>1 DEF SearchInvariant, Inside
  <2>3. Result(r) \in seen[r]
    <3>1. CASE cur[r] = NULL
      BY <2>2, <3>1 DEF Result, Leads
    <3>2. CASE cur[r] # NULL
      <4>1. Fit(r, cur[r]) /\ key[cur[r]] \in Nat
        BY <2>1, <2>2, <3>2 DEF Leads, NodePtr, IInv, TypeOK, ListTypeOK
      <4> QED
        BY <2>1, <2>2, <3>2, <4>1 DEF Result, Fit
    <3> QED
      BY <3>1, <3>2
  <2> QED
    BY <2>1, <2>3
<1> QED
  BY <1>1, <1>2 DEF SearchStep

(***************************************************************************)
(* The tables of list_lock.c and list_rcu.c are linearizable sets, for any *)
(* number of readers and updaters.                                         *)
(***************************************************************************)
THEOREM Refinement == Spec => SetSpec
<1>1. Init => Set!Init
  BY SetInit DEF Init
<1>2. IInv /\ [Next]_vars => [Set!Next]_(Set!vars)
  <2> SUFFICES ASSUME IInv, [Next]_vars PROVE Set!Next \/ UNCHANGED <<Members, want, seen, ret>>
    BY DEF Set!vars
  <2>1. ASSUME NEW w \in Writers, Writer(w)
        PROVE  Set!Next \/ UNCHANGED <<Members, want, seen, ret>>
    <3>1. CASE Retire(w) \/ FreeLate(w)
      BY <3>1 DEF Retire, FreeLate, Members, memVars, searchVars
    <3>2. CASE Call(w) \/ WriterStep(w)
      BY <3>2, WriterRefines DEF IInv, Call, InsertCall, DeleteCall
    <3> QED
      BY <2>1, <3>1, <3>2 DEF Writer, UpdateStep
  <2>2. ASSUME NEW r \in Readers, NEW k \in Keys, SearchCall(r, k) PROVE Set!Next
    BY <2>2, CallRefines DEF SearchCall, ReaderFrame, memVars
  <2>3. ASSUME NEW r \in Readers, SearchStep(r)
        PROVE  Set!Next \/ UNCHANGED <<Members, want, seen, ret>>
    <3>1. UNCHANGED <<key, live>>
      BY <2>3, SearchFrame DEF ReaderFrame, memVars
    <3> QED
      BY <2>3, <3>1, ReturnsSeen, ReturnRefines DEF Members, searchVars
  <2>4. ASSUME NEW n \in Nodes, FreeNodeCb(n) PROVE UNCHANGED <<Members, want, seen, ret>>
    BY <2>4 DEF FreeNodeCb, Members, memVars, searchVars
  <2>5. CASE UNCHANGED vars
    BY <2>5 DEF vars, listVars, memVars, searchVars, Members
  <2> QED
    BY <2>1, <2>2, <2>3, <2>4, <2>5 DEF Next, Writer
<1> QED
  BY <1>1, <1>2, Invariance, PTL DEF Spec, SetSpec, Set!Spec
===============================================================================
