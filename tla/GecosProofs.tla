------------------------------ MODULE GecosProofs ------------------------------
(***************************************************************************)
(* search of list_gecos.c is linearizable for every number of nodes, keys, *)
(* buckets, updaters and readers, and for all three builds.                *)
(***************************************************************************)
EXTENDS Gecos, HashListProofs

\* A step of search writes nothing but the reader's own variables, and either
\* goes on or returns 0 or 1.
LEMMA SearchFrame ==
  ASSUME NEW r \in Readers, SearchStep(r)
  PROVE  /\ ReaderFrame
         /\ UNCHANGED searchVars \/ \E x \in {0, 1} : EndSearch(r, x)
<1>1. CASE ReadHead(r)
  BY <1>1 DEF ReadHead, Return
<1>2. CASE ReadHeadGc(r) \/ ReadKey(r) \/ ReadNext(r) \/ ReadNextGc(r)
  BY <1>2 DEF ReadHeadGc, ReadKey, ReadNext, ReadNextGc
<1>3. CASE CheckHead(r)
  BY <1>3 DEF CheckHead, Visit, Retry
<1>4. CASE CheckNext(r)
  BY <1>4 DEF CheckNext, Retry
<1>5. CASE CheckGc(r)
  BY <1>5 DEF CheckGc, Advance, Return, Visit, Retry
<1>6. CASE CheckPrev(r) \/ WildPrev(r)
  BY <1>6 DEF CheckPrev, WildPrev, Visit, Retry
<1> QED
  BY <1>1, <1>2, <1>3, <1>4, <1>5, <1>6 DEF SearchStep

\* The list's invariant holds whichever thread takes a step.
LEMMA ListStep ==
  ASSUME ListInv, Next
  PROVE  ListInv'
<1>1. ASSUME NEW w \in Writers, Writer(w) PROVE ListInv'
  <2>1. CASE Retire(w)
    BY <2>1, RetireInv DEF Retire
  <2> QED
    BY <1>1, <2>1, CallInv, WriterStepInv DEF Writer, Call, InsertCall, DeleteCall
<1>2. ASSUME NEW r \in Readers, SearchStep(r) PROVE ListInv'
  BY <1>2, SearchFrame, SearchInv DEF ReaderFrame
<1>3. ASSUME NEW r \in Readers, NEW k \in Keys, SearchCall(r, k) PROVE ListInv'
  BY <1>3, SearchInv DEF SearchCall, ReaderFrame
<1> QED
  BY <1>1, <1>2, <1>3 DEF Next

\* Returning leaves the locals typed.
LEMMA ReturnType ==
  ASSUME SearchTypeOK, NEW r \in Readers, NEW x, Return(r, x)
  PROVE  SearchTypeOK'
BY DEF SearchTypeOK, Return, Jump, ReaderPc, NodePtr

\* goto retry leaves the locals typed.
LEMMA RetryType ==
  ASSUME SearchTypeOK, NEW r \in Readers, Retry(r)
  PROVE  SearchTypeOK'
BY DEF SearchTypeOK, Retry, Jump, ReaderPc, NodePtr

\* Visit leaves prev, prev_gc, prev_key and wild to its callers.
LEMMA VisitType ==
  ASSUME SearchTypeOK, NEW r \in Readers, NEW n \in NodePtr, NEW g \in Nat, Visit(r, n, g),
         prev' \in [Readers -> NodePtr], prev_gc' \in [Readers -> Nat],
         prev_key' \in [Readers -> Nat], wild' \in [Readers -> {0, 1}]
  PROVE  SearchTypeOK'
BY DEF SearchTypeOK, Visit, Jump, ReaderPc, NodePtr

\* Every step keeps the types.
LEMMA TypeStep ==
  ASSUME IInv, Next
  PROVE  TypeOK'
<1>0. ListTypeOK' /\ SearchTypeOK
  BY ListStep DEF IInv, ListInv, TypeOK
<1>1. ASSUME NEW w \in Writers, Writer(w) PROVE TypeOK'
  <2>1. CASE Retire(w)
    BY <1>0, <1>1, <2>1
       DEF IInv, TypeOK, SearchTypeOK, ListInv, Position, WellPlaced, Writer, Retire, readerVars
  <2> QED
    BY <1>0, <1>1, <2>1 DEF IInv, TypeOK, SearchTypeOK, Writer, readerVars
<1>2. ASSUME NEW r \in Readers, SearchStep(r) PROVE TypeOK'
  <2>0. SearchControl(r)
    BY DEF IInv, ReaderInv
  <2> SUFFICES SearchTypeOK'
    BY <1>0, <1>2, SearchFrame DEF IInv, TypeOK, ReaderFrame
  <2>1. CASE ReadHead(r)
    <3>1. BucketOf(want[r]) \in Buckets
      BY <2>0, <2>1, BucketRange, HashListAssumption
         DEF SearchControl, ReadHead, IInv, TypeOK, ListTypeOK
    <3>2. CASE head[BucketOf(want[r])] = NULL
      BY <1>0, <2>1, <3>2, ReturnType DEF ReadHead
    <3>3. CASE head[BucketOf(want[r])] # NULL
      BY <2>1, <3>1, <3>3
         DEF IInv, TypeOK, ListTypeOK, SearchTypeOK, ReadHead, Jump, ReaderPc
    <3> QED
      BY <3>2, <3>3
  <2>2. CASE ReadHeadGc(r) \/ ReadKey(r)
    <3>1. CASE ReadHeadGc(r)
      <4>1. gc[cur[r]] \in Nat
        BY <2>0, <3>1 DEF IInv, TypeOK, SearchControl, ReadHeadGc
      <4> QED
        BY <1>0, <3>1, <4>1 DEF SearchTypeOK, ReadHeadGc, Jump, ReaderPc
    <3>2. CASE ReadKey(r)
      <4>1. key[cur[r]] \in Nat
        BY <2>0, <3>2, HashListAssumption DEF IInv, TypeOK, ListTypeOK, SearchControl, ReadKey
      <4> QED
        BY <1>0, <3>2, <4>1 DEF SearchTypeOK, ReadKey, Jump, ReaderPc
    <3> QED
      BY <2>2, <3>1, <3>2
  <2>3. CASE ReadNext(r)
    <3>1. next[cur[r]] \in NodePtr
      BY <2>0, <2>3 DEF SearchControl, ReadNext, IInv, TypeOK, ListTypeOK
    <3> QED
      BY <2>3, <3>1 DEF IInv, TypeOK, SearchTypeOK, ReadNext, Jump, ReaderPc
  <2>4. CASE ReadNextGc(r)
    BY <2>0, <2>4
       DEF IInv, TypeOK, SearchTypeOK, SearchControl, ReadNextGc, Jump, ReaderPc
  <2>5. CASE CheckHead(r) \/ CheckNext(r)
    BY <1>0, <2>5, RetryType, VisitType
       DEF SearchTypeOK, CheckHead, CheckNext, Jump, ReaderPc
  <2>6. CASE CheckGc(r)
    <3>1. ASSUME Advance(r) PROVE SearchTypeOK'
      <4>1. CASE nxt[r] = NULL
        BY <1>0, <3>1, <4>1, ReturnType DEF Advance
      <4>2. CASE nxt[r] # NULL
        <5>1. prev' \in [Readers -> NodePtr] /\ prev_gc' \in [Readers -> Nat]
          BY <1>0, <3>1, <4>2 DEF SearchTypeOK, Advance
        <5>2. prev_key' \in [Readers -> Nat] /\ wild' \in [Readers -> {0, 1}]
          BY <1>0, <3>1, <4>2 DEF SearchTypeOK, Advance
        <5>3. Visit(r, nxt[r], next_gc[r]) /\ nxt[r] \in NodePtr /\ next_gc[r] \in Nat
          BY <1>0, <3>1, <4>2 DEF SearchTypeOK, Advance
        <5> QED
          BY <1>0, <5>1, <5>2, <5>3, VisitType
      <4> QED
        BY <4>1, <4>2
    <3>2. CASE rpc' = [rpc EXCEPT ![r] = "prevchk"] /\ UNCHANGED
                 <<cur, nxt, prev, cur_gc, next_gc, prev_gc, cur_key, prev_key, wild>>
      BY <1>0, <3>2 DEF SearchTypeOK, ReaderPc
    <3> QED
      BY <1>0, <2>6, <3>1, <3>2, ReturnType, RetryType DEF CheckGc, Jump
  <2>7. CASE CheckPrev(r)
    <3>1. prev[r] \in NodePtr /\ prev_gc[r] \in Nat
      BY <1>0 DEF SearchTypeOK
    <3>2. CASE Visit(r, prev[r], prev_gc[r]) /\ UNCHANGED <<prev, prev_gc, prev_key, wild>>
      <4>1. /\ prev' \in [Readers -> NodePtr] /\ prev_gc' \in [Readers -> Nat]
            /\ prev_key' \in [Readers -> Nat] /\ wild' \in [Readers -> {0, 1}]
        BY <1>0, <3>2 DEF SearchTypeOK
      <4> QED
        BY <1>0, <3>1, <3>2, <4>1, VisitType
    <3>3. CASE Retry(r)
      BY <1>0, <3>3, RetryType
    <3> QED
      BY <2>7, <3>2, <3>3 DEF CheckPrev
  <2>8. CASE WildPrev(r)
    <3>1. CASE Jump(r, "fault") /\ UNCHANGED <<cur, nxt, prev, cur_gc, next_gc, prev_gc,
                                               cur_key, prev_key, wild>>
      BY <1>0, <3>1 DEF SearchTypeOK, Jump, ReaderPc
    <3>2. CASE Retry(r)
      BY <1>0, <3>2, RetryType
    <3>3. ASSUME NEW n \in Nodes, Visit(r, n, gc[n]), wild' = [wild EXCEPT ![r] = 1],
                 UNCHANGED <<prev, prev_gc, prev_key>>
          PROVE  SearchTypeOK'
      <4>1. n \in NodePtr /\ gc[n] \in Nat
        BY <3>3 DEF IInv, TypeOK, NodePtr
      <4>2. /\ prev' \in [Readers -> NodePtr] /\ prev_gc' \in [Readers -> Nat]
            /\ prev_key' \in [Readers -> Nat] /\ wild' \in [Readers -> {0, 1}]
        BY <1>0, <3>3 DEF SearchTypeOK
      <4> QED
        BY <1>0, <3>3, <4>1, <4>2, VisitType
    <3> QED
      BY <2>8, <3>1, <3>2, <3>3 DEF WildPrev
  <2> QED
    BY <1>2, <2>1, <2>2, <2>3, <2>4, <2>5, <2>6, <2>7, <2>8 DEF SearchStep
<1>3. ASSUME NEW r \in Readers, NEW k \in Keys, SearchCall(r, k) PROVE TypeOK'
  BY <1>0, <1>3 DEF IInv, TypeOK, SearchTypeOK, SearchCall, ReaderFrame, Jump, ReaderPc
<1> QED
  BY <1>1, <1>2, <1>3 DEF Next
(***************************************************************************)
(* The writers do not disturb what the readers rely on: gc never goes      *)
(* back, and a node whose gc is unchanged is as good as it was.            *)
(***************************************************************************)
LEMMA WriterKeepsReaders ==
  ASSUME IInv, NEW w \in Writers, Writer(w)
  PROVE  ReaderInv'
<1>1. /\ \A n \in Nodes : gc[n] \in Nat /\ gc'[n] \in Nat /\ gc[n] <= gc'[n]
      /\ \A n \in Nodes : gc'[n] = gc[n] /\ Unfreed(n) => Unfreed(n)' /\ key'[n] = key[n]
      /\ \A r \in Readers : seen[r] \subseteq seen'[r]
      /\ UNCHANGED want
  <2>1. CASE Retire(w)
    <3>1. wcur[w] \in Nodes
      BY <2>1 DEF Retire, IInv, ListInv, Position, WellPlaced
    <3>2. \A n \in Nodes : gc'[n] = IF n = wcur[w] THEN gc[n] + 1 ELSE gc[n]
      BY <2>1, <3>1 DEF Retire, IInv, TypeOK
    <3>3. UNCHANGED <<live, key, want, seen, wcur>>
      BY <2>1 DEF Retire, memVars, searchVars
    <3>4. \A v \in Writers : v # w => wpc'[v] = wpc[v]
      BY <2>1 DEF Retire, GoTo, IInv, TypeOK, ListTypeOK
    <3>5. \A n \in Nodes : gc[n] \in Nat
      BY DEF IInv, TypeOK
    <3>6. \A n \in Nodes : n # wcur[w] /\ Unfreed(n) => Unfreed(n)'
      BY <3>3, <3>4 DEF Unfreed
    <3> QED
      BY <3>2, <3>3, <3>5, <3>6
  <2>2. CASE (Call(w) \/ WriterStep(w)) /\ UNCHANGED gc
    <3>1. \A n \in Nodes : gc[n] \in Nat /\ gc'[n] = gc[n]
      BY <2>2 DEF IInv, TypeOK
    <3>2. WriterStep(w) \/ \E op \in {"insert", "delete"}, k \in Keys : BeginCall(w, op, k)
      BY <2>2 DEF Call, InsertCall, DeleteCall
    <3> QED
      BY <3>1, <3>2, WriterStable DEF IInv
  <2> QED
    BY <2>1, <2>2 DEF Writer
<1>2. UNCHANGED <<build, rpc, cur, nxt, prev, cur_gc, next_gc, prev_gc, cur_key, prev_key, wild>>
  BY DEF Writer, readerVars
<1> SUFFICES ASSUME NEW r \in Readers PROVE SearchControl(r)' /\ SearchGuards(r)'
  BY DEF ReaderInv
<1>3. SearchControl(r) /\ SearchGuards(r)
  BY DEF IInv, ReaderInv
<1>4. SearchControl(r)'
  BY <1>1, <1>2, <1>3 DEF SearchControl
<1>5. ASSUME NEW n \in Nodes, NEW g \in Nat, NEW low \in Nat, Guarded(r, n, g, low)
      PROVE  Guarded(r, n, g, low)'
  <2>1. ASSUME gc'[n] = g PROVE gc'[n] = gc[n] /\ Fit(r, n, low)
    BY <1>1, <1>5, <2>1 DEF Guarded
  <2>2. ASSUME gc'[n] = gc[n], Fit(r, n, low) PROVE Fit(r, n, low)'
    BY <1>1, <2>2 DEF Fit
  <2> QED
    BY <1>1, <1>5, <2>1, <2>2 DEF Guarded
<1>6. /\ prev[r] \in NodePtr /\ cur[r] \in NodePtr /\ nxt[r] \in NodePtr
      /\ cur_gc[r] \in Nat /\ prev_gc[r] \in Nat /\ next_gc[r] \in Nat
      /\ prev_key[r] \in Nat /\ cur_key[r] \in Nat
  BY DEF IInv, TypeOK, SearchTypeOK
<1>7. InLoop(r)' = InLoop(r) /\ (InLoop(r) => cur[r] \in Nodes)
  BY <1>2, <1>3 DEF InLoop, SearchControl
<1>8. SearchGuards(r)'
  <2>1. /\ rpc'[r] = "headchk" => cur_gc'[r] <= gc'[cur'[r]]
        /\ rpc'[r] \in {"idle", "head", "headgc", "headchk"} => prev_key'[r] = 0
        /\ rpc'[r] = "nextchk" /\ nxt'[r] # NULL => next_gc'[r] <= gc'[nxt'[r]]
    BY <1>1, <1>2, <1>3, <1>6 DEF SearchGuards, SearchControl, NodePtr
  <2>2. ASSUME wild[r] = 0, prev[r] # NULL
        PROVE  Guarded(r, prev[r], prev_gc[r], prev_key[r])'
    <3>1. Guarded(r, prev[r], prev_gc[r], prev_key[r])
      BY <1>3, <2>2 DEF SearchGuards
    <3> QED
      BY <1>2, <1>5, <1>6, <2>2, <3>1 DEF NodePtr, Guarded, Fit
  <2>3. ASSUME wild[r] = 0, InLoop(r)
        PROVE  Guarded(r, cur[r], cur_gc[r], prev_key[r])'
    <3>1. Guarded(r, cur[r], cur_gc[r], prev_key[r])
      BY <1>3, <2>3 DEF SearchGuards
    <3> QED
      BY <1>2, <1>5, <1>6, <1>7, <2>3, <3>1 DEF Guarded, Fit
  <2>4. ASSUME wild[r] = 0, InLoop(r), gc'[cur[r]] = cur_gc[r]
        PROVE  gc[cur[r]] = cur_gc[r] /\ key'[cur[r]] = key[cur[r]]
    <3>1. Guarded(r, cur[r], cur_gc[r], prev_key[r])
      BY <1>3, <2>4 DEF SearchGuards
    <3>2. gc[cur[r]] = cur_gc[r]
      BY <1>1, <1>6, <1>7, <2>4, <3>1 DEF Guarded
    <3> QED
      BY <1>1, <1>7, <2>4, <3>1, <3>2 DEF Guarded, Fit
  <2>5. ASSUME wild[r] = 0, InLoop(r), rpc[r] # "key", gc'[cur[r]] = cur_gc[r]
        PROVE  cur_key[r] = key'[cur[r]]
    BY <1>3, <2>4, <2>5 DEF SearchGuards
  <2>6. ASSUME wild[r] = 0, rpc[r] = "gcchk", gc'[cur[r]] = cur_gc[r], cur_key[r] < want[r]
        PROVE  IF nxt[r] = NULL THEN 0 \in seen'[r]
               ELSE Guarded(r, nxt[r], next_gc[r], cur_key[r])'
    <3>0. InLoop(r)
      BY <2>6 DEF InLoop
    <3>1. IF nxt[r] = NULL THEN 0 \in seen[r]
          ELSE Guarded(r, nxt[r], next_gc[r], cur_key[r])
      BY <1>3, <2>4, <2>6, <3>0 DEF SearchGuards
    <3>2. CASE nxt[r] = NULL
      BY <1>1, <3>1, <3>2
    <3>3. CASE nxt[r] # NULL
      <4>1. Guarded(r, nxt[r], next_gc[r], cur_key[r])'
        BY <1>2, <1>5, <1>6, <3>1, <3>3 DEF NodePtr, Guarded, Fit
      <4> QED
        BY <3>3, <4>1
    <3> QED
      BY <3>2, <3>3
  <2> QED
    BY <1>1, <1>2, <1>7, <2>1, <2>2, <2>3, <2>5, <2>6 DEF SearchGuards
<1> QED
  BY <1>4, <1>8
\* The variables of a reader are unchanged by the steps of another one.
SameLocals(s) ==
  /\ rpc'[s] = rpc[s] /\ cur'[s] = cur[s] /\ nxt'[s] = nxt[s] /\ prev'[s] = prev[s]
  /\ cur_gc'[s] = cur_gc[s] /\ next_gc'[s] = next_gc[s] /\ prev_gc'[s] = prev_gc[s]
  /\ cur_key'[s] = cur_key[s] /\ prev_key'[s] = prev_key[s] /\ wild'[s] = wild[s]
  /\ want'[s] = want[s] /\ seen'[s] = seen[s]

\* A reader's step leaves the locals of the other readers alone.
LEMMA OtherLocals ==
  ASSUME TypeOK, NEW r \in Readers, NEW s \in Readers, s # r,
         SearchStep(r) \/ \E k \in Keys : SearchCall(r, k)
  PROVE  SameLocals(s)
<1> USE DEF TypeOK, ListTypeOK, SearchTypeOK, Jump, searchVars, SameLocals
<1>1. ASSUME NEW x, Return(r, x) PROVE SameLocals(s)
  BY <1>1 DEF Return, EndSearch
<1>2. ASSUME Retry(r) PROVE SameLocals(s)
  BY <1>2 DEF Retry
<1>3. ASSUME NEW n, NEW g, Visit(r, n, g), prev'[s] = prev[s], prev_gc'[s] = prev_gc[s],
             prev_key'[s] = prev_key[s], wild'[s] = wild[s]
      PROVE  SameLocals(s)
  BY <1>3 DEF Visit
<1>4. CASE ReadHead(r)
  <2>1. CASE head[BucketOf(want[r])] = NULL
    BY <1>1, <1>4, <2>1 DEF ReadHead
  <2>2. CASE head[BucketOf(want[r])] # NULL
    BY <1>4, <2>2 DEF ReadHead
  <2> QED
    BY <2>1, <2>2
<1>5. CASE ReadHeadGc(r) \/ ReadKey(r) \/ ReadNext(r) \/ ReadNextGc(r)
  BY <1>5 DEF ReadHeadGc, ReadKey, ReadNext, ReadNextGc
<1>6. CASE CheckHead(r)
  <2>1. CASE head[BucketOf(want[r])] = cur[r]
    BY <1>3, <1>6, <2>1 DEF CheckHead
  <2>2. CASE head[BucketOf(want[r])] # cur[r]
    BY <1>2, <1>6, <2>2 DEF CheckHead
  <2> QED
    BY <2>1, <2>2
<1>7. CASE CheckNext(r)
  <2>1. CASE next[cur[r]] # nxt[r] /\ build = "GECOS"
    BY <1>2, <1>7, <2>1 DEF CheckNext
  <2>2. CASE ~(next[cur[r]] # nxt[r] /\ build = "GECOS")
    BY <1>7, <2>2 DEF CheckNext
  <2> QED
    BY <2>1, <2>2
<1>8. CASE CheckGc(r)
  <2>1. ASSUME Advance(r) PROVE SameLocals(s)
    <3>1. CASE nxt[r] = NULL
      BY <1>1, <2>1, <3>1 DEF Advance
    <3>2. CASE nxt[r] # NULL
      <4>1. prev'[s] = prev[s] /\ prev_gc'[s] = prev_gc[s]
        BY <2>1, <3>2 DEF Advance
      <4>2. prev_key'[s] = prev_key[s] /\ wild'[s] = wild[s]
        BY <2>1, <3>2 DEF Advance
      <4> QED
        BY <1>3, <2>1, <3>2, <4>1, <4>2 DEF Advance
    <3> QED
      BY <3>1, <3>2
  <2>2. CASE gc[cur[r]] = cur_gc[r]
    BY <1>1, <1>8, <2>1, <2>2 DEF CheckGc
  <2>3. CASE gc[cur[r]] # cur_gc[r]
    BY <1>2, <1>8, <2>3 DEF CheckGc
  <2> QED
    BY <2>2, <2>3
<1>9. CASE CheckPrev(r)
  BY <1>2, <1>3, <1>9 DEF CheckPrev
<1>10. CASE WildPrev(r)
  BY <1>2, <1>3, <1>10 DEF WildPrev
<1>11. CASE \E k \in Keys : SearchCall(r, k)
  BY <1>11 DEF SearchCall, BeginSearch
<1> QED
  BY <1>4, <1>5, <1>6, <1>7, <1>8, <1>9, <1>10, <1>11 DEF SearchStep

\* What one reader does is invisible to the others.
LEMMA OtherReaders ==
  ASSUME IInv, NEW r \in Readers, NEW s \in Readers, s # r,
         SearchStep(r) \/ \E k \in Keys : SearchCall(r, k)
  PROVE  SearchControl(s)' /\ SearchGuards(s)'
<1>1. SameLocals(s)
  BY OtherLocals DEF IInv
<1>2. UNCHANGED <<gc, build, key, live, wpc, wcur>>
  BY SearchFrame DEF SearchCall, ReaderFrame, memVars, writerVars
<1>3. SearchControl(s) /\ SearchGuards(s)
  BY DEF IInv, ReaderInv
<1>4. SearchControl(s)'
  BY <1>1, <1>2, <1>3 DEF SameLocals, SearchControl
<1>5. \A n : Unfreed(n)' = Unfreed(n)
  BY <1>2 DEF Unfreed
<1>6. SearchGuards(s)'
  BY <1>1, <1>2, <1>3, <1>5 DEF SameLocals, SearchGuards, InLoop, Guarded, Fit
<1> QED
  BY <1>4, <1>6
(***************************************************************************)
(* The ways a turn of search ends: it returns, starts again from the head, *)
(* or goes on with a node that is guarded.                                 *)
(***************************************************************************)
LEMMA GuardedFrame ==
  ASSUME ReaderFrame, NEW r \in Readers, want'[r] = want[r], seen'[r] = seen[r],
         NEW n, NEW g, NEW low, Guarded(r, n, g, low)
  PROVE  Guarded(r, n, g, low)'
<1>1. UNCHANGED <<gc, key, live, wpc, wcur>>
  BY DEF ReaderFrame, memVars, writerVars
<1>2. Unfreed(n)' = Unfreed(n)
  BY <1>1 DEF Unfreed
<1> QED
  BY <1>1, <1>2 DEF Guarded, Fit

\* A reader that has returned relies on nothing.
LEMMA ReturnGuards ==
  ASSUME IInv, NEW r \in Readers, NEW x, Return(r, x), ReaderFrame
  PROVE  SearchControl(r)' /\ SearchGuards(r)'
<1>1. rpc'[r] = "idle" /\ want'[r] = NULL /\ prev'[r] = NULL /\ prev_key'[r] = 0 /\ wild'[r] = 0
  BY DEF Return, EndSearch, Jump, IInv, TypeOK, ListTypeOK, SearchTypeOK
<1> QED
  BY <1>1 DEF SearchControl, SearchGuards, InLoop

\* After goto retry only prev is still relied on.
LEMMA RetryGuards ==
  ASSUME IInv, NEW r \in Readers, rpc[r] # "idle", Retry(r), ReaderFrame
  PROVE  SearchControl(r)' /\ SearchGuards(r)'
<1>1. rpc'[r] = "head" /\ prev_key'[r] = 0
  BY DEF Retry, Jump, IInv, TypeOK, SearchTypeOK
<1>2. UNCHANGED <<want, seen, prev, prev_gc, wild, build>>
  BY DEF Retry, ReaderFrame, searchVars
<1>3. SearchControl(r) /\ SearchGuards(r)
  BY DEF IInv, ReaderInv
<1>4. SearchControl(r)'
  BY <1>1, <1>2, <1>3 DEF SearchControl
<1>5. ASSUME wild[r] = 0, prev[r] # NULL PROVE Guarded(r, prev[r], prev_gc[r], 0)'
  <2>1. Guarded(r, prev[r], prev_gc[r], prev_key[r])
    BY <1>3, <1>5 DEF SearchGuards
  <2>2. prev[r] \in Nodes /\ key[prev[r]] \in Nat
    BY <1>5 DEF IInv, TypeOK, ListTypeOK, SearchTypeOK, NodePtr
  <2>3. Guarded(r, prev[r], prev_gc[r], 0)
    BY <2>1, <2>2 DEF Guarded, Fit
  <2> QED
    BY <1>2, <2>3, GuardedFrame DEF Guarded, Fit
<1>6. SearchGuards(r)'
  BY <1>1, <1>2, <1>5 DEF SearchGuards, InLoop
<1> QED
  BY <1>4, <1>6

\* A node that is guarded where it was found is guarded as the new cur.
LEMMA VisitGuards ==
  ASSUME IInv, NEW r \in Readers, rpc[r] # "idle", NEW n \in Nodes, NEW g, Visit(r, n, g),
         ReaderFrame,
         wild'[r] = 0 => Guarded(r, n, g, prev_key'[r]),
         wild'[r] = 0 /\ prev'[r] # NULL => Guarded(r, prev'[r], prev_gc'[r], prev_key'[r]),
         build # "GECOS_B" => prev'[r] = NULL /\ wild'[r] = 0
  PROVE  SearchControl(r)' /\ SearchGuards(r)'
<1>1. rpc'[r] = "key" /\ cur'[r] = n /\ cur_gc'[r] = g
  BY DEF Visit, Jump, IInv, TypeOK, SearchTypeOK
<1>2. UNCHANGED <<want, seen, build>>
  BY DEF Visit, ReaderFrame, searchVars
<1>3. SearchControl(r)'
  BY <1>1, <1>2 DEF IInv, ReaderInv, SearchControl
<1>4. wild'[r] = 0 => Guarded(r, cur[r], cur_gc[r], prev_key[r])'
  <2>1. wild'[r] = 0 => Guarded(r, n, g, prev_key'[r])
    OBVIOUS
  <2> QED
    BY <1>1, <1>2, <2>1, GuardedFrame DEF Guarded, Fit
<1>5. wild'[r] = 0 /\ prev'[r] # NULL => Guarded(r, prev[r], prev_gc[r], prev_key[r])'
  BY <1>2, GuardedFrame DEF Guarded, Fit
<1>6. SearchGuards(r)'
  BY <1>1, <1>4, <1>5 DEF SearchGuards
<1> QED
  BY <1>3, <1>6
\* A step that only reads into one local keeps everything else the reader has.
LEMMA OwnRead ==
  ASSUME IInv, NEW r \in Readers, ReadHeadGc(r) \/ ReadKey(r) \/ ReadNext(r) \/ ReadNextGc(r)
  PROVE  SearchControl(r)' /\ SearchGuards(r)'
<1>1. ReaderFrame /\ UNCHANGED <<want, seen, build, prev, prev_gc, prev_key, wild, cur>>
  BY DEF ReadHeadGc, ReadKey, ReadNext, ReadNextGc, ReaderFrame, searchVars
<1>2. UNCHANGED <<gc, key, next>>
  BY <1>1 DEF ReaderFrame, memVars
<1>3. SearchControl(r) /\ SearchGuards(r) /\ cur[r] \in Nodes /\ rpc[r] # "idle"
  BY DEF IInv, ReaderInv, SearchControl, ReadHeadGc, ReadKey, ReadNext, ReadNextGc
<1>4. \A n, g, low : Guarded(r, n, g, low) => Guarded(r, n, g, low)'
  BY <1>1, GuardedFrame
<1>5. wild'[r] = 0 /\ prev'[r] # NULL => Guarded(r, prev[r], prev_gc[r], prev_key[r])'
  <2>1. wild[r] = 0 /\ prev[r] # NULL => Guarded(r, prev[r], prev_gc[r], prev_key[r])
    BY <1>3 DEF SearchGuards
  <2> QED
    BY <1>1, <1>4, <2>1 DEF Guarded, Fit
<1>6. wild'[r] = 0 /\ InLoop(r) /\ UNCHANGED cur_gc => Guarded(r, cur[r], cur_gc[r], prev_key[r])'
  <2>1. wild[r] = 0 /\ InLoop(r) => Guarded(r, cur[r], cur_gc[r], prev_key[r])
    BY <1>3 DEF SearchGuards
  <2> QED
    BY <1>1, <1>4, <2>1 DEF Guarded, Fit
<1>7. gc[cur[r]] \in Nat /\ \A n \in Nodes : gc[n] <= gc[n]
  BY <1>3 DEF IInv, TypeOK
<1>8. CASE ReadHeadGc(r)
  <2>1. rpc[r] = "headgc" /\ rpc'[r] = "headchk" /\ cur_gc'[r] = gc[cur[r]]
    BY <1>8 DEF ReadHeadGc, Jump, IInv, TypeOK, SearchTypeOK
  <2> QED
    BY <1>1, <1>2, <1>3, <1>5, <1>7, <2>1 DEF SearchControl, SearchGuards, InLoop
<1>9. CASE ReadKey(r)
  <2>1. rpc[r] = "key" /\ rpc'[r] = "next" /\ cur_key'[r] = key[cur[r]] /\ UNCHANGED cur_gc
    BY <1>9 DEF ReadKey, Jump, IInv, TypeOK, SearchTypeOK
  <2>2. InLoop(r) /\ InLoop(r)'
    BY <2>1 DEF InLoop
  <2> QED
    BY <1>1, <1>2, <1>3, <1>5, <1>6, <2>1, <2>2 DEF SearchControl, SearchGuards
<1>10. CASE ReadNext(r)
  <2>1. /\ rpc[r] = "next" /\ nxt'[r] = next[cur[r]] /\ UNCHANGED <<cur_gc, cur_key>>
        /\ rpc'[r] = IF next[cur[r]] = NULL THEN "nextchk" ELSE "nextgc"
    BY <1>10 DEF ReadNext, Jump, IInv, TypeOK, SearchTypeOK
  <2>2. InLoop(r) /\ InLoop(r)'
    BY <2>1 DEF InLoop
  <2>3. next[cur[r]] \in NodePtr
    BY <1>3 DEF IInv, TypeOK, ListTypeOK
  <2> QED
    BY <1>1, <1>2, <1>3, <1>5, <1>6, <2>1, <2>2, <2>3 DEF SearchControl, SearchGuards, NodePtr
<1>11. CASE ReadNextGc(r)
  <2>1. /\ rpc[r] = "nextgc" /\ rpc'[r] = "nextchk" /\ next_gc'[r] = gc[nxt[r]]
        /\ UNCHANGED <<cur_gc, cur_key, nxt>>
    BY <1>11 DEF ReadNextGc, Jump, IInv, TypeOK, SearchTypeOK
  <2>2. InLoop(r) /\ InLoop(r)'
    BY <2>1 DEF InLoop
  <2> QED
    BY <1>1, <1>2, <1>3, <1>5, <1>6, <1>7, <2>1, <2>2 DEF SearchControl, SearchGuards
<1> QED
  BY <1>8, <1>9, <1>10, <1>11

\* Reading the head, its gc and the head again yields a guarded cur.
LEMMA OwnHead ==
  ASSUME IInv, NEW r \in Readers, ReadHead(r) \/ CheckHead(r)
  PROVE  SearchControl(r)' /\ SearchGuards(r)'
<1>1. ReaderFrame
  BY DEF ReadHead, CheckHead
<1>2. SearchControl(r) /\ SearchGuards(r) /\ rpc[r] # "idle" /\ want[r] \in Keys
  BY DEF IInv, ReaderInv, SearchControl, TypeOK, ListTypeOK, ReadHead, CheckHead
<1>3. CASE ReadHead(r)
  <2>1. CASE head[BucketOf(want[r])] = NULL
    BY <1>1, <1>3, <2>1, ReturnGuards DEF ReadHead
  <2>2. CASE head[BucketOf(want[r])] # NULL
    <3>1. /\ rpc[r] = "head" /\ rpc'[r] = "headgc" /\ cur'[r] = head[BucketOf(want[r])]
          /\ UNCHANGED <<want, seen, build, prev, prev_gc, prev_key, wild>>
      BY <1>3, <2>2 DEF ReadHead, ReaderFrame, searchVars, Jump, IInv, TypeOK, SearchTypeOK
    <3>2. cur'[r] \in Nodes
      BY <1>2, <2>2, <3>1, HeadAnswers DEF IInv, TypeOK, ListTypeOK
    <3>3. wild[r] = 0 /\ prev[r] # NULL => Guarded(r, prev[r], prev_gc[r], prev_key[r])
      BY <1>2 DEF SearchGuards
    <3>4. wild'[r] = 0 /\ prev'[r] # NULL => Guarded(r, prev[r], prev_gc[r], prev_key[r])'
      BY <1>1, <3>1, <3>3, GuardedFrame DEF Guarded, Fit
    <3> QED
      BY <1>2, <3>1, <3>2, <3>4 DEF SearchControl, SearchGuards, InLoop
  <2> QED
    BY <2>1, <2>2
<1>4. CASE CheckHead(r)
  <2>1. CASE head[BucketOf(want[r])] = cur[r]
    <3>1. /\ rpc[r] = "headchk" /\ Visit(r, cur[r], cur_gc[r])
          /\ UNCHANGED <<prev, prev_gc, prev_key, wild>>
      BY <1>4, <2>1 DEF CheckHead
    <3>2. cur[r] \in Nodes /\ cur[r] # NULL /\ cur_gc[r] <= gc[cur[r]] /\ prev_key[r] = 0
      BY <1>2, <3>1, HashListAssumption DEF SearchControl, SearchGuards
    <3>3. Fit(r, cur[r], 0)
      <4>1. key[cur[r]] \in Nat
        BY <3>2 DEF IInv, TypeOK, ListTypeOK
      <4> QED
        BY <1>2, <2>1, <3>2, <4>1, HeadAnswers DEF Fit, Unfreed, IInv
    <3>4. Guarded(r, cur[r], cur_gc[r], prev_key'[r])
      BY <3>1, <3>2, <3>3 DEF Guarded
    <3>5. wild'[r] = 0 /\ prev'[r] # NULL => Guarded(r, prev'[r], prev_gc'[r], prev_key'[r])
      BY <1>2, <3>1 DEF SearchGuards
    <3> QED
      BY <1>1, <1>2, <3>1, <3>2, <3>4, <3>5, VisitGuards DEF SearchControl
  <2>2. CASE head[BucketOf(want[r])] # cur[r]
    BY <1>1, <1>2, <1>4, <2>2, RetryGuards DEF CheckHead
  <2> QED
    BY <2>1, <2>2
<1> QED
  BY <1>3, <1>4

\* next has not changed since next_gc was read.  If cur still has its
\* generation, next is the node that follows it, linked with that generation.
LEMMA OwnNext ==
  ASSUME IInv, NEW r \in Readers, CheckNext(r)
  PROVE  SearchControl(r)' /\ SearchGuards(r)'
<1>1. ReaderFrame /\ rpc[r] = "nextchk"
  BY DEF CheckNext
<1>2. SearchControl(r) /\ SearchGuards(r) /\ rpc[r] # "idle" /\ want[r] \in Keys /\ cur[r] \in Nodes
  BY <1>1 DEF IInv, ReaderInv, SearchControl, TypeOK, ListTypeOK
<1>3. CASE next[cur[r]] # nxt[r] /\ build = "GECOS"
  BY <1>1, <1>2, <1>3, RetryGuards DEF CheckNext
<1>4. CASE ~(next[cur[r]] # nxt[r] /\ build = "GECOS")
  <2>1. UNCHANGED <<want, seen, build, cur, nxt, prev, cur_gc, next_gc, prev_gc, cur_key, prev_key, wild>>
    BY <1>1, <1>4 DEF CheckNext, ReaderFrame, searchVars
  <2>2. rpc'[r] = IF next[cur[r]] = nxt[r] THEN "gcchk" ELSE "next"
    BY <1>4 DEF CheckNext, Jump, IInv, TypeOK, SearchTypeOK
  <2>3. InLoop(r) /\ InLoop(r)'
    BY <1>1, <2>2 DEF InLoop
  <2>4. UNCHANGED <<gc, key>>
    BY <1>1 DEF ReaderFrame, memVars
  <2>5. \A n, g, low : Guarded(r, n, g, low) => Guarded(r, n, g, low)'
    BY <1>1, <2>1, GuardedFrame
  <2>6. wild'[r] = 0 /\ prev'[r] # NULL => Guarded(r, prev[r], prev_gc[r], prev_key[r])'
    <3>1. wild[r] = 0 /\ prev[r] # NULL => Guarded(r, prev[r], prev_gc[r], prev_key[r])
      BY <1>2 DEF SearchGuards
    <3> QED
      BY <2>1, <2>5, <3>1 DEF Guarded, Fit
  <2>7. wild'[r] = 0 => Guarded(r, cur[r], cur_gc[r], prev_key[r])'
    <3>1. wild[r] = 0 => Guarded(r, cur[r], cur_gc[r], prev_key[r])
      BY <1>2, <2>3 DEF SearchGuards
    <3> QED
      BY <2>1, <2>5, <3>1 DEF Guarded, Fit
  <2>8. ASSUME wild[r] = 0, next[cur[r]] = nxt[r], gc[cur[r]] = cur_gc[r], cur_key[r] < want[r]
        PROVE  IF nxt[r] = NULL THEN 0 \in seen[r]
               ELSE Guarded(r, nxt[r], next_gc[r], cur_key[r])'
    <3>1. Fit(r, cur[r], prev_key[r]) /\ cur_key[r] = key[cur[r]]
      BY <1>1, <1>2, <2>3, <2>8 DEF SearchGuards, Guarded
    <3>2. key[cur[r]] < want[r] /\ Unfreed(cur[r]) /\ BucketOf(key[cur[r]]) = BucketOf(want[r])
      BY <2>8, <3>1 DEF Fit
    <3>3. /\ nxt[r] = NULL => 0 \in seen[r]
          /\ nxt[r] # NULL => /\ nxt[r] \in live
                              /\ BucketOf(key[nxt[r]]) = BucketOf(want[r])
                              /\ key[cur[r]] < key[nxt[r]]
                              /\ key[nxt[r]] = want[r] => 1 \in seen[r]
                              /\ key[nxt[r]] > want[r] => 0 \in seen[r]
      BY <1>2, <2>8, <3>2, NextAnswers DEF IInv
    <3>4. CASE nxt[r] = NULL
      BY <3>3, <3>4
    <3>5. CASE nxt[r] # NULL
      <4>1. key[nxt[r]] \in Nat /\ key[cur[r]] \in Nat
        BY <1>2, <3>3, <3>5 DEF IInv, TypeOK, ListTypeOK
      <4>2. Fit(r, nxt[r], cur_key[r])
        BY <3>1, <3>3, <3>5, <4>1 DEF Fit, Unfreed
      <4>3. next_gc[r] <= gc[nxt[r]]
        BY <1>1, <1>2, <3>5 DEF SearchGuards
      <4>4. Guarded(r, nxt[r], next_gc[r], cur_key[r])
        BY <4>2, <4>3 DEF Guarded
      <4>5. Guarded(r, nxt[r], next_gc[r], cur_key[r])'
        BY <2>1, <2>5, <4>4 DEF Guarded, Fit
      <4> QED
        BY <3>5, <4>5
    <3> QED
      BY <3>4, <3>5
  <2>9. SearchControl(r)'
    BY <1>2, <2>1, <2>2 DEF SearchControl
  <2>10. SearchGuards(r)'
    <3>1. wild[r] = 0 /\ gc[cur[r]] = cur_gc[r] => cur_key[r] = key[cur[r]]
      BY <1>1, <1>2, <2>3 DEF SearchGuards
    <3>2. rpc'[r] \in {"gcchk", "next"} /\ (rpc'[r] = "gcchk" => next[cur[r]] = nxt[r])
      BY <2>2
    <3>3. ASSUME wild'[r] = 0, rpc'[r] = "gcchk", gc'[cur'[r]] = cur_gc'[r], cur_key'[r] < want'[r]
          PROVE  IF nxt'[r] = NULL THEN 0 \in seen'[r]
                 ELSE Guarded(r, nxt[r], next_gc[r], cur_key[r])'
      BY <2>1, <2>4, <2>8, <3>2, <3>3
    <3>4. ASSUME wild'[r] = 0, gc'[cur'[r]] = cur_gc'[r] PROVE cur_key'[r] = key'[cur'[r]]
      BY <2>1, <2>4, <3>1, <3>4
    <3> QED
      BY <2>6, <2>7, <3>2, <3>3, <3>4 DEF SearchGuards
  <2> QED
    BY <2>9, <2>10
<1> QED
  BY <1>3, <1>4

\* The comparison of gc: the answer is right, or next is guarded as cur was.
LEMMA OwnGc ==
  ASSUME IInv, NEW r \in Readers, CheckGc(r)
  PROVE  SearchControl(r)' /\ SearchGuards(r)'
<1>1. ReaderFrame /\ rpc[r] = "gcchk"
  BY DEF CheckGc
<1>2. SearchControl(r) /\ SearchGuards(r) /\ rpc[r] # "idle" /\ cur[r] \in Nodes
  BY <1>1 DEF IInv, ReaderInv, SearchControl
<1>3. CASE gc[cur[r]] = cur_gc[r] /\ cur_key[r] >= want[r]
  BY <1>1, <1>3, ReturnGuards DEF CheckGc
<1>4. CASE gc[cur[r]] = cur_gc[r] /\ ~(cur_key[r] >= want[r])
  <2>0. cur_key[r] < want[r] /\ Advance(r)
    <3>1. want[r] \in Keys \cup {NULL} /\ want[r] # NULL /\ cur_key[r] \in Nat
      BY <1>2 DEF SearchControl, IInv, TypeOK, ListTypeOK, SearchTypeOK
    <3>2. want[r] \in Nat
      BY <3>1, HashListAssumption
    <3> QED
      BY <1>4, <3>1, <3>2 DEF CheckGc
  <2>1. CASE nxt[r] = NULL
    BY <1>1, <2>0, <2>1, ReturnGuards DEF Advance
  <2>2. CASE nxt[r] # NULL
    <3>1. Visit(r, nxt[r], next_gc[r]) /\ prev_key'[r] = cur_key[r] /\ UNCHANGED wild
      BY <2>0, <2>2 DEF Advance, IInv, TypeOK, SearchTypeOK
    <3>2. nxt[r] \in Nodes
      BY <2>2 DEF IInv, TypeOK, SearchTypeOK, NodePtr
    <3>3. wild[r] = 0 => Guarded(r, nxt[r], next_gc[r], cur_key[r])
      BY <1>1, <1>2, <1>4, <2>0, <2>2 DEF SearchGuards
    <3>4. wild[r] = 0 => Guarded(r, cur[r], cur_gc[r], cur_key[r])
      <4>1. wild[r] = 0 => Guarded(r, cur[r], cur_gc[r], prev_key[r]) /\ cur_key[r] = key[cur[r]]
        BY <1>1, <1>2, <1>4 DEF SearchGuards, InLoop
      <4>2. cur_key[r] \in Nat
        BY DEF IInv, TypeOK, SearchTypeOK
      <4> QED
        BY <4>1, <4>2 DEF Guarded, Fit
    <3>5. CASE build = "GECOS_B"
      <4>1. prev'[r] = cur[r] /\ prev_gc'[r] = cur_gc[r]
        BY <2>0, <2>2, <3>5 DEF Advance, IInv, TypeOK, SearchTypeOK
      <4> QED
        BY <1>1, <1>2, <3>1, <3>2, <3>3, <3>4, <3>5, <4>1, VisitGuards
    <3>6. CASE build # "GECOS_B"
      <4>1. prev'[r] = NULL /\ wild'[r] = 0
        BY <1>2, <2>0, <2>2, <3>1, <3>6 DEF Advance, SearchControl
      <4> QED
        BY <1>1, <1>2, <3>1, <3>2, <3>3, <4>1, VisitGuards
    <3> QED
      BY <3>5, <3>6
  <2> QED
    BY <2>1, <2>2
<1>5. CASE gc[cur[r]] # cur_gc[r] /\ build = "GECOS_B"
  <2>1. /\ rpc'[r] = "prevchk"
        /\ UNCHANGED <<want, seen, build, cur, prev, prev_gc, prev_key, wild>>
    BY <1>1, <1>5 DEF CheckGc, ReaderFrame, searchVars, Jump, IInv, TypeOK, SearchTypeOK
  <2>2. wild[r] = 0 /\ prev[r] # NULL => Guarded(r, prev[r], prev_gc[r], prev_key[r])
    BY <1>2 DEF SearchGuards
  <2>3. wild'[r] = 0 /\ prev'[r] # NULL => Guarded(r, prev[r], prev_gc[r], prev_key[r])'
    BY <1>1, <2>1, <2>2, GuardedFrame DEF Guarded, Fit
  <2> QED
    BY <1>2, <1>5, <2>1, <2>3 DEF SearchControl, SearchGuards, InLoop
<1>6. CASE gc[cur[r]] # cur_gc[r] /\ build # "GECOS_B"
  BY <1>1, <1>2, <1>6, RetryGuards DEF CheckGc
<1> QED
  BY <1>3, <1>4, <1>5, <1>6

\* GECOS_B: going back to prev, with a value or without one.
LEMMA OwnPrev ==
  ASSUME IInv, NEW r \in Readers, CheckPrev(r) \/ WildPrev(r)
  PROVE  SearchControl(r)' /\ SearchGuards(r)'
<1>1. ReaderFrame /\ rpc[r] = "prevchk"
  BY DEF CheckPrev, WildPrev
<1>2. SearchControl(r) /\ SearchGuards(r) /\ rpc[r] # "idle" /\ cur[r] \in Nodes /\ build = "GECOS_B"
  BY <1>1 DEF IInv, ReaderInv, SearchControl
<1>3. ASSUME Retry(r) PROVE SearchControl(r)' /\ SearchGuards(r)'
  BY <1>1, <1>2, <1>3, RetryGuards
<1>4. CASE CheckPrev(r)
  <2>1. CASE gc[prev[r]] = prev_gc[r]
    <3>1. /\ Visit(r, prev[r], prev_gc[r]) /\ prev[r] \in Nodes
          /\ UNCHANGED <<prev, prev_gc, prev_key, wild>>
      BY <1>4, <2>1 DEF CheckPrev, IInv, TypeOK, SearchTypeOK, NodePtr
    <3>2. wild[r] = 0 => Guarded(r, prev[r], prev_gc[r], prev_key[r])
      BY <1>2, <1>4 DEF SearchGuards, CheckPrev
    <3>3. wild'[r] = 0 => Guarded(r, prev[r], prev_gc[r], prev_key'[r])
      BY <3>1, <3>2
    <3>4. wild'[r] = 0 /\ prev'[r] # NULL => Guarded(r, prev'[r], prev_gc'[r], prev_key'[r])
      BY <3>1, <3>2
    <3> QED
      BY <1>1, <1>2, <3>1, <3>3, <3>4, VisitGuards
  <2> QED
    BY <1>3, <1>4, <2>1 DEF CheckPrev
<1>5. CASE WildPrev(r)
  <2>1. ASSUME NEW n \in Nodes, Visit(r, n, gc[n]), wild' = [wild EXCEPT ![r] = 1],
               UNCHANGED <<prev, prev_gc, prev_key>>
        PROVE  SearchControl(r)' /\ SearchGuards(r)'
    <3>1. wild'[r] # 0
      BY <2>1 DEF IInv, TypeOK, SearchTypeOK
    <3> QED
      BY <1>1, <1>2, <2>1, <3>1, VisitGuards
  <2>2. ASSUME Jump(r, "fault"),
               UNCHANGED <<searchVars, cur, nxt, prev, cur_gc, next_gc, prev_gc, cur_key, prev_key, wild>>
        PROVE  SearchControl(r)' /\ SearchGuards(r)'
    <3>1. rpc'[r] = "fault" /\ UNCHANGED <<want, cur, prev, wild, build>>
      BY <1>1, <2>2 DEF Jump, ReaderFrame, searchVars, IInv, TypeOK, SearchTypeOK
    <3>2. prev[r] = NULL
      BY <1>5 DEF WildPrev
    <3> QED
      BY <1>2, <3>1, <3>2 DEF SearchControl, SearchGuards, InLoop
  <2> QED
    BY <1>3, <1>5, <2>1, <2>2 DEF WildPrev
<1> QED
  BY <1>4, <1>5

\* A search starts with nothing to rely on.
LEMMA OwnCall ==
  ASSUME IInv, NEW r \in Readers, NEW k \in Keys, SearchCall(r, k)
  PROVE  SearchControl(r)' /\ SearchGuards(r)'
<1>1. /\ rpc[r] = "idle" /\ rpc'[r] = "head" /\ want'[r] = k
      /\ UNCHANGED <<prev, prev_gc, prev_key, wild, build>>
  BY DEF SearchCall, BeginSearch, ReaderFrame, Jump, IInv, TypeOK, ListTypeOK, SearchTypeOK
<1>2. SearchControl(r) /\ SearchGuards(r) /\ k # NULL
  BY HashListAssumption DEF IInv, ReaderInv
<1> QED
  BY <1>1, <1>2 DEF SearchControl, SearchGuards, InLoop

\* A reader's step keeps the invariant of every reader.
LEMMA ReaderKeepsReaders ==
  ASSUME IInv, NEW r \in Readers, SearchStep(r) \/ \E k \in Keys : SearchCall(r, k)
  PROVE  ReaderInv'
<1>1. SearchControl(r)' /\ SearchGuards(r)'
  BY OwnRead, OwnHead, OwnNext, OwnGc, OwnPrev, OwnCall DEF SearchStep
<1> QED
  BY <1>1, OtherReaders DEF ReaderInv
(***************************************************************************)
(* The theorems                                                            *)
(***************************************************************************)
LEMMA InitInv == Init => IInv
<1> SUFFICES ASSUME Init PROVE IInv
  OBVIOUS
<1> USE DEF Init, ListInit
<1>1. ListTypeOK
  BY HashListAssumption DEF ListTypeOK, WriterPc, NodePtr
<1>2. TypeOK
  BY <1>1 DEF TypeOK, SearchTypeOK, ReaderPc, NodePtr
<1>3. OwnsBucket /\ Position /\ SeenNow
  BY DEF OwnsBucket, InCall, Position, WellPlaced, SeenNow
<1>4. ListWellFormed
  BY DEF ListWellFormed, HeadsLive, NextLive, NoneSkipped, KeysUnique
<1>5. OneRole
  BY DEF OneRole, Held
<1>6. ReaderInv
  BY DEF ReaderInv, SearchControl, SearchGuards, InLoop
<1> QED
  BY <1>1, <1>2, <1>3, <1>4, <1>5, <1>6 DEF IInv, ListInv

\* Every step keeps the inductive invariant.
LEMMA StepInvariant == IInv /\ [Next]_vars => IInv'
<1> SUFFICES ASSUME IInv, [Next]_vars PROVE IInv'
  OBVIOUS
<1>1. CASE Next
  <2>1. TypeOK' /\ ListInv'
    BY <1>1, TypeStep, ListStep DEF IInv
  <2>2. ReaderInv'
    BY <1>1, WriterKeepsReaders, ReaderKeepsReaders DEF Next
  <2> QED
    BY <2>1, <2>2 DEF IInv
<1>2. CASE UNCHANGED vars
  <2> USE <1>2 DEF vars, listVars, memVars, writerVars, searchVars, readerVars
  <2>1. ListTypeOK'
    BY DEF IInv, TypeOK, ListTypeOK
  <2>2. TypeOK'
    BY <2>1 DEF IInv, TypeOK, SearchTypeOK
  <2>3. OwnsBucket' /\ Position'
    BY DEF IInv, ListInv, OwnsBucket, InCall, WriterBucket, Position, WellPlaced,
           AtPosition, Deref, Absent
  <2>4. ListWellFormed' /\ SeenNow'
    BY QuietList, QuietSeen DEF IInv, ListInv
  <2>5. OneRole'
    BY DEF IInv, ListInv, OneRole, Held
  <2>6. \A n : Unfreed(n)' = Unfreed(n)
    BY DEF Unfreed
  <2>7. ReaderInv'
    BY <2>6 DEF IInv, ReaderInv, SearchControl, SearchGuards, InLoop, Guarded, Fit
  <2> QED
    BY <2>1, <2>2, <2>3, <2>4, <2>5, <2>7 DEF IInv, ListInv
<1> QED
  BY <1>1, <1>2

\* The inductive invariant of list_writer.c with list_gecos.c.
THEOREM Invariance == Spec => []IInv
BY InitInv, StepInvariant, PTL DEF Spec

\* The pointers of list_writer.c and list_gecos.c stay nodes or NULL, keys stay
\* keys, generations naturals, and search returns 0 or 1.
THEOREM TypeCorrect == Spec => []TypeOK
<1>1. IInv => TypeOK
  BY DEF IInv
<1> QED
  BY <1>1, Invariance, PTL

\* insert and delete keep every bucket sorted, complete and free of
\* duplicates at each of their stores (list_writer.c:25, :70-73).
THEOREM Sorted == Spec => []ListWellFormed
<1>1. IInv => ListWellFormed
  BY DEF IInv, ListInv
<1> QED
  BY <1>1, Invariance, PTL

\* No node is freed twice, handed out twice or handed out while linked.
THEOREM Roles == Spec => []OneRole
<1>1. IInv => OneRole
  BY DEF IInv, ListInv
<1> QED
  BY <1>1, Invariance, PTL

\* A reader that finds the generation it knows holds a node that is not free.
THEOREM Protection == Spec => []GenerationProtects
<1>1. IInv => GenerationProtects
  BY DEF IInv, ReaderInv, SearchGuards, GenerationProtects, Guarded, Fit
<1> QED
  BY <1>1, Invariance, PTL

\* The assertion of CHECK_CCRT (list_gecos.c:168) never fails.
THEOREM Ccrt == Spec => []CheckCcrt
<1>1. IInv => CheckCcrt
  BY DEF IInv, ReaderInv, SearchGuards, CheckCcrt, InLoop, Guarded, Fit
<1> QED
  BY <1>1, Invariance, PTL
\* A search that returns gives an answer that was right during its call.
LEMMA ReturnsSeen ==
  ASSUME IInv, NEW r \in Readers, SearchStep(r)
  PROVE  \/ UNCHANGED searchVars
         \/ \E x \in {0, 1} : EndSearch(r, x) /\ want[r] \in Keys /\ (wild[r] = 0 => x \in seen[r])
<1>0. SearchControl(r) /\ SearchGuards(r) /\ cur_key[r] \in Nat /\ want[r] \in Keys \cup {NULL}
  BY DEF IInv, ReaderInv, TypeOK, ListTypeOK, SearchTypeOK
<1>1. CASE ReadHead(r)
  <2>1. want[r] \in Keys
    BY <1>0, <1>1 DEF SearchControl, ReadHead
  <2>2. head[BucketOf(want[r])] = NULL => 0 \in seen[r]
    BY <2>1, HeadAnswers DEF IInv
  <2> QED
    BY <1>1, <2>1, <2>2 DEF ReadHead, Return
<1>2. CASE CheckGc(r)
  <2>1. want[r] \in Keys /\ want[r] \in Nat
    BY <1>0, <1>2, HashListAssumption DEF SearchControl, CheckGc
  <2>2. CASE gc[cur[r]] = cur_gc[r]
    <3>1. wild[r] = 0 => Fit(r, cur[r], prev_key[r]) /\ cur_key[r] = key[cur[r]]
      BY <1>0, <1>2, <2>2 DEF CheckGc, SearchGuards, InLoop, Guarded
    <3>2. CASE cur_key[r] >= want[r]
      <4>1. EndSearch(r, IF cur_key[r] = want[r] THEN 1 ELSE 0)
        BY <1>2, <2>2, <3>2 DEF CheckGc, Return
      <4>2. wild[r] = 0 => (IF cur_key[r] = want[r] THEN 1 ELSE 0) \in seen[r]
        BY <1>0, <2>1, <3>1, <3>2 DEF Fit
      <4> QED
        BY <2>1, <4>1, <4>2
    <3>3. CASE ~(cur_key[r] >= want[r])
      <4>1. Advance(r) /\ cur_key[r] < want[r]
        BY <1>0, <1>2, <2>1, <2>2, <3>3 DEF CheckGc
      <4>2. wild[r] = 0 /\ nxt[r] = NULL => 0 \in seen[r]
        BY <1>0, <1>2, <2>2, <4>1 DEF CheckGc, SearchGuards
      <4> QED
        BY <2>1, <4>1, <4>2 DEF Advance, Return, Visit
    <3> QED
      BY <3>2, <3>3
  <2>3. CASE gc[cur[r]] # cur_gc[r]
    BY <1>2, <2>3 DEF CheckGc, Retry
  <2> QED
    BY <2>2, <2>3
<1>3. CASE ReadHeadGc(r) \/ ReadKey(r) \/ ReadNext(r) \/ ReadNextGc(r)
  BY <1>3 DEF ReadHeadGc, ReadKey, ReadNext, ReadNextGc
<1>4. CASE CheckHead(r) \/ CheckNext(r)
  BY <1>4 DEF CheckHead, CheckNext, Visit, Retry
<1>5. CASE CheckPrev(r) \/ WildPrev(r)
  BY <1>5 DEF CheckPrev, WildPrev, Visit, Retry
<1> QED
  BY <1>1, <1>2, <1>3, <1>4, <1>5, <1>0 DEF SearchStep

\* No step of insert or delete ends a search.
LEMMA WriterAnswersNothing ==
  ASSUME IInv, NEW w \in Writers, Writer(w)
  PROVE  UNCHANGED <<want, ret>>
<1>1. CASE Retire(w)
  BY <1>1 DEF Retire, searchVars
<1>2. CASE (Call(w) \/ WriterStep(w)) /\ UNCHANGED gc
  BY <1>2, WriterStable DEF IInv, Call, InsertCall, DeleteCall
<1> QED
  BY <1>1, <1>2 DEF Writer

\* search answers 1 only if its key was there at some moment of the call, and
\* 0 only if it was absent at some moment of the call (list_gecos.c:28, :80, :122).
THEOREM Linearizable == Spec => SearchLinearizable
<1> DEFINE A == \A r \in Readers : Answered(r) /\ wild[r] = 0 => ret'[r] \in seen[r]
<1>1. IInv /\ [Next]_vars => [A]_vars
  <2> SUFFICES ASSUME IInv, Next, NEW r \in Readers, Answered(r), wild[r] = 0
               PROVE  ret'[r] \in seen[r]
    OBVIOUS
  <2>1. ASSUME NEW w \in Writers, Writer(w) PROVE FALSE
    BY <2>1, WriterAnswersNothing DEF Answered
  <2>2. ASSUME NEW s \in Readers, NEW k \in Keys, SearchCall(s, k) PROVE FALSE
    BY <2>2, HashListAssumption
       DEF Answered, SearchCall, BeginSearch, IInv, TypeOK, ListTypeOK
  <2>3. ASSUME NEW s \in Readers, SearchStep(s) PROVE ret'[r] \in seen[r]
    <3>1. s = r
      BY <2>3, OtherLocals DEF SameLocals, Answered, IInv
    <3>2. PICK x \in {0, 1} : EndSearch(r, x) /\ x \in seen[r]
      BY <2>3, <3>1, ReturnsSeen DEF Answered, searchVars
    <3> QED
      BY <3>2 DEF EndSearch, IInv, TypeOK, ListTypeOK
  <2> QED
    BY <2>1, <2>2, <2>3 DEF Next
<1> QED
  BY <1>1, Invariance, PTL DEF Spec, SearchLinearizable

(***************************************************************************)
(* Without the uninitialised prev of GECOS_B the table is a linearizable   *)
(* set (list_writer.c:11, :48, list_gecos.c:80, :122): every call takes    *)
(* effect at one moment, every other step changes nothing in the set.      *)
(***************************************************************************)
THEOREM Refinement ==
  ASSUME "GECOS_B" \notin Builds
  PROVE  Spec => SetSpec
<1>1. Init => Set!Init
  BY SetInit DEF Init
<1>2. IInv /\ [Next]_vars => [Set!Next]_(Set!vars)
  <2> SUFFICES ASSUME IInv, [Next]_vars PROVE Set!Next \/ UNCHANGED <<Members, want, seen, ret>>
    BY DEF Set!vars
  <2>1. ASSUME NEW w \in Writers, Writer(w)
        PROVE  Set!Next \/ UNCHANGED <<Members, want, seen, ret>>
    <3>1. CASE Retire(w)
      BY <3>1 DEF Retire, Members, memVars, searchVars
    <3>2. CASE (Call(w) \/ WriterStep(w)) /\ UNCHANGED gc
      BY <3>2, WriterRefines DEF IInv, Call, InsertCall, DeleteCall
    <3> QED
      BY <2>1, <3>1, <3>2 DEF Writer
  <2>2. ASSUME NEW r \in Readers, NEW k \in Keys, SearchCall(r, k) PROVE Set!Next
    BY <2>2, CallRefines DEF SearchCall, ReaderFrame, memVars
  <2>3. ASSUME NEW r \in Readers, SearchStep(r)
        PROVE  Set!Next \/ UNCHANGED <<Members, want, seen, ret>>
    <3>1. UNCHANGED <<key, live>>
      BY <2>3, SearchFrame DEF ReaderFrame, memVars
    <3>2. wild[r] = 0
      BY DEF IInv, TypeOK, ReaderInv, SearchControl
    <3> QED
      BY <2>3, <3>1, <3>2, ReturnsSeen, ReturnRefines DEF Members, searchVars
  <2>4. CASE UNCHANGED vars
    BY <2>4 DEF vars, listVars, memVars, searchVars, Members
  <2> QED
    BY <2>1, <2>2, <2>3, <2>4 DEF Next
<1> QED
  BY <1>1, <1>2, Invariance, PTL DEF Spec, SetSpec, Set!Spec
===============================================================================
