----------------------------- MODULE SGecosProofs -----------------------------
(***************************************************************************)
(* search of list_sgecos.c is linearizable for every number of nodes,      *)
(* keys, buckets and readers.                                              *)
(***************************************************************************)
EXTENDS SGecos, HashListProofs

\* A step of search writes nothing but the reader's own variables.
LEMMA SearchFrame ==
  ASSUME NEW r \in Readers, SearchStep(r)
  PROVE  /\ ReaderFrame
         /\ UNCHANGED searchVars \/ \E x \in {0, 1} : EndSearch(r, x)
<1>1. CASE ReadGen(r) \/ ReadKey(r) \/ ReadNext(r)
  BY <1>1 DEF ReadGen, ReadKey, ReadNext
<1>2. CASE ReadHead(r) \/ CheckGen(r)
  BY <1>2 DEF ReadHead, CheckGen, Visit, Return
<1> QED
  BY <1>1, <1>2 DEF SearchStep

\* The list's invariant holds whichever thread takes a step.
LEMMA ListStep ==
  ASSUME ListInv, Next
  PROVE  ListInv'
<1>1. ASSUME NEW w \in Writers, Writer(w) PROVE ListInv'
  <2>1. CASE Retire(w)
    BY <2>1, RetireInv DEF Retire
  <2> QED
    BY <1>1, <2>1, CallInv, WriterStepInv DEF Writer, Call, InsertCall
<1>2. ASSUME NEW r \in Readers, SearchStep(r) PROVE ListInv'
  BY <1>2, SearchFrame, SearchInv DEF ReaderFrame
<1>3. ASSUME NEW r \in Readers, NEW k \in Keys, SearchCall(r, k) PROVE ListInv'
  BY <1>3, SearchInv DEF SearchCall, ReaderFrame
<1> QED
  BY <1>1, <1>2, <1>3 DEF Next

\* The bucket an open search is in.
LEMMA ReaderBucket ==
  ASSUME IInv, NEW r \in Readers, rpc[r] # "idle"
  PROVE  want[r] \in Keys /\ want[r] \in Nat /\ Bucket(r) \in Buckets
BY BucketRange, HashListAssumption DEF IInv, TypeOK, ListTypeOK, SearchInvariant, Bucket

\* Every step keeps the types.
LEMMA TypeStep ==
  ASSUME IInv, Next
  PROVE  TypeOK'
<1>0. ListTypeOK'
  BY ListStep DEF IInv, ListInv
<1>1. ASSUME NEW w \in Writers, Writer(w) PROVE TypeOK'
  <2>1. CASE Retire(w)
    <3>1. WriterBucket(w) \in Buckets
      BY <2>1, BucketRange, HashListAssumption
         DEF Retire, WriterBucket, IInv, ListInv, OwnsBucket
    <3> QED
      BY <1>0, <1>1, <2>1, <3>1 DEF IInv, TypeOK, Writer, Retire, readerVars
  <2> QED
    BY <1>0, <1>1, <2>1 DEF IInv, TypeOK, Writer, readerVars
<1>2. ASSUME NEW r \in Readers, SearchStep(r) PROVE TypeOK'
  <2>1. ASSUME NEW x, Return(r, x), ReaderFrame PROVE TypeOK'
    BY <1>0, <2>1 DEF IInv, TypeOK, Return, ReaderFrame, Jump, ReaderPc, NodePtr
  <2>2. ASSUME NEW n \in NodePtr, Visit(r, n), ReaderFrame PROVE TypeOK'
    <3>1. CASE n = NULL
      BY <2>1, <2>2, <3>1 DEF Visit
    <3>2. CASE n # NULL
      BY <1>0, <2>2, <3>2 DEF IInv, TypeOK, Visit, ReaderFrame, Jump, ReaderPc, NodePtr
    <3> QED
      BY <3>1, <3>2
  <2>3. CASE ReadGen(r)
    <3>1. gen[Bucket(r)] \in Nat
      BY <2>3, ReaderBucket DEF ReadGen, IInv, TypeOK
    <3> QED
      BY <1>0, <2>3, <3>1 DEF IInv, TypeOK, ReadGen, ReaderFrame, Jump, ReaderPc
  <2>4. CASE ReadHead(r)
    <3>1. head[Bucket(r)] \in NodePtr
      BY <2>4, ReaderBucket DEF ReadHead, IInv, TypeOK, ListTypeOK
    <3> QED
      BY <2>2, <2>4, <3>1 DEF ReadHead
  <2>5. CASE ReadKey(r) \/ ReadNext(r)
    <3>1. cur[r] \in Nodes /\ key[cur[r]] \in Nat /\ next[cur[r]] \in NodePtr
      BY <2>5 DEF ReadKey, ReadNext, IInv, TypeOK, ListTypeOK, SearchInvariant
    <3> QED
      BY <1>0, <2>5, <3>1 DEF IInv, TypeOK, ReadKey, ReadNext, ReaderFrame, Jump, ReaderPc
  <2>6. CASE CheckGen(r)
    <3>1. CASE gen[Bucket(r)] # lgc[r]
      BY <1>0, <2>6, <3>1 DEF IInv, TypeOK, CheckGen, ReaderFrame, Jump, ReaderPc, NodePtr
    <3>2. CASE gen[Bucket(r)] = lgc[r]
      <4>1. nxt[r] \in NodePtr
        BY DEF IInv, TypeOK
      <4> QED
        BY <2>1, <2>2, <2>6, <3>2, <4>1 DEF CheckGen
    <3> QED
      BY <3>1, <3>2
  <2> QED
    BY <1>2, <2>3, <2>4, <2>5, <2>6 DEF SearchStep
<1>3. ASSUME NEW r \in Readers, NEW k \in Keys, SearchCall(r, k) PROVE TypeOK'
  BY <1>0, <1>3 DEF IInv, TypeOK, SearchCall, ReaderFrame, Jump, ReaderPc
<1> QED
  BY <1>1, <1>2, <1>3 DEF Next

(***************************************************************************)
(* The updater does not disturb the readers: no counter goes back, and     *)
(* while a counter stands still the nodes of its bucket are not freed.     *)
(***************************************************************************)
LEMMA WriterKeepsReaders ==
  ASSUME IInv, NEW w \in Writers, Writer(w), NEW r \in Readers
  PROVE  SearchInvariant(r)'
<1>1. /\ \A b \in Buckets : gen[b] \in Nat /\ gen'[b] \in Nat /\ gen[b] <= gen'[b]
      /\ \A n \in Nodes : Unfreed(n) /\ gen'[BucketOf(key[n])] = gen[BucketOf(key[n])] =>
           Unfreed(n)' /\ key'[n] = key[n]
      /\ seen[r] \subseteq seen'[r]
      /\ UNCHANGED want
  <2>1. CASE Retire(w)
    <3>1. /\ wcur[w] \in Nodes /\ BucketOf(key[wcur[w]]) = WriterBucket(w)
          /\ WriterBucket(w) \in Buckets
      BY <2>1, BucketRange, HashListAssumption
         DEF Retire, IInv, ListInv, OwnsBucket, Position, WellPlaced, WriterBucket
    <3>2. \A b \in Buckets : gen[b] \in Nat /\ gen'[b] = IF b = WriterBucket(w) THEN gen[b] + 1 ELSE gen[b]
      BY <2>1, <3>1 DEF Retire, IInv, TypeOK
    <3>3. UNCHANGED <<live, key, want, seen, wcur>>
      BY <2>1 DEF Retire, memVars, searchVars
    <3>4. \A v \in Writers : v # w => wpc'[v] = wpc[v]
      BY <2>1 DEF Retire, GoTo, IInv, TypeOK, ListTypeOK
    <3>5. \A n \in Nodes : n # wcur[w] /\ Unfreed(n) => Unfreed(n)'
      BY <3>3, <3>4 DEF Unfreed
    <3>6. gen'[BucketOf(key[wcur[w]])] # gen[BucketOf(key[wcur[w]])]
      BY <3>1, <3>2
    <3> QED
      BY <3>2, <3>3, <3>5, <3>6
  <2>2. CASE (Call(w) \/ WriterStep(w)) /\ UNCHANGED gen
    <3>1. \A b \in Buckets : gen[b] \in Nat /\ gen'[b] = gen[b]
      BY <2>2 DEF IInv, TypeOK
    <3>2. WriterStep(w) \/ \E op \in {"insert", "delete"}, k \in Keys : BeginCall(w, op, k)
      BY <2>2 DEF Call, InsertCall
    <3> QED
      BY <3>1, <3>2, WriterStable DEF IInv
  <2> QED
    BY <2>1, <2>2 DEF Writer
<1>2. UNCHANGED <<rpc, lgc, cur, nxt, cur_key>>
  BY DEF Writer, readerVars
<1>3. SearchInvariant(r) /\ lgc[r] \in Nat /\ nxt[r] \in NodePtr /\ Bucket(r)' = Bucket(r)
  BY <1>1 DEF IInv, TypeOK, Bucket
<1>4. CASE rpc[r] \in {"idle", "lgc"}
  BY <1>1, <1>2, <1>3, <1>4 DEF SearchInvariant
<1>5. CASE rpc[r] \notin {"idle", "lgc"}
  <2>1. Bucket(r) \in Buckets
    BY <1>5, ReaderBucket
  <2>2. lgc[r] <= gen'[Bucket(r)] /\ (gen'[Bucket(r)] = lgc[r] => gen[Bucket(r)] = lgc[r])
    BY <1>1, <1>3, <1>5, <2>1 DEF SearchInvariant
  <2>3. ASSUME NEW n \in Nodes, Fit(r, n), gen'[Bucket(r)] = gen[Bucket(r)]
        PROVE  Fit(r, n)' /\ key'[n] = key[n]
    BY <1>1, <1>3, <2>3 DEF Fit
  <2>4. ASSUME rpc[r] \in {"key", "next", "check"}, gen'[Bucket(r)] = lgc[r]
        PROVE  /\ Fit(r, cur[r])'
               /\ rpc[r] # "key" => cur_key[r] = key'[cur[r]]
               /\ rpc[r] = "check" /\ cur_key[r] < want[r] =>
                    IF nxt[r] = NULL THEN 0 \in seen'[r] ELSE Fit(r, nxt[r])'
    <3>1. /\ Fit(r, cur[r]) /\ cur[r] \in Nodes
          /\ rpc[r] # "key" => cur_key[r] = key[cur[r]]
          /\ rpc[r] = "check" /\ cur_key[r] < want[r] =>
               IF nxt[r] = NULL THEN 0 \in seen[r] ELSE Fit(r, nxt[r])
      BY <1>3, <2>2, <2>4 DEF SearchInvariant
    <3>2. Fit(r, cur[r])' /\ key'[cur[r]] = key[cur[r]]
      BY <1>2, <2>2, <2>3, <2>4, <3>1 DEF Fit, Bucket
    <3>3. nxt[r] # NULL /\ Fit(r, nxt[r]) => Fit(r, nxt[r])'
      BY <1>2, <1>3, <2>2, <2>3, <2>4 DEF Fit, Bucket, NodePtr
    <3> QED
      BY <1>1, <3>1, <3>2, <3>3
  <2>5. CASE rpc[r] = "head"
    BY <1>1, <1>2, <1>3, <2>2, <2>5 DEF SearchInvariant
  <2>6. CASE rpc[r] \in {"key", "next", "check"}
    BY <1>1, <1>2, <1>3, <2>2, <2>4, <2>6 DEF SearchInvariant
  <2> QED
    BY <1>5, <2>5, <2>6 DEF IInv, TypeOK, ReaderPc
<1> QED
  BY <1>4, <1>5
(***************************************************************************)
(* The steps of search.                                                    *)
(***************************************************************************)
\* The variables of a reader are unchanged by the steps of another one.
SameLocals(s) ==
  /\ rpc'[s] = rpc[s] /\ lgc'[s] = lgc[s] /\ cur'[s] = cur[s] /\ nxt'[s] = nxt[s]
  /\ cur_key'[s] = cur_key[s] /\ want'[s] = want[s] /\ seen'[s] = seen[s]

\* What one reader does is invisible to the others.
LEMMA OtherReaders ==
  ASSUME IInv, NEW r \in Readers, NEW s \in Readers, s # r,
         SearchStep(r) \/ \E k \in Keys : SearchCall(r, k)
  PROVE  SearchInvariant(s)'
<1>1. SameLocals(s)
  <2> USE DEF IInv, TypeOK, ListTypeOK, Jump, searchVars, SameLocals
  <2>1. ASSUME NEW x, Return(r, x) PROVE SameLocals(s)
    BY <2>1 DEF Return, EndSearch
  <2>2. ASSUME NEW n, Visit(r, n) PROVE SameLocals(s)
    BY <2>1, <2>2 DEF Visit
  <2>3. CASE ReadGen(r) \/ ReadKey(r) \/ ReadNext(r)
    BY <2>3 DEF ReadGen, ReadKey, ReadNext
  <2>4. CASE ReadHead(r)
    BY <2>2, <2>4 DEF ReadHead
  <2>5. CASE CheckGen(r)
    <3>1. CASE gen[Bucket(r)] # lgc[r]
      BY <2>5, <3>1 DEF CheckGen
    <3>2. CASE gen[Bucket(r)] = lgc[r]
      BY <2>1, <2>2, <2>5, <3>2 DEF CheckGen
    <3> QED
      BY <3>1, <3>2
  <2>6. CASE \E k \in Keys : SearchCall(r, k)
    BY <2>6 DEF SearchCall, BeginSearch
  <2> QED
    BY <2>3, <2>4, <2>5, <2>6 DEF SearchStep
<1>2. UNCHANGED <<gen, key, live, wpc, wcur>>
  BY SearchFrame DEF SearchCall, ReaderFrame, memVars, writerVars
<1>3. \A n : Unfreed(n)' = Unfreed(n)
  BY <1>2 DEF Unfreed
<1>4. SearchInvariant(s)
  BY DEF IInv
<1> QED
  BY <1>1, <1>2, <1>3, <1>4 DEF SameLocals, SearchInvariant, Bucket, Fit

\* A node that is fit stays so over a step of search that goes on.
LEMMA FitFrame ==
  ASSUME ReaderFrame, NEW r \in Readers, UNCHANGED searchVars, NEW n, Fit(r, n)
  PROVE  Fit(r, n)'
<1>1. UNCHANGED <<key, live, wpc, wcur, want, seen>>
  BY DEF ReaderFrame, memVars, writerVars, searchVars
<1>2. Unfreed(n)' = Unfreed(n)
  BY <1>1 DEF Unfreed
<1> QED
  BY <1>1, <1>2 DEF Fit, Bucket

\* A reader that has returned relies on nothing.
LEMMA OwnReturn ==
  ASSUME IInv, NEW r \in Readers, NEW x, Return(r, x)
  PROVE  SearchInvariant(r)'
<1>1. rpc'[r] = "idle" /\ want'[r] = NULL
  BY DEF Return, EndSearch, Jump, IInv, TypeOK, ListTypeOK
<1> QED
  BY <1>1 DEF SearchInvariant

\* The loop starts a turn at a node that is fit if the counter has not moved.
LEMMA OwnVisit ==
  ASSUME IInv, NEW r \in Readers, rpc[r] # "idle", ReaderFrame,
         NEW n \in NodePtr, Visit(r, n), lgc[r] <= gen[Bucket(r)],
         n # NULL /\ gen[Bucket(r)] = lgc[r] => Fit(r, n)
  PROVE  SearchInvariant(r)'
<1>1. CASE n = NULL
  BY <1>1, OwnReturn DEF Visit
<1>2. CASE n # NULL
  <2>1. /\ rpc'[r] = "key" /\ cur'[r] = n /\ n \in Nodes
        /\ UNCHANGED <<searchVars, lgc, gen>>
    BY <1>2 DEF Visit, ReaderFrame, Jump, IInv, TypeOK, NodePtr
  <2>2. want'[r] = want[r] /\ want[r] # NULL /\ Bucket(r)' = Bucket(r)
    BY <2>1 DEF searchVars, IInv, SearchInvariant, Bucket
  <2>3. gen[Bucket(r)] = lgc[r] => Fit(r, n)'
    BY <1>2, <2>1, FitFrame
  <2>4. gen[Bucket(r)] = lgc[r] => Fit(r, cur[r])'
    BY <2>1, <2>3 DEF Fit, Unfreed, Bucket
  <2> QED
    BY <2>1, <2>2, <2>4 DEF SearchInvariant
<1> QED
  BY <1>1, <1>2

\* A step of search keeps what the reader relies on.
LEMMA OwnStep ==
  ASSUME IInv, NEW r \in Readers, SearchStep(r)
  PROVE  SearchInvariant(r)'
<1>0. /\ SearchInvariant(r) /\ ReaderFrame /\ rpc[r] # "idle"
      /\ want[r] \in Keys /\ want[r] \in Nat /\ Bucket(r) \in Buckets
      /\ gen[Bucket(r)] \in Nat /\ lgc[r] \in Nat /\ UNCHANGED gen
  <2>1. rpc[r] # "idle"
    BY DEF SearchStep, ReadGen, ReadHead, ReadKey, ReadNext, CheckGen
  <2> QED
    BY <2>1, ReaderBucket, SearchFrame DEF IInv, TypeOK, ReaderFrame
<1>1. CASE ReadGen(r)
  <2>1. /\ rpc'[r] = "head" /\ lgc'[r] = gen[Bucket(r)]
        /\ want'[r] = want[r] /\ Bucket(r)' = Bucket(r)
    BY <1>1 DEF ReadGen, Jump, searchVars, Bucket, IInv, TypeOK
  <2> QED
    BY <1>0, <2>1 DEF SearchInvariant
<1>2. CASE ReadHead(r)
  <2>1. head[Bucket(r)] \in NodePtr
    BY <1>0 DEF IInv, TypeOK, ListTypeOK
  <2>2. head[Bucket(r)] # NULL => Fit(r, head[Bucket(r)])
    BY <1>0, HeadAnswers DEF IInv, Bucket, Fit, Unfreed
  <2>3. lgc[r] <= gen[Bucket(r)]
    BY <1>0, <1>2 DEF SearchInvariant, ReadHead
  <2> QED
    BY <1>0, <1>2, <2>1, <2>2, <2>3, OwnVisit DEF ReadHead
<1>3. CASE ReadKey(r)
  <2>1. /\ rpc'[r] = "next" /\ cur_key'[r] = key[cur[r]]
        /\ UNCHANGED <<searchVars, lgc, cur, key>> /\ want'[r] = want[r] /\ Bucket(r)' = Bucket(r)
    BY <1>3 DEF ReadKey, Jump, searchVars, Bucket, ReaderFrame, memVars, IInv, TypeOK
  <2>2. Fit(r, cur[r]) => Fit(r, cur[r])'
    BY <1>0, <2>1, FitFrame DEF Fit, Bucket, Unfreed
  <2> QED
    BY <1>0, <1>3, <2>1, <2>2 DEF SearchInvariant, ReadKey
<1>4. CASE ReadNext(r)
  <2>1. /\ rpc'[r] = "check" /\ nxt'[r] = next[cur[r]]
        /\ UNCHANGED <<searchVars, lgc, cur, cur_key, key, seen>>
        /\ want'[r] = want[r] /\ Bucket(r)' = Bucket(r)
    BY <1>4 DEF ReadNext, Jump, searchVars, Bucket, ReaderFrame, memVars, IInv, TypeOK
  <2>2. Fit(r, cur[r]) => Fit(r, cur[r])'
    BY <1>0, <2>1, FitFrame DEF Fit, Bucket, Unfreed
  <2>3. ASSUME gen[Bucket(r)] = lgc[r], cur_key[r] < want[r]
        PROVE  IF nxt'[r] = NULL THEN 0 \in seen'[r] ELSE Fit(r, nxt[r])'
    <3>1. Fit(r, cur[r]) /\ cur_key[r] = key[cur[r]] /\ cur[r] \in Nodes
      BY <1>0, <1>4, <2>3 DEF SearchInvariant, ReadNext
    <3>2. IF next[cur[r]] = NULL THEN 0 \in seen[r] ELSE Fit(r, next[cur[r]])
      BY <1>0, <2>3, <3>1, NextAnswers DEF IInv, Fit, Bucket, Unfreed
    <3>3. next[cur[r]] # NULL => Fit(r, nxt[r])'
      <4>1. ASSUME NEW n, Fit(r, n), n = nxt'[r] PROVE Fit(r, nxt[r])'
        BY <1>0, <2>1, <4>1, FitFrame DEF Fit, Bucket, Unfreed
      <4> QED
        BY <2>1, <3>2, <4>1
    <3> QED
      BY <2>1, <3>2, <3>3
  <2> QED
    BY <1>0, <1>4, <2>1, <2>2, <2>3 DEF SearchInvariant, ReadNext
<1>5. CASE CheckGen(r)
  <2>1. CASE gen[Bucket(r)] # lgc[r]
    <3>1. rpc'[r] = "lgc" /\ want'[r] = want[r]
      BY <1>5, <2>1 DEF CheckGen, Jump, searchVars, IInv, TypeOK
    <3> QED
      BY <1>0, <3>1 DEF SearchInvariant
  <2>2. CASE gen[Bucket(r)] = lgc[r]
    <3>1. nxt[r] \in NodePtr /\ cur_key[r] \in Nat
      BY DEF IInv, TypeOK
    <3>2. cur_key[r] < want[r] /\ nxt[r] # NULL => Fit(r, nxt[r])
      BY <1>0, <1>5, <2>2 DEF SearchInvariant, CheckGen
    <3>3. CASE cur_key[r] >= want[r]
      BY <1>5, <2>2, <3>3, OwnReturn DEF CheckGen
    <3>4. CASE ~(cur_key[r] >= want[r])
      <4>1. cur_key[r] < want[r] /\ Visit(r, nxt[r])
        BY <1>0, <1>5, <2>2, <3>1, <3>4 DEF CheckGen
      <4> QED
        BY <1>0, <2>2, <3>1, <3>2, <4>1, OwnVisit
    <3> QED
      BY <3>3, <3>4
  <2> QED
    BY <2>1, <2>2
<1> QED
  BY <1>1, <1>2, <1>3, <1>4, <1>5 DEF SearchStep

\* A search starts with nothing to rely on.
LEMMA OwnCall ==
  ASSUME IInv, NEW r \in Readers, NEW k \in Keys, SearchCall(r, k)
  PROVE  SearchInvariant(r)'
<1>1. rpc'[r] = "lgc" /\ want'[r] = k /\ k # NULL
  BY HashListAssumption DEF SearchCall, BeginSearch, Jump, IInv, TypeOK, ListTypeOK
<1> QED
  BY <1>1 DEF SearchInvariant

(***************************************************************************)
(* The theorems                                                            *)
(***************************************************************************)
LEMMA InitInv == Init => IInv
<1> SUFFICES ASSUME Init PROVE IInv
  OBVIOUS
<1> USE DEF Init, ListInit
<1>1. ListTypeOK
  BY HashListAssumption DEF ListTypeOK, WriterPc, NodePtr
<1>2. TypeOK
  BY <1>1 DEF TypeOK, ReaderPc, NodePtr
<1>3. OwnsBucket /\ Position /\ SeenNow
  BY DEF OwnsBucket, InCall, Position, WellPlaced, SeenNow
<1>4. ListWellFormed
  BY DEF ListWellFormed, HeadsLive, NextLive, NoneSkipped, KeysUnique
<1>5. OneRole
  BY DEF OneRole, Held
<1>6. \A r \in Readers : SearchInvariant(r)
  BY DEF SearchInvariant
<1> QED
  BY <1>1, <1>2, <1>3, <1>4, <1>5, <1>6 DEF IInv, ListInv

\* Every step keeps the inductive invariant.
LEMMA StepInvariant == IInv /\ [Next]_vars => IInv'
<1> SUFFICES ASSUME IInv, [Next]_vars PROVE IInv'
  OBVIOUS
<1>1. CASE Next
  <2>1. TypeOK' /\ ListInv'
    BY <1>1, TypeStep, ListStep DEF IInv
  <2>2. ASSUME NEW s \in Readers PROVE SearchInvariant(s)'
    <3>1. ASSUME NEW w \in Writers, Writer(w) PROVE SearchInvariant(s)'
      BY <3>1, WriterKeepsReaders
    <3>2. ASSUME NEW r \in Readers, SearchStep(r) \/ \E k \in Keys : SearchCall(r, k)
          PROVE  SearchInvariant(s)'
      BY <3>2, OwnStep, OwnCall, OtherReaders
    <3> QED
      BY <1>1, <3>1, <3>2 DEF Next
  <2> QED
    BY <2>1, <2>2 DEF IInv
<1>2. CASE UNCHANGED vars
  <2> USE <1>2 DEF vars, listVars, memVars, writerVars, searchVars, readerVars
  <2>1. ListTypeOK'
    BY DEF IInv, TypeOK, ListTypeOK
  <2>2. TypeOK'
    BY <2>1 DEF IInv, TypeOK
  <2>3. OwnsBucket' /\ Position'
    BY DEF IInv, ListInv, OwnsBucket, InCall, WriterBucket, Position, WellPlaced,
           AtPosition, Deref, Absent
  <2>4. ListWellFormed' /\ SeenNow'
    BY QuietList, QuietSeen DEF IInv, ListInv
  <2>5. OneRole'
    BY DEF IInv, ListInv, OneRole, Held
  <2>6. \A n : Unfreed(n)' = Unfreed(n)
    BY DEF Unfreed
  <2>7. \A r \in Readers : SearchInvariant(r)'
    BY <2>6 DEF IInv, SearchInvariant, Fit, Bucket
  <2> QED
    BY <2>1, <2>2, <2>3, <2>4, <2>5, <2>7 DEF IInv, ListInv
<1> QED
  BY <1>1, <1>2

\* The inductive invariant of list_sgecos.c: types, the shape of the list at
\* every store of the updater, and what each check of a reader establishes.
THEOREM Invariance == Spec => []IInv
BY InitInv, StepInvariant, PTL DEF Spec

\* A reader that finds the counter it noted stands on a node of its bucket
\* that has not been freed (list_sgecos.c:36-44).
THEOREM Protection == Spec => []BucketGenerationProtects
<1>1. IInv => BucketGenerationProtects
  BY DEF IInv, SearchInvariant, BucketGenerationProtects, Fit
<1> QED
  BY <1>1, Invariance, PTL

\* A search that returns gives an answer that was right during its call.
LEMMA ReturnsSeen ==
  ASSUME IInv, NEW r \in Readers, SearchStep(r)
  PROVE  \/ UNCHANGED searchVars
         \/ want[r] \in Keys /\ \E x \in seen[r] : EndSearch(r, x)
<1>1. CASE ReadGen(r) \/ ReadKey(r) \/ ReadNext(r)
  BY <1>1 DEF ReadGen, ReadKey, ReadNext
<1>2. CASE ReadHead(r)
  <2>1. want[r] \in Keys
    BY <1>2, ReaderBucket DEF ReadHead
  <2>2. head[Bucket(r)] = NULL => 0 \in seen[r]
    BY <2>1, HeadAnswers DEF IInv, Bucket
  <2> QED
    BY <1>2, <2>1, <2>2 DEF ReadHead, Visit, Return
<1>3. CASE CheckGen(r)
  <2>1. want[r] \in Keys /\ want[r] \in Nat /\ cur_key[r] \in Nat /\ SearchInvariant(r)
    BY <1>3, ReaderBucket DEF CheckGen, IInv, TypeOK
  <2>2. CASE gen[Bucket(r)] # lgc[r]
    BY <1>3, <2>2 DEF CheckGen
  <2>3. CASE gen[Bucket(r)] = lgc[r] /\ cur_key[r] >= want[r]
    <3>1. Fit(r, cur[r]) /\ cur_key[r] = key[cur[r]]
      BY <1>3, <2>1, <2>3 DEF CheckGen, SearchInvariant
    <3>2. EndSearch(r, IF cur_key[r] = want[r] THEN 1 ELSE 0)
      BY <1>3, <2>3 DEF CheckGen, Return
    <3>3. (IF cur_key[r] = want[r] THEN 1 ELSE 0) \in seen[r]
      BY <2>1, <2>3, <3>1 DEF Fit
    <3> QED
      BY <2>1, <3>2, <3>3
  <2>4. CASE gen[Bucket(r)] = lgc[r] /\ ~(cur_key[r] >= want[r])
    <3>1. Visit(r, nxt[r]) /\ cur_key[r] < want[r]
      BY <1>3, <2>1, <2>4 DEF CheckGen
    <3>2. nxt[r] = NULL => 0 \in seen[r]
      BY <1>3, <2>1, <2>4, <3>1 DEF CheckGen, SearchInvariant
    <3> QED
      BY <2>1, <3>1, <3>2 DEF Visit, Return
  <2> QED
    BY <2>2, <2>3, <2>4
<1> QED
  BY <1>1, <1>2, <1>3 DEF SearchStep

(***************************************************************************)
(* The SGECOS table (list_sgecos.c) is a linearizable set, for any number  *)
(* of readers and one updater.                                             *)
(***************************************************************************)
THEOREM Refinement == Spec => SetSpec
<1>1. Init => Set!Init
  BY SetInit DEF Init
<1>2. IInv /\ [Next]_vars => [Set!Next]_(Set!vars)
  <2> SUFFICES ASSUME IInv, [Next]_vars PROVE Set!Next \/ UNCHANGED <<Members, want, seen, ret>>
    BY DEF Set!vars
  <2>1. ASSUME NEW w \in Writers, Writer(w)
        PROVE  Set!Next \/ UNCHANGED <<Members, want, seen, ret>>
    <3>1. CASE Retire(w)
      BY <3>1 DEF Retire, Members, memVars, searchVars
    <3>2. CASE (Call(w) \/ WriterStep(w)) /\ UNCHANGED gen
      BY <3>2, WriterRefines DEF IInv, Call, InsertCall
    <3> QED
      BY <2>1, <3>1, <3>2 DEF Writer
  <2>2. ASSUME NEW r \in Readers, NEW k \in Keys, SearchCall(r, k) PROVE Set!Next
    BY <2>2, CallRefines DEF SearchCall, ReaderFrame, memVars
  <2>3. ASSUME NEW r \in Readers, SearchStep(r)
        PROVE  Set!Next \/ UNCHANGED <<Members, want, seen, ret>>
    <3>1. UNCHANGED <<key, live>>
      BY <2>3, SearchFrame DEF ReaderFrame, memVars
    <3> QED
      BY <2>3, <3>1, ReturnsSeen, ReturnRefines DEF Members, searchVars
  <2>4. CASE UNCHANGED vars
    BY <2>4 DEF vars, listVars, memVars, searchVars, Members
  <2> QED
    BY <2>1, <2>2, <2>3, <2>4 DEF Next
<1> QED
  BY <1>1, <1>2, Invariance, PTL DEF Spec, SetSpec, Set!Spec
===============================================================================
