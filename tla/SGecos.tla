-------------------------------- MODULE SGecos --------------------------------
(***************************************************************************)
(* list_sgecos.c: the same idea as GECOS with one generation per bucket.   *)
(* The word hash.locks[i] holds no lock but a counter that delete          *)
(* increments between unlinking a node and freeing it.  A reader notes the *)
(* counter, walks, and checks after each node that it has not moved.       *)
(*                                                                         *)
(* The insert and delete of this file are those of list_writer.c without   *)
(* lock_wlock and lock_wunlock, so there can be only one updater, and      *)
(* without the early return of delete on an empty bucket.                  *)
(***************************************************************************)
EXTENDS HashList

CONSTANT MaxGen   \* bound: no delete is called once a counter has reached it

ASSUME SGecosAssumption == OneWriter /\ MaxGen \in Nat

VARIABLES
  gen,       \* the counter in hash.locks
  rpc,       \* where the reader is in search
  lgc,       \* its locals
  cur, nxt, cur_key

readerVars == <<rpc, lgc, cur, nxt, cur_key>>
vars == <<listVars, gen, readerVars>>

ReaderPc == {"idle", "lgc", "head", "key", "next", "check"}

TypeOK ==
  /\ ListTypeOK
  /\ gen \in [Buckets -> Nat]
  /\ rpc \in [Readers -> ReaderPc]
  /\ lgc \in [Readers -> Nat]
  /\ cur \in [Readers -> NodePtr]
  /\ nxt \in [Readers -> NodePtr]
  /\ cur_key \in [Readers -> Nat]

Init ==
  /\ ListInit
  /\ gen = [b \in Buckets |-> 0]
  /\ rpc = [r \in Readers |-> "idle"]
  /\ lgc = [r \in Readers |-> 0]
  /\ cur = [r \in Readers |-> NULL]
  /\ nxt = [r \in Readers |-> NULL]
  /\ cur_key = [r \in Readers |-> 0]

(***************************************************************************)
(* The updater                                                             *)
(***************************************************************************)
\* Unlike DeleteCall, delete(k) of this file walks an empty bucket too.
Call(w) ==
  \E k \in Keys :
    \/ InsertCall(w, k)
    \/ (\A b \in Buckets : gen[b] < MaxGen) /\ BeginCall(w, "delete", k)

\* Mutant: the counter is not incremented.
RetireSilently(w) ==
  /\ wpc[w] = "retire"
  /\ GoTo(w, "free")
  /\ UNCHANGED <<gen, memVars, lock, free, live, wop, wkey, wprev, wcur, wnew, searchVars>>

\* ( *lock)++ between the unlinking store and free_node
Retire(w) ==
  /\ wpc[w] = "retire"
  /\ gen' = [gen EXCEPT ![WriterBucket(w)] = @ + 1]
  /\ GoTo(w, "free")
  /\ UNCHANGED <<memVars, lock, free, live, wop, wkey, wprev, wcur, wnew, searchVars>>

Writer(w) ==
  /\ \/ (Call(w) \/ WriterStep(w)) /\ UNCHANGED gen
     \/ Retire(w)
  /\ UNCHANGED readerVars

(***************************************************************************)
(* search                                                                  *)
(***************************************************************************)
Jump(r, pc) == rpc' = [rpc EXCEPT ![r] = pc]

ReaderFrame == UNCHANGED <<memVars, lock, free, live, writerVars, gen>>

Bucket(r) == BucketOf(want[r])

\* The locals die when search returns.
Return(r, result) ==
  /\ EndSearch(r, result)
  /\ Jump(r, "idle")
  /\ lgc' = [lgc EXCEPT ![r] = 0]
  /\ cur' = [cur EXCEPT ![r] = NULL]
  /\ nxt' = [nxt EXCEPT ![r] = NULL]
  /\ cur_key' = [cur_key EXCEPT ![r] = 0]

\* The top of the loop: while (cur); what the last turn left in next and
\* cur_key is not used again.
Visit(r, n) ==
  IF n = NULL
    THEN Return(r, 0)
    ELSE /\ Jump(r, "key")
         /\ cur' = [cur EXCEPT ![r] = n]
         /\ nxt' = [nxt EXCEPT ![r] = NULL]
         /\ cur_key' = [cur_key EXCEPT ![r] = 0]
         /\ UNCHANGED <<searchVars, lgc>>

SearchCall(r, k) ==
  /\ rpc[r] = "idle"
  /\ BeginSearch(r, k)
  /\ Jump(r, "lgc")
  /\ ReaderFrame
  /\ UNCHANGED <<lgc, cur, nxt, cur_key>>

\* retry: lgc = *lock
ReadGen(r) ==
  /\ rpc[r] = "lgc"
  /\ lgc' = [lgc EXCEPT ![r] = gen[Bucket(r)]]
  /\ Jump(r, "head")
  /\ ReaderFrame
  /\ UNCHANGED <<searchVars, cur, nxt, cur_key>>

ReadHead(r) ==
  /\ rpc[r] = "head"
  /\ Visit(r, head[Bucket(r)])
  /\ ReaderFrame

ReadKey(r) ==
  /\ rpc[r] = "key"
  /\ cur_key' = [cur_key EXCEPT ![r] = key[cur[r]]]
  /\ Jump(r, "next")
  /\ ReaderFrame
  /\ UNCHANGED <<searchVars, lgc, cur, nxt>>

ReadNext(r) ==
  /\ rpc[r] = "next"
  /\ nxt' = [nxt EXCEPT ![r] = next[cur[r]]]
  /\ Jump(r, "check")
  /\ ReaderFrame
  /\ UNCHANGED <<searchVars, lgc, cur, cur_key>>

\* Mutant: the counter is not read again.
CheckGenNever(r) ==
  /\ rpc[r] = "check"
  /\ IF cur_key[r] >= want[r]
       THEN Return(r, IF cur_key[r] = want[r] THEN 1 ELSE 0)
       ELSE Visit(r, nxt[r])
  /\ ReaderFrame

\* Mutant: goto retry lands behind the load of the counter.
CheckGenSpins(r) ==
  /\ rpc[r] = "check"
  /\ IF gen[Bucket(r)] # lgc[r]
       THEN Jump(r, "head") /\ UNCHANGED <<searchVars, lgc, cur, nxt, cur_key>>
       ELSE IF cur_key[r] >= want[r]
              THEN Return(r, IF cur_key[r] = want[r] THEN 1 ELSE 0)
              ELSE Visit(r, nxt[r])
  /\ ReaderFrame

\* if (lgc != *lock) goto retry; then answer, or go on to the next node
CheckGen(r) ==
  /\ rpc[r] = "check"
  /\ IF gen[Bucket(r)] # lgc[r]
       THEN /\ Jump(r, "lgc")
            /\ lgc' = [lgc EXCEPT ![r] = 0]
            /\ cur' = [cur EXCEPT ![r] = NULL]
            /\ nxt' = [nxt EXCEPT ![r] = NULL]
            /\ cur_key' = [cur_key EXCEPT ![r] = 0]
            /\ UNCHANGED searchVars
       ELSE IF cur_key[r] >= want[r]
              THEN Return(r, IF cur_key[r] = want[r] THEN 1 ELSE 0)
              ELSE Visit(r, nxt[r])
  /\ ReaderFrame

SearchStep(r) ==
  ReadGen(r) \/ ReadHead(r) \/ ReadKey(r) \/ ReadNext(r) \/ CheckGen(r)

Next ==
  \/ \E w \in Writers : Writer(w)
  \/ \E r \in Readers : SearchStep(r) \/ \E k \in Keys : SearchCall(r, k)

Spec == Init /\ [][Next]_vars

\* Only the readers are assumed to be scheduled, as in Gecos.
FairSpec == Spec /\ \A r \in Readers : WF_vars(SearchStep(r))

(***************************************************************************)
(* Properties                                                              *)
(***************************************************************************)
\* search (list_sgecos.c:27) returns even if the updater stops for ever in
\* the middle of a call.
SearchReturns == \A r \in Readers : want[r] # NULL ~> want[r] = NULL

(***************************************************************************)
(* While the counter of its bucket is the one the reader noted, the node   *)
(* it stands on and the one it is about to go to have not been freed, and  *)
(* they are nodes of that bucket (list_sgecos.c:36, :43, :66).             *)
(***************************************************************************)
BucketGenerationProtects ==
  \A r \in Readers : rpc[r] \in {"key", "next", "check"} /\ gen[Bucket(r)] = lgc[r] =>
    /\ Unfreed(cur[r]) /\ BucketOf(key[cur[r]]) = Bucket(r)
    /\ rpc[r] = "check" /\ cur_key[r] < want[r] /\ nxt[r] # NULL =>
         Unfreed(nxt[r]) /\ BucketOf(key[nxt[r]]) = Bucket(r)

(***************************************************************************)
(* The inductive invariant of the reader side.                             *)
(***************************************************************************)
\* If n is the last node search looks at, its answer was right at some moment.
Fit(r, n) ==
  /\ Unfreed(n)
  /\ BucketOf(key[n]) = Bucket(r)
  /\ key[n] = want[r] => 1 \in seen[r]
  /\ key[n] > want[r] => 0 \in seen[r]

SearchInvariant(r) ==
  /\ rpc[r] # "idle" <=> want[r] # NULL
  /\ rpc[r] \in {"key", "next", "check"} => cur[r] \in Nodes
  /\ rpc[r] \notin {"idle", "lgc"} => lgc[r] <= gen[Bucket(r)]
  /\ rpc[r] \in {"key", "next", "check"} /\ gen[Bucket(r)] = lgc[r] =>
       /\ Fit(r, cur[r])
       /\ rpc[r] # "key" => cur_key[r] = key[cur[r]]
       /\ rpc[r] = "check" /\ cur_key[r] < want[r] =>
            IF nxt[r] = NULL THEN 0 \in seen[r] ELSE Fit(r, nxt[r])

IInv == TypeOK /\ ListInv /\ \A r \in Readers : SearchInvariant(r)
===============================================================================
