------------------------------- MODULE ListLock -------------------------------
(***************************************************************************)
(* The searches that bracket a plain walk: list_lock.c with the kinds of   *)
(* lock_t of lock.h it can be built with, and list_rcu.c.                  *)
(*                                                                         *)
(*   LSPIN, RWLOCK   readers take the bucket's lock, RWLOCK shares it      *)
(*   SEQLOCK         readers wait until no writer is in the bucket and     *)
(*                   start again if one has been there since               *)
(*   GCLOCK          readers do not wait; delete counts its unlock before  *)
(*                   it frees (list_writer.c:28)                           *)
(*   GCLOCK1         the same with ONE_WRITER: counter checked at each node *)
(*   RCU             delete leaves the node to call_rcu                    *)
(*                                                                         *)
(* The writer is list_writer.c, and free_node_later is free_node except    *)
(* with RCU.  pthread_spin_lock, pthread_rwlock_* and liburcu are          *)
(* external.  The locks are taken to exclude as documented and to promise  *)
(* no order among the waiters, call_rcu to run the callback some time      *)
(* after every reader that was in a read-side section has left it.         *)
(***************************************************************************)
EXTENDS HashList

CONSTANTS
  Crews,    \* the builds under study, and the threads that run in each
  MaxGen    \* bound: the calls of insert and delete a bucket's counter counts

Builds == {"LSPIN", "RWLOCK", "SEQLOCK", "GCLOCK", "GCLOCK1", "RCU"}

ASSUME ListLockAssumption ==
  /\ Crews \subseteq [build : Builds, writers : SUBSET Writers, readers : SUBSET Readers]
  /\ \A c \in Crews : c.build = "GCLOCK1" => \A v, w \in c.writers : v = w
  /\ ~OneWriter
  /\ MaxGen \in Nat

VARIABLES
  crew,                \* the build, and the threads test() has created
  holders,             \* the readers between lock_rlock and lock_runlock
  gen,                 \* hash.locks: the unlocks counted, *sl >> 1
  waiting,             \* the readers a node given to call_rcu waits for
  pending,             \* the nodes given to call_rcu and not freed
  rpc,                 \* where the reader is in search
  cur, cur_key, rgen   \* its locals; rgen is __loc_val

syncVars   == <<crew, gen, waiting, pending>>
readerVars == <<holders, rpc, cur, cur_key, rgen>>
vars       == <<listVars, syncVars, readerVars>>

build     == crew.build
Exclusive == build \in {"LSPIN", "RWLOCK"}
Counting  == build \in {"SEQLOCK", "GCLOCK", "GCLOCK1"}
FreesLate == build \in {"GCLOCK", "GCLOCK1"}
Validates == build \in {"SEQLOCK", "GCLOCK1"}

ReaderPc == {"idle", "lock", "head", "check", "key", "next", "unlock"}

TypeOK ==
  /\ ListTypeOK
  /\ crew \in Crews
  /\ holders \in [Buckets -> SUBSET Readers]
  /\ gen \in [Buckets -> Nat]
  /\ waiting \in [Nodes -> SUBSET Readers]
  /\ pending \subseteq Nodes
  /\ rpc \in [Readers -> ReaderPc]
  /\ cur \in [Readers -> NodePtr]
  /\ cur_key \in [Readers -> Nat]
  /\ rgen \in [Readers -> Nat]

Init ==
  /\ ListInit
  /\ crew \in Crews
  /\ holders = [b \in Buckets |-> {}]
  /\ gen = [b \in Buckets |-> 0]
  /\ waiting = [n \in Nodes |-> {}]
  /\ pending = {}
  /\ rpc = [r \in Readers |-> "idle"]
  /\ cur = [r \in Readers |-> NULL]
  /\ cur_key = [r \in Readers |-> 0]
  /\ rgen = [r \in Readers |-> 0]

(***************************************************************************)
(* The writer side                                                         *)
(***************************************************************************)
Call(w) ==
  \E k \in Keys : /\ w \in crew.writers
                  /\ Counting => gen[BucketOf(k)] < MaxGen
                  /\ InsertCall(w, k) \/ DeleteCall(w, k)

\* Mutant: the callback does not wait.
CallRcuNow(w) == pending' = pending \cup {wcur[w]} /\ UNCHANGED <<waiting, free>>

\* free_node_later with call_rcu: free_node_cb waits for the readers inside.
CallRcu(w) ==
  /\ pending' = pending \cup {wcur[w]}
  /\ waiting' = [waiting EXCEPT ![wcur[w]] = UNION {holders[b] : b \in Buckets}]
  /\ UNCHANGED free

FreeAtOnce(w) == free' = free \cup {wcur[w]} /\ UNCHANGED <<waiting, pending>>

\* Mutant: delete does not treat GCLOCK differently.
RetireBeforeUnlock(w) ==
  /\ wpc[w] = "retire"
  /\ IF build = "RCU" THEN CallRcu(w) ELSE FreeAtOnce(w)
  /\ GoTo(w, "unlock")
  /\ UNCHANGED <<memVars, lock, live, wop, wkey, wprev, wcur, wnew, searchVars>>

\* free_node_later; with GCLOCK lock_wunlock comes before it.
Retire(w) ==
  /\ wpc[w] = "retire"
  /\ IF FreesLate
       THEN /\ lock' = [lock EXCEPT ![WriterBucket(w)] = NULL]
            /\ GoTo(w, "late")
            /\ UNCHANGED <<free, waiting, pending>>
       ELSE /\ IF build = "RCU" THEN CallRcu(w) ELSE FreeAtOnce(w)
            /\ GoTo(w, "unlock")
            /\ UNCHANGED lock
  /\ UNCHANGED <<memVars, live, wop, wkey, wprev, wcur, wnew, searchVars>>

\* GCLOCK: free the node and return, the lock being gone.
FreeLate(w) ==
  /\ wpc[w] = "late"
  /\ FreeAtOnce(w)
  /\ GoTo(w, "idle")
  /\ wop' = [wop EXCEPT ![w] = "insert"]
  /\ wkey' = [wkey EXCEPT ![w] = NULL]
  /\ wprev' = [wprev EXCEPT ![w] = NULL]
  /\ wcur' = [wcur EXCEPT ![w] = NULL]
  /\ UNCHANGED <<memVars, lock, live, wnew, searchVars>>

\* lock_wunlock adds 1 to the counter, and clears the bit lock_wlock set.
CountUnlock ==
  gen' = [b \in Buckets |->
            IF Counting /\ lock[b] # NULL /\ lock'[b] = NULL THEN gen[b] + 1 ELSE gen[b]]

\* lock_wlock of LSPIN and RWLOCK waits for the readers too.
UpdateStep(w) ==
  /\ wpc[w] = "lock" /\ Exclusive => holders[WriterBucket(w)] = {}
  /\ \/ WriterStep(w) /\ UNCHANGED <<waiting, pending>>
     \/ Retire(w) \/ FreeLate(w)
  /\ CountUnlock
  /\ UNCHANGED <<crew, readerVars>>

\* free_node_cb, in liburcu's thread
FreeNodeCb(n) ==
  /\ n \in pending
  /\ waiting[n] = {}
  /\ pending' = pending \ {n}
  /\ free' = free \cup {n}
  /\ UNCHANGED <<memVars, lock, live, writerVars, searchVars, crew, gen, waiting, readerVars>>

(***************************************************************************)
(* search                                                                  *)
(***************************************************************************)
Bucket(r) == BucketOf(want[r])

Jump(r, pc) == rpc' = [rpc EXCEPT ![r] = pc]

ReaderFrame == UNCHANGED <<memVars, lock, free, live, writerVars, crew, gen, pending>>

SearchCall(r, k) ==
  /\ r \in crew.readers
  /\ rpc[r] = "idle"
  /\ BeginSearch(r, k)
  /\ Jump(r, "lock")
  /\ ReaderFrame
  /\ UNCHANGED <<waiting, holders, cur, cur_key, rgen>>

LockRWhen(r, admitted) ==
  /\ rpc[r] = "lock"
  /\ admitted
  /\ holders' = [holders EXCEPT ![Bucket(r)] = @ \cup {r}]
  /\ rgen' = [rgen EXCEPT ![r] = gen[Bucket(r)]]
  /\ Jump(r, "head")
  /\ ReaderFrame
  /\ UNCHANGED <<searchVars, waiting, cur, cur_key>>

\* Mutant: the reader does not wait for a writer.
LockRNoWait(r) == LockRWhen(r, TRUE)

\* lock_rlock: wait for the writer, with LSPIN for a reader too
LockR(r) ==
  LockRWhen(r, /\ Exclusive \/ build = "SEQLOCK" => lock[Bucket(r)] = NULL
               /\ build = "LSPIN" => holders[Bucket(r)] = {})

\* Out of the section, by lock_runlock or by a retry
Leave(r) ==
  /\ holders' = [holders EXCEPT ![Bucket(r)] = @ \ {r}]
  /\ cur' = [cur EXCEPT ![r] = NULL]
  /\ cur_key' = [cur_key EXCEPT ![r] = 0]
  /\ rgen' = [rgen EXCEPT ![r] = 0]

\* *sl is what lock_rlock read; SEQLOCK compares the bit of the writer too.
Unmoved(r) ==
  Counting => /\ gen[Bucket(r)] = rgen[r]
              /\ build = "SEQLOCK" => lock[Bucket(r)] = NULL

\* goto search_retry
SearchRetry(r) ==
  /\ rpc[r] \in {"check", "unlock"}
  /\ ~Unmoved(r)
  /\ Leave(r)
  /\ Jump(r, "lock")
  /\ ReaderFrame
  /\ UNCHANGED <<searchVars, waiting>>

\* cur = n, and round the loop unless it is NULL
Visit(r, n) ==
  /\ cur' = [cur EXCEPT ![r] = n]
  /\ Jump(r, IF n = NULL THEN "unlock" ELSE IF Validates THEN "check" ELSE "key")
  /\ ReaderFrame
  /\ UNCHANGED <<searchVars, waiting, holders, cur_key, rgen>>

ReadHead(r) == rpc[r] = "head" /\ Visit(r, head[Bucket(r)])

\* lock_validate
Validate(r) ==
  /\ rpc[r] = "check"
  /\ Unmoved(r)
  /\ Jump(r, "key")
  /\ ReaderFrame
  /\ UNCHANGED <<searchVars, waiting, holders, cur, cur_key, rgen>>

ReadKey(r) ==
  /\ rpc[r] = "key"
  /\ cur_key' = [cur_key EXCEPT ![r] = key[cur[r]]]
  /\ Jump(r, IF key[cur[r]] >= want[r] THEN "unlock" ELSE "next")
  /\ ReaderFrame
  /\ UNCHANGED <<searchVars, waiting, holders, cur, rgen>>

ReadNext(r) == rpc[r] = "next" /\ Visit(r, next[cur[r]])

FinishWith(r, result, released) ==
  /\ rpc[r] = "unlock"
  /\ Unmoved(r)
  /\ Leave(r)
  /\ waiting' = [n \in Nodes |-> waiting[n] \ released]
  /\ EndSearch(r, result)
  /\ Jump(r, "idle")
  /\ ReaderFrame

Result(r) == IF cur[r] # NULL /\ cur_key[r] = want[r] THEN 1 ELSE 0

\* Mutants: a larger key counts as found; a way out without rcu_read_unlock.
UnlockREnd(r) == FinishWith(r, IF cur[r] # NULL THEN 1 ELSE 0, {r})
UnlockRMissed(r) == FinishWith(r, Result(r), IF cur[r] = NULL THEN {} ELSE {r})

\* lock_runlock and return: 0 at the end of the list, else cur_key == key
UnlockR(r) == FinishWith(r, Result(r), {r})

SearchStep(r) ==
  \/ LockR(r) \/ ReadHead(r) \/ Validate(r) \/ ReadKey(r) \/ ReadNext(r)
  \/ SearchRetry(r) \/ UnlockR(r)

Next ==
  \/ \E w \in Writers : UpdateStep(w) \/ (Call(w) /\ UNCHANGED <<syncVars, readerVars>>)
  \/ \E n \in Nodes : FreeNodeCb(n)
  \/ \E r \in Readers : SearchStep(r) \/ \E k \in Keys : SearchCall(r, k)

Spec == Init /\ [][Next]_vars

\* A thread that can go on does, but a waiter may lose the lock for ever.
\* liburcu runs the callbacks in the order of call_rcu, so each gets its turn.
FairSpec ==
  /\ Spec
  /\ \A w \in Writers : WF_vars(UpdateStep(w))
  /\ \A r \in Readers : WF_vars(SearchStep(r))
  /\ \A n \in Nodes : WF_vars(FreeNodeCb(n))

(***************************************************************************)
(* Properties                                                              *)
(***************************************************************************)
Inside(r) == rpc[r] \notin {"idle", "lock"}

InPlace(r) == BucketOf(key[cur[r]]) = Bucket(r)

(***************************************************************************)
(* LSPIN, RWLOCK: from lock_rlock to lock_runlock (list_lock.c:42, :48,    *)
(* :54) a reader stands on a node that is linked in its bucket, and no     *)
(* insert or delete is past lock_wlock there, although delete frees at     *)
(* once.                                                                   *)
(***************************************************************************)
LockProtects ==
  Exclusive => \A r \in Readers : Inside(r) =>
    /\ cur[r] # NULL => cur[r] \in live /\ InPlace(r)
    /\ \A w \in Writers : InCall(w) => WriterBucket(w) # Bucket(r)

(***************************************************************************)
(* SEQLOCK, GCLOCK: while the counter is what lock_rlock read (lock.h:96,  *)
(* :164, :192), the reader's node is in its bucket and was not freed, even *)
(* if it has just been unlinked: what was read from it may be believed.    *)
(***************************************************************************)
CounterProtects ==
  Counting => \A r \in Readers :
    Inside(r) /\ cur[r] # NULL /\ Unmoved(r) => Unfreed(cur[r]) /\ InPlace(r)

(***************************************************************************)
(* RCU: a reader never stands on a node that was freed (list_rcu.c:33),    *)
(* nor is led to one by an unlinked node's next.                           *)
(***************************************************************************)
GraceProtects ==
  build = "RCU" => \A r \in Readers : Inside(r) /\ cur[r] # NULL =>
    cur[r] \notin free /\ InPlace(r)

(***************************************************************************)
(* Whoever holds the lock of a bucket lets it go again, on every way out   *)
(* of insert, delete and search, so nobody is locked out for good.  (Which *)
(* waiter is next is up to the lock; starvation is not excluded.)          *)
(***************************************************************************)
LocksReleased ==
  /\ \A b \in Buckets : lock[b] # NULL ~> lock[b] = NULL
  /\ \A r \in Readers : Inside(r) ~> ~Inside(r)

(***************************************************************************)
(* RCU: what was given to call_rcu (rcu.c:66) is freed in the end, though  *)
(* searches follow one another without a pause.                            *)
(***************************************************************************)
GraceEnds == \A n \in Nodes : n \in pending ~> n \notin pending

(***************************************************************************)
(* The inductive invariant, for all the builds.                            *)
(***************************************************************************)
\* The holders of a bucket are the readers in it; a lock keeps writers out.
Holding ==
  /\ \A b \in Buckets, r \in Readers : r \in holders[b] <=> Inside(r) /\ Bucket(r) = b
  /\ Exclusive => \A b \in Buckets : lock[b] # NULL => holders[b] = {}

\* A node given to call_rcu has no other role, and waits for readers inside.
Grace ==
  /\ build # "RCU" => pending = {}
  /\ pending \cap (live \cup free) = {}
  /\ \A w \in Writers : Held(w) \cap pending = {}
  /\ \A n \in Nodes : \A r \in waiting[n] : n \in pending /\ Inside(r)

\* Not freed, nor going to be while the reader is inside.
Guarded(r, n) == Unfreed(n) \/ r \in waiting[n]

\* If n is the last node search looks at, its answer was right at some moment.
Fit(r, n) ==
  /\ Guarded(r, n)
  /\ BucketOf(key[n]) = Bucket(r)
  /\ key[n] = want[r] => 1 \in seen[r]
  /\ key[n] > want[r] => 0 \in seen[r]

\* What search may conclude from a link that leads to n.
Leads(r, n) == IF n = NULL THEN 0 \in seen[r] ELSE Fit(r, n)

SearchInvariant(r) ==
  /\ rpc[r] # "idle" <=> want[r] # NULL
  /\ rpc[r] \in {"idle", "lock", "head"} => cur[r] = NULL
  /\ rpc[r] \in {"check", "key", "next"} => cur[r] # NULL
  /\ Inside(r) => rgen[r] <= gen[Bucket(r)]
  /\ Inside(r) /\ Unmoved(r) =>
       /\ rpc[r] # "head" => Leads(r, cur[r])
       /\ rpc[r] = "next" => key[cur[r]] < want[r]
       /\ rpc[r] = "unlock" /\ cur[r] # NULL =>
            cur_key[r] = key[cur[r]] /\ key[cur[r]] >= want[r]

\* An unlinked node leads the readers it waits for on as when it was linked.
PendingLeads(r) ==
  \A n \in Nodes :
    r \in waiting[n] /\ BucketOf(key[n]) = Bucket(r) /\ key[n] < want[r] => Leads(r, next[n])

IInv ==
  /\ TypeOK /\ ListInv /\ Holding /\ Grace
  /\ \A r \in Readers : SearchInvariant(r) /\ PendingLeads(r)
===============================================================================
