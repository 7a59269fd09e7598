------------------------------- MODULE HashList -------------------------------
(***************************************************************************)
(* The hash table of sorted singly linked lists that every build shares    *)
(* (test.h, mrow.c), the writer side of list_writer.c (insert, delete) and *)
(* the calls of search that are in progress.                               *)
(*                                                                         *)
(* Each store another thread can observe is an action of its own: the      *)
(* unlinking store of delete, and the three stores of insert (new->key,    *)
(* new->next, *prev).  Memory is recycled, so readers that still hold a    *)
(* pointer to a node see the first two as well.                            *)
(*                                                                         *)
(* A reclamation scheme (GECOS, ...) EXTENDS this module: it says what     *)
(* free_node_later does between the unlinking store and lock_wunlock, and  *)
(* how search walks the list.                                              *)
(***************************************************************************)
EXTENDS Naturals

CONSTANTS
  Nodes,       \* the node_t objects calloc can produce (bounds the memory)
  Keys,        \* the keys run() draws: 0 .. nbkeys - 1
  NbBuckets,   \* nbbuckets
  Writers,     \* the updater threads
  Readers,     \* the reader threads
  OneWriter,   \* TRUE: built with -DONE_WRITER, lock_wlock is empty
  NULL

ASSUME HashListAssumption ==
  /\ Keys \subseteq Nat
  /\ NbBuckets \in Nat \ {0}
  /\ NULL \notin Nodes \cup Writers \cup Keys
  /\ OneWriter \in BOOLEAN
  /\ OneWriter => \A v, w \in Writers : v = w

VARIABLES
  head,    \* hash.heads
  key,     \* node_t.key
  next,    \* node_t.next
  lock,    \* hash.locks: the writer that holds the bucket's spinlock
  free,    \* the nodes new_node() may return
  live,    \* history: the nodes linked into a bucket
  wpc, wop, wkey,      \* the writer's call and where it is in it
  wprev, wcur, wnew,   \* its locals prev, cur and new; wprev = NULL is head
  want,    \* the key of the search a reader is in, NULL outside a search
  seen,    \* history: what search(want) could have answered since its call
  ret      \* what the reader's last search returned, 0 during a search

memVars    == <<head, key, next>>
writerVars == <<wpc, wop, wkey, wprev, wcur, wnew>>
searchVars == <<want, seen, ret>>
listVars   == <<memVars, lock, free, live, writerVars, searchVars>>

NodePtr == Nodes \cup {NULL}
Buckets == 0 .. NbBuckets - 1

\* get_buckets
BucketOf(k) == k % NbBuckets

\* "late" is free_node after lock_wunlock, which only GCLOCK has.
WriterPc == {"idle", "lock", "walk", "retire", "free", "late",
             "setkey", "setnext", "link", "unlock"}

ListTypeOK ==
  /\ head \in [Buckets -> NodePtr]
  /\ key \in [Nodes -> Nat]
  /\ next \in [Nodes -> NodePtr]
  /\ lock \in [Buckets -> Writers \cup {NULL}]
  /\ free \subseteq Nodes
  /\ live \subseteq Nodes
  /\ wpc \in [Writers -> WriterPc]
  /\ wop \in [Writers -> {"insert", "delete"}]
  /\ wkey \in [Writers -> Keys \cup {NULL}]
  /\ wprev \in [Writers -> NodePtr]
  /\ wcur \in [Writers -> NodePtr]
  /\ wnew \in [Writers -> NodePtr]
  /\ want \in [Readers -> Keys \cup {NULL}]
  /\ seen \in [Readers -> SUBSET {0, 1}]
  /\ ret \in [Readers -> {0, 1}]

\* hash_init before it populates: calloc'ed heads, every node still in calloc.
ListInit ==
  /\ head = [b \in Buckets |-> NULL]
  /\ key = [n \in Nodes |-> 0]
  /\ next = [n \in Nodes |-> NULL]
  /\ lock = [b \in Buckets |-> NULL]
  /\ free = Nodes
  /\ live = {}
  /\ wpc = [w \in Writers |-> "idle"]
  /\ wop = [w \in Writers |-> "insert"]
  /\ wkey = [w \in Writers |-> NULL]
  /\ wprev = [w \in Writers |-> NULL]
  /\ wcur = [w \in Writers |-> NULL]
  /\ wnew = [w \in Writers |-> NULL]
  /\ want = [r \in Readers |-> NULL]
  /\ seen = [r \in Readers |-> {}]
  /\ ret = [r \in Readers |-> 0]

(***************************************************************************)
(* The set the table stands for, and what a search for k answers in it.    *)
(***************************************************************************)
Members == {key[n] : n \in live}

Answer(k, members) == IF k \in members THEN 1 ELSE 0

\* A step that changes the set adds the new answer to every open search.
Observe(members) ==
  seen' = [r \in Readers |-> IF want[r] = NULL THEN seen[r]
                             ELSE seen[r] \cup {Answer(want[r], members)}]

(***************************************************************************)
(* delete and insert.                                                      *)
(***************************************************************************)
\* prev is a node_t **: the head of the bucket, or the next field of a node.
Deref(b, p) == IF p = NULL THEN head[b] ELSE next[p]

WriterBucket(w) == BucketOf(wkey[w])

GoTo(w, pc) == wpc' = [wpc EXCEPT ![w] = pc]

BeginCall(w, op, k) ==
  /\ wpc[w] = "idle"
  /\ GoTo(w, "lock")
  /\ wop' = [wop EXCEPT ![w] = op]
  /\ wkey' = [wkey EXCEPT ![w] = k]
  /\ UNCHANGED <<memVars, lock, free, live, wprev, wcur, wnew, searchVars>>

\* run() calls insert(k).
InsertCall(w, k) == BeginCall(w, "insert", k)

\* run() calls delete(k); on an empty bucket it returns 0 before the lock.
DeleteCall(w, k) == head[BucketOf(k)] # NULL /\ BeginCall(w, "delete", k)

\* Mutant: the spinlock is not waited for.
LockWNoWait(w) ==
  /\ wpc[w] = "lock"
  /\ lock' = [lock EXCEPT ![WriterBucket(w)] = w]
  /\ wprev' = [wprev EXCEPT ![w] = NULL]
  /\ wcur' = [wcur EXCEPT ![w] = head[WriterBucket(w)]]
  /\ GoTo(w, "walk")
  /\ UNCHANGED <<memVars, free, live, wop, wkey, wnew, searchVars>>

\* lock_wlock, then prev = head and cur = *head.
LockW(w) ==
  /\ wpc[w] = "lock"
  /\ IF OneWriter
       THEN UNCHANGED lock
       ELSE /\ lock[WriterBucket(w)] = NULL
            /\ lock' = [lock EXCEPT ![WriterBucket(w)] = w]
  /\ wprev' = [wprev EXCEPT ![w] = NULL]
  /\ wcur' = [wcur EXCEPT ![w] = head[WriterBucket(w)]]
  /\ GoTo(w, "walk")
  /\ UNCHANGED <<memVars, free, live, wop, wkey, wnew, searchVars>>

\* Mutant: the loop goes past an equal key (cur->key > key).
StepPastEqual(w) ==
  /\ wpc[w] = "walk"
  /\ wcur[w] # NULL
  /\ key[wcur[w]] <= wkey[w]
  /\ wprev' = [wprev EXCEPT ![w] = wcur[w]]
  /\ wcur' = [wcur EXCEPT ![w] = next[wcur[w]]]
  /\ UNCHANGED <<memVars, lock, free, live, wpc, wop, wkey, wnew, searchVars>>

\* One turn of the loop; both functions stop at the first key that is >= key.
Step(w) ==
  /\ wpc[w] = "walk"
  /\ wcur[w] # NULL
  /\ key[wcur[w]] < wkey[w]
  /\ wprev' = [wprev EXCEPT ![w] = wcur[w]]
  /\ wcur' = [wcur EXCEPT ![w] = next[wcur[w]]]
  /\ UNCHANGED <<memVars, lock, free, live, wpc, wop, wkey, wnew, searchVars>>

Found(w)  == wcur[w] # NULL /\ key[wcur[w]] = wkey[w]
Absent(w) == wcur[w] # NULL => key[wcur[w]] > wkey[w]

\* Mutant: the way out that changes nothing forgets lock_wunlock.
MissKeepsLock(w) ==
  /\ wpc[w] = "walk"
  /\ \/ wop[w] = "insert" /\ Found(w)
     \/ wop[w] = "delete" /\ Absent(w)
  /\ GoTo(w, "idle")
  /\ UNCHANGED <<memVars, lock, free, live, wop, wkey, wprev, wcur, wnew, searchVars>>

\* insert of a key that is there, delete of one that is not: return 0.
Miss(w) ==
  /\ wpc[w] = "walk"
  /\ \/ wop[w] = "insert" /\ Found(w)
     \/ wop[w] = "delete" /\ Absent(w)
  /\ GoTo(w, "unlock")
  /\ UNCHANGED <<memVars, lock, free, live, wop, wkey, wprev, wcur, wnew, searchVars>>

\* *prev = p, the store that links or unlinks a node.
StorePrev(w, p) ==
  IF wprev[w] = NULL
    THEN /\ head' = [head EXCEPT ![WriterBucket(w)] = p]
         /\ UNCHANGED next
    ELSE /\ next' = [next EXCEPT ![wprev[w]] = p]
         /\ UNCHANGED head

\* *prev = cur->next
Unlink(w) ==
  /\ wpc[w] = "walk"
  /\ wop[w] = "delete"
  /\ Found(w)
  /\ StorePrev(w, next[wcur[w]])
  /\ live' = live \ {wcur[w]}
  /\ Observe({key[n] : n \in live'})
  /\ GoTo(w, "retire")
  /\ UNCHANGED <<key, lock, free, wop, wkey, wprev, wcur, wnew, want, ret>>

\* free_node: the node goes back to the allocator.
FreeNode(w) ==
  /\ wpc[w] = "free"
  /\ free' = free \cup {wcur[w]}
  /\ GoTo(w, "unlock")
  /\ UNCHANGED <<memVars, lock, live, wop, wkey, wprev, wcur, wnew, searchVars>>

\* Mutant: the allocator hands the node out and keeps it.
NewNodeKept(w) ==
  /\ wpc[w] = "walk"
  /\ wop[w] = "insert"
  /\ Absent(w)
  /\ \E n \in free : wnew' = [wnew EXCEPT ![w] = n]
  /\ GoTo(w, "setkey")
  /\ UNCHANGED <<memVars, lock, free, live, wop, wkey, wprev, wcur, searchVars>>

\* new = init_new_node()
NewNode(w) ==
  /\ wpc[w] = "walk"
  /\ wop[w] = "insert"
  /\ Absent(w)
  /\ \E n \in free : /\ free' = free \ {n}
                     /\ wnew' = [wnew EXCEPT ![w] = n]
  /\ GoTo(w, "setkey")
  /\ UNCHANGED <<memVars, lock, live, wop, wkey, wprev, wcur, searchVars>>

\* new->key = key
SetKey(w) ==
  /\ wpc[w] = "setkey"
  /\ key' = [key EXCEPT ![wnew[w]] = wkey[w]]
  /\ GoTo(w, "setnext")
  /\ UNCHANGED <<head, next, lock, free, live, wop, wkey, wprev, wcur, wnew, searchVars>>

\* Mutant: new->next is not assigned.
SetNextForgotten(w) ==
  /\ wpc[w] = "setnext"
  /\ GoTo(w, "link")
  /\ UNCHANGED <<memVars, lock, free, live, wop, wkey, wprev, wcur, wnew, searchVars>>

\* new->next = cur
SetNext(w) ==
  /\ wpc[w] = "setnext"
  /\ next' = [next EXCEPT ![wnew[w]] = wcur[w]]
  /\ GoTo(w, "link")
  /\ UNCHANGED <<head, key, lock, free, live, wop, wkey, wprev, wcur, wnew, searchVars>>

\* *prev = new
Link(w) ==
  /\ wpc[w] = "link"
  /\ StorePrev(w, wnew[w])
  /\ live' = live \cup {wnew[w]}
  /\ Observe({key[n] : n \in live'})
  /\ GoTo(w, "unlock")
  /\ UNCHANGED <<key, lock, free, wop, wkey, wprev, wcur, wnew, want, ret>>

\* lock_wunlock and return; the locals die with the call.
UnlockW(w) ==
  /\ wpc[w] = "unlock"
  /\ IF OneWriter
       THEN UNCHANGED lock
       ELSE lock' = [lock EXCEPT ![WriterBucket(w)] = NULL]
  /\ GoTo(w, "idle")
  /\ wop' = [wop EXCEPT ![w] = "insert"]
  /\ wkey' = [wkey EXCEPT ![w] = NULL]
  /\ wprev' = [wprev EXCEPT ![w] = NULL]
  /\ wcur' = [wcur EXCEPT ![w] = NULL]
  /\ wnew' = [wnew EXCEPT ![w] = NULL]
  /\ UNCHANGED <<memVars, free, live, searchVars>>

(***************************************************************************)
(* The steps of a call of insert or delete after it was made, except what  *)
(* the scheme's free_node_later does.                                      *)
(***************************************************************************)
WriterStep(w) ==
  \/ LockW(w) \/ Step(w) \/ Miss(w) \/ Unlink(w) \/ FreeNode(w)
  \/ NewNode(w) \/ SetKey(w) \/ SetNext(w) \/ Link(w) \/ UnlockW(w)

(***************************************************************************)
(* Calls and returns of search, for the scheme's search to use.            *)
(***************************************************************************)
BeginSearch(r, k) ==
  /\ want[r] = NULL
  /\ want' = [want EXCEPT ![r] = k]
  /\ seen' = [seen EXCEPT ![r] = {Answer(k, Members)}]
  /\ ret' = [ret EXCEPT ![r] = 0]

EndSearch(r, result) ==
  /\ want' = [want EXCEPT ![r] = NULL]
  /\ seen' = [seen EXCEPT ![r] = {}]
  /\ ret' = [ret EXCEPT ![r] = result]

(***************************************************************************)
(* Properties of the list                                                  *)
(***************************************************************************)
SameBucket(m, n) == BucketOf(key[m]) = BucketOf(key[n])

\* A head leads to a linked node of its own bucket.
HeadsLive ==
  \A b \in Buckets : head[b] # NULL => head[b] \in live /\ BucketOf(key[head[b]]) = b

\* A linked node leads to a linked node of its bucket with a larger key.
NextLive ==
  \A n \in live : next[n] # NULL =>
    next[n] \in live /\ SameBucket(n, next[n]) /\ key[n] < key[next[n]]

\* No linked node is cut off: neither a head nor a next skips over one.
NoneSkipped ==
  /\ \A n \in live : LET h == head[BucketOf(key[n])] IN h # NULL /\ key[h] <= key[n]
  /\ \A m, n \in live : SameBucket(m, n) /\ key[m] < key[n] =>
       next[m] # NULL /\ key[next[m]] <= key[n]

KeysUnique == \A m, n \in live : key[m] = key[n] => m = n

(***************************************************************************)
(* Whatever insert (list_writer.c:48) and delete (:11) are in the middle   *)
(* of, what can be reached from the heads is exactly the linked nodes, and *)
(* every bucket is strictly sorted and holds only its own keys.            *)
(***************************************************************************)
ListWellFormed == HeadsLive /\ NextLive /\ NoneSkipped /\ KeysUnique

\* The nodes a call holds on to while they are neither linked nor free.
Held(w) ==
  IF wpc[w] \in {"retire", "free", "late"} THEN {wcur[w]}
  ELSE IF wpc[w] \in {"setkey", "setnext", "link"} THEN {wnew[w]}
  ELSE {}

(***************************************************************************)
(* A node has one role at a time: linked, free for new_node, or held by    *)
(* the one call of insert or delete that is moving it from one to the      *)
(* other.  Two roles would be a double free or a node allocated twice.     *)
(***************************************************************************)
OneRole ==
  /\ live \cap free = {}
  /\ \A w \in Writers : Held(w) \cap (live \cup free) = {}
  /\ \A v, w \in Writers : v # w => Held(v) \cap Held(w) = {}

\* Linked, or unlinked by a delete that has not reached free_node_later yet.
Unfreed(n) == n \in live \/ \E w \in Writers : wpc[w] = "retire" /\ wcur[w] = n

\* The step in which the reader's search returns.
Answered(r) == want[r] # NULL /\ want'[r] = NULL

(***************************************************************************)
(* The table is a linearizable set: the linked nodes' keys are its         *)
(* members.                                                                *)
(***************************************************************************)
Set == INSTANCE ConcurrentSet WITH members <- Members
SetSpec == Set!Spec

(***************************************************************************)
(* The inductive invariant of the writer side.                             *)
(***************************************************************************)
InCall(w) == wpc[w] \notin {"idle", "lock", "late"}

\* A call knows its key, and owns its bucket while it works on the list.
OwnsBucket ==
  \A w \in Writers :
    /\ wpc[w] # "idle" => wkey[w] \in Keys
    /\ InCall(w) /\ ~OneWriter => lock[WriterBucket(w)] = w

\* prev is the head of the bucket, or the last linked node before the key.
AtPosition(w) ==
  wprev[w] # NULL => /\ wprev[w] \in live
                     /\ BucketOf(key[wprev[w]]) = WriterBucket(w)
                     /\ key[wprev[w]] < wkey[w]

\* What a call has found out or prepared at each point still holds there.
WellPlaced(w) ==
  /\ wpc[w] \in {"walk", "setkey", "setnext", "link"} =>
       AtPosition(w) /\ wcur[w] = Deref(WriterBucket(w), wprev[w])
  /\ wpc[w] \in {"setkey", "setnext", "link"} => Absent(w) /\ wnew[w] \in Nodes
  /\ wpc[w] \in {"setnext", "link"} => key[wnew[w]] = wkey[w]
  /\ wpc[w] = "link" => next[wnew[w]] = wcur[w]
  /\ wpc[w] \in {"retire", "free", "late"} => wcur[w] \in Nodes
  /\ wpc[w] = "retire" =>
       /\ AtPosition(w)
       /\ key[wcur[w]] = wkey[w]
       /\ LET after == Deref(WriterBucket(w), wprev[w]) IN
            next[wcur[w]] = after /\ (after # NULL => key[after] > wkey[w])

Position == \A w \in Writers : WellPlaced(w)

\* The answer of the moment is among those an open search may give.
SeenNow ==
  \A r \in Readers : want[r] # NULL => Answer(want[r], Members) \in seen[r]

ListInv ==
  ListTypeOK /\ OwnsBucket /\ Position /\ ListWellFormed /\ OneRole /\ SeenNow
===============================================================================
