---------------------------- MODULE HashListProofs ----------------------------
(***************************************************************************)
(* Every step of insert and delete keeps ListInv, whatever the reclamation *)
(* scheme does in free_node_later.                                         *)
(***************************************************************************)
EXTENDS HashList, TLAPS

\* get_buckets names a bucket of the table, whatever the key.
LEMMA BucketRange ==
  ASSUME NEW k \in Nat
  PROVE  BucketOf(k) \in Buckets
BY HashListAssumption DEF BucketOf, Buckets

\* Two calls that work on the list work on different buckets: the spinlock of
\* the bucket, or ONE_WRITER, keeps the second one out.
LEMMA OneInBucket ==
  ASSUME OwnsBucket, NEW v \in Writers, NEW w \in Writers, v # w,
         InCall(v), InCall(w)
  PROVE  WriterBucket(v) # WriterBucket(w)
BY HashListAssumption DEF OwnsBucket, InCall

\* A step that stores nothing in the list leaves it well formed.
LEMMA QuietList ==
  ASSUME ListWellFormed, UNCHANGED <<memVars, live>>
  PROVE  ListWellFormed'
BY DEF ListWellFormed, HeadsLive, NextLive, NoneSkipped, KeysUnique, SameBucket, memVars

\* What an open search may answer changes only with the set or the call.
LEMMA QuietSeen ==
  ASSUME SeenNow, UNCHANGED <<key, live, want, seen>>
  PROVE  SeenNow'
BY DEF SeenNow, Members, Answer

\* The table hash_init sets up.
LEMMA ListInitInv == ListInit => ListInv
<1> SUFFICES ASSUME ListInit PROVE ListInv
  OBVIOUS
<1> USE DEF ListInit
<1>1. ListTypeOK
  BY HashListAssumption DEF ListTypeOK, WriterPc, NodePtr
<1>2. OwnsBucket /\ Position /\ SeenNow
  BY DEF OwnsBucket, InCall, Position, WellPlaced, SeenNow
<1>3. ListWellFormed
  BY DEF ListWellFormed, HeadsLive, NextLive, NoneSkipped, KeysUnique
<1>4. OneRole
  BY DEF OneRole, Held
<1> QED
  BY <1>1, <1>2, <1>3, <1>4 DEF ListInv

\* A call of insert or delete starts without touching the list.
LEMMA CallInv ==
  ASSUME ListInv, NEW w \in Writers, NEW op \in {"insert", "delete"}, NEW k \in Keys,
         BeginCall(w, op, k)
  PROVE  ListInv'
<1> USE DEF BeginCall, GoTo
<1>1. ListTypeOK'
  BY DEF ListInv, ListTypeOK, WriterPc, memVars, searchVars
<1>2. OwnsBucket'
  BY DEF ListInv, ListTypeOK, OwnsBucket, InCall, WriterBucket
<1>3. Position'
  BY DEF ListInv, ListTypeOK, Position, WellPlaced, AtPosition, Deref, Absent, WriterBucket, memVars
<1>4. ListWellFormed' /\ SeenNow'
  BY QuietList, QuietSeen DEF ListInv, memVars, searchVars
<1>5. OneRole'
  <2>1. \A v \in Writers : Held(v)' = Held(v)
    BY DEF ListInv, ListTypeOK, Held
  <2> QED
    BY <2>1 DEF ListInv, OneRole
<1> QED
  BY <1>1, <1>2, <1>3, <1>4, <1>5 DEF ListInv

\* lock_wlock: the bucket is the caller's, and prev and cur start at its head.
LEMMA LockInv ==
  ASSUME ListInv, NEW w \in Writers, LockW(w)
  PROVE  ListInv'
<1> USE DEF LockW, GoTo
<1>0. wkey[w] \in Keys /\ WriterBucket(w) \in Buckets
  BY BucketRange, HashListAssumption DEF ListInv, OwnsBucket, WriterBucket
<1>1. ListTypeOK'
  <2>1. lock' \in [Buckets -> Writers \cup {NULL}]
    <3>1. CASE OneWriter
      BY <3>1 DEF ListInv, ListTypeOK
    <3>2. CASE ~OneWriter
      BY <1>0, <3>2 DEF ListInv, ListTypeOK
    <3> QED
      BY <3>1, <3>2
  <2>2. wcur' \in [Writers -> NodePtr] /\ wprev' \in [Writers -> NodePtr]
    BY <1>0 DEF ListInv, ListTypeOK, NodePtr
  <2>3. wpc' \in [Writers -> WriterPc]
    BY DEF ListInv, ListTypeOK, WriterPc
  <2> QED
    BY <2>1, <2>2, <2>3 DEF ListInv, ListTypeOK, memVars, searchVars
<1>2. OwnsBucket'
  <2>1. CASE OneWriter
    BY <2>1 DEF ListInv, ListTypeOK, OwnsBucket, InCall
  <2>2. CASE ~OneWriter
    <3>1. lock[WriterBucket(w)] = NULL /\ lock' = [lock EXCEPT ![WriterBucket(w)] = w]
      BY <2>2
    <3>2. \A v \in Writers : WriterBucket(v)' = WriterBucket(v)
      BY DEF WriterBucket
    <3> QED
      BY <1>0, <2>2, <3>1, <3>2, HashListAssumption DEF ListInv, ListTypeOK, OwnsBucket, InCall
  <2> QED
    BY <2>1, <2>2
<1>3. Position'
  BY DEF ListInv, ListTypeOK, Position, WellPlaced, AtPosition, Deref, Absent, WriterBucket, memVars
<1>4. ListWellFormed' /\ SeenNow'
  BY QuietList, QuietSeen DEF ListInv, memVars, searchVars
<1>5. OneRole'
  <2>1. \A v \in Writers : Held(v)' = Held(v)
    BY DEF ListInv, ListTypeOK, Held
  <2> QED
    BY <2>1 DEF ListInv, OneRole
<1> QED
  BY <1>1, <1>2, <1>3, <1>4, <1>5 DEF ListInv

\* In the loop of insert and delete, and until the new node is linked, cur is
\* a linked node of the call's bucket.
LEMMA CurLive ==
  ASSUME ListInv, NEW w \in Writers,
         wpc[w] \in {"walk", "setkey", "setnext", "link"}, wcur[w] # NULL
  PROVE  /\ wcur[w] \in live
         /\ BucketOf(key[wcur[w]]) = WriterBucket(w)
         /\ wprev[w] # NULL => key[wprev[w]] < key[wcur[w]]
<1>1. wkey[w] \in Keys /\ WriterBucket(w) \in Buckets
  BY BucketRange, HashListAssumption DEF ListInv, OwnsBucket, WriterBucket
<1>2. AtPosition(w) /\ wcur[w] = Deref(WriterBucket(w), wprev[w])
  BY DEF ListInv, Position, WellPlaced
<1> QED
  BY <1>1, <1>2
     DEF ListInv, AtPosition, Deref, ListWellFormed, HeadsLive, NextLive, SameBucket

\* What prev leads to, wherever a call of insert or delete has got to.
LEMMA DerefLive ==
  ASSUME ListInv, NEW w \in Writers, wpc[w] # "idle", AtPosition(w),
         Deref(WriterBucket(w), wprev[w]) # NULL
  PROVE  Deref(WriterBucket(w), wprev[w]) \in live
<1>1. WriterBucket(w) \in Buckets
  BY BucketRange, HashListAssumption DEF ListInv, OwnsBucket, WriterBucket
<1> QED
  BY <1>1 DEF ListInv, AtPosition, Deref, ListWellFormed, HeadsLive, NextLive

\* A turn of the loop keeps prev at the last linked node before the key.
LEMMA StepInv ==
  ASSUME ListInv, NEW w \in Writers, Step(w)
  PROVE  ListInv'
<1> USE DEF Step
<1>1. ListTypeOK'
  BY DEF ListInv, ListTypeOK, NodePtr, memVars, searchVars
<1>2. OwnsBucket'
  BY DEF ListInv, ListTypeOK, OwnsBucket, InCall, WriterBucket
<1>3. Position'
  BY CurLive DEF ListInv, ListTypeOK, Position, WellPlaced, AtPosition, Deref, Absent, WriterBucket, memVars
<1>4. ListWellFormed' /\ SeenNow'
  BY QuietList, QuietSeen DEF ListInv, memVars, searchVars
<1>5. OneRole'
  <2>1. \A v \in Writers : Held(v)' = Held(v)
    BY DEF ListInv, ListTypeOK, Held
  <2> QED
    BY <2>1 DEF ListInv, OneRole
<1> QED
  BY <1>1, <1>2, <1>3, <1>4, <1>5 DEF ListInv

\* A call that found nothing to do leaves the list alone.
LEMMA MissInv ==
  ASSUME ListInv, NEW w \in Writers, Miss(w)
  PROVE  ListInv'
<1> USE DEF Miss, GoTo
<1>1. ListTypeOK'
  BY DEF ListInv, ListTypeOK, WriterPc, memVars, searchVars
<1>2. OwnsBucket'
  BY DEF ListInv, ListTypeOK, OwnsBucket, InCall, WriterBucket
<1>3. Position'
  BY DEF ListInv, ListTypeOK, Position, WellPlaced, AtPosition, Deref, Absent, WriterBucket, memVars
<1>4. ListWellFormed' /\ SeenNow'
  BY QuietList, QuietSeen DEF ListInv, memVars, searchVars
<1>5. OneRole'
  <2>1. \A v \in Writers : Held(v)' = Held(v)
    BY DEF ListInv, ListTypeOK, Held
  <2> QED
    BY <2>1 DEF ListInv, OneRole
<1> QED
  BY <1>1, <1>2, <1>3, <1>4, <1>5 DEF ListInv

\* What free_node_later does to the list before it frees the node: nothing.
LEMMA RetireInv ==
  ASSUME ListInv, NEW w \in Writers, wpc[w] = "retire", GoTo(w, "free"),
         UNCHANGED <<memVars, lock, free, live, wop, wkey, wprev, wcur, wnew, searchVars>>
  PROVE  ListInv'
<1> USE DEF GoTo
<1>1. ListTypeOK'
  BY DEF ListInv, ListTypeOK, WriterPc, memVars, searchVars
<1>2. OwnsBucket'
  BY DEF ListInv, ListTypeOK, OwnsBucket, InCall, WriterBucket
<1>3. Position'
  BY DEF ListInv, ListTypeOK, Position, WellPlaced, AtPosition, Deref, Absent, WriterBucket, memVars
<1>4. ListWellFormed' /\ SeenNow'
  BY QuietList, QuietSeen DEF ListInv, memVars, searchVars
<1>5. OneRole'
  <2>1. \A v \in Writers : Held(v)' = Held(v)
    BY DEF ListInv, ListTypeOK, Held
  <2> QED
    BY <2>1 DEF ListInv, OneRole
<1> QED
  BY <1>1, <1>2, <1>3, <1>4, <1>5 DEF ListInv

\* free_node takes a node that is neither linked nor in another call's hands.
LEMMA FreeInv ==
  ASSUME ListInv, NEW w \in Writers, FreeNode(w)
  PROVE  ListInv'
<1> USE DEF FreeNode, GoTo
<1>1. ListTypeOK'
  BY DEF ListInv, ListTypeOK, Position, WellPlaced, WriterPc, memVars, searchVars
<1>2. OwnsBucket'
  BY DEF ListInv, ListTypeOK, OwnsBucket, InCall, WriterBucket
<1>3. Position'
  BY DEF ListInv, ListTypeOK, Position, WellPlaced, AtPosition, Deref, Absent, WriterBucket, memVars
<1>4. ListWellFormed' /\ SeenNow'
  BY QuietList, QuietSeen DEF ListInv, memVars, searchVars
<1>5. OneRole'
  <2>1. Held(w) = {wcur[w]} /\ Held(w)' = {}
    BY DEF ListInv, ListTypeOK, Held
  <2>2. \A v \in Writers : v # w => Held(v)' = Held(v)
    BY DEF ListInv, ListTypeOK, Held
  <2> QED
    BY <2>1, <2>2 DEF ListInv, OneRole
<1> QED
  BY <1>1, <1>2, <1>3, <1>4, <1>5 DEF ListInv

\* new_node's node is in the hands of this call only.
LEMMA NewInv ==
  ASSUME ListInv, NEW w \in Writers, NewNode(w)
  PROVE  ListInv'
<1> USE DEF NewNode, GoTo
<1>1. ListTypeOK'
  BY DEF ListInv, ListTypeOK, NodePtr, WriterPc, memVars, searchVars
<1>2. OwnsBucket'
  BY DEF ListInv, ListTypeOK, OwnsBucket, InCall, WriterBucket
<1>3. Position'
  BY DEF ListInv, ListTypeOK, Position, WellPlaced, AtPosition, Deref, Absent, WriterBucket, memVars
<1>4. ListWellFormed' /\ SeenNow'
  BY QuietList, QuietSeen DEF ListInv, memVars, searchVars
<1>5. OneRole'
  <2>1. PICK n \in free : free' = free \ {n} /\ wnew' = [wnew EXCEPT ![w] = n]
    OBVIOUS
  <2>2. Held(w)' = {n}
    BY <2>1 DEF ListInv, ListTypeOK, Held
  <2>3. \A v \in Writers : v # w => Held(v)' = Held(v)
    BY <2>1 DEF ListInv, ListTypeOK, Held
  <2> QED
    BY <2>1, <2>2, <2>3 DEF ListInv, OneRole
<1> QED
  BY <1>1, <1>2, <1>3, <1>4, <1>5 DEF ListInv

\* lock_wunlock: the call lets go of the bucket and of its locals.
LEMMA UnlockInv ==
  ASSUME ListInv, NEW w \in Writers, UnlockW(w)
  PROVE  ListInv'
<1> USE DEF UnlockW, GoTo
<1>1. ListTypeOK'
  BY DEF ListInv, ListTypeOK, NodePtr, WriterPc, memVars, searchVars
<1>2. OwnsBucket'
  <2>1. CASE OneWriter
    BY <2>1 DEF ListInv, ListTypeOK, OwnsBucket, InCall
  <2>2. CASE ~OneWriter
    <3>1. lock' = [lock EXCEPT ![WriterBucket(w)] = NULL]
      BY <2>2
    <3>2. \A v \in Writers : v # w => WriterBucket(v)' = WriterBucket(v)
      BY DEF ListInv, ListTypeOK, WriterBucket
    <3>3. \A v \in Writers : v # w /\ InCall(v) => WriterBucket(v) # WriterBucket(w)
      BY OneInBucket DEF ListInv, InCall
    <3>4. \A v \in Writers : InCall(v)' => v # w /\ InCall(v)
      BY DEF ListInv, ListTypeOK, InCall
    <3>5. \A v \in Writers : wpc'[v] # "idle" => wkey'[v] \in Keys
      BY DEF ListInv, ListTypeOK, OwnsBucket
    <3> QED
      BY <2>2, <3>1, <3>2, <3>3, <3>4, <3>5 DEF ListInv, ListTypeOK, OwnsBucket
  <2> QED
    BY <2>1, <2>2
<1>3. Position'
  BY DEF ListInv, ListTypeOK, Position, WellPlaced, AtPosition, Deref, Absent, WriterBucket, memVars
<1>4. ListWellFormed' /\ SeenNow'
  BY QuietList, QuietSeen DEF ListInv, memVars, searchVars
<1>5. OneRole'
  <2>1. \A v \in Writers : Held(v)' = Held(v)
    BY DEF ListInv, ListTypeOK, Held
  <2> QED
    BY <2>1 DEF ListInv, OneRole
<1> QED
  BY <1>1, <1>2, <1>3, <1>4, <1>5 DEF ListInv
\* The nodes other calls and the list itself refer to are not the one that an
\* insert is still filling.
LEMMA NewIsPrivate ==
  ASSUME ListInv, NEW w \in Writers, wpc[w] \in {"setkey", "setnext", "link"}
  PROVE  /\ wnew[w] \in Nodes
         /\ wnew[w] \notin live
         /\ wnew[w] \notin free
         /\ \A v \in Writers : v # w /\ wpc[v] \in {"setkey", "setnext", "link"} =>
              wnew[v] # wnew[w]
         /\ \A v \in Writers : wpc[v] \in {"retire", "free", "late"} => wcur[v] # wnew[w]
         /\ \A v \in Writers : AtPosition(v) => wprev[v] # wnew[w]
<1>1. wnew[w] \in Nodes
  BY DEF ListInv, Position, WellPlaced
<1>2. Held(w) = {wnew[w]}
  BY DEF Held
<1>3. \A v \in Writers : wpc[v] \in {"setkey", "setnext", "link"} => Held(v) = {wnew[v]}
  BY DEF Held
<1>4. \A v \in Writers : wpc[v] \in {"retire", "free", "late"} => Held(v) = {wcur[v]}
  BY DEF Held
<1>5. wnew[w] \notin live /\ wnew[w] \notin free
  BY <1>2 DEF ListInv, OneRole
<1>6. \A v \in Writers : AtPosition(v) => wprev[v] # wnew[w]
  BY <1>1, <1>5, HashListAssumption DEF AtPosition
<1>7. \A v \in Writers : v # w => Held(v) \cap Held(w) = {}
  BY DEF ListInv, OneRole
<1>8. \A v \in Writers : wpc[v] \in {"retire", "free", "late"} => v # w
  OBVIOUS
<1>9. \A v \in Writers : v # w /\ wpc[v] \in {"setkey", "setnext", "link"} => wnew[v] # wnew[w]
  BY <1>2, <1>3, <1>7
<1>10. \A v \in Writers : wpc[v] \in {"retire", "free", "late"} => wcur[v] # wnew[w]
  BY <1>2, <1>4, <1>7, <1>8
<1> QED
  BY <1>1, <1>5, <1>6, <1>9, <1>10

\* new->key is written in a node no list goes through.
LEMMA SetKeyInv ==
  ASSUME ListInv, NEW w \in Writers, SetKey(w)
  PROVE  ListInv'
<1> USE DEF SetKey, GoTo
<1>0. wkey[w] \in Keys /\ wkey[w] \in Nat
  BY HashListAssumption DEF ListInv, OwnsBucket
<1>1. ListTypeOK'
  BY <1>0, NewIsPrivate DEF ListInv, ListTypeOK, WriterPc, searchVars
<1>2. OwnsBucket'
  BY DEF ListInv, ListTypeOK, OwnsBucket, InCall, WriterBucket
<1>3. \A n \in Nodes : n # wnew[w] => key'[n] = key[n]
  BY DEF ListInv, ListTypeOK
<1>4. \A n \in live : n \in Nodes /\ key'[n] = key[n]
  BY <1>3, NewIsPrivate DEF ListInv, ListTypeOK
<1>5. Position'
  <2> SUFFICES ASSUME NEW v \in Writers PROVE WellPlaced(v)'
    BY DEF Position
  <2>1. AtPosition(v) => AtPosition(v)'
    BY <1>4 DEF AtPosition, WriterBucket
  <2>2. Deref(WriterBucket(v), wprev[v])' = Deref(WriterBucket(v), wprev[v])
    BY DEF Deref, WriterBucket
  <2>3. wpc[v] \in {"walk", "setkey", "setnext", "link"} => (Absent(v) => Absent(v)')
    BY <1>4, CurLive DEF Absent
  <2>4. CASE v = w
    BY <1>0, <2>1, <2>2, <2>3, <2>4, NewIsPrivate DEF ListInv, ListTypeOK, Position, WellPlaced
  <2>5. CASE v # w
    <3>1. wpc[v] = "retire" /\ Deref(WriterBucket(v), wprev[v]) # NULL =>
            key'[Deref(WriterBucket(v), wprev[v])] = key[Deref(WriterBucket(v), wprev[v])]
      BY <1>4, DerefLive DEF ListInv, Position, WellPlaced
    <3> QED
      BY <1>3, <2>1, <2>2, <2>3, <2>5, <3>1, NewIsPrivate
         DEF ListInv, ListTypeOK, Position, WellPlaced
  <2> QED
    BY <2>4, <2>5
<1>6. ListWellFormed'
  <2>1. HeadsLive' /\ NextLive' /\ KeysUnique'
    BY <1>4 DEF ListInv, ListWellFormed, HeadsLive, NextLive, KeysUnique, SameBucket
  <2>2. \A n \in live : head[BucketOf(key[n])] \in live
    BY BucketRange DEF ListInv, ListTypeOK, ListWellFormed, HeadsLive, NoneSkipped
  <2>3. \A m, n \in live : SameBucket(m, n) /\ key[m] < key[n] => next[m] \in live
    BY DEF ListInv, ListWellFormed, NextLive, NoneSkipped
  <2>4. NoneSkipped'
    BY <1>4, <2>2, <2>3 DEF ListInv, ListWellFormed, NoneSkipped, SameBucket
  <2> QED
    BY <2>1, <2>4 DEF ListWellFormed
<1>7. SeenNow'
  <2>1. Members' = Members
    BY <1>4 DEF Members
  <2> QED
    BY <2>1 DEF ListInv, SeenNow, Answer, searchVars
<1>8. OneRole'
  <2>1. \A v \in Writers : Held(v)' = Held(v)
    BY DEF ListInv, ListTypeOK, Held
  <2> QED
    BY <2>1 DEF ListInv, OneRole
<1> QED
  BY <1>1, <1>2, <1>5, <1>6, <1>7, <1>8 DEF ListInv

\* new->next is written in a node no list goes through.
LEMMA SetNextInv ==
  ASSUME ListInv, NEW w \in Writers, SetNext(w)
  PROVE  ListInv'
<1> USE DEF SetNext, GoTo
<1>1. ListTypeOK'
  BY NewIsPrivate DEF ListInv, ListTypeOK, WriterPc, searchVars
<1>2. OwnsBucket'
  BY DEF ListInv, ListTypeOK, OwnsBucket, InCall, WriterBucket
<1>3. \A n \in Nodes : n # wnew[w] => next'[n] = next[n]
  BY DEF ListInv, ListTypeOK
<1>4. \A n \in live : n \in Nodes /\ next'[n] = next[n]
  BY <1>3, NewIsPrivate DEF ListInv, ListTypeOK
<1>5. Position'
  <2> SUFFICES ASSUME NEW v \in Writers PROVE WellPlaced(v)'
    BY DEF Position
  <2>1. AtPosition(v) => AtPosition(v)'
    BY DEF AtPosition, WriterBucket
  <2>2. AtPosition(v) => Deref(WriterBucket(v), wprev[v])' = Deref(WriterBucket(v), wprev[v])
    BY <1>4 DEF Deref, WriterBucket, AtPosition
  <2>3. Absent(v) => Absent(v)'
    BY DEF Absent
  <2>4. CASE v = w
    BY <2>1, <2>2, <2>3, <2>4, NewIsPrivate DEF ListInv, ListTypeOK, Position, WellPlaced
  <2>5. CASE v # w
    BY <1>3, <2>1, <2>2, <2>3, <2>5, NewIsPrivate DEF ListInv, ListTypeOK, Position, WellPlaced
  <2> QED
    BY <2>4, <2>5
<1>6. ListWellFormed'
  BY <1>4 DEF ListInv, ListWellFormed, HeadsLive, NextLive, NoneSkipped, KeysUnique, SameBucket
<1>7. SeenNow'
  BY QuietSeen DEF ListInv, searchVars
<1>8. OneRole'
  <2>1. \A v \in Writers : Held(v)' = Held(v)
    BY DEF ListInv, ListTypeOK, Held
  <2> QED
    BY <2>1 DEF ListInv, OneRole
<1> QED
  BY <1>1, <1>2, <1>5, <1>6, <1>7, <1>8 DEF ListInv
\* The store through prev changes the head of the call's bucket or the next
\* field of a linked node of that bucket; what another call relies on is in
\* another bucket, or not linked.
LEMMA StoreElsewhere ==
  ASSUME ListInv, NEW w \in Writers, InCall(w), AtPosition(w),
         NEW p, StorePrev(w, p), UNCHANGED <<key, wkey, wprev>>,
         NEW v \in Writers, v # w, InCall(v), AtPosition(v)
  PROVE  Deref(WriterBucket(v), wprev[v])' = Deref(WriterBucket(v), wprev[v])
<1>1. WriterBucket(v) # WriterBucket(w)
  BY OneInBucket DEF ListInv
<1>2. WriterBucket(v)' = WriterBucket(v)
  BY DEF WriterBucket
<1>3. WriterBucket(v) \in Buckets /\ WriterBucket(w) \in Buckets
  BY BucketRange, HashListAssumption DEF ListInv, OwnsBucket, InCall, WriterBucket
<1>4. CASE wprev[w] = NULL
  BY <1>1, <1>2, <1>3, <1>4 DEF StorePrev, Deref, ListInv, ListTypeOK
<1>5. CASE wprev[w] # NULL
  BY <1>1, <1>2, <1>3, <1>5 DEF StorePrev, Deref, ListInv, ListTypeOK, AtPosition
<1> QED
  BY <1>4, <1>5

\* It leaves alone every node that is not linked.
LEMMA StoreKeepsOthers ==
  ASSUME ListInv, NEW w \in Writers, wkey[w] \in Keys, AtPosition(w),
         NEW p \in NodePtr, StorePrev(w, p)
  PROVE  /\ head' \in [Buckets -> NodePtr]
         /\ next' \in [Nodes -> NodePtr]
         /\ \A n \in Nodes : n \notin live => next'[n] = next[n]
<1>1. WriterBucket(w) \in Buckets
  BY BucketRange, HashListAssumption DEF WriterBucket
<1>2. CASE wprev[w] = NULL
  BY <1>1, <1>2 DEF StorePrev, ListInv, ListTypeOK
<1>3. CASE wprev[w] # NULL
  BY <1>1, <1>3 DEF StorePrev, ListInv, ListTypeOK, AtPosition
<1> QED
  BY <1>2, <1>3

\* The node a delete has found is linked, and nothing but prev leads to it.
LEMMA UnlinkKeepsList ==
  ASSUME ListInv, NEW w \in Writers, Unlink(w)
  PROVE  ListWellFormed'
<1> DEFINE c == wcur[w]
           p == wprev[w]
           b == WriterBucket(w)
<1>1. wkey[w] \in Nat /\ b \in Buckets
  BY BucketRange, HashListAssumption DEF Unlink, ListInv, OwnsBucket, WriterBucket
<1>2. c \in live /\ key[c] = wkey[w] /\ BucketOf(key[c]) = b
  BY CurLive DEF Unlink, Found
<1>3. AtPosition(w) /\ c = Deref(b, p)
  BY DEF Unlink, ListInv, Position, WellPlaced
<1>4. live' = live \ {c} /\ key' = key
  BY DEF Unlink
<1>5. \A n \in live : n \in Nodes /\ key[n] \in Nat /\ BucketOf(key[n]) \in Buckets
  BY BucketRange DEF ListInv, ListTypeOK
<1>6. next[c] # NULL => /\ next[c] \in live'
                        /\ BucketOf(key[next[c]]) = b
                        /\ key[c] < key[next[c]]
  BY <1>2, <1>4, <1>5 DEF ListInv, ListWellFormed, NextLive, SameBucket
<1>7. \A n \in live' : BucketOf(key[n]) = b /\ key[c] < key[n] =>
        next[c] # NULL /\ key[next[c]] <= key[n]
  BY <1>2, <1>4 DEF ListInv, ListWellFormed, NoneSkipped, SameBucket
<1>8. KeysUnique'
  BY <1>4 DEF ListInv, ListWellFormed, KeysUnique
<1>9. CASE p = NULL
  <2>1. head' = [head EXCEPT ![b] = next[c]] /\ next' = next /\ head[b] = c
    BY <1>3, <1>9 DEF Unlink, StorePrev, Deref
  <2>2. \A n \in live' : BucketOf(key[n]) = b => key[c] < key[n]
    BY <1>2, <1>4, <1>5, <2>1 DEF ListInv, ListWellFormed, NoneSkipped, KeysUnique
  <2>3. HeadsLive'
    <3> SUFFICES ASSUME NEW d \in Buckets, head'[d] # NULL
                 PROVE  head'[d] \in live' /\ BucketOf(key'[head'[d]]) = d
      BY DEF HeadsLive
    <3> QED
      BY <1>1, <1>2, <1>4, <1>6, <2>1 DEF ListInv, ListTypeOK, ListWellFormed, HeadsLive
  <2>4. NextLive'
    <3> SUFFICES ASSUME NEW n \in live', next'[n] # NULL
                 PROVE  next'[n] \in live' /\ SameBucket(n, next[n])' /\ key'[n] < key'[next'[n]]
      BY DEF NextLive
    <3>1. next[n] \in live /\ SameBucket(n, next[n]) /\ key[n] < key[next[n]]
      BY <1>4, <2>1 DEF ListInv, ListWellFormed, NextLive
    <3>2. next[n] # c
      BY <1>2, <1>4, <1>5, <2>2, <3>1 DEF SameBucket
    <3> QED
      BY <1>4, <2>1, <3>1, <3>2 DEF SameBucket
  <2>5. NoneSkipped'
    <3>1. ASSUME NEW n \in live'
          PROVE  head'[BucketOf(key'[n])] # NULL /\ key'[head'[BucketOf(key'[n])]] <= key'[n]
      <4>1. n \in live /\ BucketOf(key[n]) \in Buckets
        BY <1>4, <1>5
      <4> QED
        BY <1>1, <1>4, <1>7, <2>1, <2>2, <4>1 DEF ListInv, ListTypeOK, ListWellFormed, NoneSkipped
    <3>2. ASSUME NEW m \in live', NEW n \in live', SameBucket(m, n)', key'[m] < key'[n]
          PROVE  next'[m] # NULL /\ key'[next'[m]] <= key'[n]
      BY <1>4, <2>1, <3>2 DEF ListInv, ListWellFormed, NoneSkipped, SameBucket
    <3> QED
      BY <3>1, <3>2 DEF NoneSkipped
  <2> QED
    BY <1>8, <2>3, <2>4, <2>5 DEF ListWellFormed
<1>10. CASE p # NULL
  <2>1. next' = [next EXCEPT ![p] = next[c]] /\ head' = head /\ next[p] = c
    BY <1>3, <1>10 DEF Unlink, StorePrev, Deref
  <2>2. p \in live' /\ p \in Nodes /\ BucketOf(key[p]) = b /\ key[p] < key[c]
    BY <1>2, <1>3, <1>4, <1>5, <1>10 DEF AtPosition
  <2>3. \A n \in live' : n # p => next[n] # c /\ next'[n] = next[n]
    <3> SUFFICES ASSUME NEW n \in live', n # p PROVE next[n] # c /\ next'[n] = next[n]
      OBVIOUS
    <3>1. n \in live /\ n \in Nodes /\ key[n] # key[p] /\ key[n] \in Nat /\ key[p] \in Nat
      BY <1>4, <1>5, <2>2 DEF ListInv, ListWellFormed, KeysUnique
    <3>2. ASSUME next[n] = c PROVE FALSE
      <4>1. BucketOf(key[n]) = b /\ key[n] < key[c]
        BY <1>2, <3>1, <3>2, HashListAssumption DEF ListInv, ListTypeOK, ListWellFormed, NextLive, SameBucket
      <4>2. CASE key[p] < key[n]
        BY <1>2, <1>4, <1>5, <2>1, <2>2, <3>1, <4>1, <4>2
           DEF ListInv, ListWellFormed, NoneSkipped, SameBucket
      <4>3. CASE key[n] < key[p]
        BY <1>2, <1>4, <1>5, <2>1, <2>2, <3>1, <3>2, <4>1, <4>3
           DEF ListInv, ListWellFormed, NoneSkipped, SameBucket
      <4> QED
        BY <3>1, <4>2, <4>3
    <3> QED
      BY <2>1, <3>1, <3>2 DEF ListInv, ListTypeOK
  <2>4. next'[p] = next[c]
    BY <2>1, <2>2 DEF ListInv, ListTypeOK
  <2>5. HeadsLive'
    <3> SUFFICES ASSUME NEW d \in Buckets, head'[d] # NULL
                 PROVE  head'[d] \in live' /\ BucketOf(key'[head'[d]]) = d
      BY DEF HeadsLive
    <3>1. head[d] \in live /\ BucketOf(key[head[d]]) = d
      BY <2>1 DEF ListInv, ListWellFormed, HeadsLive
    <3>2. d = b => key[head[d]] <= key[p]
      BY <1>4, <2>2 DEF ListInv, ListWellFormed, NoneSkipped
    <3>3. head[d] # c
      BY <1>2, <1>4, <1>5, <2>2, <3>1, <3>2
    <3> QED
      BY <1>4, <2>1, <3>1, <3>3
  <2>6. NextLive'
    <3> SUFFICES ASSUME NEW n \in live', next'[n] # NULL
                 PROVE  next'[n] \in live' /\ SameBucket(n, next[n])' /\ key'[n] < key'[next'[n]]
      BY DEF NextLive
    <3>1. CASE n = p
      BY <1>2, <1>4, <1>5, <1>6, <2>2, <2>4, <3>1 DEF SameBucket
    <3>2. CASE n # p
      BY <1>4, <2>3, <3>2 DEF ListInv, ListWellFormed, NextLive, SameBucket
    <3> QED
      BY <3>1, <3>2
  <2>7. NoneSkipped'
    <3>1. ASSUME NEW n \in live'
          PROVE  head'[BucketOf(key'[n])] # NULL /\ key'[head'[BucketOf(key'[n])]] <= key'[n]
      BY <1>4, <2>1 DEF ListInv, ListWellFormed, NoneSkipped
    <3>2. ASSUME NEW m \in live', NEW n \in live', SameBucket(m, n)', key'[m] < key'[n]
          PROVE  next'[m] # NULL /\ key'[next'[m]] <= key'[n]
      <4>1. next[m] # NULL /\ key[next[m]] <= key[n]
        BY <1>4, <3>2 DEF ListInv, ListWellFormed, NoneSkipped, SameBucket
      <4>2. CASE m = p
        <5>1. n \in live /\ n # c /\ key[n] \in Nat /\ key[c] \in Nat
          BY <1>2, <1>4, <1>5
        <5>2. key[c] < key[n]
          BY <1>2, <2>1, <4>1, <4>2, <5>1 DEF ListInv, ListWellFormed, KeysUnique
        <5> QED
          BY <1>4, <1>7, <2>2, <2>4, <3>2, <4>2, <5>2 DEF SameBucket
      <4>3. CASE m # p
        BY <1>4, <2>3, <4>1, <4>3
      <4> QED
        BY <4>2, <4>3
    <3> QED
      BY <3>1, <3>2 DEF NoneSkipped
  <2> QED
    BY <1>8, <2>5, <2>6, <2>7 DEF ListWellFormed
<1> QED
  BY <1>9, <1>10

\* *prev = cur->next takes exactly one node out of a sorted list.
LEMMA UnlinkInv ==
  ASSUME ListInv, NEW w \in Writers, Unlink(w)
  PROVE  ListInv'
<1> USE DEF Unlink, GoTo
<1>0. wkey[w] \in Keys /\ AtPosition(w) /\ wcur[w] = Deref(WriterBucket(w), wprev[w]) /\ InCall(w)
  BY DEF ListInv, OwnsBucket, Position, WellPlaced, InCall
<1>1. wcur[w] \in live /\ wcur[w] \in Nodes /\ BucketOf(key[wcur[w]]) = WriterBucket(w)
  BY CurLive DEF ListInv, ListTypeOK, Found
<1>2. next[wcur[w]] \in NodePtr
  BY <1>1 DEF ListInv, ListTypeOK
<1>3. /\ head' \in [Buckets -> NodePtr]
      /\ next' \in [Nodes -> NodePtr]
      /\ \A n \in Nodes : n \notin live => next'[n] = next[n]
  BY <1>0, <1>2, StoreKeepsOthers
<1>4. seen' \in [Readers -> SUBSET {0, 1}]
  BY DEF Observe, Answer, ListInv, ListTypeOK
<1>5. ListTypeOK'
  BY <1>3, <1>4 DEF ListInv, ListTypeOK, WriterPc
<1>6. OwnsBucket'
  BY DEF ListInv, ListTypeOK, OwnsBucket, InCall, WriterBucket
<1>7. Position'
  <2> SUFFICES ASSUME NEW v \in Writers PROVE WellPlaced(v)'
    BY DEF Position
  <2>1. CASE v = w
    <3>1. AtPosition(w)'
      BY <1>0, <1>1 DEF AtPosition, Found, WriterBucket, ListInv, ListTypeOK
    <3>2. next'[wcur'[w]] = Deref(WriterBucket(w), wprev[w])'
      <4>1. CASE wprev[w] = NULL
        <5>1. WriterBucket(w)' = WriterBucket(w) /\ WriterBucket(w) \in Buckets
          BY <1>0, BucketRange, HashListAssumption DEF WriterBucket
        <5> QED
          BY <4>1, <5>1 DEF StorePrev, Deref, ListInv, ListTypeOK
      <4>2. CASE wprev[w] # NULL
        <5>1. wprev[w] \in Nodes /\ wprev[w] # wcur[w]
          BY <1>0, <4>2 DEF AtPosition, Found, ListInv, ListTypeOK
        <5> QED
          BY <1>1, <4>2, <5>1 DEF StorePrev, Deref, WriterBucket, ListInv, ListTypeOK
      <4> QED
        BY <4>1, <4>2
    <3>3. next'[wcur'[w]] = next[wcur[w]]
      BY <3>2, <1>0, <1>1 DEF StorePrev, AtPosition, Found, ListInv, ListTypeOK
    <3>4. next[wcur[w]] # NULL => key[next[wcur[w]]] > wkey[w]
      BY <1>0, <1>1, HashListAssumption
         DEF Found, ListInv, ListTypeOK, ListWellFormed, NextLive
    <3> QED
      BY <1>1, <2>1, <3>1, <3>2, <3>3, <3>4 DEF WellPlaced, Found, ListInv, ListTypeOK
  <2>2. CASE v # w
    <3>1. InCall(v) /\ AtPosition(v) =>
            Deref(WriterBucket(v), wprev[v])' = Deref(WriterBucket(v), wprev[v])
      BY <1>0, <2>2, StoreElsewhere
    <3>2. InCall(v) => WriterBucket(v) # WriterBucket(w)
      BY <1>0, <2>2, OneInBucket DEF ListInv
    <3>3. InCall(v) /\ AtPosition(v) => AtPosition(v)'
      BY <1>1, <3>2 DEF AtPosition, WriterBucket
    <3>4. Absent(v) => Absent(v)'
      BY DEF Absent
    <3>5. wpc[v] = "link" => next'[wnew[v]] = next[wnew[v]]
      BY <1>3, NewIsPrivate
    <3>6. wpc[v] = "retire" => wcur[v] \in Nodes /\ wcur[v] \notin live
      BY DEF ListInv, OneRole, Held, Position, WellPlaced
    <3> QED
      BY <1>3, <2>2, <3>1, <3>3, <3>4, <3>5, <3>6
         DEF WellPlaced, Position, ListInv, ListTypeOK, InCall
  <2> QED
    BY <2>1, <2>2
<1>8. SeenNow'
  BY DEF SeenNow, Observe, Members, ListInv, ListTypeOK
<1>9. OneRole'
  <2>1. Held(w) = {} /\ Held(w)' = {wcur[w]}
    BY DEF Held, ListInv, ListTypeOK
  <2>2. \A v \in Writers : v # w => Held(v)' = Held(v)
    BY DEF Held, ListInv, ListTypeOK
  <2> QED
    BY <1>1, <2>1, <2>2 DEF ListInv, OneRole
<1> QED
  BY <1>5, <1>6, <1>7, <1>8, <1>9, UnlinkKeepsList DEF ListInv

\* The node an insert links takes the one place its key has in the bucket.
LEMMA LinkKeepsList ==
  ASSUME ListInv, NEW w \in Writers, Link(w)
  PROVE  ListWellFormed'
<1> DEFINE c == wcur[w]
           p == wprev[w]
           b == WriterBucket(w)
           a == wnew[w]
<1>1. wkey[w] \in Nat /\ b \in Buckets /\ b = BucketOf(wkey[w])
  BY BucketRange, HashListAssumption DEF Link, ListInv, OwnsBucket, WriterBucket
<1>2. a \in Nodes /\ a \notin live /\ key[a] = wkey[w] /\ next[a] = c
  BY NewIsPrivate DEF Link, ListInv, Position, WellPlaced
<1>3. AtPosition(w) /\ c = Deref(b, p) /\ (c # NULL => key[c] > wkey[w])
  BY DEF Link, ListInv, Position, WellPlaced, Absent
<1>4. live' = live \cup {a} /\ key' = key
  BY DEF Link
<1>5. \A n \in live' : n \in Nodes /\ key[n] \in Nat /\ BucketOf(key[n]) \in Buckets
  BY <1>2, <1>4, BucketRange DEF ListInv, ListTypeOK
<1>6. c # NULL => c \in live /\ BucketOf(key[c]) = b
  BY CurLive DEF Link
<1>7. p # NULL => p \in live /\ p \in Nodes /\ BucketOf(key[p]) = b /\ key[p] < wkey[w] /\ next[p] = c
  BY <1>3, <1>4, <1>5 DEF AtPosition, Deref
<1>8. p = NULL => head[b] = c
  BY <1>3 DEF Deref
<1>9. ASSUME NEW n \in live, BucketOf(key[n]) = b
      PROVE  \/ wkey[w] < key[n] /\ c # NULL /\ key[c] <= key[n]
             \/ key[n] < wkey[w] /\ p # NULL /\ key[n] <= key[p]
  <2>1. n \in Nodes /\ key[n] \in Nat
    BY <1>4, <1>5
  <2>2. CASE p = NULL
    BY <1>1, <1>3, <1>4, <1>5, <1>6, <1>8, <1>9, <2>1, <2>2 DEF ListInv, ListWellFormed, NoneSkipped
  <2>3. CASE p # NULL /\ key[p] < key[n]
    BY <1>1, <1>3, <1>4, <1>5, <1>6, <1>7, <1>9, <2>1, <2>3
       DEF ListInv, ListWellFormed, NoneSkipped, SameBucket
  <2>4. CASE p # NULL /\ key[n] <= key[p]
    BY <1>1, <1>4, <1>5, <1>7, <2>1, <2>4
  <2> QED
    BY <1>4, <1>5, <1>7, <2>1, <2>2, <2>3, <2>4
<1>10. KeysUnique'
  <2>1. \A n \in live : key[n] # wkey[w]
    BY <1>1, <1>4, <1>5, <1>9
  <2> QED
    BY <1>2, <1>4, <2>1 DEF ListInv, ListWellFormed, KeysUnique
<1>11. CASE p = NULL
  <2>1. head' = [head EXCEPT ![b] = a] /\ next' = next
    BY <1>11 DEF Link, StorePrev
  <2>2. HeadsLive'
    <3> SUFFICES ASSUME NEW d \in Buckets, head'[d] # NULL
                 PROVE  head'[d] \in live' /\ BucketOf(key'[head'[d]]) = d
      BY DEF HeadsLive
    <3> QED
      BY <1>1, <1>2, <1>4, <2>1 DEF ListInv, ListTypeOK, ListWellFormed, HeadsLive
  <2>3. NextLive'
    <3> SUFFICES ASSUME NEW n \in live', next'[n] # NULL
                 PROVE  next'[n] \in live' /\ SameBucket(n, next[n])' /\ key'[n] < key'[next'[n]]
      BY DEF NextLive
    <3>1. CASE n = a
      BY <1>1, <1>2, <1>3, <1>4, <1>5, <1>6, <2>1, <3>1 DEF SameBucket
    <3>2. CASE n # a
      BY <1>4, <2>1, <3>2 DEF ListInv, ListWellFormed, NextLive, SameBucket
    <3> QED
      BY <3>1, <3>2
  <2>4. NoneSkipped'
    <3>1. ASSUME NEW n \in live'
          PROVE  head'[BucketOf(key'[n])] # NULL /\ key'[head'[BucketOf(key'[n])]] <= key'[n]
      <4>1. CASE BucketOf(key[n]) = b
        <5>1. wkey[w] <= key[n]
          BY <1>1, <1>2, <1>4, <1>5, <1>9, <1>11, <4>1
        <5> QED
          BY <1>1, <1>2, <1>4, <2>1, <4>1, <5>1, HashListAssumption DEF ListInv, ListTypeOK
      <4>2. CASE BucketOf(key[n]) # b
        BY <1>1, <1>2, <1>4, <1>5, <2>1, <4>2 DEF ListInv, ListTypeOK, ListWellFormed, NoneSkipped
      <4> QED
        BY <4>1, <4>2
    <3>2. ASSUME NEW m \in live', NEW n \in live', SameBucket(m, n)', key'[m] < key'[n]
          PROVE  next'[m] # NULL /\ key'[next'[m]] <= key'[n]
      <4>1. n # a
        BY <1>1, <1>2, <1>4, <1>5, <1>9, <1>11, <3>2 DEF SameBucket
      <4>2. CASE m = a
        BY <1>1, <1>2, <1>4, <1>5, <1>9, <1>11, <2>1, <3>2, <4>1, <4>2 DEF SameBucket
      <4>3. CASE m # a
        BY <1>4, <2>1, <3>2, <4>1, <4>3 DEF ListInv, ListWellFormed, NoneSkipped, SameBucket
      <4> QED
        BY <4>2, <4>3
    <3> QED
      BY <3>1, <3>2 DEF NoneSkipped
  <2> QED
    BY <1>10, <2>2, <2>3, <2>4 DEF ListWellFormed
<1>12. CASE p # NULL
  <2>1. next' = [next EXCEPT ![p] = a] /\ head' = head
    BY <1>12 DEF Link, StorePrev
  <2>2. next'[p] = a /\ \A n \in Nodes : n # p => next'[n] = next[n]
    BY <1>7, <1>12, <2>1 DEF ListInv, ListTypeOK
  <2>3. HeadsLive'
    BY <1>4, <2>1 DEF ListInv, ListWellFormed, HeadsLive
  <2>4. NextLive'
    <3> SUFFICES ASSUME NEW n \in live', next'[n] # NULL
                 PROVE  next'[n] \in live' /\ SameBucket(n, next[n])' /\ key'[n] < key'[next'[n]]
      BY DEF NextLive
    <3>1. CASE n = a
      BY <1>1, <1>2, <1>3, <1>4, <1>5, <1>6, <1>7, <1>12, <2>2, <3>1 DEF SameBucket
    <3>2. CASE n = p
      BY <1>1, <1>2, <1>4, <1>7, <1>12, <2>2, <3>2 DEF SameBucket
    <3>3. CASE n # a /\ n # p
      BY <1>4, <1>5, <2>2, <3>3 DEF ListInv, ListWellFormed, NextLive, SameBucket
    <3> QED
      BY <3>1, <3>2, <3>3
  <2>5. NoneSkipped'
    <3>1. ASSUME NEW n \in live'
          PROVE  head'[BucketOf(key'[n])] # NULL /\ key'[head'[BucketOf(key'[n])]] <= key'[n]
      <4>1. CASE n = a
        <5>1. head[b] # NULL /\ key[head[b]] <= key[p] /\ head[b] \in live
          BY <1>1, <1>7, <1>12 DEF ListInv, ListWellFormed, NoneSkipped, HeadsLive
        <5> QED
          BY <1>1, <1>2, <1>4, <1>5, <1>7, <1>12, <2>1, <4>1, <5>1
      <4>2. CASE n # a
        BY <1>4, <2>1, <4>2 DEF ListInv, ListWellFormed, NoneSkipped
      <4> QED
        BY <4>1, <4>2
    <3>2. ASSUME NEW m \in live', NEW n \in live', SameBucket(m, n)', key'[m] < key'[n]
          PROVE  next'[m] # NULL /\ key'[next'[m]] <= key'[n]
      <4>0. m \in Nodes /\ key[m] \in Nat /\ key[n] \in Nat /\ BucketOf(key[m]) = BucketOf(key[n]) /\ key[m] < key[n]
        BY <1>4, <1>5, <3>2 DEF SameBucket
      <4>1. CASE m = a
        BY <1>1, <1>2, <1>4, <1>5, <1>7, <1>9, <1>12, <2>2, <4>0, <4>1
      <4>2. CASE m = p
        BY <1>1, <1>2, <1>4, <1>5, <1>7, <1>9, <1>12, <2>2, <4>0, <4>2, HashListAssumption
      <4>3. CASE m # a /\ m # p /\ n = a
        <5>1. m \in live /\ BucketOf(key[m]) = b /\ key[m] < wkey[w]
          BY <1>1, <1>2, <1>4, <4>0, <4>3
        <5>2. key[m] <= key[p] /\ key[m] # key[p]
          BY <1>1, <1>7, <1>9, <1>12, <4>0, <4>3, <5>1 DEF ListInv, ListWellFormed, KeysUnique
        <5>3. next[m] # NULL /\ key[next[m]] <= key[p] /\ next[m] \in live
          BY <1>4, <1>5, <1>7, <1>12, <5>1, <5>2
             DEF ListInv, ListWellFormed, NoneSkipped, NextLive, SameBucket
        <5> QED
          BY <1>1, <1>2, <1>4, <1>5, <1>7, <1>12, <2>2, <4>0, <4>3, <5>3
      <4>4. CASE m # a /\ m # p /\ n # a
        BY <1>4, <2>2, <4>0, <4>4 DEF ListInv, ListWellFormed, NoneSkipped, SameBucket
      <4> QED
        BY <4>1, <4>2, <4>3, <4>4
    <3> QED
      BY <3>1, <3>2 DEF NoneSkipped
  <2> QED
    BY <1>10, <2>3, <2>4, <2>5 DEF ListWellFormed
<1> QED
  BY <1>11, <1>12

\* *prev = new puts exactly one node in its place in a sorted list.
LEMMA LinkInv ==
  ASSUME ListInv, NEW w \in Writers, Link(w)
  PROVE  ListInv'
<1> USE DEF Link, GoTo
<1>0. wkey[w] \in Keys /\ AtPosition(w) /\ InCall(w)
  BY DEF ListInv, OwnsBucket, Position, WellPlaced, InCall
<1>1. wnew[w] \in Nodes /\ wnew[w] \notin live /\ wnew[w] \notin free /\ wnew[w] \in NodePtr
  BY NewIsPrivate DEF NodePtr
<1>3. /\ head' \in [Buckets -> NodePtr]
      /\ next' \in [Nodes -> NodePtr]
      /\ \A n \in Nodes : n \notin live => next'[n] = next[n]
  BY <1>0, <1>1, StoreKeepsOthers
<1>4. seen' \in [Readers -> SUBSET {0, 1}]
  BY DEF Observe, Answer, ListInv, ListTypeOK
<1>5. ListTypeOK'
  BY <1>1, <1>3, <1>4 DEF ListInv, ListTypeOK, WriterPc
<1>6. OwnsBucket'
  BY DEF ListInv, ListTypeOK, OwnsBucket, InCall, WriterBucket
<1>7. Position'
  <2> SUFFICES ASSUME NEW v \in Writers PROVE WellPlaced(v)'
    BY DEF Position
  <2>1. CASE v = w
    BY <2>1 DEF WellPlaced, ListInv, ListTypeOK
  <2>2. CASE v # w
    <3>1. InCall(v) /\ AtPosition(v) =>
            Deref(WriterBucket(v), wprev[v])' = Deref(WriterBucket(v), wprev[v])
      BY <1>0, <2>2, StoreElsewhere
    <3>3. AtPosition(v) => AtPosition(v)'
      BY DEF AtPosition, WriterBucket
    <3>4. Absent(v) => Absent(v)'
      BY DEF Absent
    <3>5. wpc[v] = "link" => next'[wnew[v]] = next[wnew[v]]
      BY <1>3, NewIsPrivate
    <3>6. wpc[v] = "retire" => wcur[v] \in Nodes /\ wcur[v] \notin live
      BY DEF ListInv, OneRole, Held, Position, WellPlaced
    <3> QED
      BY <1>3, <2>2, <3>1, <3>3, <3>4, <3>5, <3>6
         DEF WellPlaced, Position, ListInv, ListTypeOK, InCall
  <2> QED
    BY <2>1, <2>2
<1>8. SeenNow'
  BY DEF SeenNow, Observe, Members, ListInv, ListTypeOK
<1>9. OneRole'
  <2>1. Held(w)' = {} /\ Held(w) = {wnew[w]}
    BY DEF Held, ListInv, ListTypeOK
  <2>2. \A v \in Writers : v # w => Held(v)' = Held(v)
    BY DEF Held, ListInv, ListTypeOK
  <2> QED
    BY <1>1, <2>1, <2>2 DEF ListInv, OneRole
<1> QED
  BY <1>5, <1>6, <1>7, <1>8, <1>9, LinkKeepsList DEF ListInv

\* Every step of a call of insert or delete keeps the list's invariant.
THEOREM WriterStepInv ==
  ASSUME ListInv, NEW w \in Writers, WriterStep(w)
  PROVE  ListInv'
BY LockInv, StepInv, MissInv, UnlinkInv, FreeInv, NewInv, SetKeyInv, SetNextInv,
   LinkInv, UnlockInv DEF WriterStep

\* So does a step of search, which writes to no shared variable.
LEMMA SearchInv ==
  ASSUME ListInv, NEW r \in Readers,
         UNCHANGED <<memVars, lock, free, live, writerVars>>,
         \/ UNCHANGED searchVars
         \/ \E k \in Keys : BeginSearch(r, k)
         \/ \E x \in {0, 1} : EndSearch(r, x)
  PROVE  ListInv'
<1> USE DEF writerVars
<1>1. ListTypeOK'
  <2>1. CASE UNCHANGED searchVars
    BY <2>1 DEF ListInv, ListTypeOK, memVars, searchVars
  <2>2. CASE \E k \in Keys : BeginSearch(r, k)
    BY <2>2 DEF ListInv, ListTypeOK, memVars, BeginSearch, Answer
  <2>3. CASE \E x \in {0, 1} : EndSearch(r, x)
    BY <2>3 DEF ListInv, ListTypeOK, memVars, EndSearch
  <2> QED
    BY <2>1, <2>2, <2>3
<1>2. OwnsBucket'
  BY DEF ListInv, OwnsBucket, InCall, WriterBucket
<1>3. Position'
  BY DEF ListInv, Position, WellPlaced, AtPosition, Deref, Absent, WriterBucket, memVars
<1>4. ListWellFormed'
  BY QuietList DEF ListInv
<1>5. OneRole'
  BY DEF ListInv, OneRole, Held
<1>6. SeenNow'
  <2>0. Members' = Members
    BY DEF Members, memVars
  <2>1. CASE UNCHANGED searchVars
    BY <2>0, <2>1 DEF ListInv, SeenNow, Answer, searchVars
  <2>2. CASE \E k \in Keys : BeginSearch(r, k)
    BY <2>0, <2>2 DEF ListInv, ListTypeOK, SeenNow, Answer, BeginSearch
  <2>3. CASE \E x \in {0, 1} : EndSearch(r, x)
    BY <2>0, <2>3 DEF ListInv, ListTypeOK, SeenNow, Answer, EndSearch
  <2> QED
    BY <2>1, <2>2, <2>3
<1> QED
  BY <1>1, <1>2, <1>3, <1>4, <1>5, <1>6 DEF ListInv
(***************************************************************************)
(* What free_node_later and the reclamation behind it do, scheme by        *)
(* scheme.                                                                 *)
(***************************************************************************)
\* free_node_later returns to delete; the scheme may free what is nobody's.
LEMMA RetireAwayInv ==
  ASSUME ListInv, NEW w \in Writers, wpc[w] = "retire", GoTo(w, "unlock"),
         UNCHANGED <<memVars, lock, live, wop, wkey, wprev, wcur, wnew, searchVars>>,
         free' \subseteq Nodes, free' \cap live = {},
         \A v \in Writers : v # w => Held(v) \cap free' = {}
  PROVE  ListInv'
<1> USE DEF GoTo
<1>1. ListTypeOK'
  BY DEF ListInv, ListTypeOK, WriterPc, memVars, searchVars
<1>2. OwnsBucket'
  BY DEF ListInv, ListTypeOK, OwnsBucket, InCall, WriterBucket
<1>3. Position'
  BY DEF ListInv, ListTypeOK, Position, WellPlaced, AtPosition, Deref, Absent, WriterBucket, memVars
<1>4. ListWellFormed' /\ SeenNow'
  BY QuietList, QuietSeen DEF ListInv, memVars, searchVars
<1>5. OneRole'
  <2>1. Held(w)' = {}
    BY DEF ListInv, ListTypeOK, Held
  <2>2. \A v \in Writers : v # w => Held(v)' = Held(v)
    BY DEF ListInv, ListTypeOK, Held
  <2> QED
    BY <2>1, <2>2 DEF ListInv, OneRole
<1> QED
  BY <1>1, <1>2, <1>3, <1>4, <1>5 DEF ListInv

\* A node is freed behind the backs of insert and delete.
LEMMA FreeAwayInv ==
  ASSUME ListInv, UNCHANGED <<memVars, lock, live, writerVars, searchVars>>,
         free' \subseteq Nodes, free' \cap live = {},
         \A v \in Writers : Held(v) \cap free' = {}
  PROVE  ListInv'
<1> USE DEF writerVars
<1>1. ListTypeOK'
  BY DEF ListInv, ListTypeOK, memVars, searchVars
<1>2. OwnsBucket'
  BY DEF ListInv, OwnsBucket, InCall, WriterBucket
<1>3. Position'
  BY DEF ListInv, Position, WellPlaced, AtPosition, Deref, Absent, WriterBucket, memVars
<1>4. ListWellFormed' /\ SeenNow'
  BY QuietList, QuietSeen DEF ListInv, memVars, searchVars
<1>5. OneRole'
  <2>1. \A v \in Writers : Held(v)' = Held(v)
    BY DEF Held
  <2> QED
    BY <2>1 DEF ListInv, OneRole
<1> QED
  BY <1>1, <1>2, <1>3, <1>4, <1>5 DEF ListInv

\* GCLOCK: delete lets go of the bucket with the node still in its hands.
LEMMA EarlyUnlockInv ==
  ASSUME ListInv, ~OneWriter, NEW w \in Writers, wpc[w] = "retire", GoTo(w, "late"),
         lock' = [lock EXCEPT ![WriterBucket(w)] = NULL],
         UNCHANGED <<memVars, free, live, wop, wkey, wprev, wcur, wnew, searchVars>>
  PROVE  ListInv'
<1> USE DEF GoTo
<1>1. ListTypeOK'
  BY DEF ListInv, ListTypeOK, WriterPc, memVars, searchVars
<1>2. OwnsBucket'
  <2>1. \A v \in Writers : WriterBucket(v)' = WriterBucket(v)
    BY DEF WriterBucket
  <2>2. \A v \in Writers : InCall(v)' => v # w /\ InCall(v)
    BY DEF ListInv, ListTypeOK, InCall
  <2>3. \A v \in Writers : v # w /\ InCall(v) => WriterBucket(v) # WriterBucket(w)
    BY OneInBucket DEF ListInv, InCall
  <2>4. \A v \in Writers : wpc'[v] # "idle" => wkey'[v] \in Keys
    BY DEF ListInv, ListTypeOK, OwnsBucket
  <2> QED
    BY <2>1, <2>2, <2>3, <2>4 DEF ListInv, ListTypeOK, OwnsBucket
<1>3. Position'
  BY DEF ListInv, ListTypeOK, Position, WellPlaced, AtPosition, Deref, Absent, WriterBucket, memVars
<1>4. ListWellFormed' /\ SeenNow'
  BY QuietList, QuietSeen DEF ListInv, memVars, searchVars
<1>5. OneRole'
  <2>1. \A v \in Writers : Held(v)' = Held(v)
    BY DEF ListInv, ListTypeOK, Held
  <2> QED
    BY <2>1 DEF ListInv, OneRole
<1> QED
  BY <1>1, <1>2, <1>3, <1>4, <1>5 DEF ListInv

\* GCLOCK: free_node outside the lock, and delete returns.
LEMMA LateFreeInv ==
  ASSUME ListInv, NEW w \in Writers, wpc[w] = "late", GoTo(w, "idle"),
         free' = free \cup {wcur[w]},
         wop' = [wop EXCEPT ![w] = "insert"], wkey' = [wkey EXCEPT ![w] = NULL],
         wprev' = [wprev EXCEPT ![w] = NULL], wcur' = [wcur EXCEPT ![w] = NULL],
         UNCHANGED <<memVars, lock, live, wnew, searchVars>>
  PROVE  ListInv'
<1> USE DEF GoTo
<1>1. ListTypeOK'
  BY DEF ListInv, ListTypeOK, Position, WellPlaced, NodePtr, WriterPc, memVars, searchVars
<1>2. OwnsBucket'
  BY DEF ListInv, ListTypeOK, OwnsBucket, InCall, WriterBucket
<1>3. Position'
  BY DEF ListInv, ListTypeOK, Position, WellPlaced, AtPosition, Deref, Absent, WriterBucket, memVars
<1>4. ListWellFormed' /\ SeenNow'
  BY QuietList, QuietSeen DEF ListInv, memVars, searchVars
<1>5. OneRole'
  <2>1. Held(w) = {wcur[w]} /\ Held(w)' = {}
    BY DEF ListInv, ListTypeOK, Held
  <2>2. \A v \in Writers : v # w => Held(v)' = Held(v)
    BY DEF ListInv, ListTypeOK, Held
  <2> QED
    BY <2>1, <2>2 DEF ListInv, OneRole
<1> QED
  BY <1>1, <1>2, <1>3, <1>4, <1>5 DEF ListInv

(***************************************************************************)
(* A node that was given to the scheme, neither linked nor free nor in the *)
(* hands of the call that takes a step, is left alone by that step.        *)
(***************************************************************************)
LEMMA ApartStable ==
  ASSUME ListInv, NEW w \in Writers,
         WriterStep(w) \/ \E op \in {"insert", "delete"}, k \in Keys : BeginCall(w, op, k)
  PROVE  /\ \A n \in Nodes : n \notin live \cup free \cup Held(w) =>
              /\ n \notin live' \cup free' \cup Held(w)'
              /\ key'[n] = key[n] /\ next'[n] = next[n]
         /\ \A v \in Writers : v # w => Held(v)' = Held(v)
<1> USE DEF GoTo
<1>0. \A v \in Writers : v # w => Held(v)' = Held(v)
  <2>1. CASE Unlink(w) \/ Link(w) \/ SetKey(w) \/ SetNext(w) \/ NewNode(w)
    BY <2>1 DEF Unlink, Link, SetKey, SetNext, NewNode, ListInv, ListTypeOK, Held
  <2>2. CASE LockW(w) \/ Step(w) \/ Miss(w) \/ FreeNode(w) \/ UnlockW(w)
    BY <2>2 DEF LockW, Step, Miss, FreeNode, UnlockW, ListInv, ListTypeOK, Held
  <2>3. CASE \E op \in {"insert", "delete"}, k \in Keys : BeginCall(w, op, k)
    BY <2>3 DEF BeginCall, ListInv, ListTypeOK, Held
  <2> QED
    BY <2>1, <2>2, <2>3 DEF WriterStep
<1>1. CASE Unlink(w)
  <2>1. /\ wkey[w] \in Keys /\ AtPosition(w) /\ wcur[w] \in live /\ wcur[w] \in Nodes
        /\ next[wcur[w]] \in NodePtr
    BY <1>1, CurLive DEF Unlink, Found, ListInv, ListTypeOK, OwnsBucket, Position, WellPlaced
  <2>2. \A n \in Nodes : n \notin live => next'[n] = next[n]
    BY <1>1, <2>1, StoreKeepsOthers DEF Unlink
  <2>3. Held(w)' = {wcur[w]}
    BY <1>1 DEF Unlink, Held, ListInv, ListTypeOK
  <2>4. key' = key /\ live' = live \ {wcur[w]} /\ free' = free
    BY <1>1 DEF Unlink
  <2> QED
    BY <1>0, <2>1, <2>2, <2>3, <2>4
<1>2. CASE Link(w)
  <2>1. wkey[w] \in Keys /\ AtPosition(w) /\ wnew[w] \in NodePtr
    BY <1>2 DEF Link, ListInv, ListTypeOK, OwnsBucket, Position, WellPlaced, NodePtr
  <2>2. \A n \in Nodes : n \notin live => next'[n] = next[n]
    BY <1>2, <2>1, StoreKeepsOthers DEF Link
  <2>3. Held(w)' = {} /\ Held(w) = {wnew[w]}
    BY <1>2 DEF Link, Held, ListInv, ListTypeOK
  <2>4. key' = key /\ live' = live \cup {wnew[w]} /\ free' = free
    BY <1>2 DEF Link
  <2> QED
    BY <1>0, <2>2, <2>3, <2>4
<1>3. CASE SetKey(w) \/ SetNext(w)
  <2>1. Held(w) = {wnew[w]} /\ Held(w)' = {wnew[w]}
    BY <1>3 DEF SetKey, SetNext, Held, ListInv, ListTypeOK
  <2>2. \A n \in Nodes : n # wnew[w] => key'[n] = key[n] /\ next'[n] = next[n]
    BY <1>3 DEF SetKey, SetNext, ListInv, ListTypeOK
  <2>3. UNCHANGED <<live, free>>
    BY <1>3 DEF SetKey, SetNext
  <2> QED
    BY <1>0, <2>1, <2>2, <2>3
<1>4. CASE NewNode(w)
  <2>1. PICK m \in free : free' = free \ {m} /\ wnew' = [wnew EXCEPT ![w] = m]
    BY <1>4 DEF NewNode
  <2>2. Held(w)' = {m}
    BY <1>4, <2>1 DEF NewNode, ListInv, ListTypeOK, Held
  <2>3. UNCHANGED <<live, key, next>>
    BY <1>4 DEF NewNode, memVars
  <2> QED
    BY <1>0, <2>1, <2>2, <2>3
<1>5. CASE FreeNode(w)
  <2>1. Held(w) = {wcur[w]} /\ Held(w)' = {}
    BY <1>5 DEF FreeNode, ListInv, ListTypeOK, Held
  <2> QED
    BY <1>0, <1>5, <2>1 DEF FreeNode, memVars
<1>6. CASE LockW(w) \/ Step(w) \/ Miss(w) \/ UnlockW(w)
  <2>1. Held(w)' = {}
    BY <1>6 DEF LockW, Step, Miss, UnlockW, ListInv, ListTypeOK, Held
  <2> QED
    BY <1>0, <1>6, <2>1 DEF LockW, Step, Miss, UnlockW, memVars
<1>7. CASE \E op \in {"insert", "delete"}, k \in Keys : BeginCall(w, op, k)
  <2>1. Held(w)' = {}
    BY <1>7 DEF BeginCall, ListInv, ListTypeOK, Held
  <2> QED
    BY <1>0, <1>7, <2>1 DEF BeginCall, memVars
<1> QED
  BY <1>1, <1>2, <1>3, <1>4, <1>5, <1>6, <1>7 DEF WriterStep

(***************************************************************************)
(* What a reader may count on while insert and delete go on: a node that   *)
(* is not yet freed keeps its key and stays unfreed up to free_node_later, *)
(* and the answers a search has collected remain.                          *)
(***************************************************************************)
LEMMA WriterStable ==
  ASSUME ListInv, NEW w \in Writers,
         WriterStep(w) \/ \E op \in {"insert", "delete"}, k \in Keys : BeginCall(w, op, k)
  PROVE  /\ \A n \in Nodes : Unfreed(n) => Unfreed(n)' /\ key'[n] = key[n]
         /\ \A r \in Readers : seen[r] \subseteq seen'[r]
         /\ UNCHANGED <<want, ret>>
<1>1. CASE Unlink(w)
  <2>1. UNCHANGED <<key, want, ret>>
    BY <1>1 DEF Unlink
  <2>2. \A r \in Readers : seen[r] \subseteq seen'[r]
    BY <1>1 DEF Unlink, Observe
  <2>3. \A n \in Nodes : Unfreed(n) => Unfreed(n)'
    <3>1. wpc'[w] = "retire" /\ wcur' = wcur /\ live' = live \ {wcur[w]}
      BY <1>1 DEF Unlink, GoTo, ListInv, ListTypeOK
    <3>2. \A v \in Writers : wpc[v] = "retire" => wpc'[v] = "retire"
      BY <1>1 DEF Unlink, GoTo, ListInv, ListTypeOK
    <3> QED
      BY <3>1, <3>2 DEF Unfreed
  <2> QED
    BY <2>1, <2>2, <2>3
<1>2. CASE Link(w)
  <2>1. UNCHANGED <<key, want, ret>>
    BY <1>2 DEF Link
  <2>2. \A r \in Readers : seen[r] \subseteq seen'[r]
    BY <1>2 DEF Link, Observe
  <2>3. \A n \in Nodes : Unfreed(n) => Unfreed(n)'
    BY <1>2 DEF Link, GoTo, ListInv, ListTypeOK, Unfreed
  <2> QED
    BY <2>1, <2>2, <2>3
<1>3. CASE SetKey(w)
  <2>1. UNCHANGED <<live, searchVars, wcur>>
    BY <1>3 DEF SetKey
  <2>2. \A v \in Writers : wpc[v] = "retire" <=> wpc'[v] = "retire"
    BY <1>3 DEF SetKey, GoTo, ListInv, ListTypeOK
  <2>3. \A n \in Nodes : Unfreed(n) => n # wnew[w]
    BY <1>3, NewIsPrivate DEF SetKey, Unfreed
  <2> QED
    BY <1>3, <2>1, <2>2, <2>3 DEF SetKey, Unfreed, searchVars, ListInv, ListTypeOK
<1>4. CASE LockW(w) \/ Step(w) \/ UnlockW(w)
  <2>1. UNCHANGED <<live, key, searchVars>>
    BY <1>4 DEF LockW, Step, UnlockW, memVars
  <2>2. \A v \in Writers : wpc[v] = "retire" => wpc'[v] = "retire" /\ wcur'[v] = wcur[v]
    BY <1>4 DEF LockW, Step, UnlockW, GoTo, ListInv, ListTypeOK
  <2> QED
    BY <2>1, <2>2 DEF Unfreed, searchVars
<1>5. CASE \/ Miss(w) \/ FreeNode(w) \/ NewNode(w) \/ SetNext(w)
           \/ \E op \in {"insert", "delete"}, k \in Keys : BeginCall(w, op, k)
  <2>1. UNCHANGED <<live, key, searchVars, wcur>>
    BY <1>5 DEF Miss, FreeNode, NewNode, SetNext, BeginCall, memVars
  <2>2. \A v \in Writers : wpc[v] = "retire" => wpc'[v] = "retire"
    BY <1>5 DEF Miss, FreeNode, NewNode, SetNext, BeginCall, GoTo, ListInv, ListTypeOK
  <2> QED
    BY <2>1, <2>2 DEF Unfreed, searchVars
<1> QED
  BY <1>1, <1>2, <1>3, <1>4, <1>5 DEF WriterStep
(***************************************************************************)
(* What an open search may conclude from what it finds in the list.        *)
(***************************************************************************)
\* A head that is empty or beyond the key shows that the key is not there now.
LEMMA HeadAnswers ==
  ASSUME ListInv, NEW r \in Readers, want[r] \in Keys
  PROVE  LET h == head[BucketOf(want[r])] IN
           /\ h = NULL => 0 \in seen[r]
           /\ h # NULL => /\ h \in live
                          /\ BucketOf(key[h]) = BucketOf(want[r])
                          /\ key[h] = want[r] => 1 \in seen[r]
                          /\ key[h] > want[r] => 0 \in seen[r]
<1>1. want[r] # NULL /\ want[r] \in Nat /\ BucketOf(want[r]) \in Buckets
  BY BucketRange, HashListAssumption
<1>2. want[r] \in Members => 1 \in seen[r]
  BY <1>1 DEF ListInv, SeenNow, Answer
<1>3. want[r] \notin Members => 0 \in seen[r]
  BY <1>1 DEF ListInv, SeenNow, Answer
<1>4. want[r] \in Members => LET h == head[BucketOf(want[r])] IN h # NULL /\ key[h] <= want[r]
  BY <1>1 DEF Members, ListInv, ListWellFormed, NoneSkipped
<1>5. ASSUME head[BucketOf(want[r])] # NULL
      PROVE  LET h == head[BucketOf(want[r])] IN
               h \in live /\ BucketOf(key[h]) = BucketOf(want[r]) /\ key[h] \in Nat
  BY <1>1, <1>5 DEF ListInv, ListTypeOK, ListWellFormed, HeadsLive
<1>6. \A n \in live : key[n] \in Members
  BY DEF Members
<1> QED
  BY <1>1, <1>2, <1>3, <1>4, <1>5, <1>6

\* So does what follows an unfreed node before the key, linked or not: a node
\* that was unlinked still leads to where the node before it leads now.
LEMMA NextAnswers ==
  ASSUME ListInv, NEW r \in Readers, want[r] \in Keys,
         NEW c \in Nodes, Unfreed(c), BucketOf(key[c]) = BucketOf(want[r]), key[c] < want[r]
  PROVE  /\ next[c] = NULL => 0 \in seen[r]
         /\ next[c] # NULL => /\ next[c] \in live
                              /\ BucketOf(key[next[c]]) = BucketOf(want[r])
                              /\ key[c] < key[next[c]]
                              /\ key[next[c]] = want[r] => 1 \in seen[r]
                              /\ key[next[c]] > want[r] => 0 \in seen[r]
<1>1. want[r] # NULL /\ want[r] \in Nat /\ BucketOf(want[r]) \in Buckets /\ key[c] \in Nat
  BY BucketRange, HashListAssumption DEF ListInv, ListTypeOK
<1>2. want[r] \in Members => 1 \in seen[r]
  BY <1>1 DEF ListInv, SeenNow, Answer
<1>3. want[r] \notin Members => 0 \in seen[r]
  BY <1>1 DEF ListInv, SeenNow, Answer
<1>4. \A n \in live : key[n] \in Members /\ key[n] \in Nat
  BY DEF Members, ListInv, ListTypeOK
<1>5. CASE c \in live
  <2>1. want[r] \in Members => next[c] # NULL /\ key[next[c]] <= want[r]
    BY <1>5 DEF Members, ListInv, ListWellFormed, NoneSkipped, SameBucket
  <2>2. next[c] # NULL => next[c] \in live /\ BucketOf(key[next[c]]) = BucketOf(want[r]) /\ key[c] < key[next[c]]
    BY <1>5 DEF ListInv, ListWellFormed, NextLive, SameBucket
  <2> QED
    BY <1>1, <1>2, <1>3, <1>4, <2>1, <2>2
<1>6. ASSUME NEW w \in Writers, wpc[w] = "retire", wcur[w] = c
      PROVE  /\ want[r] \in Members => next[c] # NULL /\ key[next[c]] <= want[r]
             /\ next[c] # NULL => next[c] \in live /\ BucketOf(key[next[c]]) = BucketOf(want[r]) /\ key[c] < key[next[c]]
  <2>1. /\ AtPosition(w) /\ key[c] = wkey[w]
        /\ next[c] = Deref(WriterBucket(w), wprev[w])
        /\ next[c] # NULL => key[c] < key[next[c]]
    BY <1>1, <1>6, HashListAssumption DEF ListInv, OwnsBucket, Position, WellPlaced
  <2>2. WriterBucket(w) = BucketOf(want[r])
    BY <2>1 DEF WriterBucket
  <2>3. CASE wprev[w] = NULL
    <3>1. next[c] = head[BucketOf(want[r])]
      BY <2>1, <2>2, <2>3 DEF Deref
    <3>2. want[r] \in Members => next[c] # NULL /\ key[next[c]] <= want[r]
      BY <3>1 DEF Members, ListInv, ListWellFormed, NoneSkipped
    <3>3. next[c] # NULL => next[c] \in live /\ BucketOf(key[next[c]]) = BucketOf(want[r])
      BY <1>1, <3>1 DEF ListInv, ListWellFormed, HeadsLive
    <3> QED
      BY <2>1, <3>2, <3>3
  <2>4. CASE wprev[w] # NULL
    <3>1. /\ next[c] = next[wprev[w]] /\ wprev[w] \in live
          /\ BucketOf(key[wprev[w]]) = BucketOf(want[r]) /\ key[wprev[w]] < key[c]
      BY <2>1, <2>2, <2>4 DEF Deref, AtPosition
    <3>2. key[wprev[w]] < want[r]
      BY <1>1, <1>4, <3>1
    <3>3. want[r] \in Members => next[c] # NULL /\ key[next[c]] <= want[r]
      BY <3>1, <3>2 DEF Members, ListInv, ListWellFormed, NoneSkipped, SameBucket
    <3>4. next[c] # NULL => next[c] \in live /\ BucketOf(key[next[c]]) = BucketOf(want[r])
      BY <3>1 DEF ListInv, ListWellFormed, NextLive, SameBucket
    <3> QED
      BY <2>1, <3>3, <3>4
  <2> QED
    BY <2>3, <2>4
<1>7. CASE c \notin live
  <2>1. /\ want[r] \in Members => next[c] # NULL /\ key[next[c]] <= want[r]
        /\ next[c] # NULL => next[c] \in live /\ BucketOf(key[next[c]]) = BucketOf(want[r]) /\ key[c] < key[next[c]]
    BY <1>6, <1>7 DEF Unfreed
  <2> QED
    BY <1>1, <1>2, <1>3, <1>4, <2>1
<1> QED
  BY <1>5, <1>7
(***************************************************************************)
(* The table as a set: unlinking deletes, linking inserts, nothing else    *)
(* that insert and delete do changes it.                                   *)
(***************************************************************************)
LEMMA SetInit == ListInit => Set!Init
BY DEF ListInit, Members, Set!Init

\* The unlinking store is delete's step in the abstract set.
LEMMA UnlinkDeletes ==
  ASSUME ListInv, NEW w \in Writers, Unlink(w)
  PROVE  Set!Delete(wkey[w])
<1>1. wcur[w] \in live /\ key[wcur[w]] = wkey[w] /\ live' = live \ {wcur[w]} /\ key' = key
  BY CurLive DEF Unlink, Found
<1>2. Members' = Members \ {wkey[w]} /\ wkey[w] \in Members
  BY <1>1 DEF Members, ListInv, ListWellFormed, KeysUnique
<1>3. {key[n] : n \in live'} = Members \ {wkey[w]}
  BY <1>1, <1>2 DEF Members
<1> QED
  BY <1>2, <1>3 DEF Unlink, Observe, Answer, Set!Delete, Set!Become, Set!Answer

\* The linking store is insert's step in the abstract set.
LEMMA LinkInserts ==
  ASSUME ListInv, NEW w \in Writers, Link(w)
  PROVE  Set!Insert(wkey[w])
<1>1. key[wnew[w]] = wkey[w] /\ live' = live \cup {wnew[w]} /\ key' = key
  BY DEF Link, ListInv, Position, WellPlaced
<1>2. wnew[w] \notin live
  BY NewIsPrivate DEF Link
<1>3. wkey[w] \notin Members
  <2>1. KeysUnique' /\ wnew[w] \in live'
    BY <1>1, LinkKeepsList DEF ListWellFormed
  <2> QED
    BY <1>1, <1>2, <2>1 DEF Members, KeysUnique
<1>4. Members' = Members \cup {wkey[w]} /\ {key[n] : n \in live'} = Members \cup {wkey[w]}
  BY <1>1 DEF Members
<1> QED
  BY <1>3, <1>4 DEF Link, Observe, Answer, Set!Insert, Set!Become, Set!Answer

\* Every step of an updater is a step of the abstract set, or none.
LEMMA WriterRefines ==
  ASSUME ListInv, NEW w \in Writers,
         WriterStep(w) \/ \E op \in {"insert", "delete"}, k \in Keys : BeginCall(w, op, k)
  PROVE  Set!Next \/ UNCHANGED <<Members, want, seen, ret>>
<1>1. CASE Unlink(w)
  <2>1. Set!Delete(wkey[w]) /\ wkey[w] \in Keys
    BY <1>1, UnlinkDeletes DEF ListInv, OwnsBucket, Unlink
  <2> QED
    BY <2>1 DEF Set!Next
<1>2. CASE Link(w)
  <2>1. Set!Insert(wkey[w]) /\ wkey[w] \in Keys
    BY <1>2, LinkInserts DEF ListInv, OwnsBucket, Link
  <2> QED
    BY <2>1 DEF Set!Next
<1>3. CASE SetKey(w)
  <2>1. \A n \in live : key'[n] = key[n]
    BY <1>3, NewIsPrivate DEF SetKey, ListInv, ListTypeOK
  <2> QED
    BY <1>3, <2>1 DEF SetKey, Members, searchVars
<1>4. CASE ~Unlink(w) /\ ~Link(w) /\ ~SetKey(w)
  <2>1. UNCHANGED <<key, live, searchVars>>
    BY <1>4 DEF BeginCall, WriterStep, LockW, Step, Miss, FreeNode, NewNode, SetNext, UnlockW, memVars
  <2> QED
    BY <2>1 DEF Members, searchVars
<1> QED
  BY <1>1, <1>2, <1>3, <1>4

\* The call of search is the abstract set's.
LEMMA CallRefines ==
  ASSUME UNCHANGED <<key, live>>, NEW r \in Readers, NEW k \in Keys, BeginSearch(r, k)
  PROVE  Set!Next
<1>1. Members' = Members
  BY DEF Members
<1>2. Set!SearchCall(r, k)
  BY <1>1 DEF BeginSearch, Answer, Set!SearchCall, Set!Answer
<1> QED
  BY <1>2 DEF Set!Next

\* A search that returns an answer it has seen returns as the abstract set's.
LEMMA ReturnRefines ==
  ASSUME UNCHANGED <<key, live>>, NEW r \in Readers, want[r] \in Keys,
         NEW x \in seen[r], EndSearch(r, x)
  PROVE  Set!Next
<1>1. Members' = Members
  BY DEF Members
<1>2. Set!SearchReturn(r)
  BY <1>1, HashListAssumption DEF EndSearch, Set!SearchReturn
<1> QED
  BY <1>2 DEF Set!Next
===============================================================================
