------------------------- MODULE HazardPointersProofs -------------------------
(***************************************************************************)
(* What the hazard pointers of list_hp.c and hp.c do guarantee, for every  *)
(* number of nodes, keys, buckets, threads and buffered stores, for every  *)
(* R, and for each kind of either barrier.                                 *)
(***************************************************************************)
EXTENDS HazardPointers, HashListProofs, FiniteSetTheorems

\* A step of an updater: of a call it is in, or the next call.
Writer(w) == UpdateStep(w) \/ (Call(w) /\ UNCHANGED <<hpVars, zombieVars, rd, sound>>)

\* A step of a reader, or of its store buffer.
Reader(r) == SearchStep(r) \/ Flush(r) \/ \E k \in Keys : SearchCall(r, k)

\* Not freed yet: linked, being deleted, or a zombie.
Kept(n) == Unfreed(n) \/ \E w \in Writers : n \in zl[w]

\* What a step of a reader leaves alone.
LEMMA ReaderQuiet ==
  ASSUME NEW r \in Readers, Reader(r)
  PROVE  /\ ReaderFrame
         /\ barrier' = barrier /\ fence' = fence
         /\ \/ UNCHANGED searchVars
            \/ \E k \in Keys : BeginSearch(r, k)
            \/ \E x \in {0, 1} : EndSearch(r, x)
<1>1. CASE ReadHead(r) \/ ReadKey(r)
  BY <1>1 DEF ReadHead, ReadKey, Visit, Return, hpVars
<1>2. CASE Protect(r) \/ CheckPrev(r) \/ ReadNext(r) \/ Flush(r)
  BY <1>2 DEF Protect, CheckPrev, CheckPrevIf, ReadNext, Flush, hpVars
<1>3. CASE \E k \in Keys : SearchCall(r, k)
  BY <1>3 DEF SearchCall, hpVars
<1> QED
  BY <1>1, <1>2, <1>3 DEF Reader, SearchStep

\* The node a delete is about to retire, or has just put on its list.
LEMMA RetiredNode ==
  ASSUME ListInv, NEW w \in Writers, wpc[w] = "retire"
  PROVE  wcur[w] \in Nodes /\ Held(w) = {wcur[w]} /\ wcur[w] \notin live /\ wcur[w] \notin free
<1>1. wcur[w] \in Nodes
  BY DEF ListInv, Position, WellPlaced
<1>2. Held(w) = {wcur[w]}
  BY DEF Held
<1> QED
  BY <1>1, <1>2 DEF ListInv, OneRole

\* Reading a slot leaves the list alone.
LEMMA ScanSteps ==
  ASSUME NEW w \in Writers, ScanAhead(w) \/ ScanSlot(w)
  PROVE  /\ UNCHANGED <<memVars, lock, free, live, writerVars, searchVars, zl>>
         /\ \E s \in Slots : ScanNext(w, s, {s})
BY DEF ScanAhead, ScanSlot, ScanNext, listVars

\* The other steps of free_node_later, as the list sees them.
LEMMA RetireSteps ==
  ASSUME IInv, NEW w \in Writers, FreeNodeLater(w) \/ Sweep(w)
  PROVE  /\ wpc[w] = "retire" /\ RetireFrame
         /\ UNCHANGED wpc \/ GoTo(w, "unlock")
         /\ UNCHANGED free \/ (Sweep(w) /\ free' = free \cup (zl[w] \ plist[w]))
BY DEF FreeNodeLater, RetireIf, Sweep, SweepExcept, Scanning

\* The list's invariant holds whichever thread takes a step.
LEMMA ListStep ==
  ASSUME IInv, Next
  PROVE  ListInv'
<1>0. ListInv /\ ListTypeOK /\ OneRole
  BY DEF IInv, ListInv
<1>1. ASSUME NEW w \in Writers, FreeNodeLater(w) \/ Sweep(w) PROVE ListInv'
  <2>1. /\ free' \subseteq Nodes /\ free' \cap live = {}
        /\ \A v \in Writers : v # w => Held(v) \cap free' = {}
        /\ wpc' = wpc => Held(w) \cap free' = {}
    <3>1. CASE UNCHANGED free
      BY <1>0, <3>1 DEF ListTypeOK, OneRole
    <3>2. CASE Sweep(w) /\ free' = free \cup (zl[w] \ plist[w])
      <4>1. wpc' # wpc
        BY <1>0, <3>2 DEF Sweep, SweepExcept, Scanning, GoTo, ListTypeOK
      <4>2. /\ zl[w] \subseteq Nodes /\ zl[w] \cap live = {}
            /\ \A v \in Writers : v # w => zl[w] \cap Held(v) = {}
        BY DEF IInv, TypeOK, ZombiesApart
      <4> QED
        BY <1>0, <3>2, <4>1, <4>2 DEF ListTypeOK, OneRole
    <3> QED
      BY <1>1, <3>1, <3>2, RetireSteps
  <2>2. CASE UNCHANGED wpc
    BY <1>0, <1>1, <2>1, <2>2, RetireSteps, FreeAwayInv DEF RetireFrame, writerVars
  <2>3. CASE GoTo(w, "unlock")
    BY <1>0, <1>1, <2>1, <2>3, RetireSteps, RetireAwayInv DEF RetireFrame
  <2> QED
    BY <1>1, <2>2, <2>3, RetireSteps
<1>2. ASSUME NEW w \in Writers, Writer(w) PROVE ListInv'
  <2>1. CASE WriterStep(w)
    BY <1>0, <2>1, WriterStepInv
  <2>2. CASE Call(w)
    BY <1>0, <2>2, CallInv DEF Call, InsertCall, DeleteCall
  <2>3. CASE ScanAhead(w) \/ ScanSlot(w)
    <3>1. UNCHANGED <<memVars, lock, free, live, writerVars, searchVars>>
      BY <2>3, ScanSteps
    <3>2. free \subseteq Nodes /\ free \cap live = {} /\ \A v \in Writers : Held(v) \cap free = {}
      BY <1>0 DEF ListTypeOK, OneRole
    <3> QED
      BY <1>0, <3>1, <3>2, FreeAwayInv
  <2> QED
    BY <1>1, <1>2, <2>1, <2>2, <2>3 DEF Writer, UpdateStep
<1>3. ASSUME NEW r \in Readers, Reader(r) PROVE ListInv'
  BY <1>0, <1>3, ReaderQuiet, SearchInv DEF ReaderFrame
<1> QED
  BY <1>2, <1>3 DEF Next, Writer, Reader

\* The bucket an open search is in.
LEMMA ReaderBucket ==
  ASSUME IInv, NEW r \in Readers, rd[r].pc # "idle"
  PROVE  want[r] \in Keys /\ want[r] \in Nat /\ Bucket(r) \in Buckets
BY BucketRange, HashListAssumption
   DEF IInv, TypeOK, ListTypeOK, SearchInvariant, Stored, Bucket

\* The locals of a reader.
LEMMA ReaderTypes ==
  ASSUME TypeOK, NEW r \in Readers
  PROVE  /\ rd[r].pc \in {"idle", "head", "set", "check", "next", "key"}
         /\ rd[r].prev \in NodePtr /\ rd[r].cur \in NodePtr /\ rd[r].nxt \in NodePtr
         /\ rd[r].off \in {0, 1}
         /\ Slot(r) \in Slots /\ PrevSlot(r) \in Slots /\ Slot(r) # PrevSlot(r)
         /\ buf[r] \in Seq({0, 1} \X Nodes) /\ Len(buf[r]) \in Nat
<1>1. rd[r] \in ReaderState
  BY DEF TypeOK
<1>2. rd[r].off \in {0, 1}
  BY <1>1 DEF ReaderState
<1>3. buf[r] \in Seq({0, 1} \X Nodes)
  BY DEF TypeOK
<1>4. Slot(r) \in Slots /\ PrevSlot(r) \in Slots /\ Slot(r) # PrevSlot(r)
  BY <1>2 DEF Slot, PrevSlot, Slots
<1> QED
  BY <1>1, <1>2, <1>3, <1>4 DEF ReaderState

\* Every step of an updater keeps the types.
LEMMA WriterTypes ==
  ASSUME IInv, NEW w \in Writers, Writer(w), ListTypeOK'
  PROVE  /\ UNCHANGED <<barrier, fence, HP, buf, rd, sound>>
         /\ zl' \in [Writers -> SUBSET Nodes]
         /\ left' \in [Writers -> SUBSET Slots]
         /\ plist' \in [Writers -> SUBSET Nodes]
<1>0. TypeOK
  BY DEF IInv
<1>1. UNCHANGED <<barrier, fence, HP, buf, rd, sound>>
  BY DEF Writer, UpdateStep, hpVars
<1>2. CASE UNCHANGED zombieVars
  BY <1>0, <1>1, <1>2 DEF TypeOK, zombieVars
<1>3. CASE FreeNodeLater(w)
  <2>1. wcur[w] \in Nodes
    BY <1>3, RetiredNode DEF FreeNodeLater, RetireIf, IInv
  <2> QED
    BY <1>0, <1>1, <1>3, <2>1 DEF FreeNodeLater, RetireIf, TypeOK
<1>4. CASE ScanAhead(w) \/ ScanSlot(w)
  <2>1. PICK s \in Slots : ScanNext(w, s, {s})
    BY <1>4, ScanSteps
  <2>2. {HP[s]} \ {NULL} \subseteq Nodes
    BY <1>0 DEF TypeOK, NodePtr
  <2> QED
    BY <1>0, <1>1, <2>1, <2>2 DEF ScanNext, TypeOK
<1>5. CASE Sweep(w)
  BY <1>0, <1>1, <1>5 DEF Sweep, SweepExcept, TypeOK
<1> QED
  BY <1>2, <1>3, <1>4, <1>5 DEF Writer, UpdateStep, zombieVars

\* A buffer that is not empty begins with a store to one of the two slots.
LEMMA BufferHead ==
  ASSUME TypeOK, NEW r \in Readers, buf[r] # <<>>
  PROVE  /\ Head(buf[r])[1] \in {0, 1} /\ Head(buf[r])[2] \in Nodes
         /\ <<r, Head(buf[r])[1]>> \in Slots
         /\ Tail(buf[r]) \in Seq({0, 1} \X Nodes) /\ Len(Tail(buf[r])) = Len(buf[r]) - 1
         /\ Len(buf[r]) > 0 /\ Head(buf[r]) = buf[r][1]
         /\ Len(buf[r]) > 1 => Tail(buf[r])[Len(Tail(buf[r]))] = buf[r][Len(buf[r])]
<1>1. buf[r] \in Seq({0, 1} \X Nodes)
  BY DEF TypeOK
<1>2. Head(buf[r]) \in {0, 1} \X Nodes
  BY <1>1
<1>3. Head(buf[r])[1] \in {0, 1} /\ Head(buf[r])[2] \in Nodes
  BY <1>2
<1>4. /\ Tail(buf[r]) \in Seq({0, 1} \X Nodes) /\ Len(Tail(buf[r])) = Len(buf[r]) - 1
      /\ Len(buf[r]) \in Nat /\ Len(buf[r]) > 0 /\ Head(buf[r]) = buf[r][1]
  BY <1>1
<1>5. Len(buf[r]) > 1 => Tail(buf[r])[Len(Tail(buf[r]))] = buf[r][Len(buf[r])]
  BY <1>1, <1>4
<1> QED
  BY <1>3, <1>4, <1>5 DEF Slots

\* Every step of a reader keeps the types.
LEMMA ReaderTypeStep ==
  ASSUME IInv, NEW r \in Readers, Reader(r)
  PROVE  /\ HP' \in [Slots -> NodePtr] /\ buf' \in [Readers -> Seq({0, 1} \X Nodes)]
         /\ rd' \in [Readers -> ReaderState] /\ sound' \in [Readers -> BOOLEAN]
<1>0. TypeOK /\ HP \in [Slots -> NodePtr] /\ buf \in [Readers -> Seq({0, 1} \X Nodes)]
  BY DEF IInv, TypeOK
<1>1. rd \in [Readers -> ReaderState] /\ sound \in [Readers -> BOOLEAN]
  BY DEF IInv, TypeOK
<1>2. ASSUME NEW state \in ReaderState, Become(r, state) PROVE rd' \in [Readers -> ReaderState]
  BY <1>1, <1>2 DEF Become
<1>3. AtRest \in ReaderState
  BY DEF AtRest, ReaderState, NodePtr
<1>4. ASSUME NEW x, Return(r, x) PROVE rd' \in [Readers -> ReaderState]
  BY <1>2, <1>3, <1>4 DEF Return
<1>5. CASE \E k \in Keys : SearchCall(r, k)
  <2>1. [AtRest EXCEPT !.pc = "head"] \in ReaderState
    BY <1>3 DEF ReaderState
  <2> QED
    BY <1>0, <1>1, <1>2, <1>5, <2>1 DEF SearchCall, hpVars
<1>6. CASE ReadHead(r)
  <2>1. head[Bucket(r)] \in NodePtr
    BY <1>6, ReaderBucket DEF ReadHead, IInv, TypeOK, ListTypeOK
  <2>2. [AtRest EXCEPT !.pc = "set", !.cur = head[Bucket(r)], !.off = rd[r].off] \in ReaderState
    BY <1>0, <1>3, <2>1, ReaderTypes DEF ReaderState
  <2>3. rd' \in [Readers -> ReaderState]
    BY <1>2, <1>4, <1>6, <2>2 DEF ReadHead, Visit
  <2> QED
    BY <1>0, <1>1, <1>6, <2>3 DEF ReadHead, hpVars
<1>7. CASE Protect(r)
  <2>1. [rd[r] EXCEPT !.pc = "check"] \in ReaderState
    BY <1>1 DEF ReaderState
  <2>2. rd[r].off \in {0, 1} /\ rd[r].cur \in Nodes
    BY <1>0, <1>7, ReaderTypes DEF Protect, IInv, SearchInvariant, Stored, NodePtr
  <2>3. Append(buf[r], <<rd[r].off, rd[r].cur>>) \in Seq({0, 1} \X Nodes)
    BY <1>0, <2>2
  <2> QED
    BY <1>0, <1>1, <1>2, <1>7, <2>1, <2>3 DEF Protect
<1>8. CASE Flush(r)
  BY <1>0, <1>1, <1>8, BufferHead DEF Flush, NodePtr
<1>9. CASE CheckPrev(r)
  <2>1. \A p \in {"next", "head"} : [rd[r] EXCEPT !.pc = p] \in ReaderState
    BY <1>1 DEF ReaderState
  <2>2. rd' \in [Readers -> ReaderState]
    BY <1>2, <1>9, <2>1 DEF CheckPrev, CheckPrevIf
  <2> QED
    BY <1>0, <1>1, <1>9, <2>2 DEF CheckPrev, CheckPrevIf, hpVars
<1>10. CASE ReadNext(r)
  <2>1. next[rd[r].cur] \in NodePtr
    BY <1>0, <1>10, ReaderTypes DEF ReadNext, IInv, SearchInvariant, Stored, NodePtr, TypeOK, ListTypeOK
  <2>2. [rd[r] EXCEPT !.pc = "key", !.nxt = next[rd[r].cur]] \in ReaderState
    BY <1>1, <2>1 DEF ReaderState
  <2> QED
    BY <1>0, <1>1, <1>2, <1>10, <2>2 DEF ReadNext, hpVars
<1>11. CASE ReadKey(r)
  <2>1. [pc |-> "set", prev |-> rd[r].cur, cur |-> rd[r].nxt, nxt |-> NULL, off |-> 1 - rd[r].off]
          \in ReaderState
    BY <1>0, ReaderTypes DEF ReaderState, NodePtr
  <2>2. rd' \in [Readers -> ReaderState]
    BY <1>2, <1>4, <1>11, <2>1 DEF ReadKey, Visit
  <2> QED
    BY <1>0, <1>1, <1>11, <2>2 DEF ReadKey, hpVars
<1> QED
  BY <1>5, <1>6, <1>7, <1>8, <1>9, <1>10, <1>11 DEF Reader, SearchStep

\* Every step keeps the types.
LEMMA TypeStep ==
  ASSUME IInv, Next
  PROVE  TypeOK'
<1>1. ListTypeOK' /\ TypeOK
  BY ListStep DEF IInv, ListInv
<1>2. firm' \subseteq Slots
  BY DEF Next, Remember
<1>3. ASSUME NEW w \in Writers, Writer(w) PROVE TypeOK'
  BY <1>1, <1>2, <1>3, WriterTypes DEF TypeOK
<1>4. ASSUME NEW r \in Readers, Reader(r) PROVE TypeOK'
  <2>1. UNCHANGED <<barrier, fence, zl, left, plist>>
    BY <1>4, ReaderQuiet DEF ReaderFrame, zombieVars
  <2> QED
    BY <1>1, <1>2, <1>4, <2>1, ReaderTypeStep DEF TypeOK
<1> QED
  BY <1>3, <1>4 DEF Next, Writer, Reader

(***************************************************************************)
(* The updaters                                                            *)
(***************************************************************************)
\* A zombie is not in the hands of the call that takes a step, unless that
\* call is in free_node_later.
LEMMA ZombieApart ==
  ASSUME IInv, NEW w \in Writers, WriterStep(w) \/ Call(w), NEW v \in Writers, NEW n \in zl[v]
  PROVE  n \in Nodes /\ n \notin live \cup free \cup Held(w)
<1>1. wpc[w] # "retire"
  BY DEF WriterStep, Call, InsertCall, DeleteCall, BeginCall, LockW, Step, Miss, Unlink,
         FreeNode, NewNode, SetKey, SetNext, Link, UnlockW
<1> QED
  BY <1>1 DEF IInv, TypeOK, ZombiesApart

\* The updaters that do not take the step stay where they are.
LEMMA OtherWriters ==
  ASSUME IInv, NEW w \in Writers, Writer(w), NEW v \in Writers, v # w
  PROVE  /\ wpc'[v] = wpc[v] /\ wcur'[v] = wcur[v] /\ Held(v)' = Held(v)
         /\ zl'[v] = zl[v] /\ left'[v] = left[v] /\ plist'[v] = plist[v]
         /\ Scanning(v)' <=> Scanning(v)
<1>0. TypeOK /\ ListTypeOK
  BY DEF IInv, TypeOK
<1>1. CASE (WriterStep(w) \/ Call(w)) /\ UNCHANGED zombieVars
  <2>1. CASE WriterStep(w)
    <3>1. wpc'[v] = wpc[v] /\ wcur'[v] = wcur[v] /\ wnew'[v] = wnew[v]
      BY <1>0, <2>1 DEF WriterStep, LockW, Step, Miss, Unlink, FreeNode, NewNode, SetKey,
                       SetNext, Link, UnlockW, GoTo, ListTypeOK
    <3> QED
      BY <1>1, <3>1 DEF Held, Scanning, zombieVars
  <2>2. CASE Call(w)
    <3>1. wpc'[v] = wpc[v] /\ wcur'[v] = wcur[v] /\ wnew'[v] = wnew[v]
      BY <1>0, <2>2 DEF Call, InsertCall, DeleteCall, BeginCall, GoTo, ListTypeOK
    <3> QED
      BY <1>1, <3>1 DEF Held, Scanning, zombieVars
  <2> QED
    BY <1>1, <2>1, <2>2
<1>2. CASE FreeNodeLater(w) \/ Sweep(w)
  <2>1. wpc'[v] = wpc[v] /\ wcur'[v] = wcur[v] /\ wnew'[v] = wnew[v]
    BY <1>0, <1>2, RetireSteps DEF RetireFrame, GoTo, ListTypeOK
  <2>2. zl'[v] = zl[v] /\ left'[v] = left[v] /\ plist'[v] = plist[v]
    BY <1>0, <1>2 DEF FreeNodeLater, RetireIf, Sweep, SweepExcept, TypeOK
  <2> QED
    BY <2>1, <2>2 DEF Held, Scanning
<1>3. CASE ScanAhead(w) \/ ScanSlot(w)
  <2>1. UNCHANGED <<writerVars, zl>>
    BY <1>3, ScanSteps
  <2>2. left'[v] = left[v] /\ plist'[v] = plist[v]
    BY <1>0, <1>3, ScanSteps DEF ScanNext, TypeOK
  <2> QED
    BY <2>1, <2>2 DEF Held, Scanning, writerVars
<1> QED
  BY <1>1, <1>2, <1>3 DEF Writer, UpdateStep, zombieVars

\* What an updater does to a node that is not freed yet.
LEMMA WriterNode ==
  ASSUME IInv, NEW w \in Writers, Writer(w), NEW n \in Nodes, Kept(n)
  PROVE  /\ key'[n] = key[n]
         /\ ~Unfreed(n) => next'[n] = next[n] /\ ~Unfreed(n)'
         /\ Unfreed(n) /\ ~Unfreed(n)' => UNCHANGED <<memVars, searchVars>>
<1>1. CASE WriterStep(w) \/ Call(w)
  <2>1. Unfreed(n) => Unfreed(n)' /\ key'[n] = key[n]
    BY <1>1, WriterStable DEF IInv, Call, InsertCall, DeleteCall
  <2>2. ASSUME ~Unfreed(n) PROVE key'[n] = key[n] /\ next'[n] = next[n] /\ ~Unfreed(n)'
    <3>1. n \notin live \cup free \cup Held(w)
      BY <1>1, <2>2, ZombieApart DEF Kept
    <3>2. /\ n \notin live' \cup free' \cup Held(w)' /\ key'[n] = key[n] /\ next'[n] = next[n]
          /\ \A v \in Writers : v # w => Held(v)' = Held(v)
      BY <1>1, <3>1, ApartStable DEF IInv, Call, InsertCall, DeleteCall
    <3>3. ASSUME NEW v \in Writers, wpc'[v] = "retire", wcur'[v] = n PROVE FALSE
      <4>1. Held(v)' = {n}
        BY <3>3 DEF Held
      <4>2. v # w /\ Held(v) = {n}
        BY <3>2, <4>1
      <4>3. wpc'[v] = wpc[v] /\ wcur'[v] = wcur[v]
        BY <4>2, OtherWriters
      <4> QED
        BY <2>2, <3>3, <4>3 DEF Unfreed
    <3> QED
      BY <3>2, <3>3 DEF Unfreed
  <2> QED
    BY <2>1, <2>2
<1>2. CASE FreeNodeLater(w) \/ Sweep(w)
  <2>1. RetireFrame /\ (UNCHANGED wpc \/ GoTo(w, "unlock"))
    BY <1>2, RetireSteps
  <2>2. \A v \in Writers : wpc'[v] = "retire" => wpc[v] = "retire"
    BY <2>1 DEF GoTo, IInv, TypeOK, ListTypeOK
  <2>3. UNCHANGED <<live, wcur, key, next>>
    BY <2>1 DEF RetireFrame, memVars
  <2>4. Unfreed(n)' => Unfreed(n)
    BY <2>2, <2>3 DEF Unfreed
  <2> QED
    BY <2>1, <2>3, <2>4 DEF RetireFrame
<1>3. CASE ScanAhead(w) \/ ScanSlot(w)
  BY <1>3, ScanSteps DEF Unfreed, memVars, writerVars
<1> QED
  BY <1>1, <1>2, <1>3 DEF Writer, UpdateStep

\* Zombies stay apart from the list, from the free nodes and from each other.
LEMMA ZombieStep ==
  ASSUME IInv, NEW w \in Writers, Writer(w)
  PROVE  ZombiesApart'
<1>0. ZombiesApart /\ OneRole /\ TypeOK /\ ListTypeOK /\ ListInv
  BY DEF IInv, ListInv, TypeOK
<1>1. CASE (WriterStep(w) \/ Call(w)) /\ UNCHANGED zombieVars
  <2>1. \A v \in Writers : \A n \in zl[v] : n \notin live' \cup free' \cup Held(w)'
    BY <1>0, <1>1, ZombieApart, ApartStable DEF Call, InsertCall, DeleteCall
  <2>2. \A v \in Writers : v # w => Held(v)' = Held(v) /\ wpc'[v] = wpc[v]
    BY OtherWriters
  <2>3. wpc'[w] # "retire" => zl[w] \cap Held(w)' = {}
    BY <2>1
  <2> QED
    BY <1>0, <1>1, <2>1, <2>2, <2>3 DEF ZombiesApart, zombieVars
<1>2. CASE FreeNodeLater(w) \/ Sweep(w)
  <2>1. /\ RetireFrame /\ (UNCHANGED wpc \/ GoTo(w, "unlock")) /\ wpc[w] = "retire"
        /\ UNCHANGED free \/ (Sweep(w) /\ free' = free \cup (zl[w] \ plist[w]))
    BY <1>2, RetireSteps
  <2>2. /\ wcur[w] \in Nodes /\ Held(w) = {wcur[w]} /\ wcur[w] \notin live /\ wcur[w] \notin free
    BY <1>0, <2>1, RetiredNode
  <2>3. /\ \A v \in Writers : v # w => Held(v)' = Held(v) /\ wpc'[v] = wpc[v]
        /\ Held(w)' = {} \/ (Held(w)' = Held(w) /\ wpc'[w] = "retire")
        /\ UNCHANGED live
    BY <1>0, <2>1 DEF RetireFrame, Held, GoTo, ListTypeOK
  <2>4. CASE Sweep(w)
    <3>1. /\ \A v \in Writers : zl'[v] = IF v = w THEN zl[w] \cap plist[w] ELSE zl[v]
          /\ free' = free \cup (zl[w] \ plist[w]) /\ Held(w)' = {}
      BY <1>0, <2>1, <2>4 DEF Sweep, SweepExcept, TypeOK, GoTo, ListTypeOK, Held
    <3> QED
      BY <1>0, <2>3, <3>1 DEF ZombiesApart
  <2>5. CASE FreeNodeLater(w)
    <3>1. \A v \in Writers : zl'[v] = IF v = w THEN zl[w] \cup {wcur[w]} ELSE zl[v]
      BY <1>0, <2>5 DEF FreeNodeLater, RetireIf, TypeOK
    <3>2. free' = free
      BY <2>5 DEF FreeNodeLater, RetireIf
    <3>3. \A v \in Writers : v # w => wcur[w] \notin zl[v] /\ wcur[w] \notin Held(v)
      BY <1>0, <2>2 DEF ZombiesApart, OneRole
    <3> QED
      BY <1>0, <2>2, <2>3, <3>1, <3>2, <3>3 DEF ZombiesApart
  <2> QED
    BY <1>2, <2>4, <2>5
<1>3. CASE ScanAhead(w) \/ ScanSlot(w)
  <2>1. UNCHANGED <<zl, free, live, wpc, wcur, wnew>>
    BY <1>3, ScanSteps DEF writerVars
  <2>2. \A v \in Writers : Held(v)' = Held(v)
    BY <2>1 DEF Held
  <2> QED
    BY <1>0, <2>1, <2>2 DEF ZombiesApart
<1> QED
  BY <1>1, <1>2, <1>3 DEF Writer, UpdateStep, zombieVars

\* Scan keeps what a firm slot names, whenever it reads the slot.
LEMMA FirmStepWriter ==
  ASSUME IInv, NEW w \in Writers, Writer(w), Remember, ZombiesApart'
  PROVE  FirmKept' /\ firm \subseteq firm'
<1>0. TypeOK /\ ListInv /\ FirmKept /\ ListTypeOK /\ ZombiesApart
  BY DEF IInv, TypeOK
<1>1. UNCHANGED HP
  BY DEF Writer, UpdateStep, hpVars
<1>2. /\ firm \subseteq firm'
      /\ \A s \in firm' : /\ s \in Slots
                          /\ s \in firm \/ (HP'[s] \in live' /\ \A v \in Writers : ~Missed(v, s)')
  BY <1>0, <1>1 DEF Remember, TypeOK
<1>3. ASSUME NEW s \in firm', HP'[s] \in live', \A v \in Writers : ~Missed(v, s)'
      PROVE  /\ Unfreed(HP[s])'
             /\ \A v \in Writers :
                  ~Scanning(v)' \/ HP'[s] \in zl'[v] => s \in left'[v] \/ HP'[s] \in plist'[v]
  BY <1>3 DEF Unfreed, ZombiesApart, Missed
<1>4. ASSUME NEW s \in firm, NEW n, n = HP[s]
      PROVE  /\ Unfreed(n)' \/ \E v \in Writers : n \in zl'[v]
             /\ \A v \in Writers :
                  ~Scanning(v)' \/ n \in zl'[v] => s \in left'[v] \/ n \in plist'[v]
  <2>0. /\ s \in Slots /\ n \in NodePtr
        /\ Unfreed(n) \/ \E v \in Writers : n \in zl[v]
        /\ \A v \in Writers : ~Scanning(v) \/ n \in zl[v] => s \in left[v] \/ n \in plist[v]
    BY <1>0, <1>4 DEF FirmKept, TypeOK
  <2>1. n \in Nodes
    <3>1. n \in live => n \in Nodes
      BY <1>0 DEF ListTypeOK
    <3>2. ASSUME NEW v \in Writers, wpc[v] = "retire", wcur[v] = n PROVE n \in Nodes
      BY <1>0, <3>2, RetiredNode
    <3>3. ASSUME NEW v \in Writers, n \in zl[v] PROVE n \in Nodes
      BY <1>0, <3>3 DEF TypeOK
    <3> QED
      BY <2>0, <3>1, <3>2, <3>3 DEF Unfreed
  <2>2. CASE (WriterStep(w) \/ Call(w)) /\ UNCHANGED zombieVars
    <3>1. Unfreed(n) => Unfreed(n)'
      BY <1>0, <2>1, <2>2, WriterStable DEF Call, InsertCall, DeleteCall
    <3>2. \A v \in Writers : Scanning(v) => Scanning(v)'
      <4>1. ASSUME NEW v \in Writers, v # w PROVE Scanning(v) => Scanning(v)'
        BY <4>1, OtherWriters
      <4>2. wpc[w] # "retire"
        BY <2>2 DEF WriterStep, Call, InsertCall, DeleteCall, BeginCall, LockW, Step, Miss, Unlink,
                    FreeNode, NewNode, SetKey, SetNext, Link, UnlockW
      <4> QED
        BY <4>1, <4>2 DEF Scanning
    <3> QED
      BY <2>0, <2>2, <3>1, <3>2 DEF zombieVars
  <2>3. CASE FreeNodeLater(w) \/ Sweep(w)
    <3>1. /\ RetireFrame /\ wpc[w] = "retire" /\ (UNCHANGED wpc \/ GoTo(w, "unlock"))
      BY <2>3, RetireSteps
    <3>2. UNCHANGED <<live, wcur>> /\ \A v \in Writers : v # w => wpc'[v] = wpc[v]
      BY <1>0, <3>1 DEF RetireFrame, GoTo, ListTypeOK
    <3>3. Unfreed(n) => Unfreed(n)' \/ n = wcur[w]
      BY <3>2 DEF Unfreed
    <3>4. CASE FreeNodeLater(w)
      <4>1. /\ \A v \in Writers : zl'[v] = IF v = w THEN zl[w] \cup {wcur[w]} ELSE zl[v]
            /\ UNCHANGED <<left, plist>> /\ ~Scanning(w)
        BY <1>0, <3>4 DEF FreeNodeLater, RetireIf, TypeOK
      <4>2. ASSUME NEW v \in Writers, ~Scanning(v)' \/ n \in zl'[v]
            PROVE  s \in left'[v] \/ n \in plist'[v]
        <5>1. CASE v = w
          BY <2>0, <4>1, <5>1
        <5>2. CASE v # w
          BY <2>0, <3>2, <4>1, <4>2, <5>2 DEF Scanning
        <5> QED
          BY <5>1, <5>2
      <4> QED
        BY <2>0, <3>3, <4>1, <4>2
    <3>5. CASE Sweep(w)
      <4>1. /\ \A v \in Writers : zl'[v] = IF v = w THEN zl[w] \cap plist[w] ELSE zl[v]
            /\ \A v \in Writers : v # w => plist'[v] = plist[v] /\ left'[v] = left[v]
            /\ left'[w] = Slots /\ Scanning(w) /\ left[w] = {}
        BY <1>0, <3>5 DEF Sweep, SweepExcept, TypeOK
      <4>2. n \in zl[w] => n \in zl'[w]
        BY <2>0, <4>1
      <4>3. ASSUME NEW v \in Writers, v # w, ~Scanning(v)' \/ n \in zl'[v]
            PROVE  s \in left'[v] \/ n \in plist'[v]
        BY <2>0, <3>2, <4>1, <4>3 DEF Scanning
      <4>4. wcur[w] \in zl[w] /\ s \in left'[w]
        BY <2>0, <4>1 DEF Scanning
      <4>5. \A v \in Writers : ~Scanning(v)' \/ n \in zl'[v] => s \in left'[v] \/ n \in plist'[v]
        BY <4>3, <4>4
      <4>6. Unfreed(n)' \/ \E v \in Writers : n \in zl'[v]
        BY <2>0, <3>3, <4>1, <4>2, <4>4
      <4> QED
        BY <4>5, <4>6
    <3> QED
      BY <2>3, <3>4, <3>5
  <2>4. CASE ScanAhead(w) \/ ScanSlot(w)
    <3>1. PICK t \in Slots : ScanNext(w, t, {t})
      BY <2>4, ScanSteps
    <3>2. /\ \A v \in Writers : v # w => left'[v] = left[v] /\ plist'[v] = plist[v]
          /\ left'[w] = left[w] \ {t} /\ plist'[w] = plist[w] \cup ({HP[t]} \ {NULL})
          /\ UNCHANGED zl
      BY <1>0, <3>1 DEF ScanNext, TypeOK
    <3>3. UNCHANGED <<live, wpc, wcur>>
      BY <2>4, ScanSteps DEF writerVars
    <3>4. Unfreed(n)' = Unfreed(n) /\ \A v \in Writers : Scanning(v)' = Scanning(v)
      BY <3>2, <3>3 DEF Unfreed, Scanning
    <3>5. n # NULL
      BY <2>1, HashListAssumption
    <3> QED
      BY <1>4, <2>0, <3>2, <3>4, <3>5
  <2> QED
    BY <2>2, <2>3, <2>4 DEF Writer, UpdateStep
<1>5. ASSUME NEW s \in firm'
      PROVE  /\ Unfreed(HP[s])' \/ \E v \in Writers : HP'[s] \in zl'[v]
             /\ \A v \in Writers :
                  ~Scanning(v)' \/ HP'[s] \in zl'[v] => s \in left'[v] \/ HP'[s] \in plist'[v]
  <2>2. CASE HP'[s] \in live' /\ \A v \in Writers : ~Missed(v, s)'
    BY <1>1, <1>3, <2>2
  <2>3. CASE s \in firm
    <3>1. s \in firm
      BY <2>3
    <3>2. PICK n : n = HP[s]
      OBVIOUS
    <3>3. /\ Unfreed(n)' \/ \E v \in Writers : n \in zl'[v]
          /\ \A v \in Writers :
               ~Scanning(v)' \/ n \in zl'[v] => s \in left'[v] \/ n \in plist'[v]
      BY <1>4, <3>1, <3>2
    <3> QED
      BY <1>1, <3>2, <3>3 DEF Unfreed
  <2> QED
    BY <1>2, <2>2, <2>3
<1> QED
  BY <1>2, <1>5 DEF FirmKept

\* A store that reaches HP makes its slot firm only with a linked node.
LEMMA FirmStepReader ==
  ASSUME IInv, NEW r \in Readers, Reader(r), Remember
  PROVE  FirmKept' /\ ZombiesApart'
<1>1. UNCHANGED <<live, free, wpc, wcur, wnew, zl, left, plist>>
  BY ReaderQuiet DEF ReaderFrame, zombieVars, writerVars
<1>2. ZombiesApart'
  <2>1. ZombiesApart
    BY DEF IInv
  <2>2. \A v \in Writers : Held(v)' = Held(v)
    BY <1>1 DEF Held
  <2> QED
    BY <1>1, <2>1, <2>2 DEF ZombiesApart
<1>3. ASSUME NEW s \in firm'
      PROVE  /\ Unfreed(HP[s])' \/ \E v \in Writers : HP'[s] \in zl'[v]
             /\ \A v \in Writers :
                  ~Scanning(v)' \/ HP'[s] \in zl'[v] => s \in left'[v] \/ HP'[s] \in plist'[v]
  <2>1. CASE HP'[s] \in live' /\ \A v \in Writers : ~Missed(v, s)'
    BY <1>2, <2>1 DEF Unfreed, ZombiesApart, Missed
  <2>2. CASE s \in firm /\ HP'[s] = HP[s]
    BY <1>1, <2>2 DEF IInv, FirmKept, Unfreed, Scanning
  <2> QED
    BY <2>1, <2>2 DEF Remember
<1> QED
  BY <1>2, <1>3 DEF FirmKept

(***************************************************************************)
(* How many zombies a scan can leave                                       *)
(***************************************************************************)
\* There are two slots a reader.
LEMMA SlotsFinite == IsFiniteSet(Slots)
<1>1. IsFiniteSet({0, 1})
  <2>1. IsFiniteSet({0}) /\ {0, 1} = {0} \cup {1}
    BY FS_Singleton
  <2> QED
    BY <2>1, FS_AddElement
<1> QED
  BY <1>1, FS_Product, HazardAssumption DEF Slots

\* The slots a scan has read and found set can be counted.
LEMMA NamedFinite ==
  ASSUME NEW w \in Writers
  PROVE  IsFiniteSet(NamedSlots(w)) /\ Cardinality(NamedSlots(w)) \in Nat
<1>1. NamedSlots(w) \subseteq Slots
  BY DEF NamedSlots
<1> QED
  BY <1>1, SlotsFinite, FS_Subset, FS_CardinalityType

\* The same after a step.
LEMMA NamedFiniteNext ==
  ASSUME NEW w \in Writers
  PROVE  IsFiniteSet(NamedSlots(w)') /\ Cardinality(NamedSlots(w)') \in Nat
<1>1. NamedSlots(w)' \subseteq Slots
  BY DEF NamedSlots
<1> QED
  BY <1>1, SlotsFinite, FS_Subset, FS_CardinalityType

\* A scan finds at most one node in each slot it reads.
LEMMA CountStepWriter ==
  ASSUME IInv, NEW w \in Writers, Writer(w), NEW v \in Writers
  PROVE  ScanCounted(v)'
<1>0. TypeOK /\ ListTypeOK /\ ScanCounted(v) /\ UNCHANGED <<HP, fence>>
  BY DEF IInv, TypeOK, Writer, UpdateStep, hpVars
<1>1. CASE v # w
  <2>1. /\ zl'[v] = zl[v] /\ left'[v] = left[v] /\ plist'[v] = plist[v]
        /\ Scanning(v)' <=> Scanning(v)
    BY <1>1, OtherWriters
  <2>2. NamedSlots(v)' = NamedSlots(v)
    BY <1>0, <2>1 DEF NamedSlots
  <2> QED
    BY <1>0, <2>1, <2>2 DEF ScanCounted
<1>2. ASSUME v = w, IsFiniteSet(zl'[w]), UNCHANGED <<left, plist>>,
             Scanning(w)' \/ ~Scanning(w)
      PROVE  ScanCounted(v)'
  <2>1. NamedSlots(w)' = NamedSlots(w)
    BY <1>0, <1>2 DEF NamedSlots
  <2> QED
    BY <1>0, <1>2, <2>1 DEF ScanCounted
<1>3. CASE v = w /\ (WriterStep(w) \/ Call(w)) /\ UNCHANGED zombieVars
  <2>1. wpc[w] # "retire"
    BY <1>3 DEF WriterStep, Call, InsertCall, DeleteCall, BeginCall, LockW, Step, Miss, Unlink,
                FreeNode, NewNode, SetKey, SetNext, Link, UnlockW
  <2>2. ~Scanning(w) /\ UNCHANGED <<zl, left, plist>> /\ IsFiniteSet(zl[w])
    BY <1>0, <1>3, <2>1 DEF ScanCounted, Scanning, zombieVars
  <2> QED
    BY <1>2, <1>3, <2>2
<1>4. CASE v = w /\ FreeNodeLater(w)
  <2>1. /\ zl'[w] = zl[w] \cup {wcur[w]} /\ UNCHANGED <<left, plist>>
        /\ ~Scanning(w) /\ IsFiniteSet(zl[w])
    BY <1>0, <1>4 DEF FreeNodeLater, RetireIf, TypeOK, ScanCounted
  <2>2. IsFiniteSet(zl'[w])
    <3>1. IsFiniteSet(zl[w] \cup {wcur[w]})
      BY <2>1, FS_AddElement
    <3> QED
      BY <2>1, <3>1
  <2> QED
    BY <1>2, <1>4, <2>1, <2>2
<1>5. CASE v = w /\ (ScanAhead(w) \/ ScanSlot(w))
  <2>1. PICK t \in Slots : ScanNext(w, t, {t})
    BY <1>5, ScanSteps
  <2>2. /\ t \in left[w] /\ left'[w] = left[w] \ {t}
        /\ plist'[w] = plist[w] \cup ({HP[t]} \ {NULL})
        /\ UNCHANGED <<zl, wpc, wcur>>
    BY <1>0, <2>1 DEF ScanNext, TypeOK, listVars, writerVars
  <2>3. /\ IsFiniteSet(zl[w]) /\ IsFiniteSet(plist[w]) /\ Cardinality(plist[w]) \in Nat
        /\ Cardinality(plist[w]) <= Cardinality(NamedSlots(w))
    BY <1>0, <1>5, FS_CardinalityType DEF ScanCounted
  <2>4. IsFiniteSet(plist'[w]) /\ Cardinality(plist'[w]) <= Cardinality(NamedSlots(w)')
    <3>1. CASE HP[t] = NULL
      <4>1. plist'[w] = plist[w]
        BY <2>2, <3>1
      <4>2. NamedSlots(w)' = NamedSlots(w)
        BY <1>0, <2>2, <3>1 DEF NamedSlots
      <4> QED
        BY <2>3, <4>1, <4>2
    <3>2. CASE HP[t] # NULL
      <4>1. plist'[w] = plist[w] \cup {HP[t]}
        BY <2>2, <3>2
      <4>2. NamedSlots(w)' = NamedSlots(w) \cup {t} /\ t \notin NamedSlots(w)
        BY <1>0, <2>2, <3>2 DEF NamedSlots
      <4>3. Cardinality(NamedSlots(w)') = Cardinality(NamedSlots(w)) + 1
        BY <4>2, NamedFinite, FS_AddElement
      <4>4. IsFiniteSet(plist'[w]) /\ Cardinality(plist'[w]) <= Cardinality(plist[w]) + 1
        <5>1. IsFiniteSet(plist[w]) /\ Cardinality(plist[w]) \in Nat
          BY <2>3
        <5>2. /\ IsFiniteSet(plist[w] \cup {HP[t]})
              /\ Cardinality(plist[w] \cup {HP[t]}) =
                   IF HP[t] \in plist[w] THEN Cardinality(plist[w]) ELSE Cardinality(plist[w]) + 1
          BY <5>1, FS_AddElement
        <5> QED
          BY <4>1, <5>1, <5>2
      <4>5. Cardinality(plist'[w]) \in Nat
        BY <4>4, FS_CardinalityType
      <4> QED
        BY <2>3, <4>3, <4>4, <4>5, NamedFinite
    <3> QED
      BY <3>1, <3>2
  <2>5. fence = "compiler" \/ Scanning(w)'
    BY <1>5, <2>2 DEF ScanAhead, Ahead, ScanSlot, Scanning
  <2> QED
    BY <1>0, <1>5, <2>2, <2>3, <2>4, <2>5 DEF ScanCounted
<1>6. CASE v = w /\ Sweep(w)
  <2>1. zl'[w] = zl[w] \cap plist[w] /\ plist'[w] = {} /\ left'[w] = Slots /\ IsFiniteSet(zl[w])
    BY <1>0, <1>6 DEF Sweep, SweepExcept, TypeOK, ScanCounted
  <2>2. IsFiniteSet(zl'[w]) /\ IsFiniteSet({}) /\ Cardinality({}) = 0
    BY <2>1, FS_Subset, FS_EmptySet
  <2>3. Cardinality(NamedSlots(w)') \in Nat
    BY NamedFiniteNext
  <2> QED
    BY <1>6, <2>1, <2>2, <2>3 DEF ScanCounted
<1> QED
  BY <1>1, <1>3, <1>4, <1>5, <1>6 DEF Writer, UpdateStep, zombieVars

\* A slot that is set stays set: search never clears one.
LEMMA SlotsStaySet ==
  ASSUME IInv, NEW r \in Readers, Reader(r)
  PROVE  \A s \in Slots : HP[s] # NULL => HP'[s] # NULL
<1>1. CASE Flush(r)
  BY <1>1, BufferHead, HashListAssumption DEF Flush, IInv, TypeOK
<1>2. CASE UNCHANGED HP
  BY <1>2
<1> QED
  BY <1>1, <1>2 DEF Reader, SearchStep, SearchCall, ReadHead, Protect, CheckPrev, CheckPrevIf,
                    ReadNext, ReadKey, hpVars

\* A reader can only add to the slots a scan might have counted.
LEMMA CountStepReader ==
  ASSUME IInv, NEW r \in Readers, Reader(r), NEW v \in Writers
  PROVE  ScanCounted(v)'
<1>1. UNCHANGED <<fence, wpc, wcur, zl, left, plist>> /\ ScanCounted(v)
  BY ReaderQuiet DEF ReaderFrame, zombieVars, writerVars, IInv
<1>2. NamedSlots(v) \subseteq NamedSlots(v)'
  BY <1>1, SlotsStaySet DEF NamedSlots
<1>3. Cardinality(NamedSlots(v)) <= Cardinality(NamedSlots(v)')
  BY <1>2, NamedFiniteNext, FS_Subset
<1>4. Cardinality(plist[v]) \in Nat /\ Cardinality(plist[v]) <= Cardinality(NamedSlots(v))
  BY <1>1, FS_CardinalityType DEF ScanCounted
<1>5. Cardinality(plist[v]) <= Cardinality(NamedSlots(v)')
  BY <1>3, <1>4, NamedFinite, NamedFiniteNext
<1> QED
  BY <1>1, <1>5 DEF ScanCounted, Scanning

(***************************************************************************)
(* The searches, while an updater takes a step                             *)
(***************************************************************************)
\* What a firm slot names is kept.
LEMMA FirmIsKept ==
  ASSUME IInv, NEW s \in firm, NEW n, HP[s] = n
  PROVE  Kept(n)
BY DEF IInv, FirmKept, Kept

\* An updater does not call or end a search, and only adds to its answers.
LEMMA WriterSearchVars ==
  ASSUME IInv, NEW w \in Writers, Writer(w), NEW r \in Readers
  PROVE  want' = want /\ seen[r] \subseteq seen'[r]
<1>1. CASE WriterStep(w)
  <2>1. want' = want
    BY <1>1 DEF WriterStep, LockW, Step, Miss, Unlink, FreeNode, NewNode, SetKey, SetNext, Link,
               UnlockW, searchVars
  <2> QED
    BY <1>1, <2>1, WriterStable DEF IInv
<1>2. CASE Call(w) \/ RetireFrame
  BY <1>2 DEF Call, InsertCall, DeleteCall, BeginCall, RetireFrame, searchVars
<1>3. CASE ScanAhead(w) \/ ScanSlot(w)
  BY <1>3, ScanSteps DEF searchVars
<1> QED
  BY <1>1, <1>2, <1>3, RetireSteps DEF Writer, UpdateStep

\* The node a sound walk stands on keeps its key, and what follows it when it
\* is unlinked for good was an answer at that moment.
LEMMA WriterKeepsNode ==
  ASSUME IInv, NEW w \in Writers, Writer(w), NEW r \in Readers, want[r] \in Keys,
         NEW n \in Nodes, Kept(n), BucketOf(key[n]) = Bucket(r)
  PROVE  /\ key'[n] = key[n] /\ key[n] \in Nat
         /\ key[n] < want[r] /\ ~Unfreed(n)' /\ next'[n] = NULL =>
              0 \in seen'[r] \/ (~Unfreed(n) /\ next[n] = NULL)
<1>1. /\ key'[n] = key[n]
      /\ ~Unfreed(n) => next'[n] = next[n] /\ ~Unfreed(n)'
      /\ Unfreed(n) /\ ~Unfreed(n)' => UNCHANGED <<memVars, searchVars>>
  BY WriterNode
<1>2. key[n] \in Nat /\ ListInv
  BY DEF IInv, TypeOK, ListTypeOK
<1>3. ASSUME key[n] < want[r], ~Unfreed(n)', next'[n] = NULL, Unfreed(n) PROVE 0 \in seen'[r]
  <2>1. next[n] = NULL /\ seen' = seen
    BY <1>1, <1>3 DEF memVars, searchVars
  <2>2. 0 \in seen[r]
    BY <1>2, <1>3, <2>1, NextAnswers DEF Bucket
  <2> QED
    BY <2>1, <2>2
<1> QED
  BY <1>1, <1>2, <1>3

\* Whatever an updater does, the searches' invariant holds.
LEMMA WriterKeepsSearch ==
  ASSUME IInv, NEW w \in Writers, Writer(w), Remember, NEW r \in Readers
  PROVE  SearchInvariant(r)'
<1>0. /\ TypeOK /\ SearchInvariant(r)
      /\ UNCHANGED <<barrier, fence, HP, buf, rd, sound>>
  BY DEF IInv, Writer, UpdateStep, hpVars
<1>1. want' = want /\ seen[r] \subseteq seen'[r]
  BY WriterSearchVars
<1>2. firm \subseteq firm'
  BY ZombieStep, FirmStepWriter
<1>3. Slot(r)' = Slot(r) /\ PrevSlot(r)' = PrevSlot(r) /\ Bucket(r)' = Bucket(r)
  BY <1>0, <1>1 DEF Slot, PrevSlot, Bucket
<1>4. Stored(r)'
  BY <1>0, <1>1, <1>3 DEF SearchInvariant, Stored
<1>5. barrier = "full" => Fenced(r)'
  BY <1>0, <1>2, <1>3 DEF SearchInvariant, Fenced
<1>6. ASSUME sound[r] PROVE SoundWalk(r)'
  <2>0. SoundWalk(r)
    BY <1>0, <1>6 DEF SearchInvariant
  <2>1. ASSUME rd[r].pc \in {"next", "key"}, NEW n, n = rd[r].cur
        PROVE  /\ buf'[r] = <<>>
               /\ Slot(r)' \in firm' /\ HP'[Slot(r)'] = n
               /\ BucketOf(key'[n]) = Bucket(r)'
               /\ key'[n] = want'[r] => 1 \in seen'[r]
               /\ key'[n] > want'[r] => 0 \in seen'[r]
               /\ key'[n] < want'[r] /\ rd'[r].pc = "next" /\ ~Unfreed(n)' /\ next'[n] = NULL =>
                    0 \in seen'[r]
               /\ key'[n] < want'[r] /\ rd'[r].pc = "key" /\ rd'[r].nxt = NULL => 0 \in seen'[r]
    <3>1. /\ buf[r] = <<>> /\ Slot(r) \in firm /\ HP[Slot(r)] = n
          /\ BucketOf(key[n]) = Bucket(r)
          /\ key[n] = want[r] => 1 \in seen[r]
          /\ key[n] > want[r] => 0 \in seen[r]
          /\ key[n] < want[r] /\ rd[r].pc = "next" /\ ~Unfreed(n) /\ next[n] = NULL => 0 \in seen[r]
          /\ key[n] < want[r] /\ rd[r].pc = "key" /\ rd[r].nxt = NULL => 0 \in seen[r]
      BY <2>0, <2>1 DEF SoundWalk
    <3>2. n \in Nodes
      BY <1>0, <2>1, ReaderTypes DEF SearchInvariant, Stored, NodePtr
    <3>3. want[r] \in Keys /\ Kept(n)
      BY <2>1, <3>1, ReaderBucket, FirmIsKept
    <3>4. /\ key'[n] = key[n]
          /\ key[n] < want[r] /\ ~Unfreed(n)' /\ next'[n] = NULL =>
               0 \in seen'[r] \/ (~Unfreed(n) /\ next[n] = NULL)
      BY <3>1, <3>2, <3>3, WriterKeepsNode
    <3> QED
      BY <1>0, <1>1, <1>2, <1>3, <3>1, <3>4
  <2>2. ASSUME rd[r].pc \in {"set", "check"}, rd[r].prev # NULL, NEW p, p = rd[r].prev
        PROVE  /\ Len(buf'[r]) <= IF rd'[r].pc = "check" THEN 1 ELSE 0
               /\ PrevSlot(r)' \in firm' /\ HP'[PrevSlot(r)'] = p
               /\ BucketOf(key'[p]) = Bucket(r)' /\ key'[p] < want'[r]
    <3>1. /\ Len(buf[r]) <= IF rd[r].pc = "check" THEN 1 ELSE 0
          /\ PrevSlot(r) \in firm /\ HP[PrevSlot(r)] = p
          /\ BucketOf(key[p]) = Bucket(r) /\ key[p] < want[r]
      BY <2>0, <2>2 DEF SoundWalk
    <3>2. p \in Nodes
      BY <1>0, <2>2, ReaderTypes DEF NodePtr
    <3>3. want[r] \in Keys /\ Kept(p)
      BY <2>2, <3>1, ReaderBucket, FirmIsKept
    <3>4. key'[p] = key[p]
      BY <3>1, <3>2, <3>3, WriterKeepsNode
    <3> QED
      BY <1>0, <1>1, <1>2, <1>3, <3>1, <3>4
  <2> QED
    BY <1>0, <2>1, <2>2 DEF SoundWalk, Unfreed
<1> QED
  BY <1>0, <1>4, <1>5, <1>6 DEF SearchInvariant

(***************************************************************************)
(* The searches, while a reader takes a step                               *)
(***************************************************************************)
\* A step of a reader as the nodes and the slots see it.
LEMMA ReaderSees ==
  ASSUME IInv, NEW r \in Readers, Reader(r), Remember
  PROVE  /\ UNCHANGED <<head, key, next, live, barrier, fence>>
         /\ \A n : Unfreed(n)' <=> Unfreed(n)
         /\ \A s \in firm : HP'[s] = HP[s] => s \in firm'
         /\ \A s \in Slots : HP'[s] \in live /\ (\A w \in Writers : ~Missed(w, s)') => s \in firm'
<1>1. UNCHANGED <<head, key, next, live, wpc, wcur, barrier, fence>>
  BY ReaderQuiet DEF ReaderFrame, memVars, writerVars
<1>2. \A n : Unfreed(n)' <=> Unfreed(n)
  BY <1>1 DEF Unfreed
<1>3. firm \subseteq Slots
  BY DEF IInv, TypeOK
<1> QED
  BY <1>1, <1>2, <1>3 DEF Remember

\* A reader writes to its own slots, buffer and locals only.
LEMMA OtherReaders ==
  ASSUME IInv, NEW r \in Readers, Reader(r), Remember, NEW q \in Readers, q # r
  PROVE  SearchInvariant(q)'
<1>0. TypeOK /\ ListTypeOK /\ SearchInvariant(q)
  BY DEF IInv, TypeOK
<1>1. want'[q] = want[q] /\ seen'[q] = seen[q]
  BY <1>0, ReaderQuiet DEF searchVars, BeginSearch, EndSearch, ListTypeOK
<1>2. rd'[q] = rd[q]
  BY <1>0 DEF Reader, SearchStep, SearchCall, ReadHead, Protect, CheckPrev, CheckPrevIf, ReadNext,
             ReadKey, Flush, Visit, Return, Become, TypeOK
<1>3. buf'[q] = buf[q] /\ sound'[q] = sound[q]
  BY <1>0 DEF Reader, SearchStep, SearchCall, ReadHead, Protect, CheckPrev, CheckPrevIf, ReadNext,
             ReadKey, Flush, hpVars, TypeOK
<1>4. \A o \in {0, 1} : HP'[<<q, o>>] = HP[<<q, o>>]
  <2>1. CASE Flush(r)
    BY <1>0, <2>1, BufferHead DEF Flush, TypeOK, Slots
  <2>2. CASE UNCHANGED HP
    BY <2>2
  <2> QED
    BY <2>1, <2>2 DEF Reader, SearchStep, SearchCall, ReadHead, Protect, CheckPrev, CheckPrevIf,
                      ReadNext, ReadKey, hpVars
<1>5. Slot(q)' = Slot(q) /\ PrevSlot(q)' = PrevSlot(q) /\ Bucket(q)' = Bucket(q)
  BY <1>1, <1>2 DEF Slot, PrevSlot, Bucket
<1>6. HP'[Slot(q)] = HP[Slot(q)] /\ HP'[PrevSlot(q)] = HP[PrevSlot(q)]
  <2>1. rd[q].off \in {0, 1} /\ 1 - rd[q].off \in {0, 1}
    BY <1>0, ReaderTypes
  <2> QED
    BY <1>4, <2>1 DEF Slot, PrevSlot
<1>7. /\ UNCHANGED <<key, next, barrier, fence>>
      /\ \A n : Unfreed(n)' <=> Unfreed(n)
      /\ Slot(q) \in firm => Slot(q) \in firm'
      /\ PrevSlot(q) \in firm => PrevSlot(q) \in firm'
  BY <1>6, ReaderSees
<1>8. Stored(q)'
  BY <1>0, <1>1, <1>2, <1>3, <1>5, <1>6 DEF SearchInvariant, Stored
<1>9. barrier = "full" => Fenced(q)'
  BY <1>0, <1>2, <1>3, <1>5, <1>6, <1>7 DEF SearchInvariant, Fenced
<1>10. ASSUME sound[q] PROVE SoundWalk(q)'
  <2>1. Unfreed(rd[q].cur)' <=> Unfreed(rd[q].cur)
    <3>1. PICK n : n = rd[q].cur
      OBVIOUS
    <3> QED
      BY <1>2, <1>7, <3>1 DEF Unfreed
  <2> QED
    BY <1>0, <1>1, <1>2, <1>3, <1>5, <1>6, <1>7, <1>10, <2>1 DEF SearchInvariant, SoundWalk
<1> QED
  BY <1>3, <1>7, <1>8, <1>9, <1>10 DEF SearchInvariant

\* A search that has returned is at rest.
LEMMA OwnReturn ==
  ASSUME IInv, NEW r \in Readers, NEW x, Return(r, x),
         UNCHANGED <<barrier, buf>>, barrier = "full" => Len(buf[r]) <= 0
  PROVE  SearchInvariant(r)'
<1>1. rd'[r] = AtRest /\ want'[r] = NULL
  BY DEF Return, Become, EndSearch, IInv, TypeOK, ListTypeOK
<1>2. rd'[r].pc = "idle"
  BY <1>1 DEF AtRest
<1> QED
  BY <1>1, <1>2 DEF SearchInvariant, Stored, Fenced, SoundWalk

\* A call of search begins with nothing in the buffer behind a full barrier.
LEMMA OwnCall ==
  ASSUME IInv, NEW r \in Readers, NEW k \in Keys, SearchCall(r, k)
  PROVE  SearchInvariant(r)'
<1>1. rd'[r].pc = "head" /\ want'[r] = k /\ k # NULL
  BY HashListAssumption DEF SearchCall, Become, BeginSearch, AtRest, IInv, TypeOK, ListTypeOK
<1>2. barrier' = barrier /\ buf' = buf /\ (barrier = "full" => Len(buf[r]) <= 0)
  BY DEF SearchCall, hpVars, IInv, SearchInvariant, Fenced
<1> QED
  BY <1>1, <1>2 DEF SearchInvariant, Stored, Fenced, SoundWalk

\* Back at the head, a walk has no node to vouch for.
LEMMA OwnHead ==
  ASSUME IInv, NEW r \in Readers, ReadHead(r)
  PROVE  SearchInvariant(r)'
<1>1. barrier' = barrier /\ buf' = buf /\ (barrier = "full" => Len(buf[r]) <= 0)
  BY DEF ReadHead, hpVars, IInv, SearchInvariant, Fenced
<1> DEFINE state == [AtRest EXCEPT !.pc = "set", !.cur = head[Bucket(r)], !.off = rd[r].off]
<1>2. CASE state.cur = NULL
  BY <1>1, <1>2, OwnReturn DEF ReadHead, Visit
<1>3. CASE state.cur # NULL
  <2>1. rd' = [rd EXCEPT ![r] = state] /\ want' = want
    BY <1>3 DEF ReadHead, Visit, Become, searchVars
  <2>2. state.pc = "set" /\ state.prev = NULL
    BY DEF AtRest
  <2>3. rd'[r].pc = "set" /\ rd'[r].prev = NULL /\ rd'[r].cur # NULL
    BY <1>3, <2>1, <2>2 DEF IInv, TypeOK
  <2>4. want'[r] # NULL
    BY <2>1 DEF ReadHead, IInv, SearchInvariant, Stored
  <2> QED
    BY <1>1, <2>3, <2>4 DEF SearchInvariant, Stored, Fenced, SoundWalk
<1> QED
  BY <1>2, <1>3

\* The store to the slot of cur is the last one of the buffer.
LEMMA OwnProtect ==
  ASSUME IInv, NEW r \in Readers, Protect(r), Remember
  PROVE  SearchInvariant(r)'
<1>0. TypeOK /\ SearchInvariant(r) /\ rd[r].pc = "set" /\ Reader(r)
  BY DEF IInv, Protect, Reader, SearchStep
<1>1. /\ rd'[r] = [rd[r] EXCEPT !.pc = "check"]
      /\ buf'[r] = Append(buf[r], <<rd[r].off, rd[r].cur>>)
      /\ UNCHANGED <<barrier, HP, want, sound>>
  BY <1>0 DEF Protect, Become, TypeOK, searchVars
<1>2. /\ rd'[r].pc = "check" /\ rd'[r].prev = rd[r].prev /\ rd'[r].cur = rd[r].cur
      /\ rd'[r].off = rd[r].off
  BY <1>0, <1>1 DEF TypeOK, ReaderState
<1>3. rd[r].off \in {0, 1} /\ rd[r].cur \in Nodes /\ buf[r] \in Seq({0, 1} \X Nodes)
  BY <1>0, ReaderTypes DEF SearchInvariant, Stored, NodePtr
<1>4. /\ Len(buf'[r]) = Len(buf[r]) + 1 /\ Len(buf[r]) \in Nat /\ buf'[r] # <<>>
      /\ buf'[r][Len(buf'[r])] = <<rd[r].off, rd[r].cur>>
  BY <1>1, <1>3
<1>5. Slot(r)' = Slot(r) /\ PrevSlot(r)' = PrevSlot(r) /\ Bucket(r)' = Bucket(r)
  BY <1>1, <1>2 DEF Slot, PrevSlot, Bucket
<1>6. Stored(r)'
  BY <1>0, <1>1, <1>2, <1>4 DEF SearchInvariant, Stored
<1>7. barrier = "full" => Fenced(r)'
  BY <1>0, <1>2, <1>4 DEF SearchInvariant, Fenced
<1>8. ASSUME sound[r] PROVE SoundWalk(r)'
  <2>1. /\ key' = key
        /\ \A s \in firm : HP'[s] = HP[s] => s \in firm'
    BY <1>0, ReaderSees
  <2> QED
    BY <1>0, <1>1, <1>2, <1>4, <1>5, <1>8, <2>1 DEF SearchInvariant, SoundWalk
<1> QED
  BY <1>1, <1>6, <1>7, <1>8 DEF SearchInvariant

\* A store that is alone in the buffer when it reaches memory is that of cur,
\* and leaves the slot of prev alone.
LEMMA OwnFlush ==
  ASSUME IInv, NEW r \in Readers, Flush(r), Remember
  PROVE  SearchInvariant(r)'
<1>0. TypeOK /\ SearchInvariant(r) /\ Reader(r)
  BY DEF IInv, Reader
<1>1. /\ buf[r] # <<>> /\ buf'[r] = Tail(buf[r]) /\ UNCHANGED <<barrier, fence, rd, want, seen, sound>>
      /\ HP' = [HP EXCEPT ![<<r, Head(buf[r])[1]>>] = Head(buf[r])[2]]
  BY <1>0 DEF Flush, TypeOK, searchVars
<1>2. /\ <<r, Head(buf[r])[1]>> \in Slots
      /\ Len(buf'[r]) = Len(buf[r]) - 1 /\ Len(buf[r]) > 0 /\ Len(buf[r]) \in Nat
      /\ Head(buf[r]) = buf[r][1]
      /\ Len(buf[r]) > 1 => buf'[r][Len(buf'[r])] = buf[r][Len(buf[r])]
      /\ buf'[r] \in Seq({0, 1} \X Nodes)
  BY <1>0, <1>1, BufferHead, ReaderTypes
<1>3. Slot(r)' = Slot(r) /\ PrevSlot(r)' = PrevSlot(r) /\ Bucket(r)' = Bucket(r)
  BY <1>1 DEF Slot, PrevSlot, Bucket
<1>4. ASSUME rd[r].pc = "check", Len(buf[r]) = 1
      PROVE  HP'[Slot(r)] = rd[r].cur /\ HP'[PrevSlot(r)] = HP[PrevSlot(r)]
  <2>1. Head(buf[r]) = <<rd[r].off, rd[r].cur>>
    BY <1>0, <1>1, <1>2, <1>4 DEF SearchInvariant, Stored
  <2>2. HP' = [HP EXCEPT ![Slot(r)] = rd[r].cur]
    <3>1. Head(buf[r])[1] = rd[r].off /\ Head(buf[r])[2] = rd[r].cur
      BY <2>1
    <3> QED
      BY <1>1, <3>1 DEF Slot
  <2> QED
    BY <1>0, <2>2, ReaderTypes DEF TypeOK
<1>5. Stored(r)'
  <2>1. rd[r].pc = "check" => IF buf'[r] = <<>> THEN HP'[Slot(r)] = rd[r].cur
                              ELSE buf'[r][Len(buf'[r])] = <<rd[r].off, rd[r].cur>>
    <3>0. ASSUME rd[r].pc = "check" PROVE buf[r][Len(buf[r])] = <<rd[r].off, rd[r].cur>>
      BY <1>0, <1>1, <3>0 DEF SearchInvariant, Stored
    <3>1. CASE Len(buf[r]) = 1
      <4>1. buf'[r] = <<>>
        BY <1>2, <3>1
      <4> QED
        BY <1>4, <3>1, <4>1
    <3>2. CASE Len(buf[r]) # 1
      <4>0. \A a \in Nat : a > 0 /\ a # 1 => a > 1 /\ a - 1 # 0
        OBVIOUS
      <4>1. Len(buf[r]) > 1 /\ Len(buf'[r]) # 0
        BY <1>2, <3>2, <4>0
      <4>2. buf'[r] # <<>>
        BY <4>1
      <4> QED
        BY <1>2, <3>0, <4>1, <4>2
    <3> QED
      BY <3>1, <3>2
  <2> QED
    BY <1>0, <1>1, <1>3, <2>1 DEF SearchInvariant, Stored
<1>6. barrier = "full" => Fenced(r)'
  BY <1>0, <1>1, <1>2 DEF SearchInvariant, Fenced
<1>7. ASSUME sound[r] PROVE SoundWalk(r)'
  <2>1. rd[r].pc \notin {"next", "key"}
    BY <1>0, <1>1, <1>7 DEF SearchInvariant, SoundWalk
  <2>2. ASSUME rd[r].pc \in {"set", "check"}, rd[r].prev # NULL
        PROVE  /\ rd[r].pc = "check" /\ Len(buf'[r]) <= 1
               /\ PrevSlot(r) \in firm' /\ HP'[PrevSlot(r)] = rd[r].prev
               /\ BucketOf(key[rd[r].prev]) = Bucket(r) /\ key[rd[r].prev] < want[r]
    <3>1. /\ rd[r].pc = "check" /\ Len(buf[r]) = 1
          /\ PrevSlot(r) \in firm /\ HP[PrevSlot(r)] = rd[r].prev
          /\ BucketOf(key[rd[r].prev]) = Bucket(r) /\ key[rd[r].prev] < want[r]
      <4>1. /\ Len(buf[r]) <= IF rd[r].pc = "check" THEN 1 ELSE 0
            /\ PrevSlot(r) \in firm /\ HP[PrevSlot(r)] = rd[r].prev
            /\ BucketOf(key[rd[r].prev]) = Bucket(r) /\ key[rd[r].prev] < want[r]
        BY <1>0, <1>7, <2>2 DEF SearchInvariant, SoundWalk
      <4>2. Len(buf[r]) > 0 /\ Len(buf[r]) \in Nat
        BY <1>2
      <4>3. rd[r].pc = "check"
        BY <4>1, <4>2
      <4>4. \A a \in Nat : a > 0 /\ a <= 1 => a = 1
        OBVIOUS
      <4> QED
        BY <4>1, <4>2, <4>3, <4>4
    <3> QED
      BY <1>0, <1>2, <1>4, <3>1, ReaderSees
  <2>3. key' = key
    BY <1>0, ReaderSees
  <2> QED
    BY <1>1, <1>3, <2>1, <2>2, <2>3 DEF SoundWalk
<1> QED
  BY <1>1, <1>5, <1>6, <1>7 DEF SearchInvariant

\* Read again through the head or through a linked prev, cur is linked, and a
\* slot that is in memory becomes firm.
LEMMA OwnCheck ==
  ASSUME IInv, NEW r \in Readers, CheckPrev(r), Remember
  PROVE  SearchInvariant(r)'
<1>0. /\ TypeOK /\ ListInv /\ SearchInvariant(r) /\ rd[r].pc = "check" /\ Reader(r)
      /\ barrier = "full" => buf[r] = <<>>
  BY DEF IInv, CheckPrev, CheckPrevIf, Reader, SearchStep
<1> DEFINE same == Deref(Bucket(r), rd[r].prev) = rd[r].cur
<1>1. /\ rd'[r] = [rd[r] EXCEPT !.pc = IF same THEN "next" ELSE "head"]
      /\ sound'[r] <=> /\ sound[r] /\ rd[r].prev \in live \cup {NULL} /\ buf[r] = <<>>
                        /\ \A w \in Writers : ~Missed(w, Slot(r))
      /\ UNCHANGED <<barrier, fence, HP, buf, want, seen>>
  BY <1>0 DEF CheckPrev, CheckPrevIf, Become, TypeOK, hpVars, searchVars
<1>2. /\ rd'[r].pc = (IF same THEN "next" ELSE "head") /\ rd'[r].prev = rd[r].prev
      /\ rd'[r].cur = rd[r].cur /\ rd'[r].off = rd[r].off
  BY <1>0, <1>1 DEF TypeOK, ReaderState
<1>3. Slot(r)' = Slot(r) /\ PrevSlot(r)' = PrevSlot(r) /\ Bucket(r)' = Bucket(r)
  BY <1>1, <1>2 DEF Slot, PrevSlot, Bucket
<1>4. /\ want[r] \in Keys /\ want[r] \in Nat /\ Bucket(r) \in Buckets
      /\ rd[r].cur \in Nodes /\ Slot(r) \in Slots
  BY <1>0, ReaderBucket, ReaderTypes DEF SearchInvariant, Stored, NodePtr
<1>5. buf[r] = <<>> => HP[Slot(r)] = rd[r].cur
  BY <1>0 DEF SearchInvariant, Stored
<1>6. Stored(r)'
  BY <1>0, <1>1, <1>2 DEF SearchInvariant, Stored
<1>7. /\ UNCHANGED <<head, key, next, live>>
      /\ \A n : Unfreed(n)' <=> Unfreed(n)
      /\ HP[Slot(r)] \in live /\ (\A w \in Writers : ~Missed(w, Slot(r))) => Slot(r) \in firm'
  <2>1. UNCHANGED <<wpc, wcur, zl, left, plist>>
    BY <1>0, ReaderQuiet DEF ReaderFrame, zombieVars, writerVars
  <2>2. \A s \in Slots, w \in Writers : Missed(w, s)' <=> Missed(w, s)
    BY <1>1, <2>1 DEF Missed, Scanning
  <2> QED
    BY <1>0, <1>1, <1>4, <2>2, ReaderSees
<1>8. ASSUME same, rd[r].prev = NULL
      PROVE  /\ rd[r].cur \in live /\ BucketOf(key[rd[r].cur]) = Bucket(r)
             /\ key[rd[r].cur] = want[r] => 1 \in seen[r]
             /\ key[rd[r].cur] > want[r] => 0 \in seen[r]
  <2>1. head[Bucket(r)] = rd[r].cur /\ rd[r].cur # NULL
    BY <1>0, <1>8 DEF Deref, SearchInvariant, Stored
  <2> QED
    BY <1>0, <1>4, <2>1, HeadAnswers DEF Bucket
<1>9. barrier = "full" => Fenced(r)'
  <2>1. ASSUME barrier = "full" PROVE Len(buf'[r]) = 0
    BY <1>0, <1>1, <2>1
  <2>2. ASSUME barrier = "full", fence = "full", same, rd[r].prev = NULL PROVE Slot(r) \in firm'
    <3>1. \A w \in Writers : ~Missed(w, Slot(r))
      BY <1>4, <2>2 DEF Missed, IInv, ScanCounted
    <3> QED
      BY <1>0, <1>5, <1>7, <1>8, <2>2, <3>1
  <2> QED
    BY <1>0, <1>1, <1>2, <1>3, <1>5, <2>1, <2>2 DEF Fenced
<1>10. ASSUME sound'[r] PROVE SoundWalk(r)'
  <2>1. CASE ~same
    BY <1>2, <2>1 DEF SoundWalk
  <2>2. CASE same
    <3>1. /\ rd[r].cur \in live /\ BucketOf(key[rd[r].cur]) = Bucket(r)
          /\ key[rd[r].cur] = want[r] => 1 \in seen[r]
          /\ key[rd[r].cur] > want[r] => 0 \in seen[r]
      <4>1. CASE rd[r].prev = NULL
        BY <1>8, <2>2, <4>1
      <4>2. CASE rd[r].prev # NULL
        <5>1. PICK p \in live : p = rd[r].prev
          BY <1>1, <1>10, <4>2
        <5>2. BucketOf(key[p]) = Bucket(r) /\ key[p] < want[r]
          BY <1>0, <1>1, <1>10, <4>2, <5>1 DEF SearchInvariant, SoundWalk
        <5>3. next[p] = rd[r].cur /\ rd[r].cur # NULL
          BY <1>0, <2>2, <4>2, <5>1 DEF Deref, SearchInvariant, Stored
        <5>4. p \in Nodes /\ Unfreed(p)
          BY <1>0 DEF Unfreed, TypeOK, ListTypeOK
        <5> QED
          BY <1>0, <1>4, <5>2, <5>3, <5>4, NextAnswers DEF Bucket
      <4> QED
        BY <4>1, <4>2
    <3>2. rd'[r].pc = "next" /\ buf'[r] = <<>> /\ HP'[Slot(r)] = rd[r].cur /\ Slot(r) \in firm'
      BY <1>1, <1>2, <1>5, <1>7, <1>10, <2>2, <3>1
    <3>3. Unfreed(rd[r].cur)'
      BY <1>2, <1>7, <3>1 DEF Unfreed
    <3> QED
      BY <1>1, <1>2, <1>3, <1>7, <3>1, <3>2, <3>3 DEF SoundWalk
  <2> QED
    BY <2>1, <2>2
<1> QED
  BY <1>1, <1>6, <1>9, <1>10 DEF SearchInvariant

\* The successor of a node that is not freed is an answer, or a later node.
LEMMA OwnNext ==
  ASSUME IInv, NEW r \in Readers, ReadNext(r), Remember
  PROVE  SearchInvariant(r)'
<1>0. TypeOK /\ ListInv /\ SearchInvariant(r) /\ rd[r].pc = "next" /\ Reader(r)
  BY DEF IInv, ReadNext, Reader, SearchStep
<1>1. /\ rd'[r] = [rd[r] EXCEPT !.pc = "key", !.nxt = next[rd[r].cur]]
      /\ UNCHANGED <<barrier, fence, HP, buf, want, seen, sound>>
  BY <1>0 DEF ReadNext, Become, TypeOK, hpVars, searchVars
<1>2. /\ rd'[r].pc = "key" /\ rd'[r].prev = rd[r].prev /\ rd'[r].cur = rd[r].cur
      /\ rd'[r].off = rd[r].off /\ rd'[r].nxt = next[rd[r].cur]
  BY <1>0, <1>1 DEF TypeOK, ReaderState
<1>3. Slot(r)' = Slot(r) /\ PrevSlot(r)' = PrevSlot(r) /\ Bucket(r)' = Bucket(r)
  BY <1>1, <1>2 DEF Slot, PrevSlot, Bucket
<1>4. key' = key /\ (Slot(r) \in firm => Slot(r) \in firm')
  BY <1>0, <1>1, ReaderSees
<1>5. Stored(r)'
  BY <1>0, <1>1, <1>2 DEF SearchInvariant, Stored
<1>6. barrier = "full" => Fenced(r)'
  BY <1>0, <1>1, <1>2, <1>3, <1>4 DEF SearchInvariant, Fenced
<1>7. ASSUME sound[r] PROVE SoundWalk(r)'
  <2>1. PICK n : n = rd[r].cur
    OBVIOUS
  <2>2. /\ buf[r] = <<>> /\ Slot(r) \in firm /\ HP[Slot(r)] = n
        /\ BucketOf(key[n]) = Bucket(r)
        /\ key[n] = want[r] => 1 \in seen[r]
        /\ key[n] > want[r] => 0 \in seen[r]
        /\ key[n] < want[r] /\ ~Unfreed(n) /\ next[n] = NULL => 0 \in seen[r]
    BY <1>0, <1>7, <2>1 DEF SearchInvariant, SoundWalk
  <2>3. n \in Nodes /\ want[r] \in Keys
    BY <1>0, <2>1, ReaderBucket, ReaderTypes DEF SearchInvariant, Stored, NodePtr
  <2>4. key[n] < want[r] /\ next[n] = NULL => 0 \in seen[r]
    BY <1>0, <2>2, <2>3, NextAnswers DEF Bucket
  <2> QED
    BY <1>1, <1>2, <1>3, <1>4, <2>1, <2>2, <2>4 DEF SoundWalk
<1> QED
  BY <1>1, <1>5, <1>6, <1>7 DEF SearchInvariant

\* The slot of cur becomes that of prev; the other one is used next.
LEMMA OwnKey ==
  ASSUME IInv, NEW r \in Readers, ReadKey(r), Remember
  PROVE  SearchInvariant(r)'
<1>0. TypeOK /\ SearchInvariant(r) /\ rd[r].pc = "key" /\ Reader(r)
  BY DEF IInv, ReadKey, Reader, SearchStep
<1>1. UNCHANGED <<barrier, HP, buf, sound>> /\ (barrier = "full" => Len(buf[r]) <= 0)
  BY <1>0 DEF ReadKey, hpVars, SearchInvariant, Fenced
<1> DEFINE state == [pc |-> "set", prev |-> rd[r].cur, cur |-> rd[r].nxt,
                     nxt |-> NULL, off |-> 1 - rd[r].off]
<1>2. CASE \E x : Return(r, x)
  BY <1>1, <1>2, OwnReturn
<1>3. CASE /\ ~(key[rd[r].cur] >= want[r]) /\ rd[r].nxt # NULL
           /\ Become(r, state) /\ UNCHANGED searchVars
  <2>1. rd'[r] = state /\ want' = want
    BY <1>0, <1>3 DEF Become, TypeOK, searchVars
  <2>2. /\ rd'[r].pc = "set" /\ rd'[r].prev = rd[r].cur /\ rd'[r].cur = rd[r].nxt
        /\ rd'[r].off = 1 - rd[r].off
    BY <2>1
  <2>3. PrevSlot(r)' = Slot(r) /\ Bucket(r)' = Bucket(r)
    <3>1. rd[r].off \in {0, 1} /\ 1 - (1 - rd[r].off) = rd[r].off
      BY <1>0, ReaderTypes
    <3> QED
      BY <2>1, <2>2, <3>1 DEF Slot, PrevSlot, Bucket
  <2>4. Stored(r)'
    BY <1>0, <1>3, <2>1, <2>2 DEF SearchInvariant, Stored
  <2>5. barrier = "full" => Fenced(r)'
    BY <1>1, <2>2 DEF Fenced
  <2>6. ASSUME sound[r] PROVE SoundWalk(r)'
    <3>1. /\ buf[r] = <<>> /\ Slot(r) \in firm /\ HP[Slot(r)] = rd[r].cur
          /\ BucketOf(key[rd[r].cur]) = Bucket(r)
      BY <1>0, <2>6 DEF SearchInvariant, SoundWalk
    <3>2. key' = key /\ Slot(r) \in firm'
      BY <1>0, <1>1, <3>1, ReaderSees
    <3>3. key[rd[r].cur] \in Nat /\ want[r] \in Nat
      BY <1>0, ReaderBucket, ReaderTypes DEF SearchInvariant, Stored, NodePtr, TypeOK, ListTypeOK
    <3>4. Len(buf'[r]) = 0 /\ key[rd[r].cur] < want[r]
      BY <1>1, <1>3, <3>1, <3>3
    <3> QED
      BY <1>1, <2>1, <2>2, <2>3, <3>1, <3>2, <3>4 DEF SoundWalk
  <2> QED
    BY <1>1, <2>4, <2>5, <2>6 DEF SearchInvariant
<1> QED
  BY <1>2, <1>3 DEF ReadKey, Visit

(***************************************************************************)
(* The invariant                                                           *)
(***************************************************************************)
\* The table before any thread runs.
LEMMA InitInv == Init => IInv
<1> SUFFICES ASSUME Init PROVE IInv
  OBVIOUS
<1>1. ListInv /\ ListTypeOK
  BY ListInitInv DEF Init, ListInv
<1>2. TypeOK
  BY <1>1 DEF Init, TypeOK, AtRest, ReaderState, NodePtr
<1>3. ZombiesApart /\ FirmKept
  BY DEF Init, ZombiesApart, FirmKept
<1>4. ASSUME NEW w \in Writers PROVE ScanCounted(w)
  <2>1. zl[w] = {} /\ plist[w] = {} /\ left[w] = Slots
    BY DEF Init
  <2>2. IsFiniteSet({}) /\ Cardinality({}) = 0 /\ Cardinality(NamedSlots(w)) \in Nat
    BY FS_EmptySet, NamedFinite
  <2> QED
    BY <2>1, <2>2 DEF ScanCounted
<1>5. ASSUME NEW r \in Readers PROVE SearchInvariant(r)
  <2>1. rd[r].pc = "idle" /\ buf[r] = <<>> /\ want[r] = NULL
    BY DEF Init, AtRest, ListInit
  <2>2. Len(buf[r]) = 0
    BY <2>1
  <2> QED
    BY <2>1, <2>2 DEF SearchInvariant, Stored, Fenced, SoundWalk
<1> QED
  BY <1>1, <1>2, <1>3, <1>4, <1>5 DEF IInv

\* Every step keeps the inductive invariant.
LEMMA NextInvariant ==
  ASSUME IInv, Next
  PROVE  IInv'
<1>1. ListInv' /\ TypeOK' /\ Remember
  BY ListStep, TypeStep DEF Next
<1>2. ASSUME NEW w \in Writers, Writer(w) PROVE IInv'
  <2>1. ZombiesApart' /\ FirmKept'
    BY <1>1, <1>2, ZombieStep, FirmStepWriter
  <2>2. \A v \in Writers : ScanCounted(v)'
    BY <1>2, CountStepWriter
  <2>3. \A r \in Readers : SearchInvariant(r)'
    BY <1>1, <1>2, WriterKeepsSearch
  <2> QED
    BY <1>1, <2>1, <2>2, <2>3 DEF IInv
<1>3. ASSUME NEW r \in Readers, Reader(r) PROVE IInv'
  <2>1. ZombiesApart' /\ FirmKept'
    BY <1>1, <1>3, FirmStepReader
  <2>2. \A v \in Writers : ScanCounted(v)'
    BY <1>3, CountStepReader
  <2>3. SearchInvariant(r)'
    BY <1>1, <1>3, OwnCall, OwnHead, OwnProtect, OwnFlush, OwnCheck, OwnNext, OwnKey
       DEF Reader, SearchStep
  <2>4. \A q \in Readers : SearchInvariant(q)'
    BY <1>1, <1>3, <2>3, OtherReaders
  <2> QED
    BY <1>1, <2>1, <2>2, <2>4 DEF IInv
<1> QED
  BY <1>2, <1>3 DEF Next, Writer, Reader

\* So does a step that changes none of the variables.
LEMMA StepInvariant == IInv /\ [Next]_vars => IInv'
<1> SUFFICES ASSUME IInv, [Next]_vars PROVE IInv'
  OBVIOUS
<1>1. CASE Next
  BY <1>1, NextInvariant
<1>2. CASE UNCHANGED vars
  <2> USE <1>2 DEF vars, listVars, memVars, writerVars, searchVars, hpVars, zombieVars
  <2>1. ListTypeOK' /\ TypeOK'
    BY DEF IInv, TypeOK, ListTypeOK
  <2>2. OwnsBucket' /\ Position'
    BY DEF IInv, ListInv, OwnsBucket, InCall, WriterBucket, Position, WellPlaced,
           AtPosition, Deref, Absent
  <2>3. ListWellFormed' /\ SeenNow'
    BY QuietList, QuietSeen DEF IInv, ListInv
  <2>4. OneRole' /\ ZombiesApart'
    BY DEF IInv, ListInv, OneRole, ZombiesApart, Held
  <2>5. FirmKept'
    BY DEF IInv, FirmKept, Unfreed, Scanning
  <2>6. \A w \in Writers : ScanCounted(w)'
    BY DEF IInv, ScanCounted, NamedSlots, Scanning
  <2>7. \A r \in Readers : SearchInvariant(r)'
    <3> SUFFICES ASSUME NEW r \in Readers PROVE SearchInvariant(r)'
      OBVIOUS
    <3>1. SearchInvariant(r)
      BY DEF IInv
    <3>2. Stored(r)' = Stored(r)
      BY DEF Stored, Slot
    <3>3. Fenced(r)' = Fenced(r)
      BY DEF Fenced, Slot
    <3>4. SoundWalk(r)' = SoundWalk(r)
      BY DEF SoundWalk, Unfreed, Slot, PrevSlot, Bucket
    <3> QED
      BY <3>1, <3>2, <3>3, <3>4 DEF SearchInvariant
  <2> QED
    BY <2>1, <2>2, <2>3, <2>4, <2>5, <2>6, <2>7 DEF IInv, ListInv
<1> QED
  BY <1>1, <1>2

\* The inductive invariant of list_writer.c with list_hp.c and hp.c, with
\* write_read_barrier an sfence or a full barrier, and with scan reading slots
\* ahead of the unlinking store (hp.c:74) or not.
THEOREM Invariance == Spec => []IInv
BY InitInv, StepInvariant, PTL DEF Spec

\* A firm slot's node has not been freed.
LEMMA FirmNotFree ==
  ASSUME IInv, NEW s \in firm
  PROVE  HP[s] \notin free
<1>1. PICK n : n = HP[s]
  OBVIOUS
<1>2. Unfreed(n) \/ \E w \in Writers : n \in zl[w]
  BY <1>1 DEF IInv, FirmKept
<1>3. n \in live => n \notin free
  BY DEF IInv, ListInv, OneRole
<1>4. ASSUME NEW w \in Writers, wpc[w] = "retire", wcur[w] = n PROVE n \notin free
  BY <1>4, RetiredNode DEF IInv
<1>5. ASSUME NEW w \in Writers, n \in zl[w] PROVE n \notin free
  BY <1>5 DEF IInv, ZombiesApart
<1> QED
  BY <1>1, <1>2, <1>3, <1>4, <1>5 DEF Unfreed

(***************************************************************************)
(* What scan is for (hp.c:78, :96), for every number of threads, slots and *)
(* zombies: a node that was linked in memory while a slot named it, and no *)
(* scan ahead of its unlinking store (hp.c:74) had read past the slot by   *)
(* then, is not freed as long as the slot names it.                        *)
(***************************************************************************)
THEOREM HazardsRespected == Spec => []HazardRespected
<1>1. IInv => HazardRespected
  BY FirmNotFree DEF HazardRespected
<1> QED
  BY <1>1, Invariance, PTL

(***************************************************************************)
(* With the barrier atomic.h:139 describes in search, and the one hp.c:62  *)
(* describes in scan, search does not read next or key of a freed first    *)
(* node of a bucket (list_hp.c:39, :42).  It takes both.                   *)
(***************************************************************************)
THEOREM HeadProtection == Spec => []FencedHeadProtects
<1>1. IInv => FencedHeadProtects
  <2> SUFFICES ASSUME IInv, barrier = "full", fence = "full", NEW r \in Readers,
                      rd[r].pc \in {"next", "key"}, rd[r].prev = NULL
               PROVE  rd[r].cur \notin free
    BY DEF FencedHeadProtects, HeadProtects
  <2>1. HP[Slot(r)] = rd[r].cur /\ Slot(r) \in firm
    BY DEF IInv, SearchInvariant, Fenced
  <2> QED
    BY <2>1, FirmNotFree
<1> QED
  BY <1>1, Invariance, PTL

\* Once delete is past free_node_later its list is short enough.
LEMMA BoundStep ==
  ASSUME IInv, ZombiesBounded, Next
  PROVE  ZombiesBounded'
<1> DEFINE Set0 == {s \in Slots : HP[s] # NULL}
           Set1 == {s \in Slots : HP'[s] # NULL}
<1>0. /\ TypeOK /\ ListTypeOK /\ R \in Nat
      /\ IsFiniteSet(Set0) /\ IsFiniteSet(Set1)
      /\ Cardinality(Set0) \in Nat /\ Cardinality(Set1) \in Nat
  <2>1. Set0 \subseteq Slots /\ Set1 \subseteq Slots
    OBVIOUS
  <2>2. IsFiniteSet(Set0) /\ IsFiniteSet(Set1)
    BY <2>1, SlotsFinite, FS_Subset
  <2> QED
    BY <2>2, FS_CardinalityType, HazardAssumption DEF IInv, TypeOK
<1>1. ASSUME NEW w \in Writers, Writer(w), NEW v \in Writers, wpc'[v] # "retire"
      PROVE  Cardinality(zl'[v]) <= R \/ Cardinality(zl'[v]) <= Cardinality(Set1)
  <2>0. Set1 = Set0 /\ IsFiniteSet(zl[v]) /\ Cardinality(zl[v]) \in Nat
    BY <1>1, FS_CardinalityType DEF Writer, UpdateStep, hpVars, IInv, ScanCounted
  <2>1. CASE wpc[v] # "retire" /\ zl'[v] = zl[v]
    BY <2>0, <2>1 DEF ZombiesBounded
  <2>2. CASE v # w
    BY <1>1, <2>1, <2>2, OtherWriters
  <2>3. CASE v = w /\ (WriterStep(w) \/ Call(w)) /\ UNCHANGED zombieVars
    <3>1. wpc[w] # "retire"
      BY <2>3 DEF WriterStep, Call, InsertCall, DeleteCall, BeginCall, LockW, Step, Miss, Unlink,
                  FreeNode, NewNode, SetKey, SetNext, Link, UnlockW
    <3> QED
      BY <2>1, <2>3, <3>1 DEF zombieVars
  <2>4. CASE v = w /\ FreeNodeLater(w)
    <3>1. zl'[w] = zl[w] \cup {wcur[w]} /\ ~(Cardinality(zl[w]) + 1 > R)
      BY <1>0, <1>1, <2>4 DEF FreeNodeLater, RetireIf, Full, TypeOK
    <3>2. Cardinality(zl[w] \cup {wcur[w]}) =
            IF wcur[w] \in zl[w] THEN Cardinality(zl[w]) ELSE Cardinality(zl[w]) + 1
      BY <2>0, <2>4, FS_AddElement
    <3> QED
      BY <1>0, <2>0, <2>4, <3>1, <3>2
  <2>5. CASE v = w /\ (ScanAhead(w) \/ ScanSlot(w))
    <3>1. UNCHANGED <<zl, wpc>>
      BY <2>5, ScanSteps DEF writerVars
    <3> QED
      BY <1>1, <2>1, <2>5, <3>1
  <2>6. CASE v = w /\ Sweep(w)
    <3>1. zl'[w] \subseteq plist[w]
      BY <1>0, <2>6 DEF Sweep, SweepExcept, TypeOK
    <3>2. IsFiniteSet(plist[w]) /\ Cardinality(plist[w]) <= Cardinality(NamedSlots(w))
      BY DEF IInv, ScanCounted
    <3>3. Cardinality(zl'[w]) <= Cardinality(plist[w]) /\ IsFiniteSet(zl'[w])
      BY <3>1, <3>2, FS_Subset
    <3>4. NamedSlots(w) \subseteq Set0
      BY DEF NamedSlots
    <3>5. Cardinality(NamedSlots(w)) <= Cardinality(Set0)
      BY <1>0, <3>4, FS_Subset
    <3>6. /\ Cardinality(zl'[w]) \in Nat /\ Cardinality(plist[w]) \in Nat
          /\ Cardinality(NamedSlots(w)) \in Nat
      BY <3>2, <3>3, NamedFinite, FS_CardinalityType
    <3> QED
      BY <1>0, <2>0, <2>6, <3>2, <3>3, <3>5, <3>6
  <2> QED
    BY <1>1, <2>2, <2>3, <2>4, <2>5, <2>6 DEF Writer, UpdateStep, zombieVars
<1>2. ASSUME NEW r \in Readers, Reader(r), NEW v \in Writers, wpc'[v] # "retire"
      PROVE  Cardinality(zl'[v]) <= R \/ Cardinality(zl'[v]) <= Cardinality(Set1)
  <2>1. zl' = zl /\ wpc[v] # "retire"
    BY <1>2, ReaderQuiet DEF ReaderFrame, zombieVars, writerVars
  <2>2. Set0 \subseteq Set1
    BY <1>2, SlotsStaySet
  <2>3. Cardinality(Set0) <= Cardinality(Set1)
    BY <1>0, <2>2, FS_Subset
  <2>4. Cardinality(zl[v]) <= R \/ Cardinality(zl[v]) <= Cardinality(Set0)
    BY <2>1 DEF ZombiesBounded
  <2>5. Cardinality(zl[v]) \in Nat
    BY FS_CardinalityType DEF IInv, ScanCounted
  <2> QED
    BY <1>0, <2>1, <2>3, <2>4, <2>5
<1>3. \A v \in Writers : wpc'[v] # "retire" =>
        Cardinality(zl'[v]) <= R \/ Cardinality(zl'[v]) <= Cardinality(Set1)
  BY <1>1, <1>2 DEF Next, Writer, Reader
<1> QED
  BY <1>3 DEF ZombiesBounded

(***************************************************************************)
(* Unlinked memory is bounded (hp.c:106), for every R and every number of  *)
(* threads: an updater outside free_node_later keeps at most R zombies, or *)
(* no more than there are slots that were ever set.                        *)
(***************************************************************************)
THEOREM MemoryBounded == Spec => []ZombiesBounded
<1>1. Init => ZombiesBounded
  <2> SUFFICES ASSUME Init, NEW w \in Writers PROVE Cardinality(zl[w]) <= R
    BY DEF ZombiesBounded
  <2> QED
    BY FS_EmptySet, HazardAssumption DEF Init
<1>2. IInv /\ ZombiesBounded /\ [Next]_vars => ZombiesBounded'
  <2>1. CASE UNCHANGED vars
    BY <2>1 DEF vars, listVars, writerVars, hpVars, zombieVars, ZombiesBounded
  <2> QED
    BY <2>1, BoundStep
<1> QED
  BY <1>1, <1>2, Invariance, PTL DEF Spec

(***************************************************************************)
(* A search in which every check (list_hp.c:42) went through the head or a *)
(* linked node, with the store to the slot in memory and not missed by a   *)
(* scan ahead of its unlinking store (hp.c:74), answers as the set did at  *)
(* some moment of the call, whatever the barriers and however much of the  *)
(* list was unlinked, freed and reused around it.                          *)
(***************************************************************************)
THEOREM SoundAnswers == Spec => SoundSearches
<1> DEFINE A == \A r \in Readers : Answered(r) /\ sound'[r] => ret'[r] \in seen[r]
<1>1. IInv /\ [Next]_vars => [A]_vars
  <2> SUFFICES ASSUME IInv, Next, NEW r \in Readers, Answered(r), sound'[r]
               PROVE  ret'[r] \in seen[r]
    OBVIOUS
  <2>0. TypeOK /\ ListTypeOK /\ ListInv
    BY DEF IInv, TypeOK
  <2>1. ASSUME NEW w \in Writers, Writer(w) PROVE FALSE
    BY <2>1, WriterSearchVars DEF Answered
  <2>2. ASSUME NEW q \in Readers, Reader(q), q # r PROVE FALSE
    BY <2>0, <2>2, ReaderQuiet DEF Answered, searchVars, BeginSearch, EndSearch, ListTypeOK
  <2>3. ASSUME Reader(r) PROVE ret'[r] \in seen[r]
    <3>0. rd[r].pc \in {"head", "key"} => /\ want[r] \in Keys /\ want[r] \in Nat
                                          /\ Bucket(r) \in Buckets
      BY ReaderBucket
    <3>1. CASE ReadHead(r)
      <4>1. head[Bucket(r)] = NULL /\ ret'[r] = 0
        BY <2>0, <3>1 DEF ReadHead, Visit, Return, EndSearch, Answered, searchVars, AtRest, ListTypeOK
      <4> QED
        BY <2>0, <3>0, <3>1, <4>1, HeadAnswers DEF ReadHead, Bucket
    <3>2. CASE ReadKey(r)
      <4> DEFINE k == key[rd[r].cur]
      <4>1. rd[r].pc = "key" /\ sound[r]
        BY <3>2 DEF ReadKey
      <4>2. /\ k = want[r] => 1 \in seen[r]
            /\ k > want[r] => 0 \in seen[r]
            /\ k < want[r] /\ rd[r].nxt = NULL => 0 \in seen[r]
        BY <4>1 DEF IInv, SearchInvariant, SoundWalk
      <4>3. k \in Nat /\ want[r] \in Nat
        BY <2>0, <3>0, <4>1, ReaderTypes
           DEF IInv, SearchInvariant, Stored, NodePtr, TypeOK, ListTypeOK
      <4>4. CASE k >= want[r]
        <5>1. ret'[r] = IF k = want[r] THEN 1 ELSE 0
          BY <2>0, <3>2, <4>4 DEF ReadKey, Return, EndSearch, ListTypeOK
        <5> QED
          BY <4>2, <4>3, <4>4, <5>1
      <4>5. CASE ~(k >= want[r])
        <5>1. rd[r].nxt = NULL /\ ret'[r] = 0
          BY <2>0, <3>2, <4>5 DEF ReadKey, Visit, Return, EndSearch, Answered, searchVars, ListTypeOK
        <5> QED
          BY <4>2, <4>3, <4>5, <5>1
      <4> QED
        BY <4>4, <4>5
    <3>3. CASE \E k \in Keys : SearchCall(r, k)
      BY <2>0, <3>3, HashListAssumption DEF SearchCall, BeginSearch, Answered, ListTypeOK
    <3>4. CASE UNCHANGED searchVars
      BY <3>4 DEF searchVars, Answered
    <3> QED
      BY <2>3, <3>1, <3>2, <3>3, <3>4
         DEF Reader, SearchStep, Protect, CheckPrev, CheckPrevIf, ReadNext, Flush
  <2> QED
    BY <2>1, <2>2, <2>3 DEF Next, Writer, Reader
<1> QED
  BY <1>1, Invariance, PTL DEF Spec, SoundSearches
===============================================================================
