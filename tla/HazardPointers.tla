---------------------------- MODULE HazardPointers ----------------------------
(***************************************************************************)
(* Hazard pointers: list_hp.c and hp.c.  A reader stores the node it is    *)
(* about to visit in one of its two slots of HP and reads the link that    *)
(* led to it again; an updater keeps the nodes it unlinked on a list of    *)
(* its own and, when there are more than R, frees those no slot names.     *)
(*                                                                         *)
(* A store waits in the processor's store buffer until it is written to    *)
(* memory, and a thread may read on meanwhile.  Both sides rely on a       *)
(* barrier against it, and neither barrier in the code is one:             *)
(*  - a reader must not read the link again before its slot is in memory;  *)
(*    write_read_barrier is an sfence (atomic.h:146);                      *)
(*  - an updater must not read the slots before its unlinking store is in  *)
(*    memory; write_write_barrier (hp.c:74) is a compiler barrier.         *)
(* "full" is what the comments above them promise.                         *)
(*                                                                         *)
(* The steps of HashList stand where the updater's stores reach memory.    *)
(* An updater that is ahead of them matters only where it reads what       *)
(* others write, and that is in scan: ScanAhead.                           *)
(***************************************************************************)
EXTENDS HashList, FiniteSets, Sequences

CONSTANTS
  R,           \* R of hp.h: 0 with DIRECT_SCAN
  Barriers,    \* the kinds of write_read_barrier (list_hp.c:41) under study
  Fences,      \* the kinds of barrier in scan (hp.c:74) under study
  MaxBuffer    \* bound: the stores a reader's store buffer holds

ASSUME HazardAssumption ==
  /\ R \in Nat /\ MaxBuffer \in Nat \ {0}
  /\ Barriers \subseteq {"sfence", "full"} /\ Fences \subseteq {"compiler", "full"}
  /\ IsFiniteSet(Readers)

VARIABLES
  barrier, fence,
  HP,      \* HP[base + off].p; the third slot of a thread (K = 3) is never set
  buf,     \* the reader's stores to HP that are not in memory yet
  zl,      \* zlist: what an updater has unlinked and not freed
  left,    \* the slots an updater's scan, or its next one, has yet to read
  plist,   \* what it has read from the others
  rd,      \* each reader's place in search, and its locals
  firm,    \* history: the slots whose node was linked while they named it,
           \* with no updater ahead that had missed it there
  sound    \* history: the walk so far checked each cur in a linked prev,
           \* with the store to its slot already in memory and not missed

Slots      == Readers \X {0, 1}
hpVars     == <<barrier, fence, HP, buf>>
zombieVars == <<zl, left, plist>>
vars       == <<listVars, hpVars, zombieVars, rd, firm, sound>>

ReaderState == [pc : {"idle", "head", "set", "check", "next", "key"},
                prev : NodePtr, cur : NodePtr, nxt : NodePtr, off : {0, 1}]

AtRest == [pc |-> "idle", prev |-> NULL, cur |-> NULL, nxt |-> NULL, off |-> 0]

TypeOK ==
  /\ ListTypeOK
  /\ barrier \in Barriers /\ fence \in Fences
  /\ HP \in [Slots -> NodePtr]
  /\ buf \in [Readers -> Seq({0, 1} \X Nodes)]
  /\ zl \in [Writers -> SUBSET Nodes]
  /\ left \in [Writers -> SUBSET Slots]
  /\ plist \in [Writers -> SUBSET Nodes]
  /\ rd \in [Readers -> ReaderState]
  /\ firm \subseteq Slots
  /\ sound \in [Readers -> BOOLEAN]

Init ==
  /\ ListInit
  /\ barrier \in Barriers /\ fence \in Fences
  /\ HP = [s \in Slots |-> NULL]
  /\ buf = [r \in Readers |-> <<>>]
  /\ zl = [w \in Writers |-> {}]
  /\ left = [w \in Writers |-> Slots]
  /\ plist = [w \in Writers |-> {}]
  /\ rd = [r \in Readers |-> AtRest]
  /\ firm = {}
  /\ sound = [r \in Readers |-> TRUE]

(***************************************************************************)
(* The updater: free_node_later and scan                                   *)
(***************************************************************************)
Call(w) == \E k \in Keys : InsertCall(w, k) \/ DeleteCall(w, k)

\* cur is on the zombie list already: the call is in scan.
Scanning(w) == wpc[w] = "retire" /\ wcur[w] \in zl[w]

RetireFrame == UNCHANGED <<memVars, lock, live, wop, wkey, wprev, wcur, wnew, searchVars>>

\* Push n on the zombie list, and scan if it has become too long.
RetireIf(w, full) ==
  /\ wpc[w] = "retire"
  /\ ~Scanning(w)
  /\ zl' = [zl EXCEPT ![w] = @ \cup {wcur[w]}]
  /\ IF full THEN UNCHANGED wpc ELSE GoTo(w, "unlock")
  /\ UNCHANGED <<free, left, plist>>
  /\ RetireFrame

\* Mutant: the list is never scanned.
FreeNodeLaterNoScan(w) == RetireIf(w, FALSE)

\* ++zl->number > R
Full(w) == Cardinality(zl[w]) + 1 > R

\* if (++zl->number > R) scan(thread)
FreeNodeLater(w) == RetireIf(w, Full(w))

\* Stage 1, one slot; a slot that is NULL is left out.
ScanNext(w, s, done) ==
  /\ s \in left[w]
  /\ left' = [left EXCEPT ![w] = @ \ done]
  /\ plist' = [plist EXCEPT ![w] = @ \cup ({HP[s]} \ {NULL})]
  /\ UNCHANGED <<listVars, zl>>

\* Mutant: one slot is read per thread.
ScanSlotStride(w) == Scanning(w) /\ \E s \in Slots : ScanNext(w, s, {s[1]} \X {0, 1})

ScanSlot(w) == Scanning(w) /\ \E s \in Slots : ScanNext(w, s, {s})

(***************************************************************************)
(* The updater has executed delete up to scan, but stores are still in its *)
(* buffer.  lock_wlock is a locked instruction, which empties it, so what  *)
(* waits is the unlinking store of this call; with ONE_WRITER there is no  *)
(* lock, and stores of earlier calls may be waiting too (bound: the        *)
(* updater is never two scans ahead of memory).                            *)
(***************************************************************************)
Unstored(w) ==
  /\ ~Scanning(w)
  /\ OneWriter \/ (wpc[w] = "walk" /\ wop[w] = "delete" /\ Found(w) /\ Full(w))

\* Mutant: the slots are read before the barrier.
AheadOfFence(w) == Unstored(w)

\* write_write_barrier does not wait for the stores.
Ahead(w) == fence = "compiler" /\ Unstored(w)

\* A slot is read by a scan whose unlinking store is not in memory yet.
ScanAhead(w) == Ahead(w) /\ \E s \in Slots : ScanNext(w, s, {s})

\* Stages 2 and 3: keep what plist names, free the rest, and return.
SweepExcept(w, kept) ==
  /\ Scanning(w)
  /\ left[w] = {}
  /\ zl' = [zl EXCEPT ![w] = @ \cap kept]
  /\ free' = free \cup (zl[w] \ kept)
  /\ plist' = [plist EXCEPT ![w] = {}]
  /\ left' = [left EXCEPT ![w] = Slots]
  /\ GoTo(w, "unlock")
  /\ RetireFrame

\* Mutant: what the slots name is freed too.
SweepAll(w) == SweepExcept(w, {})

Sweep(w) == SweepExcept(w, plist[w])

UpdateStep(w) ==
  /\ \/ WriterStep(w) /\ UNCHANGED zombieVars
     \/ FreeNodeLater(w) \/ ScanAhead(w) \/ ScanSlot(w) \/ Sweep(w)
  /\ UNCHANGED <<hpVars, rd, sound>>

\* An updater that is ahead has read slot s, and not found there the node
\* that it names now.
Missed(w, s) == ~Scanning(w) /\ s \notin left[w] /\ HP[s] \notin plist[w]

(***************************************************************************)
(* search                                                                  *)
(***************************************************************************)
Bucket(r) == BucketOf(want[r])

\* The slot of cur, and the other one, which still names prev.
Slot(r)     == <<r, rd[r].off>>
PrevSlot(r) == <<r, 1 - rd[r].off>>

ReaderFrame == UNCHANGED <<memVars, lock, free, live, writerVars, zombieVars>>

Become(r, state) == rd' = [rd EXCEPT ![r] = state]

Return(r, result) == EndSearch(r, result) /\ Become(r, AtRest)

\* cur = n, and round the loop unless it is NULL
Visit(r, state) ==
  IF state.cur = NULL THEN Return(r, 0) ELSE Become(r, state) /\ UNCHANGED searchVars

SearchCall(r, k) ==
  /\ rd[r].pc = "idle"
  /\ BeginSearch(r, k)
  /\ Become(r, [AtRest EXCEPT !.pc = "head"])
  /\ ReaderFrame
  /\ UNCHANGED <<hpVars, sound>>

\* prev = head; cur = *prev.  off keeps its value over a goto try_again.
ReadHead(r) ==
  /\ rd[r].pc = "head"
  /\ sound' = [sound EXCEPT ![r] = TRUE]
  /\ Visit(r, [AtRest EXCEPT !.pc = "set", !.cur = head[Bucket(r)], !.off = rd[r].off])
  /\ ReaderFrame
  /\ UNCHANGED hpVars

\* HP[base + off].p = cur
Protect(r) ==
  /\ rd[r].pc = "set"
  /\ Len(buf[r]) < MaxBuffer
  /\ buf' = [buf EXCEPT ![r] = Append(@, <<rd[r].off, rd[r].cur>>)]
  /\ Become(r, [rd[r] EXCEPT !.pc = "check"])
  /\ ReaderFrame
  /\ UNCHANGED <<barrier, fence, HP, searchVars, sound>>

\* The oldest store of the buffer reaches memory.
Flush(r) ==
  /\ buf[r] # <<>>
  /\ HP' = [HP EXCEPT ![<<r, Head(buf[r])[1]>>] = Head(buf[r])[2]]
  /\ buf' = [buf EXCEPT ![r] = Tail(@)]
  /\ ReaderFrame
  /\ UNCHANGED <<barrier, fence, searchVars, rd, sound>>

\* Past write_read_barrier
CheckPrevIf(r, same) ==
  /\ rd[r].pc = "check"
  /\ barrier = "full" => buf[r] = <<>>
  /\ Become(r, [rd[r] EXCEPT !.pc = IF same THEN "next" ELSE "head"])
  /\ sound' = [sound EXCEPT ![r] = /\ @
                                   /\ rd[r].prev \in live \cup {NULL}
                                   /\ buf[r] = <<>>
                                   /\ \A w \in Writers : ~Missed(w, Slot(r))]
  /\ ReaderFrame
  /\ UNCHANGED <<hpVars, searchVars>>

\* Mutant: *prev is not read again.
CheckPrevNever(r) == CheckPrevIf(r, TRUE)

\* if (*prev != cur) goto try_again
CheckPrev(r) == CheckPrevIf(r, Deref(Bucket(r), rd[r].prev) = rd[r].cur)

ReadNext(r) ==
  /\ rd[r].pc = "next"
  /\ Become(r, [rd[r] EXCEPT !.pc = "key", !.nxt = next[rd[r].cur]])
  /\ ReaderFrame
  /\ UNCHANGED <<hpVars, searchVars, sound>>

\* cur->key, and on to the next node with the other slot
ReadKey(r) ==
  LET k == key[rd[r].cur] IN
  /\ rd[r].pc = "key"
  /\ IF k >= want[r]
       THEN Return(r, IF k = want[r] THEN 1 ELSE 0)
       ELSE Visit(r, [pc |-> "set", prev |-> rd[r].cur, cur |-> rd[r].nxt,
                      nxt |-> NULL, off |-> 1 - rd[r].off])
  /\ ReaderFrame
  /\ UNCHANGED <<hpVars, sound>>

SearchStep(r) ==
  ReadHead(r) \/ Protect(r) \/ CheckPrev(r) \/ ReadNext(r) \/ ReadKey(r)

\* firm is kept along with every step.
Remember ==
  firm' = {s \in Slots : \/ HP'[s] \in live' /\ \A w \in Writers : ~Missed(w, s)'
                         \/ s \in firm /\ HP'[s] = HP[s]}

Next ==
  /\ \/ \E w \in Writers :
          UpdateStep(w) \/ (Call(w) /\ UNCHANGED <<hpVars, zombieVars, rd, sound>>)
     \/ \E r \in Readers :
          SearchStep(r) \/ Flush(r) \/ \E k \in Keys : SearchCall(r, k)
  /\ Remember

Spec == Init /\ [][Next]_vars

(***************************************************************************)
(* Properties                                                              *)
(***************************************************************************)
(***************************************************************************)
(* What scan (hp.c:78, :96) is for: a node a slot names is not freed if it *)
(* was in the table at a moment when the slot already named it, however    *)
(* the reads of the slots one after the other and the stores to them       *)
(* interleave; except that an updater which reads slots before its         *)
(* unlinking store is in memory (hp.c:74) must not have read this one      *)
(* before that moment.  Behind a full barrier no updater does.             *)
(***************************************************************************)
HazardRespected == \A s \in firm : HP[s] \notin free

(***************************************************************************)
(* "Protect cur with a hazard pointer" (list_hp.c:39): a node search reads *)
(* next and key of has not been freed.                                     *)
(***************************************************************************)
HazardProtects == \A r \in Readers : rd[r].pc \in {"next", "key"} => rd[r].cur \notin free

(***************************************************************************)
(* The same for the first node of a bucket, where prev is the head itself  *)
(* and list_hp.c:42 cannot be deceived by an unlinked prev.                *)
(***************************************************************************)
HeadProtects ==
  \A r \in Readers :
    rd[r].pc \in {"next", "key"} /\ rd[r].prev = NULL => rd[r].cur \notin free

(***************************************************************************)
(* With the barriers that atomic.h:139 and hp.c:62 describe, it does hold  *)
(* there: the slot is in memory when the head is read again, and the node  *)
(* is unlinked in memory before a scan that could free it reads a slot.    *)
(***************************************************************************)
FencedHeadProtects == barrier = "full" /\ fence = "full" => HeadProtects

(***************************************************************************)
(* A search in which every check (list_hp.c:42) was made through the head  *)
(* or a node still linked, after the store to the slot had reached memory  *)
(* and was not missed by an updater ahead of its unlinking store, answers  *)
(* as the set did at some moment of the call.                              *)
(***************************************************************************)
SoundSearches ==
  [][\A r \in Readers : Answered(r) /\ sound'[r] => ret'[r] \in seen[r]]_vars

(***************************************************************************)
(* Unlinked memory is bounded: once delete is past free_node_later         *)
(* (hp.c:106) an updater keeps at most R zombies, or no more than there    *)
(* are slots that were ever set, since a scan leaves one per slot.         *)
(***************************************************************************)
ZombiesBounded ==
  \A w \in Writers : wpc[w] # "retire" =>
    Cardinality(zl[w]) <= R \/ Cardinality(zl[w]) <= Cardinality({s \in Slots : HP[s] # NULL})

(***************************************************************************)
(* The inductive invariant                                                 *)
(***************************************************************************)
\* A zombie is neither linked nor free, on one list only, and the only call
\* that may still have it in hand is the delete that is scanning.
ZombiesApart ==
  /\ \A w \in Writers : zl[w] \cap (live \cup free) = {}
  /\ \A v, w \in Writers : v # w => zl[v] \cap (zl[w] \cup Held(w)) = {}
  /\ \A w \in Writers : wpc[w] # "retire" => zl[w] \cap Held(w) = {}

\* A firm slot's node is linked or a zombie, and a scan that could free it,
\* or one ahead of its store, has yet to read the slot or has found the node.
FirmKept ==
  \A s \in firm :
    /\ Unfreed(HP[s]) \/ \E w \in Writers : HP[s] \in zl[w]
    /\ \A w \in Writers :
         ~Scanning(w) \/ HP[s] \in zl[w] => s \in left[w] \/ HP[s] \in plist[w]

\* A scan has found at most one node in each slot it has read, and has read
\* none ahead of a full barrier.
NamedSlots(w) == {s \in Slots \ left[w] : HP[s] # NULL}

ScanCounted(w) ==
  /\ IsFiniteSet(zl[w]) /\ IsFiniteSet(plist[w])
  /\ Cardinality(plist[w]) <= Cardinality(NamedSlots(w))
  /\ fence = "full" /\ ~Scanning(w) => left[w] = Slots

\* The last store to HP is cur's; it is in memory when the buffer is empty.
Stored(r) ==
  /\ rd[r].pc # "idle" <=> want[r] # NULL
  /\ rd[r].pc \notin {"idle", "head"} => rd[r].cur # NULL
  /\ rd[r].pc = "check" => IF buf[r] = <<>> THEN HP[Slot(r)] = rd[r].cur
                           ELSE buf[r][Len(buf[r])] = <<rd[r].off, rd[r].cur>>

\* Behind a full barrier nothing is left in the buffer, and the check at the
\* head has made the slot firm if scan has a full barrier, too.
Fenced(r) ==
  /\ Len(buf[r]) <= IF rd[r].pc = "check" THEN 1 ELSE 0
  /\ rd[r].pc \in {"next", "key"} =>
       HP[Slot(r)] = rd[r].cur /\ (fence = "full" /\ rd[r].prev = NULL => Slot(r) \in firm)

\* A sound walk stands on a node that is kept, or has come from one.
SoundWalk(r) ==
  /\ rd[r].pc \in {"next", "key"} =>
       LET n == rd[r].cur IN
       /\ buf[r] = <<>>
       /\ Slot(r) \in firm /\ HP[Slot(r)] = n
       /\ BucketOf(key[n]) = Bucket(r)
       /\ key[n] = want[r] => 1 \in seen[r]
       /\ key[n] > want[r] => 0 \in seen[r]
       /\ key[n] < want[r] /\ rd[r].pc = "next" /\ ~Unfreed(n) /\ next[n] = NULL => 0 \in seen[r]
       /\ key[n] < want[r] /\ rd[r].pc = "key" /\ rd[r].nxt = NULL => 0 \in seen[r]
  /\ rd[r].pc \in {"set", "check"} /\ rd[r].prev # NULL =>
       LET p == rd[r].prev IN
       /\ Len(buf[r]) <= IF rd[r].pc = "check" THEN 1 ELSE 0
       /\ PrevSlot(r) \in firm /\ HP[PrevSlot(r)] = p
       /\ BucketOf(key[p]) = Bucket(r) /\ key[p] < want[r]

SearchInvariant(r) ==
  /\ Stored(r)
  /\ barrier = "full" => Fenced(r)
  /\ sound[r] => SoundWalk(r)

IInv ==
  /\ TypeOK /\ ListInv /\ ZombiesApart /\ FirmKept
  /\ \A w \in Writers : ScanCounted(w)
  /\ \A r \in Readers : SearchInvariant(r)
===============================================================================
