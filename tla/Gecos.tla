--------------------------------- MODULE Gecos ---------------------------------
(***************************************************************************)
(* list_gecos.c: readers that take no lock and write no shared memory.     *)
(* Every node carries a generation gc, incremented by free_node_later when *)
(* the node is already unlinked and not yet reusable.  A reader that holds *)
(* a node with the generation it had when it was reached, and finds that   *)
(* generation again after reading the node's fields, has read fields of    *)
(* the node it meant; otherwise it goes back.                              *)
(*                                                                         *)
(* One binary is one of three builds: GECOS retries from the head whenever *)
(* a check fails, GECOS_R re-reads next in place when only next changed,   *)
(* GECOS_B does that and also falls back to the previous node when the     *)
(* current one was recycled.  In GECOS_B the locals prev and prev_gc have  *)
(* no value until the first advance of the call.                           *)
(***************************************************************************)
EXTENDS HashList

CONSTANTS
  Builds,   \* the builds under study
  MaxGc     \* bound: no delete is called once a node's gc has reached it

ASSUME GecosAssumption ==
  /\ Builds \subseteq {"GECOS", "GECOS_R", "GECOS_B"}
  /\ MaxGc \in Nat

VARIABLES
  build,                    \* the build this binary is
  gc,                       \* node_t.gc
  rpc,                      \* where the reader is in search
  cur, nxt, prev,           \* its locals cur, next and prev
  cur_gc, next_gc, prev_gc, \* the generations they were reached with
  cur_key, prev_key,        \* prev_key: the local of CHECK_CCRT
  wild                      \* history: this search used prev uninitialised

readerVars == <<rpc, cur, nxt, prev, cur_gc, next_gc, prev_gc, cur_key, prev_key, wild>>
vars == <<listVars, build, gc, readerVars>>

ReaderPc == {"idle", "head", "headgc", "headchk", "key", "next", "nextgc",
             "nextchk", "gcchk", "prevchk", "fault"}

SearchTypeOK ==
  /\ rpc \in [Readers -> ReaderPc]
  /\ cur \in [Readers -> NodePtr]
  /\ nxt \in [Readers -> NodePtr]
  /\ prev \in [Readers -> NodePtr]
  /\ cur_gc \in [Readers -> Nat]
  /\ next_gc \in [Readers -> Nat]
  /\ prev_gc \in [Readers -> Nat]
  /\ cur_key \in [Readers -> Nat]
  /\ prev_key \in [Readers -> Nat]
  /\ wild \in [Readers -> {0, 1}]

TypeOK ==
  /\ ListTypeOK
  /\ build \in Builds
  /\ gc \in [Nodes -> Nat]
  /\ SearchTypeOK

Init ==
  /\ ListInit
  /\ build \in Builds
  /\ gc = [n \in Nodes |-> 0]
  /\ rpc = [r \in Readers |-> "idle"]
  /\ cur = [r \in Readers |-> NULL]
  /\ nxt = [r \in Readers |-> NULL]
  /\ prev = [r \in Readers |-> NULL]
  /\ cur_gc = [r \in Readers |-> 0]
  /\ next_gc = [r \in Readers |-> 0]
  /\ prev_gc = [r \in Readers |-> 0]
  /\ cur_key = [r \in Readers |-> 0]
  /\ prev_key = [r \in Readers |-> 0]
  /\ wild = [r \in Readers |-> 0]

(***************************************************************************)
(* The writer side: list_writer.c with the free_node_later of list_gecos.c *)
(***************************************************************************)
\* Mutant: gc is not incremented.
RetireSilently(w) ==
  /\ wpc[w] = "retire"
  /\ GoTo(w, "free")
  /\ UNCHANGED <<gc, memVars, lock, free, live, wop, wkey, wprev, wcur, wnew, searchVars>>

\* n->gc++, before free_node(n)
Retire(w) ==
  /\ wpc[w] = "retire"
  /\ gc' = [gc EXCEPT ![wcur[w]] = @ + 1]
  /\ GoTo(w, "free")
  /\ UNCHANGED <<memVars, lock, free, live, wop, wkey, wprev, wcur, wnew, searchVars>>

Call(w) ==
  \E k \in Keys : \/ InsertCall(w, k)
                  \/ (\A n \in Nodes : gc[n] < MaxGc) /\ DeleteCall(w, k)

Writer(w) ==
  /\ \/ (Call(w) \/ WriterStep(w)) /\ UNCHANGED gc
     \/ Retire(w)
  /\ UNCHANGED <<build, readerVars>>

(***************************************************************************)
(* search                                                                  *)
(***************************************************************************)
Jump(r, pc) == rpc' = [rpc EXCEPT ![r] = pc]

\* What a step of search leaves alone: everything the reader does not own.
ReaderFrame == UNCHANGED <<memVars, lock, free, live, writerVars, build, gc>>

\* The locals die when search returns.
Return(r, result) ==
  /\ EndSearch(r, result)
  /\ Jump(r, "idle")
  /\ cur' = [cur EXCEPT ![r] = NULL]
  /\ nxt' = [nxt EXCEPT ![r] = NULL]
  /\ prev' = [prev EXCEPT ![r] = NULL]
  /\ cur_gc' = [cur_gc EXCEPT ![r] = 0]
  /\ next_gc' = [next_gc EXCEPT ![r] = 0]
  /\ prev_gc' = [prev_gc EXCEPT ![r] = 0]
  /\ cur_key' = [cur_key EXCEPT ![r] = 0]
  /\ prev_key' = [prev_key EXCEPT ![r] = 0]
  /\ wild' = [wild EXCEPT ![r] = 0]

\* goto retry: only prev and prev_gc are used again before they are assigned.
Retry(r) ==
  /\ Jump(r, "head")
  /\ cur' = [cur EXCEPT ![r] = NULL]
  /\ nxt' = [nxt EXCEPT ![r] = NULL]
  /\ cur_gc' = [cur_gc EXCEPT ![r] = 0]
  /\ next_gc' = [next_gc EXCEPT ![r] = 0]
  /\ cur_key' = [cur_key EXCEPT ![r] = 0]
  /\ prev_key' = [prev_key EXCEPT ![r] = 0]
  /\ UNCHANGED <<searchVars, prev, prev_gc, wild>>

\* The loop body from its start at node n, reached with generation g; what
\* the last turn left in next, next_gc and cur_key is not used again.
Visit(r, n, g) ==
  /\ Jump(r, "key")
  /\ cur' = [cur EXCEPT ![r] = n]
  /\ cur_gc' = [cur_gc EXCEPT ![r] = g]
  /\ nxt' = [nxt EXCEPT ![r] = NULL]
  /\ next_gc' = [next_gc EXCEPT ![r] = 0]
  /\ cur_key' = [cur_key EXCEPT ![r] = 0]
  /\ UNCHANGED searchVars

\* run() calls search(k).
SearchCall(r, k) ==
  /\ rpc[r] = "idle"
  /\ BeginSearch(r, k)
  /\ Jump(r, "head")
  /\ ReaderFrame
  /\ UNCHANGED <<cur, nxt, prev, cur_gc, next_gc, prev_gc, cur_key, prev_key, wild>>

\* retry: cur = *head; an empty bucket answers 0.
ReadHead(r) ==
  /\ rpc[r] = "head"
  /\ LET h == head[BucketOf(want[r])] IN
       IF h = NULL
         THEN Return(r, 0)
         ELSE /\ cur' = [cur EXCEPT ![r] = h]
              /\ Jump(r, "headgc")
              /\ UNCHANGED <<searchVars, nxt, prev, cur_gc, next_gc, prev_gc,
                             cur_key, prev_key, wild>>
  /\ ReaderFrame

ReadHeadGc(r) ==
  /\ rpc[r] = "headgc"
  /\ cur_gc' = [cur_gc EXCEPT ![r] = gc[cur[r]]]
  /\ Jump(r, "headchk")
  /\ ReaderFrame
  /\ UNCHANGED <<searchVars, cur, nxt, prev, next_gc, prev_gc, cur_key, prev_key, wild>>

\* Mutant: the head is not read again.
CheckHeadNever(r) ==
  /\ rpc[r] = "headchk"
  /\ Visit(r, cur[r], cur_gc[r])
  /\ UNCHANGED <<prev, prev_gc, prev_key, wild>>
  /\ ReaderFrame

\* if (cur != *head) goto retry
CheckHead(r) ==
  /\ rpc[r] = "headchk"
  /\ IF head[BucketOf(want[r])] = cur[r]
       THEN Visit(r, cur[r], cur_gc[r]) /\ UNCHANGED <<prev, prev_gc, prev_key, wild>>
       ELSE Retry(r)
  /\ ReaderFrame

ReadKey(r) ==
  /\ rpc[r] = "key"
  /\ cur_key' = [cur_key EXCEPT ![r] = key[cur[r]]]
  /\ Jump(r, "next")
  /\ ReaderFrame
  /\ UNCHANGED <<searchVars, cur, nxt, prev, cur_gc, next_gc, prev_gc, prev_key, wild>>

ReadNext(r) ==
  /\ rpc[r] = "next"
  /\ nxt' = [nxt EXCEPT ![r] = next[cur[r]]]
  /\ Jump(r, IF next[cur[r]] = NULL THEN "nextchk" ELSE "nextgc")
  /\ ReaderFrame
  /\ UNCHANGED <<searchVars, cur, prev, cur_gc, next_gc, prev_gc, cur_key, prev_key, wild>>

ReadNextGc(r) ==
  /\ rpc[r] = "nextgc"
  /\ next_gc' = [next_gc EXCEPT ![r] = gc[nxt[r]]]
  /\ Jump(r, "nextchk")
  /\ ReaderFrame
  /\ UNCHANGED <<searchVars, cur, nxt, prev, cur_gc, prev_gc, cur_key, prev_key, wild>>

\* Mutant: next is not read again.
CheckNextNever(r) ==
  /\ rpc[r] = "nextchk"
  /\ Jump(r, "gcchk")
  /\ UNCHANGED <<searchVars, cur, nxt, prev, cur_gc, next_gc, prev_gc, cur_key, prev_key, wild>>
  /\ ReaderFrame

\* Mutant: goto relink lands behind the load of next.
CheckNextSpins(r) ==
  /\ rpc[r] = "nextchk"
  /\ Jump(r, IF next[cur[r]] = nxt[r] THEN "gcchk" ELSE "nextchk")
  /\ UNCHANGED <<searchVars, cur, nxt, prev, cur_gc, next_gc, prev_gc, cur_key, prev_key, wild>>
  /\ ReaderFrame

\* if (next != cur->next) goto retry, or goto relink in the other builds
CheckNext(r) ==
  /\ rpc[r] = "nextchk"
  /\ IF next[cur[r]] # nxt[r] /\ build = "GECOS"
       THEN Retry(r)
       ELSE /\ Jump(r, IF next[cur[r]] = nxt[r] THEN "gcchk" ELSE "next")
            /\ UNCHANGED <<searchVars, cur, nxt, prev, cur_gc, next_gc, prev_gc,
                           cur_key, prev_key, wild>>
  /\ ReaderFrame

\* prev = cur; cur = next, with their generations.  cur = NULL ends the loop.
Advance(r) ==
  IF nxt[r] = NULL
    THEN Return(r, 0)
    ELSE /\ Visit(r, nxt[r], next_gc[r])
         /\ prev_key' = [prev_key EXCEPT ![r] = cur_key[r]]
         /\ IF build = "GECOS_B"
              THEN /\ prev' = [prev EXCEPT ![r] = cur[r]]
                   /\ prev_gc' = [prev_gc EXCEPT ![r] = cur_gc[r]]
              ELSE UNCHANGED <<prev, prev_gc>>
         /\ UNCHANGED wild

\* Mutant: the generation is not compared.
CheckGcNever(r) ==
  /\ rpc[r] = "gcchk"
  /\ IF cur_key[r] >= want[r]
       THEN Return(r, IF cur_key[r] = want[r] THEN 1 ELSE 0)
       ELSE Advance(r)
  /\ ReaderFrame

\* Mutant: return cur_key instead of cur_key == key.
CheckGcReturnsKey(r) ==
  /\ rpc[r] = "gcchk"
  /\ IF gc[cur[r]] = cur_gc[r]
       THEN IF cur_key[r] >= want[r] THEN Return(r, cur_key[r]) ELSE Advance(r)
       ELSE Retry(r)
  /\ ReaderFrame

\* if (cur_gc != cur->gc) goto retry; then answer, or go on to the next node
CheckGc(r) ==
  /\ rpc[r] = "gcchk"
  /\ IF gc[cur[r]] = cur_gc[r]
       THEN IF cur_key[r] >= want[r]
              THEN Return(r, IF cur_key[r] = want[r] THEN 1 ELSE 0)
              ELSE Advance(r)
       ELSE IF build = "GECOS_B"
              THEN /\ Jump(r, "prevchk")
                   /\ UNCHANGED <<searchVars, cur, nxt, prev, cur_gc, next_gc,
                                  prev_gc, cur_key, prev_key, wild>>
              ELSE Retry(r)
  /\ ReaderFrame

\* GECOS_B: if (prev_gc == prev->gc) go on from prev, else goto retry
CheckPrev(r) ==
  /\ rpc[r] = "prevchk"
  /\ prev[r] # NULL
  /\ IF gc[prev[r]] = prev_gc[r]
       THEN /\ Visit(r, prev[r], prev_gc[r])
            /\ UNCHANGED <<prev, prev_gc, prev_key, wild>>
       ELSE Retry(r)
  /\ ReaderFrame

\* The same test before the call has advanced once: prev and prev_gc are
\* whatever the stack holds.  The load faults (bt_sighandler exits, and what
\* the other threads do after that is of no interest), or the generations
\* differ, or they agree and the search goes on from whichever node prev
\* happens to name.
WildPrev(r) ==
  /\ rpc[r] = "prevchk"
  /\ prev[r] = NULL
  /\ \/ /\ Jump(r, "fault")
        /\ UNCHANGED <<searchVars, cur, nxt, prev, cur_gc, next_gc, prev_gc,
                       cur_key, prev_key, wild>>
     \/ Retry(r)
     \/ \E n \in Nodes : /\ Visit(r, n, gc[n])
                         /\ wild' = [wild EXCEPT ![r] = 1]
                         /\ UNCHANGED <<prev, prev_gc, prev_key>>
  /\ ReaderFrame

SearchStep(r) ==
  \/ ReadHead(r) \/ ReadHeadGc(r) \/ CheckHead(r)
  \/ ReadKey(r) \/ ReadNext(r) \/ ReadNextGc(r)
  \/ CheckNext(r) \/ CheckGc(r) \/ CheckPrev(r) \/ WildPrev(r)

Next ==
  \/ \E w \in Writers : Writer(w)
  \/ \E r \in Readers : SearchStep(r) \/ \E k \in Keys : SearchCall(r, k)

Spec == Init /\ [][Next]_vars

(***************************************************************************)
(* Only the readers are assumed to be scheduled: a search must come to an  *)
(* end even if the updater is preempted for ever in the middle of a call.  *)
(***************************************************************************)
FairSpec == Spec /\ \A r \in Readers : WF_vars(SearchStep(r))

(***************************************************************************)
(* Properties                                                              *)
(***************************************************************************)
InLoop(r) == rpc[r] \in {"key", "next", "nextgc", "nextchk", "gcchk"}

(***************************************************************************)
(* search (list_gecos.c:122, :80, :28) answers 1 only if its key was in    *)
(* the list at some moment of the call, and 0 only if it was out of it at  *)
(* some moment of the call, although the nodes it walks over are unlinked, *)
(* recycled under another key and linked into other buckets meanwhile.     *)
(* Nothing is claimed of a GECOS_B search that used prev uninitialised.    *)
(***************************************************************************)
SearchLinearizable ==
  [][\A r \in Readers : Answered(r) /\ wild[r] = 0 => ret'[r] \in seen[r]]_vars

(***************************************************************************)
(* What the generation buys: while a reader in the loop holds a node whose *)
(* gc is still the one it was reached with, the node is linked in the      *)
(* reader's bucket, or a delete has unlinked it and not yet incremented    *)
(* gc.  It is not free and no insert is refilling it.                      *)
(***************************************************************************)
GenerationProtects ==
  \A r \in Readers : InLoop(r) /\ wild[r] = 0 /\ gc[cur[r]] = cur_gc[r] =>
    Unfreed(cur[r]) /\ BucketOf(key[cur[r]]) = BucketOf(want[r])

(***************************************************************************)
(* assert(prev_key <= cur_key), list_gecos.c:168: the keys one pass        *)
(* accepts never decrease.                                                 *)
(***************************************************************************)
CheckCcrt ==
  \A r \in Readers :
    rpc[r] = "gcchk" /\ wild[r] = 0 /\ gc[cur[r]] = cur_gc[r] => prev_key[r] <= cur_key[r]

(***************************************************************************)
(* A search returns even if the updater never takes another step, so       *)
(* search waits for nobody.  The bound on deletes is what keeps it from    *)
(* being retried for ever.                                                 *)
(***************************************************************************)
SearchReturns ==
  \A r \in Readers : want[r] # NULL ~> (want[r] = NULL \/ rpc[r] = "fault")

(***************************************************************************)
(* The inductive invariant of the reader side.                             *)
(***************************************************************************)
\* n is a node search may stand on: if it turns out to be the last one it
\* looks at, the answer it gives was right at some moment of the call.
Fit(r, n, low) ==
  /\ Unfreed(n)
  /\ BucketOf(key[n]) = BucketOf(want[r])
  /\ key[n] = want[r] => 1 \in seen[r]
  /\ key[n] > want[r] => 0 \in seen[r]
  /\ low <= key[n]

\* n was reached with generation g, and is fit as long as it still has it.
Guarded(r, n, g, low) == g <= gc[n] /\ (gc[n] = g => Fit(r, n, low))

\* The reader's locals have the values its program counter needs.
SearchControl(r) ==
  /\ rpc[r] # "idle" <=> want[r] # NULL
  /\ rpc[r] = "idle" => prev[r] = NULL
  /\ rpc[r] \notin {"idle", "head"} => cur[r] \in Nodes
  /\ rpc[r] = "nextgc" => nxt[r] \in Nodes
  /\ build # "GECOS_B" => rpc[r] # "prevchk" /\ prev[r] = NULL /\ wild[r] = 0

\* What each check has established still holds at the points after it.
SearchGuards(r) ==
  /\ rpc[r] = "headchk" => cur_gc[r] <= gc[cur[r]]
  /\ rpc[r] \in {"idle", "head", "headgc", "headchk"} => prev_key[r] = 0
  /\ rpc[r] = "nextchk" /\ nxt[r] # NULL => next_gc[r] <= gc[nxt[r]]
  /\ wild[r] = 0 =>
       /\ prev[r] # NULL => Guarded(r, prev[r], prev_gc[r], prev_key[r])
       /\ InLoop(r) => Guarded(r, cur[r], cur_gc[r], prev_key[r])
       /\ InLoop(r) /\ rpc[r] # "key" /\ gc[cur[r]] = cur_gc[r] =>
            cur_key[r] = key[cur[r]]
       /\ rpc[r] = "gcchk" /\ gc[cur[r]] = cur_gc[r] /\ cur_key[r] < want[r] =>
            IF nxt[r] = NULL THEN 0 \in seen[r]
            ELSE Guarded(r, nxt[r], next_gc[r], cur_key[r])

ReaderInv == \A r \in Readers : SearchControl(r) /\ SearchGuards(r)

IInv == TypeOK /\ ListInv /\ ReaderInv
===============================================================================
