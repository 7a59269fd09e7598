------------------------------- MODULE RefCount -------------------------------
(***************************************************************************)
(* Reference counting: list_rc.c and rc.c.  A node is freed by whoever     *)
(* drops its last reference, reader or updater.  Readers count the node    *)
(* they stand on; an unlinked node that is not freed yet counts the node   *)
(* its next leads to, so that a reader can still walk on from it.          *)
(*                                                                         *)
(* The updater is list_writer.c.  insert moves the reference to cur from   *)
(* *prev to the new node; delete makes a second link to cur->next and      *)
(* counts it only afterwards, in free_node_later.                          *)
(***************************************************************************)
EXTENDS HashList, FiniteSets

ASSUME RefCountAssumption ==
  IsFiniteSet(Nodes) /\ IsFiniteSet(Writers) /\ IsFiniteSet(Readers)

VARIABLES
  rc,      \* node_t.rc
  dec,     \* the argument of the lfrc_refcnt_dec a thread is in, or NULL
  dying,   \* the nodes whose count it took to 0 in that call, not yet freed
  rd       \* each reader's place in search and safe_read, and their locals

Threads == Writers \cup Readers
rcVars  == <<rc, dec, dying>>
vars    == <<listVars, rcVars, rd>>

ReaderState == [pc  : {"idle", "load", "inc", "check", "key", "return"},
                cur : NodePtr,     \* NULL while p is the head
                q   : NodePtr,     \* what safe_read has loaded
                retval : {0, 1}]

AtRest == [pc |-> "idle", cur |-> NULL, q |-> NULL, retval |-> 0]

TypeOK ==
  /\ ListTypeOK
  /\ rc \in [Nodes -> Nat]
  /\ dec \in [Threads -> NodePtr]
  /\ dying \in [Threads -> SUBSET Nodes]
  /\ rd \in [Readers -> ReaderState]

\* new nodes come from calloc
Init ==
  /\ ListInit
  /\ rc = [n \in Nodes |-> 0]
  /\ dec = [t \in Threads |-> NULL]
  /\ dying = [t \in Threads |-> {}]
  /\ rd = [r \in Readers |-> AtRest]

(***************************************************************************)
(* The counts                                                              *)
(***************************************************************************)
\* atomic_xadd4(&p->rc, 1), unless p is NULL
Incremented(p) == IF p = NULL THEN rc ELSE [rc EXCEPT ![p] = @ + 1]

(***************************************************************************)
(* One level of lfrc_refcnt_dec.  The thread that takes a count to 0 goes  *)
(* on with p->next and frees p when the recursion comes back.              *)
(***************************************************************************)
DecWith(t, p, last) ==
  LET dead == IF last THEN dying[t] \cup {p} ELSE dying[t]
      deep == IF last THEN next[p] ELSE NULL
  IN  /\ p # NULL
      /\ rc' = [rc EXCEPT ![p] = @ - 1]
      /\ dec' = [dec EXCEPT ![t] = deep]
      /\ dying' = [dying EXCEPT ![t] = IF deep = NULL THEN {} ELSE dead]
      /\ free' = IF deep = NULL THEN free \cup dead ELSE free
      /\ UNCHANGED <<memVars, lock, live, writerVars, searchVars, rd>>

\* Mutants: a node is freed with a reference left, or never.
RefcntDecEarly(t) == DecWith(t, dec[t], dec[t] # NULL /\ rc[dec[t]] <= 2)
RefcntDecNever(t) == DecWith(t, dec[t], FALSE)

RefcntDec(t) == DecWith(t, dec[t], dec[t] # NULL /\ rc[dec[t]] = 1)

(***************************************************************************)
(* The updater                                                             *)
(***************************************************************************)
Call(w) == \E k \in Keys : InsertCall(w, k) \/ DeleteCall(w, k)

\* Mutant: the second link to n->next is not counted.
FreeNodeLaterUncounted(w) ==
  /\ wpc[w] = "retire"
  /\ dec' = [dec EXCEPT ![w] = wcur[w]]
  /\ GoTo(w, "unlock")
  /\ UNCHANGED <<rc, memVars, lock, free, live, wop, wkey, wprev, wcur, wnew, searchVars>>

\* lfrc_refcnt_inc(n->next), then lfrc_refcnt_dec(n) step by step
FreeNodeLater(w) ==
  /\ wpc[w] = "retire"
  /\ rc' = Incremented(next[wcur[w]])
  /\ dec' = [dec EXCEPT ![w] = wcur[w]]
  /\ GoTo(w, "unlock")
  /\ UNCHANGED <<memVars, lock, free, live, wop, wkey, wprev, wcur, wnew, searchVars>>

\* init_new_node gives the node the reference its link will be.
InitNewNode(w) == NewNode(w) /\ rc' = Incremented(wnew'[w]) /\ UNCHANGED dec

UpdateStep(w) ==
  /\ dec[w] = NULL
  /\ \/ WriterStep(w) /\ wpc'[w] # "setkey" /\ UNCHANGED <<rc, dec>>
     \/ InitNewNode(w)
     \/ FreeNodeLater(w)
  /\ UNCHANGED <<dying, rd>>

(***************************************************************************)
(* search and safe_read.  A reader inside lfrc_refcnt_dec does nothing     *)
(* else until it is out again.                                             *)
(***************************************************************************)
Bucket(r) == BucketOf(want[r])

ReaderFrame(r) ==
  /\ dec[r] = NULL
  /\ UNCHANGED <<memVars, lock, free, live, writerVars, dying>>

Become(r, state) == rd' = [rd EXCEPT ![r] = state]

\* Drop p, which the locals in state no longer name.
DropAnd(r, p, state) == dec' = [dec EXCEPT ![r] = p] /\ Become(r, state)

SearchCall(r, k) ==
  /\ rd[r].pc = "idle"
  /\ BeginSearch(r, k)
  /\ Become(r, [AtRest EXCEPT !.pc = "load"])
  /\ ReaderFrame(r)
  /\ UNCHANGED <<rc, dec>>

\* q = *p; at the end of the list search drops cur and returns 0.
LoadLink(r) ==
  LET q == Deref(Bucket(r), rd[r].cur) IN
  /\ rd[r].pc = "load"
  /\ IF q = NULL
       THEN DropAnd(r, rd[r].cur, [AtRest EXCEPT !.pc = "return"])
       ELSE Become(r, [rd[r] EXCEPT !.pc = "inc", !.q = q]) /\ UNCHANGED dec
  /\ ReaderFrame(r)
  /\ UNCHANGED <<rc, searchVars>>

\* Mutant: the count of a freed node is incremented too.
IncrementAlways(r) ==
  /\ rd[r].pc = "inc"
  /\ rc' = Incremented(rd[r].q)
  /\ Become(r, [rd[r] EXCEPT !.pc = "check"])
  /\ ReaderFrame(r)
  /\ UNCHANGED <<dec, searchVars>>

\* increment_if_not_zero(&q->rc); on 0 load the link again
IncrementIfNotZero(r) ==
  /\ rd[r].pc = "inc"
  /\ IF rc[rd[r].q] = 0
       THEN UNCHANGED rc /\ Become(r, [rd[r] EXCEPT !.pc = "load", !.q = NULL])
       ELSE rc' = Incremented(rd[r].q) /\ Become(r, [rd[r] EXCEPT !.pc = "check"])
  /\ ReaderFrame(r)
  /\ UNCHANGED <<dec, searchVars>>

\* Mutant: the link is not read again.
CheckLinkNever(r) ==
  /\ rd[r].pc = "check"
  /\ DropAnd(r, rd[r].cur, [AtRest EXCEPT !.pc = "key", !.cur = rd[r].q])
  /\ ReaderFrame(r)
  /\ UNCHANGED <<rc, searchVars>>

\* q == *p: cur = q and the old cur is dropped; else q is dropped again.
CheckLink(r) ==
  /\ rd[r].pc = "check"
  /\ IF Deref(Bucket(r), rd[r].cur) = rd[r].q
       THEN DropAnd(r, rd[r].cur, [AtRest EXCEPT !.pc = "key", !.cur = rd[r].q])
       ELSE DropAnd(r, rd[r].q, [rd[r] EXCEPT !.pc = "load", !.q = NULL])
  /\ ReaderFrame(r)
  /\ UNCHANGED <<rc, searchVars>>

\* cur->key >= key: drop cur and return whether they are equal
ReadKey(r) ==
  LET k == key[rd[r].cur] IN
  /\ rd[r].pc = "key"
  /\ IF k >= want[r]
       THEN DropAnd(r, rd[r].cur, [AtRest EXCEPT !.pc = "return",
                                                 !.retval = IF k = want[r] THEN 1 ELSE 0])
       ELSE Become(r, [rd[r] EXCEPT !.pc = "load"]) /\ UNCHANGED dec
  /\ ReaderFrame(r)
  /\ UNCHANGED <<rc, searchVars>>

Return(r) ==
  /\ rd[r].pc = "return"
  /\ EndSearch(r, rd[r].retval)
  /\ Become(r, AtRest)
  /\ ReaderFrame(r)
  /\ UNCHANGED <<rc, dec>>

SearchStep(r) ==
  LoadLink(r) \/ IncrementIfNotZero(r) \/ CheckLink(r) \/ ReadKey(r) \/ Return(r)

Next ==
  \/ \E t \in Threads : RefcntDec(t)
  \/ \E w \in Writers : UpdateStep(w) \/ (Call(w) /\ UNCHANGED <<rcVars, rd>>)
  \/ \E r \in Readers : SearchStep(r) \/ \E k \in Keys : SearchCall(r, k)

Spec == Init /\ [][Next]_vars

\* Every thread is run again and again; calls are made or not.
FairSpec ==
  /\ Spec
  /\ \A w \in Writers : WF_vars(UpdateStep(w) \/ RefcntDec(w))
  /\ \A r \in Readers : WF_vars(SearchStep(r) \/ RefcntDec(r))

(***************************************************************************)
(* Properties                                                              *)
(***************************************************************************)
InHand == UNION {Held(w) : w \in Writers}
Dying  == UNION {dying[t] : t \in Threads}

\* Unlinked, counting the node they lead to, and not freed yet.
Zombies == Nodes \ (live \cup free \cup InHand \cup Dying)

\* The references to n that exist: its link, zombies that lead to it, readers
\* that stand on it or are about to, and calls that are about to drop one.
Linked(n)   == IF n \in live \cup InHand THEN 1 ELSE 0
Before(n)   == {m \in Zombies : next[m] = n}
Standing(n) == {r \in Readers : rd[r].cur = n}
Taking(n)   == {r \in Readers : rd[r].pc = "check" /\ rd[r].q = n}
Dropping(n) == {t \in Threads : dec[t] = n}

References(n) ==
  Linked(n) + Cardinality(Before(n)) + Cardinality(Standing(n))
            + Cardinality(Taking(n)) + Cardinality(Dropping(n))

(***************************************************************************)
(* rc is the number of references there are, at every step of every        *)
(* thread: counting n->next only after n was unlinked (the FIXME at        *)
(* list_rc.c:52) and taking back a reference that safe_read (rc.c:52) took *)
(* on a recycled node lose none.                                           *)
(***************************************************************************)
CountsExact == \A n \in Nodes : rc[n] = References(n)

(***************************************************************************)
(* The assertion of rc.c:78, and what it is for: the node a thread drops,  *)
(* and the one a reader stands on (list_rc.c:36, :42), were not freed.     *)
(***************************************************************************)
CountedNotFreed ==
  /\ \A t \in Threads : dec[t] # NULL => rc[dec[t]] > 0
  /\ \A n \in free : References(n) = 0

(***************************************************************************)
(* Nothing leaks: a node that was unlinked is freed in the end, even if a  *)
(* chain of unlinked nodes hangs on one reader and that reader is behind   *)
(* an updater that goes on for ever.                                       *)
(***************************************************************************)
Reclaimed == \A n \in Nodes : n \in Zombies ~> n \in free

(***************************************************************************)
(* The inductive invariant                                                 *)
(***************************************************************************)
\* free_node is called from lfrc_refcnt_dec only, safe_read has loaded q,
\* search stands on no node when it returns and has a key until then.
Control ==
  /\ \A w \in Writers : wpc[w] \notin {"free", "late"}
  /\ \A r \in Readers : rd[r].pc \in {"inc", "check"} => rd[r].q # NULL
  /\ \A r \in Readers : rd[r].pc \in {"idle", "return"} => rd[r].cur = NULL
  /\ \A r \in Readers : rd[r].pc # "idle" => want[r] # NULL

\* A node is taken to 0 by one thread, when nothing else has it.
DyingApart ==
  /\ \A t \in Threads : dying[t] \cap (live \cup free \cup InHand) = {}
  /\ \A s, t \in Threads : s # t => dying[s] \cap dying[t] = {}

\* increment_if_not_zero does not take a node that is free or about to be.
GoneAtZero == \A n \in free \cup Dying : rc[n] = 0

CountInv == TypeOK /\ ListInv /\ Control /\ DyingApart /\ CountsExact /\ GoneAtZero

\* If n is the last node search looks at, its answer was right at some moment;
\* S are zombies that were unlinked during the search.
Fit(r, S, n) ==
  /\ Unfreed(n) \/ n \in S
  /\ BucketOf(key[n]) = Bucket(r)
  /\ key[n] = want[r] => 1 \in seen[r]
  /\ key[n] > want[r] => 0 \in seen[r]

\* What search may conclude from a link that leads to n.
Leads(r, S, n) == IF n = NULL THEN 0 \in seen[r] ELSE Fit(r, S, n)

\* search stands on a linked node or in S, and S leads it on as it did when
\* its nodes were linked.
Walk(r, S) ==
  /\ \A n \in S : BucketOf(key[n]) = Bucket(r) /\ key[n] < want[r] => Leads(r, S, next[n])
  /\ rd[r].pc \in {"load", "inc", "check"} /\ rd[r].cur # NULL =>
       Fit(r, S, rd[r].cur) /\ key[rd[r].cur] < want[r]
  /\ rd[r].pc = "key" => rd[r].cur # NULL /\ Fit(r, S, rd[r].cur)
  /\ rd[r].pc = "return" => rd[r].retval \in seen[r]

SearchInvariant(r) == rd[r].pc # "idle" => \E S \in SUBSET Zombies : Walk(r, S)

IInv == CountInv /\ \A r \in Readers : SearchInvariant(r)
===============================================================================
