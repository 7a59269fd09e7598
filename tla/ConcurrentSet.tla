----------------------------- MODULE ConcurrentSet -----------------------------
(***************************************************************************)
(* What the hash table promises to the threads of mrow.c: a linearizable   *)
(* set of keys.  insert and delete take effect in one step.  A search may  *)
(* answer whatever was true at some moment between its call and its        *)
(* return, and nothing else; seen collects those answers while it runs, so *)
(* a search can settle afterwards for any of them.                         *)
(***************************************************************************)
CONSTANTS Keys, Readers, NULL

VARIABLES
  members,   \* the keys in the set
  want,      \* the key of the reader's open search, or NULL
  seen,      \* the answers that were right at some moment of that search
  ret        \* the last answer of each reader, 0 during a search

vars == <<members, want, seen, ret>>

Answer(k, set) == IF k \in set THEN 1 ELSE 0

Init ==
  /\ members = {}
  /\ want = [r \in Readers |-> NULL]
  /\ seen = [r \in Readers |-> {}]
  /\ ret = [r \in Readers |-> 0]

\* The set changes, and with it the answer of every open search.
Become(set) ==
  /\ members' = set
  /\ seen' = [r \in Readers |-> IF want[r] = NULL THEN seen[r]
                                ELSE seen[r] \cup {Answer(want[r], set)}]
  /\ UNCHANGED <<want, ret>>

Insert(k) == k \notin members /\ Become(members \cup {k})

Delete(k) == k \in members /\ Become(members \ {k})

SearchCall(r, k) ==
  /\ want[r] = NULL
  /\ want' = [want EXCEPT ![r] = k]
  /\ seen' = [seen EXCEPT ![r] = {Answer(k, members)}]
  /\ ret' = [ret EXCEPT ![r] = 0]
  /\ UNCHANGED members

SearchReturn(r) ==
  /\ want[r] # NULL
  /\ \E answer \in seen[r] : ret' = [ret EXCEPT ![r] = answer]
  /\ want' = [want EXCEPT ![r] = NULL]
  /\ seen' = [seen EXCEPT ![r] = {}]
  /\ UNCHANGED members

Next ==
  \/ \E k \in Keys : Insert(k) \/ Delete(k)
  \/ \E r \in Readers : SearchReturn(r) \/ \E k \in Keys : SearchCall(r, k)

Spec == Init /\ [][Next]_vars
===============================================================================
