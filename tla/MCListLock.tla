------------------------------ MODULE MCListLock ------------------------------
EXTENDS ListLock

CONSTANTS w1, w2, r1, r2

Crew(b, ws, rs) == [build |-> b, writers |-> ws, readers |-> rs]

\* Two readers where they can meet in the lock, two writers where delete goes
\* on after its unlock.
MCCrews == {Crew(b, {w1}, {r1, r2}) : b \in {"LSPIN", "RWLOCK"}}
             \cup {Crew("GCLOCK", {w1, w2}, {r1})}
             \cup {Crew(b, {w1}, {r1}) : b \in {"SEQLOCK", "GCLOCK1", "RCU"}}
===============================================================================
