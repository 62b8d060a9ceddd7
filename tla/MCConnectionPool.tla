-------------------------- MODULE MCConnectionPool --------------------------
(* ConnectionPool on small sets, for TLC.                                  *)
EXTENDS ConnectionPool, TLC

CONSTANTS t1, t2, t3, t4, p1, p2, c1, c2, c3

MCThread == {t1, t2, t3, t4}
MCPool == {p1, p2}
MCConn == {c1, c2, c3}

\* Threads, pools and connections are each interchangeable.
MCSymmetry ==
  Permutations(MCThread) \cup Permutations(MCPool) \cup Permutations(MCConn)

\* States that differ in connections that no longer exist, in times and pool
\* names that will be read again before they are used, or in how the last call
\* of a thread that is in none has ended, are the same.
MCView ==
  LET busy == {t \in Thread : pc[t] \notin Outside}
      timed == {t \in Thread : pc[t] \in {"acquire", "release"}}
  IN  <<poolVars, [c \in Alive \cap Conn |-> <<lastUpdate[c], mFailed[c]>>], now, held,
        [t \in busy |-> <<pc[t], poolName[t]>>], [t \in timed |-> at[t]]>>
=============================================================================
