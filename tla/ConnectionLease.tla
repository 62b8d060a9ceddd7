--------------------------- MODULE ConnectionLease ---------------------------
(***************************************************************************)
(* What CurlConnectionPool promises its callers: for each pool name it     *)
(* leases at most MaxTotal connections at a time, never one connection to  *)
(* two callers, and it refuses a caller only when that many are out.  How  *)
(* connections are kept, reused, expired and cleaned up does not show.     *)
(***************************************************************************)
EXTENDS Naturals, FiniteSets

CONSTANTS Thread, PoolName, Conn, NoConn, MaxTotal

VARIABLES
  state,  \* where each caller is
  pool,   \* the pool it uses, or used last
  lease   \* the connection it has on lease

vars == <<state, pool, lease>>

Outside == {"outside", "refused", "failed"}

Leasing(p) == {t \in Thread : state[t] = "leasing" /\ pool[t] = p}

Init ==
  /\ state = [t \in Thread |-> "outside"]
  /\ pool \in [Thread -> PoolName]
  /\ lease = [t \in Thread |-> NoConn]

Ask(t) ==
  /\ state[t] \in Outside
  /\ state' = [state EXCEPT ![t] = "asking"]
  /\ \E p \in PoolName : pool' = [pool EXCEPT ![t] = p]
  /\ UNCHANGED lease

Grant(t) ==
  /\ state[t] = "asking"
  /\ Cardinality(Leasing(pool[t])) < MaxTotal
  /\ state' = [state EXCEPT ![t] = "leasing"]
  /\ \E c \in Conn \ {lease[u] : u \in Thread} : lease' = [lease EXCEPT ![t] = c]
  /\ UNCHANGED pool

Refuse(t) ==
  /\ state[t] = "asking"
  /\ Cardinality(Leasing(pool[t])) = MaxTotal
  /\ state' = [state EXCEPT ![t] = "refused"]
  /\ UNCHANGED <<pool, lease>>

\* A new connection was needed and could not be made.
Fail(t) ==
  /\ state[t] = "asking"
  /\ Cardinality(Leasing(pool[t])) < MaxTotal
  /\ state' = [state EXCEPT ![t] = "failed"]
  /\ UNCHANGED <<pool, lease>>

Return(t) ==
  /\ state[t] = "leasing"
  /\ state' = [state EXCEPT ![t] = "outside"]
  /\ lease' = [lease EXCEPT ![t] = NoConn]
  /\ UNCHANGED pool

Next == \E t \in Thread : Ask(t) \/ Grant(t) \/ Refuse(t) \/ Fail(t) \/ Return(t)

Spec == Init /\ [][Next]_vars
=============================================================================
