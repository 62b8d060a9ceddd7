--------------------------- MODULE ConnectionPool ---------------------------
(***************************************************************************)
(* The process-wide pool of curl connections (curl_connection_pool.cpp), as *)
(* the keep-alive HttpConnections use it: Open acquires a guard, a failed   *)
(* open marks the connection, Close or the destructor releases it.          *)
(*                                                                         *)
(* Acquire and Release read the clock before they lock mMutex; what they do *)
(* under the lock is one action each, so a thread may decide what has       *)
(* expired from a time that other threads have long passed.                 *)
(***************************************************************************)
EXTENDS Integers, Sequences, FiniteSets

CONSTANTS
  Thread,           \* threads, each with one HttpConnection at a time
  PoolName,         \* pool names
  Conn,             \* identities of connections (a bound)
  NoConn,           \* the null pointer
  MaxIdle,          \* kMaxIdleConnections
  MaxTotal,         \* kMaxTotalConnections
  MaxIdleTime,      \* kDefaultMaxIdleTimeInSec
  CleanupInterval,  \* kCleanupIntervalInSec
  Epoch,            \* the clock at the start
  MaxClock          \* where the modelled clock stops (a bound)

ASSUME ConnectionPoolAssumption ==
  /\ IsFiniteSet(Thread)
  /\ NoConn \notin Conn
  /\ MaxIdle \in Nat /\ MaxTotal \in Nat
  /\ MaxIdleTime \in Nat /\ CleanupInterval \in Nat
  /\ Epoch \in Nat /\ MaxClock \in Nat

VARIABLES
  mIdleConnections,  \* each pool's idle connections, oldest first
  mInUseCount,       \* each pool's count of connections in use
  mLastCleanTime,    \* when idle connections were last cleaned up
  lastUpdate,        \* mLastUpdateTime of each connection
  mFailed,           \* mFailed of each connection
  now,               \* the clock, in seconds
  pc,                \* where each thread is
  poolName,          \* the pool it uses, or used last
  held,              \* the connection of its guard
  at                 \* the time it read before locking

poolVars == <<mIdleConnections, mInUseCount, mLastCleanTime>>
connVars == <<lastUpdate, mFailed>>
threadVars == <<pc, poolName, held, at>>
vars == <<poolVars, connVars, now, threadVars>>

-----------------------------------------------------------------------------

Outside == {"outside", "refused", "failed"}

Elements(s) == {s[i] : i \in DOMAIN s}

IdleConns == UNION {Elements(mIdleConnections[p]) : p \in PoolName}

\* Connections that exist.
Alive == IdleConns \cup ({held[t] : t \in Thread} \ {NoConn})

\* ! (IsExpired(time) || IsFailed())
Usable(c, time) == time <= lastUpdate[c] + MaxIdleTime /\ ~ mFailed[c]

LastUsable(s, time, k) ==
  /\ k \in DOMAIN s /\ Usable(s[k], time)
  /\ \A j \in DOMAIN s : j > k => ~ Usable(s[j], time)

\* The idle loop of Acquire drops connections from the front until one is
\* usable.
FirstUsable(s, time, k) ==
  /\ k \in DOMAIN s /\ Usable(s[k], time)
  /\ \A j \in 1 .. (k - 1) : ~ Usable(s[j], time)

NoneUsable(s, time) == \A k \in DOMAIN s : ~ Usable(s[k], time)

Goto(t, place) == pc' = [pc EXCEPT ![t] = place]

\* Acquire, up to the lock.
BeginAcquire(t) ==
  /\ pc[t] \in Outside
  /\ Goto(t, "acquire")
  /\ \E p \in PoolName : poolName' = [poolName EXCEPT ![t] = p]
  /\ at' = [at EXCEPT ![t] = now]
  /\ UNCHANGED <<poolVars, connVars, now, held>>

\* A guard for c, which from now on counts as in use.
Lease(t, c) ==
  /\ mInUseCount' = [mInUseCount EXCEPT ![poolName[t]] = @ + 1]
  /\ lastUpdate' = [lastUpdate EXCEPT ![c] = now]
  /\ held' = [held EXCEPT ![t] = c]
  /\ Goto(t, "leasing")

AcquireIdleNoPop(t) ==
  LET idle == mIdleConnections[poolName[t]]
  IN  /\ pc[t] = "acquire"
      /\ \E k \in DOMAIN idle :
           /\ FirstUsable(idle, at[t], k)
           /\ mIdleConnections' = [mIdleConnections EXCEPT ![poolName[t]] =
                                     SubSeq(idle, k, Len(idle))]
           /\ Lease(t, idle[k])
      /\ UNCHANGED <<mLastCleanTime, mFailed, now, poolName, at>>

AcquireIdle(t) ==
  LET idle == mIdleConnections[poolName[t]]
  IN  /\ pc[t] = "acquire"
      /\ \E k \in DOMAIN idle :
           /\ FirstUsable(idle, at[t], k)
           /\ mIdleConnections' = [mIdleConnections EXCEPT ![poolName[t]] =
                                     SubSeq(idle, k + 1, Len(idle))]
           /\ Lease(t, idle[k])
      /\ UNCHANGED <<mLastCleanTime, mFailed, now, poolName, at>>

\* The loop has dropped every idle connection.
IdleExhausted(t) ==
  /\ pc[t] = "acquire"
  /\ NoneUsable(mIdleConnections[poolName[t]], at[t])
  /\ mIdleConnections' = [mIdleConnections EXCEPT ![poolName[t]] = <<>>]

LimitReachedLate(t) == mInUseCount[poolName[t]] > MaxTotal

\* mTotalConnections: the idle list is empty by now.
LimitReached(t) == mInUseCount[poolName[t]] >= MaxTotal

AcquireNew(t) ==
  /\ IdleExhausted(t)
  /\ ~ LimitReached(t)
  /\ \E c \in Conn \ Alive :
       /\ Lease(t, c)
       /\ mFailed' = [mFailed EXCEPT ![c] = FALSE]
  /\ UNCHANGED <<mLastCleanTime, now, poolName, at>>

AcquireFailsCounted(t) ==
  /\ IdleExhausted(t)
  /\ ~ LimitReached(t)
  /\ mInUseCount' = [mInUseCount EXCEPT ![poolName[t]] = @ + 1]
  /\ Goto(t, "failed")
  /\ UNCHANGED <<mLastCleanTime, connVars, now, poolName, held, at>>

\* The constructor throws: curl gives no handle.
AcquireFails(t) ==
  /\ IdleExhausted(t)
  /\ ~ LimitReached(t)
  /\ Goto(t, "failed")
  /\ UNCHANGED <<mInUseCount, mLastCleanTime, connVars, now, poolName, held, at>>

\* ConnectionPoolLimitReached.
AcquireRefused(t) ==
  /\ IdleExhausted(t)
  /\ LimitReached(t)
  /\ Goto(t, "refused")
  /\ UNCHANGED <<mInUseCount, mLastCleanTime, connVars, now, poolName, held, at>>

\* MarkAsFailed, when HttpConnection::Open could not connect.
MarkAsFailed(t) ==
  /\ pc[t] = "leasing"
  /\ mFailed' = [mFailed EXCEPT ![held[t]] = TRUE]
  /\ UNCHANGED <<poolVars, lastUpdate, now, threadVars>>

\* Release, up to the lock.
BeginRelease(t) ==
  /\ pc[t] = "leasing"
  /\ Goto(t, "release")
  /\ at' = [at EXCEPT ![t] = now]
  /\ UNCHANGED <<poolVars, connVars, now, poolName, held>>

\* What every Release does, however it goes on.  (The entry of the pool is
\* there: Acquire made it.)
GiveBack(t) ==
  /\ pc[t] = "release"
  /\ mInUseCount' = [mInUseCount EXCEPT ![poolName[t]] = IF @ > 0 THEN @ - 1 ELSE @]
  /\ held' = [held EXCEPT ![t] = NoConn]
  /\ Goto(t, "outside")
  /\ UNCHANGED <<now, poolName, at>>

KeptFull(t) == Usable(held[t], at[t])

Kept(t) ==
  /\ Usable(held[t], at[t])
  /\ Len(mIdleConnections[poolName[t]]) < MaxIdle

\* f lists in order the positions of s that remove_if keeps.  (fresh is the
\* connection just reset, if any.)
Keeps(f, s, time, fresh) ==
  /\ \A i, j \in DOMAIN f : i < j => f[i] < f[j]
  /\ \A i \in DOMAIN f : f[i] \in DOMAIN s
  /\ \A j \in DOMAIN s :
       (s[j] = fresh \/ Usable(s[j], time)) <=> \E i \in DOMAIN f : f[i] = j

Selection == UNION {[1 .. n -> 1 .. MaxIdle] : n \in 0 .. MaxIdle}

\* ShouldTriggerCleanup and CleanupConnections.
CleanUp(t, idle, fresh) ==
  IF at[t] - mLastCleanTime > CleanupInterval
  THEN /\ \E f \in [PoolName -> Selection] :
            /\ \A p \in PoolName : Keeps(f[p], idle[p], at[t], fresh)
            /\ mIdleConnections' =
                 [p \in PoolName |-> [i \in DOMAIN f[p] |-> idle[p][f[p][i]]]]
       /\ mLastCleanTime' = at[t]
  ELSE /\ mIdleConnections' = idle
       /\ UNCHANGED mLastCleanTime

\* Expired, failed or one too many: the connection is destroyed.
ReleaseDropped(t) ==
  /\ GiveBack(t)
  /\ ~ Kept(t)
  /\ UNCHANGED <<mIdleConnections, mLastCleanTime, connVars>>

ReleaseKeptMoved(t) ==
  /\ GiveBack(t)
  /\ Kept(t)
  /\ CleanUp(t, [mIdleConnections EXCEPT ![poolName[t]] = Append(@, NoConn)], NoConn)
  /\ UNCHANGED connVars

ReleaseKeptStale(t) ==
  /\ GiveBack(t)
  /\ Kept(t)
  /\ CleanUp(t, [mIdleConnections EXCEPT ![poolName[t]] = Append(@, held[t])], NoConn)
  /\ UNCHANGED connVars

\* Reset, push_back and the cleanup.
ReleaseKept(t) ==
  /\ GiveBack(t)
  /\ Kept(t)
  /\ lastUpdate' = [lastUpdate EXCEPT ![held[t]] = now]
  /\ CleanUp(t, [mIdleConnections EXCEPT ![poolName[t]] = Append(@, held[t])], held[t])
  /\ UNCHANGED mFailed

\* Reset throws: the connection is destroyed, the cleanup still happens.
ReleaseResetFails(t) ==
  /\ GiveBack(t)
  /\ Kept(t)
  /\ CleanUp(t, mIdleConnections, NoConn)
  /\ UNCHANGED connVars

Tick ==
  /\ now < MaxClock
  /\ now' = now + 1
  /\ UNCHANGED <<poolVars, connVars, threadVars>>

-----------------------------------------------------------------------------

Init ==
  /\ mIdleConnections = [p \in PoolName |-> <<>>]
  /\ mInUseCount = [p \in PoolName |-> 0]
  /\ mLastCleanTime = 0
  /\ lastUpdate = [c \in Conn |-> 0]
  /\ mFailed = [c \in Conn |-> FALSE]
  /\ now = Epoch
  /\ pc = [t \in Thread |-> "outside"]
  /\ poolName \in [Thread -> PoolName]
  /\ held = [t \in Thread |-> NoConn]
  /\ at = [t \in Thread |-> 0]

Use(t) ==
  \/ BeginAcquire(t)
  \/ AcquireIdle(t)
  \/ AcquireNew(t)
  \/ AcquireFails(t)
  \/ AcquireRefused(t)
  \/ MarkAsFailed(t)
  \/ BeginRelease(t)
  \/ ReleaseDropped(t)
  \/ ReleaseKept(t)
  \/ ReleaseResetFails(t)

Next == (\E t \in Thread : Use(t)) \/ Tick

Spec == Init /\ [][Next]_vars

-----------------------------------------------------------------------------
(* Properties.                                                             *)

Holders(p) == {t \in Thread : pc[t] \in {"leasing", "release"} /\ poolName[t] = p}

\* Every variable has its type.
TypeOK ==
  /\ mIdleConnections \in [PoolName -> Seq(Conn)]
  /\ mInUseCount \in [PoolName -> Nat]
  /\ mLastCleanTime \in Nat
  /\ lastUpdate \in [Conn -> Nat]
  /\ mFailed \in [Conn -> BOOLEAN]
  /\ now \in Nat
  /\ pc \in [Thread -> Outside \cup {"acquire", "leasing", "release"}]
  /\ poolName \in [Thread -> PoolName]
  /\ held \in [Thread -> Conn \cup {NoConn}]
  /\ at \in [Thread -> Nat]

\* mInUseCount is the number of live guards: whatever way connections are
\* dropped, expired, refused or failed, no count leaks and none is lost, so
\* the pool's limit never locks callers out for good.
CountsMatch == \A p \in PoolName : mInUseCount[p] = Cardinality(Holders(p))

\* A connection is in one place: one idle list, once, or one guard.
NoSharing ==
  /\ \A t, u \in Thread : held[t] = held[u] /\ held[t] # NoConn => t = u
  /\ \A t \in Thread : held[t] \notin IdleConns
  /\ \A p, q \in PoolName :
       \A i \in DOMAIN mIdleConnections[p], j \in DOMAIN mIdleConnections[q] :
         mIdleConnections[p][i] = mIdleConnections[q][j] => p = q /\ i = j

\* A pool keeps within both its limits, although only Acquire tests the one
\* and only Release the other.
LimitsKept ==
  \A p \in PoolName :
    /\ Len(mIdleConnections[p]) <= MaxIdle
    /\ Len(mIdleConnections[p]) + mInUseCount[p] <= MaxTotal

\* A pool never has more connections than there are threads, as the stress
\* test of http_connection_test.cpp asserts while it runs: a new connection is
\* only made when every other one is in use.
NoMoreThanThreads ==
  \A p \in PoolName :
    Len(mIdleConnections[p]) + mInUseCount[p] <= Cardinality(Thread)

\* The idle lists hold no failed connection and are sorted by last use, so the
\* front is the one that expires first, although each thread works with the
\* time it read before it got the lock.
IdleOldestFirst ==
  \A p \in PoolName :
    LET idle == mIdleConnections[p]
    IN  \A i \in DOMAIN idle :
          /\ ~ mFailed[idle[i]]
          /\ lastUpdate[idle[i]] <= now
          /\ \A j \in DOMAIN idle : i <= j => lastUpdate[idle[i]] <= lastUpdate[idle[j]]

\* A stale time never costs a good connection, and the time of the last
\* cleanup never goes back: what is dropped from an idle list has expired by
\* the clock.
OnlyExpiredDropped ==
  [][/\ mLastCleanTime' >= mLastCleanTime
     /\ \A c \in IdleConns \ (IdleConns' \cup {held'[t] : t \in Thread}) :
          lastUpdate[c] + MaxIdleTime < now]_vars

LeaseState(t) ==
  CASE pc[t] = "acquire" -> "asking"
    [] pc[t] \in {"leasing", "release"} -> "leasing"
    [] OTHER -> pc[t]

Promise == INSTANCE ConnectionLease
  WITH state <- [t \in Thread |-> LeaseState(t)], pool <- poolName, lease <- held

\* The pool implements the leases of ConnectionLease.
LeasesKept == Promise!Spec
=============================================================================
