------------------------ MODULE ConnectionPoolProofs ------------------------
(***************************************************************************)
(* The safety invariants of ConnectionPool, and that it implements         *)
(* ConnectionLease, for any number of threads, pools and connections and   *)
(* any limits and times.                                                   *)
(***************************************************************************)
EXTENDS ConnectionPool, FiniteSetTheorems, SequenceTheorems, TLAPS

\* A thread has a connection exactly from the end of its Acquire to the end of
\* its Release.
GuardsHold ==
  \A t \in Thread : held[t] \in Conn <=> pc[t] \in {"leasing", "release"}

\* The inductive invariant.
IInv ==
  /\ TypeOK
  /\ GuardsHold
  /\ CountsMatch
  /\ NoSharing
  /\ LimitsKept
  /\ NoMoreThanThreads

-----------------------------------------------------------------------------
(* How the idle lists and the holders change.                              *)

\* new takes its elements from old, each from a place of its own.
IsDrawnFrom(new, old) ==
  /\ Len(new) <= Len(old)
  /\ \E g \in [DOMAIN new -> DOMAIN old] :
       /\ \A i, j \in DOMAIN new : g[i] = g[j] => i = j
       /\ \A i \in DOMAIN new : new[i] = old[g[i]]

\* An interval from 1 has as many elements as its upper end.
LEMMA CardInterval ==
  ASSUME NEW STATE k, k \in Nat
  PROVE  IsFiniteSet(1 .. k) /\ Cardinality(1 .. k) = k
<1>1. 1 \in Int /\ k \in Int
  OBVIOUS
<1>2. /\ IsFiniteSet(1 .. k)
      /\ Cardinality(1 .. k) = IF 1 > k THEN 0 ELSE k - 1 + 1
  BY <1>1, FS_Interval
<1> QED
  BY <1>2

\* What the cleanup leaves is drawn from what there was.
LEMMA KeepsDrawn ==
  ASSUME NEW S, NEW STATE s, s \in Seq(S), NEW STATE time, NEW STATE fresh,
         NEW n \in Nat, NEW STATE f, f \in [1 .. n -> Nat], Keeps(f, s, time, fresh)
  PROVE  /\ [i \in DOMAIN f |-> s[f[i]]] \in Seq(S)
         /\ IsDrawnFrom([i \in DOMAIN f |-> s[f[i]]], s)
<1> DEFINE new == [i \in DOMAIN f |-> s[f[i]]]
<1>1. DOMAIN s = 1 .. Len(s) /\ Len(s) \in Nat
  OBVIOUS
<1>2. f \in [1 .. n -> 1 .. Len(s)]
  BY <1>1 DEF Keeps
<1>3. ASSUME NEW i \in 1 .. n, NEW j \in 1 .. n, f[i] = f[j]
      PROVE  i = j
  <2>1. ~ (i < j) /\ ~ (j < i)
    BY <1>2, <1>3 DEF Keeps
  <2> QED
    BY <2>1
<1>4. n <= Len(s)
  <2> SUFFICES ASSUME Len(s) < n PROVE FALSE
    BY <1>1
  <2>1. /\ IsFiniteSet(1 .. n) /\ Cardinality(1 .. n) = n
        /\ IsFiniteSet(1 .. Len(s)) /\ Cardinality(1 .. Len(s)) = Len(s)
    BY <1>1, CardInterval
  <2>2. \E x, y \in 1 .. n : x # y /\ f[x] = f[y]
    BY <2>1, <1>2, FS_PigeonHole
  <2> QED
    BY <2>2, <1>3
<1>5. new \in [1 .. n -> S]
  BY <1>2
<1>6. new \in Seq(S) /\ Len(new) = n /\ DOMAIN new = 1 .. n
  BY <1>5
<1> QED
  BY <1>1, <1>2, <1>3, <1>4, <1>6 DEF IsDrawnFrom

\* A list is drawn from itself.
LEMMA DrawnFromItself ==
  ASSUME NEW S, NEW STATE s, s \in Seq(S)
  PROVE  IsDrawnFrom(s, s)
<1>1. [i \in DOMAIN s |-> i] \in [DOMAIN s -> DOMAIN s] /\ Len(s) <= Len(s)
  OBVIOUS
<1> QED
  BY <1>1 DEF IsDrawnFrom

\* Nor does a list that loses its first k elements get new ones.
LEMMA SuffixDrawn ==
  ASSUME NEW S, NEW STATE s, s \in Seq(S), NEW STATE k, k \in 1 .. Len(s)
  PROVE  LET rest == SubSeq(s, k + 1, Len(s))
         IN  /\ rest \in Seq(S)
             /\ Len(rest) = Len(s) - k
             /\ IsDrawnFrom(rest, s)
             /\ \A i \in DOMAIN rest : i + k \in DOMAIN s /\ rest[i] = s[i + k]
<1> DEFINE rest == SubSeq(s, k + 1, Len(s))
           g == [i \in DOMAIN rest |-> i + k]
<1>1. Len(s) \in Nat /\ DOMAIN s = 1 .. Len(s) /\ k \in Nat
      /\ 1 <= k /\ k <= Len(s) /\ k + 1 \in Int /\ Len(s) \in Int
  OBVIOUS
<1>2. \A i \in (k + 1) .. Len(s) : s[i] \in S
  BY <1>1
<1>3. /\ rest \in Seq(S)
      /\ Len(rest) = IF k + 1 <= Len(s) THEN Len(s) - (k + 1) + 1 ELSE 0
      /\ \A i \in 1 .. (Len(s) - (k + 1) + 1) : rest[i] = s[k + 1 + i - 1]
  BY <1>1, <1>2, SubSeqProperties
<1> HIDE DEF rest
<1>4. Len(rest) = Len(s) - k
  <2>1. CASE k + 1 <= Len(s)
    <3>1. Len(rest) = Len(s) - (k + 1) + 1
      BY <2>1, <1>3
    <3>2. Len(s) - (k + 1) + 1 = Len(s) - k
      BY <1>1
    <3> QED
      BY <3>1, <3>2
  <2>2. CASE ~ (k + 1 <= Len(s))
    <3>1. Len(rest) = 0
      BY <2>2, <1>3
    <3>2. Len(s) \in Nat /\ k \in Nat /\ k <= Len(s)
      BY <1>1
    <3>3. Len(s) - k = 0
      <4> DEFINE n == Len(s)
      <4>1. n \in Nat /\ k \in Nat /\ k <= n /\ ~ (k + 1 <= n)
        BY <3>2, <2>2
      <4> HIDE DEF n
      <4>2. n - k = 0
        BY <4>1
      <4> QED
        BY <4>2 DEF n
    <3> QED
      BY <3>1, <3>3
  <2> QED
    BY <2>1, <2>2
<1>5. DOMAIN rest = 1 .. (Len(s) - k)
  BY <1>3, <1>4
<1>6. \A i \in DOMAIN rest : i + k \in DOMAIN s /\ rest[i] = s[i + k]
  <2> SUFFICES ASSUME NEW i \in DOMAIN rest
               PROVE  i + k \in DOMAIN s /\ rest[i] = s[i + k]
    OBVIOUS
  <2>1. i \in 1 .. (Len(s) - (k + 1) + 1) /\ k + 1 + i - 1 = i + k
    BY <1>1, <1>5
  <2>2. rest[i] = s[k + 1 + i - 1]
    BY <2>1, <1>3
  <2>3. i + k \in 1 .. Len(s)
    BY <1>1, <1>5
  <2> QED
    BY <2>1, <2>2, <2>3, <1>1
<1>7. IsDrawnFrom(rest, s)
  <2>1. /\ g \in [DOMAIN rest -> DOMAIN s]
        /\ \A i \in DOMAIN rest : rest[i] = s[g[i]]
    BY <1>6
  <2>2. \A i, j \in DOMAIN rest : g[i] = g[j] => i = j
    BY <1>1, <1>5
  <2>3. Len(rest) <= Len(s)
    BY <1>1, <1>4
  <2> HIDE DEF g
  <2> QED
    BY <2>1, <2>2, <2>3 DEF IsDrawnFrom
<1> QED
  BY <1>3, <1>4, <1>6, <1>7 DEF rest

\* The cleanup leaves lists drawn from the old ones.
LEMMA CleanUpDrawn ==
  ASSUME NEW t \in Thread, NEW STATE fresh, TypeOK, MaxIdle \in Nat,
         NEW STATE idle, idle \in [PoolName -> Seq(Conn)], CleanUp(t, idle, fresh)
  PROVE  /\ mIdleConnections' \in [PoolName -> Seq(Conn)]
         /\ \A p \in PoolName : IsDrawnFrom(mIdleConnections'[p], idle[p])
         /\ mLastCleanTime' \in Nat
<1>1. CASE at[t] - mLastCleanTime > CleanupInterval
  <2>1. PICK f \in [PoolName -> Selection] :
          /\ \A p \in PoolName : Keeps(f[p], idle[p], at[t], fresh)
          /\ mIdleConnections' =
               [p \in PoolName |-> [i \in DOMAIN f[p] |-> idle[p][f[p][i]]]]
    BY <1>1 DEF CleanUp
  <2>2. ASSUME NEW p \in PoolName
        PROVE  mIdleConnections'[p] \in Seq(Conn) /\ IsDrawnFrom(mIdleConnections'[p], idle[p])
    <3>1. PICK n \in 0 .. MaxIdle : f[p] \in [1 .. n -> 1 .. MaxIdle]
      BY DEF Selection
    <3>2. n \in Nat /\ f[p] \in [1 .. n -> Nat]
      BY <3>1
    <3>3. idle[p] \in Seq(Conn) /\ Keeps(f[p], idle[p], at[t], fresh)
      BY <2>1
    <3>4. mIdleConnections'[p] = [i \in DOMAIN f[p] |-> idle[p][f[p][i]]]
      BY <2>1
    <3>5. /\ [i \in DOMAIN f[p] |-> idle[p][f[p][i]]] \in Seq(Conn)
          /\ IsDrawnFrom([i \in DOMAIN f[p] |-> idle[p][f[p][i]]], idle[p])
      BY <3>2, <3>3, KeepsDrawn
    <3> QED
      BY <3>4, <3>5
  <2>3. mLastCleanTime' \in Nat
    BY <1>1 DEF CleanUp, TypeOK
  <2>4. mIdleConnections' = [p \in PoolName |-> mIdleConnections'[p]]
    BY <2>1
  <2> QED
    BY <2>2, <2>3, <2>4
<1>2. CASE ~ (at[t] - mLastCleanTime > CleanupInterval)
  <2>1. mIdleConnections' = idle /\ mLastCleanTime' = mLastCleanTime
    BY <1>2 DEF CleanUp
  <2> QED
    BY <2>1, DrawnFromItself DEF TypeOK
<1> QED
  BY <1>1, <1>2

-----------------------------------------------------------------------------
(* NoSharing, for any idle lists and guards.                               *)

Apart(idle, h) ==
  /\ \A t, u \in Thread : h[t] = h[u] /\ h[t] # NoConn => t = u
  /\ \A t \in Thread, p \in PoolName : \A i \in DOMAIN idle[p] : idle[p][i] # h[t]
  /\ \A p, q \in PoolName : \A i \in DOMAIN idle[p], j \in DOMAIN idle[q] :
       idle[p][i] = idle[q][j] => p = q /\ i = j

\* NoSharing is Apart of the idle lists and guards there are.
LEMMA NoSharingApart == NoSharing <=> Apart(mIdleConnections, held)
BY DEF NoSharing, Apart, IdleConns, Elements

\* Lists drawn from lists that are apart are apart.
LEMMA ApartDrawn ==
  ASSUME NEW STATE idle, NEW STATE new, NEW STATE h, Apart(idle, h),
         \A p \in PoolName : IsDrawnFrom(new[p], idle[p])
  PROVE  Apart(new, h)
<1>1. ASSUME NEW t \in Thread, NEW p \in PoolName, NEW i \in DOMAIN new[p]
      PROVE  new[p][i] # h[t]
  <2>1. \E k \in DOMAIN idle[p] : new[p][i] = idle[p][k]
    BY DEF IsDrawnFrom
  <2> QED
    BY <2>1 DEF Apart
<1>2. ASSUME NEW p \in PoolName, NEW q \in PoolName,
             NEW i \in DOMAIN new[p], NEW j \in DOMAIN new[q], new[p][i] = new[q][j]
      PROVE  p = q /\ i = j
  <2>1. PICK g \in [DOMAIN new[p] -> DOMAIN idle[p]] :
          /\ \A x, y \in DOMAIN new[p] : g[x] = g[y] => x = y
          /\ \A x \in DOMAIN new[p] : new[p][x] = idle[p][g[x]]
    BY DEF IsDrawnFrom
  <2>2. \E k \in DOMAIN idle[q] : new[q][j] = idle[q][k]
    BY DEF IsDrawnFrom
  <2>3. p = q
    BY <1>2, <2>1, <2>2 DEF Apart
  <2>4. g[i] = g[j]
    BY <1>2, <2>1, <2>3 DEF Apart
  <2> QED
    BY <2>1, <2>3, <2>4
<1> QED
  BY <1>1, <1>2 DEF Apart

\* A guard may take a connection that is nowhere.
LEMMA ApartLease ==
  ASSUME NEW STATE idle, NEW STATE h, NEW t \in Thread, NEW STATE c,
         DOMAIN h = Thread, Apart(idle, h),
         \A p \in PoolName : \A i \in DOMAIN idle[p] : idle[p][i] # c,
         \A u \in Thread : h[u] # c
  PROVE  Apart(idle, [h EXCEPT ![t] = c])
BY DEF Apart

\* A guard that gives its connection up leaves the rest apart.
LEMMA ApartReturn ==
  ASSUME NEW STATE idle, NEW STATE h, NEW t \in Thread,
         DOMAIN h = Thread, Apart(idle, h),
         \A p \in PoolName : \A i \in DOMAIN idle[p] : idle[p][i] # NoConn
  PROVE  Apart(idle, [h EXCEPT ![t] = NoConn])
BY DEF Apart

\* An idle list may take the connection a guard gives up.
LEMMA ApartAppend ==
  ASSUME NEW STATE idle, NEW STATE h, NEW t \in Thread, NEW q \in PoolName,
         NoConn \notin Conn, idle \in [PoolName -> Seq(Conn)],
         DOMAIN h = Thread, h[t] \in Conn, Apart(idle, h)
  PROVE  Apart([idle EXCEPT ![q] = Append(@, h[t])], [h EXCEPT ![t] = NoConn])
<1> DEFINE new == [idle EXCEPT ![q] = Append(@, h[t])]
           g == [h EXCEPT ![t] = NoConn]
           last == Len(idle[q]) + 1
<1>1. /\ idle[q] \in Seq(Conn) /\ Len(idle[q]) \in Nat
      /\ new[q] = Append(idle[q], h[t])
      /\ DOMAIN idle[q] = 1 .. Len(idle[q])
  OBVIOUS
<1>2. \A p \in PoolName : p # q => new[p] = idle[p]
  OBVIOUS
<1>3. /\ DOMAIN new[q] = 1 .. last
      /\ new[q][last] = h[t]
      /\ \A i \in DOMAIN new[q] : i # last => i \in DOMAIN idle[q] /\ new[q][i] = idle[q][i]
  BY <1>1
<1>4. \A p \in PoolName : \A i \in DOMAIN new[p] :
        \/ p = q /\ i = last /\ new[p][i] = h[t]
        \/ i \in DOMAIN idle[p] /\ new[p][i] = idle[p][i]
  BY <1>2, <1>3
<1>5. /\ g[t] = NoConn
      /\ \A u \in Thread : u # t => g[u] = h[u] /\ g[u] # h[t]
  BY DEF Apart
<1>6. \A p \in PoolName : \A i \in DOMAIN idle[p] : idle[p][i] \in Conn
  OBVIOUS
<1>7. ASSUME NEW u \in Thread, NEW p \in PoolName, NEW i \in DOMAIN new[p]
      PROVE  new[p][i] # g[u]
  BY <1>4, <1>5, <1>6 DEF Apart
<1>8. ASSUME NEW p \in PoolName, NEW r \in PoolName,
             NEW i \in DOMAIN new[p], NEW j \in DOMAIN new[r], new[p][i] = new[r][j]
      PROVE  p = r /\ i = j
  BY <1>4, <1>8 DEF Apart
<1>9. \A u, v \in Thread : g[u] = g[v] /\ g[u] # NoConn => u = v
  BY <1>5 DEF Apart
<1> HIDE DEF new, g
<1>10. Apart(new, g)
  BY <1>7, <1>8, <1>9 DEF Apart
<1> QED
  BY <1>10 DEF new, g

-----------------------------------------------------------------------------
(* The counts.                                                             *)

InUse(t) == pc[t] \in {"leasing", "release"}

\* The holders of a pool are finitely many, and no more than the threads.
LEMMA HoldersFinite ==
  ASSUME NEW p
  PROVE  /\ IsFiniteSet(Holders(p))
         /\ Cardinality(Holders(p)) \in Nat
         /\ Cardinality(Thread) \in Nat
         /\ Cardinality(Holders(p)) <= Cardinality(Thread)
<1>1. IsFiniteSet(Thread)
  BY ConnectionPoolAssumption
<1>2. Holders(p) \in SUBSET Thread
  BY DEF Holders
<1>3. IsFiniteSet(Holders(p)) /\ Cardinality(Holders(p)) <= Cardinality(Thread)
  BY <1>1, <1>2, FS_Subset
<1> QED
  BY <1>1, <1>3, FS_CardinalityType

\* A pool that a thread outside has is not used by all threads.
LEMMA HoldersRoom ==
  ASSUME NEW t \in Thread, NEW p, ~ InUse(t)
  PROVE  Cardinality(Holders(p)) < Cardinality(Thread)
<1>1. IsFiniteSet(Thread) /\ Holders(p) \in SUBSET Thread
  BY ConnectionPoolAssumption DEF Holders
<1>2. Cardinality(Holders(p)) # Cardinality(Thread)
  <2>1. Cardinality(Thread) = Cardinality(Holders(p)) => Thread = Holders(p)
    BY <1>1, FS_Subset
  <2>2. t \notin Holders(p)
    BY DEF Holders, InUse
  <2> QED
    BY <2>1, <2>2
<1> QED
  BY <1>2, HoldersFinite

\* The count of a pool matches as long as nobody comes or goes.
LEMMA CountsSame ==
  ASSUME TypeOK, CountsMatch, mInUseCount' = mInUseCount,
         \A t \in Thread : InUse(t)' <=> InUse(t),
         \A t \in Thread : InUse(t) => poolName'[t] = poolName[t]
  PROVE  CountsMatch'
<1>1. \A p \in PoolName : Holders(p)' = Holders(p)
  BY DEF Holders, InUse
<1> QED
  BY <1>1 DEF CountsMatch

\* The count still matches when a thread gets its guard.
LEMMA CountsJoin ==
  ASSUME TypeOK, CountsMatch, NEW t \in Thread, ~ InUse(t),
         pc' = [pc EXCEPT ![t] = "leasing"], poolName' = poolName,
         mInUseCount' = [mInUseCount EXCEPT ![poolName[t]] = @ + 1]
  PROVE  CountsMatch'
<1> USE DEF TypeOK, InUse
<1>1. ASSUME NEW p \in PoolName
      PROVE  mInUseCount'[p] = Cardinality(Holders(p)')
  <2>1. CASE p = poolName[t]
    <3>1. Holders(p)' = Holders(p) \cup {t} /\ t \notin Holders(p)
      BY <2>1 DEF Holders
    <3>2. Cardinality(Holders(p) \cup {t}) = Cardinality(Holders(p)) + 1
      BY <3>1, HoldersFinite, FS_AddElement
    <3>3. mInUseCount'[p] = mInUseCount[p] + 1
      BY <2>1
    <3> QED
      BY <3>1, <3>2, <3>3 DEF CountsMatch
  <2>2. CASE p # poolName[t]
    <3>1. Holders(p)' = Holders(p) /\ mInUseCount'[p] = mInUseCount[p]
      BY <2>2 DEF Holders
    <3> QED
      BY <3>1 DEF CountsMatch
  <2> QED
    BY <2>1, <2>2
<1> QED
  BY <1>1 DEF CountsMatch

\* A guard that is given back is counted, and the count still matches.
LEMMA CountsLeave ==
  ASSUME TypeOK, CountsMatch, NEW t \in Thread, InUse(t),
         pc' = [pc EXCEPT ![t] = "outside"], poolName' = poolName,
         mInUseCount' = [mInUseCount EXCEPT ![poolName[t]] = IF @ > 0 THEN @ - 1 ELSE @]
  PROVE  CountsMatch' /\ mInUseCount[poolName[t]] > 0
<1> USE DEF TypeOK, InUse
<1>1. ASSUME NEW p \in PoolName
      PROVE  /\ mInUseCount'[p] = Cardinality(Holders(p)')
             /\ p = poolName[t] => mInUseCount[p] > 0
  <2>1. CASE p = poolName[t]
    <3>1. Holders(p)' = Holders(p) \ {t} /\ t \in Holders(p)
      BY <2>1 DEF Holders
    <3>2. /\ Cardinality(Holders(p) \ {t}) = Cardinality(Holders(p)) - 1
          /\ IsFiniteSet(Holders(p) \ {t})
      BY <3>1, HoldersFinite, FS_RemoveElement
    <3>3. Cardinality(Holders(p) \ {t}) \in Nat
      BY <3>2, FS_CardinalityType
    <3>4. mInUseCount[p] > 0
      BY <3>2, <3>3, HoldersFinite DEF CountsMatch
    <3>5. mInUseCount'[p] = mInUseCount[p] - 1
      BY <2>1, <3>4
    <3> QED
      BY <3>1, <3>2, <3>4, <3>5 DEF CountsMatch
  <2>2. CASE p # poolName[t]
    <3>1. Holders(p)' = Holders(p) /\ mInUseCount'[p] = mInUseCount[p]
      BY <2>2 DEF Holders
    <3> QED
      BY <2>2, <3>1 DEF CountsMatch
  <2> QED
    BY <2>1, <2>2
<1> QED
  BY <1>1 DEF CountsMatch

-----------------------------------------------------------------------------
(* One lemma per action.                                                   *)

\* What the limits say of one pool.
InLimits(p) ==
  /\ Len(mIdleConnections[p]) <= MaxIdle
  /\ Len(mIdleConnections[p]) + mInUseCount[p] <= MaxTotal
  /\ Len(mIdleConnections[p]) + mInUseCount[p] <= Cardinality(Thread)

\* The invariant but for what a step may disturb is kept by steps that leave
\* the lists, the counts and the guards alone.
LEMMA NothingMoved ==
  ASSUME IInv, UNCHANGED <<mIdleConnections, mInUseCount, held>>,
         \A t \in Thread : InUse(t)' <=> InUse(t),
         \A t \in Thread : InUse(t) => poolName'[t] = poolName[t]
  PROVE  GuardsHold' /\ CountsMatch' /\ NoSharing' /\ LimitsKept' /\ NoMoreThanThreads'
<1>1. CountsMatch'
  BY CountsSame DEF IInv
<1>2. NoSharing'
  BY DEF IInv, NoSharing, IdleConns
<1>3. GuardsHold'
  BY DEF IInv, GuardsHold, InUse
<1>4. LimitsKept' /\ NoMoreThanThreads'
  BY DEF IInv, LimitsKept, NoMoreThanThreads
<1> QED
  BY <1>1, <1>2, <1>3, <1>4

\* An Acquire before its lock only notes the pool and the time.
LEMMA BeginAcquireStep ==
  ASSUME IInv, NEW t \in Thread, BeginAcquire(t)
  PROVE  IInv'
<1> USE DEF IInv, BeginAcquire, Goto, connVars, poolVars
<1>1. TypeOK'
  BY DEF TypeOK
<1>2. /\ \A u \in Thread : InUse(u)' <=> InUse(u)
      /\ \A u \in Thread : InUse(u) => poolName'[u] = poolName[u]
  BY DEF TypeOK, InUse, Outside
<1> QED
  BY <1>1, <1>2, NothingMoved

\* Marking a connection as failed moves no connection.
LEMMA MarkAsFailedStep ==
  ASSUME IInv, NEW t \in Thread, MarkAsFailed(t)
  PROVE  IInv'
<1> USE DEF IInv, MarkAsFailed, threadVars, poolVars
<1>1. TypeOK'
  BY DEF TypeOK
<1>2. /\ \A u \in Thread : InUse(u)' <=> InUse(u)
      /\ \A u \in Thread : InUse(u) => poolName'[u] = poolName[u]
  BY DEF InUse
<1> QED
  BY <1>1, <1>2, NothingMoved

\* A Release before its lock only notes the time.
LEMMA BeginReleaseStep ==
  ASSUME IInv, NEW t \in Thread, BeginRelease(t)
  PROVE  IInv'
<1> USE DEF IInv, BeginRelease, Goto, connVars, poolVars
<1>1. TypeOK'
  BY DEF TypeOK
<1>2. /\ \A u \in Thread : InUse(u)' <=> InUse(u)
      /\ \A u \in Thread : InUse(u) => poolName'[u] = poolName[u]
  BY DEF TypeOK, InUse
<1> QED
  BY <1>1, <1>2, NothingMoved

\* Nor does the clock move one.
LEMMA TickStep ==
  ASSUME IInv, Tick
  PROVE  IInv'
<1> USE DEF IInv, Tick, connVars, poolVars, threadVars
<1>1. TypeOK'
  BY DEF TypeOK
<1>2. /\ \A u \in Thread : InUse(u)' <=> InUse(u)
      /\ \A u \in Thread : InUse(u) => poolName'[u] = poolName[u]
  BY DEF InUse
<1> QED
  BY <1>1, <1>2, NothingMoved

\* LimitsKept and NoMoreThanThreads are InLimits of every pool.
LEMMA LimitsSplit ==
  (LimitsKept /\ NoMoreThanThreads) <=> \A p \in PoolName : InLimits(p)
BY DEF LimitsKept, NoMoreThanThreads, InLimits

\* Acquire hands out an idle connection: the list loses it and those before.
LEMMA AcquireIdleStep ==
  ASSUME IInv, NEW t \in Thread, AcquireIdle(t)
  PROVE  IInv'
<1> DEFINE q == poolName[t]
           idle == mIdleConnections[q]
<1>1. PICK k \in DOMAIN idle :
        /\ mIdleConnections' = [mIdleConnections EXCEPT ![q] = SubSeq(idle, k + 1, Len(idle))]
        /\ Lease(t, idle[k])
  BY DEF AcquireIdle
<1>2. /\ pc[t] = "acquire" /\ q \in PoolName /\ TypeOK /\ idle \in Seq(Conn)
      /\ UNCHANGED <<mLastCleanTime, mFailed, now, poolName, at>>
      /\ pc' = [pc EXCEPT ![t] = "leasing"]
      /\ held' = [held EXCEPT ![t] = idle[k]]
      /\ mInUseCount' = [mInUseCount EXCEPT ![q] = @ + 1]
      /\ lastUpdate' = [lastUpdate EXCEPT ![idle[k]] = now]
  BY <1>1 DEF AcquireIdle, Lease, Goto, IInv, TypeOK
<1>3. k \in 1 .. Len(idle) /\ Len(idle) \in Nat /\ idle[k] \in Conn
  BY <1>2
<1>4. /\ mIdleConnections'[q] \in Seq(Conn)
      /\ Len(mIdleConnections'[q]) = Len(idle) - k
      /\ IsDrawnFrom(mIdleConnections'[q], idle)
      /\ \A i \in DOMAIN mIdleConnections'[q] :
           i + k \in DOMAIN idle /\ mIdleConnections'[q][i] = idle[i + k]
  <2>1. mIdleConnections'[q] = SubSeq(idle, k + 1, Len(idle))
    BY <1>1, <1>2 DEF TypeOK
  <2>2. idle \in Seq(Conn) /\ k \in 1 .. Len(idle)
    BY <1>2, <1>3
  <2> HIDE DEF idle, q
  <2> QED
    BY <2>1, <2>2, SuffixDrawn
<1>5. \A p \in PoolName : p # q => mIdleConnections'[p] = mIdleConnections[p]
  BY <1>1, <1>2 DEF TypeOK
<1>6. TypeOK'
  <2>1. mIdleConnections' \in [PoolName -> Seq(Conn)]
    BY <1>1, <1>2, <1>4, <1>5 DEF TypeOK
  <2> QED
    BY <2>1, <1>2, <1>3 DEF TypeOK
<1>7. \A p \in PoolName : IsDrawnFrom(mIdleConnections'[p], mIdleConnections[p])
  <2>2. \A p \in PoolName : IsDrawnFrom(mIdleConnections[p], mIdleConnections[p])
    BY <1>2, DrawnFromItself DEF TypeOK
  <2> QED
    BY <1>4, <2>2, <1>5
<1>8. NoSharing'
  <2>1. Apart(mIdleConnections, held)
    BY NoSharingApart DEF IInv
  <2>2. Apart(mIdleConnections', held)
    BY <2>1, <1>7, ApartDrawn
  <2>3. \A u \in Thread : held[u] # idle[k]
    BY <2>1, <1>2 DEF Apart
  <2>4. \A p \in PoolName : \A i \in DOMAIN mIdleConnections'[p] : mIdleConnections'[p][i] # idle[k]
    <3> SUFFICES ASSUME NEW p \in PoolName, NEW i \in DOMAIN mIdleConnections'[p],
                        mIdleConnections'[p][i] = idle[k]
                 PROVE  FALSE
      OBVIOUS
    <3>1. CASE p # q
      BY <3>1, <2>1, <1>2, <1>5 DEF Apart
    <3>2. CASE p = q
      <4>1. i + k \in DOMAIN idle /\ idle[i + k] = idle[k]
        BY <3>2, <1>4
      <4>2. i + k = k
        BY <4>1, <2>1, <1>2 DEF Apart
      <4>3. i \in Nat /\ i > 0
        BY <3>2, <1>4
      <4> QED
        BY <4>2, <4>3, <1>3
    <3> QED
      BY <3>1, <3>2
  <2>5. DOMAIN held = Thread
    BY <1>2 DEF TypeOK
  <2>6. Apart(mIdleConnections', held')
    BY <2>2, <2>3, <2>4, <2>5, <1>2, ApartLease
  <2> QED
    BY <2>6 DEF NoSharing, Apart, IdleConns, Elements
<1>9. CountsMatch'
  BY <1>2, CountsJoin DEF IInv, InUse
<1>10. GuardsHold'
  BY <1>2, <1>3 DEF IInv, GuardsHold, TypeOK
<1>11. \A p \in PoolName : InLimits(p)'
  <2>1. \A p \in PoolName : InLimits(p) /\ mInUseCount[p] \in Nat
    BY <1>2, LimitsSplit DEF IInv, TypeOK
  <2> SUFFICES ASSUME NEW p \in PoolName PROVE InLimits(p)'
    OBVIOUS
  <2>2. CASE p = q
    <3>1. mInUseCount'[p] = mInUseCount[p] + 1
      BY <2>2, <1>2 DEF TypeOK
    <3>2. Len(mIdleConnections'[p]) = Len(mIdleConnections[p]) - k /\ InLimits(p)
      BY <2>1, <2>2, <1>4
    <3>3. /\ Cardinality(Thread) \in Nat /\ MaxIdle \in Nat /\ MaxTotal \in Nat
          /\ mInUseCount[p] \in Nat /\ Len(mIdleConnections[p]) \in Nat /\ k \in Nat /\ k >= 1
      <4>1. Cardinality(Thread) \in Nat
        BY HoldersFinite
      <4> QED
        BY <4>1, <2>1, <2>2, <1>2, <1>3, ConnectionPoolAssumption
    <3> QED
      BY <3>1, <3>2, <3>3 DEF InLimits
  <2>3. CASE p # q
    <3>1. mInUseCount'[p] = mInUseCount[p] /\ mIdleConnections'[p] = mIdleConnections[p]
      BY <2>3, <1>2, <1>5 DEF TypeOK
    <3> QED
      BY <3>1, <2>1 DEF InLimits
  <2> QED
    BY <2>2, <2>3
<1>12. LimitsKept' /\ NoMoreThanThreads'
  BY <1>11 DEF LimitsKept, NoMoreThanThreads, InLimits
<1> QED
  BY <1>6, <1>8, <1>9, <1>10, <1>12 DEF IInv

\* When the idle loop finds nothing the list is empty, and the others are not
\* touched.
LEMMA ExhaustedDrawn ==
  ASSUME TypeOK, NEW t \in Thread, IdleExhausted(t)
  PROVE  /\ mIdleConnections' \in [PoolName -> Seq(Conn)]
         /\ \A p \in PoolName : IsDrawnFrom(mIdleConnections'[p], mIdleConnections[p])
         /\ \A p \in PoolName :
              /\ p = poolName[t] => Len(mIdleConnections'[p]) = 0
              /\ p # poolName[t] => mIdleConnections'[p] = mIdleConnections[p]
<1>1. mIdleConnections' = [mIdleConnections EXCEPT ![poolName[t]] = <<>>]
  BY DEF IdleExhausted
<1>2. mIdleConnections \in [PoolName -> Seq(Conn)] /\ poolName[t] \in PoolName
  BY DEF TypeOK
<1>3. \A s \in Seq(Conn) : IsDrawnFrom(<<>>, s)
  <2> SUFFICES ASSUME NEW s \in Seq(Conn) PROVE IsDrawnFrom(<<>>, s)
    OBVIOUS
  <2>1. Len(<<>>) = 0 /\ DOMAIN <<>> = {} /\ Len(s) \in Nat
    OBVIOUS
  <2> DEFINE none == <<>>
             g == [i \in {} |-> i]
  <2>2. g \in [{} -> DOMAIN s]
    OBVIOUS
  <2>3. Len(none) <= Len(s) /\ DOMAIN none = {}
    BY <2>1
  <2> HIDE DEF none, g
  <2>4. IsDrawnFrom(none, s)
    BY <2>2, <2>3 DEF IsDrawnFrom
  <2> QED
    BY <2>4 DEF none
<1>4. \A s \in Seq(Conn) : IsDrawnFrom(s, s)
  BY DrawnFromItself
<1>5. ASSUME NEW p \in PoolName
      PROVE  /\ IsDrawnFrom(mIdleConnections'[p], mIdleConnections[p])
             /\ p = poolName[t] => Len(mIdleConnections'[p]) = 0
             /\ p # poolName[t] => mIdleConnections'[p] = mIdleConnections[p]
  <2>1. CASE p = poolName[t]
    <3>1. mIdleConnections'[p] = <<>>
      BY <2>1, <1>1, <1>2
    <3> QED
      BY <3>1, <2>1, <1>2, <1>3
  <2>2. CASE p # poolName[t]
    <3>1. mIdleConnections'[p] = mIdleConnections[p]
      BY <2>2, <1>1, <1>2
    <3> QED
      BY <3>1, <2>2, <1>2, <1>4
  <2> QED
    BY <2>1, <2>2
<1>6. mIdleConnections' \in [PoolName -> Seq(Conn)]
  BY <1>1, <1>2
<1> QED
  BY <1>5, <1>6

\* An Acquire that makes a connection: the idle list is empty by then, and the
\* thread that asks has none, so there is room for one more.
LEMMA AcquireNewStep ==
  ASSUME IInv, NEW t \in Thread, AcquireNew(t)
  PROVE  IInv'
<1>1. PICK c \in Conn \ Alive : Lease(t, c) /\ mFailed' = [mFailed EXCEPT ![c] = FALSE]
  BY DEF AcquireNew
<1>2. /\ pc[t] = "acquire" /\ poolName[t] \in PoolName /\ TypeOK
      /\ IdleExhausted(t) /\ ~ LimitReached(t)
      /\ UNCHANGED <<mLastCleanTime, now, poolName, at>>
      /\ pc' = [pc EXCEPT ![t] = "leasing"]
      /\ held' = [held EXCEPT ![t] = c]
      /\ mInUseCount' = [mInUseCount EXCEPT ![poolName[t]] = @ + 1]
      /\ lastUpdate' = [lastUpdate EXCEPT ![c] = now]
  BY <1>1 DEF AcquireNew, IdleExhausted, Lease, Goto, IInv, TypeOK
<1>3. /\ mIdleConnections' \in [PoolName -> Seq(Conn)]
      /\ \A p \in PoolName : IsDrawnFrom(mIdleConnections'[p], mIdleConnections[p])
      /\ \A p \in PoolName :
           /\ p = poolName[t] => Len(mIdleConnections'[p]) = 0
           /\ p # poolName[t] => mIdleConnections'[p] = mIdleConnections[p]
  BY <1>2, ExhaustedDrawn
<1>4. TypeOK'
  <2>1. /\ mInUseCount' \in [PoolName -> Nat]
        /\ pc' \in [Thread -> Outside \cup {"acquire", "leasing", "release"}]
    BY <1>2 DEF TypeOK
  <2>2. /\ lastUpdate' \in [Conn -> Nat]
        /\ mFailed' \in [Conn -> BOOLEAN]
        /\ held' \in [Thread -> Conn \cup {NoConn}]
    BY <1>1, <1>2 DEF TypeOK
  <2> QED
    BY <2>1, <2>2, <1>2, <1>3 DEF TypeOK
<1>5. NoSharing'
  <2>1. Apart(mIdleConnections', held)
    BY <1>3, NoSharingApart, ApartDrawn DEF IInv
  <2>2. \A u \in Thread : held[u] # c
    BY <1>1, ConnectionPoolAssumption DEF Alive
  <2>3. \A p \in PoolName : \A i \in DOMAIN mIdleConnections[p] : mIdleConnections[p][i] # c
    BY <1>1 DEF Alive, IdleConns, Elements
  <2>4. \A p \in PoolName : \A i \in DOMAIN mIdleConnections'[p] : mIdleConnections'[p][i] # c
    BY <2>3, <1>3 DEF IsDrawnFrom
  <2>5. DOMAIN held = Thread
    BY <1>2 DEF TypeOK
  <2>6. Apart(mIdleConnections', held')
    BY <2>1, <2>2, <2>4, <2>5, <1>2, ApartLease
  <2> QED
    BY <2>6 DEF NoSharing, Apart, IdleConns, Elements
<1>6. CountsMatch'
  BY <1>2, CountsJoin DEF IInv, InUse
<1>7. GuardsHold'
  BY <1>1, <1>2 DEF IInv, GuardsHold, TypeOK
<1>8. ASSUME NEW p \in PoolName
      PROVE  InLimits(p)'
  <2>1. /\ InLimits(p) /\ mInUseCount[p] \in Nat
        /\ Cardinality(Thread) \in Nat /\ MaxIdle \in Nat /\ MaxTotal \in Nat
    BY <1>2, LimitsSplit, HoldersFinite, ConnectionPoolAssumption DEF IInv, TypeOK
  <2>2. CASE p = poolName[t]
    <3>1. Len(mIdleConnections'[p]) = 0 /\ mInUseCount'[p] = mInUseCount[p] + 1
      BY <2>2, <1>2, <1>3 DEF TypeOK
    <3>2. mInUseCount[p] < MaxTotal
      BY <2>1, <2>2, <1>2 DEF LimitReached
    <3>3. mInUseCount[p] < Cardinality(Thread)
      <4>1. Cardinality(Holders(p)) < Cardinality(Thread)
        BY <1>2, HoldersRoom DEF InUse
      <4> QED
        BY <4>1 DEF IInv, CountsMatch
    <3> QED
      BY <2>1, <3>1, <3>2, <3>3 DEF InLimits
  <2>3. CASE p # poolName[t]
    <3>1. mInUseCount'[p] = mInUseCount[p] /\ mIdleConnections'[p] = mIdleConnections[p]
      BY <2>3, <1>2, <1>3 DEF TypeOK
    <3> QED
      BY <3>1, <2>1 DEF InLimits
  <2> QED
    BY <2>2, <2>3
<1>9. LimitsKept' /\ NoMoreThanThreads'
  BY <1>8 DEF LimitsKept, NoMoreThanThreads, InLimits
<1> QED
  BY <1>4, <1>5, <1>6, <1>7, <1>9 DEF IInv

\* Shorter lists and the same counts stay within the limits.
LEMMA LimitsShrink ==
  ASSUME TypeOK, LimitsKept, NoMoreThanThreads,
         mIdleConnections' \in [PoolName -> Seq(Conn)], mInUseCount' = mInUseCount,
         \A p \in PoolName : IsDrawnFrom(mIdleConnections'[p], mIdleConnections[p])
  PROVE  LimitsKept' /\ NoMoreThanThreads'
<1>1. ASSUME NEW p \in PoolName
      PROVE  InLimits(p)'
  <2>1. /\ InLimits(p) /\ mInUseCount[p] \in Nat
        /\ Len(mIdleConnections[p]) \in Nat /\ Len(mIdleConnections'[p]) \in Nat
        /\ Cardinality(Thread) \in Nat /\ MaxIdle \in Nat /\ MaxTotal \in Nat
    <3>1. Cardinality(Thread) \in Nat
      BY HoldersFinite
    <3>2. InLimits(p)
      BY LimitsSplit
    <3> QED
      BY <3>1, <3>2, ConnectionPoolAssumption DEF TypeOK
  <2>2. Len(mIdleConnections'[p]) <= Len(mIdleConnections[p])
    BY DEF IsDrawnFrom
  <2> QED
    BY <2>1, <2>2 DEF InLimits
<1> QED
  BY <1>1 DEF LimitsKept, NoMoreThanThreads, InLimits

\* An Acquire that throws only empties the idle list.
LEMMA AcquireThrowsStep ==
  ASSUME IInv, NEW t \in Thread, AcquireFails(t) \/ AcquireRefused(t)
  PROVE  IInv'
<1>1. /\ TypeOK /\ IdleExhausted(t) /\ pc[t] = "acquire"
      /\ UNCHANGED <<mInUseCount, mLastCleanTime, connVars, now, poolName, held, at>>
      /\ pc' = [pc EXCEPT ![t] = "failed"] \/ pc' = [pc EXCEPT ![t] = "refused"]
  BY DEF AcquireFails, AcquireRefused, IdleExhausted, Goto, IInv
<1>2. /\ mIdleConnections' \in [PoolName -> Seq(Conn)]
      /\ \A p \in PoolName : IsDrawnFrom(mIdleConnections'[p], mIdleConnections[p])
  BY <1>1, ExhaustedDrawn
<1>3. TypeOK'
  BY <1>1, <1>2 DEF TypeOK, Outside, connVars
<1>4. NoSharing'
  <2>1. Apart(mIdleConnections', held)
    BY <1>2, NoSharingApart, ApartDrawn DEF IInv
  <2> QED
    BY <1>1, <2>1 DEF NoSharing, Apart, IdleConns, Elements
<1>5. \A u \in Thread : InUse(u)' <=> InUse(u)
  BY <1>1 DEF TypeOK, InUse
<1>6. CountsMatch'
  BY <1>1, <1>5, CountsSame DEF IInv
<1>7. GuardsHold'
  BY <1>1, <1>5 DEF IInv, GuardsHold, InUse
<1>8. LimitsKept' /\ NoMoreThanThreads'
  BY <1>1, <1>2, LimitsShrink DEF IInv
<1> QED
  BY <1>3, <1>4, <1>6, <1>7, <1>8 DEF IInv

\* What every Release does keeps the guards and the counts right.
LEMMA GiveBackDone ==
  ASSUME IInv, NEW t \in Thread, GiveBack(t)
  PROVE  /\ TypeOK /\ poolName[t] \in PoolName /\ held[t] \in Conn
         /\ GuardsHold' /\ CountsMatch'
         /\ mInUseCount[poolName[t]] > 0
         /\ mInUseCount' = [mInUseCount EXCEPT ![poolName[t]] = @ - 1]
         /\ held' = [held EXCEPT ![t] = NoConn]
         /\ pc' = [pc EXCEPT ![t] = "outside"]
         /\ UNCHANGED <<now, poolName, at>>
<1>1. /\ TypeOK /\ pc[t] = "release"
      /\ mInUseCount' = [mInUseCount EXCEPT ![poolName[t]] = IF @ > 0 THEN @ - 1 ELSE @]
      /\ held' = [held EXCEPT ![t] = NoConn]
      /\ pc' = [pc EXCEPT ![t] = "outside"]
      /\ UNCHANGED <<now, poolName, at>>
  BY DEF GiveBack, Goto, IInv
<1>2. poolName[t] \in PoolName /\ held[t] \in Conn
  BY <1>1 DEF IInv, GuardsHold, TypeOK
<1>3. CountsMatch' /\ mInUseCount[poolName[t]] > 0
  BY <1>1, CountsLeave DEF IInv, InUse
<1>4. GuardsHold'
  BY <1>1, ConnectionPoolAssumption DEF IInv, GuardsHold, TypeOK
<1>5. mInUseCount' = [mInUseCount EXCEPT ![poolName[t]] = @ - 1]
  BY <1>1, <1>2, <1>3 DEF TypeOK
<1> QED
  BY <1>1, <1>2, <1>3, <1>4, <1>5

\* One use less makes room for one more idle connection.
LEMMA LimitsReturn ==
  ASSUME TypeOK, LimitsKept, NoMoreThanThreads, NEW t \in Thread,
         poolName[t] \in PoolName, mInUseCount[poolName[t]] > 0,
         mInUseCount' = [mInUseCount EXCEPT ![poolName[t]] = @ - 1],
         mIdleConnections' \in [PoolName -> Seq(Conn)],
         \A p \in PoolName :
           \/ Len(mIdleConnections'[p]) <= Len(mIdleConnections[p])
           \/ /\ p = poolName[t]
              /\ Len(mIdleConnections'[p]) <= Len(mIdleConnections[p]) + 1
              /\ Len(mIdleConnections[p]) < MaxIdle
  PROVE  LimitsKept' /\ NoMoreThanThreads'
<1>1. ASSUME NEW p \in PoolName
      PROVE  InLimits(p)'
  <2>1. /\ InLimits(p) /\ mInUseCount[p] \in Nat
        /\ Len(mIdleConnections[p]) \in Nat /\ Len(mIdleConnections'[p]) \in Nat
        /\ Cardinality(Thread) \in Nat /\ MaxIdle \in Nat /\ MaxTotal \in Nat
    <3>1. Cardinality(Thread) \in Nat
      BY HoldersFinite
    <3>2. InLimits(p)
      BY LimitsSplit
    <3> QED
      BY <3>1, <3>2, ConnectionPoolAssumption DEF TypeOK
  <2>2. CASE p = poolName[t]
    <3>1. mInUseCount'[p] = mInUseCount[p] - 1
      BY <2>2 DEF TypeOK
    <3>2. /\ Len(mIdleConnections'[p]) <= Len(mIdleConnections[p]) + 1
          /\ Len(mIdleConnections'[p]) <= MaxIdle
      BY <2>1, <2>2 DEF InLimits
    <3> QED
      BY <2>1, <3>1, <3>2 DEF InLimits
  <2>3. CASE p # poolName[t]
    <3>1. /\ mInUseCount'[p] = mInUseCount[p]
          /\ Len(mIdleConnections'[p]) <= Len(mIdleConnections[p])
      BY <2>3 DEF TypeOK
    <3> QED
      BY <2>1, <3>1 DEF InLimits
  <2> QED
    BY <2>2, <2>3
<1> QED
  BY <1>1 DEF LimitsKept, NoMoreThanThreads, InLimits

\* The idle lists and guards after a connection is given up and destroyed.
LEMMA ReturnedApart ==
  ASSUME TypeOK, NoSharing, NEW t \in Thread, held' = [held EXCEPT ![t] = NoConn]
  PROVE  Apart(mIdleConnections, held')
<1>1. DOMAIN held = Thread
  BY DEF TypeOK
<1>2. \A p \in PoolName : \A i \in DOMAIN mIdleConnections[p] : mIdleConnections[p][i] # NoConn
  BY ConnectionPoolAssumption DEF TypeOK
<1>3. Apart(mIdleConnections, held)
  BY NoSharingApart
<1> QED
  BY <1>1, <1>2, <1>3, ApartReturn

\* A Release that destroys the connection.
LEMMA ReleaseDroppedStep ==
  ASSUME IInv, NEW t \in Thread, ReleaseDropped(t)
  PROVE  IInv'
<1>1. GiveBack(t) /\ UNCHANGED <<mIdleConnections, mLastCleanTime, connVars>>
  BY DEF ReleaseDropped
<1>2. /\ TypeOK /\ poolName[t] \in PoolName /\ held[t] \in Conn
      /\ GuardsHold' /\ CountsMatch'
      /\ mInUseCount[poolName[t]] > 0
      /\ mInUseCount' = [mInUseCount EXCEPT ![poolName[t]] = @ - 1]
      /\ held' = [held EXCEPT ![t] = NoConn]
      /\ pc' = [pc EXCEPT ![t] = "outside"]
      /\ UNCHANGED <<now, poolName, at>>
  BY <1>1, GiveBackDone
<1>3. TypeOK'
  BY <1>1, <1>2 DEF TypeOK, Outside, connVars
<1>4. NoSharing'
  <2>1. Apart(mIdleConnections, held')
    BY <1>2, ReturnedApart DEF IInv
  <2> QED
    BY <1>1, <2>1 DEF NoSharing, Apart, IdleConns, Elements
<1>5. LimitsKept' /\ NoMoreThanThreads'
  <2>1. mIdleConnections' \in [PoolName -> Seq(Conn)]
    BY <1>3 DEF TypeOK
  <2>2. \A p \in PoolName : Len(mIdleConnections'[p]) <= Len(mIdleConnections[p])
    BY <1>1, <1>2 DEF TypeOK
  <2> QED
    BY <1>2, <2>1, <2>2, LimitsReturn DEF IInv
<1> QED
  BY <1>2, <1>3, <1>4, <1>5 DEF IInv

\* A Release whose Reset throws destroys the connection, then cleans up.
LEMMA ReleaseResetFailsStep ==
  ASSUME IInv, NEW t \in Thread, ReleaseResetFails(t)
  PROVE  IInv'
<1>1. GiveBack(t) /\ CleanUp(t, mIdleConnections, NoConn) /\ UNCHANGED connVars
  BY DEF ReleaseResetFails
<1>2. /\ TypeOK /\ poolName[t] \in PoolName /\ held[t] \in Conn
      /\ GuardsHold' /\ CountsMatch'
      /\ mInUseCount[poolName[t]] > 0
      /\ mInUseCount' = [mInUseCount EXCEPT ![poolName[t]] = @ - 1]
      /\ held' = [held EXCEPT ![t] = NoConn]
      /\ pc' = [pc EXCEPT ![t] = "outside"]
      /\ UNCHANGED <<now, poolName, at>>
  BY <1>1, GiveBackDone
<1>3. mIdleConnections \in [PoolName -> Seq(Conn)] /\ MaxIdle \in Nat
  BY <1>2, ConnectionPoolAssumption DEF TypeOK
<1>4. /\ mIdleConnections' \in [PoolName -> Seq(Conn)]
      /\ \A p \in PoolName : IsDrawnFrom(mIdleConnections'[p], mIdleConnections[p])
      /\ mLastCleanTime' \in Nat
  BY <1>1, <1>2, <1>3, CleanUpDrawn
<1>5. TypeOK'
  <2>1. mInUseCount' \in [PoolName -> Nat]
    BY <1>2 DEF TypeOK
  <2> QED
    BY <1>1, <1>2, <1>4, <2>1 DEF TypeOK, Outside, connVars
<1>6. NoSharing'
  <2>1. Apart(mIdleConnections, held')
    BY <1>2, ReturnedApart DEF IInv
  <2>2. Apart(mIdleConnections', held')
    BY <2>1, <1>4, ApartDrawn
  <2> QED
    BY <2>2 DEF NoSharing, Apart, IdleConns, Elements
<1>7. LimitsKept' /\ NoMoreThanThreads'
  <2>1. \A p \in PoolName : Len(mIdleConnections'[p]) <= Len(mIdleConnections[p])
    BY <1>4 DEF IsDrawnFrom
  <2> QED
    BY <1>2, <1>4, <2>1, LimitsReturn DEF IInv
<1> QED
  BY <1>2, <1>5, <1>6, <1>7 DEF IInv

\* A Release that appends the connection to the idle list and cleans up.
LEMMA ReleaseKeptStep ==
  ASSUME IInv, NEW t \in Thread, ReleaseKept(t)
  PROVE  IInv'
<1> DEFINE longer == [mIdleConnections EXCEPT ![poolName[t]] = Append(@, held[t])]
<1>1. /\ GiveBack(t) /\ Kept(t) /\ CleanUp(t, longer, held[t])
      /\ lastUpdate' = [lastUpdate EXCEPT ![held[t]] = now] /\ UNCHANGED mFailed
  BY DEF ReleaseKept
<1>2. /\ TypeOK /\ poolName[t] \in PoolName /\ held[t] \in Conn
      /\ GuardsHold' /\ CountsMatch'
      /\ mInUseCount[poolName[t]] > 0
      /\ mInUseCount' = [mInUseCount EXCEPT ![poolName[t]] = @ - 1]
      /\ held' = [held EXCEPT ![t] = NoConn]
      /\ pc' = [pc EXCEPT ![t] = "outside"]
      /\ UNCHANGED <<now, poolName, at>>
  BY <1>1, GiveBackDone
<1>3. /\ mIdleConnections \in [PoolName -> Seq(Conn)] /\ MaxIdle \in Nat
      /\ DOMAIN held = Thread /\ NoConn \notin Conn
  BY <1>2, ConnectionPoolAssumption DEF TypeOK
<1>4. /\ longer \in [PoolName -> Seq(Conn)]
      /\ \A p \in PoolName :
           Len(longer[p]) = IF p = poolName[t] THEN Len(mIdleConnections[p]) + 1
                            ELSE Len(mIdleConnections[p])
  BY <1>2, <1>3
<1>5. Apart(longer, held')
  <2>1. Apart(mIdleConnections, held)
    BY NoSharingApart DEF IInv
  <2>2. Apart(longer, [held EXCEPT ![t] = NoConn])
    BY <1>2, <1>3, <2>1, ApartAppend
  <2> QED
    BY <2>2, <1>2
<1> HIDE DEF longer
<1>6. /\ mIdleConnections' \in [PoolName -> Seq(Conn)]
      /\ \A p \in PoolName : IsDrawnFrom(mIdleConnections'[p], longer[p])
      /\ mLastCleanTime' \in Nat
  BY <1>1, <1>2, <1>3, <1>4, CleanUpDrawn
<1>7. TypeOK'
  <2>1. lastUpdate' \in [Conn -> Nat]
    BY <1>1, <1>2 DEF TypeOK
  <2>2. mInUseCount' \in [PoolName -> Nat]
    BY <1>2 DEF TypeOK
  <2> QED
    BY <1>1, <1>2, <1>6, <2>1, <2>2 DEF TypeOK, Outside
<1>8. NoSharing'
  <2>1. Apart(mIdleConnections', held')
    BY <1>5, <1>6, ApartDrawn
  <2> QED
    BY <2>1 DEF NoSharing, Apart, IdleConns, Elements
<1>9. LimitsKept' /\ NoMoreThanThreads'
  <2>1. Len(mIdleConnections[poolName[t]]) < MaxIdle
    BY <1>1 DEF Kept
  <2>2. ASSUME NEW p \in PoolName
        PROVE  \/ Len(mIdleConnections'[p]) <= Len(mIdleConnections[p])
               \/ /\ p = poolName[t]
                  /\ Len(mIdleConnections'[p]) <= Len(mIdleConnections[p]) + 1
                  /\ Len(mIdleConnections[p]) < MaxIdle
    <3>1. Len(mIdleConnections'[p]) <= Len(longer[p])
      BY <1>6 DEF IsDrawnFrom
    <3> QED
      BY <3>1, <2>1, <1>4
  <2> QED
    BY <1>2, <1>6, <2>2, LimitsReturn DEF IInv
<1> QED
  BY <1>2, <1>7, <1>8, <1>9 DEF IInv

\* The invariant holds at the start.
LEMMA InitIInv ==
  ASSUME Init
  PROVE  IInv
<1>1. TypeOK
  <2>1. mIdleConnections \in [PoolName -> Seq(Conn)]
    BY DEF Init
  <2> QED
    BY <2>1, ConnectionPoolAssumption DEF Init, TypeOK, Outside
<1>2. GuardsHold
  BY ConnectionPoolAssumption DEF Init, GuardsHold
<1>3. CountsMatch
  <2>1. \A p \in PoolName : Holders(p) = {}
    BY DEF Init, Holders
  <2> QED
    BY <2>1, FS_EmptySet DEF Init, CountsMatch
<1>4. \A p \in PoolName : Len(mIdleConnections[p]) = 0 /\ DOMAIN mIdleConnections[p] = {}
  BY DEF Init
<1>5. NoSharing
  BY <1>4 DEF Init, NoSharing, IdleConns, Elements
<1>6. LimitsKept /\ NoMoreThanThreads
  <2>1. Cardinality(Thread) \in Nat
    BY HoldersFinite
  <2>2. \A p \in PoolName : mInUseCount[p] = 0
    BY DEF Init
  <2>3. MaxIdle \in Nat /\ MaxTotal \in Nat
    BY ConnectionPoolAssumption
  <2> QED
    BY <1>4, <2>1, <2>2, <2>3 DEF LimitsKept, NoMoreThanThreads
<1> QED
  BY <1>1, <1>2, <1>3, <1>5, <1>6 DEF IInv

\* A step that changes nothing keeps the invariant.
LEMMA StutterStep ==
  ASSUME IInv, UNCHANGED vars
  PROVE  IInv'
<1> USE DEF vars, poolVars, connVars, threadVars
<1>1. TypeOK'
  BY DEF IInv, TypeOK
<1>2. /\ \A u \in Thread : InUse(u)' <=> InUse(u)
      /\ \A u \in Thread : InUse(u) => poolName'[u] = poolName[u]
  BY DEF InUse
<1> QED
  BY <1>1, <1>2, NothingMoved DEF IInv

-----------------------------------------------------------------------------
(* The results.                                                            *)

\* The invariant of every behaviour of the pool.
THEOREM Invariance == Spec => []IInv
<1>1. Init => IInv
  BY InitIInv
<1>2. IInv /\ [Next]_vars => IInv'
  <2> SUFFICES ASSUME IInv, [Next]_vars PROVE IInv'
    OBVIOUS
  <2>1. ASSUME NEW t \in Thread, Use(t) PROVE IInv'
    BY <2>1, BeginAcquireStep, AcquireIdleStep, AcquireNewStep, AcquireThrowsStep,
       MarkAsFailedStep, BeginReleaseStep, ReleaseDroppedStep, ReleaseKeptStep,
       ReleaseResetFailsStep
    DEF Use
  <2> QED
    BY <2>1, TickStep, StutterStep DEF Next
<1> QED
  BY <1>1, <1>2, PTL DEF Spec

\* Every variable keeps its type.
THEOREM TypeCorrect == Spec => []TypeOK
<1>1. IInv => TypeOK
  BY DEF IInv
<1> QED
  BY <1>1, Invariance, PTL

\* mInUseCount always is the number of live guards, so no path through Acquire
\* and Release leaks a count or loses one.
THEOREM CountsNeverLeak == Spec => []CountsMatch
<1>1. IInv => CountsMatch
  BY DEF IInv
<1> QED
  BY <1>1, Invariance, PTL

\* No connection is ever in two guards, in a guard and an idle list, or in
\* idle lists twice.
THEOREM NeverShared == Spec => []NoSharing
<1>1. IInv => NoSharing
  BY DEF IInv
<1> QED
  BY <1>1, Invariance, PTL

\* Both limits of every pool hold in every state.
THEOREM LimitsAlwaysKept == Spec => []LimitsKept
<1>1. IInv => LimitsKept
  BY DEF IInv
<1> QED
  BY <1>1, Invariance, PTL

\* A pool never has more connections than the process has threads.
THEOREM AtMostOnePerThread == Spec => []NoMoreThanThreads
<1>1. IInv => NoMoreThanThreads
  BY DEF IInv
<1> QED
  BY <1>1, Invariance, PTL

-----------------------------------------------------------------------------
(* ConnectionPool implements ConnectionLease.                              *)

leaseState == [t \in Thread |-> LeaseState(t)]

\* ConnectionLease counts as ConnectionPool does.
LEMMA SameCardinality ==
  ASSUME NEW S
  PROVE  Promise!Cardinality(S) = Cardinality(S)
BY DEF Promise!Cardinality, Cardinality

\* The threads that lease are the holders.
LEMMA LeasingHolders ==
  ASSUME TypeOK, NEW p
  PROVE  Promise!Leasing(p) = Holders(p)
<1>1. \A t \in Thread : LeaseState(t) = "leasing" <=> pc[t] \in {"leasing", "release"}
  BY DEF TypeOK, LeaseState, Outside
<1> QED
  BY <1>1 DEF Promise!Leasing, Holders

\* A thread that goes from one place to another changes its own lease state
\* and no other.
LEMMA LeaseMoves ==
  ASSUME TypeOK, NEW t \in Thread, NEW x, pc' = [pc EXCEPT ![t] = x]
  PROVE  leaseState' = [leaseState EXCEPT ![t] =
           CASE x = "acquire" -> "asking"
             [] x \in {"leasing", "release"} -> "leasing"
             [] OTHER -> x]
BY DEF TypeOK, leaseState, LeaseState

\* A new guard is a grant.
LEMMA LeaseGrants ==
  ASSUME IInv, NEW t \in Thread, NEW c \in Conn, pc[t] = "acquire",
         \A u \in Thread : held[u] # c,
         mInUseCount[poolName[t]] < MaxTotal,
         pc' = [pc EXCEPT ![t] = "leasing"], held' = [held EXCEPT ![t] = c],
         poolName' = poolName
  PROVE  Promise!Grant(t)
<1>1. TypeOK /\ poolName[t] \in PoolName
  BY DEF IInv, TypeOK
<1>2. leaseState[t] = "asking"
  BY DEF leaseState, LeaseState
<1>3. Cardinality(Promise!Leasing(poolName[t])) < MaxTotal
  BY <1>1, LeasingHolders DEF IInv, CountsMatch
<1>4. leaseState' = [leaseState EXCEPT ![t] = "leasing"]
  BY <1>1, LeaseMoves
<1>5. c \in Conn \ {held[u] : u \in Thread}
  OBVIOUS
<1> QED
  BY <1>2, <1>3, <1>4, <1>5, SameCardinality DEF Promise!Grant, leaseState

\* An Acquire that throws because of the limit is a refusal: all of the
\* pool's connections are out.  One that throws because there is no handle is a
\* failure.
LEMMA LeaseThrows ==
  ASSUME IInv, NEW t \in Thread, AcquireFails(t) \/ AcquireRefused(t)
  PROVE  Promise!Fail(t) \/ Promise!Refuse(t)
<1>1. /\ TypeOK /\ pc[t] = "acquire" /\ poolName[t] \in PoolName
      /\ UNCHANGED <<poolName, held>>
  BY DEF AcquireFails, AcquireRefused, IdleExhausted, IInv, TypeOK
<1>2. leaseState[t] = "asking"
  BY <1>1 DEF leaseState, LeaseState
<1>3. Cardinality(Promise!Leasing(poolName[t])) = mInUseCount[poolName[t]]
  BY <1>1, LeasingHolders DEF IInv, CountsMatch
<1>4. /\ mInUseCount[poolName[t]] \in Nat /\ MaxTotal \in Nat
      /\ mInUseCount[poolName[t]] <= MaxTotal
  <2>1. /\ Len(mIdleConnections[poolName[t]]) + mInUseCount[poolName[t]] <= MaxTotal
        /\ Len(mIdleConnections[poolName[t]]) \in Nat
        /\ mInUseCount[poolName[t]] \in Nat
    BY <1>1 DEF IInv, LimitsKept, TypeOK
  <2> QED
    BY <2>1, ConnectionPoolAssumption
<1>5. CASE AcquireFails(t)
  <2>1. ~ LimitReached(t) /\ pc' = [pc EXCEPT ![t] = "failed"]
    BY <1>5 DEF AcquireFails, Goto
  <2>2. leaseState' = [leaseState EXCEPT ![t] = "failed"]
    BY <1>1, <2>1, LeaseMoves
  <2>3. Cardinality(Promise!Leasing(poolName[t])) < MaxTotal
    BY <1>3, <1>4, <2>1 DEF LimitReached
  <2> QED
    BY <1>1, <1>2, <2>2, <2>3, SameCardinality DEF Promise!Fail, leaseState
<1>6. CASE AcquireRefused(t)
  <2>1. LimitReached(t) /\ pc' = [pc EXCEPT ![t] = "refused"]
    BY <1>6 DEF AcquireRefused, Goto
  <2>2. leaseState' = [leaseState EXCEPT ![t] = "refused"]
    BY <1>1, <2>1, LeaseMoves
  <2>3. Cardinality(Promise!Leasing(poolName[t])) = MaxTotal
    BY <1>3, <1>4, <2>1 DEF LimitReached
  <2> QED
    BY <1>1, <1>2, <2>2, <2>3, SameCardinality DEF Promise!Refuse, leaseState
<1> QED
  BY <1>5, <1>6

\* Every Release returns the lease.
LEMMA LeaseReturns ==
  ASSUME IInv, NEW t \in Thread, GiveBack(t)
  PROVE  Promise!Return(t)
<1>1. /\ TypeOK /\ pc[t] = "release" /\ UNCHANGED poolName
      /\ pc' = [pc EXCEPT ![t] = "outside"]
      /\ held' = [held EXCEPT ![t] = NoConn]
  BY DEF GiveBack, Goto, IInv
<1>2. leaseState[t] = "leasing"
  BY <1>1 DEF leaseState, LeaseState
<1>3. leaseState' = [leaseState EXCEPT ![t] = "outside"]
  BY <1>1, LeaseMoves
<1> QED
  BY <1>1, <1>2, <1>3 DEF Promise!Return, leaseState

\* What a thread does is what the leases allow, or does not show.
LEMMA LeaseStep ==
  ASSUME IInv, NEW t \in Thread, Use(t)
  PROVE  Promise!Next \/ UNCHANGED <<leaseState, poolName, held>>
<1>1. TypeOK /\ poolName[t] \in PoolName
  BY DEF IInv, TypeOK
<1>2. CASE BeginAcquire(t)
  <2>1. leaseState' = [leaseState EXCEPT ![t] = "asking"]
    BY <1>1, <1>2, LeaseMoves DEF BeginAcquire, Goto
  <2>2. leaseState[t] \in Outside
    BY <1>2 DEF BeginAcquire, Outside, leaseState, LeaseState
  <2>3. Promise!Ask(t)
    BY <1>2, <2>1, <2>2
    DEF BeginAcquire, Outside, Promise!Ask, Promise!Outside, leaseState
  <2> QED
    BY <2>3 DEF Promise!Next
<1>3. CASE AcquireIdle(t)
  <2> DEFINE idle == mIdleConnections[poolName[t]]
  <2>1. PICK k \in DOMAIN idle : Lease(t, idle[k])
    BY <1>3 DEF AcquireIdle
  <2>2. pc[t] = "acquire" /\ poolName' = poolName /\ idle \in Seq(Conn)
    BY <1>1, <1>3 DEF AcquireIdle, TypeOK
  <2>3. idle[k] \in Conn /\ Len(idle) \in Nat /\ Len(idle) >= 1
    BY <2>2
  <2>4. \A u \in Thread : held[u] # idle[k]
    BY <1>1 DEF IInv, NoSharing, IdleConns, Elements
  <2>5. mInUseCount[poolName[t]] < MaxTotal
    <3>1. /\ Len(idle) + mInUseCount[poolName[t]] <= MaxTotal
          /\ mInUseCount[poolName[t]] \in Nat /\ MaxTotal \in Nat
      BY <1>1, ConnectionPoolAssumption DEF IInv, LimitsKept, TypeOK
    <3> HIDE DEF idle
    <3> QED
      BY <2>3, <3>1
  <2>6. pc' = [pc EXCEPT ![t] = "leasing"] /\ held' = [held EXCEPT ![t] = idle[k]]
    BY <2>1 DEF Lease, Goto
  <2> HIDE DEF idle
  <2>7. Promise!Grant(t)
    BY <2>2, <2>3, <2>4, <2>5, <2>6, LeaseGrants
  <2> QED
    BY <2>7 DEF Promise!Next
<1>4. CASE AcquireNew(t)
  <2>1. PICK c \in Conn \ Alive : Lease(t, c)
    BY <1>4 DEF AcquireNew
  <2>2. pc[t] = "acquire" /\ poolName' = poolName /\ ~ LimitReached(t)
    BY <1>4 DEF AcquireNew, IdleExhausted
  <2>3. \A u \in Thread : held[u] # c
    BY <2>1, ConnectionPoolAssumption DEF Alive
  <2>4. mInUseCount[poolName[t]] < MaxTotal
    BY <1>1, <2>2, ConnectionPoolAssumption DEF LimitReached, TypeOK
  <2>5. pc' = [pc EXCEPT ![t] = "leasing"] /\ held' = [held EXCEPT ![t] = c]
    BY <2>1 DEF Lease, Goto
  <2>6. Promise!Grant(t)
    BY <2>1, <2>2, <2>3, <2>4, <2>5, LeaseGrants
  <2> QED
    BY <2>6 DEF Promise!Next
<1>5. CASE AcquireFails(t) \/ AcquireRefused(t)
  BY <1>5, LeaseThrows DEF Promise!Next
<1>6. CASE MarkAsFailed(t)
  BY <1>6 DEF MarkAsFailed, threadVars, leaseState, LeaseState
<1>7. CASE BeginRelease(t)
  <2>1. leaseState' = [leaseState EXCEPT ![t] = "leasing"]
    BY <1>1, <1>7, LeaseMoves DEF BeginRelease, Goto
  <2>2. leaseState[t] = "leasing"
    BY <1>7 DEF BeginRelease, leaseState, LeaseState
  <2>3. leaseState' = leaseState
    BY <2>1, <2>2 DEF leaseState
  <2> QED
    BY <1>7, <2>3 DEF BeginRelease
<1>8. CASE ReleaseDropped(t) \/ ReleaseKept(t) \/ ReleaseResetFails(t)
  <2>1. GiveBack(t)
    BY <1>8 DEF ReleaseDropped, ReleaseKept, ReleaseResetFails
  <2> QED
    BY <2>1, LeaseReturns DEF Promise!Next
<1> QED
  BY <1>2, <1>3, <1>4, <1>5, <1>6, <1>7, <1>8 DEF Use

\* The pool implements ConnectionLease: for all its keeping, expiring and
\* cleaning up, a caller sees leases within the limit, of connections that no
\* one else has, and is refused only when the limit is out on lease.
THEOREM ImplementsLease == Spec => LeasesKept
<1>1. Init => Promise!Init
  <2> SUFFICES ASSUME Init PROVE Promise!Init
    OBVIOUS
  <2>1. \A t \in Thread : LeaseState(t) = "outside"
    BY DEF Init, LeaseState
  <2> QED
    BY <2>1 DEF Init, Promise!Init
<1>2. IInv /\ [Next]_vars => [Promise!Next]_(Promise!vars)
  <2> SUFFICES ASSUME IInv, [Next]_vars PROVE [Promise!Next]_(Promise!vars)
    OBVIOUS
  <2>1. CASE \E t \in Thread : Use(t)
    BY <2>1, LeaseStep DEF Promise!vars, leaseState
  <2>2. CASE Tick \/ UNCHANGED vars
    BY <2>2 DEF Tick, vars, threadVars, Promise!vars, LeaseState
  <2> QED
    BY <2>1, <2>2 DEF Next
<1> QED
  BY <1>1, <1>2, Invariance, PTL DEF Spec, LeasesKept, Promise!Spec

-----------------------------------------------------------------------------
(* The order of the idle lists, and what is dropped from them.  The times that *)
(* threads read before they got the lock are past, and so are those of the   *)
(* connections.                                                             *)

InOrder(s, times, failed, clock) ==
  \A i \in DOMAIN s :
    /\ ~ failed[s[i]]
    /\ times[s[i]] <= clock
    /\ \A j \in DOMAIN s : i <= j => times[s[i]] <= times[s[j]]

TimesPast ==
  /\ \A t \in Thread : at[t] <= now
  /\ \A c \in Conn : lastUpdate[c] <= now

OrderInv == IdleOldestFirst /\ TimesPast

\* new has its elements from old, in the order they have there.
InOrderOf(new, old) ==
  \E g \in [DOMAIN new -> DOMAIN old] :
    /\ \A i, j \in DOMAIN new : i <= j => g[i] <= g[j]
    /\ \A i \in DOMAIN new : new[i] = old[g[i]]

\* new has all of old but x and what was not usable at a time.
HasUsable(new, old, time, x) ==
  \A j \in DOMAIN old :
    \/ old[j] = x
    \/ ~ Usable(old[j], time)
    \/ \E i \in DOMAIN new : new[i] = old[j]

IsCut(new, old, time, x) == InOrderOf(new, old) /\ HasUsable(new, old, time, x)

\* What is in the order of a list that is sorted is sorted.
LEMMA SortedCut ==
  ASSUME NEW S, NEW old \in Seq(S), NEW times, NEW failed, NEW clock, NEW n \in Nat,
         NEW new, DOMAIN new = 1 .. n, InOrderOf(new, old), InOrder(old, times, failed, clock)
  PROVE  InOrder(new, times, failed, clock)
<1>1. PICK g \in [DOMAIN new -> DOMAIN old] :
        /\ \A i, j \in DOMAIN new : i <= j => g[i] <= g[j]
        /\ \A i \in DOMAIN new : new[i] = old[g[i]]
  BY DEF InOrderOf
<1>2. \A i \in DOMAIN new : g[i] \in DOMAIN old
  BY <1>1
<1> QED
  BY <1>1, <1>2 DEF InOrder

\* A list stays sorted when what was used last is appended.
LEMMA SortedAppend ==
  ASSUME NEW S, NEW s \in Seq(S), NEW e \in S, NEW times, NEW failed, NEW clock \in Nat,
         InOrder(s, times, failed, clock), ~ failed[e], times[e] = clock
  PROVE  InOrder(Append(s, e), times, failed, clock)
<1> DEFINE l == Append(s, e)
<1>1. /\ DOMAIN l = 1 .. (Len(s) + 1) /\ DOMAIN s = 1 .. Len(s) /\ Len(s) \in Nat
      /\ \A i \in 1 .. Len(s) : l[i] = s[i]
      /\ l[Len(s) + 1] = e
  OBVIOUS
<1> HIDE DEF l
<1>2. ASSUME NEW i \in DOMAIN l
      PROVE  ~ failed[l[i]] /\ times[l[i]] <= clock
  <2>1. CASE i = Len(s) + 1
    BY <1>1, <2>1
  <2>2. CASE i # Len(s) + 1
    <3>1. i \in DOMAIN s /\ l[i] = s[i]
      BY <1>1, <2>2
    <3> QED
      BY <3>1 DEF InOrder
  <2> QED
    BY <2>1, <2>2
<1>3. ASSUME NEW i \in DOMAIN l, NEW j \in DOMAIN l, i <= j
      PROVE  times[l[i]] <= times[l[j]]
  <2>1. CASE j = Len(s) + 1
    BY <1>1, <1>2, <2>1
  <2>2. CASE j # Len(s) + 1
    <3>1. i \in DOMAIN s /\ j \in DOMAIN s /\ l[i] = s[i] /\ l[j] = s[j]
      BY <1>1, <1>3, <2>2
    <3> QED
      BY <1>3, <3>1 DEF InOrder
  <2> QED
    BY <2>1, <2>2
<1>4. InOrder(l, times, failed, clock)
  BY <1>2, <1>3 DEF InOrder
<1> QED
  BY <1>4 DEF l

\* A list is a cut of itself.
LEMMA CutOfItself ==
  ASSUME NEW s \in Seq(Conn), NEW STATE time, NEW x
  PROVE  IsCut(s, s, time, x)
<1>1. [i \in DOMAIN s |-> i] \in [DOMAIN s -> DOMAIN s]
  OBVIOUS
<1>2. InOrderOf(s, s)
  BY <1>1 DEF InOrderOf
<1> QED
  BY <1>2 DEF IsCut, HasUsable

\* The loop of Acquire cuts off what is not usable and the connection it takes.
LEMMA CutAtFirst ==
  ASSUME NEW STATE s, s \in Seq(Conn), NEW STATE time, NEW STATE k, FirstUsable(s, time, k)
  PROVE  IsCut(SubSeq(s, k + 1, Len(s)), s, time, s[k])
<1> DEFINE rest == SubSeq(s, k + 1, Len(s))
<1>1. k \in 1 .. Len(s) /\ Len(s) \in Nat /\ \A j \in 1 .. (k - 1) : ~ Usable(s[j], time)
  BY DEF FirstUsable
<1>2. /\ rest \in Seq(Conn) /\ Len(rest) = Len(s) - k
      /\ \A i \in DOMAIN rest : i + k \in DOMAIN s /\ rest[i] = s[i + k]
  BY <1>1, SuffixDrawn
<1> HIDE DEF rest
<1>3. DOMAIN rest = 1 .. (Len(s) - k)
  BY <1>2
<1>4. InOrderOf(rest, s)
  <2> DEFINE g == [i \in DOMAIN rest |-> i + k]
  <2>1. g \in [DOMAIN rest -> DOMAIN s]
    BY <1>2
  <2>2. \A i, j \in DOMAIN rest : i <= j => g[i] <= g[j]
    BY <1>1, <1>3
  <2>3. \A i \in DOMAIN rest : rest[i] = s[g[i]]
    BY <1>2
  <2> HIDE DEF g
  <2> QED
    BY <2>1, <2>2, <2>3 DEF InOrderOf
<1>5. ASSUME NEW j \in DOMAIN s, j # k, Usable(s[j], time)
      PROVE  \E i \in DOMAIN rest : rest[i] = s[j]
  <2>1. j > k /\ j - k \in DOMAIN rest
    BY <1>1, <1>3, <1>5
  <2>2. rest[j - k] = s[j]
    <3>1. rest[j - k] = s[(j - k) + k]
      BY <1>2, <2>1
    <3>2. (j - k) + k = j
      BY <1>1
    <3> QED
      BY <3>1, <3>2
  <2> QED
    BY <2>1, <2>2
<1>6. HasUsable(rest, s, time, s[k])
  BY <1>5 DEF HasUsable
<1> QED
  BY <1>4, <1>6 DEF IsCut, rest

\* A list of which nothing is usable may be cut off whole.
LEMMA CutWhole ==
  ASSUME NEW STATE s, s \in Seq(Conn), NEW STATE time, NEW x, NoneUsable(s, time)
  PROVE  IsCut(<<>>, s, time, x)
<1> DEFINE none == <<>>
           g == [i \in {} |-> i]
<1>1. DOMAIN none = {}
  OBVIOUS
<1>2. g \in [{} -> DOMAIN s]
  OBVIOUS
<1> HIDE DEF none, g
<1>3. InOrderOf(none, s)
  BY <1>1, <1>2 DEF InOrderOf
<1>4. HasUsable(none, s, time, x)
  BY DEF HasUsable, NoneUsable
<1> QED
  BY <1>3, <1>4 DEF IsCut, none

\* So is what remove_if keeps.
LEMMA CutByKeeps ==
  ASSUME NEW STATE s, s \in Seq(Conn), NEW STATE time, NEW STATE fresh, NEW x,
         NEW n \in Nat, NEW STATE f, f \in [1 .. n -> Nat], Keeps(f, s, time, fresh)
  PROVE  IsCut([i \in DOMAIN f |-> s[f[i]]], s, time, x)
<1> DEFINE new == [i \in DOMAIN f |-> s[f[i]]]
<1>1. DOMAIN new = DOMAIN f /\ DOMAIN f = 1 .. n /\ \A i \in DOMAIN f : new[i] = s[f[i]]
  OBVIOUS
<1> HIDE DEF new
<1>2. f \in [DOMAIN new -> DOMAIN s]
  BY <1>1 DEF Keeps
<1>3. \A i, j \in DOMAIN new : i <= j => f[i] <= f[j]
  <2> SUFFICES ASSUME NEW i \in DOMAIN new, NEW j \in DOMAIN new, i <= j
               PROVE  f[i] <= f[j]
    OBVIOUS
  <2>1. i \in 1 .. n /\ j \in 1 .. n /\ f[i] \in Nat /\ f[j] \in Nat
    BY <1>1
  <2>2. i < j => f[i] < f[j]
    BY <1>1 DEF Keeps
  <2> QED
    BY <2>1, <2>2
<1>4. InOrderOf(new, s)
  BY <1>1, <1>2, <1>3 DEF InOrderOf
<1>5. HasUsable(new, s, time, x)
  <2> SUFFICES ASSUME NEW j \in DOMAIN s, Usable(s[j], time)
               PROVE  \E i \in DOMAIN new : new[i] = s[j]
    BY DEF HasUsable
  <2>1. PICK i \in DOMAIN f : f[i] = j
    BY DEF Keeps
  <2> QED
    BY <1>1, <2>1
<1> QED
  BY <1>4, <1>5 DEF IsCut, new

\* The cleanup cuts every list, and its time goes on.
LEMMA CleanUpCuts ==
  ASSUME NEW t \in Thread, NEW STATE fresh, NEW x, TypeOK, NEW STATE idle,
         idle \in [PoolName -> Seq(Conn)], CleanUp(t, idle, fresh)
  PROVE  /\ \A p \in PoolName : IsCut(mIdleConnections'[p], idle[p], at[t], x)
         /\ mLastCleanTime' >= mLastCleanTime
<1>1. CASE at[t] - mLastCleanTime > CleanupInterval
  <2>1. PICK f \in [PoolName -> Selection] :
          /\ \A p \in PoolName : Keeps(f[p], idle[p], at[t], fresh)
          /\ mIdleConnections' =
               [p \in PoolName |-> [i \in DOMAIN f[p] |-> idle[p][f[p][i]]]]
    BY <1>1 DEF CleanUp
  <2>2. ASSUME NEW p \in PoolName
        PROVE  IsCut(mIdleConnections'[p], idle[p], at[t], x)
    <3>0. f[p] \in Selection /\ MaxIdle \in Nat
      BY ConnectionPoolAssumption
    <3>1. PICK n \in 0 .. MaxIdle : f[p] \in [1 .. n -> 1 .. MaxIdle]
      BY <3>0 DEF Selection
    <3>2. n \in Nat /\ f[p] \in [1 .. n -> Nat]
      BY <3>0, <3>1
    <3>3. idle[p] \in Seq(Conn) /\ Keeps(f[p], idle[p], at[t], fresh)
      BY <2>1
    <3>4. mIdleConnections'[p] = [i \in DOMAIN f[p] |-> idle[p][f[p][i]]]
      BY <2>1
    <3>5. IsCut([i \in DOMAIN f[p] |-> idle[p][f[p][i]]], idle[p], at[t], x)
      BY <3>2, <3>3, CutByKeeps
    <3> QED
      BY <3>4, <3>5
  <2>3. mLastCleanTime' >= mLastCleanTime
    <3>1. mLastCleanTime' = at[t]
      BY <1>1 DEF CleanUp
    <3> QED
      BY <1>1, <3>1, ConnectionPoolAssumption DEF TypeOK
  <2> QED
    BY <2>2, <2>3
<1>2. CASE ~ (at[t] - mLastCleanTime > CleanupInterval)
  <2>1. mIdleConnections' = idle /\ mLastCleanTime' = mLastCleanTime
    BY <1>2 DEF CleanUp
  <2>2. mLastCleanTime' >= mLastCleanTime
    BY <2>1 DEF TypeOK
  <2> QED
    BY <2>1, <2>2, CutOfItself
<1> QED
  BY <1>1, <1>2

\* Every step of a thread cuts the lists, which had the connection it keeps
\* appended before.
Longer(t, lists) == [lists EXCEPT ![poolName[t]] = Append(@, held[t])]

CutStep(t, x) ==
  /\ x = NoConn \/ \E u \in Thread : held'[u] = x
  /\ \/ \A p \in PoolName : IsCut(mIdleConnections'[p], mIdleConnections[p], at[t], x)
     \/ /\ ReleaseKept(t)
        /\ \A p \in PoolName :
             IsCut(mIdleConnections'[p], Longer(t, mIdleConnections)[p], at[t], x)

LEMMA UseCuts ==
  ASSUME IInv, NEW t \in Thread, Use(t)
  PROVE  mLastCleanTime' >= mLastCleanTime /\ \E x : CutStep(t, x)
<1>0. /\ TypeOK /\ mIdleConnections \in [PoolName -> Seq(Conn)] /\ poolName[t] \in PoolName
      /\ mLastCleanTime \in Nat /\ held \in [Thread -> Conn \cup {NoConn}]
  BY DEF IInv, TypeOK
<1>1. CASE UNCHANGED <<mIdleConnections, mLastCleanTime>>
  <2>1. \A p \in PoolName : IsCut(mIdleConnections'[p], mIdleConnections[p], at[t], NoConn)
    BY <1>0, <1>1, CutOfItself
  <2>2. CutStep(t, NoConn)
    BY <2>1 DEF CutStep
  <2> QED
    BY <1>0, <1>1, <2>2
<1>2. CASE AcquireIdle(t)
  <2> DEFINE idle == mIdleConnections[poolName[t]]
  <2>1. PICK k \in DOMAIN idle :
          /\ FirstUsable(idle, at[t], k)
          /\ mIdleConnections' = [mIdleConnections EXCEPT ![poolName[t]] =
                                    SubSeq(idle, k + 1, Len(idle))]
          /\ Lease(t, idle[k])
    BY <1>2 DEF AcquireIdle
  <2>2. idle \in Seq(Conn)
    BY <1>0
  <2>3. IsCut(SubSeq(idle, k + 1, Len(idle)), idle, at[t], idle[k])
    BY <2>1, <2>2, CutAtFirst
  <2>4. ASSUME NEW p \in PoolName
        PROVE  IsCut(mIdleConnections'[p], mIdleConnections[p], at[t], idle[k])
    <3>1. CASE p = poolName[t]
      BY <1>0, <2>1, <2>3, <3>1
    <3>2. CASE p # poolName[t]
      <4>1. mIdleConnections'[p] = mIdleConnections[p] /\ mIdleConnections[p] \in Seq(Conn)
        BY <1>0, <2>1, <3>2
      <4> QED
        BY <4>1, CutOfItself
    <3> QED
      BY <3>1, <3>2
  <2>5. held'[t] = idle[k]
    BY <1>0, <2>1 DEF Lease
  <2>6. mLastCleanTime' = mLastCleanTime
    BY <1>2 DEF AcquireIdle
  <2>7. CutStep(t, idle[k])
    BY <2>4, <2>5 DEF CutStep
  <2> HIDE DEF idle
  <2> QED
    BY <1>0, <2>6, <2>7
<1>3. CASE IdleExhausted(t) /\ mLastCleanTime' = mLastCleanTime
  <2>1. ASSUME NEW p \in PoolName
        PROVE  IsCut(mIdleConnections'[p], mIdleConnections[p], at[t], NoConn)
    <3>1. CASE p = poolName[t]
      <4>1. mIdleConnections'[p] = <<>> /\ NoneUsable(mIdleConnections[p], at[t])
            /\ mIdleConnections[p] \in Seq(Conn)
        BY <1>0, <1>3, <3>1 DEF IdleExhausted
      <4> QED
        BY <4>1, CutWhole
    <3>2. CASE p # poolName[t]
      <4>1. mIdleConnections'[p] = mIdleConnections[p] /\ mIdleConnections[p] \in Seq(Conn)
        BY <1>0, <1>3, <3>2 DEF IdleExhausted
      <4> QED
        BY <4>1, CutOfItself
    <3> QED
      BY <3>1, <3>2
  <2>2. CutStep(t, NoConn)
    BY <2>1 DEF CutStep
  <2> QED
    BY <1>0, <1>3, <2>2
<1>4. CASE ReleaseKept(t)
  <2>1. CleanUp(t, Longer(t, mIdleConnections), held[t])
    BY <1>4 DEF ReleaseKept, Longer
  <2>2. held[t] \in Conn
    BY <1>4 DEF ReleaseKept, GiveBack, IInv, GuardsHold
  <2>3. Longer(t, mIdleConnections) \in [PoolName -> Seq(Conn)]
    BY <1>0, <2>2 DEF Longer
  <2>4. /\ mLastCleanTime' >= mLastCleanTime
        /\ \A p \in PoolName : IsCut(mIdleConnections'[p], Longer(t, mIdleConnections)[p],
                                     at[t], NoConn)
    BY <1>0, <2>1, <2>3, CleanUpCuts
  <2>5. CutStep(t, NoConn)
    BY <1>4, <2>4 DEF CutStep
  <2> QED
    BY <2>4, <2>5
<1>5. CASE ReleaseResetFails(t)
  <2>1. CleanUp(t, mIdleConnections, NoConn)
    BY <1>5 DEF ReleaseResetFails
  <2>2. /\ mLastCleanTime' >= mLastCleanTime
        /\ \A p \in PoolName : IsCut(mIdleConnections'[p], mIdleConnections[p], at[t], NoConn)
    BY <1>0, <2>1, CleanUpCuts
  <2>3. CutStep(t, NoConn)
    BY <2>2 DEF CutStep
  <2> QED
    BY <2>2, <2>3
<1> QED
  BY <1>1, <1>2, <1>3, <1>4, <1>5 DEF Use, BeginAcquire, AcquireNew, AcquireFails,
     AcquireRefused, MarkAsFailed, BeginRelease, ReleaseDropped, poolVars

\* What a step drops from the lists was not usable at a time that is past.
LEMMA CutDropsExpired ==
  ASSUME IInv, OrderInv, NEW t \in Thread, NEW x, CutStep(t, x)
  PROVE  \A c \in IdleConns \ (IdleConns' \cup {held'[u] : u \in Thread}) :
           lastUpdate[c] + MaxIdleTime < now
<1> SUFFICES ASSUME NEW c \in IdleConns, c \notin IdleConns', \A u \in Thread : held'[u] # c
             PROVE  lastUpdate[c] + MaxIdleTime < now
  OBVIOUS
<1>0. mIdleConnections \in [PoolName -> Seq(Conn)] /\ poolName[t] \in PoolName
  BY DEF IInv, TypeOK
<1>1. PICK p \in PoolName : \E j \in DOMAIN mIdleConnections[p] : mIdleConnections[p][j] = c
  BY DEF IdleConns, Elements
<1>2. PICK j \in DOMAIN mIdleConnections[p] : mIdleConnections[p][j] = c
  BY <1>1
<1>3. c \in Conn /\ c # x
  <2>1. c \in Conn
    BY <1>0, <1>2
  <2> QED
    BY <2>1, ConnectionPoolAssumption DEF CutStep
<1>4. PICK old :
        /\ HasUsable(mIdleConnections'[p], old, at[t], x)
        /\ j \in DOMAIN old /\ old[j] = c
  <2>1. CASE IsCut(mIdleConnections'[p], mIdleConnections[p], at[t], x)
    BY <1>2, <2>1 DEF IsCut
  <2>2. CASE /\ ReleaseKept(t)
             /\ IsCut(mIdleConnections'[p], Longer(t, mIdleConnections)[p], at[t], x)
    <3>1. held[t] \in Conn
      BY <2>2 DEF ReleaseKept, GiveBack, IInv, GuardsHold
    <3>2. \/ Longer(t, mIdleConnections)[p] = mIdleConnections[p]
          \/ Longer(t, mIdleConnections)[p] = Append(mIdleConnections[p], held[t])
      BY <1>0 DEF Longer
    <3>3. /\ j \in DOMAIN Longer(t, mIdleConnections)[p]
          /\ Longer(t, mIdleConnections)[p][j] = c
      BY <1>0, <1>2, <3>1, <3>2
    <3> QED
      BY <2>2, <3>3 DEF IsCut
  <2> QED
    BY <2>1, <2>2 DEF CutStep
<1>5. \A i \in DOMAIN mIdleConnections'[p] : mIdleConnections'[p][i] # c
  BY DEF IdleConns, Elements
<1>6. ~ Usable(c, at[t])
  BY <1>3, <1>4, <1>5 DEF HasUsable
<1>7. ~ mFailed[c]
  BY <1>2 DEF OrderInv, IdleOldestFirst
<1>8. at[t] > lastUpdate[c] + MaxIdleTime /\ at[t] <= now
  BY <1>3, <1>6, <1>7, ConnectionPoolAssumption DEF Usable, OrderInv, TimesPast, IInv, TypeOK
<1> QED
  BY <1>3, <1>8, ConnectionPoolAssumption DEF IInv, TypeOK

\* A step of a thread keeps the lists in order: the connections that stay in
\* them keep their times, and the one that is appended has the newest.
LEMMA UseKeepsOrder ==
  ASSUME IInv, IInv', OrderInv, NEW t \in Thread, Use(t)
  PROVE  IdleOldestFirst'
<1>0. /\ mIdleConnections \in [PoolName -> Seq(Conn)] /\ poolName[t] \in PoolName
      /\ mIdleConnections' \in [PoolName -> Seq(Conn)]
      /\ lastUpdate \in [Conn -> Nat] /\ mFailed \in [Conn -> BOOLEAN]
      /\ now' = now /\ now \in Nat
  BY DEF IInv, TypeOK, Use, BeginAcquire, AcquireIdle, AcquireNew, AcquireFails, AcquireRefused,
     MarkAsFailed, BeginRelease, ReleaseDropped, ReleaseKept, ReleaseResetFails, GiveBack
<1>1. PICK x : CutStep(t, x)
  BY UseCuts
<1>2. \A p \in PoolName : InOrder(mIdleConnections[p], lastUpdate, mFailed, now)
  BY DEF OrderInv, IdleOldestFirst, InOrder
<1>3. ASSUME NEW p \in PoolName
      PROVE  InOrder(mIdleConnections'[p], lastUpdate', mFailed', now')
  <2>1. PICK n \in Nat : DOMAIN mIdleConnections'[p] = 1 .. n
    BY <1>0
  <2>2. CASE ReleaseKept(t)
    <3> DEFINE old == Longer(t, mIdleConnections)[p]
    <3>1. held[t] \in Conn
      BY <2>2 DEF ReleaseKept, GiveBack, IInv, GuardsHold
    <3>2. /\ lastUpdate' = [lastUpdate EXCEPT ![held[t]] = now]
          /\ mFailed' = mFailed /\ ~ mFailed[held[t]]
      BY <2>2 DEF ReleaseKept, Kept, Usable
    <3>3. \A i \in DOMAIN mIdleConnections[p] :
            mIdleConnections[p][i] # held[t] /\ mIdleConnections[p][i] \in Conn
      BY <1>0 DEF IInv, NoSharing, IdleConns, Elements
    <3>4. InOrder(mIdleConnections[p], lastUpdate', mFailed', now')
      BY <1>0, <1>2, <3>2, <3>3 DEF InOrder
    <3>5. InOrder(Append(mIdleConnections[p], held[t]), lastUpdate', mFailed', now')
      <4>1. mIdleConnections[p] \in Seq(Conn)
        BY <1>0
      <4>2. ~ mFailed'[held[t]] /\ lastUpdate'[held[t]] = now' /\ now' \in Nat
        BY <1>0, <3>1, <3>2
      <4> QED
        BY <3>1, <3>4, <4>1, <4>2, SortedAppend
    <3>6. old = mIdleConnections[p] \/ old = Append(mIdleConnections[p], held[t])
      BY <1>0 DEF Longer
    <3> HIDE DEF old
    <3>7. old \in Seq(Conn) /\ InOrder(old, lastUpdate', mFailed', now')
      <4>1. mIdleConnections[p] \in Seq(Conn)
        BY <1>0
      <4>2. CASE old = mIdleConnections[p]
        BY <3>4, <4>1, <4>2
      <4>3. CASE old = Append(mIdleConnections[p], held[t])
        <5>1. old \in Seq(Conn)
          BY <3>1, <4>1, <4>3
        <5> QED
          BY <3>5, <4>3, <5>1
      <4> QED
        BY <3>6, <4>2, <4>3
    <3>8. CASE InOrderOf(mIdleConnections'[p], old)
      BY <2>1, <3>7, <3>8, SortedCut
    <3>9. CASE InOrderOf(mIdleConnections'[p], mIdleConnections[p])
      BY <1>0, <2>1, <3>4, <3>9, SortedCut
    <3> QED
      BY <1>1, <3>8, <3>9 DEF CutStep, IsCut, old
  <2>3. CASE ~ ReleaseKept(t)
    <3>1. InOrderOf(mIdleConnections'[p], mIdleConnections[p])
      BY <1>1, <2>3 DEF CutStep, IsCut
    <3>2. InOrder(mIdleConnections'[p], lastUpdate, mFailed, now)
      BY <1>0, <1>2, <2>1, <3>1, SortedCut
    <3>3. ASSUME NEW i \in DOMAIN mIdleConnections'[p]
          PROVE  /\ lastUpdate'[mIdleConnections'[p][i]] = lastUpdate[mIdleConnections'[p][i]]
                 /\ mFailed'[mIdleConnections'[p][i]] = mFailed[mIdleConnections'[p][i]]
      <4>1. \A u \in Thread : held'[u] # mIdleConnections'[p][i]
        BY DEF IInv, NoSharing, IdleConns, Elements
      <4>2. \/ UNCHANGED <<lastUpdate, mFailed>>
            \/ /\ mFailed' = [mFailed EXCEPT ![held'[t]] = TRUE]
               /\ lastUpdate' = lastUpdate
            \/ /\ lastUpdate' = [lastUpdate EXCEPT ![held'[t]] = now]
               /\ mFailed' = mFailed \/ mFailed' = [mFailed EXCEPT ![held'[t]] = FALSE]
        <5>1. CASE AcquireIdle(t) \/ AcquireNew(t)
          <6>1. PICK c : Lease(t, c) /\ (mFailed' = mFailed \/ mFailed' = [mFailed EXCEPT ![c] = FALSE])
            BY <5>1 DEF AcquireIdle, AcquireNew
          <6>2. held'[t] = c
            BY <6>1 DEF Lease, IInv, TypeOK
          <6> QED
            BY <6>1, <6>2 DEF Lease
        <5>2. CASE MarkAsFailed(t)
          BY <5>2 DEF MarkAsFailed, threadVars
        <5> QED
          BY <2>3, <5>1, <5>2 DEF Use, BeginAcquire, AcquireFails, AcquireRefused, BeginRelease,
             ReleaseDropped, ReleaseResetFails, connVars
      <4>3. mIdleConnections'[p][i] \in Conn
        BY <1>0
      <4> QED
        BY <1>0, <4>1, <4>2, <4>3
    <3> QED
      BY <1>0, <3>2, <3>3 DEF InOrder
  <2> QED
    BY <2>2, <2>3
<1> QED
  BY <1>3 DEF IdleOldestFirst, InOrder

\* The lists are in order, and every time that was read is past.
LEMMA OrderHolds ==
  Spec => [](IInv /\ OrderInv)
<1>1. Init => OrderInv
  BY ConnectionPoolAssumption DEF Init, OrderInv, IdleOldestFirst, TimesPast
<1>2. IInv /\ IInv' /\ OrderInv /\ [Next]_vars => OrderInv'
  <2> SUFFICES ASSUME IInv, IInv', OrderInv, [Next]_vars
               PROVE  OrderInv'
    OBVIOUS
  <2>1. CASE \E t \in Thread : Use(t)
    <3>1. PICK t \in Thread : Use(t)
      BY <2>1
    <3>2. IdleOldestFirst'
      BY <3>1, UseKeepsOrder
    <3>3. now' = now /\ now \in Nat
      BY <3>1 DEF IInv, TypeOK, Use, BeginAcquire, AcquireIdle, AcquireNew, AcquireFails,
         AcquireRefused, MarkAsFailed, BeginRelease, ReleaseDropped, ReleaseKept,
         ReleaseResetFails, GiveBack
    <3>4. at' = at \/ at' = [at EXCEPT ![t] = now]
      BY <3>1 DEF Use, BeginAcquire, AcquireIdle, AcquireNew, AcquireFails, AcquireRefused,
         MarkAsFailed, BeginRelease, ReleaseDropped, ReleaseKept, ReleaseResetFails, GiveBack,
         threadVars
    <3>5. lastUpdate' = lastUpdate \/ \E c : lastUpdate' = [lastUpdate EXCEPT ![c] = now]
      BY <3>1 DEF Use, BeginAcquire, AcquireIdle, AcquireNew, AcquireFails, AcquireRefused,
         MarkAsFailed, BeginRelease, ReleaseDropped, ReleaseKept, ReleaseResetFails, Lease,
         connVars
    <3>6. TimesPast'
      <4>1. /\ \A u \in Thread : at[u] <= now
            /\ \A c \in Conn : lastUpdate[c] <= now
            /\ at \in [Thread -> Nat] /\ lastUpdate \in [Conn -> Nat]
        BY DEF OrderInv, TimesPast, IInv, TypeOK
      <4>2. now <= now
        BY <3>3
      <4>3. \A u \in Thread : at'[u] <= now'
        BY <3>3, <3>4, <4>1, <4>2
      <4>4. \A c \in Conn : lastUpdate'[c] <= now'
        BY <3>3, <3>5, <4>1, <4>2
      <4> QED
        BY <4>3, <4>4 DEF TimesPast
    <3> QED
      BY <3>2, <3>6 DEF OrderInv
  <2>2. CASE Tick
    <3>1. /\ now' = now + 1 /\ now \in Nat
          /\ UNCHANGED <<mIdleConnections, lastUpdate, mFailed, at>>
          /\ mIdleConnections \in [PoolName -> Seq(Conn)]
          /\ lastUpdate \in [Conn -> Nat] /\ at \in [Thread -> Nat]
      BY <2>2 DEF Tick, poolVars, connVars, threadVars, IInv, TypeOK
    <3>2. TimesPast'
      BY <3>1 DEF OrderInv, TimesPast
    <3>3. IdleOldestFirst'
      <4>1. \A p \in PoolName : \A i \in DOMAIN mIdleConnections[p] :
              lastUpdate[mIdleConnections[p][i]] \in Nat
        BY <3>1
      <4> QED
        BY <3>1, <4>1 DEF OrderInv, IdleOldestFirst
    <3> QED
      BY <3>2, <3>3 DEF OrderInv
  <2>3. CASE UNCHANGED vars
    BY <2>3 DEF vars, poolVars, connVars, threadVars, OrderInv, IdleOldestFirst, TimesPast
  <2> QED
    BY <2>1, <2>2, <2>3 DEF Next
<1> QED
  BY <1>1, <1>2, Invariance, PTL DEF Spec

\* The idle lists hold no failed connection and are sorted by last use, although
\* each thread works with the time it read before it got the lock.
THEOREM IdleListsSorted == Spec => []IdleOldestFirst
<1>1. IInv /\ OrderInv => IdleOldestFirst
  BY DEF OrderInv
<1> QED
  BY <1>1, OrderHolds, PTL

\* What is dropped from an idle list has expired by the clock, and the time of
\* the last cleanup never goes back, however old the times are that threads
\* work with.
THEOREM DropsOnlyExpired == Spec => OnlyExpiredDropped
<1> DEFINE Drops ==
      /\ mLastCleanTime' >= mLastCleanTime
      /\ \A c \in IdleConns \ (IdleConns' \cup {held'[t] : t \in Thread}) :
           lastUpdate[c] + MaxIdleTime < now
<1>1. IInv /\ OrderInv /\ [Next]_vars => [Drops]_vars
  <2> SUFFICES ASSUME IInv, OrderInv, [Next]_vars
               PROVE  [Drops]_vars
    OBVIOUS
  <2>1. CASE \E t \in Thread : Use(t)
    <3>1. PICK t \in Thread : Use(t)
      BY <2>1
    <3>2. mLastCleanTime' >= mLastCleanTime /\ \E x : CutStep(t, x)
      BY <3>1, UseCuts
    <3> QED
      BY <3>2, CutDropsExpired
  <2>2. CASE Tick
    <3>1. mLastCleanTime' = mLastCleanTime /\ mLastCleanTime \in Nat /\ IdleConns' = IdleConns
      BY <2>2 DEF Tick, poolVars, IInv, TypeOK, IdleConns
    <3> QED
      BY <3>1
  <2> QED
    BY <2>1, <2>2 DEF Next
<1> QED
  BY <1>1, OrderHolds, PTL DEF Spec, OnlyExpiredDropped
=============================================================================
