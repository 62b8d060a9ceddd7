------------------------- MODULE UpsertStreamProofs -------------------------
(***************************************************************************)
(* That an UpsertStream loses and reorders no record, that Flush and Close   *)
(* deliver, that Commit tells the truth and that what is buffered is counted, *)
(* for any keys, buckets, slot tables, sizes and numbers of failures.        *)
(***************************************************************************)
EXTENDS UpsertStream, FiniteSetTheorems, WellFoundedInduction, TLAPS

\* The bucket of a key, as long as every bucket has a slot.
Home(k) == Hash[k] % Cardinality(Bucket)

\* The session's table serves every bucket, and what the session takes for
\* committed is.
SessionInv ==
  /\ mBuckets \in [Bucket -> SlotIds]
  /\ mStatus \in ServiceStatus /\ service \in ServiceStatus
  /\ faults \in Nat
  /\ mStatus = "committed" => service = "committed"

\* A pack has the records of k up to the last, in their order, and the service
\* has the one before them, or all if the pack was sent before.
Holds(k, pack, last, there) ==
  /\ \A i, j \in Places(k, pack) :
       i < j => pack.records[i].version < pack.records[j].version
  /\ \E first \in 1 .. (last + 1) :
       /\ {pack.records[i].version : i \in Places(k, pack)} = first .. last
       /\ there \in {first - 1, last}
       /\ ~ pack.mCompleted => there = first - 1

RecordInv ==
  /\ packs \in [Bucket -> Pack]
  /\ accepted \in [Key -> Nat] /\ stored \in [Key -> Nat]
  /\ \A k \in Key : Holds(k, packs[Home(k)], accepted[k], stored[k])
  /\ \A k \in Key, b \in Bucket : b # Home(k) => Places(k, packs[b]) = {}

Drained(b) == packs[b].records = <<>>

\* A Flush of all packs has drained those it has passed; a stream that has failed
\* takes no records, and one whose Close has returned is not open.
CallInv ==
  /\ mTotalBufferSize \in Nat
  /\ streamStatus \in {"normal", "error", "closed"}
  /\ mListener \in BOOLEAN
  /\ reported \in [Key -> Nat]
  /\ flush \in [todo : SUBSET Bucket, all : BOOLEAN, closes : BOOLEAN,
                counted : Nat, retry : Nat]
  /\ pc \in {"idle", "flush", "commit"}
  /\ elapsed \in Nat
  /\ flush.closes => flush.all
  /\ pc = "flush" /\ flush.all => \A b \in Bucket \ flush.todo : Drained(b)
  /\ streamStatus = "closed" \/ result = "flushed" => \A b \in Bucket : Drained(b)
  /\ streamStatus = "error" => reported = accepted
  /\ result = "closed" => streamStatus # "normal"

IInv == SessionInv /\ RecordInv /\ CallInv /\ CommitTruthful

-----------------------------------------------------------------------------
(* Numbers.                                                                 *)

Less == OpToRel(<, Nat)

\* A set of numbers that is not empty has a least one.
LEMMA Least ==
  ASSUME NEW T, T \subseteq Nat, T # {}
  PROVE  \E x \in T : \A y \in T : x <= y
<1>1. IsWellFoundedOn(Less, Nat)
  BY NatLessThanWellFounded DEF Less
<1>2. PICK x \in T : \A y \in T : ~ (<<y, x>> \in Less)
  BY <1>1, WFMin
<1>3. ASSUME NEW y \in T PROVE x <= y
  <2>1. x \in Nat /\ y \in Nat /\ ~ (<<y, x>> \in Less)
    BY <1>2
  <2>2. ~ (y < x)
    BY <2>1 DEF Less, OpToRel
  <2> QED
    BY <2>1, <2>2
<1> QED
  BY <1>3

\* The buckets are numbered from 0, and there is at least one.
LEMMA Buckets ==
  /\ Bucket \subseteq Nat /\ Cardinality(Bucket) \in Nat \ {0}
  /\ Bucket = 0 .. (Cardinality(Bucket) - 1)
<1>1. IsFiniteSet(Bucket) /\ Bucket # {} /\ Bucket = 0 .. (Cardinality(Bucket) - 1)
  BY UpsertSessionAssumption
<1>2. Cardinality(Bucket) \in Nat
  BY <1>1, FS_CardinalityType
<1>3. Cardinality(Bucket) # 0
  BY <1>1, FS_EmptySet
<1> QED
  BY <1>1, <1>2, <1>3

\* Every key has its bucket.
LEMMA HomeIsBucket ==
  ASSUME NEW k \in Key
  PROVE  Home(k) \in Bucket
<1> DEFINE n == Cardinality(Bucket)
           h == Hash[k]
<1>1. n \in Nat \ {0} /\ Bucket = 0 .. (n - 1)
  BY Buckets
<1>2. h \in Nat
  BY UpsertStreamAssumption
<1> HIDE DEF n, h
<1>3. h % n \in 0 .. (n - 1)
  BY <1>1, <1>2
<1> QED
  BY <1>1, <1>3 DEF Home, n, h

\* Write, which asks the table how many buckets there are, finds that bucket.
LEMMA BucketOfIsHome ==
  ASSUME SessionInv, NEW k \in Key
  PROVE  BucketOf(k) = Home(k) /\ DOMAIN mBuckets = Bucket
  BY DEF SessionInv, BucketOf, Home

-----------------------------------------------------------------------------
(* The session.                                                             *)

\* A table of slots of the service serves every bucket.
LEMMA LoadedServesAll ==
  ASSUME NEW table \in SlotTables
  PROVE  Loaded(table) \in [Bucket -> SlotIds]
<1> DEFINE n == Len(table)
           Reached(k) == \A j \in 1 .. (k - 1) : BucketsValid(Inserted(table, j))
           last == CHOOSE k \in DOMAIN table :
                     Reached(k) /\ \A j \in DOMAIN table : Reached(j) => j <= k
<1>1. /\ table \in Seq([mSlotId : Nat, mBuckets : SUBSET Bucket])
      /\ Accepted(table) /\ UNION {table[i].mBuckets : i \in DOMAIN table} = Bucket
  BY UpsertSessionAssumption
<1>2. n \in Nat /\ n # 0 /\ DOMAIN table = 1 .. n
  BY <1>1 DEF Accepted
<1>3. \A k \in 1 .. n : Reached(k)
  BY <1>1, <1>2 DEF Accepted
<1>4. last = n
  <2>1. n \in DOMAIN table /\ Reached(n) /\ \A j \in DOMAIN table : Reached(j) => j <= n
    BY <1>2, <1>3
  <2> HIDE DEF Reached
  <2>2. last \in DOMAIN table /\ \A j \in DOMAIN table : Reached(j) => j <= last
    BY <2>1
  <2>3. n <= last
    BY <2>1, <2>2
  <2> HIDE DEF last, n
  <2> QED
    BY <1>2, <2>2, <2>3
<1>5. Loaded(table) = Inserted(table, n)
  BY <1>4 DEF Loaded
<1> HIDE DEF n, last, Reached
<1>6. {c \in Bucket : \E i \in 1 .. n : Serves(table, i, c)} = Bucket
  BY <1>1, <1>2 DEF Serves
<1>7. ASSUME NEW b \in Bucket
      PROVE  LET i == CHOOSE j \in 1 .. n :
                        Serves(table, j, b) /\ \A l \in 1 .. (j - 1) : ~ Serves(table, l, b)
             IN  table[i].mSlotId \in SlotIds
  <2> DEFINE T == {j \in 1 .. n : Serves(table, j, b)}
             i == CHOOSE j \in 1 .. n :
                    Serves(table, j, b) /\ \A l \in 1 .. (j - 1) : ~ Serves(table, l, b)
  <2>1. T # {} /\ T \subseteq Nat
    BY <1>2, <1>6
  <2>2. PICK j \in T : \A l \in T : j <= l
    BY <2>1, Least
  <2>3. j \in 1 .. n /\ Serves(table, j, b) /\ \A l \in 1 .. (j - 1) : ~ Serves(table, l, b)
    <3>1. j \in 1 .. n /\ Serves(table, j, b) /\ j \in Nat /\ n \in Nat
      BY <1>2, <2>2
    <3>2. ASSUME NEW l \in 1 .. (j - 1), Serves(table, l, b) PROVE FALSE
      <4>1. l \in 1 .. n /\ l < j
        BY <3>1
      <4>2. l \in T
        BY <4>1, <3>2
      <4> QED
        BY <2>2, <4>1, <4>2, <3>1
    <3> QED
      BY <3>1, <3>2
  <2>4. i \in 1 .. n
    BY <2>3
  <2> HIDE DEF i
  <2>5. table[i].mSlotId \in SlotIds
    BY <1>2, <2>4 DEF SlotIds
  <2> QED
    BY <2>5 DEF i
<1>8. Inserted(table, n) \in [Bucket -> SlotIds]
  BY <1>6, <1>7 DEF Inserted
<1> QED
  BY <1>5, <1>8

\* What the service may move on to is a status, and a commit is for good.
LEMMA FollowsKeeps ==
  ASSUME NEW s \in ServiceStatus, NEW t \in Follows(s)
  PROVE  t \in ServiceStatus /\ (s = "committed" => t = "committed")
  BY DEF ServiceStatus, Follows

\* The session after a step: its table serves every bucket, and a commit of the
\* service stays.
SessionKept == SessionInv' /\ (service = "committed" => service' = "committed")

\* A step that leaves the session alone.
LEMMA SessionSame ==
  ASSUME SessionInv, UNCHANGED sessionVars
  PROVE  SessionKept
  BY DEF SessionKept, SessionInv, sessionVars

\* The answer to a commit replaces the table and the status.
LEMMA CommitAnsweredKeeps ==
  ASSUME SessionInv, CommitAnswered
  PROVE  SessionKept
<1>1. PICK table \in SlotTables : mBuckets' = Loaded(table)
  BY DEF CommitAnswered, LoadSlots
<1>2. mBuckets' \in [Bucket -> SlotIds]
  BY <1>1, LoadedServesAll
<1>3. service' \in ServiceStatus /\ (service = "committed" => service' = "committed")
  BY FollowsKeeps DEF CommitAnswered, SessionInv
<1> QED
  BY <1>2, <1>3 DEF SessionKept, SessionInv, CommitAnswered

\* A commit that fails may still have been taken.
LEMMA CommitThrowsKeeps ==
  ASSUME SessionInv, CommitThrows
  PROVE  SessionKept
<1>1. service' \in ServiceStatus /\ (service = "committed" => service' = "committed")
  BY FollowsKeeps DEF CommitThrows, SessionInv
<1>2. faults' \in Nat
  BY DEF CommitThrows, SessionInv, Faulty
<1> QED
  BY <1>1, <1>2 DEF SessionKept, SessionInv, CommitThrows

\* An abort does not undo a commit.
LEMMA AbortRequestKeeps ==
  ASSUME SessionInv, AbortRequest
  PROVE  SessionKept
<1>1. faults' \in Nat
  BY DEF AbortRequest, SessionInv, Faulty
<1>2. service' \in ServiceStatus /\ (service = "committed" => service' = "committed")
  BY DEF AbortRequest, SessionInv, ServiceStatus
<1> QED
  BY <1>1, <1>2 DEF SessionKept, SessionInv, AbortRequest

\* What the service or another session does.
LEMMA ServiceMovesKeeps ==
  ASSUME SessionInv, ServiceMoves
  PROVE  SessionKept
<1>1. service' \in ServiceStatus /\ (service = "committed" => service' = "committed")
  BY FollowsKeeps DEF ServiceMoves, SessionInv
<1> QED
  BY <1>1 DEF SessionKept, SessionInv, ServiceMoves

\* A pack that could not be sent, after which the session may be reloaded.
LEMMA UnsentKeeps ==
  ASSUME SessionInv, UNCHANGED service, faults' \in Nat,
         Reload \/ UNCHANGED <<mBuckets, mStatus>>
  PROVE  SessionKept
<1>1. CASE UNCHANGED <<mBuckets, mStatus>>
  BY <1>1 DEF SessionKept, SessionInv
<1>2. CASE mStatus' = service /\ \E table \in SlotTables : LoadSlots(table)
  <2>1. PICK table \in SlotTables : mBuckets' = Loaded(table)
    BY <1>2 DEF LoadSlots
  <2>2. mBuckets' \in [Bucket -> SlotIds]
    BY <2>1, LoadedServesAll
  <2> QED
    BY <1>2, <2>2 DEF SessionKept, SessionInv
<1> QED
  BY <1>1, <1>2 DEF Reload

\* The slot of the answer to a pack, which may stand in the place of another.
LEMMA UpdateSlotKeeps ==
  ASSUME SessionInv, NEW id \in SlotIds, UpdateSlot(id), UNCHANGED <<mStatus, service, faults>>
  PROVE  SessionKept
<1>1. mBuckets' \in [Bucket -> SlotIds]
  BY DEF SessionInv, UpdateSlot
<1> QED
  BY <1>1 DEF SessionKept, SessionInv

-----------------------------------------------------------------------------
(* Packs.                                                                   *)

\* What a pack is made of.
LEMMA PackIs ==
  ASSUME NEW pack \in Pack
  PROVE  /\ pack.records \in Seq([key : Key, version : Nat]) /\ pack.size \in Nat
         /\ pack.mCompleted \in BOOLEAN
         /\ Len(pack.records) \in Nat /\ DOMAIN pack.records = 1 .. Len(pack.records)
<1>1. /\ pack.records \in Seq([key : Key, version : Nat]) /\ pack.size \in Nat
      /\ pack.mCompleted \in BOOLEAN
  BY DEF Pack
<1> QED
  BY <1>1

\* An empty pack whose records are all at the service.
LEMMA EmptyHolds ==
  ASSUME NEW k, NEW last \in Nat, NEW pack, pack.records = <<>>
  PROVE  Places(k, pack) = {} /\ Holds(k, pack, last, last)
<1>1. Places(k, pack) = {}
  BY DEF Places
<1>2. last + 1 \in 1 .. (last + 1) /\ (last + 1) .. last = {} /\ last = (last + 1) - 1
  OBVIOUS
<1>3. {pack.records[i].version : i \in Places(k, pack)} = {}
  BY <1>1
<1> QED
  BY <1>1, <1>2, <1>3 DEF Holds

\* A pack without records is a pack.
LEMMA EmptyPackIsPack == EmptyPack \in Pack
<1>1. <<>> \in Seq([key : Key, version : Nat])
  OBVIOUS
<1> QED
  BY <1>1 DEF EmptyPack, Pack

\* When a pack has no records of k, the service has them all.
LEMMA NoPlaces ==
  ASSUME NEW k, NEW last \in Nat, NEW there, NEW pack, Holds(k, pack, last, there),
         Places(k, pack) = {}
  PROVE  there = last
<1>1. PICK first \in 1 .. (last + 1) :
        /\ {pack.records[i].version : i \in Places(k, pack)} = first .. last
        /\ there \in {first - 1, last}
  BY DEF Holds
<1>2. first .. last = {}
  BY <1>1
<1>3. first \in Nat /\ ~ (first <= last)
  BY <1>2
<1>4. first = last + 1
  BY <1>3
<1> QED
  BY <1>1, <1>4

\* What is at the service is never newer than the last record.
LEMMA ThereIsBehind ==
  ASSUME NEW k, NEW last \in Nat, NEW there, NEW pack, Holds(k, pack, last, there)
  PROVE  there \in Nat /\ there <= last
<1>1. PICK first \in 1 .. (last + 1) : there \in {first - 1, last}
  BY DEF Holds
<1> QED
  BY <1>1

\* The service that takes a pack has the last record of k.
LEMMA LatestIsLast ==
  ASSUME NEW k \in Key, NEW pack \in Pack, NEW last \in Nat, Holds(k, pack, last, stored[k])
  PROVE  Latest(k, pack) = last
<1> DEFINE places == Places(k, pack)
           V(i) == pack.records[i].version
<1>1. CASE places = {}
  <2>1. stored[k] = last
    BY <1>1, NoPlaces
  <2> QED
    BY <1>1, <2>1 DEF Latest
<1>2. CASE places # {}
  <2>1. places \subseteq Nat
    BY PackIs DEF Places
  <2>2. PICK first \in 1 .. (last + 1) : {V(i) : i \in places} = first .. last
    BY DEF Holds
  <2>3. last \in first .. last
    <3>1. PICK i \in places : TRUE
      BY <1>2
    <3>2. V(i) \in first .. last
      BY <2>2
    <3> HIDE DEF V, places
    <3> QED
      BY <3>2
  <2>4. PICK m \in places : V(m) = last
    BY <2>2, <2>3
  <2>5. ASSUME NEW j \in places PROVE m >= j
    <3>1. V(j) \in first .. last
      BY <2>2
    <3>2. m < j => V(m) < V(j)
      BY <2>5 DEF Holds
    <3>3. j \in Nat /\ m \in Nat
      BY <2>1
    <3> HIDE DEF V, places
    <3>4. ~ (m < j)
      BY <2>4, <3>1, <3>2
    <3> QED
      BY <3>3, <3>4
  <2> DEFINE M == Max(places)
  <2>6. M \in places /\ \A j \in places : M >= j
    BY <2>5 DEF Max
  <2>7. M = m
    <3>1. M \in Nat /\ m \in Nat /\ M >= m /\ m >= M
      BY <2>1, <2>5, <2>6
    <3> HIDE DEF M
    <3> QED
      BY <3>1
  <2>8. Latest(k, pack) = V(M)
    BY <1>2 DEF Latest
  <2> QED
    BY <2>4, <2>7, <2>8
<1> QED
  BY <1>1, <1>2

\* Complete does not touch the records, and gives up what is known of the
\* service.
LEMMA CompletedHolds ==
  ASSUME NEW k, NEW pack \in Pack, NEW last \in Nat, NEW there, Holds(k, pack, last, there)
  PROVE  /\ Completed(pack) \in Pack /\ Completed(pack).records = pack.records
         /\ Places(k, Completed(pack)) = Places(k, pack)
         /\ Holds(k, Completed(pack), last, there) /\ Holds(k, Completed(pack), last, last)
<1> DEFINE c == Completed(pack)
<1>1. c.records = pack.records /\ c.mCompleted = TRUE
  BY DEF Completed, Pack
<1>2. c \in Pack
  <2>1. pack.size + TrailerSize \in Nat
    BY PackIs, UpsertStreamAssumption
  <2> QED
    BY <2>1 DEF Completed, Pack
<1> HIDE DEF c
<1>3. Places(k, c) = Places(k, pack)
  BY <1>1 DEF Places
<1>4. Holds(k, c, last, there) /\ Holds(k, c, last, last)
  BY <1>1, <1>3 DEF Holds
<1> QED
  BY <1>1, <1>2, <1>3, <1>4 DEF c

\* Append puts a record behind the others.
LEMMA AppendedIs ==
  ASSUME NEW pack \in Pack, NEW r \in [key : Key, version : Nat], NEW size \in Nat
  PROVE  LET new == Appended(pack, r, size)
             n == Len(pack.records)
         IN  /\ new \in Pack /\ new.mCompleted = pack.mCompleted
             /\ n + 1 \in Nat /\ DOMAIN new.records = 1 .. (n + 1)
             /\ new.records[n + 1] = r
             /\ \A i \in 1 .. n : new.records[i] = pack.records[i]
<1> DEFINE rs == pack.records
           new == Appended(pack, r, size)
<1>1. rs \in Seq([key : Key, version : Nat]) /\ Len(rs) \in Nat /\ pack.size \in Nat
  BY PackIs
<1>2. Append(rs, r) \in Seq([key : Key, version : Nat]) /\ pack.size + size \in Nat
  BY <1>1
<1>3. new \in Pack
  BY <1>2 DEF Appended, Pack
<1>4. new.records = Append(rs, r) /\ new.mCompleted = pack.mCompleted
  BY DEF Appended, Pack
<1> HIDE DEF rs, new
<1>5. /\ DOMAIN Append(rs, r) = 1 .. (Len(rs) + 1)
      /\ Append(rs, r)[Len(rs) + 1] = r
      /\ \A i \in 1 .. Len(rs) : Append(rs, r)[i] = rs[i]
  BY <1>1
<1> QED
  BY <1>1, <1>3, <1>4, <1>5 DEF rs, new

\* A key whose record it is not, has the records it had.
LEMMA AppendedElsewhere ==
  ASSUME NEW k, NEW pack \in Pack, NEW r \in [key : Key, version : Nat], NEW size \in Nat,
         r.key # k
  PROVE  LET new == Appended(pack, r, size)
         IN  /\ Places(k, new) = Places(k, pack)
             /\ \A i \in Places(k, pack) : new.records[i] = pack.records[i]
             /\ new.mCompleted = pack.mCompleted
<1> DEFINE rs == pack.records
           new == Appended(pack, r, size)
           n == Len(rs)
<1>1. /\ new.mCompleted = pack.mCompleted
      /\ n + 1 \in Nat /\ DOMAIN new.records = 1 .. (n + 1)
      /\ new.records[n + 1] = r
      /\ \A i \in 1 .. n : new.records[i] = rs[i]
  BY AppendedIs
<1>2. n \in Nat /\ DOMAIN rs = 1 .. n
  BY PackIs
<1> HIDE DEF rs, new, n
<1>3. Places(k, new) = {i \in 1 .. (n + 1) : new.records[i].key = k}
  BY <1>1 DEF Places
<1>4. Places(k, pack) = {i \in 1 .. n : rs[i].key = k}
  BY <1>2 DEF Places, rs
<1>5. ASSUME NEW i PROVE i \in Places(k, new) <=> i \in Places(k, pack)
  <2>1. CASE i = n + 1
    BY <2>1, <1>1, <1>2, <1>3, <1>4
  <2>2. CASE i # n + 1
    <3>1. i \in 1 .. (n + 1) <=> i \in 1 .. n
      BY <2>2, <1>2
    <3> QED
      BY <3>1, <1>1, <1>3, <1>4
  <2> QED
    BY <2>1, <2>2
<1>6. Places(k, new) = Places(k, pack)
  BY <1>5
<1> QED
  BY <1>1, <1>4, <1>6 DEF rs, new

\* Append does not change what a pack holds of other keys.
LEMMA AppendedOtherHolds ==
  ASSUME NEW k, NEW pack \in Pack, NEW r \in [key : Key, version : Nat], NEW size \in Nat,
         r.key # k, NEW last \in Nat, NEW there, Holds(k, pack, last, there)
  PROVE  Holds(k, Appended(pack, r, size), last, there)
<1> DEFINE new == Appended(pack, r, size)
<1>1. /\ Places(k, new) = Places(k, pack)
      /\ \A i \in Places(k, pack) : new.records[i] = pack.records[i]
      /\ new.mCompleted = pack.mCompleted
  BY AppendedElsewhere
<1> HIDE DEF new
<1>2. {new.records[i].version : i \in Places(k, new)} =
        {pack.records[i].version : i \in Places(k, pack)}
  BY <1>1
<1>3. Holds(k, new, last, there)
  BY <1>1, <1>2 DEF Holds
<1> QED
  BY <1>3 DEF new

\* The key whose record it is has one more, at the end.
LEMMA AppendedPlaces ==
  ASSUME NEW k, NEW pack \in Pack, NEW r \in [key : Key, version : Nat], NEW size \in Nat,
         r.key = k
  PROVE  LET new == Appended(pack, r, size)
             n == Len(pack.records)
         IN  /\ n \in Nat /\ Places(k, pack) \subseteq 1 .. n
             /\ Places(k, new) = Places(k, pack) \cup {n + 1}
             /\ new.records[n + 1] = r
             /\ \A i \in Places(k, pack) : new.records[i] = pack.records[i]
<1> DEFINE rs == pack.records
           new == Appended(pack, r, size)
           n == Len(rs)
           old == Places(k, pack)
<1>1. /\ n + 1 \in Nat /\ DOMAIN new.records = 1 .. (n + 1)
      /\ new.records[n + 1] = r
      /\ \A i \in 1 .. n : new.records[i] = rs[i]
  BY AppendedIs
<1>2. n \in Nat /\ DOMAIN rs = 1 .. n
  BY PackIs
<1> HIDE DEF rs, new, n
<1>3. Places(k, new) = {i \in 1 .. (n + 1) : new.records[i].key = k}
  BY <1>1 DEF Places
<1>4. old = {i \in 1 .. n : rs[i].key = k}
  BY <1>2 DEF Places, rs
<1>5. ASSUME NEW i PROVE i \in Places(k, new) <=> i \in old \cup {n + 1}
  <2>1. CASE i = n + 1
    BY <2>1, <1>1, <1>2, <1>3, <1>4
  <2>2. CASE i # n + 1
    <3>1. i \in 1 .. (n + 1) <=> i \in 1 .. n
      BY <2>2, <1>2
    <3> QED
      BY <2>2, <3>1, <1>1, <1>3, <1>4
  <2> QED
    BY <2>1, <2>2
<1>6. Places(k, new) = old \cup {n + 1}
  BY <1>5
<1> QED
  BY <1>1, <1>2, <1>4, <1>6 DEF rs, new, n

\* The next record of k, in a pack that was not sent.
LEMMA AppendedHolds ==
  ASSUME NEW k, NEW pack \in Pack, NEW r \in [key : Key, version : Nat], NEW size \in Nat,
         ~ pack.mCompleted, NEW last \in Nat, NEW there, Holds(k, pack, last, there),
         r.key = k, r.version = last + 1
  PROVE  Holds(k, Appended(pack, r, size), last + 1, there)
<1> DEFINE rs == pack.records
           new == Appended(pack, r, size)
           n == Len(rs)
           old == Places(k, pack)
<1>1. r.version = last + 1
  OBVIOUS
<1>2. /\ n \in Nat /\ old \subseteq 1 .. n
      /\ Places(k, new) = old \cup {n + 1}
      /\ new.records[n + 1] = r
      /\ \A i \in old : new.records[i] = rs[i]
  BY AppendedPlaces
<1> HIDE DEF rs, new, n
<1> DEFINE V(i) == rs[i].version
           W(i) == new.records[i].version
<1>7. W(n + 1) = last + 1 /\ \A i \in old : W(i) = V(i)
  BY <1>1, <1>2
<1>8. PICK first \in 1 .. (last + 1) :
        {V(i) : i \in old} = first .. last /\ there = first - 1
  BY DEF Holds, rs
<1>9. first \in Nat /\ first >= 1 /\ first <= last + 1
  OBVIOUS
<1>10. \A i \in old : V(i) \in first .. last
  BY <1>8
<1>11. \A i, j \in old : i < j => V(i) < V(j)
  BY DEF Holds, rs
<1> HIDE DEF V, W, old
<1>12. {W(i) : i \in Places(k, new)} = first .. (last + 1)
  <2>1. {W(i) : i \in Places(k, new)} = {W(i) : i \in old} \cup {W(n + 1)}
    BY <1>2
  <2>2. {W(i) : i \in old} = {V(i) : i \in old}
    BY <1>7
  <2>3. first .. (last + 1) = (first .. last) \cup {last + 1}
    BY <1>9
  <2> QED
    BY <1>7, <1>8, <2>1, <2>2, <2>3
<1>13. ASSUME NEW i \in Places(k, new), NEW j \in Places(k, new), i < j
       PROVE  W(i) < W(j)
  <2>1. i \in old
    <3>1. i # n + 1
      <4>1. j \in 1 .. n \/ j = n + 1
        BY <1>2
      <4>2. j \in 1 .. (n + 1)
        BY <4>1, <1>2
      <4> QED
        BY <4>2, <1>2, <1>13
    <3> QED
      BY <3>1, <1>2
  <2>2. CASE j = n + 1
    <3>1. V(i) \in first .. last
      BY <1>10, <2>1
    <3>2. V(i) < last + 1
      BY <1>9, <3>1
    <3> QED
      BY <2>1, <2>2, <3>2, <1>7
  <2>3. CASE j # n + 1
    <3>1. j \in old
      BY <2>3, <1>2
    <3> QED
      BY <2>1, <3>1, <1>7, <1>11, <1>13
  <2> QED
    BY <2>2, <2>3
<1>14. first \in 1 .. (last + 1 + 1)
  BY <1>9
<1>15. Holds(k, new, last + 1, there)
  <2>1. \A i, j \in Places(k, new) :
          i < j => new.records[i].version < new.records[j].version
    BY <1>13 DEF W
  <2>2. {new.records[i].version : i \in Places(k, new)} = first .. (last + 1)
    BY <1>12 DEF W
  <2>3. there \in {first - 1, last + 1} /\ there = first - 1
    BY <1>8
  <2> QED
    BY <1>14, <2>1, <2>2, <2>3 DEF Holds
<1> QED
  BY <1>15 DEF new

-----------------------------------------------------------------------------
(* Records on their way.                                                    *)

\* Where a Flush is, is a bucket.
LEMMA CurrentIsBucket ==
  ASSUME CallInv, flush.todo # {}
  PROVE  Current \in flush.todo /\ Current \in Bucket
<1>1. flush.todo \subseteq Bucket
  BY DEF CallInv
<1>2. flush.todo \subseteq Nat
  BY <1>1, Buckets
<1>3. \E b \in flush.todo : \A c \in flush.todo : b <= c
  BY <1>2, Least
<1>4. Current \in flush.todo
  BY <1>3 DEF Current
<1> QED
  BY <1>1, <1>4

\* A step that leaves the records alone.
LEMMA RecordsSame ==
  ASSUME RecordInv, UNCHANGED <<packs, accepted, stored>>
  PROVE  RecordInv'
  BY DEF RecordInv

\* One pack changes, and what concerns its keys.
LEMMA PackReplaced ==
  ASSUME RecordInv, NEW b \in Bucket, NEW new \in Pack,
         packs' = [packs EXCEPT ![b] = new],
         accepted' \in [Key -> Nat], stored' \in [Key -> Nat],
         \A k \in Key : Home(k) = b => Holds(k, new, accepted'[k], stored'[k]),
         \A k \in Key : Home(k) # b =>
           accepted'[k] = accepted[k] /\ stored'[k] = stored[k] /\ Places(k, new) = {}
  PROVE  RecordInv'
<1>1. packs \in [Bucket -> Pack]
  BY DEF RecordInv
<1>2. packs' \in [Bucket -> Pack] /\ packs'[b] = new
      /\ \A c \in Bucket : c # b => packs'[c] = packs[c]
  BY <1>1
<1>3. ASSUME NEW k \in Key PROVE Holds(k, packs'[Home(k)], accepted'[k], stored'[k])
  <2>1. Home(k) \in Bucket /\ Holds(k, packs[Home(k)], accepted[k], stored[k])
    BY HomeIsBucket DEF RecordInv
  <2>2. CASE Home(k) = b
    BY <1>2, <2>2
  <2>3. CASE Home(k) # b
    BY <1>2, <2>1, <2>3
  <2> QED
    BY <2>2, <2>3
<1>4. ASSUME NEW k \in Key, NEW c \in Bucket, c # Home(k) PROVE Places(k, packs'[c]) = {}
  BY <1>2, <1>4 DEF RecordInv
<1> QED
  BY <1>2, <1>3, <1>4 DEF RecordInv

\* What the service has after it took the pack of a bucket.
LEMMA StoredAfter ==
  ASSUME RecordInv, NEW b \in Bucket, Store(packs[b])
  PROVE  /\ stored' \in [Key -> Nat]
         /\ \A k \in Key : Home(k) = b => stored'[k] = accepted[k]
         /\ \A k \in Key : Home(k) # b => stored'[k] = stored[k]
         /\ \A k \in Key : stored'[k] >= stored[k]
<1>1. /\ packs[b] \in Pack /\ accepted \in [Key -> Nat] /\ stored \in [Key -> Nat]
  BY DEF RecordInv
<1>2. stored' = [k \in Key |-> Latest(k, packs[b])]
  BY DEF Store
<1>3. ASSUME NEW k \in Key, Home(k) = b
      PROVE  Latest(k, packs[b]) = accepted[k] /\ stored[k] <= accepted[k]
  <2>1. Holds(k, packs[b], accepted[k], stored[k]) /\ accepted[k] \in Nat
    BY <1>1, <1>3 DEF RecordInv
  <2> QED
    BY <1>1, <2>1, LatestIsLast, ThereIsBehind
<1>4. ASSUME NEW k \in Key, Home(k) # b PROVE Latest(k, packs[b]) = stored[k]
  BY <1>4 DEF RecordInv, Latest
<1>5. ASSUME NEW k \in Key
      PROVE  /\ stored'[k] \in Nat /\ stored'[k] >= stored[k]
             /\ Home(k) = b => stored'[k] = accepted[k]
             /\ Home(k) # b => stored'[k] = stored[k]
  <2>1. stored'[k] = Latest(k, packs[b]) /\ stored[k] \in Nat /\ accepted[k] \in Nat
    BY <1>1, <1>2
  <2>2. CASE Home(k) = b
    BY <2>1, <2>2, <1>3
  <2>3. CASE Home(k) # b
    BY <2>1, <2>3, <1>4
  <2> QED
    BY <2>2, <2>3
<1> QED
  BY <1>2, <1>5

\* A pack is drained once the service has taken it.
LEMMA RecordsSent ==
  ASSUME RecordInv, NEW b \in Bucket, Store(packs[b]),
         packs' = [packs EXCEPT ![b] = EmptyPack], UNCHANGED accepted
  PROVE  RecordInv'
<1>1. accepted \in [Key -> Nat] /\ EmptyPack \in Pack /\ EmptyPack.records = <<>>
  BY EmptyPackIsPack DEF RecordInv, EmptyPack
<1>2. /\ stored' \in [Key -> Nat]
      /\ \A k \in Key : Home(k) = b => stored'[k] = accepted[k]
      /\ \A k \in Key : Home(k) # b => stored'[k] = stored[k]
  BY StoredAfter
<1>3. \A k \in Key : Places(k, EmptyPack) = {} /\ Holds(k, EmptyPack, accepted[k], accepted[k])
  BY <1>1, EmptyHolds
<1>4. \A k \in Key : Home(k) = b => Holds(k, EmptyPack, accepted'[k], stored'[k])
  BY <1>2, <1>3
<1> QED
  BY <1>1, <1>2, <1>3, <1>4, PackReplaced

\* A pack that was sent, and may or may not have been taken, stays.
LEMMA RecordsUnsent ==
  ASSUME RecordInv, NEW b \in Bucket, Store(packs[b]) \/ UNCHANGED stored,
         packs' = [packs EXCEPT ![b] = Completed(@)], UNCHANGED accepted
  PROVE  RecordInv'
<1>1. /\ accepted \in [Key -> Nat] /\ stored \in [Key -> Nat] /\ packs[b] \in Pack
      /\ packs' = [packs EXCEPT ![b] = Completed(packs[b])]
  BY DEF RecordInv
<1>2. /\ stored' \in [Key -> Nat]
      /\ \A k \in Key : Home(k) = b => stored'[k] \in {stored[k], accepted[k]}
      /\ \A k \in Key : Home(k) # b => stored'[k] = stored[k]
  <2>1. CASE Store(packs[b])
    BY <2>1, StoredAfter
  <2>2. CASE UNCHANGED stored
    BY <1>1, <2>2
  <2> QED
    BY <2>1, <2>2
<1>3. ASSUME NEW k \in Key, Home(k) = b
      PROVE  Holds(k, Completed(packs[b]), accepted'[k], stored'[k])
  <2>1. Holds(k, packs[b], accepted[k], stored[k]) /\ accepted[k] \in Nat
    BY <1>1, <1>3 DEF RecordInv
  <2>2. /\ Holds(k, Completed(packs[b]), accepted[k], stored[k])
        /\ Holds(k, Completed(packs[b]), accepted[k], accepted[k])
    BY <1>1, <2>1, CompletedHolds
  <2> QED
    BY <1>2, <1>3, <2>2
<1>4. Completed(packs[b]) \in Pack /\ Completed(packs[b]).records = packs[b].records
  <2>1. packs[b].size + TrailerSize \in Nat
    BY <1>1, PackIs, UpsertStreamAssumption
  <2> QED
    BY <1>1, <2>1 DEF Completed, Pack
<1>5. ASSUME NEW k \in Key, Home(k) # b
      PROVE  Places(k, Completed(packs[b])) = {}
  <2>1. Places(k, packs[b]) = {}
    BY <1>5 DEF RecordInv
  <2> QED
    BY <1>4, <2>1 DEF Places
<1> QED
  BY <1>1, <1>2, <1>3, <1>4, <1>5, PackReplaced

\* Write puts the next record of a key into the pack of its bucket.
LEMMA RecordsWritten ==
  ASSUME IInv, NEW k \in Key, NEW size \in RecordSizes, Write(k, size)
  PROVE  RecordInv'
<1> DEFINE b == Home(k)
           r == [key |-> k, version |-> accepted[k] + 1]
           new == Appended(packs[b], r, size)
<1>1. /\ accepted \in [Key -> Nat] /\ stored \in [Key -> Nat] /\ packs \in [Bucket -> Pack]
      /\ size \in Nat /\ b \in Bucket /\ BucketOf(k) = b
  BY HomeIsBucket, BucketOfIsHome, UpsertStreamAssumption DEF IInv, RecordInv
<1>2. /\ packs' = [packs EXCEPT ![b] = new] /\ ~ packs[b].mCompleted
      /\ accepted' = [accepted EXCEPT ![k] = @ + 1] /\ stored' = stored
  BY <1>1 DEF Write
<1>3. /\ packs[b] \in Pack /\ accepted[k] \in Nat
      /\ r \in [key : Key, version : Nat] /\ r.key = k /\ r.version = accepted[k] + 1
  BY <1>1
<1> HIDE DEF b, r
<1>4. new \in Pack
  BY <1>1, <1>3, AppendedIs
<1>5. accepted' \in [Key -> Nat] /\ stored' \in [Key -> Nat]
      /\ accepted'[k] = accepted[k] + 1
      /\ \A j \in Key : j # k => accepted'[j] = accepted[j]
  BY <1>1, <1>2
<1>6. ASSUME NEW j \in Key, Home(j) = b PROVE Holds(j, new, accepted'[j], stored'[j])
  <2>1. Holds(j, packs[b], accepted[j], stored[j]) /\ accepted[j] \in Nat
    BY <1>1, <1>6 DEF IInv, RecordInv
  <2>2. CASE j = k
    <3>1. Holds(k, new, accepted[k] + 1, stored[k])
      BY <1>1, <1>2, <1>3, <2>1, <2>2, AppendedHolds
    <3> QED
      BY <1>2, <1>5, <2>2, <3>1
  <2>3. CASE j # k
    <3>1. Holds(j, new, accepted[j], stored[j])
      BY <1>1, <1>3, <2>1, <2>3, AppendedOtherHolds
    <3> QED
      BY <1>2, <1>5, <2>3, <3>1
  <2> QED
    BY <2>2, <2>3
<1>7. ASSUME NEW j \in Key, Home(j) # b
      PROVE  accepted'[j] = accepted[j] /\ stored'[j] = stored[j] /\ Places(j, new) = {}
  <2>1. j # k
    BY <1>7 DEF b
  <2>2. Places(j, packs[b]) = {}
    BY <1>1, <1>7 DEF IInv, RecordInv
  <2>3. Places(j, new) = Places(j, packs[b])
    BY <1>1, <1>3, <2>1, AppendedElsewhere
  <2> QED
    BY <1>2, <1>5, <2>1, <2>2, <2>3
<1>8. RecordInv
  BY DEF IInv
<1> HIDE DEF new
<1> QED
  BY <1>1, <1>2, <1>4, <1>5, <1>6, <1>7, <1>8, PackReplaced

\* Reset gives up what the service does not have.
LEMMA RecordsReset ==
  ASSUME IInv, Reset
  PROVE  RecordInv'
<1>1. /\ stored \in [Key -> Nat] /\ packs \in [Bucket -> Pack] /\ DOMAIN mBuckets = Bucket
  BY DEF IInv, RecordInv, SessionInv
<1>2. packs' = [b \in Bucket |-> EmptyPack] /\ accepted' = stored /\ stored' = stored
  BY <1>1 DEF Reset
<1>3. EmptyPack \in Pack /\ EmptyPack.records = <<>>
  BY EmptyPackIsPack DEF EmptyPack
<1>4. ASSUME NEW k \in Key
      PROVE  Places(k, EmptyPack) = {} /\ Holds(k, EmptyPack, stored[k], stored[k])
  <2>1. stored[k] \in Nat
    BY <1>1
  <2> QED
    BY <1>3, <2>1, EmptyHolds
<1> QED
  BY <1>1, <1>2, <1>3, <1>4, HomeIsBucket DEF RecordInv

-----------------------------------------------------------------------------
(* Calls.                                                                   *)

\* A call that goes on without touching the packs.
LEMMA CallSame ==
  ASSUME CallInv, UNCHANGED <<bufferVars, streamVars, flush, pc, accepted>>,
         result' = result, elapsed' \in Nat
  PROVE  CallInv'
  BY DEF CallInv, Drained, bufferVars, streamVars

\* A call that ends.
LEMMA EndsKeeps ==
  ASSUME CallInv, NEW how, Ends(how), mTotalBufferSize' \in Nat,
         streamStatus' \in {"normal", "error", "closed"}, UNCHANGED mListener,
         streamStatus' = "closed" \/ how = "flushed" => \A b \in Bucket : Drained(b)',
         reported' \in [Key -> Nat], streamStatus' = "error" => reported' = accepted',
         how = "closed" => streamStatus' # "normal"
  PROVE  CallInv'
<1>1. /\ flush' = NoFlush /\ pc' = "idle" /\ result' = how /\ elapsed' = 0
  BY DEF Ends
<1>2. NoFlush \in [todo : SUBSET Bucket, all : BOOLEAN, closes : BOOLEAN,
                   counted : Nat, retry : Nat]
  BY DEF NoFlush
<1>3. ~ NoFlush.closes
  BY DEF NoFlush
<1>4. mListener' \in BOOLEAN
  BY DEF CallInv
<1> QED
  BY <1>1, <1>2, <1>3, <1>4 DEF CallInv

\* A Flush that starts has all packs before it.
LEMMA StartFlushKeeps ==
  ASSUME CallInv, DOMAIN mBuckets = Bucket, NEW all \in BOOLEAN, NEW closes \in BOOLEAN,
         closes => all, StartFlush(all, closes), mTotalBufferSize' \in Nat,
         UNCHANGED streamVars, streamStatus = "closed" => \A b \in Bucket : Drained(b)',
         streamStatus = "error" => accepted' = accepted
  PROVE  CallInv'
<1> DEFINE new == [todo |-> Bucket, all |-> all, closes |-> closes,
                   counted |-> 0, retry |-> 0]
<1>1. /\ flush' = new /\ pc' = "flush" /\ result' = "nothing" /\ elapsed' = elapsed
      /\ streamStatus' = streamStatus /\ mListener' = mListener /\ reported' = reported
  BY DEF StartFlush, streamVars
<1>2. new \in [todo : SUBSET Bucket, all : BOOLEAN, closes : BOOLEAN,
               counted : Nat, retry : Nat]
  OBVIOUS
<1>3. new.todo = Bucket /\ new.all = all /\ new.closes = closes
  OBVIOUS
<1> HIDE DEF new
<1> QED
  BY <1>1, <1>2, <1>3 DEF CallInv

\* A Flush that goes on, past packs that a Flush of all packs has drained.
LEMMA GoesOnKeeps ==
  ASSUME CallInv, pc = "flush",
         flush' \in [todo : SUBSET Bucket, all : BOOLEAN, closes : BOOLEAN,
                    counted : Nat, retry : Nat],
         flush'.all = flush.all, flush'.closes = flush.closes,
         flush.all => \A b \in flush.todo \ flush'.todo : Drained(b)',
         \A b \in Bucket : Drained(b) => Drained(b)',
         UNCHANGED <<mTotalBufferSize, streamVars, pc, result, elapsed, accepted>>
  PROVE  CallInv'
<1>1. ASSUME flush'.all, NEW b \in Bucket \ flush'.todo PROVE Drained(b)'
  BY <1>1 DEF CallInv
<1> QED
  BY <1>1 DEF CallInv, streamVars

\* What an action leaves of a commit that was told of.
LEMMA CommitStays ==
  ASSUME CommitTruthful, SessionKept, result' # "committed" \/ result' = result
  PROVE  CommitTruthful'
  BY DEF CommitTruthful, SessionKept

-----------------------------------------------------------------------------
(* The actions.                                                             *)

\* Write that throws changes nothing.
LEMMA WriteThrowsKeeps ==
  ASSUME IInv, NEW k \in Key, WriteThrows(k)
  PROVE  IInv'
<1>1. SessionKept /\ RecordInv'
  BY SessionSame, RecordsSame DEF IInv, WriteThrows, bufferVars, recordVars
<1>2. CallInv'
  BY EndsKeeps DEF IInv, CallInv, WriteThrows, bufferVars, streamVars, recordVars, Drained
<1>3. CommitTruthful'
  BY <1>1, CommitStays DEF IInv, WriteThrows, Ends
<1> QED
  BY <1>1, <1>2, <1>3 DEF IInv, SessionKept

\* Write, whether it goes on to send or not.
LEMMA WriteKeeps ==
  ASSUME IInv, NEW k \in Key, NEW size \in RecordSizes, Write(k, size)
  PROVE  IInv'
<1>1. SessionKept /\ RecordInv'
  BY SessionSame, RecordsWritten DEF IInv, Write
<1>2. /\ CallInv /\ DOMAIN mBuckets = Bucket /\ streamStatus = "normal"
      /\ mTotalBufferSize' \in Nat /\ UNCHANGED streamVars
  BY UpsertStreamAssumption DEF IInv, CallInv, SessionInv, Write
<1>3. \/ StartFlush(FALSE, FALSE)
      \/ StartFlush(TRUE, FALSE)
      \/ Ends("nothing")
  BY DEF Write
<1>4. CallInv'
  <2>1. CASE StartFlush(FALSE, FALSE)
    BY <1>2, <2>1, StartFlushKeeps
  <2>2. CASE StartFlush(TRUE, FALSE)
    BY <1>2, <2>2, StartFlushKeeps
  <2>3. CASE Ends("nothing")
    <3>1. streamStatus' = "normal" /\ UNCHANGED mListener /\ reported' \in [Key -> Nat]
      BY <1>2 DEF streamVars, CallInv
    <3> QED
      BY <1>2, <2>3, <3>1, EndsKeeps
  <2> QED
    BY <1>3, <2>1, <2>2, <2>3
<1>5. CommitTruthful'
  BY <1>1, <1>3, CommitStays DEF IInv, StartFlush, Ends
<1> QED
  BY <1>1, <1>4, <1>5 DEF IInv, SessionKept

\* Flush starts at the first pack.
LEMMA FlushKeeps ==
  ASSUME IInv, NEW all \in BOOLEAN, Flush(all)
  PROVE  IInv'
<1>1. SessionKept /\ RecordInv'
  BY SessionSame, RecordsSame DEF IInv, Flush, bufferVars, recordVars
<1>2. CallInv'
  <2>1. /\ CallInv /\ DOMAIN mBuckets = Bucket /\ StartFlush(all, FALSE)
        /\ mTotalBufferSize' \in Nat /\ UNCHANGED <<streamVars, accepted>>
        /\ streamStatus = "closed" => \A b \in Bucket : Drained(b)'
    BY DEF IInv, CallInv, SessionInv, Flush, bufferVars, recordVars, Drained
  <2> QED
    BY <2>1, StartFlushKeeps
<1>3. CommitTruthful'
  BY <1>1, CommitStays DEF IInv, Flush, StartFlush
<1> QED
  BY <1>1, <1>2, <1>3 DEF IInv, SessionKept

\* Close flushes all packs of an open stream, and returns at once from another.
LEMMA CloseKeeps ==
  ASSUME IInv, Close
  PROVE  IInv'
<1>1. SessionKept /\ RecordInv'
  BY SessionSame, RecordsSame DEF IInv, Close, bufferVars, recordVars
<1>2. /\ CallInv /\ DOMAIN mBuckets = Bucket
      /\ UNCHANGED <<bufferVars, streamVars, accepted>>
      /\ mTotalBufferSize' \in Nat /\ \A b \in Bucket : Drained(b) => Drained(b)'
  BY DEF IInv, CallInv, SessionInv, Close, bufferVars, recordVars, Drained
<1>3. CASE streamStatus = "normal" /\ StartFlush(TRUE, TRUE)
  <2>1. CallInv'
    BY <1>2, <1>3, StartFlushKeeps
  <2>2. CommitTruthful'
    BY <1>1, <1>3, CommitStays DEF IInv, StartFlush
  <2> QED
    BY <1>1, <2>1, <2>2 DEF IInv, SessionKept
<1>4. CASE streamStatus # "normal" /\ Ends("closed")
  <2>1. CallInv'
    BY <1>2, <1>4, EndsKeeps DEF CallInv, streamVars
  <2>2. CommitTruthful'
    BY <1>1, <1>4, CommitStays DEF IInv, Ends
  <2> QED
    BY <1>1, <2>1, <2>2 DEF IInv, SessionKept
<1> QED
  BY <1>3, <1>4 DEF Close

\* Reset, of a stream in any state.
LEMMA ResetKeeps ==
  ASSUME IInv, Reset
  PROVE  IInv'
<1>1. SessionKept /\ RecordInv'
  BY SessionSame, RecordsReset DEF IInv, Reset
<1>2. CallInv'
  BY EndsKeeps DEF IInv, CallInv, Reset, NoRecord
<1>3. CommitTruthful'
  BY <1>1, CommitStays DEF IInv, Reset, Ends
<1> QED
  BY <1>1, <1>2, <1>3 DEF IInv, SessionKept

\* Flush passes a pack that has too little.
LEMMA PassBucketKeeps ==
  ASSUME IInv, PassBucket
  PROVE  IInv'
<1>1. SessionKept /\ RecordInv'
  BY SessionSame, RecordsSame DEF IInv, PassBucket, bufferVars, recordVars
<1>2. CallInv /\ pc = "flush" /\ flush.todo # {} /\ ~ Due(packs[Current])
  BY DEF IInv, PassBucket, AtBucket
<1>3. Current \in flush.todo /\ Current \in Bucket
  BY <1>2, CurrentIsBucket
<1>4. CallInv'
  <2> DEFINE more == IF packs[Current].records = <<>> THEN flush.counted
                     ELSE flush.counted + packs[Current].size
  <2>1. flush' = [flush EXCEPT !.todo = @ \ {Current}, !.counted = more]
    BY <1>2 DEF PassBucket, CallInv
  <2>2. more \in Nat
    <3>1. flush.counted \in Nat
      BY <1>2 DEF CallInv
    <3>2. packs[Current] \in Pack
      BY <1>3 DEF IInv, RecordInv
    <3>3. packs[Current].size \in Nat
      BY <3>2, PackIs
    <3> QED
      BY <3>1, <3>3
  <2> HIDE DEF more
  <2>3. /\ flush' \in [todo : SUBSET Bucket, all : BOOLEAN, closes : BOOLEAN,
                     counted : Nat, retry : Nat]
        /\ flush'.todo = flush.todo \ {Current}
        /\ flush'.all = flush.all /\ flush'.closes = flush.closes
    BY <1>2, <2>1, <2>2 DEF CallInv
  <2>4. /\ UNCHANGED <<mTotalBufferSize, streamVars, pc, result, elapsed, accepted>>
        /\ packs' = packs
    BY DEF PassBucket, bufferVars, recordVars
  <2>5. \A b \in Bucket : Drained(b) => Drained(b)'
    BY <2>4 DEF Drained
  <2>6. flush.all => packs[Current].records = <<>>
    BY <1>2 DEF Due
  <2>7. flush.all => \A b \in flush.todo \ flush'.todo : Drained(b)'
    BY <2>3, <2>4, <2>6 DEF Drained
  <2> QED
    BY <1>2, <2>3, <2>4, <2>5, <2>7, GoesOnKeeps
<1>5. CommitTruthful'
  BY <1>1, CommitStays DEF IInv, PassBucket
<1> QED
  BY <1>1, <1>4, <1>5 DEF IInv, SessionKept

\* The service took a pack.
LEMMA PackSentKeeps ==
  ASSUME IInv, PackSent
  PROVE  IInv'
<1>1. CallInv /\ pc = "flush" /\ flush.todo # {} /\ packs \in [Bucket -> Pack]
  BY DEF IInv, RecordInv, PackSent, AtBucket
<1>2. Current \in flush.todo /\ Current \in Bucket
  BY <1>1, CurrentIsBucket
<1>3. SessionKept
  <2>1. mBuckets[Current] \in SlotIds
    BY <1>2 DEF IInv, SessionInv
  <2> QED
    BY <2>1, UpdateSlotKeeps DEF IInv, PackSent
<1>4. RecordInv'
  BY <1>2, RecordsSent DEF IInv, PackSent
<1>5. CallInv'
  <2>1. flush' = [flush EXCEPT !.todo = @ \ {Current}, !.retry = 0]
    BY DEF PackSent
  <2>2. /\ flush' \in [todo : SUBSET Bucket, all : BOOLEAN, closes : BOOLEAN,
                     counted : Nat, retry : Nat]
        /\ flush'.todo = flush.todo \ {Current}
        /\ flush'.all = flush.all /\ flush'.closes = flush.closes
    BY <1>1, <2>1 DEF CallInv
  <2>3. packs' = [packs EXCEPT ![Current] = EmptyPack] /\ EmptyPack.records = <<>>
    BY DEF PackSent, EmptyPack
  <2>4. /\ \A b \in Bucket : Drained(b) => Drained(b)'
        /\ \A b \in flush.todo \ flush'.todo : Drained(b)'
    <3>1. packs'[Current] = EmptyPack /\ \A b \in Bucket : b # Current => packs'[b] = packs[b]
      BY <1>1, <1>2, <2>3
    <3> QED
      BY <2>2, <2>3, <3>1 DEF Drained
  <2>5. UNCHANGED <<mTotalBufferSize, streamVars, pc, result, elapsed, accepted>>
    BY DEF PackSent
  <2> QED
    BY <1>1, <2>2, <2>4, <2>5, GoesOnKeeps
<1>6. CommitTruthful'
  BY <1>3, CommitStays DEF IInv, PackSent
<1> QED
  BY <1>3, <1>4, <1>5, <1>6 DEF IInv, SessionKept

\* What every way to go on after a pack that could not be sent has in common.
LEMMA PackUnsentKeeps ==
  ASSUME IInv, PackUnsent
  PROVE  /\ SessionKept /\ RecordInv' /\ pc = "flush"
         /\ \A b \in Bucket : Drained(b) => Drained(b)'
         /\ UNCHANGED <<mTotalBufferSize, mListener, accepted>>
<1>1. CallInv /\ pc = "flush" /\ flush.todo # {} /\ packs \in [Bucket -> Pack]
  BY DEF IInv, RecordInv, PackUnsent, AtBucket
<1>2. Current \in Bucket
  BY <1>1, CurrentIsBucket
<1>3. /\ packs' = [packs EXCEPT ![Current] = Completed(@)]
      /\ UNCHANGED <<service, mTotalBufferSize, mListener, accepted>>
      /\ PackRefused \/ PackFaulty
      /\ Reload \/ UNCHANGED <<mBuckets, mStatus>>
  BY DEF PackUnsent
<1>4. faults' \in Nat
  BY <1>3 DEF IInv, SessionInv, PackRefused, PackFaulty, Faulty
<1>5. SessionKept
  BY <1>3, <1>4, UnsentKeeps DEF IInv
<1>6. Store(packs[Current]) \/ UNCHANGED stored
  BY <1>3 DEF PackRefused, PackFaulty
<1>7. RecordInv'
  BY <1>2, <1>3, <1>6, RecordsUnsent DEF IInv
<1>8. ASSUME NEW b \in Bucket, Drained(b) PROVE Drained(b)'
  <2>1. CASE b = Current
    <3>1. packs'[b] = Completed(packs[b])
      BY <1>1, <1>3, <2>1
    <3>2. packs[b] \in Pack
      BY <1>1
    <3>3. Completed(packs[b]).records = packs[b].records
      BY <3>2 DEF Completed, Pack
    <3> QED
      BY <1>8, <3>1, <3>3 DEF Drained
  <2>2. CASE b # Current
    BY <1>1, <1>3, <1>8, <2>2 DEF Drained
  <2> QED
    BY <2>1, <2>2
<1> QED
  BY <1>1, <1>3, <1>5, <1>7, <1>8

\* The listener asks for another try.
LEMMA PackRetriedKeeps ==
  ASSUME IInv, PackRetried
  PROVE  IInv'
<1>1. /\ SessionKept /\ RecordInv' /\ pc = "flush"
      /\ \A b \in Bucket : Drained(b) => Drained(b)'
      /\ UNCHANGED <<mTotalBufferSize, mListener, accepted>>
  BY PackUnsentKeeps DEF PackRetried
<1>2. CallInv'
  <2>1. CallInv /\ flush' = [flush EXCEPT !.retry = @ + 1]
    BY DEF IInv, PackRetried
  <2>2. /\ flush' \in [todo : SUBSET Bucket, all : BOOLEAN, closes : BOOLEAN,
                     counted : Nat, retry : Nat]
        /\ flush'.todo = flush.todo
        /\ flush'.all = flush.all /\ flush'.closes = flush.closes
    BY <2>1 DEF CallInv
  <2>3. UNCHANGED <<mTotalBufferSize, streamVars, pc, result, elapsed, accepted>>
    BY <1>1 DEF PackRetried, streamVars
  <2> QED
    BY <1>1, <2>1, <2>2, <2>3, GoesOnKeeps
<1>3. CommitTruthful'
  BY <1>1, CommitStays DEF IInv, PackRetried
<1> QED
  BY <1>1, <1>2, <1>3 DEF IInv, SessionKept

\* The listener gives up, and the stream has failed.
LEMMA PackGivenUpKeeps ==
  ASSUME IInv, PackGivenUp
  PROVE  IInv'
<1>1. /\ SessionKept /\ RecordInv' /\ UNCHANGED <<mTotalBufferSize, mListener, accepted>>
  BY PackUnsentKeeps DEF PackGivenUp
<1>2. CallInv'
  BY <1>1, EndsKeeps DEF IInv, CallInv, RecordInv, PackGivenUp
<1>3. CommitTruthful'
  BY <1>1, CommitStays DEF IInv, PackGivenUp, Ends
<1> QED
  BY <1>1, <1>2, <1>3 DEF IInv, SessionKept

\* Without a listener the exception ends the call.
LEMMA PackThrowsKeeps ==
  ASSUME IInv, PackThrows
  PROVE  IInv'
<1>1. /\ SessionKept /\ RecordInv' /\ UNCHANGED <<mTotalBufferSize, mListener, accepted>>
      /\ \A b \in Bucket : Drained(b) => Drained(b)'
  BY PackUnsentKeeps DEF PackThrows
<1>2. CallInv'
  <2>1. streamStatus' = "closed" => \A b \in Bucket : Drained(b)'
    BY <1>1 DEF IInv, CallInv, PackThrows
  <2> QED
    BY <1>1, <2>1, EndsKeeps DEF IInv, CallInv, PackThrows
<1>3. CommitTruthful'
  BY <1>1, CommitStays DEF IInv, PackThrows, Ends
<1> QED
  BY <1>1, <1>2, <1>3 DEF IInv, SessionKept

\* Flush has passed all packs; Close also closes the stream.
LEMMA FlushDoneKeeps ==
  ASSUME IInv, FlushDone
  PROVE  IInv'
<1>1. SessionKept /\ RecordInv'
  BY SessionSame, RecordsSame DEF IInv, FlushDone, recordVars
<1>2. CallInv'
  <2>1. /\ CallInv /\ Ends(HowEnded) /\ flush.todo = {} /\ pc = "flush"
        /\ packs' = packs /\ mListener' = mListener
        /\ reported' = reported /\ accepted' = accepted
        /\ streamStatus' = IF flush.closes THEN "closed" ELSE streamStatus
        /\ mTotalBufferSize' = IF flush.all THEN 0 ELSE flush.counted
    BY DEF IInv, FlushDone, recordVars
  <2>2. flush.all => \A b \in Bucket : Drained(b)'
    BY <2>1 DEF CallInv, Drained
  <2>3. (HowEnded = "flushed" => flush.all) /\ (HowEnded = "closed" => flush.closes)
    BY DEF HowEnded
  <2>4. streamStatus' = "closed" \/ HowEnded = "flushed" => \A b \in Bucket : Drained(b)'
    BY <2>1, <2>2, <2>3 DEF CallInv, Drained
  <2>5. mTotalBufferSize' \in Nat /\ streamStatus' \in {"normal", "error", "closed"}
    BY <2>1 DEF CallInv
  <2>6. /\ reported' \in [Key -> Nat] /\ (streamStatus' = "error" => reported' = accepted')
        /\ HowEnded = "closed" => streamStatus' # "normal"
    BY <2>1, <2>3 DEF CallInv
  <2> QED
    BY <2>1, <2>4, <2>5, <2>6, EndsKeeps
<1>3. CommitTruthful'
  BY <1>1, CommitStays DEF IInv, FlushDone, HowEnded, Ends
<1> QED
  BY <1>1, <1>2, <1>3 DEF IInv, SessionKept

\* Calls that only ask the session, and its service.
LEMMA CommitKeeps ==
  ASSUME IInv, Commit
  PROVE  IInv'
<1>1. SessionKept /\ RecordInv'
  BY CommitAnsweredKeeps, RecordsSame DEF IInv, Commit, bufferVars, recordVars
<1>2. CallInv'
  BY DEF IInv, CallInv, Commit, bufferVars, streamVars, recordVars, Drained
<1>3. CommitTruthful'
  BY <1>1, CommitStays DEF IInv, Commit
<1> QED
  BY <1>1, <1>2, <1>3 DEF IInv, SessionKept

\* Commit and Abort that end.
LEMMA CommitEndsKeeps ==
  ASSUME IInv, SessionKept, NEW how, Ends(how), how \notin {"flushed", "closed"},
         how = "committed" => service' = "committed",
         UNCHANGED <<bufferVars, streamVars, recordVars>>
  PROVE  IInv'
<1>1. RecordInv'
  BY RecordsSame DEF IInv, bufferVars, recordVars
<1>2. CallInv'
  <2>1. /\ CallInv /\ packs' = packs /\ mListener' = mListener
        /\ reported' = reported /\ accepted' = accepted
        /\ streamStatus' = streamStatus /\ mTotalBufferSize' = mTotalBufferSize
    BY DEF IInv, bufferVars, streamVars, recordVars
  <2>2. streamStatus' = "closed" \/ how = "flushed" => \A b \in Bucket : Drained(b)'
    BY <2>1 DEF CallInv, Drained
  <2>3. /\ mTotalBufferSize' \in Nat /\ streamStatus' \in {"normal", "error", "closed"}
        /\ reported' \in [Key -> Nat] /\ (streamStatus' = "error" => reported' = accepted')
    BY <2>1 DEF CallInv
  <2> QED
    BY <2>1, <2>2, <2>3, EndsKeeps
<1>3. CommitTruthful'
  BY DEF CommitTruthful, Ends
<1> QED
  BY <1>1, <1>2, <1>3 DEF IInv, SessionKept

\* A commit that is not waited for.
LEMMA CommitAsyncKeeps ==
  ASSUME IInv, CommitAsync
  PROVE  IInv'
  BY CommitAnsweredKeeps, CommitEndsKeeps DEF IInv, CommitAsync

\* A commit whose request failed.
LEMMA CommitFailsKeeps ==
  ASSUME IInv, CommitFails
  PROVE  IInv'
  BY CommitThrowsKeeps, CommitEndsKeeps DEF IInv, CommitFails

\* A commit that took too long.
LEMMA CommitTimesOutKeeps ==
  ASSUME IInv, CommitTimesOut
  PROVE  IInv'
  BY SessionSame, CommitEndsKeeps DEF IInv, CommitTimesOut

\* A commit that returns, and believes the status it last got.
LEMMA CommitReturnsKeeps ==
  ASSUME IInv, CommitReturns
  PROVE  IInv'
<1>1. SessionKept /\ service' = service /\ UNCHANGED <<bufferVars, streamVars, recordVars>>
  BY SessionSame DEF IInv, CommitReturns, sessionVars
<1>2. CASE mStatus = "committed" /\ Ends("committed")
  BY <1>1, <1>2, CommitEndsKeeps DEF IInv, SessionInv
<1>3. CASE Ends("nothing")
  BY <1>1, <1>3, CommitEndsKeeps
<1> QED
  BY <1>2, <1>3 DEF CommitReturns

\* Abort.
LEMMA AbortKeeps ==
  ASSUME IInv, Abort
  PROVE  IInv'
  BY AbortRequestKeeps, CommitEndsKeeps DEF IInv, Abort

\* Steps that leave the call where it is.
LEMMA WaitKeeps ==
  ASSUME IInv, SessionKept, elapsed' \in Nat,
         UNCHANGED <<bufferVars, streamVars, flush, pc, result, recordVars>>
  PROVE  IInv'
<1>1. RecordInv'
  BY RecordsSame DEF IInv, bufferVars, recordVars
<1>2. CallInv'
  BY CallSame DEF IInv, recordVars
<1>3. CommitTruthful'
  BY CommitStays DEF IInv
<1> QED
  BY <1>1, <1>2, <1>3 DEF IInv, SessionKept

\* Commit asks again.
LEMMA CommitPollKeeps ==
  ASSUME IInv, CommitPoll
  PROVE  IInv'
<1>1. elapsed' \in Nat /\ SessionKept
  BY CommitAnsweredKeeps DEF IInv, CallInv, CommitPoll, callVars
<1> QED
  BY <1>1, WaitKeeps DEF CommitPoll, callVars

\* Time passes while Commit waits.
LEMMA TickKeeps ==
  ASSUME IInv, Tick
  PROVE  IInv'
<1>1. elapsed' \in Nat /\ SessionKept
  BY SessionSame DEF IInv, CallInv, Tick
<1> QED
  BY <1>1, WaitKeeps DEF Tick

\* The service moves on without the stream.
LEMMA SessionMovesKeeps ==
  ASSUME IInv, SessionMoves
  PROVE  IInv'
<1>1. elapsed' \in Nat /\ SessionKept
  BY ServiceMovesKeeps DEF IInv, CallInv, SessionMoves, callVars
<1> QED
  BY <1>1, WaitKeeps DEF SessionMoves, callVars

\* Nothing happens.
LEMMA StutterKeeps ==
  ASSUME IInv, UNCHANGED vars
  PROVE  IInv'
<1>1. elapsed' \in Nat /\ SessionKept
  BY SessionSame DEF IInv, CallInv, vars, callVars
<1> QED
  BY <1>1, WaitKeeps DEF vars, callVars

-----------------------------------------------------------------------------
(* The invariant.                                                           *)

\* A stream that was just created satisfies the invariant.
LEMMA InitIInv == Init => IInv
<1> SUFFICES ASSUME Init PROVE IInv
  OBVIOUS
<1>1. SessionInv
  <2>1. PICK table \in SlotTables : mBuckets = Loaded(table)
    BY DEF Init, InitSession
  <2>2. mBuckets \in [Bucket -> SlotIds]
    BY <2>1, LoadedServesAll
  <2> QED
    BY <2>2 DEF Init, InitSession, SessionInv, ServiceStatus
<1>2. /\ packs = [b \in Bucket |-> EmptyPack] /\ EmptyPack.records = <<>>
      /\ accepted = [k \in Key |-> 0] /\ stored = [k \in Key |-> 0]
  BY <1>1 DEF Init, SessionInv, EmptyPack, NoRecord
<1>3. RecordInv
  <2>1. \A k \in Key : Places(k, EmptyPack) = {} /\ Holds(k, EmptyPack, 0, 0)
    BY <1>2, EmptyHolds
  <2> QED
    BY <1>2, <2>1, EmptyPackIsPack, HomeIsBucket DEF RecordInv
<1>4. CallInv
  <2>1. /\ NoFlush \in [todo : SUBSET Bucket, all : BOOLEAN, closes : BOOLEAN,
                      counted : Nat, retry : Nat]
        /\ ~ NoFlush.closes
    BY DEF NoFlush
  <2> QED
    BY <2>1 DEF Init, CallInv, NoRecord
<1>5. CommitTruthful
  BY DEF Init, CommitTruthful
<1> QED
  BY <1>1, <1>3, <1>4, <1>5 DEF IInv

\* Every step of the stream and of the service keeps the invariant.
LEMMA StepKeeps == IInv /\ [Next]_vars => IInv'
<1> SUFFICES ASSUME IInv, [Next]_vars PROVE IInv'
  OBVIOUS
<1>1. CASE \E k \in Key : WriteThrows(k) \/ \E size \in RecordSizes : Write(k, size)
  BY <1>1, WriteThrowsKeeps, WriteKeeps
<1>2. CASE \E all \in BOOLEAN : Flush(all)
  BY <1>2, FlushKeeps
<1>3. CASE Close \/ Reset
  BY <1>3, CloseKeeps, ResetKeeps
<1>4. CASE FlushStep
  BY <1>4, PassBucketKeeps, PackSentKeeps, PackRetriedKeeps, PackGivenUpKeeps,
     PackThrowsKeeps, FlushDoneKeeps DEF FlushStep
<1>5. CASE Commit \/ CommitAsync \/ CommitFails \/ Abort
  BY <1>5, CommitKeeps, CommitAsyncKeeps, CommitFailsKeeps, AbortKeeps
<1>6. CASE CommitStep
  BY <1>6, CommitPollKeeps, CommitTimesOutKeeps, CommitReturnsKeeps DEF CommitStep
<1>7. CASE Tick \/ SessionMoves \/ UNCHANGED vars
  BY <1>7, TickKeeps, SessionMovesKeeps, StutterKeeps
<1> QED
  BY <1>1, <1>2, <1>3, <1>4, <1>5, <1>6, <1>7 DEF Next

\* The invariant that carries the others: an upsert stream buffers the latest
\* records of every key where Write looks for them, and a Flush of all packs
\* drains those it passes.
THEOREM Invariance == Spec => []IInv
<1> QED
  BY InitIInv, StepKeeps, PTL DEF Spec

\* Every variable has its type, and every bucket has a slot, although
\* UpdateSlot takes a slot id for a bucket.
THEOREM TypeCorrect == Spec => []TypeOK
<1>1. IInv => TypeOK
  BY DEF IInv, SessionInv, RecordInv, CallInv, TypeOK
<1> QED
  BY <1>1, Invariance, PTL

\* No record is lost, doubled or misplaced between Write and the service.
THEOREM KeepsRecords == Spec => []NothingLost
<1>1. IInv => NothingLost
  <2> SUFFICES ASSUME IInv PROVE NothingLost
    OBVIOUS
  <2>1. ASSUME NEW k \in Key, NEW b \in Bucket, b = BucketOf(k)
        PROVE  /\ \A i, j \in Places(k, packs[b]) : i < j => Version(b, i) < Version(b, j)
               /\ \E first \in 1 .. (accepted[k] + 1) :
                    /\ {Version(b, i) : i \in Places(k, packs[b])} = first .. accepted[k]
                    /\ stored[k] \in {first - 1, accepted[k]}
    <3>1. b = Home(k)
      BY <2>1, BucketOfIsHome DEF IInv
    <3>2. Holds(k, packs[b], accepted[k], stored[k])
      BY <3>1 DEF IInv, RecordInv
    <3> QED
      BY <3>2 DEF Holds, Version
  <2>2. ASSUME NEW k \in Key, NEW b \in Bucket, b # BucketOf(k)
        PROVE  Places(k, packs[b]) = {}
    BY <2>2, BucketOfIsHome DEF IInv, RecordInv
  <2> QED
    BY <2>1, <2>2 DEF NothingLost
<1> QED
  BY <1>1, Invariance, PTL

\* When a Flush of all packs returns, or Close of a stream that has not failed, the
\* service has every record.  Close of a stream that has failed may leave records
\* behind, but none that was written after the application was told of the failure.
THEOREM FlushAndCloseDeliver == Spec => []FlushDelivers
<1>1. IInv => FlushDelivers
  <2> SUFFICES ASSUME IInv PROVE FlushDelivers
    OBVIOUS
  <2>1. accepted \in [Key -> Nat] /\ stored \in [Key -> Nat]
    BY DEF IInv, RecordInv
  <2>2. ASSUME \A b \in Bucket : Drained(b) PROVE stored = accepted
    <3>1. ASSUME NEW k \in Key PROVE stored[k] = accepted[k]
      <4>1. Holds(k, packs[Home(k)], accepted[k], stored[k]) /\ accepted[k] \in Nat
        BY <2>1 DEF IInv, RecordInv
      <4>2. Places(k, packs[Home(k)]) = {}
        BY <2>2, HomeIsBucket DEF Drained, Places
      <4> QED
        BY <4>1, <4>2, NoPlaces
    <3> QED
      BY <2>1, <3>1
  <2>3. streamStatus = "closed" \/ result = "flushed" => stored = accepted
    BY <2>2 DEF IInv, CallInv
  <2>4. result = "closed" =>
          streamStatus = "closed" \/ (streamStatus = "error" /\ reported = accepted)
    BY DEF IInv, CallInv
  <2> QED
    BY <2>3, <2>4 DEF FlushDelivers
<1> QED
  BY <1>1, Invariance, PTL

\* Commit returns only if the service has committed.
THEOREM CommitTellsTruth == Spec => []CommitTruthful
<1>1. IInv => CommitTruthful
  BY DEF IInv
<1> QED
  BY <1>1, Invariance, PTL

\* The service never goes back to an older record, though a pack that failed
\* is sent again when it may have been taken.
THEOREM ServiceMovesOn == Spec => NeverOverwritesNewer
<1> DEFINE Newer == \A k \in Key : stored'[k] >= stored[k]
<1>1. ASSUME IInv, UNCHANGED stored PROVE Newer
  <2>1. stored \in [Key -> Nat]
    BY <1>1 DEF IInv, RecordInv
  <2>2. \A k \in Key : stored[k] \in Nat
    BY <2>1
  <2> QED
    BY <1>1, <2>2
<1>2. ASSUME IInv, Store(packs[Current]), flush.todo # {} PROVE Newer
  <2>1. Current \in Bucket
    BY <1>2, CurrentIsBucket DEF IInv
  <2> QED
    BY <1>2, <2>1, StoredAfter DEF IInv
<1>3. ASSUME IInv, PackSent PROVE Newer
  BY <1>2, <1>3 DEF PackSent, AtBucket
<1>4. ASSUME IInv, PackUnsent PROVE Newer
  <2>1. flush.todo # {} /\ (Store(packs[Current]) \/ UNCHANGED stored)
    BY <1>4 DEF PackUnsent, AtBucket, PackRefused, PackFaulty
  <2> QED
    BY <1>1, <1>2, <1>4, <2>1
<1> HIDE DEF Newer
<1>5. ASSUME IInv, FlushStep PROVE Newer
  <2>1. CASE PassBucket \/ FlushDone
    BY <1>1, <1>5, <2>1 DEF PassBucket, FlushDone, recordVars
  <2>2. CASE PackSent
    BY <1>3, <1>5, <2>2
  <2>3. CASE PackRetried \/ PackGivenUp \/ PackThrows
    BY <1>4, <1>5, <2>3 DEF PackRetried, PackGivenUp, PackThrows
  <2> QED
    BY <1>5, <2>1, <2>2, <2>3 DEF FlushStep
<1>6. IInv /\ [Next]_vars => [\A k \in Key : stored'[k] >= stored[k]]_vars
  <2> SUFFICES ASSUME IInv, [Next]_vars PROVE Newer
    BY DEF Newer
  <2>1. CASE FlushStep
    BY <1>5, <2>1
  <2>2. CASE UNCHANGED stored
    BY <1>1, <2>2
  <2>3. FlushStep \/ UNCHANGED stored
    <3>1. ASSUME NEW k \in Key, WriteThrows(k) PROVE UNCHANGED stored
      BY <3>1 DEF WriteThrows, recordVars
    <3>2. ASSUME NEW k \in Key, NEW size \in RecordSizes, Write(k, size) PROVE UNCHANGED stored
      BY <3>2 DEF Write
    <3>3. ASSUME NEW all \in BOOLEAN, Flush(all) PROVE UNCHANGED stored
      BY <3>3 DEF Flush, recordVars
    <3>4. CASE \/ Close \/ Reset \/ Commit \/ CommitAsync \/ CommitFails \/ CommitStep
               \/ Abort \/ Tick \/ SessionMoves \/ UNCHANGED vars
      BY <3>4 DEF Close, Reset, Commit, CommitAsync, CommitFails, CommitStep, CommitPoll,
         CommitTimesOut, CommitReturns, Abort, Tick, SessionMoves, recordVars, vars
    <3> QED
      BY <3>1, <3>2, <3>3, <3>4 DEF Next
  <2> QED
    BY <2>1, <2>2, <2>3
<1> QED
  BY <1>6, Invariance, PTL DEF Spec, NeverOverwritesNewer

-----------------------------------------------------------------------------
(* Sums of numbers over finite sets.                                        *)

Some(s) == CHOOSE x \in s : TRUE

\* F[s] is the sum of the f[x], for any s within D.
IsSum(F, f, D) ==
  F = [s \in SUBSET D |-> IF s = {} THEN 0 ELSE f[Some(s)] + F[s \ {Some(s)}]]

\* One of some sets is least: without any of its elements it is none of them.
LEMMA Smallest ==
  ASSUME NEW D, IsFiniteSet(D), NEW B, B \subseteq SUBSET D, B # {}
  PROVE  \E s \in B : \A x \in s : s \ {x} \notin B
<1> DEFINE N == {Cardinality(s) : s \in B}
<1>1. \A s \in B : IsFiniteSet(s) /\ Cardinality(s) \in Nat
  BY FS_Subset, FS_CardinalityType
<1>2. N \subseteq Nat /\ N # {}
  BY <1>1
<1>3. PICK n \in N : \A m \in N : n <= m
  <2> HIDE DEF N
  <2> QED
    BY <1>2, Least
<1>4. PICK s \in B : n = Cardinality(s)
  BY <1>3
<1>5. ASSUME NEW x \in s, s \ {x} \in B PROVE FALSE
  <2>1. Cardinality(s \ {x}) = Cardinality(s) - 1
    BY <1>1, <1>4, <1>5, FS_RemoveElement
  <2>2. Cardinality(s \ {x}) \in N /\ Cardinality(s) \in Nat
    BY <1>1, <1>5
  <2>3. n <= Cardinality(s \ {x})
    BY <1>3, <2>2
  <2> HIDE DEF N
  <2> QED
    BY <1>4, <2>1, <2>2, <2>3
<1> QED
  BY <1>5

LEMMA SumIs ==
  ASSUME NEW D, NEW f, NEW F, IsSum(F, f, D), NEW s \in SUBSET D
  PROVE  /\ s = {} => F[s] = 0
         /\ s # {} => Some(s) \in s /\ F[s] = f[Some(s)] + F[s \ {Some(s)}]
<1>1. F[s] = IF s = {} THEN 0 ELSE f[Some(s)] + F[s \ {Some(s)}]
  BY DEF IsSum
<1>2. s # {} => Some(s) \in s
  BY DEF Some
<1> QED
  BY <1>1, <1>2

\* A sum is a number.
LEMMA SumType ==
  ASSUME NEW D, IsFiniteSet(D), NEW f, \A x \in D : f[x] \in Nat, NEW F, IsSum(F, f, D),
         NEW s \in SUBSET D
  PROVE  F[s] \in Nat
<1> DEFINE B == {t \in SUBSET D : F[t] \notin Nat}
<1>1. SUFFICES ASSUME s \in B PROVE FALSE
  OBVIOUS
<1>2. PICK t \in B : \A x \in t : t \ {x} \notin B
  <2>1. B \subseteq SUBSET D /\ B # {}
    BY <1>1
  <2> HIDE DEF B
  <2> QED
    BY <2>1, Smallest
<1>3. /\ t = {} => F[t] = 0
      /\ t # {} => Some(t) \in t /\ F[t] = f[Some(t)] + F[t \ {Some(t)}]
  BY SumIs
<1>4. t # {} => t \ {Some(t)} \in SUBSET D /\ F[t \ {Some(t)}] \in Nat /\ f[Some(t)] \in Nat
  BY <1>2, <1>3
<1> QED
  BY <1>3, <1>4

\* Which element is taken first makes no difference.
LEMMA SumTakes ==
  ASSUME NEW D, IsFiniteSet(D), NEW f, \A x \in D : f[x] \in Nat, NEW F, IsSum(F, f, D),
         NEW s \in SUBSET D, NEW x \in s
  PROVE  F[s] = f[x] + F[s \ {x}]
<1> DEFINE Takes(t, y) == F[t] = f[y] + F[t \ {y}]
           B == {t \in SUBSET D : \E y \in t : ~ Takes(t, y)}
<1>1. SUFFICES ASSUME s \in B PROVE FALSE
  OBVIOUS
<1>2. PICK t \in B : \A y \in t : t \ {y} \notin B
  <2>1. B \subseteq SUBSET D /\ B # {}
    BY <1>1
  <2> HIDE DEF B
  <2> QED
    BY <2>1, Smallest
<1>3. PICK y \in t : ~ Takes(t, y)
  BY DEF Takes
<1> DEFINE c == Some(t)
           u == (t \ {c}) \ {y}
<1>4. t \in SUBSET D /\ c \in t /\ Takes(t, c)
  BY <1>3, SumIs
<1> HIDE DEF c
<1>5. y # c
  BY <1>3, <1>4
<1>6. /\ t \ {c} \in SUBSET D /\ t \ {y} \in SUBSET D /\ u \in SUBSET D
      /\ y \in t \ {c} /\ c \in t \ {y} /\ u = (t \ {y}) \ {c}
  BY <1>4, <1>5
<1>7. Takes(t \ {c}, y) /\ Takes(t \ {y}, c)
  BY <1>2, <1>4, <1>6
<1>8. F[t \ {c}] = f[y] + F[u] /\ F[t \ {y}] = f[c] + F[u] /\ F[t] = f[c] + F[t \ {c}]
  BY <1>4, <1>6, <1>7
<1>9. F[u] \in Nat /\ f[y] \in Nat /\ f[c] \in Nat
  BY <1>4, <1>6, SumType
<1>10. F[t] = f[y] + F[t \ {y}]
  <2> DEFINE p == F[u]
             q == f[y]
             r == f[c]
  <2>1. p \in Nat /\ q \in Nat /\ r \in Nat /\ F[t] = r + (q + p) /\ F[t \ {y}] = r + p
    BY <1>8, <1>9
  <2> HIDE DEF p, q, r
  <2>2. r + (q + p) = q + (r + p)
    BY <2>1
  <2> QED
    BY <2>1, <2>2 DEF q
<1> QED
  BY <1>3, <1>10

LEMMA SumExists ==
  ASSUME NEW D, IsFiniteSet(D), NEW f, \A x \in D : f[x] \in Nat
  PROVE  \E F : IsSum(F, f, D)
<1> DEFINE Summed(s) == \E F : IsSum(F, f, s)
           B == {s \in SUBSET D : ~ Summed(s)}
<1>1. SUFFICES ASSUME D \in B PROVE FALSE
  OBVIOUS
<1>2. PICK t \in B : \A y \in t : t \ {y} \notin B
  <2>1. B \subseteq SUBSET D /\ B # {}
    BY <1>1
  <2> HIDE DEF B
  <2> QED
    BY <2>1, Smallest
<1>3. t # {}
  <2>1. ASSUME t = {} PROVE IsSum([s \in SUBSET t |-> 0], f, t)
    <3>1. \A s \in SUBSET t : s = {}
      BY <2>1
    <3> QED
      BY <3>1 DEF IsSum
  <2>2. ~ Summed(t)
    BY <1>2
  <2> QED
    BY <2>1, <2>2
<1>4. PICK c \in t : TRUE
  BY <1>3
<1> DEFINE u == t \ {c}
<1>5. Summed(u)
  BY <1>2
<1>6. PICK F : IsSum(F, f, u)
  BY <1>5
<1>7. /\ IsFiniteSet(u) /\ (\A x \in u : f[x] \in Nat) /\ f[c] \in Nat
  BY <1>2, FS_Subset
<1> DEFINE G == [s \in SUBSET t |-> IF c \in s THEN f[c] + F[s \ {c}] ELSE F[s]]
<1>8. ASSUME NEW s \in SUBSET t, s # {}
      PROVE  G[s] = f[Some(s)] + G[s \ {Some(s)}]
  <2> DEFINE d == Some(s)
  <2>1. d \in s
    BY <1>8 DEF Some
  <2> HIDE DEF d
  <2>2. CASE c \notin s
    <3>1. s \in SUBSET u /\ s \ {d} \in SUBSET t /\ c \notin s \ {d}
      BY <2>2
    <3>2. F[s] = f[d] + F[s \ {d}]
      BY <1>6, <1>8, <3>1, SumIs DEF d
    <3> QED
      BY <2>2, <3>1, <3>2 DEF d
  <2>3. CASE d = c
    <3>1. s \ {d} \in SUBSET t /\ c \notin s \ {d} /\ c \in s /\ s \ {d} = s \ {c}
      BY <2>1, <2>3
    <3> QED
      BY <2>3, <3>1 DEF d
  <2>4. CASE c \in s /\ d # c
    <3> DEFINE v == s \ {c}
               w == v \ {d}
    <3>1. /\ v \in SUBSET u /\ d \in v /\ w \in SUBSET u /\ s \ {d} \in SUBSET t
          /\ c \in s \ {d} /\ (s \ {d}) \ {c} = w
      BY <2>1, <2>4
    <3>2. F[v] = f[d] + F[w]
      <4> HIDE DEF u, v, G
      <4> QED
        BY <1>6, <1>7, <3>1, SumTakes DEF w
    <3>3. F[w] \in Nat
      <4> HIDE DEF u, w, v, G
      <4> QED
        BY <1>6, <1>7, <3>1, SumType
    <3>4. f[d] \in Nat
      BY <1>7, <3>1
    <3>5. G[s] = f[c] + F[v] /\ G[s \ {d}] = f[c] + F[w]
      BY <2>4, <3>1
    <3> DEFINE p == F[w]
               q == f[d]
               r == f[c]
    <3> HIDE DEF p, q, r, G, v, w
    <3>6. r + (q + p) = q + (r + p)
      BY <1>7, <3>3, <3>4 DEF p, q, r
    <3>7. G[s] = r + (q + p) /\ G[s \ {d}] = r + p
      BY <3>2, <3>5 DEF p, q, r
    <3>8. G[s] = f[d] + G[s \ {d}]
      BY <3>6, <3>7 DEF q
    <3> QED
      BY <3>8 DEF d
  <2> QED
    BY <2>2, <2>3, <2>4
<1>9. G[{}] = 0
  <2>1. {} \in SUBSET t /\ {} \in SUBSET u /\ c \notin {}
    OBVIOUS
  <2>2. F[{}] = 0
    BY <1>6, <2>1, SumIs
  <2> QED
    BY <2>1, <2>2
<1>10. IsSum(G, f, t)
  <2>1. G = [s \in SUBSET t |-> G[s]]
    OBVIOUS
  <2>2. \A s \in SUBSET t : G[s] = IF s = {} THEN 0 ELSE f[Some(s)] + G[s \ {Some(s)}]
    BY <1>8, <1>9
  <2> HIDE DEF G
  <2>3. [s \in SUBSET t |-> G[s]]
          = [s \in SUBSET t |-> IF s = {} THEN 0 ELSE f[Some(s)] + G[s \ {Some(s)}]]
    BY <2>2
  <2> QED
    BY <2>1, <2>3 DEF IsSum
<1> QED
  BY <1>2, <1>10

\* A sum of numbers that are all 0, and of those that differ in one place.
LEMMA SumZero ==
  ASSUME NEW D, IsFiniteSet(D), NEW f, NEW F, IsSum(F, f, D),
         NEW s \in SUBSET D, \A x \in s : f[x] = 0
  PROVE  F[s] = 0
<1> DEFINE B == {t \in SUBSET s : F[t] # 0}
<1>1. SUFFICES ASSUME s \in B PROVE FALSE
  OBVIOUS
<1>2. PICK t \in B : \A y \in t : t \ {y} \notin B
  <2>1. B \subseteq SUBSET D /\ B # {}
    BY <1>1
  <2> HIDE DEF B
  <2> QED
    BY <2>1, Smallest
<1>3. /\ t = {} => F[t] = 0
      /\ t # {} => Some(t) \in t /\ F[t] = f[Some(t)] + F[t \ {Some(t)}]
  BY SumIs
<1>4. t # {} => F[t \ {Some(t)}] = 0 /\ f[Some(t)] = 0
  BY <1>2, <1>3
<1> QED
  BY <1>3, <1>4

LEMMA SumSame ==
  ASSUME NEW D, IsFiniteSet(D), NEW f, NEW F, IsSum(F, f, D), NEW g, NEW G, IsSum(G, g, D),
         NEW s \in SUBSET D, \A x \in s : f[x] = g[x]
  PROVE  F[s] = G[s]
<1> DEFINE B == {t \in SUBSET s : F[t] # G[t]}
<1>1. SUFFICES ASSUME s \in B PROVE FALSE
  OBVIOUS
<1>2. PICK t \in B : \A y \in t : t \ {y} \notin B
  <2>1. B \subseteq SUBSET D /\ B # {}
    BY <1>1
  <2> HIDE DEF B
  <2> QED
    BY <2>1, Smallest
<1>3. /\ t = {} => F[t] = 0 /\ G[t] = 0
      /\ t # {} => /\ Some(t) \in t /\ F[t] = f[Some(t)] + F[t \ {Some(t)}]
                   /\ G[t] = g[Some(t)] + G[t \ {Some(t)}]
  BY SumIs
<1>4. t # {} => F[t \ {Some(t)}] = G[t \ {Some(t)}] /\ f[Some(t)] = g[Some(t)]
  BY <1>2, <1>3
<1> QED
  BY <1>3, <1>4

LEMMA SumChanged ==
  ASSUME NEW D, IsFiniteSet(D), NEW f, \A x \in D : f[x] \in Nat, NEW F, IsSum(F, f, D),
         NEW g, \A x \in D : g[x] \in Nat, NEW G, IsSum(G, g, D),
         NEW s \in SUBSET D, NEW b \in s, \A x \in s \ {b} : f[x] = g[x]
  PROVE  /\ F[s] \in Nat /\ G[s] \in Nat /\ f[b] \in Nat /\ g[b] \in Nat
         /\ F[s] + g[b] = G[s] + f[b]
<1> DEFINE t == s \ {b}
<1>1. t \in SUBSET D
  OBVIOUS
<1>2. F[t] = G[t]
  <2> HIDE DEF t
  <2> QED
    BY <1>1, SumSame DEF t
<1>3. F[s] = f[b] + F[t] /\ G[s] = g[b] + G[t]
  BY SumTakes
<1>4. F[t] \in Nat /\ F[s] \in Nat /\ G[s] \in Nat /\ f[b] \in Nat /\ g[b] \in Nat
  BY <1>1, SumType
<1> DEFINE n == F[t]
           p == f[b]
           q == g[b]
<1> HIDE DEF t
<1>5. n \in Nat /\ p \in Nat /\ q \in Nat /\ F[s] = p + n /\ G[s] = q + n
  BY <1>2, <1>3, <1>4
<1> HIDE DEF n, p, q
<1>6. (p + n) + q = (q + n) + p
  BY <1>5
<1> QED
  BY <1>4, <1>5, <1>6 DEF p, q

\* A sum of numbers that are n more in U, and the same elsewhere.
IsMore(g, f, D, U, n) ==
  \A x \in D : g[x] = f[x] + (IF x \in U THEN n ELSE 0)

LEMMA SumCounted ==
  ASSUME NEW D, IsFiniteSet(D), NEW f, \A x \in D : f[x] \in Nat, NEW F, IsSum(F, f, D),
         NEW g, NEW G, IsSum(G, g, D), NEW U, NEW n \in Nat,
         IsMore(g, f, D, U, n),
         NEW s \in SUBSET D
  PROVE  G[s] = F[s] + n * Cardinality(s \cap U)
<1> DEFINE B == {t \in SUBSET D : G[t] # F[t] + n * Cardinality(t \cap U)}
<1>1. SUFFICES ASSUME s \in B PROVE FALSE
  OBVIOUS
<1>2. PICK t \in B : \A y \in t : t \ {y} \notin B
  <2>1. B \subseteq SUBSET D /\ B # {}
    BY <1>1
  <2> HIDE DEF B
  <2> QED
    BY <2>1, Smallest
<1>3. t # {}
  <2>1. t = {} => F[t] = 0 /\ G[t] = 0
    <3>1. t \in SUBSET D
      BY <1>2
    <3> HIDE DEF B
    <3> QED
      BY <3>1, SumIs
  <2>2. t = {} => t \cap U = {} /\ n * 0 = 0
    OBVIOUS
  <2>3. Cardinality({}) = 0
    BY FS_EmptySet
  <2>4. G[t] # F[t] + n * Cardinality(t \cap U)
    BY <1>2
  <2> HIDE DEF B
  <2>5. ASSUME t = {} PROVE FALSE
    <3>1. F[t] = 0 /\ G[t] = 0 /\ n * Cardinality(t \cap U) = 0
      BY <2>1, <2>2, <2>3, <2>5
    <3> QED
      BY <2>4, <3>1
  <2> QED
    BY <2>5
<1> DEFINE c == Some(t)
           u == t \ {c}
           k == Cardinality(u \cap U)
<1>4. c \in t /\ F[t] = f[c] + F[u] /\ G[t] = g[c] + G[u]
  BY <1>3, SumIs
<1> HIDE DEF c
<1>5. u \in SUBSET D /\ G[u] = F[u] + n * k
  BY <1>2, <1>4
<1>6. F[u] \in Nat /\ f[c] \in Nat /\ g[c] = f[c] + (IF c \in U THEN n ELSE 0)
  BY <1>4, <1>5, SumType DEF IsMore
<1>7. IsFiniteSet(u \cap U) /\ k \in Nat
  BY <1>5, FS_Subset, FS_CardinalityType
<1>8. Cardinality(t \cap U) = IF c \in U THEN k + 1 ELSE k
  <2>1. ASSUME c \in U PROVE t \cap U = (u \cap U) \cup {c} /\ c \notin u \cap U
    BY <1>4, <2>1
  <2>2. ASSUME c \notin U PROVE t \cap U = u \cap U
    BY <2>2
  <2>3. ASSUME c \in U PROVE Cardinality((u \cap U) \cup {c}) = k + 1
    <3> HIDE DEF u
    <3> QED
      BY <1>7, <2>1, <2>3, FS_AddElement
  <2> HIDE DEF u
  <2> QED
    BY <2>1, <2>2, <2>3
<1> DEFINE p == F[u]
           q == f[c]
           m == Cardinality(t \cap U)
<1>9. /\ p \in Nat /\ q \in Nat /\ k \in Nat /\ F[t] = q + p
      /\ G[t] = (q + (IF c \in U THEN n ELSE 0)) + (p + n * k)
      /\ m = IF c \in U THEN k + 1 ELSE k
  BY <1>4, <1>5, <1>6, <1>7, <1>8
<1> HIDE DEF p, q, k, u, m
<1>10. G[t] = (q + p) + n * m
  <2>1. n * (k + 1) = n * k + n /\ n * k \in Nat
    BY <1>9
  <2> DEFINE y == n * k
  <2> HIDE DEF y
  <2>2. CASE c \in U
    BY <1>9, <2>1, <2>2 DEF y
  <2>3. CASE c \notin U
    BY <1>9, <2>1, <2>3 DEF y
  <2> QED
    BY <2>2, <2>3
<1> QED
  BY <1>2, <1>9, <1>10 DEF m

-----------------------------------------------------------------------------
(* What the stream counts.                                                  *)

\* The size of a pack without what Complete added.
Net(pack) == IF pack.mCompleted THEN pack.size - TrailerSize ELSE pack.size

Nets == [b \in Bucket |-> Net(packs[b])]

SizeOK(pack) ==
  /\ pack.records = <<>> => pack.size = 0 /\ ~ pack.mCompleted
  /\ pack.mCompleted => TrailerSize <= pack.size

\* A Flush of the packs that are too large counts those it passes and leaves.
SizeInv ==
  /\ \A b \in Bucket : SizeOK(packs[b])
  /\ \E F : /\ IsSum(F, Nets, Bucket)
            /\ F[Bucket] <= mTotalBufferSize
            /\ pc = "flush" /\ ~ flush.all => F[Bucket \ flush.todo] <= flush.counted

LEMMA BucketsFinite == IsFiniteSet(Bucket)
  BY UpsertSessionAssumption

LEMMA NetType ==
  ASSUME NEW pack \in Pack, SizeOK(pack)
  PROVE  /\ Net(pack) \in Nat /\ pack.size \in Nat /\ Net(pack) <= pack.size
         /\ pack.size = Net(pack) + (IF pack.mCompleted THEN TrailerSize ELSE 0)
<1> DEFINE n == pack.size
           c == pack.mCompleted
<1>1. n \in Nat /\ c \in BOOLEAN
  BY DEF Pack
<1>2. TrailerSize \in Nat
  BY UpsertStreamAssumption
<1>3. c => TrailerSize <= n
  BY DEF SizeOK
<1>4. Net(pack) = IF c THEN n - TrailerSize ELSE n
  BY DEF Net
<1> HIDE DEF n, c
<1>5. CASE c
  BY <1>1, <1>2, <1>3, <1>4, <1>5 DEF n, c
<1>6. CASE ~ c
  BY <1>1, <1>2, <1>4, <1>6 DEF n, c
<1> QED
  BY <1>5, <1>6

LEMMA NetsType ==
  ASSUME packs \in [Bucket -> Pack], \A b \in Bucket : SizeOK(packs[b])
  PROVE  \A b \in Bucket : Nets[b] = Net(packs[b]) /\ Nets[b] \in Nat
<1>1. ASSUME NEW b \in Bucket PROVE Net(packs[b]) \in Nat
  BY NetType
<1> QED
  BY <1>1 DEF Nets

\* No pack changes, and a Flush that goes on has counted what it had.
LEMMA SizesStay ==
  ASSUME SizeInv, packs' = packs, mTotalBufferSize' = mTotalBufferSize,
         \/ pc' # "flush"
         \/ flush'.all
         \/ pc = "flush" /\ ~ flush.all /\ flush'.todo = flush.todo /\ flush'.counted = flush.counted
         \/ flush'.todo = Bucket /\ flush'.counted = 0
  PROVE  SizeInv'
<1>1. PICK F : /\ IsSum(F, Nets, Bucket)
               /\ F[Bucket] <= mTotalBufferSize
               /\ pc = "flush" /\ ~ flush.all => F[Bucket \ flush.todo] <= flush.counted
  BY DEF SizeInv
<1>2. \A b \in Bucket : SizeOK(packs[b])'
  BY DEF SizeInv
<1>3. Nets' = Nets
  BY DEF Nets
<1>4. IsSum(F, Nets', Bucket) /\ F[Bucket] <= mTotalBufferSize'
  BY <1>1, <1>3
<1>5. flush'.todo = Bucket /\ flush'.counted = 0 => F[Bucket \ flush'.todo] <= flush'.counted
  <2>1. {} \in SUBSET Bucket
    OBVIOUS
  <2>2. \A s \in SUBSET Bucket : s = {} => F[s] = 0
    BY <1>1, SumIs
  <2>3. Bucket \ Bucket = {}
    OBVIOUS
  <2> QED
    BY <2>1, <2>2, <2>3
<1>6. pc' = "flush" /\ ~ flush'.all => F[Bucket \ flush'.todo] <= flush'.counted
  BY <1>1, <1>5
<1> QED
  BY <1>2, <1>4, <1>6 DEF SizeInv

\* One pack changes.
SumMoves(F, c, pack) ==
  \E G : /\ IsSum(G, Nets', Bucket)
         /\ F[Bucket] \in Nat /\ G[Bucket] \in Nat
         /\ G[Bucket] + Net(packs[c]) = F[Bucket] + Net(pack)
         /\ \A s \in SUBSET (Bucket \ {c}) : G[s] = F[s] /\ G[s \cup {c}] = F[s] + Net(pack)

LEMMA SizesChanged ==
  ASSUME packs \in [Bucket -> Pack], \A b \in Bucket : SizeOK(packs[b]),
         NEW F, IsSum(F, Nets, Bucket),
         NEW c \in Bucket, NEW pack \in Pack, SizeOK(pack), packs' = [packs EXCEPT ![c] = pack]
  PROVE  (\A b \in Bucket : SizeOK(packs[b])') /\ SumMoves(F, c, pack)
<1>1. packs' \in [Bucket -> Pack] /\ packs'[c] = pack /\ \A b \in Bucket \ {c} : packs'[b] = packs[b]
  OBVIOUS
<1>2. \A b \in Bucket : SizeOK(packs'[b])
  BY <1>1
<1>3. \A b \in Bucket : Nets'[b] = Net(packs'[b]) /\ Net(packs'[b]) \in Nat
  <2>1. ASSUME NEW b \in Bucket PROVE Net(packs'[b]) \in Nat
    BY <1>1, <1>2, NetType
  <2> QED
    BY <2>1 DEF Nets
<1>4. \A b \in Bucket : Nets[b] = Net(packs[b]) /\ Nets[b] \in Nat
  BY NetsType
<1> DEFINE f == Nets
           g == Nets'
<1>5. /\ \A b \in Bucket : f[b] \in Nat
      /\ \A b \in Bucket : g[b] \in Nat
      /\ \A b \in Bucket \ {c} : f[b] = g[b]
      /\ f[c] = Net(packs[c]) /\ g[c] = Net(pack)
  BY <1>1, <1>3, <1>4
<1> HIDE DEF f, g
<1>6. IsFiniteSet(Bucket) /\ IsSum(F, f, Bucket)
  BY BucketsFinite DEF f
<1>7. PICK G : IsSum(G, g, Bucket)
  BY <1>5, <1>6, SumExists
<1>8. F[Bucket] \in Nat /\ G[Bucket] \in Nat /\ F[Bucket] + g[c] = G[Bucket] + f[c]
  BY <1>5, <1>6, <1>7, SumChanged
<1>9. ASSUME NEW s \in SUBSET (Bucket \ {c}) PROVE G[s] = F[s]
  <2>1. s \in SUBSET Bucket /\ \A b \in s : f[b] = g[b]
    BY <1>5
  <2> QED
    BY <1>6, <1>7, <2>1, SumSame
<1>10. ASSUME NEW s \in SUBSET (Bucket \ {c}) PROVE G[s \cup {c}] = F[s] + Net(pack)
  <2>1. s \cup {c} \in SUBSET Bucket /\ c \in s \cup {c} /\ (s \cup {c}) \ {c} = s
    OBVIOUS
  <2>2. G[s \cup {c}] = g[c] + G[(s \cup {c}) \ {c}]
    BY <1>5, <1>6, <1>7, <2>1, SumTakes
  <2>3. G[s] = F[s] /\ s \in SUBSET Bucket
    BY <1>9
  <2>4. F[s] \in Nat /\ g[c] \in Nat
    BY <1>5, <1>6, <2>3, SumType
  <2>5. g[c] + F[s] = F[s] + g[c]
    BY <2>4
  <2> QED
    BY <1>5, <2>1, <2>2, <2>3, <2>5
<1>11. IsSum(G, Nets', Bucket)
  BY <1>7 DEF g
<1> QED
  BY <1>2, <1>5, <1>8, <1>9, <1>10, <1>11 DEF SumMoves

LEMMA SizesReset ==
  ASSUME IInv, Reset
  PROVE  SizeInv'
<1>1. packs' = [b \in Bucket |-> EmptyPack] /\ mTotalBufferSize' = 0 /\ pc' = "idle"
  BY DEF IInv, SessionInv, RecordInv, Reset, Ends
<1>2. SizeOK(EmptyPack) /\ Net(EmptyPack) = 0
  BY DEF SizeOK, Net, EmptyPack
<1>3. \A b \in Bucket : SizeOK(packs[b])' /\ Nets'[b] = 0
  BY <1>1, <1>2 DEF Nets
<1> DEFINE g == Nets'
<1> HIDE DEF g
<1>4. \A b \in Bucket : g[b] = 0
  BY <1>3 DEF g
<1>5. PICK G : IsSum(G, g, Bucket)
  BY <1>4, BucketsFinite, SumExists
<1>6. Bucket \in SUBSET Bucket
  OBVIOUS
<1>7. G[Bucket] = 0
  BY <1>4, <1>5, <1>6, BucketsFinite, SumZero
<1> QED
  BY <1>1, <1>3, <1>5, <1>7 DEF SizeInv, g

LEMMA SizesWritten ==
  ASSUME IInv, SizeInv, NEW k \in Key, NEW size \in RecordSizes, Write(k, size)
  PROVE  SizeInv'
<1> DEFINE c == BucketOf(k)
           r == [key |-> k, version |-> accepted[k] + 1]
           pack == Appended(packs[c], r, size)
<1>1. packs \in [Bucket -> Pack] /\ size \in Nat /\ mTotalBufferSize \in Nat
  BY UpsertStreamAssumption DEF IInv, RecordInv, CallInv
<1>2. c \in Bucket /\ DOMAIN mBuckets = Bucket
  BY BucketOfIsHome, HomeIsBucket DEF IInv
<1>3. /\ packs' = [packs EXCEPT ![c] = pack] /\ mTotalBufferSize' = mTotalBufferSize + size
      /\ ~ packs[c].mCompleted
      /\ StartFlush(FALSE, FALSE) \/ StartFlush(TRUE, FALSE) \/ Ends("nothing")
  BY DEF Write
<1>4. r \in [key : Key, version : Nat]
  BY DEF IInv, RecordInv
<1> HIDE DEF c, r
<1>5. packs[c] \in Pack /\ SizeOK(packs[c])
  BY <1>1, <1>2 DEF SizeInv
<1>6. /\ pack \in Pack /\ pack.records # <<>> /\ ~ pack.mCompleted
      /\ pack.size = packs[c].size + size
  <2> DEFINE p == packs[c]
             x == p.records
  <2>1. x \in Seq([key : Key, version : Nat]) /\ p.size \in Nat
    BY <1>5, PackIs
  <2>2. Append(x, r) \in Seq([key : Key, version : Nat]) /\ Append(x, r) # <<>>
    BY <1>4, <2>1
  <2>3. p.size + size \in Nat
    BY <1>1, <2>1
  <2>4. pack \in Pack
    BY <1>5, <2>2, <2>3 DEF Appended, Pack
  <2>5. /\ pack.records = Append(x, r) /\ pack.mCompleted = p.mCompleted
        /\ pack.size = p.size + size
    BY <1>5 DEF Appended, Pack
  <2> QED
    BY <1>3, <2>2, <2>4, <2>5
<1>7. SizeOK(pack) /\ Net(pack) = Net(packs[c]) + size /\ Net(packs[c]) \in Nat
  BY <1>3, <1>5, <1>6, NetType DEF SizeOK, Net
<1> HIDE DEF pack
<1>8. PICK F : IsSum(F, Nets, Bucket) /\ F[Bucket] <= mTotalBufferSize
  BY DEF SizeInv
<1>9. (\A b \in Bucket : SizeOK(packs[b])) /\ SizeOK(pack)
  BY <1>7 DEF SizeInv
<1>10. (\A b \in Bucket : SizeOK(packs[b])') /\ SumMoves(F, c, pack)
  BY <1>1, <1>2, <1>3, <1>6, <1>8, <1>9, SizesChanged
<1>11. PICK G : /\ IsSum(G, Nets', Bucket)
                /\ F[Bucket] \in Nat /\ G[Bucket] \in Nat
                /\ G[Bucket] + Net(packs[c]) = F[Bucket] + Net(pack)
  BY <1>10 DEF SumMoves
<1>12. G[Bucket] <= mTotalBufferSize'
  BY <1>1, <1>3, <1>7, <1>8, <1>11
<1>13. pc' = "flush" /\ ~ flush'.all => G[Bucket \ flush'.todo] <= flush'.counted
  <2>1. pc' = "flush" => flush'.todo = Bucket /\ flush'.counted = 0
    BY <1>2, <1>3 DEF StartFlush, Ends
  <2>2. \A s \in SUBSET Bucket : s = {} => G[s] = 0
    BY <1>11, SumIs
  <2>3. {} \in SUBSET Bucket /\ Bucket \ Bucket = {}
    OBVIOUS
  <2> QED
    BY <2>1, <2>2, <2>3
<1> QED
  BY <1>10, <1>11, <1>12, <1>13 DEF SizeInv

\* What Flush leaves in a pack it counts.
LEMMA SizesPassed ==
  ASSUME IInv, SizeInv, PassBucket
  PROVE  SizeInv'
<1> DEFINE c == Current
           s == Bucket \ flush.todo
           t == Bucket \ flush'.todo
<1>1. /\ packs \in [Bucket -> Pack] /\ CallInv /\ pc = "flush" /\ flush.todo # {}
      /\ UNCHANGED <<packs, mTotalBufferSize>>
      /\ flush' = [flush EXCEPT !.todo = @ \ {c},
                                !.counted = IF packs[c].records = <<>> THEN @ ELSE @ + packs[c].size]
  BY DEF IInv, RecordInv, PassBucket, AtBucket, bufferVars
<1>2. c \in flush.todo /\ c \in Bucket
  BY <1>1, CurrentIsBucket
<1> HIDE DEF c
<1>3. /\ flush.todo \in SUBSET Bucket /\ flush.counted \in Nat
      /\ flush'.todo = flush.todo \ {c} /\ flush'.all = flush.all
      /\ flush'.counted = IF packs[c].records = <<>> THEN flush.counted
                          ELSE flush.counted + packs[c].size
  BY <1>1 DEF CallInv
<1>4. t \in SUBSET Bucket /\ c \in t /\ t \ {c} = s /\ s \in SUBSET Bucket
  BY <1>2, <1>3
<1>5. PICK F : /\ IsSum(F, Nets, Bucket)
               /\ F[Bucket] <= mTotalBufferSize
               /\ pc = "flush" /\ ~ flush.all => F[s] <= flush.counted
  BY DEF SizeInv
<1> HIDE DEF s, t
<1>6. \A b \in Bucket : SizeOK(packs[b]) /\ Nets[b] = Net(packs[b]) /\ Nets[b] \in Nat
  BY <1>1, NetsType DEF SizeInv
<1>7. /\ Net(packs[c]) \in Nat /\ packs[c].size \in Nat /\ Net(packs[c]) <= packs[c].size
      /\ packs[c].records = <<>> => Net(packs[c]) = 0
  BY <1>1, <1>2, <1>6, NetType DEF SizeOK, Net
<1>8. F[t] = Net(packs[c]) + F[s] /\ F[s] \in Nat
  <2>1. F[t] = Nets[c] + F[t \ {c}]
    BY <1>4, <1>5, <1>6, BucketsFinite, SumTakes
  <2>2. F[s] \in Nat
    BY <1>4, <1>5, <1>6, BucketsFinite, SumType
  <2> QED
    BY <1>2, <1>4, <1>6, <2>1, <2>2
<1>9. ~ flush.all => F[t] <= flush'.counted
  BY <1>1, <1>3, <1>5, <1>7, <1>8
<1>10. Nets' = Nets
  BY <1>1 DEF Nets
<1>11. \A b \in Bucket : SizeOK(packs[b])'
  BY <1>1, <1>6
<1> QED
  BY <1>1, <1>3, <1>5, <1>9, <1>10, <1>11 DEF SizeInv, t

\* A pack that was sent has nothing left.
LEMMA SizesSent ==
  ASSUME IInv, SizeInv, PackSent
  PROVE  SizeInv'
<1> DEFINE c == Current
           s == Bucket \ flush.todo
<1>1. /\ packs \in [Bucket -> Pack] /\ CallInv /\ pc = "flush" /\ flush.todo # {}
      /\ packs' = [packs EXCEPT ![c] = EmptyPack] /\ mTotalBufferSize' = mTotalBufferSize
      /\ flush' = [flush EXCEPT !.todo = @ \ {c}, !.retry = 0]
  BY DEF IInv, RecordInv, PackSent, AtBucket
<1>2. c \in flush.todo /\ c \in Bucket
  BY <1>1, CurrentIsBucket
<1> HIDE DEF c
<1>3. /\ flush.todo \in SUBSET Bucket /\ flush.counted \in Nat /\ mTotalBufferSize \in Nat
      /\ flush'.todo = flush.todo \ {c} /\ flush'.all = flush.all
      /\ flush'.counted = flush.counted
  BY <1>1 DEF CallInv
<1>4. s \in SUBSET (Bucket \ {c}) /\ Bucket \ flush'.todo = s \cup {c}
  BY <1>2, <1>3
<1>5. PICK F : /\ IsSum(F, Nets, Bucket)
               /\ F[Bucket] <= mTotalBufferSize
               /\ pc = "flush" /\ ~ flush.all => F[s] <= flush.counted
  BY DEF SizeInv
<1> HIDE DEF s
<1>6. EmptyPack \in Pack /\ SizeOK(EmptyPack) /\ Net(EmptyPack) = 0
  BY EmptyPackIsPack DEF SizeOK, Net, EmptyPack
<1>7. \A b \in Bucket : SizeOK(packs[b]) /\ Nets[b] = Net(packs[b]) /\ Nets[b] \in Nat
  BY <1>1, NetsType DEF SizeInv
<1>8. (\A b \in Bucket : SizeOK(packs[b])') /\ SumMoves(F, c, EmptyPack)
  <2>1. \A b \in Bucket : SizeOK(packs[b])
    BY <1>6, <1>7
  <2>2. IsSum(F, Nets, Bucket)
    BY <1>5
  <2> QED
    BY <1>1, <1>2, <1>6, <1>7, <2>1, <2>2, SizesChanged
<1>9. PICK G : /\ IsSum(G, Nets', Bucket)
               /\ F[Bucket] \in Nat /\ G[Bucket] \in Nat
               /\ G[Bucket] + Net(packs[c]) = F[Bucket] + Net(EmptyPack)
               /\ G[s \cup {c}] = F[s] + Net(EmptyPack)
  BY <1>4, <1>8 DEF SumMoves
<1>10. Net(packs[c]) \in Nat /\ F[s] \in Nat
  BY <1>2, <1>4, <1>5, <1>7, BucketsFinite, SumType
<1>11. G[Bucket] <= mTotalBufferSize'
  BY <1>1, <1>3, <1>5, <1>6, <1>9, <1>10
<1>12. ~ flush.all => G[s \cup {c}] <= flush'.counted
  BY <1>1, <1>3, <1>5, <1>6, <1>9, <1>10
<1> QED
  BY <1>3, <1>4, <1>8, <1>9, <1>11, <1>12 DEF SizeInv

\* What Complete adds is not counted.
LEMMA SizesUnsent ==
  ASSUME IInv, SizeInv, PackUnsent,
         pc' # "flush" \/ (flush'.todo = flush.todo /\ flush'.all = flush.all
                           /\ flush'.counted = flush.counted)
  PROVE  SizeInv'
<1> DEFINE c == Current
           pack == Completed(packs[c])
           s == Bucket \ flush.todo
<1>1. /\ packs \in [Bucket -> Pack] /\ CallInv /\ pc = "flush" /\ flush.todo # {}
      /\ packs' = [packs EXCEPT ![c] = pack] /\ mTotalBufferSize' = mTotalBufferSize
      /\ packs[c].records # <<>>
  BY DEF IInv, RecordInv, PackUnsent, AtBucket, Due
<1>2. c \in flush.todo /\ c \in Bucket
  BY <1>1, CurrentIsBucket
<1> HIDE DEF c
<1>3. flush.todo \in SUBSET Bucket /\ mTotalBufferSize \in Nat
  BY <1>1 DEF CallInv
<1>4. s \in SUBSET (Bucket \ {c})
  BY <1>2, <1>3
<1>5. PICK F : /\ IsSum(F, Nets, Bucket)
               /\ F[Bucket] <= mTotalBufferSize
               /\ pc = "flush" /\ ~ flush.all => F[s] <= flush.counted
  BY DEF SizeInv
<1> HIDE DEF s
<1>6. \A b \in Bucket : SizeOK(packs[b]) /\ Nets[b] = Net(packs[b]) /\ Nets[b] \in Nat
  BY <1>1, NetsType DEF SizeInv
<1>7. pack \in Pack /\ SizeOK(pack) /\ Net(pack) = Net(packs[c])
  <2> DEFINE p == packs[c]
  <2>1. /\ p \in Pack /\ p.size \in Nat /\ p.mCompleted \in BOOLEAN /\ TrailerSize \in Nat
        /\ p.records # <<>>
    BY <1>1, <1>2, UpsertStreamAssumption DEF Pack
  <2>2. SizeOK(p)
    BY <1>2, <1>6
  <2>3. CASE p.mCompleted
    BY <2>1, <2>2, <2>3 DEF Completed
  <2>4. CASE ~ p.mCompleted
    <3>1. pack = [records |-> p.records, size |-> p.size + TrailerSize, mCompleted |-> TRUE]
      BY <2>1, <2>4 DEF Completed, Pack
    <3>2. p.records \in Seq([key : Key, version : Nat])
      BY <2>1 DEF Pack
    <3>3. /\ pack.size = p.size + TrailerSize /\ pack.mCompleted = TRUE
          /\ pack.records = p.records /\ pack \in Pack
      BY <2>1, <3>1, <3>2 DEF Pack
    <3> HIDE DEF pack, p
    <3> QED
      BY <2>1, <2>4, <3>3 DEF SizeOK, Net, p
  <2> QED
    BY <2>3, <2>4
<1> HIDE DEF pack
<1>8. (\A b \in Bucket : SizeOK(packs[b])') /\ SumMoves(F, c, pack)
  <2>1. \A b \in Bucket : SizeOK(packs[b])
    BY <1>6, <1>7
  <2>2. IsSum(F, Nets, Bucket)
    BY <1>5
  <2> QED
    BY <1>1, <1>2, <1>6, <1>7, <2>1, <2>2, SizesChanged
<1>9. PICK G : /\ IsSum(G, Nets', Bucket)
               /\ F[Bucket] \in Nat /\ G[Bucket] \in Nat
               /\ G[Bucket] + Net(packs[c]) = F[Bucket] + Net(pack)
               /\ G[s] = F[s]
  BY <1>4, <1>8 DEF SumMoves
<1>10. Net(packs[c]) \in Nat
  BY <1>2, <1>6
<1>11. G[Bucket] <= mTotalBufferSize'
  BY <1>1, <1>3, <1>5, <1>7, <1>9, <1>10
<1>12. pc' = "flush" /\ ~ flush'.all => G[Bucket \ flush'.todo] <= flush'.counted
  BY <1>1, <1>5, <1>9 DEF s
<1> QED
  BY <1>8, <1>9, <1>11, <1>12 DEF SizeInv

\* At its end a Flush of all packs has left none, and another has counted what
\* it left.
LEMMA SizesFlushed ==
  ASSUME IInv, SizeInv, FlushDone
  PROVE  SizeInv'
<1>1. /\ packs \in [Bucket -> Pack] /\ CallInv /\ pc = "flush" /\ flush.todo = {}
      /\ packs' = packs /\ pc' = "idle"
      /\ mTotalBufferSize' = IF flush.all THEN 0 ELSE flush.counted
  BY DEF IInv, RecordInv, FlushDone, Ends
<1>2. PICK F : /\ IsSum(F, Nets, Bucket)
               /\ pc = "flush" /\ ~ flush.all => F[Bucket \ flush.todo] <= flush.counted
  BY DEF SizeInv
<1>3. \A b \in Bucket : SizeOK(packs[b])' /\ SizeOK(packs[b]) /\ Nets[b] = Net(packs[b])
  BY <1>1, NetsType DEF SizeInv
<1>4. flush.all => F[Bucket] = 0
  <2>1. SUFFICES ASSUME flush.all PROVE F[Bucket] = 0
    OBVIOUS
  <2>2. \A b \in Bucket : packs[b].records = <<>>
    BY <1>1, <2>1 DEF CallInv, Drained
  <2>3. \A b \in Bucket : Nets[b] = 0
    BY <1>3, <2>2 DEF SizeOK, Net
  <2>4. Bucket \in SUBSET Bucket
    OBVIOUS
  <2> QED
    BY <1>2, <2>3, <2>4, BucketsFinite, SumZero
<1>5. Bucket \ flush.todo = Bucket
  BY <1>1
<1>6. F[Bucket] <= mTotalBufferSize'
  BY <1>1, <1>2, <1>4, <1>5
<1>7. Nets' = Nets
  BY <1>1 DEF Nets
<1> QED
  BY <1>1, <1>2, <1>3, <1>6, <1>7 DEF SizeInv

LEMMA SizesInit == Init => SizeInv
<1> SUFFICES ASSUME Init PROVE SizeInv
  OBVIOUS
<1>1. IInv /\ DOMAIN mBuckets = Bucket
  BY InitIInv DEF IInv, SessionInv
<1>2. packs = [b \in Bucket |-> EmptyPack] /\ mTotalBufferSize = 0 /\ pc = "idle"
  BY <1>1 DEF Init
<1>3. SizeOK(EmptyPack) /\ Net(EmptyPack) = 0
  BY DEF SizeOK, Net, EmptyPack
<1>4. \A b \in Bucket : SizeOK(packs[b]) /\ Nets[b] = 0
  BY <1>2, <1>3 DEF Nets
<1> DEFINE f == Nets
<1> HIDE DEF f
<1>5. \A b \in Bucket : f[b] = 0
  BY <1>4 DEF f
<1>6. PICK F : IsSum(F, f, Bucket)
  BY <1>5, BucketsFinite, SumExists
<1>7. Bucket \in SUBSET Bucket
  OBVIOUS
<1>8. F[Bucket] = 0
  BY <1>5, <1>6, <1>7, BucketsFinite, SumZero
<1> QED
  BY <1>2, <1>4, <1>6, <1>8 DEF SizeInv, f

LEMMA SizesKept == IInv /\ SizeInv /\ [Next]_vars => SizeInv'
<1> SUFFICES ASSUME IInv, SizeInv, [Next]_vars PROVE SizeInv'
  OBVIOUS
<1>1. DOMAIN mBuckets = Bucket
  BY DEF IInv, SessionInv
<1>2. ASSUME UNCHANGED bufferVars, pc' # "flush" \/ UNCHANGED <<pc, flush>> PROVE SizeInv'
  BY <1>2, SizesStay DEF bufferVars
<1>3. CASE \E k \in Key : WriteThrows(k) \/ \E size \in RecordSizes : Write(k, size)
  <2>1. ASSUME NEW k \in Key, WriteThrows(k) PROVE SizeInv'
    BY <1>2, <2>1 DEF WriteThrows, Ends
  <2> QED
    BY <1>3, <2>1, SizesWritten
<1>4. CASE Close \/ \E all \in BOOLEAN : Flush(all)
  <2>1. UNCHANGED bufferVars
    BY <1>4 DEF Close, Flush
  <2>2. (flush'.todo = Bucket /\ flush'.counted = 0) \/ pc' # "flush"
    BY <1>1, <1>4 DEF Close, Flush, StartFlush, Ends
  <2> QED
    BY <1>2, <2>1, <2>2, SizesStay DEF bufferVars
<1>5. CASE Reset
  BY <1>5, SizesReset
<1>6. CASE FlushStep
  <2>1. ASSUME PackRetried PROVE SizeInv'
    <3>1. PackUnsent /\ flush' = [flush EXCEPT !.retry = @ + 1] /\ CallInv
      BY <2>1 DEF PackRetried, IInv
    <3>2. flush'.todo = flush.todo /\ flush'.all = flush.all /\ flush'.counted = flush.counted
      BY <3>1 DEF CallInv
    <3> QED
      BY <3>1, <3>2, SizesUnsent
  <2>2. ASSUME PackGivenUp \/ PackThrows PROVE SizeInv'
    <3>1. PackUnsent /\ pc' # "flush"
      BY <2>2 DEF PackGivenUp, PackThrows, Ends
    <3> QED
      BY <3>1, SizesUnsent
  <2> QED
    BY <1>6, <2>1, <2>2, SizesPassed, SizesSent, SizesFlushed DEF FlushStep
<1>7. CASE Commit \/ CommitAsync \/ CommitFails \/ CommitStep \/ Abort
  <2>1. UNCHANGED bufferVars /\ (pc' # "flush" \/ UNCHANGED <<pc, flush>>)
    BY <1>7 DEF Commit, CommitAsync, CommitFails, CommitStep, CommitPoll, CommitTimesOut,
                CommitReturns, Abort, Ends, callVars
  <2> QED
    BY <1>2, <2>1
<1>8. CASE Tick \/ SessionMoves \/ UNCHANGED vars
  <2>1. UNCHANGED bufferVars /\ UNCHANGED <<pc, flush>>
    BY <1>8 DEF Tick, SessionMoves, vars, callVars
  <2> QED
    BY <1>2, <2>1
<1> QED
  BY <1>3, <1>4, <1>5, <1>6, <1>7, <1>8 DEF Next

\* The sum that NeverUndercounted takes.
SizesAre(F) ==
  F = [s \in SUBSET DOMAIN packs |->
         IF s = {} THEN 0 ELSE packs[Some(s)].size + F[s \ {Some(s)}]]

LEMMA SizesCounted == IInv /\ SizeInv => NeverUndercounted
<1> SUFFICES ASSUME IInv, SizeInv PROVE NeverUndercounted
  OBVIOUS
<1> DEFINE U == {b \in Bucket : packs[b].mCompleted}
           sizes == [b \in Bucket |-> packs[b].size]
           total == FoldFunction(LAMBDA pack, sum : pack.size + sum, 0, packs)
           G == CHOOSE F : SizesAre(F)
<1>1. total = G[DOMAIN packs]
  BY DEF FoldFunction, FoldFunctionOnSet, MapThenFoldSet, SizesAre, Some
<1>2. packs \in [Bucket -> Pack] /\ DOMAIN packs = Bucket /\ mTotalBufferSize \in Nat
  BY DEF IInv, RecordInv, CallInv
<1>3. \A b \in Bucket : SizeOK(packs[b]) /\ Nets[b] = Net(packs[b]) /\ Nets[b] \in Nat
  BY <1>2, NetsType DEF SizeInv
<1>4. /\ \A b \in Bucket : sizes[b] \in Nat
      /\ \A b \in Bucket : sizes[b] = Nets[b] + (IF b \in U THEN TrailerSize ELSE 0)
  <2>1. ASSUME NEW b \in Bucket
        PROVE  sizes[b] \in Nat /\ sizes[b] = Nets[b] + (IF b \in U THEN TrailerSize ELSE 0)
    BY <1>2, <1>3, NetType
  <2> QED
    BY <2>1
<1>5. \A F : SizesAre(F) <=> IsSum(F, sizes, Bucket)
  <2>1. \A s \in SUBSET Bucket : s # {} => Some(s) \in Bucket
    BY DEF Some
  <2>2. ASSUME NEW F
        PROVE  [s \in SUBSET Bucket |->
                  IF s = {} THEN 0 ELSE packs[Some(s)].size + F[s \ {Some(s)}]]
               = [s \in SUBSET Bucket |->
                  IF s = {} THEN 0 ELSE sizes[Some(s)] + F[s \ {Some(s)}]]
    BY <2>1
  <2> QED
    BY <1>2, <2>2 DEF SizesAre, IsSum
<1>6. PICK F : IsSum(F, Nets, Bucket) /\ F[Bucket] <= mTotalBufferSize
  BY DEF SizeInv
<1> HIDE DEF sizes, U, total
<1>7. IsSum(G, sizes, Bucket)
  <2>1. \E H : IsSum(H, sizes, Bucket)
    BY <1>4, BucketsFinite, SumExists
  <2>2. SizesAre(G)
    BY <1>5, <2>1
  <2> QED
    BY <1>5, <2>2
<1> HIDE DEF G
<1>8. Bucket \in SUBSET Bucket /\ TrailerSize \in Nat
  BY UpsertStreamAssumption
<1>9. G[Bucket] = F[Bucket] + TrailerSize * Cardinality(Bucket \cap U)
  <2> DEFINE f == Nets
  <2>1. (\A b \in Bucket : f[b] \in Nat) /\ IsSum(F, f, Bucket)
    BY <1>3, <1>6
  <2>2. \A b \in Bucket : sizes[b] = f[b] + (IF b \in U THEN TrailerSize ELSE 0)
    BY <1>4
  <2> HIDE DEF f
  <2>3. /\ IsFiniteSet(Bucket) /\ (\A b \in Bucket : f[b] \in Nat) /\ IsSum(F, f, Bucket)
        /\ IsSum(G, sizes, Bucket) /\ TrailerSize \in Nat
        /\ IsMore(sizes, f, Bucket, U, TrailerSize) /\ Bucket \in SUBSET Bucket
    BY <1>7, <1>8, <2>1, <2>2, BucketsFinite DEF IsMore
  <2> QED
    BY ONLY <2>3, SumCounted
<1>10. Bucket \cap U = U
  BY DEF U
<1>11. F[Bucket] \in Nat
  BY <1>3, <1>6, <1>8, BucketsFinite, SumType
<1>12. Cardinality(U) \in Nat
  <2>1. IsFiniteSet(U)
    BY BucketsFinite, FS_Subset DEF U
  <2> QED
    BY <2>1, FS_CardinalityType
<1>13. TrailerSize * Cardinality(U) \in Nat
  BY <1>8, <1>12
<1>14. total <= mTotalBufferSize + TrailerSize * Cardinality(U)
  <2> DEFINE m == TrailerSize * Cardinality(U)
             n == F[Bucket]
  <2>1. m \in Nat /\ n \in Nat /\ total = n + m /\ n <= mTotalBufferSize
    BY <1>1, <1>2, <1>6, <1>9, <1>10, <1>11, <1>13
  <2> HIDE DEF m, n
  <2>2. total <= mTotalBufferSize + m
    BY <1>2, <2>1
  <2> QED
    BY <2>2 DEF m
<1> QED
  BY <1>14 DEF NeverUndercounted, total, U

\* However flushes end and whatever is written, a stream has counted everything
\* that it buffers but the trailers of what it could not send: it comes back to
\* flush when too much is buffered, and no failure makes it forget.
THEOREM AllIsCounted == Spec => []NeverUndercounted
<1>1. Init => IInv /\ SizeInv
  BY InitIInv, SizesInit
<1>2. (IInv /\ SizeInv) /\ [Next]_vars => (IInv /\ SizeInv)'
  BY StepKeeps, SizesKept
<1>3. IInv /\ SizeInv => NeverUndercounted
  BY SizesCounted
<1> QED
  BY <1>1, <1>2, <1>3, PTL DEF Spec
=============================================================================
