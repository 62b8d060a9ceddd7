------------------------- MODULE StreamUploadProofs -------------------------
(***************************************************************************)
(* Type correctness and the three safety invariants of StreamUpload, for   *)
(* every number of threads, addresses and slots and every bound.           *)
(***************************************************************************)
EXTENDS StreamUpload, FiniteSetTheorems, TLAPS

\* A slot's disable time is never later than the last report against its
\* address.  This is what makes DisabledOnlyIfReported inductive: an expiry
\* compares both times with the same clock.
DisableTimesReported ==
  \A i \in DOMAIN mSlots :
    mSlots[i].mDisableTime <= reportedAt[mSlots[i].mServerAddr]

\* The inductive invariant.
IInv ==
  /\ TypeOK
  /\ SomeSlotUsable
  /\ FewAddrsDisabled
  /\ DisableTimesReported

\* The number of slots of a table with the ids 0 .. n - 1 is n.
LEMMA TableSize ==
  ASSUME NEW n \in Nat, NEW STATE table, DOMAIN table = 0 .. (n - 1)
  PROVE  Size(table) = n
BY FS_Interval DEF Size

\* A table whose ids are slot ids has a size, and is finite.
LEMMA SizeType ==
  ASSUME NEW STATE table, DOMAIN table \subseteq SlotId, MaxSlots \in Nat
  PROVE  IsFiniteSet(DOMAIN table) /\ Size(table) \in 0 .. MaxSlots
<1>1. IsFiniteSet(SlotId) /\ Cardinality(SlotId) = MaxSlots
  BY FS_Interval DEF SlotId
<1>2. IsFiniteSet(DOMAIN table) /\ Cardinality(DOMAIN table) <= MaxSlots
  BY <1>1, FS_Subset
<1>3. Cardinality(DOMAIN table) \in Nat
  BY <1>2, FS_CardinalityType
<1> QED
  BY <1>2, <1>3 DEF Size

\* The addresses of finitely many slots are finitely many.
LEMMA ImageFinite ==
  ASSUME NEW S, IsFiniteSet(S), NEW g
  PROVE  IsFiniteSet({g[i].mServerAddr : i \in S})
<1> DEFINE Img == {g[i].mServerAddr : i \in S}
           h == [i \in S |-> g[i].mServerAddr]
<1>1. h \in Surjection(S, Img)
  BY DEF Surjection
<1> QED
  BY <1>1, FS_Surjection

\* Fewer slots are of no more addresses.
LEMMA FewerAddrs ==
  ASSUME NEW S, IsFiniteSet(S), NEW f, NEW g,
         NEW T \in SUBSET S, \A i \in T : f[i].mServerAddr = g[i].mServerAddr
  PROVE  Cardinality({f[i].mServerAddr : i \in T})
           <= Cardinality({g[i].mServerAddr : i \in S})
<1> DEFINE Img == {g[i].mServerAddr : i \in S}
<1>2. IsFiniteSet(Img)
  BY ImageFinite
<1>3. {f[i].mServerAddr : i \in T} \in SUBSET Img
  OBVIOUS
<1> QED
  BY <1>2, <1>3, FS_Subset

\* With no disable time set, no address is out of use.
LEMMA NoneDisabled ==
  ASSUME \A i \in DOMAIN mSlots : ~ Disabled(mSlots[i]), StreamUploadAssumption
  PROVE  FewAddrsDisabled
<1>1. {j \in DOMAIN mSlots : Disabled(mSlots[j])} = {}
  OBVIOUS
<1>2. {mSlots[i].mServerAddr : i \in {j \in DOMAIN mSlots : Disabled(mSlots[j])}} = {}
  BY <1>1
<1>3. Cardinality({}) = 0
  BY FS_EmptySet
<1> QED
  BY <1>2, <1>3 DEF FewAddrsDisabled, StreamUploadAssumption

\* No table is a table that a reload may have got.
LEMMA NoTableType == NoTable \in ReloadTables
<1>1. NoTable \in [{} -> Addr \cup {NoAddr}]
  BY DEF NoTable
<1> QED
  BY <1>1, {} \in SUBSET SlotId DEF ReloadTables

-----------------------------------------------------------------------------
(* Initialisation.                                                         *)

\* A session that was just created satisfies the invariant.
LEMMA InitIInv ==
  ASSUME StreamUploadAssumption, Init
  PROVE  IInv
<1>1. PICK n \in 1 .. MaxSlots : serverSlots \in [0 .. (n - 1) -> Addr]
  BY DEF Init, ServerTables
<1>2. DOMAIN mSlots = 0 .. (n - 1) /\ \A i \in DOMAIN mSlots :
         mSlots[i] = NewSlot(serverSlots[i]) /\ serverSlots[i] \in Addr
  BY <1>1 DEF Init
<1>3. IsTable(mSlots, Slot) /\ IsTable(serverSlots, Addr)
  <2>1. mSlots \in [0 .. (n - 1) -> Slot]
    BY <1>1, <1>2 DEF Init, NewSlot, Slot
  <2> QED
    BY <1>1, <2>1, n \in 0 .. MaxSlots DEF IsTable, StreamUploadAssumption
<1>4. loaded \in [Thread -> ReloadTables]
  BY NoTableType DEF Init
<1>5. TypeOK
  <2>1. mCurrentSlot \in SlotId /\ 0 \in SlotId
    BY <1>1 DEF Init, SlotId, StreamUploadAssumption
  <2>2. /\ slot \in [Thread -> [mSlotId : SlotId, mServerAddr : Addr \cup {NoAddr}]]
        /\ answer \in [Thread -> [routed : Addr \cup {NoAddr}, slotNum : Nat]]
        /\ \A t \in Thread : pc[t] # "idle" => slot[t].mServerAddr \in Addr
    BY <2>1 DEF Init, NoSlot, NoAnswer
  <2> QED
    BY <1>3, <1>4, <2>1, <2>2 DEF Init, TypeOK, Place, StreamUploadAssumption
<1>6. \A i \in DOMAIN mSlots : ~ Disabled(mSlots[i])
  BY <1>2 DEF Disabled, NewSlot
<1>7. SomeSlotUsable /\ FewAddrsDisabled
  BY <1>6, NoneDisabled DEF SomeSlotUsable
<1>8. DisableTimesReported
  BY <1>2 DEF DisableTimesReported, NewSlot, Init
<1> QED
  BY <1>5, <1>7, <1>8 DEF IInv

-----------------------------------------------------------------------------
(* The operations on the table.  Each lemma takes the invariant and what   *)
(* the operation assigns, and concludes the part of the invariant that     *)
(* speaks of the table.                                                    *)

TableInv ==
  /\ IsTable(mSlots, Slot)
  /\ SomeSlotUsable
  /\ FewAddrsDisabled
  /\ DisableTimesReported

\* If every slot disabled afterwards was disabled before, with the same
\* address, the two invariants about disabled slots are kept.
LEMMA FewerDisabled ==
  ASSUME StreamUploadAssumption, TypeOK, SomeSlotUsable, FewAddrsDisabled,
         DOMAIN mSlots' = DOMAIN mSlots,
         \A i \in DOMAIN mSlots :
           Disabled(mSlots[i])' =>
             /\ Disabled(mSlots[i])
             /\ mSlots'[i].mServerAddr = mSlots[i].mServerAddr
  PROVE  SomeSlotUsable' /\ FewAddrsDisabled'
<1> DEFINE D == {j \in DOMAIN mSlots : Disabled(mSlots[j])}
           E == {j \in DOMAIN mSlots' : Disabled(mSlots[j])'}
<1>1. SomeSlotUsable'
  BY DEF SomeSlotUsable
<1>2. E \in SUBSET D /\ \A i \in E : mSlots'[i].mServerAddr = mSlots[i].mServerAddr
  OBVIOUS
<1>3. IsFiniteSet(D)
  <2>1. DOMAIN mSlots \subseteq SlotId
    BY DEF TypeOK, IsTable, SlotId, StreamUploadAssumption
  <2>2. IsFiniteSet(DOMAIN mSlots)
    BY <2>1, SizeType DEF StreamUploadAssumption
  <2> QED
    BY <2>2, FS_Subset
<1> HIDE DEF D, E
<1>4. Cardinality({mSlots'[i].mServerAddr : i \in E})
        <= Cardinality({mSlots[i].mServerAddr : i \in D})
  BY <1>2, <1>3, FewerAddrs
<1>5. /\ Cardinality({mSlots'[i].mServerAddr : i \in E}) \in Int
      /\ Cardinality({mSlots[i].mServerAddr : i \in D}) \in Int
  <2>1. IsFiniteSet(E)
    BY <1>2, <1>3, FS_Subset
  <2> QED
    BY <1>3, <2>1, ImageFinite, FS_CardinalityType
<1> QED
  BY <1>1, <1>4, <1>5 DEF D, E, FewAddrsDisabled, StreamUploadAssumption

\* Re-routing one slot.
LEMMA UpdateSlotInv ==
  ASSUME StreamUploadAssumption, IInv, NEW id \in SlotId,
         NEW addr \in Addr \cup {NoAddr}, UpdateSlot(id, addr),
         now' = now, reportedAt' = reportedAt
  PROVE  TableInv'
<1>1. PICK n \in 0 .. MaxSlots : mSlots \in [0 .. (n - 1) -> Slot]
  BY DEF IInv, TypeOK, IsTable
<1>2. CASE mSlots' = mSlots
  <2>1. SomeSlotUsable' /\ FewAddrsDisabled'
    <3>1. \A i \in DOMAIN mSlots : Disabled(mSlots[i])' <=> Disabled(mSlots[i])
      BY <1>2 DEF Disabled, WithinDisableTime
    <3> QED
      BY <1>2, <3>1, FewerDisabled DEF IInv
  <2> QED
    BY <1>2, <2>1 DEF TableInv, IInv, TypeOK, IsTable, DisableTimesReported
<1>3. CASE /\ id \in DOMAIN mSlots /\ addr \in Addr
           /\ mSlots' = [mSlots EXCEPT ![id] = NewSlot(addr)]
  <2>1. NewSlot(addr) \in Slot
    BY <1>3 DEF NewSlot, Slot
  <2>2. mSlots' \in [0 .. (n - 1) -> Slot]
    BY <1>1, <1>3, <2>1
  <2>3. DOMAIN mSlots' = DOMAIN mSlots
    BY <1>1, <2>2
  <2>4. \A i \in DOMAIN mSlots :
          mSlots'[i] = IF i = id THEN NewSlot(addr) ELSE mSlots[i]
    BY <1>1, <1>3
  <2>5. ASSUME NEW i \in DOMAIN mSlots, Disabled(mSlots[i])'
        PROVE  /\ Disabled(mSlots[i])
               /\ mSlots'[i].mServerAddr = mSlots[i].mServerAddr
    BY <2>4, <2>5 DEF Disabled, WithinDisableTime, NewSlot
  <2>6. SomeSlotUsable' /\ FewAddrsDisabled'
    BY <2>3, <2>5, FewerDisabled DEF IInv
  <2>7. DisableTimesReported'
    <3>1. reportedAt[addr] >= -1
      BY <1>3 DEF IInv, TypeOK
    <3> QED
      BY <2>3, <2>4, <3>1 DEF IInv, DisableTimesReported, NewSlot
  <2> QED
    BY <2>2, <2>6, <2>7 DEF TableInv, IsTable
<1> QED
  BY <1>2, <1>3 DEF UpdateSlot

\* Disabling the slots of an address, together with the report against it.
LEMMA DisableSlotInv ==
  ASSUME StreamUploadAssumption, IInv, NEW addr \in Addr, DisableSlot(addr),
         now' = now, reportedAt' = [reportedAt EXCEPT ![addr] = now]
  PROVE  TableInv'
<1>1. PICK n \in 0 .. MaxSlots : mSlots \in [0 .. (n - 1) -> Slot]
  BY DEF IInv, TypeOK, IsTable
<1>2. now \in Nat /\ now >= SlotDisableTime
  BY DEF IInv, TypeOK, StreamUploadAssumption
<1>3. /\ DOMAIN mSlots' = DOMAIN mSlots
      /\ mSlots' \in [0 .. (n - 1) -> Slot]
      /\ \A i \in DOMAIN mSlots : mSlots'[i].mServerAddr = mSlots[i].mServerAddr
      /\ \A i \in DOMAIN mSlots :
           mSlots'[i].mDisableTime = mSlots[i].mDisableTime \/
           (mSlots[i].mServerAddr = addr /\ mSlots'[i].mDisableTime = now)
  BY <1>1, <1>2 DEF DisableSlot, Slot
<1>4. \A a \in Addr : reportedAt[a] \in Int /\ reportedAt[a] <= now
  BY DEF IInv, TypeOK
<1>5. DisableTimesReported'
  <2>1. ASSUME NEW i \in DOMAIN mSlots
        PROVE  mSlots'[i].mDisableTime <= reportedAt'[mSlots'[i].mServerAddr]
    <3>1. mSlots[i].mServerAddr \in Addr /\ mSlots[i].mDisableTime \in Int
      BY <1>1 DEF Slot
    <3>2. mSlots[i].mDisableTime <= reportedAt[mSlots[i].mServerAddr]
      BY DEF IInv, DisableTimesReported
    <3>3. reportedAt'[mSlots[i].mServerAddr]
            = IF mSlots[i].mServerAddr = addr THEN now
              ELSE reportedAt[mSlots[i].mServerAddr]
      BY <3>1 DEF IInv, TypeOK
    <3> QED
      BY <1>2, <1>3, <1>4, <3>1, <3>2, <3>3
  <2> QED
    BY <1>3, <2>1 DEF DisableTimesReported
<1>6. SomeSlotUsable' /\ FewAddrsDisabled'
  <2>1. CASE CheckSlots(mSlots, addr)
    <3> DEFINE C == Covered(mSlots, addr)
               E == {j \in DOMAIN mSlots' : Disabled(mSlots[j])'}
    <3>1. E \in SUBSET C
      BY <1>3 DEF Disabled, WithinDisableTime, Covered
    <3>2. SomeSlotUsable'
      <4>1. PICK i \in DOMAIN mSlots : i \notin C
        BY <2>1 DEF CheckSlots, Covered
      <4> QED
        BY <1>3, <3>1, <4>1 DEF SomeSlotUsable
    <3>3. IsFiniteSet(C) /\ IsFiniteSet(E)
      <4>1. DOMAIN mSlots \subseteq SlotId
        BY <1>1 DEF SlotId, StreamUploadAssumption
      <4>2. IsFiniteSet(DOMAIN mSlots)
        BY <4>1, SizeType DEF StreamUploadAssumption
      <4>3. C \in SUBSET DOMAIN mSlots
        BY DEF Covered
      <4> QED
        BY <3>1, <4>2, <4>3, FS_Subset
    <3>4. \A i \in E : mSlots'[i].mServerAddr = mSlots[i].mServerAddr
      BY <1>3
    <3> HIDE DEF C, E
    <3>5. Cardinality({mSlots'[i].mServerAddr : i \in E})
            <= Cardinality({mSlots[i].mServerAddr : i \in C})
      BY <3>1, <3>3, <3>4, FewerAddrs
    <3>6. /\ Cardinality({mSlots'[i].mServerAddr : i \in E}) \in Int
          /\ Cardinality({mSlots[i].mServerAddr : i \in C}) \in Int
      BY <3>3, ImageFinite, FS_CardinalityType
    <3>7. Cardinality({mSlots[i].mServerAddr : i \in C}) <= AddrDisableMaxNum
      BY <2>1 DEF C, CheckSlots
    <3> QED
      BY <3>2, <3>5, <3>6, <3>7 DEF E, FewAddrsDisabled, StreamUploadAssumption
  <2>2. CASE ~ CheckSlots(mSlots, addr)
    BY <2>2 DEF DisableSlot, IInv, SomeSlotUsable, FewAddrsDisabled, Disabled,
       WithinDisableTime
  <2> QED
    BY <2>1, <2>2
<1> QED
  BY <1>3, <1>5, <1>6 DEF TableInv, IsTable

\* A complete table has the ids 0 .. n - 1, each with an address.
LEMMA CompleteTable ==
  ASSUME StreamUploadAssumption, NEW STATE table, NEW S \in SUBSET SlotId,
         table \in [S -> Addr \cup {NoAddr}], S # {},
         \A i \in 0 .. (Size(table) - 1) : Readable(table, i)
  PROVE  \E n \in 1 .. MaxSlots : table \in [0 .. (n - 1) -> Addr]
<1> DEFINE n == Size(table)
<1>1. IsFiniteSet(S) /\ n \in 0 .. MaxSlots /\ Cardinality(S) = n
  BY SizeType DEF StreamUploadAssumption, Size
<1>0. \A i \in 0 .. (n - 1) : Readable(table, i)
  OBVIOUS
<1> HIDE DEF n
<1>2. n # 0
  BY <1>1, FS_EmptySet
<1>3. Cardinality(0 .. (n - 1)) = n /\ 0 .. (n - 1) \in SUBSET S
  <2>1. DOMAIN table = S
    OBVIOUS
  <2>2. 0 .. (n - 1) \in SUBSET S
    BY <1>0, <2>1 DEF Readable
  <2>3. n - 1 \in Int /\ n \in Int /\ n >= 0
    BY <1>1
  <2>4. Cardinality(0 .. (n - 1)) = IF 0 > n - 1 THEN 0 ELSE n - 1 - 0 + 1
    BY <2>3, FS_Interval
  <2> QED
    BY <2>2, <2>3, <2>4, SMTT(30)
<1>4. S = 0 .. (n - 1)
  BY <1>1, <1>3, FS_Subset
<1>5. \A i \in 0 .. (n - 1) : table[i] \in Addr
  BY <1>3, <1>0 DEF Readable
<1> QED
  BY <1>1, <1>2, <1>4, <1>5

\* Loading a complete table: what is carried over passed CheckSlots.
LEMMA LoadCompleteInv ==
  ASSUME StreamUploadAssumption, IInv, NEW STATE table, NEW S \in SUBSET SlotId,
         table \in [S -> Addr \cup {NoAddr}], S # {}, LoadComplete(table),
         now' = now, reportedAt' = reportedAt
  PROVE  TableInv' /\ mCurrentSlot' \in SlotId
<1>1. PICK n \in 1 .. MaxSlots : table \in [0 .. (n - 1) -> Addr]
  BY CompleteTable DEF LoadComplete
<1>2. PICK kept \in SUBSET StillDisabled :
         /\ kept \subseteq {table[i] : i \in DOMAIN table}
         /\ KeepsAsMany(table, kept)
         /\ mSlots' = CarryOver(table, kept)
  BY DEF LoadComplete
<1>3. /\ DOMAIN mSlots' = 0 .. (n - 1)
      /\ \A i \in 0 .. (n - 1) :
           /\ mSlots'[i].mServerAddr = table[i]
           /\ mSlots'[i].mDisableTime =
                IF table[i] \in kept THEN DisableTimeOf(table[i]) ELSE -1
           /\ mSlots'[i] = [mServerAddr |-> mSlots'[i].mServerAddr,
                            mDisableTime |-> mSlots'[i].mDisableTime]
  BY <1>1, <1>2 DEF CarryOver
<1>4. ASSUME NEW a \in kept
      PROVE  /\ DisableTimeOf(a) \in Int
             /\ DisableTimeOf(a) <= reportedAt[a]
  <2> DEFINE i == CHOOSE j \in DOMAIN mSlots : IsLastSlotOf(j, a)
  <2>1. i \in DOMAIN mSlots /\ IsLastSlotOf(i, a)
    BY <1>4 DEF StillDisabled
  <2>2. mSlots[i] \in Slot
    BY <2>1 DEF IInv, TypeOK, IsTable
  <2> QED
    BY <2>1, <2>2 DEF DisableTimeOf, IsLastSlotOf, IInv, DisableTimesReported, Slot
<1>5. mSlots' \in [0 .. (n - 1) -> Slot]
  <2>1. ASSUME NEW i \in 0 .. (n - 1) PROVE mSlots'[i] \in Slot
    BY <1>1, <1>3, <1>4 DEF Slot
  <2>2. mSlots' = [i \in 0 .. (n - 1) |-> mSlots'[i]]
    BY <1>1, <1>2 DEF CarryOver
  <2> QED
    BY <2>1, <2>2
<1>6. DisableTimesReported'
  <2>1. ASSUME NEW i \in 0 .. (n - 1)
        PROVE  mSlots'[i].mDisableTime <= reportedAt'[mSlots'[i].mServerAddr]
    <3>1. table[i] \in Addr
      BY <1>1
    <3>2. reportedAt[table[i]] \in Int /\ -1 <= reportedAt[table[i]]
      BY <3>1 DEF IInv, TypeOK
    <3> QED
      BY <1>3, <1>4, <3>2
  <2> QED
    BY <1>3, <2>1 DEF DisableTimesReported
<1>7. SomeSlotUsable' /\ FewAddrsDisabled'
  <2>1. CASE kept = {}
    <3>1. \A i \in DOMAIN mSlots' : ~ Disabled(mSlots[i])'
      BY <1>3, <2>1 DEF Disabled
    <3>2. {j \in DOMAIN mSlots' : Disabled(mSlots[j])'} = {}
      BY <3>1
    <3>3. {mSlots'[i].mServerAddr :
             i \in {j \in DOMAIN mSlots' : Disabled(mSlots[j])'}} = {}
      BY <3>2
    <3>4. Cardinality({}) = 0
      BY FS_EmptySet
    <3>5. FewAddrsDisabled'
      <4>1. Cardinality({mSlots'[i].mServerAddr :
              i \in {j \in DOMAIN mSlots' : Disabled(mSlots[j])'}}) = 0
        BY <3>3, <3>4
      <4> QED
        BY <4>1 DEF FewAddrsDisabled, StreamUploadAssumption
    <3>6. SomeSlotUsable'
      BY <3>1 DEF SomeSlotUsable
    <3> QED
      BY <3>5, <3>6
  <2>2. CASE kept # {}
    <3>1. PICK a \in kept : CheckSlots(mSlots', a)
      BY <1>2, <2>2 DEF KeepsAsMany
    <3> DEFINE C == Covered(mSlots', a)
               E == {j \in DOMAIN mSlots' : Disabled(mSlots[j])'}
    <3>2. E \in SUBSET C
      BY DEF Disabled, WithinDisableTime, Covered
    <3>3. SomeSlotUsable'
      <4>1. PICK i \in DOMAIN mSlots' : i \notin C
        BY <3>1 DEF CheckSlots, Covered
      <4> QED
        BY <3>2, <4>1 DEF SomeSlotUsable
    <3>4. IsFiniteSet(C) /\ IsFiniteSet(E)
      <4>1. IsFiniteSet(DOMAIN mSlots')
        BY <1>3, FS_Interval
      <4>2. C \in SUBSET DOMAIN mSlots'
        BY DEF Covered
      <4> QED
        BY <3>2, <4>1, <4>2, FS_Subset
    <3> HIDE DEF C, E
    <3>5. Cardinality({mSlots'[i].mServerAddr : i \in E})
            <= Cardinality({mSlots'[i].mServerAddr : i \in C})
      <4>1. {mSlots'[i].mServerAddr : i \in E}
              \in SUBSET {mSlots'[i].mServerAddr : i \in C}
        BY <3>2
      <4>2. IsFiniteSet({mSlots'[i].mServerAddr : i \in C})
        BY <3>4, ImageFinite
      <4> QED
        BY <4>1, <4>2, FS_Subset
    <3>6. /\ Cardinality({mSlots'[i].mServerAddr : i \in E}) \in Int
          /\ Cardinality({mSlots'[i].mServerAddr : i \in C}) \in Int
      BY <3>4, ImageFinite, FS_CardinalityType
    <3>7. Cardinality({mSlots'[i].mServerAddr : i \in C}) <= AddrDisableMaxNum
      BY <3>1 DEF C, CheckSlots
    <3> QED
      BY <3>3, <3>5, <3>6, <3>7 DEF E, FewAddrsDisabled, StreamUploadAssumption
  <2> QED
    BY <2>1, <2>2
<1>8. mCurrentSlot' \in SlotId
  BY <1>1 DEF LoadComplete, SlotId, StreamUploadAssumption
<1> QED
  BY <1>5, <1>6, <1>7, <1>8 DEF TableInv, IsTable

\* A load that throws half way leaves a shorter table without disable times.
LEMMA LoadBrokenInv ==
  ASSUME StreamUploadAssumption, IInv, NEW STATE table, NEW S \in SUBSET SlotId,
         table \in [S -> Addr \cup {NoAddr}], LoadBroken(table),
         now' = now, reportedAt' = reportedAt
  PROVE  TableInv'
<1>1. Size(table) \in 0 .. MaxSlots
  BY SizeType DEF StreamUploadAssumption
<1>2. PICK k \in 0 .. (Size(table) - 1) :
         /\ \A i \in 0 .. (k - 1) : Readable(table, i)
         /\ mSlots' = [i \in 0 .. (k - 1) |-> NewSlot(table[i])]
  BY DEF LoadBroken
<1>3. \A i \in 0 .. (k - 1) : table[i] \in Addr
  BY <1>2 DEF Readable
<1>4. mSlots' \in [0 .. (k - 1) -> Slot]
  BY <1>2, <1>3 DEF NewSlot, Slot
<1>5. \A i \in DOMAIN mSlots' : ~ Disabled(mSlots[i])'
  BY <1>2 DEF NewSlot, Disabled
<1>6. SomeSlotUsable'
  BY <1>5 DEF SomeSlotUsable
<1>7. FewAddrsDisabled'
  <2>1. {j \in DOMAIN mSlots' : Disabled(mSlots[j])'} = {}
    BY <1>5
  <2>2. {mSlots'[i].mServerAddr :
           i \in {j \in DOMAIN mSlots' : Disabled(mSlots[j])'}} = {}
    BY <2>1
  <2>3. Cardinality({}) = 0
    BY FS_EmptySet
  <2> QED
    BY <2>2, <2>3 DEF FewAddrsDisabled, StreamUploadAssumption
<1>8. DisableTimesReported'
  BY <1>2, <1>3 DEF DisableTimesReported, NewSlot, IInv, TypeOK
<1> QED
  BY <1>1, <1>4, <1>6, <1>7, <1>8 DEF TableInv, IsTable, StreamUploadAssumption

-----------------------------------------------------------------------------
(* Every step keeps the invariant.                                         *)

\* The parts of TypeOK about the threads and about the server.
ThreadInv ==
  /\ pc \in [Thread -> Place]
  /\ slot \in [Thread -> [mSlotId : SlotId, mServerAddr : Addr \cup {NoAddr}]]
  /\ \A t \in Thread : pc[t] # "idle" => slot[t].mServerAddr \in Addr
  /\ answer \in [Thread -> [routed : Addr \cup {NoAddr}, slotNum : Nat]]
  /\ loaded \in [Thread -> ReloadTables]
  /\ forceReload \in [Thread -> BOOLEAN]

ServerInv ==
  /\ IsTable(serverSlots, Addr)
  /\ faults \in Nat

ReportInv ==
  /\ mCurrentSlot \in SlotId
  /\ mLastUpdate \in Int
  /\ now \in Nat /\ now >= Epoch
  /\ reportedAt \in [Addr -> Int]
  /\ \A a \in Addr : -1 <= reportedAt[a] /\ reportedAt[a] <= now

\* The parts make up the invariant.
LEMMA IInvParts == IInv <=> TableInv /\ ThreadInv /\ ServerInv /\ ReportInv
BY DEF IInv, TypeOK, TableInv, ThreadInv, ServerInv, ReportInv

\* The invariant after a step, from its parts.
LEMMA IInvNextParts ==
  ASSUME TableInv', ThreadInv', ServerInv', ReportInv'
  PROVE  IInv'
BY DEF IInv, TypeOK, TableInv, ThreadInv, ServerInv, ReportInv

\* A step that leaves the table, the clock and the reports alone.
LEMMA TableUnchanged ==
  ASSUME IInv, UNCHANGED <<tableVars, now, reportedAt>>
  PROVE  TableInv' /\ ReportInv'
BY IInvParts DEF TableInv, ReportInv, tableVars, IsTable, SomeSlotUsable,
   FewAddrsDisabled, DisableTimesReported, Disabled, WithinDisableTime

\* A step that leaves the table of the server alone.
LEMMA ServerUnchanged ==
  ASSUME IInv, UNCHANGED serverSlots, faults' = faults \/ Fault
  PROVE  ServerInv'
BY IInvParts DEF ServerInv, IsTable, Fault

\* Moving a thread that is not idle, and leaving OnWriteRecordPack.
LEMMA GotoThread ==
  ASSUME IInv, NEW t \in Thread, pc[t] # "idle", NEW place \in Place,
         Goto(t, place), UNCHANGED <<slot, answer, forceReload>>,
         loaded' \in [Thread -> ReloadTables]
  PROVE  ThreadInv'
BY IInvParts DEF ThreadInv, Goto, Place

\* A thread that returns to its caller forgets what it had got.
LEMMA LeaveThread ==
  ASSUME StreamUploadAssumption, IInv, NEW t \in Thread, Leave(t)
  PROVE  ThreadInv'
<1>1. NoSlot \in [mSlotId : SlotId, mServerAddr : Addr \cup {NoAddr}]
  BY DEF NoSlot, SlotId, StreamUploadAssumption
<1>2. NoAnswer \in [routed : Addr \cup {NoAddr}, slotNum : Nat]
  BY DEF NoAnswer
<1>3. pc' \in [Thread -> Place] /\ pc'[t] = "idle"
      /\ \A u \in Thread : pc'[u] # "idle" => u # t /\ pc[u] # "idle"
  BY IInvParts DEF ThreadInv, Leave, Goto, Place
<1>4. slot' \in [Thread -> [mSlotId : SlotId, mServerAddr : Addr \cup {NoAddr}]]
      /\ \A u \in Thread \ {t} : slot'[u] = slot[u]
  BY <1>1, IInvParts DEF ThreadInv, Leave
<1> QED
  BY <1>1, <1>2, <1>3, <1>4, NoTableType, IInvParts DEF ThreadInv, Leave

\* A thread goes on after ReloadSlots, or returns when it was forced.
LEMMA AfterReloadThread ==
  ASSUME StreamUploadAssumption, IInv, NEW t \in Thread, pc[t] # "idle",
         AfterReload(t)
  PROVE  ThreadInv'
<1>1. CASE forceReload[t]
  BY <1>1, LeaveThread DEF AfterReload
<1>2. CASE ~ forceReload[t]
  <2>1. loaded' \in [Thread -> ReloadTables]
    BY <1>2, NoTableType, IInvParts DEF AfterReload, ThreadInv
  <2> QED
    BY <1>2, <2>1, GotoThread, "disable" \in Place DEF AfterReload, Place
<1> QED
  BY <1>1, <1>2

\* The steps of a writer thread.
LEMMA WriteStepInv ==
  ASSUME StreamUploadAssumption, IInv, NEW t \in Thread, WriteStep(t)
  PROVE  IInv'
<1>1. CASE StartWrite(t)
  <2>1. PICK c \in DOMAIN mSlots :
          /\ mCurrentSlot' = c
          /\ slot' = [slot EXCEPT ![t] = [mSlotId |-> c,
                                          mServerAddr |-> mSlots[c].mServerAddr]]
    BY <1>1 DEF StartWrite
  <2>2. c \in SlotId /\ mSlots[c].mServerAddr \in Addr
    BY IInvParts DEF TableInv, IsTable, Slot, SlotId, StreamUploadAssumption
  <2>3. TableInv'
    BY <1>1, IInvParts DEF StartWrite, TableInv, IsTable, SomeSlotUsable,
       FewAddrsDisabled, DisableTimesReported, Disabled, WithinDisableTime
  <2>4. ReportInv'
    BY <1>1, <2>1, <2>2, IInvParts DEF StartWrite, ReportInv
  <2>5. ThreadInv'
    <3>1. slot' \in [Thread -> [mSlotId : SlotId, mServerAddr : Addr \cup {NoAddr}]]
      BY <2>1, <2>2, IInvParts DEF ThreadInv
    <3>2. pc' \in [Thread -> Place]
      BY <1>1, IInvParts DEF StartWrite, Goto, Place, ThreadInv
    <3>3. \A u \in Thread : pc'[u] # "idle" => slot'[u].mServerAddr \in Addr
      <4>1. slot'[t].mServerAddr \in Addr
        BY <2>1, <2>2, IInvParts DEF ThreadInv
      <4>2. \A u \in Thread \ {t} : pc'[u] = pc[u] /\ slot'[u] = slot[u]
        BY <1>1, <2>1, IInvParts DEF StartWrite, Goto, ThreadInv
      <4> QED
        BY <4>1, <4>2, IInvParts DEF ThreadInv
    <3> QED
      BY <1>1, <3>1, <3>2, <3>3, IInvParts DEF StartWrite, ThreadInv
  <2>6. ServerInv'
    BY <1>1, ServerUnchanged DEF StartWrite, serverVars
  <2> QED
    BY <2>3, <2>4, <2>5, <2>6, IInvNextParts
<1>2. CASE StartWriteOnEmptyTable(t)
  <2>1. ThreadInv'
    BY <1>2, IInvParts DEF StartWriteOnEmptyTable, vars, threadVars, ThreadInv
  <2>2. TableInv' /\ ReportInv' /\ ServerInv'
    BY <1>2, TableUnchanged, ServerUnchanged
    DEF StartWriteOnEmptyTable, vars, serverVars
  <2> QED
    BY <2>1, <2>2, IInvNextParts
<1>3. CASE WriteSucceeds(t) \/ WriteSucceedsUnrouted(t)
  <2>1. TableInv' /\ ReportInv' /\ ServerInv'
    BY <1>3, TableUnchanged, ServerUnchanged
    DEF WriteSucceeds, WriteSucceedsUnrouted, serverVars
  <2>2. Size(serverSlots) \in Nat
    <3>1. PICK n \in 0 .. MaxSlots : serverSlots \in [0 .. (n - 1) -> Addr]
      BY IInvParts DEF ServerInv, IsTable
    <3>2. DOMAIN serverSlots = 0 .. (n - 1) /\ n \in Nat
      BY <3>1 DEF StreamUploadAssumption
    <3> QED
      BY <3>2, TableSize
  <2>3. answer' \in [Thread -> [routed : Addr \cup {NoAddr}, slotNum : Nat]]
    <3>1. PICK a \in Addr \cup {NoAddr} :
             answer' = [answer EXCEPT ![t] = [routed |-> a,
                                              slotNum |-> Size(serverSlots)]]
      BY <1>3, IInvParts
      DEF WriteSucceeds, WriteSucceedsUnrouted, ServerInv, IsTable
    <3> QED
      BY <2>2, <3>1, IInvParts DEF ThreadInv
  <2>4. ThreadInv'
    BY <1>3, <2>3, IInvParts
    DEF WriteSucceeds, WriteSucceedsUnrouted, ThreadInv, Goto, Place
  <2> QED
    BY <2>1, <2>4, IInvNextParts
<1>4. CASE WriteFailsAtGateway(t)
  <2>1. TableInv' /\ ReportInv' /\ ServerInv'
    BY <1>4, TableUnchanged, ServerUnchanged DEF WriteFailsAtGateway
  <2>2. ThreadInv'
    BY <1>4, GotoThread, IInvParts
    DEF WriteFailsAtGateway, Place, ThreadInv
  <2> QED
    BY <2>1, <2>2, IInvNextParts
<1>5. CASE WriteRefused(t) \/ WriteFailsOtherwise(t)
  <2>1. TableInv' /\ ReportInv' /\ ServerInv'
    BY <1>5, TableUnchanged, ServerUnchanged
    DEF WriteRefused, WriteFailsOtherwise, serverVars
  <2>2. ThreadInv'
    BY <1>5, LeaveThread DEF WriteRefused, WriteFailsOtherwise
  <2> QED
    BY <2>1, <2>2, IInvNextParts
<1>6. CASE CompareSlotNum(t) \/ MaybeReload(t)
  <2>1. TableInv' /\ ReportInv' /\ ServerInv'
    BY <1>6, TableUnchanged, ServerUnchanged
    DEF CompareSlotNum, MaybeReload, serverVars
  <2>2. PICK place \in Place \ {"idle"} : Goto(t, place)
    BY <1>6 DEF CompareSlotNum, MaybeReload, Place
  <2>3. forceReload' \in [Thread -> BOOLEAN]
    BY <1>6, IInvParts DEF CompareSlotNum, MaybeReload, ThreadInv
  <2>4. pc[t] # "idle" /\ UNCHANGED <<slot, answer, loaded>>
    BY <1>6 DEF CompareSlotNum, MaybeReload
  <2>5. ThreadInv'
    BY <2>2, <2>3, <2>4, IInvParts DEF Goto, ThreadInv
  <2> QED
    BY <2>1, <2>5, IInvNextParts
<1>7. CASE UpdateRoutedSlot(t)
  <2>1. slot[t].mSlotId \in SlotId /\ answer[t].routed \in Addr \cup {NoAddr}
    BY IInvParts DEF ThreadInv
  <2>2. TableInv'
    BY <1>7, <2>1, UpdateSlotInv DEF UpdateRoutedSlot
  <2>3. ThreadInv' /\ ReportInv' /\ ServerInv'
    BY <1>7, LeaveThread, ServerUnchanged, IInvParts
    DEF UpdateRoutedSlot, ReportInv, serverVars
  <2> QED
    BY <2>2, <2>3, IInvNextParts
<1>8. CASE ReloadAnswered(t) \/ ReloadAnsweredBroken(t)
  <2>1. TableInv' /\ ReportInv' /\ ServerInv'
    BY <1>8, TableUnchanged, ServerUnchanged
    DEF ReloadAnswered, ReloadAnsweredBroken, serverVars
  <2>2. PICK n \in 0 .. MaxSlots : serverSlots \in [0 .. (n - 1) -> Addr]
    BY IInvParts DEF ServerInv, IsTable
  <2>3. 0 .. (n - 1) \subseteq SlotId
    BY <2>2 DEF SlotId, StreamUploadAssumption
  <2>4. serverSlots \in ReloadTables
    <3>1. serverSlots \in [0 .. (n - 1) -> Addr \cup {NoAddr}]
      BY <2>2
    <3> QED
      BY <2>3, <3>1 DEF ReloadTables
  <2>5. BrokenTables \subseteq ReloadTables
    <3>1. ASSUME NEW i \in DOMAIN serverSlots
          PROVE  [j \in DOMAIN serverSlots \ {i} |-> serverSlots[j]] \in ReloadTables
      <4>1. [j \in DOMAIN serverSlots \ {i} |-> serverSlots[j]]
              \in [DOMAIN serverSlots \ {i} -> Addr \cup {NoAddr}]
        BY <2>2
      <4>2. DOMAIN serverSlots \ {i} \in SUBSET SlotId
        BY <2>2, <2>3
      <4> QED
        BY <4>1, <4>2 DEF ReloadTables
    <3>2. ASSUME NEW i \in DOMAIN serverSlots
          PROVE  [serverSlots EXCEPT ![i] = NoAddr] \in ReloadTables
      <4>1. [serverSlots EXCEPT ![i] = NoAddr] \in [0 .. (n - 1) -> Addr \cup {NoAddr}]
        BY <2>2
      <4> QED
        BY <2>3, <4>1 DEF ReloadTables
    <3> QED
      BY <3>1, <3>2, NoTableType DEF BrokenTables
  <2>6. loaded' \in [Thread -> ReloadTables]
    <3>1. PICK table \in ReloadTables : loaded' = [loaded EXCEPT ![t] = table]
      BY <1>8, <2>4, <2>5 DEF ReloadAnswered, ReloadAnsweredBroken
    <3> QED
      BY <3>1, IInvParts DEF ThreadInv
  <2>7. ThreadInv'
    BY <1>8, <2>6, GotoThread, "loadSlots" \in Place
    DEF ReloadAnswered, ReloadAnsweredBroken, Place
  <2> QED
    BY <2>1, <2>7, IInvNextParts
<1>9. CASE ReloadFails(t)
  <2>1. TableInv' /\ ReportInv' /\ ServerInv'
    BY <1>9, TableUnchanged, ServerUnchanged DEF ReloadFails
  <2>2. ThreadInv'
    BY <1>9, AfterReloadThread DEF ReloadFails
  <2> QED
    BY <2>1, <2>2, IInvNextParts
<1>10. CASE LoadReloaded(t)
  <2>1. ThreadInv' /\ ServerInv' /\ now' = now /\ reportedAt' = reportedAt
    BY <1>10, AfterReloadThread, ServerUnchanged DEF LoadReloaded, serverVars
  <2>2. PICK S \in SUBSET SlotId : loaded[t] \in [S -> Addr \cup {NoAddr}]
    BY IInvParts DEF ThreadInv, ReloadTables
  <2>3. CASE LoadEmpty(loaded[t])
    BY <2>1, <2>3, TableUnchanged, IInvNextParts DEF LoadEmpty
  <2>4. CASE DOMAIN loaded[t] # {} /\ LoadComplete(loaded[t])
    <3>1. TableInv' /\ mCurrentSlot' \in SlotId
      BY <2>1, <2>2, <2>4, LoadCompleteInv
    <3>2. ReportInv'
      BY <2>1, <2>4, <3>1, IInvParts DEF LoadComplete, ReportInv
    <3> QED
      BY <2>1, <3>1, <3>2, IInvNextParts
  <2>5. CASE LoadBroken(loaded[t])
    <3>1. TableInv'
      BY <2>1, <2>2, <2>5, LoadBrokenInv
    <3>2. ReportInv'
      BY <2>1, <2>5, IInvParts DEF LoadBroken, ReportInv
    <3> QED
      BY <2>1, <3>1, <3>2, IInvNextParts
  <2> QED
    BY <1>10, <2>3, <2>4, <2>5 DEF LoadReloaded, LoadSlots
<1>11. CASE DisableServer(t)
  <2>1. slot[t].mServerAddr \in Addr
    BY <1>11, IInvParts DEF DisableServer, ThreadInv
  <2>2. TableInv'
    BY <1>11, <2>1, DisableSlotInv DEF DisableServer
  <2>3. ReportInv'
    BY <1>11, <2>1, IInvParts DEF DisableServer, ReportInv
  <2>4. ThreadInv' /\ ServerInv'
    BY <1>11, LeaveThread, ServerUnchanged DEF DisableServer, serverVars
  <2> QED
    BY <2>2, <2>3, <2>4, IInvNextParts
<1> QED
  BY <1>1, <1>2, <1>3, <1>4, <1>5, <1>6, <1>7, <1>8, <1>9, <1>10, <1>11
  DEF WriteStep

\* The steps of the environment.
LEMMA ServerMovesSlotsInv ==
  ASSUME StreamUploadAssumption, IInv, ServerMovesSlots
  PROVE  IInv'
<1>1. TableInv' /\ ReportInv'
  BY TableUnchanged DEF ServerMovesSlots
<1>2. ThreadInv'
  BY IInvParts DEF ServerMovesSlots, threadVars, ThreadInv
<1>3. ServerInv'
  <2>1. PICK n \in 0 .. MaxSlots : serverSlots \in [0 .. (n - 1) -> Addr]
    BY IInvParts DEF ServerInv, IsTable
  <2>2. Size(serverSlots) = n /\ n \in Nat
    BY <2>1, TableSize DEF StreamUploadAssumption
  <2>3. faults' \in Nat
    BY IInvParts DEF ServerMovesSlots, Fault, ServerInv
  <2>4. IsTable(serverSlots, Addr)'
    <3>1. CASE \E i \in DOMAIN serverSlots : \E a \in Addr \ {serverSlots[i]} :
                 serverSlots' = [serverSlots EXCEPT ![i] = a]
      BY <2>1, <3>1 DEF IsTable
    <3>2. CASE /\ n < MaxSlots
               /\ \E a \in Addr :
                    serverSlots' = [i \in 0 .. n |-> IF i = n THEN a ELSE serverSlots[i]]
      <4>1. serverSlots' \in [0 .. ((n + 1) - 1) -> Addr]
        BY <2>1, <2>2, <3>2
      <4> QED
        BY <2>2, <3>2, <4>1 DEF IsTable, StreamUploadAssumption
    <3>3. CASE n > 1 /\ serverSlots' = [i \in 0 .. (n - 2) |-> serverSlots[i]]
      <4>1. serverSlots' \in [0 .. ((n - 1) - 1) -> Addr]
        BY <2>1, <2>2, <3>3
      <4> QED
        BY <2>1, <2>2, <3>3, <4>1 DEF IsTable, StreamUploadAssumption
    <3> QED
      BY <2>2, <3>1, <3>2, <3>3 DEF ServerMovesSlots
  <2> QED
    BY <2>3, <2>4 DEF ServerInv
<1> QED
  BY <1>1, <1>2, <1>3, IInvNextParts

\* Time that passes only ends the waiting of disabled slots.
LEMMA TickInv ==
  ASSUME StreamUploadAssumption, IInv, Tick
  PROVE  IInv'
<1>1. now \in Int /\ now' = now + 1 /\ mSlots' = mSlots
      /\ mCurrentSlot' = mCurrentSlot /\ mLastUpdate' = mLastUpdate
      /\ reportedAt' = reportedAt
  BY IInvParts DEF Tick, tableVars, ReportInv
<1>2. ASSUME NEW i \in DOMAIN mSlots, Disabled(mSlots[i])'
      PROVE  /\ Disabled(mSlots[i])
             /\ mSlots'[i].mServerAddr = mSlots[i].mServerAddr
  <2>1. mSlots[i].mDisableTime \in Int
    BY IInvParts DEF TableInv, IsTable, Slot
  <2> QED
    BY <1>1, <1>2, <2>1 DEF Disabled, WithinDisableTime, StreamUploadAssumption
<1>3. SomeSlotUsable' /\ FewAddrsDisabled'
  BY <1>1, <1>2, FewerDisabled DEF IInv
<1>4. TableInv'
  BY <1>1, <1>3, IInvParts DEF TableInv, IsTable, DisableTimesReported
<1>5. ReportInv'
  BY <1>1, IInvParts DEF ReportInv, StreamUploadAssumption
<1>6. ThreadInv' /\ ServerInv'
  BY ServerUnchanged, IInvParts DEF Tick, threadVars, serverVars, ThreadInv
<1> QED
  BY <1>4, <1>5, <1>6, IInvNextParts

\* Nothing happens.
LEMMA StutterInv ==
  ASSUME IInv, UNCHANGED vars
  PROVE  IInv'
<1>1. TableInv' /\ ReportInv' /\ ServerInv'
  BY TableUnchanged, ServerUnchanged DEF vars, serverVars
<1>2. ThreadInv'
  BY IInvParts DEF vars, threadVars, ThreadInv
<1> QED
  BY <1>1, <1>2, IInvNextParts

\* The invariant of every behaviour of the session.
THEOREM Invariance == Spec => []IInv
<1>1. Init => IInv
  BY StreamUploadAssumption, InitIInv
<1>2. IInv /\ [Next]_vars => IInv'
  BY StreamUploadAssumption, WriteStepInv, ServerMovesSlotsInv, TickInv, StutterInv
  DEF Next
<1> QED
  BY <1>1, <1>2, PTL DEF Spec

-----------------------------------------------------------------------------
(* The results.                                                            *)

\* Every variable keeps its type: slot ids stay contiguous from 0, no slot
\* ever has an empty address, and a thread that writes has an address to
\* blame.
THEOREM TypeCorrect == Spec => []TypeOK
<1>1. IInv => TypeOK
  BY DEF IInv
<1> QED
  BY <1>1, Invariance, PTL

\* Any number of writers, slots and addresses: the loop of NextSlot always
\* finds a usable slot, so it never spins with mLock held.
THEOREM NextSlotNeverSpins == Spec => []SomeSlotUsable
<1>1. IInv => SomeSlotUsable
  BY DEF IInv
<1> QED
  BY <1>1, Invariance, PTL

\* The cap of CheckSlots on disabled addresses holds in every state, although
\* it is only checked when an address is disabled or carried over.
THEOREM DisabledAddrsCapped == Spec => []FewAddrsDisabled
<1>1. IInv => FewAddrsDisabled
  BY DEF IInv
<1> QED
  BY <1>1, Invariance, PTL

\* A server is out of use only because of its own, recent gateway error.
THEOREM NoUnreportedDisable == Spec => []DisabledOnlyIfReported
<1>1. ASSUME IInv PROVE DisabledOnlyIfReported
  <2>1. ASSUME NEW i \in DOMAIN mSlots, Disabled(mSlots[i])
        PROVE  WithinDisableTime(reportedAt[mSlots[i].mServerAddr])
    <3>1. mSlots[i].mDisableTime \in Int /\ mSlots[i].mServerAddr \in Addr
      BY <1>1, IInvParts DEF TableInv, IsTable, Slot
    <3>2. mSlots[i].mDisableTime <= reportedAt[mSlots[i].mServerAddr]
      BY <1>1 DEF IInv, DisableTimesReported
    <3>3. reportedAt[mSlots[i].mServerAddr] \in Int /\ now \in Int
      BY <1>1, <3>1, IInvParts DEF ReportInv
    <3> QED
      BY <2>1, <3>1, <3>2, <3>3, StreamUploadAssumption
      DEF Disabled, WithinDisableTime
  <2> QED
    BY <2>1 DEF DisabledOnlyIfReported
<1>2. IInv => DisabledOnlyIfReported
  BY <1>1
<1> QED
  BY <1>2, Invariance, PTL

=============================================================================
