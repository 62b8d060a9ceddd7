---------------------------- MODULE StreamUpload ----------------------------
(***************************************************************************)
(* The stream upload session of tunnel/stream_upload.cpp.  A session keeps *)
(* a table of slots, each the address of the tunnel server that serves it. *)
(* Writer threads share the table: a write takes the next usable slot      *)
(* round robin, sends a record pack to it, and then repairs the table from *)
(* the answer.  A 502 or 504 disables every slot of the address that       *)
(* answered it for SLOT_DISABLE_TIME seconds; a success re-routes the slot *)
(* to the server that really handled it; a slot count that differs from    *)
(* the table's makes the thread reload the whole table.                    *)
(*                                                                         *)
(* A method body under mLock is one action: no body blocks or leaves the   *)
(* lock in the middle, except the loop of NextSlot, which spins with the   *)
(* lock held while every slot is disabled.  A request and its answer are   *)
(* separate actions, so anything may happen to the table between them.     *)
(***************************************************************************)
EXTENDS Integers, FiniteSets

CONSTANTS
  Thread,             \* writer threads, each with a pack of its own
  Addr,               \* server addresses
  NoAddr,             \* the empty string where an address is expected
  MaxSlots,           \* most slots the server ever hands out (a bound)
  SlotDisableTime,    \* SLOT_DISABLE_TIME
  AddrDisableMaxNum,  \* ADDR_DISABLE_MAX_NUM
  ReloadInterval,     \* the 30 seconds of Reload(false)
  Epoch,              \* the clock when the session is created
  MaxClock,           \* where the modelled clock stops (a bound)
  FaultsUntil,        \* faults happen only before this time (a bound)
  MaxFaults,          \* how many faults happen (a bound)
  BadMaps             \* whether a reload may be answered with a broken table

ASSUME StreamUploadAssumption ==
  /\ NoAddr \notin Addr
  /\ MaxSlots \in Nat \ {0}
  /\ SlotDisableTime \in Nat \ {0}
  /\ AddrDisableMaxNum \in Nat
  /\ ReloadInterval \in Nat
  /\ Epoch \in Nat /\ Epoch >= SlotDisableTime
  /\ MaxClock \in Nat /\ Epoch <= MaxClock
  /\ FaultsUntil \in Nat
  /\ MaxFaults \in Nat
  /\ BadMaps \in BOOLEAN

VARIABLES
  mSlots,        \* the slot table: slot id |-> address and disable time
  mCurrentSlot,  \* where the round robin stands
  mLastUpdate,   \* when the table was last loaded
  now,           \* the wall clock, in seconds
  pc,            \* where each thread is in OnWriteRecordPack
  slot,          \* each thread's copy of the slot it writes to
  answer,        \* the headers of a successful write
  loaded,        \* the table of a reload's answer
  forceReload,   \* the argument of the Reload a thread runs
  serverSlots,   \* the table the server would hand out now
  faults,        \* errors, bad answers and moved slots so far
  reportedAt     \* ghost: when DisableSlot was last called for an address

tableVars  == <<mSlots, mCurrentSlot, mLastUpdate>>
threadVars == <<pc, slot, answer, loaded, forceReload>>
serverVars == <<serverSlots, faults>>
vars == <<tableVars, now, threadVars, serverVars, reportedAt>>

-----------------------------------------------------------------------------
(* Slots.                                                                  *)

SlotId == 0 .. (MaxSlots - 1)

\* Slot: mSlotId is the index, and mServerIp a part of mServerAddr.
Slot == [mServerAddr : Addr, mDisableTime : Int]

NewSlot(addr) == [mServerAddr |-> addr, mDisableTime |-> -1]

IsTable(f, S) == \E n \in 0 .. MaxSlots : f \in [0 .. (n - 1) -> S]

\* What a reload may be answered with: ids may be missing, addresses empty.
ReloadTables == UNION {[S -> Addr \cup {NoAddr}] : S \in SUBSET SlotId}

ServerTables == UNION {[0 .. (n - 1) -> Addr] : n \in 1 .. MaxSlots}

Size(table) == Cardinality(DOMAIN table)

Addresses(table) == [i \in DOMAIN table |-> table[i].mServerAddr]

\* The comparison of CheckSlots and LoadSlots.  With mDisableTime = -1 it is
\* false because the clock is past SLOT_DISABLE_TIME.
WithinDisableTime(time) == now - time < SlotDisableTime

\* The condition NextSlot skips a slot on.
Disabled(s) == s.mDisableTime # -1 /\ WithinDisableTime(s.mDisableTime)

\* What would be out of use if addr were: the slots CheckSlots counts.
Covered(slots, addr) ==
  {i \in DOMAIN slots : \/ WithinDisableTime(slots[i].mDisableTime)
                        \/ slots[i].mServerAddr = addr}

CheckSlotsLastOne(slots, addr) ==
  LET covered == Covered(slots, addr)
  IN  Cardinality({slots[i].mServerAddr : i \in covered}) <= AddrDisableMaxNum

CheckSlotsUncapped(slots, addr) == Covered(slots, addr) # DOMAIN slots

\* CheckSlots: may addr be disabled?  A slot must stay usable and no more
\* than ADDR_DISABLE_MAX_NUM addresses may be out of use.
CheckSlots(slots, addr) ==
  LET covered == Covered(slots, addr)
  IN  /\ covered # DOMAIN slots
      /\ Cardinality({slots[i].mServerAddr : i \in covered}) <= AddrDisableMaxNum

-----------------------------------------------------------------------------
(* The operations on the table, each under mLock.                          *)

\* addrDisableTimeMap of LoadSlots: the last slot of an address wins.
IsLastSlotOf(i, addr) ==
  /\ mSlots[i].mServerAddr = addr
  /\ \A j \in DOMAIN mSlots : mSlots[j].mServerAddr = addr => j <= i

DisableTimeOf(addr) ==
  mSlots[CHOOSE i \in DOMAIN mSlots : IsLastSlotOf(i, addr)].mDisableTime

\* The addresses whose disable time LoadSlots tries to carry over.
StillDisabled ==
  {addr \in Addr : /\ \E i \in DOMAIN mSlots : IsLastSlotOf(i, addr)
                   /\ WithinDisableTime(DisableTimeOf(addr))}

CarryOverRefreshed(table, kept) ==
  [i \in DOMAIN table |->
     [mServerAddr  |-> table[i],
      mDisableTime |-> IF table[i] \in kept THEN now ELSE -1]]

\* The new table, with the disable times of the addresses in kept.
CarryOver(table, kept) ==
  [i \in DOMAIN table |->
     [mServerAddr  |-> table[i],
      mDisableTime |-> IF table[i] \in kept THEN DisableTimeOf(table[i]) ELSE -1]]

\* The loop over addrDisableTimeMap restores an address if CheckSlots still
\* allows it; which ones depends on the order of their names.  Whatever the
\* order, the result is a set that CheckSlots accepts and that no further
\* address can join.
KeepsAsMany(table, kept) ==
  /\ \A addr \in kept : CheckSlots(CarryOver(table, kept), addr)
  /\ \A addr \in StillDisabled \ kept :
       (\E i \in DOMAIN table : table[i] = addr)
          => ~ CheckSlots(CarryOver(table, kept), addr)

\* slots.at(i), and the check of the Slot constructor.
Readable(table, i) == i \in DOMAIN table /\ table[i] # NoAddr

LoadComplete(table) ==
  /\ \A i \in 0 .. (Size(table) - 1) : Readable(table, i)
  /\ \E kept \in SUBSET StillDisabled :
       /\ kept \subseteq {table[i] : i \in DOMAIN table}
       /\ KeepsAsMany(table, kept)
       /\ mSlots' = CarryOver(table, kept)
  /\ mCurrentSlot' \in DOMAIN table
  /\ mLastUpdate' = now

\* "Slot not found" or "Invalid server address" is thrown at slot k, when the
\* old table is cleared and the new one half filled.
LoadBroken(table) ==
  /\ \E k \in 0 .. (Size(table) - 1) :
       /\ \A i \in 0 .. (k - 1) : Readable(table, i)
       /\ ~ Readable(table, k)
       /\ mSlots' = [i \in 0 .. (k - 1) |-> NewSlot(table[i])]
  /\ UNCHANGED <<mCurrentSlot, mLastUpdate>>

\* "Empty slot map" is thrown before anything is touched.
LoadEmpty(table) ==
  /\ DOMAIN table = {}
  /\ UNCHANGED tableVars

LoadSlots(table) ==
  \/ LoadEmpty(table)
  \/ DOMAIN table # {} /\ LoadComplete(table)
  \/ DOMAIN table # {} /\ LoadBroken(table)

\* The first usable slot after mCurrentSlot, round robin.
IsNextSlot(c) ==
  LET at(k) == (mCurrentSlot + k) % Size(mSlots)
  IN  \E k \in 1 .. Size(mSlots) :
        /\ c = at(k)
        /\ ~ Disabled(mSlots[c])
        /\ \A j \in 1 .. (k - 1) : Disabled(mSlots[at(j)])

\* DisableSlot: every slot of the address, if CheckSlots allows it.
DisableSlot(addr) ==
  mSlots' = IF CheckSlots(mSlots, addr)
            THEN [i \in DOMAIN mSlots |->
                    IF mSlots[i].mServerAddr = addr
                    THEN [mSlots[i] EXCEPT !.mDisableTime = now]
                    ELSE mSlots[i]]
            ELSE mSlots

UpdateSlotUnchecked(id, addr) ==
  mSlots' = IF id \in DOMAIN mSlots /\ mSlots[id].mServerAddr # addr
            THEN [mSlots EXCEPT ![id] = NewSlot(addr)] ELSE mSlots

\* UpdateSlot(id, addr): an id out of range is ignored, an empty address
\* makes the Slot constructor throw, and both leave the table alone.
UpdateSlot(id, addr) ==
  mSlots' = IF /\ id \in DOMAIN mSlots
               /\ addr # NoAddr
               /\ mSlots[id].mServerAddr # addr
            THEN [mSlots EXCEPT ![id] = NewSlot(addr)] ELSE mSlots

-----------------------------------------------------------------------------
(* OnWriteRecordPack, step by step.                                        *)

Goto(t, place) == pc' = [pc EXCEPT ![t] = place]

\* The values of the locals while they are out of scope.
NoSlot   == [mSlotId |-> 0, mServerAddr |-> NoAddr]
NoAnswer == [routed |-> NoAddr, slotNum |-> 0]
NoTable  == [i \in {} |-> NoAddr]

\* OnWriteRecordPack returns or throws: its locals are gone.
Leave(t) ==
  /\ Goto(t, "idle")
  /\ slot' = [slot EXCEPT ![t] = NoSlot]
  /\ answer' = [answer EXCEPT ![t] = NoAnswer]
  /\ loaded' = [loaded EXCEPT ![t] = NoTable]
  /\ forceReload' = [forceReload EXCEPT ![t] = FALSE]

\* Something of the environment goes wrong or changes.
Fault ==
  /\ now < FaultsUntil
  /\ faults < MaxFaults
  /\ faults' = faults + 1

\* NextSlot, then the request is sent with a copy of the slot.
StartWrite(t) ==
  /\ pc[t] = "idle"
  /\ \E c \in DOMAIN mSlots :
       /\ IsNextSlot(c)
       /\ mCurrentSlot' = c
       /\ slot' = [slot EXCEPT ![t] = [mSlotId |-> c,
                                       mServerAddr |-> mSlots[c].mServerAddr]]
  /\ Goto(t, "sent")
  /\ UNCHANGED <<mSlots, mLastUpdate, now, answer, loaded, forceReload,
                 serverVars, reportedAt>>

\* "Empty slot map": NextSlot throws, the write fails, nothing changes.
StartWriteOnEmptyTable(t) ==
  /\ pc[t] = "idle"
  /\ DOMAIN mSlots = {}
  /\ UNCHANGED vars

\* The server takes the pack and names the server that handled it and the
\* number of slots it has now.  A slot it no longer has is refused.
WriteSucceeds(t) ==
  /\ pc[t] = "sent"
  /\ slot[t].mSlotId \in DOMAIN serverSlots
  /\ answer' = [answer EXCEPT ![t] =
                  [routed  |-> serverSlots[slot[t].mSlotId],
                   slotNum |-> Size(serverSlots)]]
  /\ Goto(t, "succeeded")
  /\ UNCHANGED <<tableVars, now, slot, loaded, forceReload, serverVars,
                 reportedAt>>

\* A success without the routed server header.
WriteSucceedsUnrouted(t) ==
  /\ pc[t] = "sent"
  /\ Fault
  /\ answer' = [answer EXCEPT ![t] = [routed  |-> NoAddr,
                                      slotNum |-> Size(serverSlots)]]
  /\ Goto(t, "succeeded")
  /\ UNCHANGED <<tableVars, now, slot, loaded, forceReload, serverSlots,
                 reportedAt>>

\* 502 or 504.
WriteFailsAtGateway(t) ==
  /\ pc[t] = "sent"
  /\ Fault
  /\ Goto(t, "gatewayError")
  /\ UNCHANGED <<tableVars, now, slot, answer, loaded, forceReload,
                 serverSlots, reportedAt>>

WriteRefused(t) ==
  /\ pc[t] = "sent"
  /\ slot[t].mSlotId \notin DOMAIN serverSlots
  /\ Leave(t)
  /\ UNCHANGED <<tableVars, now, serverVars, reportedAt>>

\* Any other error, an exception of the connection, or a slot number header
\* that is not a number: the table is left alone.
WriteFailsOtherwise(t) ==
  /\ pc[t] = "sent"
  /\ Fault
  /\ Leave(t)
  /\ UNCHANGED <<tableVars, now, serverSlots, reportedAt>>

SlotNumGrew(t) == answer[t].slotNum > Size(mSlots)

SlotNumDiffers(t) == answer[t].slotNum # Size(mSlots)

\* UpdateSlot(id, addr, slotNum) reads the size under the lock and gives the
\* lock up before it acts on what it read.
CompareSlotNum(t) ==
  /\ pc[t] = "succeeded"
  /\ IF SlotNumDiffers(t)
     THEN /\ Goto(t, "reload")
          /\ forceReload' = [forceReload EXCEPT ![t] = TRUE]
     ELSE /\ Goto(t, "updateSlot")
          /\ UNCHANGED forceReload
  /\ UNCHANGED <<tableVars, now, slot, answer, loaded, serverVars, reportedAt>>

UpdateRoutedSlot(t) ==
  /\ pc[t] = "updateSlot"
  /\ UpdateSlot(slot[t].mSlotId, answer[t].routed)
  /\ Leave(t)
  /\ UNCHANGED <<mCurrentSlot, mLastUpdate, now, serverVars, reportedAt>>

\* Reload(false): a table loaded within 30 seconds is not loaded again.
MaybeReload(t) ==
  /\ pc[t] = "gatewayError"
  /\ IF now - mLastUpdate < ReloadInterval
     THEN /\ Goto(t, "disable")
          /\ UNCHANGED forceReload
     ELSE /\ Goto(t, "reload")
          /\ forceReload' = [forceReload EXCEPT ![t] = FALSE]
  /\ UNCHANGED <<tableVars, now, slot, answer, loaded, serverVars, reportedAt>>

\* After the reload, however it ended: a forced one was the last act of a
\* successful write, the other is followed by DisableSlot.
AfterReload(t) ==
  IF forceReload[t]
  THEN Leave(t)
  ELSE /\ Goto(t, "disable")
       /\ loaded' = [loaded EXCEPT ![t] = NoTable]
       /\ UNCHANGED <<slot, answer, forceReload>>

BrokenTables ==
  {NoTable}
    \cup {[j \in DOMAIN serverSlots \ {i} |-> serverSlots[j]] : i \in DOMAIN serverSlots}
    \cup {[serverSlots EXCEPT ![i] = NoAddr] : i \in DOMAIN serverSlots}

ReloadAnswered(t) ==
  /\ pc[t] = "reload"
  /\ loaded' = [loaded EXCEPT ![t] = serverSlots]
  /\ Goto(t, "loadSlots")
  /\ UNCHANGED <<tableVars, now, slot, answer, forceReload, serverVars,
                 reportedAt>>

ReloadAnsweredBroken(t) ==
  /\ pc[t] = "reload"
  /\ BadMaps
  /\ Fault
  /\ \E table \in BrokenTables : loaded' = [loaded EXCEPT ![t] = table]
  /\ Goto(t, "loadSlots")
  /\ UNCHANGED <<tableVars, now, slot, answer, forceReload, serverSlots,
                 reportedAt>>

\* The request failed, or its answer is not the JSON it should be.
ReloadFails(t) ==
  /\ pc[t] = "reload"
  /\ Fault
  /\ AfterReload(t)
  /\ UNCHANGED <<tableVars, now, serverSlots, reportedAt>>

LoadReloaded(t) ==
  /\ pc[t] = "loadSlots"
  /\ LoadSlots(loaded[t])
  /\ AfterReload(t)
  /\ UNCHANGED <<now, serverVars, reportedAt>>

\* DisableSlot, then GetError throws and the write has failed.
DisableServer(t) ==
  /\ pc[t] = "disable"
  /\ DisableSlot(slot[t].mServerAddr)
  /\ reportedAt' = [reportedAt EXCEPT ![slot[t].mServerAddr] = now]
  /\ Leave(t)
  /\ UNCHANGED <<mCurrentSlot, mLastUpdate, now, serverVars>>

-----------------------------------------------------------------------------
(* The environment.                                                        *)

\* The server moves one slot, adds a last one or takes the last one away.
ServerMovesSlots ==
  /\ Fault
  /\ LET n == Size(serverSlots)
     IN  \/ \E i \in DOMAIN serverSlots : \E a \in Addr \ {serverSlots[i]} :
              serverSlots' = [serverSlots EXCEPT ![i] = a]
         \/ /\ n < MaxSlots
            /\ \E a \in Addr :
                 serverSlots' = [i \in 0 .. n |-> IF i = n THEN a ELSE serverSlots[i]]
         \/ /\ n > 1
            /\ serverSlots' = [i \in 0 .. (n - 2) |-> serverSlots[i]]
  /\ UNCHANGED <<tableVars, now, threadVars, reportedAt>>

Tick ==
  /\ now < MaxClock
  /\ now' = now + 1
  /\ UNCHANGED <<tableVars, threadVars, serverVars, reportedAt>>

-----------------------------------------------------------------------------

\* Initiate has loaded a complete table, or the constructor has thrown.
Init ==
  /\ serverSlots \in ServerTables
  /\ faults = 0
  /\ mSlots = [i \in DOMAIN serverSlots |-> NewSlot(serverSlots[i])]
  /\ mCurrentSlot \in DOMAIN serverSlots
  /\ mLastUpdate = Epoch
  /\ now = Epoch
  /\ pc = [t \in Thread |-> "idle"]
  /\ slot = [t \in Thread |-> NoSlot]
  /\ answer = [t \in Thread |-> NoAnswer]
  /\ loaded = [t \in Thread |-> NoTable]
  /\ forceReload = [t \in Thread |-> FALSE]
  /\ reportedAt = [a \in Addr |-> -1]

WriteStep(t) ==
  \/ StartWrite(t)
  \/ StartWriteOnEmptyTable(t)
  \/ WriteSucceeds(t)
  \/ WriteSucceedsUnrouted(t)
  \/ WriteFailsAtGateway(t)
  \/ WriteRefused(t)
  \/ WriteFailsOtherwise(t)
  \/ CompareSlotNum(t)
  \/ UpdateRoutedSlot(t)
  \/ MaybeReload(t)
  \/ ReloadAnswered(t)
  \/ ReloadAnsweredBroken(t)
  \/ ReloadFails(t)
  \/ LoadReloaded(t)
  \/ DisableServer(t)

Next ==
  \/ \E t \in Thread : WriteStep(t)
  \/ ServerMovesSlots
  \/ Tick

Spec == Init /\ [][Next]_vars

(* The fair specification.  The application keeps writing, every request is *)
(* answered or times out, and the clock runs.  Faults are over at           *)
(* FaultsUntil; so that the bounded clock can run long enough for the last  *)
(* disable to expire, it waits there for the threads that met an error.     *)

MeetsError(t) ==
  \/ pc[t] \in {"gatewayError", "disable"}
  \/ pc[t] \in {"reload", "loadSlots"} /\ ~ forceReload[t]

FairTick ==
  /\ now + 1 >= FaultsUntil => \A t \in Thread : ~ MeetsError(t)
  /\ Tick

FairNext ==
  \/ \E t \in Thread : WriteStep(t)
  \/ ServerMovesSlots
  \/ FairTick

FairSpec ==
  /\ Init /\ [][FairNext]_vars
  /\ \A t \in Thread : WF_vars(WriteStep(t))
  /\ WF_vars(FairTick)

-----------------------------------------------------------------------------
(* Properties.                                                             *)

Place == {"idle", "sent", "succeeded", "updateSlot", "gatewayError", "reload",
          "loadSlots", "disable"}

\* Every variable has its type.
TypeOK ==
  /\ IsTable(mSlots, Slot)
  /\ mCurrentSlot \in SlotId
  /\ mLastUpdate \in Int
  /\ now \in Nat /\ now >= Epoch
  /\ pc \in [Thread -> Place]
  /\ slot \in [Thread -> [mSlotId : SlotId, mServerAddr : Addr \cup {NoAddr}]]
  /\ \A t \in Thread : pc[t] # "idle" => slot[t].mServerAddr \in Addr
  /\ answer \in [Thread -> [routed : Addr \cup {NoAddr}, slotNum : Nat]]
  /\ loaded \in [Thread -> ReloadTables]
  /\ forceReload \in [Thread -> BOOLEAN]
  /\ IsTable(serverSlots, Addr)
  /\ faults \in Nat
  /\ reportedAt \in [Addr -> Int]
  /\ \A a \in Addr : -1 <= reportedAt[a] /\ reportedAt[a] <= now

\* NextSlot loops, with mLock held, until it meets a usable slot.  Whatever
\* the threads, the reloads and the disables did, a table that is not empty
\* has one, so the loop ends at once and no thread is kept waiting on mLock.
SomeSlotUsable ==
  DOMAIN mSlots # {} => \E i \in DOMAIN mSlots : ~ Disabled(mSlots[i])

\* At most ADDR_DISABLE_MAX_NUM addresses are out of use at any time, however
\* disables, re-routes and reloads interleave.
FewAddrsDisabled ==
  Cardinality({mSlots[i].mServerAddr :
                 i \in {j \in DOMAIN mSlots : Disabled(mSlots[j])}})
    <= AddrDisableMaxNum

\* An address is only out of use while a 502 or 504 of its own is less than
\* SLOT_DISABLE_TIME old: reloads never prolong a disable, and re-routing a
\* slot never passes the disable of one address on to another.
DisabledOnlyIfReported ==
  \A i \in DOMAIN mSlots :
    Disabled(mSlots[i]) => WithinDisableTime(reportedAt[mSlots[i].mServerAddr])

\* Once the server stops moving slots and failing, the writes alone bring the
\* table back to the server's: answers to old requests may still undo a
\* repair, but each slot is written to again and repaired for good.
TableConverges == <>[](Addresses(mSlots) = serverSlots)

=============================================================================
