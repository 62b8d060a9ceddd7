--------------------------- MODULE EosStreamProofs ---------------------------
(***************************************************************************)
(* The exactly-once stream implements what it promises, for any servers, any *)
(* number of batches, retries and faults.                                   *)
(*                                                                         *)
(* The argument needs nothing of TryReschedule: wherever a request goes, the *)
(* service takes the next batch only, and a batch under way is at most one   *)
(* beyond what the application knows.                                       *)
(***************************************************************************)
EXTENDS EosStream, TLAPS

\* The table is 1, 2, 3...
InOrder ==
  /\ stored \in Seq(Nat)
  /\ \A i \in 1..Len(stored) : stored[i] = i

\* What the application knows to be written is.
KnownIsStored == acked \in 0..Len(stored)

\* The application never writes further than the batch after the last it knows.
LateIsNext == late \subseteq 1..(acked + 1)

IInv == InOrder /\ KnownIsStored /\ LateIsNext

LogVars == <<stored, late, acked>>

\* The position that the service names is the number of batches it has.
LEMMA PositionIsLength == ASSUME InOrder PROVE Position = Len(stored)
  BY DEF InOrder, Position

\* A batch that is at most the next one is appended, or has been stored already.
LEMMA StoreOfNext ==
  ASSUME InOrder, NEW batch \in 1..(Len(stored) + 1)
  PROVE  \/ /\ batch = Len(stored) + 1
            /\ StoreOf(stored, batch) = Append(stored, Len(stored) + 1)
         \/ /\ batch <= Len(stored)
            /\ StoreOf(stored, batch) = stored
  BY PositionIsLength DEF InOrder, StoreOf

\* One more batch at the end keeps the order.
LEMMA AppendInOrder ==
  ASSUME InOrder, stored' = Append(stored, Len(stored) + 1)
  PROVE  InOrder' /\ Len(stored') = Len(stored) + 1
<1>1. stored' \in Seq(Nat) /\ Len(stored') = Len(stored) + 1
  BY DEF InOrder
<1>2. ASSUME NEW i \in 1..Len(stored') PROVE stored'[i] = i
  BY <1>1 DEF InOrder
<1> QED
  BY <1>1, <1>2 DEF InOrder

\* What the table may become when a batch arrives.
LEMMA ArrivalStores ==
  ASSUME IInv, NEW batch \in 1..(acked + 1), stored' = StoreOf(stored, batch)
  PROVE  /\ InOrder'
         /\ Len(stored) <= Len(stored')
         /\ \/ stored' = stored
            \/ stored' = Append(stored, Len(stored) + 1)
<1>1. batch \in 1..(Len(stored) + 1)
  BY DEF IInv, InOrder, KnownIsStored
<1>2. CASE stored' = stored
  BY <1>2 DEF IInv, InOrder
<1>3. CASE stored' = Append(stored, Len(stored) + 1)
  BY <1>3, AppendInOrder DEF IInv, InOrder
<1> QED
  BY <1>1, <1>2, <1>3, StoreOfNext DEF IInv

\* The steps that change neither the table nor what is known of it.
LEMMA OthersKeepLog ==
  ASSUME NEW t \in Thread,
         \/ Construct \/ CreateClient
         \/ (\E method \in {"write", "tell", "release"} : Call(t, method))
         \/ RescheduleStep(t) \/ Send(t) \/ ReleaseSucceeds(t) \/ Refused(t)
         \/ ClientMoves \/ OtherReloads \/ OtherLoaded \/ Tick
  PROVE  UNCHANGED LogVars
  BY DEF LogVars, Construct, CreateClient, Call, RescheduleStep, Check, Schedule, Scheduled,
         ServiceChanged, ScheduleFails, Assign, Reload, Loaded, ReloadFails, Send,
         ReleaseSucceeds, Refused, ClientMoves, OtherReloads, OtherLoaded, Tick, serviceVars

\* Every step keeps the order and is a step of the promise, or none of it.
LEMMA StepKeepsPromise ==
  ASSUME IInv, [Next]_vars
  PROVE  IInv' /\ [Promise!Next]_<<stored, acked>>
<1> DEFINE Kept == IInv' /\ [Promise!Next]_<<stored, acked>>
<1>0. ASSUME UNCHANGED LogVars PROVE Kept
  BY <1>0 DEF LogVars, IInv, InOrder, KnownIsStored, LateIsNext
<1>1. ASSUME NEW t \in Thread, WriteSucceeds(t) PROVE Kept
  <2>1. acked = Len(stored) /\ acked' = acked + 1 /\ late' = late
    BY <1>1, PositionIsLength DEF WriteSucceeds, IInv, KnownIsStored, InOrder
  <2>2. stored' = Append(stored, Len(stored) + 1)
    BY <1>1, <2>1, StoreOfNext DEF WriteSucceeds, IInv, KnownIsStored, InOrder
  <2>3. InOrder' /\ Len(stored') = Len(stored) + 1
    BY <2>2, AppendInOrder DEF IInv
  <2>4. KnownIsStored' /\ LateIsNext'
    BY <2>1, <2>3 DEF IInv, InOrder, KnownIsStored, LateIsNext
  <2> QED
    BY <2>1, <2>2, <2>3, <2>4 DEF IInv, Promise!Next, Promise!StoreAndLearn
<1>2. ASSUME NEW t \in Thread, AlreadyWritten(t) PROVE Kept
  <2>1. acked' = Len(stored) /\ stored' = stored /\ late' = late
    BY <1>2, PositionIsLength DEF AlreadyWritten, serviceVars, IInv
  <2>2. acked' \in acked..Len(stored)
    BY <2>1 DEF IInv, InOrder, KnownIsStored
  <2> QED
    BY <2>1, <2>2 DEF IInv, InOrder, KnownIsStored, LateIsNext, Promise!Next, Promise!Learn
<1>3. ASSUME NEW t \in Thread, Fails(t) PROVE Kept
  <2>1. acked + 1 \in 1..(acked + 1) /\ acked' = acked
    BY <1>3 DEF Fails, IInv, KnownIsStored
  <2>2. late' \subseteq 1..(acked + 1)
    BY <1>3, <2>1 DEF Fails, IInv, LateIsNext, serviceVars
  <2>3. stored' = stored \/ stored' = StoreOf(stored, acked + 1)
    BY <1>3 DEF Fails, serviceVars
  <2>4. /\ InOrder'
        /\ Len(stored) <= Len(stored')
        /\ stored' = stored \/ stored' = Append(stored, Len(stored) + 1)
    <3>1. CASE stored' = stored
      BY <3>1 DEF IInv, InOrder
    <3>2. CASE stored' = StoreOf(stored, acked + 1)
      BY <2>1, <3>2, ArrivalStores
    <3> QED
      BY <2>3, <3>1, <3>2
  <2>5. IInv'
    BY <2>1, <2>2, <2>4 DEF IInv, InOrder, KnownIsStored, LateIsNext
  <2> QED
    BY <2>1, <2>4, <2>5 DEF Promise!Next, Promise!Store
<1>4. ASSUME LateArrives PROVE Kept
  <2>1. PICK batch \in late :
          /\ late' = late \ {batch}
          /\ stored' = IF released THEN stored ELSE StoreOf(stored, batch)
          /\ acked' = acked
    BY <1>4 DEF LateArrives
  <2>2. batch \in 1..(acked + 1)
    BY <2>1 DEF IInv, LateIsNext
  <2>3. /\ InOrder'
        /\ Len(stored) <= Len(stored')
        /\ stored' = stored \/ stored' = Append(stored, Len(stored) + 1)
    <3>1. CASE released
      BY <2>1, <3>1 DEF IInv, InOrder
    <3>2. CASE ~ released
      BY <2>1, <2>2, <3>2, ArrivalStores
    <3> QED
      BY <3>1, <3>2
  <2>4. IInv'
    BY <2>1, <2>3 DEF IInv, InOrder, KnownIsStored, LateIsNext
  <2> QED
    BY <2>1, <2>3, <2>4 DEF Promise!Next, Promise!Store
<1>5. ASSUME UNCHANGED vars PROVE UNCHANGED LogVars
  BY <1>5 DEF vars, serviceVars, LogVars
<1> QED
  <2>1. "writer" \in Thread /\ "releaser" \in Thread
    BY DEF Thread
  <2>2. ASSUME NEW t \in Thread, CallStep(t) PROVE Kept
    <3>1. CASE WriteSucceeds(t) \/ AlreadyWritten(t) \/ Fails(t)
      BY <3>1, <1>1, <1>2, <1>3
    <3>2. CASE RescheduleStep(t) \/ Send(t) \/ ReleaseSucceeds(t) \/ Refused(t)
      BY <3>2, <1>0, OthersKeepLog
    <3> QED
      BY <2>2, <3>1, <3>2 DEF CallStep
  <2>3. ASSUME WriterStep PROVE Kept
    <3>1. CASE Construct \/ CreateClient \/ \E method \in {"write", "tell"} : Call("writer", method)
      BY <3>1, <2>1, <1>0, OthersKeepLog
    <3>2. CASE CallStep("writer")
      BY <3>2, <2>1, <2>2
    <3> QED
      BY <2>3, <3>1, <3>2 DEF WriterStep
  <2>4. ASSUME \/ Call("releaser", "release") \/ ClientMoves \/ OtherReloads
               \/ OtherLoaded \/ Tick
        PROVE  Kept
    BY <2>4, <2>1, <1>0, OthersKeepLog
  <2>5. CASE Next
    BY <2>5, <2>1, <2>2, <2>3, <2>4, <1>4 DEF Next
  <2> QED
    BY <2>5, <1>0, <1>5

\* Of any execution of EOSStream: the batches in the table are 1, 2, 3..., and the
\* application knows of no batch that is not there.
THEOREM InOrderAlways == Spec => []IInv
<1>1. Init => IInv
  BY DEF Init, IInv, InOrder, KnownIsStored, LateIsNext
<1>2. IInv /\ [Next]_vars => IInv'
  BY StepKeepsPromise
<1> QED
  BY <1>1, <1>2, PTL DEF Spec

\* EOSStream implements the promise of IEOSStream, whatever the servers, the
\* requests that are lost or late and the other thread do.
THEOREM ImplementsExactlyOnce == Spec => StoresExactlyOnce
<1>1. Init => Promise!Init
  BY DEF Init, Promise!Init
<1>2. IInv /\ [Next]_vars => [Promise!Next]_<<stored, acked>>
  BY StepKeepsPromise
<1> QED
  BY <1>1, <1>2, InOrderAlways, PTL DEF Spec, StoresExactlyOnce, Promise!Spec
=============================================================================
