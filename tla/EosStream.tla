------------------------------ MODULE EosStream ------------------------------
(***************************************************************************)
(* The exactly-once stream of tunnel/stream_upload.cpp: EOSStream and the   *)
(* four requests that StreamUpload makes for it.  Before each call the      *)
(* stream asks anew, at most every RESCHEDULE_INTERVAL_SECONDS, which       *)
(* server serves its client (TryReschedule); the request for that goes to   *)
(* the server of slot 0 of the session's table, which the stream reads      *)
(* without the lock while writers reload it.  A client can be moved to      *)
(* another server and servers can leave the service, answers get lost and   *)
(* requests arrive after the client gave up on them.                        *)
(*                                                                         *)
(* Two threads share the stream, as in eos_test.cpp: one writes batches and *)
(* asks for the offset, one releases the client.                            *)
(***************************************************************************)
EXTENDS Naturals, Sequences, FiniteSets

CONSTANTS
  Addr,        \* server addresses
  NoAddr,      \* the empty string, or a string torn by a race
  Interval,    \* RESCHEDULE_INTERVAL_SECONDS
  MaxRetried,  \* the 10 of TryReschedule
  LastBatch,   \* batches the application writes (a bound)
  MaxFaults    \* faults of the environment (a bound)

ASSUME EosAssumption ==
  /\ NoAddr \notin Addr
  /\ {Interval, MaxRetried, LastBatch, MaxFaults} \subseteq Nat

VARIABLES
  mScheduledServer,
  age,        \* time since mLastRescheduleTimestamp, up to Interval + 1
  pc,         \* where each thread is
  op,         \* the method it runs
  retried,    \* the local of TryReschedule
  target,     \* the server it sends to, or has been told of
  slot0,      \* the address in mSlots.at(0), NoAddr if mSlots is empty
  reloading,  \* whether some thread is inside LoadSlots
  home,       \* the server that serves the client
  gone,       \* servers that have left the service
  released,   \* whether the service has released the client
  stored,     \* the batches in the table
  late,       \* batches still under way that their writer has given up on
  acked,      \* the offset that the application knows to be written
  faults      \* faults so far

streamVars  == <<mScheduledServer, age>>
threadVars  == <<pc, op, retried, target>>
tableVars   == <<slot0, reloading>>
placeVars   == <<home, gone>>
serviceVars == <<released, stored, late>>
vars == <<streamVars, threadVars, tableVars, placeVars, serviceVars, acked, faults>>

-----------------------------------------------------------------------------

Thread == {"writer", "releaser"}

Goto(t, place) == pc' = [pc EXCEPT ![t] = place]

\* The call returns or throws; a constructor that throws leaves no stream.
Leave(t) ==
  /\ Goto(t, IF op[t] = "construct" THEN "none" ELSE "idle")
  /\ op' = [op EXCEPT ![t] = "none"]
  /\ retried' = [retried EXCEPT ![t] = 0]
  /\ target' = [target EXCEPT ![t] = NoAddr]

Fault == faults < MaxFaults /\ faults' = faults + 1

Live == Addr \ gone

\* mSlots.at(0) without the lock: out_of_range on an empty table, and anything
\* while a reload clears and fills it.
Slot0Reads == IF reloading THEN Addr \cup {NoAddr} ELSE {slot0}

-----------------------------------------------------------------------------
(* CreateEOSStream: OnCreateEOSClient, then TryReschedule.                  *)

Construct ==
  /\ pc["writer"] = "none"
  /\ Goto("writer", "create")
  /\ op' = [op EXCEPT !["writer"] = "construct"]
  /\ mScheduledServer' = NoAddr
  /\ age' = Interval + 1
  /\ UNCHANGED <<retried, target, tableVars, placeVars, serviceVars, acked, faults>>

\* Any failure, out_of_range too, leaves the constructor.
CreateClient ==
  /\ pc["writer"] = "create"
  /\ \/ /\ \E a \in Slot0Reads : a \in Live
        /\ Goto("writer", "check")
        /\ UNCHANGED <<op, retried, target, faults>>
     \/ /\ \E a \in Slot0Reads : a \notin Live
        /\ Leave("writer")
        /\ UNCHANGED faults
     \/ Fault /\ Leave("writer")
  /\ UNCHANGED <<streamVars, tableVars, placeVars, serviceVars, acked>>

-----------------------------------------------------------------------------
(* TryReschedule.                                                           *)

RescheduleDueOnce == mScheduledServer = NoAddr

\* The condition of the loop.
RescheduleDue == mScheduledServer = NoAddr \/ age > Interval

\* Another turn of the loop, or none: the last exception is thrown again.
Check(t) ==
  /\ pc[t] = "check"
  /\ IF ~ RescheduleDue
     THEN /\ Goto(t, IF op[t] = "construct" THEN "idle" ELSE "send")
          /\ op' = [op EXCEPT ![t] = IF @ = "construct" THEN "none" ELSE @]
          /\ retried' = [retried EXCEPT ![t] = 0]
          /\ UNCHANGED target
     ELSE IF retried[t] > MaxRetried THEN Leave(t)
     ELSE Goto(t, "schedule") /\ UNCHANGED <<op, retried, target>>
  /\ UNCHANGED <<streamVars, tableVars, placeVars, serviceVars, acked, faults>>

\* After five seconds, unless this is the first turn: mLastRescheduleTimestamp
\* is set, mSlots.at(0) read and the request sent.
Schedule(t) ==
  /\ pc[t] = "schedule"
  /\ age' = 0
  /\ \E a \in Slot0Reads :
       IF a = NoAddr
       THEN /\ Goto(t, "check")
            /\ retried' = [retried EXCEPT ![t] = @ + 1]
            /\ UNCHANGED target
       ELSE /\ Goto(t, "scheduling")
            /\ target' = [target EXCEPT ![t] = a]
            /\ UNCHANGED retried
  /\ UNCHANGED <<op, mScheduledServer, tableVars, placeVars, serviceVars, acked, faults>>

AnotherTurn(t) ==
  /\ Goto(t, "check")
  /\ retried' = [retried EXCEPT ![t] = @ + 1]
  /\ target' = [target EXCEPT ![t] = NoAddr]
  /\ UNCHANGED op

Scheduled(t) ==
  /\ pc[t] = "scheduling"
  /\ target[t] \in Live
  /\ Goto(t, "assign")
  /\ target' = [target EXCEPT ![t] = home]
  /\ UNCHANGED <<op, retried, streamVars, tableVars, placeVars, serviceVars, acked, faults>>

ServiceChangedIgnored(t) ==
  /\ pc[t] = "scheduling"
  /\ target[t] \in gone
  /\ AnotherTurn(t)
  /\ UNCHANGED <<streamVars, tableVars, placeVars, serviceVars, acked, faults>>

\* "ServiceChanged" makes TryReschedule call Reload(true).
ServiceChanged(t) ==
  /\ pc[t] = "scheduling"
  /\ target[t] \in gone
  /\ Goto(t, "reload")
  /\ UNCHANGED <<op, retried, target, streamVars, tableVars, placeVars, serviceVars,
                 acked, faults>>

ScheduleFails(t) ==
  /\ pc[t] = "scheduling"
  /\ Fault
  /\ AnotherTurn(t)
  /\ UNCHANGED <<streamVars, tableVars, placeVars, serviceVars, acked>>

Assign(t) ==
  /\ pc[t] = "assign"
  /\ mScheduledServer' = target[t]
  /\ AnotherTurn(t)
  /\ UNCHANGED <<age, tableVars, placeVars, serviceVars, acked, faults>>

\* LoadSlots, with the lock: the table is cleared...
Reload(t) ==
  /\ pc[t] = "reload"
  /\ ~ reloading
  /\ reloading' = TRUE
  /\ slot0' = NoAddr
  /\ Goto(t, "loading")
  /\ UNCHANGED <<op, retried, target, streamVars, placeVars, serviceVars, acked, faults>>

\* ...and filled.
Loaded(t) ==
  /\ pc[t] = "loading"
  /\ reloading' = FALSE
  /\ slot0' \in Live
  /\ AnotherTurn(t)
  /\ UNCHANGED <<streamVars, placeVars, serviceVars, acked, faults>>

\* What Reload throws escapes from the handler, and from TryReschedule.
ReloadFails(t) ==
  /\ \/ pc[t] = "reload" /\ UNCHANGED tableVars
     \/ /\ pc[t] = "loading"
        /\ reloading' = FALSE
        /\ slot0' \in Live \cup {NoAddr}
  /\ Fault
  /\ Leave(t)
  /\ UNCHANGED <<streamVars, placeVars, serviceVars, acked>>

-----------------------------------------------------------------------------
(* Write, WritePack, Tell and Release.                                      *)

\* The application goes on from the last offset it knows, and may ask for it
\* at any time.
Call(t, method) ==
  /\ pc[t] = "idle"
  /\ t = "writer" => method \in {"write", "tell"} /\ acked < LastBatch
  /\ t = "releaser" => method = "release" /\ pc["writer"] # "none" /\ op["writer"] # "construct"
  /\ op' = [op EXCEPT ![t] = method]
  /\ Goto(t, "check")
  /\ UNCHANGED <<retried, target, streamVars, tableVars, placeVars, serviceVars, acked, faults>>

Assigning(u) == pc[u] = "assign"

\* Reading mScheduledServer while the other thread assigns it gives the one,
\* the other or, as a fault, a torn string.
Send(t) ==
  /\ pc[t] = "send"
  /\ \/ /\ \E a \in {mScheduledServer} \cup {target[u] : u \in {v \in Thread : Assigning(v)}} :
             target' = [target EXCEPT ![t] = a]
        /\ UNCHANGED faults
     \/ /\ \E u \in Thread : Assigning(u)
        /\ Fault
        /\ target' = [target EXCEPT ![t] = NoAddr]
  /\ Goto(t, "sent")
  /\ UNCHANGED <<op, retried, streamVars, tableVars, placeVars, serviceVars, acked>>

\* Where the client is served.
Served(t) == target[t] = home /\ ~ released

Position == IF stored = <<>> THEN 0 ELSE stored[Len(stored)]

\* The service stores what is beyond its position and drops what is not.
StoreOf(log, batch) == IF batch > Position THEN Append(log, batch) ELSE log

WriteSucceeds(t) ==
  /\ pc[t] = "sent" /\ op[t] = "write" /\ Served(t)
  /\ acked + 1 > Position
  /\ stored' = StoreOf(stored, acked + 1)
  /\ acked' = acked + 1
  /\ Leave(t)
  /\ UNCHANGED <<streamVars, tableVars, placeVars, released, late, faults>>

\* ExactlyOnceAlreadyWrittenException gives the position: to the caller of
\* Write, and to Tell, whose empty write at offset 0 is always refused so.
AlreadyWritten(t) ==
  /\ pc[t] = "sent" /\ Served(t)
  /\ op[t] = "tell" \/ (op[t] = "write" /\ acked + 1 <= Position)
  /\ acked' = Position
  /\ Leave(t)
  /\ UNCHANGED <<streamVars, tableVars, placeVars, serviceVars, faults>>

ReleaseSucceeds(t) ==
  /\ pc[t] = "sent" /\ op[t] = "release" /\ Served(t)
  /\ released' = TRUE
  /\ Leave(t)
  /\ UNCHANGED <<streamVars, tableVars, placeVars, stored, late, acked, faults>>

\* Another server, or a released client.
Refused(t) ==
  /\ pc[t] = "sent"
  /\ ~ Served(t)
  /\ Leave(t)
  /\ UNCHANGED <<streamVars, tableVars, placeVars, serviceVars, acked, faults>>

FailsAfterStored(t) ==
  /\ pc[t] = "sent"
  /\ Fault
  /\ stored' = IF op[t] = "write" /\ Served(t) THEN StoreOf(stored, acked + 1) ELSE stored
  /\ released' = (released \/ (op[t] = "release" /\ Served(t)))
  /\ late' = late
  /\ Leave(t)
  /\ UNCHANGED <<streamVars, tableVars, placeVars>>

FailsUnnoticed(t) ==
  /\ FailsAfterStored(t)
  /\ acked' = IF op[t] = "write" THEN acked + 1 ELSE acked

\* The answer is lost, or the request is never served, or only when its caller
\* has given up on it.
Fails(t) ==
  /\ pc[t] = "sent"
  /\ Fault
  /\ \/ /\ Served(t)
        /\ stored' = IF op[t] = "write" THEN StoreOf(stored, acked + 1) ELSE stored
        /\ released' = (op[t] = "release")
        /\ UNCHANGED late
     \/ /\ late' = IF op[t] = "write" THEN late \cup {acked + 1} ELSE late
        /\ UNCHANGED <<stored, released>>
     \/ UNCHANGED serviceVars
  /\ Leave(t)
  /\ UNCHANGED <<streamVars, tableVars, placeVars, acked>>

-----------------------------------------------------------------------------
(* The environment.                                                         *)

LateArrives ==
  \E batch \in late :
    /\ late' = late \ {batch}
    /\ stored' = IF released THEN stored ELSE StoreOf(stored, batch)
    /\ UNCHANGED <<streamVars, threadVars, tableVars, placeVars, released, acked, faults>>

ClientMoves ==
  /\ Fault
  /\ \E lost \in SUBSET Live :
       /\ gone' = gone \cup lost
       /\ Live \ lost # {}
       /\ home' \in Live \ lost
  /\ UNCHANGED <<streamVars, threadVars, tableVars, serviceVars, acked>>

\* The writers of the session reload the table as well.
OtherReloads ==
  /\ ~ reloading
  /\ Fault
  /\ reloading' = TRUE
  /\ slot0' = NoAddr
  /\ UNCHANGED <<streamVars, threadVars, placeVars, serviceVars, acked>>

\* A broken table leaves nothing in slot 0.
OtherLoaded ==
  /\ reloading
  /\ \A t \in Thread : pc[t] # "loading"
  /\ reloading' = FALSE
  /\ \/ slot0' \in Live /\ UNCHANGED faults
     \/ slot0' = NoAddr /\ Fault
  /\ UNCHANGED <<streamVars, threadVars, placeVars, serviceVars, acked>>

\* A turn that takes longer than the interval is a fault.
Slow ==
  \E t \in Thread :
    \/ pc[t] \in {"scheduling", "assign", "reload", "loading"}
    \/ pc[t] = "check" /\ retried[t] > 0

Tick ==
  /\ age <= Interval
  /\ age' = age + 1
  /\ IF Slow /\ age = Interval THEN Fault ELSE UNCHANGED faults
  /\ UNCHANGED <<mScheduledServer, threadVars, tableVars, placeVars, serviceVars, acked>>

-----------------------------------------------------------------------------

Init ==
  /\ mScheduledServer = NoAddr
  /\ age = Interval + 1
  /\ pc = [t \in Thread |-> IF t = "writer" THEN "none" ELSE "idle"]
  /\ op = [t \in Thread |-> "none"]
  /\ retried = [t \in Thread |-> 0]
  /\ target = [t \in Thread |-> NoAddr]
  /\ slot0 \in Addr
  /\ reloading = FALSE
  /\ home \in Addr
  /\ gone = {}
  /\ released = FALSE
  /\ stored = <<>>
  /\ late = {}
  /\ acked = 0
  /\ faults = 0

RescheduleStep(t) ==
  \/ Check(t)
  \/ Schedule(t)
  \/ Scheduled(t)
  \/ ServiceChanged(t)
  \/ ScheduleFails(t)
  \/ Assign(t)
  \/ Reload(t)
  \/ Loaded(t)
  \/ ReloadFails(t)

CallStep(t) ==
  \/ RescheduleStep(t)
  \/ Send(t)
  \/ WriteSucceeds(t)
  \/ AlreadyWritten(t)
  \/ ReleaseSucceeds(t)
  \/ Refused(t)
  \/ Fails(t)

WriterStep ==
  \/ Construct
  \/ CreateClient
  \/ \E method \in {"write", "tell"} : Call("writer", method)
  \/ CallStep("writer")

Next ==
  \/ WriterStep
  \/ Call("releaser", "release")
  \/ CallStep("releaser")
  \/ LateArrives
  \/ ClientMoves
  \/ OtherReloads
  \/ OtherLoaded
  \/ Tick

\* The application keeps writing, requests are answered or time out, LoadSlots
\* does not block, and time passes.
Spec ==
  /\ Init /\ [][Next]_vars
  /\ WF_vars(WriterStep)
  /\ SF_vars(Call("writer", "write"))
  /\ WF_vars(CallStep("releaser"))
  /\ WF_vars(OtherLoaded)
  /\ WF_vars(Tick)

-----------------------------------------------------------------------------
(* Properties.                                                              *)

Promise == INSTANCE ExactlyOnce

\* However servers change, answers get lost, requests arrive late, two threads
\* use the stream and table reloads race with it, batches are stored once and
\* in order, and what the application learns is stored.
StoresExactlyOnce == Promise!Spec

Constructing == pc["writer"] = "none" \/ op["writer"] = "construct"

\* A stream that goes on writing gets everything written, unless the client is
\* released: after any change the servers it needs are learned again.  Two
\* things nobody repairs: an empty table that another writer's reload has left,
\* and a slot 0 whose server is gone before the stream is constructed, for only
\* TryReschedule reloads the table, and OnCreateEOSClient comes first.
EverythingWritten ==
  \/ <>(acked = LastBatch \/ released)
  \/ <>[](slot0 = NoAddr \/ (Constructing /\ slot0 \in gone))
=============================================================================
