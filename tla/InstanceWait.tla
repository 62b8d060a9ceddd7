---------------------------- MODULE InstanceWait ----------------------------
(***************************************************************************)
(* An instance of the REST client (core/instance.cpp): its tasks run at the  *)
(* service, WaitForSuccess polls it to its end and judges its tasks, and the  *)
(* application may ask for their statuses at any time, which the object then  *)
(* keeps.                                                                   *)
(***************************************************************************)
EXTENDS Naturals

CONSTANTS
  Task,      \* the tasks of the instance
  Timeout,   \* sleepTimeoutMs, one of these
  Interval,  \* sleepIntervalMs, one of these
  Word       \* both and their sum are kept modulo this (2^32)

WaitAssumption ==
  /\ Word \in Nat \ {0}
  /\ Timeout \subseteq 0..(Word - 1) /\ Interval \subseteq 0..(Word - 1)

VARIABLES
  service,  \* the instance
  client    \* the Instance object and its call

vars == <<service, client>>

Ended == {"Success", "Failed", "Cancelled"}

-----------------------------------------------------------------------------
(* The service.                                                             *)

TaskEnds(t) ==
  /\ service.status = "Running"
  /\ service.task[t] = "Running"
  /\ \E status \in Ended : service' = [service EXCEPT !.task[t] = status]
  /\ UNCHANGED client

InstanceMoves ==
  /\ \/ service.status = "Running" /\ service' = [service EXCEPT !.status = "Suspended"]
     \/ service.status = "Suspended" /\ service' = [service EXCEPT !.status = "Running"]
     \/ /\ \A t \in Task : service.task[t] \in Ended
        /\ service.status # "Terminated"
        /\ service' = [service EXCEPT !.status = "Terminated"]
  /\ UNCHANGED client

\* Stop, by this client or another; an instance that is terminated stays so.
Stop ==
  /\ service' = [status |-> "Terminated",
                 task |-> [t \in Task |->
                   IF service.task[t] \in Ended THEN service.task[t] ELSE "Cancelled"]]
  /\ UNCHANGED client

-----------------------------------------------------------------------------
(* The client.  mTaskStatus is of no task until AcquireTaskStatus has kept an *)
(* answer.                                                                  *)

Waiting == client.pc \in {"wait", "judge"}

\* AcquireTaskStatus and IsSuccessful: the answer is kept for good.
AcquireTaskStatus ==
  /\ ~ Waiting
  /\ DOMAIN client.mTaskStatus = {}
  /\ client' = [client EXCEPT !.mTaskStatus = service.task]
  /\ UNCHANGED service

CallWait(timeout, interval) ==
  /\ ~ Waiting
  /\ client' = [client EXCEPT !.pc = "wait", !.timeout = timeout, !.interval = interval,
                              !.sleepTimeMs = 0]
  /\ UNCHANGED service

RequestFails ==
  /\ client' = [client EXCEPT !.pc = "threw"]
  /\ UNCHANGED service

PolledUnbounded ==
  LET slept == (client.sleepTimeMs + client.interval) % Word
  IN  IF service.status = "Terminated" THEN [client EXCEPT !.pc = "judge"]
      ELSE [client EXCEPT !.sleepTimeMs = slept]

\* What is counted is the sleep, not the time of the requests.
Polled ==
  LET slept == (client.sleepTimeMs + client.interval) % Word
  IN  IF service.status = "Terminated" THEN [client EXCEPT !.pc = "judge"]
      ELSE IF slept > client.timeout THEN [client EXCEPT !.pc = "timeout"]
      ELSE [client EXCEPT !.sleepTimeMs = slept]

Poll ==
  /\ client.pc = "wait"
  /\ RequestFails \/ (client' = Polled /\ UNCHANGED service)

VerdictOfAny(statuses) ==
  IF \E t \in Task : statuses[t] = "Success" THEN "returned" ELSE "refused"

\* The exception brings the result of a failed task or another task's status.
Verdict(statuses) ==
  IF \A t \in Task : statuses[t] = "Success" THEN "returned" ELSE "refused"

Judge ==
  /\ client.pc = "judge"
  /\ \/ DOMAIN client.mTaskStatus = {}
        /\ client' = [client EXCEPT !.mTaskStatus = service.task,
                                    !.pc = Verdict(service.task)]
        /\ UNCHANGED service
     \/ DOMAIN client.mTaskStatus # {}
        /\ client' = [client EXCEPT !.pc = Verdict(client.mTaskStatus)]
        /\ UNCHANGED service
     \/ RequestFails

-----------------------------------------------------------------------------

Init ==
  /\ service = [status |-> "Running", task |-> [t \in Task |-> "Running"]]
  /\ client = [pc |-> "idle", timeout |-> 0, interval |-> 0, sleepTimeMs |-> 0,
               mTaskStatus |-> <<>>]

WaitStep == Poll \/ Judge

Next ==
  \/ \E t \in Task : TaskEnds(t)
  \/ InstanceMoves
  \/ Stop
  \/ AcquireTaskStatus
  \/ \E timeout \in Timeout, interval \in Interval : CallWait(timeout, interval)
  \/ WaitStep

Spec == Init /\ [][Next]_vars

-----------------------------------------------------------------------------
(* Properties.                                                              *)

\* WaitForSuccess returns only when the instance is at its end and every task
\* succeeded.
ReturnsOnSuccess ==
  client.pc = "returned" =>
    service.status = "Terminated" /\ \A t \in Task : service.task[t] = "Success"

\* It takes tasks that all succeeded for failed only if their statuses were
\* acquired before they had ended: these are never asked for again.
RefusesFailed ==
  client.pc = "refused" =>
    \/ \E t \in Task : service.task[t] # "Success"
    \/ \E t \in Task : client.mTaskStatus[t] \notin Ended

\* A wait without an interval does not count, and one whose time is close to
\* the width of the count starts again from 0.
MayBeEndless ==
  client.interval = 0 \/ client.timeout + client.interval >= Word
=============================================================================
