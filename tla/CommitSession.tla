---------------------------- MODULE CommitSession ----------------------------
(***************************************************************************)
(* Sessions in which parts are written and then committed by name: the      *)
(* blocks of an Upload (upload.cpp), the files of a VolumeUpload            *)
(* (volume_upload.cpp), the streams of a TableWriteSession                  *)
(* (table_write_session.cpp); and a Download (download.cpp), which waits    *)
(* until the service has prepared the session.  Several clients, in threads *)
(* or processes of their own, hold the same session.                        *)
(*                                                                         *)
(* Each call is a query, which replaces what the client knows, a comparison  *)
(* at the client and the request to commit.  The service does other things   *)
(* in between.                                                              *)
(***************************************************************************)
EXTENDS Naturals, FiniteSetsExt, SequencesExt

CONSTANTS
  Client,     \* the holders of the session
  Name,       \* block numbers, file names or streams
  MaxRetry,   \* SuccessWithRetry repeats a request so many times
  List,       \* lists that a client may commit
  MaxCalls    \* calls of all clients (a bound)

CommitAssumption ==
  /\ IsFiniteSet(Name)
  /\ List \subseteq Seq(Name)
  /\ {MaxRetry, MaxCalls} \subseteq Nat

Kind == {"blocks", "files", "streams", "download"}

VARIABLES
  kind,     \* what the session is of
  service,  \* what the service has stored and committed, and its status
  writer,   \* for each name its writer
  client    \* for each client its call

vars == <<kind, service, writer, client>>

-----------------------------------------------------------------------------
(* The parts.  A writer is opened, takes the part and on Close sends its end  *)
(* and reads the service's answer.  When one of them throws, the part may be  *)
(* stored later or written again.                                            *)

\* A part that arrives is news to every client whose query was answered before.
Stores(n) ==
  /\ service.status = "normal"
  /\ service' = [service EXCEPT !.stored = @ \cup {n}]
  /\ client' = [c \in Client |-> [client[c] EXCEPT !.news = @ \cup {n}]]

Write(n) ==
  /\ kind # "download"
  /\ writer[n] # "closed"
  /\ \/ writer' = [writer EXCEPT ![n] = "closed"] /\ Stores(n)
     \/ writer' = [writer EXCEPT ![n] = "failed"] /\ UNCHANGED <<service, client>>
  /\ UNCHANGED kind

ArrivesLate(n) ==
  /\ writer[n] = "failed"
  /\ n \notin service.stored
  /\ Stores(n)
  /\ UNCHANGED <<kind, writer>>

\* A session of streams may be aborted, by any holder.
Abort ==
  /\ kind = "streams"
  /\ service.status = "normal"
  /\ service' = [service EXCEPT !.status = "aborted"]
  /\ UNCHANGED <<kind, writer, client>>

Prepared ==
  /\ service.status = "initiating"
  /\ service' = [service EXCEPT !.status = "normal"]
  /\ UNCHANGED <<kind, writer, client>>

-----------------------------------------------------------------------------
(* The calls of a client.                                                   *)

Calls == MapThenSumSet(LAMBDA c : client[c].calls, Client)

Idle(c) ==
  /\ client[c].pc \in {"idle", "returned", "refused", "failed"}
  /\ Calls < MaxCalls

Running(c) == client[c].pc \in {"query", "compare", "request", "sleep"}

\* A TableWriteSession takes an empty list for none.
Compares(list) == kind = "streams" => list # <<>>

\* Commit() of an Upload has no list.  Without one the request is sent at once.
CallCommit(c, list, listed) ==
  /\ kind # "download"
  /\ Idle(c)
  /\ ~ listed => kind = "blocks"
  /\ LET checked == listed /\ Compares(list)
     IN  client' = [client EXCEPT ![c] =
           [client[c] EXCEPT !.pc = IF checked THEN "query" ELSE "request",
                             !.list = list, !.checked = checked, !.commits = TRUE,
                             !.waits = FALSE, !.failures = 0, !.calls = @ + 1]]
  /\ UNCHANGED <<kind, service, writer>>

\* GetStatus and GetBlockList of an Upload and GetStatus of a Download only query,
\* and so does Initiate of a Download, which waits.
CallQuery(c, waits) ==
  /\ kind = "download" \/ (kind = "blocks" /\ ~ waits)
  /\ Idle(c)
  /\ client' = [client EXCEPT ![c] =
       [client[c] EXCEPT !.pc = "query", !.list = <<>>, !.checked = FALSE,
                         !.commits = FALSE, !.waits = waits, !.failures = 0,
                         !.calls = @ + 1]]
  /\ UNCHANGED <<kind, service, writer>>

WithRetry == kind \notin {"files", "streams"}

\* SuccessWithRetry: only a first answer 429 starts the retries, and then any
\* failure is followed by another one while the count allows.
Repeats(failures, answer) ==
  /\ WithRetry
  /\ failures > 0 \/ answer = "429"
  /\ failures < MaxRetry

Sleeping(call) == [call EXCEPT !.pc = "sleep", !.then = call.pc]

FailedUncounted(call, answer) ==
  IF Repeats(call.failures, answer) THEN Sleeping(call) ELSE [call EXCEPT !.pc = "failed"]

\* What becomes of a call whose request was answered by a failure.
Failed(call, answer) ==
  IF Repeats(call.failures, answer) THEN [Sleeping(call) EXCEPT !.failures = @ + 1]
  ELSE [call EXCEPT !.pc = "failed"]

Wake(c) ==
  /\ client[c].pc = "sleep"
  /\ client' = [client EXCEPT ![c] = [@ EXCEPT !.pc = client[c].then, !.then = "query"]]
  /\ UNCHANGED <<kind, service, writer>>

QueryFails(c) ==
  /\ client[c].pc = "query"
  /\ \E answer \in {"429", "error"} : client' = [client EXCEPT ![c] = Failed(@, answer)]
  /\ UNCHANGED <<kind, service, writer>>

\* Initiate of a Download that is still initiating sleeps and queries again.
Polls(call) == call.waits /\ service.status = "initiating"

\* ParseQueryResult replaces what the client knew.
QueryAnswered(c) ==
  /\ client[c].pc = "query"
  /\ LET call == [client[c] EXCEPT !.known = service.stored, !.news = {}, !.failures = 0]
     IN  client' = [client EXCEPT ![c] =
           IF Polls(call) THEN Sleeping(call)
           ELSE [call EXCEPT !.pc = IF call.commits THEN "compare" ELSE "returned"]]
  /\ UNCHANGED <<kind, service, writer>>

\* A VolumeUpload compares the number of different files at the service with the
\* length of the list.
SameLength(call) == Cardinality(call.known) = Len(call.list)

\* An Upload compares the numbers of different blocks; the maps that a
\* TableWriteSession compares differ otherwise.
SameSize(call) ==
  IF kind = "files" THEN SameLength(call)
  ELSE Cardinality(call.known) = Cardinality(ToSet(call.list))

MatchesBySize(call) == SameSize(call)

MatchesUndeduplicated(call) == SameLength(call) /\ ToSet(call.list) \subseteq call.known

Matches(call) == SameSize(call) /\ ToSet(call.list) \subseteq call.known

Compare(c) ==
  /\ client[c].pc = "compare"
  /\ client' = [client EXCEPT ![c].pc = IF Matches(client[c]) THEN "request" ELSE "refused"]
  /\ UNCHANGED <<kind, service, writer>>

\* The service commits what it has stored, and only of a session that is open;
\* the answer may be lost.
ServiceCommits ==
  /\ service.status = "normal"
  /\ service' = [service EXCEPT !.status = "closed", !.committed = service.stored]

RequestFails(c) ==
  /\ client[c].pc = "request"
  /\ \E answer \in {"429", "error"} :
       /\ client' = [client EXCEPT ![c] = Failed(@, answer)]
       /\ (answer # "429" /\ ServiceCommits) \/ UNCHANGED service
  /\ UNCHANGED <<kind, writer>>

\* A session that is closed already may be answered as if the request had
\* closed it.
RequestDone(c) ==
  /\ client[c].pc = "request"
  /\ ServiceCommits \/ (service.status = "closed" /\ UNCHANGED service)
  /\ client' = [client EXCEPT ![c].pc = "returned"]
  /\ UNCHANGED <<kind, writer>>

-----------------------------------------------------------------------------

Init ==
  /\ kind \in Kind
  /\ service = [stored |-> {}, committed |-> {},
                status |-> IF kind = "download" THEN "initiating" ELSE "normal"]
  /\ writer = [n \in Name |-> "none"]
  /\ client = [c \in Client |->
       [pc |-> "idle", then |-> "query", list |-> <<>>, checked |-> FALSE, commits |-> FALSE,
        waits |-> FALSE, known |-> {}, news |-> {}, failures |-> 0, calls |-> 0]]

ServiceStep ==
  \/ \E n \in Name : ArrivesLate(n)
  \/ Abort
  \/ Prepared

CallStep(c) ==
  \/ QueryFails(c) \/ QueryAnswered(c) \/ Wake(c) \/ Compare(c)
  \/ RequestFails(c) \/ RequestDone(c)

Next ==
  \/ \E n \in Name : Write(n)
  \/ ServiceStep
  \/ \E c \in Client :
       \/ \E list \in List, listed \in BOOLEAN : CallCommit(c, list, listed)
       \/ \E waits \in BOOLEAN : CallQuery(c, waits)
       \/ CallStep(c)

Spec == Init /\ [][Next]_vars

-----------------------------------------------------------------------------
(* Properties.                                                              *)

Committed(c) == client[c].pc = "returned" /\ client[c].commits

RepeatsName(list) == Cardinality(ToSet(list)) # Len(list)

\* A Commit that returns has closed the session with every listed part in it,
\* and with no other, except what arrived after the service was asked for its
\* parts: comparison and commit are two requests.  The list of a VolumeUpload
\* that repeats a name can hide a file that is not on it.
CommitsTheListed ==
  \A c \in Client : Committed(c) =>
    /\ service.status = "closed"
    /\ client[c].checked =>
         /\ ToSet(client[c].list) \subseteq service.committed
         /\ \/ service.committed \subseteq ToSet(client[c].list) \cup client[c].news
            \/ (kind = "files" /\ RepeatsName(client[c].list))

\* A list of exactly the parts that the service has is refused only if one more
\* arrived since, or if a VolumeUpload's list repeats a name.
RefusesOnlyOthers ==
  \A c \in Client :
    client[c].pc = "refused" /\ ToSet(client[c].list) = service.stored
      => client[c].news # {} \/ (kind = "files" /\ RepeatsName(client[c].list))
=============================================================================
