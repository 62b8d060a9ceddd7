--------------------------- MODULE SessionsProofs ---------------------------
(***************************************************************************)
(* What the sessions and the other calls of Sessions promise, for any         *)
(* clients, names, lists, sizes, bounds and retries.                          *)
(*                                                                         *)
(* The invariant has one part for each thing that is done.  Of a session: what *)
(* a client knows and what is news to it are together what the service has,   *)
(* and a request follows a match of what is known.  Of an instance: a kept     *)
(* status of an ended task is the task's.  Of a file: the service has the      *)
(* written bytes in order, and the caller and the buffer have a run of them    *)
(* up to where the reader stands.  Of a table: what is unread and to come are   *)
(* the units of an answer from the reader's place on.  Of a list: what was     *)
(* returned and is buffered is what lies before the next page.                *)
(***************************************************************************)
EXTENDS Sessions, FiniteSetTheorems, SequenceTheorems, WellFoundedInduction, TLAPS

-----------------------------------------------------------------------------
(* Sessions whose parts are committed by name.                              *)

\* A call of a client: what it asks for and what it knows.
CallType ==
  [pc : {"idle", "query", "compare", "request", "sleep", "returned", "refused", "failed"},
   then : {"query", "request"}, list : Seq(Name), checked : BOOLEAN, commits : BOOLEAN,
   waits : BOOLEAN, known : SUBSET Name, news : SUBSET Name, failures : Nat, calls : Nat]

\* Types of the service and the calls.
PartsTypeOK ==
  /\ kind \in Parts!Kind
  /\ service \in [stored : SUBSET Name, committed : SUBSET Name,
                  status : {"initiating", "normal", "closed", "aborted"}]
  /\ client \in [Client -> CallType]

\* What a client knows and what is news to it are what the service has.
KnowledgeOf(s, call) == call.known \subseteq s.stored /\ s.stored \subseteq call.known \cup call.news

\* A list that was found to match names what the client knows, unless it is of
\* files and repeats a name.
Names(call) ==
  /\ Parts!ToSet(call.list) \subseteq call.known
  /\ call.known \subseteq Parts!ToSet(call.list) \/ (kind = "files" /\ Parts!RepeatsName(call.list))

\* A request is about to be sent, or was.
Requests(call) ==
  /\ call.commits /\ call.checked
  /\ call.pc \in {"request", "returned"} \/ (call.pc = "sleep" /\ call.then = "request")

\* A refused list was found not to match.
CallOK(s, call) ==
  /\ KnowledgeOf(s, call)
  /\ Requests(call) => Names(call)
  /\ call.pc = "refused" => ~ Parts!Matches(call)
  /\ call.commits /\ call.pc = "returned" => s.status = "closed"

\* A session that is closed has committed all that it stored.
ClosedInv == service.status = "closed" => service.committed = service.stored

\* The invariant of the sessions whose parts are committed.
PartsInv == PartsTypeOK /\ ClosedInv /\ \A c \in Client : CallOK(service, client[c])

\* The instance's finite sets and cardinalities are those of the library.
LEMMA PartsCardinality ==
  ASSUME NEW S
  PROVE  /\ Parts!IsFiniteSet(S) <=> IsFiniteSet(S)
         /\ Parts!Cardinality(S) = Cardinality(S)
<1>1. Parts!IsFiniteSet(S) <=> IsFiniteSet(S)
  BY DEF Parts!IsFiniteSet, IsFiniteSet
<1>2. Parts!Cardinality(S) = Cardinality(S)
  BY DEF Parts!Cardinality, Cardinality, Parts!IsFiniteSet, IsFiniteSet
<1> QED
  BY <1>1, <1>2

\* The sets of a session are finite.
LEMMA NamesAreFinite ==
  ASSUME Parts!CommitAssumption, NEW S \in SUBSET Name
  PROVE  IsFiniteSet(S) /\ Cardinality(S) \in Nat
<1>1. IsFiniteSet(Name)
  BY PartsCardinality DEF Parts!CommitAssumption
<1>2. IsFiniteSet(S)
  BY <1>1, FS_Subset
<1> QED
  BY <1>2, FS_CardinalityType

\* A list's names are names.
LEMMA ListOfNames ==
  ASSUME NEW list \in Seq(Name)
  PROVE  Parts!ToSet(list) \in SUBSET Name /\ Len(list) \in Nat
  BY DEF Parts!ToSet

\* A match of the sizes is a match of the sets, unless a name is repeated.
LEMMA MatchNames ==
  ASSUME Parts!CommitAssumption, NEW call \in CallType, Parts!Matches(call)
  PROVE  Names(call)
<1> DEFINE L == Parts!ToSet(call.list)
<1>1. /\ L \in SUBSET Name /\ call.known \in SUBSET Name
      /\ IsFiniteSet(call.known) /\ IsFiniteSet(L)
  BY ListOfNames, NamesAreFinite DEF CallType
<1>2. L \subseteq call.known
  BY DEF Parts!Matches
<1>3. Cardinality(L) = Cardinality(call.known) => L = call.known
  BY <1>1, <1>2, FS_Subset
<1>4. Cardinality(L) = Cardinality(call.known) \/ (kind = "files" /\ Parts!RepeatsName(call.list))
  BY PartsCardinality DEF Parts!Matches, Parts!SameSize, Parts!SameLength, Parts!RepeatsName
<1> QED
  BY <1>2, <1>3, <1>4 DEF Names

\* A list of just what the client knows matches, unless it repeats a name.
LEMMA EqualMatches ==
  ASSUME NEW call \in CallType, Parts!ToSet(call.list) = call.known
  PROVE  Parts!Matches(call) \/ (kind = "files" /\ Parts!RepeatsName(call.list))
  BY DEF Parts!Matches, Parts!SameSize, Parts!SameLength, Parts!RepeatsName

\* What follows a failure is a call of the same list and knowledge, which sleeps
\* or has failed.
LEMMA FailedCall ==
  ASSUME NEW call \in CallType, call.pc \in {"query", "request"}, NEW answer
  PROVE  LET f == Parts!Failed(call, answer)
         IN  /\ f \in CallType
             /\ f.list = call.list /\ f.known = call.known /\ f.news = call.news
             /\ f.commits = call.commits /\ f.checked = call.checked
             /\ f.pc = "failed" \/ (f.pc = "sleep" /\ f.then = call.pc)
<1> DEFINE f == Parts!Failed(call, answer)
<1>1. \/ f = [call EXCEPT !.pc = "sleep", !.then = call.pc, !.failures = call.failures + 1]
      \/ f = [call EXCEPT !.pc = "failed"]
  BY DEF Parts!Failed, Parts!Sleeping, CallType
<1> HIDE DEF f
<1>2. f \in CallType
  <2>1. call.failures + 1 \in Nat
    BY DEF CallType
  <2>2. CASE f = [call EXCEPT !.pc = "sleep", !.then = call.pc,
                              !.failures = call.failures + 1]
    BY <2>1, <2>2 DEF CallType
  <2>3. CASE f = [call EXCEPT !.pc = "failed"]
    BY <2>3 DEF CallType
  <2> QED
    BY <1>1, <2>2, <2>3
<1>3. /\ f.list = call.list /\ f.known = call.known /\ f.news = call.news
      /\ f.commits = call.commits /\ f.checked = call.checked
  BY <1>1 DEF CallType
<1>4. f.pc = "failed" \/ (f.pc = "sleep" /\ f.then = call.pc)
  BY <1>1 DEF CallType
<1> QED
  BY <1>2, <1>3, <1>4 DEF f

\* A failed call keeps what holds of it, whatever its service has committed.
LEMMA FailedOK ==
  ASSUME NEW s, NEW call \in CallType, call.pc \in {"query", "request"}, CallOK(s, call),
         NEW answer, NEW t, t.stored = s.stored
  PROVE  CallOK(t, Parts!Failed(call, answer))
<1> DEFINE f == Parts!Failed(call, answer)
<1>1. /\ f \in CallType
      /\ f.list = call.list /\ f.known = call.known /\ f.news = call.news
      /\ f.commits = call.commits /\ f.checked = call.checked
      /\ f.pc = "failed" \/ (f.pc = "sleep" /\ f.then = call.pc)
  BY FailedCall
<1> HIDE DEF f
<1>2. KnowledgeOf(t, f)
  BY <1>1 DEF CallOK, KnowledgeOf
<1>3. Requests(f) => Requests(call)
  BY <1>1 DEF Requests
<1>4. Names(call) => Names(f)
  BY <1>1 DEF Names
<1>5. f.pc # "refused" /\ f.pc # "returned"
  BY <1>1
<1>6. CallOK(t, f)
  BY <1>2, <1>3, <1>4, <1>5 DEF CallOK
<1> QED
  BY <1>6 DEF f

\* Nothing is known, stored or committed at first.
LEMMA PartsInit ==
  ASSUME Parts!Init
  PROVE  PartsInv
<1>1. PartsTypeOK /\ ClosedInv
  BY DEF Parts!Init, PartsTypeOK, CallType, ClosedInv
<1>2. ASSUME NEW c \in Client
      PROVE  CallOK(service, client[c])
  BY DEF Parts!Init, CallOK, KnowledgeOf, Requests
<1> QED
  BY <1>1, <1>2 DEF PartsInv

\* The kind of a session does not change, so a step may be judged by the kind
\* before it.
LEMMA NextCallOK ==
  ASSUME NEW c \in Client, kind' = kind, CallOK(service', client'[c])
  PROVE  CallOK(service, client[c])'
  BY DEF CallOK, KnowledgeOf, Requests, Names, Parts!Matches, Parts!SameSize, Parts!SameLength, Parts!RepeatsName

\* A part that is stored is news to every client, and a session that takes parts
\* is open, so no commit of it has returned.
LEMMA StoresInv ==
  ASSUME PartsInv, NEW n \in Name, Parts!Stores(n), kind' = kind
  PROVE  PartsInv'
<1>1. /\ service' = [service EXCEPT !.stored = @ \cup {n}]
      /\ service.status = "normal"
      /\ client' = [c \in Client |-> [client[c] EXCEPT !.news = @ \cup {n}]]
  BY DEF Parts!Stores
<1>2. PartsTypeOK'
  <2>1. ASSUME NEW c \in Client
        PROVE  client'[c] \in CallType
    <3>1. client'[c] = [client[c] EXCEPT !.news = client[c].news \cup {n}]
      BY <1>1
    <3>2. client[c] \in CallType
      BY DEF PartsInv, PartsTypeOK
    <3>3. client[c].news \cup {n} \in SUBSET Name
      BY <3>2 DEF CallType
    <3> QED
      BY <3>1, <3>2, <3>3 DEF CallType
  <2>2. client' \in [Client -> CallType]
    BY <1>1, <2>1
  <2> QED
    BY <1>1, <2>2 DEF PartsInv, PartsTypeOK
<1>3. ClosedInv'
  BY <1>1 DEF PartsInv, PartsTypeOK, ClosedInv
<1>4. ASSUME NEW c \in Client
      PROVE  CallOK(service', client'[c])
  <2> DEFINE o == client[c]
             d == client'[c]
  <2>1. o \in CallType /\ CallOK(service, o)
    BY DEF PartsInv, PartsTypeOK
  <2>2. d = [o EXCEPT !.news = @ \cup {n}]
    BY <1>1
  <2> HIDE DEF d, o
  <2>3. /\ d.pc = o.pc /\ d.then = o.then /\ d.list = o.list /\ d.known = o.known
        /\ d.commits = o.commits /\ d.checked = o.checked /\ d.news = o.news \cup {n}
    BY <2>1, <2>2 DEF CallType
  <2>4. KnowledgeOf(service', d)
    BY <1>1, <2>1, <2>3 DEF CallOK, KnowledgeOf, PartsInv, PartsTypeOK
  <2>5. Requests(d) => Names(d)
    BY <2>1, <2>3 DEF CallOK, Requests, Names, Parts!RepeatsName
  <2>6. d.pc = "refused" => ~ Parts!Matches(d)
    BY <2>1, <2>3 DEF CallOK, Parts!Matches, Parts!SameSize, Parts!SameLength
  <2>7. ~ (d.commits /\ d.pc = "returned")
    BY <1>1, <2>1, <2>3 DEF CallOK
  <2> QED
    BY <2>4, <2>5, <2>6, <2>7 DEF CallOK, d
<1> QED
  BY <1>2, <1>3, <1>4, NextCallOK DEF PartsInv

\* What a client's call becomes keeps the invariant if it keeps what holds of the
\* call, and the service changes for a call only by committing what it stored.
LEMMA CallInv ==
  ASSUME PartsInv, kind' = kind, NEW c \in Client, NEW d \in CallType,
         client' = [client EXCEPT ![c] = d],
         CallOK(service', d), Parts!ServiceCommits \/ UNCHANGED service
  PROVE  PartsInv'
<1>1. PartsTypeOK'
  BY DEF PartsInv, PartsTypeOK, Parts!ServiceCommits
<1>2. ClosedInv'
  BY DEF PartsInv, PartsTypeOK, ClosedInv, Parts!ServiceCommits
<1>3. ASSUME NEW b \in Client, b # c
      PROVE  CallOK(service', client'[b])
  <2>1. client'[b] = client[b] /\ CallOK(service, client[b])
    BY <1>3 DEF PartsInv, PartsTypeOK
  <2>2. service'.stored = service.stored
    BY DEF PartsInv, PartsTypeOK, Parts!ServiceCommits
  <2>3. service.status = "closed" => service'.status = "closed"
    BY DEF Parts!ServiceCommits
  <2> QED
    BY <2>1, <2>2, <2>3 DEF CallOK, KnowledgeOf
<1>4. client'[c] = d
  BY DEF PartsInv, PartsTypeOK
<1> QED
  BY <1>1, <1>2, <1>3, <1>4, NextCallOK DEF PartsInv

\* Every step of a call keeps the invariant.
LEMMA CallStepInv ==
  ASSUME Parts!CommitAssumption, PartsInv, NEW c \in Client,
         \/ \E list \in List, listed \in BOOLEAN : Parts!CallCommit(c, list, listed)
         \/ \E waits \in BOOLEAN : Parts!CallQuery(c, waits)
         \/ Parts!CallStep(c)
  PROVE  PartsInv'
<1> DEFINE o == client[c]
<1>0. o \in CallType /\ CallOK(service, o) /\ client \in [Client -> CallType]
  BY DEF PartsInv, PartsTypeOK
<1>1. ASSUME NEW list \in List, NEW listed \in BOOLEAN, Parts!CallCommit(c, list, listed)
      PROVE  PartsInv'
  <2> DEFINE checked == listed /\ Parts!Compares(list)
             d == [o EXCEPT !.pc = IF checked THEN "query" ELSE "request",
                            !.list = list, !.checked = checked, !.commits = TRUE,
                            !.waits = FALSE, !.failures = 0, !.calls = o.calls + 1]
  <2>1. /\ client' = [client EXCEPT ![c] = d]
        /\ kind' = kind /\ UNCHANGED service
    <3>1. /\ client' = [client EXCEPT ![c] = [client[c] EXCEPT
                !.pc = IF checked THEN "query" ELSE "request",
                !.list = list, !.checked = checked, !.commits = TRUE,
                !.waits = FALSE, !.failures = 0, !.calls = client[c].calls + 1]]
          /\ UNCHANGED <<kind, service, writer>>
      BY <1>1, Zenon DEF Parts!CallCommit
    <3> QED
      BY <3>1
  <2>2. list \in Seq(Name) /\ checked \in BOOLEAN
    BY DEF Parts!CommitAssumption, Parts!Compares
  <2> HIDE DEF checked
  <2>3. d \in CallType
    <3>1. o.calls + 1 \in Nat /\ 0 \in Nat
      BY <1>0 DEF CallType
    <3> QED
      BY <1>0, <2>2, <3>1 DEF CallType
  <2>4. /\ d.pc = IF checked THEN "query" ELSE "request"
        /\ d.checked = checked /\ d.known = o.known /\ d.news = o.news
    BY <1>0 DEF CallType
  <2> HIDE DEF d
  <2>5. CallOK(service', d)
    BY <1>0, <2>1, <2>4 DEF CallOK, KnowledgeOf, Requests
  <2> QED
    BY <2>1, <2>3, <2>5, CallInv
<1>2. ASSUME NEW waits \in BOOLEAN, Parts!CallQuery(c, waits)
      PROVE  PartsInv'
  <2> DEFINE d == [o EXCEPT !.pc = "query", !.list = <<>>, !.checked = FALSE,
                            !.commits = FALSE, !.waits = waits, !.failures = 0,
                            !.calls = o.calls + 1]
  <2>1. /\ client' = [client EXCEPT ![c] = d]
        /\ kind' = kind /\ UNCHANGED service
    <3>1. /\ client' = [client EXCEPT ![c] = [client[c] EXCEPT
                !.pc = "query", !.list = <<>>, !.checked = FALSE, !.commits = FALSE,
                !.waits = waits, !.failures = 0, !.calls = client[c].calls + 1]]
          /\ UNCHANGED <<kind, service, writer>>
      BY <1>2, Zenon DEF Parts!CallQuery
    <3> QED
      BY <3>1
  <2>2. d \in CallType
    <3>1. o.calls + 1 \in Nat /\ 0 \in Nat /\ <<>> \in Seq(Name)
      BY <1>0 DEF CallType
    <3> QED
      BY <1>0, <3>1 DEF CallType
  <2>3. d.pc = "query" /\ d.known = o.known /\ d.news = o.news
    BY <1>0 DEF CallType
  <2> HIDE DEF d
  <2>4. CallOK(service', d)
    BY <1>0, <2>1, <2>3 DEF CallOK, KnowledgeOf, Requests
  <2> QED
    BY <2>1, <2>2, <2>4, CallInv
<1>3. CASE Parts!QueryFails(c)
  <2>1. PICK answer \in {"429", "error"} : client' = [client EXCEPT ![c] = Parts!Failed(o, answer)]
    BY <1>3 DEF Parts!QueryFails
  <2>2. kind' = kind /\ UNCHANGED service /\ o.pc \in {"query", "request"}
    BY <1>3 DEF Parts!QueryFails
  <2>3. Parts!Failed(o, answer) \in CallType
    BY <1>0, <2>2, FailedCall
  <2>4. CallOK(service', Parts!Failed(o, answer))
    BY <1>0, <2>2, FailedOK
  <2> QED
    BY <2>1, <2>2, <2>3, <2>4, CallInv
<1>4. CASE Parts!QueryAnswered(c)
  <2> DEFINE call == [o EXCEPT !.known = service.stored, !.news = {}, !.failures = 0]
             d == IF Parts!Polls(call) THEN Parts!Sleeping(call)
                  ELSE [call EXCEPT !.pc = IF call.commits THEN "compare" ELSE "returned"]
  <2>1. /\ client' = [client EXCEPT ![c] = d]
        /\ kind' = kind /\ UNCHANGED service /\ o.pc = "query"
    BY <1>4 DEF Parts!QueryAnswered
  <2>2. /\ call \in CallType /\ call.pc = "query"
        /\ call.known = service.stored /\ call.news = {}
    BY <1>0, <2>1 DEF CallType, PartsInv, PartsTypeOK
  <2> HIDE DEF call
  <2>3. d \in CallType
    BY <2>2 DEF CallType, Parts!Sleeping
  <2>4. /\ d.known = service.stored /\ d.news = {}
        /\ \/ d.pc = "sleep" /\ d.then = "query"
           \/ d.pc = "compare"
           \/ d.pc = "returned" /\ ~ d.commits
    BY <2>2 DEF CallType, Parts!Sleeping
  <2> HIDE DEF d
  <2>5. CallOK(service', d)
    BY <2>1, <2>4 DEF CallOK, KnowledgeOf, Requests
  <2> QED
    BY <2>1, <2>3, <2>5, CallInv
<1>5. CASE Parts!Wake(c)
  <2> DEFINE d == [o EXCEPT !.pc = o.then, !.then = "query"]
  <2>1. /\ client' = [client EXCEPT ![c] = d]
        /\ kind' = kind /\ UNCHANGED service /\ o.pc = "sleep"
    BY <1>5 DEF Parts!Wake
  <2>2. d \in CallType
    BY <1>0 DEF CallType
  <2>3. /\ d.pc = o.then /\ d.pc \in {"query", "request"} /\ d.known = o.known
        /\ d.news = o.news /\ d.list = o.list /\ d.commits = o.commits /\ d.checked = o.checked
    BY <1>0 DEF CallType
  <2> HIDE DEF d
  <2>4. Requests(d) => Requests(o)
    BY <2>1, <2>3 DEF Requests
  <2>5. CallOK(service', d)
    BY <1>0, <2>1, <2>3, <2>4 DEF CallOK, KnowledgeOf, Names
  <2> QED
    BY <2>1, <2>2, <2>5, CallInv
<1>6. CASE Parts!Compare(c)
  <2> DEFINE d == [o EXCEPT !.pc = IF Parts!Matches(o) THEN "request" ELSE "refused"]
  <2>1. /\ client' = [client EXCEPT ![c] = d]
        /\ kind' = kind /\ UNCHANGED service
    BY <1>6 DEF Parts!Compare
  <2>2. d \in CallType
    BY <1>0 DEF CallType
  <2>3. /\ d.known = o.known /\ d.news = o.news /\ d.list = o.list
        /\ d.pc = IF Parts!Matches(o) THEN "request" ELSE "refused"
    BY <1>0 DEF CallType
  <2> HIDE DEF d
  <2>4. Parts!Matches(d) <=> Parts!Matches(o)
    BY <2>3 DEF Parts!Matches, Parts!SameSize, Parts!SameLength
  <2>5. Parts!Matches(o) => Names(d)
    BY <1>0, <2>3, MatchNames DEF Names
  <2>6. CallOK(service', d)
    BY <1>0, <2>1, <2>3, <2>4, <2>5 DEF CallOK, KnowledgeOf, Requests
  <2> QED
    BY <2>1, <2>2, <2>6, CallInv
<1>7. CASE Parts!RequestFails(c)
  <2>1. PICK answer \in {"429", "error"} :
          /\ client' = [client EXCEPT ![c] = Parts!Failed(o, answer)]
          /\ Parts!ServiceCommits \/ UNCHANGED service
    BY <1>7 DEF Parts!RequestFails
  <2>2. kind' = kind /\ o.pc \in {"query", "request"}
    BY <1>7 DEF Parts!RequestFails
  <2>3. service'.stored = service.stored
    BY <2>1 DEF Parts!ServiceCommits, PartsInv, PartsTypeOK
  <2>4. Parts!Failed(o, answer) \in CallType
    BY <1>0, <2>2, FailedCall
  <2>5. CallOK(service', Parts!Failed(o, answer))
    BY <1>0, <2>2, <2>3, FailedOK
  <2> QED
    BY <2>1, <2>2, <2>4, <2>5, CallInv
<1>8. CASE Parts!RequestDone(c)
  <2> DEFINE d == [o EXCEPT !.pc = "returned"]
  <2>1. /\ client' = [client EXCEPT ![c] = d]
        /\ kind' = kind /\ o.pc = "request"
        /\ Parts!ServiceCommits \/ (service.status = "closed" /\ UNCHANGED service)
    BY <1>8 DEF Parts!RequestDone
  <2>2. service'.stored = service.stored /\ service'.status = "closed"
    BY <2>1 DEF Parts!ServiceCommits, PartsInv, PartsTypeOK
  <2>3. d \in CallType
    BY <1>0 DEF CallType
  <2>4. /\ d.pc = "returned" /\ d.known = o.known /\ d.news = o.news /\ d.list = o.list
        /\ d.commits = o.commits /\ d.checked = o.checked
    BY <1>0 DEF CallType
  <2> HIDE DEF d
  <2>5. Requests(d) => Requests(o)
    BY <2>1, <2>4 DEF Requests
  <2>6. CallOK(service', d)
    BY <1>0, <2>2, <2>4, <2>5 DEF CallOK, KnowledgeOf, Names
  <2> QED
    BY <2>1, <2>3, <2>6, CallInv
<1> QED
  BY <1>1, <1>2, <1>3, <1>4, <1>5, <1>6, <1>7, <1>8 DEF Parts!CallStep

\* A step of the service that leaves stored and committed parts alone, of a
\* session that is not closed, keeps the invariant.
LEMMA StatusInv ==
  ASSUME PartsInv, kind' = kind, client' = client, service.status # "closed",
         NEW status \in {"normal", "aborted"},
         service' = [service EXCEPT !.status = status]
  PROVE  PartsInv'
<1>1. PartsTypeOK'
  BY DEF PartsInv, PartsTypeOK
<1>2. ClosedInv'
  BY DEF PartsInv, PartsTypeOK, ClosedInv
<1>3. ASSUME NEW c \in Client
      PROVE  CallOK(service', client'[c])
  BY DEF PartsInv, PartsTypeOK, CallOK, KnowledgeOf
<1> QED
  BY <1>1, <1>2, <1>3, NextCallOK DEF PartsInv

\* Every step keeps the invariant.
LEMMA PartsStep ==
  ASSUME Parts!CommitAssumption, PartsInv, [Parts!Next]_(Parts!vars)
  PROVE  PartsInv'
<1>1. ASSUME NEW n \in Name, Parts!Write(n)
      PROVE  PartsInv'
  <2>1. CASE Parts!Stores(n)
    BY <1>1, <2>1, StoresInv DEF Parts!Write
  <2>2. CASE UNCHANGED <<service, client>>
    BY <1>1, <2>2 DEF Parts!Write, PartsInv, PartsTypeOK, ClosedInv, CallOK, KnowledgeOf, Requests, Names,
       Parts!Matches, Parts!SameSize, Parts!SameLength, Parts!RepeatsName
  <2> QED
    BY <1>1, <2>1, <2>2 DEF Parts!Write
<1>2. ASSUME NEW n \in Name, Parts!ArrivesLate(n)
      PROVE  PartsInv'
  BY <1>2, StoresInv DEF Parts!ArrivesLate
<1>3. CASE Parts!Abort
  BY <1>3, StatusInv DEF Parts!Abort
<1>4. CASE Parts!Prepared
  BY <1>4, StatusInv DEF Parts!Prepared
<1>5. ASSUME NEW c \in Client,
             \/ \E list \in List, listed \in BOOLEAN : Parts!CallCommit(c, list, listed)
             \/ \E waits \in BOOLEAN : Parts!CallQuery(c, waits)
             \/ Parts!CallStep(c)
      PROVE  PartsInv'
  BY <1>5, CallStepInv
<1>6. CASE UNCHANGED Parts!vars
  BY <1>6 DEF Parts!vars, PartsInv, PartsTypeOK, ClosedInv, CallOK, KnowledgeOf, Requests, Names, Parts!Matches,
     Parts!SameSize, Parts!SameLength, Parts!RepeatsName
<1> QED
  BY <1>1, <1>2, <1>3, <1>4, <1>5, <1>6 DEF Parts!Next, Parts!ServiceStep

\* The invariant gives the two properties.
LEMMA PartsMean ==
  ASSUME PartsInv
  PROVE  Parts!CommitsTheListed /\ Parts!RefusesOnlyOthers
<1>1. ASSUME NEW c \in Client, Parts!Committed(c)
      PROVE  /\ service.status = "closed"
             /\ client[c].checked =>
                  /\ Parts!ToSet(client[c].list) \subseteq service.committed
                  /\ \/ service.committed \subseteq Parts!ToSet(client[c].list) \cup client[c].news
                     \/ (kind = "files" /\ Parts!RepeatsName(client[c].list))
  <2>1. CallOK(service, client[c])
    BY DEF PartsInv
  <2>2. service.status = "closed" /\ service.committed = service.stored
    BY <1>1, <2>1 DEF CallOK, Parts!Committed, PartsInv, ClosedInv
  <2>3. client[c].checked => Names(client[c])
    BY <1>1, <2>1 DEF CallOK, Parts!Committed, Requests
  <2> QED
    BY <2>1, <2>2, <2>3 DEF CallOK, KnowledgeOf, Names
<1>2. ASSUME NEW c \in Client, client[c].pc = "refused",
             Parts!ToSet(client[c].list) = service.stored, client[c].news = {}
      PROVE  kind = "files" /\ Parts!RepeatsName(client[c].list)
  <2>1. client[c] \in CallType /\ CallOK(service, client[c])
    BY DEF PartsInv, PartsTypeOK
  <2>2. Parts!ToSet(client[c].list) = client[c].known
    BY <1>2, <2>1 DEF CallOK, KnowledgeOf
  <2>3. ~ Parts!Matches(client[c])
    BY <1>2, <2>1 DEF CallOK
  <2> QED
    BY <2>1, <2>2, <2>3, EqualMatches
<1> QED
  BY <1>1, <1>2 DEF Parts!CommitsTheListed, Parts!RefusesOnlyOthers

-----------------------------------------------------------------------------
(* An instance that is waited for.                                          *)

\* A task runs or has ended.
TaskStatus == {"Running"} \cup Wait!Ended

\* Types of the instance and of what the object has kept of it.
WaitTypeOK ==
  /\ service \in [status : {"Running", "Suspended", "Terminated"}, task : [Task -> TaskStatus]]
  /\ client.pc \in {"idle", "wait", "judge", "returned", "refused", "timeout", "threw"}
  /\ DOMAIN client.mTaskStatus # {} => client.mTaskStatus \in [Task -> TaskStatus]
  /\ client = [pc |-> client.pc, timeout |-> client.timeout, interval |-> client.interval,
               sleepTimeMs |-> client.sleepTimeMs, mTaskStatus |-> client.mTaskStatus]

\* No task of a terminated instance runs.
TerminatedInv == service.status = "Terminated" => \A t \in Task : service.task[t] \in Wait!Ended

\* A kept status of an ended task is the task's.
KeptInv ==
  DOMAIN client.mTaskStatus # {} =>
    \A t \in Task : client.mTaskStatus[t] \in Wait!Ended => service.task[t] = client.mTaskStatus[t]

\* A wait is judged at the instance's end, by the kept statuses.
JudgeInv ==
  /\ client.pc \in {"judge", "returned", "refused"} => service.status = "Terminated"
  /\ client.pc = "returned" => \A t \in Task : service.task[t] = "Success"
  /\ client.pc = "refused" =>
       DOMAIN client.mTaskStatus # {} /\ \E t \in Task : client.mTaskStatus[t] # "Success"

\* The invariant of an instance that is waited for.
WaitInv == WaitTypeOK /\ TerminatedInv /\ KeptInv /\ JudgeInv

\* A change of the instance that keeps ended tasks, and a terminated instance as
\* it is, keeps the invariant.
LEMMA InstanceInv ==
  ASSUME WaitInv, client' = client,
         NEW status \in {"Running", "Suspended", "Terminated"}, NEW task \in [Task -> TaskStatus],
         service' = [status |-> status, task |-> task],
         status = "Terminated" => \A t \in Task : task[t] \in Wait!Ended,
         \A t \in Task : service.task[t] \in Wait!Ended => task[t] = service.task[t],
         service.status = "Terminated" => status = "Terminated"
  PROVE  WaitInv'
<1>1. service'.status = status /\ service'.task = task
  OBVIOUS
<1>2. WaitTypeOK'
  BY DEF WaitInv, WaitTypeOK
<1>3. TerminatedInv'
  BY <1>1 DEF TerminatedInv
<1>4. KeptInv'
  BY <1>1 DEF WaitInv, KeptInv
<1>5. JudgeInv'
  BY <1>1 DEF WaitInv, JudgeInv, Wait!Ended
<1> QED
  BY <1>2, <1>3, <1>4, <1>5 DEF WaitInv

\* What the call of the object becomes keeps the invariant, if its statuses are
\* those it had or the instance's.
LEMMA WaitClientInv ==
  ASSUME WaitInv, service' = service, NEW pc, NEW timeout, NEW interval, NEW slept, NEW statuses,
         client' = [pc |-> pc, timeout |-> timeout, interval |-> interval,
                    sleepTimeMs |-> slept, mTaskStatus |-> statuses],
         statuses \in {client.mTaskStatus, service.task},
         \/ pc \in {"idle", "wait", "timeout", "threw"}
         \/ pc = client.pc /\ statuses = client.mTaskStatus
         \/ pc = client.pc /\ pc \notin {"wait", "judge"} /\ DOMAIN client.mTaskStatus = {}
         \/ pc = "judge" /\ service.status = "Terminated"
         \/ /\ client.pc = "judge"
            /\ pc = Wait!Verdict(statuses)
            /\ statuses = service.task \/ DOMAIN statuses # {}
  PROVE  WaitInv'
<1>1. /\ client'.pc = pc /\ client'.timeout = timeout /\ client'.interval = interval
      /\ client'.sleepTimeMs = slept /\ client'.mTaskStatus = statuses
  OBVIOUS
<1>2. DOMAIN statuses # {} => statuses \in [Task -> TaskStatus]
  BY DEF WaitInv, WaitTypeOK
<1>3. Wait!Verdict(statuses) \in {"returned", "refused"}
  BY DEF Wait!Verdict
<1>4. WaitTypeOK'
  BY <1>1, <1>2, <1>3 DEF WaitInv, WaitTypeOK
<1>5. TerminatedInv'
  BY DEF WaitInv, TerminatedInv
<1>6. KeptInv'
  BY <1>1 DEF WaitInv, KeptInv
<1>7. JudgeInv'
  <2>1. CASE client.pc = "judge" /\ pc = Wait!Verdict(statuses)
             /\ (statuses = service.task \/ DOMAIN statuses # {})
    <3>1. service.status = "Terminated"
      BY <2>1 DEF WaitInv, JudgeInv
    <3>2. CASE \A t \in Task : statuses[t] = "Success"
      <4>1. \A t \in Task : service.task[t] = "Success"
        BY <2>1, <3>2 DEF WaitInv, KeptInv, Wait!Ended
      <4>2. pc = "returned"
        BY <2>1, <3>2 DEF Wait!Verdict
      <4> QED
        BY <1>1, <3>1, <4>1, <4>2 DEF JudgeInv
    <3>3. CASE ~ \A t \in Task : statuses[t] = "Success"
      <4>1. pc = "refused"
        BY <2>1, <3>3 DEF Wait!Verdict
      <4>2. DOMAIN statuses # {}
        BY <2>1, <3>3 DEF WaitInv, WaitTypeOK
      <4> QED
        BY <1>1, <3>1, <3>3, <4>1, <4>2 DEF JudgeInv
    <3> QED
      BY <3>2, <3>3
  <2>2. CASE pc \in {"idle", "wait", "timeout", "threw"}
    BY <1>1, <2>2 DEF JudgeInv
  <2>3. CASE pc = client.pc /\ statuses = client.mTaskStatus
    BY <1>1, <2>3 DEF WaitInv, JudgeInv
  <2>4. CASE pc = client.pc /\ pc \notin {"wait", "judge"} /\ DOMAIN client.mTaskStatus = {}
    BY <1>1, <2>4 DEF WaitInv, JudgeInv
  <2>5. CASE pc = "judge" /\ service.status = "Terminated"
    BY <1>1, <2>5 DEF JudgeInv
  <2> QED
    BY <2>1, <2>2, <2>3, <2>4, <2>5
<1> QED
  BY <1>4, <1>5, <1>6, <1>7 DEF WaitInv

\* Every step keeps the invariant.
LEMMA WaitStep ==
  ASSUME WaitInv, [Wait!Next]_(Wait!vars)
  PROVE  WaitInv'
<1>0. /\ service \in [status : {"Running", "Suspended", "Terminated"}, task : [Task -> TaskStatus]]
      /\ client = [pc |-> client.pc, timeout |-> client.timeout, interval |-> client.interval,
                   sleepTimeMs |-> client.sleepTimeMs, mTaskStatus |-> client.mTaskStatus]
  BY DEF WaitInv, WaitTypeOK
<1>1. ASSUME NEW t \in Task, Wait!TaskEnds(t)
      PROVE  WaitInv'
  <2>1. PICK status \in Wait!Ended : service' = [service EXCEPT !.task[t] = status]
    BY <1>1 DEF Wait!TaskEnds
  <2> DEFINE task == [service.task EXCEPT ![t] = status]
  <2>2. service' = [status |-> "Running", task |-> task]
    BY <1>0, <1>1, <2>1 DEF Wait!TaskEnds
  <2>3. task \in [Task -> TaskStatus]
    BY <1>0 DEF TaskStatus
  <2>4. \A u \in Task : service.task[u] \in Wait!Ended => task[u] = service.task[u]
    BY <1>0, <1>1 DEF Wait!TaskEnds, Wait!Ended
  <2> HIDE DEF task
  <2>5. service.status = "Running" /\ client' = client
    BY <1>1 DEF Wait!TaskEnds
  <2> QED
    BY <2>2, <2>3, <2>4, <2>5, InstanceInv
<1>2. CASE Wait!InstanceMoves
  <2>1. PICK status \in {"Running", "Suspended", "Terminated"} :
          /\ service' = [service EXCEPT !.status = status]
          /\ status = "Terminated" => \A t \in Task : service.task[t] \in Wait!Ended
          /\ service.status # "Terminated"
    BY <1>2 DEF Wait!InstanceMoves
  <2>2. service' = [status |-> status, task |-> service.task]
    BY <1>0, <2>1
  <2>3. client' = client
    BY <1>2 DEF Wait!InstanceMoves
  <2> QED
    BY <1>0, <2>1, <2>2, <2>3, InstanceInv
<1>3. CASE Wait!Stop
  <2> DEFINE task == [t \in Task |->
                       IF service.task[t] \in Wait!Ended THEN service.task[t] ELSE "Cancelled"]
  <2>1. service' = [status |-> "Terminated", task |-> task] /\ client' = client
    BY <1>3 DEF Wait!Stop
  <2>2. task \in [Task -> TaskStatus] /\ \A t \in Task : task[t] \in Wait!Ended
    BY <1>0 DEF TaskStatus, Wait!Ended
  <2>3. \A t \in Task : service.task[t] \in Wait!Ended => task[t] = service.task[t]
    OBVIOUS
  <2> HIDE DEF task
  <2> QED
    BY <2>1, <2>2, <2>3, InstanceInv
<1>4. CASE Wait!AcquireTaskStatus
  <2>1. client' = [client EXCEPT !.mTaskStatus = service.task] /\ service' = service
    BY <1>4 DEF Wait!AcquireTaskStatus
  <2>2. client' = [pc |-> client.pc, timeout |-> client.timeout, interval |-> client.interval,
                   sleepTimeMs |-> client.sleepTimeMs, mTaskStatus |-> service.task]
    BY <1>0, <2>1
  <2>3. client.pc \notin {"wait", "judge"} /\ DOMAIN client.mTaskStatus = {}
    BY <1>4 DEF Wait!AcquireTaskStatus, Wait!Waiting
  <2> QED
    BY <2>1, <2>2, <2>3, WaitClientInv
<1>5. ASSUME NEW timeout \in Timeout, NEW interval \in Interval, Wait!CallWait(timeout, interval)
      PROVE  WaitInv'
  <2>1. client' = [pc |-> "wait", timeout |-> timeout, interval |-> interval,
                   sleepTimeMs |-> 0, mTaskStatus |-> client.mTaskStatus]
    BY <1>0, <1>5 DEF Wait!CallWait
  <2>2. service' = service
    BY <1>5 DEF Wait!CallWait
  <2> QED
    BY <2>1, <2>2, WaitClientInv
<1>6. CASE Wait!RequestFails
  <2>1. client' = [pc |-> "threw", timeout |-> client.timeout, interval |-> client.interval,
                   sleepTimeMs |-> client.sleepTimeMs, mTaskStatus |-> client.mTaskStatus]
    BY <1>0, <1>6 DEF Wait!RequestFails
  <2>2. service' = service
    BY <1>6 DEF Wait!RequestFails
  <2> QED
    BY <2>1, <2>2, WaitClientInv
<1>7. CASE client.pc = "wait" /\ client' = Wait!Polled /\ UNCHANGED service
  <2>1. PICK pc, slept :
          /\ client' = [client EXCEPT !.pc = pc, !.sleepTimeMs = slept]
          /\ pc \in {"wait", "timeout"} \/ (pc = "judge" /\ service.status = "Terminated")
    <3> DEFINE n == (client.sleepTimeMs + client.interval) % Word
    <3>1. CASE service.status = "Terminated"
      <4>1. client' = [client EXCEPT !.pc = "judge", !.sleepTimeMs = client.sleepTimeMs]
        BY <1>0, <1>7, <3>1 DEF Wait!Polled
      <4> QED
        BY <3>1, <4>1
    <3>2. CASE service.status # "Terminated" /\ n > client.timeout
      <4>1. client' = [client EXCEPT !.pc = "timeout", !.sleepTimeMs = client.sleepTimeMs]
        BY <1>0, <1>7, <3>2 DEF Wait!Polled
      <4> QED
        BY <4>1
    <3>3. CASE service.status # "Terminated" /\ ~ (n > client.timeout)
      <4>1. client' = [client EXCEPT !.sleepTimeMs = n]
        BY <1>7, <3>3, Zenon DEF Wait!Polled
      <4> HIDE DEF n
      <4>2. client' = [client EXCEPT !.pc = "wait", !.sleepTimeMs = n]
        BY <1>0, <1>7, <4>1
      <4> QED
        BY <4>2
    <3> QED
      BY <3>1, <3>2, <3>3
  <2>2. client' = [pc |-> pc, timeout |-> client.timeout, interval |-> client.interval,
                   sleepTimeMs |-> slept, mTaskStatus |-> client.mTaskStatus]
    BY <1>0, <2>1
  <2> QED
    BY <1>7, <2>1, <2>2, WaitClientInv
<1>8. CASE Wait!Judge /\ ~ Wait!RequestFails
  <2>1. PICK statuses \in {client.mTaskStatus, service.task} :
          /\ client' = [client EXCEPT !.mTaskStatus = statuses, !.pc = Wait!Verdict(statuses)]
          /\ statuses = service.task \/ DOMAIN statuses # {}
    <3>1. CASE client' = [client EXCEPT !.mTaskStatus = service.task,
                                        !.pc = Wait!Verdict(service.task)]
      BY <3>1
    <3>2. CASE /\ DOMAIN client.mTaskStatus # {}
               /\ client' = [client EXCEPT !.pc = Wait!Verdict(client.mTaskStatus)]
      <4>1. client' = [client EXCEPT !.mTaskStatus = client.mTaskStatus,
                                     !.pc = Wait!Verdict(client.mTaskStatus)]
        BY <1>0, <3>2
      <4> QED
        BY <3>2, <4>1
    <3> QED
      BY <1>8, <3>1, <3>2 DEF Wait!Judge
  <2>2. client.pc = "judge" /\ service' = service
    BY <1>8 DEF Wait!Judge
  <2>3. client' = [pc |-> Wait!Verdict(statuses), timeout |-> client.timeout,
                   interval |-> client.interval, sleepTimeMs |-> client.sleepTimeMs,
                   mTaskStatus |-> statuses]
    BY <1>0, <2>1
  <2> QED
    BY <2>1, <2>2, <2>3, WaitClientInv
<1>9. CASE UNCHANGED Wait!vars
  BY <1>9 DEF Wait!vars, WaitInv, WaitTypeOK, TerminatedInv, KeptInv, JudgeInv
<1> QED
  BY <1>1, <1>2, <1>3, <1>4, <1>5, <1>6, <1>7, <1>8, <1>9 DEF Wait!Next, Wait!WaitStep, Wait!Poll, Wait!Judge

\* An instance runs at first, and nothing is kept of it.
LEMMA WaitInit ==
  ASSUME Wait!Init
  PROVE  WaitInv
BY DEF Wait!Init, WaitInv, WaitTypeOK, TerminatedInv, KeptInv, JudgeInv, TaskStatus

\* The invariant gives the two properties.
LEMMA WaitMeans ==
  ASSUME WaitInv
  PROVE  Wait!ReturnsOnSuccess /\ Wait!RefusesFailed
<1>1. Wait!ReturnsOnSuccess
  BY DEF WaitInv, JudgeInv, Wait!ReturnsOnSuccess
<1>2. ASSUME client.pc = "refused"
      PROVE  \/ \E t \in Task : service.task[t] # "Success"
             \/ \E t \in Task : client.mTaskStatus[t] \notin Wait!Ended
  BY <1>2 DEF WaitInv, JudgeInv, KeptInv
<1> QED
  BY <1>1, <1>2 DEF Wait!RefusesFailed

-----------------------------------------------------------------------------
(* A file that is written and read.                                         *)

\* The first bytes of a sequence, and what follows them.
LEMMA FirstBytes ==
  ASSUME NEW S, NEW s \in Seq(S), NEW n \in Nat
  PROVE  /\ File!First(s, n) \in Seq(S)
         /\ Len(File!First(s, n)) = IF n < Len(s) THEN n ELSE Len(s)
         /\ \A i \in 1..Len(File!First(s, n)) : File!First(s, n)[i] = s[i]
<1> DEFINE m == IF n < Len(s) THEN n ELSE Len(s)
<1>1. m \in Nat /\ m <= Len(s) /\ File!First(s, n) = SubSeq(s, 1, m)
  BY DEF File!First
<1>2. \A i \in 1..m : s[i] \in S
  BY <1>1, ElementOfSeq
<1> HIDE DEF m
<1>3. /\ SubSeq(s, 1, m) \in Seq(S)
      /\ Len(SubSeq(s, 1, m)) = IF 1 <= m THEN m - 1 + 1 ELSE 0
      /\ \A i \in 1..(m - 1 + 1) : SubSeq(s, 1, m)[i] = s[1 + i - 1]
  BY <1>1, <1>2, SubSeqProperties
<1>4. Len(SubSeq(s, 1, m)) = m /\ \A i \in 1..m : SubSeq(s, 1, m)[i] = s[i]
  BY <1>1, <1>3
<1> QED
  BY <1>1, <1>3, <1>4 DEF m

\* What is left of a sequence after its first bytes.
LEMMA BytesFrom ==
  ASSUME NEW S, NEW s \in Seq(S), NEW n \in Nat
  PROVE  /\ File!From(s, n) \in Seq(S)
         /\ Len(File!From(s, n)) = IF n < Len(s) THEN Len(s) - n ELSE 0
         /\ \A i \in 1..Len(File!From(s, n)) : File!From(s, n)[i] = s[n + i]
<1> DEFINE f == SubSeq(s, n + 1, Len(s))
<1>1. \A i \in (n + 1)..Len(s) : s[i] \in S
  BY ElementOfSeq
<1>2. /\ f \in Seq(S)
      /\ Len(f) = IF n + 1 <= Len(s) THEN Len(s) - (n + 1) + 1 ELSE 0
      /\ \A i \in 1..(Len(s) - (n + 1) + 1) : f[i] = s[n + 1 + i - 1]
  BY <1>1, SubSeqProperties
<1>3. \A i \in 1..Len(f) : f[i] = s[n + i]
  BY <1>2
<1> QED
  BY <1>2, <1>3 DEF File!From

\* A prefix, place by place.
LEMMA PrefixByPlace ==
  ASSUME NEW S, NEW s \in Seq(S), NEW t \in Seq(S), Len(s) <= Len(t),
         \A i \in 1..Len(s) : s[i] = t[i]
  PROVE  SubSeq(s, 1, Len(s)) = SubSeq(t, 1, Len(s))
<1>1. \A i \in 1..Len(s) : s[i] \in S /\ t[i] \in S
  BY ElementOfSeq
<1>2. /\ SubSeq(s, 1, Len(s)) \in Seq(S) /\ SubSeq(t, 1, Len(s)) \in Seq(S)
      /\ Len(SubSeq(s, 1, Len(s))) = Len(s) /\ Len(SubSeq(t, 1, Len(s))) = Len(s)
      /\ \A i \in 1..Len(s) : SubSeq(s, 1, Len(s))[i] = s[i] /\ SubSeq(t, 1, Len(s))[i] = t[i]
  BY <1>1, SubSeqProperties
<1> QED
  BY <1>2, SeqEqual

\* The reader of a file.
ReaderType ==
  [mStreamId : BOOLEAN, mOffset : Nat, mCount : Int, mClosed : BOOLEAN,
   range : Nat \X ({-1} \cup (Nat \ {0})), pc : {"idle", "reading"}, input : Seq(Nat), inChunk : Nat,
   size : Nat, total : Nat, buf : Seq(Nat), got : Seq(Nat),
   result : {"none", "data", "end", "exception"}, longest : Nat, broke : BOOLEAN,
   threw : BOOLEAN]

\* Its writer.
WriterType ==
  [mStreamId : BOOLEAN, mClosed : BOOLEAN, written : Seq(Nat), threw : BOOLEAN,
   use : {"used", "destroyed", "terminated"}]

\* Types of the file, its writer and its reader.
FileTypeOK ==
  /\ inSession \in BOOLEAN
  /\ service \in [file : Seq(Nat), published : BOOLEAN, content : Seq(Nat),
                  status : {"normal", "closed", "canceled"}]
  /\ writer \in WriterType
  /\ reader \in ReaderType
  /\ faults \in Nat

\* The bytes 1 to n are in a file, each after the one before.
Holds(f, n) ==
  /\ \A i \in 1..n : \E p \in 1..Len(f) : f[p] = i
  /\ \A i, j \in 1..n : i < j =>
       \E p, q \in 1..Len(f) : p < q /\ f[p] = i /\ f[q] = j

\* While the service takes bytes, its file has all that were written, and no
\* others unless a Write threw; the published file is one that the service had
\* when it stopped to take more.
WriterInv ==
  /\ \A i \in 1..Len(writer.written) : writer.written[i] = i
  /\ ~ writer.mStreamId => writer.written = <<>> /\ service.file = <<>>
  /\ service.status = "normal" =>
       /\ Holds(service.file, Len(writer.written))
       /\ ~ writer.threw => service.file = writer.written
  /\ service.published <=> service.status = "closed"
  /\ service.published =>
       /\ Holds(service.content, Len(writer.written))
       /\ ~ writer.threw => service.content = writer.written

\* How many bytes the reader counts when it has asked for the length.
CountOf(r) ==
  LET rest == Len(service.content) - r.range[1]
  IN  IF r.range[2] > 0 /\ rest > 0 THEN IF r.range[2] < rest THEN r.range[2] ELSE rest
      ELSE Len(service.content)

\* The bytes that the caller has and those that are in its buffer are the file's
\* from the start of the range on, and the reader stands after them.
Follows(r) ==
  /\ r.mOffset = r.range[1] + Len(r.got) + r.total
  /\ r.mCount = IF r.mStreamId THEN CountOf(r) - Len(r.got) - r.total ELSE r.range[2]
  /\ r.mCount >= -1 /\ (r.mStreamId => r.mCount >= 0)
  /\ ~ r.mStreamId => r.got = <<>> /\ r.total = 0 /\ r.pc = "idle" /\ r.result # "end"
  /\ r.mStreamId => service.published
  /\ Len(r.got) + r.total > 0 => r.range[1] + Len(r.got) + r.total <= Len(service.content)
  /\ \A i \in 1..Len(r.got) : r.got[i] = service.content[r.range[1] + i]

\* A Read that runs has taken nothing, or all that it will take, in one piece.
TakesOnce(r) ==
  r.pc = "reading" =>
    /\ r.mStreamId
    /\ \/ /\ r.total = 0 /\ r.buf = <<>> /\ r.inChunk = 0
          /\ r.size \in 1..ChunkSize
          /\ r.mCount > 0 /\ r.size <= r.mCount
          /\ r.input = File!Answer(r)
       \/ /\ r.total > 0 /\ Len(r.buf) = r.total
          /\ \A i \in 1..r.total : r.buf[i] = service.content[r.range[1] + Len(r.got) + i]
          /\ r.size = 0 \/ r.input = <<>>

\* The end is told where the range ends.
EndsThere(r) ==
  r.result = "end" /\ ~ r.broke =>
    Len(r.got) = Len(File!From(service.content, r.range[1]))
      \/ (r.range[2] > 0 /\ Len(r.got) = r.range[2])

\* A reader that read no more than a chunk at once and did not throw is right.
ReaderInv ==
  /\ reader.pc = "idle" => reader.total = 0
  /\ reader.longest <= ChunkSize /\ ~ reader.threw =>
       Follows(reader) /\ TakesOnce(reader) /\ EndsThere(reader)

\* The invariant of a file that is written and read.
FileInv == FileTypeOK /\ WriterInv /\ ReaderInv

\* Nothing is written or read at first.
LEMMA FileInit ==
  ASSUME SessionsAssumption, File!Init
  PROVE  FileInv
<1>1. MaxData \in Nat
  BY DEF SessionsAssumption, File!FileAssumption
<1>2. PICK range \in File!Ranges, session \in BOOLEAN : File!InitWith(range, session)
  BY DEF File!Init
<1>3. range \in Nat \X ({-1} \cup (Nat \ {0}))
  BY <1>1, <1>2 DEF File!Ranges
<1>4. FileTypeOK
  BY <1>2, <1>3 DEF File!InitWith, FileTypeOK, WriterType, ReaderType
<1>5. WriterInv
  BY <1>2 DEF File!InitWith, WriterInv, Holds
<1>6. ReaderInv
  BY <1>2, <1>3 DEF File!InitWith, ReaderInv, Follows, TakesOnce, EndsThere
<1> QED
  BY <1>4, <1>5, <1>6 DEF FileInv

\* Bytes that are written behind a file leave those before them in place.
LEMMA HoldsBehind ==
  ASSUME NEW f \in Seq(Nat), NEW x \in Seq(Nat), NEW n \in Nat, Holds(f, n)
  PROVE  Holds(f \o x, n)
<1>1. /\ f \o x \in Seq(Nat) /\ Len(f \o x) = Len(f) + Len(x)
      /\ \A p \in 1..Len(f) : p \in 1..Len(f \o x) /\ (f \o x)[p] = f[p]
  OBVIOUS
<1>2. ASSUME NEW i \in 1..n
      PROVE  \E p \in 1..Len(f \o x) : (f \o x)[p] = i
  BY <1>1 DEF Holds
<1>3. ASSUME NEW i \in 1..n, NEW j \in 1..n, i < j
      PROVE  \E p, q \in 1..Len(f \o x) : p < q /\ (f \o x)[p] = i /\ (f \o x)[q] = j
  <2>1. PICK p \in 1..Len(f), q \in 1..Len(f) : p < q /\ f[p] = i /\ f[q] = j
    BY <1>3 DEF Holds
  <2> QED
    BY <2>1, <1>1
<1> QED
  BY <1>2, <1>3 DEF Holds

\* The next bytes that are written are held behind those before them.
LEMMA HoldsNext ==
  ASSUME NEW f \in Seq(Nat), NEW n \in Nat, NEW k \in Nat, Holds(f, n)
  PROVE  Holds(f \o [i \in 1..k |-> n + i], n + k)
<1> DEFINE x == [i \in 1..k |-> n + i]
           g == f \o x
<1>1. x \in Seq(Nat) /\ Len(x) = k /\ \A i \in 1..k : x[i] = n + i
  OBVIOUS
<1> HIDE DEF x
<1>2. /\ Len(f) \in Nat /\ g \in Seq(Nat) /\ Len(g) = Len(f) + k
      /\ \A p \in 1..(Len(f) + k) : g[p] = IF p <= Len(f) THEN f[p] ELSE x[p - Len(f)]
  <2>1. /\ f \o x \in Seq(Nat) /\ Len(f \o x) = Len(f) + Len(x)
        /\ \A p \in 1..(Len(f) + Len(x)) : (f \o x)[p] = IF p <= Len(f) THEN f[p] ELSE x[p - Len(f)]
    BY <1>1, ConcatProperties
  <2> QED
    BY <2>1, <1>1
<1> HIDE DEF g
<1>7. ASSUME NEW p \in 1..Len(f)
      PROVE  p \in 1..Len(g) /\ g[p] = f[p]
  <2>1. p \in 1..(Len(f) + k) /\ p <= Len(f)
    BY <1>2
  <2> QED
    BY <2>1, <1>2
<1>3. ASSUME NEW i \in (n + 1)..(n + k)
      PROVE  /\ Len(f) + (i - n) \in (Len(f) + 1)..Len(g)
             /\ g[Len(f) + (i - n)] = i
  <2> DEFINE p == Len(f) + (i - n)
  <2>1. i - n \in 1..k /\ p \in (Len(f) + 1)..(Len(f) + k) /\ p - Len(f) = i - n
    BY <1>2
  <2>2. x[i - n] = i
    BY <2>1, <1>1
  <2> HIDE DEF p
  <2>3. g[p] = x[p - Len(f)]
    BY <2>1, <1>2
  <2> QED
    BY <2>1, <2>2, <2>3, <1>2 DEF p
<1>4. \A i \in 1..n : \E p \in 1..Len(f) : g[p] = i
  BY <1>7 DEF Holds
<1>5. ASSUME NEW i \in 1..(n + k)
      PROVE  \E p \in 1..Len(g) : g[p] = i
  <2>1. CASE i <= n
    BY <2>1, <1>4, <1>7
  <2>2. CASE i > n
    BY <2>2, <1>3
  <2> QED
    BY <2>1, <2>2
<1>6. ASSUME NEW i \in 1..(n + k), NEW j \in 1..(n + k), i < j
      PROVE  \E p, q \in 1..Len(g) : p < q /\ g[p] = i /\ g[q] = j
  <2>1. CASE j <= n
    <3>1. i \in 1..n /\ j \in 1..n
      BY <2>1, <1>6
    <3>2. PICK p \in 1..Len(f), q \in 1..Len(f) : p < q /\ f[p] = i /\ f[q] = j
      BY <3>1, <1>6 DEF Holds
    <3>3. p \in 1..Len(g) /\ q \in 1..Len(g) /\ g[p] = i /\ g[q] = j
      BY <3>2, <1>7
    <3> QED
      BY <3>2, <3>3
  <2>2. CASE i <= n /\ j > n
    <3>1. PICK p \in 1..Len(f) : g[p] = i
      BY <2>2, <1>4
    <3>2. j \in (n + 1)..(n + k)
      BY <2>2
    <3> DEFINE q == Len(f) + (j - n)
    <3>3. q \in (Len(f) + 1)..Len(g) /\ g[q] = j
      BY <3>2, <1>3
    <3> HIDE DEF q
    <3> QED
      BY <3>1, <3>3, <1>7, <1>2
  <2>3. CASE i > n
    <3>1. i \in (n + 1)..(n + k) /\ j \in (n + 1)..(n + k)
      BY <2>3, <1>6
    <3> DEFINE p == Len(f) + (i - n)
               q == Len(f) + (j - n)
    <3>2. p \in 1..Len(g) /\ q \in 1..Len(g) /\ g[p] = i /\ g[q] = j /\ p < q
      BY <3>1, <1>3, <1>6
    <3> HIDE DEF p, q
    <3> QED
      BY <3>2
  <2> QED
    BY <2>1, <2>2, <2>3
<1> QED
  BY <1>5, <1>6 DEF Holds, g, x

\* A reader whose file does not change stays as it is, and so does one that has
\* not begun when the file is published.
LEMMA ReaderStays ==
  ASSUME FileInv, reader' = reader,
         \/ service'.content = service.content /\ service'.published = service.published
         \/ ~ service.published
  PROVE  ReaderInv'
<1>1. CASE service'.content = service.content /\ service'.published = service.published
  BY <1>1 DEF FileInv, ReaderInv, Follows, TakesOnce, EndsThere, CountOf, File!Answer
<1>2. CASE ~ service.published
  <2>1. reader \in ReaderType /\ (reader.pc = "idle" => reader.total = 0)
    BY DEF FileInv, FileTypeOK, ReaderInv
  <2>2. ASSUME reader.longest <= ChunkSize, ~ reader.threw
        PROVE  (Follows(reader) /\ TakesOnce(reader) /\ EndsThere(reader))'
    <3>1. Follows(reader)
      BY <2>2 DEF FileInv, ReaderInv
    <3>2. /\ ~ reader.mStreamId /\ reader.got = <<>> /\ reader.total = 0 /\ reader.pc = "idle"
          /\ reader.result # "end"
      BY <3>1, <1>2 DEF Follows
    <3>3. Len(reader.got) = 0
      BY <3>2
    <3>4. Follows(reader)'
      BY <3>1, <3>2, <3>3, <2>1 DEF Follows, ReaderType
    <3> QED
      BY <3>2, <3>4 DEF TakesOnce, EndsThere
  <2> QED
    BY <2>1, <2>2 DEF ReaderInv
<1> QED
  BY <1>1, <1>2

\* The service keeps what it has published, whatever is written then.
LEMMA FileKept ==
  ASSUME FileInv, UNCHANGED <<inSession, reader>>, NEW f \in Seq(Nat), NEW w \in WriterType,
         service' = [service EXCEPT !.file = f], writer' = w, faults' \in Nat,
         \A i \in 1..Len(w.written) : w.written[i] = i,
         ~ w.mStreamId => w.written = <<>> /\ f = <<>>,
         service.status = "normal" =>
           Holds(f, Len(w.written)) /\ (~ w.threw => f = w.written),
         service.status # "normal" =>
           w.written = writer.written /\ (~ w.threw => ~ writer.threw)
  PROVE  FileInv'
<1>1. /\ service' = [file |-> f, published |-> service.published,
                     content |-> service.content, status |-> service.status]
      /\ service \in [file : Seq(Nat), published : BOOLEAN, content : Seq(Nat),
                      status : {"normal", "closed", "canceled"}]
  BY DEF FileInv, FileTypeOK
<1>2. FileTypeOK'
  BY <1>1 DEF FileInv, FileTypeOK
<1>3. WriterInv'
  <2>1. service.published => service.status # "normal"
    BY DEF FileInv, WriterInv
  <2>2. service.published =>
          /\ Holds(service.content, Len(w.written))
          /\ ~ w.threw => service.content = w.written
    BY <2>1 DEF FileInv, WriterInv
  <2> QED
    BY <1>1, <2>2 DEF FileInv, WriterInv, Holds
<1>4. ReaderInv'
  BY <1>1, ReaderStays
<1> QED
  BY <1>2, <1>3, <1>4 DEF FileInv

\* A file is published as it is.
LEMMA FilePublished ==
  ASSUME FileInv, UNCHANGED <<inSession, reader>>, NEW w \in WriterType,
         service.status = "normal", service' = File!Published(service),
         writer' = w, faults' \in Nat,
         w.written = writer.written, w.mStreamId = writer.mStreamId,
         ~ w.threw => ~ writer.threw
  PROVE  FileInv'
<1>1. /\ service' = [file |-> service.file, published |-> TRUE,
                     content |-> service.file, status |-> "closed"]
      /\ service \in [file : Seq(Nat), published : BOOLEAN, content : Seq(Nat),
                      status : {"normal", "closed", "canceled"}]
  BY DEF FileInv, FileTypeOK, File!Published
<1>2. FileTypeOK'
  BY <1>1 DEF FileInv, FileTypeOK
<1>3. WriterInv'
  <2>1. /\ service'.file = service.file /\ service'.content = service.file
        /\ service'.published /\ service'.status = "closed"
    BY <1>1
  <2>2. /\ writer'.written = writer.written /\ writer'.mStreamId = writer.mStreamId
        /\ ~ writer'.threw => ~ writer.threw
    OBVIOUS
  <2>3. /\ \A i \in 1..Len(writer.written) : writer.written[i] = i
        /\ ~ writer.mStreamId => writer.written = <<>> /\ service.file = <<>>
        /\ Holds(service.file, Len(writer.written))
        /\ ~ writer.threw => service.file = writer.written
    BY DEF FileInv, WriterInv
  <2>4. Holds(service'.content, Len(writer'.written))
    BY <2>1, <2>2, <2>3
  <2>5. \A i \in 1..Len(writer'.written) : writer'.written[i] = i
    BY <2>2, <2>3
  <2>6. /\ ~ writer'.mStreamId => writer'.written = <<>> /\ service'.file = <<>>
        /\ ~ writer'.threw => service'.content = writer'.written
    BY <2>1, <2>2, <2>3
  <2> QED
    BY <2>1, <2>4, <2>5, <2>6 DEF WriterInv
<1>4. ReaderInv'
  <2>1. ~ service.published
    BY DEF FileInv, WriterInv
  <2> QED
    BY <2>1, ReaderStays
<1> QED
  BY <1>2, <1>3, <1>4 DEF FileInv

\* A Write sends its bytes once more for every failed request, so the file of the
\* service may have them twice but never misses one.
LEMMA WriteInv ==
  ASSUME FileInv, NEW n \in 0..MaxData, File!Write(n), SessionsAssumption
  PROVE  FileInv'
<1> DEFINE m == Len(writer.written)
<1>0. MaxData \in Nat /\ MaxFaults \in Nat
  BY DEF SessionsAssumption, File!FileAssumption
<1>1. /\ service \in [file : Seq(Nat), published : BOOLEAN, content : Seq(Nat),
                      status : {"normal", "closed", "canceled"}]
      /\ writer \in WriterType /\ m \in Nat /\ faults \in Nat
      /\ UNCHANGED <<inSession, reader>>
  BY DEF FileInv, FileTypeOK, WriterType, File!Write
<1>2. File!Opened(writer, service) = service
  BY <1>1 DEF FileInv, WriterInv, File!Opened, WriterType
<1>3. \A k \in Nat : /\ File!NextBytes(k) \in Seq(Nat)
                     /\ File!NextBytes(k) = [i \in 1..k |-> m + i]
  BY <1>1 DEF File!NextBytes
<1>4. File!Faulty => faults' \in Nat
  BY <1>1, <1>0 DEF File!Faulty
<1> DEFINE open == [writer EXCEPT !.mStreamId = TRUE]
<1>5. open \in WriterType /\ open.written = writer.written /\ open.threw = writer.threw
        /\ open.mStreamId
  BY <1>1 DEF WriterType
<1>6. \/ /\ service.status = "normal"
         /\ service' = [service EXCEPT !.file = @ \o File!NextBytes(n)]
         /\ writer' = [open EXCEPT !.written = @ \o File!NextBytes(n)]
         /\ UNCHANGED faults
      \/ /\ File!Faulty
         /\ writer' = [open EXCEPT !.threw = TRUE]
         /\ \E k \in 0..n : service' = [service EXCEPT !.file = @ \o File!NextBytes(k)]
      \/ /\ File!Faulty \/ UNCHANGED faults
         /\ writer' = [writer EXCEPT !.threw = TRUE]
         /\ UNCHANGED service
  BY <1>2 DEF File!Write, File!Threw
<1> HIDE DEF m, open
<1>7. CASE /\ service.status = "normal"
           /\ service' = [service EXCEPT !.file = @ \o File!NextBytes(n)]
           /\ writer' = [open EXCEPT !.written = @ \o File!NextBytes(n)]
           /\ UNCHANGED faults
  <2> DEFINE x == File!NextBytes(n)
             f == service.file \o x
             w == [open EXCEPT !.written = writer.written \o x]
  <2>1. x \in Seq(Nat) /\ x = [i \in 1..n |-> m + i] /\ Len(x) = n /\ n \in Nat
    BY <1>3, <1>0
  <2>2. Holds(f, m + n)
    <3>1. Holds(service.file, m)
      BY <1>7 DEF FileInv, WriterInv, m
    <3>2. service.file \in Seq(Nat)
      BY <1>1
    <3>3. Holds(service.file \o [i \in 1..n |-> m + i], m + n)
      BY <3>1, <3>2, <2>1, <1>1, HoldsNext
    <3> QED
      BY <3>3, <2>1
  <2> HIDE DEF x
  <2>3. /\ writer.written \in Seq(Nat) /\ service.file \in Seq(Nat)
        /\ writer.written \o x \in Seq(Nat) /\ f \in Seq(Nat)
        /\ Len(writer.written \o x) = m + n
        /\ \A i \in 1..m : (writer.written \o x)[i] = writer.written[i]
        /\ \A i \in (m + 1)..(m + n) : (writer.written \o x)[i] = x[i - m]
    BY <2>1, <1>1, ConcatProperties DEF WriterType, m
  <2>4. w \in WriterType /\ w.written = writer.written \o x /\ w.threw = writer.threw /\ w.mStreamId
    BY <2>3, <1>5 DEF WriterType
  <2>5. \A i \in 1..Len(w.written) : w.written[i] = i
    <3>1. ASSUME NEW i \in 1..(m + n)
          PROVE  (writer.written \o x)[i] = i
      <4>0. m \in Nat /\ n \in Nat /\ i \in Nat
        BY <1>1, <2>1
      <4>1. CASE i <= m
        BY <4>1, <2>3 DEF FileInv, WriterInv, m
      <4>2. CASE i > m
        <5>1. i \in (m + 1)..(m + n) /\ i - m \in 1..n
          BY <4>2, <1>1
        <5>2. x[i - m] = m + (i - m)
          BY <5>1, <2>1
        <5>3. m + (i - m) = i
          BY <4>0
        <5>4. (writer.written \o x)[i] = x[i - m]
          BY <5>1, <2>3
        <5> QED
          BY <5>2, <5>3, <5>4
      <4>3. i <= m \/ i > m
        BY <4>0
      <4> QED
        BY <4>1, <4>2, <4>3
    <3> QED
      BY <3>1, <2>3, <2>4
  <2>6. ~ w.threw => f = w.written
    BY <2>4, <1>7 DEF FileInv, WriterInv
  <2>7. service' = [service EXCEPT !.file = f] /\ writer' = w /\ faults' \in Nat
    BY <1>7, <1>5, <1>1 DEF x
  <2>8. Holds(f, Len(w.written))
    BY <2>2, <2>3, <2>4
  <2> HIDE DEF f, w
  <2> QED
    BY <2>3, <2>4, <2>5, <2>6, <2>7, <2>8, <1>1, <1>7, FileKept
<1>8. CASE /\ File!Faulty
           /\ writer' = [open EXCEPT !.threw = TRUE]
           /\ \E k \in 0..n : service' = [service EXCEPT !.file = @ \o File!NextBytes(k)]
  <2>1. PICK k \in 0..n : service' = [service EXCEPT !.file = @ \o File!NextBytes(k)]
    BY <1>8
  <2> DEFINE x == File!NextBytes(k)
             f == service.file \o x
             w == [open EXCEPT !.threw = TRUE]
  <2>2. x \in Seq(Nat) /\ service.file \in Seq(Nat) /\ f \in Seq(Nat)
    BY <1>3, <1>1, <1>0
  <2>3. w \in WriterType /\ w.written = writer.written /\ w.threw /\ w.mStreamId
    BY <1>5 DEF WriterType
  <2>4. service.status = "normal" => Holds(f, Len(w.written))
    <3>1. service.status = "normal" => Holds(service.file, m)
      BY DEF FileInv, WriterInv, m
    <3> QED
      BY <3>1, <2>2, <2>3, <1>1, HoldsBehind DEF m
  <2>5. \A i \in 1..Len(w.written) : w.written[i] = i
    BY <2>3 DEF FileInv, WriterInv
  <2>6. service' = [service EXCEPT !.file = f] /\ writer' = w /\ faults' \in Nat
    BY <2>1, <1>8, <1>4
  <2> HIDE DEF f, w
  <2> QED
    BY <2>2, <2>3, <2>4, <2>5, <2>6, <1>1, FileKept
<1>9. CASE /\ File!Faulty \/ UNCHANGED faults
           /\ writer' = [writer EXCEPT !.threw = TRUE]
           /\ UNCHANGED service
  <2> DEFINE w == [writer EXCEPT !.threw = TRUE]
  <2>1. w \in WriterType /\ w.written = writer.written /\ w.threw /\ w.mStreamId = writer.mStreamId
    BY <1>1 DEF WriterType
  <2>2. service' = [service EXCEPT !.file = service.file] /\ service.file \in Seq(Nat)
    BY <1>9, <1>1
  <2>3. writer' = w /\ faults' \in Nat
    BY <1>9, <1>4, <1>1
  <2>4. /\ \A i \in 1..Len(w.written) : w.written[i] = i
        /\ ~ w.mStreamId => w.written = <<>> /\ service.file = <<>>
        /\ service.status = "normal" => Holds(service.file, Len(w.written))
    BY <2>1 DEF FileInv, WriterInv
  <2> HIDE DEF w
  <2> QED
    BY <2>1, <2>2, <2>3, <2>4, <1>1, FileKept
<1> QED
  BY <1>6, <1>7, <1>8, <1>9

\* Closing, committing and aborting leave what was written.
LEMMA WriterEndsInv ==
  ASSUME FileInv, SessionsAssumption,
         \/ \E by \in {"caller", "destructor"} : File!CloseStream(by)
         \/ File!CommitSession
         \/ File!AbortSession
  PROVE  FileInv'
<1>0. MaxFaults \in Nat
  BY DEF SessionsAssumption, File!FileAssumption
<1>1. /\ service \in [file : Seq(Nat), published : BOOLEAN, content : Seq(Nat),
                      status : {"normal", "closed", "canceled"}]
      /\ writer \in WriterType /\ faults \in Nat
      /\ service.file \in Seq(Nat)
  BY DEF FileInv, FileTypeOK
<1>2. UNCHANGED <<inSession, reader>>
  BY DEF File!CloseStream, File!CommitSession, File!AbortSession
<1>3. faults' \in Nat
  BY <1>0, <1>1 DEF File!CloseStream, File!CommitSession, File!AbortSession, File!Faulty
<1>4. /\ writer' \in WriterType
      /\ writer'.written = writer.written /\ writer'.mStreamId = writer.mStreamId
      /\ ~ writer'.threw => ~ writer.threw
  <2>1. CASE \E by \in {"caller", "destructor"} : File!CloseStream(by)
    BY <2>1, <1>1 DEF File!CloseStream, File!Threw, WriterType
  <2>2. CASE File!CommitSession \/ File!AbortSession
    BY <2>2, <1>1 DEF File!CommitSession, File!AbortSession, File!Threw, WriterType
  <2> QED
    BY <2>1, <2>2
<1>5. \/ service.status = "normal" /\ service' = File!Published(service)
      \/ service' = service
      \/ service.status = "normal" /\ service' = [service EXCEPT !.status = "canceled"]
  BY DEF File!CloseStream, File!CommitSession, File!AbortSession, File!Closable
<1>6. CASE service.status = "normal" /\ service' = File!Published(service)
  BY <1>2, <1>3, <1>4, <1>6, FilePublished
<1>7. CASE service' = service
  <2>1. service' = [service EXCEPT !.file = service.file]
    BY <1>7, <1>1
  <2>2. /\ \A i \in 1..Len(writer'.written) : writer'.written[i] = i
        /\ ~ writer'.mStreamId => writer'.written = <<>> /\ service.file = <<>>
        /\ service.status = "normal" =>
             Holds(service.file, Len(writer'.written)) /\ (~ writer'.threw => service.file = writer'.written)
    BY <1>4 DEF FileInv, WriterInv
  <2> QED
    BY <2>1, <2>2, <1>1, <1>2, <1>3, <1>4, FileKept
<1>8. CASE service.status = "normal" /\ service' = [service EXCEPT !.status = "canceled"]
  <2>1. service' = [file |-> service.file, published |-> service.published,
                    content |-> service.content, status |-> "canceled"]
    BY <1>8, <1>1
  <2>2. FileTypeOK'
    BY <2>1, <1>1, <1>2, <1>3, <1>4 DEF FileInv, FileTypeOK
  <2>3. WriterInv'
    BY <2>1, <1>4, <1>8 DEF FileInv, WriterInv, Holds
  <2>4. ReaderInv'
    BY <2>1, <1>2, ReaderStays
  <2> QED
    BY <2>2, <2>3, <2>4 DEF FileInv
<1> QED
  BY <1>5, <1>6, <1>7, <1>8

\* A step of the reader leaves the file.
LEMMA ReaderMoves ==
  ASSUME FileInv, UNCHANGED <<inSession, service, writer>>, reader' \in ReaderType,
         faults' \in Nat, ReaderInv'
  PROVE  FileInv'
<1>1. FileTypeOK'
  BY DEF FileInv, FileTypeOK
<1>2. WriterInv'
  BY DEF FileInv, WriterInv, Holds
<1> QED
  BY <1>1, <1>2 DEF FileInv

\* An exception ends what is promised to the caller.
LEMMA ThrownReader ==
  ASSUME NEW r \in ReaderType
  PROVE  LET t == File!Thrown(r)
         IN  /\ t \in ReaderType
             /\ t = [r EXCEPT !.result = "exception", !.threw = TRUE]
             /\ t.threw /\ t.pc = r.pc /\ t.total = r.total
  BY DEF File!Thrown, ReaderType

\* Asking for the length counts the bytes of the range.
LEMMA CountedReader ==
  ASSUME FileInv, service.published, reader.pc = "idle", reader.result # "end"
  PROVE  LET r == File!Counted(reader)
         IN  /\ r \in ReaderType /\ r.mStreamId
             /\ r.pc = "idle" /\ r.total = 0 /\ r.longest = reader.longest
             /\ r.threw = reader.threw /\ r.result = reader.result /\ r.broke = reader.broke
             /\ r.longest <= ChunkSize /\ ~ r.threw => Follows(r)
<1> DEFINE r == File!Counted(reader)
<1>1. /\ reader \in ReaderType /\ service.content \in Seq(Nat)
      /\ reader.total = 0
  BY DEF FileInv, FileTypeOK, ReaderInv
<1>2. Len(service.content) \in Nat /\ reader.mOffset \in Nat /\ reader.mCount \in Int
  BY <1>1 DEF ReaderType
<1>3. CASE reader.mStreamId
  BY <1>1, <1>3 DEF FileInv, ReaderInv, File!Counted
<1>4. CASE ~ reader.mStreamId
  <2> DEFINE rest == Len(service.content) - reader.mOffset
             n == IF reader.mCount > 0 /\ rest > 0
                  THEN IF reader.mCount < rest THEN reader.mCount ELSE rest
                  ELSE Len(service.content)
  <2>1. r = [reader EXCEPT !.mStreamId = TRUE, !.mCount = n]
    BY <1>4 DEF File!Counted
  <2>2. n \in Int /\ n >= 0
    BY <1>2
  <2>3. /\ r \in ReaderType /\ r.mStreamId /\ r.mCount = n
        /\ r.pc = "idle" /\ r.total = 0 /\ r.longest = reader.longest
        /\ r.threw = reader.threw /\ r.result = reader.result /\ r.broke = reader.broke
        /\ r.got = reader.got /\ r.range = reader.range /\ r.mOffset = reader.mOffset
    BY <2>1, <2>2, <1>1, ZenonT(30) DEF ReaderType
  <2>4. ASSUME r.longest <= ChunkSize, ~ r.threw
        PROVE  Follows(r)
    <3>1. Follows(reader)
      BY <2>3, <2>4 DEF FileInv, ReaderInv
    <3>2. /\ reader.got = <<>> /\ Len(reader.got) = 0
          /\ reader.mOffset = reader.range[1] + Len(reader.got) + reader.total
          /\ reader.mCount = reader.range[2]
          /\ reader.range[1] \in Nat /\ reader.range[2] \in Int
      BY <3>1, <1>4, <1>1 DEF Follows, ReaderType
    <3>3. reader.mOffset = reader.range[1]
      BY <3>2, <1>1
    <3> HIDE DEF n
    <3>4. n = CountOf(r)
      BY <3>2, <3>3, <2>3 DEF n, CountOf
    <3> HIDE DEF r
    <3> QED
      BY <3>2, <3>3, <3>4, <2>2, <2>3, <1>1 DEF Follows
  <2> HIDE DEF r, n
  <2> QED
    BY <2>3, <2>4 DEF r
<1> QED
  BY <1>3, <1>4

\* A Read that starts has an open file before it and has taken nothing.
LEMMA ReadInv ==
  ASSUME FileInv, SessionsAssumption, NEW len \in 1..MaxRead, File!Read(len)
  PROVE  FileInv'
<1> DEFINE r == File!Counted(reader)
<1>0. MaxFaults \in Nat /\ MaxRead \in Nat /\ ChunkSize \in Nat /\ len \in Nat /\ len >= 1
  BY DEF SessionsAssumption, File!FileAssumption
<1>1. /\ service.published /\ reader.pc = "idle" /\ reader.result # "end"
      /\ UNCHANGED <<inSession, service, writer>>
      /\ reader \in ReaderType /\ service.content \in Seq(Nat) /\ faults \in Nat
  BY DEF File!Read, File!CanRead, FileInv, FileTypeOK
<1>2. /\ r \in ReaderType /\ r.mStreamId
      /\ r.pc = "idle" /\ r.total = 0 /\ r.longest = reader.longest
      /\ r.threw = reader.threw /\ r.result = reader.result /\ r.broke = reader.broke
      /\ r.longest <= ChunkSize /\ ~ r.threw => Follows(r)
  BY <1>1, CountedReader
<1>3. faults' \in Nat
  BY <1>0, <1>1 DEF File!Read, File!Faulty
<1> DEFINE size == IF r.mCount > 0 /\ r.mCount < len THEN r.mCount ELSE len
           opened == [r EXCEPT !.pc = "reading", !.input = File!Answer(r), !.inChunk = 0,
                               !.size = size, !.total = 0, !.buf = <<>>,
                               !.longest = File!Longest(r, len)]
<1>4. \/ r.mCount = 0 /\ reader' = [r EXCEPT !.result = "end"]
      \/ r.mCount # 0 /\ reader' = opened
      \/ reader' = File!Thrown(r)
      \/ reader' = File!Thrown(reader)
  BY DEF File!Read
<1>5. \A q \in ReaderType : q.pc = "idle" /\ q.total = 0 /\ reader' = File!Thrown(q) => FileInv'
  <2> SUFFICES ASSUME NEW q \in ReaderType, q.pc = "idle", q.total = 0, reader' = File!Thrown(q)
               PROVE  FileInv'
    OBVIOUS
  <2>1. reader' \in ReaderType /\ reader'.threw /\ reader'.total = 0
    BY ThrownReader
  <2>2. ReaderInv'
    BY <2>1 DEF ReaderInv
  <2> QED
    BY <2>1, <2>2, <1>1, <1>3, ReaderMoves
<1>6. /\ r.range[1] \in Nat /\ r.range[2] \in Int /\ r.mCount \in Int /\ r.mOffset \in Nat
      /\ r.got \in Seq(Nat) /\ Len(r.got) \in Nat /\ Len(service.content) \in Nat
      /\ r.longest \in Nat
  <2> HIDE DEF r
  <2>1. r \in ReaderType
    BY <1>2
  <2>2. /\ r.range[1] \in Nat /\ r.range[2] \in Int
    BY <2>1 DEF ReaderType
  <2>3. /\ r.mCount \in Int /\ r.mOffset \in Nat /\ r.longest \in Nat /\ r.got \in Seq(Nat)
    BY <2>1 DEF ReaderType
  <2>4. Len(r.got) \in Nat
    BY <2>3, LenProperties
  <2>5. Len(service.content) \in Nat
    BY <1>1, LenProperties
  <2> QED
    BY <2>2, <2>3, <2>4, <2>5
<1> HIDE DEF r
<1>7. CASE r.mCount = 0 /\ reader' = [r EXCEPT !.result = "end"]
  <2>1. /\ reader' \in ReaderType /\ reader'.total = 0 /\ reader'.pc = "idle"
        /\ reader'.result = "end" /\ reader'.mStreamId
        /\ reader'.got = r.got /\ reader'.range = r.range /\ reader'.mOffset = r.mOffset
        /\ reader'.mCount = r.mCount /\ reader'.longest = r.longest /\ reader'.threw = r.threw
    BY <1>2, <1>7 DEF ReaderType
  <2>2. ASSUME r.longest <= ChunkSize, ~ r.threw
        PROVE  (Follows(reader) /\ TakesOnce(reader) /\ EndsThere(reader))'
    <3>1. Follows(r)
      BY <2>2, <1>2
    <3>2. Follows(reader)'
      BY <3>1, <2>1, <1>1, <1>2 DEF Follows, CountOf
    <3>3. Len(File!From(service.content, r.range[1])) =
            IF r.range[1] < Len(service.content) THEN Len(service.content) - r.range[1] ELSE 0
      BY <1>1, <1>6, BytesFrom, ZenonT(30)
    <3> DEFINE g == Len(r.got)
               a == r.range[1]
               b == r.range[2]
               l == Len(service.content)
               c == CountOf(r)
    <3>7. /\ g \in Nat /\ a \in Nat /\ b \in Int /\ l \in Nat
          /\ c = IF b > 0 /\ l - a > 0 THEN IF b < l - a THEN b ELSE l - a ELSE l
      BY <1>6 DEF CountOf
    <3>8. r.mCount = c - g - r.total /\ (g + r.total > 0 => a + g + r.total <= l)
      BY <3>1, <1>2 DEF Follows
    <3>9. r.mCount = 0 /\ r.total = 0
      BY <1>7, <1>2
    <3> HIDE DEF g, a, b, l, c
    <3>4. c = g /\ (g > 0 => a + g <= l)
      BY <3>7, <3>8, <3>9
    <3>5. g = (IF a < l THEN l - a ELSE 0) \/ (b > 0 /\ g = b)
      BY <3>4, <3>7
    <3>6. EndsThere(reader)'
      BY <3>3, <3>5, <2>1, <1>1 DEF EndsThere, g, a, b, l
    <3> QED
      BY <3>2, <3>6, <2>1 DEF TakesOnce
  <2>3. ReaderInv'
    BY <2>1, <2>2 DEF ReaderInv
  <2> QED
    BY <2>1, <2>3, <1>1, <1>3, ReaderMoves
<1>8. CASE r.mCount # 0 /\ reader' = opened
  <2>1. File!Answer(r) \in Seq(Nat)
    <3>1. File!From(service.content, r.mOffset) \in Seq(Nat)
      BY <1>1, <1>6, BytesFrom
    <3>2. r.mCount > 0 => r.mCount \in Nat
      BY <1>6
    <3> QED
      BY <3>1, <3>2, FirstBytes DEF File!Answer
  <2>2. size \in Nat /\ size >= 1 /\ File!Longest(r, len) \in Nat
          /\ File!Longest(r, len) >= len /\ File!Longest(r, len) >= r.longest
    BY <1>0, <1>6 DEF File!Longest
  <2> HIDE DEF size
  <2>3. /\ reader' \in ReaderType /\ reader'.total = 0 /\ reader'.pc = "reading"
        /\ reader'.result = r.result /\ reader'.mStreamId /\ reader'.broke = r.broke
        /\ reader'.got = r.got /\ reader'.range = r.range /\ reader'.mOffset = r.mOffset
        /\ reader'.mCount = r.mCount /\ reader'.threw = r.threw
        /\ reader'.longest = File!Longest(r, len) /\ reader'.input = File!Answer(r)
        /\ reader'.inChunk = 0 /\ reader'.size = size /\ reader'.buf = <<>>
    <3> DEFINE input == File!Answer(r)
               longest == File!Longest(r, len)
               none == <<>>
    <3>1. /\ reader' = [r EXCEPT !.pc = "reading", !.input = input, !.inChunk = 0,
                                  !.size = size, !.total = 0, !.buf = none,
                                  !.longest = longest]
          /\ none \in Seq(Nat) /\ input \in Seq(Nat) /\ size \in Nat /\ longest \in Nat /\ r \in ReaderType
          /\ r.mStreamId
      BY <1>8, <1>2, <2>1, <2>2
    <3> HIDE DEF input, longest, none
    <3>4. reader' \in ReaderType
      BY <3>1 DEF ReaderType
    <3>2. /\ reader'.total = 0 /\ reader'.pc = "reading"
          /\ reader'.result = r.result /\ reader'.mStreamId /\ reader'.broke = r.broke
          /\ reader'.got = r.got /\ reader'.range = r.range /\ reader'.mOffset = r.mOffset
      BY <3>1 DEF ReaderType
    <3>3. /\ reader'.mCount = r.mCount /\ reader'.threw = r.threw
          /\ reader'.longest = longest /\ reader'.input = input
          /\ reader'.inChunk = 0 /\ reader'.size = size /\ reader'.buf = none
      BY <3>1 DEF ReaderType
    <3> QED
      BY <3>2, <3>3, <3>4 DEF input, longest, none
  <2>4. ASSUME reader'.longest <= ChunkSize, ~ r.threw
        PROVE  (Follows(reader) /\ TakesOnce(reader) /\ EndsThere(reader))'
    <3>1. r.longest <= ChunkSize /\ len <= ChunkSize
      BY <2>2, <2>3, <2>4, <1>0, <1>6
    <3>2. Follows(r)
      BY <3>1, <2>4, <1>2
    <3>3. Follows(reader)'
      BY <3>2, <2>3, <1>1, <1>2 DEF Follows, CountOf
    <3>4. r.mCount > 0
      <4>1. r.mCount >= 0
        BY <3>2, <1>2 DEF Follows
      <4> QED
        BY <4>1, <1>6, <1>8
    <3>5. size \in 1..ChunkSize /\ size <= r.mCount
      BY <3>1, <3>4, <1>0, <1>6 DEF size
    <3>6. reader'.input = File!Answer(reader)'
      BY <2>3, <1>1 DEF File!Answer
    <3>7. TakesOnce(reader)'
      BY <3>4, <3>5, <3>6, <2>3 DEF TakesOnce
    <3>8. EndsThere(reader)'
      BY <2>3, <1>1, <1>2 DEF EndsThere
    <3> QED
      BY <3>3, <3>7, <3>8
  <2>5. ReaderInv'
    BY <2>3, <2>4 DEF ReaderInv
  <2> QED
    BY <2>3, <2>5, <1>1, <1>3, ReaderMoves
<1> QED
  <2>1. reader \in ReaderType /\ reader.total = 0
    BY <1>1 DEF FileInv, ReaderInv
  <2> QED
    BY <1>4, <1>5, <1>7, <1>8, <1>2, <1>1, <2>1

\* A piece is what the buffer holds of the bytes that are left in the chunk.
LEMMA PieceOfChunk ==
  ASSUME SessionsAssumption, NEW input \in Seq(Nat), NEW inChunk \in Nat, inChunk < ChunkSize,
         NEW size \in Nat
  PROVE  LET piece == File!First(File!First(input, ChunkSize - inChunk), size)
             n == Len(piece)
         IN  /\ piece \in Seq(Nat) /\ n \in Nat /\ n <= size /\ n <= Len(input)
             /\ \A i \in 1..n : piece[i] = input[i]
             /\ size + inChunk <= ChunkSize => n = IF size < Len(input) THEN size ELSE Len(input)
<1> DEFINE c == ChunkSize - inChunk
           rest == File!First(input, c)
           piece == File!First(rest, size)
<1>1. c \in Nat /\ ChunkSize \in Nat /\ Len(input) \in Nat
  BY DEF SessionsAssumption, File!FileAssumption
<1>2. /\ rest \in Seq(Nat) /\ Len(rest) = (IF c < Len(input) THEN c ELSE Len(input))
      /\ \A i \in 1..Len(rest) : rest[i] = input[i]
  <2> HIDE DEF c
  <2> QED
    BY <1>1, FirstBytes
<1>3. /\ piece \in Seq(Nat) /\ Len(piece) = (IF size < Len(rest) THEN size ELSE Len(rest))
      /\ \A i \in 1..Len(piece) : piece[i] = rest[i]
  <2> HIDE DEF rest
  <2> QED
    BY <1>2, FirstBytes
<1>4. Len(rest) \in Nat /\ Len(piece) \in Nat
  BY <1>2, <1>3, LenProperties
<1> HIDE DEF rest, piece
<1>5. Len(piece) <= size /\ Len(piece) <= Len(rest) /\ Len(rest) <= Len(input)
  BY <1>1, <1>2, <1>3, <1>4
<1>6. \A i \in 1..Len(piece) : piece[i] = input[i]
  BY <1>2, <1>3, <1>4, <1>5
<1>7. size + inChunk <= ChunkSize => Len(piece) = IF size < Len(input) THEN size ELSE Len(input)
  <2> DEFINE l == Len(input)
             r == Len(rest)
             p == Len(piece)
  <2>1. /\ l \in Nat /\ r \in Nat /\ p \in Nat /\ r = (IF c < l THEN c ELSE l)
        /\ p = (IF size < r THEN size ELSE r)
    BY <1>1, <1>2, <1>3, <1>4
  <2> HIDE DEF l, r, p
  <2>2. size + inChunk <= ChunkSize => p = IF size < l THEN size ELSE l
    BY <1>1, <2>1
  <2> QED
    BY <2>2 DEF l, p
<1>8. piece \in Seq(Nat) /\ Len(piece) <= Len(input)
  BY <1>1, <1>3, <1>4, <1>5
<1> QED
  BY <1>4, <1>5, <1>6, <1>7, <1>8 DEF piece, rest, c

\* A piece that is taken is the next one of the file.
LEMMA ReadPieceInv ==
  ASSUME FileInv, SessionsAssumption, File!ReadPiece
  PROVE  FileInv'
<1> DEFINE r == reader
           inChunk == reader.inChunk % ChunkSize
           piece == File!First(File!First(reader.input, ChunkSize - inChunk), reader.size)
           n == Len(piece)
           left == File!From(reader.input, n)
           buf == piece \o File!From(reader.buf, n)
<1>0. ChunkSize \in Nat /\ ChunkSize > 0
  BY DEF SessionsAssumption, File!FileAssumption
<1>1. /\ reader \in ReaderType /\ service.content \in Seq(Nat) /\ faults \in Nat
      /\ reader.input \in Seq(Nat) /\ reader.size \in Nat /\ reader.total \in Nat
      /\ reader.buf \in Seq(Nat) /\ reader.mOffset \in Nat /\ reader.mCount \in Int
      /\ reader.got \in Seq(Nat) /\ reader.inChunk \in Nat
      /\ reader.range[1] \in Nat /\ reader.range[2] \in Int
  BY DEF FileInv, FileTypeOK, ReaderType
<1>2. inChunk \in Nat /\ inChunk < ChunkSize
  BY <1>0, <1>1, SMTT(30)
<1>3. /\ piece \in Seq(Nat) /\ n \in Nat /\ n <= reader.size /\ n <= Len(reader.input)
      /\ \A i \in 1..n : piece[i] = reader.input[i]
      /\ reader.size + inChunk <= ChunkSize =>
           n = IF reader.size < Len(reader.input) THEN reader.size ELSE Len(reader.input)
  <2> HIDE DEF inChunk
  <2> QED
    BY <1>1, <1>2, PieceOfChunk, ZenonT(30)
<1>4. /\ reader.pc = "reading" /\ reader.size > 0 /\ reader.input # <<>>
      /\ UNCHANGED <<inSession, service, writer, faults>>
      /\ reader' = [reader EXCEPT !.input = left, !.inChunk = inChunk + n, !.buf = buf,
                                  !.total = reader.total + n, !.size = reader.size - n,
                                  !.mCount = IF reader.mCount > 0 THEN reader.mCount - n ELSE reader.mCount,
                                  !.mOffset = reader.mOffset + n]
  BY DEF File!ReadPiece
<1> HIDE DEF piece, inChunk
<1>5. /\ left \in Seq(Nat)
      /\ Len(left) = IF n < Len(reader.input) THEN Len(reader.input) - n ELSE 0
  BY <1>1, <1>3, BytesFrom
<1>6. File!From(reader.buf, n) \in Seq(Nat)
  BY <1>1, <1>3, BytesFrom
<1>7. buf \in Seq(Nat)
  BY <1>6, <1>3, ConcatProperties
<1> DEFINE mCount == IF reader.mCount > 0 THEN reader.mCount - n ELSE reader.mCount
           size == reader.size - n
           total == reader.total + n
           mOffset == reader.mOffset + n
           chunk == inChunk + n
<1>8. mCount \in Int /\ size \in Nat /\ total \in Nat /\ mOffset \in Nat /\ chunk \in Nat
  <2> HIDE DEF n
  <2>1. n \in Nat /\ n <= reader.size
    BY <1>3 DEF n
  <2>2. reader.size \in Nat /\ reader.total \in Nat /\ reader.mOffset \in Nat /\ reader.mCount \in Int
    BY <1>1
  <2>3. size \in Nat /\ total \in Nat /\ mOffset \in Nat
    BY <2>1, <2>2
  <2>4. chunk \in Nat
    BY <1>2, <2>1
  <2>5. mCount \in Int
    BY <2>1, <2>2
  <2> QED
    BY <2>3, <2>4, <2>5
<1>9. reader' = [reader EXCEPT !.input = left, !.inChunk = chunk, !.buf = buf, !.total = total,
                               !.size = size, !.mCount = mCount, !.mOffset = mOffset]
  <2> HIDE DEF n, left, buf
  <2> QED
    BY <1>4
<1> HIDE DEF n, left, buf, mCount, size, total, mOffset, chunk, r
<1>10. reader' \in ReaderType
  BY <1>1, <1>5, <1>7, <1>8, <1>9 DEF ReaderType
<1>11. /\ reader'.input = left /\ reader'.buf = buf /\ reader'.total = total /\ reader'.size = size
       /\ reader'.mCount = mCount /\ reader'.mOffset = mOffset /\ reader'.pc = "reading"
       /\ reader'.mStreamId = reader.mStreamId /\ reader'.got = reader.got
  BY <1>1, <1>4, <1>9 DEF ReaderType
<1>12. /\ reader'.range = reader.range /\ reader'.result = reader.result
       /\ reader'.longest = reader.longest /\ reader'.broke = reader.broke
       /\ reader'.threw = reader.threw
  BY <1>1, <1>9 DEF ReaderType
<1>13. ASSUME reader.longest <= ChunkSize, ~ reader.threw
       PROVE  (Follows(reader) /\ TakesOnce(reader) /\ EndsThere(reader))'
  <2> DEFINE g == Len(reader.got)
             a == reader.range[1]
             l == Len(service.content)
             c == CountOf(reader)
  <2>1. Follows(reader) /\ TakesOnce(reader) /\ EndsThere(reader)
    BY <1>13 DEF FileInv, ReaderInv
  <2>2. /\ reader.mStreamId
        /\ reader.total = 0 /\ reader.buf = <<>> /\ reader.inChunk = 0
        /\ reader.size \in 1..ChunkSize
        /\ reader.mCount > 0 /\ reader.size <= reader.mCount
        /\ reader.input = File!Answer(reader)
    BY <2>1, <1>4 DEF TakesOnce
  <2>3. inChunk = 0
    BY <2>2, <1>0 DEF inChunk
  <2>4. g \in Nat /\ a \in Nat /\ l \in Nat /\ c \in Int
    BY <1>1, LenProperties DEF CountOf
  <2>5. /\ reader.mOffset = a + g /\ reader.mCount = c - g
        /\ \A i \in 1..g : reader.got[i] = service.content[a + i]
    <3>1. reader.mOffset = a + g + reader.total /\ reader.mCount = c - g - reader.total
      BY <2>1, <2>2 DEF Follows
    <3>2. \A i \in 1..g : reader.got[i] = service.content[a + i]
      BY <2>1 DEF Follows
    <3> HIDE DEF a, g, c
    <3> QED
      BY <3>1, <3>2, <2>2, <2>4, <1>1
  <2> DEFINE rest == File!From(service.content, reader.mOffset)
  <2>6. /\ rest \in Seq(Nat)
        /\ Len(rest) = IF reader.mOffset < l THEN l - reader.mOffset ELSE 0
        /\ \A i \in 1..Len(rest) : rest[i] = service.content[reader.mOffset + i]
    BY <1>1, BytesFrom
  <2>7. reader.mCount \in Nat /\ reader.input = File!First(rest, reader.mCount)
    BY <2>2, <1>1 DEF File!Answer
  <2> HIDE DEF rest
  <2>8. /\ Len(reader.input) = IF reader.mCount < Len(rest) THEN reader.mCount ELSE Len(rest)
        /\ \A i \in 1..Len(reader.input) : reader.input[i] = rest[i]
    BY <2>6, <2>7, FirstBytes
  <2>9. Len(reader.input) \in Nat /\ Len(reader.input) # 0 /\ Len(rest) \in Nat
    BY <1>1, <1>4, <2>6, LenProperties, EmptySeq
  <2> HIDE DEF a, g, l, c
  <2>10. /\ n > 0 /\ n <= Len(rest) /\ n <= reader.mCount
         /\ n = reader.size \/ n = Len(reader.input)
    BY <1>1, <1>3, <2>2, <2>3, <2>8, <2>9
  <2>11. mOffset = a + g + total /\ mCount = c - g - total /\ mCount >= 0
    BY <1>1, <1>3, <2>2, <2>4, <2>5, <2>10 DEF mOffset, mCount, total
  <2>12. a + g + total <= l
    BY <1>1, <1>3, <2>2, <2>4, <2>5, <2>6, <2>10 DEF total
  <2>13. Len(reader'.got) = g /\ reader'.range[1] = a /\ CountOf(reader)' = c
    BY <1>4, <1>11, <1>12 DEF g, a, c, CountOf
  <2>14. Follows(reader)'
    <3>1. service.published
      BY <2>1, <2>2 DEF Follows
    <3>2. /\ reader'.mStreamId /\ service' = service /\ total \in Nat /\ mCount \in Int
          /\ reader'.got = reader.got /\ Len(service'.content) = l
      BY <1>4, <1>8, <1>11, <2>2 DEF l
    <3>3. /\ reader'.mOffset = a + g + reader'.total /\ reader'.mCount = c - g - reader'.total
          /\ reader'.mCount >= -1 /\ reader'.mCount >= 0 /\ a + g + reader'.total <= l
      BY <3>2, <1>11, <2>11, <2>12
    <3> QED
      BY <3>1, <3>2, <3>3, <2>5, <2>13 DEF Follows
  <2>15. /\ Len(buf) = n
         /\ \A i \in 1..n : buf[i] = piece[i]
    <3>1. File!From(reader.buf, n) = <<>>
      <4>1. Len(reader.buf) = 0
        BY <2>2
      <4>2. Len(File!From(reader.buf, n)) = 0
        BY <4>1, <1>1, <1>3, <2>10, BytesFrom
      <4> QED
        BY <4>2, <1>6, EmptySeq
    <3>2. buf = piece
      BY <3>1, <1>3, ConcatEmptySeq DEF buf
    <3> QED
      BY <3>2 DEF n
  <2>16. \A i \in 1..n : buf[i] = service.content[a + g + i]
    <3>1. ASSUME NEW i \in 1..n
          PROVE  piece[i] = service.content[reader.mOffset + i]
      <4>1. i \in 1..Len(reader.input) /\ i \in 1..Len(rest)
        <5>1. n \in Nat /\ n <= Len(reader.input) /\ n <= Len(rest)
          BY <1>3, <2>10 DEF n
        <5> QED
          BY <5>1, <2>9, <3>1
      <4> QED
        BY <4>1, <1>3, <2>8, <2>6
    <3> QED
      BY <3>1, <2>15, <2>5
  <2>17. size = 0 \/ left = <<>>
    <3>1. CASE n = reader.size
      BY <3>1, <1>1 DEF size
    <3>2. CASE n = Len(reader.input)
      <4>1. Len(left) = 0
        BY <3>2, <1>5, <2>9
      <4> QED
        BY <4>1, <1>5, EmptySeq
    <3> QED
      BY <3>1, <3>2, <2>10
  <2>18. total = n
    BY <2>2, <1>3 DEF total
  <2>19. TakesOnce(reader)'
    <3>1. /\ reader'.total > 0 /\ Len(reader'.buf) = reader'.total
          /\ reader'.size = 0 \/ reader'.input = <<>>
          /\ reader'.mStreamId
      BY <1>11, <2>2, <2>10, <2>15, <2>17, <2>18
    <3>2. \A i \in 1..reader'.total : reader'.buf[i] = service'.content[reader'.range[1] + Len(reader'.got) + i]
      BY <1>11, <1>4, <2>13, <2>16, <2>18
    <3> QED
      BY <3>1, <3>2 DEF TakesOnce
  <2>20. EndsThere(reader)'
    BY <2>1, <1>4, <1>11, <1>12 DEF EndsThere
  <2> QED
    BY <2>14, <2>19, <2>20
<1>14. ReaderInv'
  BY <1>11, <1>12, <1>13 DEF ReaderInv
<1> QED
  BY <1>4, <1>10, <1>14, <1>1, ReaderMoves

\* What Read returns to the caller follows what the caller has.
LEMMA ReturnedReader ==
  ASSUME FileInv, reader.pc = "reading"
  PROVE  LET t == File!Returned(reader)
         IN  /\ t \in ReaderType /\ t.pc = "idle" /\ t.total = 0
             /\ t.longest = reader.longest /\ t.threw = reader.threw /\ t.broke = reader.broke
             /\ reader.longest <= ChunkSize /\ ~ reader.threw =>
                  /\ Follows(t)
                  /\ reader.size = 0 \/ reader.input = <<>> => EndsThere(t)
<1>0. reader \in ReaderType /\ service.content \in Seq(Nat)
  BY DEF FileInv, FileTypeOK
<1>1. /\ reader \in ReaderType /\ service.content \in Seq(Nat)
      /\ reader.total \in Nat /\ reader.buf \in Seq(Nat) /\ reader.got \in Seq(Nat)
      /\ reader.mOffset \in Nat /\ reader.mCount \in Int /\ reader.size \in Nat
      /\ reader.range[1] \in Nat /\ reader.range[2] \in Int
  BY <1>0 DEF ReaderType
<1> DEFINE found == File!Found(reader)
           got == reader.got \o found
           result == IF reader.total = 0 THEN "end" ELSE "data"
           none == <<>>
           t == File!Returned(reader)
<1>2. /\ found \in Seq(Nat) /\ Len(found) = reader.total
      /\ \A i \in 1..reader.total : i <= Len(reader.buf) => found[i] = reader.buf[i]
  <2>1. ASSUME NEW i \in 1..reader.total, i <= Len(reader.buf)
        PROVE  reader.buf[i] \in Nat
    <3>1. i \in 1..Len(reader.buf)
      BY <2>1, <1>1, LenProperties
    <3> QED
      BY <3>1, <1>1, ElementOfSeq
  <2>2. /\ found = [i \in 1..reader.total |-> IF i <= Len(reader.buf) THEN reader.buf[i] ELSE 0]
        /\ \A i \in 1..reader.total : (IF i <= Len(reader.buf) THEN reader.buf[i] ELSE 0) \in Nat
    BY <2>1 DEF File!Found
  <2>3. \A i \in 1..reader.total : i <= Len(reader.buf) => found[i] = reader.buf[i]
    BY <2>2
  <2>4. found \in Seq(Nat) /\ Len(found) = reader.total
    <3> HIDE DEF found
    <3> DEFINE e(i) == IF i <= Len(reader.buf) THEN reader.buf[i] ELSE 0
    <3>1. found = [i \in 1..reader.total |-> e(i)] /\ \A i \in 1..reader.total : e(i) \in Nat
      BY <2>2
    <3> HIDE DEF e
    <3>2. found \in [1..reader.total -> Nat]
      BY <3>1
    <3> DEFINE n == reader.total
    <3>3. found \in [1..n -> Nat] /\ n \in Nat
      BY <3>2, <1>1
    <3> HIDE DEF n
    <3>4. found \in Seq(Nat) /\ Len(found) = n
      BY <3>3
    <3> QED
      BY <3>4 DEF n
  <2> QED
    BY <2>3, <2>4
<1> HIDE DEF found
<1>3. /\ got \in Seq(Nat) /\ Len(got) = Len(reader.got) + reader.total
      /\ \A i \in 1..(Len(reader.got) + reader.total) :
           got[i] = IF i <= Len(reader.got) THEN reader.got[i] ELSE found[i - Len(reader.got)]
  <2> DEFINE p == reader.got
  <2>1. p \in Seq(Nat) /\ found \in Seq(Nat)
    BY <1>1, <1>2
  <2> HIDE DEF p
  <2>2. /\ p \o found \in Seq(Nat) /\ Len(p \o found) = Len(p) + Len(found)
        /\ \A i \in 1..(Len(p) + Len(found)) :
             (p \o found)[i] = IF i <= Len(p) THEN p[i] ELSE found[i - Len(p)]
    BY <2>1, ConcatProperties
  <2> QED
    BY <2>2, <1>2 DEF p
<1>4. /\ t = [reader EXCEPT !.pc = "idle", !.input = none, !.size = 0, !.total = 0, !.buf = none,
                            !.inChunk = 0, !.got = got, !.result = result]
      /\ none \in Seq(Nat) /\ result \in {"end", "data"}
  BY DEF File!Returned, found
<1> HIDE DEF got, none, t
<1>5. t \in ReaderType
  <2> HIDE DEF result
  <2> QED
    BY <1>1, <1>3, <1>4 DEF ReaderType
<1>6. /\ t.pc = "idle" /\ t.total = 0 /\ t.got = got /\ t.result = result
      /\ t.mStreamId = reader.mStreamId /\ t.mOffset = reader.mOffset /\ t.mCount = reader.mCount
      /\ t.range = reader.range /\ t.longest = reader.longest /\ t.broke = reader.broke
      /\ t.threw = reader.threw
  <2> HIDE DEF result
  <2> QED
    BY <1>1, <1>4 DEF ReaderType
<1>7. ASSUME reader.longest <= ChunkSize, ~ reader.threw
      PROVE  /\ Follows(t)
             /\ reader.size = 0 \/ reader.input = <<>> => EndsThere(t)
  <2> DEFINE g == Len(reader.got)
             a == reader.range[1]
             l == Len(service.content)
             c == CountOf(reader)
  <2>1. Follows(reader) /\ TakesOnce(reader)
    BY <1>7 DEF FileInv, ReaderInv
  <2>2. /\ reader.mStreamId /\ service.published
        /\ \/ /\ reader.total = 0 /\ reader.size \in 1..ChunkSize
              /\ reader.mCount > 0
              /\ reader.input = File!Answer(reader)
           \/ /\ reader.total > 0 /\ Len(reader.buf) = reader.total
              /\ \A i \in 1..reader.total : reader.buf[i] = service.content[a + g + i]
    BY <2>1 DEF TakesOnce, Follows
  <2>3. g \in Nat /\ a \in Nat /\ l \in Nat /\ c \in Int
    BY <1>1, LenProperties DEF CountOf
  <2>4. /\ reader.mOffset = a + g + reader.total /\ reader.mCount = c - g - reader.total
        /\ reader.mCount >= 0
        /\ g + reader.total > 0 => a + g + reader.total <= l
        /\ \A i \in 1..g : reader.got[i] = service.content[a + i]
    BY <2>1, <2>2 DEF Follows
  <2>5. Len(t.got) = g + reader.total /\ t.range[1] = a /\ CountOf(t) = c /\ t.total = 0
    BY <1>3, <1>6 DEF CountOf
  <2>6. ASSUME NEW i \in 1..(g + reader.total)
        PROVE  got[i] = service.content[a + i]
    <3>1. CASE i <= g
      <4>1. i \in 1..g
        BY <3>1
      <4>2. got[i] = reader.got[i]
        BY <4>1, <3>1, <1>3
      <4> QED
        BY <4>1, <4>2, <2>4
    <3>2. CASE i > g
      <4> DEFINE k == i - g
      <4>1. k \in 1..reader.total /\ i = g + k /\ reader.total > 0
        <5> HIDE DEF g
        <5>1. g \in Nat /\ reader.total \in Nat /\ i \in 1..(g + reader.total) /\ i > g
          BY <3>2, <2>3, <1>1 DEF g
        <5> QED
          BY <5>1
      <4>2. got[i] = found[k]
        BY <4>1, <3>2, <1>3, <1>1, <2>3
      <4> HIDE DEF k
      <4>3. Len(reader.buf) = reader.total /\ reader.buf[k] = service.content[a + g + k]
        BY <4>1, <2>2
      <4>4. found[k] = reader.buf[k]
        BY <4>1, <4>3, <1>2, <1>1
      <4>5. a + i = a + g + k /\ k \in Nat
        BY <4>1, <2>3, <1>1
      <4> QED
        BY <4>2, <4>3, <4>4, <4>5
    <3>3. i <= g \/ i > g
      BY <2>3, <1>1
    <3> QED
      BY <3>1, <3>2, <3>3
  <2> HIDE DEF a, g, l, c
  <2>7. Follows(t)
    <3>1. /\ t.mOffset = a + (g + reader.total) + 0 /\ t.mCount = c - (g + reader.total) - 0
          /\ t.mCount >= -1 /\ t.mCount >= 0
          /\ (g + reader.total) + 0 > 0 => a + (g + reader.total) + 0 <= l
      <4> DEFINE o == reader.mOffset
                 m == reader.mCount
                 b == reader.total
      <4>1. /\ o = a + g + b /\ m = c - g - b /\ m >= 0 /\ (g + b > 0 => a + g + b <= l)
            /\ o \in Nat /\ m \in Int /\ b \in Nat /\ t.mOffset = o /\ t.mCount = m
        BY <2>4, <1>1, <1>6
      <4> HIDE DEF o, m, b, t
      <4>2. /\ t.mOffset = a + (g + b) + 0 /\ t.mCount = c - (g + b) - 0
            /\ t.mCount >= -1 /\ t.mCount >= 0
            /\ (g + b) + 0 > 0 => a + (g + b) + 0 <= l
        BY <4>1, <2>3
      <4> QED
        BY <4>2 DEF b
    <3>2. \A i \in 1..Len(t.got) : t.got[i] = service.content[t.range[1] + i]
      <4>1. Len(t.got) = g + reader.total /\ t.got = got /\ t.range[1] = a
        BY <2>5, <1>6
      <4> HIDE DEF t
      <4> QED
        BY <4>1, <2>6
    <3> QED
      BY <3>1, <3>2, <2>2, <2>5, <1>6 DEF Follows, l
  <2>8. ASSUME reader.size = 0 \/ reader.input = <<>>
        PROVE  EndsThere(t)
    <3>1. CASE reader.total > 0
      BY <3>1, <1>1, <1>6 DEF EndsThere
    <3>2. CASE reader.total = 0
      <4> DEFINE rest == File!From(service.content, reader.mOffset)
      <4>1. reader.mCount > 0 /\ reader.input = File!Answer(reader) /\ reader.input = <<>>
        BY <3>2, <2>2, <2>8
      <4>2. /\ rest \in Seq(Nat)
            /\ Len(rest) = IF reader.mOffset < l THEN l - reader.mOffset ELSE 0
        BY <1>1, BytesFrom DEF l
      <4>3. reader.mCount \in Nat /\ File!First(rest, reader.mCount) = <<>>
        BY <4>1, <1>1 DEF File!Answer
      <4> HIDE DEF rest
      <4>4. (IF reader.mCount < Len(rest) THEN reader.mCount ELSE Len(rest)) = 0
        BY <4>2, <4>3, FirstBytes, EmptySeq
      <4>5. reader.mOffset >= l
        BY <4>1, <4>2, <4>4, <2>3, <1>1
      <4>6. Len(File!From(service.content, a)) = IF a < l THEN l - a ELSE 0
        BY <1>1, <2>3, BytesFrom DEF l, a
      <4>7. Len(t.got) = g
        BY <2>5, <3>2, <2>3
      <4>8. reader.mOffset = a + g /\ (g > 0 => a + g <= l)
        BY <2>3, <2>4, <3>2
      <4>9. Len(t.got) = Len(File!From(service.content, t.range[1]))
        BY <4>5, <4>6, <4>7, <4>8, <2>3, <2>5
      <4> QED
        BY <4>9 DEF EndsThere
    <3>3. reader.total > 0 \/ reader.total = 0
      BY <1>1
    <3> QED
      BY <3>1, <3>2, <3>3
  <2> QED
    BY <2>7, <2>8
<1> QED
  BY <1>5, <1>6, <1>7 DEF t

\* A Read that returns hands over what it took.
LEMMA ReadReturnsInv ==
  ASSUME FileInv, File!ReadReturns
  PROVE  FileInv'
<1> DEFINE t == File!Returned(reader)
<1>1. /\ reader.pc = "reading" /\ reader' = t /\ (reader.size = 0 \/ reader.input = <<>>)
      /\ UNCHANGED <<inSession, service, writer, faults>>
  BY DEF File!ReadReturns
<1>2. /\ t \in ReaderType /\ t.pc = "idle" /\ t.total = 0
      /\ t.longest = reader.longest /\ t.threw = reader.threw
      /\ reader.longest <= ChunkSize /\ ~ reader.threw => Follows(t) /\ EndsThere(t)
  BY <1>1, ReturnedReader
<1> HIDE DEF t
<1>3. ReaderInv'
  BY <1>1, <1>2 DEF ReaderInv, Follows, CountOf, TakesOnce, EndsThere
<1>4. faults' \in Nat
  BY <1>1 DEF FileInv, FileTypeOK
<1> QED
  BY <1>1, <1>2, <1>3, <1>4, ReaderMoves

\* A connection that breaks gives the caller what was taken before.
LEMMA ReadBreaksInv ==
  ASSUME FileInv, SessionsAssumption, File!ReadBreaks
  PROVE  FileInv'
<1> DEFINE t == File!Returned(reader)
<1>1. /\ reader.pc = "reading"
      /\ UNCHANGED <<inSession, service, writer>>
      /\ \/ reader' = [t EXCEPT !.broke = TRUE]
         \/ reader' = File!Thrown([t EXCEPT !.got = reader.got])
  BY DEF File!ReadBreaks
<1>2. /\ t \in ReaderType /\ t.pc = "idle" /\ t.total = 0
      /\ t.longest = reader.longest /\ t.threw = reader.threw
      /\ reader.longest <= ChunkSize /\ ~ reader.threw => Follows(t)
  BY <1>1, ReturnedReader
<1>3. faults' \in Nat
  BY DEF FileInv, FileTypeOK, File!ReadBreaks, File!Faulty
<1>4. reader.got \in Seq(Nat)
  BY DEF FileInv, FileTypeOK, ReaderType
<1> HIDE DEF t
<1>5. CASE reader' = [t EXCEPT !.broke = TRUE]
  <2>1. /\ reader' \in ReaderType /\ reader'.pc = "idle" /\ reader'.total = 0 /\ reader'.broke
        /\ reader'.mOffset = t.mOffset /\ reader'.mCount = t.mCount /\ reader'.range = t.range
        /\ reader'.got = t.got /\ reader'.mStreamId = t.mStreamId /\ reader'.result = t.result
        /\ reader'.longest = reader.longest /\ reader'.threw = reader.threw
    BY <1>2, <1>5 DEF ReaderType
  <2>2. ASSUME reader.longest <= ChunkSize, ~ reader.threw
        PROVE  Follows(reader)'
    BY <2>1, <2>2, <1>1, <1>2 DEF Follows, CountOf
  <2>3. ReaderInv'
    BY <2>1, <2>2 DEF ReaderInv, TakesOnce, EndsThere
  <2> QED
    BY <2>1, <2>3, <1>1, <1>3, ReaderMoves
<1>6. CASE reader' = File!Thrown([t EXCEPT !.got = reader.got])
  <2> DEFINE q == [t EXCEPT !.got = reader.got]
  <2>1. q \in ReaderType /\ q.pc = "idle" /\ q.total = 0
    BY <1>2, <1>4 DEF ReaderType
  <2> HIDE DEF q
  <2>2. reader' = File!Thrown(q)
    BY <1>6 DEF q
  <2>3. reader' \in ReaderType /\ reader'.threw /\ reader'.total = 0
    BY <2>1, <2>2, ThrownReader
  <2>4. ReaderInv'
    BY <2>3 DEF ReaderInv
  <2> QED
    BY <2>3, <2>4, <1>1, <1>3, ReaderMoves
<1> QED
  BY <1>1, <1>5, <1>6

\* Closing the reader takes nothing from what it gave.
LEMMA CloseReaderInv ==
  ASSUME FileInv, File!CloseReader
  PROVE  FileInv'
<1>1. /\ reader' = [reader EXCEPT !.mClosed = TRUE] /\ reader \in ReaderType
      /\ UNCHANGED <<inSession, service, writer, faults>> /\ faults' \in Nat
  BY DEF File!CloseReader, FileInv, FileTypeOK
<1>2. /\ reader' \in ReaderType
      /\ reader'.mStreamId = reader.mStreamId /\ reader'.mOffset = reader.mOffset
      /\ reader'.mCount = reader.mCount /\ reader'.range = reader.range /\ reader'.pc = reader.pc
      /\ reader'.input = reader.input /\ reader'.inChunk = reader.inChunk
      /\ reader'.size = reader.size /\ reader'.total = reader.total /\ reader'.buf = reader.buf
  BY <1>1 DEF ReaderType
<1>3. /\ reader'.got = reader.got /\ reader'.result = reader.result
      /\ reader'.longest = reader.longest /\ reader'.broke = reader.broke
      /\ reader'.threw = reader.threw
  BY <1>1 DEF ReaderType
<1>4. ReaderInv'
  BY <1>1, <1>2, <1>3 DEF FileInv, ReaderInv, Follows, TakesOnce, EndsThere, CountOf, File!Answer
<1> QED
  BY <1>1, <1>2, <1>4, ReaderMoves

\* Every step of the writer and the reader keeps the invariant.
LEMMA FileStep ==
  ASSUME FileInv, SessionsAssumption, [File!Next]_(File!vars)
  PROVE  FileInv'
<1>1. CASE File!WriterStep
  BY <1>1, WriteInv, WriterEndsInv DEF File!WriterStep
<1>2. CASE \E len \in 1..MaxRead : File!Read(len)
  BY <1>2, ReadInv
<1>3. CASE File!ReadStep
  BY <1>3, ReadPieceInv, ReadReturnsInv, ReadBreaksInv DEF File!ReadStep
<1>4. CASE File!CloseReader
  BY <1>4, CloseReaderInv
<1>5. CASE UNCHANGED File!vars
  BY <1>5 DEF File!vars, FileInv, FileTypeOK, WriterInv, Holds, ReaderInv, Follows, TakesOnce,
              EndsThere, CountOf, File!Answer
<1> QED
  BY <1>1, <1>2, <1>3, <1>4, <1>5 DEF File!Next

\* The invariant gives the two properties.
LEMMA FileMeans ==
  ASSUME FileInv, SessionsAssumption
  PROVE  File!FileHoldsWritten /\ File!ReadsInOrder
<1>0. reader \in ReaderType /\ writer \in WriterType /\ service.content \in Seq(Nat)
  BY DEF FileInv, FileTypeOK
<1>1. /\ service.content \in Seq(Nat) /\ writer.written \in Seq(Nat) /\ reader.got \in Seq(Nat)
      /\ reader.range[1] \in Nat /\ reader.range[2] \in Int /\ reader.total \in Nat /\ reader.mCount \in Int
  <2>1. writer.written \in Seq(Nat)
    BY <1>0 DEF WriterType
  <2>0. reader \in ReaderType
    BY <1>0
  <2>2. reader.got \in Seq(Nat) /\ reader.total \in Nat /\ reader.mCount \in Int
    BY <2>0 DEF ReaderType
  <2>3. reader.range \in Nat \X ({-1} \cup (Nat \ {0}))
    BY <1>0 DEF ReaderType
  <2>4. reader.range[1] \in Nat /\ reader.range[2] \in Int
    BY <2>3
  <2> QED
    BY <1>0, <2>1, <2>2, <2>4
<1> DEFINE a == reader.range[1]
           b == reader.range[2]
           l == Len(service.content)
           g == Len(reader.got)
           rest == File!From(service.content, a)
           w == File!Wanted
<1>2. File!FileHoldsWritten
  <2>1. /\ DOMAIN service.content = 1..Len(service.content)
        /\ DOMAIN writer.written = 1..Len(writer.written)
    BY <1>1, LenProperties
  <2>2. service.published =>
          Holds(service.content, Len(writer.written)) /\ (~ writer.threw => service.content = writer.written)
    BY DEF FileInv, WriterInv
  <2> DEFINE x == writer.written
             f == service.content
  <2>3. ASSUME service.published, NEW i \in DOMAIN x, NEW j \in DOMAIN x, i < j
        PROVE  \E p, q \in DOMAIN f : p < q /\ f[p] = i /\ f[q] = j
    <3>1. Holds(f, Len(x)) /\ i \in 1..Len(x) /\ j \in 1..Len(x) /\ DOMAIN f = 1..Len(f)
      BY <2>1, <2>2, <2>3
    <3> HIDE DEF x, f
    <3>2. PICK p \in 1..Len(f), q \in 1..Len(f) : p < q /\ f[p] = i /\ f[q] = j
      BY <3>1, <2>3 DEF Holds
    <3>3. p \in DOMAIN f /\ q \in DOMAIN f
      BY <3>1
    <3> QED
      BY <3>2, <3>3
  <2>4. service.published =>
          \A i, j \in DOMAIN x : i < j => \E p, q \in DOMAIN f : p < q /\ f[p] = i /\ f[q] = j
    BY <2>3
  <2> QED
    BY <2>2, <2>4, Zenon DEF File!FileHoldsWritten
<1>3. ASSUME reader.longest <= ChunkSize, ~ reader.threw
      PROVE  /\ File!IsPrefix(reader.got, w)
             /\ reader.result = "end" /\ ~ reader.broke => reader.got = w
  <2>1. Follows(reader) /\ EndsThere(reader)
    BY <1>3 DEF FileInv, ReaderInv
  <2>2. g \in Nat /\ l \in Nat
    BY <1>1, LenProperties
  <2>3. /\ rest \in Seq(Nat) /\ Len(rest) = (IF a < l THEN l - a ELSE 0)
        /\ \A i \in 1..Len(rest) : rest[i] = service.content[a + i]
    BY <1>1, BytesFrom
  <2>4. w = IF b > 0 THEN File!First(rest, b) ELSE rest
    BY DEF File!Wanted
  <2>5. b > 0 => b \in Nat
    BY <1>1
  <2> HIDE DEF rest, w
  <2>6. Len(rest) \in Nat
    BY <2>3, LenProperties
  <2>7. /\ w \in Seq(Nat)
        /\ Len(w) = IF b > 0 /\ b < Len(rest) THEN b ELSE Len(rest)
        /\ \A i \in 1..Len(w) : w[i] = rest[i]
    <3>1. CASE b > 0
      BY <3>1, <2>3, <2>4, <2>5, FirstBytes
    <3>2. CASE ~ (b > 0)
      BY <3>2, <2>3, <2>4
    <3> QED
      BY <3>1, <3>2
  <2>8. /\ g > 0 => a + g <= l
        /\ \A i \in 1..g : reader.got[i] = service.content[a + i]
    <3> DEFINE t == reader.total
    <3>1. (g + t > 0 => a + g + t <= l) /\ t \in Nat /\ a \in Nat
      BY <2>1, <1>1 DEF Follows
    <3>2. \A i \in 1..g : reader.got[i] = service.content[a + i]
      BY <2>1 DEF Follows
    <3> HIDE DEF a, g, l, t
    <3>3. g > 0 => a + g <= l
      BY <3>1, <2>2
    <3> QED
      BY <3>2, <3>3
  <2>9. b > 0 => g <= b
    <3> DEFINE c == CountOf(reader)
    <3>1. /\ reader.mCount = IF reader.mStreamId THEN c - g - reader.total ELSE b
          /\ reader.mStreamId => reader.mCount >= 0
          /\ ~ reader.mStreamId => reader.got = <<>>
      BY <2>1 DEF Follows
    <3>2. c = IF b > 0 /\ l - a > 0 THEN IF b < l - a THEN b ELSE l - a ELSE l
      BY DEF CountOf
    <3>3. ~ reader.mStreamId => g = 0
      BY <3>1, EmptySeq
    <3> DEFINE m == reader.mCount
               t == reader.total
    <3>4. /\ m = (IF reader.mStreamId THEN c - g - t ELSE b)
          /\ (reader.mStreamId => m >= 0) /\ t \in Nat /\ a \in Nat /\ b \in Int /\ m \in Int
      BY <3>1, <1>1
    <3> HIDE DEF c, a, b, l, g, m, t
    <3>5. CASE reader.mStreamId
      <4>1. g <= c /\ c \in Int
        BY <3>2, <3>4, <3>5, <2>2
      <4>2. g > 0 => a + g <= l
        BY <2>8
      <4>3. c = (IF b > 0 /\ l - a > 0 THEN IF b < l - a THEN b ELSE l - a ELSE l)
        BY <3>2
      <4>4. g \in Nat /\ l \in Nat /\ a \in Nat /\ b \in Int
        BY <2>2, <3>4
      <4>5. CASE l - a > 0
        BY <4>1, <4>3, <4>4, <4>5
      <4>6. CASE ~ (l - a > 0)
        BY <4>2, <4>4, <4>6
      <4> QED
        BY <4>5, <4>6
    <3>6. CASE ~ reader.mStreamId
      BY <3>3, <3>4, <3>6
    <3> QED
      BY <3>5, <3>6
  <2>10. g <= Len(w) /\ Len(w) \in Nat /\ Len(w) <= Len(rest)
    <3> DEFINE n == Len(rest)
               m == Len(w)
    <3>1. /\ n = (IF a < l THEN l - a ELSE 0) /\ n \in Nat /\ a \in Nat /\ b \in Int
          /\ m = (IF b > 0 /\ b < n THEN b ELSE n)
          /\ g > 0 => a + g <= l
      BY <2>3, <2>6, <2>7, <2>8, <1>1
    <3> HIDE DEF a, b, l, g, n, m
    <3>2. g <= m /\ m \in Nat /\ m <= n
      BY <3>1, <2>2, <2>9
    <3> QED
      BY <3>2 DEF m, n
  <2>11. \A i \in 1..g : reader.got[i] = w[i]
    <3>1. ASSUME NEW i \in 1..g
          PROVE  reader.got[i] = w[i]
      <4>1. i \in 1..Len(w) /\ i \in 1..Len(rest)
        BY <2>2, <2>6, <2>10
      <4> QED
        BY <4>1, <2>3, <2>7, <2>8
    <3> QED
      BY <3>1
  <2>12. File!IsPrefix(reader.got, w)
    <3>1. SubSeq(reader.got, 1, Len(reader.got)) = SubSeq(w, 1, Len(reader.got))
      BY <1>1, <2>7, <2>10, <2>11, PrefixByPlace
    <3> QED
      BY <3>1, <2>10 DEF File!IsPrefix
  <2>13. ASSUME reader.result = "end", ~ reader.broke
         PROVE  reader.got = w
    <3>1. g = Len(rest) \/ (b > 0 /\ g = b)
      BY <2>1, <2>13 DEF EndsThere, rest
    <3>2. g = Len(w)
      BY <3>1, <2>2, <2>5, <2>6, <2>7, <2>10
    <3> QED
      BY <3>2, <1>1, <2>7, <2>11, SeqEqual
  <2> QED
    BY <2>12, <2>13
<1> QED
  BY <1>2, <1>3 DEF File!ReadsInOrder

-----------------------------------------------------------------------------
(* A table that is read in messages.                                        *)

\* The session object.
TableClient ==
  [kind : {"table", "instance", "direct"},
   pc : {"none", "polling", "built", "refused", "timeout", "threw"},
   created : BOOLEAN, mStatus : {"none", "INIT", "NORMAL", "failed"}, elapsed : Nat]

\* The stream and its reader.
TableReader ==
  [pc : {"none", "idle", "reading", "threw", "batch", "end", "broken"},
   mOffset : -1..MaxRow, mCount : Nat, mEof : BOOLEAN, mClosed : BOOLEAN, got : Seq(Int),
   mReader : {"none", "schema", "open"}, wire : Seq(Int), lost : BOOLEAN, unread : Seq(Int),
   mEOF : BOOLEAN, item : {"mark", "size", "body"}, taken : Seq(Int)]

\* Types of the session and the stream.
TableTypeOK ==
  /\ service \in {"INIT", "NORMAL", "failed"}
  /\ client \in TableClient
  /\ reader \in TableReader

\* A session is what the service last said of it.
TableSessionInv ==
  /\ client.pc = "built" /\ client.created =>
       service # "INIT" /\ (client.kind = "table" => service = "NORMAL")
  /\ client.pc = "refused" => service = "failed"

\* How many words were taken.
Place(r) ==
  (IF r.mReader = "schema" THEN 0 ELSE 3 * (1 + Len(r.got)))
    + (IF r.item = "mark" THEN 0 ELSE IF r.item = "size" THEN 1 ELSE 2)

\* What is unread and what is still to come are the units of the answer from a
\* place on, to its end unless the connection was lost.
Behind(r, u, at) ==
  /\ at + Len(r.unread) + Len(r.wire) <= Len(u)
  /\ ~ r.lost => at + Len(r.unread) + Len(r.wire) = Len(u)
  /\ \A i \in 1..Len(r.unread) : r.unread[i] = u[at + i]
  /\ \A i \in 1..Len(r.wire) : r.wire[i] = u[at + Len(r.unread) + i]

\* And what is taken of a word is its units.
OnWire(r, u) ==
  LET word == WordSize * Place(r)
  IN  /\ Behind(r, u, word + Len(r.taken))
      /\ \A i \in 1..Len(r.taken) : r.taken[i] = u[word + i]

\* An open reader takes a word after the other.
Takes(r) ==
  /\ \E marked \in BOOLEAN : OnWire(r, Table!Units(Table!Words(r, marked)))
  /\ Len(r.taken) < WordSize
  /\ r.item # "body" => r.taken = <<>>
  /\ r.item = "body" /\ r.mReader = "open" => Len(r.got) < Len(Table!Rows(r))
  /\ r.mEOF => r.unread = <<>> /\ r.wire = <<>> /\ r.item = "body"

\* The rows that the caller has are the first ones.
HasRows(r) ==
  /\ r.mReader = "schema" => r.got = <<>>
  /\ Len(r.got) <= Len(Table!Rows(r))
  /\ \A i \in 1..Len(r.got) : r.got[i] = Table!Rows(r)[i]

\* Ends, breaks and gives rows only as the answers allow.
StreamInv(r) ==
  /\ HasRows(r)
  /\ r.mReader = "none" => r.got = <<>> \/ r.mEof
  /\ r.mEof => r.mReader = "none" /\ (r.got = Table!Rows(r) \/ r.lost)
  /\ r.pc = "reading" => ~ r.mEof
  /\ r.pc = "end" => r.mEof
  /\ r.pc = "broken" => r.lost \/ (r.item # "body" /\ r.taken # <<>>)
  /\ r.mReader # "none" /\ r.pc # "broken" => Takes(r)

\* The invariant of a table that is read.
TableInv == TableTypeOK /\ TableSessionInv /\ StreamInv(reader)

\* A word is at its place, each unit of it.
LEMMA Product ==
  ASSUME NEW w \in Nat, NEW k \in Nat
  PROVE  w * k \in Nat /\ w * (k + 1) = w * k + w
OBVIOUS

\* A product grows with its factor.
LEMMA ProductGrows ==
  ASSUME NEW w \in Nat, NEW k \in Nat, NEW l \in Nat, w > 0
  PROVE  /\ w * k <= w * l <=> k <= l
         /\ w * k = w * l <=> k = l
         /\ w * k < w * l <=> k < l
<1>1. l = k + (l - k) /\ l - k \in Int
  OBVIOUS
<1> DEFINE d == l - k
<1>2. w * l = w * k + w * d
  BY <1>1
<1>3. w * k \in Int /\ w * l \in Int /\ w * d \in Int /\ d \in Int
  OBVIOUS
<1>4. (d > 0 => w * d > 0) /\ (d < 0 => w * d < 0) /\ (d = 0 => w * d = 0)
  OBVIOUS
<1>5. k < l <=> d > 0
  OBVIOUS
<1>6. k = l <=> d = 0
  OBVIOUS
<1> HIDE DEF d
<1> QED
  BY <1>2, <1>3, <1>4, <1>5, <1>6

\* A unit is of the word it was made from.
LEMMA Quotient ==
  ASSUME NEW w \in Nat, w > 0, NEW k \in Nat, NEW i \in 1..w
  PROVE  ((w * k + i - 1) \div w) = k
<1> DEFINE x == w * k + i - 1
           q == x \div w
<1>1. x \in Nat /\ w * k \in Nat /\ x = w * k + (i - 1) /\ i - 1 >= 0 /\ i - 1 < w
  OBVIOUS
<1>2. q \in Int /\ w * q <= x /\ x < w * q + w
  OBVIOUS
<1> QED
  OBVIOUS

\* A word of an answer is WordSize units.
LEMMA UnitsOf ==
  ASSUME NEW words \in Seq(Int), WordSize \in Nat \ {0}
  PROVE  LET u == Table!Units(words)
         IN  /\ u \in Seq(Int) /\ Len(u) = WordSize * Len(words)
             /\ \A k \in 0..(Len(words) - 1) : \A i \in 1..WordSize :
                  WordSize * k + i \in 1..Len(u) /\ u[WordSize * k + i] = words[k + 1]
<1> DEFINE u == Table!Units(words)
           l == Len(words)
           w == WordSize
           n == w * l
<1>1. l \in Nat /\ w \in Nat /\ w > 0 /\ n \in Nat
  BY LenProperties
<1>2. u = [i \in 1..n |-> words[((i - 1) \div w) + 1]]
  BY DEF Table!Units
<1>3. ASSUME NEW i \in 1..n
      PROVE  words[((i - 1) \div w) + 1] \in Int
  <2> DEFINE k == (i - 1) \div w
  <2>1. i - 1 \in Nat /\ i - 1 < w * l
    BY <1>1
  <2>2. k \in Int /\ w * k <= i - 1 /\ i - 1 < w * k + w
    BY <1>1, <2>1
  <2> HIDE DEF k
  <2>3. k >= 0
    <3>1. ASSUME k <= -1 PROVE FALSE
      <4>1. w * k <= -w
        BY <1>1, <2>2, <3>1
      <4>2. w * k \in Int
        BY <1>1, <2>2
      <4> QED
        BY <4>1, <4>2, <2>1, <2>2, <1>1
    <3> QED
      BY <3>1, <2>2
  <2>4. k < l
    <3>1. k \in Nat
      BY <2>2, <2>3
    <3>2. w * k < w * l
      <4>1. w * k \in Int /\ w * l \in Int
        BY <1>1, <2>2
      <4> QED
        BY <4>1, <2>1, <2>2
    <3> QED
      BY <3>1, <3>2, <1>1, ProductGrows
  <2>5. k + 1 \in 1..l
    BY <2>2, <2>3, <2>4, <1>1
  <2> QED
    BY <2>5, ElementOfSeq DEF k
<1> HIDE DEF n, w
<1>4. u \in Seq(Int) /\ Len(u) = n
  <2> DEFINE e(i) == words[((i - 1) \div w) + 1]
  <2>1. \A i \in 1..n : e(i) \in Int
    BY <1>3
  <2>2. u = [i \in 1..n |-> e(i)]
    BY <1>2
  <2> HIDE DEF e, u
  <2>3. u \in [1..n -> Int]
    BY <2>1, <2>2
  <2> QED
    BY <2>3, <1>1
<1>5. ASSUME NEW k \in 0..(l - 1), NEW i \in 1..w
      PROVE  w * k + i \in 1..n /\ u[w * k + i] = words[k + 1]
  <2> DEFINE j == w * k + i
  <2>1. k \in Nat /\ i \in Nat /\ w * k \in Nat /\ j \in Nat /\ j >= 1
    BY <1>1
  <2>2. ((w * k + i - 1) \div w) = k
    BY <2>1, <1>1, Quotient
  <2>3. w * k + w <= n
    <3>1. w * (k + 1) = w * k + w
      BY <2>1, <1>1, Product
    <3>2. w * (k + 1) <= w * l
      BY <2>1, <1>1, ProductGrows
    <3> QED
      BY <3>1, <3>2 DEF n
  <2>4. j \in 1..n
    <3>1. w * k \in Nat /\ j = w * k + i /\ i <= w
      BY <2>1
    <3> HIDE DEF j
    <3> QED
      BY <3>1, <2>1, <2>3, <1>1
  <2>5. u[j] = words[((j - 1) \div w) + 1]
    BY <2>4, <1>2
  <2>6. ((j - 1) \div w) = k
    <3>1. j - 1 = w * k + i - 1
      <4>1. w * k \in Nat /\ i \in Nat
        BY <2>1
      <4> QED
        BY <4>1
    <3> HIDE DEF j
    <3> QED
      BY <3>1, <2>2, Zenon
  <2> HIDE DEF j, u
  <2>7. u[j] = words[k + 1]
    BY <2>5, <2>6
  <2> QED
    BY <2>4, <2>7 DEF j
<1> QED
  BY <1>1, <1>4, <1>5 DEF n, w

\* The rows of a split are those there are from its offset on.
LEMMA RowsOf ==
  ASSUME NEW r \in TableReader, MaxRow \in Nat
  PROVE  Table!Rows(r) \in Seq(Int)
<1> DEFINE offset == IF r.mOffset < 0 THEN 0 ELSE r.mOffset
           count == IF r.mCount <= 0 THEN MaxRow ELSE r.mCount
           n == Table!Lesser(count, MaxRow - offset)
<1>1. r.mOffset \in -1..MaxRow /\ r.mCount \in Nat
  BY DEF TableReader
<1>2. offset \in Nat /\ offset <= MaxRow /\ count \in Nat
  BY <1>1
<1>3. n \in Nat
  BY <1>2 DEF Table!Lesser
<1>4. Table!Rows(r) = [i \in 1..n |-> offset + i]
  BY DEF Table!Rows
<1> HIDE DEF n, offset
<1> QED
  BY <1>2, <1>3, <1>4

\* The words of an answer: a mark and a size before every message.
LEMMA WordsOf ==
  ASSUME NEW r \in TableReader, NEW marked \in BOOLEAN, MaxRow \in Nat
  PROVE  LET rows == Table!Rows(r)
             words == Table!Words(r, marked)
             m == Len(rows) + 1
         IN  /\ rows \in Seq(Int) /\ words \in Seq(Int) /\ m \in Nat
             /\ Len(words) = 3 * m + IF marked THEN 2 ELSE 0
             /\ \A a \in Nat :
                  /\ 3 * a + 2 <= Len(words) => (words[3 * a + 2] = Table!NoSize <=> a >= m)
                  /\ 3 * a + 3 <= Len(words) => a + 1 <= m /\ (a > 0 => words[3 * a + 3] = rows[a])
<1> DEFINE rows == Table!Rows(r)
           words == Table!Words(r, marked)
           m == Len(rows) + 1
           n == 3 * m + IF marked THEN 2 ELSE 0
           e(k) == CASE k % 3 = 1 -> Table!Mark
                     [] k % 3 = 2 -> IF k > 3 * m THEN Table!NoSize ELSE Table!Size
                     [] OTHER     -> IF k = 3 THEN Table!Schema ELSE rows[(k \div 3) - 1]
<1>1. rows \in Seq(Int) /\ m \in Nat /\ m >= 1
  BY RowsOf, LenProperties
<1>2. n \in Nat /\ words = [k \in 1..n |-> e(k)]
  BY <1>1 DEF Table!Words
<1> HIDE DEF rows
<1>3. ASSUME NEW a \in Nat
      PROVE  /\ 3 * a + 2 <= n =>
                  e(3 * a + 2) = IF a >= m THEN Table!NoSize ELSE Table!Size
             /\ 3 * a + 3 <= n =>
                  a + 1 <= m /\ e(3 * a + 3) = IF a = 0 THEN Table!Schema ELSE rows[a]
  <2>1. (3 * a + 2) % 3 = 2 /\ (3 * a + 3) % 3 = 0 /\ ((3 * a + 3) \div 3) = a + 1
    OBVIOUS
  <2>2. (3 * a + 2 > 3 * m <=> a >= m) /\ (3 * a + 3 = 3 <=> a = 0) /\ (a + 1) - 1 = a
    BY <1>1
  <2>3. 3 * a + 3 <= n => a + 1 <= m
    BY <1>1
  <2> HIDE DEF m
  <2>4. e(3 * a + 2) = IF a >= m THEN Table!NoSize ELSE Table!Size
    BY <2>1, <2>2
  <2>5. e(3 * a + 3) = IF a = 0 THEN Table!Schema ELSE rows[a]
    BY <2>1, <2>2
  <2> QED
    BY <2>3, <2>4, <2>5
<1>4. ASSUME NEW k \in 1..n
      PROVE  e(k) \in Int
  <2>1. k % 3 \in 0..2 /\ k \in Nat /\ (k \div 3) \in Nat /\ k = 3 * (k \div 3) + (k % 3)
    OBVIOUS
  <2>2. CASE k % 3 \in {1, 2}
    BY <2>2 DEF Table!Mark, Table!NoSize, Table!Size
  <2>3. CASE k % 3 = 0
    <3>1. k # 3 => (k \div 3) - 1 \in 1..Len(rows)
      BY <2>1, <2>3, <1>1
    <3>2. k # 3 => rows[(k \div 3) - 1] \in Int
      BY <3>1, <1>1, ElementOfSeq
    <3>3. e(k) = IF k = 3 THEN Table!Schema ELSE rows[(k \div 3) - 1]
      BY <2>3
    <3> QED
      BY <3>2, <3>3 DEF Table!Schema
  <2> QED
    BY <2>1, <2>2, <2>3
<1> HIDE DEF e, n
<1>5. words \in Seq(Int) /\ Len(words) = n
  <2>1. words \in [1..n -> Int]
    BY <1>2, <1>4
  <2> HIDE DEF words
  <2> QED
    BY <2>1, <1>2
<1>6. ASSUME NEW a \in Nat
      PROVE  /\ 3 * a + 2 <= n => words[3 * a + 2] = IF a >= m THEN Table!NoSize ELSE Table!Size
             /\ 3 * a + 3 <= n => a + 1 <= m /\ (a > 0 => words[3 * a + 3] = rows[a])
  <2>1. 3 * a + 2 <= n => 3 * a + 2 \in 1..n /\ words[3 * a + 2] = e(3 * a + 2)
    BY <1>2
  <2>2. 3 * a + 3 <= n => 3 * a + 3 \in 1..n /\ words[3 * a + 3] = e(3 * a + 3)
    BY <1>2
  <2> QED
    BY <2>1, <2>2, <1>3
<1> QED
  BY <1>1, <1>5, <1>6 DEF rows, n, Table!NoSize, Table!Size

\* The rows and the answers depend on the split alone.
LEMMA SameSplit ==
  ASSUME NEW r, NEW t, t.mOffset = r.mOffset, t.mCount = r.mCount
  PROVE  /\ Table!Rows(t) = Table!Rows(r)
         /\ \A marked \in BOOLEAN : Table!Words(t, marked) = Table!Words(r, marked)
<1>1. Table!Rows(t) = Table!Rows(r)
  BY DEF Table!Rows
<1> QED
  BY <1>1 DEF Table!Words

\* A stream that keeps its reader and its rows keeps the place.
LEMMA SameTakes ==
  ASSUME NEW r \in TableReader, NEW t \in TableReader, StreamInv(r),
         t.mOffset = r.mOffset, t.mCount = r.mCount, t.mEof = r.mEof, t.got = r.got,
         t.mReader = r.mReader, t.wire = r.wire, t.lost = r.lost, t.unread = r.unread,
         t.mEOF = r.mEOF, t.item = r.item, t.taken = r.taken,
         r.pc # "broken" \/ t.pc = "broken",
         t.pc = "reading" => ~ t.mEof, t.pc = "end" => t.mEof,
         t.pc = "broken" => r.pc = "broken"
  PROVE  StreamInv(t)
<1>1. /\ Table!Rows(t) = Table!Rows(r)
      /\ \A marked \in BOOLEAN : Table!Words(t, marked) = Table!Words(r, marked)
  BY SameSplit
<1>2. Place(t) = Place(r)
  BY DEF Place
<1>3. \A u : OnWire(t, u) <=> OnWire(r, u)
  BY <1>2 DEF OnWire, Behind
<1>4. Takes(r) => Takes(t)
  BY <1>1, <1>3 DEF Takes
<1>5. HasRows(t)
  BY <1>1 DEF StreamInv, HasRows
<1> QED
  BY <1>1, <1>4, <1>5 DEF StreamInv

\* A reader that is broken is thrown away before it gave a row, and kept then.
LEMMA BrokenInv ==
  ASSUME NEW r \in TableReader, HasRows(r), r.mReader # "none", ~ r.mEof,
         r.mReader = "open" => r.lost \/ (r.item # "body" /\ r.taken # <<>>)
  PROVE  Table!Broken(r) \in TableReader /\ StreamInv(Table!Broken(r))
<1> DEFINE t == Table!Broken(r)
<1>1. CASE r.mReader = "schema"
  <2>1. t = [r EXCEPT !.pc = "threw", !.mReader = "none"]
    BY <1>1 DEF Table!Broken
  <2>2. /\ t \in TableReader /\ t.pc = "threw" /\ t.mReader = "none" /\ t.mEof = r.mEof
        /\ t.got = r.got /\ t.mOffset = r.mOffset /\ t.mCount = r.mCount
    BY <2>1 DEF TableReader
  <2> HIDE DEF t
  <2>3. Table!Rows(t) = Table!Rows(r)
    BY <2>2, SameSplit
  <2>4. StreamInv(t)
    BY <2>2, <2>3, <1>1 DEF StreamInv, HasRows
  <2> QED
    BY <2>2, <2>4 DEF t
<1>2. CASE r.mReader = "open"
  <2>1. t = [r EXCEPT !.pc = "broken"]
    BY <1>2 DEF Table!Broken
  <2>2. /\ t \in TableReader /\ t.pc = "broken" /\ t.mReader = "open" /\ t.mEof = r.mEof
        /\ t.got = r.got /\ t.mOffset = r.mOffset /\ t.mCount = r.mCount
        /\ t.lost = r.lost /\ t.item = r.item /\ t.taken = r.taken
    BY <2>1, <1>2 DEF TableReader
  <2> HIDE DEF t
  <2>3. Table!Rows(t) = Table!Rows(r)
    BY <2>2, SameSplit
  <2>4. StreamInv(t)
    BY <2>2, <2>3, <1>2 DEF StreamInv, HasRows
  <2> QED
    BY <2>2, <2>4 DEF t
<1> QED
  BY <1>1, <1>2 DEF TableReader

\* No message ends the stream.
LEMMA NoMessageInv ==
  ASSUME NEW r \in TableReader, HasRows(r), r.mReader # "none", ~ r.mEof,
         r.mReader = "open" => r.lost \/ r.got = Table!Rows(r)
  PROVE  Table!NoMessage(r) \in TableReader /\ StreamInv(Table!NoMessage(r))
<1>1. CASE r.mReader = "schema"
  BY <1>1, BrokenInv DEF Table!NoMessage
<1>2. CASE r.mReader = "open"
  <2> DEFINE t == Table!NoMessage(r)
  <2>1. t = [r EXCEPT !.pc = "end", !.mEof = TRUE, !.mReader = "none"]
    BY <1>2 DEF Table!NoMessage
  <2>2. /\ t \in TableReader /\ t.pc = "end" /\ t.mReader = "none" /\ t.mEof
        /\ t.got = r.got /\ t.mOffset = r.mOffset /\ t.mCount = r.mCount /\ t.lost = r.lost
    BY <2>1 DEF TableReader
  <2> HIDE DEF t
  <2>3. Table!Rows(t) = Table!Rows(r)
    BY <2>2, SameSplit
  <2>4. StreamInv(t)
    BY <2>2, <2>3, <1>2 DEF StreamInv, HasRows
  <2> QED
    BY <2>2, <2>4 DEF t
<1> QED
  BY <1>1, <1>2 DEF TableReader

\* The words of a message are its mark, its size and its body.
LEMMA ItemInv ==
  ASSUME NEW s \in TableReader, NEW marked \in BOOLEAN, SessionsAssumption,
         s.pc = "reading", s.mReader # "none", s.taken = <<>>, ~ s.mEof, ~ s.mEOF, HasRows(s),
         s.item = "body" /\ s.mReader = "open" => Len(s.got) < Len(Table!Rows(s)),
         Place(s) < Len(Table!Words(s, marked)),
         Behind(s, Table!Units(Table!Words(s, marked)), WordSize * (Place(s) + 1))
  PROVE  LET t == Table!Item(s, Table!Words(s, marked)[Place(s) + 1])
         IN  t \in TableReader /\ StreamInv(t)
<1> DEFINE words == Table!Words(s, marked)
           u == Table!Units(words)
           rows == Table!Rows(s)
           k == Place(s)
           x == words[k + 1]
           t == Table!Item(s, x)
           m == Len(rows) + 1
           g == Len(s.got)
<1>0. MaxRow \in Nat /\ WordSize \in Nat \ {0}
  BY DEF SessionsAssumption, Table!TableReadAssumption
<1>1. /\ s.got \in Seq(Int) /\ s.taken \in Seq(Int) /\ s.wire \in Seq(Int) /\ s.unread \in Seq(Int)
      /\ s.item \in {"mark", "size", "body"} /\ s.mReader \in {"schema", "open"}
  BY DEF TableReader
<1>2. /\ rows \in Seq(Int) /\ words \in Seq(Int) /\ m \in Nat
      /\ Len(words) = 3 * m + IF marked THEN 2 ELSE 0
      /\ \A a \in Nat :
           /\ 3 * a + 2 <= Len(words) => (words[3 * a + 2] = Table!NoSize <=> a >= m)
           /\ 3 * a + 3 <= Len(words) => a + 1 <= m /\ (a > 0 => words[3 * a + 3] = rows[a])
  BY <1>0, WordsOf
<1>3. g \in Nat /\ Len(rows) \in Nat /\ m = Len(rows) + 1 /\ Len(words) \in Nat
  BY <1>1, <1>2, LenProperties
<1> DEFINE a == IF s.mReader = "schema" THEN 0 ELSE 1 + g
<1>4. a \in Nat /\ k = 3 * a + (IF s.item = "mark" THEN 0 ELSE IF s.item = "size" THEN 1 ELSE 2)
  BY <1>1, <1>3 DEF Place
<1>5. k \in Nat /\ k + 1 \in 1..Len(words)
  <2>1. k < Len(words)
    OBVIOUS
  <2> HIDE DEF a, k, words
  <2>2. k \in Nat
    BY <1>4
  <2> QED
    BY <2>1, <2>2, <1>3
<1>6. x \in Int
  BY <1>2, <1>5, ElementOfSeq
<1>7. Behind(s, u, WordSize * (k + 1)) /\ g <= Len(rows) /\ (s.mReader = "schema" => g = 0)
  BY EmptySeq DEF HasRows
<1> HIDE DEF words, u, rows, k, x, m, g, a
\* A reader that stands at the next word.
<1>8. \A q \in TableReader :
        /\ q.mOffset = s.mOffset /\ q.mCount = s.mCount /\ q.wire = s.wire /\ q.lost = s.lost
        /\ q.unread = s.unread /\ q.taken = <<>> /\ q.mEOF = s.mEOF /\ q.mEof = s.mEof
        /\ q.mReader # "none" /\ q.pc \in {"reading", "batch"}
        /\ Place(q) = k + 1 /\ HasRows(q)
        /\ q.item = "body" /\ q.mReader = "open" => Len(q.got) < Len(rows)
        => StreamInv(q)
  <2> SUFFICES ASSUME NEW q \in TableReader,
                      q.mOffset = s.mOffset, q.mCount = s.mCount, q.wire = s.wire, q.lost = s.lost,
                      q.unread = s.unread, q.taken = <<>>, q.mEOF = s.mEOF, q.mEof = s.mEof,
                      q.mReader # "none", q.pc \in {"reading", "batch"},
                      Place(q) = k + 1, HasRows(q),
                      q.item = "body" /\ q.mReader = "open" => Len(q.got) < Len(rows)
               PROVE  StreamInv(q)
    OBVIOUS
  <2>1. Table!Rows(q) = rows /\ Table!Words(q, marked) = words
    BY SameSplit DEF rows, words
  <2>2. Len(q.taken) = 0 /\ WordSize * (k + 1) + 0 = WordSize * (k + 1)
    BY <1>0, <1>5
  <2>3. OnWire(q, u)
    BY <2>2, <1>7 DEF OnWire, Behind
  <2>4. OnWire(q, Table!Units(Table!Words(q, marked)))
    BY <2>1, <2>3 DEF u
  <2>5. Takes(q)
    BY <2>1, <2>2, <2>4, <1>0 DEF Takes
  <2> QED
    BY <2>5 DEF StreamInv
<1>9. CASE s.item = "mark"
  <2>1. t = [s EXCEPT !.item = "size"]
    BY <1>9 DEF Table!Item
  <2> HIDE DEF t
  <2>2. /\ t \in TableReader /\ t.item = "size" /\ t.pc = s.pc /\ t.mReader = s.mReader
        /\ t.mOffset = s.mOffset /\ t.mCount = s.mCount /\ t.wire = s.wire /\ t.lost = s.lost
        /\ t.unread = s.unread /\ t.taken = s.taken /\ t.mEOF = s.mEOF /\ t.mEof = s.mEof
        /\ t.got = s.got
    BY <2>1 DEF TableReader
  <2>3. Place(t) = k + 1
    BY <2>2, <1>1, <1>3, <1>4, <1>9 DEF Place, a, g
  <2>4. HasRows(t)
    BY <2>2, SameSplit DEF HasRows
  <2>5. StreamInv(t)
    BY <2>2, <2>3, <2>4, <1>8
  <2> QED
    BY <2>2, <2>5 DEF t, x, words, k
<1>10. CASE s.item = "size"
  <2>1. k + 1 = 3 * a + 2
    BY <1>4, <1>10
  <2>5. 3 * a + 2 <= Len(words)
    BY <2>1, <1>5, <1>3
  <2>6. words[3 * a + 2] = Table!NoSize <=> a >= m
    BY <2>5, <1>2, <1>4
  <2>2. x = Table!NoSize <=> a >= m
    BY <2>1, <2>6 DEF x
  <2>3. CASE x = Table!NoSize
    <3>1. t = Table!NoMessage(s)
      BY <2>3, <1>10 DEF Table!Item
    <3>2. s.mReader = "open" => Len(rows) <= g
      BY <2>2, <2>3, <1>3 DEF a
    <3>3. s.mReader = "open" => s.got = rows
      <4>1. s.mReader = "open" => Len(s.got) = Len(rows)
        BY <3>2, <1>3, <1>7 DEF g
      <4>2. \A i \in 1..Len(s.got) : s.got[i] = rows[i]
        BY DEF HasRows, rows
      <4> QED
        BY <4>1, <4>2, <1>1, <1>2, SeqEqual
    <3> QED
      BY <3>1, <3>3, NoMessageInv DEF t, x, words, k, rows
  <2>4. CASE x # Table!NoSize
    <3>1. t = [s EXCEPT !.item = "body"]
      BY <2>4, <1>10 DEF Table!Item
    <3> HIDE DEF t
    <3>2. /\ t \in TableReader /\ t.item = "body" /\ t.pc = s.pc /\ t.mReader = s.mReader
          /\ t.mOffset = s.mOffset /\ t.mCount = s.mCount /\ t.wire = s.wire /\ t.lost = s.lost
          /\ t.unread = s.unread /\ t.taken = s.taken /\ t.mEOF = s.mEOF /\ t.mEof = s.mEof
          /\ t.got = s.got
      BY <3>1 DEF TableReader
    <3>3. Place(t) = k + 1
      BY <3>2, <1>1, <1>3, <1>4, <1>10 DEF Place, a, g
    <3>4. HasRows(t)
      BY <3>2, SameSplit DEF HasRows
    <3>5. t.mReader = "open" => Len(t.got) < Len(rows)
      BY <3>2, <2>2, <2>4, <1>1, <1>3, <1>4 DEF a, g
    <3>6. StreamInv(t)
      BY <3>2, <3>3, <3>4, <3>5, <1>8
    <3> QED
      BY <3>2, <3>6 DEF t, x, words, k
  <2> QED
    BY <2>3, <2>4
<1>11. CASE s.item = "body" /\ s.mReader = "schema"
  <2>1. t = [s EXCEPT !.item = "mark", !.mReader = "open"]
    BY <1>11 DEF Table!Item
  <2> HIDE DEF t
  <2>2. /\ t \in TableReader /\ t.item = "mark" /\ t.pc = s.pc /\ t.mReader = "open"
        /\ t.mOffset = s.mOffset /\ t.mCount = s.mCount /\ t.wire = s.wire /\ t.lost = s.lost
        /\ t.unread = s.unread /\ t.taken = s.taken /\ t.mEOF = s.mEOF /\ t.mEof = s.mEof
        /\ t.got = s.got
    BY <2>1 DEF TableReader
  <2>3. Place(t) = k + 1
    BY <2>2, <1>1, <1>3, <1>4, <1>7, <1>11 DEF Place, a, g
  <2>4. HasRows(t)
    BY <2>2, SameSplit DEF HasRows
  <2>5. StreamInv(t)
    BY <2>2, <2>3, <2>4, <1>8
  <2> QED
    BY <2>2, <2>5 DEF t, x, words, k
<1>12. CASE s.item = "body" /\ s.mReader = "open"
  <2> DEFINE got == Append(s.got, x)
  <2>1. t = [s EXCEPT !.item = "mark", !.got = got, !.pc = "batch"]
    BY <1>12 DEF Table!Item
  <2>2. got \in Seq(Int) /\ Len(got) = g + 1 /\ got[g + 1] = x /\ \A i \in 1..g : got[i] = s.got[i]
    BY <1>1, <1>6, AppendProperties DEF g
  <2> HIDE DEF t, got
  <2>3. /\ t \in TableReader /\ t.item = "mark" /\ t.pc = "batch" /\ t.mReader = s.mReader
        /\ t.mOffset = s.mOffset /\ t.mCount = s.mCount /\ t.wire = s.wire /\ t.lost = s.lost
        /\ t.unread = s.unread /\ t.taken = s.taken /\ t.mEOF = s.mEOF /\ t.mEof = s.mEof
        /\ t.got = got
    BY <2>1, <2>2 DEF TableReader
  <2>4. a = 1 + g /\ k + 1 = 3 * a + 3
    BY <1>3, <1>4, <1>12 DEF a
  <2>5. Place(t) = k + 1
    <3>1. Place(t) = 3 * (1 + (g + 1)) + 0
      BY <2>2, <2>3, <1>12 DEF Place
    <3> QED
      BY <3>1, <2>4, <1>3
  <2>6. a + 1 <= m /\ x = rows[a]
    <3>1. 3 * a + 3 <= Len(words) /\ a > 0
      BY <2>4, <1>3, <1>5
    <3>2. a + 1 <= m /\ words[3 * a + 3] = rows[a]
      BY <3>1, <1>2, <1>4
    <3> QED
      BY <3>2, <2>4 DEF x
  <2>7. HasRows(t)
    <3>1. Table!Rows(t) = rows
      BY <2>3, SameSplit DEF rows
    <3>2. g + 1 <= Len(rows)
      BY <2>4, <2>6, <1>3
    <3>3. \A i \in 1..g : got[i] = rows[i]
      BY <2>2 DEF HasRows, g, rows
    <3>4. got[g + 1] = rows[g + 1]
      BY <2>2, <2>4, <2>6, <1>3
    <3>5. \A i \in 1..(g + 1) : i \in 1..g \/ i = g + 1
      BY <1>3
    <3>6. \A i \in 1..(g + 1) : got[i] = rows[i]
      BY <3>3, <3>4, <3>5
    <3> QED
      BY <3>1, <3>2, <3>6, <2>2, <2>3, <1>12 DEF HasRows
  <2>8. StreamInv(t)
    BY <2>3, <2>5, <2>7, <1>8, <1>12
  <2> QED
    BY <2>3, <2>8 DEF t, x, words, k
<1> QED
  BY <1>1, <1>9, <1>10, <1>11, <1>12

\* The place is a number.
LEMMA PlaceIsNat ==
  ASSUME NEW r \in TableReader
  PROVE  Place(r) \in Nat
<1> DEFINE g == Len(r.got)
           a == IF r.mReader = "schema" THEN 0 ELSE 3 * (1 + g)
           b == IF r.item = "mark" THEN 0 ELSE IF r.item = "size" THEN 1 ELSE 2
<1>1. r.got \in Seq(Int)
  BY DEF TableReader
<1>2. g \in Nat
  BY <1>1, LenProperties
<1> HIDE DEF g
<1>3. a \in Nat /\ b \in Nat
  BY <1>2
<1>4. Place(r) = a + b
  BY DEF Place, g
<1> HIDE DEF a, b
<1> QED
  BY <1>3, <1>4

\* A sequence in two pieces.
LEMMA Cut ==
  ASSUME NEW S, NEW s \in Seq(S), NEW n \in 0..Len(s)
  PROVE  /\ SubSeq(s, 1, n) \in Seq(S) /\ Len(SubSeq(s, 1, n)) = n
         /\ \A i \in 1..n : SubSeq(s, 1, n)[i] = s[i]
         /\ SubSeq(s, n + 1, Len(s)) \in Seq(S)
         /\ Len(SubSeq(s, n + 1, Len(s))) = Len(s) - n
         /\ \A i \in 1..(Len(s) - n) : SubSeq(s, n + 1, Len(s))[i] = s[n + i]
<1> DEFINE l == Len(s)
<1>1. l \in Nat /\ n \in Nat /\ n <= l
  BY LenProperties
<1>2. (\A i \in 1..n : s[i] \in S) /\ (\A i \in (n + 1)..l : s[i] \in S)
  <2>1. \A i \in 1..l : s[i] \in S
    BY ElementOfSeq
  <2> HIDE DEF l
  <2> QED
    BY <1>1, <2>1
<1>3. /\ SubSeq(s, 1, n) \in Seq(S)
      /\ Len(SubSeq(s, 1, n)) = IF 1 <= n THEN n - 1 + 1 ELSE 0
      /\ \A i \in 1..(n - 1 + 1) : SubSeq(s, 1, n)[i] = s[1 + i - 1]
  BY <1>1, <1>2, SubSeqProperties
<1>4. /\ SubSeq(s, n + 1, l) \in Seq(S)
      /\ Len(SubSeq(s, n + 1, l)) = IF n + 1 <= l THEN l - (n + 1) + 1 ELSE 0
      /\ \A i \in 1..(l - (n + 1) + 1) : SubSeq(s, n + 1, l)[i] = s[n + 1 + i - 1]
  BY <1>1, <1>2, SubSeqProperties
<1>5. Len(SubSeq(s, 1, n)) = n /\ \A i \in 1..n : SubSeq(s, 1, n)[i] = s[i]
  BY <1>1, <1>3
<1> HIDE DEF l
<1>6. Len(SubSeq(s, n + 1, l)) = l - n /\ \A i \in 1..(l - n) : SubSeq(s, n + 1, l)[i] = s[n + i]
  BY <1>1, <1>4
<1> QED
  BY <1>3, <1>4, <1>5, <1>6 DEF l

\* An open reader whose answer is whole and used up has all rows, and stands
\* where a message would start.
LEMMA AtEnd ==
  ASSUME NEW r \in TableReader, SessionsAssumption, StreamInv(r), r.pc = "reading",
         r.mReader = "open", ~ r.lost, r.unread = <<>>, r.wire = <<>>
  PROVE  r.item = "mark" /\ r.got = Table!Rows(r)
<1>1. PICK marked \in BOOLEAN : OnWire(r, Table!Units(Table!Words(r, marked)))
  BY DEF StreamInv, Takes
<1> DEFINE words == Table!Words(r, marked)
           rows == Table!Rows(r)
           w == WordSize
           l == Len(words)
           m == Len(rows) + 1
           g == Len(r.got)
           k == Place(r)
           o == Len(r.taken)
<1>2. MaxRow \in Nat /\ w \in Nat /\ w > 0
  BY DEF SessionsAssumption, Table!TableReadAssumption
<1>3. /\ r.got \in Seq(Int) /\ r.taken \in Seq(Int) /\ r.item \in {"mark", "size", "body"}
  BY DEF TableReader
<1>4. /\ rows \in Seq(Int) /\ words \in Seq(Int)
      /\ Len(words) = 3 * m + IF marked THEN 2 ELSE 0
  BY <1>2, WordsOf
<1>5. /\ g \in Nat /\ o \in Nat /\ l \in Nat /\ m \in Nat /\ Len(rows) \in Nat
      /\ m = Len(rows) + 1 /\ o < w /\ g <= Len(rows)
      /\ l = 3 * m + IF marked THEN 2 ELSE 0
  BY <1>3, <1>4, LenProperties DEF StreamInv, Takes, HasRows
<1>6. k = 3 * (1 + g) + (IF r.item = "mark" THEN 0 ELSE IF r.item = "size" THEN 1 ELSE 2)
  BY DEF Place
<1>7. k \in Nat
  BY PlaceIsNat
<1>8. Len(Table!Units(words)) = w * l
  <2>1. words \in Seq(Int) /\ WordSize \in Nat \ {0}
    BY <1>2, <1>4
  <2> HIDE DEF words
  <2>2. Len(Table!Units(words)) = WordSize * Len(words)
    BY <2>1, UnitsOf
  <2> QED
    BY <2>2
<1>9. w * k + o = w * l
  <2>1. w * k + o + 0 + 0 = Len(Table!Units(words))
    BY <1>1, EmptySeq DEF OnWire, Behind
  <2>2. w * k \in Nat /\ w * l \in Nat
    BY <1>2, <1>5, <1>7, Product
  <2> HIDE DEF k, o, l, words, w
  <2> QED
    BY <2>1, <2>2, <1>5, <1>8
<1> HIDE DEF k, o, l, m, g, words, rows, w
<1>10. k = l
  <2>1. w * k \in Nat /\ w * l \in Nat /\ w * (k + 1) = w * k + w
    BY <1>2, <1>5, <1>7, Product
  <2>2. k <= l
    BY <2>1, <1>2, <1>5, <1>7, <1>9, ProductGrows
  <2>3. ~ (k + 1 <= l)
    <3>1. ~ (w * (k + 1) <= w * l)
      BY <2>1, <1>2, <1>5, <1>9
    <3>2. k + 1 \in Nat
      BY <1>7
    <3> QED
      BY <3>1, <3>2, <1>2, <1>5, ProductGrows
  <2> QED
    BY <2>2, <2>3, <1>5, <1>7
<1>11. r.item = "body" => g < Len(rows)
  BY DEF StreamInv, Takes, g, rows
<1>12. r.item = "mark" /\ g = Len(rows)
  BY <1>3, <1>5, <1>6, <1>10, <1>11
<1>13. \A i \in 1..g : r.got[i] = rows[i]
  BY DEF StreamInv, HasRows, g, rows
<1>14. r.got = rows
  BY <1>3, <1>4, <1>12, <1>13, SeqEqual DEF g
<1> QED
  BY <1>12, <1>14 DEF rows

\* What the connection gives goes from what is to come to what is unread.
LEMMA FetchInv ==
  ASSUME TableInv, SessionsAssumption, Table!Fetch
  PROVE  TableInv'
<1>1. /\ reader \in TableReader /\ StreamInv(reader)
      /\ reader.pc = "reading" /\ reader.mReader # "none" /\ ~ reader.mEOF
      /\ reader.unread = <<>> /\ service' = service /\ client' = client
  BY DEF TableInv, TableTypeOK, Table!Fetch, Table!Open, Table!Reading
<1>2. reader.wire \in Seq(Int)
  BY <1>1 DEF TableReader
<1>3. PICK n \in 1..Table!Lesser(PieceSize, Len(reader.wire)) :
        reader' = [reader EXCEPT !.unread = SubSeq(reader.wire, 1, n),
                                 !.wire = SubSeq(reader.wire, n + 1, Len(reader.wire))]
  BY DEF Table!Fetch
<1>4. Len(reader.wire) \in Nat /\ PieceSize \in Nat /\ WordSize \in Nat
  BY <1>2, LenProperties DEF SessionsAssumption, Table!TableReadAssumption
<1>5. n \in 0..Len(reader.wire)
  BY <1>4 DEF Table!Lesser
<1> DEFINE x == SubSeq(reader.wire, 1, n)
           y == SubSeq(reader.wire, n + 1, Len(reader.wire))
           l == Len(reader.wire)
<1>6. /\ x \in Seq(Int) /\ Len(x) = n /\ \A i \in 1..n : x[i] = reader.wire[i]
      /\ y \in Seq(Int) /\ Len(y) = l - n /\ \A i \in 1..(l - n) : y[i] = reader.wire[n + i]
  <2> DEFINE wire == reader.wire
  <2>1. wire \in Seq(Int) /\ n \in 0..Len(wire)
    BY <1>2, <1>5
  <2> HIDE DEF wire
  <2>2. /\ SubSeq(wire, 1, n) \in Seq(Int) /\ Len(SubSeq(wire, 1, n)) = n
        /\ \A i \in 1..n : SubSeq(wire, 1, n)[i] = wire[i]
        /\ SubSeq(wire, n + 1, Len(wire)) \in Seq(Int)
        /\ Len(SubSeq(wire, n + 1, Len(wire))) = Len(wire) - n
        /\ \A i \in 1..(Len(wire) - n) : SubSeq(wire, n + 1, Len(wire))[i] = wire[n + i]
    BY <2>1, Cut
  <2> QED
    BY <2>2 DEF wire
<1> DEFINE t == [reader EXCEPT !.unread = x, !.wire = y]
<1>7. reader' = t
  BY <1>3
<1> HIDE DEF x, y
<1>8. /\ t \in TableReader /\ t.pc = "reading" /\ t.mReader = reader.mReader
      /\ t.mOffset = reader.mOffset /\ t.mCount = reader.mCount /\ t.wire = y /\ t.lost = reader.lost
      /\ t.unread = x /\ t.taken = reader.taken /\ t.mEOF = reader.mEOF /\ t.mEof = reader.mEof
      /\ t.got = reader.got /\ t.item = reader.item
  BY <1>1, <1>6 DEF TableReader
<1> HIDE DEF t
<1>9. /\ Table!Rows(t) = Table!Rows(reader)
      /\ \A marked \in BOOLEAN : Table!Words(t, marked) = Table!Words(reader, marked)
      /\ Place(t) = Place(reader)
  BY <1>8, SameSplit DEF Place
<1>10. reader.taken \in Seq(Int) /\ Len(reader.taken) \in Nat /\ reader.got \in Seq(Int)
  BY <1>1, LenProperties DEF TableReader
<1>11. Len(reader.got) \in Nat
  BY <1>10, LenProperties
<1>12. WordSize * Place(reader) \in Nat
  <2>1. Place(reader) \in Nat
    BY <1>1, PlaceIsNat
  <2> QED
    BY <2>1, <1>4, Product
<1>13. ASSUME NEW u, OnWire(reader, u)
       PROVE  OnWire(t, u)
  <2> DEFINE word == WordSize * Place(reader)
             at == word + Len(reader.taken)
  <2>1. at \in Nat
    BY <1>10, <1>12
  <2>2. Behind(reader, u, at) /\ \A i \in 1..Len(reader.taken) : reader.taken[i] = u[word + i]
    BY <1>13 DEF OnWire
  <2> HIDE DEF word, at
  <2>3. /\ at + 0 + l <= Len(u)
        /\ ~ reader.lost => at + 0 + l = Len(u)
        /\ \A i \in 1..l : reader.wire[i] = u[at + 0 + i]
    BY <2>2, <1>1, EmptySeq DEF Behind
  <2>4. at + n + (l - n) = at + 0 + l /\ n \in Nat /\ n <= l /\ l \in Nat
    <3>1. l \in Nat /\ n \in 0..l
      BY <1>4, <1>5
    <3> HIDE DEF l
    <3> QED
      BY <3>1, <2>1
  <2>5. \A i \in 1..n : x[i] = u[at + i]
    <3>1. \A i \in 1..n : i \in 1..l /\ at + 0 + i = at + i
      BY <2>1, <2>4
    <3> QED
      BY <3>1, <2>3, <1>6
  <2>6. \A i \in 1..(l - n) : y[i] = u[at + n + i]
    <3>1. \A i \in 1..(l - n) : n + i \in 1..l /\ at + 0 + (n + i) = at + n + i
      BY <2>1, <2>4
    <3>2. \A i \in 1..(l - n) : reader.wire[n + i] = u[at + 0 + (n + i)]
      BY <3>1, <2>3
    <3> HIDE DEF l
    <3> QED
      BY <3>1, <3>2, <1>6
  <2>7. Behind(t, u, at)
    BY <2>3, <2>4, <2>5, <2>6, <1>6, <1>8 DEF Behind
  <2>8. WordSize * Place(t) = word /\ word + Len(t.taken) = at
    BY <1>8, <1>9 DEF word, at
  <2> QED
    BY <2>2, <2>7, <2>8, <1>8 DEF OnWire
<1>14. Takes(reader)
  BY <1>1 DEF StreamInv
<1>15. Takes(t)
  BY <1>1, <1>8, <1>9, <1>13, <1>14 DEF Takes
<1>16. HasRows(t)
  BY <1>1, <1>8, <1>9 DEF StreamInv, HasRows
<1>17. StreamInv(t)
  BY <1>1, <1>8, <1>9, <1>15, <1>16 DEF StreamInv
<1> QED
  BY <1>1, <1>7, <1>8, <1>17 DEF TableInv, TableTypeOK, TableSessionInv

\* A step of the stream leaves the session.
LEMMA StreamMoves ==
  ASSUME TableInv, UNCHANGED <<service, client>>, reader' \in TableReader, StreamInv(reader')
  PROVE  TableInv'
<1>1. StreamInv(reader)'
  OBVIOUS
<1> QED
  BY <1>1 DEF TableInv, TableTypeOK, TableSessionInv

\* What is taken is the next part of the word, and a whole word is an item.
LEMMA TakeInv ==
  ASSUME TableInv, SessionsAssumption, Table!Take
  PROVE  TableInv'
<1> DEFINE w == WordSize
           o == Len(reader.taken)
           l == Len(reader.unread)
           n == Table!Lesser(l, w - o)
           x == SubSeq(reader.unread, 1, n)
           y == SubSeq(reader.unread, n + 1, l)
           taken == reader.taken \o x
           k == Place(reader)
           r == [reader EXCEPT !.taken = taken, !.unread = y]
           none == <<>>
           s == [r EXCEPT !.taken = none]
<1>1. /\ reader \in TableReader /\ StreamInv(reader)
      /\ reader.pc = "reading" /\ reader.mReader # "none" /\ ~ reader.mEOF
      /\ reader.unread # <<>> /\ UNCHANGED <<service, client>>
  BY DEF TableInv, TableTypeOK, Table!Take, Table!Open, Table!Reading
<1>2. reader.unread \in Seq(Int) /\ reader.taken \in Seq(Int) /\ reader.wire \in Seq(Int)
  BY <1>1 DEF TableReader
<1>3. w \in Nat /\ w > 0 /\ MaxRow \in Nat
  BY DEF SessionsAssumption, Table!TableReadAssumption
<1>4. l \in Nat /\ l > 0 /\ o \in Nat /\ k \in Nat /\ Len(reader.wire) \in Nat
  BY <1>1, <1>2, LenProperties, EmptySeq, PlaceIsNat
<1>5. Takes(reader) /\ HasRows(reader) /\ ~ reader.mEof
  BY <1>1 DEF StreamInv
<1>6. o < w
  BY <1>5 DEF Takes
<1>7. n \in 0..l /\ n >= 1 /\ o + n <= w /\ (n = l \/ o + n = w)
  <2> HIDE DEF l, w, o
  <2> QED
    BY <1>3, <1>4, <1>6 DEF Table!Lesser
<1>8. reader' = IF Len(taken) = w THEN Table!Item(s, taken[1])
                ELSE IF reader.item = "body" THEN r ELSE Table!Broken(r)
  BY <1>1 DEF Table!Take, TableReader
<1> HIDE DEF n
<1>9. /\ x \in Seq(Int) /\ Len(x) = n /\ \A i \in 1..n : x[i] = reader.unread[i]
      /\ y \in Seq(Int) /\ Len(y) = l - n /\ \A i \in 1..(l - n) : y[i] = reader.unread[n + i]
  BY <1>2, <1>7, Cut
<1> HIDE DEF x, y
<1>10. /\ taken \in Seq(Int) /\ Len(taken) = o + n
       /\ \A i \in 1..(o + n) : taken[i] = IF i <= o THEN reader.taken[i] ELSE x[i - o]
  <2> DEFINE p == reader.taken
  <2>1. p \in Seq(Int) /\ x \in Seq(Int) /\ Len(x) = n
    BY <1>2, <1>9
  <2> HIDE DEF p
  <2>2. /\ p \o x \in Seq(Int) /\ Len(p \o x) = Len(p) + Len(x)
        /\ \A i \in 1..(Len(p) + Len(x)) : (p \o x)[i] = IF i <= Len(p) THEN p[i] ELSE x[i - Len(p)]
    BY <2>1, ConcatProperties
  <2> QED
    BY <2>1, <2>2 DEF p
<1>11. none \in Seq(Int) /\ Len(none) = 0 /\ none = <<>>
  OBVIOUS
<1> HIDE DEF taken, none
<1>12. /\ r \in TableReader /\ r.pc = "reading" /\ r.mReader = reader.mReader
       /\ r.mOffset = reader.mOffset /\ r.mCount = reader.mCount /\ r.wire = reader.wire
       /\ r.lost = reader.lost /\ r.unread = y /\ r.taken = taken /\ r.mEOF = reader.mEOF
       /\ r.mEof = reader.mEof /\ r.got = reader.got /\ r.item = reader.item
  BY <1>1, <1>9, <1>10 DEF TableReader
<1> HIDE DEF r
<1>13. /\ s \in TableReader /\ s.pc = "reading" /\ s.mReader = reader.mReader
       /\ s.mOffset = reader.mOffset /\ s.mCount = reader.mCount /\ s.wire = reader.wire
       /\ s.lost = reader.lost /\ s.unread = y /\ s.taken = none /\ s.mEOF = reader.mEOF
       /\ s.mEof = reader.mEof /\ s.got = reader.got /\ s.item = reader.item
  BY <1>11, <1>12 DEF TableReader
<1> HIDE DEF s
<1>14. \A q \in {r, s} :
         /\ Table!Rows(q) = Table!Rows(reader)
         /\ \A marked \in BOOLEAN : Table!Words(q, marked) = Table!Words(reader, marked)
         /\ Place(q) = k
         /\ HasRows(q)
  <2>1. ASSUME NEW q \in {r, s}
        PROVE  Table!Rows(q) = Table!Rows(reader)
               /\ \A marked \in BOOLEAN : Table!Words(q, marked) = Table!Words(reader, marked)
    BY <1>12, <1>13, SameSplit
  <2>2. ASSUME NEW q \in {r, s}
        PROVE  Place(q) = k
    BY <1>12, <1>13 DEF Place
  <2>3. ASSUME NEW q \in {r, s}
        PROVE  HasRows(q)
    BY <2>1, <1>5, <1>12, <1>13 DEF HasRows
  <2> QED
    BY <2>1, <2>2, <2>3
<1>15. PICK marked \in BOOLEAN : OnWire(reader, Table!Units(Table!Words(reader, marked)))
  BY <1>5 DEF Takes
<1> DEFINE words == Table!Words(reader, marked)
           u == Table!Units(words)
           word == w * k
<1>16. word \in Nat
  <2> HIDE DEF w, k
  <2> QED
    BY <1>3, <1>4, Product
<1>17. Behind(reader, u, word + o) /\ \A i \in 1..o : reader.taken[i] = u[word + i]
  BY <1>15 DEF OnWire
<1> HIDE DEF word, u, words, w, o, l, k
<1>18. \A i \in 1..(o + n) : taken[i] = u[word + i]
  <2> SUFFICES ASSUME NEW i \in 1..(o + n)
               PROVE  taken[i] = u[word + i]
    OBVIOUS
  <2>1. CASE i <= o
    <3>1. i \in 1..o
      BY <2>1, <1>4
    <3> QED
      BY <2>1, <3>1, <1>10, <1>17
  <2>2. CASE i > o
    <3>1. i - o \in 1..n /\ i - o \in 1..l /\ (word + o) + (i - o) = word + i /\ ~ (i <= o)
      BY <2>2, <1>4, <1>7, <1>16
    <3>2. taken[i] = x[i - o]
      BY <3>1, <1>10
    <3>3. x[i - o] = reader.unread[i - o]
      BY <3>1, <1>9
    <3>4. reader.unread[i - o] = u[(word + o) + (i - o)]
      BY <3>1, <1>17 DEF Behind, l
    <3> QED
      BY <3>1, <3>2, <3>3, <3>4
  <2>3. i <= o \/ i > o
    BY <1>4
  <2> QED
    BY <2>1, <2>2, <2>3
<1>19. \A q \in {r, s} : Behind(q, u, word + (o + n))
  <2> SUFFICES ASSUME NEW q \in {r, s}
               PROVE  Behind(q, u, word + (o + n))
    OBVIOUS
  <2>1. q.wire = reader.wire /\ q.unread = y /\ q.lost = reader.lost
    BY <1>12, <1>13
  <2> DEFINE a == word + o
             b == word + (o + n)
             v == Len(reader.wire)
  <2>2. a \in Nat /\ b \in Nat /\ b = a + n /\ n \in Nat /\ n <= l /\ l \in Nat /\ v \in Nat
    BY <1>4, <1>7, <1>16
  <2>3. /\ a + l + v <= Len(u) /\ (~ reader.lost => a + l + v = Len(u))
        /\ \A i \in 1..l : reader.unread[i] = u[a + i]
        /\ \A i \in 1..v : reader.wire[i] = u[a + l + i]
    BY <1>17 DEF Behind, l
  <2> HIDE DEF a, b, v
  <2>4. b + (l - n) + v = a + l + v
    BY <2>2
  <2>5. \A i \in 1..(l - n) : y[i] = u[b + i]
    <3>1. \A i \in 1..(l - n) : n + i \in 1..l /\ a + (n + i) = b + i
      BY <2>2
    <3>2. \A i \in 1..(l - n) : reader.unread[n + i] = u[a + (n + i)]
      BY <3>1, <2>3
    <3> QED
      BY <3>1, <3>2, <1>9
  <2>6. \A i \in 1..v : reader.wire[i] = u[b + (l - n) + i]
    <3>1. \A i \in 1..v : b + (l - n) + i = a + l + i
      BY <2>2
    <3> QED
      BY <3>1, <2>3
  <2>7. /\ b + Len(q.unread) + Len(q.wire) <= Len(u)
        /\ ~ q.lost => b + Len(q.unread) + Len(q.wire) = Len(u)
    BY <2>1, <2>3, <2>4, <1>9 DEF v
  <2>8. Behind(q, u, b)
    BY <2>1, <2>5, <2>6, <2>7, <1>9 DEF Behind, v
  <2> QED
    BY <2>8 DEF b
<1>20. CASE Len(taken) = w
  <2>1. o + n = w /\ w * (k + 1) = word + (o + n)
    <3>1. o + n = w
      BY <1>10, <1>20
    <3>2. w * (k + 1) = w * k + w
      BY <1>3, <1>4, Product
    <3> QED
      BY <3>1, <3>2 DEF word
  <2>2. Behind(s, u, w * (k + 1))
    BY <2>1, <1>19
  <2>3. words \in Seq(Int) /\ Len(words) \in Nat
    <3>1. words \in Seq(Int)
      BY <1>1, <1>3, WordsOf DEF words
    <3> QED
      BY <3>1, LenProperties
  <2>4. w \in Nat \ {0}
    BY <1>3
  <2>5. /\ Len(u) = w * Len(words)
        /\ \A j \in 0..(Len(words) - 1) : \A i \in 1..w : u[w * j + i] = words[j + 1]
    BY <2>3, <2>4, UnitsOf DEF u, w
  <2>6. k < Len(words)
    <3>1. w * (k + 1) <= w * Len(words)
      <4>1. w * (k + 1) + Len(s.unread) + Len(s.wire) <= Len(u)
        BY <2>2 DEF Behind
      <4>2. Len(s.unread) \in Nat /\ Len(s.wire) \in Nat
        BY <1>2, <1>9, <1>13, LenProperties
      <4>3. w * (k + 1) \in Nat
        BY <2>1, <1>4, <1>7, <1>16
      <4>4. w * Len(words) \in Nat
        BY <2>3, <2>4, Product
      <4> QED
        BY <4>1, <4>2, <4>3, <4>4, <2>5
    <3>2. k + 1 \in Nat
      BY <1>4
    <3>3. k + 1 <= Len(words)
      BY <3>1, <3>2, <2>3, <1>3, ProductGrows
    <3> QED
      BY <3>3, <2>3, <1>4
  <2>7. taken[1] = words[k + 1]
    <3>1. 1 \in 1..(o + n) /\ 1 \in 1..w /\ k \in 0..(Len(words) - 1)
      BY <2>1, <2>3, <2>6, <1>3, <1>4
    <3>2. taken[1] = u[word + 1]
      BY <3>1, <1>18
    <3>3. u[w * k + 1] = words[k + 1]
      BY <3>1, <2>5
    <3> QED
      BY <3>2, <3>3 DEF word
  <2>8. reader' = Table!Item(s, words[k + 1])
    BY <2>7, <1>8, <1>20
  <2>9. Table!Words(s, marked) = words /\ Place(s) = k /\ HasRows(s) /\ Table!Rows(s) = Table!Rows(reader)
    BY <1>14 DEF words
  <2>10. s.item = "body" /\ s.mReader = "open" => Len(s.got) < Len(Table!Rows(s))
    BY <2>9, <1>5, <1>13 DEF Takes
  <2>11. Behind(s, Table!Units(Table!Words(s, marked)), WordSize * (Place(s) + 1))
    BY <2>2, <2>9 DEF u, w
  <2>12. /\ Table!Item(s, Table!Words(s, marked)[Place(s) + 1]) \in TableReader
         /\ StreamInv(Table!Item(s, Table!Words(s, marked)[Place(s) + 1]))
    BY <2>6, <2>9, <2>10, <2>11, <1>1, <1>5, <1>11, <1>13, ItemInv
  <2> QED
    BY <2>8, <2>9, <2>12, <1>1, StreamMoves
<1>21. CASE Len(taken) # w /\ reader.item = "body"
  <2>1. Len(taken) < w
    BY <1>3, <1>4, <1>7, <1>10, <1>21
  <2>2. OnWire(r, Table!Units(Table!Words(r, marked)))
    <3>1. r \in {r, s}
      OBVIOUS
    <3>2. Table!Words(r, marked) = words /\ WordSize * Place(r) = word
      BY <3>1, <1>14 DEF words, word, w
    <3>3. Behind(r, u, word + Len(r.taken))
      BY <3>1, <1>10, <1>12, <1>19
    <3>4. \A i \in 1..Len(r.taken) : r.taken[i] = u[word + i]
      BY <1>10, <1>12, <1>18
    <3> QED
      BY <3>2, <3>3, <3>4 DEF OnWire, u
  <2>3. Table!Rows(r) = Table!Rows(reader) /\ HasRows(r)
    BY <1>14
  <2>4. Takes(r)
    BY <2>1, <2>2, <2>3, <1>1, <1>5, <1>12, <1>21 DEF Takes, w
  <2>5. StreamInv(r)
    BY <2>3, <2>4, <1>1, <1>5, <1>12 DEF StreamInv
  <2> QED
    BY <2>5, <1>1, <1>8, <1>12, <1>21, StreamMoves
<1>22. CASE Len(taken) # w /\ reader.item # "body"
  <2>1. r.taken # <<>>
    <3>1. Len(taken) # 0
      BY <1>4, <1>7, <1>10
    <3> QED
      BY <3>1, <1>12, EmptySeq
  <2>2. HasRows(r)
    BY <1>14
  <2>3. Table!Broken(r) \in TableReader /\ StreamInv(Table!Broken(r))
    BY <2>1, <2>2, <1>1, <1>5, <1>12, <1>22, BrokenInv
  <2> QED
    BY <2>3, <1>1, <1>8, <1>22, StreamMoves
<1> QED
  BY <1>20, <1>21, <1>22

\* An answer that is used up ends the stream where a message would start, and
\* breaks it elsewhere, which only a lost connection does.
LEMMA TakeNothingInv ==
  ASSUME TableInv, SessionsAssumption, Table!TakeNothing
  PROVE  TableInv'
<1> DEFINE s == [reader EXCEPT !.mEOF = TRUE]
<1>1. /\ reader \in TableReader /\ StreamInv(reader)
      /\ reader.pc = "reading" /\ reader.mReader # "none" /\ UNCHANGED <<service, client>>
      /\ reader' = Table!AtEOF(reader)
  BY DEF TableInv, TableTypeOK, Table!TakeNothing, Table!Open, Table!Reading
<1>2. Takes(reader) /\ HasRows(reader) /\ ~ reader.mEof
  BY <1>1 DEF StreamInv
<1>3. reader.unread = <<>> /\ reader.wire = <<>>
  BY <1>2 DEF Table!TakeNothing, Takes
<1>4. reader.mReader = "open" /\ ~ reader.lost => reader.item = "mark" /\ reader.got = Table!Rows(reader)
  BY <1>1, <1>3, AtEnd
<1>5. /\ s \in TableReader /\ s.pc = "reading" /\ s.mReader = reader.mReader
      /\ s.mOffset = reader.mOffset /\ s.mCount = reader.mCount /\ s.wire = reader.wire
      /\ s.lost = reader.lost /\ s.unread = reader.unread /\ s.taken = reader.taken /\ s.mEOF
      /\ s.mEof = reader.mEof /\ s.got = reader.got /\ s.item = reader.item
  BY <1>1 DEF TableReader
<1>6. /\ reader.mReader \in {"none", "schema", "open"} /\ reader.item \in {"mark", "size", "body"}
  BY <1>1 DEF TableReader
<1>7. reader' = IF reader.mEOF THEN Table!Broken(reader)
                ELSE IF reader.item = "mark" THEN Table!NoMessage(s)
                ELSE IF reader.item = "body" THEN s ELSE Table!Broken(s)
  BY <1>1 DEF Table!AtEOF
<1> HIDE DEF s
<1>8. /\ Table!Rows(s) = Table!Rows(reader)
      /\ \A marked \in BOOLEAN : Table!Words(s, marked) = Table!Words(reader, marked)
      /\ Place(s) = Place(reader) /\ HasRows(s)
  <2>1. /\ Table!Rows(s) = Table!Rows(reader)
        /\ \A marked \in BOOLEAN : Table!Words(s, marked) = Table!Words(reader, marked)
    BY <1>5, SameSplit
  <2> QED
    BY <2>1, <1>2, <1>5 DEF Place, HasRows
<1>9. CASE reader.mEOF
  <2>1. reader.item = "body"
    BY <1>2, <1>9 DEF Takes
  <2>2. Table!Broken(reader) \in TableReader /\ StreamInv(Table!Broken(reader))
    BY <2>1, <1>1, <1>2, <1>4, BrokenInv
  <2> QED
    BY <2>2, <1>1, <1>7, <1>9, StreamMoves
<1>10. CASE ~ reader.mEOF /\ reader.item = "mark"
  <2>1. Table!NoMessage(s) \in TableReader /\ StreamInv(Table!NoMessage(s))
    BY <1>1, <1>2, <1>4, <1>5, <1>8, NoMessageInv
  <2> QED
    BY <2>1, <1>1, <1>7, <1>10, StreamMoves
<1>11. CASE ~ reader.mEOF /\ reader.item = "body"
  <2>1. \A u : OnWire(reader, u) => OnWire(s, u)
    BY <1>5, <1>8 DEF OnWire, Behind
  <2>2. Takes(s)
    BY <2>1, <1>2, <1>3, <1>5, <1>8, <1>11 DEF Takes
  <2>3. StreamInv(s)
    BY <2>2, <1>1, <1>2, <1>5, <1>8 DEF StreamInv
  <2> QED
    BY <2>3, <1>1, <1>5, <1>7, <1>11, StreamMoves
<1>12. CASE ~ reader.mEOF /\ reader.item = "size"
  <2>1. Table!Broken(s) \in TableReader /\ StreamInv(Table!Broken(s))
    BY <1>1, <1>2, <1>4, <1>5, <1>8, <1>12, BrokenInv
  <2> QED
    BY <2>1, <1>1, <1>7, <1>12, StreamMoves
<1> QED
  BY <1>6, <1>9, <1>10, <1>11, <1>12

\* A reader that is opened stands at the start of an answer.
LEMMA OpenReaderInv ==
  ASSUME TableInv, SessionsAssumption, Table!OpenReader
  PROVE  TableInv'
<1>1. /\ reader \in TableReader /\ StreamInv(reader)
      /\ reader.pc = "reading" /\ reader.mReader = "none" /\ UNCHANGED <<service, client>>
  BY DEF TableInv, TableTypeOK, Table!OpenReader, Table!Reading
<1>2. HasRows(reader) /\ ~ reader.mEof /\ reader.got = <<>>
  BY <1>1 DEF StreamInv
<1>3. MaxRow \in Nat /\ WordSize \in Nat \ {0}
  BY DEF SessionsAssumption, Table!TableReadAssumption
<1>4. CASE reader' = [reader EXCEPT !.pc = "threw"]
  <2> DEFINE t == [reader EXCEPT !.pc = "threw"]
  <2>1. /\ t \in TableReader /\ t.pc = "threw" /\ t.mReader = reader.mReader
        /\ t.mOffset = reader.mOffset /\ t.mCount = reader.mCount /\ t.wire = reader.wire
        /\ t.lost = reader.lost /\ t.unread = reader.unread /\ t.taken = reader.taken
        /\ t.mEOF = reader.mEOF /\ t.mEof = reader.mEof /\ t.got = reader.got /\ t.item = reader.item
    BY <1>1 DEF TableReader
  <2> HIDE DEF t
  <2>2. StreamInv(t)
    BY <2>1, <1>1, SameTakes
  <2> QED
    BY <2>1, <2>2, <1>1, <1>4, StreamMoves DEF t
<1>5. ASSUME NEW marked \in BOOLEAN, NEW n \in 0..Len(Table!Units(Table!Words(reader, marked))),
             reader' = [reader EXCEPT !.mReader = "schema",
                                      !.wire = SubSeq(Table!Units(Table!Words(reader, marked)), 1, n),
                                      !.lost = n < Len(Table!Units(Table!Words(reader, marked))),
                                      !.unread = <<>>, !.mEOF = FALSE, !.item = "mark",
                                      !.taken = <<>>]
      PROVE  TableInv'
  <2> DEFINE words == Table!Words(reader, marked)
             u == Table!Units(words)
             x == SubSeq(u, 1, n)
             none == <<>>
             lost == n < Len(u)
             t == [reader EXCEPT !.mReader = "schema", !.wire = x, !.lost = lost, !.unread = none,
                                 !.mEOF = FALSE, !.item = "mark", !.taken = none]
  <2>1. words \in Seq(Int)
    BY <1>1, <1>3, WordsOf
  <2>2. u \in Seq(Int)
    <3> HIDE DEF words
    <3> QED
      BY <2>1, <1>3, UnitsOf
  <2>3. n \in 0..Len(u) /\ Len(u) \in Nat
    BY <2>2, <1>5, LenProperties
  <2>4. reader' = t
    BY <1>5
  <2> HIDE DEF u, words
  <2>5. x \in Seq(Int) /\ Len(x) = n /\ \A i \in 1..n : x[i] = u[i]
    BY <2>2, <2>3, Cut
  <2>6. none \in Seq(Int) /\ Len(none) = 0 /\ lost \in BOOLEAN /\ none = <<>>
    OBVIOUS
  <2>7. ~ lost => n = Len(u)
    BY <2>3
  <2> HIDE DEF x, none, lost
  <2>8. /\ t \in TableReader /\ t.pc = "reading" /\ t.mReader = "schema"
        /\ t.mOffset = reader.mOffset /\ t.mCount = reader.mCount /\ t.wire = x
        /\ t.lost = lost /\ t.unread = none /\ t.taken = none
        /\ t.mEOF = FALSE /\ t.mEof = reader.mEof /\ t.got = reader.got /\ t.item = "mark"
    BY <2>5, <2>6, <1>1 DEF TableReader
  <2> HIDE DEF t
  <2>9. Table!Rows(t) = Table!Rows(reader) /\ Table!Words(t, marked) = words
    BY <2>8, SameSplit DEF words
  <2>10. WordSize * Place(t) = 0
    <3>1. Place(t) = 0
      BY <2>8 DEF Place
    <3> QED
      BY <3>1, <1>3
  <2>11. OnWire(t, u)
    <3>1. Behind(t, u, 0)
      BY <2>3, <2>5, <2>6, <2>7, <2>8 DEF Behind
    <3>2. 0 + Len(t.taken) = 0 /\ \A i \in 1..Len(t.taken) : FALSE
      BY <2>6, <2>8
    <3> QED
      BY <3>1, <3>2, <2>10 DEF OnWire
  <2>12. Takes(t)
    <3>1. \E marks \in BOOLEAN : OnWire(t, Table!Units(Table!Words(t, marks)))
      BY <2>9, <2>11 DEF u
    <3> QED
      BY <3>1, <2>6, <2>8, <1>3 DEF Takes
  <2>13. HasRows(t)
    BY <2>8, <2>9, <1>2 DEF HasRows
  <2>14. StreamInv(t)
    BY <2>8, <2>12, <2>13, <1>2 DEF StreamInv
  <2> QED
    BY <2>4, <2>8, <2>14, <1>1, StreamMoves
<1> QED
  BY <1>4, <1>5 DEF Table!OpenReader, Table!Answers

\* A stream starts without a reader and without rows.
LEMMA CallStreamInv ==
  ASSUME TableInv, SessionsAssumption, NEW offset \in -1..MaxRow, NEW count \in 0..1,
         Table!CallStream(offset, count)
  PROVE  TableInv'
<1> DEFINE t == Table!StreamOf(offset, count)
           none == <<>>
<1>1. reader' = t /\ UNCHANGED <<service, client>>
  BY DEF Table!CallStream
<1>2. none \in Seq(Int) /\ none = <<>> /\ Len(none) = 0
  OBVIOUS
<1>3. t = [pc |-> "idle", mOffset |-> offset, mCount |-> count, mEof |-> FALSE, mClosed |-> FALSE,
           got |-> none,
           mReader |-> "none", wire |-> none, lost |-> FALSE, unread |-> none, mEOF |-> FALSE,
           item |-> "mark", taken |-> none]
  BY DEF Table!StreamOf
<1> HIDE DEF none, t
<1>4. count \in Nat
  OBVIOUS
<1>5. t \in TableReader /\ t.pc = "idle" /\ t.mReader = "none" /\ t.mEof = FALSE /\ t.got = none
  BY <1>2, <1>3, <1>4 DEF TableReader
<1>6. HasRows(t)
  <2>1. Table!Rows(t) \in Seq(Int)
    BY <1>5, RowsOf DEF SessionsAssumption, Table!TableReadAssumption
  <2>2. Len(Table!Rows(t)) \in Nat
    BY <2>1, LenProperties
  <2> QED
    BY <2>2, <1>2, <1>5 DEF HasRows
<1>7. StreamInv(t)
  BY <1>2, <1>5, <1>6 DEF StreamInv
<1> QED
  BY <1>1, <1>5, <1>7, StreamMoves

\* A Read leaves the reader and the rows as they are.
LEMMA CallReadInv ==
  ASSUME TableInv, Table!CallRead
  PROVE  TableInv'
<1> DEFINE pc == IF reader.mClosed THEN "threw" ELSE IF reader.mEof THEN "end" ELSE "reading"
           t == [reader EXCEPT !.pc = pc]
<1>1. /\ reader \in TableReader /\ StreamInv(reader) /\ reader.pc # "broken"
      /\ reader' = t /\ UNCHANGED <<service, client>>
  BY DEF TableInv, TableTypeOK, Table!CallRead
<1>2. /\ pc \in {"threw", "end", "reading"}
      /\ (pc = "reading" => ~ reader.mEof) /\ (pc = "end" => reader.mEof)
  OBVIOUS
<1> HIDE DEF pc
<1>3. /\ t \in TableReader /\ t.pc = pc /\ t.mReader = reader.mReader
      /\ t.mOffset = reader.mOffset /\ t.mCount = reader.mCount /\ t.wire = reader.wire
      /\ t.lost = reader.lost /\ t.unread = reader.unread /\ t.taken = reader.taken
      /\ t.mEOF = reader.mEOF /\ t.mEof = reader.mEof /\ t.got = reader.got /\ t.item = reader.item
  BY <1>1, <1>2 DEF TableReader
<1> HIDE DEF t
<1>4. StreamInv(t)
  BY <1>1, <1>2, <1>3, SameTakes
<1> QED
  BY <1>1, <1>3, <1>4, StreamMoves

\* So does Close.
LEMMA CallCloseInv ==
  ASSUME TableInv, Table!CallClose
  PROVE  TableInv'
<1> DEFINE t == [reader EXCEPT !.mClosed = TRUE]
<1>1. /\ reader \in TableReader /\ StreamInv(reader)
      /\ reader' = t /\ UNCHANGED <<service, client>>
  BY DEF TableInv, TableTypeOK, Table!CallClose
<1>2. /\ t \in TableReader /\ t.pc = reader.pc /\ t.mReader = reader.mReader
      /\ t.mOffset = reader.mOffset /\ t.mCount = reader.mCount /\ t.wire = reader.wire
      /\ t.lost = reader.lost /\ t.unread = reader.unread /\ t.taken = reader.taken
      /\ t.mEOF = reader.mEOF /\ t.mEof = reader.mEof /\ t.got = reader.got /\ t.item = reader.item
  BY <1>1 DEF TableReader
<1> HIDE DEF t
<1>3. StreamInv(t)
  BY <1>1, <1>2, SameTakes DEF StreamInv
<1> QED
  BY <1>1, <1>2, <1>3, StreamMoves

\* What was loaded is what the service said, and a session that was refused failed.
LEMMA LoadedInv ==
  ASSUME NEW c \in TableClient, service \in {"INIT", "NORMAL", "failed"}
  PROVE  LET d == Table!Loaded(c)
         IN  /\ d \in TableClient /\ d.elapsed = c.elapsed /\ d.kind = c.kind
             /\ d.created = c.created
             /\ d.pc = "built" /\ d.created =>
                  service # "INIT" /\ (d.kind = "table" => service = "NORMAL")
             /\ d.pc = "refused" => service = "failed"
<1> DEFINE pc == IF c.kind = "table" /\ service = "failed" THEN "refused"
                 ELSE IF c.created /\ service = "INIT" THEN "polling" ELSE "built"
           d == [c EXCEPT !.mStatus = service, !.pc = pc]
<1>1. /\ pc \in {"refused", "polling", "built"}
      /\ pc = "built" /\ c.created =>
           service # "INIT" /\ (c.kind = "table" => service = "NORMAL")
      /\ pc = "refused" => service = "failed"
  OBVIOUS
<1>2. Table!Loaded(c) = d
  BY DEF Table!Loaded
<1> HIDE DEF pc
<1>3. d \in TableClient /\ d.elapsed = c.elapsed /\ d.kind = c.kind /\ d.created = c.created /\ d.pc = pc
  BY <1>1 DEF TableClient
<1> HIDE DEF d
<1> QED
  BY <1>1, <1>2, <1>3

\* A step of the session leaves the stream.
LEMMA SessionSteps ==
  ASSUME TableInv, UNCHANGED <<service, reader>>, client' \in TableClient,
         client'.pc = "built" /\ client'.created =>
           service # "INIT" /\ (client'.kind = "table" => service = "NORMAL"),
         client'.pc = "refused" => service = "failed"
  PROVE  TableInv'
<1>1. StreamInv(reader')
  BY DEF TableInv
<1>2. StreamInv(reader)'
  BY <1>1
<1> QED
  BY <1>2 DEF TableInv, TableTypeOK, TableSessionInv

\* A session that is built has just been loaded.
LEMMA CallBuildInv ==
  ASSUME TableInv, NEW created \in BOOLEAN, Table!CallBuild(created)
  PROVE  TableInv'
<1> DEFINE c == [client EXCEPT !.created = created]
<1>1. client \in TableClient /\ service \in {"INIT", "NORMAL", "failed"} /\ UNCHANGED <<service, reader>>
  BY DEF TableInv, TableTypeOK, Table!CallBuild
<1>2. c \in TableClient
  BY <1>1 DEF TableClient
<1>3. CASE client' = Table!Loaded(c)
  <2> HIDE DEF c
  <2> QED
    BY <1>1, <1>2, <1>3, LoadedInv, SessionSteps
<1>4. CASE Table!RequestFails
  <2>1. client' \in TableClient /\ client'.pc = "threw"
    BY <1>1, <1>4 DEF TableClient, Table!RequestFails
  <2> QED
    BY <2>1, <1>1, SessionSteps
<1> QED
  BY <1>3, <1>4 DEF Table!CallBuild

\* So has one that was waited for, and a late answer is not taken.
LEMMA PollInv ==
  ASSUME TableInv, Table!Poll
  PROVE  TableInv'
<1> DEFINE b == [client EXCEPT !.elapsed = client.elapsed + 1]
           c == Table!Loaded(b)
<1>1. client \in TableClient /\ service \in {"INIT", "NORMAL", "failed"} /\ UNCHANGED <<service, reader>>
  BY DEF TableInv, TableTypeOK, Table!Poll
<1>2. b \in TableClient
  BY <1>1 DEF TableClient
<1>3. CASE client' = Table!Polled
  <2>1. client' = IF c.pc # "refused" /\ c.elapsed > SessionTimeout THEN [c EXCEPT !.pc = "timeout"]
                  ELSE c
    BY <1>3 DEF Table!Polled
  <2> HIDE DEF b
  <2>2. /\ c \in TableClient
        /\ c.pc = "built" /\ c.created =>
             service # "INIT" /\ (c.kind = "table" => service = "NORMAL")
        /\ c.pc = "refused" => service = "failed"
    BY <1>1, <1>2, LoadedInv
  <2> HIDE DEF c
  <2>3. CASE client' = c
    BY <2>2, <2>3, <1>1, SessionSteps
  <2>4. CASE client' = [c EXCEPT !.pc = "timeout"]
    <3>1. client' \in TableClient /\ client'.pc = "timeout"
      BY <2>2, <2>4 DEF TableClient
    <3> QED
      BY <3>1, <1>1, SessionSteps
  <2> QED
    BY <2>1, <2>3, <2>4
<1>4. CASE Table!RequestFails
  <2>1. client' \in TableClient /\ client'.pc = "threw"
    BY <1>1, <1>4 DEF TableClient, Table!RequestFails
  <2> QED
    BY <2>1, <1>1, SessionSteps
<1> QED
  BY <1>3, <1>4 DEF Table!Poll

\* The service ends the preparation of a session that nobody took for ready.
LEMMA SessionMovesInv ==
  ASSUME TableInv, Table!SessionMoves
  PROVE  TableInv'
<1>1. StreamInv(reader')
  BY DEF TableInv, Table!SessionMoves
<1>2. StreamInv(reader)'
  BY <1>1
<1> QED
  BY <1>2 DEF TableInv, TableTypeOK, TableSessionInv, Table!SessionMoves

\* There is no session and no stream at first.
LEMMA TableInit ==
  ASSUME SessionsAssumption, Table!Init
  PROVE  TableInv
<1> DEFINE none == <<>>
           r == [pc |-> "none", mOffset |-> 0, mCount |-> 0, mEof |-> FALSE, mClosed |-> FALSE,
                 got |-> none,
                 mReader |-> "none", wire |-> none, lost |-> FALSE, unread |-> none, mEOF |-> FALSE,
                 item |-> "mark", taken |-> none]
<1>1. MaxRow \in Nat
  BY DEF SessionsAssumption, Table!TableReadAssumption
<1>2. none \in Seq(Int) /\ none = <<>> /\ Len(none) = 0
  OBVIOUS
<1>3. reader = r
  BY DEF Table!Init, Table!StreamOf
<1>4. client \in TableClient /\ client.pc = "none" /\ service = "INIT"
  BY DEF Table!Init, TableClient
<1> HIDE DEF none
<1>5. reader \in TableReader /\ reader.pc = "none" /\ reader.mReader = "none" /\ ~ reader.mEof /\ reader.got = none
  BY <1>1, <1>2, <1>3 DEF TableReader
<1>6. HasRows(reader)
  <2>1. Table!Rows(reader) \in Seq(Int)
    BY <1>1, <1>5, RowsOf
  <2>2. Len(Table!Rows(reader)) \in Nat
    BY <2>1, LenProperties
  <2> QED
    BY <2>2, <1>2, <1>5 DEF HasRows
<1>7. StreamInv(reader)
  BY <1>2, <1>5, <1>6 DEF StreamInv
<1> QED
  BY <1>4, <1>5, <1>7 DEF TableInv, TableTypeOK, TableSessionInv

\* Every step of the session, the stream and the service keeps the invariant.
LEMMA TableStep ==
  ASSUME TableInv, SessionsAssumption, [Table!Next]_(Table!vars)
  PROVE  TableInv'
<1>1. CASE UNCHANGED Table!vars
  <2>1. StreamInv(reader')
    BY <1>1 DEF TableInv, Table!vars
  <2>2. StreamInv(reader)'
    BY <2>1
  <2> QED
    BY <2>2, <1>1 DEF TableInv, TableTypeOK, TableSessionInv, Table!vars
<1>2. CASE Table!SessionMoves
  BY <1>2, SessionMovesInv
<1>3. CASE \E created \in BOOLEAN : Table!CallBuild(created)
  BY <1>3, CallBuildInv
<1>4. CASE Table!Poll
  BY <1>4, PollInv
<1>5. CASE \E offset \in -1..MaxRow, count \in 0..1 : Table!CallStream(offset, count)
  BY <1>5, CallStreamInv
<1>6. CASE Table!CallRead
  BY <1>6, CallReadInv
<1>7. CASE Table!CallClose
  BY <1>7, CallCloseInv
<1>8. CASE Table!OpenReader
  BY <1>8, OpenReaderInv
<1>9. CASE Table!Fetch
  BY <1>9, FetchInv
<1>10. CASE Table!Take
  BY <1>10, TakeInv
<1>11. CASE Table!TakeNothing
  BY <1>11, TakeNothingInv
<1> QED
  BY <1>1, <1>2, <1>3, <1>4, <1>5, <1>6, <1>7, <1>8, <1>9, <1>10, <1>11
     DEF Table!Next, Table!ReadStep

\* The invariant gives the three properties.
LEMMA TableMeans ==
  ASSUME TableInv, SessionsAssumption
  PROVE  Table!BuiltIsPrepared /\ Table!RefusesOnlyBroken /\ Table!RowsInOrder
<1>1. Table!BuiltIsPrepared /\ Table!RefusesOnlyBroken
  BY DEF TableInv, TableSessionInv, StreamInv, Table!BuiltIsPrepared, Table!RefusesOnlyBroken
<1> DEFINE rows == Table!Rows(reader)
<1>2. reader \in TableReader /\ StreamInv(reader) /\ HasRows(reader)
  BY DEF TableInv, TableTypeOK, StreamInv
<1>3. reader.got \in Seq(Int)
  BY <1>2 DEF TableReader
<1>4. rows \in Seq(Int)
  BY <1>2, RowsOf DEF SessionsAssumption, Table!TableReadAssumption
<1> HIDE DEF rows
<1>5. Table!IsPrefix(reader.got, rows)
  <2>1. Len(reader.got) <= Len(rows) /\ \A i \in 1..Len(reader.got) : reader.got[i] = rows[i]
    BY <1>2 DEF HasRows, rows
  <2>2. Len(reader.got) \in Nat /\ Len(rows) \in Nat
    BY <1>3, <1>4, LenProperties
  <2>3. /\ SubSeq(rows, 1, Len(reader.got)) \in Seq(Int)
        /\ Len(SubSeq(rows, 1, Len(reader.got))) = Len(reader.got)
        /\ \A i \in 1..Len(reader.got) : SubSeq(rows, 1, Len(reader.got))[i] = rows[i]
    BY <2>1, <2>2, <1>4, Cut
  <2>4. SubSeq(rows, 1, Len(reader.got)) = reader.got
    BY <2>1, <2>3, <1>3, SeqEqual
  <2> QED
    BY <2>1, <2>4 DEF Table!IsPrefix
<1>6. reader.pc = "end" => reader.got = rows \/ reader.lost
  BY <1>2 DEF StreamInv, rows
<1> QED
  BY <1>1, <1>5, <1>6 DEF Table!RowsInOrder, rows

-----------------------------------------------------------------------------
(* A list that is read page by page.                                        *)

\* The naturals are counted from the least.
LEMMA Least ==
  ASSUME NEW T \in SUBSET Nat, T # {}
  PROVE  \E m \in T : \A k \in T : m <= k
<1>1. IsWellFoundedOn(OpToRel(<, Nat), Nat)
  BY NatLessThanWellFounded
<1>2. PICK m \in T : \A y \in T : ~ (<<y, m>> \in OpToRel(<, Nat))
  BY <1>1, WFMin
<1>3. \A y \in T : ~ (y < m)
  BY <1>2 DEF OpToRel
<1>4. \A y \in T : m <= y
  BY <1>3
<1> QED
  BY <1>4

\* The instance's cardinality is the library's.
LEMMA PagesCardinality ==
  ASSUME NEW S
  PROVE  Pages!Cardinality(S) = Cardinality(S)
BY DEF Pages!Cardinality, Cardinality, Pages!IsFiniteSet, IsFiniteSet

\* The elements of a set, each once and in ascending order.
Ascends(f) == \A i, j \in DOMAIN f : i < j => f[i] < f[j]

\* The entries of a finite set of places can be listed in ascending order.
LEMMA Ascending ==
  ASSUME NEW M \in Nat, NEW S \in SUBSET (1..M)
  PROVE  \E f \in [1..Cardinality(S) -> S] : Ascends(f)
<1> DEFINE Listed(e) == \E f \in [1..Cardinality(e) -> e] : Ascends(f)
           T == {n \in Nat : \E e \in SUBSET (1..n) : ~ Listed(e)}
<1>1. SUFFICES ASSUME T # {} PROVE FALSE
  <2>1. M \notin T => Listed(S)
    OBVIOUS
  <2> HIDE DEF T, Listed
  <2>2. T = {} => Listed(S)
    BY <2>1
  <2> QED
    BY <1>1, <2>2 DEF Listed
<1>2. PICK m \in T : \A k \in T : m <= k
  <2>1. T \in SUBSET Nat
    OBVIOUS
  <2> HIDE DEF T
  <2> QED
    BY <1>1, <2>1, Least
<1>3. PICK e \in SUBSET (1..m) : ~ Listed(e)
  BY <1>2
<1>4. m \in Nat /\ IsFiniteSet(e) /\ Cardinality(e) \in Nat
  <2>1. m \in Nat
    BY <1>2
  <2>2. IsFiniteSet(1..m)
    BY <2>1, FS_Interval
  <2>3. IsFiniteSet(e)
    BY <2>2, FS_Subset
  <2> QED
    BY <2>1, <2>3, FS_CardinalityType
<1>5. CASE m = 0
  <2>1. e = {}
    BY <1>5
  <2>2. Cardinality(e) = 0
    BY <2>1, FS_EmptySet
  <2> DEFINE f == [i \in 1..0 |-> i]
  <2>3. f \in [1..Cardinality(e) -> e] /\ Ascends(f)
    BY <2>2 DEF Ascends
  <2> HIDE DEF f
  <2> QED
    BY <2>3, <1>3
<1>6. CASE m # 0
  <2>1. m - 1 \in Nat /\ m - 1 \notin T
    <3>1. m - 1 \in Nat /\ ~ (m <= m - 1)
      BY <1>4, <1>6
    <3> HIDE DEF T
    <3> QED
      BY <3>1, <1>2
  <2>2. \A d \in SUBSET (1..(m - 1)) : Listed(d)
    BY <2>1
  <2> DEFINE d == e \ {m}
  <2>3. d \in SUBSET (1..(m - 1)) /\ (m \notin e => d = e)
    BY <1>4
  <2>4. m \in e
    <3> HIDE DEF Listed
    <3> QED
      BY <1>3, <2>2, <2>3
  <2> DEFINE n == Cardinality(d)
  <2>5. n \in Nat /\ Cardinality(e) = n + 1
    <3>1. IsFiniteSet(d) /\ n = Cardinality(e) - 1
      BY <1>4, <2>4, FS_RemoveElement
    <3>2. n \in Nat
      BY <3>1, FS_CardinalityType
    <3> HIDE DEF n
    <3> QED
      BY <3>1, <3>2, <1>4
  <2>6. PICK g \in [1..n -> d] : Ascends(g)
    BY <2>2, <2>3
  <2> DEFINE f == [i \in 1..(n + 1) |-> IF i = n + 1 THEN m ELSE g[i]]
  <2> HIDE DEF n
  <2>7. \A i \in 1..n : f[i] = g[i] /\ g[i] \in e /\ g[i] < m /\ g[i] \in Int
    <3>1. \A i \in 1..n : g[i] \in d
      BY <2>6
    <3>2. \A i \in 1..n : g[i] \in e /\ g[i] \in 1..(m - 1)
      BY <3>1, <2>3
    <3>3. \A i \in 1..n : f[i] = g[i]
      BY <2>5
    <3> QED
      BY <3>2, <3>3, <1>4
  <2>8. f[n + 1] = m /\ DOMAIN f = 1..(n + 1)
    BY <2>5
  <2> HIDE DEF f
  <2>9. \A i \in 1..(n + 1) : i \in 1..n \/ i = n + 1
    BY <2>5
  <2>10. f \in [1..(n + 1) -> e]
    <3>1. \A i \in 1..(n + 1) : f[i] \in e
      BY <2>4, <2>7, <2>8, <2>9
    <3>2. f = [i \in 1..(n + 1) |-> f[i]]
      BY DEF f
    <3> QED
      BY <3>1, <3>2
  <2>11. ASSUME NEW i \in 1..(n + 1), NEW j \in 1..(n + 1), i < j
         PROVE  f[i] < f[j]
    <3>1. i \in 1..n
      BY <2>5, <2>11
    <3>2. CASE j \in 1..n
      <4>1. g[i] < g[j]
        BY <2>6, <2>11, <3>1, <3>2 DEF Ascends
      <4> QED
        BY <4>1, <3>1, <3>2, <2>7
    <3>3. CASE j = n + 1
      BY <3>1, <3>3, <2>7, <2>8
    <3> QED
      BY <3>2, <3>3, <2>9
  <2>12. Ascends(f)
    BY <2>8, <2>11 DEF Ascends
  <2>13. Listed(e)
    BY <2>5, <2>10, <2>12
  <2> QED
    BY <2>13, <1>3
<1> QED
  BY <1>5, <1>6

\* Such a list has them all.
LEMMA AscendingAll ==
  ASSUME NEW M \in Nat, NEW S \in SUBSET (1..M), NEW f \in [1..Cardinality(S) -> S], Ascends(f)
  PROVE  /\ f \in Seq(Nat) /\ Len(f) = Cardinality(S)
         /\ \A i \in 1..Len(f) : f[i] \in S
         /\ \A x \in S : \E i \in 1..Len(f) : f[i] = x
<1> DEFINE n == Cardinality(S)
<1>1. IsFiniteSet(S) /\ n \in Nat
  <2>1. IsFiniteSet(1..M)
    BY FS_Interval
  <2>2. IsFiniteSet(S)
    BY <2>1, FS_Subset
  <2> QED
    BY <2>2, FS_CardinalityType
<1>2. IsFiniteSet(1..n) /\ Cardinality(1..n) = n
  <2> HIDE DEF n
  <2>1. 1 \in Int /\ n \in Int
    BY <1>1
  <2>2. IsFiniteSet(1..n) /\ Cardinality(1..n) = IF 1 > n THEN 0 ELSE n - 1 + 1
    BY <2>1, FS_Interval
  <2> QED
    BY <2>2, <1>1
<1> HIDE DEF n
<1>3. f \in [1..n -> S]
  BY DEF n
<1>4. f \in Injection(1..n, S)
  <2>1. \A i \in 1..n : f[i] \in Int
    <3>1. S \subseteq Int
      OBVIOUS
    <3>2. \A i \in 1..n : f[i] \in S
      BY <1>3
    <3> QED
      BY <3>1, <3>2
  <2>2. ASSUME NEW i \in 1..n, NEW j \in 1..n, f[i] = f[j]
        PROVE  i = j
    <3>1. i < j => f[i] < f[j]
      BY <1>3 DEF Ascends
    <3>2. j < i => f[j] < f[i]
      BY <1>3 DEF Ascends
    <3>3. i \in Nat /\ j \in Nat /\ f[i] \in Int /\ f[j] \in Int
      BY <2>1, <1>1
    <3>4. ~ (i < j) /\ ~ (j < i)
      BY <3>1, <3>2, <3>3, <2>2
    <3> QED
      BY <3>3, <3>4
  <2> QED
    BY <1>3, <2>2 DEF Injection, IsInjective
<1>5. f \in Surjection(1..n, S)
  BY <1>1, <1>2, <1>4, FS_Injection DEF n
<1>6. \A x \in S : \E i \in 1..n : f[i] = x
  BY <1>5 DEF Surjection
<1>7. S \in SUBSET Nat
  OBVIOUS
<1>8. f \in [1..n -> Nat]
  BY <1>3, <1>7
<1>9. f \in Seq(Nat) /\ Len(f) = n
  BY <1>8, <1>1
<1> QED
  BY <1>3, <1>6, <1>9 DEF n

\* The iterator of a list.
ListReader ==
  [pc : {"none", "item", "reading", "end", "threw"}, mBuffer : Seq(Nat), mReadIndex : Nat,
   mMarker : -1..(MaxItem + 1), got : Seq(Nat)]

\* Types of the entries and the iterator.
PagesTypeOK ==
  /\ service \in [items : SUBSET (1..MaxItem), always : SUBSET (1..MaxItem)]
  /\ reader \in ListReader
  /\ faults \in Nat

\* Where the next page starts.
NextPlace(marker) ==
  IF marker = Pages!EmptyMarker THEN MaxItem + 1
  ELSE IF marker = Pages!NoMarker THEN 1 ELSE marker

\* The places of the buffer that Next has not returned.
Unread(r) == (r.mReadIndex + 1)..Len(r.mBuffer)

\* What was returned and what is buffered are the entries before the next page,
\* those that were there all the time among them.
Lists(r, always) ==
  /\ r.mReadIndex <= Len(r.mBuffer)
  /\ Ascends(r.got)
  /\ \A j, k \in Unread(r) : j < k => r.mBuffer[j] < r.mBuffer[k]
  /\ \A i \in 1..Len(r.got) : \A j \in Unread(r) : r.got[i] < r.mBuffer[j]
  /\ \A i \in 1..Len(r.got) : r.got[i] < NextPlace(r.mMarker)
  /\ \A j \in Unread(r) : r.mBuffer[j] < NextPlace(r.mMarker)
  /\ \A x \in always : x < NextPlace(r.mMarker) =>
       \/ \E i \in 1..Len(r.got) : r.got[i] = x
       \/ \E j \in Unread(r) : r.mBuffer[j] = x

\* The invariant of a list that is read page by page.
PagesInv ==
  /\ PagesTypeOK
  /\ service.always \subseteq service.items
  /\ Lists(reader, service.always)
  /\ reader.pc = "reading" => reader.mBuffer = <<>> /\ reader.mReadIndex = 0
  /\ reader.pc = "end" => reader.mMarker = Pages!EmptyMarker /\ reader.mReadIndex = Len(reader.mBuffer)

\* Nothing is listed at first.
LEMMA PagesInit ==
  ASSUME SessionsAssumption, Pages!Init
  PROVE  PagesInv
<1>1. MaxItem \in Nat
  BY DEF SessionsAssumption, Pages!ListingAssumption
<1>2. PICK items \in SUBSET (1..MaxItem) : service = [items |-> items, always |-> items]
  BY DEF Pages!Init
<1> DEFINE none == <<>>
<1>3. /\ reader = [pc |-> "none", mBuffer |-> none, mReadIndex |-> 0, mMarker |-> 0, got |-> none]
      /\ none \in Seq(Nat) /\ Len(none) = 0 /\ 0 \in -1..(MaxItem + 1) /\ faults = 0
  BY <1>1 DEF Pages!Init, Pages!NoMarker
<1> HIDE DEF none
<1>4. PagesTypeOK
  BY <1>2, <1>3 DEF PagesTypeOK, ListReader
<1>5. /\ reader.got = none /\ reader.mBuffer = none /\ reader.mReadIndex = 0 /\ reader.mMarker = 0
      /\ DOMAIN none = {} /\ 1..0 = {} /\ NextPlace(0) = 1
  BY <1>3 DEF NextPlace, Pages!NoMarker, Pages!EmptyMarker, none
<1>6. Lists(reader, service.always)
  <2>1. Unread(reader) = {} /\ 1..Len(reader.got) = {} /\ DOMAIN reader.got = {}
    BY <1>3, <1>5 DEF Unread
  <2>2. \A x \in service.always : ~ (x < 1)
    BY <1>2
  <2>3. reader.mReadIndex <= Len(reader.mBuffer)
    BY <1>3, <1>5
  <2> QED
    BY <2>1, <2>2, <2>3, <1>5 DEF Lists, Ascends
<1> QED
  BY <1>2, <1>3, <1>4, <1>6 DEF PagesInv

\* Returning what is buffered next.
LEMMA ReturnsNext ==
  ASSUME MaxItem \in Nat, NEW r \in ListReader, NEW always \in SUBSET Nat, Lists(r, always),
         r.mReadIndex < Len(r.mBuffer)
  PROVE  LET t == Pages!Returns(r)
         IN  t \in ListReader /\ t.pc = "item" /\ Lists(t, always)
<1> DEFINE t == Pages!Returns(r)
           k == r.mReadIndex + 1
           x == r.mBuffer[k]
           got == Append(r.got, x)
           n == Len(r.got)
           m == Len(r.mBuffer)
<1>1. /\ r.mBuffer \in Seq(Nat) /\ r.got \in Seq(Nat) /\ r.mReadIndex \in Nat
  BY DEF ListReader
<1>2. /\ n \in Nat /\ m \in Nat /\ k \in 1..m /\ k \in Nat
  BY <1>1, LenProperties
<1>3. x \in Nat
  BY <1>1, <1>2, ElementOfSeq
<1> HIDE DEF x
<1>4. /\ got \in Seq(Nat) /\ Len(got) = n + 1 /\ got[n + 1] = x
      /\ \A i \in 1..n : got[i] = r.got[i]
  BY <1>1, <1>3, AppendProperties
<1>5. t = [r EXCEPT !.pc = "item", !.mReadIndex = k, !.got = got]
  BY DEF Pages!Returns, x
<1> HIDE DEF k, got, t
<1>6. /\ t \in ListReader
      /\ t.pc = "item" /\ t.mReadIndex = k /\ t.got = got /\ t.mBuffer = r.mBuffer
      /\ t.mMarker = r.mMarker
  BY <1>2, <1>4, <1>5 DEF ListReader
<1>7. /\ \A j \in (k + 1)..m : j \in Unread(r) /\ x < r.mBuffer[j]
      /\ k \in Unread(r) /\ Unread(t) = (k + 1)..m
      /\ \A j \in Unread(r) : j = k \/ j \in (k + 1)..m
  <2>1. Unread(r) = k..m /\ Unread(t) = (k + 1)..m
    BY <1>6 DEF Unread, k
  <2>2. k \in Unread(r) /\ \A j \in (k + 1)..m : j \in Unread(r) /\ k < j
    BY <1>2, <2>1
  <2>3. \A j \in k..m : j = k \/ j \in (k + 1)..m
    BY <1>2
  <2>4. \A j \in (k + 1)..m : x < r.mBuffer[j]
    BY <2>2 DEF Lists, x
  <2> QED
    BY <2>1, <2>2, <2>3, <2>4
<1>8. /\ \A i \in 1..n : got[i] < x
      /\ x < NextPlace(r.mMarker)
      /\ \A i \in 1..n : got[i] < NextPlace(r.mMarker)
  BY <1>4, <1>7 DEF Lists, x
<1>9. \A i \in 1..(n + 1) : i \in 1..n \/ i = n + 1
  BY <1>2
<1>10. Ascends(got)
  <2>1. DOMAIN got = 1..(n + 1) /\ DOMAIN r.got = 1..n
    BY <1>1, <1>4, LenProperties
  <2>2. ASSUME NEW i \in 1..(n + 1), NEW j \in 1..(n + 1), i < j
        PROVE  got[i] < got[j]
    <3>1. i \in 1..n
      BY <1>2, <2>2
    <3>2. CASE j \in 1..n
      BY <3>1, <3>2, <2>1, <2>2, <1>4 DEF Lists, Ascends
    <3>3. CASE j = n + 1
      BY <3>1, <3>3, <1>4, <1>8
    <3> QED
      BY <3>2, <3>3, <1>9
  <2> QED
    BY <2>1, <2>2 DEF Ascends
<1>11. /\ \A i, j \in Unread(t) : i < j => t.mBuffer[i] < t.mBuffer[j]
       /\ \A j \in Unread(t) : t.mBuffer[j] < NextPlace(t.mMarker)
  BY <1>6, <1>7 DEF Lists
<1>12. \A i \in 1..(n + 1) : \A j \in Unread(t) : got[i] < t.mBuffer[j]
  BY <1>4, <1>6, <1>7, <1>9 DEF Lists
<1>13. \A i \in 1..(n + 1) : got[i] < NextPlace(t.mMarker)
  BY <1>4, <1>6, <1>8, <1>9
<1>14. ASSUME NEW y \in always, y < NextPlace(t.mMarker)
       PROVE  (\E i \in 1..(n + 1) : got[i] = y) \/ (\E j \in Unread(t) : t.mBuffer[j] = y)
  <2>1. CASE \E i \in 1..n : r.got[i] = y
    <3>1. PICK i \in 1..n : r.got[i] = y
      BY <2>1
    <3>2. i \in 1..(n + 1) /\ got[i] = y
      BY <3>1, <1>2, <1>4
    <3> QED
      BY <3>2
  <2>2. CASE \E j \in Unread(r) : r.mBuffer[j] = y
    <3>1. PICK j \in Unread(r) : r.mBuffer[j] = y
      BY <2>2
    <3>2. CASE j = k
      <4>1. got[n + 1] = y /\ n + 1 \in 1..(n + 1)
        BY <3>1, <3>2, <1>2, <1>4 DEF x
      <4> QED
        BY <4>1
    <3>3. CASE j \in (k + 1)..m
      BY <3>1, <3>3, <1>6, <1>7
    <3> QED
      BY <3>2, <3>3, <1>7
  <2> QED
    BY <2>1, <2>2, <1>6, <1>14 DEF Lists
<1>15. k <= m
  BY <1>2
<1>16. Lists(t, always)
  BY <1>4, <1>6, <1>10, <1>11, <1>12, <1>13, <1>14, <1>15 DEF Lists
<1> QED
  BY <1>6, <1>16 DEF t

\* What the service answers with: its entries from a place up to another one.
LEMMA PageOf ==
  ASSUME PagesInv, SessionsAssumption, NEW first \in Nat, NEW last \in Nat
  PROVE  LET page == Pages!Page(first, last)
         IN  /\ page \in Seq(Nat) /\ Ascends(page)
             /\ \A i \in 1..Len(page) : page[i] \in service.items \cap (first..last)
             /\ \A x \in service.items \cap (first..last) : \E i \in 1..Len(page) : page[i] = x
<1> DEFINE entries == service.items \cap (first..last)
           page == Pages!Page(first, last)
<1>1. MaxItem \in Nat /\ entries \in SUBSET (1..MaxItem)
  BY DEF SessionsAssumption, Pages!ListingAssumption, PagesInv, PagesTypeOK
<1>2. page = CHOOSE p \in [1..Cardinality(entries) -> entries] :
               \A i, j \in DOMAIN p : i < j => p[i] < p[j]
  BY PagesCardinality DEF Pages!Page
<1> HIDE DEF entries, page
<1>3. \E p \in [1..Cardinality(entries) -> entries] :
        \A i, j \in DOMAIN p : i < j => p[i] < p[j]
  BY <1>1, Ascending DEF Ascends
<1>4. /\ page \in [1..Cardinality(entries) -> entries]
      /\ \A i, j \in DOMAIN page : i < j => page[i] < page[j]
  BY <1>2, <1>3
<1>5. Ascends(page)
  BY <1>4 DEF Ascends
<1>6. /\ page \in Seq(Nat)
      /\ \A i \in 1..Len(page) : page[i] \in entries
      /\ \A x \in entries : \E i \in 1..Len(page) : page[i] = x
  BY <1>1, <1>4, <1>5, AscendingAll, ZenonT(40)
<1> QED
  BY <1>5, <1>6 DEF page, entries

\* A page that starts at the next place is listed behind what was.
LEMMA RefilledLists ==
  ASSUME PagesInv, SessionsAssumption, reader.pc = "reading",
         NEW page \in Seq(Nat), NEW marker \in -1..(MaxItem + 1), Ascends(page),
         NextPlace(reader.mMarker) <= NextPlace(marker),
         \A i \in 1..Len(page) : NextPlace(reader.mMarker) <= page[i] /\ page[i] < NextPlace(marker),
         \A x \in service.items : NextPlace(reader.mMarker) <= x /\ x < NextPlace(marker) =>
           \E i \in 1..Len(page) : page[i] = x
  PROVE  LET t == Pages!Refilled(page, marker)
         IN  /\ t \in ListReader /\ Lists(t, service.always)
             /\ t.pc \in {"reading", "item"}
             /\ t.pc = "reading" => t.mBuffer = <<>> /\ t.mReadIndex = 0
<1> DEFINE p == NextPlace(reader.mMarker)
           q == NextPlace(marker)
           always == service.always
           n == Len(reader.got)
           m == Len(page)
<1>1. /\ MaxItem \in Nat /\ reader \in ListReader /\ always \in SUBSET Nat
      /\ always \subseteq service.items
      /\ reader.mBuffer = <<>> /\ reader.mReadIndex = 0
      /\ Lists(reader, always)
  BY DEF SessionsAssumption, Pages!ListingAssumption, PagesInv, PagesTypeOK
<1>2. /\ reader.got \in Seq(Nat) /\ reader.mMarker \in -1..(MaxItem + 1)
  BY <1>1 DEF ListReader
<1>3. p \in Nat /\ q \in Nat /\ n \in Nat /\ m \in Nat
  BY <1>1, <1>2, LenProperties DEF NextPlace, Pages!EmptyMarker, Pages!NoMarker
<1>4. Unread(reader) = {}
  BY <1>1 DEF Unread
<1>5. /\ Ascends(reader.got)
      /\ \A i \in 1..n : reader.got[i] < p
      /\ \A x \in always : x < p => \E i \in 1..n : reader.got[i] = x
  BY <1>1, <1>4 DEF Lists
<1>6. \A i \in 1..n : reader.got[i] \in Nat
  BY <1>2, ElementOfSeq
<1>7. \A i \in 1..m : page[i] \in Nat
  BY ElementOfSeq
<1> DEFINE none == <<>>
           s == [reader EXCEPT !.mMarker = marker]
           r == [s EXCEPT !.mBuffer = page]
<1> HIDE DEF p, q
<1>8. CASE page = <<>>
  <2>1. Pages!Refilled(page, marker) = s
    BY <1>8 DEF Pages!Refilled
  <2>2. /\ s \in ListReader /\ s.got = reader.got /\ s.mBuffer = reader.mBuffer
        /\ s.mReadIndex = reader.mReadIndex /\ s.mMarker = marker /\ s.pc = "reading"
    BY <1>1 DEF ListReader
  <2> HIDE DEF s
  <2>3. Unread(s) = {}
    BY <2>2, <1>4 DEF Unread
  <2>4. m = 0 /\ p <= q
    BY <1>8, EmptySeq DEF p, q
  <2>5. \A x \in always : x < q => x < p
    BY <2>4, <1>1, <1>3 DEF p, q
  <2>6. \A x \in always : x < q => \E i \in 1..n : reader.got[i] = x
    BY <2>5, <1>5
  <2>7. \A i \in 1..n : reader.got[i] < q
    BY <2>4, <1>3, <1>5, <1>6
  <2>8. reader.mReadIndex <= Len(reader.mBuffer)
    BY <1>1 DEF Lists
  <2>9. Lists(s, always)
    BY <2>2, <2>3, <2>6, <2>7, <2>8, <1>5 DEF Lists, q
  <2> QED
    BY <2>1, <2>2, <2>9, <1>1
<1>9. CASE page # <<>>
  <2>1. Pages!Refilled(page, marker) = Pages!Returns(r)
    BY <1>9, <1>1 DEF Pages!Refilled, ListReader
  <2>2. /\ s \in ListReader /\ s.got = reader.got
        /\ s.mReadIndex = reader.mReadIndex /\ s.mMarker = marker
    BY <1>1 DEF ListReader
  <2> HIDE DEF s
  <2>3. /\ r \in ListReader /\ r.got = reader.got /\ r.mBuffer = page
        /\ r.mReadIndex = 0 /\ r.mMarker = marker
    BY <2>2, <1>1 DEF ListReader
  <2> HIDE DEF r
  <2>4. Unread(r) = 1..m
    BY <2>3 DEF Unread
  <2>5. m > 0
    BY <1>9, <1>3, EmptySeq
  <2>6. \A i \in 1..n : reader.got[i] < q
    BY <1>3, <1>5, <1>6 DEF p, q
  <2>7. \A i \in 1..n : \A j \in 1..m : reader.got[i] < page[j]
    <3>1. \A j \in 1..m : p <= page[j]
      BY DEF p
    <3> QED
      BY <3>1, <1>3, <1>5, <1>6, <1>7
  <2>8. \A j \in 1..m : page[j] < q
    BY DEF q
  <2>9. \A j, k \in 1..m : j < k => page[j] < page[k]
    <3>1. DOMAIN page = 1..m
      BY LenProperties
    <3> QED
      BY <3>1 DEF Ascends
  <2>10. ASSUME NEW x \in always, x < q
         PROVE  (\E i \in 1..n : reader.got[i] = x) \/ (\E j \in 1..m : page[j] = x)
    <3>1. x \in Nat /\ x \in service.items
      BY <1>1
    <3>2. CASE x < p
      BY <3>2, <1>5
    <3>3. CASE ~ (x < p)
      <4>1. p <= x
        BY <3>1, <3>3, <1>3
      <4> QED
        BY <4>1, <3>1, <2>10 DEF p, q
    <3> QED
      BY <3>2, <3>3
  <2>11. Lists(r, always)
    <3>1. r.mReadIndex <= Len(r.mBuffer)
      BY <2>3, <1>3
    <3>2. NextPlace(r.mMarker) = q
      BY <2>3 DEF q
    <3> QED
      BY <3>1, <3>2, <2>3, <2>4, <2>6, <2>7, <2>8, <2>9, <2>10, <1>5 DEF Lists
  <2>12. r.mReadIndex < Len(r.mBuffer)
    BY <2>3, <2>5, <1>3
  <2> QED
    BY <2>1, <2>3, <2>11, <2>12, <1>1, ReturnsNext
<1> QED
  BY <1>8, <1>9

\* A page starts where the one before it ended.
LEMMA RefillInv ==
  ASSUME PagesInv, SessionsAssumption, Pages!Refill
  PROVE  PagesInv'
<1> DEFINE p == NextPlace(reader.mMarker)
<1>1. /\ MaxItem \in Nat /\ MaxFaults \in Nat
      /\ reader \in ListReader /\ faults \in Nat
      /\ service.items \in SUBSET (1..MaxItem)
      /\ reader.pc = "reading" /\ reader.mBuffer = <<>> /\ reader.mReadIndex = 0
      /\ Lists(reader, service.always) /\ service' = service
  BY DEF SessionsAssumption, Pages!ListingAssumption, PagesInv, PagesTypeOK, Pages!Refill, Pages!Reading
<1>2. reader.mMarker \in -1..(MaxItem + 1)
  BY <1>1 DEF ListReader
<1>3. faults' \in Nat
  BY <1>1 DEF Pages!Refill, Pages!Faulty
<1>4. \A e \in {"end", "threw"} :
        reader' = [reader EXCEPT !.pc = e] /\ (e = "end" => reader.mMarker = Pages!EmptyMarker)
          => PagesInv'
  <2> SUFFICES ASSUME NEW e \in {"end", "threw"}, reader' = [reader EXCEPT !.pc = e],
                      e = "end" => reader.mMarker = Pages!EmptyMarker
               PROVE  PagesInv'
    OBVIOUS
  <2>1. /\ reader' \in ListReader /\ reader'.pc = e
        /\ reader'.mBuffer = reader.mBuffer /\ reader'.mReadIndex = reader.mReadIndex
        /\ reader'.mMarker = reader.mMarker /\ reader'.got = reader.got
    BY <1>1 DEF ListReader
  <2>2. Lists(reader, service.always)'
    BY <2>1, <1>1 DEF Lists, Unread, Ascends, NextPlace, Pages!EmptyMarker, Pages!NoMarker
  <2>3. Len(reader.mBuffer) = 0
    BY <1>1, EmptySeq
  <2> QED
    BY <2>1, <2>2, <2>3, <1>1, <1>3 DEF PagesInv, PagesTypeOK, Pages!EmptyMarker
<1>5. \A page \in Seq(Nat), marker \in -1..(MaxItem + 1) :
        /\ reader' = Pages!Refilled(page, marker)
        /\ Ascends(page)
        /\ p <= NextPlace(marker)
        /\ \A i \in 1..Len(page) : p <= page[i] /\ page[i] < NextPlace(marker)
        /\ \A x \in service.items : p <= x /\ x < NextPlace(marker) =>
             \E i \in 1..Len(page) : page[i] = x
        => PagesInv'
  <2> SUFFICES ASSUME NEW page \in Seq(Nat), NEW marker \in -1..(MaxItem + 1),
                      reader' = Pages!Refilled(page, marker),
                      Ascends(page),
                      p <= NextPlace(marker),
                      \A i \in 1..Len(page) : p <= page[i] /\ page[i] < NextPlace(marker),
                      \A x \in service.items : p <= x /\ x < NextPlace(marker) =>
                        \E i \in 1..Len(page) : page[i] = x
               PROVE  PagesInv'
    OBVIOUS
  <2> DEFINE t == Pages!Refilled(page, marker)
  <2>1. /\ t \in ListReader /\ Lists(t, service.always)
        /\ t.pc \in {"reading", "item"}
        /\ t.pc = "reading" => t.mBuffer = <<>> /\ t.mReadIndex = 0
    BY <1>1, RefilledLists
  <2> HIDE DEF t
  <2>2. reader' = t
    BY DEF t
  <2>3. Lists(reader, service.always)'
    BY <2>1, <2>2, <1>1 DEF Lists, Unread, Ascends, NextPlace, Pages!EmptyMarker, Pages!NoMarker
  <2> QED
    BY <2>1, <2>2, <2>3, <1>1, <1>3 DEF PagesInv, PagesTypeOK, Pages!EmptyMarker
<1>6. CASE reader.mMarker = Pages!EmptyMarker
  BY <1>4, <1>6 DEF Pages!Refill
<1>7. CASE reader.mMarker # Pages!EmptyMarker
  <2>1. p = (IF reader.mMarker = Pages!NoMarker THEN 1 ELSE reader.mMarker)
    BY <1>7 DEF NextPlace
  <2>2. p \in Nat /\ p >= 1 /\ p <= MaxItem + 1
    BY <1>1, <1>2, <1>7 DEF NextPlace, Pages!EmptyMarker, Pages!NoMarker
  <2> HIDE DEF p
  <2>3. \/ reader' = [reader EXCEPT !.pc = "threw"]
        \/ \E last \in p..MaxItem :
             \E marker \in {last + 1} \cup (IF last = MaxItem THEN {Pages!EmptyMarker} ELSE {}) :
               reader' = Pages!Refilled(Pages!Page(p, last), marker)
        \/ p > MaxItem /\ reader' = Pages!Refilled(<<>>, Pages!EmptyMarker)
    BY <2>1, <1>7 DEF Pages!Refill
  <2>4. CASE reader' = [reader EXCEPT !.pc = "threw"]
    BY <2>4, <1>4
  <2>5. CASE \E last \in p..MaxItem :
               \E marker \in {last + 1} \cup (IF last = MaxItem THEN {Pages!EmptyMarker} ELSE {}) :
                 reader' = Pages!Refilled(Pages!Page(p, last), marker)
    <3>10. PICK last \in p..MaxItem :
             \E marker \in {last + 1} \cup (IF last = MaxItem THEN {Pages!EmptyMarker} ELSE {}) :
               reader' = Pages!Refilled(Pages!Page(p, last), marker)
      BY <2>5
    <3>1. PICK marker \in {last + 1} \cup (IF last = MaxItem THEN {Pages!EmptyMarker} ELSE {}) :
            reader' = Pages!Refilled(Pages!Page(p, last), marker)
      BY <3>10
    <3>2. last \in Nat /\ p <= last /\ last <= MaxItem
      BY <2>2, <1>1
    <3>3. marker \in -1..(MaxItem + 1) /\ NextPlace(marker) = last + 1
      BY <3>2, <2>2, <1>1 DEF NextPlace, Pages!EmptyMarker, Pages!NoMarker
    <3> DEFINE page == Pages!Page(p, last)
    <3>4. /\ page \in Seq(Nat) /\ Ascends(page)
          /\ \A i \in 1..Len(page) : page[i] \in service.items \cap (p..last)
          /\ \A x \in service.items \cap (p..last) : \E i \in 1..Len(page) : page[i] = x
      BY <3>2, <2>2, PageOf
    <3> HIDE DEF page
    <3>5. \A i \in 1..Len(page) : p <= page[i] /\ page[i] < last + 1
      BY <3>2, <3>4, <2>2
    <3>6. \A x \in service.items : p <= x /\ x < last + 1 => x \in p..last
      BY <3>2, <2>2, <1>1
    <3>7. \A x \in service.items : p <= x /\ x < last + 1 => \E i \in 1..Len(page) : page[i] = x
      BY <3>4, <3>6
    <3>8. p <= last + 1
      BY <3>2, <2>2
    <3>9. reader' = Pages!Refilled(page, marker)
      BY <3>1 DEF page
    <3> QED
      BY <3>3, <3>4, <3>5, <3>7, <3>8, <3>9, <1>5 DEF p
  <2>6. CASE p > MaxItem /\ reader' = Pages!Refilled(<<>>, Pages!EmptyMarker)
    <3> DEFINE none == <<>>
    <3>1. none \in Seq(Nat) /\ Len(none) = 0 /\ DOMAIN none = {}
      OBVIOUS
    <3> HIDE DEF none
    <3>2. Pages!EmptyMarker \in -1..(MaxItem + 1) /\ NextPlace(Pages!EmptyMarker) = MaxItem + 1
      BY <1>1 DEF NextPlace, Pages!EmptyMarker
    <3>3. Ascends(none) /\ 1..Len(none) = {} /\ p <= MaxItem + 1
      BY <3>1, <2>2 DEF Ascends
    <3>4. \A x \in service.items : ~ (p <= x)
      BY <2>2, <2>6, <1>1
    <3>5. reader' = Pages!Refilled(none, Pages!EmptyMarker)
      BY <2>6 DEF none
    <3> QED
      BY <3>1, <3>2, <3>3, <3>4, <3>5, <1>5 DEF p
  <2> QED
    BY <2>3, <2>4, <2>5, <2>6
<1> QED
  BY <1>6, <1>7

\* Next returns what is buffered before it asks for a page.
LEMMA CallNextInv ==
  ASSUME PagesInv, SessionsAssumption, Pages!CallNext
  PROVE  PagesInv'
<1>1. /\ MaxItem \in Nat /\ reader \in ListReader
      /\ service.always \in SUBSET Nat
      /\ Lists(reader, service.always) /\ service' = service /\ faults' = faults
  BY DEF SessionsAssumption, Pages!ListingAssumption, PagesInv, PagesTypeOK, Pages!CallNext
<1>2. CASE reader.mReadIndex < Len(reader.mBuffer)
  <2> DEFINE t == Pages!Returns(reader)
  <2>1. t \in ListReader /\ t.pc = "item" /\ Lists(t, service.always)
    BY <1>1, <1>2, ReturnsNext
  <2>2. reader' = t
    BY <1>2 DEF Pages!CallNext
  <2> HIDE DEF t
  <2>3. Lists(reader, service.always)'
    BY <2>1, <2>2, <1>1 DEF Lists, Unread, Ascends, NextPlace, Pages!EmptyMarker, Pages!NoMarker
  <2> QED
    BY <2>1, <2>2, <2>3, <1>1 DEF PagesInv, PagesTypeOK
<1>3. CASE ~ (reader.mReadIndex < Len(reader.mBuffer))
  <2> DEFINE none == <<>>
  <2>1. none \in Seq(Nat) /\ Len(none) = 0
    OBVIOUS
  <2>2. reader' = [reader EXCEPT !.pc = "reading", !.mBuffer = none, !.mReadIndex = 0]
    BY <1>3 DEF Pages!CallNext
  <2>3. none = <<>>
    OBVIOUS
  <2> HIDE DEF none
  <2>4. /\ reader' \in ListReader /\ reader'.pc = "reading" /\ reader'.mBuffer = none
        /\ reader'.mReadIndex = 0 /\ reader'.mMarker = reader.mMarker /\ reader'.got = reader.got
    BY <2>1, <2>2, <1>1 DEF ListReader
  <2>5. Unread(reader) = {} /\ Unread(reader)' = {}
    <3>1. reader.mReadIndex \in Nat /\ Len(reader.mBuffer) \in Nat
      BY <1>1, LenProperties DEF ListReader
    <3> QED
      BY <3>1, <2>1, <2>4, <1>3 DEF Unread
  <2>6. Lists(reader, service.always)'
    BY <2>1, <2>4, <2>5, <1>1 DEF Lists, Ascends, NextPlace, Pages!EmptyMarker, Pages!NoMarker
  <2> QED
    BY <2>3, <2>4, <2>6, <1>1 DEF PagesInv, PagesTypeOK
<1> QED
  BY <1>2, <1>3

\* An entry that comes or goes is not one that was there all the time.
LEMMA ChangesInv ==
  ASSUME PagesInv, SessionsAssumption, NEW i \in 1..MaxItem, Pages!Changes(i)
  PROVE  PagesInv'
<1>1. /\ MaxItem \in Nat /\ MaxFaults \in Nat /\ faults \in Nat
      /\ service.items \in SUBSET (1..MaxItem) /\ service.always \in SUBSET (1..MaxItem)
      /\ service.always \subseteq service.items /\ reader' = reader
  BY DEF SessionsAssumption, Pages!ListingAssumption, PagesInv, PagesTypeOK, Pages!Changes
<1>2. /\ service' = [items |-> IF i \in service.items THEN service.items \ {i}
                               ELSE service.items \cup {i},
                     always |-> service.always \ {i}]
      /\ faults' \in Nat
  BY <1>1 DEF Pages!Changes, Pages!Faulty
<1>3. Lists(reader, service.always)'
  BY <1>1, <1>2 DEF PagesInv, Lists, Unread, Ascends, NextPlace, Pages!EmptyMarker, Pages!NoMarker
<1>4. PagesTypeOK'
  BY <1>1, <1>2 DEF PagesInv, PagesTypeOK
<1>5. (service.always \subseteq service.items)'
  BY <1>1, <1>2
<1> QED
  BY <1>1, <1>3, <1>4, <1>5 DEF PagesInv, Pages!EmptyMarker

\* Every step of the iterator and of the service keeps the invariant.
LEMMA PagesStep ==
  ASSUME PagesInv, SessionsAssumption, [Pages!Next]_(Pages!vars)
  PROVE  PagesInv'
<1>1. CASE Pages!Next
  BY <1>1, RefillInv, CallNextInv, ChangesInv DEF Pages!Next
<1>2. CASE UNCHANGED Pages!vars
  BY <1>2 DEF Pages!vars, PagesInv, PagesTypeOK, Lists, Unread, Ascends, NextPlace,
              Pages!EmptyMarker, Pages!NoMarker
<1> QED
  BY <1>1, <1>2

\* The invariant gives the order of the list and its completeness.
LEMMA PagesMeans ==
  ASSUME PagesInv, SessionsAssumption
  PROVE  Pages!ListsInOrder
<1>1. /\ MaxItem \in Nat /\ reader \in ListReader /\ service.always \in SUBSET (1..MaxItem)
      /\ Lists(reader, service.always)
  BY DEF SessionsAssumption, Pages!ListingAssumption, PagesInv, PagesTypeOK
<1>2. reader.got \in Seq(Nat) /\ reader.mReadIndex \in Nat /\ reader.mBuffer \in Seq(Nat)
  BY <1>1 DEF ListReader
<1>3. \A i, j \in DOMAIN reader.got : i < j => reader.got[i] < reader.got[j]
  BY <1>1 DEF Lists, Ascends
<1>4. ASSUME reader.pc = "end", NEW x \in service.always
      PROVE  x \in Pages!ToSet(reader.got)
  <2>1. reader.mMarker = Pages!EmptyMarker /\ reader.mReadIndex = Len(reader.mBuffer)
    BY <1>4 DEF PagesInv
  <2>2. x < NextPlace(reader.mMarker)
    BY <2>1, <1>1 DEF NextPlace
  <2>3. Unread(reader) = {}
    BY <2>1, <1>2 DEF Unread
  <2>4. PICK i \in 1..Len(reader.got) : reader.got[i] = x
    BY <2>2, <2>3, <1>1 DEF Lists
  <2>5. i \in DOMAIN reader.got
    BY <1>2, LenProperties
  <2> QED
    BY <2>4, <2>5 DEF Pages!ToSet
<1> QED
  BY <1>3, <1>4 DEF Pages!ListsInOrder

-----------------------------------------------------------------------------
(* All of them.                                                             *)

\* Whichever it is, its invariant holds.
SessionsInv ==
  /\ part = "parts" => PartsInv
  /\ part = "file" => FileInv
  /\ part = "table" => TableInv
  /\ part = "wait" => WaitInv
  /\ part = "listing" => PagesInv

\* The invariant holds at first.
LEMMA SessionsInit ==
  ASSUME Init
  PROVE  SessionsInv
<1>0. SessionsAssumption
  BY SessionsAssumption
<1>1. CASE part = "parts" /\ Parts!Init
  BY <1>1, PartsInit DEF SessionsInv
<1>2. CASE part = "file" /\ File!Init
  BY <1>0, <1>2, FileInit DEF SessionsInv
<1>3. CASE part = "table" /\ Table!Init
  BY <1>0, <1>3, TableInit DEF SessionsInv
<1>4. CASE part = "wait" /\ Wait!Init
  BY <1>4, WaitInit DEF SessionsInv
<1>5. CASE part = "listing" /\ Pages!Init
  BY <1>0, <1>5, PagesInit DEF SessionsInv
<1> QED
  BY <1>1, <1>2, <1>3, <1>4, <1>5 DEF Init

\* Every step keeps it: nothing turns into something else.
LEMMA SessionsStep ==
  ASSUME SessionsInv, [Next]_vars
  PROVE  SessionsInv'
<1>0. SessionsAssumption /\ Parts!CommitAssumption
  BY SessionsAssumption DEF SessionsAssumption
<1>1. CASE part = "parts" /\ part' = part /\ [Parts!Next]_(Parts!vars)
  BY <1>0, <1>1, PartsStep DEF SessionsInv
<1>2. CASE part = "file" /\ part' = part /\ [File!Next]_(File!vars)
  BY <1>0, <1>2, FileStep DEF SessionsInv
<1>3. CASE part = "table" /\ part' = part /\ [Table!Next]_(Table!vars)
  BY <1>0, <1>3, TableStep DEF SessionsInv
<1>4. CASE part = "wait" /\ part' = part /\ [Wait!Next]_(Wait!vars)
  BY <1>4, WaitStep DEF SessionsInv
<1>5. CASE part = "listing" /\ part' = part /\ [Pages!Next]_(Pages!vars)
  BY <1>0, <1>5, PagesStep DEF SessionsInv
<1>6. CASE Next
  BY <1>1, <1>2, <1>3, <1>4, <1>5, <1>6
     DEF Next, partsElse, fileElse, tableElse, waitElse, listElse
<1>7. CASE UNCHANGED vars
  <2>1. /\ part' = part /\ UNCHANGED Parts!vars /\ UNCHANGED File!vars /\ UNCHANGED Table!vars
        /\ UNCHANGED Wait!vars /\ UNCHANGED Pages!vars
    BY <1>7 DEF vars, Parts!vars, File!vars, Table!vars, Wait!vars, Pages!vars
  <2>2. CASE part \notin {"parts", "file", "table", "wait", "listing"}
    BY <2>1, <2>2 DEF SessionsInv
  <2> QED
    BY <2>1, <2>2, <1>1, <1>2, <1>3, <1>4, <1>5
<1> QED
  BY <1>6, <1>7

\* The invariant holds of every behaviour of the sessions, files, tables,
\* instances and lists.
THEOREM SessionsSafe ==
  Spec => []SessionsInv
<1>1. Init => SessionsInv
  BY SessionsInit
<1>2. SessionsInv /\ [Next]_vars => SessionsInv'
  BY SessionsStep
<1> QED
  BY <1>1, <1>2, PTL DEF Spec

\* What a call reports by returning is so: a Commit has closed the session with
\* the listed parts in it, an instance that WaitForSuccess returns from is at its
\* end with every task successful, a table's session that was built is prepared.
THEOREM ReturnsMeanIt ==
  Spec => []ReturnsAreTrue
<1>1. SessionsInv => ReturnsAreTrue
  BY PartsMean, WaitMeans, TableMeans, SessionsAssumption DEF SessionsInv, ReturnsAreTrue
<1> QED
  BY <1>1, SessionsSafe, PTL

\* A refusal has its reason: parts that the service does not have or that came
\* after the query, a task that did not succeed or whose status was kept early,
\* a session that failed, an answer whose connection was lost.
THEOREM RefusalsHaveReasons ==
  Spec => []RefusesForReason
<1>1. SessionsInv => RefusesForReason
  BY PartsMean, WaitMeans, TableMeans, SessionsAssumption DEF SessionsInv, RefusesForReason
<1> QED
  BY <1>1, SessionsSafe, PTL

\* A published file has every byte that was written, in order, and no other one
\* unless a Write threw.
THEOREM FilesAreWhole ==
  Spec => []FileHoldsWritten
<1>1. SessionsInv => FileHoldsWritten
  BY FileMeans, SessionsAssumption DEF SessionsInv, FileHoldsWritten
<1> QED
  BY <1>1, SessionsSafe, PTL

\* Bytes of a file, rows of a split and entries of a list are read in order, each
\* once, and to the end.
THEOREM ReadsAreInOrder ==
  Spec => []ReadsInOrder
<1>1. SessionsInv => ReadsInOrder
  BY FileMeans, TableMeans, PagesMeans, SessionsAssumption DEF SessionsInv, ReadsInOrder
<1> QED
  BY <1>1, SessionsSafe, PTL
=============================================================================
