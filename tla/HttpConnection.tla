--------------------------- MODULE HttpConnection ---------------------------
(***************************************************************************)
(* An HttpConnection (http_connection.cpp) with the Response that reads     *)
(* through it (http_message.cpp) and SuccessWithRetry (tunnel/util.cpp).    *)
(* One application thread calls it; each call drives curl until what it     *)
(* waits for has happened, and curl calls back: for data to send, with the  *)
(* lines of the header, with the body, for progress and about its socket.   *)
(* curl and the service decide what comes when; a callback is one action,   *)
(* and so is every test that a loop of the connection makes between them.   *)
(*                                                                         *)
(* Bytes are numbered from 1 in each direction.                             *)
(***************************************************************************)
EXTENDS ChannelStream, Integers, SequencesExt

CONSTANTS
  BufferSize,     \* httpBufferSize; the receiving buffer has CURL_MAX_WRITE_SIZE
  MaxWriteSize,   \* CURL_MAX_WRITE_SIZE
  DrainSize,      \* the 64 bytes of ReadBody(content)
  SocketTimeout,  \* mSocketTimeout
  MaxRetry,       \* maxRetry of SuccessWithRetry
  MaxBody,        \* bytes in each direction (a bound)
  Codes           \* status codes of answers

ASSUME HttpAssumption ==
  /\ {BufferSize, MaxWriteSize, DrainSize} \subseteq Nat \ {0}
  /\ {SocketTimeout, MaxRetry, MaxBody} \subseteq Nat
  /\ Codes \subseteq Nat \ {0}

VARIABLES
  hc,     \* mPollFd.fd # -1, mStillRunning, mUpstreamEOF, mCurlPaused
  silent, \* the time since mLastUpdateTime, up to SocketTimeout + 1
  up,     \* mUpstream
  down,   \* mDownstream
  resp,   \* statusCode and contentLength of mResponse
  curl,   \* the transfer: whether it uploads and is paused, whether the upload
          \* is over, what was taken of it, the body, how much of it was given
  pc,     \* the loop that the thread is in, or "ready" or "closed"
  call,   \* its locals: bytes to write or read, bytes drained, retries
  put,    \* bytes given to Write
  got,    \* the body as Read has returned it
  result  \* how the last call ended

streamVars == <<up, down>>
callVars == <<pc, call, put, got, result>>
vars == <<hc, silent, streamVars, resp, curl, callVars>>

NoCall == [size |-> 0, drained |-> 0, retries |-> 0]

Over(h) == ~ h.fd \/ ~ h.running

Ends(how) ==
  /\ pc' = "ready"
  /\ call' = NoCall
  /\ result' = how

-----------------------------------------------------------------------------
(* Callbacks.                                                               *)

Driven ==
  /\ pc \in {"opening", "writing", "draining", "reading", "waiting"}
  /\ hc.running

\* socket_callback: the socket is there.
SocketAdded ==
  /\ Driven
  /\ ~ hc.fd
  /\ hc' = [hc EXCEPT !.fd = TRUE]
  /\ UNCHANGED <<silent, streamVars, resp, curl, callVars>>

StatusLine ==
  /\ Driven
  /\ hc.fd
  /\ resp.status = 0
  /\ \E code \in Codes : resp' = [resp EXCEPT !.status = code]
  /\ UNCHANGED <<hc, silent, streamVars, curl, callVars>>

\* A chunked answer has no such header.
ContentLength ==
  /\ Driven
  /\ hc.fd
  /\ resp.status # 0 /\ resp.length = -1 /\ curl.given = 0
  /\ resp' = [resp EXCEPT !.length = curl.body]
  /\ UNCHANGED <<hc, silent, streamVars, curl, callVars>>

MadeRoomShort(s, n) ==
  LET rembuff == s.len - Len(s.held) + s.pos
  IN  IF n <= s.len - Len(s.held) THEN s
      ELSE IF n <= rembuff THEN ReuseBuffer(s)
      ELSE ReallocBuffer(s, s.len + n - rembuff - 1)

\* The receiving buffer moves down what is unread, or grows.
MadeRoom(s, n) ==
  LET rembuff == s.len - Len(s.held) + s.pos
  IN  IF n <= s.len - Len(s.held) THEN s
      ELSE IF n <= rembuff THEN ReuseBuffer(s)
      ELSE ReallocBuffer(s, s.len + n - rembuff)

WriteCallback ==
  /\ Driven
  /\ hc.fd
  /\ resp.status # 0
  /\ \E n \in 1..MaxWriteSize :
       /\ curl.given + n <= curl.body
       /\ down' = PutBuffer(MadeRoom(down, n), [i \in 1..n |-> curl.given + i])
       /\ curl' = [curl EXCEPT !.given = @ + n]
  /\ silent' = 0
  /\ UNCHANGED <<hc, up, resp, callVars>>

\* curl asks for data only while it uploads and is not paused.
ReadCallback ==
  /\ Driven
  /\ curl.uploads /\ ~ curl.paused /\ ~ curl.uploaded
  /\ IF hc.fd /\ Unread(up) # <<>>
     THEN /\ \E n \in 1..Len(Unread(up)) :
               /\ up' = GetBuffer(up, n)
               /\ curl' = [curl EXCEPT !.taken = @ \o SubSeq(Unread(up), 1, n)]
          /\ silent' = 0
          /\ UNCHANGED hc
     ELSE /\ IF hc.fd /\ hc.eof
             THEN curl' = [curl EXCEPT !.uploaded = TRUE] /\ UNCHANGED hc
             ELSE curl' = [curl EXCEPT !.paused = TRUE] /\ hc' = [hc EXCEPT !.paused = TRUE]
          /\ UNCHANGED <<silent, up>>
  /\ UNCHANGED <<down, resp, callVars>>

ProgressUntimed ==
  /\ Driven
  /\ hc.paused
  /\ hc' = [hc EXCEPT !.paused = FALSE]
  /\ curl' = [curl EXCEPT !.paused = FALSE]
  /\ UNCHANGED <<silent, streamVars, resp, callVars>>

\* progress_callback aborts the transfer after too long a silence, and ends a
\* pause otherwise.
Progress ==
  /\ Driven
  /\ IF silent > SocketTimeout
     THEN /\ hc' = [hc EXCEPT !.running = FALSE, !.fd = FALSE]
          /\ UNCHANGED curl
     ELSE /\ hc.paused
          /\ hc' = [hc EXCEPT !.paused = FALSE]
          /\ curl' = [curl EXCEPT !.paused = FALSE]
  /\ UNCHANGED <<silent, streamVars, resp, callVars>>

\* The whole answer has come, or the connection is lost.
TransferEnds ==
  /\ Driven
  /\ hc' = [hc EXCEPT !.running = FALSE, !.fd = FALSE]
  /\ UNCHANGED <<silent, streamVars, resp, curl, callVars>>

-----------------------------------------------------------------------------
(* Open, Close and the answer.                                              *)

\* No transfer; the next may be an upload.
Idle ==
  [uploads : BOOLEAN, paused : {FALSE}, uploaded : {FALSE}, taken : {<<>>},
   body : {0}, given : {0}]

\* A new transfer of the same request; mLastUpdateTime stays what it was.
Transfers ==
  [uploads : {curl.uploads}, paused : {FALSE}, uploaded : {FALSE}, taken : {<<>>},
   body : 0..MaxBody, given : {0}]

Opening ==
  /\ pc' = "opening"
  /\ resp' = [status |-> 0, length |-> -1]
  /\ curl' \in Transfers

\* Close empties the buffers and opens the way for another upload.
Closed ==
  /\ up' = ClearBuffer(up)
  /\ down' = ClearBuffer(down)
  /\ put' = 0
  /\ got' = <<>>

Open ==
  /\ pc = "closed"
  /\ Opening
  /\ hc' = [hc EXCEPT !.running = TRUE]
  /\ call' = NoCall
  /\ result' = "none"
  /\ UNCHANGED <<silent, streamVars, put, got>>

\* The loop of Open is left with the socket there; in SuccessWithRetry
\* isSuccessful follows.
OpenReturns ==
  /\ pc = "opening"
  /\ hc.fd /\ hc.running
  /\ IF call.retries = 0
     THEN Ends("opened") /\ UNCHANGED hc
     ELSE /\ pc' = "waiting"
          /\ hc' = [hc EXCEPT !.eof = TRUE]
          /\ UNCHANGED <<call, result>>
  /\ UNCHANGED <<silent, streamVars, resp, curl, put, got>>

OpenThrows ==
  /\ pc = "opening"
  /\ ~ hc.running
  /\ Ends("exception")
  /\ UNCHANGED <<hc, silent, streamVars, resp, curl, put, got>>

Close ==
  /\ pc = "ready"
  /\ Closed
  /\ hc' = [hc EXCEPT !.eof = FALSE, !.running = FALSE, !.fd = FALSE]
  /\ pc' = "closed"
  /\ call' = NoCall
  /\ result' = "none"
  /\ curl' \in Idle
  /\ UNCHANGED <<silent, resp>>

\* isSuccessful, which waits for the status line if it is not there.
IsSuccessful ==
  /\ pc = "ready"
  /\ hc' = IF resp.status = 0 THEN [hc EXCEPT !.eof = TRUE] ELSE hc
  /\ pc' = "waiting"
  /\ call' = NoCall
  /\ result' = "none"
  /\ UNCHANGED <<silent, streamVars, resp, curl, put, got>>

Succeeded(code) == code \div 100 = 2

Answered == resp.status # 0 \/ Over(hc)

\* The first failure is retried only if it was a 429, later ones always.
MayRetry ==
  /\ put = 0
  /\ call.retries < MaxRetry
  /\ IF call.retries = 0 THEN resp.status = 429 ELSE ~ Succeeded(resp.status)

\* isSuccessful returns, to SuccessWithRetry or to another caller that does not
\* retry.  With no status line, it throws if the transfer was aborted for its
\* silence (which is not kept here) and is false otherwise.
WaitResponse ==
  /\ pc = "waiting"
  /\ Answered
  /\ IF Succeeded(resp.status) THEN Ends("success")
     ELSE \/ ~ (MayRetry /\ call.retries > 0) /\ Ends("failure")
          \/ resp.status = 0 /\ Ends("exception")
  /\ UNCHANGED <<hc, silent, streamVars, resp, curl, put, got>>

\* SuccessWithRetry sleeps 1, 2, 4, ... seconds and opens the connection again.
RetryLater ==
  /\ pc = "waiting"
  /\ Answered
  /\ MayRetry
  /\ Closed
  /\ Opening
  /\ LET later == silent + 2 ^ call.retries
     IN  silent' = IF later \in 0..SocketTimeout THEN later ELSE SocketTimeout + 1
  /\ hc' = [hc EXCEPT !.eof = FALSE, !.running = TRUE, !.fd = FALSE]
  /\ call' = [call EXCEPT !.retries = @ + 1]
  /\ UNCHANGED result

-----------------------------------------------------------------------------
(* Write.                                                                   *)

\* As much as there is room for; then drive, which gives up at once if the
\* transfer is over.
PutPiece(size, s) ==
  LET reused == ReuseBuffer(s)
      room == reused.len - Len(reused.held)
      n == IF size > room THEN room ELSE size
  IN  /\ up' = PutBuffer(reused, [i \in 1..n |-> put + i])
      /\ put' = put + n
      /\ IF Over(hc) THEN Ends("exception")
         ELSE /\ pc' = "writing"
              /\ call' = [call EXCEPT !.size = size - n]
              /\ UNCHANGED result

Write ==
  /\ pc = "ready"
  /\ curl.uploads
  /\ \E size \in 1..(MaxBody - put) : PutPiece(size, up)
  /\ UNCHANGED <<hc, silent, down, resp, curl, got>>

Driving == pc = "writing" /\ Unread(up) # <<>> /\ ~ Over(hc)

WriteDrivenUnanswered ==
  /\ pc = "writing"
  /\ ~ Driving
  /\ IF Unread(up) # <<>>
     THEN Ends("exception") /\ UNCHANGED <<up, put>>
     ELSE IF call.size > 0
     THEN PutPiece(call.size, up)
     ELSE Ends("written") /\ UNCHANGED <<up, put>>
  /\ UNCHANGED <<hc, silent, down, resp, curl, got>>

\* drive ends: curl has taken the piece, or the transfer is over.  An answer
\* that is there before the upload was closed is read and thrown.
WriteDriven ==
  /\ pc = "writing"
  /\ ~ Driving
  /\ IF ~ hc.eof /\ resp.status # 0
     THEN /\ pc' = "draining"
          /\ call' = NoCall
          /\ UNCHANGED <<result, up, put>>
     ELSE IF Unread(up) # <<>>
     THEN Ends("exception") /\ UNCHANGED <<up, put>>
     ELSE IF call.size > 0
     THEN PutPiece(call.size, up)
     ELSE Ends("written") /\ UNCHANGED <<up, put>>
  /\ UNCHANGED <<hc, silent, down, resp, curl, got>>

-----------------------------------------------------------------------------
(* Reading the body.                                                        *)

\* Read of at most n bytes, of what there is in the buffer.
TakeBody(n) ==
  /\ down' = GetBuffer(down, n)
  /\ got' = got \o SubSeq(Unread(down), 1, Given(down, n))

\* drive of an empty buffer is over.
NothingComes == Unread(down) = <<>> /\ (resp.length = 0 \/ Over(hc))

\* One turn of the loop of ReadBody(content).
Drain ==
  /\ pc = "draining"
  /\ call.drained # resp.length
  /\ Unread(down) # <<>>
  /\ TakeBody(DrainSize)
  /\ hc' = [hc EXCEPT !.eof = TRUE]
  /\ call' = [call EXCEPT !.drained = @ + Given(down, DrainSize)]
  /\ UNCHANGED <<silent, up, resp, curl, pc, put, result>>

DrainedThrows ==
  /\ pc = "draining"
  /\ call.drained = resp.length \/ NothingComes
  /\ Ends("exception")
  /\ UNCHANGED <<hc, silent, streamVars, resp, curl, put, got>>

ReadBody ==
  /\ pc = "ready"
  /\ \E n \in 1..MaxBody : call' = [NoCall EXCEPT !.size = n]
  /\ hc' = [hc EXCEPT !.eof = TRUE]
  /\ pc' = "reading"
  /\ UNCHANGED <<silent, streamVars, resp, curl, put, got, result>>

ReadReturns ==
  /\ pc = "reading"
  /\ Unread(down) # <<>>
  /\ TakeBody(call.size)
  /\ Ends("data")
  /\ UNCHANGED <<hc, silent, up, resp, curl, put>>

ReadReturnsEarly ==
  /\ pc = "reading"
  /\ resp.length = 0 \/ Over(hc)
  /\ Ends("end")
  /\ UNCHANGED <<hc, silent, streamVars, resp, curl, put, got>>

\* Read returns 0.
ReadReturnsNothing ==
  /\ pc = "reading"
  /\ NothingComes
  /\ Ends("end")
  /\ UNCHANGED <<hc, silent, streamVars, resp, curl, put, got>>

-----------------------------------------------------------------------------

Tick ==
  /\ silent <= SocketTimeout
  /\ silent' = silent + 1
  /\ UNCHANGED <<hc, streamVars, resp, curl, callVars>>

Init ==
  /\ hc = [fd |-> FALSE, running |-> FALSE, eof |-> FALSE, paused |-> FALSE]
  /\ silent = 0
  /\ up = Stream(BufferSize)
  /\ down = Stream(IF BufferSize < MaxWriteSize THEN MaxWriteSize ELSE BufferSize)
  /\ resp = [status |-> 0, length |-> -1]
  /\ curl \in Idle
  /\ pc = "closed"
  /\ call = NoCall
  /\ put = 0
  /\ got = <<>>
  /\ result = "none"

Callback ==
  SocketAdded \/ StatusLine \/ ContentLength \/ WriteCallback \/ ReadCallback \/ TransferEnds

\* What a loop tests between two calls of curl.
LoopStep ==
  \/ OpenReturns \/ OpenThrows
  \/ WaitResponse \/ RetryLater
  \/ WriteDriven \/ Drain \/ DrainedThrows
  \/ ReadReturns \/ ReadReturnsNothing

Next ==
  \/ Open \/ Close \/ IsSuccessful \/ Write \/ ReadBody
  \/ Callback
  \/ Progress
  \/ LoopStep
  \/ Tick

\* The thread goes on, time passes, and curl calls progress_callback about
\* once a second, whatever the service does.
Fairness == WF_vars(LoopStep) /\ WF_vars(Progress) /\ WF_vars(Tick)

Spec == Init /\ [][Next]_vars /\ Fairness

-----------------------------------------------------------------------------
(* Properties.                                                              *)

Place == {"closed", "ready", "opening", "writing", "draining", "reading", "waiting"}

\* Every variable has its type, and no buffer is written beyond its memory,
\* although put_buffer does not look: Write and write_callback make room for
\* what they put, however much of the buffer is unread.
TypeOK ==
  /\ hc \in [fd : BOOLEAN, running : BOOLEAN, eof : BOOLEAN, paused : BOOLEAN]
  /\ silent \in 0..(SocketTimeout + 1)
  /\ WithinBuffer(up) /\ WithinBuffer(down)
  /\ resp.status \in Codes \cup {0} /\ resp.length \in -1..MaxBody
  /\ pc \in Place
  /\ put \in 0..MaxBody

Numbers(n) == [i \in 1..n |-> i]

\* The buffers neither lose, repeat nor reorder a byte: what curl took and
\* what waits for it is what was written, and what was read and what waits to
\* be read is what came, also when the answer comes in the middle of a Write.
BytesInOrder ==
  /\ curl.taken \o Unread(up) = Numbers(put)
  /\ got \o Unread(down) = Numbers(curl.given)

\* When Write returns, curl has it all and no answer was known before the
\* caller began to read it: an early refusal never passes for success.
WrittenIsTaken ==
  pc = "ready" /\ result = "written" =>
    curl.taken = Numbers(put) /\ (hc.eof \/ resp.status = 0)

\* Read returns 0 bytes only when there are none to come and none left over:
\* callers take it for the end of the answer.
EndIsEnd ==
  pc = "ready" /\ result = "end" =>
    got = Numbers(curl.given) /\ (Over(hc) \/ curl.given = curl.body)

\* No call drives curl forever: a service that stops in the middle, a paused
\* upload and one refusal after another all come to an end.
CallsReturn == pc \notin {"ready", "closed"} ~> pc \in {"ready", "closed"}
=============================================================================
