--------------------------- MODULE ChannelStream ---------------------------
(***************************************************************************)
(* ChannelStream, the buffer of an HttpConnection for one direction         *)
(* (http_connection.h).  held is what lies in its memory from the start on, *)
(* of which the first pos bytes were read already, and len how much memory  *)
(* it has.  put_buffer trusts its caller that there is room.                *)
(***************************************************************************)
EXTENDS Naturals, Sequences

Stream(size) == [held |-> <<>>, pos |-> 0, len |-> size]

Unread(s) == SubSeq(s.held, s.pos + 1, Len(s.held))

ReuseBufferUnmoved(s) == [s EXCEPT !.pos = 0]

ReuseBuffer(s) == [s EXCEPT !.held = Unread(s), !.pos = 0]

ReallocBuffer(s, n) ==
  IF n <= s.len THEN s ELSE [held |-> Unread(s), pos |-> 0, len |-> n]

ClearBuffer(s) == [s EXCEPT !.held = <<>>, !.pos = 0]

PutBuffer(s, data) == [s EXCEPT !.held = @ \o data]

\* How much get_buffer gives when asked for n, and the stream after it.
Given(s, n) == IF Len(Unread(s)) > n THEN n ELSE Len(Unread(s))
GetBuffer(s, n) == [s EXCEPT !.pos = @ + Given(s, n)]

\* Memory that put_buffer left intact.
WithinBuffer(s) == s.pos <= Len(s.held) /\ Len(s.held) <= s.len
=============================================================================
