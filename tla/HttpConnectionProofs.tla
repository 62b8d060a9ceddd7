------------------------- MODULE HttpConnectionProofs -------------------------
(***************************************************************************)
(* The buffers of an HttpConnection, for any sizes of the buffers, of the    *)
(* pieces and of the bodies, and whatever curl and the service do between    *)
(* two tests of a loop.                                                     *)
(***************************************************************************)
EXTENDS HttpConnection, SequenceTheorems, TLAPS

\* A buffer whose memory is intact.
StreamType(s) == s \in [held : Seq(Nat), pos : Nat, len : Nat] /\ WithinBuffer(s)

CurlType ==
  [uploads : BOOLEAN, paused : BOOLEAN, uploaded : BOOLEAN, taken : Seq(Nat),
   body : 0..MaxBody, given : 0..MaxBody]

\* The buffers are intact and hold what is between the caller and curl.
BuffersInv ==
  /\ StreamType(up) /\ StreamType(down)
  /\ curl \in CurlType /\ curl.given <= curl.body
  /\ put \in 0..MaxBody /\ got \in Seq(Nat)
  /\ BytesInOrder

\* The other variables have their types, and a Write has only so many bytes
\* left to put.
ControlInv ==
  /\ hc \in [fd : BOOLEAN, running : BOOLEAN, eof : BOOLEAN, paused : BOOLEAN]
  /\ silent \in 0..(SocketTimeout + 1)
  /\ resp \in [status : Codes \cup {0}, length : -1..MaxBody]
  /\ pc \in Place
  /\ call \in [size : Nat, drained : Nat, retries : Nat]
  /\ pc = "writing" => put + call.size <= MaxBody

\* A connection that is closed holds nothing of its last transfer.
ClosedInv ==
  pc = "closed" => put = 0 /\ Unread(up) = <<>> /\ got = <<>> /\ Unread(down) = <<>>

\* The length that is known is that of the body.
LengthInv == pc # "closed" => resp.length = -1 \/ resp.length = curl.body

IInv == BuffersInv /\ ControlInv /\ ClosedInv /\ LengthInv /\ WrittenIsTaken /\ EndIsEnd

-----------------------------------------------------------------------------
(* Sequences of numbers.                                                    *)

\* What a concatenation is made of.
LEMMA Joined ==
  ASSUME NEW s \in Seq(Nat), NEW t \in Seq(Nat)
  PROVE  /\ s \o t \in Seq(Nat) /\ Len(s \o t) = Len(s) + Len(t)
         /\ \A i \in 1..Len(s) + Len(t) :
              (s \o t)[i] = IF i <= Len(s) THEN s[i] ELSE t[i - Len(s)]
  BY ConcatProperties

\* What a part of a sequence is made of.
LEMMA Cut ==
  ASSUME NEW s \in Seq(Nat), NEW m \in Nat, NEW n \in Nat, m <= n, n <= Len(s)
  PROVE  /\ SubSeq(s, m + 1, n) \in Seq(Nat) /\ Len(SubSeq(s, m + 1, n)) = n - m
         /\ \A i \in 1..(n - m) : SubSeq(s, m + 1, n)[i] = s[m + i]
<1>1. Len(s) \in Nat /\ \A i \in (m+1)..n : s[i] \in Nat
  OBVIOUS
<1>2. m + 1 \in Int /\ n \in Int 
  OBVIOUS
<1>3. /\ SubSeq(s,m+1,n) \in Seq(Nat)
      /\ Len(SubSeq(s,m+1,n)) = IF m+1<=n THEN n-(m+1)+1 ELSE 0
      /\ \A i \in 1 .. n-(m+1)+1 : SubSeq(s,m+1,n)[i] = s[(m+1)+i-1]
  BY <1>1, <1>2, SubSeqProperties
<1> DEFINE c == SubSeq(s, m + 1, n)
<1> HIDE DEF c
<1>4. \A i \in 1..(n - m) : i \in 1 .. n-(m+1)+1 /\ (m+1)+i-1 = m + i
  OBVIOUS
<1> QED
  BY <1>3, <1>4 DEF c

\* Sequences of the same elements are the same.
LEMMA Same ==
  ASSUME NEW s \in Seq(Nat), NEW t \in Seq(Nat), Len(s) = Len(t),
         \A i \in 1..Len(s) : s[i] = t[i]
  PROVE  s = t
  OBVIOUS

\* A sequence is its two parts.
LEMMA Halves ==
  ASSUME NEW s \in Seq(Nat), NEW k \in Nat, k <= Len(s)
  PROVE  SubSeq(s, 1, k) \o SubSeq(s, k + 1, Len(s)) = s
<1>1. Len(s) \in Nat /\ SubSeq(s, 1, Len(s)) = s
  BY SubSeqFull
<1>2. 1 \in 1..Len(s) + 1 /\ k \in (1 - 1)..Len(s) /\ Len(s) \in k..Len(s)
  BY <1>1
<1>3. SubSeq(s, 1, k) \o SubSeq(s, k + 1, Len(s)) = SubSeq(s, 1, Len(s))
  BY <1>2, ConcatAdjacentSubSeq
<1> QED
  BY <1>1, <1>3

\* Concatenation may be regrouped.
LEMMA Associative ==
  ASSUME NEW s \in Seq(Nat), NEW t \in Seq(Nat), NEW u \in Seq(Nat)
  PROVE  s \o (t \o u) = (s \o t) \o u
  OBVIOUS

\* The tail of a concatenation.
LEMMA TailOfJoined ==
  ASSUME NEW h \in Seq(Nat), NEW d \in Seq(Nat), NEW p \in Nat, p <= Len(h)
  PROVE  SubSeq(h \o d, p + 1, Len(h \o d)) = SubSeq(h, p + 1, Len(h)) \o d
<1> DEFINE j == h \o d
           a == SubSeq(j, p + 1, Len(j))
           b == SubSeq(h, p + 1, Len(h))
           c == b \o d
<1>1. Len(h) \in Nat /\ Len(d) \in Nat 
  OBVIOUS
<1>2. j \in Seq(Nat) /\ Len(j) = Len(h) + Len(d)
        /\ \A i \in 1..Len(h) + Len(d) :
              j[i] = IF i <= Len(h) THEN h[i] ELSE d[i - Len(h)]
  BY Joined
<1>3. b \in Seq(Nat) /\ Len(b) = Len(h) - p /\ \A i \in 1..(Len(h) - p) : b[i] = h[p + i]
  BY <1>1, Cut
<1> HIDE DEF j, b
<1>4. p <= Len(j) /\ Len(j) \in Nat
  BY <1>1, <1>2
<1>5. a \in Seq(Nat) /\ Len(a) = Len(j) - p /\ \A i \in 1..(Len(j) - p) : a[i] = j[p + i]
  <2>1. j \in Seq(Nat)
    BY <1>2
  <2> QED
    BY <2>1, <1>4, Cut
<1>6. c \in Seq(Nat) /\ Len(c) = Len(b) + Len(d)
        /\ \A i \in 1..Len(b) + Len(d) :
              c[i] = IF i <= Len(b) THEN b[i] ELSE d[i - Len(b)]
  <2>1. b \in Seq(Nat)
    BY <1>3
  <2> QED
    BY <2>1, Joined
<1> HIDE DEF a, c
<1>7. Len(a) = Len(c) /\ Len(a) \in Nat /\ Len(a) = Len(h) + Len(d) - p
  BY <1>1, <1>2, <1>3, <1>5, <1>6
<1>8. ASSUME NEW i \in 1..Len(a) PROVE a[i] = c[i]
  <2>0. i \in Nat /\ i >= 1 /\ i <= Len(h) + Len(d) - p
    BY <1>7
  <2>1. a[i] = j[p + i]
    BY <1>5, <1>7
  <2>2. CASE i <= Len(h) - p
    <3>1. j[p + i] = h[p + i]
      BY <1>1, <1>2, <2>0, <2>2
    <3>2. c[i] = b[i] /\ b[i] = h[p + i]
      BY <1>1, <1>3, <1>6, <2>0, <2>2
    <3> QED
      BY <2>1, <3>1, <3>2
  <2>3. CASE ~ (i <= Len(h) - p)
    <3>1. j[p + i] = d[p + i - Len(h)]
      BY <1>1, <1>2, <2>0, <2>3
    <3>2. c[i] = d[i - (Len(h) - p)]
      BY <1>1, <1>3, <1>6, <2>0, <2>3
    <3>3. i - (Len(h) - p) = p + i - Len(h)
      BY <1>1, <2>0
    <3> QED
      BY <2>1, <3>1, <3>2, <3>3
  <2> QED
    BY <2>2, <2>3
<1>9. a = c
  BY <1>5, <1>6, <1>7, <1>8, Same
<1> QED
  BY <1>9 DEF a, b, c, j

\* The tail of a tail.
LEMMA TailOfTail ==
  ASSUME NEW h \in Seq(Nat), NEW p \in Nat, NEW g \in Nat, p + g <= Len(h)
  PROVE  LET u == SubSeq(h, p + 1, Len(h))
         IN  SubSeq(h, p + g + 1, Len(h)) = SubSeq(u, g + 1, Len(u))
<1> DEFINE u == SubSeq(h, p + 1, Len(h))
           a == SubSeq(h, (p + g) + 1, Len(h))
           b == SubSeq(u, g + 1, Len(u))
<1>1. Len(h) \in Nat /\ p <= Len(h) /\ p + g \in Nat
  OBVIOUS
<1>2. u \in Seq(Nat) /\ Len(u) = Len(h) - p /\ \A i \in 1..(Len(h) - p) : u[i] = h[p + i]
  BY <1>1, Cut
<1>3. /\ a \in Seq(Nat) /\ Len(a) = Len(h) - (p + g)
      /\ \A i \in 1..(Len(h) - (p + g)) : a[i] = h[(p + g) + i]
  BY <1>1, Cut
<1> HIDE DEF u
<1>4. u \in Seq(Nat) /\ Len(u) \in Nat /\ g <= Len(u)
  BY <1>1, <1>2
<1>5. b \in Seq(Nat) /\ Len(b) = Len(u) - g /\ \A i \in 1..(Len(u) - g) : b[i] = u[g + i]
  BY <1>4, Cut
<1> HIDE DEF a, b
<1>6. Len(a) = Len(b) /\ Len(a) = Len(h) - p - g
  BY <1>1, <1>2, <1>3, <1>5
<1>7. ASSUME NEW i \in 1..Len(a) PROVE a[i] = b[i]
  <2>1. i \in Nat /\ i >= 1 /\ i <= Len(h) - p - g
    BY <1>1, <1>6
  <2>2. a[i] = h[(p + g) + i]
    BY <1>1, <1>3, <2>1
  <2>3. b[i] = u[g + i]
    BY <1>1, <1>2, <1>5, <2>1
  <2>4. u[g + i] = h[p + (g + i)]
    <3>1. g + i \in 1..(Len(h) - p)
      BY <1>1, <2>1
    <3> QED
      BY <1>2, <3>1
  <2>5. (p + g) + i = p + (g + i)
    BY <2>1
  <2> QED
    BY <2>2, <2>3, <2>4, <2>5
<1>8. a = b
  BY <1>3, <1>5, <1>6, <1>7, Same
<1> QED
  BY <1>8 DEF a, b, u

-----------------------------------------------------------------------------
(* Buffers.                                                                 *)

\* The sizes are numbers, and no buffer is empty.
LEMMA ConstantsAreNat ==
  /\ BufferSize \in Nat \ {0} /\ MaxWriteSize \in Nat \ {0} /\ DrainSize \in Nat \ {0}
  /\ SocketTimeout \in Nat /\ MaxRetry \in Nat /\ MaxBody \in Nat
  BY HttpAssumption

\* What the type of a MemoryStream says of its parts.
LEMMA StreamIs ==
  ASSUME NEW s, StreamType(s)
  PROVE  /\ s.held \in Seq(Nat) /\ s.pos \in Nat /\ s.len \in Nat /\ Len(s.held) \in Nat
         /\ s.pos <= Len(s.held) /\ Len(s.held) <= s.len
<1>1. s \in [held : Seq(Nat), pos : Nat, len : Nat] /\ WithinBuffer(s)
  BY DEF StreamType
<1>2. s.held \in Seq(Nat) /\ s.pos \in Nat /\ s.len \in Nat
  BY <1>1
<1>3. Len(s.held) \in Nat
  BY <1>2
<1> QED
  BY <1>1, <1>2, <1>3 DEF WithinBuffer

\* What is unread is as long as the buffer is filled beyond its position.
LEMMA UnreadIs ==
  ASSUME NEW s, StreamType(s)
  PROVE  /\ Unread(s) \in Seq(Nat)
         /\ Len(Unread(s)) = Len(s.held) - s.pos
         /\ Len(Unread(s)) \in Nat
         /\ Len(Unread(s)) <= s.len
<1> DEFINE h == s.held
           p == s.pos
<1>1. h \in Seq(Nat) /\ p \in Nat /\ Len(h) \in Nat /\ p <= Len(h) /\ Len(h) <= s.len /\ s.len \in Nat
  BY StreamIs
<1>2. Unread(s) = SubSeq(h, p + 1, Len(h))
  BY DEF Unread
<1> HIDE DEF h, p
<1>3. /\ SubSeq(h, p + 1, Len(h)) \in Seq(Nat)
      /\ Len(SubSeq(h, p + 1, Len(h))) = Len(h) - p
  BY <1>1, Cut
<1>4. Unread(s) \in Seq(Nat) /\ Len(Unread(s)) = Len(h) - p
  BY <1>2, <1>3
<1>5. Len(h) - p \in Nat /\ Len(h) - p <= s.len
  BY <1>1
<1> QED
  BY <1>4, <1>5 DEF h, p

\* Emptying a buffer.
LEMMA ClearedIsEmpty ==
  ASSUME NEW s, StreamType(s)
  PROVE  StreamType(ClearBuffer(s)) /\ Unread(ClearBuffer(s)) = <<>>
<1> DEFINE t == ClearBuffer(s)
<1>1. t \in [held : Seq(Nat), pos : Nat, len : Nat]
  <2>1. <<>> \in Seq(Nat) /\ 0 \in Nat
    OBVIOUS
  <2> QED
    BY <2>1 DEF StreamType, ClearBuffer
<1>2. t.held = <<>> /\ t.pos = 0
  BY DEF StreamType, ClearBuffer
<1>3. t.len \in Nat
  BY <1>1
<1> HIDE DEF t
<1>4. StreamType(t)
  BY <1>1, <1>2, <1>3 DEF StreamType, WithinBuffer
<1>5. Unread(t) = <<>>
  BY <1>2, SubSeqEmpty DEF Unread
<1> QED
  BY <1>4, <1>5 DEF t

\* Moving what is unread to the start of the memory, old or new, keeps it.
LEMMA MovedKeeps ==
  ASSUME NEW s, StreamType(s), NEW t,
         t \in [held : Seq(Nat), pos : Nat, len : Nat],
         t.held = Unread(s), t.pos = 0, Len(Unread(s)) <= t.len
  PROVE  StreamType(t) /\ Unread(t) = Unread(s)
<1> DEFINE u == Unread(s)
<1>1. u \in Seq(Nat) /\ Len(u) \in Nat
  BY UnreadIs
<1>2. Len(u) <= t.len /\ t.held = u
  OBVIOUS
<1> HIDE DEF u
<1>3. SubSeq(u, 0 + 1, Len(u)) = u
  BY <1>1, SubSeqFull
<1>4. Unread(t) = u
  BY <1>2, <1>3 DEF Unread
<1>5. StreamType(t)
  BY <1>1, <1>2 DEF StreamType, WithinBuffer
<1> QED
  BY <1>4, <1>5 DEF u

\* ReuseBuffer drops what was read and nothing else.
LEMMA ReuseKeeps ==
  ASSUME NEW s, StreamType(s)
  PROVE  /\ StreamType(ReuseBuffer(s)) /\ Unread(ReuseBuffer(s)) = Unread(s)
         /\ ReuseBuffer(s).len = s.len /\ ReuseBuffer(s).held = Unread(s)
<1> DEFINE t == ReuseBuffer(s)
<1>1. Unread(s) \in Seq(Nat) /\ Len(Unread(s)) <= s.len
  BY UnreadIs
<1>2. t \in [held : Seq(Nat), pos : Nat, len : Nat]
  BY <1>1 DEF StreamType, ReuseBuffer
<1>3. t.held = Unread(s) /\ t.pos = 0 /\ t.len = s.len
  BY DEF StreamType, ReuseBuffer
<1> HIDE DEF t
<1>4. Len(Unread(s)) <= t.len
  BY <1>1, <1>3
<1>5. StreamType(t) /\ Unread(t) = Unread(s)
  BY <1>2, <1>3, <1>4, MovedKeeps
<1> QED
  BY <1>3, <1>5 DEF t

\* What is put is read after what was unread.
LEMMA PutAppends ==
  ASSUME NEW s, StreamType(s), NEW data \in Seq(Nat), Len(s.held) + Len(data) <= s.len
  PROVE  /\ StreamType(PutBuffer(s, data))
         /\ Unread(PutBuffer(s, data)) = Unread(s) \o data
<1> DEFINE h == s.held
           p == s.pos
           j == h \o data
           t == PutBuffer(s, data)
<1>1. /\ h \in Seq(Nat) /\ p \in Nat /\ Len(h) \in Nat /\ p <= Len(h) /\ s.len \in Nat
  BY StreamIs
<1>2. j \in Seq(Nat)
  BY <1>1
<1>3. t \in [held : Seq(Nat), pos : Nat, len : Nat]
  BY <1>2 DEF PutBuffer, StreamType
<1>4. t.held = j /\ t.pos = p /\ t.len = s.len
  BY DEF PutBuffer, StreamType
<1>5. Unread(s) = SubSeq(h, p + 1, Len(h)) /\ Len(h) + Len(data) <= s.len
  BY DEF Unread
<1> HIDE DEF h, p, t
<1>6. Len(j) = Len(h) + Len(data) /\ Len(data) \in Nat
  BY <1>1, Joined
<1>7. SubSeq(j, p + 1, Len(j)) = SubSeq(h, p + 1, Len(h)) \o data
  BY <1>1, TailOfJoined
<1> HIDE DEF j
<1>8. t.pos <= Len(t.held) /\ Len(t.held) <= t.len
  BY <1>1, <1>4, <1>5, <1>6
<1>9. StreamType(t)
  BY <1>3, <1>8 DEF StreamType, WithinBuffer
<1>10. Unread(t) = Unread(s) \o data
  BY <1>4, <1>5, <1>7 DEF Unread
<1> QED
  BY <1>9, <1>10 DEF t

\* Reading n bytes leaves the rest unread.
LEMMA GetLeaves ==
  ASSUME NEW s, StreamType(s), NEW n \in Nat
  PROVE  /\ Given(s, n) \in Nat /\ Given(s, n) <= Len(Unread(s))
         /\ StreamType(GetBuffer(s, n))
         /\ Unread(GetBuffer(s, n)) = SubSeq(Unread(s), Given(s, n) + 1, Len(Unread(s)))
<1> DEFINE h == s.held
           p == s.pos
           g == Given(s, n)
           u == Unread(s)
           t == GetBuffer(s, n)
<1>1. /\ h \in Seq(Nat) /\ p \in Nat /\ Len(h) \in Nat /\ p <= Len(h)
      /\ s.len \in Nat /\ Len(h) <= s.len
  BY StreamIs
<1>2. Len(u) = Len(h) - p /\ Len(u) \in Nat
  BY UnreadIs
<1>3. g \in Nat /\ g <= Len(u)
  BY <1>2 DEF Given
<1>4. u = SubSeq(h, p + 1, Len(h))
  BY DEF Unread
<1>5. t \in [held : Seq(Nat), pos : Nat, len : Nat]
  <2>1. s.pos + Given(s, n) \in Nat
    BY <1>1, <1>3
  <2> QED
    BY <2>1 DEF GetBuffer, StreamType
<1>6. t.held = h /\ t.pos = p + g /\ t.len = s.len
  BY DEF GetBuffer, StreamType
<1> HIDE DEF h, p, g, u, t
<1>7. p + g \in Nat /\ p + g <= Len(h)
  BY <1>1, <1>2, <1>3
<1>8. SubSeq(h, p + g + 1, Len(h)) = SubSeq(u, g + 1, Len(u))
  BY <1>1, <1>3, <1>4, <1>7, TailOfTail
<1>9. StreamType(t)
  BY <1>1, <1>5, <1>6, <1>7 DEF StreamType, WithinBuffer
<1>10. Unread(t) = SubSeq(u, g + 1, Len(u))
  BY <1>6, <1>8 DEF Unread
<1> QED
  BY <1>3, <1>9, <1>10 DEF g, u, t

\* write_callback finds or makes room for what curl brings.
LEMMA RoomIsMade ==
  ASSUME NEW s, StreamType(s), NEW n \in Nat
  PROVE  /\ StreamType(MadeRoom(s, n)) /\ Unread(MadeRoom(s, n)) = Unread(s)
         /\ Len(MadeRoom(s, n).held) + n <= MadeRoom(s, n).len
<1> DEFINE l == Len(s.held)
           rembuff == s.len - l + s.pos
<1>1. /\ l \in Nat /\ s.pos \in Nat /\ s.len \in Nat /\ s.pos <= l /\ l <= s.len
      /\ Len(Unread(s)) = l - s.pos /\ Len(Unread(s)) \in Nat
  BY StreamIs, UnreadIs
<1>2. CASE n <= s.len - l
  BY <1>1, <1>2 DEF MadeRoom
<1>3. CASE ~ (n <= s.len - l) /\ n <= rembuff
  <2>1. MadeRoom(s, n) = ReuseBuffer(s)
    BY <1>3 DEF MadeRoom
  <2>2. Len(Unread(s)) + n <= s.len
    BY <1>1, <1>3
  <2> QED
    BY <2>1, <2>2, ReuseKeeps
<1>4. CASE ~ (n <= s.len - l) /\ ~ (n <= rembuff)
  <2> DEFINE grown == s.len + n - rembuff
  <2>1. grown \in Nat /\ ~ (grown <= s.len) /\ grown = Len(Unread(s)) + n
    BY <1>1, <1>4
  <2>2. MadeRoom(s, n) = [held |-> Unread(s), pos |-> 0, len |-> grown]
    BY <1>4, <2>1 DEF MadeRoom, ReallocBuffer
  <2> DEFINE t == MadeRoom(s, n)
  <2> HIDE DEF grown
  <2>3. /\ t \in [held : Seq(Nat), pos : Nat, len : Nat]
        /\ t.held = Unread(s) /\ t.pos = 0 /\ t.len = grown
    BY <2>1, <2>2, UnreadIs
  <2> HIDE DEF t
  <2>4. Len(Unread(s)) <= t.len /\ Len(t.held) + n <= t.len
    BY <1>1, <2>1, <2>3
  <2>5. StreamType(t) /\ Unread(t) = Unread(s)
    BY <2>3, <2>4, MovedKeeps
  <2> QED
    BY <2>4, <2>5 DEF t
<1> QED
  BY <1>2, <1>3, <1>4

-----------------------------------------------------------------------------
(* Numbered bytes.                                                          *)

\* The next m bytes after the first n.
Piece(n, m) == [i \in 1..m |-> n + i]

\* The bytes of a body, followed by the next piece of it.
LEMMA NumbersGrow ==
  ASSUME NEW n \in Nat, NEW m \in Nat
  PROVE  /\ Piece(n, m) \in Seq(Nat) /\ Len(Piece(n, m)) = m
         /\ Numbers(n) \in Seq(Nat) /\ Len(Numbers(n)) = n
         /\ Numbers(n) \o Piece(n, m) = Numbers(n + m)
<1> DEFINE a == Numbers(n)
           b == Piece(n, m)
           c == Numbers(n + m)
           d == a \o b
<1>1. a \in Seq(Nat) /\ Len(a) = n /\ \A i \in 1..n : a[i] = i
  BY DEF Numbers
<1>2. b \in Seq(Nat) /\ Len(b) = m /\ \A i \in 1..m : b[i] = n + i
  BY DEF Piece
<1>3. c \in Seq(Nat) /\ Len(c) = n + m /\ \A i \in 1..(n + m) : c[i] = i
  BY DEF Numbers
<1> HIDE DEF a, b, c
<1>4. a \in Seq(Nat) /\ b \in Seq(Nat) /\ c \in Seq(Nat)
  BY <1>1, <1>2, <1>3
<1>5. d \in Seq(Nat) /\ Len(d) = Len(a) + Len(b)
      /\ \A i \in 1..Len(a) + Len(b) : d[i] = IF i <= Len(a) THEN a[i] ELSE b[i - Len(a)]
  BY <1>4, Joined
<1> HIDE DEF d
<1>6. Len(d) = n + m /\ Len(c) = n + m
  BY <1>1, <1>2, <1>3, <1>5
<1>7. ASSUME NEW i \in 1..(n + m) PROVE d[i] = c[i]
  <2>1. CASE i <= n
    BY <2>1, <1>1, <1>2, <1>3, <1>5
  <2>2. CASE ~ (i <= n)
    <3>1. i - n \in 1..m /\ n + (i - n) = i
      BY <2>2
    <3>2. d[i] = b[i - n]
      BY <2>2, <1>1, <1>2, <1>5
    <3> QED
      BY <3>1, <3>2, <1>2, <1>3
  <2> QED
    BY <2>1, <2>2
<1>8. d \in Seq(Nat) /\ c \in Seq(Nat)
  BY <1>4, <1>5
<1>9. d = c
  BY <1>6, <1>7, <1>8, Same
<1> QED
  BY <1>1, <1>2, <1>9 DEF a, b, c, d

\* Bytes that are put behind a buffer in order.
LEMMA PuttingInOrder ==
  ASSUME NEW n \in Nat, NEW m \in Nat, NEW q \in Seq(Nat), NEW u \in Seq(Nat),
         q \o u = Numbers(n)
  PROVE  q \o (u \o Piece(n, m)) = Numbers(n + m)
<1> DEFINE b == Piece(n, m)
<1>1. b \in Seq(Nat) /\ Numbers(n) \o b = Numbers(n + m)
  BY NumbersGrow
<1> HIDE DEF b
<1>2. q \o (u \o b) = (q \o u) \o b
  <2>1. b \in Seq(Nat)
    BY <1>1
  <2> QED
    BY <2>1, Associative
<1> QED
  BY <1>1, <1>2 DEF b

\* Bytes that are moved from the front of one to the end of the other.
LEMMA TakingInOrder ==
  ASSUME NEW q \in Seq(Nat), NEW u \in Seq(Nat), NEW k \in Nat, k <= Len(u)
  PROVE  /\ (q \o SubSeq(u, 1, k)) \o SubSeq(u, k + 1, Len(u)) = q \o u
         /\ q \o SubSeq(u, 1, k) \in Seq(Nat)
<1> DEFINE a == SubSeq(u, 1, k)
           b == SubSeq(u, k + 1, Len(u))
<1>1. a \in Seq(Nat) /\ b \in Seq(Nat)
  OBVIOUS
<1>2. a \o b = u
  BY Halves
<1> HIDE DEF a, b
<1>3. (q \o a) \o b = q \o (a \o b)
  BY <1>1, Associative
<1>4. q \o a \in Seq(Nat)
  BY <1>1
<1> QED
  BY <1>2, <1>3, <1>4 DEF a, b

-----------------------------------------------------------------------------
(* What the operations do to the buffers.                                   *)

\* What the type of the transfer says of its parts.
LEMMA CurlIs ==
  ASSUME NEW c \in CurlType
  PROVE  /\ c.taken \in Seq(Nat) /\ c.body \in Nat /\ c.given \in Nat
         /\ c.body <= MaxBody /\ c.given <= MaxBody
  BY ConstantsAreNat DEF CurlType

\* A body without bytes.
LEMMA NoNumbers == Numbers(0) = <<>> /\ <<>> \in Seq(Nat)
<1>1. Len(Numbers(0)) = 0 /\ Numbers(0) \in Seq(Nat)
  BY NumbersGrow
<1> QED
  BY <1>1, EmptySeq

\* Nothing moves.
LEMMA BuffersSame ==
  ASSUME BuffersInv, UNCHANGED <<up, down, put, got>>, curl' \in CurlType,
         curl'.taken = curl.taken, curl'.given = curl.given, curl'.body = curl.body
  PROVE  BuffersInv'
  BY DEF BuffersInv, BytesInOrder

\* A transfer begins with empty buffers.
LEMMA BuffersFresh ==
  ASSUME StreamType(up'), StreamType(down'), Unread(up') = <<>>, Unread(down') = <<>>,
         put' = 0, got' = <<>>, curl' \in CurlType, curl'.taken = <<>>, curl'.given = 0
  PROVE  BuffersInv'
<1>1. <<>> \o <<>> = Numbers(0)
  BY NoNumbers, ConcatEmptySeq
<1>2. BytesInOrder'
  BY <1>1 DEF BytesInOrder
<1>3. curl'.given <= curl'.body /\ put' \in 0..MaxBody /\ got' \in Seq(Nat)
  BY CurlIs, ConstantsAreNat, NoNumbers
<1> QED
  BY <1>2, <1>3 DEF BuffersInv

\* Write puts a piece, and has no more than the rest left to put.
LEMMA BuffersPut ==
  ASSUME BuffersInv, call \in [size : Nat, drained : Nat, retries : Nat],
         NEW size \in Nat, put + size <= MaxBody,
         PutPiece(size, up), UNCHANGED <<down, got, curl>>
  PROVE  /\ BuffersInv'
         /\ call' \in [size : Nat, drained : Nat, retries : Nat]
         /\ \/ pc' = "ready" /\ result' = "exception"
            \/ pc' = "writing" /\ result' = result /\ put' + call'.size <= MaxBody
<1> DEFINE r == ReuseBuffer(up)
           room == r.len - Len(r.held)
           n == IF size > room THEN room ELSE size
           piece == Piece(put, n)
           t == PutBuffer(r, piece)
<1>1. /\ StreamType(up) /\ put \in Nat /\ put \in 0..MaxBody /\ MaxBody \in Nat
      /\ curl.taken \in Seq(Nat) /\ curl.taken \o Unread(up) = Numbers(put)
  BY ConstantsAreNat, CurlIs DEF BuffersInv, BytesInOrder
<1>2. /\ up' = t /\ put' = put + n
      /\ \/ Ends("exception")
         \/ pc' = "writing" /\ result' = result /\ call' = [call EXCEPT !.size = size - n]
  BY DEF PutPiece, Piece
<1>3. StreamType(r) /\ Unread(r) = Unread(up) /\ r.len = up.len /\ r.held = Unread(up)
  BY <1>1, ReuseKeeps
<1>4. /\ up.len \in Nat /\ Len(Unread(up)) \in Nat /\ Len(Unread(up)) <= up.len
      /\ Unread(up) \in Seq(Nat)
  BY <1>1, StreamIs, UnreadIs
<1> HIDE DEF r
<1>5. room \in Nat
  BY <1>3, <1>4
<1>6. n \in Nat /\ n <= size /\ n <= room /\ size - n \in Nat
  BY <1>5
<1>7. Len(r.held) + n <= r.len
  BY <1>3, <1>4, <1>6
<1> HIDE DEF n, room
<1>8. piece \in Seq(Nat) /\ Len(piece) = n
  BY <1>1, <1>6, NumbersGrow
<1> HIDE DEF piece
<1>9. Len(r.held) + Len(piece) <= r.len /\ piece \in Seq(Nat)
  BY <1>7, <1>8
<1>10. StreamType(t) /\ Unread(t) = Unread(r) \o piece
  BY <1>3, <1>9, PutAppends
<1>11. curl.taken \o (Unread(up) \o piece) = Numbers(put + n)
  BY <1>1, <1>4, <1>6, PuttingInOrder DEF piece
<1> HIDE DEF t
<1>12. put' \in 0..MaxBody
  BY <1>1, <1>2, <1>6
<1>13. BytesInOrder'
  <2>1. got' \o Unread(down') = Numbers(curl'.given)
    BY DEF BuffersInv, BytesInOrder
  <2>2. curl'.taken \o Unread(up') = Numbers(put')
    BY <1>2, <1>3, <1>10, <1>11
  <2> QED
    BY <2>1, <2>2 DEF BytesInOrder
<1>14. BuffersInv'
  BY <1>2, <1>10, <1>12, <1>13 DEF BuffersInv
<1>15. CASE Ends("exception")
  BY <1>14, <1>15 DEF Ends, NoCall
<1>16. CASE pc' = "writing" /\ result' = result /\ call' = [call EXCEPT !.size = size - n]
  <2>1. call' \in [size : Nat, drained : Nat, retries : Nat] /\ call'.size = size - n
    BY <1>6, <1>16
  <2>2. put' + call'.size <= MaxBody
    BY <1>1, <1>2, <1>6, <2>1
  <2> QED
    BY <1>14, <1>16, <2>1, <2>2
<1> QED
  BY <1>2, <1>15, <1>16

\* Read gives the next of the body.
LEMMA BuffersTake ==
  ASSUME BuffersInv, NEW n \in Nat, TakeBody(n), UNCHANGED <<up, put, curl>>
  PROVE  BuffersInv' /\ Given(down, n) \in Nat
<1> DEFINE u == Unread(down)
           k == Given(down, n)
           t == GetBuffer(down, n)
<1>1. StreamType(down) /\ got \in Seq(Nat) /\ got \o u = Numbers(curl.given)
  BY DEF BuffersInv, BytesInOrder
<1>2. u \in Seq(Nat)
  BY <1>1, UnreadIs
<1>3. /\ k \in Nat /\ k <= Len(u)
      /\ StreamType(t) /\ Unread(t) = SubSeq(u, k + 1, Len(u))
  BY <1>1, GetLeaves
<1>4. down' = t /\ got' = got \o SubSeq(u, 1, k)
  BY DEF TakeBody
<1> HIDE DEF u, k, t
<1>5. /\ (got \o SubSeq(u, 1, k)) \o SubSeq(u, k + 1, Len(u)) = got \o u
      /\ got \o SubSeq(u, 1, k) \in Seq(Nat)
  BY <1>1, <1>2, <1>3, TakingInOrder
<1>6. got' \o Unread(down') = Numbers(curl'.given)
  BY <1>1, <1>3, <1>4, <1>5
<1>7. curl'.taken \o Unread(up') = Numbers(put')
  BY DEF BuffersInv, BytesInOrder
<1>8. BytesInOrder'
  BY <1>6, <1>7 DEF BytesInOrder
<1>9. got' \in Seq(Nat) /\ StreamType(down')
  BY <1>3, <1>4, <1>5
<1> QED
  BY <1>3, <1>8, <1>9 DEF BuffersInv, k

\* read_callback gives curl the next of the upload.
LEMMA BuffersSent ==
  ASSUME BuffersInv, NEW n \in 1..Len(Unread(up)),
         up' = GetBuffer(up, n), curl' = [curl EXCEPT !.taken = @ \o SubSeq(Unread(up), 1, n)],
         UNCHANGED <<down, put, got>>
  PROVE  BuffersInv' /\ curl'.body = curl.body
<1> DEFINE u == Unread(up)
           q == curl.taken
           t == GetBuffer(up, n)
<1>1. StreamType(up) /\ q \in Seq(Nat) /\ q \o u = Numbers(put) /\ curl \in CurlType
  BY CurlIs DEF BuffersInv, BytesInOrder
<1>2. u \in Seq(Nat) /\ Len(u) \in Nat
  BY <1>1, UnreadIs
<1>3. n \in Nat /\ n <= Len(u)
  BY <1>2
<1>4. Given(up, n) = n
  BY <1>2, <1>3 DEF Given
<1>5. StreamType(t) /\ Unread(t) = SubSeq(u, n + 1, Len(u))
  BY <1>1, <1>3, <1>4, GetLeaves
<1> HIDE DEF u, t
<1>6. /\ (q \o SubSeq(u, 1, n)) \o SubSeq(u, n + 1, Len(u)) = q \o u
      /\ q \o SubSeq(u, 1, n) \in Seq(Nat)
  BY <1>1, <1>2, <1>3, TakingInOrder
<1>7. /\ curl' \in CurlType /\ curl'.taken = q \o SubSeq(u, 1, n)
      /\ curl'.body = curl.body /\ curl'.given = curl.given
  BY <1>1, <1>6 DEF CurlType, u
<1>8. curl'.taken \o Unread(up') = Numbers(put')
  BY <1>1, <1>5, <1>6, <1>7 DEF t
<1>9. got' \o Unread(down') = Numbers(curl'.given)
  BY <1>7 DEF BuffersInv, BytesInOrder
<1>10. BytesInOrder'
  BY <1>8, <1>9 DEF BytesInOrder
<1> QED
  BY <1>5, <1>7, <1>10 DEF BuffersInv, t

\* write_callback takes the next of the body.
LEMMA BuffersReceived ==
  ASSUME BuffersInv, NEW n \in 1..MaxWriteSize, curl.given + n <= curl.body,
         down' = PutBuffer(MadeRoom(down, n), Piece(curl.given, n)),
         curl' = [curl EXCEPT !.given = @ + n],
         UNCHANGED <<up, put, got>>
  PROVE  BuffersInv' /\ curl'.body = curl.body
<1> DEFINE r == MadeRoom(down, n)
           piece == Piece(curl.given, n)
           t == PutBuffer(r, piece)
<1>1. n \in Nat /\ MaxBody \in Nat
  BY ConstantsAreNat
<1>2. /\ StreamType(down) /\ got \in Seq(Nat) /\ got \o Unread(down) = Numbers(curl.given)
      /\ curl \in CurlType /\ curl.given \in Nat /\ curl.body \in Nat /\ curl.body <= MaxBody
  BY CurlIs DEF BuffersInv, BytesInOrder
<1>3. StreamType(r) /\ Unread(r) = Unread(down) /\ Len(r.held) + n <= r.len
  BY <1>1, <1>2, RoomIsMade
<1>4. piece \in Seq(Nat) /\ Len(piece) = n /\ Unread(down) \in Seq(Nat)
  BY <1>1, <1>2, NumbersGrow, UnreadIs
<1> HIDE DEF r, piece
<1>5. Len(r.held) + Len(piece) <= r.len /\ piece \in Seq(Nat)
  BY <1>3, <1>4
<1>6. StreamType(t) /\ Unread(t) = Unread(r) \o piece
  BY <1>3, <1>5, PutAppends
<1>7. got \o (Unread(down) \o piece) = Numbers(curl.given + n)
  BY <1>1, <1>2, <1>4, PuttingInOrder DEF piece
<1> HIDE DEF t
<1>8. curl.given + n \in 0..MaxBody
  BY <1>1, <1>2
<1>9. /\ curl' \in CurlType /\ curl'.taken = curl.taken
      /\ curl'.body = curl.body /\ curl'.given = curl.given + n
  BY <1>2, <1>8 DEF CurlType
<1>10. got' \o Unread(down') = Numbers(curl'.given)
  BY <1>3, <1>6, <1>7, <1>9 DEF t, r, piece
<1>11. curl'.taken \o Unread(up') = Numbers(put')
  BY <1>9 DEF BuffersInv, BytesInOrder
<1>12. BytesInOrder'
  BY <1>10, <1>11 DEF BytesInOrder
<1>13. StreamType(down')
  BY <1>6 DEF t, r, piece
<1>14. curl'.given <= curl'.body
  BY <1>9
<1> QED
  BY <1>9, <1>12, <1>13, <1>14 DEF BuffersInv

-----------------------------------------------------------------------------
(* Every step.                                                              *)

\* What is left to show when the buffers are.
RestInv == ControlInv /\ ClosedInv /\ LengthInv /\ WrittenIsTaken /\ EndIsEnd

\* In the middle of a call, no promise is due.
LEMMA InACall ==
  ASSUME pc' \notin {"closed", "ready"}, ControlInv',
         resp'.length = -1 \/ resp'.length = curl'.body
  PROVE  RestInv'
  BY DEF RestInv, ClosedInv, LengthInv, WrittenIsTaken, EndIsEnd

\* A call that ends otherwise than with "written" or "end" promises nothing.
LEMMA EndsWithout ==
  ASSUME IInv, NEW how, how \notin {"written", "end"}, Ends(how),
         hc' \in [fd : BOOLEAN, running : BOOLEAN, eof : BOOLEAN, paused : BOOLEAN],
         pc # "closed", UNCHANGED <<silent, resp>>, curl'.body = curl.body
  PROVE  RestInv'
  BY DEF IInv, RestInv, ControlInv, Ends, NoCall, Place, ClosedInv, LengthInv,
         WrittenIsTaken, EndIsEnd

\* What curl does for itself: headers, the end, no news.
LEMMA DrivenKeeps ==
  ASSUME IInv, SocketAdded \/ StatusLine \/ ContentLength \/ TransferEnds \/ Progress
  PROVE  IInv'
<1>1. /\ pc \notin {"closed", "ready"} /\ UNCHANGED <<up, down, put, got, pc, call, silent>>
      /\ resp.length = -1 \/ resp.length = curl.body
      /\ curl \in CurlType /\ ControlInv /\ MaxBody \in Nat /\ curl.body \in 0..MaxBody
  BY ConstantsAreNat DEF IInv, BuffersInv, LengthInv, CurlType, Driven, SocketAdded, StatusLine,
     ContentLength, TransferEnds, Progress, streamVars, callVars
<1>2. /\ curl' \in CurlType
      /\ curl'.taken = curl.taken /\ curl'.given = curl.given /\ curl'.body = curl.body
  BY <1>1 DEF CurlType, SocketAdded, StatusLine, ContentLength, TransferEnds, Progress
<1>3. BuffersInv'
  BY <1>1, <1>2, BuffersSame DEF IInv
<1>4. hc' \in [fd : BOOLEAN, running : BOOLEAN, eof : BOOLEAN, paused : BOOLEAN]
  BY <1>1 DEF ControlInv, SocketAdded, StatusLine, ContentLength, TransferEnds, Progress
<1>5. /\ resp' \in [status : Codes \cup {0}, length : -1..MaxBody]
      /\ resp'.length = -1 \/ resp'.length = curl'.body
  <2>1. curl.body \in -1..MaxBody /\ resp \in [status : Codes \cup {0}, length : -1..MaxBody]
    BY <1>1 DEF ControlInv
  <2>2. CASE StatusLine
    BY <1>1, <1>2, <2>1, <2>2 DEF StatusLine
  <2>3. CASE ContentLength
    BY <1>1, <1>2, <2>1, <2>3 DEF ContentLength
  <2>4. CASE SocketAdded \/ TransferEnds \/ Progress
    BY <1>1, <1>2, <2>1, <2>4 DEF SocketAdded, TransferEnds, Progress
  <2> QED
    BY <2>2, <2>3, <2>4
<1>6. ControlInv'
  BY <1>1, <1>4, <1>5 DEF ControlInv
<1>7. RestInv'
  BY <1>1, <1>5, <1>6, InACall
<1> QED
  BY <1>3, <1>7 DEF IInv, RestInv

\* curl hands bytes of the answer over, in their order.
LEMMA WriteCallbackKeeps ==
  ASSUME IInv, WriteCallback
  PROVE  IInv'
<1>1. PICK n \in 1..MaxWriteSize :
        /\ curl.given + n <= curl.body
        /\ down' = PutBuffer(MadeRoom(down, n), Piece(curl.given, n))
        /\ curl' = [curl EXCEPT !.given = @ + n]
  BY DEF WriteCallback, Piece
<1>2. UNCHANGED <<up, put, got, pc, call, hc, resp>> /\ silent' = 0
  BY DEF WriteCallback, callVars
<1>3. BuffersInv' /\ curl'.body = curl.body
  BY <1>1, <1>2, BuffersReceived DEF IInv
<1>4. ControlInv'
  BY <1>2, ConstantsAreNat DEF IInv, ControlInv
<1>5. /\ pc' \notin {"closed", "ready"}
      /\ resp'.length = -1 \/ resp'.length = curl'.body
  BY <1>2, <1>3 DEF WriteCallback, Driven, IInv, LengthInv
<1>6. RestInv'
  BY <1>4, <1>5, InACall
<1> QED
  BY <1>3, <1>6 DEF IInv, RestInv

\* curl takes bytes of the request, in their order.
LEMMA ReadCallbackKeeps ==
  ASSUME IInv, ReadCallback
  PROVE  IInv'
<1>1. UNCHANGED <<down, put, got, pc, call, resp>> /\ pc \notin {"closed", "ready"}
  BY DEF ReadCallback, callVars, Driven
<1>2. BuffersInv' /\ curl'.body = curl.body
  <2>1. CASE hc.fd /\ Unread(up) # <<>>
    <3>1. PICK n \in 1..Len(Unread(up)) :
            /\ up' = GetBuffer(up, n)
            /\ curl' = [curl EXCEPT !.taken = @ \o SubSeq(Unread(up), 1, n)]
      BY <2>1 DEF ReadCallback
    <3> QED
      BY <1>1, <3>1, BuffersSent DEF IInv
  <2>2. CASE ~ (hc.fd /\ Unread(up) # <<>>)
    <3>1. /\ up' = up
          /\ \/ curl' = [curl EXCEPT !.uploaded = TRUE]
             \/ curl' = [curl EXCEPT !.paused = TRUE]
      BY <2>2 DEF ReadCallback
    <3>2. curl \in CurlType
      BY DEF IInv, BuffersInv
    <3>3. /\ curl' \in CurlType
          /\ curl'.taken = curl.taken /\ curl'.given = curl.given /\ curl'.body = curl.body
      BY <3>1, <3>2 DEF CurlType
    <3> QED
      BY <1>1, <3>1, <3>3, BuffersSame DEF IInv
  <2> QED
    BY <2>1, <2>2
<1>3. ControlInv'
  <2>1. hc' = hc \/ hc' = [hc EXCEPT !.paused = TRUE]
    BY DEF ReadCallback
  <2>2. silent' = silent \/ silent' = 0
    BY DEF ReadCallback
  <2>3. hc' \in [fd : BOOLEAN, running : BOOLEAN, eof : BOOLEAN, paused : BOOLEAN]
    BY <2>1 DEF IInv, ControlInv
  <2>4. silent' \in 0..(SocketTimeout + 1)
    BY <2>2, ConstantsAreNat DEF IInv, ControlInv
  <2> QED
    BY <1>1, <2>3, <2>4 DEF IInv, ControlInv
<1>4. resp'.length = -1 \/ resp'.length = curl'.body
  BY <1>1, <1>2 DEF IInv, LengthInv
<1>5. RestInv'
  BY <1>1, <1>3, <1>4, InACall
<1> QED
  BY <1>2, <1>5 DEF IInv, RestInv

\* A fresh transfer.
LEMMA FreshCurl ==
  ASSUME BuffersInv, NEW c, c \in Transfers \/ c \in Idle
  PROVE  c \in CurlType /\ c.taken = <<>> /\ c.given = 0
<1>1. <<>> \in Seq(Nat) /\ 0 \in 0..MaxBody
  BY EmptySeq, ConstantsAreNat
<1>2. curl.uploads \in BOOLEAN
  BY DEF BuffersInv, CurlType
<1> QED
  BY <1>1, <1>2 DEF CurlType, Transfers, Idle

\* Open starts a transfer with empty streams.
LEMMA OpenKeeps ==
  ASSUME IInv, Open
  PROVE  IInv'
<1>1. /\ pc = "closed" /\ pc' = "opening" /\ curl' \in Transfers /\ call' = NoCall
      /\ resp' = [status |-> 0, length |-> -1]
      /\ hc' = [hc EXCEPT !.running = TRUE]
      /\ UNCHANGED <<silent, up, down, put, got>>
  BY DEF Open, Opening, streamVars
<1>2. /\ StreamType(up) /\ StreamType(down)
      /\ put = 0 /\ got = <<>> /\ Unread(up) = <<>> /\ Unread(down) = <<>>
  BY <1>1 DEF IInv, BuffersInv, ClosedInv
<1>3. curl' \in CurlType /\ curl'.taken = <<>> /\ curl'.given = 0
  BY <1>1, FreshCurl DEF IInv
<1>4. BuffersInv'
  BY <1>1, <1>2, <1>3, BuffersFresh
<1>5. hc' \in [fd : BOOLEAN, running : BOOLEAN, eof : BOOLEAN, paused : BOOLEAN]
  BY <1>1 DEF IInv, ControlInv
<1>6. ControlInv'
  BY <1>1, <1>5, ConstantsAreNat DEF IInv, ControlInv, NoCall, Place
<1>7. RestInv'
  BY <1>1, <1>6, InACall
<1> QED
  BY <1>4, <1>7 DEF IInv, RestInv

\* CloseRequest leaves both streams empty.
LEMMA ClosedFresh ==
  ASSUME BuffersInv, Closed
  PROVE  /\ StreamType(up') /\ StreamType(down')
         /\ put' = 0 /\ got' = <<>> /\ Unread(up') = <<>> /\ Unread(down') = <<>>
  BY ClearedIsEmpty DEF BuffersInv, Closed

\* Close gives the transfer up.
LEMMA CloseKeeps ==
  ASSUME IInv, Close
  PROVE  IInv'
<1>1. /\ pc' = "closed" /\ curl' \in Idle /\ call' = NoCall /\ result' = "none"
      /\ hc' = [hc EXCEPT !.eof = FALSE, !.running = FALSE, !.fd = FALSE]
      /\ UNCHANGED <<silent, resp>> /\ Closed
  BY DEF Close
<1>2. /\ StreamType(up') /\ StreamType(down')
      /\ put' = 0 /\ got' = <<>> /\ Unread(up') = <<>> /\ Unread(down') = <<>>
  BY <1>1, ClosedFresh DEF IInv
<1>3. curl' \in CurlType /\ curl'.taken = <<>> /\ curl'.given = 0
  BY <1>1, FreshCurl DEF IInv
<1>4. BuffersInv'
  BY <1>2, <1>3, BuffersFresh
<1>5. hc' \in [fd : BOOLEAN, running : BOOLEAN, eof : BOOLEAN, paused : BOOLEAN]
  BY <1>1 DEF IInv, ControlInv
<1>6. ControlInv'
  BY <1>1, <1>5 DEF IInv, ControlInv, NoCall, Place
<1>7. ClosedInv' /\ LengthInv' /\ WrittenIsTaken' /\ EndIsEnd'
  BY <1>1, <1>2 DEF ClosedInv, LengthInv, WrittenIsTaken, EndIsEnd
<1> QED
  BY <1>4, <1>6, <1>7 DEF IInv

\* A failed Open tries again, with a new transfer.
LEMMA RetryLaterKeeps ==
  ASSUME IInv, RetryLater
  PROVE  IInv'
<1>1. /\ pc' = "opening" /\ curl' \in Transfers
      /\ resp' = [status |-> 0, length |-> -1]
      /\ hc' = [hc EXCEPT !.eof = FALSE, !.running = TRUE, !.fd = FALSE]
      /\ call' = [call EXCEPT !.retries = @ + 1] /\ Closed
  BY DEF RetryLater, Opening
<1>2. /\ StreamType(up') /\ StreamType(down')
      /\ put' = 0 /\ got' = <<>> /\ Unread(up') = <<>> /\ Unread(down') = <<>>
  BY <1>1, ClosedFresh DEF IInv
<1>3. curl' \in CurlType /\ curl'.taken = <<>> /\ curl'.given = 0
  BY <1>1, FreshCurl DEF IInv
<1>4. BuffersInv'
  BY <1>2, <1>3, BuffersFresh
<1>5. hc' \in [fd : BOOLEAN, running : BOOLEAN, eof : BOOLEAN, paused : BOOLEAN]
  BY <1>1 DEF IInv, ControlInv
<1>6. call' \in [size : Nat, drained : Nat, retries : Nat]
  BY <1>1 DEF IInv, ControlInv
<1>7. silent' \in 0..(SocketTimeout + 1)
  <2>1. silent' \in 0..SocketTimeout \/ silent' = SocketTimeout + 1
    BY DEF RetryLater
  <2> QED
    BY <2>1, ConstantsAreNat
<1>8. ControlInv'
  BY <1>1, <1>5, <1>6, <1>7, ConstantsAreNat DEF ControlInv, Place
<1>9. RestInv'
  BY <1>1, <1>8, InACall
<1> QED
  BY <1>4, <1>9 DEF IInv, RestInv

\* Steps that only change where the thread is.
LEMMA TurnKeeps ==
  ASSUME IInv, OpenReturns \/ OpenThrows \/ IsSuccessful \/ WaitResponse \/ DrainedThrows \/ ReadBody
  PROVE  IInv'
<1>1. UNCHANGED <<silent, up, down, resp, curl, put, got>> /\ pc # "closed"
  BY DEF OpenReturns, OpenThrows, IsSuccessful, WaitResponse, DrainedThrows, ReadBody, streamVars
<1>2. BuffersInv'
  BY <1>1, BuffersSame DEF IInv, BuffersInv
<1>3. hc' = hc \/ hc' = [hc EXCEPT !.eof = TRUE]
  BY DEF OpenReturns, OpenThrows, IsSuccessful, WaitResponse, DrainedThrows, ReadBody
<1>4. hc' \in [fd : BOOLEAN, running : BOOLEAN, eof : BOOLEAN, paused : BOOLEAN]
  BY <1>3 DEF IInv, ControlInv
<1>5. \/ \E how \in {"opened", "exception", "success", "failure"} : Ends(how)
      \/ pc' \in {"waiting", "reading"} /\ call' \in [size : Nat, drained : Nat, retries : Nat]
  <2>1. CASE OpenReturns
    BY <2>1 DEF OpenReturns, IInv, ControlInv
  <2>2. CASE OpenThrows \/ DrainedThrows
    BY <2>2 DEF OpenThrows, DrainedThrows
  <2>3. CASE IsSuccessful
    BY <2>3 DEF IsSuccessful, NoCall
  <2>4. CASE WaitResponse
    BY <2>4 DEF WaitResponse
  <2>5. CASE ReadBody
    <3>1. PICK n \in 1..MaxBody : call' = [NoCall EXCEPT !.size = n]
      BY <2>5 DEF ReadBody
    <3>2. n \in Nat
      BY ConstantsAreNat
    <3> QED
      BY <2>5, <3>1, <3>2 DEF ReadBody, NoCall
  <2> QED
    BY <2>1, <2>2, <2>3, <2>4, <2>5
<1>6. CASE \E how \in {"opened", "exception", "success", "failure"} : Ends(how)
  <2>1. PICK how \in {"opened", "exception", "success", "failure"} : Ends(how)
    BY <1>6
  <2>2. how \notin {"written", "end"}
    OBVIOUS
  <2>3. RestInv'
    BY <1>1, <1>4, <2>1, <2>2, EndsWithout
  <2> QED
    BY <1>2, <2>3 DEF IInv, RestInv
<1>7. CASE pc' \in {"waiting", "reading"} /\ call' \in [size : Nat, drained : Nat, retries : Nat]
  <2>1. ControlInv'
    BY <1>1, <1>4, <1>7 DEF IInv, ControlInv, Place
  <2>2. resp'.length = -1 \/ resp'.length = curl'.body
    BY <1>1 DEF IInv, LengthInv
  <2>3. RestInv'
    BY <1>7, <2>1, <2>2, InACall
  <2> QED
    BY <1>2, <2>3 DEF IInv, RestInv
<1> QED
  BY <1>5, <1>6, <1>7

\* A piece is put, at the start of a Write or later.
LEMMA PieceKeeps ==
  ASSUME IInv, pc # "closed", NEW size \in Nat, put + size <= MaxBody, PutPiece(size, up),
         UNCHANGED <<hc, silent, down, resp, curl, got>>
  PROVE  IInv'
<1>1. call \in [size : Nat, drained : Nat, retries : Nat]
  BY DEF IInv, ControlInv
<1>2. /\ BuffersInv'
      /\ call' \in [size : Nat, drained : Nat, retries : Nat]
      /\ \/ pc' = "ready" /\ result' = "exception"
         \/ pc' = "writing" /\ result' = result /\ put' + call'.size <= MaxBody
  BY <1>1, BuffersPut DEF IInv
<1>3. ControlInv'
  BY <1>2 DEF IInv, ControlInv, Place
<1>4. LengthInv' /\ ClosedInv' /\ WrittenIsTaken' /\ EndIsEnd'
  BY <1>2 DEF IInv, LengthInv, ClosedInv, WrittenIsTaken, EndIsEnd
<1> QED
  BY <1>2, <1>3, <1>4 DEF IInv

\* Write puts bytes behind those that wait.
LEMMA WriteKeeps ==
  ASSUME IInv, Write
  PROVE  IInv'
<1>1. PICK size \in 1..(MaxBody - put) : PutPiece(size, up)
  BY DEF Write
<1>2. put \in Nat /\ MaxBody \in Nat
  BY ConstantsAreNat DEF IInv, BuffersInv
<1>3. size \in Nat /\ put + size <= MaxBody
  BY <1>2
<1>4. UNCHANGED <<hc, silent, down, resp, curl, got>> /\ pc # "closed"
  BY DEF Write
<1> QED
  BY <1>1, <1>3, <1>4, PieceKeeps

\* Write waits until curl has taken what was put, or there is an answer.
LEMMA WriteDrivenKeeps ==
  ASSUME IInv, WriteDriven
  PROVE  IInv'
<1>1. pc = "writing" /\ UNCHANGED <<hc, silent, down, resp, curl, got>>
  BY DEF WriteDriven
<1>2. CASE ~ hc.eof /\ resp.status # 0
  <2>1. pc' = "draining" /\ call' = NoCall /\ UNCHANGED <<up, put>>
    BY <1>2 DEF WriteDriven
  <2>2. BuffersInv'
    BY <1>1, <2>1, BuffersSame DEF IInv, BuffersInv
  <2>3. ControlInv'
    BY <1>1, <2>1 DEF IInv, ControlInv, NoCall, Place
  <2>4. resp'.length = -1 \/ resp'.length = curl'.body
    BY <1>1 DEF IInv, LengthInv
  <2>5. RestInv'
    BY <2>1, <2>3, <2>4, InACall
  <2> QED
    BY <2>2, <2>5 DEF IInv, RestInv
<1>3. CASE ~ (~ hc.eof /\ resp.status # 0) /\ Unread(up) # <<>>
  <2>1. Ends("exception") /\ UNCHANGED <<up, put>>
    BY <1>3 DEF WriteDriven
  <2>2. BuffersInv'
    BY <1>1, <2>1, BuffersSame DEF IInv, BuffersInv
  <2>3. hc' \in [fd : BOOLEAN, running : BOOLEAN, eof : BOOLEAN, paused : BOOLEAN]
    BY <1>1 DEF IInv, ControlInv
  <2>4. "exception" \notin {"written", "end"}
    OBVIOUS
  <2>5. RestInv'
    BY <1>1, <2>1, <2>3, <2>4, EndsWithout
  <2> QED
    BY <2>2, <2>5 DEF IInv, RestInv
<1>4. CASE ~ (~ hc.eof /\ resp.status # 0) /\ ~ (Unread(up) # <<>>) /\ call.size > 0
  <2>1. PutPiece(call.size, up)
    BY <1>4 DEF WriteDriven
  <2>2. call.size \in Nat /\ put + call.size <= MaxBody
    BY <1>1 DEF IInv, ControlInv
  <2> QED
    BY <1>1, <2>1, <2>2, PieceKeeps
<1>5. CASE ~ (~ hc.eof /\ resp.status # 0) /\ ~ (Unread(up) # <<>>) /\ ~ (call.size > 0)
  <2>1. Ends("written") /\ UNCHANGED <<up, put>>
    BY <1>5 DEF WriteDriven
  <2>2. BuffersInv'
    BY <1>1, <2>1, BuffersSame DEF IInv, BuffersInv
  <2>3. curl.taken = Numbers(put)
    <3>1. curl.taken \o <<>> = Numbers(put) /\ curl.taken \in Seq(Nat)
      BY <1>5, CurlIs DEF IInv, BuffersInv, BytesInOrder
    <3> QED
      BY <3>1, ConcatEmptySeq
  <2>4. ControlInv'
    BY <1>1, <2>1 DEF IInv, ControlInv, Ends, NoCall, Place
  <2>5. LengthInv' /\ ClosedInv' /\ EndIsEnd'
    BY <1>1, <2>1 DEF IInv, LengthInv, ClosedInv, EndIsEnd, Ends
  <2>6. WrittenIsTaken'
    BY <1>1, <1>5, <2>1, <2>3 DEF WrittenIsTaken
  <2> QED
    BY <2>2, <2>4, <2>5, <2>6 DEF IInv
<1> QED
  BY <1>2, <1>3, <1>4, <1>5

\* GetResponse reads what is left of the answer, and forgets it.
LEMMA DrainKeeps ==
  ASSUME IInv, Drain
  PROVE  IInv'
<1>1. /\ pc = "draining" /\ TakeBody(DrainSize) /\ hc' = [hc EXCEPT !.eof = TRUE]
      /\ call' = [call EXCEPT !.drained = @ + Given(down, DrainSize)]
      /\ UNCHANGED <<silent, up, resp, curl, pc, put, result>>
  BY DEF Drain
<1>2. BuffersInv' /\ Given(down, DrainSize) \in Nat
  <2>1. DrainSize \in Nat
    BY ConstantsAreNat
  <2> QED
    BY <1>1, <2>1, BuffersTake DEF IInv
<1>3. hc' \in [fd : BOOLEAN, running : BOOLEAN, eof : BOOLEAN, paused : BOOLEAN]
  BY <1>1 DEF IInv, ControlInv
<1>4. call' \in [size : Nat, drained : Nat, retries : Nat]
  <2>1. call \in [size : Nat, drained : Nat, retries : Nat]
    BY DEF IInv, ControlInv
  <2>2. call.drained + Given(down, DrainSize) \in Nat
    BY <1>2, <2>1
  <2> QED
    BY <1>1, <2>1, <2>2
<1>5. ControlInv'
  BY <1>1, <1>3, <1>4 DEF IInv, ControlInv
<1>6. resp'.length = -1 \/ resp'.length = curl'.body
  BY <1>1 DEF IInv, LengthInv
<1>7. RestInv'
  BY <1>1, <1>5, <1>6, InACall
<1> QED
  BY <1>2, <1>7 DEF IInv, RestInv

\* Read takes the next bytes of the answer.
LEMMA ReadReturnsKeeps ==
  ASSUME IInv, ReadReturns
  PROVE  IInv'
<1>1. /\ pc = "reading" /\ TakeBody(call.size) /\ Ends("data")
      /\ UNCHANGED <<hc, silent, up, resp, curl, put>>
  BY DEF ReadReturns
<1>2. BuffersInv'
  <2>1. call.size \in Nat
    BY DEF IInv, ControlInv
  <2> QED
    BY <1>1, <2>1, BuffersTake DEF IInv
<1>3. hc' \in [fd : BOOLEAN, running : BOOLEAN, eof : BOOLEAN, paused : BOOLEAN]
  BY <1>1 DEF IInv, ControlInv
<1>4. "data" \notin {"written", "end"}
  OBVIOUS
<1>5. RestInv'
  BY <1>1, <1>3, <1>4, EndsWithout
<1> QED
  BY <1>2, <1>5 DEF IInv, RestInv

\* Read tells the end only when nothing is left.
LEMMA ReadReturnsNothingKeeps ==
  ASSUME IInv, ReadReturnsNothing
  PROVE  IInv'
<1>1. /\ pc = "reading" /\ Ends("end") /\ Unread(down) = <<>>
      /\ resp.length = 0 \/ Over(hc)
      /\ UNCHANGED <<hc, silent, up, down, resp, curl, put, got>>
  BY DEF ReadReturnsNothing, NothingComes, streamVars
<1>2. BuffersInv'
  BY <1>1, BuffersSame DEF IInv, BuffersInv
<1>3. got = Numbers(curl.given)
  <2>1. got \o <<>> = Numbers(curl.given) /\ got \in Seq(Nat)
    BY <1>1 DEF IInv, BuffersInv, BytesInOrder
  <2> QED
    BY <2>1, ConcatEmptySeq
<1>4. Over(hc) \/ curl.given = curl.body
  <2>1. ASSUME resp.length = 0 PROVE curl.given = curl.body
    <3>1. curl.body = 0
      BY <1>1, <2>1 DEF IInv, LengthInv
    <3>2. curl.given \in Nat /\ curl.given <= curl.body
      BY CurlIs DEF IInv, BuffersInv
    <3> QED
      BY <3>1, <3>2
  <2> QED
    BY <1>1, <2>1
<1>5. ControlInv'
  BY <1>1 DEF IInv, ControlInv, Ends, NoCall, Place
<1>6. LengthInv' /\ ClosedInv' /\ WrittenIsTaken'
  BY <1>1 DEF IInv, LengthInv, ClosedInv, WrittenIsTaken, Ends
<1>7. EndIsEnd'
  BY <1>1, <1>3, <1>4 DEF EndIsEnd, Over
<1> QED
  BY <1>2, <1>5, <1>6, <1>7 DEF IInv

\* Time passes without news.
LEMMA TickKeeps ==
  ASSUME IInv, Tick
  PROVE  IInv'
<1>1. /\ UNCHANGED <<hc, up, down, resp, curl, pc, call, put, got, result>>
      /\ silent <= SocketTimeout /\ silent' = silent + 1
  BY DEF Tick, streamVars, callVars
<1>2. silent' \in 0..(SocketTimeout + 1)
  BY <1>1, ConstantsAreNat DEF IInv, ControlInv
<1>3. BuffersInv'
  BY <1>1, BuffersSame DEF IInv, BuffersInv
<1>4. ControlInv'
  BY <1>1, <1>2 DEF IInv, ControlInv
<1>5. LengthInv' /\ ClosedInv' /\ WrittenIsTaken' /\ EndIsEnd'
  BY <1>1 DEF IInv, LengthInv, ClosedInv, WrittenIsTaken, EndIsEnd, Over
<1> QED
  BY <1>3, <1>4, <1>5 DEF IInv

\* Nothing happens.
LEMMA StutterKeeps ==
  ASSUME IInv, UNCHANGED vars
  PROVE  IInv'
<1>1. UNCHANGED <<hc, silent, up, down, resp, curl, pc, call, put, got, result>>
  BY DEF vars, streamVars, callVars
<1>2. BuffersInv'
  BY <1>1, BuffersSame DEF IInv, BuffersInv
<1>3. ControlInv'
  BY <1>1 DEF IInv, ControlInv
<1>4. LengthInv' /\ ClosedInv' /\ WrittenIsTaken' /\ EndIsEnd'
  BY <1>1 DEF IInv, LengthInv, ClosedInv, WrittenIsTaken, EndIsEnd, Over
<1> QED
  BY <1>2, <1>3, <1>4 DEF IInv

-----------------------------------------------------------------------------
(* The theorems.                                                            *)

\* A new MemoryStream is empty.
LEMMA EmptyStream ==
  ASSUME NEW n \in Nat
  PROVE  StreamType(Stream(n)) /\ Unread(Stream(n)) = <<>>
<1> DEFINE t == Stream(n)
<1>1. t.held = <<>> /\ t.pos = 0 /\ t.len = n
  BY DEF Stream
<1>2. <<>> \in Seq(Nat) /\ Len(<<>>) = 0
  BY EmptySeq
<1>3. t \in [held : Seq(Nat), pos : Nat, len : Nat]
  BY <1>2 DEF Stream
<1> HIDE DEF t
<1>4. StreamType(t)
  BY <1>1, <1>2, <1>3 DEF StreamType, WithinBuffer
<1>5. Unread(t) = <<>>
  BY <1>1, SubSeqEmpty DEF Unread
<1> QED
  BY <1>4, <1>5 DEF t

\* A connection that was not opened satisfies the invariant.
LEMMA InitIInv == Init => IInv
<1> SUFFICES ASSUME Init
             PROVE  IInv
  OBVIOUS
<1> DEFINE m == IF BufferSize < MaxWriteSize THEN MaxWriteSize ELSE BufferSize
<1>1. m \in Nat /\ BufferSize \in Nat
  BY ConstantsAreNat
<1>2. up = Stream(BufferSize) /\ down = Stream(m)
  BY DEF Init
<1> HIDE DEF m
<1>3. StreamType(up) /\ Unread(up) = <<>> /\ StreamType(down) /\ Unread(down) = <<>>
  BY <1>1, <1>2, EmptyStream
<1>4. put = 0 /\ got = <<>> /\ curl \in Idle /\ pc = "closed" /\ result = "none"
  BY DEF Init
<1>5. /\ curl \in CurlType /\ curl.taken = <<>> /\ curl.given = 0
      /\ curl.given <= curl.body /\ put \in 0..MaxBody /\ got \in Seq(Nat)
  <2>1. <<>> \in Seq(Nat) /\ 0 \in 0..MaxBody
    BY EmptySeq, ConstantsAreNat
  <2>2. curl \in CurlType /\ curl.taken = <<>> /\ curl.given = 0
    BY <1>4, <2>1 DEF CurlType, Idle
  <2>3. curl.body = 0
    BY <1>4 DEF Idle
  <2> QED
    BY <1>4, <2>1, <2>2, <2>3
<1>6. BytesInOrder
  <2>1. <<>> \o <<>> = Numbers(0)
    BY NoNumbers, ConcatEmptySeq
  <2> QED
    BY <1>3, <1>4, <1>5, <2>1 DEF BytesInOrder
<1>7. ControlInv
  BY ConstantsAreNat DEF Init, ControlInv, Place, NoCall
<1> QED
  BY <1>3, <1>4, <1>5, <1>6, <1>7
     DEF IInv, BuffersInv, ClosedInv, LengthInv, WrittenIsTaken, EndIsEnd

\* Every call, callback and tick keeps the invariant.
LEMMA StepKeeps == IInv /\ [Next]_vars => IInv'
<1> SUFFICES ASSUME IInv, [Next]_vars
             PROVE  IInv'
  OBVIOUS
<1>1. CASE SocketAdded \/ StatusLine \/ ContentLength \/ TransferEnds \/ Progress
  BY <1>1, DrivenKeeps
<1>2. CASE WriteCallback
  BY <1>2, WriteCallbackKeeps
<1>3. CASE ReadCallback
  BY <1>3, ReadCallbackKeeps
<1>4. CASE Open
  BY <1>4, OpenKeeps
<1>5. CASE Close
  BY <1>5, CloseKeeps
<1>6. CASE RetryLater
  BY <1>6, RetryLaterKeeps
<1>7. CASE OpenReturns \/ OpenThrows \/ IsSuccessful \/ WaitResponse \/ DrainedThrows \/ ReadBody
  BY <1>7, TurnKeeps
<1>8. CASE Write
  BY <1>8, WriteKeeps
<1>9. CASE WriteDriven
  BY <1>9, WriteDrivenKeeps
<1>10. CASE Drain
  BY <1>10, DrainKeeps
<1>11. CASE ReadReturns
  BY <1>11, ReadReturnsKeeps
<1>12. CASE ReadReturnsNothing
  BY <1>12, ReadReturnsNothingKeeps
<1>13. CASE Tick
  BY <1>13, TickKeeps
<1>14. CASE UNCHANGED vars
  BY <1>14, StutterKeeps
<1> QED
  BY <1>1, <1>2, <1>3, <1>4, <1>5, <1>6, <1>7, <1>8, <1>9, <1>10, <1>11, <1>12, <1>13, <1>14
     DEF Next, Callback, LoopStep

\* The inductive invariant of a connection: its buffers hold exactly what is
\* under way, whatever curl and the service do.
THEOREM Invariance == Spec => []IInv
<1>1. Init => IInv
  BY InitIInv
<1>2. IInv /\ [Next]_vars => IInv'
  BY StepKeeps
<1> QED
  BY <1>1, <1>2, PTL DEF Spec

\* No buffer of a connection is ever written beyond its memory, for any sizes of
\* the buffers, of the pieces of Write and of what curl hands over at once.
THEOREM TypeCorrect == Spec => []TypeOK
<1>1. IInv => TypeOK
  <2> SUFFICES ASSUME IInv
               PROVE  TypeOK
    OBVIOUS
  <2>1. ControlInv /\ put \in 0..MaxBody /\ WithinBuffer(up) /\ WithinBuffer(down)
    BY DEF IInv, BuffersInv, StreamType
  <2>2. resp.status \in Codes \cup {0} /\ resp.length \in -1..MaxBody
    BY <2>1 DEF ControlInv
  <2> QED
    BY <2>1, <2>2 DEF ControlInv, TypeOK
<1> QED
  BY <1>1, Invariance, PTL

\* Write and read_callback, write_callback and Read pass the bytes on in order,
\* each exactly once, also across the reuse and the growth of a buffer.
THEOREM PassesBytesInOrder == Spec => []BytesInOrder
<1>1. IInv => BytesInOrder
  BY DEF IInv, BuffersInv
<1> QED
  BY <1>1, Invariance, PTL

\* When Write returns without an exception, curl has taken everything and no
\* early answer has been passed over.
THEOREM WriteHandsOver == Spec => []WrittenIsTaken
<1>1. IInv => WrittenIsTaken
  BY DEF IInv
<1> QED
  BY <1>1, Invariance, PTL

\* Read returns 0 bytes only at the end of the body or of the transfer, with
\* nothing left in the buffer.
THEOREM EndOfBodyIsTrue == Spec => []EndIsEnd
<1>1. IInv => EndIsEnd
  BY DEF IInv
<1> QED
  BY <1>1, Invariance, PTL
=============================================================================
