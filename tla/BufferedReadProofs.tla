-------------------------- MODULE BufferedReadProofs --------------------------
(***************************************************************************)
(* What the buffered readers return, for a download of any length, any limit *)
(* of a request, any number of retries and of faults.                       *)
(***************************************************************************)
EXTENDS BufferedRead, TLAPS

\* The variables have their types, and the range is one of the download.
TypeInv ==
  /\ TypeOK
  /\ opened \in [start : 0..Total, count : 0..(Total + 1), limit : BufferCounts]

\* What is requested and what is left make up the range.
PositionInv ==
  /\ opened.start <= mStart
  /\ mStart + mCount = opened.start + opened.count

\* A record that has been requested.
Requested(r) == opened.start <= r /\ r < mStart /\ r < Total

Increasing(s) == \A i, j \in 1..Len(s) : i < j => s[i] < s[j]

\* What was returned comes before what is in the buffer.
OrderInv ==
  /\ Increasing(read) /\ Increasing(mRecordBuffer)
  /\ \A i \in 1..Len(read) : Requested(read[i])
  /\ \A i \in 1..Len(mRecordBuffer) : Requested(mRecordBuffer[i])
  /\ \A i \in 1..Len(read), j \in 1..Len(mRecordBuffer) : read[i] < mRecordBuffer[j]

\* A reader of batches has returned just what it has advanced by.
BatchInv ==
  format = "arrow" =>
    /\ mRecordBuffer = <<>>
    /\ mStart <= Total
    /\ Len(read) = mStart - opened.start
    /\ \A i \in 1..Len(read) : read[i] = opened.start + i - 1

\* A record that was requested is returned, in the buffer or broken.
CoverInv ==
  \A r \in Nat : Requested(r) => r \in ToSet(read) \cup ToSet(mRecordBuffer) \cup broken

\* A caller that has come to the end calls no more.  A record reader has then
\* requested all of the range; a reader of batches that stops before the end of
\* the range, or of the download, stops at a record of a broken answer.
EndInv ==
  result = "end" =>
    /\ attempt = 0
    /\ IF format = "record"
       THEN \A r \in Nat :
              opened.start <= r /\ r < opened.start + opened.count /\ r < Total
                => r \in ToSet(read) \cup broken
       ELSE mCount > 0 /\ mStart < Total => mStart \in broken

\* What the three sequences are to each other.
DataInv == PositionInv /\ OrderInv /\ BatchInv /\ CoverInv

IInv == TypeInv /\ DataInv /\ EndInv

-----------------------------------------------------------------------------
(* Lemmas.                                                                  *)

\* The bounds are numbers.
LEMMA ConstantsAreNat == Total \in Nat /\ RetryTimes \in Nat /\ MaxFaults \in Nat
                          /\ BufferCounts \subseteq Nat
  BY BufferedReadAssumption

\* What a reader is opened for.
LEMMA OpenedAreNat ==
  ASSUME opened \in [start : 0..Total, count : 0..(Total + 1), limit : BufferCounts]
  PROVE  opened.start \in Nat /\ opened.count \in Nat /\ opened.limit \in Nat
<1>1. opened.limit \in BufferCounts /\ opened.start \in 0..Total /\ opened.count \in 0..(Total + 1)
  OBVIOUS
<1>2. opened.limit \in Nat
  BY <1>1, ConstantsAreNat
<1> QED
  BY <1>1, <1>2, ConstantsAreNat

\* The place of a record in what was read from the start of the range on.
LEMMA PlaceOf ==
  ASSUME opened.start \in Nat, mStart \in Nat, Len(read) \in Nat, NEW j \in Nat,
         Len(read) = mStart - opened.start
  PROVE  opened.start + (Len(read) + j) - 1 = mStart + j - 1
  OBVIOUS

\* The elements of a sequence are those at its places.
LEMMA InToSet ==
  ASSUME NEW s \in Seq(Nat), NEW r
  PROVE  r \in ToSet(s) <=> \E i \in 1..Len(s) : s[i] = r
<1>1. DOMAIN s = 1..Len(s)
  OBVIOUS
<1> QED
  BY <1>1 DEF ToSet

\* What the service sends: the records from the first on, as many as there are.
LEMMA ServedIs ==
  ASSUME NEW from \in Nat, NEW n \in Nat
  PROVE  /\ Served(from, n) \in Seq(Nat)
         /\ Len(Served(from, n)) = IF from >= Total THEN 0 ELSE Lesser(n, Total - from)
         /\ \A i \in 1..Len(Served(from, n)) : Served(from, n)[i] = from + i - 1
<1>0. Total \in Nat
  BY ConstantsAreNat
<1>1. CASE from >= Total
  BY <1>1 DEF Served
<1>2. CASE ~ (from >= Total)
  <2> DEFINE m == Lesser(n, Total - from)
             f == [i \in 1..m |-> from + i - 1]
  <2>1. m \in Nat
    BY <1>0, <1>2 DEF Lesser
  <2> HIDE DEF m
  <2>2. \A i \in 1..m : from + i - 1 \in Nat
    BY <2>1
  <2>3. f \in Seq(Nat) /\ Len(f) = m
    BY <2>1, <2>2
  <2>4. \A i \in 1..Len(f) : f[i] = from + i - 1
    BY <2>1, <2>3
  <2>5. Served(from, n) = f
    BY <1>2 DEF Served, m
  <2> QED
    BY <1>2, <2>3, <2>4, <2>5 DEF m
<1> QED
  BY <1>1, <1>2

\* The same as a set.
LEMMA ServedSet ==
  ASSUME NEW from \in Nat, NEW n \in Nat, NEW r \in Nat
  PROVE  r \in ToSet(Served(from, n)) <=> from <= r /\ r < from + n /\ r < Total
<1> DEFINE s == Served(from, n)
<1>1. /\ s \in Seq(Nat)
      /\ Len(s) = IF from >= Total THEN 0 ELSE Lesser(n, Total - from)
      /\ \A i \in 1..Len(s) : s[i] = from + i - 1
  BY ServedIs
<1>2. Total \in Nat
  BY ConstantsAreNat
<1> HIDE DEF s
<1>3. ASSUME NEW i \in 1..Len(s), s[i] = r PROVE from <= r /\ r < from + n /\ r < Total
  BY <1>1, <1>2, <1>3 DEF Lesser
<1>4. ASSUME from <= r, r < from + n, r < Total PROVE \E i \in 1..Len(s) : s[i] = r
  <2>1. r - from + 1 \in 1..Len(s)
    <3>1. Len(s) = Lesser(n, Total - from)
      BY <1>1, <1>2, <1>4
    <3>2. CASE n < Total - from
      BY <3>1, <3>2, <1>4 DEF Lesser
    <3>3. CASE ~ (n < Total - from)
      BY <3>1, <3>3, <1>2, <1>4 DEF Lesser
    <3> QED
      BY <3>2, <3>3
  <2>2. s[r - from + 1] = r
    BY <1>1, <2>1
  <2> QED
    BY <2>1, <2>2
<1> QED
  BY <1>1, <1>3, <1>4, InToSet DEF s

\* No more than was asked for.
LEMMA ServedBounded ==
  ASSUME NEW from \in Nat, NEW n \in Nat
  PROVE  /\ Served(from, n) \in Seq(Nat) /\ Len(Served(from, n)) \in 0..n
         /\ ToSet(Served(from, n)) \subseteq Nat
<1> DEFINE s == Served(from, n)
<1>1. /\ s \in Seq(Nat)
      /\ Len(s) = IF from >= Total THEN 0 ELSE Lesser(n, Total - from)
  BY ServedIs
<1> HIDE DEF s
<1>2. Len(s) \in 0..n
  BY <1>1, ConstantsAreNat DEF Lesser
<1>3. ASSUME NEW r \in ToSet(s) PROVE r \in Nat
  <2>1. PICK i \in 1..Len(s) : s[i] = r
    BY <1>1, InToSet
  <2> QED
    BY <2>1, <1>1
<1> QED
  BY <1>1, <1>2, <1>3 DEF s

\* A sequence cut in two has the elements that it had.
LEMMA CutKeepsSet ==
  ASSUME NEW s \in Seq(Nat), NEW n \in 0..Len(s)
  PROVE  /\ SubSeq(s, 1, n) \in Seq(Nat) /\ Len(SubSeq(s, 1, n)) = n
         /\ \A i \in 1..n : SubSeq(s, 1, n)[i] = s[i]
         /\ ToSet(s) = ToSet(SubSeq(s, 1, n)) \cup ToSet(SubSeq(s, n + 1, Len(s)))
<1> DEFINE a == SubSeq(s, 1, n)
           b == SubSeq(s, n + 1, Len(s))
<1>1. a \in Seq(Nat) /\ Len(a) = n /\ \A i \in 1..n : a[i] = s[i]
  OBVIOUS
<1>2. b \in Seq(Nat) /\ Len(b) = Len(s) - n /\ \A i \in 1..(Len(s) - n) : b[i] = s[n + i]
  OBVIOUS
<1> HIDE DEF a, b
<1>3. Len(s) \in Nat /\ n \in Nat /\ n <= Len(s)
  OBVIOUS
<1>4. ASSUME NEW i \in 1..Len(s)
      PROVE  \/ \E j \in 1..Len(a) : a[j] = s[i]
             \/ \E j \in 1..Len(b) : b[j] = s[i]
  <2>1. CASE i <= n
    <3>1. i \in 1..Len(a) /\ a[i] = s[i]
      BY <2>1, <1>1, <1>3
    <3> QED
      BY <3>1
  <2>2. CASE ~ (i <= n)
    <3>1. i - n \in 1..Len(b) /\ b[i - n] = s[i]
      BY <2>2, <1>2, <1>3
    <3> QED
      BY <3>1
  <2> QED
    BY <2>1, <2>2
<1>5. ASSUME NEW j \in 1..Len(a) PROVE \E i \in 1..Len(s) : s[i] = a[j]
  <2>1. j \in 1..Len(s) /\ s[j] = a[j]
    BY <1>1, <1>3
  <2> QED
    BY <2>1
<1>6. ASSUME NEW j \in 1..Len(b) PROVE \E i \in 1..Len(s) : s[i] = b[j]
  <2>1. n + j \in 1..Len(s) /\ b[j] = s[n + j]
    BY <1>2, <1>3
  <2> QED
    BY <2>1
<1>7. ASSUME NEW r PROVE r \in ToSet(s) <=> r \in ToSet(a) \/ r \in ToSet(b)
  <2>1. /\ r \in ToSet(s) <=> \E i \in 1..Len(s) : s[i] = r
        /\ r \in ToSet(a) <=> \E i \in 1..Len(a) : a[i] = r
        /\ r \in ToSet(b) <=> \E i \in 1..Len(b) : b[i] = r
    BY <1>1, <1>2, InToSet
  <2> QED
    BY <2>1, <1>4, <1>5, <1>6, Zenon
<1> QED
  BY <1>1, <1>7 DEF a, b

\* What comes after something else.
LEMMA JoinedSet ==
  ASSUME NEW s \in Seq(Nat), NEW t \in Seq(Nat)
  PROVE  /\ s \o t \in Seq(Nat) /\ Len(s \o t) = Len(s) + Len(t)
         /\ \A i \in 1..Len(s) : (s \o t)[i] = s[i]
         /\ \A i \in 1..Len(t) : (s \o t)[Len(s) + i] = t[i]
         /\ \A i \in 1..Len(s \o t) :
              i \in 1..Len(s) \/ \E j \in 1..Len(t) : i = Len(s) + j
         /\ ToSet(s \o t) = ToSet(s) \cup ToSet(t)
<1> DEFINE u == s \o t
<1>1. /\ u \in Seq(Nat) /\ Len(u) = Len(s) + Len(t)
      /\ \A i \in 1..Len(s) : u[i] = s[i]
      /\ Len(s) \in Nat /\ Len(t) \in Nat
  OBVIOUS
<1>2. \A i \in 1..Len(t) : u[Len(s) + i] = t[i]
  <2>1. \A i \in 1..Len(u) : u[i] = IF i <= Len(s) THEN s[i] ELSE t[i - Len(s)]
    OBVIOUS
  <2> HIDE DEF u
  <2> TAKE i \in 1..Len(t)
  <2>2. Len(s) + i \in 1..Len(u) /\ ~ (Len(s) + i <= Len(s)) /\ Len(s) + i - Len(s) = i
    BY <1>1
  <2> QED
    BY <2>1, <2>2
<1> HIDE DEF u
<1>3. ASSUME NEW i \in 1..Len(u)
      PROVE  i \in 1..Len(s) \/ \E j \in 1..Len(t) : i = Len(s) + j
  <2>1. CASE i <= Len(s)
    BY <2>1, <1>1
  <2>2. CASE ~ (i <= Len(s))
    <3>1. i - Len(s) \in 1..Len(t) /\ i = Len(s) + (i - Len(s))
      BY <2>2, <1>1
    <3> QED
      BY <3>1
  <2> QED
    BY <2>1, <2>2
<1>4. ASSUME NEW r PROVE r \in ToSet(u) <=> r \in ToSet(s) \/ r \in ToSet(t)
  <2>1. ASSUME NEW i \in 1..Len(s), s[i] = r PROVE \E k \in 1..Len(u) : u[k] = r
    BY <2>1, <1>1
  <2>2. ASSUME NEW i \in 1..Len(t), t[i] = r PROVE \E k \in 1..Len(u) : u[k] = r
    <3>1. Len(s) + i \in 1..Len(u)
      BY <1>1
    <3> QED
      BY <3>1, <2>2, <1>2
  <2>3. ASSUME NEW k \in 1..Len(u), u[k] = r
        PROVE  \/ \E i \in 1..Len(s) : s[i] = r
               \/ \E i \in 1..Len(t) : t[i] = r
    BY <2>3, <1>1, <1>2, <1>3
  <2> QED
    BY <2>1, <2>2, <2>3, <1>1, InToSet
<1> QED
  BY <1>1, <1>2, <1>3, <1>4 DEF u
-----------------------------------------------------------------------------
(* What the steps do to the sequences.                                      *)

\* A request that brings nothing, or only breaks.
LEMMA DataKept ==
  ASSUME DataInv, UNCHANGED <<format, opened, bufferVars, read>>, broken \subseteq broken'
  PROVE  DataInv'
  BY DEF DataInv, PositionInv, OrderInv, BatchInv, CoverInv, bufferVars, Requested, Increasing

\* A record reader has taken k records from the service, of which the first are in
\* its buffer and the others broken.
LEMMA DataBuffered ==
  ASSUME TypeInv, DataInv, format = "record", mRecordBuffer = <<>>,
         UNCHANGED <<format, opened, read>>,
         NEW k \in 0..mCount, mStart' = mStart + k, mCount' = mCount - k,
         mRecordBuffer' \in Seq(Nat),
         Len(mRecordBuffer') <= Len(Served(mStart, k)),
         \A i \in 1..Len(mRecordBuffer') : mRecordBuffer'[i] = Served(mStart, k)[i],
         broken \subseteq broken',
         ToSet(Served(mStart, k)) \subseteq ToSet(mRecordBuffer') \cup broken'
  PROVE  DataInv'
<1>0. /\ Total \in Nat /\ mStart \in Nat /\ mCount \in Nat /\ k \in Nat /\ k <= mCount
      /\ opened.start \in Nat /\ opened.count \in Nat /\ read \in Seq(Nat)
  BY ConstantsAreNat DEF TypeInv, TypeOK
<1>1. PositionInv'
  BY <1>0 DEF DataInv, PositionInv
<1>2. ASSUME NEW i \in 1..Len(mRecordBuffer')
      PROVE  /\ mRecordBuffer'[i] = mStart + i - 1
             /\ mStart + i - 1 < mStart + k /\ mStart + i - 1 < Total
  <2> DEFINE m == Len(Served(mStart, k))
  <2>1. /\ Len(mRecordBuffer') \in Nat
        /\ m = IF mStart >= Total THEN 0 ELSE Lesser(k, Total - mStart)
    <3>1. Len(mRecordBuffer') \in Nat
      OBVIOUS
    <3> QED
      BY <3>1, <1>0, ServedIs
  <2>2. i \in 1..m
    <3>1. m \in Nat
      BY <1>0, ServedIs
    <3> HIDE DEF m
    <3> QED
      BY <2>1, <3>1 DEF m
  <2>3. mRecordBuffer'[i] = mStart + i - 1
    BY <2>2, <1>0, ServedIs
  <2> QED
    BY <1>0, <2>1, <2>2, <2>3 DEF Lesser
<1>3. OrderInv'
  <2>1. Increasing(read)' /\ \A i \in 1..Len(read) : Requested(read[i])
    BY DEF DataInv, OrderInv, Increasing
  <2>2. ASSUME NEW i \in 1..Len(read) PROVE Requested(read[i])' /\ read[i] < mStart
    BY <2>1, <1>0 DEF Requested
  <2>3. Increasing(mRecordBuffer)'
    BY <1>0, <1>2 DEF Increasing
  <2>4. ASSUME NEW i \in 1..Len(mRecordBuffer') PROVE Requested(mRecordBuffer[i])'
    <3>1. mRecordBuffer'[i] = mStart + i - 1 /\ i \in Nat /\ i >= 1
      BY <1>2
    <3>2. opened.start <= mStart
      BY DEF DataInv, PositionInv
    <3>3. opened.start <= mStart + i - 1 /\ mStart + i - 1 < mStart + k /\ mStart + i - 1 < Total
      BY <3>1, <3>2, <1>0, <1>2
    <3> QED
      BY <3>1, <3>3 DEF Requested
  <2>5. ASSUME NEW i \in 1..Len(read), NEW j \in 1..Len(mRecordBuffer')
        PROVE  read[i] < mRecordBuffer'[j]
    <3>1. read[i] \in Nat /\ mStart \in Nat /\ read[i] < mStart
      BY <1>0, <2>2
    <3>2. mRecordBuffer'[j] = mStart + j - 1
      BY <1>2
    <3>3. j \in Nat /\ j >= 1
      OBVIOUS
    <3> QED
      BY ONLY <3>1, <3>2, <3>3
  <2> QED
    BY <2>1, <2>2, <2>3, <2>4, <2>5 DEF OrderInv
<1>4. BatchInv'
  BY DEF BatchInv
<1>5. CoverInv'
  <2> SUFFICES ASSUME NEW r \in Nat, Requested(r)'
               PROVE  r \in ToSet(read) \cup ToSet(mRecordBuffer') \cup broken'
    BY DEF CoverInv
  <2>1. opened.start <= r /\ r < mStart + k /\ r < Total
    BY DEF Requested
  <2>2. CASE r < mStart
    <3>1. ToSet(mRecordBuffer) = {}
      BY DEF ToSet
    <3> QED
      BY <2>1, <2>2, <3>1 DEF DataInv, CoverInv, Requested
  <2>3. CASE ~ (r < mStart)
    BY <1>0, <2>1, <2>3, ServedSet
  <2> QED
    BY <2>2, <2>3
<1> QED
  BY <1>1, <1>3, <1>4, <1>5 DEF DataInv

\* The first record of the buffer is returned.
LEMMA DataPopped ==
  ASSUME TypeInv, DataInv, mRecordBuffer # <<>>,
         UNCHANGED <<format, opened, mStart, mCount, broken>>,
         read' = read \o <<Head(mRecordBuffer)>>, mRecordBuffer' = Tail(mRecordBuffer)
  PROVE  DataInv'
<1> DEFINE h == <<Head(mRecordBuffer)>>
<1>0. /\ mRecordBuffer \in Seq(Nat) /\ read \in Seq(Nat) /\ Len(read) \in Nat
      /\ Len(mRecordBuffer) \in Nat \ {0}
      /\ h \in Seq(Nat) /\ Len(h) = 1 /\ h[1] = mRecordBuffer[1]
  BY DEF TypeInv, TypeOK
<1> HIDE DEF h
<1>1. /\ mRecordBuffer' \in Seq(Nat) /\ Len(mRecordBuffer') = Len(mRecordBuffer) - 1
      /\ \A i \in 1..Len(mRecordBuffer') : mRecordBuffer'[i] = mRecordBuffer[i + 1]
  BY <1>0
<1>2. /\ read' \in Seq(Nat) /\ Len(read') = Len(read) + 1
      /\ \A i \in 1..Len(read) : read'[i] = read[i]
      /\ read'[Len(read) + 1] = mRecordBuffer[1]
      /\ ToSet(read') = ToSet(read) \cup ToSet(h)
  <2>1. read' = read \o h
    BY DEF h
  <2>2. /\ read \o h \in Seq(Nat) /\ Len(read \o h) = Len(read) + Len(h)
        /\ \A i \in 1..Len(read) : (read \o h)[i] = read[i]
        /\ \A i \in 1..Len(h) : (read \o h)[Len(read) + i] = h[i]
        /\ ToSet(read \o h) = ToSet(read) \cup ToSet(h)
    BY <1>0, JoinedSet
  <2>3. 1 \in 1..Len(h)
    BY <1>0
  <2> QED
    BY <2>1, <2>2, <2>3, <1>0
<1>3. \A r : r \in ToSet(mRecordBuffer) => r \in ToSet(h) \/ r \in ToSet(mRecordBuffer')
  <2> TAKE r
  <2> HAVE r \in ToSet(mRecordBuffer)
  <2>1. PICK i \in 1..Len(mRecordBuffer) : mRecordBuffer[i] = r
    BY <1>0, InToSet
  <2>2. CASE i = 1
    <3>1. 1 \in 1..Len(h) /\ h[1] = r
      BY <2>1, <2>2, <1>0
    <3> QED
      BY <3>1, <1>0, InToSet
  <2>3. CASE i # 1
    <3>1. i - 1 \in 1..Len(mRecordBuffer') /\ mRecordBuffer'[i - 1] = r
      BY <2>1, <2>3, <1>0, <1>1
    <3> QED
      BY <3>1, <1>1, InToSet
  <2> QED
    BY <2>2, <2>3
<1>4. PositionInv' /\ BatchInv'
  BY DEF DataInv, PositionInv, BatchInv
<1>5. OrderInv'
  <2>0. /\ \A i, j \in 1..Len(read) : i < j => read[i] < read[j]
        /\ \A i, j \in 1..Len(mRecordBuffer) : i < j => mRecordBuffer[i] < mRecordBuffer[j]
        /\ \A i \in 1..Len(read), j \in 1..Len(mRecordBuffer) : read[i] < mRecordBuffer[j]
        /\ \A i \in 1..Len(read) : Requested(read[i])
        /\ \A i \in 1..Len(mRecordBuffer) : Requested(mRecordBuffer[i])
    BY DEF DataInv, OrderInv, Increasing
  <2>1. \A i \in 1..Len(read') : i \in 1..Len(read) \/ i = Len(read) + 1
    BY <1>0, <1>2
  <2>2. 1 \in 1..Len(mRecordBuffer)
    BY <1>0
  <2>3. \A i \in 1..Len(mRecordBuffer') :
          i + 1 \in 1..Len(mRecordBuffer) /\ 1 < i + 1
    BY <1>0, <1>1
  <2>4. Increasing(read)'
    BY <2>0, <2>1, <2>2, <1>0, <1>2 DEF Increasing
  <2>5. Increasing(mRecordBuffer)'
    BY <2>0, <2>3, <1>1 DEF Increasing
  <2>6. \A i \in 1..Len(read') : Requested(read[i])'
    BY <2>0, <2>1, <2>2, <1>2 DEF Requested
  <2>7. \A i \in 1..Len(mRecordBuffer') : Requested(mRecordBuffer[i])'
    BY <2>0, <2>3, <1>1 DEF Requested
  <2>8. \A i \in 1..Len(read'), j \in 1..Len(mRecordBuffer') : read'[i] < mRecordBuffer'[j]
    BY <2>0, <2>1, <2>2, <2>3, <1>1, <1>2
  <2> QED
    BY <2>4, <2>5, <2>6, <2>7, <2>8 DEF OrderInv
<1>6. CoverInv'
  BY <1>2, <1>3 DEF DataInv, CoverInv, Requested
<1> QED
  BY <1>4, <1>5, <1>6 DEF DataInv

\* A batch of the first rows that were asked for is returned.
LEMMA DataReturned ==
  ASSUME TypeInv, DataInv, format = "arrow",
         UNCHANGED <<format, opened, mRecordBuffer, broken>>,
         NEW k \in 0..mCount, NEW rows \in 0..Len(Served(mStart, k)), rows > 0,
         mStart' = mStart + rows, mCount' = mCount - rows,
         read' = read \o SubSeq(Served(mStart, k), 1, rows)
  PROVE  DataInv'
<1> DEFINE s == Served(mStart, k)
           a == SubSeq(s, 1, rows)
<1>0. /\ Total \in Nat /\ mStart \in Nat /\ mCount \in Nat /\ k \in Nat /\ k <= mCount
      /\ opened.start \in Nat /\ opened.count \in Nat
      /\ read \in Seq(Nat) /\ Len(read) \in Nat
  BY ConstantsAreNat DEF TypeInv, TypeOK
<1>1. /\ s \in Seq(Nat) /\ Len(s) = (IF mStart >= Total THEN 0 ELSE Lesser(k, Total - mStart))
      /\ \A i \in 1..Len(s) : s[i] = mStart + i - 1
  BY <1>0, ServedIs
<1> HIDE DEF s
<1>2. a \in Seq(Nat) /\ Len(a) = rows /\ \A i \in 1..rows : a[i] = s[i]
  BY <1>1, CutKeepsSet DEF s
<1>3. rows \in Nat /\ rows <= k /\ mStart + rows <= Total /\ \A i \in 1..rows : i \in 1..Len(s)
  BY <1>0, <1>1 DEF Lesser, s
<1>4. \A i \in 1..rows : a[i] = mStart + i - 1
  BY <1>1, <1>2, <1>3
<1> HIDE DEF a
<1>5. /\ read' \in Seq(Nat) /\ Len(read') = Len(read) + rows
      /\ \A i \in 1..Len(read) : read'[i] = read[i]
      /\ \A i \in 1..rows : read'[Len(read) + i] = a[i]
      /\ \A i \in 1..Len(read') : i \in 1..Len(read) \/ \E j \in 1..rows : i = Len(read) + j
      /\ ToSet(read') = ToSet(read) \cup ToSet(a)
  <2>1. read' = read \o a
    BY DEF a, s
  <2>2. /\ read \o a \in Seq(Nat) /\ Len(read \o a) = Len(read) + Len(a)
        /\ \A i \in 1..Len(read) : (read \o a)[i] = read[i]
        /\ \A i \in 1..Len(a) : (read \o a)[Len(read) + i] = a[i]
        /\ \A i \in 1..Len(read \o a) :
             i \in 1..Len(read) \/ \E j \in 1..Len(a) : i = Len(read) + j
        /\ ToSet(read \o a) = ToSet(read) \cup ToSet(a)
    BY <1>0, <1>2, JoinedSet
  <2> QED
    BY <2>1, <2>2, <1>2
<1>6. /\ mRecordBuffer = <<>> /\ mStart <= Total
      /\ Len(read) = mStart - opened.start
      /\ \A i \in 1..Len(read) : read[i] = opened.start + i - 1
      /\ opened.start <= mStart /\ mStart + mCount = opened.start + opened.count
  BY DEF DataInv, BatchInv, PositionInv
<1>7. PositionInv'
  BY <1>0, <1>3, <1>6 DEF PositionInv
<1>8. \A i \in 1..Len(read') : read'[i] = opened.start + i - 1
  <2> TAKE i \in 1..Len(read')
  <2>1. CASE i \in 1..Len(read)
    BY <2>1, <1>5, <1>6
  <2>2. ASSUME NEW j \in 1..rows, i = Len(read) + j PROVE read'[i] = opened.start + i - 1
    <3>1. read'[Len(read) + j] = mStart + j - 1
      BY <1>4, <1>5
    <3>2. /\ j \in Nat /\ opened.start \in Nat /\ mStart \in Nat /\ Len(read) \in Nat
          /\ Len(read) = mStart - opened.start
      BY <1>0, <1>3, <1>6
    <3>3. opened.start + (Len(read) + j) - 1 = mStart + j - 1
      BY ONLY <3>2, PlaceOf, Zenon
    <3> QED
      BY <2>2, <3>1, <3>3
  <2> QED
    BY <2>1, <2>2, <1>5
<1>9. BatchInv'
  <2>1. mStart' - opened.start = Len(read')
    BY <1>0, <1>3, <1>5, <1>6
  <2> QED
    BY <2>1, <1>3, <1>6, <1>8 DEF BatchInv
<1>10. Len(read') \in Nat /\ opened.start + Len(read') = mStart + rows
  <2>1. Len(read') = Len(read) + rows
    BY <1>5
  <2>2. Len(read) \in Nat /\ rows \in Nat /\ mStart \in Nat /\ opened.start \in Nat
    BY <1>0, <1>3
  <2>3. Len(read) = mStart - opened.start
    BY <1>6
  <2> QED
    BY <2>1, <2>2, <2>3
<1>11. OrderInv'
  <2>1. \A i \in 1..Len(read') : Requested(read[i])'
    <3>1. Len(read') \in Nat /\ opened.start + Len(read') = mStart + rows
      BY <1>10
    <3>2. \A i \in 1..Len(read') :
            opened.start <= opened.start + i - 1 /\ opened.start + i - 1 < mStart + rows
      BY <3>1, <1>0
    <3>3. mStart + rows \in Nat /\ mStart' = mStart + rows
      BY <1>0, <1>3
    <3>4. \A i \in 1..Len(read') : opened.start + i - 1 < Total
      BY <3>2, <3>3, <1>0, <1>3
    <3> QED
      BY <3>2, <3>3, <3>4, <1>8 DEF Requested
  <2>2. Increasing(read)'
    BY <1>0, <1>8 DEF Increasing
  <2> QED
    BY <2>1, <2>2, <1>6 DEF OrderInv, Increasing
<1>12. CoverInv'
  <2> SUFFICES ASSUME NEW r \in Nat, opened.start <= r, r < mStart + rows, r < Total
               PROVE  r \in ToSet(read')
    BY DEF CoverInv, Requested
  <2>1. r - opened.start + 1 \in 1..Len(read')
    <3>1. Len(read') \in Nat /\ opened.start + Len(read') = mStart + rows
      BY <1>10
    <3>2. rows \in Nat /\ mStart \in Nat /\ opened.start \in Nat
      BY <1>0, <1>3
    <3> QED
      BY <3>1, <3>2
  <2>2. read'[r - opened.start + 1] = r
    <3>1. read'[r - opened.start + 1] = opened.start + (r - opened.start + 1) - 1
      BY <2>1, <1>8
    <3>2. opened.start + (r - opened.start + 1) - 1 = r
      BY <1>0
    <3> QED
      BY <3>1, <3>2
  <2> QED
    BY <2>1, <2>2, <1>5, InToSet
<1> QED
  BY <1>7, <1>9, <1>11, <1>12 DEF DataInv
-----------------------------------------------------------------------------
(* The steps.                                                               *)

\* A request is for some of what is left, and fits in the buffer.
LEMMA RequestIsOfTheRest ==
  ASSUME TypeInv, mCount > 0
  PROVE  /\ RecordLimit \in Nat \ {0}
         /\ RecordsRequested \in 1..mCount /\ RecordsRequested <= RecordLimit
         /\ RowsRequested \in 1..mCount
<1>1. mCount \in Nat \ {0} /\ opened.limit \in Nat
  BY OpenedAreNat DEF TypeInv, TypeOK
<1>2. RecordLimit \in Nat \ {0}
  BY <1>1 DEF RecordLimit
<1>3. RecordsRequested \in 1..mCount /\ RecordsRequested <= RecordLimit
  BY <1>1, <1>2 DEF RecordsRequested, Lesser
<1>4. RowsRequested \in 1..mCount
  BY <1>1 DEF RowsRequested, Lesser
<1> QED
  BY <1>2, <1>3, <1>4

\* An empty answer to a request means that the download has nothing more.
LEMMA EmptyMeansTotal ==
  ASSUME TypeInv, NEW k \in 1..mCount, Served(mStart, k) = <<>>
  PROVE  mStart >= Total
<1>1. mStart \in Nat /\ Total \in Nat /\ k \in Nat \ {0} /\ mCount \in Nat
  BY ConstantsAreNat DEF TypeInv, TypeOK
<1>2. Len(Served(mStart, k)) = IF mStart >= Total THEN 0 ELSE Lesser(k, Total - mStart)
  BY <1>1, ServedIs
<1>3. Len(Served(mStart, k)) = 0
  OBVIOUS
<1> QED
  BY <1>1, <1>2, <1>3 DEF Lesser

\* Where nothing more can be requested, all of the range is accounted for.
LEMMA AllRequested ==
  ASSUME TypeInv, DataInv, mRecordBuffer = <<>>, mStart >= Total \/ mCount = 0,
         NEW r \in Nat, opened.start <= r, r < opened.start + opened.count, r < Total
  PROVE  r \in ToSet(read) \cup broken
<1>1. /\ mStart \in Nat /\ Total \in Nat /\ opened.start \in Nat /\ opened.count \in Nat
      /\ mStart + mCount = opened.start + opened.count /\ mCount \in Nat
  BY ConstantsAreNat DEF TypeInv, TypeOK, DataInv, PositionInv
<1>2. Requested(r)
  BY <1>1 DEF Requested
<1>3. ToSet(mRecordBuffer) = {}
  BY DEF ToSet
<1> QED
  BY <1>2, <1>3 DEF DataInv, CoverInv

\* Another try, or the exception is thrown to the caller.
LEMMA ThrowsKeeps ==
  ASSUME TypeInv, EndInv, attempt > 0, Throws
  PROVE  /\ attempt' \in 0..(RetryTimes + 1)
         /\ result' \in {"none", "records", "thrown"}
         /\ read' = read /\ EndInv'
<1>1. result \in {"none", "records", "thrown"}
  BY DEF TypeInv, TypeOK, EndInv
<1> QED
  BY <1>1, ConstantsAreNat DEF TypeInv, TypeOK, Throws, EndInv

\* The faults that a download counts are a number.
LEMMA FaultKeeps == ASSUME TypeInv, Fault PROVE faults' \in Nat
  BY ConstantsAreNat DEF TypeInv, TypeOK, Fault

\* Every step of the readers and of ReadWithRetry keeps the invariant.
LEMMA StepKeepsIInv == ASSUME IInv, [Next]_vars PROVE IInv'
<1> USE DEF IInv
<1>1. CASE Call
  <2>1. TypeInv' /\ EndInv'
    BY <1>1, ConstantsAreNat DEF Call, TypeInv, TypeOK, bufferVars, RecordLimit, EndInv
  <2>2. DataInv'
    BY <1>1, DataKept DEF Call
  <2> QED
    BY <2>1, <2>2
<1>2. CASE OpenFails
  <2>1. DataInv'
    BY <1>2, ThrowsKeeps, DataKept DEF OpenFails, CanRequest
  <2>2. TypeInv'
    BY <1>2, ThrowsKeeps, FaultKeeps DEF OpenFails, CanRequest, TypeInv, TypeOK, bufferVars,
                                         RecordLimit
  <2> QED
    BY <1>2, <2>1, <2>2, ThrowsKeeps DEF OpenFails, CanRequest
<1>3. CASE NothingLeft
  <2>1. DataInv'
    BY <1>3, DataKept DEF NothingLeft, ReturnsNothing
  <2>2. TypeInv'
    BY <1>3, ConstantsAreNat
       DEF NothingLeft, ReturnsNothing, TypeInv, TypeOK, bufferVars, RecordLimit
  <2>3. EndInv'
    <3>1. attempt' = 0 /\ mCount' = 0 /\ mRecordBuffer = <<>> /\ mCount = 0
          /\ UNCHANGED <<format, opened, read, broken>>
      BY <1>3 DEF NothingLeft, ReturnsNothing, bufferVars
    <3> QED
      BY <3>1, AllRequested DEF EndInv
  <2> QED
    BY <2>1, <2>2, <2>3
<1>4. CASE ReadData
  <2> DEFINE k == RecordsRequested
             s == Served(mStart, k)
  <2>1. /\ mStart \in Nat /\ mCount \in Nat
        /\ k \in 1..mCount /\ k <= RecordLimit /\ RecordLimit \in Nat
    BY <1>4, RequestIsOfTheRest DEF ReadData, CanRequest, TypeInv, TypeOK
  <2> HIDE DEF k
  <2>2. s \in Seq(Nat) /\ Len(s) \in Nat /\ Len(s) <= k
    <3>1. k \in Nat
      BY <2>1
    <3>2. s \in Seq(Nat) /\ Len(s) \in 0..k
      BY <2>1, <3>1, ServedBounded
    <3> QED
      BY <3>1, <3>2
  <2>3. mRecordBuffer' = s /\ mStart' = mStart + k /\ mCount' = mCount - k /\ broken' = broken
    BY <1>4 DEF ReadData, Advance, k
  <2>4. read' = read
    BY <1>4 DEF ReadData, ReturnsNothing
  <2> HIDE DEF s
  <2>5. DataInv'
    BY <1>4, <2>1, <2>2, <2>3, <2>4, DataBuffered DEF ReadData, CanRequest, s
  <2>6. TypeInv'
    <3>1. mStart' \in Nat /\ mCount' \in Nat
      BY <2>1, <2>3
    <3>2. mRecordBuffer' \in Seq(Nat) /\ Len(mRecordBuffer') <= RecordLimit
      BY <2>1, <2>2, <2>3
    <3>3. attempt' \in 0..(RetryTimes + 1) /\ result' \in {"none", "records", "thrown", "end"}
      BY <1>4, ConstantsAreNat DEF ReadData, ReturnsNothing, TypeInv, TypeOK
    <3> QED
      BY <1>4, <2>3, <2>4, <3>1, <3>2, <3>3 DEF ReadData, TypeInv, TypeOK, RecordLimit
  <2>7. EndInv'
    <3>1. CASE s = <<>>
      <4>1. attempt' = 0
        BY <1>4, <2>3, <3>1 DEF ReadData, ReturnsNothing
      <4>2. mStart >= Total
        BY <2>1, <3>1, EmptyMeansTotal DEF s
      <4> QED
        BY <1>4, <2>3, <2>4, <4>1, <4>2, AllRequested DEF EndInv, ReadData, CanRequest
    <3>2. CASE s # <<>>
      <4>1. result' = result /\ result # "end"
        BY <1>4, <2>3, <3>2 DEF ReadData, CanRequest, EndInv
      <4> QED
        BY <4>1 DEF EndInv
    <3> QED
      BY <3>1, <3>2
  <2> QED
    BY <2>5, <2>6, <2>7
<1>5. ASSUME NEW n \in 0..Total, ReadDataBreaks(n) PROVE IInv'
  <2> DEFINE k == RecordsRequested
             s == Served(mStart, k)
  <2>1. /\ mStart \in Nat /\ mCount \in Nat /\ attempt > 0
        /\ k \in 1..mCount /\ k <= RecordLimit /\ RecordLimit \in Nat
    BY <1>5, RequestIsOfTheRest DEF ReadDataBreaks, CanRequest, TypeInv, TypeOK
  <2>2. s \in Seq(Nat) /\ n \in 0..Len(s) /\ n < RecordLimit
    <3> HIDE DEF k
    <3>0. k \in Nat
      BY <2>1
    <3>1. s \in Seq(Nat)
      BY <2>1, <3>0, ServedBounded
    <3>2. n <= Len(s) /\ n < RecordLimit
      BY <1>5 DEF ReadDataBreaks, k
    <3> QED
      BY <3>1, <3>2, ConstantsAreNat
  <2>3. /\ mRecordBuffer' = SubSeq(s, 1, n)
        /\ broken' = broken \cup ToSet(SubSeq(s, n + 1, Len(s)))
        /\ mStart' = mStart + k /\ mCount' = mCount - k
        /\ UNCHANGED <<format, opened>>
        /\ format = "record" /\ mRecordBuffer = <<>>
    BY <1>5 DEF ReadDataBreaks, Advance, CanRequest
  <2>4. /\ attempt' \in 0..(RetryTimes + 1) /\ result' \in {"none", "records", "thrown"}
        /\ read' = read /\ EndInv' /\ faults' \in Nat
    BY <1>5, <2>1, ThrowsKeeps, FaultKeeps DEF ReadDataBreaks
  <2> HIDE DEF k, s
  <2>5. /\ mRecordBuffer' \in Seq(Nat) /\ Len(mRecordBuffer') = n /\ n <= Len(s)
        /\ \A i \in 1..Len(mRecordBuffer') : mRecordBuffer'[i] = s[i]
        /\ ToSet(s) = ToSet(mRecordBuffer') \cup ToSet(SubSeq(s, n + 1, Len(s)))
    BY <2>2, <2>3, CutKeepsSet
  <2>6. DataInv'
    BY <2>1, <2>3, <2>4, <2>5, DataBuffered DEF s
  <2>7. ToSet(s) \subseteq Nat
    BY <2>2, InToSet
  <2>8. TypeInv'
    <3>1. mStart' \in Nat /\ mCount' \in Nat
      BY <2>1, <2>3
    <3>2. Len(mRecordBuffer') <= RecordLimit
      BY <2>1, <2>2, <2>5
    <3>3. broken' \subseteq Nat
      BY <2>3, <2>5, <2>7 DEF TypeInv, TypeOK
    <3> QED
      BY <2>3, <2>4, <2>5, <3>1, <3>2, <3>3 DEF TypeInv, TypeOK, RecordLimit
  <2> QED
    BY <2>4, <2>6, <2>8
<1>6. ASSUME NEW rows \in 0..Total, ReadBatch(rows) PROVE IInv'
  <2> DEFINE k == RowsRequested
             s == Served(mStart, k)
  <2>1. mStart \in Nat /\ mCount \in Nat /\ k \in 1..mCount /\ attempt > 0
    BY <1>6, RequestIsOfTheRest DEF ReadBatch, CanRequest, TypeInv, TypeOK
  <2>2. s \in Seq(Nat) /\ rows \in 0..Len(s) /\ Len(s) <= k
    <3> HIDE DEF k
    <3>0. k \in Nat
      BY <2>1
    <3>1. s \in Seq(Nat) /\ Len(s) \in 0..k
      BY <2>1, <3>0, ServedBounded
    <3>2. rows <= Len(s)
      BY <1>6 DEF ReadBatch, k
    <3> QED
      BY <3>0, <3>1, <3>2, ConstantsAreNat
  <2>3. UNCHANGED <<format, opened, broken, faults>> /\ mRecordBuffer = <<>> /\ format = "arrow"
    BY <1>6 DEF ReadBatch, CanRequest
  <2>4. CASE s = <<>>
    <3>1. ReturnsNothing /\ UNCHANGED bufferVars
      BY <1>6, <2>4 DEF ReadBatch
    <3>2. DataInv'
      BY <3>1, <2>3, DataKept DEF ReturnsNothing
    <3>3. TypeInv'
      BY <3>1, <2>3, ConstantsAreNat DEF ReturnsNothing, bufferVars, TypeInv, TypeOK, RecordLimit
    <3>4. mStart >= Total
      BY <2>1, <2>4, EmptyMeansTotal
    <3>5. EndInv'
      BY <3>1, <3>4, <2>1, <2>3, ConstantsAreNat DEF ReturnsNothing, EndInv, bufferVars
    <3> QED
      BY <3>2, <3>3, <3>5
  <2>5. CASE s # <<>>
    <3>1. /\ rows > 0 /\ mStart' = mStart + rows /\ mCount' = mCount - rows
          /\ attempt' = 0 /\ result' = "records" /\ UNCHANGED mRecordBuffer
          /\ read' = read \o SubSeq(s, 1, rows)
      BY <1>6, <2>5 DEF ReadBatch, AdvanceAsRead, Returns
    <3>2. DataInv'
      BY <3>1, <2>1, <2>2, <2>3, DataReturned
    <3>3. read' \in Seq(Nat)
      BY <3>1, <2>2, CutKeepsSet, JoinedSet DEF TypeInv, TypeOK
    <3>4. mStart' \in Nat /\ mCount' \in Nat
      BY <3>1, <2>1, <2>2
    <3>5. TypeInv'
      BY <3>1, <3>3, <3>4, <2>3, ConstantsAreNat DEF TypeInv, TypeOK, RecordLimit
    <3> QED
      BY <3>1, <3>2, <3>5 DEF EndInv
  <2> QED
    BY <2>4, <2>5
<1>7. CASE Pop
  <2>1. /\ read' = read \o <<Head(mRecordBuffer)>> /\ mRecordBuffer' = Tail(mRecordBuffer)
        /\ mRecordBuffer # <<>> /\ attempt' = 0 /\ result' = "records"
        /\ UNCHANGED <<format, opened, mStart, mCount, broken, faults>>
    BY <1>7 DEF Pop, Returns
  <2>2. DataInv'
    BY <2>1, DataPopped
  <2>3. mRecordBuffer \in Seq(Nat) /\ <<Head(mRecordBuffer)>> \in Seq(Nat) /\ read \in Seq(Nat)
    BY <2>1 DEF TypeInv, TypeOK
  <2>4. read' \in Seq(Nat) /\ mRecordBuffer' \in Seq(Nat)
        /\ Len(mRecordBuffer') <= Len(mRecordBuffer)
    BY <2>1, <2>3
  <2>5. RecordLimit \in Nat /\ Len(mRecordBuffer) \in Nat /\ Len(mRecordBuffer') \in Nat
    <3>1. opened.limit \in Nat
      BY ConstantsAreNat DEF TypeInv
    <3> QED
      BY <3>1, <2>3, <2>4 DEF RecordLimit
  <2>6. Len(mRecordBuffer') <= RecordLimit
    BY <2>4, <2>5 DEF TypeInv, TypeOK
  <2>7. TypeInv'
    BY <2>1, <2>4, <2>6, ConstantsAreNat DEF TypeInv, TypeOK, RecordLimit
  <2> QED
    BY <2>1, <2>2, <2>7 DEF EndInv
<1>8. CASE ReadBatchBreaks
  <2>1. /\ mRecordBuffer = <<>> /\ attempt > 0 /\ faults' \in Nat
        /\ UNCHANGED <<format, opened, bufferVars>>
    BY <1>8, FaultKeeps DEF ReadBatchBreaks, CanRequest
  <2>2. CASE Throws /\ UNCHANGED broken
    <3>1. DataInv'
      BY <2>1, <2>2, ThrowsKeeps, DataKept
    <3>2. TypeInv'
      BY <2>1, <2>2, ThrowsKeeps DEF TypeInv, TypeOK, bufferVars, RecordLimit
    <3> QED
      BY <2>1, <2>2, <3>1, <3>2, ThrowsKeeps
  <2>3. CASE ReturnsNothing /\ broken' = broken \cup ToSet(Served(mStart, RowsRequested))
    <3>1. mStart \in Nat /\ mCount > 0 /\ format = "arrow"
      BY <1>8 DEF ReadBatchBreaks, CanRequest, TypeInv, TypeOK
    <3>2. RowsRequested \in Nat /\ RowsRequested > 0
      BY <3>1, RequestIsOfTheRest DEF TypeInv, TypeOK
    <3>3. DataInv'
      BY <2>1, <2>3, DataKept DEF ReturnsNothing
    <3>4. ToSet(Served(mStart, RowsRequested)) \subseteq Nat
      BY <3>1, <3>2, ServedBounded
    <3>5. TypeInv'
      <4>1. broken' \subseteq Nat
        BY <2>3, <3>4 DEF TypeInv, TypeOK
      <4> QED
        BY <2>1, <2>3, <4>1, ConstantsAreNat
           DEF ReturnsNothing, TypeInv, TypeOK, bufferVars, RecordLimit
    <3>6. mStart < Total => mStart \in broken'
      BY <2>3, <3>1, <3>2, ServedSet
    <3>7. EndInv'
      BY <2>1, <2>3, <3>1, <3>6 DEF ReturnsNothing, EndInv, bufferVars
    <3> QED
      BY <3>3, <3>5, <3>7
  <2> QED
    BY <1>8, <2>2, <2>3 DEF ReadBatchBreaks
<1>9. CASE UNCHANGED vars
  <2>1. DataInv'
    BY <1>9, DataKept DEF vars
  <2> QED
    BY <1>9, <2>1 DEF vars, bufferVars, TypeInv, TypeOK, RecordLimit, EndInv
<1> QED
  BY <1>1, <1>2, <1>3, <1>4, <1>5, <1>6, <1>7, <1>8, <1>9 DEF Next

\* A reader that was just opened satisfies the invariant.
LEMMA InitIInv == Init => IInv
<1> SUFFICES ASSUME Init PROVE IInv
  OBVIOUS
<1>1. TypeInv
  <2>1. opened.start \in Nat /\ opened.count \in Nat /\ opened.limit \in Nat
    BY OpenedAreNat DEF Init
  <2>2. mRecordBuffer \in Seq(Nat) /\ Len(mRecordBuffer) = 0 /\ read \in Seq(Nat)
    BY DEF Init
  <2>3. RecordLimit \in Nat /\ 0 <= RecordLimit
    BY <2>1 DEF RecordLimit
  <2> QED
    BY <2>1, <2>2, <2>3, ConstantsAreNat DEF Init, TypeInv, TypeOK
<1>2. DataInv
  BY ConstantsAreNat
     DEF Init, DataInv, PositionInv, OrderInv, BatchInv, CoverInv, Requested, Increasing
<1>3. EndInv
  BY DEF Init, EndInv
<1> QED
  BY <1>1, <1>2, <1>3 DEF IInv

\* Read, the requests it makes and the retries of ReadWithRetry keep the invariant:
\* what was returned, and the buffer, are in the order of the table.
THEOREM Invariance == Spec => []IInv
  BY InitIInv, StepKeepsIInv, PTL DEF Spec

-----------------------------------------------------------------------------
(* What the caller of either reader can rely on.                            *)

\* Every variable of a buffered reader has its type, whatever fails; mCount, which
\* is unsigned in the code, is never below 0, and no more is buffered than asked for.
THEOREM TypeCorrect == Spec => []TypeOK
<1>1. IInv => TypeOK
  BY DEF IInv, TypeInv
<1> QED
  BY <1>1, Invariance, PTL

\* Through ReadWithRetry, no record is returned twice, out of order or from outside
\* the range, whichever requests fail and wherever answers break.
THEOREM RecordsInOrderOnce == Spec => []OrderedOnce
<1>1. IInv => OrderedOnce
  <2> SUFFICES ASSUME IInv PROVE OrderedOnce
    OBVIOUS
  <2>1. /\ read \in Seq(Nat) /\ mStart \in Nat /\ mCount \in Nat /\ Total \in Nat
        /\ opened.start \in Nat /\ opened.count \in Nat
        /\ mStart + mCount = opened.start + opened.count
    BY ConstantsAreNat DEF IInv, TypeInv, TypeOK, DataInv, PositionInv
  <2>2. ASSUME NEW r \in ToSet(read) PROVE r \in ToSet(Wanted)
    <3>1. PICK i \in 1..Len(read) : read[i] = r
      BY <2>1, InToSet
    <3>2. r \in Nat /\ Requested(r)
      BY <2>1, <3>1 DEF IInv, DataInv, OrderInv
    <3>3. opened.start <= r /\ r < opened.start + opened.count /\ r < Total
      BY <2>1, <3>2 DEF Requested
    <3> QED
      BY <2>1, <3>2, <3>3, ServedSet DEF Wanted
  <2>3. ASSUME NEW i \in 2..Len(read) PROVE read[i - 1] < read[i]
    <3>1. i - 1 \in 1..Len(read) /\ i \in 1..Len(read) /\ i - 1 < i
      BY <2>1
    <3> QED
      BY <3>1 DEF IInv, DataInv, OrderInv, Increasing
  <2> QED
    BY <2>2, <2>3 DEF OrderedOnce
<1> QED
  BY <1>1, Invariance, PTL

\* BufferArrowRecordReader, which advances by what it has read, returns a prefix of
\* the range, however short the batches are.
THEOREM BatchesWithoutGap == Spec => []NoGapInBatches
<1>1. IInv => NoGapInBatches
  <2> SUFFICES ASSUME IInv, format = "arrow" PROVE IsPrefix(read, Wanted)
    BY DEF NoGapInBatches
  <2>1. /\ read \in Seq(Nat) /\ mStart \in Nat /\ mCount \in Nat /\ Total \in Nat
        /\ opened.start \in Nat /\ opened.count \in Nat
        /\ mStart + mCount = opened.start + opened.count
        /\ mStart <= Total /\ Len(read) = mStart - opened.start
        /\ \A i \in 1..Len(read) : read[i] = opened.start + i - 1
        /\ Len(read) \in Nat
    BY ConstantsAreNat DEF IInv, TypeInv, TypeOK, DataInv, PositionInv, BatchInv
  <2>2. /\ Wanted \in Seq(Nat)
        /\ Len(Wanted) = IF opened.start >= Total THEN 0
                         ELSE Lesser(opened.count, Total - opened.start)
        /\ \A i \in 1..Len(Wanted) : Wanted[i] = opened.start + i - 1
    BY <2>1, ServedIs DEF Wanted
  <2>3. Len(read) <= Len(Wanted)
    BY <2>1, <2>2 DEF Lesser
  <2> HIDE DEF Wanted
  <2>4. /\ SubSeq(read, 1, Len(read)) \in Seq(Nat)
        /\ Len(SubSeq(read, 1, Len(read))) = Len(read)
        /\ \A i \in 1..Len(read) : SubSeq(read, 1, Len(read))[i] = read[i]
    <3>1. read \in Seq(Nat) /\ Len(read) \in 0..Len(read)
      BY <2>1
    <3> QED
      BY <3>1, CutKeepsSet
  <2>5. /\ SubSeq(Wanted, 1, Len(read)) \in Seq(Nat)
        /\ Len(SubSeq(Wanted, 1, Len(read))) = Len(read)
        /\ \A i \in 1..Len(read) : SubSeq(Wanted, 1, Len(read))[i] = Wanted[i]
    <3>1. Wanted \in Seq(Nat) /\ Len(read) \in 0..Len(Wanted)
      BY <2>1, <2>2, <2>3
    <3> QED
      BY <3>1, CutKeepsSet
  <2>6. \A i \in 1..Len(read) : read[i] = Wanted[i]
    <3>1. \A i \in 1..Len(read) : i \in 1..Len(Wanted)
      <4>1. Len(Wanted) \in Nat
        BY <2>2
      <4> QED
        BY <4>1, <2>1, <2>3
    <3> QED
      BY <3>1, <2>1, <2>2
  <2>7. SubSeq(read, 1, Len(read)) = SubSeq(Wanted, 1, Len(read))
    BY <2>4, <2>5, <2>6
  <2> QED
    BY <2>3, <2>7 DEF IsPrefix
<1> QED
  BY <1>1, Invariance, PTL

\* A record reader that has come to its end misses only records whose answer broke
\* after it had begun: refused requests, retries and short answers cost none.  A reader
\* of batches that has come to its end before the end of its range stops just at an
\* answer that broke, whose checksum error it took for the end.
THEOREM OnlyBrokenMissed == Spec => []MissesOnlyBroken
<1>1. IInv => MissesOnlyBroken
  <2> SUFFICES ASSUME IInv, result = "end" PROVE MissesOnlyBroken
    BY DEF MissesOnlyBroken
  <2>1. /\ opened.start \in Nat /\ opened.count \in Nat /\ Total \in Nat
        /\ read \in Seq(Nat) /\ Len(read) \in Nat /\ mStart \in Nat /\ mCount \in Nat
        /\ mStart + mCount = opened.start + opened.count
    BY ConstantsAreNat DEF IInv, TypeInv, TypeOK, DataInv, PositionInv
  <2>2. CASE format = "record"
    <3>1. ASSUME NEW r \in ToSet(Wanted) PROVE r \in ToSet(read) \cup broken
      <4>1. r \in Nat
        BY <2>1, ServedBounded DEF Wanted
      <4>2. opened.start <= r /\ r < opened.start + opened.count /\ r < Total
        BY <2>1, <4>1, ServedSet DEF Wanted
      <4> QED
        BY <2>2, <4>1, <4>2 DEF IInv, EndInv
    <3> QED
      BY <2>2, <3>1 DEF MissesOnlyBroken
  <2>3. CASE format # "record"
    <3> SUFFICES ASSUME Len(read) < Len(Wanted) PROVE Wanted[Len(read) + 1] \in broken
      BY <2>3 DEF MissesOnlyBroken
    <3>1. Len(read) = mStart - opened.start
      BY <2>3 DEF IInv, TypeInv, TypeOK, DataInv, BatchInv
    <3>2. /\ Len(Wanted) = IF opened.start >= Total THEN 0
                           ELSE Lesser(opened.count, Total - opened.start)
          /\ \A i \in 1..Len(Wanted) : Wanted[i] = opened.start + i - 1
      BY <2>1, ServedIs DEF Wanted
    <3> HIDE DEF Wanted
    <3>3. Len(Wanted) \in Nat /\ mCount > 0 /\ mStart < Total
      BY <2>1, <3>1, <3>2 DEF Lesser
    <3>4. Wanted[Len(read) + 1] = mStart
      <4>1. Len(read) + 1 \in 1..Len(Wanted)
        BY <2>1, <3>3
      <4>2. opened.start + (Len(read) + 1) - 1 = mStart
        BY <2>1, <3>1
      <4> QED
        BY <3>2, <4>1, <4>2
    <3> QED
      BY <2>3, <3>3, <3>4 DEF IInv, EndInv
  <2> QED
    BY <2>2, <2>3
<1> QED
  BY <1>1, Invariance, PTL
=============================================================================
