--------------------------- MODULE TransfersProofs ---------------------------
(***************************************************************************)
(* What the transfers of MCTransfers promise, for any data, sizes, columns,  *)
(* buffers, windows and damage.                                              *)
(*                                                                         *)
(* Each framing has an invariant that says what was sent, by the set of the  *)
(* places where a chunk, a batch or a record starts and how much of the data *)
(* is written before each; what arrived, which is a beginning of it or has   *)
(* one place changed; and where the reader stands.  A checksum is what it is *)
(* computed of, so what a reader takes with its checksum is what was written *)
(* at one of those places, and a reader takes nothing else.  The codecs have *)
(* no checksums: their invariant says what each beginning of the symbols     *)
(* decodes to, and that the decompressor has put out a beginning of it.      *)
(***************************************************************************)
EXTENDS MCTransfers, SequenceTheorems, WellFoundedInduction, TLAPS

-----------------------------------------------------------------------------
(* Numbers and sequences.                                                   *)

\* A set of numbers that is not empty has a least one.
LEMMA Least ==
  ASSUME NEW T \in SUBSET Nat, T # {}
  PROVE  \E m \in T : \A k \in T : m <= k
<1>1. IsWellFoundedOn(OpToRel(<, Nat), Nat)
  BY NatLessThanWellFounded
<1>2. PICK m \in T : \A y \in T : ~ (<<y, m>> \in OpToRel(<, Nat))
  BY <1>1, WFMin
<1>3. \A y \in T : ~ (y < m)
  BY <1>2 DEF OpToRel
<1>4. \A y \in T : m <= y
  BY <1>3
<1> QED BY <1>4

\* The beginning of a sequence, element by element.
Begins(s, t) == Len(s) <= Len(t) /\ \A i \in 1..Len(s) : s[i] = t[i]

\* The first n elements, and those after them.
LEMMA Cut ==
  ASSUME NEW S, NEW s \in Seq(S), NEW n \in Nat, n <= Len(s)
  PROVE  /\ SubSeq(s, 1, n) \in Seq(S) /\ Len(SubSeq(s, 1, n)) = n
         /\ \A i \in 1..n : SubSeq(s, 1, n)[i] = s[i]
         /\ SubSeq(s, n + 1, Len(s)) \in Seq(S) /\ Len(SubSeq(s, n + 1, Len(s))) = Len(s) - n
         /\ \A i \in 1..(Len(s) - n) : SubSeq(s, n + 1, Len(s))[i] = s[n + i]
<1> DEFINE m == Len(s)
<1>1. m \in Nat /\ \A i \in 1..m : s[i] \in S
  BY LenProperties, ElementOfSeq
<1> HIDE DEF m
<1>2. /\ SubSeq(s, 1, n) \in Seq(S)
      /\ Len(SubSeq(s, 1, n)) = (IF 1 <= n THEN n - 1 + 1 ELSE 0)
      /\ \A i \in 1..(n - 1 + 1) : SubSeq(s, 1, n)[i] = s[1 + i - 1]
  <2>1. \A i \in 1..n : s[i] \in S  BY <1>1 DEF m
  <2> QED BY <2>1, SubSeqProperties
<1>3. /\ SubSeq(s, n + 1, m) \in Seq(S)
      /\ Len(SubSeq(s, n + 1, m)) = (IF n + 1 <= m THEN m - (n + 1) + 1 ELSE 0)
      /\ \A i \in 1..(m - (n + 1) + 1) : SubSeq(s, n + 1, m)[i] = s[(n + 1) + i - 1]
  <2>1. \A i \in (n + 1)..m : s[i] \in S  BY <1>1
  <2> QED BY <1>1, <2>1, SubSeqProperties
<1>4. n <= m
  BY DEF m
<1>5. /\ Len(SubSeq(s, 1, n)) = n
      /\ \A i \in 1..n : SubSeq(s, 1, n)[i] = s[i]
  BY <1>2
<1>6. Len(SubSeq(s, n + 1, m)) = m - n
  BY <1>1, <1>3, <1>4
<1>7. \A i \in 1..(m - n) : SubSeq(s, n + 1, m)[i] = s[n + i]
  BY <1>1, <1>3, <1>4
<1> QED BY <1>2, <1>3, <1>5, <1>6, <1>7 DEF m

\* A beginning is a part from the first element on.
LEMMA BeginningIsPart ==
  ASSUME NEW S, NEW s \in Seq(S), NEW t \in Seq(S), Begins(s, t)
  PROVE  \E n \in 0..Len(t) : s = SubSeq(t, 1, n)
<1> DEFINE n == Len(s)
<1>1. n \in Nat /\ Len(t) \in Nat /\ n <= Len(t)
  BY LenProperties DEF Begins
<1>2. /\ SubSeq(t, 1, n) \in Seq(S) /\ Len(SubSeq(t, 1, n)) = n
      /\ \A i \in 1..n : SubSeq(t, 1, n)[i] = t[i]
  BY <1>1, Cut
<1>3. s = SubSeq(t, 1, n)
  <2> DEFINE b == SubSeq(t, 1, n)
  <2> HIDE DEF b
  <2>1. b \in Seq(S) /\ Len(b) = Len(s) /\ \A i \in 1..Len(s) : s[i] = b[i]
    BY <1>2 DEF b, Begins
  <2> QED BY <2>1, SeqEqual DEF b
<1>4. n \in 0..Len(t)
  BY <1>1
<1> HIDE DEF n
<1> QED BY <1>3, <1>4

\* Sequences that are put together.
LEMMA Joined ==
  ASSUME NEW S, NEW s \in Seq(S), NEW t \in Seq(S)
  PROVE  /\ s \o t \in Seq(S) /\ Len(s \o t) = Len(s) + Len(t)
         /\ \A i \in 1..Len(s) : (s \o t)[i] = s[i]
         /\ \A i \in 1..Len(t) : (s \o t)[Len(s) + i] = t[i]
<1> DEFINE m == Len(s)
           n == Len(t)
           j == s \o t
<1>1. m \in Nat /\ n \in Nat
  BY LenProperties
<1>2. /\ j \in Seq(S) /\ Len(j) = m + n
      /\ \A i \in 1..(m + n) : j[i] = IF i <= m THEN s[i] ELSE t[i - m]
  BY ConcatProperties
<1> HIDE DEF m, n, j
<1>3. \A i \in 1..m : j[i] = s[i]
  BY <1>1, <1>2
<1>4. \A i \in 1..n : j[m + i] = t[i]
  BY <1>1, <1>2
<1> QED BY <1>2, <1>3, <1>4 DEF m, n, j

LEMMA Appended ==
  ASSUME NEW S, NEW s \in Seq(S), NEW e \in S
  PROVE  /\ Append(s, e) \in Seq(S) /\ Len(Append(s, e)) = Len(s) + 1
         /\ \A i \in 1..Len(s) : Append(s, e)[i] = s[i]
         /\ Append(s, e)[Len(s) + 1] = e
  BY AppendProperties

LEMMA EmptyOrNot ==
  ASSUME NEW S, NEW s \in Seq(S)
  PROVE  Len(s) \in Nat /\ (s = <<>> <=> Len(s) = 0)
  BY EmptySeq, LenProperties

\* The end of a sequence that follows its first p elements.
IsRest(x, s, p) ==
  p <= Len(s) /\ Len(x) = Len(s) - p /\ \A j \in 1..Len(x) : x[j] = s[p + j]

\* The two parts of what comes, one after the other, are what comes.
LEMMA Divided ==
  ASSUME NEW S, NEW u \in Seq(S), NEW g \in Seq(S), NEW n \in Nat, n <= Len(u)
  PROVE  (g \o SubSeq(u, 1, n)) \o SubSeq(u, n + 1, Len(u)) = g \o u
<1> DEFINE m == Len(u)
           a == SubSeq(u, 1, n)
           b == SubSeq(u, n + 1, m)
<1>1. a \in Seq(S) /\ b \in Seq(S)
  BY Cut
<1>2. m \in Nat /\ n <= m
  BY EmptyOrNot
<1>3. a \o b = SubSeq(u, 1, m)
  <2> HIDE DEF m
  <2>1. 1 \in 1..(Len(u) + 1) /\ n \in (1 - 1)..Len(u) /\ Len(u) \in n..Len(u) /\ m = Len(u)
    BY <1>2 DEF m
  <2>2. SubSeq(u, 1, n) \o SubSeq(u, n + 1, Len(u)) = SubSeq(u, 1, Len(u))
    BY <2>1, ConcatAdjacentSubSeq
  <2> QED BY <2>1, <2>2
<1>4. a \o b = u
  BY <1>3, SubSeqFull
<1> HIDE DEF a, b
<1>5. (g \o a) \o b = g \o (a \o b)
  BY <1>1, ConcatAssociative
<1> QED BY <1>4, <1>5 DEF a, b

\* A beginning of a beginning.
LEMMA BeginsTransitive ==
  ASSUME NEW S, NEW s \in Seq(S), NEW t \in Seq(S), NEW u \in Seq(S), Begins(s, t), Begins(t, u)
  PROVE  Begins(s, u)
<1>1. Len(s) \in Nat /\ Len(t) \in Nat /\ Len(u) \in Nat
  BY EmptyOrNot
<1> QED BY <1>1 DEF Begins

\* A beginning of what was checked.
LEMMA EarlierBegins ==
  ASSUME NEW S, NEW s \in Seq(S), NEW t \in Seq(S), NEW g, Len(g) \in Nat, Begins(s \o t, g)
  PROVE  Begins(s, g)
<1>1. /\ Len(s \o t) = Len(s) + Len(t) /\ Len(t) \in Nat /\ Len(s) \in Nat
      /\ \A i \in 1..Len(s) : (s \o t)[i] = s[i]
  BY Joined, EmptyOrNot
<1>2. Len(s \o t) <= Len(g) /\ \A i \in 1..Len(s \o t) : (s \o t)[i] = g[i]
  BY DEF Begins
<1> DEFINE z == s \o t
<1> HIDE DEF z
<1>3. /\ Len(z) = Len(s) + Len(t) /\ \A i \in 1..Len(s) : z[i] = s[i]
      /\ Len(z) <= Len(g) /\ \A i \in 1..Len(z) : z[i] = g[i]
  BY <1>1, <1>2 DEF z
<1>4. Len(s) <= Len(g) /\ \A i \in 1..Len(s) : s[i] = g[i]
  BY ONLY <1>1, <1>3, Len(g) \in Nat
<1> QED BY <1>4 DEF Begins

-----------------------------------------------------------------------------
(* A file of a volume.                                                      *)

FilePlain == {"data", "size", "garbage"} \X Nat \X Nat

FileByte == FilePlain \cup ({"crc"} \X Seq(FilePlain) \X Nat)

FileWriter ==
  [out : Seq(FileByte), mChunkOffset : 0..ChunkSize, mCrc : Seq(FilePlain),
   mIsHeaderCompleted : BOOLEAN, data : Seq(FilePlain)]

Chunks(n) == \E q \in Nat : n = q * ChunkSize

\* The checksum covers the size and all data.
Covers(w) ==
  IF w.mIsHeaderCompleted
  THEN /\ w.mCrc = Volume!SizeWord(ChunkSize) \o w.data
       /\ WordSize <= Len(w.out) /\ \A i \in 1..WordSize : w.out[i] = <<"size", ChunkSize, i>>
  ELSE w.out = <<>> /\ w.mCrc = <<>> /\ w.data = <<>> /\ w.mChunkOffset = 0

\* A checksum is of a beginning of the file that ends with a chunk, or of all.
Vouched(d, w, closed) ==
  /\ d \in Seq(FilePlain) /\ Begins(d, w.mCrc)
  /\ (Chunks(Len(d) - WordSize) /\ WordSize <= Len(d)) \/ (closed /\ Len(d) = Len(w.mCrc))

Marks(s, w, closed) ==
  \A i \in 1..Len(s) : s[i][1] = "crc" => Vouched(s[i][2], w, closed)

\* After p bytes of the transfer and k of the data, n data bytes and their checksum.
ChunkAt(w, p, k, n) ==
  /\ p + n + WordSize <= Len(w.out) /\ k + n <= Len(w.data)
  /\ \A j \in 1..n : w.out[p + j] = w.data[k + j]
  /\ \E d \in Seq(FilePlain) :
       /\ Begins(d, w.mCrc) /\ Len(d) = WordSize + k + n
       /\ \A j \in 1..WordSize : w.out[p + n + j] = <<"crc", d, j>>

\* A full chunk, after which come others.
FullAt(w, S, p, k) ==
  ChunkAt(w, p, k, ChunkSize) /\ <<p + ChunkSize + WordSize, k + ChunkSize>> \in S

\* What was written of a chunk whose checksum was not.
OpenAt(w, p, k) ==
  /\ k + w.mChunkOffset = Len(w.data) /\ p + w.mChunkOffset = Len(w.out)
  /\ \A j \in 1..w.mChunkOffset : w.out[p + j] = w.data[k + j]

\* The last chunk, or the end.
LastAt(w, p, k) ==
  \/ p = Len(w.out) /\ k = Len(w.data)
  \/ \E n \in 1..ChunkSize :
       ChunkAt(w, p, k, n) /\ p + n + WordSize = Len(w.out) /\ k + n = Len(w.data)

\* The places where chunks start, by what lies before them.
Places == SUBSET (Nat \X Nat)

Framed(w, S, closed) ==
  /\ S \in Places /\ <<WordSize, 0>> \in S
  /\ \A p, k \in Nat : <<p, k>> \in S =>
       FullAt(w, S, p, k) \/ (IF closed THEN LastAt(w, p, k) ELSE OpenAt(w, p, k))

FileOK(w, closed) ==
  /\ w \in FileWriter /\ Covers(w) /\ Marks(w.out, w, closed)
  /\ w.mIsHeaderCompleted => \E S \in Places : Framed(w, S, closed)

Writing(w) == FileOK(w, FALSE) /\ Chunks(Len(w.data) - w.mChunkOffset)

LEMMA VolumeConstants ==
  /\ WordSize \in Nat \ {0} /\ ChunkSize \in Nat \ {0} /\ MaxChunkSize \in Nat \ {0}
  /\ ChunkSize <= MaxChunkSize /\ MaxData \in Nat /\ MaxRead \in Nat \ {0}
  BY TransfersAssumption DEF Volume!VolumeAssumption, Arrow!WordAssumption

LEMMA ChunksAdd ==
  ASSUME NEW n \in Int, Chunks(n)
  PROVE  Chunks(n + ChunkSize) /\ n % ChunkSize = 0 /\ n \in Nat
<1>1. PICK q \in Nat : n = q * ChunkSize
  BY DEF Chunks
<1>2. ChunkSize \in Nat \ {0}
  BY VolumeConstants
<1>3. n + ChunkSize = (q + 1) * ChunkSize /\ q + 1 \in Nat
  BY <1>1, <1>2
<1>4. n \in Nat
  BY <1>1, <1>2
<1>5. n % ChunkSize = 0
  <2> DEFINE d == n \div ChunkSize
             r == n % ChunkSize
  <2>1. d \in Int /\ r \in 0..(ChunkSize - 1) /\ n = ChunkSize * d + r  BY <1>2
  <2> HIDE DEF d, r
  <2>2. ChunkSize * (q - d) = r  BY <1>1, <1>2, <2>1
  <2>3. CASE q - d >= 1
    <3>1. ChunkSize * (q - d) >= ChunkSize  BY <1>2, <2>1, <2>3
    <3> QED BY <1>2, <2>1, <2>2, <3>1
  <2>4. CASE q - d <= 0
    <3>1. ChunkSize * (q - d) <= 0  BY <1>2, <2>1, <2>4
    <3> QED BY <1>2, <2>1, <2>2, <3>1 DEF r
  <2> QED BY <2>1, <2>3, <2>4
<1> QED BY <1>3, <1>4, <1>5 DEF Chunks

\* A word of a size and a checksum.
LEMMA Words ==
  /\ \A n \in Nat : /\ Volume!SizeWord(n) \in Seq(FilePlain)
                    /\ Len(Volume!SizeWord(n)) = WordSize
                    /\ \A i \in 1..WordSize : Volume!SizeWord(n)[i] = <<"size", n, i>>
  /\ \A d \in Seq(FilePlain) : d # <<>> =>
       /\ Volume!Checksum(d) \in Seq(FileByte) /\ Len(Volume!Checksum(d)) = WordSize
       /\ \A i \in 1..WordSize : Volume!Checksum(d)[i] = <<"crc", d, i>>
<1>1. WordSize \in Nat
  BY VolumeConstants
<1>2. ASSUME NEW n \in Nat
      PROVE  /\ Volume!SizeWord(n) \in Seq(FilePlain) /\ Len(Volume!SizeWord(n)) = WordSize
             /\ \A i \in 1..WordSize : Volume!SizeWord(n)[i] = <<"size", n, i>>
  <2> DEFINE s == [i \in 1..WordSize |-> <<"size", n, i>>]
  <2>1. \A i \in 1..WordSize : <<"size", n, i>> \in FilePlain
    BY <1>1 DEF FilePlain
  <2>2. s \in [1..WordSize -> FilePlain]  BY <2>1
  <2>3. s \in Seq(FilePlain) /\ Len(s) = WordSize  BY <1>1, <2>2
  <2> QED BY <2>3 DEF Volume!SizeWord
<1>3. ASSUME NEW d \in Seq(FilePlain), d # <<>>
      PROVE  /\ Volume!Checksum(d) \in Seq(FileByte) /\ Len(Volume!Checksum(d)) = WordSize
             /\ \A i \in 1..WordSize : Volume!Checksum(d)[i] = <<"crc", d, i>>
  <2> DEFINE s == [i \in 1..WordSize |-> <<"crc", d, i>>]
  <2>1. \A i \in 1..WordSize : <<"crc", d, i>> \in FileByte  BY <1>1 DEF FileByte
  <2>2. s \in [1..WordSize -> FileByte]  BY <2>1
  <2>3. s \in Seq(FileByte) /\ Len(s) = WordSize  BY <1>1, <2>2
  <2> QED BY <1>3, <2>3 DEF Volume!Checksum
<1> QED BY <1>2, <1>3

\* What was framed stays framed as the transfer grows.
LEMMA ChunkStays ==
  ASSUME NEW w \in FileWriter, NEW v \in FileWriter,
         Begins(w.out, v.out), Begins(w.data, v.data), Begins(w.mCrc, v.mCrc),
         NEW p \in Nat, NEW k \in Nat, NEW n \in Nat, ChunkAt(w, p, k, n)
  PROVE  ChunkAt(v, p, k, n)
<1>1. /\ w.out \in Seq(FileByte) /\ w.data \in Seq(FilePlain) /\ w.mCrc \in Seq(FilePlain)
      /\ v.out \in Seq(FileByte) /\ v.data \in Seq(FilePlain) /\ v.mCrc \in Seq(FilePlain)
  BY DEF FileWriter
<1>2. /\ Len(w.out) \in Nat /\ Len(w.data) \in Nat /\ Len(v.out) \in Nat /\ Len(v.data) \in Nat
      /\ WordSize \in Nat
  BY <1>1, EmptyOrNot, VolumeConstants
<1>3. p + n + WordSize <= Len(w.out) /\ k + n <= Len(w.data)
  BY DEF ChunkAt
<1>4. /\ p + n + WordSize <= Len(v.out) /\ k + n <= Len(v.data)
      /\ \A i \in 1..Len(w.out) : w.out[i] = v.out[i]
      /\ \A i \in 1..Len(w.data) : w.data[i] = v.data[i]
  BY <1>2, <1>3 DEF Begins
<1>5. \A j \in 1..n : v.out[p + j] = v.data[k + j]
  <2>1. ASSUME NEW j \in 1..n PROVE v.out[p + j] = v.data[k + j]
    <3>1. p + j \in 1..Len(w.out) /\ k + j \in 1..Len(w.data)  BY <1>2, <1>3
    <3>2. w.out[p + j] = w.data[k + j]  BY DEF ChunkAt
    <3> QED BY <1>4, <3>1, <3>2
  <2> QED BY <2>1
<1>6. PICK d \in Seq(FilePlain) :
        /\ Begins(d, w.mCrc) /\ Len(d) = WordSize + k + n
        /\ \A j \in 1..WordSize : w.out[p + n + j] = <<"crc", d, j>>
  BY DEF ChunkAt
<1>7. \A j \in 1..WordSize : v.out[p + n + j] = <<"crc", d, j>>
  <2>1. ASSUME NEW j \in 1..WordSize PROVE v.out[p + n + j] = <<"crc", d, j>>
    <3>1. p + n + j \in 1..Len(w.out)  BY <1>2, <1>3
    <3> QED BY <1>4, <1>6, <3>1
  <2> QED BY <2>1
<1>8. Begins(d, v.mCrc)
  BY <1>1, <1>6, BeginsTransitive
<1> QED BY <1>4, <1>5, <1>6, <1>7, <1>8 DEF ChunkAt

LEMMA VouchedStays ==
  ASSUME NEW w \in FileWriter, NEW v \in FileWriter, Begins(w.mCrc, v.mCrc), NEW closed \in BOOLEAN,
         closed => v.mCrc = w.mCrc, NEW d, Vouched(d, w, closed)
  PROVE  Vouched(d, v, closed)
<1>1. w.mCrc \in Seq(FilePlain) /\ v.mCrc \in Seq(FilePlain) /\ d \in Seq(FilePlain)
  BY DEF FileWriter, Vouched
<1>2. Begins(d, v.mCrc)
  BY <1>1, BeginsTransitive DEF Vouched
<1> QED BY <1>2 DEF Vouched

\* The checksum of all so far follows.
WithChecksum(w) == [w EXCEPT !.out = @ \o Volume!Checksum(w.mCrc)]

LEMMA ChecksumFollows ==
  ASSUME NEW w, FileOK(w, FALSE), w.mIsHeaderCompleted
  PROVE  LET v == WithChecksum(w)
         IN  /\ v \in FileWriter /\ Covers(v)
             /\ v.data = w.data /\ v.mCrc = w.mCrc /\ v.mChunkOffset = w.mChunkOffset
             /\ v.mIsHeaderCompleted /\ Begins(w.out, v.out) /\ Len(v.out) = Len(w.out) + WordSize
             /\ Len(w.mCrc) = WordSize + Len(w.data)
             /\ \A j \in 1..WordSize : v.out[Len(w.out) + j] = <<"crc", w.mCrc, j>>
<1> DEFINE c == Volume!Checksum(w.mCrc)
           o == w.out \o c
           v == WithChecksum(w)
<1>1. /\ w \in FileWriter /\ w.out \in Seq(FileByte) /\ w.mCrc \in Seq(FilePlain)
      /\ w.data \in Seq(FilePlain)
  BY DEF FileOK, FileWriter
<1>2. /\ Len(w.out) \in Nat /\ Len(w.data) \in Nat /\ WordSize \in Nat \ {0} /\ ChunkSize \in Nat
  BY <1>1, EmptyOrNot, VolumeConstants
<1>3. Len(w.mCrc) = WordSize + Len(w.data) /\ w.mCrc # <<>>
  <2>1. w.mCrc = Volume!SizeWord(ChunkSize) \o w.data  BY DEF FileOK, Covers
  <2>2. Len(w.mCrc) = WordSize + Len(w.data)  BY <1>1, <1>2, <2>1, Words, Joined
  <2> QED BY <1>1, <1>2, <2>2, EmptyOrNot
<1>4. c \in Seq(FileByte) /\ Len(c) = WordSize /\ \A i \in 1..WordSize : c[i] = <<"crc", w.mCrc, i>>
  BY <1>1, <1>3, Words
<1>5. /\ o \in Seq(FileByte) /\ Len(o) = Len(w.out) + WordSize
      /\ \A i \in 1..Len(w.out) : o[i] = w.out[i]
      /\ \A i \in 1..WordSize : o[Len(w.out) + i] = c[i]
  <2> HIDE DEF c
  <2> DEFINE s == w.out
  <2>1. s \in Seq(FileByte) /\ c \in Seq(FileByte)  BY <1>1, <1>4
  <2> HIDE DEF s
  <2>2. /\ s \o c \in Seq(FileByte) /\ Len(s \o c) = Len(s) + Len(c)
        /\ \A i \in 1..Len(s) : (s \o c)[i] = s[i]
        /\ \A i \in 1..Len(c) : (s \o c)[Len(s) + i] = c[i]
    BY <2>1, Joined
  <2> QED BY <1>4, <2>2 DEF s
<1>6. /\ v.out = o /\ v.data = w.data /\ v.mCrc = w.mCrc /\ v.mChunkOffset = w.mChunkOffset
      /\ v.mIsHeaderCompleted = w.mIsHeaderCompleted
  BY <1>1 DEF WithChecksum, FileWriter
<1>7. v \in FileWriter
  <2> HIDE DEF c, o
  <2>1. v = [w EXCEPT !.out = o]  BY <1>1 DEF WithChecksum, o, c, FileWriter
  <2> QED BY <1>1, <1>5, <2>1 DEF FileWriter
<1> HIDE DEF c, o, v
<1>8. Begins(w.out, v.out) /\ Len(v.out) = Len(w.out) + WordSize
  BY <1>2, <1>5, <1>6 DEF Begins
<1>9. Covers(v)
  <2>1. WordSize <= Len(w.out) /\ \A i \in 1..WordSize : w.out[i] = <<"size", ChunkSize, i>>
    BY DEF FileOK, Covers
  <2>2. WordSize <= Len(v.out) /\ \A i \in 1..WordSize : v.out[i] = <<"size", ChunkSize, i>>
    <3>1. ASSUME NEW i \in 1..WordSize PROVE v.out[i] = <<"size", ChunkSize, i>>
      <4>1. i \in 1..Len(w.out)  BY <1>2, <2>1
      <4> QED BY <1>5, <1>6, <2>1, <4>1
    <3> QED BY <1>2, <1>5, <1>6, <2>1, <3>1
  <2>3. v.mCrc = Volume!SizeWord(ChunkSize) \o v.data  BY <1>6 DEF FileOK, Covers
  <2> QED BY <1>6, <2>2, <2>3 DEF Covers
<1>10. \A j \in 1..WordSize : v.out[Len(w.out) + j] = <<"crc", w.mCrc, j>>
  BY <1>4, <1>5, <1>6
<1> QED BY <1>3, <1>6, <1>7, <1>8, <1>9, <1>10 DEF v

\* What was open is then a chunk.
LEMMA OpenIsChunk ==
  ASSUME NEW w, FileOK(w, FALSE), w.mIsHeaderCompleted,
         NEW p \in Nat, NEW k \in Nat, OpenAt(w, p, k)
  PROVE  /\ ChunkAt(WithChecksum(w), p, k, w.mChunkOffset)
         /\ p + w.mChunkOffset + WordSize = Len(WithChecksum(w).out)
         /\ k + w.mChunkOffset = Len(WithChecksum(w).data)
<1> DEFINE v == WithChecksum(w)
           n == w.mChunkOffset
<1>1. /\ w \in FileWriter /\ w.out \in Seq(FileByte) /\ w.mCrc \in Seq(FilePlain)
      /\ w.data \in Seq(FilePlain) /\ n \in 0..ChunkSize
  BY DEF FileOK, FileWriter
<1>2. /\ Len(w.out) \in Nat /\ Len(w.data) \in Nat /\ WordSize \in Nat \ {0}
      /\ ChunkSize \in Nat /\ n \in Nat /\ Len(w.mCrc) \in Nat
  BY <1>1, EmptyOrNot, VolumeConstants
<1>3. /\ v.data = w.data /\ v.mCrc = w.mCrc
      /\ Begins(w.out, v.out) /\ Len(v.out) = Len(w.out) + WordSize
      /\ Len(w.mCrc) = WordSize + Len(w.data)
      /\ \A j \in 1..WordSize : v.out[Len(w.out) + j] = <<"crc", w.mCrc, j>>
  BY ChecksumFollows
<1>4. /\ k + n = Len(w.data) /\ p + n = Len(w.out)
      /\ \A j \in 1..n : w.out[p + j] = w.data[k + j]
  BY DEF OpenAt
<1> HIDE DEF v, n
<1>5. p + n + WordSize <= Len(v.out) /\ k + n <= Len(v.data)
  BY <1>2, <1>3, <1>4
<1>6. \A j \in 1..n : v.out[p + j] = v.data[k + j]
  <2>1. ASSUME NEW j \in 1..n PROVE v.out[p + j] = v.data[k + j]
    <3>1. p + j \in 1..Len(w.out)  BY <1>2, <1>4
    <3> QED BY <1>3, <1>4, <3>1 DEF Begins
  <2> QED BY <2>1
<1>7. Begins(w.mCrc, v.mCrc) /\ Len(w.mCrc) = WordSize + k + n
  <2>1. Len(w.mCrc) = WordSize + k + n
    <3> DEFINE a == Len(w.mCrc)
               b == Len(w.data)
    <3>1. a = WordSize + b /\ k + n = b /\ WordSize \in Nat /\ n \in Nat
      BY <1>2, <1>3, <1>4
    <3> HIDE DEF a, b
    <3>2. a = WordSize + k + n  BY <3>1
    <3> QED BY <3>2 DEF a
  <2>2. Begins(w.mCrc, w.mCrc)  BY <1>2 DEF Begins
  <2> QED BY <1>3, <2>1, <2>2
<1>8. \A j \in 1..WordSize : v.out[p + n + j] = <<"crc", w.mCrc, j>>
  BY <1>3, <1>4
<1>9. ChunkAt(v, p, k, n)
  BY <1>1, <1>5, <1>6, <1>7, <1>8 DEF ChunkAt
<1> QED BY <1>2, <1>3, <1>4, <1>9 DEF v, n

\* The checksums of a transfer after one more.
LEMMA ChecksumVouched ==
  ASSUME NEW w, FileOK(w, FALSE), w.mIsHeaderCompleted, NEW closed \in BOOLEAN,
         closed \/ Chunks(Len(w.data))
  PROVE  Marks(WithChecksum(w).out, WithChecksum(w), closed)
<1> DEFINE v == WithChecksum(w)
<1>1. /\ v \in FileWriter /\ v.mCrc = w.mCrc
      /\ Begins(w.out, v.out) /\ Len(v.out) = Len(w.out) + WordSize
      /\ Len(w.mCrc) = WordSize + Len(w.data)
      /\ \A j \in 1..WordSize : v.out[Len(w.out) + j] = <<"crc", w.mCrc, j>>
  BY ChecksumFollows
<1>2. /\ w \in FileWriter /\ w.out \in Seq(FileByte) /\ w.mCrc \in Seq(FilePlain)
      /\ w.data \in Seq(FilePlain)
  BY DEF FileOK, FileWriter
<1>3. /\ Len(w.out) \in Nat /\ Len(w.data) \in Nat /\ WordSize \in Nat \ {0} /\ Len(w.mCrc) \in Nat
  BY <1>2, EmptyOrNot, VolumeConstants
<1> HIDE DEF v
<1>4. Vouched(w.mCrc, v, closed)
  <2>1. Begins(w.mCrc, v.mCrc)  BY <1>1, <1>3 DEF Begins
  <2>2. Len(w.mCrc) - WordSize = Len(w.data) /\ WordSize <= Len(w.mCrc)
    BY <1>1, <1>3
  <2> QED BY <1>1, <1>2, <2>1, <2>2 DEF Vouched
<1>5. ASSUME NEW i \in 1..Len(v.out), v.out[i][1] = "crc" PROVE Vouched(v.out[i][2], v, closed)
  <2>1. CASE i <= Len(w.out)
    <3>1. i \in 1..Len(w.out) /\ v.out[i] = w.out[i]
      BY <1>1, <1>3, <2>1 DEF Begins
    <3>2. Vouched(w.out[i][2], w, FALSE)  BY <1>5, <3>1 DEF FileOK, Marks
    <3> QED BY <1>1, <3>1, <3>2 DEF Vouched
  <2>2. CASE i > Len(w.out)
    <3>1. i - Len(w.out) \in 1..WordSize /\ i = Len(w.out) + (i - Len(w.out))
      BY <1>1, <1>3, <2>2
    <3>2. v.out[i] = <<"crc", w.mCrc, i - Len(w.out)>>  BY <1>1, <3>1
    <3> QED BY <1>4, <3>2
  <2> QED BY <1>1, <1>3, <2>1, <2>2
<1> QED BY <1>5 DEF Marks, v

\* A byte of a chunk that is not full.
ShortPut(w, x) ==
  [w EXCEPT !.out = Append(@, x), !.mCrc = Append(@, x), !.mChunkOffset = @ + 1,
            !.data = Append(@, x)]

LEMMA ShortPutGrows ==
  ASSUME NEW w \in FileWriter, w.mChunkOffset < ChunkSize, NEW x \in FilePlain
  PROVE  LET v == ShortPut(w, x)
         IN  /\ v \in FileWriter /\ v.data = Append(w.data, x) /\ v.mCrc = Append(w.mCrc, x)
             /\ v.mChunkOffset = w.mChunkOffset + 1 /\ v.mIsHeaderCompleted = w.mIsHeaderCompleted
             /\ Begins(w.out, v.out) /\ Begins(w.data, v.data) /\ Begins(w.mCrc, v.mCrc)
             /\ Len(v.out) = Len(w.out) + 1 /\ v.out[Len(w.out) + 1] = x
             /\ Len(v.data) = Len(w.data) + 1 /\ v.data[Len(w.data) + 1] = x
<1> DEFINE v == ShortPut(w, x)
           o == w.out
           d == w.data
           c == w.mCrc
           n == w.mChunkOffset + 1
<1>1. /\ o \in Seq(FileByte) /\ c \in Seq(FilePlain) /\ d \in Seq(FilePlain)
      /\ w.mChunkOffset \in 0..ChunkSize /\ ChunkSize \in Nat
  BY VolumeConstants DEF FileWriter
<1>2. x \in FileByte /\ n \in 0..ChunkSize
  BY <1>1 DEF FileByte
<1>3. v = [w EXCEPT !.out = Append(o, x), !.mCrc = Append(c, x), !.mChunkOffset = n,
                    !.data = Append(d, x)]
  BY DEF ShortPut, FileWriter
<1>4. /\ v.data = Append(d, x) /\ v.mCrc = Append(c, x) /\ v.mChunkOffset = n /\ v.out = Append(o, x)
      /\ v.mIsHeaderCompleted = w.mIsHeaderCompleted
  BY DEF ShortPut, FileWriter
<1> HIDE DEF o, d, c, n, v
<1>5. /\ Append(o, x) \in Seq(FileByte) /\ Len(Append(o, x)) = Len(o) + 1
      /\ \A i \in 1..Len(o) : Append(o, x)[i] = o[i]
      /\ Append(o, x)[Len(o) + 1] = x
  BY <1>1, <1>2, Appended
<1>6. /\ Append(d, x) \in Seq(FilePlain) /\ Len(Append(d, x)) = Len(d) + 1
      /\ \A i \in 1..Len(d) : Append(d, x)[i] = d[i]
      /\ Append(d, x)[Len(d) + 1] = x
  BY <1>1, <1>2, Appended
<1>7. /\ Append(c, x) \in Seq(FilePlain) /\ Len(Append(c, x)) = Len(c) + 1
      /\ \A i \in 1..Len(c) : Append(c, x)[i] = c[i]
  BY <1>1, <1>2, Appended
<1>8. v \in FileWriter
  BY <1>2, <1>3, <1>5, <1>6, <1>7 DEF FileWriter
<1>9. Len(o) \in Nat /\ Len(d) \in Nat /\ Len(c) \in Nat
  BY <1>1, EmptyOrNot
<1>10. Begins(o, v.out) /\ Begins(d, v.data) /\ Begins(c, v.mCrc)
  BY <1>4, <1>5, <1>6, <1>7, <1>9 DEF Begins
<1> QED BY <1>4, <1>5, <1>6, <1>8, <1>10 DEF o, d, c, n, v

LEMMA FullStays ==
  ASSUME NEW w \in FileWriter, NEW v \in FileWriter,
         Begins(w.out, v.out), Begins(w.data, v.data), Begins(w.mCrc, v.mCrc),
         NEW S, NEW T, S \subseteq T,
         NEW p \in Nat, NEW k \in Nat, FullAt(w, S, p, k)
  PROVE  FullAt(v, T, p, k)
<1>1. ChunkSize \in Nat
  BY VolumeConstants
<1> QED BY <1>1, ChunkStays DEF FullAt

LEMMA ShortPutOK ==
  ASSUME NEW w, Writing(w), w.mIsHeaderCompleted, w.mChunkOffset < ChunkSize,
         NEW x \in FilePlain
  PROVE  Writing(ShortPut(w, x))
<1> DEFINE v == ShortPut(w, x)
<1>1. /\ w \in FileWriter /\ w.out \in Seq(FileByte) /\ w.mCrc \in Seq(FilePlain)
      /\ w.data \in Seq(FilePlain) /\ w.mChunkOffset \in 0..ChunkSize
  BY DEF Writing, FileOK, FileWriter
<1>2. /\ v \in FileWriter /\ v.data = Append(w.data, x) /\ v.mCrc = Append(w.mCrc, x)
      /\ v.mChunkOffset = w.mChunkOffset + 1 /\ v.mIsHeaderCompleted
      /\ Begins(w.out, v.out) /\ Begins(w.data, v.data) /\ Begins(w.mCrc, v.mCrc)
      /\ Len(v.out) = Len(w.out) + 1 /\ v.out[Len(w.out) + 1] = x
      /\ Len(v.data) = Len(w.data) + 1 /\ v.data[Len(w.data) + 1] = x
  BY <1>1, ShortPutGrows
<1>3. /\ Len(w.out) \in Nat /\ Len(w.data) \in Nat /\ WordSize \in Nat \ {0}
      /\ Len(w.mCrc) \in Nat /\ ChunkSize \in Nat /\ w.mChunkOffset \in Nat
  BY <1>1, EmptyOrNot, VolumeConstants
<1> HIDE DEF v
<1>4. Covers(v)
  <2> DEFINE word == Volume!SizeWord(ChunkSize)
             d == w.data
  <2>1. /\ w.mCrc = word \o d
        /\ WordSize <= Len(w.out) /\ \A i \in 1..WordSize : w.out[i] = <<"size", ChunkSize, i>>
    BY DEF Writing, FileOK, Covers
  <2>2. word \in Seq(FilePlain) /\ d \in Seq(FilePlain)  BY <1>1, <1>3, Words
  <2>3. v.mCrc = Append(word \o d, x) /\ v.data = Append(d, x)  BY <1>2, <2>1
  <2> HIDE DEF word, d
  <2>4. word \o d \in Seq(FilePlain) /\ <<x>> \in Seq(FilePlain)
    BY <2>2, ConcatProperties
  <2>5. Append(word \o d, x) = (word \o d) \o <<x>> /\ Append(d, x) = d \o <<x>>
    BY <2>2, <2>4, AppendIsConcat
  <2>6. (word \o d) \o <<x>> = word \o (d \o <<x>>)
    BY <2>2, <2>4, ConcatAssociative
  <2>7. v.mCrc = word \o v.data  BY <2>3, <2>5, <2>6
  <2>8. WordSize <= Len(v.out) /\ \A i \in 1..WordSize : v.out[i] = <<"size", ChunkSize, i>>
    <3>1. ASSUME NEW i \in 1..WordSize PROVE v.out[i] = <<"size", ChunkSize, i>>
      <4>1. i \in 1..Len(w.out)  BY <1>3, <2>1
      <4> QED BY <1>2, <2>1, <4>1 DEF Begins
    <3> QED BY <1>2, <1>3, <2>1, <3>1
  <2> QED BY <1>2, <2>7, <2>8 DEF Covers, word
<1>5. Marks(v.out, v, FALSE)
  <2>1. ASSUME NEW i \in 1..Len(v.out), v.out[i][1] = "crc" PROVE Vouched(v.out[i][2], v, FALSE)
    <3>1. i # Len(w.out) + 1
      <4>1. x[1] # "crc"  BY DEF FilePlain
      <4> QED BY <1>2, <2>1, <4>1
    <3>2. i \in 1..Len(w.out)  BY <1>2, <1>3, <3>1
    <3>3. w.out[i] = v.out[i]  BY <1>2, <3>2 DEF Begins
    <3>4. Vouched(v.out[i][2], w, FALSE)
      BY <2>1, <3>2, <3>3 DEF Writing, FileOK, Marks
    <3> QED BY <1>1, <1>2, <3>4, VouchedStays
  <2> QED BY <2>1 DEF Marks
<1>6. PICK S \in Places : Framed(w, S, FALSE)
  BY DEF Writing, FileOK
<1>7. ASSUME NEW p \in Nat, NEW k \in Nat, <<p, k>> \in S
      PROVE  FullAt(v, S, p, k) \/ OpenAt(v, p, k)
  <2>1. CASE FullAt(w, S, p, k)  BY <1>1, <1>2, <2>1, FullStays
  <2>2. CASE OpenAt(w, p, k)
    <3> DEFINE n == w.mChunkOffset
    <3>1. /\ k + n = Len(w.data) /\ p + n = Len(w.out) /\ n \in Nat
          /\ \A j \in 1..n : w.out[p + j] = w.data[k + j]
      BY <1>3, <2>2 DEF OpenAt
    <3>2. v.mChunkOffset = n + 1  BY <1>2
    <3> HIDE DEF n
    <3>3. k + (n + 1) = Len(v.data) /\ p + (n + 1) = Len(v.out)
      <4> DEFINE a == Len(w.data)
                 b == Len(w.out)
                 c == Len(v.data)
                 d == Len(v.out)
      <4>1. k + n = a /\ p + n = b /\ c = a + 1 /\ d = b + 1  BY <1>2, <3>1
      <4> HIDE DEF a, b, c, d
      <4>2. k + (n + 1) = c /\ p + (n + 1) = d  BY <3>1, <4>1
      <4> QED BY <4>2 DEF c, d
    <3>4. ASSUME NEW j \in 1..(n + 1) PROVE v.out[p + j] = v.data[k + j]
      <4>1. CASE j = n + 1
        <5>1. p + j = Len(w.out) + 1 /\ k + j = Len(w.data) + 1  BY <3>1, <4>1
        <5> QED BY <1>2, <5>1
      <4>2. CASE j # n + 1
        <5>1. j \in 1..n /\ p + j \in 1..Len(w.out) /\ k + j \in 1..Len(w.data)
          BY <1>3, <3>1, <4>2
        <5> QED BY <1>2, <3>1, <5>1 DEF Begins
      <4> QED BY <4>1, <4>2
    <3> QED BY <3>2, <3>3, <3>4 DEF OpenAt
  <2> QED BY <1>6, <1>7, <2>1, <2>2 DEF Framed
<1>8. Framed(v, S, FALSE)
  BY <1>6, <1>7 DEF Framed
<1>9. Chunks(Len(v.data) - v.mChunkOffset)
  <2>1. Len(v.data) - v.mChunkOffset = Len(w.data) - w.mChunkOffset
    <3> DEFINE a == Len(w.data)
               b == w.mChunkOffset
               c == Len(v.data)
    <3>1. c = a + 1 /\ v.mChunkOffset = b + 1 /\ a \in Nat /\ b \in Nat
      BY <1>2, <1>3
    <3> HIDE DEF a, b, c
    <3>2. c - v.mChunkOffset = a - b  BY <3>1
    <3> QED BY <3>2 DEF a, b, c
  <2> QED BY <2>1 DEF Writing
<1> QED BY <1>2, <1>4, <1>5, <1>8, <1>9 DEF Writing, FileOK, v

\* A full chunk is sealed with its checksum.
Sealed(w) == [WithChecksum(w) EXCEPT !.mChunkOffset = 0]

LEMMA SealedOK ==
  ASSUME NEW w, Writing(w), w.mIsHeaderCompleted, w.mChunkOffset = ChunkSize
  PROVE  /\ Writing(Sealed(w)) /\ Sealed(w).mIsHeaderCompleted
         /\ Sealed(w).data = w.data /\ Sealed(w).mChunkOffset = 0
<1> DEFINE u == WithChecksum(w)
           v == Sealed(w)
<1>1. /\ w \in FileWriter /\ w.out \in Seq(FileByte) /\ w.mCrc \in Seq(FilePlain)
      /\ w.data \in Seq(FilePlain) /\ w.mChunkOffset \in 0..ChunkSize /\ FileOK(w, FALSE)
  BY DEF Writing, FileOK, FileWriter
<1>2. /\ u \in FileWriter /\ Covers(u)
      /\ u.data = w.data /\ u.mCrc = w.mCrc /\ u.mChunkOffset = w.mChunkOffset
      /\ u.mIsHeaderCompleted /\ Begins(w.out, u.out) /\ Len(u.out) = Len(w.out) + WordSize
      /\ Len(w.mCrc) = WordSize + Len(w.data)
  BY <1>1, ChecksumFollows
<1>3. /\ Len(w.out) \in Nat /\ Len(w.data) \in Nat /\ WordSize \in Nat \ {0}
      /\ Len(w.mCrc) \in Nat /\ ChunkSize \in Nat \ {0}
  BY <1>1, EmptyOrNot, VolumeConstants
<1>4. Chunks(Len(w.data))
  <2>1. Chunks(Len(w.data) - ChunkSize) /\ Len(w.data) - ChunkSize \in Int
    BY <1>3 DEF Writing
  <2>2. Chunks((Len(w.data) - ChunkSize) + ChunkSize)  BY <2>1, ChunksAdd
  <2>3. (Len(w.data) - ChunkSize) + ChunkSize = Len(w.data)  BY <1>3
  <2> QED BY <2>2, <2>3
<1>5. Marks(u.out, u, FALSE)
  BY <1>1, <1>4, ChecksumVouched
<1>6. /\ v \in FileWriter /\ v.out = u.out /\ v.data = u.data /\ v.mCrc = u.mCrc
      /\ v.mChunkOffset = 0 /\ v.mIsHeaderCompleted
  <2> HIDE DEF u
  <2>1. v = [u EXCEPT !.mChunkOffset = 0] /\ 0 \in 0..ChunkSize
    BY <1>3 DEF Sealed, u
  <2> HIDE DEF v
  <2> QED BY <1>2, <2>1 DEF FileWriter
<1> HIDE DEF u, v
<1>7. Covers(v)
  BY <1>2, <1>6 DEF Covers
<1>8. Marks(v.out, v, FALSE)
  BY <1>5, <1>6 DEF Marks, Vouched
<1>9. PICK S \in Places : Framed(w, S, FALSE)
  BY <1>1 DEF FileOK
<1> DEFINE e == <<Len(w.out) + WordSize, Len(w.data)>>
           T == S \cup {e}
<1>10. T \in Places /\ <<WordSize, 0>> \in T
  BY <1>3, <1>9 DEF Places, Framed
<1>11. ASSUME NEW p \in Nat, NEW k \in Nat, <<p, k>> \in T
       PROVE  FullAt(v, T, p, k) \/ OpenAt(v, p, k)
  <2>1. CASE <<p, k>> \in S
    <3>1. CASE FullAt(w, S, p, k)
      <4>1. Begins(w.data, v.data) /\ Begins(w.mCrc, v.mCrc) /\ Begins(w.out, v.out)
        BY <1>2, <1>3, <1>6 DEF Begins
      <4> QED BY <1>1, <1>6, <3>1, <4>1, FullStays
    <3>2. CASE OpenAt(w, p, k)
      <4>1. /\ ChunkAt(u, p, k, ChunkSize)
            /\ p + ChunkSize + WordSize = Len(u.out) /\ k + ChunkSize = Len(u.data)
        BY <1>1, <3>2, OpenIsChunk DEF u
      <4>2. ChunkAt(v, p, k, ChunkSize)  BY <1>6, <4>1 DEF ChunkAt
      <4>3. <<p + ChunkSize + WordSize, k + ChunkSize>> = e  BY <1>2, <4>1
      <4> QED BY <4>2, <4>3 DEF FullAt
    <3> QED BY <1>9, <2>1, <3>1, <3>2 DEF Framed
  <2>2. CASE <<p, k>> = e
    <3>1. p = Len(v.out) /\ k = Len(v.data)  BY <1>2, <1>6, <2>2
    <3> QED BY <1>6, <3>1 DEF OpenAt
  <2> QED BY <1>11, <2>1, <2>2
<1>12. Framed(v, T, FALSE)
  BY <1>10, <1>11 DEF Framed
<1>13. Chunks(Len(v.data) - v.mChunkOffset)
  BY <1>2, <1>3, <1>4, <1>6
<1> QED BY <1>2, <1>6, <1>7, <1>8, <1>10, <1>12, <1>13 DEF Writing, FileOK, v

LEMMA PutOK ==
  ASSUME NEW w, Writing(w), w.mIsHeaderCompleted, NEW x \in FilePlain
  PROVE  /\ Writing(Volume!Put(w, x)) /\ Volume!Put(w, x).mIsHeaderCompleted
         /\ Volume!Put(w, x).data = Append(w.data, x)
<1> DEFINE v == Volume!Put(w, x)
<1>1. /\ w \in FileWriter /\ w.mChunkOffset \in 0..ChunkSize /\ FileOK(w, FALSE)
      /\ ChunkSize \in Nat \ {0}
  BY VolumeConstants DEF Writing, FileOK, FileWriter
<1>2. CASE w.mChunkOffset = ChunkSize
  <2> DEFINE u == WithChecksum(w)
             s == Sealed(w)
  <2>1. v = ShortPut(s, x)
    <3>1. /\ s.out = w.out \o Volume!Checksum(w.mCrc) /\ s.mCrc = w.mCrc /\ s.data = w.data
          /\ s.mChunkOffset = 0 /\ s.mIsHeaderCompleted = w.mIsHeaderCompleted
          /\ s = [w EXCEPT !.out = w.out \o Volume!Checksum(w.mCrc), !.mChunkOffset = 0]
      BY <1>1 DEF Sealed, WithChecksum, FileWriter
    <3> DEFINE o == w.out \o Volume!Checksum(w.mCrc)
    <3>2. v = [w EXCEPT !.out = Append(o, x), !.mCrc = Append(w.mCrc, x), !.mChunkOffset = 1,
                        !.data = Append(w.data, x)]
      BY <1>1, <1>2 DEF Volume!Put, FileWriter
    <3>3. ShortPut(s, x) = [s EXCEPT !.out = Append(s.out, x), !.mCrc = Append(s.mCrc, x),
                                     !.mChunkOffset = 0 + 1, !.data = Append(s.data, x)]
      <4> HIDE DEF o, s, v
      <4> QED BY <1>1, <3>1 DEF ShortPut, FileWriter
    <3> DEFINE a == Append(o, x)
               b == Append(w.mCrc, x)
               c == Append(w.data, x)
    <3>4. s = [w EXCEPT !.out = o, !.mChunkOffset = 0]  BY <3>1
    <3>5. ShortPut(s, x) = [s EXCEPT !.out = a, !.mCrc = b, !.mChunkOffset = 1, !.data = c]
      <4> HIDE DEF s, v
      <4> QED BY <3>1, <3>3
    <3>6. v = [w EXCEPT !.out = a, !.mCrc = b, !.mChunkOffset = 1, !.data = c]
      BY <3>2
    <3>7. w \in FileWriter  BY <1>1
    <3> HIDE DEF o, s, v, a, b, c
    <3> QED BY <3>4, <3>5, <3>6, <3>7 DEF FileWriter
  <2>2. Writing(s) /\ s.mIsHeaderCompleted /\ s.data = w.data /\ s.mChunkOffset < ChunkSize
    BY <1>1, <1>2, SealedOK
  <2> HIDE DEF s, v
  <2>3. s \in FileWriter  BY <2>2 DEF Writing, FileOK
  <2>4. Writing(v)  BY <2>1, <2>2, ShortPutOK
  <2>5. v.mIsHeaderCompleted /\ v.data = Append(w.data, x)
    BY <2>1, <2>2, <2>3, ShortPutGrows
  <2> QED BY <2>4, <2>5 DEF v
<1>3. CASE w.mChunkOffset # ChunkSize
  <2>1. v = ShortPut(w, x)  BY <1>3 DEF Volume!Put, ShortPut
  <2>2. w.mChunkOffset < ChunkSize  BY <1>1, <1>3
  <2> HIDE DEF v
  <2>3. Writing(v)  BY <2>1, <2>2, ShortPutOK
  <2>4. v.mIsHeaderCompleted /\ v.data = Append(w.data, x)
    BY <1>1, <2>1, <2>2, ShortPutGrows
  <2> QED BY <2>3, <2>4 DEF v
<1> QED BY <1>2, <1>3

LEMMA HeaderOK ==
  ASSUME NEW w, Writing(w)
  PROVE  /\ Writing(Volume!WithHeader(w)) /\ Volume!WithHeader(w).mIsHeaderCompleted
         /\ Volume!WithHeader(w).data = w.data
<1> DEFINE v == Volume!WithHeader(w)
           word == Volume!SizeWord(ChunkSize)
           none == <<>>
<1>1. w \in FileWriter
  BY DEF Writing, FileOK
<1>2. CASE w.mIsHeaderCompleted
  <2>1. v = w  BY <1>2 DEF Volume!WithHeader
  <2> QED BY <1>2, <2>1
<1>3. CASE ~ w.mIsHeaderCompleted
  <2>1. /\ w.out = none /\ w.mCrc = none /\ w.data = none /\ w.mChunkOffset = 0
    BY <1>3 DEF Writing, FileOK, Covers
  <2>2. /\ word \in Seq(FilePlain) /\ word \in Seq(FileByte) /\ Len(word) = WordSize
        /\ \A i \in 1..WordSize : word[i] = <<"size", ChunkSize, i>>
    <3>1. /\ word \in Seq(FilePlain) /\ Len(word) = WordSize
          /\ \A i \in 1..WordSize : word[i] = <<"size", ChunkSize, i>>
      BY VolumeConstants, Words
    <3>2. word \in Seq(FileByte)
      <4> HIDE DEF word
      <4>1. FilePlain \subseteq FileByte  BY DEF FileByte
      <4> QED BY <3>1, <4>1, SeqMonotonic
    <3> QED BY <3>1, <3>2
  <2>3. none \o word = word /\ none \in Seq(FilePlain) /\ word \o none = word /\ Len(none) = 0
    <3> HIDE DEF word
    <3> QED BY <2>2, ConcatEmptySeq, EmptySeq
  <2>4. /\ v.out = none \o word /\ v.mCrc = none \o word /\ v.mIsHeaderCompleted
        /\ v.data = none /\ v.mChunkOffset = 0
        /\ v = [w EXCEPT !.out = none \o word, !.mCrc = none \o word, !.mIsHeaderCompleted = TRUE]
    BY <1>1, <1>3, <2>1 DEF Volume!WithHeader, FileWriter
  <2> HIDE DEF v, word, none
  <2>5. v \in FileWriter  BY <1>1, <2>2, <2>3, <2>4 DEF FileWriter
  <2>6. WordSize \in Nat \ {0} /\ ChunkSize \in Nat  BY VolumeConstants
  <2>7. Covers(v)  BY <2>2, <2>3, <2>4, <2>6 DEF Covers, word
  <2>8. Marks(v.out, v, FALSE)
    <3>1. \A i \in 1..Len(word) : word[i][1] = "size"  BY <2>2
    <3> QED BY <2>3, <2>4, <3>1 DEF Marks
  <2> DEFINE S == {<<WordSize, 0>>}
  <2>9. Framed(v, S, FALSE)
    <3>1. S \in Places /\ <<WordSize, 0>> \in S  BY <2>6 DEF Places
    <3>2. ASSUME NEW p \in Nat, NEW k \in Nat, <<p, k>> \in S PROVE OpenAt(v, p, k)
      <4>1. p = WordSize /\ k = 0  BY <3>2
      <4> QED BY <2>2, <2>3, <2>4, <2>6, <4>1 DEF OpenAt
    <3> QED BY <3>1, <3>2 DEF Framed
  <2>10. Chunks(Len(v.data) - v.mChunkOffset)
    <3>1. Len(v.data) - v.mChunkOffset = 0  BY <2>3, <2>4
    <3>2. 0 = 0 * ChunkSize  BY <2>6
    <3> QED BY <3>1, <3>2 DEF Chunks
  <2>11. S \in Places  BY <2>6 DEF Places
  <2> QED BY <2>1, <2>4, <2>5, <2>7, <2>8, <2>9, <2>10, <2>11 DEF Writing, FileOK, v
<1> QED BY <1>2, <1>3

\* The bytes of one Write, put one after the other.
ArePuts(f, w, m, n) ==
  f = [i \in 0..n |-> IF i = 0 THEN w ELSE Volume!Put(f[i - 1], Volume!Datum(m + i))]

PutsOf(w, m, n) == CHOOSE f : ArePuts(f, w, m, n)

LEMMA PutsExist ==
  ASSUME NEW w, NEW m \in Nat, NEW n \in Nat
  PROVE  \E f : ArePuts(f, w, m, n)
<1> DEFINE Is(f, k) == ArePuts(f, w, m, k)
           T == {k \in Nat : ~ \E f : Is(f, k)}
<1>1. SUFFICES ASSUME T # {} PROVE FALSE
  OBVIOUS
<1>2. PICK k \in T : \A l \in T : k <= l
  <2>1. T \in SUBSET Nat  OBVIOUS
  <2> HIDE DEF T
  <2> QED BY <1>1, <2>1, Least
<1>3. k \in Nat /\ ~ \E f : Is(f, k)
  BY <1>2
<1>4. CASE k = 0
  <2> DEFINE f == [i \in 0..0 |-> w]
  <2>1. \A i \in 0..0 : i = 0  OBVIOUS
  <2>2. f = [i \in 0..0 |-> IF i = 0 THEN w ELSE Volume!Put(f[i - 1], Volume!Datum(m + i))]
    BY <2>1
  <2> HIDE DEF f
  <2>3. Is(f, k)  BY <1>4, <2>2 DEF ArePuts
  <2> QED BY <1>3, <2>3
<1>5. CASE k # 0
  <2>1. k - 1 \in Nat /\ ~ (k <= k - 1)  BY <1>3, <1>5
  <2>2. k - 1 \notin T  BY <1>2, <2>1
  <2>3. PICK g : Is(g, k - 1)  BY <2>1, <2>2
  <2> DEFINE f == [i \in 0..k |-> IF i = k THEN Volume!Put(g[k - 1], Volume!Datum(m + k)) ELSE g[i]]
  <2>4. ASSUME NEW i \in 0..k
        PROVE  f[i] = IF i = 0 THEN w ELSE Volume!Put(f[i - 1], Volume!Datum(m + i))
    <3>1. f[i] = IF i = k THEN Volume!Put(g[k - 1], Volume!Datum(m + k)) ELSE g[i]
      OBVIOUS
    <3>2. CASE i = k
      <4>1. f[i - 1] = g[k - 1]
        <5>1. k - 1 \in 0..k /\ k - 1 # k  BY <1>3, <2>1
        <5> QED BY <3>2, <5>1
      <4> QED BY <1>5, <3>1, <3>2, <4>1
    <3>3. CASE i # k
      <4>1. i \in 0..(k - 1)  BY <1>3, <3>3
      <4>2. g[i] = IF i = 0 THEN w ELSE Volume!Put(g[i - 1], Volume!Datum(m + i))
        BY <2>3, <4>1 DEF ArePuts
      <4>3. i # 0 => f[i - 1] = g[i - 1]
        <5>1. i # 0 => i - 1 \in 0..k /\ i - 1 # k  BY <1>3, <4>1
        <5> QED BY <5>1
      <4> QED BY <3>1, <3>3, <4>2, <4>3
    <3> QED BY <3>2, <3>3
  <2>5. f = [i \in 0..k |-> f[i]]  OBVIOUS
  <2> HIDE DEF f
  <2>6. Is(f, k)  BY <2>4, <2>5 DEF ArePuts
  <2> QED BY <1>3, <2>6
<1> QED BY <1>4, <1>5

LEMMA PutsOK ==
  ASSUME NEW w, Writing(w), w.mIsHeaderCompleted, NEW m \in Nat, NEW n \in Nat
  PROVE  Writing(PutsOf(w, m, n)[n])
<1> DEFINE f == PutsOf(w, m, n)
           T == {i \in Nat : i <= n /\ ~ (Writing(f[i]) /\ f[i].mIsHeaderCompleted)}
<1>1. f = [i \in 0..n |-> IF i = 0 THEN w ELSE Volume!Put(f[i - 1], Volume!Datum(m + i))]
  <2>1. ArePuts(f, w, m, n)  BY PutsExist DEF PutsOf
  <2> QED BY <2>1 DEF ArePuts
<1> HIDE DEF f
<1>2. T = {}
  <2>1. SUFFICES ASSUME T # {} PROVE FALSE  OBVIOUS
  <2>2. PICK i \in T : \A j \in T : i <= j
    <3>1. T \in SUBSET Nat  OBVIOUS
    <3> HIDE DEF T
    <3> QED BY <2>1, <3>1, Least
  <2>3. i \in Nat /\ i <= n /\ ~ (Writing(f[i]) /\ f[i].mIsHeaderCompleted)
    BY <2>2
  <2>4. i \in 0..n  BY <2>3
  <2>5. f[i] = IF i = 0 THEN w ELSE Volume!Put(f[i - 1], Volume!Datum(m + i))
    BY <1>1, <2>4
  <2>6. i # 0  BY <2>3, <2>5
  <2>7. i - 1 \in Nat /\ i - 1 <= n /\ ~ (i <= i - 1)  BY <2>3, <2>6
  <2>8. Writing(f[i - 1]) /\ f[i - 1].mIsHeaderCompleted  BY <2>2, <2>7
  <2>9. Volume!Datum(m + i) \in FilePlain  BY <2>3 DEF Volume!Datum, FilePlain
  <2>10. Writing(f[i]) /\ f[i].mIsHeaderCompleted
    BY <2>5, <2>6, <2>8, <2>9, PutOK
  <2> QED BY <2>3, <2>10
<1> HIDE DEF T
<1>3. n \notin T
  BY <1>2
<1>4. Writing(f[n])
  BY <1>3 DEF T
<1> QED BY <1>4 DEF f

LEMMA WriteOK ==
  ASSUME Writing(writer), NEW n \in 0..MaxData, Volume!Write(n)
  PROVE  Writing(writer')
<1>1. n \in Nat /\ Len(writer.data) \in Nat
  <2>1. writer.data \in Seq(FilePlain)  BY DEF Writing, FileOK, FileWriter
  <2> QED BY <2>1, VolumeConstants, EmptyOrNot
<1>2. writer' = PutsOf(Volume!WithHeader(writer), Len(writer.data), n)[n]
  BY DEF Volume!Write, PutsOf, ArePuts
<1>3. Writing(Volume!WithHeader(writer)) /\ Volume!WithHeader(writer).mIsHeaderCompleted
  BY HeaderOK
<1> QED BY <1>1, <1>2, <1>3, PutsOK

LEMMA CloseOK ==
  ASSUME Writing(writer), Volume!Close
  PROVE  FileOK(writer', TRUE)
<1>1. /\ writer \in FileWriter /\ writer.mChunkOffset \in 0..ChunkSize /\ FileOK(writer, FALSE)
      /\ ChunkSize \in Nat \ {0} /\ WordSize \in Nat \ {0}
  BY VolumeConstants DEF Writing, FileOK, FileWriter
<1>2. CASE writer.mChunkOffset = 0
  <2>1. writer' = writer  BY <1>2 DEF Volume!Close
  <2>2. Marks(writer.out, writer, TRUE)  BY <1>1 DEF FileOK, Marks, Vouched
  <2>3. ASSUME NEW S \in Places, Framed(writer, S, FALSE) PROVE Framed(writer, S, TRUE)
    <3>1. ASSUME NEW p \in Nat, NEW k \in Nat, OpenAt(writer, p, k)
          PROVE  LastAt(writer, p, k)
      BY <1>2, <3>1 DEF OpenAt, LastAt
    <3> QED BY <2>3, <3>1 DEF Framed
  <2> QED BY <1>1, <2>1, <2>2, <2>3 DEF FileOK
<1>3. CASE writer.mChunkOffset # 0
  <2> DEFINE v == WithChecksum(writer)
  <2>1. writer.mIsHeaderCompleted  BY <1>1, <1>3 DEF FileOK, Covers
  <2>2. writer' = v  BY <1>3 DEF Volume!Close, WithChecksum
  <2>3. /\ v \in FileWriter /\ Covers(v)
        /\ v.data = writer.data /\ v.mCrc = writer.mCrc /\ Begins(writer.out, v.out)
    BY <1>1, <2>1, ChecksumFollows
  <2>4. Marks(v.out, v, TRUE)  BY <1>1, <2>1, ChecksumVouched
  <2>5. PICK S \in Places : Framed(writer, S, FALSE)  BY <1>1, <2>1 DEF FileOK
  <2>6. ASSUME NEW p \in Nat, NEW k \in Nat, <<p, k>> \in S
        PROVE  FullAt(v, S, p, k) \/ LastAt(v, p, k)
    <3>1. CASE FullAt(writer, S, p, k)
      <4>1. writer.data \in Seq(FilePlain) /\ writer.mCrc \in Seq(FilePlain)
        BY <1>1 DEF FileWriter
      <4>2. Begins(writer.data, v.data) /\ Begins(writer.mCrc, v.mCrc)
        <5>1. Len(writer.data) \in Nat /\ Len(writer.mCrc) \in Nat
          BY <4>1, EmptyOrNot
        <5>2. Begins(writer.data, writer.data) /\ Begins(writer.mCrc, writer.mCrc)
          BY <5>1 DEF Begins
        <5> QED BY <2>3, <5>2
      <4> HIDE DEF v
      <4> QED BY <1>1, <2>3, <3>1, <4>2, FullStays
    <3>2. CASE OpenAt(writer, p, k)
      <4>1. /\ ChunkAt(v, p, k, writer.mChunkOffset)
            /\ p + writer.mChunkOffset + WordSize = Len(v.out)
            /\ k + writer.mChunkOffset = Len(v.data)
        BY <1>1, <2>1, <3>2, OpenIsChunk
      <4>2. writer.mChunkOffset \in 1..ChunkSize  BY <1>1, <1>3
      <4> QED BY <4>1, <4>2 DEF LastAt
    <3> QED BY <2>5, <2>6, <3>1, <3>2 DEF Framed
  <2>7. Framed(v, S, TRUE)  BY <2>5, <2>6 DEF Framed
  <2> HIDE DEF v
  <2> QED BY <2>2, <2>3, <2>4, <2>5, <2>7 DEF FileOK
<1> QED BY <1>2, <1>3

FileReader ==
  [mIsHeaderCompleted : BOOLEAN, mChunkSize : Nat, mCrc : Seq(FileByte), unread : Seq(FileByte),
   mEOF : BOOLEAN]

\* The caller reads on, or may.
Active(res) == res \in {"none", "data", "reading"}

\* What was returned, and is in the buffer, was checked: it is a beginning of the file.
Checked(w, s) == Begins(s, w.data) /\ (Chunks(Len(s)) \/ Len(s) = Len(w.data))

Holds(w, r, g) ==
  LET seen == g \o r.unread
  IN  /\ Len(r.mCrc) = WordSize + Len(seen)
      /\ \A i \in 1..Len(seen) : r.mCrc[WordSize + i] = seen[i]
      /\ Checked(w, seen) /\ r.mChunkSize \in 1..MaxChunkSize

\* The reader of an undamaged file stands where a chunk starts, or at the end.
StandsAt(w, s, wi) ==
  \E S \in Places : \E p \in Nat :
    /\ Framed(w, S, TRUE) /\ IsRest(wi, w.out, p)
    /\ <<p, Len(s)>> \in S \/ (p = Len(w.out) /\ Len(s) = Len(w.data))

InPlace(w, r, g, wi) ==
  IF r.mIsHeaderCompleted
  THEN /\ w.mIsHeaderCompleted /\ r.mChunkSize = ChunkSize /\ Begins(r.mCrc, w.mCrc)
       /\ StandsAt(w, g \o r.unread, wi)
  ELSE wi = w.out

Reads(w, wi, r, g, res, dam) ==
  /\ Begins(g, w.data)
  /\ res = "end" => Chunks(Len(g)) \/ Len(g) = Len(w.data)
  /\ Active(res) =>
       IF r.mIsHeaderCompleted THEN Holds(w, r, g) ELSE g = <<>> /\ r.unread = <<>>
  /\ ~ dam => /\ FileOK(w, TRUE)
              /\ res # "exception" /\ (res = "end" => Len(g) = Len(w.data))
              /\ Active(res) => InPlace(w, r, g, wi)

\* ReadBuffer gives the first of what was checked.
LEMMA TakeFromOK ==
  ASSUME NEW w \in FileWriter, NEW wi, NEW r \in FileReader, NEW dam,
         r.mIsHeaderCompleted, got \in Seq(FileByte), missing \in Nat \ {0},
         Holds(w, r, got),
         ~ dam => FileOK(w, TRUE) /\ InPlace(w, r, got, wi) /\ r.unread # <<>>,
         Volume!TakeFrom(r)
  PROVE  /\ reader' \in FileReader /\ got' \in Seq(FileByte) /\ missing' \in Nat \ {0}
         /\ result' \in {"end", "data"} /\ Reads(w, wi, reader', got', result', dam)
<1> DEFINE u == r.unread
           m == Len(u)
           n == IF m < missing THEN m ELSE missing
           a == SubSeq(u, 1, n)
           b == SubSeq(u, n + 1, m)
           t == [r EXCEPT !.unread = b]
           g == got
           none == <<>>
<1>1. u \in Seq(FileByte) /\ g \in Seq(FileByte) /\ m \in Nat /\ missing \in Nat \ {0}
  <2>1. u \in Seq(FileByte)  BY DEF FileReader
  <2> QED BY <2>1, EmptyOrNot
<1>2. n \in Nat /\ n <= m /\ (n = 0 <=> m = 0)
  <2> HIDE DEF m
  <2> QED BY <1>1
<1>3. /\ reader' = t /\ got' = g \o a /\ result' = (IF n = 0 THEN "end" ELSE "data")
      /\ missing' = missing
  BY DEF Volume!TakeFrom, Volume!Upto, Volume!After, FileReader
<1>4. a \in Seq(FileByte) /\ b \in Seq(FileByte) /\ Len(a) = n
  <2> HIDE DEF n, u
  <2> QED BY <1>1, <1>2, Cut
<1>5. (g \o a) \o b = g \o u
  <2> HIDE DEF n, u, g
  <2> QED BY <1>1, <1>2, Divided
<1>6. t \in FileReader /\ t.unread = b /\ t.mCrc = r.mCrc /\ t.mChunkSize = r.mChunkSize
      /\ t.mIsHeaderCompleted
  <2> HIDE DEF b
  <2> QED BY <1>4 DEF FileReader
<1> HIDE DEF a, b, n, m, t
<1>7. (g \o a) \in Seq(FileByte) /\ Len(g \o a) = Len(g) + n
      /\ g \o u \in Seq(FileByte) /\ Len(g \o u) = Len(g) + m
      /\ \A i \in 1..Len(g \o a) : (g \o u)[i] = (g \o a)[i]
  <2> DEFINE ga == g \o a
  <2>1. ga \in Seq(FileByte) /\ Len(ga) = Len(g) + Len(a)
    <3> HIDE DEF g
    <3> QED BY <1>1, <1>4, Joined
  <2>2. \A i \in 1..Len(ga) : (ga \o b)[i] = ga[i]
    <3> HIDE DEF ga
    <3> QED BY <1>4, <2>1, Joined
  <2>3. g \o u \in Seq(FileByte) /\ Len(g \o u) = Len(g) + Len(u)
    <3> HIDE DEF g, u
    <3> QED BY <1>1, Joined
  <2> QED BY <1>4, <1>5, <2>1, <2>2, <2>3 DEF m
<1>8. Begins(got', w.data)
  <2>1. Begins(g \o u, w.data)  BY DEF Holds, Checked
  <2>2. w.data \in Seq(FilePlain) /\ Len(w.data) \in Nat /\ Len(g) \in Nat
    <3>1. w.data \in Seq(FilePlain)  BY DEF FileWriter
    <3> QED BY <1>1, <3>1, EmptyOrNot
  <2> DEFINE ga == g \o a
             gu == g \o u
  <2>3. /\ Len(ga) = Len(g) + n /\ Len(gu) = Len(g) + m
        /\ \A i \in 1..Len(ga) : gu[i] = ga[i]
        /\ Len(gu) <= Len(w.data) /\ \A i \in 1..Len(gu) : gu[i] = w.data[i]
    BY <1>7, <2>1 DEF Begins
  <2> HIDE DEF ga, gu, u, g
  <2>4. Len(ga) <= Len(gu) /\ Len(ga) \in Nat /\ Len(gu) \in Nat
    BY <1>1, <1>2, <2>2, <2>3
  <2>5. Len(ga) <= Len(w.data) /\ \A i \in 1..Len(ga) : ga[i] = w.data[i]
    BY <2>2, <2>3, <2>4
  <2> QED BY <1>3, <2>5 DEF Begins, ga
<1>9. CASE n = 0
  <2>1. u = none  BY <1>1, <1>2, <1>9, EmptyOrNot DEF m
  <2>2. dam  BY <2>1
  <2>3. got' = g /\ g \o u = g
    <3>1. a = none  BY <1>4, <1>9, EmptyOrNot
    <3>2. g \o none = g
      <4> HIDE DEF g
      <4> QED BY <1>1, ConcatEmptySeq
    <3> QED BY <1>3, <2>1, <3>1, <3>2
  <2>4. Chunks(Len(got')) \/ Len(got') = Len(w.data)  BY <2>3 DEF Holds, Checked
  <2>5. result' = "end"  BY <1>3, <1>9
  <2> QED BY <1>1, <1>3, <1>6, <1>7, <1>8, <2>2, <2>4, <2>5 DEF Reads, Active
<1>10. CASE n # 0
  <2>1. result' = "data"  BY <1>3, <1>10
  <2>2. got' \o t.unread = g \o r.unread  BY <1>3, <1>5, <1>6
  <2>3. Holds(w, t, got')  BY <1>6, <2>2 DEF Holds
  <2>4. ~ dam => InPlace(w, t, got', wi)  BY <1>6, <2>2 DEF InPlace
  <2> QED BY <1>1, <1>3, <1>6, <1>7, <1>8, <2>1, <2>3, <2>4 DEF Reads
<1> QED BY <1>9, <1>10

\* A piece of what comes, its data and the checksum at its end.
LEMMA PieceOf ==
  ASSUME wire \in Seq(FileByte), NEW n \in Nat
  PROVE  LET piece == Volume!ReadInternal(n)
             m == IF Len(wire) < n THEN Len(wire) ELSE n
             data == Volume!Upto(piece, m - WordSize)
         IN  /\ m \in Nat /\ m <= Len(wire) /\ Len(wire) \in Nat
             /\ piece \in Seq(FileByte) /\ Len(piece) = m /\ \A i \in 1..m : piece[i] = wire[i]
             /\ Volume!After(wire, m) \in Seq(FileByte) /\ IsRest(Volume!After(wire, m), wire, m)
             /\ WordSize <= m =>
                  /\ data \in Seq(FileByte) /\ Len(data) = m - WordSize
                  /\ \A i \in 1..(m - WordSize) : data[i] = wire[i]
                  /\ Volume!After(piece, Len(data)) \in Seq(FileByte)
                  /\ Len(Volume!After(piece, Len(data))) = WordSize
                  /\ \A j \in 1..WordSize :
                       Volume!After(piece, Len(data))[j] = wire[(m - WordSize) + j]
<1> DEFINE l == Len(wire)
           m == IF l < n THEN l ELSE n
           piece == SubSeq(wire, 1, m)
           k == m - WordSize
           data == SubSeq(piece, 1, k)
           sum == SubSeq(piece, k + 1, Len(piece))
<1>1. l \in Nat /\ WordSize \in Nat
  BY EmptyOrNot, VolumeConstants
<1>2. m \in Nat /\ m <= l
  <2> HIDE DEF l
  <2> QED BY <1>1
<1> HIDE DEF m
<1>3. /\ piece \in Seq(FileByte) /\ Len(piece) = m /\ \A i \in 1..m : piece[i] = wire[i]
      /\ SubSeq(wire, m + 1, l) \in Seq(FileByte) /\ Len(SubSeq(wire, m + 1, l)) = l - m
      /\ \A i \in 1..(l - m) : SubSeq(wire, m + 1, l)[i] = wire[m + i]
  BY <1>2, Cut
<1>4. IsRest(SubSeq(wire, m + 1, l), wire, m)
  <2> HIDE DEF l
  <2>1. m <= l /\ l = Len(wire)  BY <1>2 DEF l
  <2> QED BY <1>3, <2>1 DEF IsRest
<1> HIDE DEF piece
<1>5. ASSUME WordSize <= m
      PROVE  /\ data \in Seq(FileByte) /\ Len(data) = k
             /\ \A i \in 1..k : data[i] = wire[i]
             /\ sum \in Seq(FileByte) /\ Len(sum) = WordSize
             /\ \A j \in 1..WordSize : sum[j] = wire[k + j]
  <2>1. k \in Nat /\ k <= Len(piece) /\ Len(piece) - k = WordSize /\ k + WordSize = m
    BY <1>1, <1>2, <1>3, <1>5
  <2> HIDE DEF k
  <2>2. /\ data \in Seq(FileByte) /\ Len(data) = k /\ \A i \in 1..k : data[i] = piece[i]
        /\ sum \in Seq(FileByte) /\ Len(sum) = Len(piece) - k
        /\ \A j \in 1..(Len(piece) - k) : sum[j] = piece[k + j]
    BY <1>3, <2>1, Cut
  <2> HIDE DEF data, sum
  <2>3. \A i \in 1..k : data[i] = wire[i]  BY <1>1, <1>2, <1>3, <2>1, <2>2
  <2>4. \A j \in 1..WordSize : sum[j] = wire[k + j]
    <3>1. ASSUME NEW j \in 1..WordSize PROVE sum[j] = wire[k + j]
      <4>1. k + j \in 1..m /\ j \in 1..(Len(piece) - k)  BY <1>1, <1>2, <2>1
      <4> QED BY <1>3, <2>2, <4>1
    <3> QED BY <3>1
  <2> QED BY <2>1, <2>2, <2>3, <2>4
<1>6. Volume!ReadInternal(n) = piece
  BY DEF Volume!ReadInternal, Volume!Upto, piece, m
<1>7. WordSize <= m => Len(data) = k
  BY <1>5
<1>8. /\ Volume!Upto(piece, m - WordSize) = data /\ Volume!After(piece, k) = sum
      /\ Volume!After(wire, m) = SubSeq(wire, m + 1, l)
  BY DEF Volume!Upto, Volume!After
<1> HIDE DEF data, sum, k
<1>9. WordSize <= m =>
        /\ data \in Seq(FileByte) /\ Len(data) = k
        /\ \A i \in 1..k : data[i] = wire[i]
        /\ Volume!After(piece, Len(data)) \in Seq(FileByte)
        /\ Len(Volume!After(piece, Len(data))) = WordSize
        /\ \A j \in 1..WordSize : Volume!After(piece, Len(data))[j] = wire[k + j]
  BY <1>5, <1>7, <1>8
<1>10. k = m - WordSize
  BY DEF k
<1>11. /\ m \in Nat /\ m <= Len(wire) /\ Len(wire) \in Nat
       /\ piece \in Seq(FileByte) /\ Len(piece) = m /\ \A i \in 1..m : piece[i] = wire[i]
       /\ Volume!After(wire, m) \in Seq(FileByte) /\ IsRest(Volume!After(wire, m), wire, m)
  BY <1>1, <1>2, <1>3, <1>4, <1>8
<1> QED BY <1>6, <1>8, <1>9, <1>10, <1>11 DEF m

\* The sum runs over the size and the data.
LEMMA CoveredData ==
  ASSUME NEW w \in FileWriter, Covers(w), w.mIsHeaderCompleted
  PROVE  /\ Len(w.mCrc) = WordSize + Len(w.data)
         /\ \A i \in 1..Len(w.data) : w.mCrc[WordSize + i] = w.data[i]
<1> DEFINE word == Volume!SizeWord(ChunkSize)
           d == w.data
<1>1. w.mCrc = word \o d
  BY DEF Covers
<1>2. word \in Seq(FilePlain) /\ Len(word) = WordSize /\ d \in Seq(FilePlain)
  BY VolumeConstants, Words DEF FileWriter
<1> HIDE DEF word, d
<1>3. /\ Len(word \o d) = Len(word) + Len(d)
      /\ \A i \in 1..Len(d) : (word \o d)[Len(word) + i] = d[i]
  <2>1. word \in Seq(FilePlain) /\ d \in Seq(FilePlain)  BY <1>2
  <2> QED BY ONLY <2>1, Joined
<1> QED BY <1>1, <1>2, <1>3 DEF d

\* What a written checksum covers is a beginning of the file.
LEMMA SumVouches ==
  ASSUME NEW w \in FileWriter, Covers(w), NEW c \in Seq(FileByte), NEW s \in Seq(FileByte),
         Len(c) = WordSize + Len(s), \A i \in 1..Len(s) : c[WordSize + i] = s[i],
         Vouched(c, w, TRUE)
  PROVE  Checked(w, s)
<1> DEFINE d == w.data
<1>1. d \in Seq(FilePlain) /\ w.mCrc \in Seq(FilePlain)
  BY DEF FileWriter
<1>2. /\ Len(d) \in Nat /\ Len(s) \in Nat /\ WordSize \in Nat \ {0} /\ ChunkSize \in Nat
      /\ Len(w.mCrc) \in Nat
  BY <1>1, EmptyOrNot, VolumeConstants
<1>3. Begins(c, w.mCrc) /\ (Chunks(Len(c) - WordSize) \/ Len(c) = Len(w.mCrc))
  BY DEF Vouched
<1>4. w.mIsHeaderCompleted
  <2>1. SUFFICES ASSUME ~ w.mIsHeaderCompleted PROVE FALSE  OBVIOUS
  <2>2. Len(w.mCrc) = 0  BY <1>1, <2>1, EmptyOrNot DEF Covers
  <2> QED BY <1>2, <1>3, <2>2 DEF Begins
<1>5. /\ Len(w.mCrc) = WordSize + Len(d)
      /\ \A i \in 1..Len(d) : w.mCrc[WordSize + i] = d[i]
  BY <1>4, CoveredData
<1> HIDE DEF d
<1>6. Len(s) <= Len(d)
  BY <1>2, <1>3, <1>5 DEF Begins
<1>7. ASSUME NEW i \in 1..Len(s) PROVE s[i] = d[i]
  <2>1. WordSize + i \in 1..Len(c) /\ i \in 1..Len(d)  BY <1>2, <1>6
  <2> QED BY <1>3, <1>5, <2>1 DEF Begins
<1>8. Chunks(Len(s)) \/ Len(s) = Len(d)
  <2>1. Len(c) - WordSize = Len(s)  BY <1>2
  <2>2. Len(c) = Len(w.mCrc) => Len(s) = Len(d)  BY <1>2, <1>5
  <2> QED BY <1>3, <2>1, <2>2
<1> QED BY <1>6, <1>7, <1>8 DEF Checked, Begins, d

\* Where an undamaged file goes on, a chunk and its checksum follow.
LEMMA ChunkFollows ==
  ASSUME NEW w \in FileWriter, NEW s \in Seq(FileByte), NEW wi \in Seq(FileByte),
         StandsAt(w, s, wi), Len(wi) # 0
  PROVE  \E n \in 1..ChunkSize : \E p \in Nat :
           /\ ChunkAt(w, p, Len(s), n) /\ IsRest(wi, w.out, p)
           /\ n = ChunkSize \/ n + WordSize = Len(wi)
           /\ n + WordSize <= Len(wi)
           /\ \A t, wj : Len(t) = Len(s) + n /\ IsRest(wj, wi, n + WordSize) => StandsAt(w, t, wj)
<1> DEFINE o == w.out
           k == Len(s)
           l == Len(wi)
<1>1. /\ Len(o) \in Nat /\ WordSize \in Nat \ {0} /\ ChunkSize \in Nat \ {0}
      /\ Len(w.data) \in Nat /\ k \in Nat /\ l \in Nat /\ l # 0
  <2>1. o \in Seq(FileByte) /\ w.data \in Seq(FilePlain)  BY DEF FileWriter
  <2> QED BY <2>1, EmptyOrNot, VolumeConstants
<1>2. PICK S \in Places : \E p \in Nat :
        /\ Framed(w, S, TRUE) /\ IsRest(wi, o, p)
        /\ <<p, k>> \in S \/ (p = Len(o) /\ k = Len(w.data))
  BY DEF StandsAt
<1>3. PICK p \in Nat :
        /\ Framed(w, S, TRUE) /\ IsRest(wi, o, p)
        /\ <<p, k>> \in S \/ (p = Len(o) /\ k = Len(w.data))
  BY <1>2
<1>4. /\ p <= Len(o) /\ l = Len(o) - p /\ \A j \in 1..l : wi[j] = o[p + j]
  BY <1>3 DEF IsRest
<1> HIDE DEF o, k, l
<1>5. p # Len(o)
  BY <1>1, <1>4
<1>6. FullAt(w, S, p, k) \/ LastAt(w, p, k)
  BY <1>1, <1>3, <1>5 DEF Framed
<1>7. ASSUME NEW n \in 1..ChunkSize, ChunkAt(w, p, k, n),
             <<p + n + WordSize, k + n>> \in S
               \/ (p + n + WordSize = Len(o) /\ k + n = Len(w.data))
      PROVE  /\ n + WordSize <= l
             /\ \A t, wj : Len(t) = k + n /\ IsRest(wj, wi, n + WordSize) => StandsAt(w, t, wj)
  <2> DEFINE q == p + n + WordSize
  <2>1. q <= Len(o) /\ q \in Nat /\ n \in Nat  BY <1>1, <1>7 DEF ChunkAt, o
  <2>2. n + WordSize <= l  BY <1>1, <1>4, <2>1
  <2>3. ASSUME NEW t, NEW wj, Len(t) = k + n, IsRest(wj, wi, n + WordSize)
        PROVE  StandsAt(w, t, wj)
    <3>1. IsRest(wj, o, q)
      <4>1. /\ Len(wj) = l - (n + WordSize)
            /\ \A j \in 1..Len(wj) : wj[j] = wi[(n + WordSize) + j]
        BY <2>3 DEF IsRest, l
      <4>2. Len(wj) = Len(o) - q /\ Len(wj) \in Nat
        BY <1>1, <1>4, <2>1, <2>2, <4>1
      <4>3. ASSUME NEW j \in 1..Len(wj) PROVE wj[j] = o[q + j]
        <5>1. (n + WordSize) + j \in 1..l /\ p + ((n + WordSize) + j) = q + j
          BY <1>1, <2>1, <2>2, <4>1, <4>2
        <5> QED BY <1>4, <4>1, <5>1
      <4> HIDE DEF q
      <4> QED BY <2>1, <4>2, <4>3 DEF IsRest
    <3>2. Framed(w, S, TRUE) /\ (<<q, Len(t)>> \in S \/ (q = Len(o) /\ Len(t) = Len(w.data)))
      BY <1>3, <1>7, <2>3
    <3> HIDE DEF q
    <3> QED BY <2>1, <3>1, <3>2 DEF StandsAt, o
  <2> QED BY <2>2, <2>3
<1>8. CASE FullAt(w, S, p, k)
  <2>1. ChunkSize \in 1..ChunkSize /\ ChunkAt(w, p, k, ChunkSize)
        /\ <<p + ChunkSize + WordSize, k + ChunkSize>> \in S
    BY <1>1, <1>8 DEF FullAt
  <2>2. /\ ChunkSize + WordSize <= l
        /\ \A t, wj : Len(t) = k + ChunkSize /\ IsRest(wj, wi, ChunkSize + WordSize)
                        => StandsAt(w, t, wj)
    BY <1>7, <2>1
  <2> QED BY <1>3, <2>1, <2>2 DEF o, k, l
<1>9. CASE LastAt(w, p, k)
  <2>1. PICK n \in 1..ChunkSize :
          ChunkAt(w, p, k, n) /\ p + n + WordSize = Len(o) /\ k + n = Len(w.data)
    BY <1>5, <1>9 DEF LastAt, o
  <2>2. /\ n + WordSize <= l
        /\ \A t, wj : Len(t) = k + n /\ IsRest(wj, wi, n + WordSize) => StandsAt(w, t, wj)
    BY <1>7, <2>1
  <2>3. n + WordSize = l  BY <1>1, <1>4, <2>1
  <2> QED BY <1>3, <2>1, <2>2, <2>3 DEF o, k, l
<1> QED BY <1>6, <1>8, <1>9

\* Data and checksum of a chunk, as they are read, fit what was read before.
Fits(o, d, y, x, c, data, e, sum, p, k, n) ==
  /\ {o, d, y, x, c, data, e} \subseteq Seq(FileByte) /\ {p, k, n} \subseteq Nat
  /\ IsRest(x, o, p) /\ n + WordSize <= Len(x) /\ k + n <= Len(d)
  /\ \A j \in 1..n : o[p + j] = d[k + j]
  /\ Begins(e, y) /\ Len(e) = WordSize + k + n
  /\ \A j \in 1..WordSize : o[p + n + j] = <<"crc", e, j>>
  /\ Len(y) = WordSize + Len(d) /\ \A i \in 1..Len(d) : y[WordSize + i] = d[i]
  /\ Begins(c, y) /\ Len(c) = WordSize + k
  /\ Len(data) = n /\ \A i \in 1..n : data[i] = x[i]
  /\ \A j \in 1..WordSize : sum[j] = x[n + j]

LEMMA ChunkFits ==
  ASSUME NEW o, NEW d, NEW y, NEW x, NEW c, NEW data, NEW e, NEW sum,
         NEW p, NEW k, NEW n, Fits(o, d, y, x, c, data, e, sum, p, k, n)
  PROVE  /\ c \o data = e
         /\ \A j \in 1..WordSize : sum[j] = <<"crc", e, j>>
<1>0. /\ o \in Seq(FileByte) /\ d \in Seq(FileByte) /\ y \in Seq(FileByte)
      /\ x \in Seq(FileByte) /\ c \in Seq(FileByte) /\ data \in Seq(FileByte) /\ e \in Seq(FileByte)
      /\ p \in Nat /\ k \in Nat /\ n \in Nat
      /\ IsRest(x, o, p) /\ n + WordSize <= Len(x) /\ k + n <= Len(d)
      /\ \A j \in 1..n : o[p + j] = d[k + j]
      /\ Begins(e, y) /\ Len(e) = WordSize + k + n
      /\ \A j \in 1..WordSize : o[p + n + j] = <<"crc", e, j>>
      /\ Len(y) = WordSize + Len(d) /\ \A i \in 1..Len(d) : y[WordSize + i] = d[i]
      /\ Begins(c, y) /\ Len(c) = WordSize + k
      /\ Len(data) = n /\ \A i \in 1..n : data[i] = x[i]
      /\ \A j \in 1..WordSize : sum[j] = x[n + j]
  BY DEF Fits
<1> USE <1>0
<1>1. WordSize \in Nat /\ Len(o) \in Nat /\ Len(d) \in Nat /\ Len(x) \in Nat
  BY EmptyOrNot, VolumeConstants
<1>2. \A j \in 1..(n + WordSize) : x[j] = o[p + j]
  <2>1. \A j \in 1..Len(x) : x[j] = o[p + j]  BY DEF IsRest
  <2> QED BY ONLY <1>0, <1>1, <2>1
<1>3. /\ c \o data \in Seq(FileByte) /\ Len(c \o data) = (WordSize + k) + n
      /\ \A i \in 1..(WordSize + k) : (c \o data)[i] = c[i]
      /\ \A i \in 1..n : (c \o data)[(WordSize + k) + i] = data[i]
  <2>1. /\ c \o data \in Seq(FileByte) /\ Len(c \o data) = Len(c) + Len(data)
        /\ \A i \in 1..Len(c) : (c \o data)[i] = c[i]
        /\ \A i \in 1..Len(data) : (c \o data)[Len(c) + i] = data[i]
    <3>1. c \in Seq(FileByte) /\ data \in Seq(FileByte)  BY <1>0
    <3> QED BY ONLY <3>1, Joined
  <2> QED BY <2>1
<1>4. ASSUME NEW i \in 1..Len(e) PROVE (c \o data)[i] = e[i]
  <2>1. e[i] = y[i]  BY DEF Begins
  <2>2. CASE i <= WordSize + k
    <3>1. i \in 1..(WordSize + k)  BY <1>1, <2>2
    <3>2. c[i] = y[i]  BY <3>1 DEF Begins
    <3> QED BY <1>3, <2>1, <3>1, <3>2
  <2>3. CASE ~ (i <= WordSize + k)
    <3> DEFINE j == i - (WordSize + k)
    <3>1. /\ j \in 1..n /\ i = (WordSize + k) + j /\ i = WordSize + (k + j)
          /\ k + j \in 1..Len(d) /\ j \in 1..(n + WordSize)
      BY <1>1, <2>3
    <3> HIDE DEF j
    <3>2. y[i] = d[k + j]  BY <3>1
    <3>3. (c \o data)[i] = data[j]  BY <1>3, <3>1
    <3>4. data[j] = o[p + j] /\ o[p + j] = d[k + j]  BY <1>2, <3>1
    <3> QED BY <2>1, <3>2, <3>3, <3>4
  <2> QED BY <2>2, <2>3
<1>5. c \o data = e
  <2>1. Len(c \o data) = Len(e)  BY <1>1, <1>3
    <2> QED BY <1>3, <1>4, <2>1, SeqEqual
<1>6. ASSUME NEW j \in 1..WordSize PROVE sum[j] = <<"crc", e, j>>
  <2>1. n + j \in 1..(n + WordSize) /\ p + (n + j) = p + n + j  BY <1>1
  <2>2. sum[j] = x[n + j] /\ o[p + n + j] = <<"crc", e, j>>  OBVIOUS
  <2> QED BY ONLY <1>2, <2>1, <2>2
<1> QED BY <1>5, <1>6

\* The next chunk of an undamaged file is found whole.
LEMMA ChunkArrives ==
  ASSUME NEW w, FileOK(w, TRUE), w.mIsHeaderCompleted,
         NEW g \in Seq(FileByte), NEW c \in Seq(FileByte),
         wire \in Seq(FileByte), Len(wire) # 0,
         Begins(c, w.mCrc), Len(c) = WordSize + Len(g), StandsAt(w, g, wire)
  PROVE  LET piece == Volume!ReadInternal(ChunkSize + WordSize)
             data == Volume!Upto(piece, Len(piece) - WordSize)
         IN  /\ WordSize <= Len(piece) /\ Len(data) # 0
             /\ Volume!After(piece, Len(data)) = Volume!Checksum(c \o data)
             /\ Begins(c \o data, w.mCrc) /\ StandsAt(w, g \o data, Volume!After(wire, Len(piece)))
<1> DEFINE o == w.out
           d == w.data
           y == w.mCrc
           k == Len(g)
           l == Len(wire)
           size == ChunkSize + WordSize
           m == IF l < size THEN l ELSE size
           piece == Volume!ReadInternal(size)
           data == Volume!Upto(piece, m - WordSize)
           sum == Volume!After(piece, Len(data))
           rest == Volume!After(wire, m)
<1>1. FilePlain \subseteq FileByte
  BY DEF FileByte
<1>2. /\ w \in FileWriter /\ Covers(w)
      /\ o \in Seq(FileByte) /\ d \in Seq(FileByte) /\ y \in Seq(FileByte) /\ y \in Seq(FilePlain)
  <2>1. /\ w \in FileWriter /\ Covers(w)
        /\ o \in Seq(FileByte) /\ d \in Seq(FilePlain) /\ y \in Seq(FilePlain)
    BY DEF FileOK, FileWriter
  <2> HIDE DEF o, d, y
  <2> QED BY <1>1, <2>1, SeqMonotonic
<1>3. /\ Len(o) \in Nat /\ Len(d) \in Nat /\ Len(y) \in Nat /\ k \in Nat /\ l \in Nat /\ l # 0
      /\ WordSize \in Nat \ {0} /\ ChunkSize \in Nat \ {0} /\ size \in Nat
  BY <1>2, EmptyOrNot, VolumeConstants
<1>4. Len(y) = WordSize + Len(d) /\ \A i \in 1..Len(d) : y[WordSize + i] = d[i]
  BY <1>2, CoveredData
<1>5. PICK n \in 1..ChunkSize : \E p \in Nat :
        /\ ChunkAt(w, p, k, n) /\ IsRest(wire, o, p)
        /\ n = ChunkSize \/ n + WordSize = l
        /\ n + WordSize <= l
        /\ \A t, wj : Len(t) = k + n /\ IsRest(wj, wire, n + WordSize) => StandsAt(w, t, wj)
  BY <1>2, ChunkFollows
<1>6. PICK p \in Nat :
        /\ ChunkAt(w, p, k, n) /\ IsRest(wire, o, p)
        /\ n = ChunkSize \/ n + WordSize = l
        /\ n + WordSize <= l
        /\ \A t, wj : Len(t) = k + n /\ IsRest(wj, wire, n + WordSize) => StandsAt(w, t, wj)
  BY <1>5
<1>7. m = n + WordSize /\ n \in Nat /\ m \in Nat /\ WordSize <= m /\ m - WordSize = n
  <2>1. n \in 1..ChunkSize /\ (n = ChunkSize \/ n + WordSize = l) /\ n + WordSize <= l
    BY <1>6
  <2> HIDE DEF l
  <2> QED BY ONLY <1>3, <2>1
<1>8. /\ piece \in Seq(FileByte) /\ Len(piece) = m /\ data \in Seq(FileByte) /\ Len(data) = n
      /\ \A i \in 1..n : data[i] = wire[i]
      /\ sum \in Seq(FileByte) /\ Len(sum) = WordSize
      /\ \A j \in 1..WordSize : sum[j] = wire[n + j]
      /\ IsRest(rest, wire, m)
  <2>1. /\ piece \in Seq(FileByte) /\ Len(piece) = m /\ IsRest(rest, wire, m)
        /\ data \in Seq(FileByte) /\ Len(data) = m - WordSize
        /\ \A i \in 1..(m - WordSize) : data[i] = wire[i]
        /\ sum \in Seq(FileByte) /\ Len(sum) = WordSize
        /\ \A j \in 1..WordSize : sum[j] = wire[(m - WordSize) + j]
    <3> HIDE DEF size
    <3> QED BY <1>3, <1>7, PieceOf
  <2> HIDE DEF m, piece, data, sum, rest
  <2> QED BY <1>7, <2>1
<1>9. PICK e \in Seq(FilePlain) :
        /\ Begins(e, y) /\ Len(e) = WordSize + k + n
        /\ \A j \in 1..WordSize : o[p + n + j] = <<"crc", e, j>>
  BY <1>6 DEF ChunkAt
<1>10. e \in Seq(FileByte)
  BY ONLY <1>1, e \in Seq(FilePlain), SeqMonotonic
<1>11. /\ \A j \in 1..n : o[p + j] = d[k + j]
       /\ k + n <= Len(d)
  BY <1>6 DEF ChunkAt
<1>12. n + WordSize <= Len(wire) /\ IsRest(wire, o, p)
  BY <1>6
<1> HIDE DEF o, d, y, k, l, size, m, piece, data, sum, rest
<1>13. /\ c \o data = e
       /\ \A j \in 1..WordSize : sum[j] = <<"crc", e, j>>
  <2>1. Len(c) = WordSize + k /\ Begins(c, y)  BY DEF k, y
  <2>2. Fits(o, d, y, wire, c, data, e, sum, p, k, n)
    <3>1. {p, k, n} \subseteq Nat /\ {o, d, y, wire, c, data, e} \subseteq Seq(FileByte)
      BY <1>2, <1>3, <1>7, <1>8, <1>10
    <3> QED BY ONLY <1>4, <1>8, <1>9, <1>11, <1>12, <2>1, <3>1 DEF Fits
  <2> QED BY ONLY <2>2, ChunkFits
<1>14. sum = Volume!Checksum(e)
  <2> DEFINE none == <<>>
  <2>1. Len(e) # 0  BY <1>3, <1>7, <1>9
  <2>2. e # none  BY <1>10, <2>1, EmptyOrNot
  <2>3. /\ Volume!Checksum(e) \in Seq(FileByte) /\ Len(Volume!Checksum(e)) = WordSize
        /\ \A i \in 1..WordSize : Volume!Checksum(e)[i] = <<"crc", e, i>>
    BY <2>2, Words
  <2> QED BY ONLY <1>8, <1>13, <2>3, SeqEqual
<1>15. Begins(c \o data, y)
  BY <1>9, <1>13
<1>16. StandsAt(w, g \o data, rest)
  <2>1. Len(g \o data) = k + n
    <3>1. Len(g \o data) = Len(g) + Len(data)
      BY ONLY g \in Seq(FileByte), <1>8, Joined
    <3> QED BY <1>8, <3>1 DEF k
  <2> QED BY <1>6, <1>7, <1>8, <2>1
<1>17. Len(data) # 0
  BY <1>5, <1>8
<1>18. /\ WordSize <= Len(piece) /\ Len(data) # 0 /\ sum = Volume!Checksum(c \o data)
       /\ Begins(c \o data, y) /\ StandsAt(w, g \o data, Volume!After(wire, Len(piece)))
       /\ data = Volume!Upto(piece, Len(piece) - WordSize)
  BY <1>7, <1>8, <1>13, <1>14, <1>15, <1>16, <1>17 DEF data, rest
<1> QED BY <1>18 DEF sum, piece, size, y

\* Bytes of the rest carry no other checksums.
LEMMA MarksOfRest ==
  ASSUME NEW w, NEW x \in Seq(FileByte), NEW s \in Seq(FileByte), NEW p \in Nat, IsRest(x, s, p),
         Marks(s, w, TRUE)
  PROVE  Marks(x, w, TRUE)
<1>1. Len(x) \in Nat /\ Len(s) \in Nat
  BY EmptyOrNot
<1>2. ASSUME NEW i \in 1..Len(x), x[i][1] = "crc" PROVE Vouched(x[i][2], w, TRUE)
  <2>1. x[i] = s[p + i] /\ p + i \in 1..Len(s)  BY <1>1 DEF IsRest
  <2> QED BY <1>2, <2>1 DEF Marks
<1> QED BY <1>2 DEF Marks

VolumeTypeOK ==
  /\ phase \in {"writing", "closed", "reading"} /\ damaged \in BOOLEAN
  /\ result \in {"none", "data", "reading", "end", "exception"}
  /\ writer \in FileWriter /\ wire \in Seq(FileByte) /\ reader \in FileReader
  /\ got \in Seq(FileByte) /\ missing \in Nat /\ (result = "reading" => missing # 0)

VolumeInv ==
  /\ VolumeTypeOK
  /\ phase = "writing" => Writing(writer)
  /\ phase = "closed" => FileOK(writer, TRUE)
  /\ phase # "reading" => /\ ~ reader.mIsHeaderCompleted /\ reader.unread = <<>>
                          /\ got = <<>> /\ result = "none"
  /\ phase = "reading" => /\ Covers(writer) /\ Marks(wire, writer, TRUE)
                          /\ Reads(writer, wire, reader, got, result, damaged)

LEMMA VolumeArrivesOK ==
  ASSUME VolumeInv, Volume!Arrives
  PROVE  VolumeInv'
<1> DEFINE o == writer.out
<1>1. /\ writer \in FileWriter /\ Covers(writer) /\ Marks(o, writer, TRUE)
      /\ phase = "closed" => FileOK(writer, TRUE)
  <2>1. CASE phase = "writing"
    BY <2>1 DEF VolumeInv, Writing, FileOK, Marks, Vouched
  <2>2. CASE phase = "closed"  BY <2>2 DEF VolumeInv, FileOK
  <2> QED BY <2>1, <2>2 DEF Volume!Arrives
<1>2. o \in Seq(FileByte) /\ Len(o) \in Nat
  <2>1. o \in Seq(FileByte)  BY <1>1 DEF FileWriter
  <2> QED BY <2>1, EmptyOrNot
<1>3. wire' \in {o} \cup Volume!Arrivals(o)
  BY DEF Volume!Arrives
<1> HIDE DEF o
<1>4. wire' \in Seq(FileByte) /\ Marks(wire', writer, TRUE)
  <2>1. CASE wire' = o  BY <1>1, <1>2, <2>1
  <2>2. ASSUME NEW n \in 0..Len(o), wire' = SubSeq(o, 1, n) PROVE wire' \in Seq(FileByte) /\ Marks(wire', writer, TRUE)
    <3> DEFINE x == SubSeq(o, 1, n)
    <3>1. n \in Nat /\ n <= Len(o)  BY <1>2
    <3>2. x \in Seq(FileByte) /\ Len(x) = n /\ \A i \in 1..n : x[i] = o[i]
      BY <1>2, <3>1, Cut
    <3> HIDE DEF x
    <3>3. Marks(x, writer, TRUE)
      <4>1. ASSUME NEW j \in 1..Len(x), x[j][1] = "crc" PROVE Vouched(x[j][2], writer, TRUE)
        <5>1. j \in 1..Len(o) /\ x[j] = o[j]  BY <1>2, <3>1, <3>2
        <5> QED BY <1>1, <4>1, <5>1 DEF Marks
      <4> QED BY <4>1 DEF Marks
    <3> QED BY <2>2, <3>2, <3>3 DEF x
  <2>3. ASSUME NEW i \in DOMAIN o, wire' = [o EXCEPT ![i] = Volume!Garbage]
        PROVE wire' \in Seq(FileByte) /\ Marks(wire', writer, TRUE)
    <3> DEFINE x == [o EXCEPT ![i] = Volume!Garbage]
    <3>1. i \in 1..Len(o) /\ Volume!Garbage \in FileByte
      <4>1. DOMAIN o = 1..Len(o)  BY <1>2, LenProperties
      <4> QED BY <4>1 DEF Volume!Garbage, FileByte, FilePlain
    <3>2. /\ x \in Seq(FileByte) /\ Len(x) = Len(o)
          /\ \A j \in 1..Len(o) : x[j] = IF j = i THEN Volume!Garbage ELSE o[j]
      BY <1>2, <3>1, ExceptSeq
    <3> HIDE DEF x
    <3>3. Marks(x, writer, TRUE)
      <4>1. ASSUME NEW j \in 1..Len(x), x[j][1] = "crc" PROVE Vouched(x[j][2], writer, TRUE)
        <5>1. j # i
          <6>1. Volume!Garbage[1] # "crc"  BY DEF Volume!Garbage
          <6> QED BY <3>2, <4>1, <6>1
        <5> QED BY <1>1, <3>2, <4>1, <5>1 DEF Marks
      <4> QED BY <4>1 DEF Marks
    <3> QED BY <2>3, <3>2, <3>3 DEF x
  <2> QED BY <1>3, <2>1, <2>2, <2>3 DEF Volume!Arrivals
<1>5. /\ phase' = "reading" /\ damaged' \in BOOLEAN /\ writer' = writer /\ reader' = reader
      /\ got' = got /\ result' = result /\ missing' = missing
      /\ ~ damaged' => phase = "closed" /\ wire' = o
  BY DEF Volume!Arrives, Volume!readVars, o
<1>6. ~ reader.mIsHeaderCompleted /\ reader.unread = <<>> /\ got = <<>> /\ result = "none"
  BY DEF VolumeInv, Volume!Arrives
<1>7. Begins(got, writer.data)
  <2> DEFINE none == <<>>
             d == writer.data
  <2>1. d \in Seq(FilePlain)  BY <1>1 DEF FileWriter
  <2>2. Len(none) = 0 /\ Len(d) \in Nat /\ got = none  BY <1>6, <2>1, EmptyOrNot
  <2> HIDE DEF none, d
  <2> QED BY <2>2 DEF Begins, d
<1>8. Reads(writer, wire', reader, got, result, damaged')
  BY <1>1, <1>5, <1>6, <1>7 DEF Reads, InPlace, o
<1>9. VolumeTypeOK'
  BY <1>4, <1>5 DEF VolumeInv, VolumeTypeOK
<1>10. phase' = "reading" => /\ Covers(writer') /\ Marks(wire', writer', TRUE)
                             /\ Reads(writer', wire', reader', got', result', damaged')
  BY <1>1, <1>4, <1>5, <1>8
<1> QED BY <1>5, <1>9, <1>10 DEF VolumeInv


\* Nothing was written or read.
LEMMA VolumeInitOK ==
  ASSUME Volume!Init
  PROVE  VolumeInv
<1> DEFINE none == <<>>
           w == writer
<1>1. none \in Seq(FilePlain) /\ none \in Seq(FileByte) /\ Len(none) = 0
  OBVIOUS
<1>2. /\ w = [out |-> none, mChunkOffset |-> 0, mCrc |-> none, mIsHeaderCompleted |-> FALSE,
              data |-> none]
      /\ reader = [mIsHeaderCompleted |-> FALSE, mChunkSize |-> 0, mCrc |-> none,
                   unread |-> none, mEOF |-> FALSE]
      /\ wire = none /\ phase = "writing" /\ damaged = FALSE /\ missing = 0 /\ got = none
      /\ result = "none"
  BY DEF Volume!Init
<1>3. ChunkSize \in Nat
  BY VolumeConstants
<1> HIDE DEF none
<1>4. w \in FileWriter /\ reader \in FileReader
  BY <1>1, <1>2, <1>3 DEF FileWriter, FileReader
<1>5. /\ w.out = none /\ w.mCrc = none /\ w.data = none /\ w.mChunkOffset = 0
      /\ ~ w.mIsHeaderCompleted /\ ~ reader.mIsHeaderCompleted /\ reader.unread = none
  BY <1>2
<1>6. Covers(w) /\ Marks(w.out, w, FALSE)
  BY <1>1, <1>5 DEF Covers, Marks, none
<1>7. Chunks(Len(w.data) - w.mChunkOffset)
  <2>1. Len(w.data) - w.mChunkOffset = 0 /\ 0 = 0 * ChunkSize
    BY <1>1, <1>3, <1>5
  <2> QED BY <2>1 DEF Chunks
<1>8. Writing(w)
  BY <1>4, <1>5, <1>6, <1>7 DEF Writing, FileOK
<1> QED BY <1>1, <1>2, <1>4, <1>5, <1>8 DEF VolumeInv, VolumeTypeOK, none

\* The steps of the reader leave the writer alone and take from the wire.
LEMMA VolumeReadOn ==
  ASSUME VolumeInv, phase = "reading",
         UNCHANGED <<writer, phase, damaged>>, reader' \in FileReader, got' \in Seq(FileByte),
         missing' \in Nat, result' = "reading" => missing' # 0,
         result' \in {"none", "data", "reading", "end", "exception"},
         wire' \in Seq(FileByte), wire' = wire \/ (\E n \in Nat : IsRest(wire', wire, n)),
         Reads(writer, wire', reader', got', result', damaged)
  PROVE  VolumeInv'
<1>1. wire \in Seq(FileByte) /\ Marks(wire, writer, TRUE) /\ Covers(writer)
  BY DEF VolumeInv, VolumeTypeOK
<1>2. Marks(wire', writer, TRUE)
  BY <1>1, MarksOfRest
<1>3. VolumeTypeOK'
  BY DEF VolumeInv, VolumeTypeOK
<1>4. phase' = "reading" /\ Covers(writer') /\ Marks(wire', writer', TRUE)
  BY <1>1, <1>2
<1>5. Reads(writer', wire', reader', got', result', damaged')
  OBVIOUS
<1> QED BY <1>3, <1>4, <1>5 DEF VolumeInv

LEMMA VolumeReadOK ==
  ASSUME VolumeInv, NEW n \in 1..MaxRead, Volume!Read(n)
  PROVE  VolumeInv'
<1>1. /\ phase = "reading" /\ result \in {"none", "data"} /\ missing' = n /\ result' = "reading"
      /\ UNCHANGED <<writer, wire, phase, damaged, reader, got>>
  BY DEF Volume!Read, Volume!transferVars
<1>2. n \in Nat /\ n # 0
  BY VolumeConstants
<1>3. Reads(writer, wire, reader, got, "reading", damaged)
  <2>1. Reads(writer, wire, reader, got, result, damaged)  BY <1>1 DEF VolumeInv
  <2> QED BY <1>1, <2>1 DEF Reads, Active
<1> QED BY <1>1, <1>2, <1>3, VolumeReadOn DEF VolumeInv, VolumeTypeOK

LEMMA VolumeBufferOK ==
  ASSUME VolumeInv, Volume!ReadBuffer
  PROVE  VolumeInv'
<1>1. /\ phase = "reading" /\ result = "reading" /\ reader.unread # <<>> /\ Volume!TakeFrom(reader)
      /\ UNCHANGED <<writer, wire, phase, damaged>>
  BY DEF Volume!ReadBuffer, Volume!Reading, Volume!transferVars
<1>2. /\ writer \in FileWriter /\ reader \in FileReader /\ got \in Seq(FileByte)
      /\ wire \in Seq(FileByte) /\ missing \in Nat \ {0}
      /\ Reads(writer, wire, reader, got, result, damaged)
  BY <1>1 DEF VolumeInv, VolumeTypeOK
<1>3. /\ reader.mIsHeaderCompleted /\ Holds(writer, reader, got)
      /\ ~ damaged => FileOK(writer, TRUE) /\ InPlace(writer, reader, got, wire)
  BY <1>1, <1>2 DEF Reads, Active
<1>4. /\ reader' \in FileReader /\ got' \in Seq(FileByte) /\ missing' \in Nat \ {0}
      /\ result' \in {"end", "data"} /\ Reads(writer, wire, reader', got', result', damaged)
  BY <1>1, <1>2, <1>3, TakeFromOK
<1> QED BY <1>1, <1>2, <1>4, VolumeReadOn

\* The size of the chunks is read.
LEMMA VolumeHeaderOK ==
  ASSUME VolumeInv, Volume!ReadHeader
  PROVE  VolumeInv'
<1> DEFINE w == writer
           o == w.out
           m == IF Len(wire) < WordSize THEN Len(wire) ELSE WordSize
           word == Volume!ReadInternal(WordSize)
           rest == Volume!After(wire, m)
           none == <<>>
<1>1. /\ phase = "reading" /\ result = "reading" /\ ~ reader.mIsHeaderCompleted
      /\ UNCHANGED <<writer, phase, damaged>>
  BY DEF Volume!ReadHeader, Volume!Reading
<1>2. /\ w \in FileWriter /\ reader \in FileReader /\ got \in Seq(FileByte)
      /\ wire \in Seq(FileByte) /\ missing \in Nat \ {0} /\ Covers(w)
      /\ Reads(w, wire, reader, got, result, damaged)
  BY <1>1 DEF VolumeInv, VolumeTypeOK
<1>3. /\ got = none /\ reader.unread = none
      /\ ~ damaged => FileOK(w, TRUE) /\ wire = o
  BY <1>1, <1>2 DEF Reads, Active, InPlace
<1>4. /\ WordSize \in Nat \ {0} /\ ChunkSize \in Nat \ {0} /\ MaxChunkSize \in Nat
      /\ ChunkSize <= MaxChunkSize
  BY VolumeConstants
<1>5. /\ m \in Nat /\ m <= Len(wire) /\ Len(wire) \in Nat
      /\ word \in Seq(FileByte) /\ Len(word) = m /\ \A i \in 1..m : word[i] = wire[i]
      /\ rest \in Seq(FileByte) /\ IsRest(rest, wire, m)
  BY <1>2, <1>4, PieceOf
<1>6. wire' = rest
  BY <1>5 DEF Volume!ReadHeader
<1>7. /\ Len(none) = 0 /\ none \in Seq(FileByte) /\ none \o none = none
  OBVIOUS
<1>8. Chunks(0)
  <2>1. 0 = 0 * ChunkSize  BY <1>4
  <2> QED BY <2>1 DEF Chunks
<1>9. o \in Seq(FileByte) /\ Len(o) \in Nat /\ w.data \in Seq(FilePlain) /\ Len(w.data) \in Nat
  <2>1. o \in Seq(FileByte) /\ w.data \in Seq(FilePlain)  BY <1>2 DEF FileWriter
  <2> QED BY <2>1, EmptyOrNot
<1>10. Begins(none, w.data)
  BY <1>7, <1>9 DEF Begins
<1>11. ~ damaged => IF Len(wire) = 0 THEN Len(w.data) = 0
                    ELSE w.mIsHeaderCompleted /\ WordSize <= Len(wire)
  <2>1. Covers(w) /\ (~ damaged => wire = o)  BY <1>2, <1>3
  <2>2. CASE w.mIsHeaderCompleted  BY <1>4, <1>9, <2>1, <2>2 DEF Covers
  <2>3. CASE ~ w.mIsHeaderCompleted
    <3>1. o = none /\ w.data = none  BY <2>1, <2>3 DEF Covers
    <3> QED BY <1>7, <2>1, <3>1
  <2> QED BY <2>2, <2>3
<1> HIDE DEF none
<1>12. CASE Len(word) = 0
  <2>1. reader' = [reader EXCEPT !.mIsHeaderCompleted = TRUE, !.mEOF = TRUE]
        /\ result' = "end" /\ missing' = missing /\ got' = got
    BY <1>12 DEF Volume!ReadHeader, Volume!Returns
  <2>2. Len(wire) = 0  BY <1>4, <1>5, <1>12
  <2>3. Reads(w, rest, reader', got, "end", damaged)
    BY <1>3, <1>7, <1>8, <1>10, <1>11, <2>2 DEF Reads, Active
  <2>4. reader' \in FileReader  BY <1>2, <2>1 DEF FileReader
  <2> QED BY <1>1, <1>2, <1>5, <1>6, <2>1, <2>3, <2>4, VolumeReadOn
<1>13. CASE Len(word) # 0 /\ Len(word) < WordSize
  <2>1. reader' = [reader EXCEPT !.mIsHeaderCompleted = TRUE]
        /\ result' = "exception" /\ missing' = missing /\ got' = got
    BY <1>13 DEF Volume!ReadHeader, Volume!Returns
  <2>2. damaged  BY <1>4, <1>5, <1>11, <1>13
  <2>3. Reads(w, rest, reader', got, "exception", damaged)
    BY <1>3, <1>10, <2>2 DEF Reads, Active
  <2>4. reader' \in FileReader  BY <1>2, <2>1 DEF FileReader
  <2> QED BY <1>1, <1>2, <1>5, <1>6, <2>1, <2>3, <2>4, VolumeReadOn
<1>14. CASE ~ (Len(word) < WordSize)
  <2>1. Len(word) # 0  BY <1>4, <1>5, <1>14
  <2>2. m = WordSize  BY <1>4, <1>5, <1>14
  <2>3. PICK size \in Volume!SizesOf(word) :
          /\ reader' = [reader EXCEPT !.mIsHeaderCompleted = TRUE, !.mCrc = word,
                                      !.mChunkSize = size]
          /\ IF size \in 1..MaxChunkSize THEN UNCHANGED Volume!readVars
             ELSE Volume!Returns("exception")
    BY <1>14, <2>1 DEF Volume!ReadHeader
  <2>4. size \in Nat  BY <1>4, <2>3 DEF Volume!SizesOf
  <2>5. /\ reader' \in FileReader /\ reader'.mIsHeaderCompleted /\ reader'.mCrc = word
        /\ reader'.mChunkSize = size /\ reader'.unread = none
    <3> HIDE DEF word
    <3> QED BY <1>2, <1>3, <1>5, <2>3, <2>4 DEF FileReader
  <2>6. ASSUME ~ damaged
        PROVE  /\ size = ChunkSize /\ w.mIsHeaderCompleted /\ Begins(word, w.mCrc)
               /\ FileOK(w, TRUE) /\ StandsAt(w, none, rest)
    <3>1. FileOK(w, TRUE) /\ wire = o /\ w.mIsHeaderCompleted
      <4> HIDE DEF m, word, rest
      <4>1. Len(wire) # 0  BY <1>4, <1>5, <2>2
      <4> QED BY <1>3, <1>11, <2>6, <4>1
    <3>2. /\ WordSize <= Len(o) /\ \A i \in 1..WordSize : o[i] = <<"size", ChunkSize, i>>
          /\ w.mCrc = Volume!SizeWord(ChunkSize) \o w.data
      BY <1>2, <3>1 DEF Covers
    <3> DEFINE sized == Volume!SizeWord(ChunkSize)
               d == w.data
    <3>3. /\ sized \in Seq(FilePlain) /\ Len(sized) = WordSize
          /\ \A i \in 1..WordSize : sized[i] = <<"size", ChunkSize, i>>
      BY <1>4, Words
    <3>4. word = sized
      <4>1. sized \in Seq(FileByte)
        <5> HIDE DEF sized
        <5>1. FilePlain \subseteq FileByte  BY DEF FileByte
        <5> QED BY <3>3, <5>1, SeqMonotonic
      <4>2. /\ word \in Seq(FileByte) /\ Len(word) = WordSize
            /\ \A i \in 1..WordSize : word[i] = sized[i]
        BY <1>5, <2>2, <3>1, <3>2, <3>3
      <4> HIDE DEF word, sized
      <4> QED BY <3>3, <4>1, <4>2, SeqEqual
    <3>5. size = ChunkSize  BY <2>3, <3>4 DEF Volume!SizesOf
    <3>6. Begins(sized, sized \o d)
      <4>1. sized \in Seq(FilePlain) /\ d \in Seq(FilePlain)  BY <1>9, <3>3
      <4> HIDE DEF sized, d
      <4>2. /\ Len(sized \o d) = Len(sized) + Len(d)
            /\ \A i \in 1..Len(sized) : (sized \o d)[i] = sized[i]
        BY ONLY <4>1, Joined
      <4>3. Len(sized) \in Nat /\ Len(d) \in Nat  BY <4>1, EmptyOrNot
      <4> QED BY <4>2, <4>3 DEF Begins
    <3>7. StandsAt(w, none, rest)
      <4>1. PICK S \in Places : Framed(w, S, TRUE)  BY <3>1 DEF FileOK
      <4>2. <<WordSize, Len(none)>> \in S  BY <1>7, <4>1 DEF Framed
      <4>3. IsRest(rest, o, WordSize)  BY <1>5, <2>2, <3>1
      <4> HIDE DEF rest
      <4> QED BY <1>4, <4>1, <4>2, <4>3 DEF StandsAt
    <3> QED BY <3>1, <3>2, <3>4, <3>5, <3>6, <3>7
  <2>7. CASE size \in 1..MaxChunkSize
    <3>1. UNCHANGED <<missing, got, result>>  BY <2>3, <2>7 DEF Volume!readVars
    <3>2. Holds(w, reader', none)
      BY <1>5, <1>7, <1>8, <1>10, <2>2, <2>5, <2>7 DEF Holds, Checked
    <3>3. ~ damaged => InPlace(w, reader', none, rest)
      BY <1>7, <2>5, <2>6 DEF InPlace
    <3>4. Reads(w, rest, reader', none, "reading", damaged)
      BY <1>10, <2>5, <2>6, <3>2, <3>3 DEF Reads
    <3> QED BY <1>1, <1>2, <1>3, <1>5, <1>6, <2>5, <3>1, <3>4, VolumeReadOn
  <2>8. CASE size \notin 1..MaxChunkSize
    <3>1. result' = "exception" /\ UNCHANGED <<missing, got>>
      BY <2>3, <2>8 DEF Volume!Returns
    <3>2. damaged
      <4>1. size # ChunkSize  BY <1>4, <2>8
      <4> QED BY ONLY <2>6, <4>1
    <3>3. Reads(w, rest, reader', none, "exception", damaged)
      BY <1>10, <3>2 DEF Reads, Active
    <3> QED BY <1>1, <1>2, <1>3, <1>5, <1>6, <2>5, <3>1, <3>3, VolumeReadOn
  <2> QED BY <2>7, <2>8
<1> QED BY <1>12, <1>13, <1>14

\* Where nothing is left to come, the file ends.
LEMMA NothingFollows ==
  ASSUME NEW w \in FileWriter, NEW s \in Seq(FileByte), NEW wi \in Seq(FileByte),
         StandsAt(w, s, wi), Len(wi) = 0
  PROVE  Len(s) = Len(w.data)
<1> DEFINE o == w.out
           k == Len(s)
<1>1. /\ Len(o) \in Nat /\ WordSize \in Nat \ {0} /\ ChunkSize \in Nat \ {0}
      /\ Len(w.data) \in Nat /\ k \in Nat
  <2>1. o \in Seq(FileByte) /\ w.data \in Seq(FilePlain)  BY DEF FileWriter
  <2> QED BY <2>1, EmptyOrNot, VolumeConstants
<1>2. PICK S \in Places : \E p \in Nat :
        /\ Framed(w, S, TRUE) /\ IsRest(wi, o, p)
        /\ <<p, k>> \in S \/ (p = Len(o) /\ k = Len(w.data))
  BY DEF StandsAt
<1>3. PICK p \in Nat :
        /\ Framed(w, S, TRUE) /\ IsRest(wi, o, p)
        /\ <<p, k>> \in S \/ (p = Len(o) /\ k = Len(w.data))
  BY <1>2
<1> HIDE DEF o, k
<1>4. p = Len(o)
  BY <1>1, <1>3 DEF IsRest
<1>5. CASE <<p, k>> \in S
  <2>1. FullAt(w, S, p, k) \/ LastAt(w, p, k)  BY <1>1, <1>3, <1>5 DEF Framed
  <2>2. ASSUME NEW n \in Nat PROVE ~ ChunkAt(w, p, k, n)
    <3>1. ~ (p + n + WordSize <= Len(o))  BY <1>1, <1>4
    <3> QED BY <3>1 DEF ChunkAt, o
  <2>3. \A n \in 1..ChunkSize : n \in Nat  BY <1>1
  <2>4. LastAt(w, p, k)  BY <1>1, <2>1, <2>2 DEF FullAt
  <2> QED BY <2>2, <2>3, <2>4 DEF LastAt, k
<1> QED BY <1>3, <1>5 DEF k

\* A chunk is taken with its checksum.
LEMMA VolumeFillOK ==
  ASSUME VolumeInv, Volume!FillBuffer
  PROVE  VolumeInv'
<1> DEFINE w == writer
           c == reader.mCrc
           n == reader.mChunkSize + WordSize
           m == IF Len(wire) < n THEN Len(wire) ELSE n
           piece == Volume!ReadInternal(n)
           data == Volume!Upto(piece, Len(piece) - WordSize)
           sum == Volume!After(piece, Len(data))
           rest == Volume!After(wire, Len(piece))
           r == [reader EXCEPT !.mCrc = @ \o data, !.unread = data]
           none == <<>>
<1>1. /\ phase = "reading" /\ result = "reading" /\ reader.mIsHeaderCompleted
      /\ reader.unread = none /\ UNCHANGED <<writer, phase, damaged>> /\ wire' = rest
      /\ IF piece = none
         THEN reader' = [reader EXCEPT !.mEOF = TRUE] /\ Volume!Returns("end")
         ELSE IF Len(piece) < WordSize
         THEN UNCHANGED reader /\ Volume!Returns("exception")
         ELSE IF sum # Volume!Checksum(r.mCrc)
         THEN reader' = r /\ Volume!Returns("exception")
         ELSE Volume!TakeFrom(r)
  BY DEF Volume!FillBuffer, Volume!Due, Volume!Reading
<1>2. /\ w \in FileWriter /\ reader \in FileReader /\ got \in Seq(FileByte)
      /\ wire \in Seq(FileByte) /\ missing \in Nat \ {0} /\ Covers(w) /\ Marks(wire, w, TRUE)
      /\ Reads(w, wire, reader, got, result, damaged)
  BY <1>1 DEF VolumeInv, VolumeTypeOK
<1>3. /\ c \in Seq(FileByte) /\ reader.mChunkSize \in Nat /\ WordSize \in Nat \ {0} /\ n \in Nat
      /\ ChunkSize \in Nat
  BY <1>2, VolumeConstants DEF FileReader
<1>4. got \o none = got
  BY <1>2, ConcatEmptySeq
<1>5. /\ Begins(got, w.data) /\ Holds(w, reader, got)
      /\ ~ damaged => FileOK(w, TRUE) /\ InPlace(w, reader, got, wire)
  BY <1>1, <1>2 DEF Reads, Active
<1> HIDE DEF none
<1>6. /\ Len(c) = WordSize + Len(got) /\ \A i \in 1..Len(got) : c[WordSize + i] = got[i]
      /\ Checked(w, got) /\ reader.mChunkSize \in 1..MaxChunkSize
  BY <1>1, <1>4, <1>5 DEF Holds
<1>7. ~ damaged => /\ w.mIsHeaderCompleted /\ reader.mChunkSize = ChunkSize
                   /\ Begins(c, w.mCrc) /\ StandsAt(w, got, wire)
  BY <1>1, <1>4, <1>5 DEF InPlace
<1>8. /\ m \in Nat /\ m <= Len(wire) /\ Len(wire) \in Nat
      /\ piece \in Seq(FileByte) /\ Len(piece) = m
      /\ Volume!After(wire, m) \in Seq(FileByte) /\ IsRest(Volume!After(wire, m), wire, m)
      /\ WordSize <= m =>
           /\ Volume!Upto(piece, m - WordSize) \in Seq(FileByte)
           /\ Len(Volume!Upto(piece, m - WordSize)) = m - WordSize
           /\ \A j \in 1..WordSize :
                Volume!After(piece, Len(Volume!Upto(piece, m - WordSize)))[j]
                  = wire[(m - WordSize) + j]
  <2> HIDE DEF n
  <2> QED BY <1>2, <1>3, PieceOf
<1> HIDE DEF m
<1>9. /\ rest \in Seq(FileByte) /\ IsRest(rest, wire, m)
      /\ WordSize <= m => /\ data \in Seq(FileByte) /\ Len(data) = m - WordSize
                          /\ \A j \in 1..WordSize : sum[j] = wire[(m - WordSize) + j]
  BY <1>8
<1>10. ASSUME ~ damaged, Len(wire) # 0
       PROVE  /\ WordSize <= Len(piece) /\ Len(data) # 0 /\ sum = Volume!Checksum(c \o data)
              /\ Begins(c \o data, w.mCrc) /\ StandsAt(w, got \o data, rest)
  <2>1. n = ChunkSize + WordSize /\ FileOK(w, TRUE) /\ w.mIsHeaderCompleted
        /\ Begins(c, w.mCrc) /\ StandsAt(w, got, wire)
    BY <1>5, <1>7, <1>10
  <2> HIDE DEF w, c
  <2> QED BY <1>2, <1>3, <1>6, <1>10, <2>1, ChunkArrives
<1> HIDE DEF n
<1>11. Len(got) \in Nat /\ Len(c) \in Nat
  BY <1>2, <1>3, EmptyOrNot
<1>12. piece = none <=> Len(wire) = 0
  <2>1. piece = none <=> m = 0  BY <1>8, EmptyOrNot DEF none
  <2>2. m = 0 <=> Len(wire) = 0
    <3>1. n # 0  BY <1>3, <1>6 DEF n
    <3> QED BY <1>3, <1>8, <3>1 DEF m
  <2> QED BY <2>1, <2>2
<1> HIDE DEF piece, data, sum, rest
<1>13. CASE piece = none
  <2>1. /\ reader' = [reader EXCEPT !.mEOF = TRUE]
        /\ result' = "end" /\ missing' = missing /\ got' = got
    BY <1>1, <1>13 DEF Volume!Returns
  <2>2. ~ damaged => Len(got) = Len(w.data)
    BY <1>2, <1>7, <1>12, <1>13, NothingFollows
  <2>3. Reads(w, rest, reader', got, "end", damaged)
    BY <1>5, <1>6, <2>2 DEF Reads, Active, Checked
  <2>4. reader' \in FileReader  BY <1>2, <2>1 DEF FileReader
  <2> QED BY <1>1, <1>2, <1>8, <1>9, <2>1, <2>3, <2>4, VolumeReadOn
<1>14. CASE piece # none /\ Len(piece) < WordSize
  <2>1. reader' = reader /\ result' = "exception" /\ missing' = missing /\ got' = got
    BY <1>1, <1>14 DEF Volume!Returns
  <2>2. damaged  BY <1>3, <1>8, <1>10, <1>12, <1>14
  <2>3. Reads(w, rest, reader, got, "exception", damaged)
    BY <1>5, <2>2 DEF Reads, Active
  <2> QED BY <1>1, <1>2, <1>8, <1>9, <2>1, <2>3, VolumeReadOn
<1>15. CASE piece # none /\ ~ (Len(piece) < WordSize)
  <2> DEFINE e == c \o data
  <2>1. WordSize <= m /\ data \in Seq(FileByte) /\ Len(data) = m - WordSize
        /\ \A j \in 1..WordSize : sum[j] = wire[(m - WordSize) + j]
    BY <1>3, <1>8, <1>9, <1>15
  <2>2. /\ e \in Seq(FileByte) /\ Len(e) = Len(c) + Len(data)
        /\ \A i \in 1..Len(c) : e[i] = c[i]
        /\ \A i \in 1..Len(data) : e[Len(c) + i] = data[i]
    <3>1. c \in Seq(FileByte) /\ data \in Seq(FileByte)  BY <1>3, <2>1
    <3> HIDE DEF c
    <3> QED BY ONLY <3>1, Joined
  <2> HIDE DEF e
  <2>3. /\ r.mCrc = e /\ r.unread = data /\ r.mIsHeaderCompleted /\ r.mChunkSize = reader.mChunkSize
    BY <1>1, <1>2 DEF FileReader, e
  <2>4. r \in FileReader
    <3>1. r = [reader EXCEPT !.mCrc = e, !.unread = data]
      BY <1>2 DEF FileReader, e
    <3> QED BY <1>2, <2>1, <2>2, <3>1 DEF FileReader
  <2> HIDE DEF r, c
  <2>5. CASE sum # Volume!Checksum(r.mCrc)
    <3>1. reader' = r /\ result' = "exception" /\ missing' = missing /\ got' = got
      BY <1>1, <1>15, <2>5 DEF Volume!Returns
    <3>2. damaged  BY <1>10, <1>12, <1>15, <2>3, <2>5 DEF e
    <3>3. Reads(w, rest, r, got, "exception", damaged)
      BY <1>5, <3>2 DEF Reads, Active
    <3> QED BY <1>1, <1>2, <1>8, <1>9, <2>4, <3>1, <3>3, VolumeReadOn
  <2>6. CASE sum = Volume!Checksum(r.mCrc)
    <3>1. Volume!TakeFrom(r)  BY <1>1, <1>15, <2>6
    <3> DEFINE s == got \o data
    <3>2. /\ s \in Seq(FileByte) /\ Len(s) = Len(got) + Len(data)
          /\ \A i \in 1..Len(got) : s[i] = got[i]
          /\ \A i \in 1..Len(data) : s[Len(got) + i] = data[i]
      <4>1. got \in Seq(FileByte) /\ data \in Seq(FileByte)  BY <1>2, <2>1
      <4> QED BY ONLY <4>1, Joined
    <3> HIDE DEF s
    <3>3. Vouched(e, w, TRUE)
      <4>1. sum[1] = <<"crc", e, 1>>
        <5>1. Len(e) # 0 /\ Len(e) \in Nat
          BY <1>3, <1>6, <1>8, <1>11, <2>1, <2>2
        <5>2. e # none  BY <2>2, <5>1, EmptyOrNot DEF none
        <5>3. 1 \in 1..WordSize  BY <1>3
        <5>4. \A i \in 1..WordSize : Volume!Checksum(e)[i] = <<"crc", e, i>>
          BY <5>2 DEF Volume!Checksum, none
        <5> QED BY <2>3, <2>6, <5>3, <5>4
      <4>2. (m - WordSize) + 1 \in 1..Len(wire) /\ sum[1] = wire[(m - WordSize) + 1]
        BY <1>3, <1>8, <2>1
      <4> DEFINE q == (m - WordSize) + 1
      <4>3. q \in 1..Len(wire) /\ wire[q] = <<"crc", e, 1>>  BY <4>1, <4>2
      <4> HIDE DEF q
      <4>4. wire[q][1] = "crc" /\ wire[q][2] = e  BY <4>3
      <4> QED BY <1>2, <4>3, <4>4 DEF Marks
    <3>4. Len(e) = WordSize + Len(s) /\ \A i \in 1..Len(s) : e[WordSize + i] = s[i]
      <4>1. Len(data) \in Nat /\ Len(e) = WordSize + Len(s)
        BY <1>3, <1>6, <1>8, <1>11, <2>1, <2>2, <3>2
      <4>2. ASSUME NEW i \in 1..Len(s) PROVE e[WordSize + i] = s[i]
        <5>1. CASE i <= Len(got)
          <6>1. i \in 1..Len(got) /\ WordSize + i \in 1..Len(c)
            BY <1>3, <1>6, <1>11, <5>1
          <6>2. c[WordSize + i] = got[i]  BY <1>6, <6>1
          <6> QED BY <2>2, <3>2, <6>1, <6>2
        <5>2. CASE ~ (i <= Len(got))
          <6> DEFINE j == i - Len(got)
          <6>1. j \in 1..Len(data) /\ i = Len(got) + j /\ WordSize + i = Len(c) + j
            BY <1>3, <1>6, <1>11, <3>2, <4>1, <5>2
          <6> HIDE DEF j
          <6> QED BY <2>2, <3>2, <6>1
        <5> QED BY <5>1, <5>2
      <4> QED BY <4>1, <4>2
    <3>5. Checked(w, s)  BY <1>2, <2>2, <3>2, <3>3, <3>4, SumVouches
    <3>6. Holds(w, r, got)
      <4>1. got \o r.unread = s  BY <2>3 DEF s
      <4> QED BY <1>6, <2>3, <3>4, <3>5, <4>1 DEF Holds
    <3>7. ~ damaged => FileOK(w, TRUE) /\ InPlace(w, r, got, rest) /\ r.unread # none
      <4>1. SUFFICES ASSUME ~ damaged PROVE FileOK(w, TRUE) /\ InPlace(w, r, got, rest) /\ r.unread # none
        OBVIOUS
      <4>2. /\ Len(data) # 0 /\ Begins(e, w.mCrc) /\ StandsAt(w, got \o data, rest)
        BY <1>10, <1>12, <1>15, <4>1 DEF e
      <4>3. data # none  BY <2>1, <4>2, EmptyOrNot DEF none
      <4>4. got \o r.unread = got \o data  BY <2>3
      <4> QED BY <1>5, <1>7, <2>3, <4>1, <4>2, <4>3, <4>4 DEF InPlace
    <3>8. /\ reader' \in FileReader /\ got' \in Seq(FileByte) /\ missing' \in Nat \ {0}
          /\ result' \in {"end", "data"} /\ Reads(w, rest, reader', got', result', damaged)
      BY <1>2, <2>3, <2>4, <3>1, <3>6, <3>7, TakeFromOK DEF none
    <3> QED BY <1>1, <1>2, <1>8, <1>9, <3>8, VolumeReadOn
  <2> QED BY <2>5, <2>6
<1> QED BY <1>13, <1>14, <1>15

LEMMA VolumeNextOK ==
  ASSUME VolumeInv, Volume!Next
  PROVE  VolumeInv'
<1>1. ASSUME NEW n \in 0..MaxData, Volume!Write(n) PROVE VolumeInv'
  <2>1. phase = "writing" /\ UNCHANGED <<wire, phase, damaged, reader, missing, got, result>>
    BY <1>1 DEF Volume!Write, Volume!transferVars, Volume!readVars
  <2>2. Writing(writer') /\ writer' \in FileWriter
    BY <1>1, <2>1, WriteOK DEF VolumeInv, Writing, FileOK
  <2> QED BY <2>1, <2>2 DEF VolumeInv, VolumeTypeOK
<1>2. ASSUME Volume!Close PROVE VolumeInv'
  <2>1. /\ phase = "writing" /\ phase' = "closed"
        /\ UNCHANGED <<wire, damaged, reader, missing, got, result>>
    BY <1>2 DEF Volume!Close, Volume!readVars
  <2>2. FileOK(writer', TRUE) /\ writer' \in FileWriter
    BY <1>2, <2>1, CloseOK DEF VolumeInv, FileOK
  <2> QED BY <2>1, <2>2 DEF VolumeInv, VolumeTypeOK
<1>3. CASE Volume!Arrives
  BY <1>3, VolumeArrivesOK
<1>4. ASSUME NEW n \in 1..MaxRead, Volume!Read(n) PROVE VolumeInv'
  BY <1>4, VolumeReadOK
<1>5. CASE Volume!ReadStep
  BY <1>5, VolumeHeaderOK, VolumeBufferOK, VolumeFillOK DEF Volume!ReadStep
<1> QED BY <1>1, <1>2, <1>3, <1>4, <1>5 DEF Volume!Next

\* What the invariant says of what was returned.
LEMMA VolumeSafe ==
  ASSUME VolumeInv
  PROVE  Volume!ReadsOnlyWritten /\ Volume!WholeUnlessDamaged /\ Volume!MissesOnlyChunks
<1> DEFINE d == writer.data
           none == <<>>
<1>1. got \in Seq(FileByte) /\ d \in Seq(FileByte)
  <2>1. got \in Seq(FileByte) /\ d \in Seq(FilePlain)
    BY DEF VolumeInv, VolumeTypeOK, FileWriter
  <2>2. FilePlain \subseteq FileByte  BY DEF FileByte
  <2> HIDE DEF d
  <2> QED BY <2>1, <2>2, SeqMonotonic
<1>2. Len(got) \in Nat /\ Len(d) \in Nat
  BY <1>1, EmptyOrNot
<1>3. /\ Begins(got, d)
      /\ result = "end" => Chunks(Len(got)) \/ Len(got) = Len(d)
      /\ ~ damaged => result # "exception" /\ (result = "end" => Len(got) = Len(d))
  <2>1. CASE phase = "reading"  BY <2>1 DEF VolumeInv, Reads
  <2>2. CASE phase # "reading"
    <3>1. got = none /\ result = "none"  BY <2>2 DEF VolumeInv
    <3>2. Len(none) = 0  OBVIOUS
    <3> HIDE DEF none, d
    <3>3. Begins(got, d)  BY <1>2, <3>1, <3>2 DEF Begins
    <3> QED BY <3>1, <3>3
  <2> QED BY <2>1, <2>2
<1> HIDE DEF d
<1>4. Len(got) = Len(d) => got = d
  BY <1>1, <1>3, SeqEqual DEF Begins
<1>5. \E n \in 0..Len(d) : got = SubSeq(d, 1, n)
  BY <1>1, <1>3, BeginningIsPart
<1>6. Chunks(Len(got)) => Len(got) % ChunkSize = 0
  BY <1>2, ChunksAdd
<1> QED BY <1>3, <1>4, <1>5, <1>6
  DEF d, Volume!ReadsOnlyWritten, Volume!Upto, Volume!WholeUnlessDamaged, Volume!MissesOnlyChunks

\* What the framing is about.
LEMMA VolumeStays ==
  ASSUME VolumeInv, UNCHANGED <<writer, wire, phase, damaged, reader, missing, got, result>>
  PROVE  VolumeInv'
<1>1. VolumeTypeOK' <=> VolumeTypeOK
  BY DEF VolumeTypeOK
<1> QED BY <1>1 DEF VolumeInv

-----------------------------------------------------------------------------
(* A transfer of record batches.                                            *)

BatchByte == {"data"} \X Nat \X Nat

StreamByte == FilePlain \cup ({"crc"} \X Seq(BatchByte) \X Nat)

BatchWriter ==
  [out : Seq(StreamByte), mOffset : 0..(ChunkSize - 1), mChunkCrc : Seq(BatchByte),
   mGlobalCrc : Seq(BatchByte), mIsWriteChunkSize : BOOLEAN, mIsGlobalCheck : BOOLEAN]

\* After p bytes of the transfer and k of the data, m data bytes.
RunAt(w, p, k, m) ==
  /\ p + m <= Len(w.out) /\ k + m <= Len(w.mGlobalCrc)
  /\ \A j \in 1..m : w.out[p + j] = w.mGlobalCrc[k + j]

\* A full chunk and its own checksum, after which comes another place.
FullChunk(w, S, p, k) ==
  /\ RunAt(w, p, k, ChunkSize) /\ p + ChunkSize + WordSize <= Len(w.out)
  /\ \E d \in Seq(BatchByte) :
       /\ Len(d) = ChunkSize /\ \A j \in 1..ChunkSize : d[j] = w.mGlobalCrc[k + j]
       /\ \A j \in 1..WordSize : w.out[p + ChunkSize + j] = <<"crc", d, j>>
  /\ <<p + ChunkSize + WordSize, k + ChunkSize>> \in S

\* The beginning of a chunk, perhaps of no data.
OpenChunk(w, p, k) ==
  /\ k + w.mOffset = Len(w.mGlobalCrc) /\ p + w.mOffset = Len(w.out) /\ RunAt(w, p, k, w.mOffset)
  /\ Len(w.mChunkCrc) = w.mOffset
  /\ \A j \in 1..w.mOffset : w.mChunkCrc[j] = w.mGlobalCrc[k + j]

\* The last data and the checksum of all.
LastChunk(w, p, k) ==
  \E m \in 0..(ChunkSize - 1) :
    /\ RunAt(w, p, k, m) /\ k + m = Len(w.mGlobalCrc) /\ p + m + WordSize = Len(w.out)
    /\ \A j \in 1..WordSize : w.out[p + m + j] = Arrow!Checksum(w.mGlobalCrc)[j]

Chunked(w, S) ==
  /\ S \in Places /\ <<WordSize, 0>> \in S
  /\ \A p, k \in Nat : <<p, k>> \in S =>
       FullChunk(w, S, p, k)
         \/ (IF w.mIsGlobalCheck THEN LastChunk(w, p, k) ELSE OpenChunk(w, p, k))

StreamOK(w) ==
  /\ w \in BatchWriter
  /\ w.mIsGlobalCheck => Len(w.mGlobalCrc) % BatchSize = 0
  /\ IF w.mIsWriteChunkSize
     THEN /\ WordSize <= Len(w.out)
          /\ \A i \in 1..WordSize : w.out[i] = <<"size", ChunkSize, i>>
          /\ \E S \in Places : Chunked(w, S)
     ELSE /\ w.mOffset = 0 /\ w.mChunkCrc = <<>> /\ w.mGlobalCrc = <<>>
          /\ w.out = IF w.mIsGlobalCheck THEN Arrow!SizeWord(0) ELSE <<>>

LEMMA BatchConstants ==
  /\ WordSize \in Nat \ {0} /\ ChunkSize \in Nat \ {0} /\ BatchSize \in Nat \ {0} /\ MaxData \in Nat
  BY TransfersAssumption DEF Arrow!ArrowAssumption, Arrow!WordAssumption

LEMMA BatchBytes ==
  /\ BatchByte \subseteq FilePlain /\ BatchByte \subseteq StreamByte
  /\ FilePlain \subseteq StreamByte
  /\ \A s : s \in Seq(BatchByte) => s \in Seq(StreamByte)
  /\ \A s : s \in Seq(FilePlain) => s \in Seq(StreamByte)
<1>1. BatchByte \subseteq FilePlain
  BY DEF BatchByte, FilePlain
<1>2. FilePlain \subseteq StreamByte
  BY DEF StreamByte
<1>3. BatchByte \subseteq StreamByte
  BY <1>1, <1>2
<1>4. \A s : s \in Seq(BatchByte) => s \in Seq(StreamByte)
  BY <1>3, SeqMonotonic
<1>5. \A s : s \in Seq(FilePlain) => s \in Seq(StreamByte)
  BY <1>2, SeqMonotonic
<1> QED BY <1>1, <1>2, <1>3, <1>4, <1>5

\* A word of a size and a checksum.
LEMMA StreamWords ==
  /\ \A n \in Nat : /\ Arrow!SizeWord(n) \in Seq(StreamByte)
                    /\ Len(Arrow!SizeWord(n)) = WordSize
                    /\ \A i \in 1..WordSize : Arrow!SizeWord(n)[i] = <<"size", n, i>>
  /\ \A d \in Seq(BatchByte) :
       /\ Arrow!Checksum(d) \in Seq(StreamByte) /\ Len(Arrow!Checksum(d)) = WordSize
       /\ \A i \in 1..WordSize :
            Arrow!Checksum(d)[i] = IF d = <<>> THEN <<"size", 0, i>> ELSE <<"crc", d, i>>
<1>1. WordSize \in Nat
  BY BatchConstants
<1>2. ASSUME NEW n \in Nat
      PROVE  /\ Arrow!SizeWord(n) \in Seq(StreamByte) /\ Len(Arrow!SizeWord(n)) = WordSize
             /\ \A i \in 1..WordSize : Arrow!SizeWord(n)[i] = <<"size", n, i>>
  <2> DEFINE s == [i \in 1..WordSize |-> <<"size", n, i>>]
  <2>1. \A i \in 1..WordSize : <<"size", n, i>> \in StreamByte
    BY <1>1 DEF FilePlain, StreamByte
  <2>2. s \in [1..WordSize -> StreamByte]  BY <2>1
  <2>3. s \in Seq(StreamByte) /\ Len(s) = WordSize  BY <1>1, <2>2
  <2> QED BY <2>3 DEF Arrow!SizeWord
<1>3. ASSUME NEW d \in Seq(BatchByte)
      PROVE  /\ Arrow!Checksum(d) \in Seq(StreamByte) /\ Len(Arrow!Checksum(d)) = WordSize
             /\ \A i \in 1..WordSize :
                  Arrow!Checksum(d)[i] = IF d = <<>> THEN <<"size", 0, i>> ELSE <<"crc", d, i>>
  <2>1. CASE d = <<>>  BY <1>2, <2>1 DEF Arrow!Checksum
  <2>2. CASE d # <<>>
    <3> DEFINE s == [i \in 1..WordSize |-> <<"crc", d, i>>]
    <3>1. \A i \in 1..WordSize : <<"crc", d, i>> \in StreamByte
      BY <1>1 DEF StreamByte
    <3>2. s \in [1..WordSize -> StreamByte]  BY <3>1
    <3>3. s \in Seq(StreamByte) /\ Len(s) = WordSize  BY <1>1, <3>2
    <3> QED BY <2>2, <3>3 DEF Arrow!Checksum
  <2> QED BY <2>1, <2>2
<1> QED BY <1>2, <1>3

\* What a writer holds, by kind.
LEMMA WriterParts ==
  ASSUME NEW w \in BatchWriter
  PROVE  /\ w.out \in Seq(StreamByte) /\ w.mGlobalCrc \in Seq(BatchByte)
         /\ w.mChunkCrc \in Seq(BatchByte) /\ w.mOffset \in Nat /\ w.mOffset < ChunkSize
         /\ Len(w.out) \in Nat /\ Len(w.mGlobalCrc) \in Nat /\ Len(w.mChunkCrc) \in Nat
         /\ WordSize \in Nat \ {0} /\ ChunkSize \in Nat \ {0}
         /\ w.mIsWriteChunkSize \in BOOLEAN /\ w.mIsGlobalCheck \in BOOLEAN
<1>1. /\ w.out \in Seq(StreamByte) /\ w.mGlobalCrc \in Seq(BatchByte)
      /\ w.mChunkCrc \in Seq(BatchByte) /\ w.mOffset \in 0..(ChunkSize - 1)
      /\ w.mIsWriteChunkSize \in BOOLEAN /\ w.mIsGlobalCheck \in BOOLEAN
  BY DEF BatchWriter
<1> QED BY <1>1, BatchConstants, EmptyOrNot

\* What was framed stays framed as the transfer grows.
LEMMA RunStays ==
  ASSUME NEW w \in BatchWriter, NEW v \in BatchWriter,
         Begins(w.out, v.out), Begins(w.mGlobalCrc, v.mGlobalCrc),
         NEW p \in Nat, NEW k \in Nat, NEW m \in Nat, RunAt(w, p, k, m)
  PROVE  RunAt(v, p, k, m)
<1>1. /\ Len(w.out) \in Nat /\ Len(w.mGlobalCrc) \in Nat
      /\ Len(v.out) \in Nat /\ Len(v.mGlobalCrc) \in Nat
  BY WriterParts
<1>2. p + m <= Len(w.out) /\ k + m <= Len(w.mGlobalCrc)
  BY DEF RunAt
<1>3. p + m <= Len(v.out) /\ k + m <= Len(v.mGlobalCrc)
  BY <1>1, <1>2 DEF Begins
<1>4. ASSUME NEW j \in 1..m PROVE v.out[p + j] = v.mGlobalCrc[k + j]
  <2>1. p + j \in 1..Len(w.out) /\ k + j \in 1..Len(w.mGlobalCrc)  BY <1>1, <1>2
  <2>2. w.out[p + j] = w.mGlobalCrc[k + j]  BY DEF RunAt
  <2> QED BY <2>1, <2>2 DEF Begins
<1> QED BY <1>3, <1>4 DEF RunAt

LEMMA FullChunkStays ==
  ASSUME NEW w \in BatchWriter, NEW v \in BatchWriter,
         Begins(w.out, v.out), Begins(w.mGlobalCrc, v.mGlobalCrc),
         NEW S, NEW T, S \subseteq T,
         NEW p \in Nat, NEW k \in Nat, FullChunk(w, S, p, k)
  PROVE  FullChunk(v, T, p, k)
<1>1. /\ Len(w.out) \in Nat /\ Len(w.mGlobalCrc) \in Nat
      /\ Len(v.out) \in Nat /\ Len(v.mGlobalCrc) \in Nat /\ WordSize \in Nat /\ ChunkSize \in Nat
  BY WriterParts
<1>2. RunAt(w, p, k, ChunkSize) /\ p + ChunkSize + WordSize <= Len(w.out)
      /\ <<p + ChunkSize + WordSize, k + ChunkSize>> \in S
  BY DEF FullChunk
<1>3. PICK d \in Seq(BatchByte) :
        /\ Len(d) = ChunkSize /\ \A j \in 1..ChunkSize : d[j] = w.mGlobalCrc[k + j]
        /\ \A j \in 1..WordSize : w.out[p + ChunkSize + j] = <<"crc", d, j>>
  BY DEF FullChunk
<1>4. k + ChunkSize <= Len(w.mGlobalCrc)
  BY <1>2 DEF RunAt
<1>5. RunAt(v, p, k, ChunkSize)
  BY <1>1, <1>2, RunStays
<1>6. p + ChunkSize + WordSize <= Len(v.out)
  BY <1>1, <1>2 DEF Begins
<1>7. ASSUME NEW j \in 1..ChunkSize PROVE d[j] = v.mGlobalCrc[k + j]
  <2>1. k + j \in 1..Len(w.mGlobalCrc)  BY <1>1, <1>4
  <2> QED BY <1>3, <2>1 DEF Begins
<1>8. ASSUME NEW j \in 1..WordSize PROVE v.out[p + ChunkSize + j] = <<"crc", d, j>>
  <2>1. p + ChunkSize + j \in 1..Len(w.out)  BY <1>1, <1>2
  <2> QED BY <1>3, <2>1 DEF Begins
<1> QED BY <1>2, <1>3, <1>5, <1>6, <1>7, <1>8 DEF FullChunk

\* The size of the chunks comes first.
LEMMA SizedOK ==
  ASSUME NEW w, StreamOK(w), ~ w.mIsGlobalCheck
  PROVE  /\ StreamOK(Arrow!Sized(w)) /\ Arrow!Sized(w).mIsWriteChunkSize
         /\ ~ Arrow!Sized(w).mIsGlobalCheck /\ Arrow!Sized(w).mGlobalCrc = w.mGlobalCrc
<1> DEFINE v == Arrow!Sized(w)
           word == Arrow!SizeWord(ChunkSize)
           none == <<>>
<1>1. w \in BatchWriter /\ WordSize \in Nat \ {0} /\ ChunkSize \in Nat \ {0}
      /\ w.mIsWriteChunkSize \in BOOLEAN
  BY BatchConstants DEF StreamOK, BatchWriter
<1>2. CASE w.mIsWriteChunkSize
  <2>1. v = w  BY <1>2 DEF Arrow!Sized
  <2> QED BY <1>2, <2>1
<1>3. CASE ~ w.mIsWriteChunkSize
  <2>1. w.out = none /\ w.mGlobalCrc = none /\ w.mChunkCrc = none /\ w.mOffset = 0
    BY <1>3 DEF StreamOK
  <2>2. /\ word \in Seq(StreamByte) /\ Len(word) = WordSize
        /\ \A i \in 1..WordSize : word[i] = <<"size", ChunkSize, i>>
    BY <1>1, StreamWords
  <2>3. none \o word = word /\ Len(none) = 0 /\ none \in Seq(BatchByte)
    <3> HIDE DEF word
    <3> QED BY <2>2, ConcatEmptySeq, EmptySeq
  <2>4. /\ v.out = word /\ v.mIsWriteChunkSize /\ v.mGlobalCrc = none /\ v.mOffset = 0
        /\ v.mChunkCrc = none /\ v.mIsGlobalCheck = w.mIsGlobalCheck
        /\ v = [w EXCEPT !.out = word, !.mIsWriteChunkSize = TRUE]
    <3>1. v = [w EXCEPT !.out = @ \o word, !.mIsWriteChunkSize = TRUE]
      BY <1>3 DEF Arrow!Sized
    <3> HIDE DEF v, word
    <3>2. v = [w EXCEPT !.out = word, !.mIsWriteChunkSize = TRUE]
      BY <1>1, <2>1, <2>3, <3>1 DEF BatchWriter
    <3> QED BY <1>1, <2>1, <3>2 DEF BatchWriter
  <2> HIDE DEF v, word, none
  <2>5. v \in BatchWriter  BY <1>1, <2>2, <2>4 DEF BatchWriter
  <2> DEFINE S == {<<WordSize, 0>>}
  <2>6. S \in Places /\ <<WordSize, 0>> \in S  BY <1>1 DEF Places
  <2>7. ASSUME NEW p \in Nat, NEW k \in Nat, <<p, k>> \in S PROVE OpenChunk(v, p, k)
    <3>1. p = WordSize /\ k = 0  BY <2>7
    <3> QED BY <1>1, <2>2, <2>3, <2>4, <3>1 DEF OpenChunk, RunAt
  <2>8. Chunked(v, S)  BY <2>4, <2>6, <2>7 DEF Chunked
  <2> QED BY <1>1, <2>1, <2>2, <2>4, <2>5, <2>6, <2>8 DEF StreamOK, v
<1> QED BY <1>1, <1>2, <1>3

\* One more byte of a chunk, and its checksum when it is full.
LEMMA BytePut ==
  ASSUME NEW w \in BatchWriter, NEW x \in BatchByte
  PROVE  LET v == Arrow!Put(w, x)
             full == w.mOffset + 1 = ChunkSize
         IN  /\ v \in BatchWriter /\ v.mGlobalCrc = Append(w.mGlobalCrc, x)
             /\ v.mOffset = IF full THEN 0 ELSE w.mOffset + 1
             /\ v.mChunkCrc = IF full THEN <<>> ELSE Append(w.mChunkCrc, x)
             /\ v.mIsWriteChunkSize = w.mIsWriteChunkSize /\ v.mIsGlobalCheck = w.mIsGlobalCheck
             /\ Begins(w.out, v.out) /\ v.out[Len(w.out) + 1] = x
             /\ Len(v.out) = Len(w.out) + 1 + (IF full THEN WordSize ELSE 0)
             /\ full => \A j \in 1..WordSize :
                          v.out[Len(w.out) + 1 + j] = <<"crc", Append(w.mChunkCrc, x), j>>
<1> DEFINE v == Arrow!Put(w, x)
           o == w.out
           g == w.mGlobalCrc
           chunk == Append(w.mChunkCrc, x)
           full == w.mOffset + 1 = ChunkSize
           none == <<>>
           a == Append(o, x)
           t == IF full THEN Arrow!Checksum(chunk) ELSE none
           z == a \o t
<1>1. /\ o \in Seq(StreamByte) /\ g \in Seq(BatchByte) /\ w.mChunkCrc \in Seq(BatchByte)
      /\ w.mOffset \in Nat /\ w.mOffset < ChunkSize /\ Len(o) \in Nat
      /\ WordSize \in Nat \ {0} /\ ChunkSize \in Nat \ {0} /\ x \in StreamByte
      /\ Len(w.mChunkCrc) \in Nat
  BY WriterParts, BatchBytes
<1>2. chunk \in Seq(BatchByte) /\ Len(chunk) = Len(w.mChunkCrc) + 1
  <2> DEFINE c == w.mChunkCrc
  <2>1. c \in Seq(BatchByte)  BY <1>1
  <2> HIDE DEF c
  <2>2. Append(c, x) \in Seq(BatchByte) /\ Len(Append(c, x)) = Len(c) + 1
    BY <2>1, Appended
  <2> QED BY <2>2 DEF c
<1>3. chunk # none
  <2>1. Len(chunk) # 0  BY <1>1, <1>2
  <2> HIDE DEF chunk
  <2> QED BY <1>2, <2>1, EmptyOrNot
<1>4. /\ a \in Seq(StreamByte) /\ Len(a) = Len(o) + 1
      /\ \A i \in 1..Len(o) : a[i] = o[i]
      /\ a[Len(o) + 1] = x
  <2> HIDE DEF o
  <2> QED BY <1>1, Appended
<1>5. Append(g, x) \in Seq(BatchByte)
  <2> HIDE DEF g
  <2> QED BY <1>1, Appended
<1> HIDE DEF chunk
<1>6. /\ t \in Seq(StreamByte) /\ Len(t) = (IF full THEN WordSize ELSE 0)
      /\ full => \A j \in 1..WordSize : t[j] = <<"crc", chunk, j>>
  <2>1. CASE full  BY <1>2, <1>3, <2>1, StreamWords
  <2>2. CASE ~ full  BY <2>2
  <2> QED BY <2>1, <2>2
<1> HIDE DEF a, t
<1>7. /\ z \in Seq(StreamByte) /\ Len(z) = Len(a) + Len(t)
      /\ \A i \in 1..Len(a) : z[i] = a[i]
      /\ \A i \in 1..Len(t) : z[Len(a) + i] = t[i]
  <2>1. a \in Seq(StreamByte) /\ t \in Seq(StreamByte)  BY <1>4, <1>6
  <2> QED BY ONLY <2>1, Joined
<1> HIDE DEF z, none
<1>8. v = [w EXCEPT !.out = z, !.mOffset = IF full THEN 0 ELSE @ + 1,
                    !.mChunkCrc = IF full THEN none ELSE chunk, !.mGlobalCrc = Append(g, x)]
  BY DEF Arrow!Put, BatchWriter, z, a, t, chunk, none
<1>9. /\ v.out = z /\ v.mOffset = (IF full THEN 0 ELSE w.mOffset + 1)
      /\ v.mChunkCrc = (IF full THEN none ELSE chunk) /\ v.mGlobalCrc = Append(g, x)
      /\ v.mIsWriteChunkSize = w.mIsWriteChunkSize /\ v.mIsGlobalCheck = w.mIsGlobalCheck
  <2> HIDE DEF v, full
  <2> QED BY <1>8 DEF BatchWriter
<1>10. v \in BatchWriter
  <2> DEFINE f == IF full THEN 0 ELSE w.mOffset + 1
             h == IF full THEN none ELSE chunk
             gg == Append(g, x)
  <2>1. f \in 0..(ChunkSize - 1) /\ h \in Seq(BatchByte) /\ gg \in Seq(BatchByte)
    <3>1. none \in Seq(BatchByte)  BY DEF none
    <3> QED BY <1>1, <1>2, <1>5, <3>1
  <2>2. v = [w EXCEPT !.out = z, !.mOffset = f, !.mChunkCrc = h, !.mGlobalCrc = gg]
    BY <1>8
  <2> HIDE DEF f, h, gg, v
  <2> QED BY <1>7, <2>1, <2>2 DEF BatchWriter
<1> HIDE DEF v, full
<1> DEFINE l == Len(o)
           more == IF full THEN WordSize ELSE 0
<1>20. Len(t) = more /\ more \in Nat /\ l \in Nat
  BY <1>1, <1>6
<1> HIDE DEF o, more, l
<1>21. Len(a) = l + 1 /\ Len(z) = l + 1 + more /\ Len(o) = l
  BY <1>4, <1>7, <1>20 DEF l
<1>22. /\ \A i \in 1..l : z[i] = o[i]
       /\ z[l + 1] = x
  BY <1>4, <1>7, <1>20, <1>21
<1>11. Begins(o, z) /\ z[Len(o) + 1] = x
  BY <1>20, <1>21, <1>22 DEF Begins
<1>12. Len(z) = Len(o) + 1 + (IF full THEN WordSize ELSE 0)
  BY <1>21 DEF more
<1>13. full => \A j \in 1..WordSize : z[Len(o) + 1 + j] = <<"crc", chunk, j>>
  BY <1>6, <1>7, <1>21
<1> QED BY <1>9, <1>10, <1>11, <1>12, <1>13 DEF v, full, chunk, none, o

\* What was open has one more byte.
Grows(o, g, c, vo, vg, chunk, x, off, p, k) ==
  /\ {o, vo} \subseteq Seq(StreamByte) /\ {g, c, vg, chunk} \subseteq Seq(BatchByte)
  /\ {off, p, k} \subseteq Nat /\ k + off = Len(g) /\ p + off = Len(o) /\ Len(c) = off
  /\ \A j \in 1..off : o[p + j] = g[k + j] /\ c[j] = g[k + j]
  /\ Begins(o, vo) /\ vo[Len(o) + 1] = x /\ Len(o) + 1 <= Len(vo)
  /\ Begins(g, vg) /\ vg[Len(g) + 1] = x /\ Len(vg) = Len(g) + 1
  /\ Begins(c, chunk) /\ chunk[Len(c) + 1] = x /\ Len(chunk) = Len(c) + 1

LEMMA OpenGrows ==
  ASSUME NEW o, NEW g, NEW c, NEW vo, NEW vg, NEW chunk, NEW x, NEW off, NEW p, NEW k,
         Grows(o, g, c, vo, vg, chunk, x, off, p, k)
  PROVE  /\ p + (off + 1) <= Len(vo) /\ k + (off + 1) = Len(vg) /\ p + (off + 1) = Len(o) + 1
         /\ Len(chunk) = off + 1
         /\ \A j \in 1..(off + 1) : vo[p + j] = vg[k + j] /\ chunk[j] = vg[k + j]
<1>1. /\ off \in Nat /\ p \in Nat /\ k \in Nat
      /\ k + off = Len(g) /\ p + off = Len(o) /\ Len(c) = off
      /\ \A j \in 1..off : o[p + j] = g[k + j] /\ c[j] = g[k + j]
      /\ Begins(o, vo) /\ vo[Len(o) + 1] = x /\ Len(o) + 1 <= Len(vo)
      /\ Begins(g, vg) /\ vg[Len(g) + 1] = x /\ Len(vg) = Len(g) + 1
      /\ Begins(c, chunk) /\ chunk[Len(c) + 1] = x /\ Len(chunk) = Len(c) + 1
  BY DEF Grows
<1>2. Len(o) \in Nat /\ Len(vo) \in Nat /\ Len(g) \in Nat
  <2>1. o \in Seq(StreamByte) /\ vo \in Seq(StreamByte) /\ g \in Seq(BatchByte)
    BY DEF Grows
  <2> QED BY <2>1, EmptyOrNot
<1>3. ASSUME NEW j \in 1..(off + 1)
      PROVE  vo[p + j] = vg[k + j] /\ chunk[j] = vg[k + j]
  <2>1. CASE j = off + 1
    <3>1. p + j = Len(o) + 1 /\ k + j = Len(g) + 1 /\ j = Len(c) + 1
      BY <1>1, <1>2, <2>1
    <3> QED BY <1>1, <3>1
  <2>2. CASE j # off + 1
    <3>1. j \in 1..off /\ p + j \in 1..Len(o) /\ k + j \in 1..Len(g) /\ j \in 1..Len(c)
      BY <1>1, <1>2, <2>2
    <3> QED BY <1>1, <3>1 DEF Begins
  <2> QED BY <2>1, <2>2
<1> QED BY <1>1, <1>2, <1>3

\* The size stays in front.
LEMMA WordStays ==
  ASSUME NEW S, NEW s \in Seq(S), NEW t \in Seq(S), Begins(s, t), WordSize <= Len(s),
         \A i \in 1..WordSize : s[i] = <<"size", ChunkSize, i>>
  PROVE  WordSize <= Len(t) /\ \A i \in 1..WordSize : t[i] = <<"size", ChunkSize, i>>
<1>1. WordSize \in Nat /\ Len(s) \in Nat /\ Len(t) \in Nat
  BY BatchConstants, EmptyOrNot
<1>2. ASSUME NEW i \in 1..WordSize PROVE t[i] = <<"size", ChunkSize, i>>
  <2>1. i \in 1..Len(s)  BY <1>1
  <2> QED BY <2>1 DEF Begins
<1> QED BY <1>1, <1>2 DEF Begins

LEMMA BytePutOK ==
  ASSUME NEW w, StreamOK(w), w.mIsWriteChunkSize, ~ w.mIsGlobalCheck, NEW x \in BatchByte
  PROVE  /\ StreamOK(Arrow!Put(w, x)) /\ Arrow!Put(w, x).mIsWriteChunkSize
         /\ ~ Arrow!Put(w, x).mIsGlobalCheck
<1> DEFINE v == Arrow!Put(w, x)
           o == w.out
           g == w.mGlobalCrc
           c == w.mChunkCrc
           vo == v.out
           vg == v.mGlobalCrc
           off == w.mOffset
           chunk == Append(c, x)
           full == off + 1 = ChunkSize
           none == <<>>
<1>1. w \in BatchWriter
  BY DEF StreamOK
<1>2. /\ v \in BatchWriter /\ vg = Append(g, x)
      /\ v.mOffset = (IF full THEN 0 ELSE off + 1)
      /\ v.mChunkCrc = (IF full THEN none ELSE chunk)
      /\ v.mIsWriteChunkSize /\ ~ v.mIsGlobalCheck /\ Begins(o, vo) /\ vo[Len(o) + 1] = x
      /\ Len(vo) = Len(o) + 1 + (IF full THEN WordSize ELSE 0)
      /\ full => \A j \in 1..WordSize : vo[Len(o) + 1 + j] = <<"crc", chunk, j>>
  BY <1>1, BytePut
<1> HIDE DEF v
<1>3. /\ o \in Seq(StreamByte) /\ g \in Seq(BatchByte) /\ c \in Seq(BatchByte)
      /\ off \in Nat /\ off < ChunkSize /\ Len(o) \in Nat /\ Len(g) \in Nat /\ Len(c) \in Nat
      /\ WordSize \in Nat \ {0} /\ ChunkSize \in Nat \ {0}
      /\ vo \in Seq(StreamByte) /\ vg \in Seq(BatchByte) /\ Len(vo) \in Nat /\ Len(vg) \in Nat
  BY <1>1, <1>2, WriterParts
<1>6. PICK S \in Places : Chunked(w, S)
  BY DEF StreamOK
<1>7. WordSize <= Len(o) /\ \A i \in 1..WordSize : o[i] = <<"size", ChunkSize, i>>
  BY DEF StreamOK
<1>8. ASSUME NEW p \in Nat, NEW k \in Nat, OpenChunk(w, p, k)
      PROVE  /\ k + off = Len(g) /\ p + off = Len(o) /\ Len(c) = off
             /\ \A j \in 1..off : o[p + j] = g[k + j] /\ c[j] = g[k + j]
  BY <1>8 DEF OpenChunk, RunAt
<1> HIDE DEF o, g, c, vo, vg, off, chunk, full
<1>4. /\ Len(vg) = Len(g) + 1 /\ vg[Len(g) + 1] = x /\ Begins(g, vg)
  <2>1. Len(Append(g, x)) = Len(g) + 1 /\ \A i \in 1..Len(g) : Append(g, x)[i] = g[i]
        /\ Append(g, x)[Len(g) + 1] = x
    BY <1>3, Appended
  <2> QED BY <1>2, <1>3, <2>1 DEF Begins
<1>5. /\ chunk \in Seq(BatchByte) /\ Len(chunk) = Len(c) + 1 /\ Begins(c, chunk)
      /\ chunk[Len(c) + 1] = x
  <2>1. Append(c, x) \in Seq(BatchByte) /\ Len(Append(c, x)) = Len(c) + 1
        /\ (\A i \in 1..Len(c) : Append(c, x)[i] = c[i])
        /\ Append(c, x)[Len(c) + 1] = x
    BY <1>3, Appended
  <2> QED BY <1>3, <2>1 DEF chunk, Begins
<1>9. WordSize <= Len(vo) /\ \A i \in 1..WordSize : vo[i] = <<"size", ChunkSize, i>>
  BY <1>2, <1>3, <1>7, WordStays
<1>10. Len(o) + 1 <= Len(vo)
  BY <1>2, <1>3
<1>11. ASSUME NEW p \in Nat, NEW k \in Nat, OpenChunk(w, p, k)
       PROVE  /\ p + (off + 1) <= Len(vo) /\ k + (off + 1) = Len(vg) /\ p + (off + 1) = Len(o) + 1
              /\ Len(chunk) = off + 1
              /\ \A j \in 1..(off + 1) : vo[p + j] = vg[k + j] /\ chunk[j] = vg[k + j]
  <2>1. Grows(o, g, c, vo, vg, chunk, x, off, p, k)
    BY <1>2, <1>3, <1>4, <1>5, <1>8, <1>10, <1>11 DEF Grows
  <2> QED BY ONLY <2>1, OpenGrows
<1>12. ASSUME NEW p \in Nat, NEW k \in Nat, NEW T, S \subseteq T, FullChunk(w, S, p, k)
       PROVE  FullChunk(v, T, p, k)
  BY <1>1, <1>2, <1>4, <1>12, FullChunkStays DEF o, g, vo, vg
<1>13. CASE ~ full
  <2>1. v.mOffset = off + 1 /\ v.mChunkCrc = chunk /\ Len(vo) = Len(o) + 1
    BY <1>2, <1>3, <1>13
  <2>2. ASSUME NEW p \in Nat, NEW k \in Nat, <<p, k>> \in S
        PROVE  FullChunk(v, S, p, k) \/ OpenChunk(v, p, k)
    <3>1. CASE FullChunk(w, S, p, k)  BY <1>12, <3>1
    <3>2. CASE OpenChunk(w, p, k)
      <4>1. /\ p + (off + 1) <= Len(vo) /\ k + (off + 1) = Len(vg)
            /\ p + (off + 1) = Len(vo) /\ k + (off + 1) <= Len(vg) /\ Len(chunk) = off + 1
            /\ \A j \in 1..(off + 1) : vo[p + j] = vg[k + j] /\ chunk[j] = vg[k + j]
        BY <1>3, <1>11, <2>1, <3>2
      <4> DEFINE off1 == off + 1
      <4> HIDE DEF off1
      <4>2. RunAt(v, p, k, off1)  BY <4>1 DEF RunAt, vo, vg, off1
      <4>3. /\ v.mOffset = off1 /\ k + off1 = Len(vg) /\ p + off1 = Len(vo)
            /\ Len(v.mChunkCrc) = off1
            /\ \A j \in 1..off1 : v.mChunkCrc[j] = vg[k + j]
        BY <2>1, <4>1 DEF off1
      <4> QED BY <4>2, <4>3 DEF OpenChunk, vo, vg
    <3> QED BY <1>6, <2>2, <3>1, <3>2 DEF Chunked
  <2>3. Chunked(v, S)  BY <1>2, <1>6, <2>2 DEF Chunked
  <2> QED BY <1>2, <1>9, <2>3 DEF StreamOK, v, vo
<1>14. CASE full
  <2> DEFINE q == Len(vo)
             l == Len(vg)
             T == S \cup {<<q, l>>}
  <2>1. /\ v.mOffset = 0 /\ v.mChunkCrc = none /\ q = Len(o) + 1 + WordSize /\ off + 1 = ChunkSize
    BY <1>2, <1>3, <1>14 DEF full
  <2>2. T \in Places /\ <<WordSize, 0>> \in T  BY <1>3, <1>6 DEF Places, Chunked
  <2>3. OpenChunk(v, q, l)
    <3>1. Len(none) = 0  OBVIOUS
    <3> HIDE DEF none
    <3> QED BY <1>3, <2>1, <3>1 DEF OpenChunk, RunAt, vo, vg
  <2>4. ASSUME NEW p \in Nat, NEW k \in Nat, <<p, k>> \in S
        PROVE  FullChunk(v, T, p, k)
    <3>1. CASE FullChunk(w, S, p, k)
      <4>1. S \subseteq T  OBVIOUS
      <4> HIDE DEF T
      <4> QED BY <1>12, <3>1, <4>1
    <3>2. CASE OpenChunk(w, p, k)
      <4>1. /\ p + ChunkSize <= Len(vo) /\ k + ChunkSize = l /\ k + ChunkSize <= l
            /\ p + ChunkSize = Len(o) + 1 /\ Len(chunk) = ChunkSize
            /\ \A j \in 1..ChunkSize : vo[p + j] = vg[k + j] /\ chunk[j] = vg[k + j]
        BY <1>3, <1>11, <2>1, <3>2
      <4>2. \A j \in 1..WordSize : vo[p + ChunkSize + j] = <<"crc", chunk, j>>
        BY <1>2, <1>14, <4>1
      <4>3. p + ChunkSize + WordSize = q  BY <2>1, <4>1
      <4>4. <<p + ChunkSize + WordSize, k + ChunkSize>> \in T  BY <4>1, <4>3
      <4> HIDE DEF T, l, q
      <4>5. RunAt(v, p, k, ChunkSize)  BY <4>1 DEF RunAt, vo, vg, l
      <4>6. p + ChunkSize + WordSize <= q  BY <1>3, <4>3 DEF q
      <4> QED BY <1>5, <4>1, <4>2, <4>4, <4>5, <4>6 DEF FullChunk, vo, vg, q
    <3> QED BY <1>6, <2>4, <3>1, <3>2 DEF Chunked
  <2>5. Chunked(v, T)
    <3>1. ASSUME NEW p \in Nat, NEW k \in Nat, <<p, k>> \in T
          PROVE  FullChunk(v, T, p, k) \/ OpenChunk(v, p, k)
      <4>1. <<p, k>> \in S \/ (p = q /\ k = l)  BY <3>1
      <4> HIDE DEF T
      <4> QED BY <2>3, <2>4, <4>1
    <3> HIDE DEF T
    <3> QED BY <1>2, <2>2, <3>1 DEF Chunked
  <2> QED BY <1>2, <1>9, <2>2, <2>5 DEF StreamOK, v, vo
<1> QED BY <1>13, <1>14

\* The bytes of one Write, put one after the other.
AreBytes(f, w, m, n) ==
  f = [i \in 0..n |-> IF i = 0 THEN w ELSE Arrow!Put(f[i - 1], Arrow!Datum(m + i))]

BytesOf(w, m, n) == CHOOSE f : AreBytes(f, w, m, n)

LEMMA BytesExist ==
  ASSUME NEW w, NEW m \in Nat, NEW n \in Nat
  PROVE  \E f : AreBytes(f, w, m, n)
<1> DEFINE Is(f, k) == AreBytes(f, w, m, k)
           T == {k \in Nat : ~ \E f : Is(f, k)}
<1>1. SUFFICES ASSUME T # {} PROVE FALSE
  OBVIOUS
<1>2. PICK k \in T : \A l \in T : k <= l
  <2>1. T \in SUBSET Nat  OBVIOUS
  <2> HIDE DEF T
  <2> QED BY <1>1, <2>1, Least
<1>3. k \in Nat /\ ~ \E f : Is(f, k)
  BY <1>2
<1>4. CASE k = 0
  <2> DEFINE f == [i \in 0..0 |-> w]
  <2>1. \A i \in 0..0 : i = 0  OBVIOUS
  <2>2. f = [i \in 0..0 |-> IF i = 0 THEN w ELSE Arrow!Put(f[i - 1], Arrow!Datum(m + i))]
    BY <2>1
  <2> HIDE DEF f
  <2>3. Is(f, k)  BY <1>4, <2>2 DEF AreBytes
  <2> QED BY <1>3, <2>3
<1>5. CASE k # 0
  <2>1. k - 1 \in Nat /\ ~ (k <= k - 1)  BY <1>3, <1>5
  <2>2. k - 1 \notin T  BY <1>2, <2>1
  <2>3. PICK g : Is(g, k - 1)  BY <2>1, <2>2
  <2> DEFINE f == [i \in 0..k |-> IF i = k THEN Arrow!Put(g[k - 1], Arrow!Datum(m + k)) ELSE g[i]]
  <2>4. ASSUME NEW i \in 0..k
        PROVE  f[i] = IF i = 0 THEN w ELSE Arrow!Put(f[i - 1], Arrow!Datum(m + i))
    <3>1. f[i] = IF i = k THEN Arrow!Put(g[k - 1], Arrow!Datum(m + k)) ELSE g[i]
      OBVIOUS
    <3>2. CASE i = k
      <4>1. f[i - 1] = g[k - 1]
        <5>1. k - 1 \in 0..k /\ k - 1 # k  BY <1>3, <2>1
        <5> QED BY <3>2, <5>1
      <4> QED BY <1>5, <3>1, <3>2, <4>1
    <3>3. CASE i # k
      <4>1. i \in 0..(k - 1)  BY <1>3, <3>3
      <4>2. g[i] = IF i = 0 THEN w ELSE Arrow!Put(g[i - 1], Arrow!Datum(m + i))
        BY <2>3, <4>1 DEF AreBytes
      <4>3. i # 0 => f[i - 1] = g[i - 1]
        <5>1. i # 0 => i - 1 \in 0..k /\ i - 1 # k  BY <1>3, <4>1
        <5> QED BY <5>1
      <4> QED BY <3>1, <3>3, <4>2, <4>3
    <3> QED BY <3>2, <3>3
  <2>5. f = [i \in 0..k |-> f[i]]  OBVIOUS
  <2> HIDE DEF f
  <2>6. Is(f, k)  BY <2>4, <2>5 DEF AreBytes
  <2> QED BY <1>3, <2>6
<1> QED BY <1>4, <1>5

Opened(w) == StreamOK(w) /\ w.mIsWriteChunkSize /\ ~ w.mIsGlobalCheck

LEMMA BytesOK ==
  ASSUME NEW w, StreamOK(w), w.mIsWriteChunkSize, ~ w.mIsGlobalCheck, NEW m \in Nat, NEW n \in Nat
  PROVE  StreamOK(BytesOf(w, m, n)[n])
<1> DEFINE f == BytesOf(w, m, n)
           T == {i \in Nat : i <= n /\ ~ Opened(f[i])}
<1>1. f = [i \in 0..n |-> IF i = 0 THEN w ELSE Arrow!Put(f[i - 1], Arrow!Datum(m + i))]
  <2>1. AreBytes(f, w, m, n)  BY BytesExist DEF BytesOf
  <2> QED BY <2>1 DEF AreBytes
<1> HIDE DEF f
<1>2. T = {}
  <2>1. SUFFICES ASSUME T # {} PROVE FALSE  OBVIOUS
  <2>2. PICK i \in T : \A j \in T : i <= j
    <3>1. T \in SUBSET Nat  OBVIOUS
    <3> HIDE DEF T
    <3> QED BY <2>1, <3>1, Least
  <2>3. i \in Nat /\ i <= n /\ ~ Opened(f[i])  BY <2>2
  <2>4. i \in 0..n  BY <2>3
  <2>5. f[i] = IF i = 0 THEN w ELSE Arrow!Put(f[i - 1], Arrow!Datum(m + i))
    BY <1>1, <2>4
  <2>6. i # 0  BY <2>3, <2>5 DEF Opened
  <2>7. i - 1 \in Nat /\ i - 1 <= n /\ ~ (i <= i - 1)  BY <2>3, <2>6
  <2>8. Opened(f[i - 1])  BY <2>2, <2>7
  <2>9. Arrow!Datum(m + i) \in BatchByte  BY <2>3 DEF Arrow!Datum, BatchByte
  <2>10. Opened(f[i])  BY <2>5, <2>6, <2>8, <2>9, BytePutOK DEF Opened
  <2> QED BY <2>3, <2>10
<1> HIDE DEF T
<1>3. n \notin T
  BY <1>2
<1>4. StreamOK(f[n])
  BY <1>3 DEF T, Opened
<1> QED BY <1>4 DEF f

LEMMA BatchWriteOK ==
  ASSUME StreamOK(writer), NEW n \in 0..MaxData, Arrow!Write(n)
  PROVE  StreamOK(writer')
<1>1. n \in Nat /\ Len(writer.mGlobalCrc) \in Nat
  <2>1. writer \in BatchWriter  BY DEF StreamOK
  <2> QED BY <2>1, WriterParts, BatchConstants
<1>2. writer' = BytesOf(Arrow!Sized(writer), Len(writer.mGlobalCrc), n)[n] /\ ~ writer.mIsGlobalCheck
  BY DEF Arrow!Write, BytesOf, AreBytes
<1>3. /\ StreamOK(Arrow!Sized(writer)) /\ Arrow!Sized(writer).mIsWriteChunkSize
      /\ ~ Arrow!Sized(writer).mIsGlobalCheck
  BY <1>2, SizedOK
<1> QED BY <1>1, <1>2, <1>3, BytesOK

\* The checksum of all data comes last.
LEMMA BatchFlushOK ==
  ASSUME StreamOK(writer), Arrow!Flush
  PROVE  StreamOK(writer') /\ writer'.mGlobalCrc = writer.mGlobalCrc
<1> DEFINE w == writer
           v == writer'
           o == w.out
           g == w.mGlobalCrc
           sum == Arrow!Checksum(g)
           z == o \o sum
           none == <<>>
<1>1. w \in BatchWriter
  BY DEF StreamOK
<1>2. /\ o \in Seq(StreamByte) /\ g \in Seq(BatchByte) /\ Len(o) \in Nat /\ Len(g) \in Nat
      /\ WordSize \in Nat \ {0} /\ ChunkSize \in Nat \ {0} /\ w.mIsWriteChunkSize \in BOOLEAN
      /\ w.mOffset \in Nat /\ w.mOffset < ChunkSize
  BY <1>1, WriterParts
<1>3. sum \in Seq(StreamByte) /\ Len(sum) = WordSize
  BY <1>2, StreamWords
<1>4. v = [w EXCEPT !.out = z, !.mIsGlobalCheck = TRUE] /\ ~ w.mIsGlobalCheck
      /\ Len(g) % BatchSize = 0
  BY <1>1 DEF Arrow!Flush, BatchWriter
<1> HIDE DEF o, sum
<1>5. /\ z \in Seq(StreamByte) /\ Len(z) = Len(o) + WordSize
      /\ \A i \in 1..Len(o) : z[i] = o[i]
      /\ \A i \in 1..WordSize : z[Len(o) + i] = sum[i]
  <2>1. o \in Seq(StreamByte) /\ sum \in Seq(StreamByte)  BY <1>2, <1>3
  <2>2. /\ z \in Seq(StreamByte) /\ Len(z) = Len(o) + Len(sum)
        /\ \A i \in 1..Len(o) : z[i] = o[i]
        /\ \A i \in 1..Len(sum) : z[Len(o) + i] = sum[i]
    BY ONLY <2>1, Joined
  <2> QED BY <1>3, <2>2
<1> HIDE DEF z
<1>6. /\ v.out = z /\ v.mGlobalCrc = g /\ v.mIsGlobalCheck
      /\ v.mIsWriteChunkSize = w.mIsWriteChunkSize /\ v.mOffset = w.mOffset
      /\ v.mChunkCrc = w.mChunkCrc
  BY <1>1, <1>4 DEF BatchWriter
<1>7. v \in BatchWriter
  BY <1>1, <1>4, <1>5 DEF BatchWriter
<1>8. Begins(o, z) /\ Begins(g, g)
  BY <1>2, <1>5 DEF Begins
<1> HIDE DEF v, none
<1>9. CASE ~ w.mIsWriteChunkSize
  <2>1. /\ w.mOffset = 0 /\ w.mChunkCrc = none /\ g = none /\ o = none
    BY <1>4, <1>9 DEF StreamOK, o, none
  <2>2. z = sum
    <3>1. none \o sum = sum  BY <1>3, ConcatEmptySeq DEF none
    <3> QED BY <2>1, <3>1 DEF z
  <2>3. sum = Arrow!SizeWord(0)  BY <2>1 DEF sum, Arrow!Checksum, none
  <2> QED BY <1>4, <1>6, <1>7, <1>9, <2>1, <2>2, <2>3 DEF StreamOK, v, none
<1>10. CASE w.mIsWriteChunkSize
  <2>1. PICK S \in Places : Chunked(w, S)  BY <1>10 DEF StreamOK
  <2>2. WordSize <= Len(o) /\ \A i \in 1..WordSize : o[i] = <<"size", ChunkSize, i>>
    BY <1>10 DEF StreamOK, o
  <2>3. WordSize <= Len(z) /\ \A i \in 1..WordSize : z[i] = <<"size", ChunkSize, i>>
    BY <1>2, <1>5, <1>8, <2>2, WordStays
  <2>4. ASSUME NEW p \in Nat, NEW k \in Nat, <<p, k>> \in S
        PROVE  FullChunk(v, S, p, k) \/ LastChunk(v, p, k)
    <3>1. CASE FullChunk(w, S, p, k)
      BY <1>1, <1>6, <1>7, <1>8, <3>1, FullChunkStays DEF o
    <3>2. CASE OpenChunk(w, p, k)
      <4> DEFINE m == w.mOffset
      <4>1. RunAt(w, p, k, m) /\ k + m = Len(g) /\ p + m = Len(o) /\ m \in Nat /\ m < ChunkSize
        BY <1>2, <3>2 DEF OpenChunk, o
      <4> HIDE DEF m
      <4>2. RunAt(v, p, k, m)  BY <1>1, <1>6, <1>7, <1>8, <4>1, RunStays DEF o
      <4>3. p + m + WordSize = Len(z)  BY <1>5, <4>1
      <4>4. \A j \in 1..WordSize : z[p + m + j] = sum[j]  BY <1>5, <4>1
      <4>5. m \in 0..(ChunkSize - 1)  BY <1>2, <4>1
      <4> QED BY <1>6, <4>1, <4>2, <4>3, <4>4, <4>5 DEF LastChunk, sum
    <3> QED BY <1>4, <2>1, <2>4, <3>1, <3>2 DEF Chunked
  <2>5. Chunked(v, S)  BY <1>6, <2>1, <2>4 DEF Chunked
  <2> QED BY <1>4, <1>6, <1>7, <1>10, <2>3, <2>5 DEF StreamOK, v
<1> QED BY <1>9, <1>10

BatchReader ==
  [mCrcChunkSize : Nat, mGlobalCrc : Seq(StreamByte), unread : Seq(StreamByte),
   mLastChunk : BOOLEAN]

\* A part of a sequence that follows its first p elements, perhaps damaged.
Near(x, s, p) ==
  /\ p <= Len(s) /\ Len(x) <= Len(s) - p
  /\ \A j \in 1..Len(x) : x[j] = s[p + j] \/ x[j] = Arrow!Garbage

\* After k of the data, the reader stands where a chunk starts, or at the end.
BatchStands(w, k, x) ==
  \E p \in Nat : /\ Near(x, w.out, p)
                 /\ p = Len(w.out) \/ \E S \in Places : Chunked(w, S) /\ <<p, k>> \in S

\* All of what follows, in an undamaged transfer.
BatchPlace(w, k, x) ==
  \E p \in Nat : /\ IsRest(x, w.out, p)
                 /\ \E S \in Places : Chunked(w, S) /\ <<p, k>> \in S

\* The kinds of bytes.
LEMMA Kinds ==
  /\ \A b \in BatchByte : b[1] = "data"
  /\ \A d, j : <<"crc", d, j>> \in StreamByte => d \in Seq(BatchByte)
  /\ \A d, j : <<"crc", d, j>> # Arrow!Garbage /\ <<"crc", d, j>> \notin BatchByte
  /\ \A j : <<"size", 0, j>> \notin BatchByte
  /\ \A d, e, i, j : <<"crc", d, i>> = <<"crc", e, j>> => d = e
  /\ \A d, i, j : <<"crc", d, i>> # <<"size", 0, j>>
  /\ Arrow!Garbage \notin BatchByte /\ Arrow!Garbage \in StreamByte
  /\ \A j : <<"crc", 0, j>> # Arrow!Garbage
<1>1. \A b \in BatchByte : b[1] = "data"
  BY DEF BatchByte
<1>2. ASSUME NEW d, NEW j, <<"crc", d, j>> \in StreamByte PROVE d \in Seq(BatchByte)
  <2>1. <<"crc", d, j>> \notin FilePlain  BY DEF FilePlain
  <2>2. <<"crc", d, j>> \in {"crc"} \X Seq(BatchByte) \X Nat
    BY <1>2, <2>1 DEF StreamByte
  <2> QED BY <2>2
<1>3. \A d, j : <<"crc", d, j>> # Arrow!Garbage /\ <<"crc", d, j>> \notin BatchByte
  BY DEF Arrow!Garbage, BatchByte
<1>4. \A j : <<"size", 0, j>> \notin BatchByte
  BY DEF BatchByte
<1>5. Arrow!Garbage \notin BatchByte /\ Arrow!Garbage \in StreamByte
  BY DEF Arrow!Garbage, BatchByte, StreamByte, FilePlain
<1> QED BY <1>1, <1>2, <1>3, <1>4, <1>5

\* Data that is followed by a checksum ends where its chunk ends.
EndsAt(w, S, p, k, m, d) ==
  /\ Chunked(w, S) /\ {p, k, m} \subseteq Nat /\ <<p, k>> \in S /\ p + m + WordSize <= Len(w.out)
  /\ \A j \in 1..m : w.out[p + j] \in BatchByte
  /\ w.out[p + m + 1] = <<"crc", d, 1>>

RunEnd(w, S, p, k, m, d) ==
  /\ RunAt(w, p, k, m)
  /\ \/ /\ m = ChunkSize /\ <<p + m + WordSize, k + m>> \in S
        /\ Len(d) = m /\ \A j \in 1..m : d[j] = w.mGlobalCrc[k + j]
     \/ k + m = Len(w.mGlobalCrc) /\ p + m + WordSize = Len(w.out) /\ d = w.mGlobalCrc

LEMMA RunEnds ==
  ASSUME NEW w \in BatchWriter, NEW S, NEW p, NEW k, NEW m, NEW d, EndsAt(w, S, p, k, m, d)
  PROVE  RunEnd(w, S, p, k, m, d)
<1> DEFINE o == w.out
           g == w.mGlobalCrc
           l == Len(o)
<1>0. /\ Chunked(w, S) /\ p \in Nat /\ k \in Nat /\ m \in Nat /\ <<p, k>> \in S
      /\ p + m + WordSize <= Len(w.out)
      /\ \A j \in 1..m : w.out[p + j] \in BatchByte
      /\ w.out[p + m + 1] = <<"crc", d, 1>>
  BY DEF EndsAt
<1> USE <1>0
<1>1. /\ l \in Nat /\ Len(g) \in Nat /\ g \in Seq(BatchByte)
      /\ WordSize \in Nat \ {0} /\ ChunkSize \in Nat \ {0} /\ w.mOffset \in Nat
  BY WriterParts
<1> HIDE DEF l, o, g
\* The run of data is no shorter than m, for no other byte is among the first m.
<1>2. ASSUME NEW r \in Nat, RunAt(w, p, k, r) PROVE ~ (m < r)
  <2>1. SUFFICES ASSUME m < r PROVE FALSE  OBVIOUS
  <2>2. k + r <= Len(g) /\ \A j \in 1..r : o[p + j] = g[k + j]
    BY <1>2 DEF RunAt, o, g
  <2>3. m + 1 \in 1..r /\ k + (m + 1) \in 1..Len(g) /\ p + (m + 1) = p + m + 1
    BY <1>1, <2>1, <2>2
  <2>4. g[k + (m + 1)] \in BatchByte  BY <1>1, <2>3, ElementOfSeq
  <2>5. o[p + m + 1] \in BatchByte  BY <2>2, <2>3, <2>4
  <2> QED BY <2>5, Kinds DEF o
<1>3. ASSUME NEW r \in Nat, r < m PROVE o[p + r + 1] \in BatchByte
  <2>1. r + 1 \in 1..m /\ p + (r + 1) = p + r + 1  BY <1>3
  <2>2. o[p + (r + 1)] \in BatchByte  BY <2>1 DEF o
  <2> QED BY <2>1, <2>2
<1>4. CASE FullChunk(w, S, p, k)
  <2>1. RunAt(w, p, k, ChunkSize) /\ <<p + ChunkSize + WordSize, k + ChunkSize>> \in S
    BY <1>4 DEF FullChunk
  <2>2. PICK e \in Seq(BatchByte) :
          /\ Len(e) = ChunkSize /\ \A j \in 1..ChunkSize : e[j] = g[k + j]
          /\ \A j \in 1..WordSize : o[p + ChunkSize + j] = <<"crc", e, j>>
    BY <1>4 DEF FullChunk, o, g
  <2>3. o[p + ChunkSize + 1] = <<"crc", e, 1>>
    <3>1. 1 \in 1..WordSize  BY <1>1
    <3> QED BY ONLY <2>2, <3>1
  <2>4. ~ (ChunkSize < m)
    <3>1. o[p + ChunkSize + 1] \notin BatchByte  BY <2>3, Kinds
    <3> QED BY <1>1, <1>3, <3>1
  <2>5. m = ChunkSize  BY <1>1, <1>2, <2>1, <2>4
  <2>6. e = d  BY <2>3, <2>5, Kinds DEF o
  <2> QED BY <2>1, <2>2, <2>5, <2>6 DEF g, RunEnd
<1>5. CASE LastChunk(w, p, k)
  <2>1. PICK r \in 0..(ChunkSize - 1) :
          /\ RunAt(w, p, k, r) /\ k + r = Len(g) /\ p + r + WordSize = l
          /\ \A j \in 1..WordSize : o[p + r + j] = Arrow!Checksum(g)[j]
    BY <1>5 DEF LastChunk, o, g, l
  <2>2. r \in Nat /\ ~ (r < m) /\ m = r  BY <1>1, <1>2, <2>1 DEF l, o
  <2>3. o[p + m + 1] = Arrow!Checksum(g)[1]  BY <1>1, <2>1, <2>2
  <2>4. Arrow!Checksum(g)[1] = IF g = <<>> THEN <<"size", 0, 1>> ELSE <<"crc", g, 1>>
    BY <1>1, StreamWords
  <2>5. d = g  BY <2>3, <2>4, Kinds DEF o
  <2> QED BY <2>1, <2>2, <2>5 DEF g, l, o, RunEnd
<1>6. CASE OpenChunk(w, p, k)
  <2>1. RunAt(w, p, k, w.mOffset) /\ p + w.mOffset = l
    BY <1>6 DEF OpenChunk, l, o
  <2>2. m < w.mOffset  BY <1>1, <2>1 DEF l, o
  <2> QED BY <1>1, <1>2, <2>1, <2>2
<1> QED BY <1>4, <1>5, <1>6 DEF Chunked

\* What ReadChunk takes: y and the word that follows, of all that comes.
Chunk(x, y, sum, rest, n) ==
  /\ {x, y, sum, rest} \subseteq Seq(StreamByte) /\ n \in Nat /\ WordSize <= n /\ n <= Len(x)
  /\ Len(y) = n - WordSize /\ \A j \in 1..Len(y) : y[j] = x[j]
  /\ Len(sum) = WordSize /\ \A j \in 1..WordSize : sum[j] = x[(n - WordSize) + j]
  /\ IsRest(rest, x, n)

\* What is taken with its checksum was written there.
LEMMA ChunkTaken ==
  ASSUME NEW w \in BatchWriter, NEW G \in Seq(StreamByte), Begins(G, w.mGlobalCrc),
         NEW x, NEW y, NEW sum, NEW rest, NEW n, Chunk(x, y, sum, rest, n),
         BatchStands(w, Len(G), x), NEW whole \in BOOLEAN,
         sum = Arrow!Checksum(IF whole THEN y ELSE G \o y), whole => Len(y) # 0
  PROVE  /\ Begins(G \o y, w.mGlobalCrc)
         /\ whole => BatchStands(w, Len(G \o y), rest)
<1> DEFINE o == w.out
           g == w.mGlobalCrc
           k == Len(G)
           m == Len(y)
           z == G \o y
           c == IF whole THEN y ELSE z
           none == <<>>
<1>1. /\ o \in Seq(StreamByte) /\ g \in Seq(BatchByte) /\ Len(o) \in Nat /\ Len(g) \in Nat
      /\ WordSize \in Nat \ {0} /\ ChunkSize \in Nat \ {0} /\ k \in Nat
  BY WriterParts, EmptyOrNot
<1>2. /\ x \in Seq(StreamByte) /\ y \in Seq(StreamByte) /\ n \in Nat /\ WordSize <= n
      /\ n <= Len(x) /\ m = n - WordSize /\ \A j \in 1..m : y[j] = x[j]
      /\ \A j \in 1..WordSize : sum[j] = x[(n - WordSize) + j]
      /\ IsRest(rest, x, n) /\ m \in Nat /\ Len(x) \in Nat /\ n = m + WordSize
      /\ rest \in Seq(StreamByte) /\ Len(rest) \in Nat
  <2>1. /\ x \in Seq(StreamByte) /\ y \in Seq(StreamByte) /\ n \in Nat /\ WordSize <= n
        /\ n <= Len(x) /\ m = n - WordSize /\ \A j \in 1..m : y[j] = x[j]
        /\ \A j \in 1..WordSize : sum[j] = x[(n - WordSize) + j]
        /\ IsRest(rest, x, n) /\ rest \in Seq(StreamByte)
    BY DEF Chunk
  <2>2. m \in Nat /\ Len(x) \in Nat /\ Len(rest) \in Nat  BY <2>1, EmptyOrNot
  <2> QED BY <1>1, <2>1, <2>2
<1>3. PICK p \in Nat : /\ Near(x, o, p)
                       /\ p = Len(o) \/ \E S \in Places : Chunked(w, S) /\ <<p, k>> \in S
  BY DEF BatchStands
<1>4. /\ z \in Seq(StreamByte) /\ Len(z) = k + m
      /\ \A i \in 1..k : z[i] = G[i]
      /\ \A i \in 1..m : z[k + i] = y[i]
  <2>1. y \in Seq(StreamByte)  BY <1>2
  <2> QED BY <2>1, Joined
<1> HIDE DEF o, g, k, m, z
<1>5. /\ p <= Len(o) /\ Len(x) <= Len(o) - p
      /\ \A j \in 1..Len(x) : x[j] = o[p + j] \/ x[j] = Arrow!Garbage
  BY <1>3 DEF Near
<1>6. PICK S \in Places : Chunked(w, S) /\ <<p, k>> \in S
  <2>1. p # Len(o)  BY <1>1, <1>2, <1>5
  <2> QED BY <1>3, <2>1
<1>7. c \in Seq(StreamByte)
  BY <1>2, <1>4
<1>8. CASE c = none
  <2>1. Len(c) = 0  BY <1>8
  <2>2. ~ whole  BY <2>1 DEF m
  <2>3. Len(z) = 0  BY <2>1, <2>2
  <2>4. Begins(z, g)  BY <1>1, <2>3 DEF Begins
  <2> QED BY <2>2, <2>4 DEF z, g
<1>9. CASE c # none
  <2>1. sum[1] = <<"crc", c, 1>>
    <3>1. sum = [i \in 1..WordSize |-> <<"crc", c, i>>]
      BY <1>9 DEF Arrow!Checksum, z
    <3> QED BY <1>1, <3>1
  <2>2. /\ x[m + 1] = <<"crc", c, 1>> /\ m + 1 \in 1..Len(x) /\ p + (m + 1) = p + m + 1
        /\ p + m + 1 \in 1..Len(o)
    <3>1. sum[1] = x[(n - WordSize) + 1] /\ (n - WordSize) + 1 = m + 1
      BY <1>1, <1>2
    <3> QED BY <1>1, <1>2, <1>5, <2>1, <3>1
  <2>3. o[p + m + 1] = <<"crc", c, 1>>  BY <1>5, <2>2, Kinds
  <2>4. c \in Seq(BatchByte)
    <3>1. o[p + m + 1] \in StreamByte  BY <1>1, <2>2, ElementOfSeq
    <3> QED BY <2>3, <3>1, Kinds
  <2>5. ASSUME NEW j \in 1..m PROVE y[j] \in BatchByte /\ o[p + j] = y[j]
    <3>1. y[j] \in BatchByte
      <4>1. CASE whole
        <5>1. y \in Seq(BatchByte) /\ j \in 1..Len(y)  BY <2>4, <4>1 DEF m
        <5> QED BY <5>1, ElementOfSeq
      <4>2. CASE ~ whole
        <5>1. z \in Seq(BatchByte) /\ k + j \in 1..Len(z)
          BY <1>1, <1>2, <1>4, <2>4, <4>2
        <5>2. z[k + j] \in BatchByte  BY <5>1, ElementOfSeq
        <5> QED BY <1>4, <5>2
      <4> QED BY <4>1, <4>2
    <3>2. j \in 1..Len(x) /\ x[j] = y[j]  BY <1>1, <1>2
    <3> QED BY <1>5, <3>1, <3>2, Kinds
  <2>6. p + m + WordSize <= Len(o)  BY <1>1, <1>2, <1>5
  <2>7. /\ RunAt(w, p, k, m)
        /\ \/ m = ChunkSize /\ <<p + m + WordSize, k + m>> \in S
           \/ k + m = Len(g) /\ p + m + WordSize = Len(o)
    <3>1. \A j \in 1..m : o[p + j] \in BatchByte  BY <2>5
    <3> HIDE DEF c
    <3>2. EndsAt(w, S, p, k, m, c)
      BY <1>1, <1>2, <1>6, <2>3, <2>6, <3>1 DEF EndsAt, o
    <3> QED
      <4>1. RunEnd(w, S, p, k, m, c)  BY ONLY <3>2, w \in BatchWriter, RunEnds
      <4> QED BY ONLY <4>1 DEF RunEnd, o, g
  <2>8. Begins(z, g)
    <3>1. k + m <= Len(g) /\ \A j \in 1..m : o[p + j] = g[k + j]
      BY <2>7 DEF RunAt, o, g
    <3>2. k <= Len(g) /\ \A i \in 1..k : G[i] = g[i]  BY DEF Begins, k, g
    <3>3. ASSUME NEW i \in 1..(k + m) PROVE z[i] = g[i]
      <4>1. CASE i <= k
        <5>1. i \in 1..k  BY <1>1, <4>1
        <5> QED BY <1>4, <3>2, <5>1
      <4>2. CASE ~ (i <= k)
        <5> DEFINE j == i - k
        <5>1. j \in 1..m /\ i = k + j  BY <1>1, <1>2, <4>2
        <5> HIDE DEF j
        <5> QED BY <1>4, <2>5, <3>1, <5>1
      <4> QED BY <4>1, <4>2
    <3> QED BY <1>4, <3>1, <3>3 DEF Begins
  <2>9. BatchStands(w, Len(z), rest)
    <3> DEFINE q == p + m + WordSize
    <3>1. q \in Nat /\ q <= Len(o) /\ q = p + n  BY <1>1, <1>2, <2>6
    <3> HIDE DEF q
    <3>2. Len(rest) = Len(x) - n /\ \A j \in 1..Len(rest) : rest[j] = x[n + j]
      BY <1>2 DEF IsRest
    <3>3. Len(rest) <= Len(o) - q  BY <1>1, <1>2, <1>5, <3>1, <3>2
    <3>4. ASSUME NEW j \in 1..Len(rest) PROVE rest[j] = o[q + j] \/ rest[j] = Arrow!Garbage
      <4>1. n + j \in 1..Len(x) /\ p + (n + j) = q + j  BY <1>1, <1>2, <3>1, <3>2
      <4> QED BY <1>5, <3>2, <4>1
    <3>5. Near(rest, o, q)  BY <3>1, <3>3, <3>4 DEF Near
    <3>6. q = Len(o) \/ <<q, Len(z)>> \in S  BY <1>4, <2>7 DEF q
    <3> QED BY <1>6, <3>1, <3>5, <3>6 DEF BatchStands, o
  <2> QED BY <2>8, <2>9 DEF z, g
<1> QED BY <1>8, <1>9

\* An undamaged transfer goes on with a checksum at least.
LEMMA BatchComes ==
  ASSUME NEW w \in BatchWriter, w.mIsGlobalCheck, NEW x \in Seq(StreamByte), NEW k \in Nat,
         BatchPlace(w, k, x)
  PROVE  WordSize <= Len(x)
<1> DEFINE l == Len(w.out)
<1>1. l \in Nat /\ WordSize \in Nat /\ ChunkSize \in Nat /\ Len(x) \in Nat
  BY WriterParts, EmptyOrNot
<1>2. PICK p \in Nat : IsRest(x, w.out, p) /\ \E S \in Places : Chunked(w, S) /\ <<p, k>> \in S
  BY DEF BatchPlace
<1>3. PICK S \in Places : Chunked(w, S) /\ <<p, k>> \in S
  BY <1>2
<1>4. Len(x) = l - p /\ p <= l
  BY <1>2 DEF IsRest
<1>5. FullChunk(w, S, p, k) \/ LastChunk(w, p, k)
  BY <1>3 DEF Chunked
<1> HIDE DEF l
<1>6. CASE FullChunk(w, S, p, k)
  <2>1. p + ChunkSize + WordSize <= l  BY <1>6 DEF FullChunk, l
  <2> QED BY <1>1, <1>4, <2>1
<1>7. CASE LastChunk(w, p, k)
  <2>1. PICK m \in 0..(ChunkSize - 1) : p + m + WordSize = l
    BY <1>7 DEF LastChunk, l
  <2> QED BY <1>1, <1>4, <2>1
<1> QED BY <1>5, <1>6, <1>7

\* ReadChunk finds the checksum it expects.
Comes(w, G, x, y, sum, rest, n) ==
  /\ w \in BatchWriter /\ w.mIsGlobalCheck /\ G \in Seq(StreamByte) /\ Begins(G, w.mGlobalCrc)
  /\ Chunk(x, y, sum, rest, n)
  /\ n = IF Len(x) < ChunkSize + WordSize THEN Len(x) ELSE ChunkSize + WordSize
  /\ BatchPlace(w, Len(G), x)

LEMMA ChunkComes ==
  ASSUME NEW w, NEW G, NEW x, NEW y, NEW sum, NEW rest, NEW n,
         Comes(w, G, x, y, sum, rest, n)
  PROVE  IF n < ChunkSize + WordSize
         THEN sum = Arrow!Checksum(G \o y) /\ Len(G \o y) = Len(w.mGlobalCrc)
         ELSE sum = Arrow!Checksum(y) /\ BatchPlace(w, Len(G \o y), rest)
<1> DEFINE o == w.out
           g == w.mGlobalCrc
           k == Len(G)
           z == G \o y
           l == Len(x)
<1>0. /\ w \in BatchWriter /\ w.mIsGlobalCheck /\ G \in Seq(StreamByte)
      /\ Begins(G, w.mGlobalCrc) /\ Chunk(x, y, sum, rest, n) /\ BatchPlace(w, k, x)
      /\ n = IF l < ChunkSize + WordSize THEN l ELSE ChunkSize + WordSize
  BY DEF Comes
<1>1. /\ o \in Seq(StreamByte) /\ g \in Seq(BatchByte) /\ Len(o) \in Nat /\ Len(g) \in Nat
      /\ WordSize \in Nat \ {0} /\ ChunkSize \in Nat \ {0} /\ k \in Nat /\ g \in Seq(StreamByte)
  BY <1>0, WriterParts, EmptyOrNot, BatchBytes
<1>2. /\ x \in Seq(StreamByte) /\ y \in Seq(StreamByte) /\ n \in Nat /\ WordSize <= n
      /\ n <= l /\ Len(y) = n - WordSize /\ (\A j \in 1..Len(y) : y[j] = x[j])
      /\ sum \in Seq(StreamByte) /\ Len(sum) = WordSize
      /\ \A j \in 1..WordSize : sum[j] = x[(n - WordSize) + j]
      /\ IsRest(rest, x, n) /\ l \in Nat /\ rest \in Seq(StreamByte) /\ Len(rest) \in Nat
  <2>1. /\ x \in Seq(StreamByte) /\ rest \in Seq(StreamByte)  BY <1>0 DEF Chunk
  <2> QED BY <1>0, <2>1, EmptyOrNot DEF Chunk
<1>3. PICK p \in Nat : IsRest(x, o, p) /\ \E S \in Places : Chunked(w, S) /\ <<p, k>> \in S
  BY <1>0 DEF BatchPlace
<1>4. PICK S \in Places : Chunked(w, S) /\ <<p, k>> \in S
  BY <1>3
<1>5. p <= Len(o) /\ l = Len(o) - p /\ \A j \in 1..l : x[j] = o[p + j]
  BY <1>3 DEF IsRest
<1>6. /\ z \in Seq(StreamByte) /\ Len(z) = k + Len(y)
      /\ \A i \in 1..k : z[i] = G[i]
      /\ \A i \in 1..Len(y) : z[k + i] = y[i]
  <2>1. y \in Seq(StreamByte) /\ G \in Seq(StreamByte)  BY <1>0, <1>2
  <2> QED BY <2>1, Joined
<1>7. n = IF l < ChunkSize + WordSize THEN l ELSE ChunkSize + WordSize
  BY <1>0
<1> HIDE DEF o, g, k, z, l
<1>12. /\ n \in Nat /\ l \in Nat /\ p \in Nat /\ WordSize \in Nat \ {0} /\ ChunkSize \in Nat \ {0}
       /\ WordSize <= n /\ n <= l /\ Len(o) \in Nat /\ l = Len(o) - p /\ p <= Len(o)
       /\ Len(y) = n - WordSize
  BY <1>1, <1>2, <1>5
<1>8. ASSUME FullChunk(w, S, p, k)
      PROVE  n = ChunkSize + WordSize /\ sum = Arrow!Checksum(y) /\ BatchPlace(w, Len(z), rest)
  <2>1. /\ p + ChunkSize + WordSize <= Len(o) /\ <<p + ChunkSize + WordSize, k + ChunkSize>> \in S
        /\ \A j \in 1..ChunkSize : o[p + j] = g[k + j]
    BY <1>8 DEF FullChunk, RunAt, o, g
  <2>2. PICK d \in Seq(BatchByte) :
          /\ Len(d) = ChunkSize /\ \A j \in 1..ChunkSize : d[j] = g[k + j]
          /\ \A j \in 1..WordSize : o[p + ChunkSize + j] = <<"crc", d, j>>
    BY <1>8 DEF FullChunk, o, g
  <2>3. n = ChunkSize + WordSize /\ Len(y) = ChunkSize
    BY <1>1, <1>2, <1>5, <1>7, <2>1
  <2>4. y = d
    <3>1. \A j \in 1..ChunkSize : y[j] = d[j]
      <4>1. ASSUME NEW j \in 1..ChunkSize PROVE y[j] = d[j]
        <5>1. j \in 1..l /\ j \in 1..Len(y)  BY <1>1, <1>2, <2>3
        <5> QED BY <1>2, <1>5, <2>1, <2>2, <5>1
      <4> QED BY <4>1
    <3>2. d \in Seq(StreamByte)  BY BatchBytes
    <3> QED BY <1>2, <2>2, <2>3, <3>1, <3>2, SeqEqual
  <2>5. sum = Arrow!Checksum(d)
    <3>1. d # <<>>  BY <1>1, <2>2
    <3>2. /\ Arrow!Checksum(d) \in Seq(StreamByte) /\ Len(Arrow!Checksum(d)) = WordSize
          /\ \A i \in 1..WordSize : Arrow!Checksum(d)[i] = <<"crc", d, i>>
      BY <3>1, StreamWords
    <3>3. ASSUME NEW j \in 1..WordSize PROVE sum[j] = <<"crc", d, j>>
      <4>1. n - WordSize = ChunkSize /\ ChunkSize + j \in 1..l
            /\ p + (ChunkSize + j) = p + ChunkSize + j
        BY <1>1, <1>2, <2>3
      <4>2. sum[j] = x[ChunkSize + j] /\ x[ChunkSize + j] = o[p + (ChunkSize + j)]
        BY <1>2, <1>5, <4>1
      <4> QED BY <2>2, <4>1, <4>2
    <3> DEFINE cs == Arrow!Checksum(d)
    <3> HIDE DEF cs
    <3>4. cs \in Seq(StreamByte) /\ Len(cs) = WordSize /\ \A i \in 1..WordSize : sum[i] = cs[i]
      BY <3>2, <3>3 DEF cs
    <3>5. sum = cs  BY <1>2, <3>4, SeqEqual
    <3> QED BY <3>5 DEF cs
  <2>6. BatchPlace(w, Len(z), rest)
    <3> DEFINE q == p + ChunkSize + WordSize
    <3>1. q \in Nat /\ q <= Len(o) /\ q = p + n /\ Len(z) = k + ChunkSize
      BY <1>1, <1>6, <2>1, <2>3
    <3>2. <<q, Len(z)>> \in S  BY <2>1, <3>1
    <3> HIDE DEF q
    <3>3. Len(rest) = l - n /\ \A j \in 1..Len(rest) : rest[j] = x[n + j]
      BY <1>2 DEF IsRest, l
    <3>4. ASSUME NEW j \in 1..Len(rest) PROVE rest[j] = o[q + j]
      <4>1. n + j \in 1..l /\ p + (n + j) = q + j
        <5>1. Len(rest) = l - n /\ j \in 1..Len(rest)  BY <3>3
        <5> QED BY ONLY <1>12, <3>1, <5>1
      <4> QED BY <1>5, <3>3, <4>1
    <3>5. IsRest(rest, o, q)
      <4>1. Len(rest) = Len(o) - q
        <5>1. Len(rest) = l - n  BY <3>3
        <5> QED BY ONLY <1>12, <3>1, <5>1
      <4>2. \A j \in 1..Len(rest) : rest[j] = o[q + j]  BY <3>4
      <4> QED BY ONLY <3>1, <4>1, <4>2 DEF IsRest
    <3> QED BY <1>4, <3>1, <3>2, <3>5 DEF BatchPlace, o
  <2> QED BY <2>3, <2>4, <2>5, <2>6
<1>9. ASSUME LastChunk(w, p, k)
      PROVE  n < ChunkSize + WordSize /\ sum = Arrow!Checksum(z) /\ Len(z) = Len(g)
  <2>1. PICK m \in 0..(ChunkSize - 1) :
          /\ RunAt(w, p, k, m) /\ k + m = Len(g) /\ p + m + WordSize = Len(o)
          /\ \A j \in 1..WordSize : o[p + m + j] = Arrow!Checksum(g)[j]
    BY <1>9 DEF LastChunk, o, g
  <2>2. \A j \in 1..m : o[p + j] = g[k + j]  BY <2>1 DEF RunAt, o, g
  <2>3. n = m + WordSize /\ n < ChunkSize + WordSize /\ Len(y) = m /\ n - WordSize = m /\ m \in Nat
    <3>1. p + m + WordSize = Len(o) /\ m \in 0..(ChunkSize - 1)  BY <2>1
    <3> QED BY ONLY <1>7, <1>12, <3>1
  <2>4. Len(z) = Len(g)  BY <1>6, <2>1, <2>3
  <2>5. ASSUME NEW i \in 1..Len(g) PROVE z[i] = g[i]
    <3>1. CASE i <= k
      <4>1. i \in 1..k  BY <1>1, <3>1
      <4>2. G[i] = g[i]  BY <1>0, <4>1 DEF Begins, k, g
      <4> QED BY <1>6, <4>1, <4>2
    <3>2. CASE ~ (i <= k)
      <4> DEFINE j == i - k
      <4>1. j \in 1..m /\ i = k + j /\ j \in 1..l /\ j \in 1..Len(y)
        BY <1>1, <1>2, <2>1, <2>3, <3>2
      <4> HIDE DEF j
      <4> QED BY <1>2, <1>5, <1>6, <2>2, <4>1
    <3> QED BY <3>1, <3>2
  <2>6. z = g  BY <1>1, <1>6, <2>4, <2>5, SeqEqual
  <2>7. sum = Arrow!Checksum(g)
    <3> DEFINE cs == Arrow!Checksum(g)
    <3>1. cs \in Seq(StreamByte) /\ Len(cs) = WordSize  BY <1>1, StreamWords
    <3>2. \A j \in 1..WordSize : o[p + m + j] = cs[j]  BY <2>1
    <3> HIDE DEF cs
    <3>3. ASSUME NEW j \in 1..WordSize PROVE sum[j] = cs[j]
      <4>1. m + j \in 1..l /\ p + (m + j) = p + m + j
        <5>1. p + m + WordSize = Len(o) /\ j \in 1..WordSize  BY <2>1
        <5> QED BY ONLY <1>12, <2>3, <5>1
      <4>2. sum[j] = x[m + j] /\ x[m + j] = o[p + (m + j)]
        BY <1>2, <1>5, <2>3, <4>1
      <4> QED BY <3>2, <4>1, <4>2
    <3>4. sum = cs  BY <1>2, <3>1, <3>3, SeqEqual
    <3> QED BY <3>4 DEF cs
  <2> QED BY <2>3, <2>4, <2>6, <2>7
<1>10. FullChunk(w, S, p, k) \/ LastChunk(w, p, k)
  <2>1. Chunked(w, S) /\ <<p, k>> \in S /\ p \in Nat /\ k \in Nat /\ w.mIsGlobalCheck
    BY <1>0, <1>1, <1>4
  <2> QED BY ONLY <2>1 DEF Chunked
<1>11. ~ (ChunkSize + WordSize < ChunkSize + WordSize)
  BY <1>1
<1> QED BY <1>8, <1>9, <1>10, <1>11 DEF z, g

\* The data and the checksum among n bytes that come.
LEMMA ChunkOf ==
  ASSUME wire \in Seq(StreamByte), NEW n \in Nat, n <= Len(wire), WordSize <= n
  PROVE  Chunk(wire, Arrow!Upto(wire, n - WordSize),
               Arrow!After(Arrow!Upto(wire, n), n - WordSize), Arrow!After(wire, n), n)
<1> DEFINE l == Len(wire)
           k == n - WordSize
           piece == SubSeq(wire, 1, n)
           data == SubSeq(wire, 1, k)
           sum == SubSeq(piece, k + 1, Len(piece))
           rest == SubSeq(wire, n + 1, l)
<1>1. l \in Nat /\ WordSize \in Nat /\ k \in Nat /\ k <= l /\ k <= n /\ n - k = WordSize
  BY EmptyOrNot, BatchConstants
<1> HIDE DEF k
<1>2. /\ piece \in Seq(StreamByte) /\ Len(piece) = n /\ \A i \in 1..n : piece[i] = wire[i]
      /\ rest \in Seq(StreamByte) /\ Len(rest) = l - n
      /\ \A i \in 1..(l - n) : rest[i] = wire[n + i]
  BY Cut
<1>3. /\ data \in Seq(StreamByte) /\ Len(data) = k /\ \A i \in 1..k : data[i] = wire[i]
  BY <1>1, Cut
<1> HIDE DEF piece
<1>4. /\ sum \in Seq(StreamByte) /\ Len(sum) = n - k
      /\ \A i \in 1..(n - k) : sum[i] = piece[k + i]
  <2>1. k \in Nat /\ k <= Len(piece)  BY <1>1, <1>2
  <2>2. /\ sum \in Seq(StreamByte) /\ Len(sum) = Len(piece) - k
        /\ \A i \in 1..(Len(piece) - k) : sum[i] = piece[k + i]
    BY <1>2, <2>1, Cut
  <2> QED BY <1>2, <2>2
<1> HIDE DEF data, sum, rest
<1>5. ASSUME NEW j \in 1..WordSize PROVE sum[j] = wire[k + j]
  <2>1. k + j \in 1..n /\ j \in 1..(n - k)  BY <1>1
  <2> QED BY <1>2, <1>4, <2>1
<1>6. IsRest(rest, wire, n)
  <2>1. n <= l /\ l = Len(wire)  BY DEF l
  <2> HIDE DEF l
  <2> QED BY <1>2, <2>1 DEF IsRest
<1>7. Chunk(wire, data, sum, rest, n)
  BY <1>1, <1>2, <1>3, <1>4, <1>5, <1>6 DEF Chunk, k
<1> QED BY <1>7 DEF Arrow!Upto, Arrow!After, data, sum, rest, piece, k

-----------------------------------------------------------------------------
(* The reader of record batches.                                            *)

Batches(n) == \E q \in Nat : n = q * BatchSize

\* The caller reads on, or may.
Moving(res) == res \in {"none", "batch", "reading"}

\* Nothing was read.
Unsized(w, x, r, seen, dam) ==
  /\ r.unread = <<>> /\ r.mGlobalCrc = <<>> /\ ~ r.mLastChunk /\ Len(seen) = 0
  /\ Near(x, w.out, 0) /\ (~ dam => x = w.out)

\* What is in batches or buffered was checked; what follows starts at a chunk.
InChunks(w, x, r, seen, dam) ==
  /\ seen \o r.unread = r.mGlobalCrc /\ Begins(r.mGlobalCrc, w.mGlobalCrc)
  /\ ~ r.mLastChunk => BatchStands(w, Len(r.mGlobalCrc), x)
  /\ ~ dam => /\ r.mCrcChunkSize = ChunkSize
              /\ IF r.mLastChunk THEN Len(r.mGlobalCrc) = Len(w.mGlobalCrc)
                 ELSE BatchPlace(w, Len(r.mGlobalCrc), x)

GoesOn(w, x, r, seen, dam) ==
  IF r.mCrcChunkSize = 0 THEN Unsized(w, x, r, seen, dam) ELSE InChunks(w, x, r, seen, dam)

BatchReads(w, x, r, g, b, res, dam) ==
  /\ Begins(g \o b, w.mGlobalCrc)
  /\ Moving(res) => GoesOn(w, x, r, g \o b, dam)
  /\ ~ dam => /\ w.mIsGlobalCheck
              /\ res = "end" => Len(g) = Len(w.mGlobalCrc)
              /\ res = "exception" => r.mCrcChunkSize = 0

StreamTypeOK ==
  /\ wire \in Seq(StreamByte) /\ phase \in {"writing", "reading"} /\ damaged \in BOOLEAN
  /\ reader \in BatchReader /\ missing \in Nat
  /\ batch \in Seq(StreamByte) /\ got \in Seq(StreamByte)
  /\ result \in {"none", "batch", "reading", "end", "exception"}

\* Before the transfer arrives.
Fresh ==
  /\ reader.mCrcChunkSize = 0 /\ reader.unread = <<>> /\ reader.mGlobalCrc = <<>>
  /\ ~ reader.mLastChunk /\ got = <<>> /\ batch = <<>> /\ result = "none"

\* Whole batches, and the one that is being read.
InBatch ==
  /\ Batches(Len(got))
  /\ IF result = "reading" THEN missing # 0 /\ Len(batch) + missing = BatchSize
     ELSE batch = <<>>

StreamInv ==
  /\ StreamTypeOK /\ StreamOK(writer) /\ InBatch
  /\ phase = "writing" => Fresh
  /\ phase = "reading" => BatchReads(writer, wire, reader, got, batch, result, damaged)

\* What goes on was checked.
LEMMA GoesOnBegins ==
  ASSUME NEW w \in BatchWriter, NEW x, NEW r \in BatchReader, NEW seen \in Seq(StreamByte), NEW dam,
         GoesOn(w, x, r, seen, dam)
  PROVE  Begins(seen, w.mGlobalCrc)
<1> DEFINE g == w.mGlobalCrc
           u == r.unread
           c == r.mGlobalCrc
<1>1. Len(seen) \in Nat /\ Len(g) \in Nat /\ u \in Seq(StreamByte)
  BY WriterParts, EmptyOrNot DEF BatchReader
<1> HIDE DEF g, u, c
<1>2. CASE r.mCrcChunkSize = 0
  <2>1. Len(seen) = 0  BY <1>2 DEF GoesOn, Unsized
  <2> QED BY <1>1, <2>1 DEF Begins, g
<1>3. CASE r.mCrcChunkSize # 0
  <2>1. seen \o u = c /\ Begins(c, g)  BY <1>3 DEF GoesOn, InChunks, u, c, g
  <2>2. /\ Len(seen \o u) = Len(seen) + Len(u) /\ Len(u) \in Nat
        /\ \A i \in 1..Len(seen) : (seen \o u)[i] = seen[i]
    BY <1>1, Joined, EmptyOrNot
  <2>3. /\ Len(c) = Len(seen) + Len(u) /\ \A i \in 1..Len(seen) : c[i] = seen[i]
        /\ Len(c) <= Len(g) /\ \A i \in 1..Len(c) : c[i] = g[i]
    BY <2>1, <2>2 DEF Begins
  <2>4. Len(seen) <= Len(g) /\ \A i \in 1..Len(seen) : seen[i] = g[i]
    BY ONLY <1>1, <2>2, <2>3
  <2> QED BY <2>4 DEF Begins, g
<1> QED BY <1>2, <1>3

\* The reader goes on with the batch it is at.
LEMMA ReaderGoesOn ==
  ASSUME StreamInv, phase = "reading", result = "reading",
         UNCHANGED <<writer, phase, damaged, missing, batch, got, result>>,
         wire' \in Seq(StreamByte), reader' \in BatchReader,
         GoesOn(writer, wire', reader', got \o batch, damaged)
  PROVE  StreamInv'
<1>1. /\ StreamTypeOK /\ StreamOK(writer) /\ InBatch
      /\ BatchReads(writer, wire, reader, got, batch, result, damaged)
  BY DEF StreamInv
<1>2. StreamTypeOK'
  BY <1>1 DEF StreamTypeOK
<1>3. InBatch'
  BY <1>1 DEF InBatch
<1>4. BatchReads(writer, wire', reader', got, batch, result, damaged)
  BY <1>1 DEF BatchReads
<1>5. (phase = "writing" => Fresh)'
  OBVIOUS
<1>6. (StreamOK(writer))'
  BY <1>1
<1>7. (phase = "reading" => BatchReads(writer, wire, reader, got, batch, result, damaged))'
  BY <1>4
<1> QED BY ONLY <1>2, <1>3, <1>5, <1>6, <1>7 DEF StreamInv

\* Read of the record reader ends without the batch it was at.
LEMMA ReaderFails ==
  ASSUME StreamInv, phase = "reading", result = "reading",
         UNCHANGED <<writer, phase, damaged>>, wire' \in Seq(StreamByte),
         NEW r \in BatchReader, Arrow!Fails(r),
         ~ damaged => IF Arrow!IsEOF(r) THEN Len(got) = Len(writer.mGlobalCrc)
                      ELSE r.mCrcChunkSize = 0
  PROVE  StreamInv'
<1> DEFINE w == writer
           none == <<>>
<1>1. /\ StreamTypeOK /\ StreamOK(w) /\ InBatch
      /\ BatchReads(w, wire, reader, got, batch, result, damaged)
  BY DEF StreamInv
<1>2. /\ got \in Seq(StreamByte) /\ batch \in Seq(StreamByte) /\ w \in BatchWriter
      /\ none \in Seq(StreamByte) /\ Len(w.mGlobalCrc) \in Nat
  <2>1. got \in Seq(StreamByte) /\ batch \in Seq(StreamByte) /\ w \in BatchWriter
    BY <1>1 DEF StreamTypeOK, StreamOK
  <2> QED BY <2>1, WriterParts
<1>3. /\ reader' = r /\ missing' = 0 /\ batch' = none /\ got' = got
      /\ result' = (IF Arrow!IsEOF(r) THEN "end" ELSE "exception")
  BY DEF Arrow!Fails
<1>4. got \o none = got
  BY <1>2, ConcatEmptySeq
<1> HIDE DEF w
<1>5. Begins(got, w.mGlobalCrc)
  BY <1>1, <1>2, EarlierBegins DEF BatchReads
<1>6. StreamTypeOK'
  <2> HIDE DEF none
  <2>1. result' \in {"none", "batch", "reading", "end", "exception"}  BY <1>3
  <2> QED BY <1>1, <1>2, <1>3, <2>1 DEF StreamTypeOK
<1>7. result' # "reading" /\ ~ Moving(result')
  BY <1>3 DEF Moving
<1>8. InBatch'
  BY <1>1, <1>3, <1>7 DEF InBatch
<1>9. BatchReads(w, wire', r, got, none, result', damaged)
  <2>1. Begins(got \o none, w.mGlobalCrc)  BY <1>4, <1>5
  <2>2. /\ ~ damaged => w.mIsGlobalCheck
        /\ ~ damaged /\ result' = "end" => Len(got) = Len(w.mGlobalCrc)
        /\ ~ damaged /\ result' = "exception" => r.mCrcChunkSize = 0
    BY <1>1, <1>3 DEF BatchReads, w
  <2> HIDE DEF none
  <2> QED BY ONLY <1>7, <2>1, <2>2 DEF BatchReads
<1>10. (phase = "writing" => Fresh)'
  OBVIOUS
<1>11. (StreamOK(writer))'
  BY <1>1 DEF w
<1>12. (phase = "reading" => BatchReads(writer, wire, reader, got, batch, result, damaged))'
  <2> HIDE DEF none
  <2> QED BY <1>3, <1>9 DEF w
<1> QED BY ONLY <1>6, <1>8, <1>10, <1>11, <1>12 DEF StreamInv

\* Everything was read, and the last batch is whole.
LEMMA BatchEndOK ==
  ASSUME StreamInv, Arrow!AtEnd
  PROVE  StreamInv'
<1> DEFINE w == writer
           g == w.mGlobalCrc
           s == got \o batch
           u == reader.unread
<1>1. /\ phase = "reading" /\ result = "reading" /\ UNCHANGED <<writer, phase, damaged, wire>>
      /\ Arrow!IsEOF(reader) /\ Arrow!Fails(reader) /\ reader.mLastChunk /\ u = <<>>
  BY DEF Arrow!AtEnd, Arrow!Reading, Arrow!transferVars, Arrow!IsEOF
<1>2. /\ StreamTypeOK /\ StreamOK(w) /\ InBatch /\ GoesOn(w, wire, reader, s, damaged)
      /\ ~ damaged => w.mIsGlobalCheck
  BY <1>1 DEF StreamInv, BatchReads, Moving
<1>3. /\ got \in Seq(StreamByte) /\ batch \in Seq(StreamByte) /\ reader \in BatchReader
      /\ wire \in Seq(StreamByte) /\ Len(got) \in Nat /\ Len(batch) \in Nat /\ missing \in Nat
      /\ BatchSize \in Nat \ {0}
  <2>1. got \in Seq(StreamByte) /\ batch \in Seq(StreamByte) /\ reader \in BatchReader
        /\ wire \in Seq(StreamByte) /\ missing \in Nat
    BY <1>2 DEF StreamTypeOK
  <2> QED BY <2>1, EmptyOrNot, BatchConstants
<1>4. Len(s) = Len(got) + Len(batch) /\ s \in Seq(StreamByte)
  <2>1. got \in Seq(StreamByte) /\ batch \in Seq(StreamByte)  BY <1>3
  <2> QED BY ONLY <2>1, Joined
<1> HIDE DEF g, s, u
<1>5. ASSUME ~ damaged PROVE Len(got) = Len(g)
  <2>1. InChunks(w, wire, reader, s, damaged)  BY <1>1, <1>2 DEF GoesOn, Unsized
  <2>2. Len(reader.mGlobalCrc) = Len(g) /\ s \o u = reader.mGlobalCrc
    BY <1>1, <1>5, <2>1 DEF InChunks, u, g
  <2>3. s \o u = s  BY <1>1, <1>4, ConcatEmptySeq
  <2>4. Len(g) = Len(got) + Len(batch)  BY <1>4, <2>2, <2>3
  <2>5. PICK q \in Nat : Len(got) = q * BatchSize  BY <1>2 DEF InBatch, Batches
  <2>6. Len(g) % BatchSize = 0  BY <1>2, <1>5 DEF StreamOK, g
  <2>7. Len(batch) < BatchSize
    <3>1. Len(batch) + missing = BatchSize /\ missing # 0
      BY <1>1, <1>2 DEF InBatch
    <3> QED BY <1>3, <3>1
  <2> DEFINE m == Len(batch)
             l == Len(g)
             d == l \div BatchSize
  <2>8. l = BatchSize * d /\ d \in Int
    <3>1. l \in Nat  BY <1>3, <2>4
    <3> HIDE DEF l
    <3> QED BY <1>3, <2>6, <3>1 DEF l
  <2>9. m \in Nat /\ m < BatchSize /\ l = q * BatchSize + m /\ l = Len(g) /\ Len(g) = Len(got) + m
    BY <1>3, <2>4, <2>5, <2>7
  <2> HIDE DEF m, l, d
  <2>10. BatchSize * (d - q) = m  BY ONLY <1>3, <2>8, <2>9, q \in Nat
  <2>11. CASE d - q >= 1
    <3>1. BatchSize * (d - q) >= BatchSize  BY ONLY <1>3, <2>8, <2>11, q \in Nat
    <3> QED BY ONLY <1>3, <2>9, <2>10, <3>1, q \in Nat, <2>8
  <2>12. CASE d - q <= 0
    <3>1. BatchSize * (d - q) <= 0  BY ONLY <1>3, <2>8, <2>12, q \in Nat
    <3>2. m <= 0  BY ONLY <2>10, <3>1
    <3>3. m \in Nat  BY <2>9
    <3>4. m = 0  BY ONLY <3>2, <3>3
    <3> QED BY <1>3, <2>9, <3>4
  <2>13. d - q >= 1 \/ d - q <= 0  BY <2>8
  <2> QED BY <2>11, <2>12, <2>13
<1> QED BY <1>1, <1>3, <1>5, ReaderFails DEF g, w

\* What four bytes may be read as.
LEMMA SizeRead ==
  ASSUME NEW word, NEW size \in Arrow!SizesOf(word)
  PROVE  /\ size \in Nat
         /\ word = Arrow!SizeWord(ChunkSize) => size = ChunkSize
         /\ word = Arrow!SizeWord(0) => size = 0
<1> DEFINE known == {n \in 0..ChunkSize : word = Arrow!SizeWord(n)}
<1>1. ChunkSize \in Nat /\ 1 \in 1..WordSize
  BY BatchConstants
<1>2. size \in known \/ size \in 0..(ChunkSize + 1)
  BY DEF Arrow!SizesOf
<1>3. size \in Nat
  BY <1>1, <1>2
<1>4. ASSUME NEW n \in 0..ChunkSize, word = Arrow!SizeWord(n) PROVE size = n
  <2>1. n \in known  BY <1>4
  <2>2. size \in known  BY <2>1 DEF Arrow!SizesOf
  <2>3. word = Arrow!SizeWord(size)  BY <2>2
  <2>4. word[1] = <<"size", n, 1>> /\ word[1] = <<"size", size, 1>>
    BY <1>1, <1>4, <2>3 DEF Arrow!SizeWord
  <2> QED BY ONLY <2>4
<1>5. 0 \in 0..ChunkSize /\ ChunkSize \in 0..ChunkSize
  BY <1>1
<1> QED BY <1>3, <1>4, <1>5

\* The size of the chunks is read, or is not.
LEMMA BatchSizeOK ==
  ASSUME StreamInv, Arrow!ReadSize
  PROVE  StreamInv'
<1> DEFINE w == writer
           o == w.out
           none == <<>>
           seen == got \o batch
<1>1. /\ phase = "reading" /\ result = "reading" /\ UNCHANGED <<writer, phase, damaged>>
      /\ reader.mCrcChunkSize = 0
  BY DEF Arrow!ReadSize, Arrow!Reading
<1>2. /\ StreamTypeOK /\ StreamOK(w) /\ BatchReads(w, wire, reader, got, batch, result, damaged)
      /\ wire \in Seq(StreamByte) /\ reader \in BatchReader /\ got \in Seq(StreamByte)
      /\ batch \in Seq(StreamByte) /\ w \in BatchWriter
  BY <1>1 DEF StreamInv, StreamTypeOK, StreamOK
<1>3. /\ GoesOn(w, wire, reader, seen, damaged) /\ (~ damaged => w.mIsGlobalCheck)
      /\ Unsized(w, wire, reader, seen, damaged)
  BY <1>1, <1>2 DEF BatchReads, Moving, GoesOn
<1>4. /\ reader.unread = none /\ reader.mGlobalCrc = none /\ ~ reader.mLastChunk
      /\ Len(seen) = 0 /\ Near(wire, o, 0) /\ (~ damaged => wire = o)
  BY <1>3 DEF Unsized
<1>5. /\ o \in Seq(StreamByte) /\ Len(o) \in Nat /\ Len(wire) \in Nat
      /\ WordSize \in Nat \ {0} /\ ChunkSize \in Nat \ {0} /\ Len(got) \in Nat
      /\ w.mGlobalCrc \in Seq(BatchByte) /\ Len(w.mGlobalCrc) \in Nat
      /\ none \in Seq(StreamByte) /\ Len(none) = 0 /\ Len(reader.mGlobalCrc) = 0
  BY <1>2, <1>4, EmptyOrNot, WriterParts
<1>6. seen \in Seq(StreamByte) /\ seen = none /\ Len(got) = 0
  <2>1. got \in Seq(StreamByte) /\ batch \in Seq(StreamByte)  BY <1>2
  <2>2. seen \in Seq(StreamByte) /\ Len(seen) = Len(got) + Len(batch) /\ Len(batch) \in Nat
    BY ONLY <2>1, Joined, EmptyOrNot
  <2> HIDE DEF seen
  <2>3. seen = none  BY <1>4, <2>2, EmptyOrNot
  <2> QED BY <1>4, <1>5, <2>2, <2>3
<1> HIDE DEF seen, none, o
<1>7. PICK n \in 0..WordSize :
        /\ n <= Len(wire) /\ (n = 0 => wire = <<>>)
        /\ wire' = Arrow!After(wire, n)
        /\ IF n < WordSize THEN Arrow!Fails(reader)
           ELSE \E size \in Arrow!SizesOf(Arrow!Upto(wire, n)) :
                  IF size = 0 THEN Arrow!Fails([reader EXCEPT !.mLastChunk = TRUE])
                  ELSE /\ reader' = [reader EXCEPT !.mCrcChunkSize = size]
                       /\ UNCHANGED Arrow!readVars
  BY DEF Arrow!ReadSize
<1>8. n \in Nat /\ n <= Len(wire)
  BY <1>5, <1>7
<1> DEFINE word == SubSeq(wire, 1, n)
           rest == SubSeq(wire, n + 1, Len(wire))
<1>9. /\ word \in Seq(StreamByte) /\ Len(word) = n /\ \A i \in 1..n : word[i] = wire[i]
      /\ rest \in Seq(StreamByte) /\ Len(rest) = Len(wire) - n
      /\ \A i \in 1..(Len(wire) - n) : rest[i] = wire[n + i]
  BY <1>2, <1>8, Cut
<1>10. wire' = rest /\ Arrow!Upto(wire, n) = word
  BY <1>7 DEF Arrow!After, Arrow!Upto
<1> HIDE DEF word, rest
<1>11. CASE n < WordSize
  <2>1. Arrow!Fails(reader)  BY <1>7, <1>11
  <2>2. ~ Arrow!IsEOF(reader)  BY <1>4 DEF Arrow!IsEOF
  <2> QED BY <1>1, <1>2, <1>9, <1>10, <2>1, <2>2, ReaderFails
<1>12. CASE ~ (n < WordSize)
  <2>1. n = WordSize /\ WordSize <= Len(wire)  BY <1>5, <1>7, <1>8, <1>12
  <2>2. PICK size \in Arrow!SizesOf(word) :
          IF size = 0 THEN Arrow!Fails([reader EXCEPT !.mLastChunk = TRUE])
          ELSE /\ reader' = [reader EXCEPT !.mCrcChunkSize = size] /\ UNCHANGED Arrow!readVars
    BY <1>7, <1>10, <1>12
  <2>3. /\ size \in Nat
        /\ word = Arrow!SizeWord(ChunkSize) => size = ChunkSize
        /\ word = Arrow!SizeWord(0) => size = 0
    BY SizeRead
\* Where the size was written, and where no data was.
  <2>4. /\ WordSize <= Len(o)
        /\ w.mIsWriteChunkSize => /\ \A i \in 1..WordSize : o[i] = <<"size", ChunkSize, i>>
                                  /\ \E S \in Places : Chunked(w, S) /\ <<WordSize, 0>> \in S
        /\ ~ w.mIsWriteChunkSize => /\ Len(o) = WordSize /\ o = Arrow!SizeWord(0)
                                    /\ Len(w.mGlobalCrc) = 0
    <3>1. Len(wire) <= Len(o)  BY <1>4, <1>5 DEF Near
    <3>2. WordSize <= Len(o)  BY <1>5, <2>1, <3>1
    <3>3. CASE w.mIsWriteChunkSize  BY <1>2, <3>2, <3>3 DEF StreamOK, Chunked, o
    <3>4. CASE ~ w.mIsWriteChunkSize
      <4>1. o = (IF w.mIsGlobalCheck THEN Arrow!SizeWord(0) ELSE none) /\ w.mGlobalCrc = none
        BY <1>2, <3>4 DEF StreamOK, o, none
      <4>2. o # none  BY <1>5, <3>2
      <4>3. Len(Arrow!SizeWord(0)) = WordSize  BY StreamWords
      <4> QED BY <1>5, <3>2, <3>4, <4>1, <4>2, <4>3
    <3> QED BY <3>3, <3>4
  <2>5. ASSUME ~ damaged
        PROVE  IF w.mIsWriteChunkSize THEN size = ChunkSize ELSE size = 0
    <3>1. wire = o  BY <1>4, <2>5
    <3>2. CASE w.mIsWriteChunkSize
      <4> DEFINE sw == Arrow!SizeWord(ChunkSize)
      <4>1. /\ sw \in Seq(StreamByte) /\ Len(sw) = WordSize
            /\ \A i \in 1..WordSize : sw[i] = <<"size", ChunkSize, i>>
        BY <1>5, StreamWords
      <4> HIDE DEF sw
      <4>2. \A i \in 1..WordSize : word[i] = sw[i]
        BY <1>9, <2>1, <2>4, <3>1, <3>2, <4>1
      <4>3. word = sw  BY <1>9, <2>1, <4>1, <4>2, SeqEqual
      <4> QED BY <2>3, <3>2, <4>3 DEF sw
    <3>3. CASE ~ w.mIsWriteChunkSize
      <4>1. \A i \in 1..WordSize : word[i] = o[i]  BY <1>9, <2>1, <3>1
      <4>2. word = o  BY <1>5, <1>9, <2>1, <2>4, <3>3, <4>1, SeqEqual
      <4> QED BY <2>3, <2>4, <3>3, <4>2
    <3> QED BY <3>2, <3>3
  <2>6. CASE size = 0
    <3> DEFINE r == [reader EXCEPT !.mLastChunk = TRUE]
    <3>1. Arrow!Fails(r)  BY <2>2, <2>6
    <3>2. r \in BatchReader /\ r.unread = none /\ r.mLastChunk
      BY <1>2, <1>4 DEF BatchReader
    <3> HIDE DEF r
    <3>3. Arrow!IsEOF(r)  BY <3>2 DEF Arrow!IsEOF, none
    <3>4. ~ damaged => Len(got) = Len(w.mGlobalCrc)
      <4>1. ~ damaged => ~ w.mIsWriteChunkSize  BY <1>5, <2>5, <2>6
      <4> QED BY <1>6, <2>4, <4>1
    <3> QED BY <1>1, <1>9, <1>10, <3>1, <3>2, <3>3, <3>4, ReaderFails
  <2>7. CASE size # 0
    <3> DEFINE r == [reader EXCEPT !.mCrcChunkSize = size]
    <3>1. reader' = r /\ UNCHANGED <<missing, batch, got, result>>
      BY <2>2, <2>7 DEF Arrow!readVars
    <3>2. /\ r \in BatchReader /\ r.unread = none /\ r.mGlobalCrc = none /\ ~ r.mLastChunk
          /\ r.mCrcChunkSize = size
      BY <1>2, <1>4, <2>3 DEF BatchReader
    <3> HIDE DEF r
    <3>3. Near(rest, o, WordSize)
      <4>1. Len(wire) <= Len(o) /\ \A j \in 1..Len(wire) : wire[j] = o[0 + j] \/ wire[j] = Arrow!Garbage
        BY <1>4, <1>5 DEF Near
      <4>2. Len(rest) <= Len(o) - WordSize  BY <1>5, <1>9, <2>1, <4>1
      <4>3. ASSUME NEW j \in 1..Len(rest)
            PROVE  rest[j] = o[WordSize + j] \/ rest[j] = Arrow!Garbage
        <5>1. WordSize + j \in 1..Len(wire) /\ 0 + (WordSize + j) = WordSize + j
              /\ j \in 1..(Len(wire) - n)
          BY <1>5, <1>9, <2>1
        <5> QED BY <1>9, <2>1, <4>1, <5>1
      <4> QED BY <2>4, <4>2, <4>3 DEF Near
    <3>4. BatchStands(w, 0, rest)
      <4>1. WordSize = Len(o) \/ \E S \in Places : Chunked(w, S) /\ <<WordSize, 0>> \in S
        BY <2>4
      <4> QED BY <1>5, <3>3, <4>1 DEF BatchStands, o
    <3>5. ASSUME ~ damaged PROVE size = ChunkSize /\ BatchPlace(w, 0, rest)
      <4>1. w.mIsWriteChunkSize /\ size = ChunkSize  BY <2>5, <2>7, <3>5
      <4>2. wire = o  BY <1>4, <3>5
      <4>3. \A j \in 1..Len(rest) : rest[j] = o[WordSize + j]
        BY <1>9, <2>1, <4>2
      <4>4. IsRest(rest, o, WordSize)  BY <1>9, <2>1, <4>2, <4>3 DEF IsRest
      <4> QED BY <1>5, <2>4, <4>1, <4>4 DEF BatchPlace, o
    <3>6. seen \o r.unread = r.mGlobalCrc
      <4>1. none \o none = none  BY <1>5, ConcatEmptySeq DEF none
      <4> QED BY <1>6, <3>2, <4>1
    <3>7. Begins(r.mGlobalCrc, w.mGlobalCrc) /\ Len(r.mGlobalCrc) = 0
      BY <1>5, <3>2 DEF Begins
    <3>8. GoesOn(w, rest, r, seen, damaged)
      BY <2>7, <3>2, <3>4, <3>5, <3>6, <3>7 DEF GoesOn, InChunks
    <3> QED BY <1>1, <1>9, <1>10, <3>1, <3>2, <3>8, ReaderGoesOn DEF seen
  <2> QED BY <2>6, <2>7
<1> QED BY <1>11, <1>12

\* A chunk is read with its checksum.
LEMMA BatchChunkOK ==
  ASSUME StreamInv, Arrow!ReadChunk
  PROVE  StreamInv'
<1> DEFINE w == writer
           g == w.mGlobalCrc
           G == reader.mGlobalCrc
           c == reader.mCrcChunkSize
           l == Len(wire)
           size == c + WordSize
           n == IF l < size THEN l ELSE size
           y == Arrow!Upto(wire, n - WordSize)
           sum == Arrow!After(Arrow!Upto(wire, n), n - WordSize)
           rest == Arrow!After(wire, n)
           z == G \o y
           last == n < size
           r == [reader EXCEPT !.mGlobalCrc = @ \o y, !.mLastChunk = last]
           s == [r EXCEPT !.unread = y]
           seen == got \o batch
           none == <<>>
<1>1. /\ phase = "reading" /\ result = "reading" /\ UNCHANGED <<writer, phase, damaged>>
      /\ ~ Arrow!IsEOF(reader) /\ c # 0 /\ reader.unread = none
  <2>1. phase = "reading" /\ result = "reading" /\ UNCHANGED <<writer, phase, damaged>>
        /\ ~ Arrow!IsEOF(reader) /\ c > 0 /\ reader.unread = none
    BY DEF Arrow!ReadChunk, Arrow!Reading
  <2> QED BY <2>1
<1>2. ~ reader.mLastChunk
  BY <1>1 DEF Arrow!IsEOF
<1>3. /\ StreamTypeOK /\ StreamOK(w) /\ BatchReads(w, wire, reader, got, batch, result, damaged)
      /\ wire \in Seq(StreamByte) /\ reader \in BatchReader /\ got \in Seq(StreamByte)
      /\ batch \in Seq(StreamByte) /\ w \in BatchWriter
  BY <1>1 DEF StreamInv, StreamTypeOK, StreamOK
<1>4. /\ InChunks(w, wire, reader, seen, damaged) /\ (~ damaged => w.mIsGlobalCheck)
  BY <1>1, <1>3 DEF BatchReads, Moving, GoesOn
<1>5. /\ seen = G /\ Begins(G, g) /\ BatchStands(w, Len(G), wire)
      /\ ~ damaged => c = ChunkSize /\ BatchPlace(w, Len(G), wire)
  <2>1. /\ seen \o none = G /\ Begins(G, g) /\ BatchStands(w, Len(G), wire)
        /\ ~ damaged => c = ChunkSize /\ BatchPlace(w, Len(G), wire)
    BY <1>1, <1>2, <1>4 DEF InChunks
  <2>2. seen \in Seq(StreamByte)
    <3>1. got \in Seq(StreamByte) /\ batch \in Seq(StreamByte)  BY <1>3
    <3> QED BY ONLY <3>1, Joined
  <2>3. seen \o none = seen
    <3> HIDE DEF seen
    <3> QED BY <2>2, ConcatEmptySeq
  <2> QED BY <2>1, <2>3
<1>6. /\ G \in Seq(StreamByte) /\ c \in Nat /\ WordSize \in Nat \ {0} /\ ChunkSize \in Nat \ {0}
      /\ l \in Nat
  BY <1>3, BatchConstants, EmptyOrNot DEF BatchReader
<1>7. /\ wire' = rest
      /\ IF n < WordSize THEN Arrow!Fails(reader)
         ELSE IF sum # Arrow!Checksum(IF last THEN r.mGlobalCrc ELSE y) THEN Arrow!Fails(r)
         ELSE reader' = s /\ UNCHANGED Arrow!readVars
  BY DEF Arrow!ReadChunk
<1>8. n \in Nat /\ n <= l /\ size \in Nat /\ last \in BOOLEAN
      /\ (n = IF l < c + WordSize THEN l ELSE c + WordSize) /\ (last <=> n < c + WordSize)
  <2> HIDE DEF l, c
  <2> QED BY <1>6
<1>9. rest \in Seq(StreamByte)
  <2> HIDE DEF n
  <2>1. SubSeq(wire, n + 1, Len(wire)) \in Seq(StreamByte)
    BY <1>3, <1>8, Cut DEF l
  <2> QED BY <2>1 DEF Arrow!After
<1> HIDE DEF w, g, G, c, l, size, n, y, sum, rest, z, last, seen
<1>10. ASSUME ~ damaged PROVE WordSize <= n
  <2>1. WordSize <= l
    <3>1. w.mIsGlobalCheck /\ BatchPlace(w, Len(G), wire) /\ Len(G) \in Nat
      BY <1>4, <1>5, <1>6, <1>10, EmptyOrNot
    <3> QED BY <1>3, <3>1, BatchComes DEF l
  <2> QED BY <1>6, <1>8, <2>1
<1>11. CASE n < WordSize
  <2>1. Arrow!Fails(reader)  BY <1>7, <1>11
  <2>2. damaged  BY <1>6, <1>8, <1>10, <1>11
  <2> QED BY <1>1, <1>3, <1>7, <1>9, <2>1, <2>2, ReaderFails
<1>12. CASE ~ (n < WordSize)
  <2>1. WordSize <= n  BY <1>6, <1>8, <1>12
  <2>2. Chunk(wire, y, sum, rest, n)
    <3>1. n <= Len(wire)  BY <1>8 DEF l
    <3> QED BY <1>3, <1>8, <2>1, <3>1, ChunkOf DEF y, sum, rest
  <2>3. y \in Seq(StreamByte) /\ Len(y) = n - WordSize /\ Len(y) \in Nat
    BY <2>2, EmptyOrNot DEF Chunk
  <2>4. z \in Seq(StreamByte)
    <3>1. y \in Seq(StreamByte) /\ G \in Seq(StreamByte)  BY <1>6, <2>3
    <3> QED BY ONLY <3>1, Joined DEF z
  <2>5. /\ r \in BatchReader /\ s \in BatchReader
        /\ r.mGlobalCrc = z /\ r.mLastChunk = last /\ r.mCrcChunkSize = c
        /\ s.mGlobalCrc = z /\ s.mLastChunk = last /\ s.mCrcChunkSize = c /\ s.unread = y
        /\ r.unread = none
    BY <1>1, <1>3, <1>8, <2>3, <2>4 DEF BatchReader, z, G, c
  <2> HIDE DEF r, s, none
  <2>6. ASSUME ~ damaged
        PROVE  IF last THEN sum = Arrow!Checksum(z) /\ Len(z) = Len(g)
               ELSE sum = Arrow!Checksum(y) /\ BatchPlace(w, Len(z), rest)
    <3>1. c = ChunkSize /\ BatchPlace(w, Len(G), wire) /\ w.mIsGlobalCheck
      BY <1>4, <1>5, <2>6
    <3>2. n = IF Len(wire) < ChunkSize + WordSize THEN Len(wire) ELSE ChunkSize + WordSize
      BY <1>8, <3>1 DEF l
    <3>3. Begins(G, w.mGlobalCrc)  BY <1>5 DEF g
    <3>4. Comes(w, G, wire, y, sum, rest, n)
      BY ONLY <1>3, <1>6, <2>2, <3>1, <3>2, <3>3 DEF Comes
    <3>5. IF n < ChunkSize + WordSize
          THEN sum = Arrow!Checksum(G \o y) /\ Len(G \o y) = Len(w.mGlobalCrc)
          ELSE sum = Arrow!Checksum(y) /\ BatchPlace(w, Len(G \o y), rest)
      BY ONLY <3>4, ChunkComes
    <3>6. last <=> n < ChunkSize + WordSize  BY <1>8, <3>1
    <3> QED BY ONLY <3>5, <3>6 DEF z, g
  <2>7. CASE sum # Arrow!Checksum(IF last THEN z ELSE y)
    <3>1. Arrow!Fails(r)  BY <1>7, <1>12, <2>5, <2>7
    <3>2. damaged  BY <2>6, <2>7
    <3> QED BY <1>1, <1>3, <1>7, <1>9, <2>5, <3>1, <3>2, ReaderFails
  <2>8. CASE sum = Arrow!Checksum(IF last THEN z ELSE y)
    <3>1. reader' = s /\ UNCHANGED <<missing, batch, got, result>>
      BY <1>7, <1>12, <2>5, <2>8 DEF Arrow!readVars
    <3>2. ~ last => Len(y) # 0
      <4>1. ~ last => n = c + WordSize  BY <1>6, <1>8
      <4> QED BY <1>1, <1>6, <2>3, <4>1
    <3>3. /\ Begins(z, g)
          /\ ~ last => BatchStands(w, Len(z), rest)
      <4> DEFINE whole == ~ last
      <4>1. sum = Arrow!Checksum(IF whole THEN y ELSE z)  BY <2>8
      <4>2. whole \in BOOLEAN /\ (whole => Len(y) # 0)  BY <1>8, <3>2
      <4> HIDE DEF whole
      <4>3. /\ Begins(G \o y, w.mGlobalCrc)
            /\ whole => BatchStands(w, Len(G \o y), rest)
        BY <1>3, <1>5, <1>6, <2>2, <4>1, <4>2, ChunkTaken DEF g, z
      <4> QED BY <4>3 DEF whole, z, g
    <3>4. InChunks(w, rest, s, seen, damaged)
      <4>1. seen \o y = z  BY <1>5 DEF z
      <4>2. ~ damaged => c = ChunkSize /\ IF last THEN Len(z) = Len(g) ELSE BatchPlace(w, Len(z), rest)
        BY <1>5, <2>6
      <4> QED BY <2>5, <3>3, <4>1, <4>2 DEF InChunks, g
    <3>5. GoesOn(w, rest, s, seen, damaged)  BY <1>1, <2>5, <3>4 DEF GoesOn
    <3> QED BY <1>1, <1>7, <1>9, <2>5, <3>1, <3>5, ReaderGoesOn DEF w, seen
  <2> QED BY <2>7, <2>8
<1> QED BY <1>11, <1>12

\* Of the chunk, the batch takes what it lacks.
LEMMA BatchTakeOK ==
  ASSUME StreamInv, Arrow!Take
  PROVE  StreamInv'
<1> DEFINE w == writer
           u == reader.unread
           l == Len(u)
           n == IF l < missing THEN l ELSE missing
           a == SubSeq(u, 1, n)
           b == SubSeq(u, n + 1, l)
           r == [reader EXCEPT !.unread = b]
           seen == got \o batch
           taken == batch \o a
           none == <<>>
<1>1. /\ phase = "reading" /\ result = "reading" /\ UNCHANGED <<writer, phase, damaged, wire>>
      /\ u # none /\ reader' = [reader EXCEPT !.unread = Arrow!After(@, n)]
      /\ missing' = missing - n
      /\ IF n < missing THEN batch' = batch \o Arrow!Upto(u, n) /\ UNCHANGED <<got, result>>
         ELSE batch' = none /\ got' = got \o (batch \o Arrow!Upto(u, n)) /\ result' = "batch"
  BY DEF Arrow!Take, Arrow!Reading, Arrow!transferVars
<1>2. /\ StreamTypeOK /\ StreamOK(w) /\ InBatch /\ w \in BatchWriter
      /\ BatchReads(w, wire, reader, got, batch, result, damaged)
      /\ wire \in Seq(StreamByte) /\ reader \in BatchReader /\ got \in Seq(StreamByte)
      /\ batch \in Seq(StreamByte) /\ missing \in Nat /\ missing # 0
      /\ Len(batch) + missing = BatchSize
  BY <1>1 DEF StreamInv, StreamTypeOK, StreamOK, InBatch
<1>3. /\ GoesOn(w, wire, reader, seen, damaged)
      /\ ~ damaged => w.mIsGlobalCheck
  BY <1>1, <1>2 DEF BatchReads, Moving
<1>4. reader.mCrcChunkSize # 0 /\ InChunks(w, wire, reader, seen, damaged)
  BY <1>1, <1>3 DEF GoesOn, Unsized
<1>5. /\ u \in Seq(StreamByte) /\ l \in Nat /\ Len(batch) \in Nat /\ Len(got) \in Nat
      /\ none \in Seq(StreamByte) /\ BatchSize \in Nat \ {0} /\ Len(none) = 0
  <2>1. u \in Seq(StreamByte)  BY <1>2 DEF BatchReader
  <2> QED BY <1>2, <2>1, EmptyOrNot, BatchConstants
<1>6. n \in Nat /\ n <= l /\ n <= missing /\ missing - n \in Nat
      /\ (n < missing => missing - n # 0) /\ (~ (n < missing) => n = missing)
  <2> HIDE DEF l
  <2> QED BY <1>2, <1>5
<1>7. a \in Seq(StreamByte) /\ b \in Seq(StreamByte) /\ Len(a) = n
  <2> HIDE DEF n, u
  <2> QED BY <1>5, <1>6, Cut
<1>8. seen \in Seq(StreamByte)
  <2>1. got \in Seq(StreamByte) /\ batch \in Seq(StreamByte)  BY <1>2
  <2> QED BY ONLY <2>1, Joined
<1>9. (seen \o a) \o b = seen \o u
  <2> HIDE DEF n, u, seen
  <2> QED BY <1>5, <1>6, <1>8, Divided
<1>10. /\ reader' = r /\ r \in BatchReader
       /\ r.mGlobalCrc = reader.mGlobalCrc /\ r.mLastChunk = reader.mLastChunk
       /\ r.mCrcChunkSize = reader.mCrcChunkSize /\ r.unread = b
       /\ IF n < missing THEN batch' = taken /\ UNCHANGED <<got, result>>
          ELSE batch' = none /\ got' = got \o taken /\ result' = "batch"
  <2>1. Arrow!Upto(u, n) = a /\ reader' = r  BY <1>1 DEF Arrow!Upto, Arrow!After
  <2> HIDE DEF a, b, n
  <2> QED BY <1>1, <1>2, <1>7, <2>1 DEF BatchReader
<1> HIDE DEF w, u, l, n, a, b, r
<1>11. /\ taken \in Seq(StreamByte) /\ Len(taken) = Len(batch) + n
       /\ got \o taken \in Seq(StreamByte) /\ Len(got \o taken) = Len(got) + Len(taken)
       /\ got \o taken = seen \o a
  <2>1. got \in Seq(StreamByte) /\ batch \in Seq(StreamByte) /\ a \in Seq(StreamByte)
    BY <1>2, <1>7
  <2>2. taken \in Seq(StreamByte) /\ Len(taken) = Len(batch) + Len(a)
    BY ONLY <2>1, Joined
  <2>3. got \o taken = seen \o a  BY ONLY <2>1, ConcatAssociative
  <2> HIDE DEF taken
  <2>4. got \o taken \in Seq(StreamByte) /\ Len(got \o taken) = Len(got) + Len(taken)
    BY ONLY <2>1, <2>2, Joined
  <2> QED BY <1>7, <2>2, <2>3, <2>4
<1> HIDE DEF seen, taken, none
<1>12. InChunks(w, wire, r, seen \o a, damaged)
  BY <1>4, <1>9, <1>10 DEF InChunks, u
<1>13. GoesOn(w, wire, r, seen \o a, damaged)
  BY <1>4, <1>10, <1>12 DEF GoesOn
<1>14. Begins(got \o taken, w.mGlobalCrc)
  <2>1. seen \o a \in Seq(StreamByte)  BY <1>11
  <2>2. Begins(seen \o a, w.mGlobalCrc)
    BY <1>2, <1>10, <1>13, <2>1, GoesOnBegins
  <2> QED BY <1>11, <2>2
<1>15. StreamOK(writer') /\ phase' = "reading"
  BY <1>1, <1>2 DEF w
<1>16. Moving(result') /\ got' \o batch' = got \o taken
       /\ got' \in Seq(StreamByte) /\ batch' \in Seq(StreamByte)
       /\ result' \in {"none", "batch", "reading", "end", "exception"}
  <2>1. CASE n < missing
    <3>1. batch' = taken /\ got' = got /\ result' = "reading"
      BY <1>1, <1>10, <2>1
    <3> QED BY <1>2, <1>11, <3>1 DEF Moving
  <2>2. CASE ~ (n < missing)
    <3>1. batch' = none /\ got' = got \o taken /\ result' = "batch"
      BY <1>10, <2>2
    <3>2. (got \o taken) \o none = got \o taken
      BY <1>11, ConcatEmptySeq DEF none
    <3> QED BY <1>5, <1>11, <3>1, <3>2 DEF Moving
  <2> QED BY <2>1, <2>2
<1>17. StreamTypeOK'
  <2>1. wire' \in Seq(StreamByte) /\ phase' \in {"writing", "reading"} /\ damaged' \in BOOLEAN
        /\ reader' \in BatchReader /\ missing' \in Nat
    BY <1>1, <1>2, <1>6, <1>10 DEF StreamTypeOK
  <2> QED BY <1>16, <2>1 DEF StreamTypeOK
<1>18. InBatch'
  <2>1. PICK q \in Nat : Len(got) = q * BatchSize  BY <1>2 DEF InBatch, Batches
  <2>2. CASE n < missing
    <3>1. batch' = taken /\ got' = got /\ result' = "reading" /\ missing' = missing - n
      BY <1>1, <1>10, <2>2
    <3>2. missing' # 0 /\ Len(batch') + missing' = BatchSize
      <4>1. missing - n # 0 /\ Len(taken) = Len(batch) + n /\ Len(batch) + missing = BatchSize
        BY <1>2, <1>6, <1>11, <2>2
      <4>2. n \in Nat /\ missing \in Nat /\ Len(batch) \in Nat /\ BatchSize \in Nat
        BY <1>2, <1>5, <1>6
      <4>3. Len(taken) + (missing - n) = BatchSize  BY ONLY <4>1, <4>2
      <4> QED BY <3>1, <4>1, <4>3
    <3> QED BY <1>2, <3>1, <3>2 DEF InBatch
  <2>3. CASE ~ (n < missing)
    <3>1. batch' = none /\ got' = got \o taken /\ result' = "batch"
      BY <1>10, <2>3
    <3>2. Len(taken) = BatchSize  BY <1>2, <1>6, <1>11, <2>3
    <3>3. Len(got') = Len(got) + BatchSize  BY <1>11, <3>1, <3>2
    <3>4. Len(got') = (q + 1) * BatchSize /\ q + 1 \in Nat
      BY ONLY <1>5, <2>1, <3>3, q \in Nat
    <3>5. Batches(Len(got'))  BY <3>4 DEF Batches
    <3> QED BY <3>1, <3>5 DEF InBatch, none
  <2> QED BY <2>2, <2>3
<1>19. BatchReads(writer', wire', reader', got', batch', result', damaged')
  <2>1. ~ damaged => w.mIsGlobalCheck  BY <1>3
  <2>2. result' # "end" /\ result' # "exception"  BY <1>16 DEF Moving
  <2>3. BatchReads(w, wire, r, got', batch', result', damaged)
    BY <1>11, <1>13, <1>14, <1>16, <2>1, <2>2 DEF BatchReads
  <2> QED BY <1>1, <1>10, <2>3 DEF w
<1> QED BY <1>15, <1>17, <1>18, <1>19 DEF StreamInv

\* Nothing was written or read.
LEMMA StreamInitOK ==
  ASSUME Arrow!Init
  PROVE  StreamInv
<1> DEFINE none == <<>>
           w == writer
<1>1. none \in Seq(BatchByte) /\ none \in Seq(StreamByte) /\ Len(none) = 0
  OBVIOUS
<1>2. /\ w = [out |-> none, mOffset |-> 0, mChunkCrc |-> none, mGlobalCrc |-> none,
              mIsWriteChunkSize |-> FALSE, mIsGlobalCheck |-> FALSE]
      /\ reader = [mCrcChunkSize |-> 0, mGlobalCrc |-> none, unread |-> none,
                   mLastChunk |-> FALSE]
      /\ wire = none /\ phase = "writing" /\ damaged = FALSE /\ missing = 0
      /\ batch = none /\ got = none /\ result = "none"
  BY DEF Arrow!Init
<1>3. ChunkSize \in Nat \ {0} /\ BatchSize \in Nat \ {0} /\ 0 \in 0..(ChunkSize - 1)
  BY BatchConstants
<1> HIDE DEF none
<1>4. w \in BatchWriter /\ reader \in BatchReader
  BY <1>1, <1>2, <1>3 DEF BatchWriter, BatchReader
<1>5. /\ w.out = none /\ w.mChunkCrc = none /\ w.mGlobalCrc = none /\ w.mOffset = 0
      /\ ~ w.mIsWriteChunkSize /\ ~ w.mIsGlobalCheck
      /\ reader.mCrcChunkSize = 0 /\ reader.mGlobalCrc = none /\ reader.unread = none
      /\ ~ reader.mLastChunk
  BY <1>2
<1>6. StreamOK(w)
  BY <1>4, <1>5 DEF StreamOK, none
<1>7. Batches(Len(got))
  <2>1. Len(got) = 0 * BatchSize  BY <1>1, <1>2, <1>3
  <2> QED BY <2>1 DEF Batches
<1>8. InBatch
  BY <1>2, <1>7 DEF InBatch, none
<1>9. Fresh
  BY <1>2, <1>5 DEF Fresh, none
<1>10. StreamTypeOK
  BY <1>1, <1>2, <1>4 DEF StreamTypeOK
<1> QED BY <1>2, <1>6, <1>8, <1>9, <1>10 DEF StreamInv

LEMMA BatchArrivesOK ==
  ASSUME StreamInv, Arrow!Arrives
  PROVE  StreamInv'
<1> DEFINE w == writer
           o == w.out
           none == <<>>
<1>1. /\ phase = "writing" /\ phase' = "reading" /\ UNCHANGED <<writer, reader, missing, batch, got, result>>
      /\ wire' \in {o} \cup Arrow!Arrivals(o)
      /\ damaged' = (wire' # o \/ ~ w.mIsGlobalCheck)
  BY DEF Arrow!Arrives, Arrow!readVars
<1>2. StreamTypeOK /\ StreamOK(w) /\ InBatch /\ Fresh /\ w \in BatchWriter
  BY <1>1 DEF StreamInv, StreamOK
<1>3. /\ o \in Seq(StreamByte) /\ Len(o) \in Nat /\ w.mGlobalCrc \in Seq(BatchByte)
      /\ Len(w.mGlobalCrc) \in Nat
  BY <1>2, WriterParts
<1> HIDE DEF o
<1>4. wire' \in Seq(StreamByte) /\ Near(wire', o, 0)
  <2>1. ASSUME NEW x \in Seq(StreamByte), Len(x) <= Len(o),
               \A j \in 1..Len(x) : x[j] = o[j] \/ x[j] = Arrow!Garbage
        PROVE  Near(x, o, 0)
    <3>1. ASSUME NEW j \in 1..Len(x) PROVE x[j] = o[0 + j] \/ x[j] = Arrow!Garbage
      <4>1. 0 + j = j  OBVIOUS
      <4> QED BY <2>1, <4>1
    <3>2. 0 <= Len(o) /\ Len(x) <= Len(o) - 0  BY <1>3, <2>1
    <3> QED BY <3>1, <3>2 DEF Near
  <2>2. CASE wire' = o
    <3>1. Len(o) <= Len(o)  BY <1>3
    <3> QED BY <1>3, <2>1, <2>2, <3>1
  <2>3. ASSUME NEW n \in 0..Len(o), wire' = SubSeq(o, 1, n)
        PROVE  wire' \in Seq(StreamByte) /\ Near(wire', o, 0)
    <3> DEFINE x == SubSeq(o, 1, n)
    <3>1. n \in Nat /\ n <= Len(o)  BY <1>3
    <3>2. x \in Seq(StreamByte) /\ Len(x) = n /\ \A i \in 1..n : x[i] = o[i]
      BY <1>3, <3>1, Cut
    <3> HIDE DEF x
    <3>3. Near(x, o, 0)  BY <2>1, <3>1, <3>2
    <3> QED BY <2>3, <3>2, <3>3 DEF x
  <2>4. ASSUME NEW i \in DOMAIN o, wire' = [o EXCEPT ![i] = Arrow!Garbage]
        PROVE  wire' \in Seq(StreamByte) /\ Near(wire', o, 0)
    <3> DEFINE x == [o EXCEPT ![i] = Arrow!Garbage]
    <3>1. i \in 1..Len(o) /\ Arrow!Garbage \in StreamByte
      BY <1>3, LenProperties, Kinds
    <3>2. /\ x \in Seq(StreamByte) /\ Len(x) = Len(o)
          /\ \A j \in 1..Len(o) : x[j] = IF j = i THEN Arrow!Garbage ELSE o[j]
      BY <1>3, <3>1, ExceptSeq
    <3> HIDE DEF x
    <3>3. Len(x) <= Len(o)  BY <1>3, <3>2
    <3>4. Near(x, o, 0)  BY <2>1, <3>2, <3>3
    <3> QED BY <2>4, <3>2, <3>4 DEF x
  <2> QED BY <1>1, <2>2, <2>3, <2>4 DEF Arrow!Arrivals
<1>5. /\ reader.mCrcChunkSize = 0 /\ reader.unread = none /\ reader.mGlobalCrc = none
      /\ ~ reader.mLastChunk /\ got = none /\ batch = none /\ result = "none"
  BY <1>2 DEF Fresh
<1>6. got \o batch = none /\ Len(none) = 0
  <2>1. none \o none = none /\ Len(none) = 0  OBVIOUS
  <2> QED BY <1>5, <2>1
<1> HIDE DEF none
<1>7. Unsized(w, wire', reader, got \o batch, damaged')
  BY <1>1, <1>4, <1>5, <1>6 DEF Unsized, o, none
<1>8. Begins(got \o batch, w.mGlobalCrc)
  BY <1>3, <1>6 DEF Begins
<1>9. BatchReads(w, wire', reader, got, batch, result, damaged')
  BY <1>1, <1>5, <1>7, <1>8 DEF BatchReads, GoesOn
<1>10. StreamTypeOK'
  BY <1>1, <1>2, <1>4 DEF StreamTypeOK
<1>11. InBatch'
  BY <1>1, <1>2 DEF InBatch
<1> QED BY <1>1, <1>2, <1>9, <1>10, <1>11 DEF StreamInv, w

LEMMA BatchReadOK ==
  ASSUME StreamInv, Arrow!Read
  PROVE  StreamInv'
<1>1. /\ phase = "reading" /\ result \in {"none", "batch"} /\ missing' = BatchSize
      /\ result' = "reading" /\ UNCHANGED <<writer, wire, phase, damaged, reader, batch, got>>
  BY DEF Arrow!Read, Arrow!transferVars
<1>2. /\ StreamTypeOK /\ StreamOK(writer) /\ InBatch
      /\ BatchReads(writer, wire, reader, got, batch, result, damaged)
  BY <1>1 DEF StreamInv
<1>3. StreamTypeOK'
  BY <1>1, <1>2, BatchConstants DEF StreamTypeOK
<1>4. InBatch'
  <2>1. batch = <<>> /\ Batches(Len(got))  BY <1>1, <1>2 DEF InBatch
  <2>2. Len(batch) = 0 /\ BatchSize \in Nat \ {0}  BY <2>1, BatchConstants
  <2>3. missing' # 0 /\ Len(batch') + missing' = BatchSize  BY <1>1, <2>2
  <2> QED BY <1>1, <2>1, <2>3 DEF InBatch
<1>5. BatchReads(writer, wire, reader, got, batch, "reading", damaged)
  BY <1>1, <1>2 DEF BatchReads, Moving
<1> QED BY <1>1, <1>2, <1>3, <1>4, <1>5 DEF StreamInv

LEMMA StreamNextOK ==
  ASSUME StreamInv, Arrow!Next
  PROVE  StreamInv'
<1>1. ASSUME StreamOK(writer'), phase = "writing",
             UNCHANGED <<wire, phase, damaged, reader, missing, batch, got, result>>
      PROVE  StreamInv'
  <2>1. StreamTypeOK /\ InBatch /\ Fresh  BY <1>1 DEF StreamInv
  <2>2. StreamTypeOK'  BY <1>1, <2>1 DEF StreamTypeOK
  <2>3. InBatch'  BY <1>1, <2>1 DEF InBatch
  <2>4. Fresh'  BY <1>1, <2>1 DEF Fresh
  <2> QED BY <1>1, <2>2, <2>3, <2>4 DEF StreamInv
<1>2. ASSUME NEW n \in 0..MaxData, Arrow!Write(n) PROVE StreamInv'
  <2>1. phase = "writing" /\ UNCHANGED <<wire, phase, damaged, reader, missing, batch, got, result>>
    BY <1>2 DEF Arrow!Write, Arrow!transferVars, Arrow!readVars
  <2>2. StreamOK(writer')  BY <1>2, BatchWriteOK DEF StreamInv
  <2> QED BY <1>1, <2>1, <2>2
<1>3. ASSUME Arrow!Flush PROVE StreamInv'
  <2>1. phase = "writing" /\ UNCHANGED <<wire, phase, damaged, reader, missing, batch, got, result>>
    BY <1>3 DEF Arrow!Flush, Arrow!transferVars, Arrow!readVars
  <2>2. StreamOK(writer')  BY <1>3, BatchFlushOK DEF StreamInv
  <2> QED BY <1>1, <2>1, <2>2
<1>4. CASE Arrow!Arrives
  BY <1>4, BatchArrivesOK
<1>5. CASE Arrow!Read
  BY <1>5, BatchReadOK
<1>6. CASE Arrow!ReadStep
  BY <1>6, BatchEndOK, BatchSizeOK, BatchChunkOK, BatchTakeOK DEF Arrow!ReadStep
<1> QED BY <1>2, <1>3, <1>4, <1>5, <1>6 DEF Arrow!Next

\* What the invariant says of what was returned.
LEMMA StreamSafe ==
  ASSUME StreamInv
  PROVE  Arrow!ReadsOnlyWritten /\ Arrow!WholeUnlessDamaged
<1> DEFINE g == writer.mGlobalCrc
           s == got \o batch
           none == <<>>
<1>1. StreamTypeOK /\ StreamOK(writer) /\ InBatch /\ writer \in BatchWriter
  BY DEF StreamInv, StreamOK
<1>2. got \in Seq(StreamByte) /\ batch \in Seq(StreamByte) /\ g \in Seq(StreamByte)
      /\ Len(g) \in Nat
  BY <1>1, WriterParts, BatchBytes DEF StreamTypeOK
<1>3. s \in Seq(StreamByte)
  <2>1. got \in Seq(StreamByte) /\ batch \in Seq(StreamByte)  BY <1>2
  <2> QED BY ONLY <2>1, Joined
<1> HIDE DEF g, none
<1>4. /\ Begins(s, g)
      /\ ~ damaged /\ result = "end" => Len(got) = Len(g)
      /\ ~ damaged /\ result = "exception" => reader.mCrcChunkSize = 0
  <2>1. CASE phase = "reading"  BY <2>1 DEF StreamInv, BatchReads, g
  <2>2. CASE phase # "reading"
    <3>1. phase = "writing"  BY <1>1, <2>2 DEF StreamTypeOK
    <3>2. got = none /\ batch = none /\ result = "none"
      BY <3>1 DEF StreamInv, Fresh, none
    <3>3. s = none /\ Len(none) = 0  BY <3>2 DEF none
    <3> HIDE DEF s
    <3>4. Begins(s, g)  BY <1>2, <3>3 DEF Begins
    <3> QED BY <3>2, <3>4
  <2> QED BY <2>1, <2>2
<1>5. Begins(got, g)
  BY <1>2, <1>4, EarlierBegins
<1>6. Len(got) = Len(g) => got = g
  BY <1>2, <1>5, SeqEqual DEF Begins
<1>7. \E n \in 0..Len(g) : s = SubSeq(g, 1, n)
  <2> HIDE DEF s
  <2> QED BY <1>2, <1>3, <1>4, BeginningIsPart
<1> QED BY <1>4, <1>6, <1>7 DEF g, s, Arrow!ReadsOnlyWritten, Arrow!WholeUnlessDamaged, Arrow!Upto

\* What the framing is about.
LEMMA StreamStays ==
  ASSUME StreamInv,
         UNCHANGED <<writer, wire, phase, damaged, reader, missing, batch, got, result>>
  PROVE  StreamInv'
<1>1. /\ StreamTypeOK' <=> StreamTypeOK
      /\ InBatch' <=> InBatch
      /\ Fresh' <=> Fresh
  BY DEF StreamTypeOK, InBatch, Fresh
<1> QED BY <1>1 DEF StreamInv

-----------------------------------------------------------------------------
(* A transfer of records.                                                   *)

CellToken == {"cell"} \X (1..Columns) \X Value

\* What a writer sends.
SentToken ==
  UNION {CellToken, {"end"} \X Seq(CellToken), {"count"} \X Nat, {Records!Metrics},
         {<<"metricsEnd", <<Records!Metrics>>>>}, {"sum"} \X Seq(Seq(CellToken))}

BadCell == Records!Cell(1, "garbage")

BadEnd == <<"end", <<BadCell>>>>

\* What a reader may get.
Token == SentToken \cup {BadCell, BadEnd, <<"garbage", 0>>}

LEMMA RecordConstants ==
  /\ Columns \in Nat \ {0} /\ BufferSize \in Nat \ {0} /\ MaxRecords \in Nat \ {0}
  /\ BufferSize > Columns /\ BufferSize >= 4 /\ Null \notin Value /\ "garbage" \notin Value
  BY TransfersAssumption DEF Records!RecordAssumption

\* What is sent, by its tag.
LEMMA Tags ==
  ASSUME NEW x \in SentToken
  PROVE  /\ x \in Token /\ x[1] \in {"cell", "end", "count", "metrics", "metricsEnd", "sum"}
         /\ x[1] = "cell" => x \in CellToken /\ x # BadCell /\ x[3] # "garbage"
         /\ x[1] = "end" => x = <<"end", x[2]>> /\ x[2] \in Seq(CellToken)
         /\ x # BadCell
<1>1. x \in Token
  BY DEF Token
<1>2. CASE x \in CellToken
  <2>1. x[1] = "cell" /\ x[3] \in Value  BY <1>2 DEF CellToken
  <2>2. x[3] # "garbage"  BY <2>1, RecordConstants
  <2>3. x # BadCell  BY <2>2 DEF BadCell, Records!Cell
  <2> QED BY <1>1, <1>2, <2>1, <2>2, <2>3
<1>3. CASE x \in {"end"} \X Seq(CellToken)
  <2>1. x = <<"end", x[2]>> /\ x[2] \in Seq(CellToken) /\ x[1] = "end"  BY <1>3
  <2>2. x # BadCell  BY <2>1 DEF BadCell, Records!Cell
  <2> QED BY <1>1, <2>1, <2>2
<1>4. CASE x \in {"count"} \X Nat
  <2>1. x[1] = "count"  BY <1>4
  <2>2. x # BadCell  BY <2>1 DEF BadCell, Records!Cell
  <2> QED BY <1>1, <2>1, <2>2
<1>5. CASE x = Records!Metrics
  <2>1. x[1] = "metrics"  BY <1>5 DEF Records!Metrics
  <2>2. x # BadCell  BY <2>1 DEF BadCell, Records!Cell
  <2> QED BY <1>1, <2>1, <2>2
<1>6. CASE x = <<"metricsEnd", <<Records!Metrics>>>>
  <2>1. x[1] = "metricsEnd"  BY <1>6
  <2>2. x # BadCell  BY <2>1 DEF BadCell, Records!Cell
  <2> QED BY <1>1, <2>1, <2>2
<1>7. CASE x \in {"sum"} \X Seq(Seq(CellToken))
  <2>1. x[1] = "sum"  BY <1>7
  <2>2. x # BadCell  BY <2>1 DEF BadCell, Records!Cell
  <2> QED BY <1>1, <2>1, <2>2
<1> QED BY <1>2, <1>3, <1>4, <1>5, <1>6, <1>7 DEF SentToken

\* What a changed byte makes of it.
LEMMA ChangedTags ==
  ASSUME NEW t \in SentToken, NEW x \in Records!Changed(t)
  PROVE  /\ x \in Token
         /\ x[1] = "end" => x = BadEnd /\ t[1] = "end"
         /\ x[1] # "sum"
         /\ x[1] = "cell" => t[1] = "cell" \/ x = BadCell
<1>1. /\ BadCell[1] = "cell" /\ BadEnd[1] = "end" /\ <<"garbage", 0>>[1] = "garbage"
      /\ BadCell \in Token /\ BadEnd \in Token /\ <<"garbage", 0>> \in Token
  BY DEF BadCell, BadEnd, Token, Records!Cell
<1>2. \/ x = BadCell \/ x = <<"garbage", 0>>
      \/ t[1] = "cell" /\ \E c \in 1..Columns, v \in Value : x = Records!Cell(c, v)
      \/ t[1] = "count" /\ x = <<"count", t[2] + 1>>
      \/ t[1] = "end" /\ x = BadEnd
  BY DEF Records!Changed, BadCell, BadEnd
<1>3. CASE x = BadCell
  BY <1>1, <1>3
<1>4. CASE x = <<"garbage", 0>>
  BY <1>1, <1>4
<1>5. CASE t[1] = "cell" /\ \E c \in 1..Columns, v \in Value : x = Records!Cell(c, v)
  <2>1. PICK c \in 1..Columns, v \in Value : x = <<"cell", c, v>>
    BY <1>5 DEF Records!Cell
  <2>2. x \in CellToken /\ x[1] = "cell"  BY <2>1 DEF CellToken
  <2>3. x \in Token  BY <2>2 DEF Token, SentToken
  <2> QED BY <1>5, <2>2, <2>3
<1>6. CASE t[1] = "count" /\ x = <<"count", t[2] + 1>>
  <2>1. t \in {"count"} \X Nat
    <3>1. t \notin CellToken /\ t \notin {"end"} \X Seq(CellToken) /\ t # Records!Metrics
          /\ t # <<"metricsEnd", <<Records!Metrics>>>> /\ t \notin {"sum"} \X Seq(Seq(CellToken))
      BY <1>6 DEF CellToken, Records!Metrics
    <3> QED BY <3>1 DEF SentToken
  <2>2. t[2] + 1 \in Nat  BY <2>1
  <2>3. x \in {"count"} \X Nat /\ x[1] = "count"  BY <1>6, <2>2
  <2>4. x \in Token  BY <2>3 DEF Token, SentToken
  <2> QED BY <2>3, <2>4
<1>7. CASE t[1] = "end" /\ x = BadEnd
  BY <1>1, <1>7
<1> QED BY <1>2, <1>3, <1>4, <1>5, <1>6, <1>7

\* The cells of a record, one column after the other.
AreCells(f, r, n) ==
  f = [c \in 0..n |-> IF c = 0 THEN <<>>
                      ELSE IF r[c] = Null THEN f[c - 1]
                      ELSE Append(f[c - 1], Records!Cell(c, r[c]))]

CellsOf(r, n) == CHOOSE f : AreCells(f, r, n)

LEMMA CellsExist ==
  ASSUME NEW r, NEW n \in Nat
  PROVE  \E f : AreCells(f, r, n)
<1> DEFINE Is(f, k) == AreCells(f, r, k)
           T == {k \in Nat : ~ \E f : Is(f, k)}
           Next1(s, c) == IF r[c] = Null THEN s ELSE Append(s, Records!Cell(c, r[c]))
           none == <<>>
<1>1. SUFFICES ASSUME T # {} PROVE FALSE
  OBVIOUS
<1>2. PICK k \in T : \A l \in T : k <= l
  <2>1. T \in SUBSET Nat  OBVIOUS
  <2> HIDE DEF T
  <2> QED BY <1>1, <2>1, Least
<1>3. k \in Nat /\ ~ \E f : Is(f, k)
  BY <1>2
<1>4. \A f, l : Is(f, l) <=> f = [c \in 0..l |-> IF c = 0 THEN none ELSE Next1(f[c - 1], c)]
  BY DEF AreCells
<1> HIDE DEF Is, Next1, none
<1>5. CASE k = 0
  <2> DEFINE f == [c \in 0..0 |-> none]
  <2>1. \A c \in 0..0 : c = 0  OBVIOUS
  <2>2. f = [c \in 0..0 |-> IF c = 0 THEN none ELSE Next1(f[c - 1], c)]  BY <2>1
  <2> HIDE DEF f
  <2>3. Is(f, k)  BY <1>4, <1>5, <2>2
  <2> QED BY <1>3, <2>3
<1>6. CASE k # 0
  <2>1. k - 1 \in Nat /\ ~ (k <= k - 1)  BY <1>3, <1>6
  <2>2. k - 1 \notin T  BY <1>2, <2>1
  <2>3. PICK g : Is(g, k - 1)  BY <2>1, <2>2
  <2>4. g = [c \in 0..(k - 1) |-> IF c = 0 THEN none ELSE Next1(g[c - 1], c)]
    BY <1>4, <2>3
  <2> DEFINE f == [c \in 0..k |-> IF c = k THEN Next1(g[k - 1], k) ELSE g[c]]
  <2>5. ASSUME NEW c \in 0..k
        PROVE  f[c] = IF c = 0 THEN none ELSE Next1(f[c - 1], c)
    <3>1. f[c] = IF c = k THEN Next1(g[k - 1], k) ELSE g[c]  OBVIOUS
    <3>2. CASE c = k
      <4>1. f[c - 1] = g[k - 1]
        <5>1. k - 1 \in 0..k /\ k - 1 # k  BY <1>3, <2>1
        <5> QED BY <3>2, <5>1
      <4> QED BY <1>6, <3>1, <3>2, <4>1
    <3>3. CASE c # k
      <4>1. c \in 0..(k - 1)  BY <1>3, <3>3
      <4>2. g[c] = IF c = 0 THEN none ELSE Next1(g[c - 1], c)  BY <2>4, <4>1
      <4>3. c # 0 => f[c - 1] = g[c - 1]
        <5>1. c # 0 => c - 1 \in 0..k /\ c - 1 # k  BY <1>3, <4>1
        <5> QED BY <5>1
      <4> QED BY <3>1, <3>3, <4>2, <4>3
    <3> QED BY <3>2, <3>3
  <2>6. f = [c \in 0..k |-> f[c]]  OBVIOUS
  <2> HIDE DEF f
  <2>7. Is(f, k)  BY <1>4, <2>5, <2>6
  <2> QED BY <1>3, <2>7
<1> QED BY <1>5, <1>6

\* s has the cells of r up to column n, and nothing else.
HasCells(s, r, n) ==
  /\ s \in Seq(CellToken) /\ Len(s) <= n
  /\ \A i \in 1..Len(s) : \E c \in 1..n : r[c] # Null /\ s[i] = Records!Cell(c, r[c])
  /\ \A c \in 1..n : r[c] # Null => \E i \in 1..Len(s) : s[i] = Records!Cell(c, r[c])

LEMMA OneMoreCell ==
  ASSUME NEW r \in Records!Record, NEW s, NEW n \in Nat, n + 1 <= Columns, HasCells(s, r, n)
  PROVE  HasCells(IF r[n + 1] = Null THEN s ELSE Append(s, Records!Cell(n + 1, r[n + 1])), r, n + 1)
<1> DEFINE k == n + 1
           x == Records!Cell(k, r[k])
           z == Append(s, x)
<1>1. /\ s \in Seq(CellToken) /\ Len(s) <= n /\ Len(s) \in Nat
      /\ \A i \in 1..Len(s) : \E c \in 1..n : r[c] # Null /\ s[i] = Records!Cell(c, r[c])
      /\ \A c \in 1..n : r[c] # Null => \E i \in 1..Len(s) : s[i] = Records!Cell(c, r[c])
  BY EmptyOrNot DEF HasCells
<1>2. k \in 1..Columns /\ k \in Nat /\ k = n + 1
  BY RecordConstants
<1> HIDE DEF k
<1>3. \A c : c \in 1..k <=> c \in 1..n \/ c = k
  BY <1>2
<1>4. CASE r[k] = Null
  <2>1. Len(s) <= k  BY <1>1, <1>2
  <2>2. HasCells(s, r, k)  BY <1>1, <1>3, <1>4, <2>1 DEF HasCells
  <2> QED BY <1>4, <2>2 DEF k
<1>5. CASE r[k] # Null
  <2>1. r[k] \in Value  BY <1>2, <1>5 DEF Records!Record
  <2>2. x \in CellToken  BY <1>2, <2>1 DEF Records!Cell, CellToken
  <2>3. /\ z \in Seq(CellToken) /\ Len(z) = Len(s) + 1
        /\ \A i \in 1..Len(s) : z[i] = s[i]
        /\ z[Len(s) + 1] = x
    <3> HIDE DEF x
    <3> QED BY <1>1, <2>2, Appended
  <2> HIDE DEF z
  <2>4. Len(z) <= k  BY <1>1, <1>2, <2>3
  <2>5. ASSUME NEW i \in 1..Len(z)
        PROVE  \E c \in 1..k : r[c] # Null /\ z[i] = Records!Cell(c, r[c])
    <3>1. CASE i = Len(s) + 1  BY <1>3, <1>5, <2>3, <3>1 DEF x
    <3>2. CASE i # Len(s) + 1
      <4>1. i \in 1..Len(s)  BY <1>1, <2>3, <3>2
      <4>2. PICK c \in 1..n : r[c] # Null /\ s[i] = Records!Cell(c, r[c])
        BY <1>1, <4>1
      <4>3. z[i] = s[i] /\ c \in 1..k  BY <1>3, <2>3, <4>1
      <4> QED BY <4>2, <4>3
    <3> QED BY <3>1, <3>2
  <2>6. ASSUME NEW c \in 1..k, r[c] # Null
        PROVE  \E i \in 1..Len(z) : z[i] = Records!Cell(c, r[c])
    <3>1. CASE c = k
      <4>1. Len(s) + 1 \in 1..Len(z)  BY <1>1, <2>3
      <4> QED BY <2>3, <3>1, <4>1 DEF x
    <3>2. CASE c # k
      <4>1. c \in 1..n  BY <1>3, <3>2
      <4>2. PICK i \in 1..Len(s) : s[i] = Records!Cell(c, r[c])
        BY <1>1, <2>6, <4>1
      <4>3. i \in 1..Len(z) /\ z[i] = s[i]  BY <1>1, <2>3
      <4> QED BY <4>2, <4>3
    <3> QED BY <3>1, <3>2
  <2>7. HasCells(z, r, k)  BY <2>3, <2>4, <2>5, <2>6 DEF HasCells
  <2> QED BY <1>5, <2>7 DEF k, z, x
<1> QED BY <1>4, <1>5

LEMMA CellsAre ==
  ASSUME NEW r \in Records!Record, NEW n \in 0..Columns
  PROVE  HasCells(Records!Cells(r, n), r, n)
<1> DEFINE f == CellsOf(r, n)
           T == {c \in Nat : c <= n /\ ~ HasCells(f[c], r, c)}
<1>1. n \in Nat /\ n <= Columns
  BY RecordConstants
<1>2. Records!Cells(r, n) = f[n]
  BY DEF Records!Cells, CellsOf, AreCells
<1>3. f = [c \in 0..n |-> IF c = 0 THEN <<>>
                          ELSE IF r[c] = Null THEN f[c - 1]
                          ELSE Append(f[c - 1], Records!Cell(c, r[c]))]
  <2>1. AreCells(f, r, n)  BY <1>1, CellsExist DEF CellsOf
  <2> QED BY <2>1 DEF AreCells
<1> HIDE DEF f
<1>4. T = {}
  <2>1. SUFFICES ASSUME T # {} PROVE FALSE  OBVIOUS
  <2>2. PICK c \in T : \A j \in T : c <= j
    <3>1. T \in SUBSET Nat  OBVIOUS
    <3> HIDE DEF T
    <3> QED BY <2>1, <3>1, Least
  <2>3. c \in Nat /\ c <= n /\ ~ HasCells(f[c], r, c)  BY <2>2
  <2>4. c \in 0..n  BY <2>3
  <2>5. f[c] = IF c = 0 THEN <<>>
               ELSE IF r[c] = Null THEN f[c - 1]
               ELSE Append(f[c - 1], Records!Cell(c, r[c]))
    BY <1>3, <2>4
  <2>6. CASE c = 0
    <3>1. f[c] = <<>>  BY <2>5, <2>6
    <3>2. HasCells(<<>>, r, 0)  BY DEF HasCells
    <3> QED BY <2>3, <2>6, <3>1, <3>2
  <2>7. CASE c # 0
    <3> DEFINE b == c - 1
    <3>0. Columns \in Nat  BY RecordConstants
    <3>1. b \in Nat /\ b <= n /\ ~ (c <= b) /\ c = b + 1 /\ b + 1 <= Columns
      BY ONLY <1>1, <2>3, <2>7, <3>0 DEF b
    <3> HIDE DEF b
    <3>2. HasCells(f[b], r, b)  BY <2>2, <3>1
    <3>3. HasCells(IF r[b + 1] = Null THEN f[b] ELSE Append(f[b], Records!Cell(b + 1, r[b + 1])), r, b + 1)
      BY <3>1, <3>2, OneMoreCell
    <3>4. f[c] = IF r[b + 1] = Null THEN f[b] ELSE Append(f[b], Records!Cell(b + 1, r[b + 1]))
      <4>1. c - 1 = b  BY DEF b
      <4> QED BY <2>5, <2>7, <3>1, <4>1
    <3> QED BY <2>3, <3>1, <3>3, <3>4
  <2> QED BY <2>6, <2>7
<1>5. n \notin T
  BY <1>4
<1> QED BY <1>1, <1>2, <1>5

LEMMA LastFound ==
  ASSUME NEW s, Len(s) \in Nat, NEW c, NEW was
  PROVE  IF \E i \in 1..Len(s) : s[i][2] = c
         THEN \E i \in 1..Len(s) : s[i][2] = c /\ Records!SetLast(s, c, was) = s[i][3]
         ELSE Records!SetLast(s, c, was) = was
<1> DEFINE I == {i \in 1..Len(s) : s[i][2] = c}
           last == CHOOSE i \in I : \A j \in I : j <= i
<1>1. Records!SetLast(s, c, was) = IF I = {} THEN was ELSE s[last][3]
  BY DEF Records!SetLast
<1>2. ASSUME I # {} PROVE \E m \in I : \A y \in I : y <= m
  <2> DEFINE l == Len(s)
             D == {l - i : i \in I}
  <2>1. D \in SUBSET Nat /\ D # {}  BY <1>2
  <2>2. PICK d \in D : \A y \in D : d <= y
    <3> HIDE DEF D
    <3> QED BY <2>1, Least
  <2>3. PICK m \in I : d = l - m  BY <2>2
  <2>4. ASSUME NEW y \in I PROVE y <= m
    <3>1. l - y \in D  OBVIOUS
    <3>2. d <= l - y  BY <2>2, <3>1
    <3>3. m \in Nat /\ y \in Nat  OBVIOUS
    <3> QED BY <2>3, <3>2, <3>3
  <2> QED BY <2>4
<1>3. I # {} => last \in I
  BY <1>2
<1>4. I # {} <=> \E i \in 1..Len(s) : s[i][2] = c
  OBVIOUS
<1>5. \A i : i \in I => i \in 1..Len(s) /\ s[i][2] = c
  OBVIOUS
<1> HIDE DEF I, last
<1> QED BY <1>1, <1>3, <1>4, <1>5

\* A record is what its cells say.
LEMMA FilledCells ==
  ASSUME NEW r \in Records!Record
  PROVE  Records!Filled(Records!Cells(r, Columns)) = r
<1> DEFINE s == Records!Cells(r, Columns)
           Found(c) == Records!SetLast(s, c, Null)
<1>1. Columns \in 0..Columns /\ Columns \in Nat
  BY RecordConstants
<1>2. HasCells(s, r, Columns)
  BY <1>1, CellsAre
<1>3. Len(s) \in Nat
  BY <1>2, EmptyOrNot DEF HasCells
<1> HIDE DEF s
<1>4. ASSUME NEW c \in 1..Columns PROVE Found(c) = r[c]
  <2>1. IF \E i \in 1..Len(s) : s[i][2] = c
        THEN \E i \in 1..Len(s) : s[i][2] = c /\ Found(c) = s[i][3]
        ELSE Found(c) = Null
    BY <1>3, LastFound
  <2> HIDE DEF Found
  <2>2. ASSUME NEW i \in 1..Len(s), s[i][2] = c PROVE r[c] # Null /\ s[i][3] = r[c]
    <3>1. PICK b \in 1..Columns : r[b] # Null /\ s[i] = <<"cell", b, r[b]>>
      BY <1>2 DEF HasCells, Records!Cell
    <3> QED BY <2>2, <3>1
  <2>3. ASSUME r[c] # Null PROVE \E i \in 1..Len(s) : s[i][2] = c
    <3>1. PICK i \in 1..Len(s) : s[i] = <<"cell", c, r[c]>>
      BY <1>2, <2>3 DEF HasCells, Records!Cell
    <3> QED BY <3>1
  <2> QED BY <2>1, <2>2, <2>3
<1>5. Records!Filled(s) = [c \in 1..Columns |-> Found(c)]
  BY DEF Records!Filled
<1> HIDE DEF Found
<1>6. r = [c \in 1..Columns |-> r[c]]
  BY DEF Records!Record
<1>7. [c \in 1..Columns |-> Found(c)] = [c \in 1..Columns |-> r[c]]
  BY <1>4
<1> QED BY <1>5, <1>6, <1>7 DEF s

RecordWriter ==
  [buffer : Seq(SentToken), hadError : BOOLEAN, renewed : BOOLEAN, broken : BOOLEAN,
   mTotalRecords : Nat, mCrcCrc : Seq(Seq(CellToken)),
   written : Seq(Records!Record), leftover : Seq(CellToken), torn : BOOLEAN]

WritesOK(w) ==
  /\ w \in RecordWriter /\ w.mTotalRecords = Len(w.written) /\ Len(w.mCrcCrc) = Len(w.written)
  /\ \A j \in 1..Len(w.written) : w.mCrcCrc[j] = Records!Cells(w.written[j], Columns)
  /\ Len(w.buffer) <= BufferSize /\ (w.hadError => w.broken)

\* Of what was sent, the beginning is on the wire, and the rest in the buffer
\* as long as the connection holds.
Flows(wi, w, s) ==
  /\ wi \in Seq(SentToken) /\ s \in Seq(SentToken)
  /\ Begins(wi, s) /\ (~ w.broken => s = wi \o w.buffer)

CellsAt(s, p, m) == \A j \in 1..m : s[p + j] \in CellToken

\* After p tokens and k records, the next record and its checksum.
RecordAt(s, S, w, p, k) ==
  /\ k + 1 <= Len(w.written)
  /\ \E m \in Nat :
       LET cells == Records!Cells(w.written[k + 1], Columns)
       IN  /\ p + m + 1 <= Len(s) /\ CellsAt(s, p, m)
           /\ s[p + m + 1] = <<"end", cells>> /\ <<p + m + 1, k + 1>> \in S
           /\ ~ w.torn => m = Len(cells) /\ \A j \in 1..m : s[p + j] = cells[j]

SumAt(s, t, w) == Len(s) = t /\ s[t] = <<"sum", w.mCrcCrc>>

\* What follows the records.
Ending(s, q, w) ==
  /\ s[q + 1] = <<"count", Len(w.written)>>
  /\ \/ SumAt(s, q + 2, w)
     \/ /\ Len(w.leftover) = 0
        /\ s[q + 2] = Records!Metrics /\ s[q + 3] = <<"metricsEnd", <<Records!Metrics>>>>
        /\ SumAt(s, q + 4, w)

\* After p tokens there is no whole record.
TailAt(s, w, p, k, done) ==
  /\ p <= Len(s) /\ \A j \in 1..Len(s) : p < j => s[j][1] # "end"
  /\ ~ w.broken => /\ k = Len(w.written) /\ CellsAt(s, p, Len(w.leftover))
                   /\ IF done THEN Ending(s, p + Len(w.leftover), w)
                      ELSE Len(s) = p + Len(w.leftover)

\* The places where records start, by the tokens and the records before them.
SentOK(s, S, w, done) ==
  /\ s \in Seq(SentToken) /\ S \in Places /\ <<0, 0>> \in S
  /\ \A p, k \in Nat : <<p, k>> \in S => RecordAt(s, S, w, p, k) \/ TailAt(s, w, p, k, done)
  /\ \A j \in 1..Len(s) : s[j][1] = "sum" => done /\ s[j] = <<"sum", w.mCrcCrc>>

\* More of what is sent after the same beginning.
LEMMA PrefixJoined ==
  ASSUME NEW S, NEW wi \in Seq(S), NEW x \in Seq(S), NEW y \in Seq(S), Begins(x, y)
  PROVE  Begins(wi \o x, wi \o y)
<1> DEFINE u == wi \o x
           v == wi \o y
<1>1. Len(wi) \in Nat /\ Len(x) \in Nat /\ Len(y) \in Nat
  BY EmptyOrNot
<1>2. /\ Len(u) = Len(wi) + Len(x) /\ \A i \in 1..Len(wi) : u[i] = wi[i]
      /\ \A i \in 1..Len(x) : u[Len(wi) + i] = x[i]
  BY Joined
<1>3. /\ Len(v) = Len(wi) + Len(y) /\ \A i \in 1..Len(wi) : v[i] = wi[i]
      /\ \A i \in 1..Len(y) : v[Len(wi) + i] = y[i]
  BY Joined
<1> HIDE DEF u, v
<1>4. Len(x) <= Len(y) /\ \A i \in 1..Len(x) : x[i] = y[i]
  BY DEF Begins
<1>5. ASSUME NEW i \in 1..Len(u) PROVE u[i] = v[i]
  <2>1. CASE i <= Len(wi)  BY <1>1, <1>2, <1>3, <2>1
  <2>2. CASE ~ (i <= Len(wi))
    <3> DEFINE j == i - Len(wi)
    <3>1. j \in 1..Len(x) /\ j \in 1..Len(y) /\ i = Len(wi) + j
      BY <1>1, <1>2, <1>4, <2>2
    <3> HIDE DEF j
    <3> QED BY <1>2, <1>3, <1>4, <3>1
  <2> QED BY <2>1, <2>2
<1>6. Len(u) <= Len(v)
  BY <1>1, <1>2, <1>3, <1>4
<1> QED BY <1>5, <1>6 DEF Begins, u, v

LEMMA BeginsItself ==
  ASSUME NEW S, NEW s \in Seq(S), NEW t \in Seq(S)
  PROVE  Begins(s, s) /\ Begins(s, s \o t)
<1>1. Len(s) \in Nat /\ Len(t) \in Nat
  BY EmptyOrNot
<1>2. Len(s \o t) = Len(s) + Len(t) /\ \A i \in 1..Len(s) : (s \o t)[i] = s[i]
  BY Joined
<1>3. Len(s) <= Len(s \o t)
  BY <1>1, <1>2
<1> QED BY <1>1, <1>2, <1>3 DEF Begins

\* What the HttpOutputStream does with a piece that is not longer than its buffer.
SameRecords(v, w) ==
  /\ v.mTotalRecords = w.mTotalRecords /\ v.mCrcCrc = w.mCrcCrc /\ v.written = w.written
  /\ v.leftover = w.leftover /\ v.torn = w.torn

LEMMA EmitOK ==
  ASSUME NEW w, WritesOK(w), NEW s, Flows(wire, w, s),
         NEW tokens \in Seq(SentToken), Len(tokens) <= BufferSize,
         Records!Emit(w, tokens)
  PROVE  /\ WritesOK(writer') /\ SameRecords(writer', w)
         /\ Flows(wire', writer', IF w.broken THEN s ELSE s \o tokens)
         /\ w.broken => writer'.broken
<1> DEFINE b == w.buffer
           room == BufferSize - Len(b)
           part == SubSeq(tokens, 1, room)
           full == b \o part
           rest == SubSeq(tokens, room + 1, Len(tokens))
           z == IF w.broken THEN s ELSE s \o tokens
           none == <<>>
<1>1. /\ w \in RecordWriter /\ b \in Seq(SentToken) /\ Len(b) <= BufferSize /\ Len(b) \in Nat
      /\ w.hadError => w.broken
      /\ BufferSize \in Nat /\ Len(tokens) \in Nat
  <2>1. w \in RecordWriter /\ b \in Seq(SentToken) /\ Len(b) <= BufferSize
        /\ (w.hadError => w.broken)
    BY DEF WritesOK, RecordWriter
  <2> QED BY <2>1, EmptyOrNot, RecordConstants
<1>2. wire \in Seq(SentToken) /\ s \in Seq(SentToken) /\ Begins(wire, s)
      /\ (~ w.broken => s = wire \o b)
  BY DEF Flows
<1>3. room \in Nat
  BY <1>1
<1>4. CASE w.hadError
  <2>1. writer' = w /\ wire' = wire  BY <1>4 DEF Records!Emit
  <2>2. w.broken  BY <1>1, <1>4
  <2> QED BY <2>1, <2>2 DEF SameRecords
<1>5. CASE ~ w.hadError
  <2>1. \/ /\ rest = none /\ writer' = [w EXCEPT !.buffer = @ \o tokens] /\ wire' = wire
        \/ /\ rest # none /\ ~ w.broken
           /\ writer' = [w EXCEPT !.buffer = rest] /\ wire' = wire \o full
        \/ /\ rest # none
           /\ writer' = [w EXCEPT !.buffer = full, !.hadError = TRUE, !.broken = TRUE]
           /\ \E n \in 0..(IF w.broken THEN 0 ELSE Len(full)) : wire' = wire \o SubSeq(full, 1, n)
    BY <1>5 DEF Records!Emit
  <2>2. rest = none <=> Len(tokens) <= room
    <3>1. CASE Len(tokens) <= room
      <4>1. ~ (room + 1 <= Len(tokens))  BY <1>1, <1>3, <3>1
      <4>2. \A i \in (room + 1)..Len(tokens) : tokens[i] \in SentToken
        BY <1>1, <1>3, <3>1
      <4>3. rest \in Seq(SentToken) /\ Len(rest) = 0
        <5> HIDE DEF room
        <5> QED BY <1>1, <1>3, <4>1, <4>2, SubSeqProperties
      <4> QED BY <3>1, <4>3, EmptyOrNot
    <3>2. CASE ~ (Len(tokens) <= room)
      <4>1. room <= Len(tokens)  BY <1>1, <1>3, <3>2
      <4>2. rest \in Seq(SentToken) /\ Len(rest) = Len(tokens) - room
        <5> HIDE DEF room
        <5> QED BY <1>3, <4>1, Cut
      <4>3. Len(rest) # 0  BY <1>1, <1>3, <3>2, <4>2
      <4> QED BY <3>2, <4>2, <4>3, EmptyOrNot
    <3> QED BY <3>1, <3>2
  <2>3. /\ b \o tokens \in Seq(SentToken) /\ Len(b \o tokens) = Len(b) + Len(tokens)
    BY <1>1, Joined
  <2>4. CASE rest = none
    <3> DEFINE more == b \o tokens
    <3>1. writer' = [w EXCEPT !.buffer = more] /\ wire' = wire
      BY <1>1, <2>1, <2>4
    <3>2. more \in Seq(SentToken) /\ Len(more) <= BufferSize
      <4> HIDE DEF rest, b
      <4>1. Len(tokens) <= room  BY <2>2, <2>4
      <4> QED BY ONLY <1>1, <2>3, <4>1 DEF room
    <3>3. ~ w.broken => s \o tokens = wire \o more
      <4>1. wire \in Seq(SentToken) /\ b \in Seq(SentToken) /\ tokens \in Seq(SentToken)
        BY <1>1, <1>2
      <4> HIDE DEF b
      <4>2. (wire \o b) \o tokens = wire \o (b \o tokens)
        BY ONLY <4>1, ConcatAssociative
      <4> QED BY <1>2, <4>2
    <3>4. Begins(wire, z) /\ z \in Seq(SentToken)
      <4>1. Begins(s, s \o tokens) /\ s \o tokens \in Seq(SentToken)
        BY <1>2, BeginsItself, Joined
      <4>2. Begins(wire, s \o tokens)  BY <1>2, <4>1, BeginsTransitive
      <4> QED BY <1>2, <4>1, <4>2
    <3> HIDE DEF more
    <3>5. /\ writer' \in RecordWriter /\ writer'.buffer = more /\ writer'.broken = w.broken
          /\ writer'.hadError = w.hadError /\ SameRecords(writer', w)
      BY <1>1, <3>1, <3>2 DEF RecordWriter, SameRecords
    <3>6. WritesOK(writer')  BY <1>1, <3>2, <3>5 DEF WritesOK, SameRecords
    <3>7. Flows(wire', writer', z)  BY <1>2, <3>1, <3>3, <3>4, <3>5 DEF Flows
    <3> QED BY <3>5, <3>6, <3>7
  <2>5. CASE rest # none
    <3>1. room <= Len(tokens)
      <4> HIDE DEF rest, room
      <4> QED BY ONLY <1>1, <1>3, <2>2, <2>5
    <3>2. /\ part \in Seq(SentToken) /\ Len(part) = room
          /\ rest \in Seq(SentToken) /\ Len(rest) = Len(tokens) - room
      <4> HIDE DEF room
      <4> QED BY <1>3, <3>1, Cut
    <3>3. full \in Seq(SentToken) /\ Len(full) = Len(b) + room
      <4>1. b \in Seq(SentToken) /\ part \in Seq(SentToken)  BY <1>1, <3>2
      <4>2. full \in Seq(SentToken) /\ Len(full) = Len(b) + Len(part)
        <5> HIDE DEF b, part
        <5> QED BY ONLY <4>1, Joined
      <4> QED BY <3>2, <4>2
    <3>4. Len(full) = BufferSize /\ Len(rest) <= BufferSize
      <4> HIDE DEF b, full, rest
      <4> QED BY ONLY <1>1, <1>3, <3>2, <3>3, Len(tokens) <= BufferSize DEF room
    <3>5. full \o rest = b \o tokens
      <4> HIDE DEF room
      <4> QED BY <1>1, <1>3, <3>1, Divided
    <3> HIDE DEF part, full, rest, b
    <3>6. /\ (wire \o full) \o rest = wire \o (full \o rest)
          /\ (wire \o b) \o tokens = wire \o (b \o tokens)
      <4>0. full \in Seq(SentToken) /\ rest \in Seq(SentToken) /\ wire \in Seq(SentToken)
        BY <1>2, <3>2, <3>3
      <4>1. wire \in Seq(SentToken) /\ b \in Seq(SentToken) /\ tokens \in Seq(SentToken)
        BY <1>1, <1>2
      <4>2. (wire \o full) \o rest = wire \o (full \o rest)
        BY ONLY <4>0, ConcatAssociative
      <4>3. (wire \o b) \o tokens = wire \o (b \o tokens)
        BY ONLY <4>1, ConcatAssociative
      <4> QED BY <4>2, <4>3
    <3>7. ~ w.broken => s \o tokens = (wire \o full) \o rest  BY <1>2, <3>5, <3>6
    <3>8. wire \o full \in Seq(SentToken) /\ s \o tokens \in Seq(SentToken)
      BY <1>2, <3>3, Joined
    <3>9. Begins(wire \o full, (wire \o full) \o rest)
      BY <3>2, <3>8, BeginsItself
    <3>10. CASE ~ w.broken /\ writer' = [w EXCEPT !.buffer = rest] /\ wire' = wire \o full
      <4>1. /\ writer' \in RecordWriter /\ writer'.buffer = rest /\ writer'.broken = w.broken
            /\ writer'.hadError = w.hadError /\ SameRecords(writer', w)
        BY <1>1, <3>2, <3>10 DEF RecordWriter, SameRecords
      <4>2. WritesOK(writer')  BY <1>1, <3>4, <4>1 DEF WritesOK, SameRecords
      <4>3. Flows(wire', writer', s \o tokens)
        BY <3>7, <3>8, <3>9, <3>10, <4>1 DEF Flows
      <4> QED BY <3>10, <4>1, <4>2, <4>3
    <3>11. CASE /\ writer' = [w EXCEPT !.buffer = full, !.hadError = TRUE, !.broken = TRUE]
                /\ \E n \in 0..(IF w.broken THEN 0 ELSE Len(full)) : wire' = wire \o SubSeq(full, 1, n)
      <4>1. /\ writer' \in RecordWriter /\ writer'.buffer = full /\ writer'.broken
            /\ SameRecords(writer', w)
        BY <1>1, <3>3, <3>11 DEF RecordWriter, SameRecords
      <4>2. WritesOK(writer')  BY <1>1, <3>4, <4>1 DEF WritesOK, SameRecords
      <4>3. PICK n \in 0..(IF w.broken THEN 0 ELSE Len(full)) : wire' = wire \o SubSeq(full, 1, n)
        BY <3>11
      <4>4. n \in Nat /\ n <= Len(full) /\ (w.broken => n = 0)
        BY <1>1, <3>4, <4>3
      <4> DEFINE head == SubSeq(full, 1, n)
      <4>5. /\ head \in Seq(SentToken) /\ Len(head) = n /\ \A i \in 1..n : head[i] = full[i]
        BY <3>3, <4>4, Cut
      <4> HIDE DEF head
      <4>6. wire' = wire \o head /\ wire' \in Seq(SentToken)
        <5>1. wire' = wire \o head  BY <4>3 DEF head
        <5> QED BY <1>2, <4>5, <5>1, Joined
      <4>7. CASE w.broken
        <5>1. head = <<>>  BY <4>4, <4>5, <4>7, EmptyOrNot
        <5>2. wire' = wire  BY <1>2, <4>6, <5>1, ConcatEmptySeq
        <5> QED BY <1>2, <4>1, <4>2, <4>7, <5>2 DEF Flows
      <4>8. CASE ~ w.broken
        <5>1. Begins(head, full)  BY <4>4, <4>5 DEF Begins
        <5>2. Begins(wire \o head, wire \o full)
          BY <1>2, <3>3, <4>5, <5>1, PrefixJoined
        <5>3. Begins(wire', s \o tokens)
          BY <3>7, <3>8, <3>9, <4>6, <4>8, <5>2, BeginsTransitive
        <5>4. Flows(wire', writer', s \o tokens)
          BY <3>8, <4>1, <4>6, <5>3 DEF Flows
        <5> QED BY <4>1, <4>2, <4>8, <5>4
      <4> QED BY <4>7, <4>8
    <3> QED BY <2>1, <2>5, <3>10, <3>11 DEF rest, full, part
  <2> QED BY <2>4, <2>5
<1> QED BY <1>4, <1>5

\* A record that was sent is there when more is.
LEMMA RecordStays ==
  ASSUME NEW s \in Seq(SentToken), NEW z \in Seq(SentToken), Begins(s, z),
         NEW w \in RecordWriter, NEW v \in RecordWriter, Begins(w.written, v.written),
         w.torn => v.torn,
         NEW S, NEW R, S \subseteq R, NEW p \in Nat, NEW k \in Nat, RecordAt(s, S, w, p, k)
  PROVE  RecordAt(z, R, v, p, k)
<1> DEFINE cells == Records!Cells(w.written[k + 1], Columns)
<1>1. /\ Len(s) \in Nat /\ Len(z) \in Nat /\ Len(s) <= Len(z)
      /\ \A i \in 1..Len(s) : s[i] = z[i]
  BY EmptyOrNot DEF Begins
<1>2. /\ w.written \in Seq(Records!Record) /\ v.written \in Seq(Records!Record)
  BY DEF RecordWriter
<1>3. /\ Len(w.written) \in Nat /\ Len(v.written) \in Nat /\ Len(w.written) <= Len(v.written)
      /\ \A i \in 1..Len(w.written) : w.written[i] = v.written[i]
  BY <1>2, EmptyOrNot DEF Begins
<1>4. /\ k + 1 <= Len(w.written)
      /\ \E m \in Nat :
           /\ p + m + 1 <= Len(s) /\ CellsAt(s, p, m)
           /\ s[p + m + 1] = <<"end", cells>> /\ <<p + m + 1, k + 1>> \in S
           /\ ~ w.torn => m = Len(cells) /\ \A j \in 1..m : s[p + j] = cells[j]
  BY DEF RecordAt
<1>5. k + 1 <= Len(v.written) /\ w.written[k + 1] = v.written[k + 1]
  <2>1. k + 1 <= Len(w.written)  BY <1>4
  <2>2. k + 1 \in 1..Len(w.written)  BY <1>3, <2>1
  <2> QED BY <1>3, <2>1, <2>2
<1> HIDE DEF cells
<1>6. PICK m \in Nat :
        /\ p + m + 1 <= Len(s) /\ CellsAt(s, p, m)
        /\ s[p + m + 1] = <<"end", cells>> /\ <<p + m + 1, k + 1>> \in S
        /\ ~ w.torn => m = Len(cells) /\ \A j \in 1..m : s[p + j] = cells[j]
  BY <1>4
<1>7. \A j \in 1..m : s[p + j] = z[p + j]
  BY <1>1, <1>6
<1>8. z[p + m + 1] = <<"end", cells>> /\ p + m + 1 <= Len(z)
  BY <1>1, <1>6
<1>9. CellsAt(z, p, m)
  BY <1>6, <1>7 DEF CellsAt
<1>10. ~ v.torn => m = Len(cells) /\ \A j \in 1..m : z[p + j] = cells[j]
  BY <1>6, <1>7
<1>11. <<p + m + 1, k + 1>> \in R
  BY <1>6
<1>12. cells = Records!Cells(v.written[k + 1], Columns)
  BY <1>5 DEF cells
<1> QED BY <1>5, <1>8, <1>9, <1>10, <1>11, <1>12 DEF RecordAt

\* Once the connection is broken nothing more is sent.
LEMMA SentBroken ==
  ASSUME NEW w \in RecordWriter, NEW v \in RecordWriter, Begins(w.written, v.written),
         w.torn => v.torn, v.broken, NEW s, NEW S, SentOK(s, S, w, FALSE),
         NEW done \in BOOLEAN
  PROVE  SentOK(s, S, v, done)
<1>1. /\ s \in Seq(SentToken) /\ S \in Places /\ <<0, 0>> \in S
      /\ \A p, k \in Nat : <<p, k>> \in S => RecordAt(s, S, w, p, k) \/ TailAt(s, w, p, k, FALSE)
      /\ \A j \in 1..Len(s) : s[j][1] # "sum"
  BY DEF SentOK
<1>2. Begins(s, s)
  BY <1>1, BeginsItself
<1>3. ASSUME NEW p \in Nat, NEW k \in Nat, <<p, k>> \in S
      PROVE  RecordAt(s, S, v, p, k) \/ TailAt(s, v, p, k, done)
  <2>1. CASE RecordAt(s, S, w, p, k)
    <3>1. RecordAt(s, S, v, p, k)  BY <1>1, <1>2, <2>1, RecordStays
    <3> QED BY <3>1
  <2>2. CASE TailAt(s, w, p, k, FALSE)  BY <2>2 DEF TailAt
  <2> QED BY <1>1, <1>3, <2>1, <2>2
<1> QED BY <1>1, <1>3 DEF SentOK

\* More than what was sent, with a new place at the end or none.
LEMMA SentGrows ==
  ASSUME NEW w \in RecordWriter, NEW v \in RecordWriter, Begins(w.written, v.written),
         w.torn => v.torn, NEW s, NEW S, SentOK(s, S, w, FALSE), ~ w.broken,
         NEW x \in Seq(SentToken), NEW R \in Places, S \subseteq R, NEW done \in BOOLEAN,
         \A p, k \in Nat : <<p, k>> \in R /\ <<p, k>> \notin S => TailAt(s \o x, v, p, k, done),
         \A p, k \in Nat :
           k = Len(w.written) /\ CellsAt(s, p, Len(w.leftover)) /\ Len(s) = p + Len(w.leftover)
             => RecordAt(s \o x, R, v, p, k) \/ TailAt(s \o x, v, p, k, done),
         \A j \in 1..Len(x) : x[j][1] = "sum" => done /\ x[j] = <<"sum", v.mCrcCrc>>
  PROVE  SentOK(s \o x, R, v, done)
<1> DEFINE z == s \o x
<1>1. /\ s \in Seq(SentToken) /\ S \in Places /\ <<0, 0>> \in S
      /\ \A p, k \in Nat : <<p, k>> \in S => RecordAt(s, S, w, p, k) \/ TailAt(s, w, p, k, FALSE)
      /\ \A j \in 1..Len(s) : s[j][1] # "sum"
  BY DEF SentOK
<1>2. /\ z \in Seq(SentToken) /\ Len(z) = Len(s) + Len(x)
      /\ \A j \in 1..Len(s) : z[j] = s[j]
      /\ \A j \in 1..Len(x) : z[Len(s) + j] = x[j]
  <2>1. s \in Seq(SentToken) /\ x \in Seq(SentToken)  BY <1>1
  <2> QED BY ONLY <2>1, Joined
<1>3. Len(s) \in Nat /\ Len(x) \in Nat
  BY <1>1, EmptyOrNot
<1>4. Begins(s, z)
  BY <1>1, BeginsItself
<1>5. /\ \A p, k \in Nat : <<p, k>> \in R /\ <<p, k>> \notin S => TailAt(z, v, p, k, done)
      /\ \A p, k \in Nat :
           k = Len(w.written) /\ CellsAt(s, p, Len(w.leftover)) /\ Len(s) = p + Len(w.leftover)
             => RecordAt(z, R, v, p, k) \/ TailAt(z, v, p, k, done)
  OBVIOUS
<1> HIDE DEF z
<1>6. ASSUME NEW p \in Nat, NEW k \in Nat, <<p, k>> \in R
      PROVE  RecordAt(z, R, v, p, k) \/ TailAt(z, v, p, k, done)
  <2>1. CASE <<p, k>> \notin S  BY <1>5, <1>6, <2>1
  <2>2. CASE <<p, k>> \in S /\ RecordAt(s, S, w, p, k)
    <3>1. RecordAt(z, R, v, p, k)  BY <1>1, <1>2, <1>4, <2>2, RecordStays
    <3> QED BY <3>1
  <2>3. CASE <<p, k>> \in S /\ TailAt(s, w, p, k, FALSE)
    <3>1. k = Len(w.written) /\ CellsAt(s, p, Len(w.leftover)) /\ Len(s) = p + Len(w.leftover)
      BY <2>3 DEF TailAt
    <3> QED BY <1>5, <3>1
  <2> QED BY <1>1, <2>1, <2>2, <2>3
<1>7. ASSUME NEW j \in 1..Len(z), z[j][1] = "sum"
      PROVE  done /\ z[j] = <<"sum", v.mCrcCrc>>
  <2>1. CASE j <= Len(s)  BY <1>1, <1>2, <1>3, <1>7, <2>1
  <2>2. CASE ~ (j <= Len(s))
    <3> DEFINE i == j - Len(s)
    <3>1. i \in 1..Len(x) /\ j = Len(s) + i  BY <1>2, <1>3, <2>2
    <3> HIDE DEF i
    <3>2. x[i][1] = "sum"  BY <1>2, <1>7, <3>1
    <3> QED BY <1>2, <3>1, <3>2
  <2> QED BY <2>1, <2>2
<1>8. <<0, 0>> \in R
  BY <1>1
<1>9. SentOK(z, R, v, done)
  BY <1>2, <1>6, <1>7, <1>8 DEF SentOK
<1> QED BY <1>9 DEF z

\* What is known of what was sent is about the records only.
LEMMA SentSame ==
  ASSUME NEW w, NEW v, SameRecords(v, w), w.broken => v.broken,
         NEW s, NEW S, NEW done \in BOOLEAN, SentOK(s, S, w, done)
  PROVE  SentOK(s, S, v, done)
<1>1. /\ v.mCrcCrc = w.mCrcCrc /\ v.written = w.written
      /\ v.leftover = w.leftover /\ v.torn = w.torn
  BY DEF SameRecords
<1>2. ASSUME NEW p \in Nat, NEW k \in Nat, RecordAt(s, S, w, p, k) PROVE RecordAt(s, S, v, p, k)
  BY <1>1, <1>2 DEF RecordAt
<1>3. \A q : Ending(s, q, w) => Ending(s, q, v)
  BY <1>1 DEF Ending, SumAt
<1>4. ASSUME NEW p \in Nat, NEW k \in Nat, TailAt(s, w, p, k, done) PROVE TailAt(s, v, p, k, done)
  BY <1>1, <1>3, <1>4 DEF TailAt
<1>5. /\ s \in Seq(SentToken) /\ S \in Places /\ <<0, 0>> \in S
      /\ \A p, k \in Nat : <<p, k>> \in S => RecordAt(s, S, w, p, k) \/ TailAt(s, w, p, k, done)
      /\ \A j \in 1..Len(s) : s[j][1] = "sum" => done /\ s[j] = <<"sum", v.mCrcCrc>>
  BY <1>1 DEF SentOK
<1> QED BY <1>2, <1>4, <1>5 DEF SentOK

RecordReader ==
  [mRecordCrc : Seq(Token), mCrcCrc : Seq(Seq(Token)), mTotalRecords : Nat,
   mGotTotalRecords : BOOLEAN, mGotMetrics : BOOLEAN]

RecordTypeOK ==
  /\ wire \in Seq(Token) /\ damaged \in BOOLEAN
  /\ phase \in {"writing", "completed", "closed", "reading", "returned", "threw"}
  /\ reader \in RecordReader /\ got \in Seq(Records!Record)
  /\ result \in {"none", "reading", "record", "end", "exception"}

\* Nothing was read.
Unread ==
  /\ reader = [mRecordCrc |-> <<>>, mCrcCrc |-> <<>>, mTotalRecords |-> 0,
               mGotTotalRecords |-> FALSE, mGotMetrics |-> FALSE]
  /\ got = <<>> /\ result = "none"

Sent(w, wi, ph) ==
  \E s \in Seq(SentToken), S \in Places :
    /\ SentOK(s, S, w, ph # "writing")
    /\ IF ph = "closed" THEN wi \in Seq(SentToken) /\ Begins(wi, s) /\ (~ w.broken => s = wi)
       ELSE Flows(wi, w, s)

\* What arrived may have been cut, and one token changed.
Altered(a, s) ==
  /\ a \in Seq(Token) /\ Len(a) <= Len(s)
  /\ \E i \in Nat : \A j \in 1..Len(a) : a[j] = s[j] \/ (j = i /\ a[j] \in Records!Changed(s[j]))

\* The reader is within a record, or has the cells of the next that it read.
Within(a, t, S, r, k) ==
  \E p \in Nat :
    /\ p <= t /\ <<p, k>> \in S /\ Len(r.mRecordCrc) = t - p
    /\ \A j \in 1..(t - p) : r.mRecordCrc[j] = a[p + j] /\ a[p + j][1] = "cell"

\* What is left of the ending of an undamaged transfer.
Left(s, t, w, r) ==
  \/ SumAt(s, t + 1, w)
  \/ /\ s[t + 1] = <<"metricsEnd", <<Records!Metrics>>>> /\ SumAt(s, t + 2, w)
     /\ r.mGotMetrics /\ r.mRecordCrc = <<Records!Metrics>>
  \/ /\ s[t + 1] = Records!Metrics /\ s[t + 2] = <<"metricsEnd", <<Records!Metrics>>>>
     /\ SumAt(s, t + 3, w) /\ ~ r.mGotMetrics /\ Len(r.mRecordCrc) = 0

\* The reader goes on, or may.
Continues(res) == res \in {"none", "reading", "record"}

Counted(w, r, g) ==
  /\ Begins(g, w.written) /\ r.mTotalRecords = Len(g) /\ Len(r.mCrcCrc) = Len(g)
  /\ \A j \in 1..Len(g) : r.mCrcCrc[j] = Records!Cells(g[j], Columns)
  /\ r.mGotMetrics => r.mGotTotalRecords

\* Where the reader is, after t tokens of what arrived.
ReadsAt(w, s, S, a, t, r, g, res, dam) ==
  /\ Continues(res) /\ ~ r.mGotTotalRecords => Within(a, t, S, r, Len(g))
  /\ ~ dam => /\ a = s /\ ~ w.torn /\ ~ w.broken /\ res # "exception"
              /\ Continues(res) /\ r.mGotTotalRecords => Len(g) = Len(w.written) /\ Left(s, t, w, r)

Follows(w, s, S, a, t, r, g, res, dam) ==
  /\ SentOK(s, S, w, TRUE) /\ Altered(a, s)
  /\ Counted(w, r, g) /\ (res = "end" => Len(g) = Len(w.written))
  /\ ReadsAt(w, s, S, a, t, r, g, res, dam)

RecordReads(w, wi, r, g, res, dam) ==
  \E s \in Seq(SentToken), S \in Places, a \in Seq(Token), t \in Nat :
    IsRest(wi, a, t) /\ Follows(w, s, S, a, t, r, g, res, dam)

RecordsInv ==
  /\ RecordTypeOK /\ WritesOK(writer)
  /\ IF phase \in {"writing", "completed", "closed"} THEN Unread /\ Sent(writer, wire, phase)
     ELSE /\ RecordReads(writer, wire, reader, got, result, damaged)
          /\ phase = "returned" => result = "end"

\* The tokens of a record, or of the beginning of one.
LEMMA RecordTokens ==
  ASSUME NEW r \in Records!Record, NEW n \in 0..Columns
  PROVE  /\ Records!Cells(r, n) \in Seq(CellToken) /\ Records!Cells(r, n) \in Seq(SentToken)
         /\ Len(Records!Cells(r, n)) \in Nat /\ Len(Records!Cells(r, n)) <= n
<1> DEFINE cells == Records!Cells(r, n)
<1>1. HasCells(cells, r, n)
  BY CellsAre
<1> HIDE DEF cells
<1>2. cells \in Seq(CellToken) /\ Len(cells) <= n
  BY <1>1 DEF HasCells
<1>3. CellToken \subseteq SentToken
  BY DEF SentToken
<1>4. cells \in Seq(SentToken) /\ Len(cells) \in Nat
  BY <1>2, <1>3, SeqMonotonic, EmptyOrNot
<1> QED BY <1>2, <1>4 DEF cells

\* A stream that is used again has an error no more; the connection is as broken.
LEMMA UsableOK ==
  ASSUME NEW w, WritesOK(w), NEW s, Flows(wire, w, s), NEW S, SentOK(s, S, w, FALSE),
         NEW u \in Records!Usable(w)
  PROVE  /\ WritesOK(u) /\ Flows(wire, u, s) /\ SentOK(s, S, u, FALSE) /\ SameRecords(u, w)
         /\ u.broken = w.broken
<1>1. w \in RecordWriter
  BY DEF WritesOK
<1>2. u = w \/ u = [w EXCEPT !.hadError = FALSE, !.renewed = TRUE]
  BY DEF Records!Usable
<1>3. /\ u \in RecordWriter /\ SameRecords(u, w) /\ u.broken = w.broken /\ u.buffer = w.buffer
      /\ u.hadError => w.hadError
  BY <1>1, <1>2 DEF RecordWriter, SameRecords
<1>4. WritesOK(u)
  BY <1>3 DEF WritesOK, SameRecords
<1>5. Flows(wire, u, s)
  BY <1>3 DEF Flows
<1>6. SentOK(s, S, u, FALSE)
  BY <1>3, SentSame
<1> QED BY <1>3, <1>4, <1>5, <1>6

\* The steps of the writer leave the reader alone.
LEMMA WriterSteps ==
  ASSUME RecordsInv, phase \in {"writing", "completed"}, UNCHANGED <<damaged, reader, got, result>>,
         phase' \in {"writing", "completed", "closed"}, WritesOK(writer'),
         NEW s \in Seq(SentToken), NEW S \in Places, SentOK(s, S, writer', phase' # "writing"),
         IF phase' = "closed"
         THEN wire' \in Seq(SentToken) /\ Begins(wire', s) /\ (~ writer'.broken => s = wire')
         ELSE Flows(wire', writer', s)
  PROVE  RecordsInv'
<1>1. RecordTypeOK /\ Unread
  BY DEF RecordsInv
<1>2. wire' \in Seq(Token)
  <2>1. wire' \in Seq(SentToken)  BY DEF Flows
  <2>2. SentToken \subseteq Token  BY DEF Token
  <2> QED BY <2>1, <2>2, SeqMonotonic
<1>3. RecordTypeOK'
  BY <1>1, <1>2 DEF RecordTypeOK
<1>4. Unread'
  BY <1>1 DEF Unread
<1>5. Sent(writer', wire', phase')
  BY DEF Sent
<1> QED BY <1>3, <1>4, <1>5 DEF RecordsInv

\* A record is sent as it is written.
LEMMA SerializeOK ==
  ASSUME RecordsInv, NEW r \in Records!Record, Records!Serialize(r)
  PROVE  RecordsInv'
<1> DEFINE cells == Records!Cells(r, Columns)
           last == <<"end", cells>>
           tokens == Append(cells, last)
           n == Len(cells)
<1>1. /\ phase = "writing" /\ phase' = "writing" /\ UNCHANGED <<damaged, reader, got, result>>
  BY DEF Records!Serialize, Records!readVars
<1>2. /\ WritesOK(writer) /\ Sent(writer, wire, "writing")
  BY <1>1 DEF RecordsInv
<1>3. PICK s \in Seq(SentToken), S \in Places : SentOK(s, S, writer, FALSE) /\ Flows(wire, writer, s)
  BY <1>2 DEF Sent
<1>4. PICK u \in Records!Usable(writer) :
        Records!Emit([u EXCEPT !.mTotalRecords = @ + 1, !.mCrcCrc = Append(@, cells),
                               !.written = Append(@, r),
                               !.torn = @ \/ u.leftover # <<>>, !.leftover = <<>>],
                     tokens)
  BY DEF Records!Serialize
<1>5. /\ WritesOK(u) /\ Flows(wire, u, s) /\ SentOK(s, S, u, FALSE)
  BY <1>2, <1>3, UsableOK
<1> DEFINE w == [u EXCEPT !.mTotalRecords = @ + 1, !.mCrcCrc = Append(@, cells),
                          !.written = Append(@, r),
                          !.torn = @ \/ u.leftover # <<>>, !.leftover = <<>>]
           m == Len(u.leftover)
           k == Len(u.written)
<1>6. /\ cells \in Seq(CellToken) /\ cells \in Seq(SentToken) /\ n \in Nat /\ n <= Columns
  <2>1. Columns \in 0..Columns  BY RecordConstants
  <2> HIDE DEF n
  <2> QED BY <2>1, RecordTokens DEF n
<1>7. Records!Emit(w, tokens)
  BY <1>4
<1> HIDE DEF cells
<1>8. last \in SentToken /\ last[1] = "end"
  BY <1>6 DEF SentToken
<1>9. /\ tokens \in Seq(SentToken) /\ Len(tokens) = n + 1
      /\ \A i \in 1..n : tokens[i] = cells[i]
      /\ tokens[n + 1] = last
  <2> HIDE DEF last
  <2> QED BY <1>6, <1>8, Appended
<1>10. Len(tokens) <= BufferSize
  BY <1>6, <1>9, RecordConstants
<1>11. /\ u \in RecordWriter /\ u.written \in Seq(Records!Record) /\ u.mCrcCrc \in Seq(Seq(CellToken))
       /\ u.leftover \in Seq(CellToken) /\ k \in Nat /\ m \in Nat
       /\ u.mTotalRecords = k /\ Len(u.mCrcCrc) = k
       /\ \A j \in 1..k : u.mCrcCrc[j] = Records!Cells(u.written[j], Columns)
       /\ Len(u.buffer) <= BufferSize /\ (u.hadError => u.broken)
  <2>1. /\ u \in RecordWriter /\ u.mTotalRecords = k /\ Len(u.mCrcCrc) = k
        /\ \A j \in 1..k : u.mCrcCrc[j] = Records!Cells(u.written[j], Columns)
        /\ Len(u.buffer) <= BufferSize /\ (u.hadError => u.broken)
    BY <1>5 DEF WritesOK
  <2>2. /\ u.written \in Seq(Records!Record) /\ u.mCrcCrc \in Seq(Seq(CellToken))
        /\ u.leftover \in Seq(CellToken)
    BY <2>1 DEF RecordWriter
  <2> QED BY <2>1, <2>2, EmptyOrNot
<1> DEFINE d == Append(u.written, r)
           c == Append(u.mCrcCrc, cells)
           none == <<>>
           torn == u.torn \/ u.leftover # none
<1>12. /\ d \in Seq(Records!Record) /\ Len(d) = k + 1
       /\ \A i \in 1..k : d[i] = u.written[i]
       /\ d[k + 1] = r
  BY <1>11, Appended
<1>13. /\ c \in Seq(Seq(CellToken)) /\ Len(c) = k + 1
       /\ \A i \in 1..k : c[i] = u.mCrcCrc[i]
       /\ c[k + 1] = cells
  <2>1. u.mCrcCrc \in Seq(Seq(CellToken)) /\ cells \in Seq(CellToken)
    BY <1>6, <1>11
  <2>2. /\ c \in Seq(Seq(CellToken)) /\ Len(c) = Len(u.mCrcCrc) + 1
        /\ \A i \in 1..Len(u.mCrcCrc) : c[i] = u.mCrcCrc[i]
        /\ c[Len(u.mCrcCrc) + 1] = cells
    BY ONLY <2>1, Appended
  <2>3. Len(u.mCrcCrc) = k  BY <1>11
  <2> HIDE DEF c, k
  <2> QED BY <2>2, <2>3
<1>14. /\ w = [u EXCEPT !.mTotalRecords = k + 1, !.mCrcCrc = c, !.written = d,
                        !.torn = torn, !.leftover = none]
       /\ none \in Seq(CellToken) /\ Len(none) = 0 /\ torn \in BOOLEAN
  BY <1>11 DEF RecordWriter
<1>15. u.torn => torn
  OBVIOUS
<1>16. ~ torn => m = 0 /\ ~ u.torn
  BY <1>11
<1> HIDE DEF w, c, d, none, torn, tokens, last, n, m, k
<1>17. /\ w \in RecordWriter /\ w.mTotalRecords = k + 1 /\ w.mCrcCrc = c /\ w.written = d
       /\ w.torn = torn /\ w.leftover = none /\ w.broken = u.broken /\ w.hadError = u.hadError
       /\ w.buffer = u.buffer
  <2>1. /\ u.buffer \in Seq(SentToken) /\ u.hadError \in BOOLEAN /\ u.renewed \in BOOLEAN
        /\ u.broken \in BOOLEAN /\ k + 1 \in Nat
    BY <1>11 DEF RecordWriter
  <2>2. w = [buffer |-> u.buffer, hadError |-> u.hadError, renewed |-> u.renewed,
             broken |-> u.broken, mTotalRecords |-> k + 1, mCrcCrc |-> c, written |-> d,
             leftover |-> none, torn |-> torn]
    BY <1>11, <1>14 DEF RecordWriter
  <2> QED BY <1>12, <1>13, <1>14, <2>1, <2>2 DEF RecordWriter
<1>18. WritesOK(w)
  <2>1. ASSUME NEW j \in 1..(k + 1) PROVE c[j] = Records!Cells(d[j], Columns)
    <3>1. CASE j = k + 1  BY <1>12, <1>13, <3>1 DEF cells
    <3>2. CASE j # k + 1
      <4>1. j \in 1..k  BY <1>11, <3>2
      <4> QED BY <1>11, <1>12, <1>13, <4>1
    <3> QED BY <3>1, <3>2
  <2> QED BY <1>11, <1>12, <1>13, <1>17, <2>1 DEF WritesOK
<1>19. Flows(wire, w, s)
  BY <1>5, <1>17 DEF Flows
<1>20. /\ WritesOK(writer') /\ SameRecords(writer', w)
       /\ Flows(wire', writer', IF u.broken THEN s ELSE s \o tokens)
       /\ u.broken => writer'.broken
  BY <1>7, <1>9, <1>10, <1>17, <1>18, <1>19, EmitOK
<1>21. Begins(u.written, w.written)
  <2>1. k = Len(u.written)  BY DEF k
  <2> QED BY <1>11, <1>12, <1>17, <2>1 DEF Begins
<1>22. CASE u.broken
  <2>1. SentOK(s, S, w, FALSE)
    BY <1>5, <1>11, <1>15, <1>17, <1>21, <1>22, SentBroken
  <2>2. SentOK(s, S, writer', FALSE)  BY <1>17, <1>20, <2>1, SentSame
  <2> QED BY <1>1, <1>20, <1>22, <2>2, WriterSteps
<1>23. CASE ~ u.broken
  <2> DEFINE z == s \o tokens
             R == S \cup {<<Len(z), k + 1>>}
  <2>1. /\ z \in Seq(SentToken) /\ Len(z) = Len(s) + (n + 1) /\ Len(s) \in Nat
        /\ \A i \in 1..Len(s) : z[i] = s[i]
        /\ \A i \in 1..(n + 1) : z[Len(s) + i] = tokens[i]
    <3>1. s \in Seq(SentToken) /\ tokens \in Seq(SentToken)  BY <1>9
    <3>2. /\ z \in Seq(SentToken) /\ Len(z) = Len(s) + Len(tokens)
          /\ \A i \in 1..Len(s) : z[i] = s[i]
          /\ \A i \in 1..Len(tokens) : z[Len(s) + i] = tokens[i]
      BY ONLY <3>1, Joined
    <3>3. Len(s) \in Nat  BY EmptyOrNot
    <3> HIDE DEF z
    <3> QED BY <1>9, <3>2, <3>3
  <2>2. R \in Places /\ S \subseteq R  BY <1>6, <1>11, <2>1 DEF Places
  <2>3. <<Len(z), k + 1>> \in R  OBVIOUS
  <2>4. \A p, i \in Nat : <<p, i>> \in R /\ <<p, i>> \notin S => p = Len(z) /\ i = k + 1
    OBVIOUS
  <2> HIDE DEF R
  <2>5. TailAt(z, w, Len(z), k + 1, FALSE)
    <3>1. Len(w.leftover) = 0  BY <1>14, <1>17
    <3>2. CellsAt(z, Len(z), 0)  BY DEF CellsAt
    <3>3. Len(w.written) = k + 1  BY <1>12, <1>17
    <3>4. Len(z) \in Nat  BY <1>6, <2>1
    <3> HIDE DEF z
    <3>5. \A j \in 1..Len(z) : ~ (Len(z) < j)  BY <3>4
    <3>6. Len(z) = Len(z) + 0 /\ Len(z) <= Len(z)  BY <3>4
    <3> QED BY <3>1, <3>2, <3>3, <3>5, <3>6 DEF TailAt
  <2>6. ASSUME NEW p \in Nat, NEW i \in Nat, i = Len(u.written),
               CellsAt(s, p, Len(u.leftover)), Len(s) = p + Len(u.leftover)
        PROVE  RecordAt(z, R, w, p, i)
    <3>1. i = k /\ CellsAt(s, p, m) /\ Len(s) = p + m  BY <2>6 DEF k, m
    <3> HIDE DEF z
    <3>2. ASSUME NEW j \in 1..(m + n)
          PROVE  /\ z[p + j] \in CellToken
                 /\ ~ torn => z[p + j] = cells[j]
      <4>1. CASE j <= m
        <5>1. p + j \in 1..Len(s) /\ j \in 1..m  BY <1>6, <1>11, <3>1, <4>1
        <5>2. z[p + j] \in CellToken  BY <2>1, <3>1, <5>1 DEF CellsAt
        <5>3. m # 0  BY <1>11, <4>1
        <5> QED BY <1>16, <5>2, <5>3
      <4>2. CASE ~ (j <= m)
        <5> DEFINE l == j - m
        <5>1. l \in 1..n /\ l \in 1..(n + 1) /\ p + j = Len(s) + l
          BY <1>6, <1>11, <3>1, <4>2
        <5>2. ~ torn => l = j  BY <1>11, <1>16
        <5> HIDE DEF l
        <5>3. z[p + j] = cells[l]  BY <1>9, <2>1, <5>1
        <5>4. cells[l] \in CellToken  BY <1>6, <5>1, ElementOfSeq DEF n
        <5> QED BY <5>2, <5>3, <5>4
      <4> QED BY <4>1, <4>2
    <3>3. p + (m + n) + 1 = Len(z) /\ Len(z) = Len(s) + (n + 1) /\ n + 1 \in 1..(n + 1)
      BY <1>6, <1>11, <2>1, <3>1
    <3>4. z[p + (m + n) + 1] = <<"end", cells>>  BY <1>9, <2>1, <3>3 DEF last
    <3>5. CellsAt(z, p, m + n)  BY <3>2 DEF CellsAt
    <3>6. <<p + (m + n) + 1, i + 1>> \in R  BY <2>3, <3>1, <3>3
    <3>7. ~ torn => m + n = Len(cells) /\ \A j \in 1..(m + n) : z[p + j] = cells[j]
      <4>1. ~ torn => m + n = n  BY <1>6, <1>16
      <4> QED BY <3>2, <4>1 DEF n
    <3>8. Records!Cells(w.written[i + 1], Columns) = cells /\ i + 1 <= Len(w.written)
      BY <1>11, <1>12, <1>17, <3>1 DEF cells
    <3>9. p + (m + n) + 1 <= Len(z) /\ m + n \in Nat  BY <1>6, <1>11, <2>1, <3>3
    <3> QED BY <1>17, <3>4, <3>5, <3>6, <3>7, <3>8, <3>9 DEF RecordAt
  <2>7. \A j \in 1..Len(tokens) : tokens[j][1] # "sum"
    <3>1. ASSUME NEW j \in 1..(n + 1) PROVE tokens[j][1] # "sum"
      <4>1. CASE j = n + 1  BY <1>8, <1>9, <4>1
      <4>2. CASE j # n + 1
        <5>1. j \in 1..n  BY <1>6, <4>2
        <5>2. cells[j] \in CellToken  BY <1>6, <5>1, ElementOfSeq DEF n
        <5>3. tokens[j][1] = "cell"  BY <1>9, <5>1, <5>2 DEF CellToken
        <5> QED BY <5>3
      <4> QED BY <4>1, <4>2
    <3> QED BY <1>9, <3>1
  <2>8. \A p, i \in Nat : <<p, i>> \in R /\ <<p, i>> \notin S => TailAt(z, w, p, i, FALSE)
    BY <2>4, <2>5
  <2>9. SentOK(z, R, w, FALSE)
    BY <1>5, <1>9, <1>11, <1>15, <1>17, <1>21, <1>23, <2>2, <2>6, <2>7, <2>8, SentGrows
  <2>10. SentOK(z, R, writer', FALSE)  BY <1>17, <1>20, <2>9, SentSame
  <2>11. Flows(wire', writer', z)  BY <1>20, <1>23
  <2> QED BY <1>1, <1>20, <2>1, <2>2, <2>10, <2>11, WriterSteps
<1> QED BY <1>22, <1>23

\* The cells of a record that is not finished are sent.
LEMMA SerializeThrowsOK ==
  ASSUME RecordsInv, NEW r \in Records!Record, NEW columns \in 1..(Columns - 1),
         Records!SerializeThrows(r, columns)
  PROVE  RecordsInv'
<1> DEFINE cells == Records!Cells(r, columns)
           n == Len(cells)
           none == <<>>
<1>1. /\ phase = "writing" /\ phase' = "writing" /\ UNCHANGED <<damaged, reader, got, result>>
      /\ writer.leftover = none /\ ~ writer.torn
  BY DEF Records!SerializeThrows, Records!readVars
<1>2. /\ WritesOK(writer) /\ Sent(writer, wire, "writing")
  BY <1>1 DEF RecordsInv
<1>3. PICK s \in Seq(SentToken), S \in Places : SentOK(s, S, writer, FALSE) /\ Flows(wire, writer, s)
  BY <1>2 DEF Sent
<1>4. PICK u \in Records!Usable(writer) : Records!Emit([u EXCEPT !.leftover = cells], cells)
  BY DEF Records!SerializeThrows
<1>5. /\ WritesOK(u) /\ Flows(wire, u, s) /\ SentOK(s, S, u, FALSE) /\ SameRecords(u, writer)
  BY <1>2, <1>3, UsableOK
<1> DEFINE w == [u EXCEPT !.leftover = cells]
<1>6. /\ cells \in Seq(CellToken) /\ cells \in Seq(SentToken) /\ n \in Nat /\ n <= BufferSize
  <2>1. columns \in 0..Columns /\ columns <= BufferSize /\ columns \in Nat
    BY RecordConstants
  <2>2. /\ cells \in Seq(CellToken) /\ cells \in Seq(SentToken) /\ n \in Nat /\ n <= columns
    <3> HIDE DEF n
    <3> QED BY <2>1, RecordTokens DEF n
  <2> HIDE DEF n
  <2> QED BY <2>1, <2>2, RecordConstants
<1>7. Records!Emit(w, cells)
  BY <1>4
<1>8. u \in RecordWriter /\ u.leftover = none /\ u.written \in Seq(Records!Record)
  BY <1>1, <1>5 DEF WritesOK, SameRecords, RecordWriter
<1> HIDE DEF cells
<1>9. /\ w \in RecordWriter /\ w.mTotalRecords = u.mTotalRecords /\ w.mCrcCrc = u.mCrcCrc
      /\ w.written = u.written /\ w.torn = u.torn /\ w.leftover = cells /\ w.broken = u.broken
      /\ w.hadError = u.hadError /\ w.buffer = u.buffer
  BY <1>6, <1>8 DEF RecordWriter
<1> HIDE DEF w
<1>10. WritesOK(w) /\ Flows(wire, w, s)
  BY <1>5, <1>9 DEF WritesOK, Flows
<1>11. /\ WritesOK(writer') /\ SameRecords(writer', w)
       /\ Flows(wire', writer', IF u.broken THEN s ELSE s \o cells)
       /\ u.broken => writer'.broken
  BY <1>6, <1>7, <1>9, <1>10, EmitOK
<1>12. Begins(u.written, w.written)
  BY <1>8, <1>9, BeginsItself
<1>13. CASE u.broken
  <2>1. SentOK(s, S, w, FALSE)  BY <1>5, <1>8, <1>9, <1>12, <1>13, SentBroken
  <2>2. SentOK(s, S, writer', FALSE)  BY <1>9, <1>11, <2>1, SentSame
  <2> QED BY <1>1, <1>11, <1>13, <2>2, WriterSteps
<1>14. CASE ~ u.broken
  <2> DEFINE z == s \o cells
  <2>1. /\ z \in Seq(SentToken) /\ Len(z) = Len(s) + n
        /\ \A i \in 1..n : z[Len(s) + i] = cells[i]
    <3>1. s \in Seq(SentToken) /\ cells \in Seq(SentToken)  BY <1>6
    <3> QED BY ONLY <3>1, Joined
  <2>2. Len(s) \in Nat  BY EmptyOrNot
  <2>3. ASSUME NEW i \in 1..n PROVE cells[i] \in CellToken /\ cells[i][1] = "cell"
    <3>1. cells[i] \in CellToken  BY <1>6, ElementOfSeq
    <3> QED BY <3>1 DEF CellToken
  <2>4. ASSUME NEW p \in Nat, NEW k \in Nat, k = Len(u.written),
               CellsAt(s, p, Len(u.leftover)), Len(s) = p + Len(u.leftover)
        PROVE  TailAt(z, w, p, k, FALSE)
    <3>1. p = Len(s)
      <4>1. Len(u.leftover) = 0  BY <1>8
      <4> QED BY <2>4, <4>1
    <3> HIDE DEF z
    <3>2. ASSUME NEW j \in 1..Len(z), p < j PROVE z[j][1] # "end"
      <4> DEFINE i == j - Len(s)
      <4> HIDE DEF n
      <4>1. i \in 1..n /\ j = Len(s) + i  BY <1>6, <2>1, <2>2, <3>1, <3>2
      <4> HIDE DEF i
      <4>2. z[j] = cells[i] /\ cells[i][1] = "cell"  BY <2>1, <2>3, <4>1
      <4> QED BY <4>2
    <3>3. CellsAt(z, p, n)  BY <2>1, <2>3, <3>1 DEF CellsAt
    <3>4. n = Len(w.leftover) /\ k = Len(w.written)  BY <1>9, <2>4
    <3> HIDE DEF n
    <3>5. Len(z) = p + n /\ p <= Len(z)  BY <1>6, <2>1, <3>1
    <3> QED BY <3>2, <3>3, <3>4, <3>5 DEF TailAt
  <2>5. \A j \in 1..Len(cells) : cells[j][1] # "sum"
    <3>1. ASSUME NEW j \in 1..n PROVE cells[j][1] # "sum"
      <4>1. cells[j][1] = "cell"  BY <2>3
      <4> QED BY <4>1
    <3> QED BY <3>1
  <2>6. S \subseteq S /\ \A p, i \in Nat : ~ (<<p, i>> \in S /\ <<p, i>> \notin S)
    OBVIOUS
  <2>7. SentOK(z, S, w, FALSE)
    <3>1. u.torn => w.torn  BY <1>9
    <3> QED BY <1>5, <1>6, <1>8, <1>9, <1>12, <1>14, <2>4, <2>5, <2>6, <3>1, SentGrows
  <2>8. SentOK(z, S, writer', FALSE)  BY <1>9, <1>11, <2>7, SentSame
  <2>9. Flows(wire', writer', z)  BY <1>11, <1>14
  <2> QED BY <1>1, <1>11, <2>1, <2>8, <2>9, WriterSteps
<1> QED BY <1>13, <1>14

\* The number of the records, metrics or none, and the last checksum.
EndTokens(w, metrics) ==
  <<<<"count", w.mTotalRecords>>>>
    \o (IF metrics THEN <<Records!Metrics, <<"metricsEnd", <<Records!Metrics>>>>>> ELSE <<>>)
    \o <<<<"sum", w.mCrcCrc>>>>

LEMMA EndTokensAre ==
  ASSUME NEW w, w.mTotalRecords \in Nat, w.mCrcCrc \in Seq(Seq(CellToken)), NEW metrics \in BOOLEAN
  PROVE  /\ EndTokens(w, metrics) \in Seq(SentToken) /\ Len(EndTokens(w, metrics)) <= BufferSize
         /\ EndTokens(w, metrics)[1] = <<"count", w.mTotalRecords>>
         /\ IF metrics
            THEN /\ Len(EndTokens(w, metrics)) = 4 /\ EndTokens(w, metrics)[2] = Records!Metrics
                 /\ EndTokens(w, metrics)[3] = <<"metricsEnd", <<Records!Metrics>>>>
                 /\ EndTokens(w, metrics)[4] = <<"sum", w.mCrcCrc>>
            ELSE /\ Len(EndTokens(w, metrics)) = 2
                 /\ EndTokens(w, metrics)[2] = <<"sum", w.mCrcCrc>>
<1> DEFINE a == <<"count", w.mTotalRecords>>
           b == Records!Metrics
           c == <<"metricsEnd", <<Records!Metrics>>>>
           d == <<"sum", w.mCrcCrc>>
<1>1. a \in SentToken /\ b \in SentToken /\ c \in SentToken /\ d \in SentToken
  BY DEF SentToken
<1>2. BufferSize \in Nat /\ BufferSize >= 4
  BY RecordConstants
<1> HIDE DEF a, b, c, d
<1> DEFINE x == <<a>>
           y == <<b, c>>
           none == <<>>
           z == <<d>>
<1>3. /\ x \in Seq(SentToken) /\ Len(x) = 1 /\ x[1] = a
      /\ y \in Seq(SentToken) /\ Len(y) = 2 /\ y[1] = b /\ y[2] = c
      /\ none \in Seq(SentToken) /\ Len(none) = 0 /\ z \in Seq(SentToken) /\ Len(z) = 1 /\ z[1] = d
  BY <1>1
<1>4. EndTokens(w, metrics) = x \o (IF metrics THEN y ELSE none) \o z
  BY DEF EndTokens, a, b, c, d
<1> DEFINE e == EndTokens(w, metrics)
<1> HIDE DEF x, y, none, z
<1>5. CASE metrics
  <2> DEFINE u == x \o y
  <2>1. e = u \o z  BY <1>4, <1>5
  <2> HIDE DEF e
  <2>2. /\ u \in Seq(SentToken) /\ Len(u) = Len(x) + Len(y)
        /\ \A i \in 1..Len(x) : u[i] = x[i]
        /\ \A i \in 1..Len(y) : u[Len(x) + i] = y[i]
    <3>1. x \in Seq(SentToken) /\ y \in Seq(SentToken)  BY <1>3
    <3> QED BY ONLY <3>1, Joined
  <2> HIDE DEF u
  <2>3. Len(u) = 3 /\ u[1] = a /\ u[2] = b /\ u[3] = c  BY <1>3, <2>2
  <2>4. /\ u \o z \in Seq(SentToken) /\ Len(u \o z) = Len(u) + Len(z)
        /\ \A i \in 1..Len(u) : (u \o z)[i] = u[i]
        /\ \A i \in 1..Len(z) : (u \o z)[Len(u) + i] = z[i]
    <3>1. u \in Seq(SentToken) /\ z \in Seq(SentToken)  BY <1>3, <2>2
    <3> QED BY ONLY <3>1, Joined
  <2>5. /\ e \in Seq(SentToken) /\ Len(e) = 4 /\ e[1] = a /\ e[2] = b /\ e[3] = c /\ e[4] = d
    BY <1>3, <2>1, <2>3, <2>4
  <2> QED BY <1>2, <1>5, <2>5 DEF a, b, c, d, e
<1>6. CASE ~ metrics
  <2>1. e = x \o z
    <3>1. x \o none = x  BY <1>3, ConcatEmptySeq DEF none
    <3> QED BY <1>4, <1>6, <3>1
  <2> HIDE DEF e
  <2>2. /\ x \o z \in Seq(SentToken) /\ Len(x \o z) = Len(x) + Len(z)
        /\ \A i \in 1..Len(x) : (x \o z)[i] = x[i]
        /\ \A i \in 1..Len(z) : (x \o z)[Len(x) + i] = z[i]
    <3>1. x \in Seq(SentToken) /\ z \in Seq(SentToken)  BY <1>3
    <3> QED BY ONLY <3>1, Joined
  <2>3. e \in Seq(SentToken) /\ Len(e) = 2 /\ e[1] = a /\ e[2] = d
    BY <1>3, <2>1, <2>2
  <2> QED BY <1>2, <1>6, <2>3 DEF a, d, e
<1> QED BY <1>5, <1>6

\* The end of a transfer is sent.
LEMMA CompleteOK ==
  ASSUME RecordsInv, NEW metrics \in BOOLEAN, Records!Complete(metrics)
  PROVE  RecordsInv'
<1> DEFINE w == writer
           e == EndTokens(w, metrics)
           m == Len(w.leftover)
           none == <<>>
<1>1. /\ phase = "writing" /\ phase' = "completed" /\ UNCHANGED <<damaged, reader, got, result>>
      /\ metrics => w.leftover = none
      /\ Records!Emit(w, e)
  BY DEF Records!Complete, Records!readVars, EndTokens
<1>2. /\ WritesOK(w) /\ Sent(w, wire, "writing")
  BY <1>1 DEF RecordsInv
<1>3. PICK s \in Seq(SentToken), S \in Places : SentOK(s, S, w, FALSE) /\ Flows(wire, w, s)
  BY <1>2 DEF Sent
<1>4. /\ w \in RecordWriter /\ w.mTotalRecords \in Nat /\ w.mCrcCrc \in Seq(Seq(CellToken))
      /\ w.written \in Seq(Records!Record) /\ w.leftover \in Seq(CellToken)
      /\ w.mTotalRecords = Len(w.written)
  BY <1>2 DEF WritesOK, RecordWriter
<1>5. m \in Nat /\ (metrics => m = 0)
  BY <1>1, <1>4, EmptyOrNot
<1> HIDE DEF m
<1>6. /\ e \in Seq(SentToken) /\ Len(e) <= BufferSize /\ e[1] = <<"count", w.mTotalRecords>>
      /\ IF metrics
         THEN /\ Len(e) = 4 /\ e[2] = Records!Metrics
              /\ e[3] = <<"metricsEnd", <<Records!Metrics>>>> /\ e[4] = <<"sum", w.mCrcCrc>>
         ELSE Len(e) = 2 /\ e[2] = <<"sum", w.mCrcCrc>>
  BY <1>4, EndTokensAre
<1> HIDE DEF e
<1>7. /\ WritesOK(writer') /\ SameRecords(writer', w)
      /\ Flows(wire', writer', IF w.broken THEN s ELSE s \o e)
      /\ w.broken => writer'.broken
  BY <1>1, <1>2, <1>3, <1>6, EmitOK
<1>8. Begins(w.written, w.written)
  BY <1>4, BeginsItself
<1>9. CASE w.broken
  <2>1. SentOK(s, S, w, TRUE)  BY <1>3, <1>4, <1>8, <1>9, SentBroken
  <2>2. SentOK(s, S, writer', TRUE)  BY <1>7, <2>1, SentSame
  <2>3. SentOK(s, S, writer', phase' # "writing")  BY <1>1, <2>2
  <2> QED BY <1>1, <1>7, <1>9, <2>3, WriterSteps
<1>10. CASE ~ w.broken
  <2> DEFINE z == s \o e
  <2>1. /\ z \in Seq(SentToken) /\ Len(z) = Len(s) + Len(e)
        /\ \A i \in 1..Len(s) : z[i] = s[i]
        /\ \A i \in 1..Len(e) : z[Len(s) + i] = e[i]
    <3>1. s \in Seq(SentToken) /\ e \in Seq(SentToken)  BY <1>6
    <3> QED BY ONLY <3>1, Joined
  <2>2. Len(s) \in Nat /\ Len(e) \in Nat  BY <1>6, EmptyOrNot
  <2>3. ASSUME NEW i \in 1..Len(e)
        PROVE  e[i][1] # "end" /\ (e[i][1] = "sum" => e[i] = <<"sum", w.mCrcCrc>>)
    <3>1. /\ e[1][1] = "count"
          /\ IF metrics
             THEN /\ Len(e) = 4 /\ e[2][1] = "metrics" /\ e[3][1] = "metricsEnd"
                  /\ e[4] = <<"sum", w.mCrcCrc>> /\ e[4][1] = "sum"
             ELSE Len(e) = 2 /\ e[2] = <<"sum", w.mCrcCrc>> /\ e[2][1] = "sum"
      BY <1>6 DEF Records!Metrics
    <3>2. CASE metrics
      <4>1. i = 1 \/ i = 2 \/ i = 3 \/ i = 4
        <5>1. Len(e) = 4  BY <3>1, <3>2
        <5>2. i \in 1..4  BY <5>1
        <5> QED BY ONLY <5>2
      <4> QED BY <3>1, <3>2, <4>1
    <3>3. CASE ~ metrics
      <4>1. i = 1 \/ i = 2
        <5>1. Len(e) = 2  BY <3>1, <3>3
        <5>2. i \in 1..2  BY <5>1
        <5> QED BY ONLY <5>2
      <4> QED BY <3>1, <3>3, <4>1
    <3> QED BY <3>2, <3>3
  <2>4. ASSUME NEW p \in Nat, NEW k \in Nat, k = Len(w.written),
               CellsAt(s, p, Len(w.leftover)), Len(s) = p + Len(w.leftover)
        PROVE  TailAt(z, w, p, k, TRUE)
    <3>1. k = Len(w.written) /\ CellsAt(s, p, m) /\ Len(s) = p + m /\ m = Len(w.leftover)
      BY <2>4 DEF m
    <3> HIDE DEF z
    <3>2. ASSUME NEW j \in 1..m PROVE z[p + j] \in CellToken
      <4>1. p + j \in 1..Len(s)  BY <1>5, <3>1
      <4> QED BY <2>1, <3>1, <4>1 DEF CellsAt
    <3>3. ASSUME NEW j \in 1..Len(z), p < j PROVE z[j][1] # "end"
      <4>1. CASE j <= Len(s)
        <5> DEFINE i == j - p
        <5>1. i \in 1..m /\ j = p + i  BY <1>5, <3>1, <3>3, <4>1
        <5> HIDE DEF i
        <5>2. z[j] \in CellToken  BY <3>2, <5>1
        <5>3. z[j][1] = "cell"  BY <5>2 DEF CellToken
        <5> QED BY <5>3
      <4>2. CASE ~ (j <= Len(s))
        <5> DEFINE i == j - Len(s)
        <5>1. i \in 1..Len(e) /\ j = Len(s) + i  BY <2>1, <2>2, <4>2
        <5> HIDE DEF i
        <5>2. z[j] = e[i]  BY <2>1, <5>1
        <5> QED BY <2>3, <5>1, <5>2
      <4> QED BY <4>1, <4>2
    <3>4. CellsAt(z, p, m)  BY <3>2 DEF CellsAt
    <3>5. Ending(z, p + m, w)
      <4>1. p + m = Len(s)  BY <3>1
      <4> DEFINE q == Len(s)
      <4>2. q \in Nat /\ \A i \in 1..Len(e) : z[q + i] = e[i]  BY <2>1, <2>2
      <4>3. Len(z) = q + Len(e)  BY <2>1
      <4> HIDE DEF q
      <4>4. CASE metrics
        <5>1. Len(e) = 4 /\ 1 \in 1..Len(e) /\ 2 \in 1..Len(e) /\ 3 \in 1..Len(e) /\ 4 \in 1..Len(e)
          <6>1. Len(e) = 4  BY <1>6, <4>4
          <6> QED BY ONLY <6>1
        <5>2. /\ z[q + 1] = e[1] /\ z[q + 2] = e[2] /\ z[q + 3] = e[3] /\ z[q + 4] = e[4]
              /\ Len(z) = q + 4
          BY <4>2, <4>3, <5>1
        <5>3. Len(w.leftover) = 0  BY <1>5, <3>1, <4>4
        <5>4. Ending(z, q, w)  BY <1>4, <1>6, <4>4, <5>2, <5>3 DEF Ending, SumAt
        <5> QED BY <4>1, <5>4 DEF q
      <4>5. CASE ~ metrics
        <5>1. Len(e) = 2 /\ 1 \in 1..Len(e) /\ 2 \in 1..Len(e)
          <6>1. Len(e) = 2  BY <1>6, <4>5
          <6> QED BY ONLY <6>1
        <5>2. z[q + 1] = e[1] /\ z[q + 2] = e[2] /\ Len(z) = q + 2
          BY <4>2, <4>3, <5>1
        <5>3. Ending(z, q, w)  BY <1>4, <1>6, <4>5, <5>2 DEF Ending, SumAt
        <5> QED BY <4>1, <5>3 DEF q
      <4> QED BY <4>4, <4>5
    <3>6. p <= Len(z)  BY <1>5, <2>1, <2>2, <3>1
    <3>7. TailAt(z, w, p, k, TRUE)
      <4>1. CellsAt(z, p, Len(w.leftover)) /\ Ending(z, p + Len(w.leftover), w)
        BY <3>1, <3>4, <3>5
      <4> QED BY <3>1, <3>3, <3>6, <4>1 DEF TailAt
    <3> QED BY <3>7
  <2>5. S \subseteq S /\ \A p, i \in Nat : ~ (<<p, i>> \in S /\ <<p, i>> \notin S)
    OBVIOUS
  <2>6. SentOK(z, S, w, TRUE)
    BY <1>3, <1>4, <1>6, <1>8, <1>10, <2>3, <2>4, <2>5, SentGrows
  <2>7. SentOK(z, S, writer', TRUE)  BY <1>7, <2>6, SentSame
  <2>8. SentOK(z, S, writer', phase' # "writing")  BY <1>1, <2>7
  <2>9. Flows(wire', writer', z)  BY <1>7, <1>10
  <2> QED BY <1>1, <1>7, <2>1, <2>8, <2>9, WriterSteps
<1> QED BY <1>9, <1>10

\* The last flush, of which something may be lost.
LEMMA CloseUpstreamOK ==
  ASSUME RecordsInv, Records!CloseUpstream
  PROVE  RecordsInv'
<1> DEFINE w == writer
           b == w.buffer
<1>1. /\ phase = "completed" /\ phase' = "closed" /\ UNCHANGED <<damaged, reader, got, result>>
      /\ \/ ~ w.broken /\ wire' = wire \o b /\ writer' = w
         \/ /\ writer' = [w EXCEPT !.broken = TRUE]
            /\ \E n \in 0..(IF w.broken THEN 0 ELSE Len(b)) : wire' = wire \o SubSeq(b, 1, n)
  BY DEF Records!CloseUpstream, Records!readVars
<1>2. /\ WritesOK(w) /\ Sent(w, wire, "completed")
  BY <1>1 DEF RecordsInv
<1>3. PICK s \in Seq(SentToken), S \in Places : SentOK(s, S, w, TRUE) /\ Flows(wire, w, s)
  BY <1>2 DEF Sent
<1>4. w \in RecordWriter /\ b \in Seq(SentToken) /\ Len(b) \in Nat /\ wire \in Seq(SentToken)
      /\ Begins(wire, s) /\ (~ w.broken => s = wire \o b)
  <2>1. w \in RecordWriter /\ b \in Seq(SentToken)
    BY <1>2 DEF WritesOK, RecordWriter
  <2> QED BY <1>3, <2>1, EmptyOrNot DEF Flows
<1> HIDE DEF b
<1>5. CASE ~ w.broken /\ wire' = wire \o b /\ writer' = w
  <2>1. s = wire'  BY <1>4, <1>5
  <2>2. Begins(wire', s) /\ wire' \in Seq(SentToken)  BY <2>1, BeginsItself
  <2>3. SentOK(s, S, writer', phase' # "writing")  BY <1>1, <1>3, <1>5
  <2>4. WritesOK(writer')  BY <1>2, <1>5
  <2> QED BY <1>1, <2>1, <2>2, <2>3, <2>4, WriterSteps
<1>6. CASE /\ writer' = [w EXCEPT !.broken = TRUE]
           /\ \E n \in 0..(IF w.broken THEN 0 ELSE Len(b)) : wire' = wire \o SubSeq(b, 1, n)
  <2>1. /\ writer' \in RecordWriter /\ SameRecords(writer', w) /\ writer'.broken
        /\ writer'.buffer = b /\ writer'.hadError = w.hadError
    BY <1>4, <1>6 DEF RecordWriter, SameRecords, b
  <2>2. WritesOK(writer')  BY <1>2, <2>1 DEF WritesOK, SameRecords, b
  <2>3. SentOK(s, S, writer', phase' # "writing")
    <3>1. SentOK(s, S, writer', TRUE)  BY <1>3, <2>1, SentSame
    <3> QED BY <1>1, <3>1
  <2>4. PICK n \in 0..(IF w.broken THEN 0 ELSE Len(b)) : wire' = wire \o SubSeq(b, 1, n)
    BY <1>6
  <2>5. n \in Nat /\ n <= Len(b) /\ (w.broken => n = 0)  BY <1>4, <2>4
  <2> DEFINE head == SubSeq(b, 1, n)
  <2>6. head \in Seq(SentToken) /\ Len(head) = n /\ \A i \in 1..n : head[i] = b[i]
    BY <1>4, <2>5, Cut
  <2>7. wire' = wire \o head  BY <2>4
  <2> HIDE DEF head
  <2>8. wire' \in Seq(SentToken) /\ Begins(wire', s)
    <3>1. CASE w.broken
      <4>1. head = <<>>  BY <2>5, <2>6, <3>1, EmptyOrNot
      <4>2. wire' = wire  BY <1>4, <2>7, <4>1, ConcatEmptySeq
      <4> QED BY <1>4, <4>2
    <3>2. CASE ~ w.broken
      <4>1. Begins(head, b)  BY <2>5, <2>6 DEF Begins
      <4>2. Begins(wire \o head, wire \o b)  BY <1>4, <2>6, <4>1, PrefixJoined
      <4>3. wire \o head \in Seq(SentToken)  BY <1>4, <2>6, Joined
      <4> QED BY <1>4, <2>7, <3>2, <4>2, <4>3
    <3> QED BY <3>1, <3>2
  <2> QED BY <1>1, <2>1, <2>2, <2>3, <2>8, WriterSteps
<1> QED BY <1>1, <1>5, <1>6

\* What arrives, a reader has not read.
LEMMA RecordArrivesOK ==
  ASSUME RecordsInv, Records!Arrives
  PROVE  RecordsInv'
<1> DEFINE w == writer
           none == <<>>
<1>1. /\ phase = "closed" /\ phase' = "reading" /\ UNCHANGED <<writer, reader, got, result>>
      /\ wire' \in {SubSeq(wire, 1, n) : n \in 0..Len(wire)}
                     \cup UNION {{[wire EXCEPT ![i] = token] : token \in Records!Changed(wire[i])} :
                                   i \in DOMAIN wire}
      /\ damaged' = (wire' # wire \/ w.broken \/ w.torn)
  BY DEF Records!Arrives, Records!readVars
<1>2. WritesOK(w) /\ Unread /\ Sent(w, wire, "closed") /\ RecordTypeOK
  BY <1>1 DEF RecordsInv
<1>3. PICK s \in Seq(SentToken), S \in Places :
        /\ SentOK(s, S, w, TRUE)
        /\ wire \in Seq(SentToken) /\ Begins(wire, s) /\ (~ w.broken => s = wire)
  BY <1>2 DEF Sent
<1>4. /\ Len(wire) \in Nat /\ Len(s) \in Nat /\ Len(wire) <= Len(s)
      /\ \A j \in 1..Len(wire) : wire[j] = s[j]
      /\ SentToken \subseteq Token /\ DOMAIN wire = 1..Len(wire)
  <2>1. SentToken \subseteq Token  BY DEF Token
  <2>2. DOMAIN wire = 1..Len(wire)  BY <1>3, LenProperties
  <2> QED BY <1>3, <2>1, <2>2, EmptyOrNot DEF Begins
<1>5. wire \in Seq(Token)
  BY <1>3, <1>4, SeqMonotonic
<1>6. Altered(wire', s)
  <2>1. ASSUME NEW n \in 0..Len(wire), wire' = SubSeq(wire, 1, n) PROVE Altered(wire', s)
    <3> DEFINE x == SubSeq(wire, 1, n)
    <3>1. n \in Nat /\ n <= Len(wire)  BY <1>4
    <3>2. x \in Seq(Token) /\ Len(x) = n /\ \A i \in 1..n : x[i] = wire[i]
      BY <1>5, <3>1, Cut
    <3> HIDE DEF x
    <3>3. Len(x) <= Len(s) /\ \A j \in 1..Len(x) : x[j] = s[j]
      BY <1>4, <3>1, <3>2
    <3>4. wire' = x  BY <2>1 DEF x
    <3> QED BY <3>2, <3>3, <3>4 DEF Altered
  <2>2. ASSUME NEW i \in 1..Len(wire), NEW token \in Records!Changed(wire[i]),
               wire' = [wire EXCEPT ![i] = token]
        PROVE  Altered(wire', s)
    <3> DEFINE x == [wire EXCEPT ![i] = token]
    <3>1. token \in Token
      <4>1. wire[i] \in SentToken  BY <1>3, ElementOfSeq
      <4> QED BY <4>1, ChangedTags
    <3>2. /\ x \in Seq(Token) /\ Len(x) = Len(wire)
          /\ \A j \in 1..Len(wire) : x[j] = IF j = i THEN token ELSE wire[j]
      BY <1>5, <3>1, ExceptSeq
    <3> HIDE DEF x
    <3>3. ASSUME NEW j \in 1..Len(x) PROVE x[j] = s[j] \/ (j = i /\ x[j] \in Records!Changed(s[j]))
      BY <1>4, <3>2
    <3>4. wire' = x /\ i \in Nat /\ Len(x) <= Len(s)  BY <1>4, <2>2, <3>2 DEF x
    <3> QED BY <3>2, <3>3, <3>4 DEF Altered
  <2> QED BY <1>1, <1>4, <2>1, <2>2
<1>7. /\ reader = [mRecordCrc |-> none, mCrcCrc |-> none, mTotalRecords |-> 0,
                   mGotTotalRecords |-> FALSE, mGotMetrics |-> FALSE]
      /\ got = none /\ result = "none"
  BY <1>2 DEF Unread
<1>8. /\ reader.mRecordCrc = none /\ Len(reader.mCrcCrc) = 0 /\ reader.mTotalRecords = 0
      /\ ~ reader.mGotTotalRecords /\ ~ reader.mGotMetrics /\ Len(none) = 0
  BY <1>7
<1> HIDE DEF none
<1>9. Counted(w, reader, got)
  <2>1. w.written \in Seq(Records!Record)  BY <1>2 DEF WritesOK, RecordWriter
  <2>2. Len(w.written) \in Nat  BY <2>1, EmptyOrNot
  <2>3. Begins(got, w.written)  BY <1>7, <1>8, <2>2 DEF Begins
  <2> QED BY <1>7, <1>8, <2>3 DEF Counted
<1>10. Within(wire', 0, S, reader, Len(got))
  <2>1. <<0, 0>> \in S  BY <1>3 DEF SentOK
  <2>2. 0 <= 0 /\ <<0, Len(got)>> \in S /\ Len(reader.mRecordCrc) = 0 - 0
    BY <1>7, <1>8, <2>1
  <2>3. \A j \in 1..(0 - 0) : FALSE  OBVIOUS
  <2> QED BY <2>2, <2>3 DEF Within
<1>11. ReadsAt(w, s, S, wire', 0, reader, got, result, damaged')
  BY <1>1, <1>3, <1>7, <1>8, <1>10 DEF ReadsAt
<1>12. Follows(w, s, S, wire', 0, reader, got, result, damaged')
  BY <1>3, <1>6, <1>7, <1>9, <1>11 DEF Follows
<1>13. wire' \in Seq(Token)
  BY <1>6 DEF Altered
<1>14. IsRest(wire', wire', 0)
  <2>1. Len(wire') \in Nat  BY <1>13, EmptyOrNot
  <2>2. 0 <= Len(wire') /\ Len(wire') = Len(wire') - 0 /\ \A j \in 1..Len(wire') : 0 + j = j
    BY <2>1
  <2> QED BY <2>2 DEF IsRest
<1>15. RecordReads(w, wire', reader, got, result, damaged')
  BY <1>12, <1>13, <1>14 DEF RecordReads
<1>16. RecordTypeOK'
  BY <1>1, <1>2, <1>13 DEF RecordTypeOK
<1>17. phase' # "returned"
  BY <1>1
<1>18. RecordReads(writer', wire', reader', got', result', damaged')
  BY <1>1, <1>15
<1> QED BY <1>1, <1>2, <1>16, <1>17, <1>18 DEF RecordsInv

\* A record is taken for one only where it was sent, and as it was.
LEMMA EndAccepted ==
  ASSUME NEW w, NEW s, NEW S, SentOK(s, S, w, TRUE), NEW a, Altered(a, s),
         NEW t \in Nat, t + 1 <= Len(a), NEW k \in Nat,
         NEW r \in RecordReader, Within(a, t, S, r, k),
         a[t + 1][1] = "end", a[t + 1][2] = r.mRecordCrc
  PROVE  /\ k + 1 <= Len(w.written) /\ <<t + 1, k + 1>> \in S
         /\ r.mRecordCrc = Records!Cells(w.written[k + 1], Columns)
<1> DEFINE crc == r.mRecordCrc
           e == t + 1
<1>1. PICK i \in Nat : \A j \in 1..Len(a) : a[j] = s[j] \/ (j = i /\ a[j] \in Records!Changed(s[j]))
  BY DEF Altered
<1>2. /\ a \in Seq(Token) /\ s \in Seq(SentToken) /\ Len(a) <= Len(s)
      /\ \A p1, k1 \in Nat : <<p1, k1>> \in S => RecordAt(s, S, w, p1, k1) \/ TailAt(s, w, p1, k1, TRUE)
  BY DEF Altered, SentOK
<1>3. Len(a) \in Nat /\ Len(s) \in Nat /\ \A j \in 1..Len(s) : s[j] \in SentToken
  BY <1>2, EmptyOrNot, ElementOfSeq
<1>4. PICK p \in Nat :
        /\ p <= t /\ <<p, k>> \in S /\ Len(crc) = t - p
        /\ \A j \in 1..(t - p) : crc[j] = a[p + j] /\ a[p + j][1] = "cell"
  BY DEF Within
<1> HIDE DEF crc
<1>5. e \in 1..Len(a) /\ e \in 1..Len(s) /\ p < e /\ e = t + 1 /\ e \in Nat
  BY <1>2, <1>3, <1>4
<1>6. a[e][1] = "end" /\ a[e][2] = crc
  BY DEF crc
<1> HIDE DEF e
<1>7. s[e] \in SentToken /\ s[e][1] = "end"
  BY <1>1, <1>3, <1>5, <1>6, ChangedTags
<1>8. ~ TailAt(s, w, p, k, TRUE)
  BY <1>5, <1>7 DEF TailAt
<1>9. RecordAt(s, S, w, p, k)
  BY <1>2, <1>4, <1>8
<1> DEFINE cells == Records!Cells(w.written[k + 1], Columns)
<1>10. PICK m \in Nat :
         /\ p + m + 1 <= Len(s) /\ CellsAt(s, p, m)
         /\ s[p + m + 1] = <<"end", cells>> /\ <<p + m + 1, k + 1>> \in S
  BY <1>9 DEF RecordAt
<1>11. k + 1 <= Len(w.written)
  BY <1>9 DEF RecordAt
<1> HIDE DEF cells
<1>12. ~ (t - p < m)
  <2>1. SUFFICES ASSUME t - p < m PROVE FALSE  OBVIOUS
  <2> DEFINE j == (t - p) + 1
  <2>2. j \in 1..m /\ p + j = e  BY <1>4, <1>5, <2>1
  <2> HIDE DEF j
  <2>3. s[e] \in CellToken  BY <1>10, <2>2 DEF CellsAt
  <2>4. s[e][1] = "cell"  BY <2>3 DEF CellToken
  <2> QED BY <1>7, <2>4
<1>13. ~ (t - p > m)
  <2>1. SUFFICES ASSUME t - p > m PROVE FALSE  OBVIOUS
  <2> DEFINE q == p + m + 1
             j == m + 1
  <2>2. /\ q \in 1..Len(a) /\ q \in 1..Len(s) /\ j \in 1..(t - p) /\ p + j = q /\ q # e
    BY <1>2, <1>3, <1>4, <1>5, <2>1
  <2>3. s[q][1] = "end" /\ s[q] \in SentToken
    <3>1. s[q] = <<"end", cells>>  BY <1>10
    <3> HIDE DEF q
    <3> QED BY <1>3, <2>2, <3>1
  <2> HIDE DEF q, j
  <2>4. crc[j] = a[q] /\ a[q][1] = "cell"  BY <1>4, <2>2
  <2>5. q = i /\ a[q] \in Records!Changed(s[q])  BY <1>1, <2>2, <2>3, <2>4
  <2>6. a[q] = BadCell  BY <2>3, <2>4, <2>5, ChangedTags
  <2>7. a[e] = s[e]  BY <1>1, <1>5, <2>2, <2>5
  <2>8. crc \in Seq(CellToken)  BY <1>6, <1>7, <2>7, Tags
  <2>9. crc[j] \in CellToken  BY <1>4, <2>2, <2>8, ElementOfSeq
  <2>10. BadCell \in CellToken  BY <2>4, <2>6, <2>9
  <2>11. BadCell \in SentToken  BY <2>10 DEF SentToken
  <2> QED BY <2>11, Tags
<1>14. t - p = m /\ p + m + 1 = e
  BY <1>4, <1>5, <1>12, <1>13
<1>15. s[e] = <<"end", cells>> /\ <<e, k + 1>> \in S
  BY <1>10, <1>14
<1>16. CASE a[e] = s[e]
  BY <1>5, <1>6, <1>11, <1>15, <1>16 DEF crc, cells
<1>17. CASE a[e] # s[e]
  <2>1. e = i /\ a[e] \in Records!Changed(s[e])  BY <1>1, <1>5, <1>17
  <2>2. a[e] = BadEnd  BY <1>6, <1>7, <2>1, ChangedTags
  <2>3. crc = <<BadCell>>  BY <1>6, <2>2 DEF BadEnd
  <2>4. Len(crc) = 1 /\ crc[1] = BadCell  BY <2>3
  <2>5. 1 \in 1..(t - p) /\ p + 1 \in 1..Len(a) /\ p + 1 \in 1..Len(s) /\ p + 1 # e
    <3>1. t - p = 1 /\ p \in Nat /\ t \in Nat  BY <1>4, <2>4
    <3>2. p + 1 = t /\ t \in 1..Len(a) /\ t \in 1..Len(s) /\ t # e
      BY <1>2, <1>3, <1>5, <3>1
    <3> QED BY <3>1, <3>2
  <2>6. a[p + 1] = BadCell  BY <1>4, <2>4, <2>5
  <2>7. a[p + 1] = s[p + 1]  BY <1>1, <2>1, <2>5
  <2>8. s[p + 1] \in SentToken  BY <1>3, <2>5
  <2> QED BY <2>6, <2>7, <2>8, Tags
<1> QED BY <1>16, <1>17

\* The token that comes next in an undamaged transfer.
LEMMA UndamagedNext ==
  ASSUME NEW w \in RecordWriter, NEW s, NEW S, SentOK(s, S, w, TRUE), ~ w.torn, ~ w.broken,
         NEW t \in Nat, NEW k \in Nat, NEW r \in RecordReader, Within(s, t, S, r, k)
  PROVE  /\ t + 1 <= Len(s)
         /\ \/ s[t + 1] \in CellToken
            \/ s[t + 1] = <<"end", r.mRecordCrc>>
            \/ /\ k = Len(w.written) /\ s[t + 1] = <<"count", Len(w.written)>>
               /\ \/ SumAt(s, t + 2, w)
                  \/ /\ Len(r.mRecordCrc) = 0 /\ s[t + 2] = Records!Metrics
                     /\ s[t + 3] = <<"metricsEnd", <<Records!Metrics>>>> /\ SumAt(s, t + 4, w)
<1> DEFINE crc == r.mRecordCrc
           e == t + 1
<1>1. /\ s \in Seq(SentToken) /\ crc \in Seq(Token)
      /\ \A p1, k1 \in Nat : <<p1, k1>> \in S => RecordAt(s, S, w, p1, k1) \/ TailAt(s, w, p1, k1, TRUE)
  BY DEF SentOK, RecordReader
<1>2. Len(s) \in Nat /\ \A j \in 1..Len(s) : s[j] \in SentToken
  BY <1>1, EmptyOrNot, ElementOfSeq
<1>3. PICK p \in Nat :
        /\ p <= t /\ <<p, k>> \in S /\ Len(crc) = t - p
        /\ \A j \in 1..(t - p) : crc[j] = s[p + j] /\ s[p + j][1] = "cell"
  BY DEF Within
<1> HIDE DEF crc
<1>4. ASSUME NEW m \in Nat, CellsAt(s, p, m), t - p < m PROVE s[e] \in CellToken
  <2> DEFINE j == (t - p) + 1
  <2>1. j \in 1..m /\ p + j = e  BY <1>3, <1>4
  <2> HIDE DEF j, e
  <2> QED BY <1>4, <2>1 DEF CellsAt
<1>5. ASSUME NEW m \in Nat, t - p > m PROVE s[p + m + 1][1] = "cell"
  <2> DEFINE j == m + 1
  <2>1. j \in 1..(t - p) /\ p + j = p + m + 1  BY <1>3, <1>5
  <2> HIDE DEF j
  <2> QED BY <1>3, <2>1
<1>6. ASSUME RecordAt(s, S, w, p, k)
      PROVE  e <= Len(s) /\ (s[e] \in CellToken \/ s[e] = <<"end", crc>>)
  <2> DEFINE cells == Records!Cells(w.written[k + 1], Columns)
  <2>1. PICK m \in Nat :
          /\ p + m + 1 <= Len(s) /\ CellsAt(s, p, m) /\ s[p + m + 1] = <<"end", cells>>
          /\ m = Len(cells) /\ \A j \in 1..m : s[p + j] = cells[j]
    BY <1>6 DEF RecordAt
  <2> HIDE DEF cells
  <2>2. ~ (t - p > m)
    <3>1. s[p + m + 1][1] = "end"  BY <2>1
    <3> QED BY <1>5, <3>1
  <2>3. CASE t - p < m
    <3>1. s[e] \in CellToken  BY <1>4, <2>1, <2>3
    <3>2. e <= Len(s)  BY <1>2, <1>3, <2>1, <2>3
    <3> QED BY <3>1, <3>2
  <2>4. CASE t - p = m
    <3>1. p + m + 1 = e  BY <1>3, <2>4
    <3>2. s[e] = <<"end", cells>> /\ e <= Len(s) /\ e \in 1..Len(s)
      BY <1>2, <2>1, <3>1
    <3> HIDE DEF e
    <3>3. s[e] \in SentToken /\ s[e][1] = "end" /\ s[e][2] = cells  BY <1>2, <3>2
    <3>4. cells \in Seq(CellToken)  BY <3>3, Tags
    <3>5. cells \in Seq(Token)
      <4>1. CellToken \subseteq Token  BY DEF Token, SentToken
      <4> QED BY <3>4, <4>1, SeqMonotonic
    <3>6. Len(crc) = Len(cells) /\ \A j \in 1..Len(crc) : crc[j] = cells[j]
      BY <1>3, <2>1, <2>4
    <3>7. crc = cells  BY <1>1, <3>5, <3>6, SeqEqual
    <3> QED BY <3>2, <3>7
  <2>5. t - p < m \/ t - p = m  BY <1>3, <2>2
  <2> QED BY <2>3, <2>4, <2>5
<1>7. ASSUME TailAt(s, w, p, k, TRUE)
      PROVE  /\ e <= Len(s)
             /\ \/ s[e] \in CellToken
                \/ /\ k = Len(w.written) /\ s[e] = <<"count", Len(w.written)>>
                   /\ \/ SumAt(s, t + 2, w)
                      \/ /\ Len(crc) = 0 /\ s[t + 2] = Records!Metrics
                         /\ s[t + 3] = <<"metricsEnd", <<Records!Metrics>>>> /\ SumAt(s, t + 4, w)
  <2> DEFINE m == Len(w.leftover)
  <2>1. m \in Nat
    <3>1. w.leftover \in Seq(CellToken)  BY DEF RecordWriter
    <3> QED BY <3>1, EmptyOrNot
  <2>2. k = Len(w.written) /\ CellsAt(s, p, m) /\ Ending(s, p + m, w)
    BY <1>7 DEF TailAt
  <2>3. /\ s[p + m + 1] = <<"count", Len(w.written)>>
        /\ \/ SumAt(s, p + m + 2, w)
           \/ /\ m = 0
              /\ s[p + m + 2] = Records!Metrics /\ s[p + m + 3] = <<"metricsEnd", <<Records!Metrics>>>>
              /\ SumAt(s, p + m + 4, w)
    BY <2>2 DEF Ending
  <2> HIDE DEF m
  <2>4. Len(s) = p + m + 2 \/ Len(s) = p + m + 4  BY <2>3 DEF SumAt
  <2>5. ~ (t - p > m)
    <3>1. s[p + m + 1][1] = "count"  BY <2>3
    <3> QED BY <1>5, <2>1, <3>1
  <2>6. CASE t - p < m
    <3>1. s[e] \in CellToken  BY <1>4, <2>1, <2>2, <2>6
    <3>2. e <= Len(s)  BY <1>3, <2>1, <2>4, <2>6
    <3> QED BY <3>1, <3>2
  <2>7. CASE t - p = m
    <3>1. p + m + 1 = e /\ p + m + 2 = t + 2 /\ p + m + 3 = t + 3 /\ p + m + 4 = t + 4
      BY <1>3, <2>1, <2>7
    <3>2. e <= Len(s)  BY <1>2, <2>4, <3>1
    <3> HIDE DEF e
    <3> QED BY <1>3, <2>2, <2>3, <2>7, <3>1, <3>2
  <2>8. t - p < m \/ t - p = m  BY <1>3, <2>1, <2>5
  <2> QED BY <2>6, <2>7, <2>8
<1>8. RecordAt(s, S, w, p, k) \/ TailAt(s, w, p, k, TRUE)
  BY <1>1, <1>3
<1> QED BY <1>6, <1>7, <1>8 DEF crc

\* An exception, after which nothing is read.
LEMMA ThrowsOK ==
  ASSUME RecordTypeOK, NEW s, NEW S, NEW a, NEW t, NEW n,
         Follows(writer, s, S, a, t, reader, got, "reading", damaged),
         Records!Throws, damaged
  PROVE  /\ reader' \in RecordReader /\ got' \in Seq(Records!Record)
         /\ result' \in {"none", "reading", "record", "end", "exception"}
         /\ Follows(writer, s, S, a, n, reader', got', result', damaged)
<1>1. reader' = reader /\ got' = got /\ result' = "exception"
  BY DEF Records!Throws
<1>2. ReadsAt(writer, s, S, a, n, reader, got, "exception", damaged)
  BY DEF ReadsAt, Continues
<1> QED BY <1>1, <1>2 DEF Follows, RecordTypeOK

\* What was counted is what was written.
LEMMA CountedAll ==
  ASSUME NEW w, WritesOK(w), NEW r \in RecordReader, NEW g \in Seq(Records!Record),
         Counted(w, r, g)
  PROVE  r.mCrcCrc = w.mCrcCrc <=> Len(g) = Len(w.written)
<1>1. /\ w.mCrcCrc \in Seq(Seq(CellToken)) /\ r.mCrcCrc \in Seq(Seq(Token))
      /\ w.written \in Seq(Records!Record) /\ Len(w.mCrcCrc) = Len(w.written)
      /\ \A j \in 1..Len(w.written) : w.mCrcCrc[j] = Records!Cells(w.written[j], Columns)
  BY DEF WritesOK, RecordWriter, RecordReader
<1>2. /\ Begins(g, w.written) /\ Len(r.mCrcCrc) = Len(g)
      /\ \A j \in 1..Len(g) : r.mCrcCrc[j] = Records!Cells(g[j], Columns)
  BY DEF Counted
<1>3. w.mCrcCrc \in Seq(Seq(Token))
  <2>1. CellToken \subseteq Token  BY DEF Token, SentToken
  <2>2. Seq(CellToken) \subseteq Seq(Token)  BY <2>1, SeqMonotonic
  <2> QED BY <1>1, <2>2, SeqMonotonic
<1>4. ASSUME Len(g) = Len(w.written) PROVE r.mCrcCrc = w.mCrcCrc
  <2>1. Len(r.mCrcCrc) = Len(w.mCrcCrc)  BY <1>1, <1>2, <1>4
  <2>2. ASSUME NEW j \in 1..Len(r.mCrcCrc) PROVE r.mCrcCrc[j] = w.mCrcCrc[j]
    <3>1. j \in 1..Len(g) /\ j \in 1..Len(w.written)  BY <1>2, <1>4
    <3>2. g[j] = w.written[j]  BY <1>2, <3>1 DEF Begins
    <3> QED BY <1>1, <1>2, <3>1, <3>2
  <2> QED BY <1>1, <1>3, <2>1, <2>2, SeqEqual
<1>5. ASSUME r.mCrcCrc = w.mCrcCrc PROVE Len(g) = Len(w.written)
  BY <1>1, <1>2, <1>5
<1> QED BY <1>4, <1>5

\* The metrics and the last checksum.
LEMMA MetaOK ==
  ASSUME RecordTypeOK, WritesOK(writer),
         NEW s, NEW S, NEW a, NEW t \in Nat, t + 1 <= Len(a),
         Follows(writer, s, S, a, t, reader, got, "reading", damaged),
         result = "reading", reader.mGotTotalRecords, Records!ReadMeta(a[t + 1])
  PROVE  /\ reader' \in RecordReader /\ got' \in Seq(Records!Record)
         /\ result' \in {"none", "reading", "record", "end", "exception"}
         /\ Follows(writer, s, S, a, t + 1, reader', got', result', damaged)
<1> DEFINE w == writer
           r == reader
           token == a[t + 1]
           crc == Append(r.mRecordCrc, Records!Metrics)
<1>1. /\ SentOK(s, S, w, TRUE) /\ Altered(a, s) /\ Counted(w, r, got)
      /\ ReadsAt(w, s, S, a, t, r, got, "reading", damaged)
  BY DEF Follows
<1>2. /\ r \in RecordReader /\ got \in Seq(Records!Record) /\ r.mRecordCrc \in Seq(Token)
      /\ Records!Metrics \in Token
  BY DEF RecordTypeOK, RecordReader, Token, SentToken
<1>3. ~ damaged => /\ a = s /\ Left(s, t, w, r) /\ Len(got) = Len(w.written)
                   /\ ~ w.torn /\ ~ w.broken
  BY <1>1 DEF ReadsAt, Continues
<1>4. /\ token[1] = "metrics" /\ ~ r.mGotMetrics =>
           Records!GoOn([r EXCEPT !.mGotMetrics = TRUE, !.mRecordCrc = Append(@, Records!Metrics)])
      /\ token[1] = "metricsEnd" /\ r.mGotMetrics /\ token[2] = r.mRecordCrc => Records!GoOn(r)
      /\ token[1] = "sum" /\ token[2] = r.mCrcCrc => result' = "end" /\ reader' = r /\ got' = got
      /\ \/ token[1] = "metrics" /\ ~ r.mGotMetrics
         \/ token[1] = "metricsEnd" /\ r.mGotMetrics /\ token[2] = r.mRecordCrc
         \/ token[1] = "sum" /\ token[2] = r.mCrcCrc
         \/ Records!Throws
  BY DEF Records!ReadMeta
<1> HIDE DEF token
<1>5. ~ damaged =>
        \/ token = <<"sum", w.mCrcCrc>>
        \/ /\ token = <<"metricsEnd", <<Records!Metrics>>>> /\ SumAt(s, t + 2, w)
           /\ r.mGotMetrics /\ r.mRecordCrc = <<Records!Metrics>>
        \/ /\ token = Records!Metrics /\ s[t + 2] = <<"metricsEnd", <<Records!Metrics>>>>
           /\ SumAt(s, t + 3, w) /\ ~ r.mGotMetrics /\ Len(r.mRecordCrc) = 0
  BY <1>3 DEF Left, SumAt, token
<1>6. Records!Metrics[1] = "metrics"
  BY DEF Records!Metrics
<1>7. CASE token[1] = "metrics" /\ ~ r.mGotMetrics
  <2>1. crc \in Seq(Token) /\ (Len(r.mRecordCrc) = 0 => crc = <<Records!Metrics>>)
    <3>1. crc \in Seq(Token)  BY <1>2, Appended
    <3>2. ASSUME Len(r.mRecordCrc) = 0 PROVE crc = <<Records!Metrics>>
      <4>1. r.mRecordCrc = <<>>  BY <1>2, <3>2, EmptyOrNot
      <4> QED BY <4>1
    <3> QED BY <3>1, <3>2
  <2>2. /\ reader' = [r EXCEPT !.mGotMetrics = TRUE, !.mRecordCrc = crc]
        /\ got' = got /\ result' = "reading"
    BY <1>2, <1>4, <1>7 DEF Records!GoOn, RecordReader
  <2> HIDE DEF crc
  <2>3. /\ reader' \in RecordReader /\ reader'.mRecordCrc = crc /\ reader'.mGotMetrics
        /\ reader'.mGotTotalRecords = r.mGotTotalRecords /\ reader'.mCrcCrc = r.mCrcCrc
        /\ reader'.mTotalRecords = r.mTotalRecords
    BY <1>2, <2>1, <2>2 DEF RecordReader
  <2>4. Counted(w, reader', got)  BY <1>1, <2>3 DEF Counted
  <2>5. ~ damaged => Left(s, t + 1, w, reader')
    <3>1. SUFFICES ASSUME ~ damaged PROVE Left(s, t + 1, w, reader')  OBVIOUS
    <3>2. /\ s[t + 2] = <<"metricsEnd", <<Records!Metrics>>>> /\ SumAt(s, t + 3, w)
          /\ Len(r.mRecordCrc) = 0
      BY <1>5, <1>7, <3>1
    <3>3. (t + 1) + 1 = t + 2 /\ (t + 1) + 2 = t + 3  OBVIOUS
    <3> QED BY <2>1, <2>3, <3>2, <3>3 DEF Left
  <2>6. ReadsAt(w, s, S, a, t + 1, reader', got, "reading", damaged)
    BY <1>3, <2>3, <2>5 DEF ReadsAt
  <2> QED BY <1>1, <1>2, <2>2, <2>3, <2>4, <2>6 DEF Follows
<1>8. CASE token[1] = "metricsEnd" /\ r.mGotMetrics /\ token[2] = r.mRecordCrc
  <2>1. reader' = r /\ got' = got /\ result' = "reading"
    BY <1>4, <1>8 DEF Records!GoOn
  <2>2. ~ damaged => Left(s, t + 1, w, r)
    <3>1. SUFFICES ASSUME ~ damaged PROVE Left(s, t + 1, w, r)  OBVIOUS
    <3>2. SumAt(s, t + 2, w)  BY <1>5, <1>6, <1>8, <3>1
    <3>3. (t + 1) + 1 = t + 2  OBVIOUS
    <3> QED BY <3>2, <3>3 DEF Left
  <2>3. ReadsAt(w, s, S, a, t + 1, r, got, "reading", damaged)
    BY <1>3, <2>2 DEF ReadsAt
  <2> QED BY <1>1, <1>2, <2>1, <2>3 DEF Follows
<1>9. CASE token[1] = "sum" /\ token[2] = r.mCrcCrc
  <2>1. reader' = r /\ got' = got /\ result' = "end"  BY <1>4, <1>9
  <2>2. token = <<"sum", w.mCrcCrc>>
    <3>1. PICK i \in Nat : \A j \in 1..Len(a) : a[j] = s[j] \/ (j = i /\ a[j] \in Records!Changed(s[j]))
      BY <1>1 DEF Altered
    <3>2. /\ a \in Seq(Token) /\ Len(a) <= Len(s) /\ s \in Seq(SentToken)
          /\ \A j \in 1..Len(s) : s[j][1] = "sum" => s[j] = <<"sum", w.mCrcCrc>>
      BY <1>1 DEF Altered, SentOK
    <3>3. t + 1 \in 1..Len(a) /\ t + 1 \in 1..Len(s)
      <4>1. Len(a) \in Nat /\ Len(s) \in Nat  BY <3>2, EmptyOrNot
      <4> QED BY <3>2, <4>1
    <3>4. s[t + 1] \in SentToken  BY <3>2, <3>3, ElementOfSeq
    <3>5. token = s[t + 1] \/ token \in Records!Changed(s[t + 1])
      BY <3>1, <3>3 DEF token
    <3>6. token = s[t + 1]  BY <1>9, <3>4, <3>5, ChangedTags
    <3> QED BY <1>9, <3>2, <3>3, <3>6
  <2>3. r.mCrcCrc = w.mCrcCrc  BY <1>9, <2>2
  <2>4. Len(got) = Len(w.written)  BY <1>1, <1>2, <2>3, CountedAll
  <2>5. ReadsAt(w, s, S, a, t + 1, r, got, "end", damaged)
    BY <1>3 DEF ReadsAt, Continues
  <2> QED BY <1>1, <1>2, <2>1, <2>4, <2>5 DEF Follows
<1>10. CASE /\ Records!Throws /\ ~ (token[1] = "metrics" /\ ~ r.mGotMetrics)
            /\ ~ (token[1] = "metricsEnd" /\ r.mGotMetrics /\ token[2] = r.mRecordCrc)
            /\ ~ (token[1] = "sum" /\ token[2] = r.mCrcCrc)
  <2>1. damaged
    <3>1. SUFFICES ASSUME ~ damaged PROVE FALSE  BY DEF RecordTypeOK
    <3>2. r.mCrcCrc = w.mCrcCrc  BY <1>1, <1>2, <1>3, <3>1, CountedAll
    <3> QED BY <1>5, <1>6, <1>10, <3>1, <3>2
  <2> QED BY <1>10, <2>1, ThrowsOK
<1> QED BY <1>4, <1>7, <1>8, <1>9, <1>10

\* A cell more of a record.
LEMMA CellOK ==
  ASSUME RecordTypeOK, WritesOK(writer),
         NEW s, NEW S, NEW a, NEW t \in Nat, t + 1 <= Len(a),
         Follows(writer, s, S, a, t, reader, got, "reading", damaged),
         result = "reading", ~ reader.mGotTotalRecords,
         a[t + 1][1] = "cell", Records!ReadCell(a[t + 1])
  PROVE  /\ reader' \in RecordReader /\ got' \in Seq(Records!Record)
         /\ result' \in {"none", "reading", "record", "end", "exception"}
         /\ Follows(writer, s, S, a, t + 1, reader', got', result', damaged)
<1> DEFINE w == writer
           r == reader
           token == a[t + 1]
           crc == Append(r.mRecordCrc, token)
           k == Len(got)
<1>1. /\ SentOK(s, S, w, TRUE) /\ Altered(a, s) /\ Counted(w, r, got)
      /\ ReadsAt(w, s, S, a, t, r, got, "reading", damaged)
  BY DEF Follows
<1>2. /\ r \in RecordReader /\ got \in Seq(Records!Record) /\ r.mRecordCrc \in Seq(Token)
      /\ a \in Seq(Token) /\ Len(got) \in Nat /\ w \in RecordWriter /\ s \in Seq(SentToken)
  <2>1. /\ r \in RecordReader /\ got \in Seq(Records!Record) /\ r.mRecordCrc \in Seq(Token)
        /\ a \in Seq(Token) /\ w \in RecordWriter /\ s \in Seq(SentToken)
    BY <1>1 DEF RecordTypeOK, RecordReader, Altered, WritesOK, SentOK
  <2> QED BY <2>1, EmptyOrNot
<1> HIDE DEF k
<1>3. /\ Within(a, t, S, r, k)
      /\ ~ damaged => a = s /\ ~ w.torn /\ ~ w.broken
  BY <1>1 DEF ReadsAt, Continues, k
<1>4. token \in Token
  <2>1. Len(a) \in Nat  BY <1>2, EmptyOrNot
  <2>2. t + 1 \in 1..Len(a)  BY <2>1
  <2> QED BY <1>2, <2>2, ElementOfSeq
<1>5. Records!GoOn([r EXCEPT !.mRecordCrc = Append(@, token)]) \/ (token[3] = "garbage" /\ Records!Throws)
  BY DEF Records!ReadCell
<1> HIDE DEF token
<1>6. CASE Records!GoOn([r EXCEPT !.mRecordCrc = Append(@, token)])
  <2>1. /\ reader' = [r EXCEPT !.mRecordCrc = crc] /\ got' = got /\ result' = "reading"
    BY <1>2, <1>6 DEF Records!GoOn, RecordReader
  <2>2. /\ crc \in Seq(Token) /\ Len(crc) = Len(r.mRecordCrc) + 1
        /\ \A i \in 1..Len(r.mRecordCrc) : crc[i] = r.mRecordCrc[i]
        /\ crc[Len(r.mRecordCrc) + 1] = token
    BY <1>2, <1>4, Appended
  <2> HIDE DEF crc
  <2>3. /\ reader' \in RecordReader /\ reader'.mRecordCrc = crc
        /\ reader'.mGotTotalRecords = r.mGotTotalRecords /\ reader'.mCrcCrc = r.mCrcCrc
        /\ reader'.mTotalRecords = r.mTotalRecords /\ reader'.mGotMetrics = r.mGotMetrics
    BY <1>2, <2>1, <2>2 DEF RecordReader
  <2>4. Counted(w, reader', got)  BY <1>1, <2>3 DEF Counted
  <2>5. Within(a, t + 1, S, reader', k)
    <3>1. PICK p \in Nat :
            /\ p <= t /\ <<p, k>> \in S /\ Len(r.mRecordCrc) = t - p
            /\ \A j \in 1..(t - p) : r.mRecordCrc[j] = a[p + j] /\ a[p + j][1] = "cell"
      BY <1>3 DEF Within
    <3>2. p <= t + 1 /\ Len(crc) = (t + 1) - p  BY <2>2, <3>1
    <3>3. ASSUME NEW j \in 1..((t + 1) - p) PROVE crc[j] = a[p + j] /\ a[p + j][1] = "cell"
      <4>1. CASE j = (t - p) + 1
        <5>1. p + j = t + 1 /\ j = Len(r.mRecordCrc) + 1  BY <3>1, <4>1
        <5> QED BY <2>2, <5>1 DEF token
      <4>2. CASE j # (t - p) + 1
        <5>1. j \in 1..(t - p) /\ j \in 1..Len(r.mRecordCrc)  BY <3>1, <4>2
        <5> QED BY <2>2, <3>1, <5>1
      <4> QED BY <4>1, <4>2
    <3> QED BY <2>3, <3>1, <3>2, <3>3 DEF Within
  <2>6. ReadsAt(w, s, S, a, t + 1, reader', got, "reading", damaged)
    BY <1>3, <2>3, <2>5 DEF ReadsAt, k
  <2> QED BY <1>1, <1>2, <2>1, <2>3, <2>4, <2>6 DEF Follows
<1>7. CASE token[3] = "garbage" /\ Records!Throws
  <2>1. damaged
    <3>1. SUFFICES ASSUME ~ damaged PROVE FALSE  BY DEF RecordTypeOK
    <3>2. t + 1 \in 1..Len(s)
      <4>1. Len(s) \in Nat /\ t + 1 <= Len(s)  BY <1>2, <1>3, <3>1, EmptyOrNot
      <4> QED BY <4>1
    <3>3. token \in SentToken  BY <1>2, <1>3, <3>1, <3>2, ElementOfSeq DEF token
    <3>4. token[1] = "cell"  BY DEF token
    <3> QED BY <1>7, <3>3, <3>4, Tags
  <2> QED BY <1>7, <2>1, ThrowsOK
<1> QED BY <1>5, <1>6, <1>7

\* A record is whole.
LEMMA ReadEndOK ==
  ASSUME RecordTypeOK, WritesOK(writer),
         NEW s, NEW S, NEW a, NEW t \in Nat, t + 1 <= Len(a),
         Follows(writer, s, S, a, t, reader, got, "reading", damaged),
         result = "reading", ~ reader.mGotTotalRecords,
         a[t + 1][1] = "end", Records!ReadEnd(a[t + 1][2])
  PROVE  /\ reader' \in RecordReader /\ got' \in Seq(Records!Record)
         /\ result' \in {"none", "reading", "record", "end", "exception"}
         /\ Follows(writer, s, S, a, t + 1, reader', got', result', damaged)
<1> DEFINE w == writer
           r == reader
           crc == a[t + 1][2]
           k == Len(got)
           none == <<>>
<1>1. /\ SentOK(s, S, w, TRUE) /\ Altered(a, s) /\ Counted(w, r, got)
      /\ ReadsAt(w, s, S, a, t, r, got, "reading", damaged)
  BY DEF Follows
<1>2. /\ r \in RecordReader /\ got \in Seq(Records!Record) /\ r.mRecordCrc \in Seq(Token)
      /\ k \in Nat /\ w \in RecordWriter /\ w.written \in Seq(Records!Record)
      /\ r.mCrcCrc \in Seq(Seq(Token)) /\ r.mTotalRecords \in Nat
  <2>1. /\ r \in RecordReader /\ got \in Seq(Records!Record) /\ r.mRecordCrc \in Seq(Token)
        /\ w \in RecordWriter /\ w.written \in Seq(Records!Record)
        /\ r.mCrcCrc \in Seq(Seq(Token)) /\ r.mTotalRecords \in Nat
    BY <1>1 DEF RecordTypeOK, RecordReader, WritesOK, RecordWriter
  <2> QED BY <2>1, EmptyOrNot
<1>3. /\ Within(a, t, S, r, k)
      /\ ~ damaged => a = s /\ ~ w.torn /\ ~ w.broken
  BY <1>1 DEF ReadsAt, Continues
<1>4. CASE r.mRecordCrc # crc
  <2>1. Records!Throws  BY <1>4 DEF Records!ReadEnd
  <2>2. damaged
    <3>1. SUFFICES ASSUME ~ damaged PROVE FALSE  BY DEF RecordTypeOK
    <3>2. \/ s[t + 1] \in CellToken
          \/ s[t + 1] = <<"end", r.mRecordCrc>>
          \/ s[t + 1] = <<"count", Len(w.written)>>
      <4>1. /\ w \in RecordWriter /\ SentOK(s, S, w, TRUE) /\ ~ w.torn /\ ~ w.broken
            /\ t \in Nat /\ k \in Nat /\ r \in RecordReader /\ Within(s, t, S, r, k)
        BY <1>1, <1>2, <1>3, <3>1
      <4> HIDE DEF w, r, k
      <4> QED BY ONLY <4>1, UndamagedNext
    <3>3. s[t + 1][1] = "end" /\ s[t + 1][2] # r.mRecordCrc  BY <1>3, <1>4, <3>1
    <3>4. s[t + 1] \in CellToken => s[t + 1][1] = "cell"  BY DEF CellToken
    <3> QED BY <3>2, <3>3, <3>4
  <2> QED BY <2>1, <2>2, ThrowsOK
<1>5. CASE r.mRecordCrc = crc
  <2> DEFINE rec == w.written[k + 1]
             g == Append(got, rec)
             c == Append(r.mCrcCrc, r.mRecordCrc)
  <2>1. /\ k + 1 <= Len(w.written) /\ <<t + 1, k + 1>> \in S
        /\ r.mRecordCrc = Records!Cells(rec, Columns)
    <3>1. /\ SentOK(s, S, w, TRUE) /\ Altered(a, s) /\ t \in Nat /\ t + 1 <= Len(a) /\ k \in Nat
          /\ r \in RecordReader /\ Within(a, t, S, r, k)
          /\ a[t + 1][1] = "end" /\ a[t + 1][2] = r.mRecordCrc
      BY <1>1, <1>2, <1>3, <1>5
    <3> HIDE DEF w, r, k
    <3> QED BY ONLY <3>1, EndAccepted
  <2>2. rec \in Records!Record
    <3>1. Len(w.written) \in Nat  BY <1>2, EmptyOrNot
    <3>2. k + 1 \in 1..Len(w.written)  BY <1>2, <2>1, <3>1
    <3> HIDE DEF k
    <3> QED BY <1>2, <3>2, ElementOfSeq
  <2>3. Records!Filled(r.mRecordCrc) = rec
    <3> HIDE DEF rec
    <3> QED BY <2>1, <2>2, FilledCells
  <2>4. /\ reader' = [r EXCEPT !.mTotalRecords = @ + 1, !.mCrcCrc = Append(@, r.mRecordCrc),
                               !.mRecordCrc = <<>>]
        /\ got' = Append(got, Records!Filled(r.mRecordCrc)) /\ result' = "record"
    BY <1>5 DEF Records!ReadEnd
  <2>5. got' = g  BY <2>3, <2>4
  <2>6. /\ g \in Seq(Records!Record) /\ Len(g) = k + 1
        /\ \A i \in 1..k : g[i] = got[i]
        /\ g[k + 1] = rec
    <3> HIDE DEF rec
    <3> QED BY <1>2, <2>2, Appended
  <2>7. /\ c \in Seq(Seq(Token)) /\ Len(c) = Len(r.mCrcCrc) + 1
        /\ \A i \in 1..Len(r.mCrcCrc) : c[i] = r.mCrcCrc[i]
        /\ c[Len(r.mCrcCrc) + 1] = r.mRecordCrc
    <3>1. r.mCrcCrc \in Seq(Seq(Token)) /\ r.mRecordCrc \in Seq(Token)  BY <1>2
    <3> QED BY ONLY <3>1, Appended
  <2>8. /\ Begins(got, w.written) /\ r.mTotalRecords = k /\ Len(r.mCrcCrc) = k
        /\ \A j \in 1..k : r.mCrcCrc[j] = Records!Cells(got[j], Columns)
        /\ ~ r.mGotMetrics
    BY <1>1 DEF Counted
  <2>9. none \in Seq(Token) /\ Len(none) = 0  OBVIOUS
  <2> HIDE DEF g, c, rec, none, k
  <2>10. reader' = [mRecordCrc |-> none, mCrcCrc |-> c, mTotalRecords |-> k + 1,
                    mGotTotalRecords |-> r.mGotTotalRecords, mGotMetrics |-> r.mGotMetrics]
    <3>1. reader' = [r EXCEPT !.mTotalRecords = k + 1, !.mCrcCrc = c, !.mRecordCrc = none]
      BY <1>2, <2>4, <2>8 DEF RecordReader, c, none
    <3> QED BY <1>2, <3>1 DEF RecordReader
  <2>11. r.mGotTotalRecords \in BOOLEAN /\ r.mGotMetrics \in BOOLEAN
    BY <1>2 DEF RecordReader
  <2>12. /\ reader' \in RecordReader /\ reader'.mRecordCrc = none /\ reader'.mCrcCrc = c
         /\ reader'.mTotalRecords = k + 1 /\ ~ reader'.mGotTotalRecords /\ ~ reader'.mGotMetrics
    BY <1>2, <2>7, <2>8, <2>9, <2>10, <2>11 DEF RecordReader
  <2>13. Counted(w, reader', g)
    <3>1. Begins(g, w.written)
      <4>1. ASSUME NEW i \in 1..(k + 1) PROVE g[i] = w.written[i]
        <5>1. CASE i = k + 1  BY <2>6, <5>1 DEF rec
        <5>2. CASE i # k + 1
          <6>1. i \in 1..k  BY <1>2, <5>2
          <6> QED BY <2>6, <2>8, <6>1 DEF Begins, k
        <5> QED BY <5>1, <5>2
      <4> QED BY <2>1, <2>6, <4>1 DEF Begins
    <3>2. ASSUME NEW j \in 1..(k + 1) PROVE c[j] = Records!Cells(g[j], Columns)
      <4>1. CASE j = k + 1  BY <2>1, <2>6, <2>7, <2>8, <4>1
      <4>2. CASE j # k + 1
        <5>1. j \in 1..k  BY <1>2, <4>2
        <5> QED BY <2>6, <2>7, <2>8, <5>1
      <4> QED BY <4>1, <4>2
    <3>3. Len(c) = k + 1  BY <2>7, <2>8
    <3> QED BY <2>6, <2>12, <3>1, <3>2, <3>3 DEF Counted
  <2>14. Within(a, t + 1, S, reader', k + 1)
    <3>1. t + 1 \in Nat /\ t + 1 <= t + 1 /\ Len(none) = (t + 1) - (t + 1)
      BY <2>9
    <3>2. \A j \in 1..((t + 1) - (t + 1)) : FALSE  OBVIOUS
    <3> QED BY <2>1, <2>12, <3>1, <3>2 DEF Within
  <2>15. ReadsAt(w, s, S, a, t + 1, reader', g, "record", damaged)
    BY <1>3, <2>6, <2>12, <2>14 DEF ReadsAt, Continues
  <2> QED BY <1>1, <2>4, <2>5, <2>6, <2>12, <2>13, <2>15 DEF Follows
<1> QED BY <1>4, <1>5

\* All records came.
LEMMA ReadCountOK ==
  ASSUME RecordTypeOK, WritesOK(writer),
         NEW s, NEW S, NEW a, NEW t \in Nat, t + 1 <= Len(a),
         Follows(writer, s, S, a, t, reader, got, "reading", damaged),
         result = "reading", ~ reader.mGotTotalRecords,
         a[t + 1][1] = "count", Records!ReadCount(a[t + 1][2])
  PROVE  /\ reader' \in RecordReader /\ got' \in Seq(Records!Record)
         /\ result' \in {"none", "reading", "record", "end", "exception"}
         /\ Follows(writer, s, S, a, t + 1, reader', got', result', damaged)
<1> DEFINE w == writer
           r == reader
           k == Len(got)
<1>1. /\ SentOK(s, S, w, TRUE) /\ Altered(a, s) /\ Counted(w, r, got)
      /\ ReadsAt(w, s, S, a, t, r, got, "reading", damaged)
  BY DEF Follows
<1>2. r \in RecordReader /\ got \in Seq(Records!Record) /\ w \in RecordWriter /\ k \in Nat
  <2>1. r \in RecordReader /\ got \in Seq(Records!Record) /\ w \in RecordWriter
    BY DEF RecordTypeOK, WritesOK
  <2> QED BY <2>1, EmptyOrNot
<1>3. /\ Within(a, t, S, r, k) /\ r.mTotalRecords = k /\ ~ r.mGotMetrics
      /\ ~ damaged => a = s /\ ~ w.torn /\ ~ w.broken
  BY <1>1 DEF ReadsAt, Continues, Counted
<1> HIDE DEF k
<1>4. ~ damaged =>
        /\ k = Len(w.written) /\ a[t + 1] = <<"count", Len(w.written)>>
        /\ \/ SumAt(s, t + 2, w)
           \/ /\ Len(r.mRecordCrc) = 0 /\ s[t + 2] = Records!Metrics
              /\ s[t + 3] = <<"metricsEnd", <<Records!Metrics>>>> /\ SumAt(s, t + 4, w)
  <2>1. SUFFICES ASSUME ~ damaged
        PROVE  /\ k = Len(w.written) /\ s[t + 1] = <<"count", Len(w.written)>>
               /\ \/ SumAt(s, t + 2, w)
                  \/ /\ Len(r.mRecordCrc) = 0 /\ s[t + 2] = Records!Metrics
                     /\ s[t + 3] = <<"metricsEnd", <<Records!Metrics>>>> /\ SumAt(s, t + 4, w)
    BY <1>3
  <2>2. s[t + 1][1] = "count"  BY <1>3, <2>1
  <2>3. s[t + 1] \notin CellToken /\ s[t + 1] # <<"end", r.mRecordCrc>>
    BY <2>2 DEF CellToken
  <2>4. /\ w \in RecordWriter /\ SentOK(s, S, w, TRUE) /\ ~ w.torn /\ ~ w.broken
        /\ t \in Nat /\ k \in Nat /\ r \in RecordReader /\ Within(s, t, S, r, k)
    BY <1>1, <1>2, <1>3, <2>1
  <2> HIDE DEF w, r
  <2> QED BY ONLY <2>3, <2>4, UndamagedNext
<1>5. CASE Records!Throws /\ a[t + 1][2] # r.mTotalRecords
  <2>1. damaged  BY <1>3, <1>4, <1>5 DEF RecordTypeOK
  <2> QED BY <1>5, <2>1, ThrowsOK
<1>6. CASE Records!GoOn([r EXCEPT !.mGotTotalRecords = TRUE])
  <2>1. reader' = [r EXCEPT !.mGotTotalRecords = TRUE] /\ got' = got /\ result' = "reading"
    BY <1>6 DEF Records!GoOn
  <2>2. /\ reader' \in RecordReader /\ reader'.mGotTotalRecords
        /\ reader'.mRecordCrc = r.mRecordCrc /\ reader'.mCrcCrc = r.mCrcCrc
        /\ reader'.mTotalRecords = r.mTotalRecords /\ reader'.mGotMetrics = r.mGotMetrics
    BY <1>2, <2>1 DEF RecordReader
  <2>3. Counted(w, reader', got)  BY <1>1, <2>2 DEF Counted
  <2>4. ~ damaged => Len(got) = Len(w.written) /\ Left(s, t + 1, w, reader')
    <3>1. (t + 1) + 1 = t + 2 /\ (t + 1) + 2 = t + 3 /\ (t + 1) + 3 = t + 4
      OBVIOUS
    <3> QED BY <1>3, <1>4, <2>2, <3>1 DEF Left, k
  <2>5. ReadsAt(w, s, S, a, t + 1, reader', got, "reading", damaged)
    BY <1>3, <2>2, <2>4 DEF ReadsAt
  <2> QED BY <1>1, <1>2, <2>1, <2>2, <2>3, <2>5 DEF Follows
<1> QED BY <1>5, <1>6 DEF Records!ReadCount

\* The steps of the reader leave the writer alone.
LEMMA ReaderSteps ==
  ASSUME RecordsInv, phase \in {"reading", "returned", "threw"}, UNCHANGED <<writer, phase, damaged>>,
         phase # "returned",
         wire' \in Seq(Token), reader' \in RecordReader, got' \in Seq(Records!Record),
         result' \in {"none", "reading", "record", "end", "exception"},
         NEW s \in Seq(SentToken), NEW S \in Places, NEW a \in Seq(Token), NEW t \in Nat,
         IsRest(wire', a, t), Follows(writer, s, S, a, t, reader', got', result', damaged)
  PROVE  RecordsInv'
<1>1. RecordTypeOK /\ WritesOK(writer)
  BY DEF RecordsInv
<1>2. RecordTypeOK'
  BY <1>1 DEF RecordTypeOK
<1>3. RecordReads(writer', wire', reader', got', result', damaged')
  <2>1. RecordReads(writer, wire', reader', got', result', damaged)
    BY DEF RecordReads
  <2> QED BY <2>1
<1>4. WritesOK(writer') /\ phase' \notin {"writing", "completed", "closed"} /\ phase' # "returned"
  BY <1>1
<1> QED BY <1>2, <1>3, <1>4 DEF RecordsInv

\* Undamaged, there is always a token to read before the end.
LEMMA NotYet ==
  ASSUME WritesOK(writer), NEW s, NEW S, NEW a, NEW t \in Nat, RecordTypeOK,
         Follows(writer, s, S, a, t, reader, got, "reading", damaged), ~ damaged
  PROVE  t + 1 <= Len(a)
<1> DEFINE w == writer
           r == reader
           k == Len(got)
<1>1. /\ SentOK(s, S, w, TRUE) /\ a = s /\ ~ w.torn /\ ~ w.broken
      /\ r.mGotTotalRecords => Left(s, t, w, r)
      /\ ~ r.mGotTotalRecords => Within(s, t, S, r, k)
  BY DEF Follows, ReadsAt, Continues
<1>2. r \in RecordReader /\ w \in RecordWriter /\ k \in Nat
  <2>1. r \in RecordReader /\ w \in RecordWriter /\ got \in Seq(Records!Record)
    BY DEF RecordTypeOK, WritesOK
  <2> QED BY <2>1, EmptyOrNot
<1>3. CASE r.mGotTotalRecords
  <2>1. Len(s) = t + 1 \/ Len(s) = t + 2 \/ Len(s) = t + 3
    BY <1>1, <1>3 DEF Left, SumAt
  <2> QED BY <1>1, <2>1
<1>4. CASE ~ r.mGotTotalRecords
  <2>1. /\ w \in RecordWriter /\ SentOK(s, S, w, TRUE) /\ ~ w.torn /\ ~ w.broken
        /\ t \in Nat /\ k \in Nat /\ r \in RecordReader /\ Within(s, t, S, r, k)
    BY <1>1, <1>2, <1>4
  <2>2. t + 1 <= Len(s)
    <3> HIDE DEF w, r, k
    <3> QED BY ONLY <2>1, UndamagedNext
  <2> QED BY <1>1, <2>2
<1> QED BY <1>3, <1>4

LEMMA ReadTokenOK ==
  ASSUME RecordsInv, Records!ReadToken
  PROVE  RecordsInv'
<1> DEFINE none == <<>>
           x == Tail(wire)
<1>1. /\ result = "reading" /\ UNCHANGED <<writer, phase, damaged>>
  BY DEF Records!ReadToken
<1>2. RecordTypeOK /\ WritesOK(writer) /\ wire \in Seq(Token)
  BY DEF RecordsInv, RecordTypeOK
<1>3. /\ phase \notin {"writing", "completed", "closed"} /\ phase # "returned"
      /\ RecordReads(writer, wire, reader, got, "reading", damaged)
  BY <1>1 DEF RecordsInv, Unread
<1>4. phase \in {"reading", "returned", "threw"}
  BY <1>2, <1>3 DEF RecordTypeOK
<1>5. PICK s \in Seq(SentToken), S \in Places, a \in Seq(Token), t \in Nat :
        IsRest(wire, a, t) /\ Follows(writer, s, S, a, t, reader, got, "reading", damaged)
  BY <1>3 DEF RecordReads
<1>6. /\ Len(a) \in Nat /\ Len(wire) \in Nat /\ t <= Len(a) /\ Len(wire) = Len(a) - t
      /\ \A j \in 1..Len(wire) : wire[j] = a[t + j]
      /\ wire = none <=> Len(wire) = 0
  BY <1>2, <1>5, EmptyOrNot DEF IsRest
<1> HIDE DEF none
<1>7. CASE wire = none
  <2>1. Records!Throws /\ wire' = wire  BY <1>7 DEF Records!ReadToken, none
  <2>2. damaged
    <3>1. ~ (t + 1 <= Len(a))  BY <1>6, <1>7
    <3> QED BY <1>2, <1>5, <3>1, NotYet DEF RecordTypeOK
  <2>3. /\ reader' \in RecordReader /\ got' \in Seq(Records!Record)
        /\ result' \in {"none", "reading", "record", "end", "exception"}
        /\ Follows(writer, s, S, a, t, reader', got', result', damaged)
    BY <1>2, <1>5, <2>1, <2>2, ThrowsOK
  <2> QED BY <1>1, <1>2, <1>3, <1>4, <1>5, <2>1, <2>3, ReaderSteps
<1>8. CASE wire # none
  <2> DEFINE token == Head(wire)
  <2>1. /\ wire' = x
        /\ reader.mGotTotalRecords => Records!ReadMeta(token)
        /\ ~ reader.mGotTotalRecords =>
             CASE token[1] = "cell"  -> Records!ReadCell(token)
               [] token[1] = "end"   -> Records!ReadEnd(token[2])
               [] token[1] = "count" -> Records!ReadCount(token[2])
               [] OTHER              -> Records!Throws
    BY <1>8 DEF Records!ReadToken, none
  <2>2. Len(wire) # 0 /\ t + 1 <= Len(a)  BY <1>6, <1>8
  <2>3. token = a[t + 1]
    <3>1. token = wire[1] /\ 1 \in 1..Len(wire)
      BY <1>2, <1>6, <1>8, <2>2 DEF none
    <3> QED BY <1>6, <3>1
  <2>4. x \in Seq(Token) /\ IsRest(x, a, t + 1)
    <3>1. /\ x \in Seq(Token) /\ Len(x) = Len(wire) - 1
          /\ \A i \in 1..Len(x) : x[i] = wire[i + 1]
      BY <1>2, <1>8, HeadTailProperties DEF none
    <3> HIDE DEF x
    <3>2. ASSUME NEW j \in 1..Len(x) PROVE x[j] = a[(t + 1) + j]
      <4>1. j + 1 \in 1..Len(wire) /\ t + (j + 1) = (t + 1) + j  BY <1>6, <3>1
      <4> QED BY <1>6, <3>1, <4>1
    <3>3. t + 1 <= Len(a) /\ Len(x) = Len(a) - (t + 1)  BY <1>6, <2>2, <3>1
    <3> QED BY <3>1, <3>2, <3>3 DEF IsRest
  <2> HIDE DEF x
  <2>5. /\ reader' \in RecordReader /\ got' \in Seq(Records!Record)
        /\ result' \in {"none", "reading", "record", "end", "exception"}
        /\ Follows(writer, s, S, a, t + 1, reader', got', result', damaged)
    <3> HIDE DEF token
    <3>1. CASE reader.mGotTotalRecords
      <4>1. Records!ReadMeta(a[t + 1])  BY <2>1, <2>3, <3>1
      <4> QED BY <1>1, <1>2, <1>5, <2>2, <3>1, <4>1, MetaOK
    <3>2. CASE ~ reader.mGotTotalRecords /\ token[1] = "cell"
      <4>1. Records!ReadCell(a[t + 1]) /\ a[t + 1][1] = "cell"
        BY <2>1, <2>3, <3>2
      <4> QED BY <1>1, <1>2, <1>5, <2>2, <3>2, <4>1, CellOK
    <3>3. CASE ~ reader.mGotTotalRecords /\ token[1] = "end"
      <4>1. Records!ReadEnd(a[t + 1][2]) /\ a[t + 1][1] = "end"
        BY <2>1, <2>3, <3>3
      <4> QED BY <1>1, <1>2, <1>5, <2>2, <3>3, <4>1, ReadEndOK
    <3>4. CASE ~ reader.mGotTotalRecords /\ token[1] = "count"
      <4>1. Records!ReadCount(a[t + 1][2]) /\ a[t + 1][1] = "count"
        BY <2>1, <2>3, <3>4
      <4> QED BY <1>1, <1>2, <1>5, <2>2, <3>4, <4>1, ReadCountOK
    <3>5. CASE ~ reader.mGotTotalRecords /\ token[1] \notin {"cell", "end", "count"}
      <4>1. Records!Throws  BY <2>1, <3>5
      <4>2. damaged
        <5>1. SUFFICES ASSUME ~ damaged PROVE FALSE  BY <1>2 DEF RecordTypeOK
        <5> DEFINE w == writer
                   r == reader
                   k == Len(got)
        <5>2. /\ SentOK(s, S, w, TRUE) /\ a = s /\ ~ w.torn /\ ~ w.broken /\ Within(s, t, S, r, k)
          BY <1>5, <3>5, <5>1 DEF Follows, ReadsAt, Continues
        <5>3. r \in RecordReader /\ w \in RecordWriter /\ k \in Nat /\ t \in Nat
          <6>1. r \in RecordReader /\ w \in RecordWriter /\ got \in Seq(Records!Record)
            BY <1>2 DEF RecordTypeOK, WritesOK
          <6> QED BY <6>1, EmptyOrNot
        <5>4. token = s[t + 1]  BY <2>3, <5>2
        <5> HIDE DEF w, r, k
        <5>5. \/ s[t + 1] \in CellToken
              \/ s[t + 1] = <<"end", r.mRecordCrc>>
              \/ s[t + 1] = <<"count", Len(w.written)>>
          BY ONLY <5>2, <5>3, UndamagedNext
        <5>6. s[t + 1] \in CellToken => s[t + 1][1] = "cell"  BY DEF CellToken
        <5> QED BY <3>5, <5>4, <5>5, <5>6
      <4> QED BY <1>2, <1>5, <4>1, <4>2, ThrowsOK
    <3> QED BY <3>1, <3>2, <3>3, <3>4, <3>5
  <2>6. wire' \in Seq(Token) /\ IsRest(wire', a, t + 1) /\ t + 1 \in Nat
    BY <2>1, <2>4
  <2> HIDE DEF token
  <2> QED BY <1>1, <1>3, <1>4, <2>5, <2>6, ReaderSteps
<1> QED BY <1>7, <1>8

\* Reading goes on, unless it has come to an end.
LEMMA DeserializeOK ==
  ASSUME RecordsInv, Records!Deserialize
  PROVE  RecordsInv'
<1>1. /\ phase = "reading" /\ result \in {"none", "record"} /\ result' = "reading"
      /\ UNCHANGED <<writer, wire, phase, damaged, reader, got>>
  BY DEF Records!Deserialize
<1>2. RecordTypeOK /\ WritesOK(writer) /\ RecordReads(writer, wire, reader, got, result, damaged)
  BY <1>1 DEF RecordsInv
<1>3. PICK s \in Seq(SentToken), S \in Places, a \in Seq(Token), t \in Nat :
        IsRest(wire, a, t) /\ Follows(writer, s, S, a, t, reader, got, result, damaged)
  BY <1>2 DEF RecordReads
<1>4. Follows(writer, s, S, a, t, reader, got, "reading", damaged)
  BY <1>1, <1>3 DEF Follows, ReadsAt, Continues
<1>5. /\ reader' \in RecordReader /\ got' \in Seq(Records!Record) /\ wire' \in Seq(Token)
      /\ IsRest(wire', a, t) /\ Follows(writer, s, S, a, t, reader', got', result', damaged)
  BY <1>1, <1>2, <1>3, <1>4 DEF RecordTypeOK
<1> QED BY <1>1, <1>5, ReaderSteps

\* The answer, or none.
LEMMA RecordCloseOK ==
  ASSUME RecordsInv, Records!CloseReturns \/ Records!CloseThrows
  PROVE  RecordsInv'
<1>1. /\ phase = "reading" /\ UNCHANGED <<writer, wire, damaged, reader, got, result>>
      /\ (phase' = "returned" /\ result = "end") \/ phase' = "threw"
  BY DEF Records!CloseReturns, Records!CloseThrows, Records!readVars
<1>2. RecordTypeOK /\ WritesOK(writer) /\ RecordReads(writer, wire, reader, got, result, damaged)
  BY <1>1 DEF RecordsInv
<1>3. RecordTypeOK'
  BY <1>1, <1>2 DEF RecordTypeOK
<1>4. RecordReads(writer', wire', reader', got', result', damaged')
  BY <1>1, <1>2
<1>5. WritesOK(writer') /\ (phase' = "returned" => result' = "end")
      /\ phase' \notin {"writing", "completed", "closed"}
  BY <1>1, <1>2
<1> QED BY <1>3, <1>4, <1>5 DEF RecordsInv

\* Nothing was written or read.
LEMMA RecordsInitOK ==
  ASSUME Records!Init
  PROVE  RecordsInv
<1> DEFINE none == <<>>
           w == writer
           S == {<<0, 0>>}
<1>1. /\ none \in Seq(SentToken) /\ none \in Seq(Token) /\ none \in Seq(Seq(CellToken))
      /\ none \in Seq(Records!Record) /\ none \in Seq(CellToken) /\ none \in Seq(Seq(Token))
      /\ Len(none) = 0 /\ none \o none = none
  OBVIOUS
<1>2. /\ w = [buffer |-> none, hadError |-> FALSE, renewed |-> FALSE, broken |-> FALSE,
              mTotalRecords |-> 0, mCrcCrc |-> none,
              written |-> none, leftover |-> none, torn |-> FALSE]
      /\ reader = [mRecordCrc |-> none, mCrcCrc |-> none, mTotalRecords |-> 0,
                   mGotTotalRecords |-> FALSE, mGotMetrics |-> FALSE]
      /\ wire = none /\ phase = "writing" /\ damaged = FALSE /\ got = none /\ result = "none"
  BY DEF Records!Init
<1>3. Unread
  BY <1>2 DEF Unread
<1> HIDE DEF none
<1>4. /\ w \in RecordWriter /\ reader \in RecordReader
  BY <1>1, <1>2 DEF RecordWriter, RecordReader
<1>5. /\ w.buffer = none /\ ~ w.hadError /\ ~ w.broken /\ w.mTotalRecords = 0 /\ w.mCrcCrc = none
      /\ w.written = none /\ w.leftover = none
  BY <1>2
<1>6. WritesOK(w)
  BY <1>1, <1>4, <1>5, RecordConstants DEF WritesOK
<1>7. RecordTypeOK
  BY <1>1, <1>2, <1>4 DEF RecordTypeOK
<1>8. Begins(none, none)
  BY <1>1 DEF Begins
<1>9. Flows(wire, w, none)
  BY <1>1, <1>2, <1>5, <1>8 DEF Flows
<1>10. TailAt(none, w, 0, 0, FALSE)
  <2>1. CellsAt(none, 0, 0)  BY DEF CellsAt
  <2> QED BY <1>1, <1>5, <2>1 DEF TailAt
<1>11. SentOK(none, S, w, FALSE)
  <2>1. S \in Places /\ <<0, 0>> \in S  BY DEF Places
  <2>2. ASSUME NEW p \in Nat, NEW k \in Nat, <<p, k>> \in S
        PROVE  TailAt(none, w, p, k, FALSE)
    <3>1. p = 0 /\ k = 0  BY <2>2
    <3> QED BY <1>10, <3>1
  <2>3. Len(none) = 0  BY <1>1
  <2> HIDE DEF S, w
  <2>4. ASSUME NEW j \in 1..Len(none) PROVE FALSE  BY <2>3
  <2>5. \A p, k \in Nat : <<p, k>> \in S => RecordAt(none, S, w, p, k) \/ TailAt(none, w, p, k, FALSE)
    BY ONLY <2>2
  <2>6. \A j \in 1..Len(none) : none[j][1] = "sum" => FALSE /\ none[j] = <<"sum", w.mCrcCrc>>
    BY ONLY <2>4
  <2>7. none \in Seq(SentToken)  BY <1>1
  <2> QED BY ONLY <2>1, <2>5, <2>6, <2>7 DEF SentOK
<1>12. Sent(w, wire, phase)
  <2>1. S \in Places  BY DEF Places
  <2> HIDE DEF S
  <2> QED BY <1>1, <1>2, <1>9, <1>11, <2>1 DEF Sent
<1> QED BY <1>2, <1>3, <1>6, <1>7, <1>12 DEF RecordsInv

LEMMA RecordsNextOK ==
  ASSUME RecordsInv, Records!Next
  PROVE  RecordsInv'
<1>1. ASSUME NEW r \in Records!Record, Records!Serialize(r) PROVE RecordsInv'
  BY <1>1, SerializeOK
<1>2. ASSUME NEW r \in Records!Record, NEW columns \in 1..(Columns - 1),
             Records!SerializeThrows(r, columns)
      PROVE  RecordsInv'
  BY <1>2, SerializeThrowsOK
<1>3. ASSUME NEW metrics \in BOOLEAN, Records!Complete(metrics) PROVE RecordsInv'
  BY <1>3, CompleteOK
<1> QED
  BY <1>1, <1>2, <1>3, CloseUpstreamOK, RecordArrivesOK, RecordCloseOK, DeserializeOK, ReadTokenOK
  DEF Records!Next

\* What the framing is about.
LEMMA RecordsStay ==
  ASSUME RecordsInv, UNCHANGED <<writer, wire, phase, damaged, reader, got, result>>
  PROVE  RecordsInv'
<1>1. (RecordTypeOK' <=> RecordTypeOK) /\ (Unread' <=> Unread)
  BY DEF RecordTypeOK, Unread
<1> QED BY <1>1 DEF RecordsInv

\* What the invariant says of what was returned.
LEMMA RecordsSafe ==
  ASSUME RecordsInv
  PROVE  Records!ReadsOnlyWritten /\ Records!WholeUnlessDamaged /\ Records!EndMeansAll
<1> DEFINE d == writer.written
           none == <<>>
<1>1. /\ got \in Seq(Records!Record) /\ d \in Seq(Records!Record) /\ damaged \in BOOLEAN
  BY DEF RecordsInv, RecordTypeOK, WritesOK, RecordWriter
<1>2. Len(got) \in Nat /\ Len(d) \in Nat
  BY <1>1, EmptyOrNot
<1>3. /\ Begins(got, d) /\ (result = "end" => Len(got) = Len(d))
      /\ ~ damaged => result # "exception"
      /\ phase = "returned" => result = "end"
  <2>1. CASE phase \in {"writing", "completed", "closed"}
    <3>1. got = none /\ result = "none" /\ Len(none) = 0
      BY <2>1 DEF RecordsInv, Unread
    <3> HIDE DEF none, d
    <3>2. Begins(got, d)  BY <1>2, <3>1 DEF Begins
    <3> QED BY <2>1, <3>1, <3>2
  <2>2. CASE phase \notin {"writing", "completed", "closed"}
    <3>1. /\ RecordReads(writer, wire, reader, got, result, damaged)
          /\ phase = "returned" => result = "end"
      BY <2>2 DEF RecordsInv
    <3>2. PICK s \in Seq(SentToken), S \in Places, a \in Seq(Token), t \in Nat :
            Follows(writer, s, S, a, t, reader, got, result, damaged)
      BY <3>1 DEF RecordReads
    <3> QED BY <3>1, <3>2 DEF Follows, Counted, ReadsAt
  <2> QED BY <2>1, <2>2
<1> HIDE DEF d
<1>4. Len(got) = Len(d) => got = d
  BY <1>1, <1>3, SeqEqual DEF Begins
<1>5. \E n \in 0..Len(d) : got = SubSeq(d, 1, n)
  BY <1>1, <1>3, BeginningIsPart
<1> QED BY <1>3, <1>4, <1>5
  DEF d, Records!ReadsOnlyWritten, Records!WholeUnlessDamaged, Records!EndMeansAll

-----------------------------------------------------------------------------
(* The codecs: what symbols decode to.                                      *)

Bytes == Seq(Nat)

Symbol == {"head", "end", "half", "block"} \X Bytes

\* What the symbols so far gave: a number of bytes, whether in a frame, and the
\* block of which the first symbol came.
Decoder == [count : Nat, begun : BOOLEAN, half : Bytes]

Between(k, b) == [count |-> k, begun |-> b, half |-> <<>>]

\* Bytes after the first k of others.
LiesAt(s, d, k) == k + Len(s) <= Len(d) /\ \A i \in 1..Len(s) : s[i] = d[k + i]

\* One more symbol, of what encodes d.
Decoding(x, e, y, d) ==
  \/ e = Codec!FrameHead /\ ~ x.begun /\ x.half = <<>> /\ y = Between(x.count, TRUE)
  \/ e = Codec!FrameEnd /\ x.begun /\ x.half = <<>> /\ y = Between(x.count, FALSE)
  \/ \E b \in Bytes :
       /\ b # <<>> /\ x.begun
       /\ \/ e = <<"half", b>> /\ x.half = <<>>
             /\ y = [count |-> x.count, begun |-> TRUE, half |-> b]
          \/ e = <<"block", b>> /\ x.half = b /\ LiesAt(b, d, x.count)
             /\ y = Between(x.count + Len(b), TRUE)

Path(p, x, s, y, d) ==
  /\ p \in [0..Len(s) -> Decoder] /\ p[0] = x /\ p[Len(s)] = y
  /\ \A i \in 1..Len(s) : Decoding(p[i - 1], s[i], p[i], d)

Decodes(x, s, y, d) == \E p : Path(p, x, s, y, d)

\* No symbols.
LEMMA NoneDecodes ==
  ASSUME NEW x \in Decoder, NEW d
  PROVE  /\ Decodes(x, <<>>, x, d)
         /\ \A y : Decodes(x, <<>>, y, d) => y = x
<1> DEFINE none == <<>>
           q == [i \in 0..0 |-> x]
<1>1. Len(none) = 0
  OBVIOUS
<1> HIDE DEF none
<1>2. Path(q, x, none, x, d)
  BY <1>1 DEF Path
<1>3. ASSUME NEW y, Decodes(x, none, y, d) PROVE y = x
  BY <1>1, <1>3 DEF Decodes, Path
<1>4. Decodes(x, none, x, d)
  BY <1>2 DEF Decodes
<1> QED BY ONLY <1>3, <1>4 DEF none

\* One.
LEMMA OneDecodes ==
  ASSUME NEW x \in Decoder, NEW y \in Decoder, NEW e \in Symbol, NEW d, Decoding(x, e, y, d)
  PROVE  Decodes(x, <<e>>, y, d)
<1> DEFINE s == <<e>>
           q == [i \in 0..1 |-> IF i = 0 THEN x ELSE y]
<1>1. Len(s) = 1 /\ s[1] = e
  OBVIOUS
<1>2. q \in [0..1 -> Decoder] /\ q[0] = x /\ q[1] = y
  OBVIOUS
<1> HIDE DEF q, s
<1>3. ASSUME NEW i \in 1..1 PROVE Decoding(q[i - 1], s[i], q[i], d)
  <2>1. i = 1 /\ i - 1 = 0  OBVIOUS
  <2> QED BY ONLY <1>1, <1>2, <2>1, Decoding(x, e, y, d)
<1>4. Path(q, x, s, y, d)
  BY <1>1, <1>2, <1>3 DEF Path
<1> QED BY <1>4 DEF Decodes, s

\* Symbols and then more.
LEMMA BothDecode ==
  ASSUME NEW x, NEW s \in Seq(Symbol), NEW y, NEW t \in Seq(Symbol), NEW z, NEW d,
         Decodes(x, s, y, d), Decodes(y, t, z, d)
  PROVE  Decodes(x, s \o t, z, d)
<1> DEFINE u == s \o t
           m == Len(s)
           n == Len(t)
<1>1. /\ Len(u) = m + n /\ m \in Nat /\ n \in Nat
      /\ \A i \in 1..m : u[i] = s[i]
      /\ \A i \in 1..n : u[m + i] = t[i]
  BY Joined, EmptyOrNot
<1>2. PICK p : Path(p, x, s, y, d)
  BY DEF Decodes
<1>3. PICK q : Path(q, y, t, z, d)
  BY DEF Decodes
<1> DEFINE r == [i \in 0..(m + n) |-> IF i <= m THEN p[i] ELSE q[i - m]]
<1>4. /\ p \in [0..m -> Decoder] /\ p[0] = x /\ p[m] = y
      /\ \A i \in 1..m : Decoding(p[i - 1], s[i], p[i], d)
  BY <1>2 DEF Path
<1>5. /\ q \in [0..n -> Decoder] /\ q[0] = y /\ q[n] = z
      /\ \A i \in 1..n : Decoding(q[i - 1], t[i], q[i], d)
  BY <1>3 DEF Path
<1> HIDE DEF m, n, u
<1>6. /\ \A i \in 0..m : r[i] = p[i]
      /\ \A i \in 0..n : r[m + i] = q[i]
  <2>1. \A i \in 0..m : r[i] = p[i]  BY <1>1
  <2>2. ASSUME NEW i \in 0..n PROVE r[m + i] = q[i]
    <3>1. m + i \in 0..(m + n) /\ (m + i) - m = i /\ (m + i <= m => i = 0 /\ m + i = m)
      BY <1>1
    <3>2. r[m + i] = IF m + i <= m THEN p[m + i] ELSE q[i]  BY <3>1
    <3> QED BY ONLY <1>4, <1>5, <3>1, <3>2
  <2> QED BY <2>1, <2>2
<1>7. r \in [0..(m + n) -> Decoder]
  BY <1>1, <1>4, <1>5
<1> HIDE DEF r
<1>8. ASSUME NEW i \in 1..(m + n) PROVE Decoding(r[i - 1], u[i], r[i], d)
  <2>1. CASE i <= m
    <3>1. i \in 1..m /\ i - 1 \in 0..m /\ i \in 0..m  BY <1>1, <2>1
    <3>2. r[i - 1] = p[i - 1] /\ r[i] = p[i] /\ u[i] = s[i]  BY <1>1, <1>6, <3>1
    <3> QED BY <1>4, <3>1, <3>2
  <2>2. CASE ~ (i <= m)
    <3> DEFINE j == i - m
    <3>1. j \in 1..n /\ j - 1 \in 0..n /\ j \in 0..n /\ i = m + j /\ i - 1 = m + (j - 1)
      BY <1>1, <2>2
    <3> HIDE DEF j
    <3>2. r[i - 1] = q[j - 1] /\ r[i] = q[j] /\ u[i] = t[j]  BY <1>1, <1>6, <3>1
    <3> QED BY <1>5, <3>1, <3>2
  <2> QED BY <2>1, <2>2
<1>9. r[0] = x /\ r[m + n] = z
  BY <1>1, <1>4, <1>5, <1>6
<1>10. Path(r, x, u, z, d)
  BY <1>1, <1>7, <1>8, <1>9 DEF Path
<1> QED BY <1>10 DEF Decodes, u

\* The first of what decodes, and the rest.
LEMMA EachDecodes ==
  ASSUME NEW x, NEW s \in Seq(Symbol), NEW t \in Seq(Symbol), NEW z, NEW d,
         Decodes(x, s \o t, z, d)
  PROVE  \E y \in Decoder : Decodes(x, s, y, d) /\ Decodes(y, t, z, d)
<1> DEFINE u == s \o t
           m == Len(s)
           n == Len(t)
<1>1. /\ Len(u) = m + n /\ m \in Nat /\ n \in Nat
      /\ \A i \in 1..m : u[i] = s[i]
      /\ \A i \in 1..n : u[m + i] = t[i]
  BY Joined, EmptyOrNot
<1>2. PICK r : Path(r, x, u, z, d)
  BY DEF Decodes
<1> DEFINE p == [i \in 0..m |-> r[i]]
           q == [i \in 0..n |-> r[m + i]]
<1> HIDE DEF m, n, u
<1>3. /\ r \in [0..(m + n) -> Decoder] /\ r[0] = x /\ r[m + n] = z
      /\ \A i \in 1..(m + n) : Decoding(r[i - 1], u[i], r[i], d)
  BY <1>1, <1>2 DEF Path
<1>4. /\ p \in [0..m -> Decoder] /\ \A i \in 0..m : p[i] = r[i]
      /\ q \in [0..n -> Decoder] /\ \A i \in 0..n : q[i] = r[m + i]
  BY <1>1, <1>3
<1> HIDE DEF p, q
<1>5. ASSUME NEW i \in 1..m PROVE Decoding(p[i - 1], s[i], p[i], d)
  <2>1. i \in 1..(m + n) /\ i - 1 \in 0..m /\ i \in 0..m  BY <1>1
  <2>2. p[i - 1] = r[i - 1] /\ p[i] = r[i] /\ u[i] = s[i]  BY <1>1, <1>4, <2>1
  <2> QED BY <1>3, <2>1, <2>2
<1>6. ASSUME NEW i \in 1..n PROVE Decoding(q[i - 1], t[i], q[i], d)
  <2>1. m + i \in 1..(m + n) /\ i - 1 \in 0..n /\ i \in 0..n /\ (m + i) - 1 = m + (i - 1)
    BY <1>1
  <2>2. q[i - 1] = r[(m + i) - 1] /\ q[i] = r[m + i] /\ u[m + i] = t[i]
    BY <1>1, <1>4, <2>1
  <2> QED BY <1>3, <2>1, <2>2
<1>7. p[0] = x /\ p[m] = q[0] /\ q[n] = z /\ q[0] \in Decoder
  BY <1>1, <1>3, <1>4
<1>8. Path(p, x, s, q[0], d)
  BY <1>4, <1>5, <1>7 DEF Path, m
<1>9. Path(q, q[0], t, z, d)
  BY <1>4, <1>6, <1>7 DEF Path, n
<1> QED BY <1>7, <1>8, <1>9 DEF Decodes

\* More is written.
LEMMA DecodesLonger ==
  ASSUME NEW x, NEW s \in Seq(Symbol), NEW y, NEW d \in Bytes, NEW v \in Bytes,
         Begins(d, v), Decodes(x, s, y, d)
  PROVE  Decodes(x, s, y, v)
<1>1. PICK p : Path(p, x, s, y, d)
  BY DEF Decodes
<1> DEFINE n == Len(s)
<1>2. /\ p \in [0..n -> Decoder] /\ p[0] = x /\ p[n] = y /\ n \in Nat
      /\ \A i \in 1..n : Decoding(p[i - 1], s[i], p[i], d)
  BY <1>1, EmptyOrNot DEF Path
<1> HIDE DEF n
<1>3. ASSUME NEW i \in 1..n PROVE Decoding(p[i - 1], s[i], p[i], v)
  <2> DEFINE a == p[i - 1]
  <2>1. Decoding(a, s[i], p[i], d) /\ a.count \in Nat
    <3>1. i - 1 \in 0..n  BY <1>2
    <3> QED BY <1>2, <3>1 DEF Decoder
  <2> HIDE DEF a
  <2>2. ASSUME NEW b \in Bytes, LiesAt(b, d, a.count) PROVE LiesAt(b, v, a.count)
    <3>1. Len(b) \in Nat /\ Len(d) \in Nat /\ Len(v) \in Nat
      BY EmptyOrNot DEF Bytes
    <3>2. /\ a.count + Len(b) <= Len(d) /\ \A j \in 1..Len(b) : b[j] = d[a.count + j]
          /\ Len(d) <= Len(v) /\ \A j \in 1..Len(d) : d[j] = v[j]
      BY <2>2 DEF LiesAt, Begins
    <3>3. ASSUME NEW j \in 1..Len(b) PROVE b[j] = v[a.count + j]
      <4>1. a.count + j \in 1..Len(d)  BY <2>1, <3>1, <3>2
      <4> QED BY <3>2, <4>1
    <3> QED BY <2>1, <3>1, <3>2, <3>3 DEF LiesAt
  <2>3. Decoding(a, s[i], p[i], v)  BY ONLY <2>1, <2>2 DEF Decoding
  <2> QED BY <2>3 DEF a
<1>4. Path(p, x, s, y, v)
  BY <1>2, <1>3 DEF Path, n
<1> QED BY <1>4 DEF Decodes

CodecWriter ==
  [codec : {"lz4", "zstd"}, mBlockMode : BOOLEAN, mFailed : BOOLEAN, lent : BOOLEAN,
   started : BOOLEAN, mInput : Bytes, held : Bytes, begun : BOOLEAN, sub : Seq(Symbol),
   written : Bytes]

LEMMA CodecConstants ==
  /\ InputSize \in Nat \ {0} /\ SubSize \in Nat \ {0} /\ WindowSize \in Nat \ {0}
  /\ MaxBytes \in Nat \ {0}
  BY TransfersAssumption DEF Codec!CodecAssumption

\* The two parts of a buffer.
LEMMA Parted ==
  ASSUME NEW S, NEW s \in Seq(S), NEW n \in Nat
  PROVE  /\ Codec!Upto(s, n) \in Seq(S) /\ Codec!After(s, n) \in Seq(S)
         /\ Codec!Upto(s, n) \o Codec!After(s, n) = s
         /\ Len(Codec!Upto(s, n)) = (IF n <= Len(s) THEN n ELSE Len(s))
         /\ n <= Len(s) => Codec!Upto(s, n) = SubSeq(s, 1, n)
         /\ Codec!After(s, n) = SubSeq(s, n + 1, Len(s))
         /\ Len(s) <= n => Codec!Upto(s, n) = s /\ Codec!After(s, n) = <<>>
<1> DEFINE m == Len(s)
           none == <<>>
<1>1. m \in Nat /\ none \in Seq(S) /\ none \o s = s /\ s \o none = s
  BY EmptyOrNot, ConcatEmptySeq
<1>2. Codec!After(s, n) = SubSeq(s, n + 1, m)
  BY DEF Codec!After
<1>4. CASE n <= m
  <2>1. Codec!Upto(s, n) = SubSeq(s, 1, n)  BY <1>4 DEF Codec!Upto
  <2>2. /\ SubSeq(s, 1, n) \in Seq(S) /\ Len(SubSeq(s, 1, n)) = n
        /\ SubSeq(s, n + 1, Len(s)) \in Seq(S)
    BY <1>4, Cut
  <2>3. (none \o SubSeq(s, 1, n)) \o SubSeq(s, n + 1, Len(s)) = none \o s
    BY <1>1, <1>4, Divided
  <2>4. none \o SubSeq(s, 1, n) = SubSeq(s, 1, n)  BY <2>2, ConcatEmptySeq
  <2>5. m <= n => n = m  BY <1>1, <1>4
  <2>6. SubSeq(s, 1, m) = s  BY SubSeqFull
  <2>7. m <= n => SubSeq(s, n + 1, m) = none
    <3>1. CASE m <= n
      <4>1. Len(SubSeq(s, n + 1, Len(s))) = Len(s) - n  BY <1>4, Cut
      <4>2. Len(SubSeq(s, n + 1, m)) = 0  BY <1>1, <2>5, <3>1, <4>1
      <4> QED BY <2>2, <4>2, EmptyOrNot
    <3> QED BY <3>1
  <2> HIDE DEF none
  <2> QED BY <1>1, <1>2, <1>4, <2>1, <2>2, <2>3, <2>4, <2>5, <2>6, <2>7 DEF none
<1>5. CASE ~ (n <= m)
  <2>1. SubSeq(s, 1, m) = s  BY SubSeqFull
  <2>2. Codec!Upto(s, n) = s  BY <1>1, <1>5, <2>1 DEF Codec!Upto
  <2>3. SubSeq(s, n + 1, m) = none
    <3>1. n + 1 > m  BY <1>1, <1>5
    <3> HIDE DEF m
    <3> QED BY <1>1, <3>1, SubSeqEmpty DEF m
  <2> QED BY <1>1, <1>2, <1>5, <2>2, <2>3
<1> QED BY <1>4, <1>5

LEMMA PairJoined ==
  ASSUME NEW S, NEW e \in S, NEW f \in S
  PROVE  <<e>> \o <<f>> = <<e, f>> /\ <<e>> \in Seq(S) /\ <<e, f>> \in Seq(S)
<1> DEFINE a == <<e>>
           b == <<f>>
           c == <<e, f>>
<1>1. a \in Seq(S) /\ b \in Seq(S) /\ c \in Seq(S)
  OBVIOUS
<1>2. Len(a) = 1 /\ Len(b) = 1 /\ Len(c) = 2 /\ a[1] = e /\ b[1] = f /\ c[1] = e /\ c[2] = f
  OBVIOUS
<1> HIDE DEF a, b, c
<1>3. /\ a \o b \in Seq(S) /\ Len(a \o b) = Len(a) + Len(b)
      /\ \A i \in 1..Len(a) : (a \o b)[i] = a[i]
      /\ \A i \in 1..Len(b) : (a \o b)[Len(a) + i] = b[i]
  BY <1>1, Joined
<1> DEFINE g == a \o b
<1> HIDE DEF g
<1>4. g \in Seq(S) /\ Len(g) = 2 /\ g[1] = e /\ g[2] = f
  BY <1>2, <1>3 DEF g
<1>5. \A i \in 1..Len(g) : g[i] = c[i]
  <2>1. \A i \in 1..2 : i = 1 \/ i = 2  OBVIOUS
  <2> QED BY <1>2, <1>4, <2>1
<1>6. g = c
  BY <1>1, <1>2, <1>4, <1>5, SeqEqual
<1> QED BY <1>1, <1>6 DEF g, a, b, c

\* A block, of bytes that come next.
LEMMA BlockDecodes ==
  ASSUME NEW b \in Bytes, NEW d \in Bytes, NEW k \in Nat, LiesAt(b, d, k)
  PROVE  /\ Codec!Block(b) \in Seq(Symbol)
         /\ Decodes(Between(k, TRUE), Codec!Block(b), Between(k + Len(b), TRUE), d)
<1> DEFINE x == Between(k, TRUE)
           y == [count |-> k, begun |-> TRUE, half |-> b]
           z == Between(k + Len(b), TRUE)
           e == <<"half", b>>
           f == <<"block", b>>
           none == <<>>
<1>1. Len(b) \in Nat /\ (b = none <=> Len(b) = 0) /\ none \in Bytes
  BY EmptyOrNot DEF Bytes
<1>2. x \in Decoder /\ y \in Decoder /\ z \in Decoder
  BY <1>1 DEF Between, Decoder
<1>3. CASE b = none
  <2>1. Codec!Block(b) = none /\ z = x  BY <1>1, <1>3 DEF Codec!Block
  <2>2. Decodes(x, none, x, d)  BY <1>2, NoneDecodes
  <2>3. none \in Seq(Symbol)  OBVIOUS
  <2> HIDE DEF none, x, z
  <2>4. Codec!Block(b) \in Seq(Symbol) /\ Decodes(x, Codec!Block(b), z, d)
    BY ONLY <2>1, <2>2, <2>3
  <2> QED BY <2>4 DEF x, z
<1>4. CASE b # none
  <2>2. e \in Symbol /\ f \in Symbol  BY DEF Symbol
  <2>1. Codec!Block(b) = <<e, f>> /\ <<e>> \o <<f>> = <<e, f>>
    <3>1. <<e>> \o <<f>> = <<e, f>>  BY <2>2, PairJoined
    <3> QED BY <1>4, <3>1 DEF Codec!Block
  <2>3. x.begun /\ x.half = none /\ x.count = k /\ y.begun /\ y.half = b /\ y.count = k
    BY DEF Between
  <2>4. Decoding(x, e, y, d)  BY <1>4, <2>3 DEF Decoding
  <2>5. Decoding(y, f, z, d)  BY <1>4, <2>3 DEF Decoding
  <2> HIDE DEF x, y, z, e, f
  <2>6. Decodes(x, <<e>>, y, d) /\ Decodes(y, <<f>>, z, d)
    BY <1>2, <2>2, <2>4, <2>5, OneDecodes
  <2>7. <<e>> \in Seq(Symbol) /\ <<f>> \in Seq(Symbol) /\ <<e, f>> \in Seq(Symbol)
    BY <2>2
  <2>8. Decodes(x, <<e>> \o <<f>>, z, d)  BY <2>6, <2>7, BothDecode
  <2> QED BY <2>1, <2>7, <2>8 DEF x, z
<1> QED BY <1>3, <1>4

\* The beginning and the end of a frame.
LEMMA FrameDecodes ==
  ASSUME NEW k \in Nat, NEW b \in BOOLEAN, NEW d
  PROVE  LET begin == IF b THEN <<>> ELSE <<Codec!FrameHead>>
         IN  /\ begin \in Seq(Symbol) /\ <<Codec!FrameEnd>> \in Seq(Symbol)
             /\ Decodes(Between(k, b), begin, Between(k, TRUE), d)
             /\ Decodes(Between(k, TRUE), <<Codec!FrameEnd>>, Between(k, FALSE), d)
<1> DEFINE e == Codec!FrameHead
           f == Codec!FrameEnd
           none == <<>>
           x == Between(k, FALSE)
           y == Between(k, TRUE)
<1>1. e \in Symbol /\ f \in Symbol
  <2>1. none \in Bytes  BY DEF Bytes
  <2>2. e = <<"head", none>> /\ f = <<"end", none>>
    BY DEF Codec!FrameHead, Codec!FrameEnd
  <2> HIDE DEF none, e, f
  <2> QED BY <2>1, <2>2 DEF Symbol
<1>2. x \in Decoder /\ y \in Decoder
  BY DEF Between, Decoder, Bytes
<1>3. /\ ~ x.begun /\ x.half = none /\ x.count = k /\ y.begun /\ y.half = none /\ y.count = k
  BY DEF Between
<1>4. Decoding(x, e, y, d)
  BY <1>3 DEF Decoding
<1>5. Decoding(y, f, x, d)
  BY <1>3 DEF Decoding
<1> HIDE DEF e, f, x, y
<1>6. Decodes(x, <<e>>, y, d) /\ Decodes(y, <<f>>, x, d)
  BY <1>1, <1>2, <1>4, <1>5, OneDecodes
<1>7. <<e>> \in Seq(Symbol) /\ <<f>> \in Seq(Symbol) /\ none \in Seq(Symbol)
  BY <1>1
<1>8. Decodes(y, none, y, d)
  BY <1>2, NoneDecodes
<1>9. CASE b
  BY <1>6, <1>7, <1>8, <1>9 DEF x, y, e, f
<1>10. CASE ~ b
  BY <1>6, <1>7, <1>8, <1>10 DEF x, y, e, f
<1> QED BY <1>9, <1>10

\* What a compressor of n of the bytes it holds puts out.
Symbols(w, n, ends) ==
  (IF n = 0 /\ ~ ends THEN <<>> ELSE Codec!Begin(w))
    \o Codec!Block(Codec!Upto(Codec!Pending(w), n))
    \o (IF ends THEN <<Codec!FrameEnd>> ELSE <<>>)

LEMMA SymbolsDecode ==
  ASSUME NEW w \in CodecWriter, NEW k \in Nat, IsRest(Codec!Pending(w), w.written, k),
         NEW n \in 0..Len(Codec!Pending(w)), NEW ends \in BOOLEAN
  PROVE  /\ Symbols(w, n, ends) \in Seq(Symbol)
         /\ Decodes(Between(k, w.begun), Symbols(w, n, ends),
                    Between(k + n, ~ ends /\ (w.begun \/ n > 0)), w.written)
         /\ Codec!After(Codec!Pending(w), n) \in Bytes
         /\ IsRest(Codec!After(Codec!Pending(w), n), w.written, k + n)
<1> DEFINE p == Codec!Pending(w)
           d == w.written
           u == Codec!Upto(p, n)
           v == Codec!After(p, n)
           none == <<>>
           begin == IF n = 0 /\ ~ ends THEN none ELSE Codec!Begin(w)
           block == Codec!Block(u)
           end == IF ends THEN <<Codec!FrameEnd>> ELSE none
           b == w.begun \/ n > 0 \/ ends
           x == Between(k, w.begun)
           y == Between(k, b)
           z == Between(k + n, b)
           last == Between(k + n, ~ ends /\ (w.begun \/ n > 0))
<1>1. /\ w.held \in Bytes /\ w.mInput \in Bytes /\ d \in Bytes /\ w.begun \in BOOLEAN
      /\ p \in Bytes /\ n \in Nat /\ n <= Len(p) /\ Len(p) \in Nat /\ Len(d) \in Nat
  <2>1. w.held \in Seq(Nat) /\ w.mInput \in Seq(Nat)  BY DEF CodecWriter, Bytes
  <2>2. p \in Seq(Nat)  BY <2>1, Joined DEF Codec!Pending
  <2>3. Len(p) \in Nat  BY <2>2, EmptyOrNot
  <2>4. d \in Bytes /\ w.begun \in BOOLEAN  BY DEF CodecWriter
  <2>5. Len(d) \in Nat  BY <2>4, EmptyOrNot DEF Bytes
  <2> HIDE DEF p, d
  <2>6. n \in 0..Len(p)  BY DEF p
  <2> QED BY <2>1, <2>2, <2>3, <2>4, <2>5, <2>6 DEF Bytes
<1>2. /\ u = SubSeq(p, 1, n) /\ v = SubSeq(p, n + 1, Len(p)) /\ u \in Bytes /\ v \in Bytes
      /\ Len(u) = n /\ Len(v) = Len(p) - n
      /\ \A i \in 1..n : u[i] = p[i]
      /\ \A i \in 1..(Len(p) - n) : v[i] = p[n + i]
  <2>1. p \in Seq(Nat) /\ n \in Nat /\ n <= Len(p)  BY <1>1 DEF Bytes
  <2> HIDE DEF p
  <2>2. u = SubSeq(p, 1, n) /\ v = SubSeq(p, n + 1, Len(p))  BY <2>1, Parted
  <2>3. /\ SubSeq(p, 1, n) \in Seq(Nat) /\ Len(SubSeq(p, 1, n)) = n
        /\ \A i \in 1..n : SubSeq(p, 1, n)[i] = p[i]
        /\ SubSeq(p, n + 1, Len(p)) \in Seq(Nat) /\ Len(SubSeq(p, n + 1, Len(p))) = Len(p) - n
        /\ \A i \in 1..(Len(p) - n) : SubSeq(p, n + 1, Len(p))[i] = p[n + i]
    BY ONLY <2>1, Cut
  <2> HIDE DEF u, v
  <2> QED BY <2>2, <2>3 DEF Bytes
<1>3. k <= Len(d) /\ Len(p) = Len(d) - k /\ \A j \in 1..Len(p) : p[j] = d[k + j]
  BY DEF IsRest
<1>4. LiesAt(u, d, k)
  <2> HIDE DEF p, u, v, d
  <2> QED BY <1>1, <1>2, <1>3 DEF LiesAt
<1>5. IsRest(v, d, k + n)
  <2> HIDE DEF p, u, v, d
  <2>1. ASSUME NEW j \in 1..Len(v) PROVE v[j] = d[(k + n) + j]
    <3>1. n + j \in 1..Len(p) /\ j \in 1..(Len(p) - n) /\ k + (n + j) = (k + n) + j
      BY <1>1, <1>2
    <3> QED BY <1>2, <1>3, <3>1
  <2> QED BY <1>1, <1>2, <1>3, <2>1 DEF IsRest
<1>6. begin \in Seq(Symbol) /\ Decodes(x, begin, y, d)
  <2>1. LET a == IF w.begun THEN none ELSE <<Codec!FrameHead>>
        IN  a \in Seq(Symbol) /\ Decodes(Between(k, w.begun), a, Between(k, TRUE), d)
    BY <1>1, FrameDecodes
  <2>2. none \in Seq(Symbol) /\ none \in Bytes  BY DEF Bytes
  <2>3. x \in Decoder  BY <1>1, <2>2 DEF Between, Decoder
  <2>4. CASE n = 0 /\ ~ ends
    <3>1. begin = none /\ b = w.begun  BY <1>1, <2>4
    <3>2. Decodes(x, none, x, d)  BY <2>3, NoneDecodes
    <3> HIDE DEF none, begin, d
    <3> QED BY <2>2, <3>1, <3>2
  <2>5. CASE ~ (n = 0 /\ ~ ends)
    <3>1. begin = (IF w.begun THEN none ELSE <<Codec!FrameHead>>) /\ b
      BY <1>1, <2>5 DEF Codec!Begin
    <3> HIDE DEF none, begin, d
    <3> QED BY <2>1, <3>1
  <2> QED BY <2>4, <2>5
<1>7. block \in Seq(Symbol) /\ Decodes(y, block, z, d)
  <2>1. /\ block \in Seq(Symbol) /\ Decodes(Between(k, TRUE), block, Between(k + Len(u), TRUE), d)
    <3> HIDE DEF u, d
    <3> QED BY <1>1, <1>2, <1>4, BlockDecodes
  <2>2. CASE b
    <3> HIDE DEF u, d, block
    <3> QED BY <1>2, <2>1, <2>2
  <2>3. CASE ~ b
    <3>1. n = 0 /\ Len(u) = 0 /\ k + n = k /\ y = z /\ u \in Seq(Nat)
      BY <1>1, <1>2, <2>3 DEF Bytes
    <3>2. u = none  BY <3>1, EmptyOrNot
    <3>3. block = none  BY <3>2 DEF Codec!Block
    <3>4. y \in Decoder
      <4>1. none \in Bytes /\ b \in BOOLEAN  BY <1>1 DEF Bytes
      <4> HIDE DEF b, none
      <4> QED BY <4>1 DEF Between, Decoder, none
    <3>5. Decodes(y, none, y, d)  BY <3>4, NoneDecodes
    <3> HIDE DEF none, block, y, z, d
    <3> QED BY <2>1, <3>1, <3>3, <3>5
  <2> QED BY <2>2, <2>3
<1>8. end \in Seq(Symbol) /\ Decodes(z, end, last, d)
  <2>1. k + n \in Nat  BY <1>1
  <2>2. /\ <<Codec!FrameEnd>> \in Seq(Symbol)
        /\ Decodes(Between(k + n, TRUE), <<Codec!FrameEnd>>, Between(k + n, FALSE), d)
    BY <2>1, FrameDecodes
  <2>3. CASE ends
    <3>1. end = <<Codec!FrameEnd>> /\ z = Between(k + n, TRUE) /\ last = Between(k + n, FALSE)
      BY <1>1, <2>3
    <3> HIDE DEF end, z, last, d
    <3> QED BY <2>2, <3>1
  <2>4. CASE ~ ends
    <3>1. end = none /\ z = last  BY <1>1, <2>4
    <3>2. none \in Seq(Symbol) /\ none \in Bytes /\ b \in BOOLEAN
      BY <1>1 DEF Bytes
    <3>3. z \in Decoder
      <4> HIDE DEF b, none
      <4> QED BY <2>1, <3>2 DEF Between, Decoder, none
    <3>4. Decodes(z, none, z, d)  BY <3>3, NoneDecodes
    <3> HIDE DEF end, z, last, d, none
    <3> QED BY <3>1, <3>2, <3>4
  <2> QED BY <2>3, <2>4
<1> HIDE DEF begin, block, end, x, y, z, last, d, v
<1>9. begin \o block \in Seq(Symbol)
  BY ONLY <1>6, <1>7, Joined
<1>10. Decodes(x, begin \o block, z, d)
  BY ONLY <1>6, <1>7, BothDecode
<1>11. (begin \o block) \o end \in Seq(Symbol)
  BY ONLY <1>8, <1>9, Joined
<1>12. Decodes(x, (begin \o block) \o end, last, d)
  BY ONLY <1>8, <1>9, <1>10, BothDecode
<1>13. Symbols(w, n, ends) = (begin \o block) \o end
  BY DEF Symbols, begin, block, end
<1> QED BY ONLY <1>2, <1>5, <1>11, <1>12, <1>13 DEF x, last, d, v

LEMMA Whole ==
  ASSUME NEW a \in Nat \ {0}, NEW n \in Nat
  PROVE  a * (n \div a) \in Nat /\ a * (n \div a) <= n
<1> DEFINE q == n \div a
<1>1. q \in Nat /\ n = a * q + (n % a) /\ n % a \in 0..(a - 1)
  OBVIOUS
<1> HIDE DEF q
<1>2. a * q \in Nat
  BY <1>1
<1> DEFINE r == a * q
<1> HIDE DEF r
<1>3. r <= n
  BY <1>1, <1>2 DEF r
<1> QED BY <1>2, <1>3 DEF r, q

\* What is put into the buffer below and goes on to the connection, or the
\* beginning of it that the connection took before it broke.
LEMMA PutBelowOK ==
  ASSUME NEW w \in CodecWriter, NEW symbols \in Seq(Symbol), NEW eager \in BOOLEAN,
         wire \in Seq(Symbol), NEW x, NEW y, NEW z, NEW d,
         Decodes(x, wire \o w.sub, y, d), Decodes(y, symbols, z, d),
         Codec!Put(w, symbols, eager)
  PROVE  /\ wire' \in Seq(Symbol)
         /\ \/ \E sub \in Seq(Symbol) :
                 writer' = [w EXCEPT !.sub = sub] /\ Decodes(x, wire' \o sub, z, d)
            \/ /\ writer' = [w EXCEPT !.mFailed = TRUE]
               /\ \E t \in Decoder : Decodes(x, wire', t, d)
<1> DEFINE sent == w.sub
           all == sent \o symbols
           l == IF eager \/ all = <<>> THEN Len(all) ELSE Len(all) - 1
           full == SubSize * (l \div SubSize)
<1>1. sent \in Seq(Symbol)
  BY DEF CodecWriter
<1>2. all \in Seq(Symbol)
  BY ONLY <1>1, symbols \in Seq(Symbol), Joined
<1>3. Len(all) \in Nat /\ (all = <<>> <=> Len(all) = 0)
  BY ONLY <1>2, EmptyOrNot
<1>4. full \in Nat /\ full <= Len(all)
  <2>1. l \in Nat /\ l <= Len(all)
    <3> HIDE DEF all
    <3> QED BY <1>3
  <2> HIDE DEF l, all
  <2>2. SubSize * (l \div SubSize) \in Nat /\ SubSize * (l \div SubSize) <= l
    BY <2>1, CodecConstants, Whole
  <2> DEFINE f == SubSize * (l \div SubSize)
  <2> HIDE DEF f
  <2>3. f \in Nat /\ f <= Len(all)  BY <1>3, <2>1, <2>2 DEF f
  <2> QED BY <2>3 DEF f
<1>5. (wire \o sent) \o symbols = wire \o all
  <2>1. wire \in Seq(Symbol) /\ sent \in Seq(Symbol) /\ symbols \in Seq(Symbol)
    BY <1>1
  <2> HIDE DEF sent
  <2> QED BY ONLY <2>1, ConcatAssociative
<1>6. wire \o sent \in Seq(Symbol)
  BY ONLY <1>1, wire \in Seq(Symbol), Joined
<1>7. Decodes(x, wire \o all, z, d)
  <2>1. Decodes(x, wire \o sent, y, d)  OBVIOUS
  <2>2. Decodes(x, (wire \o sent) \o symbols, z, d)
    BY ONLY <1>6, <2>1, symbols \in Seq(Symbol), Decodes(y, symbols, z, d), BothDecode
  <2> QED BY ONLY <1>5, <2>2
<1>8. \/ /\ writer' = [w EXCEPT !.sub = Codec!After(all, full)]
         /\ wire' = wire \o Codec!Upto(all, full)
      \/ /\ full > 0 /\ writer' = [w EXCEPT !.mFailed = TRUE]
         /\ \E n \in 0..(full - 1) : wire' = wire \o Codec!Upto(all, n)
  BY DEF Codec!Put
<1> HIDE DEF full, l, all, sent
<1>9. ASSUME NEW n \in Nat, n <= Len(all)
      PROVE  /\ Codec!Upto(all, n) \in Seq(Symbol) /\ Codec!After(all, n) \in Seq(Symbol)
             /\ wire \o Codec!Upto(all, n) \in Seq(Symbol)
             /\ (wire \o Codec!Upto(all, n)) \o Codec!After(all, n) = wire \o all
  <2>1. /\ Codec!Upto(all, n) \in Seq(Symbol) /\ Codec!After(all, n) \in Seq(Symbol)
        /\ Codec!Upto(all, n) \o Codec!After(all, n) = all
    BY ONLY <1>2, n \in Nat, Parted
  <2> DEFINE u == Codec!Upto(all, n)
             v == Codec!After(all, n)
  <2>2. u \in Seq(Symbol) /\ v \in Seq(Symbol) /\ u \o v = all  BY <2>1
  <2> HIDE DEF u, v
  <2>3. wire \o u \in Seq(Symbol)  BY ONLY <2>2, wire \in Seq(Symbol), Joined
  <2>4. (wire \o u) \o v = wire \o (u \o v)
    <3>1. wire \in Seq(Symbol) /\ u \in Seq(Symbol) /\ v \in Seq(Symbol)  BY <2>2
    <3> QED BY ONLY <3>1, ConcatAssociative
  <2> QED BY <2>2, <2>3, <2>4 DEF u, v
<1>10. CASE /\ writer' = [w EXCEPT !.sub = Codec!After(all, full)]
            /\ wire' = wire \o Codec!Upto(all, full)
  <2> DEFINE sub == Codec!After(all, full)
  <2>1. /\ sub \in Seq(Symbol) /\ wire' \in Seq(Symbol) /\ wire' \o sub = wire \o all
    BY <1>4, <1>9, <1>10
  <2>2. writer' = [w EXCEPT !.sub = sub]  BY <1>10
  <2> HIDE DEF sub
  <2> QED BY ONLY <1>7, <2>1, <2>2
<1>11. CASE /\ writer' = [w EXCEPT !.mFailed = TRUE]
            /\ \E n \in 0..(full - 1) : wire' = wire \o Codec!Upto(all, n)
  <2>1. PICK n \in 0..(full - 1) : wire' = wire \o Codec!Upto(all, n)  BY <1>11
  <2>2. n \in Nat /\ n <= Len(all)  BY <1>3, <1>4
  <2>3. /\ Codec!After(all, n) \in Seq(Symbol) /\ wire' \in Seq(Symbol)
        /\ wire' \o Codec!After(all, n) = wire \o all
    BY <1>9, <2>1, <2>2
  <2> DEFINE v == Codec!After(all, n)
  <2>4. v \in Seq(Symbol) /\ Decodes(x, wire' \o v, z, d)  BY ONLY <1>7, <2>3
  <2> HIDE DEF v
  <2>5. \E t \in Decoder : Decodes(x, wire', t, d) /\ Decodes(t, v, z, d)
    BY ONLY <2>3, <2>4, EachDecodes
  <2> QED BY <1>11, <2>3, <2>5
<1> QED BY <1>8, <1>10, <1>11

CodecReader ==
  [mInput : Seq(Symbol), begun : BOOLEAN, half : Bytes, held : Bytes, window : Bytes,
   mOutputBufferRemains : Nat, mFailed : BOOLEAN]

CodecTypeOK ==
  /\ writer \in CodecWriter /\ wire \in Seq(Symbol) /\ reader \in CodecReader
  /\ phase \in {"writing", "completed", "closed", "reading"} /\ damaged \in BOOLEAN
  /\ got \in Bytes /\ result \in {"none", "reading", "data", "end", "exception"}

Start == Between(0, FALSE)

\* What is sent is the beginning of what encodes the bytes that were written,
\* encodes all that the compressor does not hold, or encodes all.
EncodesSome(s, w) == \E y \in Decoder : Decodes(Start, s, y, w.written)

EncodesPut(s, w) ==
  \E k \in Nat : /\ IsRest(Codec!Pending(w), w.written, k)
                 /\ Decodes(Start, s, Between(k, w.begun), w.written)

EncodesAll(s, w) == Decodes(Start, s, Between(Len(w.written), FALSE), w.written)

\* A buffer is lent empty; in block mode nothing is kept back.
Keeping(w) ==
  /\ w.codec = "lz4" => ~ w.mBlockMode
  /\ w.mBlockMode => w.held = <<>> /\ ~ w.begun
  /\ w.codec = "zstd" /\ ~ w.started => w.mInput = <<>> /\ w.held = <<>> /\ ~ w.begun

Compressing(w) == Keeping(w) /\ (w.lent => w.started /\ w.mInput = <<>>)

\* The part of the window that was not lent yet.
Unlent(r) ==
  SubSeq(r.window, Len(r.window) - r.mOutputBufferRemains + 1, Len(r.window))

\* What the decompressor has decoded.
Seen(r, g) == (g \o Unlent(r)) \o r.held

Decompressing(w, wi, r, g, whole) ==
  /\ r.mOutputBufferRemains <= Len(r.window)
  /\ ~ r.begun => r.held = <<>> /\ r.mOutputBufferRemains = 0
  /\ Begins(Seen(r, g), w.written)
  /\ \E y \in Decoder :
       /\ whole => y = Between(Len(w.written), FALSE)
       /\ Decodes([count |-> Len(Seen(r, g)), begun |-> r.begun, half |-> r.half],
                  r.mInput \o wi, y, w.written)

NotOpened ==
  /\ reader = [mInput |-> <<>>, begun |-> FALSE, half |-> <<>>, held |-> <<>>,
               window |-> <<>>, mOutputBufferRemains |-> 0, mFailed |-> FALSE]
  /\ got = <<>> /\ result = "none"

CodecInv ==
  /\ CodecTypeOK
  /\ phase # "reading" =>
       /\ NotOpened
       /\ writer.mFailed => EncodesSome(wire, writer)
       /\ ~ writer.mFailed =>
            /\ phase = "writing" => /\ Compressing(writer)
                                    /\ EncodesPut(wire \o writer.sub, writer)
            /\ phase = "completed" => EncodesAll(wire \o writer.sub, writer)
            /\ phase = "closed" => EncodesAll(wire, writer)
  /\ phase = "reading" =>
       /\ Decompressing(writer, wire, reader, got, ~ damaged) /\ result # "exception"
       /\ result = "end" /\ ~ damaged => Len(got) = Len(writer.written)

\* The compressor's own step, after which the stream goes on or has failed.
Puts ==
  /\ wire' \in Seq(Symbol) /\ writer' \in CodecWriter
  /\ writer'.mFailed => EncodesSome(wire', writer')
  /\ ~ writer'.mFailed => Compressing(writer') /\ EncodesPut(wire' \o writer'.sub, writer')

LEMMA CompressWithOK ==
  ASSUME NEW w \in CodecWriter, ~ w.mFailed, Keeping(w), w.started,
         wire \in Seq(Symbol), EncodesPut(wire \o w.sub, w),
         NEW n \in 0..Len(Codec!Pending(w)), NEW ends \in BOOLEAN,
         w.mBlockMode => ends /\ n = Len(Codec!Pending(w)),
         Codec!CompressWith(w, n, ends)
  PROVE  Puts
<1> DEFINE p == Codec!Pending(w)
           d == w.written
           b == ~ ends /\ (w.begun \/ n > 0)
           h == Codec!After(p, n)
           none == <<>>
           v == [w EXCEPT !.mInput = none, !.held = h, !.begun = ~ ends /\ (@ \/ n > 0)]
           e == Symbols(w, n, ends)
<1>1. PICK k \in Nat : IsRest(p, d, k) /\ Decodes(Start, wire \o w.sub, Between(k, w.begun), d)
  BY DEF EncodesPut
<1>2. /\ e \in Seq(Symbol) /\ Decodes(Between(k, w.begun), e, Between(k + n, b), d)
      /\ h \in Bytes /\ IsRest(h, d, k + n)
  BY <1>1, SymbolsDecode
<1>3. b \in BOOLEAN /\ none \in Bytes /\ n \in Nat /\ k + n \in Nat /\ h \o none = h
  <2>1. h \in Seq(Nat)  BY <1>2 DEF Bytes
  <2>2. h \o none = h  BY <2>1, ConcatEmptySeq
  <2>3. n \in Nat
    <3>1. p \in Seq(Nat)  BY Joined DEF CodecWriter, Bytes, Codec!Pending
    <3>2. Len(p) \in Nat  BY <3>1, EmptyOrNot
    <3> QED BY <3>2
  <2>4. none \in Bytes  BY DEF Bytes
  <2> QED BY <2>2, <2>3, <2>4
<1>4. Codec!Put(v, e, w.codec # "lz4")
  BY DEF Codec!CompressWith, Symbols
<1> HIDE DEF e, h, p, d, b, none
<1>5. v = [codec |-> w.codec, mBlockMode |-> w.mBlockMode, mFailed |-> w.mFailed,
           lent |-> w.lent, started |-> w.started, mInput |-> none, held |-> h,
           begun |-> b, sub |-> w.sub, written |-> w.written]
  <2>1. v = [w EXCEPT !.mInput = none, !.held = h, !.begun = b]  BY DEF b
  <2> HIDE DEF v
  <2> QED BY <2>1 DEF CodecWriter
<1> HIDE DEF v
<1>6. /\ v \in CodecWriter /\ v.sub = w.sub /\ v.written = d /\ v.begun = b /\ v.held = h
      /\ v.mInput = none /\ v.codec = w.codec /\ v.mBlockMode = w.mBlockMode
      /\ v.lent = w.lent /\ v.started = w.started /\ ~ v.mFailed
  BY <1>2, <1>3, <1>5 DEF CodecWriter, d
<1>7. /\ wire' \in Seq(Symbol)
      /\ \/ \E sub \in Seq(Symbol) :
              /\ writer' = [v EXCEPT !.sub = sub]
              /\ Decodes(Start, wire' \o sub, Between(k + n, b), d)
         \/ /\ writer' = [v EXCEPT !.mFailed = TRUE]
            /\ \E t \in Decoder : Decodes(Start, wire', t, d)
  <2>1. Decodes(Start, wire \o v.sub, Between(k, w.begun), d)  BY <1>1, <1>6
  <2>2. (w.codec # "lz4") \in BOOLEAN  OBVIOUS
  <2> QED BY ONLY <1>2, <1>4, <1>6, <2>1, <2>2, wire \in Seq(Symbol), PutBelowOK
<1>8. Codec!Pending(v) = h
  BY <1>3, <1>6 DEF Codec!Pending
<1>9. CASE \E sub \in Seq(Symbol) :
             /\ writer' = [v EXCEPT !.sub = sub]
             /\ Decodes(Start, wire' \o sub, Between(k + n, b), d)
  <2>1. PICK sub \in Seq(Symbol) : /\ writer' = [v EXCEPT !.sub = sub]
                                   /\ Decodes(Start, wire' \o sub, Between(k + n, b), d)
    BY <1>9
  <2>2. writer' = [codec |-> v.codec, mBlockMode |-> v.mBlockMode, mFailed |-> v.mFailed,
                   lent |-> v.lent, started |-> v.started, mInput |-> v.mInput,
                   held |-> v.held, begun |-> v.begun, sub |-> sub, written |-> v.written]
    BY <1>6, <2>1 DEF CodecWriter
  <2>3. /\ writer' \in CodecWriter /\ writer'.sub = sub /\ writer'.written = d
        /\ writer'.begun = b /\ writer'.held = h /\ writer'.mInput = none
        /\ writer'.codec = w.codec /\ writer'.mBlockMode = w.mBlockMode
        /\ writer'.lent = w.lent /\ writer'.started = w.started /\ ~ writer'.mFailed
    BY <1>6, <2>1, <2>2 DEF CodecWriter
  <2>4. Codec!Pending(writer') = h  BY <1>3, <2>3 DEF Codec!Pending
  <2>5. EncodesPut(wire' \o writer'.sub, writer')
    BY <1>2, <1>3, <2>1, <2>3, <2>4 DEF EncodesPut
  <2>6. w.mBlockMode => h = none /\ ~ b
    <3>1. CASE w.mBlockMode
      <4>1. ends /\ n = Len(p)  BY <3>1 DEF p
      <4>2. p \in Seq(Nat)  BY Joined DEF CodecWriter, Bytes, Codec!Pending, p
      <4>3. Codec!After(p, n) = <<>>  BY <1>3, <4>1, <4>2, Parted
      <4> QED BY <4>1, <4>3 DEF h, b, none
    <3> QED BY <3>1
  <2>7. Compressing(writer')
    <3>1. w.codec = "lz4" => ~ w.mBlockMode  BY DEF Keeping
    <3> QED BY <2>3, <2>6, <3>1 DEF Compressing, Keeping, none
  <2> QED BY <1>7, <2>3, <2>5, <2>7 DEF Puts
<1>10. CASE /\ writer' = [v EXCEPT !.mFailed = TRUE]
            /\ \E t \in Decoder : Decodes(Start, wire', t, d)
  <2>1. writer' = [codec |-> v.codec, mBlockMode |-> v.mBlockMode, mFailed |-> TRUE,
                   lent |-> v.lent, started |-> v.started, mInput |-> v.mInput,
                   held |-> v.held, begun |-> v.begun, sub |-> v.sub, written |-> v.written]
    BY <1>6, <1>10 DEF CodecWriter
  <2>2. writer' \in CodecWriter /\ writer'.mFailed /\ writer'.written = d
    BY <1>6, <2>1 DEF CodecWriter
  <2> QED BY <1>7, <1>10, <2>2 DEF Puts, EncodesSome
<1> QED BY <1>7, <1>9, <1>10

LEMMA CompressOK ==
  ASSUME NEW w \in CodecWriter, ~ w.mFailed, Keeping(w), w.started,
         wire \in Seq(Symbol), EncodesPut(wire \o w.sub, w), Codec!Compress(w)
  PROVE  Puts
<1> DEFINE p == Codec!Pending(w)
<1>1. Len(p) \in Nat
  <2>1. p \in Seq(Nat)  BY Joined DEF CodecWriter, Bytes, Codec!Pending
  <2> QED BY <2>1, EmptyOrNot
<1>2. CASE w.mBlockMode
  <2>1. Codec!CompressWith(w, Len(p), TRUE)  BY <1>2 DEF Codec!Compress
  <2>2. Len(p) \in 0..Len(Codec!Pending(w))  BY <1>1
  <2> QED BY <1>2, <2>1, <2>2, CompressWithOK
<1>3. CASE ~ w.mBlockMode
  <2>1. PICK n \in 0..Len(p) : Codec!CompressWith(w, n, FALSE)
    BY <1>3 DEF Codec!Compress
  <2> QED BY <1>3, <2>1, CompressWithOK
<1> QED BY <1>2, <1>3

\* While a stream is written, nothing is read.
LEMMA PutsKeep ==
  ASSUME CodecInv, phase = "writing", Puts, UNCHANGED <<phase, damaged, reader, got, result>>
  PROVE  CodecInv'
<1>1. CodecTypeOK' /\ NotOpened'
  BY DEF CodecInv, CodecTypeOK, NotOpened, Puts
<1> QED BY <1>1 DEF CodecInv, Puts

LEMMA NextOutOK ==
  ASSUME CodecInv, Codec!NextOut
  PROVE  CodecInv'
<1> DEFINE lending == [writer EXCEPT !.lent = TRUE, !.started = TRUE]
<1>1. /\ phase = "writing" /\ ~ writer.mFailed /\ ~ writer.lent
      /\ UNCHANGED <<phase, damaged, reader, got, result>>
      /\ IF writer.mInput = <<>> THEN writer' = lending /\ UNCHANGED wire
         ELSE Codec!Compress(lending)
  BY DEF Codec!NextOut, Codec!Writing, Codec!readVars
<1>2. /\ writer \in CodecWriter /\ wire \in Seq(Symbol) /\ Compressing(writer)
      /\ EncodesPut(wire \o writer.sub, writer)
  BY <1>1 DEF CodecInv, CodecTypeOK
<1>3. lending = [codec |-> writer.codec, mBlockMode |-> writer.mBlockMode,
                 mFailed |-> writer.mFailed, lent |-> TRUE, started |-> TRUE,
                 mInput |-> writer.mInput, held |-> writer.held, begun |-> writer.begun,
                 sub |-> writer.sub, written |-> writer.written]
  <2> DEFINE yes == TRUE
  <2>1. writer \in CodecWriter /\ yes \in BOOLEAN  BY <1>2
  <2>2. lending = [writer EXCEPT !.lent = yes, !.started = yes]  OBVIOUS
  <2> HIDE DEF lending, yes
  <2>3. lending = [codec |-> writer.codec, mBlockMode |-> writer.mBlockMode,
                   mFailed |-> writer.mFailed, lent |-> yes, started |-> yes,
                   mInput |-> writer.mInput, held |-> writer.held, begun |-> writer.begun,
                   sub |-> writer.sub, written |-> writer.written]
    BY ONLY <2>1, <2>2 DEF CodecWriter
  <2> QED BY <2>3 DEF yes
<1> HIDE DEF lending
<1>4. /\ lending \in CodecWriter /\ ~ lending.mFailed /\ lending.lent /\ lending.started
      /\ lending.codec = writer.codec /\ lending.mBlockMode = writer.mBlockMode
      /\ lending.mInput = writer.mInput /\ lending.held = writer.held
      /\ lending.begun = writer.begun /\ lending.sub = writer.sub
      /\ lending.written = writer.written
  BY <1>1, <1>2, <1>3 DEF CodecWriter
<1>5. Keeping(lending)
  BY <1>2, <1>4 DEF Compressing, Keeping
<1>6. EncodesPut(wire \o lending.sub, lending)
  BY <1>2, <1>4 DEF EncodesPut, Codec!Pending
<1>7. Puts
  <2>1. CASE writer.mInput = <<>>
    <3>1. writer' = lending /\ wire' = wire  BY <1>1, <2>1
    <3>2. Compressing(writer')  BY <1>4, <1>5, <2>1, <3>1 DEF Compressing
    <3> QED BY <1>2, <1>4, <1>6, <3>1, <3>2 DEF Puts
  <2>2. CASE writer.mInput # <<>>
    <3>1. Codec!Compress(lending)  BY <1>1, <2>2
    <3> QED BY <1>2, <1>4, <1>5, <1>6, <3>1, CompressOK
  <2> QED BY <2>1, <2>2
<1> QED BY <1>1, <1>7, PutsKeep

\* More that is written is more that is held.
LEMMA RestJoined ==
  ASSUME NEW h \in Bytes, NEW d \in Bytes, NEW b \in Bytes, NEW k \in Nat, IsRest(h, d, k)
  PROVE  IsRest(h \o b, d \o b, k) /\ Begins(d, d \o b) /\ d \o b \in Bytes
<1> DEFINE x == h \o b
           y == d \o b
<1>1. h \in Seq(Nat) /\ d \in Seq(Nat) /\ b \in Seq(Nat)
  BY DEF Bytes
<1>2. /\ Len(x) = Len(h) + Len(b) /\ \A i \in 1..Len(h) : x[i] = h[i]
      /\ \A i \in 1..Len(b) : x[Len(h) + i] = b[i]
  BY ONLY <1>1, Joined
<1>3. /\ Len(y) = Len(d) + Len(b) /\ \A i \in 1..Len(d) : y[i] = d[i]
      /\ \A i \in 1..Len(b) : y[Len(d) + i] = b[i]
      /\ y \in Seq(Nat)
  BY ONLY <1>1, Joined
<1>4. Len(h) \in Nat /\ Len(d) \in Nat /\ Len(b) \in Nat
  BY <1>1, EmptyOrNot
<1>5. k <= Len(d) /\ Len(h) = Len(d) - k /\ \A j \in 1..Len(h) : h[j] = d[k + j]
  BY DEF IsRest
<1> HIDE DEF x, y
<1>6. ASSUME NEW j \in 1..Len(x) PROVE x[j] = y[k + j]
  <2>1. CASE j <= Len(h)
    <3>1. j \in 1..Len(h) /\ k + j \in 1..Len(d)  BY <1>2, <1>4, <1>5, <2>1
    <3> QED BY <1>2, <1>3, <1>5, <3>1
  <2>2. CASE ~ (j <= Len(h))
    <3> DEFINE i == j - Len(h)
    <3>1. i \in 1..Len(b) /\ j = Len(h) + i /\ k + j = Len(d) + i
      BY <1>2, <1>4, <1>5, <2>2
    <3> HIDE DEF i
    <3> QED BY <1>2, <1>3, <3>1
  <2> QED BY <2>1, <2>2
<1>7. IsRest(x, y, k)
  BY <1>2, <1>3, <1>4, <1>5, <1>6 DEF IsRest
<1>8. Begins(d, y) /\ y \in Bytes
  BY <1>3, <1>4 DEF Begins, Bytes
<1> QED BY <1>7, <1>8 DEF x, y

LEMMA BackUpOutOK ==
  ASSUME CodecInv, NEW n \in 0..InputSize, Codec!BackUpOut(n)
  PROVE  CodecInv'
<1> DEFINE d == writer.written
           bytes == [i \in 1..n |-> Len(d) + i]
           filled == [writer EXCEPT !.lent = FALSE, !.mInput = bytes, !.written = @ \o bytes]
           none == <<>>
<1>1. /\ phase = "writing" /\ ~ writer.mFailed /\ writer.lent
      /\ UNCHANGED <<phase, damaged, reader, got, result>>
      /\ IF writer.codec = "lz4" \/ n \in {0, InputSize}
         THEN writer' = filled /\ UNCHANGED wire
         ELSE Codec!Compress(filled)
  BY DEF Codec!BackUpOut, Codec!Writing, Codec!readVars
<1>2. /\ writer \in CodecWriter /\ wire \in Seq(Symbol) /\ Compressing(writer)
      /\ EncodesPut(wire \o writer.sub, writer)
  BY <1>1 DEF CodecInv, CodecTypeOK
<1>3. d \in Bytes /\ bytes \in Bytes /\ writer.held \in Bytes /\ none \in Bytes
  <2>1. d \in Seq(Nat) /\ writer.held \in Seq(Nat)
    BY <1>2 DEF CodecWriter, Bytes
  <2>2. Len(d) \in Nat /\ n \in Nat  BY <2>1, EmptyOrNot, CodecConstants
  <2>3. bytes \in Seq(Nat)
    <3>1. bytes \in [1..n -> Nat]  BY <2>2
    <3> HIDE DEF bytes
    <3> QED BY <2>2, <3>1 DEF Seq
  <2> QED BY <2>1, <2>3 DEF Bytes
<1> HIDE DEF bytes, none
<1>4. filled = [codec |-> writer.codec, mBlockMode |-> writer.mBlockMode,
                mFailed |-> writer.mFailed, lent |-> FALSE, started |-> writer.started,
                mInput |-> bytes, held |-> writer.held, begun |-> writer.begun,
                sub |-> writer.sub, written |-> d \o bytes]
  <2>1. writer \in CodecWriter  BY <1>2
  <2> DEFINE e == writer.written \o bytes
  <2>2. filled = [writer EXCEPT !.lent = FALSE, !.mInput = bytes, !.written = e]
    OBVIOUS
  <2> HIDE DEF e, filled
  <2>3. filled = [codec |-> writer.codec, mBlockMode |-> writer.mBlockMode,
                  mFailed |-> writer.mFailed, lent |-> FALSE, started |-> writer.started,
                  mInput |-> bytes, held |-> writer.held, begun |-> writer.begun,
                  sub |-> writer.sub, written |-> e]
    BY ONLY <2>1, <2>2 DEF CodecWriter
  <2> QED BY <2>3 DEF e
<1> HIDE DEF filled
<1>5. PICK k \in Nat : /\ IsRest(Codec!Pending(writer), d, k)
                       /\ Decodes(Start, wire \o writer.sub, Between(k, writer.begun), d)
  BY <1>2 DEF EncodesPut
<1>6. writer.mInput = none /\ writer.started
  BY <1>1, <1>2 DEF Compressing, none
<1>7. Codec!Pending(writer) = writer.held
  <2>1. writer.held \in Seq(Nat)  BY <1>3 DEF Bytes
  <2>2. writer.held \o none = writer.held  BY <2>1, ConcatEmptySeq DEF none
  <2> QED BY <1>6, <2>2 DEF Codec!Pending
<1>8. /\ IsRest(writer.held \o bytes, d \o bytes, k) /\ Begins(d, d \o bytes)
      /\ d \o bytes \in Bytes
  BY <1>3, <1>5, <1>7, RestJoined
<1>9. /\ filled \in CodecWriter /\ ~ filled.mFailed /\ ~ filled.lent /\ filled.started
      /\ filled.codec = writer.codec /\ filled.mBlockMode = writer.mBlockMode
      /\ filled.mInput = bytes /\ filled.held = writer.held /\ filled.begun = writer.begun
      /\ filled.sub = writer.sub /\ filled.written = d \o bytes
  <2> HIDE DEF d
  <2> DEFINE e == d \o bytes
  <2>1. e \in Bytes  BY <1>8
  <2> HIDE DEF e
  <2>2. filled = [codec |-> writer.codec, mBlockMode |-> writer.mBlockMode,
                  mFailed |-> writer.mFailed, lent |-> FALSE, started |-> writer.started,
                  mInput |-> bytes, held |-> writer.held, begun |-> writer.begun,
                  sub |-> writer.sub, written |-> e]
    BY <1>4 DEF e
  <2>3. /\ filled \in CodecWriter /\ ~ filled.mFailed /\ ~ filled.lent /\ filled.started
        /\ filled.codec = writer.codec /\ filled.mBlockMode = writer.mBlockMode
        /\ filled.mInput = bytes /\ filled.held = writer.held /\ filled.begun = writer.begun
        /\ filled.sub = writer.sub /\ filled.written = e
    BY <1>1, <1>2, <1>3, <1>6, <2>1, <2>2 DEF CodecWriter
  <2> QED BY <2>3 DEF e
<1>10. Keeping(filled)
  BY <1>2, <1>6, <1>9 DEF Compressing, Keeping
<1>11. EncodesPut(wire \o filled.sub, filled)
  <2>1. Decodes(Start, wire \o filled.sub, Between(k, filled.begun), d)
    BY <1>5, <1>9
  <2>2. wire \o filled.sub \in Seq(Symbol)
    <3>1. wire \in Seq(Symbol) /\ filled.sub \in Seq(Symbol)
      BY <1>2, <1>9 DEF CodecWriter
    <3> QED BY ONLY <3>1, Joined
  <2>3. Decodes(Start, wire \o filled.sub, Between(k, filled.begun), filled.written)
    <3> HIDE DEF d
    <3>1. d \in Bytes /\ filled.written \in Bytes /\ Begins(d, filled.written)
      BY <1>3, <1>8, <1>9
    <3> QED BY ONLY <2>1, <2>2, <3>1, DecodesLonger
  <2>4. IsRest(Codec!Pending(filled), filled.written, k)
    BY <1>8, <1>9 DEF Codec!Pending
  <2> QED BY <2>3, <2>4 DEF EncodesPut
<1>12. Puts
  <2>1. CASE writer.codec = "lz4" \/ n \in {0, InputSize}
    <3>1. writer' = filled /\ wire' = wire  BY <1>1, <2>1
    <3> HIDE DEF d
    <3> QED BY <1>2, <1>9, <1>10, <1>11, <3>1 DEF Puts, Compressing
  <2>2. CASE ~ (writer.codec = "lz4" \/ n \in {0, InputSize})
    <3>1. Codec!Compress(filled)  BY <1>1, <2>2
    <3> QED BY ONLY <1>2, <1>9, <1>10, <1>11, <3>1, CompressOK
  <2> QED BY <2>1, <2>2
<1> QED BY <1>1, <1>12, PutsKeep

\* The frame is finished with all that was held.
LEMMA CloseOutOK ==
  ASSUME CodecInv, Codec!CloseOut
  PROVE  CodecInv'
<1> DEFINE p == Codec!Pending(writer)
           d == writer.written
           none == <<>>
           ends == writer.codec = "lz4"
                     \/ (IF writer.mBlockMode THEN writer.mInput # none ELSE writer.started)
           v == [writer EXCEPT !.mInput = none, !.held = none, !.begun = FALSE]
           e == Symbols(writer, Len(p), TRUE)
           done == Between(Len(d), FALSE)
<1>1. /\ phase = "writing" /\ ~ writer.mFailed /\ phase' = "completed"
      /\ UNCHANGED <<damaged, reader, got, result>>
      /\ IF ends
         THEN Codec!Put(v, Codec!Begin(writer) \o Codec!Block(p) \o <<Codec!FrameEnd>>, FALSE)
         ELSE UNCHANGED <<writer, wire>>
  BY DEF Codec!CloseOut, Codec!Writing, Codec!readVars
<1>2. /\ writer \in CodecWriter /\ wire \in Seq(Symbol) /\ Compressing(writer)
      /\ EncodesPut(wire \o writer.sub, writer)
  BY <1>1 DEF CodecInv, CodecTypeOK
<1>3. PICK k \in Nat : IsRest(p, d, k) /\ Decodes(Start, wire \o writer.sub, Between(k, writer.begun), d)
  BY <1>2 DEF EncodesPut
<1>4. /\ p \in Seq(Nat) /\ Len(p) \in Nat /\ Len(d) \in Nat /\ writer.held \in Seq(Nat)
      /\ writer.mInput \in Seq(Nat)
  <2>1. d \in Seq(Nat) /\ writer.held \in Seq(Nat) /\ writer.mInput \in Seq(Nat)
    BY <1>2 DEF CodecWriter, Bytes
  <2>2. p \in Seq(Nat)  BY <2>1, Joined DEF Codec!Pending
  <2> QED BY <2>1, <2>2, EmptyOrNot
<1>5. k + Len(p) = Len(d)
  BY <1>3, <1>4 DEF IsRest
<1> HIDE DEF none
<1>6. /\ wire' \in Seq(Symbol) /\ writer' \in CodecWriter /\ writer'.written = d
      /\ writer'.mFailed => EncodesSome(wire', writer')
      /\ ~ writer'.mFailed => Decodes(Start, wire' \o writer'.sub, done, d)
  <2>1. CASE ends
    <3>1. Codec!Upto(p, Len(p)) = p  BY <1>4, Parted
    <3>2. e = Codec!Begin(writer) \o Codec!Block(p) \o <<Codec!FrameEnd>>
      BY <3>1 DEF Symbols
    <3>3. Codec!Put(v, e, FALSE)  BY <1>1, <2>1, <3>2
    <3>4. e \in Seq(Symbol) /\ Decodes(Between(k, writer.begun), e, done, d)
      <4>1. Len(p) \in 0..Len(Codec!Pending(writer))  BY <1>4
      <4>2. /\ Symbols(writer, Len(p), TRUE) \in Seq(Symbol)
            /\ Decodes(Between(k, writer.begun), Symbols(writer, Len(p), TRUE),
                       Between(k + Len(p), ~ TRUE /\ (writer.begun \/ Len(p) > 0)),
                       writer.written)
        BY <1>2, <1>3, <4>1, SymbolsDecode
      <4>3. Between(k + Len(p), ~ TRUE /\ (writer.begun \/ Len(p) > 0)) = done
        BY <1>5
      <4> HIDE DEF done, p
      <4> QED BY <4>2, <4>3
    <3>5. v = [codec |-> writer.codec, mBlockMode |-> writer.mBlockMode,
               mFailed |-> writer.mFailed, lent |-> writer.lent, started |-> writer.started,
               mInput |-> none, held |-> none, begun |-> FALSE, sub |-> writer.sub,
               written |-> writer.written]
      <4> DEFINE no == FALSE
      <4>1. writer \in CodecWriter /\ no \in BOOLEAN  BY <1>2
      <4>2. v = [writer EXCEPT !.mInput = none, !.held = none, !.begun = no]
        OBVIOUS
      <4> HIDE DEF v, no
      <4>3. v = [codec |-> writer.codec, mBlockMode |-> writer.mBlockMode,
                 mFailed |-> writer.mFailed, lent |-> writer.lent, started |-> writer.started,
                 mInput |-> none, held |-> none, begun |-> no, sub |-> writer.sub,
                 written |-> writer.written]
        BY ONLY <4>1, <4>2 DEF CodecWriter
      <4> QED BY <4>3 DEF no
    <3>6. none \in Bytes  BY DEF none, Bytes
    <3> HIDE DEF v, e, d, done
    <3>7. v \in CodecWriter /\ v.sub = writer.sub /\ v.written = d /\ ~ v.mFailed
      BY <1>1, <1>2, <3>5, <3>6 DEF CodecWriter, d
    <3>8. Decodes(Start, wire \o v.sub, Between(k, writer.begun), d)
      BY <1>3, <3>7
    <3>9. FALSE \in BOOLEAN /\ wire \in Seq(Symbol)  BY <1>2
    <3>10. /\ wire' \in Seq(Symbol)
           /\ \/ \E sub \in Seq(Symbol) :
                   writer' = [v EXCEPT !.sub = sub] /\ Decodes(Start, wire' \o sub, done, d)
              \/ /\ writer' = [v EXCEPT !.mFailed = TRUE]
                 /\ \E t \in Decoder : Decodes(Start, wire', t, d)
      BY ONLY <3>3, <3>4, <3>7, <3>8, <3>9, PutBelowOK
    <3>11. CASE \E sub \in Seq(Symbol) :
                  writer' = [v EXCEPT !.sub = sub] /\ Decodes(Start, wire' \o sub, done, d)
      <4>1. PICK sub \in Seq(Symbol) :
              writer' = [v EXCEPT !.sub = sub] /\ Decodes(Start, wire' \o sub, done, d)
        BY <3>11
      <4>2. writer' \in CodecWriter /\ writer'.sub = sub /\ writer'.written = d /\ ~ writer'.mFailed
        BY <3>7, <4>1 DEF CodecWriter
      <4> QED BY <3>10, <4>1, <4>2
    <3>12. CASE /\ writer' = [v EXCEPT !.mFailed = TRUE]
                /\ \E t \in Decoder : Decodes(Start, wire', t, d)
      <4>1. writer' \in CodecWriter /\ writer'.written = d /\ writer'.mFailed
        BY <3>7, <3>12 DEF CodecWriter
      <4> QED BY <3>10, <3>12, <4>1 DEF EncodesSome
    <3> QED BY <3>10, <3>11, <3>12
  <2>2. CASE ~ ends
    <3>1. writer' = writer /\ wire' = wire  BY <1>1, <2>2
    <3>2. writer.mInput = none /\ writer.held = none /\ ~ writer.begun
      BY <1>2, <2>2 DEF Compressing, Keeping, none, CodecWriter
    <3>3. p = none  BY <1>4, <3>2, ConcatEmptySeq DEF Codec!Pending, none
    <3>4. Len(p) = 0  BY <1>4, <3>3, EmptyOrNot DEF none
    <3>5. k = Len(d) /\ writer.begun = FALSE
      BY <1>2, <1>4, <1>5, <3>2, <3>4 DEF CodecWriter
    <3>6. Decodes(Start, wire \o writer.sub, done, d)  BY <1>3, <3>5
    <3> HIDE DEF done
    <3> QED BY <1>1, <1>2, <3>1, <3>6
  <2> QED BY <2>1, <2>2
<1>7. CodecTypeOK' /\ NotOpened'
  BY <1>1, <1>6 DEF CodecInv, CodecTypeOK, NotOpened
<1> HIDE DEF d
<1>8. ~ writer'.mFailed => EncodesAll(wire' \o writer'.sub, writer')
  BY <1>6 DEF EncodesAll
<1> QED BY <1>1, <1>6, <1>7, <1>8 DEF CodecInv

\* A beginning of what decodes.
LEMMA SomeDecode ==
  ASSUME NEW x, NEW g \in Seq(Symbol), NEW s \in Seq(Symbol), NEW y, NEW d, NEW n \in Nat,
         Decodes(x, g \o s, y, d)
  PROVE  /\ g \o Codec!Upto(s, n) \in Seq(Symbol)
         /\ \E z \in Decoder : Decodes(x, g \o Codec!Upto(s, n), z, d)
<1> DEFINE u == Codec!Upto(s, n)
           v == Codec!After(s, n)
<1>1. u \in Seq(Symbol) /\ v \in Seq(Symbol) /\ u \o v = s
  BY ONLY s \in Seq(Symbol), n \in Nat, Parted
<1> HIDE DEF u, v
<1>2. g \o u \in Seq(Symbol)
  BY ONLY g \in Seq(Symbol), <1>1, Joined
<1>3. (g \o u) \o v = g \o (u \o v)
  <2>1. g \in Seq(Symbol) /\ u \in Seq(Symbol) /\ v \in Seq(Symbol)  BY <1>1
  <2> QED BY ONLY <2>1, ConcatAssociative
<1>4. Decodes(x, (g \o u) \o v, y, d)
  BY <1>1, <1>3
<1>5. \E z \in Decoder : Decodes(x, g \o u, z, d) /\ Decodes(z, v, y, d)
  BY ONLY <1>1, <1>2, <1>4, EachDecodes
<1> QED BY <1>2, <1>5 DEF u

LEMMA CloseBelowOK ==
  ASSUME CodecInv, Codec!CloseBelow
  PROVE  CodecInv'
<1> DEFINE d == writer.written
<1>1. /\ phase = "completed" \/ (phase = "writing" /\ writer.mFailed)
      /\ phase' = "closed" /\ UNCHANGED <<damaged, reader, got, result>>
      /\ \/ ~ writer.mFailed /\ wire' = wire \o writer.sub /\ writer' = writer
         \/ /\ ~ writer.mFailed /\ writer' = [writer EXCEPT !.mFailed = TRUE]
            /\ \E n \in 0..Len(writer.sub) : wire' = wire \o Codec!Upto(writer.sub, n)
         \/ writer.mFailed /\ writer' = writer /\ wire' = wire
  BY DEF Codec!CloseBelow, Codec!readVars
<1>2. /\ writer \in CodecWriter /\ wire \in Seq(Symbol) /\ writer.sub \in Seq(Symbol)
  BY DEF CodecInv, CodecTypeOK, CodecWriter
<1>3. phase # "reading"
  BY <1>1
<1>4. /\ wire' \in Seq(Symbol) /\ writer' \in CodecWriter
      /\ writer'.mFailed => EncodesSome(wire', writer')
      /\ ~ writer'.mFailed => EncodesAll(wire', writer')
  <2>1. CASE ~ writer.mFailed /\ wire' = wire \o writer.sub /\ writer' = writer
    <3>1. EncodesAll(wire \o writer.sub, writer)  BY <1>1, <2>1 DEF CodecInv
    <3>2. wire \o writer.sub \in Seq(Symbol)  BY ONLY <1>2, Joined
    <3> QED BY <1>2, <2>1, <3>1, <3>2
  <2>2. CASE /\ ~ writer.mFailed /\ writer' = [writer EXCEPT !.mFailed = TRUE]
             /\ \E n \in 0..Len(writer.sub) : wire' = wire \o Codec!Upto(writer.sub, n)
    <3>1. PICK n \in 0..Len(writer.sub) : wire' = wire \o Codec!Upto(writer.sub, n)
      BY <2>2
    <3>2. n \in Nat
      <4>1. Len(writer.sub) \in Nat  BY <1>2, EmptyOrNot
      <4> QED BY <4>1
    <3>3. Decodes(Start, wire \o writer.sub, Between(Len(d), FALSE), d)
      BY <1>1, <2>2 DEF CodecInv, EncodesAll
    <3>4. /\ wire \o Codec!Upto(writer.sub, n) \in Seq(Symbol)
          /\ \E z \in Decoder : Decodes(Start, wire \o Codec!Upto(writer.sub, n), z, d)
      BY ONLY <1>2, <3>2, <3>3, SomeDecode
    <3>5. writer' \in CodecWriter /\ writer'.written = d /\ writer'.mFailed
      BY <1>2, <2>2 DEF CodecWriter
    <3> QED BY <3>1, <3>4, <3>5 DEF EncodesSome
  <2>3. CASE writer.mFailed /\ writer' = writer /\ wire' = wire
    BY <1>2, <1>3, <2>3 DEF CodecInv
  <2> QED BY <1>1, <2>1, <2>2, <2>3
<1>5. CodecTypeOK' /\ NotOpened'
  BY <1>1, <1>3, <1>4 DEF CodecInv, CodecTypeOK, NotOpened
<1> QED BY <1>1, <1>4, <1>5 DEF CodecInv

\* What was decoded is what the application has, the rest of the window, and
\* what the window had no room for.
LEMMA SeenIs ==
  ASSUME NEW r \in CodecReader, NEW g \in Bytes, r.mOutputBufferRemains <= Len(r.window)
  PROVE  /\ Unlent(r) \in Seq(Nat) /\ Len(Unlent(r)) = r.mOutputBufferRemains
         /\ r.mOutputBufferRemains = 0 => Unlent(r) = <<>> /\ Seen(r, g) = g \o r.held
         /\ g \o Unlent(r) \in Seq(Nat) /\ Seen(r, g) \in Bytes
         /\ Len(Seen(r, g)) = Len(g) + r.mOutputBufferRemains + Len(r.held)
         /\ Len(g) \in Nat /\ Len(r.held) \in Nat
<1> DEFINE m == r.mOutputBufferRemains
           win == r.window
           n == Len(win) - m
           rest == Unlent(r)
           none == <<>>
<1>1. /\ win \in Seq(Nat) /\ g \in Seq(Nat) /\ r.held \in Seq(Nat) /\ m \in Nat
  BY DEF CodecReader, Bytes
<1>2. Len(win) \in Nat /\ Len(g) \in Nat /\ Len(r.held) \in Nat /\ (g = none <=> Len(g) = 0)
  BY ONLY <1>1, EmptyOrNot
<1>3. n \in Nat /\ n <= Len(win) /\ Len(win) - n = m
  BY <1>1, <1>2
<1> HIDE DEF n
<1>4. /\ SubSeq(win, n + 1, Len(win)) \in Seq(Nat)
      /\ Len(SubSeq(win, n + 1, Len(win))) = Len(win) - n
  BY ONLY <1>1, <1>3, Cut
<1>5. rest = SubSeq(win, n + 1, Len(win))
  BY DEF Unlent, n
<1>6. rest \in Seq(Nat) /\ Len(rest) = m
  BY <1>3, <1>4, <1>5
<1> HIDE DEF rest, none, m
<1>7. g \o rest \in Seq(Nat) /\ Len(g \o rest) = Len(g) + Len(rest)
  BY ONLY <1>1, <1>6, Joined
<1> DEFINE a == g \o rest
           h == r.held
<1>8. a \in Seq(Nat) /\ Len(a) = Len(g) + m /\ h \in Seq(Nat)
  BY <1>1, <1>6, <1>7
<1> HIDE DEF a, h
<1>9. a \o h \in Seq(Nat) /\ Len(a \o h) = Len(a) + Len(h)
  BY ONLY <1>8, Joined
<1>10. Seen(r, g) = a \o h
  BY DEF Seen, a, h, rest
<1>11. m = 0 => rest = none /\ Seen(r, g) = g \o h
  <2>1. CASE m = 0
    <3>1. rest = none  BY <1>6, <2>1, EmptyOrNot DEF none
    <3>2. a = g  BY <1>1, <3>1, ConcatEmptySeq DEF a, none
    <3> QED BY <1>10, <3>1, <3>2
  <2> QED BY <2>1
<1>12. Len(Seen(r, g)) = Len(g) + m + Len(h)
  BY <1>8, <1>9, <1>10
<1>13. Seen(r, g) \in Bytes
  BY <1>9, <1>10 DEF Bytes
<1> QED BY ONLY <1>2, <1>6, <1>7, <1>11, <1>12, <1>13 DEF m, rest, none, h

LEMMA ArrivesOK ==
  ASSUME CodecInv, Codec!Arrives
  PROVE  CodecInv'
<1> DEFINE d == writer.written
           none == <<>>
           x == [count |-> Len(Seen(reader, got)), begun |-> reader.begun, half |-> reader.half]
<1>1. /\ phase = "closed" /\ phase' = "reading" /\ UNCHANGED <<writer, reader, got, result>>
      /\ damaged' = (wire' # wire \/ writer.mFailed)
  BY DEF Codec!Arrives, Codec!readVars
<1>2. PICK n \in 0..Len(wire) : wire' = Codec!Upto(wire, n)
  BY DEF Codec!Arrives
<1>3. /\ CodecTypeOK /\ NotOpened /\ wire \in Seq(Symbol) /\ writer \in CodecWriter
      /\ writer.mFailed => EncodesSome(wire, writer)
      /\ ~ writer.mFailed => EncodesAll(wire, writer)
  BY <1>1 DEF CodecInv, CodecTypeOK
<1>4. /\ none \in Bytes /\ none \in Seq(Symbol) /\ none \o wire = wire /\ n \in Nat
      /\ Len(none) = 0 /\ none \o none = none
  <2>1. Len(wire) \in Nat  BY <1>3, EmptyOrNot
  <2> QED BY <1>3, <2>1, ConcatEmptySeq DEF Bytes
<1>5. /\ reader \in CodecReader /\ ~ reader.begun /\ reader.half = none /\ reader.held = none
      /\ reader.mInput = none /\ reader.window = none /\ reader.mOutputBufferRemains = 0
      /\ got = none /\ result = "none"
  BY <1>3 DEF NotOpened, CodecTypeOK
<1>6. d \in Bytes /\ Len(d) \in Nat
  BY <1>3, EmptyOrNot DEF CodecWriter, Bytes
<1> HIDE DEF none
<1>7. reader.mOutputBufferRemains <= Len(reader.window)
  BY <1>4, <1>5
<1>8. Seen(reader, got) = none
  BY <1>4, <1>5, <1>7, SeenIs
<1>9. x = Start
  BY <1>4, <1>5, <1>8 DEF Start, Between, CodecReader, none
<1>10. PICK y \in Decoder : /\ writer.mFailed \/ y = Between(Len(d), FALSE)
                            /\ Decodes(Start, none \o wire, y, d)
  <2>1. CASE writer.mFailed  BY <1>3, <1>4, <2>1 DEF EncodesSome
  <2>2. CASE ~ writer.mFailed
    <3>1. Between(Len(d), FALSE) \in Decoder
      BY <1>4, <1>6 DEF Between, Decoder, none
    <3> QED BY <1>3, <1>4, <2>2, <3>1 DEF EncodesAll
  <2> QED BY <2>1, <2>2
<1>11. /\ none \o Codec!Upto(wire, n) \in Seq(Symbol)
       /\ \E z \in Decoder : Decodes(Start, none \o Codec!Upto(wire, n), z, d)
  BY ONLY <1>3, <1>4, <1>10, SomeDecode
<1>12. wire' \in Seq(Symbol)
  <2>1. Codec!Upto(wire, n) \in Seq(Symbol)  BY ONLY <1>3, <1>4, Parted
  <2> QED BY <1>2, <2>1
<1>13. \E y2 \in Decoder : /\ ~ damaged' => y2 = Between(Len(d), FALSE)
                          /\ Decodes(Start, none \o wire', y2, d)
  <2>1. CASE damaged'  BY <1>2, <1>11, <2>1
  <2>2. CASE ~ damaged'
    <3>1. wire' = wire /\ ~ writer.mFailed  BY <1>1, <2>2
    <3> QED BY <1>10, <3>1
  <2> QED BY <2>1, <2>2
<1>14. Begins(none, d)
  BY <1>4, <1>6 DEF Begins
<1>15. Decompressing(writer, wire', reader, got, ~ damaged')
  <2> HIDE DEF d
  <2>1. \E y2 \in Decoder :
          /\ ~ damaged' => y2 = Between(Len(d), FALSE)
          /\ Decodes(x, reader.mInput \o wire', y2, d)
    <3> HIDE DEF x
    <3> QED BY <1>5, <1>9, <1>13
  <2>2. Begins(Seen(reader, got), d)  BY <1>8, <1>14
  <2> QED BY <1>5, <1>7, <2>1, <2>2 DEF Decompressing, d, none
<1>16. CodecTypeOK'
  BY <1>1, <1>3, <1>12 DEF CodecTypeOK
<1> QED BY <1>1, <1>5, <1>15, <1>16 DEF CodecInv

LEMMA CodecReadOK ==
  ASSUME CodecInv, Codec!Read
  PROVE  CodecInv'
<1>1. /\ phase = "reading" /\ result' = "reading"
      /\ UNCHANGED <<writer, wire, phase, damaged, reader, got>>
  BY DEF Codec!Read
<1>2. CodecTypeOK'
  BY <1>1 DEF CodecInv, CodecTypeOK
<1> QED BY <1>1, <1>2 DEF CodecInv

LEMMA BytesAssociative ==
  ASSUME NEW s \in Bytes, NEW t \in Bytes, NEW u \in Bytes
  PROVE  (s \o t) \o u = s \o (t \o u)
<1> DEFINE N == Nat
<1>1. s \in Seq(N) /\ t \in Seq(N) /\ u \in Seq(N)
  BY DEF Bytes
<1> HIDE DEF N
<1> QED BY ONLY <1>1, ConcatAssociative

\* What the decompressor gives is in the window and behind it.
LEMMA GivesOK ==
  ASSUME NEW r \in CodecReader, NEW g \in Bytes, NEW bytes \in Bytes
  PROVE  LET v == Codec!Gives(r, bytes)
         IN  /\ v \in CodecReader /\ v.mInput = r.mInput /\ v.begun = r.begun /\ v.half = r.half
             /\ v.mOutputBufferRemains <= Len(v.window) /\ Seen(v, g) = g \o bytes
             /\ bytes = <<>> => v.held = <<>> /\ v.mOutputBufferRemains = 0
<1> DEFINE v == Codec!Gives(r, bytes)
           u == Codec!Upto(bytes, WindowSize)
           a == Codec!After(bytes, WindowSize)
           n == Len(u)
           none == <<>>
<1>1. bytes \in Seq(Nat) /\ g \in Seq(Nat) /\ WindowSize \in Nat
  BY CodecConstants DEF Bytes
<1>2. /\ u \in Seq(Nat) /\ a \in Seq(Nat) /\ u \o a = bytes
      /\ Len(bytes) <= WindowSize => u = bytes /\ a = none
  BY ONLY <1>1, Parted DEF none
<1>3. v = [r EXCEPT !.window = u, !.mOutputBufferRemains = n, !.held = a]
  BY DEF Codec!Gives
<1> HIDE DEF u, a, v, none
<1>4. n \in Nat
  BY ONLY <1>2, EmptyOrNot
<1> HIDE DEF n
<1>5. v = [mInput |-> r.mInput, begun |-> r.begun, half |-> r.half, held |-> a, window |-> u,
           mOutputBufferRemains |-> n, mFailed |-> r.mFailed]
  BY ONLY <1>3, r \in CodecReader DEF CodecReader
<1>6. /\ v \in CodecReader /\ v.mInput = r.mInput /\ v.begun = r.begun /\ v.half = r.half
      /\ v.held = a /\ v.window = u /\ v.mOutputBufferRemains = n
  BY <1>2, <1>4, <1>5 DEF CodecReader, Bytes
<1>7. v.mOutputBufferRemains <= Len(v.window)
  BY <1>4, <1>6 DEF n
<1>8. Unlent(v) = u
  <2>1. Len(u) - n + 1 = 1  BY <1>4 DEF n
  <2>2. SubSeq(u, 1, Len(u)) = u  BY ONLY <1>2, SubSeqFull
  <2> QED BY <1>6, <2>1, <2>2 DEF Unlent
<1>9. (g \o u) \o a = g \o (u \o a)
  <2>1. g \in Bytes /\ u \in Bytes /\ a \in Bytes  BY <1>1, <1>2 DEF Bytes
  <2> QED BY ONLY <2>1, BytesAssociative
<1>10. Seen(v, g) = g \o bytes
  BY <1>2, <1>6, <1>8, <1>9 DEF Seen
<1>11. bytes = none => v.held = none /\ v.mOutputBufferRemains = 0
  <2>1. CASE bytes = none
    <3>1. Len(bytes) = 0  BY <1>1, <2>1, EmptyOrNot DEF none
    <3>2. u = bytes /\ a = none  BY <1>1, <1>2, <3>1
    <3> QED BY <1>6, <3>1, <3>2 DEF n
  <2> QED BY <2>1
<1> QED BY <1>6, <1>7, <1>10, <1>11 DEF v, none

\* What is lent has been decoded.
LEMMA LendOK ==
  ASSUME writer \in CodecWriter, got \in Bytes, NEW r \in CodecReader, NEW wi, NEW whole,
         Decompressing(writer, wi, r, got, whole), Codec!Lend(r)
  PROVE  /\ reader' \in CodecReader /\ got' \in Bytes /\ result' = "data"
         /\ Decompressing(writer, wi, reader', got', whole)
<1> DEFINE m == r.mOutputBufferRemains
           win == r.window
           from == Len(win) - m
           h == r.held
<1>1. PICK n \in 1..m : /\ reader' = [r EXCEPT !.mOutputBufferRemains = m - n]
                        /\ got' = got \o SubSeq(win, from + 1, from + n) /\ result' = "data"
  BY DEF Codec!Lend
<1>2. /\ m <= Len(win)
      /\ ~ r.begun => m = 0
      /\ Begins(Seen(r, got), writer.written)
      /\ \E y \in Decoder :
           /\ whole => y = Between(Len(writer.written), FALSE)
           /\ Decodes([count |-> Len(Seen(r, got)), begun |-> r.begun, half |-> r.half],
                      r.mInput \o wi, y, writer.written)
  BY DEF Decompressing
<1>3. win \in Seq(Nat) /\ m \in Nat /\ got \in Seq(Nat) /\ h \in Seq(Nat)
  BY DEF CodecReader, Bytes
<1>4. Len(win) \in Nat
  BY ONLY <1>3, EmptyOrNot
<1> HIDE DEF m, win, h
<1>5. /\ from \in Nat /\ m - n \in Nat /\ from + n <= Len(win) /\ m - n <= Len(win)
      /\ Len(win) - m + 1 = from + 1 /\ Len(win) - (m - n) + 1 = (from + n) + 1
  BY <1>2, <1>3, <1>4
<1> DEFINE p == SubSeq(win, from + 1, from + n)
           q == SubSeq(win, (from + n) + 1, Len(win))
<1>6. Unlent(r) = SubSeq(win, from + 1, Len(win))
  BY DEF Unlent, win, m
<1>7. p \o q = Unlent(r)
  <2> HIDE DEF from
  <2>1. /\ from + 1 \in 1..(Len(win) + 1) /\ from + n \in ((from + 1) - 1)..Len(win)
        /\ Len(win) \in (from + n)..Len(win)
    BY <1>4, <1>5
  <2>2. p \o q = SubSeq(win, from + 1, Len(win))
    BY ONLY <1>3, <2>1, ConcatAdjacentSubSeq
  <2> QED BY <1>6, <2>2
<1>8. p \in Seq(Nat) /\ q \in Seq(Nat)
  <2>1. \A i \in 1..Len(win) : win[i] \in Nat  BY <1>3, ElementOfSeq
  <2> HIDE DEF from, win
  <2>2. /\ \A i \in (from + 1)..(from + n) : win[i] \in Nat
        /\ \A i \in ((from + n) + 1)..Len(win) : win[i] \in Nat
    BY <1>3, <1>4, <1>5, <2>1
  <2>3. from + 1 \in Nat /\ from + n \in Nat /\ (from + n) + 1 \in Nat /\ Len(win) \in Nat
    BY <1>4, <1>5
  <2>4. p \in Seq(Nat)
    <3>1. from + 1 \in Nat /\ from + n \in Nat /\ \A i \in (from + 1)..(from + n) : win[i] \in Nat
      BY <2>2, <2>3
    <3> QED BY <3>1, SubSeqProperties
  <2>5. q \in Seq(Nat)  BY <2>2, <2>3, SubSeqProperties
  <2> QED BY <2>4, <2>5
<1>9. reader' = [mInput |-> r.mInput, begun |-> r.begun, half |-> r.half, held |-> h,
                 window |-> win, mOutputBufferRemains |-> m - n, mFailed |-> r.mFailed]
  BY ONLY <1>1, r \in CodecReader DEF CodecReader, h, win
<1> HIDE DEF p, q
<1>10. got' = got \o p /\ got' \in Seq(Nat)
  <2>1. got' = got \o p  BY <1>1 DEF p
  <2>2. got \o p \in Seq(Nat)  BY ONLY <1>3, <1>8, Joined
  <2> QED BY <2>1, <2>2
<1>11. /\ reader' \in CodecReader /\ reader'.mInput = r.mInput /\ reader'.begun = r.begun
       /\ reader'.half = r.half /\ reader'.held = h /\ reader'.window = win
       /\ reader'.mOutputBufferRemains = m - n
  <2> DEFINE j == m - n
  <2>1. j \in Nat  BY <1>5
  <2>2. reader' = [mInput |-> r.mInput, begun |-> r.begun, half |-> r.half, held |-> h,
                   window |-> win, mOutputBufferRemains |-> j, mFailed |-> r.mFailed]
    BY <1>9
  <2> HIDE DEF j
  <2>3. /\ reader' \in CodecReader /\ reader'.mInput = r.mInput /\ reader'.begun = r.begun
        /\ reader'.half = r.half /\ reader'.held = h /\ reader'.window = win
        /\ reader'.mOutputBufferRemains = j
    BY ONLY <2>1, <2>2, <1>3, r \in CodecReader DEF CodecReader, Bytes
  <2> QED BY <2>3 DEF j
<1>12. Unlent(reader') = q
  BY <1>5, <1>11 DEF Unlent, q
<1>13. (got \o p) \o q = got \o (p \o q)
  <2>1. got \in Bytes /\ p \in Bytes /\ q \in Bytes  BY <1>3, <1>8 DEF Bytes
  <2> QED BY ONLY <2>1, BytesAssociative
<1>14. Seen(reader', got') = Seen(r, got)
  BY <1>7, <1>10, <1>11, <1>12, <1>13 DEF Seen, h
<1>15. r.begun
  <2>1. m # 0  BY <1>3
  <2> QED BY <1>2, <2>1 DEF m
<1>16. reader'.mOutputBufferRemains <= Len(reader'.window)
  BY <1>5, <1>11
<1>17. Decompressing(writer, wi, reader', got', whole)
  BY <1>2, <1>11, <1>14, <1>15, <1>16 DEF Decompressing
<1> QED BY <1>1, <1>10, <1>11, <1>17 DEF Bytes

LEMMA OneIs ==
  ASSUME NEW x, NEW e \in Symbol, NEW y, NEW d, Decodes(x, <<e>>, y, d)
  PROVE  Decoding(x, e, y, d)
<1> DEFINE s == <<e>>
<1>1. Len(s) = 1 /\ s[1] = e
  OBVIOUS
<1> HIDE DEF s
<1>2. PICK p : Path(p, x, s, y, d)
  BY DEF Decodes, s
<1>3. p[0] = x /\ p[1] = y /\ \A i \in 1..1 : Decoding(p[i - 1], s[i], p[i], d)
  BY <1>1, <1>2 DEF Path
<1>4. 1 \in 1..1 /\ 1 - 1 = 0
  OBVIOUS
<1>5. Decoding(p[1 - 1], s[1], p[1], d)
  BY ONLY <1>3, <1>4
<1> QED BY ONLY <1>1, <1>3, <1>4, <1>5

\* A symbol that was put is decoded as it was put.
LEMMA DecodedOK ==
  ASSUME NEW w \in CodecWriter, NEW r \in CodecReader, NEW wi \in Seq(Symbol), NEW g \in Bytes,
         NEW whole, Decompressing(w, wi, r, g, whole), r.mOutputBufferRemains = 0,
         r.held = <<>>, r.mInput # <<>>
  PROVE  /\ Codec!Decodable(r) /\ Codec!Decoded(r) \in CodecReader
         /\ Decompressing(w, wi, Codec!Decoded(r), g, whole)
<1> DEFINE d == w.written
           e == Head(r.mInput)
           t == Tail(r.mInput)
           k == Len(g)
           x == [count |-> k, begun |-> r.begun, half |-> r.half]
           none == <<>>
           v == Codec!Decoded(r)
           rest == [r EXCEPT !.mInput = t]
<1>1. /\ r.mInput \in Seq(Symbol) /\ g \in Seq(Nat) /\ d \in Seq(Nat) /\ r.begun \in BOOLEAN
      /\ r.half \in Bytes /\ none \in Bytes
  BY DEF CodecReader, CodecWriter, Bytes
<1>2. e \in Symbol /\ t \in Seq(Symbol) /\ r.mInput = <<e>> \o t
  <2>1. e \in Symbol /\ t \in Seq(Symbol)  BY <1>1, HeadTailProperties
  <2>2. r.mInput = <<e>> \o t
    <3> DEFINE s == r.mInput
               a == <<e>>
    <3>1. s \in Seq(Symbol) /\ s # none /\ s[1] = e  BY <1>1
    <3>2. /\ Len(t) = Len(s) - 1 /\ \A i \in 1..Len(t) : t[i] = s[i + 1]
      BY <1>1, HeadTailProperties
    <3>3. Len(s) \in Nat /\ Len(t) \in Nat /\ Len(s) # 0
      BY <2>1, <3>1, EmptyOrNot
    <3>4. a \in Seq(Symbol) /\ Len(a) = 1 /\ a[1] = e  BY <2>1
    <3> HIDE DEF a, s, t, e
    <3>5. /\ a \o t \in Seq(Symbol) /\ Len(a \o t) = Len(a) + Len(t)
          /\ \A i \in 1..Len(a) : (a \o t)[i] = a[i]
          /\ \A i \in 1..Len(t) : (a \o t)[Len(a) + i] = t[i]
      <4>1. a \in Seq(Symbol) /\ t \in Seq(Symbol)  BY <2>1, <3>4
      <4> QED BY ONLY <4>1, Joined
    <3> DEFINE j == a \o t
    <3> HIDE DEF j
    <3>6. /\ j \in Seq(Symbol) /\ Len(j) = 1 + Len(t) /\ j[1] = e
          /\ \A i \in 1..Len(t) : j[1 + i] = t[i]
      BY <3>4, <3>5 DEF j
    <3>7. Len(j) = Len(s)  BY <3>2, <3>3, <3>6
    <3>8. ASSUME NEW i \in 1..Len(s) PROVE s[i] = j[i]
      <4>1. CASE i = 1  BY <3>1, <3>6, <4>1
      <4>2. CASE i # 1
        <5> DEFINE l == i - 1
        <5>1. l \in 1..Len(t) /\ i = 1 + l /\ i = l + 1  BY <3>2, <3>3, <4>2
        <5> HIDE DEF l
        <5> QED BY <3>2, <3>6, <5>1
      <4> QED BY <4>1, <4>2
    <3>9. s = j  BY <3>1, <3>6, <3>7, <3>8, SeqEqual
    <3> QED BY <3>9 DEF s, j, a
  <2> QED BY <2>1, <2>2
<1>3. r.mOutputBufferRemains <= Len(r.window)
  BY DEF Decompressing
<1>4. Seen(r, g) = g
  <2>1. Seen(r, g) = g \o none  BY <1>3, SeenIs
  <2>2. g \o none = g  BY <1>1, ConcatEmptySeq
  <2> QED BY <2>1, <2>2
<1>5. k \in Nat /\ Len(d) \in Nat
  BY ONLY <1>1, EmptyOrNot
<1>6. Begins(g, d)
  BY <1>4 DEF Decompressing
<1>7. PICK y \in Decoder : /\ whole => y = Between(Len(d), FALSE)
                           /\ Decodes(x, r.mInput \o wi, y, d)
  BY <1>4 DEF Decompressing
<1> DEFINE u == t \o wi
<1> HIDE DEF e, t, x, d, k, none
<1>8. <<e>> \in Seq(Symbol) /\ u \in Seq(Symbol)
  BY <1>2, Joined
<1>9. r.mInput \o wi = <<e>> \o u
  <2> DEFINE a == <<e>>
  <2>1. a \in Seq(Symbol) /\ t \in Seq(Symbol) /\ wi \in Seq(Symbol)  BY <1>2
  <2> HIDE DEF a
  <2>2. (a \o t) \o wi = a \o (t \o wi)  BY ONLY <2>1, ConcatAssociative
  <2> QED BY <1>2, <2>2 DEF a
<1> HIDE DEF u
<1>10. PICK z \in Decoder : Decodes(x, <<e>>, z, d) /\ Decodes(z, u, y, d)
  <2>1. Decodes(x, <<e>> \o u, y, d)  BY <1>7, <1>9
  <2>2. \E z \in Decoder : Decodes(x, <<e>>, z, d) /\ Decodes(z, u, y, d)
    BY ONLY <1>8, <2>1, EachDecodes
  <2> QED BY <2>2
<1>11. Decoding(x, e, z, d)
  BY ONLY <1>2, <1>10, OneIs
<1>12. x.count = k /\ x.begun = r.begun /\ x.half = r.half
  BY DEF x
<1> HIDE DEF rest
<1>13. rest = [mInput |-> t, begun |-> r.begun, half |-> r.half, held |-> r.held,
               window |-> r.window, mOutputBufferRemains |-> r.mOutputBufferRemains,
               mFailed |-> r.mFailed]
  BY ONLY r \in CodecReader DEF CodecReader, rest
<1>14. /\ rest \in CodecReader /\ rest.mInput = t /\ rest.begun = r.begun /\ rest.half = r.half
  BY <1>2, <1>13 DEF CodecReader
\* What is left to show of each symbol.
<1>15. ASSUME NEW b \in Bytes, NEW s \in CodecReader, s.mInput = t, v = Codec!Gives(s, b),
              z = [count |-> k + Len(b), begun |-> s.begun, half |-> s.half],
              b # none => s.begun, Begins(g \o b, d)
       PROVE  v \in CodecReader /\ Decompressing(w, wi, v, g, whole)
  <2>1. /\ v \in CodecReader /\ v.mInput = t /\ v.begun = s.begun /\ v.half = s.half
        /\ v.mOutputBufferRemains <= Len(v.window) /\ Seen(v, g) = g \o b
        /\ b = none => v.held = none /\ v.mOutputBufferRemains = 0
    <3>1. LET q == Codec!Gives(s, b)
          IN  /\ q \in CodecReader /\ q.mInput = s.mInput /\ q.begun = s.begun /\ q.half = s.half
              /\ q.mOutputBufferRemains <= Len(q.window) /\ Seen(q, g) = g \o b
              /\ b = <<>> => q.held = <<>> /\ q.mOutputBufferRemains = 0
      BY GivesOK
    <3> HIDE DEF v
    <3> QED BY <1>15, <3>1 DEF none
  <2>2. Len(g \o b) = k + Len(b)
    <3>1. b \in Seq(Nat)  BY DEF Bytes
    <3> QED BY <1>1, <3>1, Joined DEF k
  <2> HIDE DEF v
  <2>3. [count |-> Len(Seen(v, g)), begun |-> v.begun, half |-> v.half] = z
    BY <1>15, <2>1, <2>2
  <2>4. v.mInput \o wi = u  BY <2>1 DEF u
  <2>5. Decodes([count |-> Len(Seen(v, g)), begun |-> v.begun, half |-> v.half],
                v.mInput \o wi, y, d)
    BY ONLY <1>10, <2>3, <2>4
  <2>6. ~ v.begun => v.held = none /\ v.mOutputBufferRemains = 0
    BY ONLY <1>15, <2>1
  <2>7. Begins(Seen(v, g), d)  BY ONLY <1>15, <2>1
  <2> QED BY ONLY <1>7, <2>1, <2>5, <2>6, <2>7 DEF Decompressing, d, none
<1>16. g \o none = g /\ Len(none) = 0 /\ k + 0 = k
  BY <1>1, <1>5, ConcatEmptySeq DEF none
<1>17. CASE e = Codec!FrameHead /\ ~ x.begun /\ x.half = none /\ z = Between(k, TRUE)
  <2> DEFINE s == [rest EXCEPT !.begun = TRUE]
  <2>0. e[1] = "head" /\ e # Codec!FrameEnd
    BY <1>17 DEF Codec!FrameEnd, Codec!FrameHead
  <2>1. v = Codec!Gives(s, none)
    BY <1>17, <2>0 DEF Codec!Decoded, e, none, rest, t
  <2>2. s = [mInput |-> t, begun |-> TRUE, half |-> r.half, held |-> r.held,
             window |-> r.window, mOutputBufferRemains |-> r.mOutputBufferRemains,
             mFailed |-> r.mFailed]
    <3> DEFINE b == TRUE
    <3>1. b \in BOOLEAN /\ s = [rest EXCEPT !.begun = b]  OBVIOUS
    <3> HIDE DEF b, s
    <3>2. s = [mInput |-> t, begun |-> b, half |-> r.half, held |-> r.held,
               window |-> r.window, mOutputBufferRemains |-> r.mOutputBufferRemains,
               mFailed |-> r.mFailed]
      BY ONLY <1>13, <3>1
    <3> QED BY <3>2 DEF b
  <2> HIDE DEF s, v
  <2>3. s \in CodecReader /\ s.mInput = t /\ s.begun = TRUE /\ s.half = r.half
    BY <1>2, <2>2 DEF CodecReader
  <2>4. z = [count |-> k + Len(none), begun |-> s.begun, half |-> s.half]
    BY <1>12, <1>16, <1>17, <2>3 DEF Between, none
  <2>5. v \in CodecReader /\ Decompressing(w, wi, v, g, whole)
    BY ONLY <1>1, <1>6, <1>15, <1>16, <2>1, <2>3, <2>4
  <2>6. Codec!Decodable(r)  BY <1>12, <1>17 DEF Codec!Decodable, e
  <2> QED BY <2>5, <2>6 DEF v
<1>18. CASE e = Codec!FrameEnd /\ x.begun /\ x.half = none /\ z = Between(k, FALSE)
  <2> DEFINE s == [rest EXCEPT !.begun = FALSE]
  <2>1. e[1] = "end" /\ e # Codec!FrameHead
    BY <1>18 DEF Codec!FrameEnd, Codec!FrameHead
  <2>2. v = Codec!Gives(s, none)
    BY <1>18, <2>1 DEF Codec!Decoded, e, none, rest, t
  <2>3. s = [mInput |-> t, begun |-> FALSE, half |-> r.half, held |-> r.held,
             window |-> r.window, mOutputBufferRemains |-> r.mOutputBufferRemains,
             mFailed |-> r.mFailed]
    <3> DEFINE b == FALSE
    <3>1. b \in BOOLEAN /\ s = [rest EXCEPT !.begun = b]  OBVIOUS
    <3> HIDE DEF b, s
    <3>2. s = [mInput |-> t, begun |-> b, half |-> r.half, held |-> r.held,
               window |-> r.window, mOutputBufferRemains |-> r.mOutputBufferRemains,
               mFailed |-> r.mFailed]
      BY ONLY <1>13, <3>1
    <3> QED BY <3>2 DEF b
  <2> HIDE DEF s, v
  <2>4. s \in CodecReader /\ s.mInput = t /\ s.begun = FALSE /\ s.half = r.half
    BY <1>2, <2>3 DEF CodecReader
  <2>5. z = [count |-> k + Len(none), begun |-> s.begun, half |-> s.half]
    BY <1>12, <1>16, <1>18, <2>4 DEF Between, none
  <2>6. v \in CodecReader /\ Decompressing(w, wi, v, g, whole)
    BY ONLY <1>1, <1>6, <1>15, <1>16, <2>2, <2>4, <2>5
  <2>7. Codec!Decodable(r)  BY <1>12, <1>18, <2>1 DEF Codec!Decodable, e, none
  <2> QED BY <2>6, <2>7 DEF v
<1>19. ASSUME NEW b \in Bytes, b # none, x.begun, e = <<"half", b>>, x.half = none,
              z = [count |-> k, begun |-> TRUE, half |-> b]
       PROVE  /\ Codec!Decodable(r) /\ v \in CodecReader /\ Decompressing(w, wi, v, g, whole)
  <2> DEFINE s == [rest EXCEPT !.half = b]
  <2>1. e[1] = "half" /\ e[2] = b /\ e # Codec!FrameHead /\ e # Codec!FrameEnd
    BY <1>19 DEF Codec!FrameEnd, Codec!FrameHead
  <2>2. v = Codec!Gives(s, none)  BY <2>1 DEF Codec!Decoded, e, none, rest, t
  <2>3. s = [mInput |-> t, begun |-> r.begun, half |-> b, held |-> r.held,
             window |-> r.window, mOutputBufferRemains |-> r.mOutputBufferRemains,
             mFailed |-> r.mFailed]
    BY <1>13
  <2> HIDE DEF s, v
  <2>4. s \in CodecReader /\ s.mInput = t /\ s.begun = r.begun /\ s.half = b
    BY <1>2, <2>3 DEF CodecReader
  <2>5. r.begun = TRUE  BY <1>1, <1>12, <1>19
  <2>6. z = [count |-> k + Len(none), begun |-> s.begun, half |-> s.half]
    BY <1>16, <1>19, <2>4, <2>5
  <2>7. v \in CodecReader /\ Decompressing(w, wi, v, g, whole)
    BY ONLY <1>1, <1>6, <1>15, <1>16, <2>2, <2>4, <2>6
  <2>8. Codec!Decodable(r)
    BY <1>12, <1>19, <2>1, <2>5 DEF Codec!Decodable, e, none
  <2> QED BY <2>7, <2>8 DEF v
<1>20. ASSUME NEW b \in Bytes, b # none, x.begun, e = <<"block", b>>, x.half = b,
              LiesAt(b, d, k), z = Between(k + Len(b), TRUE)
       PROVE  /\ Codec!Decodable(r) /\ v \in CodecReader /\ Decompressing(w, wi, v, g, whole)
  <2> DEFINE s == [rest EXCEPT !.half = none]
  <2>1. e[1] = "block" /\ e[2] = b /\ e # Codec!FrameHead /\ e # Codec!FrameEnd
    BY <1>20 DEF Codec!FrameEnd, Codec!FrameHead
  <2>2. v = Codec!Gives(s, b)  BY <2>1 DEF Codec!Decoded, e, none, rest, t
  <2>3. s = [mInput |-> t, begun |-> r.begun, half |-> none, held |-> r.held,
             window |-> r.window, mOutputBufferRemains |-> r.mOutputBufferRemains,
             mFailed |-> r.mFailed]
    BY <1>13
  <2> HIDE DEF s, v
  <2>4. s \in CodecReader /\ s.mInput = t /\ s.begun = r.begun /\ s.half = none
    BY <1>1, <1>2, <2>3 DEF CodecReader
  <2>5. r.begun = TRUE  BY <1>1, <1>12, <1>20
  <2>6. z = [count |-> k + Len(b), begun |-> s.begun, half |-> s.half]
    BY <1>20, <2>4, <2>5 DEF Between, none
  <2>7. Begins(g \o b, d)
    <3>1. b \in Seq(Nat)  BY DEF Bytes
    <3> DEFINE j == g \o b
    <3>2. /\ Len(j) = Len(g) + Len(b) /\ \A i \in 1..Len(g) : j[i] = g[i]
          /\ \A i \in 1..Len(b) : j[Len(g) + i] = b[i]
      BY <1>1, <3>1, Joined
    <3>3. Len(b) \in Nat  BY <3>1, EmptyOrNot
    <3>4. /\ k <= Len(d) /\ \A i \in 1..k : g[i] = d[i]
          /\ k + Len(b) <= Len(d) /\ \A i \in 1..Len(b) : b[i] = d[k + i]
      BY <1>6, <1>20 DEF Begins, LiesAt, k
    <3> HIDE DEF j
    <3>5. ASSUME NEW i \in 1..Len(j) PROVE j[i] = d[i]
      <4>1. CASE i <= k  BY <1>5, <3>2, <3>3, <3>4, <4>1 DEF k
      <4>2. CASE ~ (i <= k)
        <5> DEFINE l == i - k
        <5>1. l \in 1..Len(b) /\ i = k + l  BY <1>5, <3>2, <3>3, <4>2 DEF k
        <5> HIDE DEF l
        <5> QED BY <3>2, <3>4, <5>1 DEF k
      <4> QED BY <4>1, <4>2
    <3> QED BY <1>5, <3>2, <3>3, <3>4, <3>5 DEF Begins, j, k
  <2>8. v \in CodecReader /\ Decompressing(w, wi, v, g, whole)
    BY ONLY <1>15, <2>2, <2>4, <2>5, <2>6, <2>7, b \in Bytes
  <2>9. Codec!Decodable(r)  BY <1>12, <1>20, <2>1, <2>5 DEF Codec!Decodable, e
  <2> QED BY <2>8, <2>9 DEF v
<1> QED
  <2> HIDE DEF v
  <2>1. Codec!Decodable(r) /\ v \in CodecReader /\ Decompressing(w, wi, v, g, whole)
    BY <1>11, <1>12, <1>17, <1>18, <1>19, <1>20 DEF Decoding, none, v
  <2> QED BY <2>1 DEF v

\* A decompressor that is called gives what it holds, or takes a symbol.
LEMMA DecompressOK ==
  ASSUME writer \in CodecWriter, got \in Bytes, NEW r \in CodecReader, NEW wi \in Seq(Symbol),
         NEW whole, Decompressing(writer, wi, r, got, whole), r.mOutputBufferRemains = 0,
         r.mInput # <<>>, Codec!Decompress(r)
  PROVE  /\ reader' \in CodecReader /\ got' \in Bytes /\ result' \in {result, "data"}
         /\ Decompressing(writer, wi, reader', got', whole)
<1> DEFINE v == IF r.held # <<>> THEN Codec!Gives(r, r.held) ELSE Codec!Decoded(r)
<1>1. /\ v \in CodecReader /\ Decompressing(writer, wi, v, got, whole)
      /\ r.held = <<>> => Codec!Decodable(r)
  <2>1. CASE r.held = <<>>
    <3>1. /\ Codec!Decodable(r) /\ Codec!Decoded(r) \in CodecReader
          /\ Decompressing(writer, wi, Codec!Decoded(r), got, whole)
      BY <2>1, DecodedOK
    <3> QED BY <2>1, <3>1
  <2>2. CASE r.held # <<>>
    <3> DEFINE h == r.held
               q == Codec!Gives(r, h)
    <3>1. h \in Bytes /\ r.mOutputBufferRemains <= Len(r.window)
      BY DEF CodecReader, Decompressing
    <3>2. Seen(r, got) = got \o h  BY <3>1, SeenIs
    <3>3. /\ q \in CodecReader /\ q.mInput = r.mInput /\ q.begun = r.begun /\ q.half = r.half
          /\ q.mOutputBufferRemains <= Len(q.window) /\ Seen(q, got) = got \o h
      BY <3>1, GivesOK
    <3>4. r.begun  BY <2>2 DEF Decompressing
    <3> HIDE DEF q
    <3>5. Decompressing(writer, wi, q, got, whole)
      BY <3>2, <3>3, <3>4 DEF Decompressing
    <3> QED BY <2>2, <3>3, <3>5 DEF q
  <2> QED BY <2>1, <2>2
<1>2. ~ (r.held = <<>> /\ ~ Codec!Decodable(r))
  BY <1>1
<1>3. IF v.mOutputBufferRemains > 0 THEN Codec!Lend(v)
      ELSE reader' = v /\ UNCHANGED <<got, result>>
  BY <1>2 DEF Codec!Decompress
<1> HIDE DEF v
<1>4. CASE v.mOutputBufferRemains > 0
  <2>1. Codec!Lend(v)  BY <1>3, <1>4
  <2>2. /\ reader' \in CodecReader /\ got' \in Bytes /\ result' = "data"
        /\ Decompressing(writer, wi, reader', got', whole)
    BY <1>1, <2>1, LendOK
  <2> QED BY <2>2
<1>5. CASE ~ (v.mOutputBufferRemains > 0)
  BY <1>1, <1>3, <1>5
<1> QED BY <1>4, <1>5

\* At the end of what came, no more than what the decompressor has.
LEMMA InputEndsOK ==
  ASSUME writer \in CodecWriter, reader \in CodecReader, got \in Bytes, damaged \in BOOLEAN,
         Decompressing(writer, <<>>, reader, got, ~ damaged), reader.mOutputBufferRemains = 0,
         reader.mInput = <<>>, Codec!InputEnds
  PROVE  /\ reader' \in CodecReader /\ got' \in Bytes /\ result' \in {"data", "end"}
         /\ Decompressing(writer, <<>>, reader', got', ~ damaged)
         /\ result' = "end" /\ ~ damaged => Len(got') = Len(writer.written)
<1> DEFINE none == <<>>
           h == reader.held
           v == Codec!Gives(reader, h)
           d == writer.written
           x == [count |-> Len(Seen(reader, got)), begun |-> reader.begun, half |-> reader.half]
<1>1. h \in Bytes /\ reader.mOutputBufferRemains <= Len(reader.window)
  BY DEF CodecReader, Decompressing
<1>2. Seen(reader, got) = got \o h /\ Len(Seen(reader, got)) = Len(got) + 0 + Len(h)
  BY <1>1, SeenIs
<1>3. CASE Codec!Ended
  <2>1. reader' = [reader EXCEPT !.mFailed = TRUE] /\ result' = "end" /\ got' = got
    BY <1>3 DEF Codec!Ended
  <2>2. /\ reader' \in CodecReader /\ reader'.mInput = reader.mInput
        /\ reader'.begun = reader.begun /\ reader'.half = reader.half
        /\ reader'.held = reader.held /\ reader'.window = reader.window
        /\ reader'.mOutputBufferRemains = reader.mOutputBufferRemains
    BY <2>1 DEF CodecReader
  <2>3. Seen(reader', got') = Seen(reader, got)  BY <2>1, <2>2 DEF Seen, Unlent
  <2>4. Decompressing(writer, <<>>, reader', got', ~ damaged)
    BY <2>2, <2>3 DEF Decompressing
  <2>5. ASSUME ~ damaged PROVE Len(got) = Len(d)
    <3>1. Decodes(x, reader.mInput \o none, Between(Len(d), FALSE), d)
      BY <2>5 DEF Decompressing
    <3>2. none \o none = none  OBVIOUS
    <3>3. x \in Decoder
      <4>1. Seen(reader, got) \in Bytes  BY <1>1, SeenIs
      <4>2. Len(Seen(reader, got)) \in Nat  BY <4>1, EmptyOrNot DEF Bytes
      <4> QED BY <4>2 DEF CodecReader, Decoder
    <3>4. Decodes(x, none, Between(Len(d), FALSE), d)  BY <3>1, <3>2
    <3> HIDE DEF x, d
    <3>5. Between(Len(d), FALSE) = x  BY <3>3, <3>4, NoneDecodes
    <3>6. reader.begun = FALSE /\ Len(d) = Len(Seen(reader, got))
      BY <3>5 DEF Between, x
    <3>7. h = none  BY <3>6 DEF Decompressing
    <3>8. Len(h) = 0 /\ Len(got) \in Nat  BY <1>1, <3>7, EmptyOrNot DEF Bytes
    <3> QED BY <1>2, <3>6, <3>8
  <2> QED BY <2>1, <2>2, <2>4, <2>5
<1>4. CASE Codec!Lend(v)
  <2>1. /\ v \in CodecReader /\ v.mInput = reader.mInput /\ v.begun = reader.begun
        /\ v.half = reader.half /\ v.mOutputBufferRemains <= Len(v.window)
        /\ Seen(v, got) = got \o h
        /\ h = none => v.held = none /\ v.mOutputBufferRemains = 0
    BY <1>1, GivesOK
  <2> HIDE DEF v
  <2>2. ~ reader.begun => h = none  BY DEF Decompressing
  <2>3. Decompressing(writer, none, v, got, ~ damaged)
    <3>1. ~ v.begun => v.held = none /\ v.mOutputBufferRemains = 0  BY <2>1, <2>2
    <3> HIDE DEF h
    <3> QED BY <1>2, <2>1, <3>1 DEF Decompressing
  <2>4. /\ reader' \in CodecReader /\ got' \in Bytes /\ result' = "data"
        /\ Decompressing(writer, none, reader', got', ~ damaged)
    BY <1>4, <2>1, <2>3, LendOK
  <2> QED BY <2>4
<1>5. Codec!Ended \/ Codec!Lend(v)
  BY DEF Codec!InputEnds
<1> QED BY <1>3, <1>4, <1>5

LEMMA NextInOK ==
  ASSUME CodecInv, phase = "reading", Codec!NextIn
  PROVE  CodecInv'
<1> DEFINE none == <<>>
           whole == ~ damaged
<1>1. /\ result = "reading" /\ UNCHANGED <<writer, phase, damaged>>
      /\ IF reader.mOutputBufferRemains > 0 THEN Codec!Lend(reader) /\ UNCHANGED wire
         ELSE IF reader.mInput # none THEN Codec!Decompress(reader) /\ UNCHANGED wire
         ELSE IF wire = none THEN Codec!InputEnds /\ UNCHANGED wire
         ELSE \E n \in 1..Len(wire) :
                /\ wire' = Codec!After(wire, n)
                /\ Codec!Decompress([reader EXCEPT !.mInput = Codec!Upto(wire, n)])
  BY DEF Codec!NextIn
<1>2. /\ CodecTypeOK /\ writer \in CodecWriter /\ wire \in Seq(Symbol) /\ reader \in CodecReader
      /\ got \in Bytes /\ damaged \in BOOLEAN /\ Decompressing(writer, wire, reader, got, whole)
  BY DEF CodecInv, CodecTypeOK
<1>3. reader.mOutputBufferRemains \in Nat
  BY <1>2 DEF CodecReader
<1> HIDE DEF whole
<1>4. /\ reader' \in CodecReader /\ got' \in Bytes /\ wire' \in Seq(Symbol)
      /\ result' \in {"reading", "data", "end"}
      /\ Decompressing(writer, wire', reader', got', whole)
      /\ result' = "end" /\ whole => Len(got') = Len(writer.written)
  <2>1. CASE reader.mOutputBufferRemains > 0
    <3>1. Codec!Lend(reader) /\ wire' = wire  BY <1>1, <2>1
    <3>2. /\ reader' \in CodecReader /\ got' \in Bytes /\ result' = "data"
          /\ Decompressing(writer, wire, reader', got', whole)
      BY <1>2, <3>1, LendOK
    <3> QED BY <1>2, <3>1, <3>2
  <2>2. CASE ~ (reader.mOutputBufferRemains > 0) /\ reader.mInput # none
    <3>1. Codec!Decompress(reader) /\ wire' = wire /\ reader.mOutputBufferRemains = 0
      BY <1>1, <1>3, <2>2
    <3>2. /\ reader' \in CodecReader /\ got' \in Bytes /\ result' \in {result, "data"}
          /\ Decompressing(writer, wire, reader', got', whole)
      BY <1>2, <2>2, <3>1, DecompressOK
    <3> QED BY <1>1, <1>2, <3>1, <3>2
  <2>3. CASE ~ (reader.mOutputBufferRemains > 0) /\ reader.mInput = none /\ wire = none
    <3>1. Codec!InputEnds /\ wire' = wire /\ reader.mOutputBufferRemains = 0
      BY <1>1, <1>3, <2>3
    <3>2. Decompressing(writer, none, reader, got, ~ damaged)
      BY <1>2, <2>3 DEF whole
    <3>3. /\ reader' \in CodecReader /\ got' \in Bytes /\ result' \in {"data", "end"}
          /\ Decompressing(writer, none, reader', got', ~ damaged)
          /\ result' = "end" /\ ~ damaged => Len(got') = Len(writer.written)
      BY <1>2, <2>3, <3>1, <3>2, InputEndsOK
    <3> QED BY <1>2, <2>3, <3>1, <3>3 DEF whole
  <2>4. CASE ~ (reader.mOutputBufferRemains > 0) /\ reader.mInput = none /\ wire # none
    <3>1. PICK n \in 1..Len(wire) :
            /\ wire' = Codec!After(wire, n)
            /\ Codec!Decompress([reader EXCEPT !.mInput = Codec!Upto(wire, n)])
      BY <1>1, <2>4
    <3> DEFINE u == Codec!Upto(wire, n)
               r == [reader EXCEPT !.mInput = u]
    <3>2. n \in Nat /\ n # 0 /\ n <= Len(wire) /\ Len(wire) \in Nat
      <4>1. Len(wire) \in Nat  BY <1>2, EmptyOrNot
      <4> QED BY <4>1
    <3>3. /\ u \in Seq(Symbol) /\ wire' \in Seq(Symbol) /\ u \o wire' = wire /\ Len(u) = n
      <4>1. /\ Codec!Upto(wire, n) \in Seq(Symbol) /\ Codec!After(wire, n) \in Seq(Symbol)
            /\ Codec!Upto(wire, n) \o Codec!After(wire, n) = wire
            /\ Len(Codec!Upto(wire, n)) = (IF n <= Len(wire) THEN n ELSE Len(wire))
        BY ONLY <1>2, <3>2, Parted
      <4> QED BY <3>1, <3>2, <4>1
    <3> HIDE DEF u
    <3>4. u # none  BY <3>2, <3>3, EmptyOrNot
    <3>5. r = [mInput |-> u, begun |-> reader.begun, half |-> reader.half, held |-> reader.held,
               window |-> reader.window,
               mOutputBufferRemains |-> reader.mOutputBufferRemains,
               mFailed |-> reader.mFailed]
      BY <1>2 DEF CodecReader
    <3>6. Codec!Decompress(r)  BY <3>1 DEF u
    <3> HIDE DEF r
    <3>7. /\ r \in CodecReader /\ r.mInput = u /\ r.begun = reader.begun /\ r.half = reader.half
          /\ r.held = reader.held /\ r.window = reader.window
          /\ r.mOutputBufferRemains = reader.mOutputBufferRemains
      BY <1>2, <3>3, <3>5 DEF CodecReader
    <3>8. Seen(r, got) = Seen(reader, got)  BY <3>7 DEF Seen, Unlent
    <3>9. r.mInput \o wire' = reader.mInput \o wire
      <4>1. none \o wire = wire  BY <1>2, ConcatEmptySeq
      <4> QED BY <2>4, <3>3, <3>7, <4>1
    <3>10. Decompressing(writer, wire', r, got, whole)
      BY <1>2, <3>7, <3>8, <3>9 DEF Decompressing
    <3>11. r.mOutputBufferRemains = 0 /\ r.mInput # none
      BY <1>3, <2>4, <3>4, <3>7
    <3>12. /\ reader' \in CodecReader /\ got' \in Bytes /\ result' \in {result, "data"}
           /\ Decompressing(writer, wire', reader', got', whole)
      BY <1>2, <3>3, <3>6, <3>7, <3>10, <3>11, DecompressOK
    <3> QED BY <1>1, <3>3, <3>12
  <2> QED BY <2>1, <2>2, <2>3, <2>4
<1>5. CodecTypeOK'
  BY <1>1, <1>2, <1>4 DEF CodecTypeOK
<1>6. /\ Decompressing(writer, wire, reader, got, ~ damaged)'
      /\ (result = "end" /\ ~ damaged => Len(got) = Len(writer.written))'
      /\ result' # "exception"
  BY <1>1, <1>4 DEF whole
<1> QED BY <1>1, <1>5, <1>6 DEF CodecInv

LEMMA CodecInitOK ==
  ASSUME Codec!Init
  PROVE  CodecInv
<1> DEFINE none == <<>>
           head == <<Codec!FrameHead>>
<1>1. PICK codec \in {"lz4", "zstd"}, mBlockMode \in BOOLEAN :
        /\ codec = "lz4" => ~ mBlockMode
        /\ writer = [codec |-> codec, mBlockMode |-> mBlockMode, mFailed |-> FALSE,
                     lent |-> FALSE, started |-> FALSE, mInput |-> none, held |-> none,
                     begun |-> codec = "lz4",
                     sub |-> IF codec = "lz4" THEN head ELSE none,
                     written |-> none]
  BY DEF Codec!Init
<1> DEFINE b == codec = "lz4"
           sub == IF b THEN head ELSE none
<1>2. /\ wire = none /\ phase = "writing" /\ damaged = FALSE /\ got = none /\ result = "none"
      /\ reader = [mInput |-> none, begun |-> FALSE, half |-> none, held |-> none,
                   window |-> none, mOutputBufferRemains |-> 0, mFailed |-> FALSE]
  BY DEF Codec!Init
<1>3. /\ none \in Bytes /\ none \in Seq(Symbol) /\ none \o none = none /\ Len(none) = 0
  BY DEF Bytes
<1>4. /\ none \in Seq(Symbol) /\ head \in Seq(Symbol)
      /\ Decodes(Between(0, FALSE), head, Between(0, TRUE), none)
  <2>1. LET begin == IF FALSE THEN <<>> ELSE <<Codec!FrameHead>>
        IN  /\ begin \in Seq(Symbol) /\ <<Codec!FrameEnd>> \in Seq(Symbol)
            /\ Decodes(Between(0, FALSE), begin, Between(0, TRUE), none)
    BY FrameDecodes
  <2> HIDE DEF none
  <2> QED BY <1>3, <2>1
<1> HIDE DEF none, head
<1>5. NotOpened
  BY <1>2 DEF NotOpened, none
<1>6. Start \in Decoder
  BY <1>3 DEF Start, Between, Decoder, none
<1>7. sub \in Seq(Symbol) /\ Decodes(Start, sub, Between(0, b), none)
  <2>1. CASE b  BY <1>4, <2>1 DEF Start
  <2>2. CASE ~ b
    <3>1. Decodes(Start, none, Start, none)  BY <1>6, NoneDecodes DEF none
    <3> QED BY <1>3, <2>2, <3>1 DEF Start
  <2> QED BY <2>1, <2>2
<1>8. none \o sub = sub
  BY <1>7, ConcatEmptySeq DEF none
<1> HIDE DEF b, sub
<1>9. writer = [codec |-> codec, mBlockMode |-> mBlockMode, mFailed |-> FALSE,
                lent |-> FALSE, started |-> FALSE, mInput |-> none, held |-> none,
                begun |-> b, sub |-> sub, written |-> none]
  BY <1>1 DEF b, sub
<1>10. b \in BOOLEAN /\ (b => codec = "lz4") /\ (codec = "zstd" => ~ b)
  BY DEF b
<1>11. /\ writer \in CodecWriter /\ writer.codec = codec /\ writer.mBlockMode = mBlockMode
       /\ ~ writer.mFailed /\ ~ writer.lent /\ writer.mInput = none /\ writer.held = none
       /\ writer.begun = b /\ writer.sub = sub /\ writer.written = none
  BY <1>3, <1>7, <1>9, <1>10 DEF CodecWriter
<1>12. Compressing(writer)
  <2>1. mBlockMode => ~ b  BY <1>1, <1>10
  <2>2. codec = "lz4" => ~ mBlockMode  BY <1>1
  <2> QED BY ONLY <1>10, <1>11, <2>1, <2>2 DEF Compressing, Keeping, none
<1>13. EncodesPut(wire \o writer.sub, writer)
  <2>1. Codec!Pending(writer) = none  BY <1>3, <1>11 DEF Codec!Pending
  <2>2. IsRest(none, none, 0)  BY <1>3 DEF IsRest
  <2>3. Decodes(Start, wire \o writer.sub, Between(0, writer.begun), writer.written)
    BY <1>2, <1>7, <1>8, <1>11
  <2>4. 0 \in Nat /\ IsRest(Codec!Pending(writer), writer.written, 0)
    BY <1>11, <2>1, <2>2
  <2> QED BY ONLY <2>3, <2>4 DEF EncodesPut
<1>14. reader \in CodecReader
  BY <1>2, <1>3 DEF CodecReader
<1>15. CodecTypeOK
  BY <1>2, <1>3, <1>11, <1>14 DEF CodecTypeOK
<1> QED BY <1>2, <1>5, <1>11, <1>12, <1>13, <1>15 DEF CodecInv

LEMMA CodecNextOK ==
  ASSUME CodecInv, Codec!Next
  PROVE  CodecInv'
<1>1. ASSUME NEW n \in 0..InputSize, Codec!BackUpOut(n) PROVE CodecInv'
  BY <1>1, BackUpOutOK
<1>2. ASSUME Codec!NextIn PROVE CodecInv'
  <2>1. phase = "reading"
    <3>1. result = "reading"  BY <1>2 DEF Codec!NextIn
    <3>2. phase # "reading" => result = "none"  BY DEF CodecInv, NotOpened
    <3> QED BY <3>1, <3>2
  <2> QED BY <1>2, <2>1, NextInOK
<1> QED BY <1>1, <1>2, NextOutOK, CloseOutOK, CloseBelowOK, ArrivesOK, CodecReadOK DEF Codec!Next

\* What the compressing streams are about.
LEMMA CodecStays ==
  ASSUME CodecInv, UNCHANGED <<writer, wire, phase, damaged, reader, got, result>>
  PROVE  CodecInv'
<1>1. (CodecTypeOK' <=> CodecTypeOK) /\ (NotOpened' <=> NotOpened)
  BY DEF CodecTypeOK, NotOpened
<1> QED BY <1>1 DEF CodecInv

\* What the invariant says of what was returned.
LEMMA CodecSafe ==
  ASSUME CodecInv
  PROVE  Codec!ReadsOnlyWritten /\ Codec!WholeUnlessDamaged
<1> DEFINE d == writer.written
           none == <<>>
<1>1. got \in Seq(Nat) /\ d \in Seq(Nat) /\ reader \in CodecReader /\ got \in Bytes
  BY DEF CodecInv, CodecTypeOK, CodecWriter, Bytes
<1>2. Len(got) \in Nat /\ Len(d) \in Nat
  BY ONLY <1>1, EmptyOrNot
<1>3. /\ Begins(got, d) /\ result # "exception"
      /\ ~ damaged => (result = "end" => Len(got) = Len(d))
  <2>1. CASE phase = "reading"
    <3>1. /\ Decompressing(writer, wire, reader, got, ~ damaged) /\ result # "exception"
          /\ result = "end" /\ ~ damaged => Len(got) = Len(d)
      BY <2>1 DEF CodecInv
    <3>2. reader.mOutputBufferRemains <= Len(reader.window) /\ Begins(Seen(reader, got), d)
      BY <3>1 DEF Decompressing
    <3>3. Unlent(reader) \in Seq(Nat) /\ got \o Unlent(reader) \in Seq(Nat)
      BY <1>1, <3>2, SeenIs
    <3> DEFINE l == Unlent(reader)
               h == reader.held
    <3>4. l \in Seq(Nat) /\ got \o l \in Seq(Nat) /\ h \in Seq(Nat)
      BY <1>1, <3>3 DEF CodecReader, Bytes
    <3>5. Begins((got \o l) \o h, d)  BY <3>2 DEF Seen
    <3> HIDE DEF l, h, d
    <3>6. Begins(got \o l, d)  BY ONLY <1>2, <3>4, <3>5, EarlierBegins
    <3>7. Begins(got, d)  BY ONLY <1>1, <1>2, <3>4, <3>6, EarlierBegins
    <3> QED BY <3>1, <3>7
  <2>2. CASE phase # "reading"
    <3>1. got = none /\ result = "none" /\ Len(none) = 0
      BY <2>2 DEF CodecInv, NotOpened
    <3> HIDE DEF none, d
    <3>2. Begins(got, d)  BY <1>2, <3>1 DEF Begins
    <3> QED BY <3>1, <3>2
  <2> QED BY <2>1, <2>2
<1> HIDE DEF d
<1>4. Len(got) = Len(d) => got = d
  BY <1>1, <1>3, SeqEqual DEF Begins
<1>5. \E n \in 0..Len(d) : got = SubSeq(d, 1, n)
  BY <1>1, <1>3, BeginningIsPart
<1> QED BY <1>3, <1>4, <1>5 DEF d, Codec!ReadsOnlyWritten, Codec!WholeUnlessDamaged

-----------------------------------------------------------------------------
(* All transfers.                                                           *)

\* The invariant of the framing that the transfer has.
TransferInv ==
  /\ format \in {"arrow", "volume", "records", "codec"}
  /\ format = "arrow" => StreamInv
  /\ format = "volume" => VolumeInv
  /\ format = "records" => RecordsInv
  /\ format = "codec" => CodecInv

LEMMA TransferInductive ==
  Spec => []TransferInv
<1>1. Init => TransferInv
  <2>1. ASSUME format = "arrow", Arrow!Init PROVE TransferInv
    BY <2>1, StreamInitOK DEF TransferInv
  <2>2. ASSUME format = "volume", Volume!Init PROVE TransferInv
    BY <2>2, VolumeInitOK DEF TransferInv
  <2>3. ASSUME format = "records", Records!Init PROVE TransferInv
    BY <2>3, RecordsInitOK DEF TransferInv
  <2>4. ASSUME format = "codec", Codec!Init PROVE TransferInv
    BY <2>4, CodecInitOK DEF TransferInv
  <2> QED BY <2>1, <2>2, <2>3, <2>4 DEF Init
<1>2. TransferInv /\ [Next]_vars => TransferInv'
  <2> SUFFICES ASSUME TransferInv, [Next]_vars PROVE TransferInv'
    OBVIOUS
  <2>1. ASSUME UNCHANGED vars PROVE TransferInv'
    <3>1. format' = format  BY <2>1 DEF vars
    <3>2. UNCHANGED <<writer, wire, phase, damaged, reader, missing, batch, got, result>>
      BY <2>1 DEF vars
    <3>3. format = "arrow" => StreamInv'  BY <3>2, StreamStays DEF TransferInv
    <3>4. format = "volume" => VolumeInv'  BY <3>2, VolumeStays DEF TransferInv
    <3>5. format = "records" => RecordsInv'  BY <3>2, RecordsStay DEF TransferInv
    <3>6. format = "codec" => CodecInv'  BY <3>2, CodecStays DEF TransferInv
    <3> QED BY <3>1, <3>3, <3>4, <3>5, <3>6 DEF TransferInv
  <2>2. ASSUME format = "arrow", Arrow!Next, format' = format PROVE TransferInv'
    <3>1. StreamInv'  BY <2>2, StreamNextOK DEF TransferInv
    <3> QED BY <2>2, <3>1 DEF TransferInv
  <2>3. ASSUME format = "volume", Volume!Next, format' = format PROVE TransferInv'
    <3>1. VolumeInv'  BY <2>3, VolumeNextOK DEF TransferInv
    <3> QED BY <2>3, <3>1 DEF TransferInv
  <2>4. ASSUME format = "records", Records!Next, format' = format PROVE TransferInv'
    <3>1. RecordsInv'  BY <2>4, RecordsNextOK DEF TransferInv
    <3> QED BY <2>4, <3>1 DEF TransferInv
  <2>5. ASSUME format = "codec", Codec!Next, format' = format PROVE TransferInv'
    <3>1. CodecInv'  BY <2>5, CodecNextOK DEF TransferInv
    <3> QED BY <2>5, <3>1 DEF TransferInv
  <2> QED BY <2>1, <2>2, <2>3, <2>4, <2>5 DEF Next
<1> QED BY <1>1, <1>2, PTL DEF Spec

\* Whatever the connection does to what was sent, no reader of record batches,
\* of files, of records or of a compressed stream returns what was not written
\* there: it returns a beginning of it, in order and each once.
THEOREM OnlyWrittenIsRead == Spec => []ReadsOnlyWritten
<1>1. TransferInv => ReadsOnlyWritten
  BY StreamSafe, VolumeSafe, RecordsSafe, CodecSafe DEF TransferInv, ReadsOnlyWritten
<1> QED BY <1>1, TransferInductive, PTL

\* A transfer that arrives as its writer closed it is read without an error, and
\* a reader that returns its end has returned all of it: none of it stays in a
\* buffer, and no checksum, count or frame of the writer's is one that the reader
\* refuses.
THEOREM UndamagedIsWhole == Spec => []WholeUnlessDamaged
<1>1. TransferInv => WholeUnlessDamaged
  BY StreamSafe, VolumeSafe, RecordsSafe, CodecSafe DEF TransferInv, WholeUnlessDamaged
<1> QED BY <1>1, TransferInductive, PTL

\* A reader of a volume that takes the end of the answer for the end of the
\* file, as VolumeReader::Read does, misses whole chunks at most: what it
\* returned ends where a full chunk ends.
THEOREM OnlyChunksMissed == Spec => []MissesOnlyChunks
<1>1. TransferInv => MissesOnlyChunks
  BY VolumeSafe DEF TransferInv, MissesOnlyChunks
<1> QED BY <1>1, TransferInductive, PTL

\* A reader of records that returns the end has read every record that was
\* written, and an upload that Close returns from has sent every record: the
\* count and the checksum of checksums that end a stream are never met by less.
THEOREM EndsAreWhole == Spec => []EndMeansAll
<1>1. TransferInv => EndMeansAll
  BY RecordsSafe DEF TransferInv, EndMeansAll
<1> QED BY <1>1, TransferInductive, PTL
=============================================================================
