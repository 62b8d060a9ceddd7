------------------------------ MODULE Framing ------------------------------
(***************************************************************************)
(* What framed transfers are made of, for ArrowStream: single data bytes,   *)
(* and the four-byte words of sizes and checksums, which a transfer may cut *)
(* or damage in their middle.  A byte is <<kind, value, place in the word>>. *)
(* A checksum is what it is computed of: different data have different      *)
(* checksums.                                                               *)
(***************************************************************************)
EXTENDS Naturals, Sequences

CONSTANT WordSize  \* bytes of a size or a checksum (four in the code)

WordAssumption == WordSize \in Nat \ {0}

Datum(v) == <<"data", v, 1>>

SizeWord(n) == [i \in 1..WordSize |-> <<"size", n, i>>]

\* The CRC-32C of no data is 0.
Checksum(data) ==
  IF data = <<>> THEN SizeWord(0) ELSE [i \in 1..WordSize |-> <<"crc", data, i>>]

Garbage == <<"garbage", 0, 1>>

\* What may arrive of what was sent: all, a beginning, or all with one byte
\* changed.
Arrivals(sent) ==
  {SubSeq(sent, 1, n) : n \in 0..Len(sent)}
    \cup {[sent EXCEPT ![i] = Garbage] : i \in DOMAIN sent}

Upto(s, n) == SubSeq(s, 1, n)
After(s, n) == SubSeq(s, n + 1, Len(s))
=============================================================================
