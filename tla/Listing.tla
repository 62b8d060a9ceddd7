------------------------------- MODULE Listing -------------------------------
(***************************************************************************)
(* A list of tables or partitions that the REST client reads page by page:   *)
(* MarkedIterator (marked_iterator.h) with the Refill of TableIterator       *)
(* (tables.cpp) or PartitionIterator (table.cpp).  Entries come and go at    *)
(* the service while the list is read.                                      *)
(*                                                                         *)
(* An entry is its place in the order of names, and a marker the place where *)
(* the next page starts.                                                    *)
(***************************************************************************)
EXTENDS Integers, Sequences, SequencesExt, FiniteSetsExt

CONSTANTS
  MaxItem,    \* the last name (a bound)
  PageSize,   \* maxitems of a request
  MaxFaults   \* requests that fail (a bound)

ListingAssumption == PageSize \in Nat \ {0} /\ {MaxItem, MaxFaults} \subseteq Nat

VARIABLES
  service,  \* the entries there are, those that were there all the time, and how many changed
  reader,   \* the iterator and what it returned
  faults    \* requests that failed, and changes

vars == <<service, reader, faults>>

\* No marker yet, and the empty one.
NoMarker == 0
EmptyMarker == -1

Faulty == faults < MaxFaults /\ faults' = faults + 1

\* Somebody creates or drops a table.
Changes(i) ==
  /\ Faulty
  /\ service' = [items |-> IF i \in service.items THEN service.items \ {i}
                           ELSE service.items \cup {i},
                 always |-> service.always \ {i}]
  /\ UNCHANGED reader

-----------------------------------------------------------------------------

Reading == reader.pc = "reading"

Returns(r) ==
  [r EXCEPT !.pc = "item", !.mReadIndex = @ + 1,
            !.got = Append(@, r.mBuffer[r.mReadIndex + 1])]

\* What is buffered is returned before a page is asked for.
CallNext ==
  /\ ~ Reading
  /\ reader' = IF reader.mReadIndex < Len(reader.mBuffer) THEN Returns(reader)
               ELSE [reader EXCEPT !.pc = "reading", !.mBuffer = <<>>, !.mReadIndex = 0]
  /\ UNCHANGED <<service, faults>>

\* The entries from a place up to another one, in order.
Page(first, last) ==
  LET entries == service.items \cap (first..last)
  IN  CHOOSE page \in [1..Cardinality(entries) -> entries] :
        \A i, j \in DOMAIN page : i < j => page[i] < page[j]

RefilledUnmarked(page, marker) ==
  IF page = <<>> THEN [reader EXCEPT !.mMarker = marker]
  ELSE Returns([reader EXCEPT !.mMarker = IF @ = NoMarker THEN marker ELSE @,
                              !.mBuffer = page])

\* A page may be empty although a marker follows it.
Refilled(page, marker) ==
  IF page = <<>> THEN [reader EXCEPT !.mMarker = marker]
  ELSE Returns([reader EXCEPT !.mMarker = marker, !.mBuffer = page])

\* Refill: the service answers with at most a page, and with a marker unless
\* this is the rest.
Refill ==
  /\ Reading
  /\ IF reader.mMarker = EmptyMarker
     THEN reader' = [reader EXCEPT !.pc = "end"] /\ UNCHANGED faults
     ELSE LET first == IF reader.mMarker = NoMarker THEN 1 ELSE reader.mMarker
          IN  \/ /\ Faulty
                 /\ reader' = [reader EXCEPT !.pc = "threw"]
              \/ /\ UNCHANGED faults
                 /\ \E last \in first..MaxItem :
                      /\ Len(Page(first, last)) <= PageSize
                      /\ \E marker \in {last + 1} \cup
                                       (IF last = MaxItem THEN {EmptyMarker} ELSE {}) :
                           reader' = Refilled(Page(first, last), marker)
              \/ /\ UNCHANGED faults
                 /\ first > MaxItem
                 /\ reader' = Refilled(<<>>, EmptyMarker)
  /\ UNCHANGED service

-----------------------------------------------------------------------------

Init ==
  /\ \E items \in SUBSET (1..MaxItem) : service = [items |-> items, always |-> items]
  /\ reader = [pc |-> "none", mBuffer |-> <<>>, mReadIndex |-> 0, mMarker |-> NoMarker,
               got |-> <<>>]
  /\ faults = 0

Next ==
  \/ \E i \in 1..MaxItem : Changes(i)
  \/ CallNext
  \/ Refill

Spec == Init /\ [][Next]_vars

-----------------------------------------------------------------------------
(* Properties.                                                              *)

\* The entries are returned in order and each once, also through exceptions
\* after which Next is called again, and at the end all of them that were there
\* all the time; an iterator that is at its end stays there.
ListsInOrder ==
  /\ \A i, j \in DOMAIN reader.got : i < j => reader.got[i] < reader.got[j]
  /\ reader.pc = "end" => service.always \subseteq ToSet(reader.got)
=============================================================================
