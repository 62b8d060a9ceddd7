----------------------------- MODULE ExactlyOnce -----------------------------
(***************************************************************************)
(* What IEOSStream (include/odps_tunnel.h) promises the application: the    *)
(* batches of a client are stored once each, in the order of their offsets, *)
(* and what the application learns of them, from a Write that returned, a   *)
(* batch that is already written or a Tell, is stored.                      *)
(***************************************************************************)
EXTENDS Naturals, Sequences

VARIABLES
  stored,  \* the batches in the table, in the order they were stored
  acked    \* the offset that the application knows to be written

Init == stored = <<>> /\ acked = 0

Store ==
  /\ stored' = Append(stored, Len(stored) + 1)
  /\ UNCHANGED acked

\* Never back, and never ahead of the table.
Learn ==
  /\ acked' \in acked..Len(stored)
  /\ UNCHANGED stored

StoreAndLearn ==
  /\ stored' = Append(stored, Len(stored) + 1)
  /\ acked' = Len(stored')

Next == Store \/ Learn \/ StoreAndLearn

Spec == Init /\ [][Next]_<<stored, acked>>
=============================================================================
