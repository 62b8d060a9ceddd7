--------------------------- MODULE MCStreamUpload ---------------------------
(* StreamUpload on small sets of threads and addresses, for TLC.           *)
EXTENDS StreamUpload, TLC

CONSTANTS t1, t2, a1, a2, a3

MCThread == {t1, t2}
MCAddr == {a1, a2, a3}
MCTwoAddr == {a1, a2}

\* Threads are interchangeable, and so are addresses: only their equality is
\* ever tested.
MCSymmetry == Permutations(MCThread) \cup Permutations(MCAddr)
=============================================================================
