----------------------------- MODULE MCSessions -----------------------------
(***************************************************************************)
(* Sessions with two parts.                                                 *)
(***************************************************************************)
EXTENDS Sessions

CONSTANTS n1, n2

MCName == {n1, n2}

\* No part, one, one named twice, and two.
MCList == {<<>>, <<n1>>, <<n1, n1>>, <<n1, n2>>}
=============================================================================
