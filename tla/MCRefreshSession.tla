--------------------------- MODULE MCRefreshSession --------------------------
(* RefreshSession on a small instance.  Sessions and institutions are      *)
(* interchangeable: a run id is a uuid, and no step compares two of them.  *)
EXTENDS RefreshSession, TLC

Symmetry == Permutations(Session) \cup Permutations(Institution)
=============================================================================
