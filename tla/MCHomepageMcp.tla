---------------------------- MODULE MCHomepageMcp ----------------------------
(* Small instances of HomepageMcp for TLC. *)
EXTENDS HomepageMcp, TLC

Symmetry == Permutations(Ids) \cup Permutations(Calls)
=============================================================================
