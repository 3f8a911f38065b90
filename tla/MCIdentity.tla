------------------------------ MODULE MCIdentity ------------------------------
(***************************************************************************)
(* Identity for TLC.  Processes, records, names and addresses are told     *)
(* apart by nothing but what has been done with them.                      *)
(***************************************************************************)
EXTENDS Identity, TLC

Symmetry ==
    Permutations(Procs) \cup Permutations(Keys)
        \cup Permutations(Names) \cup Permutations(Addrs)
=============================================================================
