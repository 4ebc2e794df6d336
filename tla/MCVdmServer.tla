---------------------------- MODULE MCVdmServer ----------------------------
(***************************************************************************)
(* Instances of VdmServer for TLC.  The client processes are model values  *)
(* the server treats alike, so runs of safety properties identify states   *)
(* that differ by a permutation of them.                                   *)
(***************************************************************************)
EXTENDS VdmServer, TLC

Symmetry == Permutations(Pids)
=============================================================================
