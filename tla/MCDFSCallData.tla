--------------------------- MODULE MCDFSCallData ---------------------------
(***************************************************************************)
(* Instances of DFSCallData for TLC.                                       *)
(***************************************************************************)
EXTENDS DFSCallData, TLC

(* The allocator returns the same address for the same free ones, so it    *)
(* uses a deleted instance's again at once.                                *)
MCMalloc(S) == CHOOSE i \in S : TRUE

Symmetry == Permutations(Threads)
=============================================================================
