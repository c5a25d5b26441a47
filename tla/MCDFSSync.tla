----------------------------- MODULE MCDFSSync -----------------------------
(***************************************************************************)
(* Instances of DFSSync for TLC: constants come from the .cfg files.       *)
(***************************************************************************)
EXTENDS DFSSync
=============================================================================
