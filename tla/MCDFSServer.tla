---------------------------- MODULE MCDFSServer ----------------------------
(***************************************************************************)
(* Instances of DFSServer for TLC.                                         *)
(***************************************************************************)
EXTENDS DFSServer, SequencesExt, TLC

(* Version v takes v chunks to send; version 0 is the empty file.          *)
MCChunks == [v \in Versions |-> v]

(* A checksum without collisions, 0 for no bytes: what a CRC would be at   *)
(* its best.  Versions are small numbers, a hole counts as 9.              *)
MCCrc(s) == FoldLeft(LAMBDA acc, x : 10 * acc + (IF x = Hole THEN 9 ELSE x + 1), 0, s)

Symmetry == Permutations(Calls)
SymmetryWithClients == Permutations(Calls) \cup Permutations(Clients)
=============================================================================
