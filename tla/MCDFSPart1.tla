----------------------------- MODULE MCDFSPart1 -----------------------------
(***************************************************************************)
(* Instances of DFSPart1 for TLC.                                          *)
(***************************************************************************)
EXTENDS DFSPart1, TLC

CONSTANTS f1, f2

(* The server's files take one message, the clients' two.                  *)
MCChunks == [v \in Versions |-> IF v = Server THEN 1 ELSE 2]

Symmetry == Permutations(Calls) \cup Permutations(Mounts)

(* Of two calls one changes the directory; two that only read have nothing *)
(* to do with each other.                                                  *)
OneChanges ==
    (\A k \in Calls : req[k] # None) => \E k \in Calls : req[k].op \in {"store", "delete"}

(* The first file is the one that is transferred. The second is there only *)
(* for a list to show, while either is stored or deleted, on a server that *)
(* stays up.                                                               *)
OneFileMoves ==
    LET Given == {k \in Calls : req[k] # None}
        OfSecond == {k \in Given : req[k].file = f2}
    IN
    /\ \A m \in Mounts : local[m][f2] = None
    /\ \A k \in OfSecond : req[k].op = "delete"
    /\ dir[f2] # None \/ OfSecond # {} =>
          /\ crashes = 0
          /\ Given # {} => \E k \in Given : req[k].op = "list"
=============================================================================
