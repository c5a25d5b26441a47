---------------------------- MODULE LockService ----------------------------
(***************************************************************************)
(* What the server's write-lock table promises its clients, whatever the   *)
(* interleaving of its request threads: a lock passes from one client to   *)
(* another only through a state in which nobody holds it, only a free lock *)
(* can turn into the orphan entry that names no client, and a restart of   *)
(* the server frees every lock at once.                                    *)
(*                                                                         *)
(* It promises less than docs/part2.md does: a lock may be dropped at any  *)
(* moment, whoever holds it.  DFSServer is shown to implement this.        *)
(***************************************************************************)
CONSTANTS Clients,    \* the clients of the service
          Files,      \* the files that can be locked
          None,       \* "nobody holds the lock"
          NoClient    \* the owner of an orphan entry: no client's id

VARIABLE owner        \* owner[f]: who holds the lock of f

Init == owner = [f \in Files |-> None]

(* A client gets a lock that is free, or once more one it already holds.   *)
Grant(f, c) ==
    /\ owner[f] \in {None, c}
    /\ owner' = [owner EXCEPT ![f] = c]

(* The entry of a file disappears from the table.                          *)
Drop(f) == owner' = [owner EXCEPT ![f] = None]

(* A look-up leaves an entry that belongs to no client.                    *)
Orphan(f) ==
    /\ owner[f] = None
    /\ owner' = [owner EXCEPT ![f] = NoClient]

(* The server restarts with an empty table.                                *)
Restart == owner' = [f \in Files |-> None]

Next ==
    \/ \E f \in Files : \/ \E c \in Clients : Grant(f, c)
                        \/ Drop(f)
                        \/ Orphan(f)
    \/ Restart

Spec == Init /\ [][Next]_owner
=============================================================================
