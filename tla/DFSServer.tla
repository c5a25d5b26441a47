----------------------------- MODULE DFSServer -----------------------------
(***************************************************************************)
(* The synchronous half of the Part 2 server, part2/dfslib-servernode-p2:  *)
(* the RPC handlers store_file, fetch_file, stat_file, lock_file and       *)
(* delete_file, the write-lock table they share and the directory they     *)
(* serve.                                                                  *)
(*                                                                         *)
(* gRPC runs every call on a thread of its own pool, so a handler is cut   *)
(* into one action per access to shared state (the lock table, the         *)
(* directory, a file's bytes) or to the call's stream.  A call is one-shot *)
(* and keeps its record after it returned: the properties read the past    *)
(* from it.  A call record's fields are                                    *)
(*   pc         the next step of the handler                               *)
(*   cancelled  the client's deadline passed while the call was running    *)
(*   acquire    what acquire_file_lock returned to it, if it was called    *)
(*   fd         the file it has open, by inode                             *)
(*   got        store: the number of chunks taken from the stream          *)
(*   flushed    store: how many of them have left the ofstream's buffer    *)
(*   bad        store: the ofstream's failure flag                         *)
(*   seen       fetch: the chunks sent to the client so far                *)
(*   status     what the call returned                                     *)
(***************************************************************************)
EXTENDS Integers, Sequences

CONSTANTS Clients,    \* client ids
          Files,      \* file names, mount path included
          Calls,      \* identities of the calls that may be made
          Ops,        \* the RPCs the clients use
          Versions,   \* contents a client may store
          Chunks,     \* Chunks[v]: file_data messages needed to send v
          SmallTail,  \* versions whose last chunk the ofstream keeps buffered
          Crc(_),     \* dfs_file_checksum of a file's bytes
          Hole,       \* bytes of a file that nobody wrote
          None,       \* absent value
          NoClient,   \* the empty client id
          DiskFaults, \* may writes to the disk fail?
          MaxCrashes  \* bound on the number of server restarts

AllOps == {"store_file", "fetch_file", "stat_file", "lock_file", "delete_file"}

(* A call's request; version is what a store carries, None for the others. *)
Request == [op : Ops, client : Clients, file : Files, version : Versions \cup {None}]

ASSUME ServerAssumption ==
    /\ Ops \subseteq AllOps
    /\ Chunks \in [Versions -> Nat]
    /\ SmallTail \subseteq {v \in Versions : Chunks[v] > 0}
    /\ DiskFaults \in BOOLEAN
    /\ MaxCrashes \in Nat
    /\ None \notin Clients \cup Files \cup Calls \cup Versions \cup Request \cup {NoClient}
    /\ NoClient \notin Clients
    /\ Files \cap Calls = {}
    /\ Hole \notin Versions

VARIABLES lock_file_map,  \* the lock table: file -> owner
          dir,            \* the served directory: file -> inode
          data,           \* the bytes of every inode, chunk by chunk
          req,            \* req[k]: the request call k carries
          call,           \* call[k]: the state of its handler
          crashes         \* server restarts so far

vars == <<lock_file_map, dir, data, req, call, crashes>>

----------------------------------------------------------------------------
(* An inode is named by the file it belonged to at the start, or by the    *)
(* store that created it.                                                  *)
Inodes == Files \cup Calls

Contents == Seq(Versions \cup {Hole})

(* The bytes of a version: its chunks, which differ from any other's.      *)
Body(v) == [i \in 1 .. Chunks[v] |-> v]

Pcs == {"idle", "start", "header", "count", "owner", "acquire", "erase",
        "content", "open", "write", "stats", "release", "fetch_stats",
        "read_open", "read", "stat", "remove", "done", "dead"}

Statuses == {None, "OK", "TRANSFER_FAILURE", "DEADLINE_EXCEEDED",
             "RESOURCE_EXHAUSTED", "ALREADY_EXISTS", "NOT_FOUND"}

CallRecord == [pc : Pcs, cancelled : BOOLEAN, acquire : {"none", "won", "lost"},
               fd : Inodes \cup {None}, got : Nat, flushed : Nat, bad : BOOLEAN,
               seen : Contents, status : Statuses]

NewCall == [pc |-> "idle", cancelled |-> FALSE, acquire |-> "none", fd |-> None,
            got |-> 0, flushed |-> 0, bad |-> FALSE, seen |-> <<>>,
            status |-> None]

Busy(k) == call[k].pc \notin {"idle", "done", "dead"}

(* The bytes the disk shows under a name; an absent file checksums as an   *)
(* empty one does.                                                         *)
Stored(f) == IF dir[f] = None THEN <<>> ELSE data[dir[f]]

(* Writing chunk x at position i of bytes s: a gap below i reads as zeros. *)
WriteAt(s, i, x) ==
    [j \in 1 .. (IF i > Len(s) THEN i ELSE Len(s)) |->
        IF j = i THEN x ELSE IF j <= Len(s) THEN s[j] ELSE Hole]

At(k, pc) == call[k].pc = pc

(* Call k goes on at pc; it returns with a status.                         *)
GoTo(k, pc) == call' = [call EXCEPT ![k].pc = pc]
Return(k, s) == call' = [call EXCEPT ![k] = [@ EXCEPT !.pc = "done", !.status = s]]

Init ==
    /\ lock_file_map = [f \in Files |-> None]
    /\ \E present \in SUBSET Files :
          dir = [f \in Files |-> IF f \in present THEN f ELSE None]
    /\ \E v \in [Files -> Versions] :
          data = [n \in Inodes |-> IF n \in Files /\ dir[n] # None
                                  THEN Body(v[n]) ELSE <<>>]
    /\ req = [k \in Calls |-> None]
    /\ call = [k \in Calls |-> NewCall]
    /\ crashes = 0

----------------------------------------------------------------------------
(* The client and the gRPC runtime.                                        *)

(* A client makes its calls one at a time; it moves on when the call has   *)
(* returned or its deadline has passed, whatever the server still does.    *)
Arrive(k) ==
    /\ At(k, "idle")
    /\ \E r \in Request :
          /\ (r.op = "store_file") = (r.version # None)
          /\ \A j \in Calls : Busy(j) /\ req[j].client = r.client => call[j].cancelled
          /\ req' = [req EXCEPT ![k] = r]
    /\ GoTo(k, "start")
    /\ UNCHANGED <<lock_file_map, dir, data, crashes>>

(* The deadline the client set on the call's context passes.               *)
Cancel(k) ==
    /\ Busy(k) /\ ~call[k].cancelled
    /\ call' = [call EXCEPT ![k].cancelled = TRUE]
    /\ UNCHANGED <<lock_file_map, dir, data, req, crashes>>

(* The server process dies and is started again: the lock table and the    *)
(* running handlers are gone, the directory stays as it was written.       *)
Crash ==
    /\ crashes < MaxCrashes
    /\ crashes' = crashes + 1
    /\ lock_file_map' = [f \in Files |-> None]
    /\ call' = [k \in Calls |-> IF Busy(k) THEN [call[k] EXCEPT !.pc = "dead"]
                                           ELSE call[k]]
    /\ UNCHANGED <<dir, data, req>>

----------------------------------------------------------------------------
(* Entry of a handler.                                                     *)

Begin(k) ==
    /\ At(k, "start")
    /\ IF call[k].cancelled
       THEN Return(k, "DEADLINE_EXCEEDED")
       ELSE GoTo(k, CASE req[k].op = "store_file" -> "header"
                      [] req[k].op = "fetch_file" -> "fetch_stats"
                      [] OTHER -> "count")
    /\ UNCHANGED <<lock_file_map, dir, data, req, crashes>>

(* store_file reads the message with the file's name.  When the stream     *)
(* breaks first, the message stays empty: the handler then works on the    *)
(* mount directory itself, whose checksum equals the empty request's, and  *)
(* returns without a lasting effect.                                       *)
ReadHeader(k) ==
    /\ At(k, "header")
    /\ GoTo(k, "count")
    /\ UNCHANGED <<lock_file_map, dir, data, req, crashes>>

LostHeader(k) ==
    /\ At(k, "header")
    /\ call[k].cancelled
    /\ Return(k, "ALREADY_EXISTS")
    /\ UNCHANGED <<lock_file_map, dir, data, req, crashes>>

----------------------------------------------------------------------------
(* The lock table.                                                         *)

(* What a handler does once check_for_file_lock answered UNLOCKED.         *)
Unlocked(k) ==
    GoTo(k, CASE req[k].op \in {"store_file", "lock_file"} -> "acquire"
              [] req[k].op = "fetch_file" -> "read_open"
              [] req[k].op = "stat_file" -> "stat"
              [] req[k].op = "delete_file" -> "remove")

(* check_for_file_lock runs without lock_mutex: it counts the file's       *)
(* entries and, when there is one, looks the entry up in a second access.  *)
CheckCount(k) ==
    /\ At(k, "count")
    /\ IF lock_file_map[req[k].file] = None THEN Unlocked(k) ELSE GoTo(k, "owner")
    /\ UNCHANGED <<lock_file_map, dir, data, req, crashes>>

(* The look-up is operator[]: it inserts an entry with an empty owner when *)
(* the entry was erased in between.                                        *)
CheckOwner(k) ==
    LET f == req[k].file IN
    /\ At(k, "owner")
    /\ IF lock_file_map[f] = req[k].client
       THEN Unlocked(k)
       ELSE Return(k, "RESOURCE_EXHAUSTED")
    /\ lock_file_map' = IF lock_file_map[f] = None
                        THEN [lock_file_map EXCEPT ![f] = NoClient]
                        ELSE lock_file_map
    /\ UNCHANGED <<dir, data, req, crashes>>

Free(f, c) == lock_file_map[f] \in {None, c}

(* Where a handler goes on after it asked for the lock.                    *)
Granted(k) ==
    IF req[k].op = "store_file"
    THEN [call EXCEPT ![k] = [@ EXCEPT !.acquire = "won", !.pc = "content"]]
    ELSE [call EXCEPT ![k] = [@ EXCEPT !.acquire = "won", !.pc = "done", !.status = "OK"]]

(* Faulty variants of Acquire, to test the properties: without the second  *)
(* look; with the result ignored; with the two arguments exchanged.        *)
AcquireUnchecked(k) ==
    /\ At(k, "acquire")
    /\ lock_file_map' = [lock_file_map EXCEPT ![req[k].file] = req[k].client]
    /\ call' = Granted(k)
    /\ UNCHANGED <<dir, data, req, crashes>>

AcquireIgnored(k) ==
    LET f == req[k].file IN
    /\ At(k, "acquire")
    /\ lock_file_map' = IF Free(f, req[k].client)
                        THEN [lock_file_map EXCEPT ![f] = req[k].client]
                        ELSE lock_file_map
    /\ call' = Granted(k)
    /\ UNCHANGED <<dir, data, req, crashes>>

AcquireSwapped(k) ==
    LET f == req[k].file IN
    /\ At(k, "acquire")
    /\ Free(f, req[k].client)
    /\ lock_file_map' = [lock_file_map EXCEPT ![f] = f]
    /\ call' = Granted(k)
    /\ UNCHANGED <<dir, data, req, crashes>>

(* acquire_file_lock checks again, under lock_mutex.                       *)
Acquire(k) ==
    LET f == req[k].file IN
    /\ At(k, "acquire")
    /\ IF Free(f, req[k].client)
       THEN /\ lock_file_map' = [lock_file_map EXCEPT ![f] = req[k].client]
            /\ call' = Granted(k)
       ELSE /\ call' = [call EXCEPT ![k] = [@ EXCEPT !.acquire = "lost", !.pc = "erase"]]
            /\ UNCHANGED lock_file_map
    /\ UNCHANGED <<dir, data, req, crashes>>

(* A handler that lost the race erases the entry of whoever won it and     *)
(* goes on as if it had the lock.                                          *)
EraseWinner(k) ==
    /\ At(k, "erase")
    /\ lock_file_map' = [lock_file_map EXCEPT ![req[k].file] = None]
    /\ IF req[k].op = "store_file" THEN GoTo(k, "content") ELSE Return(k, "OK")
    /\ UNCHANGED <<dir, data, req, crashes>>

----------------------------------------------------------------------------
(* The rest of store_file.                                                 *)

(* On its way out, at pc "release", the handler returns this status.       *)
Leave(k, s) == call' = [call EXCEPT ![k] = [@ EXCEPT !.pc = "release", !.status = s]]

(* Faulty variant: the early return forgets the unlock.                    *)
CheckContentKeepsLock(k) ==
    /\ At(k, "content")
    /\ IF Crc(Stored(req[k].file)) = Crc(Body(req[k].version))
       THEN Return(k, "ALREADY_EXISTS")
       ELSE GoTo(k, "open")
    /\ UNCHANGED <<lock_file_map, dir, data, req, crashes>>

CheckContent(k) ==
    /\ At(k, "content")
    /\ IF Crc(Stored(req[k].file)) = Crc(Body(req[k].version))
       THEN Leave(k, "ALREADY_EXISTS")
       ELSE GoTo(k, "open")
    /\ UNCHANGED <<lock_file_map, dir, data, req, crashes>>

(* Faulty variant: the file is opened without truncating it.               *)
OpenWithoutTruncating(k) ==
    LET f == req[k].file
        n == IF dir[f] = None THEN k ELSE dir[f]
    IN
    /\ At(k, "open")
    /\ dir' = [dir EXCEPT ![f] = n]
    /\ call' = [call EXCEPT ![k] = [@ EXCEPT !.pc = "write", !.fd = n]]
    /\ UNCHANGED <<lock_file_map, data, req, crashes>>

(* The ofstream truncates the file in place, or creates it.                *)
OpenForWrite(k) ==
    LET f == req[k].file
        n == IF dir[f] = None THEN k ELSE dir[f]
    IN
    /\ At(k, "open")
    /\ dir' = [dir EXCEPT ![f] = n]
    /\ data' = [data EXCEPT ![n] = <<>>]
    /\ call' = [call EXCEPT ![k] = [@ EXCEPT !.pc = "write", !.fd = n]]
    /\ UNCHANGED <<lock_file_map, req, crashes>>

OpenFails(k) ==
    /\ DiskFaults
    /\ At(k, "open")
    /\ Leave(k, "NOT_FOUND")
    /\ UNCHANGED <<lock_file_map, dir, data, req, crashes>>

(* The last chunk of a file may be small enough to wait in the buffer.     *)
Buffered(v, i) == v \in SmallTail /\ i = Chunks[v]

(* Faulty variant: a write that failed does not keep the next ones from    *)
(* the file, nor the store from success.                                   *)
WriteChunkUnchecked(k) ==
    LET v == req[k].version
        i == call[k].got + 1
    IN
    /\ At(k, "write")
    /\ i <= Chunks[v]
    /\ IF Buffered(v, i)
       THEN /\ call' = [call EXCEPT ![k].got = i]
            /\ UNCHANGED data
       ELSE /\ call' = [call EXCEPT ![k] = [@ EXCEPT !.got = i, !.flushed = i]]
            /\ \/ data' = [data EXCEPT ![call[k].fd] = WriteAt(@, i, v)]
               \/ (DiskFaults /\ UNCHANGED data)
    /\ UNCHANGED <<lock_file_map, dir, req, crashes>>

(* A chunk comes off the stream and is written at this stream's own file   *)
(* position, unless it is small enough to wait in the ofstream's buffer or *)
(* an earlier write has failed.                                            *)
WriteChunk(k) ==
    LET v == req[k].version
        i == call[k].got + 1
    IN
    /\ At(k, "write")
    /\ i <= Chunks[v]
    /\ IF call[k].bad \/ Buffered(v, i)
       THEN /\ call' = [call EXCEPT ![k].got = i]
            /\ UNCHANGED data
       ELSE \/ /\ call' = [call EXCEPT ![k] = [@ EXCEPT !.got = i, !.flushed = i]]
               /\ data' = [data EXCEPT ![call[k].fd] = WriteAt(@, i, v)]
            \/ /\ DiskFaults
               /\ call' = [call EXCEPT ![k] = [@ EXCEPT !.got = i, !.bad = TRUE]]
               /\ UNCHANGED data
    /\ UNCHANGED <<lock_file_map, dir, req, crashes>>

(* Faulty variant: only the client's last message ends the loop.           *)
EndOfStreamOnlyWhole(k) ==
    /\ At(k, "write")
    /\ call[k].got = Chunks[req[k].version]
    /\ IF call[k].bad THEN Leave(k, "NOT_FOUND") ELSE GoTo(k, "stats")
    /\ UNCHANGED <<lock_file_map, dir, data, req, crashes>>

(* Read returns false when the client is done and when the call broke off: *)
(* the handler cannot tell.  It closes the file, which writes the rest of  *)
(* the buffer; whether that worked is not looked at.                       *)
EndOfStream(k) ==
    LET c == call[k]
        v == req[k].version
    IN
    /\ At(k, "write")
    /\ c.got = Chunks[v] \/ c.cancelled
    /\ IF c.bad THEN Leave(k, "NOT_FOUND") ELSE GoTo(k, "stats")
    /\ IF ~c.bad /\ c.flushed < c.got
       THEN \/ data' = [data EXCEPT ![c.fd] = WriteAt(@, c.got, v)]
            \/ (DiskFaults /\ UNCHANGED data)
       ELSE UNCHANGED data
    /\ UNCHANGED <<lock_file_map, dir, req, crashes>>

(* get_file_stats by name: its outcome replaces the transfer's.            *)
StatAfterWrite(k) ==
    /\ At(k, "stats")
    /\ Leave(k, IF dir[req[k].file] = None THEN "TRANSFER_FAILURE" ELSE "OK")
    /\ UNCHANGED <<lock_file_map, dir, data, req, crashes>>

(* unlock_file_lock erases the entry, whoever owns it.                     *)
Release(k) ==
    /\ At(k, "release")
    /\ lock_file_map' = [lock_file_map EXCEPT ![req[k].file] = None]
    /\ GoTo(k, "done")
    /\ UNCHANGED <<dir, data, req, crashes>>

----------------------------------------------------------------------------
(* fetch_file, stat_file and delete_file.                                  *)

(* fetch_file sends the file's stats and checksum before it looks at the   *)
(* lock.                                                                   *)
FetchStats(k) ==
    /\ At(k, "fetch_stats")
    /\ IF dir[req[k].file] = None THEN Return(k, "NOT_FOUND") ELSE GoTo(k, "count")
    /\ UNCHANGED <<lock_file_map, dir, data, req, crashes>>

OpenForRead(k) ==
    LET n == dir[req[k].file] IN
    /\ At(k, "read_open")
    /\ IF n = None THEN Return(k, "NOT_FOUND")
                   ELSE call' = [call EXCEPT ![k] = [@ EXCEPT !.pc = "read", !.fd = n]]
    /\ UNCHANGED <<lock_file_map, dir, data, req, crashes>>

ReadChunk(k) ==
    LET c == call[k]
        i == Len(c.seen) + 1
    IN
    /\ At(k, "read")
    /\ i <= Len(data[c.fd])
    /\ call' = [call EXCEPT ![k].seen = Append(@, data[c.fd][i])]
    /\ UNCHANGED <<lock_file_map, dir, data, req, crashes>>

ReadEnd(k) ==
    /\ At(k, "read")
    /\ Len(call[k].seen) >= Len(data[call[k].fd])
    /\ Return(k, "OK")
    /\ UNCHANGED <<lock_file_map, dir, data, req, crashes>>

StatFile(k) ==
    /\ At(k, "stat")
    /\ Return(k, IF dir[req[k].file] = None THEN "NOT_FOUND" ELSE "OK")
    /\ UNCHANGED <<lock_file_map, dir, data, req, crashes>>

RemoveFile(k) ==
    LET f == req[k].file IN
    /\ At(k, "remove")
    /\ Return(k, IF dir[f] = None THEN "NOT_FOUND" ELSE "OK")
    /\ dir' = [dir EXCEPT ![f] = None]
    /\ UNCHANGED <<lock_file_map, data, req, crashes>>

----------------------------------------------------------------------------
(* Steps that wait for the client's next message: it may never come.       *)
Attended(k) == ReadHeader(k) \/ WriteChunk(k)

(* Steps that wait for nothing but the scheduler.                          *)
Unattended(k) ==
    \/ Begin(k)        \/ LostHeader(k)
    \/ CheckCount(k)   \/ CheckOwner(k)   \/ Acquire(k)    \/ EraseWinner(k)
    \/ CheckContent(k) \/ OpenForWrite(k) \/ OpenFails(k)
    \/ EndOfStream(k)  \/ StatAfterWrite(k)
    \/ Release(k)
    \/ FetchStats(k)   \/ OpenForRead(k)  \/ ReadChunk(k)  \/ ReadEnd(k)
    \/ StatFile(k)     \/ RemoveFile(k)

(* A step of the thread that runs call k.                                  *)
Handler(k) == Attended(k) \/ Unattended(k)

Next ==
    \/ \E k \in Calls : Arrive(k) \/ Cancel(k) \/ Handler(k)
    \/ Crash

Spec == Init /\ [][Next]_vars

(* The scheduler runs every thread that can run, and every call has a      *)
(* deadline.                                                               *)
Fairness == \A k \in Calls : WF_vars(Unattended(k)) /\ WF_vars(Cancel(k))

FairSpec == Spec /\ Fairness

----------------------------------------------------------------------------
(* Properties.                                                             *)

(* Every variable has its type.                                            *)
TypeOK ==
    /\ lock_file_map \in [Files -> Clients \cup {None, NoClient}]
    /\ dir \in [Files -> Inodes \cup {None}]
    /\ data \in [Inodes -> Contents]
    /\ req \in [Calls -> Request \cup {None}]
    /\ call \in [Calls -> CallRecord]
    /\ crashes \in 0 .. MaxCrashes

On(k, f) == req[k] # None /\ req[k].file = f

(* Call k is between taking the lock and giving it back.                   *)
Storing(k) == call[k].pc \in {"content", "open", "write", "stats", "release"}

(* Nothing went wrong on file f so far: no call on it lost the race for    *)
(* the lock (and erased the winner's), and none outlived its deadline.     *)
Undisturbed(f) ==
    \A k \in Calls : On(k, f) => call[k].acquire # "lost" /\ ~call[k].cancelled

(* Every lock a client holds is held for a reason: a store of that client  *)
(* is still running, or a lock_file call of it was granted.  No return of  *)
(* store_file, and no other call, leaves a lock behind.                    *)
LockAccounted ==
    \A f \in Files : lock_file_map[f] \in Clients =>
        \E k \in Calls :
            /\ On(k, f)
            /\ req[k].client = lock_file_map[f]
            /\ call[k].acquire = "won"
            /\ Storing(k) \/ (req[k].op = "lock_file" /\ At(k, "done"))

(* While nothing has disturbed a file, whoever stores it holds its lock    *)
(* from the check of its content to the unlock, so that two clients never  *)
(* write it at once.  Only a lost race in acquire_file_lock, or a handler  *)
(* that outlived its deadline, can break this.                             *)
LockProtectsStore ==
    \A f \in Files : Undisturbed(f) =>
        \A k \in Calls : On(k, f) /\ Storing(k) => lock_file_map[f] = req[k].client

(* What a store of v may leave behind: all of it or, as nobody looks at    *)
(* the outcome of close(), all but a tail that was still in the buffer.    *)
StoredAs(v) ==
    {Body(v)} \cup {SubSeq(Body(v), 1, i - 1) : i \in {j \in 1 .. Chunks[v] :
                                                      DiskFaults /\ Buffered(v, j)}}

(* A store that is about to answer OK has written the version it carried,  *)
(* whole and unmixed, to the file now stored under its name (or removed    *)
(* from there): it does not take the fragment of a broken stream, what is  *)
(* left when a write failed, or bytes of another call, for the file.  All  *)
(* that may be missing is the tail close() could not write.                *)
AckedStoreIsWhole ==
    \A k \in Calls :
        At(k, "release") /\ call[k].status = "OK" /\ Undisturbed(req[k].file) =>
            /\ dir[req[k].file] \in {call[k].fd, None}
            /\ data[call[k].fd] \in StoredAs(req[k].version)

(* A client that holds the lock reads a stable file: what fetch_file has   *)
(* sent it so far is a prefix of what the file still contains.             *)
HolderReadsStableFile ==
    \A k \in Calls :
        /\ At(k, "read")
        /\ lock_file_map[req[k].file] = req[k].client
        /\ Undisturbed(req[k].file)
        => /\ Len(call[k].seen) <= Len(data[call[k].fd])
           /\ call[k].seen = SubSeq(data[call[k].fd], 1, Len(call[k].seen))

(* The lock table implements the lock service's promise.                   *)
Locks == INSTANCE LockService WITH owner <- lock_file_map

LocksSpec == Locks!Spec

(* Every call that reached the server returns, however its client, the     *)
(* other calls and the clock behave: no handler waits for ever for a lock, *)
(* or for a message of a client that is gone.                              *)
EveryCallReturns == \A k \in Calls : Busy(k) ~> ~Busy(k)

----------------------------------------------------------------------------
(* What the documentation says of the system, and the server does not do.  *)

(* docs/part2.md:3,15: one client at a time writes a file.                 *)
OneWriterPerFile ==
    \A j, k \in Calls :
        At(j, "write") /\ At(k, "write") /\ req[j].file = req[k].file
        => req[j].client = req[k].client

(* docs/part2.md:15: the server tracks which client holds a lock.          *)
LockHolderIsAClient == \A f \in Files : lock_file_map[f] # NoClient
=============================================================================
