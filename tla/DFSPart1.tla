------------------------------ MODULE DFSPart1 ------------------------------
(***************************************************************************)
(* Part 1: the lock-free file service, both ends of it.  A command of the  *)
(* client program (part1/src/dfs-client-p1) makes one call; its five RPCs  *)
(* are in part1/dfslib-clientnode-p1, their handlers in                    *)
(* part1/dfslib-servernode-p1.  Client, handler and stream are one record  *)
(* per call:                                                               *)
(*   pc, spc    the next step of the client, of the handler                *)
(*   up, down   messages under way to the server, to the client            *)
(*   half       the client has said WritesDone                             *)
(*   reply      what the handler returned                                  *)
(*   cancelled  the deadline passed, or the client is gone                 *)
(*   sent       chunks the sender has read from its file                   *)
(*   taken      chunks the receiver has taken from the stream; of these    *)
(*   kept       the one its ofstream still buffers                         *)
(*   bad        the receiver's ofstream has failed                         *)
(*   fd         the file the handler has open, by inode                    *)
(*   entry      list: the directory entry just read                        *)
(*   date       list: temp_stat, by the file it was taken of               *)
(*   listed     list: the entries read so far                              *)
(*   map        list: the client's file_map                                *)
(*   status     what the command returned                                  *)
(* and four that only the properties read:                                 *)
(*   alone      no other call changed the file while this one ran          *)
(*   lost       the receiver's close failed to write what was buffered     *)
(*   due, ever  list: the files in the directory all the time, at some     *)
(*              time since it was opened                                   *)
(***************************************************************************)
EXTENDS Integers, Sequences

CONSTANTS Mounts,      \* the clients' mount directories
          Server,      \* the version the server's files start with
          Files,       \* file names
          Calls,       \* identities of the calls that may be made
          Commands,    \* the commands users give
          Chunks,      \* Chunks[v]: file_data messages needed to send v
          SmallTail,   \* versions whose last chunk an ofstream keeps buffered
          Hole,        \* bytes of a file that nobody wrote
          None,        \* absent value
          Window,      \* messages a stream holds before Write blocks
          DiskFaults,  \* may opens and writes fail?
          MaxCrashes   \* bound on the number of server crashes

AllCommands == {"store", "fetch", "delete", "list", "stat"}

(* Where a file started: every mount's are its own.                        *)
Versions == Mounts \cup {Server}

Request == [op : Commands, mount : Mounts, file : Files]

(* What a handler returns; FAILURE is an OK that holds a failed transfer.  *)
Replies == {"OK", "FAILURE", "NOT_FOUND", "INTERNAL", "DEADLINE_EXCEEDED", "UNAVAILABLE"}

(* Chunk i of version v is <<v, i>>: no two chunks are equal.              *)
Bytes == {Hole} \cup UNION {{<<v, i>> : i \in 1 .. Chunks[v]} : v \in Versions}

ASSUME Part1Assumption ==
    /\ Commands \subseteq AllCommands
    /\ Chunks \in [Versions -> Nat]
    /\ SmallTail \subseteq {v \in Versions : Chunks[v] > 0}
    /\ Window \in Nat \ {0}
    /\ DiskFaults \in BOOLEAN
    /\ MaxCrashes \in Nat
    /\ Files \cap Calls = {}  \* both name inodes
    /\ None \notin Files \cup Calls \cup Bytes \cup Replies
    /\ None \notin Seq(Bytes \cup {None})

VARIABLES dir,     \* the served directory: file -> inode
          data,    \* the bytes of every inode, chunk by chunk
          local,   \* local[m][f]: the file f in mount directory m
          req,     \* req[k]: the command of call k
          call,    \* call[k]: see above
          crashes  \* server crashes so far

vars == <<dir, data, local, req, call, crashes>>

----------------------------------------------------------------------------
(* The file of version v.                                                  *)
Body(v) == [i \in 1 .. Chunks[v] |-> <<v, i>>]

Inodes == Files \cup Calls

(* Writing chunk x at position i of bytes s: a gap below i reads as zeros. *)
WriteAt(s, i, x) ==
    [j \in 1 .. (IF i > Len(s) THEN i ELSE Len(s)) |->
        IF j = i THEN x ELSE IF j <= Len(s) THEN s[j] ELSE Hole]

(* What read(buffer, BUFFER_SIZE - 1) makes of chunk i of s; gcount says   *)
(* whether the last one is small.                                          *)
Message(s, i) ==
    [chunk |-> s[i],
     small |-> i = Len(s) /\ \E v \in SmallTail : s[i] = <<v, Chunks[v]>>]

Header == [chunk |-> None, small |-> FALSE]

NewCall == [pc |-> "idle", spc |-> "none", up |-> <<>>, down |-> <<>>,
            half |-> FALSE, reply |-> None, cancelled |-> FALSE, sent |-> 0,
            taken |-> 0, kept |-> None, bad |-> FALSE, fd |-> None,
            entry |-> None, date |-> 0, listed |-> {}, map |-> [f \in Files |-> None],
            status |-> None, alone |-> TRUE, lost |-> FALSE, due |-> {}, ever |-> {}]

Running(k) == call[k].pc \notin {"idle", "done", "killed"}
Serving(k) == call[k].spc \notin {"none", "done"}

At(k, op, pc) == req[k] # None /\ req[k].op = op /\ call[k].pc = pc
SAt(k, spc) == call[k].spc = spc

(* Of a call that both ends are done with only the result is left.         *)
Settled(c) ==
    IF c.pc \in {"done", "killed"} /\ c.spc \in {"none", "done"}
    THEN [NewCall EXCEPT !.pc = c.pc, !.spc = c.spc, !.status = c.status, !.map = c.map]
    ELSE c

Set(k, c) == call' = [call EXCEPT ![k] = Settled(c)]

(* The handler returns: it reads no more, and no message will follow.      *)
Replied(c, r) == [c EXCEPT !.spc = "done", !.reply = r, !.up = <<>>]

(* The command returns; its ClientContext and with it the call are gone.   *)
Returned(c, s) ==
    [c EXCEPT !.pc = "done", !.status = s, !.cancelled = TRUE, !.down = <<>>]

Init ==
    /\ \E present \in SUBSET Files :
          /\ dir = [f \in Files |-> IF f \in present THEN f ELSE None]
          /\ data = [n \in Inodes |-> IF n \in present THEN Body(Server) ELSE <<>>]
    /\ \E stocked \in SUBSET Files :
          local = [m \in Mounts |-> [f \in Files |-> IF f \in stocked THEN Body(m) ELSE None]]
    /\ req = [k \in Calls |-> None]
    /\ call = [k \in Calls |-> NewCall]
    /\ crashes = 0

----------------------------------------------------------------------------
(* Streams.                                                                *)

(* The other end is gone: Write returns false, which nobody looks at.      *)
Broken(c) == c.cancelled \/ c.reply # None

(* Write waits for room.                                                   *)
SentUp(c, m) == IF Broken(c) THEN c ELSE [c EXCEPT !.up = Append(@, m)]
RoomUp(c) == Broken(c) \/ Len(c.up) < Window

SentDown(c, m) == IF c.cancelled THEN c ELSE [c EXCEPT !.down = Append(@, m)]
RoomDown(c) == c.cancelled \/ Len(c.down) < Window

(* Read returns false at the end of the stream, and any time after the     *)
(* call broke off; what is under way is then lost.                         *)
UpEnded(c) == c.cancelled \/ (c.half /\ c.up = <<>>)

(* Faulty variant: the handler's return ends the stream at once.           *)
DownEndedEarly(c) == c.cancelled \/ c.reply # None

DownEnded(c) == c.cancelled \/ (c.reply # None /\ c.down = <<>>)

----------------------------------------------------------------------------
(* The receiver's ofstream: the server's in store, the client's in fetch.  *)
(* It writes at its own position, and every write of a full chunk at once; *)
(* a small one waits in its buffer for close.                              *)

(* What message x makes of the receiver c and of the bytes s of its file.  *)
Taken(c, x) == [c EXCEPT !.taken = @ + 1,
                         !.kept = IF x.small /\ ~c.bad THEN x.chunk ELSE @]
Written(c, x, s) == IF x.small \/ c.bad THEN s ELSE WriteAt(s, c.taken + 1, x.chunk)

(* Closing the file writes what is buffered; whether that worked is not    *)
(* looked at.                                                              *)
Flushed(c, s) == IF c.kept = None THEN s ELSE WriteAt(s, c.taken, c.kept)

----------------------------------------------------------------------------
(* The client.                                                             *)

(* A user gives a command; in one directory one after the other.           *)
Start(k) ==
    /\ call[k].pc = "idle"
    /\ \E r \in Request :
          /\ \A j \in Calls : Running(j) => req[j].mount # r.mount
          /\ req' = [req EXCEPT ![k] = r]
          /\ IF r.op = "store" /\ local[r.mount][r.file] = None
             THEN Set(k, Returned(call[k], "NOT_FOUND"))
             ELSE Set(k, [call[k] EXCEPT
                      !.spc = "start",
                      !.pc = CASE r.op = "store" -> "header"
                               [] r.op = "fetch" -> "open"
                               [] r.op = "list" -> "receive"
                               [] OTHER -> "finish"])
    /\ UNCHANGED <<dir, data, local, crashes>>

Mine(k) == local[req[k].mount][req[k].file]

StoreHeader(k) ==
    /\ At(k, "store", "header")
    /\ RoomUp(call[k])
    /\ Set(k, [SentUp(call[k], Header) EXCEPT !.pc = "send"])
    /\ UNCHANGED <<dir, data, local, req, crashes>>

StoreChunk(k) ==
    LET i == call[k].sent + 1 IN
    /\ At(k, "store", "send")
    /\ i <= Len(Mine(k))
    /\ RoomUp(call[k])
    /\ Set(k, [SentUp(call[k], Message(Mine(k), i)) EXCEPT !.sent = i])
    /\ UNCHANGED <<dir, data, local, req, crashes>>

(* Faulty variant: WritesDone is forgotten.                                *)
StoreDoneOpen(k) ==
    /\ At(k, "store", "send")
    /\ call[k].sent = Len(Mine(k))
    /\ Set(k, [call[k] EXCEPT !.pc = "finish"])
    /\ UNCHANGED <<dir, data, local, req, crashes>>

StoreDone(k) ==
    /\ At(k, "store", "send")
    /\ call[k].sent = Len(Mine(k))
    /\ Set(k, [call[k] EXCEPT !.half = TRUE, !.pc = "finish"])
    /\ UNCHANGED <<dir, data, local, req, crashes>>

(* Faulty variant: the first message is taken for data.                    *)
FetchOpenNoHeader(k) ==
    /\ At(k, "fetch", "open")
    /\ Set(k, [call[k] EXCEPT !.pc = "receive"])
    /\ local' = [local EXCEPT ![req[k].mount][req[k].file] = <<>>]
    /\ UNCHANGED <<dir, data, req, crashes>>

(* Fetch opens, and so empties or creates, its local file before it has    *)
(* heard anything of the server.                                           *)
FetchOpen(k) ==
    /\ At(k, "fetch", "open")
    /\ \/ /\ Set(k, [call[k] EXCEPT !.pc = "first"])
          /\ local' = [local EXCEPT ![req[k].mount][req[k].file] = <<>>]
       \/ /\ DiskFaults
          /\ Set(k, [call[k] EXCEPT !.pc = "first_unopened"])
          /\ UNCHANGED local
    /\ UNCHANGED <<dir, data, req, crashes>>

(* Faulty variant: the first message is asked for until there is one.      *)
FetchFirstInsists(k) ==
    LET c == call[k] IN
    /\ At(k, "fetch", "first")
    /\ c.down # <<>>
    /\ Set(k, [c EXCEPT !.down = Tail(@), !.pc = "receive"])
    /\ UNCHANGED <<dir, data, local, req, crashes>>

(* The first message holds the file's stats, which nobody uses.            *)
FetchFirst(k) ==
    LET c == call[k] IN
    /\ At(k, "fetch", "first")
    /\ \/ c.down # <<>> /\ Set(k, [c EXCEPT !.down = Tail(@), !.pc = "receive"])
       \/ DownEnded(c) /\ Set(k, [c EXCEPT !.down = <<>>, !.pc = "receive"])
    /\ UNCHANGED <<dir, data, local, req, crashes>>

(* A client that could not open its file leaves without Finish.            *)
FetchUnopened(k) ==
    LET c == call[k] IN
    /\ At(k, "fetch", "first_unopened")
    /\ c.down # <<>> \/ DownEnded(c)
    /\ Set(k, Returned(c, "CANCELLED"))
    /\ UNCHANGED <<dir, data, local, req, crashes>>

FetchChunk(k) ==
    LET c == call[k]
        x == Head(c.down)
        r == [Taken(c, x) EXCEPT !.down = Tail(@)]
    IN
    /\ At(k, "fetch", "receive")
    /\ c.down # <<>>
    /\ \/ /\ Set(k, r)
          /\ local' = [local EXCEPT ![req[k].mount][req[k].file] = Written(c, x, @)]
       \/ /\ DiskFaults /\ ~x.small /\ ~c.bad
          /\ Set(k, [r EXCEPT !.bad = TRUE])
          /\ UNCHANGED local
    /\ UNCHANGED <<dir, data, req, crashes>>

FetchEnd(k) ==
    LET c == call[k] IN
    /\ At(k, "fetch", "receive")
    /\ DownEnded(c)
    /\ IF c.bad
       THEN Set(k, Returned(c, "CANCELLED")) /\ UNCHANGED local
       ELSE \/ /\ Set(k, [c EXCEPT !.pc = "finish"])
               /\ local' = [local EXCEPT ![req[k].mount][req[k].file] = Flushed(c, @)]
            \/ /\ DiskFaults /\ c.kept # None
               /\ Set(k, [c EXCEPT !.pc = "finish", !.lost = TRUE])
               /\ UNCHANGED local
    /\ UNCHANGED <<dir, data, req, crashes>>

(* map::insert keeps the entry that is there.                              *)
ListEntry(k) ==
    LET c == call[k]
        x == Head(c.down)
    IN
    /\ At(k, "list", "receive")
    /\ c.down # <<>>
    /\ Set(k, [c EXCEPT !.down = Tail(@),
                        !.map[x.name] = IF @ = None THEN x.date ELSE @])
    /\ UNCHANGED <<dir, data, local, req, crashes>>

ListEnd(k) ==
    /\ At(k, "list", "receive")
    /\ DownEnded(call[k])
    /\ Set(k, [call[k] EXCEPT !.pc = "finish"])
    /\ UNCHANGED <<dir, data, local, req, crashes>>

(* Finish waits for the handler's status, or the deadline.  A transfer     *)
(* that failed is a file not found.                                        *)
Finish(k) ==
    LET c == call[k] IN
    /\ c.pc = "finish"
    /\ c.cancelled \/ c.reply # None
    /\ Set(k, Returned(c, IF c.cancelled THEN "DEADLINE_EXCEEDED"
                          ELSE IF c.reply = "FAILURE" THEN "NOT_FOUND" ELSE c.reply))
    /\ UNCHANGED <<dir, data, local, req, crashes>>

(* The deadline passes before the client has the handler's status.         *)
Deadline(k) ==
    /\ Running(k) /\ ~call[k].cancelled
    /\ Set(k, [call[k] EXCEPT !.cancelled = TRUE])
    /\ UNCHANGED <<dir, data, local, req, crashes>>

(* HandleSignal: the user interrupts the program, which exits.             *)
HandleSignal(k) ==
    /\ Running(k)
    /\ Set(k, [call[k] EXCEPT !.pc = "killed", !.cancelled = TRUE, !.down = <<>>])
    /\ UNCHANGED <<dir, data, local, req, crashes>>

----------------------------------------------------------------------------
(* The server. gRPC runs every handler on a thread of its own; there are   *)
(* no locks.                                                               *)

(* The other calls learn that call k wrote, created or removed file f.     *)
Listing(c) == c.spc \in {"read_dir", "stat_entry"}
Witnessed(k, f, there) ==
    [j \in Calls |->
        IF Listing(call[j])
        THEN [call[j] EXCEPT !.due = IF there THEN @ ELSE @ \ {f},
                             !.ever = IF there THEN @ \cup {f} ELSE @]
        ELSE IF Running(j) /\ j # k /\ req[j].file = f
        THEN [call[j] EXCEPT !.alone = FALSE]
        ELSE call[j]]

(* Every handler looks at the deadline on entry, and only there.           *)
Begin(k) ==
    LET c == call[k] IN
    /\ SAt(k, "start")
    /\ IF c.cancelled
       THEN Set(k, Replied(c, "DEADLINE_EXCEEDED"))
       ELSE Set(k, [c EXCEPT !.spc = CASE req[k].op = "store" -> "read_header"
                                       [] req[k].op = "fetch" -> "fetch_stat"
                                       [] req[k].op = "delete" -> "remove"
                                       [] req[k].op = "list" -> "open_dir"
                                       [] req[k].op = "stat" -> "stat_file"])
    /\ UNCHANGED <<dir, data, local, req, crashes>>

(* Without the message that names the file the path is the directory's,    *)
(* which cannot be opened as a file.                                       *)
ReadHeader(k) ==
    LET c == call[k] IN
    /\ SAt(k, "read_header")
    /\ \/ c.up # <<>> /\ Set(k, [c EXCEPT !.up = Tail(@), !.spc = "open"])
       \/ UpEnded(c) /\ Set(k, Replied(c, "NOT_FOUND"))
    /\ UNCHANGED <<dir, data, local, req, crashes>>

(* write_to_file truncates the file in place, or creates it.               *)
OpenForWrite(k) ==
    LET f == req[k].file
        n == IF dir[f] = None THEN k ELSE dir[f]
    IN
    /\ SAt(k, "open")
    /\ dir' = [dir EXCEPT ![f] = n]
    /\ data' = [data EXCEPT ![n] = <<>>]
    /\ call' = [Witnessed(k, f, TRUE) EXCEPT ![k].spc = "write", ![k].fd = n]
    /\ UNCHANGED <<local, req, crashes>>

OpenFails(k) ==
    /\ DiskFaults
    /\ SAt(k, "open")
    /\ Set(k, Replied(call[k], "NOT_FOUND"))
    /\ UNCHANGED <<dir, data, local, req, crashes>>

(* Faulty variant: chunks go to the end of the file.                       *)
WriteChunkAppends(k) ==
    LET c == call[k]
        x == Head(c.up)
    IN
    /\ SAt(k, "write")
    /\ c.up # <<>>
    /\ data' = [data EXCEPT ![c.fd] = IF x.small \/ c.bad THEN @ ELSE Append(@, x.chunk)]
    /\ call' = [Witnessed(k, req[k].file, dir[req[k].file] # None) EXCEPT
                   ![k] = [Taken(c, x) EXCEPT !.up = Tail(@)]]
    /\ UNCHANGED <<dir, local, req, crashes>>

WriteChunk(k) ==
    LET c == call[k]
        f == req[k].file
        x == Head(c.up)
        r == [Taken(c, x) EXCEPT !.up = Tail(@)]
    IN
    /\ SAt(k, "write")
    /\ c.up # <<>>
    /\ \/ /\ data' = [data EXCEPT ![c.fd] = Written(c, x, @)]
          /\ call' = [Witnessed(k, f, dir[f] # None) EXCEPT ![k] = r]
       \/ /\ DiskFaults /\ ~x.small /\ ~c.bad
          /\ Set(k, [r EXCEPT !.bad = TRUE])
          /\ UNCHANGED data
    /\ UNCHANGED <<dir, local, req, crashes>>

(* Faulty variant: the file is not closed before the answer.               *)
EndOfStreamUnclosed(k) ==
    /\ SAt(k, "write")
    /\ UpEnded(call[k])
    /\ Set(k, IF call[k].bad THEN Replied(call[k], "NOT_FOUND")
                             ELSE [call[k] EXCEPT !.spc = "stat"])
    /\ UNCHANGED <<dir, data, local, req, crashes>>

EndOfStream(k) ==
    LET c == call[k]
        f == req[k].file
    IN
    /\ SAt(k, "write")
    /\ UpEnded(c)
    /\ IF c.bad
       THEN Set(k, Replied(c, "NOT_FOUND")) /\ UNCHANGED data
       ELSE \/ /\ data' = [data EXCEPT ![c.fd] = Flushed(c, @)]
               /\ call' = [Witnessed(k, f, dir[f] # None) EXCEPT ![k].spc = "stat"]
            \/ /\ DiskFaults /\ c.kept # None
               /\ Set(k, [c EXCEPT !.spc = "stat", !.lost = TRUE])
               /\ UNCHANGED data
    /\ UNCHANGED <<dir, local, req, crashes>>

(* get_file_stats replaces the transfer's success by its own outcome.      *)
StatAfterWrite(k) ==
    /\ SAt(k, "stat")
    /\ Set(k, Replied(call[k], IF dir[req[k].file] = None THEN "FAILURE" ELSE "OK"))
    /\ UNCHANGED <<dir, data, local, req, crashes>>

(* fetch_file looks the file up twice, for its stats and to read it.       *)
FetchStat(k) ==
    LET c == call[k] IN
    /\ SAt(k, "fetch_stat")
    /\ IF dir[req[k].file] = None
       THEN Set(k, Replied(c, "NOT_FOUND"))
       ELSE Set(k, [SentDown(c, Header) EXCEPT !.spc = "open_read"])
    /\ UNCHANGED <<dir, data, local, req, crashes>>

OpenForRead(k) ==
    LET c == call[k]
        n == dir[req[k].file]
    IN
    /\ SAt(k, "open_read")
    /\ IF n = None
       THEN Set(k, Replied(c, "NOT_FOUND"))
       ELSE Set(k, [c EXCEPT !.spc = "read", !.fd = n])
    /\ UNCHANGED <<dir, data, local, req, crashes>>

(* A short read is the last one, even if the file has grown since.         *)
ReadChunk(k) ==
    LET c == call[k]
        i == c.sent + 1
        x == Message(data[c.fd], i)
    IN
    /\ SAt(k, "read")
    /\ i <= Len(data[c.fd])
    /\ RoomDown(c)
    /\ Set(k, [SentDown(c, x) EXCEPT !.sent = i,
                                    !.spc = IF x.small THEN "read_end" ELSE "read"])
    /\ UNCHANGED <<dir, data, local, req, crashes>>

ReadEnd(k) ==
    /\ \/ SAt(k, "read_end")
       \/ SAt(k, "read") /\ call[k].sent >= Len(data[call[k].fd])
    /\ Set(k, Replied(call[k], "OK"))
    /\ UNCHANGED <<dir, data, local, req, crashes>>

Remove(k) ==
    LET f == req[k].file IN
    /\ SAt(k, "remove")
    /\ IF dir[f] = None
       THEN Set(k, Replied(call[k], "NOT_FOUND"))
       ELSE call' = [Witnessed(k, f, FALSE) EXCEPT ![k] = Settled(Replied(@, "OK"))]
    /\ dir' = [dir EXCEPT ![f] = None]
    /\ UNCHANGED <<data, local, req, crashes>>

StatFile(k) ==
    /\ SAt(k, "stat_file")
    /\ Set(k, Replied(call[k], IF dir[req[k].file] = None THEN "NOT_FOUND" ELSE "OK"))
    /\ UNCHANGED <<dir, data, local, req, crashes>>

OpenDir(k) ==
    LET there == {f \in Files : dir[f] # None} IN
    /\ SAt(k, "open_dir")
    /\ \/ Set(k, [call[k] EXCEPT !.spc = "read_dir", !.due = there, !.ever = there])
       \/ DiskFaults /\ Set(k, Replied(call[k], "INTERNAL"))
    /\ UNCHANGED <<dir, data, local, req, crashes>>

(* readdir gives every file that is there throughout, and may give one     *)
(* that came or went since the directory was opened.                       *)
ReadDir(k) ==
    LET c == call[k] IN
    /\ SAt(k, "read_dir")
    /\ \E f \in c.ever \ c.listed :
          Set(k, [c EXCEPT !.entry = f, !.listed = @ \cup {f}, !.spc = "stat_entry"])
    /\ UNCHANGED <<dir, data, local, req, crashes>>

(* Faulty variant: stat is called for the first entry only.              *)
StatEntryOnce(k) ==
    LET c == call[k]
        date == IF c.date # 0 \/ dir[c.entry] = None THEN c.date ELSE c.entry
    IN
    /\ SAt(k, "stat_entry")
    /\ RoomDown(c)
    /\ Set(k, [SentDown(c, [name |-> c.entry, date |-> date]) EXCEPT
                  !.date = date, !.spc = "read_dir"])
    /\ UNCHANGED <<dir, data, local, req, crashes>>

(* stat's result is not looked at: where it fails, temp_stat is still what *)
(* it was for the entry before, or all zeros.                              *)
StatEntry(k) ==
    LET c == call[k]
        date == IF dir[c.entry] = None THEN c.date ELSE c.entry
    IN
    /\ SAt(k, "stat_entry")
    /\ RoomDown(c)
    /\ Set(k, [SentDown(c, [name |-> c.entry, date |-> date]) EXCEPT
                  !.date = date, !.spc = "read_dir"])
    /\ UNCHANGED <<dir, data, local, req, crashes>>

ReadDirEnd(k) ==
    /\ SAt(k, "read_dir")
    /\ call[k].due \subseteq call[k].listed
    /\ Set(k, Replied(call[k], "OK"))
    /\ UNCHANGED <<dir, data, local, req, crashes>>

(* The server process dies, and with it the handlers; the directory stays. *)
(* Clients see the connection break.                                       *)
Crash ==
    /\ crashes < MaxCrashes
    /\ crashes' = crashes + 1
    /\ call' = [k \in Calls |-> IF Serving(k) THEN Settled(Replied(call[k], "UNAVAILABLE")) ELSE call[k]]
    /\ UNCHANGED <<dir, data, local, req>>

----------------------------------------------------------------------------
Client(k) ==
    \/ StoreHeader(k) \/ StoreChunk(k) \/ StoreDone(k)
    \/ FetchOpen(k)   \/ FetchFirst(k) \/ FetchUnopened(k) \/ FetchChunk(k) \/ FetchEnd(k)
    \/ ListEntry(k)   \/ ListEnd(k)
    \/ Finish(k)

Handler(k) ==
    \/ Begin(k)     \/ ReadHeader(k)  \/ OpenForWrite(k) \/ OpenFails(k)
    \/ WriteChunk(k) \/ EndOfStream(k) \/ StatAfterWrite(k)
    \/ FetchStat(k) \/ OpenForRead(k) \/ ReadChunk(k)    \/ ReadEnd(k)
    \/ Remove(k)    \/ StatFile(k)
    \/ OpenDir(k)   \/ ReadDir(k)     \/ StatEntry(k)    \/ ReadDirEnd(k)

Next ==
    \/ \E k \in Calls : Start(k) \/ Client(k) \/ Handler(k) \/ Deadline(k) \/ HandleSignal(k)
    \/ Crash

Spec == Init /\ [][Next]_vars

----------------------------------------------------------------------------
(* Properties.                                                             *)

Pcs == {"idle", "header", "send", "open", "first", "first_unopened", "receive", "finish",
        "done", "killed"}
ServerPcs == {"none", "start", "read_header", "open", "write", "stat", "fetch_stat",
              "open_read", "read", "read_end", "remove", "stat_file", "open_dir", "read_dir",
              "stat_entry", "done"}
Codes == (Replies \ {"FAILURE"}) \cup {"CANCELLED"}

(* Every variable has its type, and no stream holds more than its window.  *)
TypeOK ==
    /\ dir \in [Files -> Inodes \cup {None}]
    /\ data \in [Inodes -> Seq(Bytes)]
    /\ \A m \in Mounts, f \in Files : local[m][f] \in Seq(Bytes) \cup {None}
    /\ req \in [Calls -> Request \cup {None}]
    /\ crashes \in 0 .. MaxCrashes
    /\ \A k \in Calls : LET c == call[k] IN
          /\ c.pc \in Pcs /\ c.spc \in ServerPcs
          /\ Len(c.up) <= Window /\ Len(c.down) <= Window
          /\ c.half \in BOOLEAN /\ c.cancelled \in BOOLEAN /\ c.bad \in BOOLEAN
          /\ c.reply \in Replies \cup {None} /\ c.status \in Codes \cup {None}
          /\ c.kept \in Bytes \cup {None} /\ c.fd \in Inodes \cup {None}
          /\ c.map \in [Files -> Files \cup {None, 0}]

(* However many stores of a file run at once, whoever of them breaks off:  *)
(* every chunk in the file, and in what clients fetch of it, is one that   *)
(* some client's file has at that very place, or a gap.                    *)
ChunksInPlace ==
    LET InPlace(s) == \A i \in 1 .. Len(s) : s[i] = Hole \/ s[i][2] = i IN
    /\ \A n \in Inodes : InPlace(data[n])
    /\ \A m \in Mounts, f \in Files : local[m][f] # None => InPlace(local[m][f])

Returns(k, op) ==
    Running(k) /\ call'[k].status = "OK" /\ req[k].op = op

(* A store that returns OK has left the client's file, whole, on the       *)
(* server, unless another call touched the file meanwhile or closing it    *)
(* failed.                                                                 *)
OkStoreIsWhole ==
    [][\A k \in Calls :
          Returns(k, "store") /\ call[k].alone /\ ~call[k].lost =>
              /\ dir[req[k].file] # None
              /\ data[dir[req[k].file]] = Mine(k)]_vars

(* So has a fetch left the server's file with the client.                  *)
OkFetchIsWhole ==
    [][\A k \in Calls :
          Returns(k, "fetch") /\ call[k].alone /\ ~call[k].lost =>
              /\ dir[req[k].file] # None
              /\ data[dir[req[k].file]] = Mine(k)]_vars

(* A list that returns OK shows every file that was there throughout, with *)
(* its own date, and none that never was.                                  *)
OkListIsComplete ==
    [][\A k \in Calls :
          Returns(k, "list") =>
              /\ \A f \in call[k].due : call[k].map[f] = f
              /\ \A f \in Files : call[k].map[f] # None => f \in call[k].ever]_vars

(* Where client and handler wait: for room in the stream, for a message or *)
(* the stream's end, for the status.                                       *)
ClientWaits(k) ==
    LET c == call[k] IN
    \/ c.pc = "header" /\ ~RoomUp(c)
    \/ c.pc = "send" /\ c.sent < Len(Mine(k)) /\ ~RoomUp(c)
    \/ c.pc \in {"first", "first_unopened", "receive"} /\ c.down = <<>> /\ ~DownEnded(c)
    \/ c.pc = "finish" /\ ~c.cancelled /\ c.reply = None

HandlerWaits(k) ==
    LET c == call[k] IN
    \/ c.spc \in {"read_header", "write"} /\ c.up = <<>> /\ ~UpEnded(c)
    \/ c.spc = "read" /\ c.sent < Len(data[c.fd]) /\ ~RoomDown(c)
    \/ c.spc = "stat_entry" /\ ~RoomDown(c)

(* Client and handler never wait for each other: whichever of them waits,  *)
(* the other is still at work on the call and does not wait, however far   *)
(* away the deadline is, whoever left early and however full the streams   *)
(* are.                                                                    *)
NoneWaitsForEver ==
    \A k \in Calls :
        /\ Running(k) /\ ClientWaits(k) => Serving(k) /\ ~HandlerWaits(k)
        /\ Serving(k) /\ HandlerWaits(k) => Running(k) /\ ~ClientWaits(k)

(* There is nothing else to wait for: an end that is at work and does not  *)
(* wait has a next step, wherever it is and whatever the other calls did   *)
(* to its files, and one that waits has none.                              *)
OnlyWaitsStop ==
    \A k \in Calls :
        /\ Running(k) => (ClientWaits(k) <=> ~ENABLED Client(k))
        /\ Serving(k) => (HandlerWaits(k) <=> ~ENABLED Handler(k))

----------------------------------------------------------------------------
(* What the documentation says of the program, and it does not do.         *)

(* docs/part1.md:16: the listing has the modified time of the file.        *)
ListedDateIsOwn ==
    \A k \in Calls : \A f \in Files : call[k].map[f] \in {None, f}
=============================================================================
