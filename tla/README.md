# A verification project for the distributed file system

TLA+ models of the file system in this repository, TLC runs that check them on
small instances, and TLAPS proofs, for instances of any size, of what matters
most about the server's locks, its asynchronous calls, the checksum, a mounted
client and Part 1. Paths are relative to the repository (`part2/...`);
`servernode`, `clientnode` and `shared` are short for
`part2/dfslib-servernode-p2.cpp`, `part2/dfslib-clientnode-p2.cpp` and
`part2/dfslib-shared-p2.cpp`.

## 1. The system

Part 2 is a file system of one server and several clients over gRPC. A client
either runs one command (store, fetch, delete, list, stat, lock) or mounts a
directory, which is then kept equal to the server's. Part 1 is an earlier
version without locks, checksums and mounting, whose transfers, listings and
wrappers Part 2 took over.

| component | state | operations | what makes it correct |
|---|---|---|---|
| synchronous handlers (`servernode` 291-592, `shared`) | the served directory and its files' bytes; each call's stream | `store_file`, `fetch_file`, `stat_file`, `lock_file`, `delete_file`, `list_file` | writers of a file exclude each other; what is acknowledged is stored; every call returns |
| write-lock table (`servernode` 89-166) | `lock_file_map`: file to client id; `lock_mutex` | `check_for_file_lock` (takes no mutex), `acquire_file_lock`, `unlock_file_lock` | a lock has one holder, is given only when free, and is given back on every way out |
| asynchronous calls (`part2/src/dfslibx-call-data.h`, `dfslibx-service-runner.h`, `servernode` 204-281) | `DFSCallData` instances, `queued_tags`, `queue_mutex`, the completion queue | `Proceed`, `RequestCallback`, `ProcessQueuedRequests`, `HandleAsyncRPC` | an instance is in one hand at a time, deleted once, and replaced by one successor; calls are answered |
| checksum (`part2/src/dfs-utils.h` 38-96) | none beyond the call | `dfs_file_checksum` | it depends on the file's bytes only, on all of them, and ends |
| mounted client (`clientnode` 414-593, `part2/src/dfs-client-p2.cpp` 81-231) | the mount directory, the inotify queue, `inotify_mutex`, the current listing, `mounted` | `InotifyWatcher`, `InotifyEventCallback`, `HandleCallbackList`, `InitCallbackList` | the latest version of a file survives; mount and server become equal; the two threads do not block each other for ever |
| client calls (`clientnode` 52-412, 604-631) | none kept | `Store`, `Fetch`, `Delete`, `List`, `Stat`, `Lock`, `RequestWriteAccess` (unused) | the local file is whole, or as it was |
| listings (`servernode` 416-453, 525-565) | none kept | `list_file`, `CallbackList` | dates and checksums belong to the files listed |
| CRC library (`part2/src/CRC.h`) | a table per node | `Calculate` with and without the table, in one part or several | parts add up to what the whole gives |
| Part 1 (`part1/dfslib-servernode-p1.cpp`, `part1/dfslib-clientnode-p1.cpp`) | the served directory, mount directories, each call's stream | store, fetch, delete, list, stat, both ends | what returns OK was done; client and handler do not wait for each other |
| command lines, logging, build files | see section 7 | | |

How they interact. gRPC calls the synchronous handlers on threads of its own
pool, so any two of them interleave at any step; all they share is the lock
table and the directory. `CallbackList` is served apart from them: a worker
thread takes an event off the completion queue and calls `Proceed` on the
instance that is the event's tag, while the queue thread hands new instances to
gRPC. In a client, two threads call the server: the watcher, which inotify
wakes, and the async thread, which the answer to `CallbackList` wakes. Each
holds `inotify_mutex` while it works on a batch of events or on a listing, its
calls to the server included. What one thread writes to the mount comes back to
the other as events. In Part 1 (and in Part 2 below its locks) the two ends of a
call share nothing but a stream of bounded size, and either may leave early.

What is hard about it: checks of the lock and uses of it that are two steps;
handlers that go on after the client's deadline; streams that break off, which
`Read` reports like those that are complete; a server that restarts with its
locks forgotten; instances that travel between four kinds of owners; listings
that are old by the time they are applied; events that are echoes of the
client's own transfers; dates that say when the server wrote a copy; and a
checksum for which nothing and an empty file are the same. `PROJECT.json` lists
these one by one, with the line where each bites and the properties that watch
it.

## 2. The modules

| module | models | |
|---|---|---|
| `LockService` | what the lock table promises | abstract specification |
| `DFSServer` | synchronous handlers, lock table, directory | implements `LockService` |
| `DFSServerProofs` | | theorems about `DFSServer`: types and locks |
| `DFSServerDataProofs` | | theorems about `DFSServer`: what is stored and read |
| `DFSCallData` | asynchronous calls | |
| `DFSCallDataProofs` | | theorems about `DFSCallData` |
| `CRC` | CRCs, bit by bit and by table | |
| `CRCProofs` | | theorems about `CRC` |
| `FileChecksum` | `dfs_file_checksum` | uses `CRC` |
| `FileChecksumProofs` | | theorems about `FileChecksum`, from those of `CRCProofs` |
| `DFSSync` | mounted clients, their calls, and the server as they see it | |
| `DFSSyncProofs` | | theorems about `DFSSync` |
| `DFSPart1` | Part 1: commands, handlers and the streams between them | |
| `DFSPart1Proofs` | | theorems about `DFSPart1`: calls and lists |
| `DFSPart1DataProofs` | | theorems about `DFSPart1`: what is in the files |
| `MC...` | instances of these for TLC | |

### DFSServer

A call has a record with the handler's position (`pc`) and its locals; the
request it carries is in `req`. An action is one access to shared state or to
the stream, with the local computation up to the next one:

| code | actions |
|---|---|
| entry of every handler, `IsCancelled` | `Begin` |
| `reader->Read(&file_content)` | `ReadHeader`, `LostHeader` |
| `check_for_file_lock`: `count`, then `operator[]` | `CheckCount`, `CheckOwner` |
| `acquire_file_lock`, under `lock_mutex` | `Acquire` |
| `else unlock_file_lock(...)` after a lost race | `EraseWinner` |
| `check_file_content` | `CheckContent` |
| `write_to_file`: open, each `Read`/`write`, end and close | `OpenForWrite`, `OpenFails`, `WriteChunk`, `EndOfStream` |
| `get_file_stats` after the transfer | `StatAfterWrite` |
| `unlock_file_lock` on every way out of `store_file` | `Release` |
| `fetch_file`'s first message; `read_file` | `FetchStats`, `OpenForRead`, `ReadChunk`, `ReadEnd` |
| `stat_file`, `delete_file` after the lock check | `StatFile`, `RemoveFile` |
| gRPC, the client's deadline, the process | `Arrive`, `Cancel`, `Crash` |

Files are inodes, so that a file that is removed or stored again while a
handler has it open is what it is on a POSIX file system. Contents are sequences
of chunks; a write goes to the writer's own position. An `ofstream` keeps a small
last chunk in its buffer until `close()` (`SmallTail`). `check_for_file_lock`
inserts an empty owner when the entry vanishes between its two accesses; that is
`NoClient`. `acquire_file_lock` makes the same check, and since it then writes
the entry in any case, it is one action. Unlocked accesses to the `std::map`
from several threads are formally a data race; the model has every order of
single accesses and not what a corrupted tree would do. The branch that returns
`INTERNAL` when `unlock_file_lock` fails cannot be reached (`erase` after
`count`, both under the mutex) and is left out. Log arguments, some of which look
into the lock table, are not evaluated at the default log level and are left out.
Client ids are host name and thread id, taken to be unique.

A client makes one call at a time, but goes on to the next when its deadline has
passed, whatever the handler still does (`Arrive`). That is how two handlers
with the same client id, and so the same lock, come to overlap.

### LockService

`owner` is the lock table itself. A lock can be granted when it is free or the
client's own, dropped at any time, become an orphan while it is free, and all
are free after a restart. It is weaker than what `docs/part2.md` asks for, since
the code drops locks of others (section 5).

### DFSCallData

`status`, `bound` and the places an instance's address can be in: the list of
queued tags, gRPC's registrations, replies being sent, the completion queue, and
the two variables a worker has instances in. `Proceed` is cut where other
threads can see its effects: `ProceedProcess` (the successor is constructed),
`Enqueue` (its constructor waits for `queue_mutex`), `ProceedCallback` (the
listing is composed, then `status` is set), `ProceedReply` (`Finish`) and
`ProceedFinish` (`delete this`). gRPC is external: `Accept` matches a waiting
call with a registered instance, `Sent` reports a reply, as not ok only if the
call was cut off. `GetEvent` drops events that are not ok, as `HandleAsyncRPC`
does. `Disconnect` ends a client's call, by its connection or with its process; the
instance that had taken it serves the call's number from then on (`breaks`
counts the accepted calls that were cut off). The client sleeps three seconds and
calls again (`clientnode` 559-578), as often as its connection breaks: `Call`. A
process that ended is a client that does not.

### CRC

An unsigned number is the set of its bits that are 1, so that `^` is the
symmetric difference, a shift moves the members, and a mask is an intersection;
widths are constants, and what is shifted out of a number is gone, as in C++.
`RemainderOfByte` has the loop over the bits of a byte and `Calculate` is the
CRC as its parameters define it; `Table`, `TableRemainder` and `TableAppend` are
the table-driven variant and the multi-part one that the program uses. The
branch for CRCs narrower than a byte is left out. `MCFileChecksum` assumes, and
TLC evaluates, that for each of the library's twelve common parameter sets, of 8,
16 and 32 bits, both variants give for the text 123456789 the check value in that
set's comment.

### FileChecksum

Bytes, buffer, chunk sequence and position are as in the code. `fed` is the
sequence of bytes the CRC was fed so far; the code's variable `crc` is defined
from it, as the result of one `TableAppend` for each chunk. `Rewrite` changes
the file at any moment, as there is no lock. A file that is open is not removed:
the descriptor would keep the old bytes, which is no different from leaving it
alone.

### DFSSync

Per client: the mount (`local`), the inotify queue (`events`), the batch the
watcher has read (`batch`), `inotify_mutex`, a call per thread (`rpc`), the
listing, the rest of the work on it (`sync`) and `mounted`. Calls are
`StoreSum`, `StoreOpen`, `StoreBegin`, `StoreSend`; `FetchStats`, `FetchCheck`,
`FetchTruncate`, `FetchWrite`; `Delete`. As long as `MaxFailures` allows, a store or
a delete fails before it has an effect (`CallFails`), a transfer breaks off
(`StoreBreaks`, `FetchBreaks`), and a fetch gets no first message
(`FetchUnanswered`): its first `Read` is not looked at (224), so the checksum it
compares is 0 and a missing or empty local file counts as present, while any other
one is emptied, also one equal to the server's. The watcher is `ReadEvents`, `WatcherLock`, `Dispatch`,
`WatcherUnlock`; the async thread is `SyncStart`, `SyncEntry`, `SyncExtra`,
`SyncEnd`, `SyncNotOk`. `CallbackList` is entry by entry: `ListOpen` takes the
names (a directory of a few files is read in one piece), then each file is
looked up (`ListStat`), and since nobody checks whether `stat` worked, a file
that vanished gets the date of the entry before it or 0; then it is summed
(`ListSum`), by when it may have changed again; `ListReply` sends the listing.
The names and dates of the mount's own files are taken in one step (`SyncStart`).

The server is taken in the large: a store takes the lock, compares and truncates
in one step (`StoreBegin`) and writes in the next; the interleavings inside are
`DFSServer`'s subject. A transfer of a file is at most two writes, so that events can show
its beginning and its end. Empty and missing files have the same checksum, as in
the code. `newest` is not in the code: it is the content that was modified last,
and the properties compare with it.

### DFSPart1

A call is one record: the client's position (`pc`) and the handler's (`spc`), the
messages under way in either direction (`up`, `down`, at most `Window` of them),
and what either end remembers.

| code | actions |
|---|---|
| a command of the client program | `Start` |
| `Store`: the name, each `read`/`Write`, `WritesDone` | `StoreHeader`, `StoreChunk`, `StoreDone` |
| `Fetch`: open, the message with the stats, each `Read`/`write`, close | `FetchOpen`, `FetchFirst`, `FetchUnopened`, `FetchChunk`, `FetchEnd` |
| `List`: each `Read`, its end | `ListEntry`, `ListEnd` |
| `Finish` and what becomes of the status | `Finish` |
| the deadline; the signal handler | `Deadline`, `HandleSignal` |
| entry of every handler, `IsCancelled` | `Begin` |
| `store_file` with `write_to_file` | `ReadHeader`, `OpenForWrite`, `OpenFails`, `WriteChunk`, `EndOfStream`, `StatAfterWrite` |
| `fetch_file` with `read_file` | `FetchStat`, `OpenForRead`, `ReadChunk`, `ReadEnd` |
| `delete_file`, `stat_file` | `Remove`, `StatFile` |
| `list_file`: `opendir`, each `readdir`, each `stat` and `Write`, the end | `OpenDir`, `ReadDir`, `StatEntry`, `ReadDirEnd` |
| the server process dies | `Crash` |

`Write` waits while the stream is full, and is thrown away when the other end is
gone, which nobody looks at; `Read` waits for a message or for the end, and does
not tell a broken stream from one that ended. What is under way when a call
breaks off is lost; what is under way when the handler returned is still
delivered. A full chunk is written at once, at the writer's own position; a small
one (`SmallTail`) waits in the stream's buffer for `close()`, whose failure goes
unnoticed (`lost`). A `read` that comes up short ends `read_file`'s loop for good,
even if another store makes the file longer right after it (`read_end`). A user gives commands in one directory one after the other,
and does not edit the files meanwhile. `due` and `ever` are what POSIX says of
`readdir`: files there all the time are read, files that came or went may be.
`stat`'s result is not looked at here, either: an entry's date is the file it
was taken of. `ClientWaits` and `HandlerWaits` collect, from the guards, where either end
waits: for room in its stream, for a message or the stream's end, for the status. Part 2's `List` and `Stat` and its `list_file` are the same code, and so
are, around the locks, the transfers.

## 3. The runs

| run | instance | shows |
|---|---|---|
| `Locking` | 2 clients, 1 file, 3 calls of 4 kinds, versions of 1 and 2 chunks; 4.4 million states | `LockProtectsStore`, `AckedStoreIsWhole`, `HolderReadsStableFile` |
| `AllOps` | 2 clients, 1 file, 2 calls of all kinds, failing disk, 1 restart, fairness | `TypeOK`, `LockAccounted`, `AckedStoreIsWhole`, `LocksSpec`, `EveryCallReturns` |
| `CallData` | 2 workers, 1 client that is cut off up to 2 times and calls again, 7 addresses; 3.3 million states | `TypeOK`, `OneOwner`, `SlotsConserved`, `ServedHasOneHandler`, `InstancesBounded` |
| `Answered` | 1 worker, 2 clients that call again and again, 1 call cut off, fairness | `CallsAnswered` |
| `Checksum` | files of 0 to 6 bytes of 2 values, chunks of at most 4, CRC-32, fairness | `TypeOK`, `NoGarbageFed`, `CrcOfFed`, `SumOfWholeFile`, `ChecksumEnds` |
| `MountSync` | 1 client, 2 files (one the watcher ignores), any contents and dates, fairness | `NewestSurvives`, `OneThreadCalls`, `ThreadsProgress` |
| `Converge` | 1 client, 1 file of 2 initial versions, 2 edits, 1 failed or broken call, fairness; 750 thousand states | `TypeOK`, `NoFragmentStored`, `Converges` |
| `Part1` | 2 calls of all kinds from 2 directories, 1 file, a second one to be listed and deleted, failing disks, deadlines, interrupts, 1 restart; 1.1 million states | `TypeOK`, `ChunksInPlace`, `NoneWaitsForEver`, `OnlyWaitsStop`, `OkStoreIsWhole`, `OkFetchIsWhole`, `OkListIsComplete` |
| `TwoWriters`, `OrphanLock`, `SumCollision`, `NewFile` | | disagreements, section 5 |

Why the bounds are enough to be of use:

- Three calls are what it takes for a store to run into another store or a lock,
  with a delete or a fetch, or with a handler that outlived its deadline. Locks are
  per file, handlers work on one file, so one file is the general case. Two
  chunks give every transfer a beginning, a middle and an end. Calls and, where
  no temporal property is checked, clients are symmetric. `Locking` has no disk
  faults, to stay small; there `AckedStoreIsWhole` says that stores are whole, and
  in `AllOps`, where writes fail, that at most the tail is missing.
- `CallData`: two workers can be at any two points of `Proceed`. The bound on
  instances is no restriction: `InstancesBounded` says that with two workers, one
  client and two cut off calls seven are ever in use, which is what the pool has.
  That the client is cut off twice is what tells a bound per call from one per
  client. Two clients are in `Answered`, where the one that is not cut off must be
  answered; in `CallData` they would take over six million states. `MCMalloc`
  hands out a deleted address again at once, which is the worst case for a stale
  reference. `Answered` has one worker, as temporal checking of two is too slow.
- `Checksum`: `DFS_BUFFERSIZE` 4 and sizes 0 to 6 give all cases of the sizes'
  arithmetic: empty, one byte, odd and even below the buffer size, equal to it,
  one and two above it.
- `Part1`: a stream that holds one message makes every `Write` wait for the
  `Read` before it, the worst case for two ends that might wait for each other. The
  server's file takes one message and the clients' two, so that a store over a
  longer or shorter file, and the fetch of a file that shrinks, occur. Two calls
  give every pair of commands, one of which may change what the other works on, at
  every pair of steps; each property is about
  one call and what one other may do to it. Calls and directories are symmetric.
  Lists need a second file, or there is no entry before another one whose date
  could be left over. Two constraints keep this small. `OneFileMoves`: transfers are
  of the first file; the second one is on the server, or is deleted, only together
  with a list and without a restart. `OneChanges`: of two calls one stores or
  deletes, since two that only read have nothing to do with each other. None of the
  properties looks beyond a step, so that the constraints hide nothing but the
  states they name.
- `MaxTime` makes dates tie and differ; `MaxEdits` and `MaxFailures` are what a
  user and the network may do in a run. `MountSync` starts from every pair of
  directories, so that the listing meets all of them and removes files while it is
  being made. `Converge` has one failure, of any call at any step; what a second one
  does is in section 5. It says nothing of two clients: with a clock that stops, two
  writers tie for ever, which is an artefact of the bound.

Every property of a passing run has a mutant in `PROJECT.json`: a plausible bug
in one of the mapped definitions (kept in the modules as "faulty variant") under
which TLC finds that property violated.

### Fairness

- `DFSServer`: weak fairness for a handler's steps that wait for nothing but
  the scheduler, and for `Cancel`, since every client sets a deadline on its
  context. Steps that wait for a client's message (`Attended`) have none: the
  client may be gone. No fairness for arrivals or crashes.
- `DFSCallData`: weak fairness for the workers, the queue thread and gRPC's
  deliveries. `Enqueue` has strong fairness: the queue thread takes
  `queue_mutex` in a busy loop, so the mutex is never free for good, and that a
  waiting worker gets it at all is up to the mutex. `Accept` is strong per client
  as gRPC matches calls in order of arrival. Clients need not call, and no
  connection need break or last.
- `FileChecksum`: the thread that computes it runs.
- `DFSSync`: weak fairness for each thread's steps and calls, and for the
  server's listing, strong for the two actions that wait for `inotify_mutex`. Users
  need not do anything.
- `DFSPart1` states none. `NoneWaitsForEver` and `OnlyWaitsStop` are what fairness
  would need: of two ends at work on a call one does not wait, and one that does not
  wait has a next step, deadline or not. Every step leads its call on, so fairness of
  `Client(k)` and `Handler(k)` ends both.

## 4. The proofs

### Server locks

`DFSServerProofs` and `DFSServerDataProofs` prove, for any sets of clients, files, calls and versions, any
number of chunks, with disk faults and any number of restarts, and under
`ServerAssumption` only (constants have the types one expects, `None` and
`NoClient` differ from what they must be told from, files and calls have different
names, since both name inodes):

| theorem | states |
|---|---|
| `TypeCorrect` | `Spec => []TypeOK` |
| `LocksAccounted` | `Spec => []LockAccounted` |
| `StoreProtected` | `Spec => []LockProtectsStore` |
| `LocksImplemented` | `Spec => LocksSpec` |
| `StoresAreWhole` | `Spec => []AckedStoreIsWhole` |
| `HoldersReadStableFiles` | `Spec => []HolderReadsStableFile` |

The argument. `TypeOK` alone is not inductive: that an action may use a call's
request or its open file depends on where the call is. `Shape` adds `CallShape`,
which says what a call has at each position (a request once it arrived, an open
inode while it reads or writes, a store's version). Each action either moves one
call, changes one call's record or touches shared state, and lemmas for these
three cases keep the proof that every action preserves `Shape` short.

For the locks, `LockInv` adds to `Shape`:

- `OneCallPerClient`: of two busy calls of a client at least one is cancelled,
  which is `Arrive`'s guard. Without it a client's second store could release
  the lock under its first.
- `AcquireOrder`: what `acquire` says of a call that has reached a position, in
  particular that only a call that won is past `acquire` without being lost.
- `LockAccounted` and `LockProtectsStore` themselves, which need each other: the
  first says that a lock's holder is one of the calls the second speaks of, so
  that on an undisturbed file no other call can release it.

The refinement is then a case split on the actions: those that touch the table
map to `Grant`, `Drop`, `Orphan` or `Restart`, the others leave it unchanged.

For the contents, `DataInv` says how far each transfer has come:

- `Names` and `OpenOwn`: a name, and what a call has open, lead to an inode of the
  call's own file, so that calls on different files never share one.
- `Clean`: before its transfer a call has counted, written and read nothing.
- `StoresWhole`: on an undisturbed file a store's inode has exactly the chunks it
  has flushed, and after the last one its version, the tail perhaps excepted.
- `ReadsStable`: what a fetch under the lock has sent is still there.

`LockInv` makes the rest of the argument local: by `LockProtectsStore` and
`OneCallPerClient` nobody else is storing an undisturbed file while a store or a
fetch of the lock's holder works on it (`OneStorer`, `HolderAlone`), so that a step
of one call keeps what the others rely on (`OthersKept`), and each action need
only be looked at for the call that takes it.

### Asynchronous calls

`DFSCallDataProofs` proves every invariant of the run `CallData`, for any pool of
worker threads, any clients, any number of calls and of cut off ones, and under
`CallDataAssumption` only: threads, clients and instances are finite sets, the
allocator returns an instance that is not in use, and numbers of calls, `None`
and names of clients are told apart.

| theorem | states |
|---|---|
| `TypeCorrect` | `Spec => []TypeOK` |
| `InstancesHaveOneOwner` | `Spec => []OneOwner` |
| `CallsHaveOneHandler` | `Spec => []ServedHasOneHandler` |
| `CapacityConserved` | `Spec => []SlotsConserved` |
| `InstancesStayFew` | `Spec => []InstancesBounded` |

The argument has four layers, each inductive given the ones before it:

- `OwnerInv`: which variables a worker uses at which position (`ThreadShape`), that
  no two places outside the workers have the same instance (`ParkedOnce`), and
  that what a worker has is nowhere else and in use (`HeldOnce`).
- `CallInv`: an instance that waits for a call has none (`Unbound`), which status
  an instance has in which place (`Stages`), and that a client whose call was
  accepted has one instance at work for it, and any other client none (`Handlers`).
- `SlotInv`: the instances that are ready for a call (one that a worker has just
  made and one whose call was accepted but not taken up included) and the workers
  that have yet to make their first add up to the number of workers. Only a `Proceed` in `PROCESS` takes an instance out of the first set, and it puts
  the successor there in the same step.
- `CountInv`: an instance in use is ready, in a worker's hands, or the only other
  one of its client or of its cut off call. That there is only one is the hard part:
  a client calls again as soon as it has its answer, while the instance that gave
  it is still on its way to be deleted. The completion queue is first in, first
  out, so that instance is taken up before the client's next one has got as far.
  One that is lost, as its reply could not be sent, is no longer its client's but
  its call's: the client's next call starts with none to its name, and what
  is lost is counted by the calls that were cut off.

The bound itself is a lesson in small instances: one instance per worker and two
per client are enough with two workers, but not with three and a single client
that calls again and again while each of them holds an instance it has yet to delete.

### CRC and checksum

For any widths (`CRCAssumption`) and any parameter set, and for any buffer size,
bytes and file sizes (`ChecksumAssumption`), with the program's table, a
`Table<uint32_t, 32>` of CRC-32 (`WidthAssumption`, `TableAssumption`):

| theorem | states |
|---|---|
| `CRCProofs!UndoFinalizeUndoes` | `UndoFinalize(Finalize(x, p), p) = x` for every CRC `x` |
| `CRCProofs!ZeroIsTheEmptyCrc` | undone, the CRC 0 is the initial value of CRC-32 |
| `CRCProofs!TableGivesTheRemainder` | with the table the remainder is the one computed bit by bit, for all data, when the input is reflected or the CRC as wide as its type |
| `CRCProofs!AppendContinues` | appending `t` to the CRC of `s` gives the CRC of `s \o t`, for a CRC as wide as its type |
| `FileChecksumProofs!TypeCorrect` | `Spec => []TypeOK` |
| `FileChecksumProofs!NothingUnreadIsSummed` | `Spec => []NoGarbageFed` |
| `FileChecksumProofs!WholeFileSummed` | `Spec => []SumOfWholeFile` |
| `FileChecksumProofs!CrcIsTheSum` | `Spec => []CrcOfFed` |

A CRC in parts rests on three facts. What `Finalize` did can be taken back:
reversing bits and `Xor` are their own inverses. The table may replace the bits:
while the steps over a byte run, the bits that have not reached the end of the
remainder only move (`ReflectedStepSplits`, `ForwardStepSplits`), so that what is
subtracted depends on nothing but the byte at that end, and the table has it for
each. And the loop over `s \o t` is the loop over `t` begun where the one over `s`
ended (`RemainderOfConcat`). The last two are inductions over the rounds of a loop.
The library's induction theorems take an operator, which the provers cannot
instantiate, so `SetInduction` states induction for a set of numbers; it follows
from the pigeonhole theorem. `RunExists` and `RunUnique` give from it that
a recursive function over the rounds has the values its equation says. `CrcIsOfFed`
then shows, chunk by chunk, that the code's `crc` is `Calculate(fed, CRC_32)`
whenever `fed` is made of whole buffers (`FedInChunks`).

`NoGarbageFed` is not inductive: after a partial read the buffer is summed whole,
and what lies behind the bytes just read must be known. `Progress` says what size the
buffer has, that the position is 0 until a chunk was read, and that from then on
all of the buffer has been read from the file. The
step that needs it is the first `Read`: it must fill the buffer, and does since
`BufferSize` never exceeds the size of a file that has bytes. With a buffer of
fixed size it would not (the mutant of this property).

### Mounted clients

`DFSSyncProofs`, under `SyncAssumption` (which only gives the constants their
types and tells `None` from everything else):

| theorem | states | for |
|---|---|---|
| `Types` | `Spec => []TypeOK` | any clients, files, edits and broken calls |
| `ThreadsTakeTurns` | `Spec => []OneThreadCalls` | the same |
| `LoneClientStoresNoFragment` | `Spec => []NoFragmentStored` | one client, no empty file at the start |
| `LoneClientLosesNothing` | `Spec => []NewestSurvives` | the same, and no edits, no broken calls |

The hypotheses of the last two are needed, TLC refutes the properties without
them (section 5): with a second client a refused `Fetch` leaves an empty file that
the watcher stores, and an empty file the server lacks is deleted on mounting.

The argument has three layers:

- `ThreadInv`: the types, what a call has at each of its steps (`CallShape`: a
  file; the content it will write), and `OneThreadCalls`. Types need the
  second: what a call writes is what an earlier step of it read.
- `CleanInv`: with one client, all that is in flight is the call of the thread
  that holds the mutex (`Active`). A file that is empty or partial on the server is
  being stored by that call, one that is empty in the mount is being fetched by it or
  is not on the server at all (`Clean`). The second half is what keeps a
  fragment from being stored: a `Store` of an empty file has the checksum of a
  missing one, which the server has already, and so is refused. That the checksum and
  the body a call has read belong together although they are read in different steps
  (`Stores`) is where mutual exclusion comes in.
- `KeptInv`: the content of a file that was modified last goes through stages:
  nothing was done about it yet and the listing, as far as it is made, is right about
  the server (`Fresh`, `Reflects`, `Noted`), so that the date comparison of
  `HandleCallbackList` goes the right way; or the async thread stores or fetches it
  (`Storing`, `Fetching`); or both ends have it (`Same`) and all that is left is
  to show that no echo of the transfer undoes it. No event of a deletion is on its
  way (`Undeleted`), so the watcher only stores, and what it stores is the content
  the server has. A listing made before the transfer does no harm either, since a round
  starts from a listing that was asked for after the round before it.

### Part 1

`DFSPart1Proofs` and `DFSPart1DataProofs`, under `Part1Assumption` (the constants'
types, a window of at least one message, small last chunks only where there is a
chunk, and `None` and the names of files and calls differ from what they must be
told from), for any mounts, files, calls, versions of any length, with failing
disks and any number of crashes:

| theorem | states |
|---|---|
| `CallsAreShaped` | `Spec => []ShapeInv` |
| `ListsAreComplete` | `Spec => OkListIsComplete` |
| `WaitsAreAnswered` | `Spec => []NoneWaitsForEver` |
| `Types` | `Spec => []TypeOK` |
| `ChunksStayInPlace` | `Spec => []ChunksInPlace` |
| `StoresAreWhole` | `Spec => OkStoreIsWhole` |
| `FetchesAreWhole` | `Spec => OkFetchIsWhole` |

The argument:

- `ShapeInv` says what a call has at each position of client and handler: its
  request, an open inode, an open local file, messages of the right kind; and that
  two running commands never share a directory (`MountsApart`). The lemmas with it sort
  the 30 actions by what they are to other calls: the client's steps leave the
  server alone, a handler's steps are at most witnessed (`Watches`), and only `Finish`
  returns OK (`OnlyFinishReturnsOk`).
- `ListInv` follows an entry on its way. From the moment `readdir` gave it, a
  file that is due is the entry in hand, in the stream, or in the client's map, with
  its own date each time (`OnItsWay`, `ListAnswers`). Own dates need `DueThere`: a
  file that is still due is in the directory, so its `stat` works and `temp_stat` is
  not the previous file's.
- `LinkInv` adds to `ShapeInv` what the two ends of a call must know of each other so
  that neither waits in vain (`Link`). A client that waits for the status of a store has
  said `WritesDone`, and one that waits for that of a fetch or a list has seen the
  stream's end, so that its handler has answered already; one that was killed or has
  returned is cancelled, so that its handler waits for nothing; a handler that has
  returned has left a reply, which ends every `Read` and unblocks every `Write` of the
  client. A stream goes one way only, which `ShapeInv` has. A waiting end
  then fixes where the other one can be, and what it would have to wait for contradicts what the
  first one waits for: a store's client waits for room, so the stream has a message for
  the handler, as a window holds at least one; a receiver waits on an empty stream, which
  has room (`WaitsApart`). Every step of either end keeps `Link` of its own call and
  leaves the others' alone (`StepLinks`).
- `DataInv` adds to `ShapeInv` where the chunks under way belong. Sender and
  receiver count chunks; the messages in the stream are those between the two
  counts, each at its place (`StreamPlaced`). A small chunk is the last of its stream, so
  that nothing is written behind one that still waits in the receiver's buffer
  (`SmallLast`). For a fetch that needs the short read to be the end of the
  handler's loop: a store may lengthen the file while it is read, and a handler that
  read on would let the client write the buffered chunk at the wrong place. The
  invariant did not hold until the model had that.
- `WholeInv` adds, for a transfer whose client still waits and whose file no other call
  has touched, which bytes are where: the receiver has written, or buffers, exactly the
  first `taken` chunks of the sender's file (`Received`), the stream has the ones from
  there to `sent` (`Under`), and the client says `WritesDone`, or the handler answers
  OK, only with everything sent. A store's source is the client's own file, which
  stays as it is since a directory has one command at a time; a fetch's source is the
  server's, so there all of it is subject to `alone`. Two more things are needed of the
  server. Inodes are told apart by the file they were made for (`NamesInv`), without
  which a handler that still has a removed file open could be thought to write
  another; and the name still leads to the open file as long as nobody removed it.
  TLC checked `WholeInv` on the instance of the run `Part1` before it was proved.

### Not proved

Only model-checked: the liveness properties (`EveryCallReturns`, `CallsAnswered`,
`ChecksumEnds`, `ThreadsProgress`, `Converges`), since TLAPS does no
fairness, and `OnlyWaitsStop`, which is about `ENABLED`. Every other property of
the passing runs is a theorem. That the operators of `CRC` compute the published
check values is evaluated by TLC, in the assumption of `MCFileChecksum`.

## 5. Where code and documentation disagree

Four disagreements are kept as runs that TLC refutes:

- `TwoWriters`: `docs/part2.md` wants one writer at a time. In `store_file`
  (314) a handler that loses the race in `acquire_file_lock` erases the
  winner's entry and writes as well.
- `OrphanLock`: the server is to track which client holds a lock. The look-up
  without the mutex (121) can leave an entry that names nobody and that only
  a restart, or the release of an overlapping call, removes.
- `SumCollision`: equal checksums are to mean equal files
  (`part2/src/dfs-utils.h:32`). The run compares real CRC-32s, of files far too
  short for CRC-32 itself to collide. `dfs_file_checksum` sums the whole buffer after a partial
  read (87), so bytes of the chunk before it count twice, and files of different
  size feed the CRC the same bytes.
- `NewFile`: deletions come from a client whose user deleted the file. A mounted
  client deletes from the server any listed file it does not have (537), also
  one that another client has just created. `readme-student.md:229-231` describes
  just that, so it is the design that departs from the document.

More of them showed while modelling, and bound what the passing runs can say:

- `lock_file` answers OK with `file_lock` set also when it did not get the lock
  (504, 515); that is the step `EraseWinner`.
- The locks of `fetch_file` (398) and `delete_file` (579) are checked once, not
  held, so a file can be read or removed while another client holds its lock,
  against `readme-student.md:185`. `HolderReadsStableFile` and `AckedStoreIsWhole`
  are what remains true.
- A stream that breaks off or a crash leaves a fragment as the file (`shared` 33),
  against "all write operations are atomic" (`readme-student.md:29`).
- `close()` writes the rest of the buffer after the stream's state was checked
  (`shared` 36-42): a failure then is acknowledged as success. `AckedStoreIsWhole` allows for it, and
  for nothing else.
- Empty and missing files have the checksum 0, so neither `Store` nor `Fetch`
  brings an empty file to the other side (`servernode` 324, `clientnode` 226). With
  an empty file among the initial ones `Converges` fails, and so does
  `NewestSurvives`: mounting a directory with an empty file the server lacks, the
  client calls `Store`, which the server refuses, takes the file as mounted (555)
  and deletes it in the next round. Two failures have the same effect: a `Fetch`
  without a first message empties the local file, the watcher stores it over the
  server's, and once the user has deleted it and that `Delete` has failed, before
  the client counts as mounted, every later `Fetch` finds the missing file equal
  to the server's empty one. `Converge` therefore allows one failure, which the
  code survives.
- `Fetch` does not look at its first `Read` (`clientnode` 224): a call that fails
  there empties a local file that may equal the server's, or reports
  `ALREADY_EXISTS` for a file that is missing. The next listing repairs either.
- With two clients, or with a call that fails during the mount, `NewestSurvives`
  fails: the server's copy carries the date of its arrival (`clientnode` 527), a
  file whose `Store` failed is removed by the next listing (551-555), and a `Fetch`
  that is refused for another client's lock leaves an empty file (232), which the
  watcher then stores over the good one. That last one is also why
  `NoFragmentStored` holds for a single client only.
- `mounted` is set only by a listing that lacks a local file (555), whereas
  `readme-student.md:236` sets it after the first; until then a deletion by the
  user can be undone.
- A fetch the server refuses empties the client's file (232, and
  `part1/dfslib-clientnode-p1.cpp:164`).
- The date of a listed file that was removed before `stat` is another file's
  (`part1/dfslib-servernode-p1.cpp:266`, `servernode` 441 and 546), against
  `docs/part1.md:16`. `ListedDateIsOwn` in `DFSPart1` says what the document says
  and does not hold; `OkListIsComplete` is what remains true.
- Every listing leaks the descriptor of the mount directory (`clientnode` 507);
  when there are no more, `readdir` gets a null pointer.
- The instance whose reply could not be sent is never deleted, since its event
  is not ok (`dfslibx-service-runner.h` 79). A client that was cut off calls again
  (`clientnode` 559-578) and can be cut off again, so these add up over the life of the
  server, one per call that was cut off. `InstancesBounded` says that there
  are no others, and `SlotsConserved` and `CallsAnswered` that the calls that
  follow are accepted and answered all the same.

## 6. State of the plan

The server and its locks came first, as everything else rests on them; then
asynchronous calls, the checksum with its CRC, mounted clients with the listing
entry by entry, and Part 1; then the proofs, in the same order, types first, then
what is stored and read, and freedom from deadlock last. All of it is done. What
could come next is in section 7, first item.

## 7. What is not modelled

- The composition of two mounted clients with the detailed server's steps of a
  store. Two clients already break the properties a composition would be about
  (section 5), the two models meet at the promise that a store under the lock is
  whole, which is proved of the server (`StoresAreWhole`), and the product of the two, of
  which `Locking` alone has 4.4 million states, is beyond what TLC explores.
- Of `CRC.h`, CRCs narrower than a byte, and the little-used parameter sets, which
  are compiled only on request.
- How many bytes make a message: a chunk stands for `BUFFER_SIZE - 1` bytes or for
  what is left at the end of a file.
- `RequestWriteAccess` and the client's side of `Lock`: the first is called by
  nobody, the second sends one request to a handler of `DFSServer`.
- `Unmount` runs from the signal handler immediately before `exit`, and in the
  destructor; it detaches the threads and closes the descriptors of a process
  that ends. For the others that is a client that stops taking steps.
- In Part 1, users who edit a file while a command transfers it, and file names that
  begin with a dot, which listings leave out.
- Option parsing, logging, the build, `submit.py`: they have no state of the
  system's own.
- Time is a clock all share; skew between machines, and time zones of dates,
  are not modelled.
