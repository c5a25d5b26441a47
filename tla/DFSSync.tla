------------------------------ MODULE DFSSync ------------------------------
(***************************************************************************)
(* Mounted clients, part2/dfslib-clientnode-p2 and dfs-client-p2: how the  *)
(* mount directory of each is kept in step with the server's directory.    *)
(* Two threads of a client do that, one at a time under inotify_mutex: the *)
(* watcher (InotifyWatcher) reports what inotify says of the mount, the    *)
(* async thread (HandleCallbackList) compares the mount with a listing the *)
(* server made earlier.  Both use the RPCs Store, Fetch and Delete, which  *)
(* run in several steps between which users, other clients and the server  *)
(* act.                                                                    *)
(*                                                                         *)
(* What the server's handlers do is taken in the large here: a store takes *)
(* the lock, compares and truncates in one step and writes in the next.    *)
(* DFSServer has the steps in between.                                     *)
(***************************************************************************)
EXTENDS Integers, Sequences

CONSTANTS Clients,   \* the mounted clients
          Files,     \* names of files in the mount
          Watched,   \* names with an extension the watcher does not ignore
          Initial,   \* contents the files may start with
          MaxEdits,  \* bound on what the users do
          MaxTime,   \* bound on the clock, in seconds
          MaxFailures, \* bound on the calls that break off
          None       \* no file, nobody

VARIABLES server,   \* the server's directory: name -> file
          lock,     \* the client whose store is writing the file
          local,    \* the mount directories: client -> name -> file
          events,   \* what inotify has yet to tell a client
          batch,    \* events its watcher has read, but not handled
          mutex,    \* the thread that holds its inotify_mutex
          rpc,      \* the call each of its two threads is in
          listing,  \* its CallbackList call
          sync,     \* what HandleCallbackList has left to compare
          mounted,  \* HandleCallbackList's flag of that name
          now,      \* the clock, the same everywhere
          edits,    \* what the users did so far
          failures, \* calls that broke off so far
          newest    \* the content of each file modified last

outside == <<now, edits, failures, newest>>

vars == <<server, lock, local, events, batch, mutex, rpc, listing, sync, mounted,
          outside>>

Threads == {"watcher", "async"}

(* A file's content; every edit makes one that never was.                  *)
Empty == 0
Partial == -1
Edited(n) == 10 + n
Contents == Initial \cup {Empty, Partial} \cup {Edited(n) : n \in 1 .. MaxEdits}

File == [body : Contents, mtime : 0 .. MaxTime]

ASSUME SyncAssumption ==
    /\ Watched \subseteq Files
    /\ Initial \subseteq 0 .. 9
    /\ MaxEdits \in Nat /\ MaxTime \in Nat \ {0}
    /\ MaxFailures \in Nat
    /\ None \notin Clients \cup Files \cup Contents \cup (0 .. MaxTime)
    /\ None \notin Threads
    /\ None \notin File

(* A missing file has the checksum of an empty one.                        *)
Crc(file) == IF file = None THEN Empty ELSE file.body

Event == [kind : {"IN_CREATE", "IN_MODIFY", "IN_DELETE"}, file : Files]

NoCall == [pc |-> "none", file |-> None, crc |-> Empty, body |-> None]

NoSync == [remote |-> {}, storage |-> [f \in Files |-> None], extra |-> FALSE]

Asked == [pc |-> "asked", names |-> {}, entry |-> None, date |-> 0,
          mtime |-> [f \in Files |-> None], crc |-> [f \in Files |-> Empty]]

Copies(s, l, f) == {x \in {s[f]} \cup {l[c][f] : c \in Clients} : x # None}

(* The content modified last: of copies that differ the latest, among      *)
(* equals a client's.  No content is when two clients' are equally late.   *)
NewestOf(s, l, f) ==
    LET latest == {x \in Copies(s, l, f) : \A y \in Copies(s, l, f) : y.mtime <= x.mtime}
        theirs == {x \in latest : \E c \in Clients : x = l[c][f]}
        bodies == {x.body : x \in IF theirs = {} THEN latest ELSE theirs}
    IN IF \E b \in bodies : bodies = {b} THEN CHOOSE b \in bodies : TRUE ELSE None

(* Server and clients start with any directories.                          *)
Init ==
    /\ server \in [Files -> [body : Initial, mtime : 0 .. 1] \cup {None}]
    /\ local \in [Clients -> [Files -> [body : Initial, mtime : 0 .. 1] \cup {None}]]
    /\ newest = [f \in Files |-> NewestOf(server, local, f)]
    /\ lock = [f \in Files |-> None]
    /\ events = [c \in Clients |-> <<>>]
    /\ batch = [c \in Clients |-> <<>>]
    /\ mutex = [c \in Clients |-> None]
    /\ rpc = [c \in Clients |-> [t \in Threads |-> NoCall]]
    /\ listing = [c \in Clients |-> Asked]
    /\ sync = [c \in Clients |-> NoSync]
    /\ mounted = [c \in Clients |-> FALSE]
    /\ now = 1
    /\ edits = 0
    /\ failures = 0

----------------------------------------------------------------------------
(* inotify appends an event, unless it repeats the last one.               *)
Notify(q, kind, f) ==
    LET e == [kind |-> kind, file |-> f] IN
    IF q # <<>> /\ q[Len(q)] = e THEN q ELSE Append(q, e)

Tell(c, kind, f) == events' = [events EXCEPT ![c] = Notify(@, kind, f)]

Idle(c, t) == rpc[c][t].pc = "none"

In(c, t, pc) == rpc[c][t].pc = pc

(* Thread t begins a call, goes on with it, or returns from it.            *)
Call(c, t, pc, f) == rpc' = [rpc EXCEPT ![c][t] = [NoCall EXCEPT !.pc = pc, !.file = f]]
GoOn(c, t, pc) == rpc' = [rpc EXCEPT ![c][t].pc = pc]
Return(c, t) == rpc' = [rpc EXCEPT ![c][t] = NoCall]

----------------------------------------------------------------------------
(* Store.                                                                  *)

StoreSum(c, t) ==
    /\ In(c, t, "store_sum")
    /\ rpc' = [rpc EXCEPT ![c][t] = [@ EXCEPT !.pc = "store_open",
                                              !.crc = Crc(local[c][rpc[c][t].file])]]
    /\ UNCHANGED <<server, lock, local, events, batch, mutex, listing, sync, mounted,
                   outside>>

StoreOpen(c, t) ==
    LET file == local[c][rpc[c][t].file] IN
    /\ In(c, t, "store_open")
    /\ IF file = None
       THEN Return(c, t)
       ELSE rpc' = [rpc EXCEPT ![c][t] = [@ EXCEPT !.pc = "store_begin", !.body = file.body]]
    /\ UNCHANGED <<server, lock, local, events, batch, mutex, listing, sync, mounted,
                   outside>>

(* The server refuses a file another client stores, and one it has already.*)
StoreBegin(c, t) ==
    LET f == rpc[c][t].file IN
    /\ In(c, t, "store_begin")
    /\ IF lock[f] \notin {None, c} \/ Crc(server[f]) = rpc[c][t].crc
       THEN /\ Return(c, t)
            /\ UNCHANGED <<server, lock>>
       ELSE /\ lock' = [lock EXCEPT ![f] = c]
            /\ server' = [server EXCEPT ![f] = [body |-> Empty, mtime |-> now]]
            /\ GoOn(c, t, "store_send")
    /\ UNCHANGED <<local, events, batch, mutex, listing, sync, mounted, outside>>

(* The server writes what the client reads from its file: what it was when *)
(* it was opened, or what a user made of it since.                         *)
StoreSend(c, t) ==
    LET f == rpc[c][t].file IN
    /\ In(c, t, "store_send")
    /\ \E body \in {rpc[c][t].body, Crc(local[c][f])} :
          /\ local[c][f] = None => body = rpc[c][t].body
          /\ server' = IF body = Empty THEN server
                       ELSE [server EXCEPT ![f] = [body |-> body, mtime |-> now]]
    /\ lock' = [lock EXCEPT ![f] = None]
    /\ Return(c, t)
    /\ UNCHANGED <<local, events, batch, mutex, listing, sync, mounted, outside>>

(* The call breaks off while the file is being sent.                       *)
StoreBreaks(c, t) ==
    LET f == rpc[c][t].file IN
    /\ failures < MaxFailures
    /\ failures' = failures + 1
    /\ In(c, t, "store_send")
    /\ \/ UNCHANGED server
       \/ server' = [server EXCEPT ![f] = [body |-> Partial, mtime |-> now]]
    /\ lock' = [lock EXCEPT ![f] = None]
    /\ Return(c, t)
    /\ UNCHANGED <<local, events, batch, mutex, listing, sync, mounted, now, edits,
                   newest>>

----------------------------------------------------------------------------
(* Fetch.                                                                  *)

(* The first message has the server's checksum. When the server lacks the  *)
(* file it sends none: the message stays empty, its checksum is that of an *)
(* empty file, and the call goes on.                                       *)
FetchStats(c, t) ==
    LET f == rpc[c][t].file IN
    /\ In(c, t, "fetch_stats")
    /\ IF Crc(local[c][f]) = Crc(server[f])
       THEN Return(c, t)
       ELSE GoOn(c, t, IF server[f] = None THEN "fetch_truncate" ELSE "fetch_check")
    /\ UNCHANGED <<server, lock, local, events, batch, mutex, listing, sync, mounted,
                   outside>>

(* The call breaks off before the first message. Nothing tells the client  *)
(* this from a file the server lacks: a local file that is missing or      *)
(* empty counts as up to date, any other is opened and so truncated.       *)
FetchUnanswered(c, t) ==
    LET f == rpc[c][t].file IN
    /\ failures < MaxFailures
    /\ failures' = failures + 1
    /\ In(c, t, "fetch_stats")
    /\ IF Crc(local[c][f]) = Empty THEN Return(c, t) ELSE GoOn(c, t, "fetch_truncate")
    /\ UNCHANGED <<server, lock, local, events, batch, mutex, listing, sync, mounted,
                   now, edits, newest>>

(* The server looks at the lock, and sends the file when it is free.       *)
FetchCheck(c, t) ==
    LET f == rpc[c][t].file IN
    /\ In(c, t, "fetch_check")
    /\ rpc' = [rpc EXCEPT ![c][t] =
                 [@ EXCEPT !.pc = "fetch_truncate",
                           !.body = IF lock[f] \in {None, c} /\ server[f] # None
                                    THEN server[f].body ELSE None]]
    /\ UNCHANGED <<server, lock, local, events, batch, mutex, listing, sync, mounted,
                   outside>>

(* Faulty variant: the client goes on when the server sent nothing.        *)
FetchTruncateGoesOn(c, t) ==
    LET f == rpc[c][t].file IN
    /\ In(c, t, "fetch_truncate")
    /\ local' = [local EXCEPT ![c][f] = [body |-> Empty, mtime |-> now]]
    /\ Tell(c, IF local[c][f] = None THEN "IN_CREATE" ELSE "IN_MODIFY", f)
    /\ GoOn(c, t, "fetch_write")
    /\ UNCHANGED <<server, lock, batch, mutex, listing, sync, mounted, outside>>

(* The client opens its file, and so truncates or creates it, before it    *)
(* knows whether there will be anything to write.                          *)
FetchTruncate(c, t) ==
    LET f == rpc[c][t].file IN
    /\ In(c, t, "fetch_truncate")
    /\ local' = [local EXCEPT ![c][f] = [body |-> Empty, mtime |-> now]]
    /\ Tell(c, IF local[c][f] = None THEN "IN_CREATE" ELSE "IN_MODIFY", f)
    /\ IF rpc[c][t].body \in {None, Empty} THEN Return(c, t) ELSE GoOn(c, t, "fetch_write")
    /\ UNCHANGED <<server, lock, batch, mutex, listing, sync, mounted, outside>>

(* Writes go nowhere when the user removed the file in between.            *)
Written(c, t, body) ==
    LET f == rpc[c][t].file IN
    IF local[c][f] = None THEN UNCHANGED <<local, events>>
    ELSE /\ local' = [local EXCEPT ![c][f] = [body |-> body, mtime |-> now]]
         /\ Tell(c, "IN_MODIFY", f)

FetchWrite(c, t) ==
    /\ In(c, t, "fetch_write")
    /\ Written(c, t, rpc[c][t].body)
    /\ Return(c, t)
    /\ UNCHANGED <<server, lock, batch, mutex, listing, sync, mounted, outside>>

FetchBreaks(c, t) ==
    /\ failures < MaxFailures
    /\ failures' = failures + 1
    /\ In(c, t, "fetch_write")
    /\ Written(c, t, Partial) \/ UNCHANGED <<local, events>>
    /\ Return(c, t)
    /\ UNCHANGED <<server, lock, batch, mutex, listing, sync, mounted, now, edits,
                   newest>>

----------------------------------------------------------------------------
(* Delete, and calls that do not reach the server.                         *)
Delete(c, t) ==
    LET f == rpc[c][t].file IN
    /\ In(c, t, "delete")
    /\ server' = IF lock[f] \in {None, c} THEN [server EXCEPT ![f] = None] ELSE server
    /\ Return(c, t)
    /\ UNCHANGED <<lock, local, events, batch, mutex, listing, sync, mounted, outside>>

CallFails(c, t) ==
    /\ failures < MaxFailures
    /\ failures' = failures + 1
    /\ rpc[c][t].pc \in {"store_begin", "delete"}
    /\ Return(c, t)
    /\ UNCHANGED <<server, lock, local, events, batch, mutex, listing, sync, mounted,
                   now, edits, newest>>

Calling(c, t) ==
    \/ StoreSum(c, t)   \/ StoreOpen(c, t)  \/ StoreBegin(c, t)
    \/ StoreSend(c, t)  \/ StoreBreaks(c, t)
    \/ FetchStats(c, t) \/ FetchUnanswered(c, t) \/ FetchCheck(c, t)
    \/ FetchTruncate(c, t) \/ FetchWrite(c, t) \/ FetchBreaks(c, t)
    \/ Delete(c, t)     \/ CallFails(c, t)

----------------------------------------------------------------------------
(* The watcher thread.                                                     *)

(* read(fd) takes all the events there are.                                *)
ReadEvents(c) ==
    /\ events[c] # <<>>
    /\ batch[c] = <<>>
    /\ mutex[c] # "watcher"
    /\ batch' = [batch EXCEPT ![c] = events[c]]
    /\ events' = [events EXCEPT ![c] = <<>>]
    /\ UNCHANGED <<server, lock, local, mutex, rpc, listing, sync, mounted, outside>>

(* Faulty variant: without the lock guard.                                 *)
WatcherLockFree(c) ==
    /\ batch[c] # <<>>
    /\ mutex[c] # "watcher"
    /\ mutex' = [mutex EXCEPT ![c] = "watcher"]
    /\ UNCHANGED <<server, lock, local, events, batch, rpc, listing, sync, mounted,
                   outside>>

(* InotifyWatcherCallback handles the batch under inotify_mutex.           *)
WatcherLock(c) ==
    /\ batch[c] # <<>>
    /\ mutex[c] = None
    /\ mutex' = [mutex EXCEPT ![c] = "watcher"]
    /\ UNCHANGED <<server, lock, local, events, batch, rpc, listing, sync, mounted,
                   outside>>

(* InotifyEventCallback: created and modified files are stored, deleted    *)
(* ones deleted, whatever happened to the file since.                      *)
Dispatch(c) ==
    LET e == Head(batch[c]) IN
    /\ mutex[c] = "watcher"
    /\ Idle(c, "watcher")
    /\ batch[c] # <<>>
    /\ batch' = [batch EXCEPT ![c] = Tail(@)]
    /\ IF e.file \notin Watched THEN UNCHANGED rpc
       ELSE Call(c, "watcher", IF e.kind = "IN_DELETE" THEN "delete" ELSE "store_sum", e.file)
    /\ UNCHANGED <<server, lock, local, events, mutex, listing, sync, mounted, outside>>

WatcherUnlock(c) ==
    /\ mutex[c] = "watcher"
    /\ Idle(c, "watcher")
    /\ batch[c] = <<>>
    /\ mutex' = [mutex EXCEPT ![c] = None]
    /\ UNCHANGED <<server, lock, local, events, batch, rpc, listing, sync, mounted,
                   outside>>

----------------------------------------------------------------------------
(* CallbackList: the server reads its directory, then stats one entry      *)
(* after the other and computes its checksum.                              *)
ListOpen(c) ==
    /\ listing[c].pc = "asked"
    /\ listing' = [listing EXCEPT ![c] = [@ EXCEPT
                     !.pc = "list", !.names = {f \in Files : server[f] # None}]]
    /\ UNCHANGED <<server, lock, local, events, batch, mutex, rpc, sync, mounted,
                   outside>>

(* stat's result is not looked at: an entry whose file is gone by now gets *)
(* the date of the entry before, or of 1970.                               *)
ListStat(c, f) ==
    LET date == IF server[f] = None THEN listing[c].date ELSE server[f].mtime IN
    /\ listing[c].pc = "list"
    /\ listing[c].entry = None
    /\ f \in listing[c].names
    /\ listing' = [listing EXCEPT ![c] = [@ EXCEPT
                     !.entry = f, !.date = date, !.mtime[f] = date]]
    /\ UNCHANGED <<server, lock, local, events, batch, mutex, rpc, sync, mounted,
                   outside>>

ListSum(c, f) ==
    /\ listing[c].pc = "list"
    /\ listing[c].entry = f
    /\ listing' = [listing EXCEPT ![c].names = @ \ {f}, ![c].entry = None,
                                  ![c].crc[f] = Crc(server[f])]
    /\ UNCHANGED <<server, lock, local, events, batch, mutex, rpc, sync, mounted,
                   outside>>

ListReply(c) ==
    /\ listing[c].pc = "list"
    /\ listing[c].names = {}
    /\ listing' = [listing EXCEPT ![c] = [@ EXCEPT !.pc = "replied", !.date = 0]]
    /\ UNCHANGED <<server, lock, local, events, batch, mutex, rpc, sync, mounted,
                   outside>>

----------------------------------------------------------------------------
(* The async thread: HandleCallbackList.                                   *)

(* It takes the mutex and notes the names and dates of the local files.    *)
SyncStart(c) ==
    /\ listing[c].pc = "replied"
    /\ mutex[c] = None
    /\ mutex' = [mutex EXCEPT ![c] = "async"]
    /\ sync' = [sync EXCEPT ![c] =
                  [remote  |-> {f \in Files : listing[c].mtime[f] # None},
                   storage |-> [f \in Files |->
                                  IF local[c][f] = None THEN None ELSE local[c][f].mtime],
                   extra   |-> FALSE]]
    /\ UNCHANGED <<server, lock, local, events, batch, rpc, listing, mounted, outside>>

(* Faulty variant: the older file replaces the newer one.                  *)
SyncEntryOlder(c, f) ==
    LET s == sync[c]
        l == listing[c]
    IN
    /\ mutex[c] = "async"
    /\ Idle(c, "async")
    /\ f \in s.remote
    /\ sync' = [sync EXCEPT ![c].remote = @ \ {f}, ![c].storage[f] = None]
    /\ IF s.storage[f] = None
       THEN Call(c, "async", IF mounted[c] THEN "delete" ELSE "fetch_stats", f)
       ELSE IF l.crc[f] = Crc(local[c][f]) THEN UNCHANGED rpc
       ELSE Call(c, "async", IF l.mtime[f] < s.storage[f] THEN "fetch_stats" ELSE "store_sum", f)
    /\ UNCHANGED <<server, lock, local, events, batch, mutex, listing, mounted, outside>>

(* Faulty variant: entries the mount lacks are left alone.                 *)
SyncEntryKnown(c, f) ==
    LET s == sync[c]
        l == listing[c]
    IN
    /\ mutex[c] = "async"
    /\ Idle(c, "async")
    /\ f \in s.remote
    /\ sync' = [sync EXCEPT ![c].remote = @ \ {f}, ![c].storage[f] = None]
    /\ IF s.storage[f] = None \/ l.crc[f] = Crc(local[c][f]) THEN UNCHANGED rpc
       ELSE Call(c, "async", IF l.mtime[f] > s.storage[f] THEN "fetch_stats" ELSE "store_sum", f)
    /\ UNCHANGED <<server, lock, local, events, batch, mutex, listing, mounted, outside>>

(* One entry of the listing.  The checksum is compared with the file's of  *)
(* this moment, the date with the one noted at the start.                  *)
SyncEntry(c, f) ==
    LET s == sync[c]
        l == listing[c]
    IN
    /\ mutex[c] = "async"
    /\ Idle(c, "async")
    /\ f \in s.remote
    /\ sync' = [sync EXCEPT ![c].remote = @ \ {f}, ![c].storage[f] = None]
    /\ IF s.storage[f] = None
       THEN Call(c, "async", IF mounted[c] THEN "delete" ELSE "fetch_stats", f)
       ELSE IF l.crc[f] = Crc(local[c][f]) THEN UNCHANGED rpc
       ELSE Call(c, "async", IF l.mtime[f] > s.storage[f] THEN "fetch_stats" ELSE "store_sum", f)
    /\ UNCHANGED <<server, lock, local, events, batch, mutex, listing, mounted,
                   outside>>

(* One local file the listing does not have.                               *)
SyncExtra(c, f) ==
    LET s == sync[c] IN
    /\ mutex[c] = "async"
    /\ Idle(c, "async")
    /\ s.remote = {}
    /\ s.storage[f] # None
    /\ sync' = [sync EXCEPT ![c] = [@ EXCEPT !.storage[f] = None, !.extra = TRUE]]
    /\ IF ~mounted[c]
       THEN /\ Call(c, "async", "store_sum", f)
            /\ UNCHANGED <<local, events>>
       ELSE /\ local' = [local EXCEPT ![c][f] = None]
            /\ IF local[c][f] = None THEN UNCHANGED events ELSE Tell(c, "IN_DELETE", f)
            /\ UNCHANGED rpc
    /\ UNCHANGED <<server, lock, batch, mutex, listing, mounted, outside>>

(* Faulty variant: the mutex is not released.                              *)
SyncEndKeepsMutex(c) ==
    /\ mutex[c] = "async"
    /\ Idle(c, "async")
    /\ sync[c].remote = {}
    /\ \A f \in Files : sync[c].storage[f] = None
    /\ mounted' = [mounted EXCEPT ![c] = @ \/ sync[c].extra]
    /\ listing' = [listing EXCEPT ![c] = Asked]
    /\ sync' = [sync EXCEPT ![c] = NoSync]
    /\ UNCHANGED <<server, lock, local, events, batch, mutex, rpc, outside>>

(* mounted is set when there was such a file.  The next listing is asked   *)
(* for.                                                                    *)
SyncEnd(c) ==
    /\ mutex[c] = "async"
    /\ Idle(c, "async")
    /\ sync[c].remote = {}
    /\ \A f \in Files : sync[c].storage[f] = None
    /\ mounted' = [mounted EXCEPT ![c] = @ \/ sync[c].extra]
    /\ mutex' = [mutex EXCEPT ![c] = None]
    /\ listing' = [listing EXCEPT ![c] = Asked]
    /\ sync' = [sync EXCEPT ![c] = NoSync]
    /\ UNCHANGED <<server, lock, local, events, batch, rpc, outside>>

(* The call failed: the thread sleeps and asks again.                      *)
SyncNotOk(c) ==
    /\ failures < MaxFailures
    /\ failures' = failures + 1
    /\ mutex[c] = None
    /\ listing[c] # Asked
    /\ listing' = [listing EXCEPT ![c] = Asked]
    /\ UNCHANGED <<server, lock, local, events, batch, mutex, rpc, sync, mounted, now,
                   edits, newest>>

----------------------------------------------------------------------------
(* Users and time.                                                         *)
UserWrites(c, f) ==
    LET q == IF local[c][f] = None THEN Notify(events[c], "IN_CREATE", f) ELSE events[c] IN
    /\ edits < MaxEdits
    /\ edits' = edits + 1
    /\ local' = [local EXCEPT ![c][f] = [body |-> Edited(edits + 1), mtime |-> now]]
    /\ events' = [events EXCEPT ![c] = Notify(q, "IN_MODIFY", f)]
    /\ newest' = [newest EXCEPT ![f] = Edited(edits + 1)]
    /\ UNCHANGED <<server, lock, batch, mutex, rpc, listing, sync, mounted, now,
                   failures>>

UserDeletes(c, f) ==
    /\ edits < MaxEdits
    /\ local[c][f] # None
    /\ edits' = edits + 1
    /\ local' = [local EXCEPT ![c][f] = None]
    /\ Tell(c, "IN_DELETE", f)
    /\ newest' = [newest EXCEPT ![f] = None]
    /\ UNCHANGED <<server, lock, batch, mutex, rpc, listing, sync, mounted, now,
                   failures>>

Tick ==
    /\ now < MaxTime
    /\ now' = now + 1
    /\ UNCHANGED <<server, lock, local, events, batch, mutex, rpc, listing, sync,
                   mounted, edits, failures, newest>>

----------------------------------------------------------------------------
Watcher(c) == ReadEvents(c) \/ Dispatch(c) \/ WatcherUnlock(c)

Async(c) ==
    \/ \E f \in Files : SyncEntry(c, f) \/ SyncExtra(c, f)
    \/ SyncEnd(c) \/ SyncNotOk(c)

List(c) ==
    \/ ListOpen(c)
    \/ \E f \in Files : ListStat(c, f) \/ ListSum(c, f)
    \/ ListReply(c)

Next ==
    \/ \E c \in Clients :
          \/ \E t \in Threads : Calling(c, t)
          \/ Watcher(c) \/ WatcherLock(c)
          \/ Async(c) \/ SyncStart(c)
          \/ List(c)
          \/ \E f \in Files : UserWrites(c, f) \/ UserDeletes(c, f)
    \/ Tick

Spec == Init /\ [][Next]_vars

(* Threads run, calls are answered, and a thread that wants inotify_mutex  *)
(* gets it sooner or later. Nobody has to edit a file.                     *)
Fairness ==
    \A c \in Clients :
        /\ \A t \in Threads : WF_vars(Calling(c, t))
        /\ WF_vars(Watcher(c)) /\ SF_vars(WatcherLock(c))
        /\ WF_vars(Async(c)) /\ SF_vars(SyncStart(c))
        /\ WF_vars(List(c))

FairSpec == Spec /\ Fairness

----------------------------------------------------------------------------
(* Properties.                                                             *)

(* Every variable has its type.                                            *)
TypeOK ==
    /\ server \in [Files -> File \cup {None}]
    /\ lock \in [Files -> Clients \cup {None}]
    /\ local \in [Clients -> [Files -> File \cup {None}]]
    /\ events \in [Clients -> Seq(Event)]
    /\ batch \in [Clients -> Seq(Event)]
    /\ mutex \in [Clients -> Threads \cup {None}]
    /\ rpc \in [Clients -> [Threads -> [
         pc : {"none", "store_sum", "store_open", "store_begin", "store_send",
               "fetch_stats", "fetch_check", "fetch_truncate", "fetch_write", "delete"},
         file : Files \cup {None}, crc : Contents, body : Contents \cup {None}]]]
    /\ listing \in [Clients -> [
         pc : {"asked", "list", "replied"}, names : SUBSET Files,
         entry : Files \cup {None}, date : 0 .. MaxTime, mtime : [Files -> 0 .. MaxTime \cup {None}],
         crc : [Files -> Contents]]]
    /\ sync \in [Clients -> [
         remote : SUBSET Files, storage : [Files -> 0 .. MaxTime \cup {None}], extra : BOOLEAN]]
    /\ mounted \in [Clients -> BOOLEAN]
    /\ now \in 1 .. MaxTime
    /\ edits \in 0 .. MaxEdits
    /\ failures \in 0 .. MaxFailures
    /\ newest \in [Files -> Contents \cup {None}]

(* The two threads of a client never work on the mount at the same time:   *)
(* the one that is in a call holds inotify_mutex until the call returned.  *)
OneThreadCalls ==
    \A c \in Clients, t \in Threads : rpc[c][t].pc # "none" => mutex[c] = t

(* The content modified last is never lost: some directory has it.         *)
NewestSurvives ==
    \A f \in Files : newest[f] # None =>
        \E x \in Copies(server, local, f) : x.body = newest[f]

(* As long as no call has broken off, a file at rest on the server is never *)
(* the empty or partial file that a thread leaves behind while it works on *)
(* the mount.                                                              *)
NoFragmentStored ==
    \A f \in Files :
        failures = 0 /\ server[f] # None /\ lock[f] = None
        => server[f].body \notin {Empty, Partial}

InSync == \A c \in Clients, f \in Files :
    /\ (server[f] = None) = (local[c][f] = None)
    /\ Crc(server[f]) = Crc(local[c][f])

(* Once its user leaves it alone and calls no longer break off, the mount  *)
(* of a single client and the server's directory become equal and stay so: *)
(* echoes of the client's own writes die out, stale listings and half-done *)
(* transfers are made up for.                                              *)
Converges == <>[]InSync

(* Each of a client's threads gets on with its work: what the watcher read *)
(* is handled, and so is every listing, although inotify_mutex is held     *)
(* across calls to the server.                                             *)
ThreadsProgress ==
    \A c \in Clients :
        /\ batch[c] # <<>> ~> batch[c] = <<>>
        /\ listing[c].pc = "replied" ~> listing[c].pc = "asked"

----------------------------------------------------------------------------
(* What the documentation says of the system, and the clients do not do.   *)

(* docs/part2.md:17: deletions are initiated by clients' users, so a file  *)
(* nobody deleted does not vanish from the server.                         *)
OnlyUsersDelete ==
    [][\A f \in Files : server[f] # None /\ server'[f] = None => newest[f] = None]_vars
=============================================================================
