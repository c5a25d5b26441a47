--------------------------- MODULE DFSSyncProofs ---------------------------
(***************************************************************************)
(* Theorems about DFSSync: types, the two threads of a client, and that a  *)
(* lone client leaves no fragment of a file on the server.                 *)
(***************************************************************************)
EXTENDS DFSSync, SequenceTheorems, TLAPS

Pcs == {"none", "store_sum", "store_open", "store_begin", "store_send",
        "fetch_stats", "fetch_check", "fetch_truncate", "fetch_write", "delete"}

CallRecord == [pc : Pcs, file : Files \cup {None}, crc : Contents, body : Contents \cup {None}]

ListingRecord ==
    [pc : {"asked", "list", "replied"}, names : SUBSET Files, entry : Files \cup {None},
     date : 0 .. MaxTime, mtime : [Files -> 0 .. MaxTime \cup {None}], crc : [Files -> Contents]]

SyncRecord ==
    [remote : SUBSET Files, storage : [Files -> 0 .. MaxTime \cup {None}], extra : BOOLEAN]

(* A call is about a file, and has the content it will write.              *)
CallShape(r) ==
    /\ r \in CallRecord
    /\ r.pc # "none" => r.file \in Files
    /\ r.pc \in {"store_begin", "store_send", "fetch_write"} => r.body \in Contents

Dirs ==
    /\ server \in [Files -> File \cup {None}]
    /\ local \in [Clients -> [Files -> File \cup {None}]]

Locks == lock \in [Files -> Clients \cup {None}]

Queues ==
    /\ events \in [Clients -> Seq(Event)]
    /\ batch \in [Clients -> Seq(Event)]

CallsShaped ==
    /\ mutex \in [Clients -> Threads \cup {None}]
    /\ rpc \in [Clients -> [Threads -> CallRecord]]
    /\ \A c \in Clients, t \in Threads : CallShape(rpc[c][t])

Rounds ==
    /\ listing \in [Clients -> ListingRecord]
    /\ sync \in [Clients -> SyncRecord]
    /\ mounted \in [Clients -> BOOLEAN]

Counts ==
    /\ now \in 1 .. MaxTime
    /\ edits \in 0 .. MaxEdits
    /\ failures \in 0 .. MaxFailures
    /\ newest \in [Files -> Contents \cup {None}]

(* Inductive: types, and who holds the mutex.                              *)
ThreadInv ==
    Dirs /\ Locks /\ Queues /\ CallsShaped /\ Rounds /\ Counts /\ OneThreadCalls

LEMMA ContentFacts ==
    /\ Empty \in Contents /\ Partial \in Contents /\ Initial \subseteq Contents
    /\ Empty # Partial
    /\ \A n \in 1 .. MaxEdits : Edited(n) \in Contents /\ Edited(n) \notin {Empty, Partial}
    /\ None \notin Contents
    /\ Partial \notin Initial
  BY SyncAssumption DEF Contents, Empty, Partial, Edited

LEMMA FileFacts ==
    /\ \A b \in Contents, d \in 0 .. MaxTime : [body |-> b, mtime |-> d] \in File
    /\ \A x \in File : x.body \in Contents /\ x.mtime \in 0 .. MaxTime
    /\ \A x \in File \cup {None} : Crc(x) \in Contents
    /\ None \notin File
  BY SyncAssumption, ContentFacts DEF File, Crc

LEMMA NoCallShape == CallShape(NoCall) /\ NoCall.pc = "none"
  BY ContentFacts DEF CallShape, NoCall, CallRecord, Pcs

(* A thread's call changes, and it holds the mutex.                        *)
LEMMA CallChanges ==
  ASSUME CallsShaped, OneThreadCalls, NEW c \in Clients, NEW t \in Threads, NEW r,
         CallShape(r), rpc' = [rpc EXCEPT ![c][t] = r], UNCHANGED mutex,
         mutex[c] = t \/ r.pc = "none"
  PROVE  CallsShaped' /\ OneThreadCalls'
  <1>1. rpc' \in [Clients -> [Threads -> CallRecord]]
    BY DEF CallsShaped, CallShape
  <1>2. \A d \in Clients, u \in Threads : rpc'[d][u] = IF d = c /\ u = t THEN r ELSE rpc[d][u]
    BY DEF CallsShaped
  <1> QED
    BY <1>1, <1>2 DEF CallsShaped, OneThreadCalls

(* An event more in a queue.                                               *)
LEMMA NotifyTyped ==
  ASSUME NEW q \in Seq(Event), NEW f \in Files,
         NEW kind \in {"IN_CREATE", "IN_MODIFY", "IN_DELETE"}
  PROVE  Notify(q, kind, f) \in Seq(Event)
  BY AppendProperties DEF Notify, Event

LEMMA TellTyped ==
  ASSUME Queues, NEW c \in Clients, NEW f \in Files,
         NEW kind \in {"IN_CREATE", "IN_MODIFY", "IN_DELETE"}, Tell(c, kind, f),
         UNCHANGED batch
  PROVE  Queues'
  BY NotifyTyped DEF Queues, Tell

(* A file of the mount changes.                                            *)
LEMMA LocalTyped ==
  ASSUME Dirs, NEW c \in Clients, NEW f \in Files, NEW x \in File \cup {None},
         local' = [local EXCEPT ![c][f] = x], UNCHANGED server
  PROVE  Dirs'
  BY DEF Dirs

LEMMA ServerTyped ==
  ASSUME Dirs, NEW f \in Files, NEW x \in File \cup {None},
         server' = [server EXCEPT ![f] = x], UNCHANGED local
  PROVE  Dirs'
  BY DEF Dirs

----------------------------------------------------------------------------
(* The steps of calls.                                                     *)

LEMMA CallFacts ==
  ASSUME ThreadInv, NEW c \in Clients, NEW t \in Threads
  PROVE  /\ CallShape(rpc[c][t])
         /\ rpc[c][t].pc # "none" => mutex[c] = t /\ rpc[c][t].file \in Files
         /\ \A f \in Files : /\ server[f] \in File \cup {None}
                             /\ local[c][f] \in File \cup {None}
                             /\ lock[f] \in Clients \cup {None}
  BY DEF ThreadInv, CallsShaped, OneThreadCalls, CallShape, Dirs, Locks

(* What begins, goes on or returns has the shape of a call.                *)
LEMMA ReturnShaped ==
  ASSUME ThreadInv, NEW c \in Clients, NEW t \in Threads, Return(c, t), UNCHANGED mutex
  PROVE  CallsShaped' /\ OneThreadCalls'
  BY NoCallShape, CallChanges DEF ThreadInv, Return

LEMMA CallShaped ==
  ASSUME ThreadInv, NEW c \in Clients, NEW t \in Threads, NEW f \in Files,
         NEW pc \in {"store_sum", "fetch_stats", "delete"}, Call(c, t, pc, f),
         mutex[c] = t, UNCHANGED mutex
  PROVE  CallsShaped' /\ OneThreadCalls'
  <1> DEFINE r == [NoCall EXCEPT !.pc = pc, !.file = f]
  <1>1. CallShape(r)
    BY ContentFacts DEF CallShape, NoCall, CallRecord, Pcs
  <1>2. rpc' = [rpc EXCEPT ![c][t] = r]
    BY DEF Call
  <1> HIDE DEF r
  <1> QED
    BY <1>1, <1>2, CallChanges DEF ThreadInv

LEMMA GoOnShaped ==
  ASSUME ThreadInv, NEW c \in Clients, NEW t \in Threads, NEW pc \in Pcs, GoOn(c, t, pc),
         rpc[c][t].pc # "none",
         pc \in {"store_begin", "store_send", "fetch_write"} => rpc[c][t].body \in Contents,
         UNCHANGED mutex
  PROVE  CallsShaped' /\ OneThreadCalls'
  <1> DEFINE r == [rpc[c][t] EXCEPT !.pc = pc]
  <1>1. CallShape(r)
    BY CallFacts DEF CallShape, CallRecord
  <1>2. rpc' = [rpc EXCEPT ![c][t] = r]
    BY DEF GoOn
  <1>3. mutex[c] = t
    BY CallFacts
  <1> HIDE DEF r
  <1> QED
    BY <1>1, <1>2, <1>3, CallChanges DEF ThreadInv

(* A call that took a checksum, and one that read a content.               *)
LEMMA SummedShape ==
  ASSUME NEW s, CallShape(s), s.pc # "none", NEW k \in Contents
  PROVE  CallShape([s EXCEPT !.pc = "store_open", !.crc = k])
  BY DEF CallShape, CallRecord, Pcs

LEMMA ReadShape ==
  ASSUME NEW s, CallShape(s), s.pc # "none", NEW b \in Contents \cup {None},
         NEW pc \in {"store_begin", "fetch_truncate"}, pc = "store_begin" => b \in Contents
  PROVE  CallShape([s EXCEPT !.pc = pc, !.body = b])
  BY DEF CallShape, CallRecord, Pcs

LEMMA StoreSumTyped ==
  ASSUME ThreadInv, NEW c \in Clients, NEW t \in Threads, StoreSum(c, t)
  PROVE  ThreadInv'
  <1> DEFINE r == [rpc[c][t] EXCEPT !.pc = "store_open", !.crc = Crc(local[c][rpc[c][t].file])]
  <1>1. rpc[c][t].pc # "none"
    BY DEF StoreSum, In
  <1>2. Crc(local[c][rpc[c][t].file]) \in Contents
    BY <1>1, CallFacts, FileFacts
  <1>3. CallShape(r)
    BY <1>1, <1>2, CallFacts, SummedShape
  <1>4. rpc' = [rpc EXCEPT ![c][t] = r]
    BY DEF StoreSum
  <1> HIDE DEF r
  <1>5. CallsShaped' /\ OneThreadCalls'
    BY <1>1, <1>3, <1>4, CallFacts, CallChanges DEF ThreadInv, StoreSum
  <1> QED
    BY <1>5 DEF ThreadInv, StoreSum, Dirs, Locks, Queues, Rounds, Counts, outside

LEMMA StoreOpenTyped ==
  ASSUME ThreadInv, NEW c \in Clients, NEW t \in Threads, StoreOpen(c, t)
  PROVE  ThreadInv'
  <1> DEFINE file == local[c][rpc[c][t].file]
             r == [rpc[c][t] EXCEPT !.pc = "store_begin", !.body = file.body]
  <1>1. rpc[c][t].pc # "none"
    BY DEF StoreOpen, In
  <1>2. file # None => file.body \in Contents
    BY <1>1, CallFacts, FileFacts
  <1>3. file # None => CallShape(r)
    BY <1>1, <1>2, CallFacts, ReadShape
  <1>4. IF file = None THEN Return(c, t) ELSE rpc' = [rpc EXCEPT ![c][t] = r]
    BY DEF StoreOpen
  <1>5. UNCHANGED mutex
    BY DEF StoreOpen
  <1> HIDE DEF r, file
  <1>6. CallsShaped' /\ OneThreadCalls'
    BY <1>1, <1>3, <1>4, <1>5, CallFacts, CallChanges, ReturnShaped DEF ThreadInv
  <1> QED
    BY <1>6 DEF ThreadInv, StoreOpen, Dirs, Locks, Queues, Rounds, Counts, outside

LEMMA StoreBeginTyped ==
  ASSUME ThreadInv, NEW c \in Clients, NEW t \in Threads, StoreBegin(c, t)
  PROVE  ThreadInv'
  <1> DEFINE f == rpc[c][t].file
             x == [body |-> Empty, mtime |-> now]
  <1>1. rpc[c][t].pc = "store_begin" /\ f \in Files /\ rpc[c][t].body \in Contents
    BY CallFacts DEF StoreBegin, In, CallShape
  <1>2. x \in File
    BY FileFacts, ContentFacts, SyncAssumption DEF ThreadInv, Counts
  <1>3. \/ Return(c, t) /\ UNCHANGED <<server, lock>>
        \/ /\ lock' = [lock EXCEPT ![f] = c]
           /\ server' = [server EXCEPT ![f] = x]
           /\ GoOn(c, t, "store_send")
    BY DEF StoreBegin
  <1>4. UNCHANGED <<local, events, batch, mutex, listing, sync, mounted, outside>>
    BY DEF StoreBegin
  <1> HIDE DEF f, x
  <1>5. CallsShaped' /\ OneThreadCalls'
    BY <1>1, <1>3, <1>4, ReturnShaped, GoOnShaped DEF Pcs
  <1>6. Dirs'
    BY <1>1, <1>2, <1>3, <1>4, ServerTyped DEF ThreadInv, Dirs
  <1>7. Locks'
    BY <1>1, <1>3, <1>4 DEF ThreadInv, Locks
  <1> QED
    BY <1>4, <1>5, <1>6, <1>7 DEF ThreadInv, Queues, Rounds, Counts, outside

LEMMA StoreSendTyped ==
  ASSUME ThreadInv, NEW c \in Clients, NEW t \in Threads, StoreSend(c, t)
  PROVE  ThreadInv'
  <1> DEFINE f == rpc[c][t].file
  <1>1. rpc[c][t].pc = "store_send" /\ f \in Files /\ rpc[c][t].body \in Contents
    BY CallFacts DEF StoreSend, In, CallShape
  <1>2. Crc(local[c][f]) \in Contents
    BY <1>1, CallFacts, FileFacts
  <1>3. PICK body \in Contents :
          server' = IF body = Empty THEN server
                    ELSE [server EXCEPT ![f] = [body |-> body, mtime |-> now]]
    BY <1>1, <1>2 DEF StoreSend
  <1>4. [body |-> body, mtime |-> now] \in File
    BY FileFacts, SyncAssumption DEF ThreadInv, Counts
  <1>5. /\ UNCHANGED <<local, events, batch, mutex, listing, sync, mounted, outside>>
        /\ lock' = [lock EXCEPT ![f] = None] /\ Return(c, t)
    BY DEF StoreSend
  <1> HIDE DEF f
  <1>6. CallsShaped' /\ OneThreadCalls'
    BY <1>5, ReturnShaped
  <1>7. Dirs'
    BY <1>1, <1>3, <1>4, <1>5, ServerTyped DEF ThreadInv, Dirs
  <1> QED
    BY <1>5, <1>6, <1>7 DEF ThreadInv, Locks, Queues, Rounds, Counts, outside

LEMMA StoreBreaksTyped ==
  ASSUME ThreadInv, NEW c \in Clients, NEW t \in Threads, StoreBreaks(c, t)
  PROVE  ThreadInv'
  <1> DEFINE f == rpc[c][t].file
             x == [body |-> Partial, mtime |-> now]
  <1>1. f \in Files
    BY CallFacts DEF StoreBreaks, In
  <1>2. x \in File
    BY FileFacts, ContentFacts, SyncAssumption DEF ThreadInv, Counts
  <1>3. /\ UNCHANGED <<local, events, batch, mutex, listing, sync, mounted, now, edits, newest>>
        /\ lock' = [lock EXCEPT ![f] = None] /\ Return(c, t)
        /\ server' = server \/ server' = [server EXCEPT ![f] = x]
        /\ failures < MaxFailures /\ failures' = failures + 1
    BY DEF StoreBreaks
  <1> HIDE DEF f, x
  <1>4. CallsShaped' /\ OneThreadCalls'
    BY <1>3, ReturnShaped
  <1>5. Dirs'
    BY <1>1, <1>2, <1>3, ServerTyped DEF ThreadInv, Dirs
  <1>6. Counts'
    BY <1>3, SyncAssumption DEF ThreadInv, Counts
  <1> QED
    BY <1>3, <1>4, <1>5, <1>6 DEF ThreadInv, Locks, Queues, Rounds

LEMMA FetchStatsTyped ==
  ASSUME ThreadInv, NEW c \in Clients, NEW t \in Threads, FetchStats(c, t)
  PROVE  ThreadInv'
  <1>1. rpc[c][t].pc # "none"
    BY DEF FetchStats, In
  <1>2. Return(c, t) \/ \E pc \in {"fetch_truncate", "fetch_check"} : GoOn(c, t, pc)
    BY DEF FetchStats
  <1>3. UNCHANGED mutex
    BY DEF FetchStats
  <1>4. CallsShaped' /\ OneThreadCalls'
    BY <1>1, <1>2, <1>3, ReturnShaped, GoOnShaped DEF Pcs
  <1> QED
    BY <1>4 DEF ThreadInv, FetchStats, Dirs, Locks, Queues, Rounds, Counts, outside

LEMMA FetchUnansweredTyped ==
  ASSUME ThreadInv, NEW c \in Clients, NEW t \in Threads, FetchUnanswered(c, t)
  PROVE  ThreadInv'
  <1>1. rpc[c][t].pc # "none"
    BY DEF FetchUnanswered, In
  <1>2. Return(c, t) \/ GoOn(c, t, "fetch_truncate")
    BY DEF FetchUnanswered
  <1>3. UNCHANGED mutex
    BY DEF FetchUnanswered
  <1>4. CallsShaped' /\ OneThreadCalls'
    BY <1>1, <1>2, <1>3, ReturnShaped, GoOnShaped DEF Pcs
  <1>5. Counts'
    BY SyncAssumption DEF ThreadInv, Counts, FetchUnanswered
  <1> QED
    BY <1>4, <1>5 DEF ThreadInv, FetchUnanswered, Dirs, Locks, Queues, Rounds

LEMMA FetchCheckTyped ==
  ASSUME ThreadInv, NEW c \in Clients, NEW t \in Threads, FetchCheck(c, t)
  PROVE  ThreadInv'
  <1> DEFINE f == rpc[c][t].file
             b == IF lock[f] \in {None, c} /\ server[f] # None THEN server[f].body ELSE None
             r == [rpc[c][t] EXCEPT !.pc = "fetch_truncate", !.body = b]
  <1>1. rpc[c][t].pc # "none"
    BY DEF FetchCheck, In
  <1>2. b \in Contents \cup {None}
    BY <1>1, CallFacts, FileFacts
  <1>3. rpc' = [rpc EXCEPT ![c][t] = r] /\ UNCHANGED mutex
    BY DEF FetchCheck
  <1> HIDE DEF b
  <1>4. CallShape(r)
    BY <1>1, <1>2, CallFacts, ReadShape
  <1> HIDE DEF r
  <1>5. CallsShaped' /\ OneThreadCalls'
    BY <1>1, <1>3, <1>4, CallFacts, CallChanges DEF ThreadInv
  <1> QED
    BY <1>5 DEF ThreadInv, FetchCheck, Dirs, Locks, Queues, Rounds, Counts, outside

LEMMA FetchTruncateTyped ==
  ASSUME ThreadInv, NEW c \in Clients, NEW t \in Threads, FetchTruncate(c, t)
  PROVE  ThreadInv'
  <1> DEFINE f == rpc[c][t].file
             x == [body |-> Empty, mtime |-> now]
  <1>1. rpc[c][t].pc = "fetch_truncate" /\ f \in Files
    BY CallFacts DEF FetchTruncate, In
  <1>2. x \in File
    BY FileFacts, ContentFacts, SyncAssumption DEF ThreadInv, Counts
  <1>3. IF rpc[c][t].body \in {None, Empty} THEN Return(c, t) ELSE GoOn(c, t, "fetch_write")
    BY DEF FetchTruncate
  <1>4. rpc[c][t].body \in Contents \cup {None}
    BY CallFacts DEF CallShape, CallRecord
  <1>5. \E kind \in {"IN_CREATE", "IN_MODIFY", "IN_DELETE"} : Tell(c, kind, f)
    BY DEF FetchTruncate
  <1>6. /\ local' = [local EXCEPT ![c][f] = x]
        /\ UNCHANGED <<server, lock, batch, mutex, listing, sync, mounted, outside>>
    BY DEF FetchTruncate
  <1> HIDE DEF f, x
  <1>7. CallsShaped' /\ OneThreadCalls'
    BY <1>1, <1>3, <1>4, <1>6, ReturnShaped, GoOnShaped DEF Pcs
  <1>8. Queues'
    BY <1>1, <1>5, <1>6, TellTyped DEF ThreadInv
  <1>9. Dirs'
    BY <1>1, <1>2, <1>6, LocalTyped DEF ThreadInv
  <1> QED
    BY <1>6, <1>7, <1>8, <1>9 DEF ThreadInv, Locks, Rounds, Counts, outside

(* What is written to the mount, or is not.                                *)
LEMMA WrittenTyped ==
  ASSUME ThreadInv, NEW c \in Clients, NEW t \in Threads, rpc[c][t].pc # "none",
         NEW body \in Contents, Written(c, t, body) \/ UNCHANGED <<local, events>>,
         UNCHANGED <<server, batch>>
  PROVE  Dirs' /\ Queues'
  <1> DEFINE f == rpc[c][t].file
             x == [body |-> body, mtime |-> now]
  <1>1. f \in Files
    BY CallFacts
  <1>2. x \in File
    BY FileFacts, SyncAssumption DEF ThreadInv, Counts
  <1>3. \/ UNCHANGED <<local, events>>
        \/ local' = [local EXCEPT ![c][f] = x] /\ Tell(c, "IN_MODIFY", f)
    BY DEF Written
  <1> HIDE DEF f, x
  <1>4. CASE UNCHANGED <<local, events>>
    BY <1>4 DEF ThreadInv, Dirs, Queues
  <1>5. CASE local' = [local EXCEPT ![c][f] = x] /\ Tell(c, "IN_MODIFY", f)
    BY <1>1, <1>2, <1>5, LocalTyped, TellTyped DEF ThreadInv
  <1> QED
    BY <1>3, <1>4, <1>5

LEMMA FetchWriteTyped ==
  ASSUME ThreadInv, NEW c \in Clients, NEW t \in Threads, FetchWrite(c, t)
  PROVE  ThreadInv'
  <1>1. rpc[c][t].pc # "none" /\ rpc[c][t].body \in Contents
    BY CallFacts DEF FetchWrite, In, CallShape
  <1>2. Dirs' /\ Queues'
    BY <1>1, WrittenTyped DEF FetchWrite
  <1>3. CallsShaped' /\ OneThreadCalls'
    BY ReturnShaped DEF FetchWrite
  <1> QED
    BY <1>2, <1>3 DEF FetchWrite, ThreadInv, Locks, Rounds, Counts, outside

LEMMA FetchBreaksTyped ==
  ASSUME ThreadInv, NEW c \in Clients, NEW t \in Threads, FetchBreaks(c, t)
  PROVE  ThreadInv'
  <1>1. rpc[c][t].pc # "none"
    BY DEF FetchBreaks, In
  <1>2. Dirs' /\ Queues'
    BY <1>1, WrittenTyped, ContentFacts DEF FetchBreaks
  <1>3. CallsShaped' /\ OneThreadCalls'
    BY ReturnShaped DEF FetchBreaks
  <1>4. Counts'
    BY SyncAssumption DEF ThreadInv, Counts, FetchBreaks
  <1> QED
    BY <1>2, <1>3, <1>4 DEF FetchBreaks, ThreadInv, Locks, Rounds

LEMMA DeleteTyped ==
  ASSUME ThreadInv, NEW c \in Clients, NEW t \in Threads, Delete(c, t)
  PROVE  ThreadInv'
  <1>1. Dirs'
    BY DEF ThreadInv, Dirs, Delete
  <1>2. CallsShaped' /\ OneThreadCalls'
    BY ReturnShaped DEF Delete
  <1> QED
    BY <1>1, <1>2 DEF Delete, ThreadInv, Locks, Queues, Rounds, Counts, outside

LEMMA CallFailsTyped ==
  ASSUME ThreadInv, NEW c \in Clients, NEW t \in Threads, CallFails(c, t)
  PROVE  ThreadInv'
  <1>1. CallsShaped' /\ OneThreadCalls'
    BY ReturnShaped DEF CallFails
  <1>2. Counts'
    BY SyncAssumption DEF ThreadInv, Counts, CallFails
  <1> QED
    BY <1>1, <1>2 DEF CallFails, ThreadInv, Dirs, Locks, Queues, Rounds

----------------------------------------------------------------------------
(* The watcher thread.                                                     *)

LEMMA ReadEventsTyped ==
  ASSUME ThreadInv, NEW c \in Clients, ReadEvents(c)
  PROVE  ThreadInv'
  <1>1. Queues'
    BY DEF ThreadInv, Queues, ReadEvents
  <1> QED
    BY <1>1 DEF ReadEvents, ThreadInv, Dirs, Locks, CallsShaped, OneThreadCalls, Rounds,
                Counts, outside

LEMMA WatcherLockTyped ==
  ASSUME ThreadInv, NEW c \in Clients, WatcherLock(c)
  PROVE  ThreadInv'
  <1>1. \A t \in Threads : rpc[c][t].pc = "none"
    BY SyncAssumption DEF ThreadInv, OneThreadCalls, WatcherLock, Threads
  <1>2. CallsShaped' /\ OneThreadCalls'
    BY <1>1 DEF ThreadInv, CallsShaped, OneThreadCalls, WatcherLock, Threads
  <1> QED
    BY <1>2 DEF WatcherLock, ThreadInv, Dirs, Locks, Queues, Rounds, Counts, outside

LEMMA DispatchTyped ==
  ASSUME ThreadInv, NEW c \in Clients, Dispatch(c)
  PROVE  ThreadInv'
  <1> DEFINE e == Head(batch[c])
  <1>1. e \in Event /\ Tail(batch[c]) \in Seq(Event)
    BY HeadTailProperties DEF Dispatch, ThreadInv, Queues
  <1>2. \/ UNCHANGED rpc
        \/ \E pc \in {"delete", "store_sum"} : Call(c, "watcher", pc, e.file)
    BY DEF Dispatch
  <1>3. e.file \in Files
    BY <1>1 DEF Event
  <1>4. mutex[c] = "watcher" /\ UNCHANGED mutex /\ batch' = [batch EXCEPT ![c] = Tail(@)]
        /\ UNCHANGED <<server, lock, local, events, listing, sync, mounted, outside>>
    BY DEF Dispatch
  <1>5. Queues'
    BY <1>1, <1>4 DEF ThreadInv, Queues
  <1> HIDE DEF e
  <1>6. CASE UNCHANGED rpc
    BY <1>4, <1>5, <1>6 DEF ThreadInv, CallsShaped, OneThreadCalls, Dirs, Locks, Rounds, Counts, outside
  <1>7. CASE \E pc \in {"delete", "store_sum"} : Call(c, "watcher", pc, e.file)
    <2>1. CallsShaped' /\ OneThreadCalls'
      BY <1>3, <1>4, <1>7, CallShaped DEF Threads
    <2> QED
      BY <1>4, <1>5, <2>1 DEF ThreadInv, Dirs, Locks, Rounds, Counts, outside
  <1> QED
    BY <1>2, <1>6, <1>7

LEMMA WatcherUnlockTyped ==
  ASSUME ThreadInv, NEW c \in Clients, WatcherUnlock(c)
  PROVE  ThreadInv'
  <1>1. \A t \in Threads : rpc[c][t].pc = "none"
    BY DEF ThreadInv, OneThreadCalls, WatcherUnlock, Idle, Threads
  <1>2. CallsShaped' /\ OneThreadCalls'
    BY <1>1 DEF ThreadInv, CallsShaped, OneThreadCalls, WatcherUnlock, Threads
  <1> QED
    BY <1>2 DEF WatcherUnlock, ThreadInv, Dirs, Locks, Queues, Rounds, Counts, outside

----------------------------------------------------------------------------
(* The server's listing, and the async thread.                             *)

LEMMA ListOpenTyped ==
  ASSUME ThreadInv, NEW c \in Clients, ListOpen(c)
  PROVE  ThreadInv'
  <1> DEFINE l == [listing[c] EXCEPT !.pc = "list", !.names = {f \in Files : server[f] # None}]
  <1>1. listing[c] \in ListingRecord
    BY DEF ThreadInv, Rounds
  <1>2. l \in ListingRecord
    BY <1>1 DEF ListingRecord
  <1>3. listing' = [listing EXCEPT ![c] = l]
    BY DEF ListOpen
  <1> HIDE DEF l
  <1>4. Rounds'
    BY <1>2, <1>3 DEF ThreadInv, Rounds, ListOpen
  <1> QED
    BY <1>4 DEF ListOpen, ThreadInv, Dirs, Locks, Queues, CallsShaped, OneThreadCalls,
                Counts, outside

LEMMA ListStatTyped ==
  ASSUME ThreadInv, NEW c \in Clients, NEW f \in Files, ListStat(c, f)
  PROVE  ThreadInv'
  <1> DEFINE date == IF server[f] = None THEN listing[c].date ELSE server[f].mtime
             l == [listing[c] EXCEPT !.entry = f, !.date = date, !.mtime[f] = date]
  <1>1. listing[c] \in ListingRecord
    BY DEF ThreadInv, Rounds
  <1>2. date \in 0 .. MaxTime
    BY <1>1, CallFacts, FileFacts DEF ListingRecord, ThreadInv, Dirs
  <1>3. listing' = [listing EXCEPT ![c] = l]
    BY DEF ListStat
  <1> HIDE DEF date
  <1>4. l \in ListingRecord
    BY <1>1, <1>2 DEF ListingRecord
  <1> HIDE DEF l
  <1>5. Rounds'
    BY <1>3, <1>4 DEF ThreadInv, Rounds, ListStat
  <1> QED
    BY <1>5 DEF ListStat, ThreadInv, Dirs, Locks, Queues, CallsShaped, OneThreadCalls,
                Counts, outside

LEMMA SummedEntry ==
  ASSUME NEW l \in ListingRecord, NEW f \in Files, NEW k \in Contents
  PROVE  [l EXCEPT !.names = l.names \ {f}, !.entry = None, !.crc[f] = k] \in ListingRecord
  <1> DEFINE n == l.names \ {f}
             s == [l.crc EXCEPT ![f] = k]
             m == [l EXCEPT !.names = n, !.entry = None, !.crc = s]
  <1>1. n \in SUBSET Files /\ s \in [Files -> Contents]
    BY DEF ListingRecord
  <1>2. [l EXCEPT !.names = l.names \ {f}, !.entry = None, !.crc[f] = k] = m
    BY DEF ListingRecord
  <1> HIDE DEF n, s
  <1> QED
    BY <1>1, <1>2 DEF ListingRecord

LEMMA ListSumTyped ==
  ASSUME ThreadInv, NEW c \in Clients, NEW f \in Files, ListSum(c, f)
  PROVE  ThreadInv'
  <1> DEFINE k == Crc(server[f])
             l == [listing[c] EXCEPT !.names = listing[c].names \ {f}, !.entry = None, !.crc[f] = k]
  <1>1. listing[c] \in ListingRecord
    BY DEF ThreadInv, Rounds
  <1>2. k \in Contents
    BY FileFacts DEF ThreadInv, Dirs
  <1>3. listing' = [listing EXCEPT ![c] = l] /\ UNCHANGED <<sync, mounted>>
    BY DEF ListSum
  <1> HIDE DEF k
  <1>4. l \in ListingRecord
    BY <1>1, <1>2, SummedEntry
  <1> HIDE DEF l
  <1>5. Rounds'
    BY <1>3, <1>4 DEF ThreadInv, Rounds
  <1> QED
    BY <1>5 DEF ListSum, ThreadInv, Dirs, Locks, Queues, CallsShaped, OneThreadCalls,
                Counts, outside

LEMMA ListReplyTyped ==
  ASSUME ThreadInv, NEW c \in Clients, ListReply(c)
  PROVE  ThreadInv'
  <1> DEFINE l == [listing[c] EXCEPT !.pc = "replied", !.date = 0]
  <1>1. listing[c] \in ListingRecord
    BY DEF ThreadInv, Rounds
  <1>2. 0 \in 0 .. MaxTime
    BY SyncAssumption
  <1> HIDE DEF l
  <1>3. l \in ListingRecord
    BY <1>1, <1>2 DEF ListingRecord, l
  <1>4. listing' = [listing EXCEPT ![c] = l]
    BY DEF ListReply, l
  <1>5. Rounds'
    BY <1>3, <1>4 DEF ThreadInv, Rounds, ListReply
  <1> QED
    BY <1>5 DEF ListReply, ThreadInv, Dirs, Locks, Queues, CallsShaped, OneThreadCalls,
                Counts, outside

LEMMA RoundFacts ==
  /\ Asked \in ListingRecord /\ NoSync \in SyncRecord
  /\ \A s \in SyncRecord, f \in Files :
       /\ [s EXCEPT !.remote = s.remote \ {f}, !.storage[f] = None] \in SyncRecord
       /\ [s EXCEPT !.storage[f] = None, !.extra = TRUE] \in SyncRecord
  <1>1. Asked \in ListingRecord /\ NoSync \in SyncRecord
    BY ContentFacts, SyncAssumption DEF Asked, NoSync, ListingRecord, SyncRecord
  <1>2. ASSUME NEW s \in SyncRecord, NEW f \in Files
        PROVE  /\ [s EXCEPT !.remote = s.remote \ {f}, !.storage[f] = None] \in SyncRecord
               /\ [s EXCEPT !.storage[f] = None, !.extra = TRUE] \in SyncRecord
    BY <1>2 DEF SyncRecord
  <1> QED
    BY <1>1, <1>2

LEMMA SyncStartTyped ==
  ASSUME ThreadInv, NEW c \in Clients, SyncStart(c)
  PROVE  ThreadInv'
  <1> DEFINE st == [f \in Files |-> IF local[c][f] = None THEN None ELSE local[c][f].mtime]
             s == [remote |-> {f \in Files : listing[c].mtime[f] # None}, storage |-> st,
                   extra |-> FALSE]
  <1>1. st \in [Files -> 0 .. MaxTime \cup {None}]
    BY FileFacts DEF ThreadInv, Dirs
  <1>2. sync' = [sync EXCEPT ![c] = s]
    BY DEF SyncStart
  <1> HIDE DEF st
  <1>3. s \in SyncRecord
    BY <1>1 DEF SyncRecord
  <1> HIDE DEF s
  <1>4. Rounds'
    BY <1>2, <1>3 DEF ThreadInv, Rounds, SyncStart
  <1>5. \A t \in Threads : rpc[c][t].pc = "none"
    BY SyncAssumption DEF ThreadInv, OneThreadCalls, SyncStart, Threads
  <1>6. CallsShaped' /\ OneThreadCalls'
    BY <1>5 DEF ThreadInv, CallsShaped, OneThreadCalls, SyncStart, Threads
  <1> QED
    BY <1>4, <1>6 DEF SyncStart, ThreadInv, Dirs, Locks, Queues, Counts, outside

LEMMA SyncEntryTyped ==
  ASSUME ThreadInv, NEW c \in Clients, NEW f \in Files, SyncEntry(c, f)
  PROVE  ThreadInv'
  <1> DEFINE s == [sync[c] EXCEPT !.remote = sync[c].remote \ {f}, !.storage[f] = None]
  <1>1. sync' = [sync EXCEPT ![c] = s]
    BY DEF SyncEntry
  <1>2. s \in SyncRecord
    BY RoundFacts DEF ThreadInv, Rounds
  <1> HIDE DEF s
  <1>3. /\ mutex[c] = "async"
        /\ UNCHANGED <<server, lock, local, events, batch, mutex, listing, mounted, outside>>
        /\ \/ UNCHANGED rpc
           \/ \E pc \in {"store_sum", "fetch_stats", "delete"} : Call(c, "async", pc, f)
    BY DEF SyncEntry
  <1>4. Rounds'
    BY <1>1, <1>2, <1>3 DEF ThreadInv, Rounds
  <1>5. CallsShaped' /\ OneThreadCalls'
    <2>1. CASE UNCHANGED rpc
      BY <1>3, <2>1 DEF ThreadInv, CallsShaped, OneThreadCalls
    <2>2. CASE \E pc \in {"store_sum", "fetch_stats", "delete"} : Call(c, "async", pc, f)
      BY <1>3, <2>2, CallShaped DEF Threads
    <2> QED
      BY <1>3, <2>1, <2>2
  <1> QED
    BY <1>3, <1>4, <1>5 DEF ThreadInv, Dirs, Locks, Queues, Counts, outside

LEMMA SyncExtraTyped ==
  ASSUME ThreadInv, NEW c \in Clients, NEW f \in Files, SyncExtra(c, f)
  PROVE  ThreadInv'
  <1> DEFINE s == [sync[c] EXCEPT !.storage[f] = None, !.extra = TRUE]
  <1>1. sync' = [sync EXCEPT ![c] = s]
    BY DEF SyncExtra
  <1>2. s \in SyncRecord
    BY RoundFacts DEF ThreadInv, Rounds
  <1> HIDE DEF s
  <1>3. /\ mutex[c] = "async"
        /\ UNCHANGED <<server, lock, batch, mutex, listing, mounted, outside>>
        /\ \/ Call(c, "async", "store_sum", f) /\ UNCHANGED <<local, events>>
           \/ /\ local' = [local EXCEPT ![c][f] = None]
              /\ UNCHANGED events \/ Tell(c, "IN_DELETE", f)
              /\ UNCHANGED rpc
    BY DEF SyncExtra
  <1>4. Rounds'
    BY <1>1, <1>2, <1>3 DEF ThreadInv, Rounds
  <1>5. CASE Call(c, "async", "store_sum", f) /\ UNCHANGED <<local, events>>
    <2>1. CallsShaped' /\ OneThreadCalls'
      BY <1>3, <1>5, CallShaped DEF Threads
    <2> QED
      BY <1>3, <1>4, <1>5, <2>1 DEF ThreadInv, Dirs, Locks, Queues, Counts, outside
  <1>6. CASE /\ local' = [local EXCEPT ![c][f] = None]
             /\ UNCHANGED events \/ Tell(c, "IN_DELETE", f)
             /\ UNCHANGED rpc
    <2>1. Dirs'
      BY <1>3, <1>6, LocalTyped DEF ThreadInv
    <2>2. Queues'
      BY <1>3, <1>6, TellTyped DEF ThreadInv, Queues
    <2> QED
      BY <1>3, <1>4, <1>6, <2>1, <2>2 DEF ThreadInv, CallsShaped, OneThreadCalls, Locks,
                                         Counts, outside
  <1> QED
    BY <1>3, <1>5, <1>6

LEMMA SyncEndTyped ==
  ASSUME ThreadInv, NEW c \in Clients, SyncEnd(c)
  PROVE  ThreadInv'
  <1>1. \A t \in Threads : rpc[c][t].pc = "none"
    BY DEF ThreadInv, OneThreadCalls, SyncEnd, Idle, Threads
  <1>2. CallsShaped' /\ OneThreadCalls'
    BY <1>1 DEF ThreadInv, CallsShaped, OneThreadCalls, SyncEnd, Threads
  <1>3. Rounds'
    BY RoundFacts DEF ThreadInv, Rounds, SyncEnd, SyncRecord
  <1> QED
    BY <1>2, <1>3 DEF SyncEnd, ThreadInv, Dirs, Locks, Queues, Counts, outside

LEMMA SyncNotOkTyped ==
  ASSUME ThreadInv, NEW c \in Clients, SyncNotOk(c)
  PROVE  ThreadInv'
  <1>1. Rounds'
    BY RoundFacts DEF ThreadInv, Rounds, SyncNotOk
  <1>2. Counts'
    BY SyncAssumption DEF ThreadInv, Counts, SyncNotOk
  <1> QED
    BY <1>1, <1>2 DEF SyncNotOk, ThreadInv, Dirs, Locks, Queues, CallsShaped, OneThreadCalls

----------------------------------------------------------------------------
(* Users and time.                                                         *)

LEMMA UserWritesTyped ==
  ASSUME ThreadInv, NEW c \in Clients, NEW f \in Files, UserWrites(c, f)
  PROVE  ThreadInv'
  <1> DEFINE x == [body |-> Edited(edits + 1), mtime |-> now]
             q == IF local[c][f] = None THEN Notify(events[c], "IN_CREATE", f) ELSE events[c]
  <1>1. edits + 1 \in 1 .. MaxEdits
    BY SyncAssumption DEF ThreadInv, Counts, UserWrites
  <1>2. Edited(edits + 1) \in Contents
    BY <1>1, ContentFacts
  <1>3. x \in File
    BY <1>2, FileFacts, SyncAssumption DEF ThreadInv, Counts
  <1>4. q \in Seq(Event)
    BY NotifyTyped DEF ThreadInv, Queues
  <1>5. local' = [local EXCEPT ![c][f] = x] /\ UNCHANGED server
    BY DEF UserWrites
  <1>6. events' = [events EXCEPT ![c] = Notify(q, "IN_MODIFY", f)] /\ UNCHANGED batch
    BY DEF UserWrites
  <1> HIDE DEF x, q
  <1>7. Dirs'
    BY <1>3, <1>5, LocalTyped DEF ThreadInv
  <1>8. Queues'
    BY <1>4, <1>6, NotifyTyped DEF ThreadInv, Queues
  <1>9. Counts'
    BY <1>1, <1>2 DEF ThreadInv, Counts, UserWrites
  <1> QED
    BY <1>7, <1>8, <1>9 DEF ThreadInv, UserWrites, Locks, CallsShaped, OneThreadCalls, Rounds

LEMMA UserDeletesTyped ==
  ASSUME ThreadInv, NEW c \in Clients, NEW f \in Files, UserDeletes(c, f)
  PROVE  ThreadInv'
  <1>1. Dirs'
    BY LocalTyped DEF ThreadInv, UserDeletes
  <1>2. Queues'
    BY TellTyped DEF ThreadInv, UserDeletes
  <1>3. Counts'
    BY SyncAssumption DEF ThreadInv, Counts, UserDeletes
  <1> QED
    BY <1>1, <1>2, <1>3 DEF ThreadInv, UserDeletes, Locks, CallsShaped, OneThreadCalls, Rounds

LEMMA TickTyped == ThreadInv /\ Tick => ThreadInv'
  <1> SUFFICES ASSUME ThreadInv, Tick PROVE ThreadInv'
    OBVIOUS
  <1>1. Counts'
    BY SyncAssumption DEF ThreadInv, Counts, Tick
  <1> QED
    BY <1>1 DEF ThreadInv, Tick, Dirs, Locks, Queues, CallsShaped, OneThreadCalls, Rounds

----------------------------------------------------------------------------
LEMMA InitTyped == Init => ThreadInv
  <1> SUFFICES ASSUME Init PROVE ThreadInv
    OBVIOUS
  <1>1. [body : Initial, mtime : 0 .. 1] \subseteq File
    <2>1. 0 .. 1 \subseteq 0 .. MaxTime
      BY SyncAssumption
    <2> QED
      BY <2>1, ContentFacts DEF File
  <1>2. Dirs
    BY <1>1 DEF Init, Dirs
  <1>3. \A f \in Files : NewestOf(server, local, f) \in Contents \cup {None}
    <2> SUFFICES ASSUME NEW f \in Files PROVE NewestOf(server, local, f) \in Contents \cup {None}
      OBVIOUS
    <2> DEFINE latest == {x \in Copies(server, local, f) :
                            \A y \in Copies(server, local, f) : y.mtime <= x.mtime}
               theirs == {x \in latest : \E c \in Clients : x = local[c][f]}
               bodies == {x.body : x \in IF theirs = {} THEN latest ELSE theirs}
    <2>1. latest \subseteq File /\ theirs \subseteq File
      BY <1>2 DEF Copies, Dirs
    <2>2. bodies \subseteq Contents
      BY <2>1, FileFacts
    <2>3. NewestOf(server, local, f) \in bodies \cup {None}
      BY DEF NewestOf
    <2> QED
      BY <2>2, <2>3
  <1>4. Counts
    BY <1>3, SyncAssumption DEF Init, Counts
  <1>5. Queues
    BY DEF Init, Queues
  <1>6. CallsShaped /\ OneThreadCalls
    BY NoCallShape DEF Init, CallsShaped, OneThreadCalls, CallShape
  <1>7. Rounds
    BY RoundFacts DEF Init, Rounds
  <1> QED
    BY <1>2, <1>4, <1>5, <1>6, <1>7 DEF Init, ThreadInv, Locks

LEMMA CallingTyped ==
  ASSUME ThreadInv, NEW c \in Clients, NEW t \in Threads, Calling(c, t)
  PROVE  ThreadInv'
  BY StoreSumTyped, StoreOpenTyped, StoreBeginTyped, StoreSendTyped, StoreBreaksTyped,
     FetchStatsTyped, FetchUnansweredTyped, FetchCheckTyped, FetchTruncateTyped,
     FetchWriteTyped, FetchBreaksTyped, DeleteTyped, CallFailsTyped DEF Calling

LEMMA ThreadStep == ThreadInv /\ [Next]_vars => ThreadInv'
  <1> SUFFICES ASSUME ThreadInv, [Next]_vars PROVE ThreadInv'
    OBVIOUS
  <1>1. CASE UNCHANGED vars
    BY <1>1 DEF ThreadInv, vars, outside, Dirs, Locks, Queues, CallsShaped, OneThreadCalls,
                Rounds, Counts
  <1>2. ASSUME NEW c \in Clients, NEW t \in Threads, Calling(c, t) PROVE ThreadInv'
    BY <1>2, CallingTyped
  <1>3. ASSUME NEW c \in Clients, Watcher(c) \/ WatcherLock(c) PROVE ThreadInv'
    BY <1>3, ReadEventsTyped, DispatchTyped, WatcherUnlockTyped, WatcherLockTyped DEF Watcher
  <1>4. ASSUME NEW c \in Clients, Async(c) \/ SyncStart(c) PROVE ThreadInv'
    BY <1>4, SyncEntryTyped, SyncExtraTyped, SyncEndTyped, SyncNotOkTyped, SyncStartTyped
       DEF Async
  <1>5. ASSUME NEW c \in Clients, List(c) PROVE ThreadInv'
    BY <1>5, ListOpenTyped, ListStatTyped, ListSumTyped, ListReplyTyped DEF List
  <1>6. ASSUME NEW c \in Clients, NEW f \in Files, UserWrites(c, f) \/ UserDeletes(c, f)
        PROVE  ThreadInv'
    BY <1>6, UserWritesTyped, UserDeletesTyped
  <1>7. CASE Tick
    BY <1>7, TickTyped
  <1> QED
    BY <1>1, <1>2, <1>3, <1>4, <1>5, <1>6, <1>7 DEF Next

LEMMA ThreadInvariant == Spec => []ThreadInv
  <1> QED
    BY InitTyped, ThreadStep, PTL DEF Spec

(* Every variable has its type, whatever the number of clients, files,     *)
(* edits and calls that break off.                                         *)
THEOREM Types == Spec => []TypeOK
  <1>1. ThreadInv => TypeOK
    BY DEF ThreadInv, TypeOK, Dirs, Locks, Queues, CallsShaped, Rounds, Counts, CallRecord,
           ListingRecord, SyncRecord, Pcs
  <1> QED
    BY <1>1, ThreadInvariant, PTL

(* A thread that is in a call holds its client's inotify_mutex, at every   *)
(* step of the call: the watcher and the async thread never work on the    *)
(* mount at the same time, however their clients' calls interleave.        *)
THEOREM ThreadsTakeTurns == Spec => []OneThreadCalls
  <1>1. ThreadInv => OneThreadCalls
    BY DEF ThreadInv
  <1> QED
    BY <1>1, ThreadInvariant, PTL

----------------------------------------------------------------------------
(* A lone client: what is empty or partial, and where.                     *)

Whole(b) == b \notin {None, Empty, Partial}

Emptied(x) == x # None /\ x.body = Empty

(* What a call r has read, with s the server's directory and l the mount.  *)
(* A checksum taken of a file that was not empty stays one of a file that  *)
(* is not: only a fetch empties a file, and it would hold the mutex.       *)
Stores(s, l, r) ==
    /\ r.pc \in {"store_open", "store_begin", "store_send"} /\ r.crc # Empty
       => ~Emptied(l[r.file])
    /\ r.pc = "store_begin" => r.body # Partial
    /\ r.pc = "store_begin" /\ r.body = Empty => r.crc = Empty /\ s[r.file] = None
    /\ r.pc = "store_send" => Whole(r.body) /\ s[r.file] # None

Fetches(s, r) ==
    /\ r.pc = "fetch_stats" => r.body = None
    /\ r.pc = "fetch_truncate" => r.body # Partial
    /\ r.pc = "fetch_truncate" /\ r.body \in {None, Empty} => s[r.file] = None
    /\ r.pc = "fetch_write" => Whole(r.body)

(* A file on the server is whole unless r is storing it, one in the mount  *)
(* unless r is fetching it or there is none on the server; k the locks.    *)
Clean(s, l, k, r) ==
    /\ \A f \in Files :
         /\ k[f] # None => r.pc = "store_send" /\ r.file = f
         /\ s[f] # None => s[f].body # Partial
         /\ s[f] # None /\ k[f] = None => s[f].body # Empty
         /\ l[f] # None => l[f].body # Partial
         /\ Emptied(l[f]) => s[f] = None \/ (r.pc = "fetch_write" /\ r.file = f)
    /\ Stores(s, l, r)
    /\ Fetches(s, r)

(* The call of the client c that holds its mutex, if any does.             *)
Active(c) == IF mutex[c] \in Threads THEN rpc[c][mutex[c]] ELSE NoCall

CleanInv(c) == failures = 0 => Clean(server, local[c], lock, Active(c))

LEMMA ActiveCall ==
  ASSUME ThreadInv, NEW c \in Clients, NEW t \in Threads, rpc[c][t].pc # "none" \/ mutex[c] = t
  PROVE  /\ Active(c) = rpc[c][t] /\ mutex[c] = t
         /\ \A r : rpc' = [rpc EXCEPT ![c][t] = r] /\ UNCHANGED mutex => Active(c)' = r
  <1>1. mutex[c] = t
    BY DEF ThreadInv, OneThreadCalls
  <1>2. ASSUME NEW r, rpc' = [rpc EXCEPT ![c][t] = r], UNCHANGED mutex
        PROVE  Active(c)' = r
    BY <1>1, <1>2 DEF ThreadInv, CallsShaped, Active
  <1> QED
    BY <1>1, <1>2 DEF Active

(* Calls that have read nothing yet.                                       *)
LEMMA CleanCall ==
  ASSUME NEW s, NEW l, NEW k, NEW r, NEW q, Clean(s, l, k, r),
         r.pc \notin {"store_send", "fetch_write"},
         q.pc \in {"none", "store_sum", "fetch_check", "delete"} \/ (q.pc = "fetch_stats" /\ q.body = None)
  PROVE  Clean(s, l, k, q)
  BY DEF Clean, Stores, Fetches

LEMMA CleanReturn ==
  ASSUME ThreadInv, NEW c \in Clients, NEW t \in Threads, rpc[c][t].pc # "none",
         Return(c, t), UNCHANGED mutex
  PROVE  Active(c)' = NoCall /\ NoCall.pc = "none"
  BY ActiveCall, NoCallShape DEF Return

LEMMA StoreSumClean ==
  ASSUME ThreadInv, NEW c \in Clients, NEW t \in Threads, CleanInv(c), StoreSum(c, t)
  PROVE  CleanInv(c)'
  <1> SUFFICES ASSUME failures' = 0 PROVE Clean(server, local[c], lock, Active(c))'
    BY DEF CleanInv
  <1> DEFINE s == rpc[c][t]
             r == [s EXCEPT !.pc = "store_open", !.crc = Crc(local[c][s.file])]
  <1>1. s.pc = "store_sum" /\ CallShape(s)
    BY CallFacts DEF StoreSum, In
  <1>2. /\ rpc' = [rpc EXCEPT ![c][t] = r]
        /\ UNCHANGED <<server, lock, local, mutex, failures>>
    BY DEF StoreSum, outside
  <1>3. Clean(server, local[c], lock, s)
    BY <1>1, <1>2, ActiveCall DEF CleanInv
  <1>4. Active(c)' = r
    BY <1>1, <1>2, ActiveCall
  <1>5. r.pc = "store_open" /\ r.file = s.file /\ r.crc = Crc(local[c][s.file])
    BY <1>1 DEF CallShape, CallRecord
  <1> HIDE DEF s, r
  <1>6. r.crc # Empty => ~Emptied(local[c][r.file])
    BY <1>5 DEF Crc, Emptied
  <1>7. Clean(server, local[c], lock, r)
    BY <1>1, <1>3, <1>5, <1>6 DEF Clean, Stores, Fetches
  <1> QED
    BY <1>2, <1>4, <1>7

LEMMA StoreOpenClean ==
  ASSUME ThreadInv, NEW c \in Clients, NEW t \in Threads, CleanInv(c), StoreOpen(c, t)
  PROVE  CleanInv(c)'
  <1> SUFFICES ASSUME failures' = 0 PROVE Clean(server, local[c], lock, Active(c))'
    BY DEF CleanInv
  <1> DEFINE s == rpc[c][t]
             file == local[c][s.file]
             r == [s EXCEPT !.pc = "store_begin", !.body = file.body]
  <1>1. s.pc = "store_open" /\ CallShape(s) /\ s.file \in Files
    BY CallFacts DEF StoreOpen, In
  <1>2. /\ IF file = None THEN Return(c, t) ELSE rpc' = [rpc EXCEPT ![c][t] = r]
        /\ UNCHANGED <<server, lock, local, mutex, failures>>
    BY DEF StoreOpen, outside
  <1>3. Clean(server, local[c], lock, s)
    BY <1>1, <1>2, ActiveCall DEF CleanInv
  <1>4. IF file = None THEN Active(c)' = NoCall ELSE Active(c)' = r
    <2> HIDE DEF file, r
    <2>1. CASE file = None
      BY <1>1, <1>2, <2>1, CleanReturn
    <2>2. CASE file # None
      BY <1>1, <1>2, <2>2, ActiveCall
    <2> QED
      BY <2>1, <2>2
  <1>5. /\ r.pc = "store_begin" /\ r.file = s.file /\ r.crc = s.crc
        /\ r.body = local[c][s.file].body
    BY <1>1 DEF CallShape, CallRecord
  <1> HIDE DEF s, r
  <1>6. CASE file = None
    BY <1>1, <1>2, <1>3, <1>4, <1>6, CleanCall, NoCallShape
  <1>7. CASE file # None
    <2>1. r.body # Partial
      BY <1>1, <1>3, <1>5, <1>7 DEF Clean
    <2>2. r.body = Empty => Emptied(local[c][r.file])
      BY <1>5, <1>7 DEF Emptied
    <2>3. r.crc # Empty => ~Emptied(local[c][r.file])
      BY <1>1, <1>3, <1>5 DEF Clean, Stores
    <2>4. r.body = Empty => r.crc = Empty /\ server[r.file] = None
      BY <1>1, <1>3, <1>5, <2>2, <2>3 DEF Clean
    <2>5. Clean(server, local[c], lock, r)
      BY <1>1, <1>3, <1>5, <2>1, <2>3, <2>4 DEF Clean, Stores, Fetches
    <2> QED
      BY <1>2, <1>4, <1>7, <2>5
  <1> QED
    BY <1>6, <1>7

LEMMA StoreBeginClean ==
  ASSUME ThreadInv, NEW c \in Clients, NEW t \in Threads, CleanInv(c), StoreBegin(c, t)
  PROVE  CleanInv(c)'
  <1> SUFFICES ASSUME failures' = 0 PROVE Clean(server, local[c], lock, Active(c))'
    BY DEF CleanInv
  <1> DEFINE s == rpc[c][t]
             f == s.file
             x == [body |-> Empty, mtime |-> now]
             r == [s EXCEPT !.pc = "store_send"]
  <1>1. s.pc = "store_begin" /\ CallShape(s) /\ f \in Files
    BY CallFacts DEF StoreBegin, In
  <1>2. UNCHANGED <<local, mutex, failures>>
    BY DEF StoreBegin, outside
  <1>3. \/ Return(c, t) /\ UNCHANGED <<server, lock>>
        \/ /\ Crc(server[f]) # s.crc
           /\ lock' = [lock EXCEPT ![f] = c]
           /\ server' = [server EXCEPT ![f] = x]
           /\ rpc' = [rpc EXCEPT ![c][t] = r]
    BY DEF StoreBegin, GoOn
  <1>4. Clean(server, local[c], lock, s)
    BY <1>1, <1>2, ActiveCall DEF CleanInv
  <1>5. r.pc = "store_send" /\ r.file = f /\ r.crc = s.crc /\ r.body = s.body
    BY <1>1 DEF CallShape, CallRecord
  <1>6. x \in File /\ x # None /\ x.body = Empty
    BY FileFacts, ContentFacts, SyncAssumption DEF ThreadInv, Counts
  <1>7. s.body \in Contents /\ None \notin Contents /\ Empty # Partial /\ c # None
    BY <1>1, ContentFacts, SyncAssumption DEF CallShape
  <1>8. CASE Return(c, t) /\ UNCHANGED <<server, lock>>
    <2>1. Active(c)' = NoCall
      BY <1>1, <1>2, <1>8, CleanReturn
    <2> QED
      BY <1>1, <1>2, <1>4, <1>8, <2>1, CleanCall, NoCallShape
  <1>9. CASE /\ Crc(server[f]) # s.crc
             /\ lock' = [lock EXCEPT ![f] = c]
             /\ server' = [server EXCEPT ![f] = x]
             /\ rpc' = [rpc EXCEPT ![c][t] = r]
    <2>1. Active(c)' = r
      BY <1>1, <1>2, <1>9, ActiveCall
    <2>2. /\ \A g \in Files : server'[g] = IF g = f THEN x ELSE server[g]
          /\ \A g \in Files : lock'[g] = IF g = f THEN c ELSE lock[g]
      BY <1>1, <1>9 DEF ThreadInv, Dirs, Locks
    <2>3. Whole(r.body)
      BY <1>1, <1>4, <1>5, <1>7, <1>9 DEF Clean, Stores, Whole, Crc
    <2>4. ~Emptied(local[c][f])
      <3>1. CASE server[f] = None
        BY <1>1, <1>4, <1>9, <3>1 DEF Clean, Stores, Crc
      <3>2. CASE server[f] # None
        BY <1>1, <1>4, <3>2 DEF Clean
      <3> QED
        BY <3>1, <3>2
    <2>5. \A g \in Files : lock[g] = None
      BY <1>1, <1>4 DEF Clean
    <2> HIDE DEF s, f, r, x
    <2>6. Clean(server', local[c], lock', r)
      <3>1. Stores(server', local[c], r) /\ Fetches(server', r)
        BY <1>1, <1>5, <1>6, <2>2, <2>3, <2>4 DEF Stores, Fetches
      <3>2. ASSUME NEW g \in Files
            PROVE /\ lock'[g] # None => r.pc = "store_send" /\ r.file = g
                  /\ server'[g] # None => server'[g].body # Partial
                  /\ server'[g] # None /\ lock'[g] = None => server'[g].body # Empty
                  /\ local[c][g] # None => local[c][g].body # Partial
                  /\ Emptied(local[c][g]) => server'[g] = None \/ (r.pc = "fetch_write" /\ r.file = g)
        BY <1>1, <1>4, <1>5, <1>6, <1>7, <2>2, <2>4, <2>5 DEF Clean
      <3> QED
        BY <3>1, <3>2 DEF Clean
    <2> QED
      BY <1>2, <2>1, <2>6
  <1> QED
    BY <1>3, <1>8, <1>9

LEMMA StoreSendClean ==
  ASSUME ThreadInv, NEW c \in Clients, NEW t \in Threads, CleanInv(c), StoreSend(c, t)
  PROVE  CleanInv(c)'
  <1> SUFFICES ASSUME failures' = 0 PROVE Clean(server, local[c], lock, Active(c))'
    BY DEF CleanInv
  <1> DEFINE s == rpc[c][t]
             f == s.file
  <1>1. s.pc = "store_send" /\ CallShape(s) /\ f \in Files
    BY CallFacts DEF StoreSend, In
  <1>2. /\ lock' = [lock EXCEPT ![f] = None] /\ Return(c, t)
        /\ UNCHANGED <<local, mutex, failures, now>>
    BY DEF StoreSend, outside
  <1>3. Clean(server, local[c], lock, s)
    BY <1>1, <1>2, ActiveCall DEF CleanInv
  <1>4. Whole(s.body) /\ server[f] # None /\ ~Emptied(local[c][f])
    BY <1>1, <1>3 DEF Clean, Stores
  <1>5. PICK body \in {s.body, Crc(local[c][f])} :
          /\ local[c][f] = None => body = s.body
          /\ server' = IF body = Empty THEN server
                       ELSE [server EXCEPT ![f] = [body |-> body, mtime |-> now]]
    BY DEF StoreSend
  <1>6. body # Empty /\ body # Partial
    BY <1>1, <1>3, <1>4, <1>5 DEF Clean, Whole, Crc, Emptied
  <1> DEFINE x == [body |-> body, mtime |-> now]
  <1>7. x.body = body
    OBVIOUS
  <1>8. /\ \A g \in Files : server'[g] = IF g = f THEN x ELSE server[g]
        /\ \A g \in Files : lock'[g] = IF g = f THEN None ELSE lock[g]
    BY <1>1, <1>2, <1>5, <1>6 DEF ThreadInv, Dirs, Locks
  <1>9. Active(c)' = NoCall /\ NoCall.pc = "none"
    BY <1>1, <1>2, CleanReturn
  <1> HIDE DEF s, f, x
  <1>10. Stores(server', local[c], NoCall) /\ Fetches(server', NoCall)
    BY <1>9 DEF Stores, Fetches
  <1>11. ASSUME NEW g \in Files
         PROVE  /\ lock'[g] # None => NoCall.pc = "store_send" /\ NoCall.file = g
                /\ server'[g] # None => server'[g].body # Partial
                /\ server'[g] # None /\ lock'[g] = None => server'[g].body # Empty
                /\ local[c][g] # None => local[c][g].body # Partial
                /\ Emptied(local[c][g]) => server'[g] = None \/ (NoCall.pc = "fetch_write" /\ NoCall.file = g)
    BY <1>1, <1>3, <1>4, <1>6, <1>7, <1>8 DEF Clean, f
  <1>12. Clean(server', local[c], lock', NoCall)
    BY <1>10, <1>11 DEF Clean
  <1> QED
    BY <1>2, <1>9, <1>12

(* A broken call is no longer any concern of the invariant.                *)
LEMMA BreaksClean ==
  ASSUME ThreadInv, NEW c \in Clients, NEW d \in Clients, NEW t \in Threads,
         \/ StoreBreaks(d, t) \/ FetchUnanswered(d, t) \/ FetchBreaks(d, t)
         \/ CallFails(d, t) \/ SyncNotOk(d)
  PROVE  CleanInv(c)'
  <1>1. failures' = failures + 1 /\ failures \in Nat
    BY SyncAssumption
       DEF ThreadInv, Counts, StoreBreaks, FetchUnanswered, FetchBreaks, CallFails, SyncNotOk
  <1> QED
    BY <1>1 DEF CleanInv

LEMMA FetchStatsClean ==
  ASSUME ThreadInv, NEW c \in Clients, NEW t \in Threads, CleanInv(c), FetchStats(c, t)
  PROVE  CleanInv(c)'
  <1> SUFFICES ASSUME failures' = 0 PROVE Clean(server, local[c], lock, Active(c))'
    BY DEF CleanInv
  <1> DEFINE s == rpc[c][t]
             pc == IF server[s.file] = None THEN "fetch_truncate" ELSE "fetch_check"
             r == [s EXCEPT !.pc = pc]
  <1>1. s.pc = "fetch_stats" /\ CallShape(s)
    BY CallFacts DEF FetchStats, In
  <1>2. /\ Return(c, t) \/ rpc' = [rpc EXCEPT ![c][t] = r]
        /\ UNCHANGED <<server, lock, local, mutex, failures>>
    BY DEF FetchStats, GoOn, outside
  <1>3. Clean(server, local[c], lock, s)
    BY <1>1, <1>2, ActiveCall DEF CleanInv
  <1>4. r.pc = pc /\ r.file = s.file /\ r.body = s.body
    BY <1>1 DEF CallShape, CallRecord
  <1> HIDE DEF r
  <1>5. CASE Return(c, t)
    BY <1>1, <1>2, <1>3, <1>5, CleanReturn, CleanCall
  <1>6. CASE rpc' = [rpc EXCEPT ![c][t] = r]
    <2>1. Active(c)' = r
      BY <1>1, <1>2, <1>6, ActiveCall
    <2>2. s.body = None /\ None # Partial
      BY <1>1, <1>3, ContentFacts DEF Clean, Fetches
    <2>3. Clean(server, local[c], lock, r)
      BY <1>1, <1>3, <1>4, <2>2 DEF Clean, Stores, Fetches
    <2> QED
      BY <1>2, <2>1, <2>3
  <1> QED
    BY <1>2, <1>5, <1>6

(* No store of the lone client is under way while it fetches.              *)
LEMMA FetchCheckClean ==
  ASSUME ThreadInv, NEW c \in Clients, NEW t \in Threads, CleanInv(c), FetchCheck(c, t)
  PROVE  CleanInv(c)'
  <1> SUFFICES ASSUME failures' = 0 PROVE Clean(server, local[c], lock, Active(c))'
    BY DEF CleanInv
  <1> DEFINE s == rpc[c][t]
             f == s.file
             b == IF lock[f] \in {None, c} /\ server[f] # None THEN server[f].body ELSE None
             r == [s EXCEPT !.pc = "fetch_truncate", !.body = b]
  <1>1. s.pc = "fetch_check" /\ CallShape(s) /\ f \in Files
    BY CallFacts DEF FetchCheck, In
  <1>2. /\ rpc' = [rpc EXCEPT ![c][t] = r]
        /\ UNCHANGED <<server, lock, local, mutex, failures>>
    BY DEF FetchCheck, outside
  <1>3. Clean(server, local[c], lock, s)
    BY <1>1, <1>2, ActiveCall DEF CleanInv
  <1>4. lock[f] = None
    BY <1>1, <1>3 DEF Clean
  <1>5. /\ b # Partial
        /\ b \in {None, Empty} => server[f] = None
    BY <1>1, <1>3, <1>4, ContentFacts, FileFacts, CallFacts DEF Clean
  <1> HIDE DEF b
  <1>6. r.pc = "fetch_truncate" /\ r.file = f /\ r.body = b
    BY <1>1 DEF CallShape, CallRecord
  <1> HIDE DEF r
  <1>7. Active(c)' = r
    BY <1>1, <1>2, ActiveCall
  <1>8. Clean(server, local[c], lock, r)
    BY <1>1, <1>3, <1>5, <1>6 DEF Clean, Stores, Fetches
  <1> QED
    BY <1>2, <1>7, <1>8

(* What a file of the mount becomes.                                       *)
LEMMA LocalClean ==
  ASSUME ThreadInv, NEW c \in Clients, NEW r, NEW q, NEW f \in Files,
         Clean(server, local[c], lock, r), r.pc \notin {"store_send"}, NEW x, q.pc # "store_send",
         local' = [local EXCEPT ![c][f] = x],
         x # None => x.body # Partial,
         Emptied(x) => server[f] = None \/ (q.pc = "fetch_write" /\ q.file = f),
         (r.pc = "fetch_write" /\ q # r) => r.file = f,
         Stores(server, local[c]', q), Fetches(server, q)
  PROVE  Clean(server, local[c]', lock, q)
  <1>1. \A g \in Files : local[c]'[g] = IF g = f THEN x ELSE local[c][g]
    BY DEF ThreadInv, Dirs
  <1>2. ASSUME NEW g \in Files
        PROVE  /\ lock[g] # None => q.pc = "store_send" /\ q.file = g
               /\ server[g] # None => server[g].body # Partial
               /\ server[g] # None /\ lock[g] = None => server[g].body # Empty
               /\ local[c]'[g] # None => local[c]'[g].body # Partial
               /\ Emptied(local[c]'[g]) => server[g] = None \/ (q.pc = "fetch_write" /\ q.file = g)
    BY <1>1 DEF Clean
  <1> QED
    BY <1>2 DEF Clean

LEMMA FetchTruncateClean ==
  ASSUME ThreadInv, NEW c \in Clients, NEW t \in Threads, CleanInv(c), FetchTruncate(c, t)
  PROVE  CleanInv(c)'
  <1> SUFFICES ASSUME failures' = 0 PROVE Clean(server, local[c], lock, Active(c))'
    BY DEF CleanInv
  <1> DEFINE s == rpc[c][t]
             f == s.file
             x == [body |-> Empty, mtime |-> now]
             r == [s EXCEPT !.pc = "fetch_write"]
  <1>1. s.pc = "fetch_truncate" /\ CallShape(s) /\ f \in Files
    BY CallFacts DEF FetchTruncate, In
  <1>2. /\ local' = [local EXCEPT ![c][f] = x]
        /\ UNCHANGED <<server, lock, mutex, failures>>
    BY DEF FetchTruncate, outside
  <1>3. IF s.body \in {None, Empty} THEN Return(c, t) ELSE rpc' = [rpc EXCEPT ![c][t] = r]
    BY DEF FetchTruncate, GoOn
  <1>4. Clean(server, local[c], lock, s)
    BY <1>1, <1>2, ActiveCall DEF CleanInv
  <1>5. r.pc = "fetch_write" /\ r.file = f /\ r.body = s.body
    BY <1>1 DEF CallShape, CallRecord
  <1>6. x.body # Partial
    BY ContentFacts
  <1> HIDE DEF s, f, x, r
  <1>7. CASE s.body \in {None, Empty}
    <2>1. Active(c)' = NoCall /\ NoCall.pc = "none"
      BY <1>1, <1>2, <1>3, <1>7, CleanReturn DEF s
    <2>2. server[f] = None
      BY <1>1, <1>4, <1>7 DEF Clean, Fetches, f
    <2>3. Stores(server, local[c]', NoCall) /\ Fetches(server, NoCall)
      BY <2>1 DEF Stores, Fetches
    <2>4. Clean(server, local[c]', lock, NoCall)
      BY <1>1, <1>2, <1>4, <1>6, <2>1, <2>2, <2>3, LocalClean
    <2> QED
      BY <1>2, <2>1, <2>4
  <1>8. CASE s.body \notin {None, Empty}
    <2>1. Active(c)' = r
      <3>1. rpc' = [rpc EXCEPT ![c][t] = r] /\ UNCHANGED mutex
        BY <1>2, <1>3, <1>8
      <3>2. rpc[c][t].pc # "none"
        BY <1>1 DEF s
      <3> QED
        BY <3>1, <3>2, ActiveCall
    <2>2. Whole(r.body)
      BY <1>1, <1>4, <1>5, <1>8 DEF Clean, Fetches, Whole
    <2>3. Stores(server, local[c]', r) /\ Fetches(server, r)
      BY <1>5, <2>2 DEF Stores, Fetches
    <2>4. Clean(server, local[c]', lock, r)
      BY <1>1, <1>2, <1>4, <1>5, <1>6, <2>3, LocalClean
    <2> QED
      BY <1>2, <2>1, <2>4
  <1> QED
    BY <1>7, <1>8

LEMMA FetchWriteClean ==
  ASSUME ThreadInv, NEW c \in Clients, NEW t \in Threads, CleanInv(c), FetchWrite(c, t)
  PROVE  CleanInv(c)'
  <1> SUFFICES ASSUME failures' = 0 PROVE Clean(server, local[c], lock, Active(c))'
    BY DEF CleanInv
  <1> DEFINE s == rpc[c][t]
             f == s.file
             x == [body |-> s.body, mtime |-> now]
  <1>1. s.pc = "fetch_write" /\ CallShape(s) /\ f \in Files
    BY CallFacts DEF FetchWrite, In
  <1>2. /\ \/ local[c][f] = None /\ UNCHANGED local
           \/ local' = [local EXCEPT ![c][f] = x]
        /\ Return(c, t) /\ UNCHANGED <<server, lock, mutex, failures>>
    BY DEF FetchWrite, Written, outside
  <1>3. Clean(server, local[c], lock, s)
    BY <1>1, <1>2, ActiveCall DEF CleanInv
  <1>4. x.body # Partial /\ ~Emptied(x)
    BY <1>1, <1>3 DEF Clean, Fetches, Whole, Emptied
  <1>5. Active(c)' = NoCall /\ NoCall.pc = "none"
    BY <1>1, <1>2, CleanReturn
  <1>6. Stores(server, local[c]', NoCall) /\ Fetches(server, NoCall)
    BY <1>5 DEF Stores, Fetches
  <1> HIDE DEF x, s, f
  <1>7. CASE local[c][f] = None /\ UNCHANGED local
    <2>1. Clean(server, local[c], lock, NoCall)
      BY <1>1, <1>3, <1>5, <1>6, <1>7 DEF Clean, Emptied, f
    <2> QED
      BY <1>2, <1>5, <1>7, <2>1
  <1>8. CASE local' = [local EXCEPT ![c][f] = x]
    <2>1. Clean(server, local[c]', lock, NoCall)
      BY <1>1, <1>3, <1>4, <1>5, <1>6, <1>8, LocalClean DEF f
    <2> QED
      BY <1>2, <1>5, <2>1
  <1> QED
    BY <1>2, <1>7, <1>8

LEMMA DeleteClean ==
  ASSUME ThreadInv, NEW c \in Clients, NEW t \in Threads, CleanInv(c), Delete(c, t)
  PROVE  CleanInv(c)'
  <1> SUFFICES ASSUME failures' = 0 PROVE Clean(server, local[c], lock, Active(c))'
    BY DEF CleanInv
  <1> DEFINE s == rpc[c][t]
             f == s.file
  <1>1. s.pc = "delete" /\ f \in Files
    BY CallFacts DEF Delete, In
  <1>2. /\ server' = [server EXCEPT ![f] = None] \/ UNCHANGED server
        /\ Return(c, t) /\ UNCHANGED <<lock, local, mutex, failures>>
    BY DEF Delete, outside
  <1>3. Clean(server, local[c], lock, s)
    BY <1>1, <1>2, ActiveCall DEF CleanInv
  <1>4. Active(c)' = NoCall /\ NoCall.pc = "none"
    BY <1>1, <1>2, CleanReturn
  <1>5. \A g \in Files : server'[g] \in {server[g], None}
    BY <1>1, <1>2 DEF ThreadInv, Dirs
  <1> HIDE DEF s, f
  <1>6. Clean(server', local[c], lock, NoCall)
    BY <1>1, <1>3, <1>4, <1>5 DEF Clean, Stores, Fetches
  <1> QED
    BY <1>2, <1>4, <1>6

(* Users, and the async thread when it removes a file, leave no fragment.  *)
LEMMA LocalWhole ==
  ASSUME ThreadInv, NEW c \in Clients, NEW r, NEW f \in Files, NEW x,
         Clean(server, local[c], lock, r), local' = [local EXCEPT ![c][f] = x],
         x # None => x.body \notin {Empty, Partial}
  PROVE  Clean(server, local[c]', lock, r)
  <1>1. \A g : local[c]'[g] = IF g = f THEN x ELSE local[c][g]
    BY DEF ThreadInv, Dirs
  <1>2. ~Emptied(x)
    BY DEF Emptied
  <1>3. Stores(server, local[c]', r) /\ Fetches(server, r)
    BY <1>1, <1>2 DEF Clean, Stores
  <1> QED
    BY <1>1, <1>2, <1>3 DEF Clean

LEMMA ActiveOther ==
  ASSUME ThreadInv, NEW c \in Clients, UNCHANGED <<mutex, rpc>>
  PROVE  Active(c)' = Active(c)
  BY DEF Active

LEMMA UserWritesClean ==
  ASSUME ThreadInv, NEW c \in Clients, NEW f \in Files, CleanInv(c), UserWrites(c, f)
  PROVE  CleanInv(c)'
  <1> SUFFICES ASSUME failures' = 0 PROVE Clean(server, local[c], lock, Active(c))'
    BY DEF CleanInv
  <1> DEFINE x == [body |-> Edited(edits + 1), mtime |-> now]
  <1>1. local' = [local EXCEPT ![c][f] = x] /\ UNCHANGED <<server, lock, mutex, rpc, failures>>
    BY DEF UserWrites
  <1>2. edits + 1 \in 1 .. MaxEdits
    BY SyncAssumption DEF ThreadInv, Counts, UserWrites
  <1>3. x.body \notin {Empty, Partial}
    BY <1>2, ContentFacts
  <1> HIDE DEF x
  <1>4. Clean(server, local[c]', lock, Active(c))
    BY <1>1, <1>3, LocalWhole DEF CleanInv
  <1> QED
    BY <1>1, <1>4, ActiveOther

LEMMA UserDeletesClean ==
  ASSUME ThreadInv, NEW c \in Clients, NEW f \in Files, CleanInv(c), UserDeletes(c, f)
  PROVE  CleanInv(c)'
  <1> SUFFICES ASSUME failures' = 0 PROVE Clean(server, local[c], lock, Active(c))'
    BY DEF CleanInv
  <1>1. local' = [local EXCEPT ![c][f] = None] /\ UNCHANGED <<server, lock, mutex, rpc, failures>>
    BY DEF UserDeletes
  <1>2. Clean(server, local[c]', lock, Active(c))
    BY <1>1, LocalWhole DEF CleanInv
  <1> QED
    BY <1>1, <1>2, ActiveOther

----------------------------------------------------------------------------
(* A thread that takes or leaves the mutex, or begins a call.              *)

LEMMA MutexClean ==
  ASSUME ThreadInv, NEW c \in Clients, CleanInv(c),
         WatcherLock(c) \/ WatcherUnlock(c) \/ SyncStart(c) \/ SyncEnd(c)
  PROVE  CleanInv(c)'
  <1> SUFFICES ASSUME failures' = 0 PROVE Clean(server, local[c], lock, Active(c))'
    BY DEF CleanInv
  <1>1. /\ UNCHANGED <<server, local, lock, rpc, failures>>
        /\ \/ mutex[c] = None /\ \E t \in Threads : mutex' = [mutex EXCEPT ![c] = t]
           \/ /\ \E t \in Threads : mutex[c] = t /\ rpc[c][t].pc = "none"
              /\ mutex' = [mutex EXCEPT ![c] = None]
    BY DEF WatcherLock, WatcherUnlock, SyncStart, SyncEnd, Idle, Threads, outside
  <1>2. NoCall.pc = "none" /\ None \notin Threads /\ mutex \in [Clients -> Threads \cup {None}]
    BY NoCallShape, SyncAssumption DEF ThreadInv, CallsShaped
  <1>3. Active(c).pc = "none"
    BY <1>1, <1>2 DEF Active
  <1>4. \A t \in Threads : rpc[c][t].pc = "none"
    BY <1>1, <1>2 DEF ThreadInv, OneThreadCalls
  <1>5. Active(c)'.pc = "none"
    BY <1>1, <1>2, <1>4 DEF Active
  <1> QED
    BY <1>1, <1>3, <1>5, CleanCall DEF CleanInv

LEMMA CallClean ==
  ASSUME ThreadInv, NEW c \in Clients, CleanInv(c), NEW t \in Threads, NEW f \in Files,
         NEW pc \in {"store_sum", "fetch_stats", "delete"}, Call(c, t, pc, f),
         mutex[c] = t, rpc[c][t].pc = "none", UNCHANGED <<mutex, server, local, lock, failures>>
  PROVE  CleanInv(c)'
  <1> SUFFICES ASSUME failures' = 0 PROVE Clean(server, local[c], lock, Active(c))'
    BY DEF CleanInv
  <1> DEFINE r == [NoCall EXCEPT !.pc = pc, !.file = f]
  <1>1. rpc' = [rpc EXCEPT ![c][t] = r]
    BY DEF Call
  <1>2. r.pc = pc /\ r.body = None
    BY DEF NoCall
  <1> HIDE DEF r
  <1>3. Active(c) = rpc[c][t] /\ Active(c)' = r
    BY <1>1, ActiveCall
  <1>4. Clean(server, local[c], lock, r)
    BY <1>2, <1>3, CleanCall DEF CleanInv
  <1> QED
    BY <1>3, <1>4

LEMMA OtherClean ==
  ASSUME ThreadInv, NEW c \in Clients, CleanInv(c),
         UNCHANGED <<mutex, rpc, server, local, lock, failures>>
  PROVE  CleanInv(c)'
  BY ActiveOther DEF CleanInv

LEMMA DispatchClean ==
  ASSUME ThreadInv, NEW c \in Clients, CleanInv(c), Dispatch(c)
  PROVE  CleanInv(c)'
  <1> DEFINE e == Head(batch[c])
  <1>1. e.file \in Files
    <2>1. e \in Event
      BY HeadTailProperties DEF Dispatch, ThreadInv, Queues
    <2> QED
      BY <2>1 DEF Event
  <1>2. /\ \/ UNCHANGED rpc
           \/ \E pc \in {"delete", "store_sum"} : Call(c, "watcher", pc, e.file)
        /\ mutex[c] = "watcher" /\ rpc[c]["watcher"].pc = "none"
        /\ UNCHANGED <<mutex, server, local, lock, failures>>
    BY DEF Dispatch, Idle, outside
  <1> HIDE DEF e
  <1> QED
    BY <1>1, <1>2, CallClean, OtherClean DEF Threads

LEMMA SyncEntryClean ==
  ASSUME ThreadInv, NEW c \in Clients, NEW f \in Files, CleanInv(c), SyncEntry(c, f)
  PROVE  CleanInv(c)'
  <1>1. /\ \/ UNCHANGED rpc
           \/ \E pc \in {"store_sum", "fetch_stats", "delete"} : Call(c, "async", pc, f)
        /\ mutex[c] = "async" /\ rpc[c]["async"].pc = "none"
        /\ UNCHANGED <<mutex, server, local, lock, failures>>
    BY DEF SyncEntry, Idle, outside
  <1> QED
    BY <1>1, CallClean, OtherClean DEF Threads

LEMMA SyncExtraClean ==
  ASSUME ThreadInv, NEW c \in Clients, NEW f \in Files, CleanInv(c), SyncExtra(c, f)
  PROVE  CleanInv(c)'
  <1>1. /\ \/ Call(c, "async", "store_sum", f) /\ UNCHANGED local
           \/ local' = [local EXCEPT ![c][f] = None] /\ UNCHANGED rpc
        /\ mutex[c] = "async" /\ rpc[c]["async"].pc = "none"
        /\ UNCHANGED <<mutex, server, lock, failures>>
    BY DEF SyncExtra, Idle, outside
  <1>2. CASE Call(c, "async", "store_sum", f) /\ UNCHANGED local
    BY <1>1, <1>2, CallClean DEF Threads
  <1>3. CASE local' = [local EXCEPT ![c][f] = None] /\ UNCHANGED rpc
    <2>1. Active(c)' = Active(c)
      BY <1>1, <1>3, ActiveOther
    <2> QED
      BY <1>1, <1>3, <2>1, LocalWhole DEF CleanInv
  <1> QED
    BY <1>1, <1>2, <1>3

----------------------------------------------------------------------------
LEMMA InitClean ==
  ASSUME Init, NEW c \in Clients, Empty \notin Initial
  PROVE  CleanInv(c)
  <1>1. Active(c) = NoCall /\ NoCall.pc = "none"
    BY NoCallShape, SyncAssumption DEF Init, Active
  <1>2. Partial \notin Initial
    BY ContentFacts
  <1>3. ASSUME NEW f \in Files
        PROVE  /\ lock[f] = None
               /\ server[f] # None => server[f].body \notin {Empty, Partial}
               /\ local[c][f] # None => local[c][f].body \notin {Empty, Partial}
    BY <1>2 DEF Init
  <1>4. Stores(server, local[c], NoCall) /\ Fetches(server, NoCall)
    BY <1>1 DEF Stores, Fetches
  <1> QED
    BY <1>1, <1>3, <1>4 DEF CleanInv, Clean, Emptied

LEMMA CleanStep ==
  ASSUME NEW c, Clients = {c}, ThreadInv, CleanInv(c), [Next]_vars
  PROVE  CleanInv(c)'
  <1>1. c \in Clients
    OBVIOUS
  <1>2. CASE UNCHANGED vars
    BY <1>1, <1>2, OtherClean DEF vars, outside
  <1>3. ASSUME NEW t \in Threads, Calling(c, t) PROVE CleanInv(c)'
    BY <1>1, <1>3, StoreSumClean, StoreOpenClean, StoreBeginClean, StoreSendClean,
       BreaksClean, FetchStatsClean, FetchCheckClean, FetchTruncateClean, FetchWriteClean,
       DeleteClean DEF Calling
  <1>4. CASE Watcher(c) \/ WatcherLock(c)
    <2>1. CASE ReadEvents(c)
      BY <1>1, <2>1, OtherClean DEF ReadEvents, outside
    <2> QED
      BY <1>1, <1>4, <2>1, DispatchClean, MutexClean DEF Watcher
  <1>5. CASE Async(c) \/ SyncStart(c)
    BY <1>1, <1>5, SyncEntryClean, SyncExtraClean, MutexClean, BreaksClean
       DEF Async, Threads
  <1>6. CASE List(c)
    <2>1. UNCHANGED <<mutex, rpc, server, local, lock, failures>>
      BY <1>6 DEF List, ListOpen, ListStat, ListSum, ListReply, outside
    <2> QED
      BY <1>1, <2>1, OtherClean
  <1>7. ASSUME NEW f \in Files, UserWrites(c, f) \/ UserDeletes(c, f) PROVE CleanInv(c)'
    BY <1>1, <1>7, UserWritesClean, UserDeletesClean
  <1>8. CASE Tick
    BY <1>1, <1>8, OtherClean DEF Tick
  <1> QED
    BY <1>2, <1>3, <1>4, <1>5, <1>6, <1>7, <1>8 DEF Next

(* A lone client never leaves an empty or partial file on the server while *)
(* no call breaks off, for all its truncating its files before it knows    *)
(* what to write and its storing whatever inotify names: what it empties   *)
(* is not on the server any more, and a checksum of an empty file is the   *)
(* checksum of a missing one, which the server has already.                *)
THEOREM LoneClientStoresNoFragment ==
  ASSUME NEW c, Clients = {c}, Empty \notin Initial
  PROVE  Spec => []NoFragmentStored
  <1>1. Init => CleanInv(c)
    BY InitClean
  <1>2. ThreadInv /\ CleanInv(c) /\ [Next]_vars => CleanInv(c)'
    BY CleanStep
  <1>3. CleanInv(c) => NoFragmentStored
    BY DEF CleanInv, Clean, NoFragmentStored
  <1> QED
    BY <1>1, <1>2, <1>3, ThreadInvariant, PTL DEF Spec

----------------------------------------------------------------------------
(* A lone client whose user is away: the content modified last.            *)

NoEvent(q, f) == \A i \in 1 .. Len(q) : q[i].file # f

NoDelete(q, f) == \A i \in 1 .. Len(q) : q[i].file = f => q[i].kind # "IN_DELETE"

(* The round of HandleCallbackList has yet to come to f, or to begin.      *)
Pending(c, f) == mutex[c] # "async" \/ f \in sync[c].remote \/ sync[c].storage[f] # None

(* A listing l is right about the file f, s on the server, as far as it is *)
(* made.                                                                   *)
Reflects(l, f, s) ==
    /\ l.pc = "asked" => l.mtime[f] = None
    /\ l.pc = "replied" => f \notin l.names
    /\ l.entry = f => f \in l.names /\ l.mtime[f] # None
    /\ l.pc # "asked" =>
         /\ (f \in l.names \/ l.mtime[f] # None) <=> s # None
         /\ l.mtime[f] # None => l.mtime[f] = s.mtime
         /\ l.mtime[f] # None /\ f \notin l.names => l.crc[f] = s.body

(* And so is what the round has noted.                                     *)
Noted(c, f) ==
    mutex[c] = "async" =>
      /\ listing[c].pc = "replied"
      /\ (f \in sync[c].remote) <=> (server[f] # None)
      /\ sync[c].storage[f] = IF local[c][f] = None THEN None ELSE local[c][f].mtime

About(r, f) == r.pc # "none" /\ r.file = f

(* b is the content of the copy with the later date, the client's if they  *)
(* have the same.                                                          *)
Latest(s, l, b) ==
    \/ l # None /\ l.body = b /\ (s # None => s.mtime <= l.mtime)
    \/ s # None /\ s.body = b /\ (l # None => s.mtime > l.mtime)

(* How far the client is with a file: nothing was done about it yet, both  *)
(* ends have it, or the async thread is storing or fetching it.            *)
Fresh(c, f) ==
    /\ Latest(server[f], local[c][f], newest[f])
    /\ Pending(c, f) /\ ~mounted[c]
    /\ NoEvent(events[c], f) /\ NoEvent(batch[c], f)
    /\ \A t \in Threads : ~About(rpc[c][t], f)

(* Echoes of the fetch go on being stored.                                 *)
Echo(r, b) ==
    /\ r.pc \in {"store_sum", "store_open", "store_begin"}
    /\ r.pc # "store_sum" => r.crc = b

Has(x, b) == x # None /\ x.body = b

Same(c, f) ==
    /\ Has(server[f], newest[f]) /\ Has(local[c][f], newest[f])
    /\ ~About(rpc[c]["async"], f)
    /\ About(rpc[c]["watcher"], f) => Echo(rpc[c]["watcher"], newest[f])

Sends(r, b) ==
    /\ r.pc \in {"store_sum", "store_open", "store_begin", "store_send"}
    /\ r.pc # "store_sum" => r.crc = b
    /\ r.pc \in {"store_begin", "store_send"} => r.body = b

Storing(c, f) ==
    /\ ~Pending(c, f)
    /\ rpc[c]["async"].file = f /\ Sends(rpc[c]["async"], newest[f])
    /\ Has(local[c][f], newest[f])

Receives(r, l, b) ==
    /\ r.pc \in {"fetch_stats", "fetch_check", "fetch_truncate", "fetch_write"}
    /\ r.pc \in {"fetch_truncate", "fetch_write"} => r.body = b
    /\ r.pc = "fetch_write" => l # None

Fetching(c, f) ==
    /\ ~Pending(c, f)
    /\ rpc[c]["async"].file = f /\ Receives(rpc[c]["async"], local[c][f], newest[f])
    /\ Has(server[f], newest[f])

Undeleted(c, f) == NoDelete(events[c], f) /\ NoDelete(batch[c], f)

Stage(c, f) ==
    \/ Fresh(c, f)
    \/ Undeleted(c, f) /\ (Same(c, f) \/ Storing(c, f) \/ Fetching(c, f))

ListedRight(c, f) == Pending(c, f) => Reflects(listing[c], f, server[f]) /\ Noted(c, f)

Kept(c, f) ==
    /\ newest[f] \notin {Empty, Partial}
    /\ ListedRight(c, f)
    /\ Stage(c, f)
    /\ lock[f] # None => Storing(c, f) /\ rpc[c]["async"].pc = "store_send"

KeptInv(c) == \A f \in Files : newest[f] # None => Kept(c, f)

LEMMA NotifyEvents ==
  ASSUME NEW q \in Seq(Event), NEW g \in Files, NEW f,
         NEW kind \in {"IN_CREATE", "IN_MODIFY", "IN_DELETE"}
  PROVE  /\ g # f /\ NoEvent(q, f) => NoEvent(Notify(q, kind, g), f)
         /\ (g # f \/ kind # "IN_DELETE") /\ NoDelete(q, f) => NoDelete(Notify(q, kind, g), f)
         /\ NoEvent(q, f) => NoDelete(q, f)
  <1> DEFINE e == [kind |-> kind, file |-> g]
  <1>1. e \in Event /\ e.kind = kind /\ e.file = g
    BY DEF Event
  <1>2. Notify(q, kind, g) \in {q, Append(q, e)}
    BY DEF Notify
  <1> HIDE DEF e
  <1>3. /\ Len(Append(q, e)) = Len(q) + 1 /\ Len(q) \in Nat
        /\ \A i \in 1 .. Len(q) : Append(q, e)[i] = q[i]
        /\ Append(q, e)[Len(q) + 1] = e
    BY <1>1, AppendProperties
  <1>4. \A i \in 1 .. Len(Append(q, e)) :
          i \in 1 .. Len(q) \/ i = Len(q) + 1
    BY <1>3
  <1>5. /\ g # f /\ NoEvent(q, f) => NoEvent(Append(q, e), f)
        /\ (g # f \/ kind # "IN_DELETE") /\ NoDelete(q, f) => NoDelete(Append(q, e), f)
    BY <1>1, <1>3, <1>4 DEF NoEvent, NoDelete
  <1>6. NoEvent(q, f) => NoDelete(q, f)
    BY DEF NoEvent, NoDelete
  <1> QED
    BY <1>2, <1>5, <1>6

LEMMA TailEvents ==
  ASSUME NEW q \in Seq(Event), q # <<>>, NEW f
  PROVE  /\ NoEvent(q, f) => NoEvent(Tail(q), f) /\ Head(q).file # f
         /\ NoDelete(q, f) => /\ NoDelete(Tail(q), f)
                              /\ Head(q).file = f => Head(q).kind # "IN_DELETE"
  <1>1. /\ Len(Tail(q)) = Len(q) - 1 /\ Len(q) \in Nat \ {0}
        /\ \A i \in 1 .. Len(Tail(q)) : Tail(q)[i] = q[i + 1]
    BY HeadTailProperties, EmptySeq
  <1>2. Head(q) = q[1] /\ 1 \in 1 .. Len(q)
    BY <1>1
  <1>3. \A i \in 1 .. Len(Tail(q)) : i + 1 \in 1 .. Len(q)
    BY <1>1
  <1> QED
    BY <1>1, <1>2, <1>3 DEF NoEvent, NoDelete

(* What a step of a call touches: its own file g, and the call.            *)
Touches(c, t, g) ==
    /\ \E r : /\ rpc' = [rpc EXCEPT ![c][t] = r]
              /\ r.pc = "none" \/ r.file = g
    /\ \E x : server' = [server EXCEPT ![g] = x]
    /\ \E x : lock' = [lock EXCEPT ![g] = x]
    /\ \E x : local' = [local EXCEPT ![c][g] = x]
    /\ UNCHANGED events \/ \E kind \in {"IN_CREATE", "IN_MODIFY", "IN_DELETE"} : Tell(c, kind, g)
    /\ UNCHANGED <<batch, mutex, listing, sync, mounted, newest>>

LEMMA CallTouches ==
  ASSUME ThreadInv, NEW c \in Clients, NEW t \in Threads, Calling(c, t)
  PROVE  Touches(c, t, rpc[c][t].file) /\ rpc[c][t].pc # "none"
  <1> DEFINE g == rpc[c][t].file
  <1>1. \A x : /\ (server' = server => server' = [server EXCEPT ![g] = server[g]])
               /\ (lock' = lock => lock' = [lock EXCEPT ![g] = lock[g]])
               /\ (local' = local => local' = [local EXCEPT ![c][g] = local[c][g]])
    BY DEF ThreadInv, Dirs, Locks
  <1>2. rpc[c][t] \in CallRecord
    BY DEF ThreadInv, CallsShaped
  <1>3. \A pc, k, b : /\ [rpc[c][t] EXCEPT !.pc = pc].file = g
                      /\ [rpc[c][t] EXCEPT !.pc = pc, !.crc = k].file = g
                      /\ [rpc[c][t] EXCEPT !.pc = pc, !.body = b].file = g
    BY <1>2 DEF CallRecord
  <1>4. NoCall.pc = "none"
    BY NoCallShape
  <1>5. CASE StoreSum(c, t)
    <2>1. \E r : rpc' = [rpc EXCEPT ![c][t] = r] /\ (r.pc = "none" \/ r.file = g)
      <3> DEFINE s == [rpc[c][t] EXCEPT !.pc = "store_open", !.crc = Crc(local[c][g])]
      <3>1. s.file = g
        BY <1>3
      <3>2. rpc' = [rpc EXCEPT ![c][t] = s]
        BY <1>5 DEF StoreSum
      <3> HIDE DEF s
      <3> QED
        BY <3>1, <3>2
    <2>2. UNCHANGED <<server, lock, local, events, batch, mutex, listing, sync, mounted, newest>>
      BY <1>5 DEF StoreSum, outside
    <2>3. rpc[c][t].pc # "none"
      BY <1>5 DEF StoreSum, In
    <2> QED
      BY <1>1, <2>1, <2>2, <2>3 DEF Touches
  <1>6. CASE StoreOpen(c, t)
    <2>1. \E r : rpc' = [rpc EXCEPT ![c][t] = r] /\ (r.pc = "none" \/ r.file = g)
      <3> DEFINE s == [rpc[c][t] EXCEPT !.pc = "store_begin", !.body = local[c][g].body]
      <3>1. s.file = g
        BY <1>3
      <3>2. rpc' = [rpc EXCEPT ![c][t] = s] \/ Return(c, t)
        BY <1>6 DEF StoreOpen
      <3> HIDE DEF s
      <3> QED
        BY <3>1, <3>2, <1>4 DEF Return
    <2>2. UNCHANGED <<server, lock, local, events, batch, mutex, listing, sync, mounted, newest>>
      BY <1>6 DEF StoreOpen, outside
    <2>3. rpc[c][t].pc # "none"
      BY <1>6 DEF StoreOpen, In
    <2> QED
      BY <1>1, <2>1, <2>2, <2>3 DEF Touches
  <1>7. CASE StoreBegin(c, t)
    BY <1>1, <1>3, <1>4, <1>7 DEF StoreBegin, GoOn, Return, Touches, In, outside
  <1>8. CASE StoreSend(c, t)
    BY <1>1, <1>4, <1>8 DEF StoreSend, Return, Touches, In, outside
  <1>9. CASE StoreBreaks(c, t)
    BY <1>1, <1>4, <1>9 DEF StoreBreaks, Return, Touches, In
  <1>10. CASE FetchStats(c, t)
    <2>1. \E r : rpc' = [rpc EXCEPT ![c][t] = r] /\ (r.pc = "none" \/ r.file = g)
      <3> DEFINE s == [rpc[c][t] EXCEPT !.pc = IF server[g] = None THEN "fetch_truncate" ELSE "fetch_check"]
      <3>1. s.file = g
        BY <1>3
      <3>2. rpc' = [rpc EXCEPT ![c][t] = s] \/ Return(c, t)
        BY <1>10 DEF FetchStats, GoOn
      <3> HIDE DEF s
      <3> QED
        BY <3>1, <3>2, <1>4 DEF Return
    <2>2. UNCHANGED <<server, lock, local, events, batch, mutex, listing, sync, mounted, newest>>
      BY <1>10 DEF FetchStats, outside
    <2>3. rpc[c][t].pc # "none"
      BY <1>10 DEF FetchStats, In
    <2> QED
      BY <1>1, <2>1, <2>2, <2>3 DEF Touches
  <1>11. CASE FetchCheck(c, t)
    <2>1. \E r : rpc' = [rpc EXCEPT ![c][t] = r] /\ (r.pc = "none" \/ r.file = g)
      <3> DEFINE s == [rpc[c][t] EXCEPT !.pc = "fetch_truncate",
                          !.body = IF lock[g] \in {None, c} /\ server[g] # None
                                   THEN server[g].body ELSE None]
      <3>1. s.file = g
        BY <1>3
      <3>2. rpc' = [rpc EXCEPT ![c][t] = s]
        BY <1>11 DEF FetchCheck
      <3> HIDE DEF s
      <3> QED
        BY <3>1, <3>2
    <2>2. UNCHANGED <<server, lock, local, events, batch, mutex, listing, sync, mounted, newest>>
      BY <1>11 DEF FetchCheck, outside
    <2>3. rpc[c][t].pc # "none"
      BY <1>11 DEF FetchCheck, In
    <2> QED
      BY <1>1, <2>1, <2>2, <2>3 DEF Touches
  <1>12. CASE FetchTruncate(c, t)
    BY <1>1, <1>3, <1>4, <1>12 DEF FetchTruncate, GoOn, Return, Touches, In, outside
  <1>13. CASE FetchWrite(c, t)
    BY <1>1, <1>4, <1>13 DEF FetchWrite, Written, Return, Touches, In, outside
  <1>14. CASE FetchBreaks(c, t)
    BY <1>1, <1>4, <1>14 DEF FetchBreaks, Written, Return, Touches, In
  <1>15. CASE Delete(c, t)
    BY <1>1, <1>4, <1>15 DEF Delete, Return, Touches, In, outside
  <1>16. CASE CallFails(c, t)
    BY <1>1, <1>4, <1>16 DEF CallFails, Return, Touches, In
  <1>17. CASE FetchUnanswered(c, t)
    <2>1. \E r : rpc' = [rpc EXCEPT ![c][t] = r] /\ (r.pc = "none" \/ r.file = g)
      <3> DEFINE s == [rpc[c][t] EXCEPT !.pc = "fetch_truncate"]
      <3>1. s.file = g
        BY <1>3
      <3>2. rpc' = [rpc EXCEPT ![c][t] = s] \/ Return(c, t)
        BY <1>17 DEF FetchUnanswered, GoOn
      <3> HIDE DEF s
      <3> QED
        BY <3>1, <3>2, <1>4 DEF Return
    <2>2. UNCHANGED <<server, lock, local, events, batch, mutex, listing, sync, mounted, newest>>
      BY <1>17 DEF FetchUnanswered
    <2>3. rpc[c][t].pc # "none"
      BY <1>17 DEF FetchUnanswered, In
    <2> QED
      BY <1>1, <2>1, <2>2, <2>3 DEF Touches
  <1> QED
    BY <1>5, <1>6, <1>7, <1>8, <1>9, <1>10, <1>11, <1>12, <1>13, <1>14, <1>15, <1>16, <1>17
       DEF Calling

(* A call about another file.                                              *)
LEMMA OtherFile ==
  ASSUME ThreadInv, NEW c \in Clients, NEW t \in Threads, NEW g \in Files, NEW f \in Files,
         g # f, Kept(c, f), ~About(rpc[c][t], f), Touches(c, t, g)
  PROVE  Kept(c, f)'
  <1>1. PICK r : /\ rpc' = [rpc EXCEPT ![c][t] = r]
                 /\ ~About(r, f)
    BY DEF Touches, About
  <1>2. /\ rpc'[c][t] = r
        /\ \A u \in Threads : u # t => rpc'[c][u] = rpc[c][u]
    BY <1>1 DEF ThreadInv, CallsShaped
  <1>3. server'[f] = server[f] /\ lock'[f] = lock[f] /\ local'[c][f] = local[c][f]
    BY DEF Touches, ThreadInv, Dirs, Locks
  <1>4. UNCHANGED <<batch, mutex, listing, sync, mounted, newest>>
    BY DEF Touches
  <1>5. /\ NoEvent(events[c], f) => NoEvent(events'[c], f)
        /\ NoDelete(events[c], f) => NoDelete(events'[c], f)
    <2>1. events[c] \in Seq(Event) /\ events \in [Clients -> Seq(Event)]
      BY DEF ThreadInv, Queues
    <2>2. CASE UNCHANGED events
      BY <2>2
    <2>3. ASSUME NEW kind \in {"IN_CREATE", "IN_MODIFY", "IN_DELETE"}, Tell(c, kind, g)
          PROVE  <1>5
      BY <2>1, <2>3, NotifyEvents DEF Tell
    <2> QED
      BY <2>2, <2>3 DEF Touches
  <1>6. ListedRight(c, f)'
    BY <1>3, <1>4 DEF Kept, ListedRight, Pending, Noted
  <1>7. "async" \in Threads /\ "watcher" \in Threads
    BY DEF Threads
  <1>8. /\ \A u \in Threads : About(rpc'[c][u], f) => About(rpc[c][u], f) /\ rpc'[c][u] = rpc[c][u]
        /\ Storing(c, f) \/ Fetching(c, f) => t # "async"
    BY <1>1, <1>2 DEF About, Storing, Fetching, Sends, Receives
  <1>9. Pending(c, f)' = Pending(c, f)
    BY <1>4 DEF Pending
  <1>10. Storing(c, f) => Storing(c, f)' /\ rpc'[c]["async"] = rpc[c]["async"]
    BY <1>2, <1>3, <1>4, <1>7, <1>8, <1>9 DEF Storing
  <1>11. Fetching(c, f) => Fetching(c, f)'
    BY <1>2, <1>3, <1>4, <1>7, <1>8, <1>9 DEF Fetching
  <1>12. Same(c, f) => Same(c, f)'
    BY <1>3, <1>4, <1>7, <1>8 DEF Same
  <1>13. Fresh(c, f) => Fresh(c, f)'
    BY <1>3, <1>4, <1>5, <1>8, <1>9 DEF Fresh
  <1>14. Undeleted(c, f) => Undeleted(c, f)'
    BY <1>4, <1>5 DEF Undeleted
  <1>15. Stage(c, f)'
    BY <1>10, <1>11, <1>12, <1>13, <1>14 DEF Kept, Stage
  <1> QED
    BY <1>3, <1>4, <1>6, <1>10, <1>15 DEF Kept

(* Where a call is tells which step it takes.                              *)
LEMMA CallPcs ==
  ASSUME NEW c, NEW t, Calling(c, t)
  PROVE  \/ StoreSum(c, t) /\ rpc[c][t].pc = "store_sum"
         \/ StoreOpen(c, t) /\ rpc[c][t].pc = "store_open"
         \/ StoreBegin(c, t) /\ rpc[c][t].pc = "store_begin"
         \/ StoreSend(c, t) /\ rpc[c][t].pc = "store_send"
         \/ FetchStats(c, t) /\ rpc[c][t].pc = "fetch_stats"
         \/ FetchCheck(c, t) /\ rpc[c][t].pc = "fetch_check"
         \/ FetchTruncate(c, t) /\ rpc[c][t].pc = "fetch_truncate"
         \/ FetchWrite(c, t) /\ rpc[c][t].pc = "fetch_write"
         \/ Delete(c, t) /\ rpc[c][t].pc = "delete"
         \/ failures < MaxFailures
  <1>1. /\ StoreSum(c, t) => rpc[c][t].pc = "store_sum"
        /\ StoreOpen(c, t) => rpc[c][t].pc = "store_open"
        /\ StoreBegin(c, t) => rpc[c][t].pc = "store_begin"
    BY DEF StoreSum, StoreOpen, StoreBegin, In
  <1>2. /\ StoreSend(c, t) => rpc[c][t].pc = "store_send"
        /\ FetchStats(c, t) => rpc[c][t].pc = "fetch_stats"
        /\ FetchCheck(c, t) => rpc[c][t].pc = "fetch_check"
    BY DEF StoreSend, FetchStats, FetchCheck, In
  <1>3. /\ FetchTruncate(c, t) => rpc[c][t].pc = "fetch_truncate"
        /\ FetchWrite(c, t) => rpc[c][t].pc = "fetch_write"
        /\ Delete(c, t) => rpc[c][t].pc = "delete"
    BY DEF FetchTruncate, FetchWrite, Delete, In
  <1>4. StoreBreaks(c, t) \/ FetchUnanswered(c, t) \/ FetchBreaks(c, t) \/ CallFails(c, t)
        => failures < MaxFailures
    BY DEF StoreBreaks, FetchUnanswered, FetchBreaks, CallFails
  <1> QED
    BY <1>1, <1>2, <1>3, <1>4 DEF Calling

(* Echoes: the watcher finds that the server has the file already.         *)
LEMMA EchoStep ==
  ASSUME ThreadInv, MaxFailures = 0, NEW c \in Clients, NEW f \in Files, Kept(c, f), newest[f] # None,
         Calling(c, "watcher"), rpc[c]["watcher"].file = f
  PROVE  \E r : /\ rpc' = [rpc EXCEPT ![c]["watcher"] = r]
                /\ ~About(r, f) \/ Echo(r, newest[f])
                /\ Same(c, f) /\ Undeleted(c, f) /\ lock[f] = None
                /\ UNCHANGED <<server, lock, local, events, batch, mutex, listing, sync, mounted,
                               newest>>
  <1> DEFINE s == rpc[c]["watcher"]
  <1>1. "watcher" \in Threads /\ "async" \in Threads /\ s.pc # "none"
    BY CallTouches DEF Threads
  <1>2. mutex[c] = "watcher" /\ CallShape(s)
    BY <1>1, CallFacts
  <1>3. ~Storing(c, f) /\ ~Fetching(c, f) /\ ~Fresh(c, f)
    BY <1>1, <1>2 DEF Storing, Fetching, Fresh, Pending, About
  <1>4. Same(c, f) /\ Undeleted(c, f) /\ lock[f] = None
    BY <1>3 DEF Kept, Stage
  <1>5. Echo(s, newest[f]) /\ Has(server[f], newest[f]) /\ Has(local[c][f], newest[f])
    BY <1>1, <1>4 DEF Same, About
  <1>6. Crc(server[f]) = newest[f] /\ Crc(local[c][f]) = newest[f]
    BY <1>5 DEF Has, Crc
  <1>7. StoreSum(c, "watcher") \/ StoreOpen(c, "watcher") \/ StoreBegin(c, "watcher")
    <2>1. s.pc \in {"store_sum", "store_open", "store_begin"}
      BY <1>5 DEF Echo
    <2>2. ~(failures < MaxFailures)
      BY DEF ThreadInv, Counts
    <2> QED
      BY <2>1, <2>2, CallPcs
  <1>8. CASE StoreSum(c, "watcher")
    <2> DEFINE r == [s EXCEPT !.pc = "store_open", !.crc = Crc(local[c][f])]
    <2>1. rpc' = [rpc EXCEPT ![c]["watcher"] = r]
      BY <1>8 DEF StoreSum
    <2>2. r.pc = "store_open" /\ r.crc = newest[f]
      BY <1>2, <1>6 DEF CallShape, CallRecord
    <2> HIDE DEF r
    <2>3. Echo(r, newest[f])
      BY <2>2 DEF Echo
    <2> QED
      BY <1>4, <1>8, <2>1, <2>3 DEF StoreSum, outside
  <1>9. CASE StoreOpen(c, "watcher")
    <2> DEFINE r == [s EXCEPT !.pc = "store_begin", !.body = local[c][f].body]
    <2>1. rpc' = [rpc EXCEPT ![c]["watcher"] = r]
      BY <1>5, <1>9 DEF StoreOpen, Has
    <2>2. r.pc = "store_begin" /\ r.crc = newest[f]
      BY <1>2, <1>5, <1>9 DEF CallShape, CallRecord, Echo, StoreOpen, In
    <2> HIDE DEF r
    <2>3. Echo(r, newest[f])
      BY <2>2 DEF Echo
    <2> QED
      BY <1>4, <1>9, <2>1, <2>3 DEF StoreOpen, outside
  <1>10. CASE StoreBegin(c, "watcher")
    <2>1. s.crc = newest[f]
      BY <1>5, <1>10 DEF Echo, StoreBegin, In
    <2>2. Return(c, "watcher") /\ UNCHANGED <<server, lock>>
      BY <1>6, <1>10, <2>1 DEF StoreBegin
    <2>3. rpc' = [rpc EXCEPT ![c]["watcher"] = NoCall] /\ ~About(NoCall, f)
      BY <2>2, NoCallShape DEF Return, About
    <2> QED
      BY <1>4, <1>10, <2>2, <2>3 DEF StoreBegin, outside
  <1> QED
    BY <1>7, <1>8, <1>9, <1>10

LEMMA EchoKept ==
  ASSUME ThreadInv, MaxFailures = 0, NEW c \in Clients, NEW f \in Files, Kept(c, f), newest[f] # None,
         Calling(c, "watcher"), rpc[c]["watcher"].file = f
  PROVE  Kept(c, f)'
  <1>1. PICK r : /\ rpc' = [rpc EXCEPT ![c]["watcher"] = r]
                 /\ ~About(r, f) \/ Echo(r, newest[f])
                 /\ Same(c, f) /\ Undeleted(c, f) /\ lock[f] = None
                 /\ UNCHANGED <<server, lock, local, events, batch, mutex, listing, sync, mounted,
                                newest>>
    BY EchoStep
  <1>2. rpc'[c]["watcher"] = r /\ rpc'[c]["async"] = rpc[c]["async"]
    BY <1>1 DEF ThreadInv, CallsShaped, Threads
  <1>3. Same(c, f)'
    BY <1>1, <1>2 DEF Same
  <1>4. Undeleted(c, f)' /\ ListedRight(c, f)'
    BY <1>1 DEF Undeleted, Kept, ListedRight, Pending, Noted
  <1> QED
    BY <1>1, <1>3, <1>4 DEF Kept, Stage

(* The async thread's own file, this round being done with it.             *)
LEMMA AsyncTurn ==
  ASSUME ThreadInv, NEW c \in Clients, NEW f \in Files, Kept(c, f),
         rpc[c]["async"].file = f, rpc[c]["async"].pc # "none"
  PROVE  /\ Storing(c, f) \/ Fetching(c, f)
         /\ Undeleted(c, f) /\ ~Pending(c, f) /\ mutex[c] = "async"
         /\ rpc[c]["watcher"].pc = "none" /\ CallShape(rpc[c]["async"])
         /\ \A r : rpc' = [rpc EXCEPT ![c]["async"] = r]
                   => rpc'[c]["async"] = r /\ rpc'[c]["watcher"] = rpc[c]["watcher"]
  <1>1. "watcher" \in Threads /\ "async" \in Threads
    BY DEF Threads
  <1>2. ~Same(c, f) /\ ~Fresh(c, f)
    BY <1>1 DEF Same, Fresh, About
  <1>3. mutex[c] = "async" /\ CallShape(rpc[c]["async"])
    BY <1>1, CallFacts
  <1>4. rpc[c]["watcher"].pc = "none"
    BY <1>1, <1>3 DEF ThreadInv, OneThreadCalls
  <1>5. \A r : rpc' = [rpc EXCEPT ![c]["async"] = r]
               => rpc'[c]["async"] = r /\ rpc'[c]["watcher"] = rpc[c]["watcher"]
    BY <1>1 DEF ThreadInv, CallsShaped
  <1> QED
    BY <1>2, <1>3, <1>4, <1>5 DEF Kept, Stage, Storing, Fetching

LEMMA AsyncKept ==
  ASSUME NEW c, NEW f, Kept(c, f), ~Pending(c, f), UNCHANGED <<mutex, sync, newest>>,
         Undeleted(c, f)', (Same(c, f) \/ Storing(c, f) \/ Fetching(c, f))',
         lock'[f] # None => Storing(c, f)' /\ rpc'[c]["async"].pc = "store_send"
  PROVE  Kept(c, f)'
  <1>1. ~Pending(c, f)'
    BY DEF Pending
  <1> QED
    BY <1>1 DEF Kept, Stage, ListedRight

LEMMA AsyncStores ==
  ASSUME ThreadInv, NEW c \in Clients, NEW f \in Files, Kept(c, f), newest[f] # None,
         Storing(c, f),
         \/ StoreSum(c, "async") \/ StoreOpen(c, "async")
         \/ StoreBegin(c, "async") \/ StoreSend(c, "async")
  PROVE  Kept(c, f)'
  <1> DEFINE s == rpc[c]["async"]
             b == newest[f]
  <1>1. s.file = f /\ Sends(s, b) /\ Has(local[c][f], b) /\ s.pc # "none"
    BY DEF Storing, Sends
  <1>2. /\ Undeleted(c, f) /\ ~Pending(c, f) /\ CallShape(s)
        /\ rpc[c]["watcher"].pc = "none"
        /\ \A r : rpc' = [rpc EXCEPT ![c]["async"] = r]
                  => rpc'[c]["async"] = r /\ rpc'[c]["watcher"] = rpc[c]["watcher"]
    BY <1>1, AsyncTurn
  <1>3. Crc(local[c][f]) = b /\ local[c][f] # None /\ b \notin {Empty, Partial}
    BY <1>1 DEF Has, Crc, Kept
  <1>4. UNCHANGED <<local, events, batch, mutex, sync, newest>>
    BY DEF StoreSum, StoreOpen, StoreBegin, StoreSend, outside
  <1>5. Undeleted(c, f)' /\ ~Pending(c, f)' /\ Has(local[c][f], newest[f])'
    BY <1>1, <1>2, <1>4 DEF Undeleted, Pending
  <1>6. ASSUME NEW r, rpc' = [rpc EXCEPT ![c]["async"] = r], r.file = f, Sends(r, b)
        PROVE  Storing(c, f)' /\ rpc'[c]["async"] = r
    BY <1>2, <1>4, <1>5, <1>6 DEF Storing
  <1>7. ASSUME Return(c, "async"), server'[f] # None, server'[f].body = b
        PROVE  Same(c, f)'
    <2>1. rpc'[c]["async"] = NoCall /\ rpc'[c]["watcher"] = rpc[c]["watcher"]
      BY <1>2, <1>7 DEF Return
    <2> QED
      BY <1>2, <1>4, <1>5, <1>7, <2>1, NoCallShape DEF Same, About, Has
  <1>8. CASE StoreSum(c, "async")
    <2> DEFINE r == [s EXCEPT !.pc = "store_open", !.crc = Crc(local[c][f])]
    <2>1. rpc' = [rpc EXCEPT ![c]["async"] = r] /\ UNCHANGED lock /\ s.pc = "store_sum"
      BY <1>1, <1>8 DEF StoreSum, In
    <2>2. r.pc = "store_open" /\ r.crc = b /\ r.file = f
      BY <1>1, <1>2, <1>3 DEF CallShape, CallRecord
    <2> HIDE DEF r
    <2>3. Storing(c, f)'
      BY <1>6, <2>1, <2>2 DEF Sends
    <2>4. lock'[f] = None
      BY <2>1 DEF Kept
    <2> QED
      BY <1>2, <1>4, <1>5, <2>3, <2>4, AsyncKept
  <1>9. CASE StoreOpen(c, "async")
    <2> DEFINE r == [s EXCEPT !.pc = "store_begin", !.body = local[c][f].body]
    <2>1. rpc' = [rpc EXCEPT ![c]["async"] = r] /\ UNCHANGED lock /\ s.pc = "store_open"
      BY <1>1, <1>3, <1>9 DEF StoreOpen, In
    <2>2. r.pc = "store_begin" /\ r.crc = b /\ r.file = f /\ r.body = b
      BY <1>1, <1>2, <2>1 DEF CallShape, CallRecord, Sends, Has
    <2> HIDE DEF r
    <2>3. Storing(c, f)'
      BY <1>6, <2>1, <2>2 DEF Sends
    <2>4. lock'[f] = None
      BY <2>1 DEF Kept
    <2> QED
      BY <1>2, <1>4, <1>5, <2>3, <2>4, AsyncKept
  <1>10. CASE StoreBegin(c, "async")
    <2> DEFINE r == [s EXCEPT !.pc = "store_send"]
    <2>1. s.pc = "store_begin"
      BY <1>10 DEF StoreBegin, In
    <2>2. lock[f] = None /\ s.crc = b /\ s.body = b
      BY <1>1, <2>1 DEF Kept, Sends
    <2>3. \/ Crc(server[f]) = b /\ Return(c, "async") /\ UNCHANGED <<server, lock>>
          \/ rpc' = [rpc EXCEPT ![c]["async"] = r]
      BY <1>1, <1>10, <2>2 DEF StoreBegin, GoOn
    <2>4. r.pc = "store_send" /\ r.crc = b /\ r.file = f /\ r.body = b
      BY <1>1, <1>2, <2>2 DEF CallShape, CallRecord
    <2> HIDE DEF r
    <2>5. CASE Crc(server[f]) = b /\ Return(c, "async") /\ UNCHANGED <<server, lock>>
      <3>1. server'[f] # None /\ server'[f].body = b
        BY <1>3, <2>5 DEF Crc
      <3>2. Same(c, f)'
        BY <1>7, <2>5, <3>1
      <3>3. lock'[f] = None
        BY <2>2, <2>5
      <3> QED
        BY <1>2, <1>4, <1>5, <3>2, <3>3, AsyncKept
    <2>6. CASE rpc' = [rpc EXCEPT ![c]["async"] = r]
      <3>1. Storing(c, f)' /\ rpc'[c]["async"].pc = "store_send"
        BY <1>6, <2>4, <2>6 DEF Sends
      <3> QED
        BY <1>2, <1>4, <1>5, <3>1, AsyncKept
    <2> QED
      BY <2>3, <2>5, <2>6
  <1>11. CASE StoreSend(c, "async")
    <2>1. s.pc = "store_send"
      BY <1>11 DEF StoreSend, In
    <2>2. s.body = b
      BY <1>1, <2>1 DEF Sends
    <2>3. /\ server' = [server EXCEPT ![f] = [body |-> b, mtime |-> now]]
          /\ lock' = [lock EXCEPT ![f] = None] /\ Return(c, "async")
      BY <1>1, <1>3, <1>11, <2>2 DEF StoreSend
    <2> DEFINE x == [body |-> b, mtime |-> now]
    <2>4. x \in File /\ x.body = b /\ None \notin File
      BY <1>2, <2>1, <2>2, FileFacts, SyncAssumption DEF CallShape, ThreadInv, Counts
    <2>5. server'[f] = x /\ lock'[f] = None
      BY <2>3 DEF ThreadInv, Dirs, Locks
    <2> HIDE DEF x
    <2>6. Same(c, f)'
      BY <1>7, <2>3, <2>4, <2>5
    <2> QED
      BY <1>2, <1>4, <1>5, <2>5, <2>6, AsyncKept
  <1> QED
    BY <1>8, <1>9, <1>10, <1>11

LEMMA AsyncFetches ==
  ASSUME ThreadInv, NEW c \in Clients, NEW f \in Files, Kept(c, f), newest[f] # None,
         Fetching(c, f),
         \/ FetchStats(c, "async") \/ FetchCheck(c, "async")
         \/ FetchTruncate(c, "async") \/ FetchWrite(c, "async")
  PROVE  Kept(c, f)'
  <1> DEFINE s == rpc[c]["async"]
             b == newest[f]
  <1>1. /\ s.file = f /\ Receives(s, local[c][f], b) /\ Has(server[f], b) /\ s.pc # "none"
        /\ lock[f] = None
    BY DEF Fetching, Receives, Kept, Storing, Sends
  <1>2. /\ Undeleted(c, f) /\ ~Pending(c, f) /\ CallShape(s)
        /\ rpc[c]["watcher"].pc = "none"
        /\ \A r : rpc' = [rpc EXCEPT ![c]["async"] = r]
                  => rpc'[c]["async"] = r /\ rpc'[c]["watcher"] = rpc[c]["watcher"]
    BY <1>1, AsyncTurn
  <1>3. Crc(server[f]) = b /\ server[f] # None /\ b \notin {Empty, Partial}
    BY <1>1 DEF Has, Crc, Kept
  <1>4. UNCHANGED <<server, lock, batch, mutex, sync, newest>>
    BY DEF FetchStats, FetchCheck, FetchTruncate, FetchWrite, outside
  <1>5. ~Pending(c, f)' /\ Has(server[f], newest[f])' /\ lock'[f] = None
    BY <1>1, <1>2, <1>4 DEF Pending
  <1>6. Undeleted(c, f)'
    <2>1. UNCHANGED events \/ \E kind \in {"IN_CREATE", "IN_MODIFY"} : Tell(c, kind, f)
      BY <1>1 DEF FetchStats, FetchCheck, FetchTruncate, FetchWrite, Written
    <2>2. events[c] \in Seq(Event) /\ events \in [Clients -> Seq(Event)]
      BY DEF ThreadInv, Queues
    <2>3. ASSUME NEW kind \in {"IN_CREATE", "IN_MODIFY"}, Tell(c, kind, f)
          PROVE  NoDelete(events[c], f)'
      BY <1>2, <2>2, <2>3, NotifyEvents DEF Tell, Undeleted
    <2> QED
      BY <1>2, <1>4, <2>1, <2>3 DEF Undeleted
  <1>7. ASSUME NEW r, rpc' = [rpc EXCEPT ![c]["async"] = r], r.file = f,
               Receives(r, local'[c][f], b)
        PROVE  Fetching(c, f)'
    BY <1>2, <1>4, <1>5, <1>7 DEF Fetching
  <1>8. ASSUME Return(c, "async"), local'[c][f] # None, local'[c][f].body = b
        PROVE  Same(c, f)'
    <2>1. rpc'[c]["async"] = NoCall /\ rpc'[c]["watcher"] = rpc[c]["watcher"]
      BY <1>2, <1>8 DEF Return
    <2> QED
      BY <1>2, <1>4, <1>5, <1>8, <2>1, NoCallShape DEF Same, About, Has
  <1>9. CASE FetchStats(c, "async")
    <2> DEFINE r == [s EXCEPT !.pc = "fetch_check"]
    <2>1. /\ \/ Crc(local[c][f]) = b /\ Return(c, "async")
             \/ rpc' = [rpc EXCEPT ![c]["async"] = r]
          /\ UNCHANGED local
      BY <1>1, <1>3, <1>9 DEF FetchStats, GoOn
    <2>2. r.pc = "fetch_check" /\ r.file = f
      BY <1>1, <1>2 DEF CallShape, CallRecord
    <2> HIDE DEF r
    <2>3. CASE Crc(local[c][f]) = b /\ Return(c, "async")
      <3>1. Same(c, f)'
        BY <1>3, <1>8, <2>1, <2>3 DEF Crc
      <3> QED
        BY <1>2, <1>4, <1>5, <1>6, <3>1, AsyncKept
    <2>4. CASE rpc' = [rpc EXCEPT ![c]["async"] = r]
      <3>1. Fetching(c, f)'
        BY <1>7, <2>2, <2>4 DEF Receives
      <3> QED
        BY <1>2, <1>4, <1>5, <1>6, <3>1, AsyncKept
    <2> QED
      BY <2>1, <2>3, <2>4
  <1>10. CASE FetchCheck(c, "async")
    <2> DEFINE r == [s EXCEPT !.pc = "fetch_truncate", !.body = b]
    <2>1. server[f].body = b
      BY <1>1 DEF Has
    <2>2. rpc' = [rpc EXCEPT ![c]["async"] = r]
      BY <1>1, <1>3, <1>10, <2>1 DEF FetchCheck
    <2>3. r.pc = "fetch_truncate" /\ r.file = f /\ r.body = b
      BY <1>1, <1>2 DEF CallShape, CallRecord
    <2> HIDE DEF r
    <2>4. Fetching(c, f)'
      BY <1>7, <2>2, <2>3 DEF Receives
    <2> QED
      BY <1>2, <1>4, <1>5, <1>6, <2>4, AsyncKept
  <1>11. CASE FetchTruncate(c, "async")
    <2> DEFINE r == [s EXCEPT !.pc = "fetch_write"]
               x == [body |-> Empty, mtime |-> now]
    <2>1. s.body = b
      BY <1>1, <1>11 DEF Receives, FetchTruncate, In
    <2>2. rpc' = [rpc EXCEPT ![c]["async"] = r] /\ local' = [local EXCEPT ![c][f] = x]
      BY <1>1, <1>3, <1>11, <2>1 DEF FetchTruncate, GoOn
    <2>3. r.pc = "fetch_write" /\ r.file = f /\ r.body = b
      BY <1>1, <1>2, <2>1 DEF CallShape, CallRecord
    <2>4. x \in File /\ None \notin File
      BY FileFacts, ContentFacts, SyncAssumption DEF ThreadInv, Counts
    <2>5. local'[c][f] # None
      BY <2>2, <2>4 DEF ThreadInv, Dirs
    <2> HIDE DEF r, x
    <2>6. Fetching(c, f)'
      BY <1>7, <2>2, <2>3, <2>5 DEF Receives
    <2> QED
      BY <1>2, <1>4, <1>5, <1>6, <2>6, AsyncKept
  <1>12. CASE FetchWrite(c, "async")
    <2> DEFINE x == [body |-> b, mtime |-> now]
    <2>1. s.body = b /\ local[c][f] # None
      BY <1>1, <1>12 DEF Receives, FetchWrite, In
    <2>2. local' = [local EXCEPT ![c][f] = x] /\ Return(c, "async")
      BY <1>1, <1>12, <2>1 DEF FetchWrite, Written
    <2>3. b \in Contents
      BY <1>1, FileFacts DEF Has, ThreadInv, Dirs
    <2>4. x \in File /\ None \notin File /\ x.body = b
      BY <2>3, FileFacts, SyncAssumption DEF ThreadInv, Counts
    <2>5. local'[c][f] = x
      BY <2>2 DEF ThreadInv, Dirs
    <2> HIDE DEF x
    <2>6. Same(c, f)'
      BY <1>8, <2>2, <2>4, <2>5
    <2> QED
      BY <1>2, <1>4, <1>5, <1>6, <2>6, AsyncKept
  <1> QED
    BY <1>9, <1>10, <1>11, <1>12

LEMMA CallingKept ==
  ASSUME ThreadInv, MaxFailures = 0, NEW c \in Clients, NEW t \in Threads, NEW f \in Files,
         Kept(c, f), newest[f] # None, Calling(c, t)
  PROVE  Kept(c, f)'
  <1>1. Touches(c, t, rpc[c][t].file) /\ rpc[c][t].pc # "none" /\ rpc[c][t].file \in Files
    BY CallTouches, CallFacts
  <1>2. CASE rpc[c][t].file # f
    BY <1>1, <1>2, OtherFile DEF About
  <1>3. CASE rpc[c][t].file = f /\ t = "watcher"
    BY <1>3, EchoKept
  <1>4. CASE rpc[c][t].file = f /\ t = "async"
    <2>1. ~(failures < MaxFailures)
      BY DEF ThreadInv, Counts
    <2>2. CASE Storing(c, f)
      <3>1. rpc[c][t].pc \in {"store_sum", "store_open", "store_begin", "store_send"}
        BY <1>4, <2>2 DEF Storing, Sends
      <3> QED
        BY <1>4, <2>1, <2>2, <3>1, CallPcs, AsyncStores
    <2>3. CASE Fetching(c, f)
      <3>1. rpc[c][t].pc \in {"fetch_stats", "fetch_check", "fetch_truncate", "fetch_write"}
        BY <1>4, <2>3 DEF Fetching, Receives
      <3> QED
        BY <1>4, <2>1, <2>3, <3>1, CallPcs, AsyncFetches
    <2> QED
      BY <1>1, <1>4, <2>2, <2>3, AsyncTurn
  <1> QED
    BY <1>2, <1>3, <1>4 DEF Threads

----------------------------------------------------------------------------
(* What else happens to a file: nothing, as long as the listing is right.  *)

LEMMA StageKept ==
  ASSUME ThreadInv, NEW c \in Clients, NEW f \in Files, Kept(c, f),
         UNCHANGED <<server, lock, local, events, batch, rpc, newest>>,
         ListedRight(c, f)', Fresh(c, f) => Pending(c, f)' /\ ~mounted'[c],
         ~Pending(c, f) /\ (Storing(c, f) \/ Fetching(c, f)) => ~Pending(c, f)'
  PROVE  Kept(c, f)'
  <1>1. Fresh(c, f) => Fresh(c, f)'
    BY DEF Fresh
  <1>2. Same(c, f) => Same(c, f)'
    BY DEF Same
  <1>3. Storing(c, f) => Storing(c, f)'
    BY DEF Storing
  <1>4. Fetching(c, f) => Fetching(c, f)'
    BY DEF Fetching
  <1>5. Undeleted(c, f) => Undeleted(c, f)'
    BY DEF Undeleted
  <1> QED
    BY <1>1, <1>2, <1>3, <1>4, <1>5 DEF Kept, Stage

LEMMA ReadEventsKept ==
  ASSUME ThreadInv, NEW c \in Clients, NEW f \in Files, Kept(c, f), ReadEvents(c)
  PROVE  Kept(c, f)'
  <1>1. /\ batch'[c] = events[c] /\ events'[c] = <<>>
        /\ UNCHANGED <<server, lock, local, mutex, rpc, listing, sync, mounted, newest>>
    BY DEF ReadEvents, ThreadInv, Queues, outside
  <1>2. NoEvent(<<>>, f) /\ NoDelete(<<>>, f)
    BY DEF NoEvent, NoDelete
  <1>3. /\ Fresh(c, f) => Fresh(c, f)'
        /\ Undeleted(c, f) => Undeleted(c, f)'
    BY <1>1, <1>2 DEF Fresh, Undeleted, Pending
  <1>4. /\ Same(c, f) => Same(c, f)'
        /\ Storing(c, f) => Storing(c, f)'
        /\ Fetching(c, f) => Fetching(c, f)'
    BY <1>1 DEF Same, Storing, Fetching, Pending
  <1>5. ListedRight(c, f)'
    BY <1>1 DEF Kept, ListedRight, Pending, Noted
  <1> QED
    BY <1>1, <1>3, <1>4, <1>5 DEF Kept, Stage

LEMMA DispatchKept ==
  ASSUME ThreadInv, NEW c \in Clients, NEW f \in Files, Kept(c, f), newest[f] # None, Dispatch(c)
  PROVE  Kept(c, f)'
  <1> DEFINE e == Head(batch[c])
             r == [NoCall EXCEPT !.pc = IF e.kind = "IN_DELETE" THEN "delete" ELSE "store_sum",
                                 !.file = e.file]
  <1>1. /\ UNCHANGED rpc \/ rpc' = [rpc EXCEPT ![c]["watcher"] = r]
        /\ batch' = [batch EXCEPT ![c] = Tail(batch[c])]
        /\ mutex[c] = "watcher" /\ rpc[c]["watcher"].pc = "none" /\ batch[c] # <<>>
        /\ UNCHANGED <<server, lock, local, events, mutex, listing, sync, mounted, newest>>
    BY DEF Dispatch, Call, Idle, outside
  <1>2. batch[c] \in Seq(Event) /\ batch'[c] = Tail(batch[c])
    BY <1>1 DEF ThreadInv, Queues
  <1>3. /\ NoEvent(batch[c], f) => NoEvent(batch'[c], f) /\ e.file # f
        /\ NoDelete(batch[c], f) => NoDelete(batch'[c], f) /\ (e.file = f => e.kind # "IN_DELETE")
    BY <1>1, <1>2, TailEvents
  <1>4. /\ r.pc = IF e.kind = "IN_DELETE" THEN "delete" ELSE "store_sum"
        /\ r.file = e.file
    BY DEF NoCall
  <1> HIDE DEF e, r
  <1>5. /\ \A u \in Threads : u # "watcher" => rpc'[c][u] = rpc[c][u]
        /\ rpc'[c]["watcher"] = rpc[c]["watcher"] \/ rpc'[c]["watcher"] = r
        /\ "async" \in Threads /\ "watcher" \in Threads
    BY <1>1 DEF ThreadInv, CallsShaped, Threads
  <1>6. Fresh(c, f) => Fresh(c, f)'
    <2> SUFFICES ASSUME Fresh(c, f) PROVE Fresh(c, f)'
      OBVIOUS
    <2>1. \A u \in Threads : ~About(rpc'[c][u], f)
      BY <1>3, <1>4, <1>5 DEF Fresh, About
    <2> QED
      BY <1>1, <1>3, <2>1 DEF Fresh, Pending
  <1>7. ~Storing(c, f) /\ ~Fetching(c, f)
    BY <1>1 DEF Storing, Fetching, Pending
  <1>8. Same(c, f) /\ Undeleted(c, f) => Same(c, f)' /\ Undeleted(c, f)'
    <2> SUFFICES ASSUME Same(c, f), Undeleted(c, f) PROVE Same(c, f)' /\ Undeleted(c, f)'
      OBVIOUS
    <2>1. About(r, f) => Echo(r, newest[f])
      BY <1>3, <1>4 DEF Undeleted, About, Echo
    <2> QED
      BY <1>1, <1>3, <1>5, <2>1 DEF Same, Undeleted
  <1>9. ListedRight(c, f)'
    BY <1>1 DEF Kept, ListedRight, Pending, Noted
  <1>10. lock'[f] = None
    BY <1>1, <1>7 DEF Kept
  <1> QED
    BY <1>1, <1>6, <1>7, <1>8, <1>9, <1>10 DEF Kept, Stage

LEMMA WatcherMutexKept ==
  ASSUME ThreadInv, NEW c \in Clients, NEW f \in Files, Kept(c, f),
         WatcherLock(c) \/ WatcherUnlock(c)
  PROVE  Kept(c, f)'
  <1>1. /\ mutex[c] # "async" /\ mutex'[c] # "async"
        /\ UNCHANGED <<server, lock, local, events, batch, rpc, listing, sync, mounted, newest>>
    BY SyncAssumption DEF WatcherLock, WatcherUnlock, ThreadInv, CallsShaped, Threads, outside
  <1>2. Pending(c, f) /\ Pending(c, f)'
    BY <1>1 DEF Pending
  <1>3. ListedRight(c, f)'
    BY <1>1, <1>2 DEF Kept, ListedRight, Noted
  <1> QED
    BY <1>1, <1>2, <1>3, StageKept DEF Fresh

(* The listing is made while no other thread changes a file of the server  *)
(* it has yet to report.                                                   *)
LEMMA ListKept ==
  ASSUME ThreadInv, NEW c \in Clients, NEW f \in Files, Kept(c, f), List(c)
  PROVE  Kept(c, f)'
  <1> DEFINE l == listing[c]
             x == server[f]
  <1>1. UNCHANGED <<server, lock, local, events, batch, mutex, rpc, sync, mounted, newest>>
    BY DEF List, ListOpen, ListStat, ListSum, ListReply, outside
  <1>2. Pending(c, f)' <=> Pending(c, f)
    BY <1>1 DEF Pending
  <1>3. l \in ListingRecord /\ listing \in [Clients -> ListingRecord]
    BY DEF ThreadInv, Rounds
  <1>4. ASSUME Reflects(l, f, x), l.pc # "replied" PROVE Reflects(listing'[c], f, x)
    <2> HIDE DEF x
    <2>1. CASE ListOpen(c)
      <3> DEFINE n == [l EXCEPT !.pc = "list", !.names = {g \in Files : server[g] # None}]
      <3>1. listing'[c] = n /\ l.pc = "asked"
        BY <1>3, <2>1 DEF ListOpen
      <3>2. n.pc = "list" /\ n.entry = l.entry /\ n.mtime = l.mtime /\ (f \in n.names <=> x # None)
        BY <1>3 DEF ListingRecord, x
      <3>3. n.mtime[f] = None /\ n.entry # f
        BY <1>4, <3>1, <3>2 DEF Reflects
      <3> HIDE DEF n, l
      <3> QED
        BY <3>1, <3>2, <3>3 DEF Reflects
    <2>2. ASSUME NEW g \in Files, ListStat(c, g) PROVE Reflects(listing'[c], f, x)
      <3> DEFINE date == IF server[g] = None THEN l.date ELSE server[g].mtime
                 n == [l EXCEPT !.entry = g, !.date = date, !.mtime[g] = date]
      <3>1. listing'[c] = n /\ l.pc = "list" /\ l.entry = None /\ g \in l.names
        BY <1>3, <2>2 DEF ListStat
      <3>2. /\ n.pc = l.pc /\ n.entry = g /\ n.names = l.names /\ n.crc = l.crc
            /\ n.mtime[f] = IF g = f THEN date ELSE l.mtime[f]
        BY <1>3 DEF ListingRecord
      <3>3. g = f => x # None /\ date = x.mtime
        BY <1>4, <3>1 DEF Reflects, x
      <3>4. date \in 0 .. MaxTime /\ None \notin 0 .. MaxTime
        BY <1>3, SyncAssumption, FileFacts DEF ListingRecord, ThreadInv, Dirs
      <3> HIDE DEF n, l, date
      <3> QED
        BY <1>4, <3>1, <3>2, <3>3, <3>4 DEF Reflects
    <2>3. ASSUME NEW g \in Files, ListSum(c, g) PROVE Reflects(listing'[c], f, x)
      <3> DEFINE n == [l EXCEPT !.names = l.names \ {g}, !.entry = None, !.crc[g] = Crc(server[g])]
      <3>1. listing'[c] = n /\ l.pc = "list" /\ l.entry = g
        BY <1>3, <2>3 DEF ListSum
      <3>2. /\ n.pc = l.pc /\ n.entry = None /\ n.names = l.names \ {g} /\ n.mtime = l.mtime
            /\ n.crc[f] = IF g = f THEN Crc(server[g]) ELSE l.crc[f]
        BY <1>3 DEF ListingRecord
      <3>3. f # None
        BY SyncAssumption
      <3>4. x # None => Crc(x) = x.body
        BY DEF Crc
      <3> HIDE DEF n, l
      <3>5. CASE g = f
        BY <1>4, <3>1, <3>2, <3>3, <3>4, <3>5 DEF Reflects, x
      <3>6. CASE g # f
        BY <1>4, <3>1, <3>2, <3>3, <3>6 DEF Reflects
      <3> QED
        BY <3>5, <3>6
    <2>4. CASE ListReply(c)
      <3> DEFINE n == [l EXCEPT !.pc = "replied", !.date = 0]
      <3>1. listing'[c] = n /\ l.pc = "list" /\ l.names = {}
        BY <1>3, <2>4 DEF ListReply
      <3>2. /\ n.pc = "replied" /\ n.entry = l.entry /\ n.names = l.names
            /\ n.mtime = l.mtime /\ n.crc = l.crc
        BY <1>3 DEF ListingRecord
      <3> HIDE DEF n, l
      <3> QED
        BY <1>4, <3>1, <3>2 DEF Reflects
    <2> QED
      BY <2>1, <2>2, <2>3, <2>4 DEF List
  <1>5. l.pc # "replied"
    BY DEF List, ListOpen, ListStat, ListSum, ListReply
  <1>6. Noted(c, f) => Noted(c, f)'
    BY <1>1, <1>5 DEF Noted
  <1>7. ListedRight(c, f)'
    BY <1>1, <1>2, <1>4, <1>5, <1>6 DEF Kept, ListedRight
  <1> QED
    BY <1>1, <1>2, <1>7, StageKept DEF Fresh

(* A round of HandleCallbackList begins, and notes what there is.          *)
LEMMA SyncStartKept ==
  ASSUME ThreadInv, NEW c \in Clients, NEW f \in Files, Kept(c, f), SyncStart(c)
  PROVE  Kept(c, f)'
  <1> DEFINE l == listing[c]
             st == [g \in Files |-> IF local[c][g] = None THEN None ELSE local[c][g].mtime]
             n == [remote |-> {g \in Files : l.mtime[g] # None}, storage |-> st, extra |-> FALSE]
  <1>1. /\ l.pc = "replied" /\ mutex[c] = None /\ mutex' = [mutex EXCEPT ![c] = "async"]
        /\ sync' = [sync EXCEPT ![c] = n]
        /\ UNCHANGED <<server, lock, local, events, batch, rpc, listing, mounted, newest>>
    BY DEF SyncStart, outside
  <1>2. Pending(c, f) /\ ~Storing(c, f) /\ ~Fetching(c, f)
    BY <1>1, SyncAssumption DEF Pending, Threads, Storing, Fetching
  <1>3. Reflects(l, f, server[f])
    BY <1>2 DEF Kept, ListedRight
  <1>4. l.mtime[f] # None <=> server[f] # None
    BY <1>1, <1>3 DEF Reflects
  <1>5. mutex'[c] = "async" /\ sync'[c] = n
    BY <1>1 DEF ThreadInv, CallsShaped, Rounds
  <1>6. (f \in n.remote <=> server[f] # None)
        /\ n.storage[f] = IF local[c][f] = None THEN None ELSE local[c][f].mtime
    BY <1>4
  <1> HIDE DEF n, l
  <1>7. Reflects(listing[c], f, server[f])' /\ Noted(c, f)'
    BY <1>1, <1>3, <1>5, <1>6 DEF Noted, l
  <1>8. Fresh(c, f) => Pending(c, f)'
    <2> SUFFICES ASSUME Fresh(c, f) PROVE Pending(c, f)'
      OBVIOUS
    <2>1. server[f] # None \/ local[c][f] # None
      BY DEF Fresh, Latest
    <2>2. local[c][f] # None => local[c][f].mtime # None
      BY SyncAssumption, FileFacts DEF ThreadInv, Dirs
    <2> QED
      BY <1>5, <1>6, <2>1, <2>2 DEF Pending
  <1> QED
    BY <1>1, <1>2, <1>7, <1>8, StageKept DEF ListedRight, Fresh

(* What the round does about another file.                                 *)
LEMMA RoundOther ==
  ASSUME ThreadInv, NEW c \in Clients, NEW f \in Files, Kept(c, f),
         mutex[c] = "async", rpc[c]["async"].pc = "none",
         NEW r, UNCHANGED rpc \/ rpc' = [rpc EXCEPT ![c]["async"] = r], ~About(r, f),
         UNCHANGED <<server, lock, batch, mutex, listing, mounted, newest>>,
         local'[c][f] = local[c][f],
         NoEvent(events[c], f) => NoEvent(events'[c], f),
         NoDelete(events[c], f) => NoDelete(events'[c], f),
         f \in sync'[c].remote <=> f \in sync[c].remote,
         sync'[c].storage[f] = sync[c].storage[f]
  PROVE  Kept(c, f)'
  <1>1. ~Storing(c, f) /\ ~Fetching(c, f)
    BY DEF Storing, Fetching, Sends, Receives
  <1>2. /\ rpc'[c]["async"] = rpc[c]["async"] \/ rpc'[c]["async"] = r
        /\ rpc'[c]["watcher"] = rpc[c]["watcher"]
        /\ "async" \in Threads /\ "watcher" \in Threads
        /\ \A u \in Threads : u \in {"async", "watcher"}
    BY DEF ThreadInv, CallsShaped, Threads
  <1>3. \A u \in Threads : About(rpc'[c][u], f) => About(rpc[c][u], f) /\ rpc'[c][u] = rpc[c][u]
    BY <1>2
  <1>4. Pending(c, f)' = Pending(c, f)
    BY DEF Pending
  <1>5. Fresh(c, f) => Fresh(c, f)'
    BY <1>3, <1>4 DEF Fresh
  <1>6. Same(c, f) => Same(c, f)'
    BY <1>2, <1>3 DEF Same
  <1>7. Undeleted(c, f) => Undeleted(c, f)'
    BY DEF Undeleted
  <1>8. ListedRight(c, f)'
    BY <1>4 DEF Kept, ListedRight, Noted
  <1> QED
    BY <1>1, <1>5, <1>6, <1>7, <1>8 DEF Kept, Stage

(* What a begun call is about.                                             *)
LEMMA Begun ==
  ASSUME ThreadInv, NEW c \in Clients, NEW pc \in {"store_sum", "fetch_stats", "delete"},
         NEW g, Call(c, "async", pc, g)
  PROVE  /\ \E r : rpc' = [rpc EXCEPT ![c]["async"] = r] /\ r.file = g
         /\ rpc'[c]["async"].pc = pc /\ rpc'[c]["async"].file = g
         /\ rpc'[c]["watcher"] = rpc[c]["watcher"]
  <1> DEFINE r == [NoCall EXCEPT !.pc = pc, !.file = g]
  <1>1. rpc' = [rpc EXCEPT ![c]["async"] = r]
    BY DEF Call
  <1>2. r.pc = pc /\ r.file = g
    BY DEF NoCall
  <1> HIDE DEF r
  <1> QED
    BY <1>1, <1>2 DEF ThreadInv, CallsShaped, Threads

LEMMA SyncEntryKept ==
  ASSUME ThreadInv, NEW c \in Clients, NEW f \in Files, Kept(c, f), newest[f] # None,
         NEW g \in Files, SyncEntry(c, g)
  PROVE  Kept(c, f)'
  <1> DEFINE s == sync[c]
             l == listing[c]
             b == newest[f]
  <1>1. /\ mutex[c] = "async" /\ rpc[c]["async"].pc = "none" /\ g \in s.remote
        /\ UNCHANGED <<server, lock, local, events, batch, mutex, listing, mounted, newest>>
    BY DEF SyncEntry, Idle, outside
  <1>2. /\ s \in SyncRecord
        /\ sync'[c] = [s EXCEPT !.remote = s.remote \ {g}, !.storage[g] = None]
    BY DEF ThreadInv, Rounds, SyncEntry
  <1>3. /\ sync'[c].remote = s.remote \ {g}
        /\ sync'[c].storage = [s.storage EXCEPT ![g] = None]
        /\ s.storage \in [Files -> 0 .. MaxTime \cup {None}]
    BY <1>2 DEF SyncRecord
  <1>4. UNCHANGED rpc \/ \E pc \in {"store_sum", "fetch_stats", "delete"} : Call(c, "async", pc, g)
    BY DEF SyncEntry
  <1>5. CASE g # f
    <2>1. PICK r : (UNCHANGED rpc \/ rpc' = [rpc EXCEPT ![c]["async"] = r]) /\ ~About(r, f)
      BY <1>4, <1>5, Begun, NoCallShape DEF About
    <2>2. (f \in sync'[c].remote <=> f \in sync[c].remote) /\ sync'[c].storage[f] = sync[c].storage[f]
      BY <1>3, <1>5
    <2> QED
      BY <1>1, <2>1, <2>2, RoundOther
  <1>6. CASE g = f
    <2>1. Pending(c, f) /\ ~Pending(c, f)'
      BY <1>1, <1>3, <1>6 DEF Pending
    <2>2. /\ l.pc = "replied" /\ server[f] # None /\ l.mtime[f] = server[f].mtime
          /\ l.crc[f] = server[f].body
          /\ s.storage[f] = IF local[c][f] = None THEN None ELSE local[c][f].mtime
      BY <1>1, <1>6, <2>1 DEF Kept, ListedRight, Reflects, Noted
    <2>3. /\ local[c][f] # None => local[c][f].mtime \in 0 .. MaxTime /\ local[c][f].mtime # None
          /\ server[f].mtime \in 0 .. MaxTime
      BY <2>2, FileFacts, SyncAssumption DEF ThreadInv, Dirs
    <2>4. s.storage[f] = None <=> local[c][f] = None
      BY <2>2, <2>3
    <2>5. /\ ~Storing(c, f) /\ ~Fetching(c, f) /\ lock'[f] = None
      BY <1>1, <2>1 DEF Storing, Fetching, Kept
    <2>6. (Fresh(c, f) => Undeleted(c, f)) /\ (Undeleted(c, f) => Undeleted(c, f)')
      BY <1>1 DEF Fresh, NoEvent, NoDelete, Undeleted
    <2>7. \/ /\ local[c][f] = None
             /\ Call(c, "async", IF mounted[c] THEN "delete" ELSE "fetch_stats", f)
          \/ local[c][f] # None /\ server[f].body = local[c][f].body /\ UNCHANGED rpc
          \/ /\ local[c][f] # None /\ server[f].body # local[c][f].body
             /\ Call(c, "async", IF server[f].mtime > local[c][f].mtime THEN "fetch_stats" ELSE "store_sum", f)
      BY <1>6, <2>2, <2>4 DEF SyncEntry, Crc
    <2>8. CASE local[c][f] # None /\ server[f].body = local[c][f].body /\ UNCHANGED rpc
      <3>1. Fresh(c, f) => Same(c, f)
        BY <2>2, <2>8 DEF Fresh, Latest, Same, Has, Threads
      <3>2. Same(c, f) => Same(c, f)'
        BY <1>1, <2>8 DEF Same
      <3> QED
        BY <1>1, <2>1, <2>5, <2>6, <3>1, <3>2 DEF Kept, Stage, ListedRight
    <2>9. ~(local[c][f] # None /\ server[f].body = local[c][f].body) => Fresh(c, f)
      BY <2>5 DEF Kept, Stage, Same, Has
    <2>10. CASE local[c][f] = None /\ Call(c, "async", "fetch_stats", f)
      <3>1. Fetching(c, f)'
        <4>1. Has(server[f], b)
          BY <2>9, <2>10 DEF Fresh, Latest, Has
        <4>2. rpc'[c]["async"].pc = "fetch_stats" /\ rpc'[c]["async"].file = f
          BY <2>10, Begun
        <4> QED
          BY <1>1, <2>1, <4>1, <4>2 DEF Fetching, Receives
      <3> QED
        BY <1>1, <2>1, <2>5, <2>6, <2>9, <2>10, <3>1 DEF Kept, Stage, ListedRight
    <2>11. CASE local[c][f] # None /\ server[f].mtime > local[c][f].mtime
                /\ server[f].body # local[c][f].body /\ Call(c, "async", "fetch_stats", f)
      <3>1. Fetching(c, f)'
        <4>1. Has(server[f], b)
          BY <2>2, <2>3, <2>9, <2>11 DEF Fresh, Latest, Has
        <4>2. rpc'[c]["async"].pc = "fetch_stats" /\ rpc'[c]["async"].file = f
          BY <2>11, Begun
        <4> QED
          BY <1>1, <2>1, <4>1, <4>2 DEF Fetching, Receives
      <3> QED
        BY <1>1, <2>1, <2>5, <2>6, <2>9, <2>11, <3>1 DEF Kept, Stage, ListedRight
    <2>12. CASE local[c][f] # None /\ ~(server[f].mtime > local[c][f].mtime)
                /\ server[f].body # local[c][f].body /\ Call(c, "async", "store_sum", f)
      <3>1. Storing(c, f)'
        <4>1. Has(local[c][f], b)
          BY <2>2, <2>9, <2>12 DEF Fresh, Latest, Has
        <4>2. rpc'[c]["async"].pc = "store_sum" /\ rpc'[c]["async"].file = f
          BY <2>12, Begun
        <4> QED
          BY <1>1, <2>1, <4>1, <4>2 DEF Storing, Sends
      <3> QED
        BY <1>1, <2>1, <2>5, <2>6, <2>9, <2>12, <3>1 DEF Kept, Stage, ListedRight
    <2> QED
      BY <2>7, <2>8, <2>9, <2>10, <2>11, <2>12 DEF Fresh
  <1> QED
    BY <1>5, <1>6

LEMMA SyncExtraKept ==
  ASSUME ThreadInv, NEW c \in Clients, NEW f \in Files, Kept(c, f), newest[f] # None,
         NEW g \in Files, SyncExtra(c, g)
  PROVE  Kept(c, f)'
  <1> DEFINE s == sync[c]
  <1>1. /\ mutex[c] = "async" /\ rpc[c]["async"].pc = "none" /\ s.remote = {}
        /\ s.storage[g] # None
        /\ \/ ~mounted[c] /\ Call(c, "async", "store_sum", g) /\ UNCHANGED <<local, events>>
           \/ /\ mounted[c] /\ local' = [local EXCEPT ![c][g] = None] /\ UNCHANGED rpc
              /\ UNCHANGED events \/ Tell(c, "IN_DELETE", g)
        /\ UNCHANGED <<server, lock, batch, mutex, listing, mounted, newest>>
    BY DEF SyncExtra, Idle, outside
  <1>2. /\ s \in SyncRecord
        /\ sync'[c] = [s EXCEPT !.storage[g] = None, !.extra = TRUE]
    BY DEF ThreadInv, Rounds, SyncExtra
  <1>3. /\ sync'[c].remote = s.remote
        /\ sync'[c].storage = [s.storage EXCEPT ![g] = None]
        /\ s.storage \in [Files -> 0 .. MaxTime \cup {None}]
    BY <1>2 DEF SyncRecord
  <1>4. CASE g # f
    <2>1. PICK r : (UNCHANGED rpc \/ rpc' = [rpc EXCEPT ![c]["async"] = r]) /\ ~About(r, f)
      BY <1>1, <1>4, Begun, NoCallShape DEF About
    <2>2. (f \in sync'[c].remote <=> f \in sync[c].remote) /\ sync'[c].storage[f] = sync[c].storage[f]
      BY <1>3, <1>4
    <2>3. local'[c][f] = local[c][f]
      BY <1>1, <1>4 DEF ThreadInv, Dirs
    <2>4. /\ NoEvent(events[c], f) => NoEvent(events'[c], f)
          /\ NoDelete(events[c], f) => NoDelete(events'[c], f)
      <3>1. events[c] \in Seq(Event) /\ events \in [Clients -> Seq(Event)]
        BY DEF ThreadInv, Queues
      <3>2. CASE Tell(c, "IN_DELETE", g)
        BY <1>4, <3>1, <3>2, NotifyEvents DEF Tell
      <3> QED
        BY <1>1, <3>2
    <2> QED
      BY <1>1, <2>1, <2>2, <2>3, <2>4, RoundOther
  <1>5. CASE g = f
    <2>1. Pending(c, f) /\ ~Pending(c, f)'
      BY <1>1, <1>3, <1>5 DEF Pending
    <2>2. server[f] = None /\ local[c][f] # None
      BY <1>1, <1>5, <2>1 DEF Kept, ListedRight, Noted
    <2>3. Fresh(c, f) /\ lock[f] = None
      BY <2>1, <2>2 DEF Kept, Stage, Same, Storing, Fetching, Has
    <2>4. Call(c, "async", "store_sum", f) /\ UNCHANGED <<local, events>>
      BY <1>1, <1>5, <2>3 DEF Fresh
    <2>5. Has(local[c][f], newest[f])
      BY <2>2, <2>3 DEF Fresh, Latest, Has
    <2>6. rpc'[c]["async"].pc = "store_sum" /\ rpc'[c]["async"].file = f
      BY <2>4, Begun
    <2>7. Storing(c, f)'
      BY <1>1, <2>1, <2>4, <2>5, <2>6 DEF Storing, Sends
    <2>8. Undeleted(c, f)'
      BY <1>1, <2>3, <2>4 DEF Fresh, NoEvent, NoDelete, Undeleted
    <2> QED
      BY <1>1, <2>1, <2>3, <2>7, <2>8 DEF Kept, Stage, ListedRight
  <1> QED
    BY <1>4, <1>5

(* When the round ends, everything is either the same on both ends or is   *)
(* not anywhere: mounted, once set, has no file left to make a mistake on. *)
LEMMA SyncEndKept ==
  ASSUME ThreadInv, NEW c \in Clients, NEW f \in Files, Kept(c, f), newest[f] # None, SyncEnd(c)
  PROVE  Kept(c, f)'
  <1>1. /\ rpc[c]["async"].pc = "none" /\ sync[c].remote = {} /\ sync[c].storage[f] = None
        /\ mutex[c] = "async" /\ mutex' = [mutex EXCEPT ![c] = None]
        /\ listing' = [listing EXCEPT ![c] = Asked]
        /\ UNCHANGED <<server, lock, local, events, batch, rpc, newest>>
    BY DEF SyncEnd, Idle, outside
  <1>2. ~Pending(c, f)
    BY <1>1 DEF Pending
  <1>3. ~Fresh(c, f) /\ ~Storing(c, f) /\ ~Fetching(c, f)
    BY <1>1, <1>2 DEF Fresh, Storing, Fetching, Sends, Receives
  <1>4. mutex'[c] # "async" /\ listing'[c] = Asked
    BY <1>1, SyncAssumption DEF ThreadInv, CallsShaped, Rounds, Threads
  <1>5. Reflects(Asked, f, server[f])
    BY SyncAssumption DEF Reflects, Asked
  <1>6. ListedRight(c, f)'
    BY <1>1, <1>4, <1>5 DEF ListedRight, Noted
  <1> QED
    BY <1>1, <1>3, <1>6, StageKept

LEMMA OtherKept ==
  ASSUME ThreadInv, NEW c \in Clients, NEW f \in Files, Kept(c, f),
         UNCHANGED <<server, lock, local, events, batch, mutex, rpc, listing, sync, mounted, newest>>
  PROVE  Kept(c, f)'
  <1>1. Pending(c, f)' = Pending(c, f)
    BY DEF Pending
  <1>2. ListedRight(c, f)'
    BY <1>1 DEF Kept, ListedRight, Noted
  <1> QED
    BY <1>1, <1>2, StageKept DEF Fresh

LEMMA KeptStep ==
  ASSUME NEW c, Clients = {c}, MaxEdits = 0, MaxFailures = 0, ThreadInv, KeptInv(c), [Next]_vars
  PROVE  KeptInv(c)'
  <1> SUFFICES ASSUME NEW f \in Files, newest'[f] # None PROVE Kept(c, f)'
    BY DEF KeptInv
  <1>1. c \in Clients /\ edits = 0 /\ failures = 0
    BY DEF ThreadInv, Counts
  <1>2. CASE UNCHANGED vars
    BY <1>1, <1>2, OtherKept DEF vars, outside, KeptInv
  <1>3. ASSUME NEW t \in Threads, Calling(c, t) PROVE Kept(c, f)'
    <2>1. UNCHANGED newest
      BY <1>1, <1>3, CallTouches DEF Touches
    <2> QED
      BY <1>1, <1>3, <2>1, CallingKept DEF KeptInv
  <1>4. CASE Watcher(c) \/ WatcherLock(c)
    <2>1. UNCHANGED newest
      BY <1>4 DEF Watcher, ReadEvents, Dispatch, WatcherUnlock, WatcherLock, outside
    <2> QED
      BY <1>1, <1>4, <2>1, ReadEventsKept, DispatchKept, WatcherMutexKept DEF Watcher, KeptInv
  <1>5. CASE Async(c) \/ SyncStart(c)
    <2>1. UNCHANGED newest
      BY <1>5 DEF Async, SyncEntry, SyncExtra, SyncEnd, SyncNotOk, SyncStart, outside
    <2>2. ~SyncNotOk(c)
      BY <1>1 DEF SyncNotOk
    <2> QED
      BY <1>1, <1>5, <2>1, <2>2, SyncEntryKept, SyncExtraKept, SyncEndKept, SyncStartKept
         DEF Async, KeptInv
  <1>6. CASE List(c)
    <2>1. UNCHANGED newest
      BY <1>6 DEF List, ListOpen, ListStat, ListSum, ListReply, outside
    <2> QED
      BY <1>1, <1>6, <2>1, ListKept DEF KeptInv
  <1>7. ASSUME NEW g \in Files PROVE ~UserWrites(c, g) /\ ~UserDeletes(c, g)
    BY <1>1 DEF UserWrites, UserDeletes
  <1>8. CASE Tick
    BY <1>1, <1>8, OtherKept DEF Tick, KeptInv
  <1> QED
    BY <1>2, <1>3, <1>4, <1>5, <1>6, <1>7, <1>8 DEF Next

(* What is the latest at the start.                                        *)
LEMMA InitLatest ==
  ASSUME NEW c, Clients = {c}, Init, NEW f \in Files, newest[f] # None
  PROVE  Latest(server[f], local[c][f], newest[f]) /\ newest[f] \in Initial
  <1> DEFINE copies == Copies(server, local, f)
             latest == {x \in copies : \A y \in copies : y.mtime <= x.mtime}
             theirs == {x \in latest : \E d \in Clients : x = local[d][f]}
             bodies == {x.body : x \in IF theirs = {} THEN latest ELSE theirs}
             s == server[f]
             l == local[c][f]
  <1>1. /\ s # None => s.body \in Initial /\ s.mtime \in 0 .. 1
        /\ l # None => l.body \in Initial /\ l.mtime \in 0 .. 1
    BY DEF Init
  <1>2. copies = {x \in {s, l} : x # None}
    BY DEF Copies
  <1>3. newest[f] \in bodies
    <2>1. newest[f] = NewestOf(server, local, f)
      BY DEF Init
    <2> QED
      BY <2>1 DEF NewestOf
  <1>4. \A x : x \in theirs <=> x \in latest /\ x = l
    OBVIOUS
  <1> HIDE DEF s, l, copies
  <1>5. PICK x \in (IF theirs = {} THEN latest ELSE theirs) : newest[f] = x.body
    BY <1>3
  <1>6. x \in latest
    BY <1>5
  <1>7. x \in {s, l} /\ x # None
    BY <1>2, <1>6
  <1>8. CASE x = l
    BY <1>1, <1>2, <1>5, <1>6, <1>7, <1>8 DEF Latest, s, l
  <1>9. CASE x = s /\ x # l
    <2>1. theirs = {}
      BY <1>4, <1>5, <1>9
    <2>2. l \notin latest
      BY <1>4, <2>1
    <2>3. l # None => l.mtime < s.mtime
      <3> SUFFICES ASSUME l # None PROVE l.mtime < s.mtime
        OBVIOUS
      <3>1. l \in copies /\ s \in copies /\ copies \subseteq {s, l}
        BY <1>2, <1>7, <1>9
      <3>2. ~(\A y \in copies : y.mtime <= l.mtime)
        BY <2>2, <3>1
      <3> QED
        BY <1>1, <1>7, <1>9, <3>1, <3>2
    <2> QED
      BY <1>1, <1>5, <1>7, <1>9, <2>3 DEF Latest, s, l
  <1> QED
    BY <1>7, <1>8, <1>9

LEMMA InitKept ==
  ASSUME NEW c, Clients = {c}, Empty \notin Initial, Init
  PROVE  KeptInv(c)
  <1> SUFFICES ASSUME NEW f \in Files, newest[f] # None PROVE Kept(c, f)
    BY DEF KeptInv
  <1>1. Latest(server[f], local[c][f], newest[f]) /\ newest[f] \in Initial
    BY InitLatest
  <1>2. newest[f] \notin {Empty, Partial}
    BY <1>1, ContentFacts
  <1>3. /\ mutex[c] = None /\ None # "async" /\ listing[c] = Asked /\ ~mounted[c]
        /\ events[c] = <<>> /\ batch[c] = <<>> /\ lock[f] = None
        /\ \A t \in Threads : rpc[c][t] = NoCall
    BY SyncAssumption DEF Init, Threads
  <1>4. Reflects(Asked, f, server[f])
    BY SyncAssumption DEF Reflects, Asked
  <1>5. ListedRight(c, f) /\ Pending(c, f)
    BY <1>3, <1>4 DEF ListedRight, Noted, Pending
  <1>6. Fresh(c, f)
    BY <1>1, <1>3, <1>5, NoCallShape DEF Fresh, NoEvent, About
  <1> QED
    BY <1>2, <1>3, <1>5, <1>6 DEF Kept, Stage

(* Mounting a directory, and staying mounted, loses nothing while the user *)
(* is away and calls do not break off: of each file the content modified   *)
(* last, the mount's or the server's, is in one of the two at every step,  *)
(* whatever they start with, although the echoes of every fetch are stored *)
(* and a round of HandleCallbackList goes by a listing made before it.     *)
THEOREM LoneClientLosesNothing ==
  ASSUME NEW c, Clients = {c}, Empty \notin Initial, MaxEdits = 0, MaxFailures = 0
  PROVE  Spec => []NewestSurvives
  <1>1. Init => KeptInv(c)
    BY InitKept
  <1>2. ThreadInv /\ KeptInv(c) /\ [Next]_vars => KeptInv(c)'
    BY KeptStep
  <1>3. KeptInv(c) => NewestSurvives
    BY DEF KeptInv, Kept, Stage, Fresh, Latest, Same, Storing, Fetching, Has, Copies,
           NewestSurvives
  <1> QED
    BY <1>1, <1>2, <1>3, ThreadInvariant, PTL DEF Spec
=============================================================================
