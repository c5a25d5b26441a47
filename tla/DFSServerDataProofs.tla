------------------------ MODULE DFSServerDataProofs ------------------------
(***************************************************************************)
(* Theorems about what DFSServer's stores write and its fetches read.      *)
(***************************************************************************)
EXTENDS DFSServerProofs

(* Inode n is one of file f: the one it had at first, or one that a store  *)
(* of it created.                                                          *)
Inode(n, f) == n = f \/ (n \in Calls /\ On(n, f))

(* A name leads to an inode of its file, and so does what a call has open. *)
Names == \A f \in Files : dir[f] # None => Inode(dir[f], f)

OpenOwn(k) ==
    req[k] # None /\ call[k].fd # None => Inode(call[k].fd, req[k].file)

(* A handler that has not come to its transfer has transferred nothing.    *)
Untouched(k) ==
    call[k].pc \in {"idle", "start", "header", "count", "owner", "acquire", "erase",
                    "content", "open", "fetch_stats", "read_open", "stat", "remove"}

Clean(k) ==
    Untouched(k) => /\ call[k].fd = None /\ call[k].got = 0 /\ call[k].flushed = 0
                    /\ ~call[k].bad /\ call[k].seen = <<>>

(* Bytes s are the first n chunks of version v.                            *)
Begins(s, v, n) == Len(s) = n /\ \A i \in 1 .. n : s[i] = v

(* The file's name leads to what the call writes, or nowhere.              *)
Linked(k) == dir[req[k].file] \in {call[k].fd, None}

(* How far a store has come that has the file for itself.                  *)
Sending(k) ==
    LET c == call[k]
        v == req[k].version
    IN  /\ Linked(k)
        /\ c.got <= Chunks[v]
        /\ ~c.bad => /\ c.flushed = c.got \/ (c.flushed = c.got - 1 /\ Buffered(v, c.got))
                     /\ Begins(data[c.fd], v, c.flushed)

(* The version of a store is in its file, its tail perhaps excepted.       *)
Kept(k) ==
    LET v == req[k].version IN
    /\ Linked(k)
    /\ call[k].fd \in Inodes
    /\ \/ Begins(data[call[k].fd], v, Chunks[v])
       \/ DiskFaults /\ v \in SmallTail /\ Begins(data[call[k].fd], v, Chunks[v] - 1)

Succeeds(k) == At(k, "stats") \/ (At(k, "release") /\ call[k].status = "OK")

StoresWhole(k) ==
    req[k] # None /\ Undisturbed(req[k].file) =>
        /\ At(k, "write") => Sending(k)
        /\ Succeeds(k) => Kept(k)

(* What a fetch has sent is the beginning of what is in the file.          *)
Agrees(k) ==
    /\ Len(call[k].seen) <= Len(data[call[k].fd])
    /\ \A i \in 1 .. Len(call[k].seen) : call[k].seen[i] = data[call[k].fd][i]

ReadsStable(k) ==
    /\ At(k, "read")
    /\ lock_file_map[req[k].file] = req[k].client
    /\ Undisturbed(req[k].file)
    => Agrees(k)

CallData(k) == OpenOwn(k) /\ Clean(k) /\ StoresWhole(k) /\ ReadsStable(k)

DataInv == Names /\ \A k \in Calls : CallData(k)

LEMMA DataInit == Init => DataInv
<1> SUFFICES ASSUME Init PROVE DataInv
  OBVIOUS
<1>1. Names
  BY DEF Init, Names, Inode
<1>2. ASSUME NEW k \in Calls PROVE CallData(k)
  <2>1. call[k] = NewCall /\ req[k] = None
    BY DEF Init
  <2> QED
    BY <2>1 DEF NewCall, CallData, OpenOwn, Clean, StoresWhole, ReadsStable, At
<1> QED
  BY <1>1, <1>2 DEF DataInv

----------------------------------------------------------------------------
(* Who else works on a file.                                               *)

(* Files have no inodes in common.                                         *)
LEMMA InodeApart ==
  ASSUME NEW f \in Files, NEW g \in Files, NEW n, Inode(n, f), Inode(n, g)
  PROVE  f = g
  BY ServerAssumption DEF Inode, On

(* An undisturbed file is stored by one call at a time.                    *)
LEMMA OneStorer ==
  ASSUME LockInv, NEW j \in Calls, NEW k \in Calls, Storing(j), Storing(k),
         req[j].file = req[k].file, Undisturbed(req[k].file)
  PROVE  j = k
  <1> DEFINE f == req[k].file
  <1>1. /\ f \in Files /\ On(j, f) /\ On(k, f) /\ Busy(j) /\ Busy(k)
    BY StoringRuns DEF LockInv, On
  <1>2. req[j].client = req[k].client
    BY <1>1 DEF LockInv, LockProtectsStore
  <1>3. ~call[j].cancelled /\ ~call[k].cancelled
    BY <1>1 DEF Undisturbed
  <1> QED
    BY <1>1, <1>2, <1>3 DEF LockInv, OneCallPerClient

(* Nobody else stores it or takes its lock while the lock's holder fetches *)
(* it.                                                                     *)
LEMMA HolderAlone ==
  ASSUME LockInv, NEW j \in Calls, NEW k \in Calls, At(j, "read"),
         req[j].file = req[k].file, Undisturbed(req[k].file),
         \/ Storing(k) /\ lock_file_map[req[j].file] = req[j].client
         \/ At(k, "acquire") /\ req[k].client = req[j].client
  PROVE  FALSE
  <1> DEFINE f == req[k].file
  <1>1. Busy(j) /\ Busy(k) /\ ~At(j, "idle") /\ ~At(k, "idle") /\ j # k
    BY DEF At, Busy, Storing
  <1>2. f \in Files /\ On(j, f) /\ On(k, f)
    BY <1>1, Running DEF LockInv, On, CallShape
  <1>3. req[j].client = req[k].client
    BY <1>2 DEF LockInv, LockProtectsStore
  <1>4. ~call[j].cancelled /\ ~call[k].cancelled
    BY <1>2 DEF Undisturbed
  <1> QED
    BY <1>1, <1>3, <1>4 DEF LockInv, OneCallPerClient

----------------------------------------------------------------------------
(* A step of call k, as far as the other calls can tell.                   *)
StepOf(k) ==
    /\ \A j \in Calls \ {k} : call'[j] = call[j] /\ req'[j] = req[j]
    /\ req[k] # None => req'[k] = req[k]
    /\ call[k].acquire = "lost" => call'[k].acquire = "lost"
    /\ call[k].cancelled => call'[k].cancelled
    /\ \A n \in Inodes : data'[n] = data[n] \/ (Storing(k) /\ Inode(n, req[k].file))
    /\ \A f \in Files :
          \/ dir'[f] \in {dir[f], None}
          \/ Storing(k) /\ f = req[k].file /\ Inode(dir'[f], f)
    /\ \A f \in Files : lock_file_map'[f] \in Clients =>
          \/ lock_file_map'[f] = lock_file_map[f]
          \/ At(k, "acquire") /\ f = req[k].file /\ lock_file_map'[f] = req[k].client

(* An inode stays with its file.                                           *)
LEMMA InodeStays ==
  ASSUME NEW k \in Calls, StepOf(k), NEW n, NEW f, Inode(n, f)
  PROVE  Inode(n, f)'
  BY DEF StepOf, Inode, On

LEMMA UndisturbedBefore ==
  ASSUME NEW k \in Calls, StepOf(k), NEW f \in Files, Undisturbed(f)'
  PROVE  Undisturbed(f)
  <1>1. \A j \in Calls : /\ req[j] # None => req'[j] = req[j]
                         /\ call[j].acquire = "lost" => call'[j].acquire = "lost"
                         /\ call[j].cancelled => call'[j].cancelled
    BY DEF StepOf
  <1> QED
    BY <1>1, DisturbedStays

(* A step of one call keeps what the others rely on.                       *)
LEMMA OthersKept ==
  ASSUME LockInv, DataInv, NEW k \in Calls, StepOf(k)
  PROVE  Names' /\ \A j \in Calls \ {k} : CallData(j)'
<1> USE DEF LockInv
<1>1. Names'
  <2> SUFFICES ASSUME NEW f \in Files, NEW n, n = dir'[f], n # None
               PROVE  Inode(n, f)'
    BY DEF Names
  <2>1. Inode(n, f)
    BY DEF StepOf, DataInv, Names
  <2> QED
    BY <2>1, InodeStays
<1>2. ASSUME NEW j \in Calls \ {k} PROVE CallData(j)'
  <2>1. call'[j] = call[j] /\ req'[j] = req[j] /\ CallData(j)
    BY DEF StepOf, DataInv
  <2>2. OpenOwn(j)'
    BY <2>1, InodeStays DEF CallData, OpenOwn
  <2>3. Clean(j)'
    BY <2>1 DEF CallData, Clean, Untouched
  <2>4. StoresWhole(j)'
    <3>a. ASSUME At(j, "write") \/ Succeeds(j) PROVE Storing(j) /\ req[j].file \in Files
      <4>1. Storing(j)
        BY <3>a DEF At, Storing, Succeeds
      <4> QED
        BY <4>1, StoringRuns
    <3> SUFFICES ASSUME NEW f \in Files, f = req[j].file, Undisturbed(f)',
                        At(j, "write") \/ Succeeds(j), req[j] # None
                 PROVE  (At(j, "write") => Sending(j)') /\ (Succeeds(j) => Kept(j)')
      BY <2>1, <3>a DEF StoresWhole, At, Succeeds, Undisturbed, On
    <3>1. Storing(j)
      BY <3>a
    <3>2. f \in Files
      OBVIOUS
    <3>3. Undisturbed(f)
      BY <3>2, UndisturbedBefore
    <3>4. /\ At(j, "write") => Sending(j)
          /\ Succeeds(j) => Kept(j)
      BY <2>1, <3>3 DEF CallData, StoresWhole
    <3>5. call[j].fd \in Inodes /\ call[j].fd # None
      BY <3>4, ServerAssumption DEF Shape, CallShape, Kept, Inodes
    <3>6. ~(Storing(k) /\ f = req[k].file)
      BY <3>1, <3>3, OneStorer
    <3>7. dir'[f] \in {dir[f], None}
      BY <3>2, <3>6 DEF StepOf
    <3>8. data'[call[j].fd] = data[call[j].fd]
      <4>1. Inode(call[j].fd, f)
        BY <2>1, <3>5 DEF CallData, OpenOwn
      <4>2. ASSUME Storing(k), Inode(call[j].fd, req[k].file) PROVE FALSE
        BY <3>2, <3>6, <4>1, <4>2, StoringRuns, InodeApart
      <4> QED
        BY <3>5, <4>2 DEF StepOf
    <3> QED
      BY <2>1, <3>4, <3>7, <3>8 DEF Sending, Kept, Linked
  <2>5. ReadsStable(j)'
    <3>a. ASSUME At(j, "read")
          PROVE  /\ req[j].file \in Files /\ req[j].client \in Clients /\ req[j] # None
                 /\ call[j].fd \in Inodes /\ call[j].fd # None
      <4>1. ~At(j, "idle")
        BY <3>a DEF At
      <4> QED
        BY <3>a, <4>1, Running, ServerAssumption DEF CallShape, Inodes
    <3> SUFFICES ASSUME NEW f \in Files, f = req[j].file, At(j, "read"),
                        lock_file_map'[f] = req[j].client, Undisturbed(f)'
                 PROVE  Agrees(j)'
      BY <2>1, <3>a DEF ReadsStable, At, Undisturbed, On
    <3>1. /\ f \in Files /\ req[j].client \in Clients /\ req[j] # None
          /\ call[j].fd \in Inodes /\ call[j].fd # None
      BY <3>a
    <3>2. Undisturbed(f)
      BY <3>1, UndisturbedBefore
    <3>3. lock_file_map[f] = req[j].client
      <4>1. ~(At(k, "acquire") /\ f = req[k].file /\ req[k].client = req[j].client)
        BY <3>2, HolderAlone
      <4> QED
        BY <3>1, <4>1 DEF StepOf
    <3>4. Agrees(j)
      BY <2>1, <3>2, <3>3 DEF CallData, ReadsStable
    <3>5. data'[call[j].fd] = data[call[j].fd]
      <4>1. Inode(call[j].fd, f)
        BY <2>1, <3>1 DEF CallData, OpenOwn
      <4>2. ASSUME Storing(k), Inode(call[j].fd, req[k].file) PROVE FALSE
        <5>1. f = req[k].file
          BY <3>1, <4>1, <4>2, StoringRuns, InodeApart
        <5> QED
          BY <3>2, <3>3, <4>2, <5>1, HolderAlone
      <4> QED
        BY <3>1, <4>2 DEF StepOf
    <3> QED
      BY <2>1, <3>4, <3>5 DEF Agrees
  <2> QED
    BY <2>2, <2>3, <2>4, <2>5 DEF CallData
<1> QED
  BY <1>1, <1>2

----------------------------------------------------------------------------
(* Steps in which call k transfers nothing.                                *)

(* Call k goes to pc with status s; the rest of its record stays.          *)
Moved(k, pc, s) ==
    /\ call'[k].pc = pc /\ call'[k].status = s
    /\ call'[k].fd = call[k].fd /\ call'[k].got = call[k].got
    /\ call'[k].flushed = call[k].flushed /\ call'[k].bad = call[k].bad
    /\ call'[k].seen = call[k].seen
    /\ call'[k].acquire = call[k].acquire /\ call'[k].cancelled = call[k].cancelled
    /\ \A j \in Calls \ {k} : call'[j] = call[j]

LEMMA Moving ==
  ASSUME Shape, NEW k \in Calls
  PROVE  /\ \A pc \in Pcs : GoTo(k, pc) => Moved(k, pc, call[k].status)
         /\ \A s \in Statuses : Return(k, s) => Moved(k, "done", s)
         /\ \A s \in Statuses : Leave(k, s) => Moved(k, "release", s)
  <1>1. call \in [Calls -> CallRecord] /\ call[k] \in CallRecord
    BY DEF Shape, TypeOK
  <1>2. ASSUME NEW pc \in Pcs, GoTo(k, pc) PROVE Moved(k, pc, call[k].status)
    BY <1>1, <1>2 DEF GoTo, Moved, CallRecord
  <1>3. ASSUME NEW s \in Statuses, NEW pc \in Pcs,
               call' = [call EXCEPT ![k] = [call[k] EXCEPT !.pc = pc, !.status = s]]
        PROVE  Moved(k, pc, s)
    <2> DEFINE r == [call[k] EXCEPT !.pc = pc, !.status = s]
    <2>1. /\ r.pc = pc /\ r.status = s
          /\ r.fd = call[k].fd /\ r.got = call[k].got /\ r.flushed = call[k].flushed
          /\ r.bad = call[k].bad /\ r.seen = call[k].seen
          /\ r.acquire = call[k].acquire /\ r.cancelled = call[k].cancelled
      BY <1>1 DEF CallRecord
    <2>2. call' = [call EXCEPT ![k] = r]
      BY <1>3
    <2> HIDE DEF r
    <2> QED
      BY <1>1, <2>1, <2>2 DEF Moved
  <1>4. \A s \in Statuses : Return(k, s) => Moved(k, "done", s)
    BY <1>1, <1>3 DEF Return, Pcs
  <1>5. \A s \in Statuses : Leave(k, s) => Moved(k, "release", s)
    BY <1>1, <1>3 DEF Leave, Pcs
  <1> QED
    BY <1>2, <1>4, <1>5

(* Call k goes on outside a transfer, or gives one up.                     *)
Aside(k) ==
    /\ call'[k].fd = call[k].fd /\ call'[k].got = call[k].got
    /\ call'[k].flushed = call[k].flushed /\ call'[k].bad = call[k].bad
    /\ call'[k].seen = call[k].seen
    /\ call'[k].pc \notin {"write", "stats", "read"}
    /\ call'[k].pc = "release" => call'[k].status # "OK"
    /\ Untouched(k)' => Untouched(k)

LEMMA AsideKeeps ==
  ASSUME LockInv, DataInv, NEW k \in Calls, StepOf(k), Aside(k),
         req[k] # None \/ call[k].fd = None
  PROVE  DataInv'
<1>1. CallData(k)
  BY DEF DataInv
<1>2. OpenOwn(k)'
  <2>1. CASE call[k].fd = None
    BY <2>1 DEF OpenOwn, Aside
  <2>2. CASE req[k] # None
    BY <1>1, <2>2, InodeStays DEF OpenOwn, CallData, StepOf, Aside
  <2> QED
    BY <2>1, <2>2
<1>3. Clean(k)' /\ StoresWhole(k)' /\ ReadsStable(k)'
  BY <1>1 DEF CallData, Clean, StoresWhole, ReadsStable, Aside, At, Succeeds
<1>4. CallData(k)'
  BY <1>2, <1>3 DEF CallData
<1> QED
  BY <1>4, OthersKept DEF DataInv

(* The steps that leave bytes, names and locks alone.                      *)
LEMMA QuietStepOf ==
  ASSUME NEW k \in Calls, UNCHANGED <<lock_file_map, dir, data, req>>,
         \A j \in Calls \ {k} : call'[j] = call[j],
         call'[k].acquire = call[k].acquire,
         call'[k].cancelled = call[k].cancelled
  PROVE  StepOf(k)
  BY DEF StepOf

(* A call that reads nothing, writes nothing, and has not come to its      *)
(* transfer, or is through with it, goes on or returns.                    *)
LEMMA MovedAside ==
  ASSUME NEW k \in Calls, NEW pc, NEW s, Moved(k, pc, s),
         pc \notin {"write", "stats", "read"},
         pc = "release" => s # "OK",
         Untouched(k) \/ pc \in {"done", "release", "dead"}
  PROVE  Aside(k)
  BY DEF Moved, Aside, Untouched

LEMMA UnlockedAside ==
  ASSUME Shape, NEW k \in Calls, ~At(k, "idle"), Untouched(k), Unlocked(k)
  PROVE  /\ Aside(k)
         /\ call'[k].acquire = call[k].acquire /\ call'[k].cancelled = call[k].cancelled
         /\ \A j \in Calls \ {k} : call'[j] = call[j]
  <1>1. \E pc \in {"acquire", "read_open", "stat", "remove"} :
           Moved(k, pc, call[k].status)
    BY Moving, Running DEF Unlocked, AllOps, Pcs
  <1> QED
    BY <1>1, MovedAside DEF Moved

QuietAside(k) ==
    \/ Begin(k)        \/ ReadHeader(k)   \/ LostHeader(k) \/ CheckCount(k)
    \/ CheckContent(k) \/ OpenFails(k)    \/ FetchStats(k) \/ ReadEnd(k)
    \/ StatFile(k)

LEMMA DataQuiet ==
  ASSUME LockInv, DataInv, NEW k \in Calls, QuietAside(k)
  PROVE  DataInv'
<1> USE DEF LockInv
<1>1. /\ ~At(k, "idle") /\ UNCHANGED <<lock_file_map, dir, data, req>>
  BY DEF QuietAside, Begin, ReadHeader, LostHeader, CheckCount, CheckContent,
         OpenFails, FetchStats, ReadEnd, StatFile, At
<1>2. req[k] # None
  BY <1>1 DEF Shape, CallShape
<1>3. ASSUME NEW pc, NEW s, Moved(k, pc, s),
             pc \notin {"write", "stats", "read"},
             pc = "release" => s # "OK",
             Untouched(k) \/ pc \in {"done", "release", "dead"}
      PROVE  DataInv'
  <2>1. Aside(k)
    BY <1>3, MovedAside
  <2>2. StepOf(k)
    BY <1>1, <1>3, QuietStepOf DEF Moved
  <2> QED
    BY <1>2, <2>1, <2>2, AsideKeeps
<1>4. CASE Begin(k)
  <2>1. \E pc \in {"done", "header", "fetch_stats", "count"}, s \in Statuses : Moved(k, pc, s)
    BY <1>4, Moving DEF Begin, Pcs, Statuses, Shape, TypeOK, CallRecord
  <2> QED
    BY <1>3, <1>4, <2>1 DEF Begin, At, Untouched
<1>5. CASE ReadHeader(k)
  <2>1. Moved(k, "count", call[k].status)
    BY <1>5, Moving DEF ReadHeader, Pcs
  <2> QED
    BY <1>3, <1>5, <2>1 DEF ReadHeader, At, Untouched
<1>6. CASE LostHeader(k)
  <2>1. Moved(k, "done", "ALREADY_EXISTS")
    BY <1>6, Moving DEF LostHeader, Statuses
  <2> QED
    BY <1>3, <2>1
<1>7. CASE CheckCount(k)
  <2>0. Untouched(k)
    BY <1>7 DEF CheckCount, At, Untouched
  <2>1. CASE Unlocked(k)
    <3>1. Aside(k) /\ StepOf(k)
      BY <1>1, <2>0, <2>1, UnlockedAside, QuietStepOf
    <3> QED
      BY <1>2, <3>1, AsideKeeps
  <2>2. CASE GoTo(k, "owner")
    <3>1. Moved(k, "owner", call[k].status)
      BY <2>2, Moving DEF Pcs
    <3> QED
      BY <1>3, <2>0, <3>1
  <2> QED
    BY <1>7, <2>1, <2>2 DEF CheckCount
<1>8. CASE CheckContent(k)
  <2>1. Moved(k, "release", "ALREADY_EXISTS") \/ Moved(k, "open", call[k].status)
    BY <1>8, Moving DEF CheckContent, Pcs, Statuses
  <2> QED
    BY <1>3, <1>8, <2>1 DEF CheckContent, At, Untouched
<1>9. CASE OpenFails(k)
  <2>1. Moved(k, "release", "NOT_FOUND")
    BY <1>9, Moving DEF OpenFails, Statuses
  <2> QED
    BY <1>3, <2>1
<1>10. CASE FetchStats(k)
  <2>1. Moved(k, "done", "NOT_FOUND") \/ Moved(k, "count", call[k].status)
    BY <1>10, Moving DEF FetchStats, Pcs, Statuses
  <2> QED
    BY <1>3, <1>10, <2>1 DEF FetchStats, At, Untouched
<1>11. CASE ReadEnd(k)
  <2>1. Moved(k, "done", "OK")
    BY <1>11, Moving DEF ReadEnd, Statuses
  <2> QED
    BY <1>3, <2>1
<1>12. CASE StatFile(k)
  <2>1. \E s \in Statuses : Moved(k, "done", s)
    BY <1>12, Moving DEF StatFile, Statuses
  <2> QED
    BY <1>3, <2>1
<1> QED
  BY <1>4, <1>5, <1>6, <1>7, <1>8, <1>9, <1>10, <1>11, <1>12 DEF QuietAside

(* The steps that take and free locks.                                     *)
LEMMA DataLocks ==
  ASSUME LockInv, DataInv, NEW k \in Calls,
         CheckOwner(k) \/ Acquire(k) \/ EraseWinner(k) \/ Release(k)
  PROVE  DataInv'
<1> USE DEF LockInv
<1> DEFINE f == req[k].file
<1>1. ~At(k, "idle") /\ UNCHANGED <<dir, data, req>>
  BY DEF CheckOwner, Acquire, EraseWinner, Release, At
<1>2. req[k] # None /\ f \in Files /\ CallShape(k) /\ call[k] \in CallRecord
  BY <1>1, Running DEF CallShape
<1>3. lock_file_map \in [Files -> Clients \cup {None, NoClient}]
  BY DEF Shape, TypeOK
<1>4. CASE CheckOwner(k)
  <2>1. /\ Aside(k)
        /\ call'[k].acquire = call[k].acquire /\ call'[k].cancelled = call[k].cancelled
        /\ \A j \in Calls \ {k} : call'[j] = call[j]
    <3>1. Untouched(k)
      BY <1>4 DEF CheckOwner, At, Untouched
    <3>2. CASE Unlocked(k)
      BY <1>1, <3>1, <3>2, UnlockedAside
    <3>3. CASE Return(k, "RESOURCE_EXHAUSTED")
      <4>1. Moved(k, "done", "RESOURCE_EXHAUSTED")
        BY <3>3, Moving DEF Statuses
      <4> QED
        BY <4>1, MovedAside DEF Moved
    <3> QED
      BY <1>4, <3>2, <3>3 DEF CheckOwner
  <2>2. \A g \in Files : lock_file_map'[g] \in Clients => lock_file_map'[g] = lock_file_map[g]
    BY <1>2, <1>3, <1>4, ServerAssumption DEF CheckOwner
  <2>3. StepOf(k)
    BY <1>1, <2>1, <2>2 DEF StepOf
  <2> QED
    BY <1>2, <2>1, <2>3, AsideKeeps
<1>5. CASE Acquire(k)
  <2>1. /\ \A j \in Calls \ {k} : call'[j] = call[j]
        /\ call'[k].fd = call[k].fd /\ call'[k].got = call[k].got
        /\ call'[k].flushed = call[k].flushed /\ call'[k].bad = call[k].bad
        /\ call'[k].seen = call[k].seen /\ call'[k].cancelled = call[k].cancelled
        /\ call'[k].pc \in {"content", "done", "erase"}
    <3> DEFINE won  == [call[k] EXCEPT !.acquire = "won", !.pc = "content"]
               done == [call[k] EXCEPT !.acquire = "won", !.pc = "done", !.status = "OK"]
               lost == [call[k] EXCEPT !.acquire = "lost", !.pc = "erase"]
    <3>1. PICK r \in {won, done, lost} : call' = [call EXCEPT ![k] = r]
      BY <1>5 DEF Acquire, Granted
    <3>2. /\ r.fd = call[k].fd /\ r.got = call[k].got
          /\ r.flushed = call[k].flushed /\ r.bad = call[k].bad
          /\ r.seen = call[k].seen /\ r.cancelled = call[k].cancelled
          /\ r.pc \in {"content", "done", "erase"}
      <4> USE <1>2 DEF CallRecord
      <4>1. CASE r = won
        BY <4>1
      <4>2. CASE r = done
        BY <4>2
      <4>3. CASE r = lost
        BY <4>3
      <4> QED
        BY <3>1, <4>1, <4>2, <4>3
    <3> HIDE DEF won, done, lost
    <3> QED
      BY <3>1, <3>2 DEF Shape, TypeOK
  <2>2. At(k, "acquire") /\ call[k].acquire = "none"
    BY <1>5 DEF Acquire, AcquireOrder, Early, At
  <2>3. \A g \in Files : \/ lock_file_map'[g] = lock_file_map[g]
                         \/ g = f /\ lock_file_map'[g] = req[k].client
    BY <1>2, <1>3, <1>5 DEF Acquire
  <2>4. StepOf(k)
    BY <1>1, <2>1, <2>2, <2>3 DEF StepOf
  <2>5. Aside(k)
    BY <2>1, <2>2 DEF Aside, Untouched, At
  <2> QED
    BY <1>2, <2>4, <2>5, AsideKeeps
<1>6. CASE EraseWinner(k) \/ Release(k)
  <2>1. \/ At(k, "erase") /\ \/ Moved(k, "content", call[k].status)
                             \/ Moved(k, "done", "OK")
        \/ Moved(k, "done", call[k].status)
    BY <1>6, Moving DEF EraseWinner, Release, Pcs, Statuses
  <2>2. Aside(k)
    BY <2>1, MovedAside DEF At, Untouched
  <2>3. \A g \in Files : lock_file_map'[g] \in Clients => lock_file_map'[g] = lock_file_map[g]
    BY <1>2, <1>3, <1>6, ServerAssumption DEF EraseWinner, Release
  <2>4. StepOf(k)
    BY <1>1, <2>1, <2>3 DEF StepOf, Moved
  <2> QED
    BY <1>2, <2>2, <2>4, AsideKeeps
<1> QED
  BY <1>4, <1>5, <1>6

(* A call arrives, its deadline passes, or it removes a file.              *)
LEMMA DataOutside ==
  ASSUME LockInv, DataInv, NEW k \in Calls, Arrive(k) \/ Cancel(k) \/ RemoveFile(k)
  PROVE  DataInv'
<1> USE DEF LockInv
<1>1. CASE Arrive(k)
  <2>1. /\ req[k] = None /\ At(k, "idle") /\ UNCHANGED <<lock_file_map, dir, data>>
        /\ \A j \in Calls \ {k} : req'[j] = req[j]
    BY <1>1 DEF Arrive, Shape, CallShape, TypeOK
  <2>2. Moved(k, "start", call[k].status)
    BY <1>1, Moving DEF Arrive, Pcs
  <2>3. Aside(k) /\ call[k].fd = None
    BY <2>1, <2>2, MovedAside DEF At, Untouched, DataInv, CallData, Clean
  <2>4. StepOf(k)
    BY <2>1, <2>2 DEF StepOf, Moved
  <2> QED
    BY <2>3, <2>4, AsideKeeps
<1>2. CASE Cancel(k)
  <2>1. /\ Busy(k) /\ UNCHANGED <<lock_file_map, dir, data, req>>
        /\ call' = [call EXCEPT ![k].cancelled = TRUE]
        /\ call \in [Calls -> CallRecord] /\ call[k] \in CallRecord
    BY <1>2 DEF Cancel, Shape, TypeOK
  <2>2. /\ call'[k].cancelled /\ call'[k].pc = call[k].pc /\ call'[k].fd = call[k].fd
        /\ call'[k].got = call[k].got /\ call'[k].flushed = call[k].flushed
        /\ call'[k].bad = call[k].bad /\ call'[k].seen = call[k].seen
        /\ call'[k].acquire = call[k].acquire
        /\ \A j \in Calls \ {k} : call'[j] = call[j]
    BY <2>1 DEF CallRecord
  <2>3. StepOf(k)
    BY <2>1, <2>2 DEF StepOf
  <2>4. CallData(k)'
    <3>1. CallData(k)
      BY DEF DataInv
    <3>2. OpenOwn(k)' /\ Clean(k)'
      BY <2>1, <2>2, <2>3, <3>1, InodeStays DEF CallData, OpenOwn, Clean, Untouched
    <3>3. req[k] # None => ~Undisturbed(req[k].file)'
      BY <2>1, <2>2 DEF Undisturbed, On
    <3>4. req[k] # None
      BY <2>1 DEF Busy, Shape, CallShape, At
    <3> QED
      BY <2>1, <3>2, <3>3, <3>4 DEF CallData, StoresWhole, ReadsStable
  <2> QED
    BY <2>3, <2>4, OthersKept DEF DataInv
<1>3. CASE RemoveFile(k)
  <2>1. /\ ~At(k, "idle") /\ UNCHANGED <<lock_file_map, data, req>>
        /\ dir' = [dir EXCEPT ![req[k].file] = None]
    BY <1>3 DEF RemoveFile, At
  <2>2. req[k] # None
    BY <2>1 DEF Shape, CallShape
  <2>3. \E s \in Statuses : Moved(k, "done", s)
    BY <1>3, Moving DEF RemoveFile, Statuses
  <2>4. Aside(k)
    BY <2>3, MovedAside
  <2>5. \A g \in Files : dir'[g] \in {dir[g], None}
    BY <2>1 DEF Shape, TypeOK
  <2>6. StepOf(k)
    BY <2>1, <2>3, <2>5 DEF StepOf, Moved
  <2> QED
    BY <2>2, <2>4, <2>6, AsideKeeps
<1> QED
  BY <1>1, <1>2, <1>3

----------------------------------------------------------------------------
(* The transfers.                                                          *)

(* A store's request.                                                      *)
LEMMA StoreRequest ==
  ASSUME Shape, NEW k \in Calls, Storing(k)
  PROVE  /\ req[k] # None /\ req[k].file \in Files /\ req[k].version \in Versions
         /\ Chunks[req[k].version] \in Nat /\ call[k] \in CallRecord
  <1>1. req[k] # None /\ req[k] \in Request /\ req[k].op = "store_file"
    BY StoringRuns, Running DEF CallShape
  <1>2. req[k].version \in Versions
    BY <1>1, Running, StoringRuns DEF CallShape, Request
  <1> QED
    BY <1>1, <1>2, StoringRuns, ServerAssumption DEF Shape, TypeOK

(* The next chunk is written behind those already there.                   *)
LEMMA WriteAtEnd ==
  ASSUME NEW s \in Contents, NEW v, NEW n \in Nat, Begins(s, v, n)
  PROVE  Begins(WriteAt(s, n + 1, v), v, n + 1)
  BY DEF Begins, WriteAt, Contents

LEMMA DataOpenForWrite ==
  ASSUME LockInv, DataInv, NEW k \in Calls, OpenForWrite(k)
  PROVE  DataInv'
<1> USE DEF LockInv
<1> DEFINE f == req[k].file
           n == IF dir[f] = None THEN k ELSE dir[f]
<1>1. /\ At(k, "open") /\ Storing(k) /\ UNCHANGED <<lock_file_map, req>>
      /\ dir' = [dir EXCEPT ![f] = n] /\ data' = [data EXCEPT ![n] = <<>>]
      /\ call' = [call EXCEPT ![k] = [@ EXCEPT !.pc = "write", !.fd = n]]
  BY DEF OpenForWrite, At, Storing
<1>2. /\ req[k] # None /\ f \in Files /\ Chunks[req[k].version] \in Nat
      /\ call[k] \in CallRecord
  BY <1>1, StoreRequest
<1>3. Inode(n, f) /\ n \in Inodes
  BY <1>2 DEF DataInv, Names, Inode, On, Shape, TypeOK, Inodes
<1> HIDE DEF n
<1>4. /\ call'[k].pc = "write" /\ call'[k].fd = n /\ call'[k].got = call[k].got
      /\ call'[k].flushed = call[k].flushed /\ call'[k].bad = call[k].bad
      /\ call'[k].acquire = call[k].acquire /\ call'[k].cancelled = call[k].cancelled
      /\ \A j \in Calls \ {k} : call'[j] = call[j]
  BY <1>1, <1>2 DEF Shape, TypeOK, CallRecord
<1>5. dir'[f] = n /\ data'[n] = <<>>
  BY <1>1, <1>2, <1>3 DEF Shape, TypeOK
<1>6. StepOf(k)
  <2>1. \A m \in Inodes : data'[m] = data[m] \/ (Storing(k) /\ Inode(m, f))
    BY <1>1, <1>3 DEF Shape, TypeOK
  <2>2. \A g \in Files : dir'[g] \in {dir[g], None}
                            \/ (Storing(k) /\ g = f /\ Inode(dir'[g], g))
    BY <1>1, <1>3, <1>5 DEF Shape, TypeOK
  <2> QED
    BY <1>1, <1>4, <2>1, <2>2 DEF StepOf
<1>7. CallData(k)'
  <2>1. OpenOwn(k)'
    BY <1>1, <1>3, <1>4, <1>6, InodeStays DEF OpenOwn
  <2>2. Clean(k)' /\ ReadsStable(k)'
    BY <1>4 DEF Clean, Untouched, ReadsStable, At
  <2>3. call[k].got = 0 /\ call[k].flushed = 0
    BY <1>1 DEF DataInv, CallData, Clean, Untouched, At
  <2>4. Sending(k)'
    BY <1>1, <1>2, <1>4, <1>5, <2>3 DEF Sending, Linked, Begins
  <2> QED
    BY <1>4, <2>1, <2>2, <2>4 DEF CallData, StoresWhole, At, Succeeds
<1> QED
  BY <1>6, <1>7, OthersKept DEF DataInv

LEMMA DataWriteChunk ==
  ASSUME LockInv, DataInv, NEW k \in Calls, WriteChunk(k)
  PROVE  DataInv'
<1> USE DEF LockInv
<1> DEFINE f == req[k].file
           v == req[k].version
           i == call[k].got + 1
           n == call[k].fd
<1>1. /\ At(k, "write") /\ Storing(k) /\ UNCHANGED <<lock_file_map, dir, req>>
      /\ i <= Chunks[v]
  BY DEF WriteChunk, At, Storing
<1>2. /\ req[k] # None /\ f \in Files /\ v \in Versions /\ Chunks[v] \in Nat
      /\ call[k] \in CallRecord /\ call[k].got \in Nat /\ call[k].flushed \in Nat
  BY <1>1, StoreRequest DEF CallRecord
<1>3. n \in Inodes /\ n # None /\ data[n] \in Contents /\ Inode(n, f)
  <2>1. n \in Inodes /\ n # None
    BY <1>1, ServerAssumption DEF Shape, CallShape, Inodes
  <2> QED
    BY <1>2, <2>1 DEF DataInv, CallData, OpenOwn, Shape, TypeOK
<1>4. /\ call'[k].pc = "write" /\ call'[k].fd = n /\ call'[k].got = i
      /\ call'[k].acquire = call[k].acquire /\ call'[k].cancelled = call[k].cancelled
      /\ \A j \in Calls \ {k} : call'[j] = call[j]
      /\ \/ /\ call[k].bad \/ Buffered(v, i)
            /\ call'[k].flushed = call[k].flushed /\ call'[k].bad = call[k].bad
            /\ data' = data
         \/ /\ ~call[k].bad /\ call'[k].flushed = i /\ ~call'[k].bad
            /\ data' = [data EXCEPT ![n] = WriteAt(@, i, v)]
         \/ call'[k].bad /\ data' = data
  <2> USE <1>1, <1>2 DEF Shape, TypeOK, CallRecord, At
  <2>1. CASE call' = [call EXCEPT ![k].got = i] /\ data' = data
             /\ (call[k].bad \/ Buffered(v, i))
    BY <2>1
  <2>2. CASE /\ call' = [call EXCEPT ![k] = [@ EXCEPT !.got = i, !.flushed = i]]
             /\ data' = [data EXCEPT ![n] = WriteAt(@, i, v)] /\ ~call[k].bad
    BY <2>2
  <2>3. CASE call' = [call EXCEPT ![k] = [@ EXCEPT !.got = i, !.bad = TRUE]] /\ data' = data
    BY <2>3
  <2> QED
    BY <2>1, <2>2, <2>3 DEF WriteChunk
<1>5. StepOf(k)
  <2>1. \A m \in Inodes : data'[m] = data[m] \/ (Storing(k) /\ Inode(m, f))
    BY <1>1, <1>3, <1>4 DEF Shape, TypeOK
  <2> QED
    BY <1>1, <1>4, <2>1 DEF StepOf
<1>6. CallData(k)'
  <2>1. OpenOwn(k)'
    BY <1>1, <1>3, <1>4, <1>5, InodeStays DEF OpenOwn
  <2>2. Clean(k)' /\ ReadsStable(k)'
    BY <1>4 DEF Clean, Untouched, ReadsStable, At
  <2>3. ASSUME Undisturbed(f) PROVE Sending(k)'
    <3>1. Sending(k)
      BY <1>1, <1>2, <2>3 DEF DataInv, CallData, StoresWhole
    <3>2. Linked(k)' /\ call'[k].got <= Chunks[v]
      BY <1>1, <1>4, <3>1 DEF Sending, Linked
    <3>3. ASSUME ~call[k].bad
          PROVE  call[k].flushed = call[k].got /\ Begins(data[n], v, call[k].got)
      BY <1>1, <1>2, <3>1, <3>3 DEF Sending, Buffered
    <3>4. CASE /\ call[k].bad \/ Buffered(v, i)
               /\ call'[k].flushed = call[k].flushed /\ call'[k].bad = call[k].bad
               /\ data' = data
      BY <1>1, <1>2, <1>4, <3>2, <3>3, <3>4 DEF Sending
    <3>5. CASE /\ ~call[k].bad /\ call'[k].flushed = i /\ ~call'[k].bad
               /\ data' = [data EXCEPT ![n] = WriteAt(@, i, v)]
      <4>1. data'[n] = WriteAt(data[n], i, v)
        BY <1>3, <3>5 DEF Shape, TypeOK
      <4>2. Begins(data'[n], v, i)
        BY <1>2, <1>3, <3>3, <3>5, <4>1, WriteAtEnd
      <4> QED
        BY <1>1, <1>4, <3>2, <3>5, <4>2 DEF Sending
    <3>6. CASE call'[k].bad
      BY <1>1, <3>2, <3>6 DEF Sending
    <3> QED
      BY <1>4, <3>4, <3>5, <3>6
  <2>4. ASSUME NEW g \in Files, g = f, Undisturbed(g)' PROVE Sending(k)'
    BY <1>5, <2>3, <2>4, UndisturbedBefore
  <2>5. StoresWhole(k)'
    BY <1>1, <1>2, <1>4, <2>4 DEF StoresWhole, At, Succeeds, Undisturbed, On
  <2> QED
    BY <2>1, <2>2, <2>5 DEF CallData
<1> QED
  BY <1>5, <1>6, OthersKept DEF DataInv

LEMMA DataEndOfStream ==
  ASSUME LockInv, DataInv, NEW k \in Calls, EndOfStream(k)
  PROVE  DataInv'
<1> USE DEF LockInv
<1> DEFINE f == req[k].file
           v == req[k].version
           n == call[k].fd
<1>1. /\ At(k, "write") /\ Storing(k) /\ UNCHANGED <<lock_file_map, dir, req>>
      /\ call[k].got = Chunks[v] \/ call[k].cancelled
      /\ IF call[k].bad THEN Leave(k, "NOT_FOUND") ELSE GoTo(k, "stats")
      /\ \/ data' = data /\ (~call[k].bad /\ call[k].flushed < call[k].got => DiskFaults)
         \/ /\ ~call[k].bad /\ call[k].flushed < call[k].got
            /\ data' = [data EXCEPT ![n] = WriteAt(@, call[k].got, v)]
  BY DEF EndOfStream, At, Storing
<1>2. /\ req[k] # None /\ f \in Files /\ v \in Versions /\ Chunks[v] \in Nat
      /\ call[k] \in CallRecord /\ call[k].got \in Nat /\ call[k].flushed \in Nat
  BY <1>1, StoreRequest DEF CallRecord
<1>3. n \in Inodes /\ n # None /\ data[n] \in Contents /\ Inode(n, f)
  <2>1. n \in Inodes /\ n # None
    BY <1>1, ServerAssumption DEF Shape, CallShape, Inodes
  <2> QED
    BY <1>2, <2>1 DEF DataInv, CallData, OpenOwn, Shape, TypeOK
<1>4. \/ call[k].bad /\ Moved(k, "release", "NOT_FOUND")
      \/ ~call[k].bad /\ Moved(k, "stats", call[k].status)
  BY <1>1, Moving DEF Pcs, Statuses
<1>5. StepOf(k)
  <2>1. \A m \in Inodes : data'[m] = data[m] \/ (Storing(k) /\ Inode(m, f))
    BY <1>1, <1>3 DEF Shape, TypeOK
  <2> QED
    BY <1>1, <1>4, <2>1 DEF StepOf, Moved
<1>6. CASE call[k].bad
  <2>1. Aside(k)
    BY <1>4, <1>6, MovedAside
  <2> QED
    BY <1>2, <1>5, <2>1, AsideKeeps
<1>7. CASE ~call[k].bad
  <2>1. OpenOwn(k)'
    BY <1>1, <1>3, <1>4, <1>5, InodeStays DEF OpenOwn, Moved
  <2>2. Clean(k)' /\ ReadsStable(k)'
    BY <1>4, <1>7 DEF Clean, Untouched, ReadsStable, At, Moved
  <2>3. ASSUME Undisturbed(f) PROVE Kept(k)'
    <3>1. Sending(k) /\ call[k].got = Chunks[v]
      BY <1>1, <1>2, <2>3 DEF DataInv, CallData, StoresWhole, Undisturbed, On
    <3>2. Linked(k)' /\ call'[k].fd = n
      BY <1>1, <1>4, <3>1 DEF Sending, Linked, Moved
    <3>3. CASE call[k].flushed = call[k].got
      <4>1. data' = data /\ Begins(data[n], v, Chunks[v])
        BY <1>1, <1>2, <1>7, <3>1, <3>3 DEF Sending
      <4> QED
        BY <1>1, <1>3, <3>2, <4>1 DEF Kept
    <3>4. CASE call[k].flushed # call[k].got
      <4>1. /\ call[k].flushed = Chunks[v] - 1 /\ v \in SmallTail
            /\ Begins(data[n], v, Chunks[v] - 1)
        BY <1>2, <1>7, <3>1, <3>4 DEF Sending, Buffered
      <4>2. CASE data' = data /\ DiskFaults
        BY <1>1, <1>3, <3>2, <4>1, <4>2 DEF Kept
      <4>3. CASE data' = [data EXCEPT ![n] = WriteAt(@, call[k].got, v)]
        <5>1. data'[n] = WriteAt(data[n], Chunks[v] - 1 + 1, v)
          BY <1>2, <1>3, <3>1, <4>3 DEF Shape, TypeOK
        <5>2. Chunks[v] - 1 \in Nat
          BY <1>2, <4>1
        <5>3. Begins(data'[n], v, Chunks[v] - 1 + 1)
          BY <1>3, <4>1, <5>1, <5>2, WriteAtEnd
        <5>4. Begins(data'[n], v, Chunks[v])
          BY <1>2, <5>3 DEF Begins
        <5> QED
          BY <1>1, <1>3, <3>2, <5>4 DEF Kept
      <4>4. call[k].flushed < call[k].got
        BY <1>2, <3>1, <4>1
      <4> QED
        BY <1>1, <1>7, <4>2, <4>3, <4>4
    <3> QED
      BY <3>3, <3>4
  <2>4. ASSUME NEW g \in Files, g = f, Undisturbed(g)' PROVE Kept(k)'
    BY <1>5, <2>3, <2>4, UndisturbedBefore
  <2>5. StoresWhole(k)'
    BY <1>1, <1>2, <1>4, <1>7, <2>4 DEF StoresWhole, At, Moved, Undisturbed, On
  <2> QED
    BY <1>5, <2>1, <2>2, <2>5, OthersKept DEF CallData, DataInv
<1> QED
  BY <1>6, <1>7

LEMMA DataStatAfterWrite ==
  ASSUME LockInv, DataInv, NEW k \in Calls, StatAfterWrite(k)
  PROVE  DataInv'
<1> USE DEF LockInv
<1>1. At(k, "stats") /\ Storing(k) /\ UNCHANGED <<lock_file_map, dir, data, req>>
  BY DEF StatAfterWrite, At, Storing
<1>2. req[k] # None /\ req[k].file \in Files
  BY <1>1, StoreRequest
<1>3. \E s \in Statuses : Moved(k, "release", s)
  BY Moving DEF StatAfterWrite, Statuses
<1>4. StepOf(k)
  BY <1>1, <1>3, QuietStepOf DEF Moved
<1>5. CallData(k)'
  <2>1. CallData(k)
    BY DEF DataInv
  <2>2. OpenOwn(k)'
    BY <1>1, <1>3, <1>4, <2>1, InodeStays DEF CallData, OpenOwn, Moved
  <2>3. Clean(k)' /\ ReadsStable(k)'
    BY <1>3 DEF Clean, Untouched, ReadsStable, At, Moved
  <2>4. ASSUME NEW g \in Files, g = req[k].file, Undisturbed(g)' PROVE Kept(k)'
    <3>1. Kept(k)
      BY <1>1, <1>2, <1>4, <2>1, <2>4, UndisturbedBefore DEF CallData, StoresWhole, Succeeds
    <3> QED
      BY <1>1, <1>3, <3>1 DEF Kept, Linked, Moved
  <2>5. StoresWhole(k)'
    BY <1>1, <1>2, <1>3, <2>4 DEF StoresWhole, At, Moved, Undisturbed, On
  <2> QED
    BY <2>2, <2>3, <2>5 DEF CallData
<1> QED
  BY <1>4, <1>5, OthersKept DEF DataInv

LEMMA DataOpenForRead ==
  ASSUME LockInv, DataInv, NEW k \in Calls, OpenForRead(k)
  PROVE  DataInv'
<1> USE DEF LockInv
<1> DEFINE n == dir[req[k].file]
<1>1. /\ At(k, "read_open") /\ ~At(k, "idle") /\ Untouched(k)
      /\ UNCHANGED <<lock_file_map, dir, data, req>>
  BY DEF OpenForRead, At, Untouched
<1>2. req[k] # None /\ req[k].file \in Files /\ call[k] \in CallRecord
  BY <1>1, Running DEF CallShape
<1>3. CASE n = None
  <2>1. Moved(k, "done", "NOT_FOUND")
    BY <1>3, Moving DEF OpenForRead, Statuses
  <2>2. Aside(k) /\ StepOf(k)
    BY <1>1, <2>1, MovedAside, QuietStepOf DEF Moved
  <2> QED
    BY <1>2, <2>2, AsideKeeps
<1>4. CASE n # None
  <2>1. call' = [call EXCEPT ![k] = [@ EXCEPT !.pc = "read", !.fd = n]]
    BY <1>4 DEF OpenForRead
  <2>2. /\ call'[k].pc = "read" /\ call'[k].fd = n /\ call'[k].seen = call[k].seen
        /\ call'[k].acquire = call[k].acquire /\ call'[k].cancelled = call[k].cancelled
        /\ \A j \in Calls \ {k} : call'[j] = call[j]
    BY <1>2, <2>1 DEF Shape, TypeOK, CallRecord
  <2>3. StepOf(k)
    BY <1>1, <2>2, QuietStepOf
  <2>4. OpenOwn(k)'
    <3>1. Inode(n, req[k].file)
      BY <1>2, <1>4 DEF DataInv, Names
    <3> QED
      BY <1>1, <2>2, <2>3, <3>1, InodeStays DEF OpenOwn
  <2>5. Agrees(k)'
    <3>1. call[k].seen = <<>>
      BY <1>1 DEF DataInv, CallData, Clean
    <3>2. Len(data[n]) \in Nat
      BY <1>2, <1>4 DEF Shape, TypeOK, Contents
    <3> QED
      BY <1>1, <2>2, <3>1, <3>2 DEF Agrees
  <2>6. CallData(k)'
    BY <2>2, <2>4, <2>5 DEF CallData, Clean, Untouched, StoresWhole, Succeeds, ReadsStable, At
  <2> QED
    BY <2>3, <2>6, OthersKept DEF DataInv
<1> QED
  BY <1>3, <1>4

LEMMA DataReadChunk ==
  ASSUME LockInv, DataInv, NEW k \in Calls, ReadChunk(k)
  PROVE  DataInv'
<1> USE DEF LockInv
<1> DEFINE n == call[k].fd
           i == Len(call[k].seen) + 1
<1>1. /\ At(k, "read") /\ ~At(k, "idle") /\ i <= Len(data[n])
      /\ UNCHANGED <<lock_file_map, dir, data, req>>
      /\ call' = [call EXCEPT ![k].seen = Append(@, data[n][i])]
  BY DEF ReadChunk, At
<1>2. /\ req[k] # None /\ req[k].file \in Files /\ call[k] \in CallRecord
      /\ n \in Inodes /\ data[n] \in Contents
  BY <1>1, Running DEF CallShape, Shape, TypeOK
<1>3. /\ call'[k].pc = "read" /\ call'[k].fd = n
      /\ call'[k].seen = Append(call[k].seen, data[n][i])
      /\ call'[k].acquire = call[k].acquire /\ call'[k].cancelled = call[k].cancelled
      /\ \A j \in Calls \ {k} : call'[j] = call[j]
  BY <1>1, <1>2 DEF Shape, TypeOK, CallRecord, At
<1>4. StepOf(k)
  BY <1>1, <1>3, QuietStepOf
<1>5. CallData(k)
  BY DEF DataInv
<1>6. OpenOwn(k)'
  BY <1>1, <1>3, <1>4, <1>5, InodeStays DEF CallData, OpenOwn
<1>7. ASSUME Agrees(k) PROVE Agrees(k)'
  <2>1. call[k].seen \in Seq(Versions \cup {Hole}) /\ data[n] \in Seq(Versions \cup {Hole})
    BY <1>2 DEF CallRecord, Contents
  <2>2. data[n][i] \in Versions \cup {Hole}
    BY <1>1, <2>1
  <2>3. /\ Len(call'[k].seen) = i /\ call'[k].seen[i] = data[n][i]
        /\ \A m \in 1 .. Len(call[k].seen) : call'[k].seen[m] = call[k].seen[m]
    BY <1>3, <2>1, <2>2
  <2> QED
    BY <1>1, <1>3, <1>7, <2>1, <2>3 DEF Agrees
<1>8. ASSUME NEW g \in Files, g = req[k].file, Undisturbed(g)',
             lock_file_map[g] = req[k].client
      PROVE  Agrees(k)'
  <2>1. Undisturbed(g)
    BY <1>4, <1>8, UndisturbedBefore
  <2> QED
    BY <1>1, <1>5, <1>7, <1>8, <2>1 DEF CallData, ReadsStable
<1>9. ReadsStable(k)'
  BY <1>1, <1>2, <1>8 DEF ReadsStable, Undisturbed, On
<1>10. CallData(k)'
  BY <1>3, <1>6, <1>9 DEF CallData, Clean, Untouched, StoresWhole, Succeeds, At
<1> QED
  BY <1>4, <1>10, OthersKept DEF DataInv

(* A restart ends the calls that run and leaves the directory as it is.    *)
LEMMA DataCrash ==
  ASSUME LockInv, DataInv, Crash
  PROVE  DataInv'
<1>1. UNCHANGED <<dir, data, req>>
  BY DEF Crash
<1>2. ASSUME NEW k \in Calls PROVE CallData(k)'
  <2>1. CallData(k) /\ call[k] \in CallRecord
    BY DEF DataInv, LockInv, Shape, TypeOK
  <2>2. /\ call'[k].pc = "dead" \/ (call'[k].pc = call[k].pc /\ ~Busy(k))
        /\ call'[k].fd = call[k].fd /\ call'[k].got = call[k].got
        /\ call'[k].flushed = call[k].flushed /\ call'[k].bad = call[k].bad
        /\ call'[k].seen = call[k].seen
    <3>1. CASE Busy(k)
      BY <2>1, <3>1 DEF Crash, CallRecord
    <3>2. CASE ~Busy(k)
      BY <3>2 DEF Crash
    <3> QED
      BY <3>1, <3>2
  <2>3. OpenOwn(k)' /\ Clean(k)'
    BY <1>1, <2>1, <2>2 DEF CallData, OpenOwn, Inode, On, Clean, Untouched
  <2>4. StoresWhole(k)' /\ ReadsStable(k)'
    BY <2>2 DEF StoresWhole, ReadsStable, Succeeds, At, Busy
  <2> QED
    BY <2>3, <2>4 DEF CallData
<1> QED
  BY <1>1, <1>2 DEF DataInv, Names, Inode, On

LEMMA DataNext == LockInv /\ DataInv /\ [Next]_vars => DataInv'
<1> SUFFICES ASSUME LockInv, DataInv, [Next]_vars PROVE DataInv'
  OBVIOUS
<1>1. CASE UNCHANGED vars
  BY <1>1 DEF vars, DataInv, Names, Inode, On, CallData, OpenOwn, Clean, Untouched,
              StoresWhole, Sending, Kept, Linked, Succeeds, At, Undisturbed,
              ReadsStable, Agrees
<1>2. CASE Crash
  BY <1>2, DataCrash
<1>3. ASSUME NEW k \in Calls, Arrive(k) \/ Cancel(k) \/ Handler(k) PROVE DataInv'
  BY <1>3, DataQuiet, DataLocks, DataOutside, DataOpenForWrite, DataWriteChunk,
     DataEndOfStream, DataStatAfterWrite, DataOpenForRead, DataReadChunk
     DEF Handler, Attended, Unattended, QuietAside
<1> QED
  BY <1>1, <1>2, <1>3 DEF Next

LEMMA DataInvariant == Spec => [](LockInv /\ DataInv)
  BY LockInit, LockNext, DataInit, DataNext, PTL DEF Spec

----------------------------------------------------------------------------
(* A store that is about to answer OK has its version in the file, whole   *)
(* or without the tail that close() failed to write, as long as no call on *)
(* the file lost the race for its lock or outlived its deadline.           *)
THEOREM StoresAreWhole == Spec => []AckedStoreIsWhole
<1>1. LockInv /\ DataInv => AckedStoreIsWhole
  <2> SUFFICES ASSUME LockInv, DataInv, NEW k \in Calls, At(k, "release"),
                      call[k].status = "OK", Undisturbed(req[k].file)
               PROVE  /\ dir[req[k].file] \in {call[k].fd, None}
                      /\ data[call[k].fd] \in StoredAs(req[k].version)
    BY DEF AckedStoreIsWhole
  <2> DEFINE v == req[k].version
             s == data[call[k].fd]
  <2>1. req[k] # None /\ v \in Versions /\ Chunks[v] \in Nat
    BY StoreRequest DEF LockInv, At, Storing
  <2>2. Kept(k)
    BY <2>1 DEF DataInv, CallData, StoresWhole, Succeeds
  <2>3. s \in Seq(Versions \cup {Hole})
    BY <2>2 DEF Kept, LockInv, Shape, TypeOK, Contents
  <2>4. Body(v) \in Seq(Versions) /\ Len(Body(v)) = Chunks[v]
        /\ \A i \in 1 .. Chunks[v] : Body(v)[i] = v
    BY <2>1 DEF Body
  <2>5. CASE Begins(s, v, Chunks[v])
    <3>1. s = Body(v)
      BY <2>1, <2>3, <2>4, <2>5 DEF Begins
    <3> QED
      BY <2>2, <3>1 DEF Kept, Linked, StoredAs
  <2>6. CASE DiskFaults /\ v \in SmallTail /\ Begins(s, v, Chunks[v] - 1)
    <3>1. Chunks[v] \in 1 .. Chunks[v] /\ Buffered(v, Chunks[v])
      BY <2>1, <2>6, ServerAssumption DEF Buffered
    <3>2. s = SubSeq(Body(v), 1, Chunks[v] - 1)
      BY <2>1, <2>3, <2>4, <2>6, <3>1 DEF Begins
    <3> QED
      BY <2>2, <2>6, <3>1, <3>2 DEF Kept, Linked, StoredAs
  <2> QED
    BY <2>2, <2>5, <2>6 DEF Kept
<1> QED
  BY <1>1, DataInvariant, PTL

(* What fetch_file has sent to the holder of the file's lock stays the     *)
(* beginning of what the file contains, under the same proviso.            *)
THEOREM HoldersReadStableFiles == Spec => []HolderReadsStableFile
<1>1. LockInv /\ DataInv => HolderReadsStableFile
  <2> SUFFICES ASSUME LockInv, DataInv, NEW k \in Calls, At(k, "read"),
                      lock_file_map[req[k].file] = req[k].client,
                      Undisturbed(req[k].file)
               PROVE  /\ Len(call[k].seen) <= Len(data[call[k].fd])
                      /\ call[k].seen = SubSeq(data[call[k].fd], 1, Len(call[k].seen))
    BY DEF HolderReadsStableFile
  <2>1. Agrees(k)
    BY DEF DataInv, CallData, ReadsStable
  <2>2. /\ call[k].seen \in Seq(Versions \cup {Hole})
        /\ data[call[k].fd] \in Seq(Versions \cup {Hole})
    BY DEF LockInv, Shape, TypeOK, CallShape, CallRecord, Contents
  <2> QED
    BY <2>1, <2>2 DEF Agrees
<1> QED
  BY <1>1, DataInvariant, PTL
=============================================================================
