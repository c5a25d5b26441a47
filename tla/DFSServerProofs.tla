-------------------------- MODULE DFSServerProofs --------------------------
(***************************************************************************)
(* Theorems about DFSServer, for any clients, files, calls and versions.   *)
(***************************************************************************)
EXTENDS DFSServer, TLAPS

(* The bytes of a version are contents.                                    *)
LEMMA BodyType == \A v \in Versions : Body(v) \in Contents
  BY ServerAssumption DEF Body, Contents

(* Writing a chunk at any position of some contents gives contents.        *)
LEMMA WriteAtType ==
  ASSUME NEW s \in Contents, NEW i \in Nat \ {0}, NEW x \in Versions
  PROVE  WriteAt(s, i, x) \in Contents
  <1> DEFINE n == IF i > Len(s) THEN i ELSE Len(s)
  <1>1. n \in Nat
    BY DEF Contents
  <1>2. ASSUME NEW j \in 1 .. n
        PROVE  (IF j = i THEN x ELSE IF j <= Len(s) THEN s[j] ELSE Hole)
                   \in Versions \cup {Hole}
    BY <1>2 DEF Contents
  <1> QED
    BY <1>1, <1>2 DEF WriteAt, Contents

(* A call record stays one when some of its fields get new values.         *)
LEMMA RecordType ==
  ASSUME NEW c \in CallRecord,
         NEW pc \in Pcs, NEW s \in Statuses, NEW a \in {"none", "won", "lost"},
         NEW n \in Inodes \cup {None}, NEW i \in Nat, NEW j \in Nat,
         NEW b \in BOOLEAN, NEW seen \in Contents
  PROVE  /\ [c EXCEPT !.cancelled = b] \in CallRecord
         /\ [c EXCEPT !.pc = pc] \in CallRecord
         /\ [c EXCEPT !.pc = pc, !.status = s] \in CallRecord
         /\ [c EXCEPT !.acquire = a, !.pc = pc] \in CallRecord
         /\ [c EXCEPT !.acquire = a, !.pc = pc, !.status = s] \in CallRecord
         /\ [c EXCEPT !.pc = pc, !.fd = n] \in CallRecord
         /\ [c EXCEPT !.got = i] \in CallRecord
         /\ [c EXCEPT !.got = i, !.flushed = j] \in CallRecord
         /\ [c EXCEPT !.got = i, !.bad = b] \in CallRecord
         /\ [c EXCEPT !.seen = seen] \in CallRecord
  <1> USE DEF CallRecord
  <1>1. [c EXCEPT !.cancelled = b] \in CallRecord
    OBVIOUS
  <1>2. [c EXCEPT !.pc = pc] \in CallRecord
    OBVIOUS
  <1>3. [c EXCEPT !.pc = pc, !.status = s] \in CallRecord
    OBVIOUS
  <1>4. [c EXCEPT !.acquire = a, !.pc = pc] \in CallRecord
    OBVIOUS
  <1>5. [c EXCEPT !.acquire = a, !.pc = pc, !.status = s] \in CallRecord
    OBVIOUS
  <1>6. [c EXCEPT !.pc = pc, !.fd = n] \in CallRecord
    OBVIOUS
  <1>7. [c EXCEPT !.got = i] \in CallRecord
    OBVIOUS
  <1>8. [c EXCEPT !.got = i, !.flushed = j] \in CallRecord
    OBVIOUS
  <1>9. [c EXCEPT !.got = i, !.bad = b] \in CallRecord
    OBVIOUS
  <1>10. [c EXCEPT !.seen = seen] \in CallRecord
    OBVIOUS
  <1> QED
    BY <1>1, <1>2, <1>3, <1>4, <1>5, <1>6, <1>7, <1>8, <1>9, <1>10

(* So the calls stay typed when one of them gets a record.                 *)
LEMMA CallsType ==
  ASSUME NEW k \in Calls, NEW r \in CallRecord, call \in [Calls -> CallRecord],
         call' = [call EXCEPT ![k] = r]
  PROVE  call' \in [Calls -> CallRecord]
  OBVIOUS

(* In particular when a handler moves on, returns, or is about to leave.   *)
LEMMA GoToType ==
  ASSUME NEW k \in Calls, NEW pc \in Pcs,
         call \in [Calls -> CallRecord], GoTo(k, pc)
  PROVE  call' \in [Calls -> CallRecord]
  BY DEF GoTo, CallRecord

LEMMA ReturnType ==
  ASSUME NEW k \in Calls, NEW s \in Statuses,
         call \in [Calls -> CallRecord], Return(k, s)
  PROVE  call' \in [Calls -> CallRecord]
  <1> DEFINE r == [call[k] EXCEPT !.pc = "done", !.status = s]
  <1>1. r \in CallRecord
    <2>1. call[k] \in CallRecord
      OBVIOUS
    <2> QED
      BY <2>1 DEF CallRecord, Pcs
  <1>2. call' = [call EXCEPT ![k] = r]
    BY DEF Return
  <1> HIDE DEF r
  <1> QED
    BY <1>1, <1>2, CallsType

LEMMA LeaveType ==
  ASSUME NEW k \in Calls, NEW s \in Statuses,
         call \in [Calls -> CallRecord], Leave(k, s)
  PROVE  call' \in [Calls -> CallRecord]
  <1> DEFINE r == [call[k] EXCEPT !.pc = "release", !.status = s]
  <1>1. r \in CallRecord
    <2>1. call[k] \in CallRecord
      OBVIOUS
    <2> QED
      BY <2>1 DEF CallRecord, Pcs
  <1>2. call' = [call EXCEPT ![k] = r]
    BY DEF Leave
  <1> HIDE DEF r
  <1> QED
    BY <1>1, <1>2, CallsType

----------------------------------------------------------------------------
(* The inductive invariant of the handlers: types, and how a call's place  *)
(* in its handler depends on its request and on what it did so far.        *)

(* A call has a request once it arrived; store_file is what carries a      *)
(* version; a handler only reaches the steps of its own RPC; and what is   *)
(* written or read is open.                                                *)
CallShape(k) ==
    /\ At(k, "idle") <=> req[k] = None
    /\ req[k] # None => ((req[k].op = "store_file") <=> (req[k].version # None))
    /\ At(k, "header") \/ Storing(k) => req[k].op = "store_file"
    /\ At(k, "acquire") \/ At(k, "erase") => req[k].op \in {"store_file", "lock_file"}
    /\ At(k, "write") \/ At(k, "read") => call[k].fd \in Inodes

Shape == TypeOK /\ \A k \in Calls : CallShape(k)

(* What a handler's step may do to the shared state, as far as types go.   *)
SharedOK ==
    /\ lock_file_map' \in [Files -> Clients \cup {None, NoClient}]
    /\ dir' \in [Files -> Inodes \cup {None}]
    /\ data' \in [Inodes -> Contents]
    /\ crashes' = crashes
    /\ req' = req

LEMMA ShapeInit == Init => Shape
<1> SUFFICES ASSUME Init PROVE Shape
  OBVIOUS
<1>1. lock_file_map \in [Files -> Clients \cup {None, NoClient}]
  BY DEF Init
<1>2. dir \in [Files -> Inodes \cup {None}]
  BY DEF Init, Inodes
<1>3. data \in [Inodes -> Contents]
  BY BodyType DEF Init, Contents
<1>4. req \in [Calls -> Request \cup {None}] /\ crashes \in 0 .. MaxCrashes
  BY ServerAssumption DEF Init
<1>5. NewCall \in CallRecord
  BY DEF NewCall, CallRecord, Pcs, Statuses, Contents
<1>6. \A k \in Calls : CallShape(k)
  BY DEF Init, NewCall, CallShape, At, Storing
<1> QED
  BY <1>1, <1>2, <1>3, <1>4, <1>5, <1>6 DEF Shape, TypeOK, Init

(* What a step of call k does to k's record keeps the shape of all calls,  *)
(* since it touches no other.                                              *)
LEMMA ShapeOfOne ==
  ASSUME Shape, NEW k \in Calls, NEW r \in CallRecord,
         call' = [call EXCEPT ![k] = r],
         SharedOK, CallShape(k)'
  PROVE  Shape'
  <1>1. ASSUME NEW j \in Calls, j # k PROVE CallShape(j)'
    <2>1. call'[j] = call[j] /\ req' = req
      BY <1>1 DEF Shape, TypeOK, SharedOK
    <2>2. CallShape(j)
      BY DEF Shape
    <2> QED
      BY <2>1, <2>2 DEF CallShape, At, Storing
  <1>2. call' \in [Calls -> CallRecord]
    BY CallsType DEF Shape, TypeOK
  <1> QED
    BY <1>1, <1>2 DEF Shape, TypeOK, SharedOK

(* The steps that only move a handler on, and those that end its work.     *)
LEMMA ShapeGoTo ==
  ASSUME Shape, NEW k \in Calls, ~At(k, "idle"),
         NEW pc \in Pcs \ {"idle", "write", "read"}, GoTo(k, pc), SharedOK,
         pc \in {"header", "content", "open", "stats", "release"}
             => req[k].op = "store_file",
         pc \in {"acquire", "erase"} => req[k].op \in {"store_file", "lock_file"}
  PROVE  Shape'
  <1> DEFINE r == [call[k] EXCEPT !.pc = pc]
  <1>1. call[k] \in CallRecord /\ CallShape(k)
    BY DEF Shape, TypeOK
  <1>2. r \in CallRecord /\ r.pc = pc
    BY <1>1 DEF CallRecord
  <1>3. call' = [call EXCEPT ![k] = r]
    BY DEF GoTo, Shape, TypeOK
  <1> HIDE DEF r
  <1>4. call'[k].pc = pc
    BY <1>2, <1>3 DEF Shape, TypeOK
  <1>5. CallShape(k)'
    BY <1>1, <1>4 DEF CallShape, At, Storing, SharedOK
  <1> QED
    BY <1>2, <1>3, <1>5, ShapeOfOne

LEMMA ShapeReturn ==
  ASSUME Shape, NEW k \in Calls, ~At(k, "idle"), NEW s \in Statuses,
         Return(k, s), SharedOK
  PROVE  Shape'
  <1> DEFINE r == [call[k] EXCEPT !.pc = "done", !.status = s]
  <1>1. call[k] \in CallRecord /\ CallShape(k)
    BY DEF Shape, TypeOK
  <1>2. r \in CallRecord /\ r.pc = "done"
    BY <1>1 DEF CallRecord, Pcs
  <1>3. call' = [call EXCEPT ![k] = r]
    BY DEF Return, Shape, TypeOK
  <1> HIDE DEF r
  <1>4. call'[k].pc = "done"
    BY <1>2, <1>3 DEF Shape, TypeOK
  <1>5. CallShape(k)'
    BY <1>1, <1>4 DEF CallShape, At, Storing, SharedOK
  <1> QED
    BY <1>2, <1>3, <1>5, ShapeOfOne

LEMMA ShapeLeave ==
  ASSUME Shape, NEW k \in Calls, Storing(k), NEW s \in Statuses,
         Leave(k, s), SharedOK
  PROVE  Shape'
  <1> DEFINE r == [call[k] EXCEPT !.pc = "release", !.status = s]
  <1>1. call[k] \in CallRecord /\ CallShape(k)
    BY DEF Shape, TypeOK
  <1>2. r \in CallRecord /\ r.pc = "release"
    BY <1>1 DEF CallRecord, Pcs
  <1>3. call' = [call EXCEPT ![k] = r]
    BY DEF Leave, Shape, TypeOK
  <1> HIDE DEF r
  <1>4. call'[k].pc = "release"
    BY <1>2, <1>3 DEF Shape, TypeOK
  <1>5. CallShape(k)'
    BY <1>1, <1>4 DEF CallShape, At, Storing, SharedOK
  <1> QED
    BY <1>2, <1>3, <1>5, ShapeOfOne

(* Where a handler goes on once the file is not locked.                    *)
LEMMA ShapeUnlocked ==
  ASSUME Shape, NEW k \in Calls, ~At(k, "idle"), Unlocked(k), SharedOK
  PROVE  Shape'
  <1>1. req[k].op \in AllOps
    BY ServerAssumption DEF Shape, TypeOK, CallShape, Request, AllOps
  <1>2. CASE GoTo(k, "acquire") /\ req[k].op \in {"store_file", "lock_file"}
    BY <1>2, ShapeGoTo DEF Pcs
  <1>3. CASE GoTo(k, "read_open") \/ GoTo(k, "stat") \/ GoTo(k, "remove")
    BY <1>3, ShapeGoTo DEF Pcs
  <1> QED
    BY <1>1, <1>2, <1>3 DEF Unlocked, AllOps

(* What a handler may rely on at each of its steps.                        *)
LEMMA Running ==
  ASSUME Shape, NEW k \in Calls, ~At(k, "idle")
  PROVE  /\ req[k] \in Request /\ req[k].op \in AllOps
         /\ req[k].file \in Files /\ req[k].client \in Clients
         /\ CallShape(k) /\ call[k] \in CallRecord
  BY ServerAssumption DEF Shape, TypeOK, CallShape, Request

(* Every step keeps the shape.                                             *)
LEMMA ShapeNext == Shape /\ [Next]_vars => Shape'
<1> SUFFICES ASSUME Shape, [Next]_vars PROVE Shape'
  OBVIOUS
<1> DEFINE Quiet == UNCHANGED <<lock_file_map, dir, data, req, crashes>>
<1>q. Quiet => SharedOK
  BY DEF Shape, TypeOK, SharedOK
<1> HIDE DEF Quiet
<1>1. ASSUME NEW k \in Calls, Arrive(k) PROVE Shape'
  <2> PICK r \in Request :
         /\ (r.op = "store_file") <=> (r.version # None)
         /\ req' = [req EXCEPT ![k] = r]
    BY <1>1 DEF Arrive
  <2> DEFINE c == [call[k] EXCEPT !.pc = "start"]
  <2>1. call[k] \in CallRecord
    BY DEF Shape, TypeOK
  <2>2. c \in CallRecord /\ c.pc = "start"
    BY <2>1 DEF CallRecord, Pcs
  <2>3. call' = [call EXCEPT ![k] = c]
    BY <1>1 DEF Arrive, GoTo, Shape, TypeOK
  <2> HIDE DEF c
  <2>4. call' \in [Calls -> CallRecord] /\ call'[k].pc = "start"
    BY <2>2, <2>3 DEF Shape, TypeOK
  <2>5. ASSUME NEW j \in Calls PROVE CallShape(j)'
    <3>1. CASE j = k
      <4>1. req'[k] = r /\ r # None
        BY ServerAssumption DEF Shape, TypeOK
      <4> QED
        BY <2>4, <3>1, <4>1 DEF CallShape, At, Storing
    <3>2. CASE j # k
      <4>1. call'[j] = call[j] /\ req'[j] = req[j] /\ CallShape(j)
        BY <2>3, <3>2 DEF Shape, TypeOK
      <4> QED
        BY <4>1 DEF CallShape, At, Storing
    <3> QED
      BY <3>1, <3>2
  <2> QED
    BY <1>1, <2>4, <2>5 DEF Arrive, Shape, TypeOK
<1>2. ASSUME NEW k \in Calls, Cancel(k) PROVE Shape'
  <2> DEFINE r == [call[k] EXCEPT !.cancelled = TRUE]
  <2>1. call[k] \in CallRecord /\ CallShape(k)
    BY DEF Shape, TypeOK
  <2>2. r \in CallRecord /\ r.pc = call[k].pc /\ r.fd = call[k].fd
    BY <2>1 DEF CallRecord
  <2>3. call' = [call EXCEPT ![k] = r]
    BY <1>2 DEF Cancel, Shape, TypeOK
  <2> HIDE DEF r
  <2>4. call'[k].pc = call[k].pc /\ call'[k].fd = call[k].fd
    BY <2>2, <2>3 DEF Shape, TypeOK
  <2>5. SharedOK
    BY <1>2 DEF Cancel, SharedOK, Shape, TypeOK
  <2>6. CallShape(k)'
    BY <2>1, <2>4, <2>5 DEF CallShape, At, Storing, SharedOK
  <2> QED
    BY <2>2, <2>3, <2>5, <2>6, ShapeOfOne
<1>3. ASSUME NEW k \in Calls, Begin(k) PROVE Shape'
  <2>1. Quiet /\ ~At(k, "idle") /\ SharedOK
    BY <1>3, <1>q DEF Begin, Quiet, At
  <2>2. CASE Return(k, "DEADLINE_EXCEEDED")
    BY <2>1, <2>2, ShapeReturn DEF Statuses
  <2>3. CASE GoTo(k, "header") /\ req[k].op = "store_file"
    BY <2>1, <2>3, ShapeGoTo DEF Pcs
  <2>4. CASE GoTo(k, "fetch_stats") \/ GoTo(k, "count")
    BY <2>1, <2>4, ShapeGoTo DEF Pcs
  <2> QED
    BY <1>3, <2>2, <2>3, <2>4 DEF Begin
<1>4. ASSUME NEW k \in Calls, ReadHeader(k) PROVE Shape'
  <2>1. Quiet /\ ~At(k, "idle") /\ SharedOK
    BY <1>4, <1>q DEF ReadHeader, Quiet, At
  <2> QED
    BY <1>4, <2>1, ShapeGoTo DEF ReadHeader, Pcs
<1>5. ASSUME NEW k \in Calls, LostHeader(k) PROVE Shape'
  <2>1. Quiet /\ ~At(k, "idle") /\ SharedOK
    BY <1>5, <1>q DEF LostHeader, Quiet, At
  <2> QED
    BY <1>5, <2>1, ShapeReturn DEF LostHeader, Statuses
<1>6. ASSUME NEW k \in Calls, CheckCount(k) PROVE Shape'
  <2>1. Quiet /\ ~At(k, "idle") /\ SharedOK
    BY <1>6, <1>q DEF CheckCount, Quiet, At
  <2>2. CASE Unlocked(k)
    BY <2>1, <2>2, ShapeUnlocked
  <2>3. CASE GoTo(k, "owner")
    BY <2>1, <2>3, ShapeGoTo DEF Pcs
  <2> QED
    BY <1>6, <2>2, <2>3 DEF CheckCount
<1>7. ASSUME NEW k \in Calls, CheckOwner(k) PROVE Shape'
  <2>1. ~At(k, "idle")
    BY <1>7 DEF CheckOwner, At
  <2>2. SharedOK
    BY <1>7, <2>1, Running DEF CheckOwner, SharedOK, Shape, TypeOK
  <2>3. CASE Unlocked(k)
    BY <2>1, <2>2, <2>3, ShapeUnlocked
  <2>4. CASE Return(k, "RESOURCE_EXHAUSTED")
    BY <2>1, <2>2, <2>4, ShapeReturn DEF Statuses
  <2> QED
    BY <1>7, <2>3, <2>4 DEF CheckOwner
<1>8. ASSUME NEW k \in Calls, Acquire(k) PROVE Shape'
  <2>1. ~At(k, "idle") /\ call[k].pc = "acquire"
    BY <1>8 DEF Acquire, At
  <2>2. SharedOK
    BY <1>8, <2>1, Running DEF Acquire, SharedOK, Shape, TypeOK
  <2>3. /\ call[k] \in CallRecord /\ CallShape(k)
        /\ req[k].op \in {"store_file", "lock_file"}
    BY <2>1, Running DEF CallShape, At
  <2>4. PICK r \in {[call[k] EXCEPT !.acquire = "won", !.pc = "content"],
                    [call[k] EXCEPT !.acquire = "won", !.pc = "done", !.status = "OK"],
                    [call[k] EXCEPT !.acquire = "lost", !.pc = "erase"]} :
           /\ call' = [call EXCEPT ![k] = r]
           /\ r.pc = "content" => req[k].op = "store_file"
    BY <1>8, <2>3 DEF Acquire, Granted, CallRecord
  <2>5. r \in CallRecord /\ r.pc \in {"content", "done", "erase"}
    <3> USE <2>3 DEF CallRecord, Pcs, Statuses
    <3>1. CASE r = [call[k] EXCEPT !.acquire = "won", !.pc = "content"]
      BY <3>1
    <3>2. CASE r = [call[k] EXCEPT !.acquire = "won", !.pc = "done", !.status = "OK"]
      BY <3>2
    <3>3. CASE r = [call[k] EXCEPT !.acquire = "lost", !.pc = "erase"]
      BY <3>3
    <3> QED
      BY <3>1, <3>2, <3>3
  <2>6. call'[k] = r
    BY <2>4 DEF Shape, TypeOK
  <2>7. CallShape(k)'
    BY <2>1, <2>2, <2>3, <2>4, <2>5, <2>6 DEF CallShape, At, Storing, SharedOK
  <2> QED
    BY <2>2, <2>4, <2>5, <2>7, ShapeOfOne
<1>9. ASSUME NEW k \in Calls, EraseWinner(k) PROVE Shape'
  <2>1. ~At(k, "idle")
    BY <1>9 DEF EraseWinner, At
  <2>2. SharedOK
    BY <1>9, <2>1, Running DEF EraseWinner, SharedOK, Shape, TypeOK
  <2>3. CASE GoTo(k, "content") /\ req[k].op = "store_file"
    BY <2>1, <2>2, <2>3, ShapeGoTo DEF Pcs
  <2>4. CASE Return(k, "OK")
    BY <2>1, <2>2, <2>4, ShapeReturn DEF Statuses
  <2> QED
    BY <1>9, <2>3, <2>4 DEF EraseWinner
<1>10. ASSUME NEW k \in Calls, CheckContent(k) PROVE Shape'
  <2>1. Quiet /\ SharedOK /\ ~At(k, "idle") /\ Storing(k)
    BY <1>10, <1>q DEF CheckContent, Quiet, At, Storing
  <2>2. req[k].op = "store_file"
    BY <2>1 DEF Shape, CallShape
  <2>3. CASE Leave(k, "ALREADY_EXISTS")
    BY <2>1, <2>3, ShapeLeave DEF Statuses
  <2>4. CASE GoTo(k, "open")
    BY <2>1, <2>2, <2>4, ShapeGoTo DEF Pcs
  <2> QED
    BY <1>10, <2>3, <2>4 DEF CheckContent
<1>11. ASSUME NEW k \in Calls, OpenForWrite(k) PROVE Shape'
  <2> DEFINE f == req[k].file
             n == IF dir[f] = None THEN k ELSE dir[f]
             r == [call[k] EXCEPT !.pc = "write", !.fd = n]
  <2>1. call[k].pc = "open" /\ ~At(k, "idle")
    BY <1>11 DEF OpenForWrite, At
  <2>2. call[k] \in CallRecord /\ CallShape(k) /\ f \in Files
    BY <2>1, Running
  <2>3. n \in Inodes
    BY <2>2 DEF Shape, TypeOK, Inodes
  <2>4. /\ dir' = [dir EXCEPT ![f] = n]
        /\ data' = [data EXCEPT ![n] = <<>>]
        /\ call' = [call EXCEPT ![k] = r]
    BY <1>11 DEF OpenForWrite
  <2> HIDE DEF f, n
  <2>5. SharedOK
    <3>1. <<>> \in Contents
      BY DEF Contents
    <3>2. data' \in [Inodes -> Contents] /\ dir' \in [Files -> Inodes \cup {None}]
      BY <2>3, <2>4, <3>1 DEF Shape, TypeOK
    <3> QED
      BY <1>11, <3>2 DEF OpenForWrite, SharedOK, Shape, TypeOK
  <2>6. r \in CallRecord /\ r.pc = "write" /\ r.fd = n
    BY <2>2, <2>3 DEF CallRecord, Pcs
  <2> HIDE DEF r
  <2>7. call'[k] = r
    BY <2>4 DEF Shape, TypeOK
  <2>8. CallShape(k)'
    BY <2>1, <2>2, <2>3, <2>5, <2>6, <2>7 DEF CallShape, At, Storing, SharedOK
  <2> QED
    BY <2>4, <2>5, <2>6, <2>8, ShapeOfOne
<1>12. ASSUME NEW k \in Calls, OpenFails(k) PROVE Shape'
  <2>1. Quiet /\ SharedOK /\ Storing(k)
    BY <1>12, <1>q DEF OpenFails, Quiet, At, Storing
  <2> QED
    BY <1>12, <2>1, ShapeLeave DEF OpenFails, Statuses
<1>13. ASSUME NEW k \in Calls, WriteChunk(k) PROVE Shape'
  <2> DEFINE v == req[k].version
             i == call[k].got + 1
  <2>1. call[k].pc = "write" /\ ~At(k, "idle")
    BY <1>13 DEF WriteChunk, At
  <2>2. /\ call[k] \in CallRecord /\ CallShape(k)
        /\ req[k] \in Request /\ req[k].op = "store_file"
        /\ call[k].fd \in Inodes /\ call[k].got \in Nat
    BY <2>1, Running DEF CallShape, At, Storing, CallRecord
  <2>3. v \in Versions /\ i \in Nat \ {0}
    BY <2>1, <2>2 DEF CallShape, At, Request
  <2>4. PICK r \in {[call[k] EXCEPT !.got = i],
                    [call[k] EXCEPT !.got = i, !.flushed = i],
                    [call[k] EXCEPT !.got = i, !.bad = TRUE]} :
           call' = [call EXCEPT ![k] = r]
    <3>1. \/ call' = [call EXCEPT ![k] = [call[k] EXCEPT !.got = i]]
          \/ call' = [call EXCEPT ![k] = [call[k] EXCEPT !.got = i, !.flushed = i]]
          \/ call' = [call EXCEPT ![k] = [call[k] EXCEPT !.got = i, !.bad = TRUE]]
      BY <1>13 DEF WriteChunk, Shape, TypeOK
    <3> QED
      BY <3>1
  <2>5. data' = data \/ data' = [data EXCEPT ![call[k].fd] = WriteAt(@, i, v)]
    BY <1>13 DEF WriteChunk
  <2> HIDE DEF i, v
  <2>6. r \in CallRecord /\ r.pc = "write" /\ r.fd = call[k].fd
    BY <2>1, <2>2, <2>3 DEF CallRecord
  <2>7. data' \in [Inodes -> Contents]
    BY <2>2, <2>3, <2>5, WriteAtType DEF Shape, TypeOK
  <2>8. SharedOK
    BY <1>13, <2>7 DEF WriteChunk, SharedOK, Shape, TypeOK
  <2>9. call'[k] = r
    BY <2>4 DEF Shape, TypeOK
  <2>10. CallShape(k)'
    BY <2>1, <2>2, <2>6, <2>8, <2>9 DEF CallShape, At, Storing, SharedOK
  <2> QED
    BY <2>4, <2>6, <2>8, <2>10, ShapeOfOne
<1>14. ASSUME NEW k \in Calls, EndOfStream(k) PROVE Shape'
  <2> DEFINE c == call[k]
             v == req[k].version
  <2>1. c.pc = "write" /\ ~At(k, "idle") /\ Storing(k)
    BY <1>14 DEF EndOfStream, At, Storing
  <2>2. /\ c \in CallRecord /\ CallShape(k)
        /\ req[k] \in Request /\ req[k].op = "store_file" /\ c.fd \in Inodes
    BY <2>1, Running DEF CallShape, At
  <2>3. v \in Versions /\ c.got \in Nat /\ c.flushed \in Nat
    BY <2>1, <2>2 DEF CallShape, At, Request, CallRecord
  <2>4. \/ data' = data
        \/ (c.flushed < c.got /\ data' = [data EXCEPT ![c.fd] = WriteAt(@, c.got, v)])
    BY <1>14 DEF EndOfStream
  <2>5. data' \in [Inodes -> Contents]
    <3>1. CASE data' = data
      BY <3>1 DEF Shape, TypeOK
    <3>2. CASE c.flushed < c.got /\ data' = [data EXCEPT ![c.fd] = WriteAt(@, c.got, v)]
      <4>1. c.got \in Nat \ {0} /\ data[c.fd] \in Contents
        BY <2>2, <2>3, <3>2 DEF Shape, TypeOK
      <4>2. WriteAt(data[c.fd], c.got, v) \in Contents
        BY <2>3, <4>1, WriteAtType
      <4> QED
        BY <3>2, <4>2 DEF Shape, TypeOK
    <3> QED
      BY <2>4, <3>1, <3>2
  <2>6. SharedOK
    BY <1>14, <2>5 DEF EndOfStream, SharedOK, Shape, TypeOK
  <2>7. CASE Leave(k, "NOT_FOUND")
    BY <2>1, <2>6, <2>7, ShapeLeave DEF Statuses
  <2>8. CASE GoTo(k, "stats")
    BY <2>1, <2>2, <2>6, <2>8, ShapeGoTo DEF Pcs
  <2> QED
    BY <1>14, <2>7, <2>8 DEF EndOfStream
<1>15. ASSUME NEW k \in Calls, StatAfterWrite(k) PROVE Shape'
  <2>1. Quiet /\ SharedOK /\ Storing(k)
    BY <1>15, <1>q DEF StatAfterWrite, Quiet, At, Storing
  <2> QED
    BY <1>15, <2>1, ShapeLeave DEF StatAfterWrite, Statuses
<1>16. ASSUME NEW k \in Calls, Release(k) PROVE Shape'
  <2>1. ~At(k, "idle")
    BY <1>16 DEF Release, At
  <2>2. SharedOK
    BY <1>16, <2>1, Running DEF Release, SharedOK, Shape, TypeOK
  <2> QED
    BY <1>16, <2>1, <2>2, ShapeGoTo DEF Release, Pcs
<1>17. ASSUME NEW k \in Calls, FetchStats(k) PROVE Shape'
  <2>1. Quiet /\ ~At(k, "idle") /\ SharedOK
    BY <1>17, <1>q DEF FetchStats, Quiet, At
  <2>2. CASE Return(k, "NOT_FOUND")
    BY <2>1, <2>2, ShapeReturn DEF Statuses
  <2>3. CASE GoTo(k, "count")
    BY <2>1, <2>3, ShapeGoTo DEF Pcs
  <2> QED
    BY <1>17, <2>2, <2>3 DEF FetchStats
<1>18. ASSUME NEW k \in Calls, OpenForRead(k) PROVE Shape'
  <2> DEFINE n == dir[req[k].file]
             r == [call[k] EXCEPT !.pc = "read", !.fd = n]
  <2>1. Quiet /\ ~At(k, "idle") /\ SharedOK /\ call[k].pc = "read_open"
    BY <1>18, <1>q DEF OpenForRead, Quiet, At
  <2>2. CASE Return(k, "NOT_FOUND")
    BY <2>1, <2>2, ShapeReturn DEF Statuses
  <2>3. CASE n # None /\ call' = [call EXCEPT ![k] = r]
    <3>1. call[k] \in CallRecord /\ CallShape(k) /\ req[k].file \in Files
      BY <2>1, Running
    <3>2. n \in Inodes
      BY <2>3, <3>1 DEF Shape, TypeOK
    <3> HIDE DEF n
    <3>3. r \in CallRecord /\ r.pc = "read" /\ r.fd = n
      BY <3>1, <3>2 DEF CallRecord, Pcs
    <3> HIDE DEF r
    <3>4. call'[k] = r
      BY <2>3 DEF Shape, TypeOK
    <3>5. CallShape(k)'
      BY <2>1, <3>1, <3>2, <3>3, <3>4 DEF CallShape, At, Storing, SharedOK
    <3> QED
      BY <2>1, <2>3, <3>3, <3>5, ShapeOfOne
  <2> QED
    BY <1>18, <2>2, <2>3 DEF OpenForRead
<1>19. ASSUME NEW k \in Calls, ReadChunk(k) PROVE Shape'
  <2> DEFINE c == call[k]
             i == Len(c.seen) + 1
             x == Append(c.seen, data[c.fd][i])
             r == [c EXCEPT !.seen = x]
  <2>1. Quiet /\ ~At(k, "idle") /\ SharedOK /\ c.pc = "read"
    BY <1>19, <1>q DEF ReadChunk, Quiet, At
  <2>2. c \in CallRecord /\ CallShape(k) /\ c.fd \in Inodes /\ c.seen \in Contents
    BY <2>1, Running DEF CallShape, At, CallRecord
  <2>3. data[c.fd][i] \in Versions \cup {Hole}
    <3>1. data[c.fd] \in Seq(Versions \cup {Hole}) /\ i \in 1 .. Len(data[c.fd])
      BY <1>19, <2>2 DEF ReadChunk, Shape, TypeOK, Contents
    <3> QED
      BY <3>1
  <2>4. x \in Contents
    BY <2>2, <2>3 DEF Contents
  <2>5. call' = [call EXCEPT ![k] = r]
    BY <1>19 DEF ReadChunk, Shape, TypeOK
  <2> HIDE DEF x
  <2>6. r \in CallRecord /\ r.pc = c.pc /\ r.fd = c.fd
    BY <2>2, <2>4 DEF CallRecord
  <2> HIDE DEF r
  <2>7. call'[k] = r
    BY <2>5 DEF Shape, TypeOK
  <2>8. CallShape(k)'
    BY <2>1, <2>2, <2>6, <2>7 DEF CallShape, At, Storing, SharedOK
  <2> QED
    BY <2>1, <2>5, <2>6, <2>8, ShapeOfOne
<1>20. ASSUME NEW k \in Calls, ReadEnd(k) PROVE Shape'
  <2>1. Quiet /\ ~At(k, "idle") /\ SharedOK
    BY <1>20, <1>q DEF ReadEnd, Quiet, At
  <2> QED
    BY <1>20, <2>1, ShapeReturn DEF ReadEnd, Statuses
<1>21. ASSUME NEW k \in Calls, StatFile(k) PROVE Shape'
  <2>1. Quiet /\ ~At(k, "idle") /\ SharedOK
    BY <1>21, <1>q DEF StatFile, Quiet, At
  <2> QED
    BY <1>21, <2>1, ShapeReturn DEF StatFile, Statuses
<1>22. ASSUME NEW k \in Calls, RemoveFile(k) PROVE Shape'
  <2>1. ~At(k, "idle")
    BY <1>22 DEF RemoveFile, At
  <2>2. SharedOK
    BY <1>22, <2>1, Running DEF RemoveFile, SharedOK, Shape, TypeOK
  <2> QED
    BY <1>22, <2>1, <2>2, ShapeReturn DEF RemoveFile, Statuses
<1>23. CASE Crash
  <2>1. \A k \in Calls : \/ call'[k] = call[k]
                         \/ (Busy(k) /\ call'[k] = [call[k] EXCEPT !.pc = "dead"])
    BY <1>23 DEF Crash
  <2>2. \A k \in Calls : call[k] \in CallRecord /\ CallShape(k)
    BY DEF Shape, TypeOK
  <2>3. ASSUME NEW k \in Calls PROVE call'[k] \in CallRecord /\ CallShape(k)'
    <3>1. CASE call'[k] = call[k]
      BY <1>23, <2>2, <3>1 DEF Crash, CallShape, At, Storing
    <3>2. CASE Busy(k) /\ call'[k] = [call[k] EXCEPT !.pc = "dead"]
      <4>1. call'[k] \in CallRecord /\ call'[k].pc = "dead" /\ ~At(k, "idle")
        BY <2>2, <3>2 DEF CallRecord, Pcs, Busy, At
      <4> QED
        BY <1>23, <2>2, <4>1 DEF Crash, CallShape, At, Storing
    <3> QED
      BY <2>1, <3>1, <3>2
  <2>4. call' \in [Calls -> CallRecord]
    BY <1>23, <2>3 DEF Crash
  <2>5. crashes' \in 0 .. MaxCrashes
    BY <1>23, ServerAssumption DEF Crash, Shape, TypeOK
  <2>6. UNCHANGED <<dir, data, req>> /\ lock_file_map' = [f \in Files |-> None]
    BY <1>23 DEF Crash
  <2>7. lock_file_map' \in [Files -> Clients \cup {None, NoClient}]
    BY <2>6
  <2> QED
    BY <2>3, <2>4, <2>5, <2>6, <2>7 DEF Shape, TypeOK
<1>24. CASE UNCHANGED vars
  BY <1>24 DEF vars, Shape, TypeOK, CallShape, At, Storing
<1> QED
  BY <1>1, <1>2, <1>3, <1>4, <1>5, <1>6, <1>7, <1>8, <1>9, <1>10, <1>11, <1>12,
     <1>13, <1>14, <1>15, <1>16, <1>17, <1>18, <1>19, <1>20, <1>21, <1>22, <1>23, <1>24
     DEF Next, Handler, Attended, Unattended

(* Every variable keeps its type: the lock table, the directory, the bytes *)
(* on disk and the record of every handler.                                *)
THEOREM TypeCorrect == Spec => []TypeOK
<1>1. Spec => []Shape
  BY ShapeInit, ShapeNext, PTL DEF Spec
<1>2. Shape => TypeOK
  BY DEF Shape
<1> QED
  BY <1>1, <1>2, PTL

----------------------------------------------------------------------------
(* The lock table and the calls that store.                                *)

(* Call k's record after a step of its own: where it is, and that the rest *)
(* of the record the lock discipline looks at stayed.                      *)
MovedTo(k, pc) ==
    /\ call'[k].pc = pc
    /\ call'[k].acquire = call[k].acquire
    /\ call'[k].cancelled = call[k].cancelled
    /\ \A j \in Calls \ {k} : call'[j] = call[j]

LEMMA Moves ==
  ASSUME Shape, NEW k \in Calls
  PROVE  /\ \A pc \in Pcs : GoTo(k, pc) => MovedTo(k, pc)
         /\ \A s \in Statuses : Return(k, s) => MovedTo(k, "done")
         /\ \A s \in Statuses : Leave(k, s) => MovedTo(k, "release")
  <1>1. call \in [Calls -> CallRecord] /\ call[k] \in CallRecord
    BY DEF Shape, TypeOK
  <1>2. ASSUME NEW pc \in Pcs, GoTo(k, pc) PROVE MovedTo(k, pc)
    BY <1>1, <1>2 DEF GoTo, MovedTo, CallRecord
  <1>3. ASSUME NEW s \in Statuses, NEW pc \in Pcs,
               call' = [call EXCEPT ![k] = [call[k] EXCEPT !.pc = pc, !.status = s]]
        PROVE  MovedTo(k, pc)
    <2> DEFINE r == [call[k] EXCEPT !.pc = pc, !.status = s]
    <2>1. /\ r.pc = pc /\ r.acquire = call[k].acquire
          /\ r.cancelled = call[k].cancelled
      BY <1>1 DEF CallRecord
    <2>2. call' = [call EXCEPT ![k] = r]
      BY <1>3
    <2> HIDE DEF r
    <2> QED
      BY <1>1, <2>1, <2>2 DEF MovedTo
  <1>4. \A s \in Statuses : Return(k, s) => MovedTo(k, "done")
    BY <1>1, <1>3 DEF Return, Pcs
  <1>5. \A s \in Statuses : Leave(k, s) => MovedTo(k, "release")
    BY <1>1, <1>3 DEF Leave, Pcs
  <1> QED
    BY <1>2, <1>4, <1>5

(* Call k has not asked for the lock yet.                                  *)
Early(k) == call[k].pc \in {"idle", "start", "header", "count", "owner",
                            "acquire", "fetch_stats"}

(* A step that neither takes nor frees a lock, and starts or ends no       *)
(* call's work on a file.  A look-up may still leave an orphan entry.      *)
LockQuiet ==
    /\ \A f \in Files : \/ lock_file_map'[f] = lock_file_map[f]
                        \/ (lock_file_map[f] = None /\ lock_file_map'[f] = NoClient)
    /\ \A j \in Calls :
          /\ req[j] # None => req'[j] = req[j]
          /\ Storing(j)' <=> Storing(j)
          /\ At(j, "erase")' => At(j, "erase")
          /\ Early(j)' => Early(j)
          /\ At(j, "done") => At(j, "done")'
          /\ call'[j].acquire = call[j].acquire
          /\ call[j].cancelled => call'[j].cancelled

(* A handler's move from one quiet step to the next is quiet.              *)
LEMMA QuietMove ==
  ASSUME NEW k \in Calls, NEW pc \in Pcs \ {"erase"}, MovedTo(k, pc),
         req' = req, ~At(k, "done"),
         \A f \in Files : \/ lock_file_map'[f] = lock_file_map[f]
                          \/ (lock_file_map[f] = None /\ lock_file_map'[f] = NoClient),
         Storing(k) <=> pc \in {"content", "open", "write", "stats", "release"},
         pc \in {"start", "header", "count", "owner", "acquire", "fetch_stats", "idle"}
             => Early(k)
  PROVE  LockQuiet
  <1>1. ASSUME NEW j \in Calls
        PROVE  /\ Storing(j)' <=> Storing(j)
               /\ At(j, "erase")' => At(j, "erase")
               /\ Early(j)' => Early(j)
               /\ At(j, "done") => At(j, "done")'
               /\ call'[j].acquire = call[j].acquire
               /\ call[j].cancelled => call'[j].cancelled
    <2>1. CASE j = k
      BY <2>1 DEF MovedTo, Storing, At, Early
    <2>2. CASE j # k
      BY <2>2 DEF MovedTo, Storing, At, Early
    <2> QED
      BY <2>1, <2>2
  <1>2. \A j \in Calls : req'[j] = req[j]
    OBVIOUS
  <1> QED
    BY <1>1, <1>2 DEF LockQuiet

(* A running handler's step makes no other call busy.                      *)
LEMMA StillBusy ==
  ASSUME NEW k \in Calls, NEW pc \in Pcs, MovedTo(k, pc), Busy(k)
  PROVE  \A j \in Calls : Busy(j)' => Busy(j)
  BY DEF MovedTo, Busy

LEMMA UnlockedMoves ==
  ASSUME Shape, NEW k \in Calls, ~At(k, "idle"), Unlocked(k)
  PROVE  \E pc \in {"acquire", "read_open", "stat", "remove"} : MovedTo(k, pc)
  BY Moves, Running DEF Unlocked, AllOps, Pcs

(* The steps that take no lock and free none.                              *)
QuietHandler(k) ==
    \/ Begin(k)        \/ ReadHeader(k)   \/ LostHeader(k)
    \/ CheckCount(k)   \/ CheckOwner(k)
    \/ CheckContent(k) \/ OpenForWrite(k) \/ OpenFails(k)
    \/ WriteChunk(k)   \/ EndOfStream(k)  \/ StatAfterWrite(k)
    \/ FetchStats(k)   \/ OpenForRead(k)  \/ ReadChunk(k)  \/ ReadEnd(k)
    \/ StatFile(k)     \/ RemoveFile(k)

LEMMA QuietSteps ==
  ASSUME Shape, NEW k \in Calls, QuietHandler(k)
  PROVE  LockQuiet /\ \A j \in Calls : Busy(j)' => Busy(j)
  <1>1. CASE Begin(k)
    <2>1. \E pc \in {"done", "header", "fetch_stats", "count"} : MovedTo(k, pc)
      BY <1>1, Moves DEF Begin, Pcs, Statuses
    <2> QED
      BY <1>1, <2>1, QuietMove, StillBusy DEF Begin, At, Busy, Early, Storing, Pcs
  <1>2. CASE ReadHeader(k)
    BY <1>2, Moves, QuietMove, StillBusy DEF ReadHeader, At, Busy, Early, Storing, Pcs
  <1>3. CASE LostHeader(k)
    BY <1>3, Moves, QuietMove, StillBusy DEF LostHeader, At, Busy, Early, Storing, Pcs, Statuses
  <1>4. CASE CheckCount(k)
    <2>1. \E pc \in {"owner", "acquire", "read_open", "stat", "remove"} : MovedTo(k, pc)
      <3>1. CASE Unlocked(k)
        BY <1>4, <3>1, UnlockedMoves DEF CheckCount, At
      <3>2. CASE GoTo(k, "owner")
        BY <3>2, Moves DEF Pcs
      <3> QED
        BY <1>4, <3>1, <3>2 DEF CheckCount
    <2> QED
      BY <1>4, <2>1, QuietMove, StillBusy DEF CheckCount, At, Busy, Early, Storing, Pcs
  <1>5. CASE CheckOwner(k)
    <2>1. \E pc \in {"done", "acquire", "read_open", "stat", "remove"} : MovedTo(k, pc)
      <3>1. CASE Unlocked(k)
        BY <1>5, <3>1, UnlockedMoves DEF CheckOwner, At
      <3>2. CASE Return(k, "RESOURCE_EXHAUSTED")
        BY <3>2, Moves DEF Statuses
      <3> QED
        BY <1>5, <3>1, <3>2 DEF CheckOwner
    <2>2. At(k, "owner") /\ req' = req
      BY <1>5 DEF CheckOwner
    <2>3. \A f \in Files : \/ lock_file_map'[f] = lock_file_map[f]
                           \/ (lock_file_map[f] = None /\ lock_file_map'[f] = NoClient)
      BY <1>5 DEF CheckOwner, Shape, TypeOK
    <2> QED
      BY <2>1, <2>2, <2>3, QuietMove, StillBusy DEF At, Busy, Early, Storing, Pcs
  <1>6. CASE CheckContent(k)
    <2>1. \E pc \in {"open", "release"} : MovedTo(k, pc)
      BY <1>6, Moves DEF CheckContent, Pcs, Statuses
    <2> QED
      BY <1>6, <2>1, QuietMove, StillBusy DEF CheckContent, At, Busy, Early, Storing, Pcs
  <1>7. CASE OpenForWrite(k)
    <2>1. MovedTo(k, "write")
      BY <1>7 DEF OpenForWrite, MovedTo, Shape, TypeOK, CallRecord
    <2> QED
      BY <1>7, <2>1, QuietMove, StillBusy DEF OpenForWrite, At, Busy, Early, Storing, Pcs
  <1>8. CASE OpenFails(k)
    BY <1>8, Moves, QuietMove, StillBusy DEF OpenFails, At, Busy, Early, Storing, Pcs, Statuses
  <1>9. CASE WriteChunk(k)
    <2>1. MovedTo(k, "write")
      <3> DEFINE i == call[k].got + 1
      <3> USE DEF MovedTo, Shape, TypeOK, CallRecord
      <3>1. call[k].pc = "write"
        BY <1>9 DEF WriteChunk, At
      <3>2. CASE call' = [call EXCEPT ![k].got = i]
        BY <3>1, <3>2
      <3>3. CASE call' = [call EXCEPT ![k] = [@ EXCEPT !.got = i, !.flushed = i]]
        BY <3>1, <3>3
      <3>4. CASE call' = [call EXCEPT ![k] = [@ EXCEPT !.got = i, !.bad = TRUE]]
        BY <3>1, <3>4
      <3> QED
        BY <1>9, <3>2, <3>3, <3>4 DEF WriteChunk
    <2> QED
      BY <1>9, <2>1, QuietMove, StillBusy DEF WriteChunk, At, Busy, Early, Storing, Pcs
  <1>10. CASE EndOfStream(k)
    <2>1. \E pc \in {"stats", "release"} : MovedTo(k, pc)
      BY <1>10, Moves DEF EndOfStream, Pcs, Statuses
    <2> QED
      BY <1>10, <2>1, QuietMove, StillBusy DEF EndOfStream, At, Busy, Early, Storing, Pcs
  <1>11. CASE StatAfterWrite(k)
    BY <1>11, Moves, QuietMove, StillBusy
       DEF StatAfterWrite, At, Busy, Early, Storing, Pcs, Statuses
  <1>12. CASE FetchStats(k)
    <2>1. \E pc \in {"count", "done"} : MovedTo(k, pc)
      BY <1>12, Moves DEF FetchStats, Pcs, Statuses
    <2> QED
      BY <1>12, <2>1, QuietMove, StillBusy DEF FetchStats, At, Busy, Early, Storing, Pcs
  <1>13. CASE OpenForRead(k)
    <2>1. \E pc \in {"read", "done"} : MovedTo(k, pc)
      <3>1. CASE Return(k, "NOT_FOUND")
        BY <3>1, Moves DEF Statuses
      <3>2. CASE call' = [call EXCEPT ![k] = [@ EXCEPT !.pc = "read",
                                                      !.fd = dir[req[k].file]]]
        BY <3>2 DEF MovedTo, Shape, TypeOK, CallRecord
      <3> QED
        BY <1>13, <3>1, <3>2 DEF OpenForRead
    <2> QED
      BY <1>13, <2>1, QuietMove, StillBusy DEF OpenForRead, At, Busy, Early, Storing, Pcs
  <1>14. CASE ReadChunk(k)
    <2>1. MovedTo(k, "read")
      BY <1>14 DEF ReadChunk, At, MovedTo, Shape, TypeOK, CallRecord
    <2> QED
      BY <1>14, <2>1, QuietMove, StillBusy DEF ReadChunk, At, Busy, Early, Storing, Pcs
  <1>15. CASE ReadEnd(k)
    BY <1>15, Moves, QuietMove, StillBusy DEF ReadEnd, At, Busy, Early, Storing, Pcs, Statuses
  <1>16. CASE StatFile(k)
    BY <1>16, Moves, QuietMove, StillBusy DEF StatFile, At, Busy, Early, Storing, Pcs, Statuses
  <1>17. CASE RemoveFile(k)
    BY <1>17, Moves, QuietMove, StillBusy DEF RemoveFile, At, Busy, Early, Storing, Pcs, Statuses
  <1> QED
    BY <1>1, <1>2, <1>3, <1>4, <1>5, <1>6, <1>7, <1>8, <1>9, <1>10,
       <1>11, <1>12, <1>13, <1>14, <1>15, <1>16, <1>17
       DEF QuietHandler

(* The inductive invariant of the lock table: the two properties, and what *)
(* they rest on: of two running calls of one client, one was given up; and *)
(* a handler that is about to erase an entry has lost the race for it.     *)
OneCallPerClient ==
    \A i, j \in Calls :
        i # j /\ Busy(i) /\ Busy(j) /\ req[i].client = req[j].client
        => call[i].cancelled \/ call[j].cancelled

AcquireOrder ==
    \A k \in Calls : /\ At(k, "erase") => call[k].acquire = "lost"
                     /\ Early(k) => call[k].acquire = "none"

LockInv ==
    Shape /\ OneCallPerClient /\ AcquireOrder /\ LockAccounted /\ LockProtectsStore

LEMMA LockInit == Init => LockInv
<1> SUFFICES ASSUME Init PROVE LockInv
  OBVIOUS
<1>1. Shape
  BY ShapeInit
<1>2. \A k \in Calls : At(k, "idle") /\ ~Busy(k) /\ ~Storing(k) /\ ~At(k, "erase")
                   /\ call[k].acquire = "none"
  BY DEF Init, NewCall, At, Busy, Storing
<1>3. \A f \in Files : lock_file_map[f] = None
  BY DEF Init
<1> QED
  BY <1>1, <1>2, <1>3, ServerAssumption
     DEF LockInv, OneCallPerClient, AcquireOrder, LockAccounted, LockProtectsStore

(* A file that a step leaves undisturbed was undisturbed.                  *)
LEMMA DisturbedStays ==
  ASSUME NEW f \in Files, Undisturbed(f)',
         \A j \in Calls : /\ req[j] # None => req'[j] = req[j]
                          /\ call[j].acquire = "lost" => call'[j].acquire = "lost"
                          /\ call[j].cancelled => call'[j].cancelled
  PROVE  Undisturbed(f)
  BY DEF Undisturbed, On

(* Storing calls have a client and a file.                                 *)
LEMMA StoringRuns ==
  ASSUME Shape, NEW k \in Calls, Storing(k)
  PROVE  /\ req[k] # None /\ req[k].file \in Files /\ req[k].client \in Clients
         /\ ~At(k, "idle") /\ Busy(k)
  <1>1. ~At(k, "idle") /\ Busy(k)
    BY DEF Storing, At, Busy
  <1> QED
    BY <1>1, Running DEF CallShape

(* A quiet step that makes no call busy against the rule keeps the whole.  *)
LEMMA LockQuietKeeps ==
  ASSUME LockInv, Shape', LockQuiet, OneCallPerClient'
  PROVE  LockInv'
  <1> USE DEF LockInv
  <1>1. AcquireOrder'
    BY DEF AcquireOrder, LockQuiet
  <1>2. LockAccounted'
    <2> SUFFICES ASSUME NEW f \in Files, lock_file_map'[f] \in Clients
                 PROVE  \E k \in Calls :
                            /\ On(k, f)'
                            /\ req'[k].client = lock_file_map'[f]
                            /\ call'[k].acquire = "won"
                            /\ Storing(k)' \/ (req'[k].op = "lock_file" /\ At(k, "done")')
      BY DEF LockAccounted
    <2>1. lock_file_map'[f] = lock_file_map[f]
      BY ServerAssumption DEF LockQuiet
    <2>2. PICK k \in Calls :
             /\ On(k, f)
             /\ req[k].client = lock_file_map[f]
             /\ call[k].acquire = "won"
             /\ Storing(k) \/ (req[k].op = "lock_file" /\ At(k, "done"))
      BY <2>1 DEF LockAccounted
    <2> QED
      BY <2>1, <2>2 DEF LockQuiet, On
  <1>3. LockProtectsStore'
    <2> SUFFICES ASSUME NEW f \in Files, Undisturbed(f)',
                        NEW k \in Calls, On(k, f)', Storing(k)'
                 PROVE  lock_file_map'[f] = req'[k].client
      BY DEF LockProtectsStore
    <2>1. Undisturbed(f)
      BY DisturbedStays DEF LockQuiet
    <2>2. Storing(k) /\ req'[k] = req[k] /\ req[k].client \in Clients
      BY StoringRuns DEF LockQuiet
    <2>3. lock_file_map[f] = req[k].client
      BY <2>1, <2>2, StoringRuns DEF LockProtectsStore, On
    <2> QED
      BY <2>2, <2>3, ServerAssumption DEF LockQuiet
  <1> QED
    BY <1>1, <1>2, <1>3

(* No step but an arrival makes a call busy, so the rule that a client     *)
(* waits for its call to return, or gives it up, is kept.                  *)
LEMMA OneCallKept ==
  ASSUME Shape, OneCallPerClient,
         \A j \in Calls : /\ req[j] # None => req'[j] = req[j]
                          /\ call[j].cancelled => call'[j].cancelled
                          /\ Busy(j)' => Busy(j)
  PROVE  OneCallPerClient'
  <1>1. \A j \in Calls : Busy(j)' => Busy(j) /\ req'[j] = req[j]
    BY DEF Shape, CallShape, Busy, At
  <1> QED
    BY <1>1 DEF OneCallPerClient

LEMMA LockNext == LockInv /\ [Next]_vars => LockInv'
<1> SUFFICES ASSUME LockInv, [Next]_vars PROVE LockInv'
  OBVIOUS
<1>s. Shape /\ Shape'
  BY ShapeNext DEF LockInv
<1>1. ASSUME NEW k \in Calls, Arrive(k) PROVE LockInv'
  <2> PICK r \in Request :
         /\ \A j \in Calls : Busy(j) /\ req[j].client = r.client => call[j].cancelled
         /\ req' = [req EXCEPT ![k] = r]
    BY <1>1 DEF Arrive
  <2>1. MovedTo(k, "start") /\ req'[k] = r
    BY <1>1, <1>s, Moves DEF Arrive, Pcs, Shape, TypeOK
  <2>2. \A j \in Calls \ {k} : req'[j] = req[j]
    BY <1>s DEF Shape, TypeOK
  <2>3. req[k] = None /\ At(k, "idle")
    BY <1>1, <1>s DEF Arrive, Shape, CallShape
  <2>4. LockQuiet
    <3>1. ASSUME NEW j \in Calls
          PROVE  /\ req[j] # None => req'[j] = req[j]
                 /\ Storing(j)' <=> Storing(j)
                 /\ At(j, "erase")' => At(j, "erase")
                 /\ Early(j)' => Early(j)
                 /\ At(j, "done") => At(j, "done")'
                 /\ call'[j].acquire = call[j].acquire
                 /\ call[j].cancelled => call'[j].cancelled
      <4>1. CASE j = k
        BY <2>1, <2>3, <4>1 DEF MovedTo, Storing, At, Early
      <4>2. CASE j # k
        BY <2>1, <2>2, <4>2 DEF MovedTo, Storing, At, Early
      <4> QED
        BY <4>1, <4>2
    <3>2. \A f \in Files : lock_file_map'[f] = lock_file_map[f]
      BY <1>1 DEF Arrive
    <3> QED
      BY <3>1, <3>2 DEF LockQuiet
  <2>5. OneCallPerClient'
    <3>1. \A j \in Calls \ {k} : /\ Busy(j)' <=> Busy(j)
                                 /\ req'[j] = req[j]
                                 /\ call'[j].cancelled = call[j].cancelled
      BY <2>1, <2>2 DEF MovedTo, Busy
    <3> QED
      BY <2>1, <3>1 DEF OneCallPerClient, LockInv
  <2> QED
    BY <1>s, <2>4, <2>5, LockQuietKeeps
<1>2. ASSUME NEW k \in Calls, Cancel(k) PROVE LockInv'
  <2>1. /\ req' = req /\ lock_file_map' = lock_file_map
        /\ \A j \in Calls : /\ call'[j].pc = call[j].pc
                            /\ call'[j].acquire = call[j].acquire
                            /\ call[j].cancelled => call'[j].cancelled
    BY <1>2, <1>s DEF Cancel, Shape, TypeOK, CallRecord
  <2>2. LockQuiet
    BY <2>1 DEF LockQuiet, Storing, At, Early
  <2>3. OneCallPerClient'
    BY <1>s, <2>1, OneCallKept DEF LockInv, Busy
  <2> QED
    BY <1>s, <2>2, <2>3, LockQuietKeeps
<1>3. ASSUME NEW k \in Calls, QuietHandler(k) PROVE LockInv'
  <2>1. LockQuiet /\ \A j \in Calls : Busy(j)' => Busy(j)
    BY <1>3, <1>s, QuietSteps
  <2>2. OneCallPerClient'
    BY <1>s, <2>1, OneCallKept DEF LockInv, LockQuiet
  <2> QED
    BY <1>s, <2>1, <2>2, LockQuietKeeps
<1>4. ASSUME NEW k \in Calls, Acquire(k) PROVE LockInv'
  <2> DEFINE f == req[k].file
             c == req[k].client
  <2>1. /\ call[k].pc = "acquire" /\ f \in Files /\ c \in Clients
        /\ req[k] # None /\ call[k] \in CallRecord
        /\ req[k].op \in {"store_file", "lock_file"} /\ req' = req
    <3>1. call[k].pc = "acquire" /\ ~At(k, "idle") /\ req' = req
      BY <1>4 DEF Acquire, At
    <3> QED
      BY <1>s, <3>1, Running DEF CallShape, At
  <2>2. /\ call'[k].cancelled = call[k].cancelled
        /\ \A j \in Calls \ {k} : call'[j] = call[j]
        /\ \/ /\ call'[k].acquire = "won"
              /\ \/ (req[k].op = "store_file" /\ call'[k].pc = "content")
                 \/ (req[k].op = "lock_file" /\ call'[k].pc = "done")
              /\ Free(f, c) /\ lock_file_map' = [lock_file_map EXCEPT ![f] = c]
           \/ /\ call'[k].acquire = "lost" /\ call'[k].pc = "erase"
              /\ lock_file_map' = lock_file_map
    <3> USE <1>s, <2>1 DEF Shape, TypeOK
    <3>1. CASE Free(f, c)
      <4>1. call' = Granted(k) /\ lock_file_map' = [lock_file_map EXCEPT ![f] = c]
        BY <1>4, <3>1 DEF Acquire
      <4>2. CASE req[k].op = "store_file"
        BY <3>1, <4>1, <4>2 DEF Granted, CallRecord
      <4>3. CASE req[k].op = "lock_file"
        BY <3>1, <4>1, <4>3 DEF Granted, CallRecord
      <4> QED
        BY <2>1, <4>2, <4>3
    <3>2. CASE ~Free(f, c)
      <4>1. /\ lock_file_map' = lock_file_map
            /\ call' = [call EXCEPT ![k] = [@ EXCEPT !.acquire = "lost", !.pc = "erase"]]
        BY <1>4, <3>2 DEF Acquire
      <4> QED
        BY <4>1 DEF CallRecord
    <3> QED
      BY <3>1, <3>2
  <2> HIDE DEF f, c
  <2>3. OneCallPerClient'
    <3>1. \A j \in Calls : Busy(j)' => Busy(j)
      BY <2>1, <2>2 DEF Busy
    <3> QED
      BY <1>s, <2>1, <2>2, <3>1, OneCallKept DEF LockInv
  <2>4. AcquireOrder'
    BY <2>2 DEF LockInv, AcquireOrder, At, Early
  <2>5. LockAccounted'
    <3> SUFFICES ASSUME NEW g \in Files, lock_file_map'[g] \in Clients
                 PROVE  \E j \in Calls :
                            /\ On(j, g)'
                            /\ req'[j].client = lock_file_map'[g]
                            /\ call'[j].acquire = "won"
                            /\ Storing(j)' \/ (req'[j].op = "lock_file" /\ At(j, "done")')
      BY DEF LockAccounted
    <3>1. CASE lock_file_map'[g] # lock_file_map[g]
      <4>1. g = f /\ lock_file_map'[g] = c /\ call'[k].acquire = "won"
        BY <1>s, <2>1, <2>2, <3>1 DEF Shape, TypeOK
      <4>2. Storing(k)' \/ (req'[k].op = "lock_file" /\ At(k, "done")')
        BY <2>1, <2>2, <4>1 DEF Storing, At
      <4> QED
        BY <2>1, <4>1, <4>2 DEF On, f, c
    <3>2. CASE lock_file_map'[g] = lock_file_map[g]
      <4>1. PICK j \in Calls :
               /\ On(j, g)
               /\ req[j].client = lock_file_map[g]
               /\ call[j].acquire = "won"
               /\ Storing(j) \/ (req[j].op = "lock_file" /\ At(j, "done"))
        BY <3>2 DEF LockInv, LockAccounted
      <4>2. j # k
        BY <2>1, <4>1 DEF Storing, At
      <4> QED
        BY <2>1, <2>2, <3>2, <4>1, <4>2 DEF On, Storing, At
    <3> QED
      BY <3>1, <3>2
  <2>6. LockProtectsStore'
    <3> SUFFICES ASSUME NEW g \in Files, Undisturbed(g)',
                        NEW j \in Calls, On(j, g)', Storing(j)'
                 PROVE  lock_file_map'[g] = req'[j].client
      BY DEF LockProtectsStore
    <3>1. On(k, f)' /\ On(j, g)
      BY <2>1 DEF On, f
    <3>2. CASE j = k
      <4>1. g = f /\ call'[k].acquire = "won"
        BY <2>1, <2>2, <3>1, <3>2 DEF On, f, Storing
      <4> QED
        BY <1>s, <2>1, <2>2, <3>2, <4>1 DEF c, Shape, TypeOK
    <3>3. CASE j # k
      <4>1. Storing(j) /\ req[j].client \in Clients
        BY <1>s, <2>2, <3>3, StoringRuns DEF Storing
      <4>2. Undisturbed(g)
        <5>1. \A i \in Calls : On(i, g) /\ i # k =>
                 call[i].acquire # "lost" /\ ~call[i].cancelled
          BY <2>1, <2>2 DEF Undisturbed, On
        <5>2. On(k, g) => call[k].acquire # "lost" /\ ~call[k].cancelled
          BY <2>1, <2>2 DEF Undisturbed, On, LockInv, AcquireOrder, Early
        <5> QED
          BY <5>1, <5>2 DEF Undisturbed
      <4>3. lock_file_map[g] = req[j].client
        BY <3>1, <4>1, <4>2 DEF LockInv, LockProtectsStore
      <4>4. lock_file_map'[g] = lock_file_map[g]
        BY <1>s, <2>1, <2>2, <4>1, <4>3, ServerAssumption DEF Free, Shape, TypeOK
      <4> QED
        BY <2>1, <4>3, <4>4
    <3> QED
      BY <3>2, <3>3
  <2> QED
    BY <1>s, <2>3, <2>4, <2>5, <2>6 DEF LockInv
<1>5. ASSUME NEW k \in Calls, EraseWinner(k) \/ Release(k) PROVE LockInv'
  <2> DEFINE f == req[k].file
  <2>1. /\ At(k, "erase") \/ Storing(k)
        /\ f \in Files /\ req[k] # None /\ req' = req
        /\ lock_file_map' = [lock_file_map EXCEPT ![f] = None]
    <3>1. At(k, "erase") \/ At(k, "release")
      BY <1>5 DEF EraseWinner, Release
    <3>2. f \in Files /\ req[k] # None
      BY <1>s, <3>1, Running DEF CallShape, At
    <3> QED
      BY <1>5, <3>1, <3>2 DEF EraseWinner, Release, At, Storing
  <2>2. \E pc \in {"content", "done"} :
           MovedTo(k, pc) /\ (At(k, "release") => pc = "done")
    BY <1>5, <1>s, Moves DEF EraseWinner, Release, Pcs, Statuses, At
  <2>3. /\ \A j \in Calls \ {k} : call'[j] = call[j]
        /\ call'[k].acquire = call[k].acquire
        /\ call'[k].cancelled = call[k].cancelled
        /\ call'[k].pc \in {"content", "done"}
        /\ Storing(k)' => At(k, "erase")
    BY <1>5, <2>2 DEF MovedTo, EraseWinner, Release, At, Storing
  <2> HIDE DEF f
  <2>4. OneCallPerClient'
    <3>1. \A j \in Calls : Busy(j)' => Busy(j)
      BY <2>1, <2>3 DEF Busy, At, Storing
    <3> QED
      BY <1>s, <2>1, <2>3, <3>1, OneCallKept DEF LockInv
  <2>5. AcquireOrder'
    BY <2>3 DEF LockInv, AcquireOrder, At, Early
  <2>6. LockAccounted'
    <3> SUFFICES ASSUME NEW g \in Files, lock_file_map'[g] \in Clients
                 PROVE  \E j \in Calls :
                            /\ On(j, g)'
                            /\ req'[j].client = lock_file_map'[g]
                            /\ call'[j].acquire = "won"
                            /\ Storing(j)' \/ (req'[j].op = "lock_file" /\ At(j, "done")')
      BY DEF LockAccounted
    <3>1. g # f /\ lock_file_map'[g] = lock_file_map[g]
      BY <1>s, <2>1, ServerAssumption DEF Shape, TypeOK
    <3>2. PICK j \in Calls :
             /\ On(j, g)
             /\ req[j].client = lock_file_map[g]
             /\ call[j].acquire = "won"
             /\ Storing(j) \/ (req[j].op = "lock_file" /\ At(j, "done"))
      BY <3>1 DEF LockInv, LockAccounted
    <3>3. j # k
      BY <3>1, <3>2 DEF On, f
    <3> QED
      BY <2>1, <2>3, <3>1, <3>2, <3>3 DEF On, Storing, At
  <2>7. LockProtectsStore'
    <3> SUFFICES ASSUME NEW g \in Files, Undisturbed(g)',
                        NEW j \in Calls, On(j, g)', Storing(j)'
                 PROVE  lock_file_map'[g] = req'[j].client
      BY DEF LockProtectsStore
    <3>1. Undisturbed(g)
      <4>1. \A i \in Calls : /\ call'[i].acquire = call[i].acquire
                             /\ call'[i].cancelled = call[i].cancelled
        BY <2>3
      <4> QED
        BY <2>1, <4>1, DisturbedStays
    <3>2. ~At(k, "erase") \/ g # f
      BY <2>1, <3>1 DEF Undisturbed, On, f, LockInv, AcquireOrder
    <3>3. CASE g = f
      <4>1. j # k /\ Storing(k) /\ Storing(j) /\ On(k, g) /\ On(j, g)
        BY <2>1, <2>3, <3>2, <3>3 DEF Storing, On, f
      <4>2. req[j].client = req[k].client
        BY <3>1, <4>1 DEF LockInv, LockProtectsStore
      <4>3. call[j].cancelled \/ call[k].cancelled
        BY <1>s, <4>1, <4>2, StoringRuns DEF LockInv, OneCallPerClient
      <4> QED
        BY <3>1, <4>1, <4>3 DEF Undisturbed
    <3>4. CASE g # f
      <4>1. On(j, g) /\ j # k
        BY <2>1, <3>4 DEF On, f
      <4>2. Storing(j)
        BY <2>3, <4>1 DEF Storing
      <4>3. lock_file_map[g] = req[j].client
        BY <3>1, <4>1, <4>2 DEF LockInv, LockProtectsStore
      <4> QED
        BY <1>s, <2>1, <3>4, <4>3 DEF Shape, TypeOK
    <3> QED
      BY <3>3, <3>4
  <2> QED
    BY <1>s, <2>4, <2>5, <2>6, <2>7 DEF LockInv
<1>6. CASE Crash
  <2>1. \A k \in Calls : \/ (~Busy(k) /\ call'[k] = call[k])
                         \/ (Busy(k) /\ call'[k] = [call[k] EXCEPT !.pc = "dead"])
    BY <1>6 DEF Crash
  <2>2. \A k \in Calls : /\ call'[k].acquire = call[k].acquire
                         /\ call'[k].pc \in {"idle", "done", "dead"}
                         /\ call'[k].pc = "idle" => call[k].pc = "idle"
    <3> SUFFICES ASSUME NEW k \in Calls
                 PROVE  /\ call'[k].acquire = call[k].acquire
                        /\ call'[k].pc \in {"idle", "done", "dead"}
                        /\ call'[k].pc = "idle" => call[k].pc = "idle"
      OBVIOUS
    <3>1. call[k] \in CallRecord
      BY <1>s DEF Shape, TypeOK
    <3>2. CASE ~Busy(k) /\ call'[k] = call[k]
      BY <3>2 DEF Busy
    <3>3. CASE Busy(k) /\ call'[k] = [call[k] EXCEPT !.pc = "dead"]
      BY <3>1, <3>3 DEF CallRecord
    <3> QED
      BY <2>1, <3>2, <3>3
  <2>3. \A f \in Files : lock_file_map'[f] = None
    BY <1>6 DEF Crash
  <2>4. \A k \in Calls : ~Busy(k)' /\ ~Storing(k)'
    BY <2>2 DEF Busy, Storing
  <2>5. OneCallPerClient' /\ LockProtectsStore'
    BY <2>4 DEF OneCallPerClient, LockProtectsStore
  <2>6. AcquireOrder'
    <3> SUFFICES ASSUME NEW k \in Calls
                 PROVE  /\ At(k, "erase")' => call'[k].acquire = "lost"
                        /\ Early(k)' => call'[k].acquire = "none"
      BY DEF AcquireOrder
    <3>1. Early(k) => call[k].acquire = "none"
      BY DEF LockInv, AcquireOrder
    <3> QED
      BY <2>2, <3>1 DEF At, Early
  <2>7. LockAccounted'
    BY <2>3, ServerAssumption DEF LockAccounted
  <2> QED
    BY <1>s, <2>5, <2>6, <2>7 DEF LockInv
<1>7. CASE UNCHANGED vars
  <2>1. LockQuiet
    BY <1>7 DEF vars, LockQuiet, Storing, At, Early
  <2>2. OneCallPerClient'
    BY <1>7 DEF vars, LockInv, OneCallPerClient, Busy
  <2> QED
    BY <1>s, <2>1, <2>2, LockQuietKeeps
<1> QED
  BY <1>1, <1>2, <1>3, <1>4, <1>5, <1>6, <1>7
     DEF Next, Handler, Attended, Unattended, QuietHandler

(* The lock table's invariant holds always.                                *)
LEMMA LockInvariant == Spec => []LockInv
  BY LockInit, LockNext, PTL DEF Spec

(* No lock is left behind: whoever holds one is storing, or was granted it *)
(* by lock_file.                                                           *)
THEOREM LocksAccounted == Spec => []LockAccounted
<1>1. LockInv => LockAccounted
  BY DEF LockInv
<1> QED
  BY <1>1, LockInvariant, PTL

(* Whoever stores an undisturbed file holds its lock all the while.        *)
THEOREM StoreProtected == Spec => []LockProtectsStore
<1>1. LockInv => LockProtectsStore
  BY DEF LockInv
<1> QED
  BY <1>1, LockInvariant, PTL

(* The lock table implements the lock service: no step of any handler      *)
(* hands a held lock to another client directly, and only a free lock      *)
(* turns into an orphan entry.                                             *)
THEOREM LocksImplemented == Spec => LocksSpec
<1>1. Init => Locks!Init
  BY DEF Init, Locks!Init
<1>2. Shape /\ [Next]_vars => [Locks!Next]_lock_file_map
  <2> SUFFICES ASSUME Shape, Next, lock_file_map' # lock_file_map
               PROVE  Locks!Next
    BY DEF vars
  <2>1. ASSUME NEW k \in Calls, CheckOwner(k) PROVE Locks!Next
    <3>1. req[k].file \in Files
      BY <2>1, Running DEF CheckOwner, At
    <3>2. Locks!Orphan(req[k].file)
      BY <2>1 DEF CheckOwner, Locks!Orphan
    <3> QED
      BY <3>1, <3>2 DEF Locks!Next
  <2>2. ASSUME NEW k \in Calls, Acquire(k) PROVE Locks!Next
    <3>1. req[k].file \in Files /\ req[k].client \in Clients
      BY <2>2, Running DEF Acquire, At
    <3>2. Locks!Grant(req[k].file, req[k].client)
      BY <2>2 DEF Acquire, Free, Locks!Grant
    <3> QED
      BY <3>1, <3>2 DEF Locks!Next
  <2>3. ASSUME NEW k \in Calls, EraseWinner(k) \/ Release(k) PROVE Locks!Next
    <3>1. req[k].file \in Files
      BY <2>3, Running DEF EraseWinner, Release, At
    <3>2. Locks!Drop(req[k].file)
      BY <2>3 DEF EraseWinner, Release, Locks!Drop
    <3> QED
      BY <3>1, <3>2 DEF Locks!Next
  <2>4. CASE Crash
    BY <2>4 DEF Crash, Locks!Next, Locks!Restart
  <2>5. ASSUME NEW k \in Calls,
               Arrive(k) \/ Cancel(k) \/ (QuietHandler(k) /\ ~CheckOwner(k))
        PROVE  FALSE
    BY <2>5
       DEF Arrive, Cancel, QuietHandler, Begin, ReadHeader, LostHeader, CheckCount,
           CheckContent, OpenForWrite, OpenFails, WriteChunk, EndOfStream,
           StatAfterWrite, FetchStats, OpenForRead, ReadChunk, ReadEnd, StatFile,
           RemoveFile
  <2> QED
    BY <2>1, <2>2, <2>3, <2>4, <2>5
       DEF Next, Handler, Attended, Unattended, QuietHandler
<1>3. Spec => []Shape
  BY ShapeInit, ShapeNext, PTL DEF Spec
<1> QED
  BY <1>1, <1>2, <1>3, PTL DEF Spec, LocksSpec, Locks!Spec
=============================================================================
