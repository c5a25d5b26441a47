-------------------------- MODULE DFSCallDataProofs --------------------------
(***************************************************************************)
(* Theorems about DFSCallData, for any number of workers and clients, any  *)
(* pool of addresses and any allocator.                                    *)
(***************************************************************************)
EXTENDS DFSCallData, FiniteSetTheorems, TLAPS

(* The tags of the events in q, and that no tag has two of them.           *)
Posted(q) == {q[n].tag : n \in 1 .. Len(q)}
Once(q) == \A m, n \in 1 .. Len(q) : q[m].tag = q[n].tag => m = n

(* The instances no worker has in hand.                                    *)
Parked == queued_tags \cup registered \cup sending \cup Posted(cq)

(* Where a worker is says what it has in hand.                             *)
ThreadShape ==
    \A t \in Threads :
        /\ thread[t].fresh # None <=> At(t, "enqueue")
        /\ At(t, "begin") \/ At(t, "next") => thread[t].inst = None
        /\ At(t, "proceed") \/ At(t, "callback") \/ At(t, "reply") => thread[t].inst # None

(* OneOwner without counting: the places are disjoint, no place has an     *)
(* instance twice, and none has a free one.                                *)
ParkedOnce ==
    /\ Once(cq)
    /\ queued_tags \cap registered = {}
    /\ (queued_tags \cup registered) \cap sending = {}
    /\ (queued_tags \cup registered \cup sending) \cap Posted(cq) = {}
    /\ Parked \cap Free = {}

HeldOnce ==
    \A t \in Threads :
        /\ thread[t].inst # None =>
              /\ thread[t].inst \notin Parked \cup Free
              /\ \A u \in Threads : thread[u].fresh # thread[t].inst
              /\ \A u \in Threads : thread[u].inst = thread[t].inst => u = t
        /\ thread[t].fresh # None =>
              /\ thread[t].fresh \notin Parked \cup Free
              /\ \A u \in Threads : thread[u].fresh = thread[t].fresh => u = t

OwnerInv == TypeOK /\ ThreadShape /\ ParkedOnce /\ HeldOnce

----------------------------------------------------------------------------
(* Events.                                                                 *)

(* Taking the first event off the queue takes its tag, which had no other. *)
LEMMA TakeEvent ==
    ASSUME NEW q \in Seq(Event), q # <<>>, Once(q)
    PROVE  /\ Head(q) \in Event
           /\ Tail(q) \in Seq(Event)
           /\ Once(Tail(q))
           /\ Head(q).tag \notin Posted(Tail(q))
           /\ Posted(q) = Posted(Tail(q)) \cup {Head(q).tag}
<1>1. /\ Len(q) \in Nat \ {0} /\ Len(Tail(q)) = Len(q) - 1
      /\ Head(q) = q[1] /\ Tail(q) \in Seq(Event)
      /\ \A n \in 1 .. Len(q) - 1 : Tail(q)[n] = q[n + 1]
    OBVIOUS
<1>2. Head(q) \in Event
    BY <1>1
<1>3. \A n \in 1 .. Len(q) - 1 : n + 1 \in 1 .. Len(q) /\ n + 1 # 1
    BY <1>1
<1>4. Once(Tail(q))
    BY <1>1, <1>3 DEF Once
<1>5. Head(q).tag \notin Posted(Tail(q))
    BY <1>1, <1>3 DEF Once, Posted
<1>6. Posted(q) \subseteq Posted(Tail(q)) \cup {Head(q).tag}
    <2>1. SUFFICES ASSUME NEW n \in 1 .. Len(q), n # 1
                   PROVE  q[n].tag \in Posted(Tail(q))
        BY <1>1 DEF Posted
    <2>2. n - 1 \in 1 .. Len(q) - 1 /\ Tail(q)[n - 1] = q[n]
        BY <1>1, <2>1
    <2> QED
        BY <1>1, <2>2 DEF Posted
<1>7. Posted(Tail(q)) \cup {Head(q).tag} \subseteq Posted(q)
    BY <1>1, <1>3 DEF Posted
<1> QED
    BY <1>1, <1>2, <1>4, <1>5, <1>6, <1>7

LEMMA PostEvent ==
    ASSUME NEW q \in Seq(Event), NEW e \in Event
    PROVE  /\ Append(q, e) \in Seq(Event)
           /\ Posted(Append(q, e)) = Posted(q) \cup {e.tag}
           /\ Once(q) /\ e.tag \notin Posted(q) => Once(Append(q, e))
<1>1. /\ Len(q) \in Nat /\ Len(Append(q, e)) = Len(q) + 1
      /\ Append(q, e) \in Seq(Event)
      /\ Append(q, e)[Len(q) + 1] = e
      /\ \A n \in 1 .. Len(q) : Append(q, e)[n] = q[n]
    OBVIOUS
<1>2. 1 .. Len(q) + 1 = (1 .. Len(q)) \cup {Len(q) + 1}
    BY <1>1
<1>3. Posted(Append(q, e)) = Posted(q) \cup {e.tag}
    BY <1>1, <1>2 DEF Posted
<1>4. ASSUME Once(q), e.tag \notin Posted(q) PROVE Once(Append(q, e))
    BY <1>1, <1>2, <1>4 DEF Once, Posted
<1> QED
    BY <1>1, <1>3, <1>4

----------------------------------------------------------------------------
(* Every step keeps the instances apart.                                   *)

LEMMA OwnerInvInit == Init => OwnerInv
<1> SUFFICES ASSUME Init PROVE OwnerInv
    OBVIOUS
<1>1. Posted(<<>>) = {} /\ Once(<<>>) /\ <<>> \in Seq(Event)
    BY DEF Posted, Once
<1>2. TypeOK
    <2>1. breaks = 0 /\ 0 \in 0 .. MaxBreaks
        BY CallDataAssumption DEF Init
    <2>2. thread \in [Threads -> ThreadState]
        BY DEF Init, ThreadState
    <2> QED
        BY <1>1, <2>1, <2>2 DEF Init, TypeOK
<1>3. ThreadShape
    BY DEF Init, ThreadShape, At
<1>4. ParkedOnce
    BY <1>1 DEF Init, ParkedOnce, Parked
<1>5. HeldOnce
    BY DEF Init, HeldOnce
<1> QED
    BY <1>2, <1>3, <1>4, <1>5 DEF OwnerInv

(* The allocator gives a free address.                                     *)
LEMMA MallocFree ==
    ASSUME Free # {}
    PROVE  Malloc(Free) \in Instances /\ status[Malloc(Free)] = "free" /\ Malloc(Free) # None
<1>1. Free \in SUBSET Instances
    BY DEF Free
<1>2. Malloc(Free) \in Free
    BY <1>1, CallDataAssumption
<1> QED
    BY <1>2, CallDataAssumption DEF Free

(* Begin and ProceedProcess construct an instance.                         *)
LEMMA OwnerInvConstruct ==
    ASSUME OwnerInv, NEW t \in Threads, Construct(t), At(t, "begin") \/ At(t, "proceed"),
           UNCHANGED <<bound, queued_tags, queue_mutex, registered, sending, cq, client, breaks>>
    PROVE  OwnerInv'
<1> DEFINE i == Malloc(Free)
<1>1. i \in Instances /\ status[i] = "free" /\ i # None
    BY MallocFree DEF Construct
<1>2. /\ status' = [status EXCEPT ![i] = "PROCESS"]
      /\ thread' = [thread EXCEPT ![t] = [@ EXCEPT !.pc = "enqueue", !.fresh = i]]
    BY DEF Construct
<1> HIDE DEF i
<1>3. TypeOK'
    BY <1>1, <1>2 DEF OwnerInv, TypeOK, ThreadState
<1>4. ThreadShape'
    BY <1>1, <1>2 DEF OwnerInv, TypeOK, ThreadState, ThreadShape, At
<1>5. Parked' = Parked /\ Free' = Free \ {i} /\ i \in Free /\ i \notin Parked
    BY <1>1, <1>2 DEF OwnerInv, TypeOK, ParkedOnce, Parked, Free
<1>6. ParkedOnce'
    BY <1>2, <1>5 DEF OwnerInv, ParkedOnce
<1>7. HeldOnce'
    BY <1>1, <1>2, <1>5 DEF OwnerInv, TypeOK, ThreadState, HeldOnce, ThreadShape, At
<1> QED
    BY <1>3, <1>4, <1>6, <1>7 DEF OwnerInv

LEMMA OwnerInvEnqueue ==
    ASSUME OwnerInv, NEW t \in Threads, Enqueue(t)
    PROVE  OwnerInv'
<1> DEFINE i == thread[t].fresh
<1>1. /\ i \in Instances /\ i \notin Parked \cup Free
      /\ \A u \in Threads : thread[u].inst # None => thread[u].inst # i
      /\ \A u \in Threads : thread[u].fresh = i => u = t
    BY DEF Enqueue, OwnerInv, TypeOK, ThreadState, ThreadShape, HeldOnce
<1>2. TypeOK'
    <2>1. thread[t] \in ThreadState
        BY DEF OwnerInv, TypeOK
    <2>2. [thread[t] EXCEPT !.pc = IF thread[t].inst = None THEN "next" ELSE "callback",
                             !.fresh = None] \in ThreadState
        BY <2>1 DEF ThreadState
    <2>3. thread' \in [Threads -> ThreadState]
        BY <2>2 DEF Enqueue, OwnerInv, TypeOK
    <2> QED
        BY <1>1, <2>3 DEF Enqueue, OwnerInv, TypeOK
<1>3. ThreadShape'
    BY <1>1 DEF Enqueue, OwnerInv, TypeOK, ThreadState, ThreadShape, At
<1>4. Parked' = Parked \cup {i} /\ Free' = Free
    BY DEF Enqueue, Parked, Free
<1>5. ParkedOnce'
    BY <1>1, <1>4 DEF Enqueue, OwnerInv, ParkedOnce, Parked
<1>6. HeldOnce'
    BY <1>1, <1>4 DEF Enqueue, OwnerInv, TypeOK, ThreadState, HeldOnce
<1> QED
    BY <1>2, <1>3, <1>5, <1>6 DEF OwnerInv

LEMMA OwnerInvGetEvent ==
    ASSUME OwnerInv, NEW t \in Threads, GetEvent(t)
    PROVE  OwnerInv'
<1> DEFINE i == Head(cq).tag
<1>1. /\ cq \in Seq(Event) /\ cq # <<>> /\ Once(cq)
    BY DEF GetEvent, OwnerInv, TypeOK, ParkedOnce
<1>2. /\ Head(cq) \in Event /\ Tail(cq) \in Seq(Event) /\ Once(Tail(cq))
      /\ i \notin Posted(Tail(cq)) /\ Posted(cq) = Posted(Tail(cq)) \cup {i}
    BY <1>1, TakeEvent
<1>3. i \in Instances /\ i # None
    BY <1>2, CallDataAssumption DEF Event
<1>4. Parked' \subseteq Parked /\ i \in Parked \ Parked' /\ Free' = Free
    BY <1>2 DEF GetEvent, OwnerInv, ParkedOnce, Parked, Free
<1>5. ParkedOnce'
    BY <1>2, <1>4 DEF GetEvent, OwnerInv, ParkedOnce
<1>6. CASE Head(cq).ok
    <2>1. /\ cq' = Tail(cq)
          /\ thread' = [thread EXCEPT ![t] = [@ EXCEPT !.pc = "proceed", !.inst = i]]
          /\ UNCHANGED <<status, bound, queued_tags, queue_mutex, registered, sending, client, breaks>>
        BY <1>6 DEF GetEvent
    <2>2. TypeOK'
        BY <1>2, <1>3, <2>1 DEF OwnerInv, TypeOK, ThreadState
    <2>3. ThreadShape'
        BY <1>3, <2>1 DEF GetEvent, OwnerInv, TypeOK, ThreadState, ThreadShape, At
    <2>4. HeldOnce'
        BY <1>3, <1>4, <2>1 DEF OwnerInv, TypeOK, ThreadState, HeldOnce, ParkedOnce
    <2> QED
        BY <1>5, <2>2, <2>3, <2>4 DEF OwnerInv
<1>7. CASE ~Head(cq).ok
    BY <1>2, <1>4, <1>5, <1>7 DEF GetEvent, OwnerInv, TypeOK, ThreadShape, HeldOnce, At
<1> QED
    BY <1>6, <1>7

LEMMA OwnerInvProceedCallback ==
    ASSUME OwnerInv, NEW t \in Threads, ProceedCallback(t)
    PROVE  OwnerInv'
<1> DEFINE i == thread[t].inst
<1>1. i \in Instances /\ i \notin Free
    BY DEF ProceedCallback, OwnerInv, TypeOK, ThreadState, ThreadShape, HeldOnce
<1>2. TypeOK'
    <2>1. thread[t] \in ThreadState
        BY DEF OwnerInv, TypeOK
    <2>2. [thread[t] EXCEPT !.pc = "reply"] \in ThreadState
        BY <2>1 DEF ThreadState
    <2>3. thread' \in [Threads -> ThreadState]
        BY <2>2 DEF ProceedCallback, OwnerInv, TypeOK
    <2> QED
        BY <1>1, <2>3 DEF ProceedCallback, OwnerInv, TypeOK
<1>3. ThreadShape'
    BY DEF ProceedCallback, OwnerInv, TypeOK, ThreadState, ThreadShape, At
<1>4. Parked' = Parked /\ Free' = Free
    BY <1>1 DEF ProceedCallback, OwnerInv, TypeOK, Parked, Free
<1>5. ParkedOnce'
    BY <1>4 DEF ProceedCallback, OwnerInv, ParkedOnce
<1>6. HeldOnce'
    BY <1>4 DEF ProceedCallback, OwnerInv, TypeOK, ThreadState, HeldOnce
<1> QED
    BY <1>2, <1>3, <1>5, <1>6 DEF OwnerInv

LEMMA OwnerInvProceedReply ==
    ASSUME OwnerInv, NEW t \in Threads, ProceedReply(t)
    PROVE  OwnerInv'
<1> DEFINE i == thread[t].inst
<1>1. /\ i \in Instances /\ i \notin Parked \cup Free
      /\ \A u \in Threads : thread[u].fresh # i
      /\ \A u \in Threads : thread[u].inst = i => u = t
    BY DEF ProceedReply, OwnerInv, TypeOK, ThreadState, ThreadShape, HeldOnce
<1>2. TypeOK'
    BY <1>1 DEF ProceedReply, OwnerInv, TypeOK, ThreadState
<1>3. ThreadShape'
    BY <1>1 DEF ProceedReply, OwnerInv, TypeOK, ThreadState, ThreadShape, At
<1>4. Parked' = Parked \cup {i} /\ Free' = Free
    BY DEF ProceedReply, Parked, Free
<1>5. ParkedOnce'
    BY <1>1, <1>4 DEF ProceedReply, OwnerInv, ParkedOnce, Parked
<1>6. HeldOnce'
    BY <1>1, <1>4 DEF ProceedReply, OwnerInv, TypeOK, ThreadState, HeldOnce
<1> QED
    BY <1>2, <1>3, <1>5, <1>6 DEF OwnerInv

LEMMA OwnerInvProceedFinish ==
    ASSUME OwnerInv, NEW t \in Threads, ProceedFinish(t)
    PROVE  OwnerInv'
<1> DEFINE i == thread[t].inst
<1>1. /\ i \in Instances /\ i \notin Parked
      /\ \A u \in Threads : thread[u].fresh # i
      /\ \A u \in Threads : thread[u].inst = i => u = t
    BY DEF ProceedFinish, OwnerInv, TypeOK, ThreadState, ThreadShape, HeldOnce
<1>2. TypeOK'
    <2>1. thread[t] \in ThreadState
        BY DEF OwnerInv, TypeOK
    <2>2. [thread[t] EXCEPT !.pc = "next", !.inst = None] \in ThreadState
        BY <2>1 DEF ThreadState
    <2>3. thread' \in [Threads -> ThreadState]
        BY <2>2 DEF ProceedFinish, OwnerInv, TypeOK
    <2> QED
        BY <1>1, <2>3 DEF ProceedFinish, OwnerInv, TypeOK
<1>3. ThreadShape'
    BY <1>1 DEF ProceedFinish, OwnerInv, TypeOK, ThreadState, ThreadShape, At
<1>4. Parked' = Parked /\ Free' = Free \cup {i}
    BY <1>1 DEF ProceedFinish, OwnerInv, TypeOK, Parked, Free
<1>5. ParkedOnce'
    BY <1>1, <1>4 DEF ProceedFinish, OwnerInv, ParkedOnce
<1>6. HeldOnce'
    BY <1>1, <1>4 DEF ProceedFinish, OwnerInv, TypeOK, ThreadState, HeldOnce
<1> QED
    BY <1>2, <1>3, <1>5, <1>6 DEF OwnerInv

(* The queue thread moves what is queued to gRPC.                          *)
LEMMA OwnerInvProcessQueue ==
    ASSUME OwnerInv, ProcessQueue
    PROVE  OwnerInv'
<1>1. Parked' = Parked /\ Free' = Free
    BY DEF ProcessQueue, Parked, Free
<1> QED
    BY <1>1 DEF ProcessQueue, OwnerInv, TypeOK, ThreadShape, At, ParkedOnce, HeldOnce

LEMMA OwnerInvAccept ==
    ASSUME OwnerInv, NEW i \in Instances, NEW c \in Clients, Accept(i, c)
    PROVE  OwnerInv'
<1> DEFINE e == [tag |-> i, ok |-> TRUE]
<1>1. e \in Event /\ e.tag = i
    BY DEF Event
<1>2. /\ cq' = Append(cq, e) /\ i \in registered /\ registered' = registered \ {i}
      /\ UNCHANGED <<status, queued_tags, queue_mutex, sending, thread, breaks>>
    BY DEF Accept
<1>3. i \notin Posted(cq) /\ Once(cq) /\ cq \in Seq(Event)
    BY <1>2 DEF OwnerInv, TypeOK, ParkedOnce
<1>4. cq' \in Seq(Event) /\ Posted(cq') = Posted(cq) \cup {i} /\ Once(cq')
    BY <1>1, <1>2, <1>3, PostEvent
<1>5. TypeOK'
    BY <1>2, <1>4 DEF Accept, OwnerInv, TypeOK
<1>6. Parked' = Parked /\ Free' = Free
    BY <1>2, <1>4 DEF Parked, Free
<1>7. ParkedOnce'
    BY <1>2, <1>3, <1>4, <1>6 DEF OwnerInv, ParkedOnce
<1> QED
    BY <1>2, <1>5, <1>6, <1>7 DEF OwnerInv, ThreadShape, At, HeldOnce

LEMMA OwnerInvSent ==
    ASSUME OwnerInv, NEW i \in Instances, Sent(i)
    PROVE  OwnerInv'
<1>1. PICK ok \in BOOLEAN : cq' = Append(cq, [tag |-> i, ok |-> ok])
    BY DEF Sent
<1> DEFINE e == [tag |-> i, ok |-> ok]
<1>2. e \in Event /\ e.tag = i
    BY DEF Event
<1>3. /\ cq' = Append(cq, e) /\ i \in sending /\ sending' = sending \ {i}
      /\ UNCHANGED <<status, bound, queued_tags, queue_mutex, registered, thread, breaks>>
    BY <1>1 DEF Sent
<1>4. i \notin Posted(cq) /\ Once(cq) /\ cq \in Seq(Event)
    BY <1>3 DEF OwnerInv, TypeOK, ParkedOnce
<1>5. cq' \in Seq(Event) /\ Posted(cq') = Posted(cq) \cup {i} /\ Once(cq')
    BY <1>2, <1>3, <1>4, PostEvent
<1>6. client' \in [Clients -> {"idle", "waiting", "served"}]
    BY DEF Sent, OwnerInv, TypeOK
<1>7. TypeOK'
    BY <1>3, <1>5, <1>6 DEF OwnerInv, TypeOK
<1>8. Parked' = Parked /\ Free' = Free
    BY <1>3, <1>5 DEF Parked, Free
<1>9. ParkedOnce'
    BY <1>3, <1>4, <1>5, <1>8 DEF OwnerInv, ParkedOnce
<1> QED
    BY <1>3, <1>7, <1>8, <1>9 DEF OwnerInv, ThreadShape, At, HeldOnce

(* A call that is cut off changes what its instance is bound to, from a    *)
(* client to a number that nothing was bound to before.                    *)
LEMMA CutOff ==
    ASSUME OwnerInv, NEW c \in Clients, Disconnect(c)
    PROVE  /\ breaks' \in 0 .. MaxBreaks
           /\ bound' \in [Instances -> Clients \cup (1 .. breaks') \cup {None}]
           /\ \A i \in Instances :
                 /\ bound'[i] = None <=> bound[i] = None
                 /\ bound'[i] \in Clients => bound'[i] = bound[i]
                 /\ client[c] = "served" => bound'[i] # c
                 /\ \A j \in Instances : bound'[i] = bound'[j] <=> bound[i] = bound[j]
<1>1. /\ breaks \in 0 .. MaxBreaks /\ MaxBreaks \in Nat
      /\ bound \in [Instances -> Clients \cup (1 .. breaks) \cup {None}]
      /\ Clients \cap Nat = {} /\ None \notin Clients \cup Nat
    BY CallDataAssumption DEF OwnerInv, TypeOK
<1>2. CASE client[c] # "served"
    BY <1>1, <1>2 DEF Disconnect
<1>3. CASE client[c] = "served"
    <2>1. /\ breaks < MaxBreaks /\ breaks' = breaks + 1
          /\ bound' = [i \in Instances |-> IF bound[i] = c THEN breaks + 1 ELSE bound[i]]
        BY <1>3 DEF Disconnect
    <2>2. /\ breaks + 1 \in Nat /\ breaks + 1 \in 1 .. breaks + 1
          /\ breaks + 1 \notin 1 .. breaks /\ 1 .. breaks \subseteq 1 .. breaks + 1
          /\ breaks' \in 0 .. MaxBreaks
        BY <1>1, <2>1
    <2>3. breaks + 1 \notin Clients /\ breaks + 1 # None
        BY <1>1, <2>2
    <2>4. \A i \in Instances :
             /\ bound[i] \in Clients \cup (1 .. breaks) \cup {None} /\ bound[i] # breaks + 1
             /\ bound'[i] = IF bound[i] = c THEN breaks + 1 ELSE bound[i]
        BY <1>1, <2>1, <2>2, <2>3
    <2>5. bound' \in [Instances -> Clients \cup (1 .. breaks') \cup {None}]
        BY <2>1, <2>2, <2>4
    <2>6. \A i \in Instances :
             /\ bound'[i] = None <=> bound[i] = None
             /\ bound'[i] \in Clients => bound'[i] = bound[i]
             /\ bound'[i] # c
        BY <1>1, <2>3, <2>4
    <2>7. \A i, j \in Instances : bound'[i] = bound'[j] <=> bound[i] = bound[j]
        BY <2>4
    <2> QED
        BY <2>2, <2>5, <2>6, <2>7
<1> QED
    BY <1>2, <1>3

LEMMA OwnerInvDisconnect ==
    ASSUME OwnerInv, NEW c \in Clients, Disconnect(c)
    PROVE  OwnerInv'
<1>1. /\ UNCHANGED <<status, queued_tags, queue_mutex, registered, sending, cq, thread>>
      /\ client' \in [Clients -> {"idle", "waiting", "served"}]
    BY DEF OwnerInv, TypeOK, Disconnect
<1>2. Parked' = Parked /\ Free' = Free
    BY <1>1 DEF Parked, Free
<1>3. TypeOK'
    BY <1>1, CutOff DEF OwnerInv, TypeOK
<1> QED
    BY <1>1, <1>2, <1>3 DEF OwnerInv, ThreadShape, At, ParkedOnce, HeldOnce

(* What leaves the instances and the events alone.                         *)
LEMMA OwnerInvRest ==
    ASSUME OwnerInv,
           \/ LockQueue
           \/ \E c \in Clients : Call(c)
           \/ UNCHANGED vars
    PROVE  OwnerInv'
<1>1. /\ UNCHANGED <<status, bound, queued_tags, registered, sending, cq, thread, breaks>>
      /\ queue_mutex' \in BOOLEAN
      /\ client' \in [Clients -> {"idle", "waiting", "served"}]
    BY DEF OwnerInv, TypeOK, LockQueue, Call, vars
<1>2. Parked' = Parked /\ Free' = Free
    BY <1>1 DEF Parked, Free
<1> QED
    BY <1>1, <1>2 DEF OwnerInv, TypeOK, ThreadShape, At, ParkedOnce, HeldOnce

LEMMA OwnerInductive == OwnerInv /\ [Next]_vars => OwnerInv'
<1> SUFFICES ASSUME OwnerInv, [Next]_vars PROVE OwnerInv'
    OBVIOUS
<1>1. ASSUME NEW t \in Threads, Work(t) PROVE OwnerInv'
    BY <1>1, OwnerInvConstruct, OwnerInvGetEvent, OwnerInvProceedCallback,
       OwnerInvProceedReply, OwnerInvProceedFinish
    DEF Work, Begin, ProceedProcess
<1>2. ASSUME NEW t \in Threads, Enqueue(t) PROVE OwnerInv'
    BY <1>2, OwnerInvEnqueue
<1>3. CASE ProcessQueue
    BY <1>3, OwnerInvProcessQueue
<1>4. CASE Deliver
    BY <1>4, OwnerInvAccept, OwnerInvSent DEF Deliver
<1> QED
    BY <1>1, <1>2, <1>3, <1>4, OwnerInvRest, OwnerInvDisconnect DEF Next

LEMMA OwnerInvariant == Spec => []OwnerInv
BY OwnerInvInit, OwnerInductive, PTL DEF Spec

(* The variables keep their types, whatever calls come and go.             *)
THEOREM TypeCorrect == Spec => []TypeOK
<1>1. OwnerInv => TypeOK
    BY DEF OwnerInv
<1> QED
    BY <1>1, OwnerInvariant, PTL

(* A set whose elements are all the same has one or none.                  *)
LEMMA OneOrNone ==
    ASSUME NEW S, \A x, y \in S : x = y
    PROVE  /\ Cardinality(S) \in {0, 1}
           /\ S = {} => Cardinality(S) = 0
<1>1. CASE S = {}
    BY <1>1, FS_EmptySet
<1>2. CASE S # {}
    <2>1. PICK x \in S : S = {x}
        BY <1>2
    <2> QED
        BY <1>2, <2>1, FS_Singleton
<1> QED
    BY <1>1, <1>2

(* The instances are apart, counted.                                       *)
LEMMA ApartIsOneOwner == OwnerInv => OneOwner
<1> SUFFICES ASSUME OwnerInv, NEW i \in Instances
             PROVE  Places(i) <= 1 /\ (i \in Free => Places(i) = 0)
    BY DEF OneOwner
<1> DEFINE C == {n \in 1 .. Len(cq) : cq[n].tag = i}
           T == {t \in Threads : thread[t].inst = i}
           F == {t \in Threads : thread[t].fresh = i}
<1>1. i # None
    BY CallDataAssumption
<1>2. /\ \A m, n \in C : m = n
      /\ C # {} <=> i \in Posted(cq)
    BY DEF OwnerInv, ParkedOnce, Once, Posted
<1>3. /\ \A t, u \in T : t = u
      /\ \A t, u \in F : t = u
      /\ T # {} => F = {}
      /\ T # {} \/ F # {} => i \notin Parked \cup Free
    BY <1>1 DEF OwnerInv, HeldOnce
<1> DEFINE c == Cardinality(C)
           t == Cardinality(T)
           f == Cardinality(F)
<1>4. c \in {0, 1} /\ (C = {} => c = 0)
    BY <1>2, OneOrNone
<1>5. t \in {0, 1} /\ (T = {} => t = 0)
    BY <1>3, OneOrNone
<1>6. f \in {0, 1} /\ (F = {} => f = 0)
    BY <1>3, OneOrNone
<1>7. Places(i) = (IF i \in queued_tags THEN 1 ELSE 0) + (IF i \in registered THEN 1 ELSE 0)
                  + (IF i \in sending THEN 1 ELSE 0) + c + t + f
    BY DEF Places
<1> HIDE DEF C, T, F, c, t, f
<1>8. /\ i \in queued_tags => i \notin registered \cup sending /\ C = {}
      /\ i \in registered => i \notin sending /\ C = {}
      /\ i \in sending => C = {}
      /\ i \in Free => i \notin queued_tags \cup registered \cup sending /\ C = {}
    BY <1>2 DEF OwnerInv, ParkedOnce, Parked
<1>9. T # {} \/ F # {} => i \notin queued_tags \cup registered \cup sending \cup Free /\ C = {}
    BY <1>2, <1>3 DEF Parked
<1> QED
    BY <1>3, <1>4, <1>5, <1>6, <1>7, <1>8, <1>9

(* No two threads run Proceed on an instance at once, no queue has it twice, *)
(* and nothing refers to one that was deleted: each is in one place at     *)
(* most, and a free one in none.                                           *)
THEOREM InstancesHaveOneOwner == Spec => []OneOwner
BY OwnerInvariant, ApartIsOneOwner, PTL

----------------------------------------------------------------------------
(* Calls and the instances that serve them.                                *)

Replying(i) == \E t \in Threads : At(t, "reply") /\ thread[t].inst = i

(* Instance i has yet to answer its call, or has answered it.              *)
Handles(i) == status[i] = "PROCESS" \/ i \in sending \/ Replying(i)
Answered(i) == status[i] = "FINISH" /\ i \notin sending /\ ~Replying(i)

(* Instances that wait for a call have none; states go with places.        *)
Unbound ==
    /\ \A i \in queued_tags \cup registered : status[i] = "PROCESS" /\ bound[i] = None
    /\ \A i \in Free : bound[i] = None
    /\ \A t \in Threads : thread[t].fresh # None =>
          status[thread[t].fresh] = "PROCESS" /\ bound[thread[t].fresh] = None

Stages ==
    /\ \A i \in sending : status[i] = "FINISH"
    /\ \A t \in Threads :
          /\ At(t, "enqueue") /\ thread[t].inst # None => status[thread[t].inst] = "PROCESS"
          /\ At(t, "callback") => status[thread[t].inst] = "PROCESS"
          /\ At(t, "reply") => status[thread[t].inst] = "FINISH"

(* A client that is being served has one instance at work for it; one that *)
(* is not, none.                                                           *)
Handlers ==
    \A c \in Clients :
        /\ client[c] \in {"idle", "waiting"} => \A j \in Instances : bound[j] = c => Answered(j)
        /\ client[c] = "served" =>
              \E i \in Instances :
                  /\ bound[i] = c /\ Handles(i)
                  /\ \A j \in Instances \ {i} : bound[j] = c => Answered(j)

CallInv == OwnerInv /\ Unbound /\ Stages /\ Handlers

LEMMA CallInvInit == Init => CallInv
BY OwnerInvInit, CallDataAssumption
   DEF Init, CallInv, Unbound, Stages, Handlers, Free, At

(* A step that moves no call on.                                           *)
LEMMA SameHandlers ==
    ASSUME Handlers, UNCHANGED <<bound, client>>,
           \A j \in Instances : (Handles(j) => Handles(j)') /\ (Answered(j) => Answered(j)')
    PROVE  Handlers'
BY DEF Handlers

LEMMA CallInvConstruct ==
    ASSUME CallInv, NEW t \in Threads, Begin(t) \/ ProceedProcess(t)
    PROVE  (Unbound /\ Stages /\ Handlers)'
<1> DEFINE i == Malloc(Free)
<1>1. /\ At(t, "begin") \/ (At(t, "proceed") /\ status[thread[t].inst] = "PROCESS")
      /\ Free # {}
      /\ status' = [status EXCEPT ![i] = "PROCESS"]
      /\ thread' = [thread EXCEPT ![t] = [@ EXCEPT !.pc = "enqueue", !.fresh = i]]
      /\ UNCHANGED <<bound, queued_tags, queue_mutex, registered, sending, cq, client>>
    BY DEF Begin, ProceedProcess, Construct
<1>2. i \in Instances /\ status[i] = "free" /\ i # None
    BY <1>1, MallocFree
<1> HIDE DEF i
<1>3. i \in Free /\ i \notin Parked /\ Free' = Free \ {i}
    BY <1>1, <1>2 DEF CallInv, OwnerInv, TypeOK, ParkedOnce, Parked, Free
<1>4. \A u \in Threads : thread[u].inst # i /\ thread[u].fresh # i
    BY <1>2, <1>3 DEF CallInv, OwnerInv, HeldOnce
<1>5. Unbound'
    BY <1>1, <1>2, <1>3, <1>4 DEF CallInv, OwnerInv, TypeOK, ThreadState, Unbound, Parked
<1>6. Stages'
    BY <1>1, <1>2, <1>3, <1>4 DEF CallInv, OwnerInv, TypeOK, ThreadState, ThreadShape, Stages, At,
       Parked
<1>7. \A j \in Instances : Replying(j)' <=> Replying(j)
    BY <1>1 DEF CallInv, OwnerInv, TypeOK, ThreadState, Replying, At
<1>8. Handlers'
    BY <1>1, <1>2, <1>7, SameHandlers DEF CallInv, OwnerInv, TypeOK, Handles, Answered
<1> QED
    BY <1>5, <1>6, <1>8

LEMMA CallInvEnqueue ==
    ASSUME CallInv, NEW t \in Threads, Enqueue(t)
    PROVE  (Unbound /\ Stages /\ Handlers)'
<1>1. /\ At(t, "enqueue") /\ thread[t].fresh # None
      /\ queued_tags' = queued_tags \cup {thread[t].fresh}
      /\ UNCHANGED <<status, bound, registered, sending, client>>
    BY DEF Enqueue, CallInv, OwnerInv, ThreadShape
<1>2. /\ thread' = [thread EXCEPT ![t] =
                       [@ EXCEPT !.pc = IF thread[t].inst = None THEN "next" ELSE "callback",
                                 !.fresh = None]]
      /\ thread \in [Threads -> ThreadState]
    BY DEF Enqueue, CallInv, OwnerInv, TypeOK
<1>3. Unbound'
    BY <1>1, <1>2 DEF CallInv, Unbound, ThreadState, Free
<1>4. Stages'
    BY <1>1, <1>2 DEF CallInv, Stages, ThreadState, At
<1>5. \A j \in Instances : Replying(j)' <=> Replying(j)
    BY <1>1, <1>2 DEF Replying, ThreadState, At
<1>6. Handlers'
    BY <1>1, <1>5, SameHandlers DEF CallInv, Handles, Answered
<1> QED
    BY <1>3, <1>4, <1>6

LEMMA CallInvGetEvent ==
    ASSUME CallInv, NEW t \in Threads, GetEvent(t)
    PROVE  (Unbound /\ Stages /\ Handlers)'
<1>1. /\ At(t, "next")
      /\ UNCHANGED <<status, bound, queued_tags, registered, sending, client>>
      /\ thread \in [Threads -> ThreadState]
    BY DEF GetEvent, CallInv, OwnerInv, TypeOK
<1>2. \/ thread' = thread
      \/ thread' = [thread EXCEPT ![t] = [@ EXCEPT !.pc = "proceed", !.inst = Head(cq).tag]]
    BY DEF GetEvent
<1>3. Unbound'
    <2>1. \A u \in Threads : thread'[u].fresh = thread[u].fresh
        <3>1. CASE thread' = thread
            BY <3>1
        <3>2. CASE thread' = [thread EXCEPT ![t] =
                                   [@ EXCEPT !.pc = "proceed", !.inst = Head(cq).tag]]
            <4>1. thread'[t].fresh = thread[t].fresh
                BY <1>1, <3>2 DEF ThreadState
            <4>2. ASSUME NEW u \in Threads \ {t} PROVE thread'[u] = thread[u]
                BY <1>1, <3>2
            <4> QED
                BY <4>1, <4>2
        <3> QED
            BY <1>2, <3>1, <3>2
    <2>2. Free' = Free
        BY <1>1 DEF Free
    <2> QED
        BY <1>1, <2>1, <2>2 DEF CallInv, Unbound
<1>4. Stages'
    BY <1>1, <1>2 DEF CallInv, Stages, ThreadState, At
<1>5. \A j \in Instances : Replying(j)' <=> Replying(j)
    BY <1>1, <1>2 DEF Replying, ThreadState, At
<1>6. Handlers'
    BY <1>1, <1>5, SameHandlers DEF CallInv, Handles, Answered
<1> QED
    BY <1>3, <1>4, <1>6

LEMMA CallInvProceedCallback ==
    ASSUME CallInv, NEW t \in Threads, ProceedCallback(t)
    PROVE  (Unbound /\ Stages /\ Handlers)'
<1> DEFINE i == thread[t].inst
<1>1. /\ At(t, "callback")
      /\ status' = [status EXCEPT ![i] = "FINISH"]
      /\ thread' = [thread EXCEPT ![t] = [@ EXCEPT !.pc = "reply"]]
      /\ UNCHANGED <<bound, queued_tags, registered, sending, client>>
      /\ thread \in [Threads -> ThreadState]
      /\ status \in [Instances -> {"free", "PROCESS", "FINISH"}]
    BY DEF ProceedCallback, CallInv, OwnerInv, TypeOK
<1>2. /\ i \in Instances /\ i # None /\ i \notin Parked \cup Free /\ status[i] = "PROCESS"
      /\ \A u \in Threads : thread[u].fresh # i /\ (thread[u].inst = i => u = t)
    BY <1>1 DEF CallInv, OwnerInv, ThreadState, ThreadShape, HeldOnce, Stages
<1>3. Unbound'
    BY <1>1, <1>2 DEF CallInv, Unbound, ThreadState, Free, Parked
<1>4. Stages'
    BY <1>1, <1>2 DEF CallInv, Stages, ThreadState, At, Parked
<1>5. /\ Replying(i)'
      /\ \A j \in Instances \ {i} : Replying(j)' <=> Replying(j)
    BY <1>1 DEF Replying, ThreadState, At
<1>6. Handlers'
    BY <1>1, <1>2, <1>5, SameHandlers DEF CallInv, Handles, Answered
<1> QED
    BY <1>3, <1>4, <1>6

LEMMA CallInvProceedReply ==
    ASSUME CallInv, NEW t \in Threads, ProceedReply(t)
    PROVE  (Unbound /\ Stages /\ Handlers)'
<1> DEFINE i == thread[t].inst
<1>1. /\ At(t, "reply")
      /\ sending' = sending \cup {i}
      /\ thread' = [thread EXCEPT ![t] = [@ EXCEPT !.pc = "next", !.inst = None]]
      /\ UNCHANGED <<status, bound, queued_tags, registered, client>>
      /\ thread \in [Threads -> ThreadState]
    BY DEF ProceedReply, CallInv, OwnerInv, TypeOK
<1>2. /\ i \in Instances /\ status[i] = "FINISH" /\ Replying(i)
      /\ \A u \in Threads : thread[u].inst = i => u = t
    BY <1>1 DEF CallInv, OwnerInv, ThreadState, ThreadShape, HeldOnce, Stages, Replying
<1>3. Unbound'
    BY <1>1 DEF CallInv, Unbound, ThreadState, Free
<1>4. Stages'
    BY <1>1, <1>2 DEF CallInv, Stages, ThreadState, At
<1>5. \A j \in Instances \ {i} : Replying(j)' <=> Replying(j)
    BY <1>1 DEF Replying, ThreadState, At
<1>6. Handlers'
    BY <1>1, <1>2, <1>5, SameHandlers DEF CallInv, Handles, Answered
<1> QED
    BY <1>3, <1>4, <1>6

(* The instance that is deleted has answered its call.                     *)
LEMMA CallInvProceedFinish ==
    ASSUME CallInv, NEW t \in Threads, ProceedFinish(t)
    PROVE  (Unbound /\ Stages /\ Handlers)'
<1> DEFINE i == thread[t].inst
<1>1. /\ At(t, "proceed") /\ status[i] = "FINISH"
      /\ status' = [status EXCEPT ![i] = "free"]
      /\ bound' = [bound EXCEPT ![i] = None]
      /\ thread' = [thread EXCEPT ![t] = [@ EXCEPT !.pc = "next", !.inst = None]]
      /\ UNCHANGED <<queued_tags, registered, sending, client>>
      /\ thread \in [Threads -> ThreadState]
      /\ status \in [Instances -> {"free", "PROCESS", "FINISH"}]
      /\ bound \in [Instances -> Clients \cup (1 .. breaks) \cup {None}]
    BY DEF ProceedFinish, CallInv, OwnerInv, TypeOK
<1>2. /\ i \in Instances /\ i # None /\ i \notin Parked \cup Free
      /\ \A u \in Threads : thread[u].fresh # i /\ (thread[u].inst = i => u = t)
    BY <1>1 DEF CallInv, OwnerInv, ThreadState, ThreadShape, HeldOnce
<1>3. Unbound'
    BY <1>1, <1>2 DEF CallInv, Unbound, ThreadState, Free, Parked
<1>4. Stages'
    BY <1>1, <1>2 DEF CallInv, Stages, ThreadState, At, Parked
<1>5. /\ ~Handles(i)
      /\ \A j \in Instances \ {i} : Replying(j)' <=> Replying(j)
    BY <1>1, <1>2 DEF Replying, Handles, ThreadState, At, Parked
<1>6. \A j \in Instances \ {i} :
          bound'[j] = bound[j] /\ (Handles(j)' <=> Handles(j)) /\ (Answered(j)' <=> Answered(j))
    BY <1>1, <1>5 DEF Handles, Answered
<1>7. bound'[i] = None /\ None \notin Clients
    BY <1>1, <1>2, CallDataAssumption
<1>8. Handlers'
    BY <1>1, <1>5, <1>6, <1>7 DEF CallInv, Handlers
<1> QED
    BY <1>3, <1>4, <1>8

LEMMA CallInvProcessQueue ==
    ASSUME CallInv, ProcessQueue
    PROVE  (Unbound /\ Stages /\ Handlers)'
<1>1. \A j \in Instances : (Handles(j)' <=> Handles(j)) /\ (Answered(j)' <=> Answered(j))
    BY DEF ProcessQueue, Handles, Answered, Replying, At
<1> QED
    BY <1>1, SameHandlers DEF ProcessQueue, CallInv, Unbound, Stages, Free, At

(* A waiting client has no instance at work for it, and gets one.          *)
LEMMA CallInvAccept ==
    ASSUME CallInv, NEW i \in Instances, NEW c \in Clients, Accept(i, c)
    PROVE  (Unbound /\ Stages /\ Handlers)'
<1>1. /\ i \in registered /\ registered' = registered \ {i}
      /\ client[c] = "waiting" /\ client' = [client EXCEPT ![c] = "served"]
      /\ bound' = [bound EXCEPT ![i] = c]
      /\ UNCHANGED <<status, queued_tags, sending, thread>>
      /\ bound \in [Instances -> Clients \cup (1 .. breaks) \cup {None}]
      /\ client \in [Clients -> {"idle", "waiting", "served"}]
    BY DEF Accept, CallInv, OwnerInv, TypeOK
<1>2. status[i] = "PROCESS" /\ bound[i] = None /\ None \notin Clients
    BY <1>1, CallDataAssumption DEF CallInv, Unbound
<1>3. /\ i \notin queued_tags /\ i \in Parked
      /\ \A t \in Threads : thread[t].fresh # None => thread[t].fresh # i
    BY <1>1 DEF CallInv, OwnerInv, ParkedOnce, HeldOnce, Parked
<1>4. Unbound'
    BY <1>1, <1>2, <1>3 DEF CallInv, Unbound, Free
<1>5. Stages'
    BY <1>1 DEF CallInv, Stages, At
<1>6. \A j \in Instances : (Handles(j)' <=> Handles(j)) /\ (Answered(j)' <=> Answered(j))
    BY <1>1 DEF Handles, Answered, Replying, At
<1>7. Handlers'
    <2>1. ASSUME NEW d \in Clients \ {c}
          PROVE  client'[d] = client[d] /\ \A j \in Instances : bound'[j] = d <=> bound[j] = d
        BY <1>1, <1>2
    <2>2. /\ client'[c] = "served" /\ bound'[i] = c /\ Handles(i)
          /\ \A j \in Instances \ {i} : bound'[j] = c => Answered(j)
        BY <1>1, <1>2 DEF CallInv, Handlers, Handles
    <2> QED
        BY <1>6, <2>1, <2>2 DEF CallInv, Handlers
<1> QED
    BY <1>4, <1>5, <1>7

(* A client that gets its answer was served by nobody else.                *)
LEMMA CallInvSent ==
    ASSUME CallInv, NEW i \in Instances, Sent(i)
    PROVE  (Unbound /\ Stages /\ Handlers)'
<1> DEFINE c == bound[i]
<1>1. /\ i \in sending /\ sending' = sending \ {i}
      /\ client' = [d \in Clients |-> IF d = c THEN "idle" ELSE client[d]]
      /\ UNCHANGED <<status, bound, queued_tags, registered, thread>>
      /\ client \in [Clients -> {"idle", "waiting", "served"}]
    BY DEF Sent, CallInv, OwnerInv, TypeOK
<1>2. /\ status[i] = "FINISH" /\ i \in Parked /\ i # None
      /\ \A t \in Threads : thread[t].inst # i
    BY <1>1, CallDataAssumption DEF CallInv, Stages, OwnerInv, HeldOnce, Parked
<1>3. Unbound'
    BY <1>1 DEF CallInv, Unbound, Free
<1>4. Stages'
    BY <1>1 DEF CallInv, Stages, At
<1>5. /\ Handles(i) /\ ~Answered(i) /\ Answered(i)'
      /\ \A j \in Instances \ {i} :
            (Handles(j)' <=> Handles(j)) /\ (Answered(j)' <=> Answered(j))
    BY <1>1, <1>2 DEF Handles, Answered, Replying, At
<1>6. Handlers'
    <2>1. ASSUME NEW d \in Clients, d # c
          PROVE  client'[d] = client[d] /\ \A j \in Instances : bound[j] = d => j # i
        <3>1. client'[d] = client[d]
            BY <1>1, <2>1
        <3>2. ASSUME NEW j \in Instances, bound[j] = d PROVE j # i
            BY <2>1, <3>2
        <3> QED
            BY <3>1, <3>2
    <2>2. ASSUME c \in Clients
          PROVE  client'[c] = "idle" /\ \A j \in Instances : bound[j] = c => Answered(j)'
        <3>1. client[c] = "served" /\ client'[c] = "idle"
            BY <1>1, <1>5, <2>2 DEF CallInv, Handlers
        <3>2. \A j \in Instances \ {i} : bound[j] = c => Answered(j)
            BY <1>5, <2>2, <3>1 DEF CallInv, Handlers
        <3> QED
            BY <1>5, <3>1, <3>2
    <2> HIDE DEF c
    <2>3. ASSUME NEW d \in Clients, client'[d] \in {"idle", "waiting"},
                 NEW j \in Instances, bound'[j] = d
          PROVE  Answered(j)'
        BY <1>1, <1>5, <2>1, <2>2, <2>3 DEF CallInv, Handlers
    <2>4. ASSUME NEW d \in Clients, client'[d] = "served"
          PROVE  \E k \in Instances :
                     /\ bound'[k] = d /\ Handles(k)'
                     /\ \A j \in Instances \ {k} : bound'[j] = d => Answered(j)'
        BY <1>1, <1>5, <2>1, <2>2, <2>4 DEF CallInv, Handlers
    <2> QED
        BY <2>3, <2>4 DEF Handlers
<1> QED
    BY <1>3, <1>4, <1>6

(* A client calls only when it is idle. One whose call is cut off is owed  *)
(* nothing, and no instance is bound to it.                                *)
LEMMA CallInvClient ==
    ASSUME CallInv, NEW c \in Clients, Call(c) \/ Disconnect(c)
    PROVE  (Unbound /\ Stages /\ Handlers)'
<1>1. /\ UNCHANGED <<status, queued_tags, registered, sending, thread>>
      /\ client \in [Clients -> {"idle", "waiting", "served"}]
    BY DEF Call, Disconnect, CallInv, OwnerInv, TypeOK
<1>2. \A j \in Instances : (Handles(j)' <=> Handles(j)) /\ (Answered(j)' <=> Answered(j))
    BY <1>1 DEF Handles, Answered, Replying, At
<1>3. CASE Call(c)
    <2>1. /\ bound' = bound /\ client[c] = "idle"
          /\ client' = [client EXCEPT ![c] = "waiting"]
        BY <1>3 DEF Call
    <2>2. (Unbound /\ Stages)'
        BY <1>1, <2>1 DEF CallInv, Unbound, Stages, Free, At
    <2>3. Handlers'
        BY <1>1, <1>2, <2>1 DEF CallInv, Handlers
    <2> QED
        BY <2>2, <2>3
<1>4. CASE Disconnect(c)
    <2>1. client[c] \in {"waiting", "served"} /\ client' = [client EXCEPT ![c] = "idle"]
        BY <1>4 DEF Disconnect
    <2>2. ASSUME NEW i \in Instances
          PROVE  /\ bound'[i] = None <=> bound[i] = None
                 /\ bound'[i] \in Clients => bound'[i] = bound[i]
                 /\ client[c] = "served" => bound'[i] # c
        BY <1>4, CutOff DEF CallInv
    <2>3. /\ \A i \in Instances : bound[i] = None => bound'[i] = None
          /\ queued_tags \cup registered \cup Free \subseteq Instances
          /\ \A t \in Threads : thread[t].fresh # None => thread[t].fresh \in Instances
        BY <2>2 DEF CallInv, OwnerInv, TypeOK, ThreadState, Free
    <2>4. (Unbound /\ Stages)'
        BY <1>1, <2>3 DEF CallInv, Unbound, Stages, Free, At
    <2>5. ASSUME NEW d \in Clients \ {c}
          PROVE  client'[d] = client[d] /\ \A j \in Instances : bound'[j] = d => bound[j] = d
        BY <1>1, <2>1, <2>2
    <2>6. ASSUME NEW d \in Clients \ {c}, NEW j \in Instances, bound[j] = d
          PROVE  bound'[j] = d
        BY <1>4, <2>6 DEF Disconnect, CallInv, OwnerInv, TypeOK
    <2>7. client'[c] = "idle" /\ \A j \in Instances : bound'[j] = c => Answered(j)
        <3>1. CASE client[c] = "waiting"
            BY <1>1, <2>1, <2>2, <3>1 DEF CallInv, Handlers
        <3>2. CASE client[c] = "served"
            BY <1>1, <2>1, <2>2, <3>2
        <3> QED
            BY <2>1, <3>1, <3>2
    <2>8. Handlers'
        BY <1>2, <2>5, <2>6, <2>7 DEF CallInv, Handlers
    <2> QED
        BY <2>4, <2>8
<1> QED
    BY <1>3, <1>4

LEMMA CallInductive == CallInv /\ [Next]_vars => CallInv'
<1> SUFFICES ASSUME CallInv, [Next]_vars PROVE (Unbound /\ Stages /\ Handlers)'
    BY OwnerInductive DEF CallInv
<1>1. ASSUME NEW t \in Threads, Work(t) PROVE (Unbound /\ Stages /\ Handlers)'
    BY <1>1, CallInvConstruct, CallInvGetEvent, CallInvProceedCallback,
       CallInvProceedReply, CallInvProceedFinish
    DEF Work
<1>2. ASSUME NEW t \in Threads, Enqueue(t) PROVE (Unbound /\ Stages /\ Handlers)'
    BY <1>2, CallInvEnqueue
<1>3. CASE ProcessQueue
    BY <1>3, CallInvProcessQueue
<1>4. CASE LockQueue \/ UNCHANGED vars
    <2>1. UNCHANGED <<status, bound, queued_tags, registered, sending, thread, client>>
        BY <1>4 DEF LockQueue, vars
    <2>2. \A j \in Instances : (Handles(j)' <=> Handles(j)) /\ (Answered(j)' <=> Answered(j))
        BY <2>1 DEF Handles, Answered, Replying, At
    <2> QED
        BY <2>1, <2>2, SameHandlers DEF CallInv, Unbound, Stages, Free, At
<1>5. ASSUME NEW c \in Clients, Call(c) \/ Disconnect(c) PROVE (Unbound /\ Stages /\ Handlers)'
    BY <1>5, CallInvClient
<1>6. CASE Deliver
    BY <1>6, CallInvAccept, CallInvSent DEF Deliver
<1> QED
    BY <1>1, <1>2, <1>3, <1>4, <1>5, <1>6 DEF Next

(* A call that gRPC has accepted is in the care of exactly one instance    *)
(* that will still answer it, whatever other clients do or leave undone.   *)
THEOREM CallsHaveOneHandler == Spec => []ServedHasOneHandler
<1>1. CallInv => ServedHasOneHandler
    BY DEF CallInv, Handlers, Handles, Answered, Replying, ServedHasOneHandler
<1> QED
    BY <1>1, CallInvInit, CallInductive, PTL DEF Spec

----------------------------------------------------------------------------
(* The capacity to accept calls.                                           *)

(* The event that gives instance i a call, or says that it was answered.   *)
In(q, i) == \E n \in 1 .. Len(q) : q[n].tag = i /\ q[n].ok

(* The instances SlotsConserved counts: i waits for a call, is about to,   *)
(* or has one on which no worker has begun.                                *)
Ready(i) ==
    \/ i \in queued_tags \cup registered
    \/ \E t \in Threads : thread[t].fresh = i
    \/ status[i] = "PROCESS" /\ In(cq, i)
    \/ status[i] = "PROCESS" /\ \E t \in Threads : At(t, "proceed") /\ thread[t].inst = i

ReadySet == {i \in Instances : Ready(i)}
Starting == {t \in Threads : At(t, "begin")}

SlotInv == Cardinality(ReadySet) + Cardinality(Starting) = Cardinality(Threads)

LEMMA InTail ==
    ASSUME NEW q \in Seq(Event), q # <<>>, NEW i
    PROVE  In(q, i) <=> (Head(q).tag = i /\ Head(q).ok) \/ In(Tail(q), i)
<1>1. /\ Len(q) \in Nat \ {0} /\ Len(Tail(q)) = Len(q) - 1 /\ Head(q) = q[1]
      /\ \A n \in 1 .. Len(q) - 1 : Tail(q)[n] = q[n + 1]
    OBVIOUS
<1>2. ASSUME In(Tail(q), i) PROVE In(q, i)
    <2>1. PICK n \in 1 .. Len(q) - 1 : Tail(q)[n].tag = i /\ Tail(q)[n].ok
        BY <1>1, <1>2 DEF In
    <2>2. n + 1 \in 1 .. Len(q) /\ q[n + 1] = Tail(q)[n]
        BY <1>1
    <2> QED
        BY <2>1, <2>2 DEF In
<1>3. ASSUME In(q, i) PROVE (Head(q).tag = i /\ Head(q).ok) \/ In(Tail(q), i)
    <2>1. PICK n \in 1 .. Len(q) : q[n].tag = i /\ q[n].ok
        BY <1>3 DEF In
    <2>2. CASE n = 1
        BY <1>1, <2>1, <2>2
    <2>3. CASE n # 1
        <3>1. n - 1 \in 1 .. Len(q) - 1 /\ Tail(q)[n - 1] = q[n]
            BY <1>1, <2>3
        <3> QED
            BY <1>1, <2>1, <3>1 DEF In
    <2> QED
        BY <2>2, <2>3
<1>4. ASSUME Head(q).tag = i, Head(q).ok PROVE In(q, i)
    BY <1>1, <1>4 DEF In
<1> QED
    BY <1>2, <1>3, <1>4

LEMMA InAppend ==
    ASSUME NEW q \in Seq(Event), NEW e \in Event, NEW i
    PROVE  In(Append(q, e), i) <=> In(q, i) \/ (e.tag = i /\ e.ok)
<1>1. /\ Len(q) \in Nat /\ Len(Append(q, e)) = Len(q) + 1
      /\ Append(q, e)[Len(q) + 1] = e
      /\ \A n \in 1 .. Len(q) : Append(q, e)[n] = q[n]
      /\ 1 .. Len(q) + 1 = (1 .. Len(q)) \cup {Len(q) + 1}
    OBVIOUS
<1> QED
    BY <1>1 DEF In

LEMMA InPosted == ASSUME NEW q, NEW i, In(q, i) PROVE i \in Posted(q)
BY DEF In, Posted

(* A step under which the instances counted stay the same.                 *)
LEMMA SameSlots ==
    ASSUME SlotInv, \A i \in Instances : Ready(i)' <=> Ready(i),
           \A t \in Threads : At(t, "begin")' <=> At(t, "begin")
    PROVE  SlotInv'
<1>1. ReadySet' = ReadySet /\ Starting' = Starting
    BY DEF ReadySet, Starting
<1> QED
    BY <1>1 DEF SlotInv

LEMMA SlotInvInit == Init => SlotInv
<1> SUFFICES ASSUME Init PROVE SlotInv
    OBVIOUS
<1>1. Starting = Threads
    BY DEF Init, Starting, At
<1>2. ReadySet = {}
    BY CallDataAssumption DEF Init, ReadySet, Ready, In
<1> QED
    BY <1>1, <1>2, FS_EmptySet, FS_CardinalityType, CallDataAssumption DEF SlotInv

LEMMA FiniteCounts == IsFiniteSet(ReadySet) /\ IsFiniteSet(Starting)
<1>1. ReadySet \subseteq Instances /\ Starting \subseteq Threads
    BY DEF ReadySet, Starting
<1> QED
    BY <1>1, FS_Subset, CallDataAssumption

(* A worker's instance takes the place of the one it has yet to construct. *)
LEMMA SlotInvBegin ==
    ASSUME CallInv, SlotInv, NEW t \in Threads, Begin(t)
    PROVE  SlotInv'
<1>1. Free # {} /\ At(t, "begin") /\ UNCHANGED <<queued_tags, registered, cq>>
    BY DEF Begin, Construct
<1>2. PICK i \in Instances : i = Malloc(Free) /\ status[i] = "free" /\ i # None
    BY <1>1, MallocFree
<1>3. /\ status' = [status EXCEPT ![i] = "PROCESS"]
      /\ thread' = [thread EXCEPT ![t] = [@ EXCEPT !.pc = "enqueue", !.fresh = i]]
      /\ thread \in [Threads -> ThreadState]
      /\ status \in [Instances -> {"free", "PROCESS", "FINISH"}]
      /\ thread[t].fresh = None
    BY <1>1, <1>2 DEF Begin, Construct, CallInv, OwnerInv, TypeOK, ThreadShape, At
<1>4. i \notin Parked /\ \A u \in Threads : thread[u].fresh # i
    BY <1>2 DEF CallInv, OwnerInv, ParkedOnce, HeldOnce, Free
<1>5. ~Ready(i)
    BY <1>2, <1>4 DEF Ready, Parked
<1>6. Ready(i)'
    <2>1. thread'[t].fresh = i
        BY <1>3 DEF ThreadState
    <2> QED
        BY <2>1 DEF Ready
<1>7. ASSUME NEW j \in Instances \ {i} PROVE Ready(j)' <=> Ready(j)
    <2>1. status'[j] = status[j] /\ j # None
        BY <1>3, CallDataAssumption
    <2>2. \A u \in Threads : thread'[u].fresh = j <=> thread[u].fresh = j
        BY <1>3, <2>1 DEF ThreadState
    <2>3. \A u \in Threads : At(u, "proceed")' /\ thread'[u].inst = j
                                <=> At(u, "proceed") /\ thread[u].inst = j
        BY <1>1, <1>3 DEF ThreadState, At
    <2> QED
        BY <1>1, <2>1, <2>2, <2>3 DEF Ready
<1>8. ReadySet' = ReadySet \cup {i} /\ i \notin ReadySet
    BY <1>5, <1>6, <1>7 DEF ReadySet
<1>9. Starting' = Starting \ {t} /\ t \in Starting
    BY <1>1, <1>3 DEF Starting, At, ThreadState
<1>10. /\ Cardinality(ReadySet') = Cardinality(ReadySet) + 1
       /\ Cardinality(Starting') = Cardinality(Starting) - 1
    BY <1>8, <1>9, FiniteCounts, FS_AddElement, FS_RemoveElement
<1> QED
    BY <1>10, FiniteCounts, FS_CardinalityType DEF SlotInv

(* The successor takes the place of the instance that begins on its call.  *)
LEMMA SlotInvProceedProcess ==
    ASSUME CallInv, SlotInv, NEW t \in Threads, ProceedProcess(t)
    PROVE  SlotInv'
<1>1. /\ Free # {} /\ At(t, "proceed") /\ UNCHANGED <<queued_tags, registered, cq>>
      /\ status[thread[t].inst] = "PROCESS"
    BY DEF ProceedProcess, Construct
<1>2. PICK i \in Instances : i = Malloc(Free) /\ status[i] = "free" /\ i # None
    BY <1>1, MallocFree
<1>3. PICK x \in Instances : x = thread[t].inst
    BY <1>1 DEF CallInv, OwnerInv, TypeOK, ThreadState, ThreadShape
<1>4. /\ status' = [status EXCEPT ![i] = "PROCESS"]
      /\ thread' = [thread EXCEPT ![t] = [@ EXCEPT !.pc = "enqueue", !.fresh = i]]
      /\ thread \in [Threads -> ThreadState]
      /\ status \in [Instances -> {"free", "PROCESS", "FINISH"}]
      /\ thread[t].fresh = None
    BY <1>1, <1>2 DEF ProceedProcess, Construct, CallInv, OwnerInv, TypeOK, ThreadShape, At
<1>5. i \notin Parked /\ \A u \in Threads : thread[u].fresh # i /\ thread[u].inst # i
    BY <1>2 DEF CallInv, OwnerInv, ParkedOnce, HeldOnce, Free
<1>6. /\ x # None /\ x # i /\ x \notin Parked
      /\ \A u \in Threads : thread[u].fresh # x /\ (thread[u].inst = x => u = t)
    BY <1>2, <1>3, <1>5, CallDataAssumption DEF CallInv, OwnerInv, HeldOnce
<1>7. ~Ready(i) /\ Ready(x)
    BY <1>1, <1>2, <1>3, <1>5 DEF Ready, Parked
<1>8. Ready(i)'
    <2>1. thread'[t].fresh = i
        BY <1>4 DEF ThreadState
    <2> QED
        BY <2>1 DEF Ready
<1>9. ~Ready(x)'
    <2>1. \A u \in Threads : thread'[u].fresh # x
        BY <1>4, <1>6 DEF ThreadState
    <2>2. \A u \in Threads : ~(At(u, "proceed")' /\ thread'[u].inst = x)
        BY <1>4, <1>6 DEF ThreadState, At
    <2>3. x \notin queued_tags \cup registered /\ ~In(cq, x)
        BY <1>6, InPosted DEF Parked
    <2> QED
        BY <1>1, <2>1, <2>2, <2>3 DEF Ready
<1>10. ASSUME NEW j \in Instances \ {i, x} PROVE Ready(j)' <=> Ready(j)
    <2>1. status'[j] = status[j] /\ j # None
        BY <1>4, CallDataAssumption
    <2>2. \A u \in Threads : thread'[u].fresh = j <=> thread[u].fresh = j
        BY <1>4, <2>1 DEF ThreadState
    <2>3. \A u \in Threads : At(u, "proceed")' /\ thread'[u].inst = j
                                <=> At(u, "proceed") /\ thread[u].inst = j
        BY <1>1, <1>3, <1>4 DEF ThreadState, At
    <2> QED
        BY <1>1, <2>1, <2>2, <2>3 DEF Ready
<1>11. ReadySet' = (ReadySet \ {x}) \cup {i} /\ i \notin ReadySet \ {x} /\ x \in ReadySet
    BY <1>6, <1>7, <1>8, <1>9, <1>10 DEF ReadySet
<1>12. Starting' = Starting
    BY <1>1, <1>4 DEF Starting, At, ThreadState
<1>13. /\ IsFiniteSet(ReadySet \ {x})
       /\ Cardinality(ReadySet \ {x}) = Cardinality(ReadySet) - 1
    BY <1>11, FiniteCounts, FS_RemoveElement
<1>14. Cardinality(ReadySet') = Cardinality(ReadySet \ {x}) + 1
    BY <1>11, <1>13, FS_AddElement
<1> QED
    BY <1>12, <1>13, <1>14, FiniteCounts, FS_CardinalityType DEF SlotInv

(* The other steps move the instances that are counted from place to place. *)
LEMMA SlotInvEnqueue ==
    ASSUME CallInv, SlotInv, NEW t \in Threads, Enqueue(t)
    PROVE  SlotInv'
<1>1. /\ At(t, "enqueue") /\ thread[t].fresh # None
      /\ queued_tags' = queued_tags \cup {thread[t].fresh}
      /\ UNCHANGED <<status, registered, cq>>
      /\ thread' = [thread EXCEPT ![t] =
                       [@ EXCEPT !.pc = IF thread[t].inst = None THEN "next" ELSE "callback",
                                 !.fresh = None]]
      /\ thread \in [Threads -> ThreadState]
    BY DEF Enqueue, CallInv, OwnerInv, TypeOK, ThreadShape
<1>2. ASSUME NEW u \in Threads
      PROVE  /\ At(u, "begin")' <=> At(u, "begin")
             /\ At(u, "proceed")' <=> At(u, "proceed")
             /\ thread'[u].inst = thread[u].inst
             /\ thread'[u].fresh = IF u = t THEN None ELSE thread[u].fresh
    BY <1>1 DEF ThreadState, At
<1>3. ASSUME NEW j \in Instances PROVE Ready(j)' <=> Ready(j)
    BY <1>1, <1>2, CallDataAssumption DEF Ready
<1> QED
    BY <1>2, <1>3, SameSlots

LEMMA SlotInvGetEvent ==
    ASSUME CallInv, SlotInv, NEW t \in Threads, GetEvent(t)
    PROVE  SlotInv'
<1>1. /\ At(t, "next") /\ cq # <<>> /\ cq' = Tail(cq) /\ cq \in Seq(Event)
      /\ UNCHANGED <<status, queued_tags, registered>>
      /\ thread \in [Threads -> ThreadState]
    BY DEF GetEvent, CallInv, OwnerInv, TypeOK
<1>2. CASE ~Head(cq).ok
    <2>1. UNCHANGED thread
        BY <1>2 DEF GetEvent
    <2>2. \A j \in Instances : In(cq', j) <=> In(cq, j)
        BY <1>1, <1>2, InTail
    <2>3. \A j \in Instances : Ready(j)' <=> Ready(j)
        BY <1>1, <2>1, <2>2 DEF Ready, At
    <2> QED
        BY <2>1, <2>3, SameSlots DEF At
<1>3. CASE Head(cq).ok
    <2>1. thread' = [thread EXCEPT ![t] = [@ EXCEPT !.pc = "proceed", !.inst = Head(cq).tag]]
        BY <1>3 DEF GetEvent
    <2>2. \A j \in Instances : In(cq, j) <=> Head(cq).tag = j \/ In(cq', j)
        BY <1>1, <1>3, InTail
    <2>3. ASSUME NEW u \in Threads
          PROVE  /\ At(u, "begin")' <=> At(u, "begin")
                 /\ thread'[u].fresh = thread[u].fresh
                 /\ u # t => thread'[u] = thread[u]
                 /\ At(t, "proceed")' /\ thread'[t].inst = Head(cq).tag
        BY <1>1, <2>1 DEF ThreadState, At
    <2>4. ASSUME NEW j \in Instances PROVE Ready(j)' <=> Ready(j)
        <3>1. (\E u \in Threads : At(u, "proceed")' /\ thread'[u].inst = j)
              <=> Head(cq).tag = j \/ \E u \in Threads : At(u, "proceed") /\ thread[u].inst = j
            BY <1>1, <2>3 DEF At
        <3> QED
            BY <1>1, <2>2, <2>3, <3>1 DEF Ready
    <2> QED
        BY <2>3, <2>4, SameSlots
<1> QED
    BY <1>2, <1>3

(* From callback to the end an instance is not counted.                    *)
LEMMA SlotInvProceedRest ==
    ASSUME CallInv, SlotInv, NEW t \in Threads,
           ProceedCallback(t) \/ ProceedReply(t) \/ ProceedFinish(t)
    PROVE  SlotInv'
<1>1. PICK x \in Instances : x = thread[t].inst
    BY DEF CallInv, OwnerInv, TypeOK, ThreadState, ThreadShape,
           ProceedCallback, ProceedReply, ProceedFinish
<1>2. /\ x \notin Parked /\ x # None
      /\ \A u \in Threads : thread[u].fresh # x /\ (thread[u].inst = x => u = t)
    BY <1>1, CallDataAssumption DEF CallInv, OwnerInv, HeldOnce
<1>3. /\ UNCHANGED <<queued_tags, registered, cq>>
      /\ thread \in [Threads -> ThreadState]
      /\ \/ At(t, "callback") \/ At(t, "reply")
         \/ At(t, "proceed") /\ status[x] = "FINISH"
    BY <1>1 DEF ProceedCallback, ProceedReply, ProceedFinish, CallInv, OwnerInv, TypeOK
<1>4. \A j \in Instances \ {x} : status'[j] = status[j]
    BY <1>1 DEF ProceedCallback, ProceedReply, ProceedFinish, CallInv, OwnerInv, TypeOK
<1>5. ASSUME NEW u \in Threads
      PROVE  /\ u # t => thread'[u] = thread[u]
             /\ thread'[u].fresh = thread[u].fresh
             /\ ~At(t, "begin")' /\ ~At(t, "proceed")'
    <2>1. CASE ProceedCallback(t)
        BY <1>3, <2>1 DEF ProceedCallback, ThreadState, At
    <2>2. CASE ProceedReply(t)
        BY <1>3, <2>2 DEF ProceedReply, ThreadState, At
    <2>3. CASE ProceedFinish(t)
        BY <1>3, <2>3 DEF ProceedFinish, ThreadState, At
    <2> QED
        BY <2>1, <2>2, <2>3
<1>6. ~Ready(x) /\ ~Ready(x)'
    <2>1. x \notin queued_tags \cup registered /\ ~In(cq, x)
        BY <1>2, InPosted DEF Parked
    <2>2. ~Ready(x)
        BY <1>1, <1>2, <1>3, <2>1 DEF Ready, At
    <2>3. \A u \in Threads : thread'[u].fresh # x /\ ~(At(u, "proceed")' /\ thread'[u].inst = x)
        BY <1>2, <1>5 DEF At
    <2> QED
        BY <1>3, <2>1, <2>2, <2>3 DEF Ready
<1>7. ASSUME NEW j \in Instances \ {x} PROVE Ready(j)' <=> Ready(j)
    <2>1. \A u \in Threads : At(u, "proceed")' /\ thread'[u].inst = j
                                <=> At(u, "proceed") /\ thread[u].inst = j
        BY <1>1, <1>5 DEF At
    <2> QED
        BY <1>3, <1>4, <1>5, <2>1 DEF Ready
<1>8. \A u \in Threads : At(u, "begin")' <=> At(u, "begin")
    BY <1>3, <1>5 DEF At
<1> QED
    BY <1>6, <1>7, <1>8, SameSlots

LEMMA SlotInvAccept ==
    ASSUME CallInv, SlotInv, NEW i \in Instances, NEW c \in Clients, Accept(i, c)
    PROVE  SlotInv'
<1> DEFINE e == [tag |-> i, ok |-> TRUE]
<1>1. /\ i \in registered /\ registered' = registered \ {i} /\ cq' = Append(cq, e)
      /\ UNCHANGED <<status, queued_tags, thread>>
      /\ cq \in Seq(Event) /\ e \in Event /\ status[i] = "PROCESS"
    BY DEF Accept, CallInv, OwnerInv, TypeOK, Event, Unbound
<1>2. \A j \in Instances : In(cq', j) <=> In(cq, j) \/ j = i
    BY <1>1, InAppend
<1>3. \A j \in Instances : Ready(j)' <=> Ready(j)
    BY <1>1, <1>2 DEF Ready, At
<1> QED
    BY <1>1, <1>3, SameSlots DEF At

LEMMA SlotInvSent ==
    ASSUME CallInv, SlotInv, NEW i \in Instances, Sent(i)
    PROVE  SlotInv'
<1>1. PICK ok \in BOOLEAN : cq' = Append(cq, [tag |-> i, ok |-> ok])
    BY DEF Sent
<1>2. /\ UNCHANGED <<status, queued_tags, registered, thread>>
      /\ cq \in Seq(Event) /\ [tag |-> i, ok |-> ok] \in Event /\ status[i] = "FINISH"
    BY DEF Sent, CallInv, OwnerInv, TypeOK, Event, Stages
<1>3. \A j \in Instances : In(cq', j) => In(cq, j) \/ j = i
    BY <1>1, <1>2, InAppend
<1>4. \A j \in Instances : In(cq, j) => In(cq', j)
    BY <1>1, <1>2, InAppend
<1>5. \A j \in Instances : Ready(j)' <=> Ready(j)
    BY <1>2, <1>3, <1>4 DEF Ready, At
<1> QED
    BY <1>2, <1>5, SameSlots DEF At

LEMMA SlotInductive == CallInv /\ SlotInv /\ [Next]_vars => SlotInv'
<1> SUFFICES ASSUME CallInv, SlotInv, [Next]_vars PROVE SlotInv'
    OBVIOUS
<1>1. ASSUME NEW t \in Threads, Work(t) PROVE SlotInv'
    BY <1>1, SlotInvBegin, SlotInvGetEvent, SlotInvProceedProcess, SlotInvProceedRest DEF Work
<1>2. ASSUME NEW t \in Threads, Enqueue(t) PROVE SlotInv'
    BY <1>2, SlotInvEnqueue
<1>3. ASSUME UNCHANGED <<status, cq, thread>>,
             queued_tags' \cup registered' = queued_tags \cup registered
      PROVE  SlotInv'
    BY <1>3, SameSlots DEF Ready, At
<1>4. CASE LockQueue \/ ProcessQueue \/ UNCHANGED vars
    BY <1>3, <1>4 DEF LockQueue, ProcessQueue, vars
<1>5. ASSUME NEW c \in Clients, Call(c) \/ Disconnect(c) PROVE SlotInv'
    BY <1>3, <1>5 DEF Call, Disconnect
<1>6. CASE Deliver
    BY <1>6, SlotInvAccept, SlotInvSent DEF Deliver
<1> QED
    BY <1>1, <1>2, <1>4, <1>5, <1>6 DEF Next

(* Counting a set by what its elements name.                               *)
LEMMA NamesCount ==
    ASSUME NEW S, IsFiniteSet(S), NEW T, NEW f \in [S -> T],
           \A x, y \in S : f[x] = f[y] => x = y,
           \A z \in T : \E x \in S : f[x] = z
    PROVE  IsFiniteSet(T) /\ Cardinality(T) = Cardinality(S)
<1>1. f \in Bijection(S, T)
    BY DEF Bijection, Injection, Surjection, IsInjective
<1> QED
    BY <1>1, FS_Bijection DEF ExistsBijection

LEMMA DisjointUnion ==
    ASSUME NEW S, IsFiniteSet(S), NEW T, IsFiniteSet(T), S \cap T = {}
    PROVE  /\ IsFiniteSet(S \cup T)
           /\ Cardinality(S \cup T) = Cardinality(S) + Cardinality(T)
<1>1. Cardinality(S) \in Nat /\ Cardinality(T) \in Nat /\ Cardinality(S \cap T) = 0
    BY FS_CardinalityType, FS_EmptySet
<1>2. /\ IsFiniteSet(S \cup T)
      /\ Cardinality(S \cup T) = Cardinality(S) + Cardinality(T) - Cardinality(S \cap T)
    BY FS_Union
<1> QED
    BY <1>1, <1>2

(* The instances counted, place by place.                                  *)
LEMMA SlotsAreConserved == CallInv /\ SlotInv => SlotsConserved
<1> SUFFICES ASSUME CallInv, SlotInv PROVE SlotsConserved
    OBVIOUS
<1> DEFINE A == queued_tags \cup registered
           F == {t \in Threads : thread[t].fresh # None}
           D == {n \in 1 .. Len(cq) : cq[n].ok /\ status[cq[n].tag] = "PROCESS"}
           E == {t \in Threads : At(t, "proceed") /\ status[thread[t].inst] = "PROCESS"}
           RF == {i \in Instances : \E t \in Threads : thread[t].fresh = i}
           RD == {i \in Instances : status[i] = "PROCESS" /\ In(cq, i)}
           RE == {i \in Instances :
                     status[i] = "PROCESS" /\ \E t \in Threads : At(t, "proceed") /\ thread[t].inst = i}
<1>1. /\ IsFiniteSet(Threads) /\ IsFiniteSet(Instances) /\ None \notin Instances
      /\ thread \in [Threads -> ThreadState] /\ cq \in Seq(Event)
      /\ A \subseteq Instances
    BY CallDataAssumption DEF CallInv, OwnerInv, TypeOK
<1>2. IsFiniteSet(A) /\ IsFiniteSet(F) /\ IsFiniteSet(E) /\ IsFiniteSet(D)
    <2>1. IsFiniteSet(1 .. Len(cq))
        BY <1>1, FS_Interval
    <2>2. F \subseteq Threads /\ E \subseteq Threads /\ D \subseteq 1 .. Len(cq)
        OBVIOUS
    <2> QED
        BY <1>1, <2>1, <2>2, FS_Subset
<1>3. IsFiniteSet(RF) /\ Cardinality(RF) = Cardinality(F)
    <2> DEFINE f == [t \in F |-> thread[t].fresh]
    <2>1. \A t \in F : thread[t].fresh \in RF
        BY <1>1 DEF ThreadState
    <2>2. f \in [F -> RF]
        BY <2>1
    <2>3. \A x, y \in F : f[x] = f[y] => x = y
        BY DEF CallInv, OwnerInv, HeldOnce
    <2>4. \A z \in RF : \E x \in F : f[x] = z
        BY <1>1
    <2> HIDE DEF f, F, RF
    <2> QED
        BY <1>2, <2>2, <2>3, <2>4, NamesCount
<1>4. IsFiniteSet(RE) /\ Cardinality(RE) = Cardinality(E)
    <2> DEFINE f == [t \in E |-> thread[t].inst]
    <2>1. \A t \in E : thread[t].inst \in RE /\ thread[t].inst # None
        BY <1>1 DEF ThreadState, CallInv, OwnerInv, ThreadShape
    <2>2. f \in [E -> RE]
        BY <2>1
    <2>3. \A x, y \in E : f[x] = f[y] => x = y
        BY <2>1 DEF CallInv, OwnerInv, HeldOnce
    <2>4. \A z \in RE : \E x \in E : f[x] = z
        OBVIOUS
    <2> HIDE DEF f, E, RE
    <2> QED
        BY <1>2, <2>2, <2>3, <2>4, NamesCount
<1>5. IsFiniteSet(RD) /\ Cardinality(RD) = Cardinality(D)
    <2> DEFINE f == [n \in D |-> cq[n].tag]
    <2>1. \A n \in 1 .. Len(cq) : cq[n] \in Event
        BY <1>1
    <2>2. \A n \in D : cq[n].tag \in RD
        BY <2>1 DEF Event, In
    <2>3. f \in [D -> RD]
        BY <2>2
    <2>4. \A x, y \in D : f[x] = f[y] => x = y
        BY DEF CallInv, OwnerInv, ParkedOnce, Once
    <2>5. \A z \in RD : \E x \in D : f[x] = z
        BY DEF In
    <2> HIDE DEF f, D, RD
    <2> QED
        BY <1>2, <2>3, <2>4, <2>5, NamesCount
<1>6. /\ A \cap RF = {} /\ (A \cup RF) \cap RD = {} /\ (A \cup RF \cup RD) \cap RE = {}
    <2>1. \A i \in RF \cup RE : i \notin Parked /\ i # None
        BY <1>1 DEF CallInv, OwnerInv, HeldOnce
    <2>2. \A i \in RD : i \in Posted(cq)
        BY InPosted
    <2>3. \A i \in RD : i \notin A
        BY <2>2 DEF CallInv, OwnerInv, ParkedOnce
    <2>4. RF \cap RE = {}
        BY <1>1 DEF CallInv, OwnerInv, HeldOnce
    <2> QED
        BY <2>1, <2>2, <2>3, <2>4 DEF Parked
<1>7. ReadySet = A \cup RF \cup RD \cup RE
    BY <1>1 DEF ReadySet, Ready
<1> DEFINE a == Cardinality(A) f == Cardinality(F) d == Cardinality(D) e == Cardinality(E)
           s == Cardinality(Starting)
<1>8. a + f + s + d + e = Cardinality(Threads) => SlotsConserved
    BY DEF SlotsConserved, Starting
<1> HIDE DEF A, F, D, E, RF, RD, RE
<1>9. a \in Nat /\ f \in Nat /\ d \in Nat /\ e \in Nat /\ s \in Nat
    BY <1>2, FiniteCounts, FS_CardinalityType
<1>10. IsFiniteSet(A \cup RF) /\ Cardinality(A \cup RF) = a + f
    BY <1>2, <1>3, <1>6, DisjointUnion
<1>11. IsFiniteSet(A \cup RF \cup RD) /\ Cardinality(A \cup RF \cup RD) = a + f + d
    BY <1>5, <1>6, <1>10, DisjointUnion
<1>12. Cardinality(ReadySet) = a + f + d + e
    BY <1>4, <1>6, <1>7, <1>11, DisjointUnion
<1> HIDE DEF a, f, d, e
<1>13. a + f + d + e + s = Cardinality(Threads)
    BY <1>12 DEF SlotInv
<1> QED
    BY <1>8, <1>9, <1>13

LEMMA SlotInvariant == Spec => [](CallInv /\ SlotInv)
BY CallInvInit, CallInductive, SlotInvInit, SlotInductive, PTL DEF Spec

(* The capacity to accept calls neither shrinks nor grows: the server has  *)
(* as many instances ready for a call as it has worker threads.            *)
THEOREM CapacityConserved == Spec => []SlotsConserved
BY SlotInvariant, SlotsAreConserved, PTL

----------------------------------------------------------------------------
(* The number of instances.                                                *)

Held(i) == \E t \in Threads : thread[t].inst = i

(* i has composed its answer, and no worker has taken it up since.         *)
Done(i) == status[i] = "FINISH" /\ ~Held(i)

(* In the completion queue i is before h, and will be taken up.            *)
Before(q, i, h) ==
    \E m, n \in 1 .. Len(q) : m < n /\ q[m].tag = i /\ q[m].ok /\ q[n].tag = h

(* Instances in use are in some place, and those past the queue have a     *)
(* client, or a call that was cut off.                                     *)
Placed ==
    /\ \A i \in Instances : status[i] = "PROCESS" => Ready(i) \/ Held(i)
    /\ \A i \in Instances \ Free :
          \/ bound[i] # None
          \/ i \in queued_tags \cup registered
          \/ \E t \in Threads : thread[t].fresh = i

(* A client has one instance at work for it, and so has a call that was    *)
(* cut off. One that is done waits in the completion queue before that     *)
(* one, so that a worker takes it up first; it stays behind only when its  *)
(* call was cut off.                                                       *)
Successive ==
    \A i, j \in Instances :
        bound[i] # None /\ bound[i] = bound[j] =>
            /\ Handles(i) /\ Handles(j) => i = j
            /\ Done(i) /\ Done(j) => i = j
            /\ Done(i) /\ Handles(j) /\ i # j => Before(cq, i, j)

Returns ==
    \A i \in Instances :
        Done(i) /\ i \notin sending /\ bound[i] \in Clients => In(cq, i)

CountInv == Placed /\ Successive /\ Returns

LEMMA BeforeTail ==
    ASSUME NEW q \in Seq(Event), q # <<>>, NEW i, NEW h, Before(q, i, h),
           ~(Head(q).tag = i /\ Head(q).ok)
    PROVE  Before(Tail(q), i, h)
<1>1. /\ Len(q) \in Nat \ {0} /\ Len(Tail(q)) = Len(q) - 1 /\ Head(q) = q[1]
      /\ \A n \in 1 .. Len(q) - 1 : Tail(q)[n] = q[n + 1]
    OBVIOUS
<1>2. PICK m, n \in 1 .. Len(q) : m < n /\ q[m].tag = i /\ q[m].ok /\ q[n].tag = h
    BY DEF Before
<1>3. m # 1
    BY <1>1, <1>2
<1>4. /\ m - 1 \in 1 .. Len(q) - 1 /\ n - 1 \in 1 .. Len(q) - 1 /\ m - 1 < n - 1
      /\ Tail(q)[m - 1] = q[m] /\ Tail(q)[n - 1] = q[n]
    BY <1>1, <1>2, <1>3
<1> QED
    BY <1>1, <1>2, <1>4 DEF Before

LEMMA BeforeAppend ==
    ASSUME NEW q \in Seq(Event), NEW e \in Event, NEW i, NEW h
    PROVE  /\ Before(q, i, h) => Before(Append(q, e), i, h)
           /\ In(q, i) => Before(Append(q, e), i, e.tag)
<1>1. /\ Len(q) \in Nat /\ Len(Append(q, e)) = Len(q) + 1
      /\ Append(q, e)[Len(q) + 1] = e
      /\ \A n \in 1 .. Len(q) : Append(q, e)[n] = q[n] /\ n < Len(q) + 1 /\ n \in 1 .. Len(q) + 1
      /\ Len(q) + 1 \in 1 .. Len(q) + 1
    OBVIOUS
<1>2. ASSUME Before(q, i, h) PROVE Before(Append(q, e), i, h)
    <2>1. PICK m, n \in 1 .. Len(q) : m < n /\ q[m].tag = i /\ q[m].ok /\ q[n].tag = h
        BY <1>2 DEF Before
    <2> QED
        BY <1>1, <2>1 DEF Before
<1>3. ASSUME In(q, i) PROVE Before(Append(q, e), i, e.tag)
    <2>1. PICK m \in 1 .. Len(q) : q[m].tag = i /\ q[m].ok
        BY <1>3 DEF In
    <2> QED
        BY <1>1, <2>1 DEF Before
<1> QED
    BY <1>2, <1>3

LEMMA BeforePosted ==
    ASSUME NEW q, NEW i, NEW h, Before(q, i, h)
    PROVE  h \in Posted(q)
BY DEF Before, Posted

LEMMA CountInvInit == Init => CountInv
BY CallDataAssumption
   DEF Init, CountInv, Placed, Successive, Returns, Free, Done

(* A step after which no more instances are done or at work than before.   *)
LEMMA SameCounts ==
    ASSUME Successive, Returns, UNCHANGED <<bound, cq>>,
           \A j \in Instances : Done(j)' /\ bound[j] # None => Done(j),
           \A j \in Instances : Handles(j)' /\ bound[j] # None => Handles(j),
           \A j \in Instances : Done(j)' /\ j \in sending => j \in sending'
    PROVE  (Successive /\ Returns)'
<1>1. Successive'
    BY DEF Successive
<1>2. Returns'
    BY CallDataAssumption DEF Returns
<1> QED
    BY <1>1, <1>2

LEMMA CountInvConstruct ==
    ASSUME CallInv, CountInv, NEW t \in Threads, Begin(t) \/ ProceedProcess(t)
    PROVE  CountInv'
<1>1. Free # {} /\ UNCHANGED <<bound, queued_tags, registered, sending, cq, client>>
    BY DEF Begin, ProceedProcess, Construct
<1>2. PICK i \in Instances : i = Malloc(Free) /\ status[i] = "free" /\ i # None
    BY <1>1, MallocFree
<1>3. /\ status' = [status EXCEPT ![i] = "PROCESS"]
      /\ thread' = [thread EXCEPT ![t] = [@ EXCEPT !.pc = "enqueue", !.fresh = i]]
      /\ thread \in [Threads -> ThreadState]
      /\ status \in [Instances -> {"free", "PROCESS", "FINISH"}]
      /\ At(t, "begin") \/ At(t, "proceed")
      /\ thread[t].fresh = None
    BY <1>1, <1>2 DEF Begin, ProceedProcess, Construct, CallInv, OwnerInv, TypeOK, ThreadShape, At
<1>4. /\ \A u \in Threads \ {t} : thread'[u] = thread[u]
      /\ thread'[t].inst = thread[t].inst /\ thread'[t].fresh = i /\ thread'[t].pc = "enqueue"
    BY <1>3 DEF ThreadState
<1>5. \A u \in Threads : thread'[u].inst = thread[u].inst
    BY <1>4
<1>6. \A j \in Instances : (Held(j)' <=> Held(j)) /\ (Replying(j)' <=> Replying(j))
    BY <1>3, <1>4, <1>5 DEF Held, Replying, At
<1>7. \A j \in Instances \ {i} : status'[j] = status[j]
    BY <1>3
<1>8. bound[i] = None /\ None \notin Clients /\ None \notin Instances
    BY <1>2, CallDataAssumption DEF CallInv, Unbound, Free
<1>9. (Successive /\ Returns)'
    <2>1. \A j \in Instances : bound[j] # None => j # i
        BY <1>8
    <2> QED
        BY <1>1, <1>6, <1>7, <2>1, SameCounts DEF CountInv, Done, Handles
<1>10. Placed'
    <2>1. Free' = Free \ {i} /\ \E u \in Threads : thread'[u].fresh = i
        BY <1>2, <1>3, <1>4 DEF Free
    <2>2. \A j \in Instances : (\E u \in Threads : thread[u].fresh = j)
                                 => \E u \in Threads : thread'[u].fresh = j
        BY <1>3, <1>4, <1>8
    <2>3. ASSUME NEW j \in Instances, status'[j] = "PROCESS", j # i
          PROVE  Ready(j)' \/ Held(j)'
        BY <1>1, <1>6, <1>7, <2>2, <2>3 DEF CountInv, Placed, Ready, Held
    <2>4. Ready(i)'
        BY <2>1 DEF Ready
    <2> QED
        BY <1>1, <2>1, <2>2, <2>3, <2>4 DEF CountInv, Placed
<1> QED
    BY <1>9, <1>10 DEF CountInv

LEMMA CountInvEnqueue ==
    ASSUME CallInv, CountInv, NEW t \in Threads, Enqueue(t)
    PROVE  CountInv'
<1>1. /\ At(t, "enqueue")
      /\ queued_tags' = queued_tags \cup {thread[t].fresh}
      /\ UNCHANGED <<status, bound, registered, sending, cq, client>>
      /\ thread' = [thread EXCEPT ![t] =
                       [@ EXCEPT !.pc = IF thread[t].inst = None THEN "next" ELSE "callback",
                                 !.fresh = None]]
      /\ thread \in [Threads -> ThreadState]
    BY DEF Enqueue, CallInv, OwnerInv, TypeOK
<1>2. ASSUME NEW u \in Threads
      PROVE  /\ At(u, "proceed")' <=> At(u, "proceed")
             /\ At(u, "reply")' <=> At(u, "reply")
             /\ thread'[u].inst = thread[u].inst
             /\ thread'[u].fresh = IF u = t THEN None ELSE thread[u].fresh
    BY <1>1 DEF ThreadState, At
<1>3. \A j \in Instances : (Held(j)' <=> Held(j)) /\ (Replying(j)' <=> Replying(j))
    BY <1>2 DEF Held, Replying
<1>4. (Successive /\ Returns)'
    BY <1>1, <1>3, SameCounts DEF CountInv, Done, Handles
<1>5. \A j \in Instances : Ready(j) => Ready(j)'
    BY <1>1, <1>2 DEF Ready
<1>6. Placed'
    BY <1>1, <1>2, <1>3, <1>5 DEF CountInv, Placed, Free
<1> QED
    BY <1>4, <1>6 DEF CountInv

(* The worker takes up the first event: that instance is held now.         *)
LEMMA CountInvGetEvent ==
    ASSUME CallInv, CountInv, NEW t \in Threads, GetEvent(t)
    PROVE  CountInv'
<1>1. /\ At(t, "next") /\ cq # <<>> /\ cq' = Tail(cq) /\ cq \in Seq(Event)
      /\ UNCHANGED <<status, bound, queued_tags, registered, sending, client>>
      /\ thread \in [Threads -> ThreadState] /\ thread[t].inst = None
    BY DEF GetEvent, CallInv, OwnerInv, TypeOK, ThreadShape
<1>2. \A u \in Threads \ {t} : thread'[u] = thread[u]
    BY <1>1 DEF GetEvent
<1>3. /\ Head(cq).ok => thread'[t].inst = Head(cq).tag /\ ~At(t, "reply")'
      /\ ~Head(cq).ok => thread' = thread
      /\ thread'[t].fresh = thread[t].fresh
    BY <1>1 DEF GetEvent, ThreadState, At
<1>4. ASSUME NEW j \in Instances
      PROVE  /\ Held(j) => Held(j)'
             /\ Replying(j)' => Replying(j)
             /\ (\E u \in Threads : thread[u].fresh = j) => \E u \in Threads : thread'[u].fresh = j
             /\ In(cq, j) => In(cq', j) \/ Held(j)'
    <2>1. j # None
        BY CallDataAssumption
    <2>2. Held(j) => Held(j)'
        BY <1>1, <1>2, <2>1 DEF Held
    <2>3. Replying(j)' => Replying(j)
        BY <1>1, <1>2, <1>3 DEF Replying, At
    <2>4. (\E u \in Threads : thread[u].fresh = j) => \E u \in Threads : thread'[u].fresh = j
        BY <1>2, <1>3
    <2>5. In(cq, j) => In(cq', j) \/ Held(j)'
        BY <1>1, <1>3, InTail DEF Held
    <2> QED
        BY <2>2, <2>3, <2>4, <2>5
<1>5. \A j \in Instances : (Done(j)' => Done(j)) /\ (Handles(j)' => Handles(j))
    BY <1>1, <1>4 DEF Done, Handles
<1>6. Placed'
    <2>1. \A j \in Instances : (\E u \in Threads : At(u, "proceed") /\ thread[u].inst = j) => Held(j)
        BY DEF Held
    <2>2. ASSUME NEW j \in Instances, status'[j] = "PROCESS"
          PROVE  Ready(j)' \/ Held(j)'
        BY <1>1, <1>4, <2>1, <2>2 DEF CountInv, Placed, Ready
    <2> QED
        BY <1>1, <1>4, <2>2 DEF CountInv, Placed, Free
<1>7. Successive'
    <2>1. ASSUME NEW i \in Instances, NEW h \in Instances, Done(i)', Before(cq, i, h)
          PROVE  Before(cq', i, h)
        <3>1. ~(Head(cq).tag = i /\ Head(cq).ok)
            BY <1>3, <2>1 DEF Done, Held
        <3> QED
            BY <1>1, <2>1, <3>1, BeforeTail
    <2> QED
        BY <1>1, <1>5, <2>1 DEF CountInv, Successive
<1>8. Returns'
    BY <1>1, <1>4, <1>5 DEF CountInv, Returns, Done
<1> QED
    BY <1>6, <1>7, <1>8 DEF CountInv

LEMMA CountInvProceedCallback ==
    ASSUME CallInv, CountInv, NEW t \in Threads, ProceedCallback(t)
    PROVE  CountInv'
<1>1. PICK x \in Instances : x = thread[t].inst
    BY DEF CallInv, OwnerInv, TypeOK, ThreadState, ThreadShape, ProceedCallback
<1>2. /\ At(t, "callback") /\ status[x] = "PROCESS" /\ x \notin Free
      /\ status' = [status EXCEPT ![x] = "FINISH"]
      /\ thread' = [thread EXCEPT ![t].pc = "reply"]
      /\ UNCHANGED <<bound, queued_tags, registered, sending, cq, client>>
      /\ thread \in [Threads -> ThreadState]
      /\ status \in [Instances -> {"free", "PROCESS", "FINISH"}]
    BY <1>1 DEF ProceedCallback, CallInv, OwnerInv, TypeOK, Stages, Free
<1>3. ASSUME NEW u \in Threads
      PROVE  /\ thread'[u].inst = thread[u].inst /\ thread'[u].fresh = thread[u].fresh
             /\ u # t => thread'[u] = thread[u]
             /\ At(u, "proceed")' <=> At(u, "proceed")
    BY <1>2 DEF ThreadState, At
<1>4. /\ \A j \in Instances : Held(j)' <=> Held(j)
      /\ \A j \in Instances \ {x} : (Replying(j)' <=> Replying(j)) /\ status'[j] = status[j]
    BY <1>1, <1>2, <1>3 DEF Held, Replying, At
<1>5. Held(x) /\ Handles(x)
    BY <1>1, <1>2 DEF Held, Handles
<1>6. \A j \in Instances : (Done(j)' => Done(j)) /\ (Handles(j)' => Handles(j))
    BY <1>2, <1>4, <1>5 DEF Done, Handles
<1>7. (Successive /\ Returns)'
    BY <1>2, <1>6, SameCounts DEF CountInv
<1>8. Placed'
    <2>1. Free' = Free
        BY <1>2 DEF Free
    <2>2. \A j \in Instances \ {x} : Ready(j) => Ready(j)'
        BY <1>2, <1>3, <1>4 DEF Ready
    <2>3. status'[x] = "FINISH"
        BY <1>2
    <2> QED
        BY <1>2, <1>3, <1>4, <2>1, <2>2, <2>3 DEF CountInv, Placed
<1> QED
    BY <1>7, <1>8 DEF CountInv

(* The answer is under way: the instance is done. No other of its client   *)
(* is, since that would be before it in the queue.                         *)
LEMMA CountInvProceedReply ==
    ASSUME CallInv, CountInv, NEW t \in Threads, ProceedReply(t)
    PROVE  CountInv'
<1>1. PICK x \in Instances : x = thread[t].inst
    BY DEF CallInv, OwnerInv, TypeOK, ThreadState, ThreadShape, ProceedReply
<1>2. /\ At(t, "reply") /\ status[x] = "FINISH" /\ x # None
      /\ sending' = sending \cup {x}
      /\ thread' = [thread EXCEPT ![t] = [@ EXCEPT !.pc = "next", !.inst = None]]
      /\ UNCHANGED <<status, bound, queued_tags, registered, cq, client>>
      /\ thread \in [Threads -> ThreadState]
    BY <1>1, CallDataAssumption DEF ProceedReply, CallInv, OwnerInv, TypeOK, Stages
<1>3. /\ x \notin Posted(cq)
      /\ \A u \in Threads : thread[u].inst = x => u = t
    BY <1>1, <1>2 DEF CallInv, OwnerInv, HeldOnce, Parked
<1>4. ASSUME NEW u \in Threads
      PROVE  /\ u # t => thread'[u] = thread[u]
             /\ thread'[u].fresh = thread[u].fresh
             /\ At(u, "proceed")' <=> At(u, "proceed")
             /\ thread'[t].inst = None
    BY <1>2 DEF ThreadState, At
<1>5. \A j \in Instances \ {x} : (Held(j)' <=> Held(j)) /\ (Replying(j)' <=> Replying(j))
    BY <1>1, <1>2, <1>4, CallDataAssumption DEF Held, Replying, At, ThreadState
<1>6. Handles(x) /\ Done(x)'
    <2>1. Handles(x)
        BY <1>1, <1>2 DEF Handles, Replying
    <2>2. ~Held(x)'
        BY <1>2, <1>3, <1>4 DEF Held
    <2> QED
        BY <1>2, <2>1, <2>2 DEF Done
<1>7. \A j \in Instances \ {x} : (Done(j)' <=> Done(j)) /\ (Handles(j)' <=> Handles(j))
    BY <1>2, <1>5 DEF Done, Handles
<1>8. \A j \in Instances \ {x} : bound[j] # None /\ bound[j] = bound[x] => ~Done(j) /\ ~Handles(j)
    BY <1>3, <1>6, BeforePosted DEF CountInv, Successive
<1>9. Successive'
    BY <1>2, <1>7, <1>8 DEF CountInv, Successive
<1>10. Returns'
    BY <1>2, <1>7 DEF CountInv, Returns
<1>11. Placed'
    <2>1. Free' = Free
        BY <1>2 DEF Free
    <2>2. \A j \in Instances : status[j] = "PROCESS" => j # x
        BY <1>2
    <2>3. \A j \in Instances \ {x} : Ready(j) => Ready(j)'
        BY <1>1, <1>2, <1>4 DEF Ready, At
    <2> QED
        BY <1>2, <1>4, <1>5, <2>1, <2>2, <2>3 DEF CountInv, Placed
<1> QED
    BY <1>9, <1>10, <1>11 DEF CountInv

LEMMA CountInvProceedFinish ==
    ASSUME CallInv, CountInv, NEW t \in Threads, ProceedFinish(t)
    PROVE  CountInv'
<1>1. PICK x \in Instances : x = thread[t].inst
    BY DEF CallInv, OwnerInv, TypeOK, ThreadState, ThreadShape, ProceedFinish
<1>2. /\ At(t, "proceed") /\ status[x] = "FINISH" /\ x # None
      /\ status' = [status EXCEPT ![x] = "free"]
      /\ bound' = [bound EXCEPT ![x] = None]
      /\ thread' = [thread EXCEPT ![t] = [@ EXCEPT !.pc = "next", !.inst = None]]
      /\ UNCHANGED <<queued_tags, registered, sending, cq, client>>
      /\ thread \in [Threads -> ThreadState]
      /\ status \in [Instances -> {"free", "PROCESS", "FINISH"}]
      /\ bound \in [Instances -> Clients \cup (1 .. breaks) \cup {None}]
    BY <1>1, CallDataAssumption DEF ProceedFinish, CallInv, OwnerInv, TypeOK
<1>3. ASSUME NEW u \in Threads
      PROVE  /\ u # t => thread'[u] = thread[u]
             /\ thread'[u].fresh = thread[u].fresh
             /\ thread'[t].inst = None
             /\ ~At(t, "proceed")'
    BY <1>2 DEF ThreadState, At
<1>4. \A j \in Instances \ {x} :
         /\ Held(j)' <=> Held(j)
         /\ Replying(j)' <=> Replying(j)
         /\ status'[j] = status[j] /\ bound'[j] = bound[j]
    BY <1>1, <1>2, <1>3, CallDataAssumption DEF Held, Replying, At, ThreadState
<1>5. bound'[x] = None /\ None \notin Clients /\ status'[x] = "free"
    BY <1>2, CallDataAssumption
<1>6. \A j \in Instances \ {x} : (Done(j)' <=> Done(j)) /\ (Handles(j)' <=> Handles(j))
    BY <1>2, <1>4 DEF Done, Handles
<1>7. Successive'
    BY <1>2, <1>4, <1>5, <1>6 DEF CountInv, Successive
<1>8. Returns'
    BY <1>2, <1>4, <1>5, <1>6 DEF CountInv, Returns
<1>9. Placed'
    <2>1. Free' = Free \cup {x}
        BY <1>2 DEF Free
    <2>2. \A j \in Instances \ {x} : Ready(j) => Ready(j)'
        BY <1>1, <1>2, <1>3, <1>4 DEF Ready, At
    <2> QED
        BY <1>2, <1>3, <1>4, <1>5, <2>1, <2>2 DEF CountInv, Placed
<1> QED
    BY <1>7, <1>8, <1>9 DEF CountInv

(* A client that is waiting has nobody at work for it, and who is done for *)
(* it is in the queue before the event that is added now.                  *)
LEMMA CountInvAccept ==
    ASSUME CallInv, CountInv, NEW i \in Instances, NEW c \in Clients, Accept(i, c)
    PROVE  CountInv'
<1> DEFINE e == [tag |-> i, ok |-> TRUE]
<1>1. /\ i \in registered /\ registered' = registered \ {i} /\ cq' = Append(cq, e)
      /\ client[c] = "waiting" /\ client' = [client EXCEPT ![c] = "served"]
      /\ bound' = [bound EXCEPT ![i] = c]
      /\ UNCHANGED <<status, queued_tags, sending, thread>>
      /\ cq \in Seq(Event) /\ e \in Event /\ status[i] = "PROCESS"
      /\ bound \in [Instances -> Clients \cup (1 .. breaks) \cup {None}]
      /\ client \in [Clients -> {"idle", "waiting", "served"}]
    BY DEF Accept, CallInv, OwnerInv, TypeOK, Event, Unbound
<1>2. \A j \in Instances :
         /\ Held(j)' <=> Held(j)
         /\ Done(j)' <=> Done(j)
         /\ Handles(j)' <=> Handles(j)
    BY <1>1 DEF Held, Done, Handles, Replying, At
<1>3. \A j \in Instances :
         /\ In(cq', j) <=> In(cq, j) \/ j = i
         /\ In(cq, j) => Before(cq', j, i)
         /\ \A h \in Instances : Before(cq, j, h) => Before(cq', j, h)
    <2>1. cq' = Append(cq, e) /\ cq \in Seq(Event) /\ e \in Event /\ e.tag = i /\ e.ok = TRUE
        BY <1>1
    <2> HIDE DEF e
    <2>2. ASSUME NEW j \in Instances PROVE In(cq', j) <=> In(cq, j) \/ j = i
        BY <2>1, InAppend
    <2>3. ASSUME NEW j \in Instances, In(cq, j) PROVE Before(cq', j, i)
        <3>1. Before(Append(cq, e), j, e.tag)
            BY <2>1, <2>3, BeforeAppend
        <3> QED
            BY <2>1, <3>1
    <2>4. ASSUME NEW j \in Instances, NEW h \in Instances, Before(cq, j, h)
          PROVE  Before(cq', j, h)
        BY <2>1, <2>4, BeforeAppend
    <2> QED
        BY <2>2, <2>3, <2>4
<1>4. bound'[i] = c /\ \A j \in Instances \ {i} : bound'[j] = bound[j]
    BY <1>1
<1>5. \A j \in Instances : bound[j] = c => ~Handles(j) /\ j \notin sending
    BY <1>1 DEF CallInv, Handlers, Answered, Handles
<1>6. ~Done(i)
    BY <1>1 DEF Done
<1>7. \A j \in Instances \ {i} : bound[j] = c /\ Done(j) => Before(cq', j, i)
    BY <1>1, <1>3, <1>5 DEF CountInv, Returns
<1>8. Successive'
    BY <1>2, <1>3, <1>4, <1>5, <1>6, <1>7 DEF CountInv, Successive
<1>9. Returns'
    BY <1>1, <1>2, <1>3, <1>4, <1>5, <1>6 DEF CountInv, Returns
<1>10. Placed'
    <2>1. \A j \in Instances : Ready(j) => Ready(j)'
        BY <1>1, <1>3 DEF Ready, At
    <2>2. Free' = Free
        BY <1>1 DEF Free
    <2> QED
        BY <1>1, <1>2, <1>4, <2>1, <2>2, CallDataAssumption DEF CountInv, Placed
<1> QED
    BY <1>8, <1>9, <1>10 DEF CountInv

LEMMA CountInvSent ==
    ASSUME CallInv, CountInv, NEW i \in Instances, Sent(i)
    PROVE  CountInv'
<1>1. PICK ok \in BOOLEAN : /\ bound[i] \in Clients => ok
                            /\ cq' = Append(cq, [tag |-> i, ok |-> ok])
    BY DEF Sent
<1> DEFINE e == [tag |-> i, ok |-> ok]
<1>2. /\ cq \in Seq(Event) /\ e \in Event /\ status[i] = "FINISH"
      /\ UNCHANGED <<status, bound, queued_tags, registered, thread>>
      /\ sending' = sending \ {i}
    BY DEF Sent, CallInv, OwnerInv, TypeOK, Event, Stages
<1>3. \A j \in Instances :
         /\ In(cq', j) <=> In(cq, j) \/ (j = i /\ ok)
         /\ \A h \in Instances : Before(cq, j, h) => Before(cq', j, h)
    BY <1>1, <1>2, InAppend, BeforeAppend
<1>4. \A j \in Instances :
         /\ Held(j)' <=> Held(j)
         /\ Done(j)' <=> Done(j)
         /\ Handles(j)' => Handles(j)
    BY <1>2 DEF Held, Done, Handles, Replying, At
<1>5. Successive'
    BY <1>2, <1>3, <1>4 DEF CountInv, Successive
<1>6. Returns'
    <2>1. ASSUME NEW j \in Instances, Done(j)', j \notin sending', bound[j] \in Clients
          PROVE  In(cq', j)
        BY <1>1, <1>2, <1>3, <1>4, <2>1 DEF CountInv, Returns
    <2> QED
        BY <1>2, <2>1 DEF Returns
<1>7. Placed'
    <2>1. \A j \in Instances : Ready(j) => Ready(j)'
        BY <1>2, <1>3 DEF Ready, At
    <2>2. Free' = Free
        BY <1>2 DEF Free
    <2> QED
        BY <1>2, <1>4, <2>1, <2>2 DEF CountInv, Placed
<1> QED
    BY <1>5, <1>6, <1>7 DEF CountInv

(* What was done for one caller, or at work for one, still is; and who is  *)
(* bound to a client was before.                                           *)
LEMMA CountInvDisconnect ==
    ASSUME CallInv, CountInv, NEW c \in Clients, Disconnect(c)
    PROVE  CountInv'
<1>1. UNCHANGED <<status, queued_tags, registered, sending, cq, thread>>
    BY DEF Disconnect
<1>2. \A j \in Instances :
         /\ Held(j)' <=> Held(j)
         /\ Done(j)' <=> Done(j)
         /\ Handles(j)' <=> Handles(j)
         /\ Ready(j)' <=> Ready(j)
    BY <1>1 DEF Held, Done, Handles, Replying, Ready, At
<1>3. \A i \in Instances :
         /\ bound'[i] = None <=> bound[i] = None
         /\ bound'[i] \in Clients => bound'[i] = bound[i]
         /\ \A j \in Instances : bound'[i] = bound'[j] <=> bound[i] = bound[j]
    BY CutOff DEF CallInv
<1>4. Placed'
    <2>1. Free' = Free
        BY <1>1 DEF Free
    <2> QED
        BY <1>1, <1>2, <1>3, <2>1 DEF CountInv, Placed, Free
<1>5. Successive'
    BY <1>1, <1>2, <1>3 DEF CountInv, Successive
<1>6. Returns'
    BY <1>1, <1>2, <1>3 DEF CountInv, Returns
<1> QED
    BY <1>4, <1>5, <1>6 DEF CountInv

LEMMA CountInductive == CallInv /\ CountInv /\ [Next]_vars => CountInv'
<1> SUFFICES ASSUME CallInv, CountInv, [Next]_vars PROVE CountInv'
    OBVIOUS
<1>1. ASSUME NEW t \in Threads, Work(t) PROVE CountInv'
    BY <1>1, CountInvConstruct, CountInvGetEvent, CountInvProceedCallback,
       CountInvProceedReply, CountInvProceedFinish
    DEF Work
<1>2. ASSUME NEW t \in Threads, Enqueue(t) PROVE CountInv'
    BY <1>2, CountInvEnqueue
<1>3. ASSUME UNCHANGED <<status, bound, sending, cq, thread>>,
             queued_tags' \cup registered' = queued_tags \cup registered
      PROVE  CountInv'
    <2>1. \A j \in Instances :
             /\ Held(j)' <=> Held(j)
             /\ Done(j)' <=> Done(j)
             /\ Handles(j)' <=> Handles(j)
             /\ Ready(j)' <=> Ready(j)
        BY <1>3 DEF Held, Done, Handles, Replying, Ready, At
    <2>2. Free' = Free
        BY <1>3 DEF Free
    <2>3. Placed'
        BY <1>3, <2>1, <2>2 DEF CountInv, Placed
    <2> QED
        BY <1>3, <2>1, <2>3, SameCounts DEF CountInv
<1>4. CASE LockQueue \/ ProcessQueue \/ UNCHANGED vars
    BY <1>3, <1>4 DEF LockQueue, ProcessQueue, vars
<1>5. ASSUME NEW c \in Clients, Call(c) \/ Disconnect(c) PROVE CountInv'
    BY <1>3, <1>5, CountInvDisconnect DEF Call
<1>6. CASE Deliver
    BY <1>6, CountInvAccept, CountInvSent DEF Deliver
<1> QED
    BY <1>1, <1>2, <1>4, <1>5, <1>6 DEF Next

(* Every instance in use is counted by SlotInv, held by a worker, or the   *)
(* one that is done for its client.                                        *)
LEMMA CountsBound == CallInv /\ SlotInv /\ CountInv => InstancesBounded
<1> SUFFICES ASSUME CallInv, SlotInv, CountInv PROVE InstancesBounded
    OBVIOUS
<1> DEFINE H == {t \in Threads : thread[t].inst # None}
           HeldSet == {i \in Instances : Held(i)}
           DoneSet == {i \in Instances \ Free : Done(i)}
<1>1. /\ IsFiniteSet(Threads) /\ IsFiniteSet(Clients) /\ None \notin Instances
      /\ thread \in [Threads -> ThreadState] /\ breaks \in Nat
      /\ status \in [Instances -> {"free", "PROCESS", "FINISH"}]
    BY CallDataAssumption DEF CallInv, OwnerInv, TypeOK
<1>2. IsFiniteSet(ReadySet) /\ Cardinality(ReadySet) <= Cardinality(Threads)
    <2>1. Cardinality(ReadySet) \in Nat /\ Cardinality(Starting) \in Nat
        BY FiniteCounts, FS_CardinalityType
    <2> QED
        BY <2>1, FiniteCounts DEF SlotInv
<1>3. IsFiniteSet(HeldSet) /\ Cardinality(HeldSet) <= Cardinality(Threads)
    <2> DEFINE f == [t \in H |-> thread[t].inst]
    <2>1. \A t \in H : thread[t].inst \in HeldSet
        BY <1>1 DEF ThreadState, Held
    <2>2. f \in [H -> HeldSet]
        BY <2>1
    <2>3. \A x, y \in H : f[x] = f[y] => x = y
        BY DEF CallInv, OwnerInv, HeldOnce
    <2>4. \A z \in HeldSet : \E x \in H : f[x] = z
        BY <1>1 DEF Held
    <2>5. H \subseteq Threads
        OBVIOUS
    <2> HIDE DEF f, H, HeldSet
    <2>6. IsFiniteSet(H) /\ Cardinality(H) <= Cardinality(Threads)
        BY <1>1, <2>5, FS_Subset
    <2> QED
        BY <2>2, <2>3, <2>4, <2>6, NamesCount
<1>4. IsFiniteSet(DoneSet) /\ Cardinality(DoneSet) <= Cardinality(Clients) + breaks
    <2> DEFINE f == [i \in DoneSet |-> bound[i]]
               Owners == Clients \cup (1 .. breaks)
    <2>1. ASSUME NEW i \in DoneSet PROVE bound[i] \in Owners /\ bound[i] # None
        <3>1. i \in Instances \ Free /\ status[i] = "FINISH"
            BY DEF Done
        <3>2. i \notin queued_tags \cup registered
            BY <3>1 DEF CallInv, Unbound
        <3>3. \A t \in Threads : thread[t].fresh # i
            BY <1>1, <3>1 DEF CallInv, Unbound
        <3>4. bound[i] # None
            BY <3>1, <3>2, <3>3 DEF CountInv, Placed
        <3> QED
            BY <3>1, <3>4 DEF CallInv, OwnerInv, TypeOK
    <2>2. f \in [DoneSet -> Owners]
        BY <2>1
    <2>3. \A x, y \in DoneSet : f[x] = f[y] => x = y
        BY <2>1 DEF CountInv, Successive
    <2>4. IsFiniteSet(Owners) /\ Cardinality(Owners) <= Cardinality(Clients) + breaks
        <3>1. breaks \in Nat
            BY <1>1
        <3>2. IsFiniteSet(1 .. breaks) /\ Cardinality(1 .. breaks) = breaks
            BY <3>1, FS_Interval
        <3>3. /\ IsFiniteSet(Owners)
              /\ Cardinality(Owners) = Cardinality(Clients) + Cardinality(1 .. breaks)
                                         - Cardinality(Clients \cap (1 .. breaks))
            BY <1>1, <3>2, FS_Union
        <3>4. Cardinality(Clients \cap (1 .. breaks)) \in Nat /\ Cardinality(Clients) \in Nat
            BY <1>1, FS_Intersection, FS_CardinalityType
        <3> HIDE DEF Owners
        <3> QED
            BY <3>1, <3>2, <3>3, <3>4
    <2> HIDE DEF f, DoneSet, Owners
    <2>5. f \in Injection(DoneSet, Owners)
        BY <2>2, <2>3 DEF Injection, IsInjective
    <2>6. IsFiniteSet(DoneSet) /\ Cardinality(DoneSet) <= Cardinality(Owners)
        BY <2>4, <2>5, FS_Injection
    <2>7. /\ Cardinality(DoneSet) \in Nat /\ Cardinality(Owners) \in Nat
          /\ Cardinality(Clients) \in Nat /\ breaks \in Nat
        BY <1>1, <2>4, <2>6, FS_CardinalityType
    <2> QED
        BY <2>4, <2>6, <2>7
<1>5. Instances \ Free \subseteq ReadySet \cup HeldSet \cup DoneSet
    BY <1>1 DEF CountInv, Placed, ReadySet, Done, Free
<1> DEFINE S == ReadySet \cup HeldSet
<1> HIDE DEF HeldSet, DoneSet
<1>6. IsFiniteSet(S) /\ Cardinality(S) <= 2 * Cardinality(Threads)
    <2>1. /\ IsFiniteSet(S)
          /\ Cardinality(S) = Cardinality(ReadySet) + Cardinality(HeldSet)
                              - Cardinality(ReadySet \cap HeldSet)
        BY <1>2, <1>3, FS_Union
    <2>2. IsFiniteSet(ReadySet \cap HeldSet)
        BY <1>2, FS_Intersection
    <2>3. /\ Cardinality(ReadySet) \in Nat /\ Cardinality(HeldSet) \in Nat
          /\ Cardinality(ReadySet \cap HeldSet) \in Nat /\ Cardinality(Threads) \in Nat
        BY <1>1, <1>2, <1>3, <2>2, FS_CardinalityType
    <2> QED
        BY <1>2, <1>3, <2>1, <2>3
<1> HIDE DEF S
<1>7. /\ IsFiniteSet(S \cup DoneSet)
      /\ Cardinality(S \cup DoneSet) <= 2 * Cardinality(Threads) + Cardinality(Clients) + breaks
    <2>1. /\ IsFiniteSet(S \cup DoneSet)
          /\ Cardinality(S \cup DoneSet) = Cardinality(S) + Cardinality(DoneSet)
                                           - Cardinality(S \cap DoneSet)
        BY <1>4, <1>6, FS_Union
    <2>2. IsFiniteSet(S \cap DoneSet)
        BY <1>6, FS_Intersection
    <2>3. /\ Cardinality(S) \in Nat /\ Cardinality(DoneSet) \in Nat
          /\ Cardinality(S \cap DoneSet) \in Nat
          /\ Cardinality(Threads) \in Nat /\ Cardinality(Clients) \in Nat
        BY <1>1, <1>4, <1>6, <2>2, FS_CardinalityType
    <2> QED
        BY <1>1, <1>4, <1>6, <2>1, <2>3
<1>8. /\ Cardinality(Instances \ Free) <= Cardinality(S \cup DoneSet)
      /\ IsFiniteSet(Instances \ Free)
    BY <1>5, <1>7, FS_Subset DEF S
<1>9. /\ Cardinality(Instances \ Free) \in Nat /\ Cardinality(S \cup DoneSet) \in Nat
      /\ Cardinality(Threads) \in Nat /\ Cardinality(Clients) \in Nat
    BY <1>1, <1>7, <1>8, FS_CardinalityType
<1> QED
    BY <1>1, <1>7, <1>8, <1>9 DEF InstancesBounded

(* There are never more than two instances per worker, one per client and  *)
(* one for every accepted call that was cut off: calls that are answered   *)
(* leave none behind, however often the same clients call, are cut off and *)
(* call again, and a call that is cut off leaves one at most. That the     *)
(* cut off calls are in the bound is the code's leak.                      *)
THEOREM InstancesStayFew == Spec => []InstancesBounded
BY SlotInvariant, CountInvInit, CountInductive, CountsBound, PTL DEF Spec
=============================================================================
