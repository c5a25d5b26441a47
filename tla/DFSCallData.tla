---------------------------- MODULE DFSCallData ----------------------------
(***************************************************************************)
(* The asynchronous half of the Part 2 server: how CallbackList calls are  *)
(* accepted, processed and answered by DFSCallData instances that travel   *)
(* between num_async_threads worker threads (HandleAsyncRPC), the list of  *)
(* queued tags, the queue thread (ProcessQueuedRequests), gRPC and the     *)
(* completion queue.  An instance's address is its tag; instances are      *)
(* allocated from a bounded pool and their addresses are used again after  *)
(* a delete, as an allocator does.  Connections break and clients call     *)
(* again; what an instance then serves is not its client any more but a    *)
(* call that was cut off.                                                  *)
(***************************************************************************)
EXTENDS Integers, Sequences, FiniteSets

CONSTANTS Threads,     \* the worker threads
          Instances,   \* addresses DFSCallData instances can have: a bound
          Malloc(_),   \* the address the allocator picks among the free ones
          Clients,     \* the mounted clients, each with one call at a time
          MaxBreaks,   \* how many accepted calls may be cut off: a bound
          None

ASSUME CallDataAssumption ==
    /\ IsFiniteSet(Threads) /\ IsFiniteSet(Instances) /\ IsFiniteSet(Clients)
    /\ MaxBreaks \in Nat
    /\ \A S \in SUBSET Instances : S # {} => Malloc(S) \in S
    /\ None \notin Instances \cup Clients \cup Nat
    /\ Clients \cap Nat = {}

VARIABLES status,       \* status[i]: CallStatus of the instance, or "free"
          bound,        \* bound[i]: the client whose call the instance took,
                        \* or the number of the cut off call it had taken
          queued_tags,  \* instances the queue thread has yet to register
          queue_mutex,  \* whether the queue thread is in its guarded section
          registered,   \* instances gRPC may give the next call to
          sending,      \* instances whose reply gRPC is sending
          cq,           \* the completion queue
          thread,       \* thread[t]: where the worker is, and with what
          client,       \* client[c]: the state of its CallbackList call
          breaks        \* the accepted calls that were cut off so far

vars == <<status, bound, queued_tags, queue_mutex, registered, sending, cq,
          thread, client, breaks>>

Event == [tag : Instances, ok : BOOLEAN]

(* inst: the instance a worker calls Proceed on; fresh: the one it just    *)
(* constructed.                                                            *)
ThreadState == [pc : {"begin", "enqueue", "next", "proceed", "callback", "reply"},
                inst : Instances \cup {None}, fresh : Instances \cup {None}]

Free == {i \in Instances : status[i] = "free"}

At(t, pc) == thread[t].pc = pc

Init ==
    /\ status = [i \in Instances |-> "free"]
    /\ bound = [i \in Instances |-> None]
    /\ queued_tags = {}
    /\ queue_mutex = FALSE
    /\ registered = {}
    /\ sending = {}
    /\ cq = <<>>
    /\ thread = [t \in Threads |-> [pc |-> "begin", inst |-> None, fresh |-> None]]
    /\ client = [c \in Clients |-> "idle"]
    /\ breaks = 0

----------------------------------------------------------------------------
(* The worker threads.                                                     *)

(* The constructor calls Proceed at once, in state CREATE: the instance is *)
(* in state PROCESS before it is queued.                                   *)
Construct(t) ==
    LET i == Malloc(Free) IN
    /\ Free # {}
    /\ status' = [status EXCEPT ![i] = "PROCESS"]
    /\ thread' = [thread EXCEPT ![t] = [@ EXCEPT !.pc = "enqueue", !.fresh = i]]

(* HandleAsyncRPC starts with an instance of its own.                      *)
Begin(t) ==
    /\ At(t, "begin")
    /\ Construct(t)
    /\ UNCHANGED <<bound, queued_tags, queue_mutex, registered, sending, cq, client,
                   breaks>>

(* RequestCallback, under queue_mutex.                                     *)
Enqueue(t) ==
    /\ At(t, "enqueue")
    /\ ~queue_mutex
    /\ queued_tags' = queued_tags \cup {thread[t].fresh}
    /\ thread' = [thread EXCEPT ![t] =
                    [@ EXCEPT !.pc = IF thread[t].inst = None THEN "next" ELSE "callback",
                              !.fresh = None]]
    /\ UNCHANGED <<status, bound, queue_mutex, registered, sending, cq, client,
                   breaks>>

(* cq->Next: an event that is not ok is logged and forgotten.              *)
GetEvent(t) ==
    /\ At(t, "next")
    /\ cq # <<>>
    /\ cq' = Tail(cq)
    /\ thread' = IF Head(cq).ok
                 THEN [thread EXCEPT ![t] = [@ EXCEPT !.pc = "proceed", !.inst = Head(cq).tag]]
                 ELSE thread
    /\ UNCHANGED <<status, bound, queued_tags, queue_mutex, registered, sending, client,
                   breaks>>

(* Faulty variant: Proceed answers without a successor for the instance.   *)
ProceedAlone(t) ==
    /\ At(t, "proceed")
    /\ status[thread[t].inst] = "PROCESS"
    /\ thread' = [thread EXCEPT ![t].pc = "callback"]
    /\ UNCHANGED <<status, bound, queued_tags, queue_mutex, registered, sending, cq,
                   client, breaks>>

(* Proceed in state PROCESS: first a new instance takes this one's place.  *)
ProceedProcess(t) ==
    /\ At(t, "proceed")
    /\ status[thread[t].inst] = "PROCESS"
    /\ Construct(t)
    /\ UNCHANGED <<bound, queued_tags, queue_mutex, registered, sending, cq, client,
                   breaks>>

(* Faulty variants: the instance is made ready for another call; or the    *)
(* state stays PROCESS.                                                    *)
ProceedCallbackRestarts(t) ==
    /\ At(t, "callback")
    /\ status' = [status EXCEPT ![thread[t].inst] = "CREATE"]
    /\ thread' = [thread EXCEPT ![t].pc = "reply"]
    /\ UNCHANGED <<bound, queued_tags, queue_mutex, registered, sending, cq, client,
                   breaks>>

ProceedCallbackStays(t) ==
    /\ At(t, "callback")
    /\ thread' = [thread EXCEPT ![t].pc = "reply"]
    /\ UNCHANGED <<status, bound, queued_tags, queue_mutex, registered, sending, cq,
                   client, breaks>>

(* ProcessCallback composes the listing; only then is the state FINISH.    *)
ProceedCallback(t) ==
    /\ At(t, "callback")
    /\ status' = [status EXCEPT ![thread[t].inst] = "FINISH"]
    /\ thread' = [thread EXCEPT ![t].pc = "reply"]
    /\ UNCHANGED <<bound, queued_tags, queue_mutex, registered, sending, cq, client,
                   breaks>>

(* Faulty variant: the worker forgets to send the reply.                   *)
ProceedReplySilent(t) ==
    /\ At(t, "reply")
    /\ thread' = [thread EXCEPT ![t] = [@ EXCEPT !.pc = "next", !.inst = None]]
    /\ UNCHANGED <<status, bound, queued_tags, queue_mutex, registered, sending, cq,
                   client, breaks>>

(* responder.Finish.                                                       *)
ProceedReply(t) ==
    /\ At(t, "reply")
    /\ sending' = sending \cup {thread[t].inst}
    /\ thread' = [thread EXCEPT ![t] = [@ EXCEPT !.pc = "next", !.inst = None]]
    /\ UNCHANGED <<status, bound, queued_tags, queue_mutex, registered, cq, client,
                   breaks>>

(* Faulty variant: a finished instance is forgotten, not deleted.          *)
ProceedFinishLeaks(t) ==
    /\ At(t, "proceed")
    /\ status[thread[t].inst] = "FINISH"
    /\ thread' = [thread EXCEPT ![t] = [@ EXCEPT !.pc = "next", !.inst = None]]
    /\ UNCHANGED <<status, bound, queued_tags, queue_mutex, registered, sending, cq,
                   client, breaks>>

(* Proceed in state FINISH: delete this.                                   *)
ProceedFinish(t) ==
    LET i == thread[t].inst IN
    /\ At(t, "proceed")
    /\ status[i] = "FINISH"
    /\ status' = [status EXCEPT ![i] = "free"]
    /\ bound' = [bound EXCEPT ![i] = None]
    /\ thread' = [thread EXCEPT ![t] = [@ EXCEPT !.pc = "next", !.inst = None]]
    /\ UNCHANGED <<queued_tags, queue_mutex, registered, sending, cq, client,
                   breaks>>

Work(t) ==
    \/ Begin(t) \/ GetEvent(t)
    \/ ProceedProcess(t) \/ ProceedCallback(t) \/ ProceedReply(t) \/ ProceedFinish(t)

----------------------------------------------------------------------------
(* The queue thread: it spins on queue_mutex, registers every queued tag   *)
(* with gRPC and removes the tags it has registered.                       *)
LockQueue ==
    /\ ~queue_mutex
    /\ queue_mutex' = TRUE
    /\ UNCHANGED <<status, bound, queued_tags, registered, sending, cq, thread, client,
                   breaks>>

(* Faulty variant: the registered tags stay in the list.                   *)
ProcessQueueKeepsTags ==
    /\ queue_mutex
    /\ registered' = registered \cup queued_tags
    /\ queue_mutex' = FALSE
    /\ UNCHANGED <<status, bound, queued_tags, sending, cq, thread, client,
                   breaks>>

ProcessQueue ==
    /\ queue_mutex
    /\ registered' = registered \cup queued_tags
    /\ queued_tags' = {}
    /\ queue_mutex' = FALSE
    /\ UNCHANGED <<status, bound, sending, cq, thread, client,
                   breaks>>

----------------------------------------------------------------------------
(* gRPC and the clients.                                                   *)

(* A mounted client asks for the listing, again after every answer and, 3  *)
(* seconds later, after every call that failed.                            *)
Call(c) ==
    /\ client[c] = "idle"
    /\ client' = [client EXCEPT ![c] = "waiting"]
    /\ UNCHANGED <<status, bound, queued_tags, queue_mutex, registered, sending, cq,
                   thread, breaks>>

(* The connection of a client breaks during its call, or its process ends. *)
(* The client is idle: it may call again, and a client that never does is  *)
(* one whose process ended. gRPC removes a call that still waits; the      *)
(* instance that took a call does not notice, and serves nobody's now.     *)
Disconnect(c) ==
    /\ \/ /\ client[c] = "waiting"
          /\ UNCHANGED <<bound, breaks>>
       \/ /\ client[c] = "served"
          /\ breaks < MaxBreaks
          /\ breaks' = breaks + 1
          /\ bound' = [i \in Instances |-> IF bound[i] = c THEN breaks + 1 ELSE bound[i]]
    /\ client' = [client EXCEPT ![c] = "idle"]
    /\ UNCHANGED <<status, queued_tags, queue_mutex, registered, sending, cq, thread>>

(* gRPC gives a waiting call to a registered instance.                     *)
Accept(i, c) ==
    /\ i \in registered
    /\ client[c] = "waiting"
    /\ registered' = registered \ {i}
    /\ bound' = [bound EXCEPT ![i] = c]
    /\ client' = [client EXCEPT ![c] = "served"]
    /\ cq' = Append(cq, [tag |-> i, ok |-> TRUE])
    /\ UNCHANGED <<status, queued_tags, queue_mutex, sending, thread, breaks>>

(* The reply is on its way to the client, or could not be sent, which can  *)
(* only be when the call was cut off.                                      *)
Sent(i) ==
    /\ i \in sending
    /\ sending' = sending \ {i}
    /\ \E ok \in BOOLEAN :
          /\ bound[i] \in Clients => ok
          /\ cq' = Append(cq, [tag |-> i, ok |-> ok])
    /\ client' = [c \in Clients |-> IF c = bound[i] THEN "idle" ELSE client[c]]
    /\ UNCHANGED <<status, bound, queued_tags, queue_mutex, registered, thread, breaks>>

Deliver == (\E i \in Instances, c \in Clients : Accept(i, c)) \/ \E i \in Instances : Sent(i)

Next ==
    \/ \E t \in Threads : Work(t) \/ Enqueue(t)
    \/ LockQueue \/ ProcessQueue
    \/ \E c \in Clients : Call(c) \/ Disconnect(c)
    \/ Deliver

Spec == Init /\ [][Next]_vars

(* Threads run, gRPC delivers. The queue thread takes queue_mutex over and *)
(* over without a pause; that a worker gets it at all between two rounds   *)
(* is the mutex's fairness, which is why Enqueue's is strong. gRPC matches *)
(* waiting calls in their order of arrival, so a call cannot be passed     *)
(* over for ever: Accept's is strong, too. No client has to call, and no   *)
(* connection to break.                                                    *)
Fairness ==
    /\ \A t \in Threads : WF_vars(Work(t)) /\ SF_vars(Enqueue(t))
    /\ WF_vars(LockQueue) /\ WF_vars(ProcessQueue)
    /\ \A c \in Clients : SF_vars(\E i \in Instances : Accept(i, c))
    /\ \A i \in Instances : WF_vars(Sent(i))

FairSpec == Spec /\ Fairness

----------------------------------------------------------------------------
(* Properties.                                                             *)

(* Every variable has its type.                                            *)
TypeOK ==
    /\ status \in [Instances -> {"free", "PROCESS", "FINISH"}]
    /\ breaks \in 0 .. MaxBreaks
    /\ bound \in [Instances -> Clients \cup (1 .. breaks) \cup {None}]
    /\ queued_tags \subseteq Instances
    /\ queue_mutex \in BOOLEAN
    /\ registered \subseteq Instances
    /\ sending \subseteq Instances
    /\ cq \in Seq(Event)
    /\ thread \in [Threads -> ThreadState]
    /\ client \in [Clients -> {"idle", "waiting", "served"}]

(* The places a tag can be in: how many refer to instance i.               *)
Places(i) ==
      (IF i \in queued_tags THEN 1 ELSE 0)
    + (IF i \in registered THEN 1 ELSE 0)
    + (IF i \in sending THEN 1 ELSE 0)
    + Cardinality({n \in 1 .. Len(cq) : cq[n].tag = i})
    + Cardinality({t \in Threads : thread[t].inst = i})
    + Cardinality({t \in Threads : thread[t].fresh = i})

(* An instance is in the hands of one thread, queue or gRPC operation at   *)
(* most, and of none once it is deleted: no two threads run Proceed on it  *)
(* at once, and nothing refers to freed memory.                            *)
OneOwner ==
    \A i \in Instances : Places(i) <= 1 /\ (i \in Free => Places(i) = 0)

(* The server keeps as many instances ready for a call as it has threads,  *)
(* counting one for a worker that has yet to construct it: whatever        *)
(* happens to the calls, the capacity to accept does not shrink or grow.   *)
SlotsConserved ==
      Cardinality(queued_tags \cup registered)
    + Cardinality({t \in Threads : thread[t].fresh # None})
    + Cardinality({t \in Threads : At(t, "begin")})
    + Cardinality({n \in 1 .. Len(cq) : cq[n].ok /\ status[cq[n].tag] = "PROCESS"})
    + Cardinality({t \in Threads : At(t, "proceed") /\ status[thread[t].inst] = "PROCESS"})
    = Cardinality(Threads)

(* A call that gRPC has accepted is in the care of exactly one instance    *)
(* that will still answer it.                                              *)
ServedHasOneHandler ==
    \A c \in Clients : client[c] = "served" =>
        \E i \in Instances :
            /\ bound[i] = c
            /\ \/ status[i] = "PROCESS"
               \/ i \in sending
               \/ \E t \in Threads : At(t, "reply") /\ thread[t].inst = i
            /\ \A j \in Instances \ {i} : bound[j] = c => status[j] = "FINISH" /\ j \notin sending

(* The instances in use are one ready or in construction per thread, one   *)
(* that a thread is working on, one per client whose answer was sent and   *)
(* which no thread has taken up again to delete, and at most one for every *)
(* call that was cut off: its event may be dropped, and the instance with  *)
(* it. Nothing limits these over the server's life; but calls that are     *)
(* answered leave nothing behind, and one that is cut off not more.        *)
InstancesBounded ==
    Cardinality(Instances \ Free) <= 2 * Cardinality(Threads) + Cardinality(Clients) + breaks

(* Every CallbackList call is answered, or cut off; the instances that cut *)
(* off calls leave behind do not keep the others from being answered.      *)
CallsAnswered ==
    \A c \in Clients : client[c] = "waiting" ~> client[c] = "idle"
=============================================================================
