------------------------------ MODULE WorkQueue ------------------------------
(***************************************************************************)
(* The thread pool of server/server.c: the accept loop of main puts each   *)
(* connection into a circular buffer, the worker threads take them out and *)
(* serve one connection each until it ends.  A mutex guards the buffer and *)
(* a condition variable wakes one waiting worker per connection.           *)
(*                                                                         *)
(* Every critical section runs under wq.lock from beginning to end (or to  *)
(* pthread_cond_wait), so each is one step.  A waiting worker comes back   *)
(* when it was signalled or, as POSIX allows, for no reason; it then waits *)
(* for the mutex again and looks at the count again.                       *)
(***************************************************************************)
EXTENDS Integers, FiniteSets

CONSTANTS
  Fds,                \* the descriptors accept() can return, none of them 0
  Workers,            \* the worker threads; THREAD_POOL_SIZE in number
  Size,               \* WORK_QUEUE_SIZE
  NoFd

ASSUME WorkQueueAssumption ==
  /\ Size \in Nat \ {0}
  /\ NoFd \notin Fds
  /\ IsFiniteSet(Workers)

VARIABLES
  fds, front, rear, count,     \* the fields of wq
  pc,                 \* "lock", "waiting" or "serving", per worker
  serving             \* the client_fd of each worker in handle_client

vars == <<fds, front, rear, count, pc, serving>>

TypeOK ==
  /\ fds \in [0..(Size - 1) -> Fds \cup {NoFd}]
  /\ front \in 0..(Size - 1)
  /\ rear \in 0..(Size - 1)
  /\ count \in 0..Size
  /\ pc \in [Workers -> {"lock", "waiting", "serving"}]
  /\ serving \in [Workers -> Fds \cup {NoFd}]

Init ==
  /\ fds = [i \in 0..(Size - 1) |-> NoFd]
  /\ front = 0 /\ rear = 0 /\ count = 0
  /\ pc = [w \in Workers |-> "lock"]
  /\ serving = [w \in Workers |-> NoFd]

\* The buffer index of the i-th waiting connection, counted from 0.
Slot(i) == (front + i) % Size

\* Descriptors that are open: in the buffer or being served.
InUse ==
  {fds[Slot(i)] : i \in 0..(count - 1)} \cup {serving[w] : w \in Workers}

Waiting == {w \in Workers : pc[w] = "waiting"}

-----------------------------------------------------------------------------
(* enqueue_client *)

\* pthread_cond_signal wakes one waiting worker, if there is one.
Signal ==
  IF Waiting = {} THEN UNCHANGED pc
  ELSE \E w \in Waiting : pc' = [pc EXCEPT ![w] = "lock"]

\* Mutant: only the first connection into an empty buffer is signalled.
EnqueueSignalsIfEmpty ==
  /\ count < Size
  /\ \E fd \in Fds \ InUse : fds' = [fds EXCEPT ![rear] = fd]
  /\ rear' = (rear + 1) % Size
  /\ count' = count + 1
  /\ IF count = 0 THEN Signal ELSE UNCHANGED pc
  /\ UNCHANGED <<front, serving>>

\* Mutant: nobody is signalled.
EnqueueUnsignalled ==
  /\ count < Size
  /\ \E fd \in Fds \ InUse : fds' = [fds EXCEPT ![rear] = fd]
  /\ rear' = (rear + 1) % Size
  /\ count' = count + 1
  /\ UNCHANGED <<front, pc, serving>>

\* Mutant: the full buffer is noticed one connection too late.
EnqueueOffByOne ==
  /\ count <= Size
  /\ \E fd \in Fds \ InUse : fds' = [fds EXCEPT ![rear] = fd]
  /\ rear' = (rear + 1) % Size
  /\ count' = count + 1
  /\ Signal
  /\ UNCHANGED <<front, serving>>

\* accept() returned a descriptor and there is room.  When the buffer is
\* full the connection is closed at once, which changes nothing here.
Enqueue ==
  /\ count < Size
  /\ \E fd \in Fds \ InUse : fds' = [fds EXCEPT ![rear] = fd]
  /\ rear' = (rear + 1) % Size
  /\ count' = count + 1
  /\ Signal
  /\ UNCHANGED <<front, serving>>

-----------------------------------------------------------------------------
(* dequeue_client and worker_thread *)

\* The worker has the mutex and finds the buffer empty.
Wait(w) ==
  /\ pc[w] = "lock"
  /\ count = 0
  /\ pc' = [pc EXCEPT ![w] = "waiting"]
  /\ UNCHANGED <<fds, front, rear, count, serving>>

\* pthread_cond_wait returns without a signal.
WakeSpuriously(w) ==
  /\ pc[w] = "waiting"
  /\ pc' = [pc EXCEPT ![w] = "lock"]
  /\ UNCHANGED <<fds, front, rear, count, serving>>

\* Mutant: the newest connection is taken instead of the oldest.
DequeueNewest(w) ==
  /\ pc[w] = "lock"
  /\ count > 0
  /\ serving' = [serving EXCEPT ![w] = fds[Slot(count - 1)]]
  /\ rear' = Slot(count - 1)
  /\ count' = count - 1
  /\ pc' = [pc EXCEPT ![w] = "serving"]
  /\ UNCHANGED <<fds, front>>

\* The worker has the mutex and takes the oldest connection.
Dequeue(w) ==
  /\ pc[w] = "lock"
  /\ count > 0
  /\ serving' = [serving EXCEPT ![w] = fds[front]]
  /\ front' = (front + 1) % Size
  /\ count' = count - 1
  /\ pc' = [pc EXCEPT ![w] = "serving"]
  /\ UNCHANGED <<fds, rear>>

\* handle_client returns: the client left or logged out, the descriptor is
\* closed and may be used again.
EndService(w) ==
  /\ pc[w] = "serving"
  /\ serving' = [serving EXCEPT ![w] = NoFd]
  /\ pc' = [pc EXCEPT ![w] = "lock"]
  /\ UNCHANGED <<fds, front, rear, count>>

-----------------------------------------------------------------------------
Next ==
  \/ Enqueue
  \/ \E w \in Workers :
       Wait(w) \/ WakeSpuriously(w) \/ Dequeue(w) \/ EndService(w)

Spec == Init /\ [][Next]_vars

\* A worker that is not waiting gets the mutex in the end; a client may stay
\* connected for ever.
WorkersRun == \A w \in Workers : WF_vars(Wait(w) \/ Dequeue(w))

WorkerSpec == Spec /\ WorkersRun

-----------------------------------------------------------------------------
(* Properties *)

\* No connection waits in the buffer while workers sleep with nobody woken
\* to take it: every signal that mattered reached a worker.
NoLostWakeup ==
  Waiting # {} => count <= Cardinality({w \in Workers : pc[w] = "lock"})

\* First come, first served: the ring implements ConnectionQueue.
Queue ==
  INSTANCE ConnectionQueue
    WITH queue <- [i \in 1..count |-> fds[Slot(i - 1)]], Capacity <- Size
ServedInOrder == Queue!QueueSpec

Queued(fd) == \E i \in 0..(count - 1) : fds[Slot(i)] = fd
Served(fd) == \E w \in Workers : serving[w] = fd

\* Every accepted connection is served, as long as clients leave in the end.
ClientsLeave == \A w \in Workers : WF_vars(EndService(w))
EveryoneServed == ClientsLeave => \A fd \in Fds : Queued(fd) ~> Served(fd)
=============================================================================
