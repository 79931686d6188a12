-------------------------- MODULE WorkQueueProofs --------------------------
(***************************************************************************)
(* Proofs about how a connection is served.  First the thread pool that    *)
(* takes it, for every number of workers and every buffer size: no wakeup  *)
(* is lost, and the ring buffer implements the first-come-first-served     *)
(* queue of ConnectionQueue.  Then what the client and the worker that     *)
(* serves it say to each other, for every answer size, buffer size and     *)
(* number of requests and notices: the lock protocol of the client's two   *)
(* threads, the framing of the stream, and that a request is never left    *)
(* without an answer under way.                                            *)
(***************************************************************************)
EXTENDS WorkQueue, Wire, SequenceTheorems, FiniteSetTheorems, TLAPS

USE WorkQueueAssumption

-----------------------------------------------------------------------------
(* The ring                                                                *)

\* The index after the last wraps around to the first: below twice the
\* modulus, a remainder is one subtraction.
LEMMA WrapAround ==
  ASSUME NEW x \in Nat, x < 2 * Size
  PROVE  x % Size = IF x < Size THEN x ELSE x - Size
OBVIOUS

LEMMA SlotIs ==
  ASSUME front \in 0..(Size - 1), NEW i \in 0..Size
  PROVE  /\ Slot(i) = IF front + i < Size THEN front + i ELSE front + i - Size
         /\ Slot(i) \in 0..(Size - 1)
BY WrapAround DEF Slot

\* rear is where the next connection goes, and what is between front and
\* rear are connections; a worker has a connection exactly while it serves.
RingInv ==
  /\ rear = Slot(count)
  /\ \A i \in 0..(count - 1) : fds[Slot(i)] \in Fds
  /\ \A w \in Workers : IF pc[w] = "serving" THEN serving[w] \in Fds
                                             ELSE serving[w] = NoFd

PoolInv == TypeOK /\ RingInv /\ NoLostWakeup

Locking == {w \in Workers : pc[w] = "lock"}

LEMMA InitPool == Init => PoolInv
<1> SUFFICES ASSUME Init PROVE PoolInv
  OBVIOUS
<1>1. TypeOK
  BY DEF Init, TypeOK
<1>2. RingInv
  <2>1. Slot(0) = 0
    BY SlotIs DEF Init
  <2> QED
    BY <2>1 DEF Init, RingInv
<1>3. NoLostWakeup
  BY DEF Init, NoLostWakeup, Waiting
<1> QED
  BY <1>1, <1>2, <1>3 DEF PoolInv

\* What an accepted connection does to the ring: it joins behind the others.
LEMMA EnqueueRing ==
  ASSUME TypeOK, RingInv, Enqueue
  PROVE  \E fd \in Fds \ InUse :
           /\ count < Size /\ count' = count + 1
           /\ front' = front /\ rear' = Slot(count + 1)
           /\ fds' = [fds EXCEPT ![Slot(count)] = fd]
           /\ Slot(count) \in 0..(Size - 1)
           /\ fds'[Slot(count)] = fd
           /\ \A i \in 0..(count - 1) : fds'[Slot(i)] = fds[Slot(i)]
<1>1. PICK fd \in Fds \ InUse : fds' = [fds EXCEPT ![rear] = fd]
  BY DEF Enqueue
<1>2. /\ count < Size /\ count' = count + 1 /\ front' = front
      /\ rear' = (rear + 1) % Size
  BY DEF Enqueue
<1>3. rear = Slot(count) /\ front \in 0..(Size - 1) /\ count \in 0..Size
  BY DEF RingInv, TypeOK
<1>4. /\ Slot(count) = IF front + count < Size THEN front + count
                                              ELSE front + count - Size
      /\ Slot(count + 1) = IF front + (count + 1) < Size THEN front + (count + 1)
                                              ELSE front + (count + 1) - Size
      /\ Slot(count) \in 0..(Size - 1)
  BY <1>2, <1>3, SlotIs
<1>5. rear' = Slot(count + 1)
  <2>1. (rear + 1) % Size = IF rear + 1 < Size THEN rear + 1 ELSE rear + 1 - Size
    BY <1>3, <1>4, WrapAround
  <2> QED
    BY <1>2, <1>3, <1>4, <2>1
<1>6. fds'[Slot(count)] = fd
  BY <1>1, <1>3, <1>4 DEF TypeOK
<1>7. ASSUME NEW i \in 0..(count - 1) PROVE fds'[Slot(i)] = fds[Slot(i)]
  <2>1. /\ Slot(i) = IF front + i < Size THEN front + i ELSE front + i - Size
        /\ Slot(i) \in 0..(Size - 1)
    BY <1>3, SlotIs
  <2>2. Slot(i) # Slot(count)
    BY <1>2, <1>3, <1>4, <2>1
  <2> QED
    BY <1>1, <1>3, <2>1, <2>2 DEF TypeOK
<1> QED
  BY <1>1, <1>2, <1>3, <1>4, <1>5, <1>6, <1>7

\* A worker takes what is in front; the others move up by one.
LEMMA DequeueRing ==
  ASSUME TypeOK, NEW w \in Workers, Dequeue(w)
  PROVE  /\ Slot(0) = front
         /\ \A i \in 0..(count - 1) : Slot(i)' = Slot(i + 1)
<1>1. /\ front \in 0..(Size - 1) /\ count \in 0..Size /\ count > 0
      /\ front' = (front + 1) % Size
  BY DEF TypeOK, Dequeue
<1>2. Slot(0) = front
  BY <1>1, SlotIs
<1>3. ASSUME NEW i \in 0..(count - 1) PROVE Slot(i)' = Slot(i + 1)
  <2>1. front' = IF front + 1 < Size THEN front + 1 ELSE front + 1 - Size
    BY <1>1, WrapAround
  <2>2. (front' + i) % Size = IF front' + i < Size THEN front' + i ELSE front' + i - Size
    BY <1>1, <2>1, WrapAround
  <2>3. Slot(i + 1) = IF front + (i + 1) < Size THEN front + (i + 1)
                                                 ELSE front + (i + 1) - Size
    BY <1>1, SlotIs
  <2>4. Slot(i)' = (front' + i) % Size
    BY DEF Slot
  <2> QED
    BY <1>1, <2>1, <2>2, <2>3, <2>4
<1> QED
  BY <1>2, <1>3

-----------------------------------------------------------------------------
(* Wakeups                                                                 *)

\* One worker more or less at the mutex.
LEMMA OneMore ==
  ASSUME TypeOK, NEW w \in Workers, pc[w] # "lock", pc' = [pc EXCEPT ![w] = "lock"]
  PROVE  /\ Cardinality(Locking)' = Cardinality(Locking) + 1
         /\ Cardinality(Locking) \in Nat
<1>1. IsFiniteSet(Locking)
  BY FS_Subset DEF Locking
<1>2. Locking' = Locking \cup {w} /\ w \notin Locking
  BY DEF Locking, TypeOK
<1> QED
  BY <1>1, <1>2, FS_AddElement, FS_CardinalityType

LEMMA OneLess ==
  ASSUME TypeOK, NEW w \in Workers, pc[w] = "lock",
         NEW label \in {"waiting", "serving"}, pc' = [pc EXCEPT ![w] = label]
  PROVE  /\ Cardinality(Locking)' = Cardinality(Locking) - 1
         /\ Cardinality(Locking) \in Nat /\ Cardinality(Locking)' \in Nat
<1>1. IsFiniteSet(Locking) /\ IsFiniteSet(Locking')
  BY FS_Subset DEF Locking
<1>2. Locking' = Locking \ {w} /\ w \in Locking
  BY DEF Locking, TypeOK
<1> QED
  BY <1>1, <1>2, FS_RemoveElement, FS_CardinalityType

LEMMA NextPool ==
  ASSUME PoolInv, Next
  PROVE  PoolInv'
<1>0. TypeOK /\ RingInv
  BY DEF PoolInv
<1>a. Waiting # {} => count <= Cardinality(Locking)
  BY DEF PoolInv, NoLostWakeup, Locking
<1>b. (Waiting' # {} => count' <= Cardinality(Locking)') => NoLostWakeup'
  BY DEF NoLostWakeup, Locking, Waiting
<1>c. count \in 0..Size
  BY <1>0 DEF TypeOK
<1>1. CASE Enqueue
  <2>1. PICK fd \in Fds \ InUse :
          /\ count < Size /\ count' = count + 1
          /\ front' = front /\ rear' = Slot(count + 1)
          /\ fds' = [fds EXCEPT ![Slot(count)] = fd]
          /\ Slot(count) \in 0..(Size - 1)
          /\ fds'[Slot(count)] = fd
          /\ \A i \in 0..(count - 1) : fds'[Slot(i)] = fds[Slot(i)]
    BY <1>0, <1>1, EnqueueRing
  <2>2. Signal /\ UNCHANGED serving
    BY <1>1 DEF Enqueue
  <2>3. /\ pc' \in [Workers -> {"lock", "waiting", "serving"}]
        /\ \A w \in Workers : pc'[w] = "serving" <=> pc[w] = "serving"
    BY <1>0, <2>2 DEF Signal, Waiting, TypeOK
  <2>4. TypeOK'
    <3>1. Slot(count + 1) \in 0..(Size - 1) /\ count + 1 \in 0..Size
      BY <1>0, <2>1, SlotIs DEF TypeOK
    <3>2. fds' \in [0..(Size - 1) -> Fds \cup {NoFd}]
      BY <1>0, <2>1 DEF TypeOK
    <3> QED
      BY <1>0, <2>1, <2>2, <2>3, <3>1, <3>2 DEF TypeOK
  <2>5. RingInv'
    <3>1. \A i : Slot(i)' = Slot(i)
      BY <2>1 DEF Slot
    <3>2. \A i \in 0..(count' - 1) : fds'[Slot(i)] \in Fds
      <4>1. \A i \in 0..(count' - 1) : i \in 0..(count - 1) \/ i = count
        BY <1>c, <2>1
      <4> QED
        BY <1>0, <2>1, <4>1 DEF RingInv
    <3>3. \A w \in Workers : IF pc'[w] = "serving" THEN serving'[w] \in Fds
                                                   ELSE serving'[w] = NoFd
      BY <1>0, <2>2, <2>3 DEF RingInv
    <3> QED
      BY <2>1, <3>1, <3>2, <3>3 DEF RingInv
  <2>6. NoLostWakeup'
    <3>1. CASE Waiting = {}
      <4>1. Waiting' = {}
        BY <2>2, <3>1 DEF Signal, Waiting
      <4> QED
        BY <1>b, <4>1
    <3>2. CASE Waiting # {}
      <4>1. PICK w \in Waiting : pc' = [pc EXCEPT ![w] = "lock"]
        BY <2>2, <3>2 DEF Signal
      <4>2. w \in Workers /\ pc[w] # "lock"
        BY DEF Waiting
      <4>3. /\ Cardinality(Locking)' = Cardinality(Locking) + 1
            /\ Cardinality(Locking) \in Nat
        BY <1>0, <4>1, <4>2, OneMore
      <4> QED
        BY <1>a, <1>b, <1>c, <2>1, <3>2, <4>3
    <3> QED
      BY <3>1, <3>2
  <2> QED
    BY <2>4, <2>5, <2>6 DEF PoolInv
<1>2. ASSUME NEW w \in Workers, Wait(w) \/ WakeSpuriously(w) \/ EndService(w)
      PROVE  PoolInv'
  <2>1. UNCHANGED <<fds, front, rear, count>>
    BY <1>2 DEF Wait, WakeSpuriously, EndService
  <2>2. /\ pc' \in [Workers -> {"lock", "waiting", "serving"}]
        /\ serving' \in [Workers -> Fds \cup {NoFd}]
        /\ \A v \in Workers : IF pc'[v] = "serving" THEN serving'[v] \in Fds
                                                    ELSE serving'[v] = NoFd
    BY <1>0, <1>2 DEF Wait, WakeSpuriously, EndService, TypeOK, RingInv
  <2>3. TypeOK'
    BY <1>0, <2>1, <2>2 DEF TypeOK
  <2>4. RingInv'
    <3>1. \A i : Slot(i)' = Slot(i)
      BY <2>1 DEF Slot
    <3> QED
      BY <1>0, <2>1, <2>2, <3>1 DEF RingInv
  <2>5. NoLostWakeup'
    <3>1. CASE Wait(w)
      <4>1. count' = 0
        BY <3>1 DEF Wait
      <4>2. Cardinality(Locking)' \in Nat
        BY <1>0, <3>1, OneLess DEF Wait
      <4> QED
        BY <1>b, <4>1, <4>2
    <3>2. CASE WakeSpuriously(w) \/ EndService(w)
      <4>1. pc[w] # "lock" /\ pc' = [pc EXCEPT ![w] = "lock"]
        BY <3>2 DEF WakeSpuriously, EndService
      <4>2. /\ Cardinality(Locking)' = Cardinality(Locking) + 1
            /\ Cardinality(Locking) \in Nat
        BY <1>0, <4>1, OneMore
      <4>3. Waiting' \subseteq Waiting
        BY <1>0, <4>1 DEF Waiting, TypeOK
      <4> QED
        BY <1>a, <1>b, <1>c, <2>1, <4>2, <4>3
    <3> QED
      BY <1>2, <3>1, <3>2
  <2> QED
    BY <2>3, <2>4, <2>5 DEF PoolInv
<1>3. ASSUME NEW w \in Workers, Dequeue(w) PROVE PoolInv'
  <2>1. /\ pc[w] = "lock" /\ count > 0 /\ count' = count - 1
        /\ serving' = [serving EXCEPT ![w] = fds[front]]
        /\ front' = (front + 1) % Size
        /\ pc' = [pc EXCEPT ![w] = "serving"] /\ UNCHANGED <<fds, rear>>
    BY <1>3 DEF Dequeue
  <2>2. Slot(0) = front /\ \A i \in 0..(count - 1) : Slot(i)' = Slot(i + 1)
    BY <1>0, <1>3, DequeueRing
  <2>3. fds[front] \in Fds
    BY <1>0, <1>c, <2>1, <2>2 DEF RingInv
  <2>4. TypeOK'
    <3>1. front' \in 0..(Size - 1)
      BY <1>0, <2>1, WrapAround DEF TypeOK
    <3>2. count' \in 0..Size
      BY <1>c, <2>1
    <3>3. /\ pc' \in [Workers -> {"lock", "waiting", "serving"}]
          /\ serving' \in [Workers -> Fds \cup {NoFd}]
      BY <1>0, <2>1, <2>3 DEF TypeOK
    <3> QED
      BY <1>0, <2>1, <3>1, <3>2, <3>3 DEF TypeOK
  <2>5. RingInv'
    <3>1. rear' = Slot(count)'
      <4>1. PICK k \in 0..(count - 1) : k = count - 1 /\ k + 1 = count
        BY <1>c, <2>1
      <4>2. Slot(k)' = Slot(count)
        BY <2>2, <4>1
      <4>3. Slot(count)' = (front' + k) % Size /\ Slot(k)' = (front' + k) % Size
        BY <2>1, <4>1 DEF Slot
      <4> QED
        BY <1>0, <2>1, <4>2, <4>3 DEF RingInv
    <3>2. \A i \in 0..(count' - 1) : fds'[Slot(i)'] \in Fds
      <4>1. \A i \in 0..(count' - 1) : i \in 0..(count - 1) /\ i + 1 \in 0..(count - 1)
        BY <1>c, <2>1
      <4> QED
        BY <1>0, <2>1, <2>2, <4>1 DEF RingInv
    <3>3. \A v \in Workers : IF pc'[v] = "serving" THEN serving'[v] \in Fds
                                                   ELSE serving'[v] = NoFd
      BY <1>0, <2>1, <2>3 DEF RingInv, TypeOK
    <3> QED
      BY <3>1, <3>2, <3>3 DEF RingInv
  <2>6. NoLostWakeup'
    <3>1. /\ Cardinality(Locking)' = Cardinality(Locking) - 1
          /\ Cardinality(Locking) \in Nat /\ Cardinality(Locking)' \in Nat
      BY <1>0, <2>1, OneLess
    <3>2. Waiting' \subseteq Waiting
      BY <1>0, <2>1 DEF Waiting, TypeOK
    <3> QED
      BY <1>a, <1>b, <1>c, <2>1, <3>1, <3>2
  <2> QED
    BY <2>4, <2>5, <2>6 DEF PoolInv
<1> QED
  BY <1>1, <1>2, <1>3 DEF Next

\* The conjunction that every critical section preserves.
THEOREM PoolHolds == Spec => []PoolInv
<1>1. PoolInv /\ [Next]_vars => PoolInv'
  <2>1. PoolInv /\ UNCHANGED vars => PoolInv'
    BY DEF PoolInv, TypeOK, RingInv, NoLostWakeup, Slot, Waiting, vars
  <2> QED
    BY <2>1, NextPool
<1> QED
  BY <1>1, InitPool, PTL DEF Spec

\* The fields of wq stay within the buffer, the workers in their loop.
THEOREM TypeCorrect == Spec => []TypeOK
<1>1. PoolInv => TypeOK
  BY DEF PoolInv
<1> QED
  BY <1>1, PoolHolds, PTL

\* While a worker sleeps, there is one on its way to the mutex for every
\* connection in the buffer.
THEOREM NoWakeupIsLost == Spec => []NoLostWakeup
<1>1. PoolInv => NoLostWakeup
  BY DEF PoolInv
<1> QED
  BY <1>1, PoolHolds, PTL

-----------------------------------------------------------------------------
(* Refinement                                                              *)

\* The ring read as a queue, from front to rear.
Line == [i \in 1..count |-> fds[Slot(i - 1)]]

LEMMA LineType ==
  ASSUME PoolInv
  PROVE  /\ Line \in Seq(Fds) /\ Len(Line) = count
         /\ \A i \in 1..count : Line[i] = fds[Slot(i - 1)]
         /\ count \in Nat
<1>1. count \in Nat
  BY DEF PoolInv, TypeOK
<1>2. \A i \in 1..count : fds[Slot(i - 1)] \in Fds
  BY <1>1 DEF PoolInv, RingInv
<1>3. Line \in [1..count -> Fds]
  BY <1>2 DEF Line
<1> QED
  BY <1>1, <1>3 DEF Line

\* Nobody in the queue and nobody served: the same descriptors in both.
LEMMA SameInUse ==
  ASSUME PoolInv
  PROVE  Queue!InUse = InUse
<1>1. {Line[i] : i \in 1..Len(Line)} = {fds[Slot(i)] : i \in 0..(count - 1)}
  <2>1. \A i \in 1..count : i - 1 \in 0..(count - 1)
    BY LineType
  <2>2. \A i \in 0..(count - 1) : i + 1 \in 1..count /\ Line[i + 1] = fds[Slot(i)]
    <3> SUFFICES ASSUME NEW i \in 0..(count - 1)
                 PROVE  i + 1 \in 1..count /\ Line[i + 1] = fds[Slot(i)]
      OBVIOUS
    <3>1. i + 1 \in 1..count /\ (i + 1) - 1 = i
      BY LineType
    <3> QED
      BY <3>1, LineType
  <2> QED
    BY <2>1, <2>2, LineType
<1> QED
  BY <1>1 DEF Queue!InUse, InUse, Line

LEMMA RefineInit ==
  ASSUME Init
  PROVE  Queue!QueueInit
<1>1. [i \in 1..count |-> fds[Slot(i - 1)]] = <<>>
  BY DEF Init
<1> QED
  BY <1>1 DEF Init, Queue!QueueInit

LEMMA RefineEnqueue ==
  ASSUME PoolInv, PoolInv', Enqueue
  PROVE  Queue!Admit
<1>0. TypeOK /\ RingInv
  BY DEF PoolInv
<1>1. PICK fd \in Fds \ InUse :
        /\ count < Size /\ count' = count + 1
        /\ front' = front /\ rear' = Slot(count + 1)
        /\ fds' = [fds EXCEPT ![Slot(count)] = fd]
        /\ Slot(count) \in 0..(Size - 1)
        /\ fds'[Slot(count)] = fd
        /\ \A i \in 0..(count - 1) : fds'[Slot(i)] = fds[Slot(i)]
  BY <1>0, EnqueueRing
<1>2. /\ Line \in Seq(Fds) /\ Len(Line) = count /\ count \in Nat
      /\ \A i \in 1..count : Line[i] = fds[Slot(i - 1)]
  BY LineType
<1>3. /\ Line' \in Seq(Fds) /\ Len(Line') = count + 1
      /\ \A i \in 1..(count + 1) : Line'[i] = fds'[Slot(i - 1)]
  <2>1. \A i : Slot(i)' = Slot(i)
    BY <1>1 DEF Slot
  <2>2. Line' = [i \in 1..(count + 1) |-> fds'[Slot(i - 1)]]
    BY <1>1, <2>1 DEF Line
  <2>3. \A i \in 1..(count + 1) : fds'[Slot(i - 1)] \in Fds
    <3>1. \A i \in 1..(count + 1) : i - 1 \in 0..(count' - 1)
      BY <1>1, <1>2
    <3> QED
      BY <2>1, <3>1 DEF PoolInv, RingInv
  <2>4. Line' \in [1..(count + 1) -> Fds]
    BY <2>2, <2>3
  <2> QED
    BY <1>2, <2>2, <2>4
<1>4. Line' = Append(Line, fd)
  <2>1. Append(Line, fd) \in Seq(Fds) /\ Len(Append(Line, fd)) = count + 1
    BY <1>2
  <2>2. ASSUME NEW i \in 1..(count + 1) PROVE Line'[i] = Append(Line, fd)[i]
    <3>1. CASE i = count + 1
      <4>1. Append(Line, fd)[i] = fd
        BY <1>2, <3>1
      <4>2. i - 1 = count
        BY <1>2, <3>1
      <4> QED
        BY <1>1, <1>3, <4>1, <4>2
    <3>2. CASE i \in 1..count
      <4>1. Append(Line, fd)[i] = Line[i]
        BY <1>2, <3>2
      <4>2. i - 1 \in 0..(count - 1)
        BY <1>2, <3>2
      <4> QED
        BY <1>1, <1>2, <1>3, <3>2, <4>1, <4>2
    <3> QED
      BY <1>2, <3>1, <3>2
  <2> QED
    BY <1>3, <2>1, <2>2, SeqEqual
<1>5. UNCHANGED serving
  BY DEF Enqueue
<1>6. fd \in Fds \ Queue!InUse
  BY SameInUse
<1> QED
  BY <1>1, <1>2, <1>4, <1>5, <1>6 DEF Queue!Admit, Line

LEMMA RefineDequeue ==
  ASSUME PoolInv, PoolInv', NEW w \in Workers, Dequeue(w)
  PROVE  Queue!Serve(w)
<1>0. TypeOK /\ RingInv
  BY DEF PoolInv
<1>1. /\ pc[w] = "lock" /\ count > 0 /\ count' = count - 1
      /\ serving' = [serving EXCEPT ![w] = fds[front]] /\ UNCHANGED fds
  BY DEF Dequeue
<1>2. serving[w] = NoFd
  BY <1>0, <1>1 DEF RingInv
<1>3. Slot(0) = front /\ \A i \in 0..(count - 1) : Slot(i)' = Slot(i + 1)
  BY <1>0, DequeueRing
<1>4. /\ Line \in Seq(Fds) /\ Len(Line) = count /\ count \in Nat
      /\ \A i \in 1..count : Line[i] = fds[Slot(i - 1)]
  BY LineType
<1>5. Line # <<>> /\ Head(Line) = fds[front]
  <2>1. Line # <<>> /\ Head(Line) = Line[1] /\ 1 \in 1..count
    BY <1>1, <1>4, EmptySeq
  <2> QED
    BY <1>3, <1>4, <2>1
<1>6. Line' = Tail(Line)
  <2>1. /\ Tail(Line) \in Seq(Fds) /\ Len(Tail(Line)) = count - 1
        /\ \A i \in 1..(count - 1) : Tail(Line)[i] = Line[i + 1]
    BY <1>4, <1>5, HeadTailProperties
  <2>2. Line' = [i \in 1..(count - 1) |-> fds[Slot(i)]]
    <3>1. \A i \in 1..(count - 1) : i - 1 \in 0..(count - 1) /\ (i - 1) + 1 = i
      BY <1>4
    <3>2. \A i \in 1..(count - 1) : Slot(i - 1)' = Slot(i)
      BY <1>3, <3>1
    <3> QED
      BY <1>1, <3>2 DEF Line
  <2>3. \A i \in 1..(count - 1) : Tail(Line)[i] = fds[Slot(i)]
    <3>1. \A i \in 1..(count - 1) : i + 1 \in 1..count /\ (i + 1) - 1 = i
      BY <1>4
    <3> QED
      BY <1>4, <2>1, <3>1
  <2>4. Tail(Line) = [i \in 1..(count - 1) |-> Tail(Line)[i]]
    BY <2>1, LenProperties
  <2> QED
    BY <2>2, <2>3, <2>4
<1> QED
  BY <1>1, <1>2, <1>5, <1>6 DEF Queue!Serve, Line

LEMMA RefineNext ==
  ASSUME PoolInv, PoolInv', [Next]_vars
  PROVE  [Queue!QueueNext]_(Queue!queueVars)
<1>1. ASSUME UNCHANGED <<fds, front, count>> PROVE UNCHANGED Line
  BY <1>1 DEF Line, Slot
<1>2. CASE Enqueue
  BY <1>2, RefineEnqueue DEF Queue!QueueNext
<1>3. ASSUME NEW w \in Workers, Dequeue(w) PROVE Queue!QueueNext
  BY <1>3, RefineDequeue DEF Queue!QueueNext
<1>4. ASSUME NEW w \in Workers, EndService(w) PROVE Queue!QueueNext
  <2>1. serving[w] # NoFd
    BY <1>4 DEF EndService, PoolInv, RingInv
  <2>2. serving' = [serving EXCEPT ![w] = NoFd] /\ UNCHANGED Line
    BY <1>1, <1>4 DEF EndService
  <2>3. Queue!Leave(w)
    BY <2>1, <2>2 DEF Queue!Leave, Line
  <2> QED
    BY <2>3 DEF Queue!QueueNext
<1>5. ASSUME NEW w \in Workers, Wait(w) \/ WakeSpuriously(w)
      PROVE  UNCHANGED <<Line, serving>>
  BY <1>1, <1>5 DEF Wait, WakeSpuriously
<1>6. UNCHANGED vars => UNCHANGED <<Line, serving>>
  BY <1>1 DEF vars
<1>7. UNCHANGED <<Line, serving>> => UNCHANGED Queue!queueVars
  BY DEF Queue!queueVars, Line
<1> QED
  BY <1>2, <1>3, <1>4, <1>5, <1>6, <1>7 DEF Next

\* The ring with its workers serves connections first come, first served:
\* WorkQueue implements ConnectionQueue.
THEOREM RingIsAQueue == Spec => ServedInOrder
<1>1. Init => Queue!QueueInit
  BY RefineInit
<1>2. PoolInv /\ PoolInv' /\ [Next]_vars => [Queue!QueueNext]_(Queue!queueVars)
  BY RefineNext
<1> QED
  BY <1>1, <1>2, PoolHolds, PTL DEF Spec, ServedInOrder, Queue!QueueSpec

-----------------------------------------------------------------------------
(* The wire: the inductive invariants                                      *)

HIDE WorkQueueAssumption
USE WireAssumption

\* req_lock is held exactly by the thread that is inside recv_msg.
LockInv ==
  \A t \in Readers : reqLock = t <=> reader[t].pc \in {"head", "body", "lost"}

\* The two words of push_notification, and what a notifier may have left of
\* them to write.
NoticeHead == [of |-> "notice", head |-> TRUE, left |-> 1]
Rests == {<<>>, <<NoWord>>, <<NoticeHead, NoWord>>}
NotifierMidway == \E n \in Notifiers : Midway(n)

\* The main thread is in nobody's way: headers and payloads of notifications
\* take turns in the socket, the first one is what the listener is about to
\* read, and the last one lacks its payload only while its notifier is on it.
CutOff ==
  IF inbox = <<>> THEN reader["listener"].pc = "body" ELSE inbox[Len(inbox)].head

NoticesFramed ==
  /\ \A i \in 1..Len(inbox) : inbox[i] \in {NoticeHead, NoWord}
  /\ \A i \in 1..Len(inbox) : i < Len(inbox) => (inbox[i].head <=> ~inbox[i + 1].head)
  /\ inbox # <<>> => (inbox[1].head <=> reader["listener"].pc # "body")
  /\ connection # "closed" => (CutOff <=> NotifierMidway)

\* The main thread has sent a request that the worker has not taken up yet.
RequestSent ==
  /\ requests = <<req>>
  /\ writing["worker"] = <<>> /\ inbox = <<>>
  /\ reader["main"].pc = "head"

\* word is the i-th of n words of the answer that are still to be read.
AnswerWord(word, i, n) ==
  /\ word.of = req
  /\ word.head <=> i = 1 /\ reader["main"].pc = "head"
  /\ word.left = n - i

\* n words are still to be read, the first of them in the socket, the last of
\* them with the worker.
AnswerComing(n) ==
  /\ requests = <<>>
  /\ n = Len(inbox) + Len(writing["worker"])
  /\ \A i \in 1..Len(inbox) : AnswerWord(inbox[i], i, n)
  /\ \A i \in 1..Len(writing["worker"]) :
       AnswerWord(writing["worker"][i], Len(inbox) + i, n)
  /\ reader["main"].pc = "head" => n - 1 \in {0, AnswerSize[req]}
  /\ reader["main"].pc = "body" => /\ reader["main"].want = n
                                   /\ reader["main"].word.of = req

StreamInv ==
  IF AwaitingAnswer
  THEN ~NotifierMidway /\ (RequestSent \/ \E n \in Nat \ {0} : AnswerComing(n))
  ELSE requests = <<>> /\ writing["worker"] = <<>> /\ NoticesFramed

\* A logout is the last request: after it nothing is asked or answered.
LogoutInv ==
  /\ connection # "open" =>
       /\ req = "logout" /\ requests = <<>>
       /\ reader["main"].pc \in {"head", "ended"}
  /\ connection = "closed" => writing["worker"] = <<>>

ReadersInv ==
  /\ \A t \in Readers : reader[t].pc # "lost"
  /\ reader["main"].word # NoWord => reader["main"].word.of = req
  /\ reader["listener"].word.of = "notice"
  /\ reader["listener"].pc = "body" => reader["listener"].want = 1

NotifiersInv == \A n \in Notifiers : writing[n] \in Rests

CleanInv == NotifiersInv /\ ReadersInv /\ LogoutInv /\ StreamInv

WireInv ==
  /\ LockInv
  /\ Disturbance => crossed
  /\ ~crossed => CleanInv

\* While something is to be read or written for the worker's last request, a
\* logout included, the connection is there; a logout is the last request.
LastRequestInv ==
  /\ connection # "open" \/ (\E i \in 1..Len(requests) : requests[i] = "logout") =>
       req = "logout" /\ reader["main"].pc \in {"head", "body", "lost", "ended"}
  /\ \A i \in 1..Len(requests) : i < Len(requests) => requests[i] # "logout"
  /\ connection # "open" => requests = <<>>
  /\ connection = "closed" => writing["worker"] = <<>>

\* The worker's words are the rest of one answer.
WorkerInv ==
  \A i \in 1..Len(writing["worker"]) :
    /\ writing["worker"][i].of # "notice"
    /\ writing["worker"][i].head => i = 1
    /\ writing["worker"][i].left = Len(writing["worker"]) - i

\* After the first i words of the socket, word is the next one of an answer:
\* in the socket behind notifications, or the next that the worker writes.
NextOfAnswer(i, word) ==
  \/ \E j \in 1..Len(inbox) :
       /\ i < j /\ inbox[j] = word /\ word.of # "notice"
       /\ \A k \in 1..Len(inbox) : i < k /\ k < j => inbox[k].of = "notice"
  \/ /\ \A k \in 1..Len(inbox) : i < k => inbox[k].of = "notice"
     /\ writing["worker"] # <<>> /\ word = writing["worker"][1]

\* A payload follows its header without a gap, but for notifications.
PayloadFollows ==
  \A i \in 1..Len(inbox) :
    inbox[i].of # "notice" /\ inbox[i].left > 0 =>
      \E word \in Word : /\ NextOfAnswer(i, word)
                         /\ ~word.head /\ word.left = inbox[i].left - 1

\* An answer is due of which not even the header has been read.
AnswerPending ==
  \/ requests # <<>>
  \/ \E i \in 1..Len(inbox) : inbox[i].head /\ inbox[i].of # "notice"
  \/ writing["worker"] # <<>> /\ writing["worker"][1].head

\* A main thread that looks for a header, or reads the payload of a
\* notification, has its answer before it; one that reads the payload of an
\* answer has the rest of it.
MainServed ==
  /\ reader["main"].pc = "head" => AnswerPending
  /\ reader["main"].pc = "body" /\ reader["main"].word.of = "notice" => AnswerPending
  /\ reader["main"].pc = "body" /\ reader["main"].word.of # "notice" =>
       \E word \in Word : /\ NextOfAnswer(0, word)
                          /\ ~word.head /\ word.left >= reader["main"].want - 1

UnderwayInv ==
  NotifiersInv /\ LastRequestInv /\ WorkerInv /\ PayloadFollows /\ MainServed

-----------------------------------------------------------------------------
(* The wire: words and messages                                            *)

\* send_msg and push_notification write one header and then the payload, the
\* words of which count down to 0.
IsMessage(m, of, size) ==
  /\ m \in Seq(Word) /\ Len(m) = size + 1
  /\ \A i \in 1..(size + 1) :
       /\ m[i].of = of
       /\ m[i].head <=> i = 1
       /\ m[i].left = size + 1 - i

LEMMA MessageFacts ==
  ASSUME NEW of \in Requests \cup {"notice"}, NEW size \in Nat
  PROVE  IsMessage(Message(of, size), of, size)
<1>1. [of |-> of, head |-> TRUE, left |-> size] \in Word
  BY DEF Word
<1>2. \A i \in 1..size : [of |-> of, head |-> FALSE, left |-> size - i] \in Word
  BY DEF Word
<1>3. PICK p : p = [i \in 1..size |-> [of |-> of, head |-> FALSE, left |-> size - i]]
  OBVIOUS
<1>4. p \in [1..size -> Word]
  BY <1>2, <1>3
<1>5. p \in Seq(Word) /\ Len(p) = size
  BY <1>4
<1>6. \A i \in 1..size :
        p[i].of = of /\ ~p[i].head /\ p[i].left = size - i
  BY <1>3
<1>7. PICK h : h = <<[of |-> of, head |-> TRUE, left |-> size]>>
  OBVIOUS
<1>8. h \in Seq(Word) /\ Len(h) = 1
  BY <1>1, <1>7
<1>9. h[1].of = of /\ h[1].head /\ h[1].left = size
  BY <1>7
<1>10. Message(of, size) = h \o p
  BY <1>3, <1>7 DEF Message
<1>11. /\ h \o p \in Seq(Word)
       /\ Len(h \o p) = Len(h) + Len(p)
       /\ \A i \in 1..(Len(h) + Len(p)) :
            (h \o p)[i] = IF i <= Len(h) THEN h[i] ELSE p[i - Len(h)]
  BY ONLY <1>5, <1>8, ConcatProperties
<1>12. Len(h \o p) = size + 1
  BY <1>5, <1>8, <1>11
<1>13. ASSUME NEW i \in 1..(size + 1)
       PROVE  /\ (h \o p)[i].of = of
              /\ (h \o p)[i].head <=> i = 1
              /\ (h \o p)[i].left = size + 1 - i
  <2>1. (h \o p)[i] = IF i <= 1 THEN h[i] ELSE p[i - 1]
    BY <1>5, <1>8, <1>11
  <2>2. CASE i = 1
    BY <1>9, <2>1, <2>2
  <2>3. CASE i # 1
    <3>1. i - 1 \in 1..size /\ size - (i - 1) = size + 1 - i /\ ~(i <= 1)
      BY <2>3
    <3>2. p[i - 1].of = of /\ ~p[i - 1].head /\ p[i - 1].left = size - (i - 1)
      BY <1>6, <3>1
    <3> QED
      BY <2>1, <2>3, <3>1, <3>2
  <2> QED
    BY <2>2, <2>3
<1> QED
  <2>1. h \o p \in Seq(Word)
    BY <1>11
  <2>2. IsMessage(h \o p, of, size)
    BY <1>12, <1>13, <2>1 DEF IsMessage
  <2> QED
    BY <1>10, <2>2

\* A notification: one header, one payload.
LEMMA NoticeIs == Message("notice", 1) = <<NoticeHead, NoWord>>
<1>1. PICK of \in Requests \cup {"notice"} : of = "notice"
  OBVIOUS
<1>2. PICK size \in Nat : size = 1
  OBVIOUS
<1>3. PICK m : m = Message(of, size)
  OBVIOUS
<1>4. /\ m \in Seq(Word) /\ Len(m) = size + 1
      /\ \A i \in 1..(size + 1) :
           m[i].of = of /\ (m[i].head <=> i = 1) /\ m[i].left = size + 1 - i
  <2>1. IsMessage(Message(of, size), of, size)
    BY MessageFacts
  <2> QED
    BY <1>3, <2>1 DEF IsMessage
<1>5. m[1] \in Word /\ m[2] \in Word
  <2>1. 1 \in 1..Len(m) /\ 2 \in 1..Len(m)
    BY <1>2, <1>4
  <2> QED
    BY ONLY <1>4, <2>1, ElementOfSeq
<1>6. m[1] = NoticeHead
  BY <1>1, <1>2, <1>4, <1>5 DEF Word, NoticeHead
<1>7. m[2] = NoWord
  BY <1>1, <1>2, <1>4, <1>5 DEF Word, NoWord
<1>8. PICK s : s = <<NoticeHead, NoWord>>
  OBVIOUS
<1>9. s \in Seq(Word) /\ Len(s) = 2 /\ s[1] = NoticeHead /\ s[2] = NoWord
  BY <1>5, <1>6, <1>7, <1>8
<1>10. \A i \in 1..Len(m) : m[i] = s[i]
  BY <1>2, <1>4, <1>6, <1>7, <1>9
<1>11. m = s
  <2>1. Len(m) = Len(s)
    BY <1>2, <1>4, <1>9
  <2> QED
    BY ONLY <1>4, <1>9, <1>10, <2>1, SeqEqual
<1> QED
  BY ONLY <1>1, <1>2, <1>3, <1>8, <1>11

\* What recv_msg takes from the socket is its first word; the others move up.
LEMMA TakeFirst ==
  ASSUME NEW s \in Seq(Word), s # <<>>
  PROVE  /\ Head(s) = s[1] /\ Head(s) \in Word
         /\ Tail(s) \in Seq(Word)
         /\ Len(s) \in Nat \ {0} /\ Len(Tail(s)) = Len(s) - 1
         /\ \A i \in 1..(Len(s) - 1) : Tail(s)[i] = s[i + 1]
OBVIOUS

\* What a write adds to the socket is its last word.
LEMMA AddLast ==
  ASSUME NEW s \in Seq(Word), NEW w \in Word
  PROVE  /\ Append(s, w) \in Seq(Word)
         /\ Len(Append(s, w)) = Len(s) + 1
         /\ \A i \in 1..Len(s) : Append(s, w)[i] = s[i]
         /\ Append(s, w)[Len(s) + 1] = w
OBVIOUS

-----------------------------------------------------------------------------
(* The wire: types and req_lock                                            *)

Labels == {"menu", "lock", "off", "loop", "try", "head", "body", "lost", "ended"}
ReaderState == [pc : Labels, word : Word, want : Nat]

\* Where a thread of the client stands after a jump.
LEMMA AtFacts ==
  ASSUME NEW label \in Labels, NEW word \in Word
  PROVE  /\ At(label) \in ReaderState
         /\ At(label).pc = label
         /\ At(label).word = NoWord
         /\ [At(label) EXCEPT !.word = word] \in ReaderState
         /\ [At(label) EXCEPT !.word = word].pc = label
         /\ [At(label) EXCEPT !.word = word].word = word
<1>1. NoWord \in Word
  BY DEF NoWord, Word
<1> QED
  BY <1>1 DEF At, ReaderState

LEMMA GotoFacts ==
  ASSUME WireTypeOK, NEW t \in Readers, NEW label \in Labels, Goto(t, label)
  PROVE  /\ reader' \in [Readers -> ReaderState]
         /\ reader'[t].pc = label /\ reader'[t].word = NoWord
         /\ \A u \in Readers \ {t} : reader'[u] = reader[u]
<1>1. reader \in [Readers -> ReaderState]
  BY DEF WireTypeOK, ReaderState, Labels
<1>2. NoWord \in Word
  BY DEF NoWord, Word
<1>3. At(label) \in ReaderState /\ At(label).pc = label /\ At(label).word = NoWord
  BY <1>2, AtFacts
<1> QED
  BY <1>1, <1>3 DEF Goto

\* What the end of recv_msg leaves behind: the thread is back in its loop or
\* its menu, and a first login has started the listener.
LEMMA ReceivedFacts ==
  ASSUME WireTypeOK, NEW t \in Readers, NEW word \in Word, Received(t, word)
  PROVE  /\ reqLock' = "nobody"
         /\ reader' \in [Readers -> ReaderState]
         /\ t = "listener" => /\ reader'["listener"].pc = "loop"
                              /\ reader'["listener"].word = word
                              /\ reader'["main"] = reader["main"]
         /\ t = "main" => /\ reader'["main"].pc \in {"menu", "ended"}
                          /\ reader'["main"].pc = "menu" <=> req # "logout"
                          /\ reader'["main"].word = word
                          /\ \/ reader'["listener"] = reader["listener"]
                             \/ reader'["listener"] = At("loop")
<1>1. reader \in [Readers -> ReaderState]
  BY DEF WireTypeOK, ReaderState, Labels
<1>2. \A label \in Labels :
        /\ At(label) \in ReaderState
        /\ [At(label) EXCEPT !.word = word] \in ReaderState
        /\ [At(label) EXCEPT !.word = word].pc = label
        /\ [At(label) EXCEPT !.word = word].word = word
  BY AtFacts
<1>3. {"loop", "menu", "ended"} \subseteq Labels
  BY DEF Labels
<1>4. reqLock' = "nobody"
  BY DEF Received
<1>5. CASE t = "listener"
  <2>1. reader' = [reader EXCEPT !["listener"] = [At("loop") EXCEPT !.word = word]]
    BY <1>5 DEF Received
  <2> QED
    BY <1>1, <1>2, <1>3, <1>4, <1>5, <2>1 DEF Readers
<1>6. CASE t = "main" /\ req = "login" /\ (word.of = "notice" \/ word.left > 0)
  <2>1. reader' = [reader EXCEPT !["main"] = [At("menu") EXCEPT !.word = word],
                              !["listener"] = At("loop")]
    BY <1>6 DEF Received
  <2> QED
    BY <1>1, <1>2, <1>3, <1>4, <1>6, <2>1 DEF Readers
<1>7. CASE t = "main" /\ ~(req = "login" /\ (word.of = "notice" \/ word.left > 0))
  <2>1. reader' = [reader EXCEPT !["main"] =
          [At(IF req = "logout" THEN "ended" ELSE "menu") EXCEPT !.word = word]]
    BY <1>7 DEF Received
  <2> QED
    BY <1>1, <1>2, <1>3, <1>4, <1>7, <2>1 DEF Readers
<1> QED
  BY <1>5, <1>6, <1>7 DEF Readers

LEMMA RoomIsNat == WireTypeOK => \A t \in Readers : MaxRoom(t) \in Nat
BY DEF WireTypeOK, MaxRoom, Requests

\* What recv_msg makes of the first word: the header ...
LEMMA ReadHeadCases ==
  ASSUME WireTypeOK, NEW t \in Readers, ReadHead(t)
  PROVE  \E word \in Word :
           /\ inbox # <<>> /\ word = inbox[1] /\ inbox' = Tail(inbox)
           /\ reader[t].pc = "head"
           /\ UNCHANGED <<requests, writing, registered, connection, notices, req>>
           /\ \/ ~word.head /\ Lost(t)
              \/ /\ word.head /\ (word.left = 0 \/ MaxRoom(t) = 0)
                 /\ Received(t, word)
              \/ /\ word.head /\ UNCHANGED reqLock
                 /\ \E want \in 1..MaxRoom(t) :
                      /\ want <= word.left
                      /\ want = word.left \/ want = MaxRoom(t)
                      /\ reader' = [reader EXCEPT ![t] =
                           [pc |-> "body", word |-> word, want |-> want]]
<1>1. /\ inbox # <<>> /\ inbox' = Tail(inbox) /\ reader[t].pc = "head"
      /\ UNCHANGED <<requests, writing, registered, connection, notices, req>>
  BY DEF ReadHead, server
<1>2. PICK word \in Word : word = Head(inbox) /\ word = inbox[1]
  <2>1. inbox \in Seq(Word)
    BY DEF WireTypeOK
  <2> QED
    BY <1>1, <2>1, TakeFirst
<1>3. PICK want : want = IF word.left < MaxRoom(t) THEN word.left ELSE MaxRoom(t)
  OBVIOUS
<1>4. word.left \in Nat /\ MaxRoom(t) \in Nat
  BY RoomIsNat DEF Word
<1>5. (CASE ~word.head -> Lost(t)
         [] word.head /\ want = 0 -> Received(t, word)
         [] OTHER -> /\ reader' = [reader EXCEPT ![t] =
                          [pc |-> "body", word |-> word, want |-> want]]
                     /\ UNCHANGED reqLock)
  BY <1>2, <1>3 DEF ReadHead
<1>6. CASE ~word.head
  BY <1>1, <1>2, <1>5, <1>6
<1>7. CASE word.head /\ want = 0
  <2>1. Received(t, word)
    BY <1>5, <1>7
  <2>2. word.left = 0 \/ MaxRoom(t) = 0
    BY <1>3, <1>4, <1>7
  <2> QED
    BY <1>1, <1>2, <1>7, <2>1, <2>2
<1>8. CASE word.head /\ want # 0
  <2>1. /\ reader' = [reader EXCEPT ![t] =
             [pc |-> "body", word |-> word, want |-> want]]
        /\ UNCHANGED reqLock
    BY <1>5, <1>8
  <2>2. want \in 1..MaxRoom(t) /\ want <= word.left /\ (want = word.left \/ want = MaxRoom(t))
    BY <1>3, <1>4, <1>8
  <2> QED
    BY <1>1, <1>2, <1>8, <2>1, <2>2
<1> QED
  BY <1>6, <1>7, <1>8

\* ... or a word of the payload.
LEMMA ReadBodyCases ==
  ASSUME WireTypeOK, NEW t \in Readers, ReadBody(t)
  PROVE  \E word \in Word :
           /\ inbox # <<>> /\ word = inbox[1] /\ inbox' = Tail(inbox)
           /\ reader[t].pc = "body"
           /\ UNCHANGED <<requests, writing, registered, connection, notices, req>>
           /\ \/ (word.head \/ word.of # reader[t].word.of) /\ Lost(t)
              \/ reader[t].want = 1 /\ Received(t, reader[t].word)
              \/ /\ word.of = reader[t].word.of /\ ~word.head
                 /\ reader[t].want > 1 /\ UNCHANGED reqLock
                 /\ reader' = [reader EXCEPT ![t].want = reader[t].want - 1]
<1>1. /\ inbox # <<>> /\ inbox' = Tail(inbox) /\ reader[t].pc = "body"
      /\ UNCHANGED <<requests, writing, registered, connection, notices, req>>
  BY DEF ReadBody, server
<1>2. PICK word \in Word : word = Head(inbox) /\ word = inbox[1]
  <2>1. inbox \in Seq(Word)
    BY DEF WireTypeOK
  <2> QED
    BY <1>1, <2>1, TakeFirst
<1>3. reader[t].want \in Nat \ {0}
  <2>1. reader[t].want \in 1..MaxRoom(t) /\ MaxRoom(t) \in Nat
    BY <1>1, RoomIsNat DEF WireTypeOK
  <2> QED
    BY <2>1
<1>4. (CASE word.head \/ word.of # reader[t].word.of -> Lost(t)
         [] ~word.head /\ word.of = reader[t].word.of /\ reader[t].want = 1 ->
              Received(t, reader[t].word)
         [] OTHER -> /\ reader' = [reader EXCEPT ![t].want = @ - 1]
                     /\ UNCHANGED reqLock)
  BY <1>2 DEF ReadBody
<1>5. CASE word.head \/ word.of # reader[t].word.of
  <2>1. Lost(t)
    BY <1>4, <1>5
  <2> QED
    BY <1>1, <1>2, <1>5, <2>1
<1>6. CASE ~word.head /\ word.of = reader[t].word.of /\ reader[t].want = 1
  <2>1. Received(t, reader[t].word)
    BY <1>4, <1>6
  <2> QED
    BY <1>1, <1>2, <1>6, <2>1
<1>7. CASE ~word.head /\ word.of = reader[t].word.of /\ reader[t].want # 1
  <2>1. reader' = [reader EXCEPT ![t].want = @ - 1] /\ UNCHANGED reqLock
    BY <1>4, <1>7
  <2>2. reader' = [reader EXCEPT ![t].want = reader[t].want - 1]
    BY <2>1
  <2>3. reader[t].want > 1
    BY <1>3, <1>7
  <2> QED
    BY <1>1, <1>2, <1>7, <2>1, <2>2, <2>3
<1> QED
  BY <1>5, <1>6, <1>7

\* The kinds of steps, for the proofs that go through all of them.
LEMMA WireSteps ==
  ASSUME WireNext
  PROVE  \/ Serve \/ Close \/ \E w \in Writers : Write(w)
         \/ \E n \in Notifiers : Push(n)
         \/ Choose \/ Send \/ Select \/ TryLock \/ ListenerEnds \/ ListenerEof
         \/ \E t \in Readers : ReadHead(t) \/ ReadBody(t)
BY DEF WireNext, ServerStep, MainStep, ListenerStep, Readers

\* The threads of the client, their places and their buffers.
ReadersTypeOK ==
  /\ reader \in [Readers -> ReaderState]
  /\ \A t \in Readers : reader[t].pc = "body" => reader[t].want \in 1..MaxRoom(t)

RestTypeOK ==
  /\ inbox \in Seq(Word)
  /\ requests \in Seq(Requests)
  /\ writing \in [Writers -> Seq(Word)]
  /\ told \in 0..2
  /\ registered \in BOOLEAN
  /\ connection \in {"open", "closing", "closed"}
  /\ req \in Requests
  /\ reqLock \in Readers \cup {"nobody"}
  /\ notices \in Nat
  /\ crossed \in BOOLEAN

LEMMA WireTypeParts == WireTypeOK <=> RestTypeOK /\ ReadersTypeOK
BY DEF WireTypeOK, RestTypeOK, ReadersTypeOK, ReaderState, Labels

LEMMA WireInitType == WireInit => WireTypeOK
<1> SUFFICES ASSUME WireInit PROVE WireTypeOK
  OBVIOUS
<1>1. {"menu", "off"} \subseteq Labels
  BY DEF Labels
<1>2. \A t \in Readers : reader[t] = At(IF t = "main" THEN "menu" ELSE "off")
  BY DEF WireInit
<1>3. NoWord \in Word
  BY DEF NoWord, Word
<1>4. \A t \in Readers : reader[t] \in ReaderState /\ reader[t].pc # "body"
  BY <1>1, <1>2, <1>3, AtFacts
<1>5. reader \in [Readers -> ReaderState]
  BY <1>4 DEF WireInit
<1>6. ReadersTypeOK
  BY <1>4, <1>5 DEF ReadersTypeOK
<1>7. writing \in [Writers -> Seq(Word)]
  BY DEF WireInit
<1>8. inbox \in Seq(Word) /\ requests \in Seq(Requests)
  BY DEF WireInit
<1>9. told \in 0..2
  <2>1. told = 0
    BY DEF WireInit
  <2> QED
    BY <2>1
<1>10. RestTypeOK
  BY <1>7, <1>8, <1>9 DEF WireInit, RestTypeOK, Requests
<1> QED
  BY <1>6, <1>10, WireTypeParts

\* A thread that goes elsewhere is not reading a payload.
LEMMA GotoType ==
  ASSUME WireTypeOK, NEW t \in Readers, NEW label \in Labels \ {"body"},
         Goto(t, label), req' = req
  PROVE  ReadersTypeOK'
<1>1. /\ reader' \in [Readers -> ReaderState]
      /\ reader'[t].pc = label
      /\ \A u \in Readers \ {t} : reader'[u] = reader[u]
  BY GotoFacts
<1>2. \A u \in Readers : MaxRoom(u)' = MaxRoom(u)
  BY DEF MaxRoom
<1>3. ASSUME NEW u \in Readers, reader'[u].pc = "body"
      PROVE  reader'[u].want \in 1..MaxRoom(u)'
  BY <1>1, <1>2, <1>3 DEF WireTypeOK
<1> QED
  BY <1>1, <1>3 DEF ReadersTypeOK

LEMMA ReceivedType ==
  ASSUME WireTypeOK, NEW t \in Readers, NEW word \in Word, Received(t, word), req' = req
  PROVE  ReadersTypeOK'
<1>1. /\ reader' \in [Readers -> ReaderState]
      /\ t = "listener" => /\ reader'["listener"].pc = "loop"
                           /\ reader'["main"] = reader["main"]
      /\ t = "main" => /\ reader'["main"].pc \in {"menu", "ended"}
                       /\ \/ reader'["listener"] = reader["listener"]
                          \/ reader'["listener"] = At("loop")
  BY ReceivedFacts
<1>2. \A u \in Readers : MaxRoom(u)' = MaxRoom(u)
  BY DEF MaxRoom
<1>3. At("loop").pc = "loop"
  BY DEF At
<1>4. ASSUME NEW u \in Readers, reader'[u].pc = "body"
      PROVE  reader'[u].want \in 1..MaxRoom(u)'
  <2>1. reader'[u] = reader[u]
    BY <1>1, <1>3, <1>4 DEF Readers
  <2> QED
    BY <1>2, <1>4, <2>1 DEF WireTypeOK
<1> QED
  BY <1>1, <1>4 DEF ReadersTypeOK

\* Reading takes the first word and leaves the other end alone.
LEMMA ReadType ==
  ASSUME WireTypeOK, NEW t \in Readers, ReadHead(t) \/ ReadBody(t)
  PROVE  ReadersTypeOK' /\ reqLock' \in Readers \cup {"nobody"} /\ inbox' \in Seq(Word)
<1>1. inbox # <<>> /\ inbox' = Tail(inbox) /\ req' = req
  BY DEF ReadHead, ReadBody, server
<1>2. inbox' \in Seq(Word)
  BY <1>1, TakeFirst DEF WireTypeOK
<1>3. \A u \in Readers : MaxRoom(u)' = MaxRoom(u) /\ MaxRoom(u) \in Nat
  BY <1>1, RoomIsNat DEF MaxRoom
<1>4. reqLock \in Readers \cup {"nobody"} /\ reader \in [Readers -> ReaderState]
  BY DEF WireTypeOK, ReaderState, Labels
<1>5. ASSUME Lost(t) PROVE ReadersTypeOK' /\ reqLock' \in Readers \cup {"nobody"}
  <2>1. "lost" \in Labels \ {"body"} /\ Goto(t, "lost")
    BY <1>5 DEF Labels, Lost
  <2> QED
    BY <1>1, <1>4, <1>5, <2>1, GotoType DEF Lost
<1>6. ASSUME NEW word \in Word, Received(t, word)
      PROVE  ReadersTypeOK' /\ reqLock' \in Readers \cup {"nobody"}
  BY <1>1, <1>6, ReceivedType, ReceivedFacts
<1>7. ASSUME NEW word \in Word, NEW want \in 1..MaxRoom(t), UNCHANGED reqLock,
             \/ reader' = [reader EXCEPT ![t] =
                  [pc |-> "body", word |-> word, want |-> want]]
             \/ /\ reader[t].pc = "body"
                /\ reader' = [reader EXCEPT ![t].want = want]
      PROVE  ReadersTypeOK' /\ reqLock' \in Readers \cup {"nobody"}
  <2>1. want \in Nat /\ "body" \in Labels
    BY <1>3, <1>7 DEF Labels
  <2>2. reader' \in [Readers -> ReaderState]
    BY <1>4, <1>7, <2>1 DEF ReaderState
  <2>3. ASSUME NEW u \in Readers, reader'[u].pc = "body"
        PROVE  reader'[u].want \in 1..MaxRoom(u)'
    <3>1. CASE u = t
      <4>1. reader'[t].want = want
        BY <1>4, <1>7 DEF ReaderState
      <4> QED
        BY <1>3, <3>1, <4>1
    <3>2. CASE u # t
      <4>1. reader'[u] = reader[u]
        BY <1>4, <1>7, <3>2
      <4> QED
        BY <1>3, <2>3, <4>1 DEF WireTypeOK
    <3> QED
      BY <3>1, <3>2
  <2> QED
    BY <1>4, <1>7, <2>2, <2>3 DEF ReadersTypeOK
<1>8. CASE ReadHead(t)
  BY <1>2, <1>5, <1>6, <1>7, <1>8, ReadHeadCases
<1>9. CASE ReadBody(t)
  <2>1. reader[t].pc = "body" /\ reader[t].word \in Word
    BY <1>4, <1>9 DEF ReadBody, ReaderState
  <2>2. reader[t].want \in 1..MaxRoom(t)
    BY <2>1 DEF WireTypeOK
  <2>3. reader[t].want > 1 => reader[t].want - 1 \in 1..MaxRoom(t)
    BY <1>3, <2>2
  <2> QED
    BY <1>2, <1>4, <1>5, <1>6, <1>7, <1>9, <2>1, <2>3, ReadBodyCases
<1> QED
  BY <1>8, <1>9

LEMMA ServeFacts ==
  ASSUME WireTypeOK, Serve
  PROVE  \E size \in Nat :
           /\ requests # <<>> /\ writing["worker"] = <<>>
           /\ size \in {0, AnswerSize[requests[1]]}
           /\ writing' = [writing EXCEPT !["worker"] = Message(requests[1], size)]
           /\ IsMessage(Message(requests[1], size), requests[1], size)
           /\ registered' \in BOOLEAN
           /\ connection' = IF requests[1] = "logout" THEN "closing" ELSE connection
           /\ requests' = Tail(requests) /\ told' = 0
           /\ UNCHANGED <<inbox, req, reader, reqLock, notices>>
<1>1. /\ requests # <<>> /\ writing["worker"] = <<>>
      /\ requests' = Tail(requests) /\ told' = 0
      /\ UNCHANGED <<inbox, req, reader, reqLock, notices>>
  BY DEF Serve
<1>2. PICK r \in Requests : r = Head(requests) /\ r = requests[1]
  <2>1. requests \in Seq(Requests)
    BY DEF WireTypeOK
  <2>2. Head(requests) = requests[1] /\ Head(requests) \in Requests
    BY <1>1, <2>1, TakeFirst
  <2> QED
    BY <2>2
<1>3. connection' = IF r = "logout" THEN "closing" ELSE connection
  BY <1>2 DEF Serve
<1>4. PICK ok \in BOOLEAN :
        /\ Answer(r, IF ok THEN AnswerSize[r] ELSE 0)
        /\ registered' = IF r = "login" THEN ok ELSE registered /\ r # "logout"
  BY <1>2 DEF Serve
<1>5. PICK size \in Nat : size = IF ok THEN AnswerSize[r] ELSE 0
  OBVIOUS
<1>6. writing' = [writing EXCEPT !["worker"] = Message(r, size)]
  BY <1>4, <1>5 DEF Answer
<1>7. IsMessage(Message(r, size), r, size)
  BY MessageFacts
<1>8. registered' \in BOOLEAN
  <2>1. registered \in BOOLEAN
    BY DEF WireTypeOK
  <2> QED
    BY <1>4, <2>1
<1> QED
  BY <1>1, <1>2, <1>3, <1>5, <1>6, <1>7, <1>8

LEMMA WireNextType == WireTypeOK /\ [WireNext]_wireVars => WireTypeOK'
<1> SUFFICES ASSUME WireTypeOK, [WireNext]_wireVars PROVE WireTypeOK'
  OBVIOUS
<1> RestTypeOK /\ ReadersTypeOK
  BY WireTypeParts
<1>1. CASE UNCHANGED wireVars
  BY <1>1 DEF WireTypeOK, wireVars, server, MaxRoom
<1>2. ASSUME WireNext PROVE RestTypeOK' /\ ReadersTypeOK'
  <2>1. crossed' \in BOOLEAN
    BY <1>2 DEF WireNext, RestTypeOK
  <2>2. ASSUME UNCHANGED <<reader, req>> PROVE ReadersTypeOK'
    BY <2>2 DEF ReadersTypeOK, MaxRoom
  <2>3. CASE Serve
    <3>1. PICK size \in Nat :
             /\ requests # <<>>
             /\ writing' = [writing EXCEPT !["worker"] = Message(requests[1], size)]
             /\ IsMessage(Message(requests[1], size), requests[1], size)
             /\ registered' \in BOOLEAN
             /\ connection' = IF requests[1] = "logout" THEN "closing" ELSE connection
             /\ requests' = Tail(requests) /\ told' = 0
             /\ UNCHANGED <<inbox, req, reader, reqLock, notices>>
      BY <2>3, ServeFacts
    <3>2. writing' \in [Writers -> Seq(Word)]
      BY <3>1 DEF RestTypeOK, IsMessage
    <3>3. requests' \in Seq(Requests)
      BY <3>1 DEF RestTypeOK
    <3> QED
      BY <2>1, <2>2, <3>1, <3>2, <3>3 DEF RestTypeOK
  <2>4. CASE Close
    BY <2>1, <2>2, <2>4 DEF Close, RestTypeOK
  <2>5. CASE \E w \in Writers : Write(w)
    <3>1. PICK w \in Writers : Write(w)
      BY <2>5
    <3>2. writing[w] \in Seq(Word) /\ writing[w] # <<>>
      BY <3>1 DEF Write, RestTypeOK
    <3>3. Head(writing[w]) \in Word /\ Tail(writing[w]) \in Seq(Word)
      BY <3>2, TakeFirst
    <3>4. writing' \in [Writers -> Seq(Word)] /\ inbox' \in Seq(Word)
      <4>1. CASE connection = "closed"
        <5>1. writing' = [writing EXCEPT ![w] = <<>>] /\ inbox' = inbox
          BY <3>1, <4>1 DEF Write
        <5>2. <<>> \in Seq(Word)
          OBVIOUS
        <5> QED
          BY <5>1, <5>2 DEF RestTypeOK
      <4>2. CASE connection # "closed"
        <5>1. inbox' \in Seq(Word)
          <6>1. inbox' = Append(inbox, Head(writing[w]))
            BY <3>1, <4>2 DEF Write
          <6> QED
            BY <3>3, <6>1, AddLast DEF RestTypeOK
        <5>2. writing' = [writing EXCEPT ![w] = Tail(writing[w])]
          BY <3>1, <4>2 DEF Write
        <5> QED
          BY <3>3, <5>1, <5>2 DEF RestTypeOK
      <4> QED
        BY <4>1, <4>2
    <3> QED
      BY <2>1, <2>2, <3>1, <3>4 DEF Write, RestTypeOK
  <2>6. CASE \E n \in Notifiers : Push(n)
    <3>1. PICK n \in Notifiers : Push(n)
      BY <2>6
    <3>2. Message("notice", 1) \in Seq(Word)
      <4>1. NoticeHead \in Word /\ NoWord \in Word
        BY DEF NoticeHead, NoWord, Word
      <4>2. <<NoticeHead, NoWord>> \in Seq(Word)
        BY <4>1
      <4> QED
        BY ONLY <4>2, NoticeIs
    <3>3. writing' \in [Writers -> Seq(Word)]
      BY <3>1, <3>2 DEF Push, RestTypeOK
    <3>4. told' \in 0..2
      <4>1. told \in 0..2 /\ (n = Own => told < 2)
        BY <3>1 DEF Push, MayNotify, RestTypeOK
      <4>2. told' = IF n = Own THEN told + 1 ELSE told
        BY <3>1 DEF Push
      <4> QED
        BY <4>1, <4>2
    <3> QED
      BY <2>1, <2>2, <3>1, <3>3, <3>4 DEF Push, RestTypeOK
  <2>7. CASE Choose
    <3>1. "lock" \in Labels \ {"body"} /\ "main" \in Readers /\ Goto("main", "lock")
      BY <2>7 DEF Choose, Labels, Readers
    <3>2. /\ reader' \in [Readers -> ReaderState]
          /\ reader'["main"].pc = "lock"
          /\ reader'["listener"] = reader["listener"]
      BY <3>1, GotoFacts DEF Readers
    <3>3. req' \in Requests
      BY <2>7 DEF Choose, Requests
    <3>4. MaxRoom("listener")' = MaxRoom("listener")
      BY DEF MaxRoom
    <3>5. ReadersTypeOK'
      BY <3>2, <3>4 DEF ReadersTypeOK, Readers
    <3> QED
      BY <2>1, <2>7, <3>3, <3>5 DEF Choose, server, RestTypeOK
  <2>8. CASE Send
    <3>1. "head" \in Labels \ {"body"} /\ "main" \in Readers
      BY DEF Labels, Readers
    <3>2. ReadersTypeOK'
      BY <2>8, <3>1, GotoType DEF Send
    <3>3. requests' \in Seq(Requests)
      BY <2>8 DEF Send, RestTypeOK
    <3> QED
      BY <2>1, <2>8, <3>1, <3>2, <3>3 DEF Send, RestTypeOK
  <2>9. CASE Select \/ TryLock \/ ListenerEnds \/ ListenerEof
    <3>1. PICK label \in Labels \ {"body"} : Goto("listener", label)
      BY <2>9 DEF Select, TryLock, ListenerEnds, ListenerEof, Labels
    <3>2. /\ UNCHANGED <<inbox, server, req>>
          /\ reqLock' \in {reqLock, "listener", "nobody"}
      BY <2>9 DEF Select, TryLock, ListenerEnds, ListenerEof
    <3>3. "listener" \in Readers
      BY DEF Readers
    <3>4. ReadersTypeOK'
      BY <3>1, <3>2, <3>3, GotoType
    <3> QED
      BY <2>1, <3>2, <3>3, <3>4 DEF server, RestTypeOK
  <2>10. CASE \E t \in Readers : ReadHead(t) \/ ReadBody(t)
    <3>1. PICK t \in Readers : ReadHead(t) \/ ReadBody(t)
      BY <2>10
    <3>2. UNCHANGED <<server, req>>
      BY <3>1 DEF ReadHead, ReadBody
    <3> QED
      BY <2>1, <3>1, <3>2, ReadType DEF server, RestTypeOK
  <2> QED
    BY <1>2, <2>3, <2>4, <2>5, <2>6, <2>7, <2>8, <2>9, <2>10, WireSteps
<1>3. CASE WireNext
  <2>1. RestTypeOK' /\ ReadersTypeOK'
    BY <1>2, <1>3
  <2> QED
    BY <2>1 DEF WireTypeOK, RestTypeOK, ReadersTypeOK, ReaderState, Labels
<1> QED
  BY <1>1, <1>3

\* Only the holder of req_lock reads, and it lets go of it when it is done.
LEMMA LockNext == WireTypeOK /\ LockInv /\ [WireNext]_wireVars => LockInv'
<1> SUFFICES ASSUME WireTypeOK, LockInv, [WireNext]_wireVars PROVE LockInv'
  OBVIOUS
<1>1. CASE UNCHANGED <<reader, reqLock>>
  BY <1>1 DEF LockInv
<1>2. CASE Choose
  <2>1. /\ reader["main"].pc = "menu" /\ reqLock' = reqLock
        /\ "lock" \in Labels /\ "main" \in Readers /\ Goto("main", "lock")
    BY <1>2 DEF Choose, Labels, Readers
  <2>2. reader'["main"].pc = "lock" /\ reader'["listener"] = reader["listener"]
    BY <2>1, GotoFacts DEF Readers
  <2> QED
    BY <2>1, <2>2 DEF LockInv, Readers
<1>3. CASE Send
  <2>1. /\ reqLock = "nobody" /\ reqLock' = "main"
        /\ "head" \in Labels /\ "main" \in Readers /\ Goto("main", "head")
    BY <1>3 DEF Send, Labels, Readers
  <2>2. reader'["main"].pc = "head" /\ reader'["listener"] = reader["listener"]
    BY <2>1, GotoFacts DEF Readers
  <2> QED
    BY <2>1, <2>2 DEF LockInv, Readers
<1>4. CASE Select \/ TryLock \/ ListenerEnds \/ ListenerEof
  <2>1. PICK label \in Labels :
          /\ Goto("listener", label)
          /\ \/ label = "try" /\ reader["listener"].pc = "loop" /\ reqLock' = reqLock
             \/ label = "head" /\ reqLock = "nobody" /\ reqLock' = "listener"
             \/ label = "loop" /\ reader["listener"].pc = "try" /\ reqLock' = reqLock
             \/ label = "ended" /\ reader["listener"].pc = "loop" /\ reqLock' = reqLock
             \/ /\ label = "ended" /\ reader["listener"].pc \in {"head", "body"}
                /\ reqLock' = "nobody"
    BY <1>4 DEF Select, TryLock, ListenerEnds, ListenerEof, Labels
  <2>2. "listener" \in Readers
    BY DEF Readers
  <2>3. reader'["listener"].pc = label /\ reader'["main"] = reader["main"]
    BY <2>1, <2>2, GotoFacts DEF Readers
  <2> QED
    BY <2>1, <2>3 DEF LockInv, Readers
<1>5. CASE \E t \in Readers : ReadHead(t) \/ ReadBody(t)
  <2>1. PICK t \in Readers : ReadHead(t) \/ ReadBody(t)
    BY <1>5
  <2>2. reqLock = t /\ \A u \in Readers \ {t} : reader[u].pc \notin {"head", "body", "lost"}
    BY <2>1 DEF ReadHead, ReadBody, LockInv
  <2>3. ASSUME Lost(t) PROVE LockInv'
    <3>1. "lost" \in Labels /\ Goto(t, "lost") /\ reqLock' = reqLock
      BY <2>3 DEF Labels, Lost
    <3>2. reader'[t].pc = "lost" /\ \A u \in Readers \ {t} : reader'[u] = reader[u]
      BY <3>1, GotoFacts
    <3> QED
      BY <2>2, <3>1, <3>2 DEF LockInv
  <2>4. ASSUME NEW word \in Word, Received(t, word) PROVE LockInv'
    <3>1. /\ reqLock' = "nobody"
          /\ t = "listener" => /\ reader'["listener"].pc = "loop"
                               /\ reader'["main"] = reader["main"]
          /\ t = "main" => /\ reader'["main"].pc \in {"menu", "ended"}
                           /\ \/ reader'["listener"] = reader["listener"]
                              \/ reader'["listener"] = At("loop")
      BY <2>4, ReceivedFacts
    <3>2. At("loop").pc = "loop"
      BY DEF At
    <3> QED
      BY <2>2, <3>1, <3>2 DEF LockInv, Readers
  <2>5. ASSUME UNCHANGED reqLock, reader'[t].pc = "body",
               \A u \in Readers \ {t} : reader'[u] = reader[u]
        PROVE  LockInv'
    BY <2>2, <2>5 DEF LockInv
  <2>6. reader \in [Readers -> ReaderState]
    BY DEF WireTypeOK, ReaderState, Labels
  <2>7. CASE ReadHead(t)
    <3>1. ASSUME NEW word \in Word, NEW want \in 1..MaxRoom(t), UNCHANGED reqLock,
                 reader' = [reader EXCEPT ![t] =
                   [pc |-> "body", word |-> word, want |-> want]]
          PROVE  LockInv'
      BY <2>5, <2>6, <3>1
    <3>2. PICK word \in Word :
            \/ Lost(t)
            \/ Received(t, word)
            \/ /\ UNCHANGED reqLock
               /\ \E want \in 1..MaxRoom(t) :
                    reader' = [reader EXCEPT ![t] =
                      [pc |-> "body", word |-> word, want |-> want]]
      BY <2>7, ReadHeadCases
    <3> QED
      BY <2>3, <2>4, <3>1, <3>2
  <2>8. CASE ReadBody(t)
    <3>1. reader[t].pc = "body" /\ reader[t].word \in Word
      BY <2>6, <2>8 DEF ReadBody, ReaderState
    <3>2. ASSUME NEW want, UNCHANGED reqLock,
                 reader' = [reader EXCEPT ![t].want = want]
          PROVE  LockInv'
      <4>1. reader'[t].pc = "body" /\ \A u \in Readers \ {t} : reader'[u] = reader[u]
        BY <2>6, <3>1, <3>2 DEF ReaderState
      <4> QED
        BY <2>5, <3>2, <4>1
    <3> QED
      BY <2>3, <2>4, <2>8, <3>1, <3>2, ReadBodyCases
  <2> QED
    BY <2>1, <2>7, <2>8
<1>6. CASE WireNext
  <2>1. Serve \/ Close \/ (\E w \in Writers : Write(w)) \/ (\E n \in Notifiers : Push(n))
          => UNCHANGED <<reader, reqLock>>
    BY DEF Serve, Close, Write, Push
  <2> QED
    BY <1>1, <1>2, <1>3, <1>4, <1>5, <1>6, <2>1, WireSteps
<1> QED
  BY <1>1, <1>6 DEF wireVars

-----------------------------------------------------------------------------
(* The wire: what is in the socket                                         *)

\* A notifier that has started has its payload left to write, nothing else.
LEMMA RestFacts ==
  \A s \in Rests :
    /\ (s # <<>> /\ ~Head(s).head) <=> s = <<NoWord>>
    /\ s # <<>> => /\ Head(s) \in {NoticeHead, NoWord}
                   /\ Head(s) = NoWord <=> s = <<NoWord>>
                   /\ Tail(s) = IF s = <<NoWord>> THEN <<>> ELSE <<NoWord>>
<1>1. ~NoWord.head /\ NoticeHead.head
  BY DEF NoWord, NoticeHead
<1>2. NoWord # NoticeHead
  BY <1>1
<1>3. /\ Head(<<NoWord>>) = NoWord /\ Tail(<<NoWord>>) = <<>> /\ <<NoWord>> # <<>>
      /\ Head(<<NoticeHead, NoWord>>) = NoticeHead
      /\ Tail(<<NoticeHead, NoWord>>) = <<NoWord>>
      /\ <<NoticeHead, NoWord>> # <<>>
      /\ <<NoticeHead, NoWord>> # <<NoWord>>
  <2>1. Len(<<NoticeHead, NoWord>>) = 2 /\ Len(<<NoWord>>) = 1
    OBVIOUS
  <2> QED
    BY <2>1
<1> QED
  BY <1>1, <1>2, <1>3 DEF Rests

\* Notifiers write for themselves: "worker" is none of them.
LEMMA NotifierIsWriter == \A n \in Notifiers : n \in Writers /\ n # "worker"
BY DEF Writers

\* Steps that touch neither the socket nor the framing in it.
LEMMA SameStream ==
  ASSUME StreamInv, UNCHANGED <<inbox, requests, writing, connection>>,
         \/ /\ AwaitingAnswer
            /\ reader'["main"] = reader["main"] /\ req' = req
         \/ ~AwaitingAnswer /\ ~AwaitingAnswer',
         reader'["listener"].pc = "body" <=> reader["listener"].pc = "body"
  PROVE  StreamInv'
<1>1. NotifierMidway' <=> NotifierMidway
  BY DEF NotifierMidway, Midway
<1>2. CASE AwaitingAnswer /\ reader'["main"] = reader["main"] /\ req' = req
  <2>1. AwaitingAnswer'
    BY <1>2 DEF AwaitingAnswer
  <2>2. RequestSent => RequestSent'
    BY <1>2 DEF RequestSent
  <2>3. \A n \in Nat : AnswerComing(n) => AnswerComing(n)'
    BY <1>2 DEF AnswerComing, AnswerWord
  <2>4. ~NotifierMidway /\ (RequestSent \/ \E n \in Nat \ {0} : AnswerComing(n))
    BY <1>2 DEF StreamInv
  <2> QED
    BY <1>1, <2>1, <2>2, <2>3, <2>4 DEF StreamInv
<1>3. CASE ~AwaitingAnswer /\ ~AwaitingAnswer'
  <2>1. NoticesFramed'
    BY <1>1, <1>3 DEF StreamInv, NoticesFramed, CutOff
  <2> QED
    BY <1>3, <2>1 DEF StreamInv
<1> QED
  BY <1>2, <1>3

LEMMA WireInitClean == WireInit => LockInv /\ CleanInv
<1> SUFFICES ASSUME WireInit PROVE LockInv /\ CleanInv
  OBVIOUS
<1>1. /\ reader["main"] = At("menu") /\ reader["listener"] = At("off")
      /\ inbox = <<>> /\ requests = <<>> /\ connection = "open" /\ reqLock = "nobody"
      /\ \A w \in Writers : writing[w] = <<>>
  BY DEF WireInit, Readers
<1>2. /\ reader["main"].pc = "menu" /\ reader["listener"].pc = "off"
      /\ reader["main"].word = NoWord /\ reader["listener"].word = NoWord
  BY <1>1 DEF At
<1>3. LockInv
  BY <1>1, <1>2 DEF LockInv, Readers
<1>4. NotifiersInv
  BY <1>1 DEF NotifiersInv, Rests, Writers
<1>5. ReadersInv
  BY <1>2 DEF ReadersInv, Readers, NoWord
<1>6. LogoutInv
  BY <1>1 DEF LogoutInv, Writers
<1>7. ~NotifierMidway /\ ~CutOff
  BY <1>1, <1>2 DEF NotifierMidway, Midway, Writers, CutOff
<1>8. NoticesFramed
  BY <1>1, <1>7 DEF NoticesFramed
<1>9. StreamInv
  BY <1>1, <1>2, <1>8 DEF StreamInv, AwaitingAnswer, Writers
<1> QED
  BY <1>3, <1>4, <1>5, <1>6, <1>9 DEF CleanInv

\* The worker takes up the one request there is, and its answer is all that
\* the main thread will find.
LEMMA ServeClean ==
  ASSUME WireTypeOK, CleanInv, Serve
  PROVE  CleanInv'
<1>1. PICK size \in Nat :
        /\ requests # <<>> /\ writing["worker"] = <<>>
        /\ size \in {0, AnswerSize[requests[1]]}
        /\ writing' = [writing EXCEPT !["worker"] = Message(requests[1], size)]
        /\ IsMessage(Message(requests[1], size), requests[1], size)
        /\ connection' = IF requests[1] = "logout" THEN "closing" ELSE connection
        /\ requests' = Tail(requests)
        /\ UNCHANGED <<inbox, req, reader, reqLock, notices>>
  BY ServeFacts
<1>2. AwaitingAnswer /\ RequestSent /\ ~NotifierMidway
  BY <1>1 DEF CleanInv, StreamInv, AnswerComing
<1>3. /\ requests[1] = req /\ requests' = <<>>
      /\ inbox = <<>> /\ reader["main"].pc = "head"
  BY <1>1, <1>2 DEF RequestSent
<1>4. \A n \in Notifiers : writing'[n] = writing[n]
  BY <1>1, NotifierIsWriter DEF WireTypeOK
<1>5. PICK m : m = Message(req, size)
  OBVIOUS
<1>6. writing'["worker"] = m /\ IsMessage(m, req, size)
  BY <1>1, <1>3, <1>5 DEF WireTypeOK, Writers
<1>7. NotifiersInv'
  BY <1>4 DEF CleanInv, NotifiersInv
<1>8. ReadersInv'
  BY <1>1 DEF CleanInv, ReadersInv
<1>9. LogoutInv'
  BY <1>1, <1>3 DEF CleanInv, LogoutInv
<1>10. ~NotifierMidway'
  BY <1>2, <1>4 DEF NotifierMidway, Midway
<1>11. AnswerComing(size + 1)'
  <2>1. inbox' = <<>> /\ reader' = reader /\ req' = req
    BY <1>1, <1>3
  <2>2. \A i \in 1..Len(m) :
          /\ m[i].of = req'
          /\ m[i].head <=> 0 + i = 1 /\ reader'["main"].pc = "head"
          /\ m[i].left = size + 1 - (0 + i)
    BY <1>3, <1>6, <2>1 DEF IsMessage
  <2>3. Len(m) = size + 1 /\ Len(inbox') = 0
    BY <1>6, <2>1 DEF IsMessage
  <2>4. \A i \in 1..Len(inbox') : FALSE
    BY <2>3
  <2>5. \A i \in 1..Len(writing'["worker"]) :
          /\ writing'["worker"][i].of = req'
          /\ writing'["worker"][i].head
               <=> Len(inbox') + i = 1 /\ reader'["main"].pc = "head"
          /\ writing'["worker"][i].left = size + 1 - (Len(inbox') + i)
    BY <1>6, <2>2, <2>3
  <2>6. size + 1 = Len(inbox') + Len(writing'["worker"])
    BY <1>6, <2>3
  <2>7. size + 1 - 1 \in {0, AnswerSize[req']} /\ reader'["main"].pc = "head"
    BY <1>1, <1>3, <2>1
  <2> QED
    BY <1>3, <2>4, <2>5, <2>6, <2>7 DEF AnswerComing, AnswerWord
<1>12. AwaitingAnswer' /\ size + 1 \in Nat \ {0}
  BY <1>1, <1>2 DEF AwaitingAnswer
<1>13. StreamInv'
  BY <1>10, <1>11, <1>12 DEF StreamInv
<1> QED
  BY <1>7, <1>8, <1>9, <1>13 DEF CleanInv

\* The connection is closed when the answer to the logout has been written.
LEMMA CloseClean ==
  ASSUME CleanInv, Close
  PROVE  CleanInv'
<1>1. /\ connection = "closing" /\ connection' = "closed" /\ writing["worker"] = <<>>
      /\ UNCHANGED <<inbox, requests, writing, req, reader, reqLock>>
  BY DEF Close
<1>2. NotifiersInv' /\ ReadersInv' /\ LogoutInv'
  BY <1>1 DEF CleanInv, NotifiersInv, ReadersInv, LogoutInv
<1>3. NotifierMidway' <=> NotifierMidway
  BY <1>1 DEF NotifierMidway, Midway
<1>4. CASE AwaitingAnswer
  <2>1. AwaitingAnswer'
    BY <1>1, <1>4 DEF AwaitingAnswer
  <2>2. RequestSent => RequestSent'
    BY <1>1 DEF RequestSent
  <2>3. \A n \in Nat : AnswerComing(n) => AnswerComing(n)'
    BY <1>1 DEF AnswerComing, AnswerWord
  <2>4. ~NotifierMidway /\ (RequestSent \/ \E n \in Nat \ {0} : AnswerComing(n))
    BY <1>4 DEF CleanInv, StreamInv
  <2> QED
    BY <1>2, <1>3, <2>1, <2>2, <2>3, <2>4 DEF CleanInv, StreamInv
<1>5. CASE ~AwaitingAnswer
  <2>1. ~AwaitingAnswer'
    BY <1>1, <1>5 DEF AwaitingAnswer
  <2>2. NoticesFramed'
    BY <1>1, <1>5 DEF CleanInv, StreamInv, NoticesFramed
  <2> QED
    BY <1>1, <1>2, <1>5, <2>1, <2>2 DEF CleanInv, StreamInv
<1> QED
  BY <1>4, <1>5

\* What a write that is not lost does.
LEMMA WriteFacts ==
  ASSUME WireTypeOK, NEW w \in Writers, Write(w), connection # "closed"
  PROVE  /\ writing[w] \in Seq(Word) /\ writing[w] # <<>>
         /\ inbox' = Append(inbox, Head(writing[w]))
         /\ writing' = [writing EXCEPT ![w] = Tail(writing[w])]
         /\ Len(inbox') = Len(inbox) + 1
         /\ \A i \in 1..Len(inbox) : inbox'[i] = inbox[i]
         /\ inbox'[Len(inbox) + 1] = writing[w][1]
         /\ UNCHANGED <<requests, registered, connection, req, reader, reqLock>>
<1>1. /\ writing[w] # <<>>
      /\ inbox' = Append(inbox, Head(writing[w]))
      /\ writing' = [writing EXCEPT ![w] = Tail(writing[w])]
      /\ UNCHANGED <<requests, registered, connection, req, reader, reqLock>>
  BY DEF Write
<1>2. writing[w] \in Seq(Word) /\ inbox \in Seq(Word)
  BY DEF WireTypeOK
<1>3. Head(writing[w]) = writing[w][1] /\ Head(writing[w]) \in Word
  BY <1>1, <1>2, TakeFirst
<1> QED
  BY <1>1, <1>2, <1>3, AddLast

\* The worker moves one word of the answer into the socket.
LEMMA WorkerWriteClean ==
  ASSUME WireTypeOK, CleanInv, Write("worker")
  PROVE  CleanInv'
<1>1. writing["worker"] # <<>> /\ "worker" \in Writers
  BY DEF Write, Writers
<1>2. connection # "closed"
  BY <1>1 DEF CleanInv, LogoutInv
<1>3. AwaitingAnswer /\ ~NotifierMidway
  BY <1>1 DEF CleanInv, StreamInv
<1>4. PICK n \in Nat \ {0} : AnswerComing(n)
  BY <1>1 DEF CleanInv, StreamInv, RequestSent
<1>5. PICK s \in Seq(Word) : s = writing["worker"] /\ s # <<>>
  BY <1>1 DEF WireTypeOK
<1>6. /\ writing' = [writing EXCEPT !["worker"] = Tail(s)]
      /\ Len(inbox') = Len(inbox) + 1
      /\ \A i \in 1..Len(inbox) : inbox'[i] = inbox[i]
      /\ inbox'[Len(inbox) + 1] = s[1]
      /\ UNCHANGED <<requests, registered, connection, req, reader, reqLock>>
  BY <1>1, <1>2, <1>5, WriteFacts
<1>7. \A v \in Notifiers : writing'[v] = writing[v]
  BY <1>6, NotifierIsWriter DEF WireTypeOK
<1>8. writing'["worker"] = Tail(s)
  BY <1>1, <1>6 DEF WireTypeOK
<1>9. NotifiersInv' /\ ReadersInv' /\ LogoutInv' /\ ~NotifierMidway' /\ AwaitingAnswer'
  BY <1>2, <1>3, <1>6, <1>7
  DEF CleanInv, NotifiersInv, ReadersInv, LogoutInv, NotifierMidway, Midway, AwaitingAnswer
<1>10. /\ Len(s) \in Nat \ {0} /\ Len(Tail(s)) = Len(s) - 1 /\ Len(inbox) \in Nat
       /\ \A i \in 1..(Len(s) - 1) : Tail(s)[i] = s[i + 1]
  BY <1>5, TakeFirst DEF WireTypeOK
<1>11. AnswerComing(n)'
  <2>1. n = Len(inbox) + Len(s)
    BY <1>4, <1>5 DEF AnswerComing
  <2>2. n = Len(inbox') + Len(Tail(s))
    BY <1>6, <1>10, <2>1
  <2>3. ASSUME NEW i \in 1..Len(inbox') PROVE AnswerWord(inbox'[i], i, n)
    <3>1. CASE i \in 1..Len(inbox)
      BY <1>4, <1>6, <3>1 DEF AnswerComing
    <3>2. CASE i = Len(inbox) + 1
      <4>1. 1 \in 1..Len(s)
        BY <1>10
      <4>2. AnswerWord(s[1], Len(inbox) + 1, n)
        BY <1>4, <1>5, <4>1 DEF AnswerComing
      <4> QED
        BY <1>6, <3>2, <4>2
    <3> QED
      BY <1>6, <1>10, <3>1, <3>2
  <2>4. ASSUME NEW i \in 1..Len(Tail(s))
        PROVE  AnswerWord(Tail(s)[i], Len(inbox') + i, n)
    <3>1. i + 1 \in 1..Len(s) /\ Len(inbox) + (i + 1) = Len(inbox') + i
      BY <1>6, <1>10
    <3>2. AnswerWord(s[i + 1], Len(inbox) + (i + 1), n)
      BY <1>4, <1>5, <3>1 DEF AnswerComing
    <3>3. Tail(s)[i] = s[i + 1]
      BY <1>10
    <3> QED
      BY <3>1, <3>2, <3>3
  <2>5. /\ requests = <<>>
        /\ reader["main"].pc = "head" => n - 1 \in {0, AnswerSize[req]}
        /\ reader["main"].pc = "body" => /\ reader["main"].want = n
                                         /\ reader["main"].word.of = req
    BY <1>4 DEF AnswerComing
  <2>6. requests' = requests /\ req' = req /\ reader' = reader
    BY <1>6
  <2>7. ASSUME NEW i \in 1..Len(inbox')
        PROVE  /\ inbox'[i].of = req'
               /\ inbox'[i].head <=> i = 1 /\ reader'["main"].pc = "head"
               /\ inbox'[i].left = n - i
    BY <2>3, <2>6 DEF AnswerWord
  <2>8. ASSUME NEW i \in 1..Len(writing'["worker"])
        PROVE  /\ writing'["worker"][i].of = req'
               /\ writing'["worker"][i].head <=>
                    Len(inbox') + i = 1 /\ reader'["main"].pc = "head"
               /\ writing'["worker"][i].left = n - (Len(inbox') + i)
    BY <1>8, <2>4, <2>6 DEF AnswerWord
  <2> QED
    BY <1>8, <2>2, <2>5, <2>6, <2>7, <2>8 DEF AnswerComing, AnswerWord
<1> QED
  BY <1>9, <1>11 DEF CleanInv, StreamInv

\* A notifier moves one word into the socket: a header where the last
\* notification is complete, a payload where it is not.  Anything else, and
\* any word while the main thread waits, is a disturbance.
LEMMA NotifierWriteClean ==
  ASSUME WireTypeOK, CleanInv, ~Disturbance, ~Disturbance',
         NEW n \in Notifiers, Write(n)
  PROVE  CleanInv'
<1>1. n \in Writers /\ n # "worker"
  BY NotifierIsWriter
<1>2. UNCHANGED <<requests, connection, req, reader, reqLock>>
  BY DEF Write
<1>3. writing[n] \in Rests /\ writing[n] # <<>>
  BY DEF CleanInv, NotifiersInv, Write
<1>4. PICK rest : rest = IF connection = "closed" THEN <<>> ELSE Tail(writing[n])
  OBVIOUS
<1>5. writing' = [writing EXCEPT ![n] = rest]
  BY <1>4 DEF Write
<1>6. /\ writing'[n] = rest
      /\ \A v \in Writers \ {n} : writing'[v] = writing[v]
  BY <1>1, <1>5 DEF WireTypeOK
<1>7. rest \in {<<>>, <<NoWord>>}
  BY <1>3, <1>4, RestFacts
<1>8. NotifiersInv'
  <2>1. ASSUME NEW v \in Notifiers PROVE writing'[v] \in Rests
    BY <1>6, <1>7, NotifierIsWriter DEF CleanInv, NotifiersInv, Rests
  <2> QED
    BY <2>1 DEF NotifiersInv
<1>9. writing'["worker"] = writing["worker"]
  BY <1>1, <1>6 DEF Writers
<1>10. ReadersInv' /\ LogoutInv'
  BY <1>2, <1>9 DEF CleanInv, ReadersInv, LogoutInv
<1>11. AwaitingAnswer' <=> AwaitingAnswer
  BY <1>2 DEF AwaitingAnswer
<1>12. CASE connection = "closed"
  <2>1. inbox' = inbox
    BY <1>12 DEF Write
  <2>2. writing'[n] = <<>>
    BY <1>4, <1>6, <1>12
  <2>3. CASE AwaitingAnswer
    <3>1. ~NotifierMidway'
      BY <1>6, <2>2, <2>3, NotifierIsWriter
      DEF CleanInv, StreamInv, NotifierMidway, Midway
    <3>2. RequestSent => RequestSent'
      BY <1>2, <1>9, <2>1 DEF RequestSent
    <3>3. \A k \in Nat : AnswerComing(k) => AnswerComing(k)'
      BY <1>2, <1>9, <2>1 DEF AnswerComing, AnswerWord
    <3>4. RequestSent \/ \E k \in Nat \ {0} : AnswerComing(k)
      BY <2>3 DEF CleanInv, StreamInv
    <3> QED
      BY <1>8, <1>10, <1>11, <2>3, <3>1, <3>2, <3>3, <3>4 DEF CleanInv, StreamInv
  <2>4. CASE ~AwaitingAnswer
    <3>1. NoticesFramed'
      BY <1>2, <1>12, <2>1, <2>4 DEF CleanInv, StreamInv, NoticesFramed
    <3> QED
      BY <1>2, <1>8, <1>9, <1>10, <1>11, <2>4, <3>1 DEF CleanInv, StreamInv
  <2> QED
    BY <2>3, <2>4
<1>13. CASE connection # "closed"
  <2>1. /\ Len(inbox') = Len(inbox) + 1 /\ Len(inbox) \in Nat
        /\ \A i \in 1..Len(inbox) : inbox'[i] = inbox[i]
        /\ inbox'[Len(inbox) + 1] = writing[n][1]
        /\ inbox' \in Seq(Word)
    <3>1. inbox' = Append(inbox, Head(writing[n])) /\ Head(writing[n]) \in Word
      BY <1>1, <1>13, WriteFacts, TakeFirst
    <3> QED
      BY <1>1, <1>13, <3>1, WriteFacts, AddLast DEF WireTypeOK
  <2>2. PICK last : last = writing[n][1]
    OBVIOUS
  <2>3. last \in {NoticeHead, NoWord} /\ (last = NoWord <=> writing[n] = <<NoWord>>)
    <3>1. Head(writing[n]) = writing[n][1]
      BY <1>1, <1>3 DEF WireTypeOK
    <3> QED
      BY <1>3, <2>2, <3>1, RestFacts
  <2>4. last.of = "notice" /\ (last.head <=> last = NoticeHead)
    BY <2>3 DEF NoticeHead, NoWord
  <2>5. ~AwaitingAnswer
    <3>1. Len(inbox) + 1 \in DOMAIN inbox' /\ inbox'[Len(inbox) + 1].of = "notice"
      BY <2>1, <2>2, <2>4
    <3> QED
      BY <1>11, <3>1 DEF Disturbance
  <2>6. NoticesFramed
    BY <2>5 DEF CleanInv, StreamInv
  <2>7. Midway(n) <=> ~last.head
    BY <1>3, <2>3, <2>4, RestFacts DEF Midway, NoWord, NoticeHead
  <2>8. writing'[n] = IF last.head THEN <<NoWord>> ELSE <<>>
    BY <1>3, <1>4, <1>6, <1>13, <2>3, <2>4, RestFacts DEF NoWord, NoticeHead
  <2>9. Midway(n)' <=> last.head
    BY <2>8 DEF Midway, NoWord
  <2>10. \A v \in Notifiers \ {n} : Midway(v)' <=> Midway(v)
    BY <1>6, NotifierIsWriter DEF Midway
  <2>11. NotifierMidway <=> ~last.head
    <3>1. ASSUME last.head, NotifierMidway PROVE FALSE
      <4>1. PICK v \in Notifiers : Midway(v) /\ v # n
        BY <2>7, <3>1 DEF NotifierMidway
      <4>2. Midway(v)' /\ Midway(n)'
        BY <2>9, <2>10, <3>1, <4>1
      <4>3. v \in Writers
        BY NotifierIsWriter
      <4> QED
        BY <1>1, <4>1, <4>2, <4>3 DEF Disturbance
    <3> QED
      BY <2>7, <3>1 DEF NotifierMidway
  <2>12. NotifierMidway' <=> last.head
    <3>1. ASSUME ~last.head, NotifierMidway' PROVE FALSE
      <4>1. PICK v \in Notifiers : Midway(v)'
        BY <3>1 DEF NotifierMidway
      <4>2. v # n /\ Midway(v) /\ Midway(n)
        BY <2>7, <2>9, <2>10, <3>1, <4>1
      <4> QED
        BY <1>1, <4>2, NotifierIsWriter DEF Disturbance
    <3> QED
      BY <2>9, <3>1 DEF NotifierMidway
  <2>13. CutOff <=> ~last.head
    BY <1>13, <2>6, <2>11 DEF NoticesFramed
  <2>14. NoticesFramed'
    <3>1. inbox' # <<>> /\ inbox'[Len(inbox')] = last
      BY <2>1, <2>2
    <3>2. CutOff' <=> last.head
      BY <3>1 DEF CutOff
    <3>3. ASSUME NEW i \in 1..Len(inbox') PROVE inbox'[i] \in {NoticeHead, NoWord}
      BY <2>1, <2>2, <2>3, <2>6 DEF NoticesFramed
    <3>4. ASSUME NEW i \in 1..Len(inbox'), i < Len(inbox')
          PROVE  inbox'[i].head <=> ~inbox'[i + 1].head
      <4>1. i \in 1..Len(inbox)
        BY <2>1, <3>4
      <4>2. CASE i < Len(inbox)
        <5>1. inbox'[i] = inbox[i] /\ inbox'[i + 1] = inbox[i + 1]
          <6>1. PICK length \in Nat : length = Len(inbox)
            BY <2>1
          <6>2. i + 1 \in 1..length
            BY <4>1, <4>2, <6>1
          <6> QED
            BY <2>1, <4>1, <6>1, <6>2
        <5> QED
          BY <2>6, <4>1, <4>2, <5>1 DEF NoticesFramed
      <4>3. CASE i = Len(inbox)
        <5>1. inbox'[i] = inbox[Len(inbox)] /\ inbox'[i + 1] = last /\ inbox # <<>>
          BY <2>1, <2>2, <4>1, <4>3
        <5> QED
          BY <2>13, <5>1 DEF CutOff
      <4> QED
        BY <2>1, <4>1, <4>2, <4>3
    <3>5. inbox'[1].head <=> reader'["listener"].pc # "body"
      <4>1. CASE inbox = <<>>
        <5>1. inbox'[1] = last
          BY <2>1, <2>2, <4>1
        <5> QED
          BY <1>2, <2>13, <4>1, <5>1 DEF CutOff
      <4>2. CASE inbox # <<>>
        <5>1. inbox'[1] = inbox[1]
          BY <2>1, <4>2 DEF WireTypeOK
        <5> QED
          BY <1>2, <2>6, <4>2, <5>1 DEF NoticesFramed
      <4> QED
        BY <4>1, <4>2
    <3> QED
      BY <2>12, <3>2, <3>3, <3>4, <3>5 DEF NoticesFramed
  <2> QED
    BY <1>2, <1>8, <1>9, <1>10, <1>11, <2>5, <2>14 DEF CleanInv, StreamInv
<1> QED
  BY <1>12, <1>13

\* A notifier that has found the client has two words to write.
LEMMA PushClean ==
  ASSUME WireTypeOK, CleanInv, NEW n \in Notifiers, Push(n)
  PROVE  CleanInv'
<1>1. /\ writing[n] = <<>>
      /\ writing' = [writing EXCEPT ![n] = <<NoticeHead, NoWord>>]
      /\ UNCHANGED <<inbox, requests, registered, connection, req, reader, reqLock>>
  BY NoticeIs DEF Push
<1>2. /\ writing'[n] = <<NoticeHead, NoWord>>
      /\ \A v \in Writers \ {n} : writing'[v] = writing[v]
  BY <1>1, NotifierIsWriter DEF WireTypeOK
<1>3. writing'["worker"] = writing["worker"]
  BY <1>2, NotifierIsWriter DEF Writers
<1>4. NotifiersInv'
  <2>1. ASSUME NEW v \in Notifiers PROVE writing'[v] \in Rests
    BY <1>2, NotifierIsWriter DEF CleanInv, NotifiersInv, Rests
  <2> QED
    BY <2>1 DEF NotifiersInv
<1>5. \A v \in Notifiers : Midway(v)' <=> Midway(v)
  <2>1. ASSUME NEW v \in Notifiers PROVE Midway(v)' <=> Midway(v)
    <3>1. CASE v = n
      <4>1. ~Midway(n) /\ Head(<<NoticeHead, NoWord>>).head
        BY <1>1 DEF Midway, NoticeHead
      <4> QED
        BY <1>2, <3>1, <4>1 DEF Midway
    <3>2. CASE v # n
      BY <1>2, <3>2, NotifierIsWriter DEF Midway
    <3> QED
      BY <3>1, <3>2
  <2> QED
    BY <2>1
<1>6. NotifierMidway' <=> NotifierMidway
  BY <1>5 DEF NotifierMidway
<1>7. ReadersInv' /\ LogoutInv'
  BY <1>1, <1>3 DEF CleanInv, ReadersInv, LogoutInv
<1>8. AwaitingAnswer' <=> AwaitingAnswer
  BY <1>1 DEF AwaitingAnswer
<1>9. RequestSent => RequestSent'
  BY <1>1, <1>3 DEF RequestSent
<1>10. \A k \in Nat : AnswerComing(k) => AnswerComing(k)'
  BY <1>1, <1>3 DEF AnswerComing, AnswerWord
<1>11. NoticesFramed => NoticesFramed'
  BY <1>1, <1>6 DEF NoticesFramed, CutOff
<1>12. StreamInv
  BY DEF CleanInv
<1>13. StreamInv'
  BY <1>1, <1>3, <1>6, <1>8, <1>9, <1>10, <1>11, <1>12 DEF StreamInv
<1> QED
  BY <1>4, <1>7, <1>13 DEF CleanInv

\* The user chooses the next request; no word of an answer is left over.
LEMMA ChooseClean ==
  ASSUME WireTypeOK, CleanInv, Choose
  PROVE  CleanInv'
<1>1. /\ reader["main"].pc = "menu" /\ Goto("main", "lock")
      /\ "lock" \in Labels /\ "main" \in Readers
      /\ UNCHANGED <<inbox, requests, writing, registered, connection, notices, reqLock>>
  BY DEF Choose, server, Labels, Readers
<1>2. /\ reader'["main"].pc = "lock" /\ reader'["main"].word = NoWord
      /\ reader'["listener"] = reader["listener"]
  BY <1>1, GotoFacts DEF Readers
<1>3. NotifiersInv' /\ ReadersInv' /\ LogoutInv'
  BY <1>1, <1>2
  DEF CleanInv, NotifiersInv, ReadersInv, LogoutInv, Readers
<1>4. ~AwaitingAnswer /\ ~AwaitingAnswer'
  BY <1>1, <1>2 DEF AwaitingAnswer
<1>5. StreamInv'
  BY <1>1, <1>2, <1>4, SameStream DEF CleanInv
<1> QED
  BY <1>3, <1>5 DEF CleanInv

\* The main thread has got req_lock, so the listener is not in the middle of
\* a notification; and if the socket is not empty, they have crossed.
LEMMA SendClean ==
  ASSUME WireTypeOK, LockInv, CleanInv, ~Disturbance', Send
  PROVE  CleanInv'
<1>1. /\ reader["main"].pc = "lock" /\ Goto("main", "head")
      /\ "head" \in Labels /\ "main" \in Readers
      /\ reqLock = "nobody" /\ requests' = Append(requests, req)
      /\ UNCHANGED <<inbox, writing, registered, connection, notices, req>>
  BY DEF Send, Labels, Readers
<1>2. /\ reader'["main"].pc = "head" /\ reader'["main"].word = NoWord
      /\ reader'["listener"] = reader["listener"]
  BY <1>1, GotoFacts DEF Readers
<1>3. ~AwaitingAnswer /\ AwaitingAnswer'
  BY <1>1, <1>2 DEF AwaitingAnswer
<1>4. connection = "open"
  BY <1>1 DEF CleanInv, LogoutInv
<1>5. requests = <<>> /\ writing["worker"] = <<>> /\ NoticesFramed
  BY <1>3 DEF CleanInv, StreamInv
<1>6. inbox' = <<>> /\ inbox = <<>>
  <2>1. ASSUME inbox # <<>> PROVE FALSE
    <3>1. 1 \in DOMAIN inbox' /\ inbox'[1] \in {NoticeHead, NoWord}
      BY <1>1, <1>5, <2>1 DEF NoticesFramed, WireTypeOK
    <3>2. inbox'[1].of = "notice"
      BY <3>1 DEF NoticeHead, NoWord
    <3> QED
      BY <1>3, <3>1, <3>2 DEF Disturbance
  <2> QED
    BY <1>1, <2>1
<1>7. reader["listener"].pc # "body"
  BY <1>1 DEF LockInv, Readers
<1>8. ~NotifierMidway'
  <2>1. ~NotifierMidway
    BY <1>4, <1>5, <1>6, <1>7 DEF NoticesFramed, CutOff
  <2> QED
    BY <1>1, <2>1 DEF NotifierMidway, Midway
<1>9. NotifiersInv' /\ ReadersInv' /\ LogoutInv'
  BY <1>1, <1>2, <1>4
  DEF CleanInv, NotifiersInv, ReadersInv, LogoutInv, Readers
<1>10. RequestSent'
  <2>1. requests' = <<req>>
    BY <1>1, <1>5
  <2> QED
    BY <1>1, <1>2, <1>5, <1>6, <2>1 DEF RequestSent
<1> QED
  BY <1>3, <1>8, <1>9, <1>10 DEF CleanInv, StreamInv

\* The listener on its way to recv_msg and back.
LEMMA ListenerMovesClean ==
  ASSUME WireTypeOK, LockInv, CleanInv,
         Select \/ TryLock \/ ListenerEnds \/ ListenerEof
  PROVE  CleanInv'
<1>1. PICK label \in Labels :
        /\ Goto("listener", label)
        /\ label \notin {"body", "lost"}
  BY DEF Select, TryLock, ListenerEnds, ListenerEof, Labels
<1>2. "listener" \in Readers
  BY DEF Readers
<1>3. UNCHANGED <<inbox, requests, writing, registered, connection, notices, req>>
  BY DEF Select, TryLock, ListenerEnds, ListenerEof, server
<1>4. /\ reader'["listener"].pc = label /\ reader'["listener"].word = NoWord
      /\ reader'["main"] = reader["main"]
  BY <1>1, <1>2, GotoFacts DEF Readers
<1>5. NotifiersInv' /\ ReadersInv' /\ LogoutInv'
  BY <1>1, <1>3, <1>4
  DEF CleanInv, NotifiersInv, ReadersInv, LogoutInv, Readers, NoWord
<1>6. AwaitingAnswer' <=> AwaitingAnswer
  BY <1>4 DEF AwaitingAnswer
<1>7. CASE reader["listener"].pc # "body"
  <2>1. StreamInv'
    BY <1>1, <1>3, <1>4, <1>6, <1>7, SameStream DEF CleanInv
  <2> QED
    BY <1>5, <2>1 DEF CleanInv
<1>8. CASE reader["listener"].pc = "body"
  <2>1. ListenerEof
    BY <1>8 DEF Select, TryLock, ListenerEnds
  <2>2. inbox = <<>> /\ connection = "closed"
    BY <2>1 DEF ListenerEof
  <2>3. ~AwaitingAnswer
    BY <1>8 DEF LockInv, Readers, AwaitingAnswer
  <2>4. NoticesFramed'
    BY <1>3, <2>2 DEF NoticesFramed
  <2> QED
    BY <1>3, <1>5, <1>6, <2>3, <2>4 DEF CleanInv, StreamInv
<1> QED
  BY <1>7, <1>8

\* The main thread reads its answer: a header, and the payload if it has one.
LEMMA MainReadsClean ==
  ASSUME WireTypeOK, LockInv, CleanInv, ReadHead("main") \/ ReadBody("main")
  PROVE  CleanInv'
<1>1. "main" \in Readers /\ "listener" \in Readers
  BY DEF Readers
<1>2. AwaitingAnswer /\ reader["listener"].pc \notin {"head", "body", "lost"}
  BY <1>1 DEF ReadHead, ReadBody, AwaitingAnswer, LockInv
<1>3. /\ inbox # <<>> /\ inbox' = Tail(inbox)
      /\ UNCHANGED <<requests, writing, registered, connection, notices, req>>
  BY DEF ReadHead, ReadBody, server
<1>4. PICK n \in Nat \ {0} : AnswerComing(n)
  BY <1>2, <1>3 DEF CleanInv, StreamInv, RequestSent
<1>5. PICK word \in Word : word = inbox[1] /\ AnswerWord(word, 1, n)
  <2>1. inbox \in Seq(Word)
    BY DEF WireTypeOK
  <2>2. 1 \in 1..Len(inbox) /\ inbox[1] \in Word
    BY <1>3, <2>1
  <2> QED
    BY <1>4, <2>2 DEF AnswerComing
<1>6. /\ requests' = <<>> /\ ~NotifierMidway'
      /\ NotifiersInv' /\ reader \in [Readers -> ReaderState]
  BY <1>2, <1>3, <1>4
  DEF CleanInv, StreamInv, AnswerComing, NotifierMidway, Midway, NotifiersInv,
      WireTypeOK, ReaderState, Labels
<1>7. req \in Requests /\ req # "notice"
  BY DEF WireTypeOK
<1>8. ASSUME NEW last \in Word, last.of = req, n = 1, Received("main", last)
      PROVE  CleanInv'
  <2>1. inbox' = <<>> /\ writing'["worker"] = <<>>
    <3>1. inbox \in Seq(Word) /\ writing["worker"] \in Seq(Word)
      BY DEF WireTypeOK, Writers
    <3>2. Len(inbox) = 1 /\ Len(writing["worker"]) = 0
      <4>1. Len(inbox) \in Nat \ {0} /\ Len(writing["worker"]) \in Nat
        BY <1>3, <3>1
      <4>2. 1 = Len(inbox) + Len(writing["worker"])
        BY <1>4, <1>8 DEF AnswerComing
      <4> QED
        <5>1. PICK a \in Nat \ {0}, b \in Nat :
                a = Len(inbox) /\ b = Len(writing["worker"])
          BY <4>1
        <5>2. 1 = a + b
          BY <4>2, <5>1
        <5>3. a = 1 /\ b = 0
          BY ONLY <5>1, <5>2
        <5> QED
          BY <5>1, <5>3
    <3> QED
      BY <1>3, <3>1, <3>2
  <2>2. /\ reader'["main"].pc \in {"menu", "ended"}
        /\ reader'["main"].pc = "menu" <=> req # "logout"
        /\ reader'["main"].word = last
        /\ \/ reader'["listener"] = reader["listener"]
           \/ reader'["listener"] = At("loop")
    BY <1>1, <1>8, ReceivedFacts
  <2>3. At("loop").pc = "loop" /\ At("loop").word.of = "notice"
    BY DEF At, NoWord
  <2>4. ReadersInv'
    BY <1>2, <1>3, <1>8, <2>2, <2>3 DEF CleanInv, ReadersInv, Readers
  <2>5. LogoutInv'
    BY <1>3, <1>6, <2>1, <2>2 DEF CleanInv, LogoutInv
  <2>6. ~AwaitingAnswer'
    BY <2>2 DEF AwaitingAnswer
  <2>7. NoticesFramed'
    BY <1>2, <1>6, <2>1, <2>2, <2>3 DEF NoticesFramed, CutOff
  <2> QED
    BY <1>6, <2>1, <2>4, <2>5, <2>6, <2>7 DEF CleanInv, StreamInv
<1>9. ASSUME n > 1, reader'["main"].pc = "body", reader'["main"].want = n - 1,
             reader'["main"].word.of = req, connection = "open",
             reader'["listener"] = reader["listener"]
      PROVE  CleanInv'
  <2>1. ReadersInv'
    BY <1>2, <1>3, <1>9 DEF CleanInv, ReadersInv, Readers
  <2>2. LogoutInv'
    BY <1>3, <1>9 DEF LogoutInv
  <2>3. AnswerComing(n - 1)'
    <3>1. inbox \in Seq(Word) /\ writing["worker"] \in Seq(Word)
      BY DEF WireTypeOK, Writers
    <3>2. /\ Len(inbox') = Len(inbox) - 1 /\ Len(inbox) \in Nat
          /\ \A i \in 1..(Len(inbox) - 1) : inbox'[i] = inbox[i + 1]
      BY <1>3, <3>1, TakeFirst
    <3>3. n = Len(inbox) + Len(writing["worker"])
      BY <1>4 DEF AnswerComing
    <3>4. ASSUME NEW i \in 1..Len(inbox')
          PROVE  inbox'[i].of = req /\ ~inbox'[i].head /\ inbox'[i].left = (n - 1) - i
      <4>1. i + 1 \in 1..Len(inbox) /\ inbox'[i] = inbox[i + 1] /\ i + 1 # 1
        BY <3>2
      <4>2. AnswerWord(inbox[i + 1], i + 1, n)
        BY <1>4, <4>1 DEF AnswerComing
      <4>3. inbox'[i].of = req /\ ~inbox'[i].head /\ inbox'[i].left = n - (i + 1)
        BY <4>1, <4>2 DEF AnswerWord
      <4>4. n - (i + 1) = (n - 1) - i
        BY <3>2
      <4> QED
        BY <4>3, <4>4
    <3>5. ASSUME NEW i \in 1..Len(writing["worker"])
          PROVE  /\ writing["worker"][i].of = req /\ ~writing["worker"][i].head
                 /\ writing["worker"][i].left = (n - 1) - (Len(inbox') + i)
      <4>1. AnswerWord(writing["worker"][i], Len(inbox) + i, n)
        BY <1>4 DEF AnswerComing
      <4>2. Len(inbox) + i # 1 /\ n - (Len(inbox) + i) = (n - 1) - (Len(inbox') + i)
        BY <1>3, <3>1, <3>2
      <4> QED
        BY <4>1, <4>2 DEF AnswerWord
    <3>6. n - 1 = Len(inbox') + Len(writing["worker"])
      BY <3>1, <3>2, <3>3
    <3> QED
      BY <1>3, <1>6, <1>9, <3>4, <3>5, <3>6 DEF AnswerComing, AnswerWord
  <2>4. AwaitingAnswer' /\ n - 1 \in Nat \ {0}
    BY <1>9 DEF AwaitingAnswer
  <2> QED
    BY <1>6, <2>1, <2>2, <2>3, <2>4 DEF CleanInv, StreamInv
<1>10. CASE ReadHead("main")
  <2>1. reader["main"].pc = "head"
    BY <1>10 DEF ReadHead
  <2>2. word.head /\ word.of = req /\ word.left = n - 1
    BY <1>5, <2>1 DEF AnswerWord
  <2>3. n - 1 \in {0, AnswerSize[req]} /\ MaxRoom("main") \in Nat /\ n - 1 <= MaxRoom("main")
    <3>1. n - 1 \in {0, AnswerSize[req]}
      BY <1>4, <2>1 DEF AnswerComing
    <3>2. Room[req] \in Nat /\ AnswerSize[req] <= Room[req] /\ MaxRoom("main") = Room[req]
      BY <1>7 DEF MaxRoom
    <3> QED
      BY <3>1, <3>2
  <2>4. \/ (word.left = 0 \/ MaxRoom("main") = 0) /\ Received("main", word)
        \/ \E want \in 1..MaxRoom("main") :
             /\ want <= word.left
             /\ want = word.left \/ want = MaxRoom("main")
             /\ reader' = [reader EXCEPT !["main"] =
                  [pc |-> "body", word |-> word, want |-> want]]
    <3>1. PICK first \in Word :
            /\ first = inbox[1]
            /\ \/ ~first.head
               \/ (first.left = 0 \/ MaxRoom("main") = 0) /\ Received("main", first)
               \/ \E want \in 1..MaxRoom("main") :
                    /\ want <= first.left
                    /\ want = first.left \/ want = MaxRoom("main")
                    /\ reader' = [reader EXCEPT !["main"] =
                         [pc |-> "body", word |-> first, want |-> want]]
      BY <1>1, <1>10, ReadHeadCases
    <3>2. first = word
      BY <1>5, <3>1
    <3> QED
      BY <2>2, <3>1, <3>2
  <2>5. CASE (word.left = 0 \/ MaxRoom("main") = 0) /\ Received("main", word)
    BY <1>8, <2>2, <2>3, <2>5
  <2>6. CASE \E want \in 1..MaxRoom("main") :
               /\ want <= word.left
               /\ want = word.left \/ want = MaxRoom("main")
               /\ reader' = [reader EXCEPT !["main"] =
                    [pc |-> "body", word |-> word, want |-> want]]
    <3>1. PICK want \in 1..MaxRoom("main") :
            /\ want <= word.left
            /\ want = word.left \/ want = MaxRoom("main")
            /\ reader' = [reader EXCEPT !["main"] =
                 [pc |-> "body", word |-> word, want |-> want]]
      BY <2>6
    <3>2. want = n - 1 /\ n > 1
      BY <2>2, <2>3, <3>1
    <3>3. /\ reader'["main"].pc = "body" /\ reader'["main"].want = n - 1
          /\ reader'["main"].word.of = req
          /\ reader'["listener"] = reader["listener"]
      BY <1>1, <1>6, <2>2, <3>1, <3>2
    <3>4. connection = "open"
      BY <2>3, <3>2 DEF CleanInv, LogoutInv
    <3> QED
      BY <1>9, <3>2, <3>3, <3>4
  <2> QED
    BY <2>4, <2>5, <2>6
<1>11. CASE ReadBody("main")
  <2>1. reader["main"].pc = "body"
    BY <1>11 DEF ReadBody
  <2>2. ~word.head /\ word.of = req
    BY <1>5, <2>1 DEF AnswerWord
  <2>3. /\ reader["main"].want = n /\ reader["main"].word.of = req
        /\ reader["main"].word \in Word
    BY <1>1, <1>4, <1>6, <2>1 DEF AnswerComing, ReaderState
  <2>4. connection = "open"
    BY <2>1 DEF CleanInv, LogoutInv
  <2>5. \/ reader["main"].want = 1 /\ Received("main", reader["main"].word)
        \/ /\ reader["main"].want > 1
           /\ reader' = [reader EXCEPT !["main"].want = reader["main"].want - 1]
    BY <1>1, <1>5, <1>11, <2>2, <2>3, ReadBodyCases
  <2>6. CASE reader["main"].want = 1 /\ Received("main", reader["main"].word)
    BY <1>8, <2>3, <2>6
  <2>7. CASE /\ reader["main"].want > 1
             /\ reader' = [reader EXCEPT !["main"].want = reader["main"].want - 1]
    <3>1. /\ reader'["main"].pc = "body" /\ reader'["main"].want = n - 1
          /\ reader'["main"].word.of = req
          /\ reader'["listener"] = reader["listener"]
      BY <1>1, <1>6, <2>1, <2>3, <2>7 DEF ReaderState
    <3> QED
      BY <1>9, <2>3, <2>4, <2>7, <3>1
  <2> QED
    BY <2>5, <2>6, <2>7
<1> QED
  BY <1>10, <1>11

\* The listener reads a notification: a header where it looks for one, then
\* the payload.
LEMMA ListenerReadsClean ==
  ASSUME WireTypeOK, LockInv, CleanInv, ReadHead("listener") \/ ReadBody("listener")
  PROVE  CleanInv'
<1>1. "main" \in Readers /\ "listener" \in Readers
  BY DEF Readers
<1>2. ~AwaitingAnswer
  BY <1>1 DEF ReadHead, ReadBody, AwaitingAnswer, LockInv
<1>3. /\ inbox # <<>> /\ inbox' = Tail(inbox)
      /\ UNCHANGED <<requests, writing, registered, connection, notices, req>>
  BY DEF ReadHead, ReadBody, server
<1>4. requests = <<>> /\ writing["worker"] = <<>> /\ NoticesFramed
  BY <1>2 DEF CleanInv, StreamInv
<1>5. /\ inbox \in Seq(Word) /\ Len(inbox) \in Nat \ {0} /\ Len(inbox') = Len(inbox) - 1
      /\ \A i \in 1..(Len(inbox) - 1) : inbox'[i] = inbox[i + 1]
  BY <1>3, TakeFirst DEF WireTypeOK
<1>6. /\ reader \in [Readers -> ReaderState]
      /\ NotifiersInv' /\ (NotifierMidway' <=> NotifierMidway)
  BY <1>3
  DEF CleanInv, NotifiersInv, NotifierMidway, Midway, WireTypeOK, ReaderState, Labels
\* A header in, a payload next, or the other way round.
<1>7. ASSUME reader'["listener"].pc = "body" <=> inbox[1].head,
             reader'["main"] = reader["main"]
      PROVE  StreamInv'
  <2>1. ASSUME NEW i \in 1..Len(inbox') PROVE inbox'[i] \in {NoticeHead, NoWord}
    <3>1. i + 1 \in 1..Len(inbox) /\ inbox'[i] = inbox[i + 1]
      BY <1>5
    <3> QED
      BY <1>4, <3>1 DEF NoticesFramed
  <2>2. ASSUME NEW i \in 1..Len(inbox'), i < Len(inbox')
        PROVE  inbox'[i].head <=> ~inbox'[i + 1].head
    <3>1. /\ i + 1 \in 1..Len(inbox) /\ i + 1 < Len(inbox)
          /\ inbox'[i] = inbox[i + 1] /\ inbox'[i + 1] = inbox[(i + 1) + 1]
      BY <1>5, <2>2
    <3> QED
      BY <1>4, <3>1 DEF NoticesFramed
  <2>3. ASSUME inbox' # <<>>
        PROVE  inbox'[1].head <=> reader'["listener"].pc # "body"
    <3>1. Len(inbox) > 1 /\ 1 \in 1..Len(inbox)
      BY <1>3, <1>5, <2>3
    <3>2. inbox[1].head <=> ~inbox[1 + 1].head
      BY <1>4, <3>1 DEF NoticesFramed
    <3>3. inbox'[1] = inbox[1 + 1]
      BY <1>5, <3>1
    <3> QED
      BY <1>7, <3>2, <3>3
  <2>4. CutOff' <=> CutOff
    <3>1. CASE inbox' = <<>>
      <4>1. Len(inbox) = 1
        BY <1>5, <3>1
      <4> QED
        BY <1>3, <1>7, <3>1, <4>1 DEF CutOff
    <3>2. CASE inbox' # <<>>
      <4>1. Len(inbox') \in 1..(Len(inbox) - 1) /\ Len(inbox') + 1 = Len(inbox)
        BY <1>3, <1>5, <3>2
      <4>2. inbox'[Len(inbox')] = inbox[Len(inbox)]
        BY <1>5, <4>1
      <4> QED
        BY <1>3, <3>2, <4>2 DEF CutOff
    <3> QED
      BY <3>1, <3>2
  <2>5. NoticesFramed'
    BY <1>3, <1>4, <1>6, <2>1, <2>2, <2>3, <2>4 DEF NoticesFramed
  <2>6. ~AwaitingAnswer'
    BY <1>2, <1>7 DEF AwaitingAnswer
  <2> QED
    BY <1>3, <1>4, <2>5, <2>6 DEF StreamInv
<1>8. ASSUME reader'["main"] = reader["main"],
             reader'["listener"].pc # "lost",
             reader'["listener"].word.of = "notice",
             reader'["listener"].pc = "body" => reader'["listener"].want = 1
      PROVE  ReadersInv' /\ LogoutInv'
  BY <1>3, <1>8 DEF CleanInv, ReadersInv, LogoutInv, Readers
<1>9. PICK word \in Word : word = inbox[1] /\ word \in {NoticeHead, NoWord}
  BY <1>4, <1>5 DEF NoticesFramed
<1>10. word.of = "notice" /\ (word.head <=> reader["listener"].pc # "body")
  BY <1>3, <1>4, <1>9 DEF NoticesFramed, NoticeHead, NoWord
<1>11. CASE ReadHead("listener")
  <2>1. reader["listener"].pc = "head"
    BY <1>11 DEF ReadHead
  <2>2. word.head /\ word.left = 1
    BY <1>9, <1>10, <2>1 DEF NoticeHead, NoWord
  <2>3. MaxRoom("listener") \in Nat \ {0}
    BY DEF MaxRoom
  <2>4. \E want \in 1..MaxRoom("listener") :
          /\ want <= word.left
          /\ reader' = [reader EXCEPT !["listener"] =
               [pc |-> "body", word |-> word, want |-> want]]
    BY <1>1, <1>9, <1>11, <2>2, <2>3, ReadHeadCases
  <2>5. reader' = [reader EXCEPT !["listener"] =
          [pc |-> "body", word |-> word, want |-> 1]]
    <3>1. PICK want \in 1..MaxRoom("listener") :
            /\ want <= word.left
            /\ reader' = [reader EXCEPT !["listener"] =
                 [pc |-> "body", word |-> word, want |-> want]]
      BY <2>4
    <3>2. want = 1
      BY <2>2, <2>3, <3>1
    <3> QED
      BY <3>1, <3>2
  <2>6. /\ reader'["main"] = reader["main"]
        /\ reader'["listener"].pc = "body" /\ reader'["listener"].want = 1
        /\ reader'["listener"].word.of = "notice"
    BY <1>1, <1>6, <1>10, <2>5
  <2> QED
    BY <1>6, <1>7, <1>8, <1>9, <2>2, <2>6 DEF CleanInv
<1>12. CASE ReadBody("listener")
  <2>1. reader["listener"].pc = "body"
    BY <1>12 DEF ReadBody
  <2>2. /\ ~word.head /\ reader["listener"].word.of = "notice"
        /\ reader["listener"].want = 1 /\ reader["listener"].word \in Word
    BY <1>1, <1>6, <1>10, <2>1 DEF CleanInv, ReadersInv, ReaderState
  <2>3. Received("listener", reader["listener"].word)
    BY <1>1, <1>9, <1>10, <1>12, <2>2, ReadBodyCases
  <2>4. /\ reader'["listener"].pc = "loop"
        /\ reader'["listener"].word = reader["listener"].word
        /\ reader'["main"] = reader["main"]
    BY <1>1, <2>2, <2>3, ReceivedFacts
  <2> QED
    BY <1>6, <1>7, <1>8, <1>9, <2>2, <2>4 DEF CleanInv
<1> QED
  BY <1>11, <1>12

LEMMA CleanNext ==
  ASSUME WireTypeOK, LockInv, CleanInv, WireNext, ~Disturbance, ~Disturbance'
  PROVE  CleanInv'
<1>1. CASE \E w \in Writers : Write(w)
  BY <1>1, WorkerWriteClean, NotifierWriteClean DEF Writers
<1>2. CASE \E t \in Readers : ReadHead(t) \/ ReadBody(t)
  BY <1>2, MainReadsClean, ListenerReadsClean DEF Readers
<1>3. CASE \E n \in Notifiers : Push(n)
  BY <1>3, PushClean
<1> QED
  BY <1>1, <1>2, <1>3, WireSteps, ServeClean, CloseClean, ChooseClean, SendClean,
     ListenerMovesClean

-----------------------------------------------------------------------------
(* The wire: theorems                                                      *)

\* Every word is a header or a part of a payload, every thread of the client
\* is at a place of its code, and recv_msg never reads more of a payload than
\* the buffer it was given holds, whatever comes through the socket.
THEOREM WireTypeCorrect == WireSpec => []WireTypeOK
<1>1. WireInit => WireTypeOK
  BY WireInitType
<1>2. WireTypeOK /\ [WireNext]_wireVars => WireTypeOK'
  BY WireNextType
<1> QED
  BY <1>1, <1>2, PTL DEF WireSpec

\* req_lock does what it is for in client.c, disturbed or not: the two
\* threads are never both inside recv_msg, and whoever is there holds it.
THEOREM ReqLockHolds == WireSpec => []LockInv
<1>1. WireInit => LockInv
  BY WireInitClean
<1>2. WireTypeOK /\ LockInv /\ [WireNext]_wireVars => LockInv'
  BY LockNext
<1> QED
  BY <1>1, <1>2, WireTypeCorrect, PTL DEF WireSpec

\* As long as no notification has crossed a request, what is in the socket
\* is known word by word: while the main thread waits, the request or the
\* rest of its answer and nothing else; otherwise whole notifications, except
\* for the one that is being written or read.
THEOREM StreamHolds == WireSpec => []WireInv
<1>1. WireInit => WireInv
  <2>1. WireInit => ~crossed /\ ~Disturbance
    <3> SUFFICES ASSUME WireInit PROVE ~crossed /\ ~Disturbance
      OBVIOUS
    <3>1. ~crossed /\ inbox = <<>> /\ \A w \in Writers : writing[w] = <<>>
      BY DEF WireInit
    <3>2. ~AwaitingAnswer
      BY DEF WireInit, AwaitingAnswer, Readers, At
    <3> QED
      BY <3>1, <3>2 DEF Disturbance, Midway
  <2> QED
    BY <2>1, WireInitClean DEF WireInv
<1>2. WireTypeOK /\ WireInv /\ [WireNext]_wireVars => WireInv'
  <2> SUFFICES ASSUME WireTypeOK, WireInv, [WireNext]_wireVars PROVE WireInv'
    OBVIOUS
  <2>1. LockInv'
    BY LockNext DEF WireInv
  <2>2. CASE UNCHANGED wireVars
    <3>1. UNCHANGED <<inbox, requests, writing, registered, connection, req, reader,
                      reqLock, crossed>>
      BY <2>2 DEF wireVars, server
    <3>2. CleanInv => CleanInv'
      <4>1. StreamInv => StreamInv'
        BY <3>1, SameStream DEF AwaitingAnswer
      <4> QED
        BY <3>1, <4>1 DEF CleanInv, NotifiersInv, ReadersInv, LogoutInv
    <3>3. Disturbance' <=> Disturbance
      BY <3>1 DEF Disturbance, Midway, AwaitingAnswer
    <3> QED
      BY <2>1, <3>1, <3>2, <3>3 DEF WireInv
  <2>3. CASE WireNext
    <3>1. crossed' <=> crossed \/ Disturbance'
      BY <2>3 DEF WireNext
    <3>2. ASSUME ~crossed' PROVE CleanInv'
      BY <2>3, <3>1, <3>2, CleanNext DEF WireInv
    <3> QED
      BY <2>1, <3>1, <3>2 DEF WireInv
  <2> QED
    BY <2>2, <2>3
<1> QED
  BY <1>1, <1>2, WireTypeCorrect, PTL DEF WireSpec

\* "Listener thread also reads the same socket and steals the response"
\* (client.c) cannot happen unless a notification crosses a request: the main
\* thread gets the answer to what it asked, the listener notifications only.
THEOREM AnswersAlwaysMatched == WireSpec => []AnswersMatched
<1>1. WireInv => AnswersMatched
  BY DEF WireInv, CleanInv, ReadersInv, AnswersMatched
<1> QED
  BY <1>1, StreamHolds, PTL

-----------------------------------------------------------------------------
(* The wire: nobody waits for nothing                                      *)

\* A word that is taken from the socket, or one that is added to it, changes
\* nothing about which word of an answer comes next.
LEMMA NextShifts ==
  ASSUME WireTypeOK, inbox # <<>>, inbox' = Tail(inbox),
         writing'["worker"] = writing["worker"],
         NEW i \in Nat, NEW word, NextOfAnswer(i + 1, word)
  PROVE  NextOfAnswer(i, word)'
<1>1. /\ Len(inbox) \in Nat \ {0} /\ Len(inbox') = Len(inbox) - 1
      /\ \A k \in 1..(Len(inbox) - 1) : inbox'[k] = inbox[k + 1]
  BY TakeFirst DEF WireTypeOK
<1>2. ASSUME NEW j \in 1..Len(inbox), i + 1 < j, inbox[j] = word, word.of # "notice",
             \A k \in 1..Len(inbox) : i + 1 < k /\ k < j => inbox[k].of = "notice"
      PROVE  NextOfAnswer(i, word)'
  <2>1. PICK m \in 1..Len(inbox') : m = j - 1
    BY <1>1, <1>2
  <2>2. i < m /\ inbox'[m] = word
    BY <1>1, <1>2, <2>1
  <2>3. ASSUME NEW k \in 1..Len(inbox'), i < k, k < m PROVE inbox'[k].of = "notice"
    <3>1. k + 1 \in 1..Len(inbox) /\ i + 1 < k + 1 /\ k + 1 < j
      BY <1>1, <2>1, <2>3
    <3> QED
      BY <1>1, <1>2, <3>1
  <2> QED
    BY <1>2, <2>1, <2>2, <2>3 DEF NextOfAnswer
<1>3. ASSUME \A k \in 1..Len(inbox) : i + 1 < k => inbox[k].of = "notice",
             writing["worker"] # <<>>, word = writing["worker"][1]
      PROVE  NextOfAnswer(i, word)'
  <2>1. ASSUME NEW k \in 1..Len(inbox'), i < k PROVE inbox'[k].of = "notice"
    <3>1. k + 1 \in 1..Len(inbox) /\ i + 1 < k + 1
      BY <1>1, <2>1
    <3> QED
      BY <1>1, <1>3, <3>1
  <2> QED
    BY <1>3, <2>1 DEF NextOfAnswer
<1> QED
  BY <1>2, <1>3 DEF NextOfAnswer

LEMMA NextStays ==
  ASSUME WireTypeOK, NEW last \in Word, inbox' = Append(inbox, last),
         \/ last.of = "notice" /\ writing'["worker"] = writing["worker"]
         \/ last.of # "notice" /\ last = writing["worker"][1],
         NEW i \in 0..Len(inbox), NEW word, NextOfAnswer(i, word)
  PROVE  NextOfAnswer(i, word)'
<1>1. /\ Len(inbox) \in Nat /\ Len(inbox') = Len(inbox) + 1
      /\ \A k \in 1..Len(inbox) : inbox'[k] = inbox[k]
      /\ inbox'[Len(inbox) + 1] = last
  BY AddLast DEF WireTypeOK
<1>2. ASSUME NEW j \in 1..Len(inbox), i < j, inbox[j] = word, word.of # "notice",
             \A k \in 1..Len(inbox) : i < k /\ k < j => inbox[k].of = "notice"
      PROVE  NextOfAnswer(i, word)'
  <2>1. j \in 1..Len(inbox') /\ inbox'[j] = word
    BY <1>1, <1>2
  <2>2. ASSUME NEW k \in 1..Len(inbox'), i < k, k < j PROVE inbox'[k].of = "notice"
    <3>1. k \in 1..Len(inbox)
      BY <1>1, <2>2
    <3> QED
      BY <1>1, <1>2, <2>2, <3>1
  <2> QED
    BY <1>2, <2>1, <2>2 DEF NextOfAnswer
<1>3. ASSUME \A k \in 1..Len(inbox) : i < k => inbox[k].of = "notice",
             writing["worker"] # <<>>, word = writing["worker"][1]
      PROVE  NextOfAnswer(i, word)'
  <2>1. CASE last.of = "notice" /\ writing'["worker"] = writing["worker"]
    <3>1. ASSUME NEW k \in 1..Len(inbox'), i < k PROVE inbox'[k].of = "notice"
      <4>1. k \in 1..Len(inbox) \/ k = Len(inbox) + 1
        BY <1>1
      <4> QED
        BY <1>1, <1>3, <2>1, <3>1, <4>1
    <3> QED
      BY <1>3, <2>1, <3>1 DEF NextOfAnswer
  <2>2. CASE last.of # "notice" /\ last = writing["worker"][1]
    <3>1. PICK j \in 1..Len(inbox') : j = Len(inbox) + 1
      BY <1>1
    <3>2. i < j /\ inbox'[j] = word /\ word.of # "notice"
      BY <1>1, <1>3, <2>2, <3>1
    <3>3. ASSUME NEW k \in 1..Len(inbox'), i < k, k < j PROVE inbox'[k].of = "notice"
      <4>1. k \in 1..Len(inbox)
        BY <1>1, <3>1, <3>3
      <4> QED
        BY <1>1, <1>3, <3>3, <4>1
    <3> QED
      BY <3>2, <3>3 DEF NextOfAnswer
  <2> QED
    BY <2>1, <2>2
<1> QED
  BY <1>2, <1>3 DEF NextOfAnswer

\* The worker starts on an answer only when the last one is in the socket.
LEMMA NextWritten ==
  ASSUME writing["worker"] = <<>>, inbox' = inbox,
         NEW i, NEW word, NextOfAnswer(i, word)
  PROVE  NextOfAnswer(i, word)'
BY DEF NextOfAnswer

\* Steps that leave the socket and the worker alone.
LEMMA SameUnderway ==
  ASSUME WorkerInv, PayloadFollows, MainServed,
         inbox' = inbox, requests' = requests,
         writing'["worker"] = writing["worker"],
         \/ reader'["main"] = reader["main"]
         \/ reader'["main"].pc \notin {"head", "body"}
  PROVE  WorkerInv' /\ PayloadFollows' /\ MainServed'
<1>1. \A i \in Nat : \A word : NextOfAnswer(i, word)' <=> NextOfAnswer(i, word)
  BY DEF NextOfAnswer
<1>2. WorkerInv'
  BY DEF WorkerInv
<1>3. PayloadFollows'
  <2>1. \A i \in 1..Len(inbox) : i \in Nat
    OBVIOUS
  <2> QED
    BY <1>1, <2>1 DEF PayloadFollows
<1>4. AnswerPending' <=> AnswerPending
  BY DEF AnswerPending
<1>5. MainServed'
  <2>1. CASE reader'["main"] = reader["main"]
    <3>1. 0 \in Nat
      OBVIOUS
    <3> QED
      BY <1>1, <1>4, <2>1, <3>1 DEF MainServed
  <2>2. CASE reader'["main"].pc \notin {"head", "body"}
    BY <2>2 DEF MainServed
  <2> QED
    BY <2>1, <2>2
<1> QED
  BY <1>2, <1>3, <1>5

LEMMA WireInitUnderway == WireInit => UnderwayInv
<1> SUFFICES ASSUME WireInit PROVE UnderwayInv
  OBVIOUS
<1>1. /\ inbox = <<>> /\ requests = <<>> /\ connection = "open"
      /\ writing["worker"] = <<>> /\ reader["main"] = At("menu")
  BY DEF WireInit, Writers, Readers
<1>2. reader["main"].pc = "menu"
  BY <1>1 DEF At
<1>3. Len(inbox) = 0 /\ Len(requests) = 0 /\ Len(writing["worker"]) = 0
  BY <1>1
<1>4. \A i \in 1..0 : FALSE
  OBVIOUS
<1>5. LastRequestInv
  BY <1>1, <1>3, <1>4 DEF LastRequestInv
<1>6. WorkerInv /\ PayloadFollows
  BY <1>3, <1>4 DEF WorkerInv, PayloadFollows
<1>7. MainServed
  BY <1>2 DEF MainServed
<1>8. NotifiersInv
  BY WireInitClean DEF CleanInv
<1> QED
  BY <1>5, <1>6, <1>7, <1>8 DEF UnderwayInv

LEMMA ServeUnderway ==
  ASSUME WireTypeOK, UnderwayInv, Serve
  PROVE  LastRequestInv' /\ WorkerInv' /\ PayloadFollows' /\ MainServed'
<1>1. PICK size \in Nat :
        /\ requests # <<>> /\ writing["worker"] = <<>>
        /\ writing' = [writing EXCEPT !["worker"] = Message(requests[1], size)]
        /\ IsMessage(Message(requests[1], size), requests[1], size)
        /\ connection' = IF requests[1] = "logout" THEN "closing" ELSE connection
        /\ requests' = Tail(requests)
        /\ UNCHANGED <<inbox, req, reader, reqLock, notices>>
  BY ServeFacts
<1>2. /\ requests \in Seq(Requests) /\ Len(requests) \in Nat \ {0}
      /\ Len(requests') = Len(requests) - 1 /\ requests' \in Seq(Requests)
      /\ \A i \in 1..(Len(requests) - 1) : requests'[i] = requests[i + 1]
      /\ requests[1] \in Requests
  BY <1>1 DEF WireTypeOK
<1>3. PICK m : m = Message(requests[1], size)
  OBVIOUS
<1>4. writing'["worker"] = m /\ IsMessage(m, requests[1], size)
  BY <1>1, <1>3 DEF WireTypeOK, Writers
<1>5. LastRequestInv'
  <2>1. connection = "open"
    BY <1>1 DEF UnderwayInv, LastRequestInv
  <2>2. CASE requests[1] = "logout"
    <3>1. requests' = <<>>
      <4>1. Len(requests) = 1
        BY <1>2, <2>2 DEF UnderwayInv, LastRequestInv
      <4> QED
        BY <1>2, <4>1
    <3>2. req = "logout" /\ reader["main"].pc \in {"head", "body", "lost", "ended"}
      <4>1. 1 \in 1..Len(requests)
        BY <1>2
      <4> QED
        BY <2>2, <4>1 DEF UnderwayInv, LastRequestInv
    <3>3. connection' = "closing" /\ \A i \in 1..Len(requests') : FALSE
      <4>1. Len(requests') = 0 /\ \A i \in 1..0 : FALSE
        BY <3>1
      <4> QED
        BY <1>1, <2>2, <4>1
    <3> QED
      BY <1>1, <3>1, <3>2, <3>3 DEF LastRequestInv
  <2>3. CASE requests[1] # "logout"
    <3>1. connection' = "open"
      BY <1>1, <2>1, <2>3
    <3>2. ASSUME NEW i \in 1..Len(requests')
          PROVE  i + 1 \in 1..Len(requests) /\ requests'[i] = requests[i + 1]
      BY <1>2
    <3>3. ASSUME NEW i \in 1..Len(requests'), i < Len(requests')
          PROVE  requests'[i] # "logout"
      <4>1. i + 1 < Len(requests)
        BY <1>2, <3>3
      <4> QED
        BY <3>2, <4>1 DEF UnderwayInv, LastRequestInv
    <3>4. (\E i \in 1..Len(requests') : requests'[i] = "logout") =>
            req = "logout" /\ reader["main"].pc \in {"head", "body", "lost", "ended"}
      BY <3>2 DEF UnderwayInv, LastRequestInv
    <3> QED
      BY <1>1, <3>1, <3>3, <3>4 DEF LastRequestInv
  <2> QED
    BY <2>2, <2>3
<1>6. WorkerInv'
  <2>1. ASSUME NEW i \in 1..Len(m)
        PROVE  m[i].of # "notice" /\ (m[i].head => i = 1) /\ m[i].left = Len(m) - i
    <3>1. Len(m) = size + 1 /\ i \in 1..(size + 1)
      BY <1>4 DEF IsMessage
    <3>2. m[i].of = requests[1] /\ (m[i].head <=> i = 1) /\ m[i].left = size + 1 - i
      BY <1>4, <3>1 DEF IsMessage
    <3>3. requests[1] # "notice"
      BY <1>2
    <3> QED
      BY <3>1, <3>2, <3>3
  <2> QED
    BY <1>4, <2>1 DEF WorkerInv
<1>7. PayloadFollows'
  <2>1. ASSUME NEW i \in 1..Len(inbox), inbox[i].of # "notice", inbox[i].left > 0
        PROVE  \E word \in Word : /\ NextOfAnswer(i, word)'
                                  /\ ~word.head /\ word.left = inbox[i].left - 1
    <3>1. PICK word \in Word :
            NextOfAnswer(i, word) /\ ~word.head /\ word.left = inbox[i].left - 1
      BY <2>1 DEF UnderwayInv, PayloadFollows
    <3> QED
      BY <1>1, <3>1, NextWritten
  <2> QED
    BY <1>1, <2>1 DEF PayloadFollows
<1>8. AnswerPending'
  <2>1. m # <<>> /\ m[1].head
    BY <1>4 DEF IsMessage
  <2> QED
    BY <1>4, <2>1 DEF AnswerPending
<1>9. MainServed'
  <2>1. ASSUME reader["main"].pc = "body", reader["main"].word.of # "notice"
        PROVE  \E word \in Word : /\ NextOfAnswer(0, word)'
                                  /\ ~word.head /\ word.left >= reader["main"].want - 1
    <3>1. PICK word \in Word : /\ NextOfAnswer(0, word)
                               /\ ~word.head /\ word.left >= reader["main"].want - 1
      BY <2>1 DEF UnderwayInv, MainServed
    <3> QED
      BY <1>1, <3>1, NextWritten
  <2> QED
    BY <1>1, <1>8, <2>1 DEF MainServed
<1> QED
  BY <1>5, <1>6, <1>7, <1>9 DEF UnderwayInv

\* Steps of the client between a request and the last answer.
LEMMA LastRequestStays ==
  ASSUME LastRequestInv, UNCHANGED <<requests, connection>>,
         connection = "closed" => writing'["worker"] = writing["worker"],
         \/ req' = req /\ reader'["main"].pc = reader["main"].pc
         \/ req' = req /\ reader'["main"].pc \in {"head", "body", "lost", "ended"}
         \/ req # "logout"
         \/ reader["main"].pc = "menu"
  PROVE  LastRequestInv'
BY DEF LastRequestInv

\* The threads that notify write nothing but notifications, disturbed or not.
LEMMA NotifiersNext ==
  WireTypeOK /\ NotifiersInv /\ [WireNext]_wireVars => NotifiersInv'
<1> SUFFICES ASSUME WireTypeOK, NotifiersInv, [WireNext]_wireVars PROVE NotifiersInv'
  OBVIOUS
<1>1. ASSUME \A n \in Notifiers : writing'[n] = writing[n] PROVE NotifiersInv'
  BY <1>1 DEF NotifiersInv
<1>2. CASE Serve
  <2>1. PICK m : writing' = [writing EXCEPT !["worker"] = m]
    BY <1>2, ServeFacts
  <2> QED
    BY <1>1, <2>1, NotifierIsWriter DEF WireTypeOK
<1>3. CASE \E w \in Writers : Write(w)
  <2>1. PICK w \in Writers : \E rest \in {<<>>, Tail(writing[w])} :
          /\ writing[w] # <<>>
          /\ writing' = [writing EXCEPT ![w] = rest]
    BY <1>3 DEF Write
  <2>2. PICK rest \in {<<>>, Tail(writing[w])} :
          /\ writing[w] # <<>>
          /\ writing' = [writing EXCEPT ![w] = rest]
    BY <2>1
  <2>3. ASSUME NEW n \in Notifiers PROVE writing'[n] \in Rests
    <3>1. n \in Writers /\ writing[n] \in Rests
      BY NotifierIsWriter DEF NotifiersInv
    <3>2. CASE n = w
      <4>1. rest \in {<<>>, <<NoWord>>}
        BY <2>2, <3>1, <3>2, RestFacts
      <4> QED
        BY <2>2, <3>1, <3>2, <4>1 DEF WireTypeOK, Rests
    <3>3. CASE n # w
      BY <2>2, <3>1, <3>3 DEF WireTypeOK
    <3> QED
      BY <3>2, <3>3
  <2> QED
    BY <2>3 DEF NotifiersInv
<1>4. CASE \E n \in Notifiers : Push(n)
  <2>1. PICK n \in Notifiers : writing' = [writing EXCEPT ![n] = <<NoticeHead, NoWord>>]
    BY <1>4, NoticeIs DEF Push
  <2> QED
    BY <2>1, NotifierIsWriter DEF WireTypeOK, NotifiersInv, Rests
<1>5. CASE writing' = writing
  BY <1>1, <1>5
<1>6. CASE WireNext
  <2>1. Close \/ Choose \/ Send \/ Select \/ TryLock \/ ListenerEnds \/ ListenerEof
          \/ (\E t \in Readers : ReadHead(t) \/ ReadBody(t)) => writing' = writing
    BY DEF Close, Choose, Send, Select, TryLock, ListenerEnds, ListenerEof, ReadHead,
           ReadBody, server
  <2> QED
    BY <1>2, <1>3, <1>4, <1>5, <1>6, <2>1, WireSteps
<1> QED
  BY <1>5, <1>6 DEF wireVars, server

LEMMA WriteUnderway ==
  ASSUME WireTypeOK, UnderwayInv, NEW w \in Writers, Write(w)
  PROVE  LastRequestInv' /\ WorkerInv' /\ PayloadFollows' /\ MainServed'
<1>1. UNCHANGED <<requests, connection, req, reader>>
  BY DEF Write
<1>2. CASE connection = "closed"
  <2>1. inbox' = inbox /\ writing' = [writing EXCEPT ![w] = <<>>] /\ writing[w] # <<>>
    BY <1>2 DEF Write
  <2>2. writing["worker"] = <<>>
    BY <1>2 DEF UnderwayInv, LastRequestInv
  <2>3. writing'["worker"] = writing["worker"]
    BY <2>1, <2>2 DEF WireTypeOK, Writers
  <2>4. LastRequestInv'
    BY <1>1, <2>3, LastRequestStays DEF UnderwayInv
  <2> QED
    BY <1>1, <2>1, <2>3, <2>4, SameUnderway DEF UnderwayInv
<1>3. CASE connection # "closed"
  <2>1. /\ writing[w] \in Seq(Word) /\ writing[w] # <<>>
        /\ inbox' = Append(inbox, Head(writing[w]))
        /\ writing' = [writing EXCEPT ![w] = Tail(writing[w])]
        /\ Len(inbox') = Len(inbox) + 1
        /\ \A i \in 1..Len(inbox) : inbox'[i] = inbox[i]
        /\ inbox'[Len(inbox) + 1] = writing[w][1]
    BY <1>3, WriteFacts
  <2>2. PICK last \in Word : last = Head(writing[w]) /\ last = writing[w][1]
    BY <2>1, TakeFirst
  <2>3. Len(inbox) \in Nat
    BY DEF WireTypeOK
  <2>4. LastRequestInv'
    BY <1>1, <1>3, LastRequestStays DEF UnderwayInv
  <2>5. PICK s \in Seq(Word) : s = writing["worker"]
    BY DEF WireTypeOK, Writers
  <2>6. CASE w = "worker"
    <3>1. /\ Len(s) \in Nat \ {0} /\ Len(Tail(s)) = Len(s) - 1
          /\ \A i \in 1..(Len(s) - 1) : Tail(s)[i] = s[i + 1]
      BY <2>1, <2>5, <2>6, TakeFirst
    <3>2. writing'["worker"] = Tail(s)
      BY <2>1, <2>5, <2>6 DEF WireTypeOK, Writers
    <3>3. \A i \in 1..Len(s) :
            s[i].of # "notice" /\ (s[i].head => i = 1) /\ s[i].left = Len(s) - i
      BY <2>5 DEF UnderwayInv, WorkerInv
    <3>4. last = s[1] /\ last.of # "notice" /\ last.left = Len(s) - 1
      BY <2>2, <2>5, <2>6, <3>1, <3>3
    <3>5. WorkerInv'
      <4>1. ASSUME NEW i \in 1..Len(Tail(s))
            PROVE  /\ Tail(s)[i].of # "notice" /\ (Tail(s)[i].head => i = 1)
                   /\ Tail(s)[i].left = Len(Tail(s)) - i
        <5>1. i + 1 \in 1..Len(s) /\ Tail(s)[i] = s[i + 1] /\ i + 1 # 1
          BY <3>1
        <5> QED
          BY <3>1, <3>3, <5>1
      <4> QED
        BY <3>2, <4>1 DEF WorkerInv
    <3>6. \A i \in 0..Len(inbox) : \A word :
            NextOfAnswer(i, word) => NextOfAnswer(i, word)'
      BY <2>1, <2>2, <2>5, <3>4, NextStays
    <3>7. PayloadFollows'
      <4>1. ASSUME NEW i \in 1..Len(inbox'), inbox'[i].of # "notice", inbox'[i].left > 0
            PROVE  \E word \in Word : /\ NextOfAnswer(i, word)'
                                      /\ ~word.head /\ word.left = inbox'[i].left - 1
        <5>1. CASE i \in 1..Len(inbox)
          <6>1. PICK word \in Word :
                  NextOfAnswer(i, word) /\ ~word.head /\ word.left = inbox[i].left - 1
            BY <2>1, <4>1, <5>1 DEF UnderwayInv, PayloadFollows
          <6>2. i \in 0..Len(inbox)
            BY <5>1
          <6> QED
            BY <2>1, <3>6, <5>1, <6>1, <6>2
        <5>2. CASE i = Len(inbox) + 1
          <6>1. Len(s) > 1
            BY <2>1, <2>2, <3>1, <3>4, <4>1, <5>2
          <6>2. PICK word \in Word : word = Tail(s)[1] /\ word = s[1 + 1]
            BY <3>1, <6>1
          <6>3. 1 + 1 \in 1..Len(s)
            BY <3>1, <6>1
          <6>4. ~word.head /\ word.left = inbox'[i].left - 1
            BY <2>1, <2>2, <3>1, <3>3, <3>4, <5>2, <6>2, <6>3
          <6>5. \A k \in 1..Len(inbox') : ~(i < k)
            BY <2>1, <2>3, <5>2
          <6>6. writing'["worker"] # <<>>
            <7>1. Len(Tail(s)) = Len(s) - 1
              BY <3>1, <6>1
            <7>2. PICK length \in Nat : length = Len(s)
              BY <3>1
            <7>3. Len(Tail(s)) # 0
              <8>1. length - 1 # 0
                BY <6>1, <7>2
              <8> QED
                BY <7>1, <7>2, <8>1
            <7>4. Len(<<>>) = 0
              OBVIOUS
            <7>5. Tail(s) # <<>>
              BY <7>3, <7>4
            <7> QED
              BY <3>2, <7>5
          <6>7. NextOfAnswer(i, word)'
            BY <3>2, <6>2, <6>5, <6>6 DEF NextOfAnswer
          <6> QED
            BY <6>4, <6>7
        <5> QED
          BY <2>1, <2>3, <5>1, <5>2
      <4> QED
        BY <4>1 DEF PayloadFollows
    <3>8. AnswerPending => AnswerPending'
      <4>1. CASE requests # <<>>
        BY <1>1, <4>1 DEF AnswerPending
      <4>2. CASE \E i \in 1..Len(inbox) : inbox[i].head /\ inbox[i].of # "notice"
        <5>1. PICK i \in 1..Len(inbox) : inbox[i].head /\ inbox[i].of # "notice"
          BY <4>2
        <5>2. i \in 1..Len(inbox') /\ inbox'[i] = inbox[i]
          BY <2>1, <2>3
        <5> QED
          BY <5>1, <5>2 DEF AnswerPending
      <4>3. CASE writing["worker"] # <<>> /\ writing["worker"][1].head
        <5>1. Len(inbox) + 1 \in 1..Len(inbox') /\ inbox'[Len(inbox) + 1] = last
          BY <2>1, <2>2, <2>3
        <5>2. last.head /\ last.of # "notice"
          BY <2>5, <3>4, <4>3
        <5> QED
          BY <5>1, <5>2 DEF AnswerPending
      <4> QED
        BY <4>1, <4>2, <4>3 DEF AnswerPending
    <3>9. MainServed'
      <4>1. 0 \in 0..Len(inbox)
        BY <2>3
      <4> QED
        BY <1>1, <3>6, <3>8, <4>1 DEF UnderwayInv, MainServed
    <3> QED
      BY <2>4, <3>5, <3>7, <3>9 DEF UnderwayInv
  <2>7. CASE w # "worker"
    <3>1. last.of = "notice"
      <4>1. w \in Notifiers /\ writing[w] \in Rests
        BY <2>7 DEF UnderwayInv, NotifiersInv, Writers
      <4>2. last \in {NoticeHead, NoWord}
        BY <2>1, <2>2, <4>1, RestFacts
      <4> QED
        BY <4>2 DEF NoticeHead, NoWord
    <3>2. writing'["worker"] = writing["worker"]
      BY <2>1, <2>7 DEF WireTypeOK, Writers
    <3>3. \A i \in 0..Len(inbox) : \A word :
            NextOfAnswer(i, word) => NextOfAnswer(i, word)'
      BY <2>1, <2>2, <3>1, <3>2, NextStays
    <3>4. WorkerInv'
      BY <3>2 DEF UnderwayInv, WorkerInv
    <3>5. PayloadFollows'
      <4>1. ASSUME NEW i \in 1..Len(inbox'), inbox'[i].of # "notice", inbox'[i].left > 0
            PROVE  \E word \in Word : /\ NextOfAnswer(i, word)'
                                      /\ ~word.head /\ word.left = inbox'[i].left - 1
        <5>1. i \in 1..Len(inbox) /\ inbox'[i] = inbox[i]
          <6>1. i # Len(inbox) + 1
            BY <2>1, <2>2, <3>1, <4>1
          <6> QED
            BY <2>1, <2>3, <6>1
        <5>2. PICK word \in Word :
                NextOfAnswer(i, word) /\ ~word.head /\ word.left = inbox[i].left - 1
          BY <4>1, <5>1 DEF UnderwayInv, PayloadFollows
        <5>3. i \in 0..Len(inbox)
          BY <5>1
        <5> QED
          BY <3>3, <5>1, <5>2, <5>3
      <4> QED
        BY <4>1 DEF PayloadFollows
    <3>6. AnswerPending => AnswerPending'
      <4>1. \A i \in 1..Len(inbox) : i \in 1..Len(inbox') /\ inbox'[i] = inbox[i]
        BY <2>1, <2>3
      <4> QED
        BY <1>1, <3>2, <4>1 DEF AnswerPending
    <3>7. MainServed'
      <4>1. 0 \in 0..Len(inbox)
        BY <2>3
      <4> QED
        BY <1>1, <3>3, <3>6, <4>1 DEF UnderwayInv, MainServed
    <3> QED
      BY <2>4, <3>4, <3>5, <3>7 DEF UnderwayInv
  <2> QED
    BY <2>6, <2>7
<1> QED
  BY <1>2, <1>3

\* Steps of the client that read nothing, and those of the server that write
\* nothing.
LEMMA MovesUnderway ==
  ASSUME WireTypeOK, UnderwayInv,
         \/ Close \/ Choose \/ Send \/ Select \/ TryLock \/ ListenerEnds \/ ListenerEof
         \/ \E n \in Notifiers : Push(n)
  PROVE  LastRequestInv' /\ WorkerInv' /\ PayloadFollows' /\ MainServed'
<1>1. CASE Close
  <2>1. /\ connection = "closing" /\ connection' = "closed" /\ writing["worker"] = <<>>
        /\ UNCHANGED <<inbox, requests, writing, req, reader>>
    BY <1>1 DEF Close
  <2>2. LastRequestInv'
    BY <2>1 DEF UnderwayInv, LastRequestInv
  <2> QED
    BY <2>1, <2>2, SameUnderway DEF UnderwayInv
<1>2. CASE \E n \in Notifiers : Push(n)
  <2>1. PICK n \in Notifiers :
          /\ writing' = [writing EXCEPT ![n] = Message("notice", 1)]
          /\ UNCHANGED <<inbox, requests, connection, req, reader>>
    BY <1>2 DEF Push
  <2>2. writing'["worker"] = writing["worker"]
    BY <2>1, NotifierIsWriter DEF WireTypeOK, Writers
  <2>3. LastRequestInv'
    BY <2>1, <2>2, LastRequestStays DEF UnderwayInv
  <2> QED
    BY <2>1, <2>2, <2>3, SameUnderway DEF UnderwayInv
<1>3. CASE Choose
  <2>1. /\ reader["main"].pc = "menu" /\ Goto("main", "lock")
        /\ "lock" \in Labels /\ "main" \in Readers
        /\ UNCHANGED <<inbox, requests, writing, connection>>
    BY <1>3 DEF Choose, server, Labels, Readers
  <2>2. reader'["main"].pc = "lock"
    BY <2>1, GotoFacts
  <2>3. LastRequestInv'
    BY <2>1, LastRequestStays DEF UnderwayInv
  <2> QED
    BY <2>1, <2>2, <2>3, SameUnderway DEF UnderwayInv
<1>4. CASE Send
  <2>1. /\ reader["main"].pc = "lock" /\ Goto("main", "head")
        /\ "head" \in Labels /\ "main" \in Readers
        /\ requests' = Append(requests, req)
        /\ UNCHANGED <<inbox, writing, connection, req>>
    BY <1>4 DEF Send, Labels, Readers
  <2>2. reader'["main"].pc = "head"
    BY <2>1, GotoFacts
  <2>3. /\ requests \in Seq(Requests) /\ Len(requests) \in Nat
        /\ Len(requests') = Len(requests) + 1
        /\ requests'[Len(requests) + 1] = req
        /\ \A i \in 1..Len(requests) : requests'[i] = requests[i]
    BY <2>1 DEF WireTypeOK
  <2>4. connection = "open" /\ \A i \in 1..Len(requests) : requests[i] # "logout"
    BY <2>1 DEF UnderwayInv, LastRequestInv
  <2>5. LastRequestInv'
    <3>1. ASSUME NEW i \in 1..Len(requests'), requests'[i] = "logout"
          PROVE  i = Len(requests') /\ req = "logout"
      <4>1. PICK length \in Nat : length = Len(requests)
        BY <2>3
      <4>2. i \in 1..(length + 1)
        BY <2>3, <4>1
      <4>3. i \notin 1..length
        BY <2>3, <2>4, <3>1, <4>1
      <4>4. i = length + 1
        BY <4>2, <4>3
      <4> QED
        BY <2>3, <3>1, <4>1, <4>4
    <3> QED
      BY <2>1, <2>2, <2>3, <2>4, <3>1 DEF LastRequestInv
  <2>6. WorkerInv'
    BY <2>1 DEF UnderwayInv, WorkerInv
  <2>7. PayloadFollows'
    <3>1. \A i : \A word : NextOfAnswer(i, word)' <=> NextOfAnswer(i, word)
      BY <2>1 DEF NextOfAnswer
    <3> QED
      BY <2>1, <3>1 DEF UnderwayInv, PayloadFollows
  <2>8. AnswerPending'
    <3>1. requests' # <<>>
      BY <2>3
    <3> QED
      BY <3>1 DEF AnswerPending
  <2> QED
    BY <2>2, <2>5, <2>6, <2>7, <2>8 DEF MainServed
<1>5. CASE Select \/ TryLock \/ ListenerEnds \/ ListenerEof
  <2>1. PICK label \in Labels : Goto("listener", label)
    BY <1>5 DEF Select, TryLock, ListenerEnds, ListenerEof, Labels
  <2>2. UNCHANGED <<inbox, requests, writing, connection, req>>
    BY <1>5 DEF Select, TryLock, ListenerEnds, ListenerEof, server
  <2>3. reader'["main"] = reader["main"]
    BY <2>1, GotoFacts DEF Readers
  <2>4. LastRequestInv'
    BY <2>2, <2>3, LastRequestStays DEF UnderwayInv
  <2> QED
    BY <2>2, <2>3, <2>4, SameUnderway DEF UnderwayInv
<1> QED
  BY <1>1, <1>2, <1>3, <1>4, <1>5

\* A word is read; what it says of the words after it holds for them still.
LEMMA TakenUnderway ==
  ASSUME WireTypeOK, UnderwayInv, NEW t \in Readers, ReadHead(t) \/ ReadBody(t)
  PROVE  /\ WorkerInv' /\ PayloadFollows'
         /\ \A word \in Word : NextOfAnswer(1, word) => NextOfAnswer(0, word)'
         /\ \/ inbox[1].head /\ inbox[1].of # "notice"
            \/ AnswerPending => AnswerPending'
<1>1. /\ inbox # <<>> /\ inbox' = Tail(inbox)
      /\ UNCHANGED <<requests, writing, registered, connection, notices, req>>
  BY DEF ReadHead, ReadBody, server
<1>2. /\ Len(inbox) \in Nat \ {0} /\ Len(inbox') = Len(inbox) - 1
      /\ \A k \in 1..(Len(inbox) - 1) : inbox'[k] = inbox[k + 1]
  BY <1>1, TakeFirst DEF WireTypeOK
<1>3. \A i \in Nat : \A word : NextOfAnswer(i + 1, word) => NextOfAnswer(i, word)'
  BY <1>1, NextShifts
<1>4. WorkerInv'
  BY <1>1 DEF UnderwayInv, WorkerInv
<1>5. PayloadFollows'
  <2>1. ASSUME NEW i \in 1..Len(inbox'), inbox'[i].of # "notice", inbox'[i].left > 0
        PROVE  \E word \in Word : /\ NextOfAnswer(i, word)'
                                  /\ ~word.head /\ word.left = inbox'[i].left - 1
    <3>1. i + 1 \in 1..Len(inbox) /\ inbox'[i] = inbox[i + 1] /\ i \in Nat
      BY <1>2
    <3>2. PICK word \in Word : /\ NextOfAnswer(i + 1, word)
                               /\ ~word.head /\ word.left = inbox[i + 1].left - 1
      BY <2>1, <3>1 DEF UnderwayInv, PayloadFollows
    <3> QED
      BY <1>3, <3>1, <3>2
  <2> QED
    BY <2>1 DEF PayloadFollows
<1>6. \A word \in Word : NextOfAnswer(1, word) => NextOfAnswer(0, word)'
  <2>1. 0 \in Nat /\ 0 + 1 = 1
    OBVIOUS
  <2>2. \A word : NextOfAnswer(0 + 1, word) => NextOfAnswer(0, word)'
    BY <1>3, <2>1
  <2> QED
    BY <2>1, <2>2
<1>7. ASSUME ~(inbox[1].head /\ inbox[1].of # "notice"), AnswerPending
      PROVE  AnswerPending'
  <2>1. ASSUME NEW i \in 1..Len(inbox), inbox[i].head, inbox[i].of # "notice"
        PROVE  AnswerPending'
    <3>1. i - 1 \in 1..Len(inbox') /\ inbox'[i - 1] = inbox[i]
      BY <1>2, <1>7, <2>1
    <3> QED
      BY <2>1, <3>1 DEF AnswerPending
  <2> QED
    BY <1>1, <1>7, <2>1 DEF AnswerPending
<1> QED
  BY <1>4, <1>5, <1>6, <1>7

LEMMA ReadUnderway ==
  ASSUME WireTypeOK, LockInv, UnderwayInv, NEW t \in Readers, ReadHead(t) \/ ReadBody(t)
  PROVE  LastRequestInv' /\ WorkerInv' /\ PayloadFollows' /\ MainServed'
<1>1. UNCHANGED <<requests, writing, registered, connection, notices, req>>
  BY DEF ReadHead, ReadBody, server
<1>2. WorkerInv' /\ PayloadFollows'
  BY TakenUnderway
<1>3. reader \in [Readers -> ReaderState]
  BY DEF WireTypeOK, ReaderState, Labels
<1>4. "main" \in Readers /\ "listener" \in Readers
  BY DEF Readers
\* A read after which the main thread is out of recv_msg.
<1>5. ASSUME reader'["main"].pc \in {"lost", "menu", "ended"},
             reader'["main"].pc = "menu" => req # "logout"
      PROVE  LastRequestInv' /\ MainServed'
  BY <1>1, <1>5, LastRequestStays DEF UnderwayInv, MainServed
<1>6. ASSUME NEW word \in Word, Received("main", word) PROVE LastRequestInv' /\ MainServed'
  BY <1>4, <1>5, <1>6, ReceivedFacts
<1>7. ASSUME Lost("main") PROVE LastRequestInv' /\ MainServed'
  <2>1. "lost" \in Labels /\ Goto("main", "lost")
    BY <1>7 DEF Lost, Labels
  <2> QED
    BY <1>4, <1>5, <2>1, GotoFacts
<1>8. CASE t = "main" /\ ReadHead("main")
  <2>1. PICK word \in Word :
          /\ word = inbox[1] /\ reader["main"].pc = "head"
          /\ \/ Lost("main")
             \/ Received("main", word)
             \/ \E want \in 1..MaxRoom("main") :
                  /\ word.head /\ want <= word.left
                  /\ reader' = [reader EXCEPT !["main"] =
                       [pc |-> "body", word |-> word, want |-> want]]
    BY <1>4, <1>8, ReadHeadCases
  <2>2. ASSUME NEW want \in 1..MaxRoom("main"), word.head, want <= word.left,
               reader' = [reader EXCEPT !["main"] =
                 [pc |-> "body", word |-> word, want |-> want]]
        PROVE  LastRequestInv' /\ MainServed'
    <3>1. /\ reader'["main"].pc = "body" /\ reader'["main"].word = word
          /\ reader'["main"].want = want
      BY <1>3, <1>4, <2>2
    <3>2. LastRequestInv'
      BY <1>1, <3>1, LastRequestStays DEF UnderwayInv
    <3>3. CASE word.of = "notice"
      <4>1. AnswerPending'
        BY <1>8, <2>1, <3>3, TakenUnderway DEF UnderwayInv, MainServed
      <4> QED
        BY <3>1, <3>2, <3>3, <4>1 DEF MainServed
    <3>4. CASE word.of # "notice"
      <4>1. want \in Nat \ {0} /\ word.left \in Nat /\ 1 \in 1..Len(inbox)
        <5>1. inbox # <<>> /\ inbox \in Seq(Word)
          BY <1>8 DEF ReadHead, WireTypeOK
        <5> QED
          BY <1>4, <5>1, RoomIsNat DEF Word
      <4>2. inbox[1].of # "notice" /\ inbox[1].left > 0
        BY <2>1, <2>2, <3>4, <4>1
      <4>3. PICK next \in Word :
              NextOfAnswer(1, next) /\ ~next.head /\ next.left = inbox[1].left - 1
        BY <4>1, <4>2 DEF UnderwayInv, PayloadFollows
      <4>4. NextOfAnswer(0, next)' /\ next.left >= want - 1
        BY <2>1, <2>2, <4>1, <4>3, TakenUnderway
      <4> QED
        BY <3>1, <3>2, <3>4, <4>3, <4>4 DEF MainServed
    <3> QED
      BY <3>3, <3>4
  <2> QED
    BY <1>2, <1>6, <1>7, <2>1, <2>2
<1>9. CASE t = "main" /\ ReadBody("main")
  <2>1. PICK word \in Word :
          /\ inbox # <<>> /\ word = inbox[1] /\ reader["main"].pc = "body"
          /\ \/ Lost("main")
             \/ Received("main", reader["main"].word)
             \/ /\ word.of = reader["main"].word.of /\ ~word.head
                /\ reader["main"].want > 1
                /\ reader' = [reader EXCEPT !["main"].want = reader["main"].want - 1]
    BY <1>4, <1>9, ReadBodyCases
  <2>2. reader["main"].word \in Word /\ reader["main"].want \in Nat
    BY <1>3, <1>4 DEF ReaderState
  <2>3. ASSUME word.of = reader["main"].word.of, ~word.head, reader["main"].want > 1,
               reader' = [reader EXCEPT !["main"].want = reader["main"].want - 1]
        PROVE  LastRequestInv' /\ MainServed'
    <3>1. /\ reader'["main"].pc = "body" /\ reader'["main"].word = reader["main"].word
          /\ reader'["main"].want = reader["main"].want - 1
      BY <1>3, <1>4, <2>1, <2>3 DEF ReaderState
    <3>2. LastRequestInv'
      BY <1>1, <3>1, LastRequestStays DEF UnderwayInv
    <3>3. CASE word.of = "notice"
      <4>1. AnswerPending'
        BY <1>9, <2>1, <2>3, <3>3, TakenUnderway DEF UnderwayInv, MainServed
      <4> QED
        BY <2>3, <3>1, <3>2, <3>3, <4>1 DEF MainServed
    <3>4. CASE word.of # "notice"
      <4>1. PICK first \in Word : /\ NextOfAnswer(0, first)
                                  /\ first.left >= reader["main"].want - 1
        BY <2>1, <2>3, <3>4 DEF UnderwayInv, MainServed
      <4>2. 1 \in 1..Len(inbox) /\ 0 < 1
        BY <2>1 DEF WireTypeOK
      <4>3. first = word
        BY <2>1, <3>4, <4>1, <4>2 DEF NextOfAnswer
      <4>4. word.left \in Nat /\ word.left > 0
        BY <2>2, <2>3, <4>1, <4>3 DEF Word
      <4>5. PICK next \in Word :
              NextOfAnswer(1, next) /\ ~next.head /\ next.left = inbox[1].left - 1
        BY <2>1, <3>4, <4>2, <4>4 DEF UnderwayInv, PayloadFollows
      <4>6. NextOfAnswer(0, next)' /\ next.left >= (reader["main"].want - 1) - 1
        BY <2>1, <2>2, <4>1, <4>3, <4>4, <4>5, TakenUnderway
      <4> QED
        BY <2>3, <3>1, <3>2, <3>4, <4>5, <4>6 DEF MainServed
    <3> QED
      BY <3>3, <3>4
  <2> QED
    BY <1>2, <1>6, <1>7, <2>1, <2>2, <2>3
<1>10. CASE t = "listener"
  <2>1. reader["main"].pc \notin {"head", "body"}
    BY <1>4, <1>10 DEF ReadHead, ReadBody, LockInv
  <2>2. reader'["main"] = reader["main"]
    <3>1. ASSUME Lost("listener") PROVE reader'["main"] = reader["main"]
      <4>1. "lost" \in Labels /\ Goto("listener", "lost")
        BY <3>1 DEF Lost, Labels
      <4> QED
        BY <1>4, <4>1, GotoFacts
    <3>2. ASSUME NEW word \in Word, Received("listener", word)
          PROVE  reader'["main"] = reader["main"]
      BY <1>4, <3>2, ReceivedFacts
    <3>3. CASE ReadHead("listener")
      BY <1>3, <1>4, <3>1, <3>2, <3>3, ReadHeadCases
    <3>4. CASE ReadBody("listener")
      <4>1. reader["listener"].word \in Word
        BY <1>3, <1>4 DEF ReaderState
      <4> QED
        BY <1>3, <1>4, <3>1, <3>2, <3>4, <4>1, ReadBodyCases
    <3> QED
      BY <1>10, <3>3, <3>4
  <2>3. LastRequestInv'
    BY <1>1, <2>2, LastRequestStays DEF UnderwayInv
  <2>4. MainServed'
    BY <2>1, <2>2 DEF MainServed
  <2> QED
    BY <1>2, <2>3, <2>4
<1> QED
  BY <1>2, <1>8, <1>9, <1>10 DEF Readers

LEMMA UnderwayNext ==
  WireTypeOK /\ LockInv /\ UnderwayInv /\ [WireNext]_wireVars => UnderwayInv'
<1> SUFFICES ASSUME WireTypeOK, LockInv, UnderwayInv, [WireNext]_wireVars
             PROVE  UnderwayInv'
  OBVIOUS
<1>1. NotifiersInv'
  BY NotifiersNext DEF UnderwayInv
<1>2. CASE UNCHANGED wireVars
  <2>1. UNCHANGED <<inbox, requests, writing, connection, req, reader>>
    BY <1>2 DEF wireVars, server
  <2>2. LastRequestInv'
    BY <2>1, LastRequestStays DEF UnderwayInv
  <2> QED
    BY <1>1, <2>1, <2>2, SameUnderway DEF UnderwayInv
<1>3. CASE WireNext
  BY <1>1, <1>3, WireSteps, ServeUnderway, WriteUnderway, MovesUnderway, ReadUnderway
  DEF UnderwayInv
<1> QED
  BY <1>2, <1>3

\* The client never waits for what nobody is going to write: a main thread
\* inside recv_msg (client.c) has its request, or words of an answer, before
\* it, whatever notifications have crossed what it sent.
THEOREM AnswerAlwaysUnderway == WireSpec => []AnswerUnderway
<1>1. WireInit => UnderwayInv
  BY WireInitUnderway
<1>2. WireTypeOK /\ LockInv /\ UnderwayInv /\ [WireNext]_wireVars => UnderwayInv'
  BY UnderwayNext
<1>3. WireTypeOK /\ UnderwayInv => AnswerUnderway
  <2> SUFFICES ASSUME WireTypeOK, UnderwayInv, AwaitingAnswer, writing["worker"] = <<>>
               PROVE  requests # <<>> \/ \E i \in DOMAIN inbox : inbox[i].of # "notice"
    BY DEF AnswerUnderway
  <2>1. DOMAIN inbox = 1..Len(inbox)
    BY DEF WireTypeOK
  <2>2. CASE AnswerPending
    BY <2>1, <2>2 DEF AnswerPending
  <2>3. CASE \E word \in Word : NextOfAnswer(0, word)
    BY <2>1, <2>3 DEF NextOfAnswer
  <2> QED
    BY <2>2, <2>3 DEF UnderwayInv, MainServed, AwaitingAnswer
<1> QED
  BY <1>1, <1>2, <1>3, WireTypeCorrect, ReqLockHolds, PTL DEF WireSpec
=============================================================================
