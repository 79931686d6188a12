--------------------------- MODULE ConnectionQueue ---------------------------
(***************************************************************************)
(* What the accept loop and the worker threads of server.c agree on:       *)
(* accepted connections are served in the order they came in, each by one  *)
(* worker from its beginning to its end, and at most Capacity wait.        *)
(***************************************************************************)
EXTENDS Naturals, Sequences

CONSTANTS Fds, Workers, Capacity, NoFd

VARIABLES queue,          \* the accepted connections nobody serves yet
          serving         \* the connection each worker serves

queueVars == <<queue, serving>>

QueueInit ==
  /\ queue = <<>>
  /\ serving = [w \in Workers |-> NoFd]

InUse == {queue[i] : i \in 1..Len(queue)} \cup {serving[w] : w \in Workers}

\* A descriptor that is not in use becomes a connection.
Admit ==
  /\ Len(queue) < Capacity
  /\ \E fd \in Fds \ InUse : queue' = Append(queue, fd)
  /\ UNCHANGED serving

Serve(w) ==
  /\ serving[w] = NoFd
  /\ queue # <<>>
  /\ serving' = [serving EXCEPT ![w] = Head(queue)]
  /\ queue' = Tail(queue)

Leave(w) ==
  /\ serving[w] # NoFd
  /\ serving' = [serving EXCEPT ![w] = NoFd]
  /\ UNCHANGED queue

QueueNext == Admit \/ \E w \in Workers : Serve(w) \/ Leave(w)

QueueSpec == QueueInit /\ [][QueueNext]_queueVars
=============================================================================
