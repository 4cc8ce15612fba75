----------------------------- MODULE PoolSafety -----------------------------
(***************************************************************************)
(* What the thread pool is expected to keep, and how it implements the     *)
(* bounded queue of JobQueue.                                              *)
(***************************************************************************)
EXTENDS ThreadPool, FiniteSets

CallerPc == {"idle", "lock", "check", "unlock", "post"}
WorkerPc == {"unborn", "test", "wait", "take", "front", "pop", "run", "ended", "undefined"}

\* The variables have their types (the members of ThreadPool, Sem and Locker).
TypeOK ==
  /\ life \in {"new", "up", "gone"}
  /\ started \in 0..Len(Workers)
  /\ stop \in BOOLEAN
  /\ queue \in Seq(Request)
  /\ mutex \in Thread \cup {None}
  /\ sem \in Nat
  /\ pc \in [Thread -> CallerPc \cup WorkerPc]
  /\ \A c \in Caller : pc[c] \in CallerPc
  /\ \A w \in Worker : pc[w] \in WorkerPc
  /\ req \in [Thread -> Request \cup {None}]
  /\ count \in [Caller -> 0..MaxAppends]
  /\ refused \subseteq Request
  /\ done \subseteq Request
  /\ intr \in 0..MaxIntr

\* Where Append and Run are between Lock and Unlock.
Inside == {"check", "unlock", "front", "pop"}

\* A thread between Lock and Unlock holds queue_locker_, so that no two threads
\* are there at the same time: the std::list is never touched by two of them.
ListLocked == \A t \in Thread : pc[t] \in Inside => mutex = t

\* The threads that have added a request and will post, and the workers that
\* have been woken and will take one.
Posting == {c \in Caller : pc[c] \in {"unlock", "post"}}
Taking == {w \in Worker : pc[w] \in {"take", "front", "pop"}}

\* No wake-up is lost: every request in the list has a count of the semaphore,
\* a caller that is about to post or a worker that is about to take.  Append
\* posts after the unlock and Run takes long after the wait, and an
\* interrupted wait takes without a count.
NoLostWakeup ==
  life # "gone" =>
    Len(queue) <= sem + Cardinality(Posting) + Cardinality(Taking)

Queued == {queue[i] : i \in DOMAIN queue}
Runners == {w \in Worker : pc[w] = "run"}

\* A request is in one place: once in the list, or in the hands of one worker,
\* or processed, or refused.
OnePlace ==
  /\ \A i, k \in DOMAIN queue : queue[i] = queue[k] => i = k
  /\ \A w, v \in Runners : req[w] = req[v] => w = v
  /\ \A w \in Runners : req[w] \notin Queued \cup done \cup refused
  /\ Queued \cap (done \cup refused) = {}

\* A caller that is about to add a request brings one nobody has seen.
Fresh ==
  /\ \A r \in Queued \cup done \cup refused : r[2] <= count[r[1]]
  /\ \A w \in Runners : req[w] \in Request /\ req[w][2] <= count[req[w][1]]
  /\ \A c \in Caller : pc[c] \in {"lock", "check"} =>
       /\ req[c] = <<c, count[c]>> /\ req[c] \in Request
       /\ req[c] \notin Queued \cup done \cup refused
       /\ \A w \in Runners : req[w] # req[c]

\* A worker between front and pop_front has the head of the list in its hands.
HeadTaken ==
  \A w \in Worker :
    pc[w] = "pop" /\ life # "gone" => queue # <<>> /\ req[w] = Head(queue)

\* Before the constructor has returned and after the destructor the list is
\* empty and nobody appends; workers that are not created yet do nothing.
LifeCycle ==
  /\ life # "up" => queue = <<>> /\ \A c \in Caller : pc[c] = "idle"
  /\ \A i \in DOMAIN Workers : i > started => pc[Workers[i]] = "unborn"

\* All that a step of the pool relies on: the parts above, and the length that
\* Append lets the list have.
PoolInv ==
  /\ TypeOK /\ ListLocked /\ OnePlace /\ Fresh /\ HeadTaken /\ LifeCycle
  /\ Len(queue) <= MaxRequest + 1

\* Append and Run together implement the bounded queue of JobQueue: what was
\* accepted is run once, in order, and refused only when the list is full.  Its
\* room is one more than max_request_, as Append compares with >.
Jobs == INSTANCE JobQueue WITH
  Job <- Request, Room <- MaxRequest + 1,
  waiting <- queue,
  running <- {req[w] : w \in Runners},
  finished <- done,
  open <- life # "gone"

ImplementsJobQueue == Jobs!JobSpec

\* Every request in the list is processed, unless the pool goes away: no
\* worker sleeps for ever beside a request.
Served ==
  \A r \in Request :
    (\E i \in DOMAIN queue : queue[i] = r) ~> (r \in done \/ life = "gone")

\* max_request_ is the largest number of requests in the list
\* (thread_pool.hpp:24).
QueueBound == Len(queue) <= MaxRequest
=============================================================================
