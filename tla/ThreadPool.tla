----------------------------- MODULE ThreadPool -----------------------------
(***************************************************************************)
(* The thread pool of src/thread_pool/thread_pool.hpp: callers append      *)
(* requests to a list that a mutex protects, a semaphore counts them, and  *)
(* the workers take them.  A step is one lock, one access to the list      *)
(* under the lock, one unlock or one call on the semaphore.                *)
(*                                                                         *)
(* The owner builds the pool before anybody appends and deletes it when    *)
(* nobody is in Append any more, as main does in web_test.cpp; it does not *)
(* wait for the workers.                                                   *)
(***************************************************************************)
EXTENDS Naturals, Sequences

CONSTANTS
  Caller,       \* the threads that call Append
  Workers,      \* the worker threads, in the order they are created
  MaxRequest,   \* max_request_
  MaxAppends,   \* bound: how many requests each caller appends
  MaxIntr,      \* bound: how many waits a signal interrupts
  None

Worker == {Workers[i] : i \in DOMAIN Workers}
Thread == Caller \cup Worker
Request == Caller \X (1..MaxAppends)

ASSUME PoolAssumption ==
  /\ Workers \in Seq(Worker)
  /\ \A i, k \in DOMAIN Workers : Workers[i] = Workers[k] => i = k
  /\ Worker \cap Caller = {}
  /\ MaxRequest \in Nat \ {0}
  /\ MaxAppends \in Nat
  /\ MaxIntr \in Nat
  /\ None \notin Thread \cup Request

VARIABLES
  life,     \* "new" while the constructor runs, then "up", in the end "gone"
  started,  \* how many workers have been created
  stop,     \* stop_
  queue,    \* work_queue_
  mutex,    \* the thread that holds queue_locker_, or None
  sem,      \* queue_stat_
  pc,       \* where each thread is
  req,      \* caller |-> the request it appends; worker |-> the one it took
  count,    \* caller |-> how many requests it has appended
  refused,  \* requests for which Append returned false
  done,     \* requests that have been processed
  intr      \* waits that were interrupted so far

shared == <<queue, mutex, sem>>
history == <<refused, done>>
poolVars == <<life, started, stop, queue, mutex, sem, pc, req, count, refused, done, intr>>

Init ==
  /\ life = "new" /\ started = 0 /\ stop = FALSE
  /\ queue = <<>> /\ mutex = None /\ sem = 0
  /\ pc = [t \in Thread |-> IF t \in Caller THEN "idle" ELSE "unborn"]
  /\ req = [t \in Thread |-> None]
  /\ count = [c \in Caller |-> 0]
  /\ refused = {} /\ done = {} /\ intr = 0

Goto(t, l) == pc' = [pc EXCEPT ![t] = l]

LockQueue(t, from, to) ==
  /\ pc[t] = from /\ mutex = None
  /\ mutex' = t
  /\ Goto(t, to)
  /\ UNCHANGED <<life, started, stop, queue, sem, req, count, history, intr>>

-----------------------------------------------------------------------------
(* The owner.                                                              *)

\* One turn of the loop that creates and detaches the workers.
Create ==
  /\ life = "new" /\ started < Len(Workers)
  /\ started' = started + 1
  /\ Goto(Workers[started + 1], "test")
  /\ life' = IF started + 1 = Len(Workers) THEN "up" ELSE "new"
  /\ UNCHANGED <<stop, shared, req, count, history, intr>>

\* pthread_create fails: the constructor throws and its members are
\* destroyed, the workers it has created go on.
CreateFails ==
  /\ life = "new" /\ started < Len(Workers)
  /\ life' = "gone"
  /\ UNCHANGED <<started, stop, shared, pc, req, count, history, intr>>

\* pthread_detach fails, when the new worker already runs.
DetachFails ==
  /\ life = "new" /\ started < Len(Workers)
  /\ life' = "gone"
  /\ started' = started + 1
  /\ Goto(Workers[started + 1], "test")
  /\ UNCHANGED <<stop, shared, req, count, history, intr>>

\* The destructor sets stop_ and destroys the list.  Nobody is woken.
Destroy ==
  /\ life = "up"
  /\ \A c \in Caller : pc[c] = "idle"
  /\ life' = "gone" /\ stop' = TRUE /\ queue' = <<>>
  /\ UNCHANGED <<started, mutex, sem, pc, req, count, history, intr>>

-----------------------------------------------------------------------------
(* Append.                                                                 *)

Begin(c) ==
  /\ pc[c] = "idle" /\ life = "up" /\ count[c] < MaxAppends
  /\ count' = [count EXCEPT ![c] = @ + 1]
  /\ req' = [req EXCEPT ![c] = <<c, count[c] + 1>>]
  /\ Goto(c, "lock")
  /\ UNCHANGED <<life, started, stop, shared, history, intr>>

AppendLock(c) == LockQueue(c, "lock", "check")

\* Mutant: the queue may grow by one more.
FullLate == Len(queue) > MaxRequest + 1

\* work_queue_.size() > max_request_
Full == Len(queue) > MaxRequest

\* Mutant: no return after the unlock, the request is pushed all the same.
RejectGoesOn(c) ==
  /\ pc[c] = "check" /\ Full
  /\ mutex' = None
  /\ refused' = refused \cup {req[c]}
  /\ queue' = Append(queue, req[c])
  /\ Goto(c, "post")
  /\ UNCHANGED <<life, started, stop, sem, req, count, done, intr>>

\* The rejected request is reported to the caller after the unlock.
Reject(c) ==
  /\ pc[c] = "check" /\ Full
  /\ mutex' = None
  /\ refused' = refused \cup {req[c]}
  /\ req' = [req EXCEPT ![c] = None]
  /\ Goto(c, "idle")
  /\ UNCHANGED <<life, started, stop, queue, sem, count, done, intr>>

Push(c) ==
  /\ pc[c] = "check" /\ ~ Full
  /\ queue' = Append(queue, req[c])
  /\ Goto(c, "unlock")
  /\ UNCHANGED <<life, started, stop, mutex, sem, req, count, history, intr>>

AppendUnlock(c) ==
  /\ pc[c] = "unlock"
  /\ mutex' = None
  /\ Goto(c, "post")
  /\ UNCHANGED <<life, started, stop, queue, sem, req, count, history, intr>>

\* Mutant: only the request that finds the queue empty wakes a worker.
PostFirst(c) ==
  /\ pc[c] = "post"
  /\ sem' = IF Len(queue) = 1 THEN sem + 1 ELSE sem
  /\ req' = [req EXCEPT ![c] = None]
  /\ Goto(c, "idle")
  /\ UNCHANGED <<life, started, stop, queue, mutex, count, history, intr>>

Post(c) ==
  /\ pc[c] = "post"
  /\ sem' = sem + 1
  /\ req' = [req EXCEPT ![c] = None]
  /\ Goto(c, "idle")
  /\ UNCHANGED <<life, started, stop, queue, mutex, count, history, intr>>

-----------------------------------------------------------------------------
(* Run.                                                                    *)

\* while (!stop_)
Test(w) ==
  /\ pc[w] = "test"
  /\ Goto(w, IF stop THEN "ended" ELSE "wait")
  /\ UNCHANGED <<life, started, stop, shared, req, count, history, intr>>

Wait(w) ==
  /\ pc[w] = "wait" /\ life # "gone" /\ sem > 0
  /\ sem' = sem - 1
  /\ Goto(w, "take")
  /\ UNCHANGED <<life, started, stop, queue, mutex, req, count, history, intr>>

\* sem_wait fails with EINTR; Run does not look at the result.
WaitInterrupted(w) ==
  /\ pc[w] = "wait" /\ life # "gone" /\ intr < MaxIntr
  /\ intr' = intr + 1
  /\ Goto(w, "take")
  /\ UNCHANGED <<life, started, stop, shared, req, count, history>>

RunLock(w) == life # "gone" /\ LockQueue(w, "take", "front")

\* Mutant: no continue after the unlock.
EmptyRuns(w) ==
  /\ pc[w] = "front" /\ life # "gone" /\ queue = <<>>
  /\ mutex' = None
  /\ Goto(w, "run")
  /\ UNCHANGED <<life, started, stop, queue, sem, req, count, history, intr>>

\* Nothing there: unlock and go on waiting.
Empty(w) ==
  /\ pc[w] = "front" /\ life # "gone" /\ queue = <<>>
  /\ mutex' = None
  /\ Goto(w, "test")
  /\ UNCHANGED <<life, started, stop, queue, sem, req, count, history, intr>>

\* Mutant: the lock is given back between front and pop_front.
LookUnlocked(w) ==
  /\ pc[w] = "front" /\ life # "gone" /\ queue # <<>>
  /\ req' = [req EXCEPT ![w] = Head(queue)]
  /\ mutex' = None
  /\ Goto(w, "pop")
  /\ UNCHANGED <<life, started, stop, queue, sem, count, history, intr>>

\* request = work_queue_.front()
Look(w) ==
  /\ pc[w] = "front" /\ life # "gone" /\ queue # <<>>
  /\ req' = [req EXCEPT ![w] = Head(queue)]
  /\ Goto(w, "pop")
  /\ UNCHANGED <<life, started, stop, shared, count, history, intr>>

\* pop_front and the unlock.
Pop(w) ==
  /\ pc[w] = "pop" /\ life # "gone" /\ queue # <<>>
  /\ queue' = Tail(queue)
  /\ mutex' = None
  /\ Goto(w, "run")
  /\ UNCHANGED <<life, started, stop, sem, req, count, history, intr>>

\* A null request is dropped, another one is processed.  External: it ends.
Process(w) ==
  /\ pc[w] = "run"
  /\ done' = done \cup {req[w]}
  /\ req' = [req EXCEPT ![w] = None]
  /\ Goto(w, "test")
  /\ UNCHANGED <<life, started, stop, shared, count, refused, intr>>

\* A worker that touches the pool when it is gone does anything, also see a
\* stop_ that is still in place (Test).  One that sleeps in sem_wait is left
\* asleep by sem_destroy.
Dangle(w) ==
  /\ life = "gone"
  /\ \/ pc[w] \in {"test", "take", "front", "pop"}
     \/ pc[w] = "wait" /\ sem > 0
  /\ Goto(w, "undefined")
  /\ UNCHANGED <<life, started, stop, shared, req, count, history, intr>>

-----------------------------------------------------------------------------
Call(c) == AppendLock(c) \/ Reject(c) \/ Push(c) \/ AppendUnlock(c) \/ Post(c)

Run(w) ==
  \/ Test(w) \/ Wait(w) \/ RunLock(w) \/ Empty(w) \/ Look(w) \/ Pop(w) \/ Process(w)
  \/ Dangle(w)

Owner == Create \/ CreateFails \/ DetachFails \/ Destroy

Next ==
  \/ Owner
  \/ \E c \in Caller : Begin(c) \/ Call(c)
  \/ \E w \in Worker : Run(w) \/ WaitInterrupted(w)

Spec == Init /\ [][Next]_poolVars

\* The kernel runs every thread that can go on, the constructor included.
Fairness ==
  /\ WF_poolVars(Create)
  /\ \A c \in Caller : WF_poolVars(Call(c))
  /\ \A w \in Worker : WF_poolVars(Run(w))

FairSpec == Spec /\ Fairness
=============================================================================
