------------------------------ MODULE PoolProof ------------------------------
(***************************************************************************)
(* Proofs about the thread pool for any number of callers and workers, any *)
(* size of the list and any number of requests and interrupted waits.      *)
(***************************************************************************)
EXTENDS PoolSafety, SequenceTheorems, FiniteSetTheorems, TLAPS

\* A caller is no worker and no thread is None.
LEMMA ThreadKinds ==
  /\ \A c \in Caller : c \in Thread /\ c \notin Worker /\ c # None
  /\ \A w \in Worker : w \in Thread /\ w \notin Caller /\ w # None
  /\ \A i \in DOMAIN Workers : Workers[i] \in Worker
  /\ DOMAIN Workers = 1..Len(Workers) /\ Len(Workers) \in Nat
BY PoolAssumption DEF Thread, Worker

\* A request is not None.
LEMMA RequestSome == None \notin Request
BY PoolAssumption

\* What pushing at the end of the list does to it.
LEMMA Pushed ==
  ASSUME NEW S, NEW q \in Seq(S), NEW r \in S
  PROVE  /\ Append(q, r) \in Seq(S)
         /\ Append(q, r) # <<>>
         /\ Len(Append(q, r)) = Len(q) + 1
         /\ DOMAIN Append(q, r) = 1..(Len(q) + 1)
         /\ \A i \in 1..Len(q) : Append(q, r)[i] = q[i]
         /\ Append(q, r)[Len(q) + 1] = r
         /\ q # <<>> => Head(Append(q, r)) = Head(q)
BY AppendProperties, HeadTailAppend, LenProperties

\* What popping the first of the list does to it.
LEMMA Popped ==
  ASSUME NEW S, NEW q \in Seq(S), q # <<>>
  PROVE  /\ Tail(q) \in Seq(S)
         /\ Head(q) \in S /\ Head(q) = q[1]
         /\ Len(q) \in Nat /\ Len(q) > 0
         /\ Len(Tail(q)) = Len(q) - 1
         /\ DOMAIN Tail(q) = 1..(Len(q) - 1)
         /\ \A i \in 1..(Len(q) - 1) : Tail(q)[i] = q[i + 1]
OBVIOUS

\* The worker that is created next has done nothing.
LEMMA NextWorker ==
  ASSUME PoolInv, started < Len(Workers)
  PROVE  /\ started + 1 \in DOMAIN Workers /\ started + 1 \in 0..Len(Workers)
         /\ Workers[started + 1] \in Worker
         /\ pc[Workers[started + 1]] = "unborn"
BY ThreadKinds DEF PoolInv, TypeOK, LifeCycle

\* The next request of a caller is one of Request.
LEMMA NextRequest ==
  ASSUME PoolInv, NEW c \in Caller, count[c] < MaxAppends
  PROVE  <<c, count[c] + 1>> \in Request /\ count[c] + 1 \in 0..MaxAppends
BY PoolAssumption DEF PoolInv, TypeOK, Request

\* What Append and a running worker have in their hands is a request.
LEMMA InHand ==
  ASSUME PoolInv
  PROVE  /\ \A c \in Caller : pc[c] \in {"lock", "check"} => req[c] \in Request
         /\ \A w \in Worker : pc[w] = "run" => req[w] \in Request
BY DEF PoolInv, Fresh, Runners

\* The list stays a list of requests.
LEMMA ListType ==
  ASSUME PoolInv
  PROVE  /\ queue \in Seq(Request)
         /\ \A r \in Request : Append(queue, r) \in Seq(Request)
         /\ queue # <<>> => Tail(queue) \in Seq(Request) /\ Head(queue) \in Request
BY Pushed, Popped DEF PoolInv, TypeOK

\* The invariant holds at the start.
LEMMA InvInit == Init => PoolInv
<1> SUFFICES ASSUME Init PROVE PoolInv
  OBVIOUS
<1>1. /\ queue = <<>> /\ life = "new" /\ started = 0 /\ mutex = None /\ done = {}
      /\ refused = {}
      /\ \A c \in Caller : pc[c] = "idle"
      /\ \A w \in Worker : pc[w] = "unborn"
  BY ThreadKinds DEF Init
<1>2. TypeOK
  <2>1. pc \in [Thread -> CallerPc \cup WorkerPc]
    BY DEF Init, CallerPc, WorkerPc
  <2>2. count \in [Caller -> 0..MaxAppends] /\ intr \in 0..MaxIntr /\ started \in 0..Len(Workers)
    BY PoolAssumption, ThreadKinds DEF Init
  <2>3. queue \in Seq(Request) /\ sem \in Nat /\ stop \in BOOLEAN /\ req \in [Thread -> Request \cup {None}]
    BY EmptySeq DEF Init
  <2> QED
    BY <1>1, <2>1, <2>2, <2>3 DEF TypeOK, CallerPc, WorkerPc
<1>3. ListLocked /\ Runners = {}
  BY <1>1 DEF ListLocked, Inside, Thread, Runners
<1>4. Queued = {}
  BY <1>1 DEF Queued
<1>5. OnePlace
  BY <1>1, <1>3, <1>4 DEF OnePlace
<1>6. Fresh
  BY <1>1, <1>3, <1>4 DEF Fresh
<1>7. HeadTaken /\ LifeCycle
  BY <1>1, ThreadKinds DEF HeadTaken, LifeCycle
<1>8. Len(queue) <= MaxRequest + 1
  BY <1>1, PoolAssumption
<1> QED
  BY <1>2, <1>3, <1>5, <1>6, <1>7, <1>8 DEF PoolInv

\* Every step keeps the types.
LEMMA TypeStep ==
  ASSUME PoolInv, [Next]_poolVars
  PROVE  TypeOK'
<1> USE ThreadKinds, RequestSome, NextWorker, NextRequest, InHand, ListType, PoolAssumption
<1>1. CASE Create
  BY <1>1 DEF Create, Goto, shared, history, PoolInv, TypeOK, CallerPc, WorkerPc
<1>2. CASE CreateFails
  BY <1>2 DEF CreateFails, Goto, shared, history, PoolInv, TypeOK, CallerPc, WorkerPc
<1>3. CASE DetachFails
  BY <1>3 DEF DetachFails, Goto, shared, history, PoolInv, TypeOK, CallerPc, WorkerPc
<1>4. CASE Destroy
  BY <1>4 DEF Destroy, Goto, shared, history, PoolInv, TypeOK, CallerPc, WorkerPc
<1>5. ASSUME NEW c \in Caller, Begin(c) PROVE TypeOK'
  BY <1>5 DEF Begin, Goto, shared, history, PoolInv, TypeOK, CallerPc, WorkerPc
<1>6. ASSUME NEW c \in Caller, AppendLock(c) PROVE TypeOK'
  BY <1>6 DEF AppendLock, Goto, LockQueue, shared, history, PoolInv, TypeOK, CallerPc, WorkerPc
<1>7. ASSUME NEW c \in Caller, Reject(c) PROVE TypeOK'
  BY <1>7 DEF Reject, Full, Goto, shared, history, PoolInv, TypeOK, CallerPc, WorkerPc
<1>8. ASSUME NEW c \in Caller, Push(c) PROVE TypeOK'
  BY <1>8 DEF Push, Full, Goto, shared, history, PoolInv, TypeOK, CallerPc, WorkerPc
<1>9. ASSUME NEW c \in Caller, AppendUnlock(c) PROVE TypeOK'
  BY <1>9 DEF AppendUnlock, Goto, shared, history, PoolInv, TypeOK, CallerPc, WorkerPc
<1>10. ASSUME NEW c \in Caller, Post(c) PROVE TypeOK'
  BY <1>10 DEF Post, Goto, shared, history, PoolInv, TypeOK, CallerPc, WorkerPc
<1>11. ASSUME NEW w \in Worker, Test(w) PROVE TypeOK'
  BY <1>11 DEF Test, Goto, shared, history, PoolInv, TypeOK, CallerPc, WorkerPc
<1>12. ASSUME NEW w \in Worker, Wait(w) PROVE TypeOK'
  BY <1>12 DEF Wait, Goto, shared, history, PoolInv, TypeOK, CallerPc, WorkerPc
<1>13. ASSUME NEW w \in Worker, RunLock(w) PROVE TypeOK'
  BY <1>13 DEF RunLock, Goto, LockQueue, shared, history, PoolInv, TypeOK, CallerPc, WorkerPc
<1>14. ASSUME NEW w \in Worker, Empty(w) PROVE TypeOK'
  BY <1>14 DEF Empty, Goto, shared, history, PoolInv, TypeOK, CallerPc, WorkerPc
<1>15. ASSUME NEW w \in Worker, Look(w) PROVE TypeOK'
  BY <1>15 DEF Look, Goto, shared, history, PoolInv, TypeOK, CallerPc, WorkerPc
<1>16. ASSUME NEW w \in Worker, Pop(w) PROVE TypeOK'
  BY <1>16 DEF Pop, Goto, shared, history, PoolInv, TypeOK, CallerPc, WorkerPc
<1>17. ASSUME NEW w \in Worker, Process(w) PROVE TypeOK'
  BY <1>17 DEF Process, Goto, shared, history, PoolInv, TypeOK, CallerPc, WorkerPc
<1>18. ASSUME NEW w \in Worker, Dangle(w) PROVE TypeOK'
  BY <1>18 DEF Dangle, Goto, shared, history, PoolInv, TypeOK, CallerPc, WorkerPc
<1>19. ASSUME NEW w \in Worker, WaitInterrupted(w) PROVE TypeOK'
  BY <1>19 DEF WaitInterrupted, Goto, shared, history, PoolInv, TypeOK, CallerPc, WorkerPc
<1>20. CASE UNCHANGED poolVars
  BY <1>20 DEF poolVars, shared, history, PoolInv, TypeOK, CallerPc, WorkerPc
<1> QED
  BY <1>1, <1>2, <1>3, <1>4, <1>5, <1>6, <1>7, <1>8, <1>9, <1>10, <1>11, <1>12, <1>13, <1>14, <1>15, <1>16, <1>17, <1>18, <1>19, <1>20 DEF Next, Owner, Call, Run

\* No step lets a thread into the list that does not hold the lock.
LEMMA LockedStep ==
  ASSUME PoolInv, [Next]_poolVars
  PROVE  ListLocked'
<1> USE ThreadKinds, RequestSome, PoolAssumption
<1>1. CASE Create
  BY <1>1 DEF Create, Goto, shared, history, PoolInv, TypeOK, CallerPc, WorkerPc, ListLocked, Inside
<1>2. CASE CreateFails
  BY <1>2 DEF CreateFails, Goto, shared, history, PoolInv, TypeOK, CallerPc, WorkerPc, ListLocked, Inside
<1>3. CASE DetachFails
  BY <1>3 DEF DetachFails, Goto, shared, history, PoolInv, TypeOK, CallerPc, WorkerPc, ListLocked, Inside
<1>4. CASE Destroy
  BY <1>4 DEF Destroy, Goto, shared, history, PoolInv, TypeOK, CallerPc, WorkerPc, ListLocked, Inside
<1>5. ASSUME NEW c \in Caller, Begin(c) PROVE ListLocked'
  BY <1>5 DEF Begin, Goto, shared, history, PoolInv, TypeOK, CallerPc, WorkerPc, ListLocked, Inside
<1>6. ASSUME NEW c \in Caller, AppendLock(c) PROVE ListLocked'
  BY <1>6 DEF AppendLock, Goto, LockQueue, shared, history, PoolInv, TypeOK, CallerPc, WorkerPc, ListLocked, Inside
<1>7. ASSUME NEW c \in Caller, Reject(c) PROVE ListLocked'
  BY <1>7 DEF Reject, Full, Goto, shared, history, PoolInv, TypeOK, CallerPc, WorkerPc, ListLocked, Inside
<1>8. ASSUME NEW c \in Caller, Push(c) PROVE ListLocked'
  BY <1>8 DEF Push, Full, Goto, shared, history, PoolInv, TypeOK, CallerPc, WorkerPc, ListLocked, Inside
<1>9. ASSUME NEW c \in Caller, AppendUnlock(c) PROVE ListLocked'
  BY <1>9 DEF AppendUnlock, Goto, shared, history, PoolInv, TypeOK, CallerPc, WorkerPc, ListLocked, Inside
<1>10. ASSUME NEW c \in Caller, Post(c) PROVE ListLocked'
  BY <1>10 DEF Post, Goto, shared, history, PoolInv, TypeOK, CallerPc, WorkerPc, ListLocked, Inside
<1>11. ASSUME NEW w \in Worker, Test(w) PROVE ListLocked'
  BY <1>11 DEF Test, Goto, shared, history, PoolInv, TypeOK, CallerPc, WorkerPc, ListLocked, Inside
<1>12. ASSUME NEW w \in Worker, Wait(w) PROVE ListLocked'
  BY <1>12 DEF Wait, Goto, shared, history, PoolInv, TypeOK, CallerPc, WorkerPc, ListLocked, Inside
<1>13. ASSUME NEW w \in Worker, RunLock(w) PROVE ListLocked'
  BY <1>13 DEF RunLock, Goto, LockQueue, shared, history, PoolInv, TypeOK, CallerPc, WorkerPc, ListLocked, Inside
<1>14. ASSUME NEW w \in Worker, Empty(w) PROVE ListLocked'
  BY <1>14 DEF Empty, Goto, shared, history, PoolInv, TypeOK, CallerPc, WorkerPc, ListLocked, Inside
<1>15. ASSUME NEW w \in Worker, Look(w) PROVE ListLocked'
  BY <1>15 DEF Look, Goto, shared, history, PoolInv, TypeOK, CallerPc, WorkerPc, ListLocked, Inside
<1>16. ASSUME NEW w \in Worker, Pop(w) PROVE ListLocked'
  BY <1>16 DEF Pop, Goto, shared, history, PoolInv, TypeOK, CallerPc, WorkerPc, ListLocked, Inside
<1>17. ASSUME NEW w \in Worker, Process(w) PROVE ListLocked'
  BY <1>17 DEF Process, Goto, shared, history, PoolInv, TypeOK, CallerPc, WorkerPc, ListLocked, Inside
<1>18. ASSUME NEW w \in Worker, Dangle(w) PROVE ListLocked'
  BY <1>18 DEF Dangle, Goto, shared, history, PoolInv, TypeOK, CallerPc, WorkerPc, ListLocked, Inside
<1>19. ASSUME NEW w \in Worker, WaitInterrupted(w) PROVE ListLocked'
  BY <1>19 DEF WaitInterrupted, Goto, shared, history, PoolInv, TypeOK, CallerPc, WorkerPc, ListLocked, Inside
<1>20. CASE UNCHANGED poolVars
  BY <1>20 DEF poolVars, shared, history, PoolInv, TypeOK, CallerPc, WorkerPc, ListLocked, Inside
<1> QED
  BY <1>1, <1>2, <1>3, <1>4, <1>5, <1>6, <1>7, <1>8, <1>9, <1>10, <1>11, <1>12, <1>13, <1>14, <1>15, <1>16, <1>17, <1>18, <1>19, <1>20 DEF Next, Owner, Call, Run

\* Between front and pop_front nobody changes the head of the list.
LEMMA HeadStep ==
  ASSUME PoolInv, [Next]_poolVars
  PROVE  HeadTaken'
<1> USE ThreadKinds, PoolAssumption, Pushed
<1>1. CASE Create
  BY <1>1 DEF Create, Goto, shared, history, PoolInv, TypeOK, CallerPc, WorkerPc, ListLocked, Inside, HeadTaken, LifeCycle
<1>2. CASE CreateFails
  BY <1>2 DEF CreateFails, Goto, shared, history, PoolInv, TypeOK, CallerPc, WorkerPc, ListLocked, Inside, HeadTaken, LifeCycle
<1>3. CASE DetachFails
  BY <1>3 DEF DetachFails, Goto, shared, history, PoolInv, TypeOK, CallerPc, WorkerPc, ListLocked, Inside, HeadTaken, LifeCycle
<1>4. CASE Destroy
  BY <1>4 DEF Destroy, Goto, shared, history, PoolInv, TypeOK, CallerPc, WorkerPc, ListLocked, Inside, HeadTaken, LifeCycle
<1>5. ASSUME NEW c \in Caller, Begin(c) PROVE HeadTaken'
  BY <1>5 DEF Begin, Goto, shared, history, PoolInv, TypeOK, CallerPc, WorkerPc, ListLocked, Inside, HeadTaken, LifeCycle
<1>6. ASSUME NEW c \in Caller, AppendLock(c) PROVE HeadTaken'
  BY <1>6 DEF AppendLock, Goto, LockQueue, shared, history, PoolInv, TypeOK, CallerPc, WorkerPc, ListLocked, Inside, HeadTaken, LifeCycle
<1>7. ASSUME NEW c \in Caller, Reject(c) PROVE HeadTaken'
  BY <1>7 DEF Reject, Full, Goto, shared, history, PoolInv, TypeOK, CallerPc, WorkerPc, ListLocked, Inside, HeadTaken, LifeCycle
<1>8. ASSUME NEW c \in Caller, Push(c) PROVE HeadTaken'
  BY <1>8 DEF Push, Full, Goto, shared, history, PoolInv, TypeOK, CallerPc, WorkerPc, ListLocked, Inside, HeadTaken, LifeCycle
<1>9. ASSUME NEW c \in Caller, AppendUnlock(c) PROVE HeadTaken'
  BY <1>9 DEF AppendUnlock, Goto, shared, history, PoolInv, TypeOK, CallerPc, WorkerPc, ListLocked, Inside, HeadTaken, LifeCycle
<1>10. ASSUME NEW c \in Caller, Post(c) PROVE HeadTaken'
  BY <1>10 DEF Post, Goto, shared, history, PoolInv, TypeOK, CallerPc, WorkerPc, ListLocked, Inside, HeadTaken, LifeCycle
<1>11. ASSUME NEW w \in Worker, Test(w) PROVE HeadTaken'
  BY <1>11 DEF Test, Goto, shared, history, PoolInv, TypeOK, CallerPc, WorkerPc, ListLocked, Inside, HeadTaken, LifeCycle
<1>12. ASSUME NEW w \in Worker, Wait(w) PROVE HeadTaken'
  BY <1>12 DEF Wait, Goto, shared, history, PoolInv, TypeOK, CallerPc, WorkerPc, ListLocked, Inside, HeadTaken, LifeCycle
<1>13. ASSUME NEW w \in Worker, RunLock(w) PROVE HeadTaken'
  BY <1>13 DEF RunLock, Goto, LockQueue, shared, history, PoolInv, TypeOK, CallerPc, WorkerPc, ListLocked, Inside, HeadTaken, LifeCycle
<1>14. ASSUME NEW w \in Worker, Empty(w) PROVE HeadTaken'
  BY <1>14 DEF Empty, Goto, shared, history, PoolInv, TypeOK, CallerPc, WorkerPc, ListLocked, Inside, HeadTaken, LifeCycle
<1>15. ASSUME NEW w \in Worker, Look(w) PROVE HeadTaken'
  BY <1>15 DEF Look, Goto, shared, history, PoolInv, TypeOK, CallerPc, WorkerPc, ListLocked, Inside, HeadTaken, LifeCycle
<1>16. ASSUME NEW w \in Worker, Pop(w) PROVE HeadTaken'
  BY <1>16 DEF Pop, Goto, shared, history, PoolInv, TypeOK, CallerPc, WorkerPc, ListLocked, Inside, HeadTaken, LifeCycle
<1>17. ASSUME NEW w \in Worker, Process(w) PROVE HeadTaken'
  BY <1>17 DEF Process, Goto, shared, history, PoolInv, TypeOK, CallerPc, WorkerPc, ListLocked, Inside, HeadTaken, LifeCycle
<1>18. ASSUME NEW w \in Worker, Dangle(w) PROVE HeadTaken'
  BY <1>18 DEF Dangle, Goto, shared, history, PoolInv, TypeOK, CallerPc, WorkerPc, ListLocked, Inside, HeadTaken, LifeCycle
<1>19. ASSUME NEW w \in Worker, WaitInterrupted(w) PROVE HeadTaken'
  BY <1>19 DEF WaitInterrupted, Goto, shared, history, PoolInv, TypeOK, CallerPc, WorkerPc, ListLocked, Inside, HeadTaken, LifeCycle
<1>20. CASE UNCHANGED poolVars
  BY <1>20 DEF poolVars, shared, history, PoolInv, TypeOK, CallerPc, WorkerPc, ListLocked, Inside, HeadTaken, LifeCycle
<1> QED
  BY <1>1, <1>2, <1>3, <1>4, <1>5, <1>6, <1>7, <1>8, <1>9, <1>10, <1>11, <1>12, <1>13, <1>14, <1>15, <1>16, <1>17, <1>18, <1>19, <1>20, SMTT(30) DEF Next, Owner, Call, Run

\* The list and the callers follow the life of the pool.
LEMMA LifeStep ==
  ASSUME PoolInv, [Next]_poolVars
  PROVE  LifeCycle'
<1> USE ThreadKinds, PoolAssumption, NextWorker
<1>1. CASE Create
  <2>1. \A i \in DOMAIN Workers : i > started' => Workers[i] # Workers[started + 1]
    BY <1>1, NextWorker, ThreadKinds DEF Create, PoolAssumption
  <2>2. \A i \in DOMAIN Workers : i > started' => i > started
    <3>1. started \in Nat /\ DOMAIN Workers \subseteq Nat
      BY ThreadKinds DEF PoolInv, TypeOK
    <3>2. started' = started + 1
      BY <1>1 DEF Create
    <3> QED
      BY <3>1, <3>2
  <2> QED
    BY <1>1, <2>1, <2>2, NextWorker, ThreadKinds DEF Create, Goto, shared, PoolInv, TypeOK, LifeCycle
<1>2. CASE CreateFails
  BY <1>2 DEF CreateFails, Goto, shared, history, PoolInv, TypeOK, CallerPc, WorkerPc, LifeCycle
<1>3. CASE DetachFails
  <2>1. \A i \in DOMAIN Workers : i > started' => Workers[i] # Workers[started + 1]
    BY <1>3, NextWorker, ThreadKinds DEF DetachFails, PoolAssumption
  <2>2. \A i \in DOMAIN Workers : i > started' => i > started
    <3>1. started \in Nat /\ DOMAIN Workers \subseteq Nat
      BY ThreadKinds DEF PoolInv, TypeOK
    <3>2. started' = started + 1
      BY <1>3 DEF DetachFails
    <3> QED
      BY <3>1, <3>2
  <2> QED
    BY <1>3, <2>1, <2>2, NextWorker, ThreadKinds DEF DetachFails, Goto, shared, PoolInv, TypeOK, LifeCycle
<1>4. CASE Destroy
  BY <1>4 DEF Destroy, Goto, shared, history, PoolInv, TypeOK, CallerPc, WorkerPc, LifeCycle
<1>5. ASSUME NEW c \in Caller, Begin(c) PROVE LifeCycle'
  BY <1>5 DEF Begin, Goto, shared, history, PoolInv, TypeOK, CallerPc, WorkerPc, LifeCycle
<1>6. ASSUME NEW c \in Caller, AppendLock(c) PROVE LifeCycle'
  BY <1>6 DEF AppendLock, Goto, LockQueue, shared, history, PoolInv, TypeOK, CallerPc, WorkerPc, LifeCycle
<1>7. ASSUME NEW c \in Caller, Reject(c) PROVE LifeCycle'
  BY <1>7 DEF Reject, Full, Goto, shared, history, PoolInv, TypeOK, CallerPc, WorkerPc, LifeCycle
<1>8. ASSUME NEW c \in Caller, Push(c) PROVE LifeCycle'
  BY <1>8 DEF Push, Full, Goto, shared, history, PoolInv, TypeOK, CallerPc, WorkerPc, LifeCycle
<1>9. ASSUME NEW c \in Caller, AppendUnlock(c) PROVE LifeCycle'
  BY <1>9 DEF AppendUnlock, Goto, shared, history, PoolInv, TypeOK, CallerPc, WorkerPc, LifeCycle
<1>10. ASSUME NEW c \in Caller, Post(c) PROVE LifeCycle'
  BY <1>10 DEF Post, Goto, shared, history, PoolInv, TypeOK, CallerPc, WorkerPc, LifeCycle
<1>11. ASSUME NEW w \in Worker, Test(w) PROVE LifeCycle'
  BY <1>11 DEF Test, Goto, shared, history, PoolInv, TypeOK, CallerPc, WorkerPc, LifeCycle
<1>12. ASSUME NEW w \in Worker, Wait(w) PROVE LifeCycle'
  BY <1>12 DEF Wait, Goto, shared, history, PoolInv, TypeOK, CallerPc, WorkerPc, LifeCycle
<1>13. ASSUME NEW w \in Worker, RunLock(w) PROVE LifeCycle'
  BY <1>13 DEF RunLock, Goto, LockQueue, shared, history, PoolInv, TypeOK, CallerPc, WorkerPc, LifeCycle
<1>14. ASSUME NEW w \in Worker, Empty(w) PROVE LifeCycle'
  BY <1>14 DEF Empty, Goto, shared, history, PoolInv, TypeOK, CallerPc, WorkerPc, LifeCycle
<1>15. ASSUME NEW w \in Worker, Look(w) PROVE LifeCycle'
  BY <1>15 DEF Look, Goto, shared, history, PoolInv, TypeOK, CallerPc, WorkerPc, LifeCycle
<1>16. ASSUME NEW w \in Worker, Pop(w) PROVE LifeCycle'
  BY <1>16 DEF Pop, Goto, shared, history, PoolInv, TypeOK, CallerPc, WorkerPc, LifeCycle
<1>17. ASSUME NEW w \in Worker, Process(w) PROVE LifeCycle'
  BY <1>17 DEF Process, Goto, shared, history, PoolInv, TypeOK, CallerPc, WorkerPc, LifeCycle
<1>18. ASSUME NEW w \in Worker, Dangle(w) PROVE LifeCycle'
  BY <1>18 DEF Dangle, Goto, shared, history, PoolInv, TypeOK, CallerPc, WorkerPc, LifeCycle
<1>19. ASSUME NEW w \in Worker, WaitInterrupted(w) PROVE LifeCycle'
  BY <1>19 DEF WaitInterrupted, Goto, shared, history, PoolInv, TypeOK, CallerPc, WorkerPc, LifeCycle
<1>20. CASE UNCHANGED poolVars
  BY <1>20 DEF poolVars, shared, history, PoolInv, TypeOK, CallerPc, WorkerPc, LifeCycle
<1> QED
  BY <1>1, <1>2, <1>3, <1>4, <1>5, <1>6, <1>7, <1>8, <1>9, <1>10, <1>11, <1>12, <1>13, <1>14, <1>15, <1>16, <1>17, <1>18, <1>19, <1>20, SMTT(30) DEF Next, Owner, Call, Run

-----------------------------------------------------------------------------
(* Where the requests are.                                                 *)

\* A step that moves no request.
Quiet ==
  /\ UNCHANGED <<queue, refused, done, count>>
  /\ Runners' = Runners
  /\ \A w \in Runners : req'[w] = req[w]
  /\ \A c \in Caller :
       pc'[c] \in {"lock", "check"} => pc[c] \in {"lock", "check"} /\ req'[c] = req[c]

\* The steps that move none.
LEMMA QuietSteps ==
  ASSUME PoolInv,
         \/ Create \/ CreateFails \/ DetachFails \/ UNCHANGED poolVars
         \/ \E c \in Caller : AppendLock(c) \/ AppendUnlock(c) \/ Post(c)
         \/ \E w \in Worker : \/ Test(w) \/ Wait(w) \/ WaitInterrupted(w) \/ RunLock(w)
                              \/ Empty(w) \/ Look(w) \/ Dangle(w)
  PROVE  Quiet
<1> USE ThreadKinds, NextWorker DEF Quiet, Runners, PoolInv, TypeOK, Goto, shared, history
<1>1. CASE Create
  BY <1>1 DEF Create
<1>2. CASE CreateFails
  BY <1>2 DEF CreateFails
<1>3. CASE DetachFails
  BY <1>3 DEF DetachFails
<1>4. CASE UNCHANGED poolVars
  BY <1>4 DEF poolVars
<1>5. ASSUME NEW c \in Caller, AppendLock(c) \/ AppendUnlock(c) \/ Post(c) PROVE Quiet
  BY <1>5 DEF AppendLock, LockQueue, AppendUnlock, Post
<1>6. ASSUME NEW w \in Worker, Test(w) \/ Wait(w) \/ WaitInterrupted(w) PROVE Quiet
  BY <1>6 DEF Test, Wait, WaitInterrupted
<1>7. ASSUME NEW w \in Worker, RunLock(w) \/ Empty(w) \/ Dangle(w) PROVE Quiet
  BY <1>7 DEF RunLock, LockQueue, Empty, Dangle
<1>8. ASSUME NEW w \in Worker, Look(w) PROVE Quiet
  BY <1>8 DEF Look
<1> QED
  BY <1>1, <1>2, <1>3, <1>4, <1>5, <1>6, <1>7, <1>8, SMTT(30)

Placed == OnePlace /\ Fresh /\ Len(queue) <= MaxRequest + 1

\* They leave the places alone.
LEMMA QuietPlace ==
  ASSUME PoolInv, Quiet
  PROVE  Placed'
<1>1. Queued' = Queued
  BY DEF Quiet, Queued
<1>2. OnePlace'
  BY <1>1 DEF PoolInv, Quiet, OnePlace
<1>3. Fresh'
  BY <1>1 DEF PoolInv, Quiet, Fresh
<1> QED
  BY <1>2, <1>3 DEF PoolInv, Quiet, Placed

\* The destructor drops the list.
LEMMA DestroyPlace ==
  ASSUME PoolInv, Destroy
  PROVE  Placed'
<1>1. Queued' = {} /\ Runners' = Runners /\ Len(queue') = 0
  BY DEF Destroy, Queued, Runners, shared
<1>2. OnePlace'
  BY <1>1 DEF PoolInv, Destroy, OnePlace, history
<1>3. Fresh'
  BY <1>1 DEF PoolInv, Destroy, Fresh, history
<1> QED
  BY <1>1, <1>2, <1>3, PoolAssumption DEF Placed

\* A new request has a number no request of its caller has had.
LEMMA BeginPlace ==
  ASSUME PoolInv, NEW c \in Caller, Begin(c)
  PROVE  Placed'
<1>1. Queued' = Queued /\ Runners' = Runners /\ c \notin Runners /\ UNCHANGED <<queue, refused, done>>
  BY ThreadKinds DEF PoolInv, TypeOK, Begin, Queued, Runners, shared, history, Goto
<1>2. /\ req'[c] = <<c, count[c] + 1>> /\ req'[c] \in Request /\ count'[c] = count[c] + 1
      /\ \A t \in Thread : t # c => req'[t] = req[t] /\ pc'[t] = pc[t]
      /\ \A d \in Caller : d # c => count'[d] = count[d]
      /\ count[c] \in Nat
  BY NextRequest, ThreadKinds DEF PoolInv, TypeOK, Begin, Goto
<1>3. \A w \in Runners : req'[w] = req[w]
  BY <1>1, <1>2, ThreadKinds DEF Runners
<1>4. OnePlace'
  BY <1>1, <1>3 DEF PoolInv, OnePlace
<1>5. \A r \in Queued \cup done \cup refused : r \in Request /\ r[2] <= count'[r[1]] /\ r # req'[c]
  <2>1. TAKE r \in Queued \cup done \cup refused
  <2>2. r \in Request
    BY <2>1 DEF PoolInv, TypeOK, Queued
  <2>3. r[1] \in Caller /\ r[2] \in Nat /\ r[2] <= count[r[1]]
    BY <2>1, <2>2 DEF Request, PoolInv, Fresh
  <2> QED
    BY <1>2, <2>2, <2>3
<1>6. \A w \in Runners : req[w] \in Request /\ req[w][2] <= count'[req[w][1]] /\ req[w] # req'[c]
  <2>1. TAKE w \in Runners
  <2>2. req[w] \in Request /\ req[w][2] <= count[req[w][1]]
    BY <2>1 DEF PoolInv, Fresh
  <2>3. req[w][1] \in Caller /\ req[w][2] \in Nat
    BY <2>2 DEF Request
  <2> QED
    BY <1>2, <2>2, <2>3
<1>7. \A d \in Caller : pc'[d] \in {"lock", "check"} =>
        /\ req'[d] = <<d, count'[d]>> /\ req'[d] \in Request
        /\ req'[d] \notin Queued \cup done \cup refused
        /\ \A w \in Runners : req[w] # req'[d]
  <2>1. TAKE d \in Caller
  <2>2. CASE d = c
    BY <2>2, <1>2, <1>5, <1>6
  <2>3. CASE d # c
    BY <2>3, <1>2, ThreadKinds DEF PoolInv, Fresh
  <2> QED
    BY <2>2, <2>3
<1>8. Fresh'
  BY <1>1, <1>3, <1>5, <1>6, <1>7 DEF Fresh
<1> QED
  BY <1>1, <1>4, <1>8 DEF PoolInv, Placed

\* The requests that two callers bring are different.
LEMMA OtherCaller ==
  ASSUME PoolInv, NEW c \in Caller, NEW d \in Caller, c # d,
         pc[c] \in {"lock", "check"}, pc[d] \in {"lock", "check"}
  PROVE  req[c] # req[d]
BY DEF PoolInv, Fresh

\* A refused request is in no other place.
LEMMA RejectPlace ==
  ASSUME PoolInv, NEW c \in Caller, Reject(c)
  PROVE  Placed'
<1>1. /\ Queued' = Queued /\ Runners' = Runners /\ c \notin Runners
      /\ UNCHANGED <<queue, done, count>> /\ refused' = refused \cup {req[c]}
  BY ThreadKinds DEF PoolInv, TypeOK, Reject, Queued, Runners, Goto
<1>2. /\ pc[c] = "check" /\ pc'[c] = "idle"
      /\ \A t \in Thread : t # c => req'[t] = req[t] /\ pc'[t] = pc[t]
  BY ThreadKinds DEF PoolInv, TypeOK, Reject, Goto
<1>3. \A w \in Runners : req'[w] = req[w]
  BY <1>1, <1>2, ThreadKinds DEF Runners
<1>4. /\ req[c] = <<c, count[c]>> /\ req[c] \notin Queued \cup done \cup refused
      /\ \A w \in Runners : req[w] # req[c]
  BY <1>2 DEF PoolInv, Fresh
<1>5. OnePlace'
  BY <1>1, <1>3, <1>4 DEF PoolInv, OnePlace
<1>6. count[c] <= count[c]
  BY DEF PoolInv, TypeOK
<1>7. \A r \in (Queued \cup done \cup refused)' : r[2] <= count[r[1]]
  BY <1>1, <1>4, <1>6 DEF PoolInv, Fresh
<1>8. \A d \in Caller : pc'[d] \in {"lock", "check"} =>
        d # c /\ pc[d] \in {"lock", "check"} /\ req'[d] = req[d] /\ req[d] # req[c]
  BY <1>2, ThreadKinds, OtherCaller
<1>9. Fresh'
  BY <1>1, <1>3, <1>7, <1>8 DEF PoolInv, Fresh
<1> QED
  BY <1>1, <1>5, <1>9 DEF PoolInv, Placed

\* What Push does to the list.
LEMMA PushList ==
  ASSUME PoolInv, NEW c \in Caller, Push(c)
  PROVE  /\ queue' = Append(queue, req[c]) /\ req[c] \in Request
         /\ Queued' = Queued \cup {req[c]}
         /\ Len(queue) \in Nat /\ Len(queue) <= MaxRequest
         /\ Len(queue') = Len(queue) + 1
         /\ DOMAIN queue' = 1..(Len(queue) + 1) /\ DOMAIN queue = 1..Len(queue)
         /\ \A i \in 1..Len(queue) : queue'[i] = queue[i] /\ queue[i] \in Queued
         /\ queue'[Len(queue) + 1] = req[c]
<1>1. queue' = Append(queue, req[c]) /\ req[c] \in Request /\ ~ Full
  BY InHand DEF Push
<1>2. queue \in Seq(Request) /\ Len(queue) \in Nat /\ DOMAIN queue = 1..Len(queue)
  BY LenProperties DEF PoolInv, TypeOK
<1>3. /\ Len(queue') = Len(queue) + 1 /\ DOMAIN queue' = 1..(Len(queue) + 1)
      /\ \A i \in 1..Len(queue) : queue'[i] = queue[i]
      /\ queue'[Len(queue) + 1] = req[c]
  BY <1>1, <1>2, Pushed
<1>4. Queued' = Queued \cup {req[c]}
  <2>1. Queued' \subseteq Queued \cup {req[c]}
    BY <1>2, <1>3 DEF Queued
  <2>2. Queued \cup {req[c]} \subseteq Queued'
    BY <1>2, <1>3 DEF Queued
  <2> QED
    BY <2>1, <2>2
<1>5. Len(queue) <= MaxRequest
  BY <1>1, <1>2, PoolAssumption DEF Full
<1>6. \A i \in 1..Len(queue) : queue[i] \in Queued
  BY <1>2 DEF Queued
<1> QED
  BY <1>1, <1>2, <1>3, <1>4, <1>5, <1>6

\* A pushed request is in the list only, and once.
LEMMA PushPlace ==
  ASSUME PoolInv, NEW c \in Caller, Push(c)
  PROVE  Placed'
<1>1. /\ Runners' = Runners /\ c \notin Runners
      /\ UNCHANGED <<done, refused, count, req>>
  BY ThreadKinds DEF PoolInv, TypeOK, Push, Runners, Goto, history
<1>2. /\ pc[c] = "check" /\ pc'[c] = "unlock"
      /\ \A t \in Thread : t # c => pc'[t] = pc[t]
  BY ThreadKinds DEF PoolInv, TypeOK, Push, Goto
<1>3. /\ req[c] = <<c, count[c]>> /\ req[c] \notin Queued \cup done \cup refused
      /\ \A w \in Runners : req[w] # req[c]
  BY <1>2 DEF PoolInv, Fresh
<1>4. \A i, k \in DOMAIN queue' : queue'[i] = queue'[k] => i = k
  <2>1. SUFFICES ASSUME NEW i \in 1..(Len(queue) + 1), NEW k \in 1..(Len(queue) + 1),
                        queue'[i] = queue'[k]
                 PROVE  i = k
    BY PushList
  <2>2. CASE i <= Len(queue) /\ k <= Len(queue)
    BY <2>1, <2>2, PushList DEF PoolInv, OnePlace
  <2>3. CASE i = Len(queue) + 1 \/ k = Len(queue) + 1
    BY <2>1, <2>3, <1>3, PushList, SMTT(30)
  <2> QED
    BY <2>2, <2>3, PushList
<1>5. Queued' = Queued \cup {req[c]}
  BY PushList
<1>6. OnePlace'
  BY <1>1, <1>3, <1>4, <1>5 DEF PoolInv, OnePlace
<1>7. count[c] <= count[c]
  BY DEF PoolInv, TypeOK
<1>8. \A r \in (Queued \cup done \cup refused)' : r[2] <= count[r[1]]
  BY <1>1, <1>3, <1>5, <1>7 DEF PoolInv, Fresh
<1>9. \A d \in Caller : pc'[d] \in {"lock", "check"} =>
        d # c /\ pc[d] \in {"lock", "check"} /\ req[d] # req[c]
  BY <1>2, ThreadKinds, OtherCaller
<1>10. Fresh'
  BY <1>1, <1>5, <1>8, <1>9 DEF PoolInv, Fresh
<1> QED
  BY <1>6, <1>10, PushList, PoolAssumption DEF Placed

\* What Pop does to the list.
LEMMA PopList ==
  ASSUME PoolInv, NEW w \in Worker, Pop(w)
  PROVE  /\ queue # <<>> /\ queue' = Tail(queue) /\ req[w] = Head(queue) /\ req[w] \in Request
         /\ Len(queue') = Len(queue) - 1 /\ Len(queue) \in Nat
         /\ DOMAIN queue' = 1..(Len(queue) - 1) /\ DOMAIN queue = 1..Len(queue)
         /\ \A i \in 1..(Len(queue) - 1) : queue'[i] = queue[i + 1]
         /\ req[w] \in Queued /\ Queued' \subseteq Queued /\ req[w] \notin Queued'
<1>1. queue # <<>> /\ queue' = Tail(queue) /\ req[w] = Head(queue)
  BY DEF Pop, PoolInv, HeadTaken
<1>2. queue \in Seq(Request) /\ Len(queue) \in Nat /\ DOMAIN queue = 1..Len(queue)
  BY LenProperties DEF PoolInv, TypeOK
<1>3. /\ req[w] \in Request /\ req[w] = queue[1] /\ Len(queue) > 0
      /\ Len(queue') = Len(queue) - 1 /\ DOMAIN queue' = 1..(Len(queue) - 1)
      /\ \A i \in 1..(Len(queue) - 1) : queue'[i] = queue[i + 1]
  BY <1>1, <1>2, Popped
<1>4. req[w] \in Queued
  BY <1>2, <1>3 DEF Queued
<1>5. Queued' \subseteq Queued
  BY <1>2, <1>3 DEF Queued
<1>6. \A i \in 1..(Len(queue) - 1) : queue[i + 1] # queue[1]
  BY <1>2, <1>3 DEF PoolInv, OnePlace
<1>7. req[w] \notin Queued'
  BY <1>3, <1>6 DEF Queued
<1> QED
  BY <1>1, <1>2, <1>3, <1>4, <1>5, <1>7

\* A request that is taken leaves the list.
LEMMA PopPlace ==
  ASSUME PoolInv, NEW w \in Worker, Pop(w)
  PROVE  Placed'
<1>1. /\ Runners' = Runners \cup {w} /\ w \notin Runners
      /\ UNCHANGED <<done, refused, count, req>>
  BY ThreadKinds DEF PoolInv, TypeOK, Pop, Runners, Goto, history
<1>2. \A c \in Caller : pc'[c] = pc[c]
  BY ThreadKinds DEF PoolInv, TypeOK, Pop, Goto
<1>3. /\ req[w] \notin done \cup refused
      /\ \A v \in Runners : req[v] # req[w]
      /\ req[w][2] <= count[req[w][1]]
  BY PopList DEF PoolInv, OnePlace, Fresh
<1>4. \A i, k \in DOMAIN queue' : queue'[i] = queue'[k] => i = k
  <2>1. SUFFICES ASSUME NEW i \in 1..(Len(queue) - 1), NEW k \in 1..(Len(queue) - 1),
                        queue'[i] = queue'[k]
                 PROVE  i = k
    BY PopList
  <2>2. i + 1 \in DOMAIN queue /\ k + 1 \in DOMAIN queue /\ queue[i + 1] = queue[k + 1]
    BY <2>1, PopList
  <2>3. i + 1 = k + 1
    BY <2>2 DEF PoolInv, OnePlace
  <2> QED
    BY <2>3
<1>5. Queued' \subseteq Queued /\ req[w] \notin Queued' /\ req[w] \in Queued /\ req[w] \in Request
  BY PopList
<1>6. OnePlace'
  BY <1>1, <1>3, <1>4, <1>5 DEF PoolInv, OnePlace
<1>7. Fresh'
  BY <1>1, <1>2, <1>3, <1>5 DEF PoolInv, Fresh
<1> QED
  BY <1>6, <1>7, PopList, PoolAssumption DEF Placed, PoolInv

\* A processed request goes from its worker to the processed ones.
LEMMA ProcessPlace ==
  ASSUME PoolInv, NEW w \in Worker, Process(w)
  PROVE  Placed'
<1>1. /\ Queued' = Queued /\ Runners' = Runners \ {w} /\ w \in Runners
      /\ UNCHANGED <<queue, refused, count>> /\ done' = done \cup {req[w]}
  BY ThreadKinds DEF PoolInv, TypeOK, Process, Queued, Runners, Goto, shared
<1>2. /\ \A v \in Runners' : req'[v] = req[v] /\ v \in Runners /\ v # w
      /\ \A c \in Caller : pc'[c] = pc[c] /\ req'[c] = req[c]
  BY <1>1, ThreadKinds DEF PoolInv, TypeOK, Process, Goto, Runners
<1>3. OnePlace'
  BY <1>1, <1>2 DEF PoolInv, OnePlace
<1>4. Fresh'
  BY <1>1, <1>2 DEF PoolInv, Fresh
<1> QED
  BY <1>1, <1>3, <1>4 DEF PoolInv, Placed

\* Every step keeps every request in one place.
LEMMA PlaceStep ==
  ASSUME PoolInv, [Next]_poolVars
  PROVE  Placed'
<1>1. CASE Quiet
  BY <1>1, QuietPlace
<1>2. CASE Destroy
  BY <1>2, DestroyPlace
<1>3. ASSUME NEW c \in Caller, Begin(c) \/ Reject(c) \/ Push(c) PROVE Placed'
  BY <1>3, BeginPlace, RejectPlace, PushPlace
<1>4. ASSUME NEW w \in Worker, Pop(w) \/ Process(w) PROVE Placed'
  BY <1>4, PopPlace, ProcessPlace
<1> QED
  BY <1>1, <1>2, <1>3, <1>4, QuietSteps DEF Next, Owner, Call, Run

\* The invariant is inductive.
LEMMA InvStep ==
  ASSUME PoolInv, [Next]_poolVars
  PROVE  PoolInv'
BY TypeStep, LockedStep, HeadStep, LifeStep, PlaceStep DEF PoolInv, Placed

\* The inductive invariant of the thread pool (Append and Run of
\* thread_pool.hpp): types, the lock, and one place for every request.
THEOREM Pool == Spec => []PoolInv
<1>1. Init => PoolInv
  BY InvInit
<1>2. PoolInv /\ [Next]_poolVars => PoolInv'
  BY InvStep
<1> QED
  BY <1>1, <1>2, PTL DEF Spec

\* Only the thread that holds queue_locker_ is between Lock and Unlock.
THEOREM LockedList == Spec => []ListLocked
BY Pool, PTL DEF PoolInv

\* No request is in the list twice, run twice, or both refused and run.
THEOREM OneRun == Spec => []OnePlace
BY Pool, PTL DEF PoolInv

-----------------------------------------------------------------------------
(* The bounded queue of JobQueue.                                          *)

\* A step that moves no request stutters or shuts the queue.
LEMMA QuietJobs ==
  ASSUME PoolInv, Quiet, [Next]_poolVars, (life = "gone") <=> (life' = "gone")
  PROVE  UNCHANGED Jobs!jobVars
BY DEF Quiet, Jobs!jobVars

\* The end of the pool shuts the queue.
LEMMA ShutJobs ==
  ASSUME PoolInv, Destroy \/ CreateFails \/ DetachFails
  PROVE  Jobs!Shut
<1>1. queue' = <<>> /\ life # "gone" /\ life' = "gone"
  BY DEF Destroy, CreateFails, DetachFails, PoolInv, LifeCycle, shared
<1>2. Runners' = Runners /\ \A w \in Runners : req'[w] = req[w]
  BY QuietSteps DEF Destroy, Quiet, Runners, shared
<1>3. UNCHANGED <<refused, done>>
  BY DEF Destroy, CreateFails, DetachFails, history
<1> QED
  BY <1>1, <1>2, <1>3 DEF Jobs!Shut

\* Push is Accept.
LEMMA PushJobs ==
  ASSUME PoolInv, NEW c \in Caller, Push(c)
  PROVE  Jobs!Accept(req[c])
<1>1. /\ Runners' = Runners /\ UNCHANGED <<done, refused, req, life>> /\ life = "up"
      /\ pc[c] = "check"
  BY ThreadKinds DEF PoolInv, TypeOK, LifeCycle, Push, Runners, Goto, history
<1>2. /\ req[c] \notin Queued \cup done \cup refused
      /\ \A w \in Runners : req[w] # req[c]
  BY <1>1 DEF PoolInv, Fresh
<1> QED
  BY <1>1, <1>2, PushList, PoolAssumption DEF Jobs!Accept, Jobs!Waiting, Queued

\* Reject is Refuse: the list is as long as it may be.
LEMMA RejectJobs ==
  ASSUME PoolInv, NEW c \in Caller, Reject(c)
  PROVE  Jobs!Refuse(req[c])
<1>1. /\ Runners' = Runners /\ UNCHANGED <<queue, done, life>> /\ life = "up"
      /\ pc[c] = "check" /\ Full /\ refused' = refused \cup {req[c]}
      /\ \A w \in Runners : req'[w] = req[w]
  BY ThreadKinds DEF PoolInv, TypeOK, LifeCycle, Reject, Runners, Goto
<1>2. /\ req[c] \notin Queued \cup done \cup refused
      /\ \A w \in Runners : req[w] # req[c]
  BY <1>1 DEF PoolInv, Fresh
<1>3. Len(queue) \in Nat /\ Len(queue) <= MaxRequest + 1
  BY LenProperties DEF PoolInv, TypeOK
<1>4. Len(queue) = MaxRequest + 1
  BY <1>1, <1>3, PoolAssumption DEF Full
<1> QED
  BY <1>1, <1>2, <1>4 DEF Jobs!Refuse, Jobs!Waiting, Queued

\* Pop is Take.
LEMMA PopJobs ==
  ASSUME PoolInv, NEW w \in Worker, Pop(w)
  PROVE  Jobs!Take
<1>1. /\ Runners' = Runners \cup {w} /\ UNCHANGED <<done, refused, req, life>> /\ life # "gone"
  BY ThreadKinds DEF PoolInv, TypeOK, Pop, Runners, Goto, history
<1> QED
  BY <1>1, PopList DEF Jobs!Take

\* Process is Finish.
LEMMA ProcessJobs ==
  ASSUME PoolInv, NEW w \in Worker, Process(w)
  PROVE  Jobs!Finish(req[w])
<1>1. /\ Runners' = Runners \ {w} /\ w \in Runners
      /\ UNCHANGED <<queue, refused, life>> /\ done' = done \cup {req[w]}
      /\ \A v \in Runners' : req'[v] = req[v]
  BY ThreadKinds DEF PoolInv, TypeOK, Process, Runners, Goto, shared
<1>2. \A v \in Runners : v # w => req[v] # req[w]
  BY <1>1 DEF PoolInv, OnePlace
<1> QED
  BY <1>1, <1>2 DEF Jobs!Finish

\* Every step of the pool is a step of the bounded queue or a stutter.
LEMMA JobsStep ==
  ASSUME PoolInv, [Next]_poolVars
  PROVE  [Jobs!JobNext]_(Jobs!jobVars)
<1>1. CASE Destroy \/ CreateFails \/ DetachFails
  BY <1>1, ShutJobs DEF Jobs!JobNext
<1>2. CASE Create \/ UNCHANGED poolVars
  <2>1. (life = "gone") <=> (life' = "gone")
    BY <1>2 DEF Create, poolVars
  <2> QED
    BY <1>2, <2>1, QuietSteps, QuietJobs
<1>3. ASSUME NEW c \in Caller, Begin(c) \/ Call(c)
      PROVE  [Jobs!JobNext]_(Jobs!jobVars)
  <2>1. CASE Push(c) \/ Reject(c)
    BY <2>1, PushJobs, RejectJobs, InHand DEF Jobs!JobNext, Push, Reject
  <2>2. CASE Begin(c)
    <3>1. Runners' = Runners /\ \A w \in Runners : req'[w] = req[w]
      BY <2>2, ThreadKinds DEF PoolInv, TypeOK, Begin, Runners, Goto
    <3> QED
      BY <2>2, <3>1 DEF Begin, Jobs!jobVars, shared, history
  <2>3. CASE AppendLock(c) \/ AppendUnlock(c) \/ Post(c)
    <3>1. life' = life
      BY <2>3 DEF AppendLock, LockQueue, AppendUnlock, Post
    <3> QED
      BY <2>3, <3>1, QuietSteps, QuietJobs
  <2> QED
    BY <1>3, <2>1, <2>2, <2>3 DEF Call
<1>4. ASSUME NEW w \in Worker, Run(w) \/ WaitInterrupted(w)
      PROVE  [Jobs!JobNext]_(Jobs!jobVars)
  <2>1. CASE Pop(w)
    BY <2>1, PopJobs DEF Jobs!JobNext
  <2>2. CASE Process(w)
    <3>1. pc[w] = "run"
      BY <2>2 DEF Process
    <3>2. req[w] \in Request /\ Jobs!Finish(req[w])
      BY <2>2, <3>1, ProcessJobs, InHand
    <3>3. \E j \in Request : Jobs!Finish(j)
      BY <3>2 DEF Jobs!Finish
    <3> QED
      BY <3>3 DEF Jobs!JobNext
  <2>3. CASE \/ Test(w) \/ Wait(w) \/ WaitInterrupted(w) \/ RunLock(w) \/ Empty(w)
             \/ Look(w) \/ Dangle(w)
    <3>1. life' = life
      BY <2>3 DEF Test, Wait, WaitInterrupted, RunLock, LockQueue, Empty, Look, Dangle
    <3> QED
      BY <2>3, <3>1, QuietSteps, QuietJobs
  <2> QED
    BY <1>4, <2>1, <2>2, <2>3 DEF Run
<1> QED
  BY <1>1, <1>2, <1>3, <1>4 DEF Next, Owner

\* The pool implements the bounded queue: what Append accepts is run once, in
\* the order of acceptance, and Append refuses only when the list holds
\* max_request_ + 1 requests.
THEOREM Implements == Spec => ImplementsJobQueue
<1>1. Init => Jobs!JobInit
  <2> SUFFICES ASSUME Init PROVE Jobs!JobInit
    OBVIOUS
  <2>2. \A w \in Worker : pc[w] = "unborn"
    BY ThreadKinds DEF Init
  <2>3. Runners = {}
    BY <2>2 DEF Runners
  <2>4. queue = <<>> /\ done = {} /\ refused = {} /\ life # "gone"
    BY DEF Init
  <2> QED
    BY <2>3, <2>4 DEF Jobs!JobInit
<1>2. PoolInv /\ [Next]_poolVars => [Jobs!JobNext]_(Jobs!jobVars)
  BY JobsStep
<1> QED
  BY <1>1, <1>2, Pool, PTL DEF Spec, ImplementsJobQueue, Jobs!JobSpec

-----------------------------------------------------------------------------
(* The pool loses no wake-up.                                              *)


\* Nobody posts or takes before somebody has pushed or was woken: there are
\* always finitely many of them.
Awake == Cardinality(Posting) + Cardinality(Taking)
WakeInv == life # "gone" => /\ IsFiniteSet(Posting) /\ IsFiniteSet(Taking)
                            /\ Len(queue) <= sem + Awake

\* The quantities the invariant compares are numbers.
LEMMA WakeTypes ==
  ASSUME PoolInv, WakeInv, life # "gone"
  PROVE  /\ Len(queue) \in Nat /\ sem \in Nat
         /\ Cardinality(Posting) \in Nat /\ Cardinality(Taking) \in Nat
         /\ IsFiniteSet(Posting) /\ IsFiniteSet(Taking)
         /\ Len(queue) <= sem + Cardinality(Posting) + Cardinality(Taking)
BY FS_CardinalityType, LenProperties DEF PoolInv, TypeOK, WakeInv, Awake

\* A step that neither pushes nor pops, posts nor waits, and that moves nobody
\* to or from the threads that count.
LEMMA SameWake ==
  ASSUME PoolInv, WakeInv, Posting' = Posting, Taking' = Taking,
         UNCHANGED <<queue, sem>>, life' # "gone" => life # "gone"
  PROVE  WakeInv'
BY DEF WakeInv, Awake

\* Who posts and who takes is decided by pc.
LEMMA OneMoves ==
  ASSUME PoolInv, NEW t \in Thread, NEW l, Goto(t, l)
  PROVE  /\ pc'[t] = l /\ \A u \in Thread : u # t => pc'[u] = pc[u]
BY DEF PoolInv, TypeOK, Goto

\* A caller that moves leaves the workers alone.
LEMMA CallerMoves ==
  ASSUME PoolInv, NEW c \in Caller, NEW l, Goto(c, l)
  PROVE  /\ Taking' = Taking
         /\ Posting' = IF l \in {"unlock", "post"} THEN Posting \cup {c} ELSE Posting \ {c}
         /\ c \in Posting <=> pc[c] \in {"unlock", "post"}
<1>1. pc'[c] = l /\ \A u \in Thread : u # c => pc'[u] = pc[u]
  BY OneMoves, ThreadKinds
<1>2. Taking' = Taking
  BY <1>1, ThreadKinds DEF Taking
<1>3. Posting' = IF l \in {"unlock", "post"} THEN Posting \cup {c} ELSE Posting \ {c}
  BY <1>1, ThreadKinds DEF Posting
<1> QED
  BY <1>2, <1>3 DEF Posting

\* A worker that moves leaves the callers alone.
LEMMA WorkerMoves ==
  ASSUME PoolInv, NEW w \in Worker, NEW l, Goto(w, l)
  PROVE  /\ Posting' = Posting
         /\ Taking' = IF l \in {"take", "front", "pop"} THEN Taking \cup {w} ELSE Taking \ {w}
         /\ w \in Taking <=> pc[w] \in {"take", "front", "pop"}
<1>1. pc'[w] = l /\ \A u \in Thread : u # w => pc'[u] = pc[u]
  BY OneMoves, ThreadKinds
<1>2. Posting' = Posting
  BY <1>1, ThreadKinds DEF Posting
<1>3. Taking' = IF l \in {"take", "front", "pop"} THEN Taking \cup {w} ELSE Taking \ {w}
  BY <1>1, ThreadKinds DEF Taking
<1> QED
  BY <1>2, <1>3 DEF Taking

\* Create, and the ends of the pool.
LEMMA OwnerWake ==
  ASSUME PoolInv, WakeInv, Owner
  PROVE  WakeInv'
<1>1. CASE Create
  <2>1. LET w == Workers[started + 1] IN
        /\ w \in Worker /\ pc[w] = "unborn" /\ Goto(w, "test")
    BY <1>1, NextWorker DEF Create
  <2>2. Posting' = Posting /\ Taking' = Taking
    BY <2>1, WorkerMoves
  <2> QED
    BY <1>1, <2>2, SameWake DEF Create, shared
<1>2. CASE CreateFails \/ DetachFails \/ Destroy
  BY <1>2 DEF CreateFails, DetachFails, Destroy, WakeInv
<1> QED
  BY <1>1, <1>2 DEF Owner

\* Append: the caller that has pushed counts until it has posted.
LEMMA CallWake ==
  ASSUME PoolInv, WakeInv, NEW c \in Caller, Begin(c) \/ Call(c)
  PROVE  WakeInv'
<1>1. CASE Begin(c) \/ AppendLock(c) \/ Reject(c)
  <2>1. pc[c] \notin {"unlock", "post"}
    BY <1>1 DEF Begin, AppendLock, LockQueue, Reject
  <2>2. \E l \in {"idle", "lock", "check"} : Goto(c, l)
    BY <1>1 DEF Begin, AppendLock, LockQueue, Reject
  <2>3. Posting' = Posting /\ Taking' = Taking
    BY <2>1, <2>2, CallerMoves
  <2>4. UNCHANGED <<queue, sem, life>>
    BY <1>1 DEF Begin, AppendLock, LockQueue, Reject, shared
  <2> QED
    BY <2>3, <2>4, SameWake
<1>2. CASE AppendUnlock(c)
  <2>1. Posting' = Posting /\ Taking' = Taking
    BY <1>2, CallerMoves DEF AppendUnlock
  <2> QED
    BY <1>2, <2>1, SameWake DEF AppendUnlock
<1>3. CASE Push(c)
  <2>1. /\ Posting' = Posting \cup {c} /\ c \notin Posting /\ Taking' = Taking
        /\ UNCHANGED <<sem, life>>
    BY <1>3, CallerMoves DEF Push
  <2>2. Len(queue') = Len(queue) + 1
    BY <1>3, PushList
  <2>3. SUFFICES ASSUME life # "gone" PROVE WakeInv'
    BY <2>1 DEF WakeInv
  <2>4. IsFiniteSet(Posting') /\ Cardinality(Posting') = Cardinality(Posting) + 1
    BY <2>1, <2>3, WakeTypes, FS_AddElement
  <2> QED
    BY <2>1, <2>2, <2>3, <2>4, WakeTypes DEF WakeInv, Awake
<1>4. CASE Post(c)
  <2>1. /\ Posting' = Posting \ {c} /\ c \in Posting /\ Taking' = Taking
        /\ sem' = sem + 1 /\ UNCHANGED <<queue, life>>
    BY <1>4, CallerMoves DEF Post
  <2>2. SUFFICES ASSUME life # "gone" PROVE WakeInv'
    BY <2>1 DEF WakeInv
  <2>3. IsFiniteSet(Posting') /\ Cardinality(Posting') = Cardinality(Posting) - 1
    BY <2>1, <2>2, WakeTypes, FS_RemoveElement
  <2> QED
    BY <2>1, <2>2, <2>3, WakeTypes DEF WakeInv, Awake
<1> QED
  BY <1>1, <1>2, <1>3, <1>4 DEF Call

\* Run: the worker that was woken counts until it has popped, or has found the
\* list empty.
LEMMA RunWake ==
  ASSUME PoolInv, WakeInv, NEW w \in Worker, Run(w) \/ WaitInterrupted(w)
  PROVE  WakeInv'
<1>1. CASE Test(w) \/ Process(w)
  <2>1. pc[w] \notin {"take", "front", "pop"}
    BY <1>1 DEF Test, Process
  <2>2. \E l \in {"test", "wait", "ended"} : Goto(w, l)
    BY <1>1 DEF Test, Process
  <2>3. Posting' = Posting /\ Taking' = Taking
    BY <2>1, <2>2, WorkerMoves
  <2>4. UNCHANGED <<queue, sem, life>>
    BY <1>1 DEF Test, Process, shared
  <2> QED
    BY <2>3, <2>4, SameWake
<1>2. CASE RunLock(w) \/ Look(w)
  <2>1. pc[w] \in {"take", "front", "pop"}
    BY <1>2 DEF RunLock, LockQueue, Look
  <2>2. \E l \in {"front", "pop"} : Goto(w, l)
    BY <1>2 DEF RunLock, LockQueue, Look
  <2>3. Posting' = Posting /\ Taking' = Taking
    BY <2>1, <2>2, WorkerMoves
  <2>4. UNCHANGED <<queue, sem, life>>
    BY <1>2 DEF RunLock, LockQueue, Look, shared
  <2> QED
    BY <2>3, <2>4, SameWake
<1>3. CASE Wait(w) \/ WaitInterrupted(w)
  <2>1. /\ Taking' = Taking \cup {w} /\ w \notin Taking /\ Posting' = Posting
        /\ UNCHANGED <<queue, life>> /\ sem' + 1 >= sem /\ sem' \in Nat /\ life # "gone"
    <3>1. Goto(w, "take") /\ pc[w] = "wait"
      BY <1>3 DEF Wait, WaitInterrupted
    <3>2. sem \in Nat
      BY DEF PoolInv, TypeOK
    <3>3. /\ UNCHANGED <<queue, life>> /\ sem' + 1 >= sem /\ sem' \in Nat /\ life # "gone"
      BY <1>3, <3>2 DEF Wait, WaitInterrupted, shared
    <3> QED
      BY <3>1, <3>3, WorkerMoves
  <2>2. IsFiniteSet(Taking') /\ Cardinality(Taking') = Cardinality(Taking) + 1
    BY <2>1, WakeTypes, FS_AddElement
  <2> QED
    BY <2>1, <2>2, WakeTypes DEF WakeInv, Awake
<1>4. CASE Empty(w) \/ Pop(w)
  <2>1. /\ Taking' = Taking \ {w} /\ w \in Taking /\ Posting' = Posting
        /\ UNCHANGED <<sem, life>> /\ life # "gone"
    <3>1. pc[w] \in {"front", "pop"} /\ \E l \in {"test", "run"} : Goto(w, l)
      BY <1>4 DEF Empty, Pop
    <3> QED
      BY <1>4, <3>1, WorkerMoves DEF Empty, Pop
  <2>2. /\ IsFiniteSet(Taking') /\ Cardinality(Taking') = Cardinality(Taking) - 1
        /\ Cardinality(Taking') \in Nat
    BY <2>1, WakeTypes, FS_RemoveElement, FS_CardinalityType
  <2>3. \/ Len(queue') = 0
        \/ Len(queue') = Len(queue) - 1
    BY <1>4, PopList, EmptySeq DEF Empty
  <2> QED
    BY <2>1, <2>2, <2>3, WakeTypes DEF WakeInv, Awake
<1>5. CASE Dangle(w)
  BY <1>5 DEF Dangle, WakeInv
<1> QED
  BY <1>1, <1>2, <1>3, <1>4, <1>5 DEF Run

\* Every step keeps the balance of requests and wake-ups.
LEMMA WakeStep ==
  ASSUME PoolInv, WakeInv, [Next]_poolVars
  PROVE  WakeInv'
<1>1. CASE UNCHANGED poolVars
  BY <1>1 DEF poolVars, WakeInv, Awake, Posting, Taking
<1> QED
  BY <1>1, OwnerWake, CallWake, RunWake DEF Next

\* No request stays in the list with nobody to be woken for it: Append posts
\* once for each request it pushes, and Run pops at most one for each wait.
THEOREM NoneLost == Spec => []NoLostWakeup
<1>1. Init => WakeInv
  <2> SUFFICES ASSUME Init PROVE WakeInv
    OBVIOUS
  <2>1. Posting = {} /\ Taking = {}
    BY ThreadKinds DEF Init, Posting, Taking
  <2>2. Len(queue) = 0 /\ sem = 0
    BY EmptySeq DEF Init
  <2> QED
    BY <2>1, <2>2, FS_EmptySet DEF WakeInv, Awake
<1>2. PoolInv /\ WakeInv /\ [Next]_poolVars => WakeInv'
  BY WakeStep
<1>3. PoolInv /\ WakeInv => NoLostWakeup
  BY WakeTypes DEF NoLostWakeup
<1> QED
  BY <1>1, <1>2, <1>3, Pool, PTL DEF Spec
=============================================================================
