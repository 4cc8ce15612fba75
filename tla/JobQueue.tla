------------------------------ MODULE JobQueue ------------------------------
(***************************************************************************)
(* What a user of src/thread_pool/thread_pool.hpp relies on: a bounded     *)
(* queue of jobs.  A job that Append accepts is run by one thread, once,   *)
(* in the order of acceptance; Append refuses a job only when the queue is *)
(* full; jobs get lost only when the pool is destroyed.                    *)
(***************************************************************************)
EXTENDS Naturals, Sequences

CONSTANTS Job, Room   \* Room: how many jobs may wait

VARIABLES
  waiting,   \* accepted jobs, in order
  running,   \* jobs in the hands of a thread
  finished,  \* jobs that have been run
  refused,   \* jobs Append has turned down
  open       \* the pool exists

jobVars == <<waiting, running, finished, refused, open>>

Waiting == {waiting[i] : i \in DOMAIN waiting}

JobInit ==
  /\ waiting = <<>>
  /\ running = {} /\ finished = {} /\ refused = {}
  /\ open = TRUE

Accept(j) ==
  /\ open
  /\ j \notin Waiting \cup running \cup finished \cup refused
  /\ Len(waiting) < Room
  /\ waiting' = Append(waiting, j)
  /\ UNCHANGED <<running, finished, refused, open>>

Refuse(j) ==
  /\ open
  /\ j \notin Waiting \cup running \cup finished \cup refused
  /\ Len(waiting) = Room
  /\ refused' = refused \cup {j}
  /\ UNCHANGED <<waiting, running, finished, open>>

Take ==
  /\ open /\ waiting # <<>>
  /\ running' = running \cup {Head(waiting)}
  /\ waiting' = Tail(waiting)
  /\ UNCHANGED <<finished, refused, open>>

Finish(j) ==
  /\ j \in running
  /\ running' = running \ {j}
  /\ finished' = finished \cup {j}
  /\ UNCHANGED <<waiting, refused, open>>

Shut ==
  /\ open /\ open' = FALSE
  /\ waiting' = <<>>
  /\ UNCHANGED <<running, finished, refused>>

JobNext ==
  Take \/ Shut \/ \E j \in Job : Accept(j) \/ Refuse(j) \/ Finish(j)

JobSpec == JobInit /\ [][JobNext]_jobVars
=============================================================================
