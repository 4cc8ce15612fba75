# A verification project for algorithm_training

The repository collects exercises in C and C++: a hash database that several
processes share, a thread-pool web server, a process-pool CGI server, a
red-black tree, descriptor passing, two HTTP clients, a sort library and short
solutions of textbook problems.  The modules of this directory model the parts
with state worth exploring.  TLC checks them on small instances; TLAPS proves
the theorems for every value of the constants.

## Inventory

| Component | State | Operations | What is hard |
|---|---|---|---|
| `database/db.c` | index file (free list, hash chains, records), data file, fcntl locks, one `DB` handle per process | open, fetch, store (insert, replace, store), delete, rewind, nextrec, close | processes interleave at every system call; locks on byte ranges; death between two writes; full disk; offsets beyond `PTR_MAX`; a scan beside writers |
| `thread_pool/` | request queue, semaphore, mutex, workers; one `HttpConn` per descriptor with its buffers and parser | `Append`, `Run`; `read`, `process`, `write`, `close_conn`; the epoll loop of `web_test.cpp` | main thread and workers share connections and the connection counter; one-shot epoll events; a full queue; descriptors that are reused |
| `process_pool/` | listening socket, one pipe per child, child table | parent loop, child loop, signal pipe | edge-triggered events, signals, children that die |
| `rbtree/` | the tree | insert, delete, search, min, max, successor | balance, order and the links to the parents at every turn of a fixup |
| `send_fd/` | Unix socket, messages with a descriptor | `send_fd`, `recv_fd`, request handling | protocol between client and server |
| `http/` | epoll context and a table of pending requests, or a select loop | commit, callback, uninit | a worker thread beside the caller |
| `sort/` | an array | `MPSort`, `QSort` | recursion, partition index |
| `leetcode/` | none, except two stacks and a print-in-order class | pure functions | bounds of searches, choices a scan cannot take back |

What makes each part correct:

* database: the chains and the free list are disjoint lists that hold every
  record once; a call acts as if at one instant; a scan returns stored data only;
  no call waits for ever.
* thread pool: every request that was accepted is processed once; the queue has
  a bound.
* web server: a connection is in the hands of one thread at a time and never in
  nobody's; a client gets answers to its own requests.
* process pool: every connection is accepted by a child and served; the children
  end with their parent, and the parent with its children.
* red-black tree: search order, no red node with a red child, equal black height.
* sorts, searches, scans: the result is what the definition says.

## Plan

The order of the work, and what is left:

1. `Db`, `DbSafety`, `DbLists`, `KVStore`, `DbKV` - the database and the map it
   implements; `DbProof`, `DbKVProof` - types, locks, data, lists, reachability and
   the refinement for any number of processes.
2. `JobQueue`, `ThreadPool`, `PoolSafety`, `PoolProof` - queue, semaphore, workers, and the
   bounded queue they implement.
3. `WebServer`, `WebSafety`, `WebProof` - the epoll loop, the connections and the parser, on
   top of the bounded queue that `ThreadPool` implements.
4. `ProcessPool`, `CgiSafety`, `CgiProof` - parent, children, pipes, signals.
5. `RBTree`, `RBSafety`, `RBProof` - every insert and delete, for any set of keys;
   `Textbook`, `TextSafety`, `TextProof`, `ScanProof` - the functions with a loop worth
   checking.
6. Left: `db_open` with `O_TRUNC` while others work and what a whole scan returns;
   descriptor passing.

## The database

`Db` has one action per system call that another process can notice.  The
index file is `ptr` (pointer fields), `rec` (the rest of a record) and `eof`; an
offset is the number of its cell, cell 0 being the head of the free list.  The
data file is `dat`, `dateof`.  The kernel's lock table is `rlock`, `wlock`:
region to holders, one region per chain, the free list, the index records
(`TAIL`) and the data file.  `h` is the `DB` handle with the locals of the call;
`pc` names the next system call.

* A lock request waits in `LockGranted`; a wait that closes a cycle gets `EDEADLK`
  (`LockDeadlock`) and `err_dump` ends the process, which drops its locks.
* `UnlockTail` changes nothing: `_db_writeidx` unlocks with `SEEK_END`, a region
  behind the end of the file, so the lock taken with `SEEK_SET` stays until the
  process closes the database.
* A read of a data record that does not have the length the index says, a pointer
  that does not fit (`PtrTooBig`), a full disk, data that are empty or too long and a scan
  from the middle of a record end the process, as `err_dump` and `err_quit` do.
* `KillAt` names the points where a process may be killed.  A restarted process is
  another member of `Proc` that makes its calls later.

Abstracted: key and value bytes (model values with a length), decimal formats,
the statistics counters, `idxbuf` and `datbuf` (a record's key and data are written
and read in one system call).  Keys fit into an index record.  `_db_dodelete` and
`_db_writeidx` call `sprintf` with overlapping source and destination; in the
build of `build.sh` (no `_FORTIFY_SOURCE`) the copy onto itself keeps the text.
The two reads of `_db_readidx` are one step: nobody changes the length of an
existing record.  So are `lseek` and `writev` of an append, which the lock on the data
file or the tail covers; an append to a full disk writes nothing, never a part of a
record.  `Init` is what `db_open` leaves, not its steps.

`KVStore` is the promise: a map on which fetch, store and delete act at one
instant.  `DbKV` adds the map as a history variable that changes at the write
that makes the call take effect, and maps `Db` to `KVStore` (`Linearizable`): a process in
the middle of a call is `pending` before that write, `done` after it, and `gone` when it
has died.
`db_nextrec` is not part of the map's promise; `ScanReturnsStored` says what it
returns.

### Runs

| Run | Question | Bounds |
|---|---|---|
| `db_two` | do the locks isolate stores, deletes and fetches, do chains, free list and the reuse of space stay sound, is a call that is refused harmless | 2 processes, 3 calls each, 3 keys on 2 chains, 2 data lengths, data that are empty or too long, `PTR_MAX` after 2 records |
| `db_kill` | what survives a killed process or a full disk, what does a scan beside a writer return, is `ListInv` kept, does every call end | 2 processes, 3 calls each, room for 2 data records, weak fairness |
| `db_leak` | is the tail lock given back (violated) | as `db_two` |

Two chains and keys that share one of them give a walk past a foreign record, an
unlink in the middle and at the head of a chain, and records that move from one
chain to another through the free list.  Two data lengths give all four ways to
store.  TLC's deadlock check is on in every run: processes that wait for each other
without the kernel noticing would be an error.

`db_kill` assumes weak fairness of each process inside a call (the kernel schedules
it) and of its program, which goes on to the next call and to `db_close`.  The
second part matters: without it a process that has appended and stays open keeps
the tail lock for ever.

`db_kill` leaves out the points between the wipe of the data and the link of the
chain in `_db_dodelete`.  A process that dies there leaves a key with blank data or a
chain that runs into the free list; the code has no recovery.

### Proofs

Two modules, the second on top of the first:

    DbProof        types, locks, who waits for whom          DbAssumption
                   who owns which data                       DbAssumption
    DbKVProof      which cell is in which list               NotKilledUnlinking
                   every record is behind its head           NotKilledUnlinking
                   what the map has is what the files have   NotKilledDeleting

`DbAssumption` only says what the constants are.  `NotKilledUnlinking`: no process is
killed between the push on the free list and the link of the chain.
`NotKilledDeleting`: nor between the wipe of the data and that push, that is, not
inside `_db_dodelete`.  These are the points where the code cannot survive a kill
(above), so the hypotheses cannot go; `db_kill` checks the same points.  Everywhere
else a process may be killed, and errors end it wherever the code checks for one.

`DbProof` proves `TypeOK`, one lemma per group of operations, and `LockInv`: a region
locked for writing has one holder (`WriterAlone`), and a process inside a chain or
the free list holds the lock (`HoldsChain`, `HoldsFree`).  Isolation alone is not
inductive, it says nothing of who holds the lock.  The step lemmas follow what a
system call does to locks: nothing (`StayInside`), unlock (`ReleaseInside`), drop all
(`LeaveInside`), grant (`GrantInside`).  `ChainIsolated` and `FreeIsolated` follow.
`DeadlockNeedsTail` needs the converse, `HeldInside`: whoever holds a lock other than the
tail lock is inside the section it protects.  So a process that waits for the free
list, the data file or the tail waits for one that goes on, and a circle must
pass through a chain that is asked for with the tail lock still held.

It also proves `DataInv`, whatever locks do and whoever dies: index records have
data of the length they tell and share none (`DataOwned`), a process that is about to
write over a record knows its length and offset (`Informed`), data that are appended
belong to the process until the index record is there (`AppendsApart`).  The property
of the runs alone is not inductive, because a length is read calls before it is
relied on.  `InPlaceWritesFit` follows.

`DbKVProof` first proves `ListInv` of `DbLists`.  Every cell has a home, the free list or a
chain (a ghost the module derives from the record), and pointers stay at home.
That alone is not inductive, because a process computes a pointer long before it
writes it: the `Know...` conjuncts say, per place of the program, what the locals
of a process still tell about the file (the place in the chain, the old head, the
record it took).  They hold because nobody else writes the cells of a list whose
lock the process holds, which is where `ChainIsolated` and `FreeIsolated` come in.
The step lemmas separate what the acting process knows (`Mine`) from what all
others know (`Frame`: the step leaves the cells they rely on; `Quiet`: it writes
nothing).

Next comes `NothingLeaks`.  `ListInv` says where pointers lead, not that every
record is led to.  A list has no fixed length to walk, so `List(c)` of `DbKV` is the least set with the head that is closed under `ptr`; being in it
means being in every such set, and a proof need only take one set and show it
closed.  `GraphInv`: every cell that belongs to a list is behind its head (`Leads`).
While a record is unlinked the chain runs through the free list for an instant;
`Nexts` therefore lets the field that will be linked lead where it will (`saveptr`).
The lemmas are the three ways a list changes: a cell is inserted at the head,
one is left out by the cell before it, or the head moves to the second.

Last it proves `Linearizable`, `DiskAgrees` and `ScanReturnsStored` from `MapInv`: a key has at
most one record in its chain (`Found`), it holds what the map has (`Agree`) unless a
process with the chain locked is changing the key (`Changing`), and every process knows
what its place in the call implies (`Story`): during the walk the record of the key is
still ahead, where `GraphInv` is needed; after the walk it has been met or there is
none; the map has what the call requires.  A dead process keeps what it had in its
hands (`Keeps`).  Each step is treated twice.  `Apart` says what it leaves alone: the other
keys, the other chains, the records in other hands; from it follows that what the
others know stays true (`OthersStory`).  The `Own...` lemmas, one per system call, say what
the process knows next.  The refinement is then one lemma per kind of step: the
write that makes a call take effect is a step of `KVStore`, all others stutter.

Only liveness (`EveryCallEnds`) is left to TLC: fairness and ENABLED are out of the
provers' reach.

## The thread pool

`ThreadPool` has one action per lock, access to the list under the lock, unlock and
call on the semaphore in `Append` and `Run`.  `queue` is `work_queue_`, `mutex` the thread
that holds `queue_locker_`, `sem` the count of `queue_stat_`, `stop` is `stop_`; `pc` is
the place of each thread and `req` the request in its hands.  A request is a
caller and a number; what `process()` does with it is external.  `life` follows the
object: the constructor creates and detaches workers one by one and may fail at
each (`CreateFails`, `DetachFails`), the destructor sets `stop_` and leaves the workers
alone.  A worker that touches the pool after that does anything (`Dangle`, with the
place `undefined`); one that sleeps in `sem_wait` stays asleep.  Callers are outside
`Append` when the owner deletes the pool, as in `web_test.cpp`, where both are the main
thread.

`JobQueue` is the promise: a bounded queue that accepts, runs each job once and in
order, and refuses only when it is full.  `PoolSafety` maps the pool onto it:
`waiting` is the list, `running` what the workers at `run` hold.

| Run | Question | Bounds |
|---|---|---|
| `pool` | is every accepted request run once, is no wake-up lost, is every request processed | 2 callers with 2 requests each, 2 workers, `max_request_` 1, 1 interrupted wait, fairness |
| `pool_bound` | is `max_request_` the largest length (violated) | 1 caller, 3 requests |

Four requests against a list of two fill the list with both workers idle, and two
workers race for every request.  The deadlock check is off: workers that wait
for requests that never come are the normal end.  An interrupted wait is the
only way to an empty list behind a wait, so one is allowed.

`FairSpec` is weak fairness of the constructor's loop, of each `Append` that has begun
and of each worker: the kernel runs every thread that can go on, and each caller
makes finitely many calls, so that a thread cannot be passed over at the mutex
for ever.  Nothing makes a caller append, a call fail or the owner delete the pool.

`PoolProof` proves `PoolInv` for any number of callers, workers, requests and any
`max_request_`.  `OnePlace` (a request is in the list once, or with one worker, or
processed, or refused) is not inductive: a push must bring a request nobody has
seen (`Fresh`: the callers number them), a pop must remove what `front` returned
(`HeadTaken`, which needs the lock, `ListLocked`), and nothing is queued before the
constructor returns or after the destructor (`LifeCycle`).  Steps that move no
request are treated at once (`Quiet`).  `Implements` then maps each step to a step
of `JobQueue` or a stutter.

Then `NoLostWakeup`: the requests in the list are at most the counts of
the semaphore, plus the callers between push and post and the workers between wait
and pop.  `WakeInv` adds that these two sets are finite, which is not assumed: they
start empty, and each step moves one thread into or out of one of them.  The proofs
rest on `PoolAssumption` only.  `Served` is model-checked only: it needs fairness.

## The web server

`WebServer` has one action per event that `main` of `web_test.cpp` handles (`Accept`,
`CloseHungUp`, `Read`, `Write` with its four ends) and one per turn of the loop of
`HttpConn::process_read` in a worker, and one per access to shared state in what
follows (`Rearm`, `Answer`, `WorkerClose`, `WorkerForget`, `WorkerDiscount`).  `user` holds
the `HttpConn` objects, `count` is `user_count_`, `queue` the pool's list, `armed` what epoll
waits for.  Epoll is modelled by what the code relies on: `EPOLLONESHOT` disarms a
descriptor that was reported, the edge-triggered listening socket reports once
however many connections have come.  Input is a sequence of tokens, a line or a
part of one, so that a request can come in any pieces and `parse_line` finds complete
lines, incomplete ones and bare CRs.  The pool appears as the bounded queue of
`JobQueue`, which `Implements` justifies: `Append` refuses above `max_request_ + 1`.

No lock protects an `HttpConn`.  `OneHand` says why that works: epoll, the events main
has not handled, the list and the workers hold an object one at a time.
`NotForgotten` is the other half: somebody holds every open connection, unless
`Append` has refused it, which `main` does not look at.  `RefusedLost` says what that costs: nobody ever holds a
refused connection again, and its descriptor is lost.  All three hold until
a worker closes a connection itself (a second answer that does not fit into
`WRITE_BUFFER_SZIE`): then `main` may accept the descriptor again while the worker
still writes `sockfd_` and rearms it.  `crossed` records that; the model goes on with
the outcomes, lost updates of `user_count_` included.

| Run | Question | Bounds |
|---|---|---|
| `web` | is a body complete before it is answered, are answers given to the client that asked, is all input read, are bad lines and whole requests with a body answered | 2 clients, 2 descriptors, 1 user at a time, 2 workers, requests in 1 or 2 pieces, fairness |
| `web_crowd` | is every object in one hand, no connection forgotten, a refused one lost for good | 4 clients, 3 descriptors, a list for 2 requests, symmetry of clients and descriptors |
| `web_get` | is a whole GET request answered (violated, for two reasons) | 2 clients, one without a body, one with a body in two pieces, fairness |
| `web_stale` | does a client get its own answers only (violated) | as `web` |

One user at a time makes the second client get the object the first one left, and
a buffer of seven tokens gets full.  `web_crowd` needs no data: with four clients on
three descriptors and two places in the list an `Append` is refused and an `accept`
fails.  The deadlock check is off, since a server whose clients are done waits.

`RequestAnswered` is about what the parser does answer: a bad request line, and a
request with a body that is all in the buffer before the parser has passed its
head (`Whole`).  What it does not answer is in `web_get`.  Its `GetAnswered` asks that, of two
clients that each wait for the answer to a whole request, one gets it; so the
counterexample has to show both causes at once: the empty line of a request
without a body leads nowhere, and a body in two pieces is counted from the wrong
place, since `parse_line` runs over the first piece (`ParseContent`, then `NoLine`).

Left out: a failing `epoll_wait`, which ends `main`; the line that arises when the
part of a line that one client has left in an object is continued by the next one
(`Kind` makes it a bad line); the characters of an answer that is too long for the
write buffer; values of `Content-Length` other than the length of the body.  `Rearm` is
`modfd` and the return from `process`, which touches nothing that is shared.

`FairSpec`: main and the workers are scheduled; a socket that has answered `EAGAIN`
takes the answer in the end (strong fairness of `Write`); a client sends the rest
of its request.  Nothing makes a client connect or hang up.

`WebProof` proves every safety property of the runs for any number of clients,
descriptors and workers, from `WebAssumption` only, which says what the constants are.
Four invariants:

* `Typed` adds to `TypeOK` that `checked`, `start` and the buffer of an object fit together
  (`Sound`) and that every event of the listening socket stands for a connection
  in the backlog (`Expected`), so that `accept` finds one.  `BodyComplete` is a property of
  its steps.
* `HandInv` holds until a worker closes a connection itself: no descriptor is in two
  hands (`InOneHand`), and a descriptor is in a hand exactly if it is open and its client
  was not refused (`Tended`).  `OneHand` and `NotForgotten` follow; neither is inductive
  alone, since main hands an object over only if it had it.
* `Once`: a client has one place in the backlog or one descriptor, and none that waits has
  been refused.  With `Tended` it gives `RefusedLost`: a refused connection is in no hand, every step on
  an object is made by a hand that holds it, and its client is not accepted elsewhere.
* `AnswerInv`: an object whose client got it in its initial state holds input and
  output of that client only (`Belongs`), and so does a worker that is about to answer
  from it.  It needs `HandInv`: no second worker writes into the object meanwhile.

What is answered at all, and what is not, is liveness and left to TLC.

## The process pool

`ProcessPool` has the parent (`Fork`, `Setup`, then turns of the loop: `Poll`, `Assign`,
`ReadSignals`, `Reap`, `ReapNobody`, `KillAll`, `Leave`) and the children (`KidSetup`,
`KidPoll`, `KidAccept`, `KidSignal`, `KidWait`, `KidFork`, `KidClose`, `KidLeave`).  `events` and
`kid[i].events` are what `epoll_wait` has returned and is not handled yet, `signals` the
signal pipe.  Every descriptor is edge-triggered: `edge`, `fresh` hold what epoll has not
reported.  One event of the listening socket is one message to one child, which
accepts one connection, so two connections that come together may leave one in
the backlog; `crowded` records that two have waited at once, and `LonelyAccepted` is about
the others.  `Reap` ends in `hung`: the loop of `process_pool.hpp:361` counts the wrong
variable and never ends.  A signal before its handler is installed has the default
effect.  Left out: failures of `socketpair`, `fork`, `epoll_wait`, `accept` and `recv`, which the
code answers with an assertion, the end of a loop or a message that is used up.

| Run | Question | Bounds |
|---|---|---|
| `cgi` | is a lonely connection accepted, a whole line served, does nobody outlive a parent that leaves, does SIGTERM end all | 2 children, 2 connections, 1 crash or stop of a child, 1 SIGTERM, fairness |
| `cgi_exit` | does the parent exit when all children have and it has a SIGCHLD to read (violated) | 2 children, 1 connection, 2 crashes, fairness |

`FairSpec` is weak fairness of the parent and of each child: the kernel schedules
them.  Crashes, signals, clients are free to happen or not.  With one connection in
two segments and one that may close early, every edge can come before and after
the registration of its descriptor.

`CgiProof` proves `NoOrphans` for any number of children and connections and any
number of faults and signals.  It needs to know that a parent in its loop has a pid
for every child (`Reap` takes one away, and hangs), so that `ReapNobody` takes `stop_`
back and `KillAll` reaches everybody; and that a child that has been told to end
stays told (`Told`) while its events are handled.  `TypeOK` is proved beside it: the
number of messages in a pipe stays a natural number because every event of the
pipe, reported or on its way, stands for a message (`Covered`).  The other three
properties are liveness and left to TLC.

## The red-black tree and the textbook functions

`RBTree` has one action per call of `insert_node` and `delete_node` up to the fixup, and
one per turn of the loop of a fixup; `tree` holds the links, colours, keys and values
of the nodes, 0 being the sentinel `nil` (whose parent a delete sets, and whose links
nobody follows).  The code writes rotations and fixups twice, mirrored; the model
takes a side.  `Balanced` relates order, links, colours and black height and says at
which one place they may be disturbed while a fixup is under way.  Inserting a
key that is there changes nothing, `malloc` has a node for every key; deleting one that is not there is undefined in
the code and not a step of the model.

`Textbook` has the functions of `sort/` and `leetcode/` with a loop worth checking, as
operators on sequences that start at 0; `While` runs a loop.  `TextSafety` says what they
compute without the loops: sorted permutations, first and last places, the least
window, the longest part, the best choice.  `rand()` is a function of
the length that is left, which shrinks from call to call of `qSortFunc`, so that each call
has a value of its own: TLC takes every choice of pivots (`Pivots`), the theorem every
function.  Medians are doubled to stay integers; `Halves` takes the greatest and the
least element of a half where `test4` tells four border cases apart.

`FindIndex` is checked for what it does, not for what its comment says: `Partitioned` has
the pivot at the place behind the returned index (see Findings).

| Run | Question | Bounds |
|---|---|---|
| `data` | does every sequence of inserts and deletes keep the tree one, does every fixup end; do the functions compute what they should | 5 keys; two arrays with 6 elements out of {0, 1, 2} together |

Five keys reach every case of both fixups: a delete with a red sibling needs a tree
of four.  Three values give repetitions, rotated arrays and all ways to fall;
windows and palindromes of up to six characters have both parities.  The tree and the
functions share nothing; one specification runs either.  Weak fairness of the
turns of a loop, for `FixupEnds`: the program goes on.  The deadlock check is off,
because the arrays stop growing.

### Proofs

`RBProof` proves `Balanced` and `KeysKept` for any finite set of keys (`KeyAssumption`), any
calls in any order and every turn of the fixups; its first half says what a loop, a
rotation, a painting and each step of a fixup do to any search tree.

`Balanced` is not inductive: it says what is below a node by a walk and compares ways
to the leaves, and a rotation changes both.  `RBInv` gives the nodes below every node
as a function `u` and its black height as a function `h`, both bound by an existential
since the tree determines them: no variable is added.  Its conjuncts are

* `Links`: nodes in use have children in use or `nil`, and parents that know them;
* `Forks`: a node's `u` is the node and the disjoint `u` of its children, so that the
  links cannot run in a circle;
* `Sorted`: keys in `u` of a side are on that side, values follow their keys;
* `Heights`: the two children of a node rise to the same `h`, with one black node owed
  at the place where the fixup of a delete is;
* `Reds`: no red node has a red parent, but where the fixup of an insert is.

Each turn then gives the next `u` and `h` (`TurnedForks`, `Raised`, ...) and proves the
conjuncts for them.  One lemma per kind of turn: the red uncle, the inner and the
outer grandchild, the red brother, the black brother with two black children, with
a red far one, with a red near one; one for the leaf that `insert_node` adds and one for
the node that `delete_node` cuts out, its successor's key moved before.

The loops that go down (`Search`, `Mini`, and `Below` of the property) are recursive
functions on the numbers up to the number of nodes, which for the provers are a
`CHOOSE`.  That such a function exists, is unique and has ended at the last number
(`LoopExists`, `LoopUnique`, `LoopEnds`) is shown by least counterexamples: of the
places where it fails one has the smallest set, because strict inclusion of finite
sets is well founded.  `u` is the measure: it shrinks at every turn.  So `Search` ends at
the key or at the place where it belongs, `Mini` at the least key below.

From `RBInv`, `Balanced` follows by counting: from a node to its child the black nodes
above grow by what the height shrinks (`CountedIs`), so their sum is the same at all
ends.  For `KeysKept`, `Keys` is the keys of the nodes in use (`KeysIs`), which no fixup
changes.

TLC alone checks `FixupEnds`, because fairness and ENABLED are out of the provers'
reach.

`TextProof` proves `GreedyIsBest`, `SortsSort` and `SearchesFind` for all sequences of
numbers (`ElementAssumption`: the elements are integers), and that `test69` is the root
of every number; `ScanProof` proves `ScansAgree` for those without the two marks below.
Each function is a loop that runs by `While`, whose `turn` is a recursive function and
so, for the provers, a `CHOOSE`.  The modules say for each one what a turn
does (`Step...`), where it starts (`Start...`) and which set of states the turns keep to
(`States...`, the loop invariant with its types).  `LoopRule` does the rest once: given a
number that shrinks at every turn that changes something, the sequence of states
exists, is unique, and stands still at the end.  Its induction looks at the least
counterexample of a finite set, as in `RBProof`.

The loop invariants that need thought:

* `test605`: some `res` new flowers fit before `i`, the place `i` is free, and no choice
  of flowers has more than `res` up to `i`;
* `test763`: the sums of `res` are exactly the cuts up to `j`;
* `test665`: after the first fall the array is repaired in the one way that leaves the
  most room behind; a second fall then means that no element could be replaced
  (`TwoFalls`), which is more than that this choice has failed;
* `MPSort`: the tail is in order and above the rest; `FindIndex`, `qSortFunc`: what is
  left of one index is less, what is right of another is not, and the place between
  is a hole, so that only the array with the pivot in the hole is a permutation;
* `test215`: everything outside `l..r` is on its side of everything inside, and the
  place asked for is inside, whatever the pivot;
* `test88`: the elements not yet merged are still in their places, and all of those are
  at most what has been written;
* `test81`: the element is somewhere in the array exactly if it is between `l` and `r`; a
  rotated array falls at one place (`TurnedAt`), and which half can be left out depends
  on the side of it the middle is on; `test154`: the least of the elements left out is in
  `res`, and every element is at least that or at least one that is ahead;
* `test167`: two places with the sum are never both passed, for any two that have it;
* `findMedianSortedArrays`, `findMedianSortedArraysEx2`, `test4`: a cut of both arrays with
  nothing greater before it and nothing less behind it.  An element next to such a
  cut has the rank of the cut in the sorted whole (`Ranked`, from `RanksAre`, which
  counts).  The merge moves the cut by one element (`TakeStep`), so there is one for
  every rank (`SplitExists`); what `getKth` drops leaves a cut of the rest for the same
  value, though it may be another cut when elements are equal (`KthDropsP`); and `test4`
  keeps a right cut between `l` and `r` (`Direction`) and ends at a cut that is right
  itself (`Crossing`, `CutRanks`).

That an array has the same elements as another is `SameBag`: each value occurs at as many
places (`Hits`), which an exchange does not change; two sorted arrays with the same
elements are equal (`SortedOnce`).  `test75` and `test88` are compared with `MPSort` this way.

For `ScansAgree`, `Parts`, `Count` and the palindromes are first told in places of the
string (`PartIs`, `PartsAre`, `CountIs`, `PalPart`), then every scan keeps to what it has
found out:

* `test680`: the ends that the scan has passed mirror each other, so a removal that helps
  is one at the places where it stops (`OneGoes`, `test680Is`).
* `checkSubString`: taking the first place that fits loses nothing (`OneMore`, `OneLess`).
* The two `lengthOfLongestSubstring`: the part in hand is the longest without a repetition
  that ends here, by its start, and the result is the longest up to here (`MoreDistinct`,
  `ReAdds`, `ReDrops`).
* `longestPalindromeEx`: `common[i][j]` is the length of the run that ends at both places
  (`CommonIs`), and a run whose places mirror each other is a palindrome (`PalRun`).
* `longestPalindromeEx2`: the radius of a centre is the mirrored centre's as far as the
  palindrome reaches that goes furthest to the right (`MirroredIs`, `RadPal`, `PalRad`).
  The theorem assumes that the string holds neither the mark in front nor the end mark:
  with one of them in the string the code may compare beyond the ends of `t`.
* `test76`: `need` is what `t` has more of a character than the window, and the ghost set `U`
  of `Gap` is the places of `t` that the window has none for, `cnt` of them are filled; so
  `cnt` is the length of `t` exactly when the window covers it (`CoverIs`).  The inner loop
  leaves a window that does not cover `t`, and no start before it can give a shorter one
  (`StatesShrink`, `ShrunkIs`), so the least window so far is the least that ends here
  or before (`Best`).

## Findings

* `db_leak`: `_db_writeidx` unlocks another region than it has locked, so that an
  append keeps the lock until the process closes the database.
* `pool_bound`: `Append` compares with `>`, the list holds `max_request_ + 1` requests.
* `web_get`: the empty line after the headers of a request without body leads
  nowhere, such a GET is never answered.
* `web_get` again: a request whose body comes in two pieces is never answered;
  `parse_line` moves `checked_index_` over the first piece, and `parse_content` then waits
  for as many bytes more.
* `web_stale`: an object keeps the parser state and the answer of the connection
  that had its descriptor before.
* `cgi_exit`: once the parent reaps a child it is in a loop that never ends.  Apart from
  that, it hears of no child that dies before the handler of SIGCHLD is installed.
* `data`: `FindIndex` returns the place before the pivot's, and not the pivot's as its
  comment says (`sort.c:21`, `39`).  `SortsSort` passes because it states the place as it
  is.  `QSort` recurses as if the comment were true: it leaves `[2, 1, 3]` as it is and
  does not end on two equal elements.

Seen on the way and not covered by a run: the destructor of the pool wakes nobody;
`test633` moves the wrong pointer (`double_pointer.cpp:111`); both `pop` of
`minstack.h` return nothing, and `MinStackEx` does not count a repeated minimum;
`findMedianSortedArraysEx1` never advances.

## Not modelled

* `libapue.a` (a binary; `Db` models what it does for `db.c`), `test.c` of the database.
* The steps of `db_open` with `O_TRUNC` beside other processes; whole scans.
* `stat`, `mmap` and the content of answers in `http_conn.cpp`; `writev` in parts.
* What the parent of the process pool would do after its endless loop; the output
  of the programs it runs.
* `rbtree_maxi`, the upward part of `rbtree_successor`, the traversals: nothing that
  changes the tree calls them.
* `send_fd/`: one message and one answer, no state in between.
* `http/`: the synchronous client is plain input and output; the asynchronous one
  has one request whose answer ends the program.
* `QSort`'s recursion, `minstack.h`: undefined or endless in the code.
* The functions of `leetcode/` on lists, trees and grids, those that only count, and
  the print-in-order class.
* The example programs.
