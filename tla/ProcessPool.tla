---------------------------- MODULE ProcessPool ----------------------------
(***************************************************************************)
(* The process pool of src/process_pool: the parent forks the children and *)
(* tells them through pipes that there are connections, the children       *)
(* accept them and serve them with CGIConn (test_cgi.cpp).  Signals come   *)
(* through a pipe into the same epoll loop.                                *)
(*                                                                         *)
(* All descriptors are edge-triggered: epoll reports the same event once,  *)
(* however much has arrived.  SIGINT is handled like SIGTERM.              *)
(***************************************************************************)
EXTENDS Integers, Sequences, FiniteSets

CONSTANTS
  N,          \* process_num_
  Conn,       \* the connections of the clients
  Segments,   \* connection |-> how many segments its request line comes in
  Impatient,  \* bound: the connections whose client may close at any time
  MaxFault,   \* bound: how often a child ends by itself or is stopped, which is a
              \* SIGCHLD as well
  MaxTerm     \* bound: how many SIGTERM the parent gets

ASSUME PoolSizes ==
  /\ N \in Nat \ {0} /\ Segments \in [Conn -> Nat \ {0}] /\ Impatient \subseteq Conn
  /\ MaxFault \in Nat /\ MaxTerm \in Nat
  /\ Conn \cap {"pipe", "signal"} = {}   \* other descriptors than those two

Child == 0..N - 1

VARIABLES
  at,        \* the parent: "fork", "setup", "loop", "hung", "gone",
             \* or "killed", by a SIGTERM before it has installed the handler
  stop,      \* stop_ of the parent
  next,      \* subProcessCounter
  pid,       \* child |-> sub_processs_[i].pid_ is not -1
  events,    \* what epoll_wait of the parent has returned and is not handled
  signals,   \* the signal pipe of the parent
  msgs,      \* the signals it has received from the pipe and not handled
  edge,      \* the listening socket has something new for the parent's epoll
  kid,       \* child |-> its state
  sock,      \* connection |-> its state
  crowded,   \* history: two connections have waited at once
  faults     \* how many crashes, SIGTERM and pauses there were

parent == <<at, stop, next, pid, events, signals, msgs>>
poolVars == <<parent, edge, kid, sock, crowded, faults>>

Unborn == [at |-> "unborn", stop |-> FALSE, events |-> {}, terms |-> 0,
           notes |-> 0, fresh |-> FALSE]

NoSock == [at |-> "new", by |-> 0, in |-> 0, fresh |-> FALSE, eof |-> FALSE]

Init ==
  /\ at = "fork" /\ stop = FALSE /\ next = 0 /\ pid = [i \in Child |-> FALSE]
  /\ events = {} /\ signals = <<>> /\ msgs = <<>> /\ edge = FALSE
  /\ kid = [i \in Child |-> Unborn]
  /\ sock = [c \in Conn |-> NoSock]
  /\ crowded = FALSE
  /\ faults = [crash |-> 0, term |-> 0, pause |-> 0]

-----------------------------------------------------------------------------
(* Clients.                                                                *)

Waiting == \E c \in Conn : sock[c].at = "backlog"

Connect(c) ==
  /\ sock[c].at = "new"
  /\ sock' = [sock EXCEPT ![c].at = "backlog"]
  /\ edge' = (at = "loop") /\ crowded' = (crowded \/ Waiting)
  /\ UNCHANGED <<parent, kid, faults>>

Send(c) ==
  /\ sock[c].at \in {"backlog", "open"} /\ sock[c].in < Segments[c] /\ ~ sock[c].eof
  /\ sock' = [sock EXCEPT ![c].in = @ + 1, ![c].fresh = TRUE]
  /\ UNCHANGED <<parent, edge, kid, crowded, faults>>

HangUp(c) ==
  /\ c \in Impatient /\ sock[c].at \in {"backlog", "open"} /\ ~ sock[c].eof
  /\ sock' = [sock EXCEPT ![c].eof = TRUE, ![c].fresh = TRUE]
  /\ UNCHANGED <<parent, edge, kid, crowded, faults>>

-----------------------------------------------------------------------------
(* Processes end.                                                          *)

\* Sighandler of the parent, if it is installed; SIGCHLD is ignored otherwise, and a
\* parent that is hung reads nothing any more.
Signalled(sig) == IF at = "loop" THEN Append(signals, sig) ELSE signals

\* A child ends, and the kernel closes its connections.
End(i) ==
  /\ kid' = [kid EXCEPT ![i] = [Unborn EXCEPT !.at = "zombie"]]
  /\ sock' = [c \in Conn |-> IF sock[c].at = "open" /\ sock[c].by = i
                             THEN [NoSock EXCEPT !.at = "closed"] ELSE sock[c]]
  /\ signals' = Signalled("CHLD")

Crash(i) ==
  /\ kid[i].at \in {"setup", "run"} /\ faults.crash + faults.pause < MaxFault
  /\ faults' = [faults EXCEPT !.crash = @ + 1]
  /\ End(i)
  /\ UNCHANGED <<at, stop, next, pid, events, msgs, edge, crowded>>

\* SA_NOCLDSTOP is not set: a child that is stopped is a SIGCHLD without a zombie.
Pause(i) ==
  /\ kid[i].at \in {"setup", "run"} /\ faults.crash + faults.pause < MaxFault
  /\ faults' = [faults EXCEPT !.pause = @ + 1]
  /\ signals' = Signalled("CHLD")
  /\ UNCHANGED <<at, stop, next, pid, events, msgs, edge, kid, sock, crowded>>

\* SIGTERM ends a parent that has not installed its handler.
Term ==
  /\ at \in {"fork", "setup", "loop"} /\ faults.term < MaxTerm
  /\ faults' = [faults EXCEPT !.term = @ + 1]
  /\ at' = IF at \in {"fork", "setup"} THEN "killed" ELSE at
  /\ signals' = Signalled("TERM")
  /\ UNCHANGED <<stop, next, pid, events, msgs, edge, kid, sock, crowded>>

-----------------------------------------------------------------------------
(* The parent.                                                             *)

Fork ==
  LET i == CHOOSE i \in Child : kid[i].at = "unborn" /\ \A j \in 0..i - 1 : kid[j].at # "unborn"
  IN
  /\ at = "fork"
  /\ kid' = [kid EXCEPT ![i].at = "setup"] /\ pid' = [pid EXCEPT ![i] = TRUE]
  /\ at' = IF i = N - 1 THEN "setup" ELSE "fork"
  /\ UNCHANGED <<stop, next, events, signals, msgs, edge, sock, crowded, faults>>

\* epoll_ctl(EPOLL_CTL_ADD) reports what is there already.
RegisteredLate(ready) == FALSE

Registered(ready) == ready

Setup ==
  /\ at = "setup" /\ at' = "loop"
  /\ edge' = Registered(Waiting)
  /\ UNCHANGED <<stop, next, pid, events, signals, msgs, kid, sock, crowded, faults>>

\* The turn of the loop is over: stop_ is looked at, and epoll_wait is called.
Turn == at = "loop" /\ events = {} /\ msgs = <<>>

Poll ==
  /\ Turn /\ ~ stop /\ (edge \/ signals # <<>>)
  /\ events' = (IF edge THEN {"listen"} ELSE {})
                  \cup (IF signals # <<>> THEN {"signal"} ELSE {})
  /\ edge' = FALSE
  /\ UNCHANGED <<at, stop, next, pid, signals, msgs, kid, sock, crowded, faults>>

Leave ==
  /\ Turn /\ stop /\ at' = "gone"
  /\ UNCHANGED <<stop, next, pid, events, signals, msgs, edge, kid, sock, crowded, faults>>

\* Round robin: the first child from subProcessCounter on that has a pid.
Chosen == {i \in Child : /\ pid[i]
                         /\ \A k \in 0..N - 1 : pid[(next + k) % N] => (i - next) % N <= k}

AfterChosenOn(i) == i + 1

AfterChosen(i) == (i + 1) % N

\* One message for all the connections one event stands for.  Only a parent that
\* is hung knows of a child that is gone, so that there is always one to choose.
Assign(i) ==
  /\ "listen" \in events /\ msgs = <<>> /\ i \in Chosen
  /\ events' = events \ {"listen"} /\ next' = AfterChosen(i)
  /\ kid' = IF kid[i].at \in {"setup", "run"}
            THEN [kid EXCEPT ![i].notes = @ + 1, ![i].fresh = TRUE] ELSE kid
  /\ UNCHANGED <<at, stop, pid, signals, msgs, edge, sock, crowded, faults>>

ReadSignals ==
  /\ "signal" \in events /\ msgs = <<>>
  /\ msgs' = signals /\ signals' = <<>> /\ events' = events \ {"signal"}
  /\ UNCHANGED <<at, stop, next, pid, edge, kid, sock, crowded, faults>>

Msg(sig, rest) == at = "loop" /\ msgs # <<>> /\ Head(msgs) = sig /\ msgs' = rest

\* SIGCHLD with a child to wait for: the loop over j counts i, so that the
\* parent looks at child 0 for ever.
Reap(i) ==
  /\ Msg("CHLD", <<>>) /\ kid[i].at = "zombie"
  /\ kid' = [kid EXCEPT ![i].at = "reaped"]
  /\ pid' = IF i = 0 THEN [pid EXCEPT ![0] = FALSE] ELSE pid
  /\ at' = "hung" /\ events' = {} /\ signals' = <<>> /\ edge' = FALSE
  /\ UNCHANGED <<stop, next, sock, crowded, faults>>

\* SIGCHLD without one: stop_ says whether all children are gone, and forgets
\* the SIGTERM before.
ReapNobody ==
  /\ Msg("CHLD", Tail(msgs)) /\ \A i \in Child : kid[i].at # "zombie"
  /\ stop' = (\A i \in Child : ~ pid[i])
  /\ UNCHANGED <<at, next, pid, events, signals, edge, kid, sock, crowded, faults>>

\* SIGTERM ends a child that has not installed its handler.
KilledSome(i) == IF i = 0 THEN kid[i] ELSE [kid[i] EXCEPT !.terms = @ + 1]

Killed(i) ==
  CASE pid[i] /\ kid[i].at = "setup" -> [Unborn EXCEPT !.at = "zombie"]
    [] pid[i] /\ kid[i].at = "run" -> [kid[i] EXCEPT !.terms = @ + 1]
    [] OTHER -> kid[i]

KillAll ==
  /\ Msg("TERM", Tail(msgs))
  /\ kid' = [i \in Child |-> Killed(i)]
  /\ signals' = IF \E i \in Child : Killed(i).at # kid[i].at THEN Signalled("CHLD") ELSE signals
  /\ stop' = TRUE
  /\ UNCHANGED <<at, next, pid, events, edge, sock, crowded, faults>>

Parent == Fork \/ Setup \/ Poll \/ Leave \/ ReadSignals \/ ReapNobody \/ KillAll
            \/ \E i \in Child : Assign(i) \/ Reap(i)

-----------------------------------------------------------------------------
(* A child.                                                                *)

KidSetup(i) ==
  /\ kid[i].at = "setup"
  /\ kid' = [kid EXCEPT ![i].at = "run", ![i].fresh = Registered(kid[i].notes > 0)]
  /\ UNCHANGED <<parent, edge, sock, crowded, faults>>

Mine(i) == {c \in Conn : sock[c].at = "open" /\ sock[c].by = i}
Pending(i) == (IF kid[i].fresh THEN {"pipe"} ELSE {})
                \cup (IF kid[i].terms > 0 THEN {"signal"} ELSE {})
                \cup {c \in Mine(i) : sock[c].fresh}

KidPoll(i) ==
  /\ kid[i].at = "run" /\ kid[i].events = {} /\ ~ kid[i].stop /\ Pending(i) # {}
  /\ kid' = [kid EXCEPT ![i].events = Pending(i), ![i].fresh = FALSE]
  /\ sock' = [c \in Conn |-> IF c \in Mine(i) THEN [sock[c] EXCEPT !.fresh = FALSE] ELSE sock[c]]
  /\ UNCHANGED <<parent, edge, crowded, faults>>

KidLeave(i) ==
  /\ kid[i].at = "run" /\ kid[i].events = {} /\ kid[i].stop
  /\ End(i)
  /\ UNCHANGED <<at, stop, next, pid, events, msgs, edge, crowded, faults>>

Handle(i, e) == kid[i].at = "run" /\ e \in kid[i].events
Rest(i, e) == kid[i].events \ {e}

\* The message of the parent: accept a connection, whichever is first.  There are
\* never more messages than connections that wait, so that accept finds one.
KidAccept(i, c) ==
  /\ Handle(i, "pipe") /\ sock[c].at = "backlog"
  /\ kid' = [kid EXCEPT ![i].events = Rest(i, "pipe"), ![i].notes = @ - 1]
  /\ sock' = [sock EXCEPT ![c].at = "open", ![c].by = i,
                          ![c].fresh = Registered(sock[c].in > 0 \/ sock[c].eof)]
  /\ UNCHANGED <<parent, edge, crowded, faults>>

\* SIGCHLD of the programs the child has started changes nothing here.
Stops0(i) == kid[i].stop

Stops(i) == TRUE

KidSignal(i) ==
  /\ Handle(i, "signal")
  /\ kid' = [kid EXCEPT ![i].events = Rest(i, "signal"), ![i].terms = 0, ![i].stop = Stops(i)]
  /\ UNCHANGED <<parent, edge, sock, crowded, faults>>

\* CGIConn::process up to EAGAIN.
KidServe(i, c, to) ==
  /\ Handle(i, c)
  /\ kid' = [kid EXCEPT ![i].events = Rest(i, c)]
  /\ sock' = [sock EXCEPT ![c] = IF to = "open" THEN @ ELSE [NoSock EXCEPT !.at = to]]
  /\ UNCHANGED <<parent, edge, crowded, faults>>

Complete(c) == sock[c].in = Segments[c]

KidWait(i, c) == ~ Complete(c) /\ ~ sock[c].eof /\ KidServe(i, c, "open")

\* The line is complete and names a program: fork, and the child of the child
\* runs it while this one closes the connection.
KidFork(i, c) == Complete(c) /\ KidServe(i, c, "cgi")

\* No such program, no fork, a client that has closed, a line that does not fit,
\* an error of recv.
KidClose(i, c) == KidServe(i, c, "closed")

Kid(i) ==
  \/ KidSetup(i) \/ KidPoll(i) \/ KidLeave(i) \/ KidSignal(i)
  \/ \E c \in Conn : KidAccept(i, c) \/ KidWait(i, c) \/ KidFork(i, c) \/ KidClose(i, c)

World == Term \/ (\E i \in Child : Crash(i) \/ Pause(i))
           \/ \E c \in Conn : Connect(c) \/ Send(c) \/ HangUp(c)

Next == Parent \/ World \/ \E i \in Child : Kid(i)

Spec == Init /\ [][Next]_poolVars

(***************************************************************************)
(* Fairness: the kernel schedules the parent and the children.             *)
(***************************************************************************)
Fairness == WF_poolVars(Parent) /\ \A i \in Child : WF_poolVars(Kid(i))

FairSpec == Spec /\ Fairness
=============================================================================
