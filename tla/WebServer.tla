----------------------------- MODULE WebServer -----------------------------
(***************************************************************************)
(* The web server of src/thread_pool: main in web_test.cpp waits for epoll *)
(* events, reads and writes, and appends connections with new data to the  *)
(* thread pool; a worker runs HttpConn::process on the object of the       *)
(* descriptor.  The pool is the bounded queue that ThreadPool implements.  *)
(*                                                                         *)
(* Data are tokens: a token is a line with its end, or text without one.   *)
(*   get     a request line the server takes     part, rest   its two halves*)
(*   junk    any other request line              head         a header     *)
(*   length  Content-Length: BodyLen             keep         keep-alive   *)
(*   blank   the empty line                      body         text         *)
(*   bare    a line with a CR or an LF alone                               *)
(* Not modelled: file_address_ and the content of the answers.             *)
(***************************************************************************)
EXTENDS Integers, Sequences, FiniteSets

CONSTANTS
  Client, Fd, Worker, None,
  Stream,       \* client |-> what it may send: sequences of segments of tokens
  BodyLen,      \* how many tokens the body of a request has
  MaxRequest,   \* max_request_ of the pool
  MaxFd,        \* MAX_FD, the number of users served
  ReadSize,     \* READ_BUFFER_SZIE, in tokens
  WriteSize     \* how many answers fit into WRITE_BUFFER_SZIE

Kinds == {"get", "part", "rest", "junk", "head", "length", "keep", "blank", "body", "bare"}

ASSUME WebAssumption ==
  /\ None \notin Client \cup Fd
  /\ Stream \in [Client -> SUBSET Seq(Seq(Kinds))] /\ None \notin Seq(Seq(Kinds))
  /\ BodyLen \in Nat \ {0} /\ MaxRequest \in Nat /\ MaxFd \in Nat
  /\ ReadSize \in Nat \ {0} /\ WriteSize \in Nat \ {0}

VARIABLES
  todo,      \* client |-> what it has not sent yet; None before it connects
  in,        \* client |-> sent and not received by the server
  hup,       \* clients that have hung up
  conn,      \* descriptor |-> its client, or None when it is free
  backlog,   \* connections that wait for accept
  edge,      \* the listening socket has something new for epoll
  armed,     \* descriptor |-> the event epoll waits for, or "off"
  batch,     \* the events main has got from epoll_wait and not handled
  user,      \* descriptor |-> its HttpConn
  count,     \* user_count_
  queue,     \* work_queue_ of the pool
  work,      \* worker |-> where it is, its descriptor, user_count_ as it read it
  got,       \* history: client |-> whose requests the answers it got were for
  dirty,     \* history: clients whose HttpConn was not in its initial state
  refused,   \* history: clients whose request Append refused
  crossed    \* history: a worker has closed a connection

kernel == <<todo, in, hup, conn, backlog, edge, armed>>
objects == <<user, count>>
ghosts == <<got, dirty, refused, crossed>>
vars == <<kernel, batch, objects, queue, work, ghosts>>

Fresh == [open |-> FALSE, state |-> "line", buf |-> <<>>, checked |-> 0, start |-> 0,
          len |-> 0, linger |-> FALSE, url |-> None, out |-> <<>>]

ResetKeepsInput(u) == [Fresh EXCEPT !.open = u.open, !.buf = u.buf]

\* init() after an answer: everything but the descriptor.
Reset(u) == [Fresh EXCEPT !.open = u.open]

Idle == [at |-> "idle", fd |-> None, tmp |-> 0]

Init ==
  /\ todo = [c \in Client |-> None] /\ in = [c \in Client |-> <<>>]
  /\ hup = {} /\ backlog = <<>> /\ edge = FALSE /\ batch = {}
  /\ conn = [f \in Fd |-> None] /\ armed = [f \in Fd |-> "off"]
  /\ user = [f \in Fd |-> Fresh] /\ count = 0
  /\ queue = <<>> /\ work = [w \in Worker |-> Idle]
  /\ got = [c \in Client |-> {}] /\ dirty = {} /\ refused = {} /\ crossed = FALSE

-----------------------------------------------------------------------------
(* The clients and the kernel.                                             *)

Accepted(c) == \E f \in Fd : conn[f] = c
Waits(c) == \E i \in DOMAIN backlog : backlog[i] = c

Connect(c) ==
  /\ todo[c] = None
  /\ \E s \in Stream[c] : todo' = [todo EXCEPT ![c] = s]
  /\ backlog' = Append(backlog, c) /\ edge' = TRUE
  /\ UNCHANGED <<in, hup, conn, armed, batch, objects, queue, work, ghosts>>

Send(c) ==
  /\ (Accepted(c) \/ Waits(c)) /\ c \notin hup /\ todo[c] # <<>>
  /\ LET seg == Head(todo[c])
     IN in' = [in EXCEPT ![c] = @ \o [i \in DOMAIN seg |-> [c |-> c, k |-> seg[i]]]]
  /\ todo' = [todo EXCEPT ![c] = Tail(@)]
  /\ UNCHANGED <<hup, conn, backlog, edge, armed, batch, objects, queue, work, ghosts>>

HangUp(c) ==
  /\ (Accepted(c) \/ Waits(c)) /\ c \notin hup
  /\ hup' = hup \cup {c}
  /\ UNCHANGED <<todo, in, conn, backlog, edge, armed, batch, objects, queue, work, ghosts>>

\* What epoll_wait reports for a descriptor: a disarmed one (EPOLLONESHOT)
\* nothing, not even that the client has hung up.
Event(f) ==
  IF armed[f] = "off" \/ conn[f] = None THEN "none"
  ELSE IF conn[f] \in hup THEN "hup"
  ELSE IF armed[f] = "in" /\ in[conn[f]] # <<>> THEN "in"
  ELSE IF armed[f] = "out" THEN "out"
  ELSE "none"

\* Calls on sockfd_ do something: it is neither -1 nor closed.
Alive(f) == user[f].open /\ conn[f] # None

Arm(f, ev) ==
  armed' = IF Alive(f) THEN [armed EXCEPT ![f] = ev] ELSE armed

-----------------------------------------------------------------------------
(* main: one turn of its loop handles the events of one epoll_wait.        *)

Ready == {f \in Fd : Event(f) # "none"}

\* EPOLLONESHOT: a descriptor that epoll has reported is disarmed.
DisarmNone(f) == armed[f]

Disarm(f) == IF f \in Ready THEN "off" ELSE armed[f]

Poll ==
  /\ batch = {} /\ (edge \/ Ready # {})
  /\ batch' = {[ev |-> Event(f), fd |-> f] : f \in Ready}
                 \cup (IF edge THEN {[ev |-> "accept", fd |-> None]} ELSE {})
  /\ armed' = [f \in Fd |-> Disarm(f)]
  /\ edge' = FALSE
  /\ UNCHANGED <<todo, in, hup, conn, backlog, objects, queue, work, ghosts>>

Handle(ev, f) == [ev |-> ev, fd |-> f] \in batch /\ batch' = batch \ {[ev |-> ev, fd |-> f]}

\* init(sockfd, addr): the parser and the buffers stay as they are.
InitUser(u) == [u EXCEPT !.open = TRUE]

Accept(f) ==
  LET c == Head(backlog) IN
  /\ Handle("accept", None) /\ conn[f] = None /\ count < MaxFd
  /\ backlog' = Tail(backlog)
  /\ conn' = [conn EXCEPT ![f] = c] /\ armed' = [armed EXCEPT ![f] = "in"]
  /\ user' = [user EXCEPT ![f] = InitUser(@)] /\ count' = count + 1
  /\ dirty' = IF user[f] = Reset(user[f]) THEN dirty ELSE dirty \cup {c}
  /\ UNCHANGED <<todo, in, hup, edge, queue, work, got, refused, crossed>>

\* accept fails without a free descriptor, and the connection goes on waiting.
AcceptFails ==
  /\ Handle("accept", None) /\ \A f \in Fd : conn[f] # None
  /\ UNCHANGED <<kernel, objects, queue, work, ghosts>>

AcceptBusy ==
  /\ Handle("accept", None) /\ (\E f \in Fd : conn[f] = None) /\ count >= MaxFd
  /\ backlog' = Tail(backlog)
  /\ UNCHANGED <<todo, in, hup, conn, edge, armed, objects, queue, work, ghosts>>

\* close_conn of main, for an object that is u by then.
CloseConn(f, u) ==
  IF u.open
  THEN /\ conn' = [conn EXCEPT ![f] = None] /\ armed' = [armed EXCEPT ![f] = "off"]
       /\ user' = [user EXCEPT ![f] = [u EXCEPT !.open = FALSE]] /\ count' = count - 1
  ELSE user' = [user EXCEPT ![f] = u] /\ UNCHANGED <<conn, armed, count>>

CloseHungUp(f) ==
  /\ Handle("hup", f) /\ CloseConn(f, user[f])
  /\ UNCHANGED <<todo, in, hup, backlog, edge, queue, work, ghosts>>

RoomForMore(u) == ReadSize - Len(u.buf) + 1

Room(u) == ReadSize - Len(u.buf)

\* Append to the pool, whose result nobody looks at.
AppendUser(f) ==
  IF Len(queue) > MaxRequest
  THEN refused' = refused \cup {conn[f]} /\ UNCHANGED queue
  ELSE queue' = Append(queue, f) /\ UNCHANGED refused

\* read(): TRUE when recv ends with EAGAIN.  A full buffer ends like a connection the client has
\* closed; what was received stays in the buffer.
Read(f) ==
  LET u == user[f]
      c == conn[f]
      n == IF ~ Alive(f) THEN 0 ELSE IF Len(in[c]) < Room(u) THEN Len(in[c]) ELSE Room(u)
      v == IF n = 0 THEN u ELSE [u EXCEPT !.buf = @ \o SubSeq(in[c], 1, n)]
  IN
  /\ Handle("in", f)
  /\ in' = [d \in Client |-> IF d = c THEN SubSeq(in[d], n + 1, Len(in[d])) ELSE in[d]]
  /\ IF Alive(f) /\ n < Room(u) /\ c \notin hup
     THEN /\ user' = [user EXCEPT ![f] = v] /\ AppendUser(f)
          /\ UNCHANGED <<conn, armed, count>>
     ELSE CloseConn(f, v) /\ UNCHANGED <<queue, refused>>
  /\ UNCHANGED <<todo, hup, backlog, edge, work, got, dirty, crossed>>

\* write() when the answer goes out, as far as the function looks: it stops when
\* no more is left than it has sent.  init() forgets what else was received.
Write(f) ==
  LET u == user[f]  v == Reset(u) IN
  /\ Handle("out", f) /\ Alive(f) /\ u.out # <<>>
  /\ got' = [got EXCEPT ![conn[f]] = @ \cup {u.out[i] : i \in DOMAIN u.out}]
  /\ IF u.linger
     THEN user' = [user EXCEPT ![f] = v] /\ Arm(f, "in") /\ UNCHANGED <<conn, count>>
     ELSE CloseConn(f, v)
  /\ UNCHANGED <<todo, in, hup, backlog, edge, queue, work, dirty, refused, crossed>>

\* write() with nothing to send.
WriteNothing(f) ==
  /\ Handle("out", f) /\ user[f].out = <<>>
  /\ user' = [user EXCEPT ![f] = Reset(@)] /\ Arm(f, "in")
  /\ UNCHANGED <<todo, in, hup, conn, backlog, edge, count, queue, work, ghosts>>

\* writev meets EAGAIN: the whole answer is sent again later.
WriteAgain(f) ==
  /\ Handle("out", f) /\ Alive(f) /\ user[f].out # <<>>
  /\ Arm(f, "out")
  /\ UNCHANGED <<todo, in, hup, conn, backlog, edge, objects, queue, work, ghosts>>

\* writev fails: the answer stays in the buffer of the object.
WriteFails(f) ==
  /\ Handle("out", f) /\ user[f].out # <<>> /\ (~ Alive(f) \/ conn[f] \in hup)
  /\ CloseConn(f, user[f])
  /\ UNCHANGED <<todo, in, hup, backlog, edge, queue, work, ghosts>>

-----------------------------------------------------------------------------
(* A worker: process_read, one turn of its loop per step.                  *)

Goto(w, at) == work' = [work EXCEPT ![w].at = at]
At(w, at) == work[w].at = at
Mine(w) == user[work[w].fd]
Own(u, w) == user' = [user EXCEPT ![work[w].fd] = u]

Take(w) ==
  /\ At(w, "idle") /\ queue # <<>>
  /\ work' = [work EXCEPT ![w] = [at |-> "turn", fd |-> Head(queue), tmp |-> 0]]
  /\ queue' = Tail(queue)
  /\ UNCHANGED <<kernel, batch, objects, ghosts>>

\* parse_line: the end of the first line behind checked_index_, and LINE_BAD at
\* a bare CR or LF, where every later call gets stuck again.
Ends(u) == {i \in u.checked + 1..Len(u.buf) : u.buf[i].k \notin {"part", "body"}}
LineEnd(u) == CHOOSE i \in Ends(u) : \A j \in Ends(u) : i <= j
LineOk(u) == Ends(u) # {} /\ u.buf[LineEnd(u)].k # "bare"

Kind(line) ==
  CASE Len(line) = 1 -> line[1].k
    [] Len(line) = 2 /\ line[1].k = "part" /\ line[2].k = "rest" /\ line[1].c = line[2].c -> "get"
    [] OTHER -> "junk"

\* The object after get_line, and the line.
Line(u) == SubSeq(u.buf, u.start + 1, LineEnd(u))
AfterLine(u) == [u EXCEPT !.checked = LineEnd(u), !.start = LineEnd(u)]

\* parse_line is called unless the body comes next and line_status is LINE_OK.
WantsLine(w) == At(w, "more") \/ (At(w, "turn") /\ Mine(w).state # "content")

NoLine(w) ==
  LET u == Mine(w) IN
  /\ WantsLine(w) /\ ~ LineOk(u)
  /\ Own([u EXCEPT !.checked = IF Ends(u) = {} THEN Len(u.buf) ELSE LineEnd(u) - 1], w)
  /\ Goto(w, "wait")
  /\ UNCHANGED <<kernel, batch, count, queue, ghosts>>

\* parse_request_line: url_ is the client's even when the line is bad.
ParseRequestLine(w) ==
  LET u == Mine(w)  l == Line(u) IN
  /\ WantsLine(w) /\ LineOk(u) /\ u.state = "line"
  /\ Own([AfterLine(u) EXCEPT !.url = l[1].c, !.state = IF Kind(l) = "get" THEN "head" ELSE @], w)
  /\ Goto(w, IF Kind(l) = "get" THEN "turn" ELSE "bad")
  /\ UNCHANGED <<kernel, batch, count, queue, ghosts>>

\* parse_headers: the empty line leads to the body if one was announced, and
\* nowhere otherwise.
ParseHeaders(w) ==
  LET u == Mine(w)  k == Kind(Line(u)) IN
  /\ WantsLine(w) /\ LineOk(u) /\ u.state = "head"
  /\ Own([AfterLine(u) EXCEPT !.state = IF k = "blank" /\ u.len # 0 THEN "content" ELSE @,
                          !.linger = @ \/ k = "keep",
                          !.len = IF k = "length" THEN BodyLen ELSE @], w)
  /\ Goto(w, "turn")
  /\ UNCHANGED <<kernel, batch, count, queue, ghosts>>

\* parse_content: is the whole body behind checked_index_ in the buffer?
CompleteEarly(u) == Len(u.buf) + 1 >= u.len + u.checked

CompleteLate(u) == Len(u.buf) > u.len + u.checked

Complete(u) == Len(u.buf) >= u.len + u.checked

ParseContent(w) ==
  LET u == Mine(w) IN
  /\ At(w, "turn") /\ u.state = "content"
  /\ Own([u EXCEPT !.start = u.checked], w)
  /\ Goto(w, IF Complete(u) THEN "request" ELSE "more")
  /\ UNCHANGED <<kernel, batch, count, queue, ghosts>>

\* parse_line found a line in a body that was not complete.
ParseContentLine(w) ==
  LET u == AfterLine(Mine(w)) IN
  /\ At(w, "more") /\ LineOk(Mine(w)) /\ Mine(w).state = "content"
  /\ Own(u, w)
  /\ Goto(w, IF Complete(u) THEN "request" ELSE "more")
  /\ UNCHANGED <<kernel, batch, count, queue, ghosts>>

-----------------------------------------------------------------------------
(* The rest of process: wait for more, or the answer and EPOLLOUT.         *)

AfterProcessForgets(w) == "off"

AfterProcess(w) == IF At(w, "wait") THEN "in" ELSE "out"

Rearm(w) ==
  /\ At(w, "wait") \/ At(w, "out")
  /\ Arm(work[w].fd, AfterProcess(w))
  /\ work' = [work EXCEPT ![w] = Idle]
  /\ UNCHANGED <<todo, in, hup, conn, backlog, edge, batch, objects, queue, ghosts>>

\* do_request: a file, or a text that says why there is none.
Outcomes(w) == IF At(w, "bad") THEN {"text"} ELSE {"text", "file"}

\* add_response: is there room for a text in write_buf_?  The header of a file
\* is left out if there is none.
Fits(u, outcome) == outcome = "file" \/ Len(u.out) < WriteSize

Answer(w) ==
  LET u == Mine(w) IN
  /\ At(w, "bad") \/ At(w, "request")
  /\ \E outcome \in Outcomes(w) :
       IF Fits(u, outcome)
       THEN /\ Own([u EXCEPT !.out = Append(@, u.url)], w) /\ Goto(w, "out")
            /\ UNCHANGED crossed
       ELSE Goto(w, "close") /\ crossed' = TRUE /\ UNCHANGED user
  /\ UNCHANGED <<kernel, batch, count, queue, got, dirty, refused>>

\* close_conn of a worker: removefd, sockfd_ = -1, user_count_--.
WorkerClose(w) ==
  LET f == work[w].fd IN
  /\ At(w, "close")
  /\ IF user[f].open
     THEN /\ conn' = [conn EXCEPT ![f] = None] /\ armed' = [armed EXCEPT ![f] = "off"]
          /\ Goto(w, "forget")
     ELSE Goto(w, "out") /\ UNCHANGED <<conn, armed>>
  /\ UNCHANGED <<todo, in, hup, backlog, edge, batch, objects, queue, ghosts>>

WorkerForget(w) ==
  /\ At(w, "forget")
  /\ Own([Mine(w) EXCEPT !.open = FALSE], w)
  /\ work' = [work EXCEPT ![w].at = "discount", ![w].tmp = count]
  /\ UNCHANGED <<kernel, batch, count, queue, ghosts>>

\* user_count_-- beside main's ++ and --: either update may be lost.
WorkerDiscount(w) ==
  /\ At(w, "discount")
  /\ count' \in {work[w].tmp - 1}
                   \cup (IF count = work[w].tmp THEN {} ELSE {count, count - 1})
  /\ Goto(w, "out")
  /\ UNCHANGED <<kernel, batch, user, queue, ghosts>>

-----------------------------------------------------------------------------
Main ==
  \/ Poll \/ AcceptFails \/ AcceptBusy
  \/ \E f \in Fd : \/ Accept(f) \/ CloseHungUp(f) \/ Read(f) \/ Write(f)
                   \/ WriteNothing(f) \/ WriteAgain(f) \/ WriteFails(f)

Process(w) ==
  \/ Take(w) \/ NoLine(w) \/ ParseRequestLine(w) \/ ParseHeaders(w) \/ ParseContent(w)
  \/ ParseContentLine(w) \/ Rearm(w) \/ Answer(w) \/ WorkerClose(w) \/ WorkerForget(w)
  \/ WorkerDiscount(w)

World == \E c \in Client : Connect(c) \/ Send(c) \/ HangUp(c)

Next == Main \/ World \/ \E w \in Worker : Process(w)

Spec == Init /\ [][Next]_vars

(***************************************************************************)
(* Fairness: main and the workers are scheduled; a socket that has told    *)
(* EAGAIN takes the answer in the end; a client sends what it has to send. *)
(***************************************************************************)
Fairness ==
  /\ WF_vars(Main)
  /\ \A w \in Worker : WF_vars(Process(w))
  /\ \A f \in Fd : SF_vars(Write(f))
  /\ \A c \in Client : WF_vars(Send(c))

FairSpec == Spec /\ Fairness
=============================================================================
