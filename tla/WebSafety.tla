----------------------------- MODULE WebSafety -----------------------------
(***************************************************************************)
(* What the web server must keep while main and the workers share the      *)
(* HttpConn objects: every connection in one hand, answers to the one who  *)
(* asked, and nothing forgotten.                                           *)
(***************************************************************************)
EXTENDS WebServer

Token == [c : Client, k : Kinds]

HttpConn ==
  [open : BOOLEAN, state : {"line", "head", "content"}, buf : Seq(Token), checked : Nat,
   start : Nat, len : {0, BodyLen}, linger : BOOLEAN, url : Client \cup {None},
   out : Seq(Client \cup {None})]

Places == {"idle", "turn", "more", "wait", "bad", "request", "out", "close", "forget", "discount"}

\* Type invariant: the clients, what main holds of epoll, the objects of
\* http_conn.h with their three indices in order inside the buffer, and the
\* workers, none of whom stands inside process without a descriptor.
TypeOK ==
  /\ todo \in [Client -> {None} \cup Seq(Seq(Kinds))] /\ in \in [Client -> Seq(Token)]
  /\ \A c \in Client : Accepted(c) \/ Waits(c) => todo[c] # None
  /\ hup \subseteq Client /\ dirty \subseteq Client /\ refused \subseteq Client
  /\ backlog \in Seq(Client) /\ edge \in BOOLEAN /\ crossed \in BOOLEAN
  /\ conn \in [Fd -> Client \cup {None}] /\ armed \in [Fd -> {"in", "out", "off"}]
  /\ batch \subseteq [ev : {"accept", "hup", "in", "out"}, fd : Fd \cup {None}]
  /\ user \in [Fd -> HttpConn]
  /\ \A f \in Fd : /\ Len(user[f].buf) <= ReadSize
                   /\ user[f].start <= user[f].checked /\ user[f].checked <= Len(user[f].buf)
  /\ count \in Int /\ queue \in Seq(Fd)
  /\ work \in [Worker -> [at : Places, fd : Fd \cup {None}, tmp : Int]]
  /\ \A w \in Worker : work[w].at # "idle" => work[w].fd \in Fd
  /\ got \in [Client -> SUBSET (Client \cup {None})]

(* Who may touch the object of descriptor f: main when epoll may report    *)
(* it, a worker, or the pool's list on the way from one to the other.      *)
Hands(f) ==
  {<<"epoll", f>> : x \in {y \in {1} : armed[f] # "off"}}
    \cup {<<"main", e>> : e \in {e \in batch : e.fd = f}}
    \cup {<<"list", i>> : i \in {i \in DOMAIN queue : queue[i] = f}}
    \cup {<<"worker", w>> : w \in {w \in Worker : work[w].fd = f}}

\* No lock protects an HttpConn: EPOLLONESHOT and the order of modfd and the
\* last access keep it in one hand, as long as no worker closes a connection
\* (then main accepts the descriptor again before sockfd_ is -1).
OneHand == ~ crossed => \A f \in Fd : Cardinality(Hands(f)) <= 1

\* An open connection is in somebody's hand, unless Append refused it: no path
\* through read, process and write leaves it disarmed.
NotForgotten ==
  ~ crossed =>
    \A f \in Fd : conn[f] # None /\ conn[f] \notin refused => Hands(f) # {}

\* What it costs that main does not look at the result of Append: nobody ever
\* gets hold of a refused connection again, not even when its client hangs up,
\* so that its descriptor is lost.
RefusedLost ==
  [][~ crossed' => \A f \in Fd : conn[f] \in refused =>
                      Hands(f)' = {} /\ UNCHANGED <<conn[f], user[f]>>]_vars

\* A client gets answers to its own requests only, whoever had its descriptor
\* before, if the object was in its initial state when the client was accepted.
AnswersIfReset == ~ crossed => \A c \in Client : c \in dirty \/ got[c] \subseteq {c}

\* The same of every client: http_conn.h:64 says that init(sockfd, addr)
\* initialises the newly accepted connection.
AnswersOwnRequests == \A c \in Client : got[c] \subseteq {c}

\* A request that announced a body is answered only when the whole body has
\* been received, in however many pieces it came and wherever parse_line has
\* moved checked_index_ meanwhile.
BodyComplete ==
  [][\A w \in Worker :
       At(w, "request")' /\ ~ At(w, "request") =>
         LET u == Mine(w) IN
         \E i \in DOMAIN u.buf : u.buf[i].k = "blank" /\ Len(u.buf) >= i + BodyLen]_vars

Served(c) == Accepted(c) /\ c \notin hup \cup refused /\ ~ crossed

\* The head of a request in the buffer: a request line, perhaps in two parts,
\* and header lines up to the empty line at i.
HeadEnds(buf, i) ==
  /\ \E n \in 1..i - 1 : Kind(SubSeq(buf, 1, n)) = "get"
  /\ buf[i].k = "blank" /\ \A j \in 1..i - 1 : buf[j].k \notin {"blank", "bare", "junk"}

Announced(buf, i) == IF \E j \in 1..i - 1 : buf[j].k = "length" THEN BodyLen ELSE 0

\* All of a request that ends its head at i, body included, has been received.
Whole(buf, i) == HeadEnds(buf, i) /\ Len(buf) >= i + Announced(buf, i)

BadLine(u) == u.state = "line" /\ LineOk(u) /\ Kind(Line(u)) # "get"

\* Answered, or the connection has ended, or Append has refused the request.
Done(c) == got[c] # {} \/ ~ Served(c)

\* What a client sends is read, and once a whole request with a body, or a bad
\* request line, is in the buffer it is answered.  Out of this fall a request
\* without a body and one whose body came in pieces, of which parse_line has passed
\* one (GetAnswered), and a client that has got an object in use (AnswersOwnRequests).
RequestAnswered ==
  \A c \in Client :
    /\ (Served(c) /\ in[c] # <<>>) ~> (in[c] = <<>> \/ ~ Served(c))
    /\ (c \notin dirty /\ Served(c) /\
        \E f \in Fd : /\ conn[f] = c
                      /\ \/ BadLine(user[f])
                         \/ \E i \in DOMAIN user[f].buf :
                              /\ Whole(user[f].buf, i) /\ user[f].checked <= i
                              /\ Announced(user[f].buf, i) > 0)
         ~> Done(c)

\* Requests are handled, limited to GET (http_conn.h:4).  The least that this
\* means: when all clients wait for an answer to a whole GET request that the
\* server has read, one of them gets it.
GetAnswered ==
  (\A c \in Client :
     /\ Served(c) /\ c \notin dirty
     /\ \E f \in Fd : conn[f] = c /\ \E i \in DOMAIN user[f].buf : Whole(user[f].buf, i))
    ~> \E c \in Client : Done(c)
=============================================================================
