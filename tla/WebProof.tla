------------------------------ MODULE WebProof ------------------------------
(***************************************************************************)
(* Theorems of the web server.                                             *)
(***************************************************************************)
EXTENDS WebSafety, SequenceTheorems, FiniteSetTheorems, WellFoundedInduction, TLAPS

-----------------------------------------------------------------------------
(* The HttpConn object.                                                    *)

\* What every HttpConn keeps, whoever works on it: the indices are in order
\* inside the buffer, and in the state CHECK_STATE_CONTENT the empty line is
\* behind checked_index_ and the length is the announced one.
Sound(u) ==
  /\ u \in HttpConn
  /\ Len(u.buf) <= ReadSize /\ u.start <= u.checked /\ u.checked <= Len(u.buf)
  /\ u.state = "content" => /\ u.len = BodyLen
                            /\ \E i \in 1..u.checked : u.buf[i].k = "blank"

\* A nonempty set of numbers has a least element.
LEMMA LeastOne ==
  ASSUME NEW T \in SUBSET Nat, T # {}
  PROVE  \E x \in T : \A y \in T : x <= y
<1>1. PICK x \in T : \A y \in T : ~ (<<y, x>> \in OpToRel(<, Nat))
  BY NatLessThanWellFounded, WFMin
<1>2. \A y \in T : ~ (y < x)
  BY <1>1 DEF OpToRel
<1> HIDE <1>1
<1>3. \A y \in T : x <= y
  BY <1>2
<1>4. QED
  BY <1>3

\* The object of a descriptor that nobody has used.
LEMMA FreshSound == Sound(Fresh)
<1>1. Fresh \in HttpConn
  BY WebAssumption, EmptySeq DEF Fresh, HttpConn
<1>2. QED
  BY <1>1, WebAssumption DEF Fresh, Sound

\* init() after an answer.
LEMMA ResetSound ==
  ASSUME NEW u, Sound(u)
  PROVE  Sound(Reset(u)) /\ Reset(u).open = u.open
<1>1. u.open \in BOOLEAN
  BY DEF Sound, HttpConn
<1>2. Reset(u) \in HttpConn /\ Reset(u).open = u.open
  BY <1>1, FreshSound DEF Sound, HttpConn, Reset, Fresh
<1>3. Reset(u).buf = <<>> /\ Reset(u).start = 0 /\ Reset(u).checked = 0 /\ Reset(u).state = "line"
  BY DEF Reset, Fresh
<1>4. QED
  BY <1>2, <1>3, WebAssumption DEF Sound

\* sockfd_ is assigned.
LEMMA OpenSound ==
  ASSUME NEW u, Sound(u), NEW b \in BOOLEAN
  PROVE  Sound([u EXCEPT !.open = b])
<1> DEFINE v == [u EXCEPT !.open = b]
<1>1. v \in HttpConn
  BY DEF Sound, HttpConn
<1>2. /\ v.buf = u.buf /\ v.start = u.start /\ v.checked = u.checked /\ v.state = u.state
      /\ v.len = u.len
  BY DEF Sound, HttpConn
<1>3. QED
  BY <1>1, <1>2 DEF Sound

\* recv appends to the buffer.
LEMMA ReceiveSound ==
  ASSUME NEW u, Sound(u), NEW s \in Seq(Token), Len(s) <= Room(u)
  PROVE  Sound([u EXCEPT !.buf = @ \o s])
<1> DEFINE v == [u EXCEPT !.buf = @ \o s]
<1>1. u.buf \in Seq(Token) /\ v.buf = u.buf \o s
  BY DEF Sound, HttpConn
<1>2. /\ v.buf \in Seq(Token) /\ Len(v.buf) = Len(u.buf) + Len(s)
      /\ \A i \in 1..Len(u.buf) : v.buf[i] = u.buf[i]
  BY <1>1, ConcatProperties
<1>3. v \in HttpConn
  BY <1>2 DEF Sound, HttpConn
<1>4. /\ v.start = u.start /\ v.checked = u.checked /\ v.state = u.state /\ v.len = u.len
      /\ u.start \in Nat /\ u.checked \in Nat
  BY DEF Sound, HttpConn
<1>5. Len(u.buf) \in Nat /\ Len(s) \in Nat
  BY <1>1, LenProperties
<1>6. Len(v.buf) <= ReadSize /\ v.checked <= Len(v.buf)
  BY <1>2, <1>4, <1>5, WebAssumption DEF Sound, Room
<1>7. QED
  BY <1>2, <1>3, <1>4, <1>5, <1>6 DEF Sound

\* parse_line finds the first end of a line behind checked_index_.
LEMMA LineEndFacts ==
  ASSUME NEW u, Sound(u), Ends(u) # {}
  PROVE  LineEnd(u) \in u.checked + 1..Len(u.buf)
<1>1. Ends(u) \in SUBSET Nat
  BY LenProperties DEF Ends, Sound, HttpConn
<1>2. \E i \in Ends(u) : \A j \in Ends(u) : i <= j
  BY <1>1, LeastOne
<1>3. LineEnd(u) \in Ends(u)
  BY <1>2 DEF LineEnd
<1>4. QED
  BY <1>3 DEF Ends

\* checked_index_ moves on inside the buffer.
LEMMA CheckedSound ==
  ASSUME NEW u, Sound(u), NEW n \in u.checked..Len(u.buf)
  PROVE  Sound([u EXCEPT !.checked = n])
<1> DEFINE v == [u EXCEPT !.checked = n]
<1>1. /\ v.buf = u.buf /\ v.start = u.start /\ v.checked = n /\ v.state = u.state
      /\ v.len = u.len /\ u.start \in Nat /\ u.checked \in Nat /\ Len(u.buf) \in Nat /\ n \in Nat
  BY LenProperties DEF Sound, HttpConn
<1>2. v \in HttpConn
  BY <1>1 DEF Sound, HttpConn
<1>3. QED
  BY <1>1, <1>2 DEF Sound

\* start_line_ moves up to checked_index_.
LEMMA StartSound ==
  ASSUME NEW u, Sound(u)
  PROVE  Sound([u EXCEPT !.start = u.checked])
<1> DEFINE v == [u EXCEPT !.start = u.checked]
<1>1. /\ v.buf = u.buf /\ v.start = u.checked /\ v.checked = u.checked /\ v.state = u.state
      /\ v.len = u.len /\ u.checked \in Nat
  BY DEF Sound, HttpConn
<1>2. v \in HttpConn
  BY <1>1 DEF Sound, HttpConn
<1>3. QED
  BY <1>1, <1>2 DEF Sound

\* get_line: both indices are at the end of the line.
LEMMA AfterLineSound ==
  ASSUME NEW u, Sound(u), Ends(u) # {}
  PROVE  /\ Sound(AfterLine(u))
         /\ AfterLine(u).buf = u.buf /\ AfterLine(u).checked = LineEnd(u)
         /\ AfterLine(u).state = u.state /\ AfterLine(u).open = u.open
         /\ AfterLine(u).len = u.len /\ AfterLine(u).url = u.url /\ AfterLine(u).out = u.out
<1> DEFINE v == [u EXCEPT !.checked = LineEnd(u)]
<1>1. LineEnd(u) \in u.checked + 1..Len(u.buf) /\ u.checked \in Nat /\ Len(u.buf) \in Nat
  BY LineEndFacts, LenProperties DEF Sound, HttpConn
<1>2. LineEnd(u) \in u.checked..Len(u.buf)
  BY <1>1
<1>3. Sound(v) /\ v.checked = LineEnd(u)
  BY <1>2, CheckedSound DEF Sound, HttpConn
<1>4. AfterLine(u) = [v EXCEPT !.start = v.checked]
  BY <1>3 DEF Sound, HttpConn, AfterLine
<1>5. Sound(AfterLine(u))
  BY <1>3, <1>4, StartSound
<1>6. QED
  BY <1>5 DEF AfterLine, Sound, HttpConn

\* A part of a sequence.
LEMMA Part ==
  ASSUME NEW S, NEW s \in Seq(S), NEW m \in Nat \ {0}, NEW n \in 0..Len(s)
  PROVE  /\ SubSeq(s, m, n) \in Seq(S)
         /\ Len(SubSeq(s, m, n)) = IF m <= n THEN n - m + 1 ELSE 0
         /\ \A i \in 1..n - m + 1 : SubSeq(s, m, n)[i] = s[m + i - 1]
<1>1. Len(s) \in Nat
  BY LenProperties
<1>2. \A i \in m..n : i \in 1..Len(s)
  BY <1>1
<1>3. \A i \in m..n : s[i] \in S
  BY <1>2, ElementOfSeq
<1>4. m \in Int /\ n \in Int
  BY <1>1
<1>5. QED
  BY <1>3, <1>4, SubSeqProperties

\* The line itself is not empty, and it consists of tokens of the buffer.
LEMMA LineFacts ==
  ASSUME NEW u, Sound(u), Ends(u) # {}
  PROVE  /\ Line(u) \in Seq(Token) /\ 1 \in DOMAIN Line(u)
         /\ Line(u)[1] = u.buf[u.start + 1] /\ u.start + 1 \in DOMAIN u.buf
         /\ Line(u)[1] \in Token
         /\ Len(Line(u)) = 1 => Line(u)[1] = u.buf[LineEnd(u)]
<1>1. /\ LineEnd(u) \in u.checked + 1..Len(u.buf) /\ u.checked \in Nat /\ u.start \in Nat
      /\ u.buf \in Seq(Token) /\ Len(u.buf) \in Nat /\ u.start <= u.checked
  BY LineEndFacts, LenProperties DEF Sound, HttpConn
<1>2. u.start + 1 \in 1..Len(u.buf) + 1 /\ LineEnd(u) \in u.start + 1..Len(u.buf)
  BY <1>1
<1> DEFINE m == u.start + 1
           n == LineEnd(u)
<1>3. m \in Nat \ {0} /\ n \in 0..Len(u.buf) /\ m <= n
  BY <1>1, <1>2
<1>4. /\ Line(u) \in Seq(Token) /\ Len(Line(u)) = n - m + 1
      /\ \A i \in 1..n - m + 1 : Line(u)[i] = u.buf[m + i - 1]
  BY <1>1, <1>3, Part, SMTT(30) DEF Line
<1>5. /\ DOMAIN Line(u) = 1..n - m + 1 /\ n - m + 1 \in Nat \ {0}
      /\ DOMAIN u.buf = 1..Len(u.buf)
  BY <1>1, <1>3, <1>4, LenProperties
<1>6. 1 \in DOMAIN Line(u) /\ Line(u)[1] = u.buf[m] /\ Line(u)[1] \in Token
  BY <1>3, <1>4, <1>5
<1>7. m \in DOMAIN u.buf
  BY <1>1, <1>3, <1>5
<1>8. Len(Line(u)) = 1 => m = n
  BY <1>1, <1>3, <1>4, SMTT(30)
<1>9. QED
  BY <1>4, <1>6, <1>7, <1>8

\* An element of a concatenation is one of its parts.
LEMMA Joined ==
  ASSUME NEW S, NEW s \in Seq(S), NEW t \in Seq(S), NEW r \in Seq(S), Len(r) = Len(s) + Len(t),
         \A k \in 1..Len(s) + Len(t) : r[k] = IF k <= Len(s) THEN s[k] ELSE t[k - Len(s)]
  PROVE  \A i \in DOMAIN r : \/ i \in DOMAIN s /\ r[i] = s[i]
                             \/ i - Len(s) \in DOMAIN t /\ r[i] = t[i - Len(s)]
<1>1. /\ DOMAIN s = 1..Len(s) /\ DOMAIN t = 1..Len(t) /\ Len(s) \in Nat /\ Len(t) \in Nat
      /\ DOMAIN r = 1..Len(s) + Len(t)
  BY LenProperties
<1>2. ASSUME NEW i \in DOMAIN r
      PROVE  \/ i \in DOMAIN s /\ r[i] = s[i]
             \/ i - Len(s) \in DOMAIN t /\ r[i] = t[i - Len(s)]
  <2>1. i \in 1..Len(s) + Len(t)
    BY <1>1
  <2>2. CASE i <= Len(s)
    BY <1>1, <2>1, <2>2
  <2>3. CASE ~ (i <= Len(s))
    <3>1. i - Len(s) \in 1..Len(t)
      BY <1>1, <2>1, <2>3
    <3>2. r[i] = t[i - Len(s)]
      BY <2>1, <2>3
    <3>3. QED
      BY <1>1, <3>1, <3>2
  <2>4. QED
    BY <2>2, <2>3
<1>3. QED
  BY <1>2

\* What the parser does to an object keeps it sound, and open or closed.
LEMMA ParserSound ==
  ASSUME NEW u, Sound(u)
  PROVE  /\ ~ LineOk(u) => Sound([u EXCEPT !.checked = IF Ends(u) = {} THEN Len(u.buf) ELSE LineEnd(u) - 1])
         /\ Sound([u EXCEPT !.start = u.checked])
         /\ \A x \in Client \cup {None} : Sound([u EXCEPT !.out = Append(@, x)])
<1>1. Len(u.buf) \in Nat /\ u.checked \in Nat /\ u.checked <= Len(u.buf)
  BY LenProperties DEF Sound, HttpConn
<1>2. (IF Ends(u) = {} THEN Len(u.buf) ELSE LineEnd(u) - 1) \in u.checked..Len(u.buf)
  <2>1. CASE Ends(u) = {}
    BY <1>1, <2>1
  <2>2. CASE Ends(u) # {}
    BY <1>1, <2>2, LineEndFacts
  <2>3. QED
    BY <2>1, <2>2
<1>3. ASSUME NEW x \in Client \cup {None}
      PROVE  Sound([u EXCEPT !.out = Append(@, x)])
  <2> DEFINE v == [u EXCEPT !.out = Append(@, x)]
  <2>1. u.out \in Seq(Client \cup {None})
    BY DEF Sound, HttpConn
  <2>2. Append(u.out, x) \in Seq(Client \cup {None})
    BY <2>1, AppendProperties
  <2>3. v \in HttpConn
    BY <2>2 DEF Sound, HttpConn
  <2>4. /\ v.buf = u.buf /\ v.start = u.start /\ v.checked = u.checked /\ v.state = u.state
        /\ v.len = u.len
    BY DEF Sound, HttpConn
  <2>5. QED
    BY <2>3, <2>4 DEF Sound
<1>4. QED
  BY <1>2, <1>3, CheckedSound, StartSound

\* parse_request_line moves the object to the headers and notes whose url it is.
LEMMA RequestLineSound ==
  ASSUME NEW u, Sound(u), LineOk(u), u.state = "line"
  PROVE  Sound([AfterLine(u) EXCEPT !.url = Line(u)[1].c,
                                    !.state = IF Kind(Line(u)) = "get" THEN "head" ELSE @])
<1> DEFINE v == AfterLine(u)
           x == Line(u)[1].c
           st == IF Kind(Line(u)) = "get" THEN "head" ELSE v.state
           r == [v EXCEPT !.url = x, !.state = st]
<1>1. Ends(u) # {}
  BY DEF LineOk
<1>2. Sound(v) /\ v.state = "line"
  BY <1>1, AfterLineSound
<1>3. x \in Client
  BY <1>1, LineFacts DEF Token
<1>4. st \in {"line", "head"}
  BY <1>2
<1> HIDE DEF v, x, st
<1>5. /\ r \in HttpConn /\ r.state = st /\ r.buf = v.buf /\ r.start = v.start
      /\ r.checked = v.checked
  BY <1>2, <1>3, <1>4 DEF Sound, HttpConn
<1>6. Sound(r)
  BY <1>2, <1>4, <1>5 DEF Sound
<1>7. QED
  BY <1>6 DEF v, x, st

\* parse_headers moves the object to the body at an empty line only.
LEMMA HeadersSound ==
  ASSUME NEW u, Sound(u), LineOk(u), u.state = "head", NEW k, k = Kind(Line(u))
  PROVE  Sound([AfterLine(u) EXCEPT !.state = IF k = "blank" /\ u.len # 0 THEN "content" ELSE @,
                                    !.linger = @ \/ k = "keep",
                                    !.len = IF k = "length" THEN BodyLen ELSE @])
<1> DEFINE v == AfterLine(u)
           st == IF k = "blank" /\ u.len # 0 THEN "content" ELSE v.state
           b == v.linger \/ k = "keep"
           n == IF k = "length" THEN BodyLen ELSE v.len
           v1 == [v EXCEPT !.state = st]
           v2 == [v1 EXCEPT !.linger = b]
           v3 == [v2 EXCEPT !.len = n]
<1>1. Ends(u) # {}
  BY DEF LineOk
<1>2. /\ Sound(v) /\ v.state = "head" /\ v.len = u.len /\ v.buf = u.buf
      /\ v.checked = LineEnd(u)
  BY <1>1, AfterLineSound
<1>3. st \in {"head", "content"} /\ b \in BOOLEAN /\ n \in {0, BodyLen}
  BY <1>2 DEF Sound, HttpConn
<1>4. st = "content" => n = BodyLen /\ \E i \in 1..v.checked : v.buf[i].k = "blank"
  <2> SUFFICES ASSUME st = "content" PROVE n = BodyLen /\ \E i \in 1..v.checked : v.buf[i].k = "blank"
    OBVIOUS
  <2>1. k = "blank" /\ u.len # 0
    BY <1>2
  <2>2. n = BodyLen
    BY <1>2, <2>1 DEF Sound, HttpConn
  <2>3. Len(Line(u)) = 1 /\ Line(u)[1].k = "blank"
    BY <2>1 DEF Kind
  <2>4. u.buf[LineEnd(u)].k = "blank"
    BY <1>1, <2>3, LineFacts
  <2>5. LineEnd(u) \in 1..LineEnd(u)
    BY <1>1, LineEndFacts, LenProperties DEF Sound, HttpConn
  <2>6. QED
    BY <1>2, <2>2, <2>4, <2>5
<1>5. [AfterLine(u) EXCEPT !.state = IF k = "blank" /\ u.len # 0 THEN "content" ELSE @,
                           !.linger = @ \/ k = "keep",
                           !.len = IF k = "length" THEN BodyLen ELSE @] = v3
  BY <1>2 DEF Sound, HttpConn
<1> HIDE DEF v, st, b, n
<1>6. /\ v1 \in HttpConn /\ v1.state = st /\ v1.buf = v.buf /\ v1.start = v.start
      /\ v1.checked = v.checked
  BY <1>2, <1>3 DEF Sound, HttpConn
<1> HIDE DEF v1
<1>7. /\ v2 \in HttpConn /\ v2.state = st /\ v2.buf = v.buf /\ v2.start = v.start
      /\ v2.checked = v.checked
  BY <1>3, <1>6 DEF HttpConn
<1> HIDE DEF v2
<1>8. /\ v3 \in HttpConn /\ v3.state = st /\ v3.buf = v.buf /\ v3.start = v.start
      /\ v3.checked = v.checked /\ v3.len = n
  BY <1>3, <1>7 DEF HttpConn
<1>9. Sound(v3)
  BY <1>2, <1>4, <1>8 DEF Sound
<1>10. QED
  BY <1>5, <1>9

-----------------------------------------------------------------------------
(* The type invariant.                                                     *)

\* Every event of the listening socket that main has not handled, and the one
\* that epoll still has to report, stands for a connection in the backlog:
\* accept finds one.
Expected ==
  (IF edge THEN 1 ELSE 0) + (IF [ev |-> "accept", fd |-> None] \in batch THEN 1 ELSE 0)
    <= Len(backlog)

Typed == TypeOK /\ Expected /\ \A f \in Fd : Sound(user[f])

\* A step of a worker inside the object of its descriptor.
LEMMA InObject ==
  ASSUME Typed, NEW w \in Worker, work[w].at # "idle", NEW at \in Places, NEW v, Sound(v),
         user' = user \/ user' = [user EXCEPT ![work[w].fd] = v],
         work' = [work EXCEPT ![w].at = at],
         UNCHANGED <<kernel, batch, count, queue, got, dirty, refused>>, crossed' \in BOOLEAN
  PROVE  Typed'
<1>1. work[w].fd \in Fd /\ work[w] \in [at : Places, fd : Fd \cup {None}, tmp : Int]
  BY DEF Typed, TypeOK
<1>2. /\ work' \in [Worker -> [at : Places, fd : Fd \cup {None}, tmp : Int]]
      /\ \A x \in Worker : work'[x].at # "idle" => work'[x].fd \in Fd
  BY <1>1 DEF Typed, TypeOK
<1>3. user' \in [Fd -> HttpConn] /\ \A f \in Fd : Sound(user'[f])
  <2>1. user \in [Fd -> HttpConn] /\ v \in HttpConn /\ \A f \in Fd : Sound(user[f])
    BY DEF Typed, TypeOK, Sound
  <2>2. QED
    BY <1>1, <2>1
<1>4. \A f \in Fd : /\ Len(user'[f].buf) <= ReadSize
                   /\ user'[f].start <= user'[f].checked /\ user'[f].checked <= Len(user'[f].buf)
  BY <1>3 DEF Sound
<1>5. TypeOK'
  BY <1>2, <1>3, <1>4 DEF Typed, TypeOK, kernel, Accepted, Waits
<1>6. Expected'
  BY DEF Typed, Expected, kernel
<1>7. QED
  BY <1>3, <1>5, <1>6 DEF Typed

\* The steps of a worker.
LEMMA ProcessTyped ==
  ASSUME Typed, NEW w \in Worker, Process(w)
  PROVE  Typed'
<1> DEFINE u == Mine(w)
<1>1. work[w].at # "idle" => work[w].fd \in Fd /\ Sound(u)
  BY DEF Typed, TypeOK, Mine
<1>2. work[w] \in [at : Places, fd : Fd \cup {None}, tmp : Int]
  BY DEF Typed, TypeOK
<1>3. CASE Take(w)
  <2>1. queue \in Seq(Fd) /\ queue # <<>>
    BY <1>3 DEF Take, Typed, TypeOK
  <2>2. Head(queue) \in Fd /\ Tail(queue) \in Seq(Fd)
    BY <2>1, HeadTailProperties
  <2> DEFINE r == [at |-> "turn", fd |-> Head(queue), tmp |-> 0]
  <2>3. r \in [at : Places, fd : Fd \cup {None}, tmp : Int] /\ r.fd \in Fd
    BY <2>2 DEF Places
  <2>4. /\ work' \in [Worker -> [at : Places, fd : Fd \cup {None}, tmp : Int]]
        /\ \A x \in Worker : work'[x].at # "idle" => work'[x].fd \in Fd
        /\ queue' \in Seq(Fd)
    <3> HIDE DEF r
    <3>1. work' = [work EXCEPT ![w] = r] /\ queue' = Tail(queue)
      BY <1>3 DEF Take, r
    <3>2. QED
      BY <2>2, <2>3, <3>1 DEF Typed, TypeOK
  <2>5. QED
    BY <1>3, <2>4, SMTT(30) DEF Take, Typed, TypeOK, Expected, Accepted, Waits, kernel, objects, ghosts
<1>4. CASE NoLine(w)
  <2> DEFINE v == [u EXCEPT !.checked = IF Ends(u) = {} THEN Len(u.buf) ELSE LineEnd(u) - 1]
  <2>1. work[w].at # "idle" /\ ~ LineOk(u)
    BY <1>4 DEF NoLine, WantsLine, At
  <2>2. Sound(v)
    BY <1>1, <2>1, ParserSound
  <2>3. user' = [user EXCEPT ![work[w].fd] = v]
    BY <1>4, SMTT(30) DEF NoLine, Own
  <2> HIDE DEF v
  <2>4. QED
    BY <1>4, <2>1, <2>2, <2>3, InObject
    DEF NoLine, Goto, Places, ghosts, Typed, TypeOK
<1>5. CASE ParseRequestLine(w)
  <2> DEFINE v == [AfterLine(u) EXCEPT !.url = Line(u)[1].c,
                                       !.state = IF Kind(Line(u)) = "get" THEN "head" ELSE @]
  <2>1. work[w].at # "idle" /\ LineOk(u) /\ u.state = "line"
    BY <1>5 DEF ParseRequestLine, WantsLine, At
  <2>2. Sound(v)
    BY <1>1, <2>1, RequestLineSound
  <2>3. user' = [user EXCEPT ![work[w].fd] = v]
    BY <1>5 DEF ParseRequestLine, Own
  <2> HIDE DEF v
  <2>4. QED
    BY <1>5, <2>1, <2>2, <2>3, InObject
    DEF ParseRequestLine, Goto, Places, ghosts, Typed, TypeOK
<1>6. CASE ParseHeaders(w)
  <2> DEFINE k == Kind(Line(u))
             v == [AfterLine(u) EXCEPT !.state = IF k = "blank" /\ u.len # 0 THEN "content" ELSE @,
                                       !.linger = @ \/ k = "keep",
                                       !.len = IF k = "length" THEN BodyLen ELSE @]
  <2>1. work[w].at # "idle" /\ LineOk(u) /\ u.state = "head"
    BY <1>6 DEF ParseHeaders, WantsLine, At
  <2>2. Sound(v)
    BY <1>1, <2>1, HeadersSound
  <2>3. user' = [user EXCEPT ![work[w].fd] = v]
    BY <1>6 DEF ParseHeaders, Own
  <2> HIDE DEF v
  <2>4. QED
    BY <1>6, <2>1, <2>2, <2>3, InObject
    DEF ParseHeaders, Goto, Places, ghosts, Typed, TypeOK
<1>7. CASE ParseContent(w)
  <2> DEFINE v == [u EXCEPT !.start = u.checked]
  <2>1. work[w].at # "idle"
    BY <1>7 DEF ParseContent, At
  <2>2. Sound(v)
    BY <1>1, <2>1, ParserSound
  <2>3. user' = [user EXCEPT ![work[w].fd] = v]
    BY <1>7, SMTT(30) DEF ParseContent, Own
  <2> HIDE DEF v
  <2>4. QED
    BY <1>7, <2>1, <2>2, <2>3, InObject
    DEF ParseContent, Goto, Places, ghosts, Typed, TypeOK
<1>8. CASE ParseContentLine(w)
  <2> DEFINE v == AfterLine(u)
  <2>1. work[w].at # "idle" /\ Ends(u) # {}
    BY <1>8 DEF ParseContentLine, At, LineOk
  <2>2. Sound(v)
    BY <1>1, <2>1, AfterLineSound
  <2>3. user' = [user EXCEPT ![work[w].fd] = v]
    BY <1>8 DEF ParseContentLine, Own
  <2> HIDE DEF v
  <2>4. QED
    BY <1>8, <2>1, <2>2, <2>3, InObject
    DEF ParseContentLine, Goto, Places, ghosts, Typed, TypeOK
<1>9. CASE Rearm(w)
  <2>1. Idle \in [at : Places, fd : Fd \cup {None}, tmp : Int]
    BY DEF Idle, Places
  <2>2. /\ work' \in [Worker -> [at : Places, fd : Fd \cup {None}, tmp : Int]]
        /\ \A x \in Worker : work'[x].at # "idle" => work'[x].fd \in Fd
    BY <1>9, <2>1 DEF Rearm, Idle, Typed, TypeOK
  <2>3. armed' \in [Fd -> {"in", "out", "off"}]
    BY <1>9 DEF Rearm, Arm, AfterProcess, Typed, TypeOK
  <2>4. QED
    BY <1>9, <2>2, <2>3 DEF Rearm, Typed, TypeOK, Expected, Accepted, Waits, objects, ghosts
<1>10. CASE Answer(w)
  <2>1. work[w].at # "idle"
    BY <1>10 DEF Answer, At
  <2>2. u.url \in Client \cup {None}
    BY <1>1, <2>1 DEF Sound, HttpConn
  <2> DEFINE v == [u EXCEPT !.out = Append(@, u.url)]
  <2>3. Sound(v)
    BY <1>1, <2>1, <2>2, ParserSound
  <2>4. PICK outcome \in Outcomes(w) :
          IF Fits(u, outcome)
          THEN user' = [user EXCEPT ![work[w].fd] = v] /\ Goto(w, "out") /\ UNCHANGED crossed
          ELSE Goto(w, "close") /\ crossed' = TRUE /\ UNCHANGED user
    BY <1>10 DEF Answer, Own
  <2> HIDE DEF v
  <2>5. CASE Fits(u, outcome)
    BY <1>10, <2>1, <2>3, <2>4, <2>5, InObject DEF Answer, Goto, Places, Typed, TypeOK
  <2>6. CASE ~ Fits(u, outcome)
    BY <1>10, <2>1, <2>3, <2>4, <2>6, InObject DEF Answer, Goto, Places, Typed, TypeOK
  <2>7. QED
    BY <2>5, <2>6
<1>11. CASE WorkerClose(w)
  <2>1. work[w].fd \in Fd
    BY <1>1, <1>11 DEF WorkerClose, At
  <2>2. /\ work' \in [Worker -> [at : Places, fd : Fd \cup {None}, tmp : Int]]
        /\ \A x \in Worker : work'[x].at # "idle" => work'[x].fd \in Fd
    <3>1. work' = [work EXCEPT ![w].at = "forget"] \/ work' = [work EXCEPT ![w].at = "out"]
      BY <1>11 DEF WorkerClose, Goto
    <3>2. \A p \in {"forget", "out"} : p \in Places
      BY DEF Places
    <3>3. PICK p \in Places : work' = [work EXCEPT ![w].at = p]
      BY <3>1, <3>2
    <3>4. QED
      BY <1>2, <2>1, <3>3 DEF Typed, TypeOK
  <2>3. /\ armed' \in [Fd -> {"in", "out", "off"}] /\ conn' \in [Fd -> Client \cup {None}]
        /\ \A f \in Fd : conn'[f] \in {conn[f], None}
    BY <1>11, <2>1 DEF WorkerClose, Typed, TypeOK
  <2>4. \A c \in Client : Accepted(c)' => Accepted(c)
    BY <2>3, WebAssumption DEF Accepted
  <2>5. QED
    BY <1>11, <2>2, <2>3, <2>4 DEF WorkerClose, Typed, TypeOK, Expected, Waits, objects, ghosts
<1>12. CASE WorkerForget(w)
  <2>1. work[w].fd \in Fd /\ Sound(u)
    BY <1>1, <1>12 DEF WorkerForget, At
  <2> DEFINE v == [u EXCEPT !.open = FALSE]
  <2>2. Sound(v) /\ v \in HttpConn
    BY <2>1, OpenSound DEF Sound
  <2>3. user' = [user EXCEPT ![work[w].fd] = v]
    BY <1>12 DEF WorkerForget, Own
  <2> HIDE DEF v
  <2>4. user' \in [Fd -> HttpConn] /\ \A f \in Fd : Sound(user'[f])
    BY <2>1, <2>2, <2>3 DEF Typed, TypeOK
  <2>5. \A f \in Fd : /\ Len(user'[f].buf) <= ReadSize
                     /\ user'[f].start <= user'[f].checked
                     /\ user'[f].checked <= Len(user'[f].buf)
    BY <2>4 DEF Sound
  <2>6. /\ work' \in [Worker -> [at : Places, fd : Fd \cup {None}, tmp : Int]]
        /\ \A x \in Worker : work'[x].at # "idle" => work'[x].fd \in Fd
    BY <1>2, <1>12, <2>1 DEF WorkerForget, Places, Typed, TypeOK
  <2>7. QED
    BY <1>12, <2>4, <2>5, <2>6
    DEF WorkerForget, Typed, TypeOK, Expected, Accepted, Waits, kernel, ghosts
<1>13. CASE WorkerDiscount(w)
  <2>1. work[w].fd \in Fd
    BY <1>1, <1>13 DEF WorkerDiscount, At
  <2>2. count' \in Int
    BY <1>2, <1>13 DEF WorkerDiscount, Typed, TypeOK
  <2>3. /\ work' \in [Worker -> [at : Places, fd : Fd \cup {None}, tmp : Int]]
        /\ \A x \in Worker : work'[x].at # "idle" => work'[x].fd \in Fd
    BY <1>2, <1>13, <2>1 DEF WorkerDiscount, Goto, Places, Typed, TypeOK
  <2>4. QED
    BY <1>13, <2>2, <2>3
    DEF WorkerDiscount, Typed, TypeOK, Expected, Accepted, Waits, kernel, ghosts
<1>14. QED
  BY <1>3, <1>4, <1>5, <1>6, <1>7, <1>8, <1>9, <1>10, <1>11, <1>12, <1>13 DEF Process

\* A step of main that handles an event of descriptor f.
LEMMA MainTouches ==
  ASSUME Typed, NEW f \in Fd, NEW v, Sound(v), user' = [user EXCEPT ![f] = v],
         NEW a \in {"in", "out", "off"}, armed' = armed \/ armed' = [armed EXCEPT ![f] = a],
         conn' = conn \/ conn' = [conn EXCEPT ![f] = None],
         batch' \subseteq batch, count' \in Int, queue' \in Seq(Fd), refused' \subseteq Client,
         in' \in [Client -> Seq(Token)], got' \in [Client -> SUBSET (Client \cup {None})],
         UNCHANGED <<todo, hup, backlog, edge, work, dirty, crossed>>
  PROVE  Typed'
<1>1. user' \in [Fd -> HttpConn] /\ \A g \in Fd : Sound(user'[g])
  <2>1. user \in [Fd -> HttpConn] /\ v \in HttpConn /\ \A g \in Fd : Sound(user[g])
    BY DEF Typed, TypeOK, Sound
  <2>2. QED
    BY <2>1
<1>2. \A g \in Fd : /\ Len(user'[g].buf) <= ReadSize
                   /\ user'[g].start <= user'[g].checked /\ user'[g].checked <= Len(user'[g].buf)
  BY <1>1 DEF Sound
<1>3. /\ armed' \in [Fd -> {"in", "out", "off"}] /\ conn' \in [Fd -> Client \cup {None}]
      /\ \A g \in Fd : conn'[g] \in {conn[g], None}
  <2>1. armed \in [Fd -> {"in", "out", "off"}] /\ conn \in [Fd -> Client \cup {None}]
    BY DEF Typed, TypeOK
  <2>2. QED
    BY <2>1
<1>4. \A c \in Client : Accepted(c)' => Accepted(c)
  BY <1>3, WebAssumption DEF Accepted
<1>5. TypeOK'
  BY <1>1, <1>2, <1>3, <1>4 DEF Typed, TypeOK, Waits
<1>6. Len(backlog) \in Nat
  BY LenProperties DEF Typed, TypeOK
<1>7. Expected'
  BY <1>6 DEF Typed, Expected
<1>8. QED
  BY <1>1, <1>5, <1>7 DEF Typed

\* The cases of close_conn for a step of main.
LEMMA Closing ==
  ASSUME Typed, NEW f \in Fd, NEW v, Sound(v), CloseConn(f, v)
  PROVE  /\ armed' = armed \/ armed' = [armed EXCEPT ![f] = "off"]
         /\ conn' = conn \/ conn' = [conn EXCEPT ![f] = None]
         /\ count' \in Int
         /\ \E u : Sound(u) /\ user' = [user EXCEPT ![f] = u]
<1>1. count \in Int
  BY DEF Typed, TypeOK
<1>2. Sound([v EXCEPT !.open = FALSE])
  BY OpenSound
<1>3. CASE v.open
  <2> DEFINE x == [v EXCEPT !.open = FALSE]
  <2>1. /\ user' = [user EXCEPT ![f] = x] /\ conn' = [conn EXCEPT ![f] = None]
        /\ armed' = [armed EXCEPT ![f] = "off"] /\ count' = count - 1
    BY <1>3 DEF CloseConn
  <2>2. Sound(x)
    BY <1>2
  <2> HIDE DEF x
  <2>3. count' \in Int
    BY <1>1, <2>1
  <2>4. \E y : Sound(y) /\ user' = [user EXCEPT ![f] = y]
    <3>1. WITNESS x
    <3>2. QED
      BY <2>1, <2>2
  <2>5. QED
    BY <2>1, <2>3, <2>4
<1>4. CASE ~ v.open
  BY <1>1, <1>4 DEF CloseConn
<1>5. QED
  BY <1>3, <1>4

\* An event that main handles leaves the batch.
LEMMA Handled ==
  ASSUME NEW ev, NEW f, Handle(ev, f)
  PROVE  batch' \subseteq batch /\ [ev |-> ev, fd |-> f] \in batch
BY DEF Handle

\* What main reads.
LEMMA Received ==
  ASSUME Typed, NEW f \in Fd, NEW c, c = conn[f], Alive(f), NEW n,
         n = (IF Len(in[c]) < Room(user[f]) THEN Len(in[c]) ELSE Room(user[f]))
  PROVE  /\ n \in Nat /\ n <= Len(in[c]) /\ c \in Client
         /\ SubSeq(in[c], 1, n) \in Seq(Token) /\ Len(SubSeq(in[c], 1, n)) = n
         /\ n <= Room(user[f])
<1>1. c \in Client /\ in[c] \in Seq(Token) /\ Len(in[c]) \in Nat
  BY LenProperties DEF Typed, TypeOK, Alive
<1>2. Room(user[f]) \in Nat
  BY WebAssumption, LenProperties DEF Typed, TypeOK, Room, HttpConn
<1>3. n \in Nat /\ n <= Len(in[c]) /\ n <= Room(user[f])
  BY <1>1, <1>2
<1>4. n \in 0..Len(in[c]) /\ 1 \in Nat \ {0}
  BY <1>1, <1>3
<1>5. SubSeq(in[c], 1, n) \in Seq(Token) /\ Len(SubSeq(in[c], 1, n)) = IF 1 <= n THEN n - 1 + 1 ELSE 0
  BY <1>1, <1>4, Part
<1>6. QED
  BY <1>1, <1>3, <1>5

\* The events that main handles on a descriptor.
LEMMA EventTyped ==
  ASSUME Typed, NEW f \in Fd,
         \/ CloseHungUp(f) \/ Read(f) \/ Write(f) \/ WriteNothing(f) \/ WriteAgain(f)
         \/ WriteFails(f)
  PROVE  Typed'
<1> DEFINE u == user[f]
           c == conn[f]
<1>1. /\ Sound(u) /\ count \in Int /\ queue \in Seq(Fd) /\ refused \subseteq Client
      /\ in \in [Client -> Seq(Token)] /\ got \in [Client -> SUBSET (Client \cup {None})]
      /\ user = [user EXCEPT ![f] = u] /\ user \in [Fd -> HttpConn]
  BY DEF Typed, TypeOK
<1>2. Sound(Reset(u))
  BY <1>1, ResetSound
<1>3. CASE CloseHungUp(f)
  <2>1. PICK v : Sound(v) /\ user' = [user EXCEPT ![f] = v]
    BY <1>1, <1>3, Closing DEF CloseHungUp
  <2>2. /\ armed' = armed \/ armed' = [armed EXCEPT ![f] = "off"]
        /\ conn' = conn \/ conn' = [conn EXCEPT ![f] = None]
        /\ count' \in Int
    BY <1>1, <1>3, Closing DEF CloseHungUp
  <2>3. batch' \subseteq batch
    BY <1>3, Handled DEF CloseHungUp
  <2>4. QED
    BY <1>1, <1>3, <2>1, <2>2, <2>3, MainTouches DEF CloseHungUp, ghosts
<1>4. CASE Read(f)
  <2> DEFINE n == IF ~ Alive(f) THEN 0 ELSE IF Len(in[c]) < Room(u) THEN Len(in[c]) ELSE Room(u)
             v == IF n = 0 THEN u ELSE [u EXCEPT !.buf = @ \o SubSeq(in[c], 1, n)]
  <2>1. /\ n \in Nat
        /\ Alive(f) => /\ n <= Len(in[c]) /\ n <= Room(u) /\ c \in Client
                       /\ SubSeq(in[c], 1, n) \in Seq(Token) /\ Len(SubSeq(in[c], 1, n)) = n
    BY Received
  <2>2. Sound(v)
    <3>1. CASE n = 0
      BY <1>1, <3>1
    <3>2. CASE n # 0
      BY <1>1, <2>1, <3>2, ReceiveSound
    <3>3. QED
      BY <3>1, <3>2
  <2>3. in' \in [Client -> Seq(Token)]
    <3>1. in' = [d \in Client |-> IF d = c THEN SubSeq(in[d], n + 1, Len(in[d])) ELSE in[d]]
      BY <1>4 DEF Read
    <3>2. \A d \in Client : SubSeq(in[d], n + 1, Len(in[d])) \in Seq(Token)
      <4> SUFFICES ASSUME NEW d \in Client PROVE SubSeq(in[d], n + 1, Len(in[d])) \in Seq(Token)
        OBVIOUS
      <4>1. in[d] \in Seq(Token) /\ Len(in[d]) \in 0..Len(in[d]) /\ n + 1 \in Nat \ {0}
        BY <1>1, <2>1, LenProperties, SMTT(30)
      <4>2. QED
        BY <4>1, Part
    <3> HIDE DEF n
    <3>3. QED
      BY <1>1, <3>1, <3>2
  <2>4. batch' \subseteq batch /\ UNCHANGED <<todo, hup, backlog, edge, work, got, dirty, crossed>>
    BY <1>4, Handled DEF Read
  <2>5. CASE Alive(f) /\ n < Room(u) /\ c \notin hup
    <3>1. user' = [user EXCEPT ![f] = v] /\ AppendUser(f) /\ UNCHANGED <<conn, armed, count>>
      BY <1>4, <2>5 DEF Read
    <3>2. queue' \in Seq(Fd) /\ refused' \subseteq Client
      <4>1. c \in Client /\ Append(queue, f) \in Seq(Fd)
        BY <1>1, <2>1, <2>5, AppendProperties
      <4> HIDE DEF v, n
      <4>2. QED
        BY <1>1, <3>1, <4>1 DEF AppendUser
    <3> HIDE DEF v, n
    <3>3. QED
      BY <1>1, <2>2, <2>3, <2>4, <3>1, <3>2, MainTouches
  <2>6. CASE ~ (Alive(f) /\ n < Room(u) /\ c \notin hup)
    <3>1. CloseConn(f, v) /\ UNCHANGED <<queue, refused>>
      BY <1>4, <2>6 DEF Read
    <3> HIDE DEF v, n
    <3>2. PICK x : Sound(x) /\ user' = [user EXCEPT ![f] = x]
      BY <2>2, <3>1, Closing
    <3>3. /\ armed' = armed \/ armed' = [armed EXCEPT ![f] = "off"]
          /\ conn' = conn \/ conn' = [conn EXCEPT ![f] = None]
          /\ count' \in Int
      BY <2>2, <3>1, Closing
    <3>4. QED
      BY <1>1, <2>3, <2>4, <3>1, <3>2, <3>3, MainTouches
  <2>7. QED
    BY <2>5, <2>6
<1>5. CASE Write(f)
  <2>1. /\ batch' \subseteq batch /\ Alive(f)
        /\ UNCHANGED <<todo, in, hup, backlog, edge, queue, work, dirty, refused, crossed>>
    BY <1>5, Handled DEF Write
  <2>2. got' \in [Client -> SUBSET (Client \cup {None})]
    <3>1. c \in Client
      BY <2>1 DEF Alive, Typed, TypeOK
    <3>2. u.out \in Seq(Client \cup {None})
      BY <1>1 DEF Sound, HttpConn
    <3>3. \A i \in DOMAIN u.out : u.out[i] \in Client \cup {None}
      BY <3>2, ElementOfSeq, LenProperties
    <3>4. got' = [got EXCEPT ![c] = @ \cup {u.out[i] : i \in DOMAIN u.out}]
      BY <1>5 DEF Write
    <3>5. QED
      BY <1>1, <3>1, <3>3, <3>4
  <2>3. CASE u.linger
    <3>1. user' = [user EXCEPT ![f] = Reset(u)] /\ Arm(f, "in") /\ UNCHANGED <<conn, count>>
      BY <1>5, <2>3 DEF Write
    <3>2. QED
      BY <1>1, <1>2, <2>1, <2>2, <3>1, MainTouches DEF Arm
  <2>4. CASE ~ u.linger
    <3>1. CloseConn(f, Reset(u))
      BY <1>5, <2>4 DEF Write
    <3>2. PICK x : Sound(x) /\ user' = [user EXCEPT ![f] = x]
      BY <1>2, <3>1, Closing
    <3>3. /\ armed' = armed \/ armed' = [armed EXCEPT ![f] = "off"]
          /\ conn' = conn \/ conn' = [conn EXCEPT ![f] = None]
          /\ count' \in Int
      BY <1>2, <3>1, Closing
    <3>4. QED
      BY <1>1, <2>1, <2>2, <3>2, <3>3, MainTouches
  <2>5. QED
    BY <2>3, <2>4
<1>6. CASE WriteNothing(f)
  <2>1. batch' \subseteq batch /\ user' = [user EXCEPT ![f] = Reset(u)]
    BY <1>6, Handled DEF WriteNothing
  <2>2. armed' = armed \/ armed' = [armed EXCEPT ![f] = "in"]
    BY <1>6 DEF WriteNothing, Arm
  <2>3. QED
    BY <1>1, <1>2, <1>6, <2>1, <2>2, MainTouches DEF WriteNothing, ghosts
<1>7. CASE WriteAgain(f)
  <2>1. batch' \subseteq batch /\ user' = [user EXCEPT ![f] = u]
    BY <1>1, <1>7, Handled DEF WriteAgain, objects
  <2>2. armed' = armed \/ armed' = [armed EXCEPT ![f] = "out"]
    BY <1>7 DEF WriteAgain, Arm
  <2>3. QED
    BY <1>1, <1>7, <2>1, <2>2, MainTouches DEF WriteAgain, objects, ghosts
<1>8. CASE WriteFails(f)
  <2>1. PICK v : Sound(v) /\ user' = [user EXCEPT ![f] = v]
    BY <1>1, <1>8, Closing DEF WriteFails
  <2>2. /\ armed' = armed \/ armed' = [armed EXCEPT ![f] = "off"]
        /\ conn' = conn \/ conn' = [conn EXCEPT ![f] = None]
        /\ count' \in Int
    BY <1>1, <1>8, Closing DEF WriteFails
  <2>3. batch' \subseteq batch
    BY <1>8, Handled DEF WriteFails
  <2>4. QED
    BY <1>1, <1>8, <2>1, <2>2, <2>3, MainTouches DEF WriteFails, ghosts
<1>9. QED
  BY <1>3, <1>4, <1>5, <1>6, <1>7, <1>8

\* What epoll reports is known to be there.
LEMMA ReportedOpen ==
  ASSUME NEW f \in Ready
  PROVE  f \in Fd /\ armed[f] # "off" /\ conn[f] # None /\ Event(f) \in {"hup", "in", "out"}
BY DEF Ready, Event

\* The steps of main on the listening socket.
LEMMA ListenTyped ==
  ASSUME Typed, Poll \/ AcceptFails \/ AcceptBusy \/ \E f \in Fd : Accept(f)
  PROVE  Typed'
<1>1. /\ backlog \in Seq(Client) /\ Len(backlog) \in Nat /\ count \in Int /\ dirty \subseteq Client
      /\ armed \in [Fd -> {"in", "out", "off"}] /\ conn \in [Fd -> Client \cup {None}]
  BY LenProperties DEF Typed, TypeOK
<1>2. ASSUME Handle("accept", None)
      PROVE  /\ batch' \subseteq batch /\ [ev |-> "accept", fd |-> None] \notin batch'
             /\ backlog # <<>> /\ Head(backlog) \in Client
             /\ Tail(backlog) \in Seq(Client) /\ Len(Tail(backlog)) = Len(backlog) - 1
             /\ \A i \in DOMAIN Tail(backlog) : i + 1 \in DOMAIN backlog /\ Tail(backlog)[i] = backlog[i + 1]
             /\ Head(backlog) = backlog[1] /\ 1 \in DOMAIN backlog
  <2>1. batch' \subseteq batch /\ [ev |-> "accept", fd |-> None] \notin batch'
        /\ [ev |-> "accept", fd |-> None] \in batch
    BY <1>2 DEF Handle
  <2>2. Len(backlog) >= 1
    BY <1>1, <2>1 DEF Typed, Expected
  <2>3. backlog # <<>>
    BY <1>1, <2>2, LenProperties
  <2>4. /\ Head(backlog) \in Client /\ Tail(backlog) \in Seq(Client)
        /\ Len(Tail(backlog)) = Len(backlog) - 1
        /\ \A i \in 1..Len(Tail(backlog)) : Tail(backlog)[i] = backlog[i + 1]
    BY <1>1, <2>3, HeadTailProperties
  <2>5. DOMAIN backlog = 1..Len(backlog) /\ DOMAIN Tail(backlog) = 1..Len(Tail(backlog))
    BY <1>1, <2>4, LenProperties
  <2>6. Head(backlog) = backlog[1]
    BY <1>1, <2>3
  <2>7. QED
    BY <1>1, <2>1, <2>2, <2>3, <2>4, <2>5, <2>6
<1>3. ASSUME Handle("accept", None), backlog' = Tail(backlog), edge' = edge
      PROVE  /\ Expected' /\ \A c \in Client : Waits(c)' => Waits(c)
             /\ backlog' \in Seq(Client)
  <2>1. Expected'
    <3>1. [ev |-> "accept", fd |-> None] \in batch
      BY <1>3 DEF Handle
    <3>2. (IF edge THEN 1 ELSE 0) + 1 <= Len(backlog)
      BY <3>1 DEF Typed, Expected
    <3>3. [ev |-> "accept", fd |-> None] \notin batch' /\ Len(backlog') = Len(backlog) - 1
      BY <1>2, <1>3
    <3>4. (IF edge THEN 1 ELSE 0) + 0 <= Len(backlog')
      BY <1>1, <3>2, <3>3
    <3>5. QED
      BY <1>3, <3>3, <3>4 DEF Expected
  <2>2. ASSUME NEW c \in Client, NEW i \in DOMAIN Tail(backlog), Tail(backlog)[i] = c
        PROVE  Waits(c)
    BY <1>2, <1>3, <2>2 DEF Waits
  <2>3. \A c \in Client : Waits(c)' => Waits(c)
    BY <1>3, <2>2 DEF Waits
  <2>4. QED
    BY <1>2, <1>3, <2>1, <2>3
<1>4. CASE Poll
  <2>1. batch' \subseteq [ev : {"accept", "hup", "in", "out"}, fd : Fd \cup {None}]
    BY <1>4, ReportedOpen DEF Poll
  <2>2. armed' \in [Fd -> {"in", "out", "off"}]
    BY <1>1, <1>4 DEF Poll, Disarm
  <2>3. Expected'
    <3>1. batch = {} /\ edge' = FALSE /\ backlog' = backlog
      BY <1>4 DEF Poll
    <3>2. [ev |-> "accept", fd |-> None] \in batch' => edge
      <4>1. \A f \in Ready : f # None
        BY ReportedOpen, WebAssumption
      <4>2. QED
        BY <1>4, <4>1 DEF Poll
    <3>3. QED
      BY <1>1, <3>1, <3>2 DEF Typed, Expected
  <2>4. QED
    BY <1>4, <2>1, <2>2, <2>3
    DEF Poll, Typed, TypeOK, Accepted, Waits, objects, ghosts
<1>5. CASE AcceptFails
  <2>1. batch' \subseteq batch /\ [ev |-> "accept", fd |-> None] \notin batch'
    BY <1>2, <1>5 DEF AcceptFails
  <2>2. Expected'
    BY <1>1, <1>5, <2>1 DEF AcceptFails, Typed, Expected, kernel
  <2>3. QED
    BY <1>5, <2>1, <2>2
    DEF AcceptFails, Typed, TypeOK, Accepted, Waits, kernel, objects, ghosts
<1>6. CASE AcceptBusy
  <2>1. batch' \subseteq batch
    BY <1>2, <1>6 DEF AcceptBusy
  <2>2. /\ Expected' /\ \A c \in Client : Waits(c)' => Waits(c)
        /\ backlog' \in Seq(Client)
    BY <1>3, <1>6 DEF AcceptBusy
  <2>3. QED
    BY <1>6, <2>1, <2>2
    DEF AcceptBusy, Typed, TypeOK, Accepted, objects, ghosts
<1>7. ASSUME NEW f \in Fd, Accept(f)
      PROVE  Typed'
  <2> DEFINE c == Head(backlog)
             v == InitUser(user[f])
  <2>1. Handle("accept", None) /\ backlog' = Tail(backlog) /\ edge' = edge
    BY <1>7 DEF Accept
  <2>2. /\ Expected' /\ \A x \in Client : Waits(x)' => Waits(x)
        /\ backlog' \in Seq(Client)
    BY <1>3, <2>1
  <2>3. batch' \subseteq batch /\ c \in Client /\ Waits(c)
    BY <1>2, <2>1 DEF Waits
  <2>4. conn' = [conn EXCEPT ![f] = c] /\ armed' = [armed EXCEPT ![f] = "in"]
        /\ count' = count + 1 /\ (dirty' = dirty \/ dirty' = dirty \cup {c})
    BY <1>7 DEF Accept
  <2>5. /\ conn' \in [Fd -> Client \cup {None}] /\ armed' \in [Fd -> {"in", "out", "off"}]
        /\ count' \in Int /\ dirty' \subseteq Client
        /\ \A x \in Client : Accepted(x)' => Accepted(x) \/ x = c
    BY <1>1, <2>3, <2>4 DEF Accepted
  <2>6. \A x \in Client : Accepted(x)' \/ Waits(x)' => Accepted(x) \/ Waits(x)
    BY <2>2, <2>3, <2>5
  <2>7. Sound(v) /\ v \in HttpConn
    BY OpenSound DEF InitUser, Typed, Sound
  <2>8. user' = [user EXCEPT ![f] = v]
    BY <1>7 DEF Accept
  <2> HIDE DEF v
  <2>9. user' \in [Fd -> HttpConn] /\ \A g \in Fd : Sound(user'[g])
    BY <2>7, <2>8 DEF Typed, TypeOK
  <2>10. \A g \in Fd : /\ Len(user'[g].buf) <= ReadSize
                      /\ user'[g].start <= user'[g].checked /\ user'[g].checked <= Len(user'[g].buf)
    BY <2>9 DEF Sound
  <2>11. QED
    BY <1>7, <2>2, <2>3, <2>5, <2>6, <2>9, <2>10 DEF Accept, Typed, TypeOK
<1>8. QED
  BY <1>4, <1>5, <1>6, <1>7

\* The steps of the clients.
LEMMA WorldTyped ==
  ASSUME Typed, NEW c \in Client, Connect(c) \/ Send(c) \/ HangUp(c)
  PROVE  Typed'
<1>1. /\ backlog \in Seq(Client) /\ Len(backlog) \in Nat /\ in \in [Client -> Seq(Token)]
      /\ todo \in [Client -> {None} \cup Seq(Seq(Kinds))]
  BY LenProperties DEF Typed, TypeOK
<1>2. CASE Connect(c)
  <2>1. PICK s \in Stream[c] : todo' = [todo EXCEPT ![c] = s]
    BY <1>2 DEF Connect
  <2>2. s \in Seq(Seq(Kinds)) /\ s # None
    BY <2>1, WebAssumption
  <2>3. backlog' = Append(backlog, c)
    BY <1>2 DEF Connect
  <2>4. /\ backlog' \in Seq(Client) /\ Len(backlog') = Len(backlog) + 1
        /\ \A i \in 1..Len(backlog) : backlog'[i] = backlog[i]
        /\ backlog'[Len(backlog) + 1] = c
    BY <1>1, <2>3, AppendProperties
  <2>5. DOMAIN backlog' = 1..Len(backlog) + 1 /\ DOMAIN backlog = 1..Len(backlog)
    BY <1>1, <2>4, LenProperties
  <2>6. \A x \in Client : Waits(x)' => Waits(x) \/ x = c
    <3>1. ASSUME NEW x \in Client, NEW i \in DOMAIN backlog', backlog'[i] = x
          PROVE  Waits(x) \/ x = c
      <4>1. i \in DOMAIN backlog \/ i = Len(backlog) + 1
        BY <1>1, <2>5
      <4>2. QED
        BY <2>4, <2>5, <3>1, <4>1 DEF Waits
    <3>2. QED
      BY <3>1 DEF Waits
  <2>7. \A x \in Client : Accepted(x)' <=> Accepted(x)
    BY <1>2 DEF Connect, Accepted
  <2>8. /\ todo' \in [Client -> {None} \cup Seq(Seq(Kinds))]
        /\ \A x \in Client : Accepted(x)' \/ Waits(x)' => todo'[x] # None
    BY <1>1, <2>1, <2>2, <2>6, <2>7 DEF Typed, TypeOK
  <2>9. Expected'
    BY <1>1, <1>2, <2>4 DEF Connect, Typed, Expected
  <2>10. QED
    BY <1>2, <2>4, <2>8, <2>9 DEF Connect, Typed, TypeOK, objects, ghosts
<1>3. CASE Send(c)
  <2>1. todo[c] \in Seq(Seq(Kinds)) /\ todo[c] # <<>>
    BY <1>1, <1>3 DEF Send, Typed, TypeOK
  <2> DEFINE seg == Head(todo[c])
             m == [i \in DOMAIN seg |-> [c |-> c, k |-> seg[i]]]
  <2>2. seg \in Seq(Kinds) /\ Tail(todo[c]) \in Seq(Seq(Kinds))
    BY <2>1, HeadTailProperties
  <2>3. m \in Seq(Token)
    <3>1. Len(seg) \in Nat /\ DOMAIN seg = 1..Len(seg) /\ \A i \in 1..Len(seg) : seg[i] \in Kinds
      BY <2>2, LenProperties, ElementOfSeq
    <3> HIDE DEF seg
    <3>2. m \in [1..Len(seg) -> Token]
      BY <3>1 DEF Token
    <3>3. QED
      BY <3>1, <3>2
  <2>4. in' = [in EXCEPT ![c] = in[c] \o m] /\ todo' = [todo EXCEPT ![c] = Tail(todo[c])]
    BY <1>1, <1>3 DEF Send
  <2>5. in[c] \o m \in Seq(Token)
    BY <1>1, <2>3, ConcatProperties
  <2> HIDE DEF m
  <2>6. /\ in' \in [Client -> Seq(Token)] /\ todo' \in [Client -> {None} \cup Seq(Seq(Kinds))]
        /\ \A x \in Client : todo[x] # None => todo'[x] # None
    BY <1>1, <2>2, <2>4, <2>5, WebAssumption
  <2>7. QED
    BY <1>3, <2>6 DEF Send, Typed, TypeOK, Expected, Accepted, Waits, objects, ghosts
<1>4. CASE HangUp(c)
  BY <1>4 DEF HangUp, Typed, TypeOK, Expected, Accepted, Waits, objects, ghosts
<1>5. QED
  BY <1>2, <1>3, <1>4

\* The invariant holds in the initial states.
LEMMA InitTyped == Init => Typed
<1> SUFFICES ASSUME Init PROVE Typed
  OBVIOUS
<1>1. /\ todo \in [Client -> {None} \cup Seq(Seq(Kinds))] /\ in \in [Client -> Seq(Token)]
      /\ backlog \in Seq(Client) /\ queue \in Seq(Fd) /\ Len(backlog) = 0
  BY EmptySeq DEF Init
<1>2. /\ user \in [Fd -> HttpConn] /\ \A f \in Fd : Sound(user[f])
  BY FreshSound DEF Init, Sound
<1>3. \A f \in Fd : /\ Len(user[f].buf) <= ReadSize
                   /\ user[f].start <= user[f].checked /\ user[f].checked <= Len(user[f].buf)
  BY <1>2 DEF Sound
<1>4. /\ work \in [Worker -> [at : Places, fd : Fd \cup {None}, tmp : Int]]
      /\ \A w \in Worker : work[w].at # "idle" => work[w].fd \in Fd
  <2>1. Idle \in [at : Places, fd : Fd \cup {None}, tmp : Int] /\ Idle.at = "idle"
    BY DEF Idle, Places
  <2>2. QED
    BY <2>1 DEF Init
<1>5. \A c \in Client : ~ Accepted(c) /\ ~ Waits(c)
  BY <1>1, WebAssumption DEF Init, Accepted, Waits
<1>6. Expected
  BY <1>1 DEF Init, Expected
<1>7. TypeOK
  <2>1. /\ conn \in [Fd -> Client \cup {None}] /\ armed \in [Fd -> {"in", "out", "off"}]
        /\ got \in [Client -> SUBSET (Client \cup {None})]
    BY DEF Init
  <2>2. /\ hup \subseteq Client /\ dirty \subseteq Client /\ refused \subseteq Client
        /\ batch \subseteq [ev : {"accept", "hup", "in", "out"}, fd : Fd \cup {None}]
        /\ count \in Int
    BY DEF Init
  <2>3. edge \in BOOLEAN /\ crossed \in BOOLEAN
    BY Zenon DEF Init
  <2>4. QED
    BY <1>1, <1>2, <1>3, <1>4, <1>5, <2>1, <2>2, <2>3 DEF TypeOK
<1>8. QED
  BY <1>2, <1>6, <1>7 DEF Typed

\* Every step keeps it.
LEMMA NextTyped == Typed /\ [Next]_vars => Typed'
<1> SUFFICES ASSUME Typed, [Next]_vars PROVE Typed'
  OBVIOUS
<1>1. CASE Main
  BY <1>1, ListenTyped, EventTyped DEF Main
<1>2. CASE World
  BY <1>2, WorldTyped DEF World
<1>3. CASE \E w \in Worker : Process(w)
  BY <1>3, ProcessTyped
<1>4. CASE UNCHANGED vars
  BY <1>4 DEF vars, kernel, objects, ghosts, Typed, TypeOK, Expected, Accepted, Waits
<1>5. QED
  BY <1>1, <1>2, <1>3, <1>4 DEF Next

\* The strengthened type invariant holds in every run.
LEMMA AlwaysTyped == Spec => []Typed
<1>1. QED
  BY InitTyped, NextTyped, PTL DEF Spec

\* The clients, the events, the objects and the workers keep their types, the
\* indices of every buffer their order: web_test.cpp, http_conn.cpp.
THEOREM TypeCorrect == Spec => []TypeOK
<1>1. Typed => TypeOK
  BY DEF Typed
<1>2. QED
  BY <1>1, AlwaysTyped, PTL

-----------------------------------------------------------------------------
(* The body of a request.                                                  *)

\* Only parse_content leads to do_request, and only with the whole body.
LEMMA WholeBody ==
  ASSUME Typed, Next, NEW w \in Worker, At(w, "request")', ~ At(w, "request")
  PROVE  \E i \in DOMAIN Mine(w).buf : /\ Mine(w).buf[i].k = "blank"
                                     /\ Len(Mine(w).buf) >= i + BodyLen
<1> DEFINE u == Mine(w)
<1>1. work \in [Worker -> [at : Places, fd : Fd \cup {None}, tmp : Int]]
  BY DEF Typed, TypeOK
<1>2. work[w].at # "idle" => Sound(u)
  BY DEF Typed, TypeOK, Mine
<1>3. work' # work
  BY DEF At
<1>4. ~ Main /\ ~ World
  BY <1>3 DEF Main, World, Poll, AcceptFails, AcceptBusy, Accept, CloseHungUp, Read, Write,
       WriteNothing, WriteAgain, WriteFails, Connect, Send, HangUp
<1>5. PICK x \in Worker : Process(x)
  BY <1>4 DEF Next
<1>6. x = w
  BY <1>1, <1>5 DEF At, Goto, Idle, Process, Take, NoLine, ParseRequestLine, ParseHeaders,
       ParseContent, ParseContentLine, Rearm, Answer, WorkerClose, WorkerForget, WorkerDiscount
<1>7. ParseContent(w) \/ ParseContentLine(w)
  <2> work'[w].at = "request" /\ work[w] \in [at : Places, fd : Fd \cup {None}, tmp : Int]
    BY <1>1 DEF At
  <2>1. ASSUME NEW p, Goto(w, p)
        PROVE  p = "request"
    BY <1>1, <2>1 DEF Goto
  <2>2. ~ Take(w)
    BY <1>1 DEF Take
  <2>3. ~ Rearm(w)
    BY <1>1 DEF Rearm, Idle
  <2>4. ~ WorkerForget(w)
    BY <1>1 DEF WorkerForget
  <2>5. ~ NoLine(w) /\ ~ WorkerDiscount(w)
    BY <2>1 DEF NoLine, WorkerDiscount
  <2>6. ~ ParseRequestLine(w) /\ ~ ParseHeaders(w)
    BY <2>1 DEF ParseRequestLine, ParseHeaders
  <2>7. ~ Answer(w) /\ ~ WorkerClose(w)
    BY <2>1 DEF Answer, WorkerClose
  <2>8. QED
    BY <1>5, <1>6, <2>2, <2>3, <2>4, <2>5, <2>6, <2>7 DEF Process
<1>8. Sound(u) /\ u.state = "content"
  BY <1>2, <1>7 DEF ParseContent, ParseContentLine, At
<1>9. PICK i \in 1..u.checked : u.buf[i].k = "blank"
  BY <1>8 DEF Sound
<1>10. /\ u.len = BodyLen /\ u.checked \in Nat /\ Len(u.buf) \in Nat /\ u.checked <= Len(u.buf)
       /\ DOMAIN u.buf = 1..Len(u.buf) /\ BodyLen \in Nat
  BY <1>8, LenProperties, WebAssumption DEF Sound, HttpConn
<1>11. Len(u.buf) >= BodyLen + u.checked
  <2>1. CASE ParseContent(w)
    <3>1. Complete(u)
      <4>1. Goto(w, IF Complete(u) THEN "request" ELSE "more")
        BY <2>1 DEF ParseContent
      <4>2. QED
        BY <1>1, <4>1 DEF Goto, At
    <3>2. QED
      BY <1>10, <3>1 DEF Complete
  <2>2. CASE ParseContentLine(w)
    <3>1. Complete(AfterLine(u))
      <4>1. Goto(w, IF Complete(AfterLine(u)) THEN "request" ELSE "more")
        BY <2>2 DEF ParseContentLine
      <4>2. QED
        BY <1>1, <4>1 DEF Goto, At
    <3>2. Ends(u) # {}
      BY <2>2 DEF ParseContentLine, LineOk
    <3>3. LineEnd(u) \in u.checked + 1..Len(u.buf)
      BY <1>8, <3>2, LineEndFacts
    <3>4. AfterLine(u).buf = u.buf /\ AfterLine(u).checked = LineEnd(u) /\ AfterLine(u).len = BodyLen
      BY <1>8, <1>10, <3>2, AfterLineSound
    <3>5. QED
      BY <1>10, <3>1, <3>3, <3>4 DEF Complete
  <2>3. QED
    BY <1>7, <2>1, <2>2
<1>12. i \in DOMAIN u.buf /\ Len(u.buf) >= i + BodyLen
  BY <1>9, <1>10, <1>11
<1>13. QED
  BY <1>9, <1>12

\* A request that announced a body gets to do_request only when all of the body
\* is in the buffer behind an empty line: parse_content, parse_line.
THEOREM BodyCompleteHolds == Spec => BodyComplete
<1>1. Typed /\ [Next]_vars =>
        [\A w \in Worker :
           At(w, "request")' /\ ~ At(w, "request") =>
             LET u == Mine(w) IN
             \E i \in DOMAIN u.buf : u.buf[i].k = "blank" /\ Len(u.buf) >= i + BodyLen]_vars
  BY WholeBody
<1>2. QED
  BY <1>1, AlwaysTyped, PTL DEF Spec, BodyComplete

-----------------------------------------------------------------------------
(* A client connects once, and has one descriptor.                         *)

\* A client has one place in the backlog or one descriptor, and no client that
\* waits for accept has been refused.
Once ==
  /\ \A c \in Client : todo[c] = None => ~ Waits(c) /\ ~ Accepted(c) /\ c \notin refused
  /\ \A c \in Client : Waits(c) => ~ Accepted(c) /\ c \notin refused
  /\ \A i, j \in DOMAIN backlog : backlog[i] = backlog[j] => i = j
  /\ \A f, g \in Fd : conn[f] = conn[g] /\ conn[f] # None => f = g

\* Nobody connects and no connection is accepted.
LEMMA OnceStays ==
  ASSUME Typed, Once, UNCHANGED <<todo, backlog>>, \A f \in Fd : conn'[f] \in {conn[f], None},
         \A c \in Client : c \in refused' => c \in refused \/ Accepted(c)
  PROVE  Once'
<1>1. \A c \in Client : (Waits(c)' <=> Waits(c)) /\ (Accepted(c)' => Accepted(c))
  BY WebAssumption DEF Waits, Accepted
<1>2. \A f, g \in Fd : conn'[f] = conn'[g] /\ conn'[f] # None => f = g
  BY DEF Once
<1>3. \A c \in Client : Accepted(c) => ~ Waits(c) /\ todo[c] # None
  BY DEF Once
<1>4. QED
  BY <1>1, <1>2, <1>3 DEF Once

\* The first connection of the backlog.
LEMMA FirstWaits ==
  ASSUME Typed, Once, backlog # <<>>
  PROVE  /\ Head(backlog) \in Client /\ Waits(Head(backlog))
         /\ \A i, j \in DOMAIN Tail(backlog) : Tail(backlog)[i] = Tail(backlog)[j] => i = j
         /\ \A i \in DOMAIN Tail(backlog) : Tail(backlog)[i] # Head(backlog)
         /\ \A i \in DOMAIN Tail(backlog) : \E j \in DOMAIN backlog : Tail(backlog)[i] = backlog[j]
<1>1. backlog \in Seq(Client) /\ Len(backlog) \in Nat \ {0} /\ DOMAIN backlog = 1..Len(backlog)
  BY EmptySeq, LenProperties DEF Typed, TypeOK
<1>2. /\ Head(backlog) \in Client /\ Tail(backlog) \in Seq(Client)
      /\ Len(Tail(backlog)) = Len(backlog) - 1
      /\ \A i \in 1..Len(Tail(backlog)) : Tail(backlog)[i] = backlog[i + 1]
  BY <1>1, HeadTailProperties
<1>3. Head(backlog) = backlog[1] /\ DOMAIN Tail(backlog) = 1..Len(backlog) - 1
  BY <1>1, <1>2, LenProperties
<1>4. ASSUME NEW i \in DOMAIN Tail(backlog)
      PROVE  i + 1 \in DOMAIN backlog /\ Tail(backlog)[i] = backlog[i + 1] /\ i + 1 # 1
  BY <1>1, <1>2, <1>3, <1>4
<1>5. Waits(Head(backlog))
  BY <1>1, <1>3 DEF Waits
<1>6. \A i \in DOMAIN Tail(backlog) : Tail(backlog)[i] # Head(backlog)
  BY <1>1, <1>3, <1>4 DEF Once
<1>7. ASSUME NEW i \in DOMAIN Tail(backlog), NEW j \in DOMAIN Tail(backlog),
             Tail(backlog)[i] = Tail(backlog)[j]
      PROVE  i = j
  <2>1. i + 1 = j + 1
    BY <1>4, <1>7 DEF Once
  <2>2. QED
    BY <1>3, <2>1
<1>8. QED
  BY <1>2, <1>4, <1>5, <1>6, <1>7

\* accept finds a connection.
LEMMA AcceptFinds ==
  ASSUME Typed, Handle("accept", None)
  PROVE  backlog # <<>>
<1>1. [ev |-> "accept", fd |-> None] \in batch
  BY DEF Handle
<1>2. backlog \in Seq(Client) /\ Len(backlog) \in Nat
  BY LenProperties DEF Typed, TypeOK
<1>3. Len(backlog) >= 1
  BY <1>1, <1>2 DEF Typed, Expected
<1>4. QED
  BY <1>2, <1>3, EmptySeq

\* A connection leaves the backlog, for a descriptor or for good.
LEMMA OnceListen ==
  ASSUME Typed, Once, AcceptBusy \/ \E f \in Fd : Accept(f)
  PROVE  Once'
<1> DEFINE c == Head(backlog)
<1>1. /\ backlog # <<>> /\ backlog' = Tail(backlog) /\ UNCHANGED <<todo, refused>>
  BY AcceptFinds DEF Accept, AcceptBusy, ghosts
<1>2. /\ c \in Client /\ Waits(c)
      /\ \A i, j \in DOMAIN backlog' : backlog'[i] = backlog'[j] => i = j
      /\ \A i \in DOMAIN backlog' : backlog'[i] # c
      /\ \A i \in DOMAIN backlog' : \E j \in DOMAIN backlog : backlog'[i] = backlog[j]
  BY <1>1, FirstWaits
<1> HIDE DEF c
<1>3. \A x \in Client : Waits(x)' => Waits(x) /\ x # c
  BY <1>2 DEF Waits
<1>4. conn \in [Fd -> Client \cup {None}] /\ ~ Accepted(c) /\ todo[c] # None /\ c # None
  BY <1>2, WebAssumption DEF Once, Typed, TypeOK
<1>5. CASE AcceptBusy
  <2>1. conn' = conn
    BY <1>5 DEF AcceptBusy
  <2>2. \A x \in Client : Accepted(x)' <=> Accepted(x)
    BY <2>1 DEF Accepted
  <2>3. QED
    BY <1>1, <1>2, <1>3, <2>1, <2>2 DEF Once
<1>6. CASE \E f \in Fd : Accept(f)
  <2>1. PICK f \in Fd : conn' = [conn EXCEPT ![f] = c]
    BY <1>6 DEF Accept, c
  <2>2. \A x \in Client : Accepted(x)' => Accepted(x) \/ x = c
    BY <1>4, <2>1 DEF Accepted
  <2>3. \A g, h \in Fd : conn'[g] = conn'[h] /\ conn'[g] # None => g = h
    <3>1. ASSUME NEW g \in Fd, NEW h \in Fd, conn'[g] = conn'[h], conn'[g] # None
          PROVE  g = h
      <4>1. CASE g # f /\ h # f
        BY <1>4, <2>1, <3>1, <4>1 DEF Once
      <4>2. CASE g = f \/ h = f
        BY <1>4, <2>1, <3>1, <4>2 DEF Accepted
      <4>3. QED
        BY <4>1, <4>2
    <3>2. QED
      BY <3>1
  <2>4. QED
    BY <1>1, <1>2, <1>3, <1>4, <2>2, <2>3 DEF Once
<1>7. QED
  BY <1>5, <1>6

\* A client connects, or sends or hangs up.
LEMMA OnceWorld ==
  ASSUME Typed, Once, NEW c \in Client, Connect(c) \/ Send(c) \/ HangUp(c)
  PROVE  Once'
<1>1. todo \in [Client -> {None} \cup Seq(Seq(Kinds))] /\ backlog \in Seq(Client)
  BY DEF Typed, TypeOK
<1>2. /\ UNCHANGED <<conn, refused>>
      /\ \A x \in Client : Accepted(x)' <=> Accepted(x)
  BY DEF Connect, Send, HangUp, ghosts, Accepted
<1>3. CASE Connect(c)
  <2>1. PICK s \in Stream[c] : todo' = [todo EXCEPT ![c] = s]
    BY <1>3 DEF Connect
  <2>2. todo[c] = None /\ s # None /\ backlog' = Append(backlog, c)
    BY <1>3, <2>1, WebAssumption DEF Connect
  <2>3. /\ DOMAIN backlog' = 1..Len(backlog) + 1 /\ DOMAIN backlog = 1..Len(backlog)
        /\ Len(backlog) \in Nat
        /\ \A i \in 1..Len(backlog) : backlog'[i] = backlog[i]
        /\ backlog'[Len(backlog) + 1] = c
    BY <1>1, <2>2, AppendProperties, LenProperties
  <2>4. ~ Waits(c) /\ ~ Accepted(c) /\ c \notin refused
    BY <2>2 DEF Once
  <2>5. \A x \in Client : Waits(x)' => Waits(x) \/ x = c
    BY <2>3 DEF Waits
  <2>6. \A x \in Client : todo'[x] = None => todo[x] = None /\ x # c
    BY <1>1, <2>1, <2>2
  <2>7. ASSUME NEW i \in DOMAIN backlog', NEW j \in DOMAIN backlog', backlog'[i] = backlog'[j]
        PROVE  i = j
    <3>1. CASE i \in DOMAIN backlog /\ j \in DOMAIN backlog
      BY <2>3, <2>7, <3>1 DEF Once
    <3>2. CASE i \notin DOMAIN backlog \/ j \notin DOMAIN backlog
      BY <2>3, <2>4, <2>7, <3>2 DEF Waits
    <3>3. QED
      BY <3>1, <3>2
  <2>8. QED
    BY <1>2, <2>4, <2>5, <2>6, <2>7 DEF Once
<1>4. CASE Send(c) \/ HangUp(c)
  <2>1. backlog' = backlog /\ \A x \in Client : Waits(x)' <=> Waits(x)
    BY <1>4 DEF Send, HangUp, Waits
  <2>2. \A x \in Client : todo'[x] = None => todo[x] = None
    <3>1. CASE Send(c)
      <4>1. todo[c] \in Seq(Seq(Kinds)) /\ todo[c] # <<>>
        BY <1>1, <3>1 DEF Send, Typed, TypeOK
      <4>2. Tail(todo[c]) # None
        BY <4>1, HeadTailProperties, WebAssumption
      <4>3. QED
        BY <1>1, <3>1, <4>2 DEF Send
    <3>2. CASE HangUp(c)
      BY <3>2 DEF HangUp
    <3>3. QED
      BY <1>4, <3>1, <3>2
  <2>3. QED
    BY <1>2, <2>1, <2>2 DEF Once
<1>5. QED
  BY <1>3, <1>4

\* close_conn of main gives at most the descriptor back.
LEMMA ClosingFrees ==
  ASSUME Typed, NEW f \in Fd, NEW v, CloseConn(f, v)
  PROVE  \A g \in Fd : conn'[g] \in {conn[g], None}
BY DEF CloseConn, Typed, TypeOK

\* Every step of main on a descriptor keeps it.
LEMMA OnceEvents ==
  ASSUME Typed, Once, NEW f \in Fd,
         \/ CloseHungUp(f) \/ Read(f) \/ Write(f) \/ WriteNothing(f) \/ WriteAgain(f)
         \/ WriteFails(f)
  PROVE  Once'
<1>1. UNCHANGED <<todo, backlog>>
  BY DEF CloseHungUp, Read, Write, WriteNothing, WriteAgain, WriteFails
<1>2. \A g \in Fd : conn'[g] \in {conn[g], None}
  <2>1. \/ conn' = conn
        \/ \E v : CloseConn(f, v)
    BY DEF CloseHungUp, Read, Write, WriteNothing, WriteAgain, WriteFails
  <2>2. QED
    BY <2>1, ClosingFrees
<1>3. \A c \in Client : c \in refused' => c \in refused \/ Accepted(c)
  <2>1. refused' = refused \/ (Alive(f) /\ refused' = refused \cup {conn[f]})
    BY SMTT(30) DEF CloseHungUp, Read, Write, WriteNothing, WriteAgain, WriteFails, AppendUser, ghosts
  <2>2. QED
    BY <2>1 DEF Accepted
<1>4. QED
  BY <1>1, <1>2, <1>3, OnceStays

\* Every client keeps its one place.
LEMMA OnceKept ==
  ASSUME Typed, Once, [Next]_vars
  PROVE  Once'
<1>1. ASSUME NEW c \in Client, Connect(c) \/ Send(c) \/ HangUp(c)
      PROVE  Once'
  BY <1>1, OnceWorld
<1>2. CASE Poll \/ AcceptFails \/ UNCHANGED vars
  <2>1. UNCHANGED <<todo, backlog, conn, refused>>
    BY <1>2 DEF Poll, AcceptFails, vars, kernel, ghosts
  <2>2. QED
    BY <2>1, OnceStays
<1>3. CASE AcceptBusy \/ \E f \in Fd : Accept(f)
  BY <1>3, OnceListen
<1>4. ASSUME NEW f \in Fd,
             \/ CloseHungUp(f) \/ Read(f) \/ Write(f) \/ WriteNothing(f) \/ WriteAgain(f)
             \/ WriteFails(f)
      PROVE  Once'
  BY <1>4, OnceEvents
<1>5. ASSUME NEW w \in Worker, Process(w)
      PROVE  Once'
  <2>1. UNCHANGED <<todo, backlog, refused>>
    BY <1>5 DEF Process, Take, NoLine, ParseRequestLine, ParseHeaders, ParseContent,
       ParseContentLine, Rearm, Answer, WorkerClose, WorkerForget, WorkerDiscount, kernel, ghosts
  <2>2. conn' = conn \/ conn' = [conn EXCEPT ![work[w].fd] = None]
    BY <1>5 DEF Process, Take, NoLine, ParseRequestLine, ParseHeaders, ParseContent,
       ParseContentLine, Rearm, Answer, WorkerClose, WorkerForget, WorkerDiscount, kernel
  <2>3. \A f \in Fd : conn'[f] \in {conn[f], None}
    BY <2>2 DEF Typed, TypeOK
  <2>4. QED
    BY <2>1, <2>3, OnceStays
<1>6. QED
  BY <1>1, <1>2, <1>3, <1>4, <1>5 DEF Next, Main, World

\* A client has one place in every run.
LEMMA AlwaysOnce == Spec => []Once
<1>1. Init => Once
  <2> SUFFICES ASSUME Init PROVE Once
    OBVIOUS
  <2>1. DOMAIN backlog = {} /\ \A f \in Fd : conn[f] = None
    BY EmptySeq DEF Init
  <2>2. QED
    BY <2>1, WebAssumption DEF Init, Once, Waits, Accepted
<1>2. QED
  BY <1>1, OnceKept, AlwaysTyped, PTL DEF Spec

-----------------------------------------------------------------------------
(* Whose hand a connection is in, as long as no worker closes one.         *)

OnEpoll(f) == armed[f] # "off"
WithMain(f) == \E e \in batch : e.fd = f
Listed(f) == \E i \in DOMAIN queue : queue[i] = f
AtWork(f) == \E w \in Worker : work[w].fd = f

Held(f) == OnEpoll(f) \/ WithMain(f) \/ Listed(f) \/ AtWork(f)

\* At most one hand, and of several events, places in the list or workers one.
InOneHand(f) ==
  /\ OnEpoll(f) => ~ WithMain(f) /\ ~ Listed(f) /\ ~ AtWork(f)
  /\ WithMain(f) => ~ Listed(f) /\ ~ AtWork(f)
  /\ Listed(f) => ~ AtWork(f)
  /\ \A d, e \in batch : d.fd = f /\ e.fd = f => d = e
  /\ \A i, j \in DOMAIN queue : queue[i] = f /\ queue[j] = f => i = j
  /\ \A w, x \in Worker : work[w].fd = f /\ work[x].fd = f => w = x

\* What is in a hand is what is open and was not refused, and sockfd_ tells it.
Tended(f) ==
  /\ Held(f) <=> conn[f] # None /\ conn[f] \notin refused
  /\ user[f].open <=> conn[f] # None

\* No worker stands in close_conn, and a worker without work holds nothing.
NoneCloses ==
  \A w \in Worker : /\ work[w].at \notin {"close", "forget", "discount"}
                    /\ work[w].at = "idle" => work[w].fd = None

HandInv == ~ crossed => NoneCloses /\ \A f \in Fd : InOneHand(f) /\ Tended(f)

\* A step that gives no descriptor into another hand.
LEMMA HandsStay ==
  ASSUME HandInv, ~ crossed,
         armed' = armed, queue' = queue, conn' = conn, refused' = refused,
         batch' \subseteq batch, \A e \in batch : e.fd # None => e \in batch',
         \A f \in Fd : user'[f].open = user[f].open,
         \A w \in Worker : /\ work'[w].fd = work[w].fd
                           /\ work'[w].at \notin {"close", "forget", "discount"}
                           /\ work'[w].at = "idle" => work[w].at = "idle"
  PROVE  HandInv'
<1>1. NoneCloses'
  BY DEF HandInv, NoneCloses
<1>2. ASSUME NEW f \in Fd
      PROVE  InOneHand(f)' /\ Tended(f)'
  <2>1. InOneHand(f) /\ Tended(f) /\ user'[f].open = user[f].open /\ f # None
    BY WebAssumption DEF HandInv
  <2>2. /\ OnEpoll(f)' <=> OnEpoll(f)
        /\ WithMain(f)' <=> WithMain(f)
        /\ Listed(f)' <=> Listed(f)
        /\ AtWork(f)' <=> AtWork(f)
    BY <2>1 DEF OnEpoll, WithMain, Listed, AtWork
  <2>3. InOneHand(f)'
    BY <2>1, <2>2 DEF InOneHand
  <2>4. Tended(f)'
    BY <2>1, <2>2 DEF Tended, Held
  <2>5. QED
    BY <2>3, <2>4
<1>3. QED
  BY <1>1, <1>2 DEF HandInv

\* Main has an event of descriptor f: nobody else has the descriptor.
LEMMA MainHas ==
  ASSUME HandInv, ~ crossed, NEW f \in Fd, NEW ev, Handle(ev, f)
  PROVE  /\ conn[f] # None /\ user[f].open /\ Alive(f) /\ armed[f] = "off"
         /\ conn[f] \notin refused
         /\ \A i \in DOMAIN queue : queue[i] # f
         /\ \A w \in Worker : work[w].fd # f
         /\ \A e \in batch' : e.fd # f
         /\ \A e \in batch : e.fd # f => e \in batch'
         /\ batch' \subseteq batch
<1> DEFINE d == [ev |-> ev, fd |-> f]
<1>1. d \in batch /\ batch' = batch \ {d} /\ d.fd = f
  BY DEF Handle
<1>2. WithMain(f) /\ InOneHand(f) /\ Tended(f)
  BY <1>1 DEF WithMain, HandInv
<1>3. /\ conn[f] # None /\ user[f].open /\ Alive(f) /\ armed[f] = "off"
      /\ conn[f] \notin refused /\ ~ Listed(f) /\ ~ AtWork(f)
  BY <1>2 DEF InOneHand, Tended, Held, OnEpoll, Alive
<1>4. \A e \in batch : e.fd = f => e = d
  BY <1>1, <1>2 DEF InOneHand
<1> HIDE DEF d
<1>5. QED
  BY <1>1, <1>3, <1>4 DEF Listed, AtWork

\* The descriptors that main does not touch stay in their hands.
LEMMA OthersKept ==
  ASSUME HandInv, ~ crossed, NEW f \in Fd, NEW g \in Fd, g # f,
         armed'[g] = armed[g], conn'[g] = conn[g], user'[g].open = user[g].open,
         batch' \subseteq batch, \A e \in batch : e.fd # f => e \in batch',
         queue' = queue \/ (queue \in Seq(Fd) /\ queue' = Append(queue, f)),
         work' = work, conn[g] \in refused' <=> conn[g] \in refused
  PROVE  InOneHand(g)' /\ Tended(g)'
<1>1. InOneHand(g) /\ Tended(g)
  BY DEF HandInv
<1>2. /\ OnEpoll(g)' <=> OnEpoll(g)
      /\ WithMain(g)' <=> WithMain(g)
      /\ AtWork(g)' <=> AtWork(g)
  BY DEF OnEpoll, WithMain, AtWork
<1>3. \A i : i \in DOMAIN queue' /\ queue'[i] = g <=> i \in DOMAIN queue /\ queue[i] = g
  <2>1. CASE queue' = queue
    BY <2>1
  <2>2. CASE queue \in Seq(Fd) /\ queue' = Append(queue, f)
    <3>1. /\ DOMAIN queue = 1..Len(queue) /\ Len(queue) \in Nat
          /\ DOMAIN queue' = 1..Len(queue) + 1
          /\ \A i \in 1..Len(queue) : queue'[i] = queue[i]
          /\ queue'[Len(queue) + 1] = f
      BY <2>2, AppendProperties, LenProperties
    <3>2. QED
      BY <3>1
  <2>3. QED
    BY <2>1, <2>2
<1>4. Listed(g)' <=> Listed(g)
  BY <1>3 DEF Listed
<1>5. InOneHand(g)'
  BY <1>1, <1>2, <1>3, <1>4 DEF InOneHand
<1>6. Tended(g)'
  BY <1>1, <1>2, <1>4 DEF Tended, Held
<1>7. QED
  BY <1>5, <1>6

\* Main closes the connection of its event.
LEMMA MainCloses ==
  ASSUME Typed, HandInv, ~ crossed, NEW f \in Fd, NEW ev, Handle(ev, f),
         NEW v, v \in HttpConn, v.open, CloseConn(f, v), UNCHANGED <<queue, work, refused>>
  PROVE  HandInv'
<1>1. /\ conn[f] # None /\ armed[f] = "off"
      /\ \A i \in DOMAIN queue : queue[i] # f
      /\ \A w \in Worker : work[w].fd # f
      /\ \A e \in batch' : e.fd # f
      /\ \A e \in batch : e.fd # f => e \in batch'
      /\ batch' \subseteq batch
  BY MainHas
<1> DEFINE x == [v EXCEPT !.open = FALSE]
<1>2. /\ conn' = [conn EXCEPT ![f] = None] /\ armed' = [armed EXCEPT ![f] = "off"]
      /\ user' = [user EXCEPT ![f] = x]
  BY DEF CloseConn
<1>3. ~ x.open
  BY DEF HttpConn
<1> HIDE DEF x
<1>4. conn \in [Fd -> Client \cup {None}] /\ armed \in [Fd -> {"in", "out", "off"}]
      /\ user \in [Fd -> HttpConn]
  BY DEF Typed, TypeOK
<1>5. conn'[f] = None /\ armed'[f] = "off" /\ ~ user'[f].open
  BY <1>2, <1>3, <1>4
<1>6. ~ OnEpoll(f)' /\ ~ WithMain(f)' /\ ~ Listed(f)' /\ ~ AtWork(f)'
  BY <1>1, <1>5 DEF OnEpoll, WithMain, Listed, AtWork
<1>7. InOneHand(f)' /\ Tended(f)'
  <2>1. InOneHand(f)'
    BY <1>1, <1>6 DEF InOneHand
  <2>2. Tended(f)'
    BY <1>5, <1>6 DEF Tended, Held
  <2>3. QED
    BY <2>1, <2>2
<1>8. ASSUME NEW g \in Fd, g # f
      PROVE  InOneHand(g)' /\ Tended(g)'
  <2>1. armed'[g] = armed[g] /\ conn'[g] = conn[g] /\ user'[g].open = user[g].open
    BY <1>2, <1>4, <1>8
  <2>2. QED
    BY <1>1, <1>8, <2>1, OthersKept
<1>9. NoneCloses'
  BY DEF HandInv, NoneCloses
<1>10. QED
  BY <1>7, <1>8, <1>9 DEF HandInv

\* Main gives the connection of its event back to epoll, on to the list, or
\* leaves it where it is when Append refuses it.
LEMMA MainKeeps ==
  ASSUME Typed, Once, HandInv, ~ crossed, NEW f \in Fd, NEW ev, Handle(ev, f),
         NEW v, v.open, user' = [user EXCEPT ![f] = v],
         \/ (\E a \in {"in", "out"} : armed' = [armed EXCEPT ![f] = a])
              /\ UNCHANGED <<queue, refused>>
         \/ AppendUser(f) /\ UNCHANGED armed,
         UNCHANGED <<conn, work>>
  PROVE  HandInv'
<1>1. /\ conn[f] # None /\ armed[f] = "off" /\ conn[f] \notin refused
      /\ \A i \in DOMAIN queue : queue[i] # f
      /\ \A w \in Worker : work[w].fd # f
      /\ \A e \in batch' : e.fd # f
      /\ \A e \in batch : e.fd # f => e \in batch'
      /\ batch' \subseteq batch
  BY MainHas
<1>2. /\ armed \in [Fd -> {"in", "out", "off"}] /\ user \in [Fd -> HttpConn] /\ queue \in Seq(Fd)
  BY DEF Typed, TypeOK
<1>3. user'[f].open
  BY <1>2
<1>4. ~ WithMain(f)' /\ ~ AtWork(f)'
  BY <1>1 DEF WithMain, AtWork
<1>5. \/ OnEpoll(f)' /\ ~ Listed(f)' /\ refused' = refused
      \/ ~ OnEpoll(f)' /\ Listed(f)' /\ refused' = refused
      \/ ~ OnEpoll(f)' /\ ~ Listed(f)' /\ conn[f] \in refused'
  BY <1>1, <1>2 DEF OnEpoll, Listed, AppendUser
<1>6. \A i, j \in DOMAIN queue' : queue'[i] = f /\ queue'[j] = f => i = j
  BY <1>1, <1>2 DEF AppendUser
<1>7. InOneHand(f)' /\ Tended(f)'
  <2>1. InOneHand(f)'
    BY <1>1, <1>4, <1>5, <1>6 DEF InOneHand
  <2>2. Tended(f)'
    BY <1>1, <1>3, <1>4, <1>5 DEF Tended, Held
  <2>3. QED
    BY <2>1, <2>2
<1>8. ASSUME NEW g \in Fd, g # f
      PROVE  InOneHand(g)' /\ Tended(g)'
  <2>1. armed'[g] = armed[g] /\ conn'[g] = conn[g] /\ user'[g].open = user[g].open
    BY <1>2, <1>8
  <2>2. queue' = queue \/ (queue \in Seq(Fd) /\ queue' = Append(queue, f))
    BY <1>2 DEF AppendUser
  <2>3. conn[g] \in refused' <=> conn[g] \in refused
    BY <1>1, <1>8 DEF AppendUser, Once
  <2>4. QED
    BY <1>1, <1>8, <2>1, <2>2, <2>3, OthersKept
<1>9. NoneCloses'
  BY DEF HandInv, NoneCloses
<1>10. QED
  BY <1>7, <1>8, <1>9 DEF HandInv

\* epoll_wait: what epoll reports goes from epoll to main.
LEMMA PollHands ==
  ASSUME Typed, HandInv, ~ crossed, Poll
  PROVE  HandInv'
<1>1. /\ batch = {} /\ armed \in [Fd -> {"in", "out", "off"}]
      /\ batch' = {[ev |-> Event(f), fd |-> f] : f \in Ready}
                    \cup (IF edge THEN {[ev |-> "accept", fd |-> None]} ELSE {})
      /\ armed' = [f \in Fd |-> Disarm(f)]
      /\ UNCHANGED <<conn, user, queue, work, refused>>
  BY DEF Poll, Typed, TypeOK, objects, ghosts
<1>2. \A f \in Fd : f # None
  BY WebAssumption
<1>3. \A e \in batch' : e.fd \in Fd => e.fd \in Ready /\ e = [ev |-> Event(e.fd), fd |-> e.fd]
  BY <1>1, <1>2
<1>4. \A f \in Ready : [ev |-> Event(f), fd |-> f] \in batch'
  BY <1>1
<1>5. ASSUME NEW f \in Fd
      PROVE  InOneHand(f)' /\ Tended(f)'
  <2>1. InOneHand(f) /\ Tended(f) /\ ~ WithMain(f)
    BY <1>1 DEF HandInv, WithMain
  <2>2. /\ Listed(f)' <=> Listed(f)
        /\ AtWork(f)' <=> AtWork(f)
    BY <1>1 DEF Listed, AtWork
  <2>3. \A d, e \in batch' : d.fd = f /\ e.fd = f => d = e
    BY <1>3
  <2>4. CASE f \in Ready
    <3>1. OnEpoll(f)
      BY <2>4, ReportedOpen DEF OnEpoll
    <3>2. ~ OnEpoll(f)'
      BY <1>1, <2>4 DEF OnEpoll, Disarm
    <3>3. WithMain(f)'
      BY <1>4, <2>4 DEF WithMain
    <3>4. QED
      BY <1>1, <2>1, <2>2, <2>3, <3>1, <3>2, <3>3 DEF InOneHand, Tended, Held
  <2>5. CASE f \notin Ready
    <3>1. OnEpoll(f)' <=> OnEpoll(f)
      BY <1>1, <2>5 DEF OnEpoll, Disarm
    <3>2. ~ WithMain(f)'
      BY <1>3, <2>5 DEF WithMain
    <3>3. QED
      BY <1>1, <2>1, <2>2, <2>3, <3>1, <3>2 DEF InOneHand, Tended, Held
  <2>6. QED
    BY <2>4, <2>5
<1>6. NoneCloses'
  BY <1>1 DEF HandInv, NoneCloses
<1>7. QED
  BY <1>5, <1>6 DEF HandInv

\* accept: a connection on a free descriptor goes to epoll.
LEMMA AcceptHands ==
  ASSUME Typed, Once, HandInv, ~ crossed, NEW f \in Fd, Accept(f)
  PROVE  HandInv'
<1> DEFINE c == Head(backlog)
<1>1. /\ conn[f] = None /\ conn' = [conn EXCEPT ![f] = c] /\ armed' = [armed EXCEPT ![f] = "in"]
      /\ user' = [user EXCEPT ![f] = InitUser(user[f])]
      /\ UNCHANGED <<queue, work, refused>>
      /\ batch' = batch \ {[ev |-> "accept", fd |-> None]}
      /\ [ev |-> "accept", fd |-> None] \in batch
  BY DEF Accept, Handle
<1>2. /\ conn \in [Fd -> Client \cup {None}] /\ armed \in [Fd -> {"in", "out", "off"}]
      /\ user \in [Fd -> HttpConn]
  BY DEF Typed, TypeOK
<1>3. c # None /\ c \notin refused
  <2>1. backlog # <<>>
    BY AcceptFinds DEF Accept
  <2>2. c \in Client /\ Waits(c)
    BY <2>1, FirstWaits
  <2>3. QED
    BY <2>2, WebAssumption DEF Once
<1>4. InitUser(user[f]).open
  BY <1>2 DEF InitUser, HttpConn
<1> HIDE DEF c
<1>5. conn'[f] # None /\ conn'[f] \notin refused' /\ armed'[f] = "in" /\ user'[f].open
  BY <1>1, <1>2, <1>3, <1>4
<1>6. ~ Held(f)
  BY <1>1 DEF HandInv, Tended
<1>7. OnEpoll(f)' /\ ~ WithMain(f)' /\ ~ Listed(f)' /\ ~ AtWork(f)'
  BY <1>1, <1>5, <1>6 DEF Held, OnEpoll, WithMain, Listed, AtWork
<1>8. InOneHand(f)' /\ Tended(f)'
  <2>1. InOneHand(f)'
    BY <1>7 DEF InOneHand, WithMain, Listed, AtWork
  <2>2. Tended(f)'
    BY <1>5, <1>7 DEF Tended, Held
  <2>3. QED
    BY <2>1, <2>2
<1>9. batch' \subseteq batch /\ \A g \in Fd : \A e \in batch : e.fd = g => e \in batch'
  BY <1>1, WebAssumption
<1>10. ASSUME NEW g \in Fd, g # f
       PROVE  InOneHand(g)' /\ Tended(g)'
  <2>1. armed'[g] = armed[g] /\ conn'[g] = conn[g] /\ user'[g].open = user[g].open
    BY <1>1, <1>2, <1>10
  <2>2. InOneHand(g) /\ Tended(g)
    BY DEF HandInv
  <2>3. OnEpoll(g)' <=> OnEpoll(g)
    BY <2>1 DEF OnEpoll
  <2>4. WithMain(g)' <=> WithMain(g)
    BY <1>9 DEF WithMain
  <2>5. Listed(g)' <=> Listed(g)
    BY <1>1 DEF Listed
  <2>6. AtWork(g)' <=> AtWork(g)
    BY <1>1 DEF AtWork
  <2>7. InOneHand(g)'
    BY <1>1, <1>9, <2>2, <2>3, <2>4, <2>5, <2>6 DEF InOneHand
  <2>8. Tended(g)'
    BY <1>1, <2>1, <2>2, <2>3, <2>4, <2>5, <2>6 DEF Tended, Held
  <2>9. QED
    BY <2>7, <2>8
<1>11. NoneCloses'
  BY <1>1 DEF HandInv, NoneCloses
<1>12. QED
  BY <1>8, <1>10, <1>11 DEF HandInv

\* A worker takes the first descriptor of the list.
LEMMA TakeHands ==
  ASSUME Typed, HandInv, ~ crossed, NEW w \in Worker, Take(w)
  PROVE  HandInv'
<1> DEFINE f == Head(queue)
<1>1. /\ work[w].at = "idle" /\ queue # <<>> /\ queue' = Tail(queue)
      /\ work' = [work EXCEPT ![w] = [at |-> "turn", fd |-> f, tmp |-> 0]]
      /\ UNCHANGED <<armed, batch, conn, user, count, refused>>
  BY DEF Take, At, kernel, objects, ghosts
<1>2. queue \in Seq(Fd) /\ work \in [Worker -> [at : Places, fd : Fd \cup {None}, tmp : Int]]
  BY DEF Typed, TypeOK
<1>3. /\ Len(queue) \in Nat \ {0} /\ DOMAIN queue = 1..Len(queue) /\ f = queue[1] /\ f \in Fd
      /\ queue' \in Seq(Fd) /\ Len(queue') = Len(queue) - 1
      /\ \A i \in 1..Len(queue) - 1 : queue'[i] = queue[i + 1]
      /\ DOMAIN queue' = 1..Len(queue) - 1
  <2>1. Len(queue) \in Nat \ {0} /\ DOMAIN queue = 1..Len(queue)
    BY <1>1, <1>2, EmptySeq, LenProperties
  <2>2. f \in Fd /\ queue' \in Seq(Fd) /\ Len(queue') = Len(queue) - 1
        /\ \A i \in 1..Len(queue') : queue'[i] = queue[i + 1]
    BY <1>1, <1>2, HeadTailProperties
  <2>3. f = queue[1]
    BY <1>1, <1>2
  <2>4. QED
    BY <2>1, <2>2, <2>3, LenProperties
<1>4. work[w].fd = None /\ work'[w].fd = f /\ work'[w].at = "turn"
      /\ \A x \in Worker : x # w => work'[x] = work[x]
  BY <1>1, <1>2 DEF HandInv, NoneCloses
<1> HIDE DEF f
<1>5. ASSUME NEW g \in Fd
      PROVE  InOneHand(g)' /\ Tended(g)'
  <2>1. InOneHand(g) /\ Tended(g)
    BY DEF HandInv
  <2>2. /\ OnEpoll(g)' <=> OnEpoll(g)
        /\ WithMain(g)' <=> WithMain(g)
    BY <1>1 DEF OnEpoll, WithMain
  <2>3. \A i, j \in DOMAIN queue' : queue'[i] = g /\ queue'[j] = g => i = j
    <3>1. SUFFICES ASSUME NEW i \in DOMAIN queue', NEW j \in DOMAIN queue',
                          queue'[i] = g, queue'[j] = g
                   PROVE  i = j
      OBVIOUS
    <3>2. i + 1 \in DOMAIN queue /\ j + 1 \in DOMAIN queue /\ queue[i + 1] = g /\ queue[j + 1] = g
      BY <1>3, <3>1
    <3>3. i + 1 = j + 1
      BY <2>1, <3>2 DEF InOneHand
    <3>4. QED
      BY <1>3, <3>3
  <2>4. CASE g = f
    <3>1. Listed(g) /\ 1 \in DOMAIN queue /\ queue[1] = g
      BY <1>3, <2>4 DEF Listed
    <3>2. \A i \in DOMAIN queue' : queue'[i] # g
      <4>1. SUFFICES ASSUME NEW i \in DOMAIN queue', queue'[i] = g
                     PROVE  FALSE
        OBVIOUS
      <4>2. i + 1 \in DOMAIN queue /\ queue[i + 1] = g /\ i + 1 # 1
        BY <1>3, <4>1
      <4>3. QED
        BY <2>1, <3>1, <4>2 DEF InOneHand
    <3>3. ~ Listed(g)'
      BY <3>2 DEF Listed
    <3>4. ~ AtWork(g) /\ ~ OnEpoll(g) /\ ~ WithMain(g)
      BY <2>1, <3>1 DEF InOneHand
    <3>5. AtWork(g)'
      BY <1>4, <2>4 DEF AtWork
    <3>6. \A x, y \in Worker : work'[x].fd = g /\ work'[y].fd = g => x = y
      BY <1>4, <3>4 DEF AtWork
    <3>7. InOneHand(g)'
      BY <1>1, <2>1, <2>2, <2>3, <3>3, <3>4, <3>6 DEF InOneHand
    <3>8. Tended(g)'
      BY <1>1, <2>1, <3>1, <3>5 DEF Tended, Held
    <3>9. QED
      BY <3>7, <3>8
  <2>5. CASE g # f
    <3>1. Listed(g)' <=> Listed(g)
      <4>1. ASSUME NEW i \in DOMAIN queue, queue[i] = g
            PROVE  Listed(g)'
        <5>1. i # 1 /\ i - 1 \in 1..Len(queue) - 1
          BY <1>3, <2>5, <4>1
        <5>2. queue'[i - 1] = g /\ i - 1 \in DOMAIN queue'
          BY <1>3, <4>1, <5>1
        <5>3. QED
          BY <5>2 DEF Listed
      <4>2. ASSUME NEW i \in DOMAIN queue', queue'[i] = g
            PROVE  Listed(g)
        <5>1. i + 1 \in DOMAIN queue /\ queue[i + 1] = g
          BY <1>3, <4>2
        <5>2. QED
          BY <5>1 DEF Listed
      <4>3. QED
        BY <4>1, <4>2 DEF Listed
    <3>2. g # None
      BY WebAssumption
    <3>3. \A x \in Worker : work'[x].fd = g <=> work[x].fd = g
      BY <1>4, <2>5, <3>2
    <3>4. AtWork(g)' <=> AtWork(g)
      BY <3>3 DEF AtWork
    <3>5. InOneHand(g)'
      BY <1>1, <2>1, <2>2, <2>3, <3>1, <3>3, <3>4 DEF InOneHand
    <3>6. Tended(g)'
      BY <1>1, <2>1, <2>2, <3>1, <3>4 DEF Tended, Held
    <3>7. QED
      BY <3>5, <3>6
  <2>6. QED
    BY <2>4, <2>5
<1>6. NoneCloses'
  BY <1>4 DEF HandInv, NoneCloses
<1>7. QED
  BY <1>5, <1>6 DEF HandInv

\* A worker gives its descriptor back to epoll as the last thing it does.
LEMMA RearmHands ==
  ASSUME Typed, HandInv, ~ crossed, NEW w \in Worker, Rearm(w)
  PROVE  HandInv'
<1> DEFINE f == work[w].fd
<1>1. /\ work' = [work EXCEPT ![w] = Idle] /\ Arm(f, AfterProcess(w))
      /\ UNCHANGED <<batch, conn, user, queue, refused>>
      /\ work[w].at # "idle"
  BY DEF Rearm, At, objects, ghosts
<1>2. /\ work \in [Worker -> [at : Places, fd : Fd \cup {None}, tmp : Int]] /\ f \in Fd
      /\ armed \in [Fd -> {"in", "out", "off"}]
  BY <1>1 DEF Typed, TypeOK
<1>3. AtWork(f) /\ InOneHand(f) /\ Tended(f)
  BY <1>2 DEF AtWork, HandInv
<1>4. Alive(f) /\ ~ OnEpoll(f) /\ ~ WithMain(f) /\ ~ Listed(f)
  BY <1>3 DEF InOneHand, Tended, Held, Alive
<1>5. PICK a \in {"in", "out"} : armed' = [armed EXCEPT ![f] = a]
  BY <1>1, <1>4 DEF Arm, AfterProcess
<1>6. work'[w].fd = None /\ work'[w].at = "idle" /\ \A x \in Worker : x # w => work'[x] = work[x]
  BY <1>1, <1>2 DEF Idle
<1>7. ASSUME NEW g \in Fd
      PROVE  InOneHand(g)' /\ Tended(g)'
  <2>1. InOneHand(g) /\ Tended(g) /\ g # None
    BY WebAssumption DEF HandInv
  <2>2. /\ WithMain(g)' <=> WithMain(g)
        /\ Listed(g)' <=> Listed(g)
    BY <1>1 DEF WithMain, Listed
  <2>3. CASE g = f
    <3>1. OnEpoll(g)' /\ ~ AtWork(g)'
      <4>1. armed'[g] = a
        BY <1>2, <1>5, <2>3
      <4>2. \A x \in Worker : work'[x].fd # g
        BY <1>3, <1>6, <2>1, <2>3 DEF InOneHand
      <4>3. QED
        BY <4>1, <4>2 DEF OnEpoll, AtWork
    <3>2. InOneHand(g)'
      BY <1>1, <1>4, <2>1, <2>2, <2>3, <3>1 DEF InOneHand, AtWork
    <3>3. Tended(g)'
      BY <1>1, <1>3, <2>1, <2>3, <3>1 DEF Tended, Held
    <3>4. QED
      BY <3>2, <3>3
  <2>4. CASE g # f
    <3>1. OnEpoll(g)' <=> OnEpoll(g)
      BY <1>2, <1>5, <2>4 DEF OnEpoll
    <3>2. \A x \in Worker : work'[x].fd = g <=> work[x].fd = g
      BY <1>6, <2>1, <2>4
    <3>3. AtWork(g)' <=> AtWork(g)
      BY <3>2 DEF AtWork
    <3>4. InOneHand(g)'
      BY <1>1, <2>1, <2>2, <3>1, <3>2, <3>3 DEF InOneHand
    <3>5. Tended(g)'
      BY <1>1, <2>1, <2>2, <3>1, <3>3 DEF Tended, Held
    <3>6. QED
      BY <3>4, <3>5
  <2>5. QED
    BY <2>3, <2>4
<1>8. NoneCloses'
  BY <1>6 DEF HandInv, NoneCloses
<1>9. QED
  BY <1>7, <1>8 DEF HandInv

\* What a step of the parser leaves of the object and of the worker.
LEMMA ParserStep ==
  ASSUME Typed, NEW w \in Worker,
         \/ NoLine(w) \/ ParseRequestLine(w) \/ ParseHeaders(w) \/ ParseContent(w)
         \/ ParseContentLine(w)
  PROVE  /\ work[w].at # "idle" /\ work[w].fd \in Fd
         /\ \E v : /\ user' = [user EXCEPT ![work[w].fd] = v] /\ v.open = Mine(w).open
                   /\ v.buf = Mine(w).buf /\ v.out = Mine(w).out
                   /\ \/ v.url = Mine(w).url /\ v.state = Mine(w).state
                      \/ v.url = Mine(w).url /\ Mine(w).state # "line"
                      \/ \E i \in DOMAIN v.buf : v.url = v.buf[i].c
         /\ \E p \in Places \ {"idle", "close", "forget", "discount"} :
              /\ Goto(w, p)
              /\ p = "request" => Mine(w).state # "line"
              /\ p = "bad" => ParseRequestLine(w)
         /\ UNCHANGED <<kernel, batch, count, queue, ghosts>>
<1> DEFINE u == Mine(w)
           f == work[w].fd
<1>1. work[w].at # "idle" /\ UNCHANGED <<kernel, batch, count, queue, ghosts>>
  BY DEF NoLine, ParseRequestLine, ParseHeaders, ParseContent, ParseContentLine, WantsLine, At
<1>2. f \in Fd /\ Sound(u) /\ u \in HttpConn
  BY <1>1 DEF Typed, TypeOK, Mine, Sound
<1>3. \E p \in Places \ {"idle", "close", "forget", "discount"} :
        /\ Goto(w, p)
        /\ p = "request" => u.state # "line"
        /\ p = "bad" => ParseRequestLine(w)
  BY DEF NoLine, ParseRequestLine, ParseHeaders, ParseContent, ParseContentLine, Places
<1>4. \E v : /\ user' = [user EXCEPT ![f] = v] /\ v.open = u.open
             /\ v.buf = u.buf /\ v.out = u.out
             /\ \/ v.url = u.url /\ v.state = u.state
                \/ v.url = u.url /\ u.state # "line"
                \/ \E i \in DOMAIN v.buf : v.url = v.buf[i].c
  <2>1. CASE NoLine(w)
    <3> DEFINE v == [u EXCEPT !.checked = IF Ends(u) = {} THEN Len(u.buf) ELSE LineEnd(u) - 1]
    <3>1. user' = [user EXCEPT ![f] = v]
      BY <2>1 DEF NoLine, Own
    <3>2. /\ v.open = u.open /\ v.buf = u.buf /\ v.out = u.out /\ v.url = u.url
          /\ v.state = u.state
      BY <1>2 DEF HttpConn
    <3> HIDE DEF v
    <3>3. QED
      BY <3>1, <3>2
  <2>2. CASE ParseRequestLine(w)
    <3> DEFINE x == AfterLine(u)
               v == [x EXCEPT !.url = Line(u)[1].c,
                              !.state = IF Kind(Line(u)) = "get" THEN "head" ELSE @]
    <3>1. Ends(u) # {} /\ user' = [user EXCEPT ![f] = v]
      BY <2>2 DEF ParseRequestLine, LineOk, Own
    <3>2. Sound(x) /\ x.open = u.open /\ x.buf = u.buf /\ x.out = u.out
      BY <1>2, <3>1, AfterLineSound
    <3>3. Line(u)[1] = u.buf[u.start + 1] /\ u.start + 1 \in DOMAIN u.buf
      BY <1>2, <3>1, LineFacts
    <3>4. x \in HttpConn
      BY <3>2 DEF Sound
    <3> HIDE DEF x
    <3>5. v.open = x.open /\ v.buf = x.buf /\ v.out = x.out /\ v.url = Line(u)[1].c
      BY <3>4 DEF HttpConn
    <3>6. \E i \in DOMAIN v.buf : v.url = v.buf[i].c
      BY <3>2, <3>3, <3>5
    <3> HIDE DEF v
    <3>7. QED
      BY <3>1, <3>2, <3>5, <3>6
  <2>3. CASE ParseHeaders(w)
    <3> DEFINE k == Kind(Line(u))
               x == AfterLine(u)
               v == [x EXCEPT !.state = IF k = "blank" /\ u.len # 0 THEN "content" ELSE @,
                              !.linger = @ \/ k = "keep",
                              !.len = IF k = "length" THEN BodyLen ELSE @]
    <3>1. Ends(u) # {} /\ user' = [user EXCEPT ![f] = v] /\ u.state = "head"
      BY <2>3 DEF ParseHeaders, LineOk, Own
    <3>2. Sound(x) /\ x.open = u.open /\ x.buf = u.buf /\ x.out = u.out /\ x.url = u.url
      BY <1>2, <3>1, AfterLineSound
    <3>3. x \in HttpConn
      BY <3>2 DEF Sound
    <3> HIDE DEF x, k
    <3>4. v.open = x.open /\ v.buf = x.buf /\ v.out = x.out /\ v.url = x.url
      BY <3>3 DEF HttpConn
    <3> HIDE DEF v
    <3>5. QED
      BY <3>1, <3>2, <3>4
  <2>4. CASE ParseContent(w)
    <3> DEFINE v == [u EXCEPT !.start = u.checked]
    <3>1. user' = [user EXCEPT ![f] = v]
      BY <2>4 DEF ParseContent, Own
    <3>2. /\ v.open = u.open /\ v.buf = u.buf /\ v.out = u.out /\ v.url = u.url
          /\ v.state = u.state
      BY <1>2 DEF HttpConn
    <3> HIDE DEF v
    <3>3. QED
      BY <3>1, <3>2
  <2>5. CASE ParseContentLine(w)
    <3>1. Ends(u) # {} /\ user' = [user EXCEPT ![f] = AfterLine(u)]
      BY <2>5 DEF ParseContentLine, LineOk, Own
    <3>2. QED
      BY <1>2, <3>1, AfterLineSound
  <2>6. QED
    BY <2>1, <2>2, <2>3, <2>4, <2>5
<1>5. QED
  BY <1>1, <1>2, <1>3, <1>4

\* A worker works on an object without giving it away.
LEMMA WorkHands ==
  ASSUME Typed, HandInv, ~ crossed, NEW w \in Worker, work[w].at # "idle",
         NEW v, v.open = Mine(w).open, user' = [user EXCEPT ![work[w].fd] = v],
         NEW p, p \notin {"idle", "close", "forget", "discount"}, Goto(w, p),
         UNCHANGED <<kernel, batch, count, queue, refused>>
  PROVE  HandInv'
<1>1. /\ user \in [Fd -> HttpConn] /\ work[w].fd \in Fd
      /\ work \in [Worker -> [at : Places, fd : Fd \cup {None}, tmp : Int]]
  BY DEF Typed, TypeOK
<1>2. \A f \in Fd : user'[f].open = user[f].open
  BY <1>1 DEF Mine
<1>3. \A x \in Worker : /\ work'[x].fd = work[x].fd
                        /\ work'[x].at \notin {"close", "forget", "discount"}
                        /\ work'[x].at = "idle" => work[x].at = "idle"
  BY <1>1 DEF Goto, HandInv, NoneCloses
<1>4. QED
  BY <1>2, <1>3, HandsStay DEF kernel

\* Until a worker closes a connection, every step keeps every connection in one hand.
LEMMA HandsKept ==
  ASSUME Typed, Once, HandInv, [Next]_vars
  PROVE  HandInv'
<1>1. SUFFICES ASSUME ~ crossed'
               PROVE  HandInv'
  BY DEF HandInv
<1>2. CASE UNCHANGED vars
  BY <1>2 DEF vars, kernel, objects, ghosts, HandInv, NoneCloses, InOneHand, Tended, Held, OnEpoll,
     WithMain, Listed, AtWork
<1>3. ASSUME NEW c \in Client, Connect(c) \/ Send(c) \/ HangUp(c)
      PROVE  HandInv'
  <2>1. UNCHANGED <<armed, batch, conn, user, count, queue, work, refused, crossed>>
    BY <1>3 DEF Connect, Send, HangUp, objects, ghosts
  <2>2. ~ crossed
    BY <1>1, <2>1
  <2>3. \A w \in Worker : work[w].at \notin {"close", "forget", "discount"}
    BY <2>2 DEF HandInv, NoneCloses
  <2>4. QED
    BY <2>1, <2>2, <2>3, HandsStay
<1>4. ASSUME Poll \/ AcceptFails \/ AcceptBusy
      PROVE  HandInv'
  <2>1. UNCHANGED <<conn, user, count, queue, work, refused, crossed>>
    BY <1>4 DEF Poll, AcceptFails, AcceptBusy, kernel, objects, ghosts
  <2>2. ~ crossed
    BY <1>1, <2>1
  <2>3. \A w \in Worker : work[w].at \notin {"close", "forget", "discount"}
    BY <2>2 DEF HandInv, NoneCloses
  <2>4. CASE Poll
    BY <2>2, <2>4, PollHands
  <2>5. CASE AcceptFails \/ AcceptBusy
    <3>1. Handle("accept", None) /\ armed' = armed
      BY <2>5 DEF AcceptFails, AcceptBusy, kernel
    <3>2. batch' \subseteq batch /\ \A e \in batch : e.fd # None => e \in batch'
      BY <3>1 DEF Handle
    <3>3. QED
      BY <2>1, <2>2, <2>3, <3>1, <3>2, HandsStay
  <2>6. QED
    BY <1>4, <2>4, <2>5
<1>5. ASSUME NEW f \in Fd, Accept(f)
      PROVE  HandInv'
  BY <1>1, <1>5, AcceptHands DEF Accept
<1>6. ASSUME NEW f \in Fd,
             \/ CloseHungUp(f) \/ Read(f) \/ Write(f) \/ WriteNothing(f) \/ WriteAgain(f)
             \/ WriteFails(f)
      PROVE  HandInv'
  <2> DEFINE u == user[f]
             c == conn[f]
  <2>1. ~ crossed /\ work' = work
    BY <1>1, <1>6, SMTT(30)
    DEF CloseHungUp, Read, Write, WriteNothing, WriteAgain, WriteFails, ghosts, objects
  <2>2. PICK ev \in {"hup", "in", "out"} : Handle(ev, f)
    BY <1>6 DEF CloseHungUp, Read, Write, WriteNothing, WriteAgain, WriteFails
  <2>3. Alive(f) /\ u.open
    BY <2>1, <2>2, MainHas
  <2>4. Sound(u) /\ u \in HttpConn /\ user = [user EXCEPT ![f] = u]
    BY DEF Typed, TypeOK, Sound
  <2>5. Reset(u) \in HttpConn /\ Reset(u).open
    BY <2>3, <2>4, ResetSound DEF Sound
  <2>6. CASE CloseHungUp(f)
    <3>1. CloseConn(f, u) /\ UNCHANGED <<queue, work, refused>>
      BY <2>6 DEF CloseHungUp, ghosts
    <3>2. QED
      BY <2>1, <2>2, <2>3, <2>4, <3>1, MainCloses
  <2>7. CASE Read(f)
    <3> DEFINE n == IF ~ Alive(f) THEN 0 ELSE IF Len(in[c]) < Room(u) THEN Len(in[c]) ELSE Room(u)
               v == IF n = 0 THEN u ELSE [u EXCEPT !.buf = @ \o SubSeq(in[c], 1, n)]
    <3>1. v \in HttpConn /\ v.open
      <4>1. CASE n = 0
        BY <2>3, <2>4, <4>1
      <4>2. CASE n # 0
        <5>1. SubSeq(in[c], 1, n) \in Seq(Token) /\ Len(SubSeq(in[c], 1, n)) <= Room(u)
          BY <2>3, Received
        <5>2. Sound(v)
          BY <2>4, <4>2, <5>1, ReceiveSound
        <5>3. v.open = u.open
          BY <2>4, <4>2 DEF HttpConn
        <5>4. QED
          BY <2>3, <5>2, <5>3 DEF Sound
      <4>3. QED
        BY <4>1, <4>2
    <3>2. CASE Alive(f) /\ n < Room(u) /\ c \notin hup
      <4>1. user' = [user EXCEPT ![f] = v] /\ AppendUser(f) /\ UNCHANGED <<conn, armed, count>>
        BY <2>7, <3>2 DEF Read
      <4> HIDE DEF v, n
      <4>2. QED
        BY <2>1, <2>2, <3>1, <4>1, MainKeeps
    <3>3. CASE ~ (Alive(f) /\ n < Room(u) /\ c \notin hup)
      <4>1. CloseConn(f, v) /\ UNCHANGED <<queue, refused>>
        BY <2>7, <3>3 DEF Read
      <4> HIDE DEF v, n
      <4>2. QED
        BY <2>1, <2>2, <3>1, <4>1, MainCloses
    <3>4. QED
      BY <3>2, <3>3
  <2>8. CASE Write(f)
    <3>1. UNCHANGED <<queue, refused>>
      BY <2>8 DEF Write
    <3>2. CASE u.linger
      <4>1. user' = [user EXCEPT ![f] = Reset(u)] /\ Arm(f, "in") /\ UNCHANGED <<conn, count>>
        BY <2>8, <3>2 DEF Write
      <4>2. armed' = [armed EXCEPT ![f] = "in"]
        BY <2>3, <4>1 DEF Arm
      <4>3. QED
        BY <2>1, <2>2, <2>5, <3>1, <4>1, <4>2, MainKeeps
    <3>3. CASE ~ u.linger
      <4>1. CloseConn(f, Reset(u))
        BY <2>8, <3>3 DEF Write
      <4>2. QED
        BY <2>1, <2>2, <2>5, <3>1, <4>1, MainCloses
    <3>4. QED
      BY <3>2, <3>3
  <2>9. CASE WriteNothing(f)
    <3>1. user' = [user EXCEPT ![f] = Reset(u)] /\ UNCHANGED <<conn, count, queue, refused>>
      BY <2>9 DEF WriteNothing, ghosts
    <3>2. armed' = [armed EXCEPT ![f] = "in"]
      BY <2>3, <2>9 DEF WriteNothing, Arm
    <3>3. QED
      BY <2>1, <2>2, <2>5, <3>1, <3>2, MainKeeps
  <2>10. CASE WriteAgain(f)
    <3>1. user' = [user EXCEPT ![f] = u] /\ UNCHANGED <<conn, count, queue, refused>>
      BY <2>4, <2>10 DEF WriteAgain, objects, ghosts
    <3>2. armed' = [armed EXCEPT ![f] = "out"]
      BY <2>3, <2>10 DEF WriteAgain, Arm
    <3>3. QED
      BY <2>1, <2>2, <2>3, <3>1, <3>2, MainKeeps
  <2>11. CASE WriteFails(f)
    <3>1. CloseConn(f, u) /\ UNCHANGED <<queue, work, refused>>
      BY <2>11 DEF WriteFails, ghosts
    <3>2. QED
      BY <2>1, <2>2, <2>3, <2>4, <3>1, MainCloses
  <2>12. QED
    BY <1>6, <2>6, <2>7, <2>8, <2>9, <2>10, <2>11
<1>7. ASSUME NEW w \in Worker, Process(w)
      PROVE  HandInv'
  <2>1. ~ crossed
    BY <1>1, <1>7 DEF Process, Take, NoLine, ParseRequestLine, ParseHeaders, ParseContent,
       ParseContentLine, Rearm, Answer, WorkerClose, WorkerForget, WorkerDiscount, ghosts
  <2>2. work[w].at \notin {"close", "forget", "discount"}
    BY <2>1 DEF HandInv, NoneCloses
  <2>3. ~ WorkerClose(w) /\ ~ WorkerForget(w) /\ ~ WorkerDiscount(w)
    BY <2>2 DEF WorkerClose, WorkerForget, WorkerDiscount, At
  <2>4. CASE Take(w)
    BY <2>1, <2>4, TakeHands
  <2>5. CASE Rearm(w)
    BY <2>1, <2>5, RearmHands
  <2>6. CASE Answer(w)
    <3> DEFINE u == Mine(w)
               v == [u EXCEPT !.out = Append(@, u.url)]
    <3>1. work[w].at # "idle" /\ UNCHANGED <<kernel, batch, count, queue, refused>>
      BY <2>6 DEF Answer, At
    <3>2. user' = [user EXCEPT ![work[w].fd] = v] /\ Goto(w, "out")
      BY <1>1, <2>6 DEF Answer, Own
    <3>3. u \in HttpConn
      BY <3>1 DEF Typed, TypeOK, Mine
    <3>4. v.open = u.open
      BY <3>3 DEF HttpConn
    <3> HIDE DEF v
    <3>5. QED
      BY <2>1, <3>1, <3>2, <3>4, WorkHands
  <2>7. CASE \/ NoLine(w) \/ ParseRequestLine(w) \/ ParseHeaders(w) \/ ParseContent(w)
             \/ ParseContentLine(w)
    <3>1. work[w].at # "idle" /\ UNCHANGED <<kernel, batch, count, queue, ghosts>>
      BY <2>7, ParserStep
    <3>2. PICK v : user' = [user EXCEPT ![work[w].fd] = v] /\ v.open = Mine(w).open
      BY <2>7, ParserStep
    <3>3. PICK p : p \notin {"idle", "close", "forget", "discount"} /\ Goto(w, p)
      BY <2>7, ParserStep
    <3>4. QED
      BY <2>1, <3>1, <3>2, <3>3, WorkHands DEF ghosts
  <2>8. QED
    BY <1>7, <2>3, <2>4, <2>5, <2>6, <2>7 DEF Process
<1>8. QED
  BY <1>2, <1>3, <1>4, <1>5, <1>6, <1>7 DEF Next, Main, World

\* Nobody holds anything in the beginning.
LEMMA InitHands == Init => HandInv
<1> SUFFICES ASSUME Init PROVE HandInv
  OBVIOUS
<1>1. NoneCloses
  BY DEF Init, NoneCloses, Idle
<1>2. ASSUME NEW f \in Fd
      PROVE  InOneHand(f) /\ Tended(f)
  <2>1. f # None /\ ~ user[f].open /\ conn[f] = None /\ armed[f] = "off"
    BY WebAssumption DEF Init, Fresh
  <2>2. ~ OnEpoll(f) /\ ~ WithMain(f) /\ ~ Listed(f) /\ ~ AtWork(f)
    BY <2>1 DEF Init, OnEpoll, WithMain, Listed, AtWork, Idle
  <2>3. InOneHand(f)
    BY <2>2 DEF Init, InOneHand, AtWork
  <2>4. Tended(f)
    BY <2>1, <2>2 DEF Tended, Held
  <2>5. QED
    BY <2>3, <2>4
<1>3. QED
  BY <1>1, <1>2 DEF HandInv

\* The invariant of the hands holds in every run.
LEMMA AlwaysHands == Spec => []HandInv
<1>1. Typed /\ Once /\ HandInv /\ [Next]_vars => HandInv'
  BY HandsKept
<1>2. QED
  BY <1>1, AlwaysTyped, AlwaysOnce, InitHands, PTL DEF Spec

\* An HttpConn is in one hand at most, main's, the list's, a worker's or epoll's,
\* as long as no worker closes a connection: no lock protects it.
THEOREM OneHandHolds == Spec => []OneHand
<1>1. ASSUME HandInv, ~ crossed, NEW f \in Fd
      PROVE  Cardinality(Hands(f)) <= 1
  <2>1. InOneHand(f)
    BY <1>1 DEF HandInv
  <2>2. \A x, y \in Hands(f) : x = y
    BY <2>1 DEF Hands, InOneHand, OnEpoll, WithMain, Listed, AtWork
  <2>3. CASE Hands(f) = {}
    BY <2>3, FS_EmptySet
  <2>4. CASE Hands(f) # {}
    <3>1. PICK x \in Hands(f) : TRUE
      BY <2>4
    <3>2. Hands(f) = {x}
      BY <2>2, <3>1
    <3>3. QED
      BY <3>2, FS_Singleton
  <2>5. QED
    BY <2>3, <2>4
<1>2. HandInv => OneHand
  BY <1>1 DEF OneHand
<1>3. QED
  BY <1>2, AlwaysHands, PTL

\* An open connection that Append has not refused is in somebody's hand: read,
\* process and write leave none of them disarmed and unlisted.
THEOREM NotForgottenHolds == Spec => []NotForgotten
<1>1. ASSUME NEW f \in Fd, Held(f)
      PROVE  Hands(f) # {}
  <2>1. CASE OnEpoll(f)
    <3>1. <<"epoll", f>> \in Hands(f)
      BY <2>1 DEF Hands, OnEpoll
    <3>2. QED
      BY <3>1
  <2>2. CASE WithMain(f)
    <3>1. PICK e \in batch : e.fd = f
      BY <2>2 DEF WithMain
    <3>2. <<"main", e>> \in Hands(f)
      BY <3>1 DEF Hands
    <3>3. QED
      BY <3>2
  <2>3. CASE Listed(f)
    <3>1. PICK i \in DOMAIN queue : queue[i] = f
      BY <2>3 DEF Listed
    <3>2. <<"list", i>> \in Hands(f)
      BY <3>1 DEF Hands
    <3>3. QED
      BY <3>2
  <2>4. CASE AtWork(f)
    <3>1. PICK w \in Worker : work[w].fd = f
      BY <2>4 DEF AtWork
    <3>2. <<"worker", w>> \in Hands(f)
      BY <3>1 DEF Hands
    <3>3. QED
      BY <3>2
  <2>5. QED
    BY <1>1, <2>1, <2>2, <2>3, <2>4 DEF Held
<1>2. HandInv => NotForgotten
  BY <1>1 DEF HandInv, Tended, NotForgotten
<1>3. QED
  BY <1>2, AlwaysHands, PTL

\* No step takes the history back.
LEMMA HistoryGrows ==
  ASSUME [Next]_vars
  PROVE  (crossed => crossed') /\ refused \subseteq refused'
<1>1. CASE World \/ Poll \/ AcceptFails \/ AcceptBusy \/ UNCHANGED vars
  <2>1. UNCHANGED <<refused, crossed>>
    BY <1>1 DEF World, Connect, Send, HangUp, Poll, AcceptFails, AcceptBusy, vars, ghosts
  <2>2. QED
    BY <2>1
<1>2. CASE \E f \in Fd : Accept(f)
  BY <1>2 DEF Accept
<1>3. ASSUME NEW f \in Fd, CloseHungUp(f) \/ Read(f) \/ Write(f)
      PROVE  crossed' = crossed /\ refused \subseteq refused'
  BY <1>3 DEF CloseHungUp, Read, Write, AppendUser, ghosts
<1>4. ASSUME NEW f \in Fd, WriteNothing(f) \/ WriteAgain(f) \/ WriteFails(f)
      PROVE  crossed' = crossed /\ refused' = refused
  BY <1>4 DEF WriteNothing, WriteAgain, WriteFails, ghosts
<1>5. ASSUME NEW w \in Worker, Process(w)
      PROVE  (crossed => crossed') /\ refused' = refused
  BY <1>5 DEF Process, Take, NoLine, ParseRequestLine, ParseHeaders, ParseContent, ParseContentLine,
     Rearm, Answer, WorkerClose, WorkerForget, WorkerDiscount, ghosts
<1>6. QED
  BY <1>1, <1>2, <1>3, <1>4, <1>5 DEF Next, Main

\* A step leaves alone what nobody holds.
LEMMA UnheldStays ==
  ASSUME Typed, HandInv, ~ crossed, [Next]_vars, NEW f \in Fd, conn[f] # None, ~ Held(f)
  PROVE  UNCHANGED <<conn[f], user[f]>>
<1>1. /\ conn \in [Fd -> Client \cup {None}] /\ user \in [Fd -> HttpConn]
      /\ \A w \in Worker : work[w].fd # f
      /\ \A ev : ~ Handle(ev, f)
  BY DEF Typed, TypeOK, Held, WithMain, AtWork, Handle
<1>2. CASE World \/ Poll \/ AcceptFails \/ AcceptBusy \/ UNCHANGED vars
  BY <1>2 DEF World, Connect, Send, HangUp, Poll, AcceptFails, AcceptBusy, vars, kernel, objects
<1>3. ASSUME NEW g \in Fd, Accept(g)
      PROVE  UNCHANGED <<conn[f], user[f]>>
  BY <1>1, <1>3 DEF Accept
<1>4. ASSUME NEW g \in Fd,
             \/ CloseHungUp(g) \/ Read(g) \/ Write(g) \/ WriteNothing(g) \/ WriteAgain(g)
             \/ WriteFails(g)
      PROVE  UNCHANGED <<conn[f], user[f]>>
  <2>1. g # f
    BY <1>1, <1>4 DEF CloseHungUp, Read, Write, WriteNothing, WriteAgain, WriteFails
  <2>2. /\ conn' = conn \/ conn' = [conn EXCEPT ![g] = None]
        /\ user' = user \/ \E v : user' = [user EXCEPT ![g] = v]
    BY <1>4, SMTT(30) DEF CloseHungUp, Read, Write, WriteNothing, WriteAgain, WriteFails, CloseConn, objects
  <2>3. QED
    BY <1>1, <2>1, <2>2
<1>5. ASSUME NEW w \in Worker, Process(w)
      PROVE  UNCHANGED <<conn[f], user[f]>>
  <2>1. work[w].fd # f
    BY <1>1
  <2>2. CASE Take(w) \/ Rearm(w) \/ WorkerClose(w) \/ WorkerDiscount(w)
    BY <1>1, <2>1, <2>2 DEF Take, Rearm, WorkerClose, WorkerDiscount, kernel, objects
  <2>3. CASE Answer(w) \/ WorkerForget(w)
    BY <1>1, <2>1, <2>3 DEF Answer, WorkerForget, Own, kernel
  <2>4. CASE \/ NoLine(w) \/ ParseRequestLine(w) \/ ParseHeaders(w) \/ ParseContent(w)
             \/ ParseContentLine(w)
    BY <1>1, <2>1, <2>4, ParserStep DEF kernel
  <2>5. QED
    BY <1>5, <2>2, <2>3, <2>4 DEF Process
<1>6. QED
  BY <1>2, <1>3, <1>4, <1>5 DEF Next, Main

\* A refused connection is lost: main ignores what Append returns, epoll has
\* disarmed the descriptor, and nobody else can reach it (web_test.cpp:114).
THEOREM RefusedLostHolds == Spec => RefusedLost
<1>1. ASSUME Typed, HandInv, HandInv', [Next]_vars, ~ crossed', NEW f \in Fd, conn[f] \in refused
      PROVE  Hands(f)' = {} /\ UNCHANGED <<conn[f], user[f]>>
  <2>1. ~ crossed /\ refused \subseteq refused'
    BY <1>1, HistoryGrows
  <2>2. conn[f] # None
    BY <1>1, WebAssumption DEF Typed, TypeOK
  <2>3. ~ Held(f)
    BY <1>1, <2>1 DEF HandInv, Tended
  <2>4. UNCHANGED <<conn[f], user[f]>>
    BY <1>1, <2>1, <2>2, <2>3, UnheldStays
  <2>5. ~ Held(f)'
    BY <1>1, <2>1, <2>4 DEF HandInv, Tended
  <2>6. Hands(f)' = {}
    BY <2>5 DEF Held, OnEpoll, WithMain, Listed, AtWork, Hands
  <2>7. QED
    BY <2>4, <2>6
<1>2. Typed /\ HandInv /\ HandInv' /\ [Next]_vars =>
        [~ crossed' => \A f \in Fd : conn[f] \in refused =>
                          Hands(f)' = {} /\ UNCHANGED <<conn[f], user[f]>>]_vars
  BY <1>1
<1>3. QED
  BY <1>2, AlwaysTyped, AlwaysHands, PTL DEF Spec, RefusedLost

-----------------------------------------------------------------------------
(* Whose requests are answered.                                            *)

\* All that an object holds of a request comes from client c.
Belongs(u, c) ==
  /\ \A i \in DOMAIN u.buf : u.buf[i].c = c
  /\ \A i \in DOMAIN u.out : u.out[i] = c
  /\ u.state # "line" => u.url = c

\* The objects of the clients that got an initial one hold their data only, and
\* so does what was sent to them.
AnswerInv ==
  /\ \A c \in Client : \A i \in DOMAIN in[c] : in[c][i].c = c
  /\ AnswersIfReset
  /\ ~ crossed =>
       \A f \in Fd : conn[f] # None /\ conn[f] \notin dirty =>
         /\ Belongs(user[f], conn[f])
         /\ \A w \in Worker :
              work[w].fd = f /\ work[w].at \in {"bad", "request"} => user[f].url = conn[f]

\* The third part of the invariant, for one descriptor.
Clean(f) ==
  conn[f] # None /\ conn[f] \notin dirty =>
    /\ Belongs(user[f], conn[f])
    /\ \A w \in Worker : work[w].fd = f /\ work[w].at \in {"bad", "request"} => user[f].url = conn[f]

\* A descriptor whose object and workers stay as they are.
LEMMA StaysClean ==
  ASSUME NEW f, Clean(f), user'[f] = user[f], conn'[f] = conn[f], dirty \subseteq dirty',
         \A w \in Worker : work'[w].fd = f /\ work'[w].at \in {"bad", "request"} => work'[w] = work[w]
  PROVE  Clean(f)'
BY DEF Clean

\* What a worker does to an object.
LEMMA WorkClean ==
  ASSUME Typed, HandInv, ~ crossed, NEW w \in Worker, Process(w), ~ crossed',
         \A f \in Fd : Clean(f)
  PROVE  \A f \in Fd : Clean(f)'
<1> PICK g : g = work[w].fd
  OBVIOUS
<1> DEFINE u == Mine(w)
<1>1. /\ work \in [Worker -> [at : Places, fd : Fd \cup {None}, tmp : Int]]
      /\ user \in [Fd -> HttpConn]
      /\ work[w].at # "idle" => g \in Fd /\ u \in HttpConn
  BY DEF Typed, TypeOK, Mine
<1>2. work[w].at \notin {"close", "forget", "discount"}
  BY DEF HandInv, NoneCloses
<1>3. ~ WorkerClose(w) /\ ~ WorkerForget(w) /\ ~ WorkerDiscount(w)
  BY <1>2 DEF WorkerClose, WorkerForget, WorkerDiscount, At
<1>4. conn' = conn /\ dirty' = dirty
  BY <1>3 DEF Process, Take, NoLine, ParseRequestLine, ParseHeaders, ParseContent,
     ParseContentLine, Rearm, Answer, kernel, ghosts
<1>5. \A x \in Worker : x # w => work'[x] = work[x]
  BY <1>1, <1>3 DEF Process, Take, NoLine, ParseRequestLine, ParseHeaders, ParseContent,
     ParseContentLine, Rearm, Answer, Goto
<1>6. \A x \in Worker : g \in Fd /\ work[x].fd = g => x = w
  BY DEF HandInv, InOneHand
<1>7. CASE Take(w) \/ Rearm(w)
  <2>1. user' = user /\ work'[w].at \notin {"bad", "request"}
    BY <1>1, <1>7 DEF Take, Rearm, Idle, objects
  <2>2. \A x \in Worker : work'[x].at \in {"bad", "request"} => work'[x] = work[x]
    BY <1>5, <2>1
  <2>3. QED
    BY <1>4, <2>1, <2>2, StaysClean
<1>8. ASSUME NEW f \in Fd, f # g, work'[w].fd = g, user'[f] = user[f]
      PROVE  Clean(f)'
  <2>1. \A x \in Worker : work'[x].fd = f => work'[x] = work[x]
    BY <1>5, <1>8
  <2>2. QED
    BY <1>4, <1>8, <2>1, StaysClean
<1>9. CASE Answer(w)
  <2> DEFINE v == [u EXCEPT !.out = Append(@, u.url)]
  <2>1. g \in Fd /\ work[w].at \in {"bad", "request"} /\ u \in HttpConn
    BY <1>1, <1>9 DEF Answer, At
  <2>2. user' = [user EXCEPT ![g] = v] /\ Goto(w, "out")
    BY <1>9 DEF Answer, Own
  <2>3. /\ v.buf = u.buf /\ v.out = Append(u.out, u.url) /\ v.state = u.state /\ v.url = u.url
        /\ u.out \in Seq(Client \cup {None}) /\ u.url \in Client \cup {None}
    BY <2>1 DEF HttpConn
  <2> HIDE DEF v
  <2>4. work'[w].at = "out" /\ work'[w].fd = g /\ user'[g] = v
        /\ \A f \in Fd : f # g => user'[f] = user[f]
    BY <1>1, <2>1, <2>2 DEF Goto
  <2>5. ASSUME conn[g] # None, conn[g] \notin dirty
        PROVE  Clean(g)'
    <3>1. Belongs(u, conn[g]) /\ u.url = conn[g]
      BY <2>1, <2>5 DEF Clean, Mine
    <3>2. /\ DOMAIN v.out = 1..Len(u.out) + 1 /\ DOMAIN u.out = 1..Len(u.out) /\ Len(u.out) \in Nat
          /\ \A i \in 1..Len(u.out) : v.out[i] = u.out[i]
          /\ v.out[Len(u.out) + 1] = u.url
      BY <2>3, AppendProperties, LenProperties
    <3>3. \A i \in DOMAIN v.out : v.out[i] = conn[g]
      BY <3>1, <3>2 DEF Belongs
    <3>4. Belongs(v, conn[g])
      BY <2>3, <3>1, <3>3 DEF Belongs
    <3>5. \A x \in Worker : ~ (work'[x].fd = g /\ work'[x].at \in {"bad", "request"})
      BY <1>5, <1>6, <2>1, <2>4
    <3>6. QED
      BY <1>4, <2>4, <3>4, <3>5 DEF Clean
  <2>6. Clean(g)'
    BY <1>4, <2>5 DEF Clean
  <2>7. QED
    BY <1>8, <2>4, <2>6
<1>10. CASE \/ NoLine(w) \/ ParseRequestLine(w) \/ ParseHeaders(w) \/ ParseContent(w)
            \/ ParseContentLine(w)
  <2>1. work[w].at # "idle" /\ g \in Fd
    BY <1>10, ParserStep
  <2>2. PICK v : /\ user' = [user EXCEPT ![g] = v]
                 /\ v.buf = u.buf /\ v.out = u.out
                 /\ \/ v.url = u.url /\ v.state = u.state
                    \/ v.url = u.url /\ u.state # "line"
                    \/ \E i \in DOMAIN v.buf : v.url = v.buf[i].c
    BY <1>10, ParserStep
  <2>3. PICK p : /\ Goto(w, p)
                 /\ p = "request" => u.state # "line"
                 /\ p = "bad" => ParseRequestLine(w)
    BY <1>10, ParserStep
  <2>4. work'[w].at = p /\ work'[w].fd = g /\ user'[g] = v
        /\ \A f \in Fd : f # g => user'[f] = user[f]
    BY <1>1, <2>1, <2>2, <2>3 DEF Goto
  <2>5. ASSUME conn[g] # None, conn[g] \notin dirty
        PROVE  Clean(g)'
    <3>1. Belongs(u, conn[g])
      BY <2>1, <2>5 DEF Clean, Mine
    <3>2. /\ \A i \in DOMAIN v.buf : v.buf[i].c = conn[g]
          /\ \A i \in DOMAIN v.out : v.out[i] = conn[g]
      BY <2>2, <3>1 DEF Belongs
    <3>3. v.state # "line" => v.url = conn[g]
      BY <2>2, <3>1, <3>2 DEF Belongs
    <3>4. p = "request" => v.url = conn[g]
      BY <2>2, <2>3, <3>1, <3>2 DEF Belongs
    <3>5. p = "bad" => v.url = conn[g]
      <4> SUFFICES ASSUME p = "bad" PROVE v.url = conn[g]
        OBVIOUS
      <4>1. ParseRequestLine(w)
        BY <2>3
      <4>2. Ends(u) # {} /\ Own([AfterLine(u) EXCEPT !.url = Line(u)[1].c,
                                  !.state = IF Kind(Line(u)) = "get" THEN "head" ELSE @], w)
        BY <4>1 DEF ParseRequestLine, LineOk
      <4>3. Sound(u)
        BY <2>1 DEF Typed, Mine
      <4>4. Line(u)[1] = u.buf[u.start + 1] /\ u.start + 1 \in DOMAIN u.buf
        BY <4>2, <4>3, LineFacts
      <4>5. AfterLine(u) \in HttpConn
        BY <4>2, <4>3, AfterLineSound DEF Sound
      <4> DEFINE x == AfterLine(u)
                 r == [x EXCEPT !.url = Line(u)[1].c,
                                !.state = IF Kind(Line(u)) = "get" THEN "head" ELSE @]
      <4> HIDE DEF x
      <4>6. r.url = Line(u)[1].c
        BY <4>5 DEF HttpConn, x
      <4>7. user'[g] = r
        BY <1>1, <2>1, <4>2 DEF Own, x
      <4> HIDE DEF r
      <4>8. QED
        BY <2>2, <2>4, <3>1, <4>4, <4>6, <4>7 DEF Belongs
    <3>6. Belongs(v, conn[g])
      BY <3>2, <3>3 DEF Belongs
    <3>7. \A x \in Worker : work'[x].fd = g /\ work'[x].at \in {"bad", "request"} => v.url = conn[g]
      BY <1>5, <1>6, <2>1, <2>4, <3>4, <3>5
    <3>8. QED
      BY <1>4, <2>4, <3>6, <3>7 DEF Clean
  <2>6. Clean(g)'
    BY <1>4, <2>5 DEF Clean
  <2>7. QED
    BY <1>8, <2>4, <2>6
<1>11. QED
  BY <1>3, <1>7, <1>9, <1>10 DEF Process

\* What main does to an object.
LEMMA MainClean ==
  ASSUME Typed, HandInv, ~ crossed, NEW f \in Fd, NEW ev, Handle(ev, f),
         work' = work, dirty' = dirty, \A g \in Fd : Clean(g),
         NEW v, Belongs(user[f], conn[f]) => Belongs(v, conn[f]),
         \/ user' = [user EXCEPT ![f] = v] /\ conn' = conn
         \/ CloseConn(f, v) /\ v.open
  PROVE  \A g \in Fd : Clean(g)'
<1>1. /\ conn \in [Fd -> Client \cup {None}] /\ user \in [Fd -> HttpConn]
      /\ \A x \in Worker : work[x].fd # f
      /\ conn[f] # None
  BY MainHas DEF Typed, TypeOK
<1>2. ASSUME NEW g \in Fd, g # f
      PROVE  Clean(g)'
  <2>1. user'[g] = user[g] /\ conn'[g] = conn[g]
    BY <1>1, <1>2 DEF CloseConn
  <2>2. QED
    BY <2>1, StaysClean
<1>3. Clean(f)'
  <2>1. CASE user' = [user EXCEPT ![f] = v] /\ conn' = conn
    <3>1. user'[f] = v
      BY <1>1, <2>1
    <3>2. QED
      BY <1>1, <2>1, <3>1 DEF Clean
  <2>2. CASE CloseConn(f, v) /\ v.open
    <3>1. conn'[f] = None
      BY <1>1, <2>2 DEF CloseConn
    <3>2. QED
      BY <3>1 DEF Clean
  <2>3. QED
    BY <2>1, <2>2
<1>4. QED
  BY <1>2, <1>3

\* An object after init() holds nothing.
LEMMA ResetBelongs ==
  ASSUME NEW u, NEW c
  PROVE  Belongs(Reset(u), c)
<1>1. Reset(u).buf = <<>> /\ Reset(u).out = <<>> /\ Reset(u).state = "line"
  BY DEF Reset, Fresh
<1>2. QED
  BY <1>1 DEF Belongs

\* What main leaves in the socket is still the client's.
LEMMA LeftInSocket ==
  ASSUME Typed, NEW f \in Fd, Read(f),
         \A c \in Client : \A i \in DOMAIN in[c] : in[c][i].c = c
  PROVE  \A c \in Client : \A i \in DOMAIN in'[c] : in'[c][i].c = c
<1> DEFINE n == IF ~ Alive(f) THEN 0 ELSE IF Len(in[conn[f]]) < Room(user[f])
                                          THEN Len(in[conn[f]]) ELSE Room(user[f])
<1>1. in' = [d \in Client |-> IF d = conn[f] THEN SubSeq(in[d], n + 1, Len(in[d])) ELSE in[d]]
  BY DEF Read
<1>2. n \in Nat
  BY Received
<1> HIDE DEF n
<1>3. ASSUME NEW d \in Client, NEW i \in DOMAIN SubSeq(in[d], n + 1, Len(in[d]))
      PROVE  SubSeq(in[d], n + 1, Len(in[d]))[i].c = d
  <2> DEFINE m == n + 1
             k == Len(in[d])
             r == SubSeq(in[d], m, k)
  <2>1. /\ in[d] \in Seq(Token) /\ m \in Nat \ {0} /\ k \in 0..Len(in[d]) /\ k \in Nat
        /\ DOMAIN in[d] = 1..k
    BY <1>2, LenProperties DEF Typed, TypeOK
  <2>2. /\ r \in Seq(Token) /\ Len(r) = (IF m <= k THEN k - m + 1 ELSE 0)
        /\ \A j \in 1..k - m + 1 : r[j] = in[d][m + j - 1]
    <3> HIDE DEF m, k
    <3>1. QED
      BY <2>1, Part
  <2>3. DOMAIN r = 1..Len(r)
    BY <2>2, LenProperties
  <2>4. i \in DOMAIN r
    OBVIOUS
  <2> HIDE DEF r, m, k
  <2>5. i \in 1..k - m + 1 /\ m + i - 1 \in DOMAIN in[d]
    BY <2>1, <2>2, <2>3, <2>4
  <2>6. r[i].c = d
    BY <2>2, <2>5
  <2>7. QED
    BY <2>6 DEF r, m, k
<1>4. QED
  BY <1>1, <1>3

\* Every step of main but accept keeps what the objects hold with its client.
LEMMA EventAnswers ==
  ASSUME Typed, HandInv, AnswerInv, ~ crossed, NEW f \in Fd,
         \/ CloseHungUp(f) \/ Read(f) \/ Write(f) \/ WriteNothing(f) \/ WriteAgain(f)
         \/ WriteFails(f)
  PROVE  /\ \A g \in Fd : Clean(g)'
         /\ \A c \in Client : c \in dirty' \/ got'[c] \subseteq {c}
<1> DEFINE u == user[f]
           c == conn[f]
<1>1. work' = work /\ dirty' = dirty
  BY SMTT(30) DEF CloseHungUp, Read, Write, WriteNothing, WriteAgain, WriteFails, ghosts, objects
<1>2. PICK ev \in {"hup", "in", "out"} : Handle(ev, f)
  BY DEF CloseHungUp, Read, Write, WriteNothing, WriteAgain, WriteFails
<1>3. Alive(f) /\ u.open /\ conn[f] # None
  BY <1>2, MainHas
<1>4. Sound(u) /\ u \in HttpConn /\ user = [user EXCEPT ![f] = u]
  BY DEF Typed, TypeOK, Sound
<1>5. /\ Reset(u).open
      /\ Belongs(Reset(u), c)
  BY <1>3, <1>4, ResetSound, ResetBelongs
<1>6. /\ \A g \in Fd : Clean(g)
      /\ \A d \in Client : \A i \in DOMAIN in[d] : in[d][i].c = d
      /\ \A d \in Client : d \in dirty \/ got[d] \subseteq {d}
      /\ in \in [Client -> Seq(Token)] /\ c \in Client
      /\ got \in [Client -> SUBSET (Client \cup {None})]
  BY <1>3 DEF AnswerInv, AnswersIfReset, Clean, Typed, TypeOK
<1>7. CASE CloseHungUp(f) \/ WriteFails(f)
  <2>1. CloseConn(f, u) /\ in' = in /\ got' = got
    BY <1>7 DEF CloseHungUp, WriteFails, ghosts
  <2>2. QED
    BY <1>1, <1>2, <1>3, <1>6, <2>1, MainClean
<1>8. CASE WriteNothing(f)
  <2>1. user' = [user EXCEPT ![f] = Reset(u)] /\ conn' = conn /\ in' = in /\ got' = got
    BY <1>8 DEF WriteNothing, ghosts
  <2>2. QED
    BY <1>1, <1>2, <1>5, <1>6, <2>1, MainClean
<1>9. CASE WriteAgain(f)
  <2>1. user' = [user EXCEPT ![f] = u] /\ conn' = conn /\ in' = in /\ got' = got
    BY <1>4, <1>9 DEF WriteAgain, objects, ghosts
  <2>2. QED
    BY <1>1, <1>2, <1>6, <2>1, MainClean
<1>10. CASE Write(f)
  <2>1. in' = in /\ got' = [got EXCEPT ![c] = @ \cup {u.out[i] : i \in DOMAIN u.out}]
    BY <1>10 DEF Write
  <2>2. \A g \in Fd : Clean(g)'
    <3>1. CASE u.linger
      <4>1. user' = [user EXCEPT ![f] = Reset(u)] /\ conn' = conn
        BY <1>10, <3>1 DEF Write
      <4>2. QED
        BY <1>1, <1>2, <1>5, <1>6, <4>1, MainClean
    <3>2. CASE ~ u.linger
      <4>1. CloseConn(f, Reset(u))
        BY <1>10, <3>2 DEF Write
      <4>2. QED
        BY <1>1, <1>2, <1>5, <1>6, <4>1, MainClean
    <3>3. QED
      BY <3>1, <3>2
  <2>3. c \notin dirty => \A i \in DOMAIN u.out : u.out[i] = c
    BY <1>3, <1>6 DEF Clean, Belongs
  <2>4. \A d \in Client : d \in dirty' \/ got'[d] \subseteq {d}
    BY <1>1, <1>6, <2>1, <2>3
  <2>5. QED
    BY <1>6, <2>1, <2>2, <2>4
<1>11. CASE Read(f)
  <2> DEFINE n == IF ~ Alive(f) THEN 0 ELSE IF Len(in[c]) < Room(u) THEN Len(in[c]) ELSE Room(u)
             s == SubSeq(in[c], 1, n)
             v == IF n = 0 THEN u ELSE [u EXCEPT !.buf = @ \o s]
  <2>1. n \in Nat /\ n <= Len(in[c]) /\ s \in Seq(Token) /\ Len(s) = n /\ Len(in[c]) \in Nat
    BY <1>3, <1>6, Received, LenProperties
  <2>2. \A i \in 1..n : s[i].c = c
    <3>1. 1 \in Nat \ {0} /\ n \in 0..Len(in[c]) /\ in[c] \in Seq(Token)
      BY <1>6, <2>1
    <3>2. \A i \in 1..n - 1 + 1 : s[i] = in[c][1 + i - 1]
      BY <3>1, Part
    <3>3. DOMAIN in[c] = 1..Len(in[c])
      BY <3>1, LenProperties
    <3> HIDE DEF s, n
    <3>4. \A i \in 1..n : i \in 1..n - 1 + 1 /\ i \in DOMAIN in[c] /\ 1 + i - 1 = i
      BY <2>1, <3>1, <3>3, SMTT(30)
    <3>5. QED
      BY <1>6, <3>2, <3>4
  <2>3. got' = got
    BY <1>11 DEF Read
  <2>4. v.open
    BY <1>3, <1>4 DEF HttpConn
  <2>5. Belongs(u, c) => Belongs(v, c)
    <3>1. CASE n = 0
      BY <3>1
    <3>2. CASE n # 0
      <4>1. /\ v.buf = u.buf \o s /\ v.out = u.out /\ v.state = u.state /\ v.url = u.url
            /\ u.buf \in Seq(Token)
        BY <1>4, <3>2 DEF HttpConn
      <4> HIDE DEF v, s, n
      <4>2. \A i \in DOMAIN v.buf : \/ i \in DOMAIN u.buf /\ v.buf[i] = u.buf[i]
                                    \/ i - Len(u.buf) \in DOMAIN s /\ v.buf[i] = s[i - Len(u.buf)]
        <5>1. u.buf \in Seq(Token) /\ s \in Seq(Token) /\ v.buf = u.buf \o s
          BY <2>1, <4>1
        <5>2. /\ v.buf \in Seq(Token) /\ Len(v.buf) = Len(u.buf) + Len(s)
              /\ \A k \in 1..Len(u.buf) + Len(s) :
                   v.buf[k] = IF k <= Len(u.buf) THEN u.buf[k] ELSE s[k - Len(u.buf)]
          BY <5>1, ConcatProperties
        <5>3. QED
          BY <5>1, <5>2, Joined
      <4>3. DOMAIN s = 1..n
        BY <2>1, LenProperties
      <4>4. QED
        BY <2>2, <4>1, <4>2, <4>3 DEF Belongs
    <3>3. QED
      BY <3>1, <3>2
  <2>6. CASE Alive(f) /\ n < Room(u) /\ c \notin hup
    <3>1. user' = [user EXCEPT ![f] = v] /\ conn' = conn
      BY <1>11, <2>6 DEF Read
    <3> HIDE DEF v
    <3>2. \A g \in Fd : Clean(g)'
      BY <1>1, <1>2, <1>6, <2>5, <3>1, MainClean
    <3>3. QED
      BY <1>1, <1>6, <2>3, <3>2, SMTT(30)
  <2>7. CASE ~ (Alive(f) /\ n < Room(u) /\ c \notin hup)
    <3>1. CloseConn(f, v)
      BY <1>11, <2>7 DEF Read
    <3> HIDE DEF v
    <3>2. \A g \in Fd : Clean(g)'
      BY <1>1, <1>2, <1>6, <2>4, <2>5, <3>1, MainClean
    <3>3. QED
      BY <1>1, <1>6, <2>3, <3>2
  <2>8. QED
    BY <2>6, <2>7
<1>12. QED
  BY <1>7, <1>8, <1>9, <1>10, <1>11

\* The invariant of the answers is kept by every step.
LEMMA AnswersKept ==
  ASSUME Typed, HandInv, AnswerInv, [Next]_vars
  PROVE  AnswerInv'
<1>1. ASSUME ~ crossed
      PROVE  /\ \A g \in Fd : Clean(g)
             /\ \A c \in Client : c \in dirty \/ got[c] \subseteq {c}
  BY <1>1 DEF AnswerInv, AnswersIfReset, Clean
<1>2. \A c \in Client : \A i \in DOMAIN in[c] : in[c][i].c = c
  BY DEF AnswerInv
<1>3. ASSUME \A c \in Client : \A i \in DOMAIN in'[c] : in'[c][i].c = c,
             ~ crossed' => /\ \A g \in Fd : Clean(g)'
                           /\ \A c \in Client : c \in dirty' \/ got'[c] \subseteq {c}
      PROVE  AnswerInv'
  BY <1>3 DEF AnswerInv, AnswersIfReset, Clean
<1>4. CASE UNCHANGED vars
  BY <1>4 DEF vars, kernel, objects, ghosts, AnswerInv, AnswersIfReset, Belongs
<1>5. ASSUME NEW c \in Client, Connect(c) \/ HangUp(c)
      PROVE  AnswerInv'
  BY <1>5 DEF Connect, HangUp, objects, ghosts, AnswerInv, AnswersIfReset, Belongs
<1>6. ASSUME NEW c \in Client, Send(c)
      PROVE  AnswerInv'
  <2>1. UNCHANGED <<conn, user, work, got, dirty, crossed>>
    BY <1>6 DEF Send, objects, ghosts
  <2> DEFINE seg == Head(todo[c])
             m == [i \in DOMAIN seg |-> [c |-> c, k |-> seg[i]]]
  <2>2. in' = [in EXCEPT ![c] = in[c] \o m] /\ in \in [Client -> Seq(Token)]
    BY <1>6 DEF Send, Typed, TypeOK
  <2>3. seg \in Seq(Kinds)
    <3>1. todo[c] \in Seq(Seq(Kinds)) /\ todo[c] # <<>>
      BY <1>6 DEF Send, Typed, TypeOK
    <3>2. QED
      BY <3>1, HeadTailProperties
  <2>4. m \in Seq(Token) /\ \A i \in DOMAIN m : m[i].c = c
    <3>1. Len(seg) \in Nat /\ DOMAIN seg = 1..Len(seg) /\ \A i \in 1..Len(seg) : seg[i] \in Kinds
      BY <2>3, LenProperties, ElementOfSeq
    <3> HIDE DEF seg
    <3>2. m \in [1..Len(seg) -> Token]
      BY <3>1 DEF Token
    <3>3. QED
      BY <3>1, <3>2
  <2> HIDE DEF m
  <2>5. \A i \in DOMAIN in'[c] : in'[c][i].c = c
    <3>1. in'[c] = in[c] \o m /\ in[c] \in Seq(Token)
      BY <2>2
    <3>2. \A i \in DOMAIN in'[c] : \/ i \in DOMAIN in[c] /\ in'[c][i] = in[c][i]
                                   \/ i - Len(in[c]) \in DOMAIN m /\ in'[c][i] = m[i - Len(in[c])]
      <4>1. /\ in'[c] \in Seq(Token) /\ Len(in'[c]) = Len(in[c]) + Len(m)
            /\ \A k \in 1..Len(in[c]) + Len(m) :
                 in'[c][k] = IF k <= Len(in[c]) THEN in[c][k] ELSE m[k - Len(in[c])]
        BY <2>4, <3>1, ConcatProperties
      <4>2. QED
        BY <2>4, <3>1, <4>1, Joined
    <3>3. QED
      BY <1>2, <2>4, <3>2
  <2>6. \A d \in Client : \A i \in DOMAIN in'[d] : in'[d][i].c = d
    BY <1>2, <2>2, <2>5
  <2>7. ~ crossed' => \A g \in Fd : Clean(g)'
    BY <1>1, <2>1, StaysClean
  <2>8. QED
    BY <1>1, <1>3, <2>1, <2>6, <2>7
<1>7. CASE Poll \/ AcceptFails \/ AcceptBusy
  <2>1. UNCHANGED <<in, conn, user, work, got, dirty, crossed>>
    BY <1>7 DEF Poll, AcceptFails, AcceptBusy, kernel, objects, ghosts
  <2>2. ~ crossed' => \A g \in Fd : Clean(g)'
    BY <1>1, <2>1, StaysClean
  <2>3. QED
    BY <1>1, <1>2, <1>3, <2>1, <2>2
<1>8. ASSUME NEW f \in Fd, Accept(f)
      PROVE  AnswerInv'
  <2>1. /\ UNCHANGED <<in, work, got, crossed>> /\ dirty \subseteq dirty'
        /\ conn' = [conn EXCEPT ![f] = Head(backlog)]
        /\ user' = [user EXCEPT ![f] = InitUser(user[f])]
        /\ user[f] # Reset(user[f]) => Head(backlog) \in dirty'
    BY <1>8 DEF Accept
  <2>2. /\ conn \in [Fd -> Client \cup {None}] /\ user \in [Fd -> HttpConn] /\ conn[f] = None
    BY <1>8 DEF Accept, Typed, TypeOK
  <2>3. ASSUME NEW g \in Fd, g # f, ~ crossed
        PROVE  Clean(g)'
    <3>1. user'[g] = user[g] /\ conn'[g] = conn[g]
      BY <2>1, <2>2, <2>3
    <3>2. QED
      BY <1>1, <2>1, <2>3, <3>1, StaysClean
  <2>4. ASSUME ~ crossed
        PROVE  Clean(f)'
    <3>1. \A w \in Worker : work[w].fd # f
      BY <2>2, <2>4 DEF HandInv, Tended, Held, AtWork
    <3>2. CASE user[f] = Reset(user[f])
      <4>1. user[f].buf = <<>> /\ user[f].out = <<>> /\ user[f].state = "line"
        BY <3>2 DEF Reset, Fresh
      <4>2. /\ user'[f].buf = <<>> /\ user'[f].out = <<>> /\ user'[f].state = "line"
        BY <2>1, <2>2, <4>1 DEF InitUser, HttpConn
      <4>3. QED
        BY <2>1, <3>1, <4>2 DEF Clean, Belongs
    <3>3. CASE user[f] # Reset(user[f])
      BY <2>1, <2>2, <3>3 DEF Clean
    <3>4. QED
      BY <3>2, <3>3
  <2>5. QED
    BY <1>1, <1>2, <1>3, <2>1, <2>3, <2>4
<1>9. ASSUME NEW f \in Fd,
             \/ CloseHungUp(f) \/ Read(f) \/ Write(f) \/ WriteNothing(f) \/ WriteAgain(f)
             \/ WriteFails(f)
      PROVE  AnswerInv'
  <2>1. crossed' = crossed
    BY <1>9 DEF CloseHungUp, Read, Write, WriteNothing, WriteAgain, WriteFails, ghosts
  <2>2. \A d \in Client : \A i \in DOMAIN in'[d] : in'[d][i].c = d
    <3>1. CASE Read(f)
      BY <1>2, <3>1, LeftInSocket
    <3>2. CASE ~ Read(f)
      <4>1. in' = in
        BY <1>9, <3>2 DEF CloseHungUp, Write, WriteNothing, WriteAgain, WriteFails, kernel
      <4>2. QED
        BY <1>2, <4>1
    <3>3. QED
      BY <3>1, <3>2
  <2>3. QED
    BY <1>3, <1>9, <2>1, <2>2, EventAnswers, SMTT(30)
<1>10. ASSUME NEW w \in Worker, Process(w)
       PROVE  AnswerInv'
  <2>1. UNCHANGED <<in, got, dirty>> /\ (crossed => crossed')
    BY <1>10 DEF Process, Take, NoLine, ParseRequestLine, ParseHeaders, ParseContent,
       ParseContentLine, Rearm, Answer, WorkerClose, WorkerForget, WorkerDiscount, kernel, ghosts
  <2>2. ~ crossed' => \A g \in Fd : Clean(g)'
    BY <1>1, <1>10, <2>1, WorkClean
  <2>3. QED
    BY <1>1, <1>2, <1>3, <2>1, <2>2
<1>11. QED
  BY <1>4, <1>5, <1>6, <1>7, <1>8, <1>9, <1>10 DEF Next, Main, World

\* A client whose descriptor had an object in its initial state gets answers to
\* its own requests only, as long as no worker closes a connection: read, process
\* and write on one object after the other, over all clients it serves.
THEOREM AnswersIfResetHolds == Spec => []AnswersIfReset
<1>1. Init => AnswerInv
  <2> SUFFICES ASSUME Init PROVE AnswerInv
    OBVIOUS
  <2>1. \A c \in Client : \A i \in DOMAIN in[c] : in[c][i].c = c
    BY DEF Init
  <2>2. (\A c \in Client : got[c] = {}) /\ \A f \in Fd : conn[f] = None
    BY DEF Init
  <2>3. QED
    BY <2>1, <2>2 DEF AnswerInv, AnswersIfReset
<1>2. Typed /\ HandInv /\ AnswerInv /\ [Next]_vars => AnswerInv'
  BY AnswersKept
<1>3. AnswerInv => AnswersIfReset
  BY DEF AnswerInv
<1>4. QED
  BY <1>1, <1>2, <1>3, AlwaysTyped, AlwaysHands, PTL DEF Spec
=============================================================================
