------------------------------ MODULE CgiProof ------------------------------
(***************************************************************************)
(* No child of the process pool outlives a parent that leaves, and every   *)
(* variable keeps its type, for any number of children, connections,       *)
(* crashes and signals.                                                    *)
(***************************************************************************)
EXTENDS CgiSafety, TLAPS

KidShape == [at : {"unborn", "setup", "run", "zombie", "reaped"}, stop : BOOLEAN,
             events : SUBSET Event, terms : Nat, notes : Int, fresh : BOOLEAN]

\* What the steps rely on: kid and pid are tables of the children.
Shape == kid \in [Child -> KidShape] /\ pid \in [Child -> BOOLEAN] /\ stop \in BOOLEAN

\* Child i has ended, or has been told to end.
Told(i) == kid[i].at \in {"zombie", "reaped"} \/ kid[i].terms > 0 \/ kid[i].stop

\* While the parent forks, the children before k are there and have a pid.
Born(k) == \A i \in Child : (kid[i].at = "unborn" <=> i >= k) /\ (pid[i] <=> i < k)
Forking == at = "fork" => ~ stop /\ \E k \in Child : Born(k)

\* In its loop the parent has a pid for every child: it takes one away when a child
\* has ended, and hangs.
Staffed == at \in {"setup", "loop"} => \A i \in Child : kid[i].at # "unborn" /\ pid[i]

\* stop_ is set only when every child is told, and the parent leaves only then.
StopTold ==
  /\ at = "setup" => ~ stop
  /\ (at = "loop" /\ stop) \/ at = "gone" => \A i \in Child : Told(i)

OrphanInv == Shape /\ Forking /\ Staffed /\ StopTold

\* The children go on: none is born, and what has been told stays told.
KidsGoOn ==
  /\ kid' \in [Child -> KidShape]
  /\ \A j \in Child : kid'[j].at = "unborn" <=> kid[j].at = "unborn"
  /\ \A j \in Child : Told(j) => Told(j)'

\* The record of a child before its fork has the right shape.
LEMMA UnbornShape == Unborn \in KidShape
BY DEF Unborn, KidShape

\* So has the one of a child that has ended.
LEMMA ZombieShape ==
  ASSUME NEW r \in KidShape
  PROVE  [r EXCEPT !.at = "zombie"] \in KidShape
BY DEF KidShape

\* A child that ends.
LEMMA EndGoesOn ==
  ASSUME Shape, NEW i \in Child, kid[i].at \in {"setup", "run"}, End(i)
  PROVE  KidsGoOn
<1>1. [Unborn EXCEPT !.at = "zombie"] \in KidShape
  BY UnbornShape, ZombieShape
<1>2. /\ kid' = [kid EXCEPT ![i] = [Unborn EXCEPT !.at = "zombie"]]
      /\ [Unborn EXCEPT !.at = "zombie"].at = "zombie"
  BY DEF End, Unborn
<1> QED
  BY <1>1, <1>2 DEF KidsGoOn, Shape, Told

\* Every step of a child.
LEMMA KidGoesOn ==
  ASSUME Shape, NEW i \in Child, Kid(i)
  PROVE  KidsGoOn
<1>1. kid[i] \in KidShape
  BY DEF Shape
<1>2. CASE KidSetup(i)
  <2> DEFINE ran == [kid EXCEPT ![i].at = "run"]
  <2>1. kid' = [ran EXCEPT ![i].fresh = kid[i].notes > 0]
    BY <1>2 DEF KidSetup, Registered
  <2>2. ran \in [Child -> KidShape]
    BY DEF Shape, KidShape
  <2>3. (kid[i].notes > 0) \in BOOLEAN
    OBVIOUS
  <2>4. kid' \in [Child -> KidShape]
    <3> HIDE DEF ran
    <3> QED
      BY <2>1, <2>2, <2>3 DEF KidShape
  <2> QED
    BY <1>2, <2>1, <2>4 DEF KidSetup, KidsGoOn, Shape, Told, KidShape
<1>3. CASE KidPoll(i)
  <2>1. Pending(i) \in SUBSET Event
    BY DEF Pending, Mine, Event
  <2> QED
    BY <1>1, <1>3, <2>1 DEF KidPoll, KidsGoOn, Shape, Told, KidShape
<1>4. CASE KidLeave(i)
  BY <1>4, EndGoesOn DEF KidLeave
<1>5. CASE KidSignal(i)
  <2>1. Rest(i, "signal") \in SUBSET Event
    BY <1>1 DEF Rest, KidShape
  <2> QED
    BY <1>1, <1>5, <2>1 DEF KidSignal, Stops, Handle, KidsGoOn, Shape, Told, KidShape
<1>6. ASSUME NEW c \in Conn, KidAccept(i, c)
      PROVE  KidsGoOn
  <2>1. Rest(i, "pipe") \in SUBSET Event
    BY <1>1 DEF Rest, KidShape
  <2> QED
    BY <1>1, <1>6, <2>1 DEF KidAccept, Handle, KidsGoOn, Shape, Told, KidShape
<1>7. ASSUME NEW c \in Conn, NEW to, KidServe(i, c, to)
      PROVE  KidsGoOn
  <2>1. Rest(i, c) \in SUBSET Event
    BY <1>1 DEF Rest, KidShape
  <2> QED
    BY <1>1, <1>7, <2>1 DEF KidServe, Handle, KidsGoOn, Shape, Told, KidShape
<1> QED
  BY <1>2, <1>3, <1>4, <1>5, <1>6, <1>7 DEF Kid, KidWait, KidFork, KidClose

\* A step that leaves the children alone.
LEMMA Untouched ==
  ASSUME Shape, UNCHANGED kid
  PROVE  KidsGoOn
BY DEF Shape, KidsGoOn, Told

\* A step after which the parent is where it was and knows what it knew.
LEMMA SameParent ==
  ASSUME OrphanInv, KidsGoOn, UNCHANGED <<at, stop, pid>>
  PROVE  OrphanInv'
<1>1. Shape' /\ Staffed' /\ StopTold'
  BY DEF OrphanInv, Shape, Staffed, StopTold, KidsGoOn
<1>2. ASSUME NEW k \in Child, Born(k)
      PROVE  Born(k)'
  BY <1>2 DEF Born, KidsGoOn
<1> QED
  BY <1>1, <1>2 DEF OrphanInv, Forking

\* Before the first fork nobody is there to be told.
LEMMA InitOrphan == Init => OrphanInv
<1> SUFFICES ASSUME Init PROVE OrphanInv
  OBVIOUS
<1>1. Unborn \in KidShape /\ Unborn.at = "unborn"
  BY DEF Unborn, KidShape
<1>2. 0 \in Child
  BY PoolSizes DEF Child
<1>3. Shape
  BY <1>1 DEF Init, Shape
<1>4. Born(0)
  BY <1>1 DEF Born, Init, Child
<1> QED
  BY <1>2, <1>3, <1>4 DEF OrphanInv, Forking, Staffed, StopTold, Init

\* The parent forks the first child that is not there yet.
LEMMA ForkFirst ==
  ASSUME OrphanInv, Fork
  PROVE  \E k \in Child :
           /\ Born(k) /\ at = "fork" /\ UNCHANGED stop
           /\ kid' = [kid EXCEPT ![k].at = "setup"] /\ pid' = [pid EXCEPT ![k] = TRUE]
           /\ at' = IF k = N - 1 THEN "setup" ELSE "fork"
<1> DEFINE First(i) == kid[i].at = "unborn" /\ \A j \in 0..i - 1 : kid[j].at # "unborn"
<1>1. PICK k \in Child : Born(k)
  BY DEF Fork, OrphanInv, Forking
<1>2. First(k)
  <2>1. k \in Int /\ kid[k].at = "unborn"
    BY <1>1 DEF Born, Child
  <2>2. \A j \in 0..k - 1 : j \in Child /\ ~ (j >= k)
    BY <2>1, PoolSizes DEF Child
  <2> QED
    BY <1>1, <2>1, <2>2 DEF Born
<1>3. ASSUME NEW i \in Child, First(i) PROVE i = k
  BY <1>1, <1>2, <1>3 DEF Born, Child
<1>4. (CHOOSE i \in Child : First(i)) = k
  BY <1>2, <1>3
<1> HIDE DEF First
<1> QED
  BY <1>1, <1>4 DEF Fork, First

\* After a fork one child more is there, with its pid; after the last one all are.
LEMMA ForkStep == OrphanInv /\ Fork => OrphanInv'
<1> SUFFICES ASSUME OrphanInv, Fork PROVE OrphanInv'
  OBVIOUS
<1>1. PICK k \in Child :
        /\ Born(k) /\ at = "fork" /\ UNCHANGED stop
        /\ kid' = [kid EXCEPT ![k].at = "setup"] /\ pid' = [pid EXCEPT ![k] = TRUE]
        /\ at' = IF k = N - 1 THEN "setup" ELSE "fork"
  BY ForkFirst
<1>2. Shape' /\ ~ stop'
  BY <1>1 DEF OrphanInv, Forking, Shape, KidShape
<1>3. \A i \in Child : (kid'[i].at = "unborn" <=> i >= k + 1) /\ (pid'[i] <=> i < k + 1)
  BY <1>1 DEF Born, OrphanInv, Shape, KidShape, Child
<1>4. CASE k = N - 1
  BY <1>1, <1>2, <1>3, <1>4, PoolSizes DEF OrphanInv, Forking, Staffed, StopTold, Child
<1>5. CASE k # N - 1
  <2>1. k + 1 \in Child
    BY <1>5, PoolSizes DEF Child
  <2>2. Born(k + 1)'
    BY <1>3 DEF Born
  <2> QED
    BY <1>1, <1>2, <1>5, <2>1, <2>2 DEF OrphanInv, Forking, Staffed, StopTold
<1> QED
  BY <1>4, <1>5

\* SIGTERM reaches every child, since the parent has a pid for each.
LEMMA KillAllStep == OrphanInv /\ KillAll => OrphanInv'
<1> SUFFICES ASSUME OrphanInv, KillAll PROVE OrphanInv'
  OBVIOUS
<1>1. at = "loop" /\ at' = "loop" /\ stop' = TRUE /\ UNCHANGED pid
  BY DEF KillAll, Msg
<1>2. \A i \in Child : pid[i] /\ kid[i].at # "unborn" /\ kid[i] \in KidShape
  BY <1>1 DEF OrphanInv, Staffed, Shape
<1>3. ASSUME NEW i \in Child
      PROVE  /\ Killed(i) \in KidShape /\ Killed(i).at # "unborn"
             /\ Killed(i).at \in {"zombie", "reaped"} \/ Killed(i).terms > 0
  <2>1. CASE kid[i].at = "setup"
    <3>1. Killed(i) = [Unborn EXCEPT !.at = "zombie"]
      BY <1>2, <2>1 DEF Killed
    <3> QED
      BY <3>1, UnbornShape, ZombieShape DEF Unborn
  <2>2. CASE kid[i].at = "run"
    BY <1>2, <2>2 DEF Killed, KidShape
  <2>3. CASE kid[i].at \in {"zombie", "reaped"}
    BY <1>2, <2>3 DEF Killed, KidShape
  <2> QED
    BY <1>2, <2>1, <2>2, <2>3 DEF KidShape
<1>4. kid' = [i \in Child |-> Killed(i)]
  BY DEF KillAll
<1> QED
  BY <1>1, <1>2, <1>3, <1>4 DEF OrphanInv, Shape, Forking, Staffed, StopTold, Told

\* SIGCHLD without a child to wait for takes stop_ back: every child has a pid.
LEMMA ReapNobodyStep == OrphanInv /\ ReapNobody => OrphanInv'
<1> SUFFICES ASSUME OrphanInv, ReapNobody PROVE OrphanInv'
  OBVIOUS
<1>1. at = "loop" /\ UNCHANGED <<at, pid, kid>> /\ stop' = \A i \in Child : ~ pid[i]
  BY DEF ReapNobody, Msg
<1>2. 0 \in Child
  BY PoolSizes DEF Child
<1>3. stop' = FALSE
  BY <1>1, <1>2 DEF OrphanInv, Staffed
<1> QED
  BY <1>1, <1>3 DEF OrphanInv, Shape, Forking, Staffed, StopTold

\* The steps of the parent keep the invariant.
LEMMA ParentStep == OrphanInv /\ Parent => OrphanInv'
<1> SUFFICES ASSUME OrphanInv, Parent PROVE OrphanInv'
  OBVIOUS
<1>0. Shape
  BY DEF OrphanInv
<1>1. CASE Setup
  BY <1>1 DEF Setup, OrphanInv, Shape, Forking, Staffed, StopTold
<1>2. CASE Poll \/ ReadSignals
  BY <1>0, <1>2, Untouched, SameParent DEF Poll, ReadSignals
<1>3. CASE Leave
  BY <1>3 DEF Leave, Turn, OrphanInv, Shape, Forking, Staffed, StopTold, Told
<1>4. ASSUME NEW i \in Child, Assign(i)
      PROVE  OrphanInv'
  <2>1. KidsGoOn
    <3> DEFINE noted == [kid EXCEPT ![i].notes = @ + 1]
    <3>1. noted \in [Child -> KidShape]
      BY <1>0 DEF Shape, KidShape
    <3>2. [noted EXCEPT ![i].fresh = TRUE] \in [Child -> KidShape]
      <4> HIDE DEF noted
      <4> QED
        BY <3>1 DEF KidShape
    <3>3. kid' = [noted EXCEPT ![i].fresh = TRUE] \/ kid' = kid
      BY <1>4 DEF Assign
    <3> QED
      BY <1>0, <3>2, <3>3, SMTT(30) DEF Shape, KidsGoOn, Told, KidShape
  <2> QED
    BY <1>4, <2>1, SameParent DEF Assign
<1>5. ASSUME NEW i \in Child, Reap(i)
      PROVE  OrphanInv'
  BY <1>0, <1>5 DEF Reap, Msg, OrphanInv, Shape, KidShape, Forking, Staffed, StopTold
<1> QED
  BY <1>1, <1>2, <1>3, <1>4, <1>5, ForkStep, KillAllStep, ReapNobodyStep DEF Parent

\* So do crashes, signals and clients.
LEMMA WorldStep == OrphanInv /\ World => OrphanInv'
<1> SUFFICES ASSUME OrphanInv, World PROVE OrphanInv'
  OBVIOUS
<1>0. Shape
  BY DEF OrphanInv
<1>1. CASE Term
  BY <1>1 DEF Term, OrphanInv, Shape, Forking, Staffed, StopTold, Told, Born
<1>2. ASSUME NEW i \in Child, Crash(i)
      PROVE  OrphanInv'
  BY <1>0, <1>2, EndGoesOn, SameParent DEF Crash
<1>3. ASSUME NEW i \in Child, Pause(i)
      PROVE  OrphanInv'
  BY <1>0, <1>3, Untouched, SameParent DEF Pause
<1>4. ASSUME NEW c \in Conn, Connect(c) \/ Send(c) \/ HangUp(c)
      PROVE  OrphanInv'
  BY <1>0, <1>4, Untouched, SameParent DEF Connect, Send, HangUp, parent
<1> QED
  BY <1>1, <1>2, <1>3, <1>4 DEF World

\* Every step keeps the invariant.
LEMMA NextOrphan == OrphanInv /\ [Next]_poolVars => OrphanInv'
<1> SUFFICES ASSUME OrphanInv, [Next]_poolVars PROVE OrphanInv'
  OBVIOUS
<1>0. Shape
  BY DEF OrphanInv
<1>1. ASSUME NEW i \in Child, Kid(i)
      PROVE  OrphanInv'
  <2>1. KidsGoOn
    BY <1>0, <1>1, KidGoesOn
  <2>2. UNCHANGED <<at, stop, pid>>
    BY <1>1 DEF Kid, KidSetup, KidPoll, KidLeave, KidSignal, KidAccept, KidWait, KidFork,
                KidClose, KidServe, parent
  <2> QED
    BY <2>1, <2>2, SameParent
<1>2. CASE UNCHANGED poolVars
  BY <1>0, <1>2, Untouched, SameParent DEF poolVars, parent
<1> QED
  BY <1>1, <1>2, ParentStep, WorldStep DEF Next

\* RunParent returns only when every child has ended or has a SIGTERM it will see,
\* whatever children end or are stopped and in whatever order signals are read.
THEOREM OrphansTold == Spec => []NoOrphans
<1>1. OrphanInv => NoOrphans
  BY DEF OrphanInv, StopTold, Told, NoOrphans
<1> QED
  BY <1>1, InitOrphan, NextOrphan, PTL DEF Spec
-----------------------------------------------------------------------------
(***************************************************************************)
(* The type invariant.  What is not obvious is that a child never takes    *)
(* more messages from its pipe than the parent has written: notes stays a  *)
(* natural number because an event of the pipe, reported or on its way,    *)
(* stands for a message that is still there.                               *)
(***************************************************************************)

KidType == [at : {"unborn", "setup", "run", "zombie", "reaped"}, stop : BOOLEAN,
            events : SUBSET Event, terms : Nat, notes : Nat, fresh : BOOLEAN]

\* Every event of the pipe stands for a message, and nobody handles events before
\* it runs.
Covered(r) ==
  /\ r.fresh \/ "pipe" \in r.events => r.notes >= 1
  /\ r.fresh /\ "pipe" \in r.events => r.notes >= 2
  /\ r.at \in {"unborn", "setup"} => "pipe" \notin r.events

KidsOK == kid \in [Child -> KidType] /\ \A i \in Child : Covered(kid[i])

SockType == [at : {"new", "backlog", "open", "cgi", "closed"}, by : Child, in : Nat,
             fresh : BOOLEAN, eof : BOOLEAN]

SocksOK == sock \in [Conn -> SockType]

FaultsOK == faults \in [crash : 0..MaxFault, term : 0..MaxTerm, pause : 0..MaxFault]

ParentOK ==
  /\ at \in {"fork", "setup", "loop", "hung", "gone", "killed"}
  /\ stop \in BOOLEAN /\ edge \in BOOLEAN /\ crowded \in BOOLEAN
  /\ next \in Child /\ pid \in [Child -> BOOLEAN]
  /\ events \subseteq {"listen", "signal"}
  /\ signals \in Seq({"CHLD", "TERM"}) /\ msgs \in Seq({"CHLD", "TERM"})

TypeInv == OrphanInv /\ ParentOK /\ KidsOK /\ SocksOK /\ FaultsOK

\* A child whose record is replaced by one that is right.
LEMMA NewKid ==
  ASSUME KidsOK, NEW i \in Child, NEW r, r \in KidType, Covered(r),
         kid' = [kid EXCEPT ![i] = r]
  PROVE  KidsOK'
BY DEF KidsOK

\* A child before its fork, or after its end, holds no event and no message.
LEMMA EndedKid ==
  /\ Unborn \in KidType /\ Covered(Unborn)
  /\ [Unborn EXCEPT !.at = "zombie"] \in KidType
  /\ Covered([Unborn EXCEPT !.at = "zombie"])
<1>1. Unborn \in KidType /\ [Unborn EXCEPT !.at = "zombie"] \in KidType
  BY DEF Unborn, KidType
<1> QED
  BY <1>1 DEF Unborn, Covered

\* The steps of a child keep its record right.
LEMMA KidKeepsKids ==
  ASSUME KidsOK, NEW i \in Child, Kid(i)
  PROVE  KidsOK'
<1>0. kid[i] \in KidType /\ Covered(kid[i]) /\ kid \in [Child -> KidType]
  BY DEF KidsOK
<1>1. CASE KidSetup(i)
  <2> DEFINE r == [[kid[i] EXCEPT !.at = "run"] EXCEPT !.fresh = kid[i].notes > 0]
  <2>1. kid' = [kid EXCEPT ![i] = r]
    BY <1>0, <1>1 DEF KidSetup, Registered
  <2>2. (kid[i].notes > 0) \in BOOLEAN
    OBVIOUS
  <2>3. [kid[i] EXCEPT !.at = "run"] \in KidType
    BY <1>0 DEF KidType
  <2>4. r \in KidType
    <3>1. \A q \in KidType, f \in BOOLEAN : [q EXCEPT !.fresh = f] \in KidType
      BY DEF KidType
    <3>2. PICK f \in BOOLEAN : f = (kid[i].notes > 0)
      BY <2>2
    <3> DEFINE ran == [kid[i] EXCEPT !.at = "run"]
    <3>0. ran \in KidType
      BY <2>3
    <3>3. [ran EXCEPT !.fresh = f] \in KidType
      <4> HIDE DEF ran
      <4> QED
        BY <3>0, <3>1
    <3> QED
      BY <3>2, <3>3
  <2>5. /\ r.at = "run" /\ r.events = kid[i].events /\ r.notes = kid[i].notes
        /\ r.fresh = (kid[i].notes > 0)
    BY <1>0 DEF KidType
  <2>6. "pipe" \notin r.events /\ r.notes \in Nat
    BY <1>0, <1>1, <2>5 DEF KidSetup, Covered, KidType
  <2>7. Covered(r)
    <3> HIDE DEF r
    <3>1. r.fresh => r.notes >= 1
      <4>1. r.fresh => kid[i].notes > 0
        BY <2>5, Zenon
      <4> QED
        BY <2>5, <2>6, <4>1
    <3> QED
      BY <2>5, <2>6, <3>1 DEF Covered
  <2> QED
    BY <2>1, <2>4, <2>7, NewKid
<1>2. CASE KidPoll(i)
  <2> DEFINE r == [[kid[i] EXCEPT !.events = Pending(i)] EXCEPT !.fresh = FALSE]
  <2>1. kid' = [kid EXCEPT ![i] = r]
    BY <1>0, <1>2 DEF KidPoll
  <2>2. Pending(i) \in SUBSET Event
    BY DEF Pending, Mine, Event
  <2>3. "pipe" \in Pending(i) => kid[i].fresh \/ "pipe" \in Conn
    BY DEF Pending, Mine
  <2>4. "pipe" \notin Conn
    BY PoolSizes
  <2>5. [kid[i] EXCEPT !.events = Pending(i)] \in KidType
    BY <1>0, <2>2 DEF KidType
  <2>6. r \in KidType
    BY <2>5 DEF KidType
  <2>7. /\ r.at = kid[i].at /\ r.events = Pending(i) /\ r.notes = kid[i].notes
        /\ r.fresh = FALSE
    BY <1>0, <2>2 DEF KidType
  <2>8. Covered(r)
    BY <1>0, <1>2, <2>3, <2>4, <2>7 DEF KidPoll, Covered
  <2> QED
    BY <2>1, <2>6, <2>8, NewKid
<1>3. CASE KidLeave(i)
  BY <1>3, EndedKid, NewKid DEF KidLeave, End
<1>4. CASE KidSignal(i)
  <2> DEFINE r == [kid[i] EXCEPT !.events = Rest(i, "signal"), !.terms = 0, !.stop = TRUE]
  <2>1. kid' = [kid EXCEPT ![i] = r]
    BY <1>0, <1>4 DEF KidSignal, Stops
  <2>2. Rest(i, "signal") \in SUBSET Event
    BY <1>0 DEF Rest, KidType
  <2>3. r \in KidType /\ Covered(r)
    BY <1>0, <1>4, <2>2 DEF KidSignal, Handle, KidType, Covered, Rest
  <2> QED
    BY <2>1, <2>3, NewKid
<1>5. ASSUME NEW c \in Conn, KidAccept(i, c)
      PROVE  KidsOK'
  <2> DEFINE r == [kid[i] EXCEPT !.events = Rest(i, "pipe"), !.notes = kid[i].notes - 1]
  <2>1. kid' = [kid EXCEPT ![i] = r]
    BY <1>0, <1>5 DEF KidAccept
  <2>2. Rest(i, "pipe") \in SUBSET Event
    BY <1>0 DEF Rest, KidType
  <2>3. r \in KidType /\ Covered(r)
    BY <1>0, <1>5, <2>2 DEF KidAccept, Handle, KidType, Covered, Rest
  <2> QED
    BY <2>1, <2>3, NewKid
<1>6. ASSUME NEW c \in Conn, NEW to, KidServe(i, c, to)
      PROVE  KidsOK'
  <2> DEFINE r == [kid[i] EXCEPT !.events = Rest(i, c)]
  <2>1. kid' = [kid EXCEPT ![i] = r]
    BY <1>0, <1>6 DEF KidServe
  <2>2. Rest(i, c) \in SUBSET Event
    BY <1>0 DEF Rest, KidType
  <2>3. r \in KidType /\ Covered(r)
    BY <1>0, <1>6, <2>2 DEF KidServe, Handle, KidType, Covered, Rest
  <2> QED
    BY <2>1, <2>3, NewKid
<1> QED
  BY <1>1, <1>2, <1>3, <1>4, <1>5, <1>6 DEF Kid, KidWait, KidFork, KidClose

\* The steps of the parent and of the world keep them right.
LEMMA OthersKeepKids ==
  ASSUME OrphanInv, KidsOK, Parent \/ World
  PROVE  KidsOK'
<1>0. \A i \in Child : kid[i] \in KidType /\ Covered(kid[i])
  BY DEF KidsOK
<1>1. CASE Fork
  <2>1. PICK k \in Child : Born(k) /\ kid' = [kid EXCEPT ![k].at = "setup"]
    BY <1>1, ForkFirst
  <2> DEFINE r == [kid[k] EXCEPT !.at = "setup"]
  <2>2. kid[k].at = "unborn"
    BY <2>1 DEF Born, Child
  <2>3. r \in KidType /\ Covered(r)
    BY <1>0, <2>2 DEF KidType, Covered
  <2>4. kid' = [kid EXCEPT ![k] = r]
    BY <2>1 DEF KidsOK
  <2> QED
    BY <2>3, <2>4, NewKid
<1>2. CASE KillAll
  <2>1. ASSUME NEW i \in Child
        PROVE  Killed(i) \in KidType /\ Covered(Killed(i))
    <3>0. kid[i] \in KidType /\ Covered(kid[i])
      BY <1>0
    <3>1. [kid[i] EXCEPT !.terms = kid[i].terms + 1] \in KidType
      BY <3>0 DEF KidType
    <3>2. Covered([kid[i] EXCEPT !.terms = kid[i].terms + 1])
      BY <3>0 DEF KidType, Covered
    <3>3. CASE pid[i] /\ kid[i].at = "setup"
      BY <3>3, EndedKid DEF Killed
    <3>4. CASE pid[i] /\ kid[i].at = "run"
      BY <3>1, <3>2, <3>4 DEF Killed
    <3>5. CASE ~ (pid[i] /\ kid[i].at = "setup") /\ ~ (pid[i] /\ kid[i].at = "run")
      BY <3>0, <3>5 DEF Killed
    <3> QED
      BY <3>3, <3>4, <3>5
  <2> QED
    BY <1>2, <2>1 DEF KillAll, KidsOK
<1>3. ASSUME NEW i \in Child, Assign(i)
      PROVE  KidsOK'
  <2> DEFINE r == [[kid[i] EXCEPT !.notes = kid[i].notes + 1] EXCEPT !.fresh = TRUE]
  <2>1. kid' = [kid EXCEPT ![i] = r] \/ kid' = kid
    BY <1>3 DEF Assign, KidsOK
  <2>2. kid[i].notes \in Nat /\ kid[i].notes + 1 \in Nat
    BY <1>0 DEF KidType
  <2>3. [kid[i] EXCEPT !.notes = kid[i].notes + 1] \in KidType
    BY <1>0, <2>2 DEF KidType
  <2>4. r \in KidType
    BY <2>3 DEF KidType
  <2>5. r.at = kid[i].at /\ r.events = kid[i].events /\ r.notes = kid[i].notes + 1
    BY <1>0 DEF KidType
  <2>6. Covered(r)
    BY <1>0, <2>2, <2>5 DEF Covered
  <2> QED
    BY <2>1, <2>4, <2>6, NewKid DEF KidsOK
<1>4. ASSUME NEW i \in Child, Reap(i)
      PROVE  KidsOK'
  <2> DEFINE r == [kid[i] EXCEPT !.at = "reaped"]
  <2>1. kid' = [kid EXCEPT ![i] = r]
    BY <1>4 DEF Reap, KidsOK
  <2>2. r \in KidType /\ Covered(r)
    BY <1>0 DEF KidType, Covered
  <2> QED
    BY <2>1, <2>2, NewKid
<1>5. ASSUME NEW i \in Child, Crash(i)
      PROVE  KidsOK'
  BY <1>5, EndedKid, NewKid DEF Crash, End
<1>6. ASSUME UNCHANGED kid
      PROVE  KidsOK'
  BY <1>6 DEF KidsOK
<1>7. CASE Setup \/ Poll \/ Leave \/ ReadSignals \/ ReapNobody \/ Term
  BY <1>6, <1>7 DEF Setup, Poll, Leave, ReadSignals, ReapNobody, Term
<1>8. CASE (\E i \in Child : Pause(i)) \/ \E c \in Conn : Connect(c) \/ Send(c) \/ HangUp(c)
  BY <1>6, <1>8 DEF Pause, Connect, Send, HangUp
<1> QED
  BY <1>1, <1>2, <1>3, <1>4, <1>5, <1>7, <1>8 DEF Parent, World

\* Every step keeps the connections' records right.
LEMMA StepKeepsSocks ==
  ASSUME SocksOK, Next
  PROVE  SocksOK'
<1>0. 0 \in Child
  BY PoolSizes DEF Child
<1>1. \A c \in Conn : sock[c] \in SockType
  BY DEF SocksOK
<1>2. NoSock \in SockType
  BY <1>0 DEF NoSock, SockType
<1>3. ASSUME NEW c \in Conn, NEW r \in SockType, sock' = [sock EXCEPT ![c] = r]
      PROVE  SocksOK'
  BY <1>3 DEF SocksOK
<1>4. ASSUME NEW i \in Child, End(i)
      PROVE  SocksOK'
  <2>1. [NoSock EXCEPT !.at = "closed"] \in SockType
    BY <1>2 DEF SockType
  <2> QED
    BY <1>1, <1>4, <2>1 DEF End, SocksOK
<1>5. ASSUME NEW c \in Conn, Connect(c)
      PROVE  SocksOK'
  <2>1. [sock[c] EXCEPT !.at = "backlog"] \in SockType
    BY <1>1 DEF SockType
  <2> QED
    BY <1>3, <1>5, <2>1 DEF Connect, SocksOK
<1>6. ASSUME NEW c \in Conn, Send(c)
      PROVE  SocksOK'
  <2> DEFINE r == [[sock[c] EXCEPT !.in = sock[c].in + 1] EXCEPT !.fresh = TRUE]
  <2>0. [sock[c] EXCEPT !.in = sock[c].in + 1] \in SockType
    BY <1>1 DEF SockType
  <2>1. r \in SockType
    BY <2>0 DEF SockType
  <2>2. sock' = [sock EXCEPT ![c] = r]
    BY <1>6 DEF Send, SocksOK
  <2> QED
    BY <1>3, <2>1, <2>2
<1>7. ASSUME NEW c \in Conn, HangUp(c)
      PROVE  SocksOK'
  <2> DEFINE r == [sock[c] EXCEPT !.eof = TRUE, !.fresh = TRUE]
  <2>1. r \in SockType
    BY <1>1 DEF SockType
  <2>2. sock' = [sock EXCEPT ![c] = r]
    BY <1>7 DEF HangUp, SocksOK
  <2> QED
    BY <1>3, <2>1, <2>2
<1>8. ASSUME NEW i \in Child, KidPoll(i)
      PROVE  SocksOK'
  <2>1. \A c \in Conn : [sock[c] EXCEPT !.fresh = FALSE] \in SockType
    BY <1>1 DEF SockType
  <2> QED
    BY <1>1, <1>8, <2>1 DEF KidPoll, SocksOK
<1>9. ASSUME NEW i \in Child, NEW c \in Conn, KidAccept(i, c)
      PROVE  SocksOK'
  <2> DEFINE r == [sock[c] EXCEPT !.at = "open", !.by = i,
                                  !.fresh = (sock[c].in > 0 \/ sock[c].eof)]
  <2>1. (sock[c].in > 0 \/ sock[c].eof) \in BOOLEAN
    BY <1>1 DEF SockType
  <2>2. [[sock[c] EXCEPT !.at = "open"] EXCEPT !.by = i] \in SockType
    BY <1>1 DEF SockType
  <2>3. r \in SockType
    BY <1>1, <2>1, <2>2 DEF SockType
  <2>4. sock' = [sock EXCEPT ![c] = r]
    BY <1>9 DEF KidAccept, Registered, SocksOK
  <2> QED
    BY <1>3, <2>3, <2>4
<1>10. ASSUME NEW i \in Child, NEW c \in Conn, NEW to \in {"open", "cgi", "closed"},
              KidServe(i, c, to)
       PROVE  SocksOK'
  <2>1. [NoSock EXCEPT !.at = to] \in SockType
    BY <1>2 DEF SockType
  <2> QED
    BY <1>1, <1>3, <1>10, <2>1 DEF KidServe, SocksOK
<1>11. ASSUME UNCHANGED sock
       PROVE  SocksOK'
  BY <1>11 DEF SocksOK
<1>12. CASE Parent
  BY <1>11, <1>12 DEF Parent, Fork, Setup, Poll, Leave, ReadSignals, ReapNobody, KillAll,
                      Assign, Reap
<1>13. CASE World
  BY <1>4, <1>5, <1>6, <1>7, <1>11, <1>13 DEF World, Term, Crash, Pause
<1>14. ASSUME NEW i \in Child, Kid(i)
       PROVE  SocksOK'
  <2>1. CASE KidSetup(i) \/ KidSignal(i)
    BY <1>11, <2>1 DEF KidSetup, KidSignal
  <2> QED
    BY <1>4, <1>8, <1>9, <1>10, <1>14, <2>1 DEF Kid, KidLeave, KidWait, KidFork, KidClose
<1> QED
  BY <1>12, <1>13, <1>14 DEF Next

\* Every step keeps the parent and the counters of the bounds right.
LEMMA StepKeepsParent ==
  ASSUME OrphanInv, ParentOK, FaultsOK, Next
  PROVE  ParentOK' /\ FaultsOK'
<1> DEFINE Signal == {"CHLD", "TERM"}
<1>0. Signalled("CHLD") \in Seq(Signal) /\ Signalled("TERM") \in Seq(Signal)
  BY DEF ParentOK, Signalled
<1>1. Waiting \in BOOLEAN
  BY DEF Waiting
<1>2. msgs # <<>> => Tail(msgs) \in Seq(Signal)
  BY DEF ParentOK
<1>3. \A i \in Child : (i + 1) % N \in Child
  BY PoolSizes DEF Child
<1>4. CASE Fork
  BY <1>4 DEF Fork, ParentOK, FaultsOK
<1>5. CASE Setup
  BY <1>1, <1>5 DEF Setup, Registered, ParentOK, FaultsOK
<1>6. CASE Poll \/ Leave \/ ReadSignals
  BY <1>6 DEF Poll, Turn, Leave, ReadSignals, ParentOK, FaultsOK
<1>7. CASE ReapNobody
  <2>1. (\A i \in Child : ~ pid[i]) \in BOOLEAN
    OBVIOUS
  <2> QED
    BY <1>2, <1>7, <2>1 DEF ReapNobody, Msg, ParentOK, FaultsOK
<1>8. CASE KillAll
  BY <1>0, <1>2, <1>8 DEF KillAll, Msg, ParentOK, FaultsOK
<1>9. ASSUME NEW i \in Child, Assign(i)
      PROVE  ParentOK' /\ FaultsOK'
  BY <1>3, <1>9 DEF Assign, AfterChosen, ParentOK, FaultsOK
<1>10. ASSUME NEW i \in Child, Reap(i)
       PROVE  ParentOK' /\ FaultsOK'
  <2>1. <<>> \in Seq(Signal)
    OBVIOUS
  <2>2. pid' \in [Child -> BOOLEAN]
    BY <1>10 DEF Reap, ParentOK
  <2>3. /\ at' = "hung" /\ events' = {} /\ signals' = <<>> /\ msgs' = <<>> /\ edge' = FALSE
        /\ UNCHANGED <<stop, next, crowded, faults>>
    BY <1>10 DEF Reap, Msg
  <2> QED
    BY <2>1, <2>2, <2>3 DEF ParentOK, FaultsOK
<1>11. CASE Term
  <2>1. FaultsOK'
    BY <1>11, PoolSizes DEF Term, FaultsOK
  <2> QED
    BY <1>0, <1>11, <2>1 DEF Term, ParentOK
<1>12. ASSUME NEW i \in Child, Crash(i) \/ Pause(i)
       PROVE  ParentOK' /\ FaultsOK'
  <2>1. FaultsOK'
    BY <1>12, PoolSizes DEF Crash, Pause, FaultsOK
  <2> QED
    BY <1>0, <1>12, <2>1 DEF Crash, Pause, End, ParentOK
<1>13. ASSUME NEW c \in Conn, Connect(c) \/ Send(c) \/ HangUp(c)
       PROVE  ParentOK' /\ FaultsOK'
  BY <1>1, <1>13 DEF Connect, Send, HangUp, parent, ParentOK, FaultsOK
<1>14. ASSUME NEW i \in Child, KidLeave(i)
       PROVE  ParentOK' /\ FaultsOK'
  BY <1>0, <1>14 DEF KidLeave, End, ParentOK, FaultsOK
<1>15. ASSUME NEW i \in Child, Kid(i), ~ KidLeave(i)
       PROVE  ParentOK' /\ FaultsOK'
  <2>1. UNCHANGED <<parent, edge, crowded, faults>>
    BY <1>15 DEF Kid, KidSetup, KidPoll, KidSignal, KidAccept, KidWait, KidFork, KidClose,
                 KidServe
  <2> QED
    BY <2>1 DEF parent, ParentOK, FaultsOK
<1> QED
  BY <1>4, <1>5, <1>6, <1>7, <1>8, <1>9, <1>10, <1>11, <1>12, <1>13, <1>14, <1>15
     DEF Next, Parent, World

\* Every variable of the process pool holds what the code's type allows; a child
\* never takes a message from its pipe that is not there.
THEOREM TypeCorrect == Spec => []TypeOK
<1>1. Init => TypeInv
  <2> SUFFICES ASSUME Init PROVE TypeInv
    OBVIOUS
  <2>1. 0 \in Child
    BY PoolSizes DEF Child
  <2>2. ParentOK /\ FaultsOK
    <3>1. <<>> \in Seq({"CHLD", "TERM"})
      OBVIOUS
    <3>2. ParentOK
      BY <2>1, <3>1 DEF Init, ParentOK
    <3>3. 0 \in 0..MaxFault /\ 0 \in 0..MaxTerm
      BY PoolSizes
    <3> QED
      BY <3>2, <3>3 DEF Init, FaultsOK
  <2>3. KidsOK
    BY EndedKid DEF Init, KidsOK
  <2>4. SocksOK
    BY <2>1 DEF Init, SocksOK, NoSock, SockType
  <2> QED
    BY <2>2, <2>3, <2>4, InitOrphan DEF TypeInv
<1>2. TypeInv /\ [Next]_poolVars => TypeInv'
  <2> SUFFICES ASSUME TypeInv, [Next]_poolVars PROVE TypeInv'
    OBVIOUS
  <2>1. OrphanInv'
    BY NextOrphan DEF TypeInv
  <2>2. CASE Next
    <3>1. KidsOK'
      BY <2>2, KidKeepsKids, OthersKeepKids DEF Next, TypeInv
    <3> QED
      BY <2>1, <2>2, <3>1, StepKeepsSocks, StepKeepsParent DEF TypeInv
  <2>3. CASE UNCHANGED poolVars
    BY <2>1, <2>3 DEF poolVars, parent, TypeInv, ParentOK, KidsOK, SocksOK, FaultsOK
  <2> QED
    BY <2>2, <2>3
<1>3. TypeInv => TypeOK
  BY DEF TypeInv, TypeOK, ParentOK, KidsOK, KidType, SocksOK, SockType, FaultsOK
<1> QED
  BY <1>1, <1>2, <1>3, PTL DEF Spec

=============================================================================
