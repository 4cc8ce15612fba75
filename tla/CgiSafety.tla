----------------------------- MODULE CgiSafety -----------------------------
(***************************************************************************)
(* What the process pool promises.                                         *)
(***************************************************************************)
EXTENDS ProcessPool

Event == {"pipe", "signal"} \cup Conn

\* Every variable holds what the code's type allows.
TypeOK ==
  /\ at \in {"fork", "setup", "loop", "hung", "gone", "killed"}
  /\ stop \in BOOLEAN /\ edge \in BOOLEAN /\ crowded \in BOOLEAN
  /\ next \in Child /\ pid \in [Child -> BOOLEAN]
  /\ events \subseteq {"listen", "signal"}
  /\ signals \in Seq({"CHLD", "TERM"}) /\ msgs \in Seq({"CHLD", "TERM"})
  /\ kid \in [Child -> [at : {"unborn", "setup", "run", "zombie", "reaped"},
                        stop : BOOLEAN, events : SUBSET Event, terms : Nat,
                        notes : Nat, fresh : BOOLEAN]]
  /\ sock \in [Conn -> [at : {"new", "backlog", "open", "cgi", "closed"}, by : Child,
                        in : Nat,
                        fresh : BOOLEAN, eof : BOOLEAN]]
  /\ faults \in [crash : 0..MaxFault, term : 0..MaxTerm, pause : 0..MaxFault]

\* RunParent returns only after every child has ended or has been sent SIGTERM
\* and will see it: nobody goes on serving without a parent, whatever children
\* end or stop meanwhile and in whatever order the signals are read.
NoOrphans ==
  at = "gone" =>
    \A i \in Child : kid[i].at \in {"zombie", "reaped"} \/ kid[i].terms > 0 \/ kid[i].stop

Undisturbed == faults.crash = 0 /\ faults.term = 0

\* A connection that does not meet another one in the backlog is accepted: its
\* edge in the parent becomes a message, and the message an edge in a child, even
\* if they come before the one or the other has registered the descriptor.
LonelyAccepted ==
  \A c \in Conn :
    (sock[c].at = "backlog" /\ ~ crowded /\ Undisturbed)
      ~> (sock[c].at # "backlog" \/ crowded \/ ~ Undisturbed)

\* A connection that a child has accepted gets its program run or is closed once
\* the whole line has arrived, in however many pieces, or the client has closed.
RequestServed ==
  \A c \in Conn :
    (sock[c].at = "open" /\ (sock[c].in = Segments[c] \/ sock[c].eof)) ~> sock[c].at # "open"

\* A SIGTERM that finds the parent in its loop ends the parent and all children,
\* unless a child ends by itself or is stopped.
TermEnds ==
  (at = "loop" /\ faults.term > 0)
    ~> ((at = "gone" /\ \A i \in Child : kid[i].at = "zombie")
          \/ faults.crash > 0 \/ faults.pause > 0)

-----------------------------------------------------------------------------
\* What process_pool.hpp:370 says: once all children have ended, so does the
\* parent.  The least that this means: when the parent has the SIGCHLD of a child still
\* to read; it never hears of a child that died before its handler was installed.
AllGoneParentExits ==
  (/\ at = "loop" /\ \E j \in DOMAIN signals : signals[j] = "CHLD"
   /\ \A i \in Child : kid[i].at = "zombie")
    ~> at = "gone"
=============================================================================
