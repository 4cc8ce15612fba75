------------------------------- MODULE MCWeb -------------------------------
(***************************************************************************)
(* Small instances of the web server for TLC.                              *)
(***************************************************************************)
EXTENDS WebSafety, TLC

CONSTANTS a, b, d, e, f1, f2, f3

(* Client a sends a request with a body in two segments, a line in two     *)
(* segments, or a whole request; b bad lines, or a body with a line in it. *)
MixedStream ==
  a :> {<< <<"get", "length", "blank", "body">>, <<"body">> >>,
        << <<"get", "keep", "length", "blank", "body", "body">> >>,
        << <<"part">>, <<"rest", "keep", "blank">> >>}
  @@ b :> {<< <<"junk">> >>, << <<"get", "bare">> >>,
           << <<"get", "length", "blank", "body">>, <<"head">> >>}

(* More clients than descriptors, and more requests than the pool takes.   *)
CrowdStream == [c \in Client |-> {<< <<"junk">> >>}]
Crowd == Permutations(Client) \cup Permutations(Fd)

(* A GET request without a body, and one whose body comes in two segments. *)
GetStream ==
  a :> {<< <<"get", "blank">> >>}
  @@ b :> {<< <<"get", "length", "blank", "body">>, <<"body">> >>}
=============================================================================
