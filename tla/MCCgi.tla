------------------------------- MODULE MCCgi -------------------------------
(***************************************************************************)
(* A small instance of the process pool for TLC: the line of c1 comes in   *)
(* two segments.                                                           *)
(***************************************************************************)
EXTENDS CgiSafety

CONSTANTS c1, c2

MCSegments == [c \in Conn |-> IF c = c1 THEN 2 ELSE 1]
=============================================================================
