------------------------------- MODULE MCData -------------------------------
(***************************************************************************)
(* The red-black tree and the textbook functions, which share nothing: a   *)
(* behaviour either works on a tree, or gives the functions longer input.  *)
(***************************************************************************)
EXTENDS RBSafety, TextSafety

DataInit == Init /\ TextInit

DataNext == \/ Next /\ a = <<>> /\ b = <<>> /\ UNCHANGED <<a, b>>
            \/ Grow /\ Free = Node /\ run = Idle /\ UNCHANGED vars

DataSpec == DataInit /\ [][DataNext]_<<vars, a, b>> /\ WF_vars(Loop)
=============================================================================
