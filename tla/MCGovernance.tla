----------------------------- MODULE MCGovernance -----------------------------
(***************************************************************************)
(* Governance for TLC.  What holders do with their tokens (delegate, lock, *)
(* transfer) multiplies the states of a proposal's life; a behaviour has   *)
(* at most MaxMoves of those calls, at any points of it.                   *)
(***************************************************************************)
EXTENDS Governance, TLC

CONSTANT MaxMoves
VARIABLE moves

\* A configuration file cannot write a negative number.
SomeDelegated == {-1, 1}

MCInit == Init /\ moves = 0

MCNext ==
    \/ (Lifecycle \/ Administration \/ Tick) /\ UNCHANGED moves
    \/ moves < MaxMoves /\ Holders /\ moves' = moves + 1

MCSpec == MCInit /\ [][MCNext]_<<vars, moves>> /\ WF_vars(Tick)
=============================================================================
