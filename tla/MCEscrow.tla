------------------------------- MODULE MCEscrow -------------------------------
(***************************************************************************)
(* Escrow for TLC.  A behaviour has at most MaxChanges calls that change   *)
(* the configuration or a role, the initialization included, at any points *)
(* of it; once they are used up the contract may also just wait.  The      *)
(* contract is initialized with no time-lock and the shortest rate window, *)
(* and reconfigured from there.                                            *)
(***************************************************************************)
EXTENDS Escrow, TLC

CONSTANT MaxChanges
VARIABLE changes

MCInit == Init /\ changes = 0

Reconfigure ==
    /\ changes < MaxChanges
    /\ Configure
    /\ initialized' /\ ~initialized => timelock' = 0 /\ window' = 1
    /\ changes' = changes + 1

MCNext ==
    \/ (Operate \/ Tick) /\ UNCHANGED changes
    \/ Reconfigure
    \/ changes = MaxChanges /\ UNCHANGED <<vars, changes>>

MCSpec == MCInit /\ [][MCNext]_<<vars, changes>> /\ Fairness
=============================================================================
