------------------------------- MODULE MCCustody -------------------------------
(***************************************************************************)
(* The contracts that hold tokens for their users over time: vault,        *)
(* staking and token-vesting.  They share no storage and no balance and    *)
(* never call each other, so each behaviour explores one of them (focus)   *)
(* while the others stay in their initial states.                          *)
(***************************************************************************)
EXTENDS Vault, Staking, TLC

CONSTANTS
    Token, Locked, Start, Cliff, Duration, VestingPenalty, MaxSchedule, MaxLocked, VestingTime

VARIABLES
    vestingAdmin, counter, schedules, index, vestingTokens, locked, paid, returned,
    overwritten, stranded, vestingNow,
    focus

vestingVars ==
    <<vestingAdmin, counter, schedules, index, vestingTokens, locked, paid, returned,
      overwritten, stranded, vestingNow>>

Vesting == INSTANCE TokenVesting WITH
    Address <- User, Amount <- Locked, Penalty <- VestingPenalty, MaxFunded <- MaxLocked,
    MaxTime <- VestingTime, funded <- locked, now <- vestingNow

ASSUME CustodyAssumption == StakingConstants /\ Vesting!VestingConstants

mcVars == <<vars, stakingVars, vestingVars, focus>>

MCInit ==
    /\ Init /\ StakingInit /\ Vesting!Init
    /\ focus \in {"vault", "staking", "vesting"}

\* Behaviours in which every bound is used up may stop.
Idle == UNCHANGED mcVars

MCNext ==
    \/ focus = "vault" /\ Next /\ UNCHANGED <<stakingVars, vestingVars, focus>>
    \/ focus = "staking" /\ StakingNext /\ UNCHANGED <<vars, vestingVars, focus>>
    \/ focus = "vesting" /\ Vesting!Next /\ UNCHANGED <<vars, stakingVars, focus>>
    \/ Idle

MCSpec == MCInit /\ [][MCNext]_mcVars

Symmetry == Permutations(User)

-----------------------------------------------------------------------------
\* token-vesting: the state is well typed, each schedule lives off its own tokens, and
\* none has paid more than has vested, even where initialize came late and schedules
\* were stored over others.
VestingBooks == Vesting!TypeOK /\ Vesting!ScheduleLedger /\ Vesting!ClaimedWithinVested
=============================================================================
