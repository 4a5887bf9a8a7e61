----------------------------- MODULE MCMarketplace -----------------------------
(***************************************************************************)
(* The marketplace for TLC.  Sales and auctions share the escrow flags of  *)
(* the agents, sales and royalties the records; the rest is independent.   *)
(* Each behaviour explores one part (focus) of the contract, with a bound  *)
(* on its calls.  The part "early" makes calls before init_contract, too.  *)
(***************************************************************************)
EXTENDS Marketplace, TLC

CONSTANTS MaxMoves, LastTick     \* bounds for each part

VARIABLES focus, moves

mcVars == <<mkVars, focus, moves>>

MCInit == Init /\ focus \in DOMAIN MaxMoves /\ moves = 0

Move == moves < MaxMoves[focus] /\ moves' = moves + 1

\* With sales, only short Dutch auctions.
Short ==
    \/ \E a \in AgentId, u \in User, r \in {0, 10} : create_dutch_auction(a, u, 10, r, 1)
    \/ \E id \in DOMAIN auctions :
          \/ \E u \in User : place_bid(id, u, 10) \/ dutch_buy_now(id, u, 10)
          \/ finalize_auction(id)

\* Collections with members and royalties, for ids that are given out again.
Joining ==
    \/ \E u \in User : create_collection(u)
    \/ \E c \in DOMAIN collections, u \in User :
          \/ \E a \in AgentId : add_to_collection(c, u, {a}) \/ remove_from_collection(c, u, {a})
          \/ \E b \in Share : set_collection_royalty(c, u, <<b>>)

\* The hub is chosen first, where it matters.
Preparing ==
    \/ init_contract
    \/ /\ focus \in {"sales", "escrow", "early", "desk"} /\ hub = "none"
       /\ \E contract \in {"execution-hub", "external"} : set_execution_hub(contract)

\* Behaviours in which every bound is used up may stop.
Idle == UNCHANGED mcVars

MCNext ==
    \/ /\ \/ Preparing /\ UNCHANGED moves
          \/ /\ opened /\ Move
             /\ \/ focus \in {"sales", "escrow"} /\ Listing
                \/ focus \in {"sales", "escrow"} /\ Selling
                \/ focus = "sales" /\ Offering
                \/ focus = "auctions" /\ Auctioning
                \/ focus = "escrow" /\ Short
                \/ focus = "royalties" /\ Collecting
                \/ focus = "royalties" /\ NftTrading
                \/ focus = "desk" /\ Desk
          \/ /\ focus = "early" /\ Move
             /\ Listing \/ Selling \/ Short \/ Joining
          \/ Tick /\ mkNow < LastTick[focus] /\ UNCHANGED moves
       /\ UNCHANGED focus
    \/ Idle

MCSpec == MCInit /\ [][MCNext]_mcVars

Symmetry == Permutations(User) \cup Permutations(AgentId)

TicksOf ==
    [sales |-> 2, escrow |-> 2, early |-> 2, auctions |-> 4, royalties |-> 2, desk |-> 0]
MovesOf ==
    [sales |-> 6, escrow |-> 6, early |-> 5, auctions |-> 6, royalties |-> 5, desk |-> 3]

-----------------------------------------------------------------------------
\* The state is well typed, and an agent's escrow flag is set exactly when one listing
\* or auction has a claim on it, until a sale of the agent fails or an id is reused.
EscrowFlags == TypeOK /\ ClaimsMatchLocks

=============================================================================
