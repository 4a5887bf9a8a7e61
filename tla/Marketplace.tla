------------------------------ MODULE Marketplace ------------------------------
(***************************************************************************)
(* contracts/marketplace: listings sold through workflows of the execution *)
(* hub, offers and counter-offers, English, Dutch and sealed-bid auctions, *)
(* NFT listings, royalties, collections, disputes and configuration.  The  *)
(* contract moves no tokens: payments are records.  Its agents are those   *)
(* of its own storage, which only it locks, so a locked agent is held by   *)
(* the marketplace.                                                        *)
(*                                                                         *)
(* The hub is the contract that set_execution_hub names.  With contracts/  *)
(* execution-hub no purchase succeeds: it runs the first step in the call  *)
(* in which buy_agent asks for it, and the host lets no contract be called *)
(* while it is calling.  Any other hub is external: it hands out numbers   *)
(* and returns.  The steps of a sale, rollback and wf_done are public and  *)
(* ask for no authorisation, so anyone calls them, in any order.           *)
(*                                                                         *)
(* Most calls work before init_contract, which sets the counters back: the *)
(* ids given out before it are given out again.                            *)
(***************************************************************************)
EXTENDS Storage, SequencesExt

CONSTANTS
    User, AgentId,
    Ask, Term,                 \* prices and durations of listings and offers in a call
    Price, Days,               \* of auctions
    Share, Fee,                \* royalty shares and platform fees in a call
    MAX_ROYALTY_PERCENTAGE,    \* 10000
    MAX_PLATFORM_FEE,          \* 1000
    Increment,                 \* minimal bid increments in a call
    EXTENSION,                 \* extension_window_secs and extension_secs
    Workflow,                  \* numbers that a hub gives to workflows
    NoBidder,
    MaxListings, MaxSales, MaxOffers, MaxAuctions, MaxBids, MaxRecords,
    MarketplaceTime            \* bounds

VARIABLES
    opened, hub,               \* admin is set; exec_hub
    agents,                    \* [owner, locked]
    listings,                  \* lst_, by id
    pendingSales,              \* psale_, by listing
    wfListings,                \* wf_lst_, by workflow
    offers, counterOffers,     \* ofr_, cofr_, by id
    auctions, bids,            \* auc_ with ext_cfg, bid_, by id
    commits, reveals,          \* scomm_, srev_, by auction and bidder
    royalties, memberRoyalties,        \* roy_, rcoll_, by agent
    collections, metadata,     \* coll_, ipfs_, by id
    nfts, currencies,          \* nlst_, ccy_, by id
    feeBps, feeSplit,          \* plat_fee, fee_sp
    roles,                     \* gov_role and kyc_role
    disputes, txns,            \* dsp_, txn_, by id
    lst_ctr, ofr_ctr, cofr_ctr, auc_ctr, coll_ctr, nlst_ctr, dsp_ctr,
    bought,                    \* history: purchases of a listing by a buyer for an amount
    disturbed,                 \* history: agents of a sale that did not go through
    reused, orphans,           \* history: auction ids given out twice; members of a
                               \* collection whose id was
    mkNow                      \* external: the ledger time

setupVars == <<opened, hub>>
saleVars == <<listings, lst_ctr, pendingSales, wfListings, bought, disturbed>>
offerVars == <<offers, counterOffers, ofr_ctr, cofr_ctr>>
auctionVars == <<auctions, auc_ctr, bids, commits, reveals, reused>>
royaltyVars == <<royalties, memberRoyalties, collections, coll_ctr, orphans, metadata, feeBps>>
deskVars == <<currencies, feeSplit, roles, disputes, dsp_ctr>>
nftVars == <<nfts, nlst_ctr>>
mkStore ==
    <<setupVars, agents, saleVars, offerVars, auctionVars, royaltyVars, deskVars, nftVars, txns>>
mkVars == <<mkStore, mkNow>>

-----------------------------------------------------------------------------
\* Nothing is stored yet but agents, which are owned and free.
Init ==
    /\ opened = FALSE /\ hub = "none" /\ feeBps = 0
    /\ agents \in [AgentId -> [owner : User, locked : {FALSE}]]
    /\ listings = <<>> /\ pendingSales = EmptyMap /\ wfListings = EmptyMap
    /\ bought = EmptyMap /\ disturbed = {} /\ reused = {} /\ orphans = {}
    /\ offers = <<>> /\ counterOffers = <<>>
    /\ auctions = <<>> /\ bids = <<>> /\ commits = {} /\ reveals = EmptyMap
    /\ royalties = EmptyMap /\ memberRoyalties = EmptyMap
    /\ collections = <<>> /\ metadata = {}
    /\ nfts = <<>> /\ currencies = <<>> /\ feeSplit = 0
    /\ roles = [governance |-> {}, kyc |-> {}]
    /\ disputes = <<>> /\ txns = <<>> /\ mkNow = 0
    /\ lst_ctr = 0 /\ ofr_ctr = 0 /\ cofr_ctr = 0 /\ auc_ctr = 0 /\ coll_ctr = 0
    /\ nlst_ctr = 0 /\ dsp_ctr = 0

\* Once.  The counters start again, whatever is stored.
init_contract ==
    /\ ~opened /\ opened' = TRUE
    /\ lst_ctr' = 0 /\ ofr_ctr' = 0 /\ cofr_ctr' = 0 /\ auc_ctr' = 0 /\ coll_ctr' = 0
    /\ nlst_ctr' = 0 /\ dsp_ctr' = 0
    /\ feeBps' = 250
    /\ UNCHANGED <<hub, agents, listings, pendingSales, wfListings, bought, disturbed, offers,
                   counterOffers, auctions, bids, commits, reveals, reused, royalties,
                   memberRoyalties, collections, orphans, metadata, currencies, feeSplit, roles,
                   disputes, nfts, txns, mkNow>>

\* assert_admin: nobody is the admin before init_contract.
set_execution_hub(contract) ==
    /\ opened
    /\ hub' = contract
    /\ UNCHANGED <<opened, agents, saleVars, offerVars, auctionVars, royaltyVars, deskVars,
                   nftVars, txns, mkNow>>

\* A record is stored under the id that its counter gives out.
Stored(records, id, record) ==
    IF id \in DOMAIN records THEN [records EXCEPT ![id] = record] ELSE Append(records, record)

-----------------------------------------------------------------------------
Portion(amount, bps) == (amount * bps) \div 10000

\* The collection's recipients if there are any, else the agent's own royalty.
compute_settlement_fees(agent, amount) ==
    [royalty |-> IF agent \in DOMAIN memberRoyalties
                 THEN FoldSeq(LAMBDA bps, sum : sum + Portion(amount, bps), 0,
                              memberRoyalties[agent])
                 ELSE Portion(amount, GetOr(royalties, agent, 0)),
     fee |-> Portion(amount, feeBps)]

\* The platform's fee is configured by init_contract.
record_transaction(listing, agent, seller, buyer, amount, fees, type) ==
    /\ opened
    /\ txns' = Append(txns, [listing |-> listing, agent |-> agent, seller |-> seller,
                             buyer |-> buyer, amount |-> amount, royalty |-> fees.royalty,
                             fee |-> fees.fee, type |-> type])

Lock(agent) == agents' = [agents EXCEPT ![agent].locked = TRUE]
Unlock(agent) == agents' = [agents EXCEPT ![agent].locked = FALSE]

may_sell(agent, seller) == agents[agent].owner = seller /\ ~agents[agent].locked

new_listing(agent, seller, price, days) ==
    [agent |-> agent, seller |-> seller, price |-> price, active |-> TRUE,
     expires_at |-> mkNow + days]

-----------------------------------------------------------------------------
\* New listings take the place of those that had their ids.  An agent that loses a
\* listing in this way stays locked; one that gets an id with a pending sale is sold
\* to the buyer of the other.
List(new) ==
    LET ids == lst_ctr + 1 .. lst_ctr + Len(new)
        lost == {listings[l].agent : l \in {k \in ids \cap DOMAIN listings : listings[k].active}}
        sold == {new[l - lst_ctr].agent : l \in ids \cap DOMAIN pendingSales}
    IN  /\ lst_ctr + Len(new) <= MaxListings
        /\ lst_ctr' = lst_ctr + Len(new)
        /\ listings' = [l \in DOMAIN listings \cup ids |->
                           IF l \in ids THEN new[l - lst_ctr] ELSE listings[l]]
        /\ agents' = [a \in AgentId |->
                         [agents[a] EXCEPT !.locked = @ \/ \E i \in DOMAIN new : new[i].agent = a]]
        /\ disturbed' = disturbed \cup lost \cup sold
        /\ UNCHANGED <<setupVars, pendingSales, wfListings, bought, offerVars, auctionVars,
                       royaltyVars, deskVars, nftVars, txns, mkNow>>

create_listing(agent, seller, price, days) ==
    /\ may_sell(agent, seller)
    /\ List(<<new_listing(agent, seller, price, days)>>)

\* All or none; an agent named twice is locked the second time.
batch_create_listings(seller, price, ids, days) ==
    /\ Len(ids) > 0 /\ IsInjective(ids)
    /\ \A i \in DOMAIN ids : may_sell(ids[i], seller)
    /\ List([i \in DOMAIN ids |-> new_listing(ids[i], seller, price, days)])

\* Listings that end: each leaves the list and frees its agent, if it is locked.
Close(ids) ==
    LET freed == {listings[l].agent : l \in ids} IN
    /\ listings' = [l \in DOMAIN listings |->
                       [listings[l] EXCEPT !.active = @ /\ l \notin ids]]
    /\ agents' = [a \in AgentId |-> [agents[a] EXCEPT !.locked = @ /\ a \notin freed]]
    /\ disturbed' = disturbed \cup {listings[l].agent : l \in ids \cap DOMAIN pendingSales}
    /\ UNCHANGED <<setupVars, lst_ctr, pendingSales, wfListings, bought, offerVars, auctionVars,
                   royaltyVars, deskVars, nftVars, txns, mkNow>>

cancel_listing(l, seller) ==
    /\ listings[l].seller = seller
    /\ listings[l].active
    /\ Close({l})

\* Listings of others and closed ones are skipped.
batch_cancel_listings(seller, ids) ==
    /\ ids # {}
    /\ Close({l \in ids : listings[l].seller = seller /\ listings[l].active})

cleanup_expired_listings(ids) ==
    Close({l \in ids : listings[l].active /\ listings[l].expires_at < mkNow})

-----------------------------------------------------------------------------
\* With a hub that gives the workflow number w and returns.  A later purchase takes
\* the place of one that is pending.  An expired listing can be bought until it is
\* cleaned up.
buy_agent(l, buyer, amount, w) ==
    LET purchase == <<l, buyer, amount>> IN
    /\ listings[l].active
    /\ amount >= listings[l].price
    /\ agents[listings[l].agent].locked
    /\ hub = "external"
    /\ SumFunction(bought) < MaxSales
    /\ pendingSales' = Put(pendingSales, l, [buyer |-> buyer, amount |-> amount,
                                             seller |-> listings[l].seller])
    /\ wfListings' = Put(wfListings, w, l)
    /\ bought' = Put(bought, purchase, GetOr(bought, purchase, 0) + 1)
    /\ UNCHANGED <<setupVars, agents, listings, lst_ctr, disturbed, auctionVars, royaltyVars,
                   deskVars, nftVars, txns, mkNow>>

Buy(l, buyer, amount, w) == buy_agent(l, buyer, amount, w) /\ UNCHANGED offerVars

SaleFrame ==
    UNCHANGED <<setupVars, lst_ctr, bought, offerVars, auctionVars, royaltyVars, deskVars,
                nftVars, mkNow>>

verify_sale(l) ==
    /\ listings[l].active
    /\ l \in DOMAIN pendingSales
    /\ agents[listings[l].agent].locked
    /\ UNCHANGED <<agents, listings, pendingSales, wfListings, disturbed, txns>> /\ SaleFrame

transfer_ownership(l) ==
    /\ l \in DOMAIN pendingSales
    /\ agents' = [agents EXCEPT ![listings[l].agent].owner = pendingSales[l].buyer]
    /\ UNCHANGED <<listings, pendingSales, wfListings, disturbed, txns>> /\ SaleFrame

\* The agent stays in escrow.
settled_agent_Mut(l) == UNCHANGED agents
settled_agent(l) == Unlock(listings[l].agent)

\* The pending sale is left.
closed_sale_Mut(l) == pendingSales
closed_sale(l) == Drop(pendingSales, l)

record_sale(l) ==
    /\ l \in DOMAIN pendingSales
    /\ LET sale == pendingSales[l] IN
       record_transaction(l, listings[l].agent, listings[l].seller, sale.buyer, sale.amount,
                          compute_settlement_fees(listings[l].agent, sale.amount), "sale")
    /\ settled_agent(l)
    /\ listings' = [listings EXCEPT ![l].active = FALSE]
    /\ pendingSales' = closed_sale(l)
    /\ UNCHANGED <<wfListings, disturbed>> /\ SaleFrame

exec_step(step, l) ==
    \/ step = 0 /\ verify_sale(l)
    \/ step = 1 /\ transfer_ownership(l)
    \/ step = 2 /\ record_sale(l)

\* The agent returns to the seller and leaves escrow; the listing stays as it is.
rollback(l) ==
    LET a == listings[l].agent
        sale == pendingSales[l]
    IN  /\ l \in DOMAIN pendingSales
        /\ agents' = [agents EXCEPT ![a] =
                         [owner |-> IF @.owner = sale.buyer THEN sale.seller ELSE @.owner,
                          locked |-> FALSE]]
        /\ pendingSales' = Drop(pendingSales, l)
        /\ disturbed' = disturbed \cup {a}
        /\ UNCHANGED <<listings, wfListings, txns>> /\ SaleFrame

\* The status of a workflow: 2 Completed, 3 RolledBack, 4 Failed, 5 Cancelled.  The
\* last three put the listing on the market, whatever became of its agent.
wf_done(w, status) ==
    LET l == wfListings[w]
        a == listings[l].agent
        sound == listings[l].active /\ agents[a].owner = listings[l].seller
    IN  /\ w \in DOMAIN wfListings
        /\ wfListings' = Drop(wfListings, w)
        /\ \/ status = 2 /\ UNCHANGED <<listings, pendingSales, disturbed>>
           \/ /\ status \in 3..5
              /\ listings' = [listings EXCEPT ![l].active = TRUE]
              /\ pendingSales' = Drop(pendingSales, l)
              /\ disturbed' = IF sound THEN disturbed ELSE disturbed \cup {a}
        /\ UNCHANGED <<agents, txns>> /\ SaleFrame

-----------------------------------------------------------------------------
OfferFrame ==
    UNCHANGED <<setupVars, agents, saleVars, auctionVars, royaltyVars, deskVars, nftVars, txns,
                mkNow>>

make_offer(l, offerer, amount, days) ==
    /\ listings[l].active /\ listings[l].expires_at >= mkNow
    /\ ofr_ctr < MaxOffers /\ ofr_ctr' = ofr_ctr + 1
    /\ offers' = Stored(offers, ofr_ctr + 1,
                        [listing |-> l, offerer |-> offerer, amount |-> amount,
                         active |-> TRUE, expires_at |-> mkNow + days])
    /\ UNCHANGED <<counterOffers, cofr_ctr>> /\ OfferFrame

\* The sale is for the offered amount, which must not be below the listed price.
accept_offer(o, seller, w) ==
    LET offer == offers[o] IN
    /\ offer.active /\ offer.expires_at >= mkNow
    /\ listings[offer.listing].seller = seller
    /\ offers' = [offers EXCEPT ![o].active = FALSE]
    /\ buy_agent(offer.listing, offer.offerer, offer.amount, w)
    /\ UNCHANGED <<counterOffers, ofr_ctr, cofr_ctr>>

reject_offer(o, caller) ==
    /\ caller \in {listings[offers[o].listing].seller, offers[o].offerer}
    /\ offers' = [offers EXCEPT ![o].active = FALSE]
    /\ UNCHANGED <<counterOffers, ofr_ctr, cofr_ctr>> /\ OfferFrame

make_counter_offer(o, seller, amount, days) ==
    LET offer == offers[o] IN
    /\ offer.active
    /\ listings[offer.listing].seller = seller /\ listings[offer.listing].active
    /\ cofr_ctr < MaxOffers /\ cofr_ctr' = cofr_ctr + 1
    /\ counterOffers' = Stored(counterOffers, cofr_ctr + 1,
            [listing |-> offer.listing, offer |-> o, by_seller |-> seller, amount |-> amount,
             active |-> TRUE, expires_at |-> mkNow + days])
    /\ UNCHANGED <<offers, ofr_ctr>> /\ OfferFrame

\* The offer itself may have been closed since.
accept_counter_offer(c, offerer, w) ==
    LET counter == counterOffers[c] IN
    /\ counter.active /\ counter.expires_at >= mkNow
    /\ offers[counter.offer].offerer = offerer
    /\ counterOffers' = [counterOffers EXCEPT ![c].active = FALSE]
    /\ offers' = [offers EXCEPT ![counter.offer].active = FALSE]
    /\ buy_agent(counter.listing, offerer, counter.amount, w)
    /\ UNCHANGED <<ofr_ctr, cofr_ctr>>

reject_counter_offer(c, caller) ==
    /\ caller \in {counterOffers[c].by_seller, offers[counterOffers[c].offer].offerer}
    /\ counterOffers' = [counterOffers EXCEPT ![c].active = FALSE]
    /\ UNCHANGED <<offers, ofr_ctr, cofr_ctr>> /\ OfferFrame

-----------------------------------------------------------------------------
AuctionFrame ==
    UNCHANGED <<setupVars, listings, lst_ctr, pendingSales, wfListings, bought, offerVars,
                royaltyVars, deskVars, nftVars, mkNow>>

\* An auction that is there already.
GoesOn == UNCHANGED <<auc_ctr, reused, disturbed>> /\ AuctionFrame

Auction(kind, agent, seller, start, reserve, days) ==
    [kind |-> kind, agent |-> agent, seller |-> seller, start_price |-> start,
     reserve_price |-> reserve, highest_bidder |-> NoBidder, highest_bid |-> 0,
     start_time |-> mkNow, end_time |-> mkNow + days, status |-> "Active",
     increment |-> 100, extends |-> FALSE, commit_end |-> 0]

\* An auction that holds its agent: a running one, or one that nobody won.
HoldsAgent(auction) ==
    auction.status = "Active" \/ (auction.status = "Won" /\ auction.highest_bidder = NoBidder)

\* The bids, commitments and reveals under an id that is given out again stay there.
OpenAuction(auction) ==
    LET id == auc_ctr + 1
        again == id \in DOMAIN auctions
    IN  /\ may_sell(auction.agent, auction.seller)
        /\ id <= MaxAuctions /\ auc_ctr' = id
        /\ auctions' = Stored(auctions, id, auction)
        /\ bids' = IF again THEN bids ELSE Append(bids, <<>>)
        /\ Lock(auction.agent)
        /\ reused' = IF again THEN reused \cup {id} ELSE reused
        /\ disturbed' = IF again /\ HoldsAgent(auctions[id])
                        THEN disturbed \cup {auctions[id].agent} ELSE disturbed
        /\ UNCHANGED <<commits, reveals, txns>> /\ AuctionFrame

create_auction(agent, seller, start, reserve, days, increment) ==
    /\ reserve > 0 /\ reserve <= start /\ days > 0 /\ increment \in 10..10000
    /\ OpenAuction([Auction("English", agent, seller, start, reserve, days)
                       EXCEPT !.increment = increment])

create_auction_with_extension(agent, seller, start, reserve, days, increment) ==
    /\ reserve > 0 /\ reserve <= start /\ days > 0 /\ increment \in 10..10000
    /\ OpenAuction([Auction("English", agent, seller, start, reserve, days)
                       EXCEPT !.increment = increment, !.extends = TRUE])

create_dutch_auction(agent, seller, start, reserve, days) ==
    /\ start > 0 /\ reserve <= start /\ days > 0
    /\ OpenAuction(Auction("Dutch", agent, seller, start, reserve, days))

\* The reveal phase is longer than the commit phase.
create_sealed_bid_auction(agent, seller, start, reserve, commit, reveal) ==
    /\ reserve > 0 /\ reserve <= start
    /\ commit > 0 /\ reveal > commit
    /\ OpenAuction([Auction("Sealed", agent, seller, start, reserve, commit + reveal)
                       EXCEPT !.commit_end = mkNow + commit])

min_bid(auction) ==
    IF auction.highest_bid = 0 THEN auction.start_price
    ELSE auction.highest_bid + Portion(auction.highest_bid, auction.increment)

\* Auctions of every kind take bids.
Bid(id, bidder, amount, end) ==
    LET auction == auctions[id] IN
    /\ amount > 0
    /\ auction.status = "Active" /\ mkNow <= auction.end_time
    /\ amount >= min_bid(auction)
    /\ Len(bids[id]) < MaxBids
    /\ bids' = [bids EXCEPT ![id] = Append(@, [bidder |-> bidder, amount |-> amount])]
    /\ auctions' = [auctions EXCEPT ![id].highest_bidder = bidder,
                                    ![id].highest_bid = amount, ![id].end_time = end]
    /\ UNCHANGED <<agents, commits, reveals, txns>> /\ GoesOn

place_bid(id, bidder, amount) == Bid(id, bidder, amount, auctions[id].end_time)

place_bid_with_extension(id, bidder, amount) ==
    LET auction == auctions[id]
        late == auction.extends /\ auction.end_time - mkNow <= EXTENSION
    IN  Bid(id, bidder, amount, auction.end_time + IF late THEN EXTENSION ELSE 0)

\* Collection royalties do not apply to auctions.
process_auction_sale(auction, buyer) ==
    /\ agents' = [agents EXCEPT ![auction.agent] = [owner |-> buyer, locked |-> FALSE]]
    /\ record_transaction(0, auction.agent, auction.seller, buyer, auction.highest_bid,
            [royalty |-> Portion(auction.highest_bid, GetOr(royalties, auction.agent, 0)),
             fee |-> Portion(auction.highest_bid, feeBps)], "auction_won")

cancel_auction_asset_return(auction) == Unlock(auction.agent) /\ UNCHANGED txns

\* With a reserve of zero and no bid an auction is won by nobody, and its agent
\* stays in escrow.
finalize_auction(id) ==
    LET auction == auctions[id] IN
    /\ auction.status = "Active" /\ mkNow > auction.end_time
    /\ IF auction.highest_bid >= auction.reserve_price
       THEN /\ auctions' = [auctions EXCEPT ![id].status = "Won"]
            /\ IF auction.highest_bidder # NoBidder
               THEN process_auction_sale(auction, auction.highest_bidder)
               ELSE UNCHANGED <<agents, txns>>
       ELSE /\ auctions' = [auctions EXCEPT ![id].status = "Ended"]
            /\ cancel_auction_asset_return(auction)
    /\ UNCHANGED <<bids, commits, reveals>> /\ GoesOn

dutch_current_price(auction, time) ==
    LET window == auction.end_time - auction.start_time
        drop == auction.start_price - auction.reserve_price
    IN  IF time <= auction.start_time THEN auction.start_price
        ELSE IF time >= auction.end_time THEN auction.reserve_price
        ELSE auction.start_price - (drop * (time - auction.start_time)) \div window

dutch_buy_now(id, buyer, amount) ==
    LET auction == auctions[id]
        won == [auction EXCEPT !.highest_bidder = buyer, !.highest_bid = amount,
                               !.status = "Won"]
    IN  /\ amount > 0
        /\ auction.kind = "Dutch" /\ auction.status = "Active"
        /\ mkNow <= auction.end_time
        /\ amount >= dutch_current_price(auction, mkNow)
        /\ auctions' = [auctions EXCEPT ![id] = won]
        /\ process_auction_sale(won, buyer)
        /\ UNCHANGED <<bids, commits, reveals>> /\ GoesOn

commit_bid(id, bidder) ==
    /\ auctions[id].kind = "Sealed" /\ mkNow <= auctions[id].commit_end
    /\ commits' = commits \cup {<<id, bidder>>}
    /\ UNCHANGED <<agents, auctions, bids, reveals, txns>> /\ GoesOn

outbids(auction, amount) == amount > auction.highest_bid

\* The commitment is not compared with what is revealed.
reveal_bid(id, bidder, amount) ==
    LET auction == auctions[id] IN
    /\ amount > 0
    /\ auction.kind = "Sealed"
    /\ auction.commit_end < mkNow /\ mkNow <= auction.end_time
    /\ <<id, bidder>> \in commits
    /\ reveals' = Put(reveals, <<id, bidder>>, amount)
    /\ auctions' = IF outbids(auction, amount)
                   THEN [auctions EXCEPT ![id].highest_bidder = bidder,
                                         ![id].highest_bid = amount]
                   ELSE auctions
    /\ UNCHANGED <<agents, bids, commits, txns>> /\ GoesOn

finalize_sealed_auction(id) ==
    LET auction == auctions[id]
        sold == auction.highest_bidder # NoBidder /\ auction.highest_bid >= auction.reserve_price
    IN  /\ auction.kind = "Sealed" /\ auction.status = "Active" /\ mkNow > auction.end_time
        /\ auctions' = [auctions EXCEPT ![id].status = IF sold THEN "Won" ELSE "Ended"]
        /\ IF sold THEN process_auction_sale(auction, auction.highest_bidder)
           ELSE cancel_auction_asset_return(auction)
        /\ UNCHANGED <<bids, commits, reveals>> /\ GoesOn

-----------------------------------------------------------------------------
RoyaltyFrame ==
    UNCHANGED <<setupVars, agents, saleVars, offerVars, auctionVars, deskVars, nftVars, txns,
                mkNow>>

\* Collections that are there already.
SameCollections == UNCHANGED <<coll_ctr, orphans>> /\ RoyaltyFrame

set_royalty(agent, creator, bps) ==
    /\ bps <= MAX_ROYALTY_PERCENTAGE
    /\ agents[agent].owner = creator
    /\ royalties' = Put(royalties, agent, bps)
    /\ UNCHANGED <<memberRoyalties, collections, metadata, feeBps>> /\ SameCollections

fee_allowed(bps) == bps <= MAX_PLATFORM_FEE

set_platform_fee(bps) ==
    /\ opened /\ fee_allowed(bps)
    /\ feeBps' = bps
    /\ UNCHANGED <<royalties, memberRoyalties, collections, metadata>> /\ SameCollections

\* No recipients yet, whatever rate is named.  The members of a collection that had
\* the id keep its royalties.
create_collection(creator) ==
    LET id == coll_ctr + 1 IN
    /\ id <= MaxRecords /\ coll_ctr' = id
    /\ collections' = Stored(collections, id,
                             [creator |-> creator, members |-> {}, recipients |-> <<>>])
    /\ orphans' = IF id \in DOMAIN collections THEN orphans \cup collections[id].members
                  ELSE orphans
    /\ UNCHANGED <<royalties, memberRoyalties, metadata, feeBps>> /\ RoyaltyFrame

\* Members get the collection's royalties, in place of those of another one.
add_to_collection(c, creator, ids) ==
    LET coll == collections[c]
        new == ids \ coll.members
    IN  /\ coll.creator = creator /\ ids # {}
        /\ collections' = [collections EXCEPT ![c].members = @ \cup new]
        /\ memberRoyalties' = [a \in DOMAIN memberRoyalties \cup new |->
                                  IF a \in new THEN coll.recipients ELSE memberRoyalties[a]]
        /\ UNCHANGED <<royalties, metadata, feeBps>> /\ SameCollections

\* The royalties stay with the agents.
royalties_without_Mut(gone) == memberRoyalties
royalties_without(gone) ==
    [a \in DOMAIN memberRoyalties \ gone |-> memberRoyalties[a]]

remove_from_collection(c, creator, ids) ==
    LET coll == collections[c] IN
    /\ coll.creator = creator /\ ids # {}
    /\ collections' = [collections EXCEPT ![c].members = @ \ ids]
    /\ memberRoyalties' = royalties_without(ids \cap coll.members)
    /\ UNCHANGED <<royalties, metadata, feeBps>> /\ SameCollections

set_collection_royalty(c, creator, recipients) ==
    LET coll == collections[c] IN
    /\ FoldSeq(LAMBDA bps, sum : sum + bps, 0, recipients) <= MAX_ROYALTY_PERCENTAGE
    /\ coll.creator = creator
    /\ collections' = [collections EXCEPT ![c].recipients = recipients]
    /\ memberRoyalties' = [a \in DOMAIN memberRoyalties \cup coll.members |->
                              IF a \in coll.members THEN recipients ELSE memberRoyalties[a]]
    /\ UNCHANGED <<royalties, metadata, feeBps>> /\ SameCollections

set_collection_ipfs_metadata(c, creator) ==
    /\ collections[c].creator = creator
    /\ metadata' = metadata \cup {c}
    /\ UNCHANGED <<royalties, memberRoyalties, collections, feeBps>> /\ SameCollections

-----------------------------------------------------------------------------
DeskFrame ==
    UNCHANGED <<setupVars, agents, saleVars, offerVars, auctionVars, royaltyVars, mkNow>>

\* The NFT is a reference; fees are those of the agent with the token's number.
create_nft_listing(token, seller, price, days) ==
    /\ price > 0
    /\ nlst_ctr < MaxRecords /\ nlst_ctr' = nlst_ctr + 1
    /\ nfts' = Stored(nfts, nlst_ctr + 1, new_listing(token, seller, price, days))
    /\ UNCHANGED <<deskVars, txns>> /\ DeskFrame

buy_nft_listing(n, buyer, amount) ==
    LET nft == nfts[n] IN
    /\ amount > 0
    /\ nft.active /\ nft.expires_at >= mkNow
    /\ amount >= nft.price
    /\ nfts' = [nfts EXCEPT ![n].active = FALSE]
    /\ record_transaction(n, nft.agent, nft.seller, buyer, amount,
                          compute_settlement_fees(nft.agent, amount), "nft_sale")
    /\ UNCHANGED <<deskVars, nlst_ctr>> /\ DeskFrame

cancel_nft_listing(n, seller) ==
    /\ nfts[n].seller = seller /\ nfts[n].active
    /\ nfts' = [nfts EXCEPT ![n].active = FALSE]
    /\ UNCHANGED <<deskVars, nlst_ctr, txns>> /\ DeskFrame

\* The symbol stays in the accepted list when its currency is deactivated.
register_currency(symbol) ==
    /\ opened
    /\ Len(currencies) < MaxRecords
    /\ currencies' = Append(currencies, [symbol |-> symbol, active |-> TRUE])
    /\ UNCHANGED <<nftVars, txns, feeSplit, roles, disputes, dsp_ctr>> /\ DeskFrame

deactivate_currency(c) ==
    /\ opened
    /\ currencies' = [currencies EXCEPT ![c].active = FALSE]
    /\ UNCHANGED <<nftVars, txns, feeSplit, roles, disputes, dsp_ctr>> /\ DeskFrame

\* The shares of platform, creator, collection and others.
set_fee_splits(total) ==
    /\ opened /\ total <= 10000
    /\ feeSplit' = total
    /\ UNCHANGED <<nftVars, txns, currencies, roles, disputes, dsp_ctr>> /\ DeskFrame

assign_role(role, user) ==
    /\ opened
    /\ roles' = [roles EXCEPT ![role] = @ \cup {user}]
    /\ UNCHANGED <<nftVars, txns, currencies, feeSplit, disputes, dsp_ctr>> /\ DeskFrame

remove_role(role, user) ==
    /\ opened
    /\ roles' = [roles EXCEPT ![role] = @ \ {user}]
    /\ UNCHANGED <<nftVars, txns, currencies, feeSplit, disputes, dsp_ctr>> /\ DeskFrame

\* The listing need not exist.
open_dispute(l, initiator) ==
    /\ dsp_ctr < MaxRecords /\ dsp_ctr' = dsp_ctr + 1
    /\ disputes' = Stored(disputes, dsp_ctr + 1,
                          [listing |-> l, initiator |-> initiator, status |-> "Open"])
    /\ UNCHANGED <<nftVars, txns, currencies, feeSplit, roles>> /\ DeskFrame

resolve_dispute(d, ruling) ==
    /\ opened /\ disputes[d].status = "Open"
    /\ disputes' = [disputes EXCEPT ![d].status = IF ruling THEN "Resolved" ELSE "Rejected"]
    /\ UNCHANGED <<nftVars, dsp_ctr, txns, currencies, feeSplit, roles>> /\ DeskFrame

Tick ==
    /\ mkNow < MarketplaceTime
    /\ mkNow' = mkNow + 1
    /\ UNCHANGED mkStore

-----------------------------------------------------------------------------
Setting ==
    \/ init_contract
    \/ \E contract \in {"execution-hub", "external"} : set_execution_hub(contract)

Listing ==
    \/ \E a \in AgentId, u \in User, p \in Ask, d \in Term : create_listing(a, u, p, d)
    \/ \E u \in User, p \in Ask, s \in SeqOf(AgentId, 2), d \in Term :
          batch_create_listings(u, p, s, d)
    \/ \E l \in DOMAIN listings, u \in User : cancel_listing(l, u)
    \/ \E ids \in SUBSET DOMAIN listings :
          \/ cleanup_expired_listings(ids)
          \/ \E u \in User : batch_cancel_listings(u, ids)

Selling ==
    \/ \E l \in DOMAIN listings :
          \/ \E u \in User, p \in Ask, w \in Workflow : Buy(l, u, p, w)
          \/ \E step \in 0..2 : exec_step(step, l)
          \/ rollback(l)
    \/ \E w \in DOMAIN wfListings, status \in 2..5 : wf_done(w, status)

Offering ==
    \/ \E l \in DOMAIN listings, u \in User, p \in Ask, d \in Term : make_offer(l, u, p, d)
    \/ \E o \in DOMAIN offers, u \in User :
          \/ \E w \in Workflow : accept_offer(o, u, w)
          \/ reject_offer(o, u)
          \/ \E p \in Ask, d \in Term : make_counter_offer(o, u, p, d)
    \/ \E c \in DOMAIN counterOffers, u \in User :
          \/ \E w \in Workflow : accept_counter_offer(c, u, w)
          \/ reject_counter_offer(c, u)

Auctioning ==
    \/ \E a \in AgentId, u \in User, s, r \in Price, d \in Days :
          \/ \E i \in Increment :
                \/ create_auction(a, u, s, r, d, i)
                \/ create_auction_with_extension(a, u, s, r, d, i)
          \/ create_dutch_auction(a, u, s, r, d)
          \/ \E e \in Days : create_sealed_bid_auction(a, u, s, r, d, e)
    \/ \E id \in DOMAIN auctions :
          \/ \E u \in User, p \in Price :
                \/ place_bid(id, u, p) \/ place_bid_with_extension(id, u, p)
                \/ dutch_buy_now(id, u, p) \/ reveal_bid(id, u, p)
          \/ \E u \in User : commit_bid(id, u)
          \/ finalize_auction(id) \/ finalize_sealed_auction(id)

Collecting ==
    \/ \E a \in AgentId, u \in User, b \in Share : set_royalty(a, u, b)
    \/ \E b \in Fee : set_platform_fee(b)
    \/ \E u \in User : create_collection(u)
    \/ \E c \in DOMAIN collections, u \in User :
          \/ \E ids \in SUBSET AgentId :
                add_to_collection(c, u, ids) \/ remove_from_collection(c, u, ids)
          \/ \E s \in SeqOf(Share, 2) : set_collection_royalty(c, u, s)
          \/ set_collection_ipfs_metadata(c, u)

NftTrading ==
    \/ \E a \in AgentId, u \in User, p \in Ask, d \in Term : create_nft_listing(a, u, p, d)
    \/ \E n \in DOMAIN nfts, u \in User :
          cancel_nft_listing(n, u) \/ \E p \in Ask : buy_nft_listing(n, u, p)

Desk ==
    \/ \E s \in {"XLM", "USDC"} : register_currency(s)
    \/ \E c \in DOMAIN currencies : deactivate_currency(c)
    \/ \E b \in Share : set_fee_splits(b)
    \/ \E r \in DOMAIN roles, u \in User : assign_role(r, u) \/ remove_role(r, u)
    \/ \E l \in 1..MaxListings, u \in User : open_dispute(l, u)
    \/ \E d \in DOMAIN disputes, b \in BOOLEAN : resolve_dispute(d, b)

Next ==
    \/ Setting \/ Listing \/ Selling \/ Offering \/ Auctioning \/ Collecting \/ NftTrading
    \/ Desk \/ Tick

Spec == Init /\ [][Next]_mkVars

-----------------------------------------------------------------------------
PendingSale == [buyer : User, amount : Nat, seller : User]

Offer == [listing : Nat, offerer : User, amount : Nat, active : BOOLEAN, expires_at : Nat]

TransactionRecord ==
    [listing : Nat, agent : AgentId, seller : User, buyer : User, amount : Nat,
     royalty : Nat, fee : Nat,
     type : {"sale", "auction_won", "nft_sale"}]

Collection == [creator : User, members : SUBSET AgentId, recipients : Seq(Nat)]

CounterOffer ==
    [listing : Nat, offer : Nat, by_seller : User, amount : Nat, active : BOOLEAN,
     expires_at : Nat]

ListingRecord ==
    [agent : AgentId, seller : User, price : Nat, active : BOOLEAN, expires_at : Nat]

CurrencyRecord == [symbol : STRING, active : BOOLEAN]

\* Every variable has its type; the platform fee and every royalty are within
\* their limits.
TypeOK ==
    /\ agents \in [AgentId -> [owner : User, locked : BOOLEAN]]
    /\ listings \in Seq(ListingRecord) /\ nfts \in Seq(ListingRecord)
    /\ \A l \in DOMAIN pendingSales : l \in DOMAIN listings /\ pendingSales[l] \in PendingSale
    /\ offers \in Seq(Offer) /\ counterOffers \in Seq(CounterOffer)
    /\ \A o \in ToSet(offers) : o.listing \in DOMAIN listings
    /\ \A c \in ToSet(counterOffers) : c.offer \in DOMAIN offers
    /\ Len(auctions) = Len(bids)
    /\ \A a \in ToSet(auctions) :
          /\ a.highest_bidder \in User \cup {NoBidder}
          /\ a.status \in {"Active", "Won", "Ended"}
    /\ commits \subseteq (DOMAIN auctions) \X User /\ DOMAIN reveals \subseteq commits
    /\ \A a \in DOMAIN royalties : royalties[a] <= MAX_ROYALTY_PERCENTAGE
    /\ collections \in Seq(Collection) /\ metadata \subseteq DOMAIN collections
    /\ currencies \in Seq(CurrencyRecord) /\ feeBps <= MAX_PLATFORM_FEE
    /\ txns \in Seq(TransactionRecord)
    /\ mkNow \in Nat

\* One escrow flag serves the listings and all kinds of auctions of an agent.
\* Until a sale of the agent is rolled back, or loses its listing, or the callback of
\* a failed workflow finds the listing closed or the agent gone, or an id that names
\* the agent is given out again, the flag is set exactly when one listing or auction
\* has a claim on the agent, whoever runs the steps of its sales in whatever order;
\* and the claim is its owner's, except while a sale is pending.
ClaimsMatchLocks ==
    \A a \in AgentId \ disturbed :
        LET onList == {l \in DOMAIN listings : listings[l].agent = a /\ listings[l].active}
            onAuction == {i \in DOMAIN auctions :
                             auctions[i].agent = a /\ HoldsAgent(auctions[i])}
            sellers == {listings[l].seller : l \in onList}
                       \cup {auctions[i].seller : i \in onAuction}
        IN  /\ Cardinality(onList) + Cardinality(onAuction) = IF agents[a].locked THEN 1 ELSE 0
            /\ agents[a].locked =>
                 \/ sellers = {agents[a].owner}
                 \/ onList \cap DOMAIN pendingSales # {}

\* However many buyers start a purchase of the same listing, and in whatever order
\* anyone calls the steps of its sale, rollback and wf_done: a purchase is recorded
\* as a sale, with its buyer and its amount, at most once, and not while it is
\* pending.
OneSalePerPurchase ==
    LET sales == {i \in DOMAIN txns : txns[i].type = "sale"}
        Of(i) == <<txns[i].listing, txns[i].buyer, txns[i].amount>>
        For(l) == <<l, pendingSales[l].buyer, pendingSales[l].amount>>
    IN  \A k \in {Of(i) : i \in sales} \cup {For(l) : l \in DOMAIN pendingSales} :
           Cardinality({i \in sales : Of(i) = k})
             + Cardinality({l \in DOMAIN pendingSales : For(l) = k}) <= GetOr(bought, k, 0)

\* Bids, late bids and reveals in any order: the highest bid of an English or
\* sealed auction is not below any bid or reveal, and an auction that is won
\* reached its reserve.  Under an id given out twice the bids are those of both.
HighestWins ==
    \A id \in DOMAIN auctions :
        LET auction == auctions[id] IN
        /\ auction.kind # "Dutch" /\ id \notin reused =>
             /\ \A b \in ToSet(bids[id]) : b.amount <= auction.highest_bid
             /\ \A k \in DOMAIN reveals : k[1] = id => reveals[k] <= auction.highest_bid
        /\ auction.status = "Won" => auction.highest_bid >= auction.reserve_price

\* "Compute the current linearly decayed Dutch-auction price": from the start to
\* the reserve price, and never up, bids placed meanwhile notwithstanding.
DutchPriceFalls ==
    \A id \in DOMAIN auctions :
        auctions[id].kind = "Dutch" /\ (id \in reused' => id \in reused) =>
           LET before == dutch_current_price(auctions[id], mkNow)
               after == dutch_current_price(auctions'[id], mkNow')
           IN  /\ auctions[id].reserve_price <= after
               /\ after <= before /\ before <= auctions[id].start_price

\* "future sales don't pay this collection's creator royalties for an asset that's
\* no longer in the collection": royalties are those of a collection of which the
\* agent is a member, whichever collections it joined and left, unless the id of one
\* was given out again.
RoyaltyFromMembership ==
    \A a \in DOMAIN memberRoyalties \ orphans :
        \E c \in ToSet(collections) : a \in c.members /\ memberRoyalties[a] = c.recipients
=============================================================================
