--------------------------------- MODULE Oracle ---------------------------------
(***************************************************************************)
(* contracts/oracle: providers submit prices and other data to feeds, and  *)
(* callers ask for the aggregated price, an average over time or the data, *)
(* within their query limits.  A circuit breaker closes a feed whose price *)
(* jumps.  The administrator may call at any time.  No entry point makes a *)
(* provider or a feed inactive, applies a penalty or lowers a provider's   *)
(* availability, so these are left out.                                    *)
(***************************************************************************)
EXTENDS Storage, SequencesExt

CONSTANTS
    Provider, Caller, FeedId,
    ProviderLists, FeedTerms,  \* providers of a feed, and its intervals and limits
    Quotation,                 \* prices submitted, some not positive
    Datum,                     \* data submitted to a custom feed
    StakeSum, QueryLimits, Window, Term,   \* inputs of a call
    QueriesOf,                 \* queries_remaining at first, of each SubscriptionTier
    BaseReward, COOLDOWN,
    GlobalLimit, GuestLimit,   \* [window_seconds, max_queries] of a subscriber and of a guest
    MaxHistory, MaxCustomData, \* entries kept, 1000 and 500
    MAX_QUERY, WindowRange,    \* the largest limit and the windows that a caller may ask for
    BPS, OracleTime            \* 10000, and a bound on time

VARIABLES
    providers, failures,       \* Provider(p), and the failures of ProviderHealth(p)
    feeds, latestPrice,        \* Feed(f), LatestPrice(f)
    providerPrice,             \* ProviderPrice(f, p)
    priceHistory,              \* PriceHistory(f)
    circuitBreaker, fallback,  \* CircuitBreaker(f), FallbackConfig(f)
    customFeeds, customData,   \* CustomFeed(f), CustomData(f)
    subscriptions, rateLimits, \* Subscription(u, f), RateLimit(u)
    incentives,                \* IncentiveBalance(p)
    oracleNow,                 \* external: the ledger time
    pardoned                   \* history: feeds whose breaker was reset by the administrator
                               \* since their last price

market == <<feeds, latestPrice, providerPrice, priceHistory, circuitBreaker, pardoned>>
staff == <<providers, failures, incentives>>
custom == <<customFeeds, customData>>
quota == <<subscriptions, rateLimits>>
oracleVars == <<market, staff, custom, quota, fallback, oracleNow>>

OracleProvider == [reputation_score : 0..100, total_updates : Nat, successful_updates : Nat]
PriceEntry == [price : Nat \ {0}, timestamp : Nat]
QueryRateLimit ==
    [window_seconds : Nat, max_queries : Nat, queries_used : Nat, window_start : Nat]
FeedSubscription == [tier : DOMAIN QueriesOf, expires_at : Nat, queries_remaining : Nat]

-----------------------------------------------------------------------------
\* The k-th smallest price, from zero, as in a sorted vector.
Sorted(prices, k) ==
    CHOOSE v \in Range(prices) :
        /\ Cardinality({i \in DOMAIN prices : prices[i] < v}) <= k
        /\ k < Cardinality({i \in DOMAIN prices : prices[i] <= v})

Prices(entries) == [i \in DOMAIN entries |-> entries[i].price]

\* The largest of two middle values is taken for their average.
median_price_Mut(prices) == Sorted(prices, Len(prices) - 1)
median_price(prices) ==
    LET n == Len(prices)
        mid == n \div 2
    IN  IF n % 2 = 0 THEN (Sorted(prices, mid - 1) + Sorted(prices, mid)) \div 2
        ELSE Sorted(prices, mid)

\* Prices farther from the middle half than 1.5 times its spread are left out, when
\* there are four or more.
remove_outliers(entries) ==
    LET prices == Prices(entries)
        n == Len(prices)
        q1 == Sorted(prices, n \div 4)
        q3 == Sorted(prices, (3 * n) \div 4)
        margin == (150 * (q3 - q1)) \div 100
    IN  IF n < 4 THEN entries
        ELSE SelectSeq(entries, LAMBDA e : q1 - margin <= e.price /\ e.price <= q3 + margin)

IsFresh(entry, staleness) == oracleNow - entry.timestamp <= staleness

\* aggregate_prices answers, and get_aggregated_price returns the answer: enough
\* sources, and none of them stale.
aggregate_answers(entries, min_sources, staleness) ==
    /\ Len(entries) >= min_sources
    /\ \A i \in DOMAIN entries : IsFresh(entries[i], staleness)

aggregate_prices(entries) == median_price(Prices(remove_outliers(entries)))

\* The price weighted by the time it was the newest one in the window.
calculate_twap(history, window) ==
    LET start == oracleNow - window
        samples == SelectSeq(history, LAMBDA h : h.timestamp >= start)
        n == Len(samples)
        segment(i) == (IF i < n THEN samples[i + 1].timestamp ELSE oracleNow) - samples[i].timestamp
        weight == SumOver(segment, DOMAIN samples)
    IN  IF weight = 0 THEN samples[n].price
        ELSE SumOver(LAMBDA i : samples[i].price * segment(i), DOMAIN samples) \div weight

InWindow(history, window) == {i \in DOMAIN history : history[i].timestamp >= oracleNow - window}

-----------------------------------------------------------------------------
Untriggered == [triggered |-> FALSE, can_resume_at |-> 0]

\* Within the cooldown.
is_triggered(f) ==
    /\ f \in DOMAIN circuitBreaker
    /\ circuitBreaker[f].triggered /\ oracleNow < circuitBreaker[f].can_resume_at

\* is_triggered resets a breaker whose cooldown is over.
auto_reset(f) ==
    IF f \in DOMAIN circuitBreaker /\ circuitBreaker[f].triggered
    THEN [circuitBreaker EXCEPT ![f] = Untriggered] ELSE circuitBreaker

\* A change above the limit.
check_price_movement(feed, price, previous) ==
    LET diff == IF price > previous THEN price - previous ELSE previous - price
    IN  feed.breaker /\ (diff * BPS) \div previous > feed.max_price_change_bps

Init ==
    /\ providers = EmptyMap /\ failures = EmptyMap /\ incentives = EmptyMap
    /\ feeds = EmptyMap /\ latestPrice = EmptyMap /\ providerPrice = EmptyMap
    /\ priceHistory = EmptyMap /\ circuitBreaker = EmptyMap /\ fallback = EmptyMap
    /\ customFeeds = EmptyMap /\ customData = EmptyMap
    /\ subscriptions = EmptyMap /\ rateLimits = EmptyMap
    /\ oracleNow = 0 /\ pardoned = {}

register_provider(p, stake, min_stake) ==
    /\ stake >= min_stake
    /\ p \notin DOMAIN providers
    /\ providers' = Put(providers, p,
          [reputation_score |-> 50, total_updates |-> 0, successful_updates |-> 0])
    /\ failures' = Put(failures, p, 0)
    /\ UNCHANGED <<market, incentives, custom, quota, fallback, oracleNow>>

NoFallback == [providers |-> <<>>, current_failures |-> 0, using_fallback |-> FALSE]

create_price_feed(f, terms, list) ==
    /\ f \notin DOMAIN feeds
    /\ Len(list) >= 2
    /\ feeds' = Put(feeds, f, [providers |-> list] @@ terms)
    /\ priceHistory' = Put(priceHistory, f, <<>>)
    /\ circuitBreaker' = IF terms.breaker THEN Put(circuitBreaker, f, Untriggered)
                         ELSE circuitBreaker
    /\ fallback' = Put(fallback, f, NoFallback)
    /\ UNCHANGED <<latestPrice, providerPrice, pardoned, staff, custom, quota, oracleNow>>

is_authorized(p, f) ==
    p \in ToSet(feeds[f].providers) \cup ToSet(fallback[f].providers)

\* record_successful_update: the provider's record after a success.
credited(provider) ==
    [reputation_score |-> IF provider.reputation_score < 100 THEN provider.reputation_score + 1
                          ELSE 100,
     total_updates |-> provider.total_updates + 1,
     successful_updates |-> provider.successful_updates + 1]

\* What is stored after a price update: the record as read at the start of the call
\* with both counts one up.  It replaces the one record_successful_update has just
\* written, and with it the reputation.
after_update(provider) ==
    [provider EXCEPT !.total_updates = @ + 1, !.successful_updates = @ + 1]

\* The availability is always full and the failures have just been reset.
calculate_reward(provider) == (BaseReward * provider.reputation_score) \div 50

\* The price that trips the breaker is already the latest one, and is kept.
submit_price(p, f, price) ==
    LET feed == feeds[f]
        entry == [price |-> price, timestamp |-> oracleNow]
        past == priceHistory[f]
        tripped == f \in DOMAIN latestPrice
                   /\ check_price_movement(feed, price, latestPrice[f].price)
    IN  /\ price > 0
        /\ is_authorized(p, f)
        /\ p \in DOMAIN providers
        /\ f \in DOMAIN latestPrice =>
              oracleNow - latestPrice[f].timestamp >= feed.min_update_interval
        /\ ~is_triggered(f)
        /\ latestPrice' = Put(latestPrice, f, entry)
        /\ providerPrice' = Put(providerPrice, <<f, p>>, entry)
        /\ priceHistory' = [priceHistory EXCEPT ![f] =
              Append(IF Len(past) >= MaxHistory THEN Tail(past) ELSE past, entry)]
        /\ pardoned' = pardoned \ {f}
        /\ IF tripped
           THEN /\ circuitBreaker' = Put(circuitBreaker, f,
                      [triggered |-> TRUE, can_resume_at |-> oracleNow + COOLDOWN])
                /\ failures' = [failures EXCEPT ![p] = @ + 1]
                /\ providers' = [providers EXCEPT ![p].total_updates = @ + 1]
                /\ UNCHANGED incentives
           ELSE /\ circuitBreaker' = auto_reset(f)
                /\ failures' = [failures EXCEPT ![p] = 0]
                /\ providers' = [providers EXCEPT ![p] = after_update(@)]
                /\ incentives' = Put(incentives, p,
                      GetOr(incentives, p, 0) + calculate_reward(after_update(providers[p])))
        /\ UNCHANGED <<feeds, custom, quota, fallback, oracleNow>>

withdraw_incentives(p) ==
    /\ GetOr(incentives, p, 0) > 0
    /\ incentives' = [incentives EXCEPT ![p] = 0]
    /\ UNCHANGED <<market, providers, failures, custom, quota, fallback, oracleNow>>

reset_circuit_breaker(f) ==
    /\ circuitBreaker' = Put(circuitBreaker, f, Untriggered)
    /\ pardoned' = pardoned \cup {f}
    /\ UNCHANGED <<feeds, latestPrice, providerPrice, priceHistory, staff, custom, quota,
                   fallback, oracleNow>>

\* A feed that does not exist yet gets a configuration, which its creation replaces.
add_fallback_provider(f, p) ==
    LET config == GetOr(fallback, f, NoFallback)
    IN  /\ p \notin ToSet(config.providers)
        /\ fallback' = Put(fallback, f, [config EXCEPT !.providers = Append(@, p)])
        /\ UNCHANGED <<market, staff, custom, quota, oracleNow>>

-----------------------------------------------------------------------------
\* The caller's window.  Its length and its limit are those of the first query that
\* was counted, and stay.
current_window(u, limit) ==
    LET stored == GetOr(rateLimits, u,
                        [window_seconds |-> limit.window_seconds,
                         max_queries |-> limit.max_queries,
                         queries_used |-> 0, window_start |-> oracleNow])
    IN  IF oracleNow - stored.window_start > stored.window_seconds
        THEN [stored EXCEPT !.window_start = oracleNow, !.queries_used = 0]
        ELSE stored

check_global_rate_limit(u, limit) ==
    LET window == current_window(u, limit)
    IN  /\ window.queries_used < window.max_queries
        /\ rateLimits' = Put(rateLimits, u, [window EXCEPT !.queries_used = @ + 1])

consume_query(u, f) ==
    IF <<u, f>> \in DOMAIN subscriptions
    THEN LET s == subscriptions[<<u, f>>]
         IN  /\ s.expires_at >= oracleNow
             /\ s.tier = "Unlimited" \/ s.queries_remaining > 0
             /\ subscriptions' = IF s.tier = "Unlimited" THEN subscriptions
                                 ELSE [subscriptions EXCEPT ![<<u, f>>].queries_remaining = @ - 1]
             /\ check_global_rate_limit(u, GlobalLimit)
    ELSE /\ check_global_rate_limit(u, GuestLimit)
         /\ UNCHANGED subscriptions

\* The latest entries of the providers in the list that have one.
EntriesOf(f, list) ==
    LET reporting == SelectSeq(list, LAMBDA p : <<f, p>> \in DOMAIN providerPrice)
    IN  [i \in DOMAIN reporting |-> providerPrice[<<f, reporting[i]>>]]

\* A feed falls back when fewer than two of its providers ever reported.
Quotes(f) ==
    LET primary == EntriesOf(f, feeds[f].providers)
    IN  IF Len(primary) < 2 THEN primary \o EntriesOf(f, fallback[f].providers) ELSE primary

get_aggregated_price(u, f) ==
    LET alone == Len(EntriesOf(f, feeds[f].providers)) < 2
    IN  /\ consume_query(u, f)
        /\ ~is_triggered(f)
        /\ aggregate_answers(remove_outliers(Quotes(f)), IF alone THEN 1 ELSE 2,
                             feeds[f].max_staleness)
        /\ circuitBreaker' = auto_reset(f)
        /\ fallback' = [fallback EXCEPT
              ![f].using_fallback = alone,
              ![f].current_failures = IF alone THEN @ + 1 ELSE 0]
        /\ UNCHANGED <<feeds, latestPrice, providerPrice, priceHistory, pardoned, staff, custom,
                       oracleNow>>

get_historical_prices(u, f, limit) ==
    /\ consume_query(u, f)
    /\ limit <= MAX_QUERY
    /\ UNCHANGED <<market, staff, custom, fallback, oracleNow>>

get_twap(u, f, window) ==
    /\ consume_query(u, f)
    /\ window \in WindowRange
    /\ InWindow(priceHistory[f], window) # {}
    /\ UNCHANGED <<market, staff, custom, fallback, oracleNow>>

\* A batch counts once, whoever asks.
get_latest_prices_batch(u) ==
    /\ check_global_rate_limit(u, GlobalLimit)
    /\ UNCHANGED <<market, staff, custom, subscriptions, fallback, oracleNow>>

grant_subscription(u, f, tier, duration) ==
    /\ duration > 0
    /\ subscriptions' = Put(subscriptions, <<u, f>>,
          [tier |-> tier, expires_at |-> oracleNow + duration,
           queries_remaining |-> QueriesOf[tier]])
    /\ UNCHANGED <<market, staff, custom, rateLimits, fallback, oracleNow>>

-----------------------------------------------------------------------------
create_custom_feed(f, list, staleness) ==
    /\ f \notin DOMAIN customFeeds
    /\ customFeeds' = Put(customFeeds, f,
          [providers |-> list, last_update |-> 0, max_staleness |-> staleness])
    /\ customData' = Put(customData, f, <<>>)
    /\ UNCHANGED <<market, staff, quota, fallback, oracleNow>>

\* The provider need not be registered; only a registered one is credited.
submit_custom_data(p, f, data) ==
    LET past == Append(customData[f], [data |-> data, timestamp |-> oracleNow, provider |-> p])
    IN  /\ p \in ToSet(customFeeds[f].providers)
        /\ customData' = [customData EXCEPT ![f] =
              IF Len(past) > MaxCustomData THEN Tail(past) ELSE past]
        /\ customFeeds' = [customFeeds EXCEPT ![f].last_update = oracleNow]
        /\ failures' = Put(failures, p, 0)
        /\ providers' = IF p \in DOMAIN providers
                        THEN [providers EXCEPT ![p] = credited(@)] ELSE providers
        /\ UNCHANGED <<market, incentives, quota, fallback, oracleNow>>

get_custom_data(u, f) ==
    /\ consume_query(u, f)
    /\ oracleNow - customFeeds[f].last_update <= customFeeds[f].max_staleness
    /\ UNCHANGED <<market, staff, custom, fallback, oracleNow>>

Administering ==
    \/ \E p \in Provider, s \in StakeSum, m \in StakeSum : register_provider(p, s, m)
    \/ \E f \in FeedId, terms \in FeedTerms, list \in ProviderLists :
          \/ create_price_feed(f, terms, list)
          \/ create_custom_feed(f, list, terms.max_staleness)
    \/ \E f \in FeedId : reset_circuit_breaker(f) \/ \E p \in Provider : add_fallback_provider(f, p)
    \/ \E u \in Caller, f \in FeedId, tier \in DOMAIN QueriesOf, d \in Term :
          grant_subscription(u, f, tier, d)

Reporting ==
    \/ \E p \in Provider, f \in DOMAIN feeds, price \in Quotation : submit_price(p, f, price)
    \/ \E p \in Provider, f \in DOMAIN customFeeds, data \in Datum : submit_custom_data(p, f, data)
    \/ \E p \in DOMAIN incentives : withdraw_incentives(p)

Asking ==
    \E u \in Caller :
        \/ \E f \in DOMAIN feeds : get_aggregated_price(u, f)
                                   \/ \E w \in Window : get_twap(u, f, w)
        \/ \E f \in FeedId, limit \in QueryLimits : get_historical_prices(u, f, limit)
        \/ \E f \in DOMAIN customFeeds : get_custom_data(u, f)
        \/ get_latest_prices_batch(u)

\* The ledger's clock.
Tick ==
    /\ oracleNow < OracleTime
    /\ oracleNow' = oracleNow + 1
    /\ UNCHANGED <<market, staff, custom, quota, fallback>>

Next == Administering \/ Reporting \/ Asking \/ Tick

Spec == Init /\ [][Next]_oracleVars

-----------------------------------------------------------------------------
\* Every variable has its type; a caller's queries in a window stay within its limit.
TypeOK ==
    /\ \A p \in DOMAIN providers : providers[p] \in OracleProvider
    /\ \A k \in DOMAIN providerPrice : providerPrice[k] \in PriceEntry
    /\ \A f \in DOMAIN feeds : Len(priceHistory[f]) <= MaxHistory
    /\ \A f \in DOMAIN customFeeds : Len(customData[f]) <= MaxCustomData
    /\ \A k \in DOMAIN subscriptions : subscriptions[k] \in FeedSubscription
    /\ \A u \in DOMAIN rateLimits :
          rateLimits[u] \in QueryRateLimit /\ rateLimits[u].queries_used <= rateLimits[u].max_queries

\* A price that jumps by more than its feed allows closes the feed: until the
\* cooldown is over or the administrator resets the breaker, neither a submission
\* nor a query finds it open, whoever else submits or asks meanwhile.
BreakerHolds ==
    \A f \in DOMAIN feeds :
        LET past == priceHistory[f]
            n == Len(past)
        IN  /\ n >= 2 /\ f \notin pardoned
            /\ check_price_movement(feeds[f], past[n].price, past[n - 1].price)
            /\ oracleNow < past[n].timestamp + COOLDOWN
            => is_triggered(f)

\* An update is counted once, although the call stores the provider's record twice,
\* and a provider's reputation rises by its custom data only: the record is that of
\* the prices and the data it has sent.
UpdatesCountedOnce ==
    [][\A p \in DOMAIN providers :
         /\ providers'[p].total_updates - providers[p].total_updates \in {0, 1}
         /\ providers'[p].successful_updates - providers[p].successful_updates \in {0, 1}
         /\ priceHistory' # priceHistory =>
               providers'[p].reputation_score = providers[p].reputation_score]_oracleVars

\* The aggregated price is one that providers vouch for: it lies between the lowest
\* and the highest quote of any set of more than three quarters of them, so what the
\* others quote moves it no further, and an average over time lies between the
\* lowest and the highest sample of its window.
AnswersAreRobust ==
    \A f \in DOMAIN feeds :
        /\ LET quotes == Quotes(f)
               answer == aggregate_prices(quotes)
           IN  quotes # <<>> =>
                 \A most \in SUBSET DOMAIN quotes : 4 * Cardinality(most) > 3 * Len(quotes) =>
                     /\ \E i \in most : quotes[i].price <= answer
                     /\ \E i \in most : answer <= quotes[i].price
        /\ \A w \in Window :
              LET samples == InWindow(priceHistory[f], w)
                  twap == calculate_twap(priceHistory[f], w)
              IN  samples # {} =>
                     /\ \E i \in samples : priceHistory[f][i].price <= twap
                     /\ \E i \in samples : twap <= priceHistory[f][i].price
=============================================================================
