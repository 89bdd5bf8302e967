----------------------------- MODULE Portfolio -----------------------------
(***************************************************************************)
(* PortfolioService (portfolio/service.rs) and the snapshot and the tax    *)
(* curve that app/portfolio.rs makes of it: which balances count on a day, *)
(* what they are worth at stored prices, and how the sums are broken down. *)
(*                                                                         *)
(* There is the reporting currency, a foreign one and one share.  An       *)
(* optional amount is a set of at most one.  Times are two to a day.       *)
(* Amounts are integers; under an equity scenario everything is multiplied *)
(* by the denominator of its multiplier, so nothing is divided.            *)
(***************************************************************************)
EXTENDS Calendar, Functions, TLC

CONSTANTS
    TradingDays,        \* when shares are traded
    Holders,            \* accounts
    Holdings,           \* contents of a snapshot: by asset its amount and basis
    SnapshotTimes,
    Quotes, FxRates,    \* prices and rates that may be stored
    PortfolioConfigs,
    MaxStored,          \* bound on what is stored
    Targets             \* net worths to ask a tax curve for

ASSUME PortfolioAssumption ==
    /\ \A at \in SnapshotTimes : at \in Int /\ at \div 2 \in Dates
    /\ \A p \in Quotes : /\ p.date \in Int /\ p.at \in Nat /\ p.at < 2 * Today + 1
                         /\ p.kind \in {"close", "quote"}
    /\ \A p, q \in Quotes : p.date = q.date /\ p.at = q.at /\ p.kind = q.kind => p = q
    /\ None \notin PortfolioConfigs
    /\ \A c \in PortfolioConfigs : c.lookback \in Nat \cup {None} /\ c.projection \in BOOLEAN

VARIABLES
    snapshots,          \* balance snapshots of each account
    quotes, fx,         \* stored prices of the share, rates of the foreign currency
    portfolio,          \* the configuration
    filled              \* the last price history that was fetched, see History

portfolioVars == <<snapshots, quotes, fx, portfolio, filled>>

DayOf(at) == at \div 2
Total(S) == IF S = {} THEN 0 ELSE CHOOSE x \in S : TRUE     \* of an optional amount
Newest(points) == {p \in points : \A q \in points : q.at <= p.at}

(* The market data service, see MarketPrices. *)
Market(config, ps, rs) == INSTANCE MarketPrices WITH
    service <- config, prices <- ps, rates <- rs, now <- 2 * Today + 1, asked <- None,
    Configs <- {}, Sessions <- TradingDays, FirstDay <- 0, LastDay <- Today,
    TicksPerDay <- 2, MaxRequests <- 0, NoLimit <- None
Service(lookback, projection) ==
    [sources |-> <<"eodhd">>, lookback |-> lookback, projection |-> projection,
     staleness |-> None, midnight |-> FALSE]
AsOfNow == Service(None, FALSE)

----------------------------------------------------------------------------
(* What counts on a day: the newest snapshot up to it; before the first,   *)
(* what the account's policy says.  No accounts named means all.           *)

Before(a, d) == {s \in snapshots[a] : DayOf(s.at) <= d}
load_calculation_context(d, ids) ==
    LET accounts == {a \in Holders \ portfolio.excluded : ids = {} \/ a \in ids}
        earliest(a) == {s \in snapshots[a] : \A t \in snapshots[a] : s.at <= t.at}
    IN  [filtered |-> [a \in accounts |->
                          IF Before(a, d) # {} THEN Newest(Before(a, d))
                          ELSE IF portfolio.backfill[a] = "carry_earliest" THEN earliest(a) ELSE {}],
         zero |-> {a \in accounts : Before(a, d) = {} /\ portfolio.backfill[a] = "zero"}]

Holding(ctx, a) == IF ctx.filtered[a] = {} THEN <<>> ELSE Total(ctx.filtered[a]).holds
Owners(ctx, asset) == {a \in DOMAIN ctx.filtered : asset \in DOMAIN Holding(ctx, a)}
Assets(ctx) == UNION {DOMAIN Holding(ctx, a) : a \in DOMAIN ctx.filtered}

aggregate_by_asset(ctx) ==
    [asset \in Assets(ctx) |->
        LET owners == Owners(ctx, asset)
            Amount(a) == Holding(ctx, a)[asset].amount
            Basis(a) == Total(Holding(ctx, a)[asset].basis)
            based == {a \in owners : Holding(ctx, a)[asset].basis # {}}
        IN  [amount |-> MapThenSumSet(Amount, owners),
             with_basis |-> MapThenSumSet(Amount, based),
             basis |-> IF based = {} THEN {} ELSE {MapThenSumSet(Basis, based)}]]

(* The value of one of an asset; today it may be a quote. *)
RateOn(d, config) == {r.value : r \in Market(config, quotes, fx)!fx_close({}, d).answer}
PriceOn(d, config) ==
    {p.value : p \in (IF d = Today THEN Market(config, quotes, fx)!price_latest({}, d, FALSE)
                      ELSE Market(config, quotes, fx)!price_close({}, d)).answer}
value_asset(asset, d, config) ==
    CASE asset = "own" -> {1}
      [] asset = "foreign" -> RateOn(d, config)
      [] asset = "share" -> {p * r : p \in PriceOn(d, config),
                                     r \in IF portfolio.foreign_quotes THEN RateOn(d, config) ELSE {1}}

NoScenario == [num |-> 1, den |-> 1]
fetch_asset_valuations(assets, d, config) == [asset \in assets |-> value_asset(asset, d, config)]
apply_equity_valuation_multiplier(units, multiplier) ==
    [asset \in DOMAIN units |->
        {u * (IF asset = "share" THEN multiplier.num ELSE multiplier.den) : u \in units[asset]}]

----------------------------------------------------------------------------
(* Summaries.                                                              *)

unrealized_gain(agg, unit, scale) == {u * agg.with_basis - b * scale : u \in unit, b \in agg.basis}

(* The tax rate is one: everything below is proportional to it. *)
build_asset_summaries(by_asset, units, scale) ==
    [asset \in DOMAIN by_asset |->
        LET agg == by_asset[asset]
            gain == unrealized_gain(agg, units[asset], scale)
        IN  [amount |-> agg.amount,
             value |-> {u * agg.amount : u \in units[asset]},
             basis |-> {b * scale : b \in agg.basis},
             gain |-> gain,
             tax |-> {g \in gain : g > 0}]]

build_holdings_detail(ctx, asset, units, scale) ==
    [a \in Owners(ctx, asset) |->
        LET h == Holding(ctx, a)[asset] IN {u * h.amount - b * scale : u \in units[asset], b \in h.basis}]

(* An account that holds nothing has no summary, unless the policy gives   *)
(* it a zero; one of which something has no price has no value.            *)
build_account_summaries(ctx, units) ==
    [a \in {b \in DOMAIN ctx.filtered : Holding(ctx, b) # <<>>} \cup ctx.zero |->
        LET holds == Holding(ctx, a)
            Value(asset) == Total(units[asset]) * holds[asset].amount
        IN  IF \E asset \in DOMAIN holds : units[asset] = {} THEN {}
            ELSE {MapThenSumSet(Value, DOMAIN holds)}]

Snapshot(ctx, units, summaries, scale) ==
    LET taxed == {asset \in DOMAIN summaries : summaries[asset].tax # {}}
    IN  [total |-> MapThenSumSet(LAMBDA asset : Total(summaries[asset].value), DOMAIN summaries),
         tax |-> IF taxed = {} THEN {} ELSE {MapThenSumSet(LAMBDA asset : Total(summaries[asset].tax), taxed)},
         by_asset |-> summaries,
         by_account |-> build_account_summaries(ctx, units),
         holdings |-> [asset \in DOMAIN summaries |-> build_holdings_detail(ctx, asset, units, scale)]]
Valued(ctx, units, scale) ==
    Snapshot(ctx, units, build_asset_summaries(aggregate_by_asset(ctx), units, scale), scale)
Counting(ctx, d, config, multiplier) ==
    Valued(ctx, apply_equity_valuation_multiplier(fetch_asset_valuations(Assets(ctx), d, config), multiplier),
           multiplier.den)
calculate(d, ids, config, multiplier) ==
    Counting(load_calculation_context(d, ids), d, config, multiplier)

(* With the latent tax enabled, an account that owes it. *)
apply_latent_tax_virtual_account(out) ==
    IF out.tax = {} THEN out
    ELSE [out EXCEPT !.total = @ - Total(out.tax),
                     !.by_account = @ @@ ("virtual" :> {-Total(out.tax)})]
OfAll(out) == IF portfolio.latent_tax THEN apply_latent_tax_virtual_account(out) ELSE out
portfolio_snapshot(d) == OfAll(calculate(d, {}, AsOfNow, NoScenario))

----------------------------------------------------------------------------
(* Scenarios: shares multiplied so that the whole is worth what is asked   *)
(* for.  None is the answer to one that cannot be.                         *)

resolve_equity_valuation_scenario(out, target) ==
    LET equity == IF "share" \in DOMAIN out.by_asset THEN Total(out.by_asset["share"].value) ELSE 0
        required == target - (out.total - equity)
    IN  IF equity <= 0 \/ required < 0 THEN None ELSE [num |-> required, den |-> equity]

(* Each point of the tax curve: a net worth and what is left after tax.    *)
(* One that cannot be makes the whole curve fail.                          *)
CurvePoint(out, scale) ==
    [nominal |-> out.total, after_tax |-> out.total - Total(out.tax), scale |-> scale]
TaxCurve(d, multiplier) ==
    IF None \in Range(multiplier) THEN None
    ELSE [t \in DOMAIN multiplier |->
             CurvePoint(calculate(d, {}, AsOfNow, multiplier[t]), multiplier[t].den)]
Multipliers(base, targets) == [t \in targets |-> resolve_equity_valuation_scenario(base, t)]
portfolio_tax_impact(d, targets) ==
    TaxCurve(d, Multipliers(calculate(d, {}, AsOfNow, NoScenario), targets))

----------------------------------------------------------------------------
PortfolioInit ==
    /\ snapshots = [a \in Holders |-> {}]
    /\ quotes = {} /\ fx = {}
    /\ portfolio = None
    /\ filled = None

SetUp == /\ portfolio = None /\ portfolio' \in PortfolioConfigs
         /\ UNCHANGED <<snapshots, quotes, fx, filled>>

StoredItems == MapThenSumSet(LAMBDA a : Cardinality(snapshots[a]), Holders)
                   + Cardinality(quotes) + Cardinality(fx)

(* In any order: a snapshot may be of an earlier day than the last one. *)
append_balance_snapshot(a, at, holds) ==
    /\ \A s \in snapshots[a] : s.at # at
    /\ snapshots' = [snapshots EXCEPT ![a] = @ \cup {[at |-> at, holds |-> holds]}]
    /\ UNCHANGED <<quotes, fx, portfolio, filled>>

StoreQuote(p) == /\ quotes' = quotes \cup {p}
                 /\ UNCHANGED <<snapshots, fx, portfolio, filled>>
StoreRate(r) == /\ fx' = fx \cup {r}
                /\ UNCHANGED <<snapshots, quotes, portfolio, filled>>

PortfolioNext ==
    \/ SetUp
    \/ /\ portfolio # None /\ filled = None /\ StoredItems < MaxStored
       /\ \/ \E a \in Holders, at \in SnapshotTimes, holds \in Holdings :
                 append_balance_snapshot(a, at, holds)
          \/ \E p \in Quotes \ quotes : StoreQuote(p)
          \/ \E r \in FxRates \ fx : StoreRate(r)

----------------------------------------------------------------------------
PortfolioTypeOK ==
    /\ \A a \in Holders : \A s \in snapshots[a] : s.at \in SnapshotTimes /\ s.holds \in Holdings
    /\ portfolio \in PortfolioConfigs \cup {None}

ReportDays == {DayOf(at) : at \in SnapshotTimes} \cup {Today}
AllPriced(out) == \A asset \in DOMAIN out.by_asset : out.by_asset[asset].value # {}

(* The total is found by asset and broken down by account: where all has a *)
(* price the accounts, zeros and the virtual tax account among them, add   *)
(* up to it (service.rs:566), and the gains of the holdings to that of the *)
(* asset.                                                                  *)
AccountsAddUp ==
    portfolio # None /\ filled = None =>
        \A d \in ReportDays : \A out \in {portfolio_snapshot(d)} :
            /\ AllPriced(out) =>
                   MapThenSumSet(LAMBDA a : Total(out.by_account[a]), DOMAIN out.by_account) = out.total
            /\ \A asset \in DOMAIN out.by_asset : out.by_asset[asset].gain # {} =>
                   MapThenSumSet(LAMBDA a : Total(out.holdings[asset][a]), DOMAIN out.holdings[asset])
                       = Total(out.by_asset[asset].gain)

Reachable(base) == {t \in Targets : resolve_equity_valuation_scenario(base, t) # None}

(* A scenario is worth what was asked for, and whoever is worth more has   *)
(* no less after tax (service.rs:371, portfolio.rs:1683).                   *)
ScenarioHitsTarget ==
    portfolio # None /\ filled = None =>
        \A d \in ReportDays :
        \A curve \in {portfolio_tax_impact(d, Reachable(calculate(d, {}, AsOfNow, NoScenario)))} :
            \A t \in DOMAIN curve :
                /\ curve[t].nominal = t * curve[t].scale
                /\ \A u \in DOMAIN curve : t <= u => curve[t].after_tax <= curve[u].after_tax
=============================================================================
