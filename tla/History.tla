------------------------------ MODULE History ------------------------------
(***************************************************************************)
(* The portfolio over time: the times at which its value may have changed  *)
(* (portfolio/change_points.rs), its value at them, and the command that   *)
(* fetches the prices this needs (app/portfolio.rs, app/graph.rs).         *)
(* Percentages and the drawing of graphs are left out.                     *)
(***************************************************************************)
EXTENDS Portfolio

CONSTANTS
    ConnectionOf,       \* the connection of each account
    Fills,              \* requests for prices: start, end, interval, lookback, up
    TrayEntries         \* what the tray shows, see history_spec_dates

(* What is remembered of a fetch, see fetch_historical_prices. *)
Fetches == [visited : SUBSET Int, missing : SUBSET Int, lookback : Nat, up : SUBSET STRING,
            had : SUBSET Quotes]
ASSUME HistoryAssumption ==
    /\ None \notin Fetches
    /\ \A f \in Fills : /\ {f.start, f.end} \subseteq Dates \cup {None}
                        /\ f.interval \in {"daily", "weekly", "monthly", "yearly"}
                        /\ f.lookback \in Nat /\ f.up \subseteq STRING

All == {}               \* no accounts are named
Granularities == {"full", "hourly", "daily", "weekly", "monthly", "yearly"}

----------------------------------------------------------------------------
(* Change points: a timestamp each.                                        *)

Scope(ids) == {a \in Holders \ portfolio.excluded : ids = All \/ a \in ids}
add_balance_change(ids) == {s.at : s \in UNION {{t \in snapshots[a] : t.holds # <<>>} : a \in Scope(ids)}}
held_assets(ids) == UNION {UNION {DOMAIN s.holds : s \in snapshots[a]} : a \in Scope(ids)}
price_to_change_timestamp(p) == p.at
add_price_change(ids) ==
    IF "share" \in held_assets(ids) THEN {price_to_change_timestamp(p) : p \in quotes} ELSE {}

(* A snapshot that lists nothing leaves no point; rates leave none yet.    *)
collect_change_points(ids, prices) ==
    add_balance_change(ids) \cup IF prices THEN add_price_change(ids) ELSE {}

filter_by_date_range(points, start, end) ==
    {at \in points : (start = None \/ DayOf(at) >= start) /\ (end = None \/ DayOf(at) <= end)}

BucketKey(at, granularity) ==
    CASE granularity = "full" -> at
      [] granularity = "hourly" -> at       \* the times of a day are hours apart
      [] granularity = "daily" -> DayOf(at)
      [] granularity = "weekly" -> (DayOf(at) - Epoch) \div 7
      [] granularity = "monthly" -> MonthOf[DayOf(at)]
      [] granularity = "yearly" -> Year(DayOf(at))
(* mutant: the first point of each *)
filter_by_granularity_First(points, granularity) ==
    {at \in points : \A q \in points : q < at => BucketKey(q, granularity) # BucketKey(at, granularity)}
filter_by_granularity(points, granularity) ==
    {at \in points : \A q \in points : q > at => BucketKey(q, granularity) # BucketKey(at, granularity)}

into_change_points(points) == SetToSortSeq(points, <)

----------------------------------------------------------------------------
(* The value at a date.                                                    *)

configure_history_market_data == Service(portfolio.lookback, portfolio.projection)

(* What is held now tells the basis of what was held before it was known.  *)
collect_history_cost_basis_backfill(ids) ==
    LET latest(a) == Newest(snapshots[a])
        based(asset) == {a \in Scope(ids) : \E s \in latest(a) : /\ asset \in DOMAIN s.holds
                                                                 /\ s.holds[asset].basis # {}
                                                                 /\ s.holds[asset].amount # 0}
        Held(a, asset) == Total(latest(a)).holds[asset]
    IN  [asset \in {x \in held_assets(ids) : based(x) # {}} |->
            [amount |-> MapThenSumSet(LAMBDA a : Held(a, asset).amount, based(asset)),
             basis |-> MapThenSumSet(LAMBDA a : Total(Held(a, asset).basis), based(asset))]]

(* An asset without a price keeps the unit value it had at an earlier point. *)
compute_history_valuation_with_carry_forward(by_asset, carried, backfill, taxed) ==
    LET Value(x) ==
            LET a == by_asset[x] IN
            CASE a.value # {} -> Total(a.value)
              [] a.value = {} /\ x \in DOMAIN carried -> carried[x] * a.amount
              [] OTHER -> 0
        basis(x) ==
            LET a == by_asset[x] IN
            CASE a.basis # {} -> a.basis
              [] a.basis = {} /\ x \in DOMAIN backfill ->
                     {(backfill[x].basis * a.amount) \div backfill[x].amount}
              [] OTHER -> {}
        tax(x) == IF by_asset[x].tax # {} THEN by_asset[x].tax
                  ELSE {g \in {Value(x) - b : b \in basis(x)} : g > 0}
        owing == IF taxed THEN {x \in DOMAIN by_asset : tax(x) # {}} ELSE {}
        Tax(x) == Total(tax(x))
    IN  [value |-> MapThenSumSet(Value, DOMAIN by_asset),
         tax |-> IF owing = {} THEN {} ELSE {MapThenSumSet(Tax, owing)},
         carry |-> [x \in {x \in DOMAIN by_asset : by_asset[x].value # {} /\ by_asset[x].amount # 0} |->
                       Total(by_asset[x].value) \div by_asset[x].amount] @@ carried]

(* Modes: the portfolio, less the latent tax where it is enabled; some     *)
(* accounts; the account of the latent tax.                                *)
(* mutant: the tax is never taken off *)
history_total_value_from_snapshot_Gross(valuation, mode) ==
    IF mode = "latent_tax" THEN Total(valuation.tax) ELSE valuation.value
history_total_value_from_snapshot(valuation, mode) ==
    CASE mode = "latent_tax" -> Total(valuation.tax)
      [] mode = "portfolio" /\ portfolio.latent_tax -> valuation.value - Total(valuation.tax)
      [] OTHER -> valuation.value

resolve_capital_gains_tax_rate(mode) == mode = "latent_tax" \/ portfolio.latent_tax

HistoryPoint(at, mode, valuation, priced) ==
    [point |-> [at |-> at, tax |-> valuation.tax, priced |-> priced,
                value |-> history_total_value_from_snapshot(valuation, mode)],
     carry |-> valuation.carry]
PointOf(out, at, mode, backfill, carried) ==
    HistoryPoint(at, mode,
                 compute_history_valuation_with_carry_forward(
                     out.by_asset, carried, backfill, resolve_capital_gains_tax_rate(mode)),
                 AllPriced(out))
build_history_point(at, ids, mode, backfill, carried) ==
    PointOf(calculate(DayOf(at), ids, configure_history_market_data, NoScenario),
            at, mode, backfill, carried)

(* One after the other, each with what the earlier ones leave to carry.    *)
Along(times, ids, mode) ==
    LET Extended(done, built) == [points |-> Append(done.points, built.point), carry |-> built.carry]
        Step(done, at) ==
            Extended(done, build_history_point(at, ids, mode, collect_history_cost_basis_backfill(ids),
                                               done.carry))
    IN  FoldLeft(Step, [points |-> <<>>, carry |-> <<>>], times).points

portfolio_history_scoped(ids, start, end, granularity, prices, mode) ==
    LET times == filter_by_granularity(
                     filter_by_date_range(collect_change_points(ids, prices), start, end), granularity)
    IN  Along(into_change_points(times), ids, mode)
portfolio_history(start, end, granularity, prices) ==
    portfolio_history_scoped(All, start, end, granularity, prices, "portfolio")
(* An account that is excluded from the portfolio has no points, even alone. *)
portfolio_history_for_accounts(ids, start, end, granularity, prices) ==
    portfolio_history_scoped(ids, start, end, granularity, prices, "accounts")
latent_capital_gains_tax_history(start, end, granularity, prices) ==
    portfolio_history_scoped(All, start, end, granularity, prices, "latent_tax")

(* What a graph is of: one account, the accounts of a connection, the tax   *)
(* account by its name, or everything; both at once is refused.            *)
resolve_portfolio_history_selection(account, connection) ==
    CASE account # None /\ connection # None -> None
      [] account = "virtual" /\ connection = None -> [kind |-> "latent_tax"]
      [] account \in Holders /\ connection = None -> [kind |-> "accounts", ids |-> {account}]
      [] account = None /\ connection # None ->
             [kind |-> "accounts", ids |-> {a \in Holders : ConnectionOf[a] = connection}]
      [] OTHER -> [kind |-> "portfolio"]
portfolio_graph(account, connection, granularity) ==
    LET selection == resolve_portfolio_history_selection(account, connection)
    IN  portfolio_history_scoped(IF selection.kind = "accounts" THEN selection.ids ELSE All,
                                 None, None, granularity, TRUE, selection.kind)

(* What the tray shows: at set dates, from the first change on.            *)
portfolio_recent_history(prices, anchor) ==
    LET changes == collect_change_points(All, prices)
        dates == SelectSeq(history_spec_dates(TrayEntries, anchor),
                           LAMBDA d : \E at \in changes : DayOf(at) <= d)
    IN  Along([i \in DOMAIN dates |-> 2 * dates[i]], All, "portfolio")

----------------------------------------------------------------------------
(* Fetching prices: for every asset that any account ever held, at every   *)
(* date of the interval, within the look-back.                             *)

EverHeld == UNION {UNION {DOMAIN s.holds : s \in snapshots[a]} : a \in Holders}

(* Of each day the newest price. *)
load_price_cache(points) == {p \in points : \A q \in points : q.date = p.date => q.at <= p.at}
resolve_cached(cache, d, lookback) ==
    LET near == {p \in cache : d - lookback <= p.date /\ p.date <= d}
    IN  {p \in near : \A q \in near : q.date <= p.date}

(* The start is moved to the end of its month or year, perhaps past the end. *)
VisitedDates(start, end, interval) ==
    LET first == align_start_date(start, interval)
        dates[d \in first .. end] ==
            LET next == advance_interval_date(d, interval)
            IN  {d} \cup IF next > end THEN {} ELSE dates[next]
    IN  IF first > end THEN {} ELSE dates[first]

(* mutant: from the first date, without the days before it *)
FetchStart_NoLookback(start, interval, lookback) == align_start_date(start, interval)
FetchStart(start, interval, lookback) == align_start_date(start, interval) - lookback

(* The whole range is asked for, or nothing where each date has a price    *)
(* near enough.                                                            *)
FetchedPrices(start, end, interval, lookback, up) ==
    LET cache == load_price_cache(quotes)
        needs_fetch == \E d \in VisitedDates(start, end, interval) :
                           resolve_cached(cache, d, lookback) = {}
    IN  IF "share" \in EverHeld /\ needs_fetch
        THEN {[date |-> p.date, at |-> p.at, kind |-> "close", value |-> 12] :
                 p \in Market(Service(lookback, FALSE), quotes, fx)!price_closes_range(
                           up, FetchStart(start, interval, lookback), end).put}
        ELSE {}

(* Rates are looked up, or fetched, a date at a time. *)
ensure_fx_rate(rates, d, lookback, up) ==
    IF resolve_cached(load_price_cache(rates), d, lookback) # {} THEN rates
    ELSE rates \cup {[date |-> r.date, at |-> r.at, kind |-> "close", value |-> 2] :
                        r \in Market(Service(lookback, FALSE), quotes, rates)!fx_close(up, d).put}

fetch_historical_prices(f) ==
    LET dated == UNION {{DayOf(s.at) : s \in snapshots[a]} : a \in Holders}
        start == IF f.start = None THEN Min(dated) ELSE f.start
        end == IF f.end = None THEN Today ELSE f.end
        visited == VisitedDates(start, end, f.interval)
        stored == quotes \cup FetchedPrices(start, end, f.interval, f.lookback, f.up)
        needs_rate(d) == \/ "foreign" \in EverHeld
                         \/ /\ "share" \in EverHeld /\ portfolio.foreign_quotes
                            /\ resolve_cached(load_price_cache(stored), d, f.lookback) # {}
        Step(rates, d) == IF needs_rate(d) THEN ensure_fx_rate(rates, d, f.lookback, f.up) ELSE rates
    IN  /\ EverHeld # {} /\ start <= end
        /\ quotes' = stored
        /\ fx' = FoldLeft(Step, fx, SetToSortSeq(visited, <))
        /\ filled' = [visited |-> visited, lookback |-> f.lookback, up |-> f.up, had |-> quotes,
                      missing |-> IF "share" \notin EverHeld THEN {}
                                  ELSE {d \in visited :
                                           resolve_cached(load_price_cache(stored), d, f.lookback) = {}}]
        /\ UNCHANGED <<snapshots, portfolio>>

(* At one date: its one visited date. *)
fill_prices_at_date(d, lookback, up) ==
    fetch_historical_prices([start |-> d, end |-> d, interval |-> "daily", lookback |-> lookback, up |-> up])

FillNext ==
    /\ portfolio # None /\ filled = None /\ StoredItems < MaxStored
    /\ \/ \E f \in Fills : fetch_historical_prices(f)
       \/ \E f \in Fills : f.start # None /\ f.interval = "daily" /\ fill_prices_at_date(f.start, f.lookback, f.up)

HistoryNext == PortfolioNext \/ FillNext
HistorySpec == PortfolioInit /\ [][HistoryNext]_portfolioVars

----------------------------------------------------------------------------
(* What may change the value without leaving a point, as the code has it:  *)
(* a snapshot that lists nothing (change_points.rs:303), a rate (line 324), *)
(* a price taken later than its day, and one that gets too old to be used. *)
EachChangeHasAPoint ==
    /\ \A a \in Holders : \A s \in snapshots[a] : s.holds # <<>>
    /\ fx = {}
    /\ \A p \in quotes : DayOf(p.at) = p.date
    /\ portfolio.lookback = None /\ ~portfolio.projection

LastUpTo(history, at) == SelectLastInSeq(history, LAMBDA p : p.at <= at)
ValueUpTo(history, at) == LET i == LastUpTo(history, at) IN IF i = 0 THEN 0 ELSE history[i].value
ValueOn(d) == build_history_point(2 * d + 1, All, "portfolio",
                                  collect_history_cost_basis_backfill(All), <<>>).point.value
FirstDayOf(history) == DayOf(history[1].at)
LooksAt == portfolio # None /\ filled = None

(* No change of value goes unseen (change_points.rs:258): whatever day one  *)
(* picks, the last point up to it has the value of that day; and at a      *)
(* coarser granularity this holds of the last day of each period.          *)
NoMissedChange ==
    LooksAt /\ EachChangeHasAPoint =>
        \A histories \in {{<<g, portfolio_history(None, None, g, TRUE)>> : g \in Granularities}} :
            \A d \in {DayOf(at) : at \in collect_change_points(All, TRUE)} \cup ReportDays :
                \A value \in {ValueOn(d)}, h \in histories :
                    /\ h[2] # <<>> /\ FirstDayOf(h[2]) <= d
                    /\ h[1] = "full" \/ BucketKey(2 * d + 1, h[1]) # BucketKey(2 * d + 2, h[1])
                    => ValueUpTo(h[2], 2 * d + 1) = value

(* A history and a snapshot of one of its days are computed by different   *)
(* code (portfolio.rs:349, service.rs:477): where everything has a price   *)
(* they agree on value and tax.  They do not for an asset of which only a  *)
(* part has a basis: the history takes the rest for gain, or a basis of a  *)
(* later day for it.                                                       *)
HistoryLikeSnapshot ==
    LooksAt /\ portfolio.lookback = None =>
        \A p \in ToSet(portfolio_history(None, None, "full", TRUE)) :
        \A shown \in {portfolio_snapshot(DayOf(p.at))},
           held \in {aggregate_by_asset(load_calculation_context(DayOf(p.at), All))} :
            /\ p.priced
            /\ \A x \in DOMAIN held : held[x].with_basis # held[x].amount =>
                   held[x].with_basis = 0 /\ x \notin DOMAIN collect_history_cost_basis_backfill(All)
            => /\ p.value = shown.total
               /\ portfolio.latent_tax => p.tax = shown.tax

(* The histories of the accounts or of the connections, and that of the    *)
(* tax account, each with points of its own, add up to that of the         *)
(* portfolio (graph.rs:102).  An account alone does not show what a policy *)
(* assumes before its first snapshot.                                      *)
AccountHistoriesAddUp ==
    LooksAt /\ EachChangeHasAPoint /\ (\A a \in Holders : portfolio.backfill[a] # "carry_earliest") =>
        \A graph \in {[a \in Holders \cup {None, "virtual"}, c \in Range(ConnectionOf) \cup {None} |->
                          IF a # None /\ c # None THEN <<>> ELSE portfolio_graph(a, c, "full")]} :
        \A i \in DOMAIN graph[None, None] :
            LET p == graph[None, None][i]
                gross == p.value + IF portfolio.latent_tax THEN graph["virtual", None][i].value ELSE 0
                connections == Range(ConnectionOf)
            IN  /\ MapThenSumSet(LAMBDA a : ValueUpTo(graph[a, None], p.at), Holders) = gross
                /\ MapThenSumSet(LAMBDA c : ValueUpTo(graph[None, c], p.at), connections) = gross

(* The tray samples by date what the history lists by change: from the      *)
(* first change on every date of the specification has an entry, and its   *)
(* value is the one the history closes that day with.                      *)
TrayLikeHistory ==
    LooksAt /\ EachChangeHasAPoint =>
        \A history \in {portfolio_history(None, None, "full", TRUE)},
           tray \in {portfolio_recent_history(TRUE, Today)} :
            /\ {DayOf(tray[i].at) : i \in DOMAIN tray}
                    = {d \in ToSet(history_spec_dates(TrayEntries, Today)) :
                           history # <<>> /\ FirstDayOf(history) <= d}
            /\ \A i \in DOMAIN tray : tray[i].value = ValueUpTo(history, tray[i].at + 1)

(* After a fetch that reached its source a visited day is without a price   *)
(* only if within the look-back no session closed and nothing was stored   *)
(* (portfolio.rs:739); and histories, which look prices up in another way, *)
(* find one on each of the other days.                                     *)
FilledWherePriced ==
    filled # None /\ "eodhd" \in filled.up /\ "share" \in EverHeld =>
        /\ filled.missing = {d \in filled.visited : \A c \in d - filled.lookback .. d :
                                  /\ c \in TradingDays => c >= Today
                                  /\ \A p \in filled.had : p.date # c}
        /\ portfolio.lookback = None \/ portfolio.lookback >= filled.lookback =>
               \A d \in filled.visited \ filled.missing :
                   \E p \in Market(configure_history_market_data, quotes, fx)!price_close({}, d).answer :
                       d - filled.lookback <= p.date /\ p.date <= d

(* Snapshot, scenarios, histories and tray, each computed by code of its   *)
(* own, say the same of one day.                                           *)
ReportsAgree ==
    AccountsAddUp /\ ScenarioHitsTarget /\ HistoryLikeSnapshot /\ AccountHistoriesAddUp /\ TrayLikeHistory
=============================================================================
