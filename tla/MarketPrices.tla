---------------------------- MODULE MarketPrices ----------------------------
(***************************************************************************)
(* MarketDataService (market_data/service.rs) between the stored points of *)
(* one priced asset and one pair of currencies, the routers that ask the   *)
(* configured sources in turn, and SyncOrchestrator, which sees to it that *)
(* what is held can be valued.  Every request is answered before the next: *)
(* what can go wrong here is which point is taken, not when.               *)
(*                                                                         *)
(* Days and ticks of the clock are numbers; a point is its date, the time  *)
(* it was taken at and its kind.  An optional point is a set of at most    *)
(* one.  Amounts and currencies do not matter to the choice of a point.    *)
(***************************************************************************)
EXTENDS Integers, Sequences, FiniteSets

CONSTANTS
    Configs,        \* services to look at, see Open
    Sessions,       \* days on which shares are traded
    FirstDay, LastDay,
    TicksPerDay,
    MaxRequests,    \* bound on requests
    NoLimit         \* no lookback, no staleness

ASSUME PricesAssumption ==
    /\ FirstDay \in Nat /\ LastDay \in Nat /\ TicksPerDay \in Nat \ {0} /\ Sessions \subseteq Int
    /\ NoLimit \notin Nat /\ NoLimit \notin Configs
    /\ \A c \in Configs : c \in
          [sources : Seq({"eodhd", "marketstack", "alpha_vantage", "twelve_data", "coingecko",
                          "cryptocompare", "coincap"}),
           lookback : Nat \cup {NoLimit}, staleness : Nat \cup {NoLimit},
           projection : BOOLEAN, midnight : BOOLEAN]

VARIABLES
    service,        \* the configuration of the service, NoLimit before it is built
    now,            \* the clock
    prices, rates,  \* stored points
    asked           \* the last request: what was asked, its answer, what was stored before

pricesVars == <<service, now, prices, rates, asked>>

Days == FirstDay .. LastDay
CurrentDay == now \div TicksPerDay
Point(date, kind) == [date |-> date, at |-> now, kind |-> kind]
Rank(p) == CASE p.kind = "close" -> 0 [] p.kind = "adj_close" -> 1 [] p.kind = "quote" -> 2
Nothing == [op |-> "none"]
FirstOf(indices) == {i \in indices : \A j \in indices : i <= j}
Named(sources) == {sources[i] : i \in DOMAIN sources}

----------------------------------------------------------------------------
(* The sources, by the days whose price they answer a request for a day     *)
(* with.  A session has a close when it is over; coins trade every day.     *)

Closed == {c \in Sessions : c < CurrentDay}
Traded == {c \in Days : c <= CurrentDay}
NewestIn(days) == {c \in days : \A e \in days : e <= c}

eodhd(d) == Closed \cap {d}
marketstack(d) == Closed \cap {d}
alpha_vantage(d) == Closed \cap {d}
(* the most recent of a week, under its own date *)
twelve_data(d) == NewestIn(Closed \cap (d - 7 .. d))
(* not asked for what is too old for it *)
coingecko(d) == {c \in Traded \cap {d} : d >= CurrentDay - 365}
cryptocompare(d) == Traded \cap {d}
(* the last of what is asked for, which ends with the next midnight *)
coincap(d) == NewestIn(Traded \cap (d .. IF service.midnight THEN d + 1 ELSE d))
(* the last rate published, under the date that was asked for *)
frankfurter(d) == IF \E c \in Closed : c <= d THEN {d} ELSE {}

fetch_close(source, d) ==
    CASE source = "eodhd" -> eodhd(d)
      [] source = "marketstack" -> marketstack(d)
      [] source = "alpha_vantage" -> alpha_vantage(d)
      [] source = "twelve_data" -> twelve_data(d)
      [] source = "coingecko" -> coingecko(d)
      [] source = "cryptocompare" -> cryptocompare(d)
      [] source = "coincap" -> coincap(d)
      [] source = "frankfurter" -> frankfurter(d)

(* A range asks for each day, or for all at once and keeps those asked for. *)
fetch_closes(source, start, end) == {c \in UNION {fetch_close(source, d) : d \in start .. end} :
                                         start <= c /\ c <= end}

(* Two sources have quotes. *)
fetch_quote(source) == IF source \in {"twelve_data", "coingecko"} THEN {Point(CurrentDay, "quote")} ELSE {}

(* The routers ask in the order of priority, pass over sources that have    *)
(* nothing or fail (those not up), and take the first that has something.   *)
Routed(sources, up, answer) ==
    LET has == {i \in DOMAIN sources : sources[i] \in up /\ answer[sources[i]] # {}}
    IN  UNION {answer[sources[i]] : i \in FirstOf(has)}

(* mutant: asks every source *)
fetch_from_sources_All(sources, up, d) ==
    {Point(c, "close") : c \in UNION {fetch_close(s, d) : s \in up \cap Named(sources)}}
fetch_from_sources(sources, up, d) ==
    {Point(c, "close") : c \in Routed(sources, up, [s \in Named(sources) |-> fetch_close(s, d)])}

(* price_close and fx_close look back a day at a time. *)
fetch_lookback_days == IF service.lookback = NoLimit THEN 7 ELSE service.lookback
Nearest(found) ==
    UNION {found[o] : o \in FirstOf({n \in DOMAIN found : found[n] # {}})}
fetch_back(sources, up, d) ==
    Nearest([o \in 0 .. fetch_lookback_days |-> fetch_from_sources(sources, up, d - o)])
(* There is one source of rates. *)
fetch_rate_back(up, d) == fetch_back(<<"frankfurter">>, up, d)

----------------------------------------------------------------------------
(* Choosing among stored points.                                           *)

Later(p, q) == \/ p.date > q.date
               \/ p.date = q.date /\ p.at > q.at
               \/ p.date = q.date /\ p.at = q.at /\ Rank(p) > Rank(q)
select_latest(points) == {p \in points : \A q \in points \ {p} : Later(p, q)}

(* Among the points of the first day, prices take the latest, ... *)
select_earliest_price(points) ==
    {p \in points : \A q \in points \ {p} :
        \/ p.date < q.date
        \/ p.date = q.date /\ p.at > q.at
        \/ p.date = q.date /\ p.at = q.at /\ Rank(p) < Rank(q)}
(* ... and rates the earliest. *)
select_earliest_fx_rate(points) == {p \in points : \A q \in points \ {p} : Later(q, p)}

OnOrBefore(points, d) == {p \in points : p.date <= d}
OnOrAfter(points, d) == {p \in points : p.date >= d}

OrProjected(found, projected) == IF found = {} /\ service.projection THEN projected ELSE found

price_from_store(points, d) ==
    OrProjected(select_latest(IF service.lookback = NoLimit THEN OnOrBefore(points, d)
                              ELSE OnOrBefore(OnOrAfter(points, d - service.lookback), d)),
                select_earliest_price(OnOrAfter(points, d)))

get_fx_rate(points, d) == select_latest({p \in points : p.date = d})

fx_from_store(points, d) ==
    OrProjected(IF service.lookback = NoLimit THEN select_latest(OnOrBefore(points, d))
                ELSE Nearest([o \in 0 .. service.lookback |-> get_fx_rate(points, d - o)]),
                select_earliest_fx_rate(OnOrAfter(points, d)))

----------------------------------------------------------------------------
(* Requests: each yields its answer and what it stores.                    *)

Reply(answer, put) == [answer |-> answer, put |-> put]

StoredFirst(stored, fetched) == IF stored # {} THEN Reply(stored, {}) ELSE Reply(fetched, fetched)
FetchedFirst(fetched, stored) == IF fetched # {} THEN Reply(fetched, fetched) ELSE Reply(stored, {})

price_close(up, d) ==
    StoredFirst(price_from_store(prices, d), fetch_back(service.sources, up, d))
price_close_force(up, d) ==
    FetchedFirst(fetch_back(service.sources, up, d), price_from_store(prices, d))
fx_close(up, d) == StoredFirst(fx_from_store(rates, d), fetch_rate_back(up, d))
fx_close_force(up, d) == FetchedFirst(fetch_rate_back(up, d), fx_from_store(rates, d))

price_closes_range(up, start, end) ==
    LET answer == [s \in Named(service.sources) |-> fetch_closes(s, start, end)]
        fetched == {Point(c, "close") : c \in Routed(service.sources, up, answer)}
    IN  Reply(fetched, fetched)

StoredOfDay(points, d, force) ==
    IF force \/ service.staleness = NoLimit THEN {} ELSE select_latest({p \in points : p.date = d})
Quoted(up) == Routed(service.sources, up, [s \in Named(service.sources) |-> fetch_quote(s)])
Young(p) == now - p.at < service.staleness

(* mutant: any point of the day will do *)
QuotedOr_AnyAge(sameDay, quote, close) ==
    CASE sameDay # {} -> Reply(sameDay, {})
      [] sameDay = {} /\ quote # {} -> Reply(quote, quote)
      [] OTHER -> close
(* A stored point of the day serves while it is young; one whose time is    *)
(* to come counts as young.  Then a quote, then the old point after all.    *)
QuotedOr(sameDay, quote, close) ==
    CASE \E p \in sameDay : Young(p) -> Reply(sameDay, {})
      [] ~(\E p \in sameDay : Young(p)) /\ quote # {} -> Reply(quote, quote)
      [] ~(\E p \in sameDay : Young(p)) /\ quote = {} /\ sameDay # {} -> Reply(sameDay, {})
      [] OTHER -> close
price_latest(up, d, force) ==
    QuotedOr(StoredOfDay(prices, d, force), Quoted(up),
             IF force THEN price_close_force(up, d) ELSE price_close(up, d))

(* A price that came with a sync is stored unless one of its day and kind   *)
(* is as new.                                                              *)
store_price(p) ==
    IF \E q \in prices : q.date = p.date /\ q.kind = p.kind /\ q.at >= p.at
    THEN Reply({p}, {}) ELSE Reply({p}, {p})

(* SyncOrchestrator: prices of what is held, then the rates they call for;  *)
(* a price that cannot be had is reported, a rate is not.                   *)
ensure_prices(up, d, force) == IF force THEN price_close_force(up, d) ELSE price_close(up, d)
ensure_valuation_prices(up, d, force) ==
    IF d = CurrentDay THEN price_latest(up, d, force) ELSE ensure_prices(up, d, force)
ensure_rates(up, d, force) == IF force THEN fx_close_force(up, d) ELSE fx_close(up, d)

----------------------------------------------------------------------------
PricesInit ==
    /\ service = NoLimit
    /\ now = FirstDay * TicksPerDay
    /\ prices = {} /\ rates = {}
    /\ asked = Nothing

(* MarketDataServiceBuilder.build with one configuration. *)
Open == /\ service = NoLimit
        /\ service' \in Configs
        /\ UNCHANGED <<now, prices, rates, asked>>

Record(op, d, up, reply, points) ==
    asked' = [op |-> op, date |-> d, at |-> now, up |-> up, answer |-> reply.answer, before |-> points]

Spent == Cardinality(prices) + Cardinality(rates)
Up == SUBSET (Named(service.sources) \cup {"frankfurter"})

AskPrice(op, d, up) ==
    LET reply == CASE op = "price_close" -> price_close(up, d)
                   [] op = "price_close_force" -> price_close_force(up, d)
                   [] op = "price_latest" -> price_latest(up, d, FALSE)
                   [] op = "price_latest_force" -> price_latest(up, d, TRUE)
    IN  /\ prices' = prices \cup reply.put
        /\ Record(op, d, up, reply, prices)
        /\ UNCHANGED <<service, now, rates>>

AskRate(op, d, up) ==
    LET reply == IF op = "fx_close" THEN fx_close(up, d) ELSE fx_close_force(up, d)
    IN  /\ rates' = rates \cup reply.put
        /\ Record(op, d, up, reply, rates)
        /\ UNCHANGED <<service, now, prices>>

AskRange(start, end, up) ==
    LET reply == price_closes_range(up, start, end)
    IN  /\ prices' = prices \cup reply.put
        /\ Record("price_closes_range", end, up, reply, prices)
        /\ UNCHANGED <<service, now, rates>>

(* The synchronizer's price is as old as it says: it may come late. *)
SyncPrice(date, at) ==
    LET reply == store_price([date |-> date, at |-> at, kind |-> "close"])
    IN  /\ at <= now /\ date <= at \div TicksPerDay
        /\ prices' = prices \cup reply.put
        /\ Record("store_price", date, {}, reply, prices)
        /\ UNCHANGED <<service, now, rates>>

Ensure(d, force, up) ==
    LET valuing == ensure_valuation_prices(up, d, force)
        rating == ensure_rates(up, d, force)
    IN  /\ prices' = prices \cup valuing.put
        /\ rates' = rates \cup rating.put
        /\ Record("ensure", d, up, valuing, prices)
        /\ UNCHANGED <<service, now>>

TimePasses == /\ now < LastDay * TicksPerDay + TicksPerDay - 1
              /\ now' = now + 1
              /\ UNCHANGED <<service, prices, rates, asked>>

(* The caller takes the answer before anything else is asked. *)
Take == /\ asked' = Nothing
        /\ UNCHANGED <<service, now, prices, rates>>

PricesNext ==
    \/ Open
    \/ asked # Nothing /\ Take
    \/ /\ service # NoLimit /\ asked = Nothing
       /\ \/ TimePasses
          \/ /\ Spent < MaxRequests
             /\ \E up \in Up, d \in Days :
                    \/ \E op \in {"price_close", "price_close_force"} : AskPrice(op, d, up)
                    \/ \E op \in {"price_latest", "price_latest_force"} : AskPrice(op, CurrentDay, up)
                    \/ \E op \in {"fx_close", "fx_close_force"} : AskRate(op, d, up)
                    \/ \E end \in Days : AskRange(d, end, up)
                    \/ \E at \in {now - 1, now} \cap Nat : SyncPrice(d, at)
                    \/ \E force \in BOOLEAN : Ensure(d, force, up)

PricesSpec == PricesInit /\ [][PricesNext]_pricesVars

----------------------------------------------------------------------------
PricesTypeOK ==
    /\ service \in Configs \cup {NoLimit}
    /\ \A p \in prices \cup rates : /\ p.date \in FirstDay - 1 .. LastDay + 1
                                   /\ p.at \in 0 .. now
                                   /\ p.kind \in {"close", "quote"}
    /\ asked # Nothing /\ asked.op # "price_closes_range" => Cardinality(asked.answer) <= 1

Closing == {"price_close", "price_close_force", "price_latest", "price_latest_force",
            "fx_close", "fx_close_force"}

(* What is said to be the price or rate on or before a day is not of a      *)
(* later day (service.rs:177), whatever the sources answer with; unless the *)
(* configuration projects later prices back, or CoinCap counts the midnight *)
(* its request ends with as part of it (coincap.rs:151).                   *)
NotOfLaterDay ==
    asked.op \in Closing /\ ~service.projection /\ ~service.midnight =>
        \A p \in asked.answer : p.date <= asked.date

(* Who asks again for what was found does not need the network: the store  *)
(* answers with something at least as new, since what was fetched was put  *)
(* there under a date that look-ups reach.                                 *)
FoundAgain ==
    asked.op \in Closing /\ ~service.midnight =>
        \A p \in asked.answer :
            \/ service.lookback # NoLimit /\ p.date < asked.date - service.lookback
            \/ LET again == IF asked.op \in {"fx_close", "fx_close_force"}
                            THEN fx_from_store(rates, asked.date) ELSE price_from_store(prices, asked.date)
               IN  \E q \in again : q = p \/ Later(q, p) \/ q.date > asked.date

(* The latest price is not older than any stored price of the day or before *)
(* (service.rs:251): a failed request does not fall back further than to    *)
(* what is known.                                                          *)
LatestIsNewest ==
    asked.op = "price_latest" =>
        \A p \in asked.answer, q \in asked.before :
            q.date <= asked.date /\ (service.lookback = NoLimit \/ q.date >= asked.date - service.lookback)
                => p = q \/ Later(p, q)

(* Where a quote can be had, the latest price is new or younger than the   *)
(* threshold (staleness of prices).                                        *)
YoungIfPossible ==
    asked.op = "price_latest" /\ asked.up \cap Named(service.sources) \cap {"twelve_data", "coingecko"} # {} =>
        \E p \in asked.answer :
            p.at = asked.at \/ (service.staleness # NoLimit /\ asked.at - p.at < service.staleness)

(* Prices and rates are looked up alike, although one takes a range and the *)
(* other a day at a time: of the same points they choose the same day.      *)
PricesLikeRates ==
    service # NoLimit => \A d \in Days :
        LET price == price_from_store(prices, d)
            rate == fx_from_store(prices, d)
        IN  /\ {p.date : p \in price} = {p.date : p \in rate}
            /\ (\E p \in price : p.date <= d /\ ~service.projection) => price = rate

(* Of the points there are the service answers with the right one, of the  *)
(* store or of a source.                                                   *)
WellChosen == NotOfLaterDay /\ FoundAgain /\ LatestIsNewest /\ YoungIfPossible /\ PricesLikeRates
=============================================================================
