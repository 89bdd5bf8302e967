------------------------------ MODULE MCMarket ------------------------------
(***************************************************************************)
(* Market data and the reports made with it: two stores with a task each   *)
(* on the files of one year; one service with the requests it gets, in     *)
(* four configurations (no limit on look-ups, a bounded look-back, and     *)
(* projection into the past with and without it); the spending report on   *)
(* two transactions; the portfolio and its history on three stored items.  *)
(* They share no state and are looked at one after the other, not          *)
(* interleaved: the first to move decides which.                           *)
(***************************************************************************)
EXTENDS MarketStore, MarketPrices, Spending, History

CONSTANTS s1, s2, u1, u2, p1, p2

MCStoreOf == (u1 :> s1) @@ (u2 :> s2)
MCYearOf == [p \in Points |-> 1]
MCBatches == {{p1}, {p2}}

Cfg(sources, lookback, projection, staleness, midnight) ==
    [sources |-> sources, lookback |-> lookback, projection |-> projection,
     staleness |-> staleness, midnight |-> midnight]
MCConfigs == {Cfg(<<"eodhd", "twelve_data">>, NoLimit, FALSE, 2, FALSE),
              Cfg(<<"alpha_vantage", "marketstack">>, 1, FALSE, NoLimit, FALSE),
              Cfg(<<"coincap", "coingecko">>, 1, TRUE, 1, TRUE),
              Cfg(<<"cryptocompare", "coincap">>, NoLimit, FALSE, 1, FALSE)}

MCToday == Date(2024, 3, 31)
D(m, d) == Date(2024, m, d)

(* Spending. *)
Tx(account, day, late, amount, asset, status, transfer, description) ==
    [account |-> account, day |-> day, late |-> late, amount |-> amount, asset |-> asset,
     status |-> status, transfer |-> transfer, description |-> description, category |-> "food"]
MCEntries == {Tx("a", D(1, 31), FALSE, -3, "currency", "posted", FALSE, "x"),
              Tx("a", D(2, 28), TRUE, -1, "foreign", "pending", FALSE, "y"),
              Tx("a", D(2, 29), TRUE, 4, "currency", "posted", FALSE, "x"),
              Tx("b", D(2, 29), FALSE, 2, "share", "posted", FALSE, "x"),
              Tx("b", D(2, 28), FALSE, -5, "currency", "posted", TRUE, "x"),
              Tx("c", D(3, 1), FALSE, -7, "currency", "canceled", FALSE, "x")}
MCNotes == {[tags |-> {"ignore_spending"}, date |-> None, category |-> None],
            [tags |-> {"u", "v"}, date |-> D(2, 1), category |-> "home"]}
MCSpendingConfigs ==
    {[ignore_accounts |-> {}, ignore_tags |-> {"closed"}, transaction_rules |-> {}, known |-> {"rate"}],
     [ignore_accounts |-> {"a"}, ignore_tags |-> {},
      transaction_rules |-> {[account |-> {"b"}, status |-> {"canceled"}], [description |-> {"y"}]},
      known |-> {"price", "rate"}]}
MCAccountTags == ("a" :> {}) @@ ("b" :> {"mine"}) @@ ("c" :> {"closed"})
Periods == {"daily", "weekly", "monthly", "quarterly", "yearly", "range", "custom"}
MCRequests ==
    {[period |-> p, alignment |-> al, week_start |-> IF al = "calendar" THEN "sunday" ELSE "monday",
      days |-> 14, start |-> IF al = "calendar" THEN None ELSE D(1, 30),
      end |-> IF al = "calendar" THEN D(3, 10) ELSE None, scope |-> "portfolio",
      tz |-> IF al = "calendar" THEN "utc" ELSE "ahead",
      status |-> IF p = "daily" THEN "posted" ELSE IF p = "weekly" THEN "posted+pending" ELSE "all",
      direction |-> IF p \in {"monthly", "custom"} THEN "outflow" ELSE "net",
      group_by |-> CASE p = "daily" -> "account" [] p = "weekly" -> "category" [] p = "monthly" -> "tag" [] OTHER -> "none",
      noncurrency |-> p # "daily",
      include_empty |-> p = "quarterly"]
        : p \in Periods, al \in {"calendar", "end-bound"}}

(* Portfolio. *)
MCConnectionOf == ("a" :> "c1") @@ ("b" :> "c1")
Noon(m, d) == 2 * D(m, d)
Has(n, b) == [amount |-> n, basis |-> b]
MCHoldings == {<<>>,
               ("share" :> Has(1, {12})),
               ("own" :> Has(-5, {})) @@ ("share" :> Has(2, {})),
               ("foreign" :> Has(3, {3}))}
MCSnapshotTimes == {Noon(2, 29) + 1, Noon(3, 2)}
Price(m, d, at, v) == [date |-> D(m, d), at |-> at, kind |-> "close", value |-> v]
MCQuotes == {Price(2, 27, Noon(2, 27) + 1, 24), Price(2, 29, Noon(2, 29), 6), Price(2, 29, Noon(3, 2), 36)}
MCFxRates == {Price(2, 28, Noon(2, 28), 2)}
MCTradingDays == {D(2, 27), D(2, 29), D(3, 1)}
Conf(a, b, excluded, foreign, latent, lookback, projection) ==
    [backfill |-> ("a" :> a) @@ ("b" :> b), excluded |-> excluded, foreign_quotes |-> foreign,
     latent_tax |-> latent, lookback |-> lookback, projection |-> projection]
MCPortfolioConfigs ==
    {Conf("none", "none", {}, FALSE, TRUE, None, FALSE),
     Conf("carry_earliest", "zero", {}, TRUE, TRUE, None, FALSE),
     Conf("none", "none", {"b"}, FALSE, FALSE, 1, TRUE)}
Fill(start, end, interval, lookback, up) ==
    [start |-> start, end |-> end, interval |-> interval, lookback |-> lookback, up |-> up]
MCFills == {Fill(None, D(3, 2), "daily", 1, {"eodhd", "frankfurter"}),
            Fill(D(2, 28), None, "monthly", 0, {"eodhd"}),
            Fill(D(3, 1), D(3, 2), "daily", 1, {"frankfurter"})}
MCTrayEntries == {[kind |-> "today"], [kind |-> "last", unit |-> "month", count |-> 2],
                  [kind |-> "ago", unit |-> "week", count |-> 4]}

StoreAtInit == /\ user = [u \in Users |-> Idle] /\ dir = [s \in Stores |-> NoFile]
               /\ dirKey = NoFile /\ events = 0

Init == StoreInit /\ PricesInit /\ SpendingInit /\ PortfolioInit
Next ==
    \/ /\ service = NoLimit /\ spending = None /\ portfolio = None /\ StoreNext
       /\ UNCHANGED <<pricesVars, spendingVars, portfolioVars>>
    \/ /\ StoreAtInit /\ spending = None /\ portfolio = None /\ PricesNext
       /\ UNCHANGED <<storeVars, spendingVars, portfolioVars>>
    \/ /\ StoreAtInit /\ service = NoLimit /\ portfolio = None /\ SpendingNext
       /\ UNCHANGED <<storeVars, pricesVars, portfolioVars>>
    \/ /\ StoreAtInit /\ service = NoLimit /\ spending = None /\ HistoryNext
       /\ UNCHANGED <<storeVars, pricesVars, spendingVars>>
Spec == Init /\ [][Next]_<<storeVars, pricesVars, spendingVars, portfolioVars>>

(* Types of all. *)
TypeOK == StoreTypeOK /\ PricesTypeOK /\ SpendingTypeOK /\ PortfolioTypeOK
=============================================================================
