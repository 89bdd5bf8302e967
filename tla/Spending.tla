------------------------------ MODULE Spending ------------------------------
(***************************************************************************)
(* The spending report (app/spending.rs), the list of transactions         *)
(* (app/list.rs) and the rules by which both leave transactions out        *)
(* (app/ignore_rules.rs).  Transactions, annotations and market data are   *)
(* stored; a report is then asked for and is a state of its own.           *)
(*                                                                         *)
(* Amounts are integers, so nothing is rounded (currency_decimals unset).  *)
(* A rule's regular expressions are the sets of what they match.  Market   *)
(* data is there for every date or for none.                               *)
(***************************************************************************)
EXTENDS Calendar, Functions

CONSTANTS
    Entries,            \* transactions that may be stored, as records
    Notes,              \* annotations they may get
    SpendingConfigs,    \* configurations
    SpendingAccounts,
    AccountTags,        \* the tags of each account
    Requests,           \* reports that may be asked for
    MaxTransactions

(* What may be asked for, after the options are parsed. *)
Asks == [period : {"daily", "weekly", "monthly", "quarterly", "yearly", "range", "custom"},
         alignment : {"calendar", "end-bound"}, week_start : {"sunday", "monday"}, days : Nat \ {0},
         start : Dates \cup {None}, end : Dates \cup {None},
         scope : SpendingAccounts \cup {"portfolio"}, tz : {"utc", "ahead"},
         status : {"all", "posted", "posted+pending"}, direction : {"net", "inflow", "outflow"},
         group_by : {"none", "category", "account", "tag"}, noncurrency : BOOLEAN, include_empty : BOOLEAN]
ASSUME SpendingAssumption ==
    /\ MaxTransactions \in Nat /\ Requests \subseteq Asks /\ None \notin Requests
    /\ \A t \in Entries : /\ t.account \in SpendingAccounts /\ {t.day, t.day + 1} \subseteq Dates
                          /\ t.amount \in Int /\ t.asset \in {"currency", "foreign", "share"}
    /\ \A note \in Notes : note.date \in Dates \cup {None} /\ IsFiniteSet(note.tags)
    /\ IsFiniteSet(SpendingAccounts) /\ "portfolio" \notin SpendingAccounts

VARIABLES
    transactions,       \* what is stored, by number
    notes,              \* the annotation of each
    spending,           \* the configuration, and the market data there is
    report              \* what was asked for last, or None

spendingVars == <<transactions, notes, spending, report>>

Stored == DOMAIN transactions
Unmarked == [tags |-> {}, date |-> None, category |-> None]

----------------------------------------------------------------------------
(* What is left out.                                                       *)

(* The accounts and connections that [spending] ignores become rules; a    *)
(* rule matches what all of its fields match.                              *)
synthesize_spending_ignore_rules == {[account |-> {a}] : a \in spending.ignore_accounts}
match_field(rule, field, value) == field \in DOMAIN rule => value \in rule[field]
is_match(t) == \E rule \in spending.transaction_rules \cup synthesize_spending_ignore_rules :
                   \A field \in {"account", "status", "description"} : match_field(rule, field, t[field])

annotation_ignores_spending(i) == "ignore_spending" \in notes[i].tags
ignored_account_ids == {a \in SpendingAccounts : AccountTags[a] \cap spending.ignore_tags # {}}

include_status(status, filter) == CASE filter = "all" -> TRUE
                                    [] filter = "posted" -> status = "posted"
                                    [] filter = "posted+pending" -> status \in {"posted", "pending"}

(* The day of a transaction is the annotated one, or that of its time in   *)
(* the zone of the report: the one ahead is a day further with late ones.  *)
local_date(i, tz) == IF notes[i].date # None THEN notes[i].date
                     ELSE transactions[i].day + IF tz = "ahead" /\ transactions[i].late THEN 1 ELSE 0

account_ids(scope) == IF scope = "portfolio" THEN SpendingAccounts \ ignored_account_ids ELSE {scope}

Considered(scope, status) ==
    {i \in Stored : /\ transactions[i].account \in account_ids(scope)
                    /\ include_status(transactions[i].status, status)
                    /\ ~transactions[i].transfer
                    /\ ~is_match(transactions[i])}
rows(ask) == {i \in Considered(ask.scope, ask.status) :
                  /\ transactions[i].asset # "share" \/ ask.noncurrency
                  /\ ~annotation_ignores_spending(i)}

(* Without bounds, from the first considered transaction, shown or not, to *)
(* today.                                                                  *)
start_date(ask) ==
    LET dates == {local_date(i, ask.tz) : i \in Considered(ask.scope, ask.status)}
    IN  IF ask.start # None THEN ask.start ELSE IF dates = {} THEN Today ELSE Min(dates)
end_date(ask) == IF ask.end # None THEN ask.end ELSE Today
Fails(ask) == end_date(ask) < start_date(ask)

----------------------------------------------------------------------------
(* Periods.                                                                *)

bucket_start_for(n, ask) ==
    CASE ask.period = "daily" -> n
      [] ask.period = "weekly" -> n - IF ask.week_start = "sunday" THEN num_days_from_sunday(n)
                                      ELSE num_days_from_monday(n)
      [] ask.period = "monthly" -> Date(Year(n), Month(n), 1)
      [] ask.period = "quarterly" -> Date(Year(n), ((Month(n) - 1) \div 3) * 3 + 1, 1)
      [] ask.period = "yearly" -> Date(Year(n), 1, 1)
      [] OTHER -> n     \* asked of the first day alone

bucket_end_for(start, ask) ==
    CASE ask.period = "daily" -> start
      [] ask.period = "weekly" -> start + 6
      [] ask.period = "monthly" -> month_end(start)
      [] ask.period = "quarterly" -> month_end(Date(Year(start), Month(start) + 2, 1))
      [] ask.period = "yearly" -> year_end(Year(start))
      [] OTHER -> start + ask.days - 1

next_bucket_start(start, ask) ==
    CASE ask.period = "daily" -> start + 1
      [] ask.period = "weekly" -> start + 7
      [] ask.period = "monthly" -> shift_months_clamped(start, 1)
      [] ask.period = "quarterly" -> shift_months_clamped(start, 3)
      [] ask.period = "yearly" -> shift_months_clamped(start, 12)
      [] OTHER -> start + ask.days

end_bound_bucket_start_for_end(end, ask) ==
    CASE ask.period = "daily" -> end
      [] ask.period = "weekly" -> end - 6
      [] ask.period = "monthly" -> shift_months_clamped(end, -1) + 1
      [] ask.period = "quarterly" -> shift_months_clamped(end, -3) + 1
      [] ask.period = "yearly" -> shift_months_clamped(end, -12) + 1
      [] OTHER -> end - (ask.days - 1)

Interval(start, end) == [start |-> start, end |-> end]
(* mutant: calendar periods start where the range starts *)
build_bucket_intervals_Unaligned(ask) ==
    LET first == start_date(ask)
        last == end_date(ask)
        from[s \in first .. last] ==
            {Interval(s, bucket_end_for(s, ask))}
                \cup IF next_bucket_start(s, ask) > last THEN {} ELSE from[next_bucket_start(s, ask)]
    IN  IF ask.period = "range" THEN {Interval(first, last)} ELSE from[first]

(* On from the first start; back from the last end.                        *)
Onwards(start, last, ask) ==
    LET from[s \in start .. last] ==
            {Interval(s, bucket_end_for(s, ask))}
                \cup IF next_bucket_start(s, ask) > last THEN {} ELSE from[next_bucket_start(s, ask)]
    IN  from[start]
Backwards(first, last, ask) ==
    LET upto[e \in first .. last] == LET s == end_bound_bucket_start_for_end(e, ask)
                                     IN  {Interval(s, e)} \cup IF s <= first THEN {} ELSE upto[s - 1]
    IN  upto[last]
build_bucket_intervals(ask) ==
    LET first == start_date(ask)
        last == end_date(ask)
    IN  CASE ask.period = "range" -> {Interval(first, last)}
          [] ask.period # "range" /\ ask.alignment = "calendar" ->
                 Onwards(bucket_start_for(first, ask), last, ask)
          [] OTHER -> Backwards(first, last, ask)

(* The first interval that holds the date.                                 *)
bucket_start_from_intervals(n, intervals) ==
    LET with == {b.start : b \in {b \in intervals : b.start <= n /\ n <= b.end}}
    IN  IF with = {} THEN None ELSE Min(with)

----------------------------------------------------------------------------
(* Amounts, from stored market data alone.                                 *)

Missing(t) == CASE t.asset = "currency" -> {}
                [] t.asset = "foreign" -> {"rate"} \ spending.known
                [] t.asset = "share" -> {"price", "rate"} \ spending.known
value_in_reporting_currency(t) == CASE t.asset = "currency" -> t.amount
                                    [] t.asset = "foreign" -> t.amount * 2
                                    [] t.asset = "share" -> t.amount * 5 * 2

apply_direction(value, direction) == CASE direction = "net" -> value
                                       [] direction = "outflow" -> IF value < 0 THEN -value ELSE 0
                                       [] direction = "inflow" -> IF value > 0 THEN value ELSE 0

(* Rows outside the range, and of the other direction, are not looked at;  *)
(* what cannot be valued is counted and skipped.                           *)
Relevant(ask) == {i \in rows(ask) :
    /\ local_date(i, ask.tz) \in start_date(ask) .. end_date(ask)
    /\ apply_direction(transactions[i].amount, ask.direction) # 0}
Skipped(ask) == {i \in Relevant(ask) : Missing(transactions[i]) # {}}
Counted(ask) == Relevant(ask) \ Skipped(ask)

group_keys(i, ask) ==
    CASE ask.group_by = "none" -> {}
      [] ask.group_by = "category" -> {IF notes[i].category # None THEN notes[i].category
                                       ELSE transactions[i].category}
      [] ask.group_by = "account" -> {transactions[i].account}
      [] ask.group_by = "tag" -> IF notes[i].tags = {} THEN {"untagged"} ELSE notes[i].tags

Sum(ask, members) ==
    LET Amount(i) == apply_direction(value_in_reporting_currency(transactions[i]), ask.direction)
    IN  MapThenSumSet(Amount, members)

(* The periods of the report, cut to its range, each with its transactions *)
(* and its groups.                                                         *)
Period(b, in, ask, first, last) ==
    [start |-> Max({b.start, first}), end |-> Min({b.end, last}),
     total |-> Sum(ask, in), count |-> Cardinality(in),
     breakdown |-> [k \in UNION {group_keys(i, ask) : i \in in} |->
                       Sum(ask, {i \in in : k \in group_keys(i, ask)})]]
PeriodsOf(ask, intervals, bucket, first, last) ==
    {Period(b, {i \in DOMAIN bucket : bucket[i] = b.start}, ask, first, last) :
        b \in {c \in intervals : ask.include_empty \/ c.start \in Range(bucket)}}
Buckets(ask, counted, intervals) ==
    [i \in counted |-> bucket_start_from_intervals(local_date(i, ask.tz), intervals)]
Report(ask, counted, intervals, first, last) ==
    [total |-> Sum(ask, counted), count |-> Cardinality(counted),
     skipped |-> Cardinality(Skipped(ask)),
     periods |-> PeriodsOf(ask, intervals, Buckets(ask, counted, intervals), first, last)]
spending_report(ask) ==
    Report(ask, Counted(ask), build_bucket_intervals(ask), start_date(ask), end_date(ask))

(* The list goes by the days of UTC.                                       *)
list_transactions(start, end, skip_ignored) ==
    {i \in Stored : /\ local_date(i, "utc") \in start .. end
                    /\ skip_ignored => /\ transactions[i].account \notin ignored_account_ids
                                       /\ ~transactions[i].transfer
                                       /\ ~is_match(transactions[i])
                                       /\ ~annotation_ignores_spending(i)}

----------------------------------------------------------------------------
SpendingInit ==
    /\ transactions = <<>> /\ notes = <<>>
    /\ spending = None
    /\ report = None

Configure == /\ spending = None /\ spending' \in SpendingConfigs
             /\ UNCHANGED <<transactions, notes, report>>

StoreTransaction(t) == /\ Len(transactions) < MaxTransactions
                       /\ transactions' = Append(transactions, t)
                       /\ notes' = Append(notes, Unmarked)
                       /\ UNCHANGED <<spending, report>>

Annotate(i, note) == /\ notes[i] = Unmarked
                     /\ notes' = [notes EXCEPT ![i] = note]
                     /\ UNCHANGED <<transactions, spending, report>>

Ask(ask) == /\ report' = ask
            /\ UNCHANGED <<transactions, notes, spending>>

SpendingNext ==
    \/ Configure
    \/ /\ spending # None /\ report = None
       /\ \/ \E t \in Entries : StoreTransaction(t)
          \/ \E i \in Stored, note \in Notes : Annotate(i, note)
          \/ \E ask \in Requests : Ask(ask)

SpendingSpec == SpendingInit /\ [][SpendingNext]_spendingVars

----------------------------------------------------------------------------
Answered == report # None /\ ~Fails(report)
SpendingTypeOK ==
    /\ Len(transactions) <= MaxTransactions /\ DOMAIN notes = DOMAIN transactions
    /\ spending \in SpendingConfigs \cup {None}
    /\ report \in Requests \cup {None}

(* Every day of the range is in exactly one period, and with empty periods *)
(* included those shown follow one another from start to end: a bound that *)
(* drifts from month to month (spending.rs:404) leaves no gap.             *)
EveryDayOnce ==
    Answered =>
        \A periods \in {spending_report([report EXCEPT !.include_empty = TRUE]).periods} :
            \A n \in start_date(report) .. end_date(report) :
                Cardinality({b \in periods : b.start <= n /\ n <= b.end}) = 1

(* What is counted is in some period: their totals add up to the total,    *)
(* which is the same in periods of any length (spending.rs:766), and their  *)
(* groups to theirs, unless a transaction has several tags.                *)
PeriodsAddUp ==
    Answered =>
        \A out \in {spending_report(report)},
           whole \in {spending_report([report EXCEPT !.period = "range"])},
           several \in {\E i \in Counted(report) : Cardinality(group_keys(i, report)) > 1} :
            /\ MapThenSumSet(LAMBDA b : b.total, out.periods) = out.total
            /\ MapThenSumSet(LAMBDA b : b.count, out.periods) = out.count
            /\ whole.total = out.total
            /\ report.group_by = "none" \/ several
               \/ \A b \in out.periods : SumFunction(b.breakdown) = b.total

(* Money in less money out is the net, in every period.                    *)
NetIsInMinusOut ==
    Answered =>
        \A of \in {[direction \in {"net", "inflow", "outflow"} |-> spending_report(
                       [report EXCEPT !.direction = direction, !.include_empty = TRUE]).periods]} :
        \A b \in of["net"], c \in of["inflow"], d \in of["outflow"] :
            b.start = c.start /\ c.start = d.start => b.total = c.total - d.total

(* The accounts that are not left out make up the portfolio, given the     *)
(* same range: nothing is counted twice or by nobody (spending.rs:574).    *)
ScopesAddUp ==
    Answered /\ report.scope = "portfolio" =>
        \A of \in {[scope \in account_ids("portfolio") \cup {"portfolio"} |->
                      spending_report([report EXCEPT !.scope = scope, !.start = start_date(report)])]} :
            /\ MapThenSumSet(LAMBDA a : of[a].total, account_ids("portfolio")) = of["portfolio"].total
            /\ MapThenSumSet(LAMBDA a : of[a].skipped, account_ids("portfolio")) = of["portfolio"].skipped

(* The list that skips what is ignored shows what the report is made of    *)
(* (list.rs:320, spending.rs:660): the two write down the same rules twice. *)
(* Only what is of no amount is listed and not looked at.                  *)
ListAgrees ==
    Answered /\ report.scope = "portfolio" =>
        \A ask \in {[report EXCEPT !.tz = "utc", !.status = "all", !.noncurrency = TRUE,
                                    !.direction = "net"]} :
            ~Fails(ask) => Relevant(ask) = {i \in list_transactions(start_date(ask), end_date(ask), TRUE) :
                                                transactions[i].amount # 0}

(* Nothing that is spent is lost or counted twice, in whatever periods and *)
(* scopes one looks at it.                                                 *)
SpendingAddsUp == EveryDayOnce /\ PeriodsAddUp /\ NetIsInMinusOut /\ ScopesAddUp /\ ListAgrees
=============================================================================
