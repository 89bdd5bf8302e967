------------------------------ MODULE Calendar ------------------------------
(***************************************************************************)
(* Dates as the reports use them: a day is its number (1 is the first day  *)
(* of year 1, a Monday), and months, quarters and years are found from it  *)
(* for the years of CalendarYears.  Below that, the dates that the history *)
(* and the price commands compute (app/portfolio.rs).  Pure operators.     *)
(***************************************************************************)
EXTENDS Integers, FiniteSets, FiniteSetsExt, SequencesExt

CONSTANTS
    CalendarYears,      \* an interval, with a year to spare on both sides
    Today,
    None                \* no date, or whatever else is not given

Leap(y) == y % 4 = 0 /\ (y % 100 # 0 \/ y % 400 = 0)
days_in_month(y, m) == CASE m \in {4, 6, 9, 11} -> 30
                         [] m = 2 -> IF Leap(y) THEN 29 ELSE 28
                         [] OTHER -> 31
DaysOfYear == [y \in CalendarYears |->
    LET ends[m \in 0 .. 12] == IF m = 0 THEN 0 ELSE ends[m - 1] + days_in_month(y, m) IN ends]
NewYear(y) == 365 * (y - 1) + (y - 1) \div 4 - (y - 1) \div 100 + (y - 1) \div 400
Date(y, m, d) == NewYear(y) + DaysOfYear[y][m - 1] + d

MonthOf == [n \in Date(Min(CalendarYears), 1, 1) .. Date(Max(CalendarYears), 12, 31) |->
    LET y == Max({c \in CalendarYears : NewYear(c) < n})
    IN  <<y, Min({m \in 1 .. 12 : n <= Date(y, m, days_in_month(y, m))})>>]
Year(n) == MonthOf[n][1]
Month(n) == MonthOf[n][2]
DayOfMonth(n) == n - Date(Year(n), Month(n), 1) + 1
num_days_from_monday(n) == (n - 1) % 7
num_days_from_sunday(n) == n % 7
Epoch == 719163     \* 1970-01-01

month_end(n) == Date(Year(n), Month(n), days_in_month(Year(n), Month(n)))
year_end(y) == Date(y, 12, 31)
next_month_end(n) == month_end(month_end(n) + 1)

(* Days with a year to spare. *)
Dates == Date(Min(CalendarYears) + 1, 1, 1) .. Date(Max(CalendarYears) - 1, 12, 31)
ASSUME CalendarAssumption ==
    /\ Min(CalendarYears) \in Nat \ {0} /\ Max(CalendarYears) \in Nat
    /\ CalendarYears = Min(CalendarYears) .. Max(CalendarYears)
    /\ Min(CalendarYears) + 2 <= Max(CalendarYears)
    /\ Today \in Dates /\ None \notin Int

(* The same day of another month, or its last. *)
shift_months_clamped(n, months) ==
    LET index == Year(n) * 12 + Month(n) - 1 + months
        y == index \div 12
        m == (index % 12) + 1
    IN  Date(y, m, Min({DayOfMonth(n), days_in_month(y, m)}))

shift(unit, n, count) == CASE unit = "day" -> n + count
                           [] unit = "week" -> n + 7 * count
                           [] unit = "month" -> shift_months_clamped(n, count)
                           [] unit = "year" -> shift_months_clamped(n, 12 * count)

(* Price history visits days by interval, months and years at their end.   *)
align_start_date(n, interval) == CASE interval = "monthly" -> month_end(n)
                                   [] interval = "yearly" -> year_end(Year(n))
                                   [] OTHER -> n
advance_interval_date(n, interval) == CASE interval = "daily" -> n + 1
                                        [] interval = "weekly" -> n + 7
                                        [] interval = "monthly" -> next_month_end(n)
                                        [] interval = "yearly" -> year_end(Year(n) + 1)

(* A bound is a whole year or month, taken at the end it bounds, a day, or *)
(* an offset from today.                                                   *)
parse_portfolio_date_bound(bound, isStart, today) ==
    CASE bound.kind = "today" -> today
      [] bound.kind = "year" -> IF isStart THEN Date(bound.year, 1, 1) ELSE year_end(bound.year)
      [] bound.kind = "month" -> IF isStart THEN Date(bound.year, bound.month, 1)
                                 ELSE month_end(Date(bound.year, bound.month, 1))
      [] bound.kind = "day" -> bound.day
      [] bound.kind = "relative" -> shift(bound.unit, today, bound.count)

(* "last 3 months" is today and the two shifts before, "3 months ago" one. *)
parse_history_spec_entry(entry, anchor) ==
    CASE entry.kind = "today" -> {anchor}
      [] entry.kind = "last" -> {shift(entry.unit, anchor, -offset) : offset \in 0 .. entry.count - 1}
      [] entry.kind = "ago" -> {shift(entry.unit, anchor, -entry.count)}
history_spec_dates(entries, anchor) ==
    SetToSortSeq(UNION {parse_history_spec_entry(e, anchor) : e \in entries}, <)
=============================================================================
