------------------------------- MODULE Terminal -------------------------------
(***************************************************************************)
(* The terminal interface (tui/mod.rs): a single loop that clamps the      *)
(* highlight, draws, and handles one key.  It shows what it loaded last    *)
(* from files that other processes write meanwhile; it edits the category  *)
(* of the highlighted transaction, or appends a rule made from it to       *)
(* transaction_category_rules.jsonl.  A dialog holds the transaction it    *)
(* was opened for and takes every key until it closes.                     *)
(*                                                                         *)
(* A regular expression is the set of texts it matches.  What is written   *)
(* into a field of a dialog is one step, whatever keys it took.  Ids of    *)
(* transactions are numbers, which stand for their order.                  *)
(***************************************************************************)
EXTENDS Integers, FiniteSetsExt, SequencesExt

CONSTANTS
    Txn,            \* ids of transactions
    Facts,          \* Facts[t]: what the list says of t and nothing here changes:
                    \* day, amount, account, account_name, description, status,
                    \* metadata (a category or Nothing), reporting, tags, ignored
    FirstStored,    \* transactions there are at first
    FirstRules,     \* lines of the rules file at first
    Alphabet,       \* all categories, in alphabetical order
    Begins, Within, \* what may be written in the field of a category: the categories
                    \* that begin with it, those that contain it
    Pattern,        \* regular expressions written or suggested, Blank, Malformed
    HistoryDays,    \* HistoryDays[i]: days of the points of the net worth at interval i
    WindowDays,     \* [tray] spending_windows_days of keepbook.toml
    FirstDay, MaxDay,   \* bounds on the date of today
    MaxKeys,        \* bound on keys pressed
    MaxElsewhere,   \* bound on what other processes change
    Blank, Malformed, Nothing

VARIABLES
    stored,         \* transactions in the data directory
    annotated,      \* annotated[t]: the category its annotation gives, or Nothing
    rules_file,     \* lines: [category, matchers], or Malformed
    today,
    app,            \* AppState
    tx_row, net_worth_row,  \* the TableStates: highlighted rows, from 1, or Nothing
    running,        \* "running", "quit" or "failed"
    keys, elsewhere

Category == Range(Alphabet)
NetWorthInterval == <<"full", "hourly", "daily", "weekly", "monthly", "yearly">>
RuleField == {"account_id", "account_name", "description", "status", "amount"}

\* Regular expressions that are written, suggested or made of a transaction.
Expression == Pattern \cup {Blank, {Facts[t].description : t \in Txn}}
              \cup {{Facts[t].account_name} : t \in Txn} \cup {{Facts[t].description} : t \in Txn}

(* Days and amounts are numbers, and so are ids; what stands for nothing,   *)
(* for a blank field or for what cannot be read is nothing else.           *)
ASSUME TerminalAssumption ==
    /\ Txn \subseteq Int /\ IsFiniteSet(Txn) /\ FirstStored \subseteq Txn
    /\ \A t \in Txn : /\ Facts[t].day \in Int /\ Facts[t].amount \in Int
                      /\ Facts[t].metadata \in Category \cup {Nothing}
                      /\ {Facts[t].account_name} \notin {Blank, Malformed}
    /\ FirstRules \in Seq(Range(FirstRules))
    /\ \A line \in Range(FirstRules) \ {Malformed} :
          line.category \in Category \cup {Blank} /\ DOMAIN line.matchers \subseteq RuleField
    /\ Malformed \notin [category : Category, matchers : [{"account_name", "description"} -> Expression]]
    /\ Alphabet \in Seq(Category) /\ DOMAIN Begins \subseteq Category
    /\ WindowDays \subseteq Int /\ IsFiniteSet(WindowDays)
    /\ Nothing \notin Category \cup {Blank} \cup Int /\ Blank \notin Category \cup {Malformed}
    /\ \A i \in Range(NetWorthInterval) : HistoryDays[i] \subseteq Int /\ IsFiniteSet(HistoryDays[i])
    /\ FirstDay \in Int /\ MaxDay \in Int /\ FirstDay <= MaxDay
    /\ MaxKeys \in Nat /\ MaxElsewhere \in Nat

terminalFiles == <<stored, annotated, rules_file, today, elsewhere>>
terminalVars == <<stored, annotated, rules_file, today, app, tx_row, net_worth_row, running,
                  keys, elsewhere>>

TuiView == {"transactions", "net_worth"}
TimeSpan == <<7, 30, 90, 365, Nothing>>
SortMode == <<"date_desc", "date_asc", "amount_asc", "amount_desc">>
SpendingIgnoreTags == {"ignore_spending", "ignore-spending", "ignore:spending"}

\* The members of a set in an order.
Sorted(all, Before(_, _)) ==
    CHOOSE s \in [1 .. Cardinality(all) -> all] : \A i, j \in DOMAIN s : i < j => Before(s[i], s[j])

PlaceIn(all, v) == CHOOSE i \in DOMAIN all : all[i] = v
NextIn(all, v) == all[(PlaceIn(all, v) % Len(all)) + 1]
PreviousIn(all, v) == all[((PlaceIn(all, v) + Len(all) - 2) % Len(all)) + 1]

-----------------------------------------------------------------------------
(* Category rules *)

\* from_rule: blank matchers are none, and a rule needs one that is well-formed.
Compiled(rule) ==
    [category |-> rule.category,
     matchers |-> [f \in {g \in DOMAIN rule.matchers : rule.matchers[g] # Blank}
                      |-> rule.matchers[f]]]
WellFormed(line) ==
    /\ line # Malformed
    /\ line.category # Blank
    /\ \A f \in DOMAIN line.matchers : line.matchers[f] # Malformed
    /\ DOMAIN Compiled(line).matchers # {}

\* By line; one that is not a rule is passed over, with a warning.
load_transaction_category_rules(lines) ==
    [i \in {k \in DOMAIN lines : WellFormed(lines[k])} |-> Compiled(lines[i])]

TextIn(t, f) ==
    CASE f = "account_id" -> Facts[t].account
      [] f = "account_name" -> Facts[t].account_name
      [] f = "description" -> Facts[t].description
      [] f = "status" -> Facts[t].status
      [] f = "amount" -> Facts[t].amount
is_match(rule, t) == \A f \in DOMAIN rule.matchers : TextIn(t, f) \in rule.matchers[f]

\* The first rule that matches.
match_category(matcher, t) ==
    LET matching == {i \in DOMAIN matcher : is_match(matcher[i], t)}
    IN  IF matching = {} THEN Nothing ELSE matcher[Min(matching)].category

\* The annotation, else a rule, else what the bank says.
resolved_transaction_category(a, t) ==
    IF a.listed[t] # Nothing THEN a.listed[t]
    ELSE LET byRule == match_category(a.matcher, t)
         IN  IF byRule # Nothing THEN byRule ELSE Facts[t].metadata

\* Of the whole name, and of the words, of the text.
exact_ci_regex_pattern(name) == IF name = "" THEN Blank ELSE {name}
fallback_regex_suggestion(description) ==
    IF description = "" THEN {Facts[t].description : t \in Txn} ELSE {description}

\* The answer of the model, if there is a key and an answer, is well-formed.
suggest_regex_with_openai == Pattern \ {Blank, Malformed}

-----------------------------------------------------------------------------
(* Rows *)

Inside(day, span) == span = Nothing \/ day >= today - span

timestamp_order(l, r) == Facts[l].day < Facts[r].day \/ (Facts[l].day = Facts[r].day /\ l < r)
Cheaper(l, r) == Facts[l].amount < Facts[r].amount
compare_transactions(l, r, sort) ==
    CASE sort = "date_asc" -> timestamp_order(l, r)
      [] sort = "date_desc" -> timestamp_order(r, l)
      [] sort = "amount_asc" ->
            Cheaper(l, r) \/ (Facts[l].amount = Facts[r].amount /\ timestamp_order(r, l))
      [] sort = "amount_desc" ->
            Cheaper(r, l) \/ (Facts[l].amount = Facts[r].amount /\ timestamp_order(l, r))

recompute_visible_transactions(a) ==
    LET rows == {t \in DOMAIN a.listed : Inside(Facts[t].day, a.span)}
    IN  [a EXCEPT !.visible = Sorted(rows, LAMBDA l, r : compare_transactions(l, r, a.sort))]

recompute_visible_net_worth(a) ==
    LET rows == {p \in a.points : Inside(p.day, a.span)}
    IN  [a EXCEPT !.visible_points = Sorted(rows, LAMBDA l, r : l.day > r.day)]

clamp_selection(row, len) ==
    IF len = 0 THEN Nothing
    ELSE IF row = Nothing THEN 1 ELSE IF row > len THEN len ELSE row
select_prev(row, len) ==
    IF len = 0 THEN Nothing ELSE IF row \in {Nothing, 1} THEN 1 ELSE row - 1
select_next(row, len) ==
    IF len = 0 THEN Nothing
    ELSE LET current == IF row = Nothing THEN 1 ELSE row
         IN  IF current < len THEN current + 1 ELSE len

Highlighted(a, row) ==
    IF row = Nothing \/ row \notin DOMAIN a.visible THEN Nothing ELSE a.visible[row]

\* The row of t if it is shown; else the highlight stays at its place.
select_transaction_by_id(a, row, t) ==
    IF t \in Range(a.visible) THEN PlaceIn(a.visible, t) ELSE row

-----------------------------------------------------------------------------
(* Loading *)

load_transactions(include_ignored) ==
    [t \in {s \in stored : include_ignored \/ ~Facts[s].ignored} |-> annotated[t]]

\* Of the files as they are after this step.
Reloaded(a, files, lines) ==
    recompute_visible_transactions(
        [a EXCEPT !.listed = [t \in {s \in stored : a.include_ignored \/ ~Facts[s].ignored}
                                 |-> files[t]],
                  !.matcher = load_transaction_category_rules(lines)])

\* The points of the interval, or none and an error.
refresh_net_worth(a) ==
    {recompute_visible_net_worth(
        [a EXCEPT !.points = {[interval |-> a.interval, day |-> d] : d \in HistoryDays[a.interval]},
                  !.loaded = TRUE, !.error = FALSE]),
     [a EXCEPT !.points = {}, !.visible_points = <<>>, !.loaded = TRUE, !.error = TRUE]}

NewApp(start_view, interval) ==
    recompute_visible_transactions(
        [active_view |-> start_view,
         listed |-> load_transactions(FALSE), visible |-> <<>>,
         matcher |-> load_transaction_category_rules(rules_file),
         points |-> {}, visible_points |-> <<>>, interval |-> interval,
         loaded |-> FALSE, error |-> FALSE,
         span |-> 30, sort |-> "date_desc", include_ignored |-> FALSE, modal |-> Nothing])

\* run_tui, up to the first drawing.
TerminalInit ==
    /\ stored = FirstStored
    /\ annotated = [t \in Txn |-> Nothing]
    /\ rules_file = FirstRules
    /\ today = FirstDay
    /\ app \in {NewApp("transactions", "daily")} \cup refresh_net_worth(NewApp("net_worth", "daily"))
    /\ tx_row = IF app.active_view = "transactions" THEN clamp_selection(1, Len(app.visible)) ELSE 1
    /\ net_worth_row = IF app.active_view = "net_worth"
                       THEN clamp_selection(1, Len(app.visible_points)) ELSE 1
    /\ running = "running"
    /\ keys = 0 /\ elsewhere = 0

\* A key is handled, and the highlight of the view then active clamped for the drawing.
Drawn(a, tx, nw) ==
    /\ app' = a
    /\ tx_row' = IF a.active_view = "transactions" THEN clamp_selection(tx, Len(a.visible)) ELSE tx
    /\ net_worth_row' = IF a.active_view = "net_worth"
                        THEN clamp_selection(nw, Len(a.visible_points)) ELSE nw
    /\ UNCHANGED running
Pressed ==
    /\ running = "running" /\ keys < MaxKeys
    /\ keys' = keys + 1
Key(a) == Drawn(a, tx_row, net_worth_row) /\ UNCHANGED terminalFiles

\* The error ends the interface.
Fail ==
    /\ running' = "failed"
    /\ UNCHANGED <<app, tx_row, net_worth_row>>

-----------------------------------------------------------------------------
(* Keys, with no dialog open *)

NoDialog == Pressed /\ app.modal = Nothing

Quit ==
    /\ NoDialog
    /\ running' = "quit"
    /\ UNCHANGED <<terminalFiles, app, tx_row, net_worth_row>>

ToggleView ==
    LET a == [app EXCEPT !.active_view = CHOOSE v \in TuiView : v # app.active_view] IN
    /\ NoDialog
    /\ \E b \in IF a.active_view = "net_worth" /\ ~a.loaded THEN refresh_net_worth(a) ELSE {a} :
           Key(b)

MoveHighlight ==
    /\ NoDialog
    /\ \/ /\ app.active_view = "transactions"
          /\ \E row \in {select_prev(tx_row, Len(app.visible)), select_next(tx_row, Len(app.visible))} :
                 Drawn(app, row, net_worth_row)
       \/ /\ app.active_view = "net_worth"
          /\ \E row \in {select_prev(net_worth_row, Len(app.visible_points)),
                         select_next(net_worth_row, Len(app.visible_points))} :
                 Drawn(app, tx_row, row)
    /\ UNCHANGED terminalFiles

ChangeSort ==
    /\ NoDialog /\ app.active_view = "transactions"
    /\ Key(recompute_visible_transactions([app EXCEPT !.sort = NextIn(SortMode, @)]))

\* Mutant: the other view keeps the rows of the old span.
ChangeSpan_OneView ==
    /\ NoDialog
    /\ \E span \in Range(TimeSpan) :
          LET a == [app EXCEPT !.span = span] IN
          Key(IF a.active_view = "transactions" THEN recompute_visible_transactions(a)
              ELSE recompute_visible_net_worth(a))

\* 1 to 5, and [ and ], which lead to one of these.
ChangeSpan ==
    /\ NoDialog
    /\ \E span \in Range(TimeSpan) :
          Key(recompute_visible_net_worth(recompute_visible_transactions(
                  [app EXCEPT !.span = span])))

ChangeInterval ==
    /\ NoDialog /\ app.active_view = "net_worth"
    /\ \E interval \in {NextIn(NetWorthInterval, app.interval),
                        PreviousIn(NetWorthInterval, app.interval)} :
       \E a \in refresh_net_worth([app EXCEPT !.interval = interval]) : Key(a)

Reload ==
    /\ NoDialog
    /\ \/ app.active_view = "transactions" /\ Key(Reloaded(app, annotated, rules_file))
       \/ app.active_view = "net_worth" /\ \E a \in refresh_net_worth(app) : Key(a)

ToggleIgnored ==
    /\ NoDialog /\ app.active_view = "transactions"
    /\ Key(Reloaded([app EXCEPT !.include_ignored = ~@], annotated, rules_file))

-----------------------------------------------------------------------------
(* The dialogs *)

collect_category_catalog(a) ==
    Category \cap ({a.matcher[i].category : i \in DOMAIN a.matcher}
                   \cup {a.listed[t] : t \in DOMAIN a.listed}
                   \cup {Facts[t].metadata : t \in DOMAIN a.listed})
Alphabetical(categories) == Sorted(categories, LAMBDA c, d : PlaceIn(Alphabet, c) < PlaceIn(Alphabet, d))

\* Those that begin with the input, then those that contain it.
filtered_category_suggestions(catalog, input) ==
    IF input = Blank THEN Alphabetical(catalog)
    ELSE Alphabetical(catalog \cap Begins[input])
         \o Alphabetical(catalog \cap (Within[input] \ Begins[input]))

refresh_category_suggestions(a, modal) ==
    LET suggestions == filtered_category_suggestions(collect_category_catalog(a), modal.input)
        row == clamp_selection(modal.selected, Len(suggestions))
    IN  [modal EXCEPT !.suggestions = suggestions, !.selected = IF row = Nothing THEN 1 ELSE row]

OpenDialog ==
    /\ NoDialog /\ app.active_view = "transactions"
    /\ \E action \in {"one_off", "rule"} :
          LET t == Highlighted(app, tx_row)
              current == resolved_transaction_category(app, t)
          IN  IF t = Nothing THEN Key(app)
              ELSE Key([app EXCEPT !.modal = refresh_category_suggestions(app,
                      [action |-> action, source |-> t,
                       input |-> IF current = Nothing THEN Blank ELSE current,
                       suggestions |-> <<>>, selected |-> 1, active |-> FALSE])])

InDialog(action) == Pressed /\ app.modal # Nothing /\ app.modal.action \in action

CancelDialog ==
    /\ InDialog({"one_off", "rule", "regex"})
    /\ Key([app EXCEPT !.modal = Nothing])

\* Up and Down among the suggestions.
ChooseSuggestion ==
    /\ InDialog({"one_off", "rule"})
    /\ LET m == app.modal
           len == Len(m.suggestions)
       IN  \E row \in {select_prev(m.selected, len), select_next(m.selected, len)} :
               Key(IF len = 0 THEN app
                   ELSE [app EXCEPT !.modal = [m EXCEPT !.active = TRUE, !.selected = row]])

TakeSuggestion ==
    /\ InDialog({"one_off", "rule"})
    /\ LET m == app.modal
           taken == IF m.suggestions = <<>> THEN m
                    ELSE [m EXCEPT !.input = m.suggestions[m.selected], !.active = FALSE]
       IN  Key([app EXCEPT !.modal = refresh_category_suggestions(app, taken)])

WriteCategory ==
    /\ InDialog({"one_off", "rule"})
    /\ \E input \in DOMAIN Begins \cup {Blank} :
          Key([app EXCEPT !.modal = refresh_category_suggestions(app,
                  [app.modal EXCEPT !.input = input, !.active = FALSE])])

WriteRegex ==
    /\ InDialog({"regex"})
    /\ \E input \in Pattern : Key([app EXCEPT !.modal = [@ EXCEPT !.input = input]])

selected_category_from_modal(m) ==
    IF m.active /\ m.selected \in DOMAIN m.suggestions THEN m.suggestions[m.selected] ELSE m.input

\* Mutant: the highlight stays at its row.
SetCategory_StayAtRow ==
    LET t == app.modal.source
        chosen == selected_category_from_modal(app.modal)
    IN
    /\ InDialog({"one_off"})
    /\ IF t \in stored
       THEN /\ annotated' = [annotated EXCEPT ![t] = IF chosen = Blank THEN Nothing ELSE chosen]
            /\ LET a == Reloaded([app EXCEPT !.modal = Nothing], annotated', rules_file)
               IN  Drawn(a, tx_row, net_worth_row)
       ELSE Fail /\ UNCHANGED annotated
    /\ UNCHANGED <<stored, rules_file, today, elsewhere>>

\* Enter: the annotation of the transaction the dialog was opened for is set, or
\* cleared; what is listed is loaded anew, and the transaction found in it.
SetCategory ==
    LET t == app.modal.source
        chosen == selected_category_from_modal(app.modal)
    IN
    /\ InDialog({"one_off"})
    /\ IF t \in stored
       THEN /\ annotated' = [annotated EXCEPT ![t] = IF chosen = Blank THEN Nothing ELSE chosen]
            /\ LET a == Reloaded([app EXCEPT !.modal = Nothing], annotated', rules_file)
               IN  Drawn(a, select_transaction_by_id(a, tx_row, t), net_worth_row)
       ELSE Fail /\ UNCHANGED annotated
    /\ UNCHANGED <<stored, rules_file, today, elsewhere>>

\* Enter with a category for a rule: next, its regular expression.
AskForRegex ==
    LET t == app.modal.source
        chosen == selected_category_from_modal(app.modal)
    IN
    /\ InDialog({"rule"})
    /\ \E suggested \in {fallback_regex_suggestion(Facts[t].description)}
                        \cup suggest_regex_with_openai :
          Key(IF chosen = Blank THEN app
              ELSE [app EXCEPT !.modal = [action |-> "regex", source |-> t, category |-> chosen,
                                          input |-> suggested]])

\* Enter: the rule is appended and the file read again; the transactions are not.
AddRule ==
    LET m == app.modal
        rule == [category |-> m.category,
                 matchers |-> [f \in {"account_name", "description"} |->
                     IF f = "account_name"
                     THEN exact_ci_regex_pattern(Facts[m.source].account_name) ELSE m.input]]
    IN
    /\ InDialog({"regex"})
    /\ IF m.input \in {Blank, Malformed}
       THEN Key(app)
       ELSE /\ rules_file' = Append(rules_file, rule)
            /\ LET a == [app EXCEPT !.matcher = load_transaction_category_rules(rules_file'),
                                    !.modal = Nothing]
               IN  Drawn(a, select_transaction_by_id(a, tx_row, m.source), net_worth_row)
            /\ UNCHANGED <<stored, annotated, today, elsewhere>>

-----------------------------------------------------------------------------
(* Meanwhile *)

\* A sync stores a transaction; a connection is removed with one; an agent or the
\* server sets a category.
ChangedElsewhere ==
    /\ elsewhere < MaxElsewhere
    /\ elsewhere' = elsewhere + 1
    /\ \/ \E t \in Txn \ stored : stored' = stored \cup {t} /\ UNCHANGED annotated
       \/ \E t \in stored : /\ stored' = stored \ {t}
                            /\ annotated' = [annotated EXCEPT ![t] = Nothing]
       \/ \E t \in stored, c \in Range(Alphabet) :
              /\ annotated' = [annotated EXCEPT ![t] = c]
              /\ UNCHANGED stored
    /\ UNCHANGED <<rules_file, today, app, tx_row, net_worth_row, running, keys>>

Midnight ==
    /\ today < MaxDay
    /\ today' = today + 1
    /\ UNCHANGED <<stored, annotated, rules_file, app, tx_row, net_worth_row, running, keys,
                   elsewhere>>

TerminalNext ==
    \/ Quit \/ ToggleView \/ MoveHighlight \/ ChangeSort \/ ChangeSpan \/ ChangeInterval
    \/ Reload \/ ToggleIgnored
    \/ OpenDialog \/ CancelDialog \/ ChooseSuggestion \/ TakeSuggestion
    \/ WriteCategory \/ WriteRegex \/ SetCategory \/ AskForRegex \/ AddRule
    \/ ChangedElsewhere \/ Midnight

TerminalSpec == TerminalInit /\ [][TerminalNext]_terminalVars

-----------------------------------------------------------------------------
(* The line of what was spent *)

spending_windows_from_config ==
    LET days == {d \in WindowDays : d > 0}
    IN  Sorted(IF days = {} THEN {7, 30, 90} ELSE days, LAMBDA k, l : k < l)

\* Outflows of the reporting currency from `days` days ago to today.
summarize_spending_window(a, days) ==
    LET counted == {t \in DOMAIN a.listed :
                       /\ Facts[t].tags \cap SpendingIgnoreTags = {}
                       /\ Facts[t].reporting /\ Facts[t].amount < 0
                       /\ Facts[t].day <= today /\ today - Facts[t].day <= days}
    IN  [total |-> MapThenSumSet(LAMBDA t : -Facts[t].amount, counted),
         transaction_count |-> Cardinality(counted)]

-----------------------------------------------------------------------------
(* Properties *)

\* Types of the state.
TerminalTypeOK ==
    /\ stored \subseteq Txn
    /\ annotated \in [Txn -> Range(Alphabet) \cup {Nothing}]
    /\ \A i \in DOMAIN rules_file :
          rules_file[i] = Malformed \/ DOMAIN rules_file[i].matchers \subseteq RuleField
    /\ today \in FirstDay .. MaxDay
    /\ app.active_view \in TuiView /\ app.span \in Range(TimeSpan) /\ app.sort \in Range(SortMode)
    /\ app.interval \in Range(NetWorthInterval)
    /\ Range(app.visible) \subseteq DOMAIN app.listed /\ DOMAIN app.listed \subseteq Txn
    /\ Range(app.visible_points) \subseteq app.points
    /\ app.modal = Nothing \/ app.modal.source \in Txn
    /\ tx_row \in Nat \cup {Nothing} /\ net_worth_row \in Nat \cup {Nothing}
    /\ running \in {"running", "quit", "failed"}
    /\ keys \in 0 .. MaxKeys /\ elsewhere \in 0 .. MaxElsewhere

\* A row is missing from neither view, whichever of the two was active when the span
\* or the interval changed and whatever day it has become since; and the points are
\* those of the interval the view names (recompute_visible_*, refresh_net_worth).
EveryRowShown ==
    /\ \A t \in DOMAIN app.listed : Inside(Facts[t].day, app.span) => t \in Range(app.visible)
    /\ \A p \in app.points :
          /\ p.interval = app.interval
          /\ Inside(p.day, app.span) => p \in Range(app.visible_points)

\* A dialog is about the row that is highlighted behind it, from its opening to its
\* end, so that what the reader sees is what Enter changes (handle_modal_key).
DialogOnHighlighted ==
    app.modal # Nothing /\ running = "running" =>
        /\ app.active_view = "transactions"
        /\ Highlighted(app, tx_row) = app.modal.source

\* The line above the rows gives for each span what the rows of that span add up to
\* (age_days <= days against date >= cutoff_date).
LineAgreesWithRows ==
    app.span \in Range(spending_windows_from_config) /\ app.sort = "date_desc" =>
        LET rows == {t \in Range(app.visible) :
                        /\ Inside(Facts[t].day, app.span) /\ Facts[t].day <= today
                        /\ Facts[t].reporting /\ Facts[t].amount < 0
                        /\ Facts[t].tags \cap SpendingIgnoreTags = {}}
        IN  summarize_spending_window(app, app.span).total
                = -MapThenSumSet(LAMBDA t : Facts[t].amount, rows)

\* What the screen says is about what the reader thinks it is about.
ScreenIsConsistent == EveryRowShown /\ DialogOnHighlighted /\ LineAgreesWithRows

\* After Enter the transaction of the dialog has the category that was chosen, no other
\* annotation has changed by it, and if the transaction is still shown it is the one
\* highlighted, wherever the reload has moved it (select_transaction_by_id).
EditFollowed ==
    SetCategory /\ running' = "running" =>
        LET t == app.modal.source
            chosen == selected_category_from_modal(app.modal)
        IN  /\ t \in Range(app'.visible) =>
                  /\ Highlighted(app', tx_row') = t
                  /\ chosen # Blank => resolved_transaction_category(app', t) = chosen
            /\ \A u \in Txn \ {t} : annotated'[u] = annotated[u]

\* A rule changes nothing that an annotation or an earlier rule decides, and the
\* transaction it was made from has its category when neither does, unless the
\* expression was rewritten to miss it (first match of match_category).
RuleComesLast ==
    AddRule /\ rules_file' # rules_file =>
        LET m == app.modal IN
        \A t \in DOMAIN app.listed :
            LET before == resolved_transaction_category(app, t)
                after == resolved_transaction_category(app', t)
                decided == app.listed[t] # Nothing \/ match_category(app.matcher, t) # Nothing
            IN  /\ decided => after = before
                /\ t = m.source /\ ~decided /\ Facts[t].description \in m.input => after = m.category

\* Each Enter does what the dialog says.
EditsLand == [][EditFollowed /\ RuleComesLast]_terminalVars
=============================================================================
