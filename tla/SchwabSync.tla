----------------------------- MODULE SchwabSync -----------------------------
(***************************************************************************)
(* Schwab (sync/synchronizers/schwab.rs, sync/schwab.rs, app/import.rs):   *)
(* one sync goes through the accounts in turn.  Neither kind of account    *)
(* has transaction ids: a transaction is named by what its row says and    *)
(* by how many rows of the same answer said the same before.  The bank's   *)
(* rows also say the balance they left; its pages are numbered, those of   *)
(* a brokerage account are linked.  Rows go on coming meanwhile.           *)
(* What is stored of an account is the set of its transactions' names      *)
(* (here <<source, text, balance, occurrence>>): all else follows from it. *)
(***************************************************************************)
EXTENDS Naturals, Sequences, FiniteSets, FiniteSetsExt, SequencesExt

CONSTANTS
    Brokerage, Bank,   \* accounts
    Rows,              \* of an account, that may come
    AccountOf, TextOf, \* of a row; some are told apart by nothing in them
    FirstRows,         \* by account, newest first
    Answers,           \* what Schwab may say of the accounts: [accounts, names, history]
    Positions, CashOf, BalanceOf,   \* of all brokerage accounts together; by account
    BankPage, SchwabPages,          \* rows of a page, and pages that are read
    MaxUpsets,         \* bound on failed requests, empty pages and imports
    MaxSyncs           \* bound on syncs

Accounts == Brokerage \cup Bank

(* An account of Schwab is of one kind and a row is listed once.  A cash   *)
(* balance is a currency, which no position is (Asset::equity,             *)
(* Asset::currency), so its name here is the symbol of none.               *)
ASSUME SchwabAssumption ==
    /\ Brokerage \cap Bank = {} /\ IsFiniteSet(Rows)
    /\ AccountOf \in [Rows -> Accounts]
    /\ FirstRows \in [Accounts -> Seq(Rows)] /\ \A a \in Accounts : IsInjective(FirstRows[a])
    /\ \A answer \in Answers : /\ answer.accounts \in Seq(Accounts)
                                /\ answer.history \in Seq([id : Brokerage, name : STRING])
    /\ \A p \in Positions : p.symbol # "USD"
    /\ BankPage \in Nat \ {0} /\ SchwabPages \in Nat

VARIABLES
    rows,         \* at Schwab, by account, newest first
    aged,         \* of them, how many of the oldest are out of the last 6 months
    stored,       \* names of transactions, by account
    sync,         \* the one under way
    balances,     \* as of the last sync
    odd,          \* by account, why a property may not hold
    upsets,
    syncs

schwabVars == <<rows, aged, stored, sync, balances, odd, upsets, syncs>>

NoSync == [at |-> "idle", full |-> FALSE, answer |-> [accounts |-> <<>>], turn |-> 0, frame |-> "All",
           page |-> 0, read |-> <<>>, found |-> [a \in Accounts |-> {}], owed |-> [a \in Accounts |-> <<>>]]

(* What the rows say, with the balance each left. *)
Said(a, list) == [i \in DOMAIN list |-> <<TextOf[list[i]], IF a \in Bank THEN Len(list) - i + 1 ELSE 0>>]

(* The names of the rows of one answer, by where it is from.               *)
RowNames(source, texts) ==
    {<<source, texts[i], Cardinality({j \in 1 .. i : texts[j] = texts[i]})>> : i \in DOMAIN texts}
parse_brokerage_transactions_rows(texts) == RowNames("history", texts)
parse_banking_transactions_rows(texts) == RowNames("banking", texts)
parse_exported_transactions_json(texts) == RowNames("export", texts)

InFrame(frame, list, n) == IF frame = "All" THEN list ELSE SubSeq(list, 1, Len(list) - n)

(* The account under which the history is asked for: by its name, else the *)
(* only one there is, else its own.                                        *)
history_id(answer, a) ==
    LET named == {i \in DOMAIN answer.history : answer.history[i].name = answer.names[a]}
    IN  IF named # {} THEN answer.history[Max(named)].id
        ELSE IF Len(answer.history) = 1 THEN answer.history[1].id ELSE a

account_balances(a) ==
    IF a \in Bank THEN {[symbol |-> "USD", quantity |-> BalanceOf[a]]}
    ELSE {p \in Positions : p.symbol # "CASH"} \cup {[symbol |-> "USD", quantity |-> CashOf[a]]}

Because(reason, accounts) == [a \in Accounts |-> odd[a] \cup (IF a \in accounts THEN {reason} ELSE {})]
Upset == upsets < MaxUpsets /\ upsets' = upsets + 1

----------------------------------------------------------------------------
SchwabInit ==
    /\ rows = FirstRows
    /\ aged = [a \in Accounts |-> 0]
    /\ stored = [a \in Accounts |-> {}]
    /\ sync = NoSync
    /\ balances = [a \in Accounts |-> {}]
    /\ odd = [a \in Accounts |-> {}]
    /\ upsets = 0 /\ syncs = 0

(* Schwab. *)
Asked == sync.answer.accounts[sync.turn]     \* the account whose turn it is
RowComes(r, place) ==
    LET a == AccountOf[r] IN
    /\ sync.at \in {"idle", "page"}   \* between save and return nothing looks
    /\ r \notin ToSet(rows[a]) /\ place <= Len(rows[a]) + 1 - aged[a]
    /\ \A i \in DOMAIN rows[a] : TextOf[rows[a][i]] = TextOf[r] => i <= Len(rows[a]) - aged[a]
    /\ rows' = [rows EXCEPT ![a] = InsertAt(@, place, r)]
    /\ odd' = IF place > 1 /\ a \in Bank THEN Because("late", {a})   \* the balances above change
              ELSE IF a \in Bank /\ sync.at = "page" /\ Asked = a /\ sync.page > 0 THEN Because("shifted", {a})
              ELSE odd
    /\ UNCHANGED <<aged, stored, sync, balances, upsets, syncs>>

(* The rows of a day leave the last 6 months. *)
Age(a) ==
    /\ sync.at = "idle"
    /\ \E n \in aged[a] + 1 .. Len(rows[a]) :
        LET before == SubSeq(rows[a], 1, Len(rows[a]) - n)
            out == SubSeq(rows[a], Len(rows[a]) - n + 1, Len(rows[a]))
        IN  /\ \A r \in ToSet(before), s \in ToSet(out) : TextOf[r] # TextOf[s]
            /\ aged' = [aged EXCEPT ![a] = n]
            /\ odd' = IF stored[a] # {} /\ ~\E source \in {"history", "banking"} :
                              RowNames(source, Said(a, rows[a])) \subseteq stored[a]
                      THEN Because("unread", {a}) ELSE odd
    /\ UNCHANGED <<rows, stored, sync, balances, upsets, syncs>>

TimeFrame(full, a) == IF full \/ stored[a] = {} THEN "All" ELSE "Last6Months"

Turn(s, turn) ==
    IF turn > Len(s.answer.accounts) THEN [s EXCEPT !.at = "save", !.turn = turn]
    ELSE LET a == s.answer.accounts[turn]
         IN  [s EXCEPT !.at = "page", !.turn = turn, !.page = 0, !.read = <<>>,
                       !.frame = TimeFrame(s.full, a), !.owed[a] = Said(a, rows[a])]

(* Accounts and positions are asked for first. *)
SchwabStart(full, answer) ==
    /\ sync.at = "idle" /\ syncs < MaxSyncs
    /\ sync' = Turn([NoSync EXCEPT !.full = full, !.answer = answer], 1)
    /\ odd' = Because("strayed", {a \in ToSet(answer.accounts) \cap Brokerage : history_id(answer, a) # a})
    /\ syncs' = syncs + 1
    /\ UNCHANGED <<rows, aged, stored, balances, upsets>>

Through(texts) ==
    LET a == Asked
        names == IF a \in Bank THEN parse_banking_transactions_rows(texts)
                 ELSE parse_brokerage_transactions_rows(texts)
    IN  Turn([sync EXCEPT !.found[a] = names], sync.turn + 1)

(* get_brokerage_transactions: a page goes on behind the one before, and   *)
(* may be empty.                                                           *)
BrokeragePage(n) ==
    LET of == history_id(sync.answer, Asked)
        list == InFrame(sync.frame, rows[of], aged[of])
        next == IF sync.read = <<>> THEN 1 ELSE 1 + CHOOSE i \in DOMAIN list : list[i] = Last(sync.read)
        last == Min({Len(list), next + n - 1})
        read == sync.read \o SubSeq(list, next, last)
    IN  /\ sync.at = "page" /\ Asked \in Brokerage /\ sync.page < SchwabPages
        /\ IF n = 0 /\ list # <<>> THEN Upset ELSE UNCHANGED upsets
        /\ sync' = IF last = Len(list) THEN Through(Said(Asked, read))
                   ELSE [sync EXCEPT !.read = read, !.page = @ + 1]
        /\ UNCHANGED <<rows, aged, stored, balances, odd, syncs>>

(* mutant: after a failed page the bank's rows so far are kept *)
BankRows_Kept == sync.read
BankRows == <<>>

(* get_banking_transactions: the pages are those of the list as it is now. *)
BankingPage ==
    LET a == Asked
        list == InFrame(sync.frame, Said(a, rows[a]), aged[a])
        read == sync.read \o SubSeq(list, sync.page * BankPage + 1,
                                    Min({Len(list), (sync.page + 1) * BankPage}))
    IN  /\ sync.at = "page" /\ a \in Bank /\ sync.page < SchwabPages
        /\ sync' = IF (sync.page + 1) * BankPage >= Len(list) THEN Through(read)
                   ELSE [sync EXCEPT !.read = read, !.page = @ + 1]
        /\ UNCHANGED <<rows, aged, stored, balances, odd, upsets, syncs>>

(* A request fails, or there are too many pages: for a brokerage account   *)
(* the sync fails; for the bank it takes the last 6 months, or nothing.    *)
PageFails ==
    /\ sync.at = "page"
    /\ IF sync.page = SchwabPages THEN UNCHANGED upsets ELSE Upset
    /\ sync' = IF Asked \in Brokerage THEN NoSync
               ELSE IF sync.frame = "All" THEN [sync EXCEPT !.frame = "Last6Months", !.page = 0, !.read = BankRows]
               ELSE Through(BankRows)
    /\ odd' = IF Asked \in Bank
              THEN Because(IF sync.frame = "All" /\ aged[Asked] > 0 THEN "unread" ELSE "failed", {Asked})
              ELSE odd
    /\ UNCHANGED <<rows, aged, stored, balances, syncs>>

SchwabSave ==
    /\ sync.at = "save"
    /\ stored' = [a \in Accounts |-> stored[a] \cup sync.found[a]]
    /\ balances' = [a \in Accounts |-> IF a \in ToSet(sync.answer.accounts) THEN account_balances(a) ELSE {}]
    /\ sync' = [sync EXCEPT !.at = "done"]
    /\ UNCHANGED <<rows, aged, odd, upsets, syncs>>

SchwabReturn ==
    /\ sync.at = "done" /\ sync' = NoSync
    /\ odd' = [a \in Accounts |-> odd[a] \ {"failed"}]
    /\ UNCHANGED <<rows, aged, stored, balances, upsets, syncs>>

(* A file exported by hand is appended under names of its own.             *)
import_schwab_transactions(a) ==
    /\ a \in Brokerage /\ sync.at \in {"idle", "page"} /\ Upset
    /\ stored' = [stored EXCEPT ![a] = @ \cup parse_exported_transactions_json(Said(a, rows[a]))]
    /\ odd' = IF stored[a] = {} /\ aged[a] > 0 THEN Because("unread", {a}) ELSE odd
    /\ UNCHANGED <<rows, aged, sync, balances, syncs>>

SchwabNext ==
    \/ \E r \in Rows, place \in 1 .. Cardinality(Rows) : RowComes(r, place)
    \/ \E a \in Accounts : Age(a) \/ import_schwab_transactions(a)
    \/ \E full \in BOOLEAN, answer \in Answers : SchwabStart(full, answer)
    \/ \E n \in 0 .. 2 : BrokeragePage(n)
    \/ BankingPage \/ PageFails \/ SchwabSave \/ SchwabReturn

SchwabSpec == SchwabInit /\ [][SchwabNext]_schwabVars

----------------------------------------------------------------------------
SchwabTypeOK ==
    /\ \A a \in Accounts : ToSet(rows[a]) \subseteq Rows /\ aged[a] \in 0 .. Len(rows[a])
    /\ \A a \in Accounts : odd[a] \subseteq {"late", "shifted", "unread", "failed", "strayed"}
    /\ sync.at \in {"idle", "page", "save", "done"} /\ sync.page \in 0 .. SchwabPages

(* After a sync every row listed when the account's turn came is stored,   *)
(* though an automatic one asks for half a year only: what is older was    *)
(* stored before (the first sync takes all), unless no sync saw it, the    *)
(* bank had no older rows to give, or a file was imported first.  Rows     *)
(* that come between two pages cost none.                                  *)
NoRowMissed ==
    sync.at = "done" => \A a \in Accounts :
        odd[a] \cap {"late", "unread", "failed", "strayed"} = {} =>
            RowNames(IF a \in Bank THEN "banking" ELSE "history", sync.owed[a]) \subseteq stored[a]

(* What is stored is Schwab's rows of this account, each under one name    *)
(* for each way it came, twins included: unless a row of the bank came     *)
(* between its numbered pages (the last row of a page is read again as     *)
(* the first of the next) or among older ones (it changes the balances     *)
(* the others are named by).  No failed request may leave a part of an     *)
(* answer behind and then count its rows again.                            *)
NoPhantom ==
    \A a \in Accounts : odd[a] \cap {"late", "shifted", "strayed"} = {} =>
        stored[a] \subseteq UNION {RowNames(source, Said(a, rows[a])) : source \in {"history", "banking", "export"}}

(* With one brokerage account, whose cash Schwab lists among its positions, *)
(* what is held and the balances correspond one to one: the position of    *)
(* cash and the cash of the account do not both count.  (With two, each is *)
(* given all positions: schwab.rs:236.)                                    *)
WorthOnce ==
    LET synced == {a \in Accounts : balances[a] # {}} IN
    /\ \A a \in Brokerage :
           synced \cap Brokerage = {a}
           /\ {p \in Positions : p.symbol = "CASH"} = {[symbol |-> "CASH", quantity |-> CashOf[a]]}
               => \E balance \in Bijection(Positions, balances[a]) :
                      \A p \in Positions : balance[p].quantity = p.quantity
    /\ \A a \in synced \cap Bank : \E p \in balances[a] : balances[a] = {p} /\ p.quantity = BalanceOf[a]

(* Rows and money are stored, and once.                                    *)
RowsAndMoneyOnce == NoRowMissed /\ NoPhantom /\ WorthOnce
=============================================================================
