---------------------------- MODULE CoinbaseSync ----------------------------
(***************************************************************************)
(* Coinbase (sync/synchronizers/coinbase.rs): a sync reads the wallets of  *)
(* one portfolio after another, then the fills a page at a time, and makes *)
(* an account of each wallet.  Wallets are matched to the accounts there   *)
(* are by currency, for Coinbase gives an asset a new wallet at times, and *)
(* fills to wallets by currency, too.  Trades and moves go on meanwhile.   *)
(***************************************************************************)
EXTENDS Naturals, Sequences, FiniteSets, FiniteSetsExt, SequencesExt

CONSTANTS
    Currencies, Portfolios,       \* Portfolios: in the order they are listed
    FirstWallets,                 \* by portfolio: [uuid, currency, amount]; uuids up to 10
    MaxChanges, MaxCoinSyncs      \* bounds on what happens at Coinbase, and on syncs

(* There is a default portfolio; a uuid names a wallet, and a wallet has one currency. *)
ASSUME CoinbaseAssumption ==
    /\ Portfolios \in Seq(ToSet(Portfolios)) /\ Portfolios # <<>>
    /\ FirstWallets \in [ToSet(Portfolios) -> Seq([uuid : Nat, currency : Currencies, amount : Nat])]
    /\ \A p \in ToSet(Portfolios) : \A i \in DOMAIN FirstWallets[p] : FirstWallets[p][i].uuid <= 10
    /\ \A p, q \in ToSet(Portfolios) : \A i \in DOMAIN FirstWallets[p], j \in DOMAIN FirstWallets[q] :
           FirstWallets[p][i].uuid = FirstWallets[q][j].uuid
           => FirstWallets[p][i].currency = FirstWallets[q][j].currency

VARIABLES
    wallets,     \* at Coinbase, by portfolio
    fills,       \* at Coinbase, oldest first: a fill is its number and [currency, side]
    accounts,    \* stored, by id: [currency, born, active, balance, fills]
    visit,       \* the sync under way
    double,      \* currencies that had, or seemed to have, two wallets at a time
    visits,
    changes

coinbaseVars == <<wallets, fills, accounts, visit, double, visits, changes>>

NoVisit == [at |-> "idle", portfolio |-> 1, list |-> <<>>, got |-> {}, left |-> 0, owed |-> {}]

AllWallets == UNION {ToSet(wallets[p]) : p \in ToSet(Portfolios)}
Doubled(lists) == {c \in Currencies : \E p, q \in DOMAIN lists : \E i \in DOMAIN lists[p], j \in DOMAIN lists[q] :
    (p # q \/ i # j) /\ lists[p][i].currency = c /\ lists[q][j].currency = c}

(* mutant: by the wallet's own id only *)
existing_by_currency_Never(store, c) == {}
(* The account of a currency that was there first. *)
existing_by_currency(store, c) ==
    {id \in DOMAIN store : store[id].currency = c
        /\ \A other \in DOMAIN store : store[other].currency = c => store[id].born <= store[other].born}

(* The first wallet of a fill's currency has it. *)
fills_by_account_uuid(list, i, got) ==
    IF \E j \in 1 .. i - 1 : list[j].currency = list[i].currency THEN {}
    ELSE {f \in got : fills[f].currency = list[i].currency}

Skipped(store, wallet, id, own) == wallet.amount = 0 /\ id \notin DOMAIN store /\ own = {}

Closed(account) == [account EXCEPT !.active = FALSE, !.balance = 0]

----------------------------------------------------------------------------
CoinbaseInit ==
    /\ wallets = FirstWallets
    /\ fills = <<>>
    /\ accounts = <<>>
    /\ visit = NoVisit
    /\ double = Doubled(FirstWallets)
    /\ visits = 0 /\ changes = 0

(* Coinbase.  A fill may buy, or sell all there is. *)
Changed(lists) ==
    /\ changes < MaxChanges /\ changes' = changes + 1
    /\ wallets' = lists
    /\ double' = double \cup Doubled(lists)
    /\ UNCHANGED <<accounts, visit, visits>>

Trade(p, i, amount) ==
    /\ wallets[p][i].amount # amount
    /\ fills' = Append(fills, [currency |-> wallets[p][i].currency,
                               side |-> IF amount = 0 THEN "SELL" ELSE "BUY"])
    /\ Changed([wallets EXCEPT ![p][i].amount = amount])

NewWallet(p, i) ==      \* of the same asset, in the same place
    /\ Changed([wallets EXCEPT ![p][i].uuid = 11 + changes])
    /\ UNCHANGED fills

Move(p, i, q) ==
    /\ p # q
    /\ Changed([wallets EXCEPT ![p] = RemoveAt(@, i), ![q] = Append(@, wallets[p][i])])
    /\ UNCHANGED fills

Vanish(p, i) ==
    /\ wallets[p][i].amount = 0
    /\ Changed([wallets EXCEPT ![p] = RemoveAt(@, i)])
    /\ UNCHANGED fills

CoinbaseStart ==
    /\ visit.at = "idle" /\ visits < MaxCoinSyncs
    /\ visit' = [NoVisit EXCEPT !.at = "wallets"]
    /\ visits' = visits + 1
    /\ UNCHANGED <<wallets, fills, accounts, double, changes>>

get_accounts ==
    /\ visit.at = "wallets"
    /\ visit' = [visit EXCEPT !.list = @ \o wallets[Portfolios[visit.portfolio]],
                     !.portfolio = @ + 1,
                     !.at = IF visit.portfolio = Len(Portfolios) THEN "fills" ELSE "wallets",
                     !.left = Len(fills), !.owed = DOMAIN fills]
    /\ double' = double \cup Doubled(<<visit'.list>>)
    /\ UNCHANGED <<wallets, fills, accounts, visits, changes>>

(* A request for wallets that fails ends the sync; one for fills leaves it *)
(* without any, those of the pages before included.                        *)
RequestFails ==
    /\ visit.at \in {"wallets", "fills"}
    /\ visit' = IF visit.at = "wallets" THEN NoVisit
                ELSE [visit EXCEPT !.at = "save", !.got = {}, !.owed = {}]
    /\ UNCHANGED <<wallets, fills, accounts, double, visits, changes>>

(* A page of the n next, newest first. *)
get_fills(n) ==
    /\ visit.at = "fills" /\ n <= visit.left
    /\ visit' = [visit EXCEPT !.got = @ \cup (visit.left - n + 1 .. visit.left), !.left = @ - n,
                     !.at = IF visit.left = n THEN "save" ELSE "fills"]
    /\ UNCHANGED <<wallets, fills, accounts, double, visits, changes>>

(* More is said to follow, but no cursor leads there. *)
NoCursor ==
    /\ visit.at = "fills" /\ visit.left > 0
    /\ visit' = [visit EXCEPT !.at = "save", !.owed = visit.got]
    /\ UNCHANGED <<wallets, fills, accounts, double, visits, changes>>

(* The loop over the wallets, and the save of what it makes: accounts it   *)
(* does not come to are closed with an empty balance.                      *)
AccountsOf(list, got) ==
    LET IdOf(w) == LET there == existing_by_currency(accounts, w.currency)
                   IN  IF there = {} THEN w.uuid ELSE CHOOSE id \in there : TRUE
        Own(i) == fills_by_account_uuid(list, i, got)
        made == {i \in DOMAIN list : ~Skipped(accounts, list[i], IdOf(list[i]), Own(i))}
        Wallets(id) == {i \in made : IdOf(list[i]) = id}
        old(id) == IF id \in DOMAIN accounts THEN accounts[id]
                   ELSE [born |-> 10 * visits + Min(Wallets(id)), fills |-> {}]
    IN  [id \in DOMAIN accounts \cup {IdOf(list[i]) : i \in made} |->
            IF Wallets(id) = {} THEN Closed(accounts[id])
            ELSE [currency |-> list[Max(Wallets(id))].currency, born |-> old(id).born, active |-> TRUE,
                  balance |-> list[Max(Wallets(id))].amount,
                  fills |-> old(id).fills \cup UNION {Own(i) : i \in Wallets(id)}]]

CoinbaseSave ==
    /\ visit.at = "save"
    /\ accounts' = AccountsOf(visit.list, visit.got)
    /\ visit' = [visit EXCEPT !.at = "done"]
    /\ UNCHANGED <<wallets, fills, double, visits, changes>>

CoinbaseReturn == visit.at = "done" /\ visit' = NoVisit /\ UNCHANGED <<wallets, fills, accounts, double, visits, changes>>

CoinbaseNext ==
    \/ visit.at \in {"idle", "wallets", "fills"}
       /\ \E p \in ToSet(Portfolios) : \E i \in DOMAIN wallets[p] :
            \/ \E amount \in {0, 2} : Trade(p, i, amount)
            \/ NewWallet(p, i)
            \/ \E q \in ToSet(Portfolios) : Move(p, i, q)
            \/ Vanish(p, i)
    \/ CoinbaseStart \/ get_accounts \/ RequestFails \/ NoCursor \/ CoinbaseSave \/ CoinbaseReturn
    \/ \E n \in 0 .. Len(fills) : get_fills(n)

CoinbaseSpec == CoinbaseInit /\ [][CoinbaseNext]_coinbaseVars

----------------------------------------------------------------------------
CoinbaseTypeOK ==
    /\ \A w \in AllWallets : w.uuid \in 1 .. 10 + MaxChanges /\ w.currency \in Currencies
    /\ DOMAIN accounts \subseteq 1 .. 10 + MaxChanges
    /\ \A id \in DOMAIN accounts : accounts[id].fills \subseteq DOMAIN fills

(* A currency keeps the account it has, and its history with it, when      *)
(* Coinbase moves the asset to another wallet (coinbase.rs:383) or it is   *)
(* gone for a while; so it has one account unless it had two wallets.      *)
OneAccountEach ==
    \A id, other \in DOMAIN accounts :
        id # other /\ accounts[id].currency = accounts[other].currency => accounts[id].currency \in double

(* After a sync the active accounts of a currency that has not two wallets, *)
(* so one at most, are worth what the wallet it read held, wherever it was  *)
(* listed: of two, the second sync makes one account, which has the balance *)
(* of the last.  An empty wallet need not have an account.                  *)
WorthOfWallets ==
    visit.at = "done" => \A c \in Currencies \ double :
        {accounts[id].balance : id \in {k \in DOMAIN accounts : accounts[k].active /\ accounts[k].currency = c}} \ {0}
        = {visit.list[i].amount : i \in {k \in DOMAIN visit.list : visit.list[k].currency = c}} \ {0}

(* A fill that was there when the wallets had been read is stored, and in  *)
(* one account however often it is read and whichever wallet it is given   *)
(* to, two of one currency included: that of an asset sold out before its  *)
(* first sync, too; but of an asset that is not listed any more it is lost.*)
FillsStoredOnce ==
    /\ \A id, other \in DOMAIN accounts : id # other => accounts[id].fills \cap accounts[other].fills = {}
    /\ visit.at = "done" => \A f \in visit.owed :
           (\E i \in DOMAIN visit.list : visit.list[i].currency = fills[f].currency)
           => \E id \in DOMAIN accounts : f \in accounts[id].fills

(* Accounts, balances and fills follow the wallets.                        *)
FollowsWallets == OneAccountEach /\ WorthOfWallets /\ FillsStoredOnce
=============================================================================
