-------------------------- MODULE MCSynchronizers --------------------------
(***************************************************************************)
(* A Chase card, a Schwab connection, a Coinbase connection, and logins.   *)
(* They are looked at one after the other, not interleaved: the first to   *)
(* move decides which.                                                     *)
(***************************************************************************)
EXTENDS ChaseSync, SchwabSync, CoinbaseSync, BankLogin, TLC

CONSTANTS a1, a2, a3, a4, b1, b2, bank, r1, r2, k1, k2, k3, k4

(* Chase: two activities with identifiers that come one by one, the one    *)
(* stored twice by an earlier release, and two to come.                    *)
MCFirstListed == <<a2, a1>>
MCIdentifiersOf == (a1 :> <<{"derived", "ref", "sor"}>>) @@ (a2 :> <<{"ref"}, {"ref", "derived"}>>)
                   @@ (a3 :> <<{"sor"}>>) @@ (a4 :> <<{"sor"}>>)
MCTimeOf == (a1 :> 1) @@ (a2 :> 2) @@ (a3 :> 3) @@ (a4 :> 4)
Old(name) == [id |-> <<a1, name>>, time |-> 1, of |-> a1, version |-> 0, aliases |-> {<<a1, name>>}]
MCOldLog == <<Old("derived"), Old("sor")>>

(* Schwab: twins in a brokerage account, a second one, and a bank account  *)
(* of two pages.                                                           *)
MCAccountOf == (r1 :> b1) @@ (r2 :> b1) @@ (k1 :> bank) @@ (k2 :> bank) @@ (k3 :> bank) @@ (k4 :> bank)
MCTextOf == (r1 :> "t") @@ (r2 :> "t") @@ (k1 :> "k1") @@ (k2 :> "k2") @@ (k3 :> "k3") @@ (k4 :> "k4")
MCFirstRows == (b1 :> <<r1>>) @@ (b2 :> <<>>) @@ (bank :> <<k3, k2, k1>>)
Names == (b1 :> "One") @@ (b2 :> "Two") @@ (bank :> "Bank")
Entry(id, name) == [id |-> id, name |-> name]
MCAnswers == {
    [accounts |-> <<b1, bank>>, names |-> Names, history |-> <<Entry(b1, "renamed")>>],
    [accounts |-> <<b2>>, names |-> Names, history |-> <<Entry(b1, "One")>>]}
MCPositions == {[symbol |-> "CASH", quantity |-> 2], [symbol |-> "VTI", quantity |-> 5]}
MCCashOf == (b1 :> 2) @@ (b2 :> 2)
MCBalanceOf == (bank :> 7)

(* Coinbase: a currency with a wallet in each of two portfolios.           *)
MCFirstWallets == ("P" :> <<[uuid |-> 1, currency |-> "BTC", amount |-> 1]>>)
               @@ ("Q" :> <<[uuid |-> 2, currency |-> "ETH", amount |-> 1],
                            [uuid |-> 3, currency |-> "BTC", amount |-> 0]>>)
MCPortfolios == <<"P", "Q">>

Init == ChaseInit /\ SchwabInit /\ CoinbaseInit /\ LoginInit
Next ==
    \/ SchwabInit /\ CoinbaseInit /\ LoginInit /\ ChaseNext /\ UNCHANGED <<schwabVars, coinbaseVars, loginVars>>
    \/ ChaseInit /\ CoinbaseInit /\ LoginInit /\ SchwabNext /\ UNCHANGED <<chaseVars, coinbaseVars, loginVars>>
    \/ ChaseInit /\ SchwabInit /\ LoginInit /\ CoinbaseNext /\ UNCHANGED <<chaseVars, schwabVars, loginVars>>
    \/ ChaseInit /\ SchwabInit /\ CoinbaseInit /\ LoginNext /\ UNCHANGED <<chaseVars, schwabVars, coinbaseVars>>
Spec == Init /\ [][Next]_<<chaseVars, schwabVars, coinbaseVars, loginVars>>

(* Types of all. *)
TypeOK == ChaseTypeOK /\ SchwabTypeOK /\ CoinbaseTypeOK /\ LoginTypeOK
=============================================================================
