------------------------ MODULE TransactionSyncProofs ------------------------
(***************************************************************************)
(* What the syncs of transactions leave in the logs of their accounts.     *)
(*                                                                         *)
(* Plaid, for any syncers, transactions and accounts.  Between two syncs   *)
(* the stored transactions are those the cursor stands for; the invariant  *)
(* says what takes the place of this while a sync is under way: with the   *)
(* lines it is about to append, they are those its own cursor stands for.  *)
(*                                                                         *)
(* Chase, for any activities, identifiers, pages and threshold.  What is   *)
(* listed and not stored is never hidden below Threshold stored activities *)
(* in a row; while a sync is under way the invariant says so of what it    *)
(* has got as well, and of what it would stop above.  Before that, what    *)
(* readers see of a log: the one pass of dedupe_transactions_last_write_   *)
(* wins finds every class of lines that a chain of keys links.             *)
(***************************************************************************)
EXTENDS PlaidSync, ChaseSync, WellFoundedInduction, SequenceTheorems, FiniteSetTheorems, TLAPS

(***************************************************************************)
(* Plaid.                                                                  *)
(***************************************************************************)
States == {"idle", "balances", "existing", "load", "updates", "accounts", "transactions"}
Before == {"idle", "balances", "existing", "load", "updates"}    \* the changes are known

\* The types of the variables, and when a sync has a batch and lines in hand.
Types ==
    /\ bank \in Seq([Tx -> Version \cup {Absent}]) /\ Len(bank) >= 1
    /\ open \in SUBSET Account /\ known \in SUBSET Account
    /\ cursor \in 1..Len(bank)
    /\ stored \in [Tx -> Versions]
    /\ pc \in [Syncer -> States]
    /\ conn \in [Syncer -> 1..Len(bank)]
    /\ listed \in [Syncer -> SUBSET Account]
    /\ existing \in [Syncer -> SUBSET Account]
    /\ loaded \in [Syncer -> [Tx -> Versions]]
    /\ DOMAIN batch = Syncer
    /\ \A p \in Syncer : DOMAIN batch[p] \subseteq Tx
                         /\ \A t \in DOMAIN batch[p] : batch[p][t] \in Versions \ {Absent}
    /\ todo \in [Syncer -> SUBSET Account]
    /\ lines \in [Syncer -> SUBSET Tx]
    /\ opened \in 0..MaxOpen /\ fails \in 0..MaxFail /\ crashes \in 0..MaxCrash
    /\ disturbed \in BOOLEAN
    /\ \A p \in Syncer : /\ pc[p] \in Before => DOMAIN batch[p] = {}
                         /\ pc[p] # "transactions" => lines[p] = {}
                         /\ lines[p] \subseteq DOMAIN batch[p]

\* Version v of transaction t was Plaid's, or t had been and was gone.
Real(history, t, v) ==
    /\ v \in Version => \E i \in DOMAIN history : history[i][t] = v
    /\ v = Canceled => \E i, j \in DOMAIN history :
                           i < j /\ history[i][t] # Absent /\ history[j][t] = Absent

AllReal ==
    /\ \A t \in Tx : Real(bank, t, stored[t])
    /\ \A p \in Syncer : \A t \in DOMAIN batch[p] : Real(bank, t, batch[p][t])

\* Transactions are those of accounts Plaid lists.
OfOpenAccounts == \A i \in DOMAIN bank, t \in Tx : bank[i][t] # Absent => AccountOf[t] \in open

\* While nothing is disturbed, one sync is under way at most.
Alone == ~disturbed => \A p, q \in Syncer : pc[p] # "idle" /\ pc[q] # "idle" => p = q

\* Where it stands determines what it knows.
Knows == ~disturbed => \A p \in Syncer :
    /\ pc[p] \in Before \ {"idle"} => conn[p] = cursor
    /\ pc[p] \in {"existing", "load", "updates"} => listed[p] = open
    /\ pc[p] = "updates" => loaded[p] = stored

\* What transaction t will be when the batch of p has been stored.
Outcome(p, t) == IF t \in DOMAIN batch[p] THEN batch[p][t] ELSE stored[t]

\* Stored and cursor, and stored, batch and cursor of a sync.
Complete == ~disturbed =>
    /\ (\A p \in Syncer : pc[p] # "transactions") => \A t \in Tx : Agrees(stored[t], bank[cursor][t])
    /\ \A p \in Syncer :
          /\ pc[p] \in {"accounts", "transactions"} => \A t \in Tx : Agrees(Outcome(p, t), bank[conn[p]][t])
          /\ pc[p] = "transactions" =>
                /\ cursor = conn[p]
                /\ \A t \in DOMAIN batch[p] :
                      AccountOf[t] \in todo[p] \/ t \in lines[p] \/ stored[t] = batch[p][t]

IInv == Types /\ AllReal /\ OfOpenAccounts /\ Alone /\ Knows /\ Complete

\* What is assumed of the constants.
LEMMA Constants ==
  /\ AccountOf \in [Tx -> Account]
  /\ Absent \notin Version /\ Canceled \notin Version /\ Canceled # Absent
  /\ MaxChange \in Nat /\ MaxOpen \in Nat /\ MaxFail \in Nat /\ MaxCrash \in Nat
BY PlaidSyncAssumption

\* An empty list has no place in it.
LEMMA NoBatch == DOMAIN <<>> = {}
OBVIOUS

\* The states of Plaid's transactions are numbered from 1, and the last is Now.
LEMMA Indices ==
  ASSUME Types
  PROVE  /\ DOMAIN bank = 1..Len(bank) /\ Len(bank) \in Nat
         /\ Len(bank) \in 1..Len(bank)
         /\ Now \in [Tx -> Version \cup {Absent}]
         /\ \A i \in 1..Len(bank) : bank[i] \in [Tx -> Version \cup {Absent}]
BY DEF Types, Now

\* At first.
LEMMA InitIInv == Init => IInv
<1> SUFFICES ASSUME Init PROVE IInv
  OBVIOUS
<1>1. Nothing \in [Tx -> Version \cup {Absent}] /\ Nothing \in [Tx -> Versions]
  BY DEF Nothing, Versions
<1>2. bank \in Seq([Tx -> Version \cup {Absent}]) /\ Len(bank) = 1 /\ bank[1] = Nothing /\ DOMAIN bank = {1}
  BY <1>1 DEF Init
<1>3. Types
  <2>1. DOMAIN batch = Syncer /\ \A p \in Syncer : DOMAIN batch[p] = {}
    BY NoBatch DEF Init
  <2>2. cursor \in 1..Len(bank) /\ conn \in [Syncer -> 1..Len(bank)]
    BY <1>2 DEF Init
  <2>3. opened \in 0..MaxOpen /\ fails \in 0..MaxFail /\ crashes \in 0..MaxCrash
    BY Constants DEF Init
  <2>4. /\ loaded \in [Syncer -> [Tx -> Versions]] /\ todo \in [Syncer -> SUBSET Account]
        /\ listed \in [Syncer -> SUBSET Account] /\ existing \in [Syncer -> SUBSET Account]
        /\ lines \in [Syncer -> SUBSET Tx] /\ pc \in [Syncer -> States] /\ disturbed \in BOOLEAN
    BY <1>1 DEF Init, States
  <2>5. open \in SUBSET Account /\ known \in SUBSET Account /\ stored \in [Tx -> Versions]
    BY <1>1 DEF Init
  <2>6. \A p \in Syncer : pc[p] = "idle" /\ lines[p] = {}
    BY DEF Init
  <2> QED BY <1>2, <2>1, <2>2, <2>3, <2>4, <2>5, <2>6 DEF Types
<1>4. AllReal
  BY <1>1, <1>2, NoBatch, Constants DEF Init, AllReal, Real, Nothing
<1>5. OfOpenAccounts
  BY <1>2 DEF Init, OfOpenAccounts, Nothing
<1>6. Alone /\ Knows
  BY DEF Init, Alone, Knows, Before
<1>7. Complete
  BY <1>2 DEF Init, Complete, Agrees, Nothing
<1> QED BY <1>3, <1>4, <1>5, <1>6, <1>7 DEF IInv

\* A sync begins.
LEMMA LoadStep ==
  ASSUME IInv, NEW p \in Syncer, Load(p)
  PROVE  IInv'
<1>1. Types'
  BY NoBatch, Constants DEF IInv, Types, States, Before, Load, disk, local
<1>2. AllReal'
  BY DEF IInv, Types, AllReal, Load, disk, local
<1>3. OfOpenAccounts'
  BY DEF IInv, OfOpenAccounts, Load, disk, local
<1>4. Alone'
  BY DEF IInv, Types, Alone, Load, disk, local
<1>5. Knows'
  BY DEF IInv, Types, Alone, Knows, States, Before, Load, disk, local
<1>6. Complete'
  BY DEF IInv, Types, Alone, Complete, Outcome, States, Load, disk, local
<1> QED BY <1>1, <1>2, <1>3, <1>4, <1>5, <1>6 DEF IInv

\* It learns which accounts there are.
LEMMA GetBalancesStep ==
  ASSUME IInv, NEW p \in Syncer, get_balances(p)
  PROVE  IInv'
<1>1. Types'
  BY NoBatch, Constants DEF IInv, Types, States, Before, get_balances, disk, local
<1>2. AllReal'
  BY DEF IInv, Types, AllReal, get_balances, disk, local
<1>3. OfOpenAccounts'
  BY DEF IInv, OfOpenAccounts, get_balances, disk, local
<1>4. Alone'
  BY DEF IInv, Types, Alone, get_balances, disk, local
<1>5. Knows'
  BY DEF IInv, Types, Alone, Knows, States, Before, get_balances, disk, local
<1>6. Complete'
  BY DEF IInv, Types, Alone, Complete, Outcome, States, get_balances, disk, local
<1> QED BY <1>1, <1>2, <1>3, <1>4, <1>5, <1>6 DEF IInv

\* It reads which accounts are stored.
LEMMA ListAccountsStep ==
  ASSUME IInv, NEW p \in Syncer, list_accounts(p)
  PROVE  IInv'
<1>1. Types'
  BY NoBatch, Constants DEF IInv, Types, States, Before, list_accounts, disk, local
<1>2. AllReal'
  BY DEF IInv, Types, AllReal, list_accounts, disk, local
<1>3. OfOpenAccounts'
  BY DEF IInv, OfOpenAccounts, list_accounts, disk, local
<1>4. Alone'
  BY DEF IInv, Types, Alone, list_accounts, disk, local
<1>5. Knows'
  BY DEF IInv, Types, Alone, Knows, States, Before, list_accounts, disk, local
<1>6. Complete'
  BY DEF IInv, Types, Alone, Complete, Outcome, States, list_accounts, disk, local
<1> QED BY <1>1, <1>2, <1>3, <1>4, <1>5, <1>6 DEF IInv

\* It reads what is stored.
LEMMA LoadExistingPlaidTransactionsStep ==
  ASSUME IInv, NEW p \in Syncer, load_existing_plaid_transactions(p)
  PROVE  IInv'
<1>1. Types'
  BY NoBatch, Constants DEF IInv, Types, States, Before, load_existing_plaid_transactions, disk, local
<1>2. AllReal'
  BY DEF IInv, Types, AllReal, load_existing_plaid_transactions, disk, local
<1>3. OfOpenAccounts'
  BY DEF IInv, OfOpenAccounts, load_existing_plaid_transactions, disk, local
<1>4. Alone'
  BY DEF IInv, Types, Alone, load_existing_plaid_transactions, disk, local
<1>5. Knows'
  BY DEF IInv, Types, Alone, Knows, States, Before, load_existing_plaid_transactions, disk, local
<1>6. Complete'
  BY DEF IInv, Types, Alone, Complete, Outcome, States, load_existing_plaid_transactions, disk, local
<1> QED BY <1>1, <1>2, <1>3, <1>4, <1>5, <1>6 DEF IInv

\* It learns the changes since its cursor: what it takes from them is what Plaid
\* has now, but for what it has stored alike.
LEMMA GetTransactionUpdatesStep ==
  ASSUME IInv, NEW p \in Syncer, get_transaction_updates(p)
  PROVE  IInv'
<1> DEFINE old == bank[conn[p]]
           upserts == {t \in Upserted(old, Now) : AccountOf[t] \in Resolved(p)}
           cancels == {t \in Removed(old, Now) : loaded[p][t] # Absent}
           new == [t \in upserts \cup cancels |-> IF t \in upserts THEN Now[t] ELSE Canceled]
<1>a. /\ conn[p] \in 1..Len(bank) /\ Len(bank) \in Nat /\ DOMAIN bank = 1..Len(bank)
      /\ Len(bank) \in 1..Len(bank)
      /\ old \in [Tx -> Version \cup {Absent}] /\ Now \in [Tx -> Version \cup {Absent}]
      /\ Now = bank[Len(bank)]
  BY Indices DEF IInv, Types, Now
<1>b. /\ \A t \in upserts : t \in Tx /\ Now[t] # Absent /\ Now[t] \in Version
      /\ \A t \in cancels : t \in Tx /\ Now[t] = Absent /\ old[t] # Absent
  BY <1>a DEF Upserted, Removed
<1>c. /\ DOMAIN new = upserts \cup cancels /\ DOMAIN new \subseteq Tx
      /\ \A t \in upserts : new[t] = Now[t]
      /\ \A t \in cancels : new[t] = Canceled
  BY <1>b
<1>d. /\ pc[p] = "updates" /\ pc' = [pc EXCEPT ![p] = "accounts"]
      /\ batch' = [batch EXCEPT ![p] = new] /\ conn' = [conn EXCEPT ![p] = Len(bank)]
      /\ todo' = [todo EXCEPT ![p] = listed[p]]
      /\ UNCHANGED <<bank, open, disk, listed, existing, loaded, lines, opened, fails,
                     crashes, disturbed>>
  BY DEF get_transaction_updates
<1> HIDE DEF old, upserts, cancels, new
<1>1. Types'
  <2>1. \A t \in DOMAIN new : new[t] \in Versions \ {Absent}
    BY <1>b, <1>c, Constants DEF Versions
  <2>2. DOMAIN batch' = Syncer /\ \A q \in Syncer : batch'[q] = IF q = p THEN new ELSE batch[q]
    BY <1>d DEF IInv, Types
  <2>3. conn' \in [Syncer -> 1..Len(bank)]
    BY <1>a, <1>d DEF IInv, Types
  <2>4. \A q \in Syncer : lines[q] \subseteq DOMAIN batch'[q]
    BY <1>d, <2>2 DEF IInv, Types, Before
  <2> QED BY <1>c, <1>d, <2>1, <2>2, <2>3, <2>4 DEF IInv, Types, States, Before, disk
<1>2. AllReal'
  <2>1. \A q \in Syncer : batch'[q] = IF q = p THEN new ELSE batch[q]
    BY <1>d DEF IInv, Types
  <2>2. ASSUME NEW t \in upserts PROVE Real(bank, t, new[t])
    BY <1>a, <1>b, <1>c, Constants DEF Real
  <2>3. ASSUME NEW t \in cancels PROVE Real(bank, t, new[t])
    <3>1. conn[p] # Len(bank)
      BY <1>a, <1>b DEF old
    <3>2. conn[p] < Len(bank)
      BY <1>a, <3>1
    <3>3. bank[conn[p]][t] # Absent /\ bank[Len(bank)][t] = Absent
      BY <1>a, <1>b DEF old
    <3> QED BY <1>a, <1>c, <3>2, <3>3, Constants DEF Real
  <2>4. \A t \in DOMAIN new : Real(bank, t, new[t])
    BY <1>c, <2>2, <2>3
  <2>5. \A q \in Syncer : \A t \in DOMAIN batch'[q] : Real(bank, t, batch'[q][t])
    BY <2>1, <2>4 DEF IInv, AllReal
  <2> QED BY <1>d, <2>5 DEF IInv, AllReal, disk
<1>3. OfOpenAccounts'
  BY DEF IInv, OfOpenAccounts, get_transaction_updates, disk, local
<1>4. Alone'
  BY DEF IInv, Types, Alone, get_transaction_updates, disk, local
<1>5. Knows'
  BY DEF IInv, Types, Alone, Knows, States, Before, get_transaction_updates, disk, local
<1>6. Complete'
  <2> SUFFICES ASSUME ~disturbed'
      PROVE  /\ \A q \in Syncer : pc'[q] # "transactions"
             /\ \A t \in Tx : Agrees(stored[t], bank[cursor][t])
             /\ \A q \in Syncer : pc'[q] \in {"accounts", "transactions"} => q = p
             /\ \A t \in Tx : Agrees(IF t \in DOMAIN new THEN new[t] ELSE stored[t], bank[Len(bank)][t])
    BY <1>a, <1>d DEF IInv, Types, Complete, Outcome, disk
  <2>1. \A q \in Syncer : pc[q] # "idle" => q = p
    BY <1>d DEF IInv, Alone
  <2>2. \A q \in Syncer : pc'[q] \in {"accounts", "transactions"} => q = p
    BY <1>d, <2>1 DEF IInv, Types
  <2>3. \A q \in Syncer : pc[q] # "transactions" /\ pc'[q] # "transactions"
    BY <1>d, <2>1 DEF IInv, Types
  <2>4. \A t \in Tx : Agrees(stored[t], bank[cursor][t])
    BY <1>d, <2>3 DEF IInv, Complete
  <2>5. conn[p] = cursor /\ listed[p] = open /\ loaded[p] = stored
    BY <1>d DEF IInv, Knows, Before
  <2>6. ASSUME NEW t \in Tx
        PROVE  Agrees(IF t \in DOMAIN new THEN new[t] ELSE stored[t], Now[t])
    <3>1. CASE t \in upserts
      BY <1>b, <1>c, <3>1 DEF Agrees
    <3>2. CASE t \in cancels
      BY <1>b, <1>c, <3>2 DEF Agrees
    <3>3. CASE t \notin upserts \cup cancels
      <4>1. Agrees(stored[t], old[t])
        BY <2>4, <2>5 DEF old
      <4>2. Now[t] # Absent => AccountOf[t] \in Resolved(p)
        BY <1>a, <2>5 DEF IInv, OfOpenAccounts, Resolved
      <4>3. Now[t] # Absent => Now[t] = old[t]
        BY <3>3, <4>2 DEF upserts, Upserted
      <4>4. Now[t] = Absent => old[t] = Absent \/ stored[t] = Absent
        BY <2>5, <3>3 DEF cancels, Removed
      <4>5. Agrees(stored[t], Now[t])
        BY <4>1, <4>3, <4>4 DEF Agrees
      <4> QED BY <1>c, <3>3, <4>5
    <3> QED BY <3>1, <3>2, <3>3
  <2> QED BY <1>a, <2>2, <2>3, <2>4, <2>6
<1> QED BY <1>1, <1>2, <1>3, <1>4, <1>5, <1>6 DEF IInv

\* It does without.
LEMMA UpdatesFailStep ==
  ASSUME IInv, NEW p \in Syncer, UpdatesFail(p)
  PROVE  IInv'
<1>1. Types'
  BY NoBatch, Constants DEF IInv, Types, States, Before, UpdatesFail, disk, local
<1>2. AllReal'
  BY DEF IInv, Types, AllReal, UpdatesFail, disk, local
<1>3. OfOpenAccounts'
  BY DEF IInv, OfOpenAccounts, UpdatesFail, disk, local
<1>4. Alone'
  BY DEF IInv, Types, Alone, UpdatesFail, disk, local
<1>5. Knows'
  BY DEF IInv, Types, Alone, Knows, States, Before, UpdatesFail, disk, local
<1>6. Complete'
  <2>1. ~disturbed => \A q \in Syncer : pc[q] # "idle" => q = p
    BY DEF IInv, Alone, UpdatesFail
  <2>2. ~disturbed => /\ \A q \in Syncer : pc[q] # "transactions"
                      /\ \A t \in Tx : Agrees(stored[t], bank[cursor][t])
                      /\ conn[p] = cursor
    BY <2>1 DEF IInv, Complete, Knows, UpdatesFail, Before
  <2>3. pc[p] = "updates" /\ pc' = [pc EXCEPT ![p] = "accounts"] /\ UNCHANGED <<bank, disk, conn, batch, lines, disturbed>>
    BY DEF UpdatesFail
  <2>4. \A q \in Syncer : pc'[q] # "idle" /\ ~disturbed => q = p
    BY <2>1, <2>3 DEF IInv, Types
  <2>5. \A t \in Tx : Outcome(p, t)' = stored[t]
    BY <2>3 DEF IInv, Types, Before, Outcome, disk
  <2>6. pc'[p] = "accounts"
    BY <2>3 DEF IInv, Types
  <2> QED BY <2>2, <2>3, <2>4, <2>5, <2>6 DEF Complete, disk
<1> QED BY <1>1, <1>2, <1>3, <1>4, <1>5, <1>6 DEF IInv

\* It saves an account.
LEMMA SaveAccountStep ==
  ASSUME IInv, NEW p \in Syncer, NEW a \in Account, SaveAccount(p,a)
  PROVE  IInv'
<1>1. Types'
  BY NoBatch, Constants DEF IInv, Types, States, Before, SaveAccount, disk, local
<1>2. AllReal'
  BY DEF IInv, Types, AllReal, SaveAccount, disk, local
<1>3. OfOpenAccounts'
  BY DEF IInv, OfOpenAccounts, SaveAccount, disk, local
<1>4. Alone'
  BY DEF IInv, Types, Alone, SaveAccount, disk, local
<1>5. Knows'
  BY DEF IInv, Types, Alone, Knows, States, Before, SaveAccount, disk, local
<1>6. Complete'
  BY DEF IInv, Types, Alone, Complete, Outcome, States, SaveAccount, disk, local
<1> QED BY <1>1, <1>2, <1>3, <1>4, <1>5, <1>6 DEF IInv

\* It saves its cursor.
LEMMA SaveConnectionStep ==
  ASSUME IInv, NEW p \in Syncer, SaveConnection(p)
  PROVE  IInv'
<1>1. Types'
  BY NoBatch, Constants DEF IInv, Types, States, Before, SaveConnection, disk, local
<1>2. AllReal'
  BY DEF IInv, Types, AllReal, SaveConnection, disk, local
<1>3. OfOpenAccounts'
  BY DEF IInv, OfOpenAccounts, SaveConnection, disk, local
<1>4. Alone'
  BY DEF IInv, Types, Alone, SaveConnection, disk, local
<1>5. Knows'
  BY DEF IInv, Types, Alone, Knows, States, Before, SaveConnection, disk, local
<1>6. Complete'
  <2>1. ~disturbed => \A q \in Syncer : pc[q] # "idle" => q = p
    BY DEF IInv, Alone, SaveConnection
  <2>3. /\ pc[p] = "accounts" /\ pc' = [pc EXCEPT ![p] = "transactions"] /\ cursor' = conn[p]
        /\ todo' = [todo EXCEPT ![p] = {AccountOf[t] : t \in DOMAIN batch[p]}]
        /\ UNCHANGED <<bank, stored, conn, batch, lines, disturbed>>
    BY DEF SaveConnection
  <2>4. \A q \in Syncer : pc'[q] # "idle" /\ ~disturbed => q = p
    BY <2>1, <2>3 DEF IInv, Types
  <2>5. pc'[p] = "transactions" /\ \A t \in DOMAIN batch[p] : AccountOf[t] \in todo'[p]
    BY <2>3 DEF IInv, Types
  <2>6. ~disturbed => \A t \in Tx : Agrees(Outcome(p, t), bank[conn[p]][t])
    BY <2>3 DEF IInv, Complete
  <2>7. \A t \in Tx : Outcome(p, t)' = Outcome(p, t)
    BY <2>3 DEF Outcome
  <2> QED BY <2>3, <2>4, <2>5, <2>6, <2>7 DEF Complete
<1> QED BY <1>1, <1>2, <1>3, <1>4, <1>5, <1>6 DEF IInv

\* It takes up the lines of an account.
LEMMA CompareStep ==
  ASSUME IInv, NEW p \in Syncer, NEW a \in Account, Compare(p,a)
  PROVE  IInv'
<1>1. Types'
  BY NoBatch, Constants DEF IInv, Types, States, Before, Compare, disk, local
<1>2. AllReal'
  BY DEF IInv, Types, AllReal, Compare, disk, local
<1>3. OfOpenAccounts'
  BY DEF IInv, OfOpenAccounts, Compare, disk, local
<1>4. Alone'
  BY DEF IInv, Types, Alone, Compare, disk, local
<1>5. Knows'
  BY DEF IInv, Types, Alone, Knows, States, Before, Compare, disk, local
<1>6. Complete'
  BY DEF IInv, Types, Alone, Complete, Outcome, States, Compare, disk, local
<1> QED BY <1>1, <1>2, <1>3, <1>4, <1>5, <1>6 DEF IInv

\* It appends a line.
LEMMA AppendLineStep ==
  ASSUME IInv, NEW p \in Syncer, NEW t \in Tx, AppendLine(p,t)
  PROVE  IInv'
<1>1. Types'
  BY NoBatch, Constants DEF IInv, Types, States, Before, AppendLine, disk, local
<1>2. AllReal'
  BY DEF IInv, Types, AllReal, AppendLine, disk, local
<1>3. OfOpenAccounts'
  BY DEF IInv, OfOpenAccounts, AppendLine, disk, local
<1>4. Alone'
  BY DEF IInv, Types, Alone, AppendLine, disk, local
<1>5. Knows'
  BY DEF IInv, Types, Alone, Knows, States, Before, AppendLine, disk, local
<1>6. Complete'
  <2>1. ~disturbed => \A q \in Syncer : pc[q] # "idle" => q = p
    BY DEF IInv, Alone, AppendLine
  <2>3. /\ pc[p] = "transactions" /\ t \in lines[p] /\ stored' = [stored EXCEPT ![t] = batch[p][t]]
        /\ lines' = [lines EXCEPT ![p] = @ \ {t}]
        /\ UNCHANGED <<bank, cursor, pc, conn, batch, todo, disturbed>>
    BY DEF AppendLine
  <2>4. t \in DOMAIN batch[p] /\ lines'[p] = lines[p] \ {t}
    BY <2>3 DEF IInv, Types
  <2>5. \A s \in Tx : stored'[s] = IF s = t THEN batch[p][t] ELSE stored[s]
    BY <2>3 DEF IInv, Types
  <2>6. \A s \in Tx : Outcome(p, s)' = Outcome(p, s)
    BY <2>3, <2>4, <2>5 DEF Outcome
  <2>7. DOMAIN batch[p] \subseteq Tx
    BY DEF IInv, Types
  <2>8. ~disturbed =>
           /\ \A s \in Tx : Agrees(Outcome(p, s), bank[conn[p]][s])
           /\ cursor = conn[p]
           /\ \A s \in DOMAIN batch[p] : AccountOf[s] \in todo[p] \/ s \in lines[p] \/ stored[s] = batch[p][s]
    BY <2>3 DEF IInv, Complete
  <2>9. ~disturbed => \A s \in DOMAIN batch[p] : AccountOf[s] \in todo[p] \/ s \in lines'[p] \/ stored'[s] = batch[p][s]
    BY <2>4, <2>5, <2>7, <2>8
  <2> QED BY <2>1, <2>3, <2>6, <2>8, <2>9 DEF Complete
<1> QED BY <1>1, <1>2, <1>3, <1>4, <1>5, <1>6 DEF IInv

\* It ends: what it had in hand is stored.
LEMMA FinishStep ==
  ASSUME IInv, NEW p \in Syncer, Finish(p)
  PROVE  IInv'
<1>1. Types'
  <2>1. DOMAIN batch' = Syncer /\ \A q \in Syncer : batch'[q] = IF q = p THEN <<>> ELSE batch[q]
    BY DEF IInv, Types, Finish, End
  <2>2. \A q \in Syncer : DOMAIN batch'[q] = IF q = p THEN {} ELSE DOMAIN batch[q]
    BY <2>1, NoBatch
  <2>3. /\ \A q \in Syncer : DOMAIN batch'[q] \subseteq Tx
        /\ \A q \in Syncer : \A t \in DOMAIN batch'[q] : batch'[q][t] \in Versions \ {Absent}
    BY <2>1, <2>2 DEF IInv, Types
  <2>4. /\ Nothing \in [Tx -> Versions] /\ 1 \in 1..Len(bank)
    BY Indices DEF Nothing, Versions, IInv, Types
  <2>5. /\ pc' = [pc EXCEPT ![p] = "idle"] /\ conn' = [conn EXCEPT ![p] = 1]
        /\ listed' = [listed EXCEPT ![p] = {}] /\ existing' = [existing EXCEPT ![p] = {}]
        /\ loaded' = [loaded EXCEPT ![p] = Nothing] /\ todo' = [todo EXCEPT ![p] = {}]
        /\ lines' = [lines EXCEPT ![p] = {}]
        /\ UNCHANGED <<bank, open, disk, opened, fails>>
    BY DEF Finish, End
  <2>6. crashes' \in 0..MaxCrash /\ disturbed' \in BOOLEAN
    BY Constants DEF IInv, Types, Finish
  <2>7. \A q \in Syncer : /\ pc'[q] = (IF q = p THEN "idle" ELSE pc[q])
                          /\ lines'[q] = IF q = p THEN {} ELSE lines[q]
    BY <2>5 DEF IInv, Types
  <2>8. \A q \in Syncer : /\ pc'[q] \in Before => DOMAIN batch'[q] = {}
                          /\ pc'[q] # "transactions" => lines'[q] = {}
                          /\ lines'[q] \subseteq DOMAIN batch'[q]
    BY <2>2, <2>7 DEF IInv, Types
  <2>9. /\ pc' \in [Syncer -> States] /\ conn' \in [Syncer -> 1..Len(bank)]
        /\ listed' \in [Syncer -> SUBSET Account] /\ existing' \in [Syncer -> SUBSET Account]
        /\ loaded' \in [Syncer -> [Tx -> Versions]] /\ todo' \in [Syncer -> SUBSET Account]
        /\ lines' \in [Syncer -> SUBSET Tx]
    BY <2>4, <2>5 DEF IInv, Types, States
  <2> QED BY <2>1, <2>3, <2>5, <2>6, <2>8, <2>9 DEF IInv, Types, disk
<1>2. AllReal'
  BY DEF IInv, Types, AllReal, Finish, End, disk, local
<1>3. OfOpenAccounts'
  BY DEF IInv, OfOpenAccounts, Finish, End, disk, local
<1>4. Alone'
  BY DEF IInv, Types, Alone, Finish, End, disk, local
<1>5. Knows'
  BY DEF IInv, Types, Alone, Knows, States, Before, Finish, End, disk, local
<1>6. Complete'
  <2>1. ~disturbed => \A q \in Syncer : pc[q] # "idle" => q = p
    BY DEF IInv, Alone, Finish
  <2>2. /\ pc[p] = "transactions" /\ todo[p] = {} /\ lines[p] = {} /\ pc' = [pc EXCEPT ![p] = "idle"]
        /\ UNCHANGED <<bank, cursor, stored, disturbed>>
    BY DEF Finish, End, disk
  <2>3. ~disturbed =>
           /\ \A t \in Tx : Agrees(Outcome(p, t), bank[conn[p]][t])
           /\ cursor = conn[p]
           /\ \A t \in DOMAIN batch[p] : stored[t] = batch[p][t]
    BY <2>2 DEF IInv, Complete
  <2>4. ~disturbed => \A t \in Tx : Agrees(stored[t], bank[cursor][t])
    BY <2>3 DEF Outcome
  <2>5. \A q \in Syncer : ~disturbed => pc'[q] = "idle"
    BY <2>1, <2>2 DEF IInv, Types
  <2> QED BY <2>2, <2>4, <2>5 DEF Complete
<1> QED BY <1>1, <1>2, <1>3, <1>4, <1>5, <1>6 DEF IInv

\* It fails half-way: harmless before its cursor was saved.
LEMMA CrashStep ==
  ASSUME IInv, NEW p \in Syncer, Crash(p)
  PROVE  IInv'
<1>1. Types'
  <2>1. DOMAIN batch' = Syncer /\ \A q \in Syncer : batch'[q] = IF q = p THEN <<>> ELSE batch[q]
    BY DEF IInv, Types, Crash, End
  <2>2. \A q \in Syncer : DOMAIN batch'[q] = IF q = p THEN {} ELSE DOMAIN batch[q]
    BY <2>1, NoBatch
  <2>3. /\ \A q \in Syncer : DOMAIN batch'[q] \subseteq Tx
        /\ \A q \in Syncer : \A t \in DOMAIN batch'[q] : batch'[q][t] \in Versions \ {Absent}
    BY <2>1, <2>2 DEF IInv, Types
  <2>4. /\ Nothing \in [Tx -> Versions] /\ 1 \in 1..Len(bank)
    BY Indices DEF Nothing, Versions, IInv, Types
  <2>5. /\ pc' = [pc EXCEPT ![p] = "idle"] /\ conn' = [conn EXCEPT ![p] = 1]
        /\ listed' = [listed EXCEPT ![p] = {}] /\ existing' = [existing EXCEPT ![p] = {}]
        /\ loaded' = [loaded EXCEPT ![p] = Nothing] /\ todo' = [todo EXCEPT ![p] = {}]
        /\ lines' = [lines EXCEPT ![p] = {}]
        /\ UNCHANGED <<bank, open, disk, opened, fails>>
    BY DEF Crash, End
  <2>6. crashes' \in 0..MaxCrash /\ disturbed' \in BOOLEAN
    BY Constants DEF IInv, Types, Crash
  <2>7. \A q \in Syncer : /\ pc'[q] = (IF q = p THEN "idle" ELSE pc[q])
                          /\ lines'[q] = IF q = p THEN {} ELSE lines[q]
    BY <2>5 DEF IInv, Types
  <2>8. \A q \in Syncer : /\ pc'[q] \in Before => DOMAIN batch'[q] = {}
                          /\ pc'[q] # "transactions" => lines'[q] = {}
                          /\ lines'[q] \subseteq DOMAIN batch'[q]
    BY <2>2, <2>7 DEF IInv, Types
  <2>9. /\ pc' \in [Syncer -> States] /\ conn' \in [Syncer -> 1..Len(bank)]
        /\ listed' \in [Syncer -> SUBSET Account] /\ existing' \in [Syncer -> SUBSET Account]
        /\ loaded' \in [Syncer -> [Tx -> Versions]] /\ todo' \in [Syncer -> SUBSET Account]
        /\ lines' \in [Syncer -> SUBSET Tx]
    BY <2>4, <2>5 DEF IInv, Types, States
  <2> QED BY <2>1, <2>3, <2>5, <2>6, <2>8, <2>9 DEF IInv, Types, disk
<1>2. AllReal'
  BY DEF IInv, Types, AllReal, Crash, End, disk, local
<1>3. OfOpenAccounts'
  BY DEF IInv, OfOpenAccounts, Crash, End, disk, local
<1>4. Alone'
  BY DEF IInv, Types, Alone, Crash, End, disk, local
<1>5. Knows'
  BY DEF IInv, Types, Alone, Knows, States, Before, Crash, End, disk, local
<1>6. Complete'
  BY DEF IInv, Types, Alone, Complete, Outcome, States, Crash, End, disk, local
<1> QED BY <1>1, <1>2, <1>3, <1>4, <1>5, <1>6 DEF IInv

\* A transaction changes; what was Plaid's once was so for ever.
LEMMA BankChangeStep ==
  ASSUME IInv, NEW t \in Tx, NEW v \in Version \cup {Absent}, BankChange(t,v)
  PROVE  IInv'
<1>a. /\ Now \in [Tx -> Version \cup {Absent}] /\ Len(bank) \in Nat /\ DOMAIN bank = 1..Len(bank)
      /\ bank \in Seq([Tx -> Version \cup {Absent}])
  BY Indices DEF IInv, Types
<1> DEFINE new == [Now EXCEPT ![t] = v]
<1>b. new \in [Tx -> Version \cup {Absent}]
  BY <1>a
<1>c. bank' = Append(bank, new) /\ AccountOf[t] \in open
  BY DEF BankChange
<1> HIDE DEF new
<1>d. /\ bank' \in Seq([Tx -> Version \cup {Absent}]) /\ Len(bank') = Len(bank) + 1
      /\ \A i \in 1..Len(bank) : bank'[i] = bank[i]
      /\ bank'[Len(bank) + 1] = new
  BY <1>a, <1>b, <1>c, AppendProperties
<1>e. DOMAIN bank' = 1..(Len(bank) + 1)
  BY <1>d
<1>f. UNCHANGED <<open, disk, local, opened, fails, crashes, disturbed>>
  BY DEF BankChange
<1>1. Types'
  <2>1. 1..Len(bank) \subseteq 1..Len(bank') /\ Len(bank') >= 1
    BY <1>a, <1>d
  <2>2. cursor \in 1..Len(bank') /\ conn \in [Syncer -> 1..Len(bank')]
    BY <2>1 DEF IInv, Types
  <2> QED BY <1>d, <1>f, <2>1, <2>2 DEF IInv, Types, disk, local
<1>2. AllReal'
  <2>1. ASSUME NEW s \in Tx, NEW x, Real(bank, s, x) PROVE Real(bank', s, x)
    BY <1>a, <1>d, <1>e, <2>1 DEF Real
  <2>2. \A s \in Tx : Real(bank', s, stored[s])
    BY <2>1 DEF IInv, AllReal
  <2>3. \A q \in Syncer : \A s \in DOMAIN batch[q] : s \in Tx /\ Real(bank, s, batch[q][s])
    BY DEF IInv, Types, AllReal
  <2>4. \A q \in Syncer : \A s \in DOMAIN batch[q] : Real(bank', s, batch[q][s])
    BY <2>1, <2>3
  <2> QED BY <1>f, <2>2, <2>4 DEF AllReal, disk, local
<1>3. OfOpenAccounts'
  <2>1. ASSUME NEW i \in 1..Len(bank), NEW s \in Tx, bank[i][s] # Absent
        PROVE  AccountOf[s] \in open
    BY <1>a, <2>1 DEF IInv, OfOpenAccounts
  <2>2. Len(bank) \in 1..Len(bank) /\ Now = bank[Len(bank)]
    BY Indices DEF IInv, Now
  <2>3. ASSUME NEW s \in Tx, new[s] # Absent PROVE AccountOf[s] \in open
    <3>1. CASE s = t
      BY <1>c, <3>1
    <3>2. CASE s # t
      <4>1. new[s] = Now[s]
        BY <1>a, <3>2 DEF new
      <4> QED BY <2>1, <2>2, <2>3, <4>1
    <3> QED BY <3>1, <3>2
  <2>4. \A i \in 1..(Len(bank) + 1) : i \in 1..Len(bank) \/ i = Len(bank) + 1
    BY <1>a
  <2>5. ASSUME NEW i \in DOMAIN bank', NEW s \in Tx, bank'[i][s] # Absent
        PROVE  AccountOf[s] \in open
    BY <1>d, <1>e, <2>1, <2>3, <2>4, <2>5
  <2> QED BY <1>f, <2>5 DEF OfOpenAccounts
<1>4. Alone'
  BY DEF IInv, Types, Alone, BankChange, disk, local
<1>5. Knows'
  BY DEF IInv, Types, Alone, Knows, States, Before, BankChange, disk, local
<1>6. Complete'
  BY DEF IInv, Types, Alone, Complete, Outcome, States, BankChange, disk, local
<1> QED BY <1>1, <1>2, <1>3, <1>4, <1>5, <1>6 DEF IInv

\* An account opens.
LEMMA OpenAccountStep ==
  ASSUME IInv, NEW a \in Account, OpenAccount(a)
  PROVE  IInv'
<1>1. Types'
  BY NoBatch, Constants DEF IInv, Types, States, Before, OpenAccount, disk, local
<1>2. AllReal'
  BY DEF IInv, Types, AllReal, OpenAccount, disk, local
<1>3. OfOpenAccounts'
  BY DEF IInv, OfOpenAccounts, OpenAccount, disk, local
<1>4. Alone'
  BY DEF IInv, Types, Alone, OpenAccount, disk, local
<1>5. Knows'
  BY DEF IInv, Types, Alone, Knows, States, Before, OpenAccount, disk, local
<1>6. Complete'
  BY DEF IInv, Types, Alone, Complete, Outcome, States, OpenAccount, disk, local
<1> QED BY <1>1, <1>2, <1>3, <1>4, <1>5, <1>6 DEF IInv

\* Every step keeps the invariant.
LEMMA NextIInv == IInv /\ [Next]_vars => IInv'
<1> SUFFICES ASSUME IInv, [Next]_vars PROVE IInv'
  OBVIOUS
<1>1. ASSUME NEW p \in Syncer, SyncStep(p) PROVE IInv'
  BY <1>1, LoadStep, GetBalancesStep, ListAccountsStep, LoadExistingPlaidTransactionsStep,
     GetTransactionUpdatesStep, UpdatesFailStep, SaveAccountStep, CompareStep,
     SaveConnectionStep, AppendLineStep, FinishStep
     DEF SyncStep
<1>2. ASSUME NEW p \in Syncer, Crash(p) PROVE IInv'
  BY <1>2, CrashStep
<1>3. ASSUME NEW t \in Tx, NEW v \in Version \cup {Absent}, BankChange(t, v) PROVE IInv'
  BY <1>3, BankChangeStep
<1>4. ASSUME NEW a \in Account, OpenAccount(a) PROVE IInv'
  BY <1>4, OpenAccountStep
<1>5. CASE UNCHANGED vars
  BY <1>5 DEF IInv, Types, AllReal, OfOpenAccounts, Alone, Knows, Complete, Outcome,
              vars, disk, local
<1> QED BY <1>1, <1>2, <1>3, <1>4, <1>5 DEF Next

\* So it always holds.
LEMMA Invariance == Spec => []IInv
<1>1. Init => IInv
  BY InitIInv
<1>2. IInv /\ [Next]_vars => IInv'
  BY NextIInv
<1> QED BY <1>1, <1>2, PTL DEF Spec

\* Type correctness, for any syncers, transactions and accounts, whatever fails.
THEOREM PlaidTypes == Spec => []TypeOK
<1>1. IInv => TypeOK
  BY DEF IInv, Types, TypeOK, States
<1> QED BY <1>1, Invariance, PTL

\* What is stored was Plaid's, whoever raced or crashed; and between syncs none of
\* which was disturbed it is what the cursor in connection.json stands for, so that
\* the next increment completes it.
THEOREM StoredIsPlaids == Spec => []StoredFollowsPlaid
<1>1. ASSUME IInv PROVE StoredWasReal
  BY <1>1 DEF IInv, AllReal, Real, StoredWasReal
<1>2. ASSUME IInv PROVE CursorMeansStored
  BY <1>2 DEF IInv, Complete, CursorMeansStored
<1>3. IInv => StoredFollowsPlaid
  BY <1>1, <1>2 DEF StoredFollowsPlaid
<1> QED BY <1>3, Invariance, PTL

(***************************************************************************)
(* Numbers and lists.                                                      *)
(***************************************************************************)
\* A set of natural numbers has a least element, ...
LEMMA LeastNumber ==
  ASSUME NEW T, T \subseteq Nat, T # {}
  PROVE  Min(T) \in T /\ \A k \in T : Min(T) <= k
<1> DEFINE R == {ss \in Nat \X Nat : ss[1] < ss[2]}
<1>1. IsWellFoundedOn(R, Nat)
  BY NatLessThanWellFounded DEF OpToRel
<1> HIDE DEF R
<1>2. PICK m \in T : \A k \in T : ~(<<k, m>> \in R)
  BY <1>1, WFMin
<1>3. ASSUME NEW k \in T PROVE m <= k
  <2>1. k \in Nat /\ m \in Nat /\ <<k, m>> \in Nat \X Nat
    OBVIOUS
  <2>2. ~(k < m)
    BY <1>2, <2>1 DEF R
  <2> QED BY <2>1, <2>2
<1> QED BY <1>3 DEF Min

\* ... and one of a sequence's places has a greatest.
LEMMA GreatestPlace ==
  ASSUME NEW n \in Nat, NEW I, I \subseteq 1 .. n, I # {}
  PROVE  Max(I) \in I /\ \A j \in I : j <= Max(I)
<1> DEFINE T == {n - i : i \in I}
<1>1. T \subseteq Nat /\ T # {}
  <2>1. \A i \in I : n - i \in Nat
    OBVIOUS
  <2> QED BY <2>1
<1>2. Min(T) \in T /\ \A k \in T : Min(T) <= k
  BY <1>1, LeastNumber
<1>3. PICK k \in I : Min(T) = n - k
  BY <1>2
<1>4. \A j \in I : n - k <= n - j
  BY <1>2, <1>3
<1>5. \A j \in I : k >= j
  BY <1>3, <1>4
<1>6. Max(I) \in I /\ \A j \in I : Max(I) >= j
  BY <1>5 DEF Max
<1> QED BY <1>6

\* Two lists one after the other.
LEMMA JoinedLists ==
  ASSUME NEW S, NEW s \in Seq(S), NEW t \in Seq(S)
  PROVE  /\ s \o t \in Seq(S) /\ Len(s \o t) = Len(s) + Len(t)
         /\ \A i \in 1 .. Len(s) + Len(t) : (s \o t)[i] = IF i <= Len(s) THEN s[i] ELSE t[i - Len(s)]
OBVIOUS

\* A part of a list.
LEMMA SubSeqIs ==
  ASSUME NEW S, NEW s \in Seq(S), NEW p \in Nat, NEW q \in Nat, 1 <= p, p <= q + 1, q <= Len(s)
  PROVE  /\ SubSeq(s, p, q) \in Seq(S) /\ Len(SubSeq(s, p, q)) = q + 1 - p
         /\ \A i \in 1 .. q + 1 - p : SubSeq(s, p, q)[i] = s[p + i - 1]
<1>1. \A i \in p .. q : s[i] \in S
  OBVIOUS
<1> QED BY <1>1, SubSeqProperties

Behind(place, i) == IF i < place THEN i ELSE i + 1

\* A list with one more in it.
LEMMA Inserted ==
  ASSUME NEW S, NEW s \in Seq(S), NEW p \in Nat, 1 <= p, p <= Len(s) + 1, NEW e \in S
  PROVE  /\ InsertAt(s, p, e) \in Seq(S) /\ Len(InsertAt(s, p, e)) = Len(s) + 1
         /\ InsertAt(s, p, e)[p] = e
         /\ \A i \in 1 .. Len(s) : InsertAt(s, p, e)[Behind(p, i)] = s[i]
<1> DEFINE x == SubSeq(s, 1, p - 1)
<1> DEFINE y == SubSeq(s, p, Len(s))
<1> DEFINE z == <<e>>
<1>1. /\ x \in Seq(S) /\ Len(x) = p - 1 /\ \A i \in 1 .. p - 1 : x[i] = s[i]
      /\ y \in Seq(S) /\ Len(y) = Len(s) + 1 - p /\ \A i \in 1 .. Len(s) + 1 - p : y[i] = s[p + i - 1]
  <2>1. p - 1 \in Nat /\ p <= p /\ p - 1 <= Len(s) /\ Len(s) \in Nat
    OBVIOUS
  <2>2. /\ x \in Seq(S) /\ Len(x) = p - 1 + 1 - 1 /\ \A i \in 1 .. p - 1 + 1 - 1 : x[i] = s[1 + i - 1]
    BY <2>1, SubSeqIs
  <2>3. /\ y \in Seq(S) /\ Len(y) = Len(s) + 1 - p /\ \A i \in 1 .. Len(s) + 1 - p : y[i] = s[p + i - 1]
    BY <2>1, SubSeqIs
  <2> HIDE DEF x, y
  <2> QED BY <2>1, <2>2, <2>3
<1>2. z \in Seq(S) /\ Len(z) = 1 /\ z[1] = e
  OBVIOUS
<1>3. InsertAt(s, p, e) = (x \o z) \o y
  BY DEF InsertAt
<1> HIDE DEF x, y, z
<1> DEFINE u == x \o z
<1>4. u \in Seq(S) /\ Len(u) = p /\ u[p] = e /\ \A i \in 1 .. p - 1 : u[i] = s[i]
  <2>1. u \in Seq(S) /\ Len(u) = Len(x) + Len(z)
        /\ \A i \in 1 .. Len(x) + Len(z) : u[i] = IF i <= Len(x) THEN x[i] ELSE z[i - Len(x)]
    BY <1>1, <1>2, JoinedLists
  <2> HIDE DEF u
  <2> QED BY <1>1, <1>2, <2>1
<1> DEFINE w == u \o y
<1>5. w \in Seq(S) /\ Len(w) = Len(u) + Len(y)
      /\ \A i \in 1 .. Len(u) + Len(y) : w[i] = IF i <= Len(u) THEN u[i] ELSE y[i - Len(u)]
  BY <1>1, <1>4, JoinedLists
<1>6. InsertAt(s, p, e) = w
  BY <1>3
<1> HIDE DEF w, u
<1>7. w[p] = e /\ Len(w) = Len(s) + 1
  BY <1>1, <1>4, <1>5
<1>8. ASSUME NEW i \in 1 .. Len(s) PROVE w[Behind(p, i)] = s[i]
  <2>1. CASE i < p
    BY <1>1, <1>4, <1>5, <2>1 DEF Behind
  <2>2. CASE i >= p
    <3>1. w[i + 1] = y[i + 1 - p] /\ i + 1 - p \in 1 .. Len(s) + 1 - p
      BY <1>1, <1>4, <1>5, <2>2
    <3>2. y[i + 1 - p] = s[p + (i + 1 - p) - 1] /\ p + (i + 1 - p) - 1 = i
      BY <1>1, <3>1
    <3> QED BY <2>2, <3>1, <3>2 DEF Behind
  <2> QED BY <2>1, <2>2
<1> QED BY <1>5, <1>6, <1>7, <1>8

\* The smaller of two numbers.
LEMMA MinOfTwo ==
  ASSUME NEW m \in Int, NEW n \in Int
  PROVE  Min({m, n}) = IF m <= n THEN m ELSE n
<1>1. \E x \in {m, n} : \A y \in {m, n} : x =< y
  OBVIOUS
<1>2. Min({m, n}) \in {m, n} /\ \A y \in {m, n} : Min({m, n}) =< y
  BY <1>1 DEF Min
<1> QED BY <1>2
(***************************************************************************)
(* Lines in order.                                                         *)
(***************************************************************************)
\* Which lines come before each of finitely many, none before itself.
Ranking(before) ==
    /\ IsFiniteSet(DOMAIN before)
    /\ \A i \in DOMAIN before : before[i] \subseteq DOMAIN before /\ i \notin before[i]
    /\ \A i, j \in DOMAIN before : i # j =>
           \/ i \in before[j] /\ before[i] \subseteq before[j]
           \/ j \in before[i] /\ before[j] \subseteq before[i]

\* What comes later has more before it.
LEMMA MoreBefore ==
  ASSUME NEW before, Ranking(before), NEW i \in DOMAIN before, NEW j \in DOMAIN before,
         i \in before[j], before[i] \subseteq before[j]
  PROVE  Cardinality(before[i]) < Cardinality(before[j])
<1>1. IsFiniteSet(before[i]) /\ IsFiniteSet(before[j])
  BY FS_Subset DEF Ranking
<1>2. before[i] \in SUBSET (before[j] \ {i})
  BY DEF Ranking
<1>3. IsFiniteSet(before[j] \ {i}) /\ Cardinality(before[j] \ {i}) = Cardinality(before[j]) - 1
  BY <1>1, FS_RemoveElement
<1>4. Cardinality(before[i]) <= Cardinality(before[j] \ {i})
  BY <1>2, <1>3, FS_Subset
<1>5. Cardinality(before[i]) \in Nat /\ Cardinality(before[j]) \in Nat
  BY <1>1, FS_CardinalityType
<1> QED BY <1>3, <1>4, <1>5

\* So each number is the rank of one.
LEMMA Ranks ==
  ASSUME NEW before, Ranking(before)
  PROVE  /\ Cardinality(DOMAIN before) \in Nat
         /\ \A i \in DOMAIN before : Cardinality(before[i]) + 1 \in 1 .. Cardinality(DOMAIN before)
         /\ \A i, j \in DOMAIN before : Cardinality(before[i]) = Cardinality(before[j]) => i = j
         /\ \A n \in 1 .. Cardinality(DOMAIN before) :
                \E i \in DOMAIN before : Cardinality(before[i]) = n - 1
<1> DEFINE S == DOMAIN before
<1> DEFINE N == Cardinality(S)
<1> DEFINE r == [i \in S |-> Cardinality(before[i]) + 1]
<1>1. IsFiniteSet(S) /\ N \in Nat
  BY FS_CardinalityType DEF Ranking
<1>2. ASSUME NEW i \in S PROVE Cardinality(before[i]) \in Nat /\ Cardinality(before[i]) + 1 \in 1 .. N
  <2>1. before[i] \in SUBSET (S \ {i})
    BY DEF Ranking
  <2>2. IsFiniteSet(S \ {i}) /\ Cardinality(S \ {i}) = N - 1
    BY <1>1, FS_RemoveElement
  <2>3. IsFiniteSet(before[i]) /\ Cardinality(before[i]) <= N - 1
    BY <2>1, <2>2, FS_Subset
  <2>4. Cardinality(before[i]) \in Nat
    BY <2>3, FS_CardinalityType
  <2> QED BY <1>1, <2>3, <2>4
<1>3. ASSUME NEW i \in S, NEW j \in S, i # j PROVE Cardinality(before[i]) # Cardinality(before[j])
  <2>1. \/ i \in before[j] /\ before[i] \subseteq before[j]
        \/ j \in before[i] /\ before[j] \subseteq before[i]
    BY <1>3 DEF Ranking
  <2>2. \/ Cardinality(before[i]) < Cardinality(before[j])
        \/ Cardinality(before[j]) < Cardinality(before[i])
    BY <2>1, MoreBefore
  <2> QED BY <1>2, <2>2
<1>4. r \in Injection(S, 1 .. N)
  <2>1. r \in [S -> 1 .. N]
    BY <1>2
  <2>2. \A i, j \in S : r[i] = r[j] => i = j
    BY <1>2, <1>3
  <2> HIDE DEF r
  <2> QED BY <2>1, <2>2 DEF Injection, IsInjective
<1>5. IsFiniteSet(1 .. N) /\ Cardinality(1 .. N) = N
  BY <1>1, FS_Interval
<1>6. r \in Surjection(S, 1 .. N)
  <2> HIDE DEF r, S
  <2> QED BY <1>4, <1>5, FS_Injection
<1>7. \A n \in 1 .. N : \E i \in S : r[i] = n
  <2> HIDE DEF r
  <2> QED BY <1>6 DEF Surjection
<1>8. ASSUME NEW n \in 1 .. N PROVE \E i \in S : Cardinality(before[i]) = n - 1
  <2>1. PICK i \in S : r[i] = n
    BY <1>7
  <2>2. Cardinality(before[i]) + 1 = n
    BY <2>1
  <2> QED BY <1>2, <2>2
<1> QED BY <1>1, <1>2, <1>3, <1>8

\* A sequence of what is at some places, each once; at[n] is where the n-th comes from.
Places(at, seq, all, places) ==
    LET N == Cardinality(places) IN
    /\ N \in Nat /\ DOMAIN seq = 1 .. N /\ seq = [n \in 1 .. N |-> seq[n]] /\ DOMAIN at = 1 .. N
    /\ \A n \in 1 .. N : at[n] \in places /\ seq[n] = all[at[n]]
    /\ \A m, n \in 1 .. N : at[m] = at[n] => m = n
    /\ \A i \in places : \E n \in 1 .. N : at[n] = i

\* The arranged lines are the lines, each once.
LEMMA ArrangedIs ==
  ASSUME NEW before, Ranking(before), NEW all
  PROVE  \E at : Places(at, Arranged(all, before), all, DOMAIN before)
<1> DEFINE S == DOMAIN before
<1> DEFINE N == Cardinality(S)
<1> DEFINE At(n) == CHOOSE i \in S : Cardinality(before[i]) = n - 1
<1> DEFINE at == [n \in 1 .. N |-> At(n)]
<1>1. /\ N \in Nat
      /\ \A i \in S : Cardinality(before[i]) + 1 \in 1 .. N
      /\ \A i, j \in S : Cardinality(before[i]) = Cardinality(before[j]) => i = j
      /\ \A n \in 1 .. N : \E i \in S : Cardinality(before[i]) = n - 1
  BY Ranks
<1>2. ASSUME NEW n \in 1 .. N PROVE At(n) \in S /\ Cardinality(before[At(n)]) = n - 1
  BY <1>1
<1>3. at \in [1 .. N -> S] /\ \A n \in 1 .. N : at[n] = At(n) /\ Cardinality(before[at[n]]) = n - 1
  BY <1>2
<1>4. Arranged(all, before) = [n \in 1 .. N |-> all[At(n)]]
  BY Zenon DEF Arranged
<1> HIDE DEF At, at
<1>5. \A n \in 1 .. N : Arranged(all, before)[n] = all[at[n]]
  BY <1>3, <1>4
<1>6. \A m, n \in 1 .. N : at[m] = at[n] => m = n
  BY <1>3
<1>7. ASSUME NEW i \in S PROVE \E n \in 1 .. N : at[n] = i
  <2>1. Cardinality(before[i]) + 1 \in 1 .. N /\ Cardinality(before[i]) \in Nat
    <3>1. IsFiniteSet(before[i])
      BY FS_Subset DEF Ranking
    <3> QED BY <1>1, <3>1, FS_CardinalityType
  <2>2. Cardinality(before[at[Cardinality(before[i]) + 1]]) = Cardinality(before[i])
    BY <1>3, <2>1
  <2>3. at[Cardinality(before[i]) + 1] \in S
    BY <1>3, <2>1
  <2> QED BY <1>1, <2>1, <2>2, <2>3
<1>8. DOMAIN at = 1 .. N
  BY <1>3
<1>9. DOMAIN Arranged(all, before) = 1 .. N
      /\ Arranged(all, before) = [n \in 1 .. N |-> Arranged(all, before)[n]]
  BY <1>4
<1>10. Places(at, Arranged(all, before), all, DOMAIN before)
  BY <1>1, <1>3, <1>5, <1>6, <1>7, <1>8, <1>9 DEF Places
<1> QED BY <1>10

\* Numbers before a number are before a greater one.
LEMMA NumbersBefore ==
  ASSUME NEW places, places \subseteq Nat, NEW i \in places, NEW j \in places, i < j
  PROVE  i \in {k \in places : k < j} /\ {k \in places : k < i} \subseteq {k \in places : k < j}
<1>1. i \in Nat /\ j \in Nat
  OBVIOUS
<1>2. ASSUME NEW k \in places, k < i PROVE k < j
  <2>1. k \in Nat
    OBVIOUS
  <2> QED BY <1>1, <1>2, <2>1
<1> QED BY <1>2

\* Places in order.
LEMMA PlacesRank ==
  ASSUME NEW places, places \subseteq Nat, IsFiniteSet(places)
  PROVE  Ranking([i \in places |-> {j \in places : j < i}])
<1> DEFINE b == [i \in places |-> {j \in places : j < i}]
<1>1. DOMAIN b = places /\ \A i \in places : b[i] = {j \in places : j < i}
  OBVIOUS
<1> HIDE DEF b
<1>2. Ranking(b)
  <2>0. IsFiniteSet(DOMAIN b)
    BY Zenon, <1>1
  <2>1. ASSUME NEW i \in DOMAIN b PROVE b[i] \subseteq DOMAIN b /\ i \notin b[i]
    <3>1. i \in places /\ i \in Nat /\ b[i] = {j \in places : j < i}
      BY <1>1
    <3> QED BY <1>1, <3>1
  <2>2. ASSUME NEW i \in DOMAIN b, NEW j \in DOMAIN b, i # j
        PROVE  (i \in b[j] /\ b[i] \subseteq b[j]) \/ (j \in b[i] /\ b[j] \subseteq b[i])
    <3>1. /\ i \in Nat /\ j \in Nat /\ i \in places /\ j \in places
          /\ b[i] = {k \in places : k < i} /\ b[j] = {k \in places : k < j} /\ \A k \in places : k \in Nat
      BY <1>1
    <3>2. CASE i < j
      <4>1. i \in b[j] /\ b[i] \subseteq b[j]
        BY <3>1, <3>2, NumbersBefore
      <4> QED BY <4>1
    <3>3. CASE j < i
      <4>1. j \in b[i] /\ b[j] \subseteq b[i]
        BY <3>1, <3>3, NumbersBefore
      <4> QED BY <4>1
    <3> QED BY <2>2, <3>1, <3>2, <3>3
  <2> QED BY <2>0, <2>1, <2>2 DEF Ranking
<1> QED BY <1>2 DEF b

\* The lines kept are those at the places, each once.
LEMMA KeptIs ==
  ASSUME NEW all, NEW n \in Nat, NEW places \in SUBSET (1 .. n)
  PROVE  \E at : Places(at, Kept(all, places), all, places)
<1> DEFINE b == [i \in places |-> {j \in places : j < i}]
<1>1. IsFiniteSet(places) /\ places \subseteq Nat
  <2>1. IsFiniteSet(1 .. n) /\ places \in SUBSET (1 .. n)
    BY FS_Interval
  <2>2. IsFiniteSet(places)
    BY <2>1, FS_Subset
  <2> QED BY <2>2
<1>2. Ranking(b)
  BY <1>1, PlacesRank
<1>3. DOMAIN b = places /\ Kept(all, places) = Arranged(all, b)
  BY Zenon DEF Kept
<1> HIDE DEF b
<1>4. \E at : Places(at, Arranged(all, b), all, DOMAIN b)
  BY <1>2, ArrangedIs
<1> QED BY <1>3, <1>4

\* So they are a sequence of these lines.
LEMMA PlacesSeq ==
  ASSUME NEW at, NEW seq, NEW all, NEW places, Places(at, seq, all, places)
  PROVE  /\ Len(seq) = Cardinality(places)
         /\ \A S : (\A i \in places : all[i] \in S) => seq \in Seq(S)
         /\ ToSet(seq) = {all[i] : i \in places}
<1> DEFINE N == Cardinality(places)
<1>1. /\ N \in Nat /\ DOMAIN seq = 1 .. N /\ seq = [n \in 1 .. N |-> seq[n]]
      /\ \A n \in 1 .. N : at[n] \in places /\ seq[n] = all[at[n]]
      /\ \A i \in places : \E n \in 1 .. N : at[n] = i
  BY DEF Places
<1> HIDE DEF N
<1>2. ASSUME NEW S, \A i \in places : all[i] \in S PROVE seq \in Seq(S)
  <2>1. \A n \in 1 .. N : seq[n] \in S
    BY <1>1, <1>2
  <2> QED BY <1>1, <2>1
<1>3. ToSet(seq) = {all[i] : i \in places}
  <2>1. ASSUME NEW i \in places PROVE \E n \in DOMAIN seq : seq[n] = all[i]
    BY <1>1
  <2> QED BY <1>1, <2>1 DEF ToSet
<1>4. Len(seq) = N
  <2>1. seq \in Seq({all[i] : i \in places})
    BY <1>2
  <2> QED BY <1>1, <2>1
<1> QED BY <1>2, <1>3, <1>4 DEF N

(***************************************************************************)
(* Folds.                                                                  *)
(***************************************************************************)
\* The greatest of some numbers.
LEMMA GreatestIs ==
  ASSUME NEW n \in Nat, NEW s \in SUBSET (1 .. n), NEW k \in s, \A j \in s : j <= k
  PROVE  Max(s) = k
<1>1. Max(s) \in s /\ \A j \in s : j <= Max(s)
  BY GreatestPlace
<1>2. \A j \in s : j \in Nat
  OBVIOUS
<1>3. Max(s) \in Nat /\ k \in Nat /\ Max(s) <= k /\ k <= Max(s)
  BY <1>1, <1>2
<1> QED BY <1>3

\* What is folded of each part of the places up to n.
Folds(F, base, A, n, g) ==
    /\ g \in [SUBSET (1 .. n) -> A]
    /\ \A s \in SUBSET (1 .. n) : g[s] = IF s = {} THEN base ELSE F[<<g[s \ {Max(s)}], Max(s)>>]

\* There is such a fold of one place more.
LEMMA FoldsGoOn ==
  ASSUME NEW A, NEW base \in A, NEW n \in Nat, NEW F \in [A \X (1 .. n + 1) -> A], NEW g, Folds(F, base, A, n, g)
  PROVE  \E h : Folds(F, base, A, n + 1, h)
<1> DEFINE h == [s \in SUBSET (1 .. n + 1) |-> IF n + 1 \in s THEN F[<<g[s \ {n + 1}], n + 1>>] ELSE g[s]]
<1>1. g \in [SUBSET (1 .. n) -> A]
      /\ \A s \in SUBSET (1 .. n) : g[s] = IF s = {} THEN base ELSE F[<<g[s \ {Max(s)}], Max(s)>>]
  BY DEF Folds
<1>2. \A s \in SUBSET (1 .. n + 1) : s \ {n + 1} \in SUBSET (1 .. n)
  OBVIOUS
<1>3. \A s \in SUBSET (1 .. n + 1) : n + 1 \notin s => s \in SUBSET (1 .. n)
  OBVIOUS
<1>4. h \in [SUBSET (1 .. n + 1) -> A]
  <2>1. ASSUME NEW s \in SUBSET (1 .. n + 1)
        PROVE  (IF n + 1 \in s THEN F[<<g[s \ {n + 1}], n + 1>>] ELSE g[s]) \in A
    <3>1. CASE n + 1 \in s
      <4>1. g[s \ {n + 1}] \in A
        BY <1>1, <1>2
      <4>2. <<g[s \ {n + 1}], n + 1>> \in A \X (1 .. n + 1)
        BY <4>1
      <4> QED BY <3>1, <4>2
    <3>2. CASE n + 1 \notin s
      BY <1>1, <1>3, <3>2
    <3> QED BY <3>1, <3>2
  <2> QED BY <2>1
<1>5. \A s \in SUBSET (1 .. n) : h[s] = g[s]
  <2>1. ASSUME NEW s \in SUBSET (1 .. n) PROVE h[s] = g[s]
    <3>1. s \in SUBSET (1 .. n + 1) /\ n + 1 \notin s
      OBVIOUS
    <3> QED BY <3>1
  <2> QED BY <2>1
<1>6. \A s \in SUBSET (1 .. n + 1) : n + 1 \in s => h[s] = F[<<g[s \ {n + 1}], n + 1>>]
  OBVIOUS
<1> HIDE DEF h
<1>7. ASSUME NEW s \in SUBSET (1 .. n + 1)
      PROVE  h[s] = IF s = {} THEN base ELSE F[<<h[s \ {Max(s)}], Max(s)>>]
  <2>1. CASE n + 1 \in s
    <3>1. Max(s) = n + 1
      <4>1. n + 1 \in Nat /\ \A j \in s : j <= n + 1
        OBVIOUS
      <4> QED BY <2>1, <4>1, GreatestIs
    <3>2. h[s \ {n + 1}] = g[s \ {n + 1}]
      BY <1>2, <1>5
    <3> QED BY <1>6, <2>1, <3>1, <3>2
  <2>2. CASE n + 1 \notin s /\ s # {}
    <3>1. s \in SUBSET (1 .. n) /\ s \ {Max(s)} \in SUBSET (1 .. n)
      BY <1>3, <2>2
    <3>2. h[s] = g[s] /\ h[s \ {Max(s)}] = g[s \ {Max(s)}]
      BY <1>5, <3>1
    <3> QED BY <1>1, <2>2, <3>1, <3>2
  <2>3. CASE s = {}
    <3>1. {} \in SUBSET (1 .. n)
      OBVIOUS
    <3> QED BY <1>1, <1>5, <2>3, <3>1
  <2> QED BY <2>1, <2>2, <2>3
<1>8. Folds(F, base, A, n + 1, h)
  BY <1>4, <1>7 DEF Folds
<1> QED BY <1>8

\* So there is one of all of them.
LEMMA FoldsExist ==
  ASSUME NEW A, NEW base \in A, NEW n \in Nat, NEW F \in [A \X (1 .. n) -> A]
  PROVE  \E g : Folds(F, base, A, n, g)
<1> DEFINE Bad == {k \in 0 .. n : ~ \E g : Folds(F, base, A, k, g)}
<1>1. ASSUME Bad # {} PROVE FALSE
  <2>1. PICK k \in Bad : \A j \in Bad : k <= j
    <3>1. Bad \subseteq Nat
      OBVIOUS
    <3> HIDE DEF Bad
    <3> QED BY <1>1, <3>1, LeastNumber
  <2>2. CASE k = 0
    <3> DEFINE g == [s \in SUBSET (1 .. 0) |-> base]
    <3>1. \A s \in SUBSET (1 .. 0) : s = {}
      OBVIOUS
    <3>2. g \in [SUBSET (1 .. 0) -> A] /\ \A s \in SUBSET (1 .. 0) : g[s] = base
      OBVIOUS
    <3> HIDE DEF g
    <3>3. Folds(F, base, A, 0, g)
      BY <3>1, <3>2 DEF Folds
    <3> QED BY <2>1, <2>2, <3>3
  <2>3. CASE k # 0
    <3>1. k - 1 \in Nat /\ k - 1 \in 0 .. n /\ ~(k <= k - 1) /\ k - 1 + 1 = k /\ k \in Nat
      BY <2>1, <2>3
    <3>2. PICK g : Folds(F, base, A, k - 1, g)
      BY <2>1, <3>1
    <3> DEFINE G == [p \in A \X (1 .. k) |-> F[p]]
    <3>3. G \in [A \X (1 .. k) -> A]
      <4>1. \A p \in A \X (1 .. k) : p \in A \X (1 .. n)
        BY <2>1
      <4> QED BY <4>1
    <3>4. \A a \in A, j \in 1 .. k : G[<<a, j>>] = F[<<a, j>>]
      OBVIOUS
    <3> HIDE DEF G
    <3>5. ASSUME NEW m \in 0 .. k, NEW h PROVE Folds(F, base, A, m, h) <=> Folds(G, base, A, m, h)
      <4>1. ASSUME NEW s \in SUBSET (1 .. m), s # {}, h \in [SUBSET (1 .. m) -> A]
            PROVE  G[<<h[s \ {Max(s)}], Max(s)>>] = F[<<h[s \ {Max(s)}], Max(s)>>]
        <5>1. m \in Nat /\ m <= k
          BY <3>1
        <5>2. Max(s) \in s
          BY <4>1, <5>1, GreatestPlace
        <5>3. Max(s) \in 1 .. k /\ s \ {Max(s)} \in SUBSET (1 .. m)
          <6>1. \A j \in 1 .. m : j \in 1 .. k
            BY <3>1, <5>1
          <6>2. Max(s) \in 1 .. m
            BY <5>2
          <6> QED BY <6>1, <6>2
        <5>4. h[s \ {Max(s)}] \in A
          BY <4>1, <5>3
        <5> QED BY <3>4, <5>3, <5>4
      <4> QED BY <4>1 DEF Folds
    <3>6. Folds(G, base, A, k - 1, g)
      BY <3>1, <3>2, <3>5
    <3>7. \E h : Folds(G, base, A, k - 1 + 1, h)
      <4>1. G \in [A \X (1 .. k - 1 + 1) -> A]
        BY <3>1, <3>3
      <4> QED BY <3>1, <3>6, <4>1, FoldsGoOn
    <3>8. PICK h : Folds(G, base, A, k, h)
      BY <3>1, <3>7
    <3>9. Folds(F, base, A, k, h)
      BY <3>1, <3>5, <3>8
    <3> QED BY <2>1, <3>9
  <2> QED BY <2>2, <2>3
<1>2. n \in 0 .. n
  OBVIOUS
<1> QED BY <1>1, <1>2

\* Without the last, what is before it is left.
LEMMA BeforeLast ==
  ASSUME NEW n \in Nat, NEW k \in 1 .. n
  PROVE  /\ (1 .. k) \in SUBSET (1 .. n) /\ (1 .. k) # {} /\ Max(1 .. k) = k
         /\ (1 .. k) \ {Max(1 .. k)} = 1 .. k - 1
<1>1. (1 .. k) \in SUBSET (1 .. n) /\ k \in 1 .. k /\ \A j \in 1 .. k : j <= k
  OBVIOUS
<1>2. Max(1 .. k) = k
  BY <1>1, GreatestIs
<1>3. (1 .. k) \ {k} = 1 .. k - 1
  OBVIOUS
<1> QED BY <1>1, <1>2, <1>3

(***************************************************************************)
(* The one pass over the log.                                              *)
(***************************************************************************)
Keys(all) == UNION {transaction_dedupe_keys(all[i]) : i \in DOMAIN all}
\* What the pass may have in hand.
Accs(X, K) == [places : Seq(X), index : UNION {[D -> Nat] : D \in SUBSET K}]

\* A line placed.
LEMMA PlaceTypes ==
  ASSUME NEW X, Gone \in X, NEW K, NEW acc \in Accs(X, K), NEW line \in X, transaction_dedupe_keys(line) \subseteq K
  PROVE  Place(acc, line) \in Accs(X, K)
<1> DEFINE keys == transaction_dedupe_keys(line)
<1> DEFINE matched == {acc.index[k] : k \in keys \cap DOMAIN acc.index}
<1> DEFINE target == IF matched = {} THEN Len(acc.places) + 1 ELSE Min(matched)
<1> DEFINE before == IF matched = {} THEN Append(acc.places, line) ELSE acc.places
<1> DEFINE places == [i \in DOMAIN before |-> IF i = target THEN line ELSE IF i \in matched THEN Gone ELSE before[i]]
<1> DEFINE index == [k \in DOMAIN acc.index \cup keys |->
                         IF k \in keys \/ acc.index[k] \in matched THEN target ELSE acc.index[k]]
<1>1. Place(acc, line) = [places |-> places, index |-> index]
  BY DEF Place
<1>2. acc.places \in Seq(X) /\ DOMAIN acc.index \in SUBSET K /\ \A k \in DOMAIN acc.index : acc.index[k] \in Nat
  BY DEF Accs
<1>3. target \in Nat
  <2>1. Len(acc.places) + 1 \in Nat
    BY <1>2
  <2>2. matched \subseteq Nat
    <3> HIDE DEF keys
    <3> QED BY <1>2
  <2> HIDE DEF matched
  <2>3. matched # {} => Min(matched) \in matched
    BY <2>2, LeastNumber
  <2> QED BY <2>1, <2>2, <2>3
<1>4. before \in Seq(X)
  <2> HIDE DEF matched
  <2> QED BY <1>2
<1>5. places \in Seq(X)
  <2> HIDE DEF matched, target, before
  <2>1. DOMAIN before = 1 .. Len(before) /\ Len(before) \in Nat /\ \A i \in DOMAIN before : before[i] \in X
    BY <1>4
  <2>2. \A i \in DOMAIN before : places[i] \in X
    BY <2>1
  <2>3. places = [i \in 1 .. Len(before) |-> places[i]]
    BY <2>1
  <2> HIDE DEF places
  <2> QED BY <2>1, <2>2, <2>3
<1>6. index \in UNION {[D -> Nat] : D \in SUBSET K}
  <2> DEFINE D == DOMAIN acc.index \cup keys
  <2>1. D \in SUBSET K
    BY <1>2
  <2>2. index \in [D -> Nat]
    <3>1. ASSUME NEW k \in D
          PROVE  (IF k \in keys \/ acc.index[k] \in matched THEN target ELSE acc.index[k]) \in Nat
      <4> HIDE DEF matched, target, keys
      <4> QED BY <1>2, <1>3
    <3> HIDE DEF matched, target, keys
    <3> QED BY <3>1
  <2> HIDE DEF index, D
  <2> QED BY <2>1, <2>2
<1> HIDE DEF places, index
<1> QED BY <1>1, <1>5, <1>6 DEF Accs

\* The pass, line by line.
Passes(P, all) ==
    /\ P[0] = Empty
    /\ \A k \in 1 .. Len(all) : P[k] = Place(P[k - 1], all[k])
    /\ FoldLeft(Place, Empty, all) = P[Len(all)]

\* Lines are no places given up, and have keys.
Lined(all) == /\ all \in Seq(ToSet(all)) /\ \A i \in DOMAIN all : all[i] # Gone

\* There is one, and it is what FoldLeft says.
LEMMA PassExists ==
  ASSUME NEW all, Lined(all)
  PROVE  \E P : Passes(P, all)
<1> DEFINE n == Len(all)
<1> DEFINE X == ToSet(all) \cup {Gone}
<1> DEFINE A == Accs(X, Keys(all))
<1> DEFINE F == [p \in A \X (1 .. n) |-> Place(p[1], all[p[2]])]
<1> DEFINE Eq(g) == g = [s \in SUBSET (DOMAIN all) |-> IF s = {} THEN Empty
                                                      ELSE Place(g[s \ {Max(s)}], all[Max(s)])]
<1> DEFINE f == CHOOSE g : Eq(g)
<1>1. n \in Nat /\ DOMAIN all = 1 .. n /\ \A i \in 1 .. n : all[i] \in X /\ transaction_dedupe_keys(all[i]) \subseteq Keys(all)
  BY DEF Lined, Keys, ToSet
<1>2. Empty \in A
  <2>1. <<>> \in Seq(X)
    OBVIOUS
  <2>2. <<>> \in UNION {[D -> Nat] : D \in SUBSET Keys(all)}
    <3>1. {} \in SUBSET Keys(all) /\ <<>> \in [{} -> Nat]
      OBVIOUS
    <3> QED BY <3>1
  <2> QED BY <2>1, <2>2 DEF Empty, Accs
<1>3. \A a \in A, i \in 1 .. n : Place(a, all[i]) \in A
  <2>1. ASSUME NEW a \in A, NEW i \in 1 .. n PROVE Place(a, all[i]) \in A
    <3>1. Gone \in X /\ all[i] \in X /\ transaction_dedupe_keys(all[i]) \subseteq Keys(all)
      BY <1>1
    <3> HIDE DEF X
    <3> QED BY <3>1, PlaceTypes
  <2> QED BY <2>1
<1> HIDE DEF A
<1>4. F \in [A \X (1 .. n) -> A] /\ \A a \in A, i \in 1 .. n : F[<<a, i>>] = Place(a, all[i])
  BY <1>3
<1> HIDE DEF F, n
<1>5. PICK g : Folds(F, Empty, A, n, g)
  BY <1>1, <1>2, <1>4, FoldsExist
<1>6. g \in [SUBSET (1 .. n) -> A]
      /\ \A s \in SUBSET (1 .. n) : g[s] = IF s = {} THEN Empty ELSE F[<<g[s \ {Max(s)}], Max(s)>>]
  BY <1>5 DEF Folds
<1>7. ASSUME NEW s \in SUBSET (1 .. n), s # {} PROVE g[s] = Place(g[s \ {Max(s)}], all[Max(s)])
  <2>1. Max(s) \in s
    BY <1>1, <1>7, GreatestPlace
  <2>2. Max(s) \in 1 .. n /\ s \ {Max(s)} \in SUBSET (1 .. n)
    BY <2>1
  <2>3. g[s \ {Max(s)}] \in A
    BY <1>6, <2>2
  <2> QED BY <1>4, <1>6, <1>7, <2>2, <2>3
<1>8. Eq(g)
  <2> DEFINE h == [s \in SUBSET (DOMAIN all) |-> IF s = {} THEN Empty ELSE Place(g[s \ {Max(s)}], all[Max(s)])]
  <2>1. \A s \in SUBSET (1 .. n) : h[s] = IF s = {} THEN Empty ELSE Place(g[s \ {Max(s)}], all[Max(s)])
    BY <1>1
  <2>2. h = [s \in SUBSET (1 .. n) |-> h[s]] /\ g = [s \in SUBSET (1 .. n) |-> g[s]]
    BY <1>1, <1>6
  <2>3. \A s \in SUBSET (1 .. n) : g[s] = IF s = {} THEN Empty ELSE Place(g[s \ {Max(s)}], all[Max(s)])
    BY <1>6, <1>7
  <2>4. g = h
    <3> HIDE DEF h
    <3>1. \A s \in SUBSET (1 .. n) : g[s] = h[s]
      BY <2>1, <2>3
    <3> QED BY <2>2, <3>1
  <2> QED BY <2>4
<1>9. Eq(f)
  <2> HIDE DEF Eq
  <2> QED BY <1>8
<1>10. FoldLeft(Place, Empty, all) = f[DOMAIN all]
  BY Zenon DEF FoldLeft, MapThenFoldSet
<1> DEFINE P == [k \in 0 .. n |-> f[1 .. k]]
<1>11. \A s \in SUBSET (1 .. n) : f[s] = IF s = {} THEN Empty ELSE Place(f[s \ {Max(s)}], all[Max(s)])
  <2> HIDE DEF f
  <2>1. \A s \in SUBSET (DOMAIN all) : f[s] = IF s = {} THEN Empty ELSE Place(f[s \ {Max(s)}], all[Max(s)])
    BY <1>9, Zenon
  <2> QED BY <1>1, <2>1
<1> HIDE DEF f
<1>12. P[0] = Empty
  <2>1. P[0] = f[1 .. 0]
    BY <1>1
  <2>2. (1 .. 0) = {} /\ (1 .. 0) \in SUBSET (1 .. n)
    OBVIOUS
  <2> HIDE DEF P
  <2> QED BY <1>11, <2>1, <2>2
<1>13. ASSUME NEW k \in 1 .. n PROVE P[k] = Place(P[k - 1], all[k])
  <2>1. P[k] = f[1 .. k] /\ P[k - 1] = f[1 .. k - 1]
    BY <1>1
  <2>2. /\ (1 .. k) \in SUBSET (1 .. n) /\ (1 .. k) # {} /\ Max(1 .. k) = k
        /\ (1 .. k) \ {Max(1 .. k)} = 1 .. k - 1
    BY <1>1, BeforeLast
  <2> HIDE DEF P
  <2>3. f[1 .. k] = Place(f[(1 .. k) \ {Max(1 .. k)}], all[Max(1 .. k)])
    BY <1>11, <2>2
  <2> QED BY <2>1, <2>2, <2>3
<1>14. P[n] = f[DOMAIN all]
  BY <1>1
<1> HIDE DEF P
<1>15. Passes(P, all)
  BY <1>10, <1>12, <1>13, <1>14 DEF Passes, n
<1> QED BY <1>15

\* The place a line went to.
At(acc, all, i) == acc.index[all[i].id]
LineKeys(all, i) == transaction_dedupe_keys(all[i])
\* Lines among the first k that share a key with one of some are of them too.
ClosedUpto(all, k, S) ==
    \A i \in S, j \in 1 .. k : LineKeys(all, i) \cap LineKeys(all, j) # {} => j \in S
\* A chain of shared keys leads from one line to another.
Linked(all, k, i, j) == \A S \in SUBSET (1 .. k) : i \in S /\ ClosedUpto(all, k, S) => j \in S

PassTypes(acc, all, k) ==
    /\ \E X : acc.places \in Seq(X)
    /\ DOMAIN acc.index = UNION {LineKeys(all, i) : i \in 1 .. k}
    /\ \A x \in DOMAIN acc.index : acc.index[x] \in DOMAIN acc.places
\* All keys of a line lead to one place; the last line that went there is there.
PassIndex(acc, all, k) ==
    \A i \in 1 .. k : \A x \in LineKeys(all, i) : x \in DOMAIN acc.index /\ acc.index[x] = At(acc, all, i)
PassLast(acc, all, k) ==
    \A i \in 1 .. k : \E j \in 1 .. k :
        /\ At(acc, all, j) = At(acc, all, i) /\ acc.places[At(acc, all, i)] = all[j]
        /\ \A m \in 1 .. k : At(acc, all, m) = At(acc, all, i) => m <= j
PassGone(acc, all, k) ==
    \A p \in DOMAIN acc.places : acc.places[p] # Gone => \E i \in 1 .. k : At(acc, all, i) = p
PassLinked(acc, all, k) ==
    \A i, j \in 1 .. k : At(acc, all, i) = At(acc, all, j) => Linked(all, k, i, j)
PassInv(acc, all, k) ==
    PassTypes(acc, all, k) /\ PassIndex(acc, all, k) /\ PassLast(acc, all, k) /\ PassGone(acc, all, k)
    /\ PassLinked(acc, all, k)

\* Nothing has been placed.
LEMMA PassStarts == ASSUME NEW all PROVE PassInv(Empty, all, 0)
<1>1. Empty.places = <<>> /\ Empty.index = <<>>
  BY DEF Empty
<1>2. (1 .. 0) = {} /\ DOMAIN <<>> = {} /\ <<>> \in Seq({})
  OBVIOUS
<1>3. PassTypes(Empty, all, 0)
  <2>1. UNION {LineKeys(all, i) : i \in 1 .. 0} = {}
    BY <1>2
  <2>2. DOMAIN Empty.index = {} /\ Empty.places \in Seq({})
    BY <1>1, <1>2
  <2> QED BY <2>1, <2>2 DEF PassTypes
<1>4. PassIndex(Empty, all, 0) /\ PassLast(Empty, all, 0) /\ PassLinked(Empty, all, 0)
  BY <1>2 DEF PassIndex, PassLast, PassLinked
<1>5. PassGone(Empty, all, 0)
  BY <1>1, <1>2 DEF PassGone
<1> QED BY <1>3, <1>4, <1>5 DEF PassInv

\* Where the k-th line goes, what is given up for it, and what stays.
Goes(acc, new, all, k, matched, target) ==
    /\ matched = {acc.index[x] : x \in LineKeys(all, k) \cap DOMAIN acc.index}
    /\ matched \subseteq DOMAIN acc.places
    /\ IF matched = {} THEN target \notin DOMAIN acc.places ELSE target \in matched
    /\ \E X : new.places \in Seq(X)
    /\ DOMAIN new.places = DOMAIN acc.places \cup {target}
    /\ \A p \in DOMAIN new.places :
           new.places[p] = IF p = target THEN all[k] ELSE IF p \in matched THEN Gone ELSE acc.places[p]
    /\ DOMAIN new.index = DOMAIN acc.index \cup LineKeys(all, k)
    /\ \A x \in DOMAIN new.index :
           new.index[x] = IF x \in LineKeys(all, k) \/ acc.index[x] \in matched THEN target ELSE acc.index[x]

\* So it goes.
LEMMA PlaceGoes ==
  ASSUME NEW all, NEW k \in Nat, k # 0, NEW acc, PassTypes(acc, all, k - 1)
  PROVE  \E matched, target : Goes(acc, Place(acc, all[k]), all, k, matched, target)
<1> DEFINE line == all[k]
<1> DEFINE keys == LineKeys(all, k)
<1> DEFINE matched == {acc.index[x] : x \in keys \cap DOMAIN acc.index}
<1> DEFINE target == IF matched = {} THEN Len(acc.places) + 1 ELSE Min(matched)
<1> DEFINE before == IF matched = {} THEN Append(acc.places, line) ELSE acc.places
<1> DEFINE places == [i \in DOMAIN before |-> IF i = target THEN line ELSE IF i \in matched THEN Gone ELSE before[i]]
<1> DEFINE index == [x \in DOMAIN acc.index \cup keys |->
                         IF x \in keys \/ acc.index[x] \in matched THEN target ELSE acc.index[x]]
<1> DEFINE new == Place(acc, all[k])
<1>1. new = [places |-> places, index |-> index]
  BY Zenon DEF Place, LineKeys
<1>2. PICK X : acc.places \in Seq(X)
  BY DEF PassTypes
<1>3. \A x \in DOMAIN acc.index : acc.index[x] \in DOMAIN acc.places
  BY DEF PassTypes
<1>4. DOMAIN acc.places = 1 .. Len(acc.places) /\ Len(acc.places) \in Nat
  BY <1>2
<1>5. matched \subseteq DOMAIN acc.places
  <2> HIDE DEF keys
  <2> QED BY <1>3
<1> HIDE DEF keys
<1>6. matched # {} => Min(matched) \in matched
  <2> HIDE DEF matched
  <2>1. matched \subseteq Nat
    BY <1>4, <1>5
  <2> QED BY <2>1, LeastNumber
<1>7. new.places = places /\ new.index = index
  <2> HIDE DEF places, index, new
  <2> QED BY <1>1
<1>8. DOMAIN index = DOMAIN acc.index \cup keys
      /\ \A x \in DOMAIN index : index[x] = IF x \in keys \/ acc.index[x] \in matched THEN target ELSE acc.index[x]
  OBVIOUS
<1>9. DOMAIN places = DOMAIN before
      /\ \A p \in DOMAIN before : places[p] = IF p = target THEN line ELSE IF p \in matched THEN Gone ELSE before[p]
  OBVIOUS
<1>10. places = [p \in DOMAIN before |-> places[p]]
  OBVIOUS
<1> HIDE DEF places, index, new
<1>11. DOMAIN before = DOMAIN acc.places \cup {target} /\ (\A p \in DOMAIN acc.places : before[p] = acc.places[p])
       /\ DOMAIN before = 1 .. Len(before) /\ Len(before) \in Nat
       /\ IF matched = {} THEN target \notin DOMAIN acc.places ELSE target \in matched
  <2>1. CASE matched = {}
    <3> HIDE DEF matched
    <3>1. target = Len(acc.places) + 1 /\ before = Append(acc.places, line)
      BY <2>1
    <3>2. acc.places \in Seq(X \cup {line})
      BY <1>2
    <3>3. /\ Append(acc.places, line) \in Seq(X \cup {line}) /\ Len(Append(acc.places, line)) = Len(acc.places) + 1
          /\ \A p \in 1 .. Len(acc.places) : Append(acc.places, line)[p] = acc.places[p]
      BY <3>2
    <3>4. DOMAIN before = 1 .. Len(acc.places) + 1 /\ Len(before) = Len(acc.places) + 1
      BY <3>1, <3>3
    <3> HIDE DEF before, target
    <3> QED BY <1>4, <2>1, <3>1, <3>3, <3>4
  <2>2. CASE matched # {}
    <3> HIDE DEF matched
    <3>1. target = Min(matched) /\ before = acc.places
      BY <2>2
    <3> HIDE DEF before, target
    <3> QED BY <1>4, <1>5, <1>6, <2>2, <3>1
  <2> QED BY <2>1, <2>2
<1> HIDE DEF before, target, matched
<1>12. \E Y : new.places \in Seq(Y)
  <2>1. new.places \in Seq({places[p] : p \in DOMAIN before})
    <3>1. \A p \in DOMAIN before : places[p] \in {places[q] : q \in DOMAIN before}
      OBVIOUS
    <3> QED BY <1>7, <1>10, <1>11, <3>1
  <2> QED BY <2>1
<1>13. \A p \in DOMAIN new.places :
           new.places[p] = IF p = target THEN all[k] ELSE IF p \in matched THEN Gone ELSE acc.places[p]
  BY <1>7, <1>9, <1>11
<1>14. Goes(acc, new, all, k, matched, target)
  BY <1>5, <1>7, <1>8, <1>9, <1>11, <1>12, <1>13 DEF Goes, keys, matched
<1> QED BY <1>14 DEF new

\* Where a line is found after the k-th.
Moved(acc, all, k, matched, target, i) ==
    IF i = k \/ At(acc, all, i) \in matched THEN target ELSE At(acc, all, i)

\* So all its keys lead there.
LEMMA KeysMove ==
  ASSUME NEW all, NEW k \in Nat, k # 0, NEW acc, PassIndex(acc, all, k - 1),
         NEW new, NEW matched, NEW target, Goes(acc, new, all, k, matched, target),
         NEW i \in 1 .. k, NEW x \in LineKeys(all, i)
  PROVE  x \in DOMAIN new.index /\ new.index[x] = Moved(acc, all, k, matched, target, i)
<1>1. CASE i = k
  BY <1>1 DEF Goes, Moved
<1>2. CASE i # k
  <2>1. i \in 1 .. k - 1
    BY <1>2
  <2>2. x \in DOMAIN acc.index /\ acc.index[x] = At(acc, all, i)
    BY <2>1 DEF PassIndex
  <2>3. x \in DOMAIN new.index
    BY <2>2 DEF Goes
  <2>4. x \in LineKeys(all, k) => At(acc, all, i) \in matched
    BY <2>2 DEF Goes
  <2>5. new.index[x] = IF x \in LineKeys(all, k) \/ acc.index[x] \in matched THEN target ELSE acc.index[x]
    BY <2>3 DEF Goes
  <2> QED BY <1>2, <2>2, <2>3, <2>4, <2>5 DEF Moved
<1> QED BY <1>1, <1>2

\* And the line is found there.
LEMMA LinesMove ==
  ASSUME NEW all, NEW k \in Nat, k # 0, NEW acc, PassIndex(acc, all, k - 1),
         NEW new, NEW matched, NEW target, Goes(acc, new, all, k, matched, target),
         NEW i \in 1 .. k
  PROVE  At(new, all, i) = Moved(acc, all, k, matched, target, i)
<1>1. all[i].id \in LineKeys(all, i)
  BY DEF LineKeys, transaction_dedupe_keys
<1> QED BY <1>1, KeysMove DEF At

\* A line that was found at a place given up shares a chain of keys with the k-th.
LEMMA ChainToNew ==
  ASSUME NEW all, NEW k \in Nat, k # 0, NEW acc, PassInv(acc, all, k - 1),
         NEW new, NEW matched, NEW target, Goes(acc, new, all, k, matched, target),
         NEW i \in 1 .. k, i = k \/ At(acc, all, i) \in matched,
         NEW S \in SUBSET (1 .. k), ClosedUpto(all, k, S)
  PROVE  i \in S <=> k \in S
<1>1. CASE i = k
  BY <1>1
<1>2. CASE i # k
  <2>1. i \in 1 .. k - 1
    BY <1>2
  <2>2. PICK x \in LineKeys(all, k) \cap DOMAIN acc.index : acc.index[x] = At(acc, all, i)
    BY <1>2 DEF Goes
  <2>3. PICK l \in 1 .. k - 1 : x \in LineKeys(all, l)
    BY <2>2 DEF PassInv, PassTypes
  <2>4. At(acc, all, l) = At(acc, all, i)
    BY <2>2, <2>3 DEF PassInv, PassIndex
  <2>5. Linked(all, k - 1, i, l) /\ Linked(all, k - 1, l, i)
    BY <2>1, <2>4 DEF PassInv, PassLinked
  <2> DEFINE R == S \cap (1 .. k - 1)
  <2>6. R \in SUBSET (1 .. k - 1) /\ ClosedUpto(all, k - 1, R)
    <3>1. \A a \in 1 .. k - 1 : a \in 1 .. k
      OBVIOUS
    <3> QED BY <3>1 DEF ClosedUpto
  <2>7. i \in R <=> l \in R
    <3> HIDE DEF R
    <3> QED BY <2>5, <2>6 DEF Linked
  <2>8. l \in 1 .. k /\ k \in 1 .. k /\ LineKeys(all, l) \cap LineKeys(all, k) # {}
    BY <2>2, <2>3
  <2>9. l \in S <=> k \in S
    BY <2>8 DEF ClosedUpto
  <2> QED BY <2>1, <2>3, <2>7, <2>9
<1> QED BY <1>1, <1>2

\* Lines that are found at one place are linked.
LEMMA MovedLinked ==
  ASSUME NEW all, NEW k \in Nat, k # 0, NEW acc, PassInv(acc, all, k - 1),
         NEW new, NEW matched, NEW target, Goes(acc, new, all, k, matched, target)
  PROVE  PassLinked(new, all, k)
<1> SUFFICES ASSUME NEW i \in 1 .. k, NEW j \in 1 .. k, At(new, all, i) = At(new, all, j),
                    NEW S \in SUBSET (1 .. k), i \in S, ClosedUpto(all, k, S)
             PROVE  j \in S
  BY DEF PassLinked, Linked
<1>1. PassIndex(acc, all, k - 1)
  BY DEF PassInv
<1>2. Moved(acc, all, k, matched, target, i) = Moved(acc, all, k, matched, target, j)
  BY <1>1, LinesMove
<1>3. \A m \in 1 .. k : m # k => m \in 1 .. k - 1 /\ At(acc, all, m) \in DOMAIN acc.places
  <2>1. ASSUME NEW m \in 1 .. k, m # k PROVE m \in 1 .. k - 1 /\ At(acc, all, m) \in DOMAIN acc.places
    <3>1. m \in 1 .. k - 1 /\ all[m].id \in LineKeys(all, m)
      BY <2>1 DEF LineKeys, transaction_dedupe_keys
    <3>2. all[m].id \in DOMAIN acc.index
      BY <1>1, <3>1 DEF PassIndex
    <3> QED BY <3>1, <3>2 DEF PassInv, PassTypes, At
  <2> QED BY <2>1
<1>4. \A m \in 1 .. k : m # k /\ At(acc, all, m) = target => At(acc, all, m) \in matched
  BY <1>3 DEF Goes
<1>5. CASE i = k \/ At(acc, all, i) \in matched
  <2>1. j = k \/ At(acc, all, j) \in matched
    BY <1>2, <1>4, <1>5 DEF Moved
  <2> QED BY <1>5, <2>1, ChainToNew
<1>6. CASE ~(i = k \/ At(acc, all, i) \in matched)
  <2>1. ~(j = k \/ At(acc, all, j) \in matched) /\ At(acc, all, j) = At(acc, all, i)
    BY <1>2, <1>4, <1>6 DEF Moved
  <2>2. i \in 1 .. k - 1 /\ j \in 1 .. k - 1
    BY <1>3, <1>6, <2>1
  <2>3. Linked(all, k - 1, i, j)
    BY <2>1, <2>2 DEF PassInv, PassLinked
  <2> DEFINE R == S \cap (1 .. k - 1)
  <2>4. R \in SUBSET (1 .. k - 1) /\ ClosedUpto(all, k - 1, R)
    <3>1. \A a \in 1 .. k - 1 : a \in 1 .. k
      OBVIOUS
    <3> QED BY <3>1 DEF ClosedUpto
  <2>5. j \in R
    <3>1. i \in R
      BY <2>2
    <3> HIDE DEF R
    <3> QED BY <2>3, <2>4, <3>1 DEF Linked
  <2> QED BY <2>5
<1> QED BY <1>5, <1>6

\* One more line is placed.
LEMMA PassKeeps ==
  ASSUME NEW all, NEW k \in Nat, k # 0, NEW acc, PassInv(acc, all, k - 1),
         NEW new, NEW matched, NEW target, Goes(acc, new, all, k, matched, target)
  PROVE  PassInv(new, all, k)
<1>1. PassTypes(acc, all, k - 1) /\ PassIndex(acc, all, k - 1) /\ PassLast(acc, all, k - 1) /\ PassGone(acc, all, k - 1)
  BY DEF PassInv
<1>2. \A i \in 1 .. k : At(new, all, i) = Moved(acc, all, k, matched, target, i)
  BY <1>1, LinesMove
<1>3. \A m \in 1 .. k : m # k => m \in 1 .. k - 1 /\ At(acc, all, m) \in DOMAIN acc.places
  <2>1. ASSUME NEW m \in 1 .. k, m # k PROVE m \in 1 .. k - 1 /\ At(acc, all, m) \in DOMAIN acc.places
    <3>1. m \in 1 .. k - 1 /\ all[m].id \in LineKeys(all, m)
      BY <2>1 DEF LineKeys, transaction_dedupe_keys
    <3>2. all[m].id \in DOMAIN acc.index
      BY <1>1, <3>1 DEF PassIndex
    <3> QED BY <1>1, <3>1, <3>2 DEF PassTypes, At
  <2> QED BY <2>1
<1>4. \A m \in 1 .. k : m # k /\ At(acc, all, m) = target => At(acc, all, m) \in matched
  BY <1>3 DEF Goes
<1>5. PassTypes(new, all, k)
  <2>1. DOMAIN new.index = UNION {LineKeys(all, i) : i \in 1 .. k}
    <3>1. DOMAIN new.index = DOMAIN acc.index \cup LineKeys(all, k)
      BY DEF Goes
    <3>2. DOMAIN acc.index = UNION {LineKeys(all, i) : i \in 1 .. k - 1}
      BY <1>1 DEF PassTypes
    <3>3. ASSUME NEW x PROVE x \in DOMAIN new.index <=> \E i \in 1 .. k : x \in LineKeys(all, i)
      <4>1. x \in DOMAIN acc.index <=> \E i \in 1 .. k - 1 : x \in LineKeys(all, i)
        BY <3>2
      <4>2. \A i : i \in 1 .. k <=> i \in 1 .. k - 1 \/ i = k
        OBVIOUS
      <4>3. x \in DOMAIN new.index <=> x \in DOMAIN acc.index \/ x \in LineKeys(all, k)
        BY <3>1
      <4> QED BY <4>1, <4>2, <4>3
    <3>4. ASSUME NEW x PROVE x \in UNION {LineKeys(all, i) : i \in 1 .. k} <=> \E i \in 1 .. k : x \in LineKeys(all, i)
      OBVIOUS
    <3> QED BY <3>3, <3>4
  <2>2. \A x \in DOMAIN new.index : new.index[x] \in DOMAIN new.places
    <3>1. ASSUME NEW x \in DOMAIN new.index PROVE new.index[x] \in DOMAIN new.places
      <4>1. x \notin LineKeys(all, k) => x \in DOMAIN acc.index
        BY DEF Goes
      <4>2. x \notin LineKeys(all, k) => acc.index[x] \in DOMAIN acc.places
        BY <1>1, <4>1 DEF PassTypes
      <4>3. new.index[x] = IF x \in LineKeys(all, k) \/ acc.index[x] \in matched THEN target ELSE acc.index[x]
        BY DEF Goes
      <4>4. DOMAIN new.places = DOMAIN acc.places \cup {target}
        BY DEF Goes
      <4> QED BY <4>2, <4>3, <4>4
    <3> QED BY <3>1
  <2>3. \E X : new.places \in Seq(X)
    BY DEF Goes
  <2> QED BY <2>1, <2>2, <2>3 DEF PassTypes
<1>6. PassIndex(new, all, k)
  <2> SUFFICES ASSUME NEW i \in 1 .. k, NEW x \in LineKeys(all, i)
               PROVE  x \in DOMAIN new.index /\ new.index[x] = At(new, all, i)
    BY DEF PassIndex
  <2> QED BY <1>1, <1>2, KeysMove
<1>7. PassLast(new, all, k)
  <2> SUFFICES ASSUME NEW i \in 1 .. k
               PROVE  \E j \in 1 .. k : /\ At(new, all, j) = At(new, all, i) /\ new.places[At(new, all, i)] = all[j]
                                        /\ \A m \in 1 .. k : At(new, all, m) = At(new, all, i) => m <= j
    BY DEF PassLast
  <2>1. k \in 1 .. k /\ \A m \in 1 .. k : m <= k
    OBVIOUS
  <2>2. CASE i = k \/ At(acc, all, i) \in matched
    <3>1. At(new, all, i) = target /\ At(new, all, k) = target
      BY <1>2, <2>1, <2>2 DEF Moved
    <3>2. new.places[target] = all[k]
      BY DEF Goes
    <3> QED BY <2>1, <3>1, <3>2
  <2>3. CASE ~(i = k \/ At(acc, all, i) \in matched)
    <3>1. i \in 1 .. k - 1 /\ At(acc, all, i) \in DOMAIN acc.places /\ At(acc, all, i) # target
      BY <1>3, <1>4, <2>3
    <3>2. PICK j \in 1 .. k - 1 : /\ At(acc, all, j) = At(acc, all, i) /\ acc.places[At(acc, all, i)] = all[j]
                                  /\ \A m \in 1 .. k - 1 : At(acc, all, m) = At(acc, all, i) => m <= j
      BY <1>1, <3>1 DEF PassLast
    <3>3. At(new, all, i) = At(acc, all, i)
      BY <1>2, <2>3 DEF Moved
    <3>4. j \in 1 .. k /\ j # k
      BY <3>2
    <3>5. At(new, all, j) = At(acc, all, j)
      BY <1>2, <2>3, <3>2, <3>4 DEF Moved
    <3>6. new.places[At(acc, all, i)] = acc.places[At(acc, all, i)]
      BY <2>3, <3>1 DEF Goes
    <3>7. ASSUME NEW m \in 1 .. k, At(new, all, m) = At(new, all, i) PROVE m <= j
      <4>1. m # k /\ At(acc, all, m) = At(acc, all, i)
        BY <1>2, <3>1, <3>3, <3>7 DEF Moved
      <4> QED BY <1>3, <3>2, <4>1
    <3> QED BY <3>2, <3>3, <3>4, <3>5, <3>6, <3>7
  <2> QED BY <2>2, <2>3
<1>8. PassGone(new, all, k)
  <2> SUFFICES ASSUME NEW p \in DOMAIN new.places, new.places[p] # Gone
               PROVE  \E i \in 1 .. k : At(new, all, i) = p
    BY DEF PassGone
  <2>1. CASE p = target
    <3>1. At(new, all, k) = target /\ k \in 1 .. k
      BY <1>2 DEF Moved
    <3> QED BY <2>1, <3>1
  <2>2. CASE p # target
    <3>1. p \in DOMAIN acc.places /\ p \notin matched /\ acc.places[p] # Gone
      BY <2>2 DEF Goes
    <3>2. PICK i \in 1 .. k - 1 : At(acc, all, i) = p
      BY <1>1, <3>1 DEF PassGone
    <3>3. i \in 1 .. k /\ i # k
      OBVIOUS
    <3>4. At(new, all, i) = p
      BY <1>2, <3>1, <3>2, <3>3 DEF Moved
    <3> QED BY <3>3, <3>4
  <2> QED BY <2>1, <2>2
<1>9. PassLinked(new, all, k)
  BY MovedLinked
<1> QED BY <1>5, <1>6, <1>7, <1>8, <1>9 DEF PassInv

\* So the pass keeps to this.
LEMMA PassHolds ==
  ASSUME NEW all, Lined(all), NEW P, Passes(P, all)
  PROVE  PassInv(P[Len(all)], all, Len(all))
<1> DEFINE n == Len(all)
<1> DEFINE Bad == {k \in 0 .. n : ~PassInv(P[k], all, k)}
<1>1. n \in Nat
  BY DEF Lined
<1>2. ASSUME Bad # {} PROVE FALSE
  <2>1. PICK k \in Bad : \A j \in Bad : k <= j
    <3>1. Bad \subseteq Nat
      OBVIOUS
    <3> HIDE DEF Bad
    <3> QED BY <1>2, <3>1, LeastNumber
  <2>2. k # 0
    BY <2>1, PassStarts DEF Passes
  <2>3. k \in Nat /\ k - 1 \in 0 .. n /\ k \in 1 .. n /\ ~(k <= k - 1)
    BY <1>1, <2>1, <2>2
  <2>4. PassInv(P[k - 1], all, k - 1)
    BY <2>1, <2>3
  <2>5. PassTypes(P[k - 1], all, k - 1)
    BY <2>4 DEF PassInv
  <2>6. PICK matched, target : Goes(P[k - 1], Place(P[k - 1], all[k]), all, k, matched, target)
    BY <2>2, <2>3, <2>5, PlaceGoes
  <2>7. P[k] = Place(P[k - 1], all[k])
    BY <2>3 DEF Passes
  <2>8. PassInv(P[k], all, k)
    BY <2>2, <2>3, <2>4, <2>6, <2>7, PassKeeps
  <2> QED BY <2>1, <2>8
<1>3. n \in 0 .. n
  BY <1>1
<1> QED BY <1>2, <1>3

(***************************************************************************)
(* The chains of shared keys, and what readers make of a log.              *)
(***************************************************************************)
\* The chains from a line, key by key.
Chains(Q, all, i) ==
    /\ Q[0] = {i}
    /\ \A k \in 1 .. Len(all) : Q[k] = Sharing(all, Q[k - 1])
    /\ SameAs(all, i) = Q[Len(all)]

\* They are what FoldLeft says.
LEMMA ChainsExist ==
  ASSUME NEW all, Lined(all), NEW i \in DOMAIN all
  PROVE  \E Q : Chains(Q, all, i)
<1> DEFINE n == Len(all)
<1> DEFINE A == SUBSET (1 .. n)
<1> DEFINE F == [p \in A \X (1 .. n) |-> Sharing(all, p[1])]
<1> DEFINE Eq(g) == g = [s \in SUBSET (DOMAIN all) |-> IF s = {} THEN {i} ELSE Sharing(all, g[s \ {Max(s)}])]
<1> DEFINE f == CHOOSE g : Eq(g)
<1>1. n \in Nat /\ DOMAIN all = 1 .. n
  BY DEF Lined
<1>2. {i} \in A
  BY <1>1
<1>3. \A a \in A : Sharing(all, a) \in A
  BY <1>1 DEF Sharing
<1> HIDE DEF A
<1>4. F \in [A \X (1 .. n) -> A] /\ \A a \in A, k \in 1 .. n : F[<<a, k>>] = Sharing(all, a)
  BY <1>3
<1> HIDE DEF F, n
<1>5. PICK g : Folds(F, {i}, A, n, g)
  BY <1>1, <1>2, <1>4, FoldsExist
<1>6. g \in [SUBSET (1 .. n) -> A]
      /\ \A s \in SUBSET (1 .. n) : g[s] = IF s = {} THEN {i} ELSE F[<<g[s \ {Max(s)}], Max(s)>>]
  BY <1>5 DEF Folds
<1>7. ASSUME NEW s \in SUBSET (1 .. n), s # {} PROVE g[s] = Sharing(all, g[s \ {Max(s)}])
  <2>1. Max(s) \in s
    BY <1>1, <1>7, GreatestPlace
  <2>2. Max(s) \in 1 .. n /\ s \ {Max(s)} \in SUBSET (1 .. n)
    BY <2>1
  <2>3. g[s \ {Max(s)}] \in A
    BY <1>6, <2>2
  <2> QED BY <1>4, <1>6, <1>7, <2>2, <2>3
<1>8. Eq(g)
  <2> DEFINE h == [s \in SUBSET (DOMAIN all) |-> IF s = {} THEN {i} ELSE Sharing(all, g[s \ {Max(s)}])]
  <2>1. \A s \in SUBSET (1 .. n) : h[s] = IF s = {} THEN {i} ELSE Sharing(all, g[s \ {Max(s)}])
    BY <1>1
  <2>2. h = [s \in SUBSET (1 .. n) |-> h[s]] /\ g = [s \in SUBSET (1 .. n) |-> g[s]]
    BY <1>1, <1>6
  <2>3. \A s \in SUBSET (1 .. n) : g[s] = IF s = {} THEN {i} ELSE Sharing(all, g[s \ {Max(s)}])
    BY <1>6, <1>7
  <2>4. g = h
    <3> HIDE DEF h
    <3>1. \A s \in SUBSET (1 .. n) : g[s] = h[s]
      BY <2>1, <2>3
    <3> QED BY <2>2, <3>1
  <2> QED BY <2>4
<1>9. Eq(f)
  <2> HIDE DEF Eq
  <2> QED BY <1>8
<1>10. SameAs(all, i) = f[DOMAIN all]
  BY Zenon DEF SameAs, FoldLeft, MapThenFoldSet
<1> DEFINE Q == [k \in 0 .. n |-> f[1 .. k]]
<1>11. \A s \in SUBSET (1 .. n) : f[s] = IF s = {} THEN {i} ELSE Sharing(all, f[s \ {Max(s)}])
  <2> HIDE DEF f
  <2>1. \A s \in SUBSET (DOMAIN all) : f[s] = IF s = {} THEN {i} ELSE Sharing(all, f[s \ {Max(s)}])
    BY <1>9, Zenon
  <2> QED BY <1>1, <2>1
<1> HIDE DEF f
<1>12. Q[0] = {i}
  <2>1. Q[0] = f[1 .. 0]
    BY <1>1
  <2>2. (1 .. 0) = {} /\ (1 .. 0) \in SUBSET (1 .. n)
    OBVIOUS
  <2> HIDE DEF Q
  <2> QED BY <1>11, <2>1, <2>2
<1>13. ASSUME NEW k \in 1 .. n PROVE Q[k] = Sharing(all, Q[k - 1])
  <2>1. Q[k] = f[1 .. k] /\ Q[k - 1] = f[1 .. k - 1]
    BY <1>1
  <2>2. /\ (1 .. k) \in SUBSET (1 .. n) /\ (1 .. k) # {} /\ Max(1 .. k) = k
        /\ (1 .. k) \ {Max(1 .. k)} = 1 .. k - 1
    BY <1>1, BeforeLast
  <2> HIDE DEF Q
  <2>3. f[1 .. k] = Sharing(all, f[(1 .. k) \ {Max(1 .. k)}])
    BY <1>11, <2>2
  <2> QED BY <2>1, <2>2, <2>3
<1>14. Q[n] = f[DOMAIN all]
  BY <1>1
<1> HIDE DEF Q
<1>15. Chains(Q, all, i)
  BY <1>10, <1>12, <1>13, <1>14 DEF Chains, n
<1> QED BY <1>15

\* Lines share keys with themselves.
LEMMA SharingGrows ==
  ASSUME NEW all, NEW S \in SUBSET (DOMAIN all)
  PROVE  S \subseteq Sharing(all, S) /\ Sharing(all, S) \subseteq DOMAIN all
<1>1. ASSUME NEW j \in S PROVE j \in Sharing(all, S)
  <2>1. all[j].id \in transaction_dedupe_keys(all[j])
    BY DEF transaction_dedupe_keys
  <2> QED BY <2>1 DEF Sharing
<1>2. Sharing(all, S) \subseteq DOMAIN all
  BY DEF Sharing
<1> QED BY <1>1, <1>2

\* After k steps the chains are complete, or have more than k lines.
ChainsGrow(Q, all, i, k) ==
    /\ i \in Q[k] /\ Q[k] \in SUBSET (DOMAIN all)
    /\ Sharing(all, Q[k]) = Q[k] \/ Cardinality(Q[k]) >= k + 1

\* So after as many steps as there are lines they are complete.
LEMMA ChainsComplete ==
  ASSUME NEW all, Lined(all), NEW i \in DOMAIN all, NEW Q, Chains(Q, all, i)
  PROVE  /\ i \in SameAs(all, i) /\ SameAs(all, i) \in SUBSET (DOMAIN all)
         /\ Sharing(all, SameAs(all, i)) = SameAs(all, i)
<1> DEFINE n == Len(all)
<1> DEFINE Bad == {k \in 0 .. n : ~ChainsGrow(Q, all, i, k)}
<1>1. n \in Nat /\ DOMAIN all = 1 .. n
  BY DEF Lined
<1>2. Q[0] = {i} /\ (\A k \in 1 .. n : Q[k] = Sharing(all, Q[k - 1])) /\ SameAs(all, i) = Q[n]
  BY DEF Chains
<1> HIDE DEF n
<1>3. \A S \in SUBSET (1 .. n) : IsFiniteSet(S) /\ Cardinality(S) \in Nat /\ Cardinality(S) <= n
  <2>1. IsFiniteSet(1 .. n) /\ Cardinality(1 .. n) = n
    BY <1>1, FS_Interval
  <2> QED BY <2>1, FS_Subset, FS_CardinalityType
<1>4. ChainsGrow(Q, all, i, 0)
  <2>1. Cardinality({i}) = 1
    BY FS_Singleton
  <2> QED BY <1>1, <1>2, <2>1 DEF ChainsGrow
<1>5. ASSUME NEW k \in 1 .. n, ChainsGrow(Q, all, i, k - 1) PROVE ChainsGrow(Q, all, i, k)
  <2>1. i \in Q[k - 1] /\ Q[k - 1] \in SUBSET (DOMAIN all) /\ Q[k] = Sharing(all, Q[k - 1])
    BY <1>2, <1>5 DEF ChainsGrow
  <2>2. Q[k - 1] \subseteq Q[k] /\ Q[k] \in SUBSET (DOMAIN all) /\ i \in Q[k]
    BY <2>1, SharingGrows
  <2>3. CASE Q[k] = Q[k - 1]
    <3>1. Sharing(all, Q[k]) = Q[k]
      BY <2>1, <2>3
    <3> QED BY <2>2, <3>1 DEF ChainsGrow
  <2>4. CASE Q[k] # Q[k - 1]
    <3>1. Cardinality(Q[k - 1]) >= (k - 1) + 1
      BY <1>5, <2>1, <2>4 DEF ChainsGrow
    <3>2. IsFiniteSet(Q[k]) /\ Cardinality(Q[k - 1]) \in Nat /\ Cardinality(Q[k]) \in Nat
      BY <1>1, <1>3, <2>1, <2>2
    <3>3. Cardinality(Q[k - 1]) < Cardinality(Q[k])
      <4>1. Q[k - 1] \in SUBSET Q[k]
        BY <2>2
      <4> QED BY <2>4, <3>2, <4>1, FS_Subset
    <3>4. Cardinality(Q[k]) >= k + 1
      BY <3>1, <3>2, <3>3
    <3> QED BY <2>2, <3>4 DEF ChainsGrow
  <2> QED BY <2>3, <2>4
<1>6. ASSUME Bad # {} PROVE FALSE
  <2>1. PICK k \in Bad : \A j \in Bad : k <= j
    <3>1. Bad \subseteq Nat
      OBVIOUS
    <3> HIDE DEF Bad
    <3> QED BY <1>6, <3>1, LeastNumber
  <2>2. k # 0
    BY <1>4, <2>1
  <2>3. k \in 1 .. n /\ k - 1 \in 0 .. n /\ ~(k <= k - 1)
    BY <1>1, <2>1, <2>2
  <2>4. ChainsGrow(Q, all, i, k - 1)
    BY <2>1, <2>3
  <2> QED BY <1>5, <2>1, <2>3, <2>4
<1>7. ChainsGrow(Q, all, i, n)
  <2>1. n \in 0 .. n
    BY <1>1
  <2> QED BY <1>6, <2>1
<1>8. Q[n] \in SUBSET (1 .. n) /\ i \in Q[n]
  BY <1>1, <1>7 DEF ChainsGrow
<1>9. Cardinality(Q[n]) <= n /\ Cardinality(Q[n]) \in Nat
  BY <1>3, <1>8
<1>10. Sharing(all, Q[n]) = Q[n]
  <2>1. ~(Cardinality(Q[n]) >= n + 1)
    BY <1>1, <1>9
  <2> QED BY <1>7, <2>1 DEF ChainsGrow
<1> QED BY <1>1, <1>2, <1>8, <1>10

\* They do not leave what is closed.
LEMMA ChainsStay ==
  ASSUME NEW all, Lined(all), NEW i \in DOMAIN all, NEW Q, Chains(Q, all, i),
         NEW C, i \in C, \A j \in C, m \in DOMAIN all : LineKeys(all, j) \cap LineKeys(all, m) # {} => m \in C
  PROVE  SameAs(all, i) \subseteq C
<1> DEFINE n == Len(all)
<1> DEFINE Bad == {k \in 0 .. n : ~(Q[k] \subseteq C)}
<1>1. n \in Nat
  BY DEF Lined
<1>2. Q[0] = {i} /\ (\A k \in 1 .. n : Q[k] = Sharing(all, Q[k - 1])) /\ SameAs(all, i) = Q[n]
  BY DEF Chains
<1>3. ASSUME NEW S, S \subseteq C PROVE Sharing(all, S) \subseteq C
  BY <1>3 DEF Sharing, LineKeys
<1>4. ASSUME Bad # {} PROVE FALSE
  <2>1. PICK k \in Bad : \A j \in Bad : k <= j
    <3>1. Bad \subseteq Nat
      OBVIOUS
    <3> HIDE DEF Bad
    <3> QED BY <1>4, <3>1, LeastNumber
  <2>2. k # 0
    BY <1>2, <2>1
  <2>3. k \in 1 .. n /\ k - 1 \in 0 .. n /\ ~(k <= k - 1)
    BY <1>1, <2>1, <2>2
  <2>4. Q[k - 1] \subseteq C
    BY <2>1, <2>3
  <2>5. Q[k] \subseteq C
    BY <1>2, <1>3, <2>3, <2>4
  <2> QED BY <2>1, <2>5
<1>5. n \in 0 .. n
  BY <1>1
<1> QED BY <1>2, <1>4, <1>5

\* The lines a line is linked to are those found at its place.
LEMMA SameAsIs ==
  ASSUME NEW all, Lined(all), NEW i \in DOMAIN all, NEW acc, PassInv(acc, all, Len(all))
  PROVE  SameAs(all, i) = {j \in DOMAIN all : At(acc, all, j) = At(acc, all, i)}
<1> DEFINE n == Len(all)
<1> DEFINE C == {j \in DOMAIN all : At(acc, all, j) = At(acc, all, i)}
<1>1. n \in Nat /\ DOMAIN all = 1 .. n
  BY DEF Lined
<1>2. PassIndex(acc, all, n) /\ PassLinked(acc, all, n)
  BY DEF PassInv
<1> HIDE DEF n
<1>3. PICK Q : Chains(Q, all, i)
  BY ChainsExist
<1>4. /\ i \in SameAs(all, i) /\ SameAs(all, i) \in SUBSET (DOMAIN all)
      /\ Sharing(all, SameAs(all, i)) = SameAs(all, i)
  BY <1>3, ChainsComplete
<1>5. ASSUME NEW j \in C, NEW m \in DOMAIN all, LineKeys(all, j) \cap LineKeys(all, m) # {} PROVE m \in C
  <2>1. PICK x : x \in LineKeys(all, j) /\ x \in LineKeys(all, m)
    BY <1>5
  <2>2. At(acc, all, j) = acc.index[x] /\ At(acc, all, m) = acc.index[x]
    BY <1>1, <1>2, <2>1 DEF PassIndex
  <2> QED BY <2>2
<1>6. SameAs(all, i) \subseteq C
  <2>1. i \in C
    OBVIOUS
  <2> HIDE DEF C
  <2> QED BY <1>3, <1>5, <2>1, ChainsStay
<1>7. ASSUME NEW j \in C PROVE j \in SameAs(all, i)
  <2>1. ClosedUpto(all, n, SameAs(all, i))
    <3>1. ASSUME NEW a \in SameAs(all, i), NEW b \in 1 .. n, LineKeys(all, a) \cap LineKeys(all, b) # {}
          PROVE  b \in Sharing(all, SameAs(all, i))
      BY <1>1, <3>1 DEF Sharing, LineKeys
    <3> QED BY <1>4, <3>1 DEF ClosedUpto
  <2>2. i \in 1 .. n /\ j \in 1 .. n /\ At(acc, all, i) = At(acc, all, j)
    BY <1>1
  <2>3. Linked(all, n, i, j)
    BY <1>2, <2>2 DEF PassLinked
  <2> QED BY <1>1, <1>4, <2>1, <2>3 DEF Linked
<1> QED BY <1>6, <1>7

\* No two lines have a key in common.
Apart(all) == \A i, j \in DOMAIN all : LineKeys(all, i) \cap LineKeys(all, j) # {} => i = j

\* What is left of a log by the pass: the last line of each chain, no two with a key in common.
LEMMA DedupeIs ==
  ASSUME NEW all, Lined(all)
  PROVE  /\ ToSet(dedupe(all)) = LastOfEach(all)
         /\ Lined(dedupe(all)) /\ Apart(dedupe(all))
         /\ dedupe(all) \in Seq(ToSet(all))
<1> DEFINE n == Len(all)
<1>1. n \in Nat /\ DOMAIN all = 1 .. n /\ \A i \in DOMAIN all : all[i] # Gone
  BY DEF Lined
<1>2. PICK P : Passes(P, all)
  BY PassExists
<1> DEFINE acc == P[n]
<1>3. PassInv(acc, all, n)
  BY <1>2, PassHolds
<1>4. FoldLeft(Place, Empty, all) = acc
  BY <1>2 DEF Passes
<1>5. \A i \in DOMAIN all : SameAs(all, i) = {j \in DOMAIN all : At(acc, all, j) = At(acc, all, i)}
  BY <1>3, SameAsIs
<1> HIDE DEF n, acc
<1>6. PassTypes(acc, all, n) /\ PassIndex(acc, all, n) /\ PassLast(acc, all, n) /\ PassGone(acc, all, n)
  BY <1>3 DEF PassInv
<1> DEFINE places == acc.places
<1> DEFINE kept == {p \in DOMAIN places : places[p] # Gone}
<1>7. dedupe(all) = Kept(places, kept)
  BY <1>4 DEF dedupe
<1>8. Len(places) \in Nat /\ DOMAIN places = 1 .. Len(places)
  BY <1>6 DEF PassTypes
<1>9. ASSUME NEW i \in DOMAIN all
      PROVE  /\ At(acc, all, i) \in kept /\ places[At(acc, all, i)] = all[Max(SameAs(all, i))]
             /\ Max(SameAs(all, i)) \in DOMAIN all
             /\ At(acc, all, Max(SameAs(all, i))) = At(acc, all, i)
  <2> DEFINE same == SameAs(all, i)
  <2>1. i \in 1 .. n
    BY <1>1
  <2>2. PICK j \in 1 .. n : /\ At(acc, all, j) = At(acc, all, i) /\ places[At(acc, all, i)] = all[j]
                            /\ \A m \in 1 .. n : At(acc, all, m) = At(acc, all, i) => m <= j
    BY <1>6, <2>1 DEF PassLast
  <2>3. same \in SUBSET (1 .. n) /\ j \in same /\ \A m \in same : m <= j
    BY <1>1, <1>5, <2>2
  <2> HIDE DEF same
  <2>4. Max(same) = j
    BY <1>1, <2>3, GreatestIs
  <2>5. all[i].id \in LineKeys(all, i)
    BY DEF LineKeys, transaction_dedupe_keys
  <2>6. all[i].id \in DOMAIN acc.index
    BY <1>6, <2>1, <2>5 DEF PassIndex
  <2>7. At(acc, all, i) \in DOMAIN places
    BY <1>6, <2>6 DEF At, PassTypes
  <2> QED BY <1>1, <2>2, <2>4, <2>7 DEF same
<1>10. ASSUME NEW p \in kept PROVE \E i \in DOMAIN all : At(acc, all, i) = p
  BY <1>1, <1>6 DEF PassGone
<1>11. {places[p] : p \in kept} = LastOfEach(all)
  <2>1. ASSUME NEW p \in kept PROVE places[p] \in LastOfEach(all)
    <3>1. PICK i \in DOMAIN all : At(acc, all, i) = p
      BY <1>10
    <3> HIDE DEF places, kept
    <3> QED BY <1>9, <3>1 DEF LastOfEach
  <2>2. ASSUME NEW i \in DOMAIN all PROVE \E p \in kept : places[p] = all[Max(SameAs(all, i))]
    <3> HIDE DEF places, kept
    <3> QED BY <1>9
  <2> HIDE DEF places, kept
  <2> QED BY <2>1, <2>2 DEF LastOfEach
<1>12. kept \in SUBSET (1 .. Len(places))
  BY <1>8
<1>13. ASSUME NEW p \in kept, NEW q \in kept,
              transaction_dedupe_keys(places[p]) \cap transaction_dedupe_keys(places[q]) # {}
       PROVE  p = q
  <2>1. PICK i \in DOMAIN all : At(acc, all, i) = p
    BY <1>10
  <2>2. PICK j \in DOMAIN all : At(acc, all, j) = q
    BY <1>10
  <2> DEFINE a == Max(SameAs(all, i))
  <2> DEFINE b == Max(SameAs(all, j))
  <2>3. a \in 1 .. n /\ b \in 1 .. n /\ places[p] = all[a] /\ places[q] = all[b]
        /\ At(acc, all, a) = p /\ At(acc, all, b) = q
    <3> HIDE DEF places, kept
    <3> QED BY <1>1, <1>9, <2>1, <2>2
  <2> HIDE DEF a, b
  <2>4. PICK x : x \in LineKeys(all, a) /\ x \in LineKeys(all, b)
    BY <1>13, <2>3 DEF LineKeys
  <2>5. acc.index[x] = p /\ acc.index[x] = q
    BY <1>6, <2>3, <2>4 DEF PassIndex
  <2> QED BY <2>5
<1>14. \A p \in kept : places[p] # Gone
  OBVIOUS
<1>15. \A p \in kept : places[p] \in ToSet(all)
  <2>1. LastOfEach(all) \subseteq ToSet(all)
    <3>1. ASSUME NEW i \in DOMAIN all PROVE all[Max(SameAs(all, i))] \in ToSet(all)
      <4>1. Max(SameAs(all, i)) \in DOMAIN all
        BY <1>9
      <4> QED BY <4>1 DEF ToSet
    <3> QED BY <3>1 DEF LastOfEach
  <2> HIDE DEF places, kept
  <2> QED BY <1>11, <2>1
<1> HIDE DEF places, kept
<1>16. PICK at : Places(at, dedupe(all), places, kept)
  BY <1>7, <1>8, <1>12, KeptIs
<1>17. /\ \A S : (\A p \in kept : places[p] \in S) => dedupe(all) \in Seq(S)
       /\ ToSet(dedupe(all)) = {places[p] : p \in kept}
  BY <1>16, PlacesSeq
<1>18. dedupe(all) \in Seq(ToSet(all))
  BY <1>15, <1>17
<1>19. \A m \in DOMAIN dedupe(all) : at[m] \in kept /\ dedupe(all)[m] = places[at[m]]
  BY <1>16 DEF Places
<1>20. \A l, m \in DOMAIN dedupe(all) : at[l] = at[m] => l = m
  BY <1>16 DEF Places
<1>21. Apart(dedupe(all))
  BY <1>13, <1>19, <1>20 DEF Apart, LineKeys
<1>22. Lined(dedupe(all))
  <2>1. \A p \in kept : places[p] \in ToSet(dedupe(all))
    BY <1>17
  <2>2. dedupe(all) \in Seq(ToSet(dedupe(all)))
    BY <1>17, <2>1
  <2> QED BY <1>14, <1>19, <2>2 DEF Lined
<1> QED BY <1>11, <1>17, <1>18, <1>21, <1>22

\* So readers see the last of each chain.
LEMMA ReadersSee ==
  ASSUME NEW all, Lined(all)
  PROVE  get_transactions(all) = LastOfEach(all)
BY DedupeIs DEF get_transactions

\* Lines with no key in common are all seen.
LEMMA ApartSeen ==
  ASSUME NEW all, Lined(all), Apart(all)
  PROVE  get_transactions(all) = ToSet(all)
<1>1. ASSUME NEW i \in DOMAIN all PROVE Max(SameAs(all, i)) = i
  <2>1. PICK Q : Chains(Q, all, i)
    BY ChainsExist
  <2>2. i \in SameAs(all, i)
    BY <2>1, ChainsComplete
  <2>3. SameAs(all, i) \subseteq {i}
    <3>1. i \in {i} /\ \A j \in {i}, m \in DOMAIN all : LineKeys(all, j) \cap LineKeys(all, m) # {} => m \in {i}
      BY DEF Apart
    <3> QED BY <2>1, <3>1, ChainsStay
  <2>4. Len(all) \in Nat /\ i \in 1 .. Len(all) /\ SameAs(all, i) \in SUBSET (1 .. Len(all)) /\ \A j \in SameAs(all, i) : j <= i
    BY <2>3 DEF Lined
  <2> QED BY <2>2, <2>4, GreatestIs
<1>2. LastOfEach(all) = ToSet(all)
  BY <1>1 DEF LastOfEach, ToSet
<1> QED BY <1>2, ReadersSee

(***************************************************************************)
(* Recompaction, and what a sync adds.                                     *)
(***************************************************************************)
\* Lines by time, and those of one time as they stand.
LEMMA TimesRank ==
  ASSUME NEW entries, NEW n \in Nat, DOMAIN entries = 1 .. n, \A i \in 1 .. n : entries[i].time \in Nat
  PROVE  Ranking([i \in DOMAIN entries |->
             {j \in DOMAIN entries : entries[j].time < entries[i].time \/ (entries[j].time = entries[i].time /\ j < i)}])
<1> DEFINE B(j, i) == entries[j].time < entries[i].time \/ (entries[j].time = entries[i].time /\ j < i)
<1> DEFINE b == [i \in DOMAIN entries |-> {j \in DOMAIN entries : B(j, i)}]
<1>1. DOMAIN b = 1 .. n /\ \A i \in 1 .. n : b[i] = {j \in 1 .. n : B(j, i)}
  OBVIOUS
<1>2. \A i \in 1 .. n : ~B(i, i)
  OBVIOUS
<1>3. \A i, j \in 1 .. n : i # j => B(i, j) \/ B(j, i)
  OBVIOUS
<1>4. \A i, j, k \in 1 .. n : B(k, i) /\ B(i, j) => B(k, j)
  OBVIOUS
<1> HIDE DEF B, b
<1>5. Ranking(b)
  <2>0. IsFiniteSet(DOMAIN b)
    BY <1>1, FS_Interval
  <2>1. ASSUME NEW i \in DOMAIN b PROVE b[i] \subseteq DOMAIN b /\ i \notin b[i]
    BY <1>1, <1>2
  <2>2. ASSUME NEW i \in DOMAIN b, NEW j \in DOMAIN b, i # j
        PROVE  (i \in b[j] /\ b[i] \subseteq b[j]) \/ (j \in b[i] /\ b[j] \subseteq b[i])
    <3>1. CASE B(i, j)
      BY <1>1, <1>4, <3>1
    <3>2. CASE B(j, i)
      BY <1>1, <1>4, <3>2
    <3> QED BY <1>1, <1>3, <2>2, <3>1, <3>2
  <2> QED BY <2>0, <2>1, <2>2 DEF Ranking
<1> QED BY <1>5 DEF b, B

\* Recompaction changes nothing for readers.
LEMMA CompactIs ==
  ASSUME NEW all, Lined(all), \A i \in DOMAIN all : all[i].time \in Nat
  PROVE  /\ compact(all) \in Seq(ToSet(all))
         /\ get_transactions(compact(all)) = get_transactions(all)
<1> DEFINE entries == dedupe(all)
<1> DEFINE b == [i \in DOMAIN entries |->
             {j \in DOMAIN entries : entries[j].time < entries[i].time \/ (entries[j].time = entries[i].time /\ j < i)}]
<1>1. ToSet(entries) = get_transactions(all) /\ Lined(entries) /\ Apart(entries) /\ entries \in Seq(ToSet(all))
  BY DedupeIs DEF get_transactions
<1>2. compact(all) = Arranged(entries, b) /\ DOMAIN b = DOMAIN entries
  BY Zenon DEF compact
<1> HIDE DEF entries
<1>3. Len(entries) \in Nat /\ DOMAIN entries = 1 .. Len(entries)
  BY <1>1
<1>4. \A i \in 1 .. Len(entries) : entries[i].time \in Nat
  <2>1. \A l \in ToSet(all) : l.time \in Nat
    BY DEF ToSet
  <2> QED BY <1>1, <1>3, <2>1
<1>5. Ranking(b)
  BY <1>3, <1>4, TimesRank
<1> HIDE DEF b
<1>6. PICK at : Places(at, compact(all), entries, DOMAIN entries)
  BY <1>2, <1>5, ArrangedIs
<1>7. /\ \A S : (\A i \in DOMAIN entries : entries[i] \in S) => compact(all) \in Seq(S)
      /\ ToSet(compact(all)) = {entries[i] : i \in DOMAIN entries}
  BY <1>6, PlacesSeq
<1>8. compact(all) \in Seq(ToSet(all))
  BY <1>1, <1>3, <1>7
<1>9. \A m \in DOMAIN compact(all) : at[m] \in DOMAIN entries /\ compact(all)[m] = entries[at[m]]
  BY <1>6 DEF Places
<1>10. \A l, m \in DOMAIN compact(all) : at[l] = at[m] => l = m
  BY <1>6 DEF Places
<1>11. ToSet(compact(all)) = ToSet(entries)
  BY <1>7 DEF ToSet
<1>12. Lined(compact(all))
  <2>1. compact(all) \in Seq(ToSet(compact(all)))
    BY <1>7
  <2> QED BY <1>1, <1>9, <2>1 DEF Lined
<1>13. Apart(compact(all))
  BY <1>1, <1>9, <1>10 DEF Apart, LineKeys
<1> QED BY <1>1, <1>8, <1>11, <1>12, <1>13, ApartSeen

\* A batch keeps the last line of each id, once.
LEMMA CollapseIs ==
  ASSUME NEW X, NEW given \in Seq(X)
  PROVE  /\ collapse(given) \in Seq(ToSet(given))
         /\ \A i \in DOMAIN given : given[Max(SameId(given, i))] \in ToSet(collapse(given))
         /\ \A i, j \in DOMAIN collapse(given) : collapse(given)[i].id = collapse(given)[j].id => i = j
<1> DEFINE n == Len(given)
<1> DEFINE all == [i \in DOMAIN given |-> given[Max(SameId(given, i))]]
<1> DEFINE places == {i \in DOMAIN given : i = Min(SameId(given, i))}
<1>1. n \in Nat /\ DOMAIN given = 1 .. n
  OBVIOUS
<1>2. collapse(given) = Kept(all, places)
  BY Zenon DEF collapse
<1> HIDE DEF n
<1>3. ASSUME NEW i \in 1 .. n
      PROVE  /\ Min(SameId(given, i)) \in SameId(given, i) /\ Max(SameId(given, i)) \in SameId(given, i)
             /\ SameId(given, i) \in SUBSET (1 .. n)
  <2>1. i \in SameId(given, i) /\ SameId(given, i) \subseteq 1 .. n
    BY <1>1 DEF SameId
  <2>2. SameId(given, i) \subseteq Nat
    BY <2>1
  <2> QED BY <1>1, <2>1, <2>2, LeastNumber, GreatestPlace
<1>4. ASSUME NEW i \in 1 .. n, NEW j \in SameId(given, i)
      PROVE  SameId(given, j) = SameId(given, i) /\ given[j].id = given[i].id /\ j \in 1 .. n
  BY <1>1 DEF SameId
<1>5. DOMAIN all = 1 .. n /\ \A i \in 1 .. n : all[i] = given[Max(SameId(given, i))]
  BY <1>1
<1>6. places \in SUBSET (1 .. n) /\ \A i \in 1 .. n : i \in places <=> i = Min(SameId(given, i))
  BY <1>1
<1> HIDE DEF all, places
<1>7. PICK at : Places(at, collapse(given), all, places)
  BY <1>1, <1>2, <1>6, KeptIs
<1>8. /\ \A S : (\A i \in places : all[i] \in S) => collapse(given) \in Seq(S)
      /\ ToSet(collapse(given)) = {all[i] : i \in places}
  BY <1>7, PlacesSeq
<1>9. \A i \in places : all[i] \in ToSet(given)
  BY <1>1, <1>3, <1>5, <1>6 DEF ToSet
<1>10. ASSUME NEW i \in DOMAIN given PROVE given[Max(SameId(given, i))] \in ToSet(collapse(given))
  <2> DEFINE m == Min(SameId(given, i))
  <2>1. m \in SameId(given, i) /\ i \in 1 .. n
    BY <1>1, <1>3
  <2> HIDE DEF m
  <2>2. SameId(given, m) = SameId(given, i) /\ m \in 1 .. n
    BY <1>4, <2>1
  <2>3. m \in places
    BY <1>6, <2>2 DEF m
  <2>4. all[m] = given[Max(SameId(given, i))]
    BY <1>5, <2>2
  <2> QED BY <1>8, <2>3, <2>4
<1>11. ASSUME NEW i \in 1 .. n PROVE all[i].id = given[i].id
  <2>1. Max(SameId(given, i)) \in SameId(given, i)
    BY <1>3
  <2> QED BY <1>4, <1>5, <2>1
<1>12. ASSUME NEW k \in DOMAIN collapse(given), NEW l \in DOMAIN collapse(given),
              collapse(given)[k].id = collapse(given)[l].id
       PROVE  k = l
  <2>1. /\ at[k] \in places /\ at[l] \in places /\ (at[k] = at[l] => k = l)
        /\ collapse(given)[k] = all[at[k]] /\ collapse(given)[l] = all[at[l]]
    BY <1>7 DEF Places
  <2>2. at[k] \in 1 .. n /\ at[l] \in 1 .. n
    BY <1>6, <2>1
  <2>3. all[at[k]].id = given[at[k]].id /\ all[at[l]].id = given[at[l]].id
    BY <1>11, <2>2
  <2>4. at[k] \in SameId(given, at[l])
    BY <1>1, <1>12, <2>1, <2>2, <2>3 DEF SameId
  <2>5. SameId(given, at[k]) = SameId(given, at[l])
    BY <1>4, <2>2, <2>4
  <2> QED BY <1>6, <2>1, <2>2, <2>5
<1> QED BY <1>8, <1>9, <1>10, <1>12

\* What is appended is what readers do not see yet.
LEMMA AppendIs ==
  ASSUME NEW X, NEW all \in Seq(X), NEW given \in Seq(X)
  PROVE  \E more : /\ more \in Seq(ToSet(given)) /\ append_new(all, given) = all \o more
                   /\ \A l \in ToSet(collapse(given)) : l \in get_transactions(all) \/ l \in ToSet(more)
                   /\ \A i, j \in DOMAIN more : more[i].id = more[j].id => i = j
                   /\ \A i \in DOMAIN more : more[i] \notin get_transactions(all)
<1> DEFINE present == get_transactions(all)
<1> DEFINE unique == collapse(given)
<1> DEFINE places == {i \in DOMAIN unique : unique[i] \notin present}
<1> DEFINE more == Kept(unique, places)
<1>1. unique \in Seq(ToSet(given)) /\ \A i, j \in DOMAIN unique : unique[i].id = unique[j].id => i = j
  BY CollapseIs
<1>2. append_new(all, given) = all \o more
  BY Zenon DEF append_new
<1> HIDE DEF present, unique
<1>3. Len(unique) \in Nat /\ DOMAIN unique = 1 .. Len(unique)
  BY <1>1
<1>4. places \in SUBSET (1 .. Len(unique)) /\ \A i \in DOMAIN unique : i \in places <=> unique[i] \notin present
  BY <1>3
<1> HIDE DEF places
<1>5. PICK at : Places(at, more, unique, places)
  BY <1>3, <1>4, KeptIs
<1> HIDE DEF more
<1>6. /\ \A S : (\A i \in places : unique[i] \in S) => more \in Seq(S)
      /\ ToSet(more) = {unique[i] : i \in places}
  BY <1>5, PlacesSeq
<1>7. \A i \in DOMAIN more : at[i] \in places /\ more[i] = unique[at[i]]
  BY <1>5 DEF Places
<1>8. \A i, j \in DOMAIN more : at[i] = at[j] => i = j
  BY <1>5 DEF Places
<1>9. more \in Seq(ToSet(given))
  BY <1>1, <1>3, <1>4, <1>6
<1>10. \A l \in ToSet(unique) : l \in present \/ l \in ToSet(more)
  BY <1>4, <1>6 DEF ToSet
<1>11. ASSUME NEW i \in DOMAIN more, NEW j \in DOMAIN more, more[i].id = more[j].id PROVE i = j
  <2>1. at[i] \in DOMAIN unique /\ at[j] \in DOMAIN unique
    BY <1>3, <1>4, <1>7
  <2>2. unique[at[i]].id = unique[at[j]].id
    BY <1>7, <1>11
  <2>3. at[i] = at[j]
    BY <1>1, <2>1, <2>2
  <2> QED BY <1>8, <2>3
<1>12. ASSUME NEW i \in DOMAIN more PROVE more[i] \notin present
  <2>1. at[i] \in places /\ more[i] = unique[at[i]]
    BY <1>7
  <2>2. at[i] \in DOMAIN unique
    BY <1>3, <1>4, <2>1
  <2> QED BY <1>4, <2>1, <2>2
<1> QED BY <1>2, <1>9, <1>10, <1>11, <1>12 DEF present, unique

\* With nothing to append the log is as it was.
LEMMA NothingToAppend ==
  ASSUME NEW X, NEW all \in Seq(X), NEW given \in Seq(X), ToSet(given) \subseteq get_transactions(all)
  PROVE  append_new(all, given) = all
<1>1. PICK more : /\ more \in Seq(ToSet(given)) /\ append_new(all, given) = all \o more
                  /\ \A i \in DOMAIN more : more[i] \notin get_transactions(all)
  BY AppendIs
<1>2. \A i \in DOMAIN more : more[i] \in ToSet(given)
  BY <1>1
<1>3. DOMAIN more = {}
  BY <1>1, <1>2
<1>4. Len(more) = 0
  BY <1>1, <1>3
<1>5. all \o more = all
  BY <1>1, <1>4
<1> QED BY <1>1, <1>5

(***************************************************************************)
(* The lines of Chase's activities.                                        *)
(***************************************************************************)
LineShapes == [id : Activities \X Identifiers, time : Nat, of : Activities, version : Nat,
               aliases : SUBSET (Activities \X Identifiers)]
\* An activity as it was listed once, under an identifier it had then, with all of them.
ListedLines == {line \in LineShapes : /\ line.version \in 1 .. Len(IdentifiersOf[line.of])
                                      /\ line.aliases = {line.of} \X IdentifiersOf[line.of][line.version]
                                      /\ line.id \in line.aliases}
Lines == OldLines \cup ListedLines

\* What identifiers an activity has.
LEMMA IdentifiersAre ==
  ASSUME NEW a \in Activities
  PROVE  /\ Len(IdentifiersOf[a]) \in Nat /\ 1 \in 1 .. Len(IdentifiersOf[a])
         /\ IdentifiersOf[a][1] # {} /\ IdentifiersOf[a][1] \subseteq Identifiers
         /\ \A v \in 1 .. Len(IdentifiersOf[a]) : /\ IdentifiersOf[a][v] \in SUBSET Identifiers
                                                  /\ IdentifiersOf[a][1] \subseteq IdentifiersOf[a][v]
<1>1. IdentifiersOf[a] \in Seq(SUBSET Identifiers)
  BY ChaseAssumption
<1>2. /\ Len(IdentifiersOf[a]) > 0 /\ IdentifiersOf[a][1] # {}
      /\ \A v, w \in DOMAIN IdentifiersOf[a] : v <= w => IdentifiersOf[a][v] \subseteq IdentifiersOf[a][w]
  BY ChaseAssumption
<1>3. /\ Len(IdentifiersOf[a]) \in Nat /\ DOMAIN IdentifiersOf[a] = 1 .. Len(IdentifiersOf[a])
      /\ \A v \in 1 .. Len(IdentifiersOf[a]) : IdentifiersOf[a][v] \in SUBSET Identifiers
  BY <1>1
<1>4. 1 \in 1 .. Len(IdentifiersOf[a])
  BY <1>2, <1>3
<1>5. \A v \in 1 .. Len(IdentifiersOf[a]) : IdentifiersOf[a][1] \subseteq IdentifiersOf[a][v]
  BY <1>2, <1>3, <1>4
<1> QED BY <1>2, <1>3, <1>4, <1>5

\* What the lines of earlier releases are.
LEMMA OldLineIs ==
  ASSUME NEW line \in OldLines
  PROVE  /\ line \in LineShapes /\ line.version = 0 /\ line.of \in ToSet(FirstListed)
         /\ transaction_dedupe_keys(line) \subseteq {line.of} \X IdentifiersOf[line.of][1]
<1>1. ToSet(FirstListed) \subseteq Activities
  BY ChaseAssumption DEF ToSet
<1> QED BY <1>1 DEF OldLines, LineShapes

\* Lines have keys, each with the activity in it.
LEMMA LineIs ==
  ASSUME NEW line \in Lines
  PROVE  /\ line \in LineShapes /\ line # Gone /\ line.time \in Nat /\ line.of \in Activities /\ line.version \in Nat
         /\ \E v \in 1 .. Len(IdentifiersOf[line.of]) :
                /\ transaction_dedupe_keys(line) \subseteq {line.of} \X IdentifiersOf[line.of][v]
                /\ line.version # 0 => {line.of} \X IdentifiersOf[line.of][v] \subseteq transaction_dedupe_keys(line)
         /\ line.version = 0 => transaction_dedupe_keys(line) \subseteq {line.of} \X IdentifiersOf[line.of][1]
         /\ line.id \in transaction_dedupe_keys(line) /\ line.id[1] = line.of
<1>1. line \in LineShapes
  BY OldLineIs DEF Lines, ListedLines
<1>2. line # Gone
  <2>1. DOMAIN line = {"id", "time", "of", "version", "aliases"}
    BY <1>1 DEF LineShapes
  <2>2. DOMAIN Gone = {}
    BY DEF Gone
  <2> QED BY <2>1, <2>2
<1>3. line.of \in Activities /\ line.time \in Nat /\ line.version \in Nat
  BY <1>1 DEF LineShapes
<1>4. line.id \in transaction_dedupe_keys(line)
  BY DEF transaction_dedupe_keys
<1>5. CASE line \in OldLines
  <2>1. /\ line.version = 0 /\ 1 \in 1 .. Len(IdentifiersOf[line.of])
        /\ transaction_dedupe_keys(line) \subseteq {line.of} \X IdentifiersOf[line.of][1]
    BY <1>3, <1>5, OldLineIs, IdentifiersAre
  <2>2. line.id \in {line.of} \X IdentifiersOf[line.of][1]
    BY <1>4, <2>1
  <2>3. line.id[1] = line.of
    BY <2>2
  <2> QED BY <1>1, <1>2, <1>3, <1>4, <2>1, <2>3
<1>6. CASE line \in ListedLines
  <2>1. /\ line.version \in 1 .. Len(IdentifiersOf[line.of])
        /\ line.aliases = {line.of} \X IdentifiersOf[line.of][line.version]
        /\ line.id \in line.aliases
    BY <1>6 DEF ListedLines
  <2>2. transaction_dedupe_keys(line) = {line.of} \X IdentifiersOf[line.of][line.version]
    BY <2>1 DEF transaction_dedupe_keys
  <2>3. line.version # 0 /\ line.id[1] = line.of
    BY <2>1
  <2> QED BY <1>1, <1>2, <1>3, <1>4, <2>1, <2>2, <2>3
<1> QED BY <1>5, <1>6 DEF Lines

\* A common key tells that two lines are of one activity.
LEMMA KeysTell ==
  ASSUME NEW k \in Lines, NEW l \in Lines, transaction_dedupe_keys(k) \cap transaction_dedupe_keys(l) # {}
  PROVE  k.of = l.of
<1>1. PICK x : x \in transaction_dedupe_keys(k) /\ x \in transaction_dedupe_keys(l)
  OBVIOUS
<1>2. \E v : x \in {k.of} \X IdentifiersOf[k.of][v]
  BY <1>1, LineIs
<1>3. \E v : x \in {l.of} \X IdentifiersOf[l.of][v]
  BY <1>1, LineIs
<1>4. x[1] = k.of /\ x[1] = l.of
  BY <1>2, <1>3
<1> QED BY <1>4

\* Lines of one activity have a key in common, unless both are from earlier releases.
LEMMA KeysLink ==
  ASSUME NEW k \in Lines, NEW l \in Lines, k.of = l.of, l.version # 0
  PROVE  transaction_dedupe_keys(k) \cap transaction_dedupe_keys(l) # {}
<1> DEFINE a == k.of
<1>1. a \in Activities
  BY LineIs
<1>2. PICK v \in 1 .. Len(IdentifiersOf[a]) : {a} \X IdentifiersOf[a][v] \subseteq transaction_dedupe_keys(l)
  BY LineIs
<1>3. {a} \X IdentifiersOf[a][1] \subseteq transaction_dedupe_keys(l)
  <2>1. IdentifiersOf[a][1] \subseteq IdentifiersOf[a][v]
    BY <1>1, IdentifiersAre
  <2>2. {a} \X IdentifiersOf[a][1] \subseteq {a} \X IdentifiersOf[a][v]
    BY <2>1
  <2> QED BY <1>2, <2>2
<1>4. CASE k.version = 0
  <2>1. transaction_dedupe_keys(k) \subseteq {a} \X IdentifiersOf[a][1] /\ k.id \in transaction_dedupe_keys(k)
    BY <1>4, LineIs
  <2> QED BY <1>3, <2>1
<1>5. CASE k.version # 0
  <2>1. PICK w \in 1 .. Len(IdentifiersOf[a]) : {a} \X IdentifiersOf[a][w] \subseteq transaction_dedupe_keys(k)
    BY <1>5, LineIs
  <2>2. IdentifiersOf[a][1] # {} /\ IdentifiersOf[a][1] \subseteq IdentifiersOf[a][w]
    BY <1>1, IdentifiersAre
  <2>3. PICK i : i \in IdentifiersOf[a][1]
    BY <2>2
  <2>4. <<a, i>> \in {a} \X IdentifiersOf[a][w] /\ <<a, i>> \in {a} \X IdentifiersOf[a][1]
    BY <2>2, <2>3
  <2> QED BY <1>3, <2>1, <2>4
<1> QED BY <1>4, <1>5

\* Logs are of lines.
LEMMA LinesLined ==
  ASSUME NEW all \in Seq(Lines)
  PROVE  /\ Lined(all) /\ Len(all) \in Nat /\ DOMAIN all = 1 .. Len(all)
         /\ \A i \in DOMAIN all : all[i] \in Lines
<1>1. Len(all) \in Nat /\ DOMAIN all = 1 .. Len(all) /\ \A i \in DOMAIN all : all[i] \in Lines
  OBVIOUS
<1>2. all \in Seq(ToSet(all))
  BY DEF ToSet
<1>3. \A i \in DOMAIN all : all[i] # Gone
  BY <1>1, LineIs
<1> QED BY <1>1, <1>2, <1>3 DEF Lined

\* The lines a line is linked to are of its activity, and complete.
LEMMA SameAsLines ==
  ASSUME NEW all \in Seq(Lines), NEW i \in DOMAIN all
  PROVE  /\ i \in SameAs(all, i) /\ SameAs(all, i) \in SUBSET (DOMAIN all)
         /\ Max(SameAs(all, i)) \in SameAs(all, i) /\ \A j \in SameAs(all, i) : j <= Max(SameAs(all, i))
         /\ \A j \in SameAs(all, i) : all[j].of = all[i].of
         /\ \A j \in SameAs(all, i), m \in DOMAIN all :
                LineKeys(all, j) \cap LineKeys(all, m) # {} => m \in SameAs(all, i)
<1>1. Lined(all) /\ Len(all) \in Nat /\ DOMAIN all = 1 .. Len(all) /\ \A j \in DOMAIN all : all[j] \in Lines
  BY LinesLined
<1>2. PICK Q : Chains(Q, all, i)
  BY <1>1, ChainsExist
<1>3. i \in SameAs(all, i) /\ SameAs(all, i) \in SUBSET (DOMAIN all) /\ Sharing(all, SameAs(all, i)) = SameAs(all, i)
  BY <1>1, <1>2, ChainsComplete
<1> DEFINE C == {j \in DOMAIN all : all[j].of = all[i].of}
<1>4. ASSUME NEW j \in C, NEW m \in DOMAIN all, LineKeys(all, j) \cap LineKeys(all, m) # {} PROVE m \in C
  <2>1. all[j] \in Lines /\ all[m] \in Lines
    BY <1>1
  <2>2. all[j].of = all[m].of
    BY <1>4, <2>1, KeysTell DEF LineKeys
  <2> QED BY <2>2
<1>5. SameAs(all, i) \subseteq C
  <2>1. i \in C
    OBVIOUS
  <2> HIDE DEF C
  <2> QED BY <1>1, <1>2, <1>4, <2>1, ChainsStay
<1>6. Max(SameAs(all, i)) \in SameAs(all, i) /\ \A j \in SameAs(all, i) : j <= Max(SameAs(all, i))
  <2>1. SameAs(all, i) \subseteq 1 .. Len(all) /\ SameAs(all, i) # {}
    BY <1>1, <1>3
  <2> QED BY <1>1, <2>1, GreatestPlace
<1>7. \A j \in SameAs(all, i), m \in DOMAIN all :
          LineKeys(all, j) \cap LineKeys(all, m) # {} => m \in Sharing(all, SameAs(all, i))
  BY DEF Sharing, LineKeys
<1> QED BY <1>3, <1>5, <1>6, <1>7

\* They are in whatever is closed.
LEMMA SameAsLeast ==
  ASSUME NEW all \in Seq(Lines), NEW i \in DOMAIN all,
         NEW C, i \in C, \A j \in C, m \in DOMAIN all : LineKeys(all, j) \cap LineKeys(all, m) # {} => m \in C
  PROVE  SameAs(all, i) \subseteq C
<1>1. Lined(all)
  BY LinesLined
<1>2. PICK Q : Chains(Q, all, i)
  BY <1>1, ChainsExist
<1> QED BY <1>1, <1>2, ChainsStay

\* What is stored is what lines are about.
About(all) == {all[i].of : i \in DOMAIN all}
\* What readers see is in the log, and is about the same activities.
LEMMA StoredIs ==
  ASSUME NEW all \in Seq(Lines)
  PROVE  /\ get_transactions(all) \subseteq ToSet(all)
         /\ \A l \in get_transactions(all) : l \in Lines
         /\ {l.of : l \in get_transactions(all)} = About(all)
<1>1. get_transactions(all) = {all[Max(SameAs(all, i))] : i \in DOMAIN all}
  BY LinesLined, ReadersSee DEF LastOfEach
<1>2. ASSUME NEW i \in DOMAIN all
      PROVE  Max(SameAs(all, i)) \in DOMAIN all /\ all[Max(SameAs(all, i))].of = all[i].of
  BY SameAsLines
<1>3. get_transactions(all) \subseteq ToSet(all)
  BY <1>1, <1>2 DEF ToSet
<1>4. \A l \in ToSet(all) : l \in Lines
  BY DEF ToSet
<1>5. ASSUME NEW l \in get_transactions(all) PROVE l.of \in About(all)
  BY <1>1, <1>2, <1>5 DEF About
<1>6. ASSUME NEW i \in DOMAIN all PROVE \E l \in get_transactions(all) : l.of = all[i].of
  BY <1>1, <1>2
<1>7. {l.of : l \in get_transactions(all)} = About(all)
  BY <1>5, <1>6 DEF About
<1> QED BY <1>3, <1>4, <1>7

\* Readers see one transaction of each activity, or what earlier releases stored.
LEMMA SeenOnce ==
  ASSUME NEW all \in Seq(Lines), NEW s \in get_transactions(all), NEW t \in get_transactions(all),
         s.of = t.of, s # t
  PROVE  s.version = 0 /\ t.version = 0
<1>1. Apart(dedupe(all)) /\ s \in ToSet(dedupe(all)) /\ t \in ToSet(dedupe(all))
  BY LinesLined, DedupeIs DEF get_transactions
<1>2. s \in Lines /\ t \in Lines
  BY StoredIs
<1>3. PICK i, j \in DOMAIN dedupe(all) : dedupe(all)[i] = s /\ dedupe(all)[j] = t
  BY <1>1 DEF ToSet
<1>4. transaction_dedupe_keys(s) \cap transaction_dedupe_keys(t) = {}
  BY <1>1, <1>3 DEF Apart, LineKeys
<1>5. transaction_dedupe_keys(t) \cap transaction_dedupe_keys(s) = {}
  BY <1>4
<1>6. s.version = 0
  BY <1>2, <1>5, KeysLink
<1>7. t.version = 0
  BY <1>2, <1>4, KeysLink
<1> QED BY <1>6, <1>7

\* The last line of an activity is seen.
LEMMA SeenLast ==
  ASSUME NEW all \in Seq(Lines), NEW i \in DOMAIN all, \A j \in DOMAIN all : all[j].of = all[i].of => j <= i
  PROVE  all[i] \in get_transactions(all)
<1>1. /\ i \in SameAs(all, i) /\ SameAs(all, i) \in SUBSET (1 .. Len(all)) /\ Len(all) \in Nat
      /\ \A j \in SameAs(all, i) : j <= i
  BY LinesLined, SameAsLines
<1>2. Max(SameAs(all, i)) = i
  BY <1>1, GreatestIs
<1> QED BY <1>2, LinesLined, ReadersSee DEF LastOfEach

\* What is seen stays seen if what is appended is about other activities.
LEMMA SeenStays ==
  ASSUME NEW all \in Seq(Lines), NEW more \in Seq(Lines), NEW l \in get_transactions(all),
         \A j \in DOMAIN more : more[j].of # l.of
  PROVE  l \in get_transactions(all \o more)
<1> DEFINE new == all \o more
<1> DEFINE n == Len(all)
<1>1. /\ new \in Seq(Lines) /\ Len(new) = n + Len(more)
      /\ \A i \in 1 .. n + Len(more) : new[i] = IF i <= n THEN all[i] ELSE more[i - n]
  BY JoinedLists
<1>2. n \in Nat /\ Len(more) \in Nat /\ DOMAIN all = 1 .. n /\ DOMAIN more = 1 .. Len(more)
      /\ DOMAIN new = 1 .. n + Len(more)
  BY <1>1, LinesLined
<1>3. get_transactions(all) = {all[Max(SameAs(all, i))] : i \in DOMAIN all}
      /\ get_transactions(new) = {new[Max(SameAs(new, i))] : i \in DOMAIN new}
  BY <1>1, LinesLined, ReadersSee DEF LastOfEach
<1> HIDE DEF new, n
<1>4. PICK i \in DOMAIN all : l = all[Max(SameAs(all, i))]
  BY <1>3
<1> DEFINE S == SameAs(all, i)
<1>5. /\ i \in S /\ S \in SUBSET (1 .. n) /\ Max(S) \in S
      /\ \A j \in S : all[j].of = all[i].of
      /\ \A j \in S, m \in DOMAIN all : LineKeys(all, j) \cap LineKeys(all, m) # {} => m \in S
  BY <1>2, SameAsLines
<1>6. i \in DOMAIN new /\ \A j \in 1 .. n : j \in DOMAIN new /\ new[j] = all[j]
  BY <1>1, <1>2
<1> DEFINE R == SameAs(new, i)
<1>7. /\ i \in R /\ \A j \in R, m \in DOMAIN new : LineKeys(new, j) \cap LineKeys(new, m) # {} => m \in R
  BY <1>1, <1>6, SameAsLines
<1> HIDE DEF S
<1>8. R \subseteq S
  <2>1. ASSUME NEW j \in S, NEW m \in DOMAIN new, LineKeys(new, j) \cap LineKeys(new, m) # {} PROVE m \in S
    <3>1. j \in 1 .. n /\ new[j] = all[j] /\ all[j].of = l.of /\ j \in DOMAIN new
      BY <1>4, <1>5, <1>6 DEF S
    <3>2. new[j] \in Lines /\ new[m] \in Lines
      BY <1>1, <3>1
    <3>3. new[m].of = l.of
      BY <2>1, <3>1, <3>2, KeysTell DEF LineKeys
    <3>4. m <= n
      <4>1. ASSUME ~(m <= n) PROVE FALSE
        <5>1. new[m] = more[m - n] /\ m - n \in DOMAIN more
          BY <1>1, <1>2, <4>1
        <5> QED BY <3>3, <5>1
      <4> QED BY <4>1
    <3>5. m \in DOMAIN all /\ LineKeys(all, j) \cap LineKeys(all, m) # {}
      BY <1>2, <1>6, <2>1, <3>1, <3>4 DEF LineKeys
    <3> QED BY <1>5, <3>5
  <2> HIDE DEF R
  <2> QED BY <1>1, <1>5, <1>6, <2>1, SameAsLeast DEF R
<1>9. S \subseteq R
  <2> DEFINE C == R \cap (1 .. n)
  <2>1. i \in C
    BY <1>2, <1>7
  <2>2. ASSUME NEW j \in C, NEW m \in DOMAIN all, LineKeys(all, j) \cap LineKeys(all, m) # {} PROVE m \in C
    <3>1. m \in 1 .. n /\ j \in 1 .. n /\ LineKeys(new, j) \cap LineKeys(new, m) # {} /\ m \in DOMAIN new
      BY <1>2, <1>6, <2>2 DEF LineKeys
    <3> QED BY <1>7, <3>1
  <2> HIDE DEF C, R
  <2>3. S \subseteq C
    BY <2>1, <2>2, SameAsLeast DEF S
  <2> QED BY <2>3 DEF C
<1>10. R = S
  BY <1>8, <1>9
<1>11. new[Max(R)] = l
  <2>1. Max(S) \in 1 .. n /\ l = all[Max(S)]
    BY <1>4, <1>5 DEF S
  <2> HIDE DEF R
  <2> QED BY <1>6, <1>10, <2>1
<1> QED BY <1>3, <1>6, <1>11 DEF new

\* What a sync adds is seen, and so is what it had not to add.
LEMMA AppendSees ==
  ASSUME NEW all \in Seq(Lines), NEW given \in Seq(Lines),
         \A i, j \in DOMAIN given : given[i].of = given[j].of => i = j
  PROVE  /\ append_new(all, given) \in Seq(Lines)
         /\ ToSet(given) \subseteq get_transactions(append_new(all, given))
         /\ ToSet(append_new(all, given)) \subseteq ToSet(all) \cup ToSet(given)
         /\ ToSet(all) \subseteq ToSet(append_new(all, given))
<1>1. PICK more : /\ more \in Seq(ToSet(given)) /\ append_new(all, given) = all \o more
                  /\ \A l \in ToSet(collapse(given)) : l \in get_transactions(all) \/ l \in ToSet(more)
                  /\ \A i, j \in DOMAIN more : more[i].id = more[j].id => i = j
                  /\ \A i \in DOMAIN more : more[i] \notin get_transactions(all)
  BY AppendIs
<1>2. \A l \in ToSet(given) : l \in Lines
  BY DEF ToSet
<1>3. more \in Seq(Lines) /\ \A i \in DOMAIN more : more[i] \in ToSet(given)
  BY <1>1, <1>2
<1> DEFINE n == Len(all)
<1>4. /\ all \o more \in Seq(Lines) /\ Len(all \o more) = n + Len(more)
      /\ \A i \in 1 .. n + Len(more) : (all \o more)[i] = IF i <= n THEN all[i] ELSE more[i - n]
  BY <1>3, JoinedLists
<1>5. /\ n \in Nat /\ Len(more) \in Nat /\ DOMAIN all = 1 .. n /\ DOMAIN more = 1 .. Len(more)
      /\ DOMAIN (all \o more) = 1 .. n + Len(more)
  BY <1>3, <1>4, LinesLined
<1> HIDE DEF n
<1>6. ASSUME NEW l \in ToSet(given) PROVE l \in ToSet(collapse(given))
  <2>1. PICK i \in DOMAIN given : given[i] = l
    BY DEF ToSet
  <2>2. ASSUME NEW j \in SameId(given, i) PROVE j = i
    <3>1. j \in DOMAIN given /\ given[j].id = given[i].id
      BY DEF SameId
    <3>2. given[j].id[1] = given[j].of /\ given[i].id[1] = given[i].of
      BY <3>1, LineIs
    <3> QED BY <3>1, <3>2
  <2>3. i \in SameId(given, i) /\ SameId(given, i) \in SUBSET (1 .. Len(given)) /\ Len(given) \in Nat /\ i \in Nat
    BY LinesLined DEF SameId
  <2>4. Max(SameId(given, i)) = i
    <3>1. \A j \in SameId(given, i) : j <= i
      BY <2>2, <2>3
    <3> QED BY <2>3, <3>1, GreatestIs
  <2> QED BY <2>1, <2>4, CollapseIs
<1>7. \A s, t \in ToSet(given) : s.of = t.of => s = t
  BY DEF ToSet
<1>8. ASSUME NEW l \in ToSet(given) PROVE l \in get_transactions(all \o more)
  <2>1. CASE l \in ToSet(more)
    <3>1. PICK k \in DOMAIN more : more[k] = l
      BY <2>1 DEF ToSet
    <3> DEFINE i == n + k
    <3>2. i \in DOMAIN (all \o more) /\ (all \o more)[i] = l /\ i > n
      BY <1>4, <1>5, <3>1
    <3>3. ASSUME NEW j \in DOMAIN (all \o more), (all \o more)[j].of = (all \o more)[i].of PROVE j <= i
      <4>1. CASE j <= n
        BY <1>5, <3>2, <4>1
      <4>2. CASE ~(j <= n)
        <5>1. (all \o more)[j] = more[j - n] /\ j - n \in DOMAIN more
          BY <1>4, <1>5, <4>2
        <5>2. more[j - n].of = more[k].of
          BY <3>1, <3>2, <3>3, <5>1
        <5>3. more[j - n] = more[k]
          BY <1>3, <1>7, <5>1, <5>2
        <5>4. j - n = k
          BY <1>1, <5>1, <5>3
        <5> QED BY <1>5, <5>1, <5>4
      <4> QED BY <4>1, <4>2
    <3> HIDE DEF i
    <3> QED BY <1>4, <3>2, <3>3, SeenLast
  <2>2. CASE l \notin ToSet(more)
    <3>1. l \in get_transactions(all)
      BY <1>1, <1>6, <2>2
    <3>2. \A j \in DOMAIN more : more[j].of # l.of
      BY <1>3, <1>7, <2>2 DEF ToSet
    <3> QED BY <1>3, <3>1, <3>2, SeenStays
  <2> QED BY <2>1, <2>2
<1>9. ASSUME NEW l \in ToSet(all \o more) PROVE l \in ToSet(all) \cup ToSet(given)
  <2>1. PICK i \in DOMAIN (all \o more) : (all \o more)[i] = l
    BY DEF ToSet
  <2>2. CASE i <= n
    <3>1. l = all[i] /\ i \in DOMAIN all
      BY <1>4, <1>5, <2>1, <2>2
    <3> QED BY <3>1 DEF ToSet
  <2>3. CASE ~(i <= n)
    <3>1. l = more[i - n] /\ i - n \in DOMAIN more
      BY <1>4, <1>5, <2>1, <2>3
    <3> QED BY <1>3, <3>1
  <2> QED BY <2>2, <2>3
<1>10. ASSUME NEW l \in ToSet(all) PROVE l \in ToSet(all \o more)
  <2>1. PICK i \in DOMAIN all : all[i] = l
    BY DEF ToSet
  <2>2. i \in DOMAIN (all \o more) /\ (all \o more)[i] = l
    BY <1>4, <1>5, <2>1
  <2> QED BY <2>2 DEF ToSet
<1> QED BY <1>1, <1>4, <1>8, <1>9, <1>10

(***************************************************************************)
(* How many stored activities come in a row.                               *)
(***************************************************************************)
\* The count, activity by activity.
Counts(R, run, page) ==
    /\ R[0] = run
    /\ \A k \in 1 .. Len(page) : R[k] = Run(R[k - 1], page[k])
    /\ FoldLeft(Run, run, page) = R[Len(page)]

\* It is what FoldLeft says.
LEMMA CountsExist ==
  ASSUME NEW X, NEW page \in Seq(X), NEW run \in Nat
  PROVE  \E R : Counts(R, run, page)
<1> DEFINE n == Len(page)
<1> DEFINE F == [p \in Nat \X (1 .. n) |-> Run(p[1], page[p[2]])]
<1> DEFINE Eq(g) == g = [s \in SUBSET (DOMAIN page) |-> IF s = {} THEN run
                                                       ELSE Run(g[s \ {Max(s)}], page[Max(s)])]
<1> DEFINE f == CHOOSE g : Eq(g)
<1>1. n \in Nat /\ DOMAIN page = 1 .. n
  OBVIOUS
<1>3. \A a \in Nat, i \in 1 .. n : Run(a, page[i]) \in Nat
  BY DEF Run
<1>4. F \in [Nat \X (1 .. n) -> Nat] /\ \A a \in Nat, k \in 1 .. n : F[<<a, k>>] = Run(a, page[k])
  BY <1>3
<1> HIDE DEF F, n
<1>5. PICK g : Folds(F, run, Nat, n, g)
  BY <1>1, <1>4, FoldsExist
<1>6. g \in [SUBSET (1 .. n) -> Nat]
      /\ \A s \in SUBSET (1 .. n) : g[s] = IF s = {} THEN run ELSE F[<<g[s \ {Max(s)}], Max(s)>>]
  BY <1>5 DEF Folds
<1>7. ASSUME NEW s \in SUBSET (1 .. n), s # {} PROVE g[s] = Run(g[s \ {Max(s)}], page[Max(s)])
  <2>1. Max(s) \in s
    BY <1>1, <1>7, GreatestPlace
  <2>2. Max(s) \in 1 .. n /\ s \ {Max(s)} \in SUBSET (1 .. n)
    BY <2>1
  <2>3. g[s \ {Max(s)}] \in Nat
    BY <1>6, <2>2
  <2> QED BY <1>4, <1>6, <1>7, <2>2, <2>3
<1>8. Eq(g)
  <2> DEFINE h == [s \in SUBSET (DOMAIN page) |-> IF s = {} THEN run ELSE Run(g[s \ {Max(s)}], page[Max(s)])]
  <2>1. \A s \in SUBSET (1 .. n) : h[s] = IF s = {} THEN run ELSE Run(g[s \ {Max(s)}], page[Max(s)])
    BY <1>1
  <2>2. h = [s \in SUBSET (1 .. n) |-> h[s]] /\ g = [s \in SUBSET (1 .. n) |-> g[s]]
    BY <1>1, <1>6
  <2>3. \A s \in SUBSET (1 .. n) : g[s] = IF s = {} THEN run ELSE Run(g[s \ {Max(s)}], page[Max(s)])
    BY <1>6, <1>7
  <2>4. g = h
    <3> HIDE DEF h
    <3>1. \A s \in SUBSET (1 .. n) : g[s] = h[s]
      BY <2>1, <2>3
    <3> QED BY <2>2, <3>1
  <2> QED BY <2>4
<1>9. Eq(f)
  <2> HIDE DEF Eq
  <2> QED BY <1>8
<1>10. FoldLeft(Run, run, page) = f[DOMAIN page]
  BY Zenon DEF FoldLeft, MapThenFoldSet
<1> DEFINE R == [k \in 0 .. n |-> f[1 .. k]]
<1>11. \A s \in SUBSET (1 .. n) : f[s] = IF s = {} THEN run ELSE Run(f[s \ {Max(s)}], page[Max(s)])
  <2> HIDE DEF f
  <2>1. \A s \in SUBSET (DOMAIN page) : f[s] = IF s = {} THEN run ELSE Run(f[s \ {Max(s)}], page[Max(s)])
    BY <1>9, Zenon
  <2> QED BY <1>1, <2>1
<1> HIDE DEF f
<1>12. R[0] = run
  <2>1. R[0] = f[1 .. 0]
    BY <1>1
  <2>2. (1 .. 0) = {} /\ (1 .. 0) \in SUBSET (1 .. n)
    OBVIOUS
  <2> HIDE DEF R
  <2> QED BY <1>11, <2>1, <2>2
<1>13. ASSUME NEW k \in 1 .. n PROVE R[k] = Run(R[k - 1], page[k])
  <2>1. R[k] = f[1 .. k] /\ R[k - 1] = f[1 .. k - 1]
    BY <1>1
  <2>2. /\ (1 .. k) \in SUBSET (1 .. n) /\ (1 .. k) # {} /\ Max(1 .. k) = k
        /\ (1 .. k) \ {Max(1 .. k)} = 1 .. k - 1
    BY <1>1, BeforeLast
  <2> HIDE DEF R
  <2>3. f[1 .. k] = Run(f[(1 .. k) \ {Max(1 .. k)}], page[Max(1 .. k)])
    BY <1>11, <2>2
  <2> QED BY <2>1, <2>2, <2>3
<1>14. R[n] = f[DOMAIN page]
  BY <1>1
<1> HIDE DEF R
<1>15. Counts(R, run, page)
  BY <1>10, <1>12, <1>13, <1>14 DEF Counts, n
<1> QED BY <1>15

\* All of the first k were stored, or the count is of the last ones that were.
CountIs(count, run, page, k) ==
    /\ count \in Nat
    /\ \/ count = run + k /\ \A i \in 1 .. k : page[i].id \in fetch.existing
       \/ count < k /\ \A i \in 1 .. k : i > k - count => page[i].id \in fetch.existing

\* So it is with the whole page.
LEMMA CountHolds ==
  ASSUME NEW X, NEW page \in Seq(X), NEW run \in Nat
  PROVE  CountIs(FoldLeft(Run, run, page), run, page, Len(page))
<1> DEFINE n == Len(page)
<1>1. PICK R : Counts(R, run, page)
  BY CountsExist
<1>2. R[0] = run /\ (\A k \in 1 .. n : R[k] = Run(R[k - 1], page[k])) /\ FoldLeft(Run, run, page) = R[n]
  BY <1>1 DEF Counts
<1>3. n \in Nat
  OBVIOUS
<1> HIDE DEF n
<1> DEFINE Bad == {k \in 0 .. n : ~CountIs(R[k], run, page, k)}
<1>4. ASSUME Bad # {} PROVE FALSE
  <2>1. PICK k \in Bad : \A j \in Bad : k <= j
    <3>1. Bad \subseteq Nat
      OBVIOUS
    <3> HIDE DEF Bad
    <3> QED BY <1>4, <3>1, LeastNumber
  <2>2. k # 0
    <3>1. CountIs(R[0], run, page, 0)
      BY <1>2 DEF CountIs
    <3> QED BY <2>1, <3>1
  <2>3. k \in 1 .. n /\ k - 1 \in 0 .. n /\ ~(k <= k - 1) /\ k \in Nat
    BY <1>3, <2>1, <2>2
  <2>4. CountIs(R[k - 1], run, page, k - 1)
    BY <2>1, <2>3
  <2>5. R[k] = IF page[k].id \in fetch.existing THEN R[k - 1] + 1 ELSE 0
    BY <1>2, <2>3 DEF Run
  <2>6. CountIs(R[k], run, page, k)
    <3>1. CASE page[k].id \notin fetch.existing
      <4>1. R[k] = 0 /\ k > 0
        BY <2>3, <2>5, <3>1
      <4> QED BY <2>3, <4>1 DEF CountIs
    <3>2. CASE page[k].id \in fetch.existing
      <4>1. R[k] = R[k - 1] + 1 /\ R[k - 1] \in Nat
        BY <2>4, <2>5, <3>2 DEF CountIs
      <4>2. \A i \in 1 .. k : i # k => i \in 1 .. k - 1
        BY <2>3
      <4>3. CASE R[k - 1] = run + (k - 1) /\ \A i \in 1 .. k - 1 : page[i].id \in fetch.existing
        <5>1. \A i \in 1 .. k : page[i].id \in fetch.existing
          BY <3>2, <4>2, <4>3
        <5>2. R[k] = run + k
          BY <2>3, <4>1, <4>3
        <5> QED BY <4>1, <5>1, <5>2 DEF CountIs
      <4>4. CASE R[k - 1] < k - 1 /\ \A i \in 1 .. k - 1 : i > (k - 1) - R[k - 1] => page[i].id \in fetch.existing
        <5>1. R[k] < k /\ k - R[k] = (k - 1) - R[k - 1] /\ R[k] \in Nat
          BY <2>3, <4>1, <4>4
        <5>2. \A i \in 1 .. k : i > k - R[k] => page[i].id \in fetch.existing
          BY <3>2, <4>2, <4>4, <5>1
        <5> QED BY <5>1, <5>2 DEF CountIs
      <4> QED BY <2>4, <4>3, <4>4 DEF CountIs
    <3> QED BY <3>1, <3>2
  <2> QED BY <2>1, <2>6
<1>5. n \in 0 .. n
  BY <1>3
<1>6. CountIs(R[n], run, page, n)
  BY <1>4, <1>5
<1> QED BY <1>2, <1>6 DEF n

(***************************************************************************)
(* Types.                                                                  *)
(***************************************************************************)
Fetches == [at : {"idle", "page", "save", "done"}, auto : BOOLEAN, skip : Nat, pages : Nat,
            got : Seq(ListedLines), run : Nat, existing : SUBSET (Activities \X Identifiers),
            owed : SUBSET Activities, cut : BOOLEAN]
Once(list) == \A i, j \in DOMAIN list : list[i] = list[j] => i = j
\* Lines are of what the bank lists, as it has been until now.
Known(entries, versions, list) ==
    \A i \in DOMAIN entries : entries[i].version <= versions[entries[i].of] /\ entries[i].of \in ToSet(list)

ChaseTypes ==
    /\ listing \in Seq(Activities) /\ Once(listing)
    /\ version \in [Activities -> Nat] /\ \A a \in Activities : version[a] \in 1 .. Len(IdentifiersOf[a])
    /\ log \in Seq(Lines) /\ Known(log, version, listing)
    /\ rewrite \in [reading : BOOLEAN, lines : Seq(Lines)] /\ Known(rewrite.lines, version, listing)
    /\ fetch \in Fetches /\ Known(fetch.got, version, listing)
    /\ Len(fetch.got) <= MaxTransactions
    /\ fetch.skip <= Len(listing)

\* More may be listed, and in later versions.
LEMMA KnownStays ==
  ASSUME NEW entries \in Seq(Lines), NEW versions, NEW list, Known(entries, versions, list),
         NEW later \in [Activities -> Nat], NEW longer, versions \in [Activities -> Nat],
         \A a \in Activities : versions[a] <= later[a],
         ToSet(list) \subseteq ToSet(longer)
  PROVE  Known(entries, later, longer)
<1> SUFFICES ASSUME NEW i \in DOMAIN entries
             PROVE  entries[i].version <= later[entries[i].of] /\ entries[i].of \in ToSet(longer)
  BY DEF Known
<1>1. entries[i].of \in Activities /\ entries[i].version \in Nat
  BY LineIs
<1>2. entries[i].version <= versions[entries[i].of] /\ entries[i].of \in ToSet(list)
  BY DEF Known
<1>3. versions[entries[i].of] \in Nat /\ later[entries[i].of] \in Nat /\ versions[entries[i].of] <= later[entries[i].of]
  BY <1>1
<1> QED BY <1>1, <1>2, <1>3

\* Of lines that are known others can be made.
LEMMA KnownLines ==
  ASSUME NEW entries, NEW others, NEW versions, NEW list, Known(entries, versions, list),
         ToSet(others) \subseteq ToSet(entries)
  PROVE  Known(others, versions, list)
<1> SUFFICES ASSUME NEW i \in DOMAIN others
             PROVE  others[i].version <= versions[others[i].of] /\ others[i].of \in ToSet(list)
  BY DEF Known
<1>1. PICK j \in DOMAIN entries : entries[j] = others[i]
  BY DEF ToSet
<1> QED BY <1>1 DEF Known

\* Where the last activity that was got stands.
IsLast(p) ==
    IF Len(fetch.got) = 0 THEN p = fetch.skip
    ELSE p \in DOMAIN listing /\ listing[p] = fetch.got[Len(fetch.got)].of

\* The parts of the types.
LEMMA TypesAre ==
  ASSUME ChaseTypes
  PROVE  /\ fetch.got \in Seq(ListedLines) /\ fetch.got \in Seq(Lines) /\ Len(fetch.got) \in Nat
         /\ DOMAIN fetch.got = 1 .. Len(fetch.got) /\ \A i \in DOMAIN fetch.got : fetch.got[i] \in ListedLines
         /\ Len(listing) \in Nat /\ DOMAIN listing = 1 .. Len(listing)
         /\ fetch.skip \in Nat /\ fetch.skip <= Len(listing) /\ fetch.run \in Nat
<1>1. fetch.got \in Seq(ListedLines) /\ fetch.skip \in Nat /\ fetch.run \in Nat
  BY DEF ChaseTypes, Fetches
<1>2. ListedLines \subseteq Lines
  BY DEF Lines
<1>3. fetch.got \in Seq(Lines)
  <2>1. \A i \in 1 .. Len(fetch.got) : fetch.got[i] \in Lines
    BY <1>1, <1>2
  <2> QED BY <1>1, <2>1
<1> QED BY <1>1, <1>3 DEF ChaseTypes

\* The rest is what is behind it.
LEMMA RestIs ==
  ASSUME ChaseTypes
  PROVE  \E p \in 0 .. Len(listing) :
             /\ IsLast(p) /\ Rest \in Seq(Activities) /\ Len(Rest) = Len(listing) - p
             /\ \A i \in 1 .. Len(Rest) : Rest[i] = listing[p + i]
<1> DEFINE N == Len(listing)
<1> DEFINE m == Len(fetch.got)
<1> DEFINE last == IF fetch.got = <<>> THEN fetch.skip ELSE CHOOSE i \in DOMAIN listing : listing[i] = Last(fetch.got).of
<1>1. listing \in Seq(Activities) /\ N \in Nat /\ DOMAIN listing = 1 .. N
  BY TypesAre DEF ChaseTypes
<1>2. fetch.got = <<>> <=> m = 0
  BY TypesAre
<1>3. last \in 0 .. N /\ IsLast(last)
  <2>1. CASE m = 0
    BY <1>2, <2>1, TypesAre DEF IsLast
  <2>2. CASE m # 0
    <3>1. m \in DOMAIN fetch.got /\ Last(fetch.got) = fetch.got[m]
      BY <2>2, TypesAre DEF Last
    <3>2. fetch.got[m].of \in ToSet(listing)
      BY <3>1 DEF ChaseTypes, Known
    <3>3. \E i \in DOMAIN listing : listing[i] = Last(fetch.got).of
      BY <3>1, <3>2 DEF ToSet
    <3>4. last = CHOOSE i \in DOMAIN listing : listing[i] = Last(fetch.got).of
      BY <1>2, <2>2
    <3>5. last \in DOMAIN listing /\ listing[last] = fetch.got[m].of
      <4> HIDE DEF last
      <4> QED BY <3>1, <3>3, <3>4
    <3> HIDE DEF last
    <3> QED BY <1>1, <2>2, <3>5 DEF IsLast
  <2> QED BY <2>1, <2>2
<1>4. Rest = SubSeq(listing, last + 1, N)
  BY Zenon DEF Rest
<1> HIDE DEF last, N
<1>5. /\ SubSeq(listing, last + 1, N) \in Seq(Activities) /\ Len(SubSeq(listing, last + 1, N)) = N + 1 - (last + 1)
      /\ \A i \in 1 .. N + 1 - (last + 1) : SubSeq(listing, last + 1, N)[i] = listing[(last + 1) + i - 1]
  <2>1. last + 1 \in Nat /\ 1 <= last + 1 /\ last + 1 <= N + 1 /\ N <= Len(listing)
    BY <1>1, <1>3 DEF N
  <2> QED BY <1>1, <2>1, SubSeqIs
<1>6. N + 1 - (last + 1) = N - last /\ \A i \in 1 .. N - last : (last + 1) + i - 1 = last + i
  BY <1>1, <1>3
<1> QED BY <1>3, <1>4, <1>5, <1>6 DEF N

\* A page is of what comes next, as it is listed now.
PageIs(page, p) ==
    /\ page \in Seq(ListedLines) /\ p + Len(page) <= Len(listing)
    /\ \A i \in 1 .. Len(page) : page[i].of = listing[p + i] /\ page[i].version = version[page[i].of]
\* What has been got with it is cut short, or is all there is to get, or goes on.
Fetched(page, p) ==
    /\ fetch' \in Fetches /\ Len(fetch'.got) <= MaxTransactions
    /\ fetch'.auto = fetch.auto /\ fetch'.skip = fetch.skip
    /\ fetch'.existing = fetch.existing /\ fetch'.owed = fetch.owed
    /\ \/ /\ fetch'.at = "save" /\ fetch'.cut
          /\ Len(fetch'.got) <= Len(fetch.got \o page)
          /\ \A i \in 1 .. Len(fetch'.got) : fetch'.got[i] = (fetch.got \o page)[i]
       \/ /\ fetch'.at = "save" /\ fetch'.got = fetch.got \o page /\ fetch'.cut = fetch.cut
          /\ \/ p + Len(page) = Len(listing)
             \/ fetch.auto /\ FoldLeft(Run, fetch.run, page) >= Threshold
       \/ /\ fetch'.at = "page" /\ fetch'.got = fetch.got \o page /\ fetch'.cut = fetch.cut
          /\ fetch'.run = FoldLeft(Run, fetch.run, page)

\* An activity as it is listed now.
LEMMA ListedNow ==
  ASSUME ChaseTypes, NEW a \in Activities
  PROVE  /\ chase_activity_to_transaction(a) \in ListedLines
         /\ chase_activity_to_transaction(a).of = a /\ chase_activity_to_transaction(a).version = version[a]
<1> DEFINE identifiers == IdentifiersOf[a][version[a]]
<1>1. /\ version[a] \in 1 .. Len(IdentifiersOf[a]) /\ version[a] \in Nat
      /\ identifiers \in SUBSET Identifiers /\ identifiers # {}
  BY IdentifiersAre DEF ChaseTypes
<1>2. stable_id(identifiers) \in identifiers
  <2> HIDE DEF identifiers
  <2> QED BY <1>1 DEF stable_id, Identifiers
<1> DEFINE line == [id |-> <<a, stable_id(identifiers)>>, time |-> TimeOf[a], of |-> a, version |-> version[a],
                    aliases |-> {<<a, i>> : i \in identifiers}]
<1>3. chase_activity_to_transaction(a) = line
  BY DEF chase_activity_to_transaction
<1>4. TimeOf[a] \in Nat
  BY ChaseAssumption
<1> HIDE DEF identifiers
<1>5. line.aliases = {a} \X identifiers /\ line.id \in line.aliases
  BY <1>2
<1>6. line.of = a /\ line.version = version[a] /\ line.id = <<a, stable_id(identifiers)>> /\ line.time = TimeOf[a]
  OBVIOUS
<1>7. line \in LineShapes
  <2>1. <<a, stable_id(identifiers)>> \in Activities \X Identifiers
    BY <1>1, <1>2
  <2>2. {<<a, i>> : i \in identifiers} \in SUBSET (Activities \X Identifiers)
    BY <1>1
  <2> QED BY <1>1, <1>4, <2>1, <2>2 DEF LineShapes
<1> HIDE DEF line
<1>8. line \in ListedLines
  BY <1>1, <1>5, <1>6, <1>7 DEF ListedLines, identifiers
<1> QED BY <1>3, <1>6, <1>8

\* The two ways on.
LEMMA StopIs ==
  ASSUME ChaseTypes, NEW got \in Seq(ListedLines), NEW through \in BOOLEAN, Stop(got, through)
  PROVE  /\ fetch' \in Fetches /\ fetch'.at = "save" /\ fetch'.got = got
         /\ fetch'.auto = fetch.auto /\ fetch'.skip = fetch.skip
         /\ fetch'.existing = fetch.existing /\ fetch'.owed = fetch.owed
         /\ fetch'.cut = (fetch.cut \/ ~through)
<1>1. fetch \in Fetches
  BY DEF ChaseTypes
<1>2. fetch' = [fetch EXCEPT !.at = "save", !.got = got, !.cut = fetch.cut \/ ~through]
  BY DEF Stop
<1>3. fetch.cut \in BOOLEAN
  BY <1>1 DEF Fetches
<1> QED BY <1>1, <1>2, <1>3 DEF Fetches

\* The sync goes on with what it has got.
LEMMA GoOnIs ==
  ASSUME ChaseTypes, NEW got \in Seq(ListedLines), NEW run \in Nat,
         fetch' = [fetch EXCEPT !.got = got, !.run = run, !.pages = @ + 1]
  PROVE  /\ fetch' \in Fetches /\ fetch'.at = fetch.at /\ fetch'.got = got /\ fetch'.run = run
         /\ fetch'.auto = fetch.auto /\ fetch'.skip = fetch.skip
         /\ fetch'.existing = fetch.existing /\ fetch'.owed = fetch.owed /\ fetch'.cut = fetch.cut
<1>1. fetch \in Fetches
  BY DEF ChaseTypes
<1>2. fetch.pages + 1 \in Nat
  BY <1>1 DEF Fetches
<1> QED BY <1>1, <1>2 DEF Fetches

\* What a page fetched comes to.
LEMMA FetchPageIs ==
  ASSUME ChaseTypes, NEW n \in 0 .. PageSize, NEW odd \in BOOLEAN, FetchPage(n, odd)
  PROVE  \E p \in 0 .. Len(listing) : \E page : IsLast(p) /\ PageIs(page, p) /\ Fetched(page, p)
<1> DEFINE all == fetch.got
<1> DEFINE size == Min({n, Len(Rest)})
<1> DEFINE page == [i \in 1 .. size |-> chase_activity_to_transaction(Rest[i])]
<1> DEFINE got == fetch.got \o page
<1> DEFINE run == FoldLeft(Run, fetch.run, page)
<1> DEFINE more == Len(page) < Len(Rest)
<1>0. /\ fetch.at = "page" /\ (n = 0 => odd \/ Rest = <<>>)
      /\ \/ fetch.pages = MaxPages /\ Stop(fetch.got, FALSE)
         \/ /\ fetch.pages < MaxPages
            /\ \/ page = <<>> /\ Stop(got, ~odd)
               \/ page # <<>> /\ Len(got) > MaxTransactions
                  /\ Stop(SubSeq(got, 1, MaxTransactions), FALSE)
               \/ /\ page # <<>> /\ Len(got) <= MaxTransactions
                  /\ \/ fetch.auto /\ run >= Threshold /\ Stop(got, TRUE)
                     \/ ~(fetch.auto /\ run >= Threshold) /\ ~more /\ Stop(got, TRUE)
                     \/ ~(fetch.auto /\ run >= Threshold) /\ more /\ odd /\ Stop(got, FALSE)
                     \/ /\ ~(fetch.auto /\ run >= Threshold) /\ more /\ ~odd
                        /\ fetch' = [fetch EXCEPT !.got = got, !.run = run, !.pages = @ + 1]
  BY Zenon DEF FetchPage
<1>1. PICK p \in 0 .. Len(listing) :
             /\ IsLast(p) /\ Rest \in Seq(Activities) /\ Len(Rest) = Len(listing) - p
             /\ \A i \in 1 .. Len(Rest) : Rest[i] = listing[p + i]
  BY RestIs
<1>2. n \in Nat /\ Len(Rest) \in Nat /\ Len(listing) \in Nat /\ MaxTransactions \in Nat /\ p \in Nat
  BY <1>1, TypesAre, ChaseAssumption
<1>3. size = (IF n <= Len(Rest) THEN n ELSE Len(Rest))
  BY <1>2, MinOfTwo
<1>4. size \in Nat /\ size <= Len(Rest) /\ (size = 0 => n = 0 \/ Len(Rest) = 0)
  BY <1>2, <1>3
<1> HIDE DEF size
<1>5. ASSUME NEW i \in 1 .. size
      PROVE  /\ chase_activity_to_transaction(Rest[i]) \in ListedLines
             /\ chase_activity_to_transaction(Rest[i]).of = listing[p + i]
             /\ chase_activity_to_transaction(Rest[i]).version = version[listing[p + i]]
  <2>1. i \in 1 .. Len(Rest)
    BY <1>2, <1>4
  <2>2. Rest[i] \in Activities /\ Rest[i] = listing[p + i]
    BY <1>1, <2>1
  <2> QED BY <2>2, ListedNow
<1>6. page \in Seq(ListedLines) /\ Len(page) = size /\ \A i \in 1 .. size : page[i] = chase_activity_to_transaction(Rest[i])
  BY <1>4, <1>5
<1> HIDE DEF page
<1>7. PageIs(page, p)
  <2>1. p + Len(page) <= Len(listing)
    BY <1>1, <1>2, <1>4, <1>6
  <2> QED BY <1>5, <1>6, <2>1 DEF PageIs
<1>8. /\ got \in Seq(ListedLines) /\ Len(got) = Len(fetch.got) + Len(page)
      /\ \A i \in 1 .. Len(fetch.got) + Len(page) :
             got[i] = IF i <= Len(fetch.got) THEN fetch.got[i] ELSE page[i - Len(fetch.got)]
  BY <1>6, TypesAre, JoinedLists
<1>9. Len(fetch.got) \in Nat /\ Len(fetch.got) <= MaxTransactions /\ fetch.got \in Seq(ListedLines) /\ fetch.run \in Nat
  BY TypesAre DEF ChaseTypes
<1>10. run \in Nat
  BY <1>6, <1>9, CountHolds DEF CountIs
<1> HIDE DEF got, run
<1>11. fetch.cut \in BOOLEAN
  BY DEF ChaseTypes, Fetches
<1>12. CASE fetch.pages = MaxPages /\ Stop(fetch.got, FALSE)
  <2>1. /\ fetch' \in Fetches /\ fetch'.at = "save" /\ fetch'.got = fetch.got
        /\ fetch'.auto = fetch.auto /\ fetch'.skip = fetch.skip
        /\ fetch'.existing = fetch.existing /\ fetch'.owed = fetch.owed
        /\ fetch'.cut = (fetch.cut \/ ~FALSE)
    BY <1>9, <1>12, StopIs
  <2>2. Len(fetch'.got) <= Len(got) /\ \A i \in 1 .. Len(fetch'.got) : fetch'.got[i] = got[i]
    BY <1>4, <1>6, <1>8, <1>9, <2>1
  <2>3. Fetched(page, p)
    BY <1>9, <2>1, <2>2 DEF Fetched, got
  <2> QED BY <1>1, <1>7, <2>3
<1>13. CASE page = <<>> /\ Stop(got, ~odd)
  <2>1. /\ fetch' \in Fetches /\ fetch'.at = "save" /\ fetch'.got = got
        /\ fetch'.auto = fetch.auto /\ fetch'.skip = fetch.skip
        /\ fetch'.existing = fetch.existing /\ fetch'.owed = fetch.owed
        /\ fetch'.cut = (fetch.cut \/ ~~odd)
    BY <1>8, <1>13, StopIs
  <2>2. Len(page) = 0 /\ size = 0
    BY <1>6, <1>13
  <2>3. Len(got) <= MaxTransactions
    BY <1>8, <1>9, <2>2
  <2>4. CASE odd
    <3>1. Len(fetch'.got) <= Len(got) /\ \A i \in 1 .. Len(fetch'.got) : fetch'.got[i] = got[i]
      BY <1>8, <1>9, <2>1, <2>2
    <3>2. Fetched(page, p)
      BY <2>1, <2>3, <2>4, <3>1 DEF Fetched, got
    <3> QED BY <1>1, <1>7, <3>2
  <2>5. CASE ~odd
    <3>1. Len(Rest) = 0
      <4>1. Rest = <<>> => Len(Rest) = 0
        OBVIOUS
      <4> QED BY <1>0, <1>4, <2>2, <2>5, <4>1
    <3>2. p + Len(page) = Len(listing)
      BY <1>1, <1>2, <2>2, <3>1
    <3>3. fetch'.cut = fetch.cut
      BY <1>11, <2>1, <2>5
    <3>4. Fetched(page, p)
      BY <2>1, <2>3, <3>2, <3>3 DEF Fetched, got
    <3> QED BY <1>1, <1>7, <3>4
  <2> QED BY <2>4, <2>5
<1>14. CASE Len(got) > MaxTransactions /\ Stop(SubSeq(got, 1, MaxTransactions), FALSE)
  <2> DEFINE first == SubSeq(got, 1, MaxTransactions)
  <2>1. /\ first \in Seq(ListedLines) /\ Len(first) = MaxTransactions + 1 - 1
        /\ \A i \in 1 .. MaxTransactions + 1 - 1 : first[i] = got[1 + i - 1]
    <3>1. 1 \in Nat /\ 1 <= 1 /\ 1 <= MaxTransactions + 1 /\ MaxTransactions <= Len(got)
      BY <1>2, <1>6, <1>8, <1>9, <1>14
    <3> QED BY <1>2, <1>8, <3>1, SubSeqIs
  <2>2. Len(first) = MaxTransactions /\ \A i \in 1 .. MaxTransactions : first[i] = got[i]
    BY <1>2, <2>1
  <2> HIDE DEF first
  <2>3. Stop(first, FALSE)
    BY <1>14 DEF first
  <2>4. /\ fetch' \in Fetches /\ fetch'.at = "save" /\ fetch'.got = first
        /\ fetch'.auto = fetch.auto /\ fetch'.skip = fetch.skip
        /\ fetch'.existing = fetch.existing /\ fetch'.owed = fetch.owed
        /\ fetch'.cut = (fetch.cut \/ ~FALSE)
    BY <2>1, <2>3, StopIs
  <2>5. Len(fetch'.got) <= Len(got) /\ \A i \in 1 .. Len(fetch'.got) : fetch'.got[i] = got[i]
    BY <1>2, <1>6, <1>8, <1>9, <1>14, <2>2, <2>4
  <2>6. Len(fetch'.got) <= MaxTransactions
    BY <1>2, <2>2, <2>4
  <2>7. Fetched(page, p)
    BY <2>4, <2>5, <2>6 DEF Fetched, got
  <2> QED BY <1>1, <1>7, <2>7
<1>15. CASE Len(got) <= MaxTransactions /\ fetch.auto /\ run >= Threshold /\ Stop(got, TRUE)
  <2>1. /\ fetch' \in Fetches /\ fetch'.at = "save" /\ fetch'.got = got
        /\ fetch'.auto = fetch.auto /\ fetch'.skip = fetch.skip
        /\ fetch'.existing = fetch.existing /\ fetch'.owed = fetch.owed
        /\ fetch'.cut = (fetch.cut \/ ~TRUE)
    BY <1>8, <1>15, StopIs
  <2>2. fetch'.cut = fetch.cut
    BY <1>11, <2>1
  <2>3. Fetched(page, p)
    BY <1>15, <2>1, <2>2 DEF Fetched, got, run
  <2> QED BY <1>1, <1>7, <2>3
<1>16. CASE Len(got) <= MaxTransactions /\ ~more /\ Stop(got, TRUE)
  <2>1. /\ fetch' \in Fetches /\ fetch'.at = "save" /\ fetch'.got = got
        /\ fetch'.auto = fetch.auto /\ fetch'.skip = fetch.skip
        /\ fetch'.existing = fetch.existing /\ fetch'.owed = fetch.owed
        /\ fetch'.cut = (fetch.cut \/ ~TRUE)
    BY <1>8, <1>16, StopIs
  <2>2. fetch'.cut = fetch.cut
    BY <1>11, <2>1
  <2>3. p + Len(page) = Len(listing)
    BY <1>1, <1>2, <1>4, <1>6, <1>16
  <2>4. Fetched(page, p)
    BY <1>16, <2>1, <2>2, <2>3 DEF Fetched, got
  <2> QED BY <1>1, <1>7, <2>4
<1>17. CASE Len(got) <= MaxTransactions /\ Stop(got, FALSE)
  <2>1. /\ fetch' \in Fetches /\ fetch'.at = "save" /\ fetch'.got = got
        /\ fetch'.auto = fetch.auto /\ fetch'.skip = fetch.skip
        /\ fetch'.existing = fetch.existing /\ fetch'.owed = fetch.owed
        /\ fetch'.cut = (fetch.cut \/ ~FALSE)
    BY <1>8, <1>17, StopIs
  <2>2. Len(fetch'.got) <= Len(got) /\ \A i \in 1 .. Len(fetch'.got) : fetch'.got[i] = got[i]
    BY <1>4, <1>6, <1>8, <1>9, <2>1
  <2>3. Fetched(page, p)
    BY <1>17, <2>1, <2>2 DEF Fetched, got
  <2> QED BY <1>1, <1>7, <2>3
<1>18. CASE Len(got) <= MaxTransactions /\ fetch' = [fetch EXCEPT !.got = got, !.run = run, !.pages = @ + 1]
  <2>1. /\ fetch' \in Fetches /\ fetch'.at = fetch.at /\ fetch'.got = got /\ fetch'.run = run
        /\ fetch'.auto = fetch.auto /\ fetch'.skip = fetch.skip
        /\ fetch'.existing = fetch.existing /\ fetch'.owed = fetch.owed /\ fetch'.cut = fetch.cut
    BY <1>8, <1>10, <1>18, GoOnIs
  <2>2. Fetched(page, p)
    BY <1>0, <1>18, <2>1 DEF Fetched, got, run
  <2> QED BY <1>1, <1>7, <2>2
<1> QED BY <1>0, <1>12, <1>13, <1>14, <1>15, <1>16, <1>17, <1>18 DEF page, got, run, size

(***************************************************************************)
(* What hides an activity: an automatic sync stops at Threshold stored     *)
(* ones in a row, and what is listed below them is not read.  As long as   *)
(* nothing came late and no sync was cut short nothing is hidden; a sync   *)
(* under way keeps to that above what it has got, and below it unless it   *)
(* is bound to read the activity, because what follows is no run of stored *)
(* ones long enough to stop it.                                            *)
(***************************************************************************)
Hidden(list, seen, q) == \E first \in 1 .. q - Threshold :
    \A j \in first .. first + Threshold - 1 : list[j] \in seen
Fine == ~cut /\ ~deep /\ ~raced
SeenNow == About(log) \cup About(fetch.got)

InOrder == \A i, j \in DOMAIN fetch.got, p, q \in DOMAIN listing :
    i < j /\ listing[p] = fetch.got[i].of /\ listing[q] = fetch.got[j].of => p < q
ReadTrue == rewrite.reading /\ ~raced => rewrite.lines = log
NoneHidden == Fine => \A q \in DOMAIN listing :
    listing[q] \notin About(log) => ~Hidden(listing, About(log), q)
\* What was stored when the sync began is stored; without a date it began at the top.
Began == fetch.at = "page" =>
    /\ ~raced => \A id \in fetch.existing : id[1] \in About(log)
    /\ ~fetch.cut => fetch.skip = 0
\* What was listed then has been got or comes next.
OwedAhead == fetch.at = "page" /\ ~fetch.cut =>
    \A p \in 0 .. Len(listing) : IsLast(p) =>
        \A x \in fetch.owed : x \in About(fetch.got) \/ \E q \in DOMAIN listing : q > p /\ listing[q] = x
AboveLast == fetch.at = "page" /\ ~fetch.cut /\ Fine =>
    \A p \in 0 .. Len(listing) : IsLast(p) =>
        \A q \in DOMAIN listing : q < p /\ listing[q] \notin SeenNow => ~Hidden(listing, SeenNow, q)
\* The sync would stop above q.
Reaches(list, have, run, p, q) == \A j \in p + 1 .. p + Threshold - run : j < q /\ list[j] \in have
BelowLast == fetch.at = "page" /\ ~fetch.cut /\ Fine =>
    \A p \in 0 .. Len(listing) : IsLast(p) =>
        \A q \in DOMAIN listing :
            q > p /\ listing[q] \notin SeenNow /\ Reaches(listing, About(log), fetch.run, p, q) =>
                listing[q] \notin fetch.owed /\ ~Hidden(listing, SeenNow, q)
AtSave == fetch.at = "save" /\ ~fetch.cut /\ ~raced =>
    /\ Fine => \A q \in DOMAIN listing : listing[q] \notin SeenNow => ~Hidden(listing, SeenNow, q)
    /\ ~fetch.auto \/ Fine => fetch.owed \subseteq SeenNow
AtDone == fetch.at = "done" /\ ~raced =>
    /\ ToSet(fetch.got) \subseteq get_transactions(log)
    /\ ~fetch.cut /\ (~fetch.auto \/ Fine) => fetch.owed \subseteq About(log)

SyncInv == InOrder /\ NoneHidden /\ Began /\ OwedAhead /\ AboveLast /\ BelowLast /\ AtSave /\ AtDone
ChaseInv == ChaseTypes /\ ReadTrue /\ SyncInv

\* It is about what is listed, stored and got.
LEMMA SyncSame ==
  ASSUME SyncInv, UNCHANGED <<listing, log, fetch, cut, deep, raced>>
  PROVE  SyncInv'
<1>1. InOrder' /\ NoneHidden' /\ Began'
  BY DEF SyncInv, InOrder, NoneHidden, Began, Fine
<1>2. OwedAhead'
  BY DEF SyncInv, OwedAhead, IsLast
<1>3. AboveLast'
  BY DEF SyncInv, AboveLast, Fine, SeenNow, IsLast
<1>4. BelowLast'
  BY DEF SyncInv, BelowLast, Fine, SeenNow, IsLast
<1>5. AtSave' /\ AtDone'
  BY DEF SyncInv, AtSave, AtDone, Fine, SeenNow
<1> QED BY <1>1, <1>2, <1>3, <1>4, <1>5 DEF SyncInv

\* No sync is under way.
LEMMA NoneUnderWay ==
  ASSUME NoneHidden', fetch' = NoFetch
  PROVE  SyncInv'
<1>1. fetch'.at = "idle" /\ fetch'.got = <<>> /\ DOMAIN fetch'.got = {}
  BY DEF NoFetch
<1> QED BY <1>1 DEF SyncInv, InOrder, Began, OwedAhead, AboveLast, BelowLast, AtSave, AtDone

\* No sync is under way.
LEMMA NoFetchIs == NoFetch \in Fetches /\ NoFetch.at = "idle" /\ NoFetch.got = <<>> /\ NoFetch.skip = 0
<1>1. <<>> \in Seq(ListedLines)
  OBVIOUS
<1> QED BY <1>1 DEF NoFetch, Fetches

\* No recompaction is.
LEMMA NoRewriteIs == NoRewrite \in [reading : BOOLEAN, lines : Seq(Lines)] /\ ~NoRewrite.reading /\ NoRewrite.lines = <<>>
<1>1. <<>> \in Seq(Lines)
  OBVIOUS
<1> QED BY <1>1 DEF NoRewrite

\* Nothing is known of no lines.
LEMMA KnownNone == ASSUME NEW versions, NEW list PROVE Known(<<>>, versions, list)
<1>1. DOMAIN <<>> = {}
  OBVIOUS
<1> QED BY <1>1 DEF Known

\* At first.
LEMMA ChaseStarts == ASSUME ChaseInit PROVE ChaseInv
<1> USE DEF ChaseInit
<1>1. /\ FirstListed \in Seq(Activities) /\ Once(FirstListed)
      /\ OldLog \in Seq(OldLines) /\ MaxTransactions \in Nat
  BY ChaseAssumption DEF Once
<1>2. OldLog \in Seq(Lines) /\ Len(OldLog) \in Nat /\ DOMAIN OldLog = 1 .. Len(OldLog)
      /\ \A i \in DOMAIN OldLog : OldLog[i] \in OldLines
  <2>1. \A i \in 1 .. Len(OldLog) : OldLog[i] \in Lines
    BY <1>1 DEF Lines
  <2> QED BY <1>1, <2>1
<1>3. version \in [Activities -> Nat] /\ \A a \in Activities : version[a] \in 1 .. Len(IdentifiersOf[a])
  BY IdentifiersAre
<1>4. Known(OldLog, version, FirstListed)
  <2>1. ASSUME NEW i \in DOMAIN OldLog
        PROVE  OldLog[i].version <= version[OldLog[i].of] /\ OldLog[i].of \in ToSet(FirstListed)
    <3>1. OldLog[i].version = 0 /\ OldLog[i].of \in ToSet(FirstListed) /\ OldLog[i] \in Lines
      BY <1>2, OldLineIs DEF Lines
    <3>2. OldLog[i].of \in Activities
      BY <3>1, LineIs
    <3>3. version[OldLog[i].of] \in Nat
      BY <1>3, <3>2
    <3> QED BY <3>1, <3>3
  <2> QED BY <2>1 DEF Known
<1>5. Len(<<>>) = 0 /\ Len(FirstListed) \in Nat
  BY <1>1
<1>6. ChaseTypes
  BY <1>1, <1>2, <1>3, <1>4, <1>5, NoFetchIs, NoRewriteIs, KnownNone DEF ChaseTypes
<1>7. ReadTrue
  BY NoRewriteIs DEF ReadTrue
<1>8. NoneHidden
  <2>1. About(OldLog) = OldOnes
    BY DEF About, OldOnes, ToSet
  <2>2. \A i \in DOMAIN FirstListed : FirstListed[i] \notin OldOnes =>
           ~ \E first \in 1 .. i - Threshold :
                 \A j \in first .. first + Threshold - 1 : FirstListed[j] \in OldOnes
    BY ChaseAssumption
  <2> QED BY <2>1, <2>2 DEF NoneHidden, Hidden
<1>9. SyncInv
  <2>1. fetch.at = "idle" /\ fetch.got = <<>> /\ DOMAIN fetch.got = {}
    BY DEF NoFetch
  <2> QED BY <1>8, <2>1 DEF SyncInv, InOrder, Began, OwedAhead, AboveLast, BelowLast, AtSave, AtDone
<1> QED BY <1>6, <1>7, <1>9 DEF ChaseInv

\* An activity settles.
LEMMA SettleKeeps ==
  ASSUME ChaseInv, NEW a \in Activities, Settle(a)
  PROVE  ChaseInv'
<1>1. /\ version \in [Activities -> Nat] /\ \A b \in Activities : version[b] \in 1 .. Len(IdentifiersOf[b])
      /\ version[a] < Len(IdentifiersOf[a]) /\ version' = [version EXCEPT ![a] = @ + 1]
      /\ UNCHANGED <<listing, log, fetch, rewrite, cut, deep, raced>>
  BY DEF ChaseInv, ChaseTypes, Settle
<1>2. /\ version' \in [Activities -> Nat]
      /\ \A b \in Activities : version'[b] \in 1 .. Len(IdentifiersOf[b]) /\ version[b] <= version'[b]
  <2>1. Len(IdentifiersOf[a]) \in Nat
    BY IdentifiersAre
  <2>2. \A b \in Activities : version'[b] = IF b = a THEN version[a] + 1 ELSE version[b]
    BY <1>1
  <2>3. version' \in [Activities -> Nat]
    BY <1>1
  <2>4. ASSUME NEW b \in Activities PROVE version'[b] \in 1 .. Len(IdentifiersOf[b]) /\ version[b] <= version'[b]
    <3>1. version[b] \in 1 .. Len(IdentifiersOf[b]) /\ version[b] \in Nat /\ Len(IdentifiersOf[b]) \in Nat
      BY <1>1, IdentifiersAre
    <3> QED BY <1>1, <2>1, <2>2, <3>1
  <2> QED BY <2>3, <2>4
<1>3. /\ log \in Seq(Lines) /\ rewrite.lines \in Seq(Lines) /\ fetch.got \in Seq(Lines)
      /\ Known(log, version, listing) /\ Known(rewrite.lines, version, listing) /\ Known(fetch.got, version, listing)
  BY TypesAre DEF ChaseInv, ChaseTypes
<1>4. Known(log, version', listing) /\ Known(rewrite.lines, version', listing) /\ Known(fetch.got, version', listing)
  BY <1>1, <1>2, <1>3, KnownStays
<1>5. ChaseTypes'
  BY <1>1, <1>2, <1>4 DEF ChaseInv, ChaseTypes
<1>6. SyncInv'
  BY <1>1, SyncSame DEF ChaseInv
<1> QED BY <1>1, <1>5, <1>6 DEF ChaseInv, ReadTrue

\* A sync is over.
LEMMA EndKeeps ==
  ASSUME ChaseInv, FetchFails \/ Return
  PROVE  ChaseInv'
<1>1. fetch' = NoFetch /\ UNCHANGED <<listing, version, log, rewrite, cut, deep, raced>>
  BY DEF FetchFails, Return
<1>2. ChaseTypes'
  <2>1. Len(<<>>) = 0 /\ MaxTransactions \in Nat /\ Len(listing) \in Nat
    BY TypesAre, ChaseAssumption DEF ChaseInv
  <2>2. fetch' \in Fetches /\ Known(fetch'.got, version, listing) /\ Len(fetch'.got) <= MaxTransactions
        /\ fetch'.skip <= Len(listing)
    BY <1>1, <2>1, NoFetchIs, KnownNone
  <2> QED BY <1>1, <2>2 DEF ChaseInv, ChaseTypes
<1>3. NoneHidden'
  BY <1>1 DEF ChaseInv, SyncInv, NoneHidden, Fine
<1> QED BY <1>1, <1>2, <1>3, NoneUnderWay DEF ChaseInv, ReadTrue

\* A recompaction begins.
LEMMA ReadKeeps ==
  ASSUME ChaseInv, RecompactRead
  PROVE  ChaseInv'
<1>1. rewrite' = [reading |-> TRUE, lines |-> log] /\ UNCHANGED <<listing, version, log, fetch, cut, deep, raced>>
  BY DEF RecompactRead
<1>2. ChaseTypes'
  <2>1. log \in Seq(Lines) /\ Known(log, version, listing)
    BY DEF ChaseInv, ChaseTypes
  <2>2. rewrite' \in [reading : BOOLEAN, lines : Seq(Lines)] /\ rewrite'.lines = log
    BY <1>1, <2>1
  <2> QED BY <1>1, <2>1, <2>2 DEF ChaseInv, ChaseTypes
<1>3. SyncInv'
  BY <1>1, SyncSame DEF ChaseInv
<1>4. ReadTrue'
  BY <1>1 DEF ReadTrue
<1> QED BY <1>2, <1>3, <1>4 DEF ChaseInv

\* It is about what readers see, if nobody overwrote anything.
LEMMA SyncSeen ==
  ASSUME SyncInv, UNCHANGED <<listing, fetch, cut, deep, raced>>,
         ~raced => About(log') = About(log) /\ get_transactions(log') = get_transactions(log)
  PROVE  SyncInv'
<1>1. InOrder' /\ NoneHidden' /\ Began'
  BY DEF SyncInv, InOrder, NoneHidden, Began, Fine
<1>2. OwedAhead'
  BY DEF SyncInv, OwedAhead, IsLast
<1>3. AboveLast'
  BY DEF SyncInv, AboveLast, Fine, SeenNow, IsLast
<1>4. BelowLast'
  BY DEF SyncInv, BelowLast, Fine, SeenNow, IsLast
<1>5. AtSave' /\ AtDone'
  BY DEF SyncInv, AtSave, AtDone, Fine, SeenNow
<1> QED BY <1>1, <1>2, <1>3, <1>4, <1>5 DEF SyncInv

\* A recompaction ends, or metadata has been filled in.
LEMMA RewriteKeeps ==
  ASSUME ChaseInv, recompact_all_jsonl \/ backfill_transaction_metadata_all
  PROVE  /\ ChaseInv'
         /\ ~raced => get_transactions(log') = get_transactions(log)
<1> DEFINE entries == rewrite.lines
<1>1. /\ rewrite.reading /\ rewrite' = NoRewrite /\ (log' = compact(entries) \/ log' = entries)
      /\ UNCHANGED <<listing, version, fetch, cut, deep, raced>>
  BY DEF recompact_all_jsonl, backfill_transaction_metadata_all
<1>2. entries \in Seq(Lines) /\ Known(entries, version, listing) /\ log \in Seq(Lines) /\ (~raced => entries = log)
  BY <1>1 DEF ChaseInv, ChaseTypes, ReadTrue
<1> HIDE DEF entries
<1>3. /\ compact(entries) \in Seq(ToSet(entries)) /\ get_transactions(compact(entries)) = get_transactions(entries)
  <2>1. Lined(entries) /\ \A i \in DOMAIN entries : entries[i].time \in Nat
    BY <1>2, LinesLined, LineIs
  <2> QED BY <2>1, CompactIs
<1>4. log' \in Seq(ToSet(entries)) /\ get_transactions(log') = get_transactions(entries)
  <2>1. entries \in Seq(ToSet(entries))
    BY <1>2, LinesLined DEF Lined
  <2> QED BY <1>1, <1>3, <2>1
<1>5. log' \in Seq(Lines) /\ Known(log', version, listing)
  <2>1. \A l \in ToSet(entries) : l \in Lines
    BY <1>2 DEF ToSet
  <2>2. log' \in Seq(Lines)
    BY <1>4, <2>1
  <2>3. ToSet(log') \subseteq ToSet(entries)
    BY <1>4 DEF ToSet
  <2> QED BY <1>2, <2>2, <2>3, KnownLines
<1>6. ~raced => get_transactions(log') = get_transactions(log) /\ About(log') = About(log)
  <2>1. {l.of : l \in get_transactions(log')} = About(log') /\ {l.of : l \in get_transactions(log)} = About(log)
    BY <1>2, <1>5, StoredIs
  <2> QED BY <1>2, <1>4, <2>1
<1>7. ChaseTypes'
  BY <1>1, <1>5, NoRewriteIs, KnownNone DEF ChaseInv, ChaseTypes
<1>8. SyncInv'
  BY <1>1, <1>6, SyncSeen DEF ChaseInv
<1>9. ReadTrue'
  BY <1>1, NoRewriteIs DEF ReadTrue
<1> QED BY <1>6, <1>7, <1>8, <1>9 DEF ChaseInv

\* A sync begins.
LEMMA SyncBegins ==
  ASSUME ChaseInv, NEW auto \in BOOLEAN, NEW skip \in 0 .. 1, sync_internal(auto, skip)
  PROVE  ChaseInv'
<1> DEFINE began == [NoFetch EXCEPT !.at = "page", !.auto = auto /\ get_transactions(log) # {}, !.skip = skip,
                     !.existing = Ids(get_transactions(log)), !.owed = ToSet(listing), !.cut = skip > 0]
<1>1. fetch' = began /\ skip <= Len(listing) /\ UNCHANGED <<listing, version, log, rewrite, cut, deep, raced>>
  BY DEF sync_internal
<1>2. log \in Seq(Lines) /\ listing \in Seq(Activities) /\ skip \in Nat /\ Len(listing) \in Nat /\ DOMAIN listing = 1 .. Len(listing)
      /\ Threshold \in Nat /\ Threshold # 0 /\ MaxTransactions \in Nat
  BY TypesAre, ChaseAssumption DEF ChaseInv, ChaseTypes
<1>3. ToSet(listing) \in SUBSET Activities
  BY <1>2 DEF ToSet
<1>4. Ids(get_transactions(log)) \in SUBSET (Activities \X Identifiers)
      /\ \A id \in Ids(get_transactions(log)) : id[1] \in About(log)
  <2>1. ASSUME NEW l \in get_transactions(log)
        PROVE  l.id \in Activities \X Identifiers /\ l.id[1] \in About(log)
    <3>1. l \in Lines
      BY <1>2, StoredIs
    <3>2. l \in LineShapes /\ l.id[1] = l.of
      BY <3>1, LineIs
    <3>3. l.of \in About(log)
      BY <1>2, StoredIs
    <3> QED BY <3>2, <3>3 DEF LineShapes
  <2> QED BY <2>1 DEF Ids
<1>5. /\ began \in Fetches /\ began.at = "page" /\ began.got = <<>> /\ began.skip = skip /\ began.run = 0
      /\ began.existing = Ids(get_transactions(log)) /\ began.owed = ToSet(listing) /\ began.cut = (skip > 0)
  <2>1. (auto /\ get_transactions(log) # {}) \in BOOLEAN /\ (skip > 0) \in BOOLEAN
    OBVIOUS
  <2>2. <<>> \in Seq(ListedLines)
    OBVIOUS
  <2> QED BY <1>2, <1>3, <1>4, <2>1, <2>2 DEF NoFetch, Fetches
<1> HIDE DEF began
<1>6. ~fetch'.cut => skip = 0
  <2>1. ASSUME skip # 0 PROVE fetch'.cut
    <3>1. skip > 0
      BY <1>2, <2>1
    <3>2. began.cut = TRUE
      BY <1>5, <3>1
    <3> QED BY <1>1, <3>2
  <2> QED BY <2>1
<1>7. Len(<<>>) = 0 /\ DOMAIN <<>> = {}
  OBVIOUS
<1>8. ChaseTypes'
  BY <1>1, <1>2, <1>5, <1>7, KnownNone DEF ChaseInv, ChaseTypes
<1>9. InOrder' /\ AtSave' /\ AtDone'
  BY <1>1, <1>5, <1>7 DEF InOrder, AtSave, AtDone
<1>10. NoneHidden' /\ NoneHidden
  BY <1>1 DEF ChaseInv, SyncInv, NoneHidden, Fine
<1>11. Began'
  <2>1. \A id \in fetch'.existing : id[1] \in About(log')
    BY <1>1, <1>4, <1>5
  <2>2. ~fetch'.cut => fetch'.skip = 0
    BY <1>1, <1>5, <1>6
  <2> QED BY <2>1, <2>2 DEF Began
<1>12. ASSUME NEW p \in 0 .. Len(listing), IsLast(p)' PROVE p = skip
  BY <1>1, <1>5, <1>7, <1>12 DEF IsLast
<1>13. OwedAhead'
  <2>1. \A x \in ToSet(listing) : \E q \in DOMAIN listing : q > 0 /\ listing[q] = x
    BY <1>2 DEF ToSet
  <2> QED BY <1>1, <1>5, <1>12, <1>6, <2>1 DEF OwedAhead
<1>14. AboveLast'
  <2>1. \A q \in DOMAIN listing : ~(q < 0)
    BY <1>2
  <2> QED BY <1>1, <1>12, <1>6, <2>1 DEF AboveLast
<1>15. BelowLast'
  <2>1. ASSUME NEW q \in DOMAIN listing, Reaches(listing, About(log), 0, 0, q)
        PROVE  Hidden(listing, About(log), q)
    <3>1. \A j \in 1 .. Threshold : j < q /\ listing[j] \in About(log)
      BY <1>2, <2>1 DEF Reaches
    <3>2. Threshold < q /\ q \in Nat
      BY <1>2, <3>1
    <3>3. 1 \in 1 .. q - Threshold /\ 1 + Threshold - 1 = Threshold
      BY <1>2, <3>2
    <3> QED BY <3>1, <3>3 DEF Hidden
  <2>2. ASSUME Fine, NEW q \in DOMAIN listing, listing[q] \notin About(log) PROVE ~Reaches(listing, About(log), 0, 0, q)
    BY <1>10, <2>1, <2>2 DEF NoneHidden
  <2>3. Fine' = Fine
    BY <1>1 DEF Fine
  <2>4. About(log) \subseteq SeenNow'
    BY <1>1 DEF SeenNow
  <2> QED BY <1>1, <1>5, <1>12, <1>6, <2>2, <2>3, <2>4 DEF BelowLast
<1>16. ReadTrue'
  BY <1>1 DEF ChaseInv, ReadTrue
<1> QED BY <1>8, <1>9, <1>10, <1>11, <1>13, <1>14, <1>15, <1>16 DEF ChaseInv, SyncInv

(***************************************************************************)
(* An activity comes.                                                      *)
(***************************************************************************)
\* A list with one more in it.
Longer(list, new, place, a) ==
    /\ Len(list) \in Nat /\ DOMAIN list = 1 .. Len(list)
    /\ DOMAIN new = 1 .. Len(list) + 1 /\ Len(new) = Len(list) + 1
    /\ place \in 1 .. Len(list) + 1 /\ new[place] = a
    /\ \A q \in 1 .. Len(list) : Behind(place, q) \in 1 .. Len(list) + 1 /\ new[Behind(place, q)] = list[q]
    /\ \A q \in 1 .. Len(list) + 1 : q = place \/ \E p \in 1 .. Len(list) : q = Behind(place, p)

\* It is what InsertAt makes of it.
LEMMA LongerIs ==
  ASSUME NEW S, NEW list \in Seq(S), NEW place \in 1 .. Len(list) + 1, NEW a \in S
  PROVE  InsertAt(list, place, a) \in Seq(S) /\ Longer(list, InsertAt(list, place, a), place, a)
<1> DEFINE new == InsertAt(list, place, a)
<1>1. Len(list) \in Nat /\ DOMAIN list = 1 .. Len(list) /\ place \in Nat /\ 1 <= place /\ place <= Len(list) + 1
  OBVIOUS
<1>2. /\ new \in Seq(S) /\ Len(new) = Len(list) + 1 /\ new[place] = a
      /\ \A i \in 1 .. Len(list) : new[Behind(place, i)] = list[i]
  <2>1. place \in Nat /\ 1 <= place /\ place <= Len(list) + 1 /\ list \in Seq(S) /\ a \in S
    BY <1>1
  <2> HIDE DEF new
  <2>2. /\ InsertAt(list, place, a) \in Seq(S) /\ Len(InsertAt(list, place, a)) = Len(list) + 1
        /\ InsertAt(list, place, a)[place] = a
        /\ \A i \in 1 .. Len(list) : InsertAt(list, place, a)[Behind(place, i)] = list[i]
    BY ONLY <2>1, Inserted
  <2> QED BY <2>2 DEF new
<1> HIDE DEF new
<1>3. DOMAIN new = 1 .. Len(list) + 1
  BY <1>2
<1>4. \A q \in 1 .. Len(list) : Behind(place, q) \in 1 .. Len(list) + 1
  BY <1>1 DEF Behind
<1>5. ASSUME NEW q \in 1 .. Len(list) + 1, q # place PROVE \E p \in 1 .. Len(list) : q = Behind(place, p)
  <2>1. CASE q < place
    <3>1. q \in 1 .. Len(list) /\ Behind(place, q) = q
      BY <1>1, <2>1 DEF Behind
    <3> QED BY <3>1
  <2>2. CASE ~(q < place)
    <3>1. q - 1 \in 1 .. Len(list) /\ Behind(place, q - 1) = q
      BY <1>1, <1>5, <2>2 DEF Behind
    <3> QED BY <3>1
  <2> QED BY <2>1, <2>2
<1> QED BY <1>1, <1>2, <1>3, <1>4, <1>5 DEF Longer, new

\* What is not hidden in a list is not hidden with an unseen one more.
LEMMA HiddenBefore ==
  ASSUME NEW list, NEW new, NEW place, NEW a, Longer(list, new, place, a), NEW seen, a \notin seen,
         NEW q \in 1 .. Len(list), Hidden(new, seen, Behind(place, q))
  PROVE  Hidden(list, seen, q)
<1>1. /\ Len(list) \in Nat /\ place \in 1 .. Len(list) + 1 /\ new[place] = a
      /\ \A i \in 1 .. Len(list) : new[Behind(place, i)] = list[i]
      /\ Threshold \in Nat /\ Threshold # 0
  BY ChaseAssumption DEF Longer
<1> DEFINE b == Behind(place, q)
<1>2. b = (IF q < place THEN q ELSE q + 1)
  BY DEF Behind
<1>3. PICK first \in 1 .. b - Threshold : \A j \in first .. first + Threshold - 1 : new[j] \in seen
  BY DEF Hidden
<1> HIDE DEF b
<1>4. b \in Nat /\ first \in Nat /\ place \in Nat /\ 1 <= first /\ first + Threshold <= b
  BY <1>1, <1>2, <1>3
<1>5. place \notin first .. first + Threshold - 1
  BY <1>1, <1>3
<1>6. CASE place < first
  <2>1. first - 1 \in 1 .. q - Threshold
    BY <1>1, <1>2, <1>4, <1>6
  <2>2. ASSUME NEW j \in first - 1 .. first - 1 + Threshold - 1 PROVE list[j] \in seen
    <3>1. j \in 1 .. Len(list) /\ Behind(place, j) = j + 1 /\ j + 1 \in first .. first + Threshold - 1
      BY <1>1, <1>2, <1>4, <1>6 DEF Behind
    <3> QED BY <1>1, <1>3, <3>1
  <2> QED BY <2>1, <2>2 DEF Hidden
<1>7. CASE place >= first + Threshold
  <2>1. first \in 1 .. q - Threshold
    BY <1>1, <1>2, <1>4, <1>7
  <2>2. ASSUME NEW j \in first .. first + Threshold - 1 PROVE list[j] \in seen
    <3>1. j \in 1 .. Len(list) /\ Behind(place, j) = j
      BY <1>1, <1>2, <1>4, <1>7 DEF Behind
    <3> QED BY <1>1, <1>3, <3>1
  <2> QED BY <2>1, <2>2 DEF Hidden
<1> QED BY <1>1, <1>4, <1>5, <1>6, <1>7

\* Nor would a sync get to stop above it by that.
LEMMA ReachesBefore ==
  ASSUME NEW list, NEW new, NEW place, NEW a, Longer(list, new, place, a), NEW have, a \notin have,
         NEW p \in 0 .. Len(list), NEW q \in 1 .. Len(list), p < q, NEW run \in Nat,
         Reaches(new, have, run, Behind(place, p), Behind(place, q))
  PROVE  Reaches(list, have, run, p, q)
<1>1. /\ Len(list) \in Nat /\ place \in 1 .. Len(list) + 1 /\ new[place] = a
      /\ \A i \in 1 .. Len(list) : new[Behind(place, i)] = list[i]
      /\ Threshold \in Nat /\ Threshold # 0
  BY ChaseAssumption DEF Longer
<1> DEFINE b == Behind(place, p)
<1> DEFINE c == Behind(place, q)
<1>2. b = (IF p < place THEN p ELSE p + 1) /\ c = (IF q < place THEN q ELSE q + 1)
  BY DEF Behind
<1>3. \A j \in b + 1 .. b + Threshold - run : j < c /\ new[j] \in have
  BY DEF Reaches
<1> HIDE DEF b, c
<1> SUFFICES ASSUME NEW j \in p + 1 .. p + Threshold - run PROVE j < q /\ list[j] \in have
  BY DEF Reaches
<1>4. j \in Nat /\ j >= p + 1 /\ j <= p + Threshold - run /\ p \in Nat /\ q \in Nat /\ place \in Nat
  BY <1>1
<1>5. CASE place <= p
  <2>1. j + 1 \in b + 1 .. b + Threshold - run /\ b = p + 1 /\ c = q + 1
    BY <1>1, <1>2, <1>4, <1>5
  <2>2. j + 1 < c /\ new[j + 1] \in have
    BY <1>3, <2>1
  <2>3. j < q /\ j \in 1 .. Len(list) /\ Behind(place, j) = j + 1
    BY <1>1, <1>4, <1>5, <2>1, <2>2 DEF Behind
  <2> QED BY <1>1, <2>2, <2>3
<1>6. CASE place > p
  <2>1. b = p /\ j \in b + 1 .. b + Threshold - run
    BY <1>1, <1>2, <1>4, <1>6
  <2>2. j < c /\ new[j] \in have
    BY <1>3, <2>1
  <2>3. j < place
    <3>1. ASSUME j >= place PROVE FALSE
      <4>1. place \in b + 1 .. b + Threshold - run
        BY <1>1, <1>4, <1>6, <2>1, <3>1
      <4> QED BY <1>1, <1>3, <4>1
    <3> QED BY <1>4, <3>1
  <2>4. j < q /\ j \in 1 .. Len(list) /\ Behind(place, j) = j
    BY <1>1, <1>2, <1>4, <2>2, <2>3 DEF Behind
  <2> QED BY <1>1, <2>2, <2>4
<1> QED BY <1>1, <1>4, <1>5, <1>6

\* More is hidden if more is seen.
LEMMA HiddenMore ==
  ASSUME NEW list, NEW seen, NEW more, seen \subseteq more, NEW q, Hidden(list, seen, q)
  PROVE  Hidden(list, more, q)
BY DEF Hidden

\* What is new to the bank is new to us.
LEMMA ComeIs ==
  ASSUME ChaseTypes, NEW a \in Activities, NEW place \in 1 .. Len(listing) + 1, Come(a, place)
  PROVE  /\ listing' \in Seq(Activities) /\ Longer(listing, listing', place, a)
         /\ Once(listing') /\ ToSet(listing) \subseteq ToSet(listing')
         /\ a \notin About(log) /\ a \notin About(fetch.got)
         /\ ~deep' => ~deep /\ ~Hidden(listing', SeenNow, place)
<1>1. /\ listing \in Seq(Activities) /\ Once(listing) /\ a \notin ToSet(listing)
      /\ listing' = InsertAt(listing, place, a) /\ deep' = (deep \/ SeenAbove(place))
  BY DEF ChaseTypes, Come
<1>2. listing' \in Seq(Activities) /\ Longer(listing, listing', place, a)
  BY <1>1, LongerIs
<1>3. /\ Len(listing) \in Nat /\ DOMAIN listing = 1 .. Len(listing)
      /\ DOMAIN listing' = 1 .. Len(listing) + 1 /\ listing'[place] = a
      /\ \A q \in 1 .. Len(listing) : Behind(place, q) \in 1 .. Len(listing) + 1 /\ listing'[Behind(place, q)] = listing[q]
      /\ \A q \in 1 .. Len(listing) + 1 : q = place \/ \E p \in 1 .. Len(listing) : q = Behind(place, p)
  BY <1>2 DEF Longer
<1>4. \A q \in 1 .. Len(listing) : listing[q] # a
  BY <1>1, <1>3 DEF ToSet
<1>5. Once(listing')
  <2> SUFFICES ASSUME NEW i \in DOMAIN listing', NEW j \in DOMAIN listing', (listing')[i] = (listing')[j]
               PROVE  i = j
    BY DEF Once
  <2>4. \A q \in DOMAIN listing' : q # place => (listing')[q] # a
    BY <1>3, <1>4
  <2>1. CASE i = place
    BY <1>3, <2>1, <2>4
  <2>2. CASE j = place
    BY <1>3, <2>2, <2>4
  <2>3. CASE i # place /\ j # place
    <3>1. PICK p \in 1 .. Len(listing) : i = Behind(place, p)
      BY <1>3, <2>3
    <3>2. PICK q \in 1 .. Len(listing) : j = Behind(place, q)
      BY <1>3, <2>3
    <3>3. listing[p] = listing[q]
      BY <1>3, <3>1, <3>2
    <3> QED BY <1>1, <1>3, <3>1, <3>2, <3>3 DEF Once
  <2> QED BY <2>1, <2>2, <2>3
<1>6. ToSet(listing) \subseteq ToSet(listing')
  BY <1>3 DEF ToSet
<1>7. a \notin About(log) /\ a \notin About(fetch.got)
  BY <1>1 DEF ChaseTypes, Known, About
<1>8. ASSUME ~deep' PROVE ~deep /\ ~Hidden(listing', SeenNow, place)
  <2>1. ~deep /\ ~SeenAbove(place)
    BY <1>1, <1>8
  <2>2. Seen = SeenNow
    <3>1. {l.of : l \in get_transactions(log)} = About(log)
      BY StoredIs DEF ChaseTypes
    <3> QED BY <3>1 DEF Seen, Stored, SeenNow, About
  <2>3. ASSUME Hidden(listing', SeenNow, place) PROVE FALSE
    <3>1. PICK first \in 1 .. place - Threshold : \A j \in first .. first + Threshold - 1 : listing'[j] \in SeenNow
      BY <2>3 DEF Hidden
    <3>2. Threshold \in Nat /\ place \in Nat
      BY <1>3, ChaseAssumption
    <3>3. place > Threshold
      BY <3>1, <3>2
    <3>4. ASSUME NEW j \in first .. first + Threshold - 1 PROVE listing[j] \in SeenNow
      <4>1. j \in 1 .. Len(listing) /\ Behind(place, j) = j
        BY <1>3, <3>1, <3>2 DEF Behind
      <4> QED BY <1>3, <3>1, <4>1
    <3>5. SeenAbove(place)
      BY <2>2, <3>1, <3>3, <3>4 DEF SeenAbove
    <3> QED BY <2>1, <3>5
  <2> QED BY <2>1, <2>3
<1> QED BY <1>2, <1>5, <1>6, <1>7, <1>8

\* The sync under way has got to the same activity.
LEMMA LastBefore ==
  ASSUME ChaseTypes, Began, fetch.at = "page", ~fetch.cut, fetch' = fetch,
         NEW a, NEW place, Longer(listing, listing', place, a), a \notin About(fetch.got),
         NEW p \in 0 .. Len(listing'), IsLast(p)'
  PROVE  \E b \in 0 .. Len(listing) : IsLast(b) /\ p = Behind(place, b)
<1>1. /\ Len(listing) \in Nat /\ DOMAIN listing = 1 .. Len(listing)
      /\ DOMAIN listing' = 1 .. Len(listing) + 1 /\ listing'[place] = a /\ place \in 1 .. Len(listing) + 1
      /\ \A q \in 1 .. Len(listing) : Behind(place, q) \in 1 .. Len(listing) + 1 /\ listing'[Behind(place, q)] = listing[q]
      /\ \A q \in 1 .. Len(listing) + 1 : q = place \/ \E b \in 1 .. Len(listing) : q = Behind(place, b)
  BY DEF Longer
<1>2. CASE Len(fetch.got) = 0
  <2>1. p = 0 /\ IsLast(0)
    BY <1>2 DEF IsLast, Began
  <2>2. Behind(place, 0) = 0 /\ 0 \in 0 .. Len(listing)
    BY <1>1 DEF Behind
  <2> QED BY <2>1, <2>2
<1>3. CASE Len(fetch.got) # 0
  <2>1. p \in DOMAIN listing' /\ listing'[p] = fetch.got[Len(fetch.got)].of
    BY <1>3 DEF IsLast
  <2>2. Len(fetch.got) \in DOMAIN fetch.got
    BY <1>3, TypesAre
  <2>3. p # place
    BY <1>1, <2>1, <2>2 DEF About
  <2>4. PICK b \in 1 .. Len(listing) : p = Behind(place, b)
    BY <1>1, <2>1, <2>3
  <2>5. listing[b] = fetch.got[Len(fetch.got)].of
    BY <1>1, <2>1, <2>4
  <2>6. IsLast(b) /\ b \in 0 .. Len(listing)
    BY <1>1, <1>3, <2>5 DEF IsLast
  <2> QED BY <2>4, <2>6
<1> QED BY <1>2, <1>3

\* An activity comes; what it stands below of is known, and nothing else changes its order.
LEMMA ComeKeeps ==
  ASSUME ChaseInv, NEW a \in Activities, NEW place \in 1 .. Len(listing) + 1, Come(a, place)
  PROVE  ChaseInv'
<1>1. /\ ChaseTypes /\ ReadTrue /\ InOrder /\ NoneHidden /\ Began /\ OwedAhead /\ AboveLast /\ BelowLast
      /\ AtSave /\ AtDone
      /\ UNCHANGED <<version, log, fetch, rewrite, cut, raced>>
  BY DEF ChaseInv, SyncInv, Come
<1>2. /\ listing' \in Seq(Activities) /\ Longer(listing, listing', place, a)
      /\ Once(listing') /\ ToSet(listing) \subseteq ToSet(listing')
      /\ a \notin About(log) /\ a \notin About(fetch.got)
      /\ ~deep' => ~deep /\ ~Hidden(listing', SeenNow, place)
  BY <1>1, ComeIs
<1>3. /\ Len(listing) \in Nat /\ DOMAIN listing = 1 .. Len(listing) /\ place \in Nat
      /\ Len(listing') = Len(listing) + 1
      /\ DOMAIN listing' = 1 .. Len(listing) + 1 /\ listing'[place] = a
      /\ \A q \in 1 .. Len(listing) : Behind(place, q) \in 1 .. Len(listing) + 1 /\ listing'[Behind(place, q)] = listing[q]
      /\ \A q \in 1 .. Len(listing) + 1 : q = place \/ \E p \in 1 .. Len(listing) : q = Behind(place, p)
  BY <1>2 DEF Longer
<1>4. \A p, q \in Nat : p < q <=> Behind(place, p) < Behind(place, q)
  BY <1>3 DEF Behind
<1>5. Fine' => Fine /\ ~Hidden(listing', SeenNow, place)
  BY <1>1, <1>2 DEF Fine
<1>6. a \notin SeenNow /\ SeenNow' = SeenNow /\ About(log)' = About(log) /\ About(fetch.got)' = About(fetch.got)
  BY <1>1, <1>2 DEF SeenNow
<1>7. ChaseTypes'
  <2>1. /\ log \in Seq(Lines) /\ rewrite.lines \in Seq(Lines) /\ fetch.got \in Seq(Lines)
        /\ Known(log, version, listing) /\ Known(rewrite.lines, version, listing) /\ Known(fetch.got, version, listing)
        /\ version \in [Activities -> Nat] /\ fetch.skip \in Nat /\ fetch.skip <= Len(listing)
    BY <1>1, TypesAre DEF ChaseTypes
  <2>2. \A b \in Activities : version[b] <= version[b]
    BY <2>1
  <2>3. Known(log, version, listing') /\ Known(rewrite.lines, version, listing') /\ Known(fetch.got, version, listing')
    BY <1>2, <2>1, <2>2, KnownStays
  <2>4. fetch.skip <= Len(listing')
    BY <1>3, <2>1
  <2> QED BY <1>1, <1>2, <2>3, <2>4 DEF ChaseTypes
<1>8. ReadTrue'
  BY <1>1 DEF ReadTrue
<1>9. InOrder'
  <2> SUFFICES ASSUME NEW i \in DOMAIN fetch.got, NEW j \in DOMAIN fetch.got,
                      NEW p \in DOMAIN listing', NEW q \in DOMAIN listing',
                      i < j, (listing')[p] = fetch.got[i].of, (listing')[q] = fetch.got[j].of
               PROVE  p < q
    BY <1>1 DEF InOrder
  <2>1. p # place /\ q # place
    BY <1>2, <1>3 DEF About
  <2>2. PICK b \in 1 .. Len(listing) : p = Behind(place, b)
    BY <1>3, <2>1
  <2>3. PICK c \in 1 .. Len(listing) : q = Behind(place, c)
    BY <1>3, <2>1
  <2>4. listing[b] = fetch.got[i].of /\ listing[c] = fetch.got[j].of
    BY <1>3, <2>2, <2>3
  <2>5. b < c
    BY <1>1, <1>3, <2>4 DEF InOrder
  <2> QED BY <1>4, <2>2, <2>3, <2>5
\* An unseen activity of the longer list is the new one, or was unseen before.
<1>10. ASSUME NEW seen, a \notin seen, ~Hidden(listing', seen, place),
              \A q \in 1 .. Len(listing) : listing[q] \notin seen => ~Hidden(listing, seen, q),
              NEW q \in DOMAIN listing', (listing')[q] \notin seen
       PROVE  ~Hidden(listing', seen, q)
  <2>1. CASE q = place
    BY <1>10, <2>1
  <2>2. CASE q # place
    <3>1. PICK c \in 1 .. Len(listing) : q = Behind(place, c)
      BY <1>3, <2>2
    <3>2. listing[c] \notin seen
      BY <1>3, <1>10, <3>1
    <3> QED BY <1>2, <1>10, <3>1, <3>2, HiddenBefore
  <2> QED BY <2>1, <2>2
<1>11. NoneHidden'
  <2> SUFFICES ASSUME Fine', NEW q \in DOMAIN listing', (listing')[q] \notin About(log)
               PROVE  ~Hidden(listing', About(log), q)
    BY <1>6 DEF NoneHidden
  <2>1. About(log) \subseteq SeenNow
    BY DEF SeenNow
  <2>2. ~Hidden(listing', About(log), place)
    BY <1>5, <2>1, HiddenMore
  <2>3. \A c \in 1 .. Len(listing) : listing[c] \notin About(log) => ~Hidden(listing, About(log), c)
    BY <1>1, <1>3, <1>5 DEF NoneHidden
  <2> QED BY <1>2, <1>10, <2>2, <2>3
<1>12. Began'
  BY <1>1, <1>6 DEF Began
<1>13. ASSUME fetch.at = "page", ~fetch.cut, NEW p \in 0 .. Len(listing'), IsLast(p)'
       PROVE  \E b \in 0 .. Len(listing) : IsLast(b) /\ p = Behind(place, b)
  BY <1>1, <1>2, <1>13, LastBefore
<1>14. OwedAhead'
  <2> SUFFICES ASSUME fetch.at = "page", ~fetch.cut, NEW p \in 0 .. Len(listing'), IsLast(p)',
                      NEW x \in fetch.owed, x \notin About(fetch.got)
               PROVE  \E q \in DOMAIN listing' : q > p /\ (listing')[q] = x
    BY <1>1, <1>6 DEF OwedAhead
  <2>1. PICK b \in 0 .. Len(listing) : IsLast(b) /\ p = Behind(place, b)
    BY <1>13
  <2>2. PICK c \in DOMAIN listing : c > b /\ listing[c] = x
    BY <1>1, <2>1 DEF OwedAhead
  <2>3. Behind(place, c) > p
    BY <1>3, <1>4, <2>1, <2>2
  <2>4. Behind(place, c) \in DOMAIN listing' /\ (listing')[Behind(place, c)] = x
    BY <1>3, <2>2
  <2> QED BY <2>3, <2>4
<1>15. AboveLast'
  <2> SUFFICES ASSUME fetch.at = "page", ~fetch.cut, Fine', NEW p \in 0 .. Len(listing'), IsLast(p)',
                      NEW q \in DOMAIN listing', q < p, (listing')[q] \notin SeenNow
               PROVE  ~Hidden(listing', SeenNow, q)
    BY <1>1, <1>6 DEF AboveLast
  <2>1. PICK b \in 0 .. Len(listing) : IsLast(b) /\ p = Behind(place, b)
    BY <1>13
  <2>2. CASE q = place
    BY <1>5, <2>2
  <2>3. CASE q # place
    <3>1. PICK c \in 1 .. Len(listing) : q = Behind(place, c)
      BY <1>3, <2>3
    <3>2. c < b /\ listing[c] \notin SeenNow
      BY <1>3, <1>4, <2>1, <3>1
    <3>3. ~Hidden(listing, SeenNow, c)
      BY <1>1, <1>3, <1>5, <2>1, <3>2 DEF AboveLast
    <3> QED BY <1>2, <1>6, <3>1, <3>3, HiddenBefore
  <2> QED BY <2>2, <2>3
<1>16. BelowLast'
  <2> SUFFICES ASSUME fetch.at = "page", ~fetch.cut, Fine', NEW p \in 0 .. Len(listing'), IsLast(p)',
                      NEW q \in DOMAIN listing', q > p, (listing')[q] \notin SeenNow,
                      Reaches(listing', About(log), fetch.run, p, q)
               PROVE  (listing')[q] \notin fetch.owed /\ ~Hidden(listing', SeenNow, q)
    BY <1>1, <1>6 DEF BelowLast
  <2>1. PICK b \in 0 .. Len(listing) : IsLast(b) /\ p = Behind(place, b)
    BY <1>13
  <2>2. CASE q = place
    <3>1. a \notin fetch.owed
      <4>1. ASSUME a \in fetch.owed PROVE FALSE
        <5>1. PICK c \in DOMAIN listing : listing[c] = a
          BY <1>1, <1>2, <2>1, <4>1 DEF OwedAhead
        <5>2. a \notin ToSet(listing)
          BY DEF Come
        <5> QED BY <5>1, <5>2 DEF ToSet
      <4> QED BY <4>1
    <3> QED BY <1>3, <1>5, <2>2, <3>1
  <2>3. CASE q # place
    <3>1. PICK c \in 1 .. Len(listing) : q = Behind(place, c)
      BY <1>3, <2>3
    <3>2. b < c /\ listing[c] \notin SeenNow /\ (listing')[q] = listing[c]
      BY <1>3, <1>4, <2>1, <3>1
    <3>3. fetch.run \in Nat
      BY <1>1, TypesAre
    <3>4. Reaches(listing, About(log), fetch.run, b, c)
      BY <1>2, <2>1, <3>1, <3>2, <3>3, ReachesBefore
    <3>5. listing[c] \notin fetch.owed /\ ~Hidden(listing, SeenNow, c)
      BY <1>1, <1>3, <1>5, <2>1, <3>2, <3>4 DEF BelowLast
    <3> QED BY <1>2, <1>6, <3>1, <3>2, <3>5, HiddenBefore
  <2> QED BY <2>2, <2>3
<1>17. AtSave'
  <2> SUFFICES ASSUME fetch.at = "save", ~fetch.cut, ~raced
               PROVE  /\ Fine' => \A q \in DOMAIN listing' : (listing')[q] \notin SeenNow => ~Hidden(listing', SeenNow, q)
                      /\ ~fetch.auto \/ Fine' => fetch.owed \subseteq SeenNow
    BY <1>1, <1>6 DEF AtSave
  <2>1. ~fetch.auto \/ Fine' => fetch.owed \subseteq SeenNow
    BY <1>1, <1>5 DEF AtSave
  <2>2. ASSUME Fine', NEW q \in DOMAIN listing', (listing')[q] \notin SeenNow PROVE ~Hidden(listing', SeenNow, q)
    <3>1. \A c \in 1 .. Len(listing) : listing[c] \notin SeenNow => ~Hidden(listing, SeenNow, c)
      BY <1>1, <1>3, <1>5, <2>2 DEF AtSave
    <3> QED BY <1>5, <1>6, <1>10, <2>2, <3>1
  <2> QED BY <2>1, <2>2
<1>18. AtDone'
  BY <1>1, <1>5, <1>6 DEF AtDone
<1> QED BY <1>7, <1>8, <1>9, <1>11, <1>12, <1>14, <1>15, <1>16, <1>17, <1>18 DEF ChaseInv, SyncInv

(***************************************************************************)
(* A page comes, and what was got is saved.                                *)
(***************************************************************************)
\* Lines in the order in which the bank lists their activities.
Sorted(entries) == \A i, j \in DOMAIN entries, p, q \in DOMAIN listing :
    i < j /\ listing[p] = entries[i].of /\ listing[q] = entries[j].of => p < q

\* So each activity has been got once.
LEMMA GotOnce ==
  ASSUME ChaseTypes, InOrder, NEW i \in DOMAIN fetch.got, NEW j \in DOMAIN fetch.got,
         fetch.got[i].of = fetch.got[j].of
  PROVE  i = j
<1>1. PICK p \in DOMAIN listing : listing[p] = fetch.got[i].of
  BY DEF ChaseTypes, Known, ToSet
<1>2. i \in Nat /\ j \in Nat /\ p \in Nat
  BY TypesAre
<1>3. ~(i < j) /\ ~(j < i)
  BY <1>1, <1>2 DEF InOrder
<1> QED BY <1>2, <1>3

\* A longer list is about more.
LEMMA AboutMore ==
  ASSUME NEW all, NEW more, NEW both, ToSet(both) \subseteq ToSet(all) \cup ToSet(more),
         ToSet(all) \subseteq ToSet(both), ToSet(more) \subseteq ToSet(both)
  PROVE  About(both) = About(all) \cup About(more)
<1>1. \A s \in {all, more, both} : About(s) = {l.of : l \in ToSet(s)}
  BY DEF About, ToSet
<1>2. \A l \in ToSet(both) : l \in ToSet(all) \/ l \in ToSet(more)
  OBVIOUS
<1>3. \A l \in ToSet(all) : l \in ToSet(both)
  OBVIOUS
<1>4. \A l \in ToSet(more) : l \in ToSet(both)
  OBVIOUS
<1>5. About(both) \subseteq About(all) \cup About(more)
  BY <1>1, <1>2
<1>6. About(all) \subseteq About(both) /\ About(more) \subseteq About(both)
  BY <1>1, <1>3, <1>4
<1> QED BY <1>5, <1>6

\* What was got is saved.
LEMMA SaveKeeps ==
  ASSUME ChaseInv, Save
  PROVE  ChaseInv'
<1>1. /\ ChaseTypes /\ ReadTrue /\ InOrder /\ NoneHidden /\ Began /\ OwedAhead /\ AboveLast /\ BelowLast
      /\ AtSave /\ AtDone
      /\ fetch.at = "save" /\ log' = append_new(log, fetch.got)
      /\ fetch' = [fetch EXCEPT !.at = "done"]
      /\ cut' = (cut \/ (fetch.cut /\ log' # log))
      /\ raced' = (raced \/ (rewrite.reading /\ log' # log))
      /\ UNCHANGED <<listing, version, rewrite, deep>>
  BY DEF ChaseInv, SyncInv, Save
<1>2. /\ fetch' \in Fetches /\ fetch'.at = "done" /\ fetch'.got = fetch.got /\ fetch'.cut = fetch.cut
      /\ fetch'.auto = fetch.auto /\ fetch'.owed = fetch.owed /\ fetch'.skip = fetch.skip
  BY <1>1 DEF ChaseTypes, Fetches
<1>3. log \in Seq(Lines) /\ fetch.got \in Seq(Lines)
  BY <1>1, TypesAre DEF ChaseTypes
<1>4. /\ append_new(log, fetch.got) \in Seq(Lines)
      /\ ToSet(fetch.got) \subseteq get_transactions(append_new(log, fetch.got))
      /\ ToSet(append_new(log, fetch.got)) \subseteq ToSet(log) \cup ToSet(fetch.got)
      /\ ToSet(log) \subseteq ToSet(append_new(log, fetch.got))
  BY <1>1, <1>3, GotOnce, AppendSees
<1>5. /\ log' \in Seq(Lines) /\ ToSet(fetch.got) \subseteq get_transactions(log')
      /\ ToSet(log') \subseteq ToSet(log) \cup ToSet(fetch.got) /\ ToSet(log) \subseteq ToSet(log')
  BY <1>1, <1>4
<1>6. About(log') = SeenNow
  <2>1. ToSet(fetch.got) \subseteq ToSet(log')
    BY <1>5, StoredIs
  <2> QED BY <1>5, <2>1, AboutMore DEF SeenNow
<1>7. ChaseTypes'
  <2>1. Known(log', version, listing)
    <3> SUFFICES ASSUME NEW i \in DOMAIN log'
                 PROVE  (log')[i].version <= version[(log')[i].of] /\ (log')[i].of \in ToSet(listing)
      BY DEF Known
    <3>1. (log')[i] \in ToSet(log) \/ (log')[i] \in ToSet(fetch.got)
      BY <1>5 DEF ToSet
    <3>2. Known(log, version, listing) /\ Known(fetch.got, version, listing)
      BY <1>1 DEF ChaseTypes
    <3> QED BY <3>1, <3>2 DEF Known, ToSet
  <2> QED BY <1>1, <1>2, <1>5, <2>1 DEF ChaseTypes
<1>8. Fine' => Fine /\ (fetch.cut => log' = log)
  BY <1>1 DEF Fine
<1>9. ~raced' => ~raced /\ (rewrite.reading => log' = log)
  BY <1>1
<1>10. ReadTrue'
  BY <1>1, <1>9 DEF ReadTrue
<1>11. InOrder'
  BY <1>1, <1>2 DEF InOrder
<1>12. NoneHidden'
  <2> SUFFICES ASSUME Fine', NEW q \in DOMAIN listing, listing[q] \notin About(log')
               PROVE  ~Hidden(listing, About(log'), q)
    BY <1>1 DEF NoneHidden
  <2>1. CASE fetch.cut
    BY <1>1, <1>8, <2>1 DEF NoneHidden
  <2>2. CASE ~fetch.cut
    BY <1>1, <1>6, <1>8, <2>2 DEF AtSave, Fine
  <2> QED BY <2>1, <2>2
<1>13. AtDone'
  <2> SUFFICES ASSUME ~raced', ~fetch.cut, ~fetch.auto \/ Fine' PROVE fetch.owed \subseteq About(log')
    BY <1>2, <1>5 DEF AtDone
  <2> QED BY <1>1, <1>6, <1>8, <1>9 DEF AtSave
<1>14. Began' /\ OwedAhead' /\ AboveLast' /\ BelowLast' /\ AtSave'
  BY <1>2 DEF Began, OwedAhead, AboveLast, BelowLast, AtSave
<1> QED BY <1>7, <1>10, <1>11, <1>12, <1>13, <1>14 DEF ChaseInv, SyncInv

\* What has been got with a page that begins behind p.
Got(got, page, p) ==
    /\ got \in Seq(ListedLines) /\ Len(got) = Len(fetch.got) + Len(page)
    /\ Known(got, version, listing) /\ Sorted(got)
    /\ About(got) = About(fetch.got) \cup {listing[p + i] : i \in 1 .. Len(page)}
    /\ IF Len(got) = 0 THEN p + Len(page) = fetch.skip
       ELSE p + Len(page) \in DOMAIN listing /\ listing[p + Len(page)] = got[Len(got)].of

\* It is what the fetch has got then.
LEMMA GotIs ==
  ASSUME ChaseTypes, InOrder, NEW p \in 0 .. Len(listing), IsLast(p), NEW page, PageIs(page, p)
  PROVE  Got(fetch.got \o page, page, p)
<1> DEFINE n == Len(fetch.got)
<1> DEFINE m == Len(page)
<1> DEFINE got == fetch.got \o page
<1>1. /\ fetch.got \in Seq(ListedLines) /\ n \in Nat /\ DOMAIN fetch.got = 1 .. n
      /\ DOMAIN listing = 1 .. Len(listing) /\ Len(listing) \in Nat /\ p \in Nat
  BY TypesAre
<1>2. /\ page \in Seq(ListedLines) /\ m \in Nat /\ p + m <= Len(listing)
      /\ \A i \in 1 .. m : page[i].of = listing[p + i] /\ page[i].version = version[page[i].of]
  BY DEF PageIs
<1>3. /\ got \in Seq(ListedLines) /\ Len(got) = n + m
      /\ \A i \in 1 .. n + m : got[i] = IF i <= n THEN fetch.got[i] ELSE page[i - n]
  BY <1>1, <1>2, JoinedLists
<1> HIDE DEF n, m, got
<1>4. DOMAIN got = 1 .. n + m
  BY <1>3
<1>5. ASSUME NEW i \in 1 .. n PROVE i \in 1 .. n + m /\ got[i] = fetch.got[i] /\ i \in DOMAIN fetch.got
  BY <1>1, <1>2, <1>3
<1>6. ASSUME NEW i \in 1 .. m
      PROVE  /\ n + i \in 1 .. n + m /\ got[n + i] = page[i] /\ p + i \in DOMAIN listing
             /\ got[n + i].of = listing[p + i]
  <2>1. n + i \in 1 .. n + m /\ ~(n + i <= n) /\ (n + i) - n = i /\ p + i \in 1 .. Len(listing)
    BY <1>1, <1>2
  <2> QED BY <1>1, <1>2, <1>3, <2>1
<1>7. ASSUME NEW i \in 1 .. n + m PROVE i \in 1 .. n \/ \E j \in 1 .. m : i = n + j
  <2>1. CASE i <= n
    BY <1>1, <2>1
  <2>2. CASE i > n
    <3>1. i - n \in 1 .. m /\ i = n + (i - n)
      BY <1>1, <1>2, <2>2
    <3> QED BY <3>1
  <2> QED BY <1>1, <2>1, <2>2
<1>8. Known(got, version, listing)
  <2> SUFFICES ASSUME NEW i \in 1 .. n + m PROVE got[i].version <= version[got[i].of] /\ got[i].of \in ToSet(listing)
    BY <1>4 DEF Known
  <2>1. CASE i \in 1 .. n
    BY <1>5, <2>1 DEF ChaseTypes, Known
  <2>2. CASE \E j \in 1 .. m : i = n + j
    <3>1. PICK j \in 1 .. m : i = n + j
      BY <2>2
    <3>2. got[i].of = listing[p + j] /\ p + j \in DOMAIN listing /\ got[i].version = version[got[i].of]
      BY <1>2, <1>6, <3>1
    <3>3. listing[p + j] \in Activities
      BY <3>2 DEF ChaseTypes
    <3>4. version[got[i].of] \in Nat
      BY <3>2, <3>3 DEF ChaseTypes
    <3> QED BY <3>2, <3>4 DEF ToSet
  <2> QED BY <1>7, <2>1, <2>2
<1>9. About(got) = About(fetch.got) \cup {listing[p + i] : i \in 1 .. m}
  <2>1. About(got) = {got[i].of : i \in 1 .. n + m} /\ About(fetch.got) = {fetch.got[i].of : i \in 1 .. n}
    BY <1>1, <1>4 DEF About
  <2>2. ASSUME NEW a \in About(got) PROVE a \in About(fetch.got) \cup {listing[p + i] : i \in 1 .. m}
    <3>1. PICK i \in 1 .. n + m : a = got[i].of
      BY <2>1, <2>2
    <3>2. CASE i \in 1 .. n
      BY <1>5, <2>1, <3>1, <3>2
    <3>3. CASE \E j \in 1 .. m : i = n + j
      BY <1>6, <3>1, <3>3
    <3> QED BY <1>7, <3>2, <3>3
  <2>3. ASSUME NEW i \in 1 .. n PROVE fetch.got[i].of \in About(got)
    BY <1>5, <2>1
  <2>4. ASSUME NEW i \in 1 .. m PROVE listing[p + i] \in About(got)
    BY <1>6, <2>1
  <2> QED BY <2>1, <2>2, <2>3, <2>4
<1>10. ASSUME n > 0 PROVE p \in DOMAIN listing /\ n \in 1 .. n /\ listing[p] = fetch.got[n].of
  BY <1>1, <1>10 DEF IsLast, n
<1>11. ASSUME NEW i \in 1 .. n, NEW a \in DOMAIN listing, listing[a] = fetch.got[i].of
       PROVE  a <= p
  <2>1. p \in DOMAIN listing /\ n \in 1 .. n /\ listing[p] = fetch.got[n].of
    BY <1>1, <1>10
  <2>2. CASE i = n
    <3>1. a = p
      BY <1>11, <2>1, <2>2 DEF ChaseTypes, Once
    <3> QED BY <1>1, <3>1
  <2>3. CASE i < n
    <3>1. i \in DOMAIN fetch.got /\ n \in DOMAIN fetch.got
      BY <1>1, <2>1
    <3>2. a < p
      BY <1>11, <2>1, <2>3, <3>1 DEF InOrder
    <3> QED BY <1>1, <3>2
  <2> QED BY <1>1, <2>2, <2>3
<1>12. Sorted(got)
  <2> SUFFICES ASSUME NEW i \in 1 .. n + m, NEW j \in 1 .. n + m, NEW a \in DOMAIN listing, NEW b \in DOMAIN listing,
                      i < j, listing[a] = got[i].of, listing[b] = got[j].of
               PROVE  a < b
    BY <1>4 DEF Sorted
  <2>1. CASE j \in 1 .. n
    <3>1. i \in 1 .. n
      BY <1>1, <2>1
    <3> QED BY <1>5, <2>1, <3>1 DEF InOrder
  <2>2. CASE \E k \in 1 .. m : j = n + k
    <3>1. PICK k \in 1 .. m : j = n + k
      BY <2>2
    <3>2. b = p + k
      BY <1>6, <3>1 DEF ChaseTypes, Once
    <3>3. CASE i \in 1 .. n
      <4>1. a <= p
        BY <1>5, <1>11, <3>3
      <4> QED BY <1>1, <3>2, <4>1
    <3>4. CASE \E h \in 1 .. m : i = n + h
      <4>1. PICK h \in 1 .. m : i = n + h
        BY <3>4
      <4>2. a = p + h
        BY <1>6, <4>1 DEF ChaseTypes, Once
      <4> QED BY <1>1, <3>1, <3>2, <4>1, <4>2
    <3> QED BY <1>7, <3>3, <3>4
  <2> QED BY <1>7, <2>1, <2>2
<1>13. IF Len(got) = 0 THEN p + m = fetch.skip
       ELSE p + m \in DOMAIN listing /\ listing[p + m] = got[Len(got)].of
  <2>1. CASE n + m = 0
    <3>1. n = 0 /\ m = 0 /\ p = fetch.skip
      BY <1>1, <1>2, <2>1 DEF IsLast, n
    <3> QED BY <1>1, <1>3, <2>1, <3>1
  <2>2. CASE m > 0
    <3>1. m \in 1 .. m /\ n + m # 0
      BY <1>1, <1>2, <2>2
    <3> QED BY <1>3, <1>6, <3>1
  <2>3. CASE m = 0 /\ n > 0
    <3>1. n + m = n /\ p + m = p /\ n # 0
      BY <1>1, <2>3
    <3> QED BY <1>3, <1>5, <1>10, <2>3, <3>1
  <2> QED BY <1>1, <1>2, <2>1, <2>2, <2>3
<1> QED BY <1>3, <1>8, <1>9, <1>12, <1>13 DEF Got, n, m, got

\* Nothing below the last that was got may be hidden when a page comes.
LEMMA PageAbove ==
  ASSUME ChaseTypes, Began, AboveLast, fetch.at = "page", ~fetch.cut, Fine,
         NEW p \in 0 .. Len(listing), IsLast(p), NEW page, PageIs(page, p),
         NEW seen, seen = SeenNow \cup {listing[p + i] : i \in 1 .. Len(page)},
         NEW q \in DOMAIN listing, q <= p + Len(page), listing[q] \notin seen
  PROVE  ~Hidden(listing, seen, q)
<1>1. /\ DOMAIN listing = 1 .. Len(listing) /\ Len(listing) \in Nat /\ p \in Nat /\ q \in Nat /\ q > 0
      /\ Len(fetch.got) \in Nat /\ DOMAIN fetch.got = 1 .. Len(fetch.got) /\ Threshold \in Nat /\ Threshold > 0
  BY TypesAre, ChaseAssumption
<1>2. Len(page) \in Nat /\ p + Len(page) <= Len(listing)
  BY DEF PageIs
<1>3. ~(q > p)
  <2>1. ASSUME q > p PROVE FALSE
    <3>1. q - p \in 1 .. Len(page) /\ p + (q - p) = q
      BY <1>1, <1>2, <2>1
    <3> QED BY <3>1
  <2> QED BY <2>1
<1>4. q # p
  <2>1. ASSUME q = p PROVE FALSE
    <3>1. CASE Len(fetch.got) = 0
      BY <1>1, <2>1, <3>1 DEF IsLast, Began
    <3>2. CASE Len(fetch.got) # 0
      <4>1. listing[q] = fetch.got[Len(fetch.got)].of /\ Len(fetch.got) \in DOMAIN fetch.got
        BY <1>1, <2>1, <3>2 DEF IsLast
      <4>2. listing[q] \in SeenNow
        BY <4>1 DEF SeenNow, About
      <4> QED BY <4>2
    <3> QED BY <3>1, <3>2
  <2> QED BY <2>1
<1>5. q < p
  BY <1>1, <1>3, <1>4
<1>6. ~Hidden(listing, SeenNow, q)
  BY <1>5 DEF AboveLast
<1>7. ASSUME Hidden(listing, seen, q) PROVE Hidden(listing, SeenNow, q)
  <2>1. PICK first \in 1 .. q - Threshold : \A j \in first .. first + Threshold - 1 : listing[j] \in seen
    BY <1>7 DEF Hidden
  <2>2. ASSUME NEW j \in first .. first + Threshold - 1 PROVE listing[j] \in SeenNow
    <3>1. j \in 1 .. Len(listing) /\ j < p /\ j \in Nat
      BY <1>1, <1>5, <2>1
    <3>2. ASSUME NEW i \in 1 .. Len(page), listing[j] = listing[p + i] PROVE FALSE
      <4>1. p + i \in DOMAIN listing /\ j # p + i
        BY <1>1, <1>2, <3>1
      <4> QED BY <1>1, <3>1, <3>2, <4>1 DEF ChaseTypes, Once
    <3> QED BY <2>1, <3>2
  <2> QED BY <2>2 DEF Hidden
<1> QED BY <1>6, <1>7

\* Nor what the sync would not reach, nor has it been listed when the sync began.
LEMMA PageBelow ==
  ASSUME ChaseTypes, NoneHidden, Began, BelowLast, fetch.at = "page", ~fetch.cut, Fine,
         NEW p \in 0 .. Len(listing), IsLast(p), NEW page, PageIs(page, p),
         NEW run, run = FoldLeft(Run, fetch.run, page),
         NEW seen, seen = SeenNow \cup {listing[p + i] : i \in 1 .. Len(page)},
         NEW q \in DOMAIN listing, q > p + Len(page), listing[q] \notin seen,
         Reaches(listing, About(log), run, p + Len(page), q)
  PROVE  listing[q] \notin fetch.owed /\ ~Hidden(listing, seen, q)
<1> DEFINE m == Len(page)
<1>1. /\ DOMAIN listing = 1 .. Len(listing) /\ Len(listing) \in Nat /\ p \in Nat /\ q \in Nat /\ q > 0
      /\ fetch.run \in Nat /\ Threshold \in Nat /\ Threshold > 0
  BY TypesAre, ChaseAssumption
<1>2. page \in Seq(ListedLines) /\ m \in Nat /\ p + m <= Len(listing)
  BY DEF PageIs
<1>3. CountIs(run, fetch.run, page, m)
  BY <1>1, <1>2, CountHolds
<1> HIDE DEF m
<1>4. ASSUME NEW i \in 1 .. m, page[i].id \in fetch.existing PROVE listing[p + i] \in About(log)
  <2>1. page[i] \in ListedLines /\ page[i].of = listing[p + i]
    BY <1>2 DEF PageIs, m
  <2>2. page[i].id[1] = page[i].of
    BY <2>1, LineIs DEF Lines
  <2>3. page[i].id[1] \in About(log)
    BY <1>4 DEF Began, Fine
  <2> QED BY <2>1, <2>2, <2>3
<1>5. run \in Nat
  BY <1>3 DEF CountIs
<1>6. \A j \in p + m + 1 .. p + m + Threshold - run : j < q /\ listing[j] \in About(log)
  BY DEF Reaches, m
<1>7. CASE run = fetch.run + m /\ \A i \in 1 .. m : page[i].id \in fetch.existing
  <2>1. \A i \in 1 .. m : listing[p + i] \in About(log)
    BY <1>4, <1>7
  <2>2. seen = SeenNow
    <3>1. {listing[p + i] : i \in 1 .. Len(page)} \subseteq About(log)
      BY <2>1 DEF m
    <3> QED BY <3>1 DEF SeenNow
  <2>3. Reaches(listing, About(log), fetch.run, p, q)
    <3> SUFFICES ASSUME NEW j \in p + 1 .. p + Threshold - fetch.run PROVE j < q /\ listing[j] \in About(log)
      BY DEF Reaches
    <3>1. CASE j <= p + m
      <4>1. j - p \in 1 .. m /\ p + (j - p) = j /\ j < q
        BY <1>1, <1>2, <3>1 DEF m
      <4> QED BY <2>1, <4>1
    <3>2. CASE j > p + m
      <4>1. j \in p + m + 1 .. p + m + Threshold - run
        BY <1>1, <1>2, <1>7, <3>2
      <4> QED BY <1>6, <4>1
    <3> QED BY <1>1, <1>2, <3>1, <3>2
  <2>4. q > p
    BY <1>1, <1>2 DEF m
  <2> QED BY <2>2, <2>3, <2>4 DEF BelowLast
<1>8. CASE run < m /\ \A i \in 1 .. m : i > m - run => page[i].id \in fetch.existing
  <2> DEFINE first == p + m - run + 1
  <2>1. ASSUME NEW j \in first .. first + Threshold - 1 PROVE j < q /\ listing[j] \in About(log)
    <3>1. CASE j <= p + m
      <4>1. j - p \in 1 .. m /\ j - p > m - run /\ p + (j - p) = j /\ j < q
        BY <1>1, <1>2, <1>5, <1>8, <3>1 DEF m
      <4> QED BY <1>4, <1>8, <4>1
    <3>2. CASE j > p + m
      <4>1. j \in p + m + 1 .. p + m + Threshold - run
        BY <1>1, <1>2, <1>5, <3>2
      <4> QED BY <1>6, <4>1
    <3> QED BY <1>1, <1>2, <1>5, <3>1, <3>2
  <2>2. first \in Nat /\ first >= 1
    BY <1>1, <1>2, <1>5, <1>8
  <2>3. first + Threshold - 1 < q
    <3>1. first + Threshold - 1 \in first .. first + Threshold - 1
      BY <1>1, <2>2
    <3> QED BY <2>1, <3>1
  <2>4. first \in 1 .. q - Threshold
    BY <1>1, <2>2, <2>3
  <2> HIDE DEF first
  <2>5. Hidden(listing, About(log), q)
    BY <2>1, <2>4 DEF Hidden
  <2>6. listing[q] \notin About(log)
    BY DEF SeenNow
  <2> QED BY <2>5, <2>6 DEF NoneHidden
<1> QED BY <1>3, <1>7, <1>8 DEF CountIs

\* Part of what was got is as sorted as all of it.
LEMMA PartSorted ==
  ASSUME NEW got \in Seq(ListedLines), Sorted(got), Known(got, version, listing),
         NEW part \in Seq(ListedLines), Len(part) <= Len(got), \A i \in 1 .. Len(part) : part[i] = got[i]
  PROVE  Sorted(part) /\ Known(part, version, listing)
<1>1. DOMAIN got = 1 .. Len(got) /\ DOMAIN part = 1 .. Len(part) /\ Len(got) \in Nat /\ Len(part) \in Nat
  OBVIOUS
<1>2. \A i \in DOMAIN part : i \in DOMAIN got /\ part[i] = got[i]
  BY <1>1
<1>3. Sorted(part)
  BY <1>2 DEF Sorted
<1>4. Known(part, version, listing)
  BY <1>2 DEF Known
<1> QED BY <1>3, <1>4

\* A page comes.
LEMMA FetchPageKeeps ==
  ASSUME ChaseInv, NEW n \in 0 .. PageSize, NEW odd \in BOOLEAN, FetchPage(n, odd)
  PROVE  ChaseInv'
<1>1. /\ ChaseTypes /\ ReadTrue /\ InOrder /\ NoneHidden /\ Began /\ OwedAhead /\ AboveLast /\ BelowLast
      /\ fetch.at = "page" /\ UNCHANGED <<listing, version, log, rewrite, cut, deep, raced>>
  BY DEF ChaseInv, SyncInv, FetchPage
<1>2. PICK p \in 0 .. Len(listing) : \E page : IsLast(p) /\ PageIs(page, p) /\ Fetched(page, p)
  BY <1>1, FetchPageIs
<1>3. PICK page : IsLast(p) /\ PageIs(page, p) /\ Fetched(page, p)
  BY <1>2
<1> DEFINE got == fetch.got \o page
<1> DEFINE run == FoldLeft(Run, fetch.run, page)
<1> DEFINE end == p + Len(page)
<1> DEFINE seen == SeenNow \cup {listing[p + i] : i \in 1 .. Len(page)}
<1>4. Got(got, page, p)
  BY <1>1, <1>3, GotIs
<1>5. /\ fetch' \in Fetches /\ Len(fetch'.got) <= MaxTransactions
      /\ fetch'.auto = fetch.auto /\ fetch'.skip = fetch.skip
      /\ fetch'.existing = fetch.existing /\ fetch'.owed = fetch.owed
      /\ \/ /\ fetch'.at = "save" /\ fetch'.cut
            /\ Len(fetch'.got) <= Len(got) /\ \A i \in 1 .. Len(fetch'.got) : fetch'.got[i] = got[i]
         \/ /\ fetch'.at = "save" /\ fetch'.got = got /\ fetch'.cut = fetch.cut
            /\ \/ end = Len(listing)
               \/ fetch.auto /\ run >= Threshold
         \/ /\ fetch'.at = "page" /\ fetch'.got = got /\ fetch'.cut = fetch.cut /\ fetch'.run = run
  BY <1>3 DEF Fetched
<1>6. /\ DOMAIN listing = 1 .. Len(listing) /\ Len(listing) \in Nat /\ p \in Nat /\ Len(page) \in Nat
      /\ end <= Len(listing) /\ end \in Nat /\ Threshold \in Nat /\ page \in Seq(ListedLines)
      /\ fetch.run \in Nat
  BY <1>1, <1>3, TypesAre, ChaseAssumption DEF PageIs
<1>7. /\ got \in Seq(ListedLines) /\ Sorted(got) /\ Known(got, version, listing)
      /\ About(got) = About(fetch.got) \cup {listing[p + i] : i \in 1 .. Len(page)}
      /\ IF Len(got) = 0 THEN end = fetch.skip ELSE end \in DOMAIN listing /\ listing[end] = got[Len(got)].of
  BY <1>4 DEF Got
<1>8. run \in Nat
  BY <1>6, CountHolds DEF CountIs
<1> HIDE DEF got, run
<1>9. fetch'.got \in Seq(ListedLines) /\ Len(fetch'.got) <= Len(got) /\ \A i \in 1 .. Len(fetch'.got) : fetch'.got[i] = got[i]
  BY <1>5, <1>7 DEF Fetches
<1>10. Sorted(fetch'.got) /\ Known(fetch'.got, version, listing)
  BY <1>7, <1>9, PartSorted
<1>11. ChaseTypes'
  <2>1. Known(fetch'.got, version', listing')
    BY <1>1, <1>10
  <2> QED BY <1>1, <1>5, <2>1 DEF ChaseTypes
<1>12. ReadTrue' /\ NoneHidden'
  BY <1>1 DEF ReadTrue, NoneHidden, Fine
<1>13. InOrder'
  BY <1>1, <1>10 DEF InOrder, Sorted
<1>14. Began'
  BY <1>1, <1>5 DEF Began
<1>15. AtDone'
  BY <1>5 DEF AtDone
<1>16. CASE fetch'.cut
  <2>1. OwedAhead' /\ AboveLast' /\ BelowLast' /\ AtSave'
    BY <1>16 DEF OwedAhead, AboveLast, BelowLast, AtSave
  <2> QED BY <1>11, <1>12, <1>13, <1>14, <1>15, <2>1 DEF ChaseInv, SyncInv
<1>17. CASE ~fetch'.cut
  <2>1. ~fetch.cut /\ fetch'.got = got
    BY <1>5, <1>17
  <2>2. SeenNow' = seen /\ Fine' = Fine /\ About(fetch'.got) = About(got) /\ About(log') = About(log)
    BY <1>1, <1>7, <2>1 DEF SeenNow, Fine
  <2>3. ASSUME Fine, NEW q \in DOMAIN listing, q <= end, listing[q] \notin seen
        PROVE  ~Hidden(listing, seen, q)
    <3> HIDE DEF seen, end
    <3>1. seen = SeenNow \cup {listing[p + i] : i \in 1 .. Len(page)} /\ q <= p + Len(page)
      BY <2>3 DEF seen, end
    <3> QED BY <1>1, <1>3, <2>1, <2>3, <3>1, PageAbove
  <2>4. ASSUME Fine, NEW q \in DOMAIN listing, q > end, listing[q] \notin seen,
               Reaches(listing, About(log), run, end, q)
        PROVE  listing[q] \notin fetch.owed /\ ~Hidden(listing, seen, q)
    <3> HIDE DEF seen, end
    <3>1. /\ seen = SeenNow \cup {listing[p + i] : i \in 1 .. Len(page)} /\ q > p + Len(page)
          /\ Reaches(listing, About(log), run, p + Len(page), q) /\ run = FoldLeft(Run, fetch.run, page)
      BY <2>4 DEF seen, end, run
    <3> QED BY <1>1, <1>3, <2>1, <2>4, <3>1, PageBelow
  <2>5. ASSUME NEW x \in fetch.owed, x \notin About(got)
        PROVE  \E q \in DOMAIN listing : q > end /\ listing[q] = x
    <3>1. PICK q \in DOMAIN listing : q > p /\ listing[q] = x
      BY <1>1, <1>3, <1>7, <2>1, <2>5 DEF OwedAhead
    <3>2. ~(q <= end)
      <4>1. ASSUME q <= end PROVE FALSE
        <5>1. q - p \in 1 .. Len(page) /\ p + (q - p) = q
          BY <1>6, <3>1, <4>1
        <5> QED BY <1>7, <2>5, <3>1, <5>1
      <4> QED BY <4>1
    <3>3. q > end
      BY <1>6, <3>2
    <3> QED BY <3>1, <3>3
  <2>6. ASSUME NEW x \in 0 .. Len(listing'), IsLast(x)' PROVE x = end
    <3>1. IF Len(got) = 0 THEN x = fetch.skip ELSE x \in DOMAIN listing /\ listing[x] = got[Len(got)].of
      BY <1>1, <1>5, <2>1, <2>6 DEF IsLast
    <3> HIDE DEF end
    <3> QED BY <1>1, <1>7, <3>1 DEF ChaseTypes, Once
  <2> HIDE DEF seen, end
  <2>7. OwedAhead'
    <3> SUFFICES ASSUME NEW x \in 0 .. Len(listing'), IsLast(x)', NEW a \in fetch.owed, a \notin About(got)
                 PROVE  \E q \in DOMAIN listing : q > x /\ listing[q] = a
      BY <1>1, <1>5, <2>2 DEF OwedAhead
    <3> QED BY <2>5, <2>6
  <2>8. AboveLast'
    <3> SUFFICES ASSUME Fine, NEW x \in 0 .. Len(listing'), IsLast(x)',
                        NEW q \in DOMAIN listing, q < x, listing[q] \notin seen
                 PROVE  ~Hidden(listing, seen, q)
      BY <1>1, <2>2 DEF AboveLast
    <3>1. q <= end
      BY <1>6, <2>6
    <3> QED BY <2>3, <3>1
  <2>9. BelowLast'
    <3> SUFFICES ASSUME fetch'.at = "page", Fine, NEW x \in 0 .. Len(listing'), IsLast(x)',
                        NEW q \in DOMAIN listing, q > x, listing[q] \notin seen,
                        Reaches(listing, About(log), fetch'.run, x, q)
                 PROVE  listing[q] \notin fetch.owed /\ ~Hidden(listing, seen, q)
      BY <1>1, <1>5, <2>2 DEF BelowLast
    <3>1. fetch'.run = run /\ x = end
      BY <1>5, <2>6
    <3> QED BY <2>4, <3>1
  <2>10. AtSave'
    <3> SUFFICES ASSUME fetch'.at = "save"
                 PROVE  /\ Fine => \A q \in DOMAIN listing : listing[q] \notin seen => ~Hidden(listing, seen, q)
                        /\ ~fetch.auto \/ Fine => fetch.owed \subseteq seen
      BY <1>1, <1>5, <2>2 DEF AtSave
    <3>1. end = Len(listing) \/ (fetch.auto /\ run >= Threshold)
      BY <1>5, <1>17
    <3>2. About(got) \subseteq seen
      BY <1>7 DEF seen, SeenNow
    <3>3. CASE end = Len(listing)
      <4>1. \A q \in DOMAIN listing : q <= end /\ ~(q > end)
        BY <1>6, <3>3
      <4> QED BY <2>3, <2>5, <3>2, <4>1
    <3>4. CASE fetch.auto /\ run >= Threshold
      <4>1. ASSUME Fine, NEW q \in DOMAIN listing, q > end, listing[q] \notin seen
            PROVE  listing[q] \notin fetch.owed /\ ~Hidden(listing, seen, q)
        <5>1. Reaches(listing, About(log), run, end, q)
          BY <1>6, <1>8, <3>4 DEF Reaches
        <5> QED BY <2>4, <4>1, <5>1
      <4>2. \A q \in DOMAIN listing : q <= end \/ q > end
        BY <1>6
      <4> QED BY <2>3, <2>5, <3>2, <3>4, <4>1, <4>2
    <3> QED BY <3>1, <3>3, <3>4
  <2> QED BY <1>11, <1>12, <1>13, <1>14, <1>15, <2>7, <2>8, <2>9, <2>10 DEF ChaseInv, SyncInv
<1> QED BY <1>16, <1>17

\* Every step keeps the invariant.
LEMMA ChaseSteps ==
  ASSUME ChaseInv, [ChaseNext]_chaseVars
  PROVE  ChaseInv'
<1>1. ASSUME NEW a \in Activities, Settle(a) PROVE ChaseInv'
  BY <1>1, SettleKeeps
<1>2. ASSUME NEW a \in Activities, NEW place \in 1 .. Len(listing) + 1, Come(a, place) PROVE ChaseInv'
  BY <1>2, ComeKeeps
<1>3. ASSUME NEW auto \in BOOLEAN, NEW skip \in 0 .. 1, sync_internal(auto, skip) PROVE ChaseInv'
  BY <1>3, SyncBegins
<1>4. ASSUME NEW n \in 0 .. PageSize, NEW odd \in BOOLEAN, FetchPage(n, odd) PROVE ChaseInv'
  BY <1>4, FetchPageKeeps
<1>5. CASE FetchFails \/ Return
  BY <1>5, EndKeeps
<1>6. CASE Save
  BY <1>6, SaveKeeps
<1>7. CASE RecompactRead
  BY <1>7, ReadKeeps
<1>8. CASE recompact_all_jsonl \/ backfill_transaction_metadata_all
  BY <1>8, RewriteKeeps
<1>9. CASE UNCHANGED chaseVars
  <2>1. UNCHANGED <<listing, version, log, fetch, rewrite, cut, deep, raced>>
    BY <1>9 DEF chaseVars
  <2>2. SyncInv'
    BY <2>1, SyncSame DEF ChaseInv
  <2>3. ChaseTypes' /\ ReadTrue'
    BY <2>1 DEF ChaseInv, ChaseTypes, ReadTrue
  <2> QED BY <2>2, <2>3 DEF ChaseInv
<1> QED BY <1>1, <1>2, <1>3, <1>4, <1>5, <1>6, <1>7, <1>8, <1>9 DEF ChaseNext

\* So it always holds.
LEMMA ChaseInvHolds == ChaseSpec => []ChaseInv
<1>1. ChaseInit => ChaseInv
  BY ChaseStarts
<1>2. ChaseInv /\ [ChaseNext]_chaseVars => ChaseInv'
  BY ChaseSteps
<1> QED BY <1>1, <1>2, PTL DEF ChaseSpec

\* What is in the log is of activities that there are, in versions they have had, and a sync
\* gets no more than it may.
THEOREM ChaseTypesHold == ChaseSpec => []ChaseTypeOK
<1>1. ChaseInv => ChaseTypeOK
  <2> SUFFICES ASSUME ChaseTypes PROVE ChaseTypeOK
    BY DEF ChaseInv
  <2>1. ToSet(listing) \subseteq Activities
    BY DEF ChaseTypes, ToSet
  <2>2. ASSUME NEW i \in DOMAIN log
        PROVE  log[i].of \in Activities /\ log[i].version \in 0 .. version[log[i].of]
    <3>1. log[i] \in Lines
      BY DEF ChaseTypes
    <3>2. log[i].of \in Activities /\ log[i].version \in Nat
      BY <3>1, LineIs
    <3>3. log[i].version <= version[log[i].of] /\ version[log[i].of] \in Nat
      BY <3>2 DEF ChaseTypes, Known
    <3> QED BY <3>2, <3>3
  <2>3. fetch.at \in {"idle", "page", "save", "done"}
    BY DEF ChaseTypes, Fetches
  <2>4. Len(fetch.got) <= MaxTransactions + PageSize
    BY TypesAre, ChaseAssumption DEF ChaseTypes
  <2> QED BY <2>1, <2>2, <2>3, <2>4 DEF ChaseTypeOK
<1> QED BY <1>1, ChaseInvHolds, PTL

\* What Chase lists ends up in the log, once, and readers see it as it was got: a sync leaves
\* nothing out that was listed when it began, unless one was cut short, Threshold stored
\* activities in a row hide it, or a recompaction wrote over it; a full sync makes good for that.
THEOREM StoredAsListedHolds == ChaseSpec => []StoredAsListed
<1>1. ChaseInv => StoredAsListed
  <2> SUFFICES ASSUME ChaseTypes, AtDone PROVE StoredAsListed
    BY DEF ChaseInv, SyncInv
  <2>1. log \in Seq(Lines) /\ fetch.auto \in BOOLEAN
    BY DEF ChaseTypes, Fetches
  <2>2. Stored = About(log)
    BY <2>1, StoredIs DEF Stored
  <2>3. NothingMissed
    BY <2>2 DEF NothingMissed, AtDone, Fine
  <2>4. FullSyncHeals
    BY <2>2 DEF FullSyncHeals, AtDone
  <2>5. SeenAsFetched
    BY DEF SeenAsFetched, AtDone
  <2>6. OneEach
    BY <2>1, SeenOnce DEF OneEach
  <2>7. DedupesLinked
    BY <2>1, LinesLined, ReadersSee DEF DedupesLinked
  <2> QED BY <2>3, <2>4, <2>5, <2>6, <2>7 DEF StoredAsListed
<1> QED BY <1>1, ChaseInvHolds, PTL

\* What is in the log is left as it is: syncing again what has not changed appends nothing, and a
\* recompaction nobody wrote into does not change what readers see.
THEOREM LogSettlesHolds == ChaseSpec => LogSettles
<1>1. ASSUME ChaseInv, Save, ToSet(fetch.got) \subseteq get_transactions(log) PROVE log' = log
  <2>1. log \in Seq(Lines) /\ fetch.got \in Seq(Lines)
    BY <1>1, TypesAre DEF ChaseInv, ChaseTypes
  <2>2. append_new(log, fetch.got) = log
    BY <1>1, <2>1, NothingToAppend
  <2> QED BY <1>1, <2>2 DEF Save
<1>2. ASSUME ChaseInv, [ChaseNext]_chaseVars, rewrite.reading, rewrite'.reading = FALSE, ~raced
      PROVE  get_transactions(log') = get_transactions(log)
  <2>1. rewrite' # rewrite
    BY <1>2
  <2>2. CASE recompact_all_jsonl \/ backfill_transaction_metadata_all
    BY <1>2, <2>2, RewriteKeeps
  <2>3. CASE RecompactRead
    BY <1>2, <2>3 DEF RecompactRead
  <2>4. CASE UNCHANGED rewrite
    BY <2>1, <2>4
  <2>5. UNCHANGED rewrite \/ RecompactRead \/ recompact_all_jsonl \/ backfill_transaction_metadata_all
    BY <1>2 DEF ChaseNext, chaseVars, Settle, Come, sync_internal, FetchPage, FetchFails, Save, Return
  <2> QED BY <2>2, <2>3, <2>4, <2>5
<1>3. ChaseInv /\ [ChaseNext]_chaseVars
         => [Save /\ ToSet(fetch.got) \subseteq get_transactions(log) => log' = log]_chaseVars
  BY <1>1
<1>4. ChaseInv /\ [ChaseNext]_chaseVars
         => [rewrite.reading /\ rewrite'.reading = FALSE /\ ~raced
               => get_transactions(log') = get_transactions(log)]_chaseVars
  BY <1>2
<1>5. ChaseSpec => ResyncSettles
  BY <1>3, ChaseInvHolds, PTL DEF ChaseSpec, ResyncSettles
<1>6. ChaseSpec => CompactionKeeps
  BY <1>4, ChaseInvHolds, PTL DEF ChaseSpec, CompactionKeeps
<1> QED BY <1>5, <1>6, PTL DEF LogSettles
==============================================================================
