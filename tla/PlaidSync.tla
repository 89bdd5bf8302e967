------------------------------- MODULE PlaidSync -------------------------------
(***************************************************************************)
(* The transactions of one Plaid connection: PlaidSynchronizer::sync asks  *)
(* /transactions/sync for what changed since the cursor kept in            *)
(* connection.json, and SyncResult::save_with_clock stores the new cursor  *)
(* (with the connection) before it appends the transactions, one line of   *)
(* transactions.jsonl at a time.  Balances and closed accounts are the     *)
(* business of SyncConnection and are left out; no account closes here.    *)
(***************************************************************************)
EXTENDS Naturals, Sequences, FiniteSets

CONSTANTS
    Syncer,     \* processes that synchronise the connection
    Tx,         \* Plaid transaction ids
    Account,
    AccountOf,  \* AccountOf[t]: the account of transaction t
    Version,    \* contents of a transaction: pending, posted, a new amount
    Absent,     \* no such transaction
    Canceled,   \* stored with status Canceled
    MaxChange,  \* bound on changes of transactions at Plaid
    MaxOpen,    \* bound on accounts opened while the program runs
    MaxFail,    \* bound on failed /transactions/sync requests
    MaxCrash    \* bound on syncs that fail or die half-way

ASSUME PlaidSyncAssumption ==
    /\ AccountOf \in [Tx -> Account]
    /\ Absent \notin Version /\ Canceled \notin Version \cup {Absent}
    /\ {MaxChange, MaxOpen, MaxFail, MaxCrash} \subseteq Nat

VARIABLES
    bank,       \* the states of Plaid's transactions so far; a cursor is an index
    open,       \* accounts Plaid lists
    cursor,     \* connection.json: transactions_cursor, 1 when there is none
    known,      \* accounts with an account.json
    stored,     \* stored[t]: the last version in transactions.jsonl
    pc,
    conn,       \* conn[p]: the cursor in p's copy of the connection
    listed,     \* listed[p]: accounts get_balances returned
    existing,   \* existing[p]: accounts list_accounts returned to the synchronizer
    loaded,     \* loaded[p]: what load_existing_plaid_transactions returned
    batch,      \* batch[p]: the transactions of p's sync result
    todo,       \* todo[p]: accounts the present loop of save has not reached
    lines,      \* lines[p]: to_append of the account in hand
    opened, fails, crashes,
    disturbed   \* history: a sync was cut short behind its cursor, overlapped
                \* another, or an account opened between two of its requests

disk == <<cursor, known, stored>>
local == <<pc, conn, listed, existing, loaded, batch, todo, lines>>
vars == <<bank, open, disk, local, opened, fails, crashes, disturbed>>

Nothing == [t \in Tx |-> Absent]
Now == bank[Len(bank)]

Init ==
    /\ bank = <<Nothing>>
    /\ open \in SUBSET Account \ {{}}
    /\ cursor = 1
    /\ known = {}
    /\ stored = Nothing
    /\ pc = [p \in Syncer |-> "idle"]
    /\ conn = [p \in Syncer |-> 1]
    /\ listed = [p \in Syncer |-> {}]
    /\ existing = [p \in Syncer |-> {}]
    /\ loaded = [p \in Syncer |-> Nothing]
    /\ batch = [p \in Syncer |-> <<>>]
    /\ todo = [p \in Syncer |-> {}]
    /\ lines = [p \in Syncer |-> {}]
    /\ opened = 0 /\ fails = 0 /\ crashes = 0
    /\ disturbed = FALSE

\* The process ends its sync and forgets what it had in memory.
End(p) ==
    /\ pc' = [pc EXCEPT ![p] = "idle"]
    /\ conn' = [conn EXCEPT ![p] = 1]
    /\ listed' = [listed EXCEPT ![p] = {}]
    /\ existing' = [existing EXCEPT ![p] = {}]
    /\ loaded' = [loaded EXCEPT ![p] = Nothing]
    /\ batch' = [batch EXCEPT ![p] = <<>>]
    /\ todo' = [todo EXCEPT ![p] = {}]
    /\ lines' = [lines EXCEPT ![p] = {}]

-----------------------------------------------------------------------------
(* PlaidSynchronizer::sync_internal *)

Load(p) ==
    /\ pc[p] = "idle"
    /\ pc' = [pc EXCEPT ![p] = "balances"]
    /\ conn' = [conn EXCEPT ![p] = cursor]
    /\ UNCHANGED <<bank, open, disk, listed, existing, loaded, batch, todo, lines,
                   opened, fails, crashes>>
    /\ disturbed' = (disturbed \/ \E q \in Syncer : pc[q] # "idle")

get_balances(p) ==
    /\ pc[p] = "balances"
    /\ pc' = [pc EXCEPT ![p] = "existing"]
    /\ listed' = [listed EXCEPT ![p] = open]
    /\ UNCHANGED <<bank, open, disk, conn, existing, loaded, batch, todo, lines,
                   opened, fails, crashes, disturbed>>

list_accounts(p) ==
    /\ pc[p] = "existing"
    /\ pc' = [pc EXCEPT ![p] = "load"]
    /\ existing' = [existing EXCEPT ![p] = known]
    /\ UNCHANGED <<bank, open, disk, conn, listed, loaded, batch, todo, lines,
                   opened, fails, crashes, disturbed>>

load_existing_plaid_transactions(p) ==
    /\ pc[p] = "load"
    /\ pc' = [pc EXCEPT ![p] = "updates"]
    /\ loaded' = [loaded EXCEPT ![p] = stored]
    /\ UNCHANGED <<bank, open, disk, conn, listed, existing, batch, todo, lines,
                   opened, fails, crashes, disturbed>>

\* What /transactions/sync reports: the difference between two states.  All pages
\* of one call tell of one state, since Plaid refuses to go on when it changes.
Upserted(old, new) == {t \in Tx : new[t] # Absent /\ new[t] # old[t]}

Removed(old, new) == {t \in Tx : new[t] = Absent /\ old[t] # Absent}

\* The accounts resolve_account_id finds.
Resolved(p) == listed[p] \cup existing[p]

\* Mutant: the next cursor is one too far.
get_transaction_updates_PastEnd(p) ==
    LET old == bank[conn[p]]
        upserts == {t \in Upserted(old, Now) : AccountOf[t] \in Resolved(p)}
        cancels == {t \in Removed(old, Now) : loaded[p][t] # Absent}
    IN  /\ pc[p] = "updates"
        /\ pc' = [pc EXCEPT ![p] = "accounts"]
        /\ batch' = [batch EXCEPT ![p] =
              [t \in upserts \cup cancels |-> IF t \in upserts THEN Now[t] ELSE Canceled]]
        /\ conn' = [conn EXCEPT ![p] = Len(bank) + 1]
        /\ todo' = [todo EXCEPT ![p] = listed[p]]
        /\ UNCHANGED <<bank, open, disk, listed, existing, loaded, lines, opened, fails,
                       crashes, disturbed>>

\* Mutant: the loop over the pages ends one page early.
get_transaction_updates_OneShort(p) ==
    LET old == bank[conn[p]]
        n == IF Len(bank) > conn[p] THEN Len(bank) - 1 ELSE conn[p]
        new == bank[n]
        upserts == {t \in Upserted(old, new) : AccountOf[t] \in Resolved(p)}
        cancels == {t \in Removed(old, new) : loaded[p][t] # Absent}
    IN  /\ pc[p] = "updates"
        /\ pc' = [pc EXCEPT ![p] = "accounts"]
        /\ batch' = [batch EXCEPT ![p] =
              [t \in upserts \cup cancels |-> IF t \in upserts THEN new[t] ELSE Canceled]]
        /\ conn' = [conn EXCEPT ![p] = n]
        /\ todo' = [todo EXCEPT ![p] = listed[p]]
        /\ UNCHANGED <<bank, open, disk, listed, existing, loaded, lines, opened, fails,
                       crashes, disturbed>>

\* get_transaction_updates and the loops over added, modified and removed: a
\* transaction of an account that does not resolve, or one to cancel that is not
\* stored, is skipped with a warning; the next cursor is taken all the same.
get_transaction_updates(p) ==
    LET old == bank[conn[p]]
        upserts == {t \in Upserted(old, Now) : AccountOf[t] \in Resolved(p)}
        cancels == {t \in Removed(old, Now) : loaded[p][t] # Absent}
    IN  /\ pc[p] = "updates"
        /\ pc' = [pc EXCEPT ![p] = "accounts"]
        /\ batch' = [batch EXCEPT ![p] =
              [t \in upserts \cup cancels |-> IF t \in upserts THEN Now[t] ELSE Canceled]]
        /\ conn' = [conn EXCEPT ![p] = Len(bank)]
        /\ todo' = [todo EXCEPT ![p] = listed[p]]
        /\ UNCHANGED <<bank, open, disk, listed, existing, loaded, lines, opened, fails,
                       crashes, disturbed>>

\* Mutant: the cursor moves although the request failed.
UpdatesFail_CursorMoves(p) ==
    /\ pc[p] = "updates"
    /\ fails < MaxFail
    /\ fails' = fails + 1
    /\ conn' = [conn EXCEPT ![p] = Len(bank)]
    /\ pc' = [pc EXCEPT ![p] = "accounts"]
    /\ todo' = [todo EXCEPT ![p] = listed[p]]
    /\ UNCHANGED <<bank, open, disk, listed, existing, loaded, batch, lines, opened,
                   crashes, disturbed>>

\* The request fails: the sync goes on with the balances alone.
UpdatesFail(p) ==
    /\ pc[p] = "updates"
    /\ fails < MaxFail
    /\ fails' = fails + 1
    /\ pc' = [pc EXCEPT ![p] = "accounts"]
    /\ todo' = [todo EXCEPT ![p] = listed[p]]
    /\ UNCHANGED <<bank, open, disk, conn, listed, existing, loaded, batch, lines, opened,
                   crashes, disturbed>>

-----------------------------------------------------------------------------
(* SyncResult::save_with_clock *)

SaveAccount(p, a) ==
    /\ pc[p] = "accounts"
    /\ a \in todo[p]
    /\ known' = known \cup {a}
    /\ todo' = [todo EXCEPT ![p] = @ \ {a}]
    /\ UNCHANGED <<bank, open, cursor, stored, pc, conn, listed, existing, loaded, batch,
                   lines, opened, fails, crashes, disturbed>>

SaveConnection(p) ==
    /\ pc[p] = "accounts"
    /\ todo[p] = {}
    /\ cursor' = conn[p]
    /\ todo' = [todo EXCEPT ![p] = {AccountOf[t] : t \in DOMAIN batch[p]}]
    /\ pc' = [pc EXCEPT ![p] = "transactions"]
    /\ UNCHANGED <<bank, open, known, stored, conn, listed, existing, loaded, batch, lines,
                   opened, fails, crashes, disturbed>>

\* get_transactions and the comparison: to_append is what differs from the
\* version stored when the account's turn comes.
Compare(p, a) ==
    /\ pc[p] = "transactions"
    /\ lines[p] = {}
    /\ a \in todo[p]
    /\ lines' = [lines EXCEPT ![p] =
          {t \in DOMAIN batch[p] : AccountOf[t] = a /\ stored[t] # batch[p][t]}]
    /\ todo' = [todo EXCEPT ![p] = @ \ {a}]
    /\ UNCHANGED <<bank, open, disk, pc, conn, listed, existing, loaded, batch, opened,
                   fails, crashes, disturbed>>

\* append_jsonl: one line at a time.
AppendLine(p, t) ==
    /\ pc[p] = "transactions"
    /\ t \in lines[p]
    /\ stored' = [stored EXCEPT ![t] = batch[p][t]]
    /\ lines' = [lines EXCEPT ![p] = @ \ {t}]
    /\ UNCHANGED <<bank, open, cursor, known, pc, conn, listed, existing, loaded, batch,
                   todo, opened, fails, crashes, disturbed>>

Finish(p) ==
    /\ pc[p] = "transactions"
    /\ todo[p] = {}
    /\ lines[p] = {}
    /\ End(p)
    /\ UNCHANGED <<bank, open, disk, opened, fails, crashes, disturbed>>

\* An error returns, or the process dies; the files stay as they are.
Crash(p) ==
    /\ pc[p] # "idle"
    /\ crashes < MaxCrash
    /\ crashes' = crashes + 1
    /\ disturbed' = (disturbed \/ pc[p] = "transactions")
    /\ End(p)
    /\ UNCHANGED <<bank, open, disk, opened, fails>>

-----------------------------------------------------------------------------
(* Plaid *)

\* A transaction appears, changes or disappears (a pending one that is posted
\* under another id).
BankChange(t, v) ==
    /\ Len(bank) <= MaxChange
    /\ AccountOf[t] \in open
    /\ Now[t] # v
    /\ bank' = Append(bank, [Now EXCEPT ![t] = v])
    /\ UNCHANGED <<open, disk, local, opened, fails, crashes, disturbed>>

OpenAccount(a) ==
    /\ a \notin open
    /\ opened < MaxOpen
    /\ opened' = opened + 1
    /\ open' = open \cup {a}
    /\ disturbed' = (disturbed \/ \E p \in Syncer : pc[p] \in {"existing", "load", "updates"})
    /\ UNCHANGED <<bank, disk, local, fails, crashes>>

-----------------------------------------------------------------------------

SyncStep(p) ==
    \/ Load(p) \/ get_balances(p) \/ list_accounts(p)
    \/ load_existing_plaid_transactions(p)
    \/ get_transaction_updates(p) \/ UpdatesFail(p)
    \/ \E a \in Account : SaveAccount(p, a) \/ Compare(p, a)
    \/ SaveConnection(p)
    \/ \E t \in Tx : AppendLine(p, t)
    \/ Finish(p)

Next ==
    \/ \E p \in Syncer : SyncStep(p) \/ Crash(p)
    \/ \E t \in Tx, v \in Version \cup {Absent} : BankChange(t, v)
    \/ \E a \in Account : OpenAccount(a)

Spec == Init /\ [][Next]_vars

\* The daemon syncs again and again, and a sync that has begun goes on.
FairSpec == Spec /\ \A p \in Syncer : WF_vars(SyncStep(p))

-----------------------------------------------------------------------------
(* Properties *)

Versions == Version \cup {Absent, Canceled}

\* Types of the files and of what a sync holds.
TypeOK ==
    /\ bank \in Seq([Tx -> Version \cup {Absent}])
    /\ open \in SUBSET Account /\ known \in SUBSET Account
    /\ cursor \in 1..Len(bank)
    /\ stored \in [Tx -> Versions]
    /\ pc \in [Syncer -> {"idle", "balances", "existing", "load", "updates", "accounts",
                          "transactions"}]
    /\ conn \in [Syncer -> 1..Len(bank)]
    /\ listed \in [Syncer -> SUBSET Account]
    /\ existing \in [Syncer -> SUBSET Account]
    /\ loaded \in [Syncer -> [Tx -> Versions]]
    /\ \A p \in Syncer : DOMAIN batch[p] \subseteq Tx
                         /\ \A t \in DOMAIN batch[p] : batch[p][t] \in Versions \ {Absent}
    /\ todo \in [Syncer -> SUBSET Account]
    /\ lines \in [Syncer -> SUBSET Tx]
    /\ opened \in 0..MaxOpen /\ fails \in 0..MaxFail /\ crashes \in 0..MaxCrash
    /\ disturbed \in BOOLEAN

\* The stored version says what Plaid's says: a transaction that is gone is not
\* stored or canceled.
Agrees(version, theirs) ==
    IF theirs = Absent THEN version \in {Absent, Canceled} ELSE version = theirs

\* Nothing stored is made up, whoever crashed or raced: a version was Plaid's at
\* some time, and a canceled transaction had been Plaid's and then was gone.
StoredWasReal ==
    \A t \in Tx :
        /\ stored[t] \in Version => \E i \in DOMAIN bank : bank[i][t] = stored[t]
        /\ stored[t] = Canceled =>
              \E i, j \in DOMAIN bank : i < j /\ bank[i][t] # Absent /\ bank[j][t] = Absent

\* The cursor stands for what is stored: with no sync under way the transactions
\* are those of the state at Plaid the cursor names, so that the next increment
\* completes them.  A failed request or a sync cut short before its cursor was
\* saved does no harm.
CursorMeansStored ==
    ~disturbed /\ (\A p \in Syncer : pc[p] = "idle")
        => \A t \in Tx : Agrees(stored[t], bank[cursor][t])

\* Incremental sync is complete: when Plaid stops changing, its transactions come
\* to be stored, and stay so.
CatchesUp == <>[](\A t \in Tx : Agrees(stored[t], Now[t]))

\* It is, also when requests failed and syncs died on the way, as long as no sync
\* is disturbed.
CatchesUpUndisturbed == []~disturbed => CatchesUp

\* What is stored was Plaid's, and is what the cursor stands for.
StoredFollowsPlaid == StoredWasReal /\ CursorMeansStored
=============================================================================
