---------------------------- MODULE SyncConnection ----------------------------
(***************************************************************************)
(* One connection of the data directory, the processes that synchronise it *)
(* with its provider (the tray daemon, the command line, the server) and   *)
(* the commands that edit it.  Nothing is locked and no two files are      *)
(* written together: every save is one step, and a process may stop or     *)
(* fail between any two of them.  What it had in memory is then lost and   *)
(* the files stay as they are.                                             *)
(*                                                                         *)
(* balance[a] is the amount of the newest snapshot of balances.jsonl: each *)
(* snapshot is stamped with the time it is appended at, so the last one    *)
(* appended is the newest as long as the clock does not run backwards.     *)
(***************************************************************************)
EXTENDS Naturals, FiniteSets

CONSTANTS
    Syncer,     \* processes that run SyncService
    Editor,     \* processes that run add account, set balance, remove
    Account,    \* account ids of this connection
    Manual,     \* those add_account creates; the provider knows the others
    Amount,     \* non-zero amounts
    Zero,       \* the empty snapshot
    NoAmount,   \* no snapshot on disk; no balance in a sync result
    Closed,     \* the provider does not list the account
    MaxChange,  \* bound on changes at the provider and on edits
    MaxFault    \* bound on failures

Proc == Syncer \cup Editor

ASSUME SyncConnectionAssumption ==
    /\ Syncer \cap Editor = {}
    /\ IsFiniteSet(Account)
    /\ Manual \subseteq Account
    /\ Zero \notin Amount \cup {NoAmount, Closed}
    /\ NoAmount \notin Amount \cup {Closed}
    /\ Closed \notin Amount
    /\ MaxChange \in Nat
    /\ MaxFault \in Nat

VARIABLES
    bank,       \* bank[a]: the account at the provider
    config,     \* connection.toml exists
    state,      \* connection.json; a missing file reads as NewState
    account,    \* account[a]: account.json, "missing", "active" or "inactive"
    balance,    \* balance[a]: the newest snapshot of balances.jsonl
    pc,         \* what each process does next
    conn,       \* conn[p]: the connection state p holds in memory
    result,     \* result[p]: what p's synchronizer fetched
    todo,       \* todo[p]: accounts p's present loop has not reached
    closing,    \* closing[p]: the account p has made inactive but not zeroed
    changes, faults,
    gone,       \* history: accounts a remove_connection has deleted
    alone,      \* history: the processes since whose start no other one wrote
    excused     \* history: inactive accounts that were not zeroed because the sync was
                \* cut short, or that were given a balance after they were closed

disk == <<config, state, account, balance>>
local == <<pc, conn, result, todo, closing>>
vars == <<bank, disk, local, changes, faults, gone, alone, excused>>

NewState == [account_ids |-> {}, last_sync |-> "never"]

Active == {a \in Account : account[a] = "active"}

Init ==
    /\ bank \in [Account \ Manual -> Amount \cup {Closed}]
    /\ config = TRUE
    /\ state = NewState
    /\ account = [a \in Account |-> "missing"]
    /\ balance = [a \in Account |-> NoAmount]
    /\ pc = [p \in Proc |-> "idle"]
    /\ conn = [p \in Proc |-> NewState]
    /\ result = [p \in Proc |-> <<>>]
    /\ todo = [p \in Proc |-> {}]
    /\ closing = [p \in Proc |-> {}]
    /\ changes = 0
    /\ faults = 0
    /\ gone = {}
    /\ alone = {}
    /\ excused = {}

\* Process p has written to the data directory.
Wrote(p) == alone' = alone \cap {p}

\* Process p ends its operation and drops what it held in memory.
End(p) ==
    /\ pc' = [pc EXCEPT ![p] = "idle"]
    /\ conn' = [conn EXCEPT ![p] = NewState]
    /\ result' = [result EXCEPT ![p] = <<>>]
    /\ todo' = [todo EXCEPT ![p] = {}]
    /\ closing' = [closing EXCEPT ![p] = {}]

-----------------------------------------------------------------------------
(* SyncService: sync_connection and sync_connection_if_stale, sync_all *)

\* Mutant: a connection that was ever synced never becomes stale.
Load_NeverStale(p, ifStale) ==
    /\ pc[p] = "idle"
    /\ config
    /\ ifStale => state.last_sync = "never"
    /\ pc' = [pc EXCEPT ![p] = "fetch"]
    /\ conn' = [conn EXCEPT ![p] = state]
    /\ alone' = alone \cup {p}
    /\ UNCHANGED <<bank, disk, result, todo, closing, changes, faults, gone, excused>>

\* The connection is loaded and, in the _if_stale variants, checked; the rest
\* of the operation works on this copy.
Load(p, ifStale) ==
    /\ pc[p] = "idle"
    /\ config
    /\ ifStale => state.last_sync # "fresh"
    /\ pc' = [pc EXCEPT ![p] = "fetch"]
    /\ conn' = [conn EXCEPT ![p] = state]
    /\ alone' = alone \cup {p}
    /\ UNCHANGED <<bank, disk, result, todo, closing, changes, faults, gone, excused>>

\* Mutant: the synchronizer does not leave out the accounts that are closed.
Fetch_ListsClosed(p, missing) ==
    LET listed == Account \ Manual IN
    /\ pc[p] = "fetch"
    /\ missing \subseteq listed
    /\ faults + Cardinality(missing) <= MaxFault
    /\ faults' = faults + Cardinality(missing)
    /\ result' = [result EXCEPT ![p] =
                    [a \in listed |-> IF a \in missing THEN NoAmount ELSE bank[a]]]
    /\ conn' = [conn EXCEPT ![p] = [account_ids |-> listed, last_sync |-> "fresh"]]
    /\ todo' = [todo EXCEPT ![p] = listed]
    /\ pc' = [pc EXCEPT ![p] = "accounts"]
    /\ UNCHANGED <<bank, disk, closing, changes, gone, alone, excused>>

\* Synchronizer::sync: the accounts the provider lists, each with its balance,
\* or with none when its detail request failed (missing); the synchronizer
\* replaces account_ids and stamps last_sync with Success.
Fetch(p, missing) ==
    LET listed == {a \in Account \ Manual : bank[a] # Closed} IN
    /\ pc[p] = "fetch"
    /\ missing \subseteq listed
    /\ faults + Cardinality(missing) <= MaxFault
    /\ faults' = faults + Cardinality(missing)
    /\ result' = [result EXCEPT ![p] =
                    [a \in listed |-> IF a \in missing THEN NoAmount ELSE bank[a]]]
    /\ conn' = [conn EXCEPT ![p] = [account_ids |-> listed, last_sync |-> "fresh"]]
    /\ todo' = [todo EXCEPT ![p] = listed]
    /\ pc' = [pc EXCEPT ![p] = "accounts"]
    /\ UNCHANGED <<bank, disk, closing, changes, gone, alone, excused>>

(* SyncResult::save_with_clock, one storage call at a time *)

SaveAccount(p, a) ==
    /\ pc[p] = "accounts"
    /\ a \in todo[p]
    /\ account' = [account EXCEPT ![a] = "active"]
    /\ todo' = [todo EXCEPT ![p] = @ \ {a}]
    /\ Wrote(p)
    /\ UNCHANGED <<bank, config, state, balance, pc, conn, result, closing,
                   changes, faults, gone, excused>>

\* Mutant: an account whose save failed is skipped.
ListAccounts_Early(p) ==
    /\ pc[p] = "accounts"
    /\ todo' = [todo EXCEPT ![p] = Active \ DOMAIN result[p]]
    /\ pc' = [pc EXCEPT ![p] = "deactivate"]
    /\ UNCHANGED <<bank, disk, conn, result, closing, changes, faults, gone, alone, excused>>

\* Mutant: only accounts that connection.json lists are looked at.
ListAccounts_OnlyListed(p) ==
    /\ pc[p] = "accounts"
    /\ todo[p] = {}
    /\ todo' = [todo EXCEPT ![p] = (Active \cap state.account_ids) \ DOMAIN result[p]]
    /\ pc' = [pc EXCEPT ![p] = "deactivate"]
    /\ UNCHANGED <<bank, disk, conn, result, closing, changes, faults, gone, alone, excused>>

\* list_accounts: the active accounts of the connection the provider left out.
ListAccounts(p) ==
    /\ pc[p] = "accounts"
    /\ todo[p] = {}
    /\ todo' = [todo EXCEPT ![p] = Active \ DOMAIN result[p]]
    /\ pc' = [pc EXCEPT ![p] = "deactivate"]
    /\ UNCHANGED <<bank, disk, conn, result, closing, changes, faults, gone, alone, excused>>

\* save_account of the listed copy, made inactive.
Deactivate(p, a) ==
    /\ pc[p] = "deactivate"
    /\ closing[p] = {}
    /\ a \in todo[p]
    /\ account' = [account EXCEPT ![a] = "inactive"]
    /\ closing' = [closing EXCEPT ![p] = {a}]
    /\ todo' = [todo EXCEPT ![p] = @ \ {a}]
    /\ Wrote(p)
    /\ UNCHANGED <<bank, config, state, balance, pc, conn, result, changes, faults, gone, excused>>

\* Mutant: the account is made inactive and its balance left as it was.
AppendZero_Skipped(p, a) ==
    /\ pc[p] = "deactivate"
    /\ a \in closing[p]
    /\ closing' = [closing EXCEPT ![p] = {}]
    /\ UNCHANGED <<bank, disk, pc, conn, result, todo, changes, faults, gone, alone, excused>>

AppendZero(p, a) ==
    /\ pc[p] = "deactivate"
    /\ a \in closing[p]
    /\ balance' = [balance EXCEPT ![a] = Zero]
    /\ closing' = [closing EXCEPT ![p] = {}]
    /\ excused' = excused \ {a}
    /\ Wrote(p)
    /\ UNCHANGED <<bank, config, state, account, pc, conn, result, todo, changes,
                   faults, gone>>

SaveConnection(p) ==
    /\ pc[p] = "deactivate"
    /\ closing[p] = {}
    /\ todo[p] = {}
    /\ state' = conn[p]
    /\ todo' = [todo EXCEPT ![p] = {a \in DOMAIN result[p] : result[p][a] # NoAmount}]
    /\ pc' = [pc EXCEPT ![p] = "balances"]
    /\ Wrote(p)
    /\ UNCHANGED <<bank, config, account, balance, conn, result, closing, changes,
                   faults, gone, excused>>

AppendBalance(p, a) ==
    /\ pc[p] = "balances"
    /\ a \in todo[p]
    /\ balance' = [balance EXCEPT ![a] = result[p][a]]
    /\ todo' = [todo EXCEPT ![p] = @ \ {a}]
    /\ excused' = IF account[a] = "inactive" THEN excused \cup {a} ELSE excused
    /\ Wrote(p)
    /\ UNCHANGED <<bank, config, state, account, pc, conn, result, closing, changes,
                   faults, gone>>

Finish(p) ==
    /\ pc[p] = "balances"
    /\ todo[p] = {}
    /\ End(p)
    /\ UNCHANGED <<bank, disk, changes, faults, gone, alone, excused>>

-----------------------------------------------------------------------------
(* Commands: app/mutations.rs *)

\* Every command starts by reading the connection, or the account it edits.
Edit(p) ==
    /\ pc[p] = "idle"
    /\ changes < MaxChange
    /\ changes' = changes + 1
    /\ alone' = alone \cup {p}

add_account(p) ==
    /\ Edit(p)
    /\ config
    /\ conn' = [conn EXCEPT ![p] = state]
    /\ pc' = [pc EXCEPT ![p] = "add"]
    /\ UNCHANGED <<bank, disk, result, todo, closing, faults, gone, excused>>

AddSaveAccount(p, a) ==
    /\ pc[p] = "add"
    /\ a \in Manual
    /\ account[a] = "missing"
    /\ a \notin gone
    /\ account' = [account EXCEPT ![a] = "active"]
    /\ conn' = [conn EXCEPT ![p].account_ids = @ \cup {a}]
    /\ pc' = [pc EXCEPT ![p] = "added"]
    /\ Wrote(p)
    /\ UNCHANGED <<bank, config, state, balance, result, todo, closing, changes,
                   faults, gone, excused>>

\* The copy read at the start is written back whole.
AddSaveConnection(p) ==
    /\ pc[p] = "added"
    /\ state' = conn[p]
    /\ End(p)
    /\ Wrote(p)
    /\ UNCHANGED <<bank, config, account, balance, changes, faults, gone, excused>>

set_balance(p, a) ==
    /\ Edit(p)
    /\ account[a] # "missing"
    /\ todo' = [todo EXCEPT ![p] = {a}]
    /\ pc' = [pc EXCEPT ![p] = "set"]
    /\ UNCHANGED <<bank, disk, conn, result, closing, faults, gone, excused>>

SetAppend(p, a, v) ==
    /\ pc[p] = "set"
    /\ a \in todo[p]
    /\ balance' = [balance EXCEPT ![a] = v]
    /\ End(p)
    /\ excused' = IF account[a] = "inactive" THEN excused \cup {a} ELSE excused
    /\ Wrote(p)
    /\ UNCHANGED <<bank, config, state, account, changes, faults, gone>>

\* Every account linked to the connection, active or not, listed or not.
remove_connection(p) ==
    /\ Edit(p)
    /\ config
    /\ todo' = [todo EXCEPT ![p] = {a \in Account : account[a] # "missing"}]
    /\ pc' = [pc EXCEPT ![p] = "remove"]
    /\ UNCHANGED <<bank, disk, conn, result, closing, faults, gone, excused>>

DeleteAccount(p, a) ==
    /\ pc[p] = "remove"
    /\ a \in todo[p]
    /\ account' = [account EXCEPT ![a] = "missing"]
    /\ balance' = [balance EXCEPT ![a] = NoAmount]
    /\ todo' = [todo EXCEPT ![p] = @ \ {a}]
    /\ gone' = gone \cup {a}
    /\ Wrote(p)
    /\ UNCHANGED <<bank, config, state, pc, conn, result, closing, changes, faults, excused>>

DeleteConnection(p) ==
    /\ pc[p] = "remove"
    /\ todo[p] = {}
    /\ config' = FALSE
    /\ state' = NewState
    /\ End(p)
    /\ Wrote(p)
    /\ UNCHANGED <<bank, account, balance, changes, faults, gone, excused>>

-----------------------------------------------------------------------------
(* The provider, time and failures *)

BankChange(a, v) ==
    /\ changes < MaxChange
    /\ changes' = changes + 1
    /\ bank[a] # v
    /\ bank' = [bank EXCEPT ![a] = v]
    /\ UNCHANGED <<disk, local, faults, gone, alone, excused>>

\* The staleness threshold passes for the last sync, on disk and in memory.
Aged(s) == IF s.last_sync = "fresh" THEN [s EXCEPT !.last_sync = "stale"] ELSE s

Age ==
    /\ state.last_sync = "fresh"
    /\ state' = Aged(state)
    /\ conn' = [p \in Proc |-> Aged(conn[p])]
    /\ UNCHANGED <<bank, config, account, balance, pc, result, todo, closing,
                   changes, faults, gone, alone, excused>>

\* A request or a save fails and its error returns, or the process dies.
Abort(p) ==
    /\ pc[p] # "idle"
    /\ faults < MaxFault
    /\ faults' = faults + 1
    /\ excused' = excused \cup closing[p]
    /\ End(p)
    /\ UNCHANGED <<bank, disk, changes, gone, alone>>

-----------------------------------------------------------------------------

SyncStep(p) ==
    \/ \E missing \in SUBSET (Account \ Manual) : Fetch(p, missing)
    \/ \E a \in Account :
         SaveAccount(p, a) \/ Deactivate(p, a) \/ AppendZero(p, a) \/ AppendBalance(p, a)
    \/ ListAccounts(p)
    \/ SaveConnection(p)
    \/ Finish(p)

EditStep(p) ==
    \/ add_account(p)
    \/ remove_connection(p)
    \/ \E a \in Account :
         \/ AddSaveAccount(p, a)
         \/ set_balance(p, a)
         \/ \E v \in Amount : SetAppend(p, a, v)
         \/ DeleteAccount(p, a)
    \/ AddSaveConnection(p)
    \/ DeleteConnection(p)

Next ==
    \/ \E p \in Syncer : Load(p, TRUE) \/ Load(p, FALSE) \/ SyncStep(p)
    \/ \E p \in Editor : EditStep(p)
    \/ \E a \in Account \ Manual, v \in Amount \cup {Closed} : BankChange(a, v)
    \/ Age
    \/ \E p \in Proc : Abort(p)

Spec == Init /\ [][Next]_vars

\* The daemon keeps calling sync_all_if_stale and a started sync goes on; time
\* passes.  Nobody has to run a command, and nothing has to fail.
Fairness ==
    /\ \A p \in Syncer : WF_vars(Load(p, TRUE)) /\ WF_vars(SyncStep(p))
    /\ WF_vars(Age)

FairSpec == Spec /\ Fairness

-----------------------------------------------------------------------------
(* Properties *)

States == [account_ids : SUBSET Account, last_sync : {"never", "fresh", "stale"}]

Results == UNION {[S -> Amount \cup {NoAmount}] : S \in SUBSET (Account \ Manual)}

\* Types of the files and of what the processes hold in memory.
TypeOK ==
    /\ bank \in [Account \ Manual -> Amount \cup {Closed}]
    /\ config \in BOOLEAN
    /\ state \in States
    /\ account \in [Account -> {"missing", "active", "inactive"}]
    /\ balance \in [Account -> Amount \cup {Zero, NoAmount}]
    /\ pc \in [Proc -> {"idle", "fetch", "accounts", "deactivate", "balances",
                        "add", "added", "set", "remove"}]
    /\ conn \in [Proc -> States]
    /\ result \in [Proc -> Results]
    /\ todo \in [Proc -> SUBSET Account]
    /\ closing \in [Proc -> SUBSET Account]
    /\ changes \in 0..MaxChange
    /\ faults \in 0..MaxFault
    /\ gone \in SUBSET Account
    /\ alone \in SUBSET Proc
    /\ excused \in SUBSET Account

\* connection.json never lists an account that has no account.json, whoever
\* stopped where, unless a remove_connection deleted the account: sync and
\* add_account save the accounts first and the list of their ids last.
ListedAccountsExist ==
    \A a \in state.account_ids : account[a] # "missing" \/ a \in gone

\* When a sync ends that nobody interfered with, the files say what the provider
\* said, whatever half-finished saves of earlier syncs it found: exactly the
\* listed accounts are active and listed, with the balances fetched.
SavedWhole ==
    \A p \in Syncer : (pc[p] = "balances" /\ todo[p] = {} /\ p \in alone) =>
        /\ Active = DOMAIN result[p]
        /\ state.account_ids = DOMAIN result[p]
        /\ \A a \in DOMAIN result[p] :
              result[p][a] # NoAmount => balance[a] = result[p][a]

\* An account the provider stopped listing counts for nothing: made inactive, its
\* newest snapshot is the empty one, but for the moment between the two saves.
InactiveIsZero ==
    \A a \in Account :
        account[a] = "inactive" /\ (\A p \in Syncer : a \notin closing[p])
            => balance[a] = Zero

\* Only a sync cut short between the two saves, or a balance appended after the
\* account was closed (by a racing sync, by set_balance), makes an exception.
InactiveIsZeroUnlessExcused ==
    \A a \in Account \ excused :
        account[a] = "inactive" /\ (\A p \in Syncer : a \notin closing[p])
            => balance[a] = Zero

Matches ==
    \A a \in Account \ Manual :
        /\ (account[a] = "active") <=> (bank[a] # Closed)
        /\ bank[a] # Closed => balance[a] = bank[a]

\* Once the provider stops changing and nothing fails any more, the files come to
\* agree with it for good: a balance a crash kept from being saved behind a fresh
\* last_sync is fetched again when that sync has aged.
Converges == <>[]Matches
=============================================================================
