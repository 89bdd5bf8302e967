------------------------------- MODULE Commands -------------------------------
(***************************************************************************)
(* The command line (src/main.rs) and the commands it runs one at a time   *)
(* on a data directory (src/app/*.rs, src/sync/service.rs).  A command     *)
(* first merges and pulls, if it is told to; then it does the steps of its *)
(* handler, in the order of the code: writes, the commit, the push.  Any   *)
(* step can fail, and the process can die between two of them.  What the   *)
(* files other than connections, accounts and links hold is left out: a    *)
(* write of them changes something or does not.                            *)
(***************************************************************************)
EXTENDS Symlinks

CONSTANTS
    ConnectionId, AccountId,    \* numbers, which stand for their order
    Settings,       \* what the configuration and the environment may say
    Nothing,        \* no command runs
    MaxCommands,    \* bound on the commands, under each of the settings
    MaxFailures     \* bound on the failures and deaths

ASSUME CommandsAssumption ==
    /\ ConnectionId \subseteq Nat \ {0} /\ IsFiniteSet(ConnectionId)
    /\ AccountId \subseteq Nat \ {0} /\ IsFiniteSet(AccountId)
    /\ \A s \in Settings : s \in
          [auto_commit : BOOLEAN, auto_push : BOOLEAN, is_repo : BOOLEAN,
           KEEPBOOK_DISABLE_AUTO_COMMIT : BOOLEAN]
    /\ MaxCommands \in [Settings -> Nat] /\ MaxFailures \in Nat

VARIABLES
    directory,  \* connections, accounts and links, see Symlinks
    changed,    \* some file differs from HEAD
    unpushed,   \* HEAD is ahead of the remote
    settings,
    running,    \* the command that runs, or Nothing
    commands, failures

commandVars == <<directory, changed, unpushed, settings, running, commands, failures>>

Synchronizers == {"manual", "bank"}
AddCommand == {"add connection", "add account"}
RemoveCommand == {"remove connection"}
SetCommand == {"set balance", "set account-config", "set transaction"}
ProposeCommand == {"propose transaction"}
ProposedEditsCommand == {"proposed-edits list", "proposed-edits approve", "proposed-edits reject",
                         "proposed-edits remove"}
ImportCommand == {"import schwab transactions"}
SyncCommand == {"sync connection", "sync all", "sync prices", "sync symlinks", "sync recompact",
                "sync backfill-metadata"}
AuthCommand == {"auth schwab login", "auth chase login"}
MarketDataCommand == {"market-data fetch"}
ListCommand == {"list connections", "list transactions"}
PortfolioCommand == {"portfolio snapshot", "portfolio snapshot --offline", "portfolio snapshot --dry-run",
                     "portfolio history", "portfolio change-points", "portfolio tax-impact"}
Command == {"config", "tui", "spending"} \cup AddCommand \cup RemoveCommand \cup SetCommand
           \cup ProposeCommand \cup ProposedEditsCommand \cup ImportCommand \cup SyncCommand
           \cup AuthCommand \cup MarketDataCommand \cup ListCommand \cup PortfolioCommand

\* Mutant: the decision of a proposal is taken for a command that only lists.
edits_data_NoDecision(command) ==
    \/ command \in AddCommand \cup RemoveCommand \cup SetCommand \cup ProposeCommand
                   \cup ImportCommand \cup SyncCommand \cup MarketDataCommand
    \/ command = "portfolio snapshot"

edits_data(command) ==
    \/ command \in AddCommand \cup RemoveCommand \cup SetCommand \cup ProposeCommand
                   \cup ImportCommand \cup SyncCommand \cup MarketDataCommand
    \/ command \in ProposedEditsCommand \ {"proposed-edits list"}
    \/ command = "portfolio snapshot"

-----------------------------------------------------------------------------
(* Steps: what a handler does to the data directory and the repository *)

Step(does) == [does |-> does, connection |-> 0, account |-> 0, name |-> NoName,
               synchronizer |-> "manual", ids |-> <<>>, active |-> TRUE, file |-> "", caught |-> FALSE]
maybe_auto_commit == Step("commit")
AutoCommitter == Step("commit unless disabled")
maybe_push_after_sync == Step("push")
Refuse == Step("refuse")
WriteOf(file) == [Step("write") EXCEPT !.file = file]
SaveConfig(c, name, synchronizer) ==
    [Step("save_connection_config") EXCEPT !.connection = c, !.name = name, !.synchronizer = synchronizer]
SaveAccount(a, c, name, active) ==
    [Step("save_account") EXCEPT !.account = a, !.connection = c, !.name = name, !.active = active]
SaveConnection(c, ids) == [Step("save_connection") EXCEPT !.connection = c, !.ids = ids]
DeleteAccount(a) == [Step("delete_account") EXCEPT !.account = a]
DeleteConnection(c) == [Step("delete_connection") EXCEPT !.connection = c]
SyncOf(c, caught) == [Step("sync") EXCEPT !.connection = c, !.caught = caught]

\* The directory after a step that writes it.
After(d, s) ==
    CASE s.does = "save_connection_config" ->
            save_connection_config(d, s.connection, [name |-> s.name, synchronizer |-> s.synchronizer])
      [] s.does = "save_connection" -> save_connection(d, s.connection, s.ids)
      [] s.does = "delete_connection" -> delete_connection(d, s.connection)
      [] s.does = "save_account" ->
            save_account(d, s.account, [connection |-> s.connection, name |-> s.name, active |-> s.active])
      [] s.does = "delete_account" -> delete_account(d, s.account)
      [] s.does = "rebuild_all_symlinks" -> rebuild_all_symlinks(d)
WritesDirectory == {"save_connection_config", "save_connection", "delete_connection",
                    "save_account", "delete_account", "rebuild_all_symlinks"}

-----------------------------------------------------------------------------
(* Handlers: the steps each may come to, given the directory it finds *)

Unused(ids, inUse) == ids \ DOMAIN inUse

add_connection(d) ==
    LET Taken(n) == \E c \in DOMAIN d.configs : Lower[d.configs[c].name] = Lower[n]
    IN  {<<Refuse>>} \cup
        {<<SaveConfig(c, n, y), SaveConnection(c, <<>>), maybe_auto_commit>> :
            c \in Unused(ConnectionId, d.configs), n \in {m \in Name : ~Taken(m)}, y \in Synchronizers}

add_account(d) ==
    {<<Refuse>>} \cup
    {<<SaveAccount(a, c, n, TRUE), SaveConnection(c, Append(account_ids(d, c), a)), maybe_auto_commit>> :
        a \in Unused(AccountId, d.accounts), c \in DOMAIN d.configs, n \in Name}

\* The accounts that the connection lists, and others that name it.
remove_connection(d) ==
    LET ours(c) == Among(account_ids(d, c), Ours(d, c))
        deleted(c) == ours(c) \o list_dirs(Ours(d, c) \ Range(ours(c)))
    IN  {<<>>} \cup
        {[i \in DOMAIN deleted(c) |-> DeleteAccount(deleted(c)[i])]
            \o <<DeleteConnection(c), maybe_auto_commit>> :
            c \in DOMAIN d.configs}

\* Of the account that is named: set_balance, set_account_config and
\* set_transaction_annotation, propose_transaction_edit.
OfAnAccount(d, writes) ==
    {<<Refuse>>} \cup IF DOMAIN d.accounts = {} THEN {} ELSE {<<WriteOf(writes), maybe_auto_commit>>}

set_balance(d) == OfAnAccount(d, "balances")
set_account_config(d) == OfAnAccount(d, "account_config")
set_transaction_annotation(d) == OfAnAccount(d, "annotations")
propose_transaction_edit(d) == OfAnAccount(d, "proposals")
approve_proposed_transaction_edit(d) ==
    {<<Refuse>>, <<WriteOf("annotations"), WriteOf("proposals"), maybe_auto_commit>>}
decide_proposed_transaction_edit(d) == {<<Refuse>>, <<WriteOf("proposals"), maybe_auto_commit>>}

\* A file with no transactions in it ends without a commit.
import_schwab_transactions(d) ==
    {<<>>} \cup OfAnAccount(d, "transactions")

\* The accounts found are saved, others are set inactive; then the connection, and
\* what each account holds and did.
SaveWithClock(d, c, found) ==
    LET gone == list_dirs({a \in Ours(d, c) \ DOMAIN found : d.accounts[a].active})
        kept == list_dirs(DOMAIN found)
    IN  [i \in DOMAIN kept |-> SaveAccount(kept[i], c, found[kept[i]], TRUE)]
        \o [i \in 1 .. 2 * Len(gone) |->
              LET a == gone[(i + 1) \div 2]
              IN  IF i % 2 = 1 THEN SaveAccount(a, c, d.accounts[a].name, FALSE) ELSE WriteOf("balances")]
        \o <<SaveConnection(c, kept), WriteOf("balances"), WriteOf("transactions"), WriteOf("prices")>>

\* Nothing for a manual connection, nor without a login.
sync_connection_internal(d, c) ==
    {<<>>} \cup
    IF d.configs[c].synchronizer = "manual" THEN {}
    ELSE {SaveWithClock(d, c, found) \o <<AutoCommitter>> :
            found \in UNION {[S -> Name] : S \in SUBSET (Ours(d, c) \cup Unused(AccountId, d.accounts))}}

\* The connection named; with --if-stale, it may be fresh enough.
sync_connection(d) ==
    {<<Refuse>>, <<maybe_push_after_sync>>} \cup
    {<<SyncOf(c, FALSE), maybe_push_after_sync>> : c \in DOMAIN d.configs}

\* All connections, or those that are stale.
sync_all(d) ==
    {LET due == list_dirs(S) IN
        [i \in DOMAIN due |-> SyncOf(due[i], TRUE)] \o <<AutoCommitter, maybe_push_after_sync>> :
        S \in SUBSET DOMAIN d.configs}

\* Whoever asks for prices may cancel at the prompt.
sync_prices(d) ==
    {<<Refuse>>, <<maybe_push_after_sync>>,
     <<WriteOf("prices"), AutoCommitter, maybe_push_after_sync>>}

Maintain(step) == {<<step, maybe_auto_commit, maybe_push_after_sync>>}
sync_symlinks == Maintain(Step("rebuild_all_symlinks"))
sync_recompact == Maintain(WriteOf("logs"))
sync_backfill_metadata == Maintain(WriteOf("transactions"))

\* The session is kept outside of the data directory.
login(d) == {<<Refuse>>, <<>>}

fetch_historical_prices(d) == {<<Refuse>>, <<WriteOf("prices"), maybe_auto_commit>>}

\* Of the connections that are stale, or all; a sync that fails is passed over.
\* Offline and on a dry run nothing is fetched.
portfolio_snapshot(d, refreshes) ==
    {<<Refuse>>} \cup
    {LET due == list_dirs(S) IN
        [i \in DOMAIN due |-> SyncOf(due[i], TRUE)]
        \o (IF refreshes THEN <<WriteOf("prices")>> ELSE <<>>) \o <<maybe_auto_commit>> :
        S \in IF refreshes THEN SUBSET DOMAIN d.configs ELSE {{}}}

\* A category is committed; a rule for categories is not.
run_tui(d) ==
    {<<>>, <<WriteOf("annotations"), maybe_auto_commit>>, <<WriteOf("rules")>>}

\* What main comes to for each command: nothing is written for what only prints.
EditScript(command, d) ==
    CASE command = "add connection" -> add_connection(d)
      [] command = "add account" -> add_account(d)
      [] command = "remove connection" -> remove_connection(d)
      [] command = "set balance" -> set_balance(d)
      [] command = "set account-config" -> set_account_config(d)
      [] command = "set transaction" -> set_transaction_annotation(d)
      [] command = "propose transaction" -> propose_transaction_edit(d)

Report == {<<>>, <<Refuse>>}
ProposedEditsScript(command, d) ==
    CASE command = "proposed-edits list" -> Report
      [] command = "proposed-edits approve" -> approve_proposed_transaction_edit(d)
      [] command \in {"proposed-edits reject", "proposed-edits remove"} -> decide_proposed_transaction_edit(d)

SyncScript(command, d) ==
    CASE command = "sync connection" -> sync_connection(d)
      [] command = "sync all" -> sync_all(d)
      [] command = "sync prices" -> sync_prices(d)
      [] command = "sync symlinks" -> sync_symlinks
      [] command = "sync recompact" -> sync_recompact
      [] command = "sync backfill-metadata" -> sync_backfill_metadata

PortfolioScript(command, d) ==
    CASE command = "portfolio snapshot" -> portfolio_snapshot(d, TRUE)
      [] command \in {"portfolio snapshot --offline", "portfolio snapshot --dry-run"} ->
            portfolio_snapshot(d, FALSE)
      [] command \in {"portfolio history", "portfolio change-points", "portfolio tax-impact"} -> Report

Script(command, d) ==
    CASE command \in AddCommand \cup RemoveCommand \cup SetCommand \cup ProposeCommand ->
            EditScript(command, d)
      [] command \in ProposedEditsCommand -> ProposedEditsScript(command, d)
      [] command \in ImportCommand -> import_schwab_transactions(d)
      [] command \in SyncCommand -> SyncScript(command, d)
      [] command \in AuthCommand -> login(d)
      [] command \in MarketDataCommand -> fetch_historical_prices(d)
      [] command \in PortfolioCommand -> PortfolioScript(command, d)
      [] command = "tui" -> run_tui(d)
      [] command \in {"config", "spending"} \cup ListCommand -> Report

-----------------------------------------------------------------------------
(* A command from its start to its end *)

CommandsInit ==
    /\ directory = EmptyDirectory
    /\ changed = FALSE /\ unpushed = FALSE
    /\ settings \in Settings
    /\ running = Nothing
    /\ commands = 0 /\ failures = 0

\* Flags override the configuration: whether a command merges, pulls and pushes
\* is open.  The pull is for the commands that edit data, the push for syncs.
Start(command, enabled) ==
    /\ running = Nothing /\ commands < MaxCommands[settings]
    /\ running' = [command |-> command,
                   enabled |-> {e \in enabled : /\ e = "pull" => edits_data(command)
                                                /\ e = "push" => command \in SyncCommand},
                   unpulled |-> "pull" \in enabled,
                   phase |-> "merge", todo |-> <<>>, wrote |-> FALSE,
                   failed |-> FALSE, followed |-> LinksFollow(directory)]
    /\ commands' = commands + 1
    /\ UNCHANGED <<directory, changed, unpushed, settings, failures>>

\* run_preflight: nothing without a repository of our own; the command ends if
\* the working tree is not clean, and if the fetch fails or the merge conflicts.
Preflight(phase, next) ==
    /\ running # Nothing /\ running.phase = phase
    /\ \/ /\ phase \notin running.enabled \/ ~settings.is_repo
          /\ running' = [running EXCEPT !.phase = next, !.enabled = @ \ {phase}]
          /\ UNCHANGED failures
       \/ /\ phase \in running.enabled /\ settings.is_repo /\ ~changed
          /\ running' = [running EXCEPT !.phase = next, !.enabled = @ \ {phase},
                                         !.unpulled = @ /\ phase # "pull"]
          /\ UNCHANGED failures
       \/ /\ phase \in running.enabled /\ settings.is_repo
          /\ changed \/ failures < MaxFailures
          /\ running' = [running EXCEPT !.phase = "done", !.failed = TRUE]
          /\ failures' = IF changed THEN failures ELSE failures + 1
    /\ UNCHANGED <<directory, changed, unpushed, settings, commands>>
try_merge_origin_master == Preflight("merge", "pull")
try_pull_remote == Preflight("pull", "dispatch")

Dispatch ==
    /\ running # Nothing /\ running.phase = "dispatch"
    /\ \E script \in Script(running.command, directory) :
          running' = [running EXCEPT !.phase = "run", !.todo = script]
    /\ UNCHANGED <<directory, changed, unpushed, settings, commands, failures>>

At(does) ==
    /\ running # Nothing /\ running.phase = "run" /\ running.todo # <<>>
    /\ Head(running.todo).does \in does
Doing == Head(running.todo)
Go(rest, wrote) ==
    running' = [running EXCEPT !.todo = rest, !.wrote = @ \/ wrote]
GoOn(wrote) == Go(Tail(running.todo), wrote)

\* connection.json changes with every sync, which stamps it.
WriteDirectory ==
    /\ At(WritesDirectory)
    /\ \E d \in {After(directory, Doing)} :
          LET differs == d # directory \/ Doing.does = "save_connection"
          IN  /\ directory' = d
              /\ changed' = (changed \/ differs)
              /\ GoOn(differs)
    /\ UNCHANGED <<unpushed, settings, commands, failures>>

\* There may be nothing to write.
WriteFile ==
    /\ At({"write"})
    /\ \E differs \in BOOLEAN : changed' = (changed \/ differs) /\ GoOn(differs)
    /\ UNCHANGED <<directory, unpushed, settings, commands, failures>>

\* A sync is the steps that it comes to here.
Sync ==
    /\ At({"sync"})
    /\ \E script \in sync_connection_internal(directory, Doing.connection) :
          Go([i \in DOMAIN script |-> [script[i] EXCEPT !.caught = Doing.caught]]
             \o Tail(running.todo), FALSE)
    /\ UNCHANGED <<directory, changed, unpushed, settings, commands, failures>>

\* Nothing is committed where nothing has changed; a push may fail after the commit.
try_auto_commit ==
    \/ /\ ~changed \/ ~settings.is_repo
       /\ GoOn(FALSE)
       /\ UNCHANGED <<changed, unpushed, failures>>
    \/ /\ changed /\ settings.is_repo
       /\ changed' = FALSE
       /\ unpushed' = ~settings.auto_push
       /\ GoOn(FALSE)
       /\ UNCHANGED failures
    \/ /\ changed /\ settings.is_repo /\ failures < MaxFailures
       /\ \/ UNCHANGED <<changed, unpushed>>
          \/ changed' = FALSE /\ unpushed' = TRUE
       /\ running' = [running EXCEPT !.todo = Tail(@), !.failed = TRUE]
       /\ failures' = failures + 1

Commit ==
    /\ At({"commit", "commit unless disabled"})
    /\ IF settings.auto_commit
          /\ ~(Doing.does = "commit unless disabled" /\ settings.KEEPBOOK_DISABLE_AUTO_COMMIT)
       THEN try_auto_commit
       ELSE GoOn(FALSE) /\ UNCHANGED <<changed, unpushed, failures>>
    /\ UNCHANGED <<directory, settings, commands>>

Push ==
    /\ At({"push"})
    /\ \/ /\ "push" \notin running.enabled \/ ~settings.is_repo
          /\ GoOn(FALSE)
          /\ UNCHANGED <<unpushed, failures>>
       \/ /\ "push" \in running.enabled /\ settings.is_repo
          /\ unpushed' = FALSE
          /\ GoOn(FALSE)
          /\ UNCHANGED failures
       \/ /\ "push" \in running.enabled /\ settings.is_repo /\ failures < MaxFailures
          /\ running' = [running EXCEPT !.todo = Tail(@), !.failed = TRUE]
          /\ failures' = failures + 1
          /\ UNCHANGED unpushed
    /\ UNCHANGED <<directory, changed, settings, commands>>

\* The steps after those of the sync that failed.  The next sync is not at hand
\* yet: it is one step, and follows them.
AfterCaught(todo) ==
    LET rest == {i \in DOMAIN todo : i > 1 /\ (~todo[i].caught \/ todo[i].does = "sync")}
    IN  SubSeq(todo, CHOOSE i \in rest : \A j \in rest : i <= j, Len(todo))

\* An error ends the command, or the sync of one connection where that is caught.
StepFails ==
    /\ At({"refuse", "write", "sync"} \cup WritesDirectory)
    /\ Doing.does = "refuse" \/ failures < MaxFailures
    /\ running' = IF Doing.caught
                  THEN [running EXCEPT !.todo = AfterCaught(@), !.failed = TRUE]
                  ELSE [running EXCEPT !.phase = "done", !.failed = TRUE]
    /\ failures' = IF Doing.does = "refuse" THEN failures ELSE failures + 1
    /\ UNCHANGED <<directory, changed, unpushed, settings, commands>>

Done ==
    /\ running # Nothing /\ running.phase = "run" /\ running.todo = <<>>
    /\ running' = [running EXCEPT !.phase = "done"]
    /\ UNCHANGED <<directory, changed, unpushed, settings, commands, failures>>

Exit ==
    /\ running # Nothing /\ running.phase = "done"
    /\ running' = Nothing
    /\ UNCHANGED <<directory, changed, unpushed, settings, commands, failures>>

\* Ctrl-C.
Die ==
    /\ running # Nothing /\ running.phase = "run" /\ failures < MaxFailures
    /\ running' = Nothing
    /\ failures' = failures + 1
    /\ UNCHANGED <<directory, changed, unpushed, settings, commands>>

\* The bound is reached: nothing more is typed.
NoMore == running = Nothing /\ commands = MaxCommands[settings] /\ UNCHANGED commandVars

CommandsNext ==
    \/ \E command \in Command, enabled \in SUBSET {"merge", "pull", "push"} : Start(command, enabled)
    \/ try_merge_origin_master \/ try_pull_remote \/ Dispatch
    \/ WriteDirectory \/ WriteFile \/ Sync \/ Commit \/ Push
    \/ StepFails \/ Done \/ Exit \/ Die \/ NoMore

CommandsSpec == CommandsInit /\ [][CommandsNext]_commandVars

-----------------------------------------------------------------------------
(* Properties *)

CommandsTypeOK ==
    /\ {changed, unpushed} \subseteq BOOLEAN
    /\ settings \in Settings
    /\ commands \in 0 .. MaxCommands[settings] /\ failures \in 0 .. MaxFailures
    /\ DOMAIN directory.configs \subseteq ConnectionId
    /\ DOMAIN directory.states \subseteq ConnectionId
    /\ \A a \in DOMAIN directory.accounts :
          a \in AccountId /\ directory.accounts[a] \in
              [connection : ConnectionId, name : Name, active : BOOLEAN]
    /\ running # Nothing =>
          running.command \in Command /\ running.phase \in {"merge", "pull", "dispatch", "run", "done"}

EndedWell == running # Nothing /\ running.phase = "done" /\ ~running.failed
HasCommitted == settings.auto_commit /\ settings.is_repo /\ ~settings.KEEPBOOK_DISABLE_AUTO_COMMIT

\* A command that ends without an error leaves the directory tidy, whatever ran,
\* failed or died before it: with auto-commit, what it wrote is committed, and so is
\* what was left there (the terminal interface, whose rules are not, apart); a sync
\* that is to push leaves no commit behind; if the links led to the connections
\* and accounts of their names before, they do after.  And no command that is to
\* pull before it edits writes before it has pulled (again the terminal interface apart).
CommandsTidyUp ==
    /\ EndedWell =>
          /\ running.wrote /\ HasCommitted /\ running.command # "tui" => ~changed
          /\ "push" \in running.enabled /\ running.command \in SyncCommand /\ settings.is_repo => ~unpushed
          /\ running.followed => LinksFollow(directory)
    /\ running # Nothing /\ running.wrote /\ settings.is_repo /\ running.command # "tui"
          => ~running.unpulled
=============================================================================
