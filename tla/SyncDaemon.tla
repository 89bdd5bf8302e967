------------------------------ MODULE SyncDaemon ------------------------------
(***************************************************************************)
(* The event loop of keepbook-sync-daemon (bin/keepbook-sync-daemon.rs).   *)
(*                                                                         *)
(* One task waits on two timers, the watcher of the data directory, the    *)
(* commands of the tray menu and Ctrl-C, and does one thing at a time: a   *)
(* sync cycle, or a refresh of what the tray shows.  Meanwhile the timers  *)
(* run, the user clicks, and other keepbook processes write the files.     *)
(*                                                                         *)
(* The data directory is one version number: what a part of the tray shows *)
(* is the version it was computed from.  What a sync writes, and how git   *)
(* moves it, are in SyncConnection and GitSync.                            *)
(***************************************************************************)
EXTENDS Naturals, Sequences, FiniteSets

CONSTANTS
    Stages,        \* what a cycle does, in its order: the last is the push
    Parts,         \* what a refresh computes, in its order
    Committing,    \* the part whose computation ends in maybe_auto_commit
    Unavailable,   \* a line with no figures: not loaded yet, or not readable
    Gone,          \* no tray
    MaxVersion,    \* bound: how often the files change
    MaxCommands    \* bound: how many commands wait at once

ASSUME PartsAssumption == /\ Parts \in Seq(STRING)
                          /\ Stages \in Seq(STRING) \ {<<>>}
ASSUME UnavailableAssumption == Unavailable \notin Nat
ASSUME BoundsAssumption == MaxVersion \in Nat /\ MaxCommands \in Nat

VARIABLES
    files,        \* the data directory: its version, and whether one file is half written
    watcher,      \* "off" until the loop starts it, then "on", or "failed";
                  \* "lossy" once it has left a change unreported
    signalled,    \* the channel of the watcher holds a signal
    sync_sleep,   \* the timer of the next cycle
    data_watch_debounce_armed,
    cmds,         \* the channel of the tray menu
    pc,           \* what the task is doing
    reason,       \* why it runs the cycle or the refresh it is in, or "none"
    todo,         \* the stages of the cycle, or the parts, still to be done
    state,        \* tray_state
    tray,         \* the state the tray shows, or Gone
    commits       \* config.git.auto_commit, in a data directory git tracks

disk == <<files, watcher, signalled>>
timers == <<sync_sleep, data_watch_debounce_armed>>
task == <<pc, reason, todo>>
ui == <<state, tray>>
vars == <<disk, timers, cmds, task, ui, commits>>

Part == {Parts[i] : i \in DOMAIN Parts}
Stage == {Stages[i] : i \in DOMAIN Stages}
DaemonCommand == {"SyncNow", "OpenPortfolioGraph", "Quit"}

Line == 0..MaxVersion \cup {Unavailable}
KeepbookTrayState == [status : {"Idle", "Syncing", "Error"}, lines : [Part -> Line]]

TypeOK ==
    /\ files \in [version : 0..MaxVersion, torn : BOOLEAN]
    /\ watcher \in {"off", "on", "lossy", "failed"}
    /\ signalled \in BOOLEAN
    /\ sync_sleep \in {"off", "running", "due"}
    /\ data_watch_debounce_armed \in BOOLEAN
    /\ cmds \in Seq(DaemonCommand) /\ Len(cmds) <= MaxCommands
    /\ pc \in {"refreshing", "spawning", "cycling", "arming", "watching",
               "waiting", "stopped"}
    /\ reason \in {"boot", "startup", "cycle", "local", "none"}
    /\ todo \in Seq(Part \cup Stage)
    /\ state \in KeepbookTrayState
    /\ tray = Gone \/ tray \in KeepbookTrayState
    /\ commits \in BOOLEAN

Init ==
    /\ files = [version |-> 0, torn |-> FALSE]
    /\ watcher = "off"
    /\ signalled = FALSE
    /\ sync_sleep = "off" /\ data_watch_debounce_armed = FALSE
    /\ cmds = <<>>
    /\ pc = "refreshing" /\ reason = "boot" /\ todo = Parts
    /\ state = [status |-> "Idle", lines |-> [p \in Part |-> Unavailable]]
    /\ tray = Gone
    /\ commits \in BOOLEAN

(***************************************************************************)
(* Files, and the watcher.                                                 *)
(***************************************************************************)

watching == watcher \in {"on", "lossy"}

\* Something under the data directory is created, modified or removed.  The
\* watcher's thread sends a signal; it sends none for an error, or an event of
\* a kind it passes over, as when the kernel's queue has overflowed.
Touch ==
    \/ ~watching /\ UNCHANGED <<watcher, signalled>>
    \/ watching /\ signalled' = TRUE /\ UNCHANGED watcher
    \/ watching /\ watcher' = "lossy" /\ UNCHANGED signalled

NoTouch == UNCHANGED <<watcher, signalled>>

\* Another process writes a file: fs::write empties it, then fills it.
BeginWrite ==
    /\ ~files.torn /\ files.version < MaxVersion
    /\ files' = [version |-> files.version + 1, torn |-> TRUE]
    /\ Touch
    /\ UNCHANGED <<timers, cmds, task, ui, commits>>

EndWrite ==
    /\ files.torn
    /\ files' = [files EXCEPT !.torn = FALSE]
    /\ Touch
    /\ UNCHANGED <<timers, cmds, task, ui, commits>>

(***************************************************************************)
(* The tray, and the refresh of its lines.                                 *)
(***************************************************************************)

\* The tray shows s; when it cannot be reached the daemon goes on without it.
apply_tray_state(s) ==
    tray' \in (IF tray = Gone THEN {Gone} ELSE {s, Gone})

\* Mutant: the snapshot commits whatever the configuration says.
maybe_auto_commit_Always == Touch

\* git status, add and commit work in .git, under the watched directory.
maybe_auto_commit == IF commits THEN Touch ELSE NoTouch

refresh_lines ==
    /\ pc = "refreshing" /\ todo # <<>>
    /\ state' = [state EXCEPT !.lines[Head(todo)] =
                    IF files.torn THEN Unavailable ELSE files.version]
    /\ IF Head(todo) = Committing THEN maybe_auto_commit ELSE NoTouch
    /\ todo' = Tail(todo)
    /\ UNCHANGED <<files, timers, cmds, pc, reason, tray, commits>>

\* Mutant: the signals that came meanwhile are taken to be its own.
refresh_tray_state_Drains ==
    /\ pc = "refreshing" /\ todo = <<>>
    /\ IF reason = "boot"
       THEN pc' = "spawning" /\ UNCHANGED <<reason, tray>>
       ELSE /\ apply_tray_state(state)
            /\ IF reason = "local" THEN pc' = "waiting" /\ reason' = "none"
                                   ELSE pc' = "arming" /\ UNCHANGED reason
    /\ signalled' = FALSE
    /\ UNCHANGED <<files, watcher, timers, cmds, todo, state, commits>>

\* The end of refresh_tray_state, or of the refresh before there is a tray.
refresh_tray_state ==
    /\ pc = "refreshing" /\ todo = <<>>
    /\ IF reason = "boot"
       THEN pc' = "spawning" /\ UNCHANGED <<reason, tray>>
       ELSE /\ apply_tray_state(state)
            /\ IF reason = "local"
               THEN pc' = "waiting" /\ reason' = "none"
               ELSE pc' = "arming" /\ UNCHANGED reason
    /\ UNCHANGED <<disk, timers, cmds, todo, state, commits>>

Refresh(why) ==
    /\ pc' = "refreshing" /\ reason' = why /\ todo' = Parts

(***************************************************************************)
(* The sync cycle.                                                         *)
(***************************************************************************)
run_cycle ==
    /\ pc' = "cycling" /\ reason' = "cycle" /\ todo' = Stages
    /\ state' = [state EXCEPT !.status = "Syncing"]
    /\ apply_tray_state(state')

\* Mutant: a stage writes on and on.
Effect_Unbounded ==
    /\ files' = [files EXCEPT !.version = @ + 1]
    /\ Touch

\* What a stage does to the files: nothing, git's own files or symbolic
\* links, or data.
Effect ==
    \/ NoTouch /\ UNCHANGED files
    \/ Touch /\ UNCHANGED files
    \/ /\ files.version < MaxVersion
       /\ files' = [files EXCEPT !.version = @ + 1]
       /\ Touch

CycleEnds(status) ==
    /\ state' = [state EXCEPT !.status = status]
    /\ Refresh(reason)

\* A stage ends; all but the push may fail, which ends the cycle.
CycleStage ==
    /\ pc = "cycling"
    /\ Effect
    /\ \/ /\ Len(todo) > 1
          /\ todo' = Tail(todo)
          /\ UNCHANGED <<pc, reason, state>>
       \/ Len(todo) > 1 /\ CycleEnds("Error")
       \/ Len(todo) = 1 /\ CycleEnds("Idle")
    /\ UNCHANGED <<timers, cmds, tray, commits>>

(***************************************************************************)
(* Daemon::run, before its loop.                                           *)
(***************************************************************************)
SpawnTray ==
    /\ pc = "spawning"
    /\ reason' = "startup"
    /\ \/ /\ pc' = "arming"                        \* --no-sync-on-start
          /\ UNCHANGED <<todo, state>>
       \/ /\ pc' = "cycling" /\ todo' = Stages
          /\ state' = [state EXCEPT !.status = "Syncing"]
    /\ tray' \in {state', Gone}
    /\ UNCHANGED <<disk, timers, cmds, commits>>

\* Mutant: the timer is set at startup only.
ArmSync_Once ==
    /\ pc = "arming"
    /\ apply_tray_state(state)
    /\ sync_sleep' = IF reason = "startup" THEN "running" ELSE sync_sleep
    /\ pc' = IF reason = "startup" THEN "watching" ELSE "waiting"
    /\ reason' = "none"
    /\ UNCHANGED <<disk, data_watch_debounce_armed, cmds, todo, state, commits>>

\* The next cycle is timed and shown.  At startup the refresh tick and the
\* watcher are next; a scheduled or manual cycle goes back to waiting.
ArmSync ==
    /\ pc = "arming"
    /\ apply_tray_state(state)
    /\ sync_sleep' = "running"
    /\ pc' = IF reason = "startup" THEN "watching" ELSE "waiting"
    /\ reason' = "none"
    /\ UNCHANGED <<disk, data_watch_debounce_armed, cmds, todo, state, commits>>

start_data_dir_watcher ==
    /\ pc = "watching"
    /\ watcher' \in {"on", "failed"}
    /\ pc' = "waiting"
    /\ UNCHANGED <<files, signalled, timers, cmds, reason, todo, ui, commits>>

(***************************************************************************)
(* The branches of its select.                                             *)
(***************************************************************************)
SyncSleep ==
    /\ pc = "waiting" /\ sync_sleep = "due"
    /\ sync_sleep' = "off"
    /\ run_cycle
    /\ UNCHANGED <<disk, data_watch_debounce_armed, cmds, commits>>

\* Every --refresh-interval.
RefreshTick ==
    /\ pc = "waiting"
    /\ Refresh("local")
    /\ UNCHANGED <<disk, timers, cmds, ui, commits>>

\* All signals so far are taken, and the debounce starts again.
WatchSignal ==
    /\ pc = "waiting" /\ watching /\ signalled
    /\ signalled' = FALSE
    /\ data_watch_debounce_armed' = TRUE
    /\ UNCHANGED <<files, watcher, sync_sleep, cmds, task, ui, commits>>

\* DATA_WATCH_DEBOUNCE after the last signal taken.
DebounceSleep ==
    /\ pc = "waiting" /\ data_watch_debounce_armed
    /\ data_watch_debounce_armed' = FALSE
    /\ Refresh("local")
    /\ UNCHANGED <<disk, sync_sleep, cmds, ui, commits>>

SyncNow ==
    /\ pc = "waiting" /\ cmds # <<>> /\ Head(cmds) = "SyncNow"
    /\ cmds' = Tail(cmds)
    /\ run_cycle
    /\ UNCHANGED <<disk, timers, commits>>

\* The graph is written outside the data directory.
OpenPortfolioGraph ==
    /\ pc = "waiting" /\ cmds # <<>> /\ Head(cmds) = "OpenPortfolioGraph"
    /\ cmds' = Tail(cmds)
    /\ apply_tray_state(state)
    /\ UNCHANGED <<disk, timers, task, state, commits>>

\* The process ends, and its tray, watcher and timers with it.
Stop ==
    /\ pc' = "stopped" /\ reason' = "none" /\ todo' = <<>>
    /\ tray' = Gone /\ cmds' = <<>>
    /\ watcher' = "off" /\ signalled' = FALSE
    /\ sync_sleep' = "off" /\ data_watch_debounce_armed' = FALSE
    /\ UNCHANGED <<files, state, commits>>

Quit ==
    /\ pc = "waiting" /\ cmds # <<>> /\ Head(cmds) = "Quit"
    /\ Stop

\* Ctrl-C ends the process until the loop has first asked for it; from then on
\* only the select hears it: one that comes during a cycle or a refresh is lost.
CtrlC ==
    /\ pc # "stopped"
    /\ pc = "waiting" \/ watcher = "off"
    /\ Stop

(***************************************************************************)
(* The clock and the user.                                                 *)
(***************************************************************************)
Elapse ==
    /\ sync_sleep = "running"
    /\ sync_sleep' = "due"
    /\ UNCHANGED <<disk, data_watch_debounce_armed, cmds, task, ui, commits>>

Click(cmd) ==
    /\ tray # Gone /\ Len(cmds) < MaxCommands
    /\ cmds' = Append(cmds, cmd)
    /\ UNCHANGED <<disk, timers, task, ui, commits>>

run == refresh_lines \/ refresh_tray_state \/ SpawnTray \/ CycleStage \/ ArmSync
       \/ start_data_dir_watcher

Next ==
    \/ run
    \/ SyncSleep \/ RefreshTick \/ WatchSignal \/ DebounceSleep
    \/ SyncNow \/ OpenPortfolioGraph \/ Quit \/ CtrlC
    \/ BeginWrite \/ EndWrite \/ Elapse
    \/ \E cmd \in DaemonCommand : Click(cmd)

\* The task runs on, and a write that has begun ends.  tokio::select! polls its
\* branches in a random order, so one that is ready again and again is taken in
\* the end; the debounce is half a second, and signals do not come for ever.
\* Of the clock, the user and Ctrl-C nothing is assumed.
Fairness ==
    /\ WF_vars(run) /\ WF_vars(EndWrite)
    /\ SF_vars(SyncSleep) /\ SF_vars(WatchSignal) /\ SF_vars(DebounceSleep)
    /\ SF_vars(SyncNow \/ OpenPortfolioGraph \/ Quit)

Spec == Init /\ [][Next]_vars /\ Fairness

(***************************************************************************)
(* Properties.                                                             *)
(***************************************************************************)

\* Whenever the daemon waits, the tray shows what it knows, and no longer a
\* sync in progress: every branch of run ends in apply_tray_state.
TrayMatches ==
    pc = "waiting" => tray \in {state, Gone} /\ state.status # "Syncing"

\* The tray shows the files as they are.
Current == tray = Gone \/ \A p \in Part : tray.lines[p] = files.version

\* The periodic refresh is the "fallback safety net" its option names: as long
\* as it comes, whatever the watcher missed or could not read, and whatever
\* the syncs write, the tray comes to show the files and stays so.
TickShows == []<><<RefreshTick>>_vars => <>[]Current

\* The watcher alone is enough, as long as no change is lost: each signal is
\* followed by a refresh that begins after it, though later signals restart
\* the debounce and a refresh may read a file half written.
WatchShows ==
    <>[](watcher = "on") => (signalled ~> Current)

\* As time goes on the syncs keep coming, however busy the files and the user
\* keep the loop: each cycle times the next, and one that is due is run.
SyncsKeepComing ==
    []<>(sync_sleep # "running") => []<>(pc \in {"cycling", "stopped"})

\* A click on Quit ends the daemon: no branch takes it away unserved.
QuitStops ==
    (\E i \in DOMAIN cmds : cmds[i] = "Quit") ~> (pc = "stopped")

\* The daemon's own refresh does not wake it: once there are no more cycles the
\* debounce comes to rest, unless the snapshot it computes also commits.  With
\* auto_commit it does not: git works in the watched directory, and each
\* refresh brings about the next.
QuietUnlessCommitting ==
    (~commits /\ <>[](pc # "cycling")) => <>[](~data_watch_debounce_armed)

\* Changes show, by the tick alone and by the watcher alone.
ChangesShow == TickShows /\ WatchShows

\* The loop goes on serving: syncs come and Quit is heard.
KeepsServing == SyncsKeepComing /\ QuitStops
=============================================================================
