--------------------------- MODULE SyncDaemonProofs ---------------------------
(***************************************************************************)
(* What the daemon's tray shows while it waits, for any stages and parts.  *)
(*                                                                         *)
(* The invariant says where on the way through a cycle or a refresh a sync *)
(* may be in progress, and that from the last apply_tray_state on the tray *)
(* has the daemon's own state.                                             *)
(***************************************************************************)
EXTENDS SyncDaemon, SequenceTheorems, TLAPS

\* What is left to do is what the task is doing.
Doing == /\ pc = "refreshing" => todo \in Seq(Part)
         /\ pc = "cycling" => todo \in Seq(Stage)

Shown == pc \in {"watching", "waiting"} => tray \in {state, Gone}

Syncing == state.status = "Syncing" => pc \in {"cycling", "stopped"}

IInv == TypeOK /\ Doing /\ Shown /\ Syncing

(***************************************************************************)
(* Facts about the pieces of actions.                                      *)
(***************************************************************************)

\* The parts and the stages are sequences of their own elements.
LEMMA Sequences == Parts \in Seq(Part) /\ Stages \in Seq(Stage)
  BY PartsAssumption DEF Part, Stage

\* A status set, or a line computed, leaves a tray state.
LEMMA StateTypes ==
  ASSUME TypeOK
  PROVE  /\ \A st \in {"Idle", "Syncing", "Error"} :
              /\ [state EXCEPT !.status = st] \in KeepbookTrayState
              /\ [state EXCEPT !.status = st].status = st
         /\ \A p \in Part, v \in Line :
              /\ [state EXCEPT !.lines[p] = v] \in KeepbookTrayState
              /\ [state EXCEPT !.lines[p] = v].status = state.status
  BY DEF TypeOK, KeepbookTrayState

\* Touch and NoTouch keep the types of the watcher.
LEMMA TouchTypes ==
  ASSUME TypeOK, Touch \/ NoTouch
  PROVE  watcher' \in {"off", "on", "lossy", "failed"} /\ signalled' \in BOOLEAN
  BY DEF TypeOK, Touch, NoTouch, watching

\* What the tray shows after apply_tray_state.
LEMMA Applied ==
  ASSUME TypeOK, NEW s \in KeepbookTrayState, apply_tray_state(s)
  PROVE  tray' \in {s, Gone} /\ (tray' = Gone \/ tray' \in KeepbookTrayState)
  BY DEF apply_tray_state

\* Taking a command, and adding one while there is room, keep the channel's type.
LEMMA Channel ==
  ASSUME TypeOK
  PROVE  /\ cmds # <<>> => Tail(cmds) \in Seq(DaemonCommand) /\ Len(Tail(cmds)) <= MaxCommands
         /\ \A cmd \in DaemonCommand : Len(cmds) < MaxCommands =>
              /\ Append(cmds, cmd) \in Seq(DaemonCommand)
              /\ Len(Append(cmds, cmd)) <= MaxCommands
<1>1. cmds \in Seq(DaemonCommand) /\ Len(cmds) \in Nat /\ Len(cmds) <= MaxCommands
  BY DEF TypeOK
<1>2. ASSUME cmds # <<>>
      PROVE  Tail(cmds) \in Seq(DaemonCommand) /\ Len(Tail(cmds)) <= MaxCommands
  <2>1. Tail(cmds) \in Seq(DaemonCommand) /\ Len(Tail(cmds)) = Len(cmds) - 1
    BY <1>1, <1>2, HeadTailProperties
  <2> QED
    BY <1>1, <2>1, BoundsAssumption
<1>3. ASSUME NEW cmd \in DaemonCommand, Len(cmds) < MaxCommands
      PROVE  /\ Append(cmds, cmd) \in Seq(DaemonCommand)
             /\ Len(Append(cmds, cmd)) <= MaxCommands
  <2>1. Append(cmds, cmd) \in Seq(DaemonCommand) /\ Len(Append(cmds, cmd)) = Len(cmds) + 1
    BY <1>1, AppendProperties
  <2> QED
    BY <1>1, <1>3, <2>1, BoundsAssumption
<1> QED
  BY <1>2, <1>3

\* At first.
LEMMA InitInv == Init => IInv
<1> SUFFICES ASSUME Init PROVE IInv
  OBVIOUS
<1>1. files \in [version : 0..MaxVersion, torn : BOOLEAN]
  BY BoundsAssumption DEF Init
<1>2. cmds \in Seq(DaemonCommand) /\ Len(cmds) <= MaxCommands
  BY BoundsAssumption DEF Init
<1>3. todo \in Seq(Part) /\ todo \in Seq(Part \cup Stage)
  BY Sequences DEF Init
<1>4. state \in KeepbookTrayState
  BY DEF Init, KeepbookTrayState, Line
<1>5. TypeOK
  BY <1>1, <1>2, <1>3, <1>4 DEF Init, TypeOK
<1> QED
  BY <1>3, <1>5 DEF Init, IInv, Doing, Shown, Syncing

(***************************************************************************)
(* The steps of the task.                                                  *)
(***************************************************************************)
LEMMA RefreshLines == IInv /\ refresh_lines => IInv'
<1> SUFFICES ASSUME IInv, refresh_lines PROVE IInv'
  OBVIOUS
<1> USE DEF IInv
<1>1. Head(todo) \in Part /\ Tail(todo) \in Seq(Part)
  BY DEF refresh_lines, Doing
<1>2. watcher' \in {"off", "on", "lossy", "failed"} /\ signalled' \in BOOLEAN
  BY TouchTypes DEF refresh_lines, maybe_auto_commit
<1>3. (IF files.torn THEN Unavailable ELSE files.version) \in Line
  BY DEF TypeOK, Line
<1>4. state' \in KeepbookTrayState /\ state'.status = state.status
  BY <1>1, <1>3, StateTypes DEF refresh_lines
<1>5. TypeOK'
  BY <1>1, <1>2, <1>4 DEF TypeOK, refresh_lines, timers
<1>6. Doing' /\ Shown' /\ Syncing'
  BY <1>1, <1>4 DEF refresh_lines, Doing, Shown, Syncing
<1> QED
  BY <1>5, <1>6

\* A refresh ends.
LEMMA RefreshEnd == IInv /\ refresh_tray_state => IInv'
<1> SUFFICES ASSUME IInv, refresh_tray_state PROVE IInv'
  OBVIOUS
<1> USE DEF IInv
<1>1. tray' = Gone \/ tray' \in KeepbookTrayState
  BY Applied DEF refresh_tray_state, TypeOK
<1>2. pc' # "spawning" => tray' \in {state', Gone}
  BY Applied DEF refresh_tray_state, TypeOK
<1>3. TypeOK'
  BY <1>1 DEF TypeOK, refresh_tray_state, disk, timers
<1>4. Doing' /\ Shown' /\ Syncing'
  BY <1>2 DEF refresh_tray_state, Doing, Shown, Syncing
<1> QED
  BY <1>3, <1>4

\* The tray comes up, or does not.
LEMMA SpawnTrayStep == IInv /\ SpawnTray => IInv'
<1> SUFFICES ASSUME IInv, SpawnTray PROVE IInv'
  OBVIOUS
<1> USE DEF IInv
<1>1. state' \in KeepbookTrayState /\ (pc' = "arming" => state' = state)
  BY StateTypes DEF SpawnTray, TypeOK
<1>2. todo' \in Seq(Part \cup Stage) /\ (pc' = "cycling" => todo' \in Seq(Stage))
  BY Sequences DEF SpawnTray, TypeOK
<1>3. TypeOK'
  BY <1>1, <1>2 DEF TypeOK, SpawnTray, disk, timers
<1>4. Doing' /\ Shown' /\ Syncing'
  BY <1>1, <1>2 DEF SpawnTray, Doing, Shown, Syncing
<1> QED
  BY <1>3, <1>4

\* A cycle goes on.
LEMMA CycleStageStep == IInv /\ CycleStage => IInv'
<1> SUFFICES ASSUME IInv, CycleStage PROVE IInv'
  OBVIOUS
<1> USE DEF IInv
<1>1. /\ files' \in [version : 0..MaxVersion, torn : BOOLEAN]
      /\ watcher' \in {"off", "on", "lossy", "failed"} /\ signalled' \in BOOLEAN
  BY TouchTypes, BoundsAssumption DEF CycleStage, Effect, TypeOK
<1>2. CASE Len(todo) > 1 /\ todo' = Tail(todo) /\ UNCHANGED <<pc, reason, state>>
  <2>1. todo \in Seq(Stage) /\ todo # <<>>
    BY <1>2 DEF Doing, CycleStage
  <2>2. Tail(todo) \in Seq(Stage)
    BY <2>1
  <2>3. TypeOK'
    BY <1>1, <1>2, <2>2 DEF TypeOK, CycleStage, timers
  <2>4. Doing' /\ Shown' /\ Syncing'
    BY <1>2, <2>2 DEF CycleStage, Doing, Shown, Syncing
  <2> QED
    BY <2>3, <2>4
<1>3. ASSUME NEW st \in {"Idle", "Error"}, CycleEnds(st) PROVE IInv'
  <2>1. state' \in KeepbookTrayState /\ state'.status # "Syncing"
    BY <1>3, StateTypes DEF CycleEnds
  <2>2. pc' = "refreshing" /\ reason' = reason /\ todo' \in Seq(Part)
    BY <1>3, Sequences DEF CycleEnds, Refresh
  <2>3. TypeOK'
    BY <1>1, <2>1, <2>2 DEF TypeOK, CycleStage, timers
  <2>4. Doing' /\ Shown' /\ Syncing'
    BY <2>1, <2>2 DEF Doing, Shown, Syncing
  <2> QED
    BY <2>3, <2>4
<1> QED
  BY <1>2, <1>3 DEF CycleStage

\* The next sync is timed.
LEMMA ArmSyncStep == IInv /\ ArmSync => IInv'
<1> SUFFICES ASSUME IInv, ArmSync PROVE IInv'
  OBVIOUS
<1> USE DEF IInv
<1>1. tray' \in {state, Gone} /\ (tray' = Gone \/ tray' \in KeepbookTrayState)
  BY Applied DEF ArmSync, TypeOK
<1>2. TypeOK'
  BY <1>1 DEF TypeOK, ArmSync, disk
<1>3. Doing' /\ Shown' /\ Syncing'
  BY <1>1 DEF ArmSync, Doing, Shown, Syncing
<1> QED
  BY <1>2, <1>3

\* The data directory is watched.
LEMMA StartWatcher == IInv /\ start_data_dir_watcher => IInv'
  BY DEF IInv, TypeOK, Doing, Shown, Syncing, start_data_dir_watcher, timers, ui

(***************************************************************************)
(* The branches of the select.                                             *)
(***************************************************************************)

\* The beginning of a cycle, whichever branch it is in.
LEMMA RunCycle ==
  ASSUME IInv, run_cycle
  PROVE  /\ state' \in KeepbookTrayState
         /\ tray' = Gone \/ tray' \in KeepbookTrayState
         /\ todo' \in Seq(Stage) /\ pc' = "cycling" /\ reason' = "cycle"
         /\ Doing' /\ Shown' /\ Syncing'
<1>1. state' \in KeepbookTrayState
  BY StateTypes DEF run_cycle, IInv
<1>2. tray' = Gone \/ tray' \in KeepbookTrayState
  BY <1>1 DEF run_cycle, apply_tray_state
<1>3. todo' \in Seq(Stage) /\ pc' = "cycling" /\ reason' = "cycle"
  BY Sequences DEF run_cycle
<1> QED
  BY <1>1, <1>2, <1>3 DEF Doing, Shown, Syncing

\* A cycle begins in time or on demand.
LEMMA TimedCycle == IInv /\ (SyncSleep \/ SyncNow) => IInv'
<1> SUFFICES ASSUME IInv, SyncSleep \/ SyncNow PROVE IInv'
  OBVIOUS
<1>1. run_cycle
  BY DEF SyncSleep, SyncNow
<1>2. cmds' \in Seq(DaemonCommand) /\ Len(cmds') <= MaxCommands
  BY Channel DEF IInv, TypeOK, SyncSleep, SyncNow
<1>3. /\ UNCHANGED <<files, watcher, signalled, data_watch_debounce_armed, commits>>
      /\ sync_sleep' \in {sync_sleep, "off"}
  BY DEF SyncSleep, SyncNow, disk, timers
<1>4. todo' \in Seq(Part \cup Stage)
  BY <1>1, RunCycle
<1> QED
  BY <1>1, <1>2, <1>3, <1>4, RunCycle DEF IInv, TypeOK

\* A refresh of what is stored begins.
LEMMA LocalRefresh == IInv /\ (RefreshTick \/ DebounceSleep) => IInv'
<1> SUFFICES ASSUME IInv, RefreshTick \/ DebounceSleep PROVE IInv'
  OBVIOUS
<1>1. pc' = "refreshing" /\ reason' = "local" /\ todo' \in Seq(Part)
  BY Sequences DEF RefreshTick, DebounceSleep, Refresh
<1>2. /\ UNCHANGED <<files, watcher, signalled, sync_sleep, cmds, state, tray, commits>>
      /\ data_watch_debounce_armed' \in {data_watch_debounce_armed, FALSE}
  BY DEF RefreshTick, DebounceSleep, disk, timers, ui
<1>3. todo' \in Seq(Part \cup Stage)
  BY <1>1
<1>4. TypeOK'
  BY <1>1, <1>2, <1>3 DEF IInv, TypeOK
<1>5. pc = "waiting"
  BY DEF RefreshTick, DebounceSleep
<1> QED
  BY <1>1, <1>2, <1>4, <1>5 DEF IInv, Doing, Shown, Syncing

\* The loop's other branches, and what happens around it.
LEMMA OtherBranches ==
  IInv /\ (WatchSignal \/ OpenPortfolioGraph \/ Quit \/ CtrlC) => IInv'
<1> SUFFICES ASSUME IInv, WatchSignal \/ OpenPortfolioGraph \/ Quit \/ CtrlC
             PROVE  IInv'
  OBVIOUS
<1> USE DEF IInv
<1>1. CASE WatchSignal
  BY <1>1 DEF TypeOK, Doing, Shown, Syncing, WatchSignal, task, ui
<1>2. CASE OpenPortfolioGraph
  <2>1. tray' \in {state, Gone} /\ (tray' = Gone \/ tray' \in KeepbookTrayState)
    BY <1>2, Applied DEF OpenPortfolioGraph, TypeOK
  <2>2. cmds' \in Seq(DaemonCommand) /\ Len(cmds') <= MaxCommands
    BY <1>2, Channel DEF OpenPortfolioGraph
  <2> QED
    BY <1>2, <2>1, <2>2
    DEF TypeOK, Doing, Shown, Syncing, OpenPortfolioGraph, disk, timers, task
<1>3. CASE Stop
  <2>1. cmds' \in Seq(DaemonCommand) /\ Len(cmds') <= MaxCommands
    BY <1>3, BoundsAssumption DEF Stop
  <2>2. todo' \in Seq(Part \cup Stage)
    BY <1>3 DEF Stop
  <2>3. TypeOK'
    BY <1>3, <2>1, <2>2 DEF TypeOK, Stop
  <2> QED
    BY <1>3, <2>3 DEF Doing, Shown, Syncing, Stop
<1> QED
  BY <1>1, <1>2, <1>3 DEF Quit, CtrlC

(***************************************************************************)
(* Other processes, the clock and the user.                                *)
(***************************************************************************)
LEMMA Environment ==
  IInv /\ (BeginWrite \/ EndWrite \/ Elapse
             \/ \E cmd \in DaemonCommand : Click(cmd)) => IInv'
<1> SUFFICES ASSUME IInv, BeginWrite \/ EndWrite \/ Elapse
                            \/ \E cmd \in DaemonCommand : Click(cmd)
             PROVE  IInv'
  OBVIOUS
<1> USE DEF IInv
<1>1. CASE BeginWrite \/ EndWrite
  <2>1. watcher' \in {"off", "on", "lossy", "failed"} /\ signalled' \in BOOLEAN
    BY <1>1, TouchTypes DEF BeginWrite, EndWrite
  <2>2. files' \in [version : 0..MaxVersion, torn : BOOLEAN]
    <3>1. files \in [version : 0..MaxVersion, torn : BOOLEAN]
      BY DEF TypeOK
    <3>2. CASE BeginWrite
      <4>1. files.version + 1 \in 0..MaxVersion
        BY <3>1, <3>2, BoundsAssumption DEF BeginWrite
      <4> QED
        BY <3>2, <4>1 DEF BeginWrite
    <3>3. CASE EndWrite
      BY <3>1, <3>3 DEF EndWrite
    <3> QED
      BY <1>1, <3>2, <3>3
  <2>3. UNCHANGED <<timers, cmds, task, ui, commits>>
    BY <1>1 DEF BeginWrite, EndWrite
  <2> QED
    BY <2>1, <2>2, <2>3 DEF TypeOK, Doing, Shown, Syncing, timers, task, ui
<1>2. CASE Elapse
  BY <1>2 DEF TypeOK, Doing, Shown, Syncing, Elapse, disk, task, ui
<1>3. ASSUME NEW cmd \in DaemonCommand, Click(cmd) PROVE IInv'
  <2>1. cmds' \in Seq(DaemonCommand) /\ Len(cmds') <= MaxCommands
    BY <1>3, Channel DEF Click
  <2> QED
    BY <1>3, <2>1 DEF TypeOK, Doing, Shown, Syncing, Click, disk, timers, task, ui
<1> QED
  BY <1>1, <1>2, <1>3

\* Nothing happens.
LEMMA Stutter == IInv /\ UNCHANGED vars => IInv'
  BY DEF IInv, TypeOK, Doing, Shown, Syncing, vars, disk, timers, task, ui

\* Every step keeps the invariant.
LEMMA NextInv == IInv /\ [Next]_vars => IInv'
  BY RefreshLines, RefreshEnd, SpawnTrayStep, CycleStageStep, ArmSyncStep,
     StartWatcher, TimedCycle, LocalRefresh, OtherBranches, Environment, Stutter
  DEF Next, run

(***************************************************************************)
(* The theorems.                                                           *)
(***************************************************************************)

\* So it always holds.
LEMMA Inductive == Spec => []IInv
<1>1. Init => IInv
  BY InitInv
<1>2. IInv /\ [Next]_vars => IInv'
  BY NextInv
<1> QED
  BY <1>1, <1>2, PTL DEF Spec

\* The types of the daemon's state: whatever branch is taken, it does parts in
\* a refresh and stages in a cycle.
THEOREM DaemonTypes == Spec => []TypeOK
<1>1. IInv => TypeOK
  BY DEF IInv
<1> QED
  BY <1>1, Inductive, PTL

\* While it waits, the tray shows what the daemon knows, and no sync in progress.
THEOREM TrayShowsState == Spec => []TrayMatches
<1>1. IInv => TrayMatches
  BY DEF IInv, Shown, Syncing, TrayMatches
<1> QED
  BY <1>1, Inductive, PTL
=============================================================================
