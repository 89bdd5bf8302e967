------------------------------ MODULE GitSync ------------------------------
(***************************************************************************)
(* The data directories of several machines as clones of one git           *)
(* repository (git.rs, app/preflight.rs, app/mod.rs, sync/service.rs and   *)
(* the cycle of bin/keepbook-sync-daemon.rs).  Every operation is a        *)
(* sequence of git commands and file writes with nothing locked in         *)
(* between: preflight (status, fetch, merge, perhaps abort), the files it  *)
(* saves, auto commit (status, add and commit, push), push after sync, and *)
(* the daemon ends each cycle, failed or not, with a refresh of the tray,  *)
(* whose portfolio snapshot auto-commits too.                              *)
(*                                                                         *)
(* A save is two writes of files on one path, its halves.  A commit is its *)
(* place in log, and a branch is the set of commits it reaches.  Every     *)
(* data directory is the root of a clone whose upstream is origin/master.  *)
(***************************************************************************)
EXTENDS Naturals, Sequences, FiniteSets

CONSTANTS
    Clone,      \* data directories
    Proc,       \* processes of keepbook
    Daemon,     \* those that run the cycle of the daemon; the others are commands
    Dir,        \* Dir[p]: the data directory of p
    Path,       \* files; changes of one file on two branches conflict
    Config,     \* [git] sections of keepbook.toml, the same for all clones
    MaxSave,    \* bound on saves
    MaxFault,   \* bound on git commands that fail, saves cut short and crashes
    MaxCommand, \* bound on commands run beside the daemons
    MaxReset    \* bound on git syncs of the server

ASSUME GitSyncAssumption ==
    /\ Daemon \subseteq Proc
    /\ Dir \in [Proc -> Clone]
    /\ Config \subseteq [auto_commit : BOOLEAN, auto_push : BOOLEAN,
                         pull_before_edit : BOOLEAN, push_after_sync : BOOLEAN,
                         merge_master_before_command : BOOLEAN]
    /\ {MaxSave, MaxFault, MaxCommand, MaxReset} \subseteq Nat

VARIABLES
    git,        \* the [git] section
    saves,      \* what was saved where: [clone, path]
    dirty,      \* dirty[c]: halves of saves written and not committed
    log,        \* all commits: [clone, adds, marked]; marked: with conflict markers
    head,       \* head[c]: commits of the checked-out branch
    tracking,   \* tracking[c]: commits of origin/master as c last saw it
    merging,    \* merging[c]: commits whose merge stopped on a conflict
    origin,     \* commits of master in the remote repository
    proc,       \* proc[p]: where p is in its operation
    upset,      \* history: what came between the steps of an operation in clone c:
                \* "overlap" of another, "cut" short, "reset" by the server
    faults, commands, resets

vars == <<git, saves, dirty, log, head, tracking, merging, origin, proc, upset, faults,
          commands, resets>>
repo == <<log, head, tracking, merging, origin>>
counters == <<faults, commands, resets>>

Idle == [pc |-> "idle", kind |-> "none", rounds |-> 0, then |-> "idle",
         save |-> 0]

Init ==
    /\ git \in Config
    /\ saves = <<>>
    /\ dirty = [c \in Clone |-> {}]
    /\ log = <<>>
    /\ head = [c \in Clone |-> {}]
    /\ tracking = [c \in Clone |-> {}]
    /\ merging = [c \in Clone |-> {}]
    /\ origin = {}
    /\ proc = [p \in Proc |-> Idle]
    /\ upset = [c \in Clone |-> {}]
    /\ faults = 0 /\ commands = 0 /\ resets = 0

-----------------------------------------------------------------------------
Half == [save : 1 .. MaxSave, part : {1, 2}]

\* git status --porcelain prints something.
Unclean(c) == dirty[c] # {} \/ merging[c] # {}

Content(cs) == UNION {log[k].adds : k \in cs}
Paths(halves) == {saves[h.save].path : h \in halves}

\* Paths that both branches changed since they parted.
Clash(mine, theirs) ==
    Paths(Content(mine \ theirs)) \cap Paths(Content(theirs \ mine))

Goto(p, pc) == proc' = [proc EXCEPT ![p].pc = pc]
Finish(p) == proc' = [proc EXCEPT ![p] = Idle]

\* p is about to auto-commit, and goes on at `then` however that ends.
AutoCommit(p, then) ==
    IF git.auto_commit
    THEN proc' = [proc EXCEPT ![p].pc = "commit_status", ![p].then = then]
    ELSE IF then = "idle" THEN Finish(p) ELSE Goto(p, then)
Committed(p) ==
    IF proc[p].then = "idle" THEN Finish(p) ELSE Goto(p, proc[p].then)

\* Mutant: the portfolio snapshot of the tray does not commit.
Refresh_ReadOnly(p) == Finish(p)

\* The end of an operation: the daemon refreshes its tray first.
Refresh(p) ==
    IF p \in Daemon THEN AutoCommit(p, "idle") ELSE Finish(p)

Fault == faults < MaxFault /\ faults' = faults + 1

-----------------------------------------------------------------------------
(* Preflight: try_merge_origin_master, then try_pull_remote *)

Begin(p) ==
    /\ proc[p].pc = "idle"
    /\ LET rounds == Cardinality({r \in {1, 2} :
                        \/ r = 1 /\ git.merge_master_before_command
                        \/ r = 2 /\ git.pull_before_edit})
           pc == IF rounds = 0 THEN "save" ELSE "status"
       IN  \/ /\ p \in Daemon
              /\ proc' = [proc EXCEPT ![p] =
                     [Idle EXCEPT !.pc = pc, !.kind = "cycle", !.rounds = rounds]]
              /\ UNCHANGED commands
           \/ /\ p \notin Daemon /\ commands < MaxCommand
              /\ commands' = commands + 1
              /\ \E kind \in {"edit", "sync"} : proc' = [proc EXCEPT ![p] =
                     [Idle EXCEPT !.pc = pc, !.kind = kind, !.rounds = rounds]]
    /\ upset' = [upset EXCEPT ![Dir[p]] = @ \cup
           IF \E q \in Proc \ {p} : Dir[q] = Dir[p] /\ proc[q].pc # "idle"
           THEN {"overlap"} ELSE {}]
    /\ UNCHANGED <<git, saves, dirty, repo, faults, resets>>

\* A tree that is not clean ends the operation before anything is saved.
Status(p) ==
    /\ proc[p].pc = "status"
    /\ IF Unclean(Dir[p]) THEN Refresh(p) ELSE Goto(p, "fetch")
    /\ UNCHANGED <<git, saves, dirty, repo, upset, counters>>

Fetch(p) ==
    /\ proc[p].pc = "fetch"
    /\ \/ /\ tracking' = [tracking EXCEPT ![Dir[p]] = origin]
          /\ Goto(p, "merge")
          /\ UNCHANGED faults
       \/ /\ Fault
          /\ Refresh(p)
          /\ UNCHANGED tracking
    /\ UNCHANGED <<git, saves, dirty, log, head, merging, origin, upset, commands, resets>>

\* Mutant: one round too many.
Merged_NoEnd(p) ==
    proc' = [proc EXCEPT ![p].rounds = @ - 1,
                         ![p].pc = IF proc[p].rounds = 0 THEN "save" ELSE "status"]

Merged(p) ==
    proc' = [proc EXCEPT ![p].rounds = @ - 1,
                         ![p].pc = IF proc[p].rounds = 1 THEN "save" ELSE "status"]

Merge(p) ==
    LET c == Dir[p]
        theirs == tracking[c]
        overwritten == Paths(dirty[c]) \cap Paths(Content(theirs \ head[c]))
        clash == Clash(head[c], theirs)
    IN
    /\ proc[p].pc = "merge"
    /\ \/ /\ merging[c] # {}    \* git refuses, and finds the other's unmerged files
          /\ Goto(p, "abort")
          /\ UNCHANGED <<log, head, merging>>
       \/ /\ merging[c] = {} /\ overwritten # {}    \* git refuses
          /\ Refresh(p)
          /\ UNCHANGED <<log, head, merging>>
       \/ /\ merging[c] = {} /\ overwritten = {} /\ clash # {}
          /\ merging' = [merging EXCEPT ![c] = theirs]
          /\ Goto(p, "abort")
          /\ UNCHANGED <<log, head>>
       \/ /\ merging[c] = {} /\ overwritten = {} /\ clash = {}
          /\ IF theirs \subseteq head[c] \/ head[c] \subseteq theirs
             THEN /\ head' = [head EXCEPT ![c] = @ \cup theirs]
                  /\ UNCHANGED log
             ELSE /\ log' = Append(log, [clone |-> c, adds |-> {}, marked |-> FALSE])
                  /\ head' = [head EXCEPT ![c] = @ \cup theirs \cup {Len(log')}]
          /\ Merged(p)
          /\ UNCHANGED merging
    /\ UNCHANGED <<git, saves, dirty, tracking, origin, upset, counters>>

\* Mutant: the conflict is reported and the merge left as it is.
Abort_Forgotten(p) ==
    /\ proc[p].pc = "abort"
    /\ Refresh(p)
    /\ UNCHANGED <<git, saves, dirty, repo, upset, counters>>

\* Mutant: the tree is made clean by a reset to origin/master.
Abort_Reset(p) ==
    LET c == Dir[p] IN
    /\ proc[p].pc = "abort"
    /\ merging' = [merging EXCEPT ![c] = {}]
    /\ head' = [head EXCEPT ![c] = tracking[c]]
    /\ Refresh(p)
    /\ UNCHANGED <<git, saves, dirty, log, tracking, origin, upset, counters>>

\* git diff --diff-filter=U, and git merge --abort if it lists a file: the files in
\* conflict go back to the branch, with what was written to them since.
Abort(p) ==
    LET c == Dir[p] IN
    /\ proc[p].pc = "abort"
    /\ merging' = [merging EXCEPT ![c] = {}]
    /\ dirty' = [dirty EXCEPT ![c] =
           {h \in @ : saves[h.save].path \notin Clash(head[c], merging[c])}]
    /\ Refresh(p)
    /\ UNCHANGED <<git, saves, log, head, tracking, origin, upset, counters>>

-----------------------------------------------------------------------------
(* What the operation saves: an edit, a connection, or one connection after another *)

Written(c, save, part) ==
    dirty' = [dirty EXCEPT ![c] = @ \cup {[save |-> save, part |-> part]}]

Save(p) ==
    /\ proc[p].pc = "save"
    /\ \/ /\ Len(saves) < MaxSave
          /\ \E f \in Path : saves' = Append(saves, [clone |-> Dir[p], path |-> f])
          /\ Written(Dir[p], Len(saves'), 1)
          /\ proc' = [proc EXCEPT ![p].pc = "rest", ![p].save = Len(saves')]
       \/ /\ CASE proc[p].kind = "cycle" -> AutoCommit(p, "push_after")    \* "sync all"
               [] proc[p].kind = "sync" -> Goto(p, "push_after")
               [] proc[p].kind = "edit" -> Finish(p)
          /\ UNCHANGED <<saves, dirty>>
    /\ UNCHANGED <<git, repo, upset, counters>>

Rest(p) ==
    /\ proc[p].pc = "rest"
    /\ \/ /\ Written(Dir[p], proc[p].save, 2)
          /\ CASE proc[p].kind = "cycle" -> AutoCommit(p, "save")
               [] proc[p].kind = "sync" -> AutoCommit(p, "push_after")
               [] proc[p].kind = "edit" -> AutoCommit(p, "idle")
          /\ UNCHANGED <<faults, upset>>
       \/ /\ Fault
          /\ upset' = [upset EXCEPT ![Dir[p]] = @ \cup {"cut"}]
          /\ IF proc[p].kind = "cycle" THEN Goto(p, "save") ELSE Finish(p)
          /\ UNCHANGED dirty
    /\ UNCHANGED <<git, saves, repo, commands, resets>>

-----------------------------------------------------------------------------
(* try_auto_commit and try_push_remote: what fails is only logged *)

CommitStatus(p) ==
    /\ proc[p].pc = "commit_status"
    /\ IF Unclean(Dir[p]) THEN Goto(p, "commit") ELSE Committed(p)
    /\ UNCHANGED <<git, saves, dirty, repo, upset, counters>>

\* git add -A and git commit; a merge left over is concluded with whatever the files
\* hold.  With nothing left to commit git commit fails.
Commit(p) ==
    LET c == Dir[p] IN
    /\ proc[p].pc = "commit"
    /\ \/ /\ Unclean(c)
          /\ log' = Append(log, [clone |-> c, adds |-> dirty[c],
                                 marked |-> merging[c] # {}])
          /\ head' = [head EXCEPT ![c] = @ \cup merging[c] \cup {Len(log')}]
          /\ merging' = [merging EXCEPT ![c] = {}]
          /\ dirty' = [dirty EXCEPT ![c] = {}]
          /\ IF git.auto_push THEN Goto(p, "push") ELSE Committed(p)
          /\ UNCHANGED faults
       \/ /\ IF Unclean(c) THEN Fault ELSE UNCHANGED faults
          /\ Committed(p)
          /\ UNCHANGED <<dirty, log, head, merging>>
    /\ UNCHANGED <<git, saves, tracking, origin, upset, commands, resets>>

\* git push: refused unless it only adds to what origin has.
GitPush(c) ==
    \/ /\ origin \subseteq head[c]
       /\ origin' = head[c]
       /\ tracking' = [tracking EXCEPT ![c] = head[c]]
       /\ UNCHANGED faults
    \/ /\ IF origin \subseteq head[c] THEN Fault ELSE UNCHANGED faults
       /\ UNCHANGED <<origin, tracking>>

Push(p) ==
    /\ proc[p].pc = "push"
    /\ GitPush(Dir[p])
    /\ Committed(p)
    /\ UNCHANGED <<git, saves, dirty, log, head, merging, upset, commands, resets>>

PushAfterSync(p) ==
    /\ proc[p].pc = "push_after"
    /\ IF git.push_after_sync THEN GitPush(Dir[p]) ELSE UNCHANGED <<origin, tracking, faults>>
    /\ Refresh(p)
    /\ UNCHANGED <<git, saves, dirty, log, head, merging, upset, commands, resets>>

-----------------------------------------------------------------------------
\* The process dies; a daemon begins again.
Crash(p) ==
    /\ proc[p].pc # "idle"
    /\ Fault
    /\ Finish(p)
    /\ upset' = [upset EXCEPT ![Dir[p]] = @ \cup
           IF proc[p].pc \in {"rest", "abort"} THEN {"cut"} ELSE {}]
    /\ UNCHANGED <<git, saves, dirty, repo, commands, resets>>

\* sync_git_ssh of the server: fetch, forced checkout and hard reset.  Files that git
\* does not know stay.
ServerSync(c) ==
    /\ resets < MaxReset
    /\ resets' = resets + 1
    /\ tracking' = [tracking EXCEPT ![c] = origin]
    /\ head' = [head EXCEPT ![c] = origin]
    /\ merging' = [merging EXCEPT ![c] = {}]
    /\ \E unknown \in SUBSET dirty[c] : dirty' = [dirty EXCEPT ![c] = unknown]
    /\ upset' = [upset EXCEPT ![c] = @ \cup {"reset"} \cup
           IF \E q \in Proc : Dir[q] = c /\ proc[q].pc # "idle" THEN {"overlap"} ELSE {}]
    /\ UNCHANGED <<git, saves, log, origin, proc, faults, commands>>

-----------------------------------------------------------------------------
Continue(p) ==
    \/ Status(p) \/ Fetch(p) \/ Merge(p) \/ Abort(p)
    \/ Save(p) \/ Rest(p)
    \/ CommitStatus(p) \/ Commit(p) \/ Push(p) \/ PushAfterSync(p)

Next ==
    \/ \E p \in Proc : Begin(p) \/ Continue(p) \/ Crash(p)
    \/ \E c \in Clone : ServerSync(c)

Spec == Init /\ [][Next]_vars

\* The daemon starts cycle after cycle (its timer), and what has begun goes on.
FairSpec ==
    /\ Spec
    /\ \A p \in Proc : WF_vars(Continue(p))
    /\ \A p \in Daemon : WF_vars(Begin(p))

-----------------------------------------------------------------------------
(* Properties *)

\* Types; what a branch holds was committed, and what is dirty was saved.
TypeOK ==
    /\ git \in Config
    /\ saves \in Seq([clone : Clone, path : Path])
    /\ Len(saves) <= MaxSave
    /\ \A c \in Clone : \A h \in dirty[c] : h.save \in DOMAIN saves /\ h.part \in {1, 2}
    /\ \A k \in DOMAIN log :
          /\ log[k].clone \in Clone /\ log[k].marked \in BOOLEAN
          /\ \A h \in log[k].adds : h.save \in DOMAIN saves /\ h.part \in {1, 2}
    /\ {head, tracking, merging} \subseteq [Clone -> SUBSET (DOMAIN log)]
    /\ origin \subseteq DOMAIN log
    /\ \A p \in Proc :
          /\ proc[p].rounds \in 0 .. 2
          /\ proc[p].save \in 0 .. Len(saves)
    /\ \A c \in Clone : upset[c] \subseteq {"overlap", "cut", "reset"}
    /\ faults \in 0 .. MaxFault /\ commands \in 0 .. MaxCommand /\ resets \in 0 .. MaxReset

\* Nothing that was saved disappears from its clone: it waits in the working tree or is
\* on the branch, whatever merges stop on conflicts, pushes are refused and processes
\* die.  Excused: a clone reset by the server, and one where two operations overlapped.
NothingLost ==
    \A s \in DOMAIN saves :
        LET c == saves[s].clone IN
        \/ upset[c] \cap {"overlap", "reset"} # {}
        \/ [save |-> s, part |-> 1] \in dirty[c] \cup Content(head[c])

\* A commit holds both halves of a save or neither, unless an operation of its clone
\* was cut short or overlapped by another one.
CommitsWholeSaves ==
    \A k \in DOMAIN log :
        \/ upset[log[k].clone] # {}
        \/ \A h \in log[k].adds : [h EXCEPT !.part = 3 - h.part] \in log[k].adds

\* A conflict of a merge is never committed to the data files: the snapshot of the tray
\* that follows a failed preflight finds the merge aborted.
NoConflictCommitted ==
    \A k \in DOMAIN log :
        log[k].marked => upset[log[k].clone] \cap {"overlap", "cut"} # {}

\* With auto commit, push after sync and a preflight that merges, the clones that have a
\* daemon and the remote repository come to hold the same saves, with nothing left
\* uncommitted, unless two branches conflict.
Published ==
    LET Syncing == /\ git.auto_commit /\ git.push_after_sync
                   /\ git.merge_master_before_command \/ git.pull_before_edit
        InStep == \A c \in {Dir[p] : p \in Daemon} :
                      ~Unclean(c) /\ Content(head[c]) = Content(origin)
        Conflict == \E c \in Clone : Clash(head[c], origin) # {}
    IN  <>[](Syncing => InStep \/ Conflict)

\* Commits are whole: no half save and no conflict marker is in one.
CommitsAreWhole == CommitsWholeSaves /\ NoConflictCommitted
=============================================================================
