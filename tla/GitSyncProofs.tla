---------------------------- MODULE GitSyncProofs ----------------------------
(***************************************************************************)
(* The clones of one git repository, for any clones, processes, settings   *)
(* and bounds.  What is true of a clone depends on that clone alone, and   *)
(* the invariant is one formula per clone: a step of a process changes its *)
(* own, and for the others it only adds to the saves and to the commits    *)
(* there are.                                                              *)
(***************************************************************************)
EXTENDS GitSync, FiniteSetTheorems, SequenceTheorems, TLAPS

PreflightPc == {"status", "fetch", "merge"}
Pc == {"idle", "status", "fetch", "merge", "abort", "save", "rest", "commit_status", "commit",
       "push", "push_after"}
Process == [pc : Pc, kind : {"none", "cycle", "edit", "sync"}, rounds : 0 .. 2,
            then : {"idle", "save", "push_after"}, save : Nat]

\* Rounds of the preflight, two to one for merge_master_before_command.
Rounds == Cardinality({r \in {1, 2} : \/ r = 1 /\ git.merge_master_before_command
                                      \/ r = 2 /\ git.pull_before_edit})

\* Halves of the first n saves.
Halves(n) == [save : 1 .. n, part : {1, 2}]

\* The types, and what the fields of a process mean where it stands.
Types ==
    /\ git \in Config
    /\ saves \in Seq([clone : Clone, path : Path]) /\ Len(saves) <= MaxSave
    /\ dirty \in [Clone -> SUBSET Halves(Len(saves))]
    /\ log \in Seq([clone : Clone, adds : SUBSET Halves(Len(saves)), marked : BOOLEAN])
    /\ head \in [Clone -> SUBSET (1 .. Len(log))]
    /\ tracking \in [Clone -> SUBSET (1 .. Len(log))]
    /\ merging \in [Clone -> SUBSET (1 .. Len(log))]
    /\ origin \in SUBSET (1 .. Len(log))
    /\ proc \in [Proc -> Process]
    /\ \A p \in Proc : /\ proc[p].pc # "idle" => proc[p].kind # "none"
                       /\ proc[p].pc \in PreflightPc => proc[p].rounds # 0 /\ Rounds # 0
                       /\ proc[p].save <= Len(saves)
                       /\ proc[p].pc = "rest" => proc[p].save # 0
    /\ upset \in [Clone -> SUBSET {"overlap", "cut", "reset"}]
    /\ faults \in 0 .. MaxFault /\ commands \in 0 .. MaxCommand /\ resets \in 0 .. MaxReset

\* Paths, Content and Clash of given saves s and commits l.
PathsIn(s, halves) == {s[h.save].path : h \in halves}
ContentIn(l, cs) == UNION {l[k].adds : k \in cs}
ClashIn(s, l, mine, theirs) ==
    PathsIn(s, ContentIn(l, mine \ theirs)) \cap PathsIn(s, ContentIn(l, theirs \ mine))

In(c) == {p \in Proc : Dir[p] = c}

\* One operation at a time, unless some overlapped.
Alone(c) == "overlap" \notin upset[c] =>
    \A p, q \in In(c) : proc[p].pc # "idle" /\ proc[q].pc # "idle" => p = q

\* With a merge left over, a process can only begin its preflight, fail it, commit the
\* leftovers and end.
Stuck(c) == "overlap" \notin upset[c] /\ merging[c] # {} =>
    /\ Rounds # 0
    /\ \A p \in In(c) : \/ proc[p].pc \in {"idle", "status", "abort"}
                        \/ proc[p].pc \in {"commit_status", "commit"} /\ proc[p].then = "idle"

\* A merge stops only on files with nothing uncommitted, so that to abort it loses nothing.
Apart(c) == "overlap" \notin upset[c] =>
    \A p \in In(c) : proc[p].pc = "abort" =>
        PathsIn(saves, dirty[c]) \cap ClashIn(saves, log, head[c], merging[c]) = {}

\* Whoever left the merge is about to abort it.
Attended(c) == upset[c] \cap {"overlap", "cut"} = {} /\ merging[c] # {} =>
    \E p \in In(c) : proc[p].pc = "abort"

Mate(h) == [h EXCEPT !.part = 3 - h.part]
FirstHalf(s) == [save |-> s, part |-> 1]

\* Only a save under way is half done.
HalfDone(c) == upset[c] = {} =>
    /\ \A h \in dirty[c] : \/ Mate(h) \in dirty[c]
                           \/ \E p \in In(c) : proc[p].pc = "rest" /\ h = FirstHalf(proc[p].save)
    /\ \A p \in In(c) : proc[p].pc = "rest" => FirstHalf(proc[p].save) \in dirty[c]

\* The properties, of one clone.
Kept(c) == upset[c] \cap {"overlap", "reset"} = {} =>
    \A s \in 1 .. Len(saves) :
        saves[s].clone = c => FirstHalf(s) \in dirty[c] \cup ContentIn(log, head[c])
Whole(c) == upset[c] = {} =>
    \A k \in 1 .. Len(log) : log[k].clone = c => \A h \in log[k].adds : Mate(h) \in log[k].adds
Unmarked(c) == upset[c] \cap {"overlap", "cut"} = {} =>
    \A k \in 1 .. Len(log) : log[k].clone = c => ~log[k].marked

Local(c) ==
    /\ Alone(c) /\ Stuck(c) /\ Apart(c) /\ Attended(c)
    /\ HalfDone(c) /\ Kept(c) /\ Whole(c) /\ Unmarked(c)

IInv == Types /\ \A c \in Clone : Local(c)

(***************************************************************************)
(* Constants, numbers of saves and commits, and what their lists grow by.  *)
(***************************************************************************)

\* What is assumed of the constants.
LEMMA Constants ==
  /\ Daemon \subseteq Proc /\ Dir \in [Proc -> Clone]
  /\ MaxSave \in Nat /\ MaxFault \in Nat /\ MaxCommand \in Nat /\ MaxReset \in Nat
BY GitSyncAssumption

\* There are two rounds at most.
LEMMA RoundsType == Rounds \in 0 .. 2
<1> DEFINE R == {r \in {1, 2} : \/ r = 1 /\ git.merge_master_before_command
                                \/ r = 2 /\ git.pull_before_edit}
<1>1. IsFiniteSet({1, 2}) /\ Cardinality({1, 2}) \in 0 .. 2
  <2>1. /\ IsFiniteSet({}) /\ Cardinality({}) = 0
    BY FS_EmptySet
  <2>2. IsFiniteSet({1}) /\ Cardinality({1}) \in 0 .. 1
    BY <2>1, FS_AddElement
  <2> QED BY <2>2, FS_AddElement
<1>2. R \subseteq {1, 2}
  OBVIOUS
<1> HIDE DEF R
<1>3. IsFiniteSet(R) /\ Cardinality(R) <= Cardinality({1, 2})
  BY <1>1, <1>2, FS_Subset
<1>4. Cardinality(R) \in Nat
  BY <1>3, FS_CardinalityType
<1>5. Cardinality(R) \in 0 .. 2
  BY <1>1, <1>3, <1>4
<1> QED BY <1>5 DEF R, Rounds

\* Saves and commits are numbered from 1.
LEMMA Indices ==
  ASSUME Types
  PROVE  /\ Len(saves) \in Nat /\ DOMAIN saves = 1 .. Len(saves)
         /\ Len(log) \in Nat /\ DOMAIN log = 1 .. Len(log)
         /\ \A s \in 1 .. Len(saves) : saves[s].clone \in Clone /\ saves[s].path \in Path
         /\ \A k \in 1 .. Len(log) : /\ log[k].clone \in Clone /\ log[k].marked \in BOOLEAN
                                     /\ log[k].adds \subseteq Halves(Len(saves))
<1>1. saves \in Seq([clone : Clone, path : Path])
  BY DEF Types
<1>2. log \in Seq([clone : Clone, adds : SUBSET Halves(Len(saves)), marked : BOOLEAN])
  BY DEF Types
<1>3. /\ Len(saves) \in Nat /\ DOMAIN saves = 1 .. Len(saves)
      /\ \A s \in 1 .. Len(saves) : saves[s] \in [clone : Clone, path : Path]
  BY <1>1, ElementOfSeq, LenProperties
<1>4. /\ Len(log) \in Nat /\ DOMAIN log = 1 .. Len(log)
      /\ \A k \in 1 .. Len(log) :
            log[k] \in [clone : Clone, adds : SUBSET Halves(Len(saves)), marked : BOOLEAN]
  BY <1>2, ElementOfSeq, LenProperties
<1> QED BY <1>3, <1>4

\* The operators of the model on the present saves and commits.
LEMMA Present ==
  /\ \A halves : Paths(halves) = PathsIn(saves, halves)
  /\ \A cs : Content(cs) = ContentIn(log, cs)
  /\ \A mine, theirs : Clash(mine, theirs) = ClashIn(saves, log, mine, theirs)
BY DEF Paths, Content, Clash, PathsIn, ContentIn, ClashIn

\* Halves of one save have one path; the mate of a half is the other one.
LEMMA Mates ==
  ASSUME NEW n \in Nat, NEW h \in Halves(n)
  PROVE  /\ Mate(h) \in Halves(n) /\ Mate(h).save = h.save
         /\ h.save \in 1 .. n
         /\ h.part = 1 => h = FirstHalf(h.save)
         /\ Mate(h) = [save |-> h.save, part |-> 3 - h.part]
<1>1. h.save \in 1 .. n /\ h.part \in {1, 2} /\ h = [save |-> h.save, part |-> h.part]
  BY DEF Halves
<1>2. Mate(h) = [save |-> h.save, part |-> 3 - h.part]
  BY <1>1 DEF Mate
<1>3. 3 - h.part \in {1, 2}
  BY <1>1
<1> QED BY <1>1, <1>2, <1>3 DEF Halves, FirstHalf

\* What commits contain are halves of saves.
LEMMA ContentHalves ==
  ASSUME Types, NEW cs, cs \subseteq 1 .. Len(log)
  PROVE  ContentIn(log, cs) \subseteq Halves(Len(saves))
BY Indices DEF ContentIn

\* Saves and commits are only appended, and none is of clone c.
Grow(c) ==
    /\ Len(saves') \in Nat /\ Len(saves) <= Len(saves')
    /\ \A i \in 1 .. Len(saves) : saves'[i] = saves[i]
    /\ \A i \in 1 .. Len(saves') : i <= Len(saves) \/ saves'[i].clone # c
    /\ Len(log') \in Nat /\ Len(log) <= Len(log')
    /\ \A i \in 1 .. Len(log) : log'[i] = log[i]
    /\ \A i \in 1 .. Len(log') : i <= Len(log) \/ log'[i].clone # c

\* What saves wrote stays when there are more of them.
LEMMA PathsStay ==
  ASSUME NEW c, Grow(c), NEW halves, halves \subseteq Halves(Len(saves))
  PROVE  PathsIn(saves', halves) = PathsIn(saves, halves)
<1>1. \A h \in halves : h.save \in 1 .. Len(saves)
  BY DEF Halves
<1>2. \A h \in halves : saves'[h.save].path = saves[h.save].path
  BY <1>1 DEF Grow
<1> QED BY <1>2 DEF PathsIn

\* What commits hold stays when there are more of them.
LEMMA ContentStays ==
  ASSUME NEW c, Grow(c), NEW cs, cs \subseteq 1 .. Len(log)
  PROVE  ContentIn(log', cs) = ContentIn(log, cs)
<1>1. \A k \in cs : log'[k].adds = log[k].adds
  BY DEF Grow
<1> QED BY <1>1 DEF ContentIn

\* Two branches clash where they did.
LEMMA ClashStays ==
  ASSUME Types, NEW c, Grow(c),
         NEW mine, mine \subseteq 1 .. Len(log), NEW theirs, theirs \subseteq 1 .. Len(log)
  PROVE  ClashIn(saves', log', mine, theirs) = ClashIn(saves, log, mine, theirs)
<1>1. Len(log) \in Nat /\ Len(saves) \in Nat
  BY Indices
<1>2. /\ mine \ theirs \subseteq 1 .. Len(log) /\ theirs \ mine \subseteq 1 .. Len(log)
  OBVIOUS
<1>3. /\ ContentIn(log', mine \ theirs) = ContentIn(log, mine \ theirs)
      /\ ContentIn(log', theirs \ mine) = ContentIn(log, theirs \ mine)
  BY <1>2, ContentStays
<1>4. /\ ContentIn(log, mine \ theirs) \subseteq Halves(Len(saves))
      /\ ContentIn(log, theirs \ mine) \subseteq Halves(Len(saves))
  BY <1>2, ContentHalves
<1>5. /\ PathsIn(saves', ContentIn(log, mine \ theirs)) = PathsIn(saves, ContentIn(log, mine \ theirs))
      /\ PathsIn(saves', ContentIn(log, theirs \ mine)) = PathsIn(saves, ContentIn(log, theirs \ mine))
  BY <1>4, PathsStay
<1> QED BY <1>3, <1>5 DEF ClashIn

\* What holds of a clone goes on to hold when nothing happens in it.
LEMMA Elsewhere ==
  ASSUME Types, NEW c \in Clone, Local(c), Grow(c), git' = git,
         dirty'[c] = dirty[c], head'[c] = head[c], merging'[c] = merging[c],
         upset'[c] = upset[c], \A p \in In(c) : proc'[p] = proc[p]
  PROVE  Local(c)'
<1>0. /\ Len(log) \in Nat /\ Len(saves) \in Nat
      /\ dirty[c] \subseteq Halves(Len(saves))
      /\ head[c] \subseteq 1 .. Len(log) /\ merging[c] \subseteq 1 .. Len(log)
  BY Indices DEF Types
<1>i. In(c)' = In(c)
  BY DEF In
<1>1. Alone(c)' /\ Attended(c)' /\ HalfDone(c)'
  BY <1>i DEF Local, Alone, Attended, HalfDone
<1>2. Stuck(c)'
  BY <1>i DEF Local, Stuck, Rounds
<1>3. Apart(c)'
  <2>1. PathsIn(saves', dirty[c]) = PathsIn(saves, dirty[c])
    BY <1>0, PathsStay
  <2>2. ClashIn(saves', log', head[c], merging[c]) = ClashIn(saves, log, head[c], merging[c])
    BY <1>0, ClashStays
  <2> QED BY <1>i, <2>1, <2>2 DEF Local, Apart
<1>4. Kept(c)'
  <2>1. ContentIn(log', head[c]) = ContentIn(log, head[c])
    BY <1>0, ContentStays
  <2>2. ASSUME NEW s \in 1 .. Len(saves'), saves'[s].clone = c
        PROVE  s \in 1 .. Len(saves) /\ saves[s].clone = c
    BY <1>0, <2>2 DEF Grow
  <2> QED BY <2>1, <2>2 DEF Local, Kept
<1>5. ASSUME NEW k \in 1 .. Len(log'), log'[k].clone = c
      PROVE  k \in 1 .. Len(log) /\ log[k].clone = c /\ log'[k] = log[k]
  BY <1>0, <1>5 DEF Grow
<1>6. Whole(c)' /\ Unmarked(c)'
  BY <1>5 DEF Local, Whole, Unmarked
<1> QED BY <1>1, <1>2, <1>3, <1>4, <1>6 DEF Local

\* Faults are counted.
LEMMA FaultTypes ==
  ASSUME Types, Fault \/ UNCHANGED faults
  PROVE  faults' \in 0 .. MaxFault
BY Constants DEF Types, Fault

(***************************************************************************)
(* How the process of a step goes on.                                      *)
(***************************************************************************)

\* No other process moves, and p keeps all but its place, or ends.
Moves(p) ==
    /\ proc' \in [Proc -> Process]
    /\ \A q \in Proc \ {p} : proc'[q] = proc[q]
    /\ \/ proc'[p] = Idle
       \/ /\ proc'[p].kind = proc[p].kind /\ proc'[p].rounds = proc[p].rounds
          /\ proc'[p].save = proc[p].save

\* A process with nothing to do.
LEMMA Idles == Idle \in Process /\ Idle.pc = "idle" /\ Idle.save = 0
BY DEF Idle, Process, Pc

\* A process goes on.
LEMMA GotoMoves ==
  ASSUME Types, NEW p \in Proc, NEW pc \in Pc, Goto(p, pc)
  PROVE  Moves(p) /\ proc'[p].pc = pc /\ proc'[p].then = proc[p].then
<1>1. proc[p] \in Process /\ proc' = [proc EXCEPT ![p] = [proc[p] EXCEPT !.pc = pc]]
  BY DEF Types, Goto
<1>2. [proc[p] EXCEPT !.pc = pc] \in Process
  BY <1>1 DEF Process
<1>3. proc'[p] = [proc[p] EXCEPT !.pc = pc] /\ \A q \in Proc \ {p} : proc'[q] = proc[q]
  BY <1>1 DEF Types
<1>4. proc' \in [Proc -> Process]
  BY <1>1, <1>2 DEF Types
<1> QED BY <1>1, <1>3, <1>4 DEF Moves, Process

\* A process is done.
LEMMA FinishMoves ==
  ASSUME Types, NEW p \in Proc, Finish(p)
  PROVE  Moves(p) /\ proc'[p] = Idle
BY Idles DEF Types, Finish, Moves

\* A process commits, or goes on if it is not to.
LEMMA AutoCommitMoves ==
  ASSUME Types, NEW p \in Proc, NEW then \in {"idle", "save", "push_after"}, AutoCommit(p, then)
  PROVE  /\ Moves(p)
         /\ \/ proc'[p].pc = "commit_status" /\ proc'[p].then = then
            \/ proc'[p] = Idle /\ then = "idle"
            \/ proc'[p].pc = then /\ then # "idle"
<1>1. CASE git.auto_commit
  <2>1. proc[p] \in Process
        /\ proc' = [proc EXCEPT ![p] = [proc[p] EXCEPT !.pc = "commit_status", !.then = then]]
    BY <1>1 DEF Types, AutoCommit
  <2>2. [proc[p] EXCEPT !.pc = "commit_status", !.then = then] \in Process
    BY <2>1 DEF Process, Pc
  <2>3. proc'[p] = [proc[p] EXCEPT !.pc = "commit_status", !.then = then]
        /\ \A q \in Proc \ {p} : proc'[q] = proc[q]
    BY <2>1 DEF Types
  <2>4. proc' \in [Proc -> Process]
    BY <2>1, <2>2 DEF Types
  <2> QED BY <2>1, <2>3, <2>4 DEF Moves, Process
<1>2. CASE ~git.auto_commit /\ then = "idle"
  BY <1>2, FinishMoves DEF AutoCommit
<1>3. CASE ~git.auto_commit /\ then # "idle"
  <2>1. Goto(p, then) /\ then \in Pc
    BY <1>3 DEF AutoCommit, Pc
  <2> QED BY <1>3, <2>1, GotoMoves
<1> QED BY <1>1, <1>2, <1>3

\* A process refreshes, and may commit what it finds.
LEMMA RefreshMoves ==
  ASSUME Types, NEW p \in Proc, Refresh(p)
  PROVE  /\ Moves(p)
         /\ \/ proc'[p].pc = "commit_status" /\ proc'[p].then = "idle"
            \/ proc'[p] = Idle
BY AutoCommitMoves, FinishMoves DEF Refresh

\* A process goes on after its commit.
LEMMA CommittedMoves ==
  ASSUME Types, NEW p \in Proc, Committed(p)
  PROVE  /\ Moves(p)
         /\ \/ proc'[p] = Idle
            \/ proc'[p].pc = proc[p].then /\ proc[p].then \in {"save", "push_after"}
<1>1. CASE proc[p].then = "idle"
  BY <1>1, FinishMoves DEF Committed
<1>2. CASE proc[p].then # "idle"
  <2>1. proc[p].then \in {"save", "push_after"} /\ proc[p].then \in Pc
    BY <1>2 DEF Types, Process, Pc
  <2>2. Goto(p, proc[p].then)
    BY <1>2 DEF Committed
  <2> QED BY <2>1, <2>2, GotoMoves
<1> QED BY <1>1, <1>2

\* The types of the processes after a step.
ProcTypes ==
    /\ proc \in [Proc -> Process]
    /\ \A p \in Proc : /\ proc[p].pc # "idle" => proc[p].kind # "none"
                       /\ proc[p].pc \in PreflightPc => proc[p].rounds # 0 /\ Rounds # 0
                       /\ proc[p].save <= Len(saves)
                       /\ proc[p].pc = "rest" => proc[p].save # 0

\* Types after a move.
LEMMA MovesTypes ==
  ASSUME Types, NEW p \in Proc, Moves(p), proc[p].pc # "idle", proc'[p].pc # "rest",
         proc'[p].pc \in PreflightPc => proc[p].pc \in PreflightPc,
         git' = git, Len(saves') \in Nat, Len(saves) <= Len(saves')
  PROVE  ProcTypes'
<1>1. \A q \in Proc : proc[q] \in Process /\ proc[q].save \in Nat /\ Len(saves) \in Nat
  BY Indices DEF Types, Process
<1>2. Rounds' = Rounds
  BY DEF Rounds
<1>3. ASSUME NEW q \in Proc, q # p
      PROVE  /\ proc'[q].pc # "idle" => proc'[q].kind # "none"
             /\ proc'[q].pc \in PreflightPc => proc'[q].rounds # 0 /\ Rounds' # 0
             /\ proc'[q].save <= Len(saves')
             /\ proc'[q].pc = "rest" => proc'[q].save # 0
  <2>1. proc'[q] = proc[q]
    BY <1>3 DEF Moves
  <2>2. proc[q].save <= Len(saves')
    BY <1>1 DEF Types
  <2> QED BY <1>2, <2>1, <2>2 DEF Types
<1>4. CASE proc'[p] = Idle
  <2>1. proc'[p].pc = "idle" /\ proc'[p].save <= Len(saves')
    BY <1>4, Idles
  <2> QED BY <1>3, <2>1 DEF Moves, ProcTypes, PreflightPc
<1>5. CASE proc'[p] # Idle
  <2>1. /\ proc'[p].kind = proc[p].kind /\ proc'[p].rounds = proc[p].rounds
        /\ proc'[p].save = proc[p].save
    BY <1>5 DEF Moves
  <2>2. proc[p].save <= Len(saves')
    BY <1>1 DEF Types
  <2>3. /\ proc'[p].kind # "none" /\ proc'[p].save <= Len(saves')
        /\ proc'[p].pc \in PreflightPc => proc'[p].rounds # 0 /\ Rounds' # 0
    BY <1>2, <2>1, <2>2 DEF Types
  <2> QED BY <1>3, <2>3 DEF Moves, ProcTypes
<1> QED BY <1>4, <1>5

\* A step that only moves its process, and neither leaves a half-done job nor takes
\* one up, keeps what holds of every clone.
LEMMA Quiet ==
  ASSUME IInv, NEW p \in Proc, Moves(p), proc[p].pc \notin {"idle", "abort", "rest"},
         proc'[p].pc # "rest",
         proc'[p].pc = "abort" => "overlap" \in upset[Dir[p]],
         "overlap" \notin upset[Dir[p]] /\ merging[Dir[p]] # {} =>
             \/ proc'[p].pc \in {"idle", "status"}
             \/ proc'[p].pc \in {"commit_status", "commit"} /\ proc'[p].then = "idle",
         UNCHANGED <<git, saves, dirty, log, head, merging, upset>>
  PROVE  \A c \in Clone : Local(c)'
<1> SUFFICES ASSUME NEW c \in Clone PROVE Local(c)'
  OBVIOUS
<1>1. Types /\ Local(c) /\ Grow(c)
  BY Indices DEF IInv, Grow
<1>2. CASE Dir[p] # c
  <2>1. \A q \in In(c) : proc'[q] = proc[q]
    BY <1>2 DEF In, Moves
  <2> QED BY <1>1, <2>1, Elsewhere
<1>3. CASE Dir[p] = c
  <2>0. In(c)' = In(c) /\ Rounds' = Rounds /\ p \in In(c)
    BY <1>3 DEF In, Rounds
  <2>o. \A q \in In(c) : q # p => proc'[q] = proc[q]
    BY DEF Moves, In
  <2>1. Alone(c)'
    BY <1>1, <2>0, <2>o DEF Local, Alone
  <2>2. Stuck(c)'
    BY <1>1, <1>3, <2>0, <2>o DEF Local, Stuck
  <2>3. Apart(c)'
    BY <1>1, <1>3, <2>0, <2>o DEF Local, Apart
  <2>4. Attended(c)'
    BY <1>1, <2>0, <2>o DEF Local, Attended
  <2>5. HalfDone(c)'
    BY <1>1, <2>0, <2>o DEF Local, HalfDone
  <2>6. Kept(c)' /\ Whole(c)' /\ Unmarked(c)'
    BY <1>1 DEF Local, Kept, Whole, Unmarked
  <2> QED BY <2>1, <2>2, <2>3, <2>4, <2>5, <2>6 DEF Local
<1> QED BY <1>2, <1>3

(***************************************************************************)
(* The steps.                                                              *)
(***************************************************************************)

\* At first.
LEMMA InitIInv == Init => IInv
<1> SUFFICES ASSUME Init PROVE IInv
  OBVIOUS
<1>1. Len(saves) = 0 /\ saves \in Seq([clone : Clone, path : Path])
  BY DEF Init
<1>2. Len(log) = 0 /\ log \in Seq([clone : Clone, adds : SUBSET Halves(Len(saves)), marked : BOOLEAN])
  BY DEF Init
<1>3. \A p \in Proc : proc[p] = Idle
  BY DEF Init
<1>4. proc \in [Proc -> Process] /\ \A p \in Proc : proc[p].pc = "idle" /\ proc[p].save = 0
  BY <1>3, Idles DEF Init
<1>5. Types
  <2>1. faults \in 0 .. MaxFault /\ commands \in 0 .. MaxCommand /\ resets \in 0 .. MaxReset
    BY Constants DEF Init
  <2>2. Len(saves) <= MaxSave
    BY <1>1, Constants
  <2>3. \A p \in Proc : proc[p].pc = "idle" /\ proc[p].save <= Len(saves)
    BY <1>1, <1>4
  <2> QED BY <1>1, <1>2, <1>4, <2>1, <2>2, <2>3 DEF Init, Types, PreflightPc
<1>6. ASSUME NEW c \in Clone PROVE Local(c)
  <2>1. 1 .. Len(saves) = {} /\ 1 .. Len(log) = {}
    BY <1>1, <1>2
  <2>2. \A p \in In(c) : proc[p].pc = "idle"
    BY <1>4 DEF In
  <2>3. merging[c] = {} /\ dirty[c] = {}
    BY DEF Init
  <2>4. Alone(c) /\ Stuck(c) /\ Apart(c) /\ Attended(c) /\ HalfDone(c)
    BY <2>2, <2>3 DEF Alone, Stuck, Apart, Attended, HalfDone
  <2>5. Kept(c) /\ Whole(c) /\ Unmarked(c)
    BY <2>1 DEF Kept, Whole, Unmarked
  <2> QED BY <2>4, <2>5 DEF Local
<1> QED BY <1>5, <1>6 DEF IInv

\* The preflight begins: an overlap is noted.
LEMMA BeginStep ==
  ASSUME IInv, NEW p \in Proc, Begin(p)
  PROVE  IInv'
<1>1. /\ Types /\ Dir[p] \in Clone /\ proc[p].pc = "idle"
      /\ UNCHANGED <<git, saves, dirty, log, head, tracking, merging, origin, faults, resets>>
  BY Constants DEF IInv, Begin, repo
<1>2. PICK pc \in {"save", "status"}, kind \in {"cycle", "edit", "sync"} :
         /\ proc' = [proc EXCEPT ![p] = [Idle EXCEPT !.pc = pc, !.kind = kind, !.rounds = Rounds]]
         /\ pc = IF Rounds = 0 THEN "save" ELSE "status"
  <2> DEFINE first == IF Rounds = 0 THEN "save" ELSE "status"
  <2>1. first \in {"save", "status"}
    OBVIOUS
  <2>2. \E kind \in {"cycle", "edit", "sync"} :
           proc' = [proc EXCEPT ![p] = [Idle EXCEPT !.pc = first, !.kind = kind, !.rounds = Rounds]]
    BY DEF Begin, Rounds
  <2> QED BY <2>1, <2>2
<1> DEFINE r == [Idle EXCEPT !.pc = pc, !.kind = kind, !.rounds = Rounds]
<1>3. /\ r \in Process /\ r.pc = pc /\ r.kind = kind /\ r.rounds = Rounds /\ r.save = 0
  BY <1>2, RoundsType DEF Idle, Process, Pc
<1>4. proc' = [proc EXCEPT ![p] = r]
  BY <1>2
<1> HIDE DEF r
<1>5. proc' \in [Proc -> Process] /\ proc'[p] = r /\ \A q \in Proc \ {p} : proc'[q] = proc[q]
  BY <1>1, <1>3, <1>4 DEF Types
<1>6. /\ upset' \in [Clone -> SUBSET {"overlap", "cut", "reset"}]
      /\ \A c \in Clone : c # Dir[p] => upset'[c] = upset[c]
      /\ upset'[Dir[p]] \in {upset[Dir[p]], upset[Dir[p]] \cup {"overlap"}}
      /\ \A q \in Proc \ {p} : Dir[q] = Dir[p] /\ proc[q].pc # "idle" => "overlap" \in upset'[Dir[p]]
  BY <1>1 DEF Begin, Types
<1>7. commands' \in 0 .. MaxCommand
  BY <1>1, Constants DEF Begin, Types
<1>8. Types'
  <2>1. Rounds' = Rounds
    BY <1>1 DEF Rounds
  <2>2. /\ r.kind # "none" /\ r.save <= Len(saves) /\ r.pc # "rest"
        /\ r.pc \in PreflightPc => r.rounds # 0 /\ Rounds # 0
    BY <1>1, <1>2, <1>3, Indices DEF PreflightPc
  <2> QED BY <1>1, <1>5, <1>6, <1>7, <2>1, <2>2 DEF Types
<1>9. ASSUME NEW c \in Clone PROVE Local(c)'
  <2>1. Local(c) /\ Grow(c)
    BY <1>1, Indices DEF IInv, Grow
  <2>2. CASE Dir[p] # c
    <3>1. \A q \in In(c) : proc'[q] = proc[q]
      BY <1>5, <2>2 DEF In
    <3> QED BY <1>1, <1>6, <2>1, <2>2, <3>1, Elsewhere
  <2>3. CASE Dir[p] = c
    <3>0. /\ In(c)' = In(c) /\ Rounds' = Rounds /\ p \in In(c) /\ proc'[p].pc = pc
          /\ \A q \in In(c) : q # p => proc'[q] = proc[q]
      BY <1>1, <1>3, <1>5, <2>3 DEF In, Rounds
    <3>1. upset[c] \subseteq upset'[c] /\ upset'[c] \subseteq upset[c] \cup {"overlap"}
      BY <1>6, <2>3
    <3>2. Alone(c)'
      <4>1. ASSUME "overlap" \notin upset'[c], NEW q \in In(c), q # p PROVE proc'[q].pc = "idle"
        BY <1>6, <2>3, <3>0, <4>1 DEF In
      <4> QED BY <3>0, <4>1 DEF Alone
    <3>3. Stuck(c)'
      <4>1. Rounds # 0 => pc = "status"
        BY <1>2
      <4> QED BY <1>1, <2>1, <3>0, <3>1, <4>1 DEF Local, Stuck
    <3>4. Apart(c)' /\ Attended(c)'
      BY <1>1, <1>2, <2>1, <3>0, <3>1 DEF Local, Apart, Attended
    <3>5. HalfDone(c)'
      BY <1>1, <1>2, <2>1, <3>0, <3>1 DEF Local, HalfDone
    <3>6. Kept(c)' /\ Whole(c)' /\ Unmarked(c)'
      BY <1>1, <2>1, <3>1 DEF Local, Kept, Whole, Unmarked
    <3> QED BY <3>2, <3>3, <3>4, <3>5, <3>6 DEF Local
  <2> QED BY <2>2, <2>3
<1> QED BY <1>8, <1>9 DEF IInv

\* The tree is clean or the operation ends.
LEMMA StatusStep ==
  ASSUME IInv, NEW p \in Proc, Status(p)
  PROVE  IInv'
<1>1. /\ Types /\ Dir[p] \in Clone /\ proc[p].pc = "status"
      /\ UNCHANGED <<git, saves, dirty, log, head, tracking, merging, origin, upset, faults,
                     commands, resets>>
  BY Constants DEF IInv, Status, repo, counters
<1>2. /\ Moves(p)
      /\ \/ proc'[p].pc = "fetch" /\ merging[Dir[p]] = {}
         \/ proc'[p].pc = "commit_status" /\ proc'[p].then = "idle"
         \/ proc'[p].pc = "idle"
  <2>1. CASE Unclean(Dir[p])
    BY <1>1, <2>1, RefreshMoves, Idles DEF Status
  <2>2. CASE ~Unclean(Dir[p])
    BY <1>1, <2>2, GotoMoves DEF Status, Unclean, Pc
  <2> QED BY <2>1, <2>2
<1>3. ProcTypes'
  BY <1>1, <1>2, MovesTypes, Indices DEF PreflightPc
<1>4. Types'
  BY <1>1, <1>3 DEF Types, ProcTypes
<1>5. \A c \in Clone : Local(c)'
  BY <1>1, <1>2, Quiet
<1> QED BY <1>4, <1>5 DEF IInv

\* It fetches what origin has.
LEMMA FetchStep ==
  ASSUME IInv, NEW p \in Proc, Fetch(p)
  PROVE  IInv'
<1>1. /\ Types /\ Dir[p] \in Clone /\ proc[p].pc = "fetch"
      /\ UNCHANGED <<git, saves, dirty, log, head, merging, origin, upset, commands, resets>>
  BY Constants DEF IInv, Fetch
<1>2. /\ Moves(p)
      /\ \/ proc'[p].pc = "merge"
         \/ proc'[p].pc = "commit_status" /\ proc'[p].then = "idle"
         \/ proc'[p].pc = "idle"
  BY <1>1, RefreshMoves, GotoMoves, Idles DEF Fetch, Pc
<1>3. tracking' \in [Clone -> SUBSET (1 .. Len(log))] /\ faults' \in 0 .. MaxFault
  <2>1. tracking' \in [Clone -> SUBSET (1 .. Len(log))]
    BY <1>1 DEF Fetch, Types
  <2>2. Fault \/ UNCHANGED faults
    BY DEF Fetch
  <2> QED BY <1>1, <2>1, <2>2, FaultTypes
<1>4. ProcTypes'
  BY <1>1, <1>2, MovesTypes, Indices DEF PreflightPc
<1>5. Types'
  BY <1>1, <1>3, <1>4 DEF Types, ProcTypes
<1>6. Local(Dir[p])
  BY <1>1 DEF IInv
<1>7. "overlap" \notin upset[Dir[p]] => merging[Dir[p]] = {}
  BY <1>1, <1>6 DEF Local, Stuck, In
<1>8. \A c \in Clone : Local(c)'
  BY <1>1, <1>2, <1>7, Quiet
<1> QED BY <1>5, <1>8 DEF IInv

\* The merge of origin/master is refused, stops on a conflict, or succeeds.
LEMMA MergeStep ==
  ASSUME IInv, NEW p \in Proc, Merge(p)
  PROVE  IInv'
<1> DEFINE c == Dir[p]
           theirs == tracking[c]
           overwritten == Paths(dirty[c]) \cap Paths(Content(theirs \ head[c]))
           clash == Clash(head[c], theirs)
<1>1. /\ Types /\ c \in Clone /\ Local(c) /\ p \in In(c) /\ proc[p].pc = "merge"
      /\ UNCHANGED <<git, saves, dirty, tracking, origin, upset, faults, commands, resets>>
      /\ theirs \in SUBSET (1 .. Len(log)) /\ head[c] \in SUBSET (1 .. Len(log))
      /\ Len(log) \in Nat /\ Len(saves) \in Nat
  BY Constants, Indices DEF IInv, Merge, counters, In, Types
<1>2. \/ merging[c] # {} /\ Goto(p, "abort") /\ UNCHANGED <<log, head, merging>>
      \/ merging[c] = {} /\ Refresh(p) /\ UNCHANGED <<log, head, merging>>
      \/ /\ merging[c] = {} /\ overwritten = {}
         /\ merging' = [merging EXCEPT ![c] = theirs]
         /\ Goto(p, "abort") /\ UNCHANGED <<log, head>>
      \/ /\ merging[c] = {} /\ Merged(p) /\ UNCHANGED merging
         /\ \/ head' = [head EXCEPT ![c] = @ \cup theirs] /\ UNCHANGED log
            \/ /\ log' = Append(log, [clone |-> c, adds |-> {}, marked |-> FALSE])
               /\ head' = [head EXCEPT ![c] = @ \cup theirs \cup {Len(log')}]
  BY DEF Merge
<1>3. "overlap" \notin upset[c] =>
          /\ merging[c] = {}
          /\ \A q \in In(c) : q # p => proc[q].pc = "idle"
  BY <1>1 DEF Local, Stuck, Alone
<1>4. CASE merging[c] # {} /\ Goto(p, "abort") /\ UNCHANGED <<log, head, merging>>
  <2>1. Moves(p) /\ proc'[p].pc = "abort"
    BY <1>1, <1>4, GotoMoves DEF Pc
  <2>2. ProcTypes'
    BY <1>1, <2>1, MovesTypes DEF PreflightPc
  <2>3. Types'
    BY <1>1, <1>4, <2>2 DEF Types, ProcTypes
  <2>4. \A d \in Clone : Local(d)'
    BY <1>1, <1>3, <1>4, <2>1, Quiet
  <2> QED BY <2>3, <2>4 DEF IInv
<1>5. CASE merging[c] = {} /\ Refresh(p) /\ UNCHANGED <<log, head, merging>>
  <2>1. Moves(p) /\ proc'[p].pc \in {"idle", "commit_status"}
    BY <1>1, <1>5, RefreshMoves, Idles
  <2>2. ProcTypes'
    BY <1>1, <2>1, MovesTypes DEF PreflightPc
  <2>3. Types'
    BY <1>1, <1>5, <2>2 DEF Types, ProcTypes
  <2>4. \A d \in Clone : Local(d)'
    BY <1>1, <1>5, <2>1, Quiet
  <2> QED BY <2>3, <2>4 DEF IInv
<1>6. CASE /\ merging[c] = {} /\ overwritten = {}
           /\ merging' = [merging EXCEPT ![c] = theirs]
           /\ Goto(p, "abort") /\ UNCHANGED <<log, head>>
  <2>1. Moves(p) /\ proc'[p].pc = "abort"
    BY <1>1, <1>6, GotoMoves DEF Pc
  <2>2. ProcTypes'
    BY <1>1, <2>1, MovesTypes DEF PreflightPc
  <2>3. Types'
    BY <1>1, <1>6, <2>2 DEF Types, ProcTypes
  <2>4. ASSUME NEW d \in Clone, d # c PROVE Local(d)'
    <3>1. Local(d) /\ Grow(d)
      BY <1>1, <1>6 DEF IInv, Grow
    <3>2. \A q \in In(d) : proc'[q] = proc[q]
      BY <2>1, <2>4 DEF In, Moves
    <3>3. merging'[d] = merging[d]
      BY <1>1, <1>6, <2>4 DEF Types
    <3> QED BY <1>1, <1>6, <3>1, <3>2, <3>3, Elsewhere
  <2>5. Local(c)'
    <3>0. /\ In(c)' = In(c) /\ Rounds' = Rounds /\ merging'[c] = theirs
          /\ \A q \in In(c) : q # p => proc'[q] = proc[q]
      BY <1>1, <1>6, <2>1 DEF In, Rounds, Moves, Types
    <3>1. Alone(c)'
      BY <1>1, <2>1, <3>0 DEF Local, Alone
    <3>2. Stuck(c)'
      <4>1. Rounds # 0
        BY <1>1 DEF Types, PreflightPc
      <4> QED BY <1>1, <1>3, <2>1, <3>0, <4>1 DEF Stuck
    <3>3. Apart(c)'
      <4>1. PathsIn(saves, dirty[c]) \cap PathsIn(saves, ContentIn(log, theirs \ head[c])) = {}
        BY <1>6, Present
      <4>2. PathsIn(saves, dirty[c]) \cap ClashIn(saves, log, head[c], theirs) = {}
        BY <4>1 DEF ClashIn
      <4> QED BY <1>1, <1>6, <3>0, <4>2 DEF Apart
    <3>4. Attended(c)'
      BY <1>1, <2>1, <3>0 DEF Attended
    <3>5. HalfDone(c)'
      BY <1>1, <2>1, <3>0 DEF Local, HalfDone
    <3>6. Kept(c)' /\ Whole(c)' /\ Unmarked(c)'
      BY <1>1, <1>6 DEF Local, Kept, Whole, Unmarked
    <3> QED BY <3>1, <3>2, <3>3, <3>4, <3>5, <3>6 DEF Local
  <2> QED BY <2>3, <2>4, <2>5 DEF IInv
<1>7. CASE /\ merging[c] = {} /\ Merged(p) /\ UNCHANGED merging
           /\ \/ head' = [head EXCEPT ![c] = @ \cup theirs] /\ UNCHANGED log
              \/ /\ log' = Append(log, [clone |-> c, adds |-> {}, marked |-> FALSE])
                 /\ head' = [head EXCEPT ![c] = @ \cup theirs \cup {Len(log')}]
  <2> DEFINE commit == [clone |-> c, adds |-> {}, marked |-> FALSE]
             Commits == [clone : Clone, adds : SUBSET Halves(Len(saves)), marked : BOOLEAN]
  <2>1. /\ log' \in Seq(Commits) /\ Len(log') \in Nat /\ Len(log) <= Len(log')
        /\ \A i \in 1 .. Len(log) : log'[i] = log[i]
        /\ \A i \in 1 .. Len(log') : i <= Len(log) \/ (i = Len(log') /\ log'[i] = commit)
    <3>1. commit \in Commits /\ log \in Seq(Commits)
      BY <1>1 DEF Types
    <3>2. CASE log' = log
      BY <1>1, <3>1, <3>2
    <3>3. CASE log' = Append(log, commit)
      <4> HIDE DEF commit, Commits
      <4>1. /\ log' \in Seq(Commits) /\ Len(log') = Len(log) + 1
            /\ \A i \in 1 .. Len(log) : log'[i] = log[i]
            /\ log'[Len(log) + 1] = commit
        BY <3>1, <3>3, AppendProperties
      <4> QED BY <1>1, <4>1
    <3> QED BY <1>7, <3>2, <3>3
  <2>2. /\ head' \in [Clone -> SUBSET (1 .. Len(log'))]
        /\ head[c] \subseteq head'[c]
        /\ \A d \in Clone : d # c => head'[d] = head[d]
    <3>1. 1 .. Len(log) \subseteq 1 .. Len(log')
      BY <1>1, <2>1
    <3>2. head \in [Clone -> SUBSET (1 .. Len(log'))] /\ theirs \in SUBSET (1 .. Len(log'))
      BY <1>1, <3>1 DEF Types
    <3>3. CASE head' = [head EXCEPT ![c] = @ \cup theirs]
      BY <1>1, <3>2, <3>3
    <3>4. CASE log' = Append(log, commit) /\ head' = [head EXCEPT ![c] = @ \cup theirs \cup {Len(log')}]
      <4>1. log' # <<>> /\ Len(log') \in 1 .. Len(log')
        <5>1. commit \in Commits /\ log \in Seq(Commits)
          BY <1>1 DEF Types
        <5> HIDE DEF commit, Commits
        <5>2. Len(log') = Len(log) + 1
          BY <3>4, <5>1, AppendProperties
        <5> QED BY <1>1, <5>2
      <4> QED BY <1>1, <3>2, <3>4, <4>1
    <3> QED BY <1>7, <3>3, <3>4
  <2>3. /\ Moves(p) \/ proc'[p].rounds \in 0 .. 2
        /\ proc' \in [Proc -> Process]
        /\ \A q \in Proc \ {p} : proc'[q] = proc[q]
        /\ proc'[p].kind = proc[p].kind /\ proc'[p].save = proc[p].save
        /\ \/ proc'[p].pc = "save"
           \/ proc'[p].pc = "status" /\ proc'[p].rounds # 0
    <3> DEFINE left == proc[p].rounds - 1
               next == IF proc[p].rounds = 1 THEN "save" ELSE "status"
               r == [proc[p] EXCEPT !.rounds = left, !.pc = next]
    <3>1. proc[p] \in Process /\ proc[p].rounds \in 1 .. 2
      BY <1>1 DEF Types, PreflightPc, Process
    <3>2. proc' = [proc EXCEPT ![p] = r]
      BY <1>7, <3>1 DEF Merged, Types
    <3>a. left \in 0 .. 2 /\ next \in {"save", "status"} /\ (next = "status" => left # 0)
      BY <3>1
    <3> HIDE DEF left, next
    <3>3. /\ r \in Process /\ r.kind = proc[p].kind /\ r.save = proc[p].save
          /\ r.rounds = left /\ r.pc = next
      BY <3>1, <3>a DEF Process, Pc
    <3> HIDE DEF r
    <3>4. proc' \in [Proc -> Process] /\ proc'[p] = r /\ \A q \in Proc \ {p} : proc'[q] = proc[q]
      BY <1>1, <3>2, <3>3 DEF Types
    <3> QED BY <3>3, <3>4, <3>a
  <2>4. ProcTypes'
    <3>1. Rounds' = Rounds /\ Rounds # 0 /\ proc[p].kind # "none"
      BY <1>1 DEF Rounds, Types, PreflightPc
    <3> QED BY <1>1, <2>3, <3>1 DEF ProcTypes, Types, PreflightPc
  <2>5. Types'
    <3>1. 1 .. Len(log) \subseteq 1 .. Len(log')
      BY <1>1, <2>1
    <3>2. /\ tracking \in [Clone -> SUBSET (1 .. Len(log'))]
          /\ merging \in [Clone -> SUBSET (1 .. Len(log'))]
          /\ origin \in SUBSET (1 .. Len(log'))
      BY <1>1, <3>1 DEF Types
    <3> QED BY <1>1, <1>7, <2>1, <2>2, <2>4, <3>2 DEF Types, ProcTypes
  <2>6. ASSUME NEW d \in Clone, d # c PROVE Local(d)'
    <3>1. Local(d) /\ Grow(d)
      BY <1>1, <2>1, <2>6 DEF IInv, Grow
    <3>2. \A q \in In(d) : proc'[q] = proc[q]
      BY <2>3, <2>6 DEF In
    <3> QED BY <1>1, <1>7, <2>2, <2>6, <3>1, <3>2, Elsewhere
  <2>7. Local(c)'
    <3>0. /\ In(c)' = In(c) /\ Rounds' = Rounds /\ merging'[c] = {}
          /\ \A q \in In(c) : q # p => proc'[q] = proc[q]
          /\ proc'[p].pc \in {"save", "status"}
      BY <1>1, <1>7, <2>3 DEF In, Rounds
    <3>1. Alone(c)'
      BY <1>1, <3>0 DEF Local, Alone
    <3>2. Stuck(c)' /\ Attended(c)'
      BY <3>0 DEF Stuck, Attended
    <3>3. Apart(c)'
      BY <1>1, <1>3, <3>0 DEF Apart
    <3>4. HalfDone(c)'
      BY <1>1, <3>0 DEF Local, HalfDone
    <3>5. ContentIn(log, head[c]) \subseteq ContentIn(log', head'[c])
      <4>1. \A k \in head[c] : log'[k].adds = log[k].adds /\ k \in head'[c]
        BY <1>1, <2>1, <2>2
      <4> QED BY <4>1 DEF ContentIn
    <3>6. Kept(c)'
      BY <1>1, <3>5 DEF Local, Kept
    <3>7. ASSUME NEW k \in 1 .. Len(log')
          PROVE  \/ k \in 1 .. Len(log) /\ log'[k] = log[k]
                 \/ log'[k].adds = {} /\ ~log'[k].marked
      BY <1>1, <2>1
    <3>8. Whole(c)' /\ Unmarked(c)'
      BY <1>1, <3>7 DEF Local, Whole, Unmarked
    <3> QED BY <3>1, <3>2, <3>3, <3>4, <3>6, <3>8 DEF Local
  <2> QED BY <2>5, <2>6, <2>7 DEF IInv
<1> QED BY <1>2, <1>4, <1>5, <1>6, <1>7

\* The merge is aborted: what it takes away was not saved by an operation of the clone.
LEMMA AbortStep ==
  ASSUME IInv, NEW p \in Proc, Abort(p)
  PROVE  IInv'
<1> DEFINE c == Dir[p]
           left == {h \in dirty[c] : saves[h.save].path \notin Clash(head[c], merging[c])}
<1>1. /\ Types /\ c \in Clone /\ Local(c) /\ p \in In(c) /\ proc[p].pc = "abort"
      /\ UNCHANGED <<git, saves, log, head, tracking, origin, upset, faults, commands, resets>>
      /\ merging' = [merging EXCEPT ![c] = {}] /\ dirty' = [dirty EXCEPT ![c] = left]
      /\ Len(log) \in Nat /\ Len(saves) \in Nat /\ dirty[c] \in SUBSET Halves(Len(saves))
  BY Constants, Indices DEF IInv, Abort, counters, In, Types
<1>2. Moves(p) /\ proc'[p].pc \in {"idle", "commit_status"}
  BY <1>1, RefreshMoves, Idles DEF Abort
<1>3. left \subseteq dirty[c]
  OBVIOUS
<1>4. ASSUME NEW h \in left, NEW g \in dirty[c], g.save = h.save PROVE g \in left
  BY <1>4
<1>5. "overlap" \notin upset[c] => left = dirty[c]
  <2> SUFFICES ASSUME "overlap" \notin upset[c], NEW h \in dirty[c] PROVE h \in left
    BY <1>3
  <2>1. PathsIn(saves, dirty[c]) \cap ClashIn(saves, log, head[c], merging[c]) = {}
    BY <1>1 DEF Local, Apart
  <2>2. saves[h.save].path \in PathsIn(saves, dirty[c])
    BY DEF PathsIn
  <2> QED BY <2>1, <2>2, Present
<1> HIDE DEF left
<1>6. ProcTypes'
  BY <1>1, <1>2, MovesTypes DEF PreflightPc
<1>7. Types'
  BY <1>1, <1>3, <1>6 DEF Types, ProcTypes
<1>8. ASSUME NEW d \in Clone, d # c PROVE Local(d)'
  <2>1. Local(d) /\ Grow(d)
    BY <1>1 DEF IInv, Grow
  <2>2. \A q \in In(d) : proc'[q] = proc[q]
    BY <1>2, <1>8 DEF In, Moves
  <2>3. merging'[d] = merging[d] /\ dirty'[d] = dirty[d]
    BY <1>1, <1>8 DEF Types
  <2> QED BY <1>1, <2>1, <2>2, <2>3, Elsewhere
<1>9. Local(c)'
  <2>0. /\ In(c)' = In(c) /\ merging'[c] = {} /\ dirty'[c] = left
        /\ \A q \in In(c) : q # p => proc'[q] = proc[q]
    BY <1>1, <1>2 DEF In, Moves, Types
  <2>1. Alone(c)'
    BY <1>1, <1>2, <2>0 DEF Local, Alone
  <2>2. Stuck(c)' /\ Attended(c)'
    BY <2>0 DEF Stuck, Attended
  <2>3. Apart(c)'
    BY <1>1, <1>2, <2>0 DEF Local, Alone, Apart
  <2>4. HalfDone(c)'
    BY <1>1, <1>2, <1>5, <2>0 DEF Local, HalfDone
  <2>5. Kept(c)' /\ Whole(c)' /\ Unmarked(c)'
    BY <1>1, <1>5, <2>0 DEF Local, Kept, Whole, Unmarked
  <2> QED BY <2>1, <2>2, <2>3, <2>4, <2>5 DEF Local
<1> QED BY <1>7, <1>8, <1>9 DEF IInv

\* Nothing to save is left.
LEMMA SaveNothingStep ==
  ASSUME IInv, NEW p \in Proc, proc[p].pc = "save",
         CASE proc[p].kind = "cycle" -> AutoCommit(p, "push_after")
           [] proc[p].kind = "sync" -> Goto(p, "push_after")
           [] proc[p].kind = "edit" -> Finish(p),
         UNCHANGED <<saves, dirty, git, repo, upset, counters>>
  PROVE  IInv'
<1>1. /\ Types /\ Dir[p] \in Clone /\ Local(Dir[p]) /\ p \in In(Dir[p])
      /\ UNCHANGED <<git, saves, dirty, log, head, tracking, merging, origin, upset, faults,
                     commands, resets>>
  BY Constants DEF IInv, repo, counters, In
<1>2. Moves(p) /\ proc'[p].pc \in {"idle", "commit_status", "push_after"}
  <2>1. proc[p].kind \in {"cycle", "sync", "edit"}
    BY <1>1 DEF Types, Process
  <2>2. CASE proc[p].kind = "cycle"
    <3>1. AutoCommit(p, "push_after")
      BY <2>2
    <3> QED BY <1>1, <3>1, AutoCommitMoves
  <2>3. CASE proc[p].kind = "sync"
    <3>1. Goto(p, "push_after")
      BY <2>3
    <3> QED BY <1>1, <3>1, GotoMoves DEF Pc
  <2>4. CASE proc[p].kind = "edit"
    <3>1. Finish(p)
      BY <2>4
    <3> QED BY <1>1, <3>1, FinishMoves, Idles
  <2> QED BY <2>1, <2>2, <2>3, <2>4
<1>3. "overlap" \notin upset[Dir[p]] => merging[Dir[p]] = {}
  BY <1>1 DEF Local, Stuck
<1>4. ProcTypes'
  BY <1>1, <1>2, MovesTypes, Indices DEF PreflightPc
<1>5. Types'
  BY <1>1, <1>4 DEF Types, ProcTypes
<1>6. \A c \in Clone : Local(c)'
  BY <1>1, <1>2, <1>3, Quiet
<1> QED BY <1>5, <1>6 DEF IInv

\* The first half of a save is written.
LEMMA SaveFirstStep ==
  ASSUME IInv, NEW p \in Proc, proc[p].pc = "save", Len(saves) < MaxSave,
         NEW f \in Path, saves' = Append(saves, [clone |-> Dir[p], path |-> f]),
         Written(Dir[p], Len(saves'), 1),
         proc' = [proc EXCEPT ![p].pc = "rest", ![p].save = Len(saves')],
         UNCHANGED <<git, repo, upset, counters>>
  PROVE  IInv'
<1> DEFINE c == Dir[p]
           s == [clone |-> c, path |-> f]
           n == Len(saves')
<1>1. /\ Types /\ c \in Clone /\ Local(c) /\ p \in In(c)
      /\ UNCHANGED <<git, log, head, tracking, merging, origin, upset, faults, commands, resets>>
      /\ Len(log) \in Nat /\ Len(saves) \in Nat /\ DOMAIN dirty = Clone
      /\ dirty[c] \in SUBSET Halves(Len(saves))
      /\ proc[p] \in Process
  BY Constants, Indices DEF IInv, repo, counters, In, Types
<1>2. /\ saves' \in Seq([clone : Clone, path : Path]) /\ n = Len(saves) + 1
      /\ \A i \in 1 .. Len(saves) : saves'[i] = saves[i]
      /\ saves'[n] = s
  <2>1. s \in [clone : Clone, path : Path] /\ saves \in Seq([clone : Clone, path : Path])
    BY <1>1 DEF Types
  <2>2. saves' = Append(saves, s)
    OBVIOUS
  <2> HIDE DEF s
  <2> QED BY <2>1, <2>2, AppendProperties
<1>3. n \in Nat /\ Len(saves) <= n /\ n <= MaxSave
  BY <1>1, <1>2, Constants
<1>4. /\ FirstHalf(n) = [save |-> n, part |-> 1]
      /\ dirty' = [dirty EXCEPT ![c] = @ \cup {FirstHalf(n)}]
      /\ dirty'[c] = dirty[c] \cup {FirstHalf(n)}
      /\ \A d \in Clone : d # c => dirty'[d] = dirty[d]
  BY <1>1 DEF Written, FirstHalf
<1>5. Halves(Len(saves)) \subseteq Halves(n) /\ FirstHalf(n) \in Halves(n)
  BY <1>1, <1>2 DEF Halves, FirstHalf
<1> HIDE DEF n
<1>6. /\ proc' \in [Proc -> Process] /\ \A q \in Proc \ {p} : proc'[q] = proc[q]
      /\ proc'[p].pc = "rest" /\ proc'[p].save = n /\ proc'[p].kind = proc[p].kind
  <2> DEFINE r == [proc[p] EXCEPT !.pc = "rest", !.save = n]
  <2>1. r \in Process /\ r.pc = "rest" /\ r.save = n /\ r.kind = proc[p].kind
    BY <1>1, <1>3 DEF Process, Pc
  <2>2. proc' = [proc EXCEPT ![p] = r]
    BY <1>1 DEF Types, n
  <2> HIDE DEF r
  <2> QED BY <1>1, <2>1, <2>2 DEF Types
<1>7. Types'
  <2>1. Rounds' = Rounds
    BY <1>1 DEF Rounds
  <2>2. \A q \in Proc : proc[q].save <= n
    <3> SUFFICES ASSUME NEW q \in Proc PROVE proc[q].save <= n
      OBVIOUS
    <3>1. proc[q].save \in Nat /\ proc[q].save <= Len(saves)
      BY <1>1 DEF Types, Process
    <3> QED BY <1>1, <1>3, <3>1
  <2>3. ProcTypes'
    BY <1>1, <1>2, <1>3, <1>6, <2>1, <2>2 DEF ProcTypes, Types, PreflightPc, n
  <2>4. dirty' \in [Clone -> SUBSET Halves(n)]
    BY <1>1, <1>4, <1>5 DEF Types
  <2>5. log \in Seq([clone : Clone, adds : SUBSET Halves(n), marked : BOOLEAN])
    <3> DEFINE Before == [clone : Clone, adds : SUBSET Halves(Len(saves)), marked : BOOLEAN]
               After == [clone : Clone, adds : SUBSET Halves(n), marked : BOOLEAN]
    <3>1. Before \subseteq After
      BY <1>5
    <3>2. log \in Seq(Before)
      BY <1>1 DEF Types
    <3> HIDE DEF Before, After
    <3>3. log \in Seq(After)
      BY <3>1, <3>2, SeqMonotonic
    <3> QED BY <3>3 DEF After
  <2> QED BY <1>1, <1>2, <1>3, <2>3, <2>4, <2>5 DEF Types, ProcTypes, n
<1>8. ASSUME NEW d \in Clone, d # c PROVE Local(d)'
  <2>1. Local(d)
    BY DEF IInv
  <2>2. Grow(d)
    <3>1. \A i \in 1 .. n : i <= Len(saves) \/ i = n
      BY <1>1, <1>2
    <3> QED BY <1>1, <1>2, <1>3, <1>8, <3>1 DEF Grow, n
  <2>3. \A q \in In(d) : proc'[q] = proc[q]
    BY <1>6, <1>8 DEF In
  <2> QED BY <1>1, <1>4, <1>8, <2>1, <2>2, <2>3, Elsewhere
<1>9. Local(c)'
  <2>0. /\ In(c)' = In(c) /\ Rounds' = Rounds
        /\ \A q \in In(c) : q # p => proc'[q] = proc[q]
    BY <1>1, <1>6 DEF In, Rounds
  <2>1. Alone(c)'
    BY <1>1, <1>6, <2>0 DEF Local, Alone
  <2>2. Stuck(c)' /\ Attended(c)'
    BY <1>1, <1>6, <2>0 DEF Local, Stuck, Attended
  <2>3. Apart(c)'
    BY <1>1, <1>6, <2>0 DEF Local, Alone, Apart
  <2>4. HalfDone(c)'
    <3> SUFFICES ASSUME upset[c] = {}
        PROVE  /\ \A h \in dirty'[c] : \/ Mate(h) \in dirty'[c]
                                       \/ h = FirstHalf(n)
               /\ \A q \in In(c) : proc'[q].pc = "rest" => FirstHalf(proc'[q].save) \in dirty'[c]
      BY <1>1, <1>6, <2>0 DEF HalfDone
    <3>1. \A q \in In(c) : q # p => proc[q].pc = "idle"
      BY <1>1 DEF Local, Alone
    <3>2. \A h \in dirty[c] : Mate(h) \in dirty[c]
      BY <1>1, <3>1 DEF Local, HalfDone
    <3> QED BY <1>1, <1>4, <1>6, <2>0, <3>1, <3>2
  <2>5. Kept(c)'
    <3>1. \A i \in 1 .. n : i \in 1 .. Len(saves) \/ i = n
      BY <1>1, <1>2
    <3> QED BY <1>1, <1>2, <1>4, <3>1 DEF Local, Kept, n
  <2>6. Whole(c)' /\ Unmarked(c)'
    BY <1>1 DEF Local, Whole, Unmarked
  <2> QED BY <2>1, <2>2, <2>3, <2>4, <2>5, <2>6 DEF Local
<1> QED BY <1>7, <1>8, <1>9 DEF IInv

\* A save keeps the invariant.
LEMMA SaveStep ==
  ASSUME IInv, NEW p \in Proc, Save(p)
  PROVE  IInv'
BY SaveFirstStep, SaveNothingStep DEF Save

\* The second half is written, or the save is cut short.
LEMMA RestStep ==
  ASSUME IInv, NEW p \in Proc, Rest(p)
  PROVE  IInv'
<1> DEFINE c == Dir[p]
           n == proc[p].save
           second == [save |-> n, part |-> 2]
<1>1. /\ Types /\ c \in Clone /\ Local(c) /\ p \in In(c) /\ proc[p].pc = "rest"
      /\ UNCHANGED <<git, saves, log, head, tracking, merging, origin, commands, resets>>
      /\ Len(log) \in Nat /\ Len(saves) \in Nat /\ DOMAIN dirty = Clone
      /\ dirty[c] \in SUBSET Halves(Len(saves))
      /\ proc[p] \in Process
  BY Constants, Indices DEF IInv, Rest, repo, In, Types
<1>2. n \in 1 .. Len(saves)
  <2>1. n \in Nat /\ n <= Len(saves) /\ n # 0
    BY <1>1 DEF Types, Process
  <2> QED BY <1>1, <2>1
<1>3. "overlap" \notin upset[c] =>
          /\ merging[c] = {}
          /\ \A q \in In(c) : q # p => proc[q].pc = "idle"
  BY <1>1 DEF Local, Stuck, Alone
<1>4. ASSUME Moves(p), proc'[p].pc \in {"idle", "save", "push_after", "commit_status"},
             UNCHANGED <<upset, faults>>, Written(c, n, 2)
      PROVE  IInv'
  <2>1. /\ dirty' = [dirty EXCEPT ![c] = @ \cup {second}]
        /\ dirty'[c] = dirty[c] \cup {second}
        /\ \A d \in Clone : d # c => dirty'[d] = dirty[d]
    BY <1>1, <1>4 DEF Written
  <2>2. second \in Halves(Len(saves))
    BY <1>2 DEF Halves
  <2>3. ProcTypes'
    BY <1>1, <1>4, MovesTypes DEF PreflightPc
  <2>4. Types'
    BY <1>1, <1>4, <2>1, <2>2, <2>3 DEF Types, ProcTypes
  <2>5. ASSUME NEW d \in Clone, d # c PROVE Local(d)'
    <3>1. Local(d) /\ Grow(d)
      BY <1>1 DEF IInv, Grow
    <3>2. \A q \in In(d) : proc'[q] = proc[q]
      BY <1>4, <2>5 DEF In, Moves
    <3> QED BY <1>1, <1>4, <2>1, <2>5, <3>1, <3>2, Elsewhere
  <2>6. Local(c)'
    <3>0. /\ In(c)' = In(c) /\ Rounds' = Rounds
          /\ \A q \in In(c) : q # p => proc'[q] = proc[q]
      BY <1>1, <1>4 DEF In, Rounds, Moves
    <3>1. Alone(c)'
      BY <1>1, <1>4, <3>0 DEF Local, Alone
    <3>2. Stuck(c)' /\ Attended(c)'
      BY <1>1, <1>3, <1>4 DEF Stuck, Attended
    <3>3. Apart(c)'
      BY <1>1, <1>3, <1>4, <3>0 DEF Apart
    <3>4. HalfDone(c)'
      <4> SUFFICES ASSUME upset[c] = {}
          PROVE  \A h \in dirty'[c] : Mate(h) \in dirty'[c]
        BY <1>1, <1>3, <1>4, <3>0 DEF HalfDone
      <4>1. FirstHalf(n) \in dirty[c] /\ FirstHalf(n) \in Halves(Len(saves))
        BY <1>1 DEF Local, HalfDone
      <4>2. \A h \in dirty[c] : Mate(h) \in dirty[c] \/ h = FirstHalf(n)
        BY <1>1, <1>3 DEF Local, HalfDone
      <4>3. Mate(FirstHalf(n)) = second
        <5>1. Mate(FirstHalf(n)) = [save |-> n, part |-> 3 - 1]
          BY DEF FirstHalf, Mate
        <5>2. 3 - 1 = 2
          OBVIOUS
        <5> QED BY <5>1, <5>2
      <4>4. Mate(second) = FirstHalf(n)
        <5>1. Mate(second) = [save |-> n, part |-> 3 - 2]
          BY DEF Mate
        <5>2. 3 - 2 = 1
          OBVIOUS
        <5> QED BY <5>1, <5>2 DEF FirstHalf
      <4> QED BY <2>1, <4>1, <4>2, <4>3, <4>4
    <3>5. Kept(c)' /\ Whole(c)' /\ Unmarked(c)'
      BY <1>1, <1>4, <2>1 DEF Local, Kept, Whole, Unmarked
    <3> QED BY <3>1, <3>2, <3>3, <3>4, <3>5 DEF Local
  <2> QED BY <2>4, <2>5, <2>6 DEF IInv
<1>5. ASSUME Moves(p), proc'[p].pc \in {"idle", "save"}, Fault, UNCHANGED dirty,
             upset' = [upset EXCEPT ![c] = @ \cup {"cut"}]
      PROVE  IInv'
  <2>1. /\ upset'[c] = upset[c] \cup {"cut"}
        /\ \A d \in Clone : d # c => upset'[d] = upset[d]
        /\ upset' \in [Clone -> SUBSET {"overlap", "cut", "reset"}]
    BY <1>1, <1>5 DEF Types
  <2>2. faults' \in 0 .. MaxFault
    BY <1>1, <1>5, FaultTypes
  <2>3. ProcTypes'
    BY <1>1, <1>5, MovesTypes DEF PreflightPc
  <2>4. Types'
    BY <1>1, <1>5, <2>1, <2>2, <2>3 DEF Types, ProcTypes
  <2>5. ASSUME NEW d \in Clone, d # c PROVE Local(d)'
    <3>1. Local(d) /\ Grow(d)
      BY <1>1 DEF IInv, Grow
    <3>2. \A q \in In(d) : proc'[q] = proc[q]
      BY <1>5, <2>5 DEF In, Moves
    <3> QED BY <1>1, <1>5, <2>1, <2>5, <3>1, <3>2, Elsewhere
  <2>6. Local(c)'
    <3>0. /\ In(c)' = In(c) /\ Rounds' = Rounds
          /\ \A q \in In(c) : q # p => proc'[q] = proc[q]
      BY <1>1, <1>5 DEF In, Rounds, Moves
    <3>1. Alone(c)'
      BY <1>1, <1>5, <2>1, <3>0 DEF Local, Alone
    <3>2. Stuck(c)' /\ Attended(c)'
      BY <1>1, <1>3, <1>5, <2>1 DEF Stuck, Attended
    <3>3. Apart(c)'
      BY <1>1, <1>3, <1>5, <2>1, <3>0 DEF Apart
    <3>4. HalfDone(c)' /\ Whole(c)' /\ Unmarked(c)'
      BY <2>1 DEF HalfDone, Whole, Unmarked
    <3>5. Kept(c)'
      BY <1>1, <1>5, <2>1 DEF Local, Kept
    <3> QED BY <3>1, <3>2, <3>3, <3>4, <3>5 DEF Local
  <2> QED BY <2>4, <2>5, <2>6 DEF IInv
<1>6. proc[p].kind \in {"cycle", "sync", "edit"}
  BY <1>1 DEF Types, Process
<1>7. CASE /\ Written(c, n, 2)
           /\ CASE proc[p].kind = "cycle" -> AutoCommit(p, "save")
                [] proc[p].kind = "sync" -> AutoCommit(p, "push_after")
                [] proc[p].kind = "edit" -> AutoCommit(p, "idle")
           /\ UNCHANGED <<faults, upset>>
  <2>1. PICK then \in {"idle", "save", "push_after"} : AutoCommit(p, then)
    BY <1>6, <1>7
  <2>2. Moves(p) /\ proc'[p].pc \in {"idle", "save", "push_after", "commit_status"}
    BY <1>1, <2>1, AutoCommitMoves, Idles
  <2> QED BY <1>4, <1>7, <2>2
<1>8. CASE /\ Fault /\ upset' = [upset EXCEPT ![c] = @ \cup {"cut"}]
           /\ IF proc[p].kind = "cycle" THEN Goto(p, "save") ELSE Finish(p)
           /\ UNCHANGED dirty
  <2>1. Goto(p, "save") \/ Finish(p)
    BY <1>8
  <2>2. Moves(p) /\ proc'[p].pc \in {"idle", "save"}
    BY <1>1, <2>1, GotoMoves, FinishMoves, Idles DEF Pc
  <2> QED BY <1>5, <1>8, <2>2
<1> QED BY <1>7, <1>8 DEF Rest

\* git status before a commit.
LEMMA CommitStatusStep ==
  ASSUME IInv, NEW p \in Proc, CommitStatus(p)
  PROVE  IInv'
<1>1. /\ Types /\ Dir[p] \in Clone /\ Local(Dir[p]) /\ p \in In(Dir[p])
      /\ proc[p].pc = "commit_status"
      /\ UNCHANGED <<git, saves, dirty, log, head, tracking, merging, origin, upset, faults,
                     commands, resets>>
  BY Constants DEF IInv, CommitStatus, repo, counters, In
<1>2. /\ Moves(p)
      /\ \/ proc'[p].pc = "commit" /\ proc'[p].then = proc[p].then
         \/ proc'[p].pc \in {"idle", "save", "push_after"} /\ merging[Dir[p]] = {}
  <2>1. CASE Unclean(Dir[p])
    BY <1>1, <2>1, GotoMoves DEF CommitStatus, Pc
  <2>2. CASE ~Unclean(Dir[p])
    BY <1>1, <2>2, CommittedMoves, Idles DEF CommitStatus, Unclean
  <2> QED BY <2>1, <2>2
<1>3. "overlap" \notin upset[Dir[p]] /\ merging[Dir[p]] # {} => proc[p].then = "idle"
  BY <1>1 DEF Local, Stuck
<1>4. ProcTypes'
  BY <1>1, <1>2, MovesTypes, Indices DEF PreflightPc
<1>5. Types'
  BY <1>1, <1>4 DEF Types, ProcTypes
<1>6. \A c \in Clone : Local(c)'
  BY <1>1, <1>2, <1>3, Quiet
<1> QED BY <1>5, <1>6 DEF IInv

\* A commit takes all that is dirty: whole saves, unless one is under way.
LEMMA CommitStep ==
  ASSUME IInv, NEW p \in Proc, Commit(p)
  PROVE  IInv'
<1> DEFINE c == Dir[p]
           commit == [clone |-> c, adds |-> dirty[c], marked |-> merging[c] # {}]
           Commits == [clone : Clone, adds : SUBSET Halves(Len(saves)), marked : BOOLEAN]
<1>1. /\ Types /\ c \in Clone /\ Local(c) /\ p \in In(c) /\ proc[p].pc = "commit"
      /\ UNCHANGED <<git, saves, tracking, origin, upset, commands, resets>>
      /\ Len(log) \in Nat /\ Len(saves) \in Nat
      /\ head[c] \in SUBSET (1 .. Len(log)) /\ merging[c] \in SUBSET (1 .. Len(log))
      /\ dirty[c] \in SUBSET Halves(Len(saves))
  BY Constants, Indices DEF IInv, Commit, In, Types
<1>2. "overlap" \notin upset[c] => \A q \in In(c) : q # p => proc[q].pc = "idle"
  BY <1>1 DEF Local, Alone
<1>3. CASE /\ log' = Append(log, commit)
           /\ head' = [head EXCEPT ![c] = @ \cup merging[c] \cup {Len(log')}]
           /\ merging' = [merging EXCEPT ![c] = {}]
           /\ dirty' = [dirty EXCEPT ![c] = {}]
           /\ IF git.auto_push THEN Goto(p, "push") ELSE Committed(p)
           /\ UNCHANGED faults
  <2>1. commit \in Commits /\ log \in Seq(Commits)
    BY <1>1 DEF Types
  <2>c. commit.clone = c /\ commit.adds = dirty[c] /\ commit.marked = (merging[c] # {})
    OBVIOUS
  <2> HIDE DEF commit, Commits
  <2>2. /\ log' \in Seq(Commits) /\ Len(log') = Len(log) + 1
        /\ \A i \in 1 .. Len(log) : log'[i] = log[i]
        /\ log'[Len(log')] = commit
    BY <1>3, <2>1, AppendProperties
  <2>3. /\ \A i \in 1 .. Len(log') : i \in 1 .. Len(log) \/ i = Len(log')
        /\ 1 .. Len(log) \subseteq 1 .. Len(log') /\ Len(log') \in 1 .. Len(log')
        /\ Len(log') \in Nat /\ Len(log) <= Len(log')
    BY <1>1, <2>2
  <2>4. /\ head' \in [Clone -> SUBSET (1 .. Len(log'))]
        /\ merging' \in [Clone -> SUBSET (1 .. Len(log'))]
        /\ tracking \in [Clone -> SUBSET (1 .. Len(log'))]
        /\ origin \in SUBSET (1 .. Len(log'))
        /\ dirty' \in [Clone -> SUBSET Halves(Len(saves))]
    BY <1>1, <1>3, <2>3 DEF Types
  <2>5. /\ head'[c] = head[c] \cup merging[c] \cup {Len(log')} /\ merging'[c] = {} /\ dirty'[c] = {}
        /\ \A d \in Clone : d # c => /\ head'[d] = head[d] /\ merging'[d] = merging[d]
                                     /\ dirty'[d] = dirty[d]
    BY <1>1, <1>3 DEF Types
  <2>6. Moves(p) /\ proc'[p].pc \in {"idle", "push", "save", "push_after"}
    BY <1>1, <1>3, GotoMoves, CommittedMoves, Idles DEF Pc
  <2>7. ProcTypes'
    BY <1>1, <2>6, MovesTypes DEF PreflightPc
  <2>8. Types'
    BY <1>1, <1>3, <2>2, <2>4, <2>7 DEF Types, ProcTypes, Commits
  <2>9. ASSUME NEW d \in Clone, d # c PROVE Local(d)'
    <3>1. Local(d) /\ Grow(d)
      BY <1>1, <2>2, <2>3, <2>9, <2>c DEF IInv, Grow
    <3>2. \A q \in In(d) : proc'[q] = proc[q]
      BY <2>6, <2>9 DEF In, Moves
    <3> QED BY <1>1, <2>5, <2>9, <3>1, <3>2, Elsewhere
  <2>10. Local(c)'
    <3>0. /\ In(c)' = In(c) /\ \A q \in In(c) : q # p => proc'[q] = proc[q]
      BY <2>6 DEF In, Moves
    <3>1. Alone(c)'
      BY <1>1, <2>6, <3>0 DEF Local, Alone
    <3>2. Stuck(c)' /\ Attended(c)' /\ Apart(c)'
      <4>1. PathsIn(saves', dirty'[c]) = {}
        BY <2>5 DEF PathsIn
      <4> QED BY <2>5, <4>1 DEF Stuck, Attended, Apart
    <3>3. HalfDone(c)'
      BY <1>1, <1>2, <2>5, <2>6, <3>0 DEF HalfDone
    <3>4. dirty[c] \cup ContentIn(log, head[c]) \subseteq ContentIn(log', head'[c])
      <4>1. \A k \in head[c] : log'[k].adds = log[k].adds /\ k \in head'[c]
        BY <1>1, <2>2, <2>5
      <4>2. log'[Len(log')].adds = dirty[c] /\ Len(log') \in head'[c]
        BY <2>2, <2>5, <2>c
      <4> QED BY <4>1, <4>2 DEF ContentIn
    <3>5. Kept(c)'
      BY <1>1, <3>4 DEF Local, Kept
    <3>6. Whole(c)'
      <4>1. upset[c] = {} => \A h \in commit.adds : Mate(h) \in commit.adds
        BY <1>1, <1>2, <2>c DEF Local, HalfDone
      <4> QED BY <1>1, <2>2, <2>3, <4>1 DEF Local, Whole
    <3>7. Unmarked(c)'
      <4>1. upset[c] \cap {"overlap", "cut"} = {} => ~commit.marked
        BY <1>1, <1>2, <2>c DEF Local, Attended
      <4> QED BY <1>1, <2>2, <2>3, <4>1 DEF Local, Unmarked
    <3> QED BY <3>1, <3>2, <3>3, <3>5, <3>6, <3>7 DEF Local
  <2> QED BY <2>8, <2>9, <2>10 DEF IInv
<1>4. CASE /\ IF Unclean(c) THEN Fault ELSE UNCHANGED faults
           /\ Committed(p)
           /\ UNCHANGED <<dirty, log, head, merging>>
  <2>1. Moves(p) /\ (proc'[p].pc = "idle" \/ (proc'[p].pc = proc[p].then /\ proc[p].then \in {"save", "push_after"}))
    BY <1>1, <1>4, CommittedMoves, Idles
  <2>2. "overlap" \notin upset[c] /\ merging[c] # {} => proc[p].then = "idle"
    BY <1>1 DEF Local, Stuck
  <2>3. faults' \in 0 .. MaxFault
    <3>1. Fault \/ UNCHANGED faults
      BY <1>4
    <3> QED BY <1>1, <3>1, FaultTypes
  <2>4. ProcTypes'
    BY <1>1, <2>1, MovesTypes DEF PreflightPc
  <2>5. Types'
    BY <1>1, <1>4, <2>3, <2>4 DEF Types, ProcTypes
  <2>6. \A d \in Clone : Local(d)'
    BY <1>1, <1>4, <2>1, <2>2, Quiet
  <2> QED BY <2>5, <2>6 DEF IInv
<1> QED BY <1>3, <1>4 DEF Commit

\* What a push moves are names of commits there are.
LEMMA GitPushTypes ==
  ASSUME Types, NEW c \in Clone, GitPush(c)
  PROVE  /\ origin' \in SUBSET (1 .. Len(log))
         /\ tracking' \in [Clone -> SUBSET (1 .. Len(log))]
         /\ faults' \in 0 .. MaxFault
<1>1. \/ origin' = head[c] /\ tracking' = [tracking EXCEPT ![c] = head[c]]
      \/ UNCHANGED <<origin, tracking>>
  BY DEF GitPush
<1>2. Fault \/ UNCHANGED faults
  BY DEF GitPush
<1>3. head[c] \in SUBSET (1 .. Len(log))
  BY DEF Types
<1>4. origin' \in SUBSET (1 .. Len(log)) /\ tracking' \in [Clone -> SUBSET (1 .. Len(log))]
  BY <1>1, <1>3 DEF Types
<1> QED BY <1>2, <1>4, FaultTypes

\* A push keeps the invariant.
LEMMA PushStep ==
  ASSUME IInv, NEW p \in Proc, Push(p)
  PROVE  IInv'
<1>1. /\ Types /\ Dir[p] \in Clone /\ Local(Dir[p]) /\ p \in In(Dir[p]) /\ proc[p].pc = "push"
      /\ UNCHANGED <<git, saves, dirty, log, head, merging, upset, commands, resets>>
      /\ GitPush(Dir[p]) /\ Committed(p)
  BY Constants DEF IInv, Push, In
<1>2. Moves(p) /\ proc'[p].pc \in {"idle", "save", "push_after"}
  BY <1>1, CommittedMoves, Idles
<1>3. "overlap" \notin upset[Dir[p]] => merging[Dir[p]] = {}
  BY <1>1 DEF Local, Stuck
<1>4. ProcTypes'
  BY <1>1, <1>2, MovesTypes, Indices DEF PreflightPc
<1>5. Types'
  BY <1>1, <1>4, GitPushTypes DEF Types, ProcTypes
<1>6. \A c \in Clone : Local(c)'
  BY <1>1, <1>2, <1>3, Quiet
<1> QED BY <1>5, <1>6 DEF IInv

\* A push after a sync keeps the invariant.
LEMMA PushAfterSyncStep ==
  ASSUME IInv, NEW p \in Proc, PushAfterSync(p)
  PROVE  IInv'
<1>1. /\ Types /\ Dir[p] \in Clone /\ Local(Dir[p]) /\ p \in In(Dir[p])
      /\ proc[p].pc = "push_after" /\ Refresh(p)
      /\ UNCHANGED <<git, saves, dirty, log, head, merging, upset, commands, resets>>
      /\ GitPush(Dir[p]) \/ UNCHANGED <<origin, tracking, faults>>
  BY Constants DEF IInv, PushAfterSync, In
<1>2. Moves(p) /\ proc'[p].pc \in {"idle", "commit_status"}
  BY <1>1, RefreshMoves, Idles
<1>3. "overlap" \notin upset[Dir[p]] => merging[Dir[p]] = {}
  BY <1>1 DEF Local, Stuck
<1>4. ProcTypes'
  BY <1>1, <1>2, MovesTypes, Indices DEF PreflightPc
<1>5. /\ origin' \in SUBSET (1 .. Len(log)) /\ tracking' \in [Clone -> SUBSET (1 .. Len(log))]
      /\ faults' \in 0 .. MaxFault
  <2>1. CASE GitPush(Dir[p])
    BY <1>1, <2>1, GitPushTypes
  <2>2. CASE UNCHANGED <<origin, tracking, faults>>
    BY <1>1, <2>2 DEF Types
  <2> QED BY <1>1, <2>1, <2>2
<1>6. Types'
  BY <1>1, <1>4, <1>5 DEF Types, ProcTypes
<1>7. \A c \in Clone : Local(c)'
  BY <1>1, <1>2, <1>3, Quiet
<1> QED BY <1>6, <1>7 DEF IInv

\* A process dies: a save or a merge it was at is cut short.
LEMMA CrashStep ==
  ASSUME IInv, NEW p \in Proc, Crash(p)
  PROVE  IInv'
<1> DEFINE c == Dir[p]
<1>1. /\ Types /\ c \in Clone /\ Local(c) /\ p \in In(c) /\ proc[p].pc # "idle" /\ Fault
      /\ UNCHANGED <<git, saves, dirty, log, head, tracking, merging, origin, commands, resets>>
      /\ Len(log) \in Nat /\ Len(saves) \in Nat
  BY Constants, Indices DEF IInv, Crash, In, repo
<1>2. Moves(p) /\ proc'[p].pc = "idle"
  BY <1>1, FinishMoves, Idles DEF Crash
<1>3. /\ upset' \in [Clone -> SUBSET {"overlap", "cut", "reset"}]
      /\ upset[c] \subseteq upset'[c] /\ upset'[c] \subseteq upset[c] \cup {"cut"}
      /\ proc[p].pc \in {"rest", "abort"} => "cut" \in upset'[c]
      /\ \A d \in Clone : d # c => upset'[d] = upset[d]
  BY <1>1 DEF Crash, Types
<1>4. faults' \in 0 .. MaxFault
  BY <1>1, FaultTypes
<1>5. ProcTypes'
  BY <1>1, <1>2, MovesTypes DEF PreflightPc
<1>6. Types'
  BY <1>1, <1>3, <1>4, <1>5 DEF Types, ProcTypes
<1>7. ASSUME NEW d \in Clone, d # c PROVE Local(d)'
  <2>1. Local(d) /\ Grow(d)
    BY <1>1 DEF IInv, Grow
  <2>2. \A q \in In(d) : proc'[q] = proc[q]
    BY <1>2, <1>7 DEF In, Moves
  <2> QED BY <1>1, <1>3, <1>7, <2>1, <2>2, Elsewhere
<1>8. Local(c)'
  <2>0. /\ In(c)' = In(c) /\ Rounds' = Rounds
        /\ \A q \in In(c) : q # p => proc'[q] = proc[q]
    BY <1>1, <1>2 DEF In, Rounds, Moves
  <2>1. Alone(c)'
    BY <1>1, <1>2, <1>3, <2>0 DEF Local, Alone
  <2>2. Stuck(c)'
    BY <1>1, <1>2, <1>3, <2>0 DEF Local, Stuck
  <2>3. Apart(c)'
    BY <1>1, <1>2, <1>3, <2>0 DEF Local, Apart
  <2>4. Attended(c)'
    BY <1>1, <1>2, <1>3, <2>0 DEF Local, Attended
  <2>5. HalfDone(c)'
    BY <1>1, <1>2, <1>3, <2>0 DEF Local, HalfDone
  <2>6. Kept(c)' /\ Whole(c)' /\ Unmarked(c)'
    BY <1>1, <1>3 DEF Local, Kept, Whole, Unmarked
  <2> QED BY <2>1, <2>2, <2>3, <2>4, <2>5, <2>6 DEF Local
<1> QED BY <1>6, <1>7, <1>8 DEF IInv

\* The server resets a clone.
LEMMA ServerSyncStep ==
  ASSUME IInv, NEW c \in Clone, ServerSync(c)
  PROVE  IInv'
<1>1. /\ Types /\ Local(c)
      /\ UNCHANGED <<git, saves, log, origin, proc, faults, commands>>
      /\ tracking' = [tracking EXCEPT ![c] = origin] /\ head' = [head EXCEPT ![c] = origin]
      /\ merging' = [merging EXCEPT ![c] = {}]
      /\ Len(log) \in Nat /\ Len(saves) \in Nat
  BY Indices DEF IInv, ServerSync
<1>2. PICK unknown \in SUBSET dirty[c] : dirty' = [dirty EXCEPT ![c] = unknown]
  BY DEF ServerSync
<1>3. /\ upset' \in [Clone -> SUBSET {"overlap", "cut", "reset"}]
      /\ upset[c] \subseteq upset'[c] /\ "reset" \in upset'[c]
      /\ (\E q \in Proc : Dir[q] = c /\ proc[q].pc # "idle") => "overlap" \in upset'[c]
      /\ \A d \in Clone : d # c => upset'[d] = upset[d]
  BY <1>1 DEF ServerSync, Types
<1>4. resets' \in 0 .. MaxReset
  BY <1>1, Constants DEF ServerSync, Types
<1>5. Types'
  BY <1>1, <1>2, <1>3, <1>4 DEF Types, Rounds
<1>6. ASSUME NEW d \in Clone, d # c PROVE Local(d)'
  <2>1. Local(d) /\ Grow(d)
    BY <1>1 DEF IInv, Grow
  <2>2. head'[d] = head[d] /\ merging'[d] = merging[d] /\ dirty'[d] = dirty[d]
    BY <1>1, <1>2, <1>6 DEF Types
  <2> QED BY <1>1, <1>3, <1>6, <2>1, <2>2, Elsewhere
<1>7. Local(c)'
  <2>0. In(c)' = In(c) /\ merging'[c] = {}
    BY <1>1 DEF In, Types
  <2>1. "overlap" \notin upset'[c] => \A q \in In(c) : proc'[q].pc = "idle"
    BY <1>1, <1>3 DEF In
  <2>2. Alone(c)' /\ Stuck(c)' /\ Attended(c)' /\ Apart(c)'
    BY <2>0, <2>1 DEF Alone, Stuck, Attended, Apart
  <2>3. HalfDone(c)' /\ Kept(c)' /\ Whole(c)'
    BY <1>3 DEF HalfDone, Kept, Whole
  <2>4. Unmarked(c)'
    BY <1>1, <1>3 DEF Local, Unmarked
  <2> QED BY <2>2, <2>3, <2>4 DEF Local
<1> QED BY <1>5, <1>6, <1>7 DEF IInv

\* Every step keeps the invariant.
LEMMA NextIInv == IInv /\ [Next]_vars => IInv'
<1> SUFFICES ASSUME IInv, [Next]_vars PROVE IInv'
  OBVIOUS
<1>1. ASSUME NEW p \in Proc, Begin(p) \/ Continue(p) \/ Crash(p) PROVE IInv'
  BY <1>1, BeginStep, StatusStep, FetchStep, MergeStep, AbortStep, SaveStep, RestStep,
     CommitStatusStep, CommitStep, PushStep, PushAfterSyncStep, CrashStep
     DEF Continue
<1>2. ASSUME NEW c \in Clone, ServerSync(c) PROVE IInv'
  BY <1>2, ServerSyncStep
<1>3. CASE UNCHANGED vars
  <2>1. /\ UNCHANGED <<git, saves, dirty, log, head, tracking, merging, origin, proc, upset,
                       faults, commands, resets>>
    BY <1>3 DEF vars
  <2>2. Types'
    BY <2>1 DEF IInv, Types, Rounds
  <2>3. ASSUME NEW c \in Clone PROVE Local(c)'
    <3>1. Grow(c)
      BY <2>1, Indices DEF IInv, Grow
    <3> QED BY <2>1, <3>1, Elsewhere DEF IInv
  <2> QED BY <2>2, <2>3 DEF IInv
<1> QED BY <1>1, <1>2, <1>3 DEF Next

\* So it always holds.
LEMMA Invariance == Spec => []IInv
<1>1. Init => IInv
  BY InitIInv
<1>2. IInv /\ [Next]_vars => IInv'
  BY NextIInv
<1> QED BY <1>1, <1>2, PTL DEF Spec

(***************************************************************************)
(* Theorems                                                                *)
(***************************************************************************)

\* Type correctness of clones, commits and processes.
THEOREM GitTypes == Spec => []TypeOK
<1>1. ASSUME IInv PROVE TypeOK
  <2>1. /\ Types /\ DOMAIN saves = 1 .. Len(saves) /\ DOMAIN log = 1 .. Len(log)
        /\ Len(saves) \in Nat
        /\ \A k \in 1 .. Len(log) : /\ log[k].clone \in Clone /\ log[k].marked \in BOOLEAN
                                    /\ log[k].adds \subseteq Halves(Len(saves))
    BY <1>1, Indices DEF IInv
  <2>2. \A h \in Halves(Len(saves)) : h.save \in DOMAIN saves /\ h.part \in {1, 2}
    BY <2>1 DEF Halves
  <2>3. \A c \in Clone : \A h \in dirty[c] : h.save \in DOMAIN saves /\ h.part \in {1, 2}
    BY <2>1, <2>2 DEF Types
  <2>4. \A k \in DOMAIN log :
          /\ log[k].clone \in Clone /\ log[k].marked \in BOOLEAN
          /\ \A h \in log[k].adds : h.save \in DOMAIN saves /\ h.part \in {1, 2}
    BY <2>1, <2>2
  <2>5. {head, tracking, merging} \subseteq [Clone -> SUBSET (DOMAIN log)] /\ origin \subseteq DOMAIN log
    BY <2>1 DEF Types
  <2>6. \A p \in Proc : proc[p].rounds \in 0 .. 2 /\ proc[p].save \in 0 .. Len(saves)
    <3> SUFFICES ASSUME NEW p \in Proc
        PROVE  proc[p].rounds \in 0 .. 2 /\ proc[p].save \in 0 .. Len(saves)
      OBVIOUS
    <3>1. proc[p].rounds \in 0 .. 2 /\ proc[p].save \in Nat /\ proc[p].save <= Len(saves)
      BY <2>1 DEF Types, Process
    <3> QED BY <2>1, <3>1
  <2>7. \A c \in Clone : upset[c] \subseteq {"overlap", "cut", "reset"}
    BY <2>1 DEF Types
  <2> QED BY <2>1, <2>3, <2>4, <2>5, <2>6, <2>7 DEF Types, TypeOK
<1>2. IInv => TypeOK
  BY <1>1
<1> QED BY <1>2, Invariance, PTL

\* What was saved in a clone stays in its working tree or on its branch, however merges,
\* commits, pushes and processes fail, unless operations overlapped in it or the server
\* reset it.
THEOREM SavesAreKept == Spec => []NothingLost
<1>1. ASSUME IInv PROVE NothingLost
  <2> SUFFICES ASSUME NEW s \in DOMAIN saves,
                      upset[saves[s].clone] \cap {"overlap", "reset"} = {}
      PROVE  [save |-> s, part |-> 1] \in dirty[saves[s].clone] \cup Content(head[saves[s].clone])
    BY DEF NothingLost
  <2>1. s \in 1 .. Len(saves) /\ saves[s].clone \in Clone
    BY <1>1, Indices DEF IInv
  <2>2. Kept(saves[s].clone)
    BY <1>1, <2>1 DEF IInv, Local
  <2> QED BY <2>1, <2>2, Present DEF Kept, FirstHalf
<1>2. IInv => NothingLost
  BY <1>1
<1> QED BY <1>2, Invariance, PTL

\* No commit holds half a save or the markers of a conflict, unless an operation of its
\* clone was cut short, overlapped, or reset.
THEOREM WholeCommits == Spec => []CommitsAreWhole
<1>1. ASSUME IInv PROVE CommitsWholeSaves
  <2> SUFFICES ASSUME NEW k \in DOMAIN log, upset[log[k].clone] = {}, NEW h \in log[k].adds
      PROVE  [h EXCEPT !.part = 3 - h.part] \in log[k].adds
    BY DEF CommitsWholeSaves
  <2>1. k \in 1 .. Len(log) /\ log[k].clone \in Clone
    BY <1>1, Indices DEF IInv
  <2>2. Whole(log[k].clone)
    BY <1>1, <2>1 DEF IInv, Local
  <2> QED BY <2>1, <2>2 DEF Whole, Mate
<1>2. ASSUME IInv PROVE NoConflictCommitted
  <2> SUFFICES ASSUME NEW k \in DOMAIN log, log[k].marked,
                      upset[log[k].clone] \cap {"overlap", "cut"} = {}
      PROVE  FALSE
    BY DEF NoConflictCommitted
  <2>1. k \in 1 .. Len(log) /\ log[k].clone \in Clone
    BY <1>2, Indices DEF IInv
  <2>2. Unmarked(log[k].clone)
    BY <1>2, <2>1 DEF IInv, Local
  <2> QED BY <2>1, <2>2 DEF Unmarked
<1>3. IInv => CommitsAreWhole
  BY <1>1, <1>2 DEF CommitsAreWhole
<1> QED BY <1>3, Invariance, PTL
=============================================================================
