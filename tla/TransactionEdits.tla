--------------------------- MODULE TransactionEdits ---------------------------
(***************************************************************************)
(* The annotations of one transaction and the proposed edits of them       *)
(* (app/mutations.rs, storage/json_file.rs).  Both are append-only logs:   *)
(* the annotation is what the patches come to when they are applied in the *)
(* order of the file, the state of a proposal is its newest event.  A      *)
(* decision is read-check-append on two files with nothing locked, and     *)
(* `keepbook sync recompact` reads the annotation log, folds it in the     *)
(* order of its TIME STAMPS and writes the result over the file.           *)
(***************************************************************************)
EXTENDS Naturals, Sequences, FiniteSets

CONSTANTS
    Proc,       \* processes: command line, server, agents
    Edit,       \* proposal ids
    PatchOf,    \* PatchOf[e]: the fields proposal e sets or clears
    Patch,      \* patches: functions from some fields to a value or None
    Field,      \* description, note, category, ...
    Value,
    None,       \* the field is empty; in a patch: cleared
    MaxTime,    \* bound on the clock
    MaxDirect,  \* bound on annotations set directly
    MaxCompact, \* bound on recompactions
    MaxCrash    \* bound on operations that fail or die half-way

ASSUME TransactionEditsAssumption ==
    /\ None \notin Value
    /\ Patch \subseteq UNION {[S -> Value \cup {None}] : S \in (SUBSET Field) \ {{}}}
    /\ PatchOf \in [Edit -> Patch]
    /\ {MaxTime, MaxDirect, MaxCompact, MaxCrash} \subseteq Nat

VARIABLES
    patches,    \* transaction_annotations.jsonl: [stamp, patch]
    proposals,  \* proposed_transaction_edits.jsonl: [edit, status, updated_at]
    clock,
    pc,
    job,        \* job[p]: what p holds: a decision, an annotation or a copy of the log
    directs, compacts, crashes,
    intent,     \* history: every patch ever appended, applied in that order
    applied,    \* history: proposals whose patch has been appended
    disturbed   \* history: an operation began while another was under way, or was
                \* cut short when half of what it writes was written

vars == <<patches, proposals, clock, pc, job, directs, compacts, crashes, intent, applied,
          disturbed>>

Pending == "pending"
Decision == {"approved", "rejected", "removed"}

Init ==
    /\ patches = <<>>
    /\ proposals = <<>>
    /\ clock = 0
    /\ pc = [p \in Proc |-> "idle"]
    /\ job = [p \in Proc |-> <<>>]
    /\ directs = 0 /\ compacts = 0 /\ crashes = 0
    /\ intent = [f \in Field |-> None]
    /\ applied = {}
    /\ disturbed = FALSE

\* Process p, which is idle, begins an operation of several steps.
Begin(p) ==
    /\ pc[p] = "idle"
    /\ disturbed' = (disturbed \/ \E q \in Proc : pc[q] # "idle")

End(p) ==
    /\ pc' = [pc EXCEPT ![p] = "idle"]
    /\ job' = [job EXCEPT ![p] = <<>>]

-----------------------------------------------------------------------------
(* Annotations *)

apply_to(patch, ann) ==
    [f \in Field |-> IF f \in DOMAIN patch THEN patch[f] ELSE ann[f]]

\* Field f as the patches at places I of the log leave it, when they are applied
\* in the given order.
LastSet(log, f, Before(_, _)) ==
    LET I == {i \in DOMAIN log : f \in DOMAIN log[i].patch} IN
    IF I = {} THEN None
    ELSE LET k == CHOOSE i \in I : \A j \in I \ {i} : Before(j, i) IN log[k].patch[f]

\* get_transaction_annotation_patches and apply_to: in the order of the file.
Annotation(log) ==
    [f \in Field |-> LastSet(log, f, LAMBDA i, j : i < j)]

\* Mutant: a field that was cleared last is not looked at any more.
ByStamp_IgnoreClears(log) ==
    [f \in Field |->
        LET kept == SelectSeq(log, LAMBDA e : f \in DOMAIN e.patch /\ e.patch[f] # None)
        IN  LastSet(kept, f, LAMBDA i, j : i < j)]

\* The stable sort by time stamp of compact_transaction_annotation_patches.
ByStamp(log) ==
    [f \in Field |-> LastSet(log, f, LAMBDA i, j :
        log[i].stamp < log[j].stamp \/ (log[i].stamp = log[j].stamp /\ i < j))]

\* One patch with the fields that are set, under the newest stamp; nothing when
\* the annotation is empty.
compact_transaction_annotation_patches(log) ==
    LET ann == ByStamp(log)
        set == {f \in Field : ann[f] # None}
        newest == CHOOSE s \in {log[i].stamp : i \in DOMAIN log} :
                      \A i \in DOMAIN log : log[i].stamp <= s
    IN  IF set = {} THEN <<>>
        ELSE <<[stamp |-> newest, patch |-> [f \in set |-> ann[f]]]>>

AppendPatch(stamp, patch) ==
    /\ patches' = Append(patches, [stamp |-> stamp, patch |-> patch])
    /\ intent' = apply_to(patch, intent)

\* The patch is stamped, then appended.
set_transaction_annotation(p, patch) ==
    /\ Begin(p)
    /\ directs < MaxDirect
    /\ directs' = directs + 1
    /\ pc' = [pc EXCEPT ![p] = "annotate"]
    /\ job' = [job EXCEPT ![p] = [stamp |-> clock, patch |-> patch]]
    /\ UNCHANGED <<patches, proposals, clock, compacts, crashes, intent, applied>>

\* Mutant: the patch is not dropped once it is appended.
AppendAnnotation_Kept(p) ==
    /\ pc[p] = "annotate"
    /\ AppendPatch(job[p].stamp, job[p].patch)
    /\ pc' = [pc EXCEPT ![p] = "idle"]
    /\ UNCHANGED <<proposals, clock, job, directs, compacts, crashes, applied, disturbed>>

AppendAnnotation(p) ==
    /\ pc[p] = "annotate"
    /\ AppendPatch(job[p].stamp, job[p].patch)
    /\ End(p)
    /\ UNCHANGED <<proposals, clock, directs, compacts, crashes, applied, disturbed>>

\* recompact_all_jsonl: the log is read; it is truncated; it is written.
recompact_all_jsonl(p) ==
    /\ Begin(p)
    /\ patches # <<>>
    /\ compacts < MaxCompact
    /\ compacts' = compacts + 1
    /\ pc' = [pc EXCEPT ![p] = "compact"]
    /\ job' = [job EXCEPT ![p] = compact_transaction_annotation_patches(patches)]
    /\ UNCHANGED <<patches, proposals, clock, directs, crashes, intent, applied>>

Truncate(p) ==
    /\ pc[p] = "compact"
    /\ patches' = <<>>
    /\ pc' = [pc EXCEPT ![p] = "fill"]
    /\ UNCHANGED <<proposals, clock, job, directs, compacts, crashes, intent, applied, disturbed>>

\* What others appended since the truncation is overwritten.
Fill(p) ==
    /\ pc[p] = "fill"
    /\ patches' = job[p]
    /\ End(p)
    /\ UNCHANGED <<proposals, clock, directs, compacts, crashes, intent, applied, disturbed>>

-----------------------------------------------------------------------------
(* Proposed edits *)

NoEvent == [edit |-> None, status |-> "none", updated_at |-> 0]

\* get_proposed_transaction_edits: the event with the newest time, the later one
\* of the file when two have the same.
Current(e) ==
    LET I == {i \in DOMAIN proposals : proposals[i].edit = e} IN
    IF I = {} THEN NoEvent
    ELSE proposals[CHOOSE i \in I : \A j \in I \ {i} :
            \/ proposals[j].updated_at < proposals[i].updated_at
            \/ proposals[j].updated_at = proposals[i].updated_at /\ j < i]

propose_transaction_edit(p, e) ==
    /\ pc[p] = "idle"
    /\ Current(e) = NoEvent
    /\ proposals' = Append(proposals,
                           [edit |-> e, status |-> Pending, updated_at |-> clock])
    /\ UNCHANGED <<patches, clock, pc, job, directs, compacts, crashes, intent, applied, disturbed>>

\* Mutant: the status of the proposal is not checked.
decide_Unchecked(p, e, decision) ==
    /\ Begin(p)
    /\ Current(e) # NoEvent
    /\ pc' = [pc EXCEPT ![p] = IF decision = "approved" THEN "apply" ELSE "decide"]
    /\ job' = [job EXCEPT ![p] =
                  [edit |-> e, status |-> decision, updated_at |-> clock]]
    /\ UNCHANGED <<patches, proposals, clock, directs, compacts, crashes, intent, applied>>

\* Mutant: the decision is recorded and the patch forgotten.
decide_NoPatch(p, e, decision) ==
    /\ Begin(p)
    /\ Current(e).status = Pending
    /\ pc' = [pc EXCEPT ![p] = "decide"]
    /\ job' = [job EXCEPT ![p] =
                  [edit |-> e, status |-> decision, updated_at |-> clock]]
    /\ UNCHANGED <<patches, proposals, clock, directs, compacts, crashes, intent, applied>>

\* decide_proposed_transaction_edit: the proposal is read and must be pending;
\* the time is taken.
decide_proposed_transaction_edit(p, e, decision) ==
    /\ Begin(p)
    /\ Current(e).status = Pending
    /\ pc' = [pc EXCEPT ![p] = IF decision = "approved" THEN "apply" ELSE "decide"]
    /\ job' = [job EXCEPT ![p] =
                  [edit |-> e, status |-> decision, updated_at |-> clock]]
    /\ UNCHANGED <<patches, proposals, clock, directs, compacts, crashes, intent, applied>>

\* to_annotation_patch, under the time of the decision.
ApplyPatch(p) ==
    /\ pc[p] = "apply"
    /\ AppendPatch(job[p].updated_at, PatchOf[job[p].edit])
    /\ applied' = applied \cup {job[p].edit}
    /\ pc' = [pc EXCEPT ![p] = "decide"]
    /\ UNCHANGED <<proposals, clock, job, directs, compacts, crashes, disturbed>>

AppendDecision(p) ==
    /\ pc[p] = "decide"
    /\ proposals' = Append(proposals, job[p])
    /\ End(p)
    /\ UNCHANGED <<patches, clock, directs, compacts, crashes, intent, applied, disturbed>>

-----------------------------------------------------------------------------

Tick ==
    /\ clock < MaxTime
    /\ clock' = clock + 1
    /\ UNCHANGED <<patches, proposals, pc, job, directs, compacts, crashes, intent, applied, disturbed>>

\* An append or a write fails and its error returns, or the process dies.
Crash(p) ==
    /\ pc[p] # "idle"
    /\ crashes < MaxCrash
    /\ crashes' = crashes + 1
    /\ disturbed' = (disturbed \/ pc[p] = "fill"
                               \/ (pc[p] = "decide" /\ job[p].status = "approved"))
    /\ End(p)
    /\ UNCHANGED <<patches, proposals, clock, directs, compacts, intent, applied>>

Step(p) ==
    \/ \E patch \in Patch : set_transaction_annotation(p, patch)
    \/ AppendAnnotation(p)
    \/ recompact_all_jsonl(p) \/ Truncate(p) \/ Fill(p)
    \/ \E e \in Edit :
          \/ propose_transaction_edit(p, e)
          \/ \E decision \in Decision : decide_proposed_transaction_edit(p, e, decision)
    \/ ApplyPatch(p)
    \/ AppendDecision(p)

Next == Tick \/ \E p \in Proc : Step(p) \/ Crash(p)

Spec == Init /\ [][Next]_vars

\* An operation that has begun goes on; nobody has to begin one.
FairSpec ==
    Spec /\ \A p \in Proc :
        WF_vars(AppendAnnotation(p) \/ Truncate(p) \/ Fill(p) \/ ApplyPatch(p) \/ AppendDecision(p))

-----------------------------------------------------------------------------
(* Properties *)

Patches == UNION {[S -> Value \cup {None}] : S \in SUBSET Field}
Events == [edit : Edit, status : {Pending} \cup Decision, updated_at : 0..MaxTime]
Entries == [stamp : 0..MaxTime, patch : Patches]

\* Types of the two logs and of what the processes hold.
TypeOK ==
    /\ \A i \in DOMAIN patches : patches[i] \in Entries
    /\ \A i \in DOMAIN proposals : proposals[i] \in Events
    /\ clock \in 0..MaxTime
    /\ \A p \in Proc :
          \/ pc[p] = "idle" /\ job[p] = <<>>
          \/ pc[p] = "annotate" /\ job[p] \in Entries
          \/ pc[p] \in {"apply", "decide"} /\ job[p] \in Events
          \/ pc[p] \in {"compact", "fill"} /\ \A i \in DOMAIN job[p] : job[p][i] \in Entries
    /\ directs \in 0..MaxDirect /\ compacts \in 0..MaxCompact /\ crashes \in 0..MaxCrash
    /\ intent \in [Field -> Value \cup {None}]
    /\ applied \in SUBSET Edit
    /\ disturbed \in BOOLEAN

\* The annotation is what all the edits ever made come to, whatever has been
\* compacted; only while the file is being rewritten it is not.
EditsKept ==
    (\A p \in Proc : pc[p] # "fill") => Annotation(patches) = intent

EditsKeptUndisturbed == ~disturbed => EditsKept

\* A decision is final: a proposal that was approved, rejected or removed stays
\* so ("Proposed transaction edit is already decided"), as long as no two
\* operations overlap.  Two deciders that both read it pending both succeed.
DecidedOnceUndisturbed ==
    [][~disturbed => \A e \in Edit : Current(e).status \in Decision
          => Current(e)'.status = Current(e).status]_vars

\* An approved proposal has been applied, wherever deciding it was cut short and
\* whoever else was deciding.
ApprovedIsApplied ==
    \A e \in Edit : Current(e).status = "approved" => e \in applied

\* With nobody at work, the proposals that were applied are the approved ones, as
\* long as no decision overlapped another or was cut short behind its patch.
OnlyApprovedApplied ==
    ~disturbed /\ (\A p \in Proc : pc[p] = "idle") =>
        \A e \in applied : Current(e).status = "approved"

\* What is applied and what is approved are the same.
AppliedAsDecided == ApprovedIsApplied /\ OnlyApprovedApplied
=============================================================================
