------------------------------ MODULE MCGitSync ------------------------------
(***************************************************************************)
(* Finite instances of GitSync: the clones a and b with a daemon each,     *)
(* called like its clone, and commands run in a.                           *)
(***************************************************************************)
EXTENDS GitSync

CONSTANTS a, b, cmd, f, g

MCDir == [p \in Proc |-> IF p = b THEN b ELSE a]

\* Every step there is.
Syncing ==
    [auto_commit |-> TRUE, auto_push |-> FALSE, pull_before_edit |-> TRUE,
     push_after_sync |-> TRUE, merge_master_before_command |-> TRUE]

\* The defaults of auto_commit = true: push with the commit, merge nothing.
Eager ==
    [auto_commit |-> TRUE, auto_push |-> TRUE, pull_before_edit |-> FALSE,
     push_after_sync |-> FALSE, merge_master_before_command |-> FALSE]

\* Pulls into a tree that somebody commits by hand.
ByHand == [Eager EXCEPT !.auto_commit = FALSE, !.auto_push = FALSE, !.pull_before_edit = TRUE]

AnyConfig == {[Syncing EXCEPT !.pull_before_edit = FALSE], Eager, ByHand}
OnlySyncing == {Syncing}
=============================================================================
