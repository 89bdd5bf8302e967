---------------------------- MODULE MCStorageCache ----------------------------
(***************************************************************************)
(* Finite instances of StorageCache: tasks t1 and t2 share process p (two  *)
(* handlers of the server), t3 is alone in process q (the command line).   *)
(* Beside it, the commands of one user; only one of the two moves.         *)
(***************************************************************************)
EXTENDS StorageCache, Commands

CONSTANTS t1, t2, t3, p, q, v1, v2, v3

MCOwner == [t \in Task |-> IF t = t3 THEN q ELSE p]

\* v1 and v2 have one length: only the time stamp tells them apart.
MCLength == [v \in Value |-> IF v = v3 THEN 2 ELSE 1]

\* Contents of a log, each longer than the one before.
MCLogLength == [v \in Value |-> IF v = v1 THEN 1 ELSE IF v = v2 THEN 2 ELSE 3]

(* Commands: two names that look alike, and one that cannot be that of a file *)
MCSanitized == [n \in Name |-> IF n = "/" THEN NoName ELSE n]
MCLower == [n \in Name |-> IF n = "Bank" THEN "bank" ELSE n]
Setting(is_repo, auto_push, disabled) ==
    [auto_commit |-> TRUE, auto_push |-> auto_push, is_repo |-> is_repo,
     KEEPBOOK_DISABLE_AUTO_COMMIT |-> disabled]
MCSettings == {Setting(TRUE, TRUE, FALSE), Setting(TRUE, FALSE, TRUE), Setting(FALSE, TRUE, FALSE)}

MCMaxCommands == [s \in Settings |-> IF s.is_repo /\ s.auto_push THEN 3 ELSE 2]

StorageAtInit == file = Absent /\ clock = 0 /\ used = {NoKey} /\ cache = [s \in Storage |-> {}]
                 /\ \A t \in Task : pc[t] = "idle" /\ seen[t] = {}
CommandsAtInit == commands = 0 /\ settings = Setting(TRUE, TRUE, FALSE)
AllInit == Init /\ CommandsInit /\ (CommandsAtInit \/ StorageAtInit)
AllFresh ==
    \/ CommandsAtInit /\ Next /\ FreshKey /\ UNCHANGED commandVars
    \/ StorageAtInit /\ CommandsNext /\ UNCHANGED vars
AllSpecFresh == AllInit /\ [][AllFresh]_<<vars, commandVars>>

(* Types of both. *)
AllTypeOK == TypeOK /\ CommandsTypeOK
=============================================================================
