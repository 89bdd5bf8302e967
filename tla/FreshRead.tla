------------------------------- MODULE FreshRead -------------------------------
(***************************************************************************)
(* What a reader of one file of the data directory is promised: the value  *)
(* a read returns is one the file held at some moment between the start    *)
(* and the end of that read.  Nothing is said of how the value is found.   *)
(***************************************************************************)
EXTENDS Naturals

CONSTANTS Task,      \* concurrent readers and writers
          Content,   \* what the file can hold, a missing file included
          NoResult   \* no read has returned yet, or the last one failed

VARIABLES file,      \* what the file holds
          reading,   \* the tasks that have a read under way
          seen,      \* seen[t]: what the file has held since t's read began
          result     \* result[t]: what t's last read returned

vars == <<file, reading, seen, result>>

Init ==
    /\ file \in Content
    /\ reading = {}
    /\ seen = [t \in Task |-> {}]
    /\ result = [t \in Task |-> NoResult]

Change(v) ==
    /\ file' = v
    /\ seen' = [t \in Task |-> IF t \in reading THEN seen[t] \cup {v} ELSE seen[t]]
    /\ UNCHANGED <<reading, result>>

Begin(t) ==
    /\ t \notin reading
    /\ reading' = reading \cup {t}
    /\ seen' = [seen EXCEPT ![t] = {file}]
    /\ result' = [result EXCEPT ![t] = NoResult]
    /\ UNCHANGED file

Return(t, v) ==
    /\ t \in reading
    /\ v \in seen[t]
    /\ reading' = reading \ {t}
    /\ result' = [result EXCEPT ![t] = v]
    /\ UNCHANGED <<file, seen>>

\* A read may fail, or its process may stop; it then returns nothing.
Fail(T) ==
    /\ reading' = reading \ T
    /\ UNCHANGED <<file, seen, result>>

Next ==
    \/ \E v \in Content : Change(v)
    \/ \E t \in Task : Begin(t) \/ \E v \in Content : Return(t, v)
    \/ \E T \in SUBSET Task : Fail(T)

Spec == Init /\ [][Next]_vars
=============================================================================
