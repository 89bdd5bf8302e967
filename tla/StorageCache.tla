----------------------------- MODULE StorageCache -----------------------------
(***************************************************************************)
(* The read cache of JsonFileStorage (src/storage/json_file.rs), for one   *)
(* file of the data directory.  Every cached reader has the same shape:    *)
(* stat the file, compare the cached key with the stat, else read the file *)
(* and insert what was read UNDER THE KEY OF THE EARLIER STAT.  The lock   *)
(* is held for the lookup and for the insertion, not in between.  Writers  *)
(* of the same process clear the whole cache after the file has changed;   *)
(* the other processes on the directory (command line, daemon, server,     *)
(* git, an editor) do not.                                                 *)
(***************************************************************************)
EXTENDS Naturals

CONSTANTS
    Task,       \* tasks that read or write the file
    Storage,    \* JsonFileStorage instances: one per process, clones share it
    Owner,      \* Owner[t]: the instance task t works through
    Value,      \* contents of a well-formed, non-empty file
    Length,     \* Length[v]: length in bytes of content v
    Absent,     \* the file does not exist
    Empty,      \* the file exists with no content: a rewrite truncates first
    EmptyParses,\* a truncated JSONL file reads as no items; truncated JSON fails
    NoResult,   \* no value returned
    NoKey,      \* the key of a missing file (FsCacheKey: None)
    MaxTime     \* bound on the clock that stamps modifications

Content == Value \cup {Absent, Empty}

ASSUME StorageCacheAssumption ==
    /\ Owner \in [Task -> Storage]
    /\ Length \in [Value -> Nat \ {0}]
    /\ Absent \notin Value \cup {Empty, NoResult}
    /\ Empty \notin Value \cup {NoResult}
    /\ NoResult \notin Value
    /\ NoKey \notin [len : Nat, modified : Nat]
    /\ EmptyParses \in BOOLEAN
    /\ MaxTime \in Nat

VARIABLES
    file,       \* content of the file
    modified,   \* modification time of the file
    clock,      \* time, at the resolution of the file system's time stamps
    cache,      \* cache[s]: instance s's entry for the file, {} when it has none
    pc,         \* what task t does next
    key,        \* the key task t took when it started to read
    value,      \* what task t read from the file
    seen,       \* history: what the file held since t's read began
    result,     \* what t's last read returned
    used        \* history: the keys the file has had

disk == <<file, modified>>
vars == <<file, modified, clock, cache, pc, key, value, seen, result, used>>

LengthOf(v) == IF v \in Value THEN Length[v] ELSE 0

\* fs_cache_key: None for a missing file, else its length and time.
KeyOf(v, time) ==
    IF v = Absent THEN NoKey ELSE [len |-> LengthOf(v), modified |-> time]

fs_cache_key == KeyOf(file, modified)

\* A task's local variables go out of scope.
Return(t) ==
    /\ pc' = [pc EXCEPT ![t] = "idle"]
    /\ key' = [key EXCEPT ![t] = NoKey]
    /\ value' = [value EXCEPT ![t] = Absent]

Reading == {"lookup", "read", "insert"}

Init ==
    /\ file \in Content \ {Empty}
    /\ modified = 0
    /\ clock = 0
    /\ cache = [s \in Storage |-> {}]
    /\ pc = [t \in Task |-> "idle"]
    /\ key = [t \in Task |-> NoKey]
    /\ value = [t \in Task |-> Absent]
    /\ seen = [t \in Task |-> {}]
    /\ result = [t \in Task |-> NoResult]
    /\ used = {fs_cache_key}

-----------------------------------------------------------------------------
(* Readers *)

\* The first step of list_dirs, load_connection, get_account, ...: stat.
Stat(t) ==
    /\ pc[t] = "idle"
    /\ pc' = [pc EXCEPT ![t] = "lookup"]
    /\ key' = [key EXCEPT ![t] = fs_cache_key]
    /\ seen' = [seen EXCEPT ![t] = {file}]
    /\ result' = [result EXCEPT ![t] = NoResult]
    /\ UNCHANGED <<disk, clock, cache, value, used>>

\* Mutant: the entry is returned without comparing its key.
Hit_AnyKey(t) ==
    /\ pc[t] = "lookup"
    /\ \E e \in cache[Owner[t]] : result' = [result EXCEPT ![t] = e.value]
    /\ Return(t)
    /\ UNCHANGED <<disk, clock, cache, seen, used>>

Hit(t) ==
    /\ pc[t] = "lookup"
    /\ \E e \in cache[Owner[t]] :
           /\ e.key = key[t]
           /\ result' = [result EXCEPT ![t] = e.value]
    /\ Return(t)
    /\ UNCHANGED <<disk, clock, cache, seen, used>>

Miss(t) ==
    /\ pc[t] = "lookup"
    /\ \A e \in cache[Owner[t]] : e.key # key[t]
    /\ pc' = [pc EXCEPT ![t] = "read"]
    /\ UNCHANGED <<disk, clock, cache, key, value, seen, result, used>>

\* Mutant: a missing file is no value, and is inserted all the same.
ReadFile_MissingIsNothing(t) ==
    /\ pc[t] = "read"
    /\ file = Empty => EmptyParses
    /\ pc' = [pc EXCEPT ![t] = "insert"]
    /\ value' = [value EXCEPT ![t] = IF file = Absent THEN NoResult ELSE file]
    /\ UNCHANGED <<disk, clock, cache, key, seen, result, used>>

\* read_json and read_jsonl: a missing file is a value, a file that does not
\* parse is an error and nothing is cached.
ReadFile(t) ==
    /\ pc[t] = "read"
    /\ file = Empty => EmptyParses
    /\ pc' = [pc EXCEPT ![t] = "insert"]
    /\ value' = [value EXCEPT ![t] = file]
    /\ UNCHANGED <<disk, clock, cache, key, seen, result, used>>

ReadFails(t) ==
    /\ pc[t] = "read"
    /\ file = Empty
    /\ ~EmptyParses
    /\ Return(t)
    /\ UNCHANGED <<disk, clock, cache, seen, result, used>>

\* Mutant: the entry is labelled with a stat taken after the read.
Insert_LateStat(t) ==
    /\ pc[t] = "insert"
    /\ cache' = [cache EXCEPT ![Owner[t]] = {[key |-> fs_cache_key, value |-> value[t]]}]
    /\ Return(t)
    /\ result' = [result EXCEPT ![t] = value[t]]
    /\ UNCHANGED <<disk, clock, seen, used>>

Insert(t) ==
    /\ pc[t] = "insert"
    /\ cache' = [cache EXCEPT ![Owner[t]] = {[key |-> key[t], value |-> value[t]]}]
    /\ Return(t)
    /\ result' = [result EXCEPT ![t] = value[t]]
    /\ UNCHANGED <<disk, clock, seen, used>>

-----------------------------------------------------------------------------
(* Writers *)

\* The file comes to hold v.
ChangeTo(v) ==
    /\ file' = v
    /\ modified' = clock
    /\ used' = used \cup {KeyOf(v, clock)}
    /\ seen' = [t \in Task |->
                  IF pc[t] \in Reading THEN seen[t] \cup {v} ELSE seen[t]]

\* write_json, write_jsonl: fs::write truncates the file, then fills it.
Truncate(t) ==
    /\ pc[t] = "idle"
    /\ ChangeTo(Empty)
    /\ pc' = [pc EXCEPT ![t] = "fill"]
    /\ UNCHANGED <<clock, cache, key, value, result>>

Fill(t, v) ==
    /\ pc[t] = "fill"
    /\ ChangeTo(v)
    /\ pc' = [pc EXCEPT ![t] = "clear"]
    /\ UNCHANGED <<clock, cache, key, value, result>>

\* The write fails half-way: the error returns before clear_cache.
FillFails(t) ==
    /\ pc[t] = "fill"
    /\ pc' = [pc EXCEPT ![t] = "idle"]
    /\ UNCHANGED <<disk, clock, cache, key, value, seen, result, used>>

\* append_jsonl: one line at a time, each makes the file longer.
AppendLines(t, v) ==
    /\ pc[t] \in {"idle", "clear"}
    /\ LengthOf(v) > LengthOf(file)
    /\ ChangeTo(v)
    /\ pc' = [pc EXCEPT ![t] = "clear"]
    /\ UNCHANGED <<clock, cache, key, value, result>>

\* delete_account, delete_connection: remove_dir_all.
Delete(t) ==
    /\ pc[t] = "idle"
    /\ file # Absent
    /\ ChangeTo(Absent)
    /\ pc' = [pc EXCEPT ![t] = "clear"]
    /\ UNCHANGED <<clock, cache, key, value, result>>

\* The last step of every write of JsonFileStorage.
clear_cache(t) ==
    /\ pc[t] = "clear"
    /\ cache' = [cache EXCEPT ![Owner[t]] = {}]
    /\ pc' = [pc EXCEPT ![t] = "idle"]
    /\ UNCHANGED <<disk, clock, key, value, seen, result, used>>

-----------------------------------------------------------------------------
(* The environment *)

\* A process restarts, or the server reloads its state with a new instance.
Restart(s) ==
    /\ cache' = [cache EXCEPT ![s] = {}]
    /\ pc' = [t \in Task |-> IF Owner[t] = s THEN "idle" ELSE pc[t]]
    /\ key' = [t \in Task |-> IF Owner[t] = s THEN NoKey ELSE key[t]]
    /\ value' = [t \in Task |-> IF Owner[t] = s THEN Absent ELSE value[t]]
    /\ UNCHANGED <<disk, clock, seen, result, used>>

Tick ==
    /\ clock < MaxTime
    /\ clock' = clock + 1
    /\ UNCHANGED <<disk, cache, pc, key, value, seen, result, used>>

Read(t) == Stat(t) \/ Hit(t) \/ Miss(t) \/ ReadFile(t) \/ ReadFails(t) \/ Insert(t)

Write(t) ==
    \/ Truncate(t)
    \/ \E v \in Value : Fill(t, v) \/ AppendLines(t, v)
    \/ FillFails(t)
    \/ Delete(t)
    \/ clear_cache(t)

Next ==
    \/ \E t \in Task : Read(t) \/ Write(t)
    \/ \E s \in Storage : Restart(s)
    \/ Tick

\* The environment assumption of the cache's design: a change of the file
\* leaves it with a key it never had before.
FreshKey == disk' # disk => KeyOf(file', modified') \notin used

\* The discipline of the append-only logs: the file only ever grows.
OnlyGrows ==
    disk' # disk => LengthOf(file') > LengthOf(file)

Spec == Init /\ [][Next]_vars
SpecFresh == Init /\ [][Next /\ FreshKey]_vars
SpecAppendOnly == Init /\ [][Next /\ OnlyGrows]_vars

-----------------------------------------------------------------------------
(* Properties *)

Keys == [len : Nat, modified : Nat] \cup {NoKey}
Entries == [key : Keys, value : Content]

\* Type correctness of the cache, the tasks' local state and the history.
TypeOK ==
    /\ file \in Content
    /\ modified \in Nat
    /\ clock \in Nat
    /\ cache \in [Storage -> SUBSET Entries]
    /\ pc \in [Task -> Reading \cup {"idle", "fill", "clear"}]
    /\ key \in [Task -> Keys]
    /\ value \in [Task -> Content]
    /\ seen \in [Task -> SUBSET Content]
    /\ result \in [Task -> Content \cup {NoResult}]
    /\ used \in SUBSET Keys

\* An entry whose key is the file's present key holds the file's present
\* content, whichever instance holds it and whoever wrote the file: the
\* insertion under the key of an EARLIER stat never labels a newer content
\* with the present key.
CoherentEntry ==
    \A s \in Storage : \A e \in cache[s] : e.key = fs_cache_key => e.value = file

\* What a read returns is something the file held while the read was under way,
\* not what it held before (no stale hit).
FreshResult == \A t \in Task : result[t] # NoResult => result[t] \in seen[t]

Abstract == INSTANCE FreshRead WITH
    reading <- {t \in Task : pc[t] \in Reading}

\* The cached readers implement the read that goes to the file every time.
RefinesFreshRead == Abstract!Spec
=============================================================================
