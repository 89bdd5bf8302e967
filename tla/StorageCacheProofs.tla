-------------------------- MODULE StorageCacheProofs --------------------------
(***************************************************************************)
(* For any number of processes, tasks and contents: as long as a change of *)
(* the file gives it a key it never had, the cache of JsonFileStorage is   *)
(* coherent and a read through it is as fresh as a read of the file.  The  *)
(* append-only logs meet that condition whatever the clock does.           *)
(*                                                                         *)
(* For any connections, accounts and names, any settings and any number of *)
(* commands and failures: a command that ends without an error leaves the  *)
(* directory committed, pushed and with its links in order.                *)
(***************************************************************************)
EXTENDS StorageCache, Commands, WellFoundedInduction, SequenceTheorems, FiniteSetTheorems, TLAPS

\* The inductive strengthening of CoherentEntry: a value on its way into a cache
\* obeys it too, and a reader that may still hit an entry under its key has seen
\* that entry's value.
Labelled ==
    /\ fs_cache_key \in used
    /\ \A s \in Storage : \A e \in cache[s] : e.key \in used
    /\ \A t \in Task : pc[t] \in Reading => key[t] \in used

Seen ==
    /\ \A t \in Task : pc[t] \in Reading => file \in seen[t]
    /\ \A t \in Task : pc[t] = "insert" => value[t] \in seen[t]
    /\ \A t \in Task : pc[t] = "insert" /\ key[t] = fs_cache_key => value[t] = file
    /\ \A t, u \in Task :
          (pc[t] = "lookup" /\ pc[u] = "insert" /\ key[u] = key[t]) => value[u] \in seen[t]
    /\ \A t \in Task, s \in Storage : pc[t] = "lookup" =>
          \A e \in cache[s] : e.key = key[t] => e.value \in seen[t]

IInv == TypeOK /\ Labelled /\ CoherentEntry /\ Seen /\ FreshResult

-----------------------------------------------------------------------------

\* A key is the key of a missing file or a length and a time.
LEMMA KeyType == ASSUME NEW v \in Content, NEW m \in Nat PROVE KeyOf(v, m) \in Keys
  BY StorageCacheAssumption DEF KeyOf, LengthOf, Keys, Content

\* The caches start empty and nobody reads.
LEMMA InitIInv == Init => IInv
  <1> SUFFICES ASSUME Init PROVE IInv
    OBVIOUS
  <1>1. fs_cache_key \in Keys
    BY KeyType, StorageCacheAssumption DEF Init, fs_cache_key
  <1>2. TypeOK
    BY <1>1, StorageCacheAssumption DEF Init, TypeOK, Content, Keys
  <1> QED
    BY <1>2 DEF Init, IInv, Labelled, Seen, Reading, CoherentEntry, FreshResult

\* A change of the file keeps every part of the invariant but the types of the
\* variables ChangeTo leaves to its caller.
LEMMA ChangeKeeps ==
  ASSUME IInv, FreshKey, NEW t \in Task, NEW v \in Content, ChangeTo(v),
         NEW st \in {"idle", "fill", "clear"},
         pc[t] \notin Reading,
         pc' = [pc EXCEPT ![t] = st],
         UNCHANGED <<clock, cache, key, value, result>>
  PROVE  IInv'
  <1> USE DEF IInv
  <1>1. KeyOf(v, clock) \in Keys
    BY KeyType DEF TypeOK
  <1>2. TypeOK'
    BY <1>1 DEF TypeOK, ChangeTo, Reading
  <1>3. /\ fs_cache_key' = KeyOf(v, clock)
        /\ file' = v
        /\ \A u \in Task : pc'[u] \in Reading => pc[u] = pc'[u] /\ pc[u] \in Reading
        /\ \A u \in Task : seen[u] \subseteq seen'[u]
        /\ \A u \in Task : pc[u] \in Reading => seen'[u] = seen[u] \cup {v}
    BY DEF ChangeTo, fs_cache_key, TypeOK, Reading
  <1>4. \A k \in used : k = fs_cache_key' => k = fs_cache_key /\ file' = file
    <2>1. CASE disk' = disk
      BY <2>1 DEF disk, fs_cache_key
    <2>2. CASE disk' # disk
      BY <2>2 DEF FreshKey, fs_cache_key
    <2> QED
      BY <2>1, <2>2
  <1>5. Labelled'
    BY <1>3 DEF Labelled, ChangeTo
  <1>6. CoherentEntry'
    BY <1>4 DEF CoherentEntry, Labelled
  <1>7. Seen'
    <2>1. \A u \in Task : pc'[u] \in Reading => file' \in seen'[u]
      BY <1>3
    <2>2. \A u \in Task : pc'[u] = "insert" => value'[u] \in seen'[u]
      BY <1>3 DEF Seen, Reading
    <2>3. \A u \in Task :
             pc'[u] = "insert" /\ key'[u] = fs_cache_key' => value'[u] = file'
      BY <1>3, <1>4 DEF Seen, Labelled, Reading
    <2>4. \A u, w \in Task :
             (pc'[u] = "lookup" /\ pc'[w] = "insert" /\ key'[w] = key'[u])
               => value'[w] \in seen'[u]
      BY <1>3 DEF Seen, Reading
    <2>5. \A u \in Task, s \in Storage : pc'[u] = "lookup" =>
             \A e \in cache'[s] : e.key = key'[u] => e.value \in seen'[u]
      BY <1>3 DEF Seen, Reading
    <2> QED
      BY <2>1, <2>2, <2>3, <2>4, <2>5 DEF Seen
  <1>8. FreshResult'
    BY <1>3 DEF FreshResult
  <1> QED
    BY <1>2, <1>5, <1>6, <1>7, <1>8

\* The tasks in T stop reading; nothing else of the readers' state changes.
LEMMA StopKeeps ==
  ASSUME IInv, NEW T \in SUBSET Task,
         pc' = [t \in Task |-> IF t \in T THEN "idle" ELSE pc[t]],
         \A t \in Task \ T : key'[t] = key[t] /\ value'[t] = value[t],
         \A s \in Storage : cache'[s] \subseteq cache[s],
         TypeOK',
         UNCHANGED <<disk, seen, result, used>>
  PROVE  IInv'
  <1> USE DEF IInv
  <1>1. \A t \in Task : pc'[t] # "idle" => t \notin T /\ pc'[t] = pc[t]
    OBVIOUS
  <1>2. fs_cache_key' = fs_cache_key /\ file' = file
    BY DEF fs_cache_key, disk
  <1>3. Labelled'
    BY <1>1, <1>2 DEF Labelled, Reading
  <1>4. CoherentEntry'
    BY <1>2 DEF CoherentEntry
  <1>5. Seen'
    BY <1>1, <1>2 DEF Seen, Reading
  <1>6. FreshResult'
    BY DEF FreshResult
  <1> QED
    BY <1>3, <1>4, <1>5, <1>6

\* Every step keeps the invariant, when a changed file has a key it never had.
LEMMA StepIInv == IInv /\ [Next /\ FreshKey]_vars => IInv'
  <1> SUFFICES ASSUME IInv, [Next /\ FreshKey]_vars PROVE IInv'
    OBVIOUS
  <1> USE StorageCacheAssumption
  <1>s. ASSUME NEW t \in Task, Stat(t) PROVE IInv'
    <2>1. /\ fs_cache_key' = fs_cache_key /\ file' = file
          /\ fs_cache_key \in Keys
          /\ key'[t] = fs_cache_key /\ seen'[t] = {file}
          /\ pc'[t] = "lookup" /\ result'[t] = NoResult
          /\ \A u \in Task \ {t} : /\ key'[u] = key[u] /\ seen'[u] = seen[u]
                                   /\ pc'[u] = pc[u] /\ result'[u] = result[u]
      BY <1>s, KeyType DEF Stat, fs_cache_key, disk, IInv, TypeOK
    <2>2. TypeOK'
      BY <1>s, <2>1 DEF IInv, TypeOK, Stat, disk, Reading
    <2>3. Labelled' /\ CoherentEntry' /\ FreshResult'
      BY <1>s, <2>1 DEF IInv, Labelled, CoherentEntry, FreshResult, Stat
    <2>4. Seen'
      BY <1>s, <2>1 DEF IInv, Seen, CoherentEntry, Stat, Reading
    <2> QED
      BY <2>2, <2>3, <2>4 DEF IInv
  <1>h. ASSUME NEW t \in Task, Hit(t) PROVE IInv'
    <2>1. PICK e \in cache[Owner[t]] :
              e.key = key[t] /\ result' = [result EXCEPT ![t] = e.value]
      BY <1>h DEF Hit
    <2>2. e \in Entries /\ e.value \in seen[t]
      BY <1>h, <2>1 DEF Hit, IInv, TypeOK, Seen
    <2>3. TypeOK'
      BY <1>h, <2>1, <2>2 DEF IInv, TypeOK, Hit, Return, disk, Entries, Keys, Content
    <2>4. Labelled' /\ CoherentEntry' /\ Seen'
      BY <1>h DEF IInv, TypeOK, Labelled, CoherentEntry, Seen, Hit, Return, Reading,
                  disk, fs_cache_key
    <2>5. FreshResult'
      BY <1>h, <2>1, <2>2 DEF IInv, TypeOK, FreshResult, Hit
    <2> QED
      BY <2>3, <2>4, <2>5 DEF IInv
  <1>m. ASSUME NEW t \in Task, Miss(t) PROVE IInv'
    BY <1>m DEF IInv, TypeOK, Labelled, CoherentEntry, Seen, FreshResult, Miss, Reading,
                disk, fs_cache_key
  <1>r. ASSUME NEW t \in Task, ReadFile(t) PROVE IInv'
    <2>1. TypeOK'
      BY <1>r DEF IInv, TypeOK, ReadFile, disk, Reading
    <2>2. Labelled' /\ CoherentEntry' /\ FreshResult'
      BY <1>r DEF IInv, TypeOK, Labelled, CoherentEntry, FreshResult, ReadFile, Reading,
                  disk, fs_cache_key
    <2>3. Seen'
      BY <1>r DEF IInv, TypeOK, Seen, ReadFile, Reading, disk, fs_cache_key
    <2> QED
      BY <2>1, <2>2, <2>3 DEF IInv
  <1>f. ASSUME NEW t \in Task, ReadFails(t) PROVE IInv'
    BY <1>f DEF IInv, TypeOK, Labelled, CoherentEntry, Seen, FreshResult, ReadFails,
                Return, Reading, disk, fs_cache_key, Keys, Content
  <1>i. ASSUME NEW t \in Task, Insert(t) PROVE IInv'
    <2> DEFINE new == [key |-> key[t], value |-> value[t]]
    <2>1. /\ cache' = [cache EXCEPT ![Owner[t]] = {new}]
          /\ new \in Entries
          /\ \A s \in Storage : \A e \in cache'[s] : e \in cache[s] \/ e = new
      BY <1>i DEF Insert, IInv, TypeOK, Entries
    <2>2. TypeOK'
      BY <1>i, <2>1 DEF IInv, TypeOK, Insert, Return, disk, Keys, Content
    <2>3. /\ fs_cache_key' = fs_cache_key /\ file' = file
          /\ \A u \in Task : pc'[u] # "idle" =>
                u # t /\ pc'[u] = pc[u] /\ key'[u] = key[u] /\ value'[u] = value[u]
      BY <1>i DEF Insert, Return, disk, fs_cache_key, IInv, TypeOK
    <2>4. Labelled' /\ CoherentEntry'
      BY <1>i, <2>1, <2>3 DEF IInv, Labelled, CoherentEntry, Seen, Insert, Reading
    <2>5. Seen'
      BY <1>i, <2>1, <2>3 DEF IInv, Seen, Insert, Reading
    <2>6. FreshResult'
      BY <1>i DEF IInv, TypeOK, Seen, FreshResult, Insert
    <2> QED
      BY <2>2, <2>4, <2>5, <2>6 DEF IInv
  <1>c. ASSUME NEW t \in Task, FreshKey, Truncate(t) \/ Delete(t) PROVE IInv'
    <2>1. ASSUME Truncate(t) PROVE IInv'
      BY <1>c, <2>1, ChangeKeeps DEF Truncate, Content, Reading
    <2>2. ASSUME Delete(t) PROVE IInv'
      BY <1>c, <2>2, ChangeKeeps DEF Delete, Content, Reading
    <2> QED
      BY <1>c, <2>1, <2>2
  <1>v. ASSUME NEW t \in Task, FreshKey, NEW v \in Value, Fill(t, v) \/ AppendLines(t, v)
        PROVE  IInv'
    <2>1. ASSUME Fill(t, v) PROVE IInv'
      BY <1>v, <2>1, ChangeKeeps DEF Fill, Content, Reading
    <2>2. ASSUME AppendLines(t, v) PROVE IInv'
      BY <1>v, <2>2, ChangeKeeps DEF AppendLines, Content, Reading
    <2> QED
      BY <1>v, <2>1, <2>2
  <1>w. ASSUME NEW t \in Task, FillFails(t) \/ clear_cache(t) PROVE IInv'
    BY <1>w, SMTT(30) DEF IInv, TypeOK, Labelled, CoherentEntry, Seen, FreshResult, FillFails,
                clear_cache, Reading, disk, fs_cache_key
  <1>x. ASSUME NEW s \in Storage, Restart(s) PROVE IInv'
    <2> DEFINE T == {t \in Task : Owner[t] = s}
    <2>1. TypeOK'
      BY <1>x DEF IInv, TypeOK, Restart, disk, Keys, Content
    <2>2. /\ pc' = [t \in Task |-> IF t \in T THEN "idle" ELSE pc[t]]
          /\ \A t \in Task \ T : key'[t] = key[t] /\ value'[t] = value[t]
          /\ \A p \in Storage : cache'[p] \subseteq cache[p]
          /\ UNCHANGED <<disk, seen, result, used>>
      BY <1>x DEF Restart, IInv, TypeOK
    <2> HIDE DEF T
    <2>3. T \in SUBSET Task
      BY DEF T
    <2> QED
      BY <2>1, <2>2, <2>3, StopKeeps
  <1>t. ASSUME Tick PROVE IInv'
    BY <1>t DEF IInv, TypeOK, Labelled, CoherentEntry, Seen, FreshResult, Tick, disk,
                fs_cache_key, Reading
  <1>u. ASSUME UNCHANGED vars PROVE IInv'
    BY <1>u DEF IInv, TypeOK, Labelled, CoherentEntry, Seen, FreshResult, vars, disk,
                fs_cache_key, Reading
  <1> QED
    BY <1>s, <1>h, <1>m, <1>r, <1>f, <1>i, <1>c, <1>v, <1>w, <1>x, <1>t, <1>u
       DEF Next, Read, Write

\* Every entry a cache holds under the file's present key is the file's present
\* content, in every process (json_file.rs: CachedRead, the cached readers).
THEOREM CacheCoherent == SpecFresh => []CoherentEntry
  <1>1. IInv => CoherentEntry
    BY DEF IInv
  <1> QED
    BY <1>1, InitIInv, StepIInv, PTL DEF SpecFresh

\* The types of the cache's state.
THEOREM CacheTypes == SpecFresh => []TypeOK
  <1>1. IInv => TypeOK
    BY DEF IInv
  <1> QED
    BY <1>1, InitIInv, StepIInv, PTL DEF SpecFresh

-----------------------------------------------------------------------------
(* Refinement of FreshRead *)

\* The initial states are those of FreshRead.
LEMMA InitRefines == Init => Abstract!Init
  BY DEF Init, Abstract!Init, Content, Reading

\* A step of the cache is a step of FreshRead or leaves its variables alone.
LEMMA StepRefines ==
    IInv /\ [Next /\ FreshKey]_vars => [Abstract!Next]_(Abstract!vars)
  <1> SUFFICES ASSUME IInv, [Next /\ FreshKey]_vars
               PROVE  Abstract!Next \/ UNCHANGED Abstract!vars
    OBVIOUS
  <1> DEFINE R == {t \in Task : pc[t] \in Reading}
  <1> USE DEF IInv, TypeOK
  <1>s. ASSUME NEW t \in Task, Stat(t) PROVE Abstract!Begin(t)
    BY <1>s DEF Stat, Abstract!Begin, Reading, disk
  <1>h. ASSUME NEW t \in Task, Hit(t) PROVE \E v \in Content : Abstract!Return(t, v)
    <2>1. PICK e \in cache[Owner[t]] :
              e.key = key[t] /\ result' = [result EXCEPT ![t] = e.value]
      BY <1>h DEF Hit
    <2>2. e \in Entries /\ e.value \in seen[t]
      BY <1>h, <2>1, StorageCacheAssumption DEF Hit, Seen
    <2>3. Abstract!Return(t, e.value)
      BY <1>h, <2>1, <2>2 DEF Hit, Return, Abstract!Return, Reading, disk
    <2> QED
      BY <2>2, <2>3 DEF Entries
  <1>m. ASSUME NEW t \in Task, Miss(t) \/ ReadFile(t) PROVE UNCHANGED Abstract!vars
    <2>1. R' = R
      BY <1>m DEF Miss, ReadFile, Reading
    <2> QED
      BY <1>m, <2>1 DEF Miss, ReadFile, disk, Abstract!vars
  <1>f. ASSUME NEW t \in Task, ReadFails(t) PROVE Abstract!Fail({t})
    BY <1>f DEF ReadFails, Return, Abstract!Fail, Reading, disk
  <1>i. ASSUME NEW t \in Task, Insert(t) PROVE \E v \in Content : Abstract!Return(t, v)
    <2>1. PICK v \in Content : v = value[t]
      OBVIOUS
    <2>2. Abstract!Return(t, v)
      BY <1>i, <2>1 DEF Insert, Return, Abstract!Return, Reading, disk, Seen
    <2> QED
      BY <2>2
  <1>c. ASSUME NEW t \in Task, NEW v \in Content, ChangeTo(v), UNCHANGED result,
               pc[t] \notin Reading,
               pc' = [pc EXCEPT ![t] = "fill"] \/ pc' = [pc EXCEPT ![t] = "clear"]
        PROVE  Abstract!Change(v)
    <2>1. R' = R
      BY <1>c DEF Reading
    <2> QED
      BY <1>c, <2>1 DEF ChangeTo, Abstract!Change
  <1>w. ASSUME NEW t \in Task, FillFails(t) \/ clear_cache(t)
        PROVE  UNCHANGED Abstract!vars
    <2>1. R' = R
      BY <1>w DEF FillFails, clear_cache, Reading
    <2> QED
      BY <1>w, <2>1 DEF FillFails, clear_cache, disk, Abstract!vars
  <1>x. ASSUME NEW s \in Storage, Restart(s)
        PROVE  Abstract!Fail({t \in Task : Owner[t] = s})
    BY <1>x DEF Restart, Abstract!Fail, Reading, disk
  <1>1. ASSUME NEW t \in Task, Read(t) PROVE Abstract!Next \/ UNCHANGED Abstract!vars
    <2>1. Stat(t) => Abstract!Next
      BY <1>s DEF Abstract!Next
    <2>2. Hit(t) => Abstract!Next
      BY <1>h DEF Abstract!Next
    <2>3. ReadFails(t) => Abstract!Next
      <3>1. {t} \in SUBSET Task
        OBVIOUS
      <3> QED
        BY <1>f, <3>1 DEF Abstract!Next
    <2>4. Insert(t) => Abstract!Next
      BY <1>i DEF Abstract!Next
    <2> QED
      BY <1>1, <1>m, <2>1, <2>2, <2>3, <2>4 DEF Read
  <1>2. ASSUME NEW t \in Task, Write(t) PROVE Abstract!Next \/ UNCHANGED Abstract!vars
    <2>1. ASSUME Truncate(t) PROVE Abstract!Change(Empty)
      BY <2>1, <1>c DEF Truncate, Content, Reading
    <2>2. ASSUME NEW v \in Value, Fill(t, v) \/ AppendLines(t, v) PROVE Abstract!Change(v)
      BY <2>2, <1>c DEF Fill, AppendLines, Content, Reading
    <2>3. ASSUME Delete(t) PROVE Abstract!Change(Absent)
      BY <2>3, <1>c DEF Delete, Content, Reading
    <2> QED
      BY <1>2, <1>w, <2>1, <2>2, <2>3 DEF Write, Abstract!Next, Content
  <1>3. ASSUME Tick \/ UNCHANGED vars PROVE UNCHANGED Abstract!vars
    BY <1>3 DEF Tick, vars, disk, Abstract!vars
  <1>4. ASSUME NEW s \in Storage, Restart(s) PROVE Abstract!Next
    BY <1>4, <1>x DEF Abstract!Next
  <1> QED
    BY <1>1, <1>2, <1>3, <1>4 DEF Next

\* A read through the cache returns what a read of the file could have returned
\* in its place (json_file.rs, every cached reader).
THEOREM CacheRefinesFreshRead == SpecFresh => RefinesFreshRead
  BY InitIInv, StepIInv, InitRefines, StepRefines, PTL
     DEF SpecFresh, RefinesFreshRead, Abstract!Spec

-----------------------------------------------------------------------------
(* The append-only logs *)

\* Every key the file has had is that of a shorter file, or the present one.
Growing ==
    /\ file # Empty
    /\ fs_cache_key \in used
    /\ file = Absent => used = {NoKey}
    /\ \A k \in used : k = NoKey \/ (k.len \in Nat /\ k.len <= LengthOf(file))

\* A length is a number, and that of no content is 0.
LEMMA LengthType == \A v : LengthOf(v) \in Nat
  BY StorageCacheAssumption DEF LengthOf

\* Growing is inductive, and a growing file never has an old key again.
LEMMA GrowingFresh ==
  ASSUME TypeOK, Growing, [Next /\ OnlyGrows]_vars
  PROVE  FreshKey /\ Growing'
  <1> USE LengthType, StorageCacheAssumption
  <1>1. CASE disk' = disk /\ used' = used
    BY <1>1 DEF Growing, FreshKey, disk, fs_cache_key
  <1>2. CASE ~(disk' = disk /\ used' = used)
    <2>1. PICK v \in Content : ChangeTo(v) /\ OnlyGrows
      BY <1>2 DEF Next, Read, Write, Stat, Hit, Miss, ReadFile, ReadFails, Insert,
                  Truncate, Fill, FillFails, AppendLines, Delete, clear_cache, Restart, Tick,
                  disk, vars, Content
    <2>2. CASE disk' # disk
      <3>1. LengthOf(v) > LengthOf(file) /\ file' = v /\ v \in Value
        BY <2>1, <2>2 DEF OnlyGrows, ChangeTo, LengthOf
      <3>2. KeyOf(v, clock) = [len |-> LengthOf(v), modified |-> clock]
        BY <3>1 DEF KeyOf
      <3>3. KeyOf(v, clock) \notin used
        BY <3>1, <3>2 DEF TypeOK, Growing
      <3> QED
        BY <2>1, <3>1, <3>2, <3>3
           DEF ChangeTo, FreshKey, Growing, fs_cache_key
    <2>3. CASE disk' = disk
      BY <2>1, <2>3 DEF ChangeTo, FreshKey, Growing, fs_cache_key, disk
    <2> QED
      BY <2>2, <2>3
  <1> QED
    BY <1>1, <1>2

\* A log that only grows is read as freshly through the cache as from the disk,
\* even when the clock never moves: no assumption on time stamps is left
\* (balances.jsonl, transactions.jsonl, the annotation and proposal logs, as
\* long as nobody compacts them).
THEOREM AppendOnlyRefinesFreshRead == SpecAppendOnly => RefinesFreshRead
  <1>1. Init => IInv /\ Growing
    BY InitIInv, StorageCacheAssumption
       DEF Init, Growing, fs_cache_key, KeyOf, LengthOf, Content
  <1>2. IInv /\ Growing /\ [Next /\ OnlyGrows]_vars
          => (IInv /\ Growing)' /\ [Next /\ FreshKey]_vars
    <2> SUFFICES ASSUME IInv, Growing, [Next /\ OnlyGrows]_vars
                 PROVE  IInv' /\ Growing' /\ [Next /\ FreshKey]_vars
      OBVIOUS
    <2>1. FreshKey /\ Growing'
      BY GrowingFresh DEF IInv
    <2>2. [Next /\ FreshKey]_vars
      BY <2>1
    <2> QED
      BY <2>1, <2>2, StepIInv
  <1>3. SpecAppendOnly => SpecFresh
    BY <1>1, <1>2, PTL DEF SpecAppendOnly, SpecFresh
  <1> QED
    BY <1>3, CacheRefinesFreshRead

-----------------------------------------------------------------------------
(* The commands: sets in the order of their numbers, and links *)

\* A set of natural numbers has a least element.
LEMMA Least ==
  ASSUME NEW T, T \subseteq Nat, T # {}
  PROVE  \E m \in T : \A k \in T : m <= k
<1> DEFINE R == {ss \in Nat \X Nat : ss[1] < ss[2]}
<1>1. IsWellFoundedOn(R, Nat)
  BY NatLessThanWellFounded DEF OpToRel
<1> HIDE DEF R
<1>2. PICK m \in T : \A k \in T : ~(<<k, m>> \in R)
  BY <1>1, WFMin
<1>3. ASSUME NEW k \in T PROVE m <= k
  <2>1. k \in Nat /\ m \in Nat /\ <<k, m>> \in Nat \X Nat
    OBVIOUS
  <2>2. ~(k < m)
    BY <1>2, <2>1 DEF R
  <2> QED BY <2>1, <2>2
<1> QED BY <1>3

\* s has the numbers of a set in their order.
Ascending(ids, s) ==
    /\ s \in [1 .. Cardinality(ids) -> ids]
    /\ \A i, j \in DOMAIN s : i < j => s[i] < s[j]

\* Finitely many numbers have an order.
LEMMA OrderExists ==
  ASSUME NEW T, T \subseteq Nat, IsFiniteSet(T)
  PROVE  \E s : Ascending(T, s)
<1> DEFINE Bad == {n \in Nat : \E P \in SUBSET T : Cardinality(P) = n /\ \A s : ~Ascending(P, s)}
<1>1. ASSUME Bad # {} PROVE FALSE
  <2>1. PICK n \in Bad : \A k \in Bad : n <= k
    BY <1>1, Least
  <2>2. PICK P \in SUBSET T : Cardinality(P) = n /\ \A s : ~Ascending(P, s)
    BY <2>1
  <2>3. IsFiniteSet(P)
    BY FS_Subset
  <2>4. CASE P = {}
    <3>1. n = 0
      BY <2>2, <2>4, FS_EmptySet
    <3>2. Ascending(P, <<>>)
      BY <2>2, <3>1 DEF Ascending
    <3> QED BY <2>2, <3>2
  <2>5. CASE P # {}
    <3>1. PICK y \in P : \A k \in P : y <= k
      BY <2>5, Least
    <3>2. IsFiniteSet(P \ {y}) /\ Cardinality(P \ {y}) = n - 1
      BY <2>2, <2>3, <3>1, FS_RemoveElement
    <3>3. n - 1 \in Nat /\ n \in Nat
      BY <3>2, FS_CardinalityType
    <3>4. n - 1 \notin Bad
      BY <2>1, <3>3
    <3>5. PICK s : Ascending(P \ {y}, s)
      BY <3>2, <3>3, <3>4
    <3>6. s \in [1 .. n - 1 -> P \ {y}] /\ \A i, j \in 1 .. n - 1 : i < j => s[i] < s[j]
      BY <3>2, <3>5 DEF Ascending
    <3> DEFINE t == [i \in 1 .. n |-> IF i = 1 THEN y ELSE s[i - 1]]
    <3>7. \A i \in 1 .. n : i = 1 \/ i - 1 \in 1 .. n - 1
      BY <3>3
    <3>8. t \in [1 .. n -> P]
      BY <3>1, <3>6, <3>7
    <3>9. ASSUME NEW i \in 1 .. n, NEW j \in 1 .. n, i < j PROVE t[i] < t[j]
      <4>1. j - 1 \in 1 .. n - 1 /\ t[j] = s[j - 1] /\ s[j - 1] \in P \ {y}
        BY <3>3, <3>6, <3>9
      <4>2. CASE i = 1
        <5>1. y <= s[j - 1] /\ s[j - 1] # y /\ y \in Nat /\ s[j - 1] \in Nat
          BY <3>1, <4>1
        <5> QED BY <4>1, <4>2, <5>1
      <4>3. CASE i # 1
        <5>1. i - 1 \in 1 .. n - 1 /\ t[i] = s[i - 1] /\ i - 1 < j - 1
          BY <3>7, <3>9, <4>3
        <5> QED BY <3>6, <4>1, <5>1
      <4> QED BY <4>2, <4>3
    <3>10. Ascending(P, t)
      BY <2>2, <3>8, <3>9 DEF Ascending
    <3> QED BY <2>2, <3>10
  <2> QED BY <2>4, <2>5
<1>2. Cardinality(T) \in Nat
  BY FS_CardinalityType
<1> QED BY <1>1, <1>2

\* list_dirs has all of the ids, and nothing else.
LEMMA ListsAll ==
  ASSUME NEW T, T \subseteq Nat, IsFiniteSet(T)
  PROVE  /\ list_dirs(T) \in Seq(T)
         /\ \A x : x \in T <=> \E i \in DOMAIN list_dirs(T) : list_dirs(T)[i] = x
<1> DEFINE n == Cardinality(T)
           s == list_dirs(T)
<1>1. Ascending(T, s)
  BY OrderExists DEF list_dirs, Ascending
<1>2. n \in Nat
  BY FS_CardinalityType
<1> HIDE DEF s
<1>3. s \in [1 .. n -> T] /\ DOMAIN s = 1 .. n
  BY <1>1 DEF Ascending
<1>4. ASSUME NEW i \in 1 .. n, NEW j \in 1 .. n, s[i] = s[j] PROVE i = j
  <2>1. s[i] \in Nat /\ s[j] \in Nat
    BY <1>3
  <2>2. ~(i < j) /\ ~(j < i)
    BY <1>1, <1>3, <1>4, <2>1 DEF Ascending
  <2> QED BY <1>2, <2>2
<1>5. IsFiniteSet(1 .. n) /\ Cardinality(1 .. n) = n
  BY <1>2, FS_Interval
<1>6. s \in Surjection(1 .. n, T)
  <2>1. s \in Injection(1 .. n, T)
    BY <1>3, <1>4 DEF Injection, IsInjective
  <2> QED BY <1>5, <2>1, FS_Injection
<1>7. \A x \in T : \E i \in 1 .. n : s[i] = x
  BY <1>6 DEF Surjection
<1>8. s \in Seq(T)
  BY <1>2, <1>3
<1>9. (\A x : x \in T <=> \E i \in DOMAIN s : s[i] = x)
  BY <1>3, <1>7
<1> QED BY <1>8, <1>9 DEF s

\* Among keeps those of a list that are in a set.
LEMMA AmongHas ==
  ASSUME NEW A, NEW ids \in Seq(A), NEW all
  PROVE  /\ Among(ids, all) \in Seq(A \cap all)
         /\ \A x : x \in Range(Among(ids, all)) <=> x \in all /\ x \in Range(ids)
<1> DEFINE P == {i \in DOMAIN ids : ids[i] \in all}
           places == list_dirs(P)
           s == [k \in DOMAIN places |-> ids[places[k]]]
<1>1. P \subseteq Nat /\ IsFiniteSet(P)
  <2>1. DOMAIN ids = 1 .. Len(ids) /\ Len(ids) \in Nat
    OBVIOUS
  <2>2. IsFiniteSet(1 .. Len(ids))
    BY <2>1, FS_Interval
  <2>3. P \subseteq 1 .. Len(ids)
    BY <2>1
  <2> QED BY <2>2, <2>3, FS_Subset
<1>2. /\ places \in Seq(P)
      /\ \A x : x \in P <=> \E i \in DOMAIN places : places[i] = x
  BY <1>1, ListsAll
<1>3. Among(ids, all) = s
  BY DEF Among
<1> HIDE DEF places, P
<1>4. \A i \in DOMAIN places : places[i] \in P
  BY <1>2
<1>5. \A p \in P : ids[p] \in A \cap all /\ p \in DOMAIN ids
  BY DEF P
<1>6. s \in Seq(A \cap all)
  <2>1. DOMAIN places = 1 .. Len(places) /\ Len(places) \in Nat
    BY <1>2
  <2>2. \A i \in 1 .. Len(places) : s[i] \in A \cap all
    BY <1>4, <1>5, <2>1
  <2> QED BY <2>1, <2>2
<1>7. ASSUME NEW x PROVE x \in Range(s) <=> x \in all /\ x \in Range(ids)
  <2>1. ASSUME NEW i \in DOMAIN s PROVE s[i] \in all /\ s[i] \in Range(ids)
    BY <1>4, <1>5 DEF Range
  <2>2. ASSUME x \in all, x \in Range(ids) PROVE x \in Range(s)
    <3>1. PICK p \in DOMAIN ids : ids[p] = x
      BY <2>2 DEF Range
    <3>2. p \in P
      BY <2>2, <3>1 DEF P
    <3>3. PICK i \in DOMAIN places : places[i] = p
      BY <1>2, <3>2
    <3> QED BY <3>1, <3>3 DEF Range
  <2> QED BY <2>1, <2>2 DEF Range
<1> QED BY <1>3, <1>6, <1>7

\* LinksTo makes links that lead there.
LEMMA LinksToLead ==
  ASSUME NEW A, NEW ids \in Seq(A), NEW names, DOMAIN names = DOMAIN ids,
         \A i \in DOMAIN ids : names[i] \in Name,
         NEW named, DOMAIN named = Range(ids), \A i \in DOMAIN ids : named[ids[i]] = names[i]
  PROVE  LinksLeadThere(LinksTo(ids, names), named)
<1> DEFINE linked == {i \in DOMAIN ids : Linked(names, i)}
           links == LinksTo(ids, names)
<1>1. DOMAIN ids = 1 .. Len(ids) /\ Len(ids) \in Nat
  OBVIOUS
<1>2. /\ DOMAIN links = {Sanitized[names[i]] : i \in linked}
      /\ \A f \in DOMAIN links : links[f] = ids[CHOOSE i \in linked : Sanitized[names[i]] = f]
  BY DEF LinksTo
<1>3. ASSUME NEW i \in linked, NEW j \in linked,
             Lower[Sanitized[names[i]]] = Lower[Sanitized[names[j]]]
      PROVE  i = j
  <2>1. i \in Nat /\ j \in Nat /\ i >= 1 /\ j >= 1 /\ Linked(names, i) /\ Linked(names, j)
    BY <1>1
  <2>2. ~(i < j)
    <3>1. ASSUME i < j PROVE FALSE
      <4>1. i \in 1 .. (j - 1)
        BY <2>1, <3>1
      <4> QED BY <1>3, <2>1, <4>1 DEF Linked
    <3> QED BY <3>1
  <2>3. ~(j < i)
    <3>1. ASSUME j < i PROVE FALSE
      <4>1. j \in 1 .. (i - 1)
        BY <2>1, <3>1
      <4> QED BY <1>3, <2>1, <4>1 DEF Linked
    <3> QED BY <3>1
  <2> QED BY <2>1, <2>2, <2>3
<1>4. ASSUME NEW f \in DOMAIN links
      PROVE  \E i \in linked : links[f] = ids[i] /\ Sanitized[names[i]] = f
  BY <1>2
<1> HIDE DEF links
<1>5. ASSUME NEW f \in DOMAIN links PROVE links[f] \in DOMAIN named /\ Sanitized[named[links[f]]] = f
  <2>1. PICK i \in linked : links[f] = ids[i] /\ Sanitized[names[i]] = f
    BY <1>4
  <2> QED BY <2>1 DEF Range
<1>6. ASSUME NEW x \in DOMAIN named, Sanitized[named[x]] # NoName
      PROVE  \E f \in DOMAIN links : Lower[f] = Lower[Sanitized[named[x]]]
  <2>1. PICK i \in DOMAIN ids : ids[i] = x
    BY DEF Range
  <2>2. named[x] = names[i]
    BY <2>1
  <2> DEFINE Alike == {j \in DOMAIN ids : Sanitized[names[j]] # NoName
                                          /\ Lower[Sanitized[names[j]]] = Lower[Sanitized[names[i]]]}
  <2>3. i \in Alike /\ Alike \subseteq Nat
    BY <1>1, <1>6, <2>2
  <2>4. PICK m \in Alike : \A k \in Alike : m <= k
    BY <2>3, Least
  <2>5. ASSUME NEW j \in 1 .. (m - 1)
        PROVE  Sanitized[names[j]] = NoName \/ Lower[Sanitized[names[j]]] # Lower[Sanitized[names[m]]]
    <3>1. j \in DOMAIN ids /\ ~(m <= j)
      BY <1>1
    <3>2. j \notin Alike
      BY <2>4, <3>1
    <3> QED BY <3>1, <3>2
  <2>6. m \in linked
    BY <2>5 DEF Linked
  <2>7. Sanitized[names[m]] \in DOMAIN links
    BY <1>2, <2>6
  <2> QED BY <2>2, <2>7
<1>7. ASSUME NEW f \in DOMAIN links, NEW g \in DOMAIN links, Lower[f] = Lower[g] PROVE f = g
  <2>1. PICK i \in linked : Sanitized[names[i]] = f
    BY <1>4
  <2>2. PICK j \in linked : Sanitized[names[j]] = g
    BY <1>4
  <2>3. i = j
    BY <1>3, <1>7, <2>1, <2>2
  <2> QED BY <2>1, <2>2, <2>3
<1>8. LinksLeadThere(links, named)
  BY <1>5, <1>6, <1>7 DEF LinksLeadThere
<1> QED BY <1>8 DEF links

Fields == {"configs", "states", "accounts", "by_name", "links"}
DirectoryOK(d) ==
    /\ DOMAIN d = Fields
    /\ DOMAIN d.configs \subseteq ConnectionId
    /\ \A c \in DOMAIN d.configs : d.configs[c] \in [name : Name, synchronizer : Synchronizers]
    /\ DOMAIN d.states \subseteq DOMAIN d.configs
    /\ \A c \in DOMAIN d.states : d.states[c] \in Seq(AccountId)
    /\ DOMAIN d.accounts \subseteq AccountId
    /\ \A a \in DOMAIN d.accounts :
          d.accounts[a] \in [connection : ConnectionId, name : Name, active : BOOLEAN]

NamesOf(d) == [c \in DOMAIN d.configs |-> d.configs[c].name]
ActiveOf(d, c) == {b \in Ours(d, c) : d.accounts[b].active}
AccountNamesOf(d, c) == [a \in ActiveOf(d, c) |-> d.accounts[a].name]
ByNameFollows(d) == LinksLeadThere(d.by_name, NamesOf(d))
OwnFollow(d, c) == c \in DOMAIN d.links /\ LinksLeadThere(d.links[c], AccountNamesOf(d, c))

\* Links follow when those by name do, and those of each connection.
LEMMA FollowParts ==
  ASSUME NEW d
  PROVE  LinksFollow(d) <=> ByNameFollows(d) /\ \A c \in DOMAIN d.states : OwnFollow(d, c)
BY DEF LinksFollow, ByNameFollows, OwnFollow, NamesOf, AccountNamesOf, ActiveOf

\* The ids there are: numbers, and finitely many.
LEMMA SomeIds ==
  /\ \A S \in SUBSET ConnectionId : S \subseteq Nat /\ IsFiniteSet(S)
  /\ \A S \in SUBSET AccountId : S \subseteq Nat /\ IsFiniteSet(S)
<1>1. ConnectionId \subseteq Nat /\ IsFiniteSet(ConnectionId) /\ AccountId \subseteq Nat /\ IsFiniteSet(AccountId)
  BY CommandsAssumption
<1>2. ASSUME NEW S \in SUBSET ConnectionId PROVE S \subseteq Nat /\ IsFiniteSet(S)
  BY <1>1, FS_Subset
<1>3. ASSUME NEW S \in SUBSET AccountId PROVE S \subseteq Nat /\ IsFiniteSet(S)
  BY <1>1, FS_Subset
<1> QED BY <1>2, <1>3

\* rebuild_connection_symlinks makes the links by name follow.
LEMMA NamesRebuilt ==
  ASSUME NEW d, DirectoryOK(d)
  PROVE  LinksLeadThere(rebuild_connection_symlinks(d).by_name, NamesOf(d))
<1> DEFINE ids == list_connections(d)
           names == [i \in DOMAIN ids |-> d.configs[ids[i]].name]
<1>1. DOMAIN d.configs \subseteq Nat /\ IsFiniteSet(DOMAIN d.configs)
  BY SomeIds DEF DirectoryOK
<1>2. /\ ids \in Seq(DOMAIN d.configs)
      /\ \A x : x \in DOMAIN d.configs <=> \E i \in DOMAIN ids : ids[i] = x
  BY <1>1, ListsAll DEF list_connections
<1>3. rebuild_connection_symlinks(d).by_name = LinksTo(ids, names)
  BY DEF rebuild_connection_symlinks, DirectoryOK, Fields
<1> HIDE DEF ids
<1>4. \A i \in DOMAIN ids : ids[i] \in DOMAIN d.configs
  BY <1>2
<1>5. \A i \in DOMAIN ids : names[i] \in Name /\ NamesOf(d)[ids[i]] = names[i]
  BY <1>4 DEF DirectoryOK, NamesOf
<1>6. DOMAIN NamesOf(d) = Range(ids)
  BY <1>2 DEF NamesOf, Range
<1>7. DOMAIN names = DOMAIN ids
  OBVIOUS
<1> HIDE DEF names
<1>8. LinksLeadThere(LinksTo(ids, names), NamesOf(d))
  BY <1>2, <1>5, <1>6, <1>7, LinksToLead, ZenonT(60)
<1> QED BY <1>3, <1>8

\* What is collected for a connection is its active accounts, and nothing else.
LEMMA Collected ==
  ASSUME NEW d, DirectoryOK(d), NEW c
  PROVE  /\ collect_accounts_for_connection(d, c) \in Seq(ActiveOf(d, c))
         /\ Range(collect_accounts_for_connection(d, c)) = ActiveOf(d, c)
<1> DEFINE active == ActiveOf(d, c)
           listed == Among(account_ids(d, c), active)
           others == list_dirs(active \ Range(listed))
<1>1. collect_accounts_for_connection(d, c) = listed \o others
  BY DEF collect_accounts_for_connection, ActiveOf
<1>2. account_ids(d, c) \in Seq(AccountId)
  BY DEF account_ids, DirectoryOK
<1>3. listed \in Seq(AccountId \cap active)
  BY <1>2, AmongHas
<1>4. active \ Range(listed) \subseteq Nat /\ IsFiniteSet(active \ Range(listed))
  BY SomeIds DEF ActiveOf, Ours, DirectoryOK
<1> HIDE DEF active, listed
<1>5. /\ others \in Seq(active \ Range(listed))
      /\ \A x : x \in active \ Range(listed) <=> \E i \in DOMAIN others : others[i] = x
  BY <1>4, ListsAll
<1> HIDE DEF others
<1>6. listed \in Seq(active) /\ others \in Seq(active)
  <2>1. AccountId \cap active \subseteq active /\ active \ Range(listed) \subseteq active
    OBVIOUS
  <2> QED BY <1>3, <1>5, <2>1
<1>7. listed \o others \in Seq(active)
  BY <1>6
<1>8. Range(listed \o others) = Range(listed) \cup Range(others)
  BY <1>6, RangeConcatenation
<1>9. Range(others) = active \ Range(listed)
  BY <1>5 DEF Range
<1>10. Range(listed) \subseteq active
  BY <1>6 DEF Range
<1>11. Range(listed \o others) = active
  BY <1>8, <1>9, <1>10
<1> QED BY <1>1, <1>7, <1>11 DEF active

\* update_account_symlinks makes the links of a connection follow.
LEMMA AccountsRelinked ==
  ASSUME NEW d, DirectoryOK(d), NEW c
  PROVE  /\ c \in DOMAIN update_account_symlinks(d, c).links
         /\ LinksLeadThere(update_account_symlinks(d, c).links[c], AccountNamesOf(d, c))
<1> DEFINE ids == collect_accounts_for_connection(d, c)
           names == [i \in DOMAIN ids |-> d.accounts[ids[i]].name]
<1>1. ids \in Seq(ActiveOf(d, c)) /\ Range(ids) = ActiveOf(d, c)
  BY Collected
<1>2. /\ c \in DOMAIN update_account_symlinks(d, c).links
      /\ update_account_symlinks(d, c).links[c] = LinksTo(ids, names)
  BY DEF update_account_symlinks, Set, DirectoryOK, Fields
<1> HIDE DEF ids
<1>3. \A i \in DOMAIN ids : ids[i] \in ActiveOf(d, c)
  BY <1>1
<1>4. \A i \in DOMAIN ids : names[i] \in Name /\ AccountNamesOf(d, c)[ids[i]] = names[i]
  BY <1>3 DEF DirectoryOK, ActiveOf, Ours, AccountNamesOf
<1>5. DOMAIN names = DOMAIN ids /\ DOMAIN AccountNamesOf(d, c) = Range(ids)
  BY <1>1 DEF AccountNamesOf
<1> HIDE DEF names
<1>6. LinksLeadThere(LinksTo(ids, names), AccountNamesOf(d, c))
  BY <1>1, <1>4, <1>5, LinksToLead
<1> QED BY <1>2, <1>6

-----------------------------------------------------------------------------
(* What becomes of the links with each write. *)

\* Followed by name and per connection, of d and of e.
SaveConfigEffect(d, e, c) ==
    /\ e.states = d.states /\ e.accounts = d.accounts
    /\ DOMAIN e.configs = DOMAIN d.configs \cup {c}
    /\ \A b : OwnFollow(d, b) => OwnFollow(e, b)

\* Saving a configuration can take the links by name out of date, and no others.
LEMMA SaveConfigDoes ==
  ASSUME NEW d, DirectoryOK(d), NEW c \in ConnectionId, NEW config \in [name : Name, synchronizer : Synchronizers],
         NEW e, e = save_connection_config(d, c, config)
  PROVE  DirectoryOK(e) /\ SaveConfigEffect(d, e, c)
<1>1. /\ DOMAIN e = Fields
      /\ e.configs = Set(d.configs, c, config)
      /\ e.states = d.states /\ e.accounts = d.accounts /\ e.by_name = d.by_name /\ e.links = d.links
  BY DEF save_connection_config, DirectoryOK, Fields
<1>2. /\ DOMAIN e.configs = DOMAIN d.configs \cup {c}
      /\ \A b \in DOMAIN e.configs : e.configs[b] = config \/ (b \in DOMAIN d.configs /\ e.configs[b] = d.configs[b])
  BY <1>1 DEF Set
<1>3. DirectoryOK(e)
  BY <1>1, <1>2 DEF DirectoryOK
<1>4. \A b : ActiveOf(e, b) = ActiveOf(d, b) /\ AccountNamesOf(e, b) = AccountNamesOf(d, b)
  BY <1>1 DEF ActiveOf, Ours, AccountNamesOf
<1>5. \A b : OwnFollow(d, b) => OwnFollow(e, b)
  BY <1>1, <1>4 DEF OwnFollow
<1> QED BY <1>1, <1>2, <1>3, <1>5 DEF SaveConfigEffect

SaveConnectionEffect(d, e, c) ==
    /\ e.configs = d.configs /\ e.accounts = d.accounts
    /\ DOMAIN e.states = DOMAIN d.states \cup {c}
    /\ ByNameFollows(e)
    /\ OwnFollow(e, c)
    /\ \A b : OwnFollow(d, b) => OwnFollow(e, b)

\* Saving a connection brings its links and those by name up to date.
LEMMA SaveConnectionDoes ==
  ASSUME NEW d, DirectoryOK(d), NEW c \in DOMAIN d.configs, NEW ids \in Seq(AccountId),
         NEW e, e = save_connection(d, c, ids)
  PROVE  DirectoryOK(e) /\ SaveConnectionEffect(d, e, c)
<1> DEFINE f == [d EXCEPT !.states = Set(@, c, ids)]
           g == update_account_symlinks(f, c)
<1>1. /\ DOMAIN f = Fields
      /\ f.states = Set(d.states, c, ids)
      /\ f.configs = d.configs /\ f.accounts = d.accounts /\ f.by_name = d.by_name /\ f.links = d.links
  BY DEF DirectoryOK, Fields
<1>2. e = rebuild_connection_symlinks(g)
  BY DEF save_connection
<1> HIDE DEF f
<1>3. /\ DOMAIN f.states = DOMAIN d.states \cup {c}
      /\ \A b \in DOMAIN f.states : f.states[b] = ids \/ (b \in DOMAIN d.states /\ f.states[b] = d.states[b])
  BY <1>1 DEF Set
<1>4. DirectoryOK(f)
  BY <1>1, <1>3 DEF DirectoryOK
<1>5. /\ DOMAIN g = Fields
      /\ g.states = f.states /\ g.configs = d.configs /\ g.accounts = d.accounts /\ g.by_name = d.by_name
      /\ \A b \in DOMAIN d.links \ {c} : b \in DOMAIN g.links /\ g.links[b] = d.links[b]
  BY <1>1 DEF update_account_symlinks, Set, Fields
<1>6. c \in DOMAIN g.links /\ LinksLeadThere(g.links[c], AccountNamesOf(f, c))
  BY <1>4, AccountsRelinked
<1> HIDE DEF g
<1>7. DirectoryOK(g)
  BY <1>4, <1>5, <1>1 DEF DirectoryOK
<1>8. /\ DOMAIN e = Fields
      /\ e.states = f.states /\ e.configs = d.configs /\ e.accounts = d.accounts /\ e.links = g.links
  BY <1>2, <1>5 DEF rebuild_connection_symlinks, Fields
<1>9. LinksLeadThere(e.by_name, NamesOf(g))
  BY <1>2, <1>7, NamesRebuilt
<1>10. DirectoryOK(e)
  BY <1>7, <1>8, <1>5 DEF DirectoryOK
<1>11. ByNameFollows(e)
  BY <1>9, <1>8, <1>5 DEF ByNameFollows, NamesOf
<1>12. \A b : AccountNamesOf(e, b) = AccountNamesOf(d, b) /\ AccountNamesOf(f, b) = AccountNamesOf(d, b)
  BY <1>8, <1>1 DEF ActiveOf, Ours, AccountNamesOf
<1>13. OwnFollow(e, c)
  BY <1>6, <1>8, <1>12 DEF OwnFollow
<1>14. ASSUME NEW b, OwnFollow(d, b) PROVE OwnFollow(e, b)
  <2>1. CASE b = c
    BY <1>13, <2>1
  <2>2. CASE b # c
    BY <1>14, <1>5, <1>8, <1>12, <2>2 DEF OwnFollow
  <2> QED BY <2>1, <2>2
<1> QED BY <1>3, <1>8, <1>10, <1>11, <1>13, <1>14 DEF SaveConnectionEffect

DeleteConnectionEffect(d, e, c) ==
    /\ DOMAIN e.configs = DOMAIN d.configs \ {c} /\ e.accounts = d.accounts
    /\ DOMAIN e.states = DOMAIN d.states \ {c}
    /\ ByNameFollows(e)
    /\ \A b : b # c /\ OwnFollow(d, b) => OwnFollow(e, b)

\* Deleting a connection leaves the links by name and those of the others up to date.
LEMMA DeleteConnectionDoes ==
  ASSUME NEW d, DirectoryOK(d), NEW c, NEW e, e = delete_connection(d, c)
  PROVE  DirectoryOK(e) /\ DeleteConnectionEffect(d, e, c)
<1> DEFINE f == [d EXCEPT !.configs = Without(@, c), !.states = Without(@, c), !.links = Without(@, c)]
<1>1. /\ DOMAIN f = Fields
      /\ f.configs = Without(d.configs, c)
      /\ f.states = Without(d.states, c)
      /\ f.links = Without(d.links, c)
      /\ f.accounts = d.accounts /\ f.by_name = d.by_name
  BY DEF DirectoryOK, Fields
<1>2. e = rebuild_connection_symlinks(f)
  BY DEF delete_connection
<1> HIDE DEF f
<1>3. /\ DOMAIN f.configs = DOMAIN d.configs \ {c}
      /\ \A b \in DOMAIN f.configs : f.configs[b] = d.configs[b]
      /\ DOMAIN f.states = DOMAIN d.states \ {c}
      /\ \A b \in DOMAIN f.states : f.states[b] = d.states[b]
      /\ DOMAIN f.links = DOMAIN d.links \ {c}
      /\ \A b \in DOMAIN f.links : f.links[b] = d.links[b]
  BY <1>1 DEF Without
<1>4. DirectoryOK(f)
  BY <1>1, <1>3 DEF DirectoryOK
<1>5. /\ DOMAIN e = Fields
      /\ e.states = f.states /\ e.configs = f.configs /\ e.accounts = d.accounts /\ e.links = f.links
  BY <1>1, <1>2 DEF rebuild_connection_symlinks, Fields
<1>6. LinksLeadThere(e.by_name, NamesOf(f))
  BY <1>2, <1>4, NamesRebuilt
<1>7. DirectoryOK(e)
  BY <1>4, <1>5, <1>1 DEF DirectoryOK
<1>8. ByNameFollows(e)
  BY <1>5, <1>6 DEF ByNameFollows, NamesOf
<1>9. \A b : AccountNamesOf(e, b) = AccountNamesOf(d, b)
  BY <1>5 DEF ActiveOf, Ours, AccountNamesOf
<1>10. \A b : b # c /\ OwnFollow(d, b) => OwnFollow(e, b)
  BY <1>3, <1>5, <1>9 DEF OwnFollow
<1> QED BY <1>3, <1>5, <1>7, <1>8, <1>10 DEF DeleteConnectionEffect

\* The links of the connections to which an account did not and does not belong are left.
AccountEffect(d, e, a) ==
    /\ e.configs = d.configs /\ e.states = d.states
    /\ ByNameFollows(d) => ByNameFollows(e)

\* Saving an account can take the links of its connection out of date, and no others.
LEMMA SaveAccountDoes ==
  ASSUME NEW d, DirectoryOK(d), NEW a \in AccountId,
         NEW account \in [connection : ConnectionId, name : Name, active : BOOLEAN],
         a \in DOMAIN d.accounts => d.accounts[a].connection = account.connection,
         NEW e, e = save_account(d, a, account)
  PROVE  /\ DirectoryOK(e) /\ AccountEffect(d, e, a)
         /\ DOMAIN e.accounts = DOMAIN d.accounts \cup {a}
         /\ e.accounts[a].connection = account.connection
         /\ \A b \in DOMAIN d.accounts : e.accounts[b].connection = d.accounts[b].connection
         /\ \A c : c # account.connection /\ OwnFollow(d, c) => OwnFollow(e, c)
<1>1. /\ DOMAIN e = Fields
      /\ e.accounts = Set(d.accounts, a, account)
      /\ e.configs = d.configs /\ e.states = d.states /\ e.by_name = d.by_name /\ e.links = d.links
  BY DEF save_account, DirectoryOK, Fields
<1>2. /\ DOMAIN e.accounts = DOMAIN d.accounts \cup {a}
      /\ e.accounts[a] = account
      /\ \A b \in DOMAIN d.accounts \ {a} : e.accounts[b] = d.accounts[b]
  BY <1>1 DEF Set
<1>3. DirectoryOK(e)
  BY <1>1, <1>2 DEF DirectoryOK
<1>4. ByNameFollows(d) => ByNameFollows(e)
  BY <1>1 DEF ByNameFollows, NamesOf
<1>5. \A b \in DOMAIN d.accounts : e.accounts[b].connection = d.accounts[b].connection
  BY <1>2
<1>6. ASSUME NEW c, c # account.connection, OwnFollow(d, c) PROVE OwnFollow(e, c)
  <2>1. ActiveOf(e, c) = ActiveOf(d, c)
    BY <1>2, <1>6 DEF ActiveOf, Ours
  <2>2. \A b \in ActiveOf(d, c) : e.accounts[b] = d.accounts[b]
    BY <1>2, <1>6 DEF ActiveOf, Ours
  <2>3. AccountNamesOf(e, c) = AccountNamesOf(d, c)
    BY <2>1, <2>2 DEF AccountNamesOf
  <2> QED BY <1>1, <1>6, <2>3 DEF OwnFollow
<1> QED BY <1>1, <1>2, <1>3, <1>4, <1>5, <1>6 DEF AccountEffect

\* Deleting an account can take the links of its connection out of date, and no others.
LEMMA DeleteAccountDoes ==
  ASSUME NEW d, DirectoryOK(d), NEW a, NEW e, e = delete_account(d, a)
  PROVE  /\ DirectoryOK(e) /\ AccountEffect(d, e, a)
         /\ DOMAIN e.accounts = DOMAIN d.accounts \ {a}
         /\ \A b \in DOMAIN e.accounts : e.accounts[b] = d.accounts[b]
         /\ \A c : OwnFollow(d, c) /\ (a \in DOMAIN d.accounts => d.accounts[a].connection # c)
                       => OwnFollow(e, c)
<1>1. /\ DOMAIN e = Fields
      /\ e.accounts = Without(d.accounts, a)
      /\ e.configs = d.configs /\ e.states = d.states /\ e.by_name = d.by_name /\ e.links = d.links
  BY DEF delete_account, DirectoryOK, Fields
<1>2. /\ DOMAIN e.accounts = DOMAIN d.accounts \ {a}
      /\ \A b \in DOMAIN e.accounts : e.accounts[b] = d.accounts[b]
  BY <1>1 DEF Without
<1>3. DirectoryOK(e)
  BY <1>1, <1>2 DEF DirectoryOK
<1>4. ByNameFollows(d) => ByNameFollows(e)
  BY <1>1 DEF ByNameFollows, NamesOf
<1>5. ASSUME NEW c, OwnFollow(d, c), a \in DOMAIN d.accounts => d.accounts[a].connection # c
      PROVE  OwnFollow(e, c)
  <2>1. ActiveOf(e, c) = ActiveOf(d, c)
    BY <1>2, <1>5 DEF ActiveOf, Ours
  <2>2. \A b \in ActiveOf(d, c) : e.accounts[b] = d.accounts[b]
    BY <1>2, <1>5 DEF ActiveOf, Ours
  <2>3. AccountNamesOf(e, c) = AccountNamesOf(d, c)
    BY <2>1, <2>2 DEF AccountNamesOf
  <2> QED BY <1>1, <1>5, <2>3 DEF OwnFollow
<1> QED BY <1>1, <1>2, <1>3, <1>4, <1>5 DEF AccountEffect

\* rebuild_all_symlinks brings every link up to date, whatever there was.
LEMMA RebuildAllDoes ==
  ASSUME NEW d, DirectoryOK(d), NEW e, e = rebuild_all_symlinks(d)
  PROVE  /\ DirectoryOK(e) /\ LinksFollow(e)
         /\ e.configs = d.configs /\ e.states = d.states /\ e.accounts = d.accounts
<1> DEFINE links == [c \in DOMAIN d.links \cup DOMAIN d.configs |->
                     IF c \in DOMAIN d.configs THEN update_account_symlinks(d, c).links[c] ELSE d.links[c]]
           f == rebuild_connection_symlinks(d)
<1>1. /\ DOMAIN f = Fields
      /\ f.configs = d.configs /\ f.states = d.states /\ f.accounts = d.accounts
  BY DEF rebuild_connection_symlinks, DirectoryOK, Fields
<1>2. LinksLeadThere(f.by_name, NamesOf(d))
  BY NamesRebuilt
<1>3. e = [f EXCEPT !.links = links]
  BY DEF rebuild_all_symlinks
<1>4. \A c \in DOMAIN d.configs : c \in DOMAIN links /\ LinksLeadThere(links[c], AccountNamesOf(d, c))
  BY AccountsRelinked
<1> HIDE DEF f, links
<1>5. /\ DOMAIN e = Fields
      /\ e.configs = d.configs /\ e.states = d.states /\ e.accounts = d.accounts
      /\ e.by_name = f.by_name /\ e.links = links
  BY <1>1, <1>3 DEF Fields
<1>6. DirectoryOK(e)
  BY <1>5 DEF DirectoryOK
<1>7. ByNameFollows(e)
  BY <1>2, <1>5 DEF ByNameFollows, NamesOf
<1>8. \A c : AccountNamesOf(e, c) = AccountNamesOf(d, c)
  BY <1>5 DEF ActiveOf, Ours, AccountNamesOf
<1>9. \A c \in DOMAIN e.states : OwnFollow(e, c)
  BY <1>4, <1>5, <1>8 DEF OwnFollow, DirectoryOK
<1> QED BY <1>5, <1>6, <1>7, <1>9, FollowParts

-----------------------------------------------------------------------------
(* What makes a script good, and what is left of one *)

Deletes == {"delete_account", "delete_connection"}
Does == WritesDirectory \cup {"write", "sync", "commit", "commit unless disabled", "push", "refuse"}
Files == {"", "balances", "account_config", "annotations", "proposals", "transactions", "logs", "prices", "rules"}
Steps == [does : Does, connection : ConnectionId \cup {0}, account : AccountId \cup {0},
          name : Name \cup {NoName}, synchronizer : Synchronizers, ids : Seq(AccountId),
          active : BOOLEAN, file : Files, caught : BOOLEAN]

\* What a step says of the connection or the account it writes can be written.
Valid(s) ==
    /\ s.does \in {"save_connection_config", "save_account"} => s.connection \in ConnectionId /\ s.name \in Name
    /\ s.does = "save_account" => s.account \in AccountId

\* Only removals delete, and they do nothing else; and a connection that is saved or
\* synced has a configuration, or the steps before save it.
KindsOK(td, d) ==
    /\ \A i, j \in DOMAIN td : td[i].does \in Deletes => td[j].does \in Deletes \cup {"commit"}
    /\ \A i \in DOMAIN td : td[i].does \in {"save_connection", "sync"} =>
          \/ td[i].connection \in DOMAIN d.configs
          \/ \E j \in DOMAIN td : /\ j < i /\ td[j].does = "save_connection_config"
                                  /\ td[j].connection = td[i].connection
\* What is caught is a part of the command.
CaughtOK(td) ==
    /\ \A i \in DOMAIN td : td[i].caught => \E j \in DOMAIN td : i < j /\ ~td[j].caught
    /\ \A i, j \in DOMAIN td : td[i].does = "save_connection_config" => ~td[j].caught
    /\ \A i, j \in DOMAIN td : i < j /\ td[i].does = "sync" =>
          td[j].does \in {"sync", "write", "commit", "commit unless disabled", "push"}
\* What takes links out of date is followed by what brings them up to date.
LinkedOK(td, d) ==
    /\ \A i \in DOMAIN td : td[i].does = "save_connection_config" =>
          \E j \in DOMAIN td : i < j /\ td[j].does = "save_connection"
    /\ \A i \in DOMAIN td : td[i].does = "save_account" =>
          /\ td[i].account \in DOMAIN d.accounts =>
                d.accounts[td[i].account].connection = td[i].connection
          /\ \E j \in DOMAIN td : /\ i < j /\ td[j].does = "save_connection"
                                  /\ td[j].connection = td[i].connection
    /\ \A i, j \in DOMAIN td :
          td[i].does = "save_account" /\ td[j].does = "save_account" /\ td[i].account = td[j].account
             => td[i].connection = td[j].connection
    /\ \A i \in DOMAIN td : td[i].does = "delete_account" /\ td[i].account \in DOMAIN d.accounts =>
          \E j \in DOMAIN td : /\ i < j /\ td[j].does = "delete_connection"
                               /\ td[j].connection = d.accounts[td[i].account].connection
ScriptOK(td, d) ==
    /\ td \in Seq(Steps)
    /\ \A i \in DOMAIN td : Valid(td[i])
    /\ KindsOK(td, d)
    /\ CaughtOK(td)
    /\ LinkedOK(td, d)

\* The links are up to date, or will be.
Heals(s, c) ==
    \/ s.does = "rebuild_all_symlinks"
    \/ s.does \in {"save_connection", "delete_connection"} /\ s.connection = c
FollowOK(td, d) ==
    /\ \/ ByNameFollows(d)
       \/ \E i \in DOMAIN td : td[i].does \in {"save_connection", "delete_connection", "rebuild_all_symlinks"}
    /\ \A c \in DOMAIN d.states : OwnFollow(d, c) \/ \E i \in DOMAIN td : Heals(td[i], c)

Committing == {"commit", "commit unless disabled"}
Writing == WritesDirectory \cup {"write"}
CommitsOK(td) ==
    \A i \in DOMAIN td : td[i].does \in Writing =>
        \E j \in DOMAIN td : i < j /\ td[j].does \in Committing

-----------------------------------------------------------------------------
\* s is what is left of td after k steps.
Left(td, k, s) ==
    /\ k \in Nat
    /\ \A i \in DOMAIN td \cup DOMAIN s : i \in Nat /\ i >= 1
    /\ \A i \in DOMAIN s : i + k \in DOMAIN td /\ s[i] = td[i + k]
    /\ \A i \in DOMAIN td : i > k => i - k \in DOMAIN s /\ s[i - k] = td[i]

\* After one step, the tail is left.
LEMMA TailLeft ==
  ASSUME NEW A, NEW td \in Seq(A), td # <<>>
  PROVE  /\ Tail(td) \in Seq(A) /\ Left(td, 1, Tail(td))
         /\ 1 \in DOMAIN td /\ Head(td) = td[1] /\ Head(td) \in A
<1>1. Len(td) \in Nat /\ Len(td) >= 1 /\ DOMAIN td = 1 .. Len(td) /\ Head(td) = td[1] /\ Head(td) \in A
  OBVIOUS
<1>2. /\ Tail(td) \in Seq(A) /\ Len(Tail(td)) = Len(td) - 1
      /\ \A i \in 1 .. Len(Tail(td)) : Tail(td)[i] = td[i + 1]
  BY HeadTailProperties
<1>3. DOMAIN Tail(td) = 1 .. Len(td) - 1
  BY <1>2
<1>4. \A i \in DOMAIN Tail(td) : i \in Nat /\ i >= 1 /\ i + 1 \in DOMAIN td /\ Tail(td)[i] = td[i + 1]
  BY <1>1, <1>2, <1>3
<1>5. ASSUME NEW i \in DOMAIN td, i > 1 PROVE i - 1 \in DOMAIN Tail(td) /\ Tail(td)[i - 1] = td[i]
  <2>1. i \in Nat /\ i >= 2 /\ i <= Len(td)
    BY <1>1, <1>5
  <2>2. i - 1 \in DOMAIN Tail(td)
    BY <1>1, <1>3, <2>1
  <2>3. (i - 1) + 1 = i
    BY <2>1
  <2> QED BY <1>4, <2>2, <2>3
<1> QED BY <1>1, <1>2, <1>4, <1>5 DEF Left

\* Before step m, m - 1 steps are over.
LEMMA RestLeft ==
  ASSUME NEW A, NEW td \in Seq(A), NEW m \in 1 .. Len(td)
  PROVE  SubSeq(td, m, Len(td)) \in Seq(A) /\ Left(td, m - 1, SubSeq(td, m, Len(td)))
<1>1. Len(td) \in Nat /\ DOMAIN td = 1 .. Len(td) /\ m \in Nat /\ m >= 1 /\ m <= Len(td)
  OBVIOUS
<1> DEFINE s == SubSeq(td, m, Len(td))
<1>2. s = [i \in 1 .. (1 + Len(td)) - m |-> td[(i + m) - 1]]
  BY <1>1
<1> HIDE DEF s
<1>3. DOMAIN s = 1 .. (1 + Len(td)) - m /\ (1 + Len(td)) - m \in Nat
  BY <1>1, <1>2
<1>4. ASSUME NEW i \in DOMAIN s
      PROVE  i \in Nat /\ i >= 1 /\ i + (m - 1) \in DOMAIN td /\ s[i] = td[i + (m - 1)]
  <2>1. i \in Nat /\ i >= 1 /\ i <= (1 + Len(td)) - m
    BY <1>1, <1>3
  <2>2. (i + m) - 1 = i + (m - 1) /\ i + (m - 1) \in DOMAIN td
    BY <1>1, <2>1
  <2> QED BY <1>2, <1>3, <2>1, <2>2
<1>5. ASSUME NEW i \in DOMAIN td, i > m - 1 PROVE i - (m - 1) \in DOMAIN s /\ s[i - (m - 1)] = td[i]
  <2>1. i \in Nat /\ i <= Len(td)
    BY <1>1
  <2>2. i - (m - 1) \in DOMAIN s
    BY <1>1, <1>3, <1>5, <2>1
  <2>3. (i - (m - 1)) + (m - 1) = i
    BY <1>1, <2>1
  <2> QED BY <1>4, <2>2, <2>3
<1>6. s \in Seq(A)
  <2>1. \A i \in 1 .. (1 + Len(td)) - m : s[i] \in A
    BY <1>3, <1>4
  <2> QED BY <1>2, <1>3, <2>1
<1>7. m - 1 \in Nat /\ \A i \in DOMAIN td : i \in Nat /\ i >= 1
  BY <1>1
<1>8. Left(td, m - 1, s)
  BY <1>4, <1>5, <1>7 DEF Left
<1> QED BY <1>6, <1>8 DEF s

\* A step that comes later is among those left.
LEMMA LeftLater ==
  ASSUME NEW td, NEW k, NEW s, Left(td, k, s), NEW i \in DOMAIN s, NEW j \in DOMAIN td, i + k < j
  PROVE  j - k \in DOMAIN s /\ i < j - k /\ s[j - k] = td[j]
BY DEF Left

\* What is left of a good script is good, when the configurations to be saved so far have been.
LEMMA LeftOK ==
  ASSUME NEW d, NEW td, ScriptOK(td, d), NEW k, NEW s \in Seq(Steps), Left(td, k, s),
         \A j \in DOMAIN td : j <= k /\ td[j].does = "save_connection_config" => td[j].connection \in DOMAIN d.configs
  PROVE  ScriptOK(s, d)
<1>1. \A i \in DOMAIN s : i \in Nat /\ k \in Nat /\ i + k \in DOMAIN td /\ s[i] = td[i + k]
  BY DEF Left
<1>2. \A i \in DOMAIN s : Valid(s[i])
  BY <1>1 DEF ScriptOK
<1>3. KindsOK(s, d)
  <2>1. \A i, j \in DOMAIN s : s[i].does \in Deletes => s[j].does \in Deletes \cup {"commit"}
    BY <1>1 DEF ScriptOK, KindsOK
  <2>2. ASSUME NEW i \in DOMAIN s, s[i].does \in {"save_connection", "sync"},
               s[i].connection \notin DOMAIN d.configs
        PROVE  \E j \in DOMAIN s : /\ j < i /\ s[j].does = "save_connection_config"
                                   /\ s[j].connection = s[i].connection
    <3>1. i + k \in DOMAIN td /\ s[i] = td[i + k]
      BY <1>1
    <3>2. PICK j \in DOMAIN td : /\ j < i + k /\ td[j].does = "save_connection_config"
                                 /\ td[j].connection = s[i].connection
      BY <2>2, <3>1 DEF ScriptOK, KindsOK
    <3>3. j \in Nat /\ k \in Nat /\ j > k
      BY <2>2, <3>2 DEF Left
    <3>4. j - k \in DOMAIN s /\ s[j - k] = td[j]
      BY <3>3 DEF Left
    <3>5. j - k < i
      BY <1>1, <3>2, <3>3
    <3> QED BY <3>2, <3>4, <3>5
  <2> QED BY <2>1, <2>2 DEF KindsOK
<1>4. CaughtOK(s)
  <2>1. ASSUME NEW i \in DOMAIN s, s[i].caught PROVE \E j \in DOMAIN s : i < j /\ ~s[j].caught
    <3>1. PICK j \in DOMAIN td : i + k < j /\ ~td[j].caught
      BY <1>1, <2>1 DEF ScriptOK, CaughtOK
    <3> QED BY <3>1, LeftLater
  <2>2. \A i, j \in DOMAIN s : s[i].does = "save_connection_config" => ~s[j].caught
    <3> SUFFICES ASSUME NEW i \in DOMAIN s, NEW j \in DOMAIN s, s[i].does = "save_connection_config"
                 PROVE  ~s[j].caught
      OBVIOUS
    <3>1. i + k \in DOMAIN td /\ j + k \in DOMAIN td /\ s[i] = td[i + k] /\ s[j] = td[j + k]
      BY <1>1
    <3> QED BY <3>1 DEF ScriptOK, CaughtOK
  <2>3. \A i, j \in DOMAIN s : i < j /\ s[i].does = "sync" =>
          s[j].does \in {"sync", "write", "commit", "commit unless disabled", "push"}
    <3> SUFFICES ASSUME NEW i \in DOMAIN s, NEW j \in DOMAIN s, i < j, s[i].does = "sync"
                 PROVE  s[j].does \in {"sync", "write", "commit", "commit unless disabled", "push"}
      OBVIOUS
    <3>1. /\ i + k \in DOMAIN td /\ j + k \in DOMAIN td /\ i + k < j + k
          /\ s[i] = td[i + k] /\ s[j] = td[j + k]
      BY <1>1
    <3> QED BY <3>1 DEF ScriptOK, CaughtOK
  <2> QED BY <2>1, <2>2, <2>3 DEF CaughtOK
<1>5. LinkedOK(s, d)
  <2>1. ASSUME NEW i \in DOMAIN s, s[i].does = "save_connection_config"
        PROVE  \E j \in DOMAIN s : i < j /\ s[j].does = "save_connection"
    <3>1. PICK j \in DOMAIN td : i + k < j /\ td[j].does = "save_connection"
      BY <1>1, <2>1 DEF ScriptOK, LinkedOK
    <3> QED BY <3>1, LeftLater
  <2>2. ASSUME NEW i \in DOMAIN s, s[i].does = "save_account"
        PROVE  /\ s[i].account \in DOMAIN d.accounts =>
                     d.accounts[s[i].account].connection = s[i].connection
               /\ \E j \in DOMAIN s : /\ i < j /\ s[j].does = "save_connection"
                                      /\ s[j].connection = s[i].connection
    <3>1. i + k \in DOMAIN td /\ s[i] = td[i + k]
      BY <1>1
    <3>2. PICK j \in DOMAIN td : /\ i + k < j /\ td[j].does = "save_connection"
                                 /\ td[j].connection = s[i].connection
      BY <2>2, <3>1 DEF ScriptOK, LinkedOK
    <3>3. \E n \in DOMAIN s : /\ i < n /\ s[n].does = "save_connection"
                              /\ s[n].connection = s[i].connection
      BY <3>2, LeftLater
    <3> QED BY <2>2, <3>1, <3>3 DEF ScriptOK, LinkedOK
  <2>3. \A i, j \in DOMAIN s :
          s[i].does = "save_account" /\ s[j].does = "save_account" /\ s[i].account = s[j].account
             => s[i].connection = s[j].connection
    BY <1>1, SMTT(30) DEF ScriptOK, LinkedOK
  <2>4. ASSUME NEW i \in DOMAIN s, s[i].does = "delete_account", s[i].account \in DOMAIN d.accounts
        PROVE  \E j \in DOMAIN s : /\ i < j /\ s[j].does = "delete_connection"
                                   /\ s[j].connection = d.accounts[s[i].account].connection
    <3>1. PICK j \in DOMAIN td : /\ i + k < j /\ td[j].does = "delete_connection"
                                 /\ td[j].connection = d.accounts[s[i].account].connection
      BY <1>1, <2>4 DEF ScriptOK, LinkedOK
    <3> QED BY <3>1, LeftLater
  <2> QED BY <2>1, <2>2, <2>3, <2>4 DEF LinkedOK
<1> QED BY <1>2, <1>3, <1>4, <1>5 DEF ScriptOK

\* What is left of a script that commits what it writes does so too.
LEMMA LeftCommits ==
  ASSUME NEW td, CommitsOK(td), NEW k, NEW s, Left(td, k, s)
  PROVE  CommitsOK(s)
<1> SUFFICES ASSUME NEW i \in DOMAIN s, s[i].does \in Writing
             PROVE  \E j \in DOMAIN s : i < j /\ s[j].does \in Committing
  BY DEF CommitsOK
<1>1. i + k \in DOMAIN td /\ s[i] = td[i + k]
  BY DEF Left
<1>2. PICK j \in DOMAIN td : i + k < j /\ td[j].does \in Committing
  BY <1>1 DEF CommitsOK
<1> QED BY <1>2, LeftLater

-----------------------------------------------------------------------------
(* The steps that write the directory *)

\* What a script says of the directory stays true while nothing is taken from it
\* but what the script deletes.
LEMMA ScriptStays ==
  ASSUME NEW d, NEW td, ScriptOK(td, d), NEW e,
         \/ /\ \E i \in DOMAIN td : td[i].does \in Deletes
            /\ DOMAIN e.accounts \subseteq DOMAIN d.accounts
            /\ \A a \in DOMAIN e.accounts : e.accounts[a].connection = d.accounts[a].connection
         \/ /\ \A i \in DOMAIN td : td[i].does \notin Deletes
            /\ DOMAIN d.configs \subseteq DOMAIN e.configs
            /\ \A i \in DOMAIN td : td[i].does = "save_account" /\ td[i].account \in DOMAIN e.accounts =>
                  e.accounts[td[i].account].connection = td[i].connection
  PROVE  ScriptOK(td, e)
<1>1. CASE /\ \E i \in DOMAIN td : td[i].does \in Deletes
           /\ DOMAIN e.accounts \subseteq DOMAIN d.accounts
           /\ \A a \in DOMAIN e.accounts : e.accounts[a].connection = d.accounts[a].connection
  <2>1. \A j \in DOMAIN td : td[j].does \in Deletes \cup {"commit"}
    BY <1>1 DEF ScriptOK, KindsOK
  <2>2. KindsOK(td, e)
    <3>1. \A j \in DOMAIN td : td[j].does \notin {"save_connection", "sync"}
      BY <2>1 DEF Deletes
    <3> QED BY <3>1 DEF ScriptOK, KindsOK
  <2>3. LinkedOK(td, e)
    <3>1. \A j \in DOMAIN td : td[j].does \notin {"save_connection_config", "save_account"}
      BY <2>1 DEF Deletes
    <3>2. \A i \in DOMAIN td : td[i].does = "delete_account" /\ td[i].account \in DOMAIN e.accounts =>
          \E j \in DOMAIN td : /\ i < j /\ td[j].does = "delete_connection"
                               /\ td[j].connection = e.accounts[td[i].account].connection
      BY <1>1 DEF ScriptOK, LinkedOK
    <3> QED BY <3>1, <3>2 DEF LinkedOK
  <2> QED BY <2>2, <2>3 DEF ScriptOK
<1>2. CASE /\ \A i \in DOMAIN td : td[i].does \notin Deletes
           /\ DOMAIN d.configs \subseteq DOMAIN e.configs
           /\ \A i \in DOMAIN td : td[i].does = "save_account" /\ td[i].account \in DOMAIN e.accounts =>
                 e.accounts[td[i].account].connection = td[i].connection
  <2>1. KindsOK(td, e)
    BY <1>2 DEF ScriptOK, KindsOK
  <2>2. LinkedOK(td, e)
    <3>1. \A i \in DOMAIN td : td[i].does # "delete_account"
      BY <1>2 DEF Deletes
    <3>2. \A i \in DOMAIN td : td[i].does = "save_account" =>
          /\ td[i].account \in DOMAIN e.accounts =>
                e.accounts[td[i].account].connection = td[i].connection
          /\ \E j \in DOMAIN td : /\ i < j /\ td[j].does = "save_connection"
                                  /\ td[j].connection = td[i].connection
      BY <1>2 DEF ScriptOK, LinkedOK
    <3> QED BY <3>1, <3>2 DEF ScriptOK, LinkedOK
  <2> QED BY <2>1, <2>2 DEF ScriptOK
<1> QED BY <1>1, <1>2

\* If all was well with a script that deletes nothing, and no account has changed hands.
LEMMA ScriptStaysSame ==
  ASSUME NEW d, NEW td, ScriptOK(td, d), NEW e,
         DOMAIN d.configs \subseteq DOMAIN e.configs, e.accounts = d.accounts
  PROVE  ScriptOK(td, e)
<1>1. CASE \E i \in DOMAIN td : td[i].does \in Deletes
  BY <1>1, ScriptStays
<1>2. CASE \A i \in DOMAIN td : td[i].does \notin Deletes
  <2>1. \A i \in DOMAIN td : td[i].does = "save_account" /\ td[i].account \in DOMAIN e.accounts =>
                 e.accounts[td[i].account].connection = td[i].connection
    BY DEF ScriptOK, LinkedOK
  <2> QED BY <1>2, <2>1, ScriptStays
<1> QED BY <1>1, <1>2

\* A step that does not write leaves the rest of a script.
LEMMA ScriptGoesOn ==
  ASSUME NEW d, NEW td, ScriptOK(td, d), td # <<>>, Head(td).does # "save_connection_config"
  PROVE  ScriptOK(Tail(td), d)
<1>1. td \in Seq(Steps)
  BY DEF ScriptOK
<1>2. /\ Tail(td) \in Seq(Steps) /\ Left(td, 1, Tail(td)) /\ Head(td) = td[1]
  BY <1>1, TailLeft
<1>3. \A j \in DOMAIN td : j <= 1 => j = 1
  BY <1>2 DEF Left
<1> QED BY <1>2, <1>3, LeftOK

FollowGoal(td, d, e) ==
    /\ DirectoryOK(e) /\ ScriptOK(Tail(td), e)
    /\ FollowOK(td, d) => FollowOK(Tail(td), e)

\* What heals and is not the head is in the tail.
LEMMA FollowTail ==
  ASSUME NEW d, NEW td \in Seq(Steps), td # <<>>, NEW e, FollowOK(td, d),
         \/ ByNameFollows(e)
         \/ \E i \in DOMAIN Tail(td) : Tail(td)[i].does = "save_connection"
         \/ /\ ByNameFollows(d) => ByNameFollows(e)
            /\ Head(td).does \notin {"save_connection", "delete_connection", "rebuild_all_symlinks"},
         \A c \in DOMAIN e.states :
            \/ OwnFollow(e, c)
            \/ \E i \in DOMAIN Tail(td) : Heals(Tail(td)[i], c)
            \/ /\ c \in DOMAIN d.states
               /\ OwnFollow(d, c) => OwnFollow(e, c)
               /\ ~Heals(Head(td), c)
  PROVE  FollowOK(Tail(td), e)
<1>1. Left(td, 1, Tail(td)) /\ Head(td) = td[1]
  BY TailLeft
<1>2. ASSUME NEW i \in DOMAIN td, i # 1 PROVE \E j \in DOMAIN Tail(td) : Tail(td)[j] = td[i]
  <2>1. i > 1
    BY <1>1, <1>2 DEF Left
  <2>2. i - 1 \in DOMAIN Tail(td) /\ Tail(td)[i - 1] = td[i]
    BY <1>1, <2>1 DEF Left
  <2> QED BY <2>2
<1>3. \/ ByNameFollows(e)
      \/ \E i \in DOMAIN Tail(td) :
            Tail(td)[i].does \in {"save_connection", "delete_connection", "rebuild_all_symlinks"}
  BY <1>1, <1>2 DEF FollowOK
<1>4. ASSUME NEW c \in DOMAIN e.states
      PROVE  OwnFollow(e, c) \/ \E i \in DOMAIN Tail(td) : Heals(Tail(td)[i], c)
  <2>1. CASE c \in DOMAIN d.states /\ (OwnFollow(d, c) => OwnFollow(e, c)) /\ ~Heals(Head(td), c)
    BY <1>1, <1>2, <2>1 DEF FollowOK
  <2> QED BY <2>1
<1> QED BY <1>3, <1>4 DEF FollowOK

\* A step that saves a configuration leaves a script that is good and that heals the links.
LEMMA SaveConfigStep ==
  ASSUME NEW d, DirectoryOK(d), NEW td, ScriptOK(td, d), td # <<>>,
         Head(td).does = "save_connection_config", NEW e, e = After(d, Head(td))
  PROVE  FollowGoal(td, d, e)
<1> DEFINE s == Head(td)
<1>1. td \in Seq(Steps) /\ 1 \in DOMAIN td /\ s = td[1] /\ Left(td, 1, Tail(td)) /\ s \in Steps
      /\ Tail(td) \in Seq(Steps)
  BY TailLeft DEF ScriptOK
<1>2. Valid(s)
  BY <1>1 DEF ScriptOK
<1>3. e = save_connection_config(d, s.connection, [name |-> s.name, synchronizer |-> s.synchronizer])
  BY DEF After
<1>4. /\ s.connection \in ConnectionId
      /\ [name |-> s.name, synchronizer |-> s.synchronizer] \in [name : Name, synchronizer : Synchronizers]
  BY <1>1, <1>2 DEF Valid, Steps
<1>5. DirectoryOK(e) /\ SaveConfigEffect(d, e, s.connection)
  BY <1>3, <1>4, SaveConfigDoes
<1>6. ScriptOK(td, e)
  BY <1>5, ScriptStaysSame DEF SaveConfigEffect
<1>7. ScriptOK(Tail(td), e)
  <2>1. \A j \in DOMAIN td : j <= 1 => j = 1
    BY <1>1 DEF Left
  <2>2. s.connection \in DOMAIN e.configs
    BY <1>5 DEF SaveConfigEffect
  <2> QED BY <1>1, <1>6, <2>1, <2>2, LeftOK
<1>8. ASSUME FollowOK(td, d) PROVE FollowOK(Tail(td), e)
  <2>1. PICK j \in DOMAIN td : 1 < j /\ td[j].does = "save_connection"
    BY <1>1 DEF ScriptOK, LinkedOK
  <2>2. j - 1 \in DOMAIN Tail(td) /\ Tail(td)[j - 1].does = "save_connection"
    BY <1>1, <2>1 DEF Left
  <2>3. \A c \in DOMAIN e.states : c \in DOMAIN d.states /\ (OwnFollow(d, c) => OwnFollow(e, c)) /\ ~Heals(s, c)
    BY <1>5 DEF SaveConfigEffect, Heals
  <2> QED BY <1>1, <1>8, <2>2, <2>3, FollowTail
<1> QED BY <1>5, <1>7, <1>8 DEF FollowGoal

\* So does a step that saves a connection.
LEMMA SaveConnectionStep ==
  ASSUME NEW d, DirectoryOK(d), NEW td, ScriptOK(td, d), td # <<>>,
         Head(td).does = "save_connection", NEW e, e = After(d, Head(td))
  PROVE  FollowGoal(td, d, e)
<1> DEFINE s == Head(td)
<1>1. td \in Seq(Steps) /\ 1 \in DOMAIN td /\ s = td[1] /\ Left(td, 1, Tail(td)) /\ s \in Steps
  BY TailLeft DEF ScriptOK
<1>2. s.connection \in DOMAIN d.configs
  <2>1. \A j \in DOMAIN td : ~(j < 1)
    BY <1>1 DEF Left
  <2> QED BY <1>1, <2>1 DEF ScriptOK, KindsOK
<1>3. e = save_connection(d, s.connection, s.ids) /\ s.ids \in Seq(AccountId)
  BY <1>1 DEF After, Steps
<1>4. DirectoryOK(e) /\ SaveConnectionEffect(d, e, s.connection)
  BY <1>2, <1>3, SaveConnectionDoes
<1>5. ScriptOK(td, e)
  BY <1>4, ScriptStaysSame DEF SaveConnectionEffect
<1>6. ScriptOK(Tail(td), e)
  BY <1>5, ScriptGoesOn
<1>7. ASSUME FollowOK(td, d) PROVE FollowOK(Tail(td), e)
  <2>1. ASSUME NEW c \in DOMAIN e.states
        PROVE  \/ OwnFollow(e, c)
               \/ c \in DOMAIN d.states /\ (OwnFollow(d, c) => OwnFollow(e, c)) /\ ~Heals(s, c)
    BY <1>4 DEF SaveConnectionEffect, Heals
  <2>2. ByNameFollows(e)
    BY <1>4 DEF SaveConnectionEffect
  <2> QED BY <1>1, <1>7, <2>1, <2>2, FollowTail
<1> QED BY <1>4, <1>6, <1>7 DEF FollowGoal

\* So does a step that deletes a connection.
LEMMA DeleteConnectionStep ==
  ASSUME NEW d, DirectoryOK(d), NEW td, ScriptOK(td, d), td # <<>>,
         Head(td).does = "delete_connection", NEW e, e = After(d, Head(td))
  PROVE  FollowGoal(td, d, e)
<1> DEFINE s == Head(td)
<1>1. td \in Seq(Steps) /\ 1 \in DOMAIN td /\ s = td[1] /\ Left(td, 1, Tail(td)) /\ s \in Steps
  BY TailLeft DEF ScriptOK
<1>2. e = delete_connection(d, s.connection)
  BY DEF After
<1>3. DirectoryOK(e) /\ DeleteConnectionEffect(d, e, s.connection)
  BY <1>2, DeleteConnectionDoes
<1>4. ScriptOK(td, e)
  <2>1. \E i \in DOMAIN td : td[i].does \in Deletes
    BY <1>1 DEF Deletes
  <2> QED BY <1>3, <2>1, ScriptStays DEF DeleteConnectionEffect
<1>5. ScriptOK(Tail(td), e)
  BY <1>4, ScriptGoesOn
<1>6. ASSUME FollowOK(td, d) PROVE FollowOK(Tail(td), e)
  <2>1. ASSUME NEW c \in DOMAIN e.states
        PROVE  c \in DOMAIN d.states /\ (OwnFollow(d, c) => OwnFollow(e, c)) /\ ~Heals(s, c)
    BY <1>3 DEF DeleteConnectionEffect, Heals
  <2>2. ByNameFollows(e)
    BY <1>3 DEF DeleteConnectionEffect
  <2> QED BY <1>1, <1>6, <2>1, <2>2, FollowTail
<1> QED BY <1>3, <1>5, <1>6 DEF FollowGoal

\* So does a step that saves an account.
LEMMA SaveAccountStep ==
  ASSUME NEW d, DirectoryOK(d), NEW td, ScriptOK(td, d), td # <<>>,
         Head(td).does = "save_account", NEW e, e = After(d, Head(td))
  PROVE  FollowGoal(td, d, e)
<1> DEFINE s == Head(td)
           account == [connection |-> s.connection, name |-> s.name, active |-> s.active]
<1>1. td \in Seq(Steps) /\ 1 \in DOMAIN td /\ s = td[1] /\ Left(td, 1, Tail(td)) /\ s \in Steps
  BY TailLeft DEF ScriptOK
<1>2. Valid(s)
  BY <1>1 DEF ScriptOK
<1>3. e = save_account(d, s.account, account)
  BY DEF After
<1>4. s.account \in AccountId /\ account \in [connection : ConnectionId, name : Name, active : BOOLEAN]
  BY <1>1, <1>2 DEF Valid, Steps
<1>5. s.account \in DOMAIN d.accounts => d.accounts[s.account].connection = account.connection
  BY <1>1 DEF ScriptOK, LinkedOK
<1>6. /\ DirectoryOK(e) /\ AccountEffect(d, e, s.account)
      /\ DOMAIN e.accounts = DOMAIN d.accounts \cup {s.account}
      /\ e.accounts[s.account].connection = account.connection
      /\ \A b \in DOMAIN d.accounts : e.accounts[b].connection = d.accounts[b].connection
      /\ \A c : c # account.connection /\ OwnFollow(d, c) => OwnFollow(e, c)
  BY <1>3, <1>4, <1>5, SaveAccountDoes
<1>7. account.connection = s.connection
  OBVIOUS
<1> HIDE DEF account, s
<1>8. ScriptOK(td, e)
  <2>1. \A i \in DOMAIN td : td[i].does \notin Deletes
    BY <1>1 DEF ScriptOK, KindsOK, Deletes, s
  <2>2. ASSUME NEW i \in DOMAIN td, td[i].does = "save_account", td[i].account \in DOMAIN e.accounts
        PROVE  e.accounts[td[i].account].connection = td[i].connection
    <3>1. CASE td[i].account = s.account
      <4>1. td[i].connection = s.connection
        BY <1>1, <2>2, <3>1 DEF ScriptOK, LinkedOK, s
      <4> QED BY <1>6, <1>7, <3>1, <4>1
    <3>2. CASE td[i].account # s.account
      <4>1. td[i].account \in DOMAIN d.accounts
        BY <1>6, <2>2, <3>2
      <4> QED BY <1>6, <2>2, <4>1 DEF ScriptOK, LinkedOK
    <3> QED BY <3>1, <3>2
  <2> QED BY <1>6, <2>1, <2>2, ScriptStays DEF AccountEffect
<1>9. ScriptOK(Tail(td), e)
  BY <1>8, ScriptGoesOn
<1>10. ASSUME FollowOK(td, d) PROVE FollowOK(Tail(td), e)
  <2>1. PICK j \in DOMAIN td : 1 < j /\ td[j].does = "save_connection" /\ td[j].connection = s.connection
    BY <1>1 DEF ScriptOK, LinkedOK, s
  <2>2. j - 1 \in DOMAIN Tail(td) /\ Tail(td)[j - 1] = td[j]
    BY <1>1, <2>1 DEF Left
  <2>3. Heals(Tail(td)[j - 1], s.connection)
    BY <2>1, <2>2 DEF Heals
  <2>4. ASSUME NEW c \in DOMAIN e.states, c # s.connection
        PROVE  c \in DOMAIN d.states /\ (OwnFollow(d, c) => OwnFollow(e, c)) /\ ~Heals(Head(td), c)
    BY <1>6, <1>7, <2>4 DEF AccountEffect, Heals
  <2>5. \A c \in DOMAIN e.states :
            \/ OwnFollow(e, c)
            \/ \E i \in DOMAIN Tail(td) : Heals(Tail(td)[i], c)
            \/ /\ c \in DOMAIN d.states
               /\ OwnFollow(d, c) => OwnFollow(e, c)
               /\ ~Heals(Head(td), c)
    BY <2>2, <2>3, <2>4
  <2>6. ByNameFollows(d) => ByNameFollows(e)
    BY <1>6 DEF AccountEffect
  <2> QED BY <1>1, <1>10, <2>5, <2>6, FollowTail
<1> QED BY <1>6, <1>9, <1>10 DEF FollowGoal

\* So does a step that deletes an account.
LEMMA DeleteAccountStep ==
  ASSUME NEW d, DirectoryOK(d), NEW td, ScriptOK(td, d), td # <<>>,
         Head(td).does = "delete_account", NEW e, e = After(d, Head(td))
  PROVE  FollowGoal(td, d, e)
<1> DEFINE s == Head(td)
<1>1. td \in Seq(Steps) /\ 1 \in DOMAIN td /\ s = td[1] /\ Left(td, 1, Tail(td)) /\ s \in Steps
  BY TailLeft DEF ScriptOK
<1>2. e = delete_account(d, s.account)
  BY DEF After
<1>3. /\ DirectoryOK(e) /\ AccountEffect(d, e, s.account)
      /\ DOMAIN e.accounts = DOMAIN d.accounts \ {s.account}
      /\ \A b \in DOMAIN e.accounts : e.accounts[b] = d.accounts[b]
      /\ \A c : OwnFollow(d, c) /\ (s.account \in DOMAIN d.accounts => d.accounts[s.account].connection # c)
                    => OwnFollow(e, c)
  BY <1>2, DeleteAccountDoes
<1>4. ScriptOK(td, e)
  <2>1. \E i \in DOMAIN td : td[i].does \in Deletes
    BY <1>1 DEF Deletes
  <2> QED BY <1>3, <2>1, ScriptStays
<1>5. ScriptOK(Tail(td), e)
  BY <1>4, ScriptGoesOn
<1>6. ASSUME FollowOK(td, d) PROVE FollowOK(Tail(td), e)
  <2>1. ByNameFollows(d) => ByNameFollows(e)
    BY <1>3 DEF AccountEffect
  <2>2. \A c \in DOMAIN e.states : c \in DOMAIN d.states /\ ~Heals(Head(td), c)
    BY <1>3 DEF AccountEffect, Heals
  <2>3. CASE s.account \notin DOMAIN d.accounts
    <3>1. \A c \in DOMAIN e.states : OwnFollow(d, c) => OwnFollow(e, c)
      BY <1>3, <2>3
    <3> QED BY <1>1, <1>6, <2>1, <2>2, <3>1, FollowTail
  <2>4. CASE s.account \in DOMAIN d.accounts
    <3> DEFINE owner == d.accounts[s.account].connection
    <3>1. PICK j \in DOMAIN td : 1 < j /\ td[j].does = "delete_connection" /\ td[j].connection = owner
      BY <1>1, <2>4 DEF ScriptOK, LinkedOK
    <3>2. j - 1 \in DOMAIN Tail(td) /\ Tail(td)[j - 1] = td[j]
      BY <1>1, <3>1 DEF Left
    <3>3. Heals(Tail(td)[j - 1], owner)
      BY <3>1, <3>2 DEF Heals
    <3>4. \A c \in DOMAIN e.states : c # owner /\ OwnFollow(d, c) => OwnFollow(e, c)
      BY <1>3, <2>4
    <3> HIDE DEF owner
    <3>5. \A c \in DOMAIN e.states :
            \/ OwnFollow(e, c)
            \/ \E i \in DOMAIN Tail(td) : Heals(Tail(td)[i], c)
            \/ /\ c \in DOMAIN d.states
               /\ OwnFollow(d, c) => OwnFollow(e, c)
               /\ ~Heals(Head(td), c)
      BY <2>2, <3>2, <3>3, <3>4
    <3> QED BY <1>1, <1>6, <2>1, <3>5, FollowTail
  <2> QED BY <2>3, <2>4
<1> QED BY <1>3, <1>5, <1>6 DEF FollowGoal

\* So does sync symlinks.
LEMMA RebuildAllStep ==
  ASSUME NEW d, DirectoryOK(d), NEW td, ScriptOK(td, d), td # <<>>,
         Head(td).does = "rebuild_all_symlinks", NEW e, e = After(d, Head(td))
  PROVE  FollowGoal(td, d, e)
<1>1. td \in Seq(Steps)
  BY DEF ScriptOK
<1>2. e = rebuild_all_symlinks(d)
  BY DEF After
<1>3. /\ DirectoryOK(e) /\ LinksFollow(e)
      /\ e.configs = d.configs /\ e.states = d.states /\ e.accounts = d.accounts
  BY <1>2, RebuildAllDoes
<1>4. ScriptOK(Tail(td), e)
  <2>1. ScriptOK(td, e)
    BY <1>3, ScriptStaysSame
  <2> QED BY <2>1, ScriptGoesOn
<1>5. FollowOK(Tail(td), e)
  BY <1>3, FollowParts DEF FollowOK
<1> QED BY <1>3, <1>4, <1>5 DEF FollowGoal

\* So does every step that writes the directory.
LEMMA WriteGoesOn ==
  ASSUME NEW d, DirectoryOK(d), NEW td, ScriptOK(td, d), td # <<>>,
         Head(td).does \in WritesDirectory, NEW e, e = After(d, Head(td))
  PROVE  FollowGoal(td, d, e)
BY SaveConfigStep, SaveConnectionStep, DeleteConnectionStep, SaveAccountStep, DeleteAccountStep,
   RebuildAllStep DEF WritesDirectory

\* A step that leaves the directory alone leaves a script that is good and that heals the links.
LEMMA OtherGoesOn ==
  ASSUME NEW d, NEW td, ScriptOK(td, d), td # <<>>, Head(td).does \notin WritesDirectory
  PROVE  /\ ScriptOK(Tail(td), d)
         /\ FollowOK(td, d) => FollowOK(Tail(td), d)
<1>1. td \in Seq(Steps)
  BY DEF ScriptOK
<1>2. ScriptOK(Tail(td), d)
  BY ScriptGoesOn DEF WritesDirectory
<1>3. ASSUME FollowOK(td, d) PROVE FollowOK(Tail(td), d)
  <2>1. \A c : ~Heals(Head(td), c)
    BY DEF Heals, WritesDirectory
  <2>2. Head(td).does \notin {"save_connection", "delete_connection", "rebuild_all_symlinks"}
    BY DEF WritesDirectory
  <2> QED BY <1>1, <1>3, <2>1, <2>2, FollowTail
<1> QED BY <1>2, <1>3

-----------------------------------------------------------------------------
(* The steps of a sync in its place *)

\* The steps, field by field.
LEMMA StepsAre ==
  /\ maybe_auto_commit \in Steps /\ maybe_auto_commit.does = "commit" /\ ~maybe_auto_commit.caught
  /\ AutoCommitter \in Steps /\ AutoCommitter.does = "commit unless disabled" /\ ~AutoCommitter.caught
  /\ maybe_push_after_sync \in Steps /\ maybe_push_after_sync.does = "push" /\ ~maybe_push_after_sync.caught
  /\ Refuse \in Steps /\ Refuse.does = "refuse" /\ ~Refuse.caught
  /\ \A f \in Files : /\ WriteOf(f) \in Steps /\ WriteOf(f).does = "write"
                          /\ ~WriteOf(f).caught
  /\ Step("rebuild_all_symlinks") \in Steps /\ Step("rebuild_all_symlinks").does = "rebuild_all_symlinks"
  /\ ~Step("rebuild_all_symlinks").caught
<1>1. \A does \in Does : /\ Step(does) \in Steps /\ Step(does).does = does /\ ~Step(does).caught
  <2>1. <<>> \in Seq(AccountId)
    OBVIOUS
  <2> QED BY <2>1 DEF Step, Steps, Synchronizers, Files
<1>2. {"commit", "commit unless disabled", "push", "refuse", "write", "rebuild_all_symlinks"} \subseteq Does
  BY DEF Does, WritesDirectory
<1>3. \A f \in Files : /\ WriteOf(f) \in Steps /\ WriteOf(f).does = "write"
                           /\ ~WriteOf(f).caught
  <2>1. <<>> \in Seq(AccountId)
    OBVIOUS
  <2> QED BY <1>2, <2>1 DEF WriteOf, Step, Steps, Synchronizers, Files
<1> QED BY <1>1, <1>2, <1>3 DEF maybe_auto_commit, AutoCommitter, maybe_push_after_sync, Refuse

\* The step that saves an account, field by field.
LEMMA SaveAccountIs ==
  ASSUME NEW a \in AccountId, NEW c \in ConnectionId, NEW n \in Name, NEW active \in BOOLEAN,
         NEW s, s = SaveAccount(a, c, n, active)
  PROVE  /\ s \in Steps /\ s.does = "save_account" /\ s.account = a /\ s.connection = c /\ s.name = n
         /\ ~s.caught
<1>1. <<>> \in Seq(AccountId)
  OBVIOUS
<1> QED BY <1>1 DEF SaveAccount, Step, Steps, Does, WritesDirectory, Synchronizers, Files

\* The step that saves a connection, field by field.
LEMMA SaveConnectionIs ==
  ASSUME NEW c \in ConnectionId, NEW ids \in Seq(AccountId), NEW s, s = SaveConnection(c, ids)
  PROVE  s \in Steps /\ s.does = "save_connection" /\ s.connection = c /\ ~s.caught
BY DEF SaveConnection, Step, Steps, Does, WritesDirectory, Synchronizers, Files

\* The step that syncs a connection, field by field.
LEMMA SyncOfIs ==
  ASSUME NEW c \in ConnectionId, NEW caught \in BOOLEAN, NEW s, s = SyncOf(c, caught)
  PROVE  s \in Steps /\ s.does = "sync" /\ s.connection = c /\ s.caught = caught
<1>1. <<>> \in Seq(AccountId)
  OBVIOUS
<1> QED BY <1>1 DEF SyncOf, Step, Steps, Does, WritesDirectory, Synchronizers, Files

\* The step that saves a configuration, field by field.
LEMMA SaveConfigIs ==
  ASSUME NEW c \in ConnectionId, NEW n \in Name, NEW y \in Synchronizers, NEW s, s = SaveConfig(c, n, y)
  PROVE  s \in Steps /\ s.does = "save_connection_config" /\ s.connection = c /\ s.name = n /\ ~s.caught
<1>1. <<>> \in Seq(AccountId)
  OBVIOUS
<1> QED BY <1>1 DEF SaveConfig, Step, Steps, Does, WritesDirectory, Synchronizers, Files

\* The step that deletes an account, field by field.
LEMMA DeleteAccountIs ==
  ASSUME NEW a \in AccountId, NEW s, s = DeleteAccount(a)
  PROVE  s \in Steps /\ s.does = "delete_account" /\ s.account = a /\ ~s.caught
<1>1. <<>> \in Seq(AccountId)
  OBVIOUS
<1> QED BY <1>1 DEF DeleteAccount, Step, Steps, Does, WritesDirectory, Synchronizers, Files

\* The step that deletes a connection, field by field.
LEMMA DeleteConnectionIs ==
  ASSUME NEW c \in ConnectionId, NEW s, s = DeleteConnection(c)
  PROVE  s \in Steps /\ s.does = "delete_connection" /\ s.connection = c /\ ~s.caught
<1>1. <<>> \in Seq(AccountId)
  OBVIOUS
<1> QED BY <1>1 DEF DeleteConnection, Step, Steps, Does, WritesDirectory, Synchronizers, Files

\* What is caught is the same otherwise.
LEMMA CaughtIs ==
  ASSUME NEW s \in Steps, NEW caught \in BOOLEAN
  PROVE  LET t == [s EXCEPT !.caught = caught]
         IN  /\ t \in Steps /\ t.does = s.does /\ t.connection = s.connection /\ t.account = s.account
             /\ t.name = s.name /\ t.caught = caught
BY DEF Steps

-----------------------------------------------------------------------------
\* Scripts of steps that need nothing of the others.
Plain == {"write", "commit", "commit unless disabled", "push", "refuse", "rebuild_all_symlinks"}

\* Steps that need nothing of the others are good for any directory.
LEMMA PlainScript ==
  ASSUME NEW d, NEW td \in Seq(Steps), \A i \in DOMAIN td : td[i].does \in Plain /\ ~td[i].caught
  PROVE  ScriptOK(td, d)
<1>1. \A i \in DOMAIN td : td[i].does \notin {"save_connection_config", "save_account", "delete_account",
             "save_connection", "sync", "delete_connection"}
  BY DEF Plain
<1>2. \A i \in DOMAIN td : Valid(td[i])
  BY <1>1 DEF Valid
<1>3. KindsOK(td, d)
  BY <1>1 DEF KindsOK, Deletes
<1>4. CaughtOK(td)
  BY <1>1 DEF CaughtOK
<1>5. LinkedOK(td, d)
  BY <1>1 DEF LinkedOK
<1> QED BY <1>2, <1>3, <1>4, <1>5 DEF ScriptOK

\* Of syncs, and of what comes after them.
LEMMA SyncsScript ==
  ASSUME NEW d, NEW td \in Seq(Steps),
         \A i \in DOMAIN td : td[i].does \in {"sync", "write", "commit", "commit unless disabled", "push"},
         \A i \in DOMAIN td : td[i].does = "sync" => td[i].connection \in DOMAIN d.configs,
         \A i \in DOMAIN td : td[i].caught => \E j \in DOMAIN td : i < j /\ ~td[j].caught
  PROVE  ScriptOK(td, d)
<1>1. \A i \in DOMAIN td : td[i].does \notin {"save_connection_config", "save_account", "delete_account",
             "save_connection", "delete_connection"}
  OBVIOUS
<1>2. \A i \in DOMAIN td : Valid(td[i])
  BY <1>1 DEF Valid
<1>3. KindsOK(td, d)
  BY <1>1 DEF KindsOK, Deletes
<1>4. CaughtOK(td)
  BY <1>1 DEF CaughtOK
<1>5. LinkedOK(td, d)
  BY <1>1 DEF LinkedOK
<1> QED BY <1>2, <1>3, <1>4, <1>5 DEF ScriptOK

-----------------------------------------------------------------------------
\* What the sync of connection c comes to.
SyncSteps(s, d, c) ==
    /\ s \in Seq(Steps)
    /\ \A i \in DOMAIN s : Valid(s[i]) /\ s[i].does \in {"save_account", "save_connection", "write", "commit unless disabled"}
    /\ \A i \in DOMAIN s : s[i].does \in {"save_account", "save_connection"} => s[i].connection = c
    /\ \A i \in DOMAIN s : s[i].does = "save_account" =>
          /\ s[i].account \in DOMAIN d.accounts => d.accounts[s[i].account].connection = c
          /\ \E j \in DOMAIN s : i < j /\ s[j].does = "save_connection" 
    /\ CommitsOK(s)

\* u is s, of length n, and then t.
Join(s, n, t, u) ==
    /\ n \in Nat
    /\ \A i \in DOMAIN s : i \in Nat /\ i <= n /\ i \in DOMAIN u /\ u[i] = s[i]
    /\ \A i \in DOMAIN t : i \in Nat /\ i >= 1 /\ n + i \in DOMAIN u /\ u[n + i] = t[i]
    /\ \A i \in DOMAIN u : i \in DOMAIN s \/ \E j \in DOMAIN t : i = n + j

\* What is in one list after another is in the one or in the other.
Parts(s, n, t, u) ==
    \A i \in DOMAIN u : \/ i \in DOMAIN s /\ i \in Nat /\ i <= n /\ u[i] = s[i]
                        \/ \E j \in DOMAIN t : i = n + j /\ u[i] = t[j]

\* So it is when the one is joined to the other.
LEMMA JoinParts ==
  ASSUME NEW s, NEW n, NEW t, NEW u, Join(s, n, t, u)
  PROVE  Parts(s, n, t, u)
<1> SUFFICES ASSUME NEW i \in DOMAIN u
             PROVE  \/ i \in DOMAIN s /\ i \in Nat /\ i <= n /\ u[i] = s[i]
                    \/ \E j \in DOMAIN t : i = n + j /\ u[i] = t[j]
  BY DEF Parts
<1>1. CASE i \in DOMAIN s
  BY <1>1 DEF Join
<1>2. CASE i \notin DOMAIN s
  <2>1. PICK j \in DOMAIN t : i = n + j
    BY <1>2 DEF Join
  <2> QED BY <2>1 DEF Join
<1> QED BY <1>1, <1>2

\* A concatenation is the one and then the other.
LEMMA Joined ==
  ASSUME NEW A, NEW s \in Seq(A), NEW t \in Seq(A), NEW u, u = s \o t
  PROVE  u \in Seq(A) /\ Join(s, Len(s), t, u)
<1>1. Len(s) \in Nat /\ Len(t) \in Nat /\ DOMAIN s = 1 .. Len(s) /\ DOMAIN t = 1 .. Len(t)
  OBVIOUS
<1>2. /\ s \o t \in Seq(A) /\ Len(s \o t) = Len(s) + Len(t)
      /\ \A i \in 1 .. Len(s) + Len(t) : (s \o t)[i] = IF i <= Len(s) THEN s[i] ELSE t[i - Len(s)]
  BY ConcatProperties
<1>3. DOMAIN (s \o t) = 1 .. Len(s) + Len(t)
  BY <1>2
<1>4. \A i \in DOMAIN s : i \in Nat /\ i <= Len(s) /\ i \in DOMAIN (s \o t) /\ (s \o t)[i] = s[i]
  BY <1>1, <1>2, <1>3
<1>5. ASSUME NEW i \in DOMAIN t
      PROVE  i \in Nat /\ i >= 1 /\ Len(s) + i \in DOMAIN (s \o t) /\ (s \o t)[Len(s) + i] = t[i]
  <2>1. i \in Nat /\ i >= 1 /\ i <= Len(t)
    BY <1>1
  <2>2. Len(s) + i \in 1 .. Len(s) + Len(t) /\ ~(Len(s) + i <= Len(s)) /\ (Len(s) + i) - Len(s) = i
    BY <1>1, <2>1
  <2> QED BY <1>2, <1>3, <2>1, <2>2
<1>6. ASSUME NEW i \in DOMAIN (s \o t) PROVE i \in DOMAIN s \/ \E j \in DOMAIN t : i = Len(s) + j
  <2>1. i \in Nat /\ i >= 1 /\ i <= Len(s) + Len(t)
    BY <1>1, <1>3
  <2>2. CASE i <= Len(s)
    BY <1>1, <2>1, <2>2
  <2>3. CASE i > Len(s)
    <3>1. i - Len(s) \in DOMAIN t /\ i = Len(s) + (i - Len(s))
      BY <1>1, <2>1, <2>3
    <3> QED BY <3>1
  <2> QED BY <1>1, <2>1, <2>2, <2>3
<1> QED BY <1>1, <1>2, <1>4, <1>5, <1>6 DEF Join

\* Of two scripts that commit what they write, the one and then the other does.
LEMMA JoinCommits ==
  ASSUME NEW s, NEW t, NEW u, NEW n, Join(s, n, t, u), CommitsOK(s), CommitsOK(t)
  PROVE  CommitsOK(u)
<1>3. ASSUME NEW i \in DOMAIN u, u[i].does \in Writing
      PROVE  \E j \in DOMAIN u : i < j /\ u[j].does \in Committing
  <2>1. CASE i \in DOMAIN s
    <3>1. u[i] = s[i]
      BY <2>1 DEF Join
    <3>2. PICK j \in DOMAIN s : i < j /\ s[j].does \in Committing
      BY <1>3, <2>1, <3>1 DEF CommitsOK
    <3>3. j \in DOMAIN u /\ u[j] = s[j]
      BY DEF Join
    <3> QED BY <3>2, <3>3
  <2>2. CASE \E k \in DOMAIN t : i = n + k
    <3>1. PICK k \in DOMAIN t : i = n + k
      BY <2>2
    <3>2. u[i] = t[k] /\ k \in Nat /\ n \in Nat
      BY <3>1 DEF Join
    <3>3. PICK j \in DOMAIN t : k < j /\ t[j].does \in Committing
      BY <1>3, <3>2 DEF CommitsOK
    <3>4. n + j \in DOMAIN u /\ u[n + j] = t[j] /\ j \in Nat
      BY DEF Join
    <3>5. i < n + j
      BY <3>1, <3>2, <3>3, <3>4
    <3> QED BY <3>3, <3>4, <3>5
  <2> QED BY <2>1, <2>2 DEF Join
<1> QED BY <1>3 DEF CommitsOK

\* So does their concatenation.
LEMMA JoinedCommits ==
  ASSUME NEW A, NEW s \in Seq(A), NEW t \in Seq(A), CommitsOK(s), CommitsOK(t), NEW u, u = s \o t
  PROVE  CommitsOK(u)
<1>1. \E n : Join(s, n, t, u)
  BY Joined
<1> QED BY <1>1, JoinCommits

\* The steps of a sync take its place.
\* v is s, caught or not.
CaughtAs(v, s, caught) ==
    /\ v \in Seq(Steps) /\ DOMAIN v = DOMAIN s
    /\ \A i \in DOMAIN s : /\ v[i] \in Steps /\ v[i].does = s[i].does /\ v[i].connection = s[i].connection
                           /\ v[i].account = s[i].account /\ v[i].name = s[i].name /\ v[i].caught = caught

\* A function on 1 .. n is a sequence of length n.
LEMMA ListLength ==
  ASSUME NEW A, NEW n \in Nat, NEW s \in [1 .. n -> A]
  PROVE  s \in Seq(A) /\ Len(s) = n
OBVIOUS

\* A sequence is a function on 1 .. its length.
LEMMA ListParts ==
  ASSUME NEW A, NEW s \in Seq(A)
  PROVE  DOMAIN s = 1 .. Len(s) /\ Len(s) \in Nat /\ \A i \in DOMAIN s : s[i] \in A
OBVIOUS

\* The steps of a sync are caught when the sync was.
LEMMA SyncStepsCaught ==
  ASSUME NEW s \in Seq(Steps), NEW caught \in BOOLEAN,
         NEW v, v = [i \in DOMAIN s |-> [s[i] EXCEPT !.caught = caught]]
  PROVE  CaughtAs(v, s, caught)
<1>1. DOMAIN s = 1 .. Len(s) /\ Len(s) \in Nat /\ \A i \in DOMAIN s : s[i] \in Steps
  BY ListParts
<1>2. ASSUME NEW i \in DOMAIN s
      PROVE  /\ v[i] \in Steps /\ v[i].does = s[i].does /\ v[i].connection = s[i].connection
             /\ v[i].account = s[i].account /\ v[i].name = s[i].name /\ v[i].caught = caught
  <2>1. v[i] = [s[i] EXCEPT !.caught = caught]
    OBVIOUS
  <2> QED BY <1>1, <2>1, CaughtIs, ZenonT(60)
<1>3. PICK n \in Nat : n = Len(s)
  BY <1>1
<1>4. v \in [1 .. n -> Steps] /\ DOMAIN v = DOMAIN s
  BY <1>1, <1>2, <1>3
<1>5. v \in Seq(Steps)
  BY <1>4, ListLength
<1> QED BY <1>2, <1>4, <1>5 DEF CaughtAs

\* The steps of a sync, put in its place, leave a script that is good and that heals the links.
LEMMA SyncGoesOn ==
  ASSUME NEW d, NEW td \in Seq(Steps), ScriptOK(td, d), td # <<>>, NEW h, h = Head(td), h.does = "sync",
         NEW s, SyncSteps(s, d, h.connection), h.connection \in DOMAIN d.configs,
         NEW v, CaughtAs(v, s, h.caught), NEW t, t = Tail(td),
         NEW u \in Seq(Steps), NEW n, Join(v, n, t, u)
  PROVE  /\ ScriptOK(u, d)
         /\ FollowOK(td, d) => FollowOK(u, d)
         /\ CommitsOK(td) => CommitsOK(u)
<1>1. t \in Seq(Steps) /\ Left(td, 1, t) /\ 1 \in DOMAIN td /\ h = td[1] /\ h \in Steps
  BY TailLeft
<1>4. ASSUME NEW i \in DOMAIN s
      PROVE  /\ v[i] \in Steps /\ v[i].does = s[i].does /\ v[i].connection = s[i].connection
             /\ v[i].account = s[i].account /\ v[i].name = s[i].name /\ v[i].caught = h.caught
  BY DEF CaughtAs
<1>5. v \in Seq(Steps) /\ DOMAIN v = DOMAIN s
  BY DEF CaughtAs
<1>6. ScriptOK(t, d)
  BY ScriptGoesOn
<1>20. Join(v, n, t, u)
  OBVIOUS
<1>9. \A j \in DOMAIN t : t[j].does \in {"sync", "write", "commit", "commit unless disabled", "push"}
  <2> TAKE j \in DOMAIN t
  <2>1. j + 1 \in DOMAIN td /\ t[j] = td[j + 1] /\ 1 < j + 1
    BY <1>1 DEF Left
  <2> QED BY <1>1, <2>1 DEF ScriptOK, CaughtOK
<1>10. \A j \in DOMAIN t : t[j].does = "sync" => t[j].connection \in DOMAIN d.configs
  BY <1>6, <1>9, ZenonT(60) DEF ScriptOK, KindsOK
<1>11. \A i \in DOMAIN u : \/ i \in DOMAIN v /\ u[i] = v[i]
                           \/ \E j \in DOMAIN t : i = n + j /\ u[i] = t[j]
  BY <1>20 DEF Join
<1>12. \A i \in DOMAIN u : /\ u[i].does \notin Deletes \cup {"save_connection_config"}
                           /\ u[i].does = "save_account" => i \in DOMAIN v
                           /\ u[i].does = "save_connection" => i \in DOMAIN v
  <2> TAKE i \in DOMAIN u
  <2>1. CASE i \in DOMAIN v /\ u[i] = v[i]
    <3>1. s[i].does \in {"save_account", "save_connection", "write", "commit unless disabled"}
      BY <1>5, <2>1 DEF SyncSteps
    <3> QED BY <1>4, <1>5, <2>1, <3>1 DEF Deletes
  <2>2. CASE \E j \in DOMAIN t : i = n + j /\ u[i] = t[j]
    BY <1>9, <2>2 DEF Deletes
  <2> QED BY <1>11, <2>1, <2>2
<1>13. ASSUME NEW i \in DOMAIN u, u[i].does \in {"save_account", "save_connection"}
       PROVE  i \in DOMAIN s /\ u[i].connection = h.connection /\ u[i].account = s[i].account /\ s[i].does = u[i].does
  <2>1. i \in DOMAIN v
    BY <1>12, <1>13
  <2>2. u[i] = v[i] /\ i \in DOMAIN s
    BY <1>5, <1>20, <2>1 DEF Join
  <2>3. v[i].does = s[i].does /\ v[i].connection = s[i].connection /\ v[i].account = s[i].account
    BY <1>4, <2>2
  <2>4. s[i].connection = h.connection
    BY <1>13, <2>2, <2>3 DEF SyncSteps
  <2> QED BY <2>2, <2>3, <2>4
<1>14. \A i \in DOMAIN u : Valid(u[i])
  <2> TAKE i \in DOMAIN u
  <2>1. CASE i \in DOMAIN v /\ u[i] = v[i]
    <3>1. i \in DOMAIN s /\ Valid(s[i])
      BY <1>5, <2>1 DEF SyncSteps
    <3>2. /\ v[i].does = s[i].does /\ v[i].connection = s[i].connection
          /\ v[i].account = s[i].account /\ v[i].name = s[i].name
      BY <1>4, <3>1
    <3> QED BY <2>1, <3>1, <3>2 DEF Valid
  <2>2. CASE \E j \in DOMAIN t : i = n + j /\ u[i] = t[j]
    BY <1>6, <2>2 DEF ScriptOK
  <2> QED BY <1>11, <2>1, <2>2
<1>15. KindsOK(u, d)
  <2>1. ASSUME NEW i \in DOMAIN u, u[i].does \in {"save_connection", "sync"}
        PROVE  u[i].connection \in DOMAIN d.configs
    <3>1. CASE u[i].does = "save_connection"
      BY <1>13, <3>1
    <3>2. CASE u[i].does = "sync"
      <4>1. CASE i \in DOMAIN v /\ u[i] = v[i]
        BY <1>4, <1>5, <3>2, <4>1 DEF SyncSteps
      <4>2. CASE \E j \in DOMAIN t : i = n + j /\ u[i] = t[j]
        BY <1>10, <3>2, <4>2
      <4> QED BY <1>11, <4>1, <4>2
    <3> QED BY <2>1, <3>1, <3>2
  <2> QED BY <1>12, <2>1 DEF KindsOK
<1>16. CaughtOK(u)
  <2>1. ASSUME NEW i \in DOMAIN u, u[i].caught PROVE \E j \in DOMAIN u : i < j /\ ~u[j].caught
    <3>1. CASE i \in DOMAIN v /\ u[i] = v[i]
      <4>1. h.caught
        BY <1>4, <1>5, <2>1, <3>1
      <4>2. PICK j \in DOMAIN td : 1 < j /\ ~td[j].caught
        BY <1>1, <4>1 DEF ScriptOK, CaughtOK
      <4>3. j - 1 \in DOMAIN t /\ t[j - 1] = td[j]
        BY <1>1, <4>2 DEF Left
      <4>4. PICK k \in DOMAIN t : k = j - 1
        BY <4>3
      <4>5. n + k \in DOMAIN u /\ u[n + k] = t[k]
        BY <1>20 DEF Join
      <4>6. i < n + k
        <5>1. i \in Nat /\ i <= n /\ n \in Nat /\ k \in Nat /\ k >= 1
          BY <1>20, <3>1 DEF Join
        <5> QED BY <5>1
      <4> QED BY <4>2, <4>3, <4>4, <4>5, <4>6
    <3>2. CASE \E k \in DOMAIN t : i = n + k /\ u[i] = t[k]
      <4>1. PICK k \in DOMAIN t : i = n + k /\ u[i] = t[k]
        BY <3>2
      <4>2. PICK j \in DOMAIN t : k < j /\ ~t[j].caught
        BY <1>6, <2>1, <4>1 DEF ScriptOK, CaughtOK
      <4>3. n + j \in DOMAIN u /\ u[n + j] = t[j] /\ j \in Nat /\ n \in Nat /\ k \in Nat
        BY <1>20 DEF Join
      <4>4. i < n + j
        BY <4>1, <4>2, <4>3
      <4> QED BY <4>2, <4>3, <4>4
    <3> QED BY <1>11, <3>1, <3>2
  <2>2. ASSUME NEW i \in DOMAIN u, NEW j \in DOMAIN u, i < j, u[i].does = "sync"
        PROVE  u[j].does \in {"sync", "write", "commit", "commit unless disabled", "push"}
    <3>1. i \notin DOMAIN v
      <4>1. ASSUME i \in DOMAIN v PROVE FALSE
        <5>1. u[i] = v[i] /\ v[i].does = s[i].does
          BY <1>4, <1>5, <1>20, <4>1 DEF Join
        <5> QED BY <1>5, <2>2, <4>1, <5>1 DEF SyncSteps
      <4> QED BY <4>1
    <3>2. PICK k \in DOMAIN t : i = n + k
      BY <1>11, <3>1
    <3>3. j \notin DOMAIN v
      <4>1. ASSUME j \in DOMAIN v PROVE FALSE
        <5>1. j \in Nat /\ j <= n /\ n \in Nat /\ k \in Nat /\ k >= 1
          BY <1>20, <4>1 DEF Join
        <5> QED BY <2>2, <3>2, <5>1
      <4> QED BY <4>1
    <3> QED BY <1>9, <1>11, <3>3
  <2> QED BY <1>12, <2>1, <2>2 DEF CaughtOK
<1>17. LinkedOK(u, d)
  <2>1. ASSUME NEW i \in DOMAIN u, u[i].does = "save_account"
        PROVE  /\ u[i].account \in DOMAIN d.accounts =>
                     d.accounts[u[i].account].connection = u[i].connection
               /\ \E j \in DOMAIN u : /\ i < j /\ u[j].does = "save_connection"
                                      /\ u[j].connection = u[i].connection
    <3>1. i \in DOMAIN s /\ u[i].connection = h.connection /\ u[i].account = s[i].account
          /\ s[i].does = "save_account"
      BY <1>13, <2>1
    <3>2. s[i].account \in DOMAIN d.accounts => d.accounts[s[i].account].connection = h.connection
      BY <3>1 DEF SyncSteps
    <3>3. PICK j \in DOMAIN s : i < j /\ s[j].does = "save_connection"
      BY <3>1 DEF SyncSteps
    <3>4. j \in DOMAIN u /\ u[j] = v[j] /\ v[j].does = "save_connection" /\ v[j].connection = h.connection
      BY <1>4, <1>5, <1>20, <3>3, ZenonT(60) DEF SyncSteps, Join
    <3> QED BY <3>1, <3>2, <3>3, <3>4
  <2>2. \A i, j \in DOMAIN u :
          u[i].does = "save_account" /\ u[j].does = "save_account" /\ u[i].account = u[j].account
             => u[i].connection = u[j].connection
    BY <1>13
  <2>3. \A i \in DOMAIN u : u[i].does \notin {"delete_account", "save_connection_config"}
    BY <1>12 DEF Deletes
  <2> QED BY <2>1, <2>2, <2>3 DEF LinkedOK
<1>18. ASSUME FollowOK(td, d) PROVE FollowOK(u, d)
  <2>1. FollowOK(t, d)
    BY <1>18, OtherGoesOn DEF WritesDirectory
  <2>2. \A j \in DOMAIN t : \E i \in DOMAIN u : u[i] = t[j]
    BY <1>20 DEF Join
  <2>3. \/ ByNameFollows(d)
        \/ \E i \in DOMAIN u : u[i].does \in {"save_connection", "delete_connection", "rebuild_all_symlinks"}
    BY <2>1, <2>2 DEF FollowOK
  <2>4. \A c \in DOMAIN d.states : OwnFollow(d, c) \/ \E i \in DOMAIN u : Heals(u[i], c)
    BY <2>1, <2>2 DEF FollowOK
  <2> QED BY <2>3, <2>4 DEF FollowOK
<1>19. ASSUME CommitsOK(td) PROVE CommitsOK(u)
  <2>1. CommitsOK(t)
    BY <1>1, <1>19, LeftCommits
  <2>2. CommitsOK(v)
    BY <1>4, <1>5 DEF SyncSteps, CommitsOK
  <2> QED BY <1>20, <2>1, <2>2, JoinCommits
<1> QED BY <1>14, <1>15, <1>16, <1>17, <1>18, <1>19 DEF ScriptOK

-----------------------------------------------------------------------------
(* The scripts that handlers come to: a file or an account *)

\* A sync command ends with its push, or refuses.
PushesOK(td) == \E i \in DOMAIN td : /\ \A j \in DOMAIN td : j <= i
                                     /\ td[i].does \in {"push", "refuse"}
QuietOK(td) == \A i \in DOMAIN td : td[i].does \notin Writing \cup {"sync"}
Good(command, td, d) ==
    /\ ScriptOK(td, d)
    /\ command # "tui" => CommitsOK(td)
    /\ command \in SyncCommand => PushesOK(td)
    /\ ~edits_data(command) /\ command # "tui" => QuietOK(td)

\* Up to three steps, one by one.
LEMMA Tuples ==
  ASSUME NEW A, NEW a \in A, NEW b \in A, NEW c \in A
  PROVE  /\ <<>> \in Seq(A) /\ DOMAIN <<>> = {}
         /\ <<a>> \in Seq(A) /\ DOMAIN <<a>> = {1} /\ <<a>>[1] = a
         /\ <<a, b>> \in Seq(A) /\ DOMAIN <<a, b>> = {1, 2} /\ <<a, b>>[1] = a /\ <<a, b>>[2] = b
         /\ <<a, b, c>> \in Seq(A) /\ DOMAIN <<a, b, c>> = {1, 2, 3}
         /\ <<a, b, c>>[1] = a /\ <<a, b, c>>[2] = b /\ <<a, b, c>>[3] = c
<1>1. /\ <<>> \in Seq(A) /\ <<a>> \in Seq(A) /\ <<a, b>> \in Seq(A) /\ <<a, b, c>> \in Seq(A)
  OBVIOUS
<1>2. DOMAIN <<>> = {} /\ DOMAIN <<a>> = {1} /\ DOMAIN <<a, b>> = {1, 2} /\ DOMAIN <<a, b, c>> = {1, 2, 3}
  OBVIOUS
<1> QED BY <1>1, <1>2

\* What each plain script is good for.
LEMMA PlainOnes ==
  ASSUME NEW d
  PROVE  /\ ScriptOK(<<>>, d) /\ CommitsOK(<<>>) /\ QuietOK(<<>>)
         /\ ScriptOK(<<Refuse>>, d) /\ CommitsOK(<<Refuse>>) /\ QuietOK(<<Refuse>>) /\ PushesOK(<<Refuse>>)
         /\ ScriptOK(<<maybe_push_after_sync>>, d) /\ CommitsOK(<<maybe_push_after_sync>>)
         /\ PushesOK(<<maybe_push_after_sync>>)
<1>1. Refuse \in Steps /\ maybe_push_after_sync \in Steps
  BY StepsAre
<1>2. <<>> \in Seq(Steps) /\ <<Refuse>> \in Seq(Steps) /\ <<maybe_push_after_sync>> \in Seq(Steps)
  BY <1>1, Tuples
<1>3. Refuse.does = "refuse" /\ maybe_push_after_sync.does = "push"
      /\ ~Refuse.caught /\ ~maybe_push_after_sync.caught
  BY StepsAre
<1>4. /\ DOMAIN <<>> = {} /\ DOMAIN <<Refuse>> = {1} /\ <<Refuse>>[1] = Refuse
      /\ DOMAIN <<maybe_push_after_sync>> = {1} /\ <<maybe_push_after_sync>>[1] = maybe_push_after_sync
  OBVIOUS
<1>5. "refuse" \in Plain /\ "push" \in Plain /\ "refuse" \notin Writing \cup {"sync"} /\ "push" \notin Writing
  BY DEF Plain, Writing, WritesDirectory
<1>6. ScriptOK(<<>>, d) /\ CommitsOK(<<>>) /\ QuietOK(<<>>)
  BY <1>2, <1>4, PlainScript DEF CommitsOK, QuietOK
<1>7. ScriptOK(<<Refuse>>, d)
  BY <1>2, <1>3, <1>4, <1>5, PlainScript
<1>8. CommitsOK(<<Refuse>>) /\ QuietOK(<<Refuse>>) /\ PushesOK(<<Refuse>>)
  BY <1>3, <1>4, <1>5 DEF CommitsOK, QuietOK, PushesOK
<1>9. ScriptOK(<<maybe_push_after_sync>>, d)
  BY <1>2, <1>3, <1>4, <1>5, PlainScript
<1>10. CommitsOK(<<maybe_push_after_sync>>) /\ PushesOK(<<maybe_push_after_sync>>)
  BY <1>3, <1>4, <1>5 DEF CommitsOK, PushesOK
<1> QED BY <1>6, <1>7, <1>8, <1>9, <1>10

\* Something is written and committed.
LEMMA WrittenAndCommitted ==
  ASSUME NEW d, NEW w \in Steps, w.does \in {"write", "rebuild_all_symlinks"}, ~w.caught,
         NEW k \in Steps, k.does \in Committing, ~k.caught, NEW x \in Steps, x.does = "write", ~x.caught,
         NEW p \in Steps, p.does = "push", ~p.caught
  PROVE  /\ ScriptOK(<<w, k>>, d) /\ CommitsOK(<<w, k>>)
         /\ ScriptOK(<<x, w, k>>, d) /\ CommitsOK(<<x, w, k>>)
         /\ ScriptOK(<<w, k, p>>, d) /\ CommitsOK(<<w, k, p>>) /\ PushesOK(<<w, k, p>>)
         /\ ScriptOK(<<k>>, d) /\ CommitsOK(<<k>>) /\ QuietOK(<<k>>)
         /\ ScriptOK(<<w>>, d)
<1>1. /\ w.does \in Plain /\ k.does \in Plain /\ x.does \in Plain /\ p.does \in Plain
      /\ k.does \notin Writing \cup {"sync"} /\ p.does \notin Writing
  BY DEF Plain, Writing, WritesDirectory, Committing
<1>2. <<w, k>> \in Seq(Steps) /\ <<x, w, k>> \in Seq(Steps) /\ <<w, k, p>> \in Seq(Steps)
      /\ <<k>> \in Seq(Steps) /\ <<w>> \in Seq(Steps)
  BY Tuples
<1>3. /\ DOMAIN <<w, k>> = {1, 2} /\ <<w, k>>[1] = w /\ <<w, k>>[2] = k
      /\ DOMAIN <<x, w, k>> = {1, 2, 3} /\ <<x, w, k>>[1] = x /\ <<x, w, k>>[2] = w /\ <<x, w, k>>[3] = k
      /\ DOMAIN <<w, k, p>> = {1, 2, 3} /\ <<w, k, p>>[1] = w /\ <<w, k, p>>[2] = k /\ <<w, k, p>>[3] = p
      /\ DOMAIN <<k>> = {1} /\ <<k>>[1] = k /\ DOMAIN <<w>> = {1} /\ <<w>>[1] = w
  OBVIOUS
<1>4. ScriptOK(<<w, k>>, d) /\ CommitsOK(<<w, k>>)
  <2>1. PICK u \in Seq(Steps) : u = <<w, k>>
    BY <1>2
  <2>2. DOMAIN u = {1, 2} /\ u[1] = w /\ u[2] = k
    BY <1>3, <2>1
  <2>3. ScriptOK(u, d)
    BY <1>1, <2>2, PlainScript
  <2>4. CommitsOK(u)
    BY <1>1, <2>2 DEF CommitsOK
  <2> QED BY <2>1, <2>3, <2>4
<1>5. ScriptOK(<<x, w, k>>, d) /\ CommitsOK(<<x, w, k>>)
  <2>1. PICK u \in Seq(Steps) : u = <<x, w, k>>
    BY <1>2
  <2>2. DOMAIN u = {1, 2, 3} /\ u[1] = x /\ u[2] = w /\ u[3] = k
    BY <1>3, <2>1
  <2>3. ScriptOK(u, d)
    BY <1>1, <2>2, PlainScript
  <2>4. CommitsOK(u)
    BY <1>1, <2>2 DEF CommitsOK
  <2> QED BY <2>1, <2>3, <2>4
<1>6. ScriptOK(<<w, k, p>>, d) /\ CommitsOK(<<w, k, p>>) /\ PushesOK(<<w, k, p>>)
  <2>1. PICK u \in Seq(Steps) : u = <<w, k, p>>
    BY <1>2
  <2>2. DOMAIN u = {1, 2, 3} /\ u[1] = w /\ u[2] = k /\ u[3] = p
    BY <1>3, <2>1
  <2>3. ScriptOK(u, d)
    BY <1>1, <2>2, PlainScript
  <2>4. CommitsOK(u)
    BY <1>1, <2>2 DEF CommitsOK
  <2>5. PushesOK(u)
    BY <2>2 DEF PushesOK
  <2> QED BY <2>1, <2>3, <2>4, <2>5
<1>7. ScriptOK(<<k>>, d) /\ CommitsOK(<<k>>) /\ QuietOK(<<k>>)
  <2>1. ScriptOK(<<k>>, d)
    BY <1>1, <1>2, <1>3, PlainScript, ZenonT(60)
  <2>2. CommitsOK(<<k>>) /\ QuietOK(<<k>>)
    BY <1>1, <1>3 DEF CommitsOK, QuietOK
  <2> QED BY <2>1, <2>2
<1>8. ScriptOK(<<w>>, d)
  BY <1>1, <1>2, <1>3, PlainScript, SMTT(30)
<1> QED BY <1>4, <1>5, <1>6, <1>7, <1>8

\* Writes of some file.
LEMMA WrittenFiles ==
  ASSUME NEW d, NEW f \in Files, NEW other \in Files
  PROVE  LET w == WriteOf(f)
             x == WriteOf(other)
         IN  /\ ScriptOK(<<w, maybe_auto_commit>>, d) /\ CommitsOK(<<w, maybe_auto_commit>>)
             /\ ScriptOK(<<x, w, maybe_auto_commit>>, d) /\ CommitsOK(<<x, w, maybe_auto_commit>>)
             /\ ScriptOK(<<w, maybe_auto_commit, maybe_push_after_sync>>, d)
             /\ CommitsOK(<<w, maybe_auto_commit, maybe_push_after_sync>>)
             /\ PushesOK(<<w, maybe_auto_commit, maybe_push_after_sync>>)
             /\ ScriptOK(<<w, AutoCommitter, maybe_push_after_sync>>, d)
             /\ CommitsOK(<<w, AutoCommitter, maybe_push_after_sync>>)
             /\ PushesOK(<<w, AutoCommitter, maybe_push_after_sync>>)
             /\ ScriptOK(<<w>>, d)
<1>1. PICK w \in Steps : w = WriteOf(f) /\ w.does = "write" /\ ~w.caught
  BY StepsAre
<1>2. PICK x \in Steps : x = WriteOf(other) /\ x.does = "write" /\ ~x.caught
  BY StepsAre
<1>3. PICK k \in Steps : k = maybe_auto_commit /\ k.does = "commit" /\ ~k.caught
  BY StepsAre
<1>4. PICK j \in Steps : j = AutoCommitter /\ j.does = "commit unless disabled" /\ ~j.caught
  BY StepsAre
<1>5. PICK p \in Steps : p = maybe_push_after_sync /\ p.does = "push" /\ ~p.caught
  BY StepsAre
<1>6. /\ ScriptOK(<<w, k>>, d) /\ CommitsOK(<<w, k>>)
      /\ ScriptOK(<<x, w, k>>, d) /\ CommitsOK(<<x, w, k>>)
      /\ ScriptOK(<<w, k, p>>, d) /\ CommitsOK(<<w, k, p>>) /\ PushesOK(<<w, k, p>>)
      /\ ScriptOK(<<w>>, d)
  BY <1>1, <1>2, <1>3, <1>5, WrittenAndCommitted DEF Committing
<1>7. ScriptOK(<<w, j, p>>, d) /\ CommitsOK(<<w, j, p>>) /\ PushesOK(<<w, j, p>>)
  BY <1>1, <1>2, <1>4, <1>5, WrittenAndCommitted DEF Committing
<1> QED BY <1>1, <1>2, <1>3, <1>4, <1>5, <1>6, <1>7

\* A commit by itself is a good script.
LEMMA CommittedOnly ==
  ASSUME NEW d
  PROVE  /\ ScriptOK(<<maybe_auto_commit>>, d) /\ CommitsOK(<<maybe_auto_commit>>)
         /\ QuietOK(<<maybe_auto_commit>>)
<1>1. PICK w \in Steps : w.does = "write" /\ ~w.caught
  BY StepsAre DEF Files
<1>2. PICK k \in Steps : k = maybe_auto_commit /\ k.does = "commit" /\ ~k.caught
  BY StepsAre
<1>3. PICK p \in Steps : p.does = "push" /\ ~p.caught
  BY StepsAre
<1>4. ScriptOK(<<k>>, d) /\ CommitsOK(<<k>>) /\ QuietOK(<<k>>)
  BY <1>1, <1>2, <1>3, WrittenAndCommitted DEF Committing
<1> QED BY <1>2, <1>4

\* sync symlinks comes to a good script.
LEMMA Rebuilt ==
  ASSUME NEW d
  PROVE  LET td == <<Step("rebuild_all_symlinks"), maybe_auto_commit, maybe_push_after_sync>>
         IN  ScriptOK(td, d) /\ CommitsOK(td) /\ PushesOK(td)
<1>1. PICK w \in Steps : w = Step("rebuild_all_symlinks") /\ w.does = "rebuild_all_symlinks" /\ ~w.caught
  BY StepsAre
<1>2. PICK k \in Steps : k = maybe_auto_commit /\ k.does = "commit" /\ ~k.caught
  BY StepsAre
<1>3. PICK p \in Steps : p = maybe_push_after_sync /\ p.does = "push" /\ ~p.caught
  BY StepsAre
<1>4. PICK x \in Steps : x.does = "write" /\ ~x.caught
  BY StepsAre DEF Files
<1>5. ScriptOK(<<w, k, p>>, d) /\ CommitsOK(<<w, k, p>>) /\ PushesOK(<<w, k, p>>)
  BY <1>1, <1>2, <1>3, <1>4, WrittenAndCommitted DEF Committing
<1> QED BY <1>1, <1>2, <1>3, <1>5

-----------------------------------------------------------------------------
\* Those that save connections and accounts.
ConfigScript(c, n, y) == <<SaveConfig(c, n, y), SaveConnection(c, <<>>), maybe_auto_commit>>
AccountScript(d, a, c, n) ==
    <<SaveAccount(a, c, n, TRUE), SaveConnection(c, Append(account_ids(d, c), a)), maybe_auto_commit>>

\* Of a connection, something saved, then its state, then the commit: a good script.
LEMMA SavedAndCommitted ==
  ASSUME NEW d, NEW u \in Steps, NEW v \in Steps, NEW k \in Steps, NEW c \in ConnectionId, Valid(u),
         u.connection = c /\ ~u.caught,
         v.does = "save_connection" /\ v.connection = c /\ ~v.caught, k.does = "commit" /\ ~k.caught,
         \/ u.does = "save_connection_config"
         \/ u.does = "save_account" /\ u.account \notin DOMAIN d.accounts /\ c \in DOMAIN d.configs
  PROVE  ScriptOK(<<u, v, k>>, d) /\ CommitsOK(<<u, v, k>>)
<1>1. PICK td : td = <<u, v, k>>
  OBVIOUS
<1>2. td \in Seq(Steps) /\ DOMAIN td = {1, 2, 3} /\ td[1] = u /\ td[2] = v /\ td[3] = k
  BY <1>1, Tuples
<1>3. \A i \in DOMAIN td : Valid(td[i])
  BY <1>2 DEF Valid
<1>4. KindsOK(td, d)
  <2>1. \A i \in DOMAIN td : td[i].does \notin Deletes
    BY <1>2 DEF Deletes
  <2>2. \A i \in DOMAIN td : td[i].does \in {"save_connection", "sync"} => i = 2
    BY <1>2
  <2>3. \/ c \in DOMAIN d.configs
        \/ 1 < 2 /\ td[1].does = "save_connection_config" /\ td[1].connection = c
    BY <1>2
  <2> QED BY <1>2, <2>1, <2>2, <2>3 DEF KindsOK
<1>5. CaughtOK(td)
  BY <1>2 DEF CaughtOK
<1>6. LinkedOK(td, d)
  <2>1. \A i \in DOMAIN td : td[i].does \in {"save_connection_config", "save_account"} => i = 1
    BY <1>2
  <2>2. 1 < 2 /\ 2 \in DOMAIN td /\ td[2].does = "save_connection" /\ td[2].connection = td[1].connection
    BY <1>2
  <2>3. td[1].does = "save_account" => td[1].account \notin DOMAIN d.accounts
    BY <1>2
  <2>4. \A i \in DOMAIN td : td[i].does # "delete_account"
    BY <1>2
  <2> QED BY <2>1, <2>2, <2>3, <2>4 DEF LinkedOK
<1>7. CommitsOK(td)
  <2>1. \A i \in DOMAIN td : td[i].does \in Writing => i < 3
    BY <1>2 DEF Writing, WritesDirectory
  <2>2. 3 \in DOMAIN td /\ td[3].does \in Committing
    BY <1>2 DEF Committing
  <2> QED BY <2>1, <2>2 DEF CommitsOK
<1> QED BY <1>1, <1>2, <1>3, <1>4, <1>5, <1>6, <1>7 DEF ScriptOK

\* add connection comes to a good script.
LEMMA AddConnectionGood ==
  ASSUME NEW d, DirectoryOK(d), NEW td \in add_connection(d)
  PROVE  ScriptOK(td, d) /\ CommitsOK(td)
<1>1. CASE td = <<Refuse>>
  BY <1>1, PlainOnes
<1>2. ASSUME NEW c \in ConnectionId, NEW n \in Name, NEW y \in Synchronizers, td = ConfigScript(c, n, y)
      PROVE  ScriptOK(td, d) /\ CommitsOK(td)
  <2>1. PICK u : u = SaveConfig(c, n, y)
    OBVIOUS
  <2>2. u \in Steps /\ u.does = "save_connection_config" /\ u.connection = c /\ u.name = n /\ ~u.caught
    BY <2>1, SaveConfigIs
  <2>10. <<>> \in Seq(AccountId)
    OBVIOUS
  <2>4. PICK ids \in Seq(AccountId) : ids = <<>>
    BY <2>10
  <2>3. PICK v : v = SaveConnection(c, ids)
    OBVIOUS
  <2>5. v \in Steps /\ v.does = "save_connection" /\ v.connection = c /\ ~v.caught
    BY <2>3, SaveConnectionIs
  <2>6. PICK k : k = maybe_auto_commit
    OBVIOUS
  <2>7. k \in Steps /\ k.does = "commit" /\ ~k.caught
    BY <2>6, StepsAre
  <2>8. td = <<u, v, k>>
    BY <1>2, <2>1, <2>3, <2>4, <2>6 DEF ConfigScript
  <2>9. Valid(u)
    BY <2>2 DEF Valid
  <2> QED BY <2>2, <2>5, <2>7, <2>8, <2>9, SavedAndCommitted
<1>3. ASSUME td # <<Refuse>>
      PROVE  \E c \in ConnectionId, n \in Name, y \in Synchronizers : td = ConfigScript(c, n, y)
  <2> DEFINE Free == {m \in Name : ~\E c \in DOMAIN d.configs : Lower[d.configs[c].name] = Lower[m]}
  <2>1. add_connection(d) = {<<Refuse>>} \cup
           {ConfigScript(c, n, y) : c \in Unused(ConnectionId, d.configs), n \in Free, y \in Synchronizers}
    BY DEF add_connection, ConfigScript
  <2>2. Free \subseteq Name
    OBVIOUS
  <2> HIDE DEF Free
  <2> QED BY <1>3, <2>1, <2>2 DEF Unused
<1> QED BY <1>1, <1>2, <1>3

\* add account comes to a good script.
LEMMA AddAccountGood ==
  ASSUME NEW d, DirectoryOK(d), NEW td \in add_account(d)
  PROVE  ScriptOK(td, d) /\ CommitsOK(td)
<1>1. CASE td = <<Refuse>>
  BY <1>1, PlainOnes
<1>2. ASSUME NEW a \in AccountId, a \notin DOMAIN d.accounts, NEW c \in DOMAIN d.configs, NEW n \in Name,
             td = AccountScript(d, a, c, n)
      PROVE  ScriptOK(td, d) /\ CommitsOK(td)
  <2>1. c \in ConnectionId
    BY DEF DirectoryOK
  <2>13. PICK active \in BOOLEAN : active = TRUE
    OBVIOUS
  <2>2. PICK u : u = SaveAccount(a, c, n, active)
    OBVIOUS
  <2>3. u \in Steps /\ u.does = "save_account" /\ u.account = a /\ u.connection = c /\ u.name = n /\ ~u.caught
    BY <2>1, <2>2, SaveAccountIs
  <2>4. account_ids(d, c) \in Seq(AccountId)
    BY DEF account_ids, DirectoryOK
  <2>5. PICK ids : ids = Append(account_ids(d, c), a)
    OBVIOUS
  <2>6. ids \in Seq(AccountId)
    BY <2>4, <2>5
  <2>7. PICK v : v = SaveConnection(c, ids)
    OBVIOUS
  <2>8. v \in Steps /\ v.does = "save_connection" /\ v.connection = c /\ ~v.caught
    BY <2>1, <2>6, <2>7, SaveConnectionIs
  <2>9. PICK k : k = maybe_auto_commit
    OBVIOUS
  <2>10. k \in Steps /\ k.does = "commit" /\ ~k.caught
    BY <2>9, StepsAre
  <2>11. td = <<u, v, k>>
    BY <1>2, <2>2, <2>5, <2>7, <2>9, <2>13 DEF AccountScript
  <2>12. Valid(u)
    BY <2>1, <2>3 DEF Valid
  <2> QED BY <1>2, <2>1, <2>3, <2>8, <2>10, <2>11, <2>12, SavedAndCommitted
<1>3. ASSUME td # <<Refuse>>
      PROVE  \E a \in Unused(AccountId, d.accounts), c \in DOMAIN d.configs, n \in Name :
                td = AccountScript(d, a, c, n)
  <2>1. add_account(d) = {<<Refuse>>} \cup
           {AccountScript(d, a, c, n) : a \in Unused(AccountId, d.accounts), c \in DOMAIN d.configs, n \in Name}
    BY DEF add_account, AccountScript
  <2> QED BY <1>3, <2>1
<1>4. ASSUME td # <<Refuse>> PROVE ScriptOK(td, d) /\ CommitsOK(td)
  <2>1. PICK a \in Unused(AccountId, d.accounts), c \in DOMAIN d.configs, n \in Name :
                td = AccountScript(d, a, c, n)
    BY <1>3, <1>4
  <2>2. a \in AccountId /\ a \notin DOMAIN d.accounts
    BY DEF Unused
  <2> QED BY <1>2, <2>1, <2>2
<1> QED BY <1>1, <1>4

-----------------------------------------------------------------------------
(* Removals, and syncs one after the other *)

\* The removal of a connection.
RemoveScript(d, c) ==
    LET ours == Among(account_ids(d, c), Ours(d, c))
        deleted == ours \o list_dirs(Ours(d, c) \ Range(ours))
    IN  [i \in DOMAIN deleted |-> DeleteAccount(deleted[i])] \o <<DeleteConnection(c), maybe_auto_commit>>

\* The accounts of a connection deleted, then the connection, then the commit: a good script.
LEMMA RemovalGood ==
  ASSUME NEW d, NEW c \in ConnectionId, NEW v \in Seq(Steps),
         \A i \in DOMAIN v : /\ v[i].does = "delete_account" /\ ~v[i].caught
                             /\ v[i].account \in DOMAIN d.accounts => d.accounts[v[i].account].connection = c,
         NEW x \in Steps, x.does = "delete_connection" /\ x.connection = c /\ ~x.caught,
         NEW k \in Steps, k.does = "commit" /\ ~k.caught,
         NEW td, td = v \o <<x, k>>
  PROVE  ScriptOK(td, d) /\ CommitsOK(td)
<1>1. PICK t : t = <<x, k>>
  OBVIOUS
<1>2. t \in Seq(Steps) /\ DOMAIN t = {1, 2} /\ t[1] = x /\ t[2] = k
  BY <1>1, Tuples
<1>3. td \in Seq(Steps) /\ \E n : Join(v, n, t, td)
  BY <1>1, <1>2, Joined
<1>4. PICK n : Join(v, n, t, td)
  BY <1>3
<1>5. n \in Nat /\ n + 1 \in DOMAIN td /\ td[n + 1] = x /\ n + 2 \in DOMAIN td /\ td[n + 2] = k
  BY <1>2, <1>4 DEF Join
<1>6. \A i \in DOMAIN td : \/ i \in DOMAIN v /\ i \in Nat /\ i <= n /\ td[i] = v[i]
                           \/ i = n + 1 \/ i = n + 2
  BY <1>2, <1>4 DEF Join
<1>7. \A i \in DOMAIN td : /\ td[i].does \in Deletes \cup {"commit"} /\ ~td[i].caught
                           /\ td[i].does = "delete_account" =>
                                 /\ i \in Nat /\ i <= n
                                 /\ td[i].account \in DOMAIN d.accounts => d.accounts[td[i].account].connection = c
                           /\ td[i].does \in Writing => i \in Nat /\ i < n + 2
  <2> TAKE i \in DOMAIN td
  <2>1. CASE i \in DOMAIN v /\ i \in Nat /\ i <= n /\ td[i] = v[i]
    BY <1>5, <2>1 DEF Deletes
  <2>2. CASE i = n + 1
    BY <1>5, <2>2 DEF Deletes
  <2>3. CASE i = n + 2
    BY <1>5, <2>3 DEF Deletes, Writing, WritesDirectory
  <2> QED BY <1>6, <2>1, <2>2, <2>3
<1>8. \A i \in DOMAIN td : td[i].does \notin {"save_connection_config", "save_account", "save_connection", "sync"}
  BY <1>7 DEF Deletes
<1>9. (\A i \in DOMAIN td : Valid(td[i])) /\ KindsOK(td, d) /\ CaughtOK(td)
  BY <1>7, <1>8, ZenonT(60) DEF Valid, KindsOK, CaughtOK
<1>10. LinkedOK(td, d)
  <2>1. ASSUME NEW i \in DOMAIN td, td[i].does = "delete_account", td[i].account \in DOMAIN d.accounts
        PROVE  \E j \in DOMAIN td : /\ i < j /\ td[j].does = "delete_connection"
                                    /\ td[j].connection = d.accounts[td[i].account].connection
    <3>1. i \in Nat /\ i <= n /\ d.accounts[td[i].account].connection = c
      BY <1>7, <2>1
    <3>2. i < n + 1
      BY <1>5, <3>1
    <3> QED BY <1>5, <3>1, <3>2
  <2> QED BY <1>8, <2>1, ZenonT(60) DEF LinkedOK
<1>11. CommitsOK(td)
  BY <1>5, <1>7, ZenonT(60) DEF CommitsOK, Committing
<1> QED BY <1>3, <1>9, <1>10, <1>11 DEF ScriptOK

\* remove connection comes to a good script.
LEMMA RemoveConnectionGood ==
  ASSUME NEW d, DirectoryOK(d), NEW td \in remove_connection(d)
  PROVE  ScriptOK(td, d) /\ CommitsOK(td)
<1>1. CASE td = <<>>
  BY <1>1, PlainOnes
<1>2. ASSUME NEW c \in DOMAIN d.configs, td = RemoveScript(d, c)
      PROVE  ScriptOK(td, d) /\ CommitsOK(td)
  <2> DEFINE ours == Among(account_ids(d, c), Ours(d, c))
             rest == list_dirs(Ours(d, c) \ Range(ours))
             deleted == ours \o rest
             v == [i \in DOMAIN deleted |-> DeleteAccount(deleted[i])]
  <2>1. c \in ConnectionId
    BY DEF DirectoryOK
  <2>2. Ours(d, c) \subseteq AccountId
    BY DEF Ours, DirectoryOK
  <2>3. account_ids(d, c) \in Seq(AccountId)
    BY DEF account_ids, DirectoryOK
  <2>4. ours \in Seq(AccountId \cap Ours(d, c))
    BY <2>3, AmongHas
  <2>5. rest \in Seq(Ours(d, c) \ Range(ours))
    <3>1. Ours(d, c) \ Range(ours) \subseteq Nat /\ IsFiniteSet(Ours(d, c) \ Range(ours))
      BY <2>2, SomeIds
    <3> QED BY <3>1, ListsAll
  <2> HIDE DEF ours, rest
  <2>6. deleted \in Seq(Ours(d, c))
    <3>1. ours \in Seq(Ours(d, c)) /\ rest \in Seq(Ours(d, c))
      BY <2>4, <2>5
    <3> QED BY <3>1
  <2>7. DOMAIN deleted = 1 .. Len(deleted) /\ Len(deleted) \in Nat
        /\ \A i \in DOMAIN deleted : deleted[i] \in Ours(d, c)
    BY <2>6
  <2>8. \A i \in DOMAIN deleted : /\ v[i] \in Steps /\ v[i].does = "delete_account" /\ ~v[i].caught
                                  /\ d.accounts[v[i].account].connection = c
    <3> TAKE i \in DOMAIN deleted
    <3>1. PICK a \in AccountId : a = deleted[i] /\ d.accounts[a].connection = c
      BY <2>2, <2>7 DEF Ours
    <3>2. v[i] = DeleteAccount(a)
      BY <3>1
    <3> QED BY <3>1, <3>2, DeleteAccountIs
  <2> HIDE DEF deleted
  <2>9. v \in Seq(Steps) /\ DOMAIN v = DOMAIN deleted
    BY <2>7, <2>8
  <2>10. PICK x : x = DeleteConnection(c)
    OBVIOUS
  <2>11. x \in Steps /\ x.does = "delete_connection" /\ x.connection = c /\ ~x.caught
    BY <2>1, <2>10, DeleteConnectionIs
  <2>12. PICK k : k = maybe_auto_commit
    OBVIOUS
  <2>13. k \in Steps /\ k.does = "commit" /\ ~k.caught
    BY <2>12, StepsAre
  <2>14. td = v \o <<x, k>>
    BY <1>2, <2>10, <2>12 DEF RemoveScript, ours, rest, deleted
  <2> HIDE DEF v
  <2> QED BY <2>1, <2>8, <2>9, <2>11, <2>13, <2>14, RemovalGood
<1>3. remove_connection(d) = {<<>>} \cup {RemoveScript(d, c) : c \in DOMAIN d.configs}
  BY DEF remove_connection, RemoveScript
<1> QED BY <1>1, <1>2, <1>3

-----------------------------------------------------------------------------
\* Syncs one after the other, and what follows.
AllSyncs(v, d) == \A i \in DOMAIN v : v[i].does = "sync" /\ v[i].connection \in DOMAIN d.configs
AfterSyncs(t) ==
    /\ \A i \in DOMAIN t : t[i].does \in {"write", "commit", "commit unless disabled", "push"} /\ ~t[i].caught
    /\ \E i \in DOMAIN t : i \in Nat /\ \A j \in DOMAIN t : j <= i

\* Syncs of connections that are there, and a good end, are a good script.
LEMMA SyncsJoined ==
  ASSUME NEW d, NEW v \in Seq(Steps), AllSyncs(v, d), NEW t \in Seq(Steps), AfterSyncs(t),
         NEW td \in Seq(Steps), NEW n, Join(v, n, t, td)
  PROVE  /\ ScriptOK(td, d)
         /\ PushesOK(t) => PushesOK(td)
<1>3. ASSUME NEW i \in DOMAIN td
      PROVE  \/ i \in DOMAIN v /\ i \in Nat /\ i <= n /\ td[i] = v[i]
             \/ \E j \in DOMAIN t : i = n + j /\ td[i] = t[j]
  BY DEF Join
<1>4. ASSUME NEW j \in DOMAIN t
      PROVE  n + j \in DOMAIN td /\ td[n + j] = t[j] /\ j \in Nat /\ j >= 1 /\ n \in Nat
  BY DEF Join
<1>5. ASSUME NEW i \in DOMAIN td, td[i].caught PROVE \E j \in DOMAIN td : i < j /\ ~td[j].caught
  <2>2. PICK j \in DOMAIN t : \A k \in DOMAIN t : k <= j
    BY DEF AfterSyncs
  <2>3. n + j \in DOMAIN td /\ ~td[n + j].caught
    BY <1>4 DEF AfterSyncs
  <2>1. i \in Nat /\ i <= n
    BY <1>3, <1>5 DEF AfterSyncs
  <2>4. i < n + j
    BY <1>4, <2>1
  <2> QED BY <2>3, <2>4
<1>6. ASSUME NEW i \in DOMAIN td
      PROVE  /\ td[i].does \in {"sync", "write", "commit", "commit unless disabled", "push"}
             /\ td[i].does = "sync" => td[i].connection \in DOMAIN d.configs
  <2>1. CASE i \in DOMAIN v /\ td[i] = v[i]
    BY <2>1 DEF AllSyncs
  <2>2. CASE \E j \in DOMAIN t : td[i] = t[j]
    BY <2>2 DEF AfterSyncs
  <2> QED BY <1>3, <2>1, <2>2
<1>7. ScriptOK(td, d)
  BY <1>5, <1>6, SyncsScript
<1>9. ASSUME PushesOK(t) PROVE PushesOK(td)
  <2>1. PICK i \in DOMAIN t : (\A j \in DOMAIN t : j <= i) /\ t[i].does \in {"push", "refuse"}
    BY <1>9 DEF PushesOK
  <2>2. n + i \in DOMAIN td /\ td[n + i].does \in {"push", "refuse"} /\ i \in Nat /\ i >= 1 /\ n \in Nat
    BY <1>4, <2>1
  <2>3. ASSUME NEW m \in DOMAIN td PROVE m <= n + i
    <3>1. CASE m \in Nat /\ m <= n
      BY <2>2, <3>1
    <3>2. CASE \E j \in DOMAIN t : m = n + j
      <4>1. PICK j \in DOMAIN t : m = n + j
        BY <3>2
      <4>2. j \in Nat /\ j <= i
        BY <1>4, <2>1
      <4> QED BY <2>2, <4>1, <4>2
    <3> QED BY <1>3, <3>1, <3>2
  <2> QED BY <2>2, <2>3 DEF PushesOK
<1> QED BY <1>7, <1>9

\* The same of their concatenation.
LEMMA SyncsGood ==
  ASSUME NEW d, NEW v \in Seq(Steps), AllSyncs(v, d), NEW t \in Seq(Steps), AfterSyncs(t),
         CommitsOK(t), NEW td, td = v \o t
  PROVE  /\ ScriptOK(td, d) /\ CommitsOK(td)
         /\ PushesOK(t) => PushesOK(td)
<1>1. td \in Seq(Steps) /\ \E n : Join(v, n, t, td)
  BY Joined
<1>2. CommitsOK(v)
  BY DEF AllSyncs, CommitsOK, Writing, WritesDirectory
<1>3. CommitsOK(td)
  BY <1>2, JoinedCommits
<1> QED BY <1>1, <1>3, SyncsJoined

\* Syncs of all that are due.
LEMMA SyncsDue ==
  ASSUME NEW d, DirectoryOK(d), NEW S \in SUBSET DOMAIN d.configs, NEW due, due = list_dirs(S), NEW v,
         v = [i \in DOMAIN due |-> SyncOf(due[i], TRUE)]
  PROVE  v \in Seq(Steps) /\ AllSyncs(v, d) /\ (S = {} => v = <<>>)
<1>1. S \subseteq ConnectionId
  BY DEF DirectoryOK
<1>2. due \in Seq(S)
  BY <1>1, SomeIds, ListsAll
<1>3. DOMAIN due = 1 .. Len(due) /\ Len(due) \in Nat /\ \A i \in DOMAIN due : due[i] \in S
  BY <1>2
<1>5. ASSUME NEW i \in DOMAIN due
      PROVE  v[i] \in Steps /\ v[i].does = "sync" /\ v[i].connection \in DOMAIN d.configs
  <2>1. PICK c \in ConnectionId : c = due[i] /\ c \in DOMAIN d.configs
    BY <1>1, <1>3
  <2>2. PICK caught \in BOOLEAN : caught = TRUE
    OBVIOUS
  <2>3. v[i] = SyncOf(c, caught)
    BY <2>1, <2>2
  <2>4. PICK s : s = SyncOf(c, caught)
    OBVIOUS
  <2>5. s \in Steps /\ s.does = "sync" /\ s.connection = c
    BY <2>4, SyncOfIs
  <2> QED BY <2>1, <2>3, <2>4, <2>5
<1>6. DOMAIN v = DOMAIN due
  OBVIOUS
<1>7. AllSyncs(v, d)
  BY <1>5, <1>6 DEF AllSyncs
<1>8. v \in [1 .. Len(due) -> Steps]
  BY <1>3, <1>5
<1>9. v \in Seq(Steps) /\ Len(v) = Len(due)
  <2>1. PICK n \in Nat : n = Len(due)
    BY <1>3
  <2>2. v \in [1 .. n -> Steps]
    BY <1>8, <2>1
  <2>3. \A s \in [1 .. n -> Steps] : s \in Seq(Steps) /\ Len(s) = n
    BY ListLength
  <2>4. v \in Seq(Steps) /\ Len(v) = n
    BY <2>2, <2>3, Zenon
  <2> QED BY <2>1, <2>4
<1>10. ASSUME S = {} PROVE v = <<>>
  <2>1. Len(due) = 0
    BY <1>3, <1>10
  <2>2. v \in Seq(Steps) /\ Len(v) = 0
    BY <1>9, <2>1
  <2> QED BY <2>2, EmptySeq
<1> QED BY <1>7, <1>9, <1>10

-----------------------------------------------------------------------------
(* What a sync saves *)

\* Accounts of connection c are saved, and files written.
Saves(s, d, c) ==
    /\ s \in Seq(Steps)
    /\ \A i \in DOMAIN s :
          /\ Valid(s[i]) /\ s[i].does \in {"save_account", "write"}
          /\ s[i].does = "save_account" =>
                /\ s[i].connection = c
                /\ s[i].account \in DOMAIN d.accounts => d.accounts[s[i].account].connection = c

\* Accounts saved, and then more, are accounts saved.
LEMMA SavesJoined ==
  ASSUME NEW d, NEW c, NEW s, Saves(s, d, c), NEW t, Saves(t, d, c)
  PROVE  Saves(s \o t, d, c)
<1>1. s \in Seq(Steps) /\ t \in Seq(Steps)
  BY DEF Saves
<1>2. PICK u : u = s \o t
  OBVIOUS
<1>3. u \in Seq(Steps) /\ \E n : Join(s, n, t, u)
  BY <1>1, <1>2, Joined
<1>4. PICK n : Join(s, n, t, u)
  BY <1>3
<1>5. \A i \in DOMAIN u : \/ \E j \in DOMAIN s : u[i] = s[j]
                          \/ \E j \in DOMAIN t : u[i] = t[j]
  BY <1>4 DEF Join
<1>6. Saves(u, d, c)
  BY <1>3, <1>5, SMTT(30) DEF Saves
<1> QED BY <1>2, <1>6

\* A step that saves an account of c.
LEMMA OneSave ==
  ASSUME NEW d, NEW c \in ConnectionId, NEW a \in AccountId, a \in Ours(d, c) \/ a \notin DOMAIN d.accounts,
         NEW n \in Name, NEW active \in BOOLEAN, NEW s, s = SaveAccount(a, c, n, active)
  PROVE  /\ s \in Steps /\ Valid(s) /\ s.does = "save_account" /\ s.connection = c
         /\ s.account \in DOMAIN d.accounts => d.accounts[s.account].connection = c
<1>1. s \in Steps /\ s.does = "save_account" /\ s.account = a /\ s.connection = c /\ s.name = n
  BY SaveAccountIs
<1> QED BY <1>1 DEF Valid, Ours

\* The accounts that a sync found are saved.
LEMMA KeptSaved ==
  ASSUME NEW d, NEW c \in ConnectionId, NEW found,
         \A a \in DOMAIN found : /\ a \in AccountId /\ found[a] \in Name
                                 /\ a \in Ours(d, c) \/ a \notin DOMAIN d.accounts,
         NEW kept \in Seq(DOMAIN found),
         NEW v, v = [i \in DOMAIN kept |-> SaveAccount(kept[i], c, found[kept[i]], TRUE)]
  PROVE  Saves(v, d, c)
<1>1. DOMAIN kept = 1 .. Len(kept) /\ Len(kept) \in Nat /\ \A i \in DOMAIN kept : kept[i] \in DOMAIN found
  OBVIOUS
<1>2. ASSUME NEW i \in DOMAIN kept
      PROVE  /\ v[i] \in Steps /\ Valid(v[i]) /\ v[i].does = "save_account" /\ v[i].connection = c
             /\ v[i].account \in DOMAIN d.accounts => d.accounts[v[i].account].connection = c
  <2>1. PICK a \in AccountId : a = kept[i] /\ a \in DOMAIN found /\ (a \in Ours(d, c) \/ a \notin DOMAIN d.accounts)
    BY <1>1
  <2>2. PICK n \in Name : n = found[a]
    BY <2>1
  <2>3. PICK active \in BOOLEAN : active = TRUE
    OBVIOUS
  <2>4. PICK s : s = SaveAccount(a, c, n, active)
    OBVIOUS
  <2>5. v[i] = s
    BY <2>1, <2>2, <2>3, <2>4
  <2>6. /\ s \in Steps /\ Valid(s) /\ s.does = "save_account" /\ s.connection = c
        /\ s.account \in DOMAIN d.accounts => d.accounts[s.account].connection = c
    BY <2>1, <2>4, OneSave
  <2> QED BY <2>5, <2>6
<1>3. DOMAIN v = DOMAIN kept
  OBVIOUS
<1>4. v \in Seq(Steps)
  <2>1. PICK n \in Nat : n = Len(kept)
    BY <1>1
  <2>2. v \in [1 .. n -> Steps]
    BY <1>1, <1>2, <1>3, <2>1
  <2> QED BY <2>2, ListLength
<1> QED BY <1>2, <1>3, <1>4 DEF Saves

\* What is at most n is less than n + 1.
LEMMA Beyond ==
  ASSUME NEW n \in Nat, NEW i \in Nat, i <= n
  PROVE  i < n + 1
OBVIOUS

\* One step, by itself.
LEMMA Single ==
  ASSUME NEW A, NEW a \in A, NEW s, s = <<a>>
  PROVE  s \in Seq(A) /\ DOMAIN s = {1} /\ s[1] = a
OBVIOUS

\* Four steps, one by one.
LEMMA Four ==
  ASSUME NEW A, NEW a \in A, NEW b \in A, NEW c \in A, NEW e \in A, NEW s, s = <<a, b, c, e>>
  PROVE  s \in Seq(A) /\ DOMAIN s = {1, 2, 3, 4} /\ s[1] = a /\ s[2] = b /\ s[3] = c /\ s[4] = e
OBVIOUS

\* Of twice as many steps, two are of each account.
LEMMA Halves ==
  ASSUME NEW n \in Nat, NEW i \in 1 .. 2 * n
  PROVE  (i + 1) \div 2 \in 1 .. n
OBVIOUS

\* The accounts that a sync did not find are saved as inactive, each with a balance.
LEMMA GoneSaved ==
  ASSUME NEW d, DirectoryOK(d), NEW c \in ConnectionId, NEW gone \in Seq(Ours(d, c)),
         NEW v, v = [i \in 1 .. 2 * Len(gone) |->
                       LET a == gone[(i + 1) \div 2]
                       IN  IF i % 2 = 1 THEN SaveAccount(a, c, d.accounts[a].name, FALSE) ELSE WriteOf("balances")]
  PROVE  Saves(v, d, c)
<1>1. DOMAIN gone = 1 .. Len(gone) /\ Len(gone) \in Nat /\ \A i \in DOMAIN gone : gone[i] \in Ours(d, c)
  OBVIOUS
<1>2. ASSUME NEW i \in 1 .. 2 * Len(gone)
      PROVE  /\ v[i] \in Steps /\ Valid(v[i]) /\ v[i].does \in {"save_account", "write"}
             /\ v[i].does = "save_account" =>
                   /\ v[i].connection = c
                   /\ v[i].account \in DOMAIN d.accounts => d.accounts[v[i].account].connection = c
  <2>1. (i + 1) \div 2 \in DOMAIN gone
    BY <1>1, Halves
  <2>2. PICK a : a = gone[(i + 1) \div 2]
    OBVIOUS
  <2>3. a \in Ours(d, c)
    BY <1>1, <2>1, <2>2
  <2>4. a \in AccountId /\ d.accounts[a].name \in Name
    BY <2>3 DEF Ours, DirectoryOK
  <2>5. v[i] = IF i % 2 = 1 THEN SaveAccount(a, c, d.accounts[a].name, FALSE) ELSE WriteOf("balances")
    BY <2>2
  <2>6. CASE v[i] = SaveAccount(a, c, d.accounts[a].name, FALSE)
    <3>1. PICK n \in Name : n = d.accounts[a].name
      BY <2>4
    <3>2. PICK active \in BOOLEAN : active = FALSE
      OBVIOUS
    <3>3. PICK s : s = SaveAccount(a, c, n, active)
      OBVIOUS
    <3>4. v[i] = s
      BY <2>6, <3>1, <3>2, <3>3
    <3>5. /\ s \in Steps /\ Valid(s) /\ s.does = "save_account" /\ s.connection = c
          /\ s.account \in DOMAIN d.accounts => d.accounts[s.account].connection = c
      BY <2>3, <2>4, <3>3, OneSave
    <3> QED BY <3>4, <3>5
  <2>7. CASE v[i] = WriteOf("balances")
    <3>1. PICK s \in Steps : s = WriteOf("balances") /\ s.does = "write"
      BY StepsAre DEF Files
    <3>2. v[i] = s
      BY <2>7, <3>1
    <3> QED BY <3>1, <3>2 DEF Valid
  <2> QED BY <2>5, <2>6, <2>7
<1>3. DOMAIN v = 1 .. 2 * Len(gone) /\ 2 * Len(gone) \in Nat
  BY <1>1
<1>4. v \in Seq(Steps)
  <2>1. PICK n \in Nat : n = 2 * Len(gone)
    BY <1>3
  <2>2. v \in [1 .. n -> Steps]
    BY <1>2, <2>1
  <2> QED BY <2>1, <2>2, ListLength
<1> QED BY <1>2, <1>3, <1>4 DEF Saves

\* Accounts saved, then the connection, files and the commit: the steps of a sync.
LEMMA WholeJoined ==
  ASSUME NEW d, NEW c \in ConnectionId, NEW s, Saves(s, d, c),
         NEW x \in Steps, x.does = "save_connection" /\ x.connection = c,
         NEW t, t[1] = x, 1 \in DOMAIN t, \A i \in DOMAIN t : i # 1 => t[i].does = "write",
         NEW k \in Steps, k.does = "commit unless disabled",
         NEW w, NEW n, Join(s, n, t, w),
         NEW kk, DOMAIN kk = {1} /\ kk[1] = k, NEW u \in Seq(Steps), NEW m, Join(w, m, kk, u)
  PROVE  SyncSteps(u, d, c)
<1>1. ASSUME NEW i \in DOMAIN w
      PROVE  \/ i \in DOMAIN s /\ i \in Nat /\ i <= n /\ w[i] = s[i]
             \/ \E j \in DOMAIN t : i = n + j /\ w[i] = t[j]
  <2>1. Parts(s, n, t, w)
    BY JoinParts
  <2> QED BY <2>1 DEF Parts
<1>2. n \in Nat /\ n + 1 \in DOMAIN w /\ w[n + 1] = x
  BY DEF Join
<1>3. \A i \in DOMAIN u : \/ i \in DOMAIN w /\ i \in Nat /\ i <= m /\ u[i] = w[i]
                          \/ i = m + 1
  BY DEF Join
<1>4. m \in Nat /\ m + 1 \in DOMAIN u /\ u[m + 1] = k
  BY DEF Join
<1>5. n + 1 \in DOMAIN u /\ u[n + 1] = x
  BY <1>2 DEF Join
<1>6. ASSUME NEW i \in DOMAIN w
       PROVE  /\ Valid(w[i]) /\ w[i].does \in {"save_account", "save_connection", "write"}
              /\ w[i].does \in {"save_account", "save_connection"} => w[i].connection = c
              /\ w[i].does = "save_account" =>
                    /\ w[i].account \in DOMAIN d.accounts => d.accounts[w[i].account].connection = c
                    /\ i \in Nat /\ i <= n
  <2>1. CASE i \in DOMAIN s /\ i \in Nat /\ i <= n /\ w[i] = s[i]
    BY <2>1, ZenonT(60) DEF Saves
  <2>2. CASE \E j \in DOMAIN t : w[i] = t[j]
    <3>1. PICK j \in DOMAIN t : w[i] = t[j]
      BY <2>2
    <3>2. CASE j = 1
      BY <3>1, <3>2 DEF Valid
    <3>3. CASE j # 1
      BY <3>1, <3>3 DEF Valid
    <3> QED BY <3>2, <3>3
  <2> QED BY <1>1, <2>1, <2>2
<1>7. ASSUME NEW i \in DOMAIN u
       PROVE  /\ Valid(u[i])
              /\ u[i].does \in {"save_account", "save_connection", "write", "commit unless disabled"}
              /\ u[i].does \in {"save_account", "save_connection"} => u[i].connection = c
              /\ u[i].does = "save_account" =>
                    /\ u[i].account \in DOMAIN d.accounts => d.accounts[u[i].account].connection = c
                    /\ i \in Nat /\ i <= n
              /\ u[i].does \in Writing => i \in Nat /\ i <= m
  <2>1. CASE i \in DOMAIN w /\ i \in Nat /\ i <= m /\ u[i] = w[i]
    BY <1>6, <2>1, ZenonT(60)
  <2>2. CASE i = m + 1
    BY <1>4, <2>2 DEF Valid, Writing, WritesDirectory
  <2> QED BY <1>3, <2>1, <2>2
<1>8. ASSUME NEW i \in DOMAIN u, u[i].does = "save_account"
       PROVE  \E j \in DOMAIN u : i < j /\ u[j].does = "save_connection"
  <2>1. i \in Nat /\ i <= n
    BY <1>7, <1>8
  <2>2. i < n + 1
    BY <1>2, <2>1, Beyond
  <2> QED BY <1>5, <2>2
<1>9. CommitsOK(u)
  <2> SUFFICES ASSUME NEW i \in DOMAIN u, u[i].does \in Writing
               PROVE  \E j \in DOMAIN u : i < j /\ u[j].does \in Committing
    BY DEF CommitsOK
  <2>1. i \in Nat /\ i <= m
    BY <1>7
  <2>2. i < m + 1
    BY <1>4, <2>1, Beyond
  <2> QED BY <1>4, <2>2 DEF Committing
<1> QED BY <1>7, <1>8, <1>9 DEF SyncSteps

\* The whole: what is saved, the connection, three files, and the commit.
LEMMA SavedWhole ==
  ASSUME NEW d, NEW c \in ConnectionId, NEW s, Saves(s, d, c),
         NEW x \in Steps, x.does = "save_connection" /\ x.connection = c,
         NEW t \in Seq(Steps), t[1] = x, 1 \in DOMAIN t, \A i \in DOMAIN t : i # 1 => t[i].does = "write",
         NEW k \in Steps, k.does = "commit unless disabled",
         NEW u, u = (s \o t) \o <<k>>
  PROVE  SyncSteps(u, d, c)
<1>1. s \in Seq(Steps)
  BY DEF Saves
<1>2. PICK w : w = s \o t
  OBVIOUS
<1>3. w \in Seq(Steps) /\ \E n : Join(s, n, t, w)
  BY <1>1, <1>2, Joined
<1>4. PICK n : Join(s, n, t, w)
  BY <1>3
<1>5. PICK kk : kk = <<k>>
  OBVIOUS
<1>6. kk \in Seq(Steps) /\ DOMAIN kk = {1} /\ kk[1] = k
  BY <1>5, Single
<1>7. u \in Seq(Steps) /\ \E m : Join(w, m, kk, u)
  BY <1>2, <1>3, <1>5, <1>6, Joined
<1>8. PICK m : Join(w, m, kk, u)
  BY <1>7
<1> QED BY <1>3, <1>4, <1>6, <1>7, <1>8, WholeJoined

-----------------------------------------------------------------------------
(* Syncs and the snapshot *)

\* The steps that a sync comes to.
LEMMA SavedWithClock ==
  ASSUME NEW d, DirectoryOK(d), NEW c \in DOMAIN d.configs, NEW found,
         \A a \in DOMAIN found : /\ a \in AccountId /\ found[a] \in Name
                                 /\ a \in Ours(d, c) \/ a \notin DOMAIN d.accounts
  PROVE  SyncSteps(SaveWithClock(d, c, found) \o <<AutoCommitter>>, d, c)
<1> DEFINE Gone == {a \in Ours(d, c) \ DOMAIN found : d.accounts[a].active}
<1>1. PICK gone : gone = list_dirs(Gone)
  OBVIOUS
<1>2. PICK kept : kept = list_dirs(DOMAIN found)
  OBVIOUS
<1>3. c \in ConnectionId
  BY DEF DirectoryOK
<1>4. Gone \subseteq Ours(d, c) /\ Ours(d, c) \subseteq AccountId /\ DOMAIN found \subseteq AccountId
  BY DEF Ours, DirectoryOK
<1>5. gone \in Seq(Gone) /\ kept \in Seq(DOMAIN found)
  BY <1>1, <1>2, <1>4, SomeIds, ListsAll
<1>6. PICK v : v = [i \in DOMAIN kept |-> SaveAccount(kept[i], c, found[kept[i]], TRUE)]
  OBVIOUS
<1>7. PICK w : w = [i \in 1 .. 2 * Len(gone) |->
                       LET a == gone[(i + 1) \div 2]
                       IN  IF i % 2 = 1 THEN SaveAccount(a, c, d.accounts[a].name, FALSE) ELSE WriteOf("balances")]
  OBVIOUS
<1>8. PICK t : t = <<SaveConnection(c, kept), WriteOf("balances"), WriteOf("transactions"), WriteOf("prices")>>
  OBVIOUS
<1>9. SaveWithClock(d, c, found) = (v \o w) \o t
  BY <1>1, <1>2, <1>6, <1>7, <1>8 DEF SaveWithClock
<1>10. gone \in Seq(Ours(d, c))
  BY <1>4, <1>5
<1> HIDE DEF Gone
<1>11. Saves(v, d, c)
  BY <1>3, <1>5, <1>6, KeptSaved
<1>12. Saves(w, d, c)
  BY <1>3, <1>7, <1>10, GoneSaved
<1>13. Saves(v \o w, d, c)
  BY <1>11, <1>12, SavesJoined
<1>14. PICK x : x = SaveConnection(c, kept)
  OBVIOUS
<1>15. x \in Steps /\ x.does = "save_connection" /\ x.connection = c
  <2>1. kept \in Seq(AccountId)
    BY <1>4, <1>5
  <2> QED BY <1>3, <1>14, <2>1, SaveConnectionIs
<1>16. PICK y \in Steps : y = WriteOf("balances") /\ y.does = "write"
  BY StepsAre DEF Files
<1>17. PICK z \in Steps : z = WriteOf("transactions") /\ z.does = "write"
  BY StepsAre DEF Files
<1>18. PICK p \in Steps : p = WriteOf("prices") /\ p.does = "write"
  BY StepsAre DEF Files
<1>19. t = <<x, y, z, p>>
  BY <1>8, <1>14, <1>16, <1>17, <1>18
<1>20. /\ t \in Seq(Steps) /\ 1 \in DOMAIN t /\ t[1] = x
       /\ \A i \in DOMAIN t : i # 1 => t[i].does = "write"
  <2>1. t \in Seq(Steps) /\ DOMAIN t = {1, 2, 3, 4} /\ t[1] = x /\ t[2] = y /\ t[3] = z /\ t[4] = p
    BY <1>15, <1>19, Four
  <2> QED BY <1>16, <1>17, <1>18, <2>1
<1>21. PICK k \in Steps : k = AutoCommitter /\ k.does = "commit unless disabled"
  BY StepsAre
<1>22. PICK s : s = v \o w
  OBVIOUS
<1>23. Saves(s, d, c)
  BY <1>13, <1>22
<1>24. PICK u : u = (s \o t) \o <<k>>
  OBVIOUS
<1>25. SyncSteps(u, d, c)
  BY <1>3, <1>15, <1>20, <1>21, <1>23, <1>24, SavedWhole
<1> QED BY <1>9, <1>21, <1>22, <1>24, <1>25

\* What sync_connection_internal comes to is the steps of a sync.
LEMMA SyncIs ==
  ASSUME NEW d, DirectoryOK(d), NEW c \in DOMAIN d.configs, NEW s \in sync_connection_internal(d, c)
  PROVE  SyncSteps(s, d, c)
<1>1. CASE s = <<>>
  <2>1. <<>> \in Seq(Steps) /\ DOMAIN <<>> = {}
    OBVIOUS
  <2> QED BY <1>1, <2>1 DEF SyncSteps, CommitsOK
<1> DEFINE Known == Ours(d, c) \cup Unused(AccountId, d.accounts)
<1>2. ASSUME s # <<>>
      PROVE  \E S \in SUBSET Known : \E found \in [S -> Name] :
                s = SaveWithClock(d, c, found) \o <<AutoCommitter>>
  BY <1>2 DEF sync_connection_internal
<1>3. ASSUME s # <<>> PROVE SyncSteps(s, d, c)
  <2>1. PICK S \in SUBSET Known : \E found \in [S -> Name] :
                s = SaveWithClock(d, c, found) \o <<AutoCommitter>>
    BY <1>2, <1>3
  <2>2. PICK found \in [S -> Name] : s = SaveWithClock(d, c, found) \o <<AutoCommitter>>
    BY <2>1
  <2>3. \A a \in DOMAIN found : /\ a \in AccountId /\ found[a] \in Name
                                /\ a \in Ours(d, c) \/ a \notin DOMAIN d.accounts
    BY DEF Ours, Unused, DirectoryOK
  <2> QED BY <2>2, <2>3, SavedWithClock
<1> QED BY <1>1, <1>3

-----------------------------------------------------------------------------

\* sync connection comes to a good script.
LEMMA SyncConnectionGood ==
  ASSUME NEW d, DirectoryOK(d), NEW td \in sync_connection(d)
  PROVE  ScriptOK(td, d) /\ CommitsOK(td) /\ PushesOK(td)
<1>1. CASE td \in {<<Refuse>>, <<maybe_push_after_sync>>}
  BY <1>1, PlainOnes
<1>2. ASSUME NEW c \in DOMAIN d.configs, td = <<SyncOf(c, FALSE), maybe_push_after_sync>>
      PROVE  ScriptOK(td, d) /\ CommitsOK(td) /\ PushesOK(td)
  <2>1. c \in ConnectionId
    BY DEF DirectoryOK
  <2>2. PICK caught \in BOOLEAN : caught = FALSE
    OBVIOUS
  <2>3. PICK s : s = SyncOf(c, caught)
    OBVIOUS
  <2>4. s \in Steps /\ s.does = "sync" /\ s.connection = c /\ ~s.caught
    BY <2>1, <2>2, <2>3, SyncOfIs
  <2>5. PICK p \in Steps : p = maybe_push_after_sync /\ p.does = "push" /\ ~p.caught
    BY StepsAre
  <2>6. td = <<s, p>>
    BY <1>2, <2>2, <2>3, <2>5
  <2>7. td \in Seq(Steps) /\ DOMAIN td = {1, 2} /\ td[1] = s /\ td[2] = p
    BY <2>4, <2>6
  <2>8. ScriptOK(td, d)
    BY <2>4, <2>5, <2>7, SyncsScript
  <2>9. CommitsOK(td) /\ PushesOK(td)
    BY <2>4, <2>5, <2>7 DEF CommitsOK, PushesOK, Writing, WritesDirectory
  <2> QED BY <2>8, <2>9
<1> QED BY <1>1, <1>2 DEF sync_connection

SyncAllScript(d, S) ==
    LET due == list_dirs(S)
    IN  [i \in DOMAIN due |-> SyncOf(due[i], TRUE)] \o <<AutoCommitter, maybe_push_after_sync>>

\* Two steps, one by one.
LEMMA Two ==
  ASSUME NEW A, NEW a \in A, NEW b \in A, NEW s, s = <<a, b>>
  PROVE  s \in Seq(A) /\ DOMAIN s = {1, 2} /\ s[1] = a /\ s[2] = b
OBVIOUS

\* The order of one and two.
LEMMA OneTwo == 2 \in Nat /\ 1 < 2 /\ 1 <= 2 /\ 2 <= 2
OBVIOUS

\* What follows the syncs ends with a commit or a push.
LEMMA EndsWell ==
  ASSUME NEW w \in Steps, w.does \in {"write", "commit unless disabled"}, ~w.caught,
         NEW k \in Steps, k.does \in {"commit", "push"}, ~k.caught, w.does = "write" => k.does = "commit",
         NEW t \in Seq(Steps), DOMAIN t = {1, 2} /\ t[1] = w /\ t[2] = k
  PROVE  /\ AfterSyncs(t) /\ CommitsOK(t)
         /\ k.does = "push" => PushesOK(t)
<1>1. DOMAIN t = {1, 2} /\ t[1] = w /\ t[2] = k
  OBVIOUS
<1>2. \A i \in DOMAIN t : i = 1 \/ i = 2
  BY <1>1
<1>3. 2 \in DOMAIN t /\ 2 \in Nat /\ 1 < 2 /\ \A i \in DOMAIN t : i <= 2
  BY <1>1, <1>2, OneTwo, Zenon
<1>4. \A i \in DOMAIN t : t[i].does \in {"write", "commit", "commit unless disabled", "push"} /\ ~t[i].caught
  BY <1>1, <1>2
<1>5. \A i \in DOMAIN t : t[i].does \in Writing => i = 1 /\ k.does = "commit"
  BY <1>1, <1>2 DEF Writing, WritesDirectory
<1>6. AfterSyncs(t)
  BY <1>3, <1>4 DEF AfterSyncs
<1>7. CommitsOK(t)
  BY <1>1, <1>3, <1>5 DEF CommitsOK, Committing
<1>8. k.does = "push" => PushesOK(t)
  BY <1>1, <1>3 DEF PushesOK
<1> QED BY <1>1, <1>6, <1>7, <1>8

\* sync all comes to a good script.
LEMMA SyncAllGood ==
  ASSUME NEW d, DirectoryOK(d), NEW td \in sync_all(d)
  PROVE  ScriptOK(td, d) /\ CommitsOK(td) /\ PushesOK(td)
<1>1. sync_all(d) = {SyncAllScript(d, S) : S \in SUBSET DOMAIN d.configs}
  BY DEF sync_all, SyncAllScript
<1>2. PICK S \in SUBSET DOMAIN d.configs : td = SyncAllScript(d, S)
  BY <1>1
<1>3. PICK due : due = list_dirs(S)
  OBVIOUS
<1>4. PICK v : v = [i \in DOMAIN due |-> SyncOf(due[i], TRUE)]
  OBVIOUS
<1>5. v \in Seq(Steps) /\ AllSyncs(v, d)
  BY <1>3, <1>4, SyncsDue
<1>6. PICK k \in Steps : k = AutoCommitter /\ k.does = "commit unless disabled" /\ ~k.caught
  BY StepsAre
<1>7. PICK p \in Steps : p = maybe_push_after_sync /\ p.does = "push" /\ ~p.caught
  BY StepsAre
<1>8. PICK t : t = <<k, p>>
  OBVIOUS
<1>9. td = v \o t
  BY <1>2, <1>3, <1>4, <1>6, <1>7, <1>8 DEF SyncAllScript
<1>10. t \in Seq(Steps) /\ DOMAIN t = {1, 2} /\ t[1] = k /\ t[2] = p
  BY <1>8, Two
<1>11. AfterSyncs(t) /\ CommitsOK(t) /\ PushesOK(t)
  BY <1>6, <1>7, <1>10, EndsWell
<1> QED BY <1>5, <1>9, <1>10, <1>11, SyncsGood

\* Two steps are one and then another.
LEMMA Pair ==
  ASSUME NEW A, NEW a \in A, NEW b \in A
  PROVE  <<a>> \o <<b>> = <<a, b>>
<1>1. PICK s : s = <<a>> \o <<b>>
  OBVIOUS
<1>2. Len(<<a>>) = 1 /\ Len(<<b>>) = 1 /\ <<a>> \in Seq(A) /\ <<b>> \in Seq(A)
      /\ <<a>>[1] = a /\ <<b>>[1] = b
  OBVIOUS
<1>3. s \in Seq(A) /\ Len(s) = 1 + 1 /\ s[1] = a /\ s[2] = b
  BY <1>1, <1>2
<1>4. s = <<a, b>>
  BY <1>3
<1> QED BY <1>1, <1>4

SnapshotScript(d, refreshes, S) ==
    LET due == list_dirs(S)
    IN  ([i \in DOMAIN due |-> SyncOf(due[i], TRUE)]
         \o (IF refreshes THEN <<WriteOf("prices")>> ELSE <<>>)) \o <<maybe_auto_commit>>

\* portfolio snapshot comes to a good script, one that writes nothing when it refreshes nothing.
LEMMA SnapshotGood ==
  ASSUME NEW d, DirectoryOK(d), NEW refreshes \in BOOLEAN, NEW td \in portfolio_snapshot(d, refreshes)
  PROVE  ScriptOK(td, d) /\ CommitsOK(td) /\ (~refreshes => QuietOK(td))
<1>1. portfolio_snapshot(d, refreshes) =
        {<<Refuse>>} \cup {SnapshotScript(d, refreshes, S) :
                             S \in IF refreshes THEN SUBSET DOMAIN d.configs ELSE {{}}}
  BY DEF portfolio_snapshot, SnapshotScript
<1>2. CASE td = <<Refuse>>
  BY <1>2, PlainOnes
<1>3. ASSUME NEW S \in SUBSET DOMAIN d.configs, td = SnapshotScript(d, refreshes, S), ~refreshes => S = {}
      PROVE  ScriptOK(td, d) /\ CommitsOK(td) /\ (~refreshes => QuietOK(td))
  <2>1. PICK due : due = list_dirs(S)
    OBVIOUS
  <2>2. PICK v : v = [i \in DOMAIN due |-> SyncOf(due[i], TRUE)]
    OBVIOUS
  <2>3. v \in Seq(Steps) /\ AllSyncs(v, d) /\ (S = {} => v = <<>>)
    BY <2>1, <2>2, SyncsDue
  <2>4. PICK k \in Steps : k = maybe_auto_commit /\ k.does = "commit" /\ ~k.caught
    BY StepsAre
  <2>5. PICK w \in Steps : w = WriteOf("prices") /\ w.does = "write" /\ ~w.caught
    BY StepsAre DEF Files
  <2>6. CASE refreshes
    <3>1. td = (v \o <<w>>) \o <<k>>
      BY <1>3, <2>1, <2>2, <2>4, <2>5, <2>6 DEF SnapshotScript
    <3>2. (v \o <<w>>) \o <<k>> = v \o (<<w>> \o <<k>>)
      BY <2>3, ConcatAssociative
    <3>3. <<w>> \o <<k>> = <<w, k>>
      BY Pair
    <3>4. PICK t : t = <<w, k>>
      OBVIOUS
    <3>5. td = v \o t
      BY <3>1, <3>2, <3>3, <3>4
    <3>6. t \in Seq(Steps) /\ DOMAIN t = {1, 2} /\ t[1] = w /\ t[2] = k
      BY <3>4, Two
    <3>7. AfterSyncs(t) /\ CommitsOK(t)
      BY <2>4, <2>5, <3>6, EndsWell
    <3> QED BY <2>3, <2>6, <3>5, <3>6, <3>7, SyncsGood
  <2>7. CASE ~refreshes
    <3>1. v = <<>>
      BY <1>3, <2>3, <2>7
    <3>2. td = (v \o <<>>) \o <<maybe_auto_commit>>
      BY <1>3, <2>1, <2>2, <2>7 DEF SnapshotScript
    <3>3. (<<>> \o <<>>) \o <<k>> = <<k>>
      OBVIOUS
    <3>4. td = <<maybe_auto_commit>>
      BY <2>4, <3>1, <3>2, <3>3
    <3> QED BY <3>4, CommittedOnly
  <2> QED BY <2>6, <2>7
<1> QED BY <1>1, <1>2, <1>3

-----------------------------------------------------------------------------
(* Every command comes to a good script *)

\* A command that writes a file of an account comes to a good script.
LEMMA OfAnAccountGood ==
  ASSUME NEW d, NEW f \in Files, NEW td \in OfAnAccount(d, f)
  PROVE  ScriptOK(td, d) /\ CommitsOK(td)
<1>1. td = <<Refuse>> \/ td = <<WriteOf(f), maybe_auto_commit>>
  BY DEF OfAnAccount
<1> QED BY <1>1, PlainOnes, WrittenFiles

\* The files that the handlers write.
LEMMA FilesAre ==
  /\ {"balances", "account_config", "annotations", "proposals", "transactions"} \subseteq Files
  /\ {"logs", "prices", "rules"} \subseteq Files
BY DEF Files

\* The commands that add, remove, set and propose come to good scripts.
LEMMA EditGood ==
  ASSUME NEW d, DirectoryOK(d), NEW command \in AddCommand \cup RemoveCommand \cup SetCommand \cup ProposeCommand,
         NEW td \in EditScript(command, d)
  PROVE  ScriptOK(td, d) /\ CommitsOK(td)
<1>1. CASE command = "add connection"
  BY <1>1, AddConnectionGood DEF EditScript
<1>2. CASE command = "add account"
  BY <1>2, AddAccountGood DEF EditScript
<1>3. CASE command = "remove connection"
  BY <1>3, RemoveConnectionGood DEF EditScript
<1>4. CASE command = "set balance"
  <2>1. td \in OfAnAccount(d, "balances")
    BY <1>4 DEF EditScript, set_balance
  <2> QED BY <2>1, FilesAre, OfAnAccountGood
<1>5. CASE command = "set account-config"
  <2>1. td \in OfAnAccount(d, "account_config")
    BY <1>5 DEF EditScript, set_account_config
  <2> QED BY <2>1, FilesAre, OfAnAccountGood
<1>6. CASE command = "set transaction"
  <2>1. td \in OfAnAccount(d, "annotations")
    BY <1>6 DEF EditScript, set_transaction_annotation
  <2> QED BY <2>1, FilesAre, OfAnAccountGood
<1>7. CASE command = "propose transaction"
  <2>1. td \in OfAnAccount(d, "proposals")
    BY <1>7 DEF EditScript, propose_transaction_edit
  <2> QED BY <2>1, FilesAre, OfAnAccountGood
<1> QED BY <1>1, <1>2, <1>3, <1>4, <1>5, <1>6, <1>7 DEF AddCommand, RemoveCommand, SetCommand, ProposeCommand

\* A report comes to a script that writes nothing.
LEMMA ReportGood ==
  ASSUME NEW d, NEW td \in Report
  PROVE  ScriptOK(td, d) /\ CommitsOK(td) /\ QuietOK(td)
BY PlainOnes DEF Report

\* The commands on proposed edits come to good scripts, and the list writes nothing.
LEMMA ProposedEditsGood ==
  ASSUME NEW d, NEW command \in ProposedEditsCommand, NEW td \in ProposedEditsScript(command, d)
  PROVE  /\ ScriptOK(td, d) /\ CommitsOK(td)
         /\ command = "proposed-edits list" => QuietOK(td)
<1>1. CASE command = "proposed-edits list"
  BY <1>1, ReportGood DEF ProposedEditsScript
<1>2. CASE command = "proposed-edits approve"
  <2>1. td = <<Refuse>> \/ td = <<WriteOf("annotations"), WriteOf("proposals"), maybe_auto_commit>>
    BY <1>2 DEF ProposedEditsScript, approve_proposed_transaction_edit
  <2> QED BY <1>2, <2>1, PlainOnes, FilesAre, WrittenFiles
<1>3. CASE command \in {"proposed-edits reject", "proposed-edits remove"}
  <2>1. td = <<Refuse>> \/ td = <<WriteOf("proposals"), maybe_auto_commit>>
    BY <1>3 DEF ProposedEditsScript, decide_proposed_transaction_edit
  <2> QED BY <1>3, <2>1, PlainOnes, FilesAre, WrittenFiles
<1> QED BY <1>1, <1>2, <1>3 DEF ProposedEditsCommand

\* The sync commands come to good scripts, which push in the end.
LEMMA SyncGood ==
  ASSUME NEW d, DirectoryOK(d), NEW command \in SyncCommand, NEW td \in SyncScript(command, d)
  PROVE  ScriptOK(td, d) /\ CommitsOK(td) /\ PushesOK(td)
<1>1. CASE command = "sync connection"
  BY <1>1, SyncConnectionGood DEF SyncScript
<1>2. CASE command = "sync all"
  BY <1>2, SyncAllGood DEF SyncScript
<1>3. CASE command = "sync prices"
  <2>1. \/ td = <<Refuse>> \/ td = <<maybe_push_after_sync>>
        \/ td = <<WriteOf("prices"), AutoCommitter, maybe_push_after_sync>>
    BY <1>3 DEF SyncScript, sync_prices
  <2> QED BY <2>1, PlainOnes, FilesAre, WrittenFiles
<1>4. CASE command = "sync symlinks"
  <2>1. td = <<Step("rebuild_all_symlinks"), maybe_auto_commit, maybe_push_after_sync>>
    BY <1>4 DEF SyncScript, sync_symlinks, Maintain
  <2> QED BY <2>1, Rebuilt
<1>5. CASE command = "sync recompact"
  <2>1. td = <<WriteOf("logs"), maybe_auto_commit, maybe_push_after_sync>>
    BY <1>5 DEF SyncScript, sync_recompact, Maintain
  <2> QED BY <2>1, FilesAre, WrittenFiles
<1>6. CASE command = "sync backfill-metadata"
  <2>1. td = <<WriteOf("transactions"), maybe_auto_commit, maybe_push_after_sync>>
    BY <1>6 DEF SyncScript, sync_backfill_metadata, Maintain
  <2> QED BY <2>1, FilesAre, WrittenFiles
<1> QED BY <1>1, <1>2, <1>3, <1>4, <1>5, <1>6 DEF SyncCommand

\* The portfolio commands come to good scripts, and but for the snapshot they write nothing.
LEMMA PortfolioGood ==
  ASSUME NEW d, DirectoryOK(d), NEW command \in PortfolioCommand, NEW td \in PortfolioScript(command, d)
  PROVE  /\ ScriptOK(td, d) /\ CommitsOK(td)
         /\ command # "portfolio snapshot" => QuietOK(td)
<1>1. CASE command = "portfolio snapshot"
  <2>1. td \in portfolio_snapshot(d, TRUE)
    BY <1>1 DEF PortfolioScript
  <2>2. PICK refreshes \in BOOLEAN : refreshes = TRUE
    OBVIOUS
  <2> QED BY <1>1, <2>1, <2>2, SnapshotGood
<1>2. CASE command \in {"portfolio snapshot --offline", "portfolio snapshot --dry-run"}
  <2>1. td \in portfolio_snapshot(d, FALSE)
    BY <1>2 DEF PortfolioScript
  <2>2. PICK refreshes \in BOOLEAN : refreshes = FALSE
    OBVIOUS
  <2> QED BY <2>1, <2>2, SnapshotGood
<1>3. CASE command \in {"portfolio history", "portfolio change-points", "portfolio tax-impact"}
  <2>1. td \in Report
    BY <1>3 DEF PortfolioScript
  <2> QED BY <2>1, ReportGood
<1> QED BY <1>1, <1>2, <1>3 DEF PortfolioCommand

\* No command is of two kinds.
LEMMA KindsApart ==
  ASSUME NEW command
  PROVE
    /\ command \in AddCommand \cup RemoveCommand \cup SetCommand \cup ProposeCommand =>
          /\ ~ command \in ProposedEditsCommand
          /\ ~ command \in ImportCommand
          /\ ~ command \in SyncCommand
          /\ ~ command \in AuthCommand
          /\ ~ command \in MarketDataCommand
          /\ ~ command \in PortfolioCommand
          /\ ~(command = "tui")
          /\ ~(command \in {"config", "spending"} \cup ListCommand)
    /\ command \in ProposedEditsCommand =>
          /\ ~ command \in ImportCommand
          /\ ~ command \in SyncCommand
          /\ ~ command \in AuthCommand
          /\ ~ command \in MarketDataCommand
          /\ ~ command \in PortfolioCommand
          /\ ~(command = "tui")
          /\ ~(command \in {"config", "spending"} \cup ListCommand)
    /\ command \in ImportCommand =>
          /\ ~ command \in SyncCommand
          /\ ~ command \in AuthCommand
          /\ ~ command \in MarketDataCommand
          /\ ~ command \in PortfolioCommand
          /\ ~(command = "tui")
          /\ ~(command \in {"config", "spending"} \cup ListCommand)
    /\ command \in SyncCommand =>
          /\ ~ command \in AuthCommand
          /\ ~ command \in MarketDataCommand
          /\ ~ command \in PortfolioCommand
          /\ ~(command = "tui")
          /\ ~(command \in {"config", "spending"} \cup ListCommand)
    /\ command \in AuthCommand =>
          /\ ~ command \in MarketDataCommand
          /\ ~ command \in PortfolioCommand
          /\ ~(command = "tui")
          /\ ~(command \in {"config", "spending"} \cup ListCommand)
    /\ command \in MarketDataCommand =>
          /\ ~ command \in PortfolioCommand
          /\ ~(command = "tui")
          /\ ~(command \in {"config", "spending"} \cup ListCommand)
    /\ command \in PortfolioCommand =>
          /\ ~(command = "tui")
          /\ ~(command \in {"config", "spending"} \cup ListCommand)
    /\ command = "tui" =>
          /\ ~(command \in {"config", "spending"} \cup ListCommand)
<1>1. command \in AddCommand \cup RemoveCommand \cup SetCommand \cup ProposeCommand =>
        /\ ~ command \in ProposedEditsCommand
        /\ ~ command \in ImportCommand
        /\ ~ command \in SyncCommand
        /\ ~ command \in AuthCommand
        /\ ~ command \in MarketDataCommand
        /\ ~ command \in PortfolioCommand
        /\ ~(command = "tui")
        /\ ~(command \in {"config", "spending"} \cup ListCommand)
  BY DEF AddCommand, RemoveCommand, SetCommand, ProposeCommand, ProposedEditsCommand, ImportCommand,
   SyncCommand, AuthCommand, MarketDataCommand, PortfolioCommand, ListCommand
<1>2. command \in ProposedEditsCommand =>
        /\ ~ command \in ImportCommand
        /\ ~ command \in SyncCommand
        /\ ~ command \in AuthCommand
        /\ ~ command \in MarketDataCommand
        /\ ~ command \in PortfolioCommand
        /\ ~(command = "tui")
        /\ ~(command \in {"config", "spending"} \cup ListCommand)
  BY DEF AddCommand, RemoveCommand, SetCommand, ProposeCommand, ProposedEditsCommand, ImportCommand,
   SyncCommand, AuthCommand, MarketDataCommand, PortfolioCommand, ListCommand
<1>3. command \in ImportCommand =>
        /\ ~ command \in SyncCommand
        /\ ~ command \in AuthCommand
        /\ ~ command \in MarketDataCommand
        /\ ~ command \in PortfolioCommand
        /\ ~(command = "tui")
        /\ ~(command \in {"config", "spending"} \cup ListCommand)
  BY DEF AddCommand, RemoveCommand, SetCommand, ProposeCommand, ProposedEditsCommand, ImportCommand,
   SyncCommand, AuthCommand, MarketDataCommand, PortfolioCommand, ListCommand
<1>4. command \in SyncCommand =>
        /\ ~ command \in AuthCommand
        /\ ~ command \in MarketDataCommand
        /\ ~ command \in PortfolioCommand
        /\ ~(command = "tui")
        /\ ~(command \in {"config", "spending"} \cup ListCommand)
  BY DEF AddCommand, RemoveCommand, SetCommand, ProposeCommand, ProposedEditsCommand, ImportCommand,
   SyncCommand, AuthCommand, MarketDataCommand, PortfolioCommand, ListCommand
<1>5. command \in AuthCommand =>
        /\ ~ command \in MarketDataCommand
        /\ ~ command \in PortfolioCommand
        /\ ~(command = "tui")
        /\ ~(command \in {"config", "spending"} \cup ListCommand)
  BY DEF AddCommand, RemoveCommand, SetCommand, ProposeCommand, ProposedEditsCommand, ImportCommand,
   SyncCommand, AuthCommand, MarketDataCommand, PortfolioCommand, ListCommand
<1>6. command \in MarketDataCommand =>
        /\ ~ command \in PortfolioCommand
        /\ ~(command = "tui")
        /\ ~(command \in {"config", "spending"} \cup ListCommand)
  BY DEF AddCommand, RemoveCommand, SetCommand, ProposeCommand, ProposedEditsCommand, ImportCommand,
   SyncCommand, AuthCommand, MarketDataCommand, PortfolioCommand, ListCommand
<1>7. command \in PortfolioCommand =>
        /\ ~(command = "tui")
        /\ ~(command \in {"config", "spending"} \cup ListCommand)
  BY DEF AddCommand, RemoveCommand, SetCommand, ProposeCommand, ProposedEditsCommand, ImportCommand,
   SyncCommand, AuthCommand, MarketDataCommand, PortfolioCommand, ListCommand
<1>8. command = "tui" =>
        /\ ~(command \in {"config", "spending"} \cup ListCommand)
  BY DEF AddCommand, RemoveCommand, SetCommand, ProposeCommand, ProposedEditsCommand, ImportCommand,
   SyncCommand, AuthCommand, MarketDataCommand, PortfolioCommand, ListCommand
<1> QED BY <1>1, <1>2, <1>3, <1>4, <1>5, <1>6, <1>7, <1>8

\* Which handler a command is given to.
LEMMA ScriptIs ==
  ASSUME NEW command, NEW d
  PROVE
    /\ command \in AddCommand \cup RemoveCommand \cup SetCommand \cup ProposeCommand => Script(command, d) = EditScript(command, d)
    /\ command \in ProposedEditsCommand => Script(command, d) = ProposedEditsScript(command, d)
    /\ command \in ImportCommand => Script(command, d) = import_schwab_transactions(d)
    /\ command \in SyncCommand => Script(command, d) = SyncScript(command, d)
    /\ command \in AuthCommand => Script(command, d) = login(d)
    /\ command \in MarketDataCommand => Script(command, d) = fetch_historical_prices(d)
    /\ command \in PortfolioCommand => Script(command, d) = PortfolioScript(command, d)
    /\ command = "tui" => Script(command, d) = run_tui(d)
    /\ command \in {"config", "spending"} \cup ListCommand => Script(command, d) = Report
<1>1. ASSUME command \in AddCommand \cup RemoveCommand \cup SetCommand \cup ProposeCommand PROVE Script(command, d) = EditScript(command, d)
  BY <1>1, KindsApart DEF Script
<1>2. ASSUME command \in ProposedEditsCommand PROVE Script(command, d) = ProposedEditsScript(command, d)
  BY <1>2, KindsApart DEF Script
<1>3. ASSUME command \in ImportCommand PROVE Script(command, d) = import_schwab_transactions(d)
  BY <1>3, KindsApart DEF Script
<1>4. ASSUME command \in SyncCommand PROVE Script(command, d) = SyncScript(command, d)
  BY <1>4, KindsApart DEF Script
<1>5. ASSUME command \in AuthCommand PROVE Script(command, d) = login(d)
  BY <1>5, KindsApart DEF Script
<1>6. ASSUME command \in MarketDataCommand PROVE Script(command, d) = fetch_historical_prices(d)
  BY <1>6, KindsApart DEF Script
<1>7. ASSUME command \in PortfolioCommand PROVE Script(command, d) = PortfolioScript(command, d)
  BY <1>7, KindsApart DEF Script
<1>8. ASSUME command = "tui" PROVE Script(command, d) = run_tui(d)
  BY <1>8, KindsApart DEF Script
<1>9. ASSUME command \in {"config", "spending"} \cup ListCommand PROVE Script(command, d) = Report
  BY <1>9, KindsApart DEF Script
<1> QED BY <1>1, <1>2, <1>3, <1>4, <1>5, <1>6, <1>7, <1>8, <1>9

\* Every command comes to a script that is good for the directory it finds.
LEMMA ScriptGood ==
  ASSUME NEW d, DirectoryOK(d), NEW command \in Command, NEW td \in Script(command, d)
  PROVE  Good(command, td, d)
<1>1. CASE command \in AddCommand \cup RemoveCommand \cup SetCommand \cup ProposeCommand
  <2>1. edits_data(command) /\ command \notin SyncCommand
    BY <1>1 DEF edits_data, AddCommand, RemoveCommand, SetCommand, ProposeCommand, SyncCommand
  <2>2. td \in EditScript(command, d)
    BY <1>1, ScriptIs
  <2> QED BY <1>1, <2>1, <2>2, EditGood DEF Good
<1>2. CASE command \in ProposedEditsCommand
  <2>1. /\ command # "proposed-edits list" => edits_data(command)
        /\ command \notin SyncCommand
    BY <1>2 DEF edits_data, ProposedEditsCommand, SyncCommand
  <2>2. td \in ProposedEditsScript(command, d)
    BY <1>2, ScriptIs
  <2> QED BY <1>2, <2>1, <2>2, ProposedEditsGood DEF Good
<1>3. CASE command \in ImportCommand
  <2>1. edits_data(command) /\ command \notin SyncCommand
    BY <1>3 DEF edits_data, ImportCommand, SyncCommand
  <2>2. td = <<>> \/ td \in OfAnAccount(d, "transactions")
    BY <1>3, ScriptIs DEF import_schwab_transactions
  <2> QED BY <2>1, <2>2, PlainOnes, FilesAre, OfAnAccountGood DEF Good
<1>4. CASE command \in SyncCommand
  <2>1. edits_data(command)
    BY <1>4 DEF edits_data
  <2>2. td \in SyncScript(command, d)
    BY <1>4, ScriptIs
  <2> QED BY <1>4, <2>1, <2>2, SyncGood DEF Good
<1>5. CASE command \in AuthCommand
  <2>1. command \notin SyncCommand
    BY <1>5 DEF AuthCommand, SyncCommand
  <2>2. td = <<>> \/ td = <<Refuse>>
    BY <1>5, ScriptIs DEF login
  <2> QED BY <2>1, <2>2, PlainOnes DEF Good
<1>6. CASE command \in MarketDataCommand
  <2>1. edits_data(command) /\ command \notin SyncCommand
    BY <1>6 DEF edits_data, MarketDataCommand, SyncCommand
  <2>2. td = <<Refuse>> \/ td = <<WriteOf("prices"), maybe_auto_commit>>
    BY <1>6, ScriptIs DEF fetch_historical_prices
  <2> QED BY <2>1, <2>2, PlainOnes, FilesAre, WrittenFiles DEF Good
<1>7. CASE command \in PortfolioCommand
  <2>1. /\ command = "portfolio snapshot" => edits_data(command)
        /\ command \notin SyncCommand
    BY <1>7 DEF edits_data, PortfolioCommand, SyncCommand
  <2>2. td \in PortfolioScript(command, d)
    BY <1>7, ScriptIs
  <2> QED BY <1>7, <2>1, <2>2, PortfolioGood DEF Good
<1>8. CASE command = "tui"
  <2>1. command \notin SyncCommand
    BY <1>8 DEF SyncCommand
  <2>2. td = <<>> \/ td = <<WriteOf("annotations"), maybe_auto_commit>> \/ td = <<WriteOf("rules")>>
    BY <1>8, ScriptIs DEF run_tui
  <2> QED BY <1>8, <2>1, <2>2, PlainOnes, FilesAre, WrittenFiles DEF Good
<1>9. CASE command \in {"config", "spending"} \cup ListCommand
  <2>1. command \notin SyncCommand
    BY <1>9 DEF ListCommand, SyncCommand
  <2>2. td \in Report
    BY <1>9, ScriptIs
  <2> QED BY <2>1, <2>2, ReportGood DEF Good
<1> QED BY <1>1, <1>2, <1>3, <1>4, <1>5, <1>6, <1>7, <1>8, <1>9 DEF Command

-----------------------------------------------------------------------------
(* The inductive invariant: a command on its course *)

Phases == {"merge", "pull", "dispatch", "run", "done"}
Running == [command : Command, enabled : SUBSET {"merge", "pull", "push"}, unpulled : BOOLEAN,
            phase : Phases, todo : Seq(Steps), wrote : BOOLEAN, failed : BOOLEAN, followed : BOOLEAN]

\* r is the command that runs, d the directory, st the settings.
\* A command that is to pull before it edits has not written when it has not pulled.
PullsFirst(r, st) ==
    /\ r.phase \in {"merge", "pull"} /\ edits_data(r.command) /\ r.unpulled => "pull" \in r.enabled
    /\ r.phase \in {"dispatch", "run"} /\ st.is_repo /\ edits_data(r.command) => ~r.unpulled
    /\ r.wrote /\ r.command # "tui" => edits_data(r.command)
    /\ r.wrote /\ r.command # "tui" /\ st.is_repo => ~r.unpulled
\* What holds until the handler of the command is called.
NotBegun(r, d) ==
    r.phase \in {"merge", "pull", "dispatch"} =>
        ~r.wrote /\ ~r.failed /\ (r.followed => LinksFollow(d))
\* The steps that are left are good for the directory as it is now.
StepsLeft(r, d) ==
    r.phase = "run" =>
        /\ ScriptOK(r.todo, d)
        /\ ~edits_data(r.command) /\ r.command # "tui" => QuietOK(r.todo)
        /\ ~r.failed /\ r.followed => FollowOK(r.todo, d)
\* What was written will be committed, and the commit pushed.
ToCommit(r, ch, st) ==
    r.phase = "run" /\ ~r.failed /\ r.command # "tui" =>
        /\ CommitsOK(r.todo)
        /\ /\ r.wrote /\ ch
           /\ st.auto_commit /\ st.is_repo /\ ~st.KEEPBOOK_DISABLE_AUTO_COMMIT
           => \E i \in DOMAIN r.todo : r.todo[i].does \in Committing
ToPush(r, un, st) ==
    r.phase = "run" /\ ~r.failed /\ r.command \in SyncCommand =>
        \/ PushesOK(r.todo)
        \/ r.todo = <<>> /\ ("push" \in r.enabled /\ st.is_repo => ~un)
Ended(r, d, ch, un, st) ==
    r.phase = "done" /\ ~r.failed =>
        /\ /\ r.wrote /\ r.command # "tui"
           /\ st.auto_commit /\ st.is_repo /\ ~st.KEEPBOOK_DISABLE_AUTO_COMMIT
           => ~ch
        /\ "push" \in r.enabled /\ r.command \in SyncCommand /\ st.is_repo => ~un
        /\ r.followed => LinksFollow(d)

OnCourse(r, d, ch, un, st) ==
    /\ r \in Running
    /\ PullsFirst(r, st)
    /\ NotBegun(r, d)
    /\ StepsLeft(r, d)
    /\ ToCommit(r, ch, st)
    /\ ToPush(r, un, st)
    /\ Ended(r, d, ch, un, st)

CountsOK ==
    /\ changed \in BOOLEAN /\ unpushed \in BOOLEAN
    /\ settings \in Settings
    /\ commands \in 0 .. MaxCommands[settings] /\ failures \in 0 .. MaxFailures
CommandsInv ==
    /\ CountsOK
    /\ DirectoryOK(directory)
    /\ running # Nothing => OnCourse(running, directory, changed, unpushed, settings)

-----------------------------------------------------------------------------

\* The invariant gives the types and what a command that is over leaves behind.
LEMMA InvGives ==
  ASSUME CommandsInv
  PROVE  CommandsTypeOK /\ CommandsTidyUp
<1>1. CommandsTypeOK
  <2>1. \A a \in DOMAIN directory.accounts :
           a \in AccountId /\ directory.accounts[a] \in [connection : ConnectionId, name : Name, active : BOOLEAN]
    BY DEF CommandsInv, DirectoryOK
  <2>2. DOMAIN directory.configs \subseteq ConnectionId /\ DOMAIN directory.states \subseteq ConnectionId
    BY DEF CommandsInv, DirectoryOK
  <2>3. running # Nothing => running \in Running
    BY DEF CommandsInv, OnCourse
  <2>4. running # Nothing => running.command \in Command /\ running.phase \in Phases
    BY <2>3 DEF Running
  <2> QED BY <2>1, <2>2, <2>4 DEF CommandsInv, CountsOK, CommandsTypeOK, Phases
<1>2. CommandsTidyUp
  <2> SUFFICES ASSUME running # Nothing PROVE CommandsTidyUp
    BY DEF CommandsTidyUp, EndedWell
  <2>1. Ended(running, directory, changed, unpushed, settings) /\ PullsFirst(running, settings)
    BY DEF CommandsInv, OnCourse
  <2> QED BY <2>1 DEF CommandsTidyUp, EndedWell, HasCommitted, Ended, PullsFirst
<1> QED BY <1>1, <1>2

\* It holds of a new directory, where no command runs.
LEMMA InitInv ==
  CommandsInit => CommandsInv
<1> SUFFICES ASSUME CommandsInit PROVE CommandsInv
  OBVIOUS
<1>1. DOMAIN <<>> = {}
  OBVIOUS
<1>2. DirectoryOK(directory)
  <2>1. /\ DOMAIN directory = Fields
        /\ directory.configs = <<>> /\ directory.states = <<>> /\ directory.accounts = <<>>
    BY DEF CommandsInit, EmptyDirectory, Fields
  <2> QED BY <1>1, <2>1 DEF DirectoryOK
<1>3. MaxCommands[settings] \in Nat /\ MaxFailures \in Nat
  BY CommandsAssumption DEF CommandsInit
<1>4. CountsOK
  <2>1. commands \in 0 .. MaxCommands[settings] /\ failures \in 0 .. MaxFailures
    BY <1>3 DEF CommandsInit
  <2> QED BY <2>1 DEF CommandsInit, CountsOK
<1> QED BY <1>2, <1>4 DEF CommandsInit, CommandsInv

\* The settings are what they may be, and stay.
LEMMA SettingsAre ==
  ASSUME CountsOK
  PROVE  /\ MaxCommands[settings] \in Nat /\ MaxFailures \in Nat
         /\ settings.auto_commit \in BOOLEAN /\ settings.is_repo \in BOOLEAN /\ settings.auto_push \in BOOLEAN
         /\ settings.KEEPBOOK_DISABLE_AUTO_COMMIT \in BOOLEAN
<1>1. settings \in [auto_commit : BOOLEAN, auto_push : BOOLEAN, is_repo : BOOLEAN,
                    KEEPBOOK_DISABLE_AUTO_COMMIT : BOOLEAN]
  BY CommandsAssumption DEF CountsOK
<1>2. MaxCommands[settings] \in Nat /\ MaxFailures \in Nat
  BY CommandsAssumption DEF CountsOK
<1> QED BY <1>1, <1>2

\* It is kept by the start of a command.
LEMMA StartKeeps ==
  ASSUME CommandsInv, NEW command \in Command, NEW enabled \in SUBSET {"merge", "pull", "push"},
         Start(command, enabled)
  PROVE  CommandsInv'
<1>1. CountsOK'
  BY SettingsAre DEF Start, CommandsInv, CountsOK
<1>2. DirectoryOK(directory')
  BY DEF Start, CommandsInv
<1> DEFINE some == {e \in enabled : /\ e = "pull" => edits_data(command)
                                    /\ e = "push" => command \in SyncCommand}
<1>3. /\ running'.command = command /\ running'.enabled = some
      /\ running'.unpulled = ("pull" \in enabled) /\ running'.phase = "merge" /\ running'.todo = <<>>
      /\ running'.wrote = FALSE /\ running'.failed = FALSE /\ running'.followed = LinksFollow(directory)
  BY DEF Start
<1>4. running' \in Running
  <2>1. some \in SUBSET {"merge", "pull", "push"}
    OBVIOUS
  <2>2. <<>> \in Seq(Steps)
    OBVIOUS
  <2>3. LinksFollow(directory) \in BOOLEAN
    BY DEF LinksFollow
  <2> HIDE DEF some
  <2>4. running' = [command |-> command, enabled |-> some, unpulled |-> "pull" \in enabled,
                    phase |-> "merge", todo |-> <<>>, wrote |-> FALSE,
                    failed |-> FALSE, followed |-> LinksFollow(directory)]
    BY DEF Start, some
  <2> QED BY <2>1, <2>2, <2>3, <2>4 DEF Running, Phases
<1>5. PullsFirst(running', settings')
  BY <1>3 DEF PullsFirst
<1>6. directory' = directory
  BY DEF Start
<1>7. NotBegun(running', directory')
  BY <1>3, <1>6 DEF NotBegun
<1>8. /\ StepsLeft(running', directory') /\ ToCommit(running', changed', settings')
      /\ ToPush(running', unpushed', settings')
      /\ Ended(running', directory', changed', unpushed', settings')
  BY <1>3 DEF StepsLeft, ToCommit, ToPush, Ended
<1> QED BY <1>1, <1>2, <1>4, <1>5, <1>7, <1>8 DEF CommandsInv, OnCourse

-----------------------------------------------------------------------------
(* Steps that write *)

\* What is left of a command that writes nothing writes nothing.
LEMMA LeftQuiet ==
  ASSUME NEW td, QuietOK(td), NEW k, NEW s, Left(td, k, s)
  PROVE  QuietOK(s)
BY DEF QuietOK, Left

\* A commit that is not the first step is left after it.
LEMMA LeftCommitting ==
  ASSUME NEW td \in Seq(Steps), td # <<>>, NEW i \in DOMAIN td, td[i].does \in Committing, i # 1
  PROVE  \E j \in DOMAIN Tail(td) : Tail(td)[j].does \in Committing
<1>1. Left(td, 1, Tail(td))
  BY TailLeft
<1>2. i \in Nat /\ i > 1
  BY <1>1 DEF Left
<1>3. i - 1 \in DOMAIN Tail(td) /\ Tail(td)[i - 1] = td[i]
  BY <1>1, <1>2 DEF Left
<1> QED BY <1>3

\* After a step that writes a commit is left.
LEMMA WrittenIsCommitted ==
  ASSUME NEW td \in Seq(Steps), td # <<>>, CommitsOK(td), Head(td).does \in Writing
  PROVE  \E j \in DOMAIN Tail(td) : Tail(td)[j].does \in Committing
<1>1. 1 \in DOMAIN td /\ Head(td) = td[1]
  BY TailLeft
<1>2. PICK i \in DOMAIN td : 1 < i /\ td[i].does \in Committing
  BY <1>1 DEF CommitsOK
<1>3. i # 1
  <2>1. ~(1 < 1)
    OBVIOUS
  <2> QED BY <1>2, <2>1
<1> QED BY <1>2, <1>3, LeftCommitting

\* What is left after a step commits what it writes.
LEMMA TailCommits ==
  ASSUME NEW td \in Seq(Steps), td # <<>>, CommitsOK(td)
  PROVE  CommitsOK(Tail(td))
BY TailLeft, LeftCommits

\* What is left of a command that writes nothing writes nothing, and its step did not.
LEMMA TailQuiet ==
  ASSUME NEW td \in Seq(Steps), td # <<>>, QuietOK(td)
  PROVE  QuietOK(Tail(td)) /\ Head(td).does \notin Writing \cup {"sync"}
<1>1. Left(td, 1, Tail(td)) /\ 1 \in DOMAIN td /\ Head(td) = td[1]
  BY TailLeft
<1> QED BY <1>1, LeftQuiet DEF QuietOK

\* The push is the last step.
LEMMA TailPushes ==
  ASSUME NEW td \in Seq(Steps), td # <<>>, PushesOK(td)
  PROVE  \/ PushesOK(Tail(td))
         \/ Tail(td) = <<>> /\ Head(td).does \in {"push", "refuse"}
<1>1. Left(td, 1, Tail(td)) /\ 1 \in DOMAIN td /\ Head(td) = td[1] /\ Tail(td) \in Seq(Steps)
  BY TailLeft
<1>2. PICK i \in DOMAIN td : (\A j \in DOMAIN td : j <= i) /\ td[i].does \in {"push", "refuse"}
  BY DEF PushesOK
<1>3. i \in Nat /\ i >= 1
  BY <1>1 DEF Left
<1>4. CASE i = 1
  <2>1. ASSUME NEW j \in DOMAIN Tail(td) PROVE FALSE
    <3>1. j \in Nat /\ j >= 1 /\ j + 1 \in DOMAIN td
      BY <1>1 DEF Left
    <3>2. j + 1 <= 1
      BY <1>2, <1>4, <3>1
    <3> QED BY <3>1, <3>2
  <2>2. Tail(td) = <<>>
    BY <1>1, <2>1
  <2> QED BY <1>1, <1>2, <1>4, <2>2
<1>5. CASE i > 1
  <2>1. i - 1 \in DOMAIN Tail(td) /\ Tail(td)[i - 1] = td[i]
    BY <1>1, <1>5 DEF Left
  <2>2. ASSUME NEW j \in DOMAIN Tail(td) PROVE j <= i - 1
    <3>1. j \in Nat /\ j + 1 \in DOMAIN td
      BY <1>1 DEF Left
    <3>2. j + 1 <= i
      BY <1>2, <3>1
    <3> QED BY <1>3, <3>1, <3>2
  <2> QED BY <1>2, <2>1, <2>2 DEF PushesOK
<1> QED BY <1>3, <1>4, <1>5

-----------------------------------------------------------------------------
\* The command after a step: rest is left, and w says whether it wrote.
Goes(r, q, rest, w) ==
    /\ q \in Running
    /\ q.command = r.command /\ q.enabled = r.enabled /\ q.unpulled = r.unpulled /\ q.phase = r.phase
    /\ q.failed = r.failed /\ q.followed = r.followed
    /\ q.todo = rest /\ q.wrote = (r.wrote \/ w)

\* A step was done: the rest is left, and the command wrote if the step did.
LEMMA GoesIs ==
  ASSUME NEW r \in Running, NEW rest \in Seq(Steps), NEW w \in BOOLEAN,
         NEW q, q = [r EXCEPT !.todo = rest, !.wrote = @ \/ w]
  PROVE  Goes(r, q, rest, w)
BY DEF Goes, Running

\* A command is on course after a step when what is left is good for what the step made.
LEMMA GoesOnCourse ==
  ASSUME NEW r, NEW d, NEW ch, NEW un, NEW st, OnCourse(r, d, ch, un, st), r.phase = "run",
         NEW q, NEW rest, NEW w \in BOOLEAN, Goes(r, q, rest, w),
         w /\ r.command # "tui" => edits_data(r.command),
         NEW e, ScriptOK(rest, e),
         ~edits_data(r.command) /\ r.command # "tui" => QuietOK(rest),
         ~r.failed /\ r.followed => FollowOK(rest, e),
         NEW ch2, NEW un2, ToCommit(q, ch2, st), ToPush(q, un2, st)
  PROVE  OnCourse(q, e, ch2, un2, st)
<1>1. q \in Running
  BY DEF Goes
<1>2. PullsFirst(q, st)
  BY DEF Goes, OnCourse, PullsFirst
<1>3. NotBegun(q, e) /\ Ended(q, e, ch2, un2, st)
  BY DEF Goes, NotBegun, Ended
<1>4. StepsLeft(q, e)
  BY DEF Goes, StepsLeft
<1> QED BY <1>1, <1>2, <1>3, <1>4 DEF OnCourse

\* A step that does not push leaves the push to be done.
LEMMA StillToPush ==
  ASSUME NEW r, NEW st, NEW un, ToPush(r, un, st), r.phase = "run", r.todo \in Seq(Steps), r.todo # <<>>,
         Head(r.todo).does \notin {"push", "refuse"},
         NEW q, NEW w, Goes(r, q, Tail(r.todo), w), NEW un2
  PROVE  ToPush(q, un2, st)
<1>1. ASSUME ~q.failed, q.command \in SyncCommand PROVE PushesOK(q.todo)
  <2>1. PushesOK(r.todo)
    BY <1>1 DEF Goes, ToPush
  <2> QED BY <2>1, TailPushes DEF Goes
<1> QED BY <1>1 DEF ToPush

\* A step that writes will be committed.
LEMMA WriteToCommit ==
  ASSUME NEW r, NEW st, NEW ch, ToCommit(r, ch, st), r.phase = "run", r.todo \in Seq(Steps), r.todo # <<>>,
         Head(r.todo).does \in Writing,
         NEW q, NEW w, Goes(r, q, Tail(r.todo), w), NEW ch2
  PROVE  ToCommit(q, ch2, st)
<1>1. ASSUME ~q.failed, q.command # "tui"
      PROVE  CommitsOK(q.todo) /\ \E i \in DOMAIN q.todo : q.todo[i].does \in Committing
  <2>1. CommitsOK(r.todo)
    BY <1>1 DEF Goes, ToCommit
  <2> QED BY <2>1, TailCommits, WrittenIsCommitted DEF Goes
<1> QED BY <1>1 DEF ToCommit

\* What the invariant says of a command that is at a step.
LEMMA AtRun ==
  ASSUME CommandsInv, NEW does, At(does)
  PROVE  /\ OnCourse(running, directory, changed, unpushed, settings)
         /\ running \in Running /\ running.phase = "run" /\ running.todo \in Seq(Steps) /\ running.todo # <<>>
         /\ ScriptOK(running.todo, directory) /\ Doing = Head(running.todo) /\ Doing.does \in does
         /\ Tail(running.todo) \in Seq(Steps)
         /\ ToCommit(running, changed, settings) /\ ToPush(running, unpushed, settings)
         /\ ~edits_data(running.command) /\ running.command # "tui" =>
               QuietOK(Tail(running.todo)) /\ Doing.does \notin Writing \cup {"sync"}
         /\ ~running.failed /\ running.followed => FollowOK(running.todo, directory)
<1>1. running # Nothing /\ running.phase = "run" /\ running.todo # <<>> /\ Head(running.todo).does \in does
  BY DEF At
<1>2. OnCourse(running, directory, changed, unpushed, settings)
  BY <1>1 DEF CommandsInv
<1>3. running \in Running /\ StepsLeft(running, directory)
      /\ ToCommit(running, changed, settings) /\ ToPush(running, unpushed, settings)
  BY <1>2 DEF OnCourse
<1>4. ScriptOK(running.todo, directory)
  BY <1>1, <1>3 DEF StepsLeft
<1>5. running.todo \in Seq(Steps)
  BY <1>4 DEF ScriptOK
<1>6. Tail(running.todo) \in Seq(Steps)
  BY <1>1, <1>5, TailLeft
<1>7. ~edits_data(running.command) /\ running.command # "tui" =>
               QuietOK(Tail(running.todo)) /\ Head(running.todo).does \notin Writing \cup {"sync"}
  BY <1>1, <1>3, <1>5, TailQuiet DEF StepsLeft
<1>8. ~running.failed /\ running.followed => FollowOK(running.todo, directory)
  BY <1>1, <1>3 DEF StepsLeft
<1> QED BY <1>1, <1>2, <1>3, <1>4, <1>5, <1>6, <1>7, <1>8 DEF Doing

\* The invariant is kept by a write of the directory.
LEMMA WriteDirectoryKeeps ==
  ASSUME CommandsInv, WriteDirectory
  PROVE  CommandsInv'
<1> USE AtRun DEF WriteDirectory
<1> DEFINE todo == running.todo
<1>1. At(WritesDirectory)
  OBVIOUS
<1>2. PICK w \in BOOLEAN : /\ directory' = After(directory, Doing)
                           /\ running' = [running EXCEPT !.todo = Tail(running.todo), !.wrote = @ \/ w]
                           /\ changed' = (changed \/ w)
  BY DEF GoOn, Go
<1>3. UNCHANGED <<unpushed, settings, commands, failures>>
  OBVIOUS
<1>4. Goes(running, running', Tail(todo), w)
  BY <1>1, <1>2, GoesIs
<1>5. FollowGoal(todo, directory, directory')
  BY <1>1, <1>2, WriteGoesOn DEF CommandsInv
<1>6. Doing.does \in Writing /\ Doing.does \notin {"push", "refuse"}
  BY <1>1 DEF Writing, WritesDirectory
<1>7. ToCommit(running', changed', settings)
  BY <1>1, <1>4, <1>6, WriteToCommit
<1>8. ToPush(running', unpushed, settings)
  BY <1>1, <1>4, <1>6, StillToPush
<1>9. OnCourse(running', directory', changed', unpushed', settings')
  BY <1>1, <1>3, <1>4, <1>5, <1>6, <1>7, <1>8, GoesOnCourse DEF FollowGoal
<1>10. CountsOK'
  BY <1>2, <1>3 DEF CommandsInv, CountsOK
<1> QED BY <1>5, <1>9, <1>10 DEF CommandsInv, FollowGoal

\* It is kept by a write of another file.
LEMMA WriteFileKeeps ==
  ASSUME CommandsInv, WriteFile
  PROVE  CommandsInv'
<1> DEFINE todo == running.todo
<1>1. At({"write"})
  BY DEF WriteFile
<1>2. PICK w \in BOOLEAN : /\ running' = [running EXCEPT !.todo = Tail(running.todo), !.wrote = @ \/ w]
                           /\ changed' = (changed \/ w)
  BY DEF WriteFile, GoOn, Go
<1>3. UNCHANGED <<directory, unpushed, settings, commands, failures>>
  BY DEF WriteFile
<1>4. Goes(running, running', Tail(todo), w)
  BY <1>1, <1>2, AtRun, GoesIs
<1>6. Doing.does \in Writing /\ Doing.does \notin {"push", "refuse"} /\ Doing.does \notin WritesDirectory
  BY <1>1, AtRun DEF Writing, WritesDirectory
<1>5. ScriptOK(Tail(todo), directory) /\ (FollowOK(todo, directory) => FollowOK(Tail(todo), directory))
  BY <1>1, <1>6, AtRun, OtherGoesOn
<1>7. ToCommit(running', changed', settings)
  BY <1>1, <1>4, <1>6, AtRun, WriteToCommit
<1>8. ToPush(running', unpushed, settings)
  BY <1>1, <1>4, <1>6, AtRun, StillToPush
<1>9. OnCourse(running', directory', changed', unpushed', settings')
  BY <1>1, <1>3, <1>4, <1>5, <1>6, <1>7, <1>8, AtRun, GoesOnCourse
<1>10. CountsOK'
  BY <1>2, <1>3 DEF CommandsInv, CountsOK
<1> QED BY <1>3, <1>9, <1>10 DEF CommandsInv

-----------------------------------------------------------------------------
(* Syncs, and steps that fail *)

\* What follows a sync follows its steps.
LEMMA SyncPushes ==
  ASSUME NEW s \in Seq(Steps), NEW t \in Seq(Steps), NEW u, u = s \o t
  PROVE  /\ PushesOK(t) => PushesOK(u)
         /\ (\E i \in DOMAIN t : t[i].does \in Committing) => \E i \in DOMAIN u : u[i].does \in Committing
<1>1. \E n : Join(s, n, t, u)
  BY Joined
<1>2. PICK n : Join(s, n, t, u)
  BY <1>1
<1>3. ASSUME NEW j \in DOMAIN t
      PROVE  n + j \in DOMAIN u /\ u[n + j] = t[j] /\ j \in Nat /\ j >= 1 /\ n \in Nat
  BY <1>2 DEF Join
<1>4. ASSUME PushesOK(t) PROVE PushesOK(u)
  <2>1. PICK i \in DOMAIN t : (\A j \in DOMAIN t : j <= i) /\ t[i].does \in {"push", "refuse"}
    BY <1>4 DEF PushesOK
  <2>2. n + i \in DOMAIN u /\ u[n + i].does \in {"push", "refuse"} /\ i \in Nat /\ i >= 1 /\ n \in Nat
    BY <1>3, <2>1
  <2>3. ASSUME NEW m \in DOMAIN u PROVE m <= n + i
    <3>1. CASE m \in DOMAIN s
      <4>1. m \in Nat /\ m <= n
        BY <1>2, <3>1 DEF Join
      <4> QED BY <2>2, <4>1
    <3>2. CASE \E j \in DOMAIN t : m = n + j
      <4>1. PICK j \in DOMAIN t : m = n + j
        BY <3>2
      <4>2. j \in Nat /\ j <= i
        BY <1>3, <2>1
      <4> QED BY <2>2, <4>1, <4>2
    <3> QED BY <1>2, <3>1, <3>2 DEF Join
  <2> QED BY <2>2, <2>3 DEF PushesOK
<1> QED BY <1>3, <1>4

\* It is kept when a sync comes to its steps.
LEMMA SyncKeeps ==
  ASSUME CommandsInv, Sync
  PROVE  CommandsInv'
<1>1. At({"sync"})
  BY DEF Sync
<1>20. PICK todo : todo = running.todo
  OBVIOUS
<1>2. /\ todo \in Seq(Steps) /\ todo # <<>> /\ ScriptOK(todo, directory)
      /\ Doing = Head(todo) /\ Doing.does = "sync"
  BY <1>1, <1>20, AtRun
<1>21. /\ 1 \in DOMAIN todo /\ Doing = todo[1] /\ Left(todo, 1, Tail(todo))
       /\ Doing \in Steps /\ Tail(todo) \in Seq(Steps)
  BY <1>2, TailLeft
<1>22. Doing.caught \in BOOLEAN
  BY <1>21 DEF Steps
<1>3. Doing.connection \in DOMAIN directory.configs
  <2>1. \A j \in DOMAIN todo : ~(j < 1)
    BY <1>21, SMTT(30) DEF Left
  <2> QED BY <1>2, <1>21, <2>1 DEF ScriptOK, KindsOK
<1>4. PICK s \in sync_connection_internal(directory, Doing.connection) :
         running' = [running EXCEPT
            !.todo = [i \in DOMAIN s |-> [s[i] EXCEPT !.caught = Doing.caught]] \o Tail(running.todo),
            !.wrote = @ \/ FALSE]
  BY DEF Sync, Go
<1>5. UNCHANGED <<directory, changed, unpushed, settings, commands, failures>>
  BY DEF Sync
<1>6. SyncSteps(s, directory, Doing.connection)
  BY <1>3, SyncIs DEF CommandsInv
<1>23. s \in Seq(Steps)
  BY <1>6 DEF SyncSteps
<1>7. PICK v : v = [i \in DOMAIN s |-> [s[i] EXCEPT !.caught = Doing.caught]]
  OBVIOUS
<1>24. PICK t : t = Tail(todo)
  OBVIOUS
<1>8. PICK u : u = v \o t
  OBVIOUS
<1>13. CaughtAs(v, s, Doing.caught) /\ v \in Seq(Steps)
  <2>1. CaughtAs(v, s, Doing.caught)
    BY <1>7, <1>22, <1>23, SyncStepsCaught
  <2> QED BY <2>1 DEF CaughtAs
<1>14. t \in Seq(Steps)
  BY <1>21, <1>24
<1>10. u \in Seq(Steps) /\ \E n : Join(v, n, t, u)
  BY <1>8, <1>13, <1>14, Joined
<1>9. /\ ScriptOK(u, directory)
      /\ FollowOK(todo, directory) => FollowOK(u, directory)
      /\ CommitsOK(todo) => CommitsOK(u)
  <2>1. PICK n : Join(v, n, t, u)
    BY <1>10
  <2>2. PICK h : h = Doing
    OBVIOUS
  <2>3. h.does = "sync" /\ h = Head(todo) /\ h.connection \in DOMAIN directory.configs
        /\ SyncSteps(s, directory, h.connection) /\ CaughtAs(v, s, h.caught)
    BY <1>2, <1>3, <1>6, <1>13, <2>2
  <2> QED BY <1>2, <1>10, <1>24, <2>1, <2>3, SyncGoesOn
<1>11. PICK w \in BOOLEAN : w = FALSE
  OBVIOUS
<1>12. Goes(running, running', u, w)
  <2>1. running' = [running EXCEPT !.todo = u, !.wrote = @ \/ w]
    BY <1>4, <1>7, <1>8, <1>11, <1>20, <1>24
  <2> QED BY <1>1, <1>10, <2>1, AtRun, GoesIs
<1>15. /\ PushesOK(t) => PushesOK(u)
       /\ (\E i \in DOMAIN t : t[i].does \in Committing)
             => \E i \in DOMAIN u : u[i].does \in Committing
  BY <1>8, <1>13, <1>14, SyncPushes
<1>16. ToPush(running', unpushed, settings)
  <2>1. ASSUME ~running'.failed, running'.command \in SyncCommand PROVE PushesOK(u)
    <3>1. PushesOK(todo)
      BY <1>1, <1>12, <1>20, <2>1, AtRun DEF Goes, ToPush
    <3>2. PushesOK(t)
      BY <1>2, <1>24, <3>1, TailPushes
    <3> QED BY <1>15, <3>2
  <2> QED BY <1>12, <2>1 DEF ToPush, Goes
<1>17. ToCommit(running', changed, settings)
  <2>1. ASSUME ~running'.failed, running'.command # "tui" PROVE CommitsOK(u)
    BY <1>1, <1>9, <1>12, <1>20, <2>1, AtRun DEF Goes, ToCommit
  <2>2. ASSUME NEW i \in DOMAIN todo, todo[i].does \in Committing
        PROVE  \E j \in DOMAIN u : u[j].does \in Committing
    <3>1. i # 1
      BY <1>2, <1>21, <2>2 DEF Committing
    <3>2. \E j \in DOMAIN t : t[j].does \in Committing
      BY <1>2, <1>24, <2>2, <3>1, LeftCommitting
    <3> QED BY <1>15, <3>2
  <2> QED BY <1>1, <1>11, <1>12, <1>20, <2>1, <2>2, AtRun DEF ToCommit, Goes
<1>18. OnCourse(running', directory', changed', unpushed', settings')
  <2>1. ~edits_data(running.command) /\ running.command # "tui" => QuietOK(u)
    BY <1>1, <1>2, AtRun
  <2> QED BY <1>1, <1>5, <1>9, <1>11, <1>12, <1>16, <1>17, <1>20, <2>1, AtRun, GoesOnCourse
<1>19. CountsOK'
  BY <1>5 DEF CommandsInv, CountsOK
<1> QED BY <1>5, <1>18, <1>19 DEF CommandsInv

-----------------------------------------------------------------------------
\* The command after a step that failed and was passed over.
Fails(r, q, rest) ==
    /\ q \in Running
    /\ q.command = r.command /\ q.enabled = r.enabled /\ q.unpulled = r.unpulled /\ q.phase = r.phase
    /\ q.failed = TRUE /\ q.followed = r.followed
    /\ q.todo = rest /\ q.wrote = r.wrote

\* A step failed: the rest is left, and the command has failed.
LEMMA FailsIs ==
  ASSUME NEW r \in Running, NEW rest \in Seq(Steps),
         NEW q, q = [r EXCEPT !.todo = rest, !.failed = TRUE]
  PROVE  Fails(r, q, rest)
BY DEF Fails, Running

\* A command that has failed is on course when what is left is good.
LEMMA FailsOnCourse ==
  ASSUME NEW r, NEW d, NEW ch, NEW un, NEW st, OnCourse(r, d, ch, un, st), r.phase = "run",
         NEW q, NEW rest, Fails(r, q, rest), ScriptOK(rest, d),
         ~edits_data(r.command) /\ r.command # "tui" => QuietOK(rest),
         NEW ch2, NEW un2
  PROVE  OnCourse(q, d, ch2, un2, st)
<1>1. q \in Running
  BY DEF Fails
<1>2. PullsFirst(q, st)
  BY DEF Fails, OnCourse, PullsFirst
<1>3. NotBegun(q, d) /\ Ended(q, d, ch2, un2, st)
  BY DEF Fails, NotBegun, Ended
<1>4. StepsLeft(q, d)
  BY DEF Fails, StepsLeft
<1>5. ToCommit(q, ch2, st) /\ ToPush(q, un2, st)
  BY DEF Fails, ToCommit, ToPush
<1> QED BY <1>1, <1>2, <1>3, <1>4, <1>5 DEF OnCourse

\* One more failure is within the bound.
LEMMA OneMore ==
  ASSUME failures \in 0 .. MaxFailures, failures < MaxFailures
  PROVE  failures + 1 \in 0 .. MaxFailures
<1>1. MaxFailures \in Nat
  BY CommandsAssumption
<1> QED BY <1>1

\* A commit or a push, which does not write: either the command goes on, or it has failed.
LEMMA QuietStepKeeps ==
  ASSUME CommandsInv, NEW does, At(does), Doing.does \notin WritesDirectory,
         UNCHANGED <<directory, settings, commands>>,
         changed' \in BOOLEAN, unpushed' \in BOOLEAN, failures' \in 0 .. MaxFailures, NEW w \in BOOLEAN, ~w,
         \/ /\ Goes(running, running', Tail(running.todo), w)
            /\ ToCommit(running', changed', settings) /\ ToPush(running', unpushed', settings)
         \/ Fails(running, running', Tail(running.todo))
  PROVE  CommandsInv'
<1>1. /\ ScriptOK(Tail(running.todo), directory)
      /\ FollowOK(running.todo, directory) => FollowOK(Tail(running.todo), directory)
  BY AtRun, OtherGoesOn
<1>2. ASSUME Goes(running, running', Tail(running.todo), w),
             ToCommit(running', changed', settings), ToPush(running', unpushed', settings)
      PROVE  OnCourse(running', directory, changed', unpushed', settings)
  BY <1>1, <1>2, AtRun, GoesOnCourse
<1>3. ASSUME Fails(running, running', Tail(running.todo))
      PROVE  OnCourse(running', directory, changed', unpushed', settings)
  BY <1>1, <1>3, AtRun, FailsOnCourse
<1>4. OnCourse(running', directory', changed', unpushed', settings')
  BY <1>2, <1>3
<1>5. CountsOK'
  BY DEF CommandsInv, CountsOK
<1> QED BY <1>4, <1>5 DEF CommandsInv

-----------------------------------------------------------------------------
(* Commits, pushes and failures *)

\* A step that wrote nothing leaves the tail.
LEMMA WentOn ==
  ASSUME CommandsInv, NEW does, At(does), GoOn(FALSE)
  PROVE  \E w \in BOOLEAN : ~w /\ Goes(running, running', Tail(running.todo), w)
<1>1. PICK w \in BOOLEAN : w = FALSE
  OBVIOUS
<1>2. running' = [running EXCEPT !.todo = Tail(running.todo), !.wrote = @ \/ w]
  BY <1>1 DEF GoOn, Go
<1>3. Goes(running, running', Tail(running.todo), w)
  BY <1>2, AtRun, GoesIs
<1> QED BY <1>1, <1>3

\* The invariant is kept by a commit, which may fail, be disabled or find nothing.
LEMMA CommitKeeps ==
  ASSUME CommandsInv, Commit
  PROVE  CommandsInv'
<1>1. At({"commit", "commit unless disabled"}) /\ UNCHANGED <<directory, settings, commands>>
  BY DEF Commit
<1>2. /\ Doing.does \in {"commit", "commit unless disabled"} /\ Doing = Head(running.todo)
      /\ Doing.does \notin WritesDirectory /\ Doing.does \notin {"push", "refuse"}
  BY <1>1, AtRun, ZenonT(60) DEF WritesDirectory
<1>3. changed \in BOOLEAN /\ unpushed \in BOOLEAN /\ failures \in 0 .. MaxFailures /\ CountsOK
  BY DEF CommandsInv, CountsOK
<1>4. ASSUME GoOn(FALSE), changed' \in BOOLEAN, unpushed' \in BOOLEAN, failures' = failures,
             ~(/\ changed'
               /\ settings.auto_commit /\ settings.is_repo /\ ~settings.KEEPBOOK_DISABLE_AUTO_COMMIT)
      PROVE  CommandsInv'
  <2>1. PICK w \in BOOLEAN : ~w /\ Goes(running, running', Tail(running.todo), w)
    BY <1>1, <1>4, WentOn
  <2>2. ToPush(running', unpushed', settings)
    BY <1>1, <1>2, <2>1, AtRun, StillToPush
  <2>3. ToCommit(running', changed', settings)
    <3>1. ASSUME ~running'.failed, running'.command # "tui" PROVE CommitsOK(running'.todo)
      <4>1. CommitsOK(running.todo)
        BY <1>1, <2>1, <3>1, AtRun DEF Goes, ToCommit
      <4> QED BY <1>1, <2>1, <4>1, AtRun, TailCommits DEF Goes
    <3> QED BY <1>4, <3>1 DEF ToCommit
  <2> QED BY <1>1, <1>2, <1>3, <1>4, <2>1, <2>2, <2>3, QuietStepKeeps
<1>5. ASSUME running' = [running EXCEPT !.todo = Tail(@), !.failed = TRUE],
             changed' \in BOOLEAN, unpushed' \in BOOLEAN, failures' = failures + 1, failures < MaxFailures
      PROVE  CommandsInv'
  <2>1. Fails(running, running', Tail(running.todo))
    BY <1>1, <1>5, AtRun, FailsIs
  <2>2. failures' \in 0 .. MaxFailures
    BY <1>3, <1>5, OneMore
  <2>3. PICK w \in BOOLEAN : ~w
    OBVIOUS
  <2> QED BY <1>1, <1>2, <1>5, <2>1, <2>2, <2>3, QuietStepKeeps
<1>6. CASE ~(/\ settings.auto_commit
             /\ ~(Doing.does = "commit unless disabled" /\ settings.KEEPBOOK_DISABLE_AUTO_COMMIT))
  <2>1. GoOn(FALSE) /\ UNCHANGED <<changed, unpushed, failures>>
    BY <1>6 DEF Commit
  <2>2. ~(settings.auto_commit /\ ~settings.KEEPBOOK_DISABLE_AUTO_COMMIT)
    BY <1>6
  <2> QED BY <1>3, <1>4, <2>1, <2>2
<1>7. CASE try_auto_commit
  <2>1. CASE /\ ~changed \/ ~settings.is_repo
             /\ GoOn(FALSE)
             /\ UNCHANGED <<changed, unpushed, failures>>
    BY <1>3, <1>4, <2>1
  <2>2. CASE /\ changed' = FALSE /\ unpushed' = ~settings.auto_push
             /\ GoOn(FALSE) /\ UNCHANGED failures
    BY <1>3, <1>4, <2>2, SettingsAre
  <2>3. CASE /\ failures < MaxFailures
             /\ \/ UNCHANGED <<changed, unpushed>>
                \/ changed' = FALSE /\ unpushed' = TRUE
             /\ running' = [running EXCEPT !.todo = Tail(@), !.failed = TRUE]
             /\ failures' = failures + 1
    BY <1>3, <1>5, <2>3
  <2> QED BY <1>7, <2>1, <2>2, <2>3 DEF try_auto_commit
<1> QED BY <1>6, <1>7 DEF Commit

\* It is kept by a push, which may fail.
LEMMA PushKeeps ==
  ASSUME CommandsInv, Push
  PROVE  CommandsInv'
<1>1. At({"push"}) /\ UNCHANGED <<directory, changed, settings, commands>>
  BY DEF Push
<1>2. /\ Doing.does = "push" /\ Doing = Head(running.todo)
      /\ Doing.does \notin WritesDirectory /\ Doing.does \notin Committing
  <2>1. Doing.does \in {"push"} /\ Doing = Head(running.todo)
    BY <1>1, AtRun
  <2>2. "push" \notin WritesDirectory /\ "push" \notin Committing
    BY DEF WritesDirectory, Committing
  <2> QED BY <2>1, <2>2
<1>3. changed \in BOOLEAN /\ unpushed \in BOOLEAN /\ failures \in 0 .. MaxFailures
  BY DEF CommandsInv, CountsOK
<1>4. ASSUME GoOn(FALSE), unpushed' \in BOOLEAN, failures' = failures,
             "push" \in running.enabled /\ settings.is_repo => ~unpushed'
      PROVE  CommandsInv'
  <2>1. PICK w \in BOOLEAN : ~w /\ Goes(running, running', Tail(running.todo), w)
    BY <1>1, <1>4, WentOn
  <2>2. ToPush(running', unpushed', settings)
    <3>1. ASSUME ~running'.failed, running'.command \in SyncCommand
          PROVE  PushesOK(Tail(running.todo)) \/ Tail(running.todo) = <<>>
      <4>1. PushesOK(running.todo)
        BY <1>1, <2>1, <3>1, AtRun DEF Goes, ToPush
      <4> QED BY <1>1, <4>1, AtRun, TailPushes
    <3> QED BY <1>4, <2>1, <3>1 DEF ToPush, Goes
  <2>3. ToCommit(running', changed', settings)
    <3>1. ASSUME ~running'.failed, running'.command # "tui" PROVE CommitsOK(running'.todo)
      <4>1. CommitsOK(running.todo)
        BY <1>1, <2>1, <3>1, AtRun DEF Goes, ToCommit
      <4> QED BY <1>1, <2>1, <4>1, AtRun, TailCommits DEF Goes
    <3>2. ASSUME NEW i \in DOMAIN running.todo, running.todo[i].does \in Committing
          PROVE  \E j \in DOMAIN Tail(running.todo) : Tail(running.todo)[j].does \in Committing
      <4>1. i # 1
        BY <1>1, <1>2, <3>2, AtRun, TailLeft
      <4> QED BY <1>1, <3>2, <4>1, AtRun, LeftCommitting
    <3> QED BY <1>1, <2>1, <3>1, <3>2, AtRun DEF ToCommit, Goes
  <2> QED BY <1>1, <1>2, <1>3, <1>4, <2>1, <2>2, <2>3, QuietStepKeeps
<1>5. ASSUME running' = [running EXCEPT !.todo = Tail(@), !.failed = TRUE],
             unpushed' = unpushed, failures' = failures + 1, failures < MaxFailures
      PROVE  CommandsInv'
  <2>1. Fails(running, running', Tail(running.todo))
    BY <1>1, <1>5, AtRun, FailsIs
  <2>2. failures' \in 0 .. MaxFailures
    BY <1>3, <1>5, OneMore
  <2>3. PICK w \in BOOLEAN : ~w
    OBVIOUS
  <2> QED BY <1>1, <1>2, <1>3, <1>5, <2>1, <2>2, <2>3, QuietStepKeeps
<1>6. CASE /\ "push" \notin running.enabled \/ ~settings.is_repo
           /\ GoOn(FALSE) /\ UNCHANGED <<unpushed, failures>>
  BY <1>3, <1>4, <1>6
<1>7. CASE unpushed' = FALSE /\ GoOn(FALSE) /\ UNCHANGED failures
  BY <1>4, <1>7
<1>8. CASE /\ failures < MaxFailures
           /\ running' = [running EXCEPT !.todo = Tail(@), !.failed = TRUE]
           /\ failures' = failures + 1
           /\ UNCHANGED unpushed
  BY <1>5, <1>8
<1> QED BY <1>6, <1>7, <1>8 DEF Push

-----------------------------------------------------------------------------
\* A suffix is left of the steps when a sync that is caught fails.
LEMMA CaughtLeaves ==
  ASSUME NEW d, NEW td \in Seq(Steps), ScriptOK(td, d), td # <<>>, Head(td).caught
  PROVE  /\ AfterCaught(td) \in Seq(Steps) /\ ScriptOK(AfterCaught(td), d)
         /\ QuietOK(td) => QuietOK(AfterCaught(td))
<1>1. 1 \in DOMAIN td /\ Head(td) = td[1] /\ Left(td, 1, Tail(td))
  BY TailLeft
<1>2. DOMAIN td = 1 .. Len(td) /\ Len(td) \in Nat
  BY ListParts
<1> DEFINE rest == {i \in DOMAIN td : i > 1 /\ (~td[i].caught \/ td[i].does = "sync")}
<1>3. rest # {}
  <2>1. PICK j \in DOMAIN td : 1 < j /\ ~td[j].caught
    BY <1>1 DEF ScriptOK, CaughtOK
  <2>2. j > 1
    BY <1>2, <2>1
  <2> QED BY <2>1, <2>2
<1>4. rest \subseteq Nat
  BY <1>2
<1>5. PICK m : m = CHOOSE i \in rest : \A j \in rest : i <= j
  OBVIOUS
<1>6. m \in rest
  <2>1. \E i \in rest : \A j \in rest : i <= j
    BY <1>3, <1>4, Least
  <2> HIDE DEF rest
  <2> QED BY <1>5, <2>1
<1>7. AfterCaught(td) = SubSeq(td, m, Len(td))
  BY <1>5 DEF AfterCaught
<1>8. m \in 1 .. Len(td)
  BY <1>2, <1>6
<1>9. PICK s : s = SubSeq(td, m, Len(td))
  OBVIOUS
<1>10. s \in Seq(Steps) /\ Left(td, m - 1, s)
  BY <1>8, <1>9, RestLeft
<1>11. \A j \in DOMAIN td : td[j].does # "save_connection_config"
  BY <1>1 DEF ScriptOK, CaughtOK
<1>12. ScriptOK(s, d)
  BY <1>10, <1>11, LeftOK
<1>13. QuietOK(td) => QuietOK(s)
  BY <1>10, LeftQuiet
<1> QED BY <1>7, <1>9, <1>10, <1>12, <1>13

\* It is kept by a step that fails, whether the failure is caught or not.
LEMMA StepFailsKeeps ==
  ASSUME CommandsInv, StepFails
  PROVE  CommandsInv'
<1>1. At({"refuse", "write", "sync"} \cup WritesDirectory)
      /\ UNCHANGED <<directory, changed, unpushed, settings, commands>>
  BY DEF StepFails
<1>2. CountsOK'
  <2>1. failures \in 0 .. MaxFailures /\ CountsOK
    BY DEF CommandsInv, CountsOK
  <2>2. failures' \in 0 .. MaxFailures
    BY <2>1, OneMore DEF StepFails
  <2> QED BY <1>1, <2>1, <2>2 DEF CountsOK
<1>3. CASE Doing.caught
  <2>1. running' = [running EXCEPT !.todo = AfterCaught(running.todo), !.failed = TRUE]
    BY <1>3 DEF StepFails
  <2>2. /\ AfterCaught(running.todo) \in Seq(Steps) /\ ScriptOK(AfterCaught(running.todo), directory)
        /\ QuietOK(running.todo) => QuietOK(AfterCaught(running.todo))
    BY <1>1, <1>3, AtRun, CaughtLeaves
  <2>3. Fails(running, running', AfterCaught(running.todo))
    BY <1>1, <2>1, <2>2, AtRun, FailsIs
  <2>4. ~edits_data(running.command) /\ running.command # "tui" => QuietOK(running.todo)
    BY <1>1, AtRun DEF OnCourse, StepsLeft
  <2>5. OnCourse(running', directory, changed, unpushed, settings)
    BY <1>1, <2>2, <2>3, <2>4, AtRun, FailsOnCourse
  <2> QED BY <1>1, <1>2, <2>5 DEF CommandsInv
<1>4. CASE ~Doing.caught
  <2>1. running' = [running EXCEPT !.phase = "done", !.failed = TRUE]
    BY <1>4 DEF StepFails
  <2>2. running \in Running /\ PullsFirst(running, settings)
    BY <1>1, AtRun DEF OnCourse
  <2>3. /\ running' \in Running /\ running'.phase = "done" /\ running'.failed
        /\ running'.wrote = running.wrote /\ running'.command = running.command
        /\ running'.unpulled = running.unpulled
    BY <2>1, <2>2 DEF Running, Phases
  <2>4. OnCourse(running', directory, changed, unpushed, settings)
    BY <2>2, <2>3 DEF OnCourse, PullsFirst, NotBegun, StepsLeft, ToCommit, ToPush, Ended
  <2> QED BY <1>1, <1>2, <2>4 DEF CommandsInv
<1> QED BY <1>3, <1>4

-----------------------------------------------------------------------------
(* Every step, and the theorems *)

\* Before the handler of the command is called.
LEMMA PreflightKeeps ==
  ASSUME CommandsInv, NEW phase, NEW next, Preflight(phase, next),
         (phase = "merge" /\ next = "pull") \/ (phase = "pull" /\ next = "dispatch")
  PROVE  CommandsInv'
<1>1. /\ running # Nothing /\ running.phase = phase
      /\ UNCHANGED <<directory, changed, unpushed, settings, commands>>
  BY DEF Preflight
<1>2. /\ OnCourse(running, directory, changed, unpushed, settings) /\ running \in Running
      /\ PullsFirst(running, settings) /\ NotBegun(running, directory) /\ CountsOK
  BY <1>1 DEF CommandsInv, OnCourse
<1>3. ASSUME NEW unpulled \in BOOLEAN, running'.unpulled = unpulled, unpulled => running.unpulled,
             phase = "pull" => ~unpulled \/ "pull" \notin running.enabled \/ ~settings.is_repo,
             running' \in Running, running'.command = running.command, running'.phase = next,
             running'.enabled = running.enabled \ {phase}, running'.wrote = running.wrote,
             running'.failed = running.failed, running'.followed = running.followed
      PROVE  OnCourse(running', directory, changed, unpushed, settings)
  <2>1. ~running.wrote /\ ~running.failed /\ (running.followed => LinksFollow(directory))
    BY <1>1, <1>2 DEF NotBegun
  <2>2. PullsFirst(running', settings)
    <3>1. CASE phase = "merge" /\ next = "pull"
      BY <1>1, <1>2, <1>3, <2>1, <3>1 DEF PullsFirst
    <3>2. CASE phase = "pull" /\ next = "dispatch"
      BY <1>1, <1>2, <1>3, <2>1, <3>2 DEF PullsFirst
    <3> QED BY <3>1, <3>2
  <2>3. NotBegun(running', directory)
    BY <1>3, <2>1 DEF NotBegun
  <2>4. /\ StepsLeft(running', directory) /\ ToCommit(running', changed, settings)
        /\ ToPush(running', unpushed, settings)
        /\ Ended(running', directory, changed, unpushed, settings)
    BY <1>3 DEF StepsLeft, ToCommit, ToPush, Ended
  <2> QED BY <1>3, <2>2, <2>3, <2>4 DEF OnCourse
<1>4. next \in Phases
  BY DEF Phases
<1>5. CASE /\ phase \notin running.enabled \/ ~settings.is_repo
           /\ running' = [running EXCEPT !.phase = next, !.enabled = @ \ {phase}]
           /\ UNCHANGED failures
  <2>1. /\ running' \in Running /\ running'.command = running.command /\ running'.phase = next
        /\ running'.enabled = running.enabled \ {phase} /\ running'.wrote = running.wrote
        /\ running'.failed = running.failed /\ running'.followed = running.followed
        /\ running'.unpulled = running.unpulled
    BY <1>2, <1>4, <1>5 DEF Running
  <2>2. running.unpulled \in BOOLEAN
    BY <1>2 DEF Running
  <2>3. OnCourse(running', directory, changed, unpushed, settings)
    BY <1>3, <1>5, <2>1, <2>2
  <2>4. CountsOK'
    BY <1>1, <1>2, <1>5 DEF CountsOK
  <2> QED BY <1>1, <2>3, <2>4 DEF CommandsInv
<1>6. CASE /\ phase \in running.enabled /\ settings.is_repo
           /\ running' = [running EXCEPT !.phase = next, !.enabled = @ \ {phase},
                                         !.unpulled = @ /\ phase # "pull"]
           /\ UNCHANGED failures
  <2>1. /\ running' \in Running /\ running'.command = running.command /\ running'.phase = next
        /\ running'.enabled = running.enabled \ {phase} /\ running'.wrote = running.wrote
        /\ running'.failed = running.failed /\ running'.followed = running.followed
        /\ running'.unpulled = (running.unpulled /\ phase # "pull")
    BY <1>2, <1>4, <1>6 DEF Running
  <2>2. PICK unpulled \in BOOLEAN : unpulled = (running.unpulled /\ phase # "pull")
    OBVIOUS
  <2>3. OnCourse(running', directory, changed, unpushed, settings)
    BY <1>3, <2>1, <2>2
  <2>4. CountsOK'
    BY <1>1, <1>2, <1>6 DEF CountsOK
  <2> QED BY <1>1, <2>3, <2>4 DEF CommandsInv
<1>7. CASE /\ changed \/ failures < MaxFailures
           /\ running' = [running EXCEPT !.phase = "done", !.failed = TRUE]
           /\ failures' = IF changed THEN failures ELSE failures + 1
  <2>1. /\ running' \in Running /\ running'.phase = "done" /\ running'.failed
        /\ running'.wrote = running.wrote /\ running'.command = running.command
        /\ running'.unpulled = running.unpulled
    BY <1>2, <1>7 DEF Running, Phases
  <2>2. OnCourse(running', directory, changed, unpushed, settings)
    BY <1>2, <2>1 DEF OnCourse, PullsFirst, NotBegun, StepsLeft, ToCommit, ToPush, Ended
  <2>3. failures' \in 0 .. MaxFailures
    BY <1>2, <1>7, OneMore DEF CountsOK
  <2>4. CountsOK'
    BY <1>1, <1>2, <2>3 DEF CountsOK
  <2> QED BY <1>1, <2>2, <2>4 DEF CommandsInv
<1> QED BY <1>5, <1>6, <1>7 DEF Preflight

\* It is kept when the handler of the command is called.
LEMMA DispatchKeeps ==
  ASSUME CommandsInv, Dispatch
  PROVE  CommandsInv'
<1>1. /\ running # Nothing /\ running.phase = "dispatch"
      /\ UNCHANGED <<directory, changed, unpushed, settings, commands, failures>>
  BY DEF Dispatch
<1>2. /\ running \in Running /\ PullsFirst(running, settings) /\ NotBegun(running, directory)
      /\ CountsOK /\ DirectoryOK(directory)
  BY <1>1 DEF CommandsInv, OnCourse
<1>3. PICK td \in Script(running.command, directory) : running' = [running EXCEPT !.phase = "run", !.todo = td]
  BY DEF Dispatch
<1>4. running.command \in Command
  BY <1>2 DEF Running
<1>5. Good(running.command, td, directory)
  BY <1>2, <1>4, ScriptGood
<1>6. td \in Seq(Steps) /\ ScriptOK(td, directory)
  BY <1>5 DEF Good, ScriptOK
<1>7. /\ running' \in Running /\ running'.command = running.command /\ running'.phase = "run"
      /\ running'.todo = td /\ running'.wrote = running.wrote /\ running'.failed = running.failed
      /\ running'.followed = running.followed /\ running'.unpulled = running.unpulled
  BY <1>2, <1>3, <1>6 DEF Running, Phases
<1>8. ~running.wrote /\ ~running.failed /\ (running.followed => LinksFollow(directory))
  BY <1>1, <1>2 DEF NotBegun
<1>9. PullsFirst(running', settings)
  BY <1>1, <1>2, <1>7, <1>8 DEF PullsFirst
<1>10. LinksFollow(directory) => FollowOK(td, directory)
  BY FollowParts DEF FollowOK
<1>11. StepsLeft(running', directory)
  BY <1>5, <1>6, <1>7, <1>8, <1>10 DEF StepsLeft, Good
<1>12. ToCommit(running', changed, settings) /\ ToPush(running', unpushed, settings)
  BY <1>5, <1>7, <1>8 DEF ToCommit, ToPush, Good
<1>13. NotBegun(running', directory) /\ Ended(running', directory, changed, unpushed, settings)
  BY <1>7 DEF NotBegun, Ended
<1>14. CountsOK'
  BY <1>1, <1>2 DEF CountsOK
<1> QED BY <1>1, <1>2, <1>7, <1>9, <1>11, <1>12, <1>13, <1>14 DEF CommandsInv, OnCourse

\* After the last of its steps.
LEMMA DoneKeeps ==
  ASSUME CommandsInv, Done
  PROVE  CommandsInv'
<1>1. /\ running # Nothing /\ running.phase = "run" /\ running.todo = <<>>
      /\ running' = [running EXCEPT !.phase = "done"]
      /\ UNCHANGED <<directory, changed, unpushed, settings, commands, failures>>
  BY DEF Done
<1>2. /\ running \in Running /\ PullsFirst(running, settings) /\ StepsLeft(running, directory)
      /\ ToCommit(running, changed, settings) /\ ToPush(running, unpushed, settings)
      /\ CountsOK /\ DirectoryOK(directory)
  BY <1>1 DEF CommandsInv, OnCourse
<1>3. /\ running' \in Running /\ running'.command = running.command /\ running'.phase = "done"
      /\ running'.wrote = running.wrote /\ running'.failed = running.failed
      /\ running'.enabled = running.enabled
      /\ running'.followed = running.followed /\ running'.unpulled = running.unpulled
  BY <1>1, <1>2 DEF Running, Phases
<1>4. DOMAIN <<>> = {}
  OBVIOUS
<1>5. FollowOK(<<>>, directory) => LinksFollow(directory)
  BY <1>4, FollowParts DEF FollowOK
<1>6. ASSUME ~running.failed
      PROVE  /\ /\ running.wrote /\ running.command # "tui"
                /\ settings.auto_commit /\ settings.is_repo /\ ~settings.KEEPBOOK_DISABLE_AUTO_COMMIT
                => ~changed
             /\ "push" \in running.enabled /\ running.command \in SyncCommand /\ settings.is_repo => ~unpushed
             /\ running.followed => LinksFollow(directory)
  <2>1. /\ running.wrote /\ running.command # "tui"
        /\ settings.auto_commit /\ settings.is_repo /\ ~settings.KEEPBOOK_DISABLE_AUTO_COMMIT
        => ~changed
    BY <1>1, <1>2, <1>4, <1>6 DEF ToCommit
  <2>2. ~PushesOK(<<>>)
    BY <1>4 DEF PushesOK
  <2>3. "push" \in running.enabled /\ running.command \in SyncCommand /\ settings.is_repo => ~unpushed
    BY <1>1, <1>2, <1>6, <2>2 DEF ToPush
  <2>4. running.followed => LinksFollow(directory)
    BY <1>1, <1>2, <1>5, <1>6 DEF StepsLeft
  <2> QED BY <2>1, <2>3, <2>4
<1>7. Ended(running', directory, changed, unpushed, settings)
  BY <1>3, <1>6 DEF Ended
<1>8. PullsFirst(running', settings)
  BY <1>2, <1>3 DEF PullsFirst
<1>9. /\ NotBegun(running', directory) /\ StepsLeft(running', directory)
      /\ ToCommit(running', changed, settings) /\ ToPush(running', unpushed, settings)
  BY <1>3 DEF NotBegun, StepsLeft, ToCommit, ToPush
<1>10. CountsOK'
  BY <1>1, <1>2 DEF CountsOK
<1> QED BY <1>1, <1>2, <1>3, <1>7, <1>8, <1>9, <1>10 DEF CommandsInv, OnCourse

\* The command is over.
LEMMA OverKeeps ==
  ASSUME CommandsInv, Exit \/ Die
  PROVE  CommandsInv'
<1>1. running' = Nothing /\ UNCHANGED <<directory, changed, unpushed, settings, commands>>
  BY DEF Exit, Die
<1>2. failures \in 0 .. MaxFailures /\ CountsOK
  BY DEF CommandsInv, CountsOK
<1>3. failures' \in 0 .. MaxFailures
  BY <1>2, OneMore DEF Exit, Die
<1> QED BY <1>1, <1>2, <1>3 DEF CommandsInv, CountsOK

\* It is kept by every step, and by none.
LEMMA StepInv ==
  CommandsInv /\ [CommandsNext]_commandVars => CommandsInv'
<1> SUFFICES ASSUME CommandsInv, [CommandsNext]_commandVars PROVE CommandsInv'
  OBVIOUS
<1>1. CASE \E command \in Command, enabled \in SUBSET {"merge", "pull", "push"} : Start(command, enabled)
  BY <1>1, StartKeeps
<1>2. CASE try_merge_origin_master
  BY <1>2, PreflightKeeps DEF try_merge_origin_master
<1>3. CASE try_pull_remote
  BY <1>3, PreflightKeeps DEF try_pull_remote
<1>4. CASE Dispatch
  BY <1>4, DispatchKeeps
<1>5. CASE WriteDirectory
  BY <1>5, WriteDirectoryKeeps
<1>6. CASE WriteFile
  BY <1>6, WriteFileKeeps
<1>7. CASE Sync
  BY <1>7, SyncKeeps
<1>8. CASE Commit
  BY <1>8, CommitKeeps
<1>9. CASE Push
  BY <1>9, PushKeeps
<1>10. CASE StepFails
  BY <1>10, StepFailsKeeps
<1>11. CASE Done
  BY <1>11, DoneKeeps
<1>12. CASE Exit \/ Die
  BY <1>12, OverKeeps
<1>13. CASE UNCHANGED commandVars
  BY <1>13 DEF commandVars, CommandsInv, CountsOK
<1> QED BY <1>1, <1>2, <1>3, <1>4, <1>5, <1>6, <1>7, <1>8, <1>9, <1>10, <1>11, <1>12, <1>13 DEF CommandsNext, NoMore

\* The types of the commands: main runs one command at a time, on a directory whose
\* connections and accounts are well formed, and as often as the bounds allow.
THEOREM CommandsTypes == CommandsSpec => []CommandsTypeOK
BY InitInv, StepInv, InvGives, PTL DEF CommandsSpec

\* A command that ends without an error leaves the directory tidy: what it wrote committed
\* and, after a sync that is to push, pushed, and every link leading to what it names if
\* they did before it; and none that is to pull first writes before it has pulled.  So it
\* is whatever commands main ran before, and wherever they failed or died.
THEOREM CommandsStayTidy == CommandsSpec => []CommandsTidyUp
BY InitInv, StepInv, InvGives, PTL DEF CommandsSpec

=============================================================================
