------------------------------- MODULE TxnLog -------------------------------
(***************************************************************************)
(* The log of an account's transactions: what readers make of its lines    *)
(* (storage/mod.rs, dedupe_transactions_last_write_wins), what a sync adds *)
(* to it (sync/mod.rs, save_with_clock) and what recompaction leaves of it *)
(* (storage/json_file.rs, recompact_all_jsonl).  The memory storage keeps  *)
(* the same log.  Pure operators; a line is a record with at least         *)
(*     id       the identity of the transaction,                           *)
(*     aliases  other names under which the bank may list it,              *)
(*     time     when it took place.                                        *)
(***************************************************************************)
EXTENDS Naturals, Sequences, FiniteSets, FiniteSetsExt, SequencesExt

transaction_dedupe_keys(line) == {line.id} \cup line.aliases

(* One pass over the log: a line takes the first of the places its keys    *)
(* lead to, and the others are given up and their keys moved there.        *)
Gone == <<>>
Empty == [places |-> <<>>, index |-> <<>>]   \* no line, and no key, yet
Place(acc, line) ==
    LET keys == transaction_dedupe_keys(line)
        matched == {acc.index[k] : k \in keys \cap DOMAIN acc.index}
        target == IF matched = {} THEN Len(acc.places) + 1 ELSE Min(matched)
        before == IF matched = {} THEN Append(acc.places, line) ELSE acc.places
    IN  [places |-> [i \in DOMAIN before |-> IF i = target THEN line
                                             ELSE IF i \in matched THEN Gone ELSE before[i]],
         index |-> [k \in DOMAIN acc.index \cup keys |->
                       IF k \in keys \/ acc.index[k] \in matched THEN target ELSE acc.index[k]]]

(* The lines at some places in order, given what comes before each.        *)
Arranged(lines, before) ==
    [n \in 1 .. Cardinality(DOMAIN before) |->
        lines[CHOOSE i \in DOMAIN before : Cardinality(before[i]) = n - 1]]
Kept(lines, places) == Arranged(lines, [i \in places |-> {j \in places : j < i}])

dedupe(log) == LET places == FoldLeft(Place, Empty, log).places
               IN  Kept(places, {i \in DOMAIN places : places[i] # Gone})
get_transactions(log) == ToSet(dedupe(log))

(* A batch keeps the last of each id, in the order they were first seen.   *)
SameId(batch, i) == {j \in DOMAIN batch : batch[j].id = batch[i].id}
collapse(batch) == Kept([i \in DOMAIN batch |-> batch[Max(SameId(batch, i))]],
                        {i \in DOMAIN batch : i = Min(SameId(batch, i))})

(* save_with_clock appends what is new or differs from what is there.      *)
append_new(log, batch) ==
    LET existing == get_transactions(log)
        unique == collapse(batch)
    IN  log \o Kept(unique, {i \in DOMAIN unique : unique[i] \notin existing})

(* Recompaction writes what readers see, sorted by time.  Lines of one     *)
(* time, which the code sorts by id, stay as they stand: they share no key *)
(* any more, so no reader can tell.                                        *)
compact(log) ==
    LET lines == dedupe(log)
        Before(j, i) == lines[j].time < lines[i].time \/ (lines[j].time = lines[i].time /\ j < i)
    IN  Arranged(lines, [i \in DOMAIN lines |-> {j \in DOMAIN lines : Before(j, i)}])

----------------------------------------------------------------------------
(* For reference: lines are about one transaction if a chain of shared     *)
(* keys links them, and the last of them counts.                           *)
Sharing(log, lines) == {j \in DOMAIN log : \E i \in lines :
    transaction_dedupe_keys(log[i]) \cap transaction_dedupe_keys(log[j]) # {}}
SameAs(log, i) == FoldLeft(LAMBDA lines, any : Sharing(log, lines), {i}, log)
LastOfEach(log) == {log[Max(SameAs(log, i))] : i \in DOMAIN log}
=============================================================================
