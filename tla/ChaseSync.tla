----------------------------- MODULE ChaseSync -----------------------------
(***************************************************************************)
(* The transactions of one Chase card (sync/synchronizers/chase.rs and     *)
(* sync/chase/api.rs): Chase lists activities newest first, a page at a    *)
(* time; a full sync reads on to the end, an automatic one until it meets  *)
(* Threshold stored activities in a row.  The bank goes on meanwhile: new  *)
(* activities come on top, late ones further down, and an activity that    *)
(* settles is given further identifiers.  An activity is listed by the     *)
(* identifiers it has; a transaction is named by the best of them.         *)
(***************************************************************************)
EXTENDS TxnLog

CONSTANTS
    Activities,     \* at the bank, some from the start:
    FirstListed,    \* their list, newest first
    IdentifiersOf,  \* by activity and version: "sor", "derived", "ref"
    TimeOf,         \* of an activity
    OldLog,         \* lines of earlier releases, with a stable id only
    PageSize, MaxTransactions, MaxPages, Threshold,
    MaxTrouble      \* bound on failed and odd answers, on dates given, and on recompactions

VARIABLES
    listing,        \* activities at the bank, newest first
    version,        \* of each activity
    log,            \* transactions.jsonl
    fetch,          \* the sync under way
    rewrite,        \* what a recompaction has read
    cut,            \* a sync that stored something ended before it was through
    deep,           \* an activity came late, below Threshold seen ones in a row
    raced,          \* something was appended while a recompaction was under way
    trouble

chaseVars == <<listing, version, log, fetch, rewrite, cut, deep, raced, trouble>>

NoFetch == [at |-> "idle", auto |-> FALSE, skip |-> 0, pages |-> 0, got |-> <<>>, run |-> 0,
            existing |-> {}, owed |-> {}, cut |-> FALSE]
NoRewrite == [reading |-> FALSE, lines |-> <<>>]

Identifiers == {"sor", "derived", "ref"}
(* Earlier releases stored activities that are listed, by identifiers they *)
(* have from the start, and missed nothing below Threshold of them.        *)
OldLines == {line \in [id : Activities \X Identifiers, time : Nat, of : ToSet(FirstListed), version : {0},
                       aliases : SUBSET (Activities \X Identifiers)] :
                transaction_dedupe_keys(line) \subseteq {line.of} \X IdentifiersOf[line.of][1]}
OldOnes == {line.of : line \in ToSet(OldLog)}
ASSUME ChaseAssumption ==
    /\ FirstListed \in Seq(Activities)
    /\ \A i, j \in DOMAIN FirstListed : FirstListed[i] = FirstListed[j] => i = j
    /\ IdentifiersOf \in [Activities -> Seq(SUBSET Identifiers)]
    /\ \A a \in Activities :
           /\ Len(IdentifiersOf[a]) > 0 /\ IdentifiersOf[a][1] # {}
           /\ \A v, w \in DOMAIN IdentifiersOf[a] : v <= w => IdentifiersOf[a][v] \subseteq IdentifiersOf[a][w]
    /\ TimeOf \in [Activities -> Nat]
    /\ OldLog \in Seq(OldLines)
    /\ \A i \in DOMAIN FirstListed : FirstListed[i] \notin OldOnes =>
           ~ \E first \in 1 .. i - Threshold :
                 \A j \in first .. first + Threshold - 1 : FirstListed[j] \in OldOnes
    /\ PageSize \in Nat /\ MaxTransactions \in Nat /\ MaxPages \in Nat /\ MaxTrouble \in Nat
    /\ Threshold \in Nat \ {0}

stable_id(identifiers) ==
    IF "sor" \in identifiers THEN "sor" ELSE IF "derived" \in identifiers THEN "derived" ELSE "ref"

chase_activity_to_transaction(a) ==
    LET identifiers == IdentifiersOf[a][version[a]]
    IN  [id |-> <<a, stable_id(identifiers)>>, time |-> TimeOf[a], of |-> a, version |-> version[a],
         aliases |-> {<<a, i>> : i \in identifiers}]

Stored == {line.of : line \in get_transactions(log)}
Ids(lines) == {line.id : line \in lines}

----------------------------------------------------------------------------
ChaseInit ==
    /\ listing = FirstListed
    /\ version = [a \in Activities |-> 1]
    /\ log = OldLog
    /\ fetch = NoFetch
    /\ rewrite = NoRewrite
    /\ cut = FALSE /\ deep = FALSE /\ raced = FALSE
    /\ trouble = 0

Trouble == trouble < MaxTrouble /\ trouble' = trouble + 1

(* The bank. *)
Seen == Stored \cup {fetch.got[i].of : i \in DOMAIN fetch.got}
SeenAbove(place) ==
    /\ place > Threshold
    /\ LET seen == Seen IN \E i \in 1 .. place - Threshold :
                               \A j \in i .. i + Threshold - 1 : listing[j] \in seen
Come(a, place) ==
    /\ a \notin ToSet(listing)
    /\ listing' = InsertAt(listing, place, a)
    /\ deep' = (deep \/ SeenAbove(place))
    /\ UNCHANGED <<version, log, fetch, rewrite, cut, raced, trouble>>

Settle(a) ==
    /\ a \in ToSet(listing) /\ version[a] < Len(IdentifiersOf[a])
    /\ version' = [version EXCEPT ![a] = @ + 1]
    /\ UNCHANGED <<listing, log, fetch, rewrite, cut, deep, raced, trouble>>

(* A sync reads what is stored; with nothing stored an automatic one is a  *)
(* full one.  By KEEPBOOK_CHASE_END_DATE the newest may be left out.       *)
sync_internal(auto, skip) ==
    /\ fetch.at = "idle" /\ skip <= Len(listing)
    /\ IF skip > 0 THEN Trouble ELSE UNCHANGED trouble
    /\ fetch' = [NoFetch EXCEPT !.at = "page", !.auto = auto /\ get_transactions(log) # {}, !.skip = skip,
                     !.existing = Ids(get_transactions(log)), !.owed = ToSet(listing), !.cut = skip > 0]
    /\ UNCHANGED <<listing, version, log, rewrite, cut, deep, raced>>

(* What the bank lists behind the page before. *)
Rest == LET last == IF fetch.got = <<>> THEN fetch.skip
                    ELSE CHOOSE i \in DOMAIN listing : listing[i] = Last(fetch.got).of
        IN  SubSeq(listing, last + 1, Len(listing))

(* mutant: stored activities need not come in a row *)
Run_NotReset(run, line) == IF line.id \in fetch.existing THEN run + 1 ELSE run
Run(run, line) == IF line.id \in fetch.existing THEN run + 1 ELSE 0

Stop(got, through) ==
    fetch' = [fetch EXCEPT !.at = "save", !.got = got, !.cut = @ \/ ~through]

(* The loop of get_card_transactions_auto, and without the overlap that of *)
(* get_all_card_transactions_paginated.  An odd answer says that there is  *)
(* more and gives nothing, or no key or an old one to go on with.          *)
FetchPage(n, odd) ==
    LET page == [i \in 1 .. Min({n, Len(Rest)}) |-> chase_activity_to_transaction(Rest[i])]
        got == fetch.got \o page
        run == FoldLeft(Run, fetch.run, page)
        more == Len(page) < Len(Rest)
    IN  /\ fetch.at = "page"
        /\ IF odd THEN Trouble ELSE UNCHANGED trouble
        /\ n = 0 => odd \/ Rest = <<>>
        /\ \/ fetch.pages = MaxPages /\ Stop(fetch.got, FALSE)
           \/ /\ fetch.pages < MaxPages
              /\ \/ page = <<>> /\ Stop(got, ~odd)
                 \/ page # <<>> /\ Len(got) > MaxTransactions
                    /\ Stop(SubSeq(got, 1, MaxTransactions), FALSE)
                 \/ /\ page # <<>> /\ Len(got) <= MaxTransactions
                    /\ \/ fetch.auto /\ run >= Threshold /\ Stop(got, TRUE)
                       \/ ~(fetch.auto /\ run >= Threshold) /\ ~more /\ Stop(got, TRUE)
                       \/ ~(fetch.auto /\ run >= Threshold) /\ more /\ odd /\ Stop(got, FALSE)
                       \/ /\ ~(fetch.auto /\ run >= Threshold) /\ more /\ ~odd
                          /\ fetch' = [fetch EXCEPT !.got = got, !.run = run, !.pages = @ + 1]
        /\ UNCHANGED <<listing, version, log, rewrite, cut, deep, raced>>

(* A request that fails leaves the account without new transactions. *)
FetchFails ==
    /\ fetch.at = "page" /\ Trouble
    /\ fetch' = NoFetch
    /\ UNCHANGED <<listing, version, log, rewrite, cut, deep, raced>>

Save ==
    /\ fetch.at = "save"
    /\ log' = append_new(log, fetch.got)
    /\ fetch' = [fetch EXCEPT !.at = "done"]
    /\ cut' = (cut \/ (fetch.cut /\ log' # log))
    /\ raced' = (raced \/ (rewrite.reading /\ log' # log))
    /\ UNCHANGED <<listing, version, rewrite, deep, trouble>>

Return == /\ fetch.at = "done" /\ fetch' = NoFetch
          /\ UNCHANGED <<listing, version, log, rewrite, cut, deep, raced, trouble>>

(* Another process recompacts, or fills in metadata; it reads and writes.  *)
RecompactRead ==
    /\ ~rewrite.reading /\ Trouble
    /\ rewrite' = [reading |-> TRUE, lines |-> log]
    /\ UNCHANGED <<listing, version, log, fetch, cut, deep, raced>>

(* mutant: keeps the first line of each id *)
recompact_all_jsonl_First ==
    /\ rewrite.reading
    /\ log' = SelectSeq([i \in DOMAIN rewrite.lines |->
                  IF \E j \in 1 .. i - 1 : rewrite.lines[j].of = rewrite.lines[i].of THEN Gone
                  ELSE rewrite.lines[i]], LAMBDA line : line # Gone)
    /\ rewrite' = NoRewrite
    /\ UNCHANGED <<listing, version, fetch, cut, deep, raced, trouble>>
recompact_all_jsonl ==
    /\ rewrite.reading
    /\ log' = compact(rewrite.lines)
    /\ rewrite' = NoRewrite
    /\ UNCHANGED <<listing, version, fetch, cut, deep, raced, trouble>>

backfill_transaction_metadata_all ==
    /\ rewrite.reading
    /\ log' = rewrite.lines
    /\ rewrite' = NoRewrite
    /\ UNCHANGED <<listing, version, fetch, cut, deep, raced, trouble>>

ChaseNext ==
    \/ \E a \in Activities : Settle(a) \/ \E place \in 1 .. Len(listing) + 1 : Come(a, place)
    \/ \E auto \in BOOLEAN, skip \in 0 .. 1 : sync_internal(auto, skip)
    \/ \E n \in 0 .. PageSize, odd \in BOOLEAN : FetchPage(n, odd)
    \/ FetchFails \/ Save \/ Return
    \/ RecompactRead \/ recompact_all_jsonl \/ backfill_transaction_metadata_all

ChaseSpec == ChaseInit /\ [][ChaseNext]_chaseVars

----------------------------------------------------------------------------
ChaseTypeOK ==
    /\ ToSet(listing) \subseteq Activities
    /\ \A i \in DOMAIN log : log[i].of \in Activities /\ log[i].version \in 0 .. version[log[i].of]
    /\ fetch.at \in {"idle", "page", "save", "done"}
    /\ Len(fetch.got) <= MaxTransactions + PageSize

(* A sync leaves no activity out that was listed when it began, automatic  *)
(* syncs included (chase.rs:1196): neither what came late between stored   *)
(* ones, nor what the sync before had no time for; unless a sync was cut   *)
(* short before, or Threshold stored activities in a row hide it.          *)
NothingMissed ==
    fetch.at = "done" /\ ~cut /\ ~fetch.cut /\ ~deep /\ ~raced => fetch.owed \subseteq Stored

(* A full sync that reads to the end makes good for all of this.           *)
FullSyncHeals ==
    fetch.at = "done" /\ ~fetch.auto /\ ~fetch.cut /\ ~raced => fetch.owed \subseteq Stored

(* What a sync has read is what readers see, although it replaces lines    *)
(* under other ids, and others were merged or sorted before.               *)
SeenAsFetched ==
    fetch.at = "done" /\ ~raced => ToSet(fetch.got) \subseteq get_transactions(log)

(* An activity is one transaction under all the ids it had (alias keys,    *)
(* storage/mod.rs:162), once it has been listed with identifiers that link *)
(* them, and recompaction must not undo that.                              *)
OneEach ==
    \A seen \in {get_transactions(log)} :
        \A s, t \in seen : s.of = t.of /\ s # t => s.version = 0 /\ t.version = 0

(* The one pass over the log finds what is linked, however long the chain. *)
DedupesLinked == get_transactions(log) = LastOfEach(log)

(* Syncing again what has not changed appends nothing. *)
ResyncSettles == [][Save /\ ToSet(fetch.got) \subseteq get_transactions(log) => log' = log]_chaseVars

(* Recompaction does not change what readers see, if nobody else wrote.    *)
CompactionKeeps ==
    [][rewrite.reading /\ rewrite'.reading = FALSE /\ ~raced
          => get_transactions(log') = get_transactions(log)]_chaseVars

(* What Chase lists ends up in the log, once, and readers see it so.       *)
StoredAsListed == NothingMissed /\ FullSyncHeals /\ SeenAsFetched /\ OneEach /\ DedupesLinked

(* What is in the log already is left as it is.                            *)
LogSettles == ResyncSettles /\ CompactionKeeps
=============================================================================
