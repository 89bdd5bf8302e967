---------------------------- MODULE MarketStore ----------------------------
(***************************************************************************)
(* The price and rate files of market_data/jsonl_store.rs: one series (the *)
(* prices of an asset, or the rates of a pair: the code is the same twice) *)
(* in one JSONL file per year, cached in each store by length and time     *)
(* stamp.  put_prices reads the file, adds its points and writes the whole *)
(* file; recompact_all_jsonl rewrites it sorted.  Nothing is locked.       *)
(*                                                                         *)
(* A file is the set of its points: its order and repeated lines tell      *)
(* nobody anything, since every reader sorts and takes a maximum.  As in   *)
(* StorageCache, a change gives a file (and a new file its directory) a    *)
(* key it never had: here a number that grows.                             *)
(***************************************************************************)
EXTENDS Naturals, FiniteSets, FiniteSetsExt

CONSTANTS
    Stores,     \* instances of JsonlMarketDataStore, each with a cache
    Users,      \* tasks, at most one operation each
    StoreOf,    \* the store of a task
    Years,      \* partitions
    Points,     \* points to be stored,
    Batches,    \* as they are handed to put_prices
    YearOf,     \* the year of a point
    NoFile,     \* key of what does not exist, and an empty place in a cache
    MaxEvents   \* recompactions and crashes

ASSUME StoreAssumption ==
    /\ StoreOf \in [Users -> Stores]
    /\ YearOf \in [Points -> Years]
    /\ Batches \subseteq (SUBSET Points) \ {{}}
    /\ NoFile \notin Nat

VARIABLES
    file,       \* points in the file of each year
    key,        \* what fs_cache_key tells of each file
    dirKey,     \* and of the directory
    files,      \* cached read of each year, by store
    dir,        \* cached list of the years that have a file, by store
    user,       \* what each task is doing
    stored,     \* points whose put_prices has returned
    upset,      \* two writers met in one file, or one was cut short
    events

storeVars == <<file, key, dirKey, files, dir, user, stored, upset, events>>

Existing == {y \in Years : key[y] # NoFile}
Idle == [op |-> "none", at |-> "idle", year |-> NoFile, key |-> NoFile, years |-> {},
         points |-> {}, got |-> {}, owed |-> {}, torn |-> FALSE]
Writers(y) == {u \in Users : user[u].op \in {"put", "recompact"} /\ y \in user[u].years}

StoreTypeOK ==
    /\ file \in [Years -> SUBSET Points]
    /\ key \in [Years -> Nat \cup {NoFile}]
    /\ stored \subseteq Points
    /\ upset \in BOOLEAN
    /\ \A s \in Stores, y \in Years :
           files[s][y] # NoFile => files[s][y].points \subseteq {p \in Points : YearOf[p] = y}

StoreInit ==
    /\ file = [y \in Years |-> {}]
    /\ key = [y \in Years |-> NoFile]
    /\ dirKey = NoFile
    /\ files = [s \in Stores |-> [y \in Years |-> NoFile]]
    /\ dir = [s \in Stores |-> NoFile]
    /\ user = [u \in Users |-> Idle]
    /\ stored = {}
    /\ upset = FALSE
    /\ events = 0

----------------------------------------------------------------------------
(* Operations begin.  put_prices groups its points by year and takes the   *)
(* years in the order of a HashMap.                                        *)

Meets(u, years) == \E y \in years : Writers(y) \ {u} # {}
Pending == UNION {user[u].points : u \in Users}

Begin(u, op, years, points, owed) ==
    /\ user[u].at = "idle"
    /\ user' = [user EXCEPT ![u] = [Idle EXCEPT !.op = op, !.at = "next", !.years = years,
                                               !.points = points, !.owed = owed]]

put_prices(u) == \E points \in Batches :
    LET years == {YearOf[p] : p \in points} IN
    /\ points \cap (stored \cup Pending) = {}
    /\ Begin(u, "put", years, points, {})
    /\ upset' = (upset \/ Meets(u, years))
    /\ UNCHANGED <<file, key, dirKey, files, dir, stored, events>>

(* recompact_all_jsonl collects the files there are, past the cache. *)
recompact(u) ==
    /\ events < MaxEvents /\ events' = events + 1
    /\ Begin(u, "recompact", Existing, {}, {})
    /\ upset' = (upset \/ Meets(u, Existing))
    /\ UNCHANGED <<file, key, dirKey, files, dir, stored>>

(* get_all_prices lists the directory, through the cache; it owes what had *)
(* been stored when it began.                                              *)
Listed(s) == IF dir[s] # NoFile /\ dir[s].key = dirKey THEN dir[s].years ELSE Existing

get_all_prices(u) ==
    LET s == StoreOf[u] IN
    /\ Begin(u, "get", Listed(s), {}, stored)
    /\ dir' = [dir EXCEPT ![s] = [key |-> dirKey, years |-> Listed(s)]]
    /\ UNCHANGED <<file, key, dirKey, files, stored, upset, events>>

----------------------------------------------------------------------------
(* One file at a time: stat and look-up, then the file itself. *)

At(u, at, y) == user[u].at = at /\ user[u].year = y
Goto(u, at, y) == user' = [user EXCEPT ![u].at = at, ![u].year = y]

(* A reader may meet a file that is being rewritten, and its empty start. *)
Rewriting(y) == \E u \in Users : At(u, "torn", y)
Got(u, y, points) == user' = [user EXCEPT ![u].at = "have", ![u].year = y,
                                          ![u].got = @ \cup points,
                                          ![u].torn = @ \/ Rewriting(y)]

Lookup(u, y) ==
    LET entry == files[StoreOf[u]][y] IN
    /\ user[u].op # "recompact" /\ user[u].at = "next" /\ y \in user[u].years
    /\ IF entry # NoFile /\ entry.key = key[y]
       THEN Got(u, y, entry.points)
       ELSE user' = [user EXCEPT ![u].at = "miss", ![u].year = y, ![u].key = key[y]]
    /\ UNCHANGED <<file, key, dirKey, files, dir, stored, upset, events>>

(* The content of now goes into the cache under the key of then. *)
Load(u, y) ==
    /\ At(u, "miss", y)
    /\ files' = [files EXCEPT ![StoreOf[u]][y] = [key |-> user[u].key, points |-> file[y]]]
    /\ Got(u, y, file[y])
    /\ UNCHANGED <<file, key, dirKey, dir, stored, upset, events>>

RecompactRead(u, y) ==
    /\ user[u].op = "recompact" /\ user[u].at = "next" /\ y \in user[u].years
    /\ Got(u, y, file[y])
    /\ UNCHANGED <<file, key, dirKey, files, dir, stored, upset, events>>

OfYear(points, y) == {p \in points : YearOf[p] = y}
Fresh(k) == IF k = NoFile THEN 1 ELSE k + 1

(* fs::write creates or truncates the file, ... *)
Truncate(u, y) ==
    /\ user[u].op # "get" /\ At(u, "have", y)
    /\ file' = [file EXCEPT ![y] = {}]
    /\ key' = [key EXCEPT ![y] = Fresh(@)]
    /\ dirKey' = IF key[y] = NoFile THEN Fresh(dirKey) ELSE dirKey
    /\ Goto(u, "torn", y)
    /\ UNCHANGED <<files, dir, stored, upset, events>>

(* ... and fills it with what was read and what is new. *)
write_jsonl(u, y) ==
    /\ At(u, "torn", y)
    /\ file' = [file EXCEPT ![y] = OfYear(user[u].got \cup user[u].points, y)]
    /\ key' = [key EXCEPT ![y] = Fresh(@)]
    /\ Goto(u, "wrote", y)
    /\ UNCHANGED <<dirKey, files, dir, stored, upset, events>>

(* mutant: caches only what is new *)
cache_price_file_OnlyNew(u, y) ==
    LET s == StoreOf[u] IN
    /\ user[u].op = "put" /\ At(u, "wrote", y)
    /\ files' = [files EXCEPT ![s][y] = [key |-> key[y], points |-> OfYear(user[u].points, y)]]
    /\ dir' = [dir EXCEPT ![s] = NoFile]
    /\ user' = [user EXCEPT ![u].at = "next", ![u].year = NoFile, ![u].key = NoFile,
                            ![u].years = @ \ {y}]
    /\ UNCHANGED <<file, key, dirKey, stored, upset, events>>
(* cache_price_file stats the file anew, so its key may be that of another *)
(* writer's content; then the cached list of the directory is dropped.     *)
cache_price_file(u, y) ==
    LET s == StoreOf[u] IN
    /\ user[u].op = "put" /\ At(u, "wrote", y)
    /\ files' = [files EXCEPT ![s][y] =
           [key |-> key[y], points |-> OfYear(user[u].got \cup user[u].points, y)]]
    /\ dir' = [dir EXCEPT ![s] = NoFile]
    /\ user' = [user EXCEPT ![u].at = "next", ![u].year = NoFile, ![u].key = NoFile,
                            ![u].years = @ \ {y}]
    /\ UNCHANGED <<file, key, dirKey, stored, upset, events>>

NextYear(u, y) ==
    /\ \/ user[u].op = "get" /\ At(u, "have", y)
       \/ user[u].op = "recompact" /\ At(u, "wrote", y)
    /\ user' = [user EXCEPT ![u].at = "next", ![u].year = NoFile, ![u].key = NoFile,
                            ![u].years = @ \ {y}]
    /\ UNCHANGED <<file, key, dirKey, files, dir, stored, upset, events>>

Through(u) == user[u].at = "next" /\ user[u].years = {}

(* The operation returns; recompaction clears the cache first. *)
Finish(u) ==
    /\ Through(u)
    /\ user' = [user EXCEPT ![u] = Idle]
    /\ stored' = stored \cup user[u].points
    /\ files' = IF user[u].op = "recompact"
                THEN [files EXCEPT ![StoreOf[u]] = [y \in Years |-> NoFile]] ELSE files
    /\ dir' = IF user[u].op = "recompact" THEN [dir EXCEPT ![StoreOf[u]] = NoFile] ELSE dir
    /\ UNCHANGED <<file, key, dirKey, upset, events>>

(* A program that stops takes its caches with it. *)
Crash(u) ==
    /\ events < MaxEvents /\ events' = events + 1
    /\ user[u].at # "idle"
    /\ user' = [v \in Users |-> IF StoreOf[v] = StoreOf[u] THEN Idle ELSE user[v]]
    /\ files' = [files EXCEPT ![StoreOf[u]] = [y \in Years |-> NoFile]]
    /\ dir' = [dir EXCEPT ![StoreOf[u]] = NoFile]
    /\ upset' = (upset \/ \E v \in Users : StoreOf[v] = StoreOf[u] /\ user[v].op \in {"put", "recompact"}
                                           /\ user[v].at # "idle")
    /\ UNCHANGED <<file, key, dirKey, stored>>

StoreNext == \E u \in Users :
    \/ put_prices(u) \/ recompact(u) \/ get_all_prices(u) \/ Finish(u) \/ Crash(u)
    \/ \E y \in Years : \/ Lookup(u, y) \/ Load(u, y) \/ RecompactRead(u, y) \/ Truncate(u, y)
                        \/ write_jsonl(u, y) \/ cache_price_file(u, y) \/ NextYear(u, y)

StoreSpec == StoreInit /\ [][StoreNext]_storeVars

----------------------------------------------------------------------------
(* A stored price is still in its file, but while the file is half written *)
(* (jsonl_store.rs:444): as long as no two writers ever met in one file    *)
(* and none was cut short in one, whichever stores and caches they used.   *)
StoredStays == ~upset => \A p \in stored : p \in file[YearOf[p]] \/ Rewriting(YearOf[p])

(* A cached file whose key is the present one has the present content,     *)
(* although cache_price_file takes the key after the write.  When writers  *)
(* meet this is false for good, and the next put_prices through that cache *)
(* drops what the other one stored, with nobody near it any more.          *)
CachedIsPresent == ~upset => \A s \in Stores, y \in Years :
    files[s][y] # NoFile /\ files[s][y].key = key[y] => files[s][y].points = file[y]

(* What get_all_prices returned includes all that was stored before it     *)
(* began -- also a year whose file another program has just created, which *)
(* it must not miss by its cached list of files -- unless it read a file   *)
(* that was being rewritten.                                               *)
ReadsAllStored == ~upset => \A u \in Users :
    user[u].op = "get" /\ Through(u) /\ ~user[u].torn => user[u].owed \subseteq user[u].got

(* Whatever is stored once stays, readers get all of it, and no cache lies *)
(* in wait to take it back.                                                *)
NothingStoredLost == StoredStays /\ ReadsAllStored /\ CachedIsPresent
=============================================================================
