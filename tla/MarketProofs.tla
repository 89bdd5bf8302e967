---------------------------- MODULE MarketProofs ----------------------------
(***************************************************************************)
(* Market data: the files of points, the choice among points, and what     *)
(* the reports count on: amounts, the calendar, the fetch of missing       *)
(* prices, the periods of spending and their sums.                         *)
(*                                                                         *)
(* The files, for any stores, tasks, years and points.                     *)
(* What is stored may be lost through a cache long after it was written,   *)
(* and a cache goes wrong only by a key that is the present one with other *)
(* content.  So the invariant follows a point from the cache or file in    *)
(* which a writer finds it to the file and the cache where it leaves it.   *)
(***************************************************************************)
EXTENDS MarketStore, MarketPrices, Spending, History, FiniteSetTheorems, WellFoundedInduction, TLAPS

Stages == {"idle", "next", "miss", "have", "torn", "wrote"}
Keys == (Nat \ {0}) \cup {NoFile}
Operations ==
    [op : {"none", "put", "recompact", "get"}, at : Stages, year : Years \cup {NoFile}, key : Keys,
     years : SUBSET Years, points : SUBSET Points, got : SUBSET Points, owed : SUBSET Points,
     torn : BOOLEAN]
In(y) == {p \in Points : YearOf[p] = y}

\* Whoever is in a file still has its year to do; only writers write it, and only
\* readers of the cache miss it.
Standing(o) ==
    /\ o.at = "idle" => o.op = "none" /\ o.years = {}
    /\ o.op # "put" => o.points = {}
    /\ o.at # "idle" => o.op # "none"
    /\ o.at \in {"miss", "have", "torn", "wrote"} => o.year \in o.years
    /\ o.at \in {"torn", "wrote"} => o.op \in {"put", "recompact"}
    /\ o.at = "miss" => o.op # "recompact"

\* The types of the variables.
Types ==
    /\ file \in [Years -> SUBSET Points]
    /\ \A y \in Years : file[y] \subseteq In(y)
    /\ key \in [Years -> Keys] /\ dirKey \in Keys
    /\ files \in [Stores -> [Years -> {NoFile} \cup [key : Keys, points : SUBSET Points]]]
    /\ \A s \in Stores, y \in Years : files[s][y] # NoFile => files[s][y].points \subseteq In(y)
    /\ dir \in [Stores -> {NoFile} \cup [key : Keys, years : SUBSET Years]]
    /\ user \in [Users -> Operations]
    /\ \A u \in Users : Standing(user[u])
    /\ stored \subseteq Points
    /\ upset \in BOOLEAN

\* Keys in the order of time.
NoLater(k, l) == k = NoFile \/ (l # NoFile /\ k <= l)

\* No key is of the future, and a file that has points or is being written exists.
Keyed ==
    /\ \A s \in Stores, y \in Years : files[s][y] # NoFile => NoLater(files[s][y].key, key[y])
    /\ \A u \in Users : user[u].at = "miss" => NoLater(user[u].key, key[user[u].year])
    /\ \A s \in Stores : dir[s] # NoFile => NoLater(dir[s].key, dirKey)
    /\ \A y \in Years : file[y] # {} => key[y] # NoFile
    /\ \A u \in Users : user[u].at \in {"torn", "wrote"} => key[user[u].year] # NoFile

\* A cached list of the directory whose key is the present one is the present list.
Lists == \A s \in Stores : dir[s] # NoFile /\ dir[s].key = dirKey => dir[s].years = Existing

\* No two writers have a year in common.
Writing(u) == user[u].op \in {"put", "recompact"}
Alone == ~upset => \A u, v \in Users :
    u # v /\ Writing(u) /\ Writing(v) => user[u].years \cap user[v].years = {}

\* Points that were stored, and those of a put_prices under way that it has written.
Secure == stored \cup UNION {{p \in user[u].points : YearOf[p] \notin user[u].years} : u \in Users}
Kept == ~upset => \A p \in Secure : p \in file[YearOf[p]] \/ Rewriting(YearOf[p])

\* A writer that has read a file has all that is to stay in it, and one that has
\* written it knows its content.
Carried == ~upset => \A u \in Users : Writing(u) =>
    /\ user[u].at \in {"have", "torn"} => \A p \in Secure : YearOf[p] = user[u].year => p \in user[u].got
    /\ user[u].at = "wrote" =>
          file[user[u].year] = OfYear(user[u].got \cup user[u].points, user[u].year)

\* A reader has what it owes of the years it is through with.
Owed == ~upset => \A u \in Users : user[u].op = "get" =>
    /\ user[u].owed \subseteq stored
    /\ ~user[u].torn => \A p \in user[u].owed :
          p \in user[u].got \/ (YearOf[p] \in user[u].years /\ ~At(u, "have", YearOf[p]))

IInv == Types /\ Keyed /\ Lists /\ Alone /\ Kept /\ Carried /\ Owed /\ CachedIsPresent

\* A new key is the latest, and later than any there was.
LEMMA FreshKeys ==
  ASSUME NEW k \in Keys
  PROVE  /\ Fresh(k) \in Keys /\ Fresh(k) # NoFile
         /\ \A l \in Keys : NoLater(l, k) => NoLater(l, Fresh(k)) /\ l # Fresh(k)
BY StoreAssumption DEF Keys, Fresh, NoLater

\* Initially.
LEMMA InitHolds == StoreInit => IInv
<1> SUFFICES ASSUME StoreInit PROVE IInv
  OBVIOUS
<1> USE DEF StoreInit
<1>1. Idle \in Operations /\ Standing(Idle) /\ NoFile \in Keys
  BY DEF Operations, Idle, Standing, Stages, Keys
<1>2. Types
  BY <1>1 DEF Types
<1>3. Keyed /\ Lists
  BY DEF Keyed, Lists, Idle
<1>4. Alone /\ Carried /\ Owed /\ CachedIsPresent
  BY DEF Alone, Carried, Owed, CachedIsPresent, Writing, Idle
<1>5. Kept
  BY DEF Kept, Secure, Idle
<1> QED BY <1>2, <1>3, <1>4, <1>5 DEF IInv

\* One task goes on; the others stay where they are.
LEMMA Moves ==
  ASSUME Types, NEW u \in Users, NEW o \in Operations, Standing(o), user' = [user EXCEPT ![u] = o]
  PROVE  /\ user' \in [Users -> Operations] /\ \A v \in Users : Standing(user'[v])
         /\ user'[u] = o /\ \A v \in Users \ {u} : user'[v] = user[v]
<1>1. user \in [Users -> Operations] /\ \A v \in Users : Standing(user[v])
  BY DEF Types
<1>2. user' \in [Users -> Operations] /\ user'[u] = o /\ \A v \in Users \ {u} : user'[v] = user[v]
  BY <1>1
<1> QED BY <1>1, <1>2

\* What is secure, of the points a task has and the years it has to do.
LEMMA SecurePoints ==
  \A p : p \in Secure <=>
            p \in stored \/ \E u \in Users : p \in user[u].points /\ YearOf[p] \notin user[u].years
BY DEF Secure

\* An operation begins.
Begins(u, op, years, points, owed) ==
    /\ op \in {"put", "recompact", "get"} /\ years \subseteq Years
    /\ points \subseteq Points /\ \A p \in points : YearOf[p] \in years
    /\ op # "put" => points = {}
    /\ owed \subseteq Points
    /\ Begin(u, op, years, points, owed)

\* A use begins.
LEMMA BeginMoves ==
  ASSUME IInv, NEW u \in Users, NEW op, NEW years, NEW points, NEW owed,
         Begins(u, op, years, points, owed)
  PROVE  /\ user[u].at = "idle" /\ user' \in [Users -> Operations]
         /\ \A v \in Users : Standing(user'[v])
         /\ user'[u].op = op /\ user'[u].at = "next" /\ user'[u].years = years
         /\ user'[u].points = points /\ user'[u].owed = owed
         /\ \A v \in Users \ {u} : user'[v] = user[v]
         /\ stored' = stored => Secure' = Secure
<1> USE DEF Begins
<1> DEFINE o == [Idle EXCEPT !.op = op, !.at = "next", !.years = years,
                             !.points = points, !.owed = owed]
<1>1. /\ o \in Operations
      /\ o.op = op /\ o.at = "next" /\ o.years = years /\ o.points = points /\ o.owed = owed
      /\ Standing(o)
  BY DEF Operations, Idle, Stages, Keys, Standing
<1>2. user' = [user EXCEPT ![u] = o] /\ user[u].at = "idle"
  BY DEF Begin
<1> HIDE DEF o
<1>3. /\ user' \in [Users -> Operations] /\ \A v \in Users : Standing(user'[v])
      /\ user'[u] = o /\ \A v \in Users \ {u} : user'[v] = user[v]
  BY <1>1, <1>2, Moves DEF IInv
<1>4. user[u].points = {}
  BY <1>2 DEF IInv, Types, Standing
<1>5. ASSUME stored' = stored PROVE Secure' = Secure
  <2>1. \A p : p \in Secure' <=> p \in Secure
    BY <1>1, <1>3, <1>4, <1>5 DEF Secure
  <2> QED BY <2>1
<1> QED BY <1>1, <1>2, <1>3, <1>5

\* What the begin of an operation leaves as it is.
LEMMA BeginKeeps ==
  ASSUME IInv, NEW u \in Users, NEW op, NEW years, NEW points, NEW owed,
         Begins(u, op, years, points, owed),
         UNCHANGED <<file, key, dirKey, files, stored>>, upset => upset', upset' \in BOOLEAN
  PROVE  /\ Kept' /\ Carried' /\ CachedIsPresent'
         /\ dir' = dir => Types' /\ Keyed' /\ Lists'
<1>1. /\ user[u].at = "idle" /\ user' \in [Users -> Operations]
      /\ \A v \in Users : Standing(user'[v])
      /\ user'[u].at = "next"
      /\ \A v \in Users \ {u} : user'[v] = user[v]
      /\ Secure' = Secure
  BY BeginMoves
<1>2. \A y : Rewriting(y)' <=> Rewriting(y)
  BY <1>1 DEF Rewriting, At
<1>3. Kept'
  BY <1>1, <1>2 DEF IInv, Kept
<1>4. Carried'
  BY <1>1 DEF IInv, Carried, Writing
<1>5. CachedIsPresent'
  BY DEF IInv, CachedIsPresent
<1>6. ASSUME dir' = dir PROVE Types' /\ Keyed' /\ Lists'
  <2>1. Types'
    BY <1>1, <1>6 DEF IInv, Types
  <2>2. Keyed'
    BY <1>1, <1>6 DEF IInv, Keyed
  <2>3. Lists'
    BY <1>6 DEF IInv, Lists, Existing
  <2> QED BY <2>1, <2>2, <2>3
<1> QED BY <1>3, <1>4, <1>5, <1>6

\* A writer that begins is alone in its years, or all is upset.
LEMMA BeginsAlone ==
  ASSUME IInv, NEW u \in Users, NEW op, NEW years, NEW points,
         Begins(u, op, years, points, {}), op # "get", upset' = (upset \/ Meets(u, years)),
         UNCHANGED stored
  PROVE  Alone' /\ Owed'
<1>1. /\ user'[u].op = op /\ user'[u].years = years
      /\ \A v \in Users \ {u} : user'[v] = user[v]
  BY BeginMoves
<1>2. Alone'
  <2> SUFFICES ASSUME ~upset', NEW v \in Users, NEW w \in Users, v # w, Writing(v)', Writing(w)'
               PROVE  user'[v].years \cap user'[w].years = {}
    BY DEF Alone
  <2>1. ~upset /\ \A y \in years : Writers(y) \ {u} = {}
    BY DEF Meets
  <2>2. \A z \in Users \ {u} : Writing(z)' => years \cap user[z].years = {}
    BY <2>1, <1>1 DEF Writing, Writers
  <2> QED BY <2>1, <2>2, <1>1 DEF IInv, Alone, Writing
<1>3. Owed'
  BY <1>1 DEF IInv, Owed, At
<1> QED BY <1>2, <1>3

\* Points are to be put.
LEMMA put_pricesKeeps ==
  ASSUME IInv, NEW u \in Users, put_prices(u)
  PROVE  IInv'
<1>1. PICK points \in Batches :
          /\ Begin(u, "put", {YearOf[p] : p \in points}, points, {})
          /\ upset' = (upset \/ Meets(u, {YearOf[p] : p \in points}))
  BY DEF put_prices
<1> DEFINE years == {YearOf[p] : p \in points}
<1>2. Begins(u, "put", years, points, {})
  BY <1>1, StoreAssumption DEF Begins
<1>3. UNCHANGED <<file, key, dirKey, files, dir, stored>>
  BY DEF put_prices
<1>4. upset' \in BOOLEAN /\ (upset => upset') /\ upset' = (upset \/ Meets(u, years))
  BY <1>1 DEF IInv, Types, Meets
<1> HIDE DEF years
<1>5. Types' /\ Keyed' /\ Lists' /\ Kept' /\ Carried' /\ CachedIsPresent'
  BY <1>2, <1>3, <1>4, BeginKeeps
<1>6. Alone' /\ Owed'
  BY <1>2, <1>3, <1>4, BeginsAlone
<1> QED BY <1>5, <1>6 DEF IInv

\* A store is to be compacted.
LEMMA recompactKeeps ==
  ASSUME IInv, NEW u \in Users, recompact(u)
  PROVE  IInv'
<1>1. Begins(u, "recompact", Existing, {}, {})
  BY DEF Begins, Existing, recompact
<1>2. UNCHANGED <<file, key, dirKey, files, dir, stored>>
  BY DEF recompact
<1>3. upset' \in BOOLEAN /\ (upset => upset') /\ upset' = (upset \/ Meets(u, Existing))
  BY DEF IInv, Types, Meets, recompact
<1>4. Types' /\ Keyed' /\ Lists' /\ Kept' /\ Carried' /\ CachedIsPresent'
  BY <1>1, <1>2, <1>3, BeginKeeps
<1>5. Alone' /\ Owed'
  BY <1>1, <1>2, <1>3, BeginsAlone
<1> QED BY <1>4, <1>5 DEF IInv

\* All points are to be read.
LEMMA get_all_pricesKeeps ==
  ASSUME IInv, NEW u \in Users, get_all_prices(u)
  PROVE  IInv'
<1>1. StoreOf[u] \in Stores
  BY StoreAssumption
<1>2. Listed(StoreOf[u]) = Existing
  BY <1>1 DEF IInv, Lists, Listed
<1>3. stored \in SUBSET Points /\ upset \in BOOLEAN /\ Existing \in SUBSET Years
  BY DEF IInv, Types, Existing
<1>4. UNCHANGED <<file, key, dirKey, files, stored, upset>>
  BY DEF get_all_prices
<1>5. Begins(u, "get", Existing, {}, stored)
  BY <1>2, <1>3 DEF get_all_prices, Begins
<1>6. Kept' /\ Carried' /\ CachedIsPresent'
  BY <1>3, <1>4, <1>5, BeginKeeps
<1>7. /\ user' \in [Users -> Operations] /\ \A v \in Users : Standing(user'[v])
      /\ user'[u].op = "get" /\ user'[u].at = "next" /\ user'[u].years = Existing
      /\ user'[u].owed = stored
      /\ \A v \in Users \ {u} : user'[v] = user[v]
  BY <1>5, BeginMoves
<1> DEFINE e == [key |-> dirKey, years |-> Existing]
<1>8. e \in [key : Keys, years : SUBSET Years] /\ e.key = dirKey /\ e.years = Existing
  BY <1>3 DEF IInv, Types
<1>9. dir' = [dir EXCEPT ![StoreOf[u]] = e]
  BY <1>2 DEF get_all_prices
<1> HIDE DEF e
<1>10. Types'
  <2>1. dir' \in [Stores -> {NoFile} \cup [key : Keys, years : SUBSET Years]]
    BY <1>8, <1>9 DEF IInv, Types
  <2> QED BY <2>1, <1>4, <1>7 DEF IInv, Types
<1>11. \A z \in Stores : dir'[z] = dir[z] \/ dir'[z] = e
  BY <1>1, <1>9 DEF IInv, Types
<1>12. Keyed'
  <2>1. NoLater(dirKey, dirKey)
    BY DEF IInv, Types, NoLater, Keys
  <2>2. \A z \in Stores : dir'[z] # NoFile => NoLater(dir'[z].key, dirKey')
    BY <2>1, <1>4, <1>8, <1>11 DEF IInv, Keyed
  <2> QED BY <2>2, <1>4, <1>7 DEF IInv, Keyed
<1>13. Lists'
  BY <1>4, <1>8, <1>11 DEF IInv, Lists, Existing
<1>14. Alone'
  BY <1>4, <1>7 DEF IInv, Alone, Writing
<1>15. Owed'
  <2>1. ASSUME ~upset, NEW p \in stored PROVE YearOf[p] \in Existing
    <3>1. p \in Points /\ YearOf[p] \in Years
      BY <1>3, StoreAssumption
    <3>2. CASE p \in file[YearOf[p]]
      BY <3>1, <3>2 DEF IInv, Keyed, Existing
    <3>3. CASE Rewriting(YearOf[p])
      BY <3>1, <3>3 DEF IInv, Keyed, Existing, Rewriting, At
    <3> QED BY <2>1, <3>2, <3>3 DEF IInv, Kept, Secure
  <2> QED BY <2>1, <1>4, <1>7 DEF IInv, Owed, At
<1> QED BY <1>6, <1>10, <1>12, <1>13, <1>14, <1>15 DEF IInv

\* A task has the points of a file.
LEMMA GotMoves ==
  ASSUME IInv, NEW u \in Users, NEW y \in user[u].years, NEW points \in SUBSET Points,
         Got(u, y, points)
  PROVE  /\ user' \in [Users -> Operations] /\ \A v \in Users : Standing(user'[v])
         /\ user'[u].op = user[u].op /\ user'[u].at = "have" /\ user'[u].year = y
         /\ user'[u].years = user[u].years /\ user'[u].points = user[u].points
         /\ user'[u].got = user[u].got \cup points /\ user'[u].owed = user[u].owed
         /\ user'[u].torn = (user[u].torn \/ Rewriting(y))
         /\ \A v \in Users \ {u} : user'[v] = user[v]
<1> DEFINE o == [user[u] EXCEPT !.at = "have", !.year = y, !.got = @ \cup points,
                                !.torn = @ \/ Rewriting(y)]
<1>1. user[u] \in Operations /\ Standing(user[u]) /\ user \in [Users -> Operations]
  BY DEF IInv, Types
<1>2. Rewriting(y) \in BOOLEAN
  BY DEF Rewriting
<1>3. /\ o \in Operations
      /\ o.op = user[u].op /\ o.at = "have" /\ o.year = y
      /\ o.years = user[u].years /\ o.points = user[u].points
      /\ o.got = user[u].got \cup points /\ o.owed = user[u].owed
      /\ o.torn = (user[u].torn \/ Rewriting(y))
  BY <1>1, <1>2 DEF Operations, Stages
<1>4. user[u].at # "idle"
  BY <1>1 DEF Standing
<1>5. Standing(o)
  BY <1>1, <1>3, <1>4 DEF Standing
<1>6. user' = [user EXCEPT ![u] = o]
  BY <1>1 DEF Got
<1> HIDE DEF o
<1> QED BY <1>3, <1>5, <1>6, Moves DEF IInv

\* A task that gets the content of a file it did not have.
LEMMA GotKeeps ==
  ASSUME IInv, NEW u \in Users, NEW y \in user[u].years, NEW points \in SUBSET Points,
         user[u].at \in {"next", "miss"}, ~upset => points = file[y], Got(u, y, points),
         UNCHANGED <<file, key, dirKey, dir, stored, upset>>
  PROVE  /\ Lists' /\ Alone' /\ Kept' /\ Carried' /\ Owed'
         /\ files' = files => Types' /\ Keyed' /\ CachedIsPresent'
<1>1. /\ user' \in [Users -> Operations] /\ \A v \in Users : Standing(user'[v])
      /\ user'[u].op = user[u].op /\ user'[u].at = "have" /\ user'[u].year = y
      /\ user'[u].years = user[u].years /\ user'[u].points = user[u].points
      /\ user'[u].got = user[u].got \cup points /\ user'[u].owed = user[u].owed
      /\ user'[u].torn = (user[u].torn \/ Rewriting(y))
      /\ \A v \in Users \ {u} : user'[v] = user[v]
  BY GotMoves
<1>2. Secure' = Secure
  <2>1. \A p : p \in Secure' <=> p \in Secure
    BY <1>1 DEF Secure
  <2> QED BY <2>1
<1>3. \A z : Rewriting(z)' <=> Rewriting(z)
  BY <1>1 DEF Rewriting, At
<1>4. ASSUME ~upset, NEW p \in Secure, YearOf[p] = y, Writing(u) \/ ~Rewriting(y)
      PROVE  p \in points
  <2>1. ASSUME NEW v \in Users, At(v, "torn", y) PROVE v # u /\ Writing(v) /\ y \in user[v].years
    BY <2>1 DEF IInv, Types, Standing, At, Writing
  <2>2. ~Rewriting(y)
    BY <2>1, <1>4 DEF IInv, Alone, Rewriting
  <2> QED BY <2>2, <1>4 DEF IInv, Kept
<1>5. Lists' /\ Alone' /\ Kept'
  BY <1>1, <1>2, <1>3 DEF IInv, Lists, Existing, Alone, Kept, Writing
<1>6. Carried'
  <2> SUFFICES ASSUME ~upset, NEW v \in Users, Writing(v)'
               PROVE  /\ user'[v].at \in {"have", "torn"} =>
                             \A p \in Secure : YearOf[p] = user'[v].year => p \in user'[v].got
                      /\ user'[v].at = "wrote" =>
                             file[user'[v].year] = OfYear(user'[v].got \cup user'[v].points, user'[v].year)
    BY <1>2 DEF Carried
  <2>1. CASE v = u
    BY <2>1, <1>1, <1>4 DEF Writing
  <2>2. CASE v # u
    BY <2>2, <1>1 DEF IInv, Carried, Writing
  <2> QED BY <2>1, <2>2
<1>7. Owed'
  <2> SUFFICES ASSUME ~upset, NEW v \in Users, user'[v].op = "get"
               PROVE  /\ user'[v].owed \subseteq stored
                      /\ ~user'[v].torn => \A p \in user'[v].owed :
                            \/ p \in user'[v].got
                            \/ YearOf[p] \in user'[v].years /\ ~At(v, "have", YearOf[p])'
    BY DEF Owed
  <2>1. CASE v = u
    <3>1. user[u].owed \subseteq stored
      BY <2>1, <1>1 DEF IInv, Owed
    <3>2. ASSUME ~user'[u].torn, NEW p \in user[u].owed
          PROVE  p \in user'[u].got \/ (YearOf[p] \in user[u].years /\ YearOf[p] # y)
      <4>1. ~user[u].torn /\ ~Rewriting(y)
        BY <1>1, <3>2
      <4>2. p \in user[u].got \/ YearOf[p] \in user[u].years
        BY <4>1, <2>1, <1>1, <3>2 DEF IInv, Owed
      <4>3. YearOf[p] = y => p \in points
        BY <4>1, <3>1, <3>2, <1>4 DEF Secure
      <4> QED BY <4>2, <4>3, <1>1
    <3> QED BY <2>1, <3>1, <3>2, <1>1 DEF At
  <2>2. CASE v # u
    BY <2>2, <1>1 DEF IInv, Owed, At
  <2> QED BY <2>1, <2>2
<1>8. ASSUME files' = files PROVE Types' /\ Keyed' /\ CachedIsPresent'
  <2>1. Types'
    BY <1>8, <1>1 DEF IInv, Types
  <2>2. Keyed'
    BY <1>8, <1>1 DEF IInv, Keyed
  <2>3. CachedIsPresent'
    BY <1>8 DEF IInv, CachedIsPresent
  <2> QED BY <2>1, <2>2, <2>3
<1> QED BY <1>5, <1>6, <1>7, <1>8

\* A year is looked for in the cache.
LEMMA LookupKeeps ==
  ASSUME IInv, NEW u \in Users, NEW y \in Years, Lookup(u, y)
  PROVE  IInv'
<1> DEFINE entry == files[StoreOf[u]][y]
<1>1. /\ user[u].op # "recompact" /\ user[u].at = "next" /\ y \in user[u].years
      /\ UNCHANGED <<file, key, dirKey, files, dir, stored, upset>>
      /\ StoreOf[u] \in Stores
  BY StoreAssumption DEF Lookup
<1>2. CASE entry # NoFile /\ entry.key = key[y]
  <2>1. Got(u, y, entry.points)
    BY <1>2 DEF Lookup
  <2>2. entry.points \in SUBSET Points
    BY <1>1, <1>2 DEF IInv, Types, In
  <2>3. ~upset => entry.points = file[y]
    BY <1>1, <1>2 DEF IInv, CachedIsPresent
  <2> QED BY <1>1, <2>1, <2>2, <2>3, GotKeeps DEF IInv
<1>3. CASE ~(entry # NoFile /\ entry.key = key[y])
  <2> DEFINE o == [user[u] EXCEPT !.at = "miss", !.year = y, !.key = key[y]]
  <2>1. user[u] \in Operations /\ Standing(user[u]) /\ user \in [Users -> Operations] /\ key[y] \in Keys
    BY DEF IInv, Types
  <2>2. /\ o \in Operations
        /\ o.op = user[u].op /\ o.at = "miss" /\ o.year = y /\ o.key = key[y]
        /\ o.years = user[u].years /\ o.points = user[u].points
        /\ o.got = user[u].got /\ o.owed = user[u].owed /\ o.torn = user[u].torn
    BY <2>1 DEF Operations, Stages
  <2>3. Standing(o)
    BY <1>1, <2>1, <2>2 DEF Standing
  <2>4. user' = [user EXCEPT ![u] = o]
    BY <1>3, <2>1 DEF Lookup
  <2> HIDE DEF o
  <2>5. /\ user' \in [Users -> Operations] /\ \A v \in Users : Standing(user'[v])
        /\ user'[u] = o /\ \A v \in Users \ {u} : user'[v] = user[v]
    BY <2>2, <2>3, <2>4, Moves DEF IInv
  <2>6. Secure' = Secure
    <3>1. \A p : p \in Secure' <=> p \in Secure
      BY <1>1, <2>2, <2>5 DEF Secure
    <3> QED BY <3>1
  <2>7. \A z : Rewriting(z)' <=> Rewriting(z)
    BY <1>1, <2>2, <2>5 DEF Rewriting, At
  <2>8. Types'
    BY <1>1, <2>5 DEF IInv, Types
  <2>9. Keyed'
    <3>1. NoLater(key[y], key[y])
      BY <2>1 DEF NoLater, Keys
    <3> QED BY <3>1, <1>1, <2>2, <2>5 DEF IInv, Keyed
  <2>10. Lists' /\ Kept' /\ CachedIsPresent'
    BY <1>1, <2>6, <2>7 DEF IInv, Lists, Existing, Kept, CachedIsPresent
  <2>11. Alone' /\ Carried'
    BY <1>1, <2>2, <2>5, <2>6 DEF IInv, Alone, Carried, Writing
  <2>12. Owed'
    BY <1>1, <2>2, <2>5 DEF IInv, Owed, At
  <2> QED BY <2>8, <2>9, <2>10, <2>11, <2>12 DEF IInv
<1> QED BY <1>2, <1>3

\* A year is read from its file.
LEMMA LoadKeeps ==
  ASSUME IInv, NEW u \in Users, NEW y \in Years, Load(u, y)
  PROVE  IInv'
<1>1. /\ user[u].at = "miss" /\ user[u].year = y /\ y \in user[u].years /\ file[y] \in SUBSET Points
      /\ UNCHANGED <<file, key, dirKey, dir, stored, upset>> /\ Got(u, y, file[y])
      /\ StoreOf[u] \in Stores
  BY StoreAssumption DEF Load, At, IInv, Types, Standing
<1>2. Lists' /\ Alone' /\ Kept' /\ Carried' /\ Owed'
  BY <1>1, GotKeeps
<1>3. /\ user' \in [Users -> Operations] /\ \A v \in Users : Standing(user'[v])
      /\ user'[u].at = "have" /\ \A v \in Users \ {u} : user'[v] = user[v]
  BY <1>1, GotMoves
<1> DEFINE e == [key |-> user[u].key, points |-> file[y]]
<1>4. /\ e \in [key : Keys, points : SUBSET Points] /\ e.points = file[y] /\ e.points \subseteq In(y)
      /\ e.key = user[u].key /\ NoLater(e.key, key[y])
  BY <1>1 DEF IInv, Types, Operations, Keyed
<1>5. files' = [files EXCEPT ![StoreOf[u]][y] = e]
  BY DEF Load
<1> HIDE DEF e
<1>6. /\ files' \in [Stores -> [Years -> {NoFile} \cup [key : Keys, points : SUBSET Points]]]
      /\ \A z \in Stores, x \in Years :
             files'[z][x] = files[z][x] \/ (x = y /\ files'[z][x] = e)
  BY <1>1, <1>4, <1>5 DEF IInv, Types
<1>7. Types'
  BY <1>1, <1>3, <1>4, <1>6 DEF IInv, Types
<1>8. Keyed'
  BY <1>1, <1>3, <1>4, <1>6 DEF IInv, Keyed
<1>9. CachedIsPresent'
  BY <1>1, <1>4, <1>6 DEF IInv, CachedIsPresent
<1> QED BY <1>2, <1>7, <1>8, <1>9 DEF IInv

\* A year is read to be compacted.
LEMMA RecompactReadKeeps ==
  ASSUME IInv, NEW u \in Users, NEW y \in Years, RecompactRead(u, y)
  PROVE  IInv'
<1>1. /\ user[u].at = "next" /\ y \in user[u].years /\ file[y] \in SUBSET Points
      /\ UNCHANGED <<file, key, dirKey, files, dir, stored, upset>> /\ Got(u, y, file[y])
  BY DEF RecompactRead, IInv, Types
<1> QED BY <1>1, GotKeeps DEF IInv

\* A task goes to another stage of the same file.
LEMMA GotoMoves ==
  ASSUME IInv, NEW u \in Users, NEW at \in {"torn", "wrote"}, NEW y \in user[u].years,
         user[u].op \in {"put", "recompact"}, Goto(u, at, y)
  PROVE  /\ user' \in [Users -> Operations] /\ \A v \in Users : Standing(user'[v])
         /\ user'[u].op = user[u].op /\ user'[u].at = at /\ user'[u].year = y
         /\ user'[u].years = user[u].years /\ user'[u].points = user[u].points
         /\ user'[u].got = user[u].got /\ user'[u].owed = user[u].owed
         /\ \A v \in Users \ {u} : user'[v] = user[v]
         /\ stored' = stored => Secure' = Secure
<1> DEFINE o == [user[u] EXCEPT !.at = at, !.year = y]
<1>1. user[u] \in Operations /\ Standing(user[u]) /\ user \in [Users -> Operations]
  BY DEF IInv, Types
<1>2. /\ o \in Operations
      /\ o.op = user[u].op /\ o.at = at /\ o.year = y
      /\ o.years = user[u].years /\ o.points = user[u].points
      /\ o.got = user[u].got /\ o.owed = user[u].owed
  BY <1>1 DEF Operations, Stages
<1>3. Standing(o)
  BY <1>1, <1>2 DEF Standing
<1>4. user' = [user EXCEPT ![u] = o]
  BY <1>1 DEF Goto
<1> HIDE DEF o
<1>5. /\ user' \in [Users -> Operations] /\ \A v \in Users : Standing(user'[v])
      /\ user'[u] = o /\ \A v \in Users \ {u} : user'[v] = user[v]
  BY <1>2, <1>3, <1>4, Moves DEF IInv
<1>6. ASSUME stored' = stored PROVE Secure' = Secure
  <2>1. \A p : p \in Secure' <=> p \in Secure
    BY <1>2, <1>5, <1>6 DEF Secure
  <2> QED BY <2>1
<1> QED BY <1>2, <1>5, <1>6

\* Who writes a year is the only one who is in its file to write it.
LEMMA OneWriter ==
  ASSUME IInv, ~upset, NEW u \in Users, Writing(u), NEW y \in user[u].years,
         NEW v \in Users, Writing(v), user[v].at \in {"miss", "have", "torn", "wrote"},
         user[v].year = y
  PROVE  v = u
BY DEF IInv, Types, Standing, Alone

\* A file is emptied before it is written anew; its points are with the writer.
LEMMA TruncateKeeps ==
  ASSUME IInv, NEW u \in Users, NEW y \in Years, Truncate(u, y)
  PROVE  IInv'
<1>1. /\ user[u].op \in {"put", "recompact"} /\ user[u].at = "have" /\ user[u].year = y
      /\ y \in user[u].years /\ Writing(u)
  BY DEF Truncate, At, IInv, Types, Operations, Standing, Writing
<1>2. /\ file' = [file EXCEPT ![y] = {}] /\ key' = [key EXCEPT ![y] = Fresh(key[y])]
      /\ dirKey' = IF key[y] = NoFile THEN Fresh(dirKey) ELSE dirKey
      /\ UNCHANGED <<files, dir, stored, upset>> /\ Goto(u, "torn", y)
  BY DEF Truncate
<1>3. /\ user' \in [Users -> Operations] /\ \A v \in Users : Standing(user'[v])
      /\ user'[u].op = user[u].op /\ user'[u].at = "torn" /\ user'[u].year = y
      /\ user'[u].years = user[u].years /\ user'[u].points = user[u].points
      /\ user'[u].got = user[u].got /\ user'[u].owed = user[u].owed
      /\ \A v \in Users \ {u} : user'[v] = user[v]
      /\ Secure' = Secure
  BY <1>1, <1>2, GotoMoves
<1>4. /\ file \in [Years -> SUBSET Points] /\ key \in [Years -> Keys] /\ dirKey \in Keys
      /\ key[y] \in Keys
  BY DEF IInv, Types
<1>5. /\ Fresh(key[y]) \in Keys /\ Fresh(key[y]) # NoFile
      /\ \A l \in Keys : NoLater(l, key[y]) => NoLater(l, Fresh(key[y])) /\ l # Fresh(key[y])
      /\ Fresh(dirKey) \in Keys
      /\ \A l \in Keys : NoLater(l, dirKey) => NoLater(l, Fresh(dirKey)) /\ l # Fresh(dirKey)
  BY <1>4, FreshKeys
<1>6. /\ key' \in [Years -> Keys] /\ key'[y] = Fresh(key[y]) /\ \A x \in Years \ {y} : key'[x] = key[x]
      /\ file' \in [Years -> SUBSET Points] /\ file'[y] = {} /\ \A x \in Years \ {y} : file'[x] = file[x]
      /\ dirKey' \in Keys
  BY <1>2, <1>4, <1>5
<1>7. Types'
  BY <1>2, <1>3, <1>6 DEF IInv, Types
<1>8. Keyed'
  <2>1. \A s \in Stores, x \in Years : files[s][x] # NoFile => NoLater(files[s][x].key, key'[x])
    BY <1>5, <1>6 DEF IInv, Types, Keyed
  <2>2. \A v \in Users : user'[v].at = "miss" => NoLater(user'[v].key, key'[user'[v].year])
    <3>1. \A v \in Users : user[v].at = "miss" => user[v].year \in Years /\ user[v].key \in Keys
      BY DEF IInv, Types, Operations, Standing
    <3> QED BY <3>1, <1>3, <1>5, <1>6 DEF IInv, Keyed
  <2>3. \A s \in Stores : dir[s] # NoFile => NoLater(dir[s].key, dirKey')
    BY <1>2, <1>5 DEF IInv, Types, Keyed
  <2>4. \A x \in Years : file'[x] # {} => key'[x] # NoFile
    BY <1>6 DEF IInv, Keyed
  <2>5. \A v \in Users : user'[v].at \in {"torn", "wrote"} => key'[user'[v].year] # NoFile
    <3>1. \A v \in Users : user[v].at \in {"torn", "wrote"} => user[v].year \in Years
      BY DEF IInv, Types, Operations, Standing
    <3> QED BY <3>1, <1>3, <1>5, <1>6 DEF IInv, Keyed
  <2> QED BY <2>1, <2>2, <2>3, <2>4, <2>5, <1>2 DEF Keyed
<1>9. Lists'
  <2> SUFFICES ASSUME NEW s \in Stores, dir[s] # NoFile, dir[s].key = dirKey'
               PROVE  dir[s].years = Existing'
    BY <1>2 DEF Lists
  <2>1. key[y] # NoFile /\ dirKey' = dirKey
    BY <1>2, <1>5 DEF IInv, Types, Keyed
  <2>2. Existing' = Existing
    <3>1. \A x : x \in Existing' <=> x \in Existing
      BY <2>1, <1>5, <1>6 DEF Existing
    <3> QED BY <3>1
  <2> QED BY <2>1, <2>2 DEF IInv, Lists
<1>10. Alone'
  BY <1>2, <1>3 DEF IInv, Alone, Writing
<1>11. Kept'
  <2>1. \A z : Rewriting(z) => Rewriting(z)'
    BY <1>1, <1>3 DEF Rewriting, At
  <2>2. Rewriting(y)'
    BY <1>3 DEF Rewriting, At
  <2>3. \A p \in Secure : p \in Points /\ YearOf[p] \in Years
    BY StoreAssumption DEF Secure, IInv, Types, Operations
  <2> QED BY <2>1, <2>2, <2>3, <1>2, <1>3, <1>6 DEF IInv, Kept
<1>12. Carried'
  <2> SUFFICES ASSUME ~upset, NEW v \in Users, Writing(v)'
               PROVE  /\ user'[v].at \in {"have", "torn"} =>
                             \A p \in Secure : YearOf[p] = user'[v].year => p \in user'[v].got
                      /\ user'[v].at = "wrote" =>
                             file'[user'[v].year] = OfYear(user'[v].got \cup user'[v].points, user'[v].year)
    BY <1>2, <1>3 DEF Carried
  <2>1. CASE v = u
    BY <2>1, <1>1, <1>3 DEF IInv, Carried, Writing
  <2>2. CASE v # u
    <3>1. Writing(v) /\ user'[v] = user[v]
      BY <2>2, <1>3 DEF Writing
    <3>2. user[v].at = "wrote" => user[v].year \in Years \ {y}
      BY <2>2, <3>1, <1>1, OneWriter DEF IInv, Types, Operations, Standing
    <3> QED BY <3>1, <3>2, <1>6 DEF IInv, Carried
  <2> QED BY <2>1, <2>2
<1>13. Owed'
  BY <1>1, <1>2, <1>3 DEF IInv, Owed, At
<1>14. CachedIsPresent'
  BY <1>2, <1>5, <1>6 DEF IInv, Types, Keyed, CachedIsPresent
<1> QED BY <1>7, <1>8, <1>9, <1>10, <1>11, <1>12, <1>13, <1>14 DEF IInv

\* A file is written.
LEMMA write_jsonlKeeps ==
  ASSUME IInv, NEW u \in Users, NEW y \in Years, write_jsonl(u, y)
  PROVE  IInv'
<1>1. /\ user[u].op \in {"put", "recompact"} /\ user[u].at = "torn" /\ user[u].year = y
      /\ y \in user[u].years /\ Writing(u) /\ key[y] # NoFile
      /\ user[u].got \subseteq Points /\ user[u].points \subseteq Points
  BY DEF write_jsonl, At, IInv, Types, Operations, Standing, Writing, Keyed
<1> DEFINE content == OfYear(user[u].got \cup user[u].points, y)
<1>2. /\ file' = [file EXCEPT ![y] = content] /\ key' = [key EXCEPT ![y] = Fresh(key[y])]
      /\ UNCHANGED <<dirKey, files, dir, stored, upset>> /\ Goto(u, "wrote", y)
  BY DEF write_jsonl
<1>3. /\ user' \in [Users -> Operations] /\ \A v \in Users : Standing(user'[v])
      /\ user'[u].op = user[u].op /\ user'[u].at = "wrote" /\ user'[u].year = y
      /\ user'[u].years = user[u].years /\ user'[u].points = user[u].points
      /\ user'[u].got = user[u].got /\ user'[u].owed = user[u].owed
      /\ \A v \in Users \ {u} : user'[v] = user[v]
      /\ Secure' = Secure
  BY <1>1, <1>2, GotoMoves
<1>4. /\ file \in [Years -> SUBSET Points] /\ key \in [Years -> Keys] /\ key[y] \in Keys
      /\ content \subseteq In(y) /\ content \subseteq Points
  BY <1>1 DEF IInv, Types, OfYear, In
<1>5. /\ Fresh(key[y]) \in Keys /\ Fresh(key[y]) # NoFile
      /\ \A l \in Keys : NoLater(l, key[y]) => NoLater(l, Fresh(key[y])) /\ l # Fresh(key[y])
  BY <1>4, FreshKeys
<1>6. /\ key' \in [Years -> Keys] /\ key'[y] = Fresh(key[y]) /\ \A x \in Years \ {y} : key'[x] = key[x]
      /\ file' \in [Years -> SUBSET Points] /\ file'[y] = content
      /\ \A x \in Years \ {y} : file'[x] = file[x]
  BY <1>2, <1>4, <1>5
<1> HIDE DEF content
<1>7. Types'
  <2>1. \A x \in Years : file'[x] \subseteq In(x)
    BY <1>4, <1>6 DEF IInv, Types
  <2> QED BY <2>1, <1>2, <1>3, <1>6 DEF IInv, Types
<1>8. Keyed'
  <2>1. \A s \in Stores, x \in Years : files[s][x] # NoFile => NoLater(files[s][x].key, key'[x])
    BY <1>5, <1>6 DEF IInv, Types, Keyed
  <2>2. \A v \in Users : user'[v].at = "miss" => NoLater(user'[v].key, key'[user'[v].year])
    <3>1. \A v \in Users : user[v].at = "miss" => user[v].year \in Years /\ user[v].key \in Keys
      BY DEF IInv, Types, Operations, Standing
    <3> QED BY <3>1, <1>3, <1>5, <1>6 DEF IInv, Keyed
  <2>3. \A x \in Years : file'[x] # {} => key'[x] # NoFile
    BY <1>5, <1>6 DEF IInv, Keyed
  <2>4. \A v \in Users : user'[v].at \in {"torn", "wrote"} => key'[user'[v].year] # NoFile
    <3>1. \A v \in Users : user[v].at \in {"torn", "wrote"} => user[v].year \in Years
      BY DEF IInv, Types, Operations, Standing
    <3> QED BY <3>1, <1>3, <1>5, <1>6 DEF IInv, Keyed
  <2> QED BY <2>1, <2>2, <2>3, <2>4, <1>2 DEF IInv, Keyed
<1>9. Lists'
  <2>1. Existing' = Existing
    <3>1. \A x : x \in Existing' <=> x \in Existing
      BY <1>1, <1>5, <1>6 DEF Existing
    <3> QED BY <3>1
  <2> QED BY <2>1, <1>2 DEF IInv, Lists
<1>10. Alone'
  BY <1>2, <1>3 DEF IInv, Alone, Writing
<1>11. Kept'
  <2> SUFFICES ASSUME ~upset, NEW p \in Secure PROVE p \in file'[YearOf[p]] \/ Rewriting(YearOf[p])'
    BY <1>2, <1>3 DEF Kept
  <2>1. p \in Points /\ YearOf[p] \in Years
    BY StoreAssumption DEF Secure, IInv, Types, Operations
  <2>2. CASE YearOf[p] = y
    <3>1. p \in user[u].got
      BY <2>2, <1>1 DEF IInv, Carried
    <3> QED BY <3>1, <2>2, <1>6 DEF content, OfYear
  <2>3. CASE YearOf[p] # y
    <3>1. Rewriting(YearOf[p]) => Rewriting(YearOf[p])'
      BY <2>3, <1>1, <1>3 DEF Rewriting, At
    <3> QED BY <3>1, <2>1, <2>3, <1>6 DEF IInv, Kept
  <2> QED BY <2>2, <2>3
<1>12. Carried'
  <2> SUFFICES ASSUME ~upset, NEW v \in Users, Writing(v)'
               PROVE  /\ user'[v].at \in {"have", "torn"} =>
                             \A p \in Secure : YearOf[p] = user'[v].year => p \in user'[v].got
                      /\ user'[v].at = "wrote" =>
                             file'[user'[v].year] = OfYear(user'[v].got \cup user'[v].points, user'[v].year)
    BY <1>2, <1>3 DEF Carried
  <2>1. CASE v = u
    BY <2>1, <1>3, <1>6 DEF content
  <2>2. CASE v # u
    <3>1. Writing(v) /\ user'[v] = user[v]
      BY <2>2, <1>3 DEF Writing
    <3>2. user[v].at = "wrote" => user[v].year \in Years \ {y}
      BY <2>2, <3>1, <1>1, OneWriter DEF IInv, Types, Operations, Standing
    <3> QED BY <3>1, <3>2, <1>6 DEF IInv, Carried
  <2> QED BY <2>1, <2>2
<1>13. Owed'
  BY <1>1, <1>2, <1>3 DEF IInv, Owed, At
<1>14. CachedIsPresent'
  BY <1>2, <1>5, <1>6 DEF IInv, Types, Keyed, CachedIsPresent
<1> QED BY <1>7, <1>8, <1>9, <1>10, <1>11, <1>12, <1>13, <1>14 DEF IInv

\* A task is through with a year.
Done(u, y) ==
    user' = [user EXCEPT ![u].at = "next", ![u].year = NoFile, ![u].key = NoFile,
                         ![u].years = @ \ {y}]

\* A year is done.
LEMMA DoneMoves ==
  ASSUME IInv, NEW u \in Users, NEW y \in user[u].years,
         Done(u, y)
  PROVE  /\ user' \in [Users -> Operations] /\ \A v \in Users : Standing(user'[v])
         /\ user'[u].op = user[u].op /\ user'[u].at = "next"
         /\ user'[u].years = user[u].years \ {y} /\ user'[u].points = user[u].points
         /\ user'[u].got = user[u].got /\ user'[u].owed = user[u].owed
         /\ user'[u].torn = user[u].torn
         /\ \A v \in Users \ {u} : user'[v] = user[v]
         /\ stored' = stored => \A p : p \in Secure' <=>
                p \in Secure \/ (p \in user[u].points /\ YearOf[p] = y)
<1> DEFINE o == [user[u] EXCEPT !.at = "next", !.year = NoFile, !.key = NoFile, !.years = @ \ {y}]
<1>1. user[u] \in Operations /\ Standing(user[u]) /\ user \in [Users -> Operations]
  BY DEF IInv, Types
<1>2. /\ o \in Operations
      /\ o.op = user[u].op /\ o.at = "next"
      /\ o.years = user[u].years \ {y} /\ o.points = user[u].points
      /\ o.got = user[u].got /\ o.owed = user[u].owed /\ o.torn = user[u].torn
  BY <1>1 DEF Operations, Stages, Keys
<1>3. Standing(o)
  BY <1>1, <1>2 DEF Standing
<1>4. user' = [user EXCEPT ![u] = o]
  BY <1>1 DEF Done
<1> HIDE DEF o
<1>5. /\ user' \in [Users -> Operations] /\ \A v \in Users : Standing(user'[v])
      /\ user'[u] = o /\ \A v \in Users \ {u} : user'[v] = user[v]
  BY <1>2, <1>3, <1>4, Moves DEF IInv
<1>6. ASSUME stored' = stored, NEW p
      PROVE  p \in Secure' <=> p \in Secure \/ (p \in user[u].points /\ YearOf[p] = y)
  BY <1>2, <1>5, <1>6 DEF Secure
<1> QED BY <1>2, <1>5, <1>6

\* A task that is through with a year, when the year has what it is to have.
LEMMA DoneKeeps ==
  ASSUME IInv, NEW u \in Users, NEW y \in user[u].years,
         Done(u, y),
         user[u].at \in {"have", "wrote"}, At(u, user[u].at, y),
         Writing(u) => user[u].at = "wrote",
         UNCHANGED <<file, key, dirKey, stored, upset>>
  PROVE  /\ Alone' /\ Kept' /\ Carried' /\ Owed'
         /\ UNCHANGED <<files, dir>> => Types' /\ Keyed' /\ Lists' /\ CachedIsPresent'
<1>1. /\ user' \in [Users -> Operations] /\ \A v \in Users : Standing(user'[v])
      /\ user'[u].op = user[u].op /\ user'[u].at = "next"
      /\ user'[u].years = user[u].years \ {y} /\ user'[u].points = user[u].points
      /\ user'[u].got = user[u].got /\ user'[u].owed = user[u].owed
      /\ user'[u].torn = user[u].torn
      /\ \A v \in Users \ {u} : user'[v] = user[v]
      /\ \A p : p \in Secure' <=> p \in Secure \/ (p \in user[u].points /\ YearOf[p] = y)
  BY DoneMoves
<1>2. Alone'
  BY <1>1 DEF IInv, Alone, Writing
<1>3. user[u].points # {} => Writing(u) /\ user[u].at = "wrote"
  BY DEF IInv, Types, Standing, Writing
<1>4. Kept'
  <2>1. \A z : Rewriting(z) => Rewriting(z)'
    BY <1>1 DEF Rewriting, At
  <2>2. ASSUME ~upset, NEW p \in user[u].points, YearOf[p] = y PROVE p \in file[y]
    BY <2>2, <1>3 DEF IInv, Carried, At, OfYear
  <2> QED BY <2>1, <2>2, <1>1 DEF IInv, Kept
<1>5. Carried'
  <2> SUFFICES ASSUME ~upset, NEW v \in Users, Writing(v)'
               PROVE  /\ user'[v].at \in {"have", "torn"} =>
                             \A p \in Secure' : YearOf[p] = user'[v].year => p \in user'[v].got
                      /\ user'[v].at = "wrote" =>
                             file[user'[v].year] = OfYear(user'[v].got \cup user'[v].points, user'[v].year)
    BY DEF Carried
  <2>1. CASE v = u
    BY <2>1, <1>1
  <2>2. CASE v # u
    <3>1. Writing(v) /\ user'[v] = user[v]
      BY <2>2, <1>1 DEF Writing
    <3>2. ASSUME user[v].at \in {"have", "torn"}, user[u].points # {} PROVE user[v].year # y
      BY <2>2, <3>1, <3>2, <1>3, OneWriter
    <3>3. ASSUME user[v].at \in {"have", "torn"}, NEW p \in Secure', YearOf[p] = user[v].year
          PROVE  p \in user[v].got
      <4>1. p \in Secure
        BY <3>2, <3>3, <1>1
      <4> QED BY <4>1, <3>1, <3>3 DEF IInv, Carried
    <3>4. user[v].at = "wrote" =>
              file[user[v].year] = OfYear(user[v].got \cup user[v].points, user[v].year)
      BY <3>1 DEF IInv, Carried
    <3> QED BY <3>1, <3>3, <3>4
  <2> QED BY <2>1, <2>2
<1>6. Owed'
  <2>1. user'[u].op = "get" /\ ~upset => user[u].at = "have" /\ user[u].year = y
    BY <1>1 DEF IInv, Types, Standing, At
  <2> QED BY <2>1, <1>1 DEF IInv, Owed, At
<1>7. ASSUME UNCHANGED <<files, dir>> PROVE Types' /\ Keyed' /\ Lists' /\ CachedIsPresent'
  <2>1. Types'
    BY <1>1, <1>7 DEF IInv, Types
  <2>2. Keyed'
    BY <1>1, <1>7 DEF IInv, Keyed
  <2>3. Lists' /\ CachedIsPresent'
    BY <1>7 DEF IInv, Lists, Existing, CachedIsPresent
  <2> QED BY <2>1, <2>2, <2>3
<1> QED BY <1>2, <1>4, <1>5, <1>6, <1>7

\* A year that was read, or is compacted, is done.
LEMMA NextYearKeeps ==
  ASSUME IInv, NEW u \in Users, NEW y \in Years, NextYear(u, y)
  PROVE  IInv'
<1>1. /\ y \in user[u].years /\ user[u].at \in {"have", "wrote"} /\ At(u, user[u].at, y)
      /\ Writing(u) => user[u].at = "wrote"
  BY DEF NextYear, At, IInv, Types, Standing, Writing
<1>2. Done(u, y) /\ UNCHANGED <<file, key, dirKey, files, dir, stored, upset>>
  BY DEF NextYear, Done
<1> QED BY <1>1, <1>2, DoneKeeps DEF IInv

\* A year is put into the cache.
LEMMA cache_price_fileKeeps ==
  ASSUME IInv, NEW u \in Users, NEW y \in Years, cache_price_file(u, y)
  PROVE  IInv'
<1>1. /\ y \in user[u].years /\ user[u].at = "wrote" /\ At(u, user[u].at, y) /\ Writing(u)
      /\ user[u].year = y /\ user[u].got \subseteq Points /\ user[u].points \subseteq Points
      /\ StoreOf[u] \in Stores /\ key[y] \in Keys
  BY StoreAssumption DEF cache_price_file, At, IInv, Types, Operations, Standing, Writing
<1>2. Done(u, y) /\ UNCHANGED <<file, key, dirKey, stored, upset>>
  BY DEF cache_price_file, Done
<1>3. Alone' /\ Kept' /\ Carried' /\ Owed'
  BY <1>1, <1>2, DoneKeeps
<1>4. /\ user' \in [Users -> Operations] /\ \A v \in Users : Standing(user'[v])
      /\ user'[u].at = "next" /\ \A v \in Users \ {u} : user'[v] = user[v]
  BY <1>1, <1>2, DoneMoves
<1> DEFINE e == [key |-> key[y], points |-> OfYear(user[u].got \cup user[u].points, y)]
<1>5. /\ e \in [key : Keys, points : SUBSET Points] /\ e.points \subseteq In(y) /\ e.key = key[y]
      /\ ~upset => e.points = file[y]
  BY <1>1 DEF OfYear, In, IInv, Carried
<1>6. files' = [files EXCEPT ![StoreOf[u]][y] = e] /\ dir' = [dir EXCEPT ![StoreOf[u]] = NoFile]
  BY DEF cache_price_file
<1> HIDE DEF e
<1>7. /\ files' \in [Stores -> [Years -> {NoFile} \cup [key : Keys, points : SUBSET Points]]]
      /\ \A z \in Stores, x \in Years :
             files'[z][x] = files[z][x] \/ (x = y /\ files'[z][x] = e)
      /\ dir' \in [Stores -> {NoFile} \cup [key : Keys, years : SUBSET Years]]
      /\ \A z \in Stores : dir'[z] = dir[z] \/ dir'[z] = NoFile
  BY <1>1, <1>5, <1>6 DEF IInv, Types
<1>8. Types'
  <2>1. \A s \in Stores, x \in Years : files'[s][x] # NoFile => files'[s][x].points \subseteq In(x)
    BY <1>5, <1>7 DEF IInv, Types
  <2> QED BY <2>1, <1>2, <1>4, <1>7 DEF IInv, Types
<1>9. Keyed'
  <2>1. NoLater(key[y], key[y])
    BY <1>1 DEF NoLater, Keys
  <2> QED BY <2>1, <1>2, <1>4, <1>5, <1>7 DEF IInv, Keyed
<1>10. Lists'
  BY <1>2, <1>7 DEF IInv, Lists, Existing
<1>11. CachedIsPresent'
  BY <1>2, <1>5, <1>7 DEF IInv, CachedIsPresent
<1> QED BY <1>3, <1>8, <1>9, <1>10, <1>11 DEF IInv

\* Tasks that stop where they were not in a file to write it, and caches that are emptied.
LEMMA StopKeeps ==
  ASSUME IInv, NEW S \in SUBSET Users,
         user' = [v \in Users |-> IF v \in S THEN Idle ELSE user[v]],
         upset => upset', upset' \in BOOLEAN,
         ~upset' => \A v \in S : user[v].at \notin {"torn", "wrote"},
         stored' \subseteq Secure, stored \subseteq stored',
         UNCHANGED <<file, key, dirKey>>,
         files' \in [Stores -> [Years -> {NoFile} \cup [key : Keys, points : SUBSET Points]]],
         \A z \in Stores, x \in Years : files'[z][x] \in {files[z][x], NoFile},
         dir' \in [Stores -> {NoFile} \cup [key : Keys, years : SUBSET Years]],
         \A z \in Stores : dir'[z] \in {dir[z], NoFile}
  PROVE  IInv'
<1>1. Idle \in Operations /\ Standing(Idle)
  BY DEF Operations, Idle, Standing, Stages, Keys
<1>2. /\ user' \in [Users -> Operations] /\ \A v \in Users : Standing(user'[v])
      /\ \A v \in S : user'[v] = Idle
      /\ \A v \in Users \ S : user'[v] = user[v]
  BY <1>1 DEF IInv, Types
<1>3. /\ Idle.op = "none" /\ Idle.at = "idle" /\ Idle.points = {}
  BY DEF Idle
<1>4. \A p \in Secure' : p \in Secure
  BY <1>2, <1>3 DEF Secure
<1>5. Secure \subseteq Points
  BY DEF Secure, IInv, Types, Operations
<1>6. Types'
  BY <1>2, <1>5 DEF IInv, Types
<1>7. Keyed'
  BY <1>2, <1>3 DEF IInv, Keyed
<1>8. Lists' /\ CachedIsPresent'
  BY DEF IInv, Lists, Existing, CachedIsPresent
<1>9. Alone'
  BY <1>2, <1>3 DEF IInv, Alone, Writing
<1>10. Kept'
  <2>1. ~upset' => \A y : Rewriting(y) => Rewriting(y)'
    BY <1>2 DEF Rewriting, At
  <2> QED BY <2>1, <1>4 DEF IInv, Kept
<1>11. Carried'
  BY <1>2, <1>3, <1>4 DEF IInv, Carried, Writing
<1>12. Owed'
  BY <1>2, <1>3 DEF IInv, Owed, At
<1> QED BY <1>6, <1>7, <1>8, <1>9, <1>10, <1>11, <1>12 DEF IInv

\* A use is over.
LEMMA FinishKeeps ==
  ASSUME IInv, NEW u \in Users, Finish(u)
  PROVE  IInv'
<1> DEFINE S == {u}
<1>1. user[u].at = "next" /\ user[u].years = {}
  BY DEF Finish, Through
<1>2. stored' = stored \cup user[u].points /\ UNCHANGED <<file, key, dirKey, upset>>
  BY DEF Finish
<1>3. user' = [v \in Users |-> IF v \in S THEN Idle ELSE user[v]]
  BY DEF Finish, IInv, Types
<1>4. stored \subseteq stored' /\ stored' \subseteq Secure
  BY <1>1, <1>2 DEF Secure
<1>5. /\ files' \in [Stores -> [Years -> {NoFile} \cup [key : Keys, points : SUBSET Points]]]
      /\ \A z \in Stores, x \in Years : files'[z][x] \in {files[z][x], NoFile}
      /\ dir' \in [Stores -> {NoFile} \cup [key : Keys, years : SUBSET Years]]
      /\ \A z \in Stores : dir'[z] \in {dir[z], NoFile}
  <2>1. CASE user[u].op = "recompact"
    <3>1. /\ files' = [files EXCEPT ![StoreOf[u]] = [y \in Years |-> NoFile]]
          /\ dir' = [dir EXCEPT ![StoreOf[u]] = NoFile]
      BY <2>1 DEF Finish
    <3> QED BY <3>1 DEF IInv, Types
  <2>2. CASE user[u].op # "recompact"
    BY <2>2 DEF Finish, IInv, Types
  <2> QED BY <2>1, <2>2
<1>6. upset' \in BOOLEAN
  BY <1>2 DEF IInv, Types
<1>7. S \in SUBSET Users /\ \A v \in S : user[v].at = "next"
  BY <1>1
<1> HIDE DEF S
<1> QED BY <1>2, <1>3, <1>4, <1>5, <1>6, <1>7, StopKeeps

\* The process of a user ends in the middle.
LEMMA CrashKeeps ==
  ASSUME IInv, NEW u \in Users, Crash(u)
  PROVE  IInv'
<1> DEFINE S == {v \in Users : StoreOf[v] = StoreOf[u]}
<1>1. user' = [v \in Users |-> IF v \in S THEN Idle ELSE user[v]]
  BY DEF Crash
<1>2. upset' \in BOOLEAN /\ (upset => upset')
  BY DEF Crash, IInv, Types
<1>3. ~upset' => \A v \in S : user[v].at \notin {"torn", "wrote"}
  BY DEF Crash, IInv, Types, Standing
<1>4. stored' = stored /\ stored \subseteq Secure /\ UNCHANGED <<file, key, dirKey>>
  BY DEF Crash, Secure
<1>5. /\ files' \in [Stores -> [Years -> {NoFile} \cup [key : Keys, points : SUBSET Points]]]
      /\ \A z \in Stores, x \in Years : files'[z][x] \in {files[z][x], NoFile}
      /\ dir' \in [Stores -> {NoFile} \cup [key : Keys, years : SUBSET Years]]
      /\ \A z \in Stores : dir'[z] \in {dir[z], NoFile}
  BY DEF Crash, IInv, Types
<1> HIDE DEF S
<1>6. S \in SUBSET Users
  BY DEF S
<1> QED BY <1>1, <1>2, <1>3, <1>4, <1>5, <1>6, StopKeeps

\* Every step keeps the invariant.
LEMMA NextKeeps == IInv /\ [StoreNext]_storeVars => IInv'
<1> SUFFICES ASSUME IInv, [StoreNext]_storeVars PROVE IInv'
  OBVIOUS
<1>1. ASSUME NEW u \in Users, put_prices(u) \/ recompact(u) \/ get_all_prices(u) \/ Finish(u) \/ Crash(u)
      PROVE  IInv'
  BY <1>1, put_pricesKeeps, recompactKeeps, get_all_pricesKeeps, FinishKeeps, CrashKeeps
<1>2. ASSUME NEW u \in Users, NEW y \in Years,
             Lookup(u, y) \/ Load(u, y) \/ RecompactRead(u, y) \/ Truncate(u, y)
      PROVE  IInv'
  BY <1>2, LookupKeeps, LoadKeeps, RecompactReadKeeps, TruncateKeeps
<1>3. ASSUME NEW u \in Users, NEW y \in Years,
             write_jsonl(u, y) \/ cache_price_file(u, y) \/ NextYear(u, y)
      PROVE  IInv'
  BY <1>3, write_jsonlKeeps, cache_price_fileKeeps, NextYearKeeps
<1>4. CASE UNCHANGED storeVars
  <2> USE <1>4 DEF storeVars
  <2>1. Types' /\ Keyed' /\ Lists' /\ Alone'
    BY DEF IInv, Types, Keyed, Lists, Existing, Alone, Writing
  <2>2. Secure' = Secure
    BY DEF Secure
  <2>3. Kept' /\ Carried' /\ Owed' /\ CachedIsPresent'
    BY <2>2 DEF IInv, Kept, Rewriting, At, Carried, Writing, Owed, CachedIsPresent
  <2> QED BY <2>1, <2>3 DEF IInv
<1> QED BY <1>1, <1>2, <1>3, <1>4 DEF StoreNext

\* The invariant of the market data files.
THEOREM StoreInvariant == StoreSpec => []IInv
<1> QED BY InitHolds, NextKeeps, PTL DEF StoreSpec

\* The variables keep their types: a cached file holds points of its year only.
THEOREM StoreTypes == StoreSpec => []StoreTypeOK
<1>1. IInv => StoreTypeOK
  <2>1. \A k \in Keys : k \in Nat \cup {NoFile}
    BY DEF Keys
  <2> QED BY <2>1 DEF IInv, Types, StoreTypeOK, In
<1> QED BY <1>1, StoreInvariant, PTL

\* What put_prices has returned for stays in its file, whatever stores, caches and years
\* there are and whichever tasks read, write and recompact them, and a reader gets all of
\* it -- as long as no two writers have met in a file and none was cut short.
THEOREM StoredPointsStay == StoreSpec => []NothingStoredLost
<1>1. IInv => StoredStays
  BY DEF IInv, Kept, Secure, StoredStays
<1>2. IInv => ReadsAllStored
  BY DEF IInv, Owed, ReadsAllStored, Through
<1>3. IInv => NothingStoredLost
  BY <1>1, <1>2 DEF IInv, NothingStoredLost
<1> QED BY <1>3, StoreInvariant, PTL

(***************************************************************************)
(* The choice of a point, for any configuration, sources, days and times.  *)
(* That a look-up comes to the latest point within its reach needs that    *)
(* there is one: points are ordered by date, time and kind, those at hand  *)
(* were taken by now, so their dates and times have a bound.  Every answer *)
(* is then a stored point a look-up comes to, or was fetched just now and  *)
(* is put with the rest before anybody looks again.                        *)
(***************************************************************************)

\* A set of natural numbers has a least element, one of integers with a bound below too.
LEMMA LeastNumber ==
  ASSUME NEW T, T \subseteq Nat, T # {}
  PROVE  \E m \in T : \A k \in T : m <= k
<1> DEFINE R == {ss \in Nat \X Nat : ss[1] < ss[2]}
<1>1. IsWellFoundedOn(R, Nat)
  BY NatLessThanWellFounded DEF OpToRel
<1> HIDE DEF R
<1>2. PICK m \in T : \A k \in T : ~(<<k, m>> \in R)
  BY <1>1, WFMin
<1>3. ASSUME NEW k \in T PROVE m <= k
  <2>1. k \in Nat /\ m \in Nat /\ <<k, m>> \in Nat \X Nat
    OBVIOUS
  <2>2. ~(k < m)
    BY <1>2, <2>1 DEF R
  <2> QED BY <2>1, <2>2
<1> QED BY <1>3

\* Integers with a bound below have a first one.
LEMMA LeastInteger ==
  ASSUME NEW T, T \subseteq Int, T # {}, NEW b \in Int, \A k \in T : b <= k
  PROVE  \E m \in T : FirstOf(T) = {m} /\ \A k \in T : m <= k
<1> DEFINE U == {k - b : k \in T}
<1>1. U \subseteq Nat /\ U # {}
  <2>1. \A k \in T : k - b \in Nat
    OBVIOUS
  <2> QED BY <2>1
<1>2. PICK u \in U : \A v \in U : u <= v
  BY <1>1, LeastNumber
<1>3. PICK m \in T : u = m - b
  BY <1>2
<1>4. \A k \in T : m - b <= k - b
  BY <1>2, <1>3
<1>5. \A k \in T : m <= k
  BY <1>4
<1>6. FirstOf(T) = {m}
  <2>1. \A k \in T : k <= m => k = m
    BY <1>5
  <2> QED BY <1>5, <2>1 DEF FirstOf
<1> QED BY <1>5, <1>6

\* What is compared by a first number, then a second, then a third, has a least element.
NotAfter(a, b, c, m, q) == \/ a[m] < a[q]
                           \/ a[m] = a[q] /\ b[m] < b[q]
                           \/ a[m] = a[q] /\ b[m] = b[q] /\ c[m] <= c[q]

\* Of things ordered by one number, then by another, then by a third, there is a first.
LEMMA LeastOfThree ==
  ASSUME NEW P, P # {}, NEW a \in [P -> Nat], NEW b \in [P -> Nat], NEW c \in [P -> Nat]
  PROVE  \E m \in P : \A q \in P : NotAfter(a, b, c, m, q)
<1>1. PICK i \in {a[p] : p \in P} : \A k \in {a[p] : p \in P} : i <= k
  <2>1. {a[p] : p \in P} \subseteq Nat /\ {a[p] : p \in P} # {}
    OBVIOUS
  <2> QED BY <2>1, LeastNumber
<1> DEFINE A == {p \in P : a[p] = i}
<1>2. A # {} /\ \A p \in P : i <= a[p] /\ (p \in A \/ i < a[p])
  <2>1. \A p \in P : i <= a[p] /\ i \in Nat /\ a[p] \in Nat
    BY <1>1
  <2> QED BY <1>1, <2>1
<1>3. PICK j \in {b[p] : p \in A} : \A k \in {b[p] : p \in A} : j <= k
  <2>1. {b[p] : p \in A} \subseteq Nat /\ {b[p] : p \in A} # {}
    BY <1>2
  <2> QED BY <2>1, LeastNumber
<1> DEFINE B == {p \in A : b[p] = j}
<1>4. B # {} /\ \A p \in A : j <= b[p] /\ (p \in B \/ j < b[p])
  <2>1. \A p \in A : j <= b[p] /\ j \in Nat /\ b[p] \in Nat
    BY <1>3
  <2> QED BY <1>3, <2>1
<1>5. PICK k \in {c[p] : p \in B} : \A l \in {c[p] : p \in B} : k <= l
  <2>1. {c[p] : p \in B} \subseteq Nat /\ {c[p] : p \in B} # {}
    BY <1>4
  <2> QED BY <2>1, LeastNumber
<1>6. PICK m \in B : c[m] = k
  BY <1>5
<1> QED BY <1>2, <1>4, <1>5, <1>6 DEF NotAfter

(***************************************************************************)
(* Points, and the latest of them.                                         *)
(***************************************************************************)
PricePoint == [date : Int, at : Nat, kind : {"close", "quote"}]

\* Kinds of points, in their order.
LEMMA RankOf ==
  ASSUME NEW p \in PricePoint
  PROVE  /\ Rank(p) \in 0 .. 2 /\ (p.kind = "close" <=> Rank(p) = 0) /\ (p.kind = "quote" <=> Rank(p) = 2)
BY DEF PricePoint, Rank

\* Points are told apart by day, time and kind.
LEMMA SamePoint ==
  ASSUME NEW p \in PricePoint, NEW q \in PricePoint, p.date = q.date, p.at = q.at, Rank(p) = Rank(q)
  PROVE  p = q
<1>1. p.kind = q.kind
  BY RankOf DEF PricePoint
<1> QED BY <1>1 DEF PricePoint

\* Of points with a bound on their days there is one latest, one earliest price, one earliest rate.
LEMMA OneLatest ==
  ASSUME NEW points, points \subseteq PricePoint, points # {}, NEW d \in Int, NEW n \in Nat,
         \A p \in points : p.date <= d /\ p.at <= n
  PROVE  \E m \in points : select_latest(points) = {m} /\ \A q \in points : q = m \/ Later(m, q)
<1> DEFINE a == [p \in points |-> d - p.date]
<1> DEFINE b == [p \in points |-> n - p.at]
<1> DEFINE c == [p \in points |-> 2 - Rank(p)]
<1>1. ASSUME NEW p \in points
      PROVE  /\ p.date \in Int /\ p.at \in Nat /\ Rank(p) \in 0 .. 2
             /\ d - p.date \in Nat /\ n - p.at \in Nat /\ 2 - Rank(p) \in Nat
  <2>1. p \in PricePoint /\ Rank(p) \in 0 .. 2
    BY RankOf
  <2> QED BY <2>1 DEF PricePoint
<1>2. a \in [points -> Nat] /\ b \in [points -> Nat] /\ c \in [points -> Nat]
  BY <1>1
<1>3. PICK m \in points : \A q \in points : NotAfter(a, b, c, m, q)
  <2> HIDE DEF a, b, c
  <2> QED BY <1>2, LeastOfThree
<1>4. ASSUME NEW q \in points PROVE q = m \/ Later(m, q)
  <2>1. \/ d - m.date < d - q.date
        \/ d - m.date = d - q.date /\ n - m.at < n - q.at
        \/ d - m.date = d - q.date /\ n - m.at = n - q.at /\ 2 - Rank(m) <= 2 - Rank(q)
    BY <1>3 DEF NotAfter
  <2>2. \/ m.date > q.date
        \/ m.date = q.date /\ m.at > q.at
        \/ m.date = q.date /\ m.at = q.at /\ (Rank(m) > Rank(q) \/ Rank(m) = Rank(q))
    BY <2>1, <1>1
  <2> QED BY <2>2, SamePoint DEF Later
<1>5. ASSUME NEW q \in points, Later(m, q) PROVE ~Later(q, m)
  BY <1>5, <1>1 DEF Later
<1> QED BY <1>4, <1>5 DEF select_latest

\* There is one earliest rate.
LEMMA OneEarliestRate ==
  ASSUME NEW points, points \subseteq PricePoint, points # {}, NEW d \in Int,
         \A p \in points : d <= p.date
  PROVE  \E m \in points : select_earliest_fx_rate(points) = {m} /\ \A q \in points : m.date <= q.date
<1> DEFINE a == [p \in points |-> p.date - d]
<1> DEFINE b == [p \in points |-> p.at]
<1> DEFINE c == [p \in points |-> Rank(p)]
<1>1. ASSUME NEW p \in points
      PROVE  p.date \in Int /\ p.at \in Nat /\ Rank(p) \in 0 .. 2 /\ p.date - d \in Nat
  <2>1. p \in PricePoint /\ Rank(p) \in 0 .. 2
    BY RankOf
  <2> QED BY <2>1 DEF PricePoint
<1>2. a \in [points -> Nat] /\ b \in [points -> Nat] /\ c \in [points -> Nat]
  BY <1>1
<1>3. PICK m \in points : \A q \in points : NotAfter(a, b, c, m, q)
  <2> HIDE DEF a, b, c
  <2> QED BY <1>2, LeastOfThree
<1>4. ASSUME NEW q \in points PROVE q = m \/ Later(q, m)
  <2>1. \/ m.date - d < q.date - d
        \/ m.date - d = q.date - d /\ m.at < q.at
        \/ m.date - d = q.date - d /\ m.at = q.at /\ Rank(m) <= Rank(q)
    BY <1>3 DEF NotAfter
  <2>2. \/ q.date > m.date
        \/ m.date = q.date /\ q.at > m.at
        \/ m.date = q.date /\ m.at = q.at /\ (Rank(q) > Rank(m) \/ Rank(m) = Rank(q))
    BY <2>1, <1>1
  <2> QED BY <2>2, SamePoint DEF Later
<1>5. ASSUME NEW q \in points, Later(q, m) PROVE ~Later(m, q) /\ m.date <= q.date
  BY <1>5, <1>1 DEF Later
<1>6. m.date <= m.date
  BY <1>1
<1> QED BY <1>4, <1>5, <1>6 DEF select_earliest_fx_rate

\* There is one earliest price.
LEMMA OneEarliestPrice ==
  ASSUME NEW points, points \subseteq PricePoint, points # {}, NEW d \in Int, NEW n \in Nat,
         \A p \in points : d <= p.date /\ p.at <= n
  PROVE  \E m \in points : select_earliest_price(points) = {m} /\ \A q \in points : m.date <= q.date
<1> DEFINE Sooner(p, q) == \/ p.date < q.date
                           \/ p.date = q.date /\ p.at > q.at
                           \/ p.date = q.date /\ p.at = q.at /\ Rank(p) < Rank(q)
<1> DEFINE a == [p \in points |-> p.date - d]
<1> DEFINE b == [p \in points |-> n - p.at]
<1> DEFINE c == [p \in points |-> Rank(p)]
<1>1. ASSUME NEW p \in points
      PROVE  p.date \in Int /\ p.at \in Nat /\ Rank(p) \in 0 .. 2 /\ p.date - d \in Nat /\ n - p.at \in Nat
  <2>1. p \in PricePoint /\ Rank(p) \in 0 .. 2
    BY RankOf
  <2> QED BY <2>1 DEF PricePoint
<1>2. a \in [points -> Nat] /\ b \in [points -> Nat] /\ c \in [points -> Nat]
  BY <1>1
<1>3. PICK m \in points : \A q \in points : NotAfter(a, b, c, m, q)
  <2> HIDE DEF a, b, c
  <2> QED BY <1>2, LeastOfThree
<1>4. ASSUME NEW q \in points PROVE q = m \/ Sooner(m, q)
  <2>1. \/ m.date - d < q.date - d
        \/ m.date - d = q.date - d /\ n - m.at < n - q.at
        \/ m.date - d = q.date - d /\ n - m.at = n - q.at /\ Rank(m) <= Rank(q)
    BY <1>3 DEF NotAfter
  <2>2. \/ m.date < q.date
        \/ m.date = q.date /\ m.at > q.at
        \/ m.date = q.date /\ m.at = q.at /\ (Rank(m) < Rank(q) \/ Rank(m) = Rank(q))
    BY <2>1, <1>1
  <2> QED BY <2>2, SamePoint
<1>5. ASSUME NEW q \in points, Sooner(m, q) PROVE ~Sooner(q, m) /\ m.date <= q.date
  BY <1>5, <1>1
<1>6. m.date <= m.date
  BY <1>1
<1>7. select_earliest_price(points) = {p \in points : \A q \in points \ {p} : Sooner(p, q)}
  BY DEF select_earliest_price
<1> HIDE DEF Sooner
<1> QED BY <1>4, <1>5, <1>6, <1>7

(***************************************************************************)
(* Looking up what is stored: of what a look-up on day d reaches, prices   *)
(* and rates take the same, the latest; else what is projected back.       *)
(***************************************************************************)
Taken(points, n) == points \subseteq PricePoint /\ \A p \in points : p.at <= n
Within(s, points, d) ==
    IF s.lookback = NoLimit THEN OnOrBefore(points, d) ELSE OnOrBefore(OnOrAfter(points, d - s.lookback), d)
OrElse(s, found, projected) == IF found = {} /\ s.projection THEN projected ELSE found
PriceFrom(s, points, d) ==
    OrElse(s, select_latest(Within(s, points, d)), select_earliest_price(OnOrAfter(points, d)))
RateFrom(s, points, d) ==
    OrElse(s, IF s.lookback = NoLimit THEN select_latest(OnOrBefore(points, d))
              ELSE Nearest([o \in 0 .. s.lookback |-> get_fx_rate(points, d - o)]),
           select_earliest_fx_rate(OnOrAfter(points, d)))

\* What the service takes from its stores.
LEMMA FromStores ==
  ASSUME NEW points, NEW d
  PROVE  /\ price_from_store(points, d) = PriceFrom(service, points, d)
         /\ fx_from_store(points, d) = RateFrom(service, points, d)
BY DEF price_from_store, fx_from_store, PriceFrom, RateFrom, OrProjected, OrElse, Within

\* Settings.
LEMMA ConfigTypes ==
  ASSUME NEW s \in Configs
  PROVE  /\ s # NoLimit /\ s.lookback \in Nat \cup {NoLimit} /\ s.staleness \in Nat \cup {NoLimit}
         /\ s.sources \in Seq({"eodhd", "marketstack", "alpha_vantage", "twelve_data", "coingecko",
                               "cryptocompare", "coincap"})
         /\ s.projection \in BOOLEAN /\ s.midnight \in BOOLEAN
BY PricesAssumption

\* The points that may answer for a day.
LEMMA WithinIs ==
  ASSUME NEW s \in Configs, NEW points, NEW d \in Int
  PROVE  /\ Within(s, points, d) \subseteq points
         /\ \A p \in points : p \in Within(s, points, d)
                <=> p.date <= d /\ (s.lookback = NoLimit \/ p.date >= d - s.lookback)
BY DEF Within, OnOrBefore, OnOrAfter

\* Of them there is one latest, if there are any.
LEMMA OneWithin ==
  ASSUME NEW s \in Configs, NEW n \in Nat, NEW points, Taken(points, n), NEW d \in Int,
         Within(s, points, d) # {}
  PROVE  \E m \in Within(s, points, d) : /\ select_latest(Within(s, points, d)) = {m}
                                         /\ \A q \in Within(s, points, d) : q = m \/ Later(m, q)
<1> DEFINE w == Within(s, points, d)
<1>1. w \subseteq PricePoint /\ w # {} /\ \A p \in w : p.date <= d /\ p.at <= n
  BY WithinIs DEF Taken
<1> HIDE DEF w
<1>2. \E m \in w : select_latest(w) = {m} /\ \A q \in w : q = m \/ Later(m, q)
  BY <1>1, OneLatest
<1> QED BY <1>2 DEF w

\* Going back a day at a time comes to the same point.
LEMMA DayByDay ==
  ASSUME NEW s \in Configs, NEW n \in Nat, NEW points, Taken(points, n), NEW d \in Int,
         s.lookback # NoLimit
  PROVE  LET found == [o \in 0 .. s.lookback |-> get_fx_rate(points, d - o)]
             w == Within(s, points, d)
         IN  Nearest(found) = IF w = {} THEN {} ELSE select_latest(w)
<1> DEFINE back == s.lookback
<1> DEFINE of(o) == {p \in points : p.date = d - o}
<1> DEFINE found == [o \in 0 .. back |-> get_fx_rate(points, d - o)]
<1> DEFINE w == Within(s, points, d)
<1> DEFINE with == {o \in DOMAIN found : found[o] # {}}
<1>1. back \in Nat
  BY ConfigTypes
<1>2. \A p \in points : p.date \in Int /\ p \in PricePoint /\ p.at <= n
  BY DEF Taken, PricePoint
<1>3. w \subseteq points /\ \A p \in points : p \in w <=> p.date <= d /\ p.date >= d - back
  BY WithinIs
<1>4. ASSUME NEW o \in 0 .. back
      PROVE  /\ found[o] = select_latest(of(o)) /\ of(o) \subseteq w
             /\ of(o) # {} => \E m \in of(o) : found[o] = {m}
  <2>1. found[o] = select_latest(of(o))
    BY DEF get_fx_rate
  <2>2. of(o) \subseteq w
    BY <1>1, <1>2, <1>3
  <2>3. of(o) \subseteq PricePoint /\ d - o \in Int /\ \A p \in of(o) : p.date <= d - o /\ p.at <= n
    BY <1>1, <1>2
  <2> HIDE DEF of, found, w
  <2>4. of(o) # {} => \E m \in of(o) : select_latest(of(o)) = {m}
    BY <2>3, OneLatest
  <2> QED BY <2>1, <2>2, <2>4
<1>5. ASSUME NEW o \in 0 .. back, of(o) = {} PROVE found[o] = {}
  BY <1>4, <1>5 DEF select_latest
<1>6. with \subseteq 0 .. back /\ Nearest(found) = UNION {found[i] : i \in FirstOf(with)}
  BY DEF Nearest
<1>7. CASE w = {}
  <2> HIDE DEF found, w, of
  <2>1. with = {}
    BY <1>4, <1>5, <1>6, <1>7
  <2>2. FirstOf(with) = {}
    BY <2>1 DEF FirstOf
  <2> HIDE DEF with
  <2>3. Nearest(found) = {}
    BY <2>2, <1>6
  <2> QED BY <2>3, <1>7 DEF found, w
<1>8. CASE w # {}
  <2>1. PICK m \in w : select_latest(w) = {m} /\ \A q \in w : q = m \/ Later(m, q)
    BY <1>8, OneWithin
  <2> DEFINE o == d - m.date
  <2>2. o \in 0 .. back /\ m \in of(o)
    BY <1>1, <1>2, <1>3, <2>1
  <2>3. found[o] = {m}
    <3>1. of(o) # {} /\ of(o) \subseteq w
      BY <2>2, <1>4
    <3>2. PICK k \in of(o) : found[o] = {k}
      BY <3>1, <2>2, <1>4
    <3>3. k = m
      <4> SUFFICES ASSUME k # m PROVE FALSE
        OBVIOUS
      <4>1. Later(m, k)
        BY <2>1, <3>1
      <4>2. Later(k, m)
        <5>1. k \in select_latest(of(o))
          BY <3>2, <2>2, <1>4
        <5> HIDE DEF of, found, o
        <5> QED BY <5>1, <2>2 DEF select_latest
      <4>3. m \in PricePoint /\ k \in PricePoint
        BY <2>2, <3>2, <1>2
      <4>4. m.date \in Int /\ k.date \in Int /\ m.at \in Nat /\ k.at \in Nat /\ Rank(m) \in 0 .. 2 /\ Rank(k) \in 0 .. 2
        BY <4>3, RankOf DEF PricePoint
      <4> QED BY <4>1, <4>2, <4>4 DEF Later
    <3> QED BY <3>2, <3>3
  <2>4. ASSUME NEW i \in with PROVE o <= i
    <3>1. PICK p \in points : p.date = d - i
      BY <1>5
    <3>2. p \in w
      BY <3>1, <1>4
    <3>3. p = m \/ Later(m, p)
      BY <3>2, <2>1
    <3>4. m.date \in Int /\ p.date \in Int /\ m.date >= p.date
      BY <3>3, <1>2, <1>3, <2>1 DEF Later
    <3> QED BY <3>1, <3>4
  <2>5. FirstOf(with) = {o}
    <3>1. o \in with
      BY <2>2, <2>3
    <3>2. with \subseteq Int /\ o \in Int
      BY <1>6, <2>2
    <3> HIDE DEF with, o
    <3>3. \A i \in with : i <= o => i = o
      BY <3>2, <2>4
    <3> QED BY <3>1, <3>2, <3>3, <2>4 DEF FirstOf
  <2>6. Nearest(found) = {m}
    <3> HIDE DEF with, found, o
    <3> QED BY <1>6, <2>3, <2>5
  <2> QED BY <1>8, <2>1, <2>6
<1> QED BY <1>7, <1>8

\* The answer from a store is that point, or else the earliest one afterwards where projection is on.
LEMMA LookUp ==
  ASSUME NEW s \in Configs, NEW n \in Nat, NEW points, Taken(points, n), NEW d \in Int
  PROVE  /\ Within(s, points, d) # {} =>
              \E m \in Within(s, points, d) :
                  /\ PriceFrom(s, points, d) = {m} /\ RateFrom(s, points, d) = {m}
                  /\ \A q \in Within(s, points, d) : q = m \/ Later(m, q)
         /\ Within(s, points, d) = {} =>
              /\ PriceFrom(s, points, d) = IF s.projection THEN select_earliest_price(OnOrAfter(points, d)) ELSE {}
              /\ RateFrom(s, points, d) = IF s.projection THEN select_earliest_fx_rate(OnOrAfter(points, d)) ELSE {}
<1> DEFINE w == Within(s, points, d)
<1> DEFINE rate == IF s.lookback = NoLimit THEN select_latest(OnOrBefore(points, d))
                   ELSE Nearest([o \in 0 .. s.lookback |-> get_fx_rate(points, d - o)])
<1>1. w = {} => select_latest(w) = {}
  BY DEF select_latest
<1>2. rate = select_latest(w)
  <2>1. CASE s.lookback = NoLimit
    BY <2>1 DEF Within
  <2>2. CASE s.lookback # NoLimit
    BY <2>2, <1>1, DayByDay
  <2> QED BY <2>1, <2>2
<1>3. /\ PriceFrom(s, points, d) = OrElse(s, select_latest(w), select_earliest_price(OnOrAfter(points, d)))
      /\ RateFrom(s, points, d) = OrElse(s, rate, select_earliest_fx_rate(OnOrAfter(points, d)))
  BY DEF PriceFrom, RateFrom
<1>4. CASE w = {}
  <2> HIDE DEF w, rate
  <2>1. s.projection \in BOOLEAN
    BY ConfigTypes
  <2> QED BY <1>1, <1>2, <1>3, <1>4, <2>1 DEF OrElse, w
<1>5. CASE w # {}
  <2>1. PICK m \in w : select_latest(w) = {m} /\ \A q \in w : q = m \/ Later(m, q)
    BY <1>5, OneWithin
  <2> HIDE DEF w, rate
  <2>2. PriceFrom(s, points, d) = {m} /\ RateFrom(s, points, d) = {m}
    BY <2>1, <1>2, <1>3 DEF OrElse
  <2> QED BY <1>5, <2>1, <2>2 DEF w
<1> QED BY <1>4, <1>5

\* Prices and rates choose the same day.
LEMMA SameDayChosen ==
  ASSUME NEW s \in Configs, NEW n \in Nat, NEW points, Taken(points, n), NEW d \in Int
  PROVE  /\ {p.date : p \in PriceFrom(s, points, d)} = {p.date : p \in RateFrom(s, points, d)}
         /\ (\E p \in PriceFrom(s, points, d) : p.date <= d /\ ~s.projection)
                => PriceFrom(s, points, d) = RateFrom(s, points, d)
<1> DEFINE w == Within(s, points, d)
<1>1. CASE w # {}
  BY <1>1, LookUp
<1>2. CASE w = {} /\ ~s.projection
  BY <1>2, LookUp
<1>3. CASE w = {} /\ s.projection
  <2> DEFINE later == OnOrAfter(points, d)
  <2>1. PriceFrom(s, points, d) = select_earliest_price(later) /\ RateFrom(s, points, d) = select_earliest_fx_rate(later)
    BY <1>3, LookUp
  <2>2. later \subseteq PricePoint /\ \A p \in later : d <= p.date /\ p.at <= n /\ p.date \in Int
    BY DEF OnOrAfter, Taken, PricePoint
  <2> HIDE DEF later
  <2>3. CASE later = {}
    BY <2>1, <2>3 DEF select_earliest_price, select_earliest_fx_rate
  <2>4. CASE later # {}
    <3>1. PICK m \in later : select_earliest_price(later) = {m} /\ \A q \in later : m.date <= q.date
      BY <2>2, <2>4, OneEarliestPrice
    <3>2. PICK k \in later : select_earliest_fx_rate(later) = {k} /\ \A q \in later : k.date <= q.date
      BY <2>2, <2>4, OneEarliestRate
    <3>3. m.date = k.date
      BY <2>2, <3>1, <3>2
    <3> QED BY <1>3, <2>1, <3>1, <3>2, <3>3
  <2> QED BY <2>3, <2>4
<1> QED BY <1>1, <1>2, <1>3

(***************************************************************************)
(* What is fetched is of now, and of the day asked for or before.          *)
(***************************************************************************)
FxSource == "frankfurter"
AnySource == {"eodhd", "marketstack", "alpha_vantage", "twelve_data", "coingecko", "cryptocompare",
              "coincap", FxSource}
NotAfterDay(d, days) == days \subseteq Int /\ (service.midnight \/ \A c \in days : c <= d)

\* Days are integers.
LEMMA TodayIsInt == now \in Nat => CurrentDay \in Int
<1>1. TicksPerDay \in Nat \ {0}
  BY PricesAssumption
<1> QED BY <1>1 DEF CurrentDay

\* A source gives closes of the day asked for or before.
LEMMA ClosesOfDay ==
  ASSUME service \in Configs, now \in Nat, NEW source \in AnySource, NEW d \in Int
  PROVE  NotAfterDay(d, fetch_close(source, d))
<1>1. Closed \subseteq Int /\ Traded \subseteq Int
  <2>1. FirstDay \in Int /\ LastDay \in Int /\ Sessions \subseteq Int
    BY PricesAssumption
  <2>2. Closed \subseteq Int
    BY <2>1 DEF Closed
  <2>3. Traded \subseteq Int
    BY <2>1 DEF Traded, Days
  <2> QED BY <2>2, <2>3
<1>2. CASE source \in {"eodhd", "marketstack", "alpha_vantage", "coingecko", "cryptocompare", "frankfurter"}
  <2>1. fetch_close(source, d) \subseteq {d}
    BY <1>2 DEF fetch_close, eodhd, marketstack, alpha_vantage, coingecko, cryptocompare, frankfurter
  <2> QED BY <2>1 DEF NotAfterDay
<1>3. ASSUME NEW days \in SUBSET Int, NEW b \in Int, \A c \in days : c <= b
      PROVE  NewestIn(days) \subseteq Int /\ \A c \in NewestIn(days) : c <= b
  BY <1>3 DEF NewestIn
<1>4. CASE source = "twelve_data"
  <2> DEFINE week == Closed \cap (d - 7 .. d)
  <2>1. week \in SUBSET Int /\ \A c \in week : c <= d
    BY <1>1
  <2>2. fetch_close(source, d) = NewestIn(week)
    BY <1>4 DEF fetch_close, twelve_data
  <2> HIDE DEF week
  <2> QED BY <1>3, <2>1, <2>2 DEF NotAfterDay
<1>5. CASE source = "coincap"
  <2> DEFINE last == IF service.midnight THEN d + 1 ELSE d
  <2> DEFINE days == Traded \cap (d .. last)
  <2>1. last \in Int /\ days \in SUBSET Int /\ \A c \in days : c <= last
    BY <1>1
  <2>2. fetch_close(source, d) = NewestIn(days)
    BY <1>5 DEF fetch_close, coincap
  <2>3. service.midnight \in BOOLEAN /\ (~service.midnight => last = d)
    BY ConfigTypes
  <2> HIDE DEF days, last
  <2>4. NewestIn(days) \subseteq Int /\ \A c \in NewestIn(days) : c <= last
    BY <1>3, <2>1
  <2> QED BY <2>2, <2>3, <2>4 DEF NotAfterDay
<1> QED BY <1>2, <1>4, <1>5 DEF AnySource, FxSource

\* The first source that is up and has something is the one whose answer it is.
LEMMA RoutedIs ==
  ASSUME NEW sources \in Seq(AnySource), NEW up, NEW answer
  PROVE  /\ Routed(sources, up, answer) = {} \/ \E s \in Named(sources) : Routed(sources, up, answer) = answer[s]
         /\ \A s \in Named(sources) : s \in up /\ answer[s] # {} => Routed(sources, up, answer) # {}
<1> DEFINE I == {i \in DOMAIN sources : sources[i] \in up /\ answer[sources[i]] # {}}
<1>1. Routed(sources, up, answer) = UNION {answer[sources[i]] : i \in FirstOf(I)}
  BY DEF Routed
<1>2. ASSUME I # {} PROVE \E i \in I : FirstOf(I) = {i}
  <2>1. I \subseteq Int /\ 0 \in Int /\ \A i \in I : 0 <= i
    OBVIOUS
  <2> HIDE DEF I
  <2> QED BY <1>2, <2>1, LeastInteger
<1>3. \A i \in I : sources[i] \in Named(sources) /\ answer[sources[i]] # {}
  BY DEF Named
<1>4. ASSUME NEW s \in Named(sources), s \in up, answer[s] # {} PROVE I # {}
  BY <1>4 DEF Named
<1> HIDE DEF I
<1>5. CASE I = {}
  BY <1>1, <1>4, <1>5 DEF FirstOf
<1>6. CASE I # {}
  <2>1. PICK i \in I : FirstOf(I) = {i}
    BY <1>2, <1>6
  <2>2. Routed(sources, up, answer) = answer[sources[i]]
    BY <1>1, <2>1
  <2> QED BY <1>3, <2>2
<1> QED BY <1>5, <1>6

JustFetched(found, d) ==
    \A p \in found : p \in PricePoint /\ p.at = now /\ (service.midnight \/ p.date <= d)

\* So do the sources tried one after the other.
LEMMA FetchedOfDay ==
  ASSUME service \in Configs, now \in Nat, NEW sources \in Seq(AnySource), NEW up, NEW d \in Int
  PROVE  JustFetched(fetch_from_sources(sources, up, d), d)
<1> DEFINE answer == [s \in Named(sources) |-> fetch_close(s, d)]
<1>1. \A s \in Named(sources) : s \in AnySource
  BY DEF Named
<1>2. \A s \in Named(sources) : answer[s] = fetch_close(s, d) /\ NotAfterDay(d, answer[s])
  BY <1>1, ClosesOfDay
<1>3. NotAfterDay(d, Routed(sources, up, answer))
  <2> HIDE DEF answer
  <2>1. NotAfterDay(d, {})
    BY DEF NotAfterDay
  <2> QED BY <1>2, <2>1, RoutedIs
<1>4. fetch_from_sources(sources, up, d) = {Point(c, "close") : c \in Routed(sources, up, answer)}
  BY DEF fetch_from_sources
<1> HIDE DEF answer
<1> QED BY <1>3, <1>4 DEF JustFetched, NotAfterDay, Point, PricePoint

\* So do they for the days before.
LEMMA FetchedBack ==
  ASSUME service \in Configs, now \in Nat, NEW sources \in Seq(AnySource), NEW up, NEW d \in Int
  PROVE  JustFetched(fetch_back(sources, up, d), d)
<1> DEFINE days == fetch_lookback_days
<1> DEFINE found == [o \in 0 .. days |-> fetch_from_sources(sources, up, d - o)]
<1> DEFINE with == {o \in DOMAIN found : found[o] # {}}
<1>1. days \in Nat
  BY ConfigTypes DEF fetch_lookback_days
<1>2. ASSUME NEW o \in 0 .. days PROVE JustFetched(found[o], d)
  <2>1. d - o \in Int /\ d - o <= d
    BY <1>1
  <2>2. JustFetched(fetch_from_sources(sources, up, d - o), d - o)
    BY <2>1, FetchedOfDay
  <2>3. found[o] = fetch_from_sources(sources, up, d - o)
    OBVIOUS
  <2>4. \A p \in found[o] : p \in PricePoint /\ p.date \in Int /\ p.at = now /\ (service.midnight \/ p.date <= d - o)
    BY <2>2, <2>3 DEF JustFetched, PricePoint
  <2> HIDE DEF found, days
  <2> QED BY <2>1, <2>4, <1>1 DEF JustFetched
<1>3. ASSUME with # {} PROVE \E o \in 0 .. days : FirstOf(with) = {o}
  <2>1. with \subseteq Int /\ with \subseteq 0 .. days /\ 0 \in Int /\ \A i \in with : 0 <= i
    OBVIOUS
  <2> HIDE DEF with, days
  <2> QED BY <1>3, <2>1, LeastInteger
<1>4. fetch_back(sources, up, d) = UNION {found[o] : o \in FirstOf(with)}
  BY DEF fetch_back, Nearest
<1>5. JustFetched({}, d) /\ FirstOf({}) = {}
  BY DEF JustFetched, FirstOf
<1> HIDE DEF found, with, days
<1>6. CASE with = {}
  <2>1. FirstOf(with) = {}
    BY <1>5, <1>6
  <2>2. fetch_back(sources, up, d) = {}
    BY <1>4, <2>1
  <2> QED BY <1>5, <2>2
<1>7. CASE with # {}
  <2>1. PICK o \in 0 .. days : FirstOf(with) = {o}
    BY <1>3, <1>7
  <2>2. fetch_back(sources, up, d) = found[o]
    BY <1>4, <2>1
  <2> QED BY <1>2, <2>2
<1> QED BY <1>6, <1>7

\* Which sources there are.
LEMMA SourcesOf ==
  ASSUME service \in Configs
  PROVE  service.sources \in Seq(AnySource) /\ <<"frankfurter">> \in Seq(AnySource)
<1> DEFINE S == {"eodhd", "marketstack", "alpha_vantage", "twelve_data", "coingecko", "cryptocompare", "coincap"}
<1>1. service.sources \in Seq(S) /\ S \subseteq AnySource /\ "frankfurter" \in AnySource
  BY ConfigTypes DEF AnySource, FxSource
<1> HIDE DEF S
<1> QED BY <1>1

(***************************************************************************)
(* What a request answers with: a stored point that a look-up comes to, or *)
(* what was fetched and is put with the rest.                              *)
(***************************************************************************)
From(rate, s, points, d) == IF rate THEN RateFrom(s, points, d) ELSE PriceFrom(s, points, d)
Answers(rate, points, d, r) ==
    \/ r.put = {} /\ r.answer = From(rate, service, points, d)
    \/ r.put = {} /\ r.answer = get_fx_rate(points, d)
    \/ r.put = r.answer /\ JustFetched(r.answer, d)

\* A look-up comes to what there is on a day within its reach, or to something later.
LEMMA Reached ==
  ASSUME NEW s \in Configs, NEW n \in Nat, NEW points, Taken(points, n), NEW d \in Int,
         NEW rate \in BOOLEAN, NEW p \in points, p.date <= d
  PROVE  \/ s.lookback # NoLimit /\ p.date < d - s.lookback
         \/ \E q \in From(rate, s, points, d) : q = p \/ Later(q, p)
<1> SUFFICES ASSUME ~(s.lookback # NoLimit /\ p.date < d - s.lookback)
             PROVE  \E q \in From(rate, s, points, d) : q = p \/ Later(q, p)
  OBVIOUS
<1>1. p.date \in Int
  BY DEF Taken, PricePoint
<1>2. p \in Within(s, points, d)
  <2>1. CASE s.lookback = NoLimit
    BY <2>1, WithinIs
  <2>2. CASE s.lookback # NoLimit
    <3>1. s.lookback \in Int
      BY <2>2, ConfigTypes
    <3>2. p.date >= d - s.lookback
      BY <1>1, <2>2, <3>1
    <3> QED BY <3>2, WithinIs
  <2> QED BY <2>1, <2>2
<1>3. PICK m \in Within(s, points, d) :
          /\ PriceFrom(s, points, d) = {m} /\ RateFrom(s, points, d) = {m}
          /\ \A q \in Within(s, points, d) : q = m \/ Later(m, q)
  BY <1>2, LookUp
<1> QED BY <1>2, <1>3 DEF From

\* What an answer means for the points there are and for the next one who asks.
LEMMA AnswersHold ==
  ASSUME service \in Configs, now \in Nat, NEW points, Taken(points, now), NEW d \in Int,
         NEW rate \in BOOLEAN, NEW r, Answers(rate, points, d, r)
  PROVE  /\ Taken(points \cup r.put, now)
         /\ ~service.projection /\ ~service.midnight => \A p \in r.answer : p.date <= d
         /\ ~service.midnight =>
                \A p \in r.answer :
                    \/ service.lookback # NoLimit /\ p.date < d - service.lookback
                    \/ \E q \in From(rate, service, points \cup r.put, d) : q = p \/ Later(q, p)
<1>1. CASE r.put = {} /\ r.answer = From(rate, service, points, d)
  <2>1. points \cup r.put = points
    BY <1>1
  <2>2. ASSUME ~service.projection, NEW p \in r.answer PROVE p.date <= d
    <3>1. CASE Within(service, points, d) = {}
      BY <1>1, <2>2, <3>1, LookUp DEF From
    <3>2. CASE Within(service, points, d) # {}
      <4>1. PICK m \in Within(service, points, d) :
                PriceFrom(service, points, d) = {m} /\ RateFrom(service, points, d) = {m}
        BY <3>2, LookUp
      <4>2. p = m
        BY <1>1, <2>2, <4>1 DEF From
      <4> QED BY <4>2, WithinIs
    <3> QED BY <3>1, <3>2
  <2> QED BY <1>1, <2>1, <2>2
<1>2. CASE r.put = {} /\ r.answer = get_fx_rate(points, d)
  <2>1. points \cup r.put = points
    BY <1>2
  <2>2. \A p \in r.answer : p \in points /\ p.date = d /\ p.date <= d
    BY <1>2 DEF get_fx_rate, select_latest
  <2> QED BY <2>1, <2>2, Reached
<1>3. CASE r.put = r.answer /\ JustFetched(r.answer, d)
  <2>1. \A p \in r.put : p \in PricePoint /\ p.at <= now
    BY <1>3 DEF JustFetched
  <2>2. Taken(points \cup r.put, now)
    BY <2>1 DEF Taken
  <2>3. ASSUME ~service.midnight, NEW p \in r.answer PROVE p.date <= d /\ p \in points \cup r.put
    BY <1>3, <2>3 DEF JustFetched
  <2> QED BY <2>2, <2>3, Reached
<1> QED BY <1>1, <1>2, <1>3 DEF Answers

\* Closes and rates are answers, forced or not.
LEMMA PriceCloses ==
  ASSUME service \in Configs, now \in Nat, NEW up, NEW d \in Int
  PROVE  /\ Answers(FALSE, prices, d, price_close(up, d))
         /\ Answers(FALSE, prices, d, price_close_force(up, d))
         /\ Answers(TRUE, rates, d, fx_close(up, d))
         /\ Answers(TRUE, rates, d, fx_close_force(up, d))
<1>1. JustFetched(fetch_back(service.sources, up, d), d) /\ JustFetched(fetch_rate_back(up, d), d)
  BY FetchedBack, SourcesOf DEF fetch_rate_back
<1>2. /\ price_from_store(prices, d) = From(FALSE, service, prices, d)
      /\ fx_from_store(rates, d) = From(TRUE, service, rates, d)
  BY FromStores DEF From
<1>3. ASSUME NEW rate, NEW points, NEW kept, NEW fetched, JustFetched(fetched, d), kept = From(rate, service, points, d)
      PROVE  /\ Answers(rate, points, d, StoredFirst(kept, fetched))
             /\ Answers(rate, points, d, FetchedFirst(fetched, kept))
  BY <1>3 DEF Answers, StoredFirst, FetchedFirst, Reply
<1> QED BY <1>1, <1>2, <1>3 DEF price_close, price_close_force, fx_close, fx_close_force

(***************************************************************************)
(* The latest price.                                                       *)
(***************************************************************************)
Quoting == {"twelve_data", "coingecko"}

\* A quote is of today, and there is one if a source that quotes is up.
LEMMA QuotedIs ==
  ASSUME service \in Configs, NEW up
  PROVE  /\ Quoted(up) \in {{}, {Point(CurrentDay, "quote")}}
         /\ up \cap Named(service.sources) \cap Quoting # {} => Quoted(up) # {}
<1> DEFINE answer == [s \in Named(service.sources) |-> fetch_quote(s)]
<1>1. \A s \in Named(service.sources) : answer[s] = IF s \in Quoting THEN {Point(CurrentDay, "quote")} ELSE {}
  BY DEF fetch_quote, Quoting
<1>2. Quoted(up) = Routed(service.sources, up, answer)
  BY DEF Quoted
<1> HIDE DEF answer
<1>3. /\ Quoted(up) = {} \/ \E s \in Named(service.sources) : Quoted(up) = answer[s]
      /\ \A s \in Named(service.sources) : s \in up /\ answer[s] # {} => Quoted(up) # {}
  BY <1>2, RoutedIs, SourcesOf
<1> QED BY <1>1, <1>3

\* The three ways to the latest price, and what each relies on.
LEMMA LatestIsOneOf ==
  ASSUME service \in Configs, NEW up, NEW d, NEW force \in BOOLEAN
  PROVE  LET r == price_latest(up, d, force)
             sameDay == StoredOfDay(prices, d, force)
         IN  \/ /\ r = Reply(sameDay, {}) /\ sameDay # {} /\ ~force /\ service.staleness # NoLimit
                /\ sameDay = get_fx_rate(prices, d)
                /\ (\E p \in sameDay : Young(p)) \/ Quoted(up) = {}
             \/ r = Reply(Quoted(up), Quoted(up)) /\ Quoted(up) # {}
             \/ /\ Quoted(up) = {} /\ force /\ r = price_close_force(up, d)
             \/ /\ Quoted(up) = {} /\ ~force /\ r = price_close(up, d)
<1> DEFINE r == price_latest(up, d, force)
<1> DEFINE sameDay == StoredOfDay(prices, d, force)
<1> DEFINE close == IF force THEN price_close_force(up, d) ELSE price_close(up, d)
<1>1. sameDay # {} => ~force /\ service.staleness # NoLimit /\ sameDay = get_fx_rate(prices, d)
  BY DEF StoredOfDay, get_fx_rate
<1>2. r = QuotedOr(sameDay, Quoted(up), close)
  BY DEF price_latest
<1> HIDE DEF sameDay, close, r
<1>3. CASE \E p \in sameDay : Young(p)
  BY <1>1, <1>2, <1>3 DEF QuotedOr, r, sameDay
<1>4. CASE ~(\E p \in sameDay : Young(p)) /\ Quoted(up) # {}
  <2>1. r = Reply(Quoted(up), Quoted(up))
    BY <1>2, <1>4 DEF QuotedOr
  <2> QED BY <1>4, <2>1 DEF r
<1>5. CASE ~(\E p \in sameDay : Young(p)) /\ Quoted(up) = {} /\ sameDay # {}
  <2>1. r = Reply(sameDay, {})
    BY <1>2, <1>5 DEF QuotedOr
  <2> QED BY <1>1, <1>5, <2>1 DEF r, sameDay
<1>6. CASE Quoted(up) = {} /\ sameDay = {}
  <2>1. r = close
    BY <1>2, <1>6 DEF QuotedOr
  <2> QED BY <1>6, <2>1 DEF r, close
<1> QED BY <1>3, <1>4, <1>5, <1>6

\* And it was taken just now.
LEMMA QuoteIsFresh ==
  ASSUME service \in Configs, now \in Nat, NEW up
  PROVE  JustFetched(Quoted(up), CurrentDay) /\ \A p \in Quoted(up) : p = Point(CurrentDay, "quote")
<1>1. Point(CurrentDay, "quote") \in PricePoint /\ CurrentDay \in Int
  BY TodayIsInt DEF Point, PricePoint
<1> QED BY <1>1, QuotedIs DEF JustFetched, Point

\* The latest price is an answer.
LEMMA LatestAnswers ==
  ASSUME service \in Configs, now \in Nat, NEW up, NEW force \in BOOLEAN
  PROVE  Answers(FALSE, prices, CurrentDay, price_latest(up, CurrentDay, force))
<1> DEFINE r == price_latest(up, CurrentDay, force)
<1>1. \/ r.put = {} /\ r.answer = get_fx_rate(prices, CurrentDay)
      \/ r.put = Quoted(up) /\ r.answer = Quoted(up)
      \/ r = price_close_force(up, CurrentDay)
      \/ r = price_close(up, CurrentDay)
  <2> DEFINE sameDay == StoredOfDay(prices, CurrentDay, force)
  <2>1. \/ r = Reply(sameDay, {}) /\ sameDay = get_fx_rate(prices, CurrentDay)
        \/ r = Reply(Quoted(up), Quoted(up))
        \/ r = price_close_force(up, CurrentDay)
        \/ r = price_close(up, CurrentDay)
    BY LatestIsOneOf
  <2> HIDE DEF r, sameDay
  <2> QED BY <2>1 DEF Reply
<1> HIDE DEF r
<1>2. CurrentDay \in Int
  BY TodayIsInt
<1>3. CASE r.put = {} /\ r.answer = get_fx_rate(prices, CurrentDay)
  BY <1>3 DEF Answers, r
<1>4. CASE r.put = Quoted(up) /\ r.answer = Quoted(up)
  BY <1>4, QuoteIsFresh DEF Answers, r
<1>5. CASE r = price_close_force(up, CurrentDay) \/ r = price_close(up, CurrentDay)
  BY <1>2, <1>5, PriceCloses DEF r
<1> QED BY <1>1, <1>3, <1>4, <1>5

\* No price within its reach is later.
LEMMA LatestIsNewestOf ==
  ASSUME service \in Configs, now \in Nat, Taken(prices, now), NEW up,
         NEW p \in price_latest(up, CurrentDay, FALSE).answer,
         NEW q \in prices, q.date <= CurrentDay,
         service.lookback = NoLimit \/ q.date >= CurrentDay - service.lookback
  PROVE  p = q \/ Later(p, q)
<1> DEFINE d == CurrentDay
<1> DEFINE r == price_latest(up, d, FALSE)
<1> DEFINE sameDay == get_fx_rate(prices, d)
<1>1. /\ d \in Int /\ q \in PricePoint /\ q.date \in Int /\ q.at \in Nat /\ q.at <= now
      /\ q \in Within(service, prices, d) /\ Rank(q) \in 0 .. 2
  BY TodayIsInt, WithinIs, RankOf DEF Taken, PricePoint
<1>2. \/ r = Reply(sameDay, {})
      \/ r = Reply(Quoted(up), Quoted(up))
      \/ r = price_close(up, d)
  BY LatestIsOneOf
<1>3. p \in r.answer
  OBVIOUS
<1> HIDE DEF r
<1>4. CASE r = Reply(sameDay, {})
  <2> DEFINE ofDay == {k \in prices : k.date = d}
  <2>1. p \in select_latest(ofDay)
    BY <1>3, <1>4 DEF Reply, get_fx_rate
  <2>2. p \in ofDay /\ \A k \in ofDay \ {p} : Later(p, k)
    BY <2>1 DEF select_latest
  <2>3. CASE q.date = d
    BY <2>2, <2>3
  <2>4. CASE q.date < d
    BY <2>2, <2>4 DEF Later
  <2> HIDE DEF d, ofDay
  <2> QED BY <1>1, <2>3, <2>4 DEF d
<1>5. CASE r = Reply(Quoted(up), Quoted(up))
  <2>1. p = Point(d, "quote")
    BY <1>3, <1>5, QuoteIsFresh DEF Reply
  <2>2. p \in PricePoint /\ p.date = d /\ p.at = now /\ Rank(p) = 2
    BY <1>1, <2>1 DEF Point, PricePoint, Rank
  <2>3. \/ p.date > q.date
        \/ p.date = q.date /\ p.at > q.at
        \/ p.date = q.date /\ p.at = q.at /\ (Rank(p) > Rank(q) \/ Rank(p) = Rank(q))
    <3> HIDE DEF d
    <3> QED BY <1>1, <2>2 DEF d
  <2> QED BY <1>1, <2>2, <2>3, SamePoint DEF Later
<1>6. CASE r = price_close(up, d)
  <2>1. PICK m \in Within(service, prices, d) :
            /\ PriceFrom(service, prices, d) = {m}
            /\ \A k \in Within(service, prices, d) : k = m \/ Later(m, k)
    BY <1>1, LookUp
  <2>2. r.answer = {m}
    BY <1>6, <2>1, FromStores DEF price_close, StoredFirst, Reply
  <2> QED BY <1>1, <1>3, <2>1, <2>2
<1> QED BY <1>2, <1>4, <1>5, <1>6

\* It is young if a source that quotes is up.
LEMMA YoungWherePossible ==
  ASSUME service \in Configs, now \in Nat, Taken(prices, now), NEW up,
         up \cap Named(service.sources) \cap Quoting # {}
  PROVE  \E p \in price_latest(up, CurrentDay, FALSE).answer :
             p.at = now \/ (service.staleness # NoLimit /\ now - p.at < service.staleness)
<1> DEFINE d == CurrentDay
<1> DEFINE r == price_latest(up, d, FALSE)
<1> DEFINE sameDay == StoredOfDay(prices, d, FALSE)
<1>1. Quoted(up) # {} /\ \A p \in Quoted(up) : p.at = now
  BY QuotedIs, QuoteIsFresh DEF Point
<1>2. \/ r = Reply(sameDay, {}) /\ service.staleness # NoLimit /\ \E p \in sameDay : Young(p)
      \/ r = Reply(Quoted(up), Quoted(up))
  BY <1>1, LatestIsOneOf
<1> SUFFICES \E p \in r.answer : p.at = now \/ (service.staleness # NoLimit /\ now - p.at < service.staleness)
  OBVIOUS
<1> HIDE DEF r, sameDay
<1>3. CASE r = Reply(sameDay, {}) /\ service.staleness # NoLimit /\ \E p \in sameDay : Young(p)
  <2>1. r.answer = sameDay
    BY <1>3 DEF Reply
  <2> QED BY <1>3, <2>1 DEF Young
<1>4. CASE r = Reply(Quoted(up), Quoted(up))
  <2>1. r.answer = Quoted(up)
    BY <1>4 DEF Reply
  <2> QED BY <1>1, <2>1
<1> QED BY <1>2, <1>3, <1>4

(***************************************************************************)
(* The other requests.                                                     *)
(***************************************************************************)
LEMMA RangeIsTaken ==
  ASSUME service \in Configs, now \in Nat, NEW up, NEW start \in Int, NEW end \in Int
  PROVE  Taken(price_closes_range(up, start, end).put, now)
<1> DEFINE answer == [s \in Named(service.sources) |-> fetch_closes(s, start, end)]
<1> DEFINE days == Routed(service.sources, up, answer)
<1>1. \A s \in Named(service.sources) : answer[s] \subseteq Int
  <2>1. ASSUME NEW s \in Named(service.sources), NEW d \in start .. end PROVE fetch_close(s, d) \subseteq Int
    <3>1. s \in AnySource /\ d \in Int
      BY SourcesOf DEF Named
    <3> QED BY <3>1, ClosesOfDay DEF NotAfterDay
  <2> QED BY <2>1 DEF fetch_closes
<1>2. days \subseteq Int
  <2> HIDE DEF answer
  <2>1. days = {} \/ \E s \in Named(service.sources) : days = answer[s]
    BY RoutedIs, SourcesOf
  <2> QED BY <1>1, <2>1
<1>3. price_closes_range(up, start, end).put = {Point(c, "close") : c \in days}
  BY DEF price_closes_range, Reply
<1> HIDE DEF days
<1> QED BY <1>2, <1>3 DEF Taken, Point, PricePoint

\* Points of two stores.
LEMMA TakenTogether ==
  ASSUME NEW n, NEW P, NEW Q, Taken(P, n), Taken(Q, n)
  PROVE  Taken(P \cup Q, n)
BY DEF Taken

(***************************************************************************)
(* The invariant: points were taken by now, and the last answer is right.  *)
(***************************************************************************)
PriceTypes ==
    /\ service \in Configs \cup {NoLimit}
    /\ now \in Nat
    /\ Taken(prices, now) /\ Taken(rates, now)
    /\ service = NoLimit => asked = Nothing

PricesInv == PriceTypes /\ WellChosen

OfAnswer == NotOfLaterDay /\ FoundAgain /\ LatestIsNewest /\ YoungIfPossible

\* What the types alone say.
LEMMA LikeRates ==
  PriceTypes => PricesLikeRates
<1> SUFFICES ASSUME PriceTypes, service # NoLimit, NEW d \in Days
             PROVE  LET price == price_from_store(prices, d)
                        rate == fx_from_store(prices, d)
                    IN  /\ {p.date : p \in price} = {p.date : p \in rate}
                        /\ (\E p \in price : p.date <= d /\ ~service.projection) => price = rate
  BY DEF PricesLikeRates
<1>1. d \in Int /\ service \in Configs /\ now \in Nat /\ Taken(prices, now)
  BY PricesAssumption DEF Days, PriceTypes
<1> DEFINE price == PriceFrom(service, prices, d)
<1> DEFINE rate == RateFrom(service, prices, d)
<1>2. price_from_store(prices, d) = price /\ fx_from_store(prices, d) = rate
  BY FromStores
<1>3. /\ {p.date : p \in price} = {p.date : p \in rate}
      /\ (\E p \in price : p.date <= d /\ ~service.projection) => price = rate
  BY <1>1, SameDayChosen
<1> HIDE DEF price, rate
<1> QED BY <1>2, <1>3

Unasked == asked = Nothing \/ asked.op \notin Closing

\* Nothing is said of an answer before one is given.
LEMMA NothingAsked ==
  Unasked => OfAnswer
<1> SUFFICES ASSUME Unasked PROVE OfAnswer
  OBVIOUS
<1>1. asked.op \notin Closing /\ asked.op # "price_latest"
  BY DEF Unasked, Nothing, Closing
<1> QED BY <1>1 DEF OfAnswer, NotOfLaterDay, FoundAgain, LatestIsNewest, YoungIfPossible

\* At first nothing was asked.
LEMMA PricesStart ==
  PricesInit => PricesInv
<1> SUFFICES ASSUME PricesInit PROVE PricesInv
  OBVIOUS
<1>1. PriceTypes
  <2>1. FirstDay * TicksPerDay \in Nat
    BY PricesAssumption
  <2> QED BY <2>1 DEF PricesInit, PriceTypes, Taken
<1>2. OfAnswer
  BY NothingAsked DEF PricesInit, Unasked
<1> QED BY <1>1, <1>2, LikeRates DEF PricesInv, WellChosen, OfAnswer
(***************************************************************************)
(* A request, once it is answered.                                         *)
(***************************************************************************)
ForRates == {"fx_close", "fx_close_force"}
Held(rate) == IF rate THEN rates ELSE prices

\* What the stores will answer after a step.
LEMMA StoresNext ==
  ASSUME service' = service
  PROVE  /\ \A d : price_from_store(prices, d)' = PriceFrom(service, prices', d)
         /\ \A d : fx_from_store(rates, d)' = RateFrom(service, rates', d)
BY DEF price_from_store, fx_from_store, PriceFrom, RateFrom, OrElse, OrProjected, Within,
       select_latest, select_earliest_price, select_earliest_fx_rate, OnOrBefore, OnOrAfter,
       Nearest, get_fx_rate, Later, Rank

\* The one who asks again finds the same or later.
LEMMA FoundAgainNext ==
  ASSUME service' = service, asked'.op \in Closing,
         NEW found, found = From(asked'.op \in ForRates, service,
                                 IF asked'.op \in ForRates THEN rates' ELSE prices', asked'.date),
         ~service.midnight =>
             \A p \in asked'.answer :
                 \/ service.lookback # NoLimit /\ p.date < asked'.date - service.lookback
                 \/ \E q \in found : q = p \/ Later(q, p)
  PROVE  FoundAgain'
<1> DEFINE again == IF asked.op \in ForRates
                    THEN fx_from_store(rates, asked.date) ELSE price_from_store(prices, asked.date)
<1>1. fx_from_store(rates, asked.date)' = RateFrom(service, rates', asked'.date)
  BY DEF fx_from_store, RateFrom, OrElse, OrProjected, select_latest, select_earliest_fx_rate,
         OnOrBefore, OnOrAfter, Nearest, get_fx_rate, Later, Rank
<1>2. price_from_store(prices, asked.date)' = PriceFrom(service, prices', asked'.date)
  BY DEF price_from_store, PriceFrom, OrElse, OrProjected, Within, select_latest, select_earliest_price,
         OnOrBefore, OnOrAfter, Later, Rank
<1>3. again' = found
  BY <1>1, <1>2 DEF From
<1> HIDE DEF again
<1> QED BY <1>3 DEF FoundAgain, again, ForRates, Later, Rank

\* A question whose reply is an answer keeps all that is said of answers.
LEMMA Asked ==
  ASSUME PriceTypes, service # NoLimit, service' = service, now' = now,
         NEW op \in Closing, NEW d \in Int, NEW up, NEW reply, NEW rate \in BOOLEAN, rate = (op \in ForRates),
         Answers(rate, Held(rate), d, reply), Record(op, d, up, reply, Held(rate)),
         Held(rate)' = Held(rate) \cup reply.put, Held(~rate)' = Held(~rate)
  PROVE  PriceTypes' /\ NotOfLaterDay' /\ FoundAgain'
<1>1. /\ service \in Configs /\ now \in Nat /\ Taken(prices, now) /\ Taken(rates, now)
  BY DEF PriceTypes
<1>2. /\ asked'.op = op /\ asked'.date = d /\ asked'.answer = reply.answer
  BY DEF Record
<1> DEFINE points == Held(rate)
<1> DEFINE found == From(rate, service, points \cup reply.put, d)
<1>3. /\ Taken(points \cup reply.put, now)
      /\ ~service.projection /\ ~service.midnight => \A p \in reply.answer : p.date <= d
      /\ ~service.midnight =>
             \A p \in reply.answer :
                 \/ service.lookback # NoLimit /\ p.date < d - service.lookback
                 \/ \E q \in found : q = p \/ Later(q, p)
  <2>1. Taken(points, now)
    BY <1>1 DEF Held
  <2> HIDE DEF points
  <2> QED BY <1>1, <2>1, AnswersHold DEF points
<1>4. /\ (IF rate THEN rates' ELSE prices') = points \cup reply.put
      /\ Taken(prices', now) /\ Taken(rates', now)
  <2>1. CASE rate
    BY <1>1, <1>3, <2>1 DEF Held
  <2>2. CASE ~rate
    BY <1>1, <1>3, <2>2 DEF Held
  <2> QED BY <2>1, <2>2
<1>5. PriceTypes'
  <2>1. Taken(prices, now)' /\ Taken(rates, now)'
    BY <1>4 DEF Taken
  <2> QED BY <1>1, <2>1 DEF PriceTypes
<1>6. NotOfLaterDay'
  BY <1>2, <1>3 DEF NotOfLaterDay
<1>7. FoundAgain'
  <2>1. found = From(asked'.op \in ForRates, service,
                     IF asked'.op \in ForRates THEN rates' ELSE prices', asked'.date)
    <3>1. rate = (asked'.op \in ForRates) /\ points \cup reply.put = IF asked'.op \in ForRates THEN rates' ELSE prices'
      BY <1>2, <1>4
    <3> QED BY <1>2, <3>1
  <2>2. asked'.op \in Closing
    BY <1>2
  <2> HIDE DEF found
  <2> QED BY <1>2, <1>3, <2>1, <2>2, FoundAgainNext
<1> QED BY <1>5, <1>6, <1>7

\* Only the latest price is young.
LEMMA OnlyTheLatest ==
  ASSUME asked'.op # "price_latest"
  PROVE  LatestIsNewest' /\ YoungIfPossible'
BY DEF LatestIsNewest, YoungIfPossible

\* A price is asked for.
LEMMA AskedPrice ==
  ASSUME PriceTypes, service # NoLimit, NEW up, NEW d \in Int,
         NEW op \in {"price_close", "price_close_force", "price_latest", "price_latest_force"},
         op \in {"price_latest", "price_latest_force"} => d = CurrentDay,
         AskPrice(op, d, up)
  PROVE  PriceTypes' /\ OfAnswer'
<1> DEFINE reply == CASE op = "price_close" -> price_close(up, d)
                      [] op = "price_close_force" -> price_close_force(up, d)
                      [] op = "price_latest" -> price_latest(up, d, FALSE)
                      [] op = "price_latest_force" -> price_latest(up, d, TRUE)
<1>1. /\ service \in Configs /\ now \in Nat /\ Taken(prices, now)
  BY DEF PriceTypes
<1>2. /\ prices' = prices \cup reply.put /\ Record(op, d, up, reply, prices)
      /\ service' = service /\ now' = now /\ rates' = rates
  BY DEF AskPrice
<1>3. Answers(FALSE, prices, d, reply)
  <2>1. CASE op = "price_close"
    BY <1>1, <2>1, PriceCloses
  <2>2. CASE op = "price_close_force"
    BY <1>1, <2>2, PriceCloses
  <2>3. CASE op = "price_latest"
    <3>1. reply = price_latest(up, d, FALSE) /\ d = CurrentDay
      BY <2>3
    <3> QED BY <1>1, <3>1, LatestAnswers
  <2>4. CASE op = "price_latest_force"
    <3>1. reply = price_latest(up, d, TRUE) /\ d = CurrentDay
      BY <2>4
    <3> QED BY <1>1, <3>1, LatestAnswers
  <2> QED BY <2>1, <2>2, <2>3, <2>4
<1>4. PriceTypes' /\ NotOfLaterDay' /\ FoundAgain'
  <2>1. op \in Closing /\ FALSE = (op \in ForRates) /\ op \notin ForRates
    BY DEF Closing, ForRates
  <2>2. Held(FALSE) = prices /\ Held(FALSE)' = prices' /\ Held(~FALSE) = rates /\ Held(~FALSE)' = rates'
    BY DEF Held
  <2> HIDE DEF reply
  <2> QED BY <1>2, <1>3, <2>1, <2>2, Asked
<1>5. LatestIsNewest' /\ YoungIfPossible'
  <2>1. CASE op # "price_latest"
    BY <1>2, <2>1, OnlyTheLatest DEF Record
  <2>2. CASE op = "price_latest"
    <3>1. reply = price_latest(up, CurrentDay, FALSE) /\ d = CurrentDay
      BY <2>2
    <3>2. /\ asked'.op = op /\ asked'.date = d /\ asked'.at = now /\ asked'.up = up
          /\ asked'.answer = reply.answer /\ asked'.before = prices
      BY <1>2 DEF Record
    <3>3. LatestIsNewest'
      <4>1. ASSUME NEW p \in reply.answer, NEW q \in prices, q.date <= d,
                   service.lookback = NoLimit \/ q.date >= d - service.lookback
            PROVE  p = q \/ Later(p, q)
        BY <1>1, <3>1, <4>1, LatestIsNewestOf
      <4> HIDE DEF reply
      <4> QED BY <1>2, <3>2, <4>1 DEF LatestIsNewest, Later, Rank
    <3>4. YoungIfPossible'
      <4>1. ASSUME up \cap Named(service.sources) \cap Quoting # {}
            PROVE  \E p \in reply.answer :
                      p.at = now \/ (service.staleness # NoLimit /\ now - p.at < service.staleness)
        BY <1>1, <3>1, <4>1, YoungWherePossible
      <4> HIDE DEF reply
      <4> QED BY <1>2, <3>2, <4>1 DEF YoungIfPossible, Quoting
    <3> QED BY <3>3, <3>4
  <2> QED BY <2>1, <2>2
<1> QED BY <1>4, <1>5 DEF OfAnswer

\* A rate is asked for.
LEMMA AskedRate ==
  ASSUME PriceTypes, service # NoLimit, NEW up, NEW d \in Int,
         NEW op \in {"fx_close", "fx_close_force"}, AskRate(op, d, up)
  PROVE  PriceTypes' /\ OfAnswer'
<1> DEFINE reply == IF op = "fx_close" THEN fx_close(up, d) ELSE fx_close_force(up, d)
<1>1. /\ service \in Configs /\ now \in Nat
  BY DEF PriceTypes
<1>2. /\ rates' = rates \cup reply.put /\ Record(op, d, up, reply, rates)
      /\ service' = service /\ now' = now /\ prices' = prices
  BY DEF AskRate
<1>3. Answers(TRUE, rates, d, reply)
  BY <1>1, PriceCloses
<1>4. PriceTypes' /\ NotOfLaterDay' /\ FoundAgain'
  <2>1. op \in Closing /\ TRUE = (op \in ForRates) /\ op \in ForRates
    BY DEF Closing, ForRates
  <2>2. Held(TRUE) = rates /\ Held(TRUE)' = rates' /\ Held(~TRUE) = prices /\ Held(~TRUE)' = prices'
    BY DEF Held
  <2> HIDE DEF reply
  <2> QED BY <1>2, <1>3, <2>1, <2>2, Asked
<1>5. LatestIsNewest' /\ YoungIfPossible'
  BY <1>2, OnlyTheLatest DEF Record
<1> QED BY <1>4, <1>5 DEF OfAnswer

\* The requests whose answers nobody takes for the price of a day.
LEMMA NothingAskedNext ==
  ASSUME asked' = Nothing \/ asked'.op \notin Closing
  PROVE  OfAnswer'
<1>1. Unasked' => OfAnswer'
  BY NothingAsked, PTL
<1>2. Unasked'
  BY DEF Unasked, Nothing, Closing
<1> QED BY <1>1, <1>2

\* A range is asked for.
LEMMA AskedRange ==
  ASSUME PriceTypes, service # NoLimit, NEW start \in Int, NEW end \in Int, NEW up, AskRange(start, end, up)
  PROVE  PriceTypes' /\ OfAnswer'
<1> DEFINE put == price_closes_range(up, start, end).put
<1>1. Taken(put, now) /\ Taken(prices, now) /\ Taken(rates, now) /\ service \in Configs /\ now \in Nat
  BY RangeIsTaken DEF PriceTypes
<1>2. prices' = prices \cup put /\ rates' = rates /\ now' = now /\ service' = service
      /\ asked'.op = "price_closes_range"
  BY DEF AskRange, Record
<1> HIDE DEF put
<1>3. PriceTypes'
  BY <1>1, <1>2 DEF PriceTypes, Taken
<1>4. OfAnswer'
  BY <1>2, NothingAskedNext DEF Closing
<1> QED BY <1>3, <1>4

\* A sync brings a price.
LEMMA SyncedPrice ==
  ASSUME PriceTypes, service # NoLimit, NEW date \in Int, NEW at \in Nat, SyncPrice(date, at)
  PROVE  PriceTypes' /\ OfAnswer'
<1> DEFINE p == [date |-> date, at |-> at, kind |-> "close"]
<1> DEFINE put == store_price(p).put
<1>1. Taken({p}, now) /\ Taken(prices, now) /\ Taken(rates, now) /\ service \in Configs /\ now \in Nat
  BY DEF PriceTypes, Taken, PricePoint, SyncPrice
<1>2. prices' = prices \cup put /\ rates' = rates /\ now' = now /\ service' = service /\ asked'.op = "store_price"
  BY DEF SyncPrice, Record
<1>3. put \subseteq {p}
  BY DEF store_price, Reply
<1> HIDE DEF put, p
<1>4. PriceTypes'
  BY <1>1, <1>2, <1>3 DEF PriceTypes, Taken
<1>5. OfAnswer'
  BY <1>2, NothingAskedNext DEF Closing
<1> QED BY <1>4, <1>5

\* A price is made sure of.
LEMMA Ensured ==
  ASSUME PriceTypes, service # NoLimit, NEW d \in Int, NEW force \in BOOLEAN, NEW up, Ensure(d, force, up)
  PROVE  PriceTypes' /\ OfAnswer'
<1> DEFINE valuing == ensure_valuation_prices(up, d, force)
<1> DEFINE rating == ensure_rates(up, d, force)
<1>1. Taken(prices, now) /\ Taken(rates, now) /\ service \in Configs /\ now \in Nat
  BY DEF PriceTypes
<1>2. Answers(FALSE, prices, d, valuing) /\ Answers(TRUE, rates, d, rating)
  <2>1. Answers(FALSE, prices, d, ensure_prices(up, d, force)) /\ Answers(TRUE, rates, d, rating)
    BY <1>1, PriceCloses DEF ensure_prices, ensure_rates
  <2>2. d = CurrentDay => Answers(FALSE, prices, d, price_latest(up, d, force))
    BY <1>1, LatestAnswers
  <2> QED BY <2>1, <2>2 DEF ensure_valuation_prices
<1>3. prices' = prices \cup valuing.put /\ rates' = rates \cup rating.put
      /\ now' = now /\ service' = service /\ asked'.op = "ensure"
  BY DEF Ensure, Record
<1> HIDE DEF valuing, rating
<1>4. Taken(prices', now) /\ Taken(rates', now)
  BY <1>1, <1>2, <1>3, AnswersHold
<1>5. PriceTypes'
  BY <1>1, <1>3, <1>4 DEF PriceTypes, Taken
<1>6. OfAnswer'
  BY <1>3, NothingAskedNext DEF Closing
<1> QED BY <1>5, <1>6

\* Every step keeps all that is said of prices.
LEMMA PricesStep ==
  PricesInv /\ [PricesNext]_pricesVars => PricesInv'
<1> SUFFICES ASSUME PricesInv, [PricesNext]_pricesVars PROVE PricesInv'
  OBVIOUS
<1>1. PriceTypes /\ OfAnswer
  BY DEF PricesInv, WellChosen, OfAnswer
<1>2. now \in Nat /\ FirstDay \in Nat /\ LastDay \in Nat
  BY <1>1, PricesAssumption DEF PriceTypes
<1>3. PriceTypes' /\ OfAnswer'
  <2>1. CASE Open
    <3>1. service' \in Configs /\ now' = now /\ prices' = prices /\ rates' = rates /\ asked' = Nothing
      BY <1>1, <2>1 DEF Open, PriceTypes
    <3> QED BY <1>1, <3>1, NothingAskedNext, ConfigTypes DEF PriceTypes, Taken
  <2>2. CASE Take
    BY <1>1, <2>2, NothingAskedNext DEF PriceTypes, Taken, Take
  <2>3. CASE TimePasses /\ asked = Nothing
    <3>1. now' = now + 1 /\ service' = service /\ prices' = prices /\ rates' = rates /\ asked' = Nothing
      BY <2>3 DEF TimePasses
    <3>2. \A points : Taken(points, now) => Taken(points, now + 1)
      BY <1>2 DEF Taken, PricePoint
    <3>3. Taken(prices, now)' /\ Taken(rates, now)'
      BY <1>1, <3>1, <3>2 DEF PriceTypes, Taken
    <3> QED BY <1>1, <1>2, <3>1, <3>3, NothingAskedNext DEF PriceTypes
  <2>4. CASE service # NoLimit /\ \E up \in Up, d \in Days :
                 \/ \E op \in {"price_close", "price_close_force"} : AskPrice(op, d, up)
                 \/ \E op \in {"price_latest", "price_latest_force"} : AskPrice(op, CurrentDay, up)
                 \/ \E op \in {"fx_close", "fx_close_force"} : AskRate(op, d, up)
                 \/ \E end \in Days : AskRange(d, end, up)
                 \/ \E at \in {now - 1, now} \cap Nat : SyncPrice(d, at)
                 \/ \E force \in BOOLEAN : Ensure(d, force, up)
    <3>1. service # NoLimit /\ CurrentDay \in Int
      BY <1>2, <2>4, TodayIsInt
    <3>2. \A d \in Days : d \in Int
      BY <1>2 DEF Days
    <3> SUFFICES ASSUME NEW up \in Up, NEW d \in Days,
                        \/ \E op \in {"price_close", "price_close_force"} : AskPrice(op, d, up)
                        \/ \E op \in {"price_latest", "price_latest_force"} : AskPrice(op, CurrentDay, up)
                        \/ \E op \in {"fx_close", "fx_close_force"} : AskRate(op, d, up)
                        \/ \E end \in Days : AskRange(d, end, up)
                        \/ \E at \in {now - 1, now} \cap Nat : SyncPrice(d, at)
                        \/ \E force \in BOOLEAN : Ensure(d, force, up)
                 PROVE  PriceTypes' /\ OfAnswer'
      BY <2>4
    <3>3. CASE \E op \in {"price_close", "price_close_force"} : AskPrice(op, d, up)
      BY <1>1, <3>1, <3>2, <3>3, AskedPrice
    <3>4. CASE \E op \in {"price_latest", "price_latest_force"} : AskPrice(op, CurrentDay, up)
      BY <1>1, <3>1, <3>4, AskedPrice
    <3>5. CASE \E op \in {"fx_close", "fx_close_force"} : AskRate(op, d, up)
      BY <1>1, <3>1, <3>2, <3>5, AskedRate
    <3>6. CASE \E end \in Days : AskRange(d, end, up)
      BY <1>1, <3>1, <3>2, <3>6, AskedRange
    <3>7. CASE \E at \in {now - 1, now} \cap Nat : SyncPrice(d, at)
      BY <1>1, <3>1, <3>2, <3>7, SyncedPrice
    <3>8. CASE \E force \in BOOLEAN : Ensure(d, force, up)
      BY <1>1, <3>1, <3>2, <3>8, Ensured
    <3> QED BY <3>3, <3>4, <3>5, <3>6, <3>7, <3>8
  <2>5. CASE UNCHANGED pricesVars
    <3>1. PriceTypes'
      BY <1>1, <2>5 DEF pricesVars, PriceTypes, Taken
    <3>2. NotOfLaterDay' /\ LatestIsNewest' /\ YoungIfPossible'
      BY <1>1, <2>5 DEF pricesVars, OfAnswer, NotOfLaterDay, LatestIsNewest, YoungIfPossible, Later, Rank
    <3>3. FoundAgain'
      <4>1. fx_from_store(rates, asked.date)' = fx_from_store(rates, asked.date)
        BY <2>5 DEF pricesVars, fx_from_store, OrProjected, select_latest, select_earliest_fx_rate,
             OnOrBefore, OnOrAfter, Nearest, get_fx_rate, Later, Rank
      <4>2. price_from_store(prices, asked.date)' = price_from_store(prices, asked.date)
        BY <2>5 DEF pricesVars, price_from_store, OrProjected, select_latest, select_earliest_price,
             OnOrBefore, OnOrAfter, Later, Rank
      <4> QED BY <1>1, <2>5, <4>1, <4>2 DEF pricesVars, OfAnswer, FoundAgain, Later, Rank
    <3> QED BY <3>1, <3>2, <3>3 DEF OfAnswer
  <2> QED BY <2>1, <2>2, <2>3, <2>4, <2>5 DEF PricesNext
<1>4. PricesLikeRates'
  <2>1. PriceTypes' => PricesLikeRates'
    BY LikeRates, PTL
  <2> QED BY <1>3, <2>1
<1> QED BY <1>3, <1>4 DEF PricesInv, WellChosen, OfAnswer

\* Requests of any number and order leave points taken by now and a right last answer:
\* the invariant of MarketDataService between its store and its sources.
THEOREM PricesHold ==
  PricesSpec => []PricesInv
BY PricesStart, PricesStep, PTL DEF PricesSpec

\* Of the points there are the service answers with the right one: not of a later day, found
\* again without the network, the newest known, young where a quote can be had, and prices
\* and rates look back alike (price_close, price_latest, fx_close and the look-ups they share).
THEOREM RightPointsChosen ==
  PricesSpec => []WellChosen
<1>1. PricesInv => WellChosen
  BY DEF PricesInv
<1> QED BY <1>1, PricesHold, PTL

(***************************************************************************)
(* The calendar: each date has the year and month whose days are then not  *)
(* over, and the dates a history visits go on to the end without a gap     *)
(* longer than its interval.  Later sections count on nothing else of it.  *)
(***************************************************************************)

\* The days of a year until the end of a month.
Elapsed(y, m) ==
    CASE m = 0 -> 0 [] m = 1 -> 31
      [] m \in 2 .. 12 -> (CASE m = 2 -> 59 [] m = 3 -> 90 [] m = 4 -> 120 [] m = 5 -> 151 [] m = 6 -> 181
                     [] m = 7 -> 212 [] m = 8 -> 243 [] m = 9 -> 273 [] m = 10 -> 304 [] m = 11 -> 334
                     [] m = 12 -> 365) + IF Leap(y) THEN 1 ELSE 0

\* They grow by the days of the month.
LEMMA ElapsedNext ==
  ASSUME NEW y, NEW m \in 1 .. 12
  PROVE  /\ Elapsed(y, m) = Elapsed(y, m - 1) + days_in_month(y, m)
         /\ Elapsed(y, m) \in Nat /\ Elapsed(y, m - 1) \in Nat
         /\ days_in_month(y, m) \in 28 .. 31
<1>1. m = 1 \/ m = 2 \/ m = 3 \/ m = 4 \/ m = 5 \/ m = 6 \/ m = 7 \/ m = 8 \/ m = 9 \/ m = 10 \/ m = 11 \/ m = 12
  OBVIOUS
<1> QED BY <1>1 DEF Elapsed, days_in_month

\* The recursion over the months counts them.
LEMMA DaysUpTo ==
  ASSUME NEW y \in CalendarYears, NEW m \in 0 .. 12
  PROVE  DaysOfYear[y][m] = Elapsed(y, m)
<1> DEFINE E(e, k) == IF k = 0 THEN 0 ELSE e[k - 1] + days_in_month(y, k)
<1> DEFINE Ends(e) == e = [k \in 0 .. 12 |-> E(e, k)]
<1> DEFINE f == [k \in 0 .. 12 |-> Elapsed(y, k)]
<1>1. Ends(f)
  <2>1. ASSUME NEW k \in 0 .. 12 PROVE f[k] = E(f, k)
    <3>1. CASE k = 0
      BY <3>1 DEF Elapsed
    <3>2. CASE k # 0
      <4>1. k \in 1 .. 12 /\ k - 1 \in 0 .. 12
        BY <3>2
      <4> QED BY <4>1, ElapsedNext
    <3> QED BY <3>1, <3>2
  <2> QED BY <2>1
<1> DEFINE g == CHOOSE e : Ends(e)
<1>2. Ends(g)
  BY <1>1
<1>3. DaysOfYear[y] = g
  BY DEF DaysOfYear
<1>4. \A k \in 0 .. 12 : g[k] = IF k = 0 THEN 0 ELSE g[k - 1] + days_in_month(y, k)
  <2> HIDE DEF g
  <2> QED BY <1>2
<1> HIDE DEF g
<1>5. g[0] = Elapsed(y, 0)
  BY <1>4 DEF Elapsed
<1>6. ASSUME NEW k \in 1 .. 12, g[k - 1] = Elapsed(y, k - 1) PROVE g[k] = Elapsed(y, k)
  BY <1>4, <1>6, ElapsedNext
<1>7. /\ g[1] = Elapsed(y, 1) /\ g[2] = Elapsed(y, 2) /\ g[3] = Elapsed(y, 3) /\ g[4] = Elapsed(y, 4)
  <2>1. g[1] = Elapsed(y, 1)  BY <1>5, <1>6
  <2>2. g[2] = Elapsed(y, 2)  BY <2>1, <1>6
  <2>3. g[3] = Elapsed(y, 3)  BY <2>2, <1>6
  <2>4. g[4] = Elapsed(y, 4)  BY <2>3, <1>6
  <2> QED BY <2>1, <2>2, <2>3, <2>4
<1>8. /\ g[5] = Elapsed(y, 5) /\ g[6] = Elapsed(y, 6) /\ g[7] = Elapsed(y, 7) /\ g[8] = Elapsed(y, 8)
  <2>1. g[5] = Elapsed(y, 5)  BY <1>7, <1>6
  <2>2. g[6] = Elapsed(y, 6)  BY <2>1, <1>6
  <2>3. g[7] = Elapsed(y, 7)  BY <2>2, <1>6
  <2>4. g[8] = Elapsed(y, 8)  BY <2>3, <1>6
  <2> QED BY <2>1, <2>2, <2>3, <2>4
<1>9. /\ g[9] = Elapsed(y, 9) /\ g[10] = Elapsed(y, 10) /\ g[11] = Elapsed(y, 11) /\ g[12] = Elapsed(y, 12)
  <2>1. g[9] = Elapsed(y, 9)    BY <1>8, <1>6
  <2>2. g[10] = Elapsed(y, 10)  BY <2>1, <1>6
  <2>3. g[11] = Elapsed(y, 11)  BY <2>2, <1>6
  <2>4. g[12] = Elapsed(y, 12)  BY <2>3, <1>6
  <2> QED BY <2>1, <2>2, <2>3, <2>4
<1>10. m = 0 \/ m = 1 \/ m = 2 \/ m = 3 \/ m = 4 \/ m = 5 \/ m = 6 \/ m = 7 \/ m = 8 \/ m = 9 \/ m = 10 \/ m = 11 \/ m = 12
  OBVIOUS
<1> QED BY <1>3, <1>5, <1>7, <1>8, <1>9, <1>10

\* From one new year to the next.
LEMMA YearLength ==
  ASSUME NEW y \in Nat \ {0}
  PROVE  NewYear(y) \in Int /\ NewYear(y + 1) = NewYear(y) + Elapsed(y, 12)
<1>1. y \div 4 = (y - 1) \div 4 + (IF y % 4 = 0 THEN 1 ELSE 0)
  OBVIOUS
<1>2. y \div 100 = (y - 1) \div 100 + (IF y % 100 = 0 THEN 1 ELSE 0)
  OBVIOUS
<1>3. y \div 400 = (y - 1) \div 400 + (IF y % 400 = 0 THEN 1 ELSE 0)
  OBVIOUS
<1>4. (y % 400 = 0 => y % 100 = 0) /\ (y % 100 = 0 => y % 4 = 0)
  OBVIOUS
<1>5. (y - 1) \div 4 \in Int /\ (y - 1) \div 100 \in Int /\ (y - 1) \div 400 \in Int
  OBVIOUS
<1>6. Elapsed(y, 12) = 365 + IF Leap(y) THEN 1 ELSE 0
  BY DEF Elapsed
<1>7. y + 1 - 1 = y
  OBVIOUS
<1> QED BY <1>1, <1>2, <1>3, <1>4, <1>5, <1>6, <1>7 DEF NewYear, Leap

\* The years of the calendar are an interval.
FirstYear == Min(CalendarYears)
LastYear == Max(CalendarYears)

\* They are numbers, and no others are in it.
LEMMA YearsAre ==
  /\ FirstYear \in Nat \ {0} /\ LastYear \in Nat
  /\ \A y : y \in CalendarYears <=> y \in FirstYear .. LastYear
  /\ CalendarYears \subseteq Nat \ {0}
<1>1. FirstYear \in Nat \ {0} /\ LastYear \in Nat /\ CalendarYears = FirstYear .. LastYear
  BY CalendarAssumption DEF FirstYear, LastYear
<1> QED BY <1>1

\* A date is the days before it and its own.
LEMMA DateIs ==
  ASSUME NEW y \in CalendarYears, NEW m \in 1 .. 12, NEW d \in Int
  PROVE  /\ Date(y, m, d) = NewYear(y) + Elapsed(y, m - 1) + d
         /\ Date(y, m, d) \in Int /\ NewYear(y) \in Int /\ Elapsed(y, m - 1) \in Nat
<1>1. y \in Nat \ {0}
  BY YearsAre
<1>2. NewYear(y) \in Int /\ Elapsed(y, m - 1) \in Nat
  BY <1>1, YearLength, ElapsedNext
<1>3. m - 1 \in 0 .. 12
  OBVIOUS
<1>4. DaysOfYear[y][m - 1] = Elapsed(y, m - 1)
  BY <1>3, DaysUpTo
<1> QED BY <1>2, <1>4 DEF Date

\* The last days of months and years.
LEMMA Ends ==
  ASSUME NEW y \in CalendarYears, NEW m \in 1 .. 12
  PROVE  /\ Date(y, m, days_in_month(y, m)) = NewYear(y) + Elapsed(y, m)
         /\ Date(y, 12, 31) = NewYear(y + 1) /\ NewYear(y + 1) \in Int /\ NewYear(y) \in Int
         /\ Elapsed(y, m) \in Nat /\ Elapsed(y, 0) = 0
<1>1. y \in Nat \ {0}
  BY YearsAre
<1>2. days_in_month(y, m) \in 28 .. 31 /\ days_in_month(y, 12) = 31
  BY ElapsedNext DEF days_in_month
<1>3. /\ Elapsed(y, m) = Elapsed(y, m - 1) + days_in_month(y, m)
      /\ Elapsed(y, 12) = Elapsed(y, 11) + days_in_month(y, 12)
      /\ Elapsed(y, 12 - 1) = Elapsed(y, 11)
      /\ Elapsed(y, m) \in Nat /\ Elapsed(y, 12) \in Nat /\ Elapsed(y, m - 1) \in Nat /\ Elapsed(y, 12 - 1) \in Nat
  BY ElapsedNext
<1>4. /\ Date(y, m, days_in_month(y, m)) = NewYear(y) + Elapsed(y, m - 1) + days_in_month(y, m)
      /\ NewYear(y) \in Int
  <2>1. days_in_month(y, m) \in Int
    BY <1>2
  <2> QED BY <2>1, DateIs
<1>5. Date(y, 12, 31) = NewYear(y) + Elapsed(y, 12 - 1) + 31
  BY DateIs
<1>6. NewYear(y + 1) = NewYear(y) + Elapsed(y, 12)
  BY <1>1, YearLength
<1>7. Elapsed(y, 0) = 0
  BY DEF Elapsed
<1> HIDE DEF Elapsed
<1> QED BY <1>2, <1>3, <1>4, <1>5, <1>6, <1>7

\* The years follow one another.
LEMMA YearsInOrder ==
  ASSUME NEW y \in Nat \ {0}, NEW z \in Nat, y < z
  PROVE  NewYear(y) + 365 <= NewYear(z) /\ NewYear(z) \in Int /\ NewYear(y) \in Int
<1>1. (z - 1) \div 4 >= (y - 1) \div 4 /\ (z - 1) \div 400 >= (y - 1) \div 400
  OBVIOUS
<1>2. /\ (z - 1) \div 4 \in Int /\ (y - 1) \div 4 \in Int /\ (z - 1) \div 400 \in Int /\ (y - 1) \div 400 \in Int
      /\ (z - 1) \div 100 \in Int /\ (y - 1) \div 100 \in Int
  OBVIOUS
<1>3. (z - 1) \div 4 - (z - 1) \div 100 >= (y - 1) \div 4 - (y - 1) \div 100
  OBVIOUS
<1> QED BY <1>1, <1>2, <1>3 DEF NewYear

\* What day it is: the year, then the month whose days are not over.
AllDays == NewYear(FirstYear) + 1 .. NewYear(LastYear + 1)

\* The chosen year and month are those: the day is after the month before and not after its own.
LEMMA MonthIs ==
  ASSUME NEW n \in AllDays, FirstYear <= LastYear
  PROVE  /\ Year(n) \in CalendarYears /\ Month(n) \in 1 .. 12
         /\ NewYear(Year(n)) + Elapsed(Year(n), Month(n) - 1) < n
         /\ n <= NewYear(Year(n)) + Elapsed(Year(n), Month(n))
         /\ NewYear(Year(n)) \in Int /\ Elapsed(Year(n), Month(n)) \in Nat
         /\ Elapsed(Year(n), Month(n) - 1) \in Nat
         /\ n \in Int
<1>1. FirstYear \in CalendarYears /\ LastYear \in CalendarYears
  BY YearsAre
<1>2. /\ Date(Min(CalendarYears), 1, 1) = NewYear(FirstYear) + 1 /\ Date(Max(CalendarYears), 12, 31) = NewYear(LastYear + 1)
      /\ NewYear(FirstYear) \in Int /\ NewYear(LastYear + 1) \in Int
  <2>1. Date(FirstYear, 1, 1) = NewYear(FirstYear) + Elapsed(FirstYear, 1 - 1) + 1
    BY <1>1, DateIs
  <2>2. Elapsed(FirstYear, 0) = 0
    BY DEF Elapsed
  <2>3. Date(LastYear, 12, 31) = NewYear(LastYear + 1) /\ NewYear(FirstYear) \in Int /\ NewYear(LastYear + 1) \in Int
    BY <1>1, Ends
  <2> QED BY <2>1, <2>2, <2>3 DEF FirstYear, LastYear
<1>3. n \in Int /\ NewYear(FirstYear) < n /\ n <= NewYear(LastYear + 1)
  BY <1>2 DEF AllDays
<1> DEFINE S == {c \in CalendarYears : NewYear(c) < n}
<1> DEFINE y == Max(S)
<1>4. y \in S /\ \A c \in S : y >= c
  <2>1. S \subseteq Int /\ FirstYear \in S /\ LastYear \in Int /\ \A c \in S : c <= LastYear
    BY <1>1, <1>3, YearsAre
  <2> HIDE DEF S
  <2>2. \E g \in S : \A c \in S : g >= c
    <3> DEFINE U == {LastYear - c : c \in S}
    <3>1. U \subseteq Nat /\ U # {}
      <4>1. \A c \in S : LastYear - c \in Nat
        BY <2>1
      <4> QED BY <2>1, <4>1
    <3>2. PICK u \in U : \A v \in U : u <= v
      BY <3>1, LeastNumber
    <3>3. PICK g \in S : u = LastYear - g
      BY <3>2
    <3>4. \A c \in S : LastYear - g <= LastYear - c
      BY <3>2, <3>3
    <3> QED BY <2>1, <3>4
  <2> QED BY <2>2 DEF Max
<1> DEFINE T == {m \in 1 .. 12 : n <= Date(y, m, days_in_month(y, m))}
<1>5. y \in CalendarYears /\ NewYear(y) < n /\ y \in FirstYear .. LastYear /\ y \in Nat \ {0}
  BY <1>4, YearsAre
<1>6. n <= NewYear(y + 1)
  <2>1. CASE y = LastYear
    BY <1>3, <2>1
  <2>2. CASE y # LastYear
    <3>1. y + 1 \in CalendarYears
      BY <1>5, <2>2, YearsAre
    <3>2. y + 1 \notin S
      BY <1>4, <1>5
    <3>3. NewYear(y + 1) \in Int
      BY <1>5, Ends
    <3> QED BY <3>1, <3>2, <3>3, <1>3
  <2> QED BY <2>1, <2>2
<1> HIDE DEF S
<1> HIDE DEF y
<1>7. 12 \in T
  <2>1. Date(y, 12, days_in_month(y, 12)) = NewYear(y) + Elapsed(y, 12)
    BY <1>5, Ends
  <2>2. NewYear(y + 1) = NewYear(y) + Elapsed(y, 12)
    BY <1>5, YearLength
  <2> QED BY <1>6, <2>1, <2>2
<1>8. Min(T) \in T /\ \A m \in T : Min(T) <= m
  <2>1. T \subseteq Nat
    OBVIOUS
  <2> HIDE DEF T
  <2>2. \E g \in T : \A m \in T : g <= m
    BY <1>7, <2>1, LeastNumber
  <2> QED BY <2>2 DEF Min
<1> DEFINE m == Min(T)
<1>9. MonthOf[n] = <<y, m>>
  BY <1>2, <1>3 DEF MonthOf, y, S
<1>10. Year(n) = y /\ Month(n) = m
  BY <1>9 DEF Year, Month
<1>11. m \in 1 .. 12 /\ n <= NewYear(y) + Elapsed(y, m)
  <2>1. m \in 1 .. 12 /\ n <= Date(y, m, days_in_month(y, m))
    BY <1>8
  <2> HIDE DEF m
  <2> QED BY <2>1, <1>5, Ends
<1>12. NewYear(y) + Elapsed(y, m - 1) < n
  <2>1. CASE m = 1
    <3>1. m - 1 = 0
      BY <2>1
    <3>2. Elapsed(y, m - 1) = 0
      BY <3>1 DEF Elapsed
    <3>3. NewYear(y) \in Int
      BY <1>5, Ends
    <3> HIDE DEF m
    <3> QED BY <1>5, <1>3, <3>2, <3>3
  <2>2. CASE m # 1
    <3>1. m - 1 \in 1 .. 12
      BY <1>11, <2>2
    <3>2. m - 1 \notin T
      BY <1>8, <1>11
    <3> HIDE DEF m
    <3>3. ~(n <= Date(y, m - 1, days_in_month(y, m - 1)))
      BY <3>1, <3>2
    <3>4. Date(y, m - 1, days_in_month(y, m - 1)) = NewYear(y) + Elapsed(y, m - 1)
          /\ Elapsed(y, m - 1) \in Nat /\ NewYear(y) \in Int
      BY <3>1, <1>5, Ends
    <3> QED BY <3>3, <3>4, <1>3
  <2> QED BY <2>1, <2>2
<1> HIDE DEF m
<1>13. NewYear(y) \in Int /\ Elapsed(y, m) \in Nat /\ Elapsed(y, m - 1) \in Nat
  BY <1>5, <1>11, Ends, ElapsedNext
<1> QED BY <1>3, <1>5, <1>10, <1>11, <1>12, <1>13

\* The dates that have a year to spare, and their years.
LEMMA DatesAre ==
  /\ Dates = NewYear(FirstYear + 1) + 1 .. NewYear(LastYear)
  /\ \A y \in FirstYear .. LastYear + 1 : NewYear(y) \in Int
  /\ FirstYear + 1 \in CalendarYears /\ LastYear - 1 \in CalendarYears
  /\ Dates \subseteq AllDays /\ FirstYear <= LastYear
<1>1. FirstYear + 2 <= LastYear
  BY CalendarAssumption DEF FirstYear, LastYear
<1>2. /\ FirstYear + 1 \in CalendarYears /\ LastYear - 1 \in CalendarYears
      /\ FirstYear + 1 \in Nat \ {0} /\ LastYear - 1 \in Nat \ {0} /\ LastYear \in Nat \ {0}
      /\ FirstYear \in Nat \ {0}
  BY <1>1, YearsAre
<1>3. Date(FirstYear + 1, 1, 1) = NewYear(FirstYear + 1) + 1
  <2>1. Date(FirstYear + 1, 1, 1) = NewYear(FirstYear + 1) + Elapsed(FirstYear + 1, 1 - 1) + 1
    BY <1>2, DateIs
  <2>2. Elapsed(FirstYear + 1, 1 - 1) = 0 /\ NewYear(FirstYear + 1) \in Int
    BY <1>2, YearLength DEF Elapsed
  <2> QED BY <2>1, <2>2
<1>4. Date(LastYear - 1, 12, 31) = NewYear(LastYear)
  <2>1. Date(LastYear - 1, 12, 31) = NewYear(LastYear - 1 + 1)
    BY <1>2, Ends
  <2>2. LastYear - 1 + 1 = LastYear
    BY <1>2
  <2> QED BY <2>1, <2>2
<1>5. Dates = NewYear(FirstYear + 1) + 1 .. NewYear(LastYear)
  BY <1>3, <1>4 DEF Dates, FirstYear, LastYear
<1>6. ASSUME NEW y \in FirstYear .. LastYear + 1 PROVE NewYear(y) \in Int
  <2>1. y \in Nat \ {0}
    BY <1>2
  <2> QED BY <2>1, YearLength
<1>7. NewYear(FirstYear) <= NewYear(FirstYear + 1) /\ NewYear(LastYear) <= NewYear(LastYear + 1)
  <2>1. NewYear(FirstYear) + 365 <= NewYear(FirstYear + 1) /\ NewYear(FirstYear) \in Int /\ NewYear(FirstYear + 1) \in Int
    BY <1>2, YearsInOrder
  <2>2. NewYear(LastYear) + 365 <= NewYear(LastYear + 1) /\ NewYear(LastYear) \in Int /\ NewYear(LastYear + 1) \in Int
    <3>1. LastYear < LastYear + 1 /\ LastYear + 1 \in Nat
      BY <1>2
    <3> QED BY <3>1, <1>2, YearsInOrder
  <2> QED BY <2>1, <2>2
<1>8. Dates \subseteq AllDays
  <2>1. NewYear(FirstYear) \in Int /\ NewYear(FirstYear + 1) \in Int /\ NewYear(LastYear) \in Int /\ NewYear(LastYear + 1) \in Int
    <3>1. {FirstYear, FirstYear + 1, LastYear, LastYear + 1} \subseteq FirstYear .. LastYear + 1
      BY <1>1, <1>2
    <3> QED BY <3>1, <1>6
  <2> QED BY <1>5, <1>7, <2>1 DEF AllDays
<1> QED BY <1>1, <1>2, <1>5, <1>6, <1>8

\* The end of the month that a day is in.
LEMMA MonthEndIs ==
  ASSUME NEW n \in AllDays
  PROVE  /\ n <= month_end(n) /\ month_end(n) \in Int /\ n \in Int
         /\ month_end(n) = NewYear(Year(n)) + Elapsed(Year(n), Month(n))
         /\ month_end(n) <= NewYear(Year(n) + 1) /\ NewYear(Year(n)) < n
         /\ Year(n) \in CalendarYears /\ Year(n) \in Nat \ {0}
         /\ NewYear(Year(n) + 1) \in Int /\ NewYear(Year(n)) \in Int
<1> DEFINE y == Year(n)
<1> DEFINE m == Month(n)
<1>1. /\ y \in CalendarYears /\ m \in 1 .. 12 /\ n \in Int
      /\ NewYear(y) + Elapsed(y, m - 1) < n /\ n <= NewYear(y) + Elapsed(y, m)
      /\ NewYear(y) \in Int /\ Elapsed(y, m) \in Nat /\ Elapsed(y, m - 1) \in Nat
  BY MonthIs, DatesAre
<1> HIDE DEF y, m
<1>2. y \in Nat \ {0}
  BY <1>1, YearsAre
<1>3. month_end(n) = NewYear(y) + Elapsed(y, m)
  BY <1>1, Ends DEF month_end, y, m
<1>4. NewYear(y + 1) = NewYear(y) + Elapsed(y, 12) /\ Elapsed(y, 12) \in Nat
  BY <1>2, YearLength, ElapsedNext
<1>5. Elapsed(y, m) <= Elapsed(y, 12)
  BY <1>1 DEF Elapsed
<1> QED BY <1>1, <1>2, <1>3, <1>4, <1>5 DEF y, m

\* With a year to spare, so does the month.
LEMMA YearsOfDates ==
  ASSUME NEW n \in Dates
  PROVE  /\ Year(n) \in FirstYear + 1 .. LastYear - 1 /\ n \in AllDays /\ n \in Int
         /\ month_end(n) \in Dates /\ year_end(Year(n)) \in Dates
         /\ n <= month_end(n) /\ n <= year_end(Year(n))
         /\ year_end(Year(n) + 1) > year_end(Year(n)) /\ year_end(Year(n) + 1) \in AllDays
         /\ Year(n) + 1 \in CalendarYears
<1> DEFINE y == Year(n)
<1>1. /\ n \in AllDays /\ n <= month_end(n) /\ month_end(n) \in Int /\ n \in Int
      /\ month_end(n) <= NewYear(y + 1) /\ NewYear(y) < n /\ y \in CalendarYears /\ y \in Nat \ {0}
      /\ NewYear(y + 1) \in Int /\ NewYear(y) \in Int
  BY DatesAre, MonthEndIs
<1>2. /\ Dates = NewYear(FirstYear + 1) + 1 .. NewYear(LastYear) /\ y \in FirstYear .. LastYear
      /\ FirstYear \in Nat \ {0} /\ LastYear \in Nat
  BY DatesAre, YearsAre, <1>1
<1> HIDE DEF y
<1>3. y < LastYear
  <2> SUFFICES ASSUME y = LastYear PROVE FALSE
    BY <1>2
  <2> QED BY <1>1, <1>2
<1>4. FirstYear < y
  <2> SUFFICES ASSUME y = FirstYear PROVE FALSE
    BY <1>2
  <2> QED BY <1>1, <1>2
<1>5. /\ NewYear(FirstYear + 1) \in Int /\ NewYear(LastYear) \in Int /\ NewYear(y + 2) \in Int
      /\ NewYear(LastYear + 1) \in Int /\ NewYear(FirstYear) \in Int
  <2>1. {FirstYear + 1, LastYear, y + 2, LastYear + 1, FirstYear} \subseteq FirstYear .. LastYear + 1
    BY <1>2, <1>3, <1>4
  <2> QED BY <2>1, DatesAre
<1>6. NewYear(y + 1) <= NewYear(LastYear)
  <2>1. CASE y + 1 = LastYear
    BY <2>1, <1>5
  <2>2. CASE y + 1 # LastYear
    <3>1. y + 1 < LastYear /\ y + 1 \in Nat \ {0} /\ LastYear \in Nat
      BY <2>2, <1>2, <1>3
    <3> QED BY <3>1, <1>1, <1>5, YearsInOrder
  <2> QED BY <2>1, <2>2
<1>7. NewYear(y + 1) < NewYear(y + 2) /\ NewYear(y + 2) <= NewYear(LastYear + 1)
  <2>1. NewYear(y + 1) + 365 <= NewYear(y + 2)
    <3>1. y + 1 < y + 2 /\ y + 1 \in Nat \ {0} /\ y + 2 \in Nat
      BY <1>1
    <3> QED BY <3>1, YearsInOrder
  <2>2. NewYear(y + 2) <= NewYear(LastYear + 1)
    <3>1. CASE y + 2 = LastYear + 1
      BY <3>1, <1>5
    <3>2. CASE y + 2 # LastYear + 1
      <4>1. y + 2 < LastYear + 1 /\ y + 2 \in Nat \ {0} /\ LastYear + 1 \in Nat
        BY <3>2, <1>2, <1>3
      <4> QED BY <4>1, <1>5, YearsInOrder
    <3> QED BY <3>1, <3>2
  <2> QED BY <1>1, <1>5, <2>1, <2>2
<1>8. y + 1 \in CalendarYears /\ y + 1 + 1 = y + 2
  BY <1>2, <1>3, YearsAre
<1>9. year_end(y) = NewYear(y + 1) /\ year_end(y + 1) = NewYear(y + 2)
  <2>1. Date(y, 12, 31) = NewYear(y + 1) /\ Date(y + 1, 12, 31) = NewYear(y + 1 + 1)
    BY <1>1, <1>8, Ends
  <2> QED BY <2>1, <1>8 DEF year_end
<1>10. NewYear(FirstYear + 1) + 1 <= n /\ n <= NewYear(LastYear)
  BY <1>2, <1>5
<1>11. month_end(n) \in Dates /\ NewYear(y + 1) \in Dates
  BY <1>1, <1>2, <1>5, <1>6, <1>10
<1>12. NewYear(y + 2) \in AllDays
  <2>1. NewYear(FirstYear) + 1 <= NewYear(y + 1)
    <3>1. AllDays = NewYear(FirstYear) + 1 .. NewYear(LastYear + 1) /\ NewYear(y + 1) \in AllDays
      BY <1>11, DatesAre DEF AllDays
    <3> QED BY <3>1, <1>5
  <2> QED BY <2>1, <1>1, <1>5, <1>7 DEF AllDays
<1>13. y \in FirstYear + 1 .. LastYear - 1 /\ y + 1 \in CalendarYears
  BY <1>2, <1>3, <1>4, <1>8
<1>14. n <= year_end(y) /\ year_end(y + 1) > year_end(y)
  <2>1. n <= NewYear(y + 1)
    BY <1>1
  <2>2. NewYear(y + 2) > NewYear(y + 1)
    BY <1>1, <1>5, <1>7
  <2> QED BY <2>1, <2>2, <1>9
<1>15. year_end(y) \in Dates /\ year_end(y + 1) \in AllDays
  BY <1>9, <1>11, <1>12
<1> QED BY <1>1, <1>11, <1>13, <1>14, <1>15, Zenon DEF y

\* What a fetch may step by.
Intervals == {"daily", "weekly", "monthly", "yearly"}

\* Where a history starts, and that it goes on from there.
LEMMA Advances ==
  ASSUME NEW n \in Dates, NEW interval \in Intervals
  PROVE  /\ align_start_date(n, interval) \in Dates /\ n <= align_start_date(n, interval)
         /\ advance_interval_date(n, interval) \in Int /\ n < advance_interval_date(n, interval)
<1>1. /\ n \in Int /\ month_end(n) \in Dates /\ year_end(Year(n)) \in Dates
      /\ n <= month_end(n) /\ n <= year_end(Year(n)) /\ n <= n
      /\ year_end(Year(n) + 1) > year_end(Year(n)) /\ year_end(Year(n) + 1) \in AllDays
  BY YearsOfDates
<1>2. Dates \subseteq Int /\ AllDays \subseteq Int
  BY DatesAre DEF AllDays
<1>3. next_month_end(n) \in Int /\ n < next_month_end(n)
  <2>1. month_end(n) + 1 \in AllDays
    <3>1. FirstYear \in Int /\ LastYear \in Int /\ FirstYear <= LastYear
      BY YearsAre, DatesAre
    <3>2. {FirstYear, LastYear, FirstYear + 1, LastYear + 1} \subseteq FirstYear .. LastYear + 1
      BY <3>1
    <3>3. /\ NewYear(LastYear) \in Int /\ NewYear(LastYear + 1) \in Int /\ NewYear(FirstYear) \in Int
      BY <3>2, DatesAre
    <3>4. NewYear(LastYear) + 365 <= NewYear(LastYear + 1)
      <4>1. LastYear \in Nat \ {0} /\ LastYear < LastYear + 1 /\ LastYear + 1 \in Nat
        BY YearsAre, <3>1
      <4> QED BY <4>1, YearsInOrder
    <3>5. month_end(n) <= NewYear(LastYear) /\ month_end(n) \in AllDays
      BY <1>1, DatesAre, <3>3
    <3> QED BY <3>3, <3>4, <3>5 DEF AllDays
  <2>2. month_end(n) + 1 <= month_end(month_end(n) + 1) /\ month_end(month_end(n) + 1) \in Int
    BY <2>1, MonthEndIs
  <2> DEFINE e == month_end(n)
  <2> DEFINE f == month_end(e + 1)
  <2>3. next_month_end(n) = f
    BY DEF next_month_end
  <2>4. n \in Int /\ e \in Int /\ f \in Int /\ n <= e /\ e + 1 <= f
    BY <1>1, <1>2, <2>2
  <2> HIDE DEF e, f
  <2> QED BY <2>3, <2>4
<1>4. CASE interval = "daily"
  BY <1>1, <1>4 DEF align_start_date, advance_interval_date
<1>5. CASE interval = "weekly"
  BY <1>1, <1>5 DEF align_start_date, advance_interval_date
<1>6. CASE interval = "monthly"
  BY <1>1, <1>3, <1>6 DEF align_start_date, advance_interval_date
<1>7. CASE interval = "yearly"
  BY <1>1, <1>2, <1>7 DEF align_start_date, advance_interval_date
<1> QED BY <1>4, <1>5, <1>6, <1>7 DEF Intervals

\* Bounded integers have a least and a greatest one.
LEMMA Extremes ==
  ASSUME NEW S, S \subseteq Int, S # {}
  PROVE  /\ (\E b \in Int : \A c \in S : b <= c) => Min(S) \in S /\ \A c \in S : Min(S) <= c
         /\ (\E b \in Int : \A c \in S : c <= b) => \E g \in S : \A c \in S : c <= g
<1>1. ASSUME NEW b \in Int, \A c \in S : b <= c PROVE Min(S) \in S /\ \A c \in S : Min(S) <= c
  <2> DEFINE U == {c - b : c \in S}
  <2>1. U \subseteq Nat /\ U # {}
    <3>1. \A c \in S : c - b \in Nat
      BY <1>1
    <3> QED BY <3>1
  <2>2. PICK u \in U : \A v \in U : u <= v
    BY <2>1, LeastNumber
  <2>3. PICK g \in S : u = g - b
    BY <2>2
  <2>4. \A c \in S : g - b <= c - b
    BY <2>2, <2>3
  <2>5. \A c \in S : g <= c
    BY <2>4
  <2> QED BY <2>5 DEF Min
<1>2. ASSUME NEW b \in Int, \A c \in S : c <= b PROVE \E g \in S : \A c \in S : c <= g
  <2> DEFINE U == {b - c : c \in S}
  <2>1. U \subseteq Nat /\ U # {}
    <3>1. \A c \in S : b - c \in Nat
      BY <1>2
    <3> QED BY <3>1
  <2>2. PICK u \in U : \A v \in U : u <= v
    BY <2>1, LeastNumber
  <2>3. PICK g \in S : u = b - g
    BY <2>2
  <2>4. \A c \in S : b - g <= b - c
    BY <2>2, <2>3
  <2>5. \A c \in S : c <= g
    BY <2>4
  <2> QED BY <2>5
<1> QED BY <1>1, <1>2

\* The dates are an interval.
LEMMA DatesInterval == \E a \in Int, b \in Int : Dates = a .. b
<1>1. {FirstYear + 1, LastYear} \subseteq FirstYear .. LastYear + 1
  BY DatesAre, YearsAre
<1>2. NewYear(FirstYear + 1) \in Int /\ NewYear(LastYear) \in Int
  BY <1>1, DatesAre
<1>3. NewYear(FirstYear + 1) + 1 \in Int
  BY <1>2
<1> QED BY <1>2, <1>3, DatesAre

\* What is defined from the next on, until the end, is defined.
Onward(f, C, N, first, end) ==
    f = [d \in first .. end |-> C[d] \cup IF N[d] > end THEN {} ELSE f[N[d]]]

\* It exists though its length is not known: the last is settled, then each before it.
LEMMA OnwardExists ==
  ASSUME NEW first \in Int, NEW end \in Int, NEW C, NEW N,
         \A d \in first .. end : N[d] \in Int /\ N[d] > d
  PROVE  \E f : Onward(f, C, N, first, end)
<1> DEFINE Dom(k) == {d \in first .. end : end - d < k}
<1> DEFINE P(k) == \E g : \A d \in Dom(k) : g[d] = C[d] \cup IF N[d] > end THEN {} ELSE g[N[d]]
<1>1. P(0)
  <2>1. Dom(0) = {}
    OBVIOUS
  <2> QED BY <2>1
<1>2. ASSUME NEW k \in Nat, P(k) PROVE P(k + 1)
  <2>1. PICK g : \A d \in Dom(k) : g[d] = C[d] \cup IF N[d] > end THEN {} ELSE g[N[d]]
    BY <1>2
  <2> DEFINE h == [d \in Dom(k + 1) |-> IF d \in Dom(k) THEN g[d]
                                        ELSE C[d] \cup IF N[d] > end THEN {} ELSE g[N[d]]]
  <2>2. ASSUME NEW d \in Dom(k + 1), ~(N[d] > end) PROVE N[d] \in Dom(k) /\ N[d] \in Dom(k + 1)
    BY <2>2
  <2>3. \A d \in Dom(k) : d \in Dom(k + 1)
    OBVIOUS
  <2>4. ASSUME NEW d \in Dom(k + 1) PROVE h[d] = C[d] \cup IF N[d] > end THEN {} ELSE h[N[d]]
    <3>1. h[d] = C[d] \cup IF N[d] > end THEN {} ELSE g[N[d]]
      BY <2>1
    <3>2. CASE N[d] > end
      BY <3>1, <3>2
    <3>3. CASE ~(N[d] > end)
      <4>1. h[N[d]] = g[N[d]]
        BY <2>2, <3>3
      <4> QED BY <3>1, <3>3, <4>1
    <3> QED BY <3>2, <3>3
  <2> HIDE DEF h, Dom
  <2> QED BY <2>4
<1>3. \A k \in Nat : P(k)
  <2> HIDE DEF P
  <2> SUFFICES ASSUME {k \in Nat : ~P(k)} # {} PROVE FALSE
    OBVIOUS
  <2>1. PICK k \in {i \in Nat : ~P(i)} : \A j \in {i \in Nat : ~P(i)} : k <= j
    BY LeastNumber
  <2>2. k # 0
    BY <1>1, <2>1
  <2>3. k - 1 \in Nat /\ ~(k <= k - 1) /\ k - 1 + 1 = k
    BY <2>1, <2>2
  <2>4. P(k - 1)
    BY <2>1, <2>3
  <2>5. P(k - 1 + 1)
    BY <1>2, <2>3, <2>4
  <2> QED BY <2>1, <2>3, <2>5
<1>4. CASE first > end
  <2>1. first .. end = {}
    BY <1>4
  <2>2. Onward([d \in first .. end |-> {}], C, N, first, end)
    BY <2>1 DEF Onward
  <2> QED BY <2>2
<1>5. CASE first <= end
  <2>1. end - first + 1 \in Nat
    BY <1>5
  <2>2. Dom(end - first + 1) = first .. end
    OBVIOUS
  <2>3. PICK g : \A d \in Dom(end - first + 1) : g[d] = C[d] \cup IF N[d] > end THEN {} ELSE g[N[d]]
    BY <1>3, <2>1
  <2> DEFINE h == [d \in first .. end |-> g[d]]
  <2>4. ASSUME NEW d \in first .. end PROVE h[d] = C[d] \cup IF N[d] > end THEN {} ELSE h[N[d]]
    <3>1. h[d] = C[d] \cup IF N[d] > end THEN {} ELSE g[N[d]]
      BY <2>2, <2>3
    <3>2. ~(N[d] > end) => N[d] \in first .. end
      OBVIOUS
    <3> QED BY <3>1, <3>2
  <2>5. h = [d \in first .. end |-> C[d] \cup IF N[d] > end THEN {} ELSE h[N[d]]]
    <3> DEFINE r == [d \in first .. end |-> C[d] \cup IF N[d] > end THEN {} ELSE h[N[d]]]
    <3>1. \A d \in first .. end : h[d] = r[d]
      BY <2>4
    <3>2. h = [d \in first .. end |-> h[d]] /\ r = [d \in first .. end |-> r[d]]
      OBVIOUS
    <3> HIDE DEF h, r
    <3>3. h = r
      BY <3>1, <3>2
    <3> QED BY <3>3 DEF r
  <2> QED BY <2>5 DEF Onward
<1> QED BY <1>4, <1>5

\* The dates that are visited are between the first and the end.
LEMMA VisitedAre ==
  ASSUME NEW start \in Dates, NEW end \in Dates, NEW interval \in Intervals
  PROVE  VisitedDates(start, end, interval) \subseteq align_start_date(start, interval) .. end
<1> DEFINE first == align_start_date(start, interval)
<1> DEFINE days == first .. end
<1> DEFINE C == [d \in days |-> {d}]
<1> DEFINE N == [d \in days |-> advance_interval_date(d, interval)]
<1> DEFINE Eq(f) == f = [d \in days |-> LET next == advance_interval_date(d, interval)
                                        IN  {d} \cup IF next > end THEN {} ELSE f[next]]
<1> DEFINE f == CHOOSE f : Eq(f)
<1>1. first \in Dates /\ first \in Int /\ end \in Int /\ start <= first /\ days \subseteq Dates
  <2>1. first \in Dates /\ start <= first
    BY Advances
  <2>2. PICK a \in Int, b \in Int : Dates = a .. b
    BY DatesInterval
  <2> HIDE DEF first
  <2> QED BY <2>1, <2>2
<1>2. \A d \in days : N[d] \in Int /\ N[d] > d
  BY <1>1, Advances
<1>3. \E g : Onward(g, C, N, first, end)
  <2> HIDE DEF C, N
  <2>1. \A d \in first .. end : N[d] \in Int /\ N[d] > d
    BY <1>2
  <2> HIDE DEF first
  <2> QED BY <1>1, <2>1, OnwardExists
<1>4. \E g : Eq(g)
  <2>1. PICK g : Onward(g, C, N, first, end)
    BY <1>3
  <2>2. g = [d \in days |-> C[d] \cup IF N[d] > end THEN {} ELSE g[N[d]]]
    BY <2>1 DEF Onward
  <2>3. ASSUME NEW d \in days
        PROVE  C[d] \cup (IF N[d] > end THEN {} ELSE g[N[d]])
                 = LET next == advance_interval_date(d, interval) IN {d} \cup IF next > end THEN {} ELSE g[next]
    <3>1. C[d] = {d} /\ N[d] = advance_interval_date(d, interval)
      OBVIOUS
    <3> HIDE DEF C, N
    <3> QED BY <3>1
  <2> HIDE DEF first, C, N
  <2>4. Eq(g)
    BY <2>2, <2>3, Zenon
  <2> QED BY <2>4
<1>5. Eq(f)
  BY <1>4
<1>6. VisitedDates(start, end, interval) = IF first > end THEN {} ELSE f[first]
  BY DEF VisitedDates
<1> HIDE DEF f, first
<1>7. ASSUME NEW d \in days PROVE f[d] = {d} \cup IF N[d] > end THEN {} ELSE f[N[d]]
  BY <1>5
<1>8. \A d \in days : f[d] \subseteq d .. end
  <2> DEFINE Bad == {d \in days : ~(f[d] \subseteq d .. end)}
  <2> SUFFICES ASSUME Bad # {} PROVE FALSE
    OBVIOUS
  <2>1. Bad \subseteq Int /\ \A c \in Bad : c <= end
    BY <1>1
  <2> HIDE DEF Bad
  <2>2. PICK d \in Bad : \A c \in Bad : c <= d
    BY <1>1, <2>1, Extremes
  <2>3. d \in days /\ d \in Int /\ d <= end /\ ~(f[d] \subseteq d .. end)
    BY <1>1, <2>2 DEF Bad
  <2>4. N[d] \in Int /\ N[d] > d /\ f[d] = {d} \cup IF N[d] > end THEN {} ELSE f[N[d]]
    BY <1>2, <1>7, <2>3
  <2> HIDE DEF N
  <2>5. CASE N[d] > end
    BY <2>3, <2>4, <2>5, <1>1
  <2>6. CASE ~(N[d] > end)
    <3>1. N[d] \in days
      BY <1>1, <2>3, <2>4, <2>6
    <3>2. N[d] \notin Bad
      BY <2>2, <2>3, <2>4
    <3>3. f[N[d]] \subseteq N[d] .. end
      BY <3>1, <3>2 DEF Bad
    <3> QED BY <3>3, <2>3, <2>4, <2>6, <1>1
  <2> QED BY <2>5, <2>6
<1>9. CASE first > end
  BY <1>6, <1>9
<1>10. CASE ~(first > end)
  <2>1. first \in days
    BY <1>1, <1>10
  <2>2. f[first] \subseteq first .. end
    BY <1>8, <2>1
  <2> QED BY <1>6, <1>10, <2>2 DEF first
<1> QED BY <1>9, <1>10 DEF first

(***************************************************************************)
(* Which prices a fetch brings, and which a look-up finds.                 *)
(***************************************************************************)
Instant == 2 * Today + 1
Stamped(p) == p.date \in Int /\ p.at \in Nat /\ p.at <= Instant /\ p.kind \in {"close", "quote"}
Distinct(points) ==
    \A p, q \in points : p.date = q.date /\ p.at = q.at /\ p.kind = q.kind => p = q
Near(points, d, lookback) == \E p \in points : d - lookback <= p.date /\ p.date <= d

\* What is cached of each day has a price near a date if there is one at all.
LEMMA Cached ==
  ASSUME NEW points, \A p \in points : Stamped(p), NEW d \in Int, NEW lookback \in Nat
  PROVE  resolve_cached(load_price_cache(points), d, lookback) = {} <=> ~Near(points, d, lookback)
<1> DEFINE cache == load_price_cache(points)
<1> DEFINE near == {p \in cache : d - lookback <= p.date /\ p.date <= d}
<1>1. cache \subseteq points /\ \A p \in points : p.date \in Int /\ p.at \in Int /\ p.at <= Instant
  BY DEF load_price_cache, Stamped
<1>2. ASSUME NEW p \in points PROVE \E q \in cache : q.date = p.date
  <2> DEFINE of == {q \in points : q.date = p.date}
  <2> DEFINE T == {q.at : q \in of}
  <2>1. T \subseteq Int /\ T # {} /\ Instant \in Int /\ \A k \in T : k <= Instant
    <3>1. Today \in Int
      BY CalendarAssumption, DatesAre
    <3>2. p.at \in T
      OBVIOUS
    <3> QED BY <1>1, <3>1, <3>2 DEF Instant
  <2>2. PICK g \in T : \A k \in T : k <= g
    <3> HIDE DEF T
    <3> QED BY <2>1, Extremes
  <2>3. PICK q \in of : g = q.at
    BY <2>2
  <2>4. q \in cache
    BY <2>2, <2>3 DEF load_price_cache
  <2> QED BY <2>3, <2>4
<1>3. resolve_cached(cache, d, lookback) = {p \in near : \A q \in near : q.date <= p.date}
  BY DEF resolve_cached
<1>4. CASE Near(points, d, lookback)
  <2>1. PICK p \in points : d - lookback <= p.date /\ p.date <= d
    BY <1>4 DEF Near
  <2> DEFINE T == {q.date : q \in near}
  <2>2. near # {}
    BY <1>2, <2>1
  <2>3. T \subseteq Int /\ T # {} /\ \A k \in T : k <= d
    BY <1>1, <2>2
  <2>4. PICK g \in T : \A k \in T : k <= g
    <3> HIDE DEF T
    <3> QED BY <2>3, Extremes
  <2>5. PICK q \in near : g = q.date
    BY <2>4
  <2> QED BY <1>3, <1>4, <2>4, <2>5
<1>5. CASE ~Near(points, d, lookback)
  <2>1. near = {}
    BY <1>1, <1>5 DEF Near
  <2> QED BY <1>3, <1>5, <2>1
<1> QED BY <1>4, <1>5

\* In the instance that the portfolio has of the service, the same points are later.
LEMMA SameChoice ==
  ASSUME NEW c, NEW ps, NEW rs, NEW points
  PROVE  Market(c, ps, rs)!select_latest(points)
           = {p \in points : \A q \in points \ {p} : Market(c, ps, rs)!Later(p, q)}
BY DEF Market!select_latest

Sorted(points) == [p \in points |-> [date |-> p.date, at |-> p.at, kind |-> p.kind]]

\* There is one latest of the points up to a day.
LEMMA LatestThere ==
  ASSUME NEW c, NEW ps, NEW rs, NEW d \in Int,
         NEW points, points # {}, \A p \in points : Stamped(p) /\ p.date <= d, Distinct(points)
  PROVE  \E m \in Market(c, ps, rs)!select_latest(points) :
             m \in points /\ \A q \in points : q.date <= m.date
<1> DEFINE sorted == Sorted(points)
<1> DEFINE K == {sorted[p] : p \in points}
<1>1. ASSUME NEW p \in points
      PROVE  /\ sorted[p] \in PricePoint /\ sorted[p].date = p.date /\ sorted[p].at = p.at /\ sorted[p].kind = p.kind
             /\ sorted[p].date <= d /\ sorted[p].at <= Instant /\ p.date \in Int /\ p.at \in Nat
             /\ Rank(p) \in 0 .. 2
  BY DEF Sorted, Stamped, PricePoint, Rank
<1>2. K \subseteq PricePoint /\ K # {} /\ \A k \in K : k.date <= d /\ k.at <= Instant
  BY <1>1
<1>3. Instant \in Nat
  <2>1. Today \in Int
    BY CalendarAssumption, DatesAre
  <2>2. PICK p \in points : TRUE
    OBVIOUS
  <2> QED BY <1>1, <2>1, <2>2 DEF Instant
<1>4. PICK k \in K : \A l \in K : l = k \/ Later(k, l)
  <2> HIDE DEF K
  <2> QED BY <1>2, <1>3, OneLatest
<1>5. PICK m \in points : k = sorted[m]
  BY <1>4
<1>6. ASSUME NEW q \in points, q # m PROVE Market(c, ps, rs)!Later(m, q) /\ q.date <= m.date
  <2>1. sorted[q] # k
    BY <1>1, <1>5, <1>6 DEF Distinct
  <2>2. Later(k, sorted[q])
    BY <1>4, <2>1
  <2>3. Rank(k) = Rank(m) /\ Rank(sorted[q]) = Rank(q)
    BY <1>1, <1>5 DEF Rank
  <2>4. \/ m.date > q.date
        \/ m.date = q.date /\ m.at > q.at
        \/ m.date = q.date /\ m.at = q.at /\ Rank(m) > Rank(q)
    BY <2>2, <2>3, <1>1, <1>5 DEF Later
  <2>5. Market(c, ps, rs)!Rank(m) = Rank(m) /\ Market(c, ps, rs)!Rank(q) = Rank(q)
    BY DEF Market!Rank, Rank
  <2>6. Market(c, ps, rs)!Later(m, q)
    BY <2>4, <2>5 DEF Market!Later
  <2> QED BY <2>4, <2>6, <1>1
<1>7. m.date <= m.date
  BY <1>1
<1> QED BY <1>6, <1>7, SameChoice

\* What a range brings where the source of closes answers.
Close(c) == [date |-> c, at |-> Instant, kind |-> "close", value |-> 12]
ClosedIn(start, end) == {c \in TradingDays \cap (start .. end) : c < Today}
Put(days) == {[date |-> c, at |-> Instant, kind |-> "close"] : c \in days}

\* The one source answers a range with the sessions in it that are over.
LEMMA RangeBrings ==
  ASSUME NEW s, s.sources = <<"eodhd">>, NEW ps, NEW rs,
         NEW up, "eodhd" \in up, NEW start \in Int, NEW end \in Int
  PROVE  Market(s, ps, rs)!price_closes_range(up, start, end).put = Put(ClosedIn(start, end))
<1> DEFINE sources == s.sources
<1> DEFINE answer == [i \in Market(s, ps, rs)!Named(sources) |-> Market(s, ps, rs)!fetch_closes(i, start, end)]
<1> DEFINE days == Market(s, ps, rs)!Routed(sources, up, answer)
<1>1. Today \in Int /\ Market(s, ps, rs)!CurrentDay = Today
  <2>1. Today \in Int
    BY CalendarAssumption, DatesAre
  <2> QED BY <2>1 DEF Market!CurrentDay
<1>2. Market(s, ps, rs)!price_closes_range(up, start, end).put
         = {Market(s, ps, rs)!Point(c, "close") : c \in days}
  BY DEF Market!price_closes_range, Market!Reply
<1>3. sources = <<"eodhd">> /\ Market(s, ps, rs)!Named(sources) = {"eodhd"}
  BY DEF Market!Named
<1>4. Market(s, ps, rs)!fetch_closes("eodhd", start, end) = ClosedIn(start, end)
  <2>1. \A d : Market(s, ps, rs)!fetch_close("eodhd", d) = {c \in TradingDays : c < Today} \cap {d}
    BY <1>1 DEF Market!fetch_close, Market!eodhd, Market!Closed
  <2>2. Market(s, ps, rs)!fetch_closes("eodhd", start, end)
           = {c \in UNION {Market(s, ps, rs)!fetch_close("eodhd", d) : d \in start .. end} : start <= c /\ c <= end}
    BY DEF Market!fetch_closes
  <2>3. UNION {Market(s, ps, rs)!fetch_close("eodhd", d) : d \in start .. end} = ClosedIn(start, end)
    <3> DEFINE of(d) == Market(s, ps, rs)!fetch_close("eodhd", d)
    <3>1. \A d : of(d) = {c \in TradingDays : c < Today} \cap {d}
      BY <2>1
    <3> HIDE DEF of
    <3>2. UNION {of(d) : d \in start .. end} = {c \in TradingDays \cap (start .. end) : c < Today}
      BY <3>1
    <3> QED BY <3>2 DEF ClosedIn, of
  <2>4. \A c \in ClosedIn(start, end) : start <= c /\ c <= end
    BY DEF ClosedIn
  <2> QED BY <2>2, <2>3, <2>4
<1>5. answer = [i \in {"eodhd"} |-> ClosedIn(start, end)]
  BY <1>3, <1>4
<1>6. days = ClosedIn(start, end)
  <2> DEFINE has == {i \in DOMAIN sources : sources[i] \in up /\ answer[sources[i]] # {}}
  <2>1. days = UNION {answer[sources[i]] : i \in Market(s, ps, rs)!FirstOf(has)}
    BY DEF Market!Routed
  <2>2. DOMAIN sources = {1} /\ sources[1] = "eodhd"
    <3>1. DOMAIN <<"eodhd">> = {1} /\ <<"eodhd">>[1] = "eodhd"
      OBVIOUS
    <3> HIDE DEF sources
    <3> QED BY <1>3, <3>1
  <2>3. answer["eodhd"] = ClosedIn(start, end)
    BY <1>5
  <2> HIDE DEF days, sources, answer
  <2>4. CASE ClosedIn(start, end) = {}
    <3>1. has = {}
      BY <2>2, <2>3, <2>4
    <3>2. Market(s, ps, rs)!FirstOf(has) = {}
      BY <3>1 DEF Market!FirstOf
    <3> HIDE DEF has
    <3> QED BY <2>1, <2>4, <3>2
  <2>5. CASE ClosedIn(start, end) # {}
    <3>1. has = {1}
      BY <2>2, <2>3, <2>5
    <3>2. Market(s, ps, rs)!FirstOf(has) = {1}
      BY <3>1 DEF Market!FirstOf
    <3> HIDE DEF has
    <3> QED BY <2>1, <2>2, <2>3, <3>2
  <2> QED BY <2>4, <2>5
<1>7. \A c : Market(s, ps, rs)!Point(c, "close") = [date |-> c, at |-> Instant, kind |-> "close"]
  BY DEF Market!Point, Instant
<1> HIDE DEF days
<1>8. Market(s, ps, rs)!price_closes_range(up, start, end).put
        = {[date |-> c, at |-> Instant, kind |-> "close"] : c \in ClosedIn(start, end)}
  BY <1>2, <1>6, <1>7
<1> QED BY <1>8 DEF Put

\* A close as it is stored.
LEMMA Recorded ==
  ASSUME NEW days, NEW put, put = Put(days)
  PROVE  {[date |-> p.date, at |-> p.at, kind |-> "close", value |-> 12] : p \in put} = {Close(c) : c \in days}
<1> DEFINE P(c) == [date |-> c, at |-> Instant, kind |-> "close"]
<1> DEFINE Q(p) == [date |-> p.date, at |-> p.at, kind |-> "close", value |-> 12]
<1>1. \A c : Q(P(c)) = Close(c)
  BY DEF Close
<1> HIDE DEF P, Q
<1>2. {Q(p) : p \in {P(c) : c \in days}} = {Close(c) : c \in days}
  BY <1>1
<1> QED BY <1>2 DEF P, Q, Put

\* A history finds what a fetch left there.
LEMMA HistoryFinds ==
  ASSUME NEW s, s.lookback \in Nat \cup {None}, NEW ps, NEW rs, \A p \in ps : Stamped(p), Distinct(ps),
         NEW d \in Int, NEW lookback \in Nat, Near(ps, d, lookback),
         s.lookback = None \/ s.lookback >= lookback
  PROVE  \E p \in Market(s, ps, rs)!price_close({}, d).answer : d - lookback <= p.date /\ p.date <= d
<1> DEFINE reach == IF s.lookback = None THEN Market(s, ps, rs)!OnOrBefore(ps, d)
                    ELSE Market(s, ps, rs)!OnOrBefore(Market(s, ps, rs)!OnOrAfter(ps, d - s.lookback), d)
<1>1. None \notin Int
  BY CalendarAssumption
<1>2. PICK p \in ps : d - lookback <= p.date /\ p.date <= d
  BY DEF Near
<1>3. p.date \in Int
  BY DEF Stamped
<1>4. reach \subseteq ps /\ p \in reach /\ \A q \in reach : q.date <= d
  BY <1>1, <1>2, <1>3 DEF Market!OnOrBefore, Market!OnOrAfter
<1>5. Distinct(reach) /\ \A q \in reach : Stamped(q) /\ q.date <= d
  BY <1>4 DEF Distinct
<1>6. PICK m \in Market(s, ps, rs)!select_latest(reach) : m \in reach /\ \A q \in reach : q.date <= m.date
  <2> HIDE DEF reach
  <2> QED BY <1>4, <1>5, LatestThere
<1>7. d - lookback <= m.date /\ m.date <= d
  <2>1. m.date \in Int /\ p.date <= m.date /\ m.date <= d
    BY <1>4, <1>5, <1>6 DEF Stamped
  <2> QED BY <1>2, <1>3, <2>1
<1> DEFINE held == Market(s, ps, rs)!price_from_store(ps, d)
<1>8. held = Market(s, ps, rs)!OrProjected(
                  Market(s, ps, rs)!select_latest(reach),
                  Market(s, ps, rs)!select_earliest_price(Market(s, ps, rs)!OnOrAfter(ps, d)))
  BY DEF Market!price_from_store
<1> HIDE DEF held, reach
<1>9. held = Market(s, ps, rs)!select_latest(reach)
  BY <1>6, <1>8 DEF Market!OrProjected
<1>10. Market(s, ps, rs)!price_close({}, d).answer = held
  BY <1>6, <1>9 DEF Market!price_close, Market!StoredFirst, Market!Reply, held
<1> QED BY <1>6, <1>7, <1>9, <1>10

(***************************************************************************)
(* The portfolio: what is stored before a fetch may be anything; it then   *)
(* brings what is missing.                                                 *)
(***************************************************************************)
\* Types; what is not the fetch's own is stored before it.
StoredFill ==
    /\ snapshots \in [Holders -> SUBSET [at : SnapshotTimes, holds : Holdings]]
    /\ portfolio \in PortfolioConfigs \cup {None}
    /\ filled = None => quotes \subseteq Quotes
    /\ filled # None => portfolio \in PortfolioConfigs
FillInv == StoredFill /\ FilledWherePriced

\* Nothing is there at first.
LEMMA FillInit == ASSUME PortfolioInit PROVE FillInv
BY DEF PortfolioInit, FillInv, StoredFill, FilledWherePriced

\* Today is a day.
LEMMA TodayIs == Today \in Nat /\ Instant \in Nat
<1>1. FirstYear + 1 \in Nat /\ 1 < FirstYear + 1 /\ LastYear \in Nat /\ FirstYear + 1 \in FirstYear .. LastYear + 1
  BY YearsAre, DatesAre
<1>2. NewYear(1) + 365 <= NewYear(FirstYear + 1) /\ NewYear(FirstYear + 1) \in Int
  BY <1>1, YearsInOrder
<1>3. NewYear(1) = 0
  BY DEF NewYear
<1>4. NewYear(FirstYear + 1) + 1 <= Today /\ Today \in Int
  BY <1>2, DatesAre, CalendarAssumption
<1> QED BY <1>2, <1>3, <1>4 DEF Instant

\* Stored prices are distinct, and so are they with those that are brought.
LEMMA Distinguished ==
  ASSUME quotes \subseteq Quotes, NEW brought, \A p \in brought : p.date \in Int /\ p = Close(p.date)
  PROVE  (\A p \in quotes \cup brought : Stamped(p)) /\ Distinct(quotes \cup brought)
<1>1. Instant \in Nat
  BY TodayIs
<1>2. ASSUME NEW p \in quotes PROVE Stamped(p) /\ p.at # Instant
  BY <1>1, PortfolioAssumption DEF Stamped, Instant
<1>3. ASSUME NEW p \in brought PROVE Stamped(p) /\ p.at = Instant
  BY <1>1 DEF Stamped, Close
<1>4. ASSUME NEW p \in quotes \cup brought, NEW q \in quotes \cup brought,
             p.date = q.date, p.at = q.at, p.kind = q.kind
      PROVE  p = q
  <2>1. CASE p \in quotes /\ q \in quotes
    BY <1>4, <2>1, PortfolioAssumption
  <2>2. CASE p \in brought /\ q \in brought
    BY <1>4, <2>2
  <2> QED BY <1>2, <1>3, <1>4, <2>1, <2>2
<1>5. \A p \in quotes \cup brought : Stamped(p)
  BY <1>2, <1>3
<1> QED BY <1>4, <1>5 DEF Distinct

\* What a fetch brings, in whatever interval: nothing where each date has a price near.
LEMMA FetchBrings ==
  ASSUME quotes \subseteq Quotes, NEW start \in Dates, NEW end \in Dates, NEW interval \in Intervals,
         NEW lookback \in Nat, NEW up, "eodhd" \in up, "share" \in EverHeld
  PROVE  /\ \A p \in FetchedPrices(start, end, interval, lookback, up) :
                p.date \in Int /\ p = Close(p.date) /\ p.date \in TradingDays /\ p.date < Today
         /\ \A d \in VisitedDates(start, end, interval) : \A c \in d - lookback .. d :
                /\ c \in TradingDays /\ c < Today
                /\ ~(\A e \in VisitedDates(start, end, interval) : Near(quotes, e, lookback))
                => \E p \in FetchedPrices(start, end, interval, lookback, up) : p.date = c
<1> DEFINE visited == VisitedDates(start, end, interval)
<1> DEFINE first == align_start_date(start, interval)
<1> DEFINE closes == {Close(c) : c \in ClosedIn(FetchStart(start, interval, lookback), end)}
<1>1. first \in Int /\ end \in Int /\ Dates \subseteq Int
  <2>1. Dates \subseteq Int
    BY DatesAre
  <2> QED BY <2>1, Advances
<1>2. visited \subseteq first .. end
  BY VisitedAre
<1>3. FetchStart(start, interval, lookback) = first - lookback
  BY DEF FetchStart
<1>4. \A p \in quotes : Stamped(p)
  BY TodayIs, PortfolioAssumption DEF Stamped, Instant
<1> HIDE DEF visited, first
<1>5. ASSUME NEW d \in visited
      PROVE  resolve_cached(load_price_cache(quotes), d, lookback) = {} <=> ~Near(quotes, d, lookback)
  <2>1. d \in Int
    BY <1>1, <1>2
  <2> QED BY <2>1, <1>4, Cached
<1>6. FetchedPrices(start, end, interval, lookback, up)
        = IF \E d \in visited : ~Near(quotes, d, lookback) THEN closes ELSE {}
  <2>1. {[date |-> p.date, at |-> p.at, kind |-> "close", value |-> 12] :
            p \in Market(Service(lookback, FALSE), quotes, fx)!price_closes_range(
                      up, FetchStart(start, interval, lookback), end).put} = closes
    <3>1. FetchStart(start, interval, lookback) \in Int
      BY <1>1, <1>3
    <3> DEFINE from == FetchStart(start, interval, lookback)
    <3>2. from \in Int
      BY <3>1
    <3> HIDE DEF from
    <3> DEFINE s == Service(lookback, FALSE)
    <3> DEFINE put == Market(s, quotes, fx)!price_closes_range(up, from, end).put
    <3>3. put = Put(ClosedIn(from, end))
      <4>1. s.sources = <<"eodhd">>
        BY DEF Service
      <4> HIDE DEF s
      <4> QED BY <4>1, <3>2, <1>1, RangeBrings
    <3> HIDE DEF put
    <3>5. {[date |-> p.date, at |-> p.at, kind |-> "close", value |-> 12] : p \in put}
            = {Close(c) : c \in ClosedIn(from, end)}
      BY <3>3, Recorded
    <3> QED BY <3>5 DEF from, put, s
  <2>2. (\E d \in visited : resolve_cached(load_price_cache(quotes), d, lookback) = {})
          <=> \E d \in visited : ~Near(quotes, d, lookback)
    BY <1>5
  <2> QED BY <2>1, <2>2, Zenon DEF FetchedPrices, visited
<1>7. \A p \in closes : p.date \in Int /\ p = Close(p.date) /\ p.date \in TradingDays /\ p.date < Today
  <2>1. \A c : Close(c).date = c
    BY DEF Close
  <2>2. FetchStart(start, interval, lookback) \in Int
    BY <1>1, <1>3
  <2>3. \A c \in ClosedIn(FetchStart(start, interval, lookback), end) : c \in Int /\ c \in TradingDays /\ c < Today
    BY <2>2, <1>1 DEF ClosedIn
  <2> QED BY <2>1, <2>3
<1>8. ASSUME NEW d \in visited, NEW c \in d - lookback .. d, c \in TradingDays, c < Today
      PROVE  \E p \in closes : p.date = c
  <2>1. d \in Int /\ first <= d /\ d <= end
    BY <1>1, <1>2
  <2>2. c \in first - lookback .. end
    BY <1>1, <1>8, <2>1
  <2>3. c \in ClosedIn(FetchStart(start, interval, lookback), end)
    BY <1>3, <1>8, <2>2 DEF ClosedIn
  <2>4. Close(c).date = c
    BY DEF Close
  <2> QED BY <2>3, <2>4
<1> HIDE DEF closes
<1> QED BY <1>6, <1>7, <1>8 DEF visited

\* A fetch does what the property says of it.
LEMMA FillKeeps ==
  ASSUME FillInv, portfolio # None, filled = None,
         NEW f, {f.start, f.end} \subseteq Dates \cup {None}, f.interval \in Intervals, f.lookback \in Nat,
         f.up \subseteq STRING, fetch_historical_prices(f)
  PROVE  FillInv'
<1> DEFINE dated == UNION {{DayOf(s.at) : s \in snapshots[a]} : a \in Holders}
<1> DEFINE start == IF f.start = None THEN Min(dated) ELSE f.start
<1> DEFINE end == IF f.end = None THEN Today ELSE f.end
<1> DEFINE visited == VisitedDates(start, end, f.interval)
<1> DEFINE brought == FetchedPrices(start, end, f.interval, f.lookback, f.up)
<1> DEFINE held == quotes \cup brought
<1>1. /\ EverHeld # {} /\ start <= end /\ quotes' = held
      /\ filled' = [visited |-> visited, lookback |-> f.lookback, up |-> f.up, had |-> quotes,
                    missing |-> IF "share" \notin EverHeld THEN {}
                                ELSE {d \in visited :
                                         resolve_cached(load_price_cache(held), d, f.lookback) = {}}]
      /\ snapshots' = snapshots /\ portfolio' = portfolio
  BY Zenon DEF fetch_historical_prices
<1>2. /\ snapshots \in [Holders -> SUBSET [at : SnapshotTimes, holds : Holdings]]
      /\ portfolio \in PortfolioConfigs /\ quotes \subseteq Quotes
  BY DEF FillInv, StoredFill
<1>3. start \in Dates /\ end \in Dates
  <2>1. dated \subseteq Dates
    BY <1>2, PortfolioAssumption DEF DayOf
  <2>2. dated # {}
    BY <1>1 DEF EverHeld
  <2>3. PICK a \in Int, b \in Int : Dates = a .. b
    BY DatesInterval
  <2>4. Min(dated) \in dated
    <3>1. dated \subseteq Int /\ \A c \in dated : a <= c
      BY <2>1, <2>3
    <3> HIDE DEF dated
    <3> QED BY <2>2, <2>3, <3>1, Extremes
  <2> HIDE DEF dated
  <2> QED BY <2>1, <2>4, CalendarAssumption
<1>4. visited \subseteq Int /\ filled' \in Fetches /\ filled' # None
  <2>1. visited \subseteq align_start_date(start, f.interval) .. end
    <3> HIDE DEF start, end, visited
    <3> QED BY <1>3, VisitedAre DEF visited
  <2>2. align_start_date(start, f.interval) .. end \subseteq Int
    <3>1. Dates \subseteq Int
      BY DatesAre
    <3> HIDE DEF start, end
    <3> QED BY <3>1, <1>3, Advances
  <2> HIDE DEF visited, held
  <2>3. visited \subseteq Int /\ filled' \in Fetches
    BY <1>1, <1>2, <2>1, <2>2 DEF Fetches
  <2> QED BY <2>3, HistoryAssumption
<1>5. StoredFill'
  BY <1>1, <1>2, <1>4 DEF StoredFill
<1>6. EverHeld' = EverHeld
  BY <1>1 DEF EverHeld
<1>7. ASSUME "eodhd" \in f.up, "share" \in EverHeld
      PROVE  /\ \A p \in held : Stamped(p)
             /\ Distinct(held)
             /\ \A d \in visited :
                    Near(held, d, f.lookback)
                        <=> \E c \in d - f.lookback .. d :
                                \/ c \in TradingDays /\ c < Today
                                \/ \E p \in quotes : p.date = c
  <2>1. /\ \A p \in brought : p.date \in Int /\ p = Close(p.date) /\ p.date \in TradingDays /\ p.date < Today
        /\ \A d \in visited : \A c \in d - f.lookback .. d :
               c \in TradingDays /\ c < Today /\ ~(\A e \in visited : Near(quotes, e, f.lookback))
                   => \E p \in brought : p.date = c
    <3>1. f.interval \in Intervals /\ f.lookback \in Nat /\ start \in Dates /\ end \in Dates
      BY <1>3
    <3> HIDE DEF start, end
    <3> QED BY <1>2, <3>1, <1>7, FetchBrings
  <2> HIDE DEF brought, visited
  <2>2. (\A p \in held : Stamped(p)) /\ Distinct(held)
    BY <1>2, <2>1, Distinguished
  <2>3. \A p \in held : p.date \in Int
    BY <2>2 DEF Stamped
  <2>4. ASSUME NEW d \in visited, Near(held, d, f.lookback)
        PROVE  \E c \in d - f.lookback .. d : (c \in TradingDays /\ c < Today) \/ \E p \in quotes : p.date = c
    <3>1. PICK p \in held : d - f.lookback <= p.date /\ p.date <= d
      BY <2>4 DEF Near
    <3>2. p.date \in d - f.lookback .. d
      BY <3>1, <2>3, <1>4
    <3> QED BY <3>1, <3>2, <2>1
  <2>5. ASSUME NEW d \in visited, NEW c \in d - f.lookback .. d, (c \in TradingDays /\ c < Today) \/ \E p \in quotes : p.date = c
        PROVE  Near(held, d, f.lookback)
    <3>1. d - f.lookback <= c /\ c <= d
      BY <1>4
    <3>2. CASE \A e \in visited : Near(quotes, e, f.lookback)
      BY <3>2 DEF Near
    <3>3. CASE ~(\A e \in visited : Near(quotes, e, f.lookback))
      <4>1. \E p \in held : p.date = c
        BY <2>1, <2>5, <3>3
      <4> QED BY <3>1, <4>1 DEF Near
    <3> QED BY <3>2, <3>3
  <2> HIDE DEF held
  <2> QED BY <2>2, <2>4, <2>5
<1>8. ASSUME "eodhd" \in filled'.up, "share" \in EverHeld
      PROVE  /\ filled'.missing = {d \in filled'.visited : \A c \in d - filled'.lookback .. d :
                                      /\ c \in TradingDays => c >= Today
                                      /\ \A p \in filled'.had : p.date # c}
             /\ \A d \in filled'.visited \ filled'.missing : d \in Int /\ Near(held, d, f.lookback)
  <2>1. /\ filled'.visited = visited /\ filled'.lookback = f.lookback /\ filled'.up = f.up /\ filled'.had = quotes
        /\ filled'.missing = {d \in visited : resolve_cached(load_price_cache(held), d, f.lookback) = {}}
    <3> HIDE DEF visited, held
    <3> QED BY <1>1, <1>8
  <2> HIDE DEF visited, held
  <2>2. \A d \in visited : resolve_cached(load_price_cache(held), d, f.lookback) = {} <=> ~Near(held, d, f.lookback)
    BY <1>4, <1>7, <1>8, <2>1, Cached
  <2>3. Today \in Int
    BY TodayIs
  <2>4. ASSUME NEW d \in visited
        PROVE  ~Near(held, d, f.lookback)
                 <=> \A c \in d - f.lookback .. d :
                         /\ c \in TradingDays => c >= Today
                         /\ \A p \in quotes : p.date # c
    <3>1. d \in Int
      BY <1>4
    <3>2. \A c \in d - f.lookback .. d : c \in Int
      BY <3>1
    <3> QED BY <1>7, <1>8, <2>1, <2>3, <3>2
  <2>5. \A d \in visited : d \in Int
    BY <1>4
  <2> QED BY <2>1, <2>2, <2>4, <2>5
<1>9. ASSUME "eodhd" \in filled'.up, "share" \in EverHeld, NEW d \in filled'.visited \ filled'.missing,
             portfolio.lookback = None \/ portfolio.lookback >= filled'.lookback
      PROVE  (\E p \in Market(configure_history_market_data, quotes, fx)!price_close({}, d).answer :
                  d - filled.lookback <= p.date /\ p.date <= d)'
  <2>1. filled'.lookback = f.lookback /\ filled'.up = f.up
    BY <1>1
  <2>2. d \in Int /\ Near(quotes', d, f.lookback) /\ (\A p \in quotes' : Stamped(p)) /\ Distinct(quotes')
    <3> HIDE DEF held, visited
    <3> QED BY <1>1, <1>7, <1>8, <1>9, <2>1
  <2>3. configure_history_market_data'.lookback = portfolio.lookback
    BY <1>1 DEF configure_history_market_data, Service
  <2>4. portfolio.lookback \in Nat \cup {None}
    BY <1>2, PortfolioAssumption
  <2> HIDE DEF visited, held, brought
  <2> QED BY <1>9, <2>1, <2>2, <2>3, <2>4, HistoryFinds, Zenon
<1>10. FilledWherePriced'
  <2> HIDE DEF visited, held, brought, start, end
  <2> QED BY <1>1, <1>6, <1>8, <1>9, Zenon DEF FilledWherePriced
<1> QED BY <1>5, <1>10 DEF FillInv

\* Whatever is stored leaves the rest as it is; it is stored before a fetch.
LEMMA StoreKeeps ==
  ASSUME FillInv, PortfolioNext
  PROVE  FillInv'
<1>1. (filled = None) /\ (filled' = None)
  <2>1. CASE SetUp
    BY <2>1, PortfolioAssumption DEF SetUp, FillInv, StoredFill
  <2>2. CASE filled = None /\ PortfolioNext
    BY <2>2 DEF PortfolioNext, SetUp, append_balance_snapshot, StoreQuote, StoreRate
  <2> QED BY <2>1, <2>2 DEF PortfolioNext
<1>2. FilledWherePriced'
  BY <1>1 DEF FilledWherePriced
<1>3. StoredFill'
  <2>1. CASE SetUp
    BY <1>1, <2>1 DEF SetUp, FillInv, StoredFill
  <2>2. ASSUME NEW a \in Holders, NEW at \in SnapshotTimes, NEW holds \in Holdings,
               append_balance_snapshot(a, at, holds)
        PROVE  StoredFill'
    <3>1. [at |-> at, holds |-> holds] \in [at : SnapshotTimes, holds : Holdings]
      OBVIOUS
    <3>2. snapshots' \in [Holders -> SUBSET [at : SnapshotTimes, holds : Holdings]]
      BY <2>2, <3>1 DEF append_balance_snapshot, FillInv, StoredFill
    <3> QED BY <1>1, <2>2, <3>2 DEF append_balance_snapshot, FillInv, StoredFill
  <2>3. ASSUME NEW p \in Quotes \ quotes, StoreQuote(p) PROVE StoredFill'
    BY <1>1, <2>3 DEF StoreQuote, FillInv, StoredFill
  <2>4. ASSUME NEW r \in FxRates \ fx, StoreRate(r) PROVE StoredFill'
    BY <1>1, <2>4 DEF StoreRate, FillInv, StoredFill
  <2> QED BY <2>1, <2>2, <2>3, <2>4 DEF PortfolioNext
<1> QED BY <1>2, <1>3 DEF FillInv

\* A fetch, of a range or at one date.
LEMMA FillNextKeeps ==
  ASSUME FillInv, FillNext
  PROVE  FillInv'
<1>1. portfolio # None /\ filled = None
  BY DEF FillNext
<1>2. ASSUME NEW f \in Fills, fetch_historical_prices(f) PROVE FillInv'
  <2>1. {f.start, f.end} \subseteq Dates \cup {None} /\ f.interval \in Intervals /\ f.lookback \in Nat /\ f.up \subseteq STRING
    BY HistoryAssumption DEF Intervals
  <2> QED BY <1>1, <1>2, <2>1, FillKeeps
<1>3. ASSUME NEW f \in Fills, f.start # None, fill_prices_at_date(f.start, f.lookback, f.up) PROVE FillInv'
  <2> DEFINE g == [start |-> f.start, end |-> f.start, interval |-> "daily", lookback |-> f.lookback, up |-> f.up]
  <2>1. {g.start, g.end} \subseteq Dates \cup {None} /\ g.interval \in Intervals /\ g.lookback \in Nat /\ g.up \subseteq STRING
    BY HistoryAssumption DEF Intervals
  <2>2. fetch_historical_prices(g)
    BY <1>3 DEF fill_prices_at_date
  <2> HIDE DEF g
  <2> QED BY <1>1, <2>1, <2>2, FillKeeps
<1> QED BY <1>2, <1>3 DEF FillNext

\* A step of the rest of the system.
LEMMA FillStutters == ASSUME FillInv, UNCHANGED portfolioVars PROVE FillInv'
<1>1. snapshots' = snapshots /\ quotes' = quotes /\ fx' = fx /\ portfolio' = portfolio /\ filled' = filled
  BY DEF portfolioVars
<1>2. StoredFill'
  BY <1>1 DEF FillInv, StoredFill
<1>3. FilledWherePriced'
  BY <1>1 DEF FillInv, FilledWherePriced, EverHeld, configure_history_market_data
<1> QED BY <1>2, <1>3 DEF FillInv

\* Whatever was stored before, a fetch leaves what it should: the inductive invariant.
THEOREM FillInvHolds == HistorySpec => []FillInv
<1>1. PortfolioInit => FillInv
  BY FillInit
<1>2. FillInv /\ [HistoryNext]_portfolioVars => FillInv'
  BY StoreKeeps, FillNextKeeps, FillStutters DEF HistoryNext
<1> QED BY <1>1, <1>2, PTL DEF HistorySpec

\* After a fetch that reached its source a visited day is without a price only if no session
\* closed and nothing was stored within the look-back, and histories find one on every other
\* visited day: fetch_historical_prices and MarketDataService look alike.
THEOREM FilledHolds == HistorySpec => []FilledWherePriced
<1>1. FillInv => FilledWherePriced
  BY DEF FillInv
<1> QED BY <1>1, FillInvHolds, PTL

\* Types of the portfolio, before and after a fetch.
THEOREM PortfolioTypes == HistorySpec => []PortfolioTypeOK
<1>1. FillInv => PortfolioTypeOK
  BY DEF FillInv, StoredFill, PortfolioTypeOK
<1> QED BY <1>1, FillInvHolds, PTL

(***************************************************************************)
(* The periods of a spending report: whatever their kind and the range,    *)
(* they follow one another without a gap.  On the calendar it takes that a *)
(* month, a quarter and a year end the day before the next begins; counted *)
(* back from the end only that each is not empty.                          *)
(***************************************************************************)

\* The first day of a month.
MonthStart(y, m) == NewYear(y) + Elapsed(y, m - 1) + 1

\* Months follow one another, over the years too.
LEMMA MonthsInOrder ==
  ASSUME NEW y \in CalendarYears, NEW m \in 1 .. 12, NEW z \in CalendarYears, NEW w \in 1 .. 12,
         y < z \/ (y = z /\ m < w)
  PROVE  /\ NewYear(y) + Elapsed(y, m) <= NewYear(z) + Elapsed(z, w - 1)
         /\ NewYear(y) \in Int /\ NewYear(z) \in Int /\ Elapsed(y, m) \in Nat /\ Elapsed(z, w - 1) \in Nat
<1>1. y \in Nat \ {0} /\ z \in Nat \ {0}
  BY YearsAre
<1>2. NewYear(y) \in Int /\ NewYear(z) \in Int /\ Elapsed(y, m) \in Nat /\ Elapsed(z, w - 1) \in Nat
  BY <1>1, YearLength, ElapsedNext
<1>3. CASE y = z /\ m < w
  <2>1. Elapsed(y, m) <= Elapsed(y, w - 1)
    BY <1>3 DEF Elapsed
  <2> QED BY <1>2, <1>3, <2>1
<1>4. CASE y < z
  <2>1. NewYear(y + 1) = NewYear(y) + Elapsed(y, 12) /\ Elapsed(y, 12) \in Nat
    BY <1>1, YearLength, ElapsedNext
  <2>2. Elapsed(y, m) <= Elapsed(y, 12)
    BY DEF Elapsed
  <2>3. NewYear(y + 1) <= NewYear(z)
    <3>1. CASE y + 1 = z
      BY <3>1, <1>2
    <3>2. CASE y + 1 # z
      <4>1. y + 1 \in Nat \ {0} /\ z \in Nat /\ y + 1 < z
        BY <1>1, <1>4, <3>2
      <4>2. NewYear(y + 1) + 365 <= NewYear(z) /\ NewYear(y + 1) \in Int
        BY <4>1, YearsInOrder
      <4> QED BY <4>2, <1>2
    <3> QED BY <3>1, <3>2
  <2> QED BY <1>2, <2>1, <2>2, <2>3
<1> QED BY <1>2, <1>3, <1>4

\* A day is in no other month than its own.
LEMMA MonthOfDay ==
  ASSUME NEW n \in AllDays, NEW y \in CalendarYears, NEW m \in 1 .. 12,
         MonthStart(y, m) <= n, n <= NewYear(y) + Elapsed(y, m)
  PROVE  Year(n) = y /\ Month(n) = m
<1> DEFINE z == Year(n)
<1> DEFINE w == Month(n)
<1>1. /\ z \in CalendarYears /\ w \in 1 .. 12 /\ n \in Int
      /\ NewYear(z) + Elapsed(z, w - 1) < n /\ n <= NewYear(z) + Elapsed(z, w)
      /\ NewYear(z) \in Int /\ Elapsed(z, w) \in Nat /\ Elapsed(z, w - 1) \in Nat
  BY MonthIs, DatesAre
<1>2. y \in Nat \ {0} /\ z \in Nat \ {0}
  BY <1>1, YearsAre
<1>3. NewYear(y) \in Int /\ Elapsed(y, m) \in Nat /\ Elapsed(y, m - 1) \in Nat
  BY <1>2, YearLength, ElapsedNext
<1> HIDE DEF z, w
<1>4. ~(y < z \/ (y = z /\ m < w))
  <2> SUFFICES ASSUME y < z \/ (y = z /\ m < w) PROVE FALSE
    OBVIOUS
  <2>1. NewYear(y) + Elapsed(y, m) <= NewYear(z) + Elapsed(z, w - 1)
    BY <1>1, MonthsInOrder
  <2> QED BY <1>1, <1>3, <2>1
<1>5. ~(z < y \/ (z = y /\ w < m))
  <2> SUFFICES ASSUME z < y \/ (z = y /\ w < m) PROVE FALSE
    OBVIOUS
  <2>1. NewYear(z) + Elapsed(z, w) <= NewYear(y) + Elapsed(y, m - 1)
    BY <1>1, MonthsInOrder
  <2> QED BY <1>1, <1>3, <2>1 DEF MonthStart
<1>6. y = z /\ m = w
  BY <1>1, <1>2, <1>4, <1>5
<1> QED BY <1>6 DEF z, w

\* Of two numbers.
LEMMA OfTwo ==
  ASSUME NEW a \in Int, NEW b \in Int
  PROVE  /\ Min({a, b}) = IF a <= b THEN a ELSE b
         /\ Max({a, b}) = IF a <= b THEN b ELSE a
<1>1. CASE a <= b
  <2>1. \A x \in {a, b} : (\A c \in {a, b} : x <= c) <=> x = a
    BY <1>1
  <2>2. \A x \in {a, b} : (\A c \in {a, b} : x >= c) <=> x = b
    BY <1>1
  <2>3. (CHOOSE x \in {a, b} : \A c \in {a, b} : x <= c) = a
    BY <2>1
  <2>4. (CHOOSE x \in {a, b} : \A c \in {a, b} : x >= c) = b
    BY <2>2
  <2> QED BY <1>1, <2>3, <2>4 DEF Min, Max
<1>2. CASE ~(a <= b)
  <2>1. \A x \in {a, b} : (\A c \in {a, b} : x <= c) <=> x = b
    BY <1>2
  <2>2. \A x \in {a, b} : (\A c \in {a, b} : x >= c) <=> x = a
    BY <1>2
  <2>3. (CHOOSE x \in {a, b} : \A c \in {a, b} : x <= c) = b
    BY <2>1
  <2>4. (CHOOSE x \in {a, b} : \A c \in {a, b} : x >= c) = a
    BY <2>2
  <2> QED BY <1>2, <2>3, <2>4 DEF Min, Max
<1> QED BY <1>1, <1>2

\* The months that a day may be shifted by.
Shifts == {1, 3, 12}

\* The month so many months on or back.
OnYear(y, m, k) == (y * 12 + m - 1 + k) \div 12
OnMonth(y, m, k) == ((y * 12 + m - 1 + k) % 12) + 1
Follows(y, m, k, z, w) ==
    /\ k = 1 /\ m = 12 => z = y + 1 /\ w = 1
    /\ k = 1 /\ m # 12 => z = y /\ w = m + 1
    /\ k = 3 /\ m = 10 => z = y + 1 /\ w = 1
    /\ k = 3 /\ m \in {1, 4, 7} => z = y /\ w = m + 3
    /\ k = 12 => z = y + 1 /\ w = m

\* Months shifted by as many as the periods are.
LEMMA MonthsOn ==
  ASSUME NEW y \in Nat \ {0}, NEW m \in 1 .. 12, NEW k \in Shifts
  PROVE  /\ OnMonth(y, m, k) \in 1 .. 12 /\ OnYear(y, m, k) \in y .. y + 1
         /\ OnMonth(y, m, -k) \in 1 .. 12 /\ OnYear(y, m, -k) \in y - 1 .. y
         /\ y < OnYear(y, m, k) \/ (y = OnYear(y, m, k) /\ m < OnMonth(y, m, k))
         /\ OnYear(y, m, -k) < y \/ (OnYear(y, m, -k) = y /\ OnMonth(y, m, -k) < m)
         /\ Follows(y, m, k, OnYear(y, m, k), OnMonth(y, m, k))
<1>1. CASE k = 1
  BY <1>1 DEF OnYear, OnMonth, Follows
<1>2. CASE k = 3
  BY <1>2 DEF OnYear, OnMonth, Follows
<1>3. CASE k = 12
  BY <1>3 DEF OnYear, OnMonth, Follows
<1> QED BY <1>1, <1>2, <1>3 DEF Shifts

\* A shifted day is in the month shifted to, and the first day if it was.
LEMMA ClampedIs ==
  ASSUME NEW n \in AllDays, NEW k \in Int, NEW y \in CalendarYears, NEW m \in 1 .. 12,
         y = OnYear(Year(n), Month(n), k), m = OnMonth(Year(n), Month(n), k)
  PROVE  /\ shift_months_clamped(n, k) \in Int
         /\ MonthStart(y, m) <= shift_months_clamped(n, k)
         /\ shift_months_clamped(n, k) <= NewYear(y) + Elapsed(y, m)
         /\ n = MonthStart(Year(n), Month(n)) => shift_months_clamped(n, k) = MonthStart(y, m)
<1> DEFINE z == Year(n)
<1> DEFINE w == Month(n)
<1> DEFINE d == Min({DayOfMonth(n), days_in_month(y, m)})
<1>1. /\ z \in CalendarYears /\ w \in 1 .. 12 /\ n \in Int
      /\ NewYear(z) + Elapsed(z, w - 1) < n
      /\ NewYear(z) \in Int /\ Elapsed(z, w - 1) \in Nat
  BY MonthIs, DatesAre
<1>2. shift_months_clamped(n, k) = Date(y, m, d)
  BY DEF shift_months_clamped, OnYear, OnMonth
<1>3. DayOfMonth(n) = n - Date(z, w, 1) + 1
  BY DEF DayOfMonth
<1> HIDE DEF z, w
<1>4. Date(z, w, 1) = NewYear(z) + Elapsed(z, w - 1) + 1
  <2>1. \A e \in Int : Date(z, w, e) = NewYear(z) + Elapsed(z, w - 1) + e
    BY <1>1, DateIs
  <2> QED BY <2>1
<1>5. DayOfMonth(n) \in Int /\ DayOfMonth(n) >= 1
  BY <1>1, <1>3, <1>4
<1>6. days_in_month(y, m) \in 28 .. 31 /\ Elapsed(y, m) = Elapsed(y, m - 1) + days_in_month(y, m)
  BY ElapsedNext
<1>7. d \in 1 .. days_in_month(y, m) /\ (DayOfMonth(n) = 1 => d = 1)
  BY <1>5, <1>6, OfTwo
<1> HIDE DEF d
<1>8. d \in Int
  BY <1>7
<1>9. Date(y, m, d) = NewYear(y) + Elapsed(y, m - 1) + d /\ NewYear(y) \in Int /\ Elapsed(y, m - 1) \in Nat
  BY <1>8, DateIs
<1>10. n = MonthStart(z, w) => d = 1
  BY <1>1, <1>3, <1>4, <1>7 DEF MonthStart
<1> QED BY <1>2, <1>6, <1>7, <1>9, <1>10 DEF MonthStart, z, w

\* Shifts of a date go on, or back.
LEMMA Shifted ==
  ASSUME NEW n \in Dates, NEW k \in Shifts
  PROVE  /\ shift_months_clamped(n, k) \in Int /\ n < shift_months_clamped(n, k)
         /\ shift_months_clamped(n, -k) \in Int /\ shift_months_clamped(n, -k) < n
<1> DEFINE y == Year(n)
<1> DEFINE m == Month(n)
<1>1. /\ y \in FirstYear + 1 .. LastYear - 1 /\ n \in AllDays /\ n \in Int
  BY YearsOfDates
<1>2. /\ y \in CalendarYears /\ m \in 1 .. 12
      /\ NewYear(y) + Elapsed(y, m - 1) < n /\ n <= NewYear(y) + Elapsed(y, m)
      /\ NewYear(y) \in Int /\ Elapsed(y, m) \in Nat /\ Elapsed(y, m - 1) \in Nat
  BY <1>1, MonthIs, DatesAre
<1>3. y \in Nat \ {0} /\ FirstYear \in Nat \ {0} /\ LastYear \in Nat
  BY <1>2, YearsAre
<1>4. k \in Int /\ -k \in Int
  BY DEF Shifts
<1> DEFINE z == OnYear(y, m, k)
<1> DEFINE w == OnMonth(y, m, k)
<1> DEFINE a == OnYear(y, m, -k)
<1> DEFINE b == OnMonth(y, m, -k)
<1> HIDE DEF y, m
<1>5. /\ w \in 1 .. 12 /\ z \in y .. y + 1 /\ b \in 1 .. 12 /\ a \in y - 1 .. y
      /\ y < z \/ (y = z /\ m < w)
      /\ a < y \/ (a = y /\ b < m)
  BY <1>2, <1>3, MonthsOn
<1> HIDE DEF z, w, a, b
<1>6. z \in CalendarYears /\ a \in CalendarYears
  <2>1. z \in FirstYear .. LastYear /\ a \in FirstYear .. LastYear
    BY <1>1, <1>3, <1>5
  <2> QED BY <2>1, YearsAre
<1>7. shift_months_clamped(n, k) \in Int /\ MonthStart(z, w) <= shift_months_clamped(n, k)
  BY <1>1, <1>4, <1>5, <1>6, ClampedIs DEF z, w, y, m
<1>8. shift_months_clamped(n, -k) \in Int /\ shift_months_clamped(n, -k) <= NewYear(a) + Elapsed(a, b)
  BY <1>1, <1>4, <1>5, <1>6, ClampedIs DEF a, b, y, m
<1>9. NewYear(y) + Elapsed(y, m) <= NewYear(z) + Elapsed(z, w - 1) /\ NewYear(z) \in Int /\ Elapsed(z, w - 1) \in Nat
  BY <1>2, <1>5, <1>6, MonthsInOrder
<1>10. NewYear(a) + Elapsed(a, b) <= NewYear(y) + Elapsed(y, m - 1) /\ NewYear(a) \in Int /\ Elapsed(a, b) \in Nat
  BY <1>2, <1>5, <1>6, MonthsInOrder
<1>11. n < MonthStart(z, w) /\ MonthStart(z, w) \in Int
  BY <1>1, <1>2, <1>9 DEF MonthStart
<1> QED BY <1>1, <1>2, <1>7, <1>8, <1>9, <1>10, <1>11

\* A month starts on a day of that month; the last before the next starts.
LEMMA StartOfMonth ==
  ASSUME NEW y \in CalendarYears, NEW m \in 1 .. 12
  PROVE  /\ MonthStart(y, m) \in AllDays /\ MonthStart(y, m) \in Int
         /\ Year(MonthStart(y, m)) = y /\ Month(MonthStart(y, m)) = m
         /\ Date(y, m, 1) = MonthStart(y, m)
         /\ month_end(MonthStart(y, m)) = NewYear(y) + Elapsed(y, m)
         /\ MonthStart(y, m) <= NewYear(y) + Elapsed(y, m)
         /\ IF m = 12 THEN MonthStart(y + 1, 1) = NewYear(y) + Elapsed(y, m) + 1
                      ELSE MonthStart(y, m + 1) = NewYear(y) + Elapsed(y, m) + 1
<1> DEFINE n == MonthStart(y, m)
<1>1. y \in Nat \ {0} /\ y \in FirstYear .. LastYear /\ FirstYear \in Nat \ {0} /\ LastYear \in Nat
  BY YearsAre
<1>2. /\ NewYear(y) \in Int /\ Elapsed(y, m) \in Nat /\ Elapsed(y, m - 1) \in Nat
      /\ Elapsed(y, m) = Elapsed(y, m - 1) + days_in_month(y, m) /\ days_in_month(y, m) \in 28 .. 31
  BY <1>1, YearLength, ElapsedNext
<1>3. /\ NewYear(y + 1) = NewYear(y) + Elapsed(y, 12) /\ Elapsed(y, 12) \in Nat
  BY <1>1, YearLength, ElapsedNext
<1>4. Elapsed(y, m) <= Elapsed(y, 12) /\ Elapsed(y, 0) = 0 /\ Elapsed(y + 1, 0) = 0
  BY DEF Elapsed
<1>5. n \in Int /\ NewYear(y) + 1 <= n /\ n <= NewYear(y) + Elapsed(y, m)
  BY <1>2 DEF MonthStart
<1>6. n \in AllDays
  <2>1. NewYear(FirstYear) <= NewYear(y) /\ NewYear(FirstYear) \in Int
    <3>1. CASE FirstYear = y
      BY <3>1, <1>2
    <3>2. CASE FirstYear # y
      <4>1. FirstYear < y /\ y \in Nat
        BY <1>1, <3>2
      <4> QED BY <4>1, <1>1, <1>2, YearsInOrder
    <3> QED BY <3>1, <3>2
  <2>2. NewYear(y + 1) <= NewYear(LastYear + 1) /\ NewYear(LastYear + 1) \in Int
    <3>1. CASE LastYear = y
      BY <3>1, <1>2, <1>3
    <3>2. CASE LastYear # y
      <4>1. y + 1 < LastYear + 1 /\ LastYear + 1 \in Nat /\ y + 1 \in Nat \ {0}
        BY <1>1, <3>2
      <4>2. NewYear(y + 1) + 365 <= NewYear(LastYear + 1) /\ NewYear(LastYear + 1) \in Int /\ NewYear(y + 1) \in Int
        BY <4>1, YearsInOrder
      <4> QED BY <4>2
    <3> QED BY <3>1, <3>2
  <2> HIDE DEF n
  <2> QED BY <1>2, <1>3, <1>4, <1>5, <2>1, <2>2 DEF AllDays
<1>7. Year(n) = y /\ Month(n) = m
  <2>1. MonthStart(y, m) <= n
    BY <1>5
  <2> QED BY <1>5, <1>6, <2>1, MonthOfDay
<1>8. Date(y, m, 1) = n
  <2>1. \A e \in Int : Date(y, m, e) = NewYear(y) + Elapsed(y, m - 1) + e
    BY DateIs
  <2> QED BY <2>1 DEF MonthStart
<1>9. month_end(n) = NewYear(y) + Elapsed(y, m)
  <2> HIDE DEF n
  <2> QED BY <1>7, Ends DEF month_end
<1>10. IF m = 12 THEN MonthStart(y + 1, 1) = NewYear(y) + Elapsed(y, m) + 1
                 ELSE MonthStart(y, m + 1) = NewYear(y) + Elapsed(y, m) + 1
  <2>1. m + 1 - 1 = m /\ 1 - 1 = 0
    OBVIOUS
  <2> QED BY <1>2, <1>3, <1>4, <2>1 DEF MonthStart
<1> QED BY <1>5, <1>6, <1>7, <1>8, <1>9, <1>10

\* Intervals that have each day of a range once, none of them beside it.
Holds(b, n) == b.start <= n /\ n <= b.end
Tiled(intervals, first, last) ==
    /\ IsFiniteSet(intervals)
    /\ \A b \in intervals : b.start \in Int /\ b.end \in Int /\ b.start <= last /\ first <= b.end
    /\ \A b \in intervals, c \in intervals : b.start = c.start => b = c
    /\ \A n \in first .. last : \E b \in intervals : /\ Holds(b, n)
                                                    /\ \A c \in intervals : Holds(c, n) => c = b

\* Each starts the day after the one before, from the first on.
LEMMA TiledOnwards ==
  ASSUME NEW start \in Int, NEW last \in Int, start <= last, NEW C, NEW N, NEW f, Onward(f, C, N, start, last),
         NEW A, start \in A,
         \A s \in A \cap (start .. last) : /\ N[s] \in Int /\ N[s] > s
                                           /\ C[s] = {Interval(s, N[s] - 1)}
                                           /\ N[s] <= last => N[s] \in A
  PROVE  Tiled(f[start], start, last) /\ \A b \in f[start] : N[start] - 1 <= b.end
<1> DEFINE Right(s) == /\ Tiled(f[s], s, last)
                       /\ \A b \in f[s] : s <= b.start /\ b.start <= b.end /\ N[s] - 1 <= b.end
<1> DEFINE Bad == {s \in A \cap (start .. last) : ~Right(s)}
<1>1. \A s \in start .. last : f[s] = C[s] \cup IF N[s] > last THEN {} ELSE f[N[s]]
  BY DEF Onward
<1>2. ASSUME NEW s \in A \cap (start .. last), N[s] \in Bad \/ N[s] > last \/ Right(N[s])
      PROVE  N[s] \in Bad \/ Right(s)
  <2>1. /\ N[s] \in Int /\ N[s] > s /\ s \in Int /\ C[s] = {Interval(s, N[s] - 1)}
        /\ N[s] <= last => N[s] \in A
    OBVIOUS
  <2> DEFINE b == Interval(s, N[s] - 1)
  <2>2. b.start = s /\ b.end = N[s] - 1
    BY DEF Interval
  <2>3. CASE N[s] > last
    <3>1. f[s] = {b}
      BY <1>1, <2>1, <2>3
    <3>2. \A n \in s .. last : Holds(b, n)
      BY <2>1, <2>2, <2>3 DEF Holds
    <3>3. s <= last /\ s <= N[s] - 1
      BY <2>1
    <3>4. IsFiniteSet({b})
      BY FS_Singleton
    <3> HIDE DEF b
    <3>5. Tiled({b}, s, last)
      BY <2>1, <2>2, <3>2, <3>3, <3>4 DEF Tiled
    <3> QED BY <2>1, <2>2, <3>1, <3>3, <3>5
  <2>4. CASE ~(N[s] > last) /\ Right(N[s])
    <3>1. f[s] = {b} \cup f[N[s]]
      BY <1>1, <2>1, <2>4
    <3> DEFINE next == N[s]
    <3>2. next \in Int /\ next > s /\ b.end = next - 1 /\ s \in Int /\ next <= last
      BY <2>1, <2>2, <2>4
    <3>3. Tiled(f[next], next, last) /\ \A c \in f[next] : next <= c.start /\ c.start <= c.end
      BY <2>4
    <3>4. f[s] = {b} \cup f[next]
      BY <3>1
    <3> HIDE DEF b, next
    <3>5. \A c \in f[next] : c.start \in Int /\ c.end \in Int /\ c.start <= last
      BY <3>3 DEF Tiled
    <3>6. ASSUME NEW n \in s .. last
          PROVE  \E c \in f[s] : Holds(c, n) /\ \A e \in f[s] : Holds(e, n) => e = c
      <4>1. CASE n < next
        <5>1. Holds(b, n)
          BY <2>2, <3>2, <4>1 DEF Holds
        <5>2. \A e \in f[next] : ~Holds(e, n)
          BY <3>2, <3>3, <3>5, <4>1 DEF Holds
        <5> QED BY <3>4, <5>1, <5>2
      <4>2. CASE ~(n < next)
        <5>1. n \in next .. last
          BY <3>2, <4>2
        <5>2. PICK c \in f[next] : Holds(c, n) /\ \A e \in f[next] : Holds(e, n) => e = c
          BY <3>3, <5>1 DEF Tiled
        <5>3. ~Holds(b, n)
          BY <3>2, <5>1 DEF Holds
        <5> QED BY <3>4, <5>2, <5>3
      <4> QED BY <4>1, <4>2
    <3>7. \A c \in f[s] : /\ c.start \in Int /\ c.end \in Int /\ s <= c.start /\ c.start <= last
                          /\ c.start <= c.end /\ next - 1 <= c.end /\ s <= c.end
      BY <2>2, <3>2, <3>3, <3>4, <3>5
    <3>8. \A c \in f[s], e \in f[s] : c.start = e.start => c = e
      <4>1. \A c \in f[next], e \in f[next] : c.start = e.start => c = e
        BY <3>3 DEF Tiled
      <4>2. \A c \in f[next] : c.start # b.start
        BY <2>2, <3>2, <3>3, <3>5
      <4> QED BY <3>4, <4>1, <4>2
    <3>9. IsFiniteSet(f[s])
      BY <3>3, <3>4, FS_AddElement DEF Tiled
    <3>10. Tiled(f[s], s, last)
      BY <3>6, <3>7, <3>8, <3>9 DEF Tiled
    <3> QED BY <3>7, <3>10 DEF next
  <2> HIDE DEF Right
  <2> QED BY <1>2, <2>3, <2>4
<1>3. Bad = {}
  <2> SUFFICES ASSUME Bad # {} PROVE FALSE
    OBVIOUS
  <2>1. Bad \subseteq Int /\ \A s \in Bad : s <= last
    OBVIOUS
  <2>2. PICK s \in Bad : \A r \in Bad : r <= s
    <3> HIDE DEF Bad
    <3> QED BY <2>1, Extremes
  <2>3. s \in A \cap (start .. last) /\ ~Right(s) /\ s \in Int
    OBVIOUS
  <2>4. N[s] \in Int /\ N[s] > s /\ (N[s] <= last => N[s] \in A)
    BY <2>3
  <2>5. N[s] \notin Bad
    <3> HIDE DEF Bad
    <3> QED BY <2>2, <2>3, <2>4
  <2>6. N[s] > last \/ Right(N[s])
    <3> HIDE DEF Right
    <3> QED BY <2>3, <2>4, <2>5
  <2> HIDE DEF Right, Bad
  <2> QED BY <1>2, <2>3, <2>5, <2>6
<1>4. Right(start)
  <2> HIDE DEF Right
  <2> QED BY <1>3
<1> QED BY <1>4

\* Each ends the day before the one after, from the last back.
Backward(g, S, first, last) ==
    g = [e \in first .. last |-> {Interval(S[e], e)} \cup IF S[e] <= first THEN {} ELSE g[S[e] - 1]]

\* Laid back from the last end they tile the range.
LEMMA TiledBackwards ==
  ASSUME NEW first \in Int, NEW last \in Int, first <= last, NEW S, NEW g, Backward(g, S, first, last),
         \A e \in first .. last : S[e] \in Int /\ S[e] <= e
  PROVE  Tiled(g[last], first, last)
<1> DEFINE Right(e) == Tiled(g[e], first, e) /\ \A b \in g[e] : b.start <= b.end /\ b.end <= e
<1> DEFINE Bad == {e \in first .. last : ~Right(e)}
<1>1. \A e \in first .. last : g[e] = {Interval(S[e], e)} \cup IF S[e] <= first THEN {} ELSE g[S[e] - 1]
  BY DEF Backward
<1>2. ASSUME NEW e \in first .. last, S[e] <= first \/ Right(S[e] - 1)
      PROVE  Right(e)
  <2>1. S[e] \in Int /\ S[e] <= e /\ e \in Int
    OBVIOUS
  <2> DEFINE b == Interval(S[e], e)
  <2>2. b.start = S[e] /\ b.end = e
    BY DEF Interval
  <2>3. CASE S[e] <= first
    <3>1. g[e] = {b}
      BY <1>1, <2>1, <2>3
    <3>2. \A n \in first .. e : Holds(b, n)
      BY <2>1, <2>2, <2>3 DEF Holds
    <3>3. IsFiniteSet({b})
      BY FS_Singleton
    <3>4. first <= e
      BY <2>1
    <3> HIDE DEF b
    <3>5. Tiled({b}, first, e)
      BY <2>1, <2>2, <3>2, <3>3, <3>4 DEF Tiled
    <3> QED BY <2>1, <2>2, <3>1, <3>5
  <2>4. CASE ~(S[e] <= first) /\ Right(S[e] - 1)
    <3>1. g[e] = {b} \cup g[S[e] - 1]
      BY <1>1, <2>1, <2>4
    <3> DEFINE before == S[e] - 1
    <3>2. before \in Int /\ before < e /\ b.start = before + 1 /\ e \in Int /\ first <= before
      BY <2>1, <2>2, <2>4
    <3>3. Tiled(g[before], first, before) /\ \A c \in g[before] : c.start <= c.end /\ c.end <= before
      BY <2>4
    <3>4. g[e] = {b} \cup g[before]
      BY <3>1
    <3> HIDE DEF b, before
    <3>5. \A c \in g[before] : c.start \in Int /\ c.end \in Int /\ first <= c.end
      BY <3>3 DEF Tiled
    <3>6. ASSUME NEW n \in first .. e
          PROVE  \E c \in g[e] : Holds(c, n) /\ \A d \in g[e] : Holds(d, n) => d = c
      <4>1. CASE n > before
        <5>1. Holds(b, n)
          BY <2>2, <3>2, <4>1 DEF Holds
        <5>2. \A d \in g[before] : ~Holds(d, n)
          BY <3>2, <3>3, <3>5, <4>1 DEF Holds
        <5> QED BY <3>4, <5>1, <5>2
      <4>2. CASE ~(n > before)
        <5>1. n \in first .. before
          BY <3>2, <4>2
        <5>2. PICK c \in g[before] : Holds(c, n) /\ \A d \in g[before] : Holds(d, n) => d = c
          BY <3>3, <5>1 DEF Tiled
        <5>3. ~Holds(b, n)
          BY <3>2, <5>1 DEF Holds
        <5> QED BY <3>4, <5>2, <5>3
      <4> QED BY <4>1, <4>2
    <3>7. \A c \in g[e] : /\ c.start \in Int /\ c.end \in Int /\ c.end <= e /\ first <= c.end
                          /\ c.start <= c.end /\ c.start <= e
      BY <2>2, <3>2, <3>3, <3>4, <3>5
    <3>8. \A c \in g[e], d \in g[e] : c.start = d.start => c = d
      <4>1. \A c \in g[before], d \in g[before] : c.start = d.start => c = d
        BY <3>3 DEF Tiled
      <4>2. \A c \in g[before] : c.start # b.start
        BY <2>2, <3>2, <3>3, <3>5
      <4> QED BY <3>4, <4>1, <4>2
    <3>9. IsFiniteSet(g[e])
      BY <3>3, <3>4, FS_AddElement DEF Tiled
    <3>10. Tiled(g[e], first, e)
      BY <3>6, <3>7, <3>8, <3>9 DEF Tiled
    <3> QED BY <3>7, <3>10
  <2> HIDE DEF Right
  <2> QED BY <1>2, <2>3, <2>4
<1>3. Bad = {}
  <2> SUFFICES ASSUME Bad # {} PROVE FALSE
    OBVIOUS
  <2>1. Bad \subseteq Int /\ \A e \in Bad : first <= e
    OBVIOUS
  <2>2. Min(Bad) \in Bad /\ \A c \in Bad : Min(Bad) <= c
    <3> HIDE DEF Bad
    <3> QED BY <2>1, Extremes
  <2> DEFINE e == Min(Bad)
  <2>3. e \in first .. last /\ ~Right(e) /\ e \in Int
    <3> HIDE DEF Right
    <3> QED BY <2>2
  <2> HIDE DEF e
  <2>4. S[e] \in Int /\ S[e] <= e
    BY <2>3
  <2>5. S[e] - 1 \notin Bad
    <3> HIDE DEF Bad
    <3> QED BY <2>2, <2>3, <2>4 DEF e
  <2>6. S[e] <= first \/ Right(S[e] - 1)
    <3>1. ~(S[e] <= first) => S[e] - 1 \in first .. last
      BY <2>3, <2>4
    <3> HIDE DEF Right
    <3> QED BY <3>1, <2>5
  <2> HIDE DEF Right, Bad
  <2> QED BY <1>2, <2>3, <2>6
<1>4. Right(last)
  <2> HIDE DEF Right
  <2>1. last \in first .. last
    OBVIOUS
  <2> QED BY <1>3, <2>1
<1> QED BY <1>4

\* The month of a date, and those of its year before it, start on dates.
LEMMA MonthsStartIn ==
  ASSUME NEW n \in Dates, NEW m \in 1 .. Month(n)
  PROVE  /\ MonthStart(Year(n), m) \in Dates /\ MonthStart(Year(n), m) <= n
         /\ Month(n) \in 1 .. 12 /\ Year(n) \in CalendarYears /\ m \in 1 .. 12
<1> DEFINE y == Year(n)
<1> DEFINE w == Month(n)
<1>1. y \in FirstYear + 1 .. LastYear - 1 /\ n \in AllDays /\ n \in Int
  BY YearsOfDates
<1>2. /\ y \in CalendarYears /\ w \in 1 .. 12 /\ NewYear(y) + Elapsed(y, w - 1) < n
      /\ NewYear(y) \in Int /\ Elapsed(y, w - 1) \in Nat
  BY <1>1, MonthIs, DatesAre
<1> HIDE DEF y, w
<1>3. m \in 1 .. w
  BY DEF w
<1>4. m \in 1 .. 12 /\ m <= w
  BY <1>2, <1>3
<1>5. Elapsed(y, m - 1) <= Elapsed(y, w - 1)
  BY <1>2, <1>4 DEF Elapsed
<1>6. Elapsed(y, m - 1) \in Nat
  BY <1>4, ElapsedNext
<1>7. MonthStart(y, m) \in Int /\ NewYear(y) + 1 <= MonthStart(y, m) /\ MonthStart(y, m) <= n
  BY <1>1, <1>2, <1>5, <1>6 DEF MonthStart
<1>8. FirstYear \in Nat \ {0} /\ LastYear \in Nat
  BY YearsAre
<1>9. NewYear(FirstYear + 1) <= NewYear(y) /\ NewYear(FirstYear + 1) \in Int
  <2>1. CASE FirstYear + 1 = y
    BY <2>1, <1>2
  <2>2. CASE FirstYear + 1 # y
    <3>1. FirstYear + 1 < y /\ FirstYear + 1 \in Nat \ {0} /\ y \in Nat
      BY <2>2, <1>1, <1>8
    <3> QED BY <3>1, <1>2, YearsInOrder
  <2> QED BY <2>1, <2>2
<1>10. Dates = NewYear(FirstYear + 1) + 1 .. NewYear(LastYear) /\ NewYear(LastYear) \in Int
  <2>1. LastYear \in FirstYear .. LastYear + 1
    BY <1>1, <1>8
  <2> QED BY <2>1, DatesAre
<1>11. MonthStart(y, m) \in Dates
  BY <1>1, <1>2, <1>7, <1>9, <1>10
<1> QED BY <1>2, <1>4, <1>7, <1>11 DEF y, w

\* The months, and the quarters' and the years' first.
Firsts(k) == CASE k = 1 -> 1 .. 12 [] k = 3 -> {1, 4, 7, 10} [] k = 12 -> {1}
Starts(k) == {s \in Dates : s = MonthStart(Year(s), Month(s)) /\ Month(s) \in Firsts(k)}
LastDayOf(s, k) == CASE k = 1 -> month_end(s)
                   [] k = 3 -> month_end(Date(Year(s), Month(s) + 2, 1))
                   [] k = 12 -> year_end(Year(s))

\* The date is in one that starts not after it.
LEMMA StartsBefore ==
  ASSUME NEW n \in Dates
  PROVE  /\ Date(Year(n), Month(n), 1) \in Starts(1) /\ Date(Year(n), Month(n), 1) <= n
         /\ n <= LastDayOf(Date(Year(n), Month(n), 1), 1)
         /\ Date(Year(n), ((Month(n) - 1) \div 3) * 3 + 1, 1) \in Starts(3)
         /\ Date(Year(n), ((Month(n) - 1) \div 3) * 3 + 1, 1) <= n
         /\ n <= LastDayOf(Date(Year(n), ((Month(n) - 1) \div 3) * 3 + 1, 1), 3)
         /\ Date(Year(n), 1, 1) \in Starts(12) /\ Date(Year(n), 1, 1) <= n
         /\ n <= LastDayOf(Date(Year(n), 1, 1), 12)
<1> DEFINE y == Year(n)
<1> DEFINE w == Month(n)
<1>1. /\ w \in 1 .. 12 /\ y \in CalendarYears /\ n \in Int /\ n <= NewYear(y) + Elapsed(y, w)
      /\ NewYear(y) \in Int /\ n <= year_end(y)
  BY MonthIs, YearsOfDates, DatesAre
<1>2. ASSUME NEW m \in 1 .. w
      PROVE  /\ Date(y, m, 1) \in Dates /\ Date(y, m, 1) <= n
             /\ Month(Date(y, m, 1)) = m /\ Year(Date(y, m, 1)) = y
             /\ Date(y, m, 1) = MonthStart(Year(Date(y, m, 1)), Month(Date(y, m, 1)))
             /\ month_end(Date(y, m, 1)) = NewYear(y) + Elapsed(y, m)
  <2>1. MonthStart(y, m) \in Dates /\ MonthStart(y, m) <= n /\ m \in 1 .. 12
    BY MonthsStartIn
  <2>2. /\ Date(y, m, 1) = MonthStart(y, m) /\ Year(MonthStart(y, m)) = y /\ Month(MonthStart(y, m)) = m
        /\ month_end(MonthStart(y, m)) = NewYear(y) + Elapsed(y, m)
    BY <1>1, <2>1, StartOfMonth
  <2> QED BY <2>1, <2>2
<1> HIDE DEF y, w
<1> DEFINE q == ((w - 1) \div 3) * 3 + 1
<1> DEFINE v == q + 2
<1>3. q \in 1 .. w /\ q \in {1, 4, 7, 10} /\ 1 \in 1 .. w /\ w \in 1 .. w /\ v \in 1 .. 12 /\ w <= v
  BY <1>1
<1>4. n <= month_end(Date(y, v, 1))
  <2> HIDE DEF v
  <2>1. month_end(Date(y, v, 1)) = NewYear(y) + Elapsed(y, v) /\ Elapsed(y, v) \in Nat /\ Elapsed(y, w) \in Nat
    BY <1>1, <1>3, StartOfMonth, ElapsedNext
  <2>2. Elapsed(y, w) <= Elapsed(y, v)
    BY <1>1, <1>3 DEF Elapsed
  <2> QED BY <1>1, <2>1, <2>2
<1> HIDE DEF q
<1>5. Date(y, w, 1) \in Starts(1) /\ Date(y, w, 1) <= n /\ n <= LastDayOf(Date(y, w, 1), 1)
  BY <1>1, <1>2, <1>3 DEF Starts, Firsts, LastDayOf
<1>6. Date(y, q, 1) \in Starts(3) /\ Date(y, q, 1) <= n /\ n <= LastDayOf(Date(y, q, 1), 3)
  BY <1>2, <1>3, <1>4 DEF Starts, Firsts, LastDayOf
<1>7. Date(y, 1, 1) \in Starts(12) /\ Date(y, 1, 1) <= n /\ n <= LastDayOf(Date(y, 1, 1), 12)
  <2>1. \A m \in 1 .. w : m = 1 => /\ Date(y, m, 1) \in Starts(12) /\ Date(y, m, 1) <= n
                                   /\ n <= LastDayOf(Date(y, m, 1), 12)
    BY <1>1, <1>2 DEF Starts, Firsts, LastDayOf
  <2> QED BY <1>3, <2>1
<1> QED BY <1>5, <1>6, <1>7 DEF y, w, q

\* It ends the day before the next starts.
LEMMA StartsFollow ==
  ASSUME NEW k \in Shifts, NEW s \in Starts(k)
  PROVE  /\ shift_months_clamped(s, k) \in Int /\ s < shift_months_clamped(s, k)
         /\ LastDayOf(s, k) = shift_months_clamped(s, k) - 1
         /\ shift_months_clamped(s, k) \in Dates => shift_months_clamped(s, k) \in Starts(k)
<1> DEFINE y == Year(s)
<1> DEFINE m == Month(s)
<1>1. s \in Dates /\ s = MonthStart(y, m) /\ m \in Firsts(k)
  BY DEF Starts
<1>2. y \in FirstYear + 1 .. LastYear - 1 /\ s \in AllDays /\ s \in Int
  BY <1>1, YearsOfDates
<1>3. m \in 1 .. 12 /\ y \in CalendarYears
  BY <1>2, MonthIs, DatesAre
<1>4. y \in Nat \ {0} /\ FirstYear \in Nat \ {0} /\ LastYear \in Nat
  BY <1>3, YearsAre
<1>5. shift_months_clamped(s, k) \in Int /\ s < shift_months_clamped(s, k)
  BY <1>1, Shifted
<1> HIDE DEF y, m
<1> DEFINE z == OnYear(y, m, k)
<1> DEFINE w == OnMonth(y, m, k)
<1>6. w \in 1 .. 12 /\ z \in y .. y + 1 /\ Follows(y, m, k, z, w)
  <2>1. y \in Nat \ {0} /\ m \in 1 .. 12
    BY <1>3, <1>4
  <2> QED BY <2>1, MonthsOn
<1> HIDE DEF z, w
<1>7. z \in CalendarYears /\ y + 1 \in CalendarYears
  <2>1. z \in FirstYear .. LastYear /\ y + 1 \in FirstYear .. LastYear
    BY <1>2, <1>4, <1>6
  <2> QED BY <2>1, YearsAre
<1>8. shift_months_clamped(s, k) = MonthStart(z, w)
  <2>1. k \in Int
    BY DEF Shifts
  <2> QED BY <2>1, <1>1, <1>2, <1>6, <1>7, ClampedIs DEF y, m, z, w
<1>9. Year(MonthStart(z, w)) = z /\ Month(MonthStart(z, w)) = w
  BY <1>6, <1>7, StartOfMonth
<1>10. w \in Firsts(k)
  BY <1>1, <1>6 DEF Follows, Firsts, Shifts
<1>11. shift_months_clamped(s, k) \in Dates => shift_months_clamped(s, k) \in Starts(k)
  BY <1>8, <1>9, <1>10 DEF Starts
<1>12. LastDayOf(s, k) = MonthStart(z, w) - 1
  <2>1. NewYear(y) \in Int /\ \A v \in 1 .. 12 : Elapsed(y, v) \in Nat
    BY <1>4, YearLength, ElapsedNext
  <2>2. CASE k = 1
    <3>1. month_end(s) = NewYear(y) + Elapsed(y, m)
      BY <1>1, <1>3, StartOfMonth
    <3>2. MonthStart(z, w) = NewYear(y) + Elapsed(y, m) + 1
      BY <1>3, <1>6, <2>2, StartOfMonth DEF Follows
    <3>3. LastDayOf(s, k) = month_end(s)
      BY <2>2 DEF LastDayOf
    <3> QED BY <3>1, <3>2, <3>3, <2>1, <1>3
  <2>3. CASE k = 3
    <3> DEFINE v == m + 2
    <3>1. m \in {1, 4, 7, 10}
      BY <1>1, <2>3 DEF Firsts
    <3>2. v \in 1 .. 12 /\ (v = 12 <=> m = 10) /\ v + 1 = m + 3
      BY <3>1
    <3>3. LastDayOf(s, k) = month_end(Date(y, v, 1))
      BY <2>3 DEF LastDayOf, y, m
    <3> HIDE DEF v
    <3>4. month_end(Date(y, v, 1)) = NewYear(y) + Elapsed(y, v)
      BY <1>3, <3>2, StartOfMonth
    <3>5. MonthStart(z, w) = NewYear(y) + Elapsed(y, v) + 1
      BY <1>3, <1>6, <2>3, <3>1, <3>2, StartOfMonth DEF Follows
    <3> QED BY <3>2, <3>3, <3>4, <3>5, <2>1
  <2>4. CASE k = 12
    <3>1. m = 1 /\ z = y + 1 /\ w = 1
      BY <1>1, <1>6, <2>4 DEF Follows, Firsts
    <3>2. LastDayOf(s, k) = Date(y, 12, 31)
      BY <2>4 DEF LastDayOf, year_end, y
    <3>3. Date(y, 12, 31) = NewYear(y + 1) /\ NewYear(y + 1) \in Int
      BY <1>3, Ends
    <3>4. Elapsed(y + 1, 1 - 1) = 0
      BY DEF Elapsed
    <3> QED BY <3>1, <3>2, <3>3, <3>4 DEF MonthStart
  <2> QED BY <2>2, <2>3, <2>4 DEF Shifts
<1> QED BY <1>5, <1>8, <1>11, <1>12

\* It exists: it is the one before on the numbers turned round.
LEMMA BackwardExists ==
  ASSUME NEW first \in Int, NEW last \in Int, NEW S, \A e \in first .. last : S[e] \in Int /\ S[e] <= e
  PROVE  \E g : Backward(g, S, first, last)
<1> DEFINE a == -last
<1> DEFINE z == -first
<1> DEFINE C == [d \in a .. z |-> {Interval(S[-d], -d)}]
<1> DEFINE N == [d \in a .. z |-> 1 - S[-d]]
<1>1. a \in Int /\ z \in Int /\ \A d \in a .. z : -d \in first .. last
  OBVIOUS
<1>2. ASSUME NEW d \in a .. z PROVE N[d] \in Int /\ N[d] > d /\ N[d] = 1 - S[-d] /\ C[d] = {Interval(S[-d], -d)}
  <2>1. S[-d] \in Int /\ S[-d] <= -d /\ d \in Int
    BY <1>1
  <2>2. N[d] = 1 - S[-d] /\ C[d] = {Interval(S[-d], -d)}
    OBVIOUS
  <2> HIDE DEF N, C
  <2> QED BY <2>1, <2>2
<1> HIDE DEF N, C
<1>3. PICK f : Onward(f, C, N, a, z)
  <2> HIDE DEF a, z
  <2> QED BY <1>1, <1>2, OnwardExists
<1> DEFINE g == [e \in first .. last |-> f[-e]]
<1>4. ASSUME NEW e \in first .. last
      PROVE  g[e] = {Interval(S[e], e)} \cup IF S[e] <= first THEN {} ELSE g[S[e] - 1]
  <2> DEFINE d == -e
  <2>1. d \in a .. z /\ -d = e /\ e \in Int /\ d \in Int
    OBVIOUS
  <2> HIDE DEF d
  <2>2. S[e] \in Int /\ S[e] <= e /\ N[d] = 1 - S[e] /\ C[d] = {Interval(S[e], e)}
    BY <1>2, <2>1
  <2>3. g[e] = f[d]
    BY DEF d
  <2>4. f[d] = C[d] \cup IF N[d] > z THEN {} ELSE f[N[d]]
    <3> HIDE DEF a, z
    <3> QED BY <1>3, <2>1 DEF Onward
  <2>5. N[d] > z <=> S[e] <= first
    BY <2>2
  <2>6. ~(S[e] <= first) => g[S[e] - 1] = f[N[d]]
    <3>1. -(S[e] - 1) = N[d]
      BY <2>2
    <3>2. ~(S[e] <= first) => S[e] - 1 \in first .. last
      BY <2>1, <2>2
    <3> QED BY <3>1, <3>2
  <2> HIDE DEF g, z, a
  <2> QED BY <2>2, <2>3, <2>4, <2>5, <2>6
<1>5. Backward(g, S, first, last)
  <2> DEFINE r == [e \in first .. last |-> {Interval(S[e], e)} \cup IF S[e] <= first THEN {} ELSE g[S[e] - 1]]
  <2>1. \A e \in first .. last : g[e] = r[e]
    BY <1>4
  <2>2. g = [e \in first .. last |-> g[e]] /\ r = [e \in first .. last |-> r[e]]
    OBVIOUS
  <2> HIDE DEF g, r
  <2>3. g = r
    BY <2>1, <2>2
  <2> QED BY <2>3 DEF r, Backward
<1> QED BY <1>5

\* The periods laid on from the first start, among starts that lead to one another.
LEMMA OnwardsTiled ==
  ASSUME NEW start \in Int, NEW last \in Int, start <= last, NEW ask, NEW A, start \in A,
         \A s \in start .. last : next_bucket_start(s, ask) \in Int /\ next_bucket_start(s, ask) > s,
         \A s \in A \cap (start .. last) : /\ bucket_end_for(s, ask) = next_bucket_start(s, ask) - 1
                                           /\ next_bucket_start(s, ask) <= last => next_bucket_start(s, ask) \in A
  PROVE  /\ Tiled(Onwards(start, last, ask), start, last)
         /\ \A b \in Onwards(start, last, ask) : next_bucket_start(start, ask) - 1 <= b.end
<1> DEFINE days == start .. last
<1> DEFINE C == [s \in days |-> {Interval(s, bucket_end_for(s, ask))}]
<1> DEFINE N == [s \in days |-> next_bucket_start(s, ask)]
<1> DEFINE Eq(f) == f = [s \in days |->
                         {Interval(s, bucket_end_for(s, ask))}
                             \cup IF next_bucket_start(s, ask) > last THEN {} ELSE f[next_bucket_start(s, ask)]]
<1> DEFINE f == CHOOSE f : Eq(f)
<1>1. \A s \in days : /\ N[s] = next_bucket_start(s, ask) /\ C[s] = {Interval(s, bucket_end_for(s, ask))}
                      /\ N[s] \in Int /\ N[s] > s
  OBVIOUS
<1> HIDE DEF C, N
<1>2. \E g : Onward(g, C, N, start, last)
  BY <1>1, OnwardExists
<1>3. ASSUME NEW g PROVE Onward(g, C, N, start, last) <=> Eq(g)
  <2> DEFINE r == [s \in days |-> C[s] \cup IF N[s] > last THEN {} ELSE g[N[s]]]
  <2> DEFINE q == [s \in days |->
                      {Interval(s, bucket_end_for(s, ask))}
                          \cup IF next_bucket_start(s, ask) > last THEN {} ELSE g[next_bucket_start(s, ask)]]
  <2>1. \A s \in days : r[s] = q[s]
    BY <1>1
  <2>2. r = [s \in days |-> r[s]] /\ q = [s \in days |-> q[s]]
    BY Zenon
  <2>3. r = q
    <3> HIDE DEF r, q
    <3> QED BY <2>1, <2>2
  <2>4. Onward(g, C, N, start, last) <=> g = r
    BY Zenon DEF Onward
  <2>5. Eq(g) <=> g = q
    BY Zenon
  <2> HIDE DEF r, q, Eq
  <2> QED BY <2>3, <2>4, <2>5
<1>4. Eq(f)
  <2> HIDE DEF Eq
  <2> QED BY <1>2, <1>3
<1>5. Onward(f, C, N, start, last)
  <2> HIDE DEF Eq, f
  <2> QED BY <1>3, <1>4
<1>6. Onwards(start, last, ask) = f[start]
  BY Zenon DEF Onwards
<1> HIDE DEF f
<1>7. \A s \in A \cap (start .. last) : /\ N[s] \in Int /\ N[s] > s /\ C[s] = {Interval(s, N[s] - 1)}
                                        /\ N[s] <= last => N[s] \in A
  BY <1>1
<1>8. Tiled(f[start], start, last) /\ \A b \in f[start] : N[start] - 1 <= b.end
  BY <1>5, <1>7, TiledOnwards
<1> QED BY <1>1, <1>6, <1>8

\* Those laid back from the last end.
LEMMA BackwardsTiled ==
  ASSUME NEW first \in Int, NEW last \in Int, first <= last, NEW ask,
         \A e \in first .. last : /\ end_bound_bucket_start_for_end(e, ask) \in Int
                                  /\ end_bound_bucket_start_for_end(e, ask) <= e
  PROVE  Tiled(Backwards(first, last, ask), first, last)
<1> DEFINE days == first .. last
<1> DEFINE S == [e \in days |-> end_bound_bucket_start_for_end(e, ask)]
<1> DEFINE Eq(g) == g = [e \in days |-> LET s == end_bound_bucket_start_for_end(e, ask)
                                        IN  {Interval(s, e)} \cup IF s <= first THEN {} ELSE g[s - 1]]
<1> DEFINE g == CHOOSE g : Eq(g)
<1>1. \A e \in days : S[e] = end_bound_bucket_start_for_end(e, ask) /\ S[e] \in Int /\ S[e] <= e
  OBVIOUS
<1> HIDE DEF S
<1>2. \E h : Backward(h, S, first, last)
  BY <1>1, BackwardExists
<1>3. ASSUME NEW h PROVE Backward(h, S, first, last) <=> Eq(h)
  <2> DEFINE r == [e \in days |-> {Interval(S[e], e)} \cup IF S[e] <= first THEN {} ELSE h[S[e] - 1]]
  <2> DEFINE q == [e \in days |-> LET s == end_bound_bucket_start_for_end(e, ask)
                                  IN  {Interval(s, e)} \cup IF s <= first THEN {} ELSE h[s - 1]]
  <2>1. \A e \in days : r[e] = q[e]
    BY <1>1
  <2>2. r = [e \in days |-> r[e]] /\ q = [e \in days |-> q[e]]
    BY Zenon
  <2>3. r = q
    <3> HIDE DEF r, q
    <3> QED BY <2>1, <2>2
  <2>4. Backward(h, S, first, last) <=> h = r
    BY Zenon DEF Backward
  <2>5. Eq(h) <=> h = q
    BY Zenon
  <2> HIDE DEF r, q, Eq
  <2> QED BY <2>3, <2>4, <2>5
<1>4. Eq(g)
  <2> HIDE DEF Eq
  <2> QED BY <1>2, <1>3
<1>5. Backward(g, S, first, last)
  <2> HIDE DEF Eq, g
  <2> QED BY <1>3, <1>4
<1>6. Backwards(first, last, ask) = g[last]
  BY Zenon DEF Backwards
<1> HIDE DEF g
<1>7. Tiled(g[last], first, last)
  BY <1>1, <1>5, TiledBackwards
<1> QED BY <1>6, <1>7

\* A range that is cut short in front is covered too.
LEMMA TiledLater ==
  ASSUME NEW intervals, NEW start \in Int, NEW first \in Int, NEW last \in Int, start <= first,
         Tiled(intervals, start, last), \A b \in intervals : first <= b.end
  PROVE  Tiled(intervals, first, last)
<1>1. \A n \in first .. last : n \in start .. last
  OBVIOUS
<1> QED BY <1>1 DEF Tiled

\* Each kind of period, on the calendar or laid from the end, has each day of the range once.
LEMMA PeriodsTiled ==
  ASSUME NEW ask \in Asks, NEW first \in Dates, NEW last \in Dates, first <= last,
         first = start_date(ask), last = end_date(ask)
  PROVE  Tiled(build_bucket_intervals(ask), first, last)
<1>1. first \in Int /\ last \in Int /\ first .. last \subseteq Dates /\ Dates \subseteq Int
  <2>1. PICK a \in Int, b \in Int : Dates = a .. b
    BY DatesInterval
  <2> QED BY <2>1
<1>2. /\ ask.period \in {"daily", "weekly", "monthly", "quarterly", "yearly", "range", "custom"}
      /\ ask.days \in Nat \ {0} /\ ask.week_start \in {"sunday", "monday"}
      /\ ask.alignment \in {"calendar", "end-bound"}
  BY DEF Asks
<1>3. CASE ask.period = "range"
  <2>1. build_bucket_intervals(ask) = {Interval(first, last)}
    BY <1>3 DEF build_bucket_intervals
  <2> DEFINE b == Interval(first, last)
  <2>2. b.start = first /\ b.end = last
    BY DEF Interval
  <2>3. \A n \in first .. last : Holds(b, n)
    BY <1>1, <2>2 DEF Holds
  <2> HIDE DEF b
  <2>4. Tiled({b}, first, last)
    BY <1>1, <2>2, <2>3, FS_Singleton DEF Tiled
  <2> QED BY <2>1, <2>4 DEF b
<1>4. CASE ask.period # "range" /\ ask.alignment = "calendar"
  <2>1. build_bucket_intervals(ask) = Onwards(bucket_start_for(first, ask), last, ask)
    BY <1>4 DEF build_bucket_intervals
  <2> DEFINE start == bucket_start_for(first, ask)
  <2>2. ASSUME NEW k \in Shifts, start \in Starts(k), start <= first, first <= LastDayOf(start, k),
               \A s : next_bucket_start(s, ask) = shift_months_clamped(s, k) /\ bucket_end_for(s, ask) = LastDayOf(s, k)
        PROVE  Tiled(Onwards(start, last, ask), first, last)
    <3>1. start \in Dates /\ start \in Int /\ start <= last
      <4> HIDE DEF start
      <4>1. start \in Dates
        BY <2>2 DEF Starts
      <4> QED BY <4>1, <1>1, <2>2
    <3> HIDE DEF start
    <3>2. start .. last \subseteq Dates
      <4>1. PICK a \in Int, b \in Int : Dates = a .. b
        BY DatesInterval
      <4> QED BY <4>1, <3>1
    <3>3. \A s \in start .. last : next_bucket_start(s, ask) \in Int /\ next_bucket_start(s, ask) > s
      <4>1. \A s \in start .. last : shift_months_clamped(s, k) \in Int /\ s < shift_months_clamped(s, k) /\ s \in Int
        BY <3>1, <3>2, Shifted
      <4> QED BY <4>1, <2>2
    <3>4. ASSUME NEW s \in Starts(k) \cap (start .. last)
          PROVE  /\ bucket_end_for(s, ask) = next_bucket_start(s, ask) - 1
                 /\ next_bucket_start(s, ask) <= last => next_bucket_start(s, ask) \in Starts(k)
      <4>1. /\ LastDayOf(s, k) = shift_months_clamped(s, k) - 1 /\ shift_months_clamped(s, k) \in Int
            /\ s < shift_months_clamped(s, k)
            /\ shift_months_clamped(s, k) \in Dates => shift_months_clamped(s, k) \in Starts(k)
        BY StartsFollow
      <4>2. shift_months_clamped(s, k) <= last => shift_months_clamped(s, k) \in start .. last
        BY <3>1, <1>1, <4>1
      <4> QED BY <2>2, <3>2, <4>1, <4>2
    <3>5. /\ Tiled(Onwards(start, last, ask), start, last)
          /\ \A b \in Onwards(start, last, ask) : next_bucket_start(start, ask) - 1 <= b.end
      BY <1>1, <2>2, <3>1, <3>3, <3>4, OnwardsTiled
    <3>6. first <= next_bucket_start(start, ask) - 1 /\ next_bucket_start(start, ask) - 1 \in Int
      <4>1. LastDayOf(start, k) = shift_months_clamped(start, k) - 1 /\ shift_months_clamped(start, k) \in Int
        BY <2>2, StartsFollow
      <4> QED BY <2>2, <4>1
    <3>7. \A b \in Onwards(start, last, ask) : first <= b.end
      BY <1>1, <3>5, <3>6 DEF Tiled
    <3> QED BY <1>1, <2>2, <3>1, <3>5, <3>7, TiledLater
  <2>3. ASSUME NEW k \in Nat \ {0}, start \in Int, start <= first, first <= start + k - 1,
               \A s : next_bucket_start(s, ask) = s + k,
               \A s \in Int : bucket_end_for(s, ask) = s + k - 1
        PROVE  Tiled(Onwards(start, last, ask), first, last)
    <3> HIDE DEF start
    <3>1. start <= last
      BY <1>1, <2>3
    <3>2. \A s \in start .. last : next_bucket_start(s, ask) \in Int /\ next_bucket_start(s, ask) > s
      BY <1>1, <2>3
    <3>3. \A s \in Int \cap (start .. last) : /\ bucket_end_for(s, ask) = next_bucket_start(s, ask) - 1
                                              /\ next_bucket_start(s, ask) <= last => next_bucket_start(s, ask) \in Int
      BY <1>1, <2>3
    <3>4. /\ Tiled(Onwards(start, last, ask), start, last)
          /\ \A b \in Onwards(start, last, ask) : next_bucket_start(start, ask) - 1 <= b.end
      BY <1>1, <2>3, <3>1, <3>2, <3>3, OnwardsTiled
    <3>5. \A b \in Onwards(start, last, ask) : first <= b.end
      BY <1>1, <2>3, <3>4 DEF Tiled
    <3> QED BY <1>1, <2>3, <3>4, <3>5, TiledLater
  <2>4. CASE ask.period = "daily"
    <3>1. /\ start = first
          /\ \A s : next_bucket_start(s, ask) = s + 1
          /\ \A s \in Int : bucket_end_for(s, ask) = s + 1 - 1
      BY <2>4, <1>1 DEF bucket_start_for, next_bucket_start, bucket_end_for
    <3> HIDE DEF start
    <3> QED BY <1>1, <2>1, <2>3, <3>1 DEF start
  <2>5. CASE ask.period = "weekly"
    <3>1. start = first - IF ask.week_start = "sunday" THEN num_days_from_sunday(first) ELSE num_days_from_monday(first)
      BY <2>5 DEF bucket_start_for
    <3>2. num_days_from_sunday(first) \in 0 .. 6 /\ num_days_from_monday(first) \in 0 .. 6
      BY <1>1 DEF num_days_from_sunday, num_days_from_monday
    <3>3. /\ \A s : next_bucket_start(s, ask) = s + 7
          /\ \A s \in Int : bucket_end_for(s, ask) = s + 7 - 1
      BY <2>5 DEF next_bucket_start, bucket_end_for
    <3> HIDE DEF start
    <3>4. start \in Int /\ start <= first /\ first <= start + 7 - 1
      BY <1>1, <3>1, <3>2
    <3> QED BY <1>1, <2>1, <2>3, <3>3, <3>4 DEF start
  <2>6. CASE ask.period = "monthly"
    <3>1. start = Date(Year(first), Month(first), 1)
      BY <2>6 DEF bucket_start_for
    <3>2. \A s : next_bucket_start(s, ask) = shift_months_clamped(s, 1) /\ bucket_end_for(s, ask) = LastDayOf(s, 1)
      BY <2>6 DEF next_bucket_start, bucket_end_for, LastDayOf
    <3> HIDE DEF start
    <3>3. start \in Starts(1) /\ start <= first /\ first <= LastDayOf(start, 1) /\ 1 \in Shifts
      BY <3>1, StartsBefore DEF Shifts
    <3> QED BY <2>1, <2>2, <3>2, <3>3 DEF start
  <2>7. CASE ask.period = "quarterly"
    <3>1. start = Date(Year(first), ((Month(first) - 1) \div 3) * 3 + 1, 1)
      BY <2>7 DEF bucket_start_for
    <3>2. \A s : next_bucket_start(s, ask) = shift_months_clamped(s, 3) /\ bucket_end_for(s, ask) = LastDayOf(s, 3)
      BY <2>7 DEF next_bucket_start, bucket_end_for, LastDayOf
    <3> HIDE DEF start
    <3>3. start \in Starts(3) /\ start <= first /\ first <= LastDayOf(start, 3) /\ 3 \in Shifts
      BY <3>1, StartsBefore DEF Shifts
    <3> QED BY <2>1, <2>2, <3>2, <3>3 DEF start
  <2>8. CASE ask.period = "yearly"
    <3>1. start = Date(Year(first), 1, 1)
      BY <2>8 DEF bucket_start_for
    <3>2. \A s : next_bucket_start(s, ask) = shift_months_clamped(s, 12) /\ bucket_end_for(s, ask) = LastDayOf(s, 12)
      BY <2>8 DEF next_bucket_start, bucket_end_for, LastDayOf
    <3> HIDE DEF start
    <3>3. start \in Starts(12) /\ start <= first /\ first <= LastDayOf(start, 12) /\ 12 \in Shifts
      BY <3>1, StartsBefore DEF Shifts
    <3> QED BY <2>1, <2>2, <3>2, <3>3 DEF start
  <2>9. CASE ask.period = "custom"
    <3>1. /\ start = first
          /\ \A s : next_bucket_start(s, ask) = s + ask.days
          /\ \A s \in Int : bucket_end_for(s, ask) = s + ask.days - 1
      BY <2>9, <1>1 DEF bucket_start_for, next_bucket_start, bucket_end_for
    <3> HIDE DEF start
    <3> QED BY <1>1, <1>2, <2>1, <2>3, <3>1 DEF start
  <2> QED BY <1>2, <1>4, <2>4, <2>5, <2>6, <2>7, <2>8, <2>9
<1>5. CASE ask.period # "range" /\ ask.alignment # "calendar"
  <2>1. build_bucket_intervals(ask) = Backwards(first, last, ask)
    BY <1>5 DEF build_bucket_intervals
  <2>2. ASSUME NEW e \in first .. last
        PROVE  end_bound_bucket_start_for_end(e, ask) \in Int /\ end_bound_bucket_start_for_end(e, ask) <= e
    <3>1. e \in Dates /\ e \in Int
      BY <1>1
    <3>2. \A k \in Shifts : shift_months_clamped(e, -k) \in Int /\ shift_months_clamped(e, -k) + 1 <= e
      BY <3>1, Shifted
    <3>3. /\ shift_months_clamped(e, -1) \in Int /\ shift_months_clamped(e, -1) + 1 <= e
          /\ shift_months_clamped(e, -3) \in Int /\ shift_months_clamped(e, -3) + 1 <= e
          /\ shift_months_clamped(e, -12) \in Int /\ shift_months_clamped(e, -12) + 1 <= e
      BY <3>2 DEF Shifts
    <3>4. CASE ask.period \in {"monthly", "quarterly", "yearly"}
      BY <3>3, <3>4 DEF end_bound_bucket_start_for_end
    <3>5. CASE ask.period \in {"daily", "weekly", "custom"}
      BY <1>2, <3>1, <3>5 DEF end_bound_bucket_start_for_end
    <3> QED BY <1>2, <1>5, <3>4, <3>5
  <2> QED BY <1>1, <2>1, <2>2, BackwardsTiled
<1> QED BY <1>3, <1>4, <1>5

\* Types, with the days and the accounts that are stored.
SpendingInv ==
    /\ transactions \in Seq(Entries) /\ Len(transactions) <= MaxTransactions
    /\ notes \in Seq(Notes \cup {Unmarked}) /\ Len(notes) = Len(transactions)
    /\ spending \in SpendingConfigs \cup {None}
    /\ report \in Requests \cup {None}

\* Whatever is stored, annotated and asked for keeps them.
LEMMA SpendingKeeps ==
  ASSUME SpendingInv, [SpendingNext]_spendingVars
  PROVE  SpendingInv'
<1>1. CASE Configure
  BY <1>1 DEF Configure, SpendingInv
<1>2. ASSUME NEW t \in Entries, StoreTransaction(t) PROVE SpendingInv'
  BY <1>2, SpendingAssumption DEF StoreTransaction, SpendingInv
<1>3. ASSUME NEW i \in Stored, NEW note \in Notes, Annotate(i, note) PROVE SpendingInv'
  <2>1. i \in 1 .. Len(notes)
    BY DEF Stored, SpendingInv
  <2>2. notes' \in Seq(Notes \cup {Unmarked}) /\ Len(notes') = Len(notes)
    BY <1>3, <2>1 DEF Annotate, SpendingInv
  <2> QED BY <1>3, <2>2 DEF Annotate, SpendingInv
<1>4. ASSUME NEW ask \in Requests, Ask(ask) PROVE SpendingInv'
  BY <1>4 DEF Ask, SpendingInv
<1>5. CASE UNCHANGED spendingVars
  BY <1>5 DEF spendingVars, SpendingInv
<1> QED BY <1>1, <1>2, <1>3, <1>4, <1>5 DEF SpendingNext

\* The days of what is stored are dates, and so are the bounds of a report.
LEMMA ReportDates ==
  ASSUME SpendingInv, NEW ask \in Asks
  PROVE  start_date(ask) \in Dates /\ end_date(ask) \in Dates
<1>1. ASSUME NEW i \in Stored PROVE local_date(i, ask.tz) \in Dates
  <2>1. i \in DOMAIN notes /\ transactions[i] \in Entries /\ notes[i] \in Notes \cup {Unmarked}
    BY DEF Stored, SpendingInv
  <2>2. notes[i].date \in Dates \cup {None}
    BY <2>1, SpendingAssumption DEF Unmarked
  <2>3. {transactions[i].day, transactions[i].day + 1} \subseteq Dates
    BY <2>1, SpendingAssumption
  <2>4. transactions[i].day + 0 = transactions[i].day
    BY <2>3, DatesAre
  <2> QED BY <2>2, <2>3, <2>4 DEF local_date
<1> DEFINE days == {local_date(i, ask.tz) : i \in Considered(ask.scope, ask.status)}
<1>2. days \subseteq Dates
  BY <1>1 DEF Considered
<1>3. days # {} => Min(days) \in Dates
  <2>1. PICK a \in Int, b \in Int : Dates = a .. b
    BY DatesInterval
  <2>2. days \subseteq Int /\ \A c \in days : a <= c
    BY <1>2, <2>1
  <2> HIDE DEF days
  <2> QED BY <1>2, <2>1, <2>2, Extremes
<1>4. ask.start \in Dates \cup {None} /\ ask.end \in Dates \cup {None}
  BY DEF Asks
<1>5. start_date(ask) = IF ask.start # None THEN ask.start ELSE IF days = {} THEN Today ELSE Min(days)
  BY DEF start_date
<1> HIDE DEF days
<1> QED BY <1>3, <1>4, <1>5, CalendarAssumption DEF end_date

\* Cut to the range, the periods that have each of its days once still do.
LEMMA PeriodsHold ==
  ASSUME NEW ask, NEW intervals, NEW bucket, NEW first \in Int, NEW last \in Int, Tiled(intervals, first, last),
         ask.include_empty, NEW n \in first .. last
  PROVE  Cardinality({p \in PeriodsOf(ask, intervals, bucket, first, last) : p.start <= n /\ n <= p.end}) = 1
<1> DEFINE P(b) == Period(b, {i \in DOMAIN bucket : bucket[i] = b.start}, ask, first, last)
<1>1. PeriodsOf(ask, intervals, bucket, first, last) = {P(b) : b \in intervals}
  BY DEF PeriodsOf
<1>2. ASSUME NEW b \in intervals PROVE (P(b).start <= n /\ n <= P(b).end) <=> Holds(b, n)
  <2>1. b.start \in Int /\ b.end \in Int
    BY DEF Tiled
  <2>2. P(b).start = Max({b.start, first}) /\ P(b).end = Min({b.end, last})
    BY DEF Period
  <2>3. /\ Max({b.start, first}) = IF b.start <= first THEN first ELSE b.start
        /\ Min({b.end, last}) = IF b.end <= last THEN b.end ELSE last
    BY <2>1, OfTwo
  <2> HIDE DEF P
  <2> QED BY <2>1, <2>2, <2>3 DEF Holds
<1>3. PICK b \in intervals : Holds(b, n) /\ \A c \in intervals : Holds(c, n) => c = b
  BY DEF Tiled
<1> HIDE DEF P
<1>4. {p \in {P(c) : c \in intervals} : p.start <= n /\ n <= p.end} = {P(b)}
  BY <1>2, <1>3
<1> QED BY <1>1, <1>4, FS_Singleton

\* A report that is answered has each day once.
LEMMA DaysOnce ==
  ASSUME SpendingInv
  PROVE  EveryDayOnce
<1> SUFFICES ASSUME Answered, NEW n \in start_date(report) .. end_date(report)
             PROVE  Cardinality({b \in spending_report([report EXCEPT !.include_empty = TRUE]).periods :
                                     b.start <= n /\ n <= b.end}) = 1
  BY DEF EveryDayOnce
<1> DEFINE ask == [report EXCEPT !.include_empty = TRUE]
<1> DEFINE first == start_date(ask)
<1> DEFINE last == end_date(ask)
<1> DEFINE intervals == build_bucket_intervals(ask)
<1> DEFINE bucket == Buckets(ask, Counted(ask), intervals)
<1>1. report \in Asks
  BY SpendingAssumption DEF SpendingInv, Answered
<1>2. ask \in Asks /\ ask.include_empty
  BY <1>1 DEF Asks
<1>3. start_date(ask) = start_date(report) /\ end_date(ask) = end_date(report)
  <2>1. ask.start = report.start /\ ask.end = report.end /\ ask.tz = report.tz
        /\ ask.scope = report.scope /\ ask.status = report.status
    BY <1>1 DEF Asks
  <2> HIDE DEF ask
  <2> QED BY <2>1, Zenon DEF start_date, end_date
<1> HIDE DEF ask
<1>4. first \in Dates /\ last \in Dates /\ first \in Int /\ last \in Int
  <2>1. start_date(ask) \in Dates /\ end_date(ask) \in Dates
    BY <1>2, ReportDates
  <2>2. Dates \subseteq Int
    BY DatesAre
  <2> QED BY <2>1, <2>2
<1>5. first <= last
  BY <1>3, <1>4 DEF Answered, Fails
<1>6. Tiled(intervals, first, last)
  BY <1>2, <1>4, <1>5, PeriodsTiled
<1>7. spending_report(ask).periods = PeriodsOf(ask, intervals, bucket, first, last)
  BY DEF spending_report, Report
<1>8. n \in first .. last
  BY <1>3
<1> HIDE DEF first, last, intervals, bucket
<1>9. Cardinality({b \in PeriodsOf(ask, intervals, bucket, first, last) : b.start <= n /\ n <= b.end}) = 1
  BY <1>2, <1>4, <1>6, <1>8, PeriodsHold
<1> QED BY <1>7, <1>9 DEF ask

\* Both leave out the same.
LEMMA BothLeaveOut ==
  ASSUME SpendingInv
  PROVE  ListAgrees
<1> DEFINE ask == [report EXCEPT !.tz = "utc", !.status = "all", !.noncurrency = TRUE, !.direction = "net"]
<1> SUFFICES ASSUME Answered, report.scope = "portfolio"
             PROVE  Relevant(ask) = {i \in list_transactions(start_date(ask), end_date(ask), TRUE) :
                                         transactions[i].amount # 0}
  BY DEF ListAgrees
<1>1. report \in Asks
  BY SpendingAssumption DEF SpendingInv, Answered
<1>2. ask.tz = "utc" /\ ask.status = "all" /\ ask.noncurrency /\ ask.direction = "net" /\ ask.scope = "portfolio"
  BY <1>1 DEF Asks
<1> HIDE DEF ask
<1>3. \A i \in Stored : transactions[i].account \in SpendingAccounts
  BY SpendingAssumption DEF SpendingInv, Stored
<1>4. \A i \in Stored : include_status(transactions[i].status, ask.status)
  BY <1>2 DEF include_status
<1>5. \A i : apply_direction(transactions[i].amount, ask.direction) = transactions[i].amount
  BY <1>2 DEF apply_direction
<1>6. account_ids(ask.scope) = SpendingAccounts \ ignored_account_ids
  BY <1>2 DEF account_ids
<1>7. Considered(ask.scope, ask.status) = {i \in Stored : /\ transactions[i].account \notin ignored_account_ids
                                                          /\ ~transactions[i].transfer
                                                          /\ ~is_match(transactions[i])}
  BY <1>3, <1>4, <1>6 DEF Considered
<1>8. rows(ask) = {i \in Stored : /\ transactions[i].account \notin ignored_account_ids
                                  /\ ~transactions[i].transfer
                                  /\ ~is_match(transactions[i])
                                  /\ ~annotation_ignores_spending(i)}
  BY <1>2, <1>7 DEF rows
<1> QED BY <1>2, <1>5, <1>8 DEF Relevant, list_transactions

\* Types of what is stored, and dates and accounts of a report.
THEOREM SpendingInvHolds == SpendingSpec => []SpendingInv
<1>1. SpendingInit => SpendingInv
  BY SpendingAssumption DEF SpendingInit, SpendingInv
<1>2. SpendingInv /\ [SpendingNext]_spendingVars => SpendingInv'
  BY SpendingKeeps
<1> QED BY <1>1, <1>2, PTL DEF SpendingSpec

\* Type correctness of the spending report's inputs: each transaction has its annotation.
THEOREM SpendingTypes == SpendingSpec => []SpendingTypeOK
<1>1. SpendingInv => SpendingTypeOK
  BY DEF SpendingInv, SpendingTypeOK
<1> QED BY <1>1, SpendingInvHolds, PTL

\* Whatever the period, its alignment and the range, each day of it is in one period that is
\* shown, none in two or between two: build_bucket_intervals leaves no gap where months differ.
THEOREM EveryDayOnceHolds == SpendingSpec => []EveryDayOnce
<1>1. SpendingInv => EveryDayOnce
  BY DaysOnce
<1> QED BY <1>1, SpendingInvHolds, PTL

\* The list that skips what is ignored and the report leave out the same transactions:
\* list_transactions and spending_report_with_store write the rules down twice.
THEOREM ListAgreesHolds == SpendingSpec => []ListAgrees
<1>1. SpendingInv => ListAgrees
  BY BothLeaveOut
<1> QED BY <1>1, SpendingInvHolds, PTL

(***************************************************************************)
(* Sums.  A fold over a set is a recursive function on its subsets; it     *)
(* exists for a finite set, and each fact about it is proved of a smallest *)
(* subset for which it would fail.                                         *)
(***************************************************************************)
One(s) == CHOOSE x \in s : TRUE
SumsOf(v, T, g) ==
    g = [s \in SUBSET T |-> IF s = {} THEN 0 ELSE v[One(s)] + g[s \ {One(s)}]]
Added(v, S) == (CHOOSE g : SumsOf(v, S, g))[S]

\* A smallest of some finite sets.
LEMMA SmallestSet ==
  ASSUME NEW C, C # {}, \A S \in C : IsFiniteSet(S)
  PROVE  \E S \in C : \A U \in C : Cardinality(S) <= Cardinality(U)
<1> DEFINE Sizes == {Cardinality(S) : S \in C}
<1>1. \A S \in C : Cardinality(S) \in Nat
  BY FS_CardinalityType
<1>2. Sizes \subseteq Nat /\ Sizes # {}
  BY <1>1
<1>3. PICK n \in Sizes : \A k \in Sizes : n <= k
  <2> HIDE DEF Sizes
  <2> QED BY <1>2, LeastNumber
<1>4. PICK S \in C : n = Cardinality(S)
  BY <1>3
<1> QED BY <1>3, <1>4

\* What is left without one of the elements is finite, smaller, and part of the same.
LEMMA Without ==
  ASSUME NEW T, IsFiniteSet(T), NEW S \in SUBSET T, NEW x \in S
  PROVE  /\ IsFiniteSet(S) /\ IsFiniteSet(S \ {x}) /\ S \ {x} \in SUBSET T /\ x \in T
         /\ Cardinality(S \ {x}) = Cardinality(S) - 1
         /\ Cardinality(S) \in Nat /\ ~(Cardinality(S) <= Cardinality(S \ {x}))
<1>1. IsFiniteSet(S)
  BY FS_Subset
<1>2. Cardinality(S) \in Nat
  BY <1>1, FS_CardinalityType
<1>3. IsFiniteSet(S \ {x}) /\ Cardinality(S \ {x}) = Cardinality(S) - 1
  BY <1>1, FS_RemoveElement
<1> QED BY <1>1, <1>2, <1>3

\* One of some things is one of them.
LEMMA OneIsIn == ASSUME NEW s, s # {} PROVE One(s) \in s
BY DEF One

\* Finite sets have sums: those of small subsets first.
LEMMA SumsExist ==
  ASSUME NEW T, IsFiniteSet(T), NEW v
  PROVE  \E g : SumsOf(v, T, g)
<1> DEFINE E(g, s) == IF s = {} THEN 0 ELSE v[One(s)] + g[s \ {One(s)}]
<1> DEFINE Right(S) == \E g : g = [s \in SUBSET S |-> E(g, s)]
<1> DEFINE Upto(n) == {s \in SUBSET T : Cardinality(s) < n}
<1> DEFINE Sums(n) == \E g : \A s \in Upto(n) : g[s] = E(g, s)
<1>1. \A s \in SUBSET T : Cardinality(s) \in Nat /\ Cardinality(s) <= Cardinality(T)
  BY FS_Subset, FS_CardinalityType
<1>2. Cardinality(T) \in Nat
  BY FS_CardinalityType
<1>3. Sums(0)
  <2>1. Upto(0) = {}
    BY <1>1
  <2> HIDE DEF Upto
  <2> QED BY <2>1
<1>4. ASSUME NEW n \in Nat, Sums(n) PROVE Sums(n + 1)
  <2>1. PICK g : \A s \in Upto(n) : g[s] = E(g, s)
    BY <1>4
  <2> DEFINE h == [s \in Upto(n + 1) |-> E(g, s)]
  <2>2. ASSUME NEW s \in Upto(n + 1), s # {} PROVE s \ {One(s)} \in Upto(n) /\ s \ {One(s)} \in Upto(n + 1)
    <3>1. One(s) \in s /\ s \in SUBSET T
      BY <2>2, OneIsIn
    <3>2. s \ {One(s)} \in SUBSET T /\ Cardinality(s \ {One(s)}) = Cardinality(s) - 1 /\ Cardinality(s) \in Nat
      BY <3>1, Without
    <3>3. Cardinality(s) < n + 1
      OBVIOUS
    <3> QED BY <3>2, <3>3
  <2>3. \A s \in Upto(n) : s \in Upto(n + 1)
    BY <1>1
  <2>4. \A s \in Upto(n) : h[s] = g[s]
    BY <2>1, <2>3
  <2>5. ASSUME NEW s \in Upto(n + 1) PROVE h[s] = E(h, s)
    <3>1. h[s] = E(g, s)
      OBVIOUS
    <3> HIDE DEF h, Upto
    <3>2. s # {} => h[s \ {One(s)}] = g[s \ {One(s)}]
      BY <2>2, <2>4
    <3> QED BY <3>1, <3>2
  <2> HIDE DEF h, Upto, E
  <2> QED BY <2>5
<1>5. Sums(Cardinality(T) + 1)
  <2> HIDE DEF Sums
  <2>1. ASSUME {k \in Nat : ~Sums(k)} # {} PROVE FALSE
    <3>1. PICK k \in {i \in Nat : ~Sums(i)} : \A j \in {i \in Nat : ~Sums(i)} : k <= j
      BY <2>1, LeastNumber
    <3>2. k # 0
      BY <1>3, <3>1
    <3>3. k - 1 \in Nat /\ ~(k <= k - 1) /\ k - 1 + 1 = k
      BY <3>1, <3>2
    <3>4. Sums(k - 1)
      BY <3>1, <3>3
    <3>5. Sums(k - 1 + 1)
      BY <1>4, <3>3, <3>4
    <3> QED BY <3>1, <3>3, <3>5
  <2>2. Cardinality(T) + 1 \in Nat
    BY <1>2
  <2> QED BY <2>1, <2>2
<1>6. Upto(Cardinality(T) + 1) = SUBSET T
  BY <1>1, <1>2
<1>7. PICK g : \A s \in SUBSET T : g[s] = E(g, s)
  <2> HIDE DEF Upto, E
  <2> QED BY <1>5, <1>6
<1> DEFINE h == [s \in SUBSET T |-> g[s]]
<1>8. \A s \in SUBSET T : h[s] = E(h, s)
  <2>1. ASSUME NEW s \in SUBSET T PROVE h[s] = E(h, s)
    <3>1. h[s] = E(g, s)
      BY <1>7
    <3>2. s \ {One(s)} \in SUBSET T
      OBVIOUS
    <3>3. h[s \ {One(s)}] = g[s \ {One(s)}]
      BY <3>2
    <3> HIDE DEF h
    <3> QED BY <3>1, <3>3
  <2> QED BY <2>1
<1> DEFINE r == [s \in SUBSET T |-> E(h, s)]
<1>9. h = r
  <2>1. h = [s \in SUBSET T |-> h[s]] /\ r = [s \in SUBSET T |-> r[s]] /\ \A s \in SUBSET T : r[s] = E(h, s)
    OBVIOUS
  <2> HIDE DEF h, r, E
  <2> QED BY <1>8, <2>1
<1>10. SumsOf(v, T, h)
  <2> HIDE DEF h
  <2> QED BY <1>9 DEF SumsOf
<1> QED BY <1>10

\* Of the same values they are the same, in whatever set.
Same(v, w, S) == \A x \in S : v[x] = w[x]
\* So two sums of them agree.
LEMMA SumsAlike ==
  ASSUME NEW T, NEW U, NEW S, S \in SUBSET T, S \in SUBSET U, IsFiniteSet(S), NEW v, NEW w, Same(v, w, S),
         NEW g, SumsOf(v, T, g), NEW h, SumsOf(w, U, h)
  PROVE  g[S] = h[S]
<1> DEFINE Bad == {s \in SUBSET S : g[s] # h[s]}
<1>1. \A s \in SUBSET S : /\ g[s] = IF s = {} THEN 0 ELSE v[One(s)] + g[s \ {One(s)}]
                          /\ h[s] = IF s = {} THEN 0 ELSE w[One(s)] + h[s \ {One(s)}]
  <2>1. ASSUME NEW s \in SUBSET S
        PROVE  /\ g[s] = IF s = {} THEN 0 ELSE v[One(s)] + g[s \ {One(s)}]
               /\ h[s] = IF s = {} THEN 0 ELSE w[One(s)] + h[s \ {One(s)}]
    <3>1. s \in SUBSET T /\ s \in SUBSET U
      OBVIOUS
    <3> QED BY <3>1 DEF SumsOf
  <2> QED BY <2>1
<1>2. ASSUME Bad # {} PROVE FALSE
  <2>1. PICK s \in Bad : \A t \in Bad : Cardinality(s) <= Cardinality(t)
    <3>1. \A t \in Bad : IsFiniteSet(t)
      BY FS_Subset
    <3> HIDE DEF Bad
    <3> QED BY <1>2, <3>1, SmallestSet
  <2>2. s # {}
    BY <1>1, <2>1
  <2>3. One(s) \in s /\ s \in SUBSET S
    BY <2>1, <2>2, OneIsIn
  <2>4. s \ {One(s)} \in SUBSET S /\ ~(Cardinality(s) <= Cardinality(s \ {One(s)}))
    BY <2>3, Without
  <2>5. g[s \ {One(s)}] = h[s \ {One(s)}] /\ v[One(s)] = w[One(s)]
    BY <2>1, <2>3, <2>4 DEF Same
  <2> QED BY <1>1, <2>1, <2>2, <2>3, <2>5
<1>3. S \in SUBSET S
  OBVIOUS
<1> QED BY <1>2, <1>3

\* The sum is that of the function, in whatever set.
LEMMA AddedIs ==
  ASSUME NEW T, NEW S \in SUBSET T, IsFiniteSet(S), NEW v, NEW g, SumsOf(v, T, g)
  PROVE  g[S] = Added(v, S)
<1> DEFINE h == CHOOSE f : SumsOf(v, S, f)
<1>1. SumsOf(v, S, h)
  BY SumsExist
<1> HIDE DEF h
<1>2. S \in SUBSET S /\ Same(v, v, S)
  BY DEF Same
<1>3. g[S] = h[S]
  BY <1>1, <1>2, SumsAlike
<1> QED BY <1>3 DEF Added, h

\* Of the same values.
LEMMA AddedAlike ==
  ASSUME NEW S, IsFiniteSet(S), NEW v, NEW w, \A x \in S : v[x] = w[x]
  PROVE  Added(v, S) = Added(w, S)
<1>1. PICK g : SumsOf(v, S, g)
  BY SumsExist
<1>2. PICK h : SumsOf(w, S, h)
  BY SumsExist
<1>3. S \in SUBSET S /\ Same(v, w, S)
  BY DEF Same
<1>4. g[S] = h[S]
  BY <1>1, <1>2, <1>3, SumsAlike
<1> QED BY <1>1, <1>2, <1>3, <1>4, AddedIs

\* Of nothing, and of something: one and the rest.
LEMMA AddedOne ==
  ASSUME NEW S, IsFiniteSet(S), NEW v
  PROVE  Added(v, S) = IF S = {} THEN 0 ELSE v[One(S)] + Added(v, S \ {One(S)})
<1>1. PICK g : SumsOf(v, S, g)
  BY SumsExist
<1>2. S \in SUBSET S /\ S \ {One(S)} \in SUBSET S
  OBVIOUS
<1>3. IsFiniteSet(S \ {One(S)})
  BY <1>2, FS_Subset
<1>4. Added(v, S) = g[S] /\ Added(v, S \ {One(S)}) = g[S \ {One(S)}]
  BY <1>1, <1>2, <1>3, AddedIs
<1> QED BY <1>1, <1>2, <1>4 DEF SumsOf

\* It does not matter which is taken first.
LEMMA AddedAny ==
  ASSUME NEW T, IsFiniteSet(T), NEW v, \A x \in T : v[x] \in Int
  PROVE  /\ Added(v, T) \in Int
         /\ \A x \in T : Added(v, T) = v[x] + Added(v, T \ {x}) /\ Added(v, T \ {x}) \in Int
<1> DEFINE Plus(S) == Added(v, S)
<1> DEFINE Right(S) == Plus(S) \in Int /\ \A x \in S : Plus(S) = v[x] + Plus(S \ {x}) /\ Plus(S \ {x}) \in Int
<1> DEFINE Bad == {S \in SUBSET T : ~Right(S)}
<1>1. \A S \in SUBSET T : Plus(S) = IF S = {} THEN 0 ELSE v[One(S)] + Plus(S \ {One(S)})
  <2>1. ASSUME NEW S \in SUBSET T PROVE Plus(S) = IF S = {} THEN 0 ELSE v[One(S)] + Plus(S \ {One(S)})
    <3>1. IsFiniteSet(S)
      BY FS_Subset
    <3> QED BY <3>1, AddedOne
  <2> QED BY <2>1
<1> HIDE DEF Plus
<1>2. ASSUME Bad # {} PROVE FALSE
  <2>1. PICK S \in Bad : \A U \in Bad : Cardinality(S) <= Cardinality(U)
    <3>1. \A U \in Bad : IsFiniteSet(U)
      BY FS_Subset
    <3> HIDE DEF Bad
    <3> QED BY <1>2, <3>1, SmallestSet
  <2>2. S \in SUBSET T /\ ~Right(S)
    BY <2>1
  <2>3. ASSUME NEW x \in S PROVE S \ {x} \in SUBSET T /\ Right(S \ {x}) /\ v[x] \in Int
    <3>1. S \ {x} \in SUBSET T /\ ~(Cardinality(S) <= Cardinality(S \ {x}))
      BY <2>2, <2>3, Without
    <3>2. S \ {x} \notin Bad
      <4> HIDE DEF Bad
      <4> QED BY <2>1, <3>1
    <3> HIDE DEF Right
    <3> QED BY <2>2, <3>1, <3>2
  <2> HIDE DEF Bad
  <2>4. S # {}
    <3> SUFFICES ASSUME S = {} PROVE FALSE
      OBVIOUS
    <3>1. Plus(S) = 0
      BY <1>1, <2>2
    <3> QED BY <2>2, <3>1
  <2> DEFINE y == One(S)
  <2>5. y \in S
    BY <2>4, OneIsIn
  <2>6. Plus(S) = v[y] + Plus(S \ {y})
    BY <1>1, <2>2, <2>4
  <2> HIDE DEF y
  <2>7. Plus(S) \in Int /\ Plus(S \ {y}) \in Int /\ v[y] \in Int
    BY <2>3, <2>5, <2>6
  <2>8. ASSUME NEW x \in S, x # y PROVE Plus(S) = v[x] + Plus(S \ {x}) /\ Plus(S \ {x}) \in Int
    <3>1. Right(S \ {x}) /\ Right(S \ {y}) /\ v[x] \in Int
      BY <2>3, <2>5
    <3>2. x \in S \ {y} /\ y \in S \ {x} /\ (S \ {x}) \ {y} = (S \ {y}) \ {x}
      BY <2>5, <2>8
    <3> DEFINE R == (S \ {y}) \ {x}
    <3>3. Plus(S \ {y}) = v[x] + Plus(R) /\ Plus(R) \in Int
      BY <3>1, <3>2
    <3>4. Plus(S \ {x}) = v[y] + Plus(R) /\ Plus(S \ {x}) \in Int
      <4>1. Plus(S \ {x}) = v[y] + Plus((S \ {x}) \ {y}) /\ Plus(S \ {x}) \in Int
        BY <3>1, <3>2
      <4> QED BY <4>1, <3>2
    <3> HIDE DEF R
    <3> QED BY <2>6, <2>7, <3>1, <3>3, <3>4
  <2>9. Right(S)
    BY <2>6, <2>7, <2>8
  <2> QED BY <2>2, <2>9
<1>3. Right(T)
  <2>1. T \in SUBSET T
    OBVIOUS
  <2> HIDE DEF Right
  <2> QED BY <1>2, <2>1
<1> QED BY <1>3 DEF Plus

\* What holds of the empty set, and of a set when of what is left without some element of it,
\* holds of every subset of a finite set.
LEMMA Subsets ==
  ASSUME NEW T, IsFiniteSet(T), NEW G, {} \in G,
         \A S \in SUBSET T : \A x \in S : S \ {x} \in G => S \in G
  PROVE  \A S \in SUBSET T : S \in G
<1> DEFINE Bad == {S \in SUBSET T : S \notin G}
<1>1. ASSUME Bad # {} PROVE FALSE
  <2>1. PICK S \in Bad : \A U \in Bad : Cardinality(S) <= Cardinality(U)
    <3>1. \A U \in Bad : IsFiniteSet(U)
      BY FS_Subset
    <3> HIDE DEF Bad
    <3> QED BY <1>1, <3>1, SmallestSet
  <2>2. PICK x \in S : TRUE
    BY <2>1
  <2>3. S \ {x} \in SUBSET T /\ ~(Cardinality(S) <= Cardinality(S \ {x}))
    BY <2>1, <2>2, Without
  <2>4. S \ {x} \in G
    BY <2>1, <2>3
  <2> QED BY <2>1, <2>2, <2>4
<1> QED BY <1>1

\* Every part has a sum, and each of its elements may be taken first.
Numbers(v, T) == \A x \in T : v[x] \in Int
\* Of the parts of what has numbers.
LEMMA AddedOf ==
  ASSUME NEW T, IsFiniteSet(T), NEW v, Numbers(v, T), NEW S \in SUBSET T
  PROVE  /\ Added(v, S) \in Int
         /\ \A x \in S : Added(v, S) = v[x] + Added(v, S \ {x}) /\ Added(v, S \ {x}) \in Int /\ v[x] \in Int
<1>1. IsFiniteSet(S) /\ \A x \in S : v[x] \in Int
  BY FS_Subset DEF Numbers
<1> QED BY <1>1, AddedAny

\* Nothing adds up to nothing.
LEMMA AddedNone == ASSUME NEW v PROVE Added(v, {}) = 0
BY AddedOne, FS_EmptySet

\* A part and the rest.
LEMMA AddedUnion ==
  ASSUME NEW T, IsFiniteSet(T), NEW v, Numbers(v, T), NEW U \in SUBSET T
  PROVE  Added(v, T) = Added(v, U) + Added(v, T \ U)
<1> DEFINE G == {S \in SUBSET T : Added(v, T) = Added(v, S) + Added(v, T \ S)}
<1>1. {} \in G
  <2>1. Added(v, {}) = 0 /\ T \ {} = T /\ Added(v, T) \in Int
    BY AddedNone, AddedOf
  <2> QED BY <2>1
<1>2. ASSUME NEW S \in SUBSET T, NEW x \in S, S \ {x} \in G PROVE S \in G
  <2> DEFINE R == T \ (S \ {x})
  <2>1. x \in R /\ R \in SUBSET T /\ R \ {x} = T \ S
    OBVIOUS
  <2>2. Added(v, R) = v[x] + Added(v, R \ {x}) /\ Added(v, R \ {x}) \in Int
    <3> HIDE DEF R
    <3> QED BY <2>1, AddedOf
  <2>3. Added(v, S) = v[x] + Added(v, S \ {x}) /\ Added(v, S \ {x}) \in Int /\ v[x] \in Int
    BY AddedOf
  <2>4. Added(v, T) = Added(v, S \ {x}) + Added(v, R)
    BY <1>2
  <2> HIDE DEF R
  <2>5. Added(v, T) = Added(v, S) + Added(v, R \ {x})
    BY <2>2, <2>3, <2>4
  <2> QED BY <2>1, <2>5
<1> HIDE DEF G
<1>3. U \in G
  <2>1. \A S \in SUBSET T : S \in G
    BY <1>1, <1>2, Subsets
  <2> QED BY <2>1
<1> QED BY <1>3 DEF G

\* What adds nothing may be left out.
LEMMA AddedZeros ==
  ASSUME NEW T, IsFiniteSet(T), NEW v, Numbers(v, T), NEW U \in SUBSET T, \A x \in T \ U : v[x] = 0
  PROVE  Added(v, T) = Added(v, U)
<1> DEFINE G == {S \in SUBSET (T \ U) : Added(v, S) = 0}
<1>1. {} \in G
  BY AddedNone
<1>2. ASSUME NEW S \in SUBSET (T \ U), NEW x \in S, S \ {x} \in G PROVE S \in G
  <2>1. S \in SUBSET T /\ v[x] = 0 /\ Added(v, S \ {x}) = 0
    BY <1>2
  <2>2. Added(v, S) = v[x] + Added(v, S \ {x})
    BY <2>1, AddedOf
  <2> QED BY <2>1, <2>2
<1>3. IsFiniteSet(T \ U) /\ T \ U \in SUBSET (T \ U)
  BY FS_Subset
<1> HIDE DEF G
<1>4. T \ U \in G
  <2>1. ASSUME NEW R, R = T \ U PROVE \A S \in SUBSET R : S \in G
    <3>1. IsFiniteSet(R) /\ \A S \in SUBSET R : \A x \in S : S \ {x} \in G => S \in G
      BY <1>2, <1>3, <2>1
    <3> QED BY <1>1, <3>1, Subsets
  <2> QED BY <1>3, <2>1
<1>5. Added(v, T \ U) = 0
  BY <1>4 DEF G
<1>6. Added(v, T) = Added(v, U) + Added(v, T \ U) /\ Added(v, U) \in Int
  BY AddedUnion, AddedOf
<1> QED BY <1>5, <1>6

\* Of differences, the difference.
Less(u, v, w, T) == \A x \in T : u[x] = v[x] - w[x]
\* What is added up may be subtracted one by one, or all at once.
LEMMA AddedLess ==
  ASSUME NEW T, IsFiniteSet(T), NEW u, NEW v, NEW w, Less(u, v, w, T), Numbers(v, T), Numbers(w, T)
  PROVE  Added(u, T) = Added(v, T) - Added(w, T)
<1> DEFINE G == {S \in SUBSET T : Added(u, S) = Added(v, S) - Added(w, S)}
<1>1. {} \in G
  <2>1. Added(u, {}) = 0 /\ Added(v, {}) = 0 /\ Added(w, {}) = 0
    BY AddedNone
  <2> QED BY <2>1
<1>2. ASSUME NEW S \in SUBSET T, NEW x \in S, S \ {x} \in G PROVE S \in G
  <2>1. Added(v, S) = v[x] + Added(v, S \ {x}) /\ Added(v, S \ {x}) \in Int /\ v[x] \in Int
    BY AddedOf
  <2>2. Added(w, S) = w[x] + Added(w, S \ {x}) /\ Added(w, S \ {x}) \in Int /\ w[x] \in Int
    BY AddedOf
  <2>3. Numbers(u, T)
    BY DEF Numbers, Less
  <2>4. Added(u, S) = u[x] + Added(u, S \ {x}) /\ u[x] = v[x] - w[x]
    BY <2>3, AddedOf DEF Less
  <2>5. Added(u, S \ {x}) = Added(v, S \ {x}) - Added(w, S \ {x})
    BY <1>2
  <2>6. Added(u, S) = Added(v, S) - Added(w, S)
    BY <2>1, <2>2, <2>4, <2>5
  <2> QED BY <2>6
<1> HIDE DEF G
<1>3. T \in SUBSET T
  OBVIOUS
<1>4. T \in G
  BY <1>1, <1>2, <1>3, Subsets
<1> QED BY <1>4 DEF G

\* Of ones, how many there are.
Ones(v, T) == \A x \in T : v[x] = 1
\* Ones count.
LEMMA AddedOnes ==
  ASSUME NEW T, IsFiniteSet(T), NEW v, Ones(v, T)
  PROVE  Added(v, T) = Cardinality(T)
<1> DEFINE G == {S \in SUBSET T : Added(v, S) = Cardinality(S)}
<1>1. {} \in G
  BY AddedNone, FS_EmptySet
<1>2. ASSUME NEW S \in SUBSET T, NEW x \in S, S \ {x} \in G PROVE S \in G
  <2>1. Numbers(v, T) /\ v[x] = 1
    BY DEF Numbers, Ones
  <2>2. Added(v, S) = v[x] + Added(v, S \ {x})
    BY <2>1, AddedOf
  <2>3. Cardinality(S \ {x}) = Cardinality(S) - 1 /\ Cardinality(S) \in Nat
    BY Without
  <2>4. Added(v, S \ {x}) = Cardinality(S \ {x})
    BY <1>2
  <2> QED BY <2>1, <2>2, <2>3, <2>4
<1> HIDE DEF G
<1>3. T \in SUBSET T
  OBVIOUS
<1>4. T \in G
  BY <1>1, <1>2, <1>3, Subsets
<1> QED BY <1>4 DEF G

\* Class by class: the sums of the classes add up to the sum.
Class(h, q, S) == {x \in S : h[x] = q}
Classes(h, S, Q) == \A x \in S : h[x] \in Q
ByClass(w, v, h, S, Q) == \A q \in Q : w[q] = Added(v, Class(h, q, S))
\* Whatever is classed is in one class.
LEMMA AddedByClass ==
  ASSUME NEW S, IsFiniteSet(S), NEW v, Numbers(v, S), NEW Q, IsFiniteSet(Q), NEW h, Classes(h, S, Q),
         NEW w, ByClass(w, v, h, S, Q)
  PROVE  Added(w, Q) = Added(v, S)
<1> DEFINE Part(P) == {x \in S : h[x] \in P}
<1> DEFINE G == {P \in SUBSET Q : Added(w, P) = Added(v, Part(P))}
<1>1. {} \in G
  <2>1. Part({}) = {}
    OBVIOUS
  <2> HIDE DEF Part
  <2> QED BY <2>1, AddedNone
<1>2. ASSUME NEW P \in SUBSET Q, NEW q \in P, P \ {q} \in G PROVE P \in G
  <2>1. Part(P) \in SUBSET S /\ Class(h, q, S) \in SUBSET Part(P) /\ Part(P) \ Class(h, q, S) = Part(P \ {q})
    BY DEF Class
  <2>2. IsFiniteSet(Part(P)) /\ Numbers(v, Part(P))
    <3> HIDE DEF Part
    <3> QED BY <2>1, FS_Subset DEF Numbers
  <2>3. Added(w, P \ {q}) = Added(v, Part(P \ {q}))
    BY <1>2
  <2>4. Numbers(w, Q) /\ w[q] = Added(v, Class(h, q, S))
    <3>1. ASSUME NEW r \in Q PROVE w[r] \in Int
      <4>1. Class(h, r, S) \in SUBSET S
        BY DEF Class
      <4>2. Added(v, Class(h, r, S)) \in Int
        BY <4>1, AddedOf
      <4> QED BY <4>2 DEF ByClass
    <3> QED BY <3>1 DEF Numbers, ByClass
  <2>5. Added(w, P) = w[q] + Added(w, P \ {q})
    BY <2>4, AddedOf
  <2> HIDE DEF Part
  <2>6. Added(v, Part(P)) = Added(v, Class(h, q, S)) + Added(v, Part(P) \ Class(h, q, S))
    BY <2>1, <2>2, AddedUnion
  <2>7. Added(w, P) = Added(v, Part(P))
    BY <2>1, <2>3, <2>4, <2>5, <2>6
  <2> QED BY <2>7
<1> HIDE DEF G
<1>3. Q \in SUBSET Q
  OBVIOUS
<1>4. Q \in G
  BY <1>1, <1>2, <1>3, Subsets
<1>5. Part(Q) = S
  BY DEF Classes
<1> QED BY <1>4, <1>5 DEF G

\* What a function makes of finitely many things is finite.
LEMMA FiniteImage ==
  ASSUME NEW S, IsFiniteSet(S), NEW f
  PROVE  IsFiniteSet({f[x] : x \in S})
<1> DEFINE T == {f[x] : x \in S}
<1> DEFINE g == [x \in S |-> f[x]]
<1>1. g \in [S -> T] /\ \A t \in T : \E x \in S : g[x] = t
  OBVIOUS
<1> HIDE DEF g, T
<1>2. g \in Surjection(S, T)
  BY <1>1 DEF Surjection
<1>3. IsFiniteSet(T)
  BY <1>2, FS_Surjection
<1> QED BY <1>3 DEF T

(***************************************************************************)
(* The sums of a report.                                                   *)
(***************************************************************************)

\* What is stored is finitely many transactions, each of an account, on a date, of an amount.
LEMMA StoredAre ==
  ASSUME SpendingInv
  PROVE  /\ IsFiniteSet(Stored)
         /\ \A i \in Stored : /\ transactions[i].account \in SpendingAccounts /\ transactions[i].amount \in Int
                              /\ transactions[i].asset \in {"currency", "foreign", "share"}
                              /\ IsFiniteSet(notes[i].tags)
<1>1. Stored = 1 .. Len(transactions) /\ Len(transactions) \in Nat
  BY DEF Stored, SpendingInv
<1>2. IsFiniteSet(Stored)
  BY <1>1, FS_Interval
<1>3. ASSUME NEW i \in Stored
      PROVE  /\ transactions[i].account \in SpendingAccounts /\ transactions[i].amount \in Int
             /\ transactions[i].asset \in {"currency", "foreign", "share"}
             /\ IsFiniteSet(notes[i].tags)
  <2>1. i \in DOMAIN notes /\ transactions[i] \in Entries /\ notes[i] \in Notes \cup {Unmarked}
    BY DEF Stored, SpendingInv
  <2>2. IsFiniteSet(Unmarked.tags)
    BY FS_EmptySet DEF Unmarked
  <2>3. IsFiniteSet(notes[i].tags)
    BY <2>1, <2>2, SpendingAssumption
  <2> QED BY <2>1, <2>3, SpendingAssumption
<1> QED BY <1>2, <1>3

\* What a report makes of the amounts.
Values(ask) == [i \in Stored |-> apply_direction(value_in_reporting_currency(transactions[i]), ask.direction)]

\* They are numbers, of the sign of the amounts.
LEMMA ValueIs ==
  ASSUME SpendingInv, NEW i \in Stored
  PROVE  /\ transactions[i].amount \in Int /\ value_in_reporting_currency(transactions[i]) \in Int
         /\ value_in_reporting_currency(transactions[i]) = 0 <=> transactions[i].amount = 0
         /\ value_in_reporting_currency(transactions[i]) < 0 <=> transactions[i].amount < 0
<1>1. transactions[i].amount \in Int /\ transactions[i].asset \in {"currency", "foreign", "share"}
  BY StoredAre
<1> DEFINE a == transactions[i].amount
<1>2. value_in_reporting_currency(transactions[i]) \in {a, a * 2, a * 5 * 2}
  BY <1>1 DEF value_in_reporting_currency
<1> HIDE DEF a
<1>3. a \in Int
  BY <1>1 DEF a
<1> QED BY <1>2, <1>3 DEF a

\* They are numbers in every direction.
LEMMA ValuesAre ==
  ASSUME SpendingInv, NEW ask \in Asks
  PROVE  Numbers(Values(ask), Stored)
<1>1. ASSUME NEW i \in Stored PROVE Values(ask)[i] \in Int
  <2>1. Values(ask)[i] = apply_direction(value_in_reporting_currency(transactions[i]), ask.direction)
    BY DEF Values
  <2>2. value_in_reporting_currency(transactions[i]) \in Int
    BY ValueIs
  <2>3. ask.direction \in {"net", "inflow", "outflow"}
    BY DEF Asks
  <2> QED BY <2>1, <2>2, <2>3 DEF apply_direction
<1> QED BY <1>1 DEF Numbers

\* The folds of the report are sums: of its values,
LEMMA SumIs ==
  ASSUME SpendingInv, NEW ask, NEW S \in SUBSET Stored
  PROVE  Sum(ask, S) = Added(Values(ask), S)
<1> DEFINE v == Values(ask)
<1> DEFINE X(i) == apply_direction(value_in_reporting_currency(transactions[i]), ask.direction)
<1> DEFINE Adds(f) == f = [s \in SUBSET S |-> IF s = {} THEN 0 ELSE X(One(s)) + f[s \ {One(s)}]]
<1>1. IsFiniteSet(S) /\ S \in SUBSET S
  BY StoredAre, FS_Subset
<1>2. \A s \in SUBSET S : s # {} => v[One(s)] = X(One(s))
  BY OneIsIn DEF Values
<1> HIDE DEF v
<1>3. ASSUME NEW f PROVE Adds(f) <=> SumsOf(v, S, f)
  BY <1>2 DEF SumsOf
<1>4. Sum(ask, S) = (CHOOSE f : Adds(f))[S]
  BY DEF Sum, MapThenSumSet, MapThenFoldSet, One
<1> HIDE DEF X
<1>5. SumsOf(v, S, CHOOSE f : Adds(f))
  <2>1. \E f : SumsOf(v, S, f)
    BY <1>1, SumsExist
  <2> HIDE DEF Adds
  <2> QED BY <1>3, <2>1
<1> DEFINE g == CHOOSE f : Adds(f)
<1> HIDE DEF g, Adds
<1>6. g[S] = Added(v, S)
  BY <1>1, <1>5, AddedIs DEF g
<1> QED BY <1>4, <1>6 DEF g, v

\* Of the totals and of the counts of its periods,
LEMMA TotalsAre ==
  ASSUME NEW S, IsFiniteSet(S), NEW v, \A x \in S : v[x] = x.total
  PROVE  MapThenSumSet(LAMBDA b : b.total, S) = Added(v, S)
<1> DEFINE Adds(f) == f = [s \in SUBSET S |-> IF s = {} THEN 0 ELSE One(s).total + f[s \ {One(s)}]]
<1>1. \A s \in SUBSET S : s # {} => v[One(s)] = One(s).total
  BY OneIsIn
<1>2. ASSUME NEW f PROVE Adds(f) <=> SumsOf(v, S, f)
  BY <1>1 DEF SumsOf
<1>3. MapThenSumSet(LAMBDA b : b.total, S) = (CHOOSE f : Adds(f))[S]
  BY DEF MapThenSumSet, MapThenFoldSet, One
<1>4. SumsOf(v, S, CHOOSE f : Adds(f))
  <2>1. \E f : SumsOf(v, S, f)
    BY SumsExist
  <2> HIDE DEF Adds
  <2> QED BY <1>2, <2>1
<1> DEFINE g == CHOOSE f : Adds(f)
<1> HIDE DEF g, Adds
<1>5. g[S] = Added(v, S)
  BY <1>4, AddedIs DEF g
<1> QED BY <1>3, <1>5 DEF g

\* Of the counts.
LEMMA CountsAre ==
  ASSUME NEW S, IsFiniteSet(S), NEW v, \A x \in S : v[x] = x.count
  PROVE  MapThenSumSet(LAMBDA b : b.count, S) = Added(v, S)
<1> DEFINE Adds(f) == f = [s \in SUBSET S |-> IF s = {} THEN 0 ELSE One(s).count + f[s \ {One(s)}]]
<1>1. \A s \in SUBSET S : s # {} => v[One(s)] = One(s).count
  BY OneIsIn
<1>2. ASSUME NEW f PROVE Adds(f) <=> SumsOf(v, S, f)
  BY <1>1 DEF SumsOf
<1>3. MapThenSumSet(LAMBDA b : b.count, S) = (CHOOSE f : Adds(f))[S]
  BY DEF MapThenSumSet, MapThenFoldSet, One
<1>4. SumsOf(v, S, CHOOSE f : Adds(f))
  <2>1. \E f : SumsOf(v, S, f)
    BY SumsExist
  <2> HIDE DEF Adds
  <2> QED BY <1>2, <2>1
<1> DEFINE g == CHOOSE f : Adds(f)
<1> HIDE DEF g, Adds
<1>5. g[S] = Added(v, S)
  BY <1>4, AddedIs DEF g
<1> QED BY <1>3, <1>5 DEF g

\* Of the amounts of its groups,
LEMMA GroupsAre ==
  ASSUME NEW S, IsFiniteSet(S), NEW groups, NEW v, \A x \in S : v[x] = groups[x]
  PROVE  SumFunctionOnSet(groups, S) = Added(v, S)
<1> DEFINE Adds(f) == f = [s \in SUBSET S |-> IF s = {} THEN 0 ELSE groups[One(s)] + f[s \ {One(s)}]]
<1>1. \A s \in SUBSET S : s # {} => v[One(s)] = groups[One(s)]
  BY OneIsIn
<1>2. ASSUME NEW f PROVE Adds(f) <=> SumsOf(v, S, f)
  BY <1>1 DEF SumsOf
<1>3. SumFunctionOnSet(groups, S) = (CHOOSE f : Adds(f))[S]
  BY DEF MapThenSumSet, MapThenFoldSet, One, SumFunctionOnSet, FoldFunctionOnSet
<1>4. SumsOf(v, S, CHOOSE f : Adds(f))
  <2>1. \E f : SumsOf(v, S, f)
    BY SumsExist
  <2> HIDE DEF Adds
  <2> QED BY <1>2, <2>1
<1> DEFINE g == CHOOSE f : Adds(f)
<1> HIDE DEF g, Adds
<1>5. g[S] = Added(v, S)
  BY <1>4, AddedIs DEF g
<1> QED BY <1>3, <1>5 DEF g

\* And of the totals and what is skipped of several reports.
LEMMA ScopeTotalsAre ==
  ASSUME NEW S, IsFiniteSet(S), NEW of, NEW v, \A x \in S : v[x] = of[x].total
  PROVE  MapThenSumSet(LAMBDA a : of[a].total, S) = Added(v, S)
<1> DEFINE Adds(f) == f = [s \in SUBSET S |-> IF s = {} THEN 0 ELSE of[One(s)].total + f[s \ {One(s)}]]
<1>1. \A s \in SUBSET S : s # {} => v[One(s)] = of[One(s)].total
  BY OneIsIn
<1>2. ASSUME NEW f PROVE Adds(f) <=> SumsOf(v, S, f)
  BY <1>1 DEF SumsOf
<1>3. MapThenSumSet(LAMBDA a : of[a].total, S) = (CHOOSE f : Adds(f))[S]
  BY DEF MapThenSumSet, MapThenFoldSet, One
<1>4. SumsOf(v, S, CHOOSE f : Adds(f))
  <2>1. \E f : SumsOf(v, S, f)
    BY SumsExist
  <2> HIDE DEF Adds
  <2> QED BY <1>2, <2>1
<1> DEFINE g == CHOOSE f : Adds(f)
<1> HIDE DEF g, Adds
<1>5. g[S] = Added(v, S)
  BY <1>4, AddedIs DEF g
<1> QED BY <1>3, <1>5 DEF g

\* Of what they skip.
LEMMA ScopeSkippedAre ==
  ASSUME NEW S, IsFiniteSet(S), NEW of, NEW v, \A x \in S : v[x] = of[x].skipped
  PROVE  MapThenSumSet(LAMBDA a : of[a].skipped, S) = Added(v, S)
<1> DEFINE Adds(f) == f = [s \in SUBSET S |-> IF s = {} THEN 0 ELSE of[One(s)].skipped + f[s \ {One(s)}]]
<1>1. \A s \in SUBSET S : s # {} => v[One(s)] = of[One(s)].skipped
  BY OneIsIn
<1>2. ASSUME NEW f PROVE Adds(f) <=> SumsOf(v, S, f)
  BY <1>1 DEF SumsOf
<1>3. MapThenSumSet(LAMBDA a : of[a].skipped, S) = (CHOOSE f : Adds(f))[S]
  BY DEF MapThenSumSet, MapThenFoldSet, One
<1>4. SumsOf(v, S, CHOOSE f : Adds(f))
  <2>1. \E f : SumsOf(v, S, f)
    BY SumsExist
  <2> HIDE DEF Adds
  <2> QED BY <1>2, <2>1
<1> DEFINE g == CHOOSE f : Adds(f)
<1> HIDE DEF g, Adds
<1>5. g[S] = Added(v, S)
  BY <1>4, AddedIs DEF g
<1> QED BY <1>3, <1>5 DEF g

(***************************************************************************)
(* What is counted is in a period, once.                                   *)
(***************************************************************************)

\* Of the periods of a tiling no two are cut to start on the same day.
LEMMA CutStart ==
  ASSUME NEW intervals, NEW first \in Int, NEW last \in Int, first <= last, Tiled(intervals, first, last),
         NEW b \in intervals, NEW c \in intervals, Max({b.start, first}) = Max({c.start, first})
  PROVE  b = c
<1>1. /\ b.start \in Int /\ b.end \in Int /\ b.start <= last /\ first <= b.end
      /\ c.start \in Int /\ c.end \in Int /\ c.start <= last /\ first <= c.end
  BY DEF Tiled
<1>2. /\ Max({b.start, first}) = IF b.start <= first THEN first ELSE b.start
      /\ Max({c.start, first}) = IF c.start <= first THEN first ELSE c.start
  BY <1>1, OfTwo
<1>3. CASE b.start <= first
  <2>1. c.start <= first
    BY <1>1, <1>2, <1>3
  <2>2. Holds(b, first) /\ Holds(c, first)
    BY <1>1, <1>3, <2>1 DEF Holds
  <2>3. first \in first .. last
    OBVIOUS
  <2> QED BY <2>2, <2>3 DEF Tiled
<1>4. CASE ~(b.start <= first)
  <2>1. b.start = c.start
    BY <1>1, <1>2, <1>4
  <2> QED BY <2>1 DEF Tiled
<1> QED BY <1>3, <1>4

\* A day is put into the period that holds it.
LEMMA BucketIs ==
  ASSUME NEW intervals, NEW first \in Int, NEW last \in Int, Tiled(intervals, first, last),
         NEW n \in first .. last, NEW b \in intervals, Holds(b, n)
  PROVE  bucket_start_from_intervals(n, intervals) = b.start
<1>1. \A c \in intervals : Holds(c, n) => c = b
  BY DEF Tiled
<1>2. {c.start : c \in {c \in intervals : c.start <= n /\ n <= c.end}} = {b.start}
  BY <1>1 DEF Holds
<1>3. b.start \in Int
  BY DEF Tiled
<1>4. Min({b.start}) = b.start
  <2>1. {b.start} = {b.start, b.start}
    OBVIOUS
  <2> QED BY <1>3, <2>1, OfTwo
<1> QED BY <1>2, <1>4 DEF bucket_start_from_intervals

\* What is counted is stored, and on a day of the range.
LEMMA CountedAre ==
  ASSUME NEW ask
  PROVE  /\ Counted(ask) \in SUBSET Stored
         /\ \A i \in Counted(ask) : local_date(i, ask.tz) \in start_date(ask) .. end_date(ask)
BY DEF Counted, Relevant, rows, Considered

\* The periods are the classes of what is counted, by a function.
Classified(ask, h, periods, counted) ==
    /\ IsFiniteSet(periods) /\ Classes(h, counted, periods)
    /\ \A p \in periods :
           /\ p.total = Sum(ask, Class(h, p, counted))
           /\ p.count = Cardinality(Class(h, p, counted))
           /\ p.breakdown = [k \in UNION {group_keys(i, ask) : i \in Class(h, p, counted)} |->
                                 Sum(ask, {i \in Class(h, p, counted) : k \in group_keys(i, ask)})]
\* By the interval that holds the day.
LEMMA PeriodsClassify ==
  ASSUME NEW ask, NEW first \in Int, NEW last \in Int, first <= last, NEW intervals, Tiled(intervals, first, last),
         NEW counted, \A i \in counted : local_date(i, ask.tz) \in first .. last
  PROVE  \E h : Classified(ask, h, PeriodsOf(ask, intervals, Buckets(ask, counted, intervals), first, last), counted)
<1> DEFINE bucket == Buckets(ask, counted, intervals)
<1> DEFINE PutIn(b) == {i \in DOMAIN bucket : bucket[i] = b.start}
<1> DEFINE P(b) == Period(b, PutIn(b), ask, first, last)
<1> DEFINE shown == {c \in intervals : ask.include_empty \/ c.start \in Range(bucket)}
<1> DEFINE periods == {P(b) : b \in shown}
<1> DEFINE at == [i \in counted |-> CHOOSE b \in intervals : Holds(b, local_date(i, ask.tz))]
<1> DEFINE h == [i \in counted |-> P(at[i])]
<1>1. PeriodsOf(ask, intervals, bucket, first, last) = periods
  BY DEF PeriodsOf
<1>2. DOMAIN bucket = counted
  BY DEF Buckets
<1>3. ASSUME NEW i \in counted PROVE at[i] \in intervals /\ bucket[i] = at[i].start
  <2>1. PICK b \in intervals : Holds(b, local_date(i, ask.tz))
    BY DEF Tiled
  <2>2. at[i] \in intervals /\ Holds(at[i], local_date(i, ask.tz))
    BY <2>1
  <2>3. bucket[i] = bucket_start_from_intervals(local_date(i, ask.tz), intervals)
    BY DEF Buckets
  <2> HIDE DEF at, bucket
  <2> QED BY <2>2, <2>3, BucketIs
<1>4. ASSUME NEW i \in counted PROVE at[i] \in shown
  <2>1. bucket[i] \in Range(bucket)
    BY <1>2 DEF Range
  <2> HIDE DEF at, bucket
  <2> QED BY <1>3, <2>1
<1>5. ASSUME NEW b \in intervals PROVE P(b).start = Max({b.start, first})
  BY DEF Period
<1>6. IsFiniteSet(periods)
  <2>1. IsFiniteSet(shown)
    BY FS_Subset DEF Tiled
  <2> DEFINE f == [b \in shown |-> P(b)]
  <2>2. periods = {f[b] : b \in shown}
    OBVIOUS
  <2> HIDE DEF shown, f, periods
  <2> QED BY <2>1, <2>2, FiniteImage
<1>7. \A i \in counted : h[i] = P(at[i])
  OBVIOUS
<1> HIDE DEF h, at, bucket
<1>8. ASSUME NEW b \in shown PROVE Class(h, P(b), counted) = PutIn(b)
  <2>1. ASSUME NEW i \in counted PROVE h[i] = P(b) <=> bucket[i] = b.start
    <3>1. at[i] \in intervals /\ bucket[i] = at[i].start /\ b \in intervals
      BY <1>3
    <3>2. at[i].start = b.start => at[i] = b
      BY <3>1 DEF Tiled
    <3>3. P(at[i]) = P(b) => at[i] = b
      <4>1. P(at[i]).start = Max({at[i].start, first}) /\ P(b).start = Max({b.start, first})
        BY <1>5, <3>1
      <4> HIDE DEF P
      <4> QED BY <3>1, <4>1, CutStart
    <3> HIDE DEF P
    <3> QED BY <1>7, <3>1, <3>2, <3>3
  <2> HIDE DEF P
  <2> QED BY <1>2, <2>1 DEF Class
<1>9. Classes(h, counted, periods)
  <2> HIDE DEF P, shown
  <2> QED BY <1>4, <1>7 DEF Classes
<1>10. ASSUME NEW p \in periods
       PROVE  /\ p.total = Sum(ask, Class(h, p, counted))
              /\ p.count = Cardinality(Class(h, p, counted))
              /\ p.breakdown = [k \in UNION {group_keys(i, ask) : i \in Class(h, p, counted)} |->
                                    Sum(ask, {i \in Class(h, p, counted) : k \in group_keys(i, ask)})]
  <2>1. PICK b \in shown : p = P(b)
    OBVIOUS
  <2>2. Class(h, p, counted) = PutIn(b)
    BY <1>8, <2>1
  <2>3. p = Period(b, Class(h, p, counted), ask, first, last)
    BY <2>1, <2>2
  <2> HIDE DEF PutIn, P, shown, periods
  <2> QED BY <2>3 DEF Period
<1> HIDE DEF periods
<1>11. Classified(ask, h, periods, counted)
  BY <1>6, <1>9, <1>10 DEF Classified
<1> QED BY <1>1, <1>11 DEF bucket

\* A report that is answered classifies what it counts.
LEMMA ReportClassified ==
  ASSUME SpendingInv, NEW ask \in Asks, ~Fails(ask)
  PROVE  \E h : Classified(ask, h, spending_report(ask).periods, Counted(ask))
<1> DEFINE first == start_date(ask)
<1> DEFINE last == end_date(ask)
<1> DEFINE intervals == build_bucket_intervals(ask)
<1> DEFINE counted == Counted(ask)
<1>1. first \in Dates /\ last \in Dates /\ first \in Int /\ last \in Int
  BY ReportDates, DatesAre
<1>2. first <= last
  BY <1>1 DEF Fails
<1>3. Tiled(intervals, first, last)
  BY <1>1, <1>2, PeriodsTiled
<1>4. \A i \in counted : local_date(i, ask.tz) \in first .. last
  BY CountedAre
<1>5. spending_report(ask).periods = PeriodsOf(ask, intervals, Buckets(ask, counted, intervals), first, last)
  BY DEF spending_report, Report
<1> HIDE DEF first, last, intervals, counted
<1>6. \E h : Classified(ask, h, PeriodsOf(ask, intervals, Buckets(ask, counted, intervals), first, last), counted)
  BY <1>1, <1>2, <1>3, <1>4, PeriodsClassify
<1> QED BY <1>5, <1>6 DEF counted

\* Its totals and its counts add up.
LEMMA PeriodsSum ==
  ASSUME SpendingInv, NEW ask \in Asks, ~Fails(ask)
  PROVE  /\ MapThenSumSet(LAMBDA b : b.total, spending_report(ask).periods) = spending_report(ask).total
         /\ MapThenSumSet(LAMBDA b : b.count, spending_report(ask).periods) = spending_report(ask).count
<1> DEFINE P == spending_report(ask).periods
<1> DEFINE C == Counted(ask)
<1>1. spending_report(ask).total = Sum(ask, C) /\ spending_report(ask).count = Cardinality(C)
  BY DEF spending_report, Report
<1>2. PICK h : Classified(ask, h, P, C)
  BY ReportClassified
<1>3. C \in SUBSET Stored /\ IsFiniteSet(C)
  BY CountedAre, StoredAre, FS_Subset
<1>4. Numbers(Values(ask), C)
  BY <1>3, ValuesAre DEF Numbers
<1> HIDE DEF P, C
<1>5. IsFiniteSet(P) /\ Classes(h, C, P)
  BY <1>2 DEF Classified
<1> DEFINE totals == [b \in P |-> b.total]
<1> DEFINE counts == [b \in P |-> b.count]
<1> DEFINE ones == [i \in C |-> 1]
<1>6. MapThenSumSet(LAMBDA b : b.total, P) = Sum(ask, C)
  <2>1. ASSUME NEW p \in P PROVE totals[p] = Added(Values(ask), Class(h, p, C))
    <3>1. Class(h, p, C) \in SUBSET Stored
      BY <1>3 DEF Class
    <3>2. totals[p] = Sum(ask, Class(h, p, C))
      BY <1>2 DEF Classified
    <3> QED BY <3>1, <3>2, SumIs
  <2>2. \A b \in P : totals[b] = b.total
    OBVIOUS
  <2> HIDE DEF totals
  <2>3. MapThenSumSet(LAMBDA b : b.total, P) = Added(totals, P)
    BY <1>5, <2>2, TotalsAre
  <2>4. ByClass(totals, Values(ask), h, C, P)
    BY <2>1 DEF ByClass
  <2>5. Added(totals, P) = Added(Values(ask), C)
    BY <1>3, <1>4, <1>5, <2>4, AddedByClass
  <2>6. Sum(ask, C) = Added(Values(ask), C)
    BY <1>3, SumIs
  <2> QED BY <2>3, <2>5, <2>6
<1>7. MapThenSumSet(LAMBDA b : b.count, P) = Cardinality(C)
  <2>1. \A i \in C : ones[i] = 1
    OBVIOUS
  <2>2. \A b \in P : counts[b] = b.count
    OBVIOUS
  <2> HIDE DEF ones, counts
  <2>3. ASSUME NEW p \in P PROVE counts[p] = Added(ones, Class(h, p, C))
    <3>1. Class(h, p, C) \in SUBSET C
      BY DEF Class
    <3>2. IsFiniteSet(Class(h, p, C)) /\ Ones(ones, Class(h, p, C))
      BY <1>3, <2>1, <3>1, FS_Subset DEF Ones
    <3>3. counts[p] = Cardinality(Class(h, p, C))
      BY <1>2, <2>2 DEF Classified
    <3> QED BY <3>2, <3>3, AddedOnes
  <2>4. MapThenSumSet(LAMBDA b : b.count, P) = Added(counts, P)
    BY <1>5, <2>2, CountsAre
  <2>5. ByClass(counts, ones, h, C, P) /\ Numbers(ones, C) /\ Ones(ones, C)
    BY <2>1, <2>3 DEF ByClass, Numbers, Ones
  <2>6. Added(counts, P) = Added(ones, C)
    BY <1>3, <1>5, <2>5, AddedByClass
  <2>7. Added(ones, C) = Cardinality(C)
    BY <1>3, <2>5, AddedOnes
  <2> QED BY <2>4, <2>6, <2>7
<1> QED BY <1>1, <1>6, <1>7 DEF P

\* A transaction that has not several keys has one, when there are groups.
LEMMA SingleKey ==
  ASSUME SpendingInv, NEW ask \in Asks, ask.group_by # "none", NEW i \in Stored,
         ~(Cardinality(group_keys(i, ask)) > 1)
  PROVE  \E k : group_keys(i, ask) = {k}
<1>1. CASE ask.group_by = "tag" /\ notes[i].tags # {}
  <2>1. group_keys(i, ask) = notes[i].tags /\ IsFiniteSet(notes[i].tags)
    BY <1>1, StoredAre DEF group_keys
  <2>2. Cardinality(notes[i].tags) \in Nat /\ Cardinality(notes[i].tags) # 0
    BY <1>1, <2>1, FS_CardinalityType, FS_EmptySet
  <2>3. Cardinality(notes[i].tags) = 1
    BY <2>1, <2>2
  <2> QED BY <2>1, <2>3, FS_Singleton
<1>2. ask.group_by \in {"category", "account", "tag"}
  BY DEF Asks
<1> QED BY <1>1, <1>2 DEF group_keys

\* With single keys the groups of a period add up to it.
LEMMA GroupsSum ==
  ASSUME SpendingInv, NEW ask \in Asks, ask.group_by # "none", NEW C \in SUBSET Stored,
         \A i \in C : ~(Cardinality(group_keys(i, ask)) > 1)
  PROVE  SumFunction([k \in UNION {group_keys(i, ask) : i \in C} |-> Sum(ask, {i \in C : k \in group_keys(i, ask)})])
             = Sum(ask, C)
<1> DEFINE K == UNION {group_keys(i, ask) : i \in C}
<1> DEFINE keyOf == [i \in C |-> CHOOSE k : group_keys(i, ask) = {k}]
<1> DEFINE groups == [k \in K |-> Sum(ask, {i \in C : k \in group_keys(i, ask)})]
<1>1. ASSUME NEW i \in C PROVE group_keys(i, ask) = {keyOf[i]}
  <2>1. i \in Stored
    OBVIOUS
  <2>2. \E k : group_keys(i, ask) = {k}
    BY <2>1, SingleKey
  <2> QED BY <2>2
<1>2. IsFiniteSet(C)
  BY StoredAre, FS_Subset
<1>3. K = {keyOf[i] : i \in C}
  <2> HIDE DEF keyOf
  <2> QED BY <1>1
<1>4. DOMAIN groups = K
  OBVIOUS
<1>5. ASSUME NEW k \in K PROVE groups[k] = Added(Values(ask), Class(keyOf, k, C))
  <2>1. groups[k] = Sum(ask, {i \in C : k \in group_keys(i, ask)})
    OBVIOUS
  <2>2. {i \in C : k \in group_keys(i, ask)} = Class(keyOf, k, C)
    <3> HIDE DEF keyOf
    <3> QED BY <1>1 DEF Class
  <2>3. Class(keyOf, k, C) \in SUBSET Stored
    BY DEF Class
  <2> HIDE DEF keyOf, groups
  <2> QED BY <2>1, <2>2, <2>3, SumIs
<1> HIDE DEF keyOf, groups, K
<1>6. IsFiniteSet(K) /\ Classes(keyOf, C, K)
  BY <1>2, <1>3, FiniteImage DEF Classes
<1>7. SumFunctionOnSet(groups, K) = Added(groups, K)
  <2>1. \A k \in K : groups[k] = groups[k]
    OBVIOUS
  <2>2. ASSUME NEW v, v = groups PROVE SumFunctionOnSet(groups, K) = Added(v, K)
    <3>1. \A k \in K : v[k] = groups[k]
      BY <2>2
    <3> QED BY <1>6, <3>1, GroupsAre
  <2> QED BY <2>2
<1>8. ByClass(groups, Values(ask), keyOf, C, K) /\ Numbers(Values(ask), C)
  BY <1>5, ValuesAre DEF ByClass, Numbers
<1>9. Added(groups, K) = Added(Values(ask), C)
  BY <1>2, <1>6, <1>8, AddedByClass
<1>10. Sum(ask, C) = Added(Values(ask), C)
  BY SumIs
<1>11. SumFunction(groups) = Sum(ask, C)
  BY <1>4, <1>7, <1>9, <1>10 DEF SumFunction
<1> QED BY <1>11 DEF groups, K

\* What is counted depends neither on the periods nor on the groups.
LEMMA SameCounted ==
  ASSUME NEW ask, NEW other, other.start = ask.start, other.end = ask.end, other.scope = ask.scope,
         other.status = ask.status, other.tz = ask.tz, other.noncurrency = ask.noncurrency
  PROVE  /\ start_date(other) = start_date(ask) /\ end_date(other) = end_date(ask)
         /\ rows(other) = rows(ask)
         /\ other.direction = ask.direction =>
                Counted(other) = Counted(ask) /\ Skipped(other) = Skipped(ask) /\ Values(other) = Values(ask)
<1>1. start_date(other) = start_date(ask) /\ end_date(other) = end_date(ask)
  BY Zenon DEF start_date, end_date
<1>2. rows(other) = rows(ask)
  BY DEF rows
<1>3. ASSUME other.direction = ask.direction
      PROVE  Counted(other) = Counted(ask) /\ Skipped(other) = Skipped(ask) /\ Values(other) = Values(ask)
  <2>1. Relevant(other) = Relevant(ask)
    BY <1>1, <1>2, <1>3 DEF Relevant
  <2>2. Skipped(other) = Skipped(ask)
    BY <2>1 DEF Skipped
  <2>3. Values(other) = Values(ask)
    BY <1>3 DEF Values
  <2> QED BY <2>1, <2>2, <2>3 DEF Counted
<1> QED BY <1>1, <1>2, <1>3

\* The periods of a report add up, and so do the groups of each.
LEMMA AddsUpInPeriods ==
  ASSUME SpendingInv
  PROVE  PeriodsAddUp
<1> DEFINE out == spending_report(report)
<1> DEFINE range == [report EXCEPT !.period = "range"]
<1> DEFINE whole == spending_report(range)
<1> SUFFICES ASSUME Answered
             PROVE  /\ MapThenSumSet(LAMBDA b : b.total, out.periods) = out.total
                    /\ MapThenSumSet(LAMBDA b : b.count, out.periods) = out.count
                    /\ whole.total = out.total
                    /\ report.group_by = "none" \/ (\E i \in Counted(report) : Cardinality(group_keys(i, report)) > 1)
                       \/ \A b \in out.periods : SumFunction(b.breakdown) = b.total
  BY DEF PeriodsAddUp
<1>1. report \in Asks /\ ~Fails(report)
  BY SpendingAssumption DEF SpendingInv, Answered
<1>2. /\ MapThenSumSet(LAMBDA b : b.total, out.periods) = out.total
      /\ MapThenSumSet(LAMBDA b : b.count, out.periods) = out.count
  BY <1>1, PeriodsSum
<1>3. whole.total = out.total
  <2>1. range.start = report.start /\ range.end = report.end /\ range.scope = report.scope /\ range.status = report.status
        /\ range.tz = report.tz /\ range.noncurrency = report.noncurrency /\ range.direction = report.direction
    BY <1>1 DEF Asks
  <2>2. whole.total = Sum(range, Counted(range)) /\ out.total = Sum(report, Counted(report))
    BY DEF spending_report, Report
  <2> HIDE DEF range, whole, out
  <2>3. Counted(range) = Counted(report) /\ Values(range) = Values(report)
    BY <2>1, SameCounted
  <2>4. Counted(range) \in SUBSET Stored /\ Counted(report) \in SUBSET Stored
    BY CountedAre
  <2>5. Sum(range, Counted(range)) = Added(Values(range), Counted(range))
        /\ Sum(report, Counted(report)) = Added(Values(report), Counted(report))
    BY <2>4, SumIs
  <2> QED BY <2>2, <2>3, <2>5
<1>4. ASSUME report.group_by # "none", ~\E i \in Counted(report) : Cardinality(group_keys(i, report)) > 1,
             NEW b \in out.periods
      PROVE  SumFunction(b.breakdown) = b.total
  <2>1. PICK h : Classified(report, h, out.periods, Counted(report))
    BY <1>1, ReportClassified
  <2> DEFINE C == Class(h, b, Counted(report))
  <2>2. /\ b.total = Sum(report, C)
        /\ b.breakdown = [k \in UNION {group_keys(i, report) : i \in C} |->
                              Sum(report, {i \in C : k \in group_keys(i, report)})]
    BY <2>1 DEF Classified
  <2>3. C \in SUBSET Stored /\ \A i \in C : ~(Cardinality(group_keys(i, report)) > 1)
    BY <1>4, CountedAre DEF Class
  <2> HIDE DEF C
  <2> QED BY <1>1, <1>4, <2>2, <2>3, GroupsSum
<1> QED BY <1>2, <1>3, <1>4

\* Nor do the periods depend on what is counted.
LEMMA SameOnwards ==
  ASSUME NEW start, NEW last, NEW ask, NEW other,
         \A s : next_bucket_start(s, other) = next_bucket_start(s, ask) /\ bucket_end_for(s, other) = bucket_end_for(s, ask)
  PROVE  Onwards(start, last, other) = Onwards(start, last, ask)
<1> DEFINE Q(f, a) == [s \in start .. last |->
                          {Interval(s, bucket_end_for(s, a))}
                              \cup IF next_bucket_start(s, a) > last THEN {} ELSE f[next_bucket_start(s, a)]]
<1> DEFINE F(a) == CHOOSE f : f = Q(f, a)
<1>1. \A f : Q(f, other) = Q(f, ask)
  OBVIOUS
<1>2. Onwards(start, last, other) = F(other)[start] /\ Onwards(start, last, ask) = F(ask)[start]
  BY Zenon DEF Onwards
<1>3. F(other) = F(ask)
  <2> HIDE DEF Q
  <2> QED BY <1>1
<1> HIDE DEF F
<1> QED BY <1>2, <1>3

\* Laid back from the end neither.
LEMMA SameBackwards ==
  ASSUME NEW first, NEW last, NEW ask, NEW other,
         \A e : end_bound_bucket_start_for_end(e, other) = end_bound_bucket_start_for_end(e, ask)
  PROVE  Backwards(first, last, other) = Backwards(first, last, ask)
<1> DEFINE Q(f, a) == [e \in first .. last |-> LET s == end_bound_bucket_start_for_end(e, a)
                                                IN  {Interval(s, e)} \cup IF s <= first THEN {} ELSE f[s - 1]]
<1> DEFINE F(a) == CHOOSE f : f = Q(f, a)
<1>1. \A f : Q(f, other) = Q(f, ask)
  OBVIOUS
<1>2. Backwards(first, last, other) = F(other)[last] /\ Backwards(first, last, ask) = F(ask)[last]
  BY Zenon DEF Backwards
<1>3. F(other) = F(ask)
  <2> HIDE DEF Q
  <2> QED BY <1>1
<1> HIDE DEF F
<1> QED BY <1>2, <1>3

\* So two reports of the same range and length have the same periods.
LEMMA SameIntervals ==
  ASSUME NEW ask, NEW other, other.start = ask.start, other.end = ask.end, other.scope = ask.scope,
         other.status = ask.status, other.tz = ask.tz, other.noncurrency = ask.noncurrency,
         other.period = ask.period, other.alignment = ask.alignment,
         other.week_start = ask.week_start, other.days = ask.days
  PROVE  build_bucket_intervals(other) = build_bucket_intervals(ask)
<1>1. start_date(other) = start_date(ask) /\ end_date(other) = end_date(ask)
  BY SameCounted
<1>2. \A s : next_bucket_start(s, other) = next_bucket_start(s, ask) /\ bucket_end_for(s, other) = bucket_end_for(s, ask)
  BY Zenon DEF next_bucket_start, bucket_end_for
<1>3. \A e : end_bound_bucket_start_for_end(e, other) = end_bound_bucket_start_for_end(e, ask)
  BY Zenon DEF end_bound_bucket_start_for_end
<1>4. \A s : bucket_start_for(s, other) = bucket_start_for(s, ask)
  BY Zenon DEF bucket_start_for
<1>5. \A s, e : Onwards(s, e, other) = Onwards(s, e, ask)
  BY <1>2, SameOnwards
<1>6. \A s, e : Backwards(s, e, other) = Backwards(s, e, ask)
  BY <1>3, SameBackwards
<1> QED BY <1>1, <1>4, <1>5, <1>6 DEF build_bucket_intervals

\* What a period holds are the transactions of its days that are counted.
OnDaysOf(ask, b, S) == {i \in S : Holds(b, local_date(i, ask.tz))}
\* Every period is cut from an interval, and holds those of its days.
LEMMA PeriodOf ==
  ASSUME SpendingInv, NEW ask \in Asks, ~Fails(ask), NEW p \in spending_report(ask).periods
  PROVE  \E b \in build_bucket_intervals(ask) : /\ p.start = Max({b.start, start_date(ask)})
                                                /\ p.total = Sum(ask, OnDaysOf(ask, b, Counted(ask)))
<1> DEFINE first == start_date(ask)
<1> DEFINE last == end_date(ask)
<1> DEFINE intervals == build_bucket_intervals(ask)
<1> DEFINE counted == Counted(ask)
<1> DEFINE bucket == Buckets(ask, counted, intervals)
<1> DEFINE shown == {c \in intervals : ask.include_empty \/ c.start \in Range(bucket)}
<1>1. first \in Dates /\ last \in Dates /\ first \in Int /\ last \in Int
  BY ReportDates, DatesAre
<1>2. first <= last
  BY <1>1 DEF Fails
<1>3. Tiled(intervals, first, last)
  BY <1>1, <1>2, PeriodsTiled
<1>4. \A i \in counted : local_date(i, ask.tz) \in first .. last
  BY CountedAre
<1>5. spending_report(ask).periods = {Period(b, {i \in DOMAIN bucket : bucket[i] = b.start}, ask, first, last) : b \in shown}
  BY DEF spending_report, Report, PeriodsOf
<1>6. DOMAIN bucket = counted /\ \A i \in counted : bucket[i] = bucket_start_from_intervals(local_date(i, ask.tz), intervals)
  BY DEF Buckets
<1> HIDE DEF bucket
<1>7. PICK b \in shown : p = Period(b, {i \in DOMAIN bucket : bucket[i] = b.start}, ask, first, last)
  BY <1>5
<1>8. b \in intervals
  OBVIOUS
<1> HIDE DEF first, last, intervals, counted, shown
<1>9. ASSUME NEW i \in counted PROVE bucket[i] = b.start <=> Holds(b, local_date(i, ask.tz))
  <2>1. local_date(i, ask.tz) \in first .. last
    BY <1>4
  <2>2. PICK c \in intervals : Holds(c, local_date(i, ask.tz)) /\ \A d \in intervals : Holds(d, local_date(i, ask.tz)) => d = c
    BY <1>3, <2>1 DEF Tiled
  <2>3. bucket_start_from_intervals(local_date(i, ask.tz), intervals) = c.start
    BY <1>1, <1>3, <2>1, <2>2, BucketIs
  <2>4. bucket[i] = c.start
    BY <1>6, <2>3
  <2>5. c.start = b.start => c = b
    BY <1>3, <1>8 DEF Tiled
  <2> QED BY <1>8, <2>2, <2>4, <2>5
<1>10. {i \in DOMAIN bucket : bucket[i] = b.start} = OnDaysOf(ask, b, counted)
  BY <1>6, <1>9 DEF OnDaysOf
<1>11. p.start = Max({b.start, first}) /\ p.total = Sum(ask, OnDaysOf(ask, b, counted))
  BY <1>7, <1>10 DEF Period
<1> QED BY <1>8, <1>11 DEF first, intervals, counted

\* What is of a report's days and can be valued, whichever way it goes.
OfRange(ask) == {i \in rows(ask) : /\ local_date(i, ask.tz) \in start_date(ask) .. end_date(ask)
                                  /\ Missing(transactions[i]) = {}}

\* What does not go the way that is asked for adds nothing.
LEMMA OneWay ==
  ASSUME SpendingInv, NEW ask \in Asks, NEW S \in SUBSET OfRange(ask)
  PROVE  Sum(ask, S \cap Counted(ask)) = Added(Values(ask), S)
<1>1. S \in SUBSET Stored
  BY DEF OfRange, rows, Considered
<1>2. IsFiniteSet(S) /\ Numbers(Values(ask), S)
  BY <1>1, StoredAre, FS_Subset, ValuesAre DEF Numbers
<1>3. ASSUME NEW i \in S \ Counted(ask) PROVE Values(ask)[i] = 0
  <2>1. i \in Stored /\ i \in OfRange(ask)
    BY <1>1
  <2>2. apply_direction(transactions[i].amount, ask.direction) = 0
    BY <1>3, <2>1 DEF Counted, Skipped, Relevant, OfRange
  <2>3. Values(ask)[i] = apply_direction(value_in_reporting_currency(transactions[i]), ask.direction)
    BY <2>1 DEF Values
  <2> DEFINE a == transactions[i].amount
  <2> DEFINE x == value_in_reporting_currency(transactions[i])
  <2>4. a \in Int /\ x \in Int /\ (x = 0 <=> a = 0) /\ (x < 0 <=> a < 0)
    BY <2>1, ValueIs
  <2>5. ask.direction \in {"net", "inflow", "outflow"}
    BY DEF Asks
  <2> HIDE DEF a, x
  <2>6. apply_direction(a, ask.direction) = 0 => apply_direction(x, ask.direction) = 0
    BY <2>4, <2>5 DEF apply_direction
  <2> QED BY <2>2, <2>3, <2>6 DEF a, x
<1> DEFINE U == S \cap Counted(ask)
<1>4. U \in SUBSET S /\ U \in SUBSET Stored /\ \A i \in S \ U : Values(ask)[i] = 0
  BY <1>1, <1>3
<1> HIDE DEF U
<1>5. Added(Values(ask), S) = Added(Values(ask), U)
  BY <1>2, <1>4, AddedZeros
<1>6. Sum(ask, U) = Added(Values(ask), U)
  BY <1>4, SumIs
<1> QED BY <1>5, <1>6 DEF U

\* The report of one way, with the periods in which there is nothing.
LEMMA OtherWay ==
  ASSUME NEW ask \in Asks, NEW w \in {"net", "inflow", "outflow"}, NEW way,
         way = [ask EXCEPT !.direction = w, !.include_empty = TRUE]
  PROVE  way \in Asks /\ way.direction = w
<1> DEFINE half == [ask EXCEPT !.direction = w]
<1>1. half \in Asks /\ half.direction = w
  BY DEF Asks
<1>2. way = [half EXCEPT !.include_empty = TRUE]
  BY DEF Asks
<1> HIDE DEF half
<1>3. way \in Asks /\ way.direction = w
  BY <1>1, <1>2 DEF Asks
<1> QED BY <1>3

\* Of the same days the net is what came in less what went out.
LEMMA InMinusOut ==
  ASSUME SpendingInv
  PROVE  NetIsInMinusOut
<1> DEFINE Way(d) == [report EXCEPT !.direction = d, !.include_empty = TRUE]
<1> DEFINE Pers(d) == spending_report(Way(d)).periods
<1> SUFFICES ASSUME Answered, NEW b \in Pers("net"), NEW c \in Pers("inflow"), NEW d \in Pers("outflow"),
                    b.start = c.start, c.start = d.start
             PROVE  b.total = c.total - d.total
  BY DEF NetIsInMinusOut
<1>1. report \in Asks /\ ~Fails(report)
  BY SpendingAssumption DEF SpendingInv, Answered
<1> DEFINE first == start_date(report)
<1> DEFINE last == end_date(report)
<1> DEFINE intervals == build_bucket_intervals(report)
<1>2. first \in Dates /\ last \in Dates /\ first \in Int /\ last \in Int
  BY <1>1, ReportDates, DatesAre
<1>3. first <= last
  BY <1>1, <1>2 DEF Fails
<1>4. Tiled(intervals, first, last)
  BY <1>1, <1>2, <1>3, PeriodsTiled
<1> HIDE DEF first, last, intervals
<1>5. ASSUME NEW w \in {"net", "inflow", "outflow"}, NEW p \in Pers(w)
      PROVE  \E x \in intervals : /\ p.start = Max({x.start, first})
                                  /\ p.total = Added(Values(Way(w)), OnDaysOf(report, x, OfRange(report)))
  <2> DEFINE ask == Way(w)
  <2>1. ask \in Asks /\ ask.direction = w
    BY <1>1, OtherWay
  <2>2. /\ ask.start = report.start /\ ask.end = report.end /\ ask.scope = report.scope /\ ask.status = report.status
        /\ ask.tz = report.tz /\ ask.noncurrency = report.noncurrency /\ ask.period = report.period
        /\ ask.alignment = report.alignment /\ ask.week_start = report.week_start /\ ask.days = report.days
    BY <1>1 DEF Asks
  <2>3. p \in spending_report(ask).periods
    OBVIOUS
  <2> HIDE DEF ask
  <2>4. start_date(ask) = first /\ end_date(ask) = last /\ rows(ask) = rows(report)
    BY <2>2, SameCounted DEF first, last
  <2>5. build_bucket_intervals(ask) = intervals
    BY <2>2, SameIntervals DEF intervals
  <2>6. ~Fails(ask)
    BY <1>1, <2>4 DEF Fails, first, last
  <2>7. PICK x \in intervals : p.start = Max({x.start, first}) /\ p.total = Sum(ask, OnDaysOf(ask, x, Counted(ask)))
    BY <2>1, <2>3, <2>4, <2>5, <2>6, PeriodOf
  <2> DEFINE S == OnDaysOf(report, x, OfRange(report))
  <2>8. OfRange(ask) = OfRange(report)
    BY <2>2, <2>4 DEF OfRange, first, last
  <2>9. S \in SUBSET OfRange(ask)
    BY <2>8 DEF OnDaysOf
  <2>10. Counted(ask) \in SUBSET OfRange(ask)
    BY DEF Counted, Skipped, Relevant, OfRange
  <2>11. OnDaysOf(ask, x, Counted(ask)) = S \cap Counted(ask)
    BY <2>2, <2>8, <2>10 DEF OnDaysOf
  <2> HIDE DEF S
  <2>12. Sum(ask, S \cap Counted(ask)) = Added(Values(ask), S)
    BY <2>1, <2>9, OneWay
  <2>13. p.total = Added(Values(ask), S)
    BY <2>7, <2>11, <2>12
  <2> QED BY <2>7, <2>13 DEF S, ask
<1>6. PICK x \in intervals : /\ b.start = Max({x.start, first})
                             /\ b.total = Added(Values(Way("net")), OnDaysOf(report, x, OfRange(report)))
  BY <1>5
<1>7. PICK y \in intervals : /\ c.start = Max({y.start, first})
                             /\ c.total = Added(Values(Way("inflow")), OnDaysOf(report, y, OfRange(report)))
  BY <1>5
<1>8. PICK z \in intervals : /\ d.start = Max({z.start, first})
                             /\ d.total = Added(Values(Way("outflow")), OnDaysOf(report, z, OfRange(report)))
  BY <1>5
<1>9. x = y /\ y = z
  <2>1. Max({x.start, first}) = Max({y.start, first}) /\ Max({y.start, first}) = Max({z.start, first})
    BY <1>6, <1>7, <1>8
  <2> QED BY <1>2, <1>3, <1>4, <2>1, CutStart
<1> DEFINE S == OnDaysOf(report, x, OfRange(report))
<1>10. S \in SUBSET Stored
  BY DEF OnDaysOf, OfRange, rows, Considered
<1>11. IsFiniteSet(S)
  BY <1>10, StoredAre, FS_Subset
<1> DEFINE net == Values(Way("net"))
<1> DEFINE inflow == Values(Way("inflow"))
<1> DEFINE outflow == Values(Way("outflow"))
<1>12. Way("net").direction = "net" /\ Way("inflow").direction = "inflow" /\ Way("outflow").direction = "outflow"
       /\ Way("net") \in Asks /\ Way("inflow") \in Asks /\ Way("outflow") \in Asks
  <2>1. ASSUME NEW w \in {"net", "inflow", "outflow"} PROVE Way(w) \in Asks /\ Way(w).direction = w
    BY <1>1, OtherWay
  <2> HIDE DEF Way
  <2> QED BY <2>1
<1> HIDE DEF Way, S
<1>13. Numbers(inflow, S) /\ Numbers(outflow, S)
  BY <1>10, <1>12, ValuesAre DEF Numbers
<1>14. ASSUME NEW i \in S PROVE net[i] = inflow[i] - outflow[i]
  <2> DEFINE v == value_in_reporting_currency(transactions[i])
  <2>1. i \in Stored /\ v \in Int
    BY <1>10, ValueIs
  <2>2. /\ net[i] = apply_direction(v, "net") /\ inflow[i] = apply_direction(v, "inflow")
        /\ outflow[i] = apply_direction(v, "outflow")
    BY <1>12, <2>1 DEF Values
  <2> HIDE DEF v, net, inflow, outflow
  <2>3. /\ apply_direction(v, "net") = v /\ apply_direction(v, "inflow") = (IF v > 0 THEN v ELSE 0)
        /\ apply_direction(v, "outflow") = (IF v < 0 THEN -v ELSE 0)
    BY DEF apply_direction
  <2> QED BY <2>1, <2>2, <2>3
<1>15. Less(net, inflow, outflow, S)
  <2> HIDE DEF net, inflow, outflow
  <2> QED BY <1>14 DEF Less
<1>16. b.total = Added(net, S) /\ c.total = Added(inflow, S) /\ d.total = Added(outflow, S)
  BY <1>6, <1>7, <1>8, <1>9 DEF S
<1> HIDE DEF net, inflow, outflow
<1>17. Added(net, S) = Added(inflow, S) - Added(outflow, S)
  BY <1>11, <1>13, <1>15, AddedLess
<1> QED BY <1>16, <1>17

\* What the portfolio counts, and skips, is what its accounts do.
Scoped(ask, scope) == [ask EXCEPT !.scope = scope, !.start = start_date(ask)]
\* Nothing but the scope is another.
LEMMA ScopedIs ==
  ASSUME NEW ask \in Asks, start_date(ask) \in Dates, NEW scope \in SpendingAccounts \cup {"portfolio"},
         NEW other, other = Scoped(ask, scope)
  PROVE  /\ other \in Asks /\ other.scope = scope
         /\ start_date(other) = start_date(ask) /\ end_date(other) = end_date(ask)
         /\ other.tz = ask.tz /\ other.status = ask.status /\ other.noncurrency = ask.noncurrency
         /\ other.direction = ask.direction /\ Values(other) = Values(ask)
<1> DEFINE half == [ask EXCEPT !.scope = scope]
<1>1. half \in Asks
  BY DEF Asks
<1>2. other = [half EXCEPT !.start = start_date(ask)]
  BY DEF Asks, Scoped
<1>3. half.scope = scope /\ half.tz = ask.tz /\ half.status = ask.status /\ half.noncurrency = ask.noncurrency
      /\ half.direction = ask.direction /\ half.end = ask.end
  BY DEF Asks
<1> HIDE DEF half
<1>4. other \in Asks /\ other.start = start_date(ask)
  BY <1>1, <1>2 DEF Asks
<1>5. other.scope = scope /\ other.tz = ask.tz /\ other.status = ask.status /\ other.noncurrency = ask.noncurrency
      /\ other.direction = ask.direction /\ other.end = ask.end
  BY <1>1, <1>2, <1>3 DEF Asks
<1>6. None \notin Dates
  BY CalendarAssumption, DatesAre
<1>7. start_date(other) = start_date(ask) /\ end_date(other) = end_date(ask)
  BY <1>4, <1>5, <1>6 DEF start_date, end_date
<1>8. Values(other) = Values(ask)
  BY <1>5 DEF Values
<1> QED BY <1>4, <1>5, <1>7, <1>8

Account == [i \in Stored |-> transactions[i].account]
\* An account has its own of them.
LEMMA ScopeRows ==
  ASSUME SpendingInv, NEW ask \in Asks, start_date(ask) \in Dates, NEW a \in account_ids("portfolio")
  PROVE  /\ Counted(Scoped(ask, a)) = Class(Account, a, Counted(Scoped(ask, "portfolio")))
         /\ Skipped(Scoped(ask, a)) = Class(Account, a, Skipped(Scoped(ask, "portfolio")))
<1> DEFINE one == Scoped(ask, a)
<1> DEFINE all == Scoped(ask, "portfolio")
<1>1. a \in SpendingAccounts /\ account_ids(a) = {a}
  BY SpendingAssumption DEF account_ids
<1>2. /\ one.scope = a /\ start_date(one) = start_date(ask) /\ end_date(one) = end_date(ask)
      /\ one.tz = ask.tz /\ one.status = ask.status /\ one.noncurrency = ask.noncurrency
      /\ one.direction = ask.direction
  BY <1>1, ScopedIs
<1>3. /\ all.scope = "portfolio" /\ start_date(all) = start_date(ask) /\ end_date(all) = end_date(ask)
      /\ all.tz = ask.tz /\ all.status = ask.status /\ all.noncurrency = ask.noncurrency
      /\ all.direction = ask.direction
  BY ScopedIs
<1> HIDE DEF one, all
<1>4. Considered(one.scope, one.status) = {i \in Considered(all.scope, all.status) : transactions[i].account = a}
  BY <1>1, <1>2, <1>3 DEF Considered
<1>5. rows(one) = {i \in rows(all) : transactions[i].account = a}
  BY <1>2, <1>3, <1>4 DEF rows
<1>6. Relevant(one) = {i \in Relevant(all) : transactions[i].account = a}
  BY <1>2, <1>3, <1>5 DEF Relevant
<1>7. Relevant(all) \in SUBSET Stored
  BY DEF Relevant, rows, Considered
<1>8. \A i \in Stored : Account[i] = transactions[i].account
  BY DEF Account
<1>9. Skipped(one) = Class(Account, a, Skipped(all))
  BY <1>6, <1>7, <1>8 DEF Skipped, Class
<1>10. Skipped(one) = {i \in Skipped(all) : transactions[i].account = a}
  BY <1>6 DEF Skipped
<1>11. Counted(one) = Class(Account, a, Counted(all))
  BY <1>6, <1>7, <1>8, <1>10 DEF Counted, Class
<1> QED BY <1>9, <1>11 DEF one, all

\* The accounts add up to the portfolio.
LEMMA ScopesSum ==
  ASSUME SpendingInv, NEW ask \in Asks, start_date(ask) \in Dates,
         NEW of, \A scope \in account_ids("portfolio") \cup {"portfolio"} :
                     of[scope] = spending_report(Scoped(ask, scope))
  PROVE  /\ MapThenSumSet(LAMBDA a : of[a].total, account_ids("portfolio")) = of["portfolio"].total
         /\ MapThenSumSet(LAMBDA a : of[a].skipped, account_ids("portfolio")) = of["portfolio"].skipped
<1> DEFINE A == account_ids("portfolio")
<1>1. A \in SUBSET SpendingAccounts /\ IsFiniteSet(A)
  <2>1. A \in SUBSET SpendingAccounts
    BY DEF account_ids
  <2> QED BY <2>1, SpendingAssumption, FS_Subset
<1> DEFINE C(scope) == Counted(Scoped(ask, scope))
<1> DEFINE K(scope) == Skipped(Scoped(ask, scope))
<1>2. ASSUME NEW scope \in A \cup {"portfolio"}
      PROVE  of[scope].total = Added(Values(ask), C(scope)) /\ of[scope].skipped = Cardinality(K(scope))
  <2> DEFINE one == Scoped(ask, scope)
  <2>1. of[scope] = spending_report(one)
    OBVIOUS
  <2>2. Values(one) = Values(ask)
    BY <1>1, ScopedIs
  <2> HIDE DEF one
  <2>3. of[scope].total = Sum(one, Counted(one)) /\ of[scope].skipped = Cardinality(Skipped(one))
    BY <2>1 DEF spending_report, Report
  <2>4. Counted(one) \in SUBSET Stored
    BY CountedAre
  <2>5. Sum(one, Counted(one)) = Added(Values(one), Counted(one))
    BY <2>4, SumIs
  <2> QED BY <2>2, <2>3, <2>5 DEF one
<1> DEFINE counted == C("portfolio")
<1> DEFINE skipped == K("portfolio")
<1>3. \A a \in A : C(a) = Class(Account, a, counted) /\ K(a) = Class(Account, a, skipped)
  BY ScopeRows
<1>4. /\ counted \in SUBSET Stored /\ skipped \in SUBSET Stored
      /\ \A i \in counted : transactions[i].account \in A
      /\ \A i \in skipped : transactions[i].account \in A
  <2>1. Scoped(ask, "portfolio").scope = "portfolio"
    BY ScopedIs
  <2> QED BY <2>1 DEF Counted, Skipped, Relevant, rows, Considered
<1> HIDE DEF C, K, counted, skipped
<1>5. Classes(Account, counted, A) /\ Classes(Account, skipped, A)
  BY <1>4 DEF Classes, Account
<1>6. IsFiniteSet(counted) /\ IsFiniteSet(skipped) /\ Numbers(Values(ask), counted)
  BY <1>4, StoredAre, FS_Subset, ValuesAre DEF Numbers
<1> DEFINE totals == [a \in A |-> of[a].total]
<1> DEFINE lost == [a \in A |-> of[a].skipped]
<1> DEFINE ones == [i \in skipped |-> 1]
<1>7. /\ \A a \in A : totals[a] = of[a].total /\ lost[a] = of[a].skipped
      /\ \A i \in skipped : ones[i] = 1
  OBVIOUS
<1> HIDE DEF totals, lost, ones, A
<1>8. MapThenSumSet(LAMBDA a : of[a].total, A) = of["portfolio"].total
  <2>1. MapThenSumSet(LAMBDA a : of[a].total, A) = Added(totals, A)
    BY <1>1, <1>7, ScopeTotalsAre
  <2>2. ByClass(totals, Values(ask), Account, counted, A)
    BY <1>2, <1>3, <1>7 DEF ByClass
  <2>3. Added(totals, A) = Added(Values(ask), counted)
    BY <1>1, <1>5, <1>6, <2>2, AddedByClass
  <2>4. of["portfolio"].total = Added(Values(ask), counted)
    BY <1>2 DEF counted
  <2> QED BY <2>1, <2>3, <2>4
<1>9. MapThenSumSet(LAMBDA a : of[a].skipped, A) = of["portfolio"].skipped
  <2>1. MapThenSumSet(LAMBDA a : of[a].skipped, A) = Added(lost, A)
    BY <1>1, <1>7, ScopeSkippedAre
  <2>2. ASSUME NEW a \in A PROVE lost[a] = Added(ones, Class(Account, a, skipped))
    <3>1. Class(Account, a, skipped) \in SUBSET skipped
      BY DEF Class
    <3>2. IsFiniteSet(Class(Account, a, skipped)) /\ Ones(ones, Class(Account, a, skipped))
      BY <1>6, <1>7, <3>1, FS_Subset DEF Ones
    <3>3. Added(ones, Class(Account, a, skipped)) = Cardinality(Class(Account, a, skipped))
      BY <3>2, AddedOnes
    <3> QED BY <1>2, <1>3, <1>7, <3>3
  <2>3. ByClass(lost, ones, Account, skipped, A) /\ Numbers(ones, skipped) /\ Ones(ones, skipped)
    BY <1>7, <2>2 DEF ByClass, Numbers, Ones
  <2>4. Added(lost, A) = Added(ones, skipped)
    BY <1>1, <1>5, <1>6, <2>3, AddedByClass
  <2>5. Added(ones, skipped) = Cardinality(skipped)
    BY <1>6, <2>3, AddedOnes
  <2>6. of["portfolio"].skipped = Cardinality(skipped)
    BY <1>2 DEF skipped
  <2> QED BY <2>1, <2>4, <2>5, <2>6
<1> QED BY <1>8, <1>9 DEF A

\* And so the reports of the scopes.
LEMMA AddsUpInScopes ==
  ASSUME SpendingInv
  PROVE  ScopesAddUp
<1> SUFFICES ASSUME Answered, report.scope = "portfolio",
                    NEW of \in {[scope \in account_ids("portfolio") \cup {"portfolio"} |->
                                    spending_report([report EXCEPT !.scope = scope, !.start = start_date(report)])]}
             PROVE  /\ MapThenSumSet(LAMBDA a : of[a].total, account_ids("portfolio")) = of["portfolio"].total
                    /\ MapThenSumSet(LAMBDA a : of[a].skipped, account_ids("portfolio")) = of["portfolio"].skipped
  BY Zenon DEF ScopesAddUp
<1>1. report \in Asks /\ start_date(report) \in Dates
  <2>1. report \in Asks
    BY SpendingAssumption DEF SpendingInv, Answered
  <2> QED BY <2>1, ReportDates
<1>2. \A scope \in account_ids("portfolio") \cup {"portfolio"} : of[scope] = spending_report(Scoped(report, scope))
  BY DEF Scoped
<1> QED BY <1>1, <1>2, ScopesSum

\* Nothing that is spent is lost or counted twice: each day of the range is in one period, what is
\* counted is in one period and what a period counts in its groups, what comes in less what goes out
\* is the net, the accounts make up the portfolio, and the list shows the same transactions.
THEOREM SpendingAddsUpHolds == SpendingSpec => []SpendingAddsUp
<1>1. SpendingInv => SpendingAddsUp
  BY DaysOnce, AddsUpInPeriods, InMinusOut, AddsUpInScopes, BothLeaveOut DEF SpendingAddsUp
<1> QED BY <1>1, SpendingInvHolds, PTL
=============================================================================
