----------------------- MODULE TransactionEditsProofs -----------------------
(***************************************************************************)
(* The two logs of edits, for any processes, proposals, patches and        *)
(* bounds.  None of the properties is inductive: what recompaction makes   *)
(* of a log depends on the order of its time stamps, and that these do not *)
(* go back while nothing is disturbed is the heart of the invariant.       *)
(*                                                                         *)
(* And the terminal interface that edits one of them, for any              *)
(* transactions, rules, categories and expressions: what it shows is all   *)
(* of what it loaded, in an order that must first be shown to exist, and   *)
(* what it adds up is compared with what it shows.                         *)
(***************************************************************************)
EXTENDS TransactionEdits, Terminal, WellFoundedInduction, SequenceTheorems, FiniteSetTheorems, TLAPS

\* What is assumed of the constants.
LEMMA Bounds == {MaxTime, MaxDirect, MaxCompact, MaxCrash} \subseteq Nat /\ None \notin Value
BY TransactionEditsAssumption

(***************************************************************************)
(* Places in a log: there is always a last one and a newest one.           *)
(***************************************************************************)

\* A set of natural numbers has a least element.
LEMMA Least ==
  ASSUME NEW T, T \subseteq Nat, T # {}
  PROVE  \E m \in T : \A k \in T : m <= k
<1> DEFINE R == {ss \in Nat \X Nat : ss[1] < ss[2]}
<1>1. IsWellFoundedOn(R, Nat)
  BY NatLessThanWellFounded DEF OpToRel
<1> HIDE DEF R
<1>2. PICK m \in T : \A k \in T : ~(<<k, m>> \in R)
  BY <1>1, WFMin
<1>3. ASSUME NEW k \in T PROVE m <= k
  <2>1. k \in Nat /\ m \in Nat /\ <<k, m>> \in Nat \X Nat
    OBVIOUS
  <2>2. ~(k < m)
    BY <1>2, <2>1 DEF R
  <2> QED BY <2>1, <2>2
<1> QED BY <1>3

\* Among some places of a log there is a last.
LEMMA LastPlace ==
  ASSUME NEW n \in Nat, NEW I, I \subseteq 1..n, I # {}
  PROVE  \E k \in I : \A j \in I : j <= k
<1> DEFINE T == {n - i : i \in I}
<1>1. T \subseteq Nat /\ T # {}
  <2>1. \A i \in I : i \in 1..n
    OBVIOUS
  <2>2. \A i \in 1..n : n - i \in Nat
    OBVIOUS
  <2>3. ASSUME NEW t \in T PROVE t \in Nat
    BY <2>1, <2>2
  <2>4. PICK i \in I : TRUE
    OBVIOUS
  <2>5. n - i \in T
    OBVIOUS
  <2> QED BY <2>3, <2>5
<1>2. PICK m \in T : \A k \in T : m <= k
  BY <1>1, Least
<1>3. PICK k \in I : m = n - k
  OBVIOUS
<1>4. \A j \in I : n - k <= n - j
  BY <1>2, <1>3
<1> QED BY <1>4

\* Place j comes before place k when the log is put in the order of its times.
Earlier(time, j, k) == time[j] < time[k] \/ (time[j] = time[k] /\ j < k)

\* Among some places of a log there is a newest, the later one of two as new.
LEMMA NewestPlace ==
  ASSUME NEW n \in Nat, NEW I, I \subseteq 1..n, I # {},
         NEW time, NEW m \in Nat, \A i \in I : time[i] \in 0..m
  PROVE  \E k \in I : \A j \in I \ {k} : Earlier(time, j, k)
<1> DEFINE T == {m - time[i] : i \in I}
<1>1. T \subseteq Nat /\ T # {}
  OBVIOUS
<1>2. PICK t \in T : \A k \in T : t <= k
  BY <1>1, Least
<1>3. PICK i \in I : t = m - time[i]
  OBVIOUS
<1> DEFINE N == {j \in I : time[j] = time[i]}
<1>4. PICK k \in N : \A j \in N : j <= k
  BY LastPlace
<1>5. \A j \in I : time[j] <= time[i]
  <2> TAKE j \in I
  <2>1. t <= m - time[j]
    BY <1>2
  <2> QED BY <2>1, <1>3
<1>6. \A j \in I \ {k} : Earlier(time, j, k)
  <2> TAKE j \in I \ {k}
  <2>1. time[k] = time[i] /\ k \in 1..n /\ j \in 1..n
    OBVIOUS
  <2>2. CASE time[j] = time[i]
    BY <2>1, <2>2, <1>4 DEF Earlier
  <2>3. CASE time[j] # time[i]
    BY <2>1, <2>3, <1>5 DEF Earlier
  <2> QED BY <2>2, <2>3
<1> QED BY <1>6

(***************************************************************************)
(* What a log of patches comes to.                                         *)
(***************************************************************************)

Touching(log, f) == {i \in DOMAIN log : f \in DOMAIN log[i].patch}
Ordered(log) == \A i, j \in DOMAIN log : i < j => log[i].stamp <= log[j].stamp

\* Readers take field f from the last patch that touches it.
LEMMA ReadLast ==
  ASSUME NEW log \in Seq(Entries), NEW f \in Field,
         NEW k \in Touching(log, f), \A j \in Touching(log, f) : j <= k
  PROVE  Annotation(log)[f] = log[k].patch[f]
<1> DEFINE I == Touching(log, f)
           c == CHOOSE i \in I : \A j \in I \ {i} : j < i
<1>1. I \subseteq Nat
  BY DEF Touching
<1>2. \A j \in I \ {k} : j < k
  BY <1>1
<1>3. c \in I /\ \A j \in I \ {c} : j < c
  BY <1>2
<1>4. c = k
  BY <1>1, <1>2, <1>3
<1>5. Annotation(log)[f] = IF I = {} THEN None ELSE log[c].patch[f]
  BY DEF Annotation, LastSet, Touching
<1> QED BY <1>4, <1>5

\* Without one the field is empty.
LEMMA ReadNone ==
  ASSUME NEW log, NEW f \in Field, Touching(log, f) = {}
  PROVE  Annotation(log)[f] = None /\ ByStamp(log)[f] = None
BY DEF Annotation, ByStamp, LastSet, Touching

\* A log is read by fields, and by one of its patches each.
LEMMA ReadOne ==
  ASSUME NEW log \in Seq(Entries), NEW f \in Field, Touching(log, f) # {}
  PROVE  \E k \in Touching(log, f) : /\ \A j \in Touching(log, f) : j <= k
                                     /\ Annotation(log)[f] = log[k].patch[f]
<1>1. Touching(log, f) \subseteq 1 .. Len(log) /\ Len(log) \in Nat
  BY DEF Touching
<1>2. PICK k \in Touching(log, f) : \A j \in Touching(log, f) : j <= k
  BY <1>1, LastPlace
<1> QED BY <1>2, ReadLast

\* What a patch may set a field to.
LEMMA PatchValues ==
  ASSUME NEW entry \in Entries, NEW f \in DOMAIN entry.patch
  PROVE  f \in Field /\ entry.patch[f] \in Value \cup {None}
<1>1. PICK S \in SUBSET Field : entry.patch \in [S -> Value \cup {None}]
  BY DEF Entries, Patches
<1> QED BY <1>1

\* One more patch: the fields it touches are its own, the others stay.
LEMMA ReadAppended ==
  ASSUME NEW log \in Seq(Entries), NEW entry \in Entries
  PROVE  Annotation(Append(log, entry)) = apply_to(entry.patch, Annotation(log))
<1> DEFINE longer == Append(log, entry)
           n == Len(log)
<1>1. /\ longer \in Seq(Entries) /\ DOMAIN longer = 1 .. n + 1 /\ DOMAIN log = 1 .. n
      /\ n \in Nat /\ longer[n + 1] = entry /\ \A i \in 1 .. n : longer[i] = log[i]
  OBVIOUS
<1> HIDE DEF longer, n
<1>2. ASSUME NEW f \in Field
      PROVE  Annotation(longer)[f] = apply_to(entry.patch, Annotation(log))[f]
  <2>1. CASE f \in DOMAIN entry.patch
    <3>1. n + 1 \in Touching(longer, f) /\ \A j \in Touching(longer, f) : j <= n + 1
      BY <2>1, <1>1 DEF Touching
    <3> QED BY <3>1, <2>1, <1>1, ReadLast DEF apply_to
  <2>2. CASE f \notin DOMAIN entry.patch
    <3>1. Touching(longer, f) = Touching(log, f)
      BY <2>2, <1>1 DEF Touching
    <3>2. apply_to(entry.patch, Annotation(log))[f] = Annotation(log)[f]
      BY <2>2 DEF apply_to
    <3>3. CASE Touching(log, f) = {}
      BY <3>1, <3>2, <3>3, ReadNone
    <3>4. CASE Touching(log, f) # {}
      <4>1. PICK k \in Touching(log, f) : /\ \A j \in Touching(log, f) : j <= k
                                          /\ Annotation(log)[f] = log[k].patch[f]
        BY <3>4, ReadOne
      <4>2. longer[k] = log[k]
        BY <1>1 DEF Touching
      <4> QED BY <3>1, <3>2, <4>1, <4>2, <1>1, ReadLast
    <3> QED BY <3>3, <3>4
  <2> QED BY <2>1, <2>2
<1>3. /\ Annotation(longer) = [f \in Field |-> Annotation(longer)[f]]
      /\ apply_to(entry.patch, Annotation(log))
         = [f \in Field |-> apply_to(entry.patch, Annotation(log))[f]]
  BY DEF Annotation, apply_to
<1>4. Annotation(longer) = apply_to(entry.patch, Annotation(log))
  BY <1>2, <1>3
<1> QED BY <1>4 DEF longer

\* Where time stamps do not go back, recompaction folds as readers do.
LEMMA FoldsAsRead ==
  ASSUME NEW log \in Seq(Entries), Ordered(log)
  PROVE  ByStamp(log) = Annotation(log)
<1>1. ASSUME NEW f \in Field PROVE ByStamp(log)[f] = Annotation(log)[f]
  <2> DEFINE I == Touching(log, f)
             Less(i, j) == log[i].stamp < log[j].stamp \/ (log[i].stamp = log[j].stamp /\ i < j)
             c == CHOOSE i \in I : \A j \in I \ {i} : Less(j, i)
  <2>1. CASE I = {}
    BY <2>1, ReadNone
  <2>2. CASE I # {}
    <3>1. PICK k \in I : (\A j \in I : j <= k) /\ Annotation(log)[f] = log[k].patch[f]
      BY <2>2, ReadOne
    <3>2. \A i \in I : i \in DOMAIN log /\ i \in Nat /\ log[i] \in Entries /\ log[i].stamp \in Nat
      <4>1. \A i \in DOMAIN log : i \in Nat /\ log[i] \in Entries
        OBVIOUS
      <4> QED BY <4>1 DEF Touching, Entries
    <3>3. \A j \in I \ {k} : Less(j, k)
      BY <3>1, <3>2 DEF Ordered
    <3>4. c \in I /\ \A j \in I \ {c} : Less(j, c)
      BY <3>3
    <3>5. c = k
      BY <3>1, <3>2, <3>3, <3>4
    <3>6. ByStamp(log)[f] = IF I = {} THEN None ELSE log[c].patch[f]
      BY DEF ByStamp, LastSet, Touching
    <3> QED BY <2>2, <3>1, <3>5, <3>6
  <2> QED BY <2>1, <2>2
<1> QED BY <1>1 DEF ByStamp, Annotation

\* What recompaction folds a log into is an annotation, in whatever order its stamps are.
LEMMA FoldTypes ==
  ASSUME NEW log \in Seq(Entries)
  PROVE  ByStamp(log) \in [Field -> Value \cup {None}]
<1> DEFINE time == [i \in DOMAIN log |-> log[i].stamp]
<1>1. ASSUME NEW f \in Field PROVE ByStamp(log)[f] \in Value \cup {None}
  <2> DEFINE I == Touching(log, f)
  <2>1. CASE I = {}
    BY <2>1, ReadNone
  <2>2. CASE I # {}
    <3>1. /\ I \subseteq 1 .. Len(log) /\ Len(log) \in Nat /\ DOMAIN log = 1 .. Len(log)
          /\ \A i \in I : time[i] = log[i].stamp /\ time[i] \in 0 .. MaxTime /\ log[i] \in Entries
      <4>1. \A i \in DOMAIN log : log[i] \in Entries
        OBVIOUS
      <4>2. \A any \in Entries : any.stamp \in 0 .. MaxTime
        BY DEF Entries
      <4> QED BY <4>1, <4>2 DEF Touching
    <3> HIDE DEF time
    <3>2. \E k \in I : \A j \in I \ {k} : Earlier(time, j, k)
      BY <2>2, <3>1, NewestPlace, Bounds
    <3> DEFINE d == CHOOSE i \in I : \A j \in I \ {i} :
                        log[j].stamp < log[i].stamp \/ (log[j].stamp = log[i].stamp /\ j < i)
    <3>3. ByStamp(log)[f] = IF I = {} THEN None ELSE log[d].patch[f]
      BY DEF ByStamp, LastSet, Touching
    <3>4. d \in I
      <4>1. \E i \in I : \A j \in I \ {i} :
                log[j].stamp < log[i].stamp \/ (log[j].stamp = log[i].stamp /\ j < i)
        BY <3>1, <3>2 DEF Earlier
      <4> QED BY <4>1, Zenon
    <3> HIDE DEF d
    <3>5. log[d] \in Entries /\ f \in DOMAIN log[d].patch
      BY <3>1, <3>4 DEF Touching
    <3> QED BY <2>2, <3>3, <3>5, PatchValues
  <2> QED BY <2>1, <2>2
<1> QED BY <1>1 DEF ByStamp

\* A recompacted log is one patch at most, no newer than the log was, and says what
\* the old one came to in the order of its stamps.
LEMMA Recompacted ==
  ASSUME NEW log \in Seq(Entries), log # <<>>,
         NEW now, \A i \in DOMAIN log : log[i].stamp <= now
  PROVE  LET short == compact_transaction_annotation_patches(log) IN
         /\ short \in Seq(Entries)
         /\ Ordered(short)
         /\ \A i \in DOMAIN short : short[i].stamp <= now
         /\ Annotation(short) = ByStamp(log)
<1> DEFINE ann == ByStamp(log)
           set == {f \in Field : ann[f] # None}
           newest == CHOOSE s \in {log[i].stamp : i \in DOMAIN log} :
                         \A i \in DOMAIN log : log[i].stamp <= s
           entry == [stamp |-> newest, patch |-> [f \in set |-> ann[f]]]
           short == compact_transaction_annotation_patches(log)
<1>1. short = IF set = {} THEN <<>> ELSE <<entry>>
  BY DEF compact_transaction_annotation_patches
<1>2. ann = ByStamp(log) /\ ann \in [Field -> Value \cup {None}]
  BY FoldTypes
<1>3. newest \in 0 .. MaxTime /\ newest <= now
  <2>1. /\ DOMAIN log = 1 .. Len(log) /\ Len(log) \in Nat \ {0}
        /\ \A i \in DOMAIN log : log[i].stamp \in 0 .. MaxTime
    <3>1. \A i \in DOMAIN log : log[i] \in Entries
      OBVIOUS
    <3>2. \A any \in Entries : any.stamp \in 0 .. MaxTime
      BY DEF Entries
    <3>3. DOMAIN log = 1 .. Len(log) /\ Len(log) \in Nat \ {0}
      BY EmptySeq
    <3> QED BY <3>1, <3>2, <3>3
  <2> DEFINE Stamps == {log[i].stamp : i \in DOMAIN log}
             time == [i \in DOMAIN log |-> log[i].stamp]
  <2>2. PICK k \in DOMAIN log : \A j \in DOMAIN log \ {k} : Earlier(time, j, k)
    <3>1. \A i \in DOMAIN log : time[i] \in 0 .. MaxTime
      BY <2>1
    <3> HIDE DEF time
    <3>2. DOMAIN log \subseteq 1 .. Len(log) /\ DOMAIN log # {} /\ Len(log) \in Nat /\ MaxTime \in Nat
      BY <2>1, Bounds
    <3> QED BY <3>1, <3>2, NewestPlace
  <2> DEFINE last == log[k].stamp
  <2>3. last \in Stamps /\ \A i \in DOMAIN log : log[i].stamp <= last
    <3>1. ASSUME NEW i \in DOMAIN log PROVE log[i].stamp <= log[k].stamp
      BY <2>1, <2>2 DEF Earlier
    <3> QED BY <3>1
  <2> HIDE DEF last
  <2>4. newest \in Stamps
    BY <2>3, Zenon
  <2>5. PICK i \in DOMAIN log : newest = log[i].stamp
    BY <2>4
  <2> QED BY <2>1, <2>5
<1> HIDE DEF ann, newest, short
<1>4. entry \in Entries
  <2>1. [f \in set |-> ann[f]] \in [set -> Value \cup {None}] /\ set \in SUBSET Field
    BY <1>2
  <2>2. [f \in set |-> ann[f]] \in Patches
    BY <2>1 DEF Patches
  <2> QED BY <2>2, <1>3 DEF Entries
<1>5. CASE set = {}
  <2>1. short = <<>>
    BY <1>1, <1>5
  <2>2. ASSUME NEW f \in Field PROVE Annotation(short)[f] = ByStamp(log)[f]
    <3>1. Touching(<<>>, f) = {}
      BY DEF Touching
    <3> QED BY <3>1, <2>1, <1>2, <1>5, ReadNone
  <2>3. Annotation(short) = ByStamp(log)
    BY <2>2 DEF Annotation, ByStamp
  <2> QED BY <2>1, <2>3 DEF Ordered, short
<1>6. CASE set # {}
  <2>1. /\ short = <<entry>> /\ short \in Seq(Entries) /\ DOMAIN short = {1}
        /\ short[1] = entry
    BY <1>1, <1>4, <1>6
  <2>2. ASSUME NEW f \in Field PROVE Annotation(short)[f] = ByStamp(log)[f]
    <3>1. CASE f \in set
      <4>1. 1 \in Touching(short, f) /\ \A j \in Touching(short, f) : j <= 1
        BY <2>1, <3>1 DEF Touching
      <4> QED BY <2>1, <3>1, <4>1, <1>2, ReadLast
    <3>2. CASE f \notin set
      <4>1. Touching(short, f) = {}
        BY <2>1, <3>2 DEF Touching
      <4> QED BY <4>1, <3>2, <1>2, ReadNone
    <3> QED BY <3>1, <3>2
  <2>3. Annotation(short) = ByStamp(log)
    BY <2>2 DEF Annotation, ByStamp
  <2> QED BY <2>1, <2>3, <1>3 DEF Ordered, short
<1> QED BY <1>5, <1>6

(***************************************************************************)
(* What a log of events says of a proposal.                                *)
(***************************************************************************)

EventsOf(log, e) == {i \in DOMAIN log : log[i].edit = e}
CurrentIn(log, e) ==
    IF EventsOf(log, e) = {} THEN NoEvent
    ELSE log[CHOOSE i \in EventsOf(log, e) : \A j \in EventsOf(log, e) \ {i} :
            \/ log[j].updated_at < log[i].updated_at
            \/ log[j].updated_at = log[i].updated_at /\ j < i]

IsNewest(log, e, k) == \A j \in EventsOf(log, e) \ {k} :
    \/ log[j].updated_at < log[k].updated_at
    \/ log[j].updated_at = log[k].updated_at /\ j < k

\* The state of a proposal, now and after a step, in these terms.
LEMMA CurrentIsIn == \A e : /\ Current(e) = CurrentIn(proposals, e)
                            /\ Current(e)' = CurrentIn(proposals', e)
BY DEF Current, CurrentIn, EventsOf

\* The event at place k that is newest is the one that counts.
LEMMA NewestCounts ==
  ASSUME NEW log \in Seq(Events), NEW e, NEW k \in EventsOf(log, e), IsNewest(log, e, k)
  PROVE  CurrentIn(log, e) = log[k]
<1> DEFINE I == EventsOf(log, e)
           Less(j, i) == \/ log[j].updated_at < log[i].updated_at
                         \/ log[j].updated_at = log[i].updated_at /\ j < i
           c == CHOOSE i \in I : \A j \in I \ {i} : Less(j, i)
<1>1. \A i \in I : i \in Nat /\ log[i].updated_at \in Nat
  <2>1. \A i \in DOMAIN log : i \in Nat /\ log[i] \in Events
    OBVIOUS
  <2>2. \A any \in Events : any.updated_at \in Nat
    BY DEF Events
  <2> QED BY <2>1, <2>2 DEF EventsOf
<1>2. \A j \in I \ {k} : Less(j, k)
  BY DEF IsNewest
<1>3. c \in I /\ \A j \in I \ {c} : Less(j, c)
  BY <1>2
<1>4. c = k
  BY <1>1, <1>2, <1>3
<1> QED BY <1>4 DEF CurrentIn

\* What counts is an event of the log, if the proposal has one.
LEMMA CurrentEvent ==
  ASSUME NEW log \in Seq(Events), NEW e, EventsOf(log, e) # {}
  PROVE  \E k \in EventsOf(log, e) : CurrentIn(log, e) = log[k] /\ IsNewest(log, e, k)
<1> DEFINE time == [i \in DOMAIN log |-> log[i].updated_at]
<1>1. EventsOf(log, e) \subseteq 1 .. Len(log) /\ Len(log) \in Nat /\ DOMAIN log = 1 .. Len(log)
  BY DEF EventsOf
<1>2. \A i \in EventsOf(log, e) : time[i] = log[i].updated_at /\ time[i] \in 0 .. MaxTime
  <2>1. \A i \in DOMAIN log : log[i] \in Events
    OBVIOUS
  <2>2. \A any \in Events : any.updated_at \in 0 .. MaxTime
    BY DEF Events
  <2> QED BY <2>1, <2>2 DEF EventsOf
<1>3. MaxTime \in Nat
  BY TransactionEditsAssumption
<1> HIDE DEF time
<1>4. PICK k \in EventsOf(log, e) : \A j \in EventsOf(log, e) \ {k} : Earlier(time, j, k)
  BY <1>1, <1>2, <1>3, NewestPlace
<1>5. IsNewest(log, e, k)
  BY <1>4, <1>2 DEF Earlier, IsNewest
<1> QED BY <1>5, NewestCounts

\* A proposal nobody made, or one that was made, as readers tell them apart.
LEMMA CurrentStatus ==
  ASSUME NEW log \in Seq(Events), NEW e
  PROVE  /\ EventsOf(log, e) = {} <=> CurrentIn(log, e).status = "none"
         /\ EventsOf(log, e) = {} <=> CurrentIn(log, e) = NoEvent
<1>1. \A any \in Events : any.status # "none" /\ any # NoEvent
  BY DEF Events, Decision, Pending, NoEvent
<1>2. CASE EventsOf(log, e) = {}
  BY <1>2 DEF CurrentIn, NoEvent
<1>3. CASE EventsOf(log, e) # {}
  <2>1. PICK k \in EventsOf(log, e) : CurrentIn(log, e) = log[k]
    BY <1>3, CurrentEvent
  <2>2. log[k] \in Events
    BY DEF EventsOf
  <2> QED BY <1>1, <1>3, <2>1, <2>2
<1> QED BY <1>2, <1>3

\* An event of another proposal changes nothing of this one.
LEMMA OtherEvent ==
  ASSUME NEW log \in Seq(Events), NEW event \in Events, NEW e, event.edit # e
  PROVE  /\ EventsOf(Append(log, event), e) = EventsOf(log, e)
         /\ CurrentIn(Append(log, event), e) = CurrentIn(log, e)
<1> DEFINE longer == Append(log, event)
           n == Len(log)
<1>1. /\ longer \in Seq(Events) /\ DOMAIN longer = 1 .. n + 1 /\ DOMAIN log = 1 .. n
      /\ n \in Nat /\ longer[n + 1] = event /\ \A i \in 1 .. n : longer[i] = log[i]
  OBVIOUS
<1> HIDE DEF longer, n
<1>2. EventsOf(longer, e) = EventsOf(log, e)
  <2>1. \A i : i \in EventsOf(longer, e) <=> i \in EventsOf(log, e)
    BY <1>1 DEF EventsOf
  <2> QED BY <2>1
<1>3. ASSUME EventsOf(log, e) = {} PROVE CurrentIn(longer, e) = CurrentIn(log, e)
  BY <1>2, <1>3 DEF CurrentIn
<1>4. ASSUME EventsOf(log, e) # {} PROVE CurrentIn(longer, e) = CurrentIn(log, e)
  <2>1. \A i \in EventsOf(log, e) : longer[i] = log[i]
    BY <1>1 DEF EventsOf
  <2>2. PICK k \in EventsOf(log, e) : CurrentIn(log, e) = log[k] /\ IsNewest(log, e, k)
    BY <1>4, CurrentEvent
  <2>3. IsNewest(longer, e, k)
    BY <1>2, <2>1, <2>2 DEF IsNewest
  <2>4. CurrentIn(longer, e) = longer[k]
    BY <1>1, <1>2, <2>3, NewestCounts
  <2> QED BY <2>1, <2>2, <2>4
<1>5. EventsOf(longer, e) = EventsOf(log, e) /\ CurrentIn(longer, e) = CurrentIn(log, e)
  BY <1>2, <1>3, <1>4
<1> QED BY <1>5 DEF longer

\* An event of this one that is as new as any counts from then on.
LEMMA OwnEvent ==
  ASSUME NEW log \in Seq(Events), NEW event \in Events,
         \A i \in EventsOf(log, event.edit) : log[i].updated_at <= event.updated_at
  PROVE  CurrentIn(Append(log, event), event.edit) = event
<1> DEFINE longer == Append(log, event)
           n == Len(log)
<1>1. /\ longer \in Seq(Events) /\ DOMAIN longer = 1 .. n + 1 /\ DOMAIN log = 1 .. n
      /\ n \in Nat /\ longer[n + 1] = event /\ \A i \in 1 .. n : longer[i] = log[i]
  OBVIOUS
<1>2. \A any \in Events : any.updated_at \in Nat
  BY DEF Events
<1>3. \A i \in 1 .. n : log[i] \in Events
  BY <1>1
<1> HIDE DEF longer, n
<1>4. n + 1 \in EventsOf(longer, event.edit)
  BY <1>1 DEF EventsOf
<1>5. ASSUME NEW j \in EventsOf(longer, event.edit) \ {n + 1}
      PROVE  \/ longer[j].updated_at < longer[n + 1].updated_at
             \/ longer[j].updated_at = longer[n + 1].updated_at /\ j < n + 1
  <2>1. j \in 1 .. n /\ longer[j] = log[j] /\ j \in EventsOf(log, event.edit)
    BY <1>1 DEF EventsOf
  <2>2. log[j].updated_at <= event.updated_at /\ log[j].updated_at \in Nat
        /\ event.updated_at \in Nat /\ j < n + 1
    BY <2>1, <1>1, <1>2, <1>3
  <2> QED BY <2>1, <2>2, <1>1
<1>6. IsNewest(longer, event.edit, n + 1)
  BY <1>5 DEF IsNewest
<1>7. CurrentIn(longer, event.edit) = longer[n + 1]
  BY <1>1, <1>4, <1>6, NewestCounts
<1> QED BY <1>7, <1>1 DEF longer

(***************************************************************************)
(* The invariant.                                                          *)
(***************************************************************************)

States == {"idle", "annotate", "apply", "decide", "compact", "fill"}
Jobs == {<<>>} \cup Entries \cup Events \cup Seq(Entries)

\* Job j is one of a process in state s.
Fits(s, j) ==
    /\ s = "idle" => j = <<>>
    /\ s = "annotate" => j \in Entries
    /\ s \in {"apply", "decide"} => j \in Events /\ j.status \in Decision
    /\ s = "apply" => j.status = "approved"
    /\ s \in {"compact", "fill"} => j \in Seq(Entries)

\* The types of the variables.
Shape ==
    /\ patches \in Seq(Entries) /\ proposals \in Seq(Events)
    /\ clock \in 0..MaxTime
    /\ pc \in [Proc -> States] /\ job \in [Proc -> Jobs]
    /\ \A p \in Proc : Fits(pc[p], job[p])
    /\ directs \in 0..MaxDirect /\ compacts \in 0..MaxCompact /\ crashes \in 0..MaxCrash
    /\ intent \in [Field -> Value \cup {None}]
    /\ applied \in SUBSET Edit
    /\ disturbed \in BOOLEAN

\* While nothing is disturbed one process is at work at most.
Alone == ~disturbed => \A p, q \in Proc : pc[p] # "idle" /\ pc[q] # "idle" => p = q

\* Job j is about no time after t.
InTime(s, j, t) ==
    /\ s = "annotate" => j.stamp <= t
    /\ s \in {"apply", "decide"} => j.updated_at <= t
    /\ s \in {"compact", "fill"} => \A i \in DOMAIN j : j[i].stamp <= t

\* No time is in the future.
Timely ==
    /\ \A i \in DOMAIN patches : patches[i].stamp <= clock
    /\ \A i \in DOMAIN proposals : proposals[i].updated_at <= clock
    /\ \A p \in Proc : InTime(pc[p], job[p], clock)

\* The log of patches, and what is about to be added to it or put in its place,
\* while nothing is disturbed.
Kept == ~disturbed =>
    /\ Ordered(patches)
    /\ EditsKept
    /\ \A p \in Proc :
          /\ pc[p] = "annotate" => \A i \in DOMAIN patches : patches[i].stamp <= job[p].stamp
          /\ pc[p] = "apply" => \A i \in DOMAIN patches : patches[i].stamp <= job[p].updated_at
          /\ pc[p] \in {"compact", "fill"} => Ordered(job[p]) /\ Annotation(job[p]) = intent

\* Approvals come after their patches, disturbed or not.
PatchFirst ==
    /\ \A i \in DOMAIN proposals : proposals[i].status = "approved" => proposals[i].edit \in applied
    /\ \A p \in Proc : pc[p] = "decide" /\ job[p].status = "approved" => job[p].edit \in applied

\* A decision under way is about a proposal that is still pending, and what was
\* applied is approved or about to be, while nothing is disturbed.
Settled == ~disturbed =>
    /\ \A p \in Proc : pc[p] \in {"apply", "decide"} =>
          /\ CurrentIn(proposals, job[p].edit).status = Pending
          /\ \A i \in EventsOf(proposals, job[p].edit) : proposals[i].updated_at <= job[p].updated_at
    /\ \A e \in applied :
          \/ CurrentIn(proposals, e).status = "approved"
          \/ \E p \in Proc : pc[p] = "decide" /\ job[p].edit = e /\ job[p].status = "approved"

IInv == Shape /\ Alone /\ Timely /\ Kept /\ PatchFirst /\ Settled

\* The empty log and the empty job.
LEMMA Empties == /\ <<>> \in Seq(Entries) /\ <<>> \in Seq(Events) /\ <<>> \in Jobs
                 /\ DOMAIN <<>> = {}
BY DEF Jobs

\* Initially.
LEMMA InitHolds == Init => IInv
<1> SUFFICES ASSUME Init PROVE IInv
  OBVIOUS
<1> USE Bounds, Empties DEF Init
<1>1. Shape
  <2>1. pc \in [Proc -> States] /\ job \in [Proc -> Jobs] /\ clock \in 0..MaxTime
    BY DEF States
  <2>2. \A p \in Proc : Fits(pc[p], job[p])
    BY DEF Fits
  <2>3. intent \in [Field -> Value \cup {None}] /\ applied \in SUBSET Edit /\ disturbed \in BOOLEAN
    OBVIOUS
  <2>4. patches \in Seq(Entries) /\ proposals \in Seq(Events)
    OBVIOUS
  <2>5. directs \in 0..MaxDirect /\ compacts \in 0..MaxCompact /\ crashes \in 0..MaxCrash
    OBVIOUS
  <2> QED BY <2>1, <2>2, <2>3, <2>4, <2>5, Zenon DEF Shape
<1>2. Alone /\ Timely /\ PatchFirst /\ Settled
  BY DEF Alone, Timely, InTime, PatchFirst, Settled
<1>3. Kept
  <2>1. Ordered(patches)
    BY DEF Ordered
  <2>2. \A f \in Field : Touching(patches, f) = {}
    BY DEF Touching
  <2>3. \A f \in Field : Annotation(patches)[f] = None
    BY <2>2, ReadNone
  <2>4. Annotation(patches) = intent
    BY <2>3 DEF Annotation
  <2> QED BY <2>1, <2>4 DEF Kept, EditsKept
<1> QED BY <1>1, <1>2, <1>3 DEF IInv

\* A patch appended: the log, what it comes to, and what was intended.
LEMMA PatchAppended ==
  ASSUME Shape, NEW stamp \in 0..MaxTime, NEW patch \in Patches, AppendPatch(stamp, patch)
  PROVE  /\ patches' \in Seq(Entries)
         /\ intent' \in [Field -> Value \cup {None}]
         /\ \A t \in Nat : stamp <= t /\ (\A i \in DOMAIN patches : patches[i].stamp <= t)
                => \A i \in DOMAIN patches' : patches'[i].stamp <= t
         /\ Ordered(patches) /\ (\A i \in DOMAIN patches : patches[i].stamp <= stamp)
                => Ordered(patches')
         /\ Annotation(patches) = intent => Annotation(patches') = intent'
<1> DEFINE entry == [stamp |-> stamp, patch |-> patch]
           n == Len(patches)
<1>1. entry \in Entries /\ patches \in Seq(Entries) /\ intent \in [Field -> Value \cup {None}]
  BY DEF Entries, Shape
<1>2. /\ patches' = Append(patches, entry) /\ patches' \in Seq(Entries)
      /\ DOMAIN patches' = 1 .. n + 1 /\ DOMAIN patches = 1 .. n /\ n \in Nat
      /\ patches'[n + 1] = entry /\ \A i \in 1 .. n : patches'[i] = patches[i]
  BY <1>1 DEF AppendPatch
<1>3. intent' \in [Field -> Value \cup {None}]
  <2>1. \A f \in DOMAIN patch : patch[f] \in Value \cup {None}
    BY <1>1, PatchValues
  <2> QED BY <1>1, <2>1 DEF AppendPatch, apply_to
<1>4. ASSUME Ordered(patches), \A i \in DOMAIN patches : patches[i].stamp <= stamp
      PROVE  Ordered(patches')
  <2> SUFFICES ASSUME NEW i \in DOMAIN patches', NEW j \in DOMAIN patches', i < j
               PROVE  patches'[i].stamp <= patches'[j].stamp
    BY DEF Ordered
  <2>1. CASE j = n + 1
    BY <2>1, <1>2, <1>4
  <2>2. CASE j # n + 1
    BY <2>2, <1>2, <1>4 DEF Ordered
  <2> QED BY <2>1, <2>2
<1>5. Annotation(patches') = apply_to(patch, Annotation(patches))
  BY <1>1, <1>2, ReadAppended
<1>6. ASSUME NEW t \in Nat, stamp <= t, \A i \in DOMAIN patches : patches[i].stamp <= t
      PROVE  \A i \in DOMAIN patches' : patches'[i].stamp <= t
  BY <1>2, <1>6
<1> QED BY <1>2, <1>3, <1>4, <1>5, <1>6 DEF AppendPatch

\* An event appended: of its own proposal it is the one that counts if it is as
\* new as any, and of all others nothing changes.
LEMMA EventAppended ==
  ASSUME Shape, NEW event \in Events, proposals' = Append(proposals, event)
  PROVE  /\ proposals' \in Seq(Events)
         /\ DOMAIN proposals' = DOMAIN proposals \cup {Len(proposals) + 1}
         /\ proposals'[Len(proposals) + 1] = event
         /\ \A i \in DOMAIN proposals : proposals'[i] = proposals[i]
         /\ \A e : e # event.edit => /\ CurrentIn(proposals', e) = CurrentIn(proposals, e)
                                     /\ EventsOf(proposals', e) = EventsOf(proposals, e)
         /\ (\A i \in EventsOf(proposals, event.edit) : proposals[i].updated_at <= event.updated_at)
                => CurrentIn(proposals', event.edit) = event
<1>1. proposals \in Seq(Events)
  BY DEF Shape
<1>2. \A e : e # event.edit => /\ CurrentIn(proposals', e) = CurrentIn(proposals, e)
                               /\ EventsOf(proposals', e) = EventsOf(proposals, e)
  BY <1>1, OtherEvent
<1>3. (\A i \in EventsOf(proposals, event.edit) : proposals[i].updated_at <= event.updated_at)
         => CurrentIn(proposals', event.edit) = event
  BY <1>1, OwnEvent
<1>4. /\ proposals' \in Seq(Events)
      /\ DOMAIN proposals' = DOMAIN proposals \cup {Len(proposals) + 1}
      /\ proposals'[Len(proposals) + 1] = event
      /\ \A i \in DOMAIN proposals : proposals'[i] = proposals[i]
  BY <1>1
<1> QED BY <1>2, <1>3, <1>4

\* A process goes on to state s with job j; the others stay.
LEMMA Moves ==
  ASSUME Shape, NEW p \in Proc, NEW s \in States, NEW j \in Jobs, Fits(s, j),
         pc' = [pc EXCEPT ![p] = s], job' = [job EXCEPT ![p] = j]
  PROVE  /\ pc' \in [Proc -> States] /\ job' \in [Proc -> Jobs]
         /\ \A q \in Proc : Fits(pc'[q], job'[q])
         /\ pc'[p] = s /\ job'[p] = j
         /\ \A q \in Proc \ {p} : pc'[q] = pc[q] /\ job'[q] = job[q]
<1>1. /\ pc' \in [Proc -> States] /\ job' \in [Proc -> Jobs]
      /\ pc'[p] = s /\ job'[p] = j
      /\ \A q \in Proc \ {p} : pc'[q] = pc[q] /\ job'[q] = job[q]
  BY DEF Shape
<1>2. ASSUME NEW q \in Proc PROVE Fits(pc'[q], job'[q])
  <2>1. CASE q = p
    BY <1>1, <2>1
  <2>2. CASE q # p
    BY <1>1, <2>2 DEF Shape
  <2> QED BY <2>1, <2>2
<1> QED BY <1>1, <1>2

\* So does one that ends.
LEMMA Ends ==
  ASSUME Shape, NEW p \in Proc, End(p)
  PROVE  /\ pc' \in [Proc -> States] /\ job' \in [Proc -> Jobs]
         /\ \A q \in Proc : Fits(pc'[q], job'[q])
         /\ pc'[p] = "idle" /\ job'[p] = <<>>
         /\ \A q \in Proc \ {p} : pc'[q] = pc[q] /\ job'[q] = job[q]
<1>1. "idle" \in States /\ <<>> \in Jobs /\ Fits("idle", <<>>)
  BY DEF States, Jobs, Fits
<1> QED BY <1>1, Moves DEF End

\* The times in a log are numbers.
LEMMA Times ==
  /\ \A log \in Seq(Entries) : \A i \in DOMAIN log : log[i] \in Entries /\ log[i].stamp \in Nat
  /\ \A log \in Seq(Events) : \A i \in DOMAIN log : log[i] \in Events /\ log[i].updated_at \in Nat
<1>1. \A any \in Entries : any.stamp \in Nat
  BY DEF Entries
<1>2. \A any \in Events : any.updated_at \in Nat
  BY DEF Events
<1> QED BY <1>1, <1>2

\* Time passes.
LEMMA TickKeeps ==
  ASSUME IInv, Tick
  PROVE  IInv'
<1> USE DEF Tick
<1>1. clock \in Nat /\ clock' = clock + 1 /\ clock' \in 0..MaxTime
  BY Bounds DEF IInv, Shape
<1>2. Shape'
  BY <1>1 DEF IInv, Shape
<1>3. (Alone /\ PatchFirst)'
  BY DEF IInv, Alone, PatchFirst
<1>4. Timely'
  <2>1. /\ \A i \in DOMAIN patches : patches[i].stamp \in Nat
        /\ \A i \in DOMAIN proposals : proposals[i].updated_at \in Nat
    BY Times DEF IInv, Shape
  <2>2. ASSUME NEW p \in Proc PROVE InTime(pc[p], job[p], clock')
    <3>1. Fits(pc[p], job[p]) /\ InTime(pc[p], job[p], clock)
      BY DEF IInv, Shape, Timely
    <3>2. CASE pc[p] = "annotate"
      BY <1>1, <3>1, <3>2 DEF Fits, InTime, Entries
    <3>3. CASE pc[p] \in {"apply", "decide"}
      BY <1>1, <3>1, <3>3 DEF Fits, InTime, Events
    <3>4. CASE pc[p] \in {"compact", "fill"}
      <4>1. \A i \in DOMAIN job[p] : job[p][i].stamp \in Nat
        BY <3>1, <3>4, Times DEF Fits
      <4> QED BY <1>1, <3>1, <3>4, <4>1 DEF InTime
    <3> QED BY <3>2, <3>3, <3>4 DEF InTime
  <2> QED BY <1>1, <2>1, <2>2 DEF IInv, Timely
<1>5. Kept'
  BY DEF IInv, Kept, EditsKept
<1>6. Settled'
  <2>1. \A e : CurrentIn(proposals', e) = CurrentIn(proposals, e)
    BY DEF Current
  <2> QED BY <2>1 DEF IInv, Settled
<1> QED BY <1>2, <1>3, <1>4, <1>5, <1>6 DEF IInv

\* A process that begins is alone, if nothing is disturbed.
LEMMA BeginsAlone ==
  ASSUME IInv, NEW p \in Proc, Begin(p)
  PROVE  /\ pc[p] = "idle" /\ disturbed' \in BOOLEAN
         /\ ~disturbed' => ~disturbed /\ \A q \in Proc : pc[q] = "idle"
BY DEF IInv, Shape, Begin

\* An annotation is stamped.
LEMMA set_annotationKeeps ==
  ASSUME IInv, NEW p \in Proc, NEW patch \in Patch, set_transaction_annotation(p, patch)
  PROVE  IInv'
<1> DEFINE j == [stamp |-> clock, patch |-> patch]
<1> USE DEF set_transaction_annotation
<1>1. j \in Entries /\ clock \in Nat /\ j.stamp = clock
  BY TransactionEditsAssumption DEF IInv, Shape, Entries, Patches
<1>2. Fits("annotate", j) /\ "annotate" \in States /\ j \in Jobs /\ InTime("annotate", j, clock)
  BY <1>1 DEF Fits, States, Jobs, InTime
<1>3. /\ pc' \in [Proc -> States] /\ job' \in [Proc -> Jobs]
      /\ \A q \in Proc : Fits(pc'[q], job'[q])
      /\ pc'[p] = "annotate" /\ job'[p] = j
      /\ \A q \in Proc \ {p} : pc'[q] = pc[q] /\ job'[q] = job[q]
  BY <1>2, Moves DEF IInv
<1> HIDE DEF j
<1>4. /\ pc[p] = "idle" /\ disturbed' \in BOOLEAN
      /\ ~disturbed' => ~disturbed /\ \A q \in Proc : pc[q] = "idle"
  BY BeginsAlone
<1>5. Shape'
  BY <1>3, <1>4, Bounds DEF IInv, Shape
<1>6. Alone'
  BY <1>3, <1>4 DEF Alone
<1>7. Timely'
  BY <1>2, <1>3 DEF IInv, Timely
<1>8. Kept'
  <2>1. pc[p] # "fill"
    BY <1>4
  <2>2. EditsKept => EditsKept'
    BY <1>3, <1>4 DEF EditsKept
  <2> QED BY <1>1, <1>3, <1>4, <2>2 DEF IInv, Kept, Timely
<1>9. PatchFirst'
  BY <1>3 DEF IInv, PatchFirst
<1>10. Settled'
  BY <1>3, <1>4 DEF IInv, Settled
<1> QED BY <1>5, <1>6, <1>7, <1>8, <1>9, <1>10 DEF IInv

\* It is appended.
LEMMA AppendAnnotationKeeps ==
  ASSUME IInv, NEW p \in Proc, AppendAnnotation(p)
  PROVE  IInv'
<1> USE DEF AppendAnnotation
<1>1. pc[p] = "annotate" /\ job[p] \in Entries /\ job[p].stamp <= clock /\ clock \in Nat
  BY DEF IInv, Shape, Fits, Timely, InTime
<1>2. job[p].stamp \in 0..MaxTime /\ job[p].stamp \in Nat /\ job[p].patch \in Patches
  BY <1>1 DEF Entries
<1>3. /\ pc' \in [Proc -> States] /\ job' \in [Proc -> Jobs]
      /\ \A q \in Proc : Fits(pc'[q], job'[q])
      /\ pc'[p] = "idle" /\ job'[p] = <<>>
      /\ \A q \in Proc \ {p} : pc'[q] = pc[q] /\ job'[q] = job[q]
  BY Ends DEF IInv
<1>4. /\ patches' \in Seq(Entries)
      /\ intent' \in [Field -> Value \cup {None}]
      /\ (\A i \in DOMAIN patches : patches[i].stamp <= clock)
             => \A i \in DOMAIN patches' : patches'[i].stamp <= clock
      /\ Ordered(patches) /\ (\A i \in DOMAIN patches : patches[i].stamp <= job[p].stamp)
             => Ordered(patches')
      /\ Annotation(patches) = intent => Annotation(patches') = intent'
  BY <1>1, <1>2, PatchAppended DEF IInv
<1>5. Shape'
  BY <1>3, <1>4 DEF IInv, Shape
<1>6. Alone'
  BY <1>3 DEF IInv, Alone
<1>7. Timely'
  BY <1>3, <1>4 DEF IInv, Timely, InTime
<1>8. Kept'
  <2> SUFFICES ASSUME ~disturbed
               PROVE  Kept'
    BY DEF Kept
  <2>1. \A q \in Proc : pc'[q] = "idle"
    BY <1>1, <1>3 DEF IInv, Alone
  <2>2. \A q \in Proc : pc[q] # "fill"
    BY <1>1, <1>3, <2>1
  <2>3. Annotation(patches') = intent'
    BY <1>4, <2>2 DEF IInv, Kept, EditsKept
  <2>4. Ordered(patches')
    BY <1>1, <1>4 DEF IInv, Kept
  <2> QED BY <2>1, <2>3, <2>4 DEF Kept, EditsKept
<1>9. PatchFirst'
  BY <1>3 DEF IInv, PatchFirst
<1>10. Settled'
  BY <1>1, <1>3 DEF IInv, Settled
<1> QED BY <1>5, <1>6, <1>7, <1>8, <1>9, <1>10 DEF IInv

\* The log is read and folded.
LEMMA recompactKeeps ==
  ASSUME IInv, NEW p \in Proc, recompact_all_jsonl(p)
  PROVE  IInv'
<1> DEFINE j == compact_transaction_annotation_patches(patches)
<1> USE DEF recompact_all_jsonl
<1>1. /\ pc[p] = "idle" /\ disturbed' \in BOOLEAN
      /\ ~disturbed' => ~disturbed /\ \A q \in Proc : pc[q] = "idle"
  BY BeginsAlone
<1>2. /\ j \in Seq(Entries)
      /\ \A i \in DOMAIN j : j[i].stamp <= clock
      /\ Ordered(patches) => Ordered(j) /\ Annotation(j) = Annotation(patches)
  BY Recompacted, FoldsAsRead DEF IInv, Shape, Timely
<1> HIDE DEF j
<1>3. Fits("compact", j) /\ "compact" \in States /\ j \in Jobs /\ InTime("compact", j, clock)
  BY <1>2 DEF Fits, States, Jobs, InTime
<1>4. /\ pc' \in [Proc -> States] /\ job' \in [Proc -> Jobs]
      /\ \A q \in Proc : Fits(pc'[q], job'[q])
      /\ pc'[p] = "compact" /\ job'[p] = j
      /\ \A q \in Proc \ {p} : pc'[q] = pc[q] /\ job'[q] = job[q]
  BY <1>3, Moves DEF IInv, j
<1>5. Shape'
  BY <1>1, <1>4, Bounds DEF IInv, Shape
<1>6. Alone'
  BY <1>1, <1>4 DEF Alone
<1>7. Timely'
  BY <1>3, <1>4 DEF IInv, Timely
<1>8. Kept'
  <2> SUFFICES ASSUME ~disturbed'
               PROVE  Kept'
    BY DEF Kept
  <2>1. Ordered(patches) /\ Annotation(patches) = intent
    BY <1>1 DEF IInv, Kept, EditsKept
  <2>2. \A q \in Proc \ {p} : pc'[q] = "idle"
    BY <1>1, <1>4
  <2> QED BY <1>2, <1>4, <2>1, <2>2 DEF Kept, EditsKept
<1>9. PatchFirst'
  BY <1>4 DEF IInv, PatchFirst
<1>10. Settled'
  BY <1>1, <1>4 DEF IInv, Settled
<1> QED BY <1>5, <1>6, <1>7, <1>8, <1>9, <1>10 DEF IInv

\* It is truncated.
LEMMA TruncateKeeps ==
  ASSUME IInv, NEW p \in Proc, Truncate(p)
  PROVE  IInv'
<1> USE DEF Truncate
<1>1. pc[p] = "compact" /\ Fits(pc[p], job[p]) /\ job[p] \in Jobs /\ job = [job EXCEPT ![p] = job[p]]
  BY DEF IInv, Shape
<1>2. Fits("fill", job[p]) /\ "fill" \in States
  BY <1>1 DEF Fits, States
<1>3. /\ pc' \in [Proc -> States] /\ job' \in [Proc -> Jobs]
      /\ \A q \in Proc : Fits(pc'[q], job'[q])
      /\ pc'[p] = "fill" /\ job'[p] = job[p]
      /\ \A q \in Proc \ {p} : pc'[q] = pc[q] /\ job'[q] = job[q]
  BY <1>1, <1>2, Moves DEF IInv
<1>4. Shape'
  BY <1>3, Empties DEF IInv, Shape
<1>5. Alone'
  BY <1>1, <1>3 DEF IInv, Alone
<1>6. Timely'
  BY <1>1, <1>3, Empties DEF IInv, Timely, InTime
<1>7. Kept'
  <2>1. Ordered(patches') /\ DOMAIN patches' = {}
    BY Empties DEF Ordered
  <2> QED BY <1>1, <1>3, <2>1 DEF IInv, Kept, EditsKept
<1>8. PatchFirst'
  BY <1>3 DEF IInv, PatchFirst
<1>9. Settled'
  BY <1>1, <1>3 DEF IInv, Settled
<1> QED BY <1>4, <1>5, <1>6, <1>7, <1>8, <1>9 DEF IInv

\* What was folded takes its place.
LEMMA FillKeeps ==
  ASSUME IInv, NEW p \in Proc, Fill(p)
  PROVE  IInv'
<1> USE DEF Fill
<1>1. pc[p] = "fill" /\ job[p] \in Seq(Entries) /\ \A i \in DOMAIN job[p] : job[p][i].stamp <= clock
  BY DEF IInv, Shape, Fits, Timely, InTime
<1>2. /\ pc' \in [Proc -> States] /\ job' \in [Proc -> Jobs]
      /\ \A q \in Proc : Fits(pc'[q], job'[q])
      /\ pc'[p] = "idle" /\ job'[p] = <<>>
      /\ \A q \in Proc \ {p} : pc'[q] = pc[q] /\ job'[q] = job[q]
  BY Ends DEF IInv
<1>3. Shape'
  BY <1>1, <1>2 DEF IInv, Shape
<1>4. Alone'
  BY <1>2 DEF IInv, Alone
<1>5. Timely'
  BY <1>1, <1>2 DEF IInv, Timely, InTime
<1>6. Kept'
  <2> SUFFICES ASSUME ~disturbed
               PROVE  Kept'
    BY DEF Kept
  <2>1. \A q \in Proc : pc'[q] = "idle"
    BY <1>1, <1>2 DEF IInv, Alone
  <2>2. Ordered(patches') /\ Annotation(patches') = intent'
    BY <1>1 DEF IInv, Kept
  <2> QED BY <2>1, <2>2 DEF Kept, EditsKept
<1>7. PatchFirst'
  BY <1>2 DEF IInv, PatchFirst
<1>8. Settled'
  BY <1>1, <1>2 DEF IInv, Settled
<1> QED BY <1>3, <1>4, <1>5, <1>6, <1>7, <1>8 DEF IInv

\* An edit is proposed.
LEMMA proposeKeeps ==
  ASSUME IInv, NEW p \in Proc, NEW e \in Edit, propose_transaction_edit(p, e)
  PROVE  IInv'
<1> DEFINE event == [edit |-> e, status |-> Pending, updated_at |-> clock]
<1> USE DEF propose_transaction_edit
<1>1. event \in Events /\ event.edit = e /\ event.status # "approved" /\ event.updated_at = clock
  BY DEF IInv, Shape, Events, Pending
<1> HIDE DEF event
<1>2. /\ proposals' \in Seq(Events)
      /\ DOMAIN proposals' = DOMAIN proposals \cup {Len(proposals) + 1}
      /\ proposals'[Len(proposals) + 1] = event
      /\ \A i \in DOMAIN proposals : proposals'[i] = proposals[i]
      /\ \A k : k # e => CurrentIn(proposals', k) = CurrentIn(proposals, k) /\ EventsOf(proposals', k) = EventsOf(proposals, k)
  BY <1>1, EventAppended DEF IInv, event
<1>3. Shape'
  BY <1>2 DEF IInv, Shape
<1>4. Alone'
  BY DEF IInv, Alone
<1>5. Timely'
  <2>1. clock \in Nat
    BY Bounds DEF IInv, Shape
  <2> QED BY <1>1, <1>2, <2>1 DEF IInv, Timely
<1>6. Kept'
  BY DEF IInv, Kept, EditsKept
<1>7. PatchFirst'
  BY <1>1, <1>2 DEF IInv, PatchFirst
<1>8. Settled'
  <2> SUFFICES ASSUME ~disturbed
               PROVE  Settled'
    BY DEF Settled
  <2>1. CurrentIn(proposals, e).status = "none"
    BY CurrentIsIn DEF NoEvent
  <2>2. \A q \in Proc : pc[q] \in {"apply", "decide"} => job[q].edit # e
    BY <2>1 DEF IInv, Settled, Pending
  <2>3. e \notin applied
    BY <2>1, <2>2 DEF IInv, Settled
  <2>4. ASSUME NEW q \in Proc, pc[q] \in {"apply", "decide"}
        PROVE  /\ CurrentIn(proposals', job[q].edit).status = Pending
               /\ \A i \in EventsOf(proposals', job[q].edit) : proposals'[i].updated_at <= job[q].updated_at
    <3>1. /\ CurrentIn(proposals', job[q].edit) = CurrentIn(proposals, job[q].edit)
          /\ EventsOf(proposals', job[q].edit) = EventsOf(proposals, job[q].edit)
      BY <1>2, <2>2, <2>4
    <3>2. \A i \in EventsOf(proposals, job[q].edit) : proposals'[i] = proposals[i]
      BY <1>2 DEF EventsOf
    <3> QED BY <2>4, <3>1, <3>2 DEF IInv, Settled
  <2>5. ASSUME NEW k \in applied
        PROVE  \/ CurrentIn(proposals', k).status = "approved"
               \/ \E q \in Proc : pc[q] = "decide" /\ job[q].edit = k /\ job[q].status = "approved"
    BY <1>2, <2>3 DEF IInv, Settled
  <2>6. pc' = pc /\ job' = job /\ applied' = applied
    OBVIOUS
  <2>7. \A q \in Proc : pc'[q] \in {"apply", "decide"} =>
          /\ CurrentIn(proposals', job'[q].edit).status = Pending
          /\ \A i \in EventsOf(proposals', job'[q].edit) : proposals'[i].updated_at <= job'[q].updated_at
    BY <2>4, <2>6
  <2>8. \A k \in applied' :
          \/ CurrentIn(proposals', k).status = "approved"
          \/ \E q \in Proc : pc'[q] = "decide" /\ job'[q].edit = k /\ job'[q].status = "approved"
    BY <2>5, <2>6
  <2> QED BY <2>7, <2>8 DEF Settled
<1> QED BY <1>3, <1>4, <1>5, <1>6, <1>7, <1>8 DEF IInv

\* A pending one is about to be decided.
LEMMA decideKeeps ==
  ASSUME IInv, NEW p \in Proc, NEW e \in Edit, NEW decision \in Decision,
         decide_proposed_transaction_edit(p, e, decision)
  PROVE  IInv'
<1> DEFINE j == [edit |-> e, status |-> decision, updated_at |-> clock]
           s == IF decision = "approved" THEN "apply" ELSE "decide"
<1> USE DEF decide_proposed_transaction_edit
<1>1. /\ pc[p] = "idle" /\ disturbed' \in BOOLEAN
      /\ ~disturbed' => ~disturbed /\ \A q \in Proc : pc[q] = "idle"
  BY BeginsAlone
<1>2. j \in Events /\ j.edit = e /\ j.status = decision /\ j.updated_at = clock /\ clock \in Nat
  BY Bounds DEF IInv, Shape, Events
<1>3. Fits(s, j) /\ s \in States /\ j \in Jobs /\ InTime(s, j, clock)
  BY <1>2 DEF Fits, States, Jobs, InTime
<1>4. /\ pc' \in [Proc -> States] /\ job' \in [Proc -> Jobs]
      /\ \A q \in Proc : Fits(pc'[q], job'[q])
      /\ pc'[p] = s /\ job'[p] = j
      /\ \A q \in Proc \ {p} : pc'[q] = pc[q] /\ job'[q] = job[q]
  BY <1>3, Moves DEF IInv
<1>5. s = "apply" \/ (s = "decide" /\ j.status # "approved")
  BY <1>2
<1> HIDE DEF j, s
<1>6. Shape'
  BY <1>1, <1>4 DEF IInv, Shape
<1>7. Alone'
  BY <1>1, <1>4 DEF Alone
<1>8. Timely'
  BY <1>3, <1>4 DEF IInv, Timely
<1>9. Kept'
  <2> SUFFICES ASSUME ~disturbed'
               PROVE  Kept'
    BY DEF Kept
  <2>1. Ordered(patches) /\ Annotation(patches) = intent
    BY <1>1 DEF IInv, Kept, EditsKept
  <2>2. \A q \in Proc \ {p} : pc'[q] = "idle"
    BY <1>1, <1>4
  <2> QED BY <1>2, <1>4, <1>5, <2>1, <2>2 DEF IInv, Timely, Kept, EditsKept
<1>10. PatchFirst'
  BY <1>4, <1>5 DEF IInv, PatchFirst
<1>11. Settled'
  <2> SUFFICES ASSUME ~disturbed'
               PROVE  Settled'
    BY DEF Settled
  <2>1. \A q \in Proc \ {p} : pc'[q] = "idle"
    BY <1>1, <1>4
  <2>2. \A k \in applied : CurrentIn(proposals, k).status = "approved"
    BY <1>1 DEF IInv, Settled
  <2>3. \A i \in EventsOf(proposals, e) : proposals[i].updated_at <= clock
    BY DEF IInv, Timely, EventsOf
  <2>4. CurrentIn(proposals, e).status = Pending
    BY CurrentIsIn
  <2>5. UNCHANGED <<proposals, applied>>
    OBVIOUS
  <2> QED BY <1>2, <1>4, <2>1, <2>2, <2>3, <2>4, <2>5 DEF Settled
<1> QED BY <1>6, <1>7, <1>8, <1>9, <1>10, <1>11 DEF IInv

\* It is approved: the patch is appended first.
LEMMA ApplyPatchKeeps ==
  ASSUME IInv, NEW p \in Proc, ApplyPatch(p)
  PROVE  IInv'
<1> USE DEF ApplyPatch
<1>1. /\ pc[p] = "apply" /\ Fits(pc[p], job[p]) /\ job[p] \in Events /\ job[p].status = "approved"
      /\ job[p].updated_at <= clock /\ clock \in Nat /\ job[p] \in Jobs
      /\ job = [job EXCEPT ![p] = job[p]]
  BY Bounds DEF IInv, Shape, Fits, Timely, InTime
<1>2. /\ job[p].updated_at \in 0..MaxTime /\ job[p].updated_at \in Nat /\ job[p].edit \in Edit
      /\ PatchOf[job[p].edit] \in Patches
  BY <1>1, TransactionEditsAssumption DEF Events, Patches
<1>3. Fits("decide", job[p]) /\ "decide" \in States
  BY <1>1 DEF Fits, States
<1>4. /\ pc' \in [Proc -> States] /\ job' \in [Proc -> Jobs]
      /\ \A q \in Proc : Fits(pc'[q], job'[q])
      /\ pc'[p] = "decide" /\ job'[p] = job[p]
      /\ \A q \in Proc \ {p} : pc'[q] = pc[q] /\ job'[q] = job[q]
  BY <1>1, <1>3, Moves DEF IInv
<1>5. /\ patches' \in Seq(Entries)
      /\ intent' \in [Field -> Value \cup {None}]
      /\ (\A i \in DOMAIN patches : patches[i].stamp <= clock)
             => \A i \in DOMAIN patches' : patches'[i].stamp <= clock
      /\ Ordered(patches) /\ (\A i \in DOMAIN patches : patches[i].stamp <= job[p].updated_at)
             => Ordered(patches')
      /\ Annotation(patches) = intent => Annotation(patches') = intent'
  BY <1>1, <1>2, PatchAppended DEF IInv
<1>6. Shape'
  BY <1>2, <1>4, <1>5 DEF IInv, Shape
<1>7. Alone'
  BY <1>1, <1>4 DEF IInv, Alone
<1>8. Timely'
  BY <1>1, <1>4, <1>5 DEF IInv, Timely, InTime
<1>9. Kept'
  <2> SUFFICES ASSUME ~disturbed
               PROVE  Kept'
    BY DEF Kept
  <2>1. \A q \in Proc \ {p} : pc[q] = "idle" /\ pc'[q] = "idle"
    BY <1>1, <1>4 DEF IInv, Alone
  <2>2. \A q \in Proc : pc[q] # "fill"
    BY <1>1, <2>1
  <2>3. Annotation(patches') = intent'
    BY <1>5, <2>2 DEF IInv, Kept, EditsKept
  <2>4. Ordered(patches')
    BY <1>1, <1>5 DEF IInv, Kept
  <2> QED BY <1>4, <2>1, <2>3, <2>4 DEF Kept, EditsKept
<1>10. PatchFirst'
  BY <1>1, <1>4 DEF IInv, PatchFirst
<1>11. Settled'
  BY <1>1, <1>4 DEF IInv, Settled
<1> QED BY <1>6, <1>7, <1>8, <1>9, <1>10, <1>11 DEF IInv

\* The decision is appended.
LEMMA AppendDecisionKeeps ==
  ASSUME IInv, NEW p \in Proc, AppendDecision(p)
  PROVE  IInv'
<1> DEFINE e == job[p].edit
<1> USE DEF AppendDecision
<1>1. /\ pc[p] = "decide" /\ job[p] \in Events /\ job[p].status \in Decision
      /\ job[p].updated_at <= clock
      /\ job[p].status = "approved" => e \in applied
  BY DEF IInv, Shape, Fits, Timely, InTime, PatchFirst
<1>2. /\ pc' \in [Proc -> States] /\ job' \in [Proc -> Jobs]
      /\ \A q \in Proc : Fits(pc'[q], job'[q])
      /\ pc'[p] = "idle" /\ job'[p] = <<>>
      /\ \A q \in Proc \ {p} : pc'[q] = pc[q] /\ job'[q] = job[q]
  BY Ends DEF IInv
<1>3. /\ proposals' \in Seq(Events)
      /\ DOMAIN proposals' = DOMAIN proposals \cup {Len(proposals) + 1}
      /\ proposals'[Len(proposals) + 1] = job[p]
      /\ \A i \in DOMAIN proposals : proposals'[i] = proposals[i]
      /\ \A k : k # e => CurrentIn(proposals', k) = CurrentIn(proposals, k)
      /\ (\A i \in EventsOf(proposals, e) : proposals[i].updated_at <= job[p].updated_at)
             => CurrentIn(proposals', e) = job[p]
  BY <1>1, EventAppended DEF IInv
<1>4. Shape'
  BY <1>2, <1>3 DEF IInv, Shape
<1>5. Alone'
  BY <1>2 DEF IInv, Alone
<1>6. Timely'
  BY <1>1, <1>2, <1>3 DEF IInv, Timely, InTime
<1>7. Kept'
  <2> SUFFICES ASSUME ~disturbed
               PROVE  Kept'
    BY DEF Kept
  <2>1. \A q \in Proc : pc'[q] = "idle"
    BY <1>1, <1>2 DEF IInv, Alone
  <2>2. \A q \in Proc : pc[q] # "fill"
    BY <1>1, <1>2, <2>1
  <2> QED BY <2>1, <2>2 DEF IInv, Kept, EditsKept
<1>8. PatchFirst'
  BY <1>1, <1>2, <1>3 DEF IInv, PatchFirst
<1>9. Settled'
  <2> SUFFICES ASSUME ~disturbed
               PROVE  Settled'
    BY DEF Settled
  <2>1. \A q \in Proc : pc'[q] = "idle"
    BY <1>1, <1>2 DEF IInv, Alone
  <2>2. \A q \in Proc \ {p} : pc[q] = "idle"
    BY <1>2, <2>1
  <2>3. CurrentIn(proposals', e) = job[p] /\ CurrentIn(proposals, e).status = Pending
    BY <1>1, <1>3 DEF IInv, Settled
  <2>4. ASSUME NEW k \in applied
        PROVE  CurrentIn(proposals', k).status = "approved"
    <3>1. CASE k = e
      <4>1. job[p].status = "approved"
        BY <2>2, <2>3, <3>1 DEF IInv, Settled, Pending
      <4> QED BY <2>3, <3>1, <4>1
    <3>2. CASE k # e
      BY <1>3, <2>2, <3>2 DEF IInv, Settled
    <3> QED BY <3>1, <3>2
  <2>5. applied' = applied
    OBVIOUS
  <2> QED BY <2>1, <2>4, <2>5 DEF Settled
<1> QED BY <1>4, <1>5, <1>6, <1>7, <1>8, <1>9 DEF IInv

\* An operation is cut short.
LEMMA CrashKeeps ==
  ASSUME IInv, NEW p \in Proc, Crash(p)
  PROVE  IInv'
<1> USE DEF Crash
<1>1. /\ pc' \in [Proc -> States] /\ job' \in [Proc -> Jobs]
      /\ \A q \in Proc : Fits(pc'[q], job'[q])
      /\ pc'[p] = "idle" /\ job'[p] = <<>>
      /\ \A q \in Proc \ {p} : pc'[q] = pc[q] /\ job'[q] = job[q]
  BY Ends DEF IInv
<1>2. /\ disturbed' \in BOOLEAN
      /\ ~disturbed' => /\ ~disturbed /\ pc[p] # "fill"
                        /\ ~(pc[p] = "decide" /\ job[p].status = "approved")
  BY DEF IInv, Shape
<1>3. Shape'
  BY <1>1, <1>2, Bounds DEF IInv, Shape
<1>4. Alone'
  BY <1>1, <1>2 DEF IInv, Alone
<1>5. Timely'
  BY <1>1 DEF IInv, Timely, InTime
<1>6. Kept'
  <2> SUFFICES ASSUME ~disturbed'
               PROVE  Kept'
    BY DEF Kept
  <2>1. \A q \in Proc : pc'[q] = "idle"
    BY <1>1, <1>2 DEF IInv, Alone
  <2>2. \A q \in Proc : pc[q] # "fill"
    BY <1>1, <1>2, <2>1
  <2> QED BY <1>2, <2>1, <2>2 DEF IInv, Kept, EditsKept
<1>7. PatchFirst'
  BY <1>1 DEF IInv, PatchFirst
<1>8. Settled'
  BY <1>1, <1>2 DEF IInv, Settled
<1> QED BY <1>3, <1>4, <1>5, <1>6, <1>7, <1>8 DEF IInv

\* Every step keeps the invariant.
LEMMA StepKeeps == IInv /\ [Next]_vars => IInv'
<1> SUFFICES ASSUME IInv, [Next]_vars PROVE IInv'
  OBVIOUS
<1>1. CASE UNCHANGED vars
  <2>1. UNCHANGED <<patches, proposals, clock, pc, job, directs, compacts, crashes, intent, applied, disturbed>>
    BY <1>1 DEF vars
  <2>2. Settled'
    BY <2>1 DEF IInv, Settled
  <2> QED BY <2>1, <2>2 DEF IInv, Shape, Alone, Timely, Kept, EditsKept, PatchFirst
<1>2. CASE Tick
  BY <1>2, TickKeeps
<1>3. ASSUME NEW p \in Proc, Step(p) PROVE IInv'
  BY <1>3, set_annotationKeeps, AppendAnnotationKeeps, recompactKeeps, TruncateKeeps, FillKeeps,
     proposeKeeps, decideKeeps, ApplyPatchKeeps, AppendDecisionKeeps DEF Step
<1>4. ASSUME NEW p \in Proc, Crash(p) PROVE IInv'
  BY <1>4, CrashKeeps
<1> QED BY <1>1, <1>2, <1>3, <1>4 DEF Next

\* The invariant holds.
LEMMA Invariant == Spec => []IInv
BY InitHolds, StepKeeps, PTL DEF Spec

(***************************************************************************)
(* What the invariant is for.                                              *)
(***************************************************************************)

\* The two logs and what the processes hold are of their types.
THEOREM EditTypes == Spec => []TypeOK
<1>1. IInv => TypeOK
  <2> SUFFICES ASSUME IInv PROVE TypeOK
    OBVIOUS
  <2>1. Shape
    BY DEF IInv
  <2>2. /\ \A i \in DOMAIN patches : patches[i] \in Entries
        /\ \A i \in DOMAIN proposals : proposals[i] \in Events
    BY <2>1, Times DEF Shape
  <2>3. ASSUME NEW p \in Proc
        PROVE  \/ pc[p] = "idle" /\ job[p] = <<>>
               \/ pc[p] = "annotate" /\ job[p] \in Entries
               \/ pc[p] \in {"apply", "decide"} /\ job[p] \in Events
               \/ pc[p] \in {"compact", "fill"} /\ \A i \in DOMAIN job[p] : job[p][i] \in Entries
    <3>1. pc[p] \in States /\ Fits(pc[p], job[p])
      BY <2>1 DEF Shape
    <3> QED BY <3>1, Times DEF States, Fits
  <2> QED BY <2>1, <2>2, <2>3 DEF Shape, TypeOK
<1> QED BY <1>1, Invariant, PTL

\* No edit is lost or put out of its order, whatever is recompacted, for any number of
\* processes that work one after the other, wherever but while rewriting the log one
\* of them is cut short.
THEOREM EditsAreKept == Spec => []EditsKeptUndisturbed
<1>1. IInv => EditsKeptUndisturbed
  BY DEF IInv, Kept, EditsKeptUndisturbed
<1> QED BY <1>1, Invariant, PTL

\* An approved proposal has been applied, however many decide at once and are cut
\* short; and only approved ones have, where no two operations overlap and no approval
\* is cut short behind its patch.
THEOREM ApprovalsAreApplied == Spec => []AppliedAsDecided
<1>1. IInv => AppliedAsDecided
  <2> SUFFICES ASSUME IInv PROVE AppliedAsDecided
    OBVIOUS
  <2>1. ASSUME NEW e \in Edit, Current(e).status = "approved" PROVE e \in applied
    <3>1. Current(e) = CurrentIn(proposals, e) /\ proposals \in Seq(Events)
      BY CurrentIsIn DEF IInv, Shape
    <3>2. EventsOf(proposals, e) # {}
      BY <2>1, <3>1, CurrentStatus
    <3>3. PICK k \in EventsOf(proposals, e) : CurrentIn(proposals, e) = proposals[k]
      BY <3>1, <3>2, CurrentEvent
    <3>4. k \in DOMAIN proposals /\ proposals[k].edit = e
      BY DEF EventsOf
    <3> QED BY <2>1, <3>1, <3>3, <3>4 DEF IInv, PatchFirst
  <2>2. OnlyApprovedApplied
    BY CurrentIsIn DEF IInv, Settled, OnlyApprovedApplied
  <2> QED BY <2>1, <2>2 DEF AppliedAsDecided, ApprovedIsApplied
<1> QED BY <1>1, Invariant, PTL

\* A decision is final while no two operations overlap.
THEOREM DecisionsAreFinal == Spec => DecidedOnceUndisturbed
<1> DEFINE Final == ~disturbed => \A e \in Edit : Current(e).status \in Decision
                        => Current(e)'.status = Current(e).status
<1>1. ASSUME IInv, [Next]_vars PROVE Final
  <2>1. ASSUME ~disturbed, NEW e \in Edit, CurrentIn(proposals, e).status \in Decision
        PROVE  CurrentIn(proposals', e) = CurrentIn(proposals, e)
    <3>1. ASSUME NEW p \in Proc, NEW k \in Edit, propose_transaction_edit(p, k)
          PROVE  CurrentIn(proposals', e) = CurrentIn(proposals, e)
      <4>1. e # k
        BY <2>1, <3>1, CurrentIsIn DEF propose_transaction_edit, NoEvent, Decision
      <4> DEFINE event == [edit |-> k, status |-> Pending, updated_at |-> clock]
      <4>2. event \in Events /\ event.edit = k /\ proposals' = Append(proposals, event)
        BY <1>1, <3>1 DEF IInv, Shape, Events, Pending, propose_transaction_edit
      <4> HIDE DEF event
      <4> QED BY <1>1, <4>1, <4>2, EventAppended DEF IInv
    <3>2. ASSUME NEW p \in Proc, AppendDecision(p)
          PROVE  CurrentIn(proposals', e) = CurrentIn(proposals, e)
      <4>1. /\ pc[p] = "decide" /\ job[p] \in Events /\ proposals' = Append(proposals, job[p])
        BY <1>1, <3>2 DEF IInv, Shape, Fits, AppendDecision
      <4>2. e # job[p].edit
        BY <1>1, <2>1, <4>1 DEF IInv, Settled, Pending, Decision
      <4> QED BY <1>1, <4>1, <4>2, EventAppended DEF IInv
    <3>3. CASE UNCHANGED proposals
      BY <3>3
    <3>4. \/ UNCHANGED proposals
          \/ \E p \in Proc : \/ AppendDecision(p)
                             \/ \E k \in Edit : propose_transaction_edit(p, k)
      BY <1>1 DEF Next, Step, vars, Tick, Crash, set_transaction_annotation,
         AppendAnnotation, recompact_all_jsonl, Truncate, Fill, ApplyPatch,
         decide_proposed_transaction_edit
    <3> QED BY <3>1, <3>2, <3>3, <3>4
  <2> QED BY <2>1, CurrentIsIn
<1>2. IInv /\ [Next]_vars => [Final]_vars
  BY <1>1
<1> QED BY <1>2, Invariant, PTL DEF Spec, DecidedOnceUndisturbed

(***************************************************************************)
(* Terminal: rows in an order.                                             *)
(***************************************************************************)
StrictOrder(R, T) ==
    /\ \A k \in T : <<k, k>> \notin R
    /\ \A k, l, m \in T : <<k, l>> \in R /\ <<l, m>> \in R => <<k, m>> \in R
    /\ \A k, l \in T : k = l \/ <<k, l>> \in R \/ <<l, k>> \in R
LastIn(R, T, m) == m \in T /\ \A k \in T : k = m \/ <<k, m>> \in R
InOrderOf(R, T, s) ==
    /\ s \in [1 .. Cardinality(T) -> T]
    /\ \A i, j \in 1 .. Cardinality(T) : i < j => <<s[i], s[j]>> \in R

\* A part of what is ordered is.
LEMMA PartOrdered ==
  ASSUME NEW R, NEW T, NEW P, P \subseteq T, StrictOrder(R, T)
  PROVE  StrictOrder(R, P)
BY DEF StrictOrder

\* Of finitely many things in an order there is a last.
LEMMA OrderHasLast ==
  ASSUME NEW R, NEW T, IsFiniteSet(T), StrictOrder(R, T), T # {}
  PROVE  \E m : LastIn(R, T, m)
<1> DEFINE Bad == {n \in Nat : \E P \in SUBSET T :
                      P # {} /\ Cardinality(P) = n /\ \A m : ~LastIn(R, P, m)}
<1>1. ASSUME Bad # {} PROVE FALSE
  <2>1. PICK n \in Bad : \A k \in Bad : n <= k
    BY <1>1, Least
  <2>2. PICK P \in SUBSET T : P # {} /\ Cardinality(P) = n /\ \A m : ~LastIn(R, P, m)
    BY <2>1
  <2>3. PICK y \in P : TRUE
    BY <2>2
  <2>4. IsFiniteSet(P)
    BY FS_Subset
  <2>5. /\ IsFiniteSet(P \ {y}) /\ Cardinality(P \ {y}) = n - 1
    BY <2>2, <2>3, <2>4, FS_RemoveElement
  <2>6. n - 1 \in Nat
    BY <2>5, FS_CardinalityType
  <2>7. \E m : LastIn(R, P \ {y}, m) \/ P \ {y} = {}
    <3>1. n - 1 \notin Bad
      BY <2>1, <2>6
    <3> QED BY <2>5, <2>6, <3>1
  <2>8. CASE P \ {y} = {}
    <3>1. LastIn(R, P, y)
      BY <2>3, <2>8 DEF LastIn
    <3> QED BY <2>2, <3>1
  <2>9. CASE \E m : LastIn(R, P \ {y}, m)
    <3>1. PICK m : LastIn(R, P \ {y}, m)
      BY <2>9
    <3>2. m \in P /\ y \in P /\ P \subseteq T
      BY <2>3, <3>1 DEF LastIn
    <3>3. CASE <<m, y>> \in R
      <4>1. ASSUME NEW k \in P PROVE k = y \/ <<k, y>> \in R
        BY <3>1, <3>2, <3>3 DEF LastIn, StrictOrder
      <4>2. LastIn(R, P, y)
        BY <3>2, <4>1 DEF LastIn
      <4> QED BY <2>2, <4>2
    <3>4. CASE <<m, y>> \notin R
      <4>1. m # y /\ <<y, m>> \in R
        BY <3>1, <3>2, <3>4 DEF LastIn, StrictOrder
      <4>2. LastIn(R, P, m)
        BY <3>1, <3>2, <4>1 DEF LastIn
      <4> QED BY <2>2, <4>2
    <3> QED BY <3>3, <3>4
  <2> QED BY <2>7, <2>8, <2>9
<1>2. Cardinality(T) \in Nat
  BY FS_CardinalityType
<1> QED BY <1>1, <1>2

\* Finitely many things can be put in their order.
LEMMA OrderExists ==
  ASSUME NEW R, NEW T, IsFiniteSet(T), StrictOrder(R, T)
  PROVE  \E s : InOrderOf(R, T, s)
<1> DEFINE Bad == {n \in Nat : \E P \in SUBSET T : Cardinality(P) = n /\ \A s : ~InOrderOf(R, P, s)}
<1>1. ASSUME Bad # {} PROVE FALSE
  <2>1. PICK n \in Bad : \A k \in Bad : n <= k
    BY <1>1, Least
  <2>2. PICK P \in SUBSET T : Cardinality(P) = n /\ \A s : ~InOrderOf(R, P, s)
    BY <2>1
  <2>3. IsFiniteSet(P) /\ StrictOrder(R, P)
    BY FS_Subset, PartOrdered
  <2>4. CASE P = {}
    <3>1. n = 0
      BY <2>2, <2>4, FS_EmptySet
    <3>2. InOrderOf(R, P, <<>>)
      BY <2>2, <3>1 DEF InOrderOf
    <3> QED BY <2>2, <3>2
  <2>5. CASE P # {}
    <3>1. PICK y : LastIn(R, P, y)
      BY <2>3, <2>5, OrderHasLast
    <3>2. y \in P /\ \A k \in P \ {y} : <<k, y>> \in R
      BY <3>1 DEF LastIn
    <3>3. IsFiniteSet(P \ {y}) /\ Cardinality(P \ {y}) = n - 1
      BY <2>2, <2>3, <3>2, FS_RemoveElement
    <3>4. n - 1 \in Nat /\ n \in Nat
      BY <3>3, FS_CardinalityType
    <3>5. n - 1 \notin Bad
      BY <2>1, <3>4
    <3>6. PICK s : InOrderOf(R, P \ {y}, s)
      BY <3>3, <3>4, <3>5
    <3>7. s \in [1 .. n - 1 -> P \ {y}] /\ \A i, j \in 1 .. n - 1 : i < j => <<s[i], s[j]>> \in R
      BY <3>3, <3>6 DEF InOrderOf
    <3> DEFINE t == [i \in 1 .. n |-> IF i = n THEN y ELSE s[i]]
    <3>8. \A i \in 1 .. n : i = n \/ i \in 1 .. n - 1
      BY <3>4
    <3>9. t \in [1 .. n -> P]
      BY <3>2, <3>7, <3>8
    <3>10. ASSUME NEW i \in 1 .. n, NEW j \in 1 .. n, i < j PROVE <<t[i], t[j]>> \in R
      <4>1. i \in 1 .. n - 1 /\ t[i] = s[i] /\ s[i] \in P \ {y}
        BY <3>4, <3>7, <3>10
      <4>2. CASE j = n
        BY <3>2, <4>1, <4>2
      <4>3. CASE j # n
        <5>1. j \in 1 .. n - 1 /\ t[j] = s[j]
          BY <3>8, <4>3
        <5> QED BY <3>7, <3>10, <4>1, <5>1
      <4> QED BY <4>2, <4>3
    <3>11. InOrderOf(R, P, t)
      BY <2>2, <3>9, <3>10 DEF InOrderOf
    <3> QED BY <2>2, <3>11
  <2> QED BY <2>4, <2>5
<1>2. Cardinality(T) \in Nat
  BY FS_CardinalityType
<1> QED BY <1>1, <1>2

\* An order has all the things in it.
LEMMA OrderHasAll ==
  ASSUME NEW R, NEW T, IsFiniteSet(T), StrictOrder(R, T), NEW s, InOrderOf(R, T, s)
  PROVE  s \in Seq(T) /\ Range(s) = T
<1> DEFINE n == Cardinality(T)
<1>1. n \in Nat /\ s \in [1 .. n -> T]
  BY FS_CardinalityType DEF InOrderOf
<1>2. IsFiniteSet(1 .. n) /\ Cardinality(1 .. n) = n
  BY <1>1, FS_Interval
<1>3. ASSUME NEW i \in 1 .. n, NEW j \in 1 .. n, s[i] = s[j] PROVE i = j
  <2>1. s[i] \in T
    BY <1>1
  <2>2. ~(i < j) /\ ~(j < i)
    BY <1>3, <2>1 DEF InOrderOf, StrictOrder
  <2> QED BY <1>1, <2>2
<1>4. s \in Injection(1 .. n, T)
  BY <1>1, <1>3 DEF Injection, IsInjective
<1>5. s \in Surjection(1 .. n, T)
  BY <1>2, <1>4, FS_Injection
<1>6. \A k \in T : \E i \in 1 .. n : s[i] = k
  BY <1>5 DEF Surjection
<1> QED BY <1>1, <1>6 DEF Range

(***************************************************************************)
(* Terminal: sums over sets, which are defined by taking one thing after   *)
(* another.                                                                *)
(***************************************************************************)
One(s) == CHOOSE x \in s : TRUE
SumsOf(v, T, g) ==
    g = [s \in SUBSET T |-> IF s = {} THEN 0 ELSE v[One(s)] + g[s \ {One(s)}]]

\* One of some things is one of them.
LEMMA OneIsIn ==
  ASSUME NEW s, s # {}
  PROVE  One(s) \in s
BY DEF One

\* Finite sets have sums.
LEMMA SumsExist ==
  ASSUME NEW T, IsFiniteSet(T), NEW v
  PROVE  \E g : SumsOf(v, T, g)
<1> DEFINE Small(n) == {s \in SUBSET T : Cardinality(s) <= n}
<1> DEFINE Sums(n, g) == g = [s \in Small(n) |-> IF s = {} THEN 0 ELSE v[One(s)] + g[s \ {One(s)}]]
<1> DEFINE Bad == {n \in Nat : \A g : ~Sums(n, g)}
<1>1. \A s \in SUBSET T : IsFiniteSet(s) /\ Cardinality(s) \in Nat /\ Cardinality(s) <= Cardinality(T)
  BY FS_Subset, FS_CardinalityType
<1>2. \A s \in SUBSET T : s # {} => /\ s \ {One(s)} \in SUBSET T
                                    /\ Cardinality(s \ {One(s)}) = Cardinality(s) - 1
  BY <1>1, OneIsIn, FS_RemoveElement
<1>3. ASSUME Bad # {} PROVE FALSE
  <2>1. PICK n \in Bad : \A k \in Bad : n <= k
    BY <1>3, Least
  <2>2. CASE n = 0
    <3>1. ASSUME NEW s \in Small(0) PROVE s = {}
      BY <1>1, FS_EmptySet
    <3> DEFINE g == [s \in Small(0) |-> 0]
    <3>2. Sums(0, g)
      BY <3>1
    <3> QED BY <2>1, <2>2, <3>2
  <2>3. CASE n # 0
    <3>1. n - 1 \in Nat /\ n - 1 \notin Bad
      <4>1. n \in Nat
        BY <2>1
      <4>2. n - 1 \in Nat /\ ~(n <= n - 1)
        BY <2>3, <4>1
      <4> HIDE DEF Bad
      <4> QED BY <2>1, <4>2
    <3>2. PICK g : Sums(n - 1, g)
      BY <3>1
    <3> DEFINE h == [s \in Small(n) |-> IF s = {} THEN 0 ELSE v[One(s)] + g[s \ {One(s)}]]
    <3>3. ASSUME NEW s \in Small(n - 1) PROVE h[s] = g[s]
      <4>1. s \in Small(n)
        BY <1>1, <3>1
      <4>2. h[s] = IF s = {} THEN 0 ELSE v[One(s)] + g[s \ {One(s)}]
        BY <4>1
      <4>3. g[s] = IF s = {} THEN 0 ELSE v[One(s)] + g[s \ {One(s)}]
        BY <3>2
      <4> QED BY <4>2, <4>3
    <3>4. ASSUME NEW s \in Small(n), s # {} PROVE h[s \ {One(s)}] = g[s \ {One(s)}]
      <4>1. s \ {One(s)} \in Small(n - 1)
        BY <1>1, <1>2, <3>1, <3>4
      <4> HIDE DEF h
      <4> QED BY <3>3, <4>1
    <3>5. h = [s \in Small(n) |-> IF s = {} THEN 0 ELSE v[One(s)] + h[s \ {One(s)}]]
      <4>1. \A s \in Small(n) : (IF s = {} THEN 0 ELSE v[One(s)] + g[s \ {One(s)}])
                                = (IF s = {} THEN 0 ELSE v[One(s)] + h[s \ {One(s)}])
        <5> HIDE DEF h, Small
        <5> QED BY <3>4
      <4>2. h = [s \in Small(n) |-> IF s = {} THEN 0 ELSE v[One(s)] + g[s \ {One(s)}]]
        OBVIOUS
      <4> HIDE DEF h, Small
      <4> QED BY <4>1, <4>2
    <3>6. Sums(n, h)
      <4> HIDE DEF h, Small
      <4> QED BY <3>5
    <3> HIDE DEF h, Sums
    <3> QED BY <2>1, <3>6
  <2> QED BY <2>2, <2>3
<1>4. Cardinality(T) \in Nat
  BY FS_CardinalityType
<1>5. PICK g : Sums(Cardinality(T), g)
  <2> HIDE DEF Sums
  <2> QED BY <1>3, <1>4
<1>6. Small(Cardinality(T)) = SUBSET T
  BY <1>1
<1>7. SumsOf(v, T, g)
  BY <1>5, <1>6 DEF SumsOf
<1> QED BY <1>7

\* What is turned around in sign adds up to what is.
LEMMA SumsNegated ==
  ASSUME NEW T, IsFiniteSet(T), NEW v \in [T -> Int], NEW w \in [T -> Int], \A x \in T : w[x] = -v[x],
         NEW g, SumsOf(v, T, g), NEW h, SumsOf(w, T, h)
  PROVE  h[T] = -g[T]
<1> DEFINE Bad == {n \in Nat : \E s \in SUBSET T : Cardinality(s) = n /\ ~(g[s] \in Int /\ h[s] = -g[s])}
<1>1. ASSUME Bad # {} PROVE FALSE
  <2>1. PICK n \in Bad : \A k \in Bad : n <= k
    BY <1>1, Least
  <2>2. PICK s \in SUBSET T : Cardinality(s) = n /\ ~(g[s] \in Int /\ h[s] = -g[s])
    BY <2>1
  <2>3. /\ g[s] = (IF s = {} THEN 0 ELSE v[One(s)] + g[s \ {One(s)}])
        /\ h[s] = (IF s = {} THEN 0 ELSE w[One(s)] + h[s \ {One(s)}])
    BY DEF SumsOf
  <2>4. s # {}
    BY <2>2, <2>3
  <2>5. One(s) \in s
    BY <2>4, OneIsIn
  <2>6. IsFiniteSet(s)
    BY FS_Subset
  <2>7. IsFiniteSet(s \ {One(s)}) /\ Cardinality(s \ {One(s)}) = n - 1
    BY <2>2, <2>5, <2>6, FS_RemoveElement
  <2>8. n - 1 \in Nat /\ n \in Nat
    BY <2>7, FS_CardinalityType
  <2>9. n - 1 \notin Bad
    BY <2>1, <2>8
  <2>10. g[s \ {One(s)}] \in Int /\ h[s \ {One(s)}] = -g[s \ {One(s)}]
    BY <2>7, <2>8, <2>9
  <2>11. v[One(s)] \in Int /\ w[One(s)] = -v[One(s)]
    BY <2>5
  <2> QED BY <2>2, <2>3, <2>4, <2>10, <2>11
<1>2. Cardinality(T) \in Nat
  BY FS_CardinalityType
<1> QED BY <1>1, <1>2

\* The amounts of some transactions, and what was spent in them.
LEMMA AmountsAddUp ==
  ASSUME NEW T \in SUBSET Txn
  PROVE  MapThenSumSet(LAMBDA t : -Facts[t].amount, T) = -MapThenSumSet(LAMBDA t : Facts[t].amount, T)
<1>1. IsFiniteSet(T) /\ \A t \in T : Facts[t].amount \in Int
  BY TerminalAssumption, FS_Subset
<1> DEFINE v == [t \in T |-> Facts[t].amount]
<1> DEFINE w == [t \in T |-> -Facts[t].amount]
<1> DEFINE Adds(f) == f = [s \in SUBSET T |-> IF s = {} THEN 0
                            ELSE Facts[One(s)].amount + f[s \ {One(s)}]]
<1> DEFINE Spends(f) == f = [s \in SUBSET T |-> IF s = {} THEN 0
                              ELSE -Facts[One(s)].amount + f[s \ {One(s)}]]
<1>2. \A s \in SUBSET T : s # {} => v[One(s)] = Facts[One(s)].amount /\ w[One(s)] = -Facts[One(s)].amount
  BY OneIsIn
<1>3. ASSUME NEW f PROVE Adds(f) <=> SumsOf(v, T, f)
  <2>1. \A s \in SUBSET T : (IF s = {} THEN 0 ELSE Facts[One(s)].amount + f[s \ {One(s)}])
                            = (IF s = {} THEN 0 ELSE v[One(s)] + f[s \ {One(s)}])
    BY <1>2
  <2>2. [s \in SUBSET T |-> IF s = {} THEN 0 ELSE Facts[One(s)].amount + f[s \ {One(s)}]]
        = [s \in SUBSET T |-> IF s = {} THEN 0 ELSE v[One(s)] + f[s \ {One(s)}]]
    <3> HIDE DEF v
    <3> QED BY <2>1
  <2> HIDE DEF v
  <2> QED BY <2>2 DEF SumsOf
<1>4. ASSUME NEW f PROVE Spends(f) <=> SumsOf(w, T, f)
  <2>1. \A s \in SUBSET T : (IF s = {} THEN 0 ELSE -Facts[One(s)].amount + f[s \ {One(s)}])
                            = (IF s = {} THEN 0 ELSE w[One(s)] + f[s \ {One(s)}])
    BY <1>2
  <2>2. [s \in SUBSET T |-> IF s = {} THEN 0 ELSE -Facts[One(s)].amount + f[s \ {One(s)}]]
        = [s \in SUBSET T |-> IF s = {} THEN 0 ELSE w[One(s)] + f[s \ {One(s)}]]
    <3> HIDE DEF w
    <3> QED BY <2>1
  <2> HIDE DEF w
  <2> QED BY <2>2 DEF SumsOf
<1> DEFINE added == CHOOSE f : Adds(f)
<1> DEFINE spent == CHOOSE f : Spends(f)
<1>5. SumsOf(v, T, added) /\ SumsOf(w, T, spent)
  <2>1. (\E f : SumsOf(v, T, f)) /\ (\E f : SumsOf(w, T, f))
    <3> HIDE DEF v, w
    <3> QED BY <1>1, SumsExist
  <2>2. (\E f : Adds(f)) /\ (\E f : Spends(f))
    <3> HIDE DEF Adds, Spends, v, w
    <3> QED BY <1>3, <1>4, <2>1
  <2>3. Adds(added) /\ Spends(spent)
    <3> HIDE DEF Adds, Spends
    <3> QED BY <2>2
  <2> HIDE DEF Adds, Spends, added, spent, v, w
  <2> QED BY <1>3, <1>4, <2>3
<1>6. spent[T] = -added[T]
  <2>1. v \in [T -> Int] /\ w \in [T -> Int] /\ \A x \in T : w[x] = -v[x]
    BY <1>1
  <2> HIDE DEF v, w, added, spent
  <2> QED BY <1>1, <1>5, <2>1, SumsNegated
<1>7. /\ MapThenSumSet(LAMBDA t : Facts[t].amount, T) = added[T]
      /\ MapThenSumSet(LAMBDA t : -Facts[t].amount, T) = spent[T]
  BY DEF MapThenSumSet, MapThenFoldSet, One
<1> HIDE DEF added, spent
<1> QED BY <1>6, <1>7

(***************************************************************************)
(* Terminal: what is shown.                                                *)
(***************************************************************************)
IsApp(a) ==
    a = [active_view |-> a.active_view, listed |-> a.listed, visible |-> a.visible, matcher |-> a.matcher,
         points |-> a.points, visible_points |-> a.visible_points, interval |-> a.interval,
         loaded |-> a.loaded, error |-> a.error, span |-> a.span, sort |-> a.sort,
         include_ignored |-> a.include_ignored, modal |-> a.modal]

Listed(a) ==
    /\ IsApp(a)
    /\ a.active_view \in TuiView /\ a.span \in Range(TimeSpan) /\ a.sort \in Range(SortMode)
    /\ a.interval \in Range(NetWorthInterval)
    /\ DOMAIN a.listed \subseteq Txn
    /\ \A t \in DOMAIN a.listed : a.listed[t] \in Category \cup {Nothing}
    /\ DOMAIN a.matcher \subseteq Nat
    /\ \A i \in DOMAIN a.matcher : a.matcher[i].category \in Category
Loaded(a) ==
    /\ Listed(a)
    /\ IsFiniteSet(a.points)
    /\ \A p \in a.points : \E d \in Int : p = [interval |-> a.interval, day |-> d]

RowsShown(a) ==
    /\ a.visible \in Seq(DOMAIN a.listed)
    /\ \A t \in DOMAIN a.listed : Inside(Facts[t].day, a.span) => t \in Range(a.visible)
PointsShown(a) ==
    /\ a.visible_points \in Seq(a.points)
    /\ \A p \in a.points : Inside(p.day, a.span) => p \in Range(a.visible_points)

\* What differs in at most the fields of one set.
SameBut(a, b, fields) ==
    /\ IsApp(b)
    /\ "active_view" \notin fields => b.active_view = a.active_view
    /\ "listed" \notin fields => b.listed = a.listed
    /\ "visible" \notin fields => b.visible = a.visible
    /\ "matcher" \notin fields => b.matcher = a.matcher
    /\ "points" \notin fields => b.points = a.points
    /\ "visible_points" \notin fields => b.visible_points = a.visible_points
    /\ "interval" \notin fields => b.interval = a.interval
    /\ "span" \notin fields => b.span = a.span
    /\ "sort" \notin fields => b.sort = a.sort
    /\ "include_ignored" \notin fields => b.include_ignored = a.include_ignored
    /\ "modal" \notin fields => b.modal = a.modal

\* One field is set.
LEMMA FieldSet ==
  ASSUME NEW a, IsApp(a), NEW v
  PROVE  /\ SameBut(a, [a EXCEPT !.active_view = v], {"active_view"}) /\ [a EXCEPT !.active_view = v].active_view = v
         /\ SameBut(a, [a EXCEPT !.span = v], {"span"}) /\ [a EXCEPT !.span = v].span = v
         /\ SameBut(a, [a EXCEPT !.sort = v], {"sort"}) /\ [a EXCEPT !.sort = v].sort = v
         /\ SameBut(a, [a EXCEPT !.interval = v], {"interval"}) /\ [a EXCEPT !.interval = v].interval = v
         /\ SameBut(a, [a EXCEPT !.include_ignored = v], {"include_ignored"})
         /\ SameBut(a, [a EXCEPT !.visible = v], {"visible"}) /\ [a EXCEPT !.visible = v].visible = v
         /\ SameBut(a, [a EXCEPT !.visible_points = v], {"visible_points"})
         /\ [a EXCEPT !.visible_points = v].visible_points = v
         /\ SameBut(a, [a EXCEPT !.points = v], {"points"}) /\ [a EXCEPT !.points = v].points = v
         /\ SameBut(a, [a EXCEPT !.listed = v], {"listed"}) /\ [a EXCEPT !.listed = v].listed = v
         /\ SameBut(a, [a EXCEPT !.matcher = v], {"matcher"}) /\ [a EXCEPT !.matcher = v].matcher = v
         /\ SameBut(a, [a EXCEPT !.loaded = v], {}) /\ SameBut(a, [a EXCEPT !.error = v], {})
         /\ SameBut(a, [a EXCEPT !.modal = v], {"modal"}) /\ [a EXCEPT !.modal = v].modal = v
BY DEF IsApp, SameBut

\* A row is before another by day and id, or by amount first.
LEMMA RowsOrdered ==
  ASSUME NEW T \in SUBSET Txn, NEW sort \in Range(SortMode)
  PROVE  StrictOrder({p \in T \X T : compare_transactions(p[1], p[2], sort)}, T)
<1> DEFINE R == {p \in T \X T : compare_transactions(p[1], p[2], sort)}
<1>1. \A k \in T : k \in Int /\ Facts[k].day \in Int /\ Facts[k].amount \in Int
  BY TerminalAssumption
<1>2. \A k, l \in T : <<k, l>> \in R <=> compare_transactions(k, l, sort)
  OBVIOUS
<1>3. sort \in {"date_desc", "date_asc", "amount_asc", "amount_desc"}
  BY DEF SortMode, Range
<1>4. /\ \A k \in T : ~compare_transactions(k, k, sort)
      /\ \A k, l, m \in T : compare_transactions(k, l, sort) /\ compare_transactions(l, m, sort)
                             => compare_transactions(k, m, sort)
      /\ \A k, l \in T : k = l \/ compare_transactions(k, l, sort) \/ compare_transactions(l, k, sort)
  <2>1. CASE sort = "date_desc"
    BY <1>1, <2>1 DEF compare_transactions, timestamp_order
  <2>2. CASE sort = "date_asc"
    BY <1>1, <2>2 DEF compare_transactions, timestamp_order
  <2>3. CASE sort = "amount_asc"
    BY <1>1, <2>3 DEF compare_transactions, timestamp_order, Cheaper
  <2>4. CASE sort = "amount_desc"
    BY <1>1, <2>4 DEF compare_transactions, timestamp_order, Cheaper
  <2> QED BY <1>3, <2>1, <2>2, <2>3, <2>4
<1> HIDE DEF R
<1>5. StrictOrder(R, T)
  BY <1>2, <1>4 DEF StrictOrder
<1> QED BY <1>5 DEF R

\* All rows of the span are made visible.
LEMMA RowsMadeVisible ==
  ASSUME NEW a, Listed(a), today \in Int
  PROVE  /\ SameBut(a, recompute_visible_transactions(a), {"visible"})
         /\ RowsShown(recompute_visible_transactions(a))
<1> DEFINE T == {t \in DOMAIN a.listed : Inside(Facts[t].day, a.span)}
<1> DEFINE R == {p \in T \X T : compare_transactions(p[1], p[2], a.sort)}
<1> DEFINE s == Sorted(T, LAMBDA l, r : compare_transactions(l, r, a.sort))
<1>1. T \in SUBSET Txn /\ IsFiniteSet(T) /\ a.sort \in Range(SortMode)
  BY TerminalAssumption, FS_Subset DEF Listed
<1>2. StrictOrder(R, T)
  <2> HIDE DEF T
  <2> QED BY <1>1, RowsOrdered
<1>3. \E q : InOrderOf(R, T, q)
  <2> HIDE DEF T, R
  <2> QED BY <1>1, <1>2, OrderExists
<1>4. InOrderOf(R, T, s)
  <2> HIDE DEF T
  <2>1. \E q \in [1 .. Cardinality(T) -> T] : \A i, j \in DOMAIN q : i < j => compare_transactions(q[i], q[j], a.sort)
    <3>1. PICK q : InOrderOf(R, T, q)
      BY <1>3
    <3>2. q \in [1 .. Cardinality(T) -> T]
      BY <3>1 DEF InOrderOf
    <3>3. \A i, j \in DOMAIN q : i < j => compare_transactions(q[i], q[j], a.sort)
      BY <3>1, <3>2 DEF InOrderOf
    <3> QED BY <3>2, <3>3
  <2>2. s \in [1 .. Cardinality(T) -> T] /\ \A i, j \in DOMAIN s : i < j => compare_transactions(s[i], s[j], a.sort)
    BY <2>1 DEF Sorted
  <2> HIDE DEF s
  <2> QED BY <2>2 DEF InOrderOf
<1>5. s \in Seq(T) /\ Range(s) = T
  <2> HIDE DEF T, R, s
  <2> QED BY <1>1, <1>2, <1>4, OrderHasAll
<1>6. recompute_visible_transactions(a) = [a EXCEPT !.visible = s]
  BY DEF recompute_visible_transactions
<1> DEFINE b == [a EXCEPT !.visible = s]
<1>7. SameBut(a, b, {"visible"}) /\ b.visible = s
  <2> HIDE DEF s
  <2> QED BY FieldSet DEF Listed
<1>8. b.listed = a.listed /\ b.span = a.span
  BY <1>7 DEF SameBut
<1>9. s \in Seq(DOMAIN a.listed)
  <2>1. T \subseteq DOMAIN a.listed
    OBVIOUS
  <2> HIDE DEF T, s
  <2> QED BY <1>5, <2>1
<1>10. RowsShown(b)
  <2> HIDE DEF b, s
  <2> QED BY <1>5, <1>7, <1>8, <1>9 DEF RowsShown
<1> HIDE DEF b, s
<1> QED BY <1>6, <1>7, <1>10 DEF b

\* All points of the span are made visible.
LEMMA PointsMadeVisible ==
  ASSUME NEW a, Loaded(a), today \in Int
  PROVE  /\ SameBut(a, recompute_visible_net_worth(a), {"visible_points"})
         /\ PointsShown(recompute_visible_net_worth(a))
<1> DEFINE T == {p \in a.points : Inside(p.day, a.span)}
<1> DEFINE R == {p \in T \X T : p[1].day > p[2].day}
<1> DEFINE s == Sorted(T, LAMBDA l, r : l.day > r.day)
<1>1. T \in SUBSET a.points /\ IsFiniteSet(T)
  BY FS_Subset DEF Loaded, Listed
<1>2. StrictOrder(R, T)
  <2>1. \A p \in T : \E d \in Int : p = [interval |-> a.interval, day |-> d]
    BY <1>1 DEF Loaded, Listed
  <2>2. \A p, q \in T : <<p, q>> \in R <=> p.day > q.day
    <3> HIDE DEF T
    <3> QED OBVIOUS
  <2>3. \A p \in T : p.day \in Int
    BY <2>1
  <2>4. \A p, q \in T : p.day = q.day => p = q
    BY <2>1
  <2> HIDE DEF T, R
  <2>5. \A p \in T : <<p, p>> \notin R
    BY <2>2, <2>3
  <2>6. \A k, l, m \in T : <<k, l>> \in R /\ <<l, m>> \in R => <<k, m>> \in R
    BY <2>2, <2>3
  <2>7. ASSUME NEW k \in T, NEW l \in T PROVE k = l \/ <<k, l>> \in R \/ <<l, k>> \in R
    <3>1. k.day = l.day \/ k.day > l.day \/ l.day > k.day
      <4>1. k.day \in Int /\ l.day \in Int
        BY <2>3
      <4> QED BY <4>1
    <3> QED BY <2>2, <2>4, <3>1
  <2> QED BY <2>5, <2>6, <2>7 DEF StrictOrder
<1>3. \E q : InOrderOf(R, T, q)
  <2> HIDE DEF T, R
  <2> QED BY <1>1, <1>2, OrderExists
<1>4. InOrderOf(R, T, s)
  <2> HIDE DEF T
  <2>1. \E q \in [1 .. Cardinality(T) -> T] : \A i, j \in DOMAIN q : i < j => q[i].day > q[j].day
    <3>1. PICK q : InOrderOf(R, T, q)
      BY <1>3
    <3>2. q \in [1 .. Cardinality(T) -> T]
      BY <3>1 DEF InOrderOf
    <3>3. \A i, j \in DOMAIN q : i < j => q[i].day > q[j].day
      BY <3>1, <3>2 DEF InOrderOf
    <3> QED BY <3>2, <3>3
  <2>2. s \in [1 .. Cardinality(T) -> T] /\ \A i, j \in DOMAIN s : i < j => s[i].day > s[j].day
    BY <2>1 DEF Sorted
  <2> HIDE DEF s
  <2> QED BY <2>2 DEF InOrderOf
<1>5. s \in Seq(T) /\ Range(s) = T
  <2> HIDE DEF T, R, s
  <2> QED BY <1>1, <1>2, <1>4, OrderHasAll
<1>6. recompute_visible_net_worth(a) = [a EXCEPT !.visible_points = s]
  BY DEF recompute_visible_net_worth
<1> DEFINE b == [a EXCEPT !.visible_points = s]
<1>7. SameBut(a, b, {"visible_points"}) /\ b.visible_points = s
  <2> HIDE DEF s
  <2> QED BY FieldSet DEF Loaded, Listed
<1>8. b.points = a.points /\ b.span = a.span
  BY <1>7 DEF SameBut
<1>9. s \in Seq(a.points)
  <2>1. T \subseteq a.points
    OBVIOUS
  <2> HIDE DEF T, s
  <2> QED BY <1>5, <2>1
<1>10. PointsShown(b)
  <2> HIDE DEF b, s
  <2> QED BY <1>5, <1>7, <1>8, <1>9 DEF PointsShown
<1> HIDE DEF b, s
<1> QED BY <1>6, <1>7, <1>10 DEF b

Shows(a) == Loaded(a) /\ RowsShown(a) /\ PointsShown(a)

\* What shows the same is as good.
LEMMA SameShows ==
  ASSUME NEW a, NEW b
  PROVE  /\ Listed(a) /\ SameBut(a, b, {"points", "visible_points", "modal"}) => Listed(b)
         /\ Listed(a) /\ SameBut(a, b, {"visible"}) => Listed(b)
         /\ Loaded(a) /\ SameBut(a, b, {"visible"}) => Loaded(b)
         /\ Loaded(a) /\ SameBut(a, b, {"visible_points"}) => Loaded(b)
         /\ RowsShown(a) /\ SameBut(a, b, {"points", "visible_points", "interval"}) => RowsShown(b)
         /\ PointsShown(a) /\ SameBut(a, b, {"visible"}) => PointsShown(b)
         /\ RowsShown(a) /\ SameBut(a, b, {"visible_points"}) => RowsShown(b)
         /\ Shows(a) /\ SameBut(a, b, {"modal"}) => Shows(b)
<1>1. /\ Listed(a) /\ SameBut(a, b, {"points", "visible_points", "modal"}) => Listed(b)
      /\ Listed(a) /\ SameBut(a, b, {"visible"}) => Listed(b)
      /\ Listed(a) /\ SameBut(a, b, {"visible_points"}) => Listed(b)
      /\ Listed(a) /\ SameBut(a, b, {"modal"}) => Listed(b)
  BY DEF Listed, SameBut
<1>2. /\ Loaded(a) /\ SameBut(a, b, {"visible"}) => Loaded(b)
      /\ Loaded(a) /\ SameBut(a, b, {"visible_points"}) => Loaded(b)
      /\ Loaded(a) /\ SameBut(a, b, {"modal"}) => Loaded(b)
  BY <1>1 DEF Loaded, SameBut
<1>3. /\ RowsShown(a) /\ SameBut(a, b, {"points", "visible_points", "interval"}) => RowsShown(b)
      /\ RowsShown(a) /\ SameBut(a, b, {"visible_points"}) => RowsShown(b)
      /\ RowsShown(a) /\ SameBut(a, b, {"modal"}) => RowsShown(b)
  BY DEF RowsShown, SameBut
<1>4. /\ PointsShown(a) /\ SameBut(a, b, {"visible"}) => PointsShown(b)
      /\ PointsShown(a) /\ SameBut(a, b, {"modal"}) => PointsShown(b)
  BY DEF PointsShown, SameBut
<1> QED BY <1>1, <1>2, <1>3, <1>4 DEF Shows

\* Rows are recomputed.
LEMMA RowsRecomputed ==
  ASSUME NEW a, Loaded(a), PointsShown(a), today \in Int
  PROVE  /\ Shows(recompute_visible_transactions(a))
         /\ SameBut(a, recompute_visible_transactions(a), {"visible"})
<1>1. Listed(a)
  BY DEF Loaded
<1>2. SameBut(a, recompute_visible_transactions(a), {"visible"}) /\ RowsShown(recompute_visible_transactions(a))
  BY <1>1, RowsMadeVisible
<1> QED BY <1>2, SameShows DEF Shows

\* Both are.
LEMMA BothRecomputed ==
  ASSUME NEW a, Loaded(a), today \in Int
  PROVE  /\ Shows(recompute_visible_net_worth(recompute_visible_transactions(a)))
         /\ SameBut(a, recompute_visible_net_worth(recompute_visible_transactions(a)), {"visible", "visible_points"})
<1>1. PICK b : b = recompute_visible_transactions(a)
  OBVIOUS
<1>2. PICK c : c = recompute_visible_net_worth(b)
  OBVIOUS
<1>3. Listed(a)
  BY DEF Loaded
<1>4. SameBut(a, b, {"visible"}) /\ RowsShown(b)
  BY <1>1, <1>3, RowsMadeVisible
<1>5. Loaded(b)
  BY <1>4, SameShows
<1>6. SameBut(b, c, {"visible_points"}) /\ PointsShown(c)
  BY <1>2, <1>5, PointsMadeVisible
<1>7. Loaded(c) /\ RowsShown(c)
  BY <1>4, <1>5, <1>6, SameShows
<1>8. SameBut(a, c, {"visible", "visible_points"})
  BY <1>4, <1>6 DEF SameBut
<1> QED BY <1>1, <1>2, <1>6, <1>7, <1>8 DEF Shows

\* The points are read again, or cannot be read.
LEMMA NetWorthRefreshed ==
  ASSUME NEW a, Listed(a), RowsShown(a), today \in Int, NEW c \in refresh_net_worth(a)
  PROVE  Shows(c) /\ SameBut(a, c, {"points", "visible_points"})
<1> DEFINE read == {[interval |-> a.interval, day |-> d] : d \in HistoryDays[a.interval]}
<1> DEFINE b == [a EXCEPT !.points = read, !.loaded = TRUE, !.error = FALSE]
<1> DEFINE e == [a EXCEPT !.points = {}, !.visible_points = <<>>, !.loaded = TRUE, !.error = TRUE]
<1>1. c = recompute_visible_net_worth(b) \/ c = e
  BY DEF refresh_net_worth
<1>2. IsApp(a) /\ a.interval \in Range(NetWorthInterval)
  BY DEF Listed
<1>3. SameBut(a, b, {"points"}) /\ b.points = read
  <2> HIDE DEF read
  <2>1. PICK c1 : c1 = [a EXCEPT !.points = read]
    OBVIOUS
  <2>2. PICK c2 : c2 = [c1 EXCEPT !.loaded = TRUE]
    OBVIOUS
  <2>3. PICK c3 : c3 = [c2 EXCEPT !.error = FALSE]
    OBVIOUS
  <2>4. SameBut(a, c1, {"points"}) /\ c1.points = read /\ IsApp(c1)
    BY <1>2, <2>1 DEF SameBut, IsApp
  <2>5. SameBut(c1, c2, {}) /\ IsApp(c2)
    BY <2>2, <2>4 DEF SameBut, IsApp
  <2>6. SameBut(c2, c3, {}) /\ IsApp(c3)
    BY <2>3, <2>5 DEF SameBut, IsApp
  <2>7. b = c3
    BY <2>1, <2>2, <2>3
  <2> HIDE DEF b
  <2> QED BY <2>4, <2>5, <2>6, <2>7 DEF SameBut
<1>4. SameBut(a, e, {"points", "visible_points"}) /\ e.points = {} /\ e.visible_points = <<>>
  <2>1. PICK c1 : c1 = [a EXCEPT !.points = {}]
    OBVIOUS
  <2>2. PICK c2 : c2 = [c1 EXCEPT !.visible_points = <<>>]
    OBVIOUS
  <2>3. PICK c3 : c3 = [c2 EXCEPT !.loaded = TRUE]
    OBVIOUS
  <2>4. PICK c4 : c4 = [c3 EXCEPT !.error = TRUE]
    OBVIOUS
  <2>5. SameBut(a, c1, {"points"}) /\ c1.points = {} /\ IsApp(c1)
    BY <1>2, <2>1 DEF SameBut, IsApp
  <2>6. SameBut(c1, c2, {"visible_points"}) /\ c2.visible_points = <<>> /\ IsApp(c2)
    BY <2>2, <2>5 DEF SameBut, IsApp
  <2>7. SameBut(c2, c3, {}) /\ IsApp(c3)
    BY <2>3, <2>6 DEF SameBut, IsApp
  <2>8. SameBut(c3, c4, {})
    BY <2>4, <2>7 DEF SameBut, IsApp
  <2>9. e = c4
    BY <2>1, <2>2, <2>3, <2>4
  <2> HIDE DEF e
  <2> QED BY <2>5, <2>6, <2>7, <2>8, <2>9 DEF SameBut
<1>5. IsFiniteSet(read) /\ \A p \in read : \E d \in Int : p = [interval |-> a.interval, day |-> d]
  <2>1. HistoryDays[a.interval] \subseteq Int /\ IsFiniteSet(HistoryDays[a.interval])
    BY <1>2, TerminalAssumption
  <2> DEFINE f == [d \in HistoryDays[a.interval] |-> [interval |-> a.interval, day |-> d]]
  <2>2. f \in Surjection(HistoryDays[a.interval], read)
    BY DEF Surjection
  <2>3. IsFiniteSet(read)
    <3> HIDE DEF f, read
    <3> QED BY <2>1, <2>2, FS_Surjection
  <2> QED BY <2>1, <2>3
<1>6. CASE c = recompute_visible_net_worth(b)
  <2> HIDE DEF b, read
  <2>1. Listed(b) /\ RowsShown(b) /\ b.interval = a.interval
    <3>1. SameBut(a, b, {"points", "visible_points", "modal"}) /\ SameBut(a, b, {"points", "visible_points", "interval"})
          /\ b.interval = a.interval
      BY <1>3 DEF SameBut
    <3> QED BY <3>1, SameShows
  <2>2. Loaded(b)
    BY <1>3, <1>5, <2>1 DEF Loaded
  <2>3. SameBut(b, c, {"visible_points"}) /\ PointsShown(c)
    BY <1>6, <2>2, PointsMadeVisible
  <2>4. Loaded(c) /\ RowsShown(c)
    BY <2>1, <2>2, <2>3, SameShows
  <2>5. SameBut(a, c, {"points", "visible_points"})
    BY <1>3, <2>3 DEF SameBut
  <2> QED BY <2>3, <2>4, <2>5 DEF Shows
<1>7. CASE c = e
  <2> HIDE DEF e
  <2>1. Listed(e) /\ RowsShown(e)
    <3>1. SameBut(a, e, {"points", "visible_points", "modal"}) /\ SameBut(a, e, {"points", "visible_points", "interval"})
      BY <1>4 DEF SameBut
    <3> QED BY <3>1, SameShows
  <2>2. Loaded(e)
    BY <1>4, <2>1, FS_EmptySet DEF Loaded
  <2>3. PointsShown(e)
    BY <1>4 DEF PointsShown
  <2> QED BY <1>4, <1>7, <2>1, <2>2, <2>3 DEF Shows
<1> QED BY <1>1, <1>6, <1>7

(***************************************************************************)
(* Terminal: the invariant.                                                *)
(***************************************************************************)
Row == (Nat \ {0}) \cup {Nothing}
CategoryDialog ==
    [action : {"one_off", "rule"}, source : Txn, input : Category \cup {Blank},
     suggestions : Seq(Category), selected : Nat \ {0}, active : BOOLEAN]
RegexDialog == [action : {"regex"}, source : Txn, category : Category, input : Expression]
DialogTyped(m) ==
    \/ m = Nothing
    \/ m \in RegexDialog
    \/ m \in CategoryDialog /\ (m.suggestions # <<>> => m.selected \in 1 .. Len(m.suggestions))

LineTyped(line) ==
    line = Malformed \/ (line.category \in Category \cup {Blank} /\ DOMAIN line.matchers \subseteq RuleField)
LinesTyped(lines) ==
    lines \in Seq(Range(lines)) /\ \A line \in Range(lines) : LineTyped(line)

FilesTyped ==
    /\ stored \subseteq Txn
    /\ annotated \in [Txn -> Category \cup {Nothing}]
    /\ LinesTyped(rules_file)
    /\ today \in FirstDay .. MaxDay
    /\ elsewhere \in 0 .. MaxElsewhere
LoopTyped ==
    /\ running \in {"running", "quit", "failed"}
    /\ keys \in 0 .. MaxKeys
    /\ tx_row \in Row /\ net_worth_row \in Row

\* A dialog is over its row.
Over(a, row) ==
    /\ a.active_view = "transactions"
    /\ row \in DOMAIN a.visible
    /\ a.visible[row] = a.modal.source

TerminalInv ==
    /\ FilesTyped /\ LoopTyped
    /\ Shows(app) /\ DialogTyped(app.modal)
    /\ app.matcher = load_transaction_category_rules(rules_file)
    /\ app.modal # Nothing /\ running = "running" => Over(app, tx_row)

\* The parts of the invariant, and that days are numbers.
LEMMA TerminalParts ==
  ASSUME TerminalInv
  PROVE  /\ today \in Int /\ Shows(app) /\ Loaded(app) /\ Listed(app) /\ IsApp(app)
         /\ RowsShown(app) /\ PointsShown(app) /\ DialogTyped(app.modal)
         /\ app.visible \in Seq(DOMAIN app.listed) /\ Len(app.visible) \in Nat
         /\ DOMAIN app.visible = 1 .. Len(app.visible) /\ DOMAIN app.listed \subseteq Txn
         /\ Len(app.visible_points) \in Nat /\ app.matcher = load_transaction_category_rules(rules_file)
<1>1. today \in Int
  BY TerminalAssumption DEF TerminalInv, FilesTyped
<1>2. Shows(app) /\ Loaded(app) /\ Listed(app) /\ IsApp(app) /\ RowsShown(app) /\ PointsShown(app) /\ DialogTyped(app.modal)
  BY DEF TerminalInv, Shows, Loaded, Listed
<1>3. app.visible \in Seq(DOMAIN app.listed) /\ app.visible_points \in Seq(app.points)
  BY <1>2 DEF RowsShown, PointsShown
<1>4. DOMAIN app.listed \subseteq Txn
  BY <1>2 DEF Listed
<1>5. app.matcher = load_transaction_category_rules(rules_file)
  BY DEF TerminalInv
<1> QED BY <1>1, <1>2, <1>3, <1>4, <1>5

\* A highlight stays within the rows, and stays where it was if it was there.
LEMMA Clamped ==
  ASSUME NEW row \in Row, NEW len \in Nat
  PROVE  /\ clamp_selection(row, len) \in Row
         /\ row \in 1 .. len => clamp_selection(row, len) = row
         /\ select_prev(row, len) \in Row /\ select_next(row, len) \in Row
<1>1. Nothing \notin Int
  BY TerminalAssumption
<1>2. CASE row = Nothing
  BY <1>1, <1>2 DEF clamp_selection, select_prev, select_next, Row
<1>3. CASE row \in Nat \ {0}
  <2>1. row # Nothing /\ (row # 1 => row - 1 \in Nat \ {0})
    BY <1>1, <1>3
  <2>2. clamp_selection(row, len) \in Row /\ (row \in 1 .. len => clamp_selection(row, len) = row)
    BY <1>3, <2>1 DEF clamp_selection, Row
  <2>3. select_prev(row, len) \in Row
    BY <1>3, <2>1 DEF select_prev, Row
  <2>4. select_next(row, len) \in Row
    BY <1>3, <2>1 DEF select_next, Row
  <2> QED BY <2>2, <2>3, <2>4
<1> QED BY <1>2, <1>3 DEF Row

\* A key is handled and the screen drawn.
LEMMA DrawnKeeps ==
  ASSUME TerminalInv, NEW a, Shows(a), DialogTyped(a.modal),
         a.matcher = load_transaction_category_rules(rules_file'), NEW tx \in Row, NEW nw \in Row,
         a.modal # Nothing /\ running = "running" => Over(a, tx),
         Drawn(a, tx, nw), keys < MaxKeys, keys' = keys + 1, today' = today, FilesTyped'
  PROVE  TerminalInv'
<1>1. app' = a /\ running' = running
  BY DEF Drawn
<1>2. Len(a.visible) \in Nat /\ Len(a.visible_points) \in Nat /\ DOMAIN a.visible = 1 .. Len(a.visible)
  <2>1. a.visible \in Seq(DOMAIN a.listed) /\ a.visible_points \in Seq(a.points)
    BY DEF Shows, RowsShown, PointsShown
  <2> QED BY <2>1
<1>3. tx_row' \in Row /\ net_worth_row' \in Row
  BY <1>2, Clamped DEF Drawn
<1>4. LoopTyped'
  <2>1. keys \in Nat /\ MaxKeys \in Nat
    BY TerminalAssumption DEF TerminalInv, LoopTyped
  <2>2. keys' \in 0 .. MaxKeys
    BY <2>1
  <2> QED BY <1>1, <1>3, <2>2 DEF TerminalInv, LoopTyped
<1>5. Shows(app)'
  <2>1. Listed(app)' /\ Loaded(app)'
    BY <1>1 DEF Shows, Loaded, Listed, IsApp
  <2>2. RowsShown(app)' /\ PointsShown(app)'
    BY <1>1 DEF Shows, RowsShown, PointsShown, Inside
  <2> QED BY <2>1, <2>2 DEF Shows
<1>6. DialogTyped(app.modal)'
  BY <1>1 DEF DialogTyped
<1>7. ASSUME a.modal # Nothing, running = "running" PROVE Over(app, tx_row)'
  <2>1. a.active_view = "transactions" /\ tx \in 1 .. Len(a.visible) /\ a.visible[tx] = a.modal.source
    BY <1>2, <1>7 DEF Over
  <2>2. tx_row' = tx
    BY <1>2, <2>1, Clamped DEF Drawn
  <2> QED BY <1>1, <1>2, <2>1, <2>2 DEF Over
<1>8. (app.matcher = load_transaction_category_rules(rules_file))'
  BY <1>1 DEF load_transaction_category_rules
<1> QED BY <1>1, <1>4, <1>5, <1>6, <1>7, <1>8 DEF TerminalInv

\* The rules that were read have categories.
LEMMA RulesTyped ==
  ASSUME NEW lines, LinesTyped(lines)
  PROVE  LET m == load_transaction_category_rules(lines) IN
            DOMAIN m \subseteq Nat /\ \A i \in DOMAIN m : m[i].category \in Category
<1> DEFINE m == load_transaction_category_rules(lines)
<1>1. DOMAIN m = {k \in DOMAIN lines : WellFormed(lines[k])}
  BY DEF load_transaction_category_rules
<1>2. DOMAIN lines \subseteq Nat
  <2>1. lines \in Seq(Range(lines))
    BY DEF LinesTyped
  <2> QED BY <2>1
<1>3. ASSUME NEW i \in DOMAIN m PROVE m[i].category \in Category
  <2>1. i \in DOMAIN lines /\ WellFormed(lines[i])
    BY <1>1
  <2>2. lines[i] # Malformed /\ lines[i].category # Blank
    BY <2>1 DEF WellFormed
  <2>3. LineTyped(lines[i])
    BY <2>1 DEF LinesTyped, Range
  <2>4. lines[i].category \in Category
    BY <2>2, <2>3 DEF LineTyped
  <2>5. m[i] = Compiled(lines[i])
    BY <1>1, <2>1 DEF load_transaction_category_rules
  <2>6. m[i].category = lines[i].category
    BY <2>5 DEF Compiled
  <2> QED BY <2>4, <2>6
<1> QED BY <1>1, <1>2, <1>3

\* Files are loaded anew.
LEMMA ReloadShows ==
  ASSUME NEW a, Loaded(a), PointsShown(a), today \in Int, stored \subseteq Txn,
         NEW files \in [Txn -> Category \cup {Nothing}], NEW lines, LinesTyped(lines)
  PROVE  /\ Shows(Reloaded(a, files, lines)) /\ Reloaded(a, files, lines).modal = a.modal
         /\ Reloaded(a, files, lines).active_view = a.active_view
         /\ Reloaded(a, files, lines).matcher = load_transaction_category_rules(lines)
         /\ DOMAIN Reloaded(a, files, lines).listed \subseteq stored
         /\ \A t \in DOMAIN Reloaded(a, files, lines).listed : Reloaded(a, files, lines).listed[t] = files[t]
<1> DEFINE list == [t \in {s \in stored : a.include_ignored \/ ~Facts[s].ignored} |-> files[t]]
<1> DEFINE m == load_transaction_category_rules(lines)
<1>1. PICK b : b = [a EXCEPT !.listed = list]
  OBVIOUS
<1>2. PICK c : c = [b EXCEPT !.matcher = m]
  OBVIOUS
<1>3. Listed(a) /\ IsApp(a)
  BY DEF Loaded, Listed
<1>4. SameBut(a, b, {"listed"}) /\ b.listed = list /\ IsApp(b)
  <2> HIDE DEF list
  <2> QED BY <1>1, <1>3 DEF SameBut, IsApp
<1>5. SameBut(b, c, {"matcher"}) /\ c.matcher = m
  <2> HIDE DEF m
  <2> QED BY <1>2, <1>4 DEF SameBut, IsApp
<1>6. Reloaded(a, files, lines) = recompute_visible_transactions(c)
  BY <1>1, <1>2 DEF Reloaded
<1>7. SameBut(a, c, {"listed", "matcher"}) /\ c.listed = list /\ c.matcher = m
  <2> HIDE DEF list, m
  <2> QED BY <1>4, <1>5 DEF SameBut
<1>8. DOMAIN list \subseteq stored /\ \A t \in DOMAIN list : list[t] = files[t] /\ list[t] \in Category \cup {Nothing}
  OBVIOUS
<1>9. DOMAIN m \subseteq Nat /\ \A i \in DOMAIN m : m[i].category \in Category
  BY RulesTyped
<1>10. Loaded(c)
  <2> HIDE DEF list, m
  <2>1. Listed(c)
    BY <1>3, <1>7, <1>8, <1>9 DEF Listed, SameBut
  <2> QED BY <1>7, <2>1 DEF Loaded, SameBut
<1>11. PointsShown(c)
  BY <1>7 DEF PointsShown, SameBut
<1>12. /\ Shows(recompute_visible_transactions(c)) /\ SameBut(c, recompute_visible_transactions(c), {"visible"})
  BY <1>10, <1>11, RowsRecomputed
<1> HIDE DEF list, m
<1>13. PICK d : d = recompute_visible_transactions(c)
  OBVIOUS
<1>14. d.modal = a.modal /\ d.active_view = a.active_view /\ d.matcher = m /\ d.listed = list
  BY <1>7, <1>12, <1>13 DEF SameBut
<1> QED BY <1>6, <1>8, <1>12, <1>13, <1>14 DEF m

\* A key is handled, and no file is written.
LEMMA KeyKeeps ==
  ASSUME TerminalInv, Pressed, NEW a, Shows(a), DialogTyped(a.modal),
         a.matcher = app.matcher \/ a.matcher = load_transaction_category_rules(rules_file),
         a.modal # Nothing => Over(a, tx_row), Key(a)
  PROVE  TerminalInv'
<1>1. tx_row \in Row /\ net_worth_row \in Row
  BY DEF TerminalInv, LoopTyped
<1>2. Drawn(a, tx_row, net_worth_row) /\ today' = today /\ FilesTyped'
  <2>1. FilesTyped
    BY DEF TerminalInv
  <2> QED BY <2>1 DEF Key, terminalFiles, FilesTyped
<1>3. keys < MaxKeys /\ keys' = keys + 1
  BY DEF Pressed
<1>4. a.matcher = load_transaction_category_rules(rules_file')
  <2>1. rules_file' = rules_file
    BY DEF Key, terminalFiles
  <2>2. a.matcher = load_transaction_category_rules(rules_file)
    BY TerminalParts
  <2> QED BY <2>1, <2>2
<1> QED BY <1>1, <1>2, <1>3, <1>4, DrawnKeeps

\* With no dialog open there is none after such a key.
LEMMA NoDialogKeeps ==
  ASSUME TerminalInv, NoDialog, NEW a, Shows(a), a.modal = app.modal,
         a.matcher = app.matcher \/ a.matcher = load_transaction_category_rules(rules_file), Key(a)
  PROVE  TerminalInv'
<1>1. Pressed /\ a.modal = Nothing
  BY DEF NoDialog
<1>2. DialogTyped(a.modal)
  BY <1>1 DEF DialogTyped
<1> QED BY <1>1, <1>2, KeyKeeps

\* One field of the screen that lists stays what it lists.
LEMMA ViewSet ==
  ASSUME NEW a, Shows(a), NEW v \in TuiView
  PROVE  Shows([a EXCEPT !.active_view = v]) /\ [a EXCEPT !.active_view = v].modal = a.modal
         /\ [a EXCEPT !.active_view = v].matcher = a.matcher
<1>1. PICK b : b = [a EXCEPT !.active_view = v]
  OBVIOUS
<1>2. SameBut(a, b, {"active_view"}) /\ b.active_view = v
  BY <1>1 DEF Shows, Loaded, Listed, IsApp, SameBut
<1>3. Listed(b)
  BY <1>2 DEF Shows, Loaded, Listed, SameBut
<1>4. Loaded(b)
  BY <1>2, <1>3 DEF Shows, Loaded, SameBut
<1>5. RowsShown(b) /\ PointsShown(b)
  BY <1>2 DEF Shows, RowsShown, PointsShown, SameBut
<1> QED BY <1>1, <1>2, <1>4, <1>5 DEF Shows, SameBut

\* Of modes in a row each has a next and one before.
LEMMA NextOf ==
  ASSUME NEW s, NEW v
  PROVE  /\ v \in Range(SortMode) => NextIn(SortMode, v) \in Range(SortMode)
         /\ v \in Range(NetWorthInterval) => /\ NextIn(NetWorthInterval, v) \in Range(NetWorthInterval)
                                             /\ PreviousIn(NetWorthInterval, v) \in Range(NetWorthInterval)
<1>1. ASSUME v \in Range(SortMode) PROVE NextIn(SortMode, v) \in Range(SortMode)
  <2>1. PICK i \in 1 .. 4 : SortMode[i] = v
    BY <1>1 DEF SortMode, Range
  <2>2. DOMAIN SortMode = 1 .. 4 /\ Len(SortMode) = 4
    BY DEF SortMode
  <2>3. PlaceIn(SortMode, v) \in 1 .. 4
    BY <2>1, <2>2 DEF PlaceIn
  <2>4. (PlaceIn(SortMode, v) % 4) + 1 \in 1 .. 4
    BY <2>3
  <2> QED BY <2>2, <2>4 DEF NextIn, Range
<1>2. ASSUME v \in Range(NetWorthInterval)
      PROVE  /\ NextIn(NetWorthInterval, v) \in Range(NetWorthInterval)
             /\ PreviousIn(NetWorthInterval, v) \in Range(NetWorthInterval)
  <2>1. PICK i \in 1 .. 6 : NetWorthInterval[i] = v
    BY <1>2 DEF NetWorthInterval, Range
  <2>2. DOMAIN NetWorthInterval = 1 .. 6 /\ Len(NetWorthInterval) = 6
    BY DEF NetWorthInterval
  <2>3. PlaceIn(NetWorthInterval, v) \in 1 .. 6
    BY <2>1, <2>2 DEF PlaceIn
  <2>4. (PlaceIn(NetWorthInterval, v) % 6) + 1 \in 1 .. 6
        /\ ((PlaceIn(NetWorthInterval, v) + 6 - 2) % 6) + 1 \in 1 .. 6
    BY <2>3
  <2> QED BY <2>2, <2>4 DEF NextIn, PreviousIn, Range
<1> QED BY <1>1, <1>2

\* q: the loop ends.
LEMMA QuitKeeps ==
  ASSUME TerminalInv, Quit
  PROVE  TerminalInv'
<1>1. /\ running' = "quit" /\ app' = app /\ tx_row' = tx_row /\ net_worth_row' = net_worth_row
      /\ keys < MaxKeys /\ keys' = keys + 1 /\ app.modal = Nothing
      /\ stored' = stored /\ annotated' = annotated /\ rules_file' = rules_file /\ today' = today /\ elsewhere' = elsewhere
  BY DEF Quit, NoDialog, Pressed, terminalFiles
<1>2. FilesTyped'
  BY <1>1 DEF TerminalInv, FilesTyped
<1>3. LoopTyped'
  <2>1. keys \in Nat /\ MaxKeys \in Nat
    BY TerminalAssumption DEF TerminalInv, LoopTyped
  <2>2. keys' \in 0 .. MaxKeys
    BY <1>1, <2>1
  <2> QED BY <1>1, <2>2 DEF TerminalInv, LoopTyped
<1>4. Shows(app)' /\ DialogTyped(app.modal)'
  BY <1>1 DEF TerminalInv, Shows, Loaded, Listed, IsApp, RowsShown, PointsShown, Inside, DialogTyped
<1>5. (app.matcher = load_transaction_category_rules(rules_file))'
  BY <1>1 DEF TerminalInv, load_transaction_category_rules
<1> QED BY <1>1, <1>2, <1>3, <1>4, <1>5 DEF TerminalInv

\* Tab: the other view, whose points may have to be read.
LEMMA ToggleViewKeeps ==
  ASSUME TerminalInv, ToggleView
  PROVE  TerminalInv'
<1> DEFINE v == CHOOSE v \in TuiView : v # app.active_view
<1>1. v \in TuiView
  BY DEF TuiView
<1>2. PICK a : a = [app EXCEPT !.active_view = v]
  OBVIOUS
<1>3. NoDialog /\ \E b \in IF a.active_view = "net_worth" /\ ~a.loaded THEN refresh_net_worth(a) ELSE {a} : Key(b)
  BY <1>2 DEF ToggleView
<1>4. Shows(a) /\ a.modal = app.modal /\ a.matcher = app.matcher
  <2> HIDE DEF v
  <2> QED BY <1>1, <1>2, TerminalParts, ViewSet
<1>5. PICK b : Key(b) /\ (b \in refresh_net_worth(a) \/ b = a)
  BY <1>3
<1>6. Shows(b) /\ b.modal = app.modal /\ b.matcher = app.matcher
  <2>1. CASE b = a
    BY <1>4, <2>1
  <2>2. CASE b \in refresh_net_worth(a)
    <3>1. Listed(a) /\ RowsShown(a) /\ today \in Int
      BY <1>4, TerminalParts DEF Shows, Loaded
    <3>2. Shows(b) /\ SameBut(a, b, {"points", "visible_points"})
      BY <2>2, <3>1, NetWorthRefreshed
    <3> QED BY <1>4, <3>2 DEF SameBut
  <2> QED BY <1>5, <2>1, <2>2
<1> QED BY <1>3, <1>5, <1>6, NoDialogKeeps

\* Up and Down: another row.
LEMMA MoveHighlightKeeps ==
  ASSUME TerminalInv, MoveHighlight
  PROVE  TerminalInv'
<1>1. /\ keys < MaxKeys /\ keys' = keys + 1 /\ app.modal = Nothing
      /\ stored' = stored /\ annotated' = annotated /\ rules_file' = rules_file /\ today' = today /\ elsewhere' = elsewhere
  BY DEF MoveHighlight, NoDialog, Pressed, terminalFiles
<1>2. tx_row \in Row /\ net_worth_row \in Row
  BY DEF TerminalInv, LoopTyped
<1>3. /\ select_prev(tx_row, Len(app.visible)) \in Row /\ select_next(tx_row, Len(app.visible)) \in Row
      /\ select_prev(net_worth_row, Len(app.visible_points)) \in Row
      /\ select_next(net_worth_row, Len(app.visible_points)) \in Row
  BY <1>2, TerminalParts, Clamped
<1>4. PICK tx \in Row, nw \in Row : Drawn(app, tx, nw)
  BY <1>2, <1>3 DEF MoveHighlight
<1>5. FilesTyped'
  BY <1>1 DEF TerminalInv, FilesTyped
<1>6. /\ Shows(app) /\ DialogTyped(app.modal)
      /\ app.matcher = load_transaction_category_rules(rules_file')
  BY <1>1 DEF TerminalInv
<1> QED BY <1>1, <1>4, <1>5, <1>6, DrawnKeeps

\* s: another order of the rows.
LEMMA ChangeSortKeeps ==
  ASSUME TerminalInv, ChangeSort
  PROVE  TerminalInv'
<1>1. PICK a : a = [app EXCEPT !.sort = NextIn(SortMode, app.sort)]
  OBVIOUS
<1>2. NoDialog /\ Key(recompute_visible_transactions(a))
  BY <1>1 DEF ChangeSort
<1>3. SameBut(app, a, {"sort"}) /\ a.sort \in Range(SortMode)
  <2>1. app.sort \in Range(SortMode) /\ IsApp(app)
    BY TerminalParts DEF Listed
  <2>2. NextIn(SortMode, app.sort) \in Range(SortMode)
    BY <2>1, NextOf
  <2> QED BY <1>1, <2>1, <2>2 DEF SameBut, IsApp
<1>4. Listed(a)
  BY <1>3, TerminalParts DEF Listed, SameBut
<1>5. Loaded(a) /\ PointsShown(a)
  BY <1>3, <1>4, TerminalParts DEF Loaded, PointsShown, SameBut
<1>6. /\ Shows(recompute_visible_transactions(a)) /\ SameBut(a, recompute_visible_transactions(a), {"visible"})
  BY <1>5, TerminalParts, RowsRecomputed
<1>7. /\ recompute_visible_transactions(a).modal = app.modal
      /\ recompute_visible_transactions(a).matcher = app.matcher
  BY <1>3, <1>6 DEF SameBut
<1> QED BY <1>2, <1>6, <1>7, NoDialogKeeps

\* 1 to 5, [ and ]: another span, for the rows and the points.
LEMMA ChangeSpanKeeps ==
  ASSUME TerminalInv, ChangeSpan
  PROVE  TerminalInv'
<1>1. PICK span \in Range(TimeSpan) :
         Key(recompute_visible_net_worth(recompute_visible_transactions([app EXCEPT !.span = span])))
  BY DEF ChangeSpan
<1>2. PICK a : a = [app EXCEPT !.span = span]
  OBVIOUS
<1>3. SameBut(app, a, {"span"}) /\ a.span \in Range(TimeSpan)
  BY <1>2, TerminalParts DEF SameBut, IsApp
<1>4. Listed(a)
  BY <1>3, TerminalParts DEF Listed, SameBut
<1>5. Loaded(a)
  BY <1>3, <1>4, TerminalParts DEF Loaded, SameBut
<1>6. PICK b : b = recompute_visible_net_worth(recompute_visible_transactions(a))
  OBVIOUS
<1>7. Shows(b) /\ SameBut(a, b, {"visible", "visible_points"})
  BY <1>5, <1>6, TerminalParts, BothRecomputed
<1>8. b.modal = app.modal /\ b.matcher = app.matcher
  BY <1>3, <1>7 DEF SameBut
<1>9. NoDialog /\ Key(b)
  BY <1>1, <1>2, <1>6 DEF ChangeSpan
<1> QED BY <1>7, <1>8, <1>9, NoDialogKeeps

\* i and I: another interval, whose points are read.
LEMMA ChangeIntervalKeeps ==
  ASSUME TerminalInv, ChangeInterval
  PROVE  TerminalInv'
<1>1. PICK interval \in {NextIn(NetWorthInterval, app.interval), PreviousIn(NetWorthInterval, app.interval)} :
         \E b \in refresh_net_worth([app EXCEPT !.interval = interval]) : Key(b)
  BY DEF ChangeInterval
<1>2. PICK a : a = [app EXCEPT !.interval = interval]
  OBVIOUS
<1>3. interval \in Range(NetWorthInterval)
  <2>1. app.interval \in Range(NetWorthInterval)
    BY TerminalParts DEF Listed
  <2> QED BY <1>1, <2>1, NextOf
<1>4. SameBut(app, a, {"interval"}) /\ a.interval \in Range(NetWorthInterval)
  BY <1>2, <1>3, TerminalParts DEF SameBut, IsApp
<1>5. Listed(a) /\ RowsShown(a)
  BY <1>4, TerminalParts DEF Listed, RowsShown, SameBut
<1>6. PICK b : b \in refresh_net_worth(a) /\ Key(b)
  BY <1>1, <1>2
<1>7. Shows(b) /\ SameBut(a, b, {"points", "visible_points"})
  BY <1>5, <1>6, TerminalParts, NetWorthRefreshed
<1>8. b.modal = app.modal /\ b.matcher = app.matcher
  BY <1>4, <1>7 DEF SameBut
<1>9. NoDialog
  BY DEF ChangeInterval
<1> QED BY <1>6, <1>7, <1>8, <1>9, NoDialogKeeps

\* r: what is shown is loaded again.
LEMMA ReloadKeeps ==
  ASSUME TerminalInv, Reload
  PROVE  TerminalInv'
<1>1. NoDialog
  BY DEF Reload
<1>2. stored \subseteq Txn /\ annotated \in [Txn -> Category \cup {Nothing}] /\ LinesTyped(rules_file)
  BY DEF TerminalInv, FilesTyped
<1>3. CASE Key(Reloaded(app, annotated, rules_file))
  <2>1. /\ Shows(Reloaded(app, annotated, rules_file)) /\ Reloaded(app, annotated, rules_file).modal = app.modal
        /\ Reloaded(app, annotated, rules_file).matcher = load_transaction_category_rules(rules_file)
    BY <1>2, TerminalParts, ReloadShows
  <2> QED BY <1>1, <1>3, <2>1, NoDialogKeeps
<1>4. CASE \E a \in refresh_net_worth(app) : Key(a)
  <2>1. PICK a : a \in refresh_net_worth(app) /\ Key(a)
    BY <1>4
  <2>2. Shows(a) /\ SameBut(app, a, {"points", "visible_points"})
    BY <2>1, TerminalParts, NetWorthRefreshed
  <2>3. a.modal = app.modal /\ a.matcher = app.matcher
    BY <2>2 DEF SameBut
  <2> QED BY <1>1, <2>1, <2>2, <2>3, NoDialogKeeps
<1> QED BY <1>3, <1>4 DEF Reload

\* x: with the ignored, or without.
LEMMA ToggleIgnoredKeeps ==
  ASSUME TerminalInv, ToggleIgnored
  PROVE  TerminalInv'
<1>1. PICK a : a = [app EXCEPT !.include_ignored = ~app.include_ignored]
  OBVIOUS
<1>2. NoDialog /\ Key(Reloaded(a, annotated, rules_file))
  BY <1>1 DEF ToggleIgnored
<1>3. SameBut(app, a, {"include_ignored"})
  BY <1>1, TerminalParts DEF SameBut, IsApp
<1>4. Listed(a) /\ PointsShown(a)
  BY <1>3, TerminalParts DEF Listed, PointsShown, SameBut
<1>5. Loaded(a)
  BY <1>3, <1>4, TerminalParts DEF Loaded, SameBut
<1>6. stored \subseteq Txn /\ annotated \in [Txn -> Category \cup {Nothing}] /\ LinesTyped(rules_file)
  BY DEF TerminalInv, FilesTyped
<1>7. /\ Shows(Reloaded(a, annotated, rules_file)) /\ Reloaded(a, annotated, rules_file).modal = a.modal
      /\ Reloaded(a, annotated, rules_file).matcher = load_transaction_category_rules(rules_file)
  BY <1>4, <1>5, <1>6, TerminalParts, ReloadShows
<1>8. a.modal = app.modal /\ a.matcher = app.matcher
  BY <1>3 DEF SameBut
<1> QED BY <1>2, <1>7, <1>8, NoDialogKeeps

\* Categories can be put in alphabetical order.
LEMMA AlphabeticalTyped ==
  ASSUME NEW C \in SUBSET Category
  PROVE  Alphabetical(C) \in Seq(Category)
<1> DEFINE R == {p \in C \X C : PlaceIn(Alphabet, p[1]) < PlaceIn(Alphabet, p[2])}
<1> DEFINE s == Sorted(C, LAMBDA c, d : PlaceIn(Alphabet, c) < PlaceIn(Alphabet, d))
<1>1. Alphabet \in Seq(Category) /\ Category = Range(Alphabet)
  BY TerminalAssumption DEF Category
<1> DEFINE n == Len(Alphabet)
<1>2. n \in Nat /\ DOMAIN Alphabet = 1 .. n
  BY <1>1
<1>3. \A c \in Category : PlaceIn(Alphabet, c) \in 1 .. n /\ Alphabet[PlaceIn(Alphabet, c)] = c
  <2>1. ASSUME NEW c \in Category PROVE \E i \in DOMAIN Alphabet : Alphabet[i] = c
    BY <1>1 DEF Range
  <2> QED BY <1>2, <2>1 DEF PlaceIn
<1>4. IsFiniteSet(C)
  <2>1. IsFiniteSet(1 .. n)
    BY <1>2, FS_Interval
  <2>2. Alphabet \in Surjection(1 .. n, Category)
    <3>1. Alphabet \in [1 .. n -> Category]
      BY <1>1
    <3> QED BY <1>1, <1>2, <3>1 DEF Surjection, Range
  <2>3. IsFiniteSet(Category)
    BY <2>1, <2>2, FS_Surjection
  <2> QED BY <2>3, FS_Subset
<1>5. StrictOrder(R, C)
  <2>1. \A c, d \in C : <<c, d>> \in R <=> PlaceIn(Alphabet, c) < PlaceIn(Alphabet, d)
    OBVIOUS
  <2>2. \A c \in C : PlaceIn(Alphabet, c) \in Int
    BY <1>3, <1>2
  <2>3. \A c, d \in C : PlaceIn(Alphabet, c) = PlaceIn(Alphabet, d) => c = d
    BY <1>3
  <2> HIDE DEF R
  <2>4. \A c \in C : <<c, c>> \notin R
    BY <2>1, <2>2
  <2>5. \A k, l, m \in C : <<k, l>> \in R /\ <<l, m>> \in R => <<k, m>> \in R
    BY <2>1, <2>2
  <2>6. ASSUME NEW k \in C, NEW l \in C PROVE k = l \/ <<k, l>> \in R \/ <<l, k>> \in R
    BY <2>1, <2>2, <2>3
  <2> QED BY <2>4, <2>5, <2>6 DEF StrictOrder
<1>6. \E q : InOrderOf(R, C, q)
  <2> HIDE DEF R
  <2> QED BY <1>4, <1>5, OrderExists
<1>7. InOrderOf(R, C, s)
  <2>1. \E q \in [1 .. Cardinality(C) -> C] :
           \A i, j \in DOMAIN q : i < j => PlaceIn(Alphabet, q[i]) < PlaceIn(Alphabet, q[j])
    <3>1. PICK q : InOrderOf(R, C, q)
      BY <1>6
    <3>2. q \in [1 .. Cardinality(C) -> C]
      BY <3>1 DEF InOrderOf
    <3>3. \A i, j \in DOMAIN q : i < j => PlaceIn(Alphabet, q[i]) < PlaceIn(Alphabet, q[j])
      BY <3>1, <3>2 DEF InOrderOf
    <3> QED BY <3>2, <3>3
  <2>2. s \in [1 .. Cardinality(C) -> C]
        /\ \A i, j \in DOMAIN s : i < j => PlaceIn(Alphabet, s[i]) < PlaceIn(Alphabet, s[j])
    BY <2>1 DEF Sorted
  <2> HIDE DEF s
  <2> QED BY <2>2 DEF InOrderOf
<1>8. s \in Seq(C)
  <2> HIDE DEF R, s
  <2> QED BY <1>4, <1>5, <1>7, OrderHasAll
<1>9. Alphabetical(C) = s
  BY DEF Alphabetical
<1> HIDE DEF s
<1> QED BY <1>8, <1>9

\* The suggestions of a dialog are categories, and one of them is highlighted.
LEMMA SuggestionsTyped ==
  ASSUME NEW a, NEW m \in CategoryDialog
  PROVE  LET d == refresh_category_suggestions(a, m) IN
            /\ d \in CategoryDialog /\ DialogTyped(d) /\ d.source = m.source
<1> DEFINE q == filtered_category_suggestions(collect_category_catalog(a), m.input)
<1>1. q \in Seq(Category)
  <2> DEFINE C == collect_category_catalog(a)
  <2>1. C \in SUBSET Category
    BY DEF collect_category_catalog
  <2> HIDE DEF C
  <2>2. /\ Alphabetical(C) \in Seq(Category)
        /\ Alphabetical(C \cap Begins[m.input]) \in Seq(Category)
        /\ Alphabetical(C \cap (Within[m.input] \ Begins[m.input])) \in Seq(Category)
    BY <2>1, AlphabeticalTyped
  <2> QED BY <2>2 DEF filtered_category_suggestions, C
<1> DEFINE row == clamp_selection(m.selected, Len(q))
<1> DEFINE r == IF row = Nothing THEN 1 ELSE row
<1> HIDE DEF q
<1>2. Len(q) \in Nat /\ (q # <<>> => Len(q) # 0)
  BY <1>1
<1>3. m.selected \in Nat \ {0} /\ Nothing \notin Int
  BY TerminalAssumption DEF CategoryDialog
<1>4. r \in Nat \ {0} /\ (q # <<>> => r \in 1 .. Len(q))
  <2>1. CASE Len(q) = 0
    BY <1>2, <2>1 DEF clamp_selection
  <2>2. CASE Len(q) # 0
    <3>1. row \in 1 .. Len(q)
      BY <1>2, <1>3, <2>2 DEF clamp_selection
    <3>2. r = row
      BY <1>2, <1>3, <3>1
    <3> HIDE DEF r, row
    <3> QED BY <1>2, <3>1, <3>2
  <2> QED BY <2>1, <2>2
<1>5. refresh_category_suggestions(a, m) = [m EXCEPT !.suggestions = q, !.selected = r]
  BY DEF refresh_category_suggestions, q
<1> HIDE DEF r, row
<1>6. PICK d : d = [m EXCEPT !.suggestions = q, !.selected = r]
  OBVIOUS
<1>7. d \in CategoryDialog /\ d.suggestions = q /\ d.selected = r /\ d.source = m.source
  BY <1>1, <1>4, <1>6 DEF CategoryDialog
<1>8. DialogTyped(d)
  BY <1>4, <1>7 DEF DialogTyped
<1> QED BY <1>5, <1>6, <1>7, <1>8

\* A category dialog has a place among its suggestions.
LEMMA InCategoryDialog ==
  ASSUME TerminalInv, InDialog({"one_off", "rule"})
  PROVE  /\ Pressed /\ app.modal # Nothing /\ app.modal \in CategoryDialog
         /\ app.modal.suggestions # <<>> => app.modal.selected \in 1 .. Len(app.modal.suggestions)
         /\ app.modal.source \in Txn
         /\ selected_category_from_modal(app.modal) \in Category \cup {Blank}
<1>1. Pressed /\ app.modal # Nothing /\ app.modal.action \in {"one_off", "rule"}
  BY DEF InDialog
<1>2. DialogTyped(app.modal)
  BY DEF TerminalInv
<1>3. app.modal \notin RegexDialog
  BY <1>1 DEF RegexDialog
<1>4. /\ app.modal \in CategoryDialog
      /\ app.modal.suggestions # <<>> => app.modal.selected \in 1 .. Len(app.modal.suggestions)
  BY <1>1, <1>2, <1>3 DEF DialogTyped
<1>5. /\ app.modal.source \in Txn /\ app.modal.suggestions \in Seq(Category)
      /\ app.modal.input \in Category \cup {Blank}
  BY <1>4 DEF CategoryDialog
<1>6. selected_category_from_modal(app.modal) \in Category \cup {Blank}
  BY <1>5 DEF selected_category_from_modal
<1> QED BY <1>1, <1>4, <1>5, <1>6

\* And the dialog of a regular expression has its category.
LEMMA InRegexDialog ==
  ASSUME TerminalInv, InDialog({"regex"})
  PROVE  Pressed /\ app.modal # Nothing /\ app.modal \in RegexDialog
<1>1. Pressed /\ app.modal # Nothing /\ app.modal.action = "regex"
  BY DEF InDialog
<1>2. DialogTyped(app.modal)
  BY DEF TerminalInv
<1>3. app.modal \notin CategoryDialog
  BY <1>1 DEF CategoryDialog
<1> QED BY <1>1, <1>2, <1>3 DEF DialogTyped

\* A dialog is opened over its row, changed, or closed.
LEMMA DialogSet ==
  ASSUME TerminalInv, Pressed, NEW m, DialogTyped(m),
         m # Nothing => /\ app.active_view = "transactions" /\ tx_row \in DOMAIN app.visible
                        /\ app.visible[tx_row] = m.source,
         Key([app EXCEPT !.modal = m])
  PROVE  TerminalInv'
<1>1. PICK a : a = [app EXCEPT !.modal = m]
  OBVIOUS
<1>2. SameBut(app, a, {"modal"}) /\ a.modal = m
  BY <1>1, TerminalParts DEF IsApp, SameBut
<1>3. Shows(a)
  BY <1>2, TerminalParts, SameShows
<1>4. a.modal # Nothing => Over(a, tx_row)
  BY <1>2 DEF Over, SameBut
<1>5. a.matcher = app.matcher
  BY <1>2 DEF SameBut
<1> QED BY <1>1, <1>2, <1>3, <1>4, <1>5, KeyKeeps

\* It stays with its transaction.
LEMMA DialogChanged ==
  ASSUME TerminalInv, Pressed, app.modal # Nothing, NEW m, DialogTyped(m),
         m.source = app.modal.source, Key([app EXCEPT !.modal = m])
  PROVE  TerminalInv'
<1>1. Over(app, tx_row)
  BY DEF TerminalInv, Pressed
<1> QED BY <1>1, DialogSet DEF Over

\* Esc: the dialog is closed.
LEMMA CancelDialogKeeps ==
  ASSUME TerminalInv, CancelDialog
  PROVE  TerminalInv'
<1>1. Pressed /\ Key([app EXCEPT !.modal = Nothing])
  BY DEF CancelDialog, InDialog
<1>2. DialogTyped(Nothing)
  BY DEF DialogTyped
<1> QED BY <1>1, <1>2, DialogSet

\* Up and Down: another suggestion.
LEMMA ChooseSuggestionKeeps ==
  ASSUME TerminalInv, ChooseSuggestion
  PROVE  TerminalInv'
<1>1. InDialog({"one_off", "rule"})
  BY DEF ChooseSuggestion
<1>2. PICK m : m = app.modal
  OBVIOUS
<1>3. /\ Pressed /\ m # Nothing /\ m \in CategoryDialog
      /\ m.suggestions # <<>> => m.selected \in 1 .. Len(m.suggestions)
  BY <1>1, <1>2, InCategoryDialog
<1>4. PICK len : len = Len(m.suggestions)
  OBVIOUS
<1>5. PICK row \in {select_prev(m.selected, len), select_next(m.selected, len)} :
         Key(IF len = 0 THEN app ELSE [app EXCEPT !.modal = [m EXCEPT !.active = TRUE, !.selected = row]])
  BY <1>2, <1>4 DEF ChooseSuggestion
<1>6. CASE len = 0
  <2>1. DialogTyped(m) /\ Shows(app)
    BY <1>2 DEF TerminalInv
  <2>2. Over(app, tx_row)
    BY <1>2, <1>3 DEF TerminalInv, Pressed
  <2> QED BY <1>2, <1>3, <1>5, <1>6, <2>1, <2>2, KeyKeeps
<1>7. CASE len # 0
  <2>1. PICK d : d = [m EXCEPT !.active = TRUE, !.selected = row]
    OBVIOUS
  <2>2. m.suggestions \in Seq(Category) /\ len \in Nat
    BY <1>3, <1>4 DEF CategoryDialog
  <2>3. m.suggestions # <<>>
    BY <1>4, <1>7, <2>2
  <2>4. m.selected \in 1 .. len /\ Nothing \notin Int
    BY <1>3, <1>4, <2>3, TerminalAssumption
  <2>5. row \in 1 .. len
    <3>1. m.selected # Nothing
      BY <2>2, <2>4
    <3>2. select_prev(m.selected, len) \in 1 .. len
      BY <1>7, <2>2, <2>4, <3>1 DEF select_prev
    <3>3. select_next(m.selected, len) \in 1 .. len
      BY <1>7, <2>2, <2>4, <3>1 DEF select_next
    <3> QED BY <1>5, <3>2, <3>3
  <2>6. d \in CategoryDialog /\ d.suggestions = m.suggestions /\ d.selected = row /\ d.source = m.source
    <3>1. row \in Nat \ {0}
      BY <2>2, <2>5
    <3> QED BY <1>3, <2>1, <3>1 DEF CategoryDialog
  <2>7. DialogTyped(d)
    BY <1>4, <2>5, <2>6 DEF DialogTyped
  <2>8. Key([app EXCEPT !.modal = d])
    BY <1>5, <1>7, <2>1
  <2> QED BY <1>2, <1>3, <2>6, <2>7, <2>8, DialogChanged
<1> QED BY <1>6, <1>7

\* Tab: the suggestion is taken as what was written.
LEMMA TakeSuggestionKeeps ==
  ASSUME TerminalInv, TakeSuggestion
  PROVE  TerminalInv'
<1>1. InDialog({"one_off", "rule"})
  BY DEF TakeSuggestion
<1>2. PICK m : m = app.modal
  OBVIOUS
<1>3. /\ Pressed /\ m # Nothing /\ m \in CategoryDialog
      /\ m.suggestions # <<>> => m.selected \in 1 .. Len(m.suggestions)
  BY <1>1, <1>2, InCategoryDialog
<1>4. PICK d : d = IF m.suggestions = <<>> THEN m
                   ELSE [m EXCEPT !.input = m.suggestions[m.selected], !.active = FALSE]
  OBVIOUS
<1>5. Key([app EXCEPT !.modal = refresh_category_suggestions(app, d)])
  BY <1>2, <1>4 DEF TakeSuggestion
<1>6. d \in CategoryDialog /\ d.source = m.source
  <2>1. CASE m.suggestions = <<>>
    BY <1>3, <1>4, <2>1
  <2>2. CASE m.suggestions # <<>>
    <3>1. m.suggestions \in Seq(Category)
      BY <1>3 DEF CategoryDialog
    <3>2. m.suggestions[m.selected] \in Category
      BY <1>3, <2>2, <3>1
    <3> QED BY <1>3, <1>4, <2>2, <3>2 DEF CategoryDialog
  <2> QED BY <2>1, <2>2
<1>7. PICK e : e = refresh_category_suggestions(app, d)
  OBVIOUS
<1>8. DialogTyped(e) /\ e.source = m.source
  BY <1>6, <1>7, SuggestionsTyped
<1> QED BY <1>2, <1>3, <1>5, <1>7, <1>8, DialogChanged

\* Something else is written in the field of a category.
LEMMA WriteCategoryKeeps ==
  ASSUME TerminalInv, WriteCategory
  PROVE  TerminalInv'
<1>1. InDialog({"one_off", "rule"})
  BY DEF WriteCategory
<1>2. PICK m : m = app.modal
  OBVIOUS
<1>3. Pressed /\ m # Nothing /\ m \in CategoryDialog
  BY <1>1, <1>2, InCategoryDialog
<1>4. PICK input \in DOMAIN Begins \cup {Blank} :
         Key([app EXCEPT !.modal = refresh_category_suggestions(app, [m EXCEPT !.input = input, !.active = FALSE])])
  BY <1>2 DEF WriteCategory
<1>5. PICK d : d = [m EXCEPT !.input = input, !.active = FALSE]
  OBVIOUS
<1>6. d \in CategoryDialog /\ d.source = m.source
  <2>1. input \in Category \cup {Blank}
    BY TerminalAssumption
  <2> QED BY <1>3, <1>5, <2>1 DEF CategoryDialog
<1>7. PICK e : e = refresh_category_suggestions(app, d)
  OBVIOUS
<1>8. DialogTyped(e) /\ e.source = m.source
  BY <1>6, <1>7, SuggestionsTyped
<1> QED BY <1>2, <1>3, <1>4, <1>5, <1>7, <1>8, DialogChanged

\* Or in the field of a regular expression.
LEMMA WriteRegexKeeps ==
  ASSUME TerminalInv, WriteRegex
  PROVE  TerminalInv'
<1>1. InDialog({"regex"})
  BY DEF WriteRegex
<1>2. PICK m : m = app.modal
  OBVIOUS
<1>3. Pressed /\ m # Nothing /\ m \in RegexDialog
  BY <1>1, <1>2, InRegexDialog
<1>4. PICK input \in Pattern : Key([app EXCEPT !.modal = [m EXCEPT !.input = input]])
  BY <1>2 DEF WriteRegex
<1>5. PICK d : d = [m EXCEPT !.input = input]
  OBVIOUS
<1>6. d \in RegexDialog /\ d.source = m.source
  <2>1. input \in Expression
    BY DEF Expression
  <2> QED BY <1>3, <1>5, <2>1 DEF RegexDialog
<1>7. DialogTyped(d)
  BY <1>6 DEF DialogTyped
<1> QED BY <1>2, <1>3, <1>4, <1>5, <1>6, <1>7, DialogChanged

\* Enter: the expression is asked for.
LEMMA AskForRegexKeeps ==
  ASSUME TerminalInv, AskForRegex
  PROVE  TerminalInv'
<1>1. InDialog({"rule"})
  BY DEF AskForRegex
<1>2. InDialog({"one_off", "rule"})
  BY <1>1 DEF InDialog
<1>3. PICK m : m = app.modal
  OBVIOUS
<1>4. /\ Pressed /\ m # Nothing /\ m.source \in Txn
      /\ selected_category_from_modal(m) \in Category \cup {Blank}
  BY <1>2, <1>3, InCategoryDialog
<1>5. PICK chosen : chosen = selected_category_from_modal(m)
  OBVIOUS
<1>6. PICK suggested \in {fallback_regex_suggestion(Facts[m.source].description)} \cup suggest_regex_with_openai :
         Key(IF chosen = Blank THEN app
             ELSE [app EXCEPT !.modal = [action |-> "regex", source |-> m.source, category |-> chosen,
                                         input |-> suggested]])
  BY <1>3, <1>5 DEF AskForRegex
<1>7. suggested \in Expression
  <2>1. CASE suggested \in suggest_regex_with_openai
    BY <2>1 DEF suggest_regex_with_openai, Expression
  <2>2. CASE suggested = fallback_regex_suggestion(Facts[m.source].description)
    <3>1. suggested \in {{Facts[t].description : t \in Txn}, {Facts[m.source].description}}
      BY <2>2 DEF fallback_regex_suggestion
    <3> QED BY <1>4, <3>1 DEF Expression
  <2> QED BY <2>1, <2>2
<1>8. CASE chosen = Blank
  <2>1. Over(app, tx_row) /\ Shows(app) /\ DialogTyped(app.modal)
    BY <1>3, <1>4 DEF TerminalInv, Pressed
  <2> QED BY <1>4, <1>6, <1>8, <2>1, KeyKeeps
<1>9. CASE chosen # Blank
  <2>1. PICK d : d = [action |-> "regex", source |-> m.source, category |-> chosen, input |-> suggested]
    OBVIOUS
  <2>2. d \in RegexDialog /\ d.source = m.source
    BY <1>4, <1>5, <1>7, <1>9, <2>1 DEF RegexDialog
  <2>3. DialogTyped(d)
    BY <2>2 DEF DialogTyped
  <2> QED BY <1>3, <1>4, <1>6, <1>9, <2>1, <2>2, <2>3, DialogChanged
<1> QED BY <1>8, <1>9

\* The category of a transaction is one, if it has any.
LEMMA ResolvedTyped ==
  ASSUME NEW a, Listed(a), NEW t \in DOMAIN a.listed
  PROVE  resolved_transaction_category(a, t) \in Category \cup {Nothing}
<1>1. a.listed[t] \in Category \cup {Nothing} /\ t \in Txn
  BY DEF Listed
<1>2. Facts[t].metadata \in Category \cup {Nothing}
  BY <1>1, TerminalAssumption
<1>3. match_category(a.matcher, t) \in Category \cup {Nothing}
  <2> DEFINE matching == {i \in DOMAIN a.matcher : is_match(a.matcher[i], t)}
  <2>1. CASE matching = {}
    BY <2>1 DEF match_category
  <2>2. CASE matching # {}
    <3>1. matching \subseteq Nat /\ matching \subseteq DOMAIN a.matcher
      BY DEF Listed
    <3>2. \E m \in matching : \A k \in matching : m <= k
      <4> HIDE DEF matching
      <4> QED BY <2>2, <3>1, Least
    <3>3. Min(matching) \in matching
      <4> HIDE DEF matching
      <4> QED BY <3>2 DEF Min
    <3>4. match_category(a.matcher, t) = a.matcher[Min(matching)].category
      BY <2>2 DEF match_category
    <3>5. Min(matching) \in DOMAIN a.matcher
      <4> HIDE DEF matching
      <4> QED BY <3>1, <3>3
    <3> HIDE DEF matching
    <3> QED BY <3>4, <3>5 DEF Listed
  <2> QED BY <2>1, <2>2
<1> QED BY <1>1, <1>2, <1>3 DEF resolved_transaction_category

\* c and C: a dialog is opened for the highlighted transaction.
LEMMA OpenDialogKeeps ==
  ASSUME TerminalInv, OpenDialog
  PROVE  TerminalInv'
<1>1. NoDialog /\ Pressed /\ app.active_view = "transactions" /\ app.modal = Nothing
  BY DEF OpenDialog, NoDialog
<1>2. PICK t : t = Highlighted(app, tx_row)
  OBVIOUS
<1>3. PICK current : current = resolved_transaction_category(app, t)
  OBVIOUS
<1>4. PICK action \in {"one_off", "rule"} :
         IF t = Nothing THEN Key(app)
         ELSE Key([app EXCEPT !.modal = refresh_category_suggestions(app,
                      [action |-> action, source |-> t,
                       input |-> IF current = Nothing THEN Blank ELSE current,
                       suggestions |-> <<>>, selected |-> 1, active |-> FALSE])])
  BY <1>2, <1>3 DEF OpenDialog
<1>5. CASE t = Nothing
  BY <1>1, <1>4, <1>5, TerminalParts, NoDialogKeeps
<1>6. CASE t # Nothing
  <2>1. tx_row \in DOMAIN app.visible /\ app.visible[tx_row] = t
    BY <1>2, <1>6 DEF Highlighted
  <2>2. t \in DOMAIN app.listed /\ t \in Txn
    BY <2>1, TerminalParts
  <2>3. current \in Category \cup {Nothing}
    BY <1>3, <2>2, TerminalParts, ResolvedTyped
  <2>4. PICK m : m = [action |-> action, source |-> t,
                      input |-> IF current = Nothing THEN Blank ELSE current,
                      suggestions |-> <<>>, selected |-> 1, active |-> FALSE]
    OBVIOUS
  <2>5. m \in CategoryDialog /\ m.source = t
    BY <2>2, <2>3, <2>4 DEF CategoryDialog
  <2>6. PICK d : d = refresh_category_suggestions(app, m)
    OBVIOUS
  <2>7. DialogTyped(d) /\ d.source = t
    BY <2>5, <2>6, SuggestionsTyped
  <2>8. Key([app EXCEPT !.modal = d])
    BY <1>4, <1>6, <2>4, <2>6
  <2> QED BY <1>1, <2>1, <2>7, <2>8, DialogSet
<1> QED BY <1>5, <1>6

\* The row of a transaction that is shown is its row.
LEMMA SelectedById ==
  ASSUME NEW a, RowsShown(a), NEW row \in Row, NEW t
  PROVE  /\ select_transaction_by_id(a, row, t) \in Row
         /\ t \in Range(a.visible) =>
               /\ select_transaction_by_id(a, row, t) \in 1 .. Len(a.visible)
               /\ a.visible[select_transaction_by_id(a, row, t)] = t
<1>1. Len(a.visible) \in Nat /\ DOMAIN a.visible = 1 .. Len(a.visible)
  <2>1. a.visible \in Seq(DOMAIN a.listed)
    BY DEF RowsShown
  <2> QED BY <2>1
<1>2. CASE t \in Range(a.visible)
  <2>1. \E i \in DOMAIN a.visible : a.visible[i] = t
    BY <1>2 DEF Range
  <2>2. PlaceIn(a.visible, t) \in DOMAIN a.visible /\ a.visible[PlaceIn(a.visible, t)] = t
    BY <2>1 DEF PlaceIn
  <2>3. select_transaction_by_id(a, row, t) = PlaceIn(a.visible, t)
    BY <1>2 DEF select_transaction_by_id
  <2>4. PlaceIn(a.visible, t) \in Nat \ {0}
    BY <1>1, <2>2
  <2> QED BY <1>1, <2>2, <2>3, <2>4 DEF Row
<1>3. CASE t \notin Range(a.visible)
  BY <1>3 DEF select_transaction_by_id
<1> QED BY <1>2, <1>3

\* What the dialog says is written, and what is listed loaded anew; nothing else is written.
LEMMA CategorySet ==
  ASSUME TerminalInv, SetCategory, app.modal.source \in stored,
         NEW t, t = app.modal.source, NEW chosen, chosen = selected_category_from_modal(app.modal)
  PROVE  /\ annotated' = [annotated EXCEPT ![t] = IF chosen = Blank THEN Nothing ELSE chosen]
         /\ annotated' \in [Txn -> Category \cup {Nothing}] /\ t \in Txn /\ chosen \in Category \cup {Blank}
         /\ UNCHANGED <<stored, rules_file, today, elsewhere, running>>
         /\ keys < MaxKeys /\ keys' = keys + 1
         /\ \E a : /\ Shows(a) /\ a.modal = Nothing /\ a.matcher = load_transaction_category_rules(rules_file)
                   /\ Drawn(a, select_transaction_by_id(a, tx_row, t), net_worth_row)
                   /\ a.active_view = "transactions"
                   /\ \A u \in DOMAIN a.listed : a.listed[u] = annotated'[u]
<1>1. InDialog({"one_off"})
  BY DEF SetCategory
<1>2. InDialog({"one_off", "rule"})
  BY <1>1 DEF InDialog
<1>3. Pressed /\ app.modal # Nothing /\ t \in Txn /\ chosen \in Category \cup {Blank}
  BY <1>2, InCategoryDialog
<1>4. annotated' = [annotated EXCEPT ![t] = IF chosen = Blank THEN Nothing ELSE chosen]
  BY DEF SetCategory
<1>5. stored \subseteq Txn /\ annotated \in [Txn -> Category \cup {Nothing}] /\ LinesTyped(rules_file)
  BY DEF TerminalInv, FilesTyped
<1>6. annotated' \in [Txn -> Category \cup {Nothing}]
  BY <1>3, <1>4, <1>5
<1>7. PICK files : files = annotated'
  OBVIOUS
<1>8. PICK b : b = [app EXCEPT !.modal = Nothing]
  OBVIOUS
<1>9. SameBut(app, b, {"modal"}) /\ b.modal = Nothing
  BY <1>8, TerminalParts DEF IsApp, SameBut
<1>10. Shows(b)
  BY <1>9, TerminalParts, SameShows
<1>11. PICK a : a = Reloaded(b, files, rules_file)
  OBVIOUS
<1>12. /\ Shows(a) /\ a.modal = b.modal /\ a.active_view = b.active_view
       /\ a.matcher = load_transaction_category_rules(rules_file)
       /\ \A u \in DOMAIN a.listed : a.listed[u] = files[u]
  BY <1>5, <1>6, <1>7, <1>10, <1>11, TerminalParts, ReloadShows DEF Shows
<1>13. Drawn(a, select_transaction_by_id(a, tx_row, t), net_worth_row)
  BY <1>7, <1>8, <1>11 DEF SetCategory
<1>14. UNCHANGED <<stored, rules_file, today, elsewhere, running>>
  BY <1>13 DEF SetCategory, Drawn
<1>15. keys < MaxKeys /\ keys' = keys + 1 /\ running = "running"
  BY <1>3 DEF Pressed
<1>16. app.active_view = "transactions"
  BY <1>3, <1>15 DEF TerminalInv, Over
<1>17. a.active_view = "transactions" /\ a.modal = Nothing
  BY <1>9, <1>12, <1>16 DEF SameBut
<1> QED BY <1>3, <1>4, <1>6, <1>7, <1>12, <1>13, <1>14, <1>15, <1>17

\* The loop ends, with what it showed.
LEMMA EndedKeeps ==
  ASSUME TerminalInv, keys < MaxKeys, keys' = keys + 1, running' = "failed",
         UNCHANGED <<stored, annotated, rules_file, today, elsewhere, app, tx_row, net_worth_row>>
  PROVE  TerminalInv'
<1>2. FilesTyped'
  BY DEF TerminalInv, FilesTyped
<1>3. LoopTyped'
  <2>1. keys \in Nat /\ MaxKeys \in Nat
    BY TerminalAssumption DEF TerminalInv, LoopTyped
  <2>2. keys' \in 0 .. MaxKeys
    BY <2>1
  <2> QED BY <2>2 DEF TerminalInv, LoopTyped
<1>4. Shows(app)' /\ DialogTyped(app.modal)'
  BY DEF TerminalInv, Shows, Loaded, Listed, IsApp, RowsShown, PointsShown, Inside, DialogTyped
<1>5. (app.matcher = load_transaction_category_rules(rules_file))'
  BY DEF TerminalInv, load_transaction_category_rules
<1> QED BY <1>2, <1>3, <1>4, <1>5 DEF TerminalInv

\* Enter: the category is set.
LEMMA SetCategoryKeeps ==
  ASSUME TerminalInv, SetCategory
  PROVE  TerminalInv'
<1>1. CASE app.modal.source \in stored
  <2>1. PICK t, chosen : t = app.modal.source /\ chosen = selected_category_from_modal(app.modal)
    OBVIOUS
  <2>2. PICK a : /\ Shows(a) /\ a.modal = Nothing /\ a.matcher = load_transaction_category_rules(rules_file)
                 /\ Drawn(a, select_transaction_by_id(a, tx_row, t), net_worth_row)
    BY <1>1, <2>1, CategorySet
  <2>3. /\ annotated' \in [Txn -> Category \cup {Nothing}]
        /\ UNCHANGED <<stored, rules_file, today, elsewhere, running>>
        /\ keys < MaxKeys /\ keys' = keys + 1
    BY <1>1, <2>1, CategorySet
  <2>4. FilesTyped'
    BY <2>3 DEF TerminalInv, FilesTyped
  <2>5. tx_row \in Row /\ net_worth_row \in Row
    BY DEF TerminalInv, LoopTyped
  <2>6. PICK row : row = select_transaction_by_id(a, tx_row, t)
    OBVIOUS
  <2>7. row \in Row
    BY <2>2, <2>5, <2>6, SelectedById DEF Shows
  <2>8. DialogTyped(a.modal)
    BY <2>2 DEF DialogTyped
  <2>9. a.matcher = load_transaction_category_rules(rules_file')
    BY <2>2, <2>3
  <2> QED BY <2>2, <2>3, <2>4, <2>5, <2>6, <2>7, <2>8, <2>9, DrawnKeeps
<1>2. CASE app.modal.source \notin stored
  <2>1. /\ running' = "failed"
        /\ UNCHANGED <<stored, annotated, rules_file, today, elsewhere, app, tx_row, net_worth_row>>
        /\ keys < MaxKeys /\ keys' = keys + 1
    BY <1>2 DEF SetCategory, Fail, InDialog, Pressed
  <2> QED BY <2>1, EndedKeeps
<1> QED BY <1>1, <1>2

\* A rule is added to the lines, and read with them.
LEMMA RuleAdded ==
  ASSUME TerminalInv, AddRule, app.modal.input \notin {Blank, Malformed},
         NEW rule, rule = [category |-> app.modal.category,
                           matchers |-> [f \in {"account_name", "description"} |->
                               IF f = "account_name"
                               THEN exact_ci_regex_pattern(Facts[app.modal.source].account_name)
                               ELSE app.modal.input]]
  PROVE  /\ app.modal \in RegexDialog
         /\ rules_file' = Append(rules_file, rule)
         /\ rules_file \in Seq(Range(rules_file)) /\ LinesTyped(rules_file')
         /\ UNCHANGED <<stored, annotated, today, elsewhere, running>>
         /\ keys < MaxKeys /\ keys' = keys + 1
         /\ \E a : /\ SameBut(app, a, {"matcher", "modal"}) /\ Shows(a) /\ a.modal = Nothing
                   /\ a.matcher = load_transaction_category_rules(rules_file')
                   /\ Drawn(a, select_transaction_by_id(a, tx_row, app.modal.source), net_worth_row)
<1>1. PICK m : m = app.modal
  OBVIOUS
<1>2. Pressed /\ m # Nothing /\ m \in RegexDialog
  BY <1>1, InRegexDialog DEF AddRule
<1>3. m.category \in Category
  BY <1>2 DEF RegexDialog
<1>4. PICK lines : lines = Append(rules_file, rule)
  OBVIOUS
<1>5. rules_file' = lines
  BY <1>4 DEF AddRule
<1>6. LinesTyped(rules_file) /\ rules_file \in Seq(Range(rules_file))
  BY DEF TerminalInv, FilesTyped, LinesTyped
<1>7. LineTyped(rule)
  <2>1. rule.category = m.category /\ DOMAIN rule.matchers = {"account_name", "description"}
    BY <1>1
  <2> QED BY <1>3, <2>1 DEF LineTyped, RuleField
<1>8. LinesTyped(lines)
  <2>1. PICK n : n = Len(rules_file)
    OBVIOUS
  <2>2. n \in Nat /\ DOMAIN rules_file = 1 .. n /\ lines \in Seq(Range(rules_file) \cup {rule})
        /\ Len(lines) = n + 1
    BY <1>4, <1>6, <2>1
  <2>3. DOMAIN lines = 1 .. n + 1 /\ lines[n + 1] = rule /\ \A i \in 1 .. n : lines[i] = rules_file[i]
    BY <1>4, <1>6, <2>1, <2>2
  <2>4. ASSUME NEW line \in Range(lines) PROVE LineTyped(line)
    <3>1. PICK i \in 1 .. n + 1 : line = lines[i]
      BY <2>3 DEF Range
    <3>2. CASE i = n + 1
      BY <1>7, <2>3, <3>1, <3>2
    <3>3. CASE i # n + 1
      <4>1. i \in 1 .. n
        BY <2>2, <3>3
      <4> QED BY <1>6, <2>2, <2>3, <3>1, <4>1 DEF LinesTyped, Range
    <3> QED BY <3>2, <3>3
  <2>5. lines \in Seq(Range(lines))
    <3>1. lines \in [1 .. n + 1 -> Range(lines)]
      BY <2>2, <2>3 DEF Range
    <3> QED BY <2>2, <3>1
  <2> QED BY <2>4, <2>5 DEF LinesTyped
<1>9. PICK rules : rules = load_transaction_category_rules(lines)
  OBVIOUS
<1>10. DOMAIN rules \subseteq Nat /\ \A i \in DOMAIN rules : rules[i].category \in Category
  BY <1>8, <1>9, RulesTyped
<1>11. PICK a : a = [app EXCEPT !.matcher = rules, !.modal = Nothing]
  OBVIOUS
<1>12. SameBut(app, a, {"matcher", "modal"}) /\ a.matcher = rules /\ a.modal = Nothing
  <2>1. PICK b : b = [app EXCEPT !.matcher = rules]
    OBVIOUS
  <2>2. SameBut(app, b, {"matcher"}) /\ b.matcher = rules
    BY <2>1, TerminalParts DEF IsApp, SameBut
  <2>3. a = [b EXCEPT !.modal = Nothing]
    BY <1>11, <2>1
  <2>4. SameBut(b, a, {"modal"}) /\ a.modal = Nothing
    BY <2>2, <2>3 DEF IsApp, SameBut
  <2> QED BY <2>2, <2>4 DEF SameBut
<1>13. Shows(a)
  <2>1. Listed(a)
    BY <1>10, <1>12, TerminalParts DEF Listed, SameBut
  <2>2. Loaded(a)
    BY <1>12, <2>1, TerminalParts DEF Loaded, SameBut
  <2>3. RowsShown(a) /\ PointsShown(a)
    BY <1>12, TerminalParts DEF RowsShown, PointsShown, SameBut
  <2> QED BY <2>2, <2>3 DEF Shows
<1>14. Drawn(a, select_transaction_by_id(a, tx_row, m.source), net_worth_row)
  BY <1>1, <1>5, <1>9, <1>11 DEF AddRule
<1>15. UNCHANGED <<stored, annotated, today, elsewhere, running>> /\ keys < MaxKeys /\ keys' = keys + 1
  BY <1>2, <1>14 DEF AddRule, Drawn, Pressed
<1> QED BY <1>1, <1>2, <1>4, <1>5, <1>6, <1>8, <1>9, <1>12, <1>13, <1>14, <1>15

\* Enter: the rule is added.
LEMMA AddRuleKeeps ==
  ASSUME TerminalInv, AddRule
  PROVE  TerminalInv'
<1>1. CASE app.modal.input \in {Blank, Malformed}
  <2>1. Pressed /\ app.modal # Nothing /\ Key(app)
    BY <1>1 DEF AddRule, InDialog
  <2>2. Shows(app) /\ DialogTyped(app.modal) /\ Over(app, tx_row)
    BY <2>1 DEF TerminalInv, Pressed
  <2> QED BY <2>1, <2>2, KeyKeeps
<1>2. CASE app.modal.input \notin {Blank, Malformed}
  <2>1. PICK rule : rule = [category |-> app.modal.category,
                            matchers |-> [f \in {"account_name", "description"} |->
                               IF f = "account_name"
                               THEN exact_ci_regex_pattern(Facts[app.modal.source].account_name)
                               ELSE app.modal.input]]
    OBVIOUS
  <2>2. PICK a : /\ SameBut(app, a, {"matcher", "modal"}) /\ Shows(a) /\ a.modal = Nothing
                 /\ a.matcher = load_transaction_category_rules(rules_file')
                 /\ Drawn(a, select_transaction_by_id(a, tx_row, app.modal.source), net_worth_row)
    BY <1>2, <2>1, RuleAdded
  <2>3. /\ LinesTyped(rules_file') /\ UNCHANGED <<stored, annotated, today, elsewhere, running>>
        /\ keys < MaxKeys /\ keys' = keys + 1
    BY <1>2, <2>1, RuleAdded
  <2>4. FilesTyped'
    BY <2>3 DEF TerminalInv, FilesTyped
  <2>5. tx_row \in Row /\ net_worth_row \in Row
    BY DEF TerminalInv, LoopTyped
  <2>6. PICK row : row = select_transaction_by_id(a, tx_row, app.modal.source)
    OBVIOUS
  <2>7. row \in Row
    BY <2>2, <2>5, <2>6, SelectedById DEF Shows
  <2>8. DialogTyped(a.modal)
    BY <2>2 DEF DialogTyped
  <2> QED BY <2>2, <2>3, <2>4, <2>5, <2>6, <2>7, <2>8, DrawnKeeps
<1> QED BY <1>1, <1>2

\* Files change under what is shown.
LEMMA ChangedElsewhereKeeps ==
  ASSUME TerminalInv, ChangedElsewhere
  PROVE  TerminalInv'
<1>1. UNCHANGED <<rules_file, today, app, tx_row, net_worth_row, running, keys>>
  BY DEF ChangedElsewhere
<1>2. stored \subseteq Txn /\ annotated \in [Txn -> Category \cup {Nothing}]
  BY DEF TerminalInv, FilesTyped
<1>3. stored' \subseteq Txn /\ annotated' \in [Txn -> Category \cup {Nothing}]
  <2>1. CASE \E t \in Txn \ stored : stored' = stored \cup {t} /\ UNCHANGED annotated
    BY <1>2, <2>1
  <2>2. CASE \E t \in stored : stored' = stored \ {t} /\ annotated' = [annotated EXCEPT ![t] = Nothing]
    BY <1>2, <2>2
  <2>3. CASE \E t \in stored, c \in Range(Alphabet) : annotated' = [annotated EXCEPT ![t] = c] /\ UNCHANGED stored
    <3>1. PICK t \in stored, c \in Category : annotated' = [annotated EXCEPT ![t] = c] /\ stored' = stored
      BY <2>3 DEF Category
    <3> QED BY <1>2, <3>1
  <2> QED BY <2>1, <2>2, <2>3 DEF ChangedElsewhere
<1>4. elsewhere' \in 0 .. MaxElsewhere
  BY TerminalAssumption DEF ChangedElsewhere, TerminalInv, FilesTyped
<1>5. FilesTyped'
  BY <1>1, <1>3, <1>4 DEF TerminalInv, FilesTyped
<1>6. LoopTyped'
  BY <1>1 DEF TerminalInv, LoopTyped
<1>7. Shows(app)' /\ DialogTyped(app.modal)'
  BY <1>1 DEF TerminalInv, Shows, Loaded, Listed, IsApp, RowsShown, PointsShown, Inside, DialogTyped
<1>8. (app.modal # Nothing /\ running = "running" => Over(app, tx_row))'
  BY <1>1 DEF TerminalInv, Over
<1>9. (app.matcher = load_transaction_category_rules(rules_file))'
  BY <1>1 DEF TerminalInv, load_transaction_category_rules
<1> QED BY <1>5, <1>6, <1>7, <1>8, <1>9 DEF TerminalInv

\* A day is over: what was outside the span stays outside.
LEMMA MidnightKeeps ==
  ASSUME TerminalInv, Midnight
  PROVE  TerminalInv'
<1>1. UNCHANGED <<stored, annotated, rules_file, app, tx_row, net_worth_row, running, keys, elsewhere>>
      /\ today' = today + 1 /\ today < MaxDay
  BY DEF Midnight
<1>2. today \in FirstDay .. MaxDay /\ FirstDay \in Int /\ MaxDay \in Int
  BY TerminalAssumption DEF TerminalInv, FilesTyped
<1>3. FilesTyped'
  <2>1. today' \in FirstDay .. MaxDay
    BY <1>1, <1>2
  <2> QED BY <1>1, <2>1 DEF TerminalInv, FilesTyped
<1>4. LoopTyped'
  BY <1>1 DEF TerminalInv, LoopTyped
<1>5. Loaded(app)' /\ DialogTyped(app.modal)'
  BY <1>1 DEF TerminalInv, Shows, Loaded, Listed, IsApp, DialogTyped
<1>6. ASSUME NEW day \in Int, Inside(day, app.span)' PROVE Inside(day, app.span)
  <2>1. app.span = Nothing \/ app.span \in Int
    <3>1. app.span \in Range(TimeSpan)
      BY TerminalParts DEF Listed
    <3> QED BY <3>1 DEF TimeSpan, Range
  <2>2. CASE app.span = Nothing
    BY <2>2 DEF Inside
  <2>3. CASE app.span \in Int /\ app.span # Nothing
    <3>1. app'.span = Nothing \/ day >= today' - app'.span
      BY <1>6 DEF Inside
    <3>2. app' = app /\ today' = today + 1
      BY <1>1
    <3>3. day >= (today + 1) - app.span
      BY <2>3, <3>1, <3>2
    <3>4. day >= today - app.span
      BY <1>2, <2>3, <3>3
    <3> QED BY <3>4 DEF Inside
  <2> QED BY <2>1, <2>2, <2>3
<1>7. RowsShown(app)'
  <2>1. \A t \in DOMAIN app.listed : Facts[t].day \in Int
    BY TerminalParts, TerminalAssumption
  <2>2. \A t \in DOMAIN app.listed : Inside(Facts[t].day, app.span)' => t \in Range(app.visible)
    BY <1>6, <2>1, TerminalParts DEF RowsShown
  <2>3. app.visible \in Seq(DOMAIN app.listed) /\ app' = app
    BY <1>1, TerminalParts
  <2> QED BY <2>2, <2>3 DEF RowsShown
<1>8. PointsShown(app)'
  <2>1. \A p \in app.points : p.day \in Int
    BY TerminalParts DEF Loaded
  <2>2. \A p \in app.points : Inside(p.day, app.span)' => p \in Range(app.visible_points)
    BY <1>6, <2>1, TerminalParts DEF PointsShown
  <2>3. app.visible_points \in Seq(app.points) /\ app' = app
    BY <1>1, TerminalParts DEF PointsShown
  <2> QED BY <2>2, <2>3 DEF PointsShown
<1>9. (app.modal # Nothing /\ running = "running" => Over(app, tx_row))'
  BY <1>1 DEF TerminalInv, Over
<1>10. (app.matcher = load_transaction_category_rules(rules_file))'
  BY <1>1 DEF TerminalInv, load_transaction_category_rules
<1> QED BY <1>3, <1>4, <1>5, <1>7, <1>8, <1>9, <1>10 DEF TerminalInv, Shows

\* What is shown at first.
LEMMA NewAppShows ==
  ASSUME TerminalInit, NEW view \in TuiView
  PROVE  Shows(NewApp(view, "daily")) /\ NewApp(view, "daily").modal = Nothing
         /\ NewApp(view, "daily").matcher = load_transaction_category_rules(rules_file)
<1>1. /\ stored \subseteq Txn /\ annotated = [t \in Txn |-> Nothing] /\ rules_file = FirstRules /\ today \in Int
  BY TerminalAssumption DEF TerminalInit
<1>2. LinesTyped(FirstRules)
  BY TerminalAssumption DEF LinesTyped, LineTyped
<1> DEFINE list == load_transactions(FALSE)
<1> DEFINE rules == load_transaction_category_rules(rules_file)
<1> DEFINE a == [active_view |-> view, listed |-> list, visible |-> <<>>, matcher |-> rules,
                 points |-> {}, visible_points |-> <<>>, interval |-> "daily",
                 loaded |-> FALSE, error |-> FALSE,
                 span |-> 30, sort |-> "date_desc", include_ignored |-> FALSE, modal |-> Nothing]
<1>3. DOMAIN list \subseteq Txn /\ \A t \in DOMAIN list : list[t] \in Category \cup {Nothing}
  BY <1>1 DEF load_transactions
<1>4. DOMAIN rules \subseteq Nat /\ \A i \in DOMAIN rules : rules[i].category \in Category
  BY <1>1, <1>2, RulesTyped
<1>5. NewApp(view, "daily") = recompute_visible_transactions(a)
  BY DEF NewApp
<1> HIDE DEF list, rules
<1>6. 30 \in Range(TimeSpan) /\ "date_desc" \in Range(SortMode) /\ "daily" \in Range(NetWorthInterval)
  <2>1. TimeSpan[2] = 30 /\ SortMode[1] = "date_desc" /\ NetWorthInterval[3] = "daily"
    BY DEF TimeSpan, SortMode, NetWorthInterval
  <2>2. 2 \in DOMAIN TimeSpan /\ 1 \in DOMAIN SortMode /\ 3 \in DOMAIN NetWorthInterval
    BY DEF TimeSpan, SortMode, NetWorthInterval
  <2> QED BY <2>1, <2>2 DEF Range
<1>7. IsApp(a)
  BY DEF IsApp
<1>8. Listed(a)
  BY <1>3, <1>4, <1>6, <1>7 DEF Listed
<1>9. Loaded(a) /\ PointsShown(a)
  BY <1>8, FS_EmptySet DEF Loaded, PointsShown
<1>10. a.modal = Nothing /\ a.matcher = rules
  OBVIOUS
<1> HIDE DEF a
<1>11. Shows(recompute_visible_transactions(a)) /\ SameBut(a, recompute_visible_transactions(a), {"visible"})
  BY <1>1, <1>9, RowsRecomputed
<1> QED BY <1>5, <1>10, <1>11 DEF SameBut, rules

\* The interface starts.
LEMMA TerminalInitHolds == TerminalInit => TerminalInv
<1> SUFFICES ASSUME TerminalInit PROVE TerminalInv
  OBVIOUS
<1>1. TuiView = {"transactions", "net_worth"} /\ today \in Int
  BY TerminalAssumption DEF TuiView, TerminalInit
<1>2. PICK n : n = NewApp("net_worth", "daily")
  OBVIOUS
<1>3. Shows(n) /\ n.modal = Nothing /\ n.matcher = load_transaction_category_rules(rules_file)
  BY <1>1, <1>2, NewAppShows
<1>4. Shows(app) /\ app.modal = Nothing /\ app.matcher = load_transaction_category_rules(rules_file)
  <2>1. CASE app = NewApp("transactions", "daily")
    BY <1>1, <2>1, NewAppShows
  <2>2. CASE app \in refresh_net_worth(n)
    <3>1. Listed(n) /\ RowsShown(n)
      BY <1>3 DEF Shows, Loaded
    <3>2. Shows(app) /\ SameBut(n, app, {"points", "visible_points"})
      BY <1>1, <2>2, <3>1, NetWorthRefreshed
    <3> QED BY <1>3, <3>2 DEF SameBut
  <2> QED BY <1>2, <2>1, <2>2 DEF TerminalInit
<1>5. FilesTyped
  <2>1. LinesTyped(rules_file)
    BY TerminalAssumption DEF LinesTyped, LineTyped, TerminalInit
  <2> QED BY <2>1, TerminalAssumption DEF TerminalInit, FilesTyped
<1>6. LoopTyped
  <2>1. app.visible \in Seq(DOMAIN app.listed) /\ app.visible_points \in Seq(app.points)
    BY <1>4 DEF Shows, RowsShown, PointsShown
  <2>2. Len(app.visible) \in Nat /\ Len(app.visible_points) \in Nat /\ 1 \in Row
    BY <2>1 DEF Row
  <2>3. tx_row \in Row /\ net_worth_row \in Row
    BY <2>2, Clamped DEF TerminalInit
  <2> QED BY <2>3, TerminalAssumption DEF TerminalInit, LoopTyped
<1> QED BY <1>4, <1>5, <1>6 DEF TerminalInv, DialogTyped

\* And goes on.
LEMMA TerminalStepKeeps == TerminalInv /\ [TerminalNext]_terminalVars => TerminalInv'
<1> SUFFICES ASSUME TerminalInv, [TerminalNext]_terminalVars PROVE TerminalInv'
  OBVIOUS
<1>1. CASE Quit \/ ToggleView \/ MoveHighlight \/ ChangeSort \/ ChangeSpan \/ ChangeInterval
           \/ Reload \/ ToggleIgnored
  BY <1>1, QuitKeeps, ToggleViewKeeps, MoveHighlightKeeps, ChangeSortKeeps, ChangeSpanKeeps,
     ChangeIntervalKeeps, ReloadKeeps, ToggleIgnoredKeeps
<1>2. CASE OpenDialog \/ CancelDialog \/ ChooseSuggestion \/ TakeSuggestion
           \/ WriteCategory \/ WriteRegex
  BY <1>2, OpenDialogKeeps, CancelDialogKeeps, ChooseSuggestionKeeps, TakeSuggestionKeeps,
     WriteCategoryKeeps, WriteRegexKeeps
<1>3. CASE SetCategory \/ AskForRegex \/ AddRule
  BY <1>3, SetCategoryKeeps, AskForRegexKeeps, AddRuleKeeps
<1>4. CASE ChangedElsewhere \/ Midnight
  BY <1>4, ChangedElsewhereKeeps, MidnightKeeps
<1>5. CASE UNCHANGED terminalVars
  <2>1. UNCHANGED <<stored, annotated, rules_file, today, app, tx_row, net_worth_row, running, keys, elsewhere>>
    BY <1>5 DEF terminalVars
  <2>2. FilesTyped' /\ LoopTyped'
    BY <2>1 DEF TerminalInv, FilesTyped, LoopTyped
  <2>3. Shows(app)' /\ DialogTyped(app.modal)'
    BY <2>1 DEF TerminalInv, Shows, Loaded, Listed, IsApp, RowsShown, PointsShown, Inside, DialogTyped
  <2>4. (app.modal # Nothing /\ running = "running" => Over(app, tx_row))'
    BY <2>1 DEF TerminalInv, Over
  <2>5. (app.matcher = load_transaction_category_rules(rules_file))'
    BY <2>1 DEF TerminalInv, load_transaction_category_rules
  <2> QED BY <2>2, <2>3, <2>4, <2>5 DEF TerminalInv
<1> QED BY <1>1, <1>2, <1>3, <1>4, <1>5 DEF TerminalNext

\* The invariant of the interface: what is visible is all of what was loaded that lies
\* within the span, and a dialog is over the row of its transaction.
LEMMA TerminalInvariant == TerminalSpec => []TerminalInv
BY TerminalInitHolds, TerminalStepKeeps, PTL DEF TerminalSpec

\* Days of the windows are numbers.
LEMMA WindowsTyped == \A d \in Range(spending_windows_from_config) : d \in Int
<1> DEFINE days == {d \in WindowDays : d > 0}
<1> DEFINE T == IF days = {} THEN {7, 30, 90} ELSE days
<1> DEFINE R == {p \in T \X T : p[1] < p[2]}
<1>1. T \subseteq Int /\ IsFiniteSet(T)
  <2>1. days \subseteq Int /\ IsFiniteSet(days)
    BY TerminalAssumption, FS_Subset
  <2>2. {7, 30, 90} \subseteq Int /\ IsFiniteSet({7, 30, 90})
    <3>1. IsFiniteSet({90})
      BY FS_Singleton
    <3>2. IsFiniteSet({90} \cup {30})
      BY <3>1, FS_AddElement
    <3>3. IsFiniteSet(({90} \cup {30}) \cup {7})
      BY <3>2, FS_AddElement
    <3>4. {7, 30, 90} = ({90} \cup {30}) \cup {7}
      OBVIOUS
    <3> QED BY <3>3, <3>4
  <2> HIDE DEF days
  <2> QED BY <2>1, <2>2
<1> HIDE DEF days
<1>2. spending_windows_from_config = Sorted(T, LAMBDA k, l : k < l)
  BY DEF spending_windows_from_config, days
<1> HIDE DEF T
<1>3. StrictOrder(R, T)
  <2>1. \A k, l \in T : <<k, l>> \in R <=> k < l
    OBVIOUS
  <2> HIDE DEF R
  <2> QED BY <1>1, <2>1 DEF StrictOrder
<1>4. \E q \in [1 .. Cardinality(T) -> T] : \A i, j \in DOMAIN q : i < j => q[i] < q[j]
  <2> HIDE DEF R
  <2>1. PICK q : InOrderOf(R, T, q)
    BY <1>1, <1>3, OrderExists
  <2>2. q \in [1 .. Cardinality(T) -> T]
    BY <2>1 DEF InOrderOf
  <2>3. \A i, j \in DOMAIN q : i < j => q[i] < q[j]
    BY <2>1, <2>2 DEF InOrderOf, R
  <2> QED BY <2>2, <2>3
<1>5. Sorted(T, LAMBDA k, l : k < l) \in [1 .. Cardinality(T) -> T]
  BY <1>4 DEF Sorted
<1> QED BY <1>1, <1>2, <1>5 DEF Range

\* The types of the interface (TerminalTypeOK).
THEOREM TerminalTypes == TerminalSpec => []TerminalTypeOK
<1>1. ASSUME TerminalInv PROVE TerminalTypeOK
  <2>1. \A i \in DOMAIN rules_file : rules_file[i] = Malformed \/ DOMAIN rules_file[i].matchers \subseteq RuleField
    <3>1. \A line \in Range(rules_file) : LineTyped(line)
      BY <1>1 DEF TerminalInv, FilesTyped, LinesTyped
    <3> QED BY <3>1 DEF LineTyped, Range
  <2>2. /\ app.active_view \in TuiView /\ app.span \in Range(TimeSpan) /\ app.sort \in Range(SortMode)
        /\ app.interval \in Range(NetWorthInterval) /\ DOMAIN app.listed \subseteq Txn
    BY <1>1, TerminalParts DEF Listed
  <2>3. Range(app.visible) \subseteq DOMAIN app.listed /\ Range(app.visible_points) \subseteq app.points
    <3>1. app.visible \in Seq(DOMAIN app.listed) /\ app.visible_points \in Seq(app.points)
      BY <1>1, TerminalParts DEF RowsShown, PointsShown
    <3> QED BY <3>1 DEF Range
  <2>4. app.modal = Nothing \/ app.modal.source \in Txn
    BY <1>1 DEF TerminalInv, DialogTyped, CategoryDialog, RegexDialog
  <2> QED BY <1>1, <2>1, <2>2, <2>3, <2>4 DEF TerminalInv, FilesTyped, LoopTyped, Row, Category, TerminalTypeOK
<1> QED BY <1>1, TerminalInvariant, PTL

\* No row is missing from either view, a dialog is about the row highlighted behind it,
\* and the line above the rows is what they add up to (recompute_visible_transactions,
\* handle_modal_key, summarize_spending_window).
THEOREM ScreenStaysConsistent == TerminalSpec => []ScreenIsConsistent
<1>1. ASSUME TerminalInv PROVE EveryRowShown
  <2>1. \A p \in app.points : p.interval = app.interval
    BY <1>1, TerminalParts DEF Loaded
  <2> QED BY <1>1, <2>1, TerminalParts DEF RowsShown, PointsShown, EveryRowShown
<1>2. ASSUME TerminalInv PROVE DialogOnHighlighted
  <2>1. ASSUME app.modal # Nothing, running = "running"
        PROVE  app.active_view = "transactions" /\ Highlighted(app, tx_row) = app.modal.source
    <3>1. Over(app, tx_row)
      BY <1>2, <2>1 DEF TerminalInv
    <3>2. tx_row # Nothing
      <4>1. tx_row \in 1 .. Len(app.visible)
        BY <1>2, <3>1, TerminalParts DEF Over
      <4> QED BY <4>1, TerminalAssumption
    <3> QED BY <3>1, <3>2 DEF Over, Highlighted
  <2> QED BY <2>1 DEF DialogOnHighlighted
<1>3. ASSUME TerminalInv PROVE LineAgreesWithRows
  <2> SUFFICES ASSUME app.span \in Range(spending_windows_from_config), app.sort = "date_desc"
               PROVE  summarize_spending_window(app, app.span).total
                        = -MapThenSumSet(LAMBDA t : Facts[t].amount,
                             {t \in Range(app.visible) :
                                /\ Inside(Facts[t].day, app.span) /\ Facts[t].day <= today
                                /\ Facts[t].reporting /\ Facts[t].amount < 0
                                /\ Facts[t].tags \cap SpendingIgnoreTags = {}})
    BY DEF LineAgreesWithRows
  <2> DEFINE rows == {t \in Range(app.visible) :
                        /\ Inside(Facts[t].day, app.span) /\ Facts[t].day <= today
                        /\ Facts[t].reporting /\ Facts[t].amount < 0
                        /\ Facts[t].tags \cap SpendingIgnoreTags = {}}
  <2> DEFINE counted == {t \in DOMAIN app.listed :
                           /\ Facts[t].tags \cap SpendingIgnoreTags = {}
                           /\ Facts[t].reporting /\ Facts[t].amount < 0
                           /\ Facts[t].day <= today /\ today - Facts[t].day <= app.span}
  <2>1. app.span \in Int /\ app.span # Nothing /\ today \in Int
    BY <1>3, WindowsTyped, TerminalParts, TerminalAssumption
  <2>2. Range(app.visible) \subseteq DOMAIN app.listed
    <3>1. app.visible \in Seq(DOMAIN app.listed)
      BY <1>3, TerminalParts
    <3> QED BY <3>1 DEF Range
  <2>3. ASSUME NEW t \in DOMAIN app.listed
        PROVE  /\ Inside(Facts[t].day, app.span) <=> today - Facts[t].day <= app.span
               /\ Inside(Facts[t].day, app.span) => t \in Range(app.visible)
    <3>1. Facts[t].day \in Int
      BY <1>3, TerminalParts, TerminalAssumption
    <3>2. Inside(Facts[t].day, app.span) <=> Facts[t].day >= today - app.span
      BY <2>1 DEF Inside
    <3>3. Facts[t].day >= today - app.span <=> today - Facts[t].day <= app.span
      BY <2>1, <3>1
    <3> QED BY <1>3, <3>2, <3>3, TerminalParts DEF RowsShown
  <2>4. rows = counted
    <3>1. ASSUME NEW t \in rows PROVE t \in counted
      BY <2>2, <2>3
    <3>2. ASSUME NEW t \in counted PROVE t \in rows
      BY <2>3
    <3> HIDE DEF rows, counted
    <3> QED BY <3>1, <3>2
  <2>5. rows \in SUBSET Txn
    BY <1>3, <2>2, TerminalParts
  <2>6. summarize_spending_window(app, app.span).total = MapThenSumSet(LAMBDA t : -Facts[t].amount, counted)
    BY DEF summarize_spending_window
  <2> HIDE DEF rows, counted
  <2>7. MapThenSumSet(LAMBDA t : -Facts[t].amount, rows) = -MapThenSumSet(LAMBDA t : Facts[t].amount, rows)
    BY <2>5, AmountsAddUp
  <2> QED BY <2>4, <2>6, <2>7 DEF rows
<1> QED BY <1>1, <1>2, <1>3, TerminalInvariant, PTL DEF ScreenIsConsistent

\* After Enter the transaction has its category, and the highlight follows it.
LEMMA SetFollowed ==
  ASSUME TerminalInv
  PROVE  EditFollowed
<1> SUFFICES ASSUME SetCategory, running' = "running",
                    NEW t, t = app.modal.source, NEW chosen, chosen = selected_category_from_modal(app.modal)
             PROVE  /\ t \in Range(app'.visible) =>
                          /\ Highlighted(app', tx_row') = t
                          /\ chosen # Blank => resolved_transaction_category(app', t) = chosen
                    /\ \A u \in Txn \ {t} : annotated'[u] = annotated[u]
  BY DEF EditFollowed
<1>1. t \in stored
  BY DEF SetCategory, Fail
<1>2. /\ annotated' = [annotated EXCEPT ![t] = IF chosen = Blank THEN Nothing ELSE chosen]
      /\ annotated \in [Txn -> Category \cup {Nothing}] /\ t \in Txn /\ chosen \in Category \cup {Blank}
  BY <1>1, CategorySet DEF TerminalInv, FilesTyped
<1>3. PICK a : /\ Shows(a)
               /\ Drawn(a, select_transaction_by_id(a, tx_row, t), net_worth_row)
               /\ a.active_view = "transactions"
               /\ \A u \in DOMAIN a.listed : a.listed[u] = annotated'[u]
  BY <1>1, CategorySet
<1>4. \A u \in Txn \ {t} : annotated'[u] = annotated[u]
  BY <1>2
<1>5. RowsShown(a) /\ a.visible \in Seq(DOMAIN a.listed) /\ tx_row \in Row /\ app' = a
  BY <1>3 DEF Shows, RowsShown, TerminalInv, LoopTyped, Drawn
<1>6. ASSUME t \in Range(a.visible)
      PROVE  /\ Highlighted(a, tx_row') = t
             /\ chosen # Blank => resolved_transaction_category(a, t) = chosen
  <2>1. PICK row : row = select_transaction_by_id(a, tx_row, t)
    OBVIOUS
  <2>2. row \in 1 .. Len(a.visible) /\ a.visible[row] = t /\ row \in Row
    BY <1>5, <1>6, <2>1, SelectedById
  <2>3. tx_row' = clamp_selection(row, Len(a.visible))
    BY <1>3, <2>1 DEF Drawn
  <2>4. Len(a.visible) \in Nat /\ DOMAIN a.visible = 1 .. Len(a.visible)
    BY <1>5
  <2>5. tx_row' = row /\ row # Nothing
    <3>1. Nothing \notin Int
      BY TerminalAssumption
    <3> QED BY <2>2, <2>3, <2>4, <3>1, Clamped
  <2>6. Highlighted(a, tx_row') = t
    BY <2>2, <2>4, <2>5 DEF Highlighted
  <2>7. ASSUME chosen # Blank PROVE resolved_transaction_category(a, t) = chosen
    <3>1. t \in DOMAIN a.listed
      BY <1>5, <2>2, <2>4
    <3>2. a.listed[t] = chosen
      BY <1>2, <1>3, <2>7, <3>1
    <3>3. chosen # Nothing
      BY <1>2, <2>7, TerminalAssumption
    <3> QED BY <3>2, <3>3 DEF resolved_transaction_category
  <2> QED BY <2>6, <2>7
<1> QED BY <1>4, <1>5, <1>6

\* One rule more than there were, after them.
OneMore(old, new, last, rule) ==
    /\ last \in Nat /\ \A i \in DOMAIN old : i \in Nat /\ i < last /\ old[i].category # Nothing
    /\ DOMAIN new = DOMAIN old \cup {last}
    /\ \A i \in DOMAIN old : new[i] = old[i]
    /\ new[last] = rule

\* A rule that is added comes after all others.
LEMMA LastRule ==
  ASSUME NEW lines, NEW rule, LinesTyped(lines), WellFormed(rule)
  PROVE  OneMore(load_transaction_category_rules(lines), load_transaction_category_rules(Append(lines, rule)),
                 Len(lines) + 1, Compiled(rule))
<1> DEFINE old == load_transaction_category_rules(lines)
<1> DEFINE new == load_transaction_category_rules(Append(lines, rule))
<1>1. PICK n : n = Len(lines)
  OBVIOUS
<1>2. PICK more : more = Append(lines, rule)
  OBVIOUS
<1>3. n \in Nat /\ DOMAIN lines = 1 .. n /\ lines \in Seq(Range(lines))
  BY <1>1 DEF LinesTyped
<1>4. DOMAIN more = 1 .. n + 1 /\ more[n + 1] = rule /\ \A i \in 1 .. n : more[i] = lines[i]
  BY <1>1, <1>2, <1>3
<1>5. /\ DOMAIN old = {k \in 1 .. n : WellFormed(lines[k])}
      /\ DOMAIN new = {k \in 1 .. n + 1 : WellFormed(more[k])}
      /\ \A i \in DOMAIN old : old[i] = Compiled(lines[i])
      /\ \A i \in DOMAIN new : new[i] = Compiled(more[i])
  BY <1>2, <1>3, <1>4 DEF load_transaction_category_rules
<1>6. \A i : i \in 1 .. n + 1 <=> i \in 1 .. n \/ i = n + 1
  BY <1>3
<1>7. DOMAIN new = DOMAIN old \cup {n + 1}
  <2>1. ASSUME NEW i \in DOMAIN new PROVE i \in DOMAIN old \cup {n + 1}
    BY <1>4, <1>5, <1>6
  <2>2. ASSUME NEW i \in DOMAIN old \cup {n + 1} PROVE i \in DOMAIN new
    BY <1>4, <1>5, <1>6
  <2> QED BY <2>1, <2>2
<1>8. \A i \in DOMAIN old : new[i] = old[i]
  <2>1. ASSUME NEW i \in DOMAIN old PROVE new[i] = old[i]
    <3>1. i \in DOMAIN new /\ i \in 1 .. n
      BY <1>5, <1>7
    <3> QED BY <1>4, <1>5, <3>1
  <2> QED BY <2>1
<1>9. new[n + 1] = Compiled(rule)
  BY <1>4, <1>5, <1>7
<1>10. n + 1 \in Nat /\ \A i \in DOMAIN old : i \in Nat /\ i < n + 1
  BY <1>3, <1>5
<1>11. \A i \in DOMAIN old : old[i].category # Nothing
  BY RulesTyped, TerminalAssumption
<1> HIDE DEF old, new
<1>12. OneMore(old, new, n + 1, Compiled(rule))
  BY <1>7, <1>8, <1>9, <1>10, <1>11 DEF OneMore
<1> QED BY <1>1, <1>12 DEF old, new

\* So what an earlier one decides stays, and it decides what none does.
LEMMA FirstMatch ==
  ASSUME NEW old, NEW new, NEW last, NEW rule, OneMore(old, new, last, rule), NEW t
  PROVE  /\ match_category(old, t) # Nothing => match_category(new, t) = match_category(old, t)
         /\ match_category(old, t) = Nothing /\ is_match(rule, t) => match_category(new, t) = rule.category
<1>1. /\ last \in Nat /\ \A i \in DOMAIN old : i \in Nat /\ i < last /\ old[i].category # Nothing
      /\ DOMAIN new = DOMAIN old \cup {last} /\ new[last] = rule
      /\ \A i \in DOMAIN old : new[i] = old[i]
  BY DEF OneMore
<1> DEFINE before == {i \in DOMAIN old : is_match(old[i], t)}
<1> DEFINE after == {i \in DOMAIN new : is_match(new[i], t)}
<1>2. before \subseteq Nat /\ before \subseteq DOMAIN old
  BY <1>1
<1>3. before \subseteq after /\ after \subseteq before \cup {last}
  <2>1. ASSUME NEW i \in before PROVE i \in after
    BY <1>1
  <2>2. ASSUME NEW i \in after PROVE i \in before \cup {last}
    BY <1>1
  <2> QED BY <2>1, <2>2
<1>4. /\ match_category(old, t) = IF before = {} THEN Nothing ELSE old[Min(before)].category
      /\ match_category(new, t) = IF after = {} THEN Nothing ELSE new[Min(after)].category
  BY DEF match_category
<1>5. is_match(rule, t) => last \in after
  BY <1>1
<1> HIDE DEF before, after
<1>6. ASSUME before # {}
      PROVE  /\ match_category(old, t) # Nothing /\ match_category(new, t) = match_category(old, t)
  <2>1. PICK m \in before : \A k \in before : m <= k
    BY <1>2, <1>6, Least
  <2>2. m \in Nat /\ m < last /\ m \in DOMAIN old
    BY <1>1, <1>2, <2>1
  <2>3. Min(before) = m
    <3>1. Min(before) \in before /\ \A k \in before : Min(before) <= k
      BY <2>1 DEF Min
    <3>2. Min(before) \in Nat /\ Min(before) <= m /\ m <= Min(before)
      BY <1>2, <2>1, <3>1
    <3> QED BY <2>2, <3>2
  <2>4. m \in after /\ \A k \in after : k \in Nat /\ m <= k
    BY <1>1, <1>2, <1>3, <2>1, <2>2
  <2>5. Min(after) = m
    <3>1. Min(after) \in after /\ \A k \in after : Min(after) <= k
      BY <2>4 DEF Min
    <3>2. Min(after) \in Nat /\ Min(after) <= m /\ m <= Min(after)
      BY <2>4, <3>1
    <3> QED BY <2>2, <3>2
  <2> QED BY <1>1, <1>4, <1>6, <2>2, <2>3, <2>4, <2>5
<1>7. ASSUME before = {}, last \in after PROVE match_category(new, t) = rule.category
  <2>1. after = {last}
    BY <1>3, <1>7
  <2>2. Min(after) = last
    BY <1>1, <2>1 DEF Min
  <2> QED BY <1>1, <1>4, <2>1, <2>2
<1>8. before = {} => match_category(old, t) = Nothing
  BY <1>4
<1> QED BY <1>5, <1>6, <1>7, <1>8

\* What is appended is a rule, and it matches the transaction it was made from if its
\* expression does.
LEMMA RuleMatches ==
  ASSUME NEW m \in RegexDialog, m.input \notin {Blank, Malformed},
         NEW rule, rule = [category |-> m.category,
                           matchers |-> [f \in {"account_name", "description"} |->
                               IF f = "account_name"
                               THEN exact_ci_regex_pattern(Facts[m.source].account_name) ELSE m.input]]
  PROVE  /\ WellFormed(rule) /\ Compiled(rule).category = m.category
         /\ Facts[m.source].description \in m.input => is_match(Compiled(rule), m.source)
<1>1. m.source \in Txn /\ m.category \in Category /\ m.input \in Expression
  BY DEF RegexDialog
<1>2. PICK name : name = Facts[m.source].account_name
  OBVIOUS
<1>3. /\ {name} \notin {Blank, Malformed} /\ {name} \in Expression /\ Blank \in Expression
      /\ Blank # Malformed /\ Blank \notin Category
  BY <1>1, <1>2, TerminalAssumption DEF Expression
<1>4. /\ rule.category = m.category /\ DOMAIN rule.matchers = {"account_name", "description"}
      /\ rule.matchers["account_name"] = exact_ci_regex_pattern(name)
      /\ rule.matchers["description"] = m.input
  BY <1>2
<1>5. exact_ci_regex_pattern(name) \in {Blank, {name}}
  BY DEF exact_ci_regex_pattern
<1>6. rule \in [category : Category, matchers : [{"account_name", "description"} -> Expression]]
  BY <1>1, <1>2, <1>3, <1>5
<1>7. rule # Malformed
  BY <1>6, TerminalAssumption
<1>8. PICK q : q = rule.matchers
  OBVIOUS
<1>9. PICK c : c = Compiled(rule)
  OBVIOUS
<1>10. /\ c.category = m.category
       /\ DOMAIN c.matchers = {f \in DOMAIN q : q[f] # Blank}
       /\ \A f \in DOMAIN c.matchers : c.matchers[f] = q[f]
  BY <1>4, <1>8, <1>9 DEF Compiled
<1>11. WellFormed(rule)
  <2>1. "description" \in DOMAIN c.matchers
    BY <1>4, <1>8, <1>10
  <2>2. rule.category # Blank
    BY <1>1, <1>3, <1>4
  <2>3. \A f \in DOMAIN rule.matchers : rule.matchers[f] # Malformed
    BY <1>3, <1>4, <1>5
  <2> QED BY <1>7, <1>9, <2>1, <2>2, <2>3 DEF WellFormed
<1>12. ASSUME Facts[m.source].description \in m.input PROVE is_match(c, m.source)
  <2>1. ASSUME NEW f \in DOMAIN c.matchers PROVE TextIn(m.source, f) \in c.matchers[f]
    <3>1. f \in {"account_name", "description"} /\ q[f] # Blank /\ c.matchers[f] = q[f]
      BY <1>4, <1>8, <1>10
    <3>2. CASE f = "description"
      BY <1>4, <1>8, <1>12, <3>1, <3>2 DEF TextIn
    <3>3. CASE f = "account_name"
      <4>1. q[f] = {name}
        BY <1>4, <1>5, <1>8, <3>1, <3>3
      <4>2. TextIn(m.source, f) = name
        BY <1>2, <3>3 DEF TextIn
      <4> QED BY <3>1, <4>1, <4>2
    <3> QED BY <3>1, <3>2, <3>3
  <2> QED BY <2>1 DEF is_match
<1> QED BY <1>9, <1>10, <1>11, <1>12

\* After Enter the rule comes last.
LEMMA RuleFollowed ==
  ASSUME TerminalInv
  PROVE  RuleComesLast
<1> SUFFICES ASSUME AddRule, rules_file' # rules_file, NEW m, m = app.modal, NEW t \in DOMAIN app.listed
             PROVE  LET before == resolved_transaction_category(app, t)
                        after == resolved_transaction_category(app', t)
                        decided == app.listed[t] # Nothing \/ match_category(app.matcher, t) # Nothing
                    IN  /\ decided => after = before
                        /\ t = m.source /\ ~decided /\ Facts[t].description \in m.input => after = m.category
  BY DEF RuleComesLast
<1>1. app.modal.input \notin {Blank, Malformed}
  BY DEF AddRule, Key, terminalFiles
<1>2. PICK rule : rule = [category |-> app.modal.category,
                          matchers |-> [f \in {"account_name", "description"} |->
                               IF f = "account_name"
                               THEN exact_ci_regex_pattern(Facts[app.modal.source].account_name)
                               ELSE app.modal.input]]
  OBVIOUS
<1>3. /\ app.modal \in RegexDialog /\ rules_file' = Append(rules_file, rule)
      /\ rules_file \in Seq(Range(rules_file))
  BY <1>1, <1>2, RuleAdded
<1>4. PICK a : /\ SameBut(app, a, {"matcher", "modal"}) /\ a.matcher = load_transaction_category_rules(rules_file')
               /\ app' = a
  BY <1>1, <1>2, RuleAdded DEF Drawn
<1>5. PICK old : old = app.matcher
  OBVIOUS
<1>6. PICK new : new = a.matcher
  OBVIOUS
<1>7. /\ WellFormed(rule) /\ Compiled(rule).category = m.category
      /\ Facts[m.source].description \in m.input => is_match(Compiled(rule), m.source)
  BY <1>1, <1>2, <1>3, RuleMatches
<1>8. OneMore(old, new, Len(rules_file) + 1, Compiled(rule))
  <2>1. old = load_transaction_category_rules(rules_file) /\ LinesTyped(rules_file)
    BY <1>5, TerminalParts DEF TerminalInv, FilesTyped
  <2>2. new = load_transaction_category_rules(Append(rules_file, rule))
    BY <1>3, <1>4, <1>6
  <2> QED BY <1>7, <2>1, <2>2, LastRule
<1>9. /\ match_category(old, t) # Nothing => match_category(new, t) = match_category(old, t)
      /\ match_category(old, t) = Nothing /\ is_match(Compiled(rule), t)
            => match_category(new, t) = Compiled(rule).category
  BY <1>8, FirstMatch
<1>10. app'.listed = app.listed /\ app'.matcher = new
  BY <1>4, <1>6 DEF SameBut
<1>11. m.category # Nothing
  <2>1. m.category \in Category
    BY <1>3 DEF RegexDialog
  <2> QED BY <2>1, TerminalAssumption
<1>12. ASSUME app.listed[t] # Nothing \/ match_category(old, t) # Nothing
       PROVE  resolved_transaction_category(app', t) = resolved_transaction_category(app, t)
  BY <1>5, <1>9, <1>10, <1>12 DEF resolved_transaction_category
<1>13. ASSUME t = m.source, ~(app.listed[t] # Nothing \/ match_category(old, t) # Nothing),
              Facts[t].description \in m.input
       PROVE  resolved_transaction_category(app', t) = m.category
  <2>1. match_category(new, t) = m.category
    BY <1>7, <1>9, <1>13
  <2> QED BY <1>5, <1>10, <1>11, <1>13, <2>1 DEF resolved_transaction_category
<1> QED BY <1>5, <1>12, <1>13

\* Enter does what the dialog says: the transaction it was opened for has the category and
\* is highlighted, or the rule is added and changes nothing that was decided
\* (handle_modal_key, select_transaction_by_id, match_category).
THEOREM EditsDoLand == TerminalSpec => EditsLand
<1>1. ASSUME TerminalInv, [TerminalNext]_terminalVars PROVE [EditFollowed /\ RuleComesLast]_terminalVars
  BY <1>1, SetFollowed, RuleFollowed
<1> QED BY <1>1, TerminalInvariant, PTL DEF TerminalSpec, EditsLand
=============================================================================
