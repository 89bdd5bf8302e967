------------------------- MODULE SynchronizersProofs -------------------------
(***************************************************************************)
(* Signing in and synchronizing, for any processes, connections, accounts, *)
(* rows and wallets.                                                       *)
(***************************************************************************)
EXTENDS BankLogin, CoinbaseSync, SchwabSync, WellFoundedInduction, SequenceTheorems, FiniteSetTheorems, TLAPS

(***************************************************************************)
(* Logins.  Two processes on one profile are kept apart by the one browser *)
(* that may be open on it; the session a process holds is the profile's    *)
(* only as long as the browser is its own.                                 *)
(***************************************************************************)
LoginPlaces == {"idle", "check", "ask", "login", "page", "capture", "probe", "sync", "fetch"}
Tasks == [at : LoginPlaces, of : {NoProc.of} \cup Connections, session : Nat, login : BOOLEAN]

\* Who has something to do has a connection to do it for, and a session from the past.
Fit(task) ==
    /\ task.at # "idle" => task.of \in Connections
    /\ task.session <= latest
    /\ task.at = "fetch" => task.of \in ChaseOnes

LoginTypes ==
    /\ cache \in [Connections -> [session : Nat, old : BOOLEAN]]
    /\ \A c \in Connections : cache[c].session <= latest
    /\ good \in [Connections -> SUBSET Nat]
    /\ \A c \in Connections : good[c] \subseteq 1 .. latest
    /\ latest \in Nat
    /\ profile \in [Connections -> Nat]
    /\ \A c \in Connections : profile[c] <= latest
    /\ proc \in [Processes -> Tasks]
    /\ \A p \in Processes : Fit(proc[p])
    /\ browser \subseteq {p \in Processes : proc[p].at \in {"page", "capture", "probe", "fetch"}}

\* One browser on a profile.
OneBrowser == \A p, q \in browser : proc[p].of = proc[q].of /\ proc[p].of \in ChaseOnes => p = q

\* The profile is never behind the stored session; what was captured is between the two.
ProfileAhead ==
    /\ \A c \in ChaseOnes : profile[c] >= cache[c].session
    /\ \A p \in browser : proc[p].at = "probe" /\ proc[p].of \in ChaseOnes =>
           proc[p].session >= cache[proc[p].of].session /\ proc[p].session <= profile[proc[p].of]
\* What a process captured works, unless it saw the bank change its mind.
Captured == \A p \in browser \ changed :
    /\ proc[p].at = "probe" /\ proc[p].of \in ChaseOnes => proc[p].session = profile[proc[p].of]
    /\ proc[p].at = "capture" /\ proc[p].of \notin ChaseOnes => profile[proc[p].of] \in good[proc[p].of]
    /\ proc[p].at = "probe" /\ proc[p].of \notin ChaseOnes => proc[p].session \in good[proc[p].of]

LoginInv == LoginTypes /\ OneBrowser /\ ProfileAhead /\ Captured

\* At first nobody is logged in and nobody acts.
LEMMA LoginInitHolds == LoginInit => LoginInv
<1> SUFFICES ASSUME LoginInit PROVE LoginInv
  OBVIOUS
<1> USE DEF LoginInit
<1>1. NoProc \in Tasks /\ NoProc.at = "idle" /\ NoProc.session = 0
  BY DEF NoProc, Tasks, LoginPlaces
<1> HIDE DEF NoProc
<1>2. LoginTypes
  BY <1>1 DEF LoginTypes, Fit
<1>3. ProfileAhead
  BY LoginAssumption DEF ProfileAhead
<1> QED BY <1>2, <1>3 DEF LoginInv, OneBrowser, Captured

\* A process goes on; the others stay where they are.
LEMMA ProcessMoves ==
  ASSUME LoginTypes, NEW p \in Processes, NEW o \in Tasks, Fit(o)', latest' >= latest, latest' \in Nat,
         proc' = [proc EXCEPT ![p] = o]
  PROVE  /\ proc' \in [Processes -> Tasks] /\ proc'[p] = o
         /\ \A q \in Processes \ {p} : proc'[q] = proc[q]
         /\ \A q \in Processes : Fit(proc[q])'
<1>1. /\ proc' \in [Processes -> Tasks] /\ proc'[p] = o
      /\ \A q \in Processes \ {p} : proc'[q] = proc[q]
  BY DEF LoginTypes
<1>2. \A q \in Processes : Fit(proc[q])'
  <2>1. \A q \in Processes : proc[q].session \in Nat /\ Fit(proc[q]) /\ latest \in Nat
    BY DEF LoginTypes, Tasks
  <2> QED BY <2>1 DEF Fit
<1> QED BY <1>1, <1>2

\* A process goes to a place where nothing is expected of its browser, or opens or closes one.
LEMMA PlaceKeeps ==
  ASSUME LoginInv, NEW p \in Processes, NEW o \in Tasks, Fit(o),
         proc' = [proc EXCEPT ![p] = o],
         browser' \subseteq browser \cup {p},
         p \in browser' => /\ o.at = "page"
                           /\ o.of \in ChaseOnes => browser' \cap Others(p) = {} /\ o.of = proc[p].of,
         changed \subseteq changed' \cup {p},
         UNCHANGED <<cache, good, latest, profile>>
  PROVE  LoginInv'
<1>1. LoginTypes /\ latest' \in Nat /\ latest' >= latest /\ Fit(o)'
  BY DEF LoginInv, LoginTypes, Fit
<1>2. /\ proc' \in [Processes -> Tasks] /\ proc'[p] = o
      /\ \A q \in Processes \ {p} : proc'[q] = proc[q]
      /\ \A q \in Processes : Fit(proc[q])'
  BY <1>1, ProcessMoves
<1>3. browser' \subseteq {q \in Processes : proc'[q].at \in {"page", "capture", "probe", "fetch"}}
  BY <1>2 DEF LoginInv, LoginTypes
<1>4. LoginTypes'
  BY <1>2, <1>3 DEF LoginInv, LoginTypes
<1>5. OneBrowser'
  <2> SUFFICES ASSUME NEW q \in browser', NEW r \in browser', proc'[q].of = proc'[r].of,
                      proc'[q].of \in ChaseOnes
               PROVE  q = r
    BY DEF OneBrowser
  <2>1. \A s \in browser' : s # p => s \in browser /\ s \in Processes /\ proc'[s] = proc[s] /\ proc[s].at # "idle"
    BY <1>2 DEF LoginInv, LoginTypes
  <2>2. CASE q # p /\ r # p
    BY <2>1, <2>2 DEF LoginInv, OneBrowser
  <2>3. CASE p \in {q, r}
    BY <2>1, <2>3, <1>2 DEF Others
  <2> QED BY <2>2, <2>3
<1>6. \A q \in browser' : proc'[q].at \in {"capture", "probe"} =>
          q \in browser /\ proc'[q] = proc[q] /\ (q \notin changed' => q \notin changed)
  BY <1>2, <1>3
<1>7. ProfileAhead'
  BY <1>6 DEF LoginInv, ProfileAhead
<1>8. Captured'
  BY <1>6 DEF LoginInv, Captured
<1> QED BY <1>4, <1>5, <1>7, <1>8 DEF LoginInv

\* A process that is through.
LEMMA EndsKeeps ==
  ASSUME LoginInv, NEW p \in Processes, Ends(p),
         UNCHANGED <<cache, good, latest, profile, changed>>
  PROVE  LoginInv'
<1>1. NoProc \in Tasks /\ NoProc.at = "idle" /\ NoProc.session = 0
  BY DEF NoProc, Tasks, LoginPlaces
<1> HIDE DEF NoProc
<1>2. Fit(NoProc)
  BY <1>1 DEF Fit, LoginInv, LoginTypes
<1> QED BY <1>1, <1>2, PlaceKeeps DEF Ends

\* The bank ends a session: what was good no longer is, and is not counted on.
LEMMA RevokeKeeps ==
  ASSUME LoginInv, NEW c \in Connections, Revoke(c)
  PROVE  LoginInv'
<1>1. /\ good' = [good EXCEPT ![c] = {}]
      /\ changed' = changed \cup {p \in Processes : proc[p].of = c}
      /\ UNCHANGED <<cache, latest, profile, proc, browser>>
  BY DEF Revoke
<1>2. good' \in [Connections -> SUBSET Nat] /\ \A d \in Connections : good'[d] = IF d = c THEN {} ELSE good[d]
  BY <1>1 DEF LoginInv, LoginTypes
<1>3. LoginTypes'
  BY <1>1, <1>2 DEF LoginInv, LoginTypes, Fit
<1>4. OneBrowser' /\ ProfileAhead'
  BY <1>1 DEF LoginInv, OneBrowser, ProfileAhead
<1>5. Captured'
  <2>1. \A p \in browser : p \in Processes /\ proc[p].of \in Connections
    BY DEF LoginInv, LoginTypes, Fit
  <2> QED BY <2>1, <1>1, <1>2 DEF LoginInv, Captured
<1> QED BY <1>3, <1>4, <1>5 DEF LoginInv

\* A session grows old, in the profile or where it was stored.
LEMMA GrowsOldKeeps ==
  ASSUME LoginInv, NEW c \in Connections, GrowsOld(c)
  PROVE  LoginInv'
<1>1. /\ cache' = [cache EXCEPT ![c].old = TRUE]
      /\ UNCHANGED <<good, latest, profile, proc, browser, changed>>
  BY DEF GrowsOld
<1>2. /\ cache' \in [Connections -> [session : Nat, old : BOOLEAN]]
      /\ \A d \in Connections : cache'[d].session = cache[d].session
  BY <1>1 DEF LoginInv, LoginTypes
<1>3. LoginTypes'
  BY <1>1, <1>2 DEF LoginInv, LoginTypes, Fit
<1>4. OneBrowser' /\ Captured'
  BY <1>1 DEF LoginInv, OneBrowser, Captured
<1>5. ProfileAhead'
  BY <1>1, <1>2, LoginAssumption DEF LoginInv, ProfileAhead
<1> QED BY <1>3, <1>4, <1>5 DEF LoginInv

\* A process that only changes its place.
LEMMA GoTasks ==
  ASSUME LoginInv, NEW p \in Processes, NEW place \in LoginPlaces, Go(p, place),
         proc[p].at # "idle", place # "fetch"
  PROVE  \E o \in Tasks : /\ Fit(o) /\ o.at = place /\ o.of = proc[p].of /\ o.session = proc[p].session
                          /\ o.login = proc[p].login
                          /\ proc' = [proc EXCEPT ![p] = o]
<1> DEFINE o == [proc[p] EXCEPT !.at = place]
<1>1. proc \in [Processes -> Tasks] /\ proc[p] \in Tasks /\ Fit(proc[p])
  BY DEF LoginInv, LoginTypes
<1>2. /\ o \in Tasks /\ o.at = place /\ o.of = proc[p].of /\ o.session = proc[p].session
      /\ o.login = proc[p].login
  BY <1>1 DEF Tasks
<1>3. proc' = [proc EXCEPT ![p] = o]
  BY <1>1 DEF Go
<1> HIDE DEF o
<1>4. Fit(o)
  BY <1>1, <1>2 DEF Fit
<1> QED BY <1>2, <1>3, <1>4

\* A process begins.
LEMMA StartKeeps ==
  ASSUME LoginInv, NEW p \in Processes, NEW c \in Connections, NEW direct \in BOOLEAN, Start(p, c, direct)
  PROVE  LoginInv'
<1> DEFINE o == [at |-> IF direct THEN "login" ELSE "check", of |-> c, session |-> 0, login |-> direct]
<1>1. /\ o \in Tasks /\ o.at \in {"login", "check"} /\ o.of = c /\ o.session = 0
  BY DEF Tasks, LoginPlaces
<1>2. proc' = [proc EXCEPT ![p] = o]
  BY DEF Start
<1> HIDE DEF o
<1>3. Fit(o)
  BY <1>1 DEF Fit, LoginInv, LoginTypes
<1>4. p \notin browser
  BY DEF Start, At, LoginInv, LoginTypes
<1> QED BY <1>1, <1>2, <1>3, <1>4, PlaceKeeps DEF Start

\* The steps that change only the place of a process, and perhaps close its browser.
LEMMA GoKeeps ==
  ASSUME LoginInv, NEW p \in Processes, NEW place \in LoginPlaces, Go(p, place),
         proc[p].at # "idle", place # "fetch",
         browser' \subseteq browser \cup {p},
         p \in browser' => /\ place = "page"
                           /\ proc[p].of \in ChaseOnes => browser' \cap Others(p) = {},
         UNCHANGED <<cache, good, latest, profile, changed>>
  PROVE  LoginInv'
<1>1. PICK o \in Tasks : /\ Fit(o) /\ o.at = place /\ o.of = proc[p].of
                         /\ proc' = [proc EXCEPT ![p] = o]
  BY GoTasks
<1> QED BY <1>1, PlaceKeeps

\* What is stored is looked at.
LEMMA check_authKeeps ==
  ASSUME LoginInv, NEW p \in Processes, check_auth(p)
  PROVE  LoginInv'
<1>1. /\ proc[p].at = "check"
      /\ Go(p, "sync") \/ Go(p, "ask")
      /\ UNCHANGED <<cache, good, latest, profile, browser, changed>>
  BY DEF check_auth, At
<1>2. p \notin browser /\ proc[p].at # "idle"
  BY <1>1 DEF LoginInv, LoginTypes, check_auth, At
<1> QED BY <1>1, <1>2, GoKeeps DEF LoginPlaces

\* The user is asked.
LEMMA ensure_interactive_authKeeps ==
  ASSUME LoginInv, NEW p \in Processes, NEW yes \in BOOLEAN, ensure_interactive_auth(p, yes)
  PROVE  LoginInv'
<1>1. CASE Go(p, "login") /\ UNCHANGED browser
  <2>1. p \notin browser /\ proc[p].at # "idle"
    BY DEF LoginInv, LoginTypes, ensure_interactive_auth, At
  <2> QED BY <1>1, <2>1, GoKeeps DEF LoginPlaces, ensure_interactive_auth
<1>2. CASE Ends(p)
  BY <1>2, EndsKeeps DEF ensure_interactive_auth
<1> QED BY <1>1, <1>2 DEF ensure_interactive_auth

\* The one browser of the profile is opened.
LEMMA loginKeeps ==
  ASSUME LoginInv, NEW p \in Processes, login(p)
  PROVE  LoginInv'
<1>1. /\ Go(p, "page") /\ proc[p].at = "login"
      /\ browser' = (browser \ kill_profile_browser_processes(p)) \cup {p}
      /\ UNCHANGED <<cache, good, latest, profile, changed>>
  BY DEF login, At
<1>2. proc[p].of \in ChaseOnes => browser' \cap Others(p) = {}
  BY <1>1 DEF kill_profile_browser_processes, Others
<1> QED BY <1>1, <1>2, GoKeeps DEF LoginPlaces

\* A login that fails leaves what is stored.
LEMMA LoginFailsKeeps ==
  ASSUME LoginInv, NEW p \in Processes, LoginFails(p)
  PROVE  LoginInv'
BY EndsKeeps DEF LoginFails

\* A page gets new cookies: the profile is ahead of all.
LEMMA RotateKeeps ==
  ASSUME LoginInv, NEW p \in Processes, Rotate(p)
  PROVE  LoginInv'
<1> DEFINE c == proc[p].of
<1>1. /\ p \in browser /\ latest' = latest + 1
      /\ good' = [good EXCEPT ![c] = {latest'}]
      /\ profile' = [profile EXCEPT ![c] = latest']
      /\ changed' = changed \cup {q \in Processes : proc[q].of = c}
      /\ UNCHANGED <<cache, proc, browser>>
  BY DEF Rotate
<1>2. c \in Connections
  BY <1>1 DEF LoginInv, LoginTypes, Fit
<1> HIDE DEF c
<1>3. /\ latest \in Nat /\ latest' \in Nat /\ latest' > latest
      /\ good' \in [Connections -> SUBSET Nat] /\ profile' \in [Connections -> Nat]
      /\ \A d \in Connections : /\ good'[d] = IF d = c THEN {latest'} ELSE good[d]
                                /\ profile'[d] = IF d = c THEN latest' ELSE profile[d]
  BY <1>1, <1>2 DEF LoginInv, LoginTypes
<1>4. LoginTypes'
  <2>1. \A d \in Connections : good'[d] \subseteq 1 .. latest' /\ profile'[d] <= latest'
                               /\ cache[d].session <= latest'
    BY <1>3 DEF LoginInv, LoginTypes
  <2>2. \A q \in Processes : Fit(proc[q])'
    <3>1. \A q \in Processes : proc[q].session \in Nat
      BY DEF LoginInv, LoginTypes, Tasks
    <3> QED BY <3>1, <1>1, <1>3 DEF LoginInv, LoginTypes, Fit
  <2> QED BY <2>1, <2>2, <1>1, <1>3 DEF LoginInv, LoginTypes
<1>5. OneBrowser'
  BY <1>1 DEF LoginInv, OneBrowser
<1>6. ProfileAhead'
  <2>1. \A d \in ChaseOnes : profile'[d] >= cache[d].session
    BY <1>3, LoginAssumption DEF LoginInv, LoginTypes, ProfileAhead
  <2> SUFFICES ASSUME NEW q \in browser, proc[q].at = "probe", proc[q].of \in ChaseOnes
               PROVE  proc[q].session >= cache[proc[q].of].session /\ proc[q].session <= profile'[proc[q].of]
    BY <2>1, <1>1 DEF ProfileAhead
  <2>2. /\ proc[q].of \in Connections /\ proc[q].session \in Nat /\ proc[q].session <= latest
        /\ proc[q].session >= cache[proc[q].of].session /\ proc[q].session <= profile[proc[q].of]
    BY LoginAssumption DEF LoginInv, LoginTypes, Fit, Tasks, ProfileAhead
  <2> QED BY <2>2, <1>3
<1>7. Captured'
  <2>1. \A q \in browser : q \in Processes /\ proc[q].of \in Connections
    BY DEF LoginInv, LoginTypes, Fit
  <2> QED BY <2>1, <1>1, <1>3 DEF LoginInv, Captured
<1> QED BY <1>4, <1>5, <1>6, <1>7 DEF LoginInv

\* Somebody signs in: there is another good session, and the profile has it.
LEMMA SignInKeeps ==
  ASSUME LoginInv, NEW p \in Processes, SignIn(p)
  PROVE  LoginInv'
<1> DEFINE c == proc[p].of
<1> DEFINE o == [proc[p] EXCEPT !.at = "capture"]
<1>1. p \in browser /\ proc[p].at = "page" /\ UNCHANGED <<cache, browser, changed>>
      /\ c \in Connections /\ proc[p] \in Tasks /\ proc \in [Processes -> Tasks]
  BY DEF SignIn, At, LoginInv, LoginTypes, Fit
<1>2. /\ o \in Tasks /\ o.at = "capture" /\ o.of = c /\ o.session = proc[p].session
      /\ proc' = [proc EXCEPT ![p] = o]
  BY <1>1 DEF SignIn, Go, Tasks, LoginPlaces
<1>3. /\ latest \in Nat /\ latest' \in Nat /\ latest' >= latest
      /\ good' \in [Connections -> SUBSET Nat] /\ profile' \in [Connections -> Nat]
      /\ \A d \in Connections : /\ good[d] \subseteq good'[d] /\ good'[d] \subseteq 1 .. latest'
                                /\ profile'[d] >= profile[d] /\ profile'[d] <= latest'
                                /\ d # c => profile'[d] = profile[d]
      /\ profile'[c] \in good'[c]
  <2>1. CASE /\ latest' = latest + 1
             /\ good' = [good EXCEPT ![c] = @ \cup {latest'}]
             /\ profile' = [profile EXCEPT ![c] = latest']
    <3>1. /\ good' \in [Connections -> SUBSET Nat] /\ profile' \in [Connections -> Nat]
          /\ \A d \in Connections : /\ good'[d] = IF d = c THEN good[c] \cup {latest'} ELSE good[d]
                                    /\ profile'[d] = IF d = c THEN latest' ELSE profile[d]
      BY <2>1, <1>1 DEF LoginInv, LoginTypes
    <3> QED BY <3>1, <2>1, <1>1 DEF LoginInv, LoginTypes
  <2>2. CASE c \in ChaseOnes /\ profile[c] \in good[c] /\ UNCHANGED <<latest, good, profile>>
    BY <2>2 DEF LoginInv, LoginTypes
  <2> QED BY <2>1, <2>2 DEF SignIn
<1> HIDE DEF o, c
<1>4. o.of \in Connections /\ o.session <= latest' /\ o.at # "fetch"
  BY <1>1, <1>2, <1>3 DEF LoginInv, LoginTypes, Fit, Tasks
<1>5. /\ proc' \in [Processes -> Tasks] /\ proc'[p] = o
      /\ \A q \in Processes \ {p} : proc'[q] = proc[q]
  BY <1>1, <1>2
<1>6. \A q \in Processes : Fit(proc[q])'
  <2>1. \A q \in Processes : proc[q].session \in Nat /\ Fit(proc[q])
    BY DEF LoginInv, LoginTypes, Tasks
  <2>2. \A q \in Processes \ {p} : Fit(proc[q])'
    BY <2>1, <1>3, <1>5 DEF Fit
  <2> QED BY <2>2, <1>4, <1>5 DEF Fit
<1>7. LoginTypes'
  <2>1. \A d \in Connections : cache[d].session <= latest'
    BY <1>3 DEF LoginInv, LoginTypes
  <2> QED BY <2>1, <1>1, <1>2, <1>3, <1>5, <1>6 DEF LoginInv, LoginTypes
<1>8. \A q \in browser : proc'[q].of = proc[q].of
  BY <1>1, <1>2, <1>5 DEF LoginInv, LoginTypes, c
<1>9. OneBrowser'
  BY <1>1, <1>8 DEF LoginInv, OneBrowser
<1>10. ProfileAhead'
  <2>1. \A d \in ChaseOnes : profile'[d] >= cache[d].session
    BY <1>3, LoginAssumption DEF LoginInv, LoginTypes, ProfileAhead
  <2> SUFFICES ASSUME NEW q \in browser, proc'[q].at = "probe", proc'[q].of \in ChaseOnes
               PROVE  /\ proc'[q].session >= cache[proc'[q].of].session
                      /\ proc'[q].session <= profile'[proc'[q].of]
    BY <2>1, <1>1 DEF ProfileAhead
  <2>2. q \in Processes /\ q # p /\ proc'[q] = proc[q]
    BY <1>2, <1>5 DEF LoginInv, LoginTypes
  <2>3. /\ proc[q].of \in Connections /\ proc[q].session \in Nat /\ profile[proc[q].of] \in Nat
        /\ proc[q].session >= cache[proc[q].of].session /\ proc[q].session <= profile[proc[q].of]
    BY <2>2, LoginAssumption DEF LoginInv, LoginTypes, Tasks, ProfileAhead
  <2> QED BY <2>2, <2>3, <1>3
<1>11. Captured'
  <2> SUFFICES ASSUME NEW q \in browser \ changed
               PROVE  /\ proc'[q].at = "probe" /\ proc'[q].of \in ChaseOnes =>
                             proc'[q].session = profile'[proc'[q].of]
                      /\ proc'[q].at = "capture" /\ proc'[q].of \notin ChaseOnes =>
                             profile'[proc'[q].of] \in good'[proc'[q].of]
                      /\ proc'[q].at = "probe" /\ proc'[q].of \notin ChaseOnes =>
                             proc'[q].session \in good'[proc'[q].of]
    BY <1>1 DEF Captured
  <2>1. CASE q = p
    BY <2>1, <1>2, <1>3, <1>5
  <2>2. CASE q # p
    <3>1. proc'[q] = proc[q] /\ proc[q].of \in Connections
      BY <2>2, <1>5 DEF LoginInv, LoginTypes, Fit
    <3>2. proc[q].of \in ChaseOnes => proc[q].of # c
      BY <2>2, <1>1 DEF LoginInv, OneBrowser, c
    <3>3. CASE proc[q].of = c
      BY <3>1, <3>2, <3>3, <1>3 DEF LoginInv, Captured
    <3>4. CASE proc[q].of # c
      BY <3>1, <3>4, <1>3 DEF LoginInv, Captured
    <3> QED BY <3>3, <3>4
  <2> QED BY <2>1, <2>2
<1> QED BY <1>7, <1>9, <1>10, <1>11 DEF LoginInv

\* What is captured is what the profile has.
LEMMA session_from_pageKeeps ==
  ASSUME LoginInv, NEW p \in Processes, session_from_page(p)
  PROVE  LoginInv'
<1> DEFINE c == proc[p].of
<1> DEFINE o == [proc[p] EXCEPT !.at = "probe", !.session = profile[c]]
<1>1. /\ p \in browser /\ proc[p].at = "capture" /\ UNCHANGED <<cache, good, latest, profile, browser>>
      /\ changed' = IF c \in ChaseOnes THEN changed \ {p} ELSE changed
      /\ c \in Connections /\ proc[p] \in Tasks /\ proc \in [Processes -> Tasks]
      /\ profile[c] \in Nat /\ profile[c] <= latest
  BY DEF session_from_page, At, LoginInv, LoginTypes, Fit
<1>2. /\ o \in Tasks /\ o.at = "probe" /\ o.of = c /\ o.session = profile[c]
      /\ proc' = [proc EXCEPT ![p] = o]
  BY <1>1 DEF session_from_page, Tasks, LoginPlaces
<1> HIDE DEF o, c
<1>3. /\ proc' \in [Processes -> Tasks] /\ proc'[p] = o
      /\ \A q \in Processes \ {p} : proc'[q] = proc[q]
  BY <1>1, <1>2
<1>4. \A q \in Processes : Fit(proc[q])'
  BY <1>1, <1>2, <1>3 DEF LoginInv, LoginTypes, Fit
<1>5. LoginTypes'
  BY <1>1, <1>2, <1>3, <1>4 DEF LoginInv, LoginTypes
<1>6. \A q \in browser : proc'[q].of = proc[q].of
  BY <1>1, <1>2, <1>3 DEF LoginInv, LoginTypes, c
<1>7. OneBrowser'
  BY <1>1, <1>6 DEF LoginInv, OneBrowser
<1>8. ProfileAhead'
  BY <1>1, <1>2, <1>3, LoginAssumption DEF LoginInv, LoginTypes, ProfileAhead
<1>9. Captured'
  BY <1>1, <1>2, <1>3 DEF LoginInv, LoginTypes, Captured, c
<1> QED BY <1>5, <1>7, <1>8, <1>9 DEF LoginInv

\* A session is stored that is no older than the stored one, nor newer than the profile
\* and whatever is captured from it; the process goes on without its browser.
LEMMA StoreKeeps ==
  ASSUME LoginInv, NEW p \in browser, NEW o \in Tasks, Fit(o), o.at \in {"idle", "sync"},
         proc' = [proc EXCEPT ![p] = o], browser' = browser \ {p},
         NEW c \in Connections, c = proc[p].of, NEW session \in Nat, session <= latest, SetSession(c, session),
         c \in ChaseOnes => session <= profile[c],
         UNCHANGED <<good, latest, profile, changed>>
  PROVE  LoginInv'
<1>1. p \in Processes
  BY DEF LoginInv, LoginTypes
<1>2. /\ proc' \in [Processes -> Tasks] /\ proc'[p] = o
      /\ \A q \in Processes \ {p} : proc'[q] = proc[q]
  BY <1>1 DEF LoginInv, LoginTypes
<1>3. /\ cache' \in [Connections -> [session : Nat, old : BOOLEAN]]
      /\ \A d \in Connections : cache'[d].session = IF d = c THEN session ELSE cache[d].session
  BY DEF SetSession, LoginInv, LoginTypes
<1>4. \A q \in Processes : Fit(proc[q])'
  BY <1>2 DEF LoginInv, LoginTypes, Fit
<1>5. LoginTypes'
  BY <1>2, <1>3, <1>4 DEF LoginInv, LoginTypes
<1>6. \A q \in browser' : q \in browser /\ q \in Processes /\ q # p /\ proc'[q] = proc[q]
  BY <1>2 DEF LoginInv, LoginTypes
<1>7. OneBrowser' /\ Captured'
  BY <1>6 DEF LoginInv, OneBrowser, Captured
<1>8. ProfileAhead'
  <2>1. \A q \in browser' : proc[q].of \in ChaseOnes => proc[q].of # c
    BY <1>6 DEF LoginInv, OneBrowser
  <2> QED BY <2>1, <1>3, <1>6, LoginAssumption DEF LoginInv, ProfileAhead
<1> QED BY <1>5, <1>7, <1>8 DEF LoginInv

\* A login that has its session.
LEMMA LoggedInKeeps ==
  ASSUME LoginInv, NEW p \in browser, proc[p].at = "probe", LoggedIn(p),
         proc[p].of \in ChaseOnes => proc[p].session <= profile[proc[p].of],
         UNCHANGED <<good, latest, profile, changed>>
  PROVE  LoginInv'
<1>1. /\ p \in Processes /\ proc[p] \in Tasks /\ proc[p].of \in Connections
      /\ proc[p].session \in Nat /\ proc[p].session <= latest /\ proc \in [Processes -> Tasks]
  BY DEF LoginInv, LoginTypes, Tasks, Fit
<1>2. PICK o \in Tasks : /\ Fit(o) /\ o.at \in {"idle", "sync"}
                         /\ proc' = [proc EXCEPT ![p] = o] /\ browser' = browser \ {p}
  <2>1. CASE Ends(p)
    <3>1. NoProc \in Tasks /\ NoProc.at = "idle" /\ NoProc.session = 0
      BY DEF NoProc, Tasks, LoginPlaces
    <3> HIDE DEF NoProc
    <3>2. Fit(NoProc)
      BY <3>1 DEF Fit, LoginInv, LoginTypes
    <3> QED BY <2>1, <3>1, <3>2 DEF Ends
  <2>2. CASE Go(p, "sync") /\ browser' = browser \ {p}
    BY <2>2, <1>1, GoTasks DEF LoginPlaces
  <2> QED BY <2>1, <2>2 DEF LoggedIn
<1>3. SetSession(proc[p].of, proc[p].session)
  BY DEF LoggedIn
<1> QED BY <1>1, <1>2, <1>3, StoreKeeps

\* A session is probed, and is the profile's.
LEMMA wait_for_valid_api_sessionKeeps ==
  ASSUME LoginInv, NEW p \in Processes, wait_for_valid_api_session(p)
  PROVE  LoginInv'
<1> DEFINE c == proc[p].of
<1>1. /\ proc[p].at = "probe" /\ p \in browser /\ c \in ChaseOnes
      /\ UNCHANGED <<good, latest, profile, changed>>
  BY DEF wait_for_valid_api_session, At
<1>2. CASE Accepted(c)
  <2>1. LoggedIn(p)
    BY <1>2 DEF wait_for_valid_api_session
  <2>2. proc[p].session <= profile[c]
    BY <1>1 DEF LoginInv, ProfileAhead
  <2> QED BY <1>1, <2>1, <2>2, LoggedInKeeps
<1>3. CASE ~Accepted(c)
  <2>1. Go(p, "capture") /\ UNCHANGED <<cache, browser>>
    BY <1>3 DEF wait_for_valid_api_session
  <2>2. PICK o \in Tasks : /\ Fit(o) /\ o.at = "capture" /\ o.of = c
                           /\ proc' = [proc EXCEPT ![p] = o]
    BY <1>1, <2>1, GoTasks DEF LoginPlaces
  <2> HIDE DEF c
  <2>3. /\ proc' \in [Processes -> Tasks] /\ proc'[p] = o
        /\ \A q \in Processes \ {p} : proc'[q] = proc[q]
    BY <2>2 DEF LoginInv, LoginTypes
  <2>4. \A q \in Processes : Fit(proc[q])'
    BY <1>1, <2>2, <2>3 DEF LoginInv, LoginTypes, Fit
  <2>5. LoginTypes'
    BY <1>1, <2>1, <2>2, <2>3, <2>4 DEF LoginInv, LoginTypes
  <2>6. \A q \in browser : proc'[q].of = proc[q].of
    BY <2>2, <2>3 DEF LoginInv, LoginTypes, c
  <2>7. OneBrowser'
    BY <2>1, <2>6 DEF LoginInv, OneBrowser
  <2>8. ProfileAhead' /\ Captured'
    BY <1>1, <2>1, <2>2, <2>3 DEF LoginInv, LoginTypes, ProfileAhead, Captured
  <2> QED BY <2>5, <2>7, <2>8 DEF LoginInv
<1> QED BY <1>2, <1>3

\* The user is done with the page of Schwab.
LEMMA SchwabLoginDoneKeeps ==
  ASSUME LoginInv, NEW p \in Processes, SchwabLoginDone(p)
  PROVE  LoginInv'
BY LoggedInKeeps DEF SchwabLoginDone, At

\* The browser that a sync opens is the only one, and changes the profile only from a good
\* session to itself: the stored session is not good.
LEMMA sync_internal_authKeeps ==
  ASSUME LoginInv, NEW p \in Processes, sync_internal_auth(p)
  PROVE  LoginInv'
<1> DEFINE c == proc[p].of
<1> DEFINE there == {cache[c].session, profile[c]} \cap good[c]
<1>1. UNCHANGED <<cache, good, latest, changed>> /\ proc[p].at = "sync"
  BY DEF sync_internal_auth, At
<1>2. CASE Ends(p) /\ UNCHANGED profile
  BY <1>1, <1>2, EndsKeeps
<1>3. CASE /\ cache[c].session \notin good[c] /\ c \in ChaseOnes /\ there # {}
           /\ Others(p) \cap browser = {}
           /\ browser' = browser \cup {p} /\ Go(p, "fetch")
           /\ profile' = [profile EXCEPT ![c] = CHOOSE s \in there : TRUE]
  <2>1. there = {profile[c]}
    BY <1>3
  <2>2. UNCHANGED profile
    BY <1>3, <2>1 DEF LoginInv, LoginTypes
  <2> DEFINE o == [proc[p] EXCEPT !.at = "fetch"]
  <2>3. proc \in [Processes -> Tasks] /\ proc[p] \in Tasks /\ Fit(proc[p])
    BY DEF LoginInv, LoginTypes
  <2>4. /\ o \in Tasks /\ o.at = "fetch" /\ o.of = c /\ o.session = proc[p].session
        /\ proc' = [proc EXCEPT ![p] = o]
    BY <1>3, <2>3 DEF Go, Tasks, LoginPlaces
  <2> HIDE DEF o, there
  <2>5. /\ proc' \in [Processes -> Tasks] /\ proc'[p] = o
        /\ \A q \in Processes \ {p} : proc'[q] = proc[q]
    BY <2>3, <2>4
  <2>6. \A q \in Processes : Fit(proc[q])'
    BY <1>1, <1>3, <2>3, <2>4, <2>5 DEF LoginInv, LoginTypes, Fit
  <2>7. browser' \subseteq {q \in Processes : proc'[q].at \in {"page", "capture", "probe", "fetch"}}
    BY <1>3, <2>4, <2>5 DEF LoginInv, LoginTypes
  <2>8. LoginTypes'
    BY <1>1, <2>2, <2>5, <2>6, <2>7 DEF LoginInv, LoginTypes
  <2>9. \A q \in browser' : q # p => q \in browser /\ q \in Processes /\ proc'[q] = proc[q] /\ proc[q].at # "idle"
    BY <1>3, <2>5 DEF LoginInv, LoginTypes
  <2>10. p \notin browser
    BY <1>1 DEF LoginInv, LoginTypes
  <2>11. OneBrowser'
    <3> SUFFICES ASSUME NEW q \in browser', NEW r \in browser', proc'[q].of = proc'[r].of,
                        proc'[q].of \in ChaseOnes
                 PROVE  q = r
      BY DEF OneBrowser
    <3>1. CASE q # p /\ r # p
      BY <2>9, <3>1 DEF LoginInv, OneBrowser
    <3>2. CASE p \in {q, r}
      BY <2>4, <2>5, <2>9, <3>2, <1>3 DEF Others
    <3> QED BY <3>1, <3>2
  <2>12. \A q \in browser' : proc'[q].at \in {"capture", "probe"} => q \in browser /\ proc'[q] = proc[q]
    BY <2>4, <2>5, <2>9
  <2>13. ProfileAhead' /\ Captured'
    BY <1>1, <2>2, <2>12 DEF LoginInv, ProfileAhead, Captured
  <2> QED BY <2>8, <2>11, <2>13 DEF LoginInv
<1> QED BY <1>2, <1>3 DEF sync_internal_auth

\* The session of the profile is stored.
LEMMA capture_sessionKeeps ==
  ASSUME LoginInv, NEW p \in Processes, capture_session(p)
  PROVE  LoginInv'
<1> DEFINE c == proc[p].of
<1>1. Ends(p) /\ UNCHANGED <<good, latest, profile, changed>> /\ proc[p].at = "fetch"
  BY DEF capture_session, At
<1>2. CASE p \in browser /\ SetSession(c, profile[c])
  <2>1. NoProc \in Tasks /\ NoProc.at = "idle" /\ NoProc.session = 0
    BY DEF NoProc, Tasks, LoginPlaces
  <2>2. proc' = [proc EXCEPT ![p] = NoProc] /\ browser' = browser \ {p}
    BY <1>1 DEF Ends
  <2> HIDE DEF NoProc
  <2>3. Fit(NoProc) /\ c \in Connections /\ profile[c] \in Nat /\ profile[c] <= latest
    BY <1>1, <2>1 DEF Fit, LoginInv, LoginTypes
  <2>4. profile[c] <= profile[c] /\ NoProc.at \in {"idle", "sync"} /\ c = proc[p].of
    BY <2>1, <2>3
  <2> HIDE DEF c
  <2> QED BY <1>1, <1>2, <2>1, <2>2, <2>3, <2>4, StoreKeeps
<1>3. CASE UNCHANGED cache
  BY <1>1, <1>3, EndsKeeps
<1> QED BY <1>2, <1>3 DEF capture_session

\* Every step keeps the invariant.
LEMMA LoginNextKeeps == LoginInv /\ [LoginNext]_loginVars => LoginInv'
<1> SUFFICES ASSUME LoginInv, [LoginNext]_loginVars PROVE LoginInv'
  OBVIOUS
<1>1. ASSUME NEW c \in Connections, Revoke(c) \/ GrowsOld(c) PROVE LoginInv'
  BY <1>1, RevokeKeeps, GrowsOldKeeps
<1>2. ASSUME NEW p \in Processes,
             Rotate(p) \/ check_auth(p) \/ login(p) \/ SignIn(p) \/ LoginFails(p) \/ session_from_page(p)
      PROVE  LoginInv'
  BY <1>2, RotateKeeps, check_authKeeps, loginKeeps, SignInKeeps, LoginFailsKeeps, session_from_pageKeeps
<1>3. ASSUME NEW p \in Processes,
             \/ wait_for_valid_api_session(p) \/ SchwabLoginDone(p)
             \/ sync_internal_auth(p) \/ capture_session(p)
      PROVE  LoginInv'
  BY <1>3, wait_for_valid_api_sessionKeeps, SchwabLoginDoneKeeps, sync_internal_authKeeps,
     capture_sessionKeeps
<1>4. ASSUME NEW p \in Processes, NEW c \in Connections, NEW direct \in BOOLEAN, Start(p, c, direct)
      PROVE  LoginInv'
  BY <1>4, StartKeeps
<1>5. ASSUME NEW p \in Processes, NEW yes \in BOOLEAN, ensure_interactive_auth(p, yes)
      PROVE  LoginInv'
  BY <1>5, ensure_interactive_authKeeps
<1>6. CASE UNCHANGED loginVars
  <2> USE <1>6 DEF loginVars
  <2>1. LoginTypes'
    BY DEF LoginInv, LoginTypes, Fit
  <2> QED BY <2>1 DEF LoginInv, OneBrowser, ProfileAhead, Captured
<1> QED BY <1>1, <1>2, <1>3, <1>4, <1>5, <1>6 DEF LoginNext

\* The invariant of the logins.
THEOREM LoginInvariant == LoginSpec => []LoginInv
<1> QED BY LoginInitHolds, LoginNextKeeps, PTL DEF LoginSpec

\* Sessions are of the past, and only who is on a page has a browser.
THEOREM LoginTypeHolds == LoginSpec => []LoginTypeOK
<1>1. LoginInv => LoginTypeOK
  BY DEF LoginInv, LoginTypes, LoginTypeOK
<1> QED BY <1>1, LoginInvariant, PTL

\* A login stores a session that the bank accepts, unless the process saw it change its mind:
\* although for Chase the browser is tried and not what was captured, and other processes sign
\* in meanwhile.
THEOREM LoginStoresWhatWorks == LoginSpec => StoresWhatWorks
<1>1. LoginInv /\ [LoginNext]_loginVars =>
          \A p \in Processes \ changed : \A c \in Connections :
              proc[p].at = "probe" /\ proc'[p].at # "probe" /\ cache'[c].session # cache[c].session
              => cache'[c].session \in good[c]
  <2> SUFFICES ASSUME LoginInv, [LoginNext]_loginVars,
                      NEW p \in Processes \ changed, NEW c \in Connections,
                      proc[p].at = "probe", proc'[p].at # "probe", cache'[c].session # cache[c].session
               PROVE  cache'[c].session \in good[c]
    OBVIOUS
  <2> DEFINE Stores(q) == \/ wait_for_valid_api_session(q) /\ Accepted(proc[q].of) /\ LoggedIn(q)
                          \/ SchwabLoginDone(q)
                          \/ capture_session(q)
  <2>1. PICK q \in Processes : Stores(q)
    <3>1. ASSUME NEW d \in Connections, Revoke(d) \/ GrowsOld(d) PROVE FALSE
      BY <3>1 DEF Revoke, GrowsOld
    <3>2. ASSUME NEW q \in Processes,
                 Rotate(q) \/ check_auth(q) \/ login(q) \/ SignIn(q) \/ LoginFails(q)
                 \/ session_from_page(q) \/ sync_internal_auth(q)
          PROVE  FALSE
      BY <3>2 DEF Rotate, check_auth, login, SignIn, LoginFails, session_from_page, sync_internal_auth
    <3>3. ASSUME NEW q \in Processes, NEW d \in Connections, NEW direct \in BOOLEAN, Start(q, d, direct)
          PROVE  FALSE
      BY <3>3 DEF Start
    <3>4. ASSUME NEW q \in Processes, NEW yes \in BOOLEAN, ensure_interactive_auth(q, yes) PROVE FALSE
      BY <3>4 DEF ensure_interactive_auth
    <3>5. ASSUME NEW q \in Processes, wait_for_valid_api_session(q) PROVE Stores(q)
      BY <3>5 DEF wait_for_valid_api_session
    <3>6. ~UNCHANGED loginVars
      BY DEF loginVars
    <3> QED BY <3>1, <3>2, <3>3, <3>4, <3>5, <3>6 DEF LoginNext
  <2>2. proc \in [Processes -> Tasks]
    BY DEF LoginInv, LoginTypes
  <2>3. \A r \in Processes : r # q => proc'[r] = proc[r]
    BY <2>1, <2>2 DEF wait_for_valid_api_session, SchwabLoginDone, LoggedIn, capture_session, Ends, Go
  <2>4. q = p
    BY <2>3
  <2>5. /\ p \in browser /\ SetSession(proc[p].of, proc[p].session)
        /\ proc[p].of \in ChaseOnes => profile[proc[p].of] \in good[proc[p].of]
    BY <2>1, <2>4 DEF wait_for_valid_api_session, SchwabLoginDone, LoggedIn, capture_session, At, Accepted
  <2>6. c = proc[p].of /\ cache'[c].session = proc[p].session
    BY <2>5 DEF SetSession, LoginInv, LoginTypes
  <2> QED BY <2>5, <2>6 DEF LoginInv, Captured
<1> QED BY <1>1, LoginInvariant, PTL DEF LoginSpec, StoresWhatWorks

\* A Chase session is never replaced by one from before it, whoever signs in and whoever still
\* has a browser open for a sync.
THEOREM NewerSessionsOnly == LoginSpec => NewestSessionKept
<1>1. LoginInv /\ [LoginNext]_loginVars =>
          \A c \in ChaseOnes : cache'[c].session >= cache[c].session
  <2> SUFFICES ASSUME LoginInv, [LoginNext]_loginVars, NEW c \in ChaseOnes
               PROVE  cache'[c].session >= cache[c].session
    OBVIOUS
  <2>1. c \in Connections /\ cache[c].session \in Nat /\ cache \in [Connections -> [session : Nat, old : BOOLEAN]]
    BY LoginAssumption DEF LoginInv, LoginTypes
  <2>2. CASE UNCHANGED cache
    BY <2>1, <2>2
  <2>3. CASE \E d \in Connections : GrowsOld(d)
    BY <2>1, <2>3 DEF GrowsOld
  <2>4. CASE \E p \in browser, session \in Nat :
                 /\ SetSession(proc[p].of, session)
                 /\ proc[p].of = c => session >= cache[c].session
    BY <2>1, <2>4 DEF SetSession
  <2>5. ASSUME NEW p \in browser, proc[p].at = "probe", LoggedIn(p)
        PROVE  \E session \in Nat : /\ SetSession(proc[p].of, session)
                                    /\ proc[p].of = c => session >= cache[c].session
    BY <2>5 DEF LoggedIn, LoginInv, LoginTypes, Tasks, ProfileAhead
  <2>6. ASSUME NEW p \in browser, proc[p].at = "fetch", SetSession(proc[p].of, profile[proc[p].of])
        PROVE  \E session \in Nat : /\ SetSession(proc[p].of, session)
                                    /\ proc[p].of = c => session >= cache[c].session
    BY <2>6 DEF LoginInv, LoginTypes, Fit, ProfileAhead
  <2>7. ASSUME NEW p \in Processes, capture_session(p) PROVE cache'[c].session >= cache[c].session
    BY <2>2, <2>4, <2>6, <2>7 DEF capture_session, At
  <2>8. ASSUME NEW p \in Processes, wait_for_valid_api_session(p) \/ SchwabLoginDone(p)
        PROVE  cache'[c].session >= cache[c].session
    BY <2>2, <2>4, <2>5, <2>8 DEF wait_for_valid_api_session, SchwabLoginDone, At
  <2>9. ASSUME NEW p \in Processes,
               Rotate(p) \/ check_auth(p) \/ login(p) \/ SignIn(p) \/ LoginFails(p)
               \/ session_from_page(p) \/ sync_internal_auth(p)
        PROVE  UNCHANGED cache
    BY <2>9 DEF Rotate, check_auth, login, SignIn, LoginFails, session_from_page, sync_internal_auth
  <2>10. /\ \A d \in Connections : Revoke(d) => UNCHANGED cache
         /\ \A p \in Processes, d \in Connections, direct \in BOOLEAN : Start(p, d, direct) => UNCHANGED cache
         /\ \A p \in Processes, yes \in BOOLEAN : ensure_interactive_auth(p, yes) => UNCHANGED cache
         /\ UNCHANGED loginVars => UNCHANGED cache
    BY DEF Revoke, Start, ensure_interactive_auth, loginVars
  <2> QED BY <2>2, <2>3, <2>7, <2>8, <2>9, <2>10 DEF LoginNext
<1> QED BY <1>1, LoginInvariant, PTL DEF LoginSpec, NewestSessionKept

\* Sessions last.
THEOREM StoredSessionsLast == LoginSpec => SessionsLast
<1> QED BY LoginStoresWhatWorks, NewerSessionsOnly, PTL DEF SessionsLast

\* A set of natural numbers has a least element, ...
LEMMA LeastNumber ==
  ASSUME NEW T, T \subseteq Nat, T # {}
  PROVE  Min(T) \in T /\ \A k \in T : Min(T) <= k
<1> DEFINE R == {ss \in Nat \X Nat : ss[1] < ss[2]}
<1>1. IsWellFoundedOn(R, Nat)
  BY NatLessThanWellFounded DEF OpToRel
<1> HIDE DEF R
<1>2. PICK m \in T : \A k \in T : ~(<<k, m>> \in R)
  BY <1>1, WFMin
<1>3. ASSUME NEW k \in T PROVE m <= k
  <2>1. k \in Nat /\ m \in Nat /\ <<k, m>> \in Nat \X Nat
    OBVIOUS
  <2>2. ~(k < m)
    BY <1>2, <2>1 DEF R
  <2> QED BY <2>1, <2>2
<1> QED BY <1>3 DEF Min

\* ... and one of a sequence's places has a greatest.
LEMMA GreatestPlace ==
  ASSUME NEW n \in Nat, NEW I, I \subseteq 1 .. n, I # {}
  PROVE  Max(I) \in I /\ \A j \in I : j <= Max(I)
<1> DEFINE T == {n - i : i \in I}
<1>1. T \subseteq Nat /\ T # {}
  <2>1. \A i \in I : n - i \in Nat
    OBVIOUS
  <2> QED BY <2>1
<1>2. Min(T) \in T /\ \A k \in T : Min(T) <= k
  BY <1>1, LeastNumber
<1>3. PICK k \in I : Min(T) = n - k
  BY <1>2
<1>4. \A j \in I : n - k <= n - j
  BY <1>2, <1>3
<1>5. \A j \in I : k >= j
  BY <1>3, <1>4
<1>6. Max(I) \in I /\ \A j \in I : Max(I) >= j
  BY <1>5 DEF Max
<1> QED BY <1>6

(***************************************************************************)
(* Coinbase.                                                               *)
(***************************************************************************)
Wallet == [uuid : Nat, currency : Currencies, amount : Nat]
Account == [currency : Currencies, born : Nat, active : BOOLEAN, balance : Nat, fills : SUBSET Nat]
Visit == [at : {"idle", "wallets", "fills", "save", "done"}, portfolio : Nat, list : Seq(Wallet),
          got : SUBSET Nat, left : Nat, owed : SUBSET Nat]
Ids == DOMAIN accounts
CurrencyOf(id) == accounts[id].currency

CoinbaseTypes ==
    /\ wallets \in [ToSet(Portfolios) -> Seq(Wallet)]
    /\ fills \in Seq([currency : Currencies, side : {"BUY", "SELL"}])
    /\ accounts \in [Ids -> Account] /\ Ids \subseteq Nat
    /\ visit \in Visit
    /\ visits \in Nat /\ changes \in Nat

\* What a sync reads is there, and by the end it has read what it owes.
Reading ==
    /\ visit.at = "wallets" => visit.portfolio \in 1 .. Len(Portfolios)
    /\ visit.at \in {"idle", "wallets"} => visit.got = {}
    /\ visit.at \in {"fills", "save"} => visit.got \subseteq 1 .. Len(fills)
    /\ visit.at = "fills" => visit.left <= Len(fills) /\ visit.owed \subseteq visit.got \cup 1 .. visit.left
    /\ visit.at = "save" => visit.owed \subseteq visit.got
    /\ Doubled(<<visit.list>>) \subseteq double

\* A uuid is of one currency for good, as a wallet or as the account that was made of it.
Known == AllWallets \cup ToSet(visit.list)
Labelled ==
    /\ \A w \in Known : w.uuid <= 10 + changes
    /\ \A v, w \in Known : v.uuid = w.uuid => v.currency = w.currency
    /\ \A id \in Ids : id <= 10 + changes /\ \A w \in Known : w.uuid = id => w.currency = CurrencyOf(id)

\* Accounts of one currency are not equally old, and the first of them has all the fills.
FirstHasFills ==
    /\ \A id, other \in Ids : id # other /\ CurrencyOf(id) = CurrencyOf(other) =>
           accounts[id].born # accounts[other].born
    /\ \A id, other \in Ids : accounts[id].fills # {} /\ CurrencyOf(id) = CurrencyOf(other) =>
           accounts[id].born <= accounts[other].born
    /\ \A id \in Ids : \A f \in accounts[id].fills : f \in 1 .. Len(fills) /\ fills[f].currency = CurrencyOf(id)

OwedStored ==
    visit.at = "done" => \A f \in visit.owed :
        (f \in 1 .. Len(fills)) /\
        ((\E i \in DOMAIN visit.list : visit.list[i].currency = fills[f].currency)
         => \E id \in Ids : f \in accounts[id].fills)

CoinbaseInv == CoinbaseTypes /\ Reading /\ Labelled /\ FirstHasFills /\ OwedStored /\ OneAccountEach /\ WorthOfWallets

\* At first nothing is stored.
LEMMA CoinbaseInitHolds == CoinbaseInit => CoinbaseInv
<1> SUFFICES ASSUME CoinbaseInit PROVE CoinbaseInv
  OBVIOUS
<1> USE DEF CoinbaseInit
<1>1. /\ NoVisit \in Visit /\ NoVisit.at = "idle" /\ NoVisit.list = <<>> /\ NoVisit.got = {}
      /\ NoVisit.owed = {}
  BY DEF NoVisit, Visit
<1> HIDE DEF NoVisit
<1>2. accounts \in [Ids -> Account] /\ Ids = {}
  BY DEF Ids
<1>3. FirstWallets \in [ToSet(Portfolios) -> Seq(Wallet)]
  BY CoinbaseAssumption DEF Wallet
<1>4. CoinbaseTypes
  BY <1>1, <1>2, <1>3 DEF CoinbaseTypes
<1>5. Reading
  BY <1>1 DEF Reading, Doubled
<1>6. Labelled
  <2>1. ToSet(visit.list) = {}
    BY <1>1 DEF ToSet
  <2>2. ASSUME NEW w \in Known
        PROVE  \E p \in ToSet(Portfolios) : \E i \in DOMAIN FirstWallets[p] : w = FirstWallets[p][i]
    <3>1. w \in AllWallets
      BY <2>1 DEF Known
    <3>2. PICK p \in ToSet(Portfolios) : w \in ToSet(FirstWallets[p])
      BY <3>1 DEF AllWallets
    <3> QED BY <3>2 DEF ToSet
  <2>3. \A w \in Known : w.uuid <= 10
    BY <2>2, CoinbaseAssumption
  <2>4. ASSUME NEW v \in Known, NEW w \in Known, v.uuid = w.uuid PROVE v.currency = w.currency
    <3>1. PICK p \in ToSet(Portfolios) : \E i \in DOMAIN FirstWallets[p] : v = FirstWallets[p][i]
      BY <2>2
    <3>2. PICK q \in ToSet(Portfolios) : \E j \in DOMAIN FirstWallets[q] : w = FirstWallets[q][j]
      BY <2>2
    <3>3. PICK i \in DOMAIN FirstWallets[p] : v = FirstWallets[p][i]
      BY <3>1
    <3>4. PICK j \in DOMAIN FirstWallets[q] : w = FirstWallets[q][j]
      BY <3>2
    <3>5. FirstWallets[p][i].uuid = FirstWallets[q][j].uuid
          => FirstWallets[p][i].currency = FirstWallets[q][j].currency
      BY CoinbaseAssumption
    <3> QED BY <2>4, <3>3, <3>4, <3>5
  <2> QED BY <2>3, <2>4, <1>2 DEF Labelled
<1>7. FirstHasFills /\ OwedStored /\ OneAccountEach /\ WorthOfWallets
  BY <1>1, <1>2 DEF FirstHasFills, OwedStored, OneAccountEach, WorthOfWallets, Ids
<1> QED BY <1>4, <1>5, <1>6, <1>7 DEF CoinbaseInv

\* A visit with other things in it.
LEMMA OtherVisit ==
  ASSUME NEW A, NEW N, NEW L, NEW G,
         NEW v \in [at : A, portfolio : N, list : L, got : G, left : N, owed : G],
         NEW o, NEW at \in A, NEW portfolio \in N, NEW list \in L, NEW got \in G, NEW left \in N,
         NEW owed \in G,
         \/ o = [v EXCEPT !.at = at, !.portfolio = portfolio, !.list = list, !.got = got, !.left = left,
                          !.owed = owed]
         \/ /\ o = [v EXCEPT !.list = list, !.portfolio = portfolio, !.at = at, !.left = left, !.owed = owed]
            /\ got = v.got
         \/ /\ o = [v EXCEPT !.at = at, !.got = got, !.left = left, !.owed = owed]
            /\ list = v.list /\ portfolio = v.portfolio
         \/ /\ o = [v EXCEPT !.at = at]
            /\ list = v.list /\ portfolio = v.portfolio /\ got = v.got /\ left = v.left /\ owed = v.owed
  PROVE  /\ o \in [at : A, portfolio : N, list : L, got : G, left : N, owed : G]
         /\ o.at = at /\ o.portfolio = portfolio /\ o.list = list /\ o.got = got /\ o.left = left
         /\ o.owed = owed
OBVIOUS

\* What a visit has seen are wallets.
LEMMA KnownWallets ==
  ASSUME CoinbaseTypes
  PROVE  Known \subseteq Wallet
<1> SUFFICES ASSUME NEW w \in Known PROVE w \in Wallet
  OBVIOUS
<1>1. visit.list \in Seq(Wallet)
  BY DEF CoinbaseTypes, Visit
<1>2. CASE w \in ToSet(visit.list)
  BY <1>1, <1>2 DEF ToSet
<1>3. CASE w \in AllWallets
  <2>1. PICK p \in ToSet(Portfolios) : w \in ToSet(wallets[p])
    BY <1>3 DEF AllWallets
  <2>2. wallets[p] \in Seq(Wallet)
    BY DEF CoinbaseTypes
  <2> QED BY <2>1, <2>2 DEF ToSet
<1> QED BY <1>2, <1>3 DEF Known

\* Something happens at Coinbase: no wallet gets the uuid of another.
LEMMA ChangedKeeps ==
  ASSUME CoinbaseInv, NEW lists \in [ToSet(Portfolios) -> Seq(Wallet)], Changed(lists),
         visit.at \in {"idle", "wallets", "fills"},
         fills' \in Seq([currency : Currencies, side : {"BUY", "SELL"}]), Len(fills') >= Len(fills),
         \A f \in 1 .. Len(fills) : fills'[f] = fills[f],
         NEW c,
         \A p \in ToSet(Portfolios) : \A i \in DOMAIN lists[p] :
             \/ \E w \in AllWallets : lists[p][i].uuid = w.uuid /\ lists[p][i].currency = w.currency
             \/ lists[p][i].uuid = 11 + changes /\ lists[p][i].currency = c
  PROVE  CoinbaseInv'
<1>1. /\ changes' = changes + 1 /\ wallets' = lists /\ double \subseteq double'
      /\ UNCHANGED <<accounts, visit, visits>>
  BY DEF Changed
<1>2. visit \in Visit /\ visit' = visit
  BY <1>1 DEF CoinbaseInv, CoinbaseTypes, Visit
<1>3. /\ changes \in Nat /\ fills \in Seq([currency : Currencies, side : {"BUY", "SELL"}])
      /\ Len(fills) \in Nat /\ Len(fills') \in Nat /\ visit.left \in Nat
  BY <1>2 DEF CoinbaseInv, CoinbaseTypes, Visit
<1>4. CoinbaseTypes'
  BY <1>1, <1>2 DEF CoinbaseInv, CoinbaseTypes, Ids
<1>5. Reading'
  BY <1>1, <1>2, <1>3 DEF CoinbaseInv, Reading, Doubled
<1>6. \A w \in Known' : \/ \E v \in Known : w.uuid = v.uuid /\ w.currency = v.currency
                        \/ w.uuid = 11 + changes /\ w.currency = c
  BY <1>1, <1>2 DEF Known, AllWallets, ToSet
<1>7. \A w \in Known : w.uuid \in Nat
  BY KnownWallets DEF Wallet, CoinbaseInv
<1>8. Labelled'
  <2>1. ASSUME NEW w \in Known' PROVE w.uuid <= 10 + changes'
    <3>1. \A v \in Known : v.uuid \in Nat /\ v.uuid <= 10 + changes
      BY <1>7 DEF CoinbaseInv, Labelled
    <3> QED BY <3>1, <1>1, <1>3, <1>6
  <2>2. \A v, w \in Known' : v.uuid = w.uuid => v.currency = w.currency
    BY <1>3, <1>6, <1>7 DEF CoinbaseInv, Labelled
  <2>3. ASSUME NEW id \in Ids
        PROVE  id <= 10 + changes' /\ \A w \in Known' : w.uuid = id => w.currency = CurrencyOf(id)
    <3>1. id \in Nat /\ id <= 10 + changes /\ \A w \in Known : w.uuid = id => w.currency = CurrencyOf(id)
      BY DEF CoinbaseInv, CoinbaseTypes, Labelled
    <3>2. id <= 10 + changes' /\ id # 11 + changes
      BY <3>1, <1>1, <1>3
    <3> QED BY <3>1, <3>2, <1>6
  <2> QED BY <2>1, <2>2, <2>3, <1>1 DEF Labelled, Ids, CurrencyOf
<1>9. FirstHasFills'
  BY <1>1, <1>3 DEF CoinbaseInv, FirstHasFills, Ids, CurrencyOf
<1>10. OwedStored' /\ OneAccountEach' /\ WorthOfWallets'
  BY <1>1, <1>2 DEF CoinbaseInv, OwedStored, OneAccountEach, WorthOfWallets, Ids, CurrencyOf
<1> QED BY <1>4, <1>5, <1>8, <1>9, <1>10 DEF CoinbaseInv

\* A wallet in the list of a portfolio, and the list with another in its place or without it.
LEMMA WalletThere ==
  ASSUME CoinbaseTypes, NEW p \in ToSet(Portfolios), NEW i \in DOMAIN wallets[p]
  PROVE  wallets[p] \in Seq(Wallet) /\ wallets[p][i] \in Wallet /\ wallets[p][i] \in AllWallets
<1>1. wallets[p] \in Seq(Wallet)
  BY DEF CoinbaseTypes
<1> QED BY <1>1 DEF AllWallets, ToSet

\* One wallet in the place of another of its currency, as trades and closings leave it.
LEMMA ReplacedKeeps ==
  ASSUME CoinbaseInv, NEW p \in ToSet(Portfolios), NEW i \in DOMAIN wallets[p], NEW w \in Wallet,
         w.currency = wallets[p][i].currency, w.uuid \in {wallets[p][i].uuid, 11 + changes},
         Changed([wallets EXCEPT ![p] = [wallets[p] EXCEPT ![i] = w]]),
         visit.at \in {"idle", "wallets", "fills"},
         fills' \in Seq([currency : Currencies, side : {"BUY", "SELL"}]), Len(fills') >= Len(fills),
         \A f \in 1 .. Len(fills) : fills'[f] = fills[f]
  PROVE  CoinbaseInv'
<1> DEFINE lists == [wallets EXCEPT ![p] = [wallets[p] EXCEPT ![i] = w]]
<1>1. wallets \in [ToSet(Portfolios) -> Seq(Wallet)] /\ wallets[p] \in Seq(Wallet)
      /\ wallets[p][i] \in AllWallets
  BY WalletThere DEF CoinbaseInv, CoinbaseTypes
<1>2. [wallets[p] EXCEPT ![i] = w] \in Seq(Wallet)
  BY <1>1
<1>3. lists \in [ToSet(Portfolios) -> Seq(Wallet)]
  BY <1>1, <1>2
<1>4. ASSUME NEW q \in ToSet(Portfolios), NEW j \in DOMAIN lists[q]
      PROVE  \/ \E v \in AllWallets : lists[q][j].uuid = v.uuid /\ lists[q][j].currency = v.currency
             \/ lists[q][j].uuid = 11 + changes /\ lists[q][j].currency = w.currency
  <2>1. CASE q = p /\ j = i
    BY <2>1, <1>1
  <2>2. CASE q # p \/ j # i
    <3>1. j \in DOMAIN wallets[q] /\ lists[q][j] = wallets[q][j]
      BY <2>2, <1>1
    <3> QED BY <3>1, WalletThere DEF CoinbaseInv
  <2> QED BY <2>1, <2>2
<1> HIDE DEF lists
<1>5. Changed(lists)
  BY DEF lists
<1> QED BY <1>3, <1>4, <1>5, ChangedKeeps

\* A trade changes a wallet and adds a fill.
LEMMA TradeKeeps ==
  ASSUME CoinbaseInv, NEW p \in ToSet(Portfolios), NEW i \in DOMAIN wallets[p], NEW amount \in {0, 2},
         visit.at \in {"idle", "wallets", "fills"}, Trade(p, i, amount)
  PROVE  CoinbaseInv'
<1> DEFINE w == [wallets[p][i] EXCEPT !.amount = amount]
<1> DEFINE fill == [currency |-> wallets[p][i].currency, side |-> IF amount = 0 THEN "SELL" ELSE "BUY"]
<1>1. wallets[p] \in Seq(Wallet) /\ wallets[p][i] \in Wallet
  BY WalletThere DEF CoinbaseInv
<1>2. w \in Wallet /\ w.uuid = wallets[p][i].uuid /\ w.currency = wallets[p][i].currency
  BY <1>1 DEF Wallet
<1>3. fill \in [currency : Currencies, side : {"BUY", "SELL"}]
  BY <1>1 DEF Wallet
<1>4. fills' = Append(fills, fill) /\ fills \in Seq([currency : Currencies, side : {"BUY", "SELL"}])
  BY DEF Trade, CoinbaseInv, CoinbaseTypes
<1>5. Changed([wallets EXCEPT ![p] = [wallets[p] EXCEPT ![i] = w]])
  BY DEF Trade
<1> HIDE DEF w, fill
<1>6. /\ fills' \in Seq([currency : Currencies, side : {"BUY", "SELL"}]) /\ Len(fills') >= Len(fills)
      /\ \A f \in 1 .. Len(fills) : fills'[f] = fills[f]
  BY <1>3, <1>4
<1> QED BY <1>2, <1>5, <1>6, ReplacedKeeps

\* A wallet takes the place of another of its currency.
LEMMA NewWalletKeeps ==
  ASSUME CoinbaseInv, NEW p \in ToSet(Portfolios), NEW i \in DOMAIN wallets[p],
         visit.at \in {"idle", "wallets", "fills"}, NewWallet(p, i)
  PROVE  CoinbaseInv'
<1> DEFINE w == [wallets[p][i] EXCEPT !.uuid = 11 + changes]
<1>1. wallets[p] \in Seq(Wallet) /\ wallets[p][i] \in Wallet /\ changes \in Nat
  BY WalletThere DEF CoinbaseInv, CoinbaseTypes
<1>2. w \in Wallet /\ w.uuid = 11 + changes /\ w.currency = wallets[p][i].currency
  <2> DEFINE n == 11 + changes
  <2>1. n \in Nat
    BY <1>1
  <2> HIDE DEF n
  <2>2. [wallets[p][i] EXCEPT !.uuid = n] \in Wallet
    BY <1>1, <2>1 DEF Wallet
  <2> QED BY <1>1, <2>2 DEF Wallet, n
<1>3. Changed([wallets EXCEPT ![p] = [wallets[p] EXCEPT ![i] = w]]) /\ UNCHANGED fills
  BY DEF NewWallet
<1> HIDE DEF w
<1>4. /\ fills' \in Seq([currency : Currencies, side : {"BUY", "SELL"}]) /\ Len(fills') >= Len(fills)
      /\ \A f \in 1 .. Len(fills) : fills'[f] = fills[f]
  BY <1>3 DEF CoinbaseInv, CoinbaseTypes
<1> QED BY <1>2, <1>3, <1>4, ReplacedKeeps

\* Two lists one after the other.
LEMMA JoinedLists ==
  ASSUME NEW S, NEW s \in Seq(S), NEW t \in Seq(S)
  PROVE  /\ s \o t \in Seq(S) /\ Len(s \o t) = Len(s) + Len(t)
         /\ \A i \in 1 .. Len(s) + Len(t) : (s \o t)[i] = IF i <= Len(s) THEN s[i] ELSE t[i - Len(s)]
OBVIOUS

\* What is left when one is taken out.
LEMMA WithoutOne ==
  ASSUME NEW S, NEW s \in Seq(S), NEW i \in DOMAIN s
  PROVE  /\ RemoveAt(s, i) \in Seq(S)
         /\ \A j \in DOMAIN RemoveAt(s, i) : \E k \in DOMAIN s : RemoveAt(s, i)[j] = s[k]
<1>1. i \in 1 .. Len(s) /\ Len(s) \in Nat
  OBVIOUS
<1> DEFINE a == SubSeq(s, 1, i - 1)
<1> DEFINE b == SubSeq(s, i + 1, Len(s))
<1>2. /\ a \in Seq(S) /\ Len(a) = i - 1 /\ \A j \in 1 .. i - 1 : a[j] = s[j]
      /\ b \in Seq(S) /\ Len(b) = Len(s) - i /\ \A j \in 1 .. Len(s) - i : b[j] = s[i + j]
  BY <1>1
<1> HIDE DEF a, b
<1>3. RemoveAt(s, i) = a \o b
  BY DEF RemoveAt, a, b
<1>4. /\ a \o b \in Seq(S) /\ Len(a \o b) = Len(s) - 1
      /\ \A j \in 1 .. Len(s) - 1 : (a \o b)[j] = IF j <= i - 1 THEN a[j] ELSE b[j - (i - 1)]
  <2>1. /\ a \o b \in Seq(S) /\ Len(a \o b) = Len(a) + Len(b)
        /\ \A j \in 1 .. Len(a) + Len(b) : (a \o b)[j] = IF j <= Len(a) THEN a[j] ELSE b[j - Len(a)]
    BY <1>2, JoinedLists
  <2>2. Len(a) = i - 1 /\ Len(a) + Len(b) = Len(s) - 1
    BY <1>1, <1>2
  <2> QED BY <2>1, <2>2
<1>5. ASSUME NEW j \in 1 .. Len(s) - 1 PROVE \E k \in DOMAIN s : (a \o b)[j] = s[k]
  <2>1. CASE j <= i - 1
    <3>1. j \in 1 .. i - 1 /\ j \in 1 .. Len(s)
      BY <2>1, <1>1
    <3>2. (a \o b)[j] = s[j]
      BY <2>1, <3>1, <1>2, <1>4
    <3> QED BY <3>1, <3>2
  <2>2. CASE ~(j <= i - 1)
    <3>1. j - (i - 1) \in 1 .. Len(s) - i /\ j + 1 \in 1 .. Len(s) /\ i + (j - (i - 1)) = j + 1
      BY <2>2, <1>1
    <3>2. (a \o b)[j] = s[j + 1]
      BY <2>2, <3>1, <1>2, <1>4
    <3> QED BY <3>1, <3>2
  <2> QED BY <2>1, <2>2
<1>6. DOMAIN (a \o b) = 1 .. Len(s) - 1
  BY <1>4
<1> QED BY <1>3, <1>4, <1>5, <1>6

\* A wallet is gone.
LEMMA VanishKeeps ==
  ASSUME CoinbaseInv, NEW p \in ToSet(Portfolios), NEW i \in DOMAIN wallets[p],
         visit.at \in {"idle", "wallets", "fills"}, Vanish(p, i)
  PROVE  CoinbaseInv'
<1> DEFINE rest == RemoveAt(wallets[p], i)
<1> DEFINE lists == [wallets EXCEPT ![p] = rest]
<1>1. wallets \in [ToSet(Portfolios) -> Seq(Wallet)] /\ wallets[p] \in Seq(Wallet)
  BY DEF CoinbaseInv, CoinbaseTypes
<1>2. rest \in Seq(Wallet) /\ \A j \in DOMAIN rest : \E k \in DOMAIN wallets[p] : rest[j] = wallets[p][k]
  BY <1>1, WithoutOne
<1>3. Changed(lists) /\ UNCHANGED fills
  BY DEF Vanish
<1> HIDE DEF rest
<1>4. lists \in [ToSet(Portfolios) -> Seq(Wallet)]
  BY <1>1, <1>2
<1>5. ASSUME NEW q \in ToSet(Portfolios), NEW j \in DOMAIN lists[q]
      PROVE  \/ \E v \in AllWallets : lists[q][j].uuid = v.uuid /\ lists[q][j].currency = v.currency
             \/ lists[q][j].uuid = 11 + changes /\ lists[q][j].currency = wallets[p][i].currency
  <2>1. \E k \in DOMAIN wallets[q] : lists[q][j] = wallets[q][k]
    BY <1>1, <1>2
  <2> QED BY <2>1, WalletThere DEF CoinbaseInv
<1> HIDE DEF lists
<1>6. /\ fills' \in Seq([currency : Currencies, side : {"BUY", "SELL"}]) /\ Len(fills') >= Len(fills)
      /\ \A f \in 1 .. Len(fills) : fills'[f] = fills[f]
  BY <1>3 DEF CoinbaseInv, CoinbaseTypes
<1> QED BY <1>3, <1>4, <1>5, <1>6, ChangedKeeps

\* A wallet moves to another portfolio.
LEMMA MoveKeeps ==
  ASSUME CoinbaseInv, NEW p \in ToSet(Portfolios), NEW i \in DOMAIN wallets[p], NEW q \in ToSet(Portfolios),
         visit.at \in {"idle", "wallets", "fills"}, Move(p, i, q)
  PROVE  CoinbaseInv'
<1> DEFINE rest == RemoveAt(wallets[p], i)
<1> DEFINE more == Append(wallets[q], wallets[p][i])
<1> DEFINE lists == [wallets EXCEPT ![p] = rest, ![q] = more]
<1>1. /\ wallets \in [ToSet(Portfolios) -> Seq(Wallet)] /\ wallets[p] \in Seq(Wallet)
      /\ wallets[q] \in Seq(Wallet) /\ wallets[p][i] \in Wallet /\ p # q
  BY WalletThere DEF CoinbaseInv, CoinbaseTypes, Move
<1>2. rest \in Seq(Wallet) /\ \A j \in DOMAIN rest : \E k \in DOMAIN wallets[p] : rest[j] = wallets[p][k]
  BY <1>1, WithoutOne
<1>3. /\ more \in Seq(Wallet)
      /\ \A j \in DOMAIN more : more[j] = wallets[p][i] \/ \E k \in DOMAIN wallets[q] : more[j] = wallets[q][k]
  BY <1>1
<1>4. Changed(lists) /\ UNCHANGED fills
  BY <1>1 DEF Move
<1> HIDE DEF rest, more
<1>5. lists \in [ToSet(Portfolios) -> Seq(Wallet)]
  BY <1>1, <1>2, <1>3
<1>6. ASSUME NEW r \in ToSet(Portfolios), NEW j \in DOMAIN lists[r]
      PROVE  \/ \E v \in AllWallets : lists[r][j].uuid = v.uuid /\ lists[r][j].currency = v.currency
             \/ lists[r][j].uuid = 11 + changes /\ lists[r][j].currency = wallets[p][i].currency
  <2>1. lists[r][j] = wallets[p][i] \/ \E o \in ToSet(Portfolios) : \E k \in DOMAIN wallets[o] : lists[r][j] = wallets[o][k]
    <3>1. CASE r = p
      BY <3>1, <1>1, <1>2
    <3>2. CASE r = q
      BY <3>2, <1>1, <1>3
    <3>3. CASE r \notin {p, q}
      BY <3>3, <1>1
    <3> QED BY <3>1, <3>2, <3>3
  <2> QED BY <2>1, WalletThere DEF CoinbaseInv
<1> HIDE DEF lists
<1>7. /\ fills' \in Seq([currency : Currencies, side : {"BUY", "SELL"}]) /\ Len(fills') >= Len(fills)
      /\ \A f \in 1 .. Len(fills) : fills'[f] = fills[f]
  BY <1>4 DEF CoinbaseInv, CoinbaseTypes
<1> QED BY <1>4, <1>5, <1>6, <1>7, ChangedKeeps

\* A sync goes on, and sees no wallet that is not known.
LEMMA VisitKeeps ==
  ASSUME CoinbaseInv, visit' \in Visit, visits' \in Nat,
         UNCHANGED <<wallets, fills, accounts, changes>>, double \subseteq double',
         ToSet(visit'.list) \subseteq Known, Reading', visit'.at # "done"
  PROVE  CoinbaseInv'
<1>1. Known' \subseteq Known
  BY DEF Known, AllWallets
<1>2. CoinbaseTypes'
  BY DEF CoinbaseInv, CoinbaseTypes, Ids
<1>3. Labelled'
  BY <1>1 DEF CoinbaseInv, Labelled, Ids, CurrencyOf
<1>4. FirstHasFills' /\ OneAccountEach'
  BY DEF CoinbaseInv, FirstHasFills, OneAccountEach, Ids, CurrencyOf
<1>5. OwedStored' /\ WorthOfWallets'
  BY DEF OwedStored, WorthOfWallets
<1> QED BY <1>2, <1>3, <1>4, <1>5 DEF CoinbaseInv

\* A sync that is over, or begins.
LEMMA AfreshKeeps ==
  ASSUME CoinbaseInv, visit' = NoVisit \/ visit' = [NoVisit EXCEPT !.at = "wallets"],
         visits' \in Nat, UNCHANGED <<wallets, fills, accounts, changes, double>>
  PROVE  CoinbaseInv'
<1>1. /\ visit' \in Visit /\ visit'.at \in {"idle", "wallets"} /\ visit'.list = <<>>
      /\ visit'.got = {} /\ visit'.portfolio = 1
  <2>1. /\ NoVisit \in Visit /\ NoVisit.at = "idle" /\ NoVisit.list = <<>> /\ NoVisit.got = {}
        /\ NoVisit.portfolio = 1
    BY DEF NoVisit, Visit
  <2>2. CASE visit' = NoVisit
    BY <2>1, <2>2
  <2>3. CASE visit' = [NoVisit EXCEPT !.at = "wallets"]
    <3> HIDE DEF NoVisit
    <3> DEFINE wa == "wallets"
    <3>1. wa \in {"idle", "wallets", "fills", "save", "done"} /\ visit' = [NoVisit EXCEPT !.at = wa]
      BY <2>3
    <3>2. /\ NoVisit.portfolio \in Nat /\ NoVisit.list \in Seq(Wallet) /\ NoVisit.got \in SUBSET Nat
          /\ NoVisit.left \in Nat /\ NoVisit.owed \in SUBSET Nat
      BY <2>1 DEF Visit
    <3> HIDE DEF wa
    <3>3. visit' \in Visit /\ visit'.at = wa /\ visit'.list = NoVisit.list /\ visit'.got = NoVisit.got
          /\ visit'.portfolio = NoVisit.portfolio
      BY <2>1, <3>1, <3>2, OtherVisit DEF Visit
    <3> QED BY <2>1, <3>3 DEF wa
  <2> QED BY <2>2, <2>3
<1>2. ToSet(visit'.list) = {}
  BY <1>1 DEF ToSet
<1>3. 1 \in 1 .. Len(Portfolios)
  BY CoinbaseAssumption
<1>4. Reading'
  BY <1>1, <1>3 DEF Reading, Doubled
<1> QED BY <1>1, <1>2, <1>4, VisitKeeps

\* A sync begins with what is stored.
LEMMA CoinbaseStartKeeps == CoinbaseInv /\ CoinbaseStart => CoinbaseInv'
BY AfreshKeeps DEF CoinbaseStart, CoinbaseInv, CoinbaseTypes

\* A sync that is over leaves nothing to go on with.
LEMMA CoinbaseReturnKeeps == CoinbaseInv /\ CoinbaseReturn => CoinbaseInv'
BY AfreshKeeps DEF CoinbaseReturn, CoinbaseInv, CoinbaseTypes

\* A portfolio's wallets are read.
LEMMA get_accountsKeeps ==
  ASSUME CoinbaseInv, get_accounts
  PROVE  CoinbaseInv'
<1> DEFINE p == Portfolios[visit.portfolio]
<1> DEFINE list == visit.list \o wallets[p]
<1>1. /\ visit \in Visit /\ visit.list \in Seq(Wallet) /\ visit.got = {} /\ visit.at = "wallets"
      /\ visit.portfolio \in 1 .. Len(Portfolios)
      /\ fills \in Seq([currency : Currencies, side : {"BUY", "SELL"}])
  BY DEF get_accounts, CoinbaseInv, CoinbaseTypes, Reading, Visit
<1>2. p \in ToSet(Portfolios) /\ wallets[p] \in Seq(Wallet)
  BY <1>1, CoinbaseAssumption DEF ToSet, CoinbaseInv, CoinbaseTypes
<1> HIDE DEF p
<1> DEFINE a == Len(visit.list)
<1> DEFINE b == Len(wallets[p])
<1>3. /\ list \in Seq(Wallet) /\ Len(list) = a + b
      /\ \A i \in 1 .. a + b : list[i] = IF i <= a THEN visit.list[i] ELSE wallets[p][i - a]
  <2> DEFINE s == visit.list
  <2> DEFINE t == wallets[p]
  <2>1. s \in Seq(Wallet) /\ t \in Seq(Wallet) /\ list = s \o t /\ a = Len(s) /\ b = Len(t)
    BY <1>1, <1>2
  <2> HIDE DEF s, t, list, a, b
  <2>2. /\ list \in Seq(Wallet) /\ Len(list) = a + b
        /\ \A i \in 1 .. a + b : list[i] = IF i <= a THEN s[i] ELSE t[i - a]
    BY <2>1, JoinedLists
  <2> QED BY <2>2 DEF s, t
<1>4. a \in Nat /\ b \in Nat /\ DOMAIN visit.list = 1 .. a /\ DOMAIN wallets[p] = 1 .. b
  BY <1>1, <1>2
<1> HIDE DEF a, b, list
<1>5. list \in Seq(Wallet) /\ ToSet(list) \subseteq Known
  <2>1. DOMAIN list = 1 .. a + b
    BY <1>3, <1>4
  <2>2. ASSUME NEW i \in 1 .. a + b PROVE list[i] \in Known
    <3>1. CASE i <= a
      <4>1. i \in DOMAIN visit.list /\ list[i] = visit.list[i]
        BY <1>3, <1>4, <3>1
      <4> QED BY <4>1 DEF Known, ToSet
    <3>2. CASE ~(i <= a)
      <4>1. i - a \in DOMAIN wallets[p] /\ list[i] = wallets[p][i - a]
        BY <1>3, <1>4, <3>2
      <4> QED BY <4>1, <1>2, WalletThere DEF Known, CoinbaseInv
    <3> QED BY <3>1, <3>2
  <2> QED BY <2>1, <2>2, <1>3 DEF ToSet
<1> DEFINE n == visit.portfolio + 1
<1> DEFINE at == IF visit.portfolio = Len(Portfolios) THEN "fills" ELSE "wallets"
<1>6. visit' = [visit EXCEPT !.list = list, !.portfolio = n, !.at = at, !.left = Len(fills),
                             !.owed = DOMAIN fills]
  BY DEF get_accounts, p, list
<1>7. /\ n \in Nat /\ Len(fills) \in Nat /\ DOMAIN fills = 1 .. Len(fills) /\ at \in {"wallets", "fills"}
      /\ at = "wallets" => n \in 1 .. Len(Portfolios)
  BY <1>1, CoinbaseAssumption
<1> HIDE DEF n, at, list
<1>8. /\ visit' \in Visit /\ visit'.at = at /\ visit'.portfolio = n /\ visit'.list = list
      /\ visit'.got = {} /\ visit'.left = Len(fills) /\ visit'.owed = 1 .. Len(fills)
  <2> DEFINE left == Len(fills)
  <2> DEFINE owed == DOMAIN fills
  <2> DEFINE got == visit.got
  <2>1. /\ visit' = [visit EXCEPT !.list = list, !.portfolio = n, !.at = at, !.left = left, !.owed = owed]
        /\ at \in {"idle", "wallets", "fills", "save", "done"} /\ left \in Nat /\ owed \in SUBSET Nat
        /\ owed = 1 .. Len(fills) /\ got \in SUBSET Nat
    BY <1>1, <1>6, <1>7
  <2> HIDE DEF left, owed, got
  <2>2. /\ visit' \in Visit /\ visit'.at = at /\ visit'.portfolio = n /\ visit'.list = list
        /\ visit'.got = got /\ visit'.left = left /\ visit'.owed = owed
    BY <1>1, <1>5, <1>7, <2>1, OtherVisit DEF Visit, got
  <2> QED BY <2>1, <2>2, <1>1 DEF left, got
<1>9. UNCHANGED <<wallets, fills, accounts, visits, changes>> /\ double' = double \cup Doubled(<<list>>)
  BY <1>8 DEF get_accounts
<1>10. Reading'
  BY <1>7, <1>8, <1>9 DEF Reading
<1>11. visits \in Nat
  BY DEF CoinbaseInv, CoinbaseTypes
<1> QED BY <1>5, <1>7, <1>8, <1>9, <1>10, <1>11, VisitKeeps

\* A sync at its fills, which may be through with them; the wallets stay as they were read.
LEMMA FillsRead ==
  ASSUME CoinbaseInv, visit.at = "fills", NEW got \in SUBSET (1 .. Len(fills)), NEW left \in Nat,
         NEW owed \in SUBSET Nat, NEW at \in {"fills", "save"},
         visit' = [visit EXCEPT !.at = at, !.got = got, !.left = left, !.owed = owed],
         left <= Len(fills), owed \subseteq got \cup 1 .. left, at = "save" => owed \subseteq got,
         UNCHANGED <<wallets, fills, accounts, double, visits, changes>>
  PROVE  CoinbaseInv'
<1>1. visit \in Visit /\ visits \in Nat /\ fills \in Seq([currency : Currencies, side : {"BUY", "SELL"}])
  BY DEF CoinbaseInv, CoinbaseTypes
<1>2. /\ visit' \in Visit /\ visit'.at = at /\ visit'.list = visit.list /\ visit'.got = got
      /\ visit'.left = left /\ visit'.owed = owed
  <2>1. /\ got \in SUBSET Nat /\ at \in {"idle", "wallets", "fills", "save", "done"}
        /\ visit.list \in Seq(Wallet) /\ visit.portfolio \in Nat
    BY <1>1 DEF Visit
  <2> QED BY <1>1, <2>1, OtherVisit DEF Visit
<1>3. Reading'
  BY <1>2 DEF CoinbaseInv, Reading
<1>4. ToSet(visit.list) \subseteq Known
  BY DEF Known
<1> QED BY <1>1, <1>2, <1>3, <1>4, VisitKeeps

\* A request fails: without the wallets there is no sync, without the fills it goes on.
LEMMA RequestFailsKeeps ==
  ASSUME CoinbaseInv, RequestFails
  PROVE  CoinbaseInv'
<1>1. visit \in Visit /\ visits \in Nat
  BY DEF CoinbaseInv, CoinbaseTypes
<1>2. CASE visit.at = "wallets"
  BY <1>1, <1>2, AfreshKeeps DEF RequestFails
<1>3. CASE visit.at = "fills"
  <2>1. visit' = [visit EXCEPT !.at = "save", !.got = {}, !.left = visit.left, !.owed = {}]
    BY <1>1, <1>3 DEF RequestFails, Visit
  <2>2. visit.left \in Nat /\ visit.left <= Len(fills)
    BY <1>1, <1>3 DEF Visit, CoinbaseInv, Reading
  <2> QED BY <1>3, <2>1, <2>2, FillsRead DEF RequestFails
<1> QED BY <1>2, <1>3 DEF RequestFails

\* A page of fills is read.
LEMMA get_fillsKeeps ==
  ASSUME CoinbaseInv, NEW n \in 0 .. Len(fills), get_fills(n)
  PROVE  CoinbaseInv'
<1> DEFINE left == visit.left - n
<1> DEFINE got == visit.got \cup (left + 1 .. visit.left)
<1> DEFINE at == IF visit.left = n THEN "save" ELSE "fills"
<1>1. /\ visit \in Visit /\ fills \in Seq([currency : Currencies, side : {"BUY", "SELL"}])
      /\ visit.at = "fills" /\ n <= visit.left
      /\ UNCHANGED <<wallets, fills, accounts, double, visits, changes>>
  BY DEF CoinbaseInv, CoinbaseTypes, get_fills
<1>2. /\ visit.left \in Nat /\ visit.left <= Len(fills) /\ Len(fills) \in Nat
      /\ visit.got \subseteq 1 .. Len(fills) /\ visit.owed \subseteq visit.got \cup 1 .. visit.left
      /\ visit.owed \subseteq Nat /\ n \in Nat
  BY <1>1 DEF Visit, CoinbaseInv, Reading
<1>3. /\ left \in Nat /\ left <= Len(fills) /\ got \in SUBSET (1 .. Len(fills))
      /\ at \in {"fills", "save"} /\ (at = "save" => left = 0)
  BY <1>1, <1>2
<1>4. visit.owed \subseteq got \cup 1 .. left
  <2>1. \A k \in 1 .. visit.left : k \in left + 1 .. visit.left \/ k \in 1 .. left
    BY <1>2, <1>3
  <2> QED BY <2>1, <1>2
<1>5. visit' = [visit EXCEPT !.at = at, !.got = got, !.left = left, !.owed = visit.owed]
  BY <1>1 DEF get_fills, Visit
<1>6. at = "save" => visit.owed \subseteq got
  BY <1>3, <1>4
<1> HIDE DEF left, got, at
<1> QED BY <1>1, <1>2, <1>3, <1>4, <1>5, <1>6, FillsRead

\* Coinbase says there is more and not where.
LEMMA NoCursorKeeps ==
  ASSUME CoinbaseInv, NoCursor
  PROVE  CoinbaseInv'
<1>1. visit \in Visit /\ visit.at = "fills" /\ UNCHANGED <<wallets, fills, accounts, double, visits, changes>>
  BY DEF CoinbaseInv, CoinbaseTypes, NoCursor
<1>2. /\ visit.left \in Nat /\ visit.left <= Len(fills) /\ visit.got \subseteq 1 .. Len(fills)
      /\ visit.got \in SUBSET Nat
  BY <1>1 DEF Visit, CoinbaseInv, Reading
<1>3. visit' = [visit EXCEPT !.at = "save", !.got = visit.got, !.left = visit.left, !.owed = visit.got]
  BY <1>1 DEF NoCursor, Visit
<1> QED BY <1>1, <1>2, <1>3, FillsRead

(***************************************************************************)
(* The save.  IdOf(w): the account a wallet goes to; Made: the wallets     *)
(* that go to one; Into(id): those that go to this one.                    *)
(***************************************************************************)
There(c) == existing_by_currency(accounts, c)
IdOf(w) == IF There(w.currency) = {} THEN w.uuid ELSE CHOOSE id \in There(w.currency) : TRUE
Own(i) == fills_by_account_uuid(visit.list, i, visit.got)
Made == {i \in DOMAIN visit.list : ~Skipped(accounts, visit.list[i], IdOf(visit.list[i]), Own(i))}
Into(id) == {i \in Made : IdOf(visit.list[i]) = id}
Old(id) == IF id \in Ids THEN accounts[id] ELSE [born |-> 10 * visits + Min(Into(id)), fills |-> {}]
SavedAs(id) ==
    IF Into(id) = {} THEN Closed(accounts[id])
    ELSE [currency |-> visit.list[Max(Into(id))].currency, born |-> Old(id).born, active |-> TRUE,
          balance |-> visit.list[Max(Into(id))].amount,
          fills |-> Old(id).fills \cup UNION {Own(i) : i \in Into(id)}]

\* What is stored afterwards, account by account.
LEMMA AccountsSaved ==
  ASSUME CoinbaseSave
  PROVE  accounts' = [id \in Ids \cup {IdOf(visit.list[i]) : i \in Made} |-> SavedAs(id)]
BY DEF CoinbaseSave, AccountsOf, Ids, IdOf, There, Own, Made, Into, Old, SavedAs

\* A currency with an account has one that was there first.
LEMMA OneWasFirst ==
  ASSUME CoinbaseInv, NEW c
  PROVE  /\ \A id \in There(c) : /\ id \in Ids /\ CurrencyOf(id) = c
                                 /\ \A other \in Ids : CurrencyOf(other) = c => accounts[id].born <= accounts[other].born
         /\ There(c) = {} => \A id \in Ids : CurrencyOf(id) # c
<1>1. \A id \in There(c) : /\ id \in Ids /\ CurrencyOf(id) = c
                           /\ \A other \in Ids : CurrencyOf(other) = c => accounts[id].born <= accounts[other].born
  BY DEF There, existing_by_currency, Ids, CurrencyOf
<1>2. ASSUME NEW id \in Ids, CurrencyOf(id) = c PROVE There(c) # {}
  <2> DEFINE T == {accounts[k].born : k \in {k \in Ids : CurrencyOf(k) = c}}
  <2>1. \A k \in Ids : accounts[k].born \in Nat
    BY DEF CoinbaseInv, CoinbaseTypes, Account
  <2>2. T \subseteq Nat /\ T # {}
    BY <2>1, <1>2
  <2>3. Min(T) \in T /\ \A b \in T : Min(T) <= b
    BY <2>2, LeastNumber
  <2>4. PICK k \in Ids : CurrencyOf(k) = c /\ accounts[k].born = Min(T)
    BY <2>3
  <2>5. \A other \in Ids : CurrencyOf(other) = c => accounts[k].born <= accounts[other].born
    BY <2>3, <2>4
  <2>6. k \in There(c)
    BY <2>4, <2>5 DEF There, existing_by_currency, Ids, CurrencyOf
  <2> QED BY <2>6
<1> QED BY <1>1, <1>2

\* A wallet goes to the first account of its currency, or to a new one of its own uuid.
LEMMA WalletGoes ==
  ASSUME CoinbaseInv, NEW i \in DOMAIN visit.list
  PROVE  LET w == visit.list[i]
             id == IdOf(w)
         IN  /\ w \in Wallet /\ w \in Known
             /\ id \in Nat /\ id <= 10 + changes
             /\ id \in Ids => id \in There(w.currency)
             /\ id \notin Ids => id = w.uuid /\ \A k \in Ids : CurrencyOf(k) # w.currency
<1> DEFINE w == visit.list[i]
<1> DEFINE id == IdOf(w)
<1>1. w \in Known
  BY DEF Known, ToSet
<1>2. w \in Wallet /\ w.uuid \in Nat /\ changes \in Nat
  BY <1>1, KnownWallets DEF Wallet, CoinbaseInv, CoinbaseTypes
<1> HIDE DEF w
<1>3. CASE There(w.currency) = {}
  <2>1. id = w.uuid /\ \A k \in Ids : CurrencyOf(k) # w.currency
    BY <1>3, OneWasFirst DEF IdOf
  <2>2. w.uuid <= 10 + changes /\ \A k \in Ids : w.uuid = k => w.currency = CurrencyOf(k)
    BY <1>1 DEF CoinbaseInv, Labelled
  <2> QED BY <1>1, <1>2, <2>1, <2>2 DEF w
<1>4. CASE There(w.currency) # {}
  <2>1. id \in There(w.currency)
    BY <1>4 DEF IdOf
  <2>2. id \in Ids
    BY <2>1, OneWasFirst
  <2>3. id \in Nat /\ id <= 10 + changes
    BY <2>2 DEF CoinbaseInv, CoinbaseTypes, Labelled
  <2> QED BY <1>1, <1>2, <2>1, <2>2, <2>3 DEF w
<1> QED BY <1>3, <1>4

\* The fills of a currency go to the first of its wallets.
LEMMA FillsGo ==
  ASSUME CoinbaseInv, visit.at = "save", NEW i \in DOMAIN visit.list, NEW f \in Own(i)
  PROVE  /\ f \in 1 .. Len(fills) /\ fills[f].currency = visit.list[i].currency
         /\ \A j \in DOMAIN visit.list : visit.list[j].currency = visit.list[i].currency => i <= j
<1>1. visit.got \subseteq 1 .. Len(fills) /\ DOMAIN visit.list = 1 .. Len(visit.list) /\ Len(visit.list) \in Nat
  BY DEF CoinbaseInv, Reading, CoinbaseTypes, Visit
<1>2. /\ ~(\E j \in 1 .. i - 1 : visit.list[j].currency = visit.list[i].currency)
      /\ f \in visit.got /\ fills[f].currency = visit.list[i].currency
  BY DEF Own, fills_by_account_uuid
<1>3. ASSUME NEW j \in DOMAIN visit.list, visit.list[j].currency = visit.list[i].currency PROVE i <= j
  <2>1. i \in Nat /\ j \in Nat /\ j >= 1
    BY <1>1
  <2>2. j \notin 1 .. i - 1
    BY <1>2, <1>3
  <2> QED BY <2>1, <2>2
<1> QED BY <1>1, <1>2, <1>3

\* The accounts after the save: those there were, and new ones, each of one currency and with the
\* wallets and the fills of this currency.
NewIds == {IdOf(visit.list[i]) : i \in Made} \ Ids

\* An account is made of the wallets that go into it, or closed.
LEMMA SavedAccounts ==
  ASSUME CoinbaseInv, CoinbaseSave
  PROVE  /\ Ids' = Ids \cup NewIds /\ \A id \in Ids' : accounts'[id] = SavedAs(id)
         /\ \A id \in NewIds : Into(id) # {}
         /\ \A id \in Ids' : \A i \in Into(id) : i \in DOMAIN visit.list /\ IdOf(visit.list[i]) = id
         /\ \A id \in Ids' : Into(id) # {} => Min(Into(id)) \in Into(id) /\ Max(Into(id)) \in Into(id)
                                              /\ \A i \in Into(id) : Min(Into(id)) <= i
<1>1. Ids' = Ids \cup NewIds /\ \A id \in Ids' : accounts'[id] = SavedAs(id)
  BY AccountsSaved DEF Ids, NewIds
<1>2. \A id \in NewIds : Into(id) # {}
  BY DEF NewIds, Into
<1>3. \A id : \A i \in Into(id) : i \in DOMAIN visit.list /\ IdOf(visit.list[i]) = id
  BY DEF Into, Made
<1>4. ASSUME NEW id, Into(id) # {}
      PROVE  Min(Into(id)) \in Into(id) /\ Max(Into(id)) \in Into(id) /\ \A i \in Into(id) : Min(Into(id)) <= i
  <2>1. visit.list \in Seq(Wallet)
    BY DEF CoinbaseInv, CoinbaseTypes, Visit
  <2>2. Into(id) \subseteq 1 .. Len(visit.list) /\ Len(visit.list) \in Nat /\ Into(id) \subseteq Nat
    BY <1>3, <2>1
  <2> QED BY <2>2, <1>4, LeastNumber, GreatestPlace
<1> QED BY <1>1, <1>2, <1>3, <1>4

\* Each goes on with the currency it has and with its age; a new one's is that of its wallets.
LEMMA SavedCurrency ==
  ASSUME CoinbaseInv, CoinbaseSave, NEW id \in Ids'
  PROVE  /\ \A i \in Into(id) : visit.list[i].currency = accounts'[id].currency
         /\ id \in Ids => accounts'[id].currency = CurrencyOf(id) /\ accounts'[id].born = accounts[id].born
         /\ id \notin Ids => /\ id \in NewIds /\ accounts'[id].born = 10 * visits + Min(Into(id))
                             /\ \A i \in Into(id) : visit.list[i].uuid = id
                             /\ \A k \in Ids : CurrencyOf(k) # accounts'[id].currency
<1>1. accounts'[id] = SavedAs(id) /\ (id \notin Ids => id \in NewIds) /\ (id \in NewIds => Into(id) # {})
  BY SavedAccounts
<1>2. \A i \in Into(id) : i \in DOMAIN visit.list /\ IdOf(visit.list[i]) = id
  BY SavedAccounts
<1>3. CASE id \in Ids
  <2>1. \A i \in Into(id) : visit.list[i].currency = CurrencyOf(id)
    <3> SUFFICES ASSUME NEW i \in Into(id) PROVE visit.list[i].currency = CurrencyOf(id)
      OBVIOUS
    <3>1. id \in There(visit.list[i].currency)
      BY <1>2, <1>3, WalletGoes
    <3> QED BY <3>1, OneWasFirst
  <2>2. CASE Into(id) = {}
    <3>1. accounts \in [Ids -> Account] /\ accounts[id] \in Account
      BY <1>3 DEF CoinbaseInv, CoinbaseTypes
    <3>2. accounts'[id] = Closed(accounts[id])
      BY <1>1, <2>2 DEF SavedAs
    <3>3. accounts'[id].currency = accounts[id].currency /\ accounts'[id].born = accounts[id].born
      BY <3>1, <3>2 DEF Closed, Account
    <3> QED BY <1>3, <2>2, <3>3 DEF CurrencyOf
  <2>3. CASE Into(id) # {}
    <3>1. Max(Into(id)) \in Into(id)
      BY <2>3, SavedAccounts
    <3>2. accounts'[id].currency = visit.list[Max(Into(id))].currency /\ accounts'[id].born = accounts[id].born
      BY <1>1, <1>3, <2>3 DEF SavedAs, Old
    <3> QED BY <1>3, <2>1, <3>1, <3>2
  <2> QED BY <2>2, <2>3
<1>4. CASE id \notin Ids
  <2>1. id \in NewIds /\ Into(id) # {}
    BY <1>1, <1>4
  <2>2. Max(Into(id)) \in Into(id)
    BY <2>1, SavedAccounts
  <2>3. \A i \in Into(id) : visit.list[i].uuid = id /\ visit.list[i] \in Known
                            /\ \A k \in Ids : CurrencyOf(k) # visit.list[i].currency
    <3> SUFFICES ASSUME NEW i \in Into(id)
                 PROVE  visit.list[i].uuid = id /\ visit.list[i] \in Known
                        /\ \A k \in Ids : CurrencyOf(k) # visit.list[i].currency
      OBVIOUS
    <3> QED BY <1>2, <1>4, WalletGoes
  <2>4. \A i, j \in Into(id) : visit.list[i].currency = visit.list[j].currency
    BY <2>3 DEF CoinbaseInv, Labelled
  <2>5. accounts'[id].currency = visit.list[Max(Into(id))].currency
        /\ accounts'[id].born = 10 * visits + Min(Into(id))
    BY <1>1, <1>4, <2>1 DEF SavedAs, Old
  <2> QED BY <1>4, <2>1, <2>2, <2>3, <2>4, <2>5
<1> QED BY <1>3, <1>4

\* An account that gains a fill is the first of its currency, and so is the wallet that brings it.
LEMMA SavedFills ==
  ASSUME CoinbaseInv, CoinbaseSave, NEW id \in Ids', NEW f \in accounts'[id].fills
  PROVE  /\ f \in 1 .. Len(fills) /\ fills[f].currency = accounts'[id].currency
         /\ \/ id \in Ids /\ f \in accounts[id].fills
            \/ \E i \in Into(id) : f \in Own(i)
<1>1. accounts'[id] = SavedAs(id)
  BY SavedAccounts
<1>2. (id \in Ids /\ f \in accounts[id].fills) \/ \E i \in Into(id) : f \in Own(i)
  <2>1. CASE Into(id) = {}
    <3>1. id \in Ids
      BY <2>1, SavedAccounts
    <3>2. accounts[id] \in Account /\ accounts'[id] = Closed(accounts[id])
      BY <3>1, <2>1, <1>1 DEF CoinbaseInv, CoinbaseTypes, SavedAs
    <3>3. accounts'[id].fills = accounts[id].fills
      BY <3>2 DEF Account, Closed
    <3> QED BY <3>1, <3>3
  <2>2. CASE Into(id) # {}
    <3>1. accounts'[id].fills = Old(id).fills \cup UNION {Own(i) : i \in Into(id)}
      BY <2>2, <1>1 DEF SavedAs
    <3>2. CASE f \in Old(id).fills
      <4>1. id \in Ids
        BY <3>2 DEF Old
      <4> QED BY <3>2, <4>1 DEF Old
    <3> QED BY <3>1, <3>2
  <2> QED BY <2>1, <2>2
<1>3. CASE id \in Ids /\ f \in accounts[id].fills
  <2>1. f \in 1 .. Len(fills) /\ fills[f].currency = CurrencyOf(id)
    BY <1>3 DEF CoinbaseInv, FirstHasFills
  <2> QED BY <1>3, <2>1, SavedCurrency
<1>4. CASE \E i \in Into(id) : f \in Own(i)
  <2>1. PICK i \in Into(id) : f \in Own(i)
    BY <1>4
  <2>2. i \in DOMAIN visit.list /\ visit.list[i].currency = accounts'[id].currency /\ visit.at = "save"
    BY SavedAccounts, SavedCurrency DEF CoinbaseSave
  <2>3. f \in 1 .. Len(fills) /\ fills[f].currency = visit.list[i].currency
    BY <2>1, <2>2, FillsGo
  <2> QED BY <2>1, <2>2, <2>3
<1> QED BY <1>2, <1>3, <1>4

\* A closed account is an account.
LEMMA ClosedAccount ==
  ASSUME NEW C, NEW F, NEW a \in [currency : C, born : Nat, active : BOOLEAN, balance : Nat, fills : F]
  PROVE  Closed(a) \in [currency : C, born : Nat, active : BOOLEAN, balance : Nat, fills : F]
<1> DEFINE empty == 0
<1>1. empty \in Nat
  OBVIOUS
<1> HIDE DEF empty
<1>2. [a EXCEPT !.active = FALSE, !.balance = empty]
        \in [currency : C, born : Nat, active : BOOLEAN, balance : Nat, fills : F]
  BY <1>1
<1> QED BY <1>2 DEF empty, Closed

\* What is saved has its type.
LEMMA SavedTypes ==
  ASSUME CoinbaseInv, CoinbaseSave
  PROVE  accounts' \in [Ids' -> Account] /\ Ids' \subseteq Nat /\ \A id \in Ids' : id <= 10 + changes
<1>1. accounts' \in [Ids' -> {accounts'[id] : id \in Ids'}]
  BY AccountsSaved DEF Ids
<1>2. ASSUME NEW id \in Ids' PROVE accounts'[id] \in Account /\ id \in Nat /\ id <= 10 + changes
  <2>1. accounts'[id] = SavedAs(id) /\ (id \notin Ids => Into(id) # {})
    BY SavedAccounts
  <2>2. id \in Ids => id \in Nat /\ id <= 10 + changes /\ accounts[id] \in Account
    BY DEF CoinbaseInv, CoinbaseTypes, Labelled
  <2>3. CASE Into(id) = {}
    <3>1. accounts[id] \in Account /\ accounts'[id] = Closed(accounts[id])
      BY <2>1, <2>2, <2>3 DEF SavedAs
    <3>2. accounts'[id] \in Account
      <4> DEFINE F == SUBSET Nat
      <4>1. accounts[id] \in [currency : Currencies, born : Nat, active : BOOLEAN, balance : Nat, fills : F]
        BY <3>1 DEF Account
      <4> HIDE DEF F
      <4>2. accounts'[id] \in [currency : Currencies, born : Nat, active : BOOLEAN, balance : Nat, fills : F]
        BY <3>1, <4>1, ClosedAccount
      <4> QED BY <4>2 DEF Account, F
    <3> QED BY <2>1, <2>2, <2>3, <3>2
  <2>4. CASE Into(id) # {}
    <3> DEFINE m == Max(Into(id))
    <3>1. m \in Into(id) /\ Min(Into(id)) \in Into(id)
      BY <2>4, SavedAccounts
    <3>2. m \in DOMAIN visit.list /\ Min(Into(id)) \in DOMAIN visit.list /\ IdOf(visit.list[m]) = id
      BY <3>1, SavedAccounts
    <3>3. visit.list[m] \in Wallet /\ id \in Nat /\ id <= 10 + changes
      BY <3>2, WalletGoes
    <3>4. visits \in Nat /\ visit.list \in Seq(Wallet)
      BY DEF CoinbaseInv, CoinbaseTypes, Visit
    <3>5. Min(Into(id)) \in Nat
      BY <3>2, <3>4
    <3>6. accounts'[id].born \in Nat
      BY <2>2, <3>4, <3>5, SavedCurrency DEF Account
    <3>7. accounts'[id].fills \subseteq Nat
      BY SavedFills
    <3> DEFINE born == Old(id).born
    <3> DEFINE own == Old(id).fills \cup UNION {Own(i) : i \in Into(id)}
    <3>8. accounts'[id] = [currency |-> visit.list[m].currency, born |-> born, active |-> TRUE,
                           balance |-> visit.list[m].amount, fills |-> own]
      BY <2>1, <2>4 DEF SavedAs
    <3> HIDE DEF m, born, own
    <3>9. born \in Nat /\ own \in SUBSET Nat
      BY <3>6, <3>7, <3>8
    <3>10. accounts'[id] \in Account
      BY <3>3, <3>8, <3>9 DEF Account, Wallet
    <3> QED BY <3>3, <3>10
  <2> QED BY <2>3, <2>4
<1> QED BY <1>1, <1>2

\* One currency has one account, or two wallets in the list that made two.
LEMMA SavedTwice ==
  ASSUME CoinbaseInv, CoinbaseSave, NEW id \in Ids', NEW other \in Ids', id # other,
         accounts'[id].currency = accounts'[other].currency
  PROVE  /\ accounts'[id].currency \in double
         /\ \/ id \in Ids /\ other \in Ids /\ CurrencyOf(id) = CurrencyOf(other)
            \/ id \in NewIds /\ other \in NewIds
<1>1. CASE id \in Ids /\ other \in Ids
  <2>1. accounts'[id].currency = CurrencyOf(id) /\ CurrencyOf(id) = CurrencyOf(other)
    BY <1>1, SavedCurrency
  <2> QED BY <1>1, <2>1 DEF CoinbaseInv, OneAccountEach, Ids, CurrencyOf
<1>2. CASE id \in Ids /\ other \notin Ids
  <2>1. accounts'[id].currency = CurrencyOf(id)
    BY <1>2, SavedCurrency
  <2>2. CurrencyOf(id) # accounts'[other].currency
    BY <1>2, SavedCurrency
  <2> QED BY <2>1, <2>2
<1>3. CASE id \notin Ids /\ other \in Ids
  <2>1. accounts'[other].currency = CurrencyOf(other)
    BY <1>3, SavedCurrency
  <2>2. CurrencyOf(other) # accounts'[id].currency
    BY <1>3, SavedCurrency
  <2> QED BY <2>1, <2>2
<1>4. CASE id \notin Ids /\ other \notin Ids
  <2>1. id \in NewIds /\ other \in NewIds
    BY <1>4, SavedCurrency
  <2>2. PICK i \in Into(id) : TRUE
    BY <2>1, SavedAccounts
  <2>3. PICK j \in Into(other) : TRUE
    BY <2>1, SavedAccounts
  <2>4. /\ i \in DOMAIN visit.list /\ j \in DOMAIN visit.list /\ i # j
        /\ visit.list[i].currency = accounts'[id].currency
        /\ visit.list[j].currency = accounts'[id].currency
    BY SavedAccounts, SavedCurrency
  <2>5. visit.list[i].currency \in Currencies
    BY <2>4, WalletGoes DEF Wallet
  <2>6. accounts'[id].currency \in Doubled(<<visit.list>>)
    <3>1. 1 \in DOMAIN <<visit.list>> /\ <<visit.list>>[1] = visit.list
      OBVIOUS
    <3> QED BY <2>4, <2>5, <3>1 DEF Doubled
  <2> QED BY <2>1, <2>6 DEF CoinbaseInv, Reading
<1> QED BY <1>1, <1>2, <1>3, <1>4

\* Fills are in one account of a currency, the first.
LEMMA SavedFirstHasFills ==
  ASSUME CoinbaseInv, CoinbaseSave
  PROVE  FirstHasFills'
<1>1. visit.at = "save" /\ fills' = fills
  BY DEF CoinbaseSave
<1>2. ASSUME NEW id \in Ids', NEW other \in Ids', id # other, accounts'[id].currency = accounts'[other].currency
      PROVE  /\ accounts'[id].born # accounts'[other].born
             /\ accounts'[id].fills # {} => accounts'[id].born <= accounts'[other].born
  <2>1. CASE id \in Ids /\ other \in Ids /\ CurrencyOf(id) = CurrencyOf(other)
    <3>1. accounts'[id].born = accounts[id].born /\ accounts'[other].born = accounts[other].born
      BY <2>1, SavedCurrency
    <3>2. accounts[id].born # accounts[other].born
      BY <1>2, <2>1 DEF CoinbaseInv, FirstHasFills
    <3>3. ASSUME NEW f \in accounts'[id].fills PROVE accounts[id].born <= accounts[other].born
      <4>1. CASE f \in accounts[id].fills
        BY <2>1, <4>1 DEF CoinbaseInv, FirstHasFills
      <4>2. CASE \E i \in Into(id) : f \in Own(i)
        <5>1. PICK i \in Into(id) : f \in Own(i)
          BY <4>2
        <5>2. i \in DOMAIN visit.list /\ IdOf(visit.list[i]) = id
          BY SavedAccounts
        <5>3. id \in There(visit.list[i].currency)
          BY <5>2, <2>1, WalletGoes
        <5> QED BY <5>3, <2>1, OneWasFirst
      <4> QED BY <4>1, <4>2, SavedFills
    <3> QED BY <3>1, <3>2, <3>3
  <2>2. CASE id \in NewIds /\ other \in NewIds
    <3> DEFINE m == Min(Into(id))
    <3> DEFINE n == Min(Into(other))
    <3>1. m \in Into(id) /\ n \in Into(other) /\ \A i \in Into(id) : m <= i
      BY <2>2, SavedAccounts
    <3>2. m \in DOMAIN visit.list /\ n \in DOMAIN visit.list /\ m # n
          /\ visit.list[n].currency = accounts'[id].currency
      BY <1>2, <3>1, SavedAccounts, SavedCurrency
    <3>3. visits \in Nat /\ m \in Nat /\ n \in Nat /\ \A i \in DOMAIN visit.list : i \in Nat
      BY <3>2 DEF CoinbaseInv, CoinbaseTypes, Visit
    <3>4. id \notin Ids /\ other \notin Ids
      BY <2>2 DEF NewIds
    <3>5. accounts'[id].born = 10 * visits + m /\ accounts'[other].born = 10 * visits + n
      BY <3>4, SavedCurrency
    <3> HIDE DEF m, n
    <3>6. ASSUME NEW f \in accounts'[id].fills PROVE m <= n
      <4>1. PICK i \in Into(id) : f \in Own(i)
        BY <3>4, SavedFills
      <4>2. i \in DOMAIN visit.list /\ visit.list[i].currency = accounts'[id].currency
        BY SavedAccounts, SavedCurrency
      <4>3. i <= n
        BY <1>1, <4>1, <4>2, <3>2, FillsGo
      <4>4. m <= i
        BY <3>1
      <4> QED BY <3>3, <4>2, <4>3, <4>4
    <3> QED BY <3>2, <3>3, <3>5, <3>6
  <2> QED BY <1>2, <2>1, <2>2, SavedTwice
<1>3. ASSUME NEW id \in Ids' PROVE accounts'[id].born \in Nat
  BY SavedTypes DEF Account
<1>4. \A id \in Ids' : \A f \in accounts'[id].fills : f \in 1 .. Len(fills') /\ fills'[f].currency = accounts'[id].currency
  BY <1>1, SavedFills
<1>5. \A id, other \in Ids' : accounts'[id].fills # {} /\ accounts'[id].currency = accounts'[other].currency =>
           accounts'[id].born <= accounts'[other].born
  BY <1>2, <1>3
<1>6. \A id, other \in Ids' : id # other /\ accounts'[id].currency = accounts'[other].currency =>
           accounts'[id].born # accounts'[other].born
  BY <1>2
<1> QED BY <1>4, <1>5, <1>6 DEF FirstHasFills, CurrencyOf

\* All fills that were read are stored.
LEMMA SavedOwed ==
  ASSUME CoinbaseInv, CoinbaseSave
  PROVE  OwedStored'
<1>1. /\ visit.at = "save" /\ visit \in Visit /\ visit' = [visit EXCEPT !.at = "done"] /\ fills' = fills
      /\ visit'.owed = visit.owed /\ visit'.list = visit.list
  BY DEF CoinbaseSave, CoinbaseInv, CoinbaseTypes, Visit
<1>2. SUFFICES ASSUME NEW f \in visit.owed
      PROVE  f \in 1 .. Len(fills) /\ ((\E i \in DOMAIN visit.list : visit.list[i].currency = fills[f].currency)
                                       => \E id \in Ids' : f \in accounts'[id].fills)
  BY <1>1 DEF OwedStored
<1>3. f \in visit.got /\ f \in 1 .. Len(fills)
  BY <1>1 DEF CoinbaseInv, Reading
<1>4. ASSUME NEW k \in DOMAIN visit.list, visit.list[k].currency = fills[f].currency
      PROVE  \E id \in Ids' : f \in accounts'[id].fills
  <2> DEFINE T == {i \in DOMAIN visit.list : visit.list[i].currency = fills[f].currency}
  <2> DEFINE m == Min(T)
  <2>1. DOMAIN visit.list \subseteq Nat /\ \A i \in DOMAIN visit.list : \A j \in 1 .. i - 1 : j \in DOMAIN visit.list /\ j < i
    <3>1. DOMAIN visit.list = 1 .. Len(visit.list) /\ Len(visit.list) \in Nat
      BY DEF CoinbaseInv, CoinbaseTypes, Visit
    <3> QED BY <3>1
  <2>2. T \subseteq Nat /\ T # {}
    BY <1>4, <2>1
  <2>3. m \in T /\ \A i \in T : m <= i
    BY <2>2, LeastNumber
  <2> HIDE DEF m
  <2>4. \A j \in 1 .. m - 1 : visit.list[j].currency # fills[f].currency
    <3> SUFFICES ASSUME NEW j \in 1 .. m - 1, visit.list[j].currency = fills[f].currency PROVE FALSE
      OBVIOUS
    <3>1. j \in DOMAIN visit.list /\ j < m
      BY <2>1, <2>3
    <3>2. m <= j
      BY <3>1, <2>3
    <3> QED BY <3>1, <3>2, <2>1, <2>3
  <2>5. f \in Own(m)
    BY <1>3, <2>3, <2>4 DEF Own, fills_by_account_uuid
  <2> DEFINE id == IdOf(visit.list[m])
  <2>6. m \in Made /\ m \in Into(id)
    BY <2>3, <2>5 DEF Made, Skipped, Into
  <2>7. id \in Ids'
    BY <2>6, SavedAccounts DEF NewIds
  <2>8. accounts'[id] = SavedAs(id)
    BY <2>7, SavedAccounts
  <2> HIDE DEF id
  <2>9. f \in accounts'[id].fills
    BY <2>5, <2>6, <2>8 DEF SavedAs
  <2> QED BY <2>7, <2>9
<1> QED BY <1>3, <1>4

\* The balances are those of the wallets.
LEMMA SavedWorth ==
  ASSUME CoinbaseInv, CoinbaseSave
  PROVE  WorthOfWallets'
<1>1. visit \in Visit /\ visit'.list = visit.list /\ double' = double
  BY DEF CoinbaseSave, CoinbaseInv, CoinbaseTypes, Visit
<1> SUFFICES ASSUME NEW c \in Currencies, c \notin double
    PROVE  {accounts'[id].balance : id \in {k \in Ids' : accounts'[k].active /\ accounts'[k].currency = c}} \ {0}
           = {visit.list[i].amount : i \in {k \in DOMAIN visit.list : visit.list[k].currency = c}} \ {0}
  BY <1>1 DEF WorthOfWallets, Ids
<1>2. \A i, j \in DOMAIN visit.list : visit.list[i].currency = c /\ visit.list[j].currency = c => i = j
  <2>1. c \notin Doubled(<<visit.list>>)
    BY DEF CoinbaseInv, Reading
  <2>2. 1 \in DOMAIN <<visit.list>> /\ <<visit.list>>[1] = visit.list
    OBVIOUS
  <2> QED BY <2>1, <2>2 DEF Doubled
<1>3. ASSUME NEW id \in Ids', accounts'[id].active, accounts'[id].currency = c
      PROVE  \E i \in DOMAIN visit.list : visit.list[i].currency = c /\ visit.list[i].amount = accounts'[id].balance
  <2>1. accounts'[id] = SavedAs(id)
    BY SavedAccounts
  <2>2. Into(id) # {}
    <3> SUFFICES ASSUME Into(id) = {} PROVE FALSE
      OBVIOUS
    <3>1. id \in Ids
      BY SavedAccounts
    <3>2. accounts[id] \in Account /\ accounts'[id] = Closed(accounts[id])
      BY <2>1, <3>1 DEF SavedAs, CoinbaseInv, CoinbaseTypes
    <3> QED BY <1>3, <3>2 DEF Closed, Account
  <2>3. Max(Into(id)) \in Into(id) /\ accounts'[id].balance = visit.list[Max(Into(id))].amount
    BY <2>1, <2>2, SavedAccounts DEF SavedAs
  <2> QED BY <1>3, <2>3, SavedAccounts, SavedCurrency
<1>4. ASSUME NEW i \in DOMAIN visit.list, visit.list[i].currency = c, visit.list[i].amount # 0
      PROVE  \E id \in Ids' : /\ accounts'[id].active /\ accounts'[id].currency = c
                              /\ visit.list[i].amount = accounts'[id].balance
  <2> DEFINE id == IdOf(visit.list[i])
  <2>1. i \in Made /\ i \in Into(id)
    BY <1>4 DEF Made, Skipped, Into
  <2>2. id \in Ids'
    BY <2>1, SavedAccounts DEF NewIds
  <2>3. accounts'[id] = SavedAs(id)
    BY <2>2, SavedAccounts
  <2> HIDE DEF id
  <2>4. accounts'[id].currency = c
    BY <1>4, <2>1, <2>2, SavedCurrency
  <2>5. Max(Into(id)) \in Into(id)
    BY <2>1, <2>2, SavedAccounts
  <2>6. Max(Into(id)) = i
    BY <1>2, <1>4, <2>2, <2>4, <2>5, SavedAccounts, SavedCurrency
  <2>7. accounts'[id].active /\ accounts'[id].balance = visit.list[i].amount
    BY <2>1, <2>3, <2>6 DEF SavedAs
  <2> QED BY <2>2, <2>4, <2>7
<1> QED BY <1>3, <1>4

\* An account says of what currency it is.
LEMMA SavedLabelled ==
  ASSUME CoinbaseInv, CoinbaseSave
  PROVE  Labelled'
<1>1. /\ visit \in Visit /\ visit'.list = visit.list /\ UNCHANGED <<wallets, changes>>
  BY DEF CoinbaseSave, CoinbaseInv, CoinbaseTypes, Visit
<1>2. Known' = Known
  BY <1>1 DEF Known, AllWallets
<1>3. ASSUME NEW id \in Ids', NEW w \in Known, w.uuid = id PROVE w.currency = accounts'[id].currency
  <2>1. CASE id \in Ids
    BY <1>3, <2>1, SavedCurrency DEF CoinbaseInv, Labelled
  <2>2. CASE id \notin Ids
    <3>1. PICK i \in Into(id) : TRUE
      BY <2>2, SavedAccounts
    <3>2. i \in DOMAIN visit.list /\ visit.list[i].uuid = id /\ visit.list[i].currency = accounts'[id].currency
      BY <2>2, SavedAccounts, SavedCurrency
    <3>3. visit.list[i] \in Known
      BY <3>2, WalletGoes
    <3> QED BY <1>3, <3>2, <3>3 DEF CoinbaseInv, Labelled
  <2> QED BY <2>1, <2>2
<1>4. \A id \in Ids' : id <= 10 + changes
  BY SavedTypes
<1>5. /\ \A w \in Known : w.uuid <= 10 + changes
      /\ \A v, w \in Known : v.uuid = w.uuid => v.currency = w.currency
  BY DEF CoinbaseInv, Labelled
<1> QED BY <1>1, <1>2, <1>3, <1>4, <1>5 DEF Labelled, CurrencyOf

\* A sync is saved.
LEMMA CoinbaseSaveKeeps ==
  ASSUME CoinbaseInv, CoinbaseSave
  PROVE  CoinbaseInv'
<1>1. /\ visit \in Visit /\ visit' = [visit EXCEPT !.at = "done"]
      /\ UNCHANGED <<wallets, fills, double, visits, changes>>
  BY DEF CoinbaseSave, CoinbaseInv, CoinbaseTypes
<1>2. visit' \in Visit /\ visit'.at = "done" /\ visit'.list = visit.list
  <2> DEFINE at == "done"
  <2>1. /\ at \in {"idle", "wallets", "fills", "save", "done"} /\ visit' = [visit EXCEPT !.at = at]
        /\ visit.portfolio \in Nat /\ visit.list \in Seq(Wallet) /\ visit.got \in SUBSET Nat
        /\ visit.left \in Nat /\ visit.owed \in SUBSET Nat
    BY <1>1 DEF Visit
  <2> HIDE DEF at
  <2>2. visit' \in Visit /\ visit'.at = at /\ visit'.list = visit.list
    BY <1>1, <2>1, OtherVisit, ZenonT(60) DEF Visit
  <2> QED BY <2>2, ZenonT(60) DEF at
<1>3. CoinbaseTypes'
  BY <1>1, <1>2, SavedTypes DEF CoinbaseInv, CoinbaseTypes
<1>4. Reading'
  BY <1>1, <1>2 DEF CoinbaseInv, Reading
<1>5. OneAccountEach'
  BY <1>1, SavedTwice DEF OneAccountEach, Ids
<1> QED BY <1>3, <1>4, <1>5, SavedLabelled, SavedFirstHasFills, SavedOwed, SavedWorth DEF CoinbaseInv

\* Every step of Coinbase's sync keeps what is known of it.
LEMMA CoinbaseNextKeeps ==
  ASSUME CoinbaseInv, [CoinbaseNext]_coinbaseVars
  PROVE  CoinbaseInv'
<1>1. CASE UNCHANGED coinbaseVars
  <2> USE <1>1 DEF coinbaseVars
  <2>1. CoinbaseTypes' /\ Reading'
    BY DEF CoinbaseInv, CoinbaseTypes, Reading, Ids
  <2>2. Labelled' /\ FirstHasFills'
    <3>1. Known' = Known /\ Ids' = Ids /\ \A id : CurrencyOf(id)' = CurrencyOf(id)
      BY DEF Known, AllWallets, Ids, CurrencyOf
    <3> QED BY <3>1 DEF CoinbaseInv, Labelled, FirstHasFills
  <2>3. OwedStored' /\ OneAccountEach'
    BY DEF CoinbaseInv, OwedStored, OneAccountEach, Ids
  <2>4. WorthOfWallets'
    BY DEF CoinbaseInv, WorthOfWallets
  <2> QED BY <2>1, <2>2, <2>3, <2>4 DEF CoinbaseInv
<1>2. ASSUME NEW p \in ToSet(Portfolios), NEW i \in DOMAIN wallets[p], visit.at \in {"idle", "wallets", "fills"},
             \/ \E amount \in {0, 2} : Trade(p, i, amount)
             \/ NewWallet(p, i)
             \/ \E q \in ToSet(Portfolios) : Move(p, i, q)
             \/ Vanish(p, i)
      PROVE  CoinbaseInv'
  BY <1>2, TradeKeeps, NewWalletKeeps, MoveKeeps, VanishKeeps
<1>3. CASE CoinbaseStart \/ CoinbaseReturn
  BY <1>3, CoinbaseStartKeeps, CoinbaseReturnKeeps
<1>4. CASE get_accounts \/ RequestFails \/ NoCursor \/ CoinbaseSave
  BY <1>4, get_accountsKeeps, RequestFailsKeeps, NoCursorKeeps, CoinbaseSaveKeeps
<1>5. CASE \E n \in 0 .. Len(fills) : get_fills(n)
  BY <1>5, get_fillsKeeps
<1> QED BY <1>1, <1>2, <1>3, <1>4, <1>5 DEF CoinbaseNext

\* And so accounts follow wallets.
LEMMA FillsInOneAccount == CoinbaseInv => FollowsWallets
<1> SUFFICES ASSUME CoinbaseInv PROVE FillsStoredOnce
  BY DEF FollowsWallets, CoinbaseInv
<1>1. ASSUME NEW id \in Ids, NEW other \in Ids, id # other
      PROVE  accounts[id].fills \cap accounts[other].fills = {}
  <2> SUFFICES ASSUME NEW f \in accounts[id].fills, f \in accounts[other].fills PROVE FALSE
    OBVIOUS
  <2>1. CurrencyOf(id) = CurrencyOf(other)
    BY DEF CoinbaseInv, FirstHasFills
  <2>2. accounts[id].born <= accounts[other].born /\ accounts[other].born <= accounts[id].born
    BY <2>1 DEF CoinbaseInv, FirstHasFills
  <2>3. accounts[id].born \in Nat /\ accounts[other].born \in Nat
    BY DEF CoinbaseInv, CoinbaseTypes, Account
  <2>4. accounts[id].born # accounts[other].born
    BY <1>1, <2>1 DEF CoinbaseInv, FirstHasFills
  <2> QED BY <2>2, <2>3, <2>4
<1> QED BY <1>1 DEF FillsStoredOnce, CoinbaseInv, OwedStored, Ids

\* Whatever happens at Coinbase between and during the syncs, the invariant holds.
THEOREM CoinbaseInvariant == CoinbaseSpec => []CoinbaseInv
BY CoinbaseInitHolds, CoinbaseNextKeeps, PTL DEF CoinbaseSpec

\* FollowsWallets (coinbase.rs:383): a currency keeps its one account, its history and its fills
\* when its wallets come and go; the active accounts are worth what the wallets are.
THEOREM AccountsFollowWallets == CoinbaseSpec => []FollowsWallets
BY CoinbaseInvariant, FillsInOneAccount, PTL

(***************************************************************************)
(* Schwab.  Rows are counted by name, so it matters which rows of an       *)
(* account the sync has got and which are still ahead of it.               *)
(***************************************************************************)
Texts == {TextOf[r] : r \in Rows} \X Nat
Names == {"history", "banking", "export"} \X Texts \X Nat
Sync == [at : {"idle", "page", "save", "done"}, full : BOOLEAN, answer : Answers \cup {[accounts |-> <<>>]},
         turn : Nat, frame : {"All", "Last6Months"}, page : 0 .. SchwabPages, read : Seq(Rows \cup Texts),
         found : [Accounts -> SUBSET Names], owed : [Accounts -> Seq(Texts)]]

SaidOf(a) == Said(a, rows[a])
Source(a) == IF a \in Bank THEN "banking" ELSE "history"
NameOf(source, texts, i) == <<source, texts[i], Cardinality({j \in 1 .. i : texts[j] = texts[i]})>>

\* The rows that are out of the last 6 months, and those asked for.
AgedOf(a) == Len(rows[a]) - aged[a] + 1 .. Len(rows[a])
AgedIn(a, names) == \A i \in AgedOf(a) : NameOf(Source(a), SaidOf(a), i) \in names
Asking == IF Asked \in Bank THEN Asked ELSE history_id(sync.answer, Asked)
InReach(a) == IF sync.frame = "All" THEN Len(rows[a]) ELSE Len(rows[a]) - aged[a]

Paging(a) == sync.at = "page" /\ Asked = a
Got(a, i) == (IF a \in Bank THEN SaidOf(a)[i] ELSE rows[a][i]) \in ToSet(sync.read)
Ahead(a, i) == IF a \in Bank THEN i > sync.page * BankPage
               ELSE sync.read = <<>> \/ \A j \in DOMAIN rows[a] : rows[a][j] = Last(sync.read) => j < i
Had(a, i) == Got(a, i) \/ Ahead(a, i)

Clean(a) == odd[a] \cap {"late", "unread", "strayed"} = {}

SchwabTypes ==
    /\ rows \in [Accounts -> Seq(Rows)]
    /\ \A a \in Accounts : IsInjective(rows[a])
    /\ aged \in [Accounts -> Nat] /\ \A a \in Accounts : aged[a] <= Len(rows[a])
    /\ stored \in [Accounts -> SUBSET Names]
    /\ sync \in Sync
    /\ odd \in [Accounts -> SUBSET {"late", "shifted", "unread", "failed", "strayed"}]

SyncStage ==
    /\ sync.at = "idle" => sync = NoSync
    /\ sync.at # "idle" => sync.answer \in Answers
    /\ sync.at = "page" => sync.turn \in 1 .. Len(sync.answer.accounts)
    /\ sync.at = "page" => sync.read \in Seq(IF Asked \in Bank THEN Texts ELSE Rows)
    /\ sync.at # "idle" => \A a \in ToSet(sync.answer.accounts) \cap Brokerage :
                                history_id(sync.answer, a) # a => "strayed" \in odd[a]
    /\ sync.at = "done" => \A a \in Accounts : sync.found[a] \subseteq stored[a]

\* No text is both within and without the last 6 months.
Apart == \A a \in Accounts : \A i, j \in DOMAIN rows[a] :
            i <= Len(rows[a]) - aged[a] /\ j > Len(rows[a]) - aged[a] => SaidOf(a)[i] # SaidOf(a)[j]

\* What is stored has names of its own kind, and all of what aged.
StoredWell(a) ==
    /\ \A name \in stored[a] \cup sync.found[a] :
          name[1] \in IF a \in Bank THEN {"banking"} ELSE {"history", "export"}
    /\ Clean(a) /\ stored[a] # {} => AgedIn(a, stored[a])

Real(a) ==
    odd[a] \cap {"late", "shifted", "strayed"} = {} =>
        stored[a] \cup sync.found[a]
            \subseteq UNION {RowNames(source, SaidOf(a)) : source \in {"history", "banking", "export"}}

FoundWell(a) ==
    ~Paging(a) /\ Clean(a) =>
        /\ sync.found[a] # {} => AgedIn(a, stored[a] \cup sync.found[a])
        /\ sync.at # "idle" /\ "failed" \notin odd[a] =>
               RowNames(Source(a), sync.owed[a]) \subseteq stored[a] \cup sync.found[a]

\* While an account is read: what was there when its turn came is got or ahead.
ReadWell(a) ==
    Paging(a) =>
        /\ sync.frame = "Last6Months" => stored[a] # {} \/ "unread" \in odd[a] \/ aged[a] = 0
        /\ Clean(a) => \A i \in AgedOf(a) : Had(a, i)
        /\ Clean(a) /\ "failed" \notin odd[a] =>
              \E row \in [DOMAIN sync.owed[a] -> Rows] :
                  /\ IsInjective(row)
                  /\ \A k \in DOMAIN sync.owed[a] : \E i \in DOMAIN rows[a] :
                        rows[a][i] = row[k] /\ SaidOf(a)[i] = sync.owed[a][k] /\ Had(a, i)

\* The rows of a brokerage account are read one after the other, those of the bank by pages.
InOrder ==
    sync.at = "page" /\ Asked \in Brokerage =>
        LET of == Asking IN
        /\ IsInjective(sync.read)
        /\ \A k \in DOMAIN sync.read : \E i \in 1 .. InReach(of) : rows[of][i] = sync.read[k]
        /\ sync.read # <<>> => \A i, j \in DOMAIN rows[of] :
              rows[of][i] \in ToSet(sync.read) /\ rows[of][j] = Last(sync.read) => i <= j
ByPages ==
    sync.at = "page" /\ Asked \in Bank /\ odd[Asked] \cap {"late", "shifted"} = {} =>
        /\ sync.page * BankPage <= InReach(Asked)
        /\ sync.read = SubSeq(SaidOf(Asked), 1, sync.page * BankPage)

SchwabInv ==
    /\ SchwabTypes /\ SyncStage /\ Apart /\ InOrder /\ ByPages
    /\ \A a \in Accounts : StoredWell(a) /\ Real(a) /\ FoundWell(a) /\ ReadWell(a)

\* Of numbers up to n there is a k-th, if there are as many.
LEMMA KthNumber ==
  ASSUME NEW n \in Nat, NEW B, B \subseteq 1 .. n, NEW k \in Nat, 1 <= k, k <= Cardinality(B)
  PROVE  \E m \in B : Cardinality(B \cap 1 .. m) = k
<1>1. \A m \in 0 .. n : IsFiniteSet(B \cap 1 .. m) /\ Cardinality(B \cap 1 .. m) \in Nat
  <2> SUFFICES ASSUME NEW m \in 0 .. n PROVE IsFiniteSet(B \cap 1 .. m) /\ Cardinality(B \cap 1 .. m) \in Nat
    OBVIOUS
  <2>1. IsFiniteSet(1 .. m)
    BY FS_Interval
  <2>2. IsFiniteSet(B \cap 1 .. m)
    BY <2>1, FS_Subset
  <2> QED BY <2>2, FS_CardinalityType
<1> DEFINE T == {m \in 1 .. n : Cardinality(B \cap 1 .. m) >= k}
<1>2. n \in T
  <2>1. B \cap 1 .. n = B
    OBVIOUS
  <2>2. n # 0
    <3> SUFFICES ASSUME n = 0 PROVE FALSE
      OBVIOUS
    <3>1. B = {}
      OBVIOUS
    <3>2. Cardinality(B) = 0
      BY <3>1, FS_EmptySet
    <3> QED BY <3>2
  <2>3. Cardinality(B) \in Nat
    BY <1>1, <2>1
  <2> QED BY <2>1, <2>2, <2>3
<1>3. PICK m \in T : \A l \in T : m <= l
  <2>1. T \subseteq Nat /\ T # {}
    <3>1. \A m \in 1 .. n : m \in Nat
      OBVIOUS
    <3> HIDE DEF T
    <3>2. T \subseteq 1 .. n
      BY DEF T
    <3> QED BY <1>2, <3>1, <3>2
  <2> HIDE DEF T
  <2> QED BY <2>1, LeastNumber
<1>4. Cardinality(B \cap 1 .. m - 1) < k
  <2>1. CASE m = 1
    <3>1. B \cap 1 .. m - 1 = {}
      BY <2>1
    <3>2. Cardinality(B \cap 1 .. m - 1) = 0
      BY <3>1, FS_EmptySet
    <3> QED BY <3>2
  <2>2. CASE m # 1
    <3>1. m - 1 \in 1 .. n /\ ~(m <= m - 1)
      BY <2>2
    <3>2. m - 1 \notin T
      BY <1>3, <3>1
    <3> QED BY <1>1, <3>1, <3>2
  <2> QED BY <2>1, <2>2
<1> DEFINE C == B \cap 1 .. m - 1
<1> DEFINE D == B \cap 1 .. m
<1>5. IsFiniteSet(C) /\ Cardinality(C) \in Nat /\ m \notin C
  BY <1>1
<1>6. D = IF m \in B THEN C \cup {m} ELSE C
  OBVIOUS
<1>7. Cardinality(D) >= k /\ Cardinality(C) < k
  BY <1>3, <1>4
<1> HIDE DEF C, D, T
<1>8. m \in B
  BY <1>5, <1>6, <1>7
<1>9. Cardinality(D) = Cardinality(C) + 1
  BY <1>5, <1>6, <1>8, FS_AddElement
<1>10. Cardinality(D) = k
  BY <1>5, <1>7, <1>9
<1> QED BY <1>8, <1>10 DEF D

(***************************************************************************)
(* Names.  Where each row of one answer has one of another that says the   *)
(* same, and no two have the same one, the other gives its names too.      *)
(***************************************************************************)
Alike(texts, t) == {i \in DOMAIN texts : texts[i] = t}

\* The names of rows, one by one.
LEMMA RowNamesAre ==
  ASSUME NEW source, NEW texts
  PROVE  RowNames(source, texts) = {NameOf(source, texts, i) : i \in DOMAIN texts}
BY DEF RowNames, NameOf

\* As many rows that say the same, in another answer: the same names.
LEMMA NamesFit ==
  ASSUME NEW source, NEW t, NEW n \in Nat, NEW m \in Nat, NEW X, NEW Y,
         DOMAIN X = 1 .. n, DOMAIN Y = 1 .. m,
         NEW f \in [Alike(X, t) -> Alike(Y, t)], \A i, j \in Alike(X, t) : f[i] = f[j] => i = j,
         NEW i \in Alike(X, t)
  PROVE  \E l \in Alike(Y, t) : NameOf(source, Y, l) = NameOf(source, X, i)
<1> DEFINE A == Alike(X, t)
<1> DEFINE B == Alike(Y, t)
<1> DEFINE P == {j \in 1 .. i : X[j] = X[i]}
<1>1. A \subseteq 1 .. n /\ B \subseteq 1 .. m /\ X[i] = t /\ i \in 1 .. n
  BY DEF Alike
<1>2. IsFiniteSet(A) /\ IsFiniteSet(B)
  <2>1. IsFiniteSet(1 .. n) /\ IsFiniteSet(1 .. m)
    BY FS_Interval
  <2> HIDE DEF A, B
  <2> QED BY <1>1, <2>1, FS_Subset
<1>3. Cardinality(A) <= Cardinality(B) /\ Cardinality(A) \in Nat /\ Cardinality(B) \in Nat
  <2>1. f \in Injection(A, B)
    BY DEF Injection, IsInjective
  <2> QED BY <1>2, <2>1, FS_Injection, FS_CardinalityType
<1>4. P \subseteq A /\ i \in P
  BY <1>1 DEF Alike
<1>5. Cardinality(P) \in Nat /\ 1 <= Cardinality(P) /\ Cardinality(P) <= Cardinality(A)
  <2>1. IsFiniteSet(P) /\ Cardinality(P) <= Cardinality(A) /\ Cardinality(P) \in Nat
    BY <1>2, <1>4, FS_Subset, FS_CardinalityType
  <2>2. Cardinality(P) # 0
    BY <1>4, <2>1, FS_EmptySet
  <2> HIDE DEF P
  <2> QED BY <2>1, <2>2
<1>6. PICK l \in B : Cardinality(B \cap 1 .. l) = Cardinality(P)
  <2>1. Cardinality(P) <= Cardinality(B)
    <3> HIDE DEF B, P, A
    <3> QED BY <1>3, <1>5
  <2> DEFINE k == Cardinality(P)
  <2>2. k \in Nat /\ 1 <= k /\ k <= Cardinality(B) /\ B \subseteq 1 .. m
    BY <1>1, <1>5, <2>1
  <2> HIDE DEF B, P, A, k
  <2>3. \E l \in B : Cardinality(B \cap 1 .. l) = k
    BY <2>2, KthNumber
  <2> QED BY <2>3 DEF k
<1>7. {j \in 1 .. l : Y[j] = Y[l]} = B \cap 1 .. l /\ Y[l] = t
  BY <1>1 DEF Alike
<1> QED BY <1>1, <1>6, <1>7 DEF NameOf

\* The same for all names.
LEMMA AllNamesFit ==
  ASSUME NEW source, NEW n \in Nat, NEW m \in Nat, NEW X, NEW Y,
         DOMAIN X = 1 .. n, DOMAIN Y = 1 .. m,
         NEW f \in [1 .. n -> 1 .. m], \A i, j \in 1 .. n : f[i] = f[j] => i = j,
         \A i \in 1 .. n : Y[f[i]] = X[i]
  PROVE  RowNames(source, X) \subseteq RowNames(source, Y)
<1>1. ASSUME NEW i \in 1 .. n PROVE \E l \in 1 .. m : NameOf(source, Y, l) = NameOf(source, X, i)
  <2> DEFINE t == X[i]
  <2> DEFINE g == [j \in Alike(X, t) |-> f[j]]
  <2>1. /\ g \in [Alike(X, t) -> Alike(Y, t)] /\ i \in Alike(X, t)
        /\ \A k, j \in Alike(X, t) : g[k] = g[j] => k = j
    BY DEF Alike
  <2> HIDE DEF g, t
  <2>2. \E l \in Alike(Y, t) : NameOf(source, Y, l) = NameOf(source, X, i)
    BY <2>1, NamesFit
  <2> QED BY <2>2 DEF Alike
<1> QED BY <1>1, RowNamesAre

(***************************************************************************)
(* A row that comes, among the others.                                     *)
(***************************************************************************)

\* A part of a list.
LEMMA SubSeqIs ==
  ASSUME NEW S, NEW s \in Seq(S), NEW p \in Nat, NEW q \in Nat, 1 <= p, p <= q + 1, q <= Len(s)
  PROVE  /\ SubSeq(s, p, q) \in Seq(S) /\ Len(SubSeq(s, p, q)) = q + 1 - p
         /\ \A i \in 1 .. q + 1 - p : SubSeq(s, p, q)[i] = s[p + i - 1]
<1>1. \A i \in p .. q : s[i] \in S
  OBVIOUS
<1> QED BY <1>1, SubSeqProperties

Behind(place, i) == IF i < place THEN i ELSE i + 1

\* A list with one more in it.
LEMMA Inserted ==
  ASSUME NEW S, NEW s \in Seq(S), NEW p \in Nat, 1 <= p, p <= Len(s) + 1, NEW e \in S
  PROVE  /\ InsertAt(s, p, e) \in Seq(S) /\ Len(InsertAt(s, p, e)) = Len(s) + 1
         /\ InsertAt(s, p, e)[p] = e
         /\ \A i \in 1 .. Len(s) : InsertAt(s, p, e)[Behind(p, i)] = s[i]
<1> DEFINE x == SubSeq(s, 1, p - 1)
<1> DEFINE y == SubSeq(s, p, Len(s))
<1> DEFINE z == <<e>>
<1>1. /\ x \in Seq(S) /\ Len(x) = p - 1 /\ \A i \in 1 .. p - 1 : x[i] = s[i]
      /\ y \in Seq(S) /\ Len(y) = Len(s) + 1 - p /\ \A i \in 1 .. Len(s) + 1 - p : y[i] = s[p + i - 1]
  <2>1. p - 1 \in Nat /\ p <= p /\ p - 1 <= Len(s) /\ Len(s) \in Nat
    OBVIOUS
  <2>2. /\ x \in Seq(S) /\ Len(x) = p - 1 + 1 - 1 /\ \A i \in 1 .. p - 1 + 1 - 1 : x[i] = s[1 + i - 1]
    BY <2>1, SubSeqIs
  <2>3. /\ y \in Seq(S) /\ Len(y) = Len(s) + 1 - p /\ \A i \in 1 .. Len(s) + 1 - p : y[i] = s[p + i - 1]
    BY <2>1, SubSeqIs
  <2> HIDE DEF x, y
  <2> QED BY <2>1, <2>2, <2>3
<1>2. z \in Seq(S) /\ Len(z) = 1 /\ z[1] = e
  OBVIOUS
<1>3. InsertAt(s, p, e) = (x \o z) \o y
  BY DEF InsertAt
<1> HIDE DEF x, y, z
<1> DEFINE u == x \o z
<1>4. u \in Seq(S) /\ Len(u) = p /\ u[p] = e /\ \A i \in 1 .. p - 1 : u[i] = s[i]
  <2>1. u \in Seq(S) /\ Len(u) = Len(x) + Len(z)
        /\ \A i \in 1 .. Len(x) + Len(z) : u[i] = IF i <= Len(x) THEN x[i] ELSE z[i - Len(x)]
    BY <1>1, <1>2, JoinedLists
  <2> HIDE DEF u
  <2> QED BY <1>1, <1>2, <2>1
<1> DEFINE w == u \o y
<1>5. w \in Seq(S) /\ Len(w) = Len(u) + Len(y)
      /\ \A i \in 1 .. Len(u) + Len(y) : w[i] = IF i <= Len(u) THEN u[i] ELSE y[i - Len(u)]
  BY <1>1, <1>4, JoinedLists
<1>6. InsertAt(s, p, e) = w
  BY <1>3
<1> HIDE DEF w, u
<1>7. w[p] = e /\ Len(w) = Len(s) + 1
  BY <1>1, <1>4, <1>5
<1>8. ASSUME NEW i \in 1 .. Len(s) PROVE w[Behind(p, i)] = s[i]
  <2>1. CASE i < p
    BY <1>1, <1>4, <1>5, <2>1 DEF Behind
  <2>2. CASE i >= p
    <3>1. w[i + 1] = y[i + 1 - p] /\ i + 1 - p \in 1 .. Len(s) + 1 - p
      BY <1>1, <1>4, <1>5, <2>2
    <3>2. y[i + 1 - p] = s[p + (i + 1 - p) - 1] /\ p + (i + 1 - p) - 1 = i
      BY <1>1, <3>1
    <3> QED BY <2>2, <3>1, <3>2 DEF Behind
  <2> QED BY <2>1, <2>2
<1> QED BY <1>5, <1>6, <1>7, <1>8

\* What rows say; of a bank no two say the same.
LEMMA SaidIs ==
  ASSUME NEW a, NEW list \in Seq(Rows)
  PROVE  /\ Said(a, list) \in Seq(Texts) /\ Len(Said(a, list)) = Len(list)
         /\ DOMAIN Said(a, list) = 1 .. Len(list)
         /\ \A i \in 1 .. Len(list) :
               Said(a, list)[i] = <<TextOf[list[i]], IF a \in Bank THEN Len(list) - i + 1 ELSE 0>>
         /\ a \in Bank => \A i, j \in 1 .. Len(list) : Said(a, list)[i] = Said(a, list)[j] => i = j
<1> DEFINE e(i) == <<TextOf[list[i]], IF a \in Bank THEN Len(list) - i + 1 ELSE 0>>
<1>1. DOMAIN list = 1 .. Len(list) /\ Len(list) \in Nat /\ \A i \in 1 .. Len(list) : list[i] \in Rows
  OBVIOUS
<1>2. \A i \in 1 .. Len(list) : e(i) \in Texts
  <2>1. \A i \in 1 .. Len(list) : Len(list) - i + 1 \in Nat
    BY <1>1
  <2> QED BY <1>1, <2>1 DEF Texts
<1>3. Said(a, list) = [i \in 1 .. Len(list) |-> e(i)]
  BY <1>1 DEF Said
<1>4. \A i, j \in 1 .. Len(list) : a \in Bank /\ e(i) = e(j) => i = j
  BY <1>1
<1> HIDE DEF e
<1>5. [i \in 1 .. Len(list) |-> e(i)] \in [1 .. Len(list) -> Texts]
  BY <1>2
<1>6. Said(a, list) \in Seq(Texts) /\ Len(Said(a, list)) = Len(list)
  BY <1>1, <1>3, <1>5
<1> QED BY <1>1, <1>3, <1>4, <1>6 DEF e

Kinds == {"history", "banking", "export"}

\* Names tell where the rows are from.
LEMMA NamesTyped ==
  ASSUME NEW source \in Kinds, NEW texts \in Seq(Texts)
  PROVE  RowNames(source, texts) \subseteq Names /\ \A name \in RowNames(source, texts) : name[1] = source
<1>1. ASSUME NEW i \in DOMAIN texts PROVE NameOf(source, texts, i) \in Names /\ NameOf(source, texts, i)[1] = source
  <2>1. texts[i] \in Texts /\ i \in Nat
    OBVIOUS
  <2> DEFINE P == {j \in 1 .. i : texts[j] = texts[i]}
  <2>2. IsFiniteSet(1 .. i) /\ P \in SUBSET (1 .. i)
    BY <2>1, FS_Interval
  <2> HIDE DEF P
  <2>3. Cardinality(P) \in Nat
    BY <2>2, FS_Subset, FS_CardinalityType
  <2>4. NameOf(source, texts, i) = <<source, texts[i], Cardinality(P)>>
    BY DEF NameOf, P
  <2> QED BY <2>1, <2>3, <2>4 DEF Names, Kinds
<1> QED BY <1>1, RowNamesAre

\* Names stay when rows move back.
LEMMA NamesFitBehind ==
  ASSUME NEW source, NEW t, NEW n \in Nat, NEW m \in Nat, NEW X, NEW Y,
         DOMAIN X = 1 .. n, DOMAIN Y = 1 .. m, NEW i \in Alike(X, t),
         \A j \in Alike(X, t) : j - 1 \in Alike(Y, t)
  PROVE  \E l \in Alike(Y, t) : NameOf(source, Y, l) = NameOf(source, X, i)
<1> DEFINE f == [j \in Alike(X, t) |-> j - 1]
<1>1. f \in [Alike(X, t) -> Alike(Y, t)]
  OBVIOUS
<1>2. \A k, j \in Alike(X, t) : f[k] = f[j] => k = j
  <2>1. \A j \in Alike(X, t) : j \in Int
    BY DEF Alike
  <2> QED BY <2>1
<1> HIDE DEF f
<1> QED BY <1>1, <1>2, NamesFit

\* What a row leaves of the others' names when it comes.
LEMMA Coming ==
  ASSUME NEW list \in Seq(Rows), IsInjective(list), NEW n \in Nat, n <= Len(list),
         NEW r \in Rows, r \notin ToSet(list),
         NEW p \in Nat, 1 <= p, p <= Len(list) + 1 - n, NEW new, new = InsertAt(list, p, r)
  PROVE  /\ new \in Seq(Rows) /\ Len(new) = Len(list) + 1 /\ IsInjective(new)
         /\ DOMAIN new = 1 .. Len(list) + 1 /\ new[p] = r
         /\ \A i \in 1 .. Len(list) : new[Behind(p, i)] = list[i]
         /\ \A i \in 1 .. Len(list) + 1 : i = p \/ \E j \in 1 .. Len(list) : i = Behind(p, j)
<1>1. new \in Seq(Rows) /\ Len(new) = Len(list) + 1 /\ DOMAIN new = 1 .. Len(list) + 1 /\ new[p] = r
      /\ \A i \in 1 .. Len(list) : new[Behind(p, i)] = list[i]
  <2>1. Len(list) \in Nat /\ p <= Len(list) + 1
    OBVIOUS
  <2> QED BY <2>1, Inserted
<1>2. ASSUME NEW i \in 1 .. Len(list) + 1, i # p
      PROVE  \E j \in 1 .. Len(list) : i = Behind(p, j)
  <2>1. CASE i < p
    <3>1. i \in 1 .. Len(list) /\ Behind(p, i) = i
      BY <2>1 DEF Behind
    <3> QED BY <3>1
  <2>2. CASE i > p
    <3>1. i - 1 \in 1 .. Len(list) /\ Behind(p, i - 1) = i
      BY <2>2 DEF Behind
    <3> QED BY <3>1
  <2> QED BY <1>2, <2>1, <2>2
<1>3. ASSUME NEW i \in 1 .. Len(list) + 1, NEW j \in 1 .. Len(list) + 1, new[i] = new[j]
      PROVE  i = j
  <2>1. \A k \in 1 .. Len(list) : list[k] \in ToSet(list) /\ list[k] # r
    BY DEF ToSet
  <2>2. CASE i = p \/ j = p
    BY <1>1, <1>2, <1>3, <2>1, <2>2
  <2>3. CASE i # p /\ j # p
    <3>1. PICK k \in 1 .. Len(list) : i = Behind(p, k)
      BY <1>2, <2>3
    <3>2. PICK l \in 1 .. Len(list) : j = Behind(p, l)
      BY <1>2, <2>3
    <3>3. list[k] = list[l]
      BY <1>1, <1>3, <3>1, <3>2
    <3>4. k = l
      BY <3>3 DEF IsInjective
    <3> QED BY <3>1, <3>2, <3>4
  <2> QED BY <2>2, <2>3
<1>4. IsInjective(new)
  BY <1>1, <1>3 DEF IsInjective
<1> QED BY <1>1, <1>2, <1>4

\* The names stay when a row comes, of a bank only in front.
LEMMA ComingNames ==
  ASSUME NEW a, NEW list \in Seq(Rows), IsInjective(list), NEW n \in Nat, n <= Len(list),
         NEW r \in Rows, r \notin ToSet(list),
         NEW p \in Nat, 1 <= p, p <= Len(list) + 1 - n, NEW new, new = InsertAt(list, p, r),
         a \in Bank => p = 1
  PROVE  /\ \A i \in 1 .. Len(list) : Said(a, new)[Behind(p, i)] = Said(a, list)[i]
         /\ \A source : RowNames(source, Said(a, list)) \subseteq RowNames(source, Said(a, new))
<1>1. new \in Seq(Rows) /\ Len(new) = Len(list) + 1 /\ \A i \in 1 .. Len(list) : new[Behind(p, i)] = list[i]
  BY Coming
<1>2. /\ DOMAIN Said(a, list) = 1 .. Len(list) /\ DOMAIN Said(a, new) = 1 .. Len(list) + 1 /\ Len(list) \in Nat
      /\ Len(list) + 1 \in Nat
  BY <1>1, SaidIs
<1>3. \A i, j \in 1 .. Len(list) : Behind(p, i) \in 1 .. Len(list) + 1 /\ (Behind(p, i) = Behind(p, j) => i = j)
  BY <1>2 DEF Behind
<1>4. ASSUME NEW i \in 1 .. Len(list) PROVE Said(a, new)[Behind(p, i)] = Said(a, list)[i]
  <2>1. a \in Bank => Len(list) + 1 - Behind(p, i) + 1 = Len(list) - i + 1
    BY <1>2 DEF Behind
  <2>2. Said(a, new)[Behind(p, i)]
        = <<TextOf[new[Behind(p, i)]], IF a \in Bank THEN Len(list) + 1 - Behind(p, i) + 1 ELSE 0>>
    <3>1. \A k \in 1 .. Len(new) : Said(a, new)[k] = <<TextOf[new[k]], IF a \in Bank THEN Len(new) - k + 1 ELSE 0>>
      BY <1>1, SaidIs
    <3>2. Behind(p, i) \in 1 .. Len(new)
      BY <1>1, <1>3
    <3> QED BY <1>1, <3>1, <3>2
  <2>3. Said(a, list)[i] = <<TextOf[list[i]], IF a \in Bank THEN Len(list) - i + 1 ELSE 0>>
    BY SaidIs
  <2> QED BY <1>1, <2>1, <2>2, <2>3
<1>5. ASSUME NEW source PROVE RowNames(source, Said(a, list)) \subseteq RowNames(source, Said(a, new))
  <2> DEFINE f == [i \in 1 .. Len(list) |-> Behind(p, i)]
  <2>1. /\ f \in [1 .. Len(list) -> 1 .. Len(list) + 1]
        /\ \A i, j \in 1 .. Len(list) : f[i] = f[j] => i = j
        /\ \A i \in 1 .. Len(list) : Said(a, new)[f[i]] = Said(a, list)[i]
    BY <1>3, <1>4
  <2> HIDE DEF f
  <2> QED BY <1>2, <2>1, AllNamesFit
<1> QED BY <1>4, <1>5

\* What is out of the last 6 months keeps its names and its distance.
Parted(a, list, n) ==
    \A i, j \in 1 .. Len(list) : i <= Len(list) - n /\ j > Len(list) - n => Said(a, list)[i] # Said(a, list)[j]
Unlike(list, n, r) == \A i \in 1 .. Len(list) : TextOf[list[i]] = TextOf[r] => i <= Len(list) - n

\* So do those of the rows out of the last 6 months, which are told apart from the rest.
LEMMA ComingAged ==
  ASSUME NEW a, NEW list \in Seq(Rows), IsInjective(list), NEW n \in Nat, n <= Len(list),
         NEW r \in Rows, r \notin ToSet(list),
         NEW p \in Nat, 1 <= p, p <= Len(list) + 1 - n, NEW new, new = InsertAt(list, p, r),
         Parted(a, list, n), Unlike(list, n, r)
  PROVE  /\ Parted(a, new, n)
         /\ (a \in Bank => p = 1) =>
               \A source : \A i \in Len(new) - n + 1 .. Len(new) :
                  \E l \in Len(list) - n + 1 .. Len(list) :
                     NameOf(source, Said(a, list), l) = NameOf(source, Said(a, new), i)
<1> USE DEF Parted, Unlike
<1>1. /\ new \in Seq(Rows) /\ Len(new) = Len(list) + 1 /\ Len(list) \in Nat /\ new[p] = r
      /\ \A i \in 1 .. Len(list) : new[Behind(p, i)] = list[i]
      /\ \A i \in 1 .. Len(list) + 1 : i = p \/ \E j \in 1 .. Len(list) : i = Behind(p, j)
  BY Coming
<1>2. /\ DOMAIN Said(a, list) = 1 .. Len(list) /\ DOMAIN Said(a, new) = 1 .. Len(list) + 1
      /\ Len(list) + 1 \in Nat
  BY <1>1, SaidIs
<1>3. ASSUME NEW j \in 1 .. Len(list) + 1, j > Len(list) + 1 - n
      PROVE  j - 1 \in Len(list) - n + 1 .. Len(list) /\ Behind(p, j - 1) = j /\ new[j] = list[j - 1]
             /\ j - 1 \in 1 .. Len(list)
  <2>1. j - 1 \in 1 .. Len(list) /\ j - 1 \in Len(list) - n + 1 .. Len(list) /\ j - 1 >= p
    BY <1>1, <1>3
  <2>2. Behind(p, j - 1) = j
    BY <2>1 DEF Behind
  <2> QED BY <1>1, <2>1, <2>2
<1>4. ASSUME NEW i \in 1 .. Len(new), NEW j \in 1 .. Len(new), i <= Len(new) - n, j > Len(new) - n
      PROVE  Said(a, new)[i] # Said(a, new)[j]
  <2>1. CASE a \in Bank
    <3>1. i # j
      BY <1>1, <1>4
    <3> QED BY <1>1, <2>1, <3>1, SaidIs
  <2>2. CASE a \notin Bank
    <3>1. /\ Said(a, new)[i] = <<TextOf[new[i]], 0>> /\ Said(a, new)[j] = <<TextOf[new[j]], 0>>
          /\ \A k \in 1 .. Len(list) : Said(a, list)[k] = <<TextOf[list[k]], 0>>
      BY <1>1, <2>2, SaidIs
    <3>2. new[j] = list[j - 1] /\ j - 1 > Len(list) - n /\ j - 1 \in 1 .. Len(list)
      BY <1>1, <1>3, <1>4
    <3>3. CASE i = p
      BY <1>1, <3>1, <3>2, <3>3
    <3>4. CASE i # p
      <4>1. PICK k \in 1 .. Len(list) : i = Behind(p, k)
        BY <1>1, <3>4
      <4>2. k <= Len(list) - n
        BY <1>1, <1>4, <4>1 DEF Behind
      <4>3. Said(a, list)[k] # Said(a, list)[j - 1]
        BY <3>2, <4>2
      <4> QED BY <1>1, <3>1, <3>2, <4>1, <4>3
    <3> QED BY <3>3, <3>4
  <2> QED BY <2>1, <2>2
<1>5. ASSUME a \in Bank => p = 1, NEW source, NEW i \in Len(new) - n + 1 .. Len(new)
      PROVE  \E l \in Len(list) - n + 1 .. Len(list) :
                NameOf(source, Said(a, list), l) = NameOf(source, Said(a, new), i)
  <2> DEFINE X == Said(a, new)
  <2> DEFINE Y == Said(a, list)
  <2> DEFINE t == X[i]
  <2>1. i \in 1 .. Len(new) /\ i > Len(new) - n
    BY <1>1
  <2>2. i \in Alike(X, t)
    BY <1>1, <1>2, <2>1 DEF Alike
  <2>3. ASSUME NEW j \in Alike(X, t)
        PROVE  j \in 1 .. Len(list) + 1 /\ j - 1 \in Len(list) - n + 1 .. Len(list) /\ j - 1 \in 1 .. Len(list)
               /\ Y[j - 1] = t
    <3>1. j \in 1 .. Len(new) /\ X[j] = X[i] /\ Len(new) \in Nat
      BY <1>1, <1>2 DEF Alike
    <3>2. j > Len(new) - n
      BY <1>4, <2>1, <3>1
    <3>3. j - 1 \in Len(list) - n + 1 .. Len(list) /\ Behind(p, j - 1) = j /\ j - 1 \in 1 .. Len(list)
      BY <1>1, <1>3, <3>1, <3>2
    <3>4. X[Behind(p, j - 1)] = Y[j - 1]
      BY <1>5, <3>3, ComingNames
    <3> QED BY <1>1, <3>1, <3>3, <3>4
  <2>5. \A l \in Alike(Y, t) : l > Len(list) - n
    <3>1. Y[i - 1] = t /\ i - 1 \in 1 .. Len(list) /\ i - 1 > Len(list) - n
      BY <2>2, <2>3
    <3>2. ASSUME NEW l \in Alike(Y, t) PROVE l > Len(list) - n
      <4>1. l \in 1 .. Len(list) /\ Y[l] = Y[i - 1]
        BY <1>2, <3>1 DEF Alike
      <4> SUFFICES ASSUME l <= Len(list) - n PROVE FALSE
        BY <1>1, <4>1
      <4>2. Said(a, list)[l] # Said(a, list)[i - 1]
        BY <3>1, <4>1
      <4> QED BY <4>1, <4>2
    <3> QED BY <3>2
  <2>6. PICK l \in Alike(Y, t) : NameOf(source, Y, l) = NameOf(source, X, i)
    <3> DEFINE big == Len(list) + 1
    <3> DEFINE small == Len(list)
    <3>1. DOMAIN X = 1 .. big /\ DOMAIN Y = 1 .. small /\ big \in Nat /\ small \in Nat /\ i \in Alike(X, t)
      BY <1>2, <2>2
    <3>2. \A j \in Alike(X, t) : j - 1 \in Alike(Y, t)
      BY <1>2, <2>3 DEF Alike
    <3> HIDE DEF big, small, X, Y, t, Parted, Unlike
    <3>3. \A k \in Alike(X, t) : \E l \in Alike(Y, t) : NameOf(source, Y, l) = NameOf(source, X, k)
      BY <3>1, <3>2, NamesFitBehind
    <3> QED BY <3>1, <3>3
  <2> HIDE DEF X, Y, t
  <2>7. l \in 1 .. Len(list) /\ l > Len(list) - n
    BY <1>2, <2>5 DEF Alike, Y
  <2>8. l \in Len(list) - n + 1 .. Len(list)
    BY <1>1, <2>7
  <2> QED BY <2>6, <2>8 DEF X, Y
<1> QED BY <1>1, <1>4, <1>5

\* All of it.
Comes(a, list, n, r, p, new) ==
    /\ list \in Seq(Rows) /\ IsInjective(list) /\ n \in Nat /\ n <= Len(list)
    /\ r \in Rows /\ r \notin ToSet(list)
    /\ p \in Nat /\ 1 <= p /\ p <= Len(list) + 1 - n /\ new = InsertAt(list, p, r)
    /\ Parted(a, list, n) /\ Unlike(list, n, r)
AgedKept(a, list, n, new) ==
    \A source : \A i \in Len(new) - n + 1 .. Len(new) : \E l \in Len(list) - n + 1 .. Len(list) :
        NameOf(source, Said(a, list), l) = NameOf(source, Said(a, new), i)
SaidKept(a, list, p, new) == \A i \in 1 .. Len(list) : Said(a, new)[Behind(p, i)] = Said(a, list)[i]
NamesKept(a, list, new) == \A source : RowNames(source, Said(a, list)) \subseteq RowNames(source, Said(a, new))

\* All that a row leaves.
LEMMA ComingAll ==
  ASSUME NEW a, NEW list, NEW n, NEW r, NEW p, NEW new, Comes(a, list, n, r, p, new)
  PROVE  /\ new \in Seq(Rows) /\ Len(new) = Len(list) + 1 /\ IsInjective(new)
         /\ DOMAIN new = 1 .. Len(list) + 1 /\ new[p] = r
         /\ \A i \in 1 .. Len(list) : new[Behind(p, i)] = list[i]
         /\ \A i \in 1 .. Len(list) + 1 : i = p \/ \E j \in 1 .. Len(list) : i = Behind(p, j)
         /\ Parted(a, new, n)
         /\ (a \in Bank => p = 1) => AgedKept(a, list, n, new) /\ SaidKept(a, list, p, new) /\ NamesKept(a, list, new)
<1>1. /\ list \in Seq(Rows) /\ IsInjective(list) /\ n \in Nat /\ n <= Len(list)
      /\ r \in Rows /\ r \notin ToSet(list)
      /\ p \in Nat /\ 1 <= p /\ p <= Len(list) + 1 - n /\ new = InsertAt(list, p, r)
  BY DEF Comes
<1>2. Parted(a, list, n) /\ Unlike(list, n, r)
  BY DEF Comes
<1>3. /\ new \in Seq(Rows) /\ Len(new) = Len(list) + 1 /\ IsInjective(new)
      /\ DOMAIN new = 1 .. Len(list) + 1 /\ new[p] = r
      /\ \A i \in 1 .. Len(list) : new[Behind(p, i)] = list[i]
      /\ \A i \in 1 .. Len(list) + 1 : i = p \/ \E j \in 1 .. Len(list) : i = Behind(p, j)
  BY <1>1, Coming
<1>4. (a \in Bank => p = 1) => SaidKept(a, list, p, new) /\ NamesKept(a, list, new)
  BY <1>1, ComingNames DEF SaidKept, NamesKept
<1>5. Parted(a, new, n)
  BY <1>1, <1>2, ComingAged
<1>6. (a \in Bank => p = 1) => AgedKept(a, list, n, new)
  BY <1>1, <1>2, ComingAged DEF AgedKept
<1> QED BY <1>3, <1>4, <1>5, <1>6

\* A history is read of a brokerage account.
LEMMA HistoryOf ==
  ASSUME NEW answer \in Answers, NEW a \in Brokerage
  PROVE  history_id(answer, a) \in Brokerage
<1> DEFINE H == answer.history
<1> DEFINE named == {i \in DOMAIN H : H[i].name = answer.names[a]}
<1>1. H \in Seq([id : Brokerage, name : STRING])
  BY SchwabAssumption
<1>2. Len(H) \in Nat /\ DOMAIN H = 1 .. Len(H) /\ \A i \in 1 .. Len(H) : H[i].id \in Brokerage
  <2> DEFINE E == [id : Brokerage, name : STRING]
  <2>1. H \in Seq(E) /\ \A e \in E : e.id \in Brokerage
    BY <1>1
  <2> HIDE DEF H, E
  <2> QED BY <2>1
<1>3. history_id(answer, a) = IF named # {} THEN H[Max(named)].id
                              ELSE IF Len(H) = 1 THEN H[1].id ELSE a
  BY DEF history_id
<1>4. named \subseteq 1 .. Len(H)
  BY <1>2
<1> HIDE DEF H, named
<1>5. named # {} => Max(named) \in 1 .. Len(H)
  BY <1>2, <1>4, GreatestPlace
<1> QED BY <1>2, <1>3, <1>5

\* Types, by account.
LEMMA SchwabParts ==
  ASSUME SchwabTypes, NEW a \in Accounts
  PROVE  /\ rows[a] \in Seq(Rows) /\ Len(rows[a]) \in Nat /\ DOMAIN rows[a] = 1 .. Len(rows[a])
         /\ aged[a] \in Nat /\ aged[a] <= Len(rows[a]) /\ IsInjective(rows[a])
         /\ odd[a] \subseteq {"late", "shifted", "unread", "failed", "strayed"}
         /\ stored[a] \subseteq Names /\ sync.found[a] \subseteq Names /\ sync.owed[a] \in Seq(Texts)
         /\ sync.page \in Nat /\ sync.read \in Seq(Rows \cup Texts)
         /\ SaidOf(a) \in Seq(Texts) /\ DOMAIN SaidOf(a) = 1 .. Len(rows[a]) /\ Len(SaidOf(a)) = Len(rows[a])
<1>1. rows[a] \in Seq(Rows) /\ aged[a] \in Nat /\ aged[a] <= Len(rows[a]) /\ IsInjective(rows[a])
      /\ odd[a] \subseteq {"late", "shifted", "unread", "failed", "strayed"} /\ stored[a] \subseteq Names
  BY DEF SchwabTypes
<1>2. sync.found[a] \subseteq Names /\ sync.owed[a] \in Seq(Texts) /\ sync.page \in 0 .. SchwabPages
      /\ sync.read \in Seq(Rows \cup Texts)
  BY DEF SchwabTypes, Sync
<1>3. SchwabPages \in Nat
  BY SchwabAssumption
<1>4. sync.page \in Nat
  BY <1>2, <1>3
<1>5. Len(rows[a]) \in Nat /\ DOMAIN rows[a] = 1 .. Len(rows[a])
  BY <1>1
<1>6. SaidOf(a) \in Seq(Texts) /\ DOMAIN SaidOf(a) = 1 .. Len(rows[a]) /\ Len(SaidOf(a)) = Len(rows[a])
  BY <1>1, SaidIs DEF SaidOf
<1> QED BY <1>1, <1>2, <1>4, <1>5, <1>6

\* What does not touch an account leaves what is known of it.
AccountInv(a) == StoredWell(a) /\ Real(a) /\ FoundWell(a) /\ ReadWell(a)

\* What does not touch an account leaves what is known of it.
LEMMA Elsewhere ==
  ASSUME NEW a \in Accounts, AccountInv(a), rows'[a] = rows[a], aged'[a] = aged[a], stored'[a] = stored[a],
         odd[a] \subseteq odd'[a], sync' = sync
  PROVE  AccountInv(a)'
<1>1. SaidOf(a)' = SaidOf(a) /\ AgedOf(a)' = AgedOf(a) /\ Source(a)' = Source(a) /\ Paging(a)' = Paging(a)
      /\ Asked' = Asked /\ (Clean(a)' => Clean(a))
  BY DEF SaidOf, AgedOf, Source, Said, Paging, Asked, Clean
<1>2. \A names : AgedIn(a, names)' = AgedIn(a, names)
  BY <1>1 DEF AgedIn, NameOf
<1>3. \A i : Had(a, i)' = Had(a, i)
  BY <1>1 DEF Had, Got, Ahead, Last, ToSet
<1>4. StoredWell(a)'
  BY <1>1, <1>2 DEF AccountInv, StoredWell
<1>5. Real(a)'
  <2>1. \A source : RowNames(source, SaidOf(a))' = RowNames(source, SaidOf(a))
    BY <1>1 DEF RowNames
  <2> QED BY <1>1, <2>1 DEF AccountInv, Real
<1>6. FoundWell(a)'
  <2>1. RowNames(Source(a), sync.owed[a])' = RowNames(Source(a), sync.owed[a])
    BY <1>1 DEF RowNames
  <2> QED BY <1>1, <1>2, <2>1 DEF AccountInv, FoundWell
<1>7. ReadWell(a)'
  BY <1>1, <1>3 DEF AccountInv, ReadWell, IsInjective
<1> QED BY <1>4, <1>5, <1>6, <1>7 DEF AccountInv

\* At first.
LEMMA SchwabStart0 ==
  SchwabInit => SchwabInv
<1> SUFFICES ASSUME SchwabInit PROVE SchwabInv
  OBVIOUS
<1>1. /\ rows = FirstRows /\ aged = [a \in Accounts |-> 0] /\ stored = [a \in Accounts |-> {}]
      /\ sync = NoSync /\ odd = [a \in Accounts |-> {}]
  BY DEF SchwabInit
<1>2. SchwabTypes
  <2>1. NoSync \in Sync
    <3>1. <<>> \in Seq(Texts) /\ <<>> \in Seq(Rows \cup Texts) /\ 0 \in 0 .. SchwabPages
      BY SchwabAssumption
    <3> QED BY <3>1 DEF NoSync, Sync
  <2>2. \A a \in Accounts : FirstRows[a] \in Seq(Rows) /\ IsInjective(FirstRows[a]) /\ FirstRows \in [Accounts -> Seq(Rows)]
    BY SchwabAssumption
  <2>3. \A a \in Accounts : Len(rows[a]) \in Nat /\ aged[a] = 0
    BY <1>1, <2>2
  <2>4. \A a \in Accounts : aged[a] <= Len(rows[a])
    BY <2>3
  <2>5. rows \in [Accounts -> Seq(Rows)]
    BY <1>1, SchwabAssumption
  <2> QED BY <1>1, <2>1, <2>2, <2>4, <2>5 DEF SchwabTypes
<1>3. sync.at = "idle" /\ sync.found = [a \in Accounts |-> {}]
  BY <1>1 DEF NoSync
<1>4. SyncStage /\ InOrder /\ ByPages
  BY <1>1, <1>3 DEF SyncStage, InOrder, ByPages
<1>5. \A a \in Accounts : Len(rows[a]) \in Nat /\ aged[a] = 0 /\ DOMAIN rows[a] = 1 .. Len(rows[a])
  BY <1>1, <1>2, SchwabParts
<1>6. Apart
  BY <1>5 DEF Apart
<1>7. \A a \in Accounts : StoredWell(a) /\ Real(a) /\ FoundWell(a) /\ ReadWell(a)
  BY <1>1, <1>3 DEF StoredWell, Real, FoundWell, ReadWell, Paging
<1> QED BY <1>2, <1>4, <1>6, <1>7 DEF SchwabInv

(***************************************************************************)
(* A row comes.                                                            *)
(***************************************************************************)

\* What a row changes.
LEMMA RowMoves ==
  ASSUME SchwabInv, NEW r \in Rows, NEW place \in 1 .. Cardinality(Rows), RowComes(r, place)
  PROVE  LET a == AccountOf[r] IN
         /\ a \in Accounts /\ place \in Nat /\ 1 <= place /\ place <= Len(rows[a]) + 1 - aged[a]
         /\ r \notin ToSet(rows[a]) /\ rows'[a] = InsertAt(rows[a], place, r)
         /\ \A b \in Accounts : b # a => rows'[b] = rows[b]
         /\ aged' = aged /\ stored' = stored /\ sync' = sync
         /\ \A b \in Accounts : odd[b] \subseteq odd'[b]
         /\ (a \in Bank /\ place > 1 => "late" \in odd'[a])
         /\ (a \in Bank /\ Paging(a) /\ sync.page > 0 => odd'[a] \cap {"late", "shifted"} # {})
         /\ odd' \in [Accounts -> SUBSET {"late", "shifted", "unread", "failed", "strayed"}]
         /\ \A i \in DOMAIN rows[a] : TextOf[rows[a][i]] = TextOf[r] => i <= Len(rows[a]) - aged[a]
<1> DEFINE a == AccountOf[r]
<1>1. SchwabTypes
  BY DEF SchwabInv
<1>2. a \in Accounts
  BY SchwabAssumption
<1>3. rows \in [Accounts -> Seq(Rows)] /\ odd \in [Accounts -> SUBSET {"late", "shifted", "unread", "failed", "strayed"}]
  BY <1>1 DEF SchwabTypes
<1>4. place \in Nat /\ 1 <= place
  BY SchwabAssumption, FS_CardinalityType
<1>5. rows' = [rows EXCEPT ![a] = InsertAt(rows[a], place, r)]
  BY DEF RowComes
<1>6. /\ place <= Len(rows[a]) + 1 - aged[a] /\ r \notin ToSet(rows[a])
      /\ aged' = aged /\ stored' = stored /\ sync' = sync
      /\ \A i \in DOMAIN rows[a] : TextOf[rows[a][i]] = TextOf[r] => i <= Len(rows[a]) - aged[a]
      /\ odd' = IF place > 1 /\ a \in Bank THEN Because("late", {a})
                ELSE IF a \in Bank /\ sync.at = "page" /\ Asked = a /\ sync.page > 0 THEN Because("shifted", {a})
                ELSE odd
  BY DEF RowComes
<1> HIDE DEF a
<1>7. rows'[a] = InsertAt(rows[a], place, r) /\ \A b \in Accounts : b # a => rows'[b] = rows[b]
  BY <1>2, <1>3, <1>5
<1>8. \A reason \in {"late", "shifted"} :
          /\ Because(reason, {a}) \in [Accounts -> SUBSET {"late", "shifted", "unread", "failed", "strayed"}]
          /\ \A b \in Accounts : odd[b] \subseteq Because(reason, {a})[b]
          /\ reason \in Because(reason, {a})[a]
  BY <1>2, <1>3 DEF Because
<1>9. /\ \A b \in Accounts : odd[b] \subseteq odd'[b]
      /\ (a \in Bank /\ place > 1 => "late" \in odd'[a])
      /\ (a \in Bank /\ Paging(a) /\ sync.page > 0 => odd'[a] \cap {"late", "shifted"} # {})
      /\ odd' \in [Accounts -> SUBSET {"late", "shifted", "unread", "failed", "strayed"}]
  BY <1>3, <1>6, <1>8 DEF Paging
<1> QED BY <1>2, <1>4, <1>6, <1>7, <1>9 DEF a

\* The account whose history is read is one of Schwab's, the one asked for unless it strays.
LEMMA AskedIs ==
  ASSUME SchwabInv, sync.at = "page"
  PROVE  /\ sync.answer \in Answers /\ sync.turn \in 1 .. Len(sync.answer.accounts)
         /\ sync.answer.accounts \in Seq(Accounts) /\ Asked \in Accounts
         /\ Asked \in ToSet(sync.answer.accounts)
         /\ Asking \in Accounts
         /\ Asked \in Brokerage => Asking \in Brokerage /\ Asked \notin Bank
         /\ Asked \in Brokerage => Asking = Asked \/ "strayed" \in odd[Asked]
<1>1. sync.answer \in Answers /\ sync.turn \in 1 .. Len(sync.answer.accounts)
      /\ \A a \in ToSet(sync.answer.accounts) \cap Brokerage : history_id(sync.answer, a) # a => "strayed" \in odd[a]
  BY DEF SchwabInv, SyncStage
<1> DEFINE list == sync.answer.accounts
<1>2. list \in Seq(Accounts)
  BY <1>1, SchwabAssumption
<1>3. Asked = list[sync.turn]
  BY DEF Asked
<1>4. list[sync.turn] \in Accounts /\ list[sync.turn] \in ToSet(list)
  <2> DEFINE i == sync.turn
  <2>1. i \in 1 .. Len(list)
    BY <1>1
  <2> HIDE DEF list, i
  <2>2. list[i] \in Accounts /\ list[i] \in ToSet(list)
    BY <1>2, <2>1 DEF ToSet
  <2> QED BY <2>2 DEF i
<1> HIDE DEF list
<1>5. Brokerage \cap Bank = {}
  BY SchwabAssumption
<1>6. Asked \in Brokerage => history_id(sync.answer, Asked) \in Brokerage
  BY <1>1, HistoryOf
<1> QED BY <1>1, <1>2, <1>3, <1>4, <1>5, <1>6 DEF Asking, Accounts, list

\* Nothing of a list.
LEMMA SubSeqNone ==
  ASSUME NEW s
  PROVE  SubSeq(s, 1, 0) = <<>>
BY SubSeqEmpty

\* A row comes: what was got or ahead still is.
LEMMA RowComesKeeps ==
  ASSUME SchwabInv, NEW r \in Rows, NEW place \in 1 .. Cardinality(Rows), RowComes(r, place)
  PROVE  SchwabInv'
<1> DEFINE a == AccountOf[r]
<1> DEFINE len == Len(rows[a])
<1>1. SchwabTypes /\ SyncStage /\ Apart /\ InOrder /\ ByPages
      /\ \A b \in Accounts : StoredWell(b) /\ Real(b) /\ FoundWell(b) /\ ReadWell(b)
  BY DEF SchwabInv
<1>2. /\ a \in Accounts /\ place \in Nat /\ 1 <= place /\ place <= Len(rows[a]) + 1 - aged[a]
      /\ r \notin ToSet(rows[a]) /\ rows'[a] = InsertAt(rows[a], place, r)
      /\ \A b \in Accounts : b # a => rows'[b] = rows[b]
      /\ aged' = aged /\ stored' = stored /\ sync' = sync
      /\ \A b \in Accounts : odd[b] \subseteq odd'[b]
      /\ (a \in Bank /\ place > 1 => "late" \in odd'[a])
      /\ (a \in Bank /\ Paging(a) /\ sync.page > 0 => odd'[a] \cap {"late", "shifted"} # {})
      /\ odd' \in [Accounts -> SUBSET {"late", "shifted", "unread", "failed", "strayed"}]
      /\ \A i \in DOMAIN rows[a] : TextOf[rows[a][i]] = TextOf[r] => i <= Len(rows[a]) - aged[a]
  BY RowMoves
<1>3. /\ rows[a] \in Seq(Rows) /\ len \in Nat /\ DOMAIN rows[a] = 1 .. len
      /\ aged[a] \in Nat /\ aged[a] <= len /\ IsInjective(rows[a])
      /\ DOMAIN SaidOf(a) = 1 .. len
  BY <1>1, <1>2, SchwabParts
<1> DEFINE list == rows[a]
<1> DEFINE new == rows'[a]
<1> DEFINE n == aged[a]
<1>4. Comes(a, list, n, r, place, new)
  <2>1. /\ list \in Seq(Rows) /\ IsInjective(list) /\ n \in Nat /\ n <= Len(list) /\ r \notin ToSet(list)
        /\ place \in Nat /\ 1 <= place /\ place <= Len(list) + 1 - n /\ new = InsertAt(list, place, r)
    BY <1>2, <1>3
  <2>2. Unlike(list, n, r)
    BY <1>2, <1>3 DEF Unlike
  <2>3. \A i, j \in DOMAIN rows[a] :
           i <= Len(rows[a]) - aged[a] /\ j > Len(rows[a]) - aged[a] => SaidOf(a)[i] # SaidOf(a)[j]
    BY <1>1, <1>2 DEF Apart
  <2>4. Parted(a, list, n)
    BY <1>3, <2>3 DEF SaidOf, Parted
  <2> HIDE DEF list, new, n, a
  <2> QED BY <2>1, <2>2, <2>4 DEF Comes
<1> DEFINE sits(i) == Behind(place, i)
<1>5. /\ new \in Seq(Rows) /\ Len(new) = Len(list) + 1 /\ IsInjective(new)
      /\ DOMAIN new = 1 .. Len(list) + 1 /\ new[place] = r
      /\ \A i \in 1 .. Len(list) : new[Behind(place, i)] = list[i]
      /\ \A i \in 1 .. Len(list) + 1 : i = place \/ \E j \in 1 .. Len(list) : i = Behind(place, j)
  <2> HIDE DEF list, new, n, a
  <2> QED BY <1>4, ComingAll
<1>6. Parted(a, new, n)
  <2> HIDE DEF list, new, n, a
  <2> QED BY <1>4, ComingAll
<1>7. (a \in Bank => place = 1) =>
         AgedKept(a, list, n, new) /\ SaidKept(a, list, place, new) /\ NamesKept(a, list, new)
  <2> HIDE DEF list, new, n, a
  <2> QED BY <1>4, ComingAll
<1>8. /\ rows'[a] \in Seq(Rows) /\ Len(rows'[a]) = len + 1 /\ IsInjective(rows'[a])
      /\ DOMAIN rows'[a] = 1 .. len + 1 /\ rows'[a][place] = r
      /\ \A i \in 1 .. len : rows'[a][sits(i)] = rows[a][i]
      /\ \A i \in 1 .. len + 1 : i = place \/ \E j \in 1 .. len : i = sits(j)
  BY <1>5
<1>9. /\ \A i \in 1 .. len : sits(i) \in 1 .. len + 1 /\ i <= sits(i) /\ sits(i) <= i + 1
      /\ \A i, j \in 1 .. len : (i < j => sits(i) < sits(j)) /\ (i <= j => sits(i) <= sits(j))
  BY <1>2, <1>3 DEF Behind
<1>10. Apart'
  <2>3. ASSUME NEW b \in Accounts, b # a
        PROVE  \A i, j \in DOMAIN rows'[b] :
                  i <= Len(rows'[b]) - aged'[b] /\ j > Len(rows'[b]) - aged'[b]
                     => Said(b, rows'[b])[i] # Said(b, rows'[b])[j]
    <3>1. rows'[b] = rows[b] /\ aged'[b] = aged[b]
      BY <1>2, <2>3
    <3> QED BY <1>1, <3>1 DEF Apart, SaidOf
  <2>4. \A i, j \in DOMAIN rows'[a] :
                  i <= Len(rows'[a]) - aged'[a] /\ j > Len(rows'[a]) - aged'[a]
                     => Said(a, rows'[a])[i] # Said(a, rows'[a])[j]
    BY <1>2, <1>5, <1>6 DEF Parted
  <2>5. \A b \in Accounts : \A i, j \in DOMAIN rows'[b] :
                  i <= Len(rows'[b]) - aged'[b] /\ j > Len(rows'[b]) - aged'[b]
                     => Said(b, rows'[b])[i] # Said(b, rows'[b])[j]
    BY <2>3, <2>4
  <2> QED BY <2>5 DEF Apart, SaidOf, Said
<1>11. SchwabTypes'
  <2>1. rows' \in [Accounts -> Seq(Rows)]
    <3>1. rows' = [rows EXCEPT ![a] = InsertAt(rows[a], place, r)]
      BY DEF RowComes
    <3>2. rows \in [Accounts -> Seq(Rows)] /\ InsertAt(rows[a], place, r) \in Seq(Rows)
      BY <1>1, <1>2, <1>8 DEF SchwabTypes
    <3> HIDE DEF a
    <3> QED BY <3>1, <3>2
  <2>2. \A b \in Accounts : IsInjective(rows'[b]) /\ aged'[b] <= Len(rows'[b])
    <3>1. ASSUME NEW b \in Accounts, b # a PROVE IsInjective(rows'[b]) /\ aged'[b] <= Len(rows'[b])
      <4>1. rows'[b] = rows[b] /\ aged'[b] = aged[b] /\ IsInjective(rows[b]) /\ aged[b] <= Len(rows[b])
        BY <1>1, <1>2, <3>1, SchwabParts
      <4> QED BY <4>1 DEF IsInjective
    <3>2. IsInjective(rows'[a]) /\ aged'[a] <= Len(rows'[a])
      BY <1>2, <1>3, <1>8
    <3> QED BY <3>1, <3>2
  <2> QED BY <1>1, <1>2, <2>1, <2>2 DEF SchwabTypes, IsInjective
<1>12. SyncStage'
  <2>1. Asked' = Asked
    BY <1>2 DEF Asked
  <2>2. \A answer, b : history_id(answer, b)' = history_id(answer, b)
    BY DEF history_id
  <2>3. sync.at # "idle" => \A b \in Accounts : b \in ToSet(sync.answer.accounts) \cap Brokerage =>
           (history_id(sync.answer, b) # b => "strayed" \in odd'[b])
    BY <1>1, <1>2 DEF SyncStage
  <2>4. /\ sync.at = "idle" => sync = NoSync
        /\ sync.at # "idle" => sync.answer \in Answers
        /\ sync.at = "page" => sync.turn \in 1 .. Len(sync.answer.accounts)
        /\ sync.at = "page" => sync.read \in Seq(IF Asked \in Bank THEN Texts ELSE Rows)
        /\ sync.at = "done" => \A b \in Accounts : sync.found[b] \subseteq stored[b]
    BY <1>1 DEF SyncStage
  <2>5. sync.at # "idle" => \A b \in ToSet(sync.answer.accounts) \cap Brokerage :
                                history_id(sync.answer, b) # b => "strayed" \in odd'[b]
    BY <2>3 DEF Accounts
  <2> QED BY <1>2, <2>1, <2>2, <2>4, <2>5 DEF SyncStage, ToSet
<1>13. ASSUME NEW b \in Accounts, b # a PROVE AccountInv(b)'
  <2>1. AccountInv(b)
    BY <1>1 DEF AccountInv
  <2> QED BY <1>2, <1>13, <2>1, Elsewhere

(* The account itself. *)
<1>14. "late" \notin odd'[a] =>
           /\ \A i \in 1 .. len : SaidOf(a)'[sits(i)] = SaidOf(a)[i]
           /\ \A source : RowNames(source, SaidOf(a)) \subseteq RowNames(source, SaidOf(a)')
           /\ \A i \in AgedOf(a)' : \E l \in AgedOf(a) :
                 NameOf(Source(a), SaidOf(a)', i) = NameOf(Source(a), SaidOf(a), l)
           /\ AgedOf(a)' \subseteq {sits(l) : l \in AgedOf(a)}
  <2> SUFFICES ASSUME "late" \notin odd'[a]
               PROVE  /\ \A i \in 1 .. len : SaidOf(a)'[sits(i)] = SaidOf(a)[i]
                      /\ \A source : RowNames(source, SaidOf(a)) \subseteq RowNames(source, SaidOf(a)')
                      /\ \A i \in AgedOf(a)' : \E l \in AgedOf(a) :
                            NameOf(Source(a), SaidOf(a)', i) = NameOf(Source(a), SaidOf(a), l)
                      /\ AgedOf(a)' \subseteq {sits(l) : l \in AgedOf(a)}
    OBVIOUS
  <2>1. a \in Bank => place = 1
    BY <1>2
  <2>2. SaidOf(a)' = Said(a, rows'[a]) /\ SaidOf(a) = Said(a, rows[a])
        /\ AgedOf(a)' = len + 1 - aged[a] + 1 .. len + 1 /\ AgedOf(a) = len - aged[a] + 1 .. len
    <3>1. SaidOf(a)' = Said(a, rows'[a]) /\ SaidOf(a) = Said(a, rows[a])
      BY DEF SaidOf, Said
    <3>2. AgedOf(a)' = Len(rows'[a]) - aged'[a] + 1 .. Len(rows'[a]) /\ AgedOf(a) = len - aged[a] + 1 .. len
      BY DEF AgedOf
    <3>3. Len(rows'[a]) = len + 1 /\ aged'[a] = aged[a]
      BY <1>2, <1>8
    <3>4. AgedOf(a)' = len + 1 - aged[a] + 1 .. len + 1
      <4> DEFINE size == Len(rows'[a])
      <4> DEFINE tail == aged'[a]
      <4>1. AgedOf(a)' = size - tail + 1 .. size
        BY <3>2
      <4>2. size = len + 1 /\ tail = aged[a] /\ len \in Nat /\ aged[a] \in Nat
        BY <1>3, <3>3
      <4> HIDE DEF size, tail, len
      <4> QED BY <4>1, <4>2
    <3> QED BY <3>1, <3>2, <3>4
  <2>3. /\ \A i \in 1 .. len : Said(a, rows'[a])[sits(i)] = Said(a, rows[a])[i]
        /\ \A source : RowNames(source, Said(a, rows[a])) \subseteq RowNames(source, Said(a, rows'[a]))
    BY <1>7, <2>1 DEF SaidKept, NamesKept
  <2>5. \A source : \A i \in len + 1 - aged[a] + 1 .. len + 1 :
           \E l \in len - aged[a] + 1 .. len :
              NameOf(source, Said(a, rows[a]), l) = NameOf(source, Said(a, rows'[a]), i)
    <3>1. Len(rows'[a]) - aged[a] + 1 .. Len(rows'[a]) = len + 1 - aged[a] + 1 .. len + 1
      <4> DEFINE size == Len(rows'[a])
      <4>1. size = len + 1 /\ len \in Nat /\ aged[a] \in Nat
        BY <1>3, <1>8
      <4> HIDE DEF size, len
      <4>2. size - aged[a] + 1 .. size = len + 1 - aged[a] + 1 .. len + 1
        BY <4>1
      <4> QED BY <4>2 DEF size
    <3> DEFINE tail == Len(rows'[a]) - aged[a] + 1 .. Len(rows'[a])
    <3> DEFINE had == len - aged[a] + 1 .. len
    <3>2. \A source : \A i \in tail :
           \E l \in had :
              NameOf(source, Said(a, rows[a]), l) = NameOf(source, Said(a, rows'[a]), i)
      BY <1>7, <2>1 DEF AgedKept
    <3>3. tail = len + 1 - aged[a] + 1 .. len + 1
      BY <3>1
    <3> HIDE DEF tail, had
    <3>4. \A source : \A i \in len + 1 - aged[a] + 1 .. len + 1 : \E l \in had :
              NameOf(source, Said(a, rows[a]), l) = NameOf(source, Said(a, rows'[a]), i)
      BY <3>2, <3>3, Zenon
    <3> QED BY <3>4 DEF had
  <2>6. ASSUME NEW i \in len + 1 - aged[a] + 1 .. len + 1
        PROVE  \E l \in len - aged[a] + 1 .. len : i = sits(l)
    <3>1. i \in Int /\ i - 1 >= len - aged[a] + 1 /\ i - 1 <= len /\ place <= len + 1 - aged[a]
      BY <1>2, <1>3
    <3>2. i - 1 \in len - aged[a] + 1 .. len /\ ~(i - 1 < place) /\ i - 1 + 1 = i
      BY <1>2, <1>3, <3>1
    <3>3. sits(i - 1) = i
      BY <3>2 DEF Behind
    <3> QED BY <3>2, <3>3
  <2> HIDE DEF a, len, sits
  <2> QED BY <2>2, <2>3, <2>5, <2>6
<1>15. (Clean(a)' => Clean(a)) /\ (Clean(a)' => "late" \notin odd'[a]) /\ Source(a)' = Source(a) /\ Paging(a)' = Paging(a)
       /\ Asked' = Asked
  BY <1>2 DEF Clean, Source, Paging, Asked
<1>16. \A names : Clean(a)' /\ AgedIn(a, names) =>
           \A i \in AgedOf(a)' : NameOf(Source(a)', SaidOf(a)', i) \in names
  BY <1>14, <1>15 DEF AgedIn
<1>17. StoredWell(a)'
  <2>1. Clean(a)' /\ stored'[a] # {} => AgedIn(a, stored[a])'
    <3>1. Clean(a)' /\ stored'[a] # {} => AgedIn(a, stored[a])
      BY <1>1, <1>2, <1>15 DEF StoredWell
    <3>2. Clean(a)' /\ stored'[a] # {} => \A i \in AgedOf(a)' : NameOf(Source(a)', SaidOf(a)', i) \in stored'[a]
      BY <1>2, <1>16, <3>1
    <3> QED BY <3>2 DEF AgedIn, NameOf
  <2>2. /\ \A name \in stored[a] \cup sync.found[a] : name[1] \in IF a \in Bank THEN {"banking"} ELSE {"history", "export"}
    BY <1>1, <1>2 DEF StoredWell
  <2> QED BY <1>2, <2>1, <2>2 DEF StoredWell
<1>18. Real(a)'
  <2>1. ASSUME odd'[a] \cap {"late", "shifted", "strayed"} = {}
        PROVE  stored'[a] \cup sync'.found[a] \subseteq UNION {RowNames(source, SaidOf(a)') : source \in Kinds}
    <3>1. odd[a] \cap {"late", "shifted", "strayed"} = {} /\ "late" \notin odd'[a]
      BY <1>2, <2>1
    <3>2. stored[a] \cup sync.found[a] \subseteq UNION {RowNames(source, SaidOf(a)) : source \in Kinds}
      BY <1>1, <1>2, <3>1 DEF Real, Kinds
    <3> QED BY <1>2, <1>14, <3>1, <3>2
  <2>2. \A source : RowNames(source, SaidOf(a)') = RowNames(source, SaidOf(a))'
    BY DEF RowNames
  <2> QED BY <2>1, <2>2 DEF Real, Kinds
<1>19. FoundWell(a)'
  <2>1. ~Paging(a) /\ Clean(a)' /\ sync.found[a] # {} => AgedIn(a, stored[a] \cup sync.found[a])'
    <3>1. ~Paging(a) /\ Clean(a)' /\ sync.found[a] # {} => AgedIn(a, stored[a] \cup sync.found[a])
      BY <1>1, <1>2, <1>15 DEF FoundWell
    <3>2. ~Paging(a) /\ Clean(a)' /\ sync.found[a] # {} =>
              \A i \in AgedOf(a)' : NameOf(Source(a)', SaidOf(a)', i) \in stored'[a] \cup sync'.found[a]
      BY <1>2, <1>16, <3>1
    <3> QED BY <1>2, <3>2 DEF AgedIn, NameOf
  <2>2. ~Paging(a) /\ Clean(a)' /\ sync.at # "idle" /\ "failed" \notin odd'[a] =>
               RowNames(Source(a), sync.owed[a]) \subseteq stored[a] \cup sync.found[a]
    BY <1>1, <1>2, <1>15 DEF FoundWell
  <2>3. RowNames(Source(a), sync.owed[a])' = RowNames(Source(a), sync.owed[a])
    BY <1>2, <1>15 DEF RowNames
  <2> QED BY <1>2, <1>15, <2>1, <2>2, <2>3 DEF FoundWell
<1>20. Paging(a) /\ a \notin Bank /\ Clean(a)' => Asking = a /\ Asked = a /\ Asked \in Brokerage /\ sync.at = "page"
  BY <1>2, <1>15, AskedIs DEF Paging, Accounts, Clean
<1>21. ASSUME Asking \in Brokerage, Asked \in Brokerage, sync.at = "page", Asking = a
       PROVE  /\ \A k \in DOMAIN sync.read : sync.read[k] # r
              /\ sync.read # <<>> => Last(sync.read) # r
  <2>1. \A k \in DOMAIN sync.read : \E i \in 1 .. InReach(a) : rows[a][i] = sync.read[k]
    BY <1>1, <1>21 DEF InOrder
  <2>2. InReach(a) <= len
    BY <1>3 DEF InReach
  <2>3. \A i \in 1 .. len : rows[a][i] # r
    BY <1>2, <1>3 DEF ToSet
  <2>4. InReach(a) \in Int
    BY <1>3 DEF InReach
  <2>5. \A k \in DOMAIN sync.read : sync.read[k] # r
    BY <1>3, <2>1, <2>2, <2>3, <2>4
  <2>6. sync.read # <<>> => Len(sync.read) \in DOMAIN sync.read
    BY <1>1, <1>2, SchwabParts
  <2> QED BY <2>5, <2>6 DEF Last
<1>22. ASSUME Paging(a), Clean(a)', NEW i \in 1 .. len, Had(a, i) PROVE Had(a, sits(i))'
  <2>1. CASE a \in Bank
    <3>1. Got(a, i) => Got(a, sits(i))'
      BY <1>2, <1>14, <1>15, <1>22, <2>1 DEF Got, ToSet
    <3>2. Ahead(a, i) => Ahead(a, sits(i))'
      <4>1. sync.page * BankPage \in Int
        BY <1>1, <1>2, SchwabParts, SchwabAssumption
      <4> QED BY <1>2, <1>3, <1>9, <2>1, <4>1 DEF Ahead
    <3> QED BY <1>22, <3>1, <3>2 DEF Had
  <2>2. CASE a \notin Bank
    <3>1. Got(a, i) => Got(a, sits(i))'
      BY <1>2, <1>8, <2>2 DEF Got, ToSet
    <3>2. Ahead(a, i) => Ahead(a, sits(i))'
      <4> SUFFICES ASSUME sync.read # <<>>, \A j \in DOMAIN rows[a] : rows[a][j] = Last(sync.read) => j < i,
                          NEW j \in 1 .. len + 1, rows'[a][j] = Last(sync.read)
                   PROVE  j < sits(i)
        BY <1>2, <1>8, <2>2 DEF Ahead, Last
      <4>1. j # place
        BY <1>8, <1>20, <1>21, <1>22, <2>2, AskedIs
      <4>2. PICK k \in 1 .. len : j = sits(k)
        BY <1>8, <4>1
      <4>3. rows[a][k] = Last(sync.read)
        BY <1>8, <4>2
      <4>4. k < i
        BY <1>3, <4>3
      <4> QED BY <1>9, <4>2, <4>4
    <3> QED BY <1>22, <3>1, <3>2 DEF Had
  <2> QED BY <2>1, <2>2
<1>23. ReadWell(a)'
  <2>1. SUFFICES ASSUME Paging(a)
                 PROVE  /\ sync.frame = "Last6Months" => stored[a] # {} \/ "unread" \in odd'[a] \/ aged[a] = 0
                        /\ Clean(a)' => \A i \in AgedOf(a)' : Had(a, i)'
                        /\ Clean(a)' /\ "failed" \notin odd'[a] =>
                              \E row \in [DOMAIN sync.owed[a] -> Rows] :
                                  /\ IsInjective(row)
                                  /\ \A k \in DOMAIN sync.owed[a] : \E i \in DOMAIN rows'[a] :
                                        rows'[a][i] = row[k] /\ SaidOf(a)'[i] = sync.owed[a][k] /\ Had(a, i)'
    BY <1>2, <1>15 DEF ReadWell, IsInjective
  <2>2. sync.frame = "Last6Months" => stored[a] # {} \/ "unread" \in odd'[a] \/ aged[a] = 0
    BY <1>1, <1>2, <2>1 DEF ReadWell
  <2>3. ASSUME Clean(a)', NEW i \in AgedOf(a)' PROVE Had(a, i)'
    <3>1. PICK l \in AgedOf(a) : i = sits(l)
      BY <1>14, <1>15, <2>3
    <3>2. l \in 1 .. len
      BY <1>3 DEF AgedOf
    <3>3. Had(a, l)
      BY <1>1, <1>2, <1>15, <2>1, <2>3 DEF ReadWell
    <3> QED BY <1>22, <2>1, <2>3, <3>1, <3>2, <3>3
  <2>4. ASSUME Clean(a)', "failed" \notin odd'[a]
        PROVE  \E row \in [DOMAIN sync.owed[a] -> Rows] :
                  /\ IsInjective(row)
                  /\ \A k \in DOMAIN sync.owed[a] : \E i \in DOMAIN rows'[a] :
                        rows'[a][i] = row[k] /\ SaidOf(a)'[i] = sync.owed[a][k] /\ Had(a, i)'
    <3>1. PICK row \in [DOMAIN sync.owed[a] -> Rows] :
              /\ IsInjective(row)
              /\ \A k \in DOMAIN sync.owed[a] : \E i \in DOMAIN rows[a] :
                    rows[a][i] = row[k] /\ SaidOf(a)[i] = sync.owed[a][k] /\ Had(a, i)
      BY <1>1, <1>2, <1>15, <2>1, <2>4 DEF ReadWell
    <3>2. ASSUME NEW k \in DOMAIN sync.owed[a]
          PROVE  \E i \in DOMAIN rows'[a] :
                    rows'[a][i] = row[k] /\ SaidOf(a)'[i] = sync.owed[a][k] /\ Had(a, i)'
      <4>1. PICK i \in 1 .. len : rows[a][i] = row[k] /\ SaidOf(a)[i] = sync.owed[a][k] /\ Had(a, i)
        BY <1>3, <3>1
      <4>2. sits(i) \in DOMAIN rows'[a]
        BY <1>8, <1>9
      <4>3. rows'[a][sits(i)] = row[k] /\ SaidOf(a)'[sits(i)] = sync.owed[a][k]
        BY <1>8, <1>14, <1>15, <2>4, <4>1
      <4>4. Had(a, sits(i))'
        BY <1>22, <2>1, <2>4, <4>1
      <4> QED BY <4>2, <4>3, <4>4
    <3> QED BY <3>1, <3>2
  <2> QED BY <2>2, <2>3, <2>4
<1>24. InOrder'
  <2> SUFFICES ASSUME sync.at = "page", Asked \in Brokerage PROVE InOrder'
    BY <1>2, <1>15, SMTT(30) DEF InOrder
  <2> DEFINE of == Asking
  <2>1. of \in Accounts /\ of \in Brokerage /\ Asking' = Asking
    BY <1>2, <1>15, AskedIs DEF Asking, history_id
  <2> DEFINE reach == IF sync.frame = "All" THEN Len(rows[of]) ELSE Len(rows[of]) - aged[of]
  <2> DEFINE now == IF sync.frame = "All" THEN Len(rows'[of]) ELSE Len(rows'[of]) - aged[of]
  <2>2. /\ IsInjective(sync.read)
        /\ \A k \in DOMAIN sync.read : \E i \in 1 .. reach : rows[of][i] = sync.read[k]
        /\ sync.read # <<>> => \A i, j \in DOMAIN rows[of] :
                            rows[of][i] \in ToSet(sync.read) /\ rows[of][j] = Last(sync.read) => i <= j
    BY <1>1 DEF InOrder, InReach
  <2>3. ASSUME /\ \A k \in DOMAIN sync.read : \E i \in 1 .. now : rows'[of][i] = sync.read[k]
               /\ sync.read # <<>> => \A i, j \in DOMAIN rows'[of] :
                   rows'[of][i] \in ToSet(sync.read) /\ rows'[of][j] = Last(sync.read) => i <= j
        PROVE  InOrder'
    <3>1. InReach(Asking)' = now
      <4>1. Asking' = of
        BY <2>1
      <4> QED BY <1>2, <4>1 DEF InReach
    <3>2. IsInjective(sync.read)' /\ ToSet(sync.read)' = ToSet(sync.read) /\ Last(sync.read)' = Last(sync.read)
          /\ sync'.read = sync.read /\ Asking' = of
      BY <1>2, <2>1, <2>2 DEF IsInjective, ToSet, Last
    <3>3. /\ IsInjective(sync.read)'
          /\ \A k \in DOMAIN sync'.read : \E i \in 1 .. InReach(Asking)' : rows'[Asking'][i] = sync'.read[k]
          /\ sync'.read # <<>> => \A i, j \in DOMAIN rows'[Asking'] :
                   rows'[Asking'][i] \in ToSet(sync.read)' /\ rows'[Asking'][j] = Last(sync.read)' => i <= j
      <4> HIDE DEF now, of
      <4> QED BY <2>3, <3>1, <3>2
    <3> QED BY <3>3 DEF InOrder
  <2>4. reach = InReach(of)
    BY DEF InReach
  <2> HIDE DEF of
  <2>5. CASE of # a
    <3>1. rows'[of] = rows[of]
      BY <1>2, <2>1, <2>5
    <3>2. now = reach
      BY <3>1
    <3> HIDE DEF now, reach
    <3> QED BY <2>2, <2>3, <3>1, <3>2
  <2>6. CASE of = a
    <3>1. /\ \A k \in DOMAIN sync.read : sync.read[k] # r
          /\ sync.read # <<>> => Last(sync.read) # r
      BY <1>21, <2>1, <2>6 DEF of
    <3>2. now = reach + 1 /\ reach \in Int /\ reach <= len
      <4>1. Len(rows'[a]) = len + 1 /\ Len(rows[of]) = len /\ rows'[of] = rows'[a] /\ aged[of] = aged[a]
        BY <1>8, <2>6
      <4>2. len \in Nat /\ aged[a] \in Nat /\ aged[a] <= len
        BY <1>3
      <4> HIDE DEF len, a
      <4> QED BY <4>1, <4>2
    <3>3. ASSUME NEW k \in DOMAIN sync.read PROVE \E i \in 1 .. now : rows'[a][i] = sync.read[k]
      <4> HIDE DEF now, reach
      <4>1. PICK i \in 1 .. reach : rows[a][i] = sync.read[k]
        BY <2>2, <2>6 DEF reach
      <4>2. i \in 1 .. len /\ sits(i) \in 1 .. reach + 1
        BY <1>3, <1>9, <3>2
      <4> QED BY <1>8, <3>2, <4>1, <4>2
    <3>4. ASSUME sync.read # <<>>, NEW i \in 1 .. len + 1, NEW j \in 1 .. len + 1,
                 rows'[a][i] \in ToSet(sync.read), rows'[a][j] = Last(sync.read)
          PROVE  i <= j
      <4>1. i # place /\ j # place
        BY <1>8, <3>1, <3>4 DEF ToSet
      <4>2. PICK k \in 1 .. len : i = sits(k)
        BY <1>8, <4>1
      <4>3. PICK l \in 1 .. len : j = sits(l)
        BY <1>8, <4>1
      <4>4. rows[a][k] \in ToSet(sync.read) /\ rows[a][l] = Last(sync.read)
        BY <1>8, <3>4, <4>2, <4>3
      <4>5. k <= l
        BY <1>3, <2>2, <2>6, <3>4, <4>4
      <4> QED BY <1>9, <4>2, <4>3, <4>5
    <3>5. sync.read # <<>> => \A i, j \in 1 .. len + 1 :
              rows'[a][i] \in ToSet(sync.read) /\ rows'[a][j] = Last(sync.read) => i <= j
      BY <3>4
    <3> HIDE DEF now
    <3>6. DOMAIN rows'[of] = 1 .. len + 1 /\ rows'[of] = rows'[a]
      BY <1>8, <2>6
    <3> QED BY <2>3, <3>3, <3>5, <3>6
  <2> QED BY <2>5, <2>6
<1>25. ByPages'
  <2> SUFFICES ASSUME sync.at = "page", Asked \in Bank, odd'[Asked] \cap {"late", "shifted"} = {}
               PROVE  /\ sync.page * BankPage <= InReach(Asked)'
                      /\ sync.read = SubSeq(SaidOf(Asked)', 1, sync.page * BankPage)
    BY <1>2, <1>15 DEF ByPages, InReach, SaidOf, Said
  <2>1. Asked \in Accounts
    BY AskedIs
  <2>2. sync.page * BankPage <= InReach(Asked) /\ sync.read = SubSeq(SaidOf(Asked), 1, sync.page * BankPage)
    BY <1>1, <1>2, <2>1 DEF ByPages
  <2>3. CASE Asked # a
    <3>1. rows'[Asked] = rows[Asked]
      BY <1>2, <2>1, <2>3
    <3>2. InReach(Asked)' = InReach(Asked) /\ SaidOf(Asked)' = SaidOf(Asked)
      BY <1>2, <1>15, <3>1 DEF InReach, SaidOf, Said
    <3> QED BY <2>2, <3>2
  <2>4. CASE Asked = a
    <3>1. sync.page = 0
      <4>1. sync.page \in Nat /\ Paging(a)
        BY <1>1, <2>1, <2>4, SchwabParts DEF Paging
      <4> QED BY <1>2, <2>4, <4>1
    <3>2. sync.page * BankPage = 0
      BY <3>1, SchwabAssumption
    <3>3. InReach(Asked)' = IF sync.frame = "All" THEN len + 1 ELSE len + 1 - aged[a]
      <4>1. sync'.frame = sync.frame /\ aged' = aged /\ Asked' = Asked /\ Len(rows'[a]) = len + 1
        BY <1>2, <1>8, <1>15
      <4> HIDE DEF len, a
      <4> QED BY <1>3, <2>4, <4>1 DEF InReach
    <3>4. 0 <= InReach(Asked)'
      BY <1>3, <3>3
    <3>5. sync.read = <<>> /\ SubSeq(SaidOf(Asked)', 1, 0) = <<>>
      BY <2>2, <3>2, SubSeqNone
    <3> QED BY <3>2, <3>4, <3>5
  <2> QED BY <2>3, <2>4
<1>26. \A b \in Accounts : (StoredWell(b) /\ Real(b) /\ FoundWell(b) /\ ReadWell(b))'
  BY <1>13, <1>17, <1>18, <1>19, <1>23 DEF AccountInv
<1> QED BY <1>10, <1>11, <1>12, <1>24, <1>25, <1>26 DEF SchwabInv

\* What is before the last of a list.
LEMMA InFront ==
  ASSUME NEW list \in Seq(Rows), NEW n \in Nat, n <= Len(list), NEW i \in 1 .. Len(list) - n
  PROVE  list[i] \in ToSet(SubSeq(list, 1, Len(list) - n))
<1> DEFINE q == Len(list) - n
<1>1. q \in Nat /\ 1 \in Nat /\ 1 <= 1 /\ 1 <= q + 1 /\ q <= Len(list) /\ q + 1 - 1 = q /\ i \in 1 .. q /\ 1 + i - 1 = i
  OBVIOUS
<1> DEFINE s == SubSeq(list, 1, q)
<1> HIDE DEF q
<1>2. s \in Seq(Rows) /\ Len(s) = q + 1 - 1 /\ \A k \in 1 .. q + 1 - 1 : s[k] = list[1 + k - 1]
  BY <1>1, SubSeqIs
<1> HIDE DEF s
<1>3. i \in 1 .. Len(s) /\ s[i] = list[i]
  BY <1>1, <1>2
<1>4. list[i] \in ToSet(s)
  BY <1>2, <1>3 DEF ToSet
<1> QED BY <1>4 DEF s, q

\* The last of a list.
LEMMA InBack ==
  ASSUME NEW list \in Seq(Rows), NEW n \in Nat, n <= Len(list), NEW j \in 1 .. Len(list), j > Len(list) - n
  PROVE  list[j] \in ToSet(SubSeq(list, Len(list) - n + 1, Len(list)))
<1> DEFINE q == Len(list)
<1> DEFINE p == q - n + 1
<1> DEFINE k == j - (q - n)
<1>1. p \in Nat /\ q \in Nat /\ 1 <= p /\ p <= q + 1 /\ q <= Len(list) /\ k \in 1 .. q + 1 - p /\ p + k - 1 = j
  OBVIOUS
<1> DEFINE s == SubSeq(list, p, q)
<1> HIDE DEF p, q, k
<1>2. s \in Seq(Rows) /\ Len(s) = q + 1 - p /\ \A l \in 1 .. q + 1 - p : s[l] = list[p + l - 1]
  BY <1>1, SubSeqIs
<1> HIDE DEF s
<1>3. k \in DOMAIN s /\ s[k] = list[j]
  BY <1>1, <1>2
<1>4. list[j] \in ToSet(s)
  BY <1>3 DEF ToSet
<1> QED BY <1>4 DEF s, q, p

\* A day's rows leave the last 6 months.
LEMMA AgeKeeps ==
  ASSUME SchwabInv, NEW a \in Accounts, Age(a)
  PROVE  SchwabInv'
<1> DEFINE list == rows[a]
<1>1. SchwabTypes /\ SyncStage /\ Apart
      /\ \A b \in Accounts : StoredWell(b) /\ Real(b) /\ FoundWell(b) /\ ReadWell(b)
  BY DEF SchwabInv
<1>2. /\ list \in Seq(Rows) /\ Len(list) \in Nat /\ DOMAIN list = 1 .. Len(list)
      /\ aged[a] \in Nat /\ aged[a] <= Len(list)
      /\ odd[a] \subseteq {"late", "shifted", "unread", "failed", "strayed"}
      /\ DOMAIN SaidOf(a) = 1 .. Len(list)
  BY <1>1, SchwabParts
<1>3. PICK n \in aged[a] + 1 .. Len(list) :
        /\ \A r \in ToSet(SubSeq(list, 1, Len(list) - n)), s \in ToSet(SubSeq(list, Len(list) - n + 1, Len(list))) :
              TextOf[r] # TextOf[s]
        /\ aged' = [aged EXCEPT ![a] = n]
        /\ odd' = IF stored[a] # {} /\ ~\E source \in {"history", "banking"} :
                              RowNames(source, Said(a, list)) \subseteq stored[a]
                  THEN Because("unread", {a}) ELSE odd
  BY DEF Age
<1>4. sync.at = "idle" /\ sync' = sync /\ sync = NoSync /\ rows' = rows /\ stored' = stored
  BY <1>1 DEF Age, SyncStage
<1>5. n \in Nat /\ 1 <= n /\ n <= Len(list)
  BY <1>2
<1>6. aged'[a] = n /\ (\A b \in Accounts : b # a => aged'[b] = aged[b]) /\ aged' \in [Accounts -> Nat]
  BY <1>1, <1>3, <1>5 DEF SchwabTypes
<1>7. /\ \A b \in Accounts : odd[b] \subseteq odd'[b]
      /\ odd' \in [Accounts -> SUBSET {"late", "shifted", "unread", "failed", "strayed"}]
      /\ (stored[a] # {} /\ "unread" \notin odd'[a]) =>
            \E source \in {"history", "banking"} : RowNames(source, SaidOf(a)) \subseteq stored[a]
  BY <1>1, <1>3 DEF Because, SchwabTypes, SaidOf
<1>8. ASSUME NEW i \in 1 .. Len(list), NEW j \in 1 .. Len(list), i <= Len(list) - n, j > Len(list) - n
      PROVE  SaidOf(a)[i] # SaidOf(a)[j]
  <2>1. TextOf[list[i]] # TextOf[list[j]]
    <3> HIDE DEF list
    <3>1. i \in 1 .. Len(list) - n
      BY <1>2, <1>5, <1>8
    <3>2. list[i] \in ToSet(SubSeq(list, 1, Len(list) - n))
      BY <1>2, <1>5, <3>1, InFront
    <3>3. list[j] \in ToSet(SubSeq(list, Len(list) - n + 1, Len(list)))
      BY <1>2, <1>5, <1>8, InBack
    <3> QED BY <1>3, <3>2, <3>3
  <2>2. SaidOf(a)[i] = <<TextOf[list[i]], IF a \in Bank THEN Len(list) - i + 1 ELSE 0>>
        /\ SaidOf(a)[j] = <<TextOf[list[j]], IF a \in Bank THEN Len(list) - j + 1 ELSE 0>>
    <3> HIDE DEF list
    <3>1. \A k \in 1 .. Len(list) :
             Said(a, list)[k] = <<TextOf[list[k]], IF a \in Bank THEN Len(list) - k + 1 ELSE 0>>
      BY <1>2, SaidIs
    <3> QED BY <3>1 DEF SaidOf, list
  <2> QED BY <2>1, <2>2
<1>9. \A b \in Accounts : SaidOf(b)' = SaidOf(b)
  BY <1>4 DEF SaidOf, Said
<1>10. Apart'
  <2>1. ASSUME NEW b \in Accounts
        PROVE  \A i, j \in DOMAIN rows[b] :
                  i <= Len(rows[b]) - aged'[b] /\ j > Len(rows[b]) - aged'[b] => SaidOf(b)[i] # SaidOf(b)[j]
    <3>1. CASE b = a
      BY <1>2, <1>6, <1>8, <3>1
    <3>2. CASE b # a
      BY <1>1, <1>6, <3>2 DEF Apart
    <3> QED BY <3>1, <3>2
  <2> QED BY <1>4, <1>9, <2>1 DEF Apart
<1>11. SchwabTypes'
  <2>1. \A b \in Accounts : aged'[b] <= Len(rows[b])
    BY <1>1, <1>5, <1>6 DEF SchwabTypes
  <2> QED BY <1>1, <1>4, <1>6, <1>7, <2>1 DEF SchwabTypes, IsInjective
<1>12. SyncStage' /\ InOrder' /\ ByPages'
  BY <1>4 DEF SyncStage, InOrder, ByPages
<1>13. ASSUME NEW b \in Accounts, b # a PROVE AccountInv(b)'
  <2>1. AccountInv(b)
    BY <1>1 DEF AccountInv
  <2> QED BY <1>4, <1>6, <1>7, <1>13, <2>1, Elsewhere
<1>14. Source(a)' = Source(a) /\ (Clean(a)' => Clean(a) /\ "unread" \notin odd'[a]) /\ ~Paging(a)'
  BY <1>4, <1>7 DEF Source, Clean, Paging
<1>15. StoredWell(a)'
  <2>1. ASSUME Clean(a)', stored[a] # {}, NEW i \in AgedOf(a)' PROVE NameOf(Source(a), SaidOf(a), i) \in stored[a]
    <3>1. PICK source \in {"history", "banking"} : RowNames(source, SaidOf(a)) \subseteq stored[a]
      BY <1>7, <1>14, <2>1
    <3>2. AgedOf(a)' = Len(list) - n + 1 .. Len(list)
      BY <1>4, <1>6 DEF AgedOf
    <3>3. i \in DOMAIN SaidOf(a)
      BY <1>2, <1>5, <2>1, <3>2
    <3>4. NameOf(source, SaidOf(a), i) \in stored[a]
      BY <3>1, <3>3, RowNamesAre
    <3>5. NameOf(source, SaidOf(a), i)[1] \in IF a \in Bank THEN {"banking"} ELSE {"history", "export"}
      BY <1>1, <3>4 DEF StoredWell
    <3>6. NameOf(source, SaidOf(a), i)[1] = source
      BY DEF NameOf
    <3>7. source = Source(a)
      BY <3>5, <3>6 DEF Source
    <3> QED BY <3>4, <3>7
  <2>2. Clean(a)' /\ stored[a] # {} => AgedIn(a, stored[a])'
    BY <1>4, <1>9, <1>14, <2>1 DEF AgedIn, NameOf
  <2>3. \A name \in stored[a] \cup sync.found[a] : name[1] \in IF a \in Bank THEN {"banking"} ELSE {"history", "export"}
    BY <1>1 DEF StoredWell
  <2> QED BY <1>4, <2>2, <2>3 DEF StoredWell
<1>16. Real(a)'
  <2>1. \A source : RowNames(source, SaidOf(a))' = RowNames(source, SaidOf(a))
    BY <1>9 DEF RowNames
  <2> QED BY <1>1, <1>4, <1>7, <2>1 DEF Real
<1>17. FoundWell(a)' /\ ReadWell(a)'
  BY <1>4, <1>14 DEF FoundWell, ReadWell, NoSync
<1>18. \A b \in Accounts : (StoredWell(b) /\ Real(b) /\ FoundWell(b) /\ ReadWell(b))'
  BY <1>13, <1>15, <1>16, <1>17 DEF AccountInv
<1> QED BY <1>10, <1>11, <1>12, <1>18 DEF SchwabInv

\* A file is imported.
LEMMA ImportKeeps ==
  ASSUME SchwabInv, NEW a \in Accounts, import_schwab_transactions(a)
  PROVE  SchwabInv'
<1>1. SchwabTypes /\ SyncStage /\ Apart /\ InOrder /\ ByPages
      /\ \A b \in Accounts : StoredWell(b) /\ Real(b) /\ FoundWell(b) /\ ReadWell(b)
  BY DEF SchwabInv
<1>2. /\ rows' = rows /\ aged' = aged /\ sync' = sync /\ sync.at \in {"idle", "page"} /\ a \in Brokerage
      /\ stored' = [stored EXCEPT ![a] = stored[a] \cup RowNames("export", SaidOf(a))]
      /\ odd' = IF stored[a] = {} /\ aged[a] > 0 THEN Because("unread", {a}) ELSE odd
  BY DEF import_schwab_transactions, parse_exported_transactions_json, SaidOf
<1>3. SaidOf(a) \in Seq(Texts) /\ aged[a] \in Nat /\ Len(rows[a]) \in Nat
  BY <1>1, SchwabParts
<1>4. /\ RowNames("export", SaidOf(a)) \subseteq Names
      /\ \A name \in RowNames("export", SaidOf(a)) : name[1] = "export"
  <2> DEFINE source == "export"
  <2>1. source \in Kinds
    BY DEF Kinds
  <2> HIDE DEF source
  <2>2. RowNames(source, SaidOf(a)) \subseteq Names /\ \A name \in RowNames(source, SaidOf(a)) : name[1] = source
    BY <1>3, <2>1, NamesTyped
  <2> QED BY <2>2 DEF source
<1>5. stored \in [Accounts -> SUBSET Names]
      /\ odd \in [Accounts -> SUBSET {"late", "shifted", "unread", "failed", "strayed"}]
  BY <1>1 DEF SchwabTypes
<1>6. /\ stored' \in [Accounts -> SUBSET Names] /\ stored'[a] = stored[a] \cup RowNames("export", SaidOf(a))
      /\ \A b \in Accounts : b # a => stored'[b] = stored[b]
  BY <1>2, <1>4, <1>5
<1>7. /\ \A b \in Accounts : odd[b] \subseteq odd'[b]
      /\ odd' \in [Accounts -> SUBSET {"late", "shifted", "unread", "failed", "strayed"}]
      /\ stored[a] = {} /\ "unread" \notin odd'[a] => ~(aged[a] > 0)
  BY <1>2, <1>5 DEF Because
<1>8. /\ \A b \in Accounts : SaidOf(b)' = SaidOf(b) /\ AgedOf(b)' = AgedOf(b) /\ Source(b)' = Source(b)
                            /\ Paging(b)' = Paging(b) /\ InReach(b)' = InReach(b)
      /\ Asked' = Asked /\ Asking' = Asking
  BY <1>2 DEF SaidOf, AgedOf, Source, Said, Paging, Asked, InReach, Asking, history_id
<1>9. SchwabTypes'
  BY <1>1, <1>2, <1>6, <1>7 DEF SchwabTypes, IsInjective
<1>10. SyncStage'
  <2>1. \A answer, b : history_id(answer, b)' = history_id(answer, b)
    BY DEF history_id
  <2>2. sync.at # "idle" => \A b \in Accounts : b \in ToSet(sync.answer.accounts) \cap Brokerage =>
           (history_id(sync.answer, b) # b => "strayed" \in odd'[b])
    BY <1>1, <1>7 DEF SyncStage
  <2>3. sync.at # "idle" => \A b \in ToSet(sync.answer.accounts) \cap Brokerage :
                                history_id(sync.answer, b) # b => "strayed" \in odd'[b]
    BY <2>2 DEF Accounts
  <2>4. /\ sync.at = "idle" => sync = NoSync
        /\ sync.at # "idle" => sync.answer \in Answers
        /\ sync.at = "page" => sync.turn \in 1 .. Len(sync.answer.accounts)
        /\ sync.at = "page" => sync.read \in Seq(IF Asked \in Bank THEN Texts ELSE Rows)
    BY <1>1 DEF SyncStage
  <2> QED BY <1>2, <1>8, <2>1, <2>3, <2>4 DEF SyncStage, ToSet
<1>11. Apart'
  BY <1>1, <1>2, <1>8 DEF Apart
<1>12. InOrder'
  <2>1. sync.at = "page" => Asking \in Accounts
    BY AskedIs
  <2>2. sync.at = "page" => InReach(Asking)' = InReach(Asking)
    BY <1>2, <1>8 DEF InReach
  <2> QED BY <1>1, <1>2, <1>8, <2>1, <2>2 DEF InOrder, ToSet, Last, IsInjective
<1>13. ByPages'
  <2>1. sync.at = "page" => Asked \in Accounts
    BY AskedIs
  <2>2. sync.at = "page" => InReach(Asked)' = InReach(Asked) /\ SaidOf(Asked)' = SaidOf(Asked)
    BY <1>2, <1>8 DEF InReach, SaidOf, Said
  <2> QED BY <1>1, <1>2, <1>7, <1>8, <2>1, <2>2 DEF ByPages
<1>14. ASSUME NEW b \in Accounts, b # a PROVE AccountInv(b)'
  <2>1. AccountInv(b)
    BY <1>1 DEF AccountInv
  <2> QED BY <1>2, <1>6, <1>7, <1>14, <2>1, Elsewhere
<1>15. (Clean(a)' => Clean(a) /\ "unread" \notin odd'[a]) /\ a \notin Bank
  BY <1>2, <1>7, SchwabAssumption DEF Clean
<1>16. \A names : AgedIn(a, names)' = AgedIn(a, names)
  BY <1>8 DEF AgedIn, NameOf
<1>17. StoredWell(a)'
  <2>1. ASSUME Clean(a)' PROVE AgedIn(a, stored'[a])
    <3>1. CASE stored[a] # {}
      <4>1. AgedIn(a, stored[a])
        BY <1>1, <1>15, <2>1, <3>1 DEF StoredWell
      <4> QED BY <1>6, <4>1 DEF AgedIn
    <3>2. CASE stored[a] = {}
      <4>1. aged[a] = 0
        BY <1>3, <1>7, <1>15, <2>1, <3>2
      <4>2. AgedOf(a) = {}
        BY <1>3, <4>1 DEF AgedOf
      <4> QED BY <4>2 DEF AgedIn
    <3> QED BY <3>1, <3>2
  <2>2. \A name \in stored'[a] \cup sync.found[a] : name[1] \in IF a \in Bank THEN {"banking"} ELSE {"history", "export"}
    BY <1>1, <1>4, <1>6, <1>15 DEF StoredWell
  <2>3. AgedIn(a, stored[a])' = AgedIn(a, stored'[a])
    BY <1>8 DEF AgedIn, NameOf
  <2> QED BY <1>2, <2>1, <2>2, <2>3 DEF StoredWell
<1>18. Real(a)'
  <2>1. \A source : RowNames(source, SaidOf(a))' = RowNames(source, SaidOf(a))
    BY <1>8 DEF RowNames
  <2>2. odd'[a] \cap {"late", "shifted", "strayed"} = {} =>
           stored'[a] \cup sync.found[a]
             \subseteq UNION {RowNames(source, SaidOf(a)) : source \in {"history", "banking", "export"}}
    BY <1>1, <1>6, <1>7 DEF Real
  <2> QED BY <1>2, <2>1, <2>2 DEF Real
<1>19. FoundWell(a)'
  <2>1. RowNames(Source(a), sync.owed[a])' = RowNames(Source(a), sync.owed[a])
    BY <1>2, <1>8 DEF RowNames
  <2>2. AgedIn(a, stored[a] \cup sync.found[a]) => AgedIn(a, stored'[a] \cup sync.found[a])
    BY <1>6 DEF AgedIn
  <2>3. ~Paging(a) /\ Clean(a)' =>
          /\ sync.found[a] # {} => AgedIn(a, stored'[a] \cup sync.found[a])
          /\ sync.at # "idle" /\ "failed" \notin odd'[a] =>
               RowNames(Source(a), sync.owed[a]) \subseteq stored'[a] \cup sync.found[a]
    BY <1>1, <1>6, <1>7, <1>15, <2>2 DEF FoundWell
  <2>4. AgedIn(a, stored[a] \cup sync.found[a])' = AgedIn(a, stored'[a] \cup sync.found[a])
    BY <1>2, <1>8 DEF AgedIn, NameOf
  <2> QED BY <1>2, <1>8, <2>1, <2>3, <2>4 DEF FoundWell
<1>20. ReadWell(a)'
  <2>1. \A i : Had(a, i)' = Had(a, i)
    BY <1>2, <1>8 DEF Had, Got, Ahead, Last, ToSet
  <2>2. sync.frame = "Last6Months" /\ Paging(a) => stored'[a] # {} \/ "unread" \in odd'[a] \/ aged[a] = 0
    BY <1>1, <1>6, <1>7 DEF ReadWell
  <2>3. Paging(a) =>
          /\ Clean(a)' => \A i \in AgedOf(a) : Had(a, i)
          /\ Clean(a)' /\ "failed" \notin odd'[a] =>
                \E row \in [DOMAIN sync.owed[a] -> Rows] :
                    /\ IsInjective(row)
                    /\ \A k \in DOMAIN sync.owed[a] : \E i \in DOMAIN rows[a] :
                          rows[a][i] = row[k] /\ SaidOf(a)[i] = sync.owed[a][k] /\ Had(a, i)
    BY <1>1, <1>7, <1>15 DEF ReadWell
  <2> QED BY <1>2, <1>8, <2>1, <2>2, <2>3 DEF ReadWell, IsInjective
<1>21. \A b \in Accounts : (StoredWell(b) /\ Real(b) /\ FoundWell(b) /\ ReadWell(b))'
  BY <1>14, <1>17, <1>18, <1>19, <1>20 DEF AccountInv
<1> QED BY <1>9, <1>10, <1>11, <1>12, <1>13, <1>21 DEF SchwabInv

(***************************************************************************)
(* From one account to the next.                                           *)
(***************************************************************************)
Settled(s, b) ==
    /\ \A name \in s.found[b] : name[1] \in IF b \in Bank THEN {"banking"} ELSE {"history", "export"}
    /\ odd'[b] \cap {"late", "shifted", "strayed"} = {} =>
          s.found[b] \subseteq UNION {RowNames(source, SaidOf(b)) : source \in {"history", "banking", "export"}}
    /\ Clean(b)' => /\ s.found[b] # {} => AgedIn(b, stored[b] \cup s.found[b])
                    /\ "failed" \notin odd'[b] => RowNames(Source(b), s.owed[b]) \subseteq stored[b] \cup s.found[b]

\* It is the turn of the next account, if there is one.
LEMMA TurnIs ==
  ASSUME SchwabInv, NEW s \in Sync, s.answer \in Answers, NEW turn \in Nat \ {0}, sync' = Turn(s, turn)
  PROVE  /\ sync' \in Sync /\ sync'.answer = s.answer /\ sync'.found = s.found /\ sync'.turn = turn
         /\ sync'.at = IF turn > Len(s.answer.accounts) THEN "save" ELSE "page"
         /\ sync'.at = "page" => /\ Asked' \in Accounts /\ turn \in 1 .. Len(s.answer.accounts)
                                 /\ sync'.page = 0 /\ sync'.read = <<>> /\ sync'.frame = TimeFrame(s.full, Asked')
                                 /\ sync'.owed[Asked'] = SaidOf(Asked')
         /\ \A b \in Accounts : ~Paging(b)' => sync'.owed[b] = s.owed[b]
<1> DEFINE list == s.answer.accounts
<1> DEFINE a == list[turn]
<1>1. list \in Seq(Accounts)
  BY SchwabAssumption
<1>2. turn > Len(list) \/ turn \in 1 .. Len(list)
  BY <1>1
<1>3. /\ s.at \in {"idle", "page", "save", "done"} /\ s.full \in BOOLEAN
      /\ s.answer \in Answers \cup {[accounts |-> <<>>]} /\ s.turn \in Nat
      /\ s.frame \in {"All", "Last6Months"} /\ s.page \in 0 .. SchwabPages /\ s.read \in Seq(Rows \cup Texts)
      /\ s.found \in [Accounts -> SUBSET Names] /\ s.owed \in [Accounts -> Seq(Texts)]
      /\ s = [at |-> s.at, full |-> s.full, answer |-> s.answer, turn |-> s.turn, frame |-> s.frame,
              page |-> s.page, read |-> s.read, found |-> s.found, owed |-> s.owed]
  BY DEF Sync
<1>4. CASE turn > Len(list)
  <2>1. sync' = [s EXCEPT !.at = "save", !.turn = turn]
    BY <1>4 DEF Turn
  <2>2. sync' = [at |-> "save", full |-> s.full, answer |-> s.answer, turn |-> turn, frame |-> s.frame,
                 page |-> s.page, read |-> s.read, found |-> s.found, owed |-> s.owed]
    BY <1>3, <2>1
  <2>3. sync' \in Sync
    BY <1>3, <2>2 DEF Sync
  <2>4. sync'.at = "save" /\ sync'.answer = s.answer /\ sync'.found = s.found /\ sync'.turn = turn /\ sync'.owed = s.owed
    BY <2>2
  <2> QED BY <1>4, <2>3, <2>4
<1>5. CASE turn \in 1 .. Len(list)
  <2>1. a \in Accounts
    <3> HIDE DEF list
    <3> QED BY <1>1, <1>5
  <2> DEFINE owed == [s.owed EXCEPT ![a] = Said(a, rows[a])]
  <2> DEFINE frame == TimeFrame(s.full, a)
  <2>2. ~(turn > Len(list))
    BY <1>1, <1>5
  <2>3. sync' = [s EXCEPT !.at = "page", !.turn = turn, !.page = 0, !.read = <<>>,
                       !.frame = frame, !.owed[a] = Said(a, rows[a])]
    <3>1. Turn(s, turn) = [s EXCEPT !.at = "page", !.turn = turn, !.page = 0, !.read = <<>>,
                       !.frame = frame, !.owed[a] = Said(a, rows[a])]
      BY <2>2 DEF Turn
    <3> QED BY <3>1
  <2> HIDE DEF frame
  <2>4. sync' = [at |-> "page", full |-> s.full, answer |-> s.answer, turn |-> turn, frame |-> frame,
                 page |-> 0, read |-> <<>>, found |-> s.found, owed |-> owed]
    <3> HIDE DEF a, list
    <3> QED BY <1>3, <2>3
  <2>5. owed \in [Accounts -> Seq(Texts)] /\ owed[a] = SaidOf(a) /\ \A b \in Accounts : b # a => owed[b] = s.owed[b]
    <3>1. SaidOf(a) \in Seq(Texts)
      BY <2>1, SchwabParts DEF SchwabInv
    <3>2. owed = [s.owed EXCEPT ![a] = SaidOf(a)]
      BY DEF SaidOf
    <3> HIDE DEF a, owed
    <3> QED BY <1>3, <2>1, <3>1, <3>2
  <2>6. frame \in {"All", "Last6Months"} /\ <<>> \in Seq(Rows \cup Texts) /\ 0 \in 0 .. SchwabPages
    BY SchwabAssumption DEF frame, TimeFrame
  <2> HIDE DEF owed
  <2>7. sync' \in Sync
    BY <1>3, <2>4, <2>5, <2>6 DEF Sync
  <2>8. /\ sync'.at = "page" /\ sync'.answer = s.answer /\ sync'.found = s.found /\ sync'.turn = turn
        /\ sync'.page = 0 /\ sync'.read = <<>> /\ sync'.frame = frame /\ sync'.owed = owed
    BY <2>4
  <2>9. Asked' = a
    BY <2>8 DEF Asked
  <2> HIDE DEF a, list
  <2>10. \A b \in Accounts : ~Paging(b)' => b # a
    BY <2>8, <2>9 DEF Paging
  <2>11. sync'.owed[Asked'] = SaidOf(Asked') /\ sync'.frame = TimeFrame(s.full, Asked') /\ Asked' \in Accounts
    BY <2>1, <2>5, <2>8, <2>9 DEF frame
  <2> QED BY <1>5, <2>2, <2>5, <2>7, <2>8, <2>10, <2>11 DEF list
<1> QED BY <1>2, <1>4, <1>5

\* Then nothing of it was read, and all of it is ahead.
LEMMA TurnKeeps ==
  ASSUME SchwabInv, NEW s \in Sync, s.answer \in Answers, NEW turn \in Nat \ {0}, sync' = Turn(s, turn),
         rows' = rows, aged' = aged, stored' = stored,
         odd' \in [Accounts -> SUBSET {"late", "shifted", "unread", "failed", "strayed"}],
         \A b \in Accounts : odd[b] \subseteq odd'[b],
         \A b \in ToSet(s.answer.accounts) \cap Brokerage : history_id(s.answer, b) # b => "strayed" \in odd'[b],
         \A b \in Accounts : Settled(s, b)
  PROVE  SchwabInv'
<1>1. SchwabTypes /\ Apart /\ \A b \in Accounts : StoredWell(b) /\ Real(b)
  BY DEF SchwabInv
<1>2. /\ sync' \in Sync /\ sync'.answer = s.answer /\ sync'.found = s.found /\ sync'.turn = turn
      /\ sync'.at = IF turn > Len(s.answer.accounts) THEN "save" ELSE "page"
      /\ sync'.at = "page" => /\ Asked' \in Accounts /\ turn \in 1 .. Len(s.answer.accounts)
                              /\ sync'.page = 0 /\ sync'.read = <<>> /\ sync'.frame = TimeFrame(s.full, Asked')
                              /\ sync'.owed[Asked'] = SaidOf(Asked')
      /\ \A b \in Accounts : ~Paging(b)' => sync'.owed[b] = s.owed[b]
  BY TurnIs
<1>3. \A b \in Accounts : SaidOf(b)' = SaidOf(b) /\ AgedOf(b)' = AgedOf(b) /\ Source(b)' = Source(b)
                          /\ (Clean(b)' => Clean(b))
  BY DEF SaidOf, AgedOf, Source, Said, Clean
<1>4. SchwabTypes'
  BY <1>1, <1>2 DEF SchwabTypes, IsInjective
<1>5. SyncStage'
  <2>1. \A b : history_id(sync.answer, b)' = history_id(s.answer, b)
    BY <1>2 DEF history_id
  <2>2. <<>> \in Seq(Texts) /\ <<>> \in Seq(Rows)
    OBVIOUS
  <2>3. sync'.at # "idle" /\ sync'.at # "done"
    BY <1>2
  <2>4. ToSet(sync.answer.accounts)' = ToSet(s.answer.accounts)
    BY <1>2 DEF ToSet
  <2>5. (\A b \in ToSet(sync.answer.accounts) \cap Brokerage :
            history_id(sync.answer, b) # b => "strayed" \in odd[b])'
    BY <2>1, <2>4
  <2>6. (sync.at = "page" => sync.turn \in 1 .. Len(sync.answer.accounts))'
    BY <1>2
  <2>7. (sync.at = "page" => sync.read \in Seq(IF Asked \in Bank THEN Texts ELSE Rows))'
    BY <1>2, <2>2
  <2>8. (sync.at # "idle" => sync.answer \in Answers)'
    BY <1>2
  <2> QED BY <2>3, <2>5, <2>6, <2>7, <2>8 DEF SyncStage
<1>6. Apart'
  BY <1>1, <1>3 DEF Apart
<1>7. InOrder'
  <2>1. sync'.at = "page" => IsInjective(sync'.read) /\ DOMAIN sync'.read = {} /\ sync'.read = <<>>
    BY <1>2 DEF IsInjective
  <2> QED BY <2>1 DEF InOrder, IsInjective
<1>8. ByPages'
  <2>1. SUFFICES ASSUME sync'.at = "page" PROVE 0 <= InReach(Asked)' /\ SubSeq(SaidOf(Asked)', 1, 0) = <<>>
                                                /\ 0 * BankPage = 0
    BY <1>2 DEF ByPages
  <2>2. Len(rows[Asked']) \in Nat /\ aged[Asked'] \in Nat /\ aged[Asked'] <= Len(rows[Asked'])
    BY <1>1, <1>2, <2>1 DEF SchwabTypes
  <2>3. InReach(Asked)' = IF sync'.frame = "All" THEN Len(rows[Asked']) ELSE Len(rows[Asked']) - aged[Asked']
    BY DEF InReach
  <2> QED BY <2>2, <2>3, SubSeqNone, SchwabAssumption
<1>9. ASSUME NEW b \in Accounts PROVE (StoredWell(b) /\ Real(b) /\ FoundWell(b) /\ ReadWell(b))'
  <2>1. Settled(s, b) /\ StoredWell(b) /\ Real(b) /\ odd[b] \subseteq odd'[b]
    BY <1>1
  <2>2. \A names : AgedIn(b, names)' = AgedIn(b, names)
    BY <1>3 DEF AgedIn, NameOf
  <2>3. \A source, texts : RowNames(source, texts)' = RowNames(source, texts)
    BY DEF RowNames
  <2>4. StoredWell(b)'
    BY <1>2, <1>3, <2>1, <2>2 DEF StoredWell, Settled
  <2>5. Real(b)'
    BY <1>2, <1>3, <2>1, <2>3 DEF Real, Settled
  <2>6. FoundWell(b)'
    <3>1. SUFFICES ASSUME ~Paging(b)', Clean(b)' PROVE FoundWell(b)'
      BY DEF FoundWell
    <3>2. sync'.owed[b] = s.owed[b] /\ sync'.found = s.found
      BY <1>2, <3>1
    <3> QED BY <1>3, <2>1, <2>2, <2>3, <3>1, <3>2 DEF FoundWell, Settled
  <2>7. ReadWell(b)'
    <3>1. SUFFICES ASSUME Paging(b)' PROVE ReadWell(b)'
      BY DEF ReadWell
    <3>2. sync'.at = "page" /\ Asked' = b
      BY <3>1 DEF Paging
    <3>3. sync'.page = 0 /\ sync'.read = <<>> /\ sync'.frame = TimeFrame(s.full, b) /\ sync'.owed[b] = SaidOf(b)
      BY <1>2, <3>2
    <3>4. sync'.frame = "Last6Months" => stored[b] # {}
      BY <3>3 DEF TimeFrame
    <3>5. \A i \in Nat \ {0} : Had(b, i)'
      <4>1. 0 * BankPage = 0
        BY SchwabAssumption
      <4> QED BY <3>3, <4>1 DEF Had, Ahead
    <3>6. /\ Len(rows[b]) \in Nat /\ DOMAIN rows[b] = 1 .. Len(rows[b]) /\ rows[b] \in Seq(Rows)
          /\ IsInjective(rows[b]) /\ DOMAIN SaidOf(b) = 1 .. Len(rows[b]) /\ aged[b] \in Nat /\ aged[b] <= Len(rows[b])
      BY <1>1, SchwabParts
    <3>7. \A i \in AgedOf(b) : Had(b, i)'
      BY <3>5, <3>6 DEF AgedOf
    <3>8. \E row \in [DOMAIN sync'.owed[b] -> Rows] :
              /\ IsInjective(row)
              /\ \A k \in DOMAIN sync'.owed[b] : \E i \in DOMAIN rows[b] :
                    rows[b][i] = row[k] /\ SaidOf(b)[i] = sync'.owed[b][k] /\ Had(b, i)'
      <4>1. rows[b] \in [DOMAIN SaidOf(b) -> Rows]
        BY <3>6
      <4>2. \A k \in DOMAIN SaidOf(b) : k \in DOMAIN rows[b] /\ Had(b, k)'
        BY <3>5, <3>6
      <4> QED BY <3>3, <3>6, <4>1, <4>2
    <3> QED BY <1>3, <3>4, <3>7, <3>8 DEF ReadWell, IsInjective
  <2> QED BY <2>4, <2>5, <2>6, <2>7
<1> QED BY <1>4, <1>5, <1>6, <1>7, <1>8, <1>9 DEF SchwabInv

\* Of the rows of an account those numbered in G are found among what was read, each at a place
\* of its own; the others are behind, or too old to be asked for.
Covers(a, X, G, g) ==
    /\ G \subseteq DOMAIN SaidOf(a) /\ g \in [G -> DOMAIN X]
    /\ \A i, j \in G : g[i] = g[j] => i = j
    /\ \A i \in G : X[g[i]] = SaidOf(a)[i]
    /\ \A i \in DOMAIN SaidOf(a) : Had(a, i) => i \in G \/ (sync.frame = "Last6Months" /\ i \in AgedOf(a))

\* When an account is read through, what was read and what is stored have all names of the
\* rows that were there when its turn came, and of those out of the last 6 months.
LEMMA ReadThrough ==
  ASSUME SchwabInv, NEW a \in Accounts, Paging(a), Clean(a), NEW X \in Seq(Texts),
         NEW G, NEW g, Covers(a, X, G, g)
  PROVE  /\ AgedIn(a, stored[a] \cup RowNames(Source(a), X))
         /\ "failed" \notin odd[a] =>
               RowNames(Source(a), sync.owed[a]) \subseteq stored[a] \cup RowNames(Source(a), X)
<1> DEFINE L == SaidOf(a)
<1> DEFINE len == Len(rows[a])
<1> DEFINE source == Source(a)
<1> DEFINE owed == sync.owed[a]
<1>1. SchwabTypes /\ Apart /\ StoredWell(a) /\ ReadWell(a)
  BY DEF SchwabInv
<1>2. /\ G \subseteq DOMAIN L /\ g \in [G -> DOMAIN X]
      /\ \A i, j \in G : g[i] = g[j] => i = j
      /\ \A i \in G : X[g[i]] = L[i]
      /\ \A i \in DOMAIN L : Had(a, i) => i \in G \/ (sync.frame = "Last6Months" /\ i \in AgedOf(a))
  BY DEF Covers
<1>3. /\ len \in Nat /\ DOMAIN rows[a] = 1 .. len /\ aged[a] \in Nat /\ aged[a] <= len /\ DOMAIN L = 1 .. len
      /\ owed \in Seq(Texts)
  BY <1>1, SchwabParts
<1>4. AgedOf(a) \subseteq 1 .. len /\ \A i \in 1 .. len : i \in AgedOf(a) <=> i > len - aged[a]
  BY <1>3 DEF AgedOf
<1>5. \A i \in AgedOf(a), j \in 1 .. len : L[i] = L[j] => j \in AgedOf(a)
  <2>1. \A i, j \in 1 .. len : i <= len - aged[a] /\ j > len - aged[a] => L[i] # L[j]
    BY <1>1, <1>3 DEF Apart
  <2>2. ASSUME NEW i \in AgedOf(a), NEW j \in 1 .. len, L[i] = L[j], j \notin AgedOf(a) PROVE FALSE
    <3>1. i \in 1 .. len /\ i > len - aged[a] /\ j <= len - aged[a]
      BY <1>3, <1>4, <2>2
    <3> HIDE DEF L, len
    <3> QED BY <2>1, <2>2, <3>1
  <2> QED BY <2>2
<1>6. sync.frame = "Last6Months" => \A i \in AgedOf(a) : NameOf(source, L, i) \in stored[a]
  <2>1. SUFFICES ASSUME sync.frame = "Last6Months", AgedOf(a) # {} PROVE AgedIn(a, stored[a])
    BY DEF AgedIn
  <2>2. aged[a] # 0
    BY <1>3, <2>1 DEF AgedOf
  <2>3. stored[a] # {}
    BY <1>1, <2>1, <2>2 DEF ReadWell, Clean
  <2> QED BY <1>1, <2>3 DEF StoredWell
<1>7. \A i \in 1 .. len : Had(a, i) => i \in G \/ (sync.frame = "Last6Months" /\ i \in AgedOf(a))
  BY <1>2, <1>3
<1>8. G \subseteq 1 .. len /\ DOMAIN X = 1 .. Len(X) /\ Len(X) \in Nat /\ DOMAIN owed = 1 .. Len(owed) /\ Len(owed) \in Nat
  BY <1>2, <1>3
<1>9. ASSUME NEW i \in AgedOf(a), NameOf(source, L, i) \notin stored[a]
      PROVE  NameOf(source, L, i) \in RowNames(source, X)
  <2> DEFINE t == L[i]
  <2>1. sync.frame # "Last6Months"
    BY <1>6, <1>9
  <2>2. \A j \in Alike(L, t) : j \in G /\ L[j] = t
    <3>1. \A j \in AgedOf(a) : Had(a, j)
      BY <1>1 DEF ReadWell
    <3>2. \A j \in Alike(L, t) : j \in 1 .. len /\ L[j] = L[i]
      BY <1>3 DEF Alike
    <3>3. \A j \in Alike(L, t) : j \in AgedOf(a)
      BY <1>5, <3>2
    <3> QED BY <1>7, <2>1, <3>1, <3>2, <3>3
  <2>3. i \in Alike(L, t)
    BY <1>3, <1>4 DEF Alike
  <2> DEFINE f == [j \in Alike(L, t) |-> g[j]]
  <2>4. f \in [Alike(L, t) -> Alike(X, t)] /\ \A j, k \in Alike(L, t) : f[j] = f[k] => j = k
    BY <1>2, <2>2 DEF Alike
  <2> HIDE DEF f, t, L, len
  <2>5. \E l \in Alike(X, t) : NameOf(source, X, l) = NameOf(source, L, i)
    BY <1>3, <1>8, <2>3, <2>4, NamesFit
  <2> QED BY <2>5, RowNamesAre DEF Alike
<1>10. ASSUME "failed" \notin odd[a], NEW k \in DOMAIN owed
       PROVE  NameOf(source, owed, k) \in stored[a] \cup RowNames(source, X)
  <2>1. PICK row \in [DOMAIN owed -> Rows] :
          /\ IsInjective(row)
          /\ \A j \in DOMAIN owed : \E i \in DOMAIN rows[a] :
                rows[a][i] = row[j] /\ L[i] = owed[j] /\ Had(a, i)
    BY <1>1, <1>10 DEF ReadWell
  <2> DEFINE t == owed[k]
  <2> DEFINE A == Alike(owed, t)
  <2> DEFINE h == [j \in A |-> CHOOSE i \in DOMAIN rows[a] : rows[a][i] = row[j] /\ L[i] = owed[j] /\ Had(a, i)]
  <2>2. A \subseteq DOMAIN owed /\ k \in A /\ \A j \in A : owed[j] = t
    BY DEF Alike
  <2>3. \A j \in A : h[j] \in DOMAIN rows[a] /\ rows[a][h[j]] = row[j] /\ L[h[j]] = t /\ Had(a, h[j])
    <3> HIDE DEF L
    <3> QED BY <2>1, <2>2
  <2>4. \A i, j \in A : row[i] = row[j] => i = j
    BY <2>1, <2>2 DEF IsInjective
  <2>5. h \in [A -> Alike(L, t)] /\ \A i, j \in A : h[i] = h[j] => i = j
    <3>1. \A j \in A : h[j] \in Alike(L, t)
      BY <1>3, <2>3 DEF Alike
    <3>2. h = [j \in A |-> h[j]]
      OBVIOUS
    <3> HIDE DEF h, A, t
    <3> QED BY <2>3, <2>4, <3>1, <3>2
  <2>6. \A j \in A : h[j] \in 1 .. len
    BY <1>3, <2>3
  <2> HIDE DEF h, L, len, t, owed
  <2>7. CASE \A j \in A : h[j] \in G
    <3> DEFINE f == [j \in A |-> g[h[j]]]
    <3>1. f \in [A -> Alike(X, t)] /\ \A i, j \in A : f[i] = f[j] => i = j
      <4>1. \A j \in A : f[j] \in DOMAIN X /\ X[f[j]] = t
        BY <1>2, <2>3, <2>7 DEF L
      <4>2. \A i, j \in A : f[i] = f[j] => i = j
        BY <1>2, <2>5, <2>7
      <4> QED BY <4>1, <4>2 DEF Alike
    <3> HIDE DEF f
    <3>2. \E l \in Alike(X, t) : NameOf(source, X, l) = NameOf(source, owed, k)
      BY <1>8, <2>2, <3>1, NamesFit
    <3> QED BY <3>2, RowNamesAre DEF Alike
  <2>8. CASE ~\A j \in A : h[j] \in G
    <3>1. PICK j \in A : h[j] \notin G
      BY <2>8
    <3>2. sync.frame = "Last6Months" /\ h[j] \in AgedOf(a) /\ L[h[j]] = t
      BY <1>7, <2>3, <2>6, <3>1
    <3>3. PICK l \in Alike(L, t) : NameOf(source, L, l) = NameOf(source, owed, k)
      <4>1. \E l \in Alike(L, t) : NameOf(source, L, l) = NameOf(source, owed, k)
        BY <1>3, <1>8, <2>2, <2>5, NamesFit
      <4> QED BY <4>1
    <3>4. l \in AgedOf(a)
      BY <1>3, <1>5, <3>2 DEF Alike
    <3> QED BY <1>6, <3>2, <3>3, <3>4
  <2> QED BY <2>7, <2>8
<1>11. AgedIn(a, stored[a] \cup RowNames(source, X))
  BY <1>9 DEF AgedIn
<1>12. "failed" \notin odd[a] => RowNames(source, owed) \subseteq stored[a] \cup RowNames(source, X)
  BY <1>10, RowNamesAre
<1> QED BY <1>11, <1>12

(***************************************************************************)
(* The ends of a sync.                                                     *)
(***************************************************************************)

\* A sync that ends or fails leaves what is stored.
LEMMA ReturnKeeps ==
  ASSUME SchwabInv, sync' = NoSync, rows' = rows, aged' = aged, stored' = stored,
         odd' \in [Accounts -> SUBSET {"late", "shifted", "unread", "failed", "strayed"}],
         \A a \in Accounts : odd[a] \ {"failed"} \subseteq odd'[a]
  PROVE  SchwabInv'
<1>1. SchwabTypes /\ Apart /\ \A a \in Accounts : StoredWell(a) /\ Real(a)
  BY DEF SchwabInv
<1>2. NoSync \in Sync /\ NoSync.at = "idle" /\ \A a \in Accounts : NoSync.found[a] = {}
  <2>1. <<>> \in Seq(Texts) /\ <<>> \in Seq(Rows \cup Texts) /\ 0 \in 0 .. SchwabPages
    BY SchwabAssumption
  <2> QED BY <2>1 DEF NoSync, Sync
<1>3. SchwabTypes'
  BY <1>1, <1>2 DEF SchwabTypes, IsInjective
<1>4. SyncStage' /\ InOrder' /\ ByPages'
  <2>1. sync'.at = "idle"
    BY <1>2
  <2>2. NoSync' = NoSync
    BY DEF NoSync
  <2> QED BY <2>1, <2>2 DEF SyncStage, InOrder, ByPages
<1>5. Apart'
  BY <1>1, ZenonT(60) DEF Apart, SaidOf, Said
<1>6. ASSUME NEW a \in Accounts PROVE (StoredWell(a) /\ Real(a) /\ FoundWell(a) /\ ReadWell(a))'
  <2>1. /\ SaidOf(a)' = SaidOf(a) /\ AgedOf(a)' = AgedOf(a) /\ Source(a)' = Source(a)
        /\ (Clean(a)' => Clean(a)) /\ ~Paging(a)' /\ sync'.found[a] = {}
    BY <1>2 DEF SaidOf, AgedOf, Source, Said, Clean, Paging
  <2>2. \A names : AgedIn(a, names)' = AgedIn(a, names)
    BY <2>1 DEF AgedIn, NameOf
  <2>3. \A source : RowNames(source, SaidOf(a))' = RowNames(source, SaidOf(a))
    BY <2>1 DEF RowNames
  <2>4. StoredWell(a)'
    BY <1>1, <2>1, <2>2 DEF StoredWell
  <2>5. Real(a)'
    BY <1>1, <2>1, <2>3 DEF Real
  <2>6. FoundWell(a)' /\ ReadWell(a)'
    BY <1>2, <2>1 DEF FoundWell, ReadWell
  <2> QED BY <2>4, <2>5, <2>6
<1> QED BY <1>3, <1>4, <1>5, <1>6 DEF SchwabInv

\* What was found is stored.
LEMMA SaveKeeps ==
  ASSUME SchwabInv, SchwabSave
  PROVE  SchwabInv'
<1>1. SchwabTypes /\ SyncStage /\ Apart /\ \A a \in Accounts : StoredWell(a) /\ Real(a) /\ FoundWell(a)
  BY DEF SchwabInv
<1>2. /\ sync.at = "save" /\ rows' = rows /\ aged' = aged /\ odd' = odd
      /\ stored' = [a \in Accounts |-> stored[a] \cup sync.found[a]] /\ sync' = [sync EXCEPT !.at = "done"]
  BY DEF SchwabSave
<1>3. /\ sync' \in Sync /\ sync'.at = "done" /\ sync'.found = sync.found /\ sync'.owed = sync.owed
      /\ sync'.answer = sync.answer
  <2>1. sync \in Sync
    BY <1>1 DEF SchwabTypes
  <2> QED BY <1>2, <2>1 DEF Sync
<1>4. \A a \in Accounts : stored'[a] = stored[a] \cup sync.found[a] /\ stored[a] \subseteq Names /\ sync.found[a] \subseteq Names
  BY <1>1, <1>2, SchwabParts
<1>5. SchwabTypes'
  BY <1>1, <1>2, <1>3, <1>4 DEF SchwabTypes, IsInjective
<1>6. SyncStage'
  <2>1. \A b : history_id(sync.answer, b)' = history_id(sync.answer, b)
    BY <1>3 DEF history_id
  <2>2. ToSet(sync.answer.accounts)' = ToSet(sync.answer.accounts)
    BY <1>3 DEF ToSet
  <2>3. /\ sync.answer \in Answers
        /\ \A b \in ToSet(sync.answer.accounts) \cap Brokerage : history_id(sync.answer, b) # b => "strayed" \in odd[b]
    BY <1>1, <1>2 DEF SyncStage
  <2> QED BY <1>2, <1>3, <1>4, <2>1, <2>2, <2>3 DEF SyncStage
<1>7. InOrder' /\ ByPages'
  BY <1>3 DEF InOrder, ByPages
<1>8. Apart'
  BY <1>1, <1>2, ZenonT(60) DEF Apart, SaidOf, Said
<1>9. ASSUME NEW a \in Accounts PROVE (StoredWell(a) /\ Real(a) /\ FoundWell(a) /\ ReadWell(a))'
  <2>1. /\ SaidOf(a)' = SaidOf(a) /\ AgedOf(a)' = AgedOf(a) /\ Source(a)' = Source(a)
        /\ Clean(a)' = Clean(a) /\ ~Paging(a)' /\ ~Paging(a) /\ sync'.found[a] = sync.found[a]
    BY <1>2, <1>3 DEF SaidOf, AgedOf, Source, Said, Clean, Paging
  <2>2. \A names : AgedIn(a, names)' = AgedIn(a, names)
    BY <2>1 DEF AgedIn, NameOf
  <2>3. \A source : RowNames(source, SaidOf(a))' = RowNames(source, SaidOf(a))
    BY <2>1 DEF RowNames
  <2>4. AgedIn(a, stored[a])' = AgedIn(a, stored[a] \cup sync.found[a])
        /\ AgedIn(a, stored[a] \cup sync.found[a])' = AgedIn(a, stored[a] \cup sync.found[a])
    BY <1>3, <1>4, <2>1 DEF AgedIn, NameOf
  <2>5. AgedIn(a, stored[a]) => AgedIn(a, stored[a] \cup sync.found[a])
    BY DEF AgedIn
  <2>6. StoredWell(a)'
    <3>1. Clean(a) /\ stored'[a] # {} => AgedIn(a, stored[a] \cup sync.found[a])
      BY <1>1, <1>4, <2>1, <2>5 DEF StoredWell, FoundWell
    <3>2. \A name \in stored'[a] \cup sync.found[a] : name[1] \in IF a \in Bank THEN {"banking"} ELSE {"history", "export"}
      BY <1>1, <1>4 DEF StoredWell
    <3> QED BY <2>1, <2>4, <3>1, <3>2 DEF StoredWell
  <2>7. Real(a)'
    BY <1>1, <1>2, <1>4, <2>1, <2>3 DEF Real
  <2>8. FoundWell(a)'
    <3>1. RowNames(Source(a), sync.owed[a])' = RowNames(Source(a), sync.owed[a])
      BY <1>3, <2>1 DEF RowNames
    <3> QED BY <1>1, <1>2, <1>3, <1>4, <2>1, <2>4, <3>1 DEF FoundWell
  <2>9. ReadWell(a)'
    BY <2>1 DEF ReadWell
  <2> QED BY <2>6, <2>7, <2>8, <2>9
<1> QED BY <1>5, <1>6, <1>7, <1>8, <1>9 DEF SchwabInv

\* A sync begins.
LEMMA SchwabStartKeeps ==
  ASSUME SchwabInv, NEW full \in BOOLEAN, NEW answer \in Answers, SchwabStart(full, answer)
  PROVE  SchwabInv'
<1> DEFINE s == [NoSync EXCEPT !.full = full, !.answer = answer]
<1> DEFINE astray == {a \in ToSet(answer.accounts) \cap Brokerage : history_id(answer, a) # a}
<1>1. SchwabTypes /\ \A a \in Accounts : Real(a)
  BY DEF SchwabInv
<1>2. /\ sync' = Turn(s, 1) /\ rows' = rows /\ aged' = aged /\ stored' = stored
      /\ odd' = Because("strayed", astray)
  BY DEF SchwabStart
<1>3. /\ s \in Sync /\ s.answer = answer /\ s.found = [a \in Accounts |-> {}]
      /\ s.owed = [a \in Accounts |-> <<>>]
  <2>1. <<>> \in Seq(Texts) /\ <<>> \in Seq(Rows \cup Texts) /\ 0 \in 0 .. SchwabPages
    BY SchwabAssumption
  <2> QED BY <2>1 DEF NoSync, Sync
<1>4. odd \in [Accounts -> SUBSET {"late", "shifted", "unread", "failed", "strayed"}]
  BY <1>1 DEF SchwabTypes
<1> HIDE DEF astray
<1>5. /\ odd' \in [Accounts -> SUBSET {"late", "shifted", "unread", "failed", "strayed"}]
      /\ \A b \in Accounts : odd[b] \subseteq odd'[b] /\ (b \in astray => "strayed" \in odd'[b])
  BY <1>2, <1>4 DEF Because
<1>6. \A b \in ToSet(s.answer.accounts) \cap Brokerage : history_id(s.answer, b) # b => "strayed" \in odd'[b]
  BY <1>3, <1>5 DEF astray, Accounts
<1> HIDE DEF s
<1>7. \A b \in Accounts : Settled(s, b)
  <2>1. \A source : RowNames(source, <<>>) = {}
    BY DEF RowNames
  <2> QED BY <1>3, <2>1 DEF Settled
<1>8. 1 \in Nat \ {0}
  OBVIOUS
<1> DEFINE turn == 1
<1>9. s \in Sync /\ s.answer \in Answers /\ turn \in Nat \ {0} /\ sync' = Turn(s, turn)
  BY <1>2, <1>3, <1>8
<1>10. \A b \in Accounts : odd[b] \subseteq odd'[b]
  BY <1>5
<1> HIDE DEF turn
<1> QED BY <1>2, <1>5, <1>6, <1>7, <1>9, <1>10, TurnKeeps

\* Once an account is read through, its names are found and it is another's turn.
LEMMA ThroughKeeps ==
  ASSUME SchwabInv, sync.at = "page", NEW names \in SUBSET Names,
         sync' = Turn([sync EXCEPT !.found[Asked] = names], sync.turn + 1),
         rows' = rows, aged' = aged, stored' = stored,
         odd' \in [Accounts -> SUBSET {"late", "shifted", "unread", "failed", "strayed"}],
         \A b \in Accounts : odd[b] \subseteq odd'[b],
         \A name \in names : name[1] \in IF Asked \in Bank THEN {"banking"} ELSE {"history", "export"},
         odd'[Asked] \cap {"late", "shifted", "strayed"} = {} =>
            names \subseteq UNION {RowNames(source, SaidOf(Asked)) : source \in {"history", "banking", "export"}},
         odd'[Asked] \cap {"late", "unread", "strayed"} = {} =>
            /\ names # {} => AgedIn(Asked, stored[Asked] \cup names)
            /\ "failed" \notin odd'[Asked] => RowNames(Source(Asked), sync.owed[Asked]) \subseteq stored[Asked] \cup names
  PROVE  SchwabInv'
<1> DEFINE a == Asked
<1> DEFINE s == [sync EXCEPT !.found[a] = names]
<1> DEFINE turn == sync.turn + 1
<1>1. SchwabTypes /\ SyncStage /\ \A b \in Accounts : StoredWell(b) /\ Real(b) /\ FoundWell(b)
  BY DEF SchwabInv
<1>2. a \in Accounts /\ sync.answer \in Answers /\ sync.turn \in 1 .. Len(sync.answer.accounts)
  BY AskedIs
<1>3. sync \in Sync
  BY <1>1 DEF SchwabTypes
<1>4. turn \in Nat \ {0}
  BY <1>3 DEF Sync
<1>5. sync.found \in [Accounts -> SUBSET Names]
  BY <1>3 DEF Sync
<1> DEFINE found == [sync.found EXCEPT ![a] = names]
<1>6. found \in [Accounts -> SUBSET Names] /\ found[a] = names /\ \A b \in Accounts : b # a => found[b] = sync.found[b]
  <2> HIDE DEF a
  <2> QED BY <1>2, <1>5
<1>7. sync' = Turn(s, turn)
  OBVIOUS
<1>8. s = [sync EXCEPT !.found = found]
  <2> HIDE DEF a
  <2> QED BY <1>3 DEF Sync
<1> HIDE DEF found, turn
<1>9. s \in Sync /\ s.answer = sync.answer /\ s.found = found /\ s.owed = sync.owed
  <2> HIDE DEF s
  <2> QED BY <1>3, <1>6, <1>8 DEF Sync
<1> HIDE DEF s
<1>10. \A b \in ToSet(s.answer.accounts) \cap Brokerage : history_id(s.answer, b) # b => "strayed" \in odd'[b]
  <2>1. \A b \in ToSet(sync.answer.accounts) \cap Brokerage : history_id(sync.answer, b) # b => "strayed" \in odd[b]
    BY <1>1 DEF SyncStage
  <2> QED BY <1>9, <2>1 DEF Accounts
<1>11. ASSUME NEW b \in Accounts PROVE Settled(s, b)
  <2>1. CASE b = a
    <3>1. s.found[b] = names /\ s.owed[b] = sync.owed[Asked] /\ b = Asked
      BY <1>6, <1>9, <2>1
    <3> HIDE DEF a
    <3> QED BY <3>1 DEF Settled, Clean
  <2>2. CASE b # a
    <3>1. s.found[b] = sync.found[b] /\ s.owed[b] = sync.owed[b] /\ ~Paging(b)
      BY <1>6, <1>9, <2>2 DEF Paging
    <3>2. StoredWell(b) /\ Real(b) /\ FoundWell(b) /\ odd[b] \subseteq odd'[b]
      BY <1>1
    <3>3. Clean(b)' => Clean(b) /\ ("failed" \notin odd'[b] => "failed" \notin odd[b])
      BY <3>2 DEF Clean
    <3> QED BY <3>1, <3>2, <3>3 DEF Settled, StoredWell, Real, FoundWell
  <2> QED BY <2>1, <2>2
<1>12. s.answer \in Answers
  BY <1>2, <1>9
<1> QED BY <1>4, <1>7, <1>9, <1>10, <1>11, <1>12, TurnKeeps

\* Before it is read through, reading touches nothing else.
LEMMA PageGoesOn ==
  ASSUME SchwabInv, sync.at = "page", NEW a \in Accounts, a = Asked, NEW frame \in {"All", "Last6Months"}, NEW page \in 0 .. SchwabPages, NEW read,
         read \in Seq(IF Asked \in Bank THEN Texts ELSE Rows),
         sync' = [sync EXCEPT !.frame = frame, !.page = page, !.read = read],
         rows' = rows, aged' = aged, stored' = stored,
         odd' \in [Accounts -> SUBSET {"late", "shifted", "unread", "failed", "strayed"}],
         \A b \in Accounts : odd[b] \subseteq odd'[b],
         InOrder', ByPages', ReadWell(a)'
  PROVE  SchwabInv'
<1>1. SchwabTypes /\ SyncStage /\ Apart /\ \A b \in Accounts : StoredWell(b) /\ Real(b) /\ FoundWell(b)
  BY DEF SchwabInv
<1>2. sync \in Sync
  BY <1>1 DEF SchwabTypes
<1>3. read \in Seq(Rows \cup Texts)
  <2>1. read \in Seq(Texts) \/ read \in Seq(Rows)
    OBVIOUS
  <2>2. Texts \subseteq Rows \cup Texts /\ Rows \subseteq Rows \cup Texts
    OBVIOUS
  <2> HIDE DEF Texts
  <2> QED BY <2>1, <2>2, SeqMonotonic
<1>4. /\ sync' \in Sync /\ sync'.at = "page" /\ sync'.turn = sync.turn /\ sync'.answer = sync.answer
      /\ sync'.found = sync.found /\ sync'.owed = sync.owed /\ sync'.read = read
  BY <1>2, <1>3 DEF Sync
<1>5. Asked' = Asked
  BY <1>4 DEF Asked
<1>6. SchwabTypes'
  BY <1>1, <1>4 DEF SchwabTypes, IsInjective
<1>7. SyncStage'
  <2>1. \A b : history_id(sync.answer, b)' = history_id(sync.answer, b)
    BY <1>4 DEF history_id
  <2>2. ToSet(sync.answer.accounts)' = ToSet(sync.answer.accounts)
    BY <1>4 DEF ToSet
  <2>3. \A b \in ToSet(sync.answer.accounts) \cap Brokerage : history_id(sync.answer, b) # b => "strayed" \in odd'[b]
    BY <1>1 DEF SyncStage, Accounts
  <2>4. sync.answer \in Answers /\ sync.turn \in 1 .. Len(sync.answer.accounts)
    BY <1>1 DEF SyncStage
  <2> QED BY <1>4, <1>5, <2>1, <2>2, <2>3, <2>4 DEF SyncStage
<1>8. Apart'
  <2>1. \A b \in Accounts : SaidOf(b)' = SaidOf(b)
    BY DEF SaidOf, Said
  <2> QED BY <1>1, <2>1 DEF Apart
<1>9. ASSUME NEW b \in Accounts PROVE (StoredWell(b) /\ Real(b) /\ FoundWell(b) /\ ReadWell(b))'
  <2>1. /\ SaidOf(b)' = SaidOf(b) /\ AgedOf(b)' = AgedOf(b) /\ Source(b)' = Source(b)
        /\ (Clean(b)' => Clean(b)) /\ Paging(b)' = Paging(b) /\ odd[b] \subseteq odd'[b]
    BY <1>4, <1>5 DEF SaidOf, AgedOf, Source, Said, Clean, Paging
  <2>2. \A names : AgedIn(b, names)' = AgedIn(b, names)
    BY <2>1 DEF AgedIn, NameOf
  <2>3. \A source : RowNames(source, SaidOf(b))' = RowNames(source, SaidOf(b))
    BY <2>1 DEF RowNames
  <2>4. StoredWell(b)'
    BY <1>1, <1>4, <2>1, <2>2 DEF StoredWell
  <2>5. Real(b)'
    BY <1>1, <1>4, <2>1, <2>3 DEF Real
  <2>6. FoundWell(b)'
    <3>1. RowNames(Source(b), sync.owed[b])' = RowNames(Source(b), sync.owed[b])
      BY <1>4, <2>1 DEF RowNames
    <3> QED BY <1>1, <1>4, <2>1, <2>2, <3>1 DEF FoundWell
  <2>7. ReadWell(b)'
    <3>1. CASE b = Asked
      BY <3>1
    <3>2. CASE b # Asked
      <4>1. ~Paging(b)'
        BY <1>5, <3>2 DEF Paging
      <4> QED BY <4>1 DEF ReadWell
    <3> QED BY <3>1, <3>2
  <2> QED BY <2>4, <2>5, <2>6, <2>7
<1> QED BY <1>6, <1>7, <1>8, <1>9 DEF SchwabInv

\* A failed request: the bank is asked for less, or for nothing more; for a brokerage the sync ends.
LEMMA PageFailsKeeps ==
  ASSUME SchwabInv, PageFails
  PROVE  SchwabInv'
<1>1. sync.at = "page" /\ rows' = rows /\ aged' = aged /\ stored' = stored
  BY DEF PageFails
<1>2. PICK a \in Accounts : a = Asked
  BY <1>1, AskedIs
<1> DEFINE reason == IF sync.frame = "All" /\ aged[a] > 0 THEN "unread" ELSE "failed"
<1>3. SchwabTypes /\ SyncStage
  BY DEF SchwabInv
<1>4. a \in Accounts /\ (a \in Brokerage => a \notin Bank)
  BY <1>2, <1>1, AskedIs
<1>5. odd \in [Accounts -> SUBSET {"late", "shifted", "unread", "failed", "strayed"}]
  BY <1>3 DEF SchwabTypes
<1>6. CASE a \in Brokerage
  <2>1. sync' = NoSync /\ odd' = odd
    BY <1>2, <1>4, <1>6 DEF PageFails
  <2>2. /\ odd' \in [Accounts -> SUBSET {"late", "shifted", "unread", "failed", "strayed"}]
        /\ \A b \in Accounts : odd[b] \ {"failed"} \subseteq odd'[b]
    BY <1>5, <2>1
  <2> QED BY <1>1, <2>1, <2>2, ReturnKeeps
<1>7. CASE a \in Bank
  <2>1. odd' = Because(reason, {a})
    BY <1>2, <1>7 DEF PageFails
  <2>2. reason \in {"unread", "failed"}
    OBVIOUS
  <2>3. /\ odd' \in [Accounts -> SUBSET {"late", "shifted", "unread", "failed", "strayed"}]
        /\ \A b \in Accounts : odd[b] \subseteq odd'[b]
        /\ reason \in odd'[a]
    <3> HIDE DEF reason
    <3> QED BY <1>4, <1>5, <2>1, <2>2 DEF Because
  <2>4. a \notin Brokerage
    BY <1>4, <1>7
  <2>5. CASE sync.frame = "All"
    <3>1. sync' = [sync EXCEPT !.frame = "Last6Months", !.page = 0, !.read = <<>>]
      BY <1>2, <2>4, <2>5 DEF PageFails, BankRows
    <3>2. sync \in Sync /\ 0 \in 0 .. SchwabPages
      BY <1>3, SchwabAssumption DEF SchwabTypes
    <3>3. /\ sync'.at = "page" /\ sync'.turn = sync.turn /\ sync'.answer = sync.answer /\ sync'.owed = sync.owed
          /\ sync'.frame = "Last6Months" /\ sync'.page = 0 /\ sync'.read = <<>>
      BY <1>1, <3>1, <3>2 DEF Sync
    <3>4. Asked' = a /\ Paging(a)' /\ 0 * BankPage = 0
      BY <1>2, <3>3, SchwabAssumption DEF Asked, Paging
    <3>5. Len(rows[a]) \in Nat /\ aged[a] \in Nat /\ aged[a] <= Len(rows[a])
      BY <1>3, <1>4, SchwabParts
    <3>6. InOrder'
      BY <2>4, <3>4 DEF InOrder
    <3>7. ByPages'
      <4>1. InReach(Asked)' = Len(rows[a]) - aged[a]
        BY <1>1, <3>3, <3>4 DEF InReach
      <4>2. 0 <= Len(rows[a]) - aged[a]
        BY <3>5
      <4>3. SubSeq(SaidOf(Asked)', 1, 0) = <<>>
        BY SubSeqNone
      <4> QED BY <3>3, <3>4, <4>1, <4>2, <4>3 DEF ByPages
    <3>8. ReadWell(a)'
      <4>1. reason = IF aged[a] > 0 THEN "unread" ELSE "failed"
        BY <2>5
      <4> HIDE DEF reason
      <4>2. "unread" \in odd'[a] \/ ("failed" \in odd'[a] /\ aged[a] = 0)
        BY <2>3, <3>5, <4>1
      <4>3. \A i \in AgedOf(a)' : Had(a, i)'
        <5>1. \A i \in Nat \ {0} : Had(a, i)'
          BY <1>7, <3>3, <3>4 DEF Had, Ahead
        <5>2. AgedOf(a)' = Len(rows[a]) - aged[a] + 1 .. Len(rows[a])
          BY <1>1 DEF AgedOf
        <5>3. AgedOf(a)' \subseteq Nat \ {0}
          BY <3>5, <5>2
        <5> QED BY <5>1, <5>3
      <4>4. Clean(a)' => "unread" \notin odd'[a]
        BY DEF Clean
      <4>5. aged'[a] = aged[a]
        BY <1>1
      <4> QED BY <4>2, <4>3, <4>4, <4>5 DEF ReadWell
    <3> DEFINE frame == "Last6Months"
    <3> DEFINE page == 0
    <3> DEFINE read == <<>>
    <3>9. /\ frame \in {"All", "Last6Months"} /\ page \in 0 .. SchwabPages
          /\ read \in Seq(IF Asked \in Bank THEN Texts ELSE Rows)
          /\ sync' = [sync EXCEPT !.frame = frame, !.page = page, !.read = read]
          /\ a = Asked
      <4>1. <<>> \in Seq(Texts) /\ <<>> \in Seq(Rows)
        OBVIOUS
      <4> QED BY <1>2, <3>1, <3>2, <4>1
    <3> HIDE DEF frame, page, read
    <3> QED BY <1>1, <1>4, <2>3, <3>6, <3>7, <3>8, <3>9, PageGoesOn
  <2>6. CASE sync.frame # "All"
    <3> DEFINE names == RowNames("banking", <<>>)
    <3>1. names = {}
      BY DEF RowNames
    <3>2. sync' = Turn([sync EXCEPT !.found[Asked] = names], sync.turn + 1)
      BY <1>2, <1>7, <2>4, <2>6 DEF PageFails, Through, BankRows, parse_banking_transactions_rows
    <3>3. "failed" \in odd'[Asked]
      BY <1>2, <2>3, <2>6
    <3> HIDE DEF names
    <3>4. /\ names \in SUBSET Names
          /\ \A name \in names : name[1] \in IF Asked \in Bank THEN {"banking"} ELSE {"history", "export"}
          /\ odd'[Asked] \cap {"late", "shifted", "strayed"} = {} =>
               names \subseteq UNION {RowNames(source, SaidOf(Asked)) : source \in {"history", "banking", "export"}}
          /\ odd'[Asked] \cap {"late", "unread", "strayed"} = {} =>
               /\ names # {} => AgedIn(Asked, stored[Asked] \cup names)
               /\ "failed" \notin odd'[Asked] => RowNames(Source(Asked), sync.owed[Asked]) \subseteq stored[Asked] \cup names
      BY <3>1, <3>3
    <3>5. sync.at = "page" /\ rows' = rows /\ aged' = aged /\ stored' = stored
      BY <1>1
    <3> QED BY <2>3, <3>2, <3>4, <3>5, ThroughKeeps
  <2> QED BY <2>5, <2>6
<1> QED BY <1>4, <1>6, <1>7 DEF Accounts

(***************************************************************************)
(* Pages.                                                                  *)
(***************************************************************************)

\* The smaller of two numbers.
LEMMA MinOfTwo ==
  ASSUME NEW m \in Int, NEW n \in Int
  PROVE  Min({m, n}) = IF m <= n THEN m ELSE n
<1>1. \E x \in {m, n} : \A y \in {m, n} : x =< y
  OBVIOUS
<1>2. Min({m, n}) \in {m, n} /\ \A y \in {m, n} : Min({m, n}) =< y
  BY <1>1 DEF Min
<1> QED BY <1>2

\* What is in the frame is the front of the list.
LEMMA InFrameIs ==
  ASSUME NEW S, NEW s \in Seq(S), NEW frame, NEW n \in Nat, n <= Len(s)
  PROVE  LET list == InFrame(frame, s, n) IN
         /\ list \in Seq(S) /\ Len(list) = (IF frame = "All" THEN Len(s) ELSE Len(s) - n)
         /\ DOMAIN list = 1 .. Len(list) /\ \A i \in 1 .. Len(list) : list[i] = s[i]
<1> DEFINE list == InFrame(frame, s, n)
<1>1. CASE frame = "All"
  <2>1. list = s
    BY <1>1 DEF InFrame
  <2> HIDE DEF list
  <2> QED BY <1>1, <2>1 DEF list
<1>2. CASE frame # "All"
  <2> DEFINE q == Len(s) - n
  <2>1. list = SubSeq(s, 1, q)
    BY <1>2 DEF InFrame
  <2>2. q \in Nat /\ 1 \in Nat /\ 1 <= 1 /\ 1 <= q + 1 /\ q <= Len(s) /\ q + 1 - 1 = q
    OBVIOUS
  <2> DEFINE one == 1
  <2> HIDE DEF list, q
  <2>3. list \in Seq(S) /\ Len(list) = q /\ \A i \in 1 .. q : list[i] = s[i]
    <3>1. /\ SubSeq(s, 1, q) \in Seq(S) /\ Len(SubSeq(s, 1, q)) = q + 1 - 1
          /\ \A i \in 1 .. q + 1 - 1 : SubSeq(s, 1, q)[i] = s[1 + i - 1]
      BY <2>2, SubSeqIs
    <3>2. \A i \in 1 .. q : 1 + i - 1 = i
      BY <2>2
    <3> QED BY <2>1, <2>2, <3>1, <3>2
  <2>4. DOMAIN list = 1 .. Len(list)
    BY <2>3
  <2> QED BY <1>2, <2>3, <2>4 DEF list, q
<1> QED BY <1>1, <1>2

\* What is read once a page is read too.
LEMMA PageRead ==
  ASSUME NEW S, NEW read \in Seq(S), NEW list \in Seq(S), NEW p \in Nat, NEW q \in Nat, q <= Len(list)
  PROVE  LET on == read \o SubSeq(list, p + 1, q) IN
         /\ on \in Seq(S) /\ DOMAIN on = 1 .. Len(on) /\ Len(on) \in Nat
         /\ Len(on) = Len(read) + (IF p <= q THEN q - p ELSE 0)
         /\ \A k \in 1 .. Len(read) : on[k] = read[k]
         /\ \A k \in Len(read) + 1 .. Len(on) : on[k] = list[p + k - Len(read)]
         /\ \A i \in p + 1 .. q : on[Len(read) + i - p] = list[i] /\ Len(read) + i - p \in DOMAIN on
<1> DEFINE page == SubSeq(list, p + 1, q)
<1> DEFINE on == read \o page
<1> DEFINE n == IF p <= q THEN q - p ELSE 0
<1>1. Len(read) \in Nat /\ n \in Nat
  OBVIOUS
<1>2. page \in Seq(S) /\ Len(page) = n /\ \A i \in 1 .. n : page[i] = list[p + i]
  <2>1. CASE p <= q
    <3> DEFINE b == p + 1
    <3>1. b \in Nat /\ 1 <= b /\ b <= q + 1 /\ q + 1 - b = n /\ \A i \in 1 .. n : b + i - 1 = p + i
      BY <2>1
    <3> HIDE DEF b, n
    <3>2. /\ SubSeq(list, b, q) \in Seq(S) /\ Len(SubSeq(list, b, q)) = q + 1 - b
          /\ \A i \in 1 .. q + 1 - b : SubSeq(list, b, q)[i] = list[b + i - 1]
      BY <3>1, SubSeqIs
    <3>3. page = SubSeq(list, b, q)
      BY DEF b
    <3> HIDE DEF page
    <3> QED BY <3>1, <3>2, <3>3
  <2>2. CASE ~(p <= q)
    <3>1. page = <<>>
      <4>1. p + 1 > q /\ p + 1 \in Int /\ q \in Int
        BY <2>2
      <4> QED BY <4>1, SubSeqEmpty
    <3>2. n = 0
      BY <2>2
    <3> HIDE DEF page, n
    <3> QED BY <3>1, <3>2
  <2> QED BY <2>1, <2>2
<1> HIDE DEF page
<1>3. /\ on \in Seq(S) /\ Len(on) = Len(read) + n
      /\ \A k \in 1 .. Len(read) + n : on[k] = IF k <= Len(read) THEN read[k] ELSE page[k - Len(read)]
  <2>1. /\ read \o page \in Seq(S) /\ Len(read \o page) = Len(read) + Len(page)
        /\ \A k \in 1 .. Len(read) + Len(page) :
              (read \o page)[k] = IF k <= Len(read) THEN read[k] ELSE page[k - Len(read)]
    BY <1>2, JoinedLists
  <2>2. Len(page) = n
    BY <1>2
  <2> HIDE DEF n
  <2> QED BY <2>1, <2>2
<1> HIDE DEF on
<1>4. DOMAIN on = 1 .. Len(on) /\ Len(on) \in Nat
  BY <1>3
<1>5. \A k \in 1 .. Len(read) : on[k] = read[k]
  BY <1>1, <1>3
<1>6. ASSUME NEW k \in Len(read) + 1 .. Len(on) PROVE on[k] = list[p + k - Len(read)]
  <2> HIDE DEF n
  <2>1. k \in 1 .. Len(read) + n /\ ~(k <= Len(read)) /\ k - Len(read) \in 1 .. n /\ p + (k - Len(read)) = p + k - Len(read)
    BY <1>1, <1>3
  <2> QED BY <1>2, <1>3, <2>1
<1>7. ASSUME NEW i \in p + 1 .. q PROVE on[Len(read) + i - p] = list[i] /\ Len(read) + i - p \in DOMAIN on
  <2> DEFINE k == Len(read) + i - p
  <2>1. k \in Len(read) + 1 .. Len(on) /\ p + k - Len(read) = i /\ k \in 1 .. Len(on)
    BY <1>1, <1>3
  <2> HIDE DEF k
  <2>2. on[k] = list[i] /\ k \in DOMAIN on
    BY <1>4, <1>6, <2>1
  <2> QED BY <2>2 DEF k
<1> QED BY <1>3, <1>4, <1>5, <1>6, <1>7 DEF on, page

\* An account is read on if what was got or ahead still is.
LEMMA ReadOnKeeps ==
  ASSUME NEW a \in Accounts, SchwabTypes, ReadWell(a), Paging(a), sync'.owed = sync.owed, sync'.frame = sync.frame,
         rows' = rows, aged' = aged, stored' = stored, odd' = odd,
         Clean(a) => \A i \in 1 .. Len(rows[a]) : Had(a, i) => Had(a, i)'
  PROVE  ReadWell(a)'
<1>1. SaidOf(a)' = SaidOf(a) /\ AgedOf(a)' = AgedOf(a) /\ Clean(a)' = Clean(a)
  BY DEF SaidOf, Said, AgedOf, Clean
<1>2. Len(rows[a]) \in Nat /\ DOMAIN rows[a] = 1 .. Len(rows[a]) /\ aged[a] \in Nat /\ aged[a] <= Len(rows[a])
  BY SchwabParts
<1>3. AgedOf(a) \subseteq 1 .. Len(rows[a])
  BY <1>2 DEF AgedOf
<1>4. Clean(a) => \A i \in AgedOf(a) : Had(a, i)'
  BY <1>3 DEF ReadWell
<1>5. Clean(a) /\ "failed" \notin odd[a] =>
        \E row \in [DOMAIN sync.owed[a] -> Rows] :
          /\ IsInjective(row)
          /\ \A k \in DOMAIN sync.owed[a] : \E i \in DOMAIN rows[a] :
                rows[a][i] = row[k] /\ SaidOf(a)[i] = sync.owed[a][k] /\ Had(a, i)'
  <2>1. SUFFICES ASSUME Clean(a), "failed" \notin odd[a]
                 PROVE \E row \in [DOMAIN sync.owed[a] -> Rows] :
                          /\ IsInjective(row)
                          /\ \A k \in DOMAIN sync.owed[a] : \E i \in DOMAIN rows[a] :
                                rows[a][i] = row[k] /\ SaidOf(a)[i] = sync.owed[a][k] /\ Had(a, i)'
    OBVIOUS
  <2>2. PICK row \in [DOMAIN sync.owed[a] -> Rows] :
          /\ IsInjective(row)
          /\ \A k \in DOMAIN sync.owed[a] : \E i \in DOMAIN rows[a] :
                rows[a][i] = row[k] /\ SaidOf(a)[i] = sync.owed[a][k] /\ Had(a, i)
    BY <2>1 DEF ReadWell
  <2>3. \A k \in DOMAIN sync.owed[a] : \E i \in DOMAIN rows[a] :
            rows[a][i] = row[k] /\ SaidOf(a)[i] = sync.owed[a][k] /\ Had(a, i)'
    BY <1>2, <2>1, <2>2
  <2> QED BY <2>2, <2>3
<1> QED BY <1>1, <1>4, <1>5 DEF ReadWell, IsInjective

\* A page of the bank.
LEMMA BankingPageKeeps ==
  ASSUME SchwabInv, BankingPage
  PROVE  SchwabInv'
<1>1. /\ SchwabTypes /\ SyncStage /\ InOrder /\ ByPages
      /\ \A b \in Accounts : ReadWell(b)
  BY DEF SchwabInv
<1>2. sync.at = "page" /\ Asked \in Bank /\ sync.page < SchwabPages
      /\ rows' = rows /\ aged' = aged /\ stored' = stored /\ odd' = odd
  BY DEF BankingPage
<1>3. PICK a \in Accounts : a = Asked /\ a \in Bank /\ a \notin Brokerage
  BY <1>2, AskedIs
<1> DEFINE L == SaidOf(a)
<1> DEFINE len == Len(rows[a])
<1> DEFINE reach == InReach(a)
<1> DEFINE list == InFrame(sync.frame, L, aged[a])
<1> DEFINE P == sync.page * BankPage
<1> DEFINE Q == (sync.page + 1) * BankPage
<1> DEFINE q == IF reach <= Q THEN reach ELSE Q
<1> DEFINE read == sync.read \o SubSeq(list, P + 1, q)
<1>4. /\ sync \in Sync /\ sync.page \in Nat /\ sync.page + 1 \in 0 .. SchwabPages /\ Paging(a)
      /\ sync.read \in Seq(Texts) /\ odd \in [Accounts -> SUBSET {"late", "shifted", "unread", "failed", "strayed"}]
  <2>1. sync \in Sync /\ sync.page \in Nat /\ odd \in [Accounts -> SUBSET {"late", "shifted", "unread", "failed", "strayed"}]
    BY <1>1, SchwabParts, <1>3 DEF SchwabTypes
  <2>2. sync.page + 1 \in 0 .. SchwabPages
    BY <1>2, <2>1, SchwabAssumption
  <2>3. sync.read \in Seq(Texts)
    BY <1>1, <1>2 DEF SyncStage
  <2> QED BY <1>2, <1>3, <2>1, <2>2, <2>3 DEF Paging
<1>5. /\ len \in Nat /\ aged[a] \in Nat /\ aged[a] <= len /\ L \in Seq(Texts) /\ DOMAIN L = 1 .. len /\ Len(L) = len
      /\ rows[a] \in Seq(Rows)
  BY <1>1, SchwabParts
<1>6. P \in Nat /\ Q \in Nat /\ Q = P + BankPage /\ P <= Q
  <2>1. BankPage \in Nat
    BY SchwabAssumption
  <2> QED BY <1>4, <2>1, SMTT(30)
<1>7. reach \in Nat /\ reach <= len /\ reach = (IF sync.frame = "All" THEN len ELSE len - aged[a])
  <2>1. reach = (IF sync.frame = "All" THEN len ELSE len - aged[a])
    BY DEF InReach
  <2> HIDE DEF reach, len
  <2> QED BY <1>5, <2>1
<1> HIDE DEF reach
<1>8. list \in Seq(Texts) /\ Len(list) = reach /\ DOMAIN list = 1 .. reach /\ \A i \in 1 .. reach : list[i] = L[i]
  <2> HIDE DEF L, len
  <2>1. LET l == InFrame(sync.frame, L, aged[a]) IN
         /\ l \in Seq(Texts) /\ Len(l) = (IF sync.frame = "All" THEN len ELSE len - aged[a])
         /\ DOMAIN l = 1 .. Len(l) /\ \A i \in 1 .. Len(l) : l[i] = L[i]
    <3>1. L \in Seq(Texts) /\ aged[a] \in Nat /\ aged[a] <= Len(L)
      BY <1>5
    <3> QED BY <1>5, <3>1, InFrameIs
  <2> QED BY <1>7, <2>1
<1>9. q \in Nat /\ q <= reach /\ q <= Q /\ (q = reach \/ (q = Q /\ Q < reach))
  BY <1>6, <1>7
<1>10. Min({Len(list), Q}) = q
  <2>1. Len(list) = reach
    BY <1>8
  <2> HIDE DEF list, Q
  <2> QED BY <1>6, <1>7, <2>1, MinOfTwo
<1>11. sync' = IF Q >= Len(list) THEN Through(read)
               ELSE [sync EXCEPT !.read = read, !.page = sync.page + 1]
  <2>1. list = InFrame(sync.frame, Said(Asked, rows[Asked]), aged[Asked])
    BY <1>3 DEF SaidOf
  <2> QED BY <1>10, <2>1 DEF BankingPage
<1> HIDE DEF list, P, Q, q, L, len
<1>12. /\ read \in Seq(Texts) /\ DOMAIN read = 1 .. Len(read) /\ Len(read) \in Nat
       /\ Len(read) = Len(sync.read) + (IF P <= q THEN q - P ELSE 0)
       /\ \A k \in 1 .. Len(sync.read) : read[k] = sync.read[k]
       /\ \A k \in Len(sync.read) + 1 .. Len(read) : read[k] = list[P + k - Len(sync.read)]
       /\ \A i \in P + 1 .. q : read[Len(sync.read) + i - P] = list[i] /\ Len(sync.read) + i - P \in DOMAIN read
  <2>1. q <= Len(list)
    BY <1>8, <1>9
  <2> QED BY <1>4, <1>6, <1>8, <1>9, <2>1, PageRead
<1> HIDE DEF read
<1>13. \A i \in 1 .. len : L[i] \in ToSet(sync.read) \/ i \in P + 1 .. q => L[i] \in ToSet(read)
  <2>1. ASSUME NEW i \in 1 .. len, L[i] \in ToSet(sync.read) PROVE L[i] \in ToSet(read)
    <3>1. PICK k \in DOMAIN sync.read : sync.read[k] = L[i]
      BY <2>1 DEF ToSet
    <3>2. k \in 1 .. Len(sync.read) /\ Len(sync.read) \in Nat
      BY <1>4, <3>1
    <3>3. Len(read) >= Len(sync.read)
      <4>1. Len(read) = Len(sync.read) + (IF P <= q THEN q - P ELSE 0) /\ P \in Nat /\ q \in Nat
        BY <1>6, <1>9, <1>12
      <4>2. CASE P <= q
        <5>1. Len(read) = Len(sync.read) + (q - P)
          BY <4>1, <4>2
        <5> QED BY <3>2, <4>1, <4>2, <5>1
      <4>3. CASE ~(P <= q)
        BY <3>2, <4>1, <4>3
      <4> QED BY <4>2, <4>3
    <3>4. k \in DOMAIN read /\ read[k] = L[i]
      BY <1>12, <3>1, <3>2, <3>3
    <3> QED BY <3>4 DEF ToSet
  <2>2. ASSUME NEW i \in P + 1 .. q PROVE L[i] \in ToSet(read)
    <3>1. i \in 1 .. reach
      BY <1>6, <1>7, <1>9, <2>2
    <3>2. read[Len(sync.read) + i - P] = L[i] /\ Len(sync.read) + i - P \in DOMAIN read
      BY <1>8, <1>12, <3>1
    <3> QED BY <3>2 DEF ToSet
  <2> QED BY <2>1, <2>2
<1>14. odd[a] \cap {"late", "shifted"} = {} =>
          P <= q /\ Len(read) = q /\ \A k \in 1 .. q : read[k] = L[k]
  <2> SUFFICES ASSUME odd[a] \cap {"late", "shifted"} = {}
               PROVE  P <= q /\ Len(read) = q /\ \A k \in 1 .. q : read[k] = L[k]
    OBVIOUS
  <2>1. P <= reach /\ sync.read = SubSeq(L, 1, P)
    BY <1>1, <1>2, <1>3 DEF ByPages, P, reach, L
  <2>2. P <= q
    BY <1>6, <1>7, <1>9, <2>1
  <2>3. Len(sync.read) = P /\ \A k \in 1 .. P : sync.read[k] = L[k]
    <3>1. L \in Seq(Texts) /\ P \in Nat /\ 1 \in Nat /\ 1 <= 1 /\ 1 <= P + 1 /\ P <= Len(L) /\ P + 1 - 1 = P
      BY <1>5, <1>6, <1>7, <2>1
    <3>2. Len(SubSeq(L, 1, P)) = P + 1 - 1 /\ \A k \in 1 .. P + 1 - 1 : SubSeq(L, 1, P)[k] = L[1 + k - 1]
      BY <3>1, SubSeqIs
    <3>3. \A k \in 1 .. P : 1 + k - 1 = k
      BY <3>1
    <3> QED BY <2>1, <3>1, <3>2, <3>3
  <2>4. Len(read) = q
    BY <1>6, <1>9, <1>12, <2>2, <2>3
  <2>5. ASSUME NEW k \in 1 .. q PROVE read[k] = L[k]
    <3>1. CASE k <= P
      BY <1>6, <1>9, <1>12, <2>3, <3>1
    <3>2. CASE ~(k <= P)
      <4>1. k \in P + 1 .. Len(read) /\ P + k - P = k /\ k \in 1 .. reach
        BY <1>6, <1>7, <1>9, <2>4, <3>2
      <4> QED BY <1>8, <1>12, <2>3, <4>1
    <3> QED BY <3>1, <3>2
  <2> QED BY <2>2, <2>4, <2>5
<1>15. CASE Q >= reach
  <2> DEFINE names == RowNames("banking", read)
  <2>1. q = reach
    BY <1>6, <1>7, <1>9, <1>15
  <2>2. sync' = Turn([sync EXCEPT !.found[Asked] = names], sync.turn + 1)
    BY <1>2, <1>8, <1>11, <1>15 DEF Through, parse_banking_transactions_rows
  <2>3. names \in SUBSET Names /\ \A name \in names : name[1] = "banking"
    BY <1>12, NamesTyped DEF Kinds
  <2>4. odd[a] \cap {"late", "shifted", "strayed"} = {} => names \subseteq RowNames("banking", L)
    <3> SUFFICES ASSUME odd[a] \cap {"late", "shifted", "strayed"} = {} PROVE names \subseteq RowNames("banking", L)
      OBVIOUS
    <3>1. Len(read) = q /\ \A k \in 1 .. q : read[k] = L[k]
      BY <1>14
    <3> DEFINE f == [k \in 1 .. q |-> k]
    <3>2. f \in [1 .. q -> 1 .. len] /\ (\A i, j \in 1 .. q : f[i] = f[j] => i = j) /\ \A i \in 1 .. q : L[f[i]] = read[i]
      BY <1>5, <1>7, <1>9, <3>1
    <3>3. DOMAIN read = 1 .. q /\ DOMAIN L = 1 .. len
      BY <1>5, <1>12, <3>1
    <3> HIDE DEF f
    <3> QED BY <1>5, <1>9, <3>2, <3>3, AllNamesFit, SMTT(30)
  <2>5. ASSUME Clean(a)
        PROVE  /\ AgedIn(a, stored[a] \cup names)
               /\ "failed" \notin odd[a] => RowNames(Source(a), sync.owed[a]) \subseteq stored[a] \cup names
    <3> DEFINE G == {i \in 1 .. len : L[i] \in ToSet(read)}
    <3> DEFINE g == [i \in G |-> CHOOSE k \in DOMAIN read : read[k] = L[i]]
    <3>1. \A i \in G : g[i] \in DOMAIN read /\ read[g[i]] = L[i]
      BY DEF ToSet
    <3>2. \A i, j \in 1 .. len : L[i] = L[j] => i = j
      <4>1. \A i, j \in 1 .. Len(rows[a]) : Said(a, rows[a])[i] = Said(a, rows[a])[j] => i = j
        BY <1>3, <1>5, SaidIs
      <4> QED BY <4>1 DEF SaidOf, L, len
    <3>3. g \in [G -> DOMAIN read] /\ \A i, j \in G : g[i] = g[j] => i = j
      <4>1. g = [i \in G |-> g[i]]
        OBVIOUS
      <4>2. G \subseteq 1 .. len
        OBVIOUS
      <4> HIDE DEF g, G
      <4> QED BY <3>1, <3>2, <4>1, <4>2
    <3>4. G \subseteq DOMAIN L
      BY <1>5
    <3> HIDE DEF g
    <3>5. ASSUME NEW i \in 1 .. len, Had(a, i), i \notin G PROVE sync.frame = "Last6Months" /\ i \in AgedOf(a)
      <4>1. L[i] \in ToSet(sync.read) \/ i > P
        BY <1>3, <3>5 DEF Had, Got, Ahead, L, P
      <4>2. i > reach
        BY <1>6, <1>7, <1>13, <2>1, <3>5, <4>1
      <4>3. sync.frame \in {"All", "Last6Months"}
        BY <1>4 DEF Sync
      <4>4. sync.frame = "Last6Months" /\ i \in len - aged[a] + 1 .. len
        BY <1>5, <1>7, <3>5, <4>2, <4>3
      <4> QED BY <4>4 DEF AgedOf, len
    <3>6. \A i \in DOMAIN L : Had(a, i) => i \in G \/ (sync.frame = "Last6Months" /\ i \in AgedOf(a))
      BY <1>5, <3>5
    <3> HIDE DEF G
    <3>7. names = RowNames(Source(a), read)
      BY <1>3 DEF Source
    <3> HIDE DEF names
    <3>8. Covers(a, read, G, g)
      BY <3>1, <3>3, <3>4, <3>6 DEF L, Covers
    <3>9. /\ AgedIn(a, stored[a] \cup RowNames(Source(a), read))
          /\ "failed" \notin odd[a] =>
               RowNames(Source(a), sync.owed[a]) \subseteq stored[a] \cup RowNames(Source(a), read)
      <4>1. Paging(a) /\ Clean(a) /\ read \in Seq(Texts)
        BY <1>4, <1>12, <2>5
      <4> QED BY <3>8, <4>1, ReadThrough
    <3> QED BY <3>7, <3>9
  <2> HIDE DEF names
  <2>6. /\ \A name \in names : name[1] \in IF Asked \in Bank THEN {"banking"} ELSE {"history", "export"}
        /\ odd'[Asked] \cap {"late", "shifted", "strayed"} = {} =>
             names \subseteq UNION {RowNames(source, SaidOf(Asked)) : source \in {"history", "banking", "export"}}
        /\ odd'[Asked] \cap {"late", "unread", "strayed"} = {} =>
             /\ names # {} => AgedIn(Asked, stored[Asked] \cup names)
             /\ "failed" \notin odd'[Asked] => RowNames(Source(Asked), sync.owed[Asked]) \subseteq stored[Asked] \cup names
    <3>1. a = Asked /\ odd'[Asked] = odd[a] /\ RowNames("banking", L) = RowNames("banking", SaidOf(Asked))
      BY <1>2, <1>3 DEF L
    <3>2. odd'[Asked] \cap {"late", "shifted", "strayed"} = {} =>
             names \subseteq UNION {RowNames(source, SaidOf(Asked)) : source \in {"history", "banking", "export"}}
      BY <2>4, <3>1
    <3>3. \A name \in names : name[1] \in IF Asked \in Bank THEN {"banking"} ELSE {"history", "export"}
      BY <1>2, <2>3
    <3> QED BY <2>5, <3>1, <3>2, <3>3 DEF Clean
  <2>7. \A b \in Accounts : odd[b] \subseteq odd'[b]
    BY <1>2
  <2>8. odd' \in [Accounts -> SUBSET {"late", "shifted", "unread", "failed", "strayed"}]
    BY <1>2, <1>4
  <2> QED BY <1>2, <2>2, <2>3, <2>6, <2>7, <2>8, ThroughKeeps
<1>16. CASE ~(Q >= reach)
  <2>1. sync' = [sync EXCEPT !.read = read, !.page = sync.page + 1]
    BY <1>8, <1>11, <1>16
  <2>2. q = Q
    BY <1>6, <1>7, <1>9, <1>16
  <2>3. /\ sync'.at = "page" /\ sync'.turn = sync.turn /\ sync'.answer = sync.answer /\ sync'.owed = sync.owed
        /\ sync'.frame = sync.frame /\ sync'.page = sync.page + 1 /\ sync'.read = read
        /\ sync' = [sync EXCEPT !.frame = sync.frame, !.page = sync.page + 1, !.read = read]
    BY <1>2, <1>4, <2>1 DEF Sync
  <2>4. Asked' = a /\ Paging(a)' /\ SaidOf(a)' = L /\ InReach(a)' = reach /\ sync'.page * BankPage = Q
    <3>1. Asked' = a
      BY <1>3, <2>3 DEF Asked
    <3> QED BY <1>2, <2>3, <3>1 DEF Paging, SaidOf, Said, L, InReach, reach, Q
  <2>5. InOrder'
    BY <1>3, <2>4 DEF InOrder
  <2>6. ByPages'
    <3> SUFFICES ASSUME odd[a] \cap {"late", "shifted"} = {} PROVE Q <= reach /\ read = SubSeq(L, 1, Q)
      <4>1. InReach(Asked)' = reach /\ SaidOf(Asked)' = L /\ odd'[Asked'] = odd[a]
        BY <1>2, <2>4 DEF InReach, SaidOf, Said
      <4> QED BY <2>3, <2>4, <4>1 DEF ByPages
    <3>1. Len(read) = Q /\ \A k \in 1 .. Q : read[k] = L[k]
      BY <1>14, <2>2
    <3>2. L \in Seq(Texts) /\ Q \in Nat /\ 1 \in Nat /\ 1 <= 1 /\ 1 <= Q + 1 /\ Q <= Len(L) /\ Q + 1 - 1 = Q
      BY <1>5, <1>6, <1>7, <1>16
    <3>3. /\ SubSeq(L, 1, Q) \in Seq(Texts) /\ Len(SubSeq(L, 1, Q)) = Q + 1 - 1
          /\ \A k \in 1 .. Q + 1 - 1 : SubSeq(L, 1, Q)[k] = L[1 + k - 1]
      BY <3>2, SubSeqIs
    <3>4. \A k \in 1 .. Q : 1 + k - 1 = k
      BY <3>2
    <3>5. Len(read) = Len(SubSeq(L, 1, Q)) /\ \A k \in 1 .. Len(read) : read[k] = SubSeq(L, 1, Q)[k]
      BY <3>1, <3>2, <3>3, <3>4
    <3>6. read = SubSeq(L, 1, Q)
      BY <1>12, <3>3, <3>5, SeqEqual
    <3> QED BY <1>6, <1>7, <1>16, <3>6
  <2>7. ReadWell(a)'
    <3>1. ASSUME NEW i \in 1 .. len, Had(a, i) PROVE Had(a, i)'
      <4>1. L[i] \in ToSet(sync.read) \/ i > P
        BY <1>3, <3>1 DEF Had, Got, Ahead, L, P
      <4>2. L[i] \in ToSet(read) \/ i > Q
        BY <1>6, <1>9, <1>13, <2>2, <4>1
      <4>3. ToSet(sync.read)' = ToSet(read)
        BY <2>3 DEF ToSet
      <4> QED BY <1>3, <2>4, <4>2, <4>3 DEF Had, Got, Ahead
    <3>2. Clean(a) => \A i \in 1 .. Len(rows[a]) : Had(a, i) => Had(a, i)'
      BY <3>1 DEF len
    <3>3. ReadWell(a) /\ SchwabTypes /\ Paging(a)
      BY <1>1, <1>4
    <3> QED BY <1>2, <2>3, <3>2, <3>3, ReadOnKeeps
  <2> DEFINE frame == sync.frame
  <2> DEFINE page == sync.page + 1
  <2>8. /\ frame \in {"All", "Last6Months"} /\ page \in 0 .. SchwabPages
        /\ read \in Seq(IF Asked \in Bank THEN Texts ELSE Rows)
        /\ sync' = [sync EXCEPT !.frame = frame, !.page = page, !.read = read]
        /\ a = Asked /\ sync.at = "page"
    BY <1>2, <1>3, <1>4, <1>12, <2>3 DEF Sync
  <2> HIDE DEF frame, page
  <2>9. /\ \A b \in Accounts : odd[b] \subseteq odd'[b]
        /\ odd' \in [Accounts -> SUBSET {"late", "shifted", "unread", "failed", "strayed"}]
        /\ rows' = rows /\ aged' = aged /\ stored' = stored
    BY <1>2, <1>4
  <2> QED BY <2>5, <2>6, <2>7, <2>8, <2>9, PageGoesOn
<1> QED BY <1>15, <1>16

\* Rows were read in their order, the last of them at p.
ReadUpTo(R, read, p) ==
    /\ IsInjective(read)
    /\ \A k \in DOMAIN read : \E i \in 1 .. p : R[i] = read[k]
    /\ read # <<>> => p >= 1 /\ R[p] = Last(read)

\* And those behind are read next.
LEMMA ReadOn ==
  ASSUME NEW R \in Seq(Rows), IsInjective(R), NEW reach \in Nat, reach <= Len(R),
         NEW list \in Seq(Rows), Len(list) = reach, \A i \in 1 .. reach : list[i] = R[i],
         NEW read \in Seq(Rows), NEW p \in Nat, NEW q \in Nat, p <= q, q <= reach, ReadUpTo(R, read, p)
  PROVE  LET on == read \o SubSeq(list, p + 1, q) IN
         /\ on \in Seq(Rows) /\ DOMAIN on = 1 .. Len(on) /\ Len(on) \in Nat
         /\ ReadUpTo(R, on, q)
         /\ \A i \in 1 .. Len(R) : R[i] \in ToSet(read) \/ (i > p /\ i <= q) => R[i] \in ToSet(on)
<1> DEFINE on == read \o SubSeq(list, p + 1, q)
<1> DEFINE m == Len(read)
<1>1. /\ on \in Seq(Rows) /\ DOMAIN on = 1 .. Len(on) /\ Len(on) \in Nat
      /\ Len(on) = m + (q - p)
      /\ \A k \in 1 .. m : on[k] = read[k]
      /\ \A k \in m + 1 .. Len(on) : on[k] = list[p + k - m]
      /\ \A i \in p + 1 .. q : on[m + i - p] = list[i] /\ m + i - p \in DOMAIN on
  <2>1. LET o == read \o SubSeq(list, p + 1, q) IN
         /\ o \in Seq(Rows) /\ DOMAIN o = 1 .. Len(o) /\ Len(o) \in Nat
         /\ Len(o) = Len(read) + (IF p <= q THEN q - p ELSE 0)
         /\ \A k \in 1 .. Len(read) : o[k] = read[k]
         /\ \A k \in Len(read) + 1 .. Len(o) : o[k] = list[p + k - Len(read)]
         /\ \A i \in p + 1 .. q : o[Len(read) + i - p] = list[i] /\ Len(read) + i - p \in DOMAIN o
    BY PageRead
  <2>2. (IF p <= q THEN q - p ELSE 0) = q - p
    OBVIOUS
  <2> QED BY <2>1, <2>2
<1>2. m \in Nat /\ DOMAIN read = 1 .. m /\ DOMAIN R = 1 .. Len(R) /\ Len(R) \in Nat /\ (m = 0 => read = <<>>)
  OBVIOUS
<1>3. IsInjective(read) /\ (\A k \in 1 .. m : \E i \in 1 .. p : R[i] = read[k])
      /\ (read # <<>> => p >= 1 /\ R[p] = Last(read)) /\ \A i, j \in 1 .. Len(R) : R[i] = R[j] => i = j
  BY <1>2 DEF ReadUpTo, IsInjective
<1> HIDE DEF on
<1>4. ASSUME NEW k \in m + 1 .. Len(on) PROVE p + k - m \in p + 1 .. q /\ on[k] = R[p + k - m]
  <2>1. p + k - m \in p + 1 .. q /\ p + k - m \in 1 .. reach
    <3>1. Len(on) = m + (q - p) /\ m \in Nat
      BY <1>1, <1>2
    <3> HIDE DEF m
    <3> QED BY <1>4, <3>1
  <2> HIDE DEF m
  <2> QED BY <1>1, <2>1
<1>5. ASSUME NEW k \in 1 .. Len(on) PROVE \E i \in 1 .. q : R[i] = on[k]
  <2>1. CASE k <= m
    <3>1. k \in 1 .. m
      BY <1>2, <2>1
    <3>2. PICK i \in 1 .. p : R[i] = read[k]
      BY <1>3, <3>1
    <3> QED BY <1>1, <3>1, <3>2
  <2>2. CASE ~(k <= m)
    <3>1. k \in m + 1 .. Len(on)
      BY <1>2, <2>2
    <3>2. p + k - m \in p + 1 .. q /\ on[k] = R[p + k - m]
      BY <1>4, <3>1
    <3> QED BY <3>2
  <2> QED BY <2>1, <2>2
<1>6. ASSUME NEW k \in 1 .. Len(on), NEW l \in 1 .. Len(on), on[k] = on[l], k <= m, l > m PROVE FALSE
  <2>1. k \in 1 .. m /\ l \in m + 1 .. Len(on)
    BY <1>2, <1>6
  <2>2. PICK i \in 1 .. p : R[i] = on[k]
    BY <1>1, <1>3, <2>1
  <2>3. p + l - m \in p + 1 .. q /\ on[l] = R[p + l - m]
    BY <1>4, <2>1
  <2> DEFINE j == p + l - m
  <2>4. j \in 1 .. Len(R) /\ j > p /\ R[j] = on[l]
    BY <2>3
  <2> HIDE DEF j
  <2>5. i \in 1 .. Len(R)
    BY <1>2
  <2>6. i = j
    BY <1>3, <1>6, <2>2, <2>4, <2>5
  <2> QED BY <2>4, <2>6
<1>7. ASSUME NEW k \in 1 .. Len(on), NEW l \in 1 .. Len(on), on[k] = on[l] PROVE k = l
  <2>1. CASE k <= m /\ l <= m
    <3>1. k \in 1 .. m /\ l \in 1 .. m
      BY <1>2, <2>1
    <3>2. read[k] = read[l] /\ k \in DOMAIN read /\ l \in DOMAIN read
      BY <1>1, <1>2, <1>7, <3>1
    <3>3. IsInjective(read)
      BY <1>3
    <3> QED BY <3>2, <3>3 DEF IsInjective
  <2>2. CASE k > m /\ l > m
    <3>1. k \in m + 1 .. Len(on) /\ l \in m + 1 .. Len(on)
      BY <1>2, <2>2
    <3>2. /\ p + k - m \in p + 1 .. q /\ on[k] = R[p + k - m] /\ p + l - m \in p + 1 .. q /\ on[l] = R[p + l - m]
      BY <1>4, <3>1
    <3> DEFINE i == p + k - m
    <3> DEFINE j == p + l - m
    <3>3. i \in 1 .. Len(R) /\ j \in 1 .. Len(R) /\ (i = j => k = l)
      BY <1>2, <3>2
    <3>4. R[i] = R[j]
      BY <1>7, <3>2
    <3> HIDE DEF i, j
    <3> QED BY <1>3, <3>3, <3>4
  <2>3. CASE (k <= m /\ l > m) \/ (l <= m /\ k > m)
    BY <1>6, <1>7, <2>3
  <2> QED BY <1>2, <2>1, <2>2, <2>3
<1>8. ASSUME on # <<>> PROVE q >= 1 /\ R[q] = Last(on)
  <2>1. Len(on) # 0
    BY <1>1, <1>8
  <2>2. CASE p < q
    <3>1. Len(on) \in m + 1 .. Len(on) /\ p + Len(on) - m = q
      BY <1>1, <1>2, <2>2
    <3>2. on[Len(on)] = R[q]
      BY <1>4, <3>1
    <3> QED BY <2>2, <3>2 DEF Last
  <2>3. CASE p = q
    <3>1. Len(on) = m /\ m \in 1 .. m
      BY <1>1, <1>2, <2>1, <2>3
    <3>2. on[m] = read[m] /\ read # <<>>
      BY <1>1, <3>1
    <3> QED BY <1>3, <2>3, <3>1, <3>2 DEF Last
  <2> QED BY <2>2, <2>3
<1>9. ReadUpTo(R, on, q)
  BY <1>1, <1>5, <1>7, <1>8 DEF ReadUpTo, IsInjective
<1>10. ASSUME NEW i \in 1 .. Len(R), R[i] \in ToSet(read) \/ (i > p /\ i <= q) PROVE R[i] \in ToSet(on)
  <2>1. CASE R[i] \in ToSet(read)
    <3>1. PICK k \in 1 .. m : read[k] = R[i]
      BY <1>2, <2>1 DEF ToSet
    <3>2. k \in DOMAIN on /\ on[k] = R[i]
      BY <1>1, <1>2, <3>1
    <3> QED BY <3>2 DEF ToSet
  <2>2. CASE i > p /\ i <= q
    <3>1. i \in p + 1 .. q /\ list[i] = R[i]
      BY <2>2
    <3>2. on[m + i - p] = R[i] /\ m + i - p \in DOMAIN on
      BY <1>1, <3>1
    <3> QED BY <3>2 DEF ToSet
  <2> QED BY <1>10, <2>1, <2>2
<1> QED BY <1>1, <1>9, <1>10 DEF on

\* A page of a brokerage account.
LEMMA BrokeragePageKeeps ==
  ASSUME SchwabInv, NEW n \in Nat, BrokeragePage(n)
  PROVE  SchwabInv'
<1>1. /\ SchwabTypes /\ SyncStage /\ InOrder /\ \A b \in Accounts : ReadWell(b)
  BY DEF SchwabInv
<1>2. sync.at = "page" /\ Asked \in Brokerage /\ sync.page < SchwabPages
      /\ rows' = rows /\ aged' = aged /\ stored' = stored /\ odd' = odd
  BY DEF BrokeragePage
<1>3. PICK a \in Accounts : a = Asked /\ a \in Brokerage /\ a \notin Bank
  BY <1>2, AskedIs
<1>4. PICK of \in Accounts : of = Asking /\ of = history_id(sync.answer, a) /\ (of = a \/ "strayed" \in odd[a])
  BY <1>2, <1>3, AskedIs DEF Asking
<1> DEFINE R == rows[of]
<1> DEFINE reach == InReach(of)
<1> DEFINE list == InFrame(sync.frame, R, aged[of])
<1> DEFINE next == IF sync.read = <<>> THEN 1 ELSE 1 + CHOOSE i \in DOMAIN list : list[i] = Last(sync.read)
<1> DEFINE p == next - 1
<1> DEFINE q == IF reach <= p + n THEN reach ELSE p + n
<1> DEFINE read == sync.read \o SubSeq(list, p + 1, q)
<1>5. /\ sync \in Sync /\ sync.page \in Nat /\ sync.page + 1 \in 0 .. SchwabPages /\ Paging(a)
      /\ sync.read \in Seq(Rows) /\ odd \in [Accounts -> SUBSET {"late", "shifted", "unread", "failed", "strayed"}]
  <2>1. sync \in Sync /\ sync.page \in Nat /\ odd \in [Accounts -> SUBSET {"late", "shifted", "unread", "failed", "strayed"}]
    BY <1>1, SchwabParts, <1>3 DEF SchwabTypes
  <2>2. sync.page + 1 \in 0 .. SchwabPages
    BY <1>2, <2>1, SchwabAssumption
  <2>3. sync.read \in Seq(Rows)
    BY <1>1, <1>2, <1>3 DEF SyncStage
  <2> QED BY <1>2, <1>3, <2>1, <2>2, <2>3 DEF Paging
<1>6. /\ R \in Seq(Rows) /\ Len(R) \in Nat /\ DOMAIN R = 1 .. Len(R) /\ aged[of] \in Nat /\ aged[of] <= Len(R)
      /\ IsInjective(R)
  BY <1>1, SchwabParts
<1> HIDE DEF R
<1>7. reach \in Nat /\ reach <= Len(R) /\ reach = (IF sync.frame = "All" THEN Len(R) ELSE Len(R) - aged[of])
  <2>1. reach = (IF sync.frame = "All" THEN Len(R) ELSE Len(R) - aged[of])
    BY DEF InReach, R
  <2> HIDE DEF reach
  <2> QED BY <1>6, <2>1
<1> HIDE DEF reach
<1>8. list \in Seq(Rows) /\ Len(list) = reach /\ DOMAIN list = 1 .. reach /\ \A i \in 1 .. reach : list[i] = R[i]
  <2>1. LET l == InFrame(sync.frame, R, aged[of]) IN
         /\ l \in Seq(Rows) /\ Len(l) = (IF sync.frame = "All" THEN Len(R) ELSE Len(R) - aged[of])
         /\ DOMAIN l = 1 .. Len(l) /\ \A i \in 1 .. Len(l) : l[i] = R[i]
    BY <1>6, InFrameIs
  <2> QED BY <1>7, <2>1
<1>9. Asked = a /\ Asking = of
  BY <1>3, <1>4
<1>10. /\ IsInjective(sync.read)
       /\ \A k \in DOMAIN sync.read : \E i \in 1 .. reach : R[i] = sync.read[k]
       /\ sync.read # <<>> => \A i, j \in 1 .. Len(R) : R[i] \in ToSet(sync.read) /\ R[j] = Last(sync.read) => i <= j
  BY <1>1, <1>2, <1>6, <1>9 DEF InOrder, R, reach
<1> HIDE DEF list
<1>11. p \in Nat /\ p <= reach /\ (sync.read = <<>> => p = 0) /\ (sync.read # <<>> => p >= 1 /\ R[p] = Last(sync.read))
       /\ next = p + 1
  <2>1. CASE sync.read = <<>>
    BY <1>7, <2>1
  <2>2. CASE sync.read # <<>>
    <3> DEFINE i == CHOOSE i \in DOMAIN list : list[i] = Last(sync.read)
    <3>1. Len(sync.read) \in DOMAIN sync.read
      BY <1>5, <2>2
    <3>2. \E j \in DOMAIN list : list[j] = Last(sync.read)
      BY <1>8, <1>10, <3>1 DEF Last
    <3>3. i \in 1 .. reach /\ R[i] = Last(sync.read)
      BY <1>8, <3>2
    <3>4. next = 1 + i
      BY <2>2
    <3> HIDE DEF i, next
    <3>5. i \in Nat /\ next - 1 = i
      BY <1>7, <3>3, <3>4
    <3> QED BY <1>7, <2>2, <3>3, <3>4, <3>5
  <2> QED BY <2>1, <2>2
<1> HIDE DEF next
<1> HIDE DEF p
<1>12. reach \in Nat /\ Len(R) \in Nat /\ reach <= Len(R) /\ p \in Nat /\ p <= reach
  BY <1>6, <1>7, <1>11
<1>13. q \in Nat /\ p <= q /\ q <= reach /\ Min({Len(list), next + n - 1}) = q
  <2>1. q \in Nat /\ p <= q /\ q <= reach
    BY <1>7, <1>11
  <2>2. Len(list) = reach /\ next + n - 1 = p + n
    BY <1>8, <1>11
  <2>3. Min({reach, p + n}) = q
    <3> DEFINE m == p + n
    <3>1. reach \in Int /\ m \in Int
      BY <1>7, <1>11
    <3> HIDE DEF m
    <3>2. Min({reach, m}) = IF reach <= m THEN reach ELSE m
      BY <3>1, MinOfTwo
    <3> QED BY <3>2 DEF m
  <2> QED BY <2>1, <2>2, <2>3
<1>14. sync' = IF q = Len(list) THEN Through(Said(Asked, read))
               ELSE [sync EXCEPT !.read = read, !.page = sync.page + 1]
  <2>1. history_id(sync.answer, Asked) = of
    BY <1>3, <1>4
  <2>2. LET last == Min({Len(list), next + n - 1}) IN
        sync' = IF last = Len(list) THEN Through(Said(Asked, sync.read \o SubSeq(list, next, last)))
                ELSE [sync EXCEPT !.read = sync.read \o SubSeq(list, next, last), !.page = sync.page + 1]
    BY <2>1 DEF BrokeragePage, list, R, next
  <2>3. next = p + 1
    BY <1>11
  <2> HIDE DEF q
  <2> QED BY <1>13, <2>2, <2>3
<1>15. ReadUpTo(R, sync.read, p)
  <2>1. ASSUME NEW k \in DOMAIN sync.read PROVE \E i \in 1 .. p : R[i] = sync.read[k]
    <3>1. PICK i \in 1 .. reach : R[i] = sync.read[k]
      BY <1>10
    <3>2. sync.read # <<>> /\ R[i] \in ToSet(sync.read)
      BY <3>1 DEF ToSet
    <3>3. i \in 1 .. Len(R) /\ p \in 1 .. Len(R) /\ R[p] = Last(sync.read)
      BY <1>11, <1>12, <3>2
    <3>4. i <= p
      BY <1>10, <3>2, <3>3
    <3> QED BY <1>11, <3>1, <3>4
  <2> QED BY <1>10, <1>11, <2>1 DEF ReadUpTo
<1> HIDE DEF q
<1>16. /\ read \in Seq(Rows) /\ DOMAIN read = 1 .. Len(read) /\ Len(read) \in Nat
       /\ ReadUpTo(R, read, q)
       /\ \A i \in 1 .. Len(R) : R[i] \in ToSet(sync.read) \/ (i > p /\ i <= q) => R[i] \in ToSet(read)
  <2>1. Len(list) = reach /\ (\A i \in 1 .. reach : list[i] = R[i]) /\ p \in Nat /\ q \in Nat /\ p <= q /\ q <= reach
        /\ sync.read \in Seq(Rows) /\ list \in Seq(Rows) /\ R \in Seq(Rows) /\ IsInjective(R) /\ reach \in Nat
        /\ reach <= Len(R)
    BY <1>5, <1>6, <1>7, <1>8, <1>11, <1>13
  <2> QED BY <1>15, <2>1, ReadOn
<1> HIDE DEF read
<1>17. ASSUME of = a, NEW i \in 1 .. Len(R), Had(a, i) PROVE R[i] \in ToSet(sync.read) \/ i > p
  <2>1. \/ R[i] \in ToSet(sync.read) \/ sync.read = <<>>
        \/ \A j \in 1 .. Len(R) : R[j] = Last(sync.read) => j < i
    BY <1>3, <1>6, <1>17 DEF Had, Got, Ahead, R
  <2>2. sync.read = <<>> => i > p
    BY <1>11
  <2>3. sync.read # <<>> => p \in 1 .. Len(R) /\ R[p] = Last(sync.read)
    BY <1>6, <1>7, <1>11
  <2> QED BY <1>11, <2>1, <2>2, <2>3
<1>18. Clean(a) => of = a
  BY <1>4 DEF Clean
<1>19. CASE q = reach
  <2> DEFINE X == Said(a, read)
  <2> DEFINE names == RowNames("history", X)
  <2>1. sync' = Turn([sync EXCEPT !.found[Asked] = names], sync.turn + 1)
    BY <1>3, <1>8, <1>9, <1>14, <1>19 DEF Through, parse_brokerage_transactions_rows
  <2>2. /\ X \in Seq(Texts) /\ DOMAIN X = 1 .. Len(read)
        /\ \A k \in 1 .. Len(read) : X[k] = <<TextOf[read[k]], 0>>
    <3>1. /\ X \in Seq(Texts) /\ DOMAIN X = 1 .. Len(read)
          /\ \A k \in 1 .. Len(read) : X[k] = <<TextOf[read[k]], IF a \in Bank THEN Len(read) - k + 1 ELSE 0>>
      BY <1>16, SaidIs
    <3> QED BY <1>3, <3>1
  <2>3. of = a => DOMAIN SaidOf(a) = 1 .. Len(R) /\ \A i \in 1 .. Len(R) : SaidOf(a)[i] = <<TextOf[R[i]], 0>>
    <3> SUFFICES ASSUME of = a PROVE DOMAIN SaidOf(a) = 1 .. Len(R) /\ \A i \in 1 .. Len(R) : SaidOf(a)[i] = <<TextOf[R[i]], 0>>
      OBVIOUS
    <3>1. /\ DOMAIN Said(a, R) = 1 .. Len(R)
          /\ \A k \in 1 .. Len(R) : Said(a, R)[k] = <<TextOf[R[k]], IF a \in Bank THEN Len(R) - k + 1 ELSE 0>>
      BY <1>6, SaidIs
    <3>2. SaidOf(a) = Said(a, R)
      BY DEF SaidOf, R
    <3> QED BY <1>3, <3>1, <3>2
  <2> HIDE DEF X
  <2>4. names \in SUBSET Names /\ \A name \in names : name[1] = "history"
    BY <2>2, NamesTyped DEF Kinds
  <2>5. ASSUME odd[a] \cap {"late", "shifted", "strayed"} = {} PROVE names \subseteq RowNames("history", SaidOf(a))
    <3>1. of = a
      BY <1>4, <2>5
    <3>2. \A k \in 1 .. Len(read) : \E i \in 1 .. Len(R) : R[i] = read[k]
      <4>1. \A k \in DOMAIN read : \E i \in 1 .. q : R[i] = read[k]
        BY <1>16 DEF ReadUpTo
      <4>2. \A i \in 1 .. q : i \in 1 .. Len(R)
        BY <1>13, <1>12
      <4> QED BY <1>16, <4>1, <4>2
    <3> DEFINE f == [k \in 1 .. Len(read) |-> CHOOSE i \in 1 .. Len(R) : R[i] = read[k]]
    <3>3. \A k \in 1 .. Len(read) : f[k] \in 1 .. Len(R) /\ R[f[k]] = read[k]
      BY <3>2
    <3>4. f = [k \in 1 .. Len(read) |-> f[k]]
      OBVIOUS
    <3> HIDE DEF f
    <3>5. \A k, l \in 1 .. Len(read) : read[k] = read[l] => k = l
      BY <1>16 DEF ReadUpTo, IsInjective
    <3>6. f \in [1 .. Len(read) -> 1 .. Len(R)] /\ (\A k, l \in 1 .. Len(read) : f[k] = f[l] => k = l)
      BY <3>3, <3>4, <3>5
    <3>7. \A k \in 1 .. Len(read) : SaidOf(a)[f[k]] = X[k]
      BY <2>2, <2>3, <3>1, <3>3
    <3>8. DOMAIN X = 1 .. Len(read) /\ DOMAIN SaidOf(a) = 1 .. Len(R)
      BY <2>2, <2>3, <3>1
    <3>9. Len(read) \in Nat /\ Len(R) \in Nat
      BY <1>16, <1>12
    <3> QED BY <3>6, <3>7, <3>8, <3>9, AllNamesFit
  <2>6. ASSUME Clean(a)
        PROVE  /\ AgedIn(a, stored[a] \cup names)
               /\ "failed" \notin odd[a] => RowNames(Source(a), sync.owed[a]) \subseteq stored[a] \cup names
    <3>1. of = a
      BY <1>18, <2>6
    <3> DEFINE G == {i \in 1 .. Len(R) : R[i] \in ToSet(read)}
    <3> DEFINE g == [i \in G |-> CHOOSE k \in DOMAIN read : read[k] = R[i]]
    <3>2. \A i \in G : g[i] \in DOMAIN read /\ read[g[i]] = R[i]
      BY DEF ToSet
    <3>3. g = [i \in G |-> g[i]] /\ G \subseteq 1 .. Len(R)
      OBVIOUS
    <3>4. \A i, j \in 1 .. Len(R) : R[i] = R[j] => i = j
      BY <1>6 DEF IsInjective
    <3> HIDE DEF g
    <3>5. ASSUME NEW i \in 1 .. Len(R), Had(a, i), i \notin G PROVE sync.frame = "Last6Months" /\ i \in AgedOf(a)
      <4>1. R[i] \in ToSet(sync.read) \/ i > p
        BY <1>17, <3>1, <3>5
      <4>2. i > reach
        BY <1>7, <1>11, <1>16, <1>19, <3>5, <4>1
      <4>3. sync.frame \in {"All", "Last6Months"}
        BY <1>5 DEF Sync
      <4>4. sync.frame = "Last6Months" /\ i \in Len(R) - aged[a] + 1 .. Len(R)
        <5>1. aged[a] \in Nat /\ aged[a] <= Len(R) /\ reach = (IF sync.frame = "All" THEN Len(R) ELSE Len(R) - aged[a])
          BY <1>6, <1>7, <3>1
        <5>2. sync.frame # "All"
          BY <1>12, <3>5, <4>2, <5>1
        <5>3. reach = Len(R) - aged[a] /\ sync.frame = "Last6Months"
          BY <4>3, <5>1, <5>2
        <5> QED BY <1>12, <3>5, <4>2, <5>1, <5>3
      <4> QED BY <3>1, <4>4 DEF AgedOf, R
    <3>6. \A i \in 1 .. Len(R) : Had(a, i) => i \in G \/ (sync.frame = "Last6Months" /\ i \in AgedOf(a))
      BY <3>5
    <3> HIDE DEF G
    <3>7. g \in [G -> DOMAIN X] /\ \A i, j \in G : g[i] = g[j] => i = j
      <4>1. DOMAIN read = DOMAIN X
        BY <1>16, <2>2
      <4> QED BY <3>2, <3>3, <3>4, <4>1
    <3>8. \A i \in G : X[g[i]] = SaidOf(a)[i]
      <4>1. \A i \in G : i \in 1 .. Len(R) /\ g[i] \in 1 .. Len(read) /\ read[g[i]] = R[i]
        BY <1>16, <3>2, <3>3
      <4> QED BY <2>2, <2>3, <3>1, <4>1
    <3>9. DOMAIN SaidOf(a) = 1 .. Len(R)
      BY <2>3, <3>1
    <3>10. Covers(a, X, G, g)
      BY <3>3, <3>6, <3>7, <3>8, <3>9 DEF Covers
    <3>11. Source(a) = "history"
      BY <1>3 DEF Source
    <3>12. /\ AgedIn(a, stored[a] \cup RowNames(Source(a), X))
           /\ "failed" \notin odd[a] => RowNames(Source(a), sync.owed[a]) \subseteq stored[a] \cup RowNames(Source(a), X)
      BY <1>5, <2>2, <2>6, <3>10, ReadThrough
    <3> QED BY <3>11, <3>12
  <2> HIDE DEF names
  <2>7. /\ \A name \in names : name[1] \in IF Asked \in Bank THEN {"banking"} ELSE {"history", "export"}
        /\ odd'[Asked] \cap {"late", "shifted", "strayed"} = {} =>
             names \subseteq UNION {RowNames(source, SaidOf(Asked)) : source \in {"history", "banking", "export"}}
        /\ odd'[Asked] \cap {"late", "unread", "strayed"} = {} =>
             /\ names # {} => AgedIn(Asked, stored[Asked] \cup names)
             /\ "failed" \notin odd'[Asked] => RowNames(Source(Asked), sync.owed[Asked]) \subseteq stored[Asked] \cup names
    <3>1. a = Asked /\ odd'[Asked] = odd[a] /\ RowNames("history", SaidOf(a)) = RowNames("history", SaidOf(Asked))
      BY <1>2, <1>3
    <3>2. odd'[Asked] \cap {"late", "shifted", "strayed"} = {} =>
             names \subseteq UNION {RowNames(source, SaidOf(Asked)) : source \in {"history", "banking", "export"}}
      BY <2>5, <3>1
    <3>3. \A name \in names : name[1] \in IF Asked \in Bank THEN {"banking"} ELSE {"history", "export"}
      BY <1>3, <2>4
    <3> QED BY <2>6, <3>1, <3>2, <3>3 DEF Clean
  <2>8. \A b \in Accounts : odd[b] \subseteq odd'[b]
    BY <1>2
  <2>9. odd' \in [Accounts -> SUBSET {"late", "shifted", "unread", "failed", "strayed"}]
    BY <1>2, <1>5
  <2> QED BY <1>2, <2>1, <2>4, <2>7, <2>8, <2>9, ThroughKeeps
<1>20. CASE q # reach
  <2>1. sync' = [sync EXCEPT !.read = read, !.page = sync.page + 1]
    BY <1>8, <1>14, <1>20
  <2>2. /\ sync'.at = "page" /\ sync'.turn = sync.turn /\ sync'.answer = sync.answer /\ sync'.owed = sync.owed
        /\ sync'.frame = sync.frame /\ sync'.page = sync.page + 1 /\ sync'.read = read
        /\ sync' = [sync EXCEPT !.frame = sync.frame, !.page = sync.page + 1, !.read = read]
    BY <1>2, <1>5, <2>1 DEF Sync
  <2>3. Asked' = a /\ Paging(a)'
    BY <1>3, <2>2 DEF Asked, Paging
  <2>4. Asking' = of
    <3>1. Asking' = history_id(sync.answer, Asked)'
      BY <1>3, <2>3 DEF Asking
    <3>2. history_id(sync.answer, Asked)' = history_id(sync.answer, a)
      BY <2>2, <2>3 DEF history_id
    <3> QED BY <1>4, <3>1, <3>2
  <2>5. InReach(of)' = reach /\ rows'[of] = R
    BY <1>2, <2>2 DEF InReach, reach, R
  <2>6. ToSet(sync.read)' = ToSet(read)
    BY <2>2 DEF ToSet
  <2>7. read # <<>> => q \in 1 .. Len(R) /\ R[q] = Last(read)
    <3>1. read # <<>> => q >= 1 /\ R[q] = Last(read)
      BY <1>16 DEF ReadUpTo
    <3> QED BY <1>13, <1>12, <3>1
  <2>8. \A i, j \in 1 .. Len(R) : R[i] = R[j] => i = j
    BY <1>6 DEF IsInjective
  <2>9. InOrder'
    <3>1. \A k \in DOMAIN read : \E i \in 1 .. reach : R[i] = read[k]
      <4>1. \A k \in DOMAIN read : \E i \in 1 .. q : R[i] = read[k]
        BY <1>16 DEF ReadUpTo
      <4>2. \A i \in 1 .. q : i \in 1 .. reach
        BY <1>7, <1>13
      <4> QED BY <4>1, <4>2
    <3>2. ASSUME read # <<>>, NEW i \in 1 .. Len(R), NEW j \in 1 .. Len(R), R[i] \in ToSet(read), R[j] = Last(read)
          PROVE  i <= j
      <4>1. PICK k \in DOMAIN read : read[k] = R[i]
        BY <3>2 DEF ToSet
      <4>2. PICK l \in 1 .. q : R[l] = R[i]
        BY <1>16, <4>1 DEF ReadUpTo
      <4>3. l \in 1 .. Len(R)
        BY <1>13, <1>12
      <4>4. l = i /\ q = j
        BY <2>7, <2>8, <3>2, <4>2, <4>3
      <4> QED BY <1>13, <4>2, <4>4
    <3>3. IsInjective(read)
      BY <1>16 DEF ReadUpTo
    <3>4. read # <<>> => \A i, j \in 1 .. Len(R) : R[i] \in ToSet(read) /\ R[j] = Last(read) => i <= j
      BY <3>2
    <3>5. /\ InReach(Asking)' = reach /\ rows'[Asking'] = R
      BY <2>4, <2>5 DEF InReach
    <3> QED BY <1>6, <2>2, <2>4, <2>6, <3>1, <3>3, <3>4, <3>5 DEF InOrder, IsInjective, Last
  <2>10. ByPages'
    BY <1>3, <2>3 DEF ByPages
  <2>11. ReadWell(a)'
    <3>1. ASSUME of = a, NEW i \in 1 .. Len(R), Had(a, i) PROVE Had(a, i)'
      <4>1. R[i] \in ToSet(sync.read) \/ i > p
        BY <1>17, <3>1
      <4>2. R[i] \in ToSet(read) \/ i > q
        BY <1>11, <1>13, <1>16, <4>1
      <4>3. i > q => read = <<>> \/ \A j \in 1 .. Len(R) : R[j] = Last(read) => j < i
        BY <2>7, <2>8, <1>13
      <4>4. Had(a, i)' = (R[i] \in ToSet(read) \/ read = <<>> \/ \A j \in 1 .. Len(R) : R[j] = Last(read) => j < i)
        <5>1. rows'[a] = R /\ DOMAIN rows'[a] = 1 .. Len(R) /\ sync'.read = read /\ Last(sync.read)' = Last(read)
          BY <1>6, <2>2, <2>5, <3>1 DEF Last
        <5> QED BY <1>3, <2>6, <5>1 DEF Had, Got, Ahead
      <4> QED BY <4>2, <4>3, <4>4
    <3>2. Clean(a) => \A i \in 1 .. Len(rows[a]) : Had(a, i) => Had(a, i)'
      BY <1>18, <3>1 DEF R
    <3>3. ReadWell(a) /\ SchwabTypes /\ Paging(a)
      BY <1>1, <1>5
    <3> QED BY <1>2, <2>2, <3>2, <3>3, ReadOnKeeps
  <2> DEFINE frame == sync.frame
  <2> DEFINE page == sync.page + 1
  <2>12. /\ frame \in {"All", "Last6Months"} /\ page \in 0 .. SchwabPages
         /\ read \in Seq(IF Asked \in Bank THEN Texts ELSE Rows)
         /\ sync' = [sync EXCEPT !.frame = frame, !.page = page, !.read = read]
         /\ a = Asked /\ sync.at = "page"
    BY <1>2, <1>3, <1>5, <1>16, <2>2 DEF Sync
  <2> HIDE DEF frame, page
  <2>13. /\ \A b \in Accounts : odd[b] \subseteq odd'[b]
         /\ odd' \in [Accounts -> SUBSET {"late", "shifted", "unread", "failed", "strayed"}]
         /\ rows' = rows /\ aged' = aged /\ stored' = stored
    BY <1>2, <1>5
  <2> QED BY <2>9, <2>10, <2>11, <2>12, <2>13, PageGoesOn
<1> QED BY <1>19, <1>20

\* The balances are those of the accounts of the last sync.
Worth == \E A \in SUBSET Accounts : balances = [a \in Accounts |-> IF a \in A THEN account_balances(a) ELSE {}]

\* Every step of Schwab's sync keeps what is known of it.
LEMMA SchwabKeeps ==
  ASSUME SchwabInv, [SchwabNext]_schwabVars
  PROVE  SchwabInv'
<1>1. CASE \E r \in Rows, place \in 1 .. Cardinality(Rows) : RowComes(r, place)
  BY <1>1, RowComesKeeps
<1>2. CASE \E a \in Accounts : Age(a)
  BY <1>2, AgeKeeps
<1>3. CASE \E a \in Accounts : import_schwab_transactions(a)
  BY <1>3, ImportKeeps
<1>4. CASE \E full \in BOOLEAN, answer \in Answers : SchwabStart(full, answer)
  BY <1>4, SchwabStartKeeps
<1>5. CASE \E n \in 0 .. 2 : BrokeragePage(n)
  <2>1. PICK n \in 0 .. 2 : BrokeragePage(n)
    BY <1>5
  <2>2. n \in Nat
    OBVIOUS
  <2> QED BY <2>1, <2>2, BrokeragePageKeeps
<1>6. CASE BankingPage
  BY <1>6, BankingPageKeeps
<1>7. CASE PageFails
  BY <1>7, PageFailsKeeps
<1>8. CASE SchwabSave
  BY <1>8, SaveKeeps
<1>9. CASE SchwabReturn
  <2>1. sync' = NoSync /\ rows' = rows /\ aged' = aged /\ stored' = stored /\ odd' = [a \in Accounts |-> odd[a] \ {"failed"}]
    BY <1>9 DEF SchwabReturn
  <2>2. odd \in [Accounts -> SUBSET {"late", "shifted", "unread", "failed", "strayed"}]
    BY DEF SchwabInv, SchwabTypes
  <2>3. /\ odd' \in [Accounts -> SUBSET {"late", "shifted", "unread", "failed", "strayed"}]
        /\ \A a \in Accounts : odd[a] \ {"failed"} \subseteq odd'[a]
    BY <2>1, <2>2
  <2> QED BY <2>1, <2>3, ReturnKeeps
<1>10. CASE UNCHANGED schwabVars
  <2>1. rows' = rows /\ aged' = aged /\ stored' = stored /\ sync' = sync /\ odd' = odd
    BY <1>10 DEF schwabVars
  <2>2. \A a \in Accounts : AccountInv(a)'
    <3>1. \A a \in Accounts : AccountInv(a)
      BY DEF SchwabInv, AccountInv
    <3> QED BY <2>1, <3>1, Elsewhere
  <2>3. Asked' = Asked /\ Asking' = Asking /\ NoSync' = NoSync /\ Last(sync.read)' = Last(sync.read)
        /\ ToSet(sync.read)' = ToSet(sync.read) /\ ToSet(sync.answer.accounts)' = ToSet(sync.answer.accounts)
    BY <2>1 DEF Asked, Asking, NoSync, Last, ToSet, history_id
  <2>4. \A a : /\ SaidOf(a)' = SaidOf(a) /\ InReach(a)' = InReach(a)
               /\ history_id(sync.answer, a)' = history_id(sync.answer, a)
    BY <2>1 DEF SaidOf, Said, InReach, history_id
  <2>5. SchwabTypes'
    BY <2>1 DEF SchwabInv, SchwabTypes, IsInjective
  <2>6. SyncStage'
    BY <2>1, <2>3, <2>4 DEF SchwabInv, SyncStage
  <2>7. Apart'
    BY <2>1, <2>4 DEF SchwabInv, Apart
  <2>8. InReach(Asking)' = InReach(Asking) /\ InReach(Asked)' = InReach(Asked) /\ SaidOf(Asked)' = SaidOf(Asked)
    BY <2>1, <2>3 DEF SaidOf, Said, InReach
  <2>9. InOrder'
    BY <2>1, <2>3, <2>8 DEF SchwabInv, InOrder, IsInjective
  <2>10. ByPages'
    BY <2>1, <2>3, <2>8 DEF SchwabInv, ByPages
  <2> QED BY <2>2, <2>5, <2>6, <2>7, <2>9, <2>10 DEF SchwabInv, AccountInv
<1> QED BY <1>1, <1>2, <1>3, <1>4, <1>5, <1>6, <1>7, <1>8, <1>9, <1>10 DEF SchwabNext

\* What a sync of Schwab keeps, of rows, names and pages.
THEOREM SchwabInvariant == SchwabSpec => []SchwabInv
<1>1. SchwabInit => SchwabInv
  BY SchwabStart0
<1>2. SchwabInv /\ [SchwabNext]_schwabVars => SchwabInv'
  BY SchwabKeeps
<1> QED BY <1>1, <1>2, PTL DEF SchwabSpec

\* Only a sync that is saved changes the balances.
LEMMA WorthAlways == SchwabSpec => []Worth
<1>1. SchwabInit => Worth
  BY DEF SchwabInit, Worth
<1>2. Worth /\ [SchwabNext]_schwabVars => Worth'
  <2> SUFFICES ASSUME Worth, [SchwabNext]_schwabVars PROVE Worth'
    OBVIOUS
  <2>1. \A a : account_balances(a)' = account_balances(a)
    BY DEF account_balances
  <2>2. CASE SchwabSave
    <3> DEFINE A == ToSet(sync.answer.accounts) \cap Accounts
    <3>1. balances' = [a \in Accounts |-> IF a \in A THEN account_balances(a) ELSE {}]
      BY <2>2 DEF SchwabSave
    <3> HIDE DEF A
    <3> QED BY <2>1, <3>1 DEF A, Worth
  <2>3. CASE ~SchwabSave
    <3>1. balances' = balances
      BY <2>3 DEF SchwabNext, schwabVars, RowComes, Age, import_schwab_transactions, SchwabStart, BrokeragePage,
                  BankingPage, PageFails, SchwabReturn
    <3> QED BY <2>1, <3>1 DEF Worth
  <2> QED BY <2>2, <2>3
<1> QED BY <1>1, <1>2, PTL DEF SchwabSpec

\* Positions and the balances made of them correspond one to one.
LEMMA PositionsCount ==
  ASSUME NEW a \in Brokerage,
         {p \in Positions : p.symbol = "CASH"} = {[symbol |-> "CASH", quantity |-> CashOf[a]]}
  PROVE  \E balance \in Bijection(Positions, account_balances(a)) : \A p \in Positions : balance[p].quantity = p.quantity
<1> DEFINE usd == [symbol |-> "USD", quantity |-> CashOf[a]]
<1> DEFINE B == {p \in Positions : p.symbol # "CASH"} \cup {usd}
<1> DEFINE balance == [p \in Positions |-> IF p.symbol = "CASH" THEN usd ELSE p]
<1>1. account_balances(a) = B
  BY SchwabAssumption DEF account_balances
<1>2. \A p \in Positions : p.symbol # "USD"
  BY SchwabAssumption
<1>3. usd.symbol = "USD" /\ usd.quantity = CashOf[a]
  OBVIOUS
<1>4. \E p \in Positions : p.symbol = "CASH"
  OBVIOUS
<1>5. \A p, r \in Positions : p.symbol = "CASH" /\ r.symbol = "CASH" => p = r /\ p.quantity = CashOf[a]
  <2>1. \A p \in Positions : p.symbol = "CASH" => p = [symbol |-> "CASH", quantity |-> CashOf[a]]
    OBVIOUS
  <2> QED BY <2>1
<1> HIDE DEF usd
<1>6. balance \in [Positions -> B] /\ \A p \in Positions : balance[p] = IF p.symbol = "CASH" THEN usd ELSE p
  OBVIOUS
<1>7. \A t \in B : \E p \in Positions : balance[p] = t
  BY <1>4, <1>6
<1> HIDE DEF balance
<1>8. \A p, r \in Positions : balance[p] = balance[r] => p = r
  BY <1>2, <1>3, <1>5, <1>6
<1>9. \A p \in Positions : balance[p].quantity = p.quantity
  BY <1>3, <1>5, <1>6
<1> HIDE DEF B
<1>10. balance \in Bijection(Positions, B)
  BY <1>6, <1>7, <1>8 DEF Bijection, Injection, Surjection, IsInjective
<1> QED BY <1>1, <1>9, <1>10

\* RowsAndMoneyOnce holds of Schwab's sync.
THEOREM RowsAndMoneyStored == SchwabSpec => []RowsAndMoneyOnce
<1>1. SchwabInv => NoRowMissed
  <2> SUFFICES ASSUME SchwabInv, sync.at = "done", NEW a \in Accounts,
                      odd[a] \cap {"late", "unread", "failed", "strayed"} = {}
               PROVE  RowNames(Source(a), sync.owed[a]) \subseteq stored[a]
    BY DEF NoRowMissed, Source
  <2>1. FoundWell(a) /\ sync.found[a] \subseteq stored[a]
    BY DEF SchwabInv, SyncStage
  <2>2. ~Paging(a) /\ Clean(a) /\ "failed" \notin odd[a]
    BY DEF Paging, Clean
  <2> QED BY <2>1, <2>2 DEF FoundWell
<1>2. SchwabInv => NoPhantom
  BY DEF SchwabInv, Real, NoPhantom, SaidOf
<1>3. Worth => WorthOnce
  <2> SUFFICES ASSUME Worth PROVE WorthOnce
    OBVIOUS
  <2>1. PICK A \in SUBSET Accounts : balances = [a \in Accounts |-> IF a \in A THEN account_balances(a) ELSE {}]
    BY DEF Worth
  <2>2. \A a \in Accounts : balances[a] # {} => balances[a] = account_balances(a)
    BY <2>1
  <2> DEFINE synced == {a \in Accounts : balances[a] # {}}
  <2>3. ASSUME NEW a \in Brokerage, synced \cap Brokerage = {a},
               {p \in Positions : p.symbol = "CASH"} = {[symbol |-> "CASH", quantity |-> CashOf[a]]}
        PROVE  \E balance \in Bijection(Positions, balances[a]) : \A p \in Positions : balance[p].quantity = p.quantity
    <3>1. balances[a] = account_balances(a)
      BY <2>2, <2>3
    <3> QED BY <2>3, <3>1, PositionsCount
  <2>4. ASSUME NEW a \in synced \cap Bank PROVE \E p \in balances[a] : balances[a] = {p} /\ p.quantity = BalanceOf[a]
    <3>1. balances[a] = {[symbol |-> "USD", quantity |-> BalanceOf[a]]}
      BY <2>2, <2>4 DEF account_balances
    <3> QED BY <3>1
  <2> QED BY <2>3, <2>4 DEF WorthOnce
<1> QED BY <1>1, <1>2, <1>3, SchwabInvariant, WorthAlways, PTL DEF RowsAndMoneyOnce

\* SchwabTypeOK holds of Schwab's sync.
THEOREM SchwabTypeHolds == SchwabSpec => []SchwabTypeOK
<1>1. SchwabInv => SchwabTypeOK
  <2> SUFFICES ASSUME SchwabInv PROVE SchwabTypeOK
    OBVIOUS
  <2>1. SchwabTypes
    BY DEF SchwabInv
  <2>2. ASSUME NEW a \in Accounts
        PROVE  /\ ToSet(rows[a]) \subseteq Rows /\ aged[a] \in 0 .. Len(rows[a])
               /\ odd[a] \subseteq {"late", "shifted", "unread", "failed", "strayed"}
    <3>1. /\ rows[a] \in Seq(Rows) /\ aged[a] \in Nat /\ aged[a] <= Len(rows[a])
          /\ odd[a] \subseteq {"late", "shifted", "unread", "failed", "strayed"}
      BY <2>1, SchwabParts
    <3> QED BY <3>1 DEF ToSet
  <2>3. sync \in Sync
    BY <2>1 DEF SchwabTypes
  <2> QED BY <2>2, <2>3 DEF SchwabTypeOK, Sync
<1> QED BY <1>1, SchwabInvariant, PTL
=============================================================================
