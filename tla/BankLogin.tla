----------------------------- MODULE BankLogin -----------------------------
(***************************************************************************)
(* Signing in to banks that have no API of their own: Chase and Schwab     *)
(* (sync/synchronizers/{chase,schwab}.rs, credentials/session.rs,          *)
(* sync/service.rs, app/sync.rs).  Several processes (the daemon, the      *)
(* user's commands) share a file with the session of each connection, and  *)
(* for Chase a browser profile.  A session is the number of the sign-in,   *)
(* or of the later change of cookies, that made it.                        *)
(***************************************************************************)
EXTENDS Naturals, FiniteSets

CONSTANTS
    Processes,
    Prompting,       \* those with somebody to ask, or told to log in by themselves
    Connections,
    ChaseOnes,       \* the others are Schwab's
    MaxSessions, MaxMishaps

ASSUME LoginAssumption == ChaseOnes \subseteq Connections

VARIABLES
    cache,       \* the session file, by connection: [session, old], session 0: none
    good,        \* the sessions the bank accepts
    latest,      \* number of the last session
    profile,     \* the session of the browser profile (Chase), 0: signed out
    proc,        \* what each process is doing: [at, of, session]
    browser,     \* processes with a browser open
    changed,     \* processes under whose hands the bank changed or revoked sessions: since they
                 \* started, or for Chase, which tries them, since they captured one
    mishaps

loginVars == <<cache, good, latest, profile, proc, browser, changed, mishaps>>

NoProc == [at |-> "idle", of |-> CHOOSE c \in Connections : TRUE, session |-> 0, login |-> FALSE]
Mishap == mishaps < MaxMishaps /\ mishaps' = mishaps + 1
At(p, place) == proc[p].at = place
Go(p, place) == proc' = [proc EXCEPT ![p].at = place]
(* mutant: the browser stays open *)
Ends_BrowserStays(p) == proc' = [proc EXCEPT ![p] = NoProc] /\ browser' = browser
(* The end of a command, or AuthRequired, or an error. *)
Ends(p) == proc' = [proc EXCEPT ![p] = NoProc] /\ browser' = browser \ {p}
Others(p) == {q \in Processes \ {p} : proc[q].at # "idle" /\ proc[q].of = proc[p].of}

----------------------------------------------------------------------------
LoginInit ==
    /\ cache = [c \in Connections |-> [session |-> 0, old |-> FALSE]]
    /\ good = [c \in Connections |-> {}]
    /\ latest = 0
    /\ profile = [c \in Connections |-> 0]
    /\ proc = [p \in Processes |-> NoProc]
    /\ browser = {} /\ changed = {}
    /\ mishaps = 0

(* The bank revokes its sessions. *)
Revoke(c) ==
    /\ good[c] # {} /\ Mishap
    /\ good' = [good EXCEPT ![c] = {}]
    /\ changed' = changed \cup {p \in Processes : proc[p].of = c}
    /\ UNCHANGED <<cache, latest, profile, proc, browser>>

(* A page that is opened gets new cookies; the old ones end. *)
Rotate(p) ==
    LET c == proc[p].of IN
    /\ p \in browser /\ profile[c] \in good[c] /\ latest < MaxSessions
    /\ latest' = latest + 1
    /\ good' = [good EXCEPT ![c] = {latest'}]
    /\ profile' = [profile EXCEPT ![c] = latest']
    /\ changed' = changed \cup {q \in Processes : proc[q].of = c}
    /\ UNCHANGED <<cache, proc, browser, mishaps>>

GrowsOld(c) ==
    /\ cache[c].session # 0 /\ ~cache[c].old /\ Mishap
    /\ cache' = [cache EXCEPT ![c].old = TRUE]
    /\ UNCHANGED <<good, latest, profile, proc, browser, changed>>

Start(p, c, login) ==
    /\ At(p, "idle") /\ (login => p \in Prompting)
    /\ proc' = [proc EXCEPT ![p] = [at |-> IF login THEN "login" ELSE "check", of |-> c, session |-> 0,
                                    login |-> login]]
    /\ changed' = changed \ {p}
    /\ UNCHANGED <<cache, good, latest, profile, browser, mishaps>>

(* Missing, expired, or valid by a request to the bank, which may fail for *)
(* other reasons.                                                          *)
check_auth(p) ==
    LET c == proc[p].of
        valid == cache[c].session # 0 /\ ~cache[c].old /\ cache[c].session \in good[c]
    IN  /\ At(p, "check")
        /\ \/ valid /\ Go(p, "sync") /\ UNCHANGED mishaps
           \/ ~valid /\ Go(p, "ask") /\ UNCHANGED mishaps
           \/ valid /\ Go(p, "ask") /\ Mishap
        /\ UNCHANGED <<cache, good, latest, profile, browser, changed>>

ensure_interactive_auth(p, yes) ==
    /\ At(p, "ask")
    /\ \/ p \in Prompting /\ yes /\ Go(p, "login") /\ UNCHANGED browser
       \/ ~(p \in Prompting /\ yes) /\ Ends(p)
    /\ UNCHANGED <<cache, good, latest, profile, changed, mishaps>>

(* mutant: leaves the others their browser *)
kill_profile_browser_processes_None(p) == {}
(* A login for Chase ends the browsers on the same profile. *)
kill_profile_browser_processes(p) == IF proc[p].of \in ChaseOnes THEN Others(p) ELSE {}

login(p) ==
    /\ At(p, "login")
    /\ browser' = (browser \ kill_profile_browser_processes(p)) \cup {p}
    /\ Go(p, "page")
    /\ UNCHANGED <<cache, good, latest, profile, changed, mishaps>>

(* With autofill or without, somebody signs in, or the profile still is;   *)
(* or it takes too long.                                                   *)
SignIn(p) ==
    LET c == proc[p].of IN
    /\ At(p, "page") /\ p \in browser
    /\ \/ /\ latest < MaxSessions
          /\ latest' = latest + 1
          /\ good' = [good EXCEPT ![c] = @ \cup {latest'}]
          /\ profile' = [profile EXCEPT ![c] = latest']
       \/ c \in ChaseOnes /\ profile[c] \in good[c] /\ UNCHANGED <<latest, good, profile>>
    /\ Go(p, "capture")
    /\ UNCHANGED <<cache, browser, changed, mishaps>>

LoginFails(p) ==
    /\ proc[p].at \in {"page", "capture", "probe"} /\ Ends(p)
    /\ p \in browser => Mishap
    /\ p \notin browser => UNCHANGED mishaps
    /\ UNCHANGED <<cache, good, latest, profile, changed>>

(* Cookies, or the token of a request the page makes. *)
session_from_page(p) ==
    /\ At(p, "capture") /\ p \in browser
    /\ proc' = [proc EXCEPT ![p].at = "probe", ![p].session = profile[proc[p].of]]
    /\ changed' = IF proc[p].of \in ChaseOnes THEN changed \ {p} ELSE changed
    /\ UNCHANGED <<cache, good, latest, profile, browser, mishaps>>

(* browser_test_auth: the browser asks, with what it has by now. *)
Accepted(c) == profile[c] \in good[c]

(* SessionCache::set. *)
SetSession(c, session) == cache' = [cache EXCEPT ![c] = [session |-> session, old |-> FALSE]]
LoggedIn(p) ==
    /\ SetSession(proc[p].of, proc[p].session)
    /\ IF proc[p].login THEN Ends(p) ELSE Go(p, "sync") /\ browser' = browser \ {p}

(* Chase is tried in the browser, after one more page, and captured again  *)
(* if it is not ready.                                                     *)
wait_for_valid_api_session(p) ==
    LET c == proc[p].of IN
    /\ At(p, "probe") /\ p \in browser /\ c \in ChaseOnes
    /\ IF Accepted(c) THEN LoggedIn(p) ELSE Go(p, "capture") /\ UNCHANGED <<cache, browser>>
    /\ UNCHANGED <<good, latest, profile, changed, mishaps>>

(* What was captured for Schwab is not tried. *)
SchwabLoginDone(p) ==
    /\ At(p, "probe") /\ p \in browser /\ proc[p].of \notin ChaseOnes /\ LoggedIn(p)
    /\ UNCHANGED <<good, latest, profile, changed, mishaps>>

(* sync_internal reads the session again; Chase falls back on a browser,   *)
(* which has the cookies of the session and those of the profile.          *)
sync_internal_auth(p) ==
    LET c == proc[p].of
        direct == cache[c].session \in good[c]
        there == {cache[c].session, profile[c]} \cap good[c]
    IN  /\ At(p, "sync")
        /\ \/ direct /\ Ends(p) /\ UNCHANGED profile
           \/ ~direct /\ Ends(p) /\ UNCHANGED profile
           \/ ~direct /\ c \in ChaseOnes /\ cache[c].session # 0 /\ there # {} /\ Others(p) \cap browser = {}
              /\ browser' = browser \cup {p} /\ Go(p, "fetch")
              /\ profile' = [profile EXCEPT ![c] = CHOOSE s \in there : TRUE]
        /\ UNCHANGED <<cache, good, latest, changed, mishaps>>

(* When it is through, the cookies of the browser are the new session.     *)
capture_session(p) ==
    LET c == proc[p].of IN
    /\ At(p, "fetch")
    /\ \/ p \in browser /\ SetSession(c, profile[c])
       \/ p \notin browser /\ UNCHANGED cache
    /\ Ends(p)
    /\ UNCHANGED <<good, latest, profile, changed, mishaps>>

LoginNext ==
    \/ \E c \in Connections : Revoke(c) \/ GrowsOld(c)
    \/ \E p \in Processes :
        \/ Rotate(p) \/ check_auth(p) \/ login(p) \/ SignIn(p) \/ LoginFails(p) \/ session_from_page(p)
        \/ wait_for_valid_api_session(p) \/ SchwabLoginDone(p) \/ sync_internal_auth(p) \/ capture_session(p)
        \/ \E c \in Connections, direct \in BOOLEAN : Start(p, c, direct)
        \/ \E yes \in BOOLEAN : ensure_interactive_auth(p, yes)

LoginSpec == LoginInit /\ [][LoginNext]_loginVars

----------------------------------------------------------------------------
LoginTypeOK ==
    /\ \A c \in Connections : cache[c].session \in 0 .. latest /\ good[c] \subseteq 1 .. latest
    /\ browser \subseteq {p \in Processes : proc[p].at \in {"page", "capture", "probe", "fetch"}}

(* A login stores a session the bank accepts, the one of the last sign-in  *)
(* or a later one, unless the bank changed it after it was captured: for   *)
(* Chase the cookies are captured, another page is opened, and then the    *)
(* browser is tried and not what was captured (chase.rs:1619).             *)
StoresWhatWorks ==
    [][\A p \in Processes \ changed : \A c \in Connections :
           proc[p].at = "probe" /\ proc'[p].at # "probe" /\ cache'[c].session # cache[c].session
           => cache'[c].session \in good[c]]_loginVars

(* A Chase session is never replaced by one from before it.  A sync that   *)
(* fell back on the browser stores its cookies when it is through, maybe   *)
(* long after somebody signed in anew; the login has ended that browser.   *)
NewestSessionKept ==
    [][\A c \in ChaseOnes : cache'[c].session >= cache[c].session]_loginVars

(* The stored session is a good one as far as anyone can know.             *)
SessionsLast == StoresWhatWorks /\ NewestSessionKept
=============================================================================
