------------------------------ MODULE Sessions ------------------------------
(***************************************************************************)
(* handleLogin, handleLogout, validSession, auth and the check at the head *)
(* of handleShutdown, over the settings that a logged-in request changes.  *)
(* A login compares the name, reads the salt and compares the hash without *)
(* a lock, and puts its session into the map under s.mu afterwards; a      *)
(* request is admitted under s.mu and goes on whatever happens to its      *)
(* session then.  A start of the program begins with an empty map.         *)
(*                                                                         *)
(* Time is only whether a session is past its twelve hours.  A session is  *)
(* named after the login that made it: its id is random.                   *)
(*                                                                         *)
(* guarded says what a behaviour is about: with it changes of the settings *)
(* have to pass auth, among logins and other requests; without it changes  *)
(* come from people who are logged in, as Settings has them.               *)
(***************************************************************************)
EXTENDS Settings

CONSTANTS Logins, Visits,
          Names, Words,    \* the names and passwords people try
          Changes,         \* the changes of settings that have to pass auth
          ChangeBodies, ChangeFiles, ChangeHabits, ChangeCrashes
                           \* bounds: what they ask for, the first file, serial, and
                           \* the crashes with them

ASSUME ChangeAssumption == Changes \subseteq Posts /\ ChangeBodies \subseteq Bodies

NoCookie == "no cookie"
NoToken  == ""             \* shutdownToken of an instance in the foreground

VARIABLES guarded,
          shutdownToken,   \* NoToken or the token of this daemon
          sessions,        \* s.sessions: a session is live, late (past its end) or none
          login,           \* logins: at, user, password, salt read, and the pairs of name
                           \* and password that were in force while the login ran
          visit            \* requests: at, cookie, and whether the session had ended when
                           \* the request came; of a shutdown also its token and origin

sessionVars == <<sessions, login, visit>>
allVars     == <<vars, guarded, shutdownToken, sessionVars>>

Requests    == Visits \cup Posts
Under(l)    == login[l].at \in {"name", "salt", "hash", "insert"}
NewLogin    == [at |-> "idle", user |-> "", password |-> "", salt |-> NoSalt, pairs |-> {}]
NewVisit    == [at |-> "idle", cookie |-> NoCookie, ended |-> FALSE, shutdown |-> FALSE,
                token |-> NoToken, here |-> TRUE]

SessionsTypeOK ==
  /\ sessions \in [Logins -> {"none", "live", "late"}]
  /\ \A l \in Logins : login[l].at \in {"idle", "name", "salt", "hash", "insert", "in", "denied", "lost"}
  /\ \A r \in Requests : visit[r].at \in {"idle", "arrived", "served", "refused", "lost"}
  /\ \A l \in Logins : sessions[l] # "none" => login[l].at = "in"

SessionsInit ==
  /\ Init
  /\ guarded \in BOOLEAN
  /\ shutdownToken \in IF guarded THEN {NoToken, "token"} ELSE {NoToken}
  /\ guarded => file \in ChangeFiles /\ serial \in ChangeHabits
  /\ sessions = [l \in Logins |-> "none"]
  /\ login = [l \in Logins |-> NewLogin]
  /\ visit = [r \in Requests |-> NewVisit]

-------------------------------------------------------------------------------
(* handleLogin and handleLogout *)

LogIn(l, u, p) ==
  /\ Serving /\ login[l].at = "idle"
  /\ login' = [login EXCEPT ![l] = [at |-> "name", user |-> u, password |-> p, salt |-> NoSalt,
                                    pairs |-> {<<mem.user, mem.hash.password>>}]]
  /\ UNCHANGED <<sessions, visit>>

Step(l, there) == login' = [login EXCEPT ![l].at = there] /\ UNCHANGED visit

\* Mutant: the name is not compared.
AnyName(l) ==
  /\ login[l].at = "name"
  /\ Step(l, "salt") /\ UNCHANGED sessions

CompareName(l) ==
  /\ login[l].at = "name"
  /\ Step(l, IF login[l].user = mem.user THEN "salt" ELSE "denied") /\ UNCHANGED sessions

ReadSalt(l) ==
  /\ login[l].at = "salt"
  /\ login' = [login EXCEPT ![l].at = "hash", ![l].salt = mem.salt]
  /\ UNCHANGED <<sessions, visit>>

CompareHash(l) ==
  /\ login[l].at = "hash"
  /\ Step(l, IF Hash(login[l].password, login[l].salt) = mem.hash THEN "insert" ELSE "denied")
  /\ UNCHANGED sessions

InsertSession(l) ==
  /\ login[l].at = "insert"
  /\ sessions' = [sessions EXCEPT ![l] = "live"]
  /\ Step(l, "in")

\* Whoever has the cookie; a cookie of an earlier start names no session.
LogOut(l) ==
  /\ Serving /\ login[l].at = "in"
  /\ sessions' = [sessions EXCEPT ![l] = "none"]
  /\ UNCHANGED <<login, visit>>

\* Twelve hours pass.
Age(l) ==
  /\ sessions[l] = "live"
  /\ sessions' = [sessions EXCEPT ![l] = "late"]
  /\ UNCHANGED <<login, visit>>

-------------------------------------------------------------------------------
(* validSession, auth and handleShutdown *)

Cookies == {NoCookie} \cup {l \in Logins : login[l].at = "in"}
Live(c) == c # NoCookie /\ sessions[c] = "live"

Arrive(r, c) ==
  /\ Serving /\ visit[r].at = "idle"
  /\ visit' = [visit EXCEPT ![r].at = "arrived", ![r].cookie = c, ![r].ended = ~Live(c)]
  /\ UNCHANGED <<sessions, login>>

ArriveToEnd(v, c, t, here) ==
  /\ Serving /\ visit[v].at = "idle"
  /\ visit' = [visit EXCEPT ![v] = [at |-> "arrived", cookie |-> c, ended |-> ~Live(c),
                                    shutdown |-> TRUE, token |-> t, here |-> here]]
  /\ UNCHANGED <<sessions, login>>

\* What validSession leaves: a session found late is taken out.
Swept(c) == IF c # NoCookie /\ sessions[c] = "late" THEN [sessions EXCEPT ![c] = "none"] ELSE sessions

Answer(r, good) == visit' = [visit EXCEPT ![r].at = IF good THEN "served" ELSE "refused"]

\* Mutant: a late session is taken out for the next request and serves this one.
AdmitLate(r) ==
  /\ visit[r].at = "arrived" /\ ~visit[r].shutdown
  /\ sessions' = Swept(visit[r].cookie)
  /\ Answer(r, visit[r].cookie # NoCookie /\ sessions[visit[r].cookie] # "none")
  /\ UNCHANGED login

Admit(r) ==
  /\ visit[r].at = "arrived" /\ ~visit[r].shutdown
  /\ sessions' = Swept(visit[r].cookie)
  /\ Answer(r, Live(visit[r].cookie))
  /\ UNCHANGED login

AdmitToEnd(v) ==
  /\ visit[v].at = "arrived" /\ visit[v].shutdown
  /\ sessions' = IF visit[v].here THEN Swept(visit[v].cookie) ELSE sessions
  /\ Answer(v, visit[v].here /\ \/ Live(visit[v].cookie)
                                \/ shutdownToken # NoToken /\ visit[v].token = shutdownToken)
  /\ UNCHANGED login

-------------------------------------------------------------------------------

\* Every step of the settings is seen by the logins that run meanwhile.
Witnessed ==
  login' = [l \in Logins |->
              IF Under(l) THEN [login[l] EXCEPT !.pairs = @ \cup {<<mem'.user, mem'.hash.password>>}]
              ELSE login[l]]

\* The handler runs on once auth has admitted the request.
ChangeSettings ==
  /\ IF guarded
     THEN \E q \in Changes :
            \/ visit[q].at = "served" /\ \E b \in ChangeBodies : Receive(q, b)
            \/ at[q] # "idle" /\ PostNext(q)
     ELSE \E q \in Posts : PostNext(q)
  /\ Witnessed
  /\ UNCHANGED <<sessions, visit>>

StartUp == (Load \/ BootTruncate \/ BootWrite) /\ UNCHANGED sessionVars

\* The map is lost with the process, the cookies in the browsers are not.
LoseSessions ==
  /\ Crash
  /\ guarded => crashes < ChangeCrashes
  /\ sessions' = [l \in Logins |-> "none"]
  /\ login' = [l \in Logins |-> IF Under(l) THEN [login[l] EXCEPT !.at = "lost"] ELSE login[l]]
  /\ visit' = [r \in Requests |-> IF visit[r].at = "arrived" THEN [visit[r] EXCEPT !.at = "lost"]
                                  ELSE visit[r]]

LoginNext(l) ==
  \/ \E u \in Names, p \in Words : LogIn(l, u, p)
  \/ CompareName(l) \/ ReadSalt(l) \/ CompareHash(l) \/ InsertSession(l) \/ LogOut(l) \/ Age(l)

VisitNext ==
  \/ \E r \in Visits \cup Changes, c \in Cookies : Arrive(r, c)
  \/ \E v \in Visits, c \in Cookies, t \in {NoToken, "token"}, here \in BOOLEAN : ArriveToEnd(v, c, t, here)
  \/ \E r \in Requests : Admit(r)
  \/ \E v \in Visits : AdmitToEnd(v)

SessionsNext ==
  /\ \/ ChangeSettings \/ StartUp \/ LoseSessions
     \/ guarded /\ ((\E l \in Logins : LoginNext(l)) \/ VisitNext) /\ UNCHANGED vars
  /\ UNCHANGED <<guarded, shutdownToken>>

SessionsSpec == SessionsInit /\ [][SessionsNext]_allVars

-------------------------------------------------------------------------------
(* Properties *)

\* Nobody is served with a session that had ended when the request came, by a logout,
\* by age or because the program was started anew, and a request to end the program
\* needs the daemon's token otherwise, where there is one (web.go:317, 361).
ServedHadSession ==
  \A r \in Requests : visit[r].at = "served" =>
    /\ visit[r].ended => visit[r].shutdown /\ visit[r].token = shutdownToken /\ shutdownToken # NoToken
    /\ visit[r].here

\* Who gets a session gave a name and a password that were in force while the login
\* ran, so never a password changed before it; the two reads of the settings
\* need not have met the same state (web.go:382, settings.go:117).
LoginKnew ==
  \A l \in Logins : login[l].at \in {"insert", "in"} =>
    /\ \E pair \in login[l].pairs : pair[1] = login[l].user
    /\ \E pair \in login[l].pairs : pair[2] = login[l].password

\* Who is logged in was let in, and who is served was logged in, whatever changes of
\* the settings, logouts, expiries and restarts come in between.
SessionsInv == SessionsTypeOK /\ ServedHadSession /\ LoginKnew

\* The name and the password were in force together.
\* Not satisfied by the code: the name is compared before a change, the password after it.
LoginKnewBoth ==
  \A l \in Logins : login[l].at = "in" => <<login[l].user, login[l].password>> \in login[l].pairs

\* A session ends when the password it was opened with is changed.
\* Not satisfied by the code: sessions and settings know nothing of each other.
ChangeEndsSessions ==
  \A l \in Logins : Quiet /\ sessions[l] = "live" => login[l].password = mem.hash.password
=============================================================================
