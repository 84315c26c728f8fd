------------------------------- MODULE Session -------------------------------
(***************************************************************************)
(* Who is logged in where: the tables Users, Numerar and Sessions and the  *)
(* files of codes on the server (CleverCore/clever_IServer.h:1477-1623),   *)
(* PAT.txt on every machine (CleverClient/startup.cpp:158-225 and 591-678, *)
(* dashboard.cpp:66-133).                                                  *)
(*                                                                         *)
(* "Keep me logged in" writes a random token, the PAT, to PAT.txt and asks *)
(* the server to insert it into Sessions; the client opens the dashboard   *)
(* without a password when it finds PAT.txt and the server finds the row.  *)
(* File and row are written, and removed, at two places by two processes   *)
(* either of which may end in between.                                     *)
(*                                                                         *)
(* That a request is answered by its own answer is taken from              *)
(* ClientRequest; the loads of the dashboard are one request, Load.        *)
(***************************************************************************)
EXTENDS Integers, Sequences, FiniteSets

CONSTANTS
  Machines,     \* each runs one client at a time
  Users,
  Codes,        \* what a mailed code may be
  MaxPat,       \* bound: the tokens ever made
  MaxClicks,    \* bound: what all users do
  MaxFaults,    \* bound: lost connections, errors of the database, crashes
  None

ASSUME BoundsAssumption == {MaxPat, MaxClicks, MaxFaults} \subseteq Nat

VARIABLES
  \* the server
  serverUp,     \* its process runs
  users,        \* the table Users
  numerar,      \* the users with a cash account
  sessions,     \* the table Sessions: user and PAT
  codes,        \* the files of codes
  job,          \* the registration whose second statement is to come
  \* the clients
  page,         \* what the client of a machine shows
  who,          \* whose dashboard it is, or whose password is forgotten
  wait,         \* the request its handler waits for
  answer,       \* and the answer
  up,           \* requests on their way, or in the server's queue
  late,         \* the first so many of them came by a connection that is lost
  connected,
  patFile,      \* PAT.txt
  held,         \* the process has left PAT.txt open
  pats, clicks, faults,   \* the bounds' counters
  \* for the properties only
  kept,         \* this login wrote PAT.txt
  cutOff,       \* PATs whose logout was not answered
  confirmed,    \* users told of their registration
  mailed,       \* the code a machine's user was mailed and has not used
  shared,       \* codes mailed while their file was on the disk
  refused       \* the code he typed and was refused

server == <<serverUp, users, numerar, sessions, codes, job>>
client == <<page, who, wait, patFile, held>>
bounds == <<pats, clicks, faults>>
ghosts == <<kept, cutOff, confirmed, mailed, shared, refused>>
vars == <<server, client, answer, up, late, connected, bounds, ghosts>>

PATs == 1..MaxPat
Requests ==
  [op : {"Register", "Login", "Forgot", "UpdatePassword", "Load"}, of : Users]
    \cup [op : {"LoginRemembered", "Logout"}, pat : PATs]
    \cup [op : {"RememberMe"}, of : Users, pat : PATs]
    \cup [op : {"Validate"}, code : Codes]

ASSUME NoneAssumption ==
  /\ None \notin Nat \cup Users \cup Codes \cup Machines \cup {"success", "failure"}
  /\ None \notin Requests \cup ((Machines \cup {None}) \X Users)

TypeOK ==
  /\ serverUp \in BOOLEAN
  /\ users \subseteq Users /\ numerar \subseteq users
  /\ sessions \subseteq users \X PATs /\ codes \subseteq Codes
  /\ job \in {None} \cup ((Machines \cup {None}) \X Users)
  /\ page \in [Machines -> {"off", "start", "login", "dashboard", "newPassword"}]
  /\ who \in [Machines -> Users \cup {None}]
  /\ wait \in [Machines -> Requests \cup {None}]
  /\ answer \in [Machines -> {None, "success", "failure"} \cup Users]
  /\ up \in [Machines -> Seq(Requests)]
  /\ late \in [Machines -> Nat] /\ \A m \in Machines : late[m] <= Len(up[m])
  /\ connected \in [Machines -> BOOLEAN]
  /\ patFile \in [Machines -> PATs \cup {None}] /\ held \in [Machines -> BOOLEAN]
  /\ pats \in 0..MaxPat /\ clicks \in 0..MaxClicks /\ faults \in 0..MaxFaults
  /\ kept \in [Machines -> BOOLEAN] /\ cutOff \subseteq PATs
  /\ confirmed \subseteq Users
  /\ mailed \in [Machines -> Codes \cup {None}] /\ shared \subseteq Codes
  /\ refused \in [Machines -> Codes \cup {None}]

Init ==
  /\ serverUp = TRUE
  /\ users = {} /\ numerar = {} /\ sessions = {} /\ codes = {} /\ job = None
  /\ page = [m \in Machines |-> "off"]
  /\ who = [m \in Machines |-> None]
  /\ wait = [m \in Machines |-> None] /\ answer = [m \in Machines |-> None]
  /\ up = [m \in Machines |-> <<>>] /\ late = [m \in Machines |-> 0]
  /\ connected = [m \in Machines |-> FALSE]
  /\ patFile = [m \in Machines |-> None] /\ held = [m \in Machines |-> FALSE]
  /\ pats = 0 /\ clicks = 0 /\ faults = 0
  /\ kept = [m \in Machines |-> FALSE] /\ cutOff = {} /\ confirmed = {}
  /\ mailed = [m \in Machines |-> None] /\ shared = {}
  /\ refused = [m \in Machines |-> None]

-----------------------------------------------------------------------------
(***************************************************************************)
(* The client asks.                                                        *)
(***************************************************************************)

\* Send, and wait: what a handler begins with.
Ask(m, request) ==
  /\ wait' = [wait EXCEPT ![m] = request]
  /\ up' = [up EXCEPT ![m] = Append(@, request)]

GoTo(m, p, u) ==
  /\ page' = [page EXCEPT ![m] = p]
  /\ who' = [who EXCEPT ![m] = u]
Idle(m, p) == page[m] = p /\ wait[m] = None /\ connected[m]
Counted == clicks < MaxClicks /\ clicks' = clicks + 1

\* main() of the client; the constructor of Startup tries PAT.txt.
Launch(m) ==
  /\ page[m] = "off" /\ serverUp /\ Counted
  /\ connected' = [connected EXCEPT ![m] = TRUE]
  /\ page' = [page EXCEPT ![m] = IF patFile[m] = None THEN "login" ELSE "start"]
  /\ IF patFile[m] = None
       THEN UNCHANGED <<wait, up>>
       ELSE Ask(m, [op |-> "LoginRemembered", pat |-> patFile[m]])
  /\ UNCHANGED <<server, late, who, answer, patFile, held, pats, faults, ghosts>>

\* The buttons of the login page that send something about a user.
ClickLoginPage(m, op, u) ==
  /\ Idle(m, "login") /\ Counted
  /\ Ask(m, [op |-> op, of |-> u])
  /\ UNCHANGED <<server, late, page, who, answer, connected, patFile, held, pats, faults,
                 ghosts>>

\* The user types the code he was mailed, which the page has a place for once
\* an answer said that it was.
ClickValidate(m) ==
  /\ Idle(m, "login") /\ Counted
  /\ who[m] # None /\ mailed[m] # None
  /\ Ask(m, [op |-> "Validate", code |-> mailed[m]])
  /\ UNCHANGED <<server, late, page, who, answer, connected, patFile, held, pats, faults,
                 ghosts>>

\* The new password goes with the address that asked last (currEmail).
ClickUpdate(m) ==
  /\ Idle(m, "newPassword") /\ Counted
  /\ Ask(m, [op |-> "UpdatePassword", of |-> who[m]])
  /\ UNCHANGED <<server, late, page, who, answer, connected, patFile, held, pats, faults,
                 ghosts>>

\* Dashboard::logout: without PAT.txt it only leaves the page.
ClickLogout(m) ==
  /\ Idle(m, "dashboard") /\ Counted
  /\ IF patFile[m] = None
       THEN /\ GoTo(m, "login", None)
            /\ kept' = [kept EXCEPT ![m] = FALSE]
            /\ UNCHANGED <<wait, up>>
       ELSE /\ Ask(m, [op |-> "Logout", pat |-> patFile[m]])
            /\ UNCHANGED <<page, who, kept>>
  /\ UNCHANGED <<server, late, answer, connected, patFile, held, pats, faults, cutOff,
                 confirmed, mailed, shared, refused>>

\* The user closes the window, or clicks without a connection, which ends the
\* client (see Connection).
Close(m) ==
  /\ page[m] # "off" /\ wait[m] = None
  /\ page' = [page EXCEPT ![m] = "off"]
  /\ connected' = [connected EXCEPT ![m] = FALSE]
  /\ held' = [held EXCEPT ![m] = FALSE]
  /\ who' = [who EXCEPT ![m] = None]
  /\ kept' = [kept EXCEPT ![m] = FALSE]
  /\ mailed' = [mailed EXCEPT ![m] = None]
  /\ refused' = [refused EXCEPT ![m] = None]
  /\ UNCHANGED <<server, late, wait, answer, up, patFile, bounds, cutOff, confirmed, shared>>

-----------------------------------------------------------------------------
(***************************************************************************)
(* The client takes the answer, or gives up when the connection is lost.   *)
(***************************************************************************)
Answered(m, op) == wait[m] # None /\ wait[m].op = op /\ answer[m] # None
Return(m) ==
  /\ wait' = [wait EXCEPT ![m] = None]
  /\ answer' = [answer EXCEPT ![m] = None]

\* tryLoginRemembered: a row opens its user's dashboard.
Remembered(m) ==
  /\ Answered(m, "LoginRemembered")
  /\ Return(m)
  /\ IF answer[m] \in Users THEN GoTo(m, "dashboard", answer[m])
                            ELSE GoTo(m, "login", None)
  /\ UNCHANGED <<server, late, up, connected, patFile, held, bounds, ghosts>>

\* on_loginPushButton_clicked.  With "keep me logged in", PAT.txt is written if
\* it does not exist, and RememberMe sent; if it exists it is left open, and
\* the user's login is not kept.  Then the dashboard loads.
LoggedIn(m, keep) ==
  LET u == wait[m].of
      load == [op |-> "Load", of |-> u]
      remember == [op |-> "RememberMe", of |-> u, pat |-> pats + 1]
      writes == keep /\ patFile[m] = None
  IN  /\ Answered(m, "Login") /\ answer[m] = "success"
      /\ writes => pats < MaxPat
      /\ answer' = [answer EXCEPT ![m] = None]
      /\ GoTo(m, "dashboard", u)
      /\ wait' = [wait EXCEPT ![m] = load]
      /\ up' = [up EXCEPT ![m] = IF ~connected[m] THEN @
                                 ELSE @ \o (IF writes THEN <<remember>> ELSE <<>>)
                                        \o <<load>>]
      /\ patFile' = [patFile EXCEPT ![m] = IF writes THEN pats + 1 ELSE @]
      /\ pats' = IF writes THEN pats + 1 ELSE pats
      /\ held' = [held EXCEPT ![m] = @ \/ (keep /\ ~writes)]
      /\ kept' = [kept EXCEPT ![m] = writes]
      /\ UNCHANGED <<server, late, connected, clicks, faults, cutOff, confirmed, mailed,
                     shared, refused>>

Loaded(m) ==
  /\ Answered(m, "Load")
  /\ Return(m)
  /\ UNCHANGED <<server, late, page, who, up, connected, patFile, held, bounds, ghosts>>

\* The end of Dashboard::logout, whatever the answer: PAT.txt is removed, unless
\* it is still open in this process (on Windows, which the client is built for).
Forgets(m) ==
  /\ GoTo(m, "login", None)
  /\ patFile' = [patFile EXCEPT ![m] = IF held[m] THEN @ ELSE None]
  /\ kept' = [kept EXCEPT ![m] = FALSE]

LoggedOut(m) ==
  /\ Answered(m, "Logout")
  /\ Return(m) /\ Forgets(m)
  /\ UNCHANGED <<server, late, up, connected, held, bounds, cutOff, confirmed, mailed,
                 shared, refused>>

\* The handlers of the login page that stay on it, or go on to the next.
Told(m) ==
  /\ \E op \in {"Register", "Login", "Forgot", "Validate", "UpdatePassword"} :
       Answered(m, op) /\ (op = "Login" => answer[m] = "failure")
  /\ Return(m)
  /\ LET op == wait[m].op
         ok == answer[m] = "success"
     IN  /\ CASE op = "Validate" /\ ok       -> GoTo(m, "newPassword", who[m])
              [] op = "UpdatePassword" /\ ok -> GoTo(m, "login", who[m])
              [] op = "Forgot" /\ ok         -> GoTo(m, "login", wait[m].of)
              [] OTHER                       -> UNCHANGED <<page, who>>
         /\ confirmed' = IF op = "Register" /\ ok THEN confirmed \cup {wait[m].of}
                                                  ELSE confirmed
         /\ mailed' = IF op = "Validate" /\ ok THEN [mailed EXCEPT ![m] = None]
                                               ELSE mailed
         /\ refused' = IF op = "Validate" /\ ~ok
                         THEN [refused EXCEPT ![m] = wait[m].code] ELSE refused
  /\ UNCHANGED <<server, late, up, connected, patFile, held, bounds, kept, cutOff, shared>>

MutantGivesUp(m) ==   \* a login that could not be tried is forgotten
  /\ wait[m] # None /\ ~connected[m]
  /\ Return(m)
  /\ IF wait[m].op \in {"Logout", "LoginRemembered"}
       THEN Forgets(m) ELSE UNCHANGED <<page, who, patFile, kept>>
  /\ cutOff' = IF wait[m].op = "Logout" THEN cutOff \cup {wait[m].pat} ELSE cutOff
  /\ UNCHANGED <<server, late, up, connected, held, bounds, confirmed, mailed, shared, refused>>

\* "Server down! Client disconnected!"
GivesUp(m) ==
  /\ wait[m] # None /\ ~connected[m]
  /\ Return(m)
  /\ CASE wait[m].op = "Logout"          -> Forgets(m)
       [] wait[m].op = "LoginRemembered" -> /\ GoTo(m, "login", None)
                                            /\ UNCHANGED <<patFile, kept>>
       [] OTHER                          -> UNCHANGED <<page, who, patFile, kept>>
  /\ held' = [held EXCEPT ![m] = @ \/ wait[m].op = "LoginRemembered"]
  /\ cutOff' = IF wait[m].op = "Logout" THEN cutOff \cup {wait[m].pat} ELSE cutOff
  /\ UNCHANGED <<server, late, up, connected, bounds, confirmed, mailed, shared, refused>>

-----------------------------------------------------------------------------
(***************************************************************************)
(* The server: one request at a time.                                      *)
(***************************************************************************)
Asked(m, op) == serverUp /\ job = None /\ up[m] # <<>> /\ Head(up[m]).op = op
Taken(m) ==
  /\ up' = [up EXCEPT ![m] = Tail(@)]
  /\ late' = [late EXCEPT ![m] = IF @ > 0 THEN @ - 1 ELSE 0]
\* An answer to a connection that is lost goes nowhere.
Reply(m, what) ==
  /\ Taken(m)
  /\ answer' = IF late[m] = 0 THEN [answer EXCEPT ![m] = what] ELSE answer
ReplyJob(what) ==
  answer' = IF job[1] = None THEN answer ELSE [answer EXCEPT ![job[1]] = what]
otherClients == <<client, connected, pats, clicks, kept, cutOff, confirmed, refused>>

MutantRegisterUser(m) ==   \* the user's own row comes last
  /\ Asked(m, "Register")
  /\ LET u == Head(up[m]).of
     IN  IF u \in users
           THEN Reply(m, "failure") /\ UNCHANGED job
           ELSE /\ job' = <<IF late[m] = 0 THEN m ELSE None, u>>
                /\ Taken(m) /\ UNCHANGED answer
  /\ UNCHANGED <<serverUp, users, numerar, sessions, codes, otherClients, faults, mailed, shared>>

\* RegisterUserToDatabase, up to the first INSERT.
RegisterUser(m) ==
  /\ Asked(m, "Register")
  /\ LET u == Head(up[m]).of
     IN  IF u \in users
           THEN Reply(m, "failure") /\ UNCHANGED <<users, job>>
           ELSE /\ users' = users \cup {u}
                /\ job' = <<IF late[m] = 0 THEN m ELSE None, u>>
                /\ Taken(m) /\ UNCHANGED answer
  /\ UNCHANGED <<serverUp, numerar, sessions, codes, otherClients, faults, mailed, shared>>

\* The second INSERT.
RegisterCash ==
  /\ serverUp /\ job # None
  /\ numerar' = numerar \cup {job[2]}
  /\ job' = None
  /\ ReplyJob("success")
  /\ UNCHANGED <<serverUp, users, sessions, codes, up, late, otherClients, faults, mailed, shared>>

MutantRegisterFails ==   \* the user is there, so the answer is Success
  /\ serverUp /\ job # None
  /\ faults < MaxFaults /\ faults' = faults + 1
  /\ job' = None
  /\ ReplyJob("success")
  /\ UNCHANGED <<serverUp, users, numerar, sessions, codes, up, late, otherClients, mailed, shared>>

\* The database fails in between, which OnMessage catches: the user stays.
RegisterFails ==
  /\ serverUp /\ job # None
  /\ faults < MaxFaults /\ faults' = faults + 1
  /\ job' = None
  /\ ReplyJob("failure")
  /\ UNCHANGED <<serverUp, users, numerar, sessions, codes, up, late, otherClients, mailed, shared>>

\* OnLoginUserToServer; the password may be wrong.
OnLogin(m) ==
  /\ Asked(m, "Login")
  /\ \E what \in IF Head(up[m]).of \in users THEN {"success", "failure"} ELSE {"failure"} :
       Reply(m, what)
  /\ UNCHANGED <<server, otherClients, faults, mailed, shared>>

\* OnLoginUserPAT.
OnLoginRemembered(m) ==
  /\ Asked(m, "LoginRemembered")
  /\ LET found == {s \in sessions : s[2] = Head(up[m]).pat}
     IN  \E what \in IF found = {} THEN {"failure"} ELSE {s[1] : s \in found} :
           Reply(m, what)
  /\ UNCHANGED <<server, otherClients, faults, mailed, shared>>

\* OnRememberUserLoggedIn: no answer.
OnRememberMe(m) ==
  /\ Asked(m, "RememberMe")
  /\ sessions' = sessions \cup {<<Head(up[m]).of, Head(up[m]).pat>>}
  /\ Taken(m) /\ UNCHANGED answer
  /\ UNCHANGED <<serverUp, users, numerar, codes, job, otherClients, faults, mailed, shared>>

MutantOnLogout(m) ==   \* DELETE ... WHERE UserID
  /\ Asked(m, "Logout")
  /\ LET found == {s \in sessions : s[2] = Head(up[m]).pat}
     IN  /\ sessions' = {s \in sessions : \A f \in found : f[1] # s[1]}
         /\ Reply(m, IF found = {} THEN "failure" ELSE "success")
  /\ UNCHANGED <<serverUp, users, numerar, codes, job, otherClients, faults, mailed, shared>>

\* OnLogoutRemembered.
OnLogout(m) ==
  /\ Asked(m, "Logout")
  /\ LET found == {s \in sessions : s[2] = Head(up[m]).pat}
     IN  /\ sessions' = sessions \ found
         /\ Reply(m, IF found = {} THEN "failure" ELSE "success")
  /\ UNCHANGED <<serverUp, users, numerar, codes, job, otherClients, faults, mailed, shared>>

\* OnSendEmailForgotPassword: any code, also one that is on the disk already.
OnForgot(m) ==
  /\ Asked(m, "Forgot")
  /\ IF Head(up[m]).of \in users
       THEN \E c \in Codes :
              /\ codes' = codes \cup {c}
              /\ mailed' = [mailed EXCEPT ![m] = c]
              /\ shared' = IF c \in codes THEN shared \cup {c} ELSE shared
              /\ Reply(m, "success")
       ELSE Reply(m, "failure") /\ UNCHANGED <<codes, mailed, shared>>
  /\ UNCHANGED <<serverUp, users, numerar, sessions, job, otherClients, faults>>

MutantOnValidate(m) ==   \* removes all files of codes
  /\ Asked(m, "Validate")
  /\ codes' = {}
  /\ Reply(m, IF Head(up[m]).code \in codes THEN "success" ELSE "failure")
  /\ UNCHANGED <<serverUp, users, numerar, sessions, job, otherClients, faults, mailed, shared>>

\* OnValidateSixDigitCode: the file of that name, which is then removed.
OnValidate(m) ==
  /\ Asked(m, "Validate")
  /\ codes' = codes \ {Head(up[m]).code}
  /\ Reply(m, IF Head(up[m]).code \in codes THEN "success" ELSE "failure")
  /\ UNCHANGED <<serverUp, users, numerar, sessions, job, otherClients, faults, mailed, shared>>

\* OnUpdatePassword, and the loads of the dashboard: nothing that is read here.
OnOther(m) ==
  /\ Asked(m, "UpdatePassword") \/ Asked(m, "Load")
  /\ Reply(m, "success")
  /\ UNCHANGED <<server, otherClients, faults, mailed, shared>>

-----------------------------------------------------------------------------
(***************************************************************************)
(* What may go wrong.                                                      *)
(***************************************************************************)

\* A connection is lost: of the requests under way the first ones arrive, and
\* the answer may be there or not.
Break(m) ==
  /\ connected[m]
  /\ faults < MaxFaults /\ faults' = faults + 1
  /\ connected' = [connected EXCEPT ![m] = FALSE]
  /\ \E n \in late[m]..Len(up[m]) : /\ up' = [up EXCEPT ![m] = SubSeq(@, 1, n)]
                                   /\ late' = [late EXCEPT ![m] = n]
  /\ job' = IF job # None /\ job[1] = m THEN <<None, job[2]>> ELSE job
  /\ answer' \in {answer, [answer EXCEPT ![m] = None]}
  /\ UNCHANGED <<serverUp, users, numerar, sessions, codes, client, pats, clicks, ghosts>>

\* The server ends: by an error of the database its handlers do not catch, or
\* otherwise.  Tables and files stay.
Crash ==
  /\ serverUp
  /\ faults < MaxFaults /\ faults' = faults + 1
  /\ serverUp' = FALSE /\ job' = None
  /\ connected' = [m \in Machines |-> FALSE]
  /\ up' = [m \in Machines |-> <<>>] /\ late' = [m \in Machines |-> 0]
  /\ UNCHANGED <<users, numerar, sessions, codes, client, answer, pats, clicks, ghosts>>

Restart ==
  /\ ~serverUp /\ serverUp' = TRUE
  /\ UNCHANGED <<users, numerar, sessions, codes, job, client, answer, up, late,
                 connected, bounds, ghosts>>

Client(m) ==
  \/ Launch(m) \/ ClickValidate(m) \/ ClickUpdate(m) \/ ClickLogout(m) \/ Close(m)
  \/ \E u \in Users, op \in {"Register", "Login", "Forgot"} : ClickLoginPage(m, op, u)
  \/ Remembered(m) \/ Loaded(m) \/ LoggedOut(m) \/ Told(m) \/ GivesUp(m)
  \/ \E keep \in BOOLEAN : LoggedIn(m, keep)
Serve(m) ==
  \/ RegisterUser(m) \/ OnLogin(m) \/ OnLoginRemembered(m) \/ OnRememberMe(m)
  \/ OnLogout(m) \/ OnForgot(m) \/ OnValidate(m) \/ OnOther(m)

Next ==
  \/ \E m \in Machines : Client(m) \/ Serve(m) \/ Break(m)
  \/ RegisterCash \/ RegisterFails \/ Crash \/ Restart

Spec == Init /\ [][Next]_vars

-----------------------------------------------------------------------------
(***************************************************************************)
(* Properties.                                                             *)
(***************************************************************************)

\* A login that wrote PAT.txt is kept once the dashboard is there, while the
\* connection lasts: the row for this user and this PAT is in the table,
\* whatever other machines and other users do (startup.cpp:654-659).
KeptLoginHasRow ==
  \A m \in Machines :
    Idle(m, "dashboard") /\ kept[m] => <<who[m], patFile[m]>> \in sessions

\* A row outlives its PAT.txt only if a logout was cut off (dashboard.cpp:72):
\* the table does not grow while nothing fails.
NoOrphans ==
  \A s \in sessions : s[2] \in cutOff \/ \E m \in Machines : patFile[m] = s[2]

\* Who was told of his registration has an account and cash, also if the server
\* failed between the two INSERTs (clever_IServer.h:1613-1620).
SuccessIsComplete == confirmed \subseteq users \cap numerar

\* A mailed code is accepted, also after the server was started again, unless
\* the same one was made while its file was on the disk (clever_IServer.h:1503
\* and 1679): two requests then share one file, and the first to come removes it.
MailedCodeWorks ==
  \A m \in Machines : refused[m] # None => refused[m] \in shared
=============================================================================
