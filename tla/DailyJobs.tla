------------------------------ MODULE DailyJobs ------------------------------
(***************************************************************************)
(* The daily jobs of the server (CleverCore/clever_IServer.h:412-743):     *)
(* mails with the day's summary, recurring transactions, budgets.          *)
(*                                                                         *)
(* main() (CleverServer/server_driver.cpp:1055-1073) tests for mails and   *)
(* budgets before each Update, which waits for a message; the constructor  *)
(* of Server does mails and recurring transactions.  A file per job holds  *)
(* the date on which it was last done.  The clock goes on between any two  *)
(* steps, and the process may end at any of them: an error of the database *)
(* is caught neither by the constructor nor by main().                     *)
(***************************************************************************)
EXTENDS Integers, FiniteSets

CONSTANTS
  MaxDay,        \* bound: the days, of which 0 is before the server's first
  MaxFaults,     \* bound: how often the process ends for a reason of its own
  Subscribers,   \* the users in DailyMails
  Rows,          \* the rows of Recurencies
  DayOfMonth,    \* the day a row is due, as the table has it
  Owners,        \* the users with a budget that has not ended
  Absent         \* no such file

ASSUME DaysAssumption == MaxDay \in Nat \ {0} /\ MaxFaults \in Nat
ASSUME RowsAssumption == DayOfMonth \in [Rows -> 1..MaxDay]
ASSUME AbsentAssumption == Absent \notin Nat

\* Where main() may be, but for the rows, at which it may be too.
Places == {"down",
           "mails", "sending",               \* checkIfUptime..., SendDailyNotification
           "recurring", "select", "booking", \* InitReccurentTransactions
           "budgets", "again", "verify",     \* main's test, UpdateAndCheckBudgets
           "update"}                         \* Update: waits and handles messages
ASSUME PlacesAssumption == Rows \cap Places = {}

VARIABLES
  day, hour,     \* the local time; only hours 20 and 23 matter
  pc,            \* where the server's main thread is
  booting,       \* it is in the constructor of Server
  didntSendTodayNotification,
  todo,          \* what the job has still to do
  some,          \* the job found rows (sentTranzactions, updatedBudgets)
  file,          \* the three files
  spent,         \* owners with spendings of today that no finished job has seen
  renamed,       \* rows of Recurencies whose card has another name by now
  faults,
  \* for the properties only:
  begun,         \* the job under way was begun today
  late,          \* the jobs begun the day before that ended today
  mailed,        \* mails given to the mail server today
  moved,         \* how often a row changed its card
  recorded,      \* how often it was written to the history
  cuts,          \* how often the process ended in a job
  tested         \* what this process was free to do today, and tested

clock == <<day, hour>>
control == <<pc, booting, didntSendTodayNotification, todo, some>>
ghosts == <<begun, late, mailed, moved, recorded, cuts, tested>>
vars == <<clock, control, file, spent, renamed, faults, ghosts>>

Jobs == {"mails", "recurring", "budgets"}
Evening == hour # "before20"

PCs == Places \cup Rows   \* at a row: between its two statements

TypeOK ==
  /\ day \in 1..MaxDay /\ hour \in {"before20", "from20", "from23"}
  /\ pc \in PCs /\ booting \in BOOLEAN
  /\ didntSendTodayNotification \in BOOLEAN /\ some \in BOOLEAN
  /\ todo \subseteq Subscribers \cup Rows \cup Owners
  /\ file \in [Jobs -> {Absent} \cup 0..MaxDay]
  /\ spent \subseteq Owners /\ renamed \subseteq Rows
  /\ faults \in 0..MaxFaults
  /\ begun \in BOOLEAN /\ late \subseteq Jobs
  /\ mailed \in [Subscribers -> Nat]
  /\ moved \in [Rows -> Nat] /\ recorded \in [Rows -> Nat]
  /\ cuts \in [Jobs -> 0..MaxFaults] /\ tested \subseteq Jobs

\* The server was installed some day; nothing writes a file but the jobs, and
\* whoever installs it.
Init ==
  /\ day = 1 /\ hour = "before20"
  /\ pc = "down" /\ booting = FALSE /\ didntSendTodayNotification = TRUE
  /\ todo = {} /\ some = FALSE
  /\ file \in [Jobs -> {Absent, 0}]
  /\ spent = {} /\ renamed = {} /\ faults = 0
  /\ begun = FALSE /\ late = {}
  /\ mailed = [u \in Subscribers |-> 0]
  /\ moved = [r \in Rows |-> 0] /\ recorded = [r \in Rows |-> 0]
  /\ cuts = [j \in Jobs |-> 0] /\ tested = {}

-----------------------------------------------------------------------------
(***************************************************************************)
(* The clock, and the process.                                             *)
(***************************************************************************)
Tick ==
  /\ \/ /\ hour = "before20" /\ hour' = "from20"
        /\ UNCHANGED <<day, mailed, spent, begun, late, cuts, tested>>
     \/ /\ hour = "from20" /\ hour' = "from23"
        /\ UNCHANGED <<day, mailed, spent, begun, late, cuts, tested>>
     \/ /\ hour = "from23" /\ hour' = "before20"
        /\ day < MaxDay /\ day' = day + 1
        /\ mailed' = [u \in Subscribers |-> 0]
        /\ spent' = {}
        /\ cuts' = [cuts EXCEPT !["mails"] = 0]
        /\ begun' = FALSE /\ late' = {} /\ tested' = {}
  /\ UNCHANGED <<control, file, renamed, faults, moved, recorded>>

\* The operator starts the server.
Start ==
  /\ pc = "down"
  /\ pc' = "mails" /\ booting' = TRUE
  /\ didntSendTodayNotification' = TRUE
  /\ UNCHANGED <<clock, todo, some, file, spent, renamed, faults, ghosts>>

\* The process has ended, whatever it was doing.
Ended ==
  /\ pc' = "down" /\ booting' = FALSE /\ todo' = {} /\ some' = FALSE
  /\ begun' = FALSE /\ tested' = {}
  /\ cuts' = [j \in Jobs |->
                IF \/ j = "mails" /\ pc = "sending"
                   \/ j = "recurring" /\ pc \in {"booking"} \cup Rows
                THEN cuts[j] + 1 ELSE cuts[j]]
  /\ UNCHANGED <<clock, didntSendTodayNotification, file, spent, renamed,
                 late, mailed, moved, recorded>>

\* An error of the database that nobody catches, or the operator.
Fault ==
  /\ pc # "down"
  /\ faults < MaxFaults /\ faults' = faults + 1
  /\ Ended

\* A job begins: its rows are read.
Begin(at, rows) == pc' = at /\ todo' = rows /\ some' = FALSE
MutantMarkDone(job) ==   \* counts the days from one
  /\ file' = [file EXCEPT ![job] = day + 1]
  /\ late' = IF begun THEN late \ {job} ELSE late \cup {job}

\* It ends; its file gets the date of now, not of when it began.
MarkDone(job) ==
  /\ file' = [file EXCEPT ![job] = day]
  /\ late' = IF begun THEN late \ {job} ELSE late \cup {job}

-----------------------------------------------------------------------------
(***************************************************************************)
(* Mails: checkIfUptimeToSendDailyMails and SendDailyNotification.         *)
(***************************************************************************)
MutantAfterMails == "recurring"

\* Only the constructor goes on with the recurring transactions.
AfterMails == IF booting THEN "recurring" ELSE "budgets"

MutantCheckMails ==   \* takes any date in the file for today's
  LET already == file["mails"] # Absent
      due == Evening /\ didntSendTodayNotification
  IN  /\ pc = "mails"
      /\ IF due /\ ~already
           THEN Begin("sending", Subscribers) /\ begun' = TRUE
           ELSE pc' = AfterMails /\ UNCHANGED <<todo, some, begun>>
      /\ didntSendTodayNotification' =
           (didntSendTodayNotification /\ ~(due /\ already))
      /\ tested' = IF due THEN tested \cup {"mails"} ELSE tested
      /\ UNCHANGED <<clock, booting, file, spent, renamed, faults, late, mailed,
                     moved, recorded, cuts>>

\* "Already sent" sets the flag to false; nothing ever sets it to true again.
CheckMails ==
  LET already == file["mails"] = day
      due == Evening /\ didntSendTodayNotification
  IN  /\ pc = "mails"
      /\ IF due /\ ~already
           THEN Begin("sending", Subscribers) /\ begun' = TRUE
           ELSE pc' = AfterMails /\ UNCHANGED <<todo, some, begun>>
      /\ didntSendTodayNotification' =
           (didntSendTodayNotification /\ ~(due /\ already))
      /\ tested' = IF due THEN tested \cup {"mails"} ELSE tested
      /\ UNCHANGED <<clock, booting, file, spent, renamed, faults, late, mailed,
                     moved, recorded, cuts>>

\* A mail the mail server refuses is not tried again.
SendMail(u) ==
  /\ pc = "sending" /\ u \in todo
  /\ todo' = todo \ {u}
  /\ mailed' = [mailed EXCEPT ![u] = @ + 1]
  /\ UNCHANGED <<clock, pc, booting, didntSendTodayNotification, some, file, spent,
                 renamed, faults, begun, late, moved, recorded, cuts, tested>>

MutantMailsDone ==   \* gives up when a mail is refused
  /\ pc = "sending"
  /\ MarkDone("mails")
  /\ pc' = AfterMails
  /\ UNCHANGED <<clock, booting, didntSendTodayNotification, todo, some, spent,
                 renamed, faults, begun, mailed, moved, recorded, cuts, tested>>

MailsDone ==
  /\ pc = "sending" /\ todo = {}
  /\ MarkDone("mails")
  /\ pc' = AfterMails
  /\ UNCHANGED <<clock, booting, didntSendTodayNotification, todo, some, spent,
                 renamed, faults, begun, mailed, moved, recorded, cuts, tested>>

-----------------------------------------------------------------------------
(***************************************************************************)
(* Recurring transactions: InitReccurentTransactions, at the start only.   *)
(***************************************************************************)

\* Without a file there is nothing to do, so that the file is never made.
DueByFile(job) == file[job] \notin {Absent, day}
LeaveConstructor == pc' = "mails" /\ booting' = FALSE

CheckRecurring ==
  /\ pc = "recurring"
  /\ IF DueByFile("recurring")
       THEN pc' = "select" /\ begun' = TRUE /\ UNCHANGED booting
       ELSE LeaveConstructor /\ UNCHANGED begun
  /\ tested' = tested \cup {"recurring"}
  /\ UNCHANGED <<clock, didntSendTodayNotification, todo, some, file, spent, renamed,
                 faults, late, mailed, moved, recorded, cuts>>

\* thisDay is read after the test; an error while the rows are selected is a Fault.
SelectRows ==
  /\ pc = "select"
  /\ Begin("booking", {r \in Rows : DayOfMonth[r] = day})
  /\ UNCHANGED <<clock, booting, didntSendTodayNotification, file, spent, renamed,
                 faults, ghosts>>

MutantMoveMoney(r) ==   \* leaves the card alone if it lacks the money
  /\ pc = "booking" /\ r \in todo
  /\ pc' = r /\ some' = TRUE
  /\ \E enough \in BOOLEAN :
       moved' = [moved EXCEPT ![r] = IF r \in renamed \/ ~enough THEN @ ELSE @ + 1]
  /\ UNCHANGED <<clock, booting, didntSendTodayNotification, todo, file, spent,
                 renamed, faults, begun, late, mailed, recorded, cuts, tested>>

\* UPDATE Cards ... WHERE CardName = ...: touches nothing if the card was renamed.
MoveMoney(r) ==
  /\ pc = "booking" /\ r \in todo
  /\ pc' = r /\ some' = TRUE
  /\ moved' = [moved EXCEPT ![r] = IF r \in renamed THEN @ ELSE @ + 1]
  /\ UNCHANGED <<clock, booting, didntSendTodayNotification, todo, file, spent,
                 renamed, faults, begun, late, mailed, recorded, cuts, tested>>

\* INSERT INTO Tranzactions.
RecordRow(r) ==
  /\ pc = r
  /\ pc' = "booking" /\ todo' = todo \ {r}
  /\ recorded' = [recorded EXCEPT ![r] = @ + 1]
  /\ UNCHANGED <<clock, booting, didntSendTodayNotification, some, file, spent,
                 renamed, faults, begun, late, mailed, moved, cuts, tested>>

MutantBookingDone ==   \* does not write the file
  /\ pc = "booking" /\ todo = {}
  /\ LeaveConstructor
  /\ UNCHANGED <<clock, didntSendTodayNotification, todo, some, file, late, spent,
                 renamed, faults, begun, mailed, moved, recorded, cuts, tested>>

\* The file is written only if there were rows.
BookingDone ==
  /\ pc = "booking" /\ todo = {}
  /\ IF some THEN MarkDone("recurring") ELSE UNCHANGED <<file, late>>
  /\ LeaveConstructor
  /\ UNCHANGED <<clock, didntSendTodayNotification, todo, some, spent, renamed,
                 faults, begun, mailed, moved, recorded, cuts, tested>>

-----------------------------------------------------------------------------
(***************************************************************************)
(* Budgets: checkIfToVerifyBudgets and UpdateAndCheckBudgets.              *)
(***************************************************************************)
ToVerify == hour = "from23" /\ DueByFile("budgets")

\* main() tests, and UpdateAndCheckBudgets tests again.
CheckBudgets ==
  /\ pc = "budgets"
  /\ pc' = IF ToVerify THEN "again" ELSE "update"
  /\ UNCHANGED <<clock, booting, didntSendTodayNotification, todo, some, file, spent,
                 renamed, faults, ghosts>>

CheckAgain ==
  /\ pc = "again"
  /\ IF ToVerify THEN Begin("verify", Owners) /\ begun' = TRUE
                 ELSE pc' = "update" /\ UNCHANGED <<todo, some, begun>>
  /\ UNCHANGED <<clock, booting, didntSendTodayNotification, file, spent, renamed,
                 faults, late, mailed, moved, recorded, cuts, tested>>

\* An owner who spent nothing today.
PassOwner(u) ==
  /\ pc = "verify" /\ u \in todo \ spent
  /\ todo' = todo \ {u} /\ some' = TRUE
  /\ UNCHANGED <<clock, pc, booting, didntSendTodayNotification, file, spent, renamed,
                 faults, ghosts>>

\* One who did: both columns are read into targetMoney, stof of the empty
\* currentSpentMoney throws, and nobody catches it.
CountSpendings(u) ==
  /\ pc = "verify" /\ u \in todo \cap spent
  /\ Ended
  /\ UNCHANGED faults

BudgetsDone ==
  /\ pc = "verify" /\ todo = {}
  /\ IF some THEN MarkDone("budgets") ELSE UNCHANGED <<file, late>>
  /\ pc' = "update"
  /\ UNCHANGED <<clock, booting, didntSendTodayNotification, todo, some, spent,
                 renamed, faults, begun, mailed, moved, recorded, cuts, tested>>

-----------------------------------------------------------------------------
(***************************************************************************)
(* Messages.  Update handles all there are, then main() tests again.       *)
(***************************************************************************)
Handled ==
  /\ pc = "update"
  /\ pc' \in {"update", "mails"}
  /\ UNCHANGED <<clock, booting, didntSendTodayNotification, todo, some, file,
                 faults, ghosts>>

\* A spending the job has passed by for today is never counted.
OnAddSpendings(u) ==
  /\ Handled
  /\ spent' = IF file["budgets"] = day THEN spent ELSE spent \cup {u}
  /\ UNCHANGED renamed

\* EditCard changes the name in Cards, not in Recurencies.
OnEditCard(r) ==
  /\ Handled
  /\ renamed' = renamed \cup {r}
  /\ UNCHANGED spent

OnOtherMessage == Handled /\ UNCHANGED <<spent, renamed>>

Main ==
  \/ CheckMails \/ (\E u \in Subscribers : SendMail(u)) \/ MailsDone
  \/ CheckRecurring \/ SelectRows \/ BookingDone
  \/ \E r \in Rows : MoveMoney(r) \/ RecordRow(r)
  \/ CheckBudgets \/ CheckAgain \/ BudgetsDone
  \/ \E u \in Owners : PassOwner(u) \/ CountSpendings(u)
Message ==
  \/ \E u \in Owners : OnAddSpendings(u)
  \/ \E r \in Rows : OnEditCard(r)
  \/ OnOtherMessage

Next == Tick \/ Start \/ Fault \/ Main \/ Message

\* Time passes, main() goes on, and who runs the server starts it again.
Spec ==
  Init /\ [][Next]_vars /\ WF_vars(Tick) /\ WF_vars(Main) /\ WF_vars(Start)

-----------------------------------------------------------------------------
(***************************************************************************)
(* Properties.                                                             *)
(***************************************************************************)

\* Nobody gets a day's mail twice and no row is booked twice, however often the
\* server is started and main() wakes, except that each end of the process in
\* the middle of the job repeats it once ("Already Sent", IServer.h:447, 734).
NotTwice ==
  /\ \A u \in Subscribers : mailed[u] <= 1 + cuts["mails"]
  /\ \A r \in Rows : moved[r] <= 1 + cuts["recurring"]
                     /\ recorded[r] <= 1 + cuts["recurring"]

\* A file that holds today's date keeps its promise, after any faults: its job
\* was done today for all it is about, unless it was begun the day before.
FilesTellTruth ==
  /\ file["mails"] = day /\ "mails" \notin late =>
       \A u \in Subscribers : mailed[u] >= 1
  /\ file["recurring"] = day /\ "recurring" \notin late =>
       \A r \in Rows : DayOfMonth[r] = day => recorded[r] >= 1
  /\ file["budgets"] = day /\ "budgets" \notin late => spent = {}

\* The history shows only what was moved, also if the process ended between the
\* two statements (IServer.h:598-609), unless the card was renamed.
HistoryIsTrue == \A r \in Rows \ renamed : recorded[r] <= moved[r]

\* At midnight nothing was forgotten: if this process tested for mails in the
\* evening while its flag was set, everybody was mailed; if it was started today
\* and there is a file, the rows of today are booked; unless it is still at it,
\* or a job of the day before ended today and so took the file for its own.
NothingForgotten ==
  [][day' # day =>
       /\ "mails" \in tested \ late /\ pc # "sending" =>
            \A u \in Subscribers : mailed[u] >= 1
       /\ "recurring" \in tested \ late /\ ~booting /\ file["recurring"] # Absent =>
            \A r \in Rows : DayOfMonth[r] = day => recorded[r] >= 1]_vars

\* A server that has ended serves again, if it is started again, by the next day:
\* a spending that ends it every time it tests the budgets is over by then.
ServesAgain == pc = "down" /\ day < MaxDay ~> pc = "update"
=============================================================================
