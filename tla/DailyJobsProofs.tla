-------------------------- MODULE DailyJobsProofs --------------------------
(***************************************************************************)
(* Theorems about DailyJobs for any number of days, faults, subscribers,   *)
(* rows and budgets.  A file is all the server remembers of a job; so the  *)
(* invariant says what todo, pc and the file together tell of what was     *)
(* mailed and booked, and how much of it the cuts have made them forget.   *)
(***************************************************************************)
EXTENDS DailyJobs, TLAPS

USE DaysAssumption, RowsAssumption, AbsentAssumption, PlacesAssumption


\* Between SELECT FROM Recurencies and the end of the job.
InBooking == pc \in {"booking"} \cup Rows

\* The file has a date that cannot be passed for a row's day again.
Booked(r) == file["recurring"] # Absent /\ file["recurring"] >= DayOfMonth[r]

\* No file holds a date to come; only a fault cuts a job off.
Dates ==
  /\ \A j \in Jobs : file[j] = Absent \/ file[j] <= day
  /\ \A j \in Jobs : cuts[j] <= faults

\* What main() knows where it is.
Control ==
  /\ pc \in {"recurring", "select"} \/ InBooking => booting
  /\ pc \in Rows => some /\ pc \in todo
  /\ pc = "down" => tested = {}
  /\ pc = "select" => file["recurring"] # day
  /\ (pc = "select" \/ InBooking) /\ "recurring" \in tested => begun

\* A mail beyond the cuts is accounted for by todo, or by the file.
Mails ==
  \A u \in Subscribers :
    /\ mailed[u] <= cuts["mails"] + 1
    /\ mailed[u] > cuts["mails"] =>
         IF pc = "sending" THEN u \notin todo ELSE file["mails"] = day

\* So is a booking; what is still to book was not booked since the last cut.
Bookings ==
  \A r \in Rows :
    /\ moved[r] <= cuts["recurring"] + 1 /\ recorded[r] <= cuts["recurring"] + 1
    /\ moved[r] > cuts["recurring"] \/ recorded[r] > cuts["recurring"] =>
         Booked(r) \/ (InBooking /\ some /\ DayOfMonth[r] <= day)
    /\ InBooking /\ r \in todo =>
         /\ ~Booked(r) /\ DayOfMonth[r] <= day
         /\ recorded[r] <= cuts["recurring"]
         /\ pc # r => moved[r] <= cuts["recurring"]

\* The money goes first.
History ==
  \A r \in Rows \ renamed :
    /\ recorded[r] <= moved[r]
    /\ pc = r => recorded[r] < moved[r]

\* What a job begun today has done of its work for today.
Progress ==
  begun =>
    /\ pc = "sending" => \A u \in Subscribers \ todo : mailed[u] >= 1
    /\ InBooking =>
         \A r \in Rows \ todo : DayOfMonth[r] = day => recorded[r] >= 1
    /\ pc = "verify" => spent \subseteq todo

\* What a process has tested for today is done, or under way.
Remembered ==
  /\ "mails" \in tested \ late /\ pc # "sending" =>
       \A u \in Subscribers : mailed[u] >= 1
  /\ "recurring" \in tested \ late /\ ~booting /\ file["recurring"] # Absent =>
       \A r \in Rows : DayOfMonth[r] = day => recorded[r] >= 1

IInv == /\ TypeOK /\ Dates /\ Control /\ Mails /\ Bookings /\ History
        /\ Progress /\ FilesTellTruth /\ Remembered


-----------------------------------------------------------------------------

\* The initial state satisfies the inductive invariant.
LEMMA InitIInv == Init => IInv
<1> SUFFICES ASSUME Init PROVE IInv
  OBVIOUS
<1> USE DEF Init, Jobs
<1>1. TypeOK
  <2>1. file \in [Jobs -> {Absent} \cup 0..MaxDay]
    OBVIOUS
  <2>2. day \in 1..MaxDay /\ 0 \in 0..MaxFaults
    OBVIOUS
  <2>3. cuts \in [Jobs -> 0..MaxFaults]
    BY <2>2
  <2>4. mailed \in [Subscribers -> Nat] /\ moved \in [Rows -> Nat]
        /\ recorded \in [Rows -> Nat]
    OBVIOUS
  <2>5. QED BY <2>1, <2>2, <2>3, <2>4 DEF TypeOK, PCs, Places
<1>2. Dates /\ Control
  BY DEF Dates, Control, InBooking, Places
<1>3. Mails
  BY DEF Mails
<1>4. Bookings
  BY DEF Bookings, Booked, InBooking, Places
<1>5. History
  BY DEF History, Places
<1>6. Progress
  BY DEF Progress
<1>7. FilesTellTruth
  BY DEF FilesTellTruth
<1>8. Remembered
  BY DEF Remembered
<1>9. QED
  BY <1>1, <1>2, <1>3, <1>4, <1>5, <1>6, <1>7, <1>8 DEF IInv


\* Every step keeps every variable within its type.
LEMMA TypeStep == IInv /\ [Next]_vars => TypeOK'
<1> SUFFICES ASSUME IInv, [Next]_vars PROVE TypeOK'
  OBVIOUS
<1> USE DEF IInv, TypeOK, PCs, Places, Jobs, Dates
<1>1. CASE Tick
  <2>1. day' \in 1..MaxDay
    BY <1>1 DEF Tick
  <2>2. mailed' \in [Subscribers -> Nat]
    BY <1>1 DEF Tick
  <2>3. cuts' \in [Jobs -> 0..MaxFaults]
    BY <1>1 DEF Tick
  <2>4. QED BY <1>1, <2>1, <2>2, <2>3 DEF Tick, control
<1>2. CASE Start
  BY <1>2 DEF Start, clock, ghosts
<1>3. CASE Fault
  <2>1. \A j \in Jobs : cuts[j] + 1 \in 0..MaxFaults
    BY <1>3 DEF Fault
  <2>2. cuts' \in [Jobs -> 0..MaxFaults]
    BY <1>3, <2>1 DEF Fault, Ended
  <2>3. faults' \in 0..MaxFaults
    BY <1>3 DEF Fault
  <2>4. QED BY <1>3, <2>2, <2>3 DEF Fault, Ended, clock
<1>4. ASSUME NEW v \in Owners, CountSpendings(v) PROVE TypeOK'
  BY <1>4 DEF CountSpendings, Ended, clock
<1>5. CASE CheckMails
  BY <1>5 DEF CheckMails, Begin, AfterMails, clock
<1>6. ASSUME NEW v \in Subscribers, SendMail(v) PROVE TypeOK'
  BY <1>6 DEF SendMail, clock
<1>7. CASE MailsDone
  <2>1. file' \in [Jobs -> {Absent} \cup 0..MaxDay]
    BY <1>7 DEF MailsDone, MarkDone
  <2>2. late' \subseteq Jobs
    BY <1>7 DEF MailsDone, MarkDone
  <2>3. QED BY <1>7, <2>1, <2>2 DEF MailsDone, AfterMails, clock
<1>8. CASE CheckRecurring
  BY <1>8 DEF CheckRecurring, LeaveConstructor, DueByFile, clock
<1>9. CASE SelectRows
  BY <1>9 DEF SelectRows, Begin, clock, ghosts
<1>10. ASSUME NEW x \in Rows, MoveMoney(x) PROVE TypeOK'
  BY <1>10 DEF MoveMoney, clock
<1>11. ASSUME NEW x \in Rows, RecordRow(x) PROVE TypeOK'
  BY <1>11 DEF RecordRow, clock
<1>12. CASE BookingDone
  <2>1. file' \in [Jobs -> {Absent} \cup 0..MaxDay]
    BY <1>12 DEF BookingDone, MarkDone
  <2>2. late' \subseteq Jobs
    BY <1>12 DEF BookingDone, MarkDone
  <2>3. QED BY <1>12, <2>1, <2>2 DEF BookingDone, LeaveConstructor, clock
<1>13. CASE CheckBudgets
  BY <1>13 DEF CheckBudgets, ToVerify, DueByFile, clock, ghosts
<1>14. CASE CheckAgain
  BY <1>14 DEF CheckAgain, Begin, ToVerify, DueByFile, clock
<1>15. ASSUME NEW v \in Owners, PassOwner(v) PROVE TypeOK'
  BY <1>15 DEF PassOwner, clock, ghosts
<1>16. CASE BudgetsDone
  <2>1. file' \in [Jobs -> {Absent} \cup 0..MaxDay]
    BY <1>16 DEF BudgetsDone, MarkDone
  <2>2. late' \subseteq Jobs
    BY <1>16 DEF BudgetsDone, MarkDone
  <2>3. QED BY <1>16, <2>1, <2>2 DEF BudgetsDone, clock
<1>17. ASSUME NEW v \in Owners, OnAddSpendings(v) PROVE TypeOK'
  BY <1>17 DEF OnAddSpendings, Handled, clock, ghosts
<1>18. ASSUME NEW x \in Rows, OnEditCard(x) PROVE TypeOK'
  BY <1>18 DEF OnEditCard, Handled, clock, ghosts
<1>19. CASE OnOtherMessage
  BY <1>19 DEF OnOtherMessage, Handled, clock, ghosts
<1>20. CASE UNCHANGED vars
  BY <1>20 DEF vars, clock, control, ghosts
<1>21. QED
  BY <1>1, <1>2, <1>3, <1>4, <1>5, <1>6, <1>7, <1>8, <1>9, <1>10, <1>11,
     <1>12, <1>13, <1>14, <1>15, <1>16, <1>17, <1>18, <1>19, <1>20
  DEF Next, Main, Message

\* A file gets the date of now, and a cut is a fault.
LEMMA DatesStep == IInv /\ [Next]_vars => Dates'
<1> SUFFICES ASSUME IInv, [Next]_vars PROVE Dates'
  OBVIOUS
<1> USE DEF IInv, TypeOK, PCs, Places, Jobs, Dates
<1>1. CASE Tick
  BY <1>1 DEF Tick, clock, control
<1>2. CASE Start
  BY <1>2 DEF Start, clock, ghosts
<1>3. CASE Fault
  BY <1>3 DEF Fault, Ended, clock
<1>4. ASSUME NEW v \in Owners, CountSpendings(v) PROVE Dates'
  BY <1>4 DEF CountSpendings, Ended, clock
<1>5. CASE CheckMails
  BY <1>5 DEF CheckMails, Begin, AfterMails, clock
<1>6. ASSUME NEW v \in Subscribers, SendMail(v) PROVE Dates'
  BY <1>6 DEF SendMail, clock
<1>7. CASE MailsDone
  BY <1>7 DEF MailsDone, MarkDone, AfterMails, clock
<1>8. CASE CheckRecurring
  BY <1>8 DEF CheckRecurring, LeaveConstructor, DueByFile, clock
<1>9. CASE SelectRows
  BY <1>9 DEF SelectRows, Begin, clock, ghosts
<1>10. ASSUME NEW x \in Rows, MoveMoney(x) PROVE Dates'
  BY <1>10 DEF MoveMoney, clock
<1>11. ASSUME NEW x \in Rows, RecordRow(x) PROVE Dates'
  BY <1>11 DEF RecordRow, clock
<1>12. CASE BookingDone
  BY <1>12 DEF BookingDone, MarkDone, LeaveConstructor, clock
<1>13. CASE CheckBudgets
  BY <1>13 DEF CheckBudgets, ToVerify, DueByFile, clock, ghosts
<1>14. CASE CheckAgain
  BY <1>14 DEF CheckAgain, Begin, ToVerify, DueByFile, clock
<1>15. ASSUME NEW v \in Owners, PassOwner(v) PROVE Dates'
  BY <1>15 DEF PassOwner, clock, ghosts
<1>16. CASE BudgetsDone
  BY <1>16 DEF BudgetsDone, MarkDone, clock
<1>17. ASSUME NEW v \in Owners, OnAddSpendings(v) PROVE Dates'
  BY <1>17 DEF OnAddSpendings, Handled, clock, ghosts
<1>18. ASSUME NEW x \in Rows, OnEditCard(x) PROVE Dates'
  BY <1>18 DEF OnEditCard, Handled, clock, ghosts
<1>19. CASE OnOtherMessage
  BY <1>19 DEF OnOtherMessage, Handled, clock, ghosts
<1>20. CASE UNCHANGED vars
  BY <1>20 DEF vars, clock, control, ghosts
<1>21. QED
  BY <1>1, <1>2, <1>3, <1>4, <1>5, <1>6, <1>7, <1>8, <1>9, <1>10, <1>11,
     <1>12, <1>13, <1>14, <1>15, <1>16, <1>17, <1>18, <1>19, <1>20
  DEF Next, Main, Message

\* The main thread knows where it is.
LEMMA ControlStep == IInv /\ [Next]_vars => Control'
<1> SUFFICES ASSUME IInv, [Next]_vars PROVE Control'
  OBVIOUS
<1> USE DEF IInv, TypeOK, PCs, Places, Jobs, Dates, Control, InBooking
<1>1. CASE Tick
  <2>1. CASE day' = day
    BY <1>1, <2>1 DEF Tick, control
  <2>2. CASE day' = day + 1
    <3>1. file["recurring"] # day'
      BY <2>2
    <3>2. QED BY <1>1, <2>2, <3>1 DEF Tick, control
  <2>3. QED BY <1>1, <2>1, <2>2 DEF Tick, clock
<1>2. CASE Start
  BY <1>2 DEF Start, clock, ghosts
<1>3. CASE Ended
  BY <1>3 DEF Ended, clock
<1>4. CASE CheckMails
  BY <1>4 DEF CheckMails, Begin, AfterMails, clock
<1>5. ASSUME NEW v \in Subscribers, SendMail(v) PROVE Control'
  BY <1>5 DEF SendMail, clock
<1>6. CASE MailsDone
  BY <1>6 DEF MailsDone, MarkDone, AfterMails, clock
<1>7. CASE CheckRecurring
  BY <1>7 DEF CheckRecurring, LeaveConstructor, DueByFile, clock
<1>8. CASE SelectRows
  BY <1>8 DEF SelectRows, Begin, clock, ghosts
<1>9. ASSUME NEW x \in Rows, MoveMoney(x) PROVE Control'
  BY <1>9 DEF MoveMoney, clock
<1>10. ASSUME NEW x \in Rows, RecordRow(x) PROVE Control'
  BY <1>10 DEF RecordRow, clock
<1>11. CASE BookingDone
  BY <1>11 DEF BookingDone, MarkDone, LeaveConstructor, clock
<1>12. CASE CheckBudgets
  BY <1>12 DEF CheckBudgets, ToVerify, DueByFile, clock, ghosts
<1>13. CASE CheckAgain
  BY <1>13 DEF CheckAgain, Begin, ToVerify, DueByFile, clock
<1>14. ASSUME NEW v \in Owners, PassOwner(v) PROVE Control'
  BY <1>14 DEF PassOwner, clock, ghosts
<1>15. CASE BudgetsDone
  BY <1>15 DEF BudgetsDone, MarkDone, clock
<1>16. CASE Handled
  BY <1>16 DEF Handled, clock, ghosts
<1>17. CASE UNCHANGED vars
  BY <1>17 DEF vars, clock, control, ghosts
<1>18. QED
  BY <1>1, <1>2, <1>3, <1>4, <1>5, <1>6, <1>7, <1>8, <1>9, <1>10, <1>11,
     <1>12, <1>13, <1>14, <1>15, <1>16, <1>17
  DEF Next, Main, Message, Fault, CountSpendings, OnAddSpendings, OnEditCard,
      OnOtherMessage

\* No step mails anybody for whom todo or the file speaks.
LEMMA MailsStep == IInv /\ [Next]_vars => Mails'
<1> SUFFICES ASSUME IInv, [Next]_vars PROVE Mails'
  OBVIOUS
<1> USE DEF IInv, TypeOK, PCs, Places, Jobs, Dates, Mails
<1>1. CASE Tick
  <2>1. CASE day' = day
    BY <1>1, <2>1 DEF Tick, control
  <2>2. CASE day' = day + 1
    BY <1>1, <2>2 DEF Tick, control
  <2>3. QED BY <1>1, <2>1, <2>2 DEF Tick, clock
<1>2. CASE Start
  BY <1>2 DEF Start, clock, ghosts
<1>3. CASE Ended
  BY <1>3 DEF Ended, clock
<1>4. CASE CheckMails
  BY <1>4 DEF CheckMails, Begin, AfterMails, clock
<1>5. ASSUME NEW v \in Subscribers, SendMail(v) PROVE Mails'
  BY <1>5 DEF SendMail, clock
<1>6. CASE MailsDone
  BY <1>6 DEF MailsDone, MarkDone, AfterMails, clock
<1>7. CASE CheckRecurring
  BY <1>7 DEF CheckRecurring, LeaveConstructor, DueByFile, clock
<1>8. CASE SelectRows
  BY <1>8 DEF SelectRows, Begin, clock, ghosts
<1>9. ASSUME NEW x \in Rows, MoveMoney(x) PROVE Mails'
  BY <1>9 DEF MoveMoney, clock
<1>10. ASSUME NEW x \in Rows, RecordRow(x) PROVE Mails'
  BY <1>10 DEF RecordRow, clock
<1>11. CASE BookingDone
  BY <1>11 DEF BookingDone, MarkDone, LeaveConstructor, clock
<1>12. CASE CheckBudgets
  BY <1>12 DEF CheckBudgets, ToVerify, DueByFile, clock, ghosts
<1>13. CASE CheckAgain
  BY <1>13 DEF CheckAgain, Begin, ToVerify, DueByFile, clock
<1>14. ASSUME NEW v \in Owners, PassOwner(v) PROVE Mails'
  BY <1>14 DEF PassOwner, clock, ghosts
<1>15. CASE BudgetsDone
  BY <1>15 DEF BudgetsDone, MarkDone, clock
<1>16. CASE Handled
  BY <1>16 DEF Handled, clock, ghosts
<1>17. CASE UNCHANGED vars
  BY <1>17 DEF vars, clock, control, ghosts
<1>18. QED
  BY <1>1, <1>2, <1>3, <1>4, <1>5, <1>6, <1>7, <1>8, <1>9, <1>10, <1>11,
     <1>12, <1>13, <1>14, <1>15, <1>16, <1>17
  DEF Next, Main, Message, Fault, CountSpendings, OnAddSpendings, OnEditCard,
      OnOtherMessage

\* Nor does one book a row.
LEMMA BookingsStep == IInv /\ [Next]_vars => Bookings'
<1> SUFFICES ASSUME IInv, [Next]_vars PROVE Bookings'
  OBVIOUS
<1> USE DEF IInv, TypeOK, PCs, Places, Jobs, Dates, Control, Bookings, Booked, InBooking
<1>1. CASE Tick
  <2>1. CASE day' = day
    BY <1>1, <2>1 DEF Tick, control
  <2>2. CASE day' = day + 1
    BY <1>1, <2>2 DEF Tick, control
  <2>3. QED BY <1>1, <2>1, <2>2 DEF Tick, clock
<1>2. CASE Start
  BY <1>2 DEF Start, clock, ghosts
<1>3. CASE Ended
  BY <1>3 DEF Ended, clock
<1>4. CASE CheckMails
  BY <1>4 DEF CheckMails, Begin, AfterMails, clock
<1>5. ASSUME NEW v \in Subscribers, SendMail(v) PROVE Bookings'
  BY <1>5 DEF SendMail, clock
<1>6. CASE MailsDone
  BY <1>6 DEF MailsDone, MarkDone, AfterMails, clock
<1>7. CASE CheckRecurring
  BY <1>7 DEF CheckRecurring, LeaveConstructor, DueByFile, clock
<1>8. CASE SelectRows
  BY <1>8 DEF SelectRows, Begin, clock, ghosts
<1>9. ASSUME NEW x \in Rows, MoveMoney(x) PROVE Bookings'
  BY <1>9 DEF MoveMoney, clock
<1>10. ASSUME NEW x \in Rows, RecordRow(x) PROVE Bookings'
  BY <1>10 DEF RecordRow, clock
<1>11. CASE BookingDone
  BY <1>11 DEF BookingDone, MarkDone, LeaveConstructor, clock
<1>12. CASE CheckBudgets
  BY <1>12 DEF CheckBudgets, ToVerify, DueByFile, clock, ghosts
<1>13. CASE CheckAgain
  BY <1>13 DEF CheckAgain, Begin, ToVerify, DueByFile, clock
<1>14. ASSUME NEW v \in Owners, PassOwner(v) PROVE Bookings'
  BY <1>14 DEF PassOwner, clock, ghosts
<1>15. CASE BudgetsDone
  BY <1>15 DEF BudgetsDone, MarkDone, clock
<1>16. CASE Handled
  BY <1>16 DEF Handled, clock, ghosts
<1>17. CASE UNCHANGED vars
  BY <1>17 DEF vars, clock, control, ghosts
<1>18. QED
  BY <1>1, <1>2, <1>3, <1>4, <1>5, <1>6, <1>7, <1>8, <1>9, <1>10, <1>11,
     <1>12, <1>13, <1>14, <1>15, <1>16, <1>17
  DEF Next, Main, Message, Fault, CountSpendings, OnAddSpendings, OnEditCard,
      OnOtherMessage

\* No step writes a row to the history that it did not move.
LEMMA HistoryStep == IInv /\ [Next]_vars => History'
<1> SUFFICES ASSUME IInv, [Next]_vars PROVE History'
  OBVIOUS
<1> USE DEF IInv, TypeOK, PCs, Places, Jobs, Control, History
<1>1. CASE Tick
  BY <1>1 DEF Tick, clock, control
<1>2. CASE Start
  BY <1>2 DEF Start, clock, ghosts
<1>3. CASE Ended
  BY <1>3 DEF Ended, clock
<1>4. CASE CheckMails
  BY <1>4 DEF CheckMails, Begin, AfterMails, clock
<1>5. ASSUME NEW v \in Subscribers, SendMail(v) PROVE History'
  BY <1>5 DEF SendMail, clock
<1>6. CASE MailsDone
  BY <1>6 DEF MailsDone, MarkDone, AfterMails, clock
<1>7. CASE CheckRecurring
  BY <1>7 DEF CheckRecurring, LeaveConstructor, DueByFile, clock
<1>8. CASE SelectRows
  BY <1>8 DEF SelectRows, Begin, clock, ghosts
<1>9. ASSUME NEW x \in Rows, MoveMoney(x) PROVE History'
  BY <1>9 DEF MoveMoney, clock
<1>10. ASSUME NEW x \in Rows, RecordRow(x) PROVE History'
  BY <1>10 DEF RecordRow, clock
<1>11. CASE BookingDone
  BY <1>11 DEF BookingDone, MarkDone, LeaveConstructor, clock
<1>12. CASE CheckBudgets
  BY <1>12 DEF CheckBudgets, ToVerify, DueByFile, clock, ghosts
<1>13. CASE CheckAgain
  BY <1>13 DEF CheckAgain, Begin, ToVerify, DueByFile, clock
<1>14. ASSUME NEW v \in Owners, PassOwner(v) PROVE History'
  BY <1>14 DEF PassOwner, clock, ghosts
<1>15. CASE BudgetsDone
  BY <1>15 DEF BudgetsDone, MarkDone, clock
<1>16. ASSUME NEW v \in Owners, OnAddSpendings(v) PROVE History'
  BY <1>16 DEF OnAddSpendings, Handled, clock, ghosts
<1>17. ASSUME NEW x \in Rows, OnEditCard(x) PROVE History'
  BY <1>17 DEF OnEditCard, Handled, clock, ghosts
<1>18. CASE OnOtherMessage
  BY <1>18 DEF OnOtherMessage, Handled, clock, ghosts
<1>19. CASE UNCHANGED vars
  BY <1>19 DEF vars, clock, control, ghosts
<1>20. QED
  BY <1>1, <1>2, <1>3, <1>4, <1>5, <1>6, <1>7, <1>8, <1>9, <1>10, <1>11,
     <1>12, <1>13, <1>14, <1>15, <1>16, <1>17, <1>18, <1>19
  DEF Next, Main, Message, Fault, CountSpendings

\* A job counts down its work of today, and a day ends what it knows.
LEMMA ProgressStep == IInv /\ [Next]_vars => Progress'
<1> SUFFICES ASSUME IInv, [Next]_vars PROVE Progress'
  OBVIOUS
<1> USE DEF IInv, TypeOK, PCs, Places, Jobs, Dates, Control, Progress, InBooking
<1>1. CASE Tick
  BY <1>1 DEF Tick, clock, control
<1>2. CASE Start
  BY <1>2 DEF Start, clock, ghosts
<1>3. CASE Ended
  BY <1>3 DEF Ended, clock
<1>4. CASE CheckMails
  BY <1>4 DEF CheckMails, Begin, AfterMails, clock
<1>5. ASSUME NEW v \in Subscribers, SendMail(v) PROVE Progress'
  BY <1>5 DEF SendMail, clock
<1>6. CASE MailsDone
  BY <1>6 DEF MailsDone, MarkDone, AfterMails, clock
<1>7. CASE CheckRecurring
  BY <1>7 DEF CheckRecurring, LeaveConstructor, DueByFile, clock
<1>8. CASE SelectRows
  BY <1>8 DEF SelectRows, Begin, clock, ghosts
<1>9. ASSUME NEW x \in Rows, MoveMoney(x) PROVE Progress'
  BY <1>9 DEF MoveMoney, clock
<1>10. ASSUME NEW x \in Rows, RecordRow(x) PROVE Progress'
  BY <1>10 DEF RecordRow, clock
<1>11. CASE BookingDone
  BY <1>11 DEF BookingDone, MarkDone, LeaveConstructor, clock
<1>12. CASE CheckBudgets
  BY <1>12 DEF CheckBudgets, ToVerify, DueByFile, clock, ghosts
<1>13. CASE CheckAgain
  BY <1>13 DEF CheckAgain, Begin, ToVerify, DueByFile, clock
<1>14. ASSUME NEW v \in Owners, PassOwner(v) PROVE Progress'
  BY <1>14 DEF PassOwner, clock, ghosts
<1>15. CASE BudgetsDone
  BY <1>15 DEF BudgetsDone, MarkDone, clock
<1>16. ASSUME NEW v \in Owners, OnAddSpendings(v) PROVE Progress'
  BY <1>16 DEF OnAddSpendings, Handled, clock, ghosts
<1>17. ASSUME NEW x \in Rows, OnEditCard(x) PROVE Progress'
  BY <1>17 DEF OnEditCard, Handled, clock, ghosts
<1>18. CASE OnOtherMessage
  BY <1>18 DEF OnOtherMessage, Handled, clock, ghosts
<1>19. CASE UNCHANGED vars
  BY <1>19 DEF vars, clock, control, ghosts
<1>20. QED
  BY <1>1, <1>2, <1>3, <1>4, <1>5, <1>6, <1>7, <1>8, <1>9, <1>10, <1>11,
     <1>12, <1>13, <1>14, <1>15, <1>16, <1>17, <1>18, <1>19
  DEF Next, Main, Message, Fault, CountSpendings

\* No step makes a file lie.
LEMMA TruthStep == IInv /\ [Next]_vars => FilesTellTruth'
<1> SUFFICES ASSUME IInv, [Next]_vars PROVE FilesTellTruth'
  OBVIOUS
<1> USE DEF IInv, TypeOK, PCs, Places, Jobs, Dates, Control, Progress, FilesTellTruth, InBooking
<1>1. CASE Tick
  BY <1>1 DEF Tick, clock, control
<1>2. CASE Start
  BY <1>2 DEF Start, clock, ghosts
<1>3. CASE Ended
  BY <1>3 DEF Ended, clock
<1>4. CASE CheckMails
  BY <1>4 DEF CheckMails, Begin, AfterMails, clock
<1>5. ASSUME NEW v \in Subscribers, SendMail(v) PROVE FilesTellTruth'
  BY <1>5 DEF SendMail, clock
<1>6. CASE MailsDone
  BY <1>6 DEF MailsDone, MarkDone, AfterMails, clock
<1>7. CASE CheckRecurring
  BY <1>7 DEF CheckRecurring, LeaveConstructor, DueByFile, clock
<1>8. CASE SelectRows
  BY <1>8 DEF SelectRows, Begin, clock, ghosts
<1>9. ASSUME NEW x \in Rows, MoveMoney(x) PROVE FilesTellTruth'
  BY <1>9 DEF MoveMoney, clock
<1>10. ASSUME NEW x \in Rows, RecordRow(x) PROVE FilesTellTruth'
  BY <1>10 DEF RecordRow, clock
<1>11. CASE BookingDone
  BY <1>11 DEF BookingDone, MarkDone, LeaveConstructor, clock
<1>12. CASE CheckBudgets
  BY <1>12 DEF CheckBudgets, ToVerify, DueByFile, clock, ghosts
<1>13. CASE CheckAgain
  BY <1>13 DEF CheckAgain, Begin, ToVerify, DueByFile, clock
<1>14. ASSUME NEW v \in Owners, PassOwner(v) PROVE FilesTellTruth'
  BY <1>14 DEF PassOwner, clock, ghosts
<1>15. CASE BudgetsDone
  BY <1>15 DEF BudgetsDone, MarkDone, clock
<1>16. ASSUME NEW v \in Owners, OnAddSpendings(v) PROVE FilesTellTruth'
  BY <1>16 DEF OnAddSpendings, Handled, clock, ghosts
<1>17. ASSUME NEW x \in Rows, OnEditCard(x) PROVE FilesTellTruth'
  BY <1>17 DEF OnEditCard, Handled, clock, ghosts
<1>18. CASE OnOtherMessage
  BY <1>18 DEF OnOtherMessage, Handled, clock, ghosts
<1>19. CASE UNCHANGED vars
  BY <1>19 DEF vars, clock, control, ghosts
<1>20. QED
  BY <1>1, <1>2, <1>3, <1>4, <1>5, <1>6, <1>7, <1>8, <1>9, <1>10, <1>11,
     <1>12, <1>13, <1>14, <1>15, <1>16, <1>17, <1>18, <1>19
  DEF Next, Main, Message, Fault, CountSpendings

\* No step forgets what the process has tested.
LEMMA RememberedStep == IInv /\ [Next]_vars => Remembered'
<1> SUFFICES ASSUME IInv, [Next]_vars PROVE Remembered'
  OBVIOUS
<1> USE DEF IInv, TypeOK, PCs, Places, Jobs, Dates, Control, Progress, FilesTellTruth,
           Remembered, InBooking
<1>1. CASE Tick
  BY <1>1 DEF Tick, clock, control
<1>2. CASE Start
  BY <1>2 DEF Start, clock, ghosts
<1>3. CASE Ended
  BY <1>3 DEF Ended, clock
<1>4. CASE CheckMails
  BY <1>4 DEF CheckMails, Begin, AfterMails, clock
<1>5. ASSUME NEW v \in Subscribers, SendMail(v) PROVE Remembered'
  BY <1>5 DEF SendMail, clock
<1>6. CASE MailsDone
  BY <1>6 DEF MailsDone, MarkDone, AfterMails, clock
<1>7. CASE CheckRecurring
  BY <1>7 DEF CheckRecurring, LeaveConstructor, DueByFile, clock
<1>8. CASE SelectRows
  BY <1>8 DEF SelectRows, Begin, clock, ghosts
<1>9. ASSUME NEW x \in Rows, MoveMoney(x) PROVE Remembered'
  BY <1>9 DEF MoveMoney, clock
<1>10. ASSUME NEW x \in Rows, RecordRow(x) PROVE Remembered'
  BY <1>10 DEF RecordRow, clock
<1>11. CASE BookingDone
  BY <1>11 DEF BookingDone, MarkDone, LeaveConstructor, clock
<1>12. CASE CheckBudgets
  BY <1>12 DEF CheckBudgets, ToVerify, DueByFile, clock, ghosts
<1>13. CASE CheckAgain
  BY <1>13 DEF CheckAgain, Begin, ToVerify, DueByFile, clock
<1>14. ASSUME NEW v \in Owners, PassOwner(v) PROVE Remembered'
  BY <1>14 DEF PassOwner, clock, ghosts
<1>15. CASE BudgetsDone
  BY <1>15 DEF BudgetsDone, MarkDone, clock
<1>16. CASE Handled
  BY <1>16 DEF Handled, clock, ghosts
<1>17. CASE UNCHANGED vars
  BY <1>17 DEF vars, clock, control, ghosts
<1>18. QED
  BY <1>1, <1>2, <1>3, <1>4, <1>5, <1>6, <1>7, <1>8, <1>9, <1>10, <1>11,
     <1>12, <1>13, <1>14, <1>15, <1>16, <1>17
  DEF Next, Main, Message, Fault, CountSpendings, OnAddSpendings, OnEditCard,
      OnOtherMessage

-----------------------------------------------------------------------------
\* The inductive invariant is one.
THEOREM Invariance == Spec => []IInv
<1>1. IInv /\ [Next]_vars => IInv'
  BY TypeStep, DatesStep, ControlStep, MailsStep, BookingsStep, HistoryStep,
     ProgressStep, TruthStep, RememberedStep DEF IInv
<1>2. QED BY InitIInv, <1>1, PTL DEF Spec

\* Every reachable state of the daily jobs is well typed, whatever the days, the
\* rows and the faults (clever_IServer.h:412-743).
THEOREM TypeCorrect == Spec => []TypeOK
<1>1. IInv => TypeOK
  BY DEF IInv
<1>2. QED BY Invariance, <1>1, PTL

\* However often the server is started and its process ends, a subscriber gets one
\* mail a day and a row is booked once, but for one repetition for each end in the
\* middle of the job (IServer.h:447, 734).
THEOREM OnceEach == Spec => []NotTwice
<1>1. IInv => NotTwice
  BY DEF IInv, Mails, Bookings, NotTwice, TypeOK, Jobs
<1>2. QED BY Invariance, <1>1, PTL

\* A file with today's date says that the job was done for today, if it was begun
\* today (updateFileWithCurrentDate, called at the end of each job).
THEOREM FilesAreTrue == Spec => []FilesTellTruth
<1>1. IInv => FilesTellTruth
  BY DEF IInv
<1>2. QED BY Invariance, <1>1, PTL

\* The history never shows a recurring transaction that did not move the money, at
\* whichever statement the process ends (IServer.h:598-609).
THEOREM MoneyFirst == Spec => []HistoryIsTrue
<1>1. IInv => HistoryIsTrue
  BY DEF IInv, History, HistoryIsTrue
<1>2. QED BY Invariance, <1>1, PTL

\* No day ends with mails or rows forgotten that this process was to do.
THEOREM NothingIsForgotten == Spec => NothingForgotten
<1> DEFINE Done ==
      /\ "mails" \in tested \ late /\ pc # "sending" =>
           \A u \in Subscribers : mailed[u] >= 1
      /\ "recurring" \in tested \ late /\ ~booting /\ file["recurring"] # Absent =>
           \A r \in Rows : DayOfMonth[r] = day => recorded[r] >= 1
<1>1. IInv => Done
  BY DEF IInv, Remembered
<1>2. Done => [day' # day => Done]_vars
  OBVIOUS
<1> HIDE DEF Done
<1>3. IInv /\ [Next]_vars => [day' # day => Done]_vars
  BY <1>1, <1>2
<1>4. Spec => [][day' # day => Done]_vars
  BY Invariance, <1>3, PTL DEF Spec
<1>5. QED BY <1>4 DEF Done, NothingForgotten
=============================================================================
