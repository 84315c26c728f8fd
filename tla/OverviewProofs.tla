--------------------------- MODULE OverviewProofs ---------------------------
(***************************************************************************)
(* Theorems about Overview for any finances, any histories and any months: *)
(* what the run shows around one turn of the year, SixMonthsBack says of   *)
(* all of them.  A page shows what was computed when it was opened, so the *)
(* invariant is about the page that is open.                               *)
(***************************************************************************)
EXTENDS Overview, SequenceTheorems, FiniteSetTheorems, WellFoundedInduction, TLAPS

USE MonthsAssumption, BoundsAssumption

\* The six months of the statistics are the six that end with this one, over
\* the end of any year (init_statistics, dashboard.cpp:2402-2428).
THEOREM SixMonthsBack ==
  \A m \in Nat : LastSixMonths(m) = [k \in 1..6 |-> Calendar(m - 6 + k)]
<1> TAKE m \in Nat
<1> SUFFICES ASSUME NEW k \in 1..6
             PROVE  LastSixMonths(m)[k] = Calendar(m - 6 + k)
  BY DEF LastSixMonths
<1>1. Calendar(m) \in 1..12 /\ StartMonth(m) = Calendar(m - 5)
  BY DEF Calendar, StartMonth
<1>2. LastSixMonths(m)[k] = Calendar(StartMonth(m) + k - 1)
  BY <1>1 DEF LastSixMonths, Calendar
<1>3. Calendar(Calendar(m - 5) + k - 1) = Calendar(m - 6 + k)
  BY DEF Calendar
<1>4. QED BY <1>1, <1>2, <1>3

-----------------------------------------------------------------------------
\* Nothing is shown of days to come.
Times ==
  /\ month \in Nat /\ history \in Seq(Tranzaction)
  /\ \A k \in 1..Len(history) : history[k].at <= month
  /\ asOf \in Nat /\ opened \in Nat
  /\ page \in {"statistics", "categories"} =>
       \A k \in 1..Len(history) : history[k].at <= asOf

\* The labels come from the first opening.
Labels ==
  /\ currLastSixMonths \in Seq(1..12)
  /\ currLastSixMonths # <<>> =>
       /\ Len(currLastSixMonths) >= 6
       /\ \A k \in 1..6 : currLastSixMonths[k] = Calendar(opened - 6 + k)

\* One set of filters, but for the date after the page of incomes.
Promised == IF fromIncome THEN [shown EXCEPT !.date = filter.date] ELSE shown
Lists ==
  /\ filter \in Filter /\ shown \in Filter
  /\ page = "tranzactions" => filter = Promised /\ list = Filtered(history, filter)

\* What the open page shows, and of which months.
Charts ==
  /\ page = "statistics" =>
       /\ currLastSixMonths # <<>>
       /\ \A k \in 1..6 :
            LET code == Calendar(asOf - 6 + k)
            IN  /\ bars[k] = <<IncomeFor(history, code), OutcomeFor(history, code)>>
                /\ line[k] = CapitalFor(history, code)
       /\ hovered # <<>> =>
            /\ hovered[1] \in 1..6
            /\ hovered[2] = currLastSixMonths[hovered[1]]
            /\ hovered[3] = CapitalFor(history, hovered[2])
  /\ page = "categories" => totals = SpendingsTotal(history, Calendar(asOf))

IInv == Times /\ Labels /\ Lists /\ Charts

-----------------------------------------------------------------------------
\* Any choice in the pickers is a filter.
LEMMA Filters ==
  ASSUME NEW f \in AllFinances, NEW t \in AllTypes, NEW d \in Int
  PROVE  [finance |-> f, type |-> t, date |-> d] \in Filter
BY DEF Filter

\* A date that is picked.
LEMMA DatesBefore ==
  ASSUME NEW m \in Int, NEW a \in Ages
  PROVE  m - a \in Int
BY MonthsAssumption

\* So is a filter with another date.
LEMMA FilterDate ==
  ASSUME NEW f \in Filter, NEW d \in Int
  PROVE  [f EXCEPT !.date = d] \in Filter
BY DEF Filter

\* Appending the six months of an opening (dashboard.cpp:2423-2428).
LEMMA Appended ==
  ASSUME NEW s \in Seq(1..12), NEW m \in Nat
  PROVE  LET t == s \o LastSixMonths(m)
         IN  /\ t \in Seq(1..12) /\ Len(t) = Len(s) + 6 /\ t # <<>>
             /\ \A k \in 1..Len(s) : t[k] = s[k]
             /\ s = <<>> => \A k \in 1..6 : t[k] = Calendar(m - 6 + k)
<1> DEFINE new == [k \in 1..6 |-> Calendar(m - 6 + k)]
<1>1. LastSixMonths(m) = new
  BY SixMonthsBack
<1>2. \A k \in 1..6 : Calendar(m - 6 + k) \in 1..12
  BY DEF Calendar
<1>3. new \in Seq(1..12) /\ Len(new) = 6
  BY <1>2
<1>4. \A k \in 1..6 : new[k] = Calendar(m - 6 + k)
  OBVIOUS
<1> HIDE DEF new
<1>5. s \o new \in Seq(1..12) /\ Len(s \o new) = Len(s) + 6
  <2>1. s \o new \in Seq(1..12)
    BY <1>3, ConcatProperties
  <2>2. Len(s \o new) = Len(s) + Len(new)
    BY <1>3, ConcatProperties
  <2>3. QED BY <2>1, <2>2, <1>3
<1>6. \A k \in 1..Len(s) : (s \o new)[k] = s[k]
  BY <1>3
<1>7. s = <<>> => s \o new = new
  BY <1>3
<1>8. s \o new # <<>>
  BY <1>3, <1>5
<1>9. QED BY <1>1, <1>4, <1>5, <1>6, <1>7, <1>8

-----------------------------------------------------------------------------
\* The initial state satisfies the inductive invariant.
LEMMA InitIInv == Init => IInv
<1> SUFFICES ASSUME Init PROVE IInv
  OBVIOUS
<1>1. PICK n \in 0..MaxLoaded :
        history \in [1..n -> {[at |-> month - a, type |-> t, recurring |-> r,
                               finance |-> f] : a \in Ages, t \in Types,
                                                r \in BOOLEAN, f \in Finances}]
  <2>1. history \in Loadable(month)
    BY DEF Init
  <2>2. history \in UNION {[1..n -> {[at |-> month - a, type |-> t, recurring |-> r,
                                      finance |-> f] : a \in Ages, t \in Types,
                                                       r \in BOOLEAN, f \in Finances}] :
                           n \in 0..MaxLoaded}
    BY <2>1 DEF Loadable
  <2>3. QED BY <2>2
<1>2. month \in Nat
  BY DEF Init
<1>3. \A k \in 1..n : history[k] \in Tranzaction /\ history[k].at <= month
  BY <1>1, <1>2 DEF Tranzaction
<1>4. history \in Seq(Tranzaction) /\ Len(history) = n
  <2>1. history \in [1..n -> Tranzaction]
    BY <1>1, <1>3
  <2>2. QED BY <2>1
<1>5. Times
  BY <1>2, <1>3, <1>4 DEF Init, Times
<1>6. Labels
  <2>1. opened = month
        /\ (currLastSixMonths = <<>> \/ currLastSixMonths = LastSixMonths(month))
    BY DEF Init
  <2>2. CASE currLastSixMonths = <<>>
    BY <2>2 DEF Labels
  <2>3. CASE currLastSixMonths = LastSixMonths(month)
    <3>1. LastSixMonths(month) = [k \in 1..6 |-> Calendar(month - 6 + k)]
      BY <1>2, SixMonthsBack
    <3>2. \A k \in 1..6 : Calendar(month - 6 + k) \in 1..12
      BY <1>2 DEF Calendar
    <3>3. /\ currLastSixMonths \in Seq(1..12) /\ Len(currLastSixMonths) = 6
          /\ \A k \in 1..6 : currLastSixMonths[k] = Calendar(month - 6 + k)
      BY <2>3, <3>1, <3>2
    <3>4. QED BY <2>1, <3>3 DEF Labels
  <2>4. QED BY <2>1, <2>2, <2>3
<1>7. Lists
  <2>1. filter = [finance |-> "All Finances", type |-> "All Tranzactions", date |-> month]
        /\ shown = filter /\ page = "dashboard"
    BY DEF Init
  <2>2. filter \in Filter
    <3>1. month \in Int
      BY <1>2
    <3>2. QED BY <2>1, <3>1, Filters DEF AllFinances, AllTypes
  <2>3. QED BY <2>1, <2>2 DEF Lists
<1>8. Charts
  BY DEF Init, Charts
<1>9. QED BY <1>5, <1>6, <1>7, <1>8 DEF IInv

\* The newest transaction is of this month, also when it is added now.
LEMMA TimesStep == IInv /\ [Next]_vars => Times'
<1> SUFFICES ASSUME IInv, [Next]_vars PROVE Times'
  OBVIOUS
<1> USE DEF IInv, Times
<1>1. CASE OpenTranzactions
  BY <1>1
  DEF OpenTranzactions, Click, Enter, UpdateList, lists, statistics, dates
<1>2. ASSUME NEW f \in Finances, ShowFinanceHistory(f) PROVE Times'
  BY <1>2
  DEF ShowFinanceHistory, Click, Enter, UpdateList, lists, statistics, dates
<1>3. ASSUME NEW t \in AllTypes, PickType(t) PROVE Times'
  BY <1>3 DEF PickType, Click, UpdateList, lists, statistics, dates
<1>4. ASSUME NEW f \in AllFinances, PickFinance(f) PROVE Times'
  BY <1>4 DEF PickFinance, Click, UpdateList, lists, statistics, dates
<1>5. ASSUME NEW a \in Ages, PickDate(month - a) PROVE Times'
  BY <1>5 DEF PickDate, Click, UpdateList, lists, statistics, dates
<1>6. CASE OpenIncome
  BY <1>6 DEF OpenIncome, Click, lists, statistics, dates
<1>7. CASE BackFromIncome
  BY <1>7 DEF BackFromIncome, Click, UpdateList, lists, statistics, dates
<1>8. CASE OpenCategories
  BY <1>8 DEF OpenCategories, Click, lists, statistics, dates
<1>9. ASSUME NEW f \in Finances, AddSpending(f) PROVE Times'
  <2>1. history' \in Seq(Tranzaction) /\ month' = month
    BY <1>9 DEF AddSpending, Tranzaction, Types
  <2>2. \A k \in 1..Len(history') : history'[k].at <= month
    BY <1>9 DEF AddSpending
  <2>3. page' = page /\ opened' = opened /\ asOf' = month
    BY <1>9 DEF AddSpending
  <2>4. QED BY <2>1, <2>2, <2>3
<1>10. CASE OpenStatistics
  BY <1>10 DEF OpenStatistics, Click, InitStatistics, lists, statistics, dates
<1>11. ASSUME NEW k \in 1..6, Hover(k) PROVE Times'
  BY <1>11 DEF Hover, Click, lists, statistics, dates
<1>12. CASE Home
  BY <1>12 DEF Home, lists, statistics, dates
<1>13. CASE MonthPasses
  <2>1. month' = month + 1
        /\ UNCHANGED <<history, page, opened, asOf>>
    BY <1>13 DEF MonthPasses, dates
  <2>2. \A k \in 1..Len(history) : history[k].at \in Int
    <3>1. \A k \in 1..Len(history) : history[k] \in Tranzaction
      OBVIOUS
    <3>2. QED BY <3>1 DEF Tranzaction
  <2>3. \A k \in 1..Len(history) : history[k].at <= month + 1
    BY <2>2
  <2>4. QED BY <2>1, <2>3
<1>14. CASE UNCHANGED vars
  BY <1>14 DEF vars, lists, statistics, dates
<1>15. QED
  BY <1>1, <1>2, <1>3, <1>4, <1>5, <1>6, <1>7, <1>8, <1>9, <1>10, <1>11,
     <1>12, <1>13, <1>14
  DEF Next

\* What is appended leaves the first six months as they are.
LEMMA LabelsStep == IInv /\ [Next]_vars => Labels'
<1> SUFFICES ASSUME IInv, [Next]_vars PROVE Labels'
  OBVIOUS
<1> USE DEF IInv, Times, Labels
<1>1. CASE OpenTranzactions
  BY <1>1
  DEF OpenTranzactions, Click, Enter, UpdateList, lists, statistics, dates
<1>2. ASSUME NEW f \in Finances, ShowFinanceHistory(f) PROVE Labels'
  BY <1>2
  DEF ShowFinanceHistory, Click, Enter, UpdateList, lists, statistics, dates
<1>3. ASSUME NEW t \in AllTypes, PickType(t) PROVE Labels'
  BY <1>3 DEF PickType, Click, UpdateList, lists, statistics, dates
<1>4. ASSUME NEW f \in AllFinances, PickFinance(f) PROVE Labels'
  BY <1>4 DEF PickFinance, Click, UpdateList, lists, statistics, dates
<1>5. ASSUME NEW a \in Ages, PickDate(month - a) PROVE Labels'
  BY <1>5 DEF PickDate, Click, UpdateList, lists, statistics, dates
<1>6. CASE OpenIncome
  BY <1>6 DEF OpenIncome, Click, lists, statistics, dates
<1>7. CASE BackFromIncome
  BY <1>7 DEF BackFromIncome, Click, UpdateList, lists, statistics, dates
<1>8. CASE OpenCategories
  BY <1>8 DEF OpenCategories, Click, lists, statistics, dates
<1>9. ASSUME NEW f \in Finances, AddSpending(f) PROVE Labels'
  BY <1>9 DEF AddSpending, Click, lists, statistics, dates
<1>10. CASE OpenStatistics
  <2>1. currLastSixMonths' = currLastSixMonths \o LastSixMonths(month)
        /\ opened' = IF currLastSixMonths = <<>> THEN month ELSE opened
    BY <1>10 DEF OpenStatistics, InitStatistics
  <2>2. /\ currLastSixMonths' \in Seq(1..12)
        /\ Len(currLastSixMonths') = Len(currLastSixMonths) + 6
        /\ \A k \in 1..Len(currLastSixMonths) :
             currLastSixMonths'[k] = currLastSixMonths[k]
        /\ currLastSixMonths = <<>> =>
             \A k \in 1..6 : currLastSixMonths'[k] = Calendar(month - 6 + k)
    BY <2>1, Appended
  <2>3. Len(currLastSixMonths) \in Nat
    OBVIOUS
  <2>4. ASSUME NEW k \in 1..6
        PROVE  currLastSixMonths'[k] = Calendar(opened' - 6 + k)
    <3>1. CASE currLastSixMonths = <<>>
      BY <2>1, <2>2, <3>1
    <3>2. CASE currLastSixMonths # <<>>
      <4>1. k \in 1..Len(currLastSixMonths)
        BY <2>3, <3>2
      <4>2. QED BY <2>1, <2>2, <3>2, <4>1
    <3>3. QED BY <3>1, <3>2
  <2>5. QED BY <2>2, <2>3, <2>4
<1>11. ASSUME NEW k \in 1..6, Hover(k) PROVE Labels'
  BY <1>11 DEF Hover, Click, lists, statistics, dates
<1>12. CASE Home
  BY <1>12 DEF Home, lists, statistics, dates
<1>13. CASE MonthPasses
  BY <1>13 DEF MonthPasses, lists, statistics, dates
<1>14. CASE UNCHANGED vars
  BY <1>14 DEF vars, lists, statistics, dates
<1>15. QED
  BY <1>1, <1>2, <1>3, <1>4, <1>5, <1>6, <1>7, <1>8, <1>9, <1>10, <1>11,
     <1>12, <1>13, <1>14
  DEF Next

\* A page of transactions is entered, and left, with one set of filters.
LEMMA ListsStep == IInv /\ [Next]_vars => Lists'
<1> SUFFICES ASSUME IInv, [Next]_vars PROVE Lists'
  OBVIOUS
<1>0. month \in Int
  BY DEF IInv, Times
<1> USE DEF IInv, Lists, Promised, Filter, AllFinances, AllTypes
<1>1. CASE OpenTranzactions
  <2>1. shown' = [finance |-> "All Finances", type |-> "All Tranzactions", date |-> month]
        /\ filter' = shown' /\ list' = Filtered(history, shown') /\ ~fromIncome'
        /\ history' = history
    BY <1>1 DEF OpenTranzactions, Enter, UpdateList
  <2>2. shown' \in Filter
    BY <1>0, <2>1, Filters
  <2>3. QED BY <2>1, <2>2
<1>2. ASSUME NEW f \in Finances, ShowFinanceHistory(f) PROVE Lists'
  <2>1. shown' = [finance |-> f, type |-> "All Tranzactions", date |-> month]
        /\ filter' = shown' /\ list' = Filtered(history, shown') /\ ~fromIncome'
        /\ history' = history
    BY <1>2 DEF ShowFinanceHistory, Enter, UpdateList
  <2>2. shown' \in Filter
    BY <1>0, <2>1, Filters
  <2>3. QED BY <2>1, <2>2
<1>3. ASSUME NEW t \in AllTypes, PickType(t) PROVE Lists'
  BY <1>3 DEF PickType, Click, UpdateList, lists, statistics, dates
<1>4. ASSUME NEW f \in AllFinances, PickFinance(f) PROVE Lists'
  BY <1>4 DEF PickFinance, Click, UpdateList, lists, statistics, dates
<1>5. ASSUME NEW a \in Ages, PickDate(month - a) PROVE Lists'
  <2>1. shown' = [shown EXCEPT !.date = month - a]
        /\ filter' = [filter EXCEPT !.date = month - a]
        /\ list' = Filtered(history, filter') /\ history' = history
        /\ page = "tranzactions" /\ ~fromIncome'
    BY <1>5 DEF PickDate, Click, UpdateList
  <2>2. shown' \in Filter /\ filter' \in Filter
    <3>1. month - a \in Int
      BY <1>0, DatesBefore
    <3>2. QED BY <2>1, <3>1, FilterDate
  <2>3. QED BY <2>1, <2>2
<1>6. CASE OpenIncome
  BY <1>6 DEF OpenIncome, Click, lists, statistics, dates
<1>7. CASE BackFromIncome
  <2>1. shown' = [finance |-> "All Finances", type |-> "All Tranzactions",
                  date |-> month]
        /\ filter' = [finance |-> "All Finances", type |-> "All Tranzactions",
                       date |-> filter.date]
        /\ list' = Filtered(history, filter') /\ history' = history
        /\ fromIncome'
    BY <1>7 DEF BackFromIncome, Click, UpdateList
  <2>2. shown' \in Filter /\ filter' \in Filter
    <3>1. filter.date \in Int
      BY DEF Filter
    <3>2. QED BY <1>0, <2>1, <3>1, Filters DEF AllFinances, AllTypes
  <2>3. QED BY <2>1, <2>2
<1>8. CASE OpenCategories
  BY <1>8 DEF OpenCategories, Click, lists, statistics, dates
<1>9. ASSUME NEW f \in Finances, AddSpending(f) PROVE Lists'
  BY <1>9 DEF AddSpending, Click, lists, statistics, dates
<1>10. CASE OpenStatistics
  BY <1>10 DEF OpenStatistics, Click, InitStatistics, lists, statistics, dates
<1>11. ASSUME NEW k \in 1..6, Hover(k) PROVE Lists'
  BY <1>11 DEF Hover, Click, lists, statistics, dates
<1>12. CASE Home
  BY <1>12 DEF Home, lists, statistics, dates
<1>13. CASE MonthPasses
  BY <1>13 DEF MonthPasses, lists, statistics, dates
<1>14. CASE UNCHANGED vars
  BY <1>14 DEF vars, lists, statistics, dates
<1>15. QED
  BY <1>1, <1>2, <1>3, <1>4, <1>5, <1>6, <1>7, <1>8, <1>9, <1>10, <1>11,
     <1>12, <1>13, <1>14
  DEF Next

\* What a page shows is of the history it was opened with.
LEMMA ChartsStep == IInv /\ [Next]_vars => Charts'
<1> SUFFICES ASSUME IInv, [Next]_vars PROVE Charts'
  OBVIOUS
<1> USE DEF IInv, Times, Labels, Charts
<1>1. CASE OpenTranzactions
  BY <1>1
  DEF OpenTranzactions, Click, Enter, UpdateList, lists, statistics, dates
<1>2. ASSUME NEW f \in Finances, ShowFinanceHistory(f) PROVE Charts'
  BY <1>2
  DEF ShowFinanceHistory, Click, Enter, UpdateList, lists, statistics, dates
<1>3. ASSUME NEW t \in AllTypes, PickType(t) PROVE Charts'
  BY <1>3 DEF PickType, Click, UpdateList, lists, statistics, dates
<1>4. ASSUME NEW f \in AllFinances, PickFinance(f) PROVE Charts'
  BY <1>4 DEF PickFinance, Click, UpdateList, lists, statistics, dates
<1>5. ASSUME NEW a \in Ages, PickDate(month - a) PROVE Charts'
  BY <1>5 DEF PickDate, Click, UpdateList, lists, statistics, dates
<1>6. CASE OpenIncome
  BY <1>6 DEF OpenIncome, Click, lists, statistics, dates
<1>7. CASE BackFromIncome
  BY <1>7 DEF BackFromIncome, Click, UpdateList, lists, statistics, dates
<1>8. CASE OpenCategories
  BY <1>8 DEF OpenCategories, Click, lists, statistics, dates
<1>9. ASSUME NEW f \in Finances, AddSpending(f) PROVE Charts'
  BY <1>9 DEF AddSpending, Click, lists, statistics, dates
<1>10. CASE OpenStatistics
  <2>1. /\ page' = "statistics" /\ history' = history /\ asOf' = month
        /\ bars' = Bars /\ line' = Line /\ hovered' = <<>>
        /\ currLastSixMonths' = currLastSixMonths \o LastSixMonths(month)
    BY <1>10 DEF OpenStatistics, InitStatistics
  <2>2. \A k \in 1..6 : LastSixMonths(month)[k] = Calendar(month - 6 + k)
    BY SixMonthsBack
  <2>3. currLastSixMonths' # <<>>
    BY <2>1, Appended
  <2>4. QED BY <2>1, <2>2, <2>3 DEF Bars, Line
<1>11. ASSUME NEW k \in 1..6, Hover(k) PROVE Charts'
  BY <1>11 DEF Hover, Click, lists, statistics, dates
<1>12. CASE Home
  BY <1>12 DEF Home, lists, statistics, dates
<1>13. CASE MonthPasses
  BY <1>13 DEF MonthPasses, lists, statistics, dates
<1>14. CASE UNCHANGED vars
  BY <1>14 DEF vars, lists, statistics, dates
<1>15. QED
  BY <1>1, <1>2, <1>3, <1>4, <1>5, <1>6, <1>7, <1>8, <1>9, <1>10, <1>11,
     <1>12, <1>13, <1>14
  DEF Next

-----------------------------------------------------------------------------
\* The inductive invariant is one.
THEOREM Invariance == Spec => []IInv
<1>1. IInv /\ [Next]_vars => IInv'
  BY TimesStep, LabelsStep, ListsStep, ChartsStep DEF IInv
<1>2. QED BY InitIInv, <1>1, PTL DEF Spec

\* Whatever the user does, the list is what the pickers and the date above it
\* promise (dashboard.cpp:933-1001); the date, unless he comes from the incomes.
THEOREM ListsAreFiltered == Spec => []ListIsFiltered
<1>1. IInv => ListIsFiltered
  BY DEF IInv, Lists, Promised, ListIsFiltered
<1>2. QED BY Invariance, <1>1, PTL

\* Within a year a month's two digits say which month it was.
LEMMA NoOther ==
  ASSUME NEW now \in Nat, NEW m \in now - 5..now,
         NEW at \in Int, at <= now, now - at < 12
  PROVE  Calendar(at) = Calendar(m) <=> at = m
<1>1. m \in Int /\ now - 5 <= m /\ m <= now
  OBVIOUS
<1>2. QED BY <1>1 DEF Calendar

\* So the transactions of a month's name are those of the month.
LEMMA NoOthers ==
  ASSUME Times, NoNamesake, NEW m \in asOf - 5..asOf,
         \A k \in 1..Len(history) : history[k].at <= asOf
  PROVE  InMonth(history, Calendar(m)) = Happened(m)
<1>1. ASSUME NEW k \in 1..Len(history)
      PROVE  Calendar(history[k].at) = Calendar(m) <=> history[k].at = m
  <2>1. history[k] \in Tranzaction /\ asOf \in Nat
    BY DEF Times
  <2>2. history[k].at \in Int /\ history[k].at <= asOf /\ asOf - history[k].at < 12
    BY <2>1 DEF NoNamesake, Tranzaction
  <2>3. QED BY <2>1, <2>2, NoOther
<1>2. QED BY <1>1 DEF InMonth, Happened

\* Charts, their labels and the totals are those of the months they name, in any
\* month of any year (dashboard.cpp:545-600, 2148-2261, 2398-2490).
THEOREM ChartsAreRight == Spec => []StatisticsAreRight
<1>1. ASSUME IInv, page = "statistics", NoNamesake
      PROVE  BarsAreRight
  <2> SUFFICES ASSUME NEW k \in 1..6
               PROVE  bars[k] = <<IncomeFor(history, Calendar(asOf - 6 + k)),
                                  OutcomeFor(history, Calendar(asOf - 6 + k))>>
                      /\ InMonth(history, Calendar(asOf - 6 + k))
                           = Happened(asOf - 6 + k)
    BY DEF BarsAreRight, IncomeFor, OutcomeFor
  <2>1. asOf - 6 + k \in asOf - 5..asOf
    BY <1>1 DEF IInv, Times
  <2>2. \A t \in 1..Len(history) : history[t].at <= asOf
    BY <1>1 DEF IInv, Times
  <2>3. QED BY <1>1, <2>1, <2>2, NoOthers DEF IInv, Charts
<1>2. ASSUME IInv, page = "statistics"
      PROVE  LabelsAreRight
  <2> SUFFICES ASSUME hovered # <<>>, opened = asOf
               PROVE  /\ hovered[2] = Calendar(asOf - 6 + hovered[1])
                      /\ hovered[3] = line[hovered[1]]
    BY DEF LabelsAreRight
  <2>1. QED BY <1>2 DEF IInv, Charts, Labels
<1>3. ASSUME IInv, page = "categories", NoNamesake
      PROVE  TotalsAreRight
  <2>1. asOf \in asOf - 5..asOf /\ \A t \in 1..Len(history) : history[t].at <= asOf
    BY <1>3 DEF IInv, Times
  <2>2. InMonth(history, Calendar(asOf)) = Happened(asOf)
    BY <1>3, <2>1, NoOthers DEF IInv
  <2>3. QED BY <1>3, <2>2 DEF IInv, Charts, TotalsAreRight, SpendingsTotal
<1>4. IInv => StatisticsAreRight
  BY <1>1, <1>2, <1>3 DEF StatisticsAreRight
<1>5. QED BY Invariance, <1>4, PTL

-----------------------------------------------------------------------------
(***************************************************************************)
(* The loop that fills the list is a recursive function; each fact about   *)
(* it is proved by the smallest number of turns for which it fails.        *)
(***************************************************************************)
\* A set of numbers has a smallest one.
LEMMA Least ==
  ASSUME NEW B \in SUBSET Nat, B # {}
  PROVE  \E n \in B : \A k \in B : n <= k
<1>1. PICK n \in B : \A k \in B : ~(<<k, n>> \in OpToRel(<, Nat))
  BY NatLessThanWellFounded, WFMin
<1>2. \A k \in B : ~(k < n)
  BY <1>1 DEF OpToRel
<1>3. QED BY <1>2

\* What the loop has listed after n transactions.
Listing(g, h, f, n) ==
  IF n = 0 THEN <<>>
  ELSE IF Passes(h[n], f) THEN Append(g[n - 1], h[n]) ELSE g[n - 1]

\* The table of what the loop lists.
IsTable(g, h, f, N) == g = [n \in 0..N |-> Listing(g, h, f, n)]

\* The loop ends: there is such a table.
LEMMA ListingExists ==
  ASSUME NEW h, NEW N \in Nat, NEW f
  PROVE  \E g : IsTable(g, h, f, N)
<1> DEFINE Filled(g, m) == g = [n \in 0..m |-> Listing(g, h, f, n)]
           B == {m \in Nat : ~\E g : Filled(g, m)}
<1>1. ASSUME B # {} PROVE FALSE
  <2>1. PICK m \in B : \A k \in B : m <= k
    <3> HIDE DEF B
    <3>1. B \in SUBSET Nat
      BY DEF B
    <3>2. QED BY <1>1, <3>1, Least
  <2>2. m \in Nat /\ \A g : ~Filled(g, m)
    OBVIOUS
  <2>3. CASE m = 0
    <3>1. Filled([n \in 0..0 |-> <<>>], 0)
      BY DEF Listing
    <3>2. QED BY <2>2, <2>3, <3>1
  <2>4. CASE m # 0
    <3>1. m - 1 \in Nat /\ m - 1 \notin B
      BY <2>1, <2>2, <2>4
    <3>2. PICK g : Filled(g, m - 1)
      BY <3>1
    <3> DEFINE e == [n \in 0..m |-> IF n = m THEN Listing(g, h, f, m) ELSE g[n]]
    <3>3. ASSUME NEW n \in 0..m PROVE e[n] = Listing(e, h, f, n)
      <4>1. n # 0 => n - 1 \in 0..m /\ n - 1 # m /\ e[n - 1] = g[n - 1]
        BY <2>2
      <4>2. Listing(e, h, f, n) = Listing(g, h, f, n)
        BY <4>1 DEF Listing
      <4>3. n # m => n \in 0..(m - 1) /\ g[n] = Listing(g, h, f, n)
        BY <2>2, <3>2
      <4>4. QED BY <4>2, <4>3
    <3>4. e = [n \in 0..m |-> Listing(e, h, f, n)]
      <4>1. e = [n \in 0..m |-> e[n]]
        OBVIOUS
      <4> HIDE DEF e
      <4>2. QED BY <3>3, <4>1
    <3>5. QED BY <2>2, <3>4
  <2>5. QED BY <2>3, <2>4
<1>2. QED BY <1>1 DEF IsTable

\* Filtered is an entry of that table.
LEMMA FilteredIsListed ==
  ASSUME NEW h, Len(h) \in Nat, NEW f
  PROVE  \E g : /\ \A n \in 0..Len(h) : g[n] = Listing(g, h, f, n)
                /\ Filtered(h, f) = g[Len(h)]
<1> DEFINE g == CHOOSE g : IsTable(g, h, f, Len(h))
<1>1. IsTable(g, h, f, Len(h))
  BY ListingExists
<1>2. Filtered(h, f) = g[Len(h)]
  BY DEF Filtered, Listing, IsTable
<1>3. \A n \in 0..Len(h) : g[n] = Listing(g, h, f, n)
  <2> HIDE DEF g
  <2>1. QED BY <1>1 DEF IsTable
<1>4. QED BY <1>2, <1>3

\* The list k shows, in their order, those of the first n that pass.
ShowsPassing(k, h, f, n) ==
  \E at \in [1..Len(k) -> 1..n] :
    /\ \A i, j \in 1..Len(k) : i < j => at[i] < at[j]
    /\ \A p \in 1..n : Passes(h[p], f) <=> \E i \in 1..Len(k) : at[i] = p
    /\ \A i \in 1..Len(k) : k[i] = h[at[i]]

\* One more transaction keeps it so.
LEMMA OneMore ==
  ASSUME NEW T, NEW h \in Seq(T), NEW f, NEW n \in 1..Len(h),
         NEW k \in Seq(T), ShowsPassing(k, h, f, n - 1)
  PROVE  IF Passes(h[n], f)
           THEN Append(k, h[n]) \in Seq(T) /\ ShowsPassing(Append(k, h[n]), h, f, n)
           ELSE ShowsPassing(k, h, f, n)
<1>1. PICK at \in [1..Len(k) -> 1..(n - 1)] :
        /\ \A i, j \in 1..Len(k) : i < j => at[i] < at[j]
        /\ \A p \in 1..(n - 1) : Passes(h[p], f) <=> \E i \in 1..Len(k) : at[i] = p
        /\ \A i \in 1..Len(k) : k[i] = h[at[i]]
  BY DEF ShowsPassing
<1>2. n \in Nat /\ n >= 1 /\ h[n] \in T /\ Len(k) \in Nat
  BY ElementOfSeq
<1>3. CASE ~Passes(h[n], f)
  <2>1. at \in [1..Len(k) -> 1..n]
    BY <1>1, <1>2
  <2>2. ASSUME NEW p \in 1..n
        PROVE  Passes(h[p], f) <=> \E i \in 1..Len(k) : at[i] = p
    <3>1. CASE p = n
      <4>1. \A i \in 1..Len(k) : at[i] # n
        BY <1>1, <1>2
      <4>2. QED BY <1>3, <3>1, <4>1
    <3>2. CASE p # n
      <4>1. p \in 1..(n - 1)
        BY <1>2, <3>2
      <4>2. QED BY <1>1, <4>1
    <3>3. QED BY <3>1, <3>2
  <2>3. QED BY <1>1, <1>3, <2>1, <2>2 DEF ShowsPassing
<1>4. CASE Passes(h[n], f)
  <2> DEFINE new == Append(k, h[n])
             now == [i \in 1..(Len(k) + 1) |-> IF i = Len(k) + 1 THEN n ELSE at[i]]
  <2>1. new \in Seq(T) /\ Len(new) = Len(k) + 1 /\ new[Len(k) + 1] = h[n]
        /\ \A i \in 1..Len(k) : new[i] = k[i]
    BY <1>2, AppendProperties
  <2>2. /\ \A i \in 1..Len(k) : now[i] = at[i] /\ at[i] \in 1..(n - 1)
        /\ now[Len(k) + 1] = n
    BY <1>1, <1>2
  <2>3. \A i \in 1..(Len(k) + 1) : i \in 1..Len(k) \/ i = Len(k) + 1
    <3>1. PICK l : l = Len(k)
      OBVIOUS
    <3>2. l \in Nat
      BY <1>2, <3>1
    <3>3. \A i \in 1..(l + 1) : i \in 1..l \/ i = l + 1
      BY <3>2
    <3>4. QED BY <3>1, <3>3
  <2>4. now \in [1..Len(new) -> 1..n]
    <3>1. \A i \in 1..(Len(k) + 1) : now[i] \in 1..n
      BY <1>2, <2>2, <2>3
    <3>2. QED BY <2>1, <3>1
  <2> HIDE DEF new, now
  <2>5. ASSUME NEW i \in 1..Len(new), NEW j \in 1..Len(new), i < j
        PROVE  now[i] < now[j]
    <3>1. i \in 1..Len(k) /\ (j \in 1..Len(k) \/ j = Len(k) + 1)
      BY <1>2, <2>1, <2>3, <2>5
    <3>2. CASE j \in 1..Len(k)
      BY <1>1, <2>2, <2>5, <3>1, <3>2
    <3>3. CASE j = Len(k) + 1
      BY <1>2, <2>2, <3>1, <3>3
    <3>4. QED BY <3>1, <3>2, <3>3
  <2>6. ASSUME NEW p \in 1..n
        PROVE  Passes(h[p], f) <=> \E i \in 1..Len(new) : now[i] = p
    <3>1. CASE p = n
      <4>1. Len(k) + 1 \in 1..Len(new)
        BY <1>2, <2>1
      <4>2. QED BY <1>4, <2>2, <3>1, <4>1
    <3>2. CASE p # n
      <4>1. p \in 1..(n - 1)
        BY <1>2, <3>2
      <4>2. \A i \in 1..Len(k) : i \in 1..Len(new)
        BY <1>2, <2>1
      <4>3. (\E i \in 1..Len(new) : now[i] = p) <=> \E i \in 1..Len(k) : at[i] = p
        BY <2>1, <2>2, <2>3, <3>2, <4>2
      <4>4. QED BY <1>1, <4>1, <4>3
    <3>3. QED BY <3>1, <3>2
  <2>7. ASSUME NEW i \in 1..Len(new) PROVE new[i] = h[now[i]]
    <3>1. i \in 1..Len(k) \/ i = Len(k) + 1
      BY <2>1, <2>3
    <3>2. QED BY <1>1, <2>1, <2>2, <3>1
  <2>8. ShowsPassing(new, h, f, n)
    BY <2>4, <2>5, <2>6, <2>7 DEF ShowsPassing
  <2>9. QED BY <1>4, <2>1, <2>8 DEF new
<1>5. QED BY <1>3, <1>4

\* The loop of updateTranzactionsByFilters lists the transactions that pass the
\* three filters, each once, no other, and in the order of the history, for any
\* history and filters (dashboard.cpp:766-788).
THEOREM ListsWhatPasses ==
  ASSUME NEW T, NEW h \in Seq(T), NEW f
  PROVE  Filtered(h, f) \in Seq(T) /\ ShowsPassing(Filtered(h, f), h, f, Len(h))
<1>1. Len(h) \in Nat
  OBVIOUS
<1>2. PICK g : /\ \A n \in 0..Len(h) : g[n] = Listing(g, h, f, n)
               /\ Filtered(h, f) = g[Len(h)]
  BY <1>1, FilteredIsListed
<1> DEFINE Right(n) == g[n] \in Seq(T) /\ ShowsPassing(g[n], h, f, n)
           B == {n \in 0..Len(h) : ~Right(n)}
<1>3. ASSUME B # {} PROVE FALSE
  <2>1. PICK n \in B : \A k \in B : n <= k
    <3>1. B \in SUBSET Nat
      BY <1>1
    <3> HIDE DEF B
    <3>2. QED BY <1>3, <3>1, Least
  <2>2. n \in 0..Len(h) /\ ~Right(n) /\ g[n] = Listing(g, h, f, n)
    BY <1>2
  <2>3. CASE n = 0
    <3>1. g[n] = <<>>
      BY <2>2, <2>3 DEF Listing
    <3>2. ShowsPassing(<<>>, h, f, 0)
      <4> DEFINE none == [i \in 1..0 |-> i]
      <4>1. Len(<<>>) = 0 /\ 1..0 = {} /\ none \in [1..0 -> 1..0]
        OBVIOUS
      <4> HIDE DEF none
      <4>2. none \in [1..Len(<<>>) -> 1..0] /\ 1..Len(<<>>) = {}
        BY <4>1
      <4>3. QED BY <4>1, <4>2 DEF ShowsPassing
    <3>3. ShowsPassing(g[n], h, f, n)
      BY <2>3, <3>1, <3>2
    <3>4. g[n] \in Seq(T)
      BY <3>1
    <3>5. QED BY <2>2, <3>3, <3>4
  <2>4. CASE n # 0
    <3>1. n \in 1..Len(h) /\ n - 1 \in 0..Len(h) /\ n - 1 \notin B
      BY <1>1, <2>1, <2>2, <2>4
    <3>2. Right(n - 1)
      BY <3>1
    <3>3. g[n] = IF Passes(h[n], f) THEN Append(g[n - 1], h[n]) ELSE g[n - 1]
      BY <2>2, <2>4 DEF Listing
    <3>4. IF Passes(h[n], f)
            THEN Append(g[n - 1], h[n]) \in Seq(T)
                 /\ ShowsPassing(Append(g[n - 1], h[n]), h, f, n)
            ELSE ShowsPassing(g[n - 1], h, f, n)
      BY <3>1, <3>2, OneMore
    <3>5. QED BY <2>2, <3>2, <3>3, <3>4
  <2>5. QED BY <2>3, <2>4
<1>4. Right(Len(h))
  BY <1>1, <1>3
<1>5. QED BY <1>2, <1>4

-----------------------------------------------------------------------------
\* Counts are natural numbers, whatever is counted.
LEMMA Counts ==
  ASSUME NEW h \in Seq(Tranzaction), NEW code
  PROVE  /\ IncomeFor(h, code) \in Nat /\ OutcomeFor(h, code) \in Nat
         /\ CapitalFor(h, code) \in Int /\ SpendingsTotal(h, code) \in Nat
<1>1. ASSUME NEW S \in SUBSET (1..Len(h)) PROVE Cardinality(S) \in Nat
  <2>1. IsFiniteSet(1..Len(h))
    BY FS_Interval
  <2>2. QED BY <2>1, FS_Subset, FS_CardinalityType
<1>2. InMonth(h, code) \in SUBSET (1..Len(h))
  BY DEF InMonth
<1>3. /\ Cardinality({k \in InMonth(h, code) : h[k].type = "Income"}) \in Nat
      /\ Cardinality({k \in InMonth(h, code) : h[k].type = "Spendings"}) \in Nat
      /\ Cardinality({k \in InMonth(h, code) :
                        h[k].type = "Spendings" /\ h[k].recurring}) \in Nat
      /\ Cardinality({k \in InMonth(h, code) :
                        h[k].type = "Spendings" /\ ~h[k].recurring}) \in Nat
  <2>1. /\ {k \in InMonth(h, code) : h[k].type = "Income"} \in SUBSET (1..Len(h))
        /\ {k \in InMonth(h, code) : h[k].type = "Spendings"} \in SUBSET (1..Len(h))
        /\ {k \in InMonth(h, code) : h[k].type = "Spendings" /\ h[k].recurring}
             \in SUBSET (1..Len(h))
        /\ {k \in InMonth(h, code) : h[k].type = "Spendings" /\ ~h[k].recurring}
             \in SUBSET (1..Len(h))
    BY <1>2
  <2>2. QED BY <1>1, <2>1
<1>4. QED BY <1>3 DEF IncomeFor, OutcomeFor, CapitalFor, SpendingsTotal

\* The charts of a history.
LEMMA ChartsOf ==
  ASSUME history \in Seq(Tranzaction), month \in Nat
  PROVE  /\ Bars \in Seq(Nat \X Nat) /\ Line \in Seq(Int)
         /\ LastSixMonths(month) \in Seq(1..12) /\ Len(LastSixMonths(month)) = 6
<1>1. \A k \in 1..6 : /\ <<IncomeFor(history, LastSixMonths(month)[k]),
                           OutcomeFor(history, LastSixMonths(month)[k])>> \in Nat \X Nat
                      /\ CapitalFor(history, LastSixMonths(month)[k]) \in Int
  BY Counts
<1>2. Bars \in [1..6 -> Nat \X Nat] /\ Line \in [1..6 -> Int]
  BY <1>1 DEF Bars, Line
<1>3. LastSixMonths(month) \in [1..6 -> 1..12]
  <2>1. LastSixMonths(month) = [k \in 1..6 |-> Calendar(month - 6 + k)]
    BY SixMonthsBack
  <2>2. \A k \in 1..6 : Calendar(month - 6 + k) \in 1..12
    BY DEF Calendar
  <2>3. QED BY <2>1, <2>2
<1>4. ASSUME NEW T, NEW s \in [1..6 -> T] PROVE s \in Seq(T) /\ Len(s) = 6
  <2>1. s = [k \in 1..6 |-> s[k]] /\ \A k \in 1..6 : s[k] \in T
    OBVIOUS
  <2>2. [k \in 1..6 |-> s[k]] \in Seq(T)
    BY <2>1
  <2>3. Len([k \in 1..6 |-> s[k]]) = 6
    OBVIOUS
  <2>4. QED BY <2>1, <2>2, <2>3
<1>5. QED BY <1>2, <1>3, <1>4

\* The types of what the lists and the charts do not determine.
Shape ==
  /\ list \in Seq(Tranzaction) /\ totals \in Nat
  /\ Len(currLastSixMonths) % 6 = 0
  /\ bars \in Seq(Nat \X Nat) /\ line \in Seq(Int)
  /\ hovered = <<>> \/ hovered \in (1..6) \X (1..12) \X Int
  /\ page \in {"dashboard", "tranzactions", "income", "categories", "statistics"}
  /\ passed \in 0..MaxPassed /\ clicks \in 0..MaxClicks
  /\ fromIncome \in BOOLEAN

LEMMA InitShape == Init => Shape
<1> SUFFICES ASSUME Init PROVE Shape
  OBVIOUS
<1>1. history \in Seq(Tranzaction) /\ month \in Nat
  BY InitIInv DEF IInv, Times
<1>2. LastSixMonths(month) \in Seq(1..12) /\ Len(LastSixMonths(month)) = 6
      /\ Bars \in Seq(Nat \X Nat) /\ Line \in Seq(Int)
  BY <1>1, ChartsOf
<1>3. /\ list = history /\ totals = 0 /\ hovered = <<>> /\ page = "dashboard"
      /\ passed = 0 /\ clicks = 0 /\ fromIncome = FALSE
      /\ \/ currLastSixMonths = <<>> /\ bars = <<>> /\ line = <<>>
         \/ currLastSixMonths = LastSixMonths(month) /\ bars = Bars /\ line = Line
  BY Zenon DEF Init
<1>4. /\ Len(currLastSixMonths) = 0 \/ Len(currLastSixMonths) = 6
      /\ bars \in Seq(Nat \X Nat) /\ line \in Seq(Int)
  <2>1. Len(<<>>) = 0 /\ <<>> \in Seq(Nat \X Nat) /\ <<>> \in Seq(Int)
    OBVIOUS
  <2>2. QED BY <1>2, <1>3, <2>1
<1>5. passed \in 0..MaxPassed /\ clicks \in 0..MaxClicks
  <2>1. MaxPassed \in Nat /\ MaxClicks \in Nat
    BY BoundsAssumption
  <2>2. QED BY <1>3, <2>1
<1>6. Len(currLastSixMonths) % 6 = 0
  <2>1. 0 % 6 = 0 /\ 6 % 6 = 0
    OBVIOUS
  <2>2. QED BY <1>4, <2>1
<1>7. QED BY <1>1, <1>3, <1>4, <1>5, <1>6 DEF Shape

\* What the user may have clicked.
LEMMA Clicks ==
  ASSUME Shape, NEW p, Click(p)
  PROVE  clicks' \in 0..MaxClicks /\ page = p
<1>1. MaxClicks \in Nat
  BY BoundsAssumption
<1>2. QED BY <1>1 DEF Shape, Click

LEMMA ShapeStep == IInv /\ Shape /\ [Next]_vars => Shape'
<1> SUFFICES ASSUME IInv, Shape, [Next]_vars PROVE Shape'
  OBVIOUS
<1>h. history \in Seq(Tranzaction) /\ month \in Nat
  BY DEF IInv, Times
<1>l. \A f : Filtered(history, f) \in Seq(Tranzaction)
  BY <1>h, ListsWhatPasses
<1> USE DEF lists, statistics, dates
<1>1. CASE OpenTranzactions
  BY <1>1, <1>l, Clicks DEF OpenTranzactions, Enter, UpdateList, Shape
<1>2. ASSUME NEW f \in Finances, ShowFinanceHistory(f) PROVE Shape'
  BY <1>2, <1>l, Clicks DEF ShowFinanceHistory, Enter, UpdateList, Shape
<1>3. ASSUME NEW t \in AllTypes, PickType(t) PROVE Shape'
  BY <1>3, <1>l, Clicks DEF PickType, UpdateList, Shape
<1>4. ASSUME NEW f \in AllFinances, PickFinance(f) PROVE Shape'
  BY <1>4, <1>l, Clicks DEF PickFinance, UpdateList, Shape
<1>5. ASSUME NEW a \in Ages, PickDate(month - a) PROVE Shape'
  BY <1>5, <1>l, Clicks DEF PickDate, UpdateList, Shape
<1>6. CASE OpenIncome
  BY <1>6, Clicks DEF OpenIncome, Shape
<1>7. CASE BackFromIncome
  BY <1>7, <1>l, Clicks DEF BackFromIncome, UpdateList, Shape
<1>8. CASE OpenCategories
  BY <1>8, <1>h, Clicks, Counts DEF OpenCategories, Shape
<1>9. ASSUME NEW f \in Finances, AddSpending(f) PROVE Shape'
  <2>1. history' \in Seq(Tranzaction)
    BY TimesStep DEF Times
  <2>2. totals' \in Nat
    BY <1>9, <2>1, Counts DEF AddSpending
  <2>3. QED BY <1>9, <2>2, Clicks DEF AddSpending, Shape
<1>10. CASE OpenStatistics
  <2>1. currLastSixMonths \in Seq(1..12)
    BY DEF IInv, Labels
  <2>2. Len(currLastSixMonths') = Len(currLastSixMonths) + 6
    BY <1>10, <1>h, <2>1, Appended DEF OpenStatistics, InitStatistics
  <2>3. Len(currLastSixMonths') % 6 = 0
    BY <2>1, <2>2 DEF Shape
  <2>4. bars' \in Seq(Nat \X Nat) /\ line' \in Seq(Int) /\ hovered' = <<>>
    BY <1>10, <1>h, ChartsOf DEF OpenStatistics, InitStatistics
  <2>5. QED BY <1>10, <2>3, <2>4, Clicks DEF OpenStatistics, Shape
<1>11. ASSUME NEW k \in 1..6, Hover(k) PROVE Shape'
  <2>1. page = "statistics" /\ clicks' \in 0..MaxClicks
    BY <1>11, Clicks DEF Hover
  <2>2. currLastSixMonths[k] \in 1..12
    <3>1. /\ currLastSixMonths # <<>> /\ opened \in Nat
          /\ currLastSixMonths[k] = Calendar(opened - 6 + k)
      BY <2>1 DEF IInv, Charts, Labels, Times
    <3>2. opened - 6 + k \in Int
      BY <3>1
    <3>3. QED BY <3>1, <3>2 DEF Calendar
  <2>3. CapitalFor(history, currLastSixMonths[k]) \in Int
    BY <1>h, Counts
  <2>4. hovered' \in (1..6) \X (1..12) \X Int
    BY <1>11, <2>2, <2>3 DEF Hover
  <2>5. QED BY <1>11, <2>1, <2>4 DEF Hover, Shape
<1>12. CASE Home
  BY <1>12 DEF Home, Shape
<1>13. CASE MonthPasses
  <2>1. passed' \in 0..MaxPassed
    <3>1. MaxPassed \in Nat
      BY BoundsAssumption
    <3>2. QED BY <1>13, <3>1 DEF MonthPasses, Shape
  <2>2. QED BY <1>13, <2>1 DEF MonthPasses, Shape
<1>14. CASE UNCHANGED vars
  BY <1>14 DEF vars, Shape
<1>15. QED
  BY <1>1, <1>2, <1>3, <1>4, <1>5, <1>6, <1>7, <1>8, <1>9, <1>10, <1>11,
     <1>12, <1>13, <1>14
  DEF Next

\* Every reachable state is of the declared types.
THEOREM TypeCorrect == Spec => []TypeOK
<1>1. Init => IInv /\ Shape
  BY InitIInv, InitShape
<1>2. IInv /\ Shape /\ [Next]_vars => (IInv /\ Shape)'
  BY TimesStep, LabelsStep, ListsStep, ChartsStep, ShapeStep DEF IInv
<1>3. IInv /\ Shape => TypeOK
  BY DEF IInv, Times, Labels, Lists, Shape, TypeOK
<1>4. QED BY <1>1, <1>2, <1>3, PTL DEF Spec
=============================================================================
