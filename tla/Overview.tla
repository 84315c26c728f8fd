------------------------------ MODULE Overview ------------------------------
(***************************************************************************)
(* What the dashboard shows of all_user_tranzactions (CleverClient/        *)
(* dashboard.cpp): the list with its three filters, the totals of the      *)
(* categories and the statistics of the last six months.                   *)
(*                                                                         *)
(* Filters are kept twice, in the pickers and in currFinanceName,          *)
(* currTranzType and currTranzDate; months are kept as their names, without*)
(* a year; and the six months are computed at every opening of the page    *)
(* and appended to those of the openings before.                           *)
(*                                                                         *)
(* A month is a number here, which goes on over the years; it stands also  *)
(* for the dates in it.  Every transaction is of the amount one, of one    *)
(* currency, and a spending of one category, or recurring.                 *)
(***************************************************************************)
EXTENDS Integers, Sequences, SequencesExt, FiniteSets

CONSTANTS
  Finances,     \* the cards, and "Cash"
  Months,       \* when the dashboard may be opened
  Ages,         \* how old the transactions may be that it loads
  MaxLoaded,    \* bound: how many it loads
  MaxPassed,    \* bound: months that pass while it is open
  MaxClicks     \* bound: what the user does

ASSUME MonthsAssumption == Months \subseteq Nat /\ Ages \subseteq Nat
ASSUME BoundsAssumption == {MaxLoaded, MaxPassed, MaxClicks} \subseteq Nat

VARIABLES
  month,        \* the month it is
  history,      \* all_user_tranzactions, the newest first
  page,         \* what is shown
  filter,       \* currFinanceName, currTranzType, currTranzDate
  shown,        \* the two pickers and the date above the list
  list,         \* listWidget
  totals,       \* what was spent this month, by the labels
  currLastSixMonths,
  bars,         \* setIncome and setOutcome
  line,         \* lineSeries, without its first point (0, 0)
  hovered,      \* the labels of the capital: the segment, its month, its value
  passed, clicks, \* the bounds' counters
  \* for the properties only
  opened,       \* the month of the first statistics
  asOf,         \* the month of the last statistics or totals
  fromIncome    \* the list was returned to from the page of the incomes

dates == <<opened, asOf>>
statistics == <<currLastSixMonths, bars, line, hovered>>
lists == <<filter, shown, list, fromIncome>>
vars == <<month, history, page, lists, totals, statistics, passed, clicks, dates>>

Types == {"Income", "Spendings"}
Tranzaction == [at : Int, type : Types, recurring : BOOLEAN, finance : Finances]
AllFinances == Finances \cup {"All Finances"}
AllTypes == Types \cup {"All Tranzactions"}
Filter == [finance : AllFinances, type : AllTypes, date : Int]

\* What a month is called.
Calendar(m) == ((m - 1) % 12) + 1

TypeOK ==
  /\ month \in Nat /\ history \in Seq(Tranzaction)
  /\ page \in {"dashboard", "tranzactions", "income", "categories", "statistics"}
  /\ filter \in Filter /\ shown \in Filter
  /\ list \in Seq(Tranzaction) /\ totals \in Nat
  /\ currLastSixMonths \in Seq(1..12) /\ Len(currLastSixMonths) % 6 = 0
  /\ bars \in Seq(Nat \X Nat) /\ line \in Seq(Int)
  /\ hovered = <<>> \/ hovered \in (1..6) \X (1..12) \X Int
  /\ passed \in 0..MaxPassed /\ clicks \in 0..MaxClicks
  /\ opened \in Nat /\ asOf \in Nat /\ fromIncome \in BOOLEAN

-----------------------------------------------------------------------------
(***************************************************************************)
(* What is computed of the history.                                        *)
(***************************************************************************)
\* getTransactionsIncomeForMonthCode, getTransactionsOutcomeForMonthCode and
\* generateCapitalForMonth compare the two digits of the month only.
InMonth(h, code) == {k \in 1..Len(h) : Calendar(h[k].at) = code}
IncomeFor(h, code) == Cardinality({k \in InMonth(h, code) : h[k].type = "Income"})
OutcomeFor(h, code) == Cardinality({k \in InMonth(h, code) : h[k].type = "Spendings"})
CapitalFor(h, code) ==
  IncomeFor(h, code)
    - Cardinality({k \in InMonth(h, code) : h[k].type = "Spendings" /\ h[k].recurring})

\* load_spendingsTotals: the categories of the page, which recurring spendings
\* do not have.
SpendingsTotal(h, code) ==
  Cardinality({k \in InMonth(h, code) : h[k].type = "Spendings" /\ ~h[k].recurring})

MutantStartMonth(m) ==   \* < 0 instead of <= 0
  IF Calendar(m) - 5 < 0 THEN 12 + (Calendar(m) - 5) ELSE Calendar(m) - 5
MutantLastSixMonths(m) ==   \* forgets that twelve modulo twelve is none
  [k \in 1..6 |-> IF k = 1 THEN IF Calendar(m) > 5 THEN Calendar(m) - 5
                                                   ELSE Calendar(m) + 7
                           ELSE (Calendar(m) + 6 + k) % 12]

\* The start of init_statistics.
StartMonth(m) ==
  IF Calendar(m) - 5 <= 0 THEN 12 - (5 - Calendar(m)) ELSE Calendar(m) - 5
LastSixMonths(m) ==
  [k \in 1..6 |->
    LET next == StartMonth(m) + k - 1
    IN  IF k = 1 THEN next ELSE IF next % 12 = 0 THEN 12 ELSE next % 12]

Bars == [k \in 1..6 |-> <<IncomeFor(history, LastSixMonths(month)[k]),
                          OutcomeFor(history, LastSixMonths(month)[k])>>]
Line == [k \in 1..6 |-> CapitalFor(history, LastSixMonths(month)[k])]

\* init_statistics.
InitStatistics ==
  /\ currLastSixMonths' = currLastSixMonths \o LastSixMonths(month)
  /\ bars' = Bars /\ line' = Line
  /\ hovered' = <<>>
  /\ opened' = IF currLastSixMonths = <<>> THEN month ELSE opened
  /\ asOf' = month

\* updateTranzactionsByFilters.
Passes(t, f) ==
  /\ f.finance \in {t.finance, "All Finances"}
  /\ f.type \in {t.type, "All Tranzactions"}
  /\ t.at <= f.date
\* The loop appends an item to the empty listWidget for what passes.
Filtered(h, f) ==
  LET listed[n \in 0..Len(h)] ==
        IF n = 0 THEN <<>>
        ELSE IF Passes(h[n], f) THEN Append(listed[n - 1], h[n]) ELSE listed[n - 1]
  IN  listed[Len(h)]
UpdateList(f) == filter' = f /\ list' = Filtered(history, f)

\* What the server may send: transactions up to today, the newest first.
Loadable(m) ==
  {h \in UNION {[1..n -> {[at |-> m - a, type |-> t, recurring |-> r, finance |-> f] :
                            a \in Ages, t \in Types, r \in BOOLEAN, f \in Finances}] :
                n \in 0..MaxLoaded} :
     /\ \A k \in 1..Len(h) : h[k].type = "Income" => h[k].recurring
     /\ \A k \in 2..Len(h) : h[k].at <= h[k - 1].at}

\* The constructor of Dashboard: the list shows all, and the statistics are
\* computed if there is something to show.
Init ==
  /\ month \in Months /\ history \in Loadable(month)
  /\ page = "dashboard"
  /\ filter = [finance |-> "All Finances", type |-> "All Tranzactions", date |-> month]
  /\ shown = filter /\ list = history /\ totals = 0
  /\ IF history = <<>>
       THEN currLastSixMonths = <<>> /\ bars = <<>> /\ line = <<>>
       ELSE currLastSixMonths = LastSixMonths(month) /\ bars = Bars /\ line = Line
  /\ hovered = <<>>
  /\ passed = 0 /\ clicks = 0
  /\ opened = month /\ asOf = month /\ fromIncome = FALSE

-----------------------------------------------------------------------------
(***************************************************************************)
(* What the user does.                                                     *)
(***************************************************************************)
Click(p) == page = p /\ clicks < MaxClicks /\ clicks' = clicks + 1

MutantEnter(f) ==   \* the date is only shown
  LET all == [finance |-> f, type |-> "All Tranzactions", date |-> month]
  IN  /\ page' = "tranzactions"
      /\ shown' = all
      /\ UpdateList([all EXCEPT !.date = filter.date])
      /\ fromIncome' = FALSE

\* on_transactionsCommandLinkButton_clicked and on_showFinanceHistory_clicked:
\* the pickers are set first, whose signals update the list with old filters;
\* then the filters are read from the pickers.
Enter(f) ==
  LET all == [finance |-> f, type |-> "All Tranzactions", date |-> month]
  IN  /\ page' = "tranzactions"
      /\ shown' = all
      /\ UpdateList(all)
      /\ fromIncome' = FALSE

OpenTranzactions ==
  /\ Click("dashboard") \/ Click("categories")
  /\ Enter("All Finances")
  /\ UNCHANGED <<month, history, totals, statistics, passed, dates>>

ShowFinanceHistory(f) ==
  /\ Click("dashboard")
  /\ Enter(f)
  /\ UNCHANGED <<month, history, totals, statistics, passed, dates>>

\* on_tranzactionTypePicker_currentTextChanged.
PickType(t) ==
  /\ Click("tranzactions")
  /\ shown' = [shown EXCEPT !.type = t]
  /\ UpdateList([filter EXCEPT !.type = t])
  /\ UNCHANGED <<month, history, page, totals, statistics, passed, dates, fromIncome>>

\* on_financeTypePicker_currentTextChanged.
PickFinance(f) ==
  /\ Click("tranzactions")
  /\ shown' = [shown EXCEPT !.finance = f]
  /\ UpdateList([filter EXCEPT !.finance = f])
  /\ UNCHANGED <<month, history, page, totals, statistics, passed, dates, fromIncome>>

\* on_pickDatePushButton_clicked.
PickDate(d) ==
  /\ Click("tranzactions")
  /\ shown' = [shown EXCEPT !.date = d]
  /\ UpdateList([filter EXCEPT !.date = d])
  /\ fromIncome' = FALSE
  /\ UNCHANGED <<month, history, page, totals, statistics, passed, dates>>

\* The buttons toggleTranzactionsButtons offers.
OpenIncome ==
  /\ Click("tranzactions") /\ shown.type = "Income"
  /\ page' = "income"
  /\ UNCHANGED <<month, history, lists, totals, statistics, passed, dates>>

\* on_incomeBackToTranzactionsPushButton_clicked: the signals of the pickers
\* update filters and list; the date is set above the list only.
BackFromIncome ==
  /\ Click("income")
  /\ page' = "tranzactions"
  /\ shown' = [finance |-> "All Finances", type |-> "All Tranzactions", date |-> month]
  /\ UpdateList([finance |-> "All Finances", type |-> "All Tranzactions", date |-> filter.date])
  /\ fromIncome' = TRUE
  /\ UNCHANGED <<month, history, totals, statistics, passed, dates>>

OpenCategories ==
  /\ Click("tranzactions") /\ shown.type = "Spendings"
  /\ page' = "categories"
  /\ totals' = SpendingsTotal(history, Calendar(month)) /\ asOf' = month
  /\ UNCHANGED <<month, history, lists, statistics, passed, opened>>

\* addSpendingExec.
AddSpending(f) ==
  LET new == [at |-> month, type |-> "Spendings", recurring |-> FALSE, finance |-> f]
  IN  /\ Click("categories")
      /\ history' = <<new>> \o history
      /\ totals' = SpendingsTotal(history', Calendar(month)) /\ asOf' = month
      /\ UNCHANGED <<month, page, lists, statistics, passed, opened>>

OpenStatistics ==
  /\ Click("dashboard") /\ history # <<>>
  /\ page' = "statistics"
  /\ InitStatistics
  /\ UNCHANGED <<month, history, lists, totals, passed>>

\* on_lineSeries_hovered: the segment that ends at the k-th month.
Hover(k) ==
  /\ Click("statistics")
  /\ hovered' = <<k, currLastSixMonths[k], CapitalFor(history, currLastSixMonths[k])>>
  /\ UNCHANGED <<month, history, page, lists, totals, currLastSixMonths, bars, line,
                 passed, dates>>

\* The menu that is on all pages.
Home ==
  /\ page # "dashboard"
  /\ page' = "dashboard"
  /\ UNCHANGED <<month, history, lists, totals, statistics, passed, clicks, dates>>

MonthPasses ==
  /\ passed < MaxPassed
  /\ passed' = passed + 1 /\ month' = month + 1
  /\ UNCHANGED <<history, page, lists, totals, statistics, clicks, dates>>

Next ==
  \/ OpenTranzactions \/ OpenIncome \/ BackFromIncome \/ OpenCategories
  \/ OpenStatistics \/ Home \/ MonthPasses
  \/ \E f \in Finances : ShowFinanceHistory(f) \/ AddSpending(f)
  \/ \E t \in AllTypes : PickType(t)
  \/ \E f \in AllFinances : PickFinance(f)
  \/ \E a \in Ages : PickDate(month - a)
  \/ \E k \in 1..6 : Hover(k)

Spec == Init /\ [][Next]_vars

-----------------------------------------------------------------------------
(***************************************************************************)
(* Properties.                                                             *)
(***************************************************************************)

\* The list is what the pickers and the date above it promise, whatever page
\* the user comes from (dashboard.cpp:933-1001); but after the page of the
\* incomes the date is not the one the list was filtered by (1141).
ListIsFiltered ==
  page = "tranzactions" =>
    list = Filtered(history, IF fromIncome THEN [shown EXCEPT !.date = filter.date]
                                           ELSE shown)

\* Months have no year: a transaction of a year ago counts for this month.
NoNamesake == \A k \in 1..Len(history) : asOf - history[k].at < 12

\* What happened in a month, with its year.
Happened(m) == {t \in 1..Len(history) : history[t].at = m}

\* The k-th bars are the transactions of the month that was 6 - k months ago
\* when the page was opened, also over the end of a year (2398-2443).
BarsAreRight ==
  \A k \in 1..6 :
    bars[k] = <<Cardinality({t \in Happened(asOf - 6 + k) : history[t].type = "Income"}),
                Cardinality({t \in Happened(asOf - 6 + k) : history[t].type = "Spendings"})>>

\* The labels of a segment are the name and the value of the point it ends in
\* (2148-2261), though they come from the first opening, and the points from the
\* last: no month may have passed in between.
LabelsAreRight ==
  hovered # <<>> /\ opened = asOf =>
    /\ hovered[2] = Calendar(asOf - 6 + hovered[1])
    /\ hovered[3] = line[hovered[1]]

\* The totals of the page of categories are those of this month, a spending the
\* user has just added included (545-600).
TotalsAreRight ==
  totals = Cardinality({t \in Happened(asOf) :
                          history[t].type = "Spendings" /\ ~history[t].recurring})

\* The charts and totals show what happened in the months they name.
StatisticsAreRight ==
  /\ page = "statistics" /\ NoNamesake => BarsAreRight /\ LabelsAreRight
  /\ page = "categories" /\ NoNamesake => TotalsAreRight
=============================================================================
