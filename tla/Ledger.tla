------------------------------- MODULE Ledger -------------------------------
(***************************************************************************)
(* The money of one user: the balances in the database, which the server   *)
(* changes one SQL statement at a time and without a transaction           *)
(* (CleverCore/clever_IServer.h), and the copy of them that the dashboard  *)
(* of the client keeps, checks withdrawals against and updates by itself   *)
(* (CleverClient/dashboard.cpp and the dialogs).                           *)
(*                                                                         *)
(* One session of one user, whose cards all have the currency of his cash, *)
(* who has a saving that is not complete and edits no card.  Every request *)
(* is answered by its own answer (see ClientRequest), the dashboard loads  *)
(* without a failure, and a statement that was prepared is executed.  The  *)
(* recurring transactions, which the server books by itself when it starts *)
(* (DailyJobs says when), move the money of the same cards.                *)
(***************************************************************************)
EXTENDS Integers, Sequences, FiniteSets, FiniteSetsExt

CONSTANTS
  Cards,         \* the cards the user may ever have
  InitialCards,  \* those he has when the client starts
  Attentive,     \* he adds funds only while the wall shows the card he picked
  MaxAmount,     \* bound: the largest amount, and the first balance of a card
  MaxRequests,   \* bound: requests sent and recurring transactions booked
  MaxFaults      \* bound: statements that fail, connections lost, stops

\* Where money is: Cards.Sold, Numerar.SoldNumerar, Savings.SavingCurrentMoney,
\* the spendings and the recurring outcomes in Tranzactions; and outside, where
\* funds and incomes come from.  What is recorded as spent in cash never leaves
\* the cash (see Statements).
Holdings == Cards \cup {"cash", "saving", "spent", "recurred", "outside"}
Accounts == Holdings \cup {"spentInCash"}
Nowhere == "nowhere"

ASSUME CardsAssumption ==
  /\ IsFiniteSet(Cards) /\ InitialCards \subseteq Cards /\ InitialCards # {}
  /\ Cards \cap {"cash", "saving", "spent", "recurred", "outside",
                 "spentInCash", Nowhere} = {}
  /\ Attentive \in BOOLEAN
ASSUME LedgerBoundsAssumption ==
  MaxAmount \in Nat \ {0} /\ MaxRequests \in Nat /\ MaxFaults \in Nat

\* The dialogs refuse an empty field only: an amount may be less than nothing.
Amounts == -MaxAmount..MaxAmount

VARIABLES
  db,        \* the database: what is on every account
  owned,     \* the database: the cards the user has
  job,       \* the server: the statements still to run of what it serves or books
  began,     \* the server: a statement of that was executed
  starting,  \* the server: it was stopped and has served no client since
  answer,    \* the answer on its way to the client
  view,      \* the client: map_cards and currUserCash of the dashboard
  page,      \* the client: the tab of the finances page, or another page
  picked,    \* the client: the card cardPicker shows
  wall,      \* the client: the sum soldWallLabel shows
  shows,     \*             and what it is the sum of
  dialog,    \* the client: the dialog that is open, with its own map_cards
  pc,        \* the client: idle, in a dialog, waiting for the answer, ended
  requests,  \* how many requests were sent, and transactions booked
  faults,    \* how many faults there were
  failed,    \* a request failed since the dashboard was loaded
  cut,       \* a job of the server was cut off between its statements, ever
  inflated   \* a failure left the copies above a balance, till they are loaded

dbVars == <<db, owned>>
serverVars == <<job, began, starting>>
wallVars == <<page, picked, wall, shows>>
faultVars == <<faults, failed, cut, inflated>>
ledgerVars == <<db, owned, job, began, starting, answer, view, page, picked, wall,
                shows, dialog, pc, requests, faults, failed, cut, inflated>>

Pages == {"cards", "cash", "other"}
Kinds == {"AddCard", "AddFunds", "RechargeCash", "AddFundsToSaving", "AddSpendings"}
NoDialog == [kind |-> "none", cards |-> <<>>]
NoRequest == [kind |-> "none"]

Init ==
  /\ owned = InitialCards
  /\ \E sold \in [InitialCards -> 0..MaxAmount],
        all \in 0..MaxAmount * Cardinality(InitialCards) :
       /\ all = MapThenSumSet(LAMBDA c : sold[c], InitialCards)
       /\ db = [a \in Accounts |-> CASE a \in InitialCards -> sold[a]
                                     [] a = "outside"      -> -all
                                     [] OTHER              -> 0]
  /\ job = <<>> /\ began = FALSE /\ starting = FALSE /\ answer = "none"
  /\ view = [cards |-> [c \in owned |-> db[c]], cash |-> db["cash"]]
  /\ page = "other" /\ picked \in owned /\ wall = 0 /\ shows = "nothing"
  /\ dialog = NoDialog /\ pc = "idle"
  /\ requests = 0 /\ faults = 0
  /\ failed = FALSE /\ cut = FALSE /\ inflated = FALSE

-----------------------------------------------------------------------------
(***************************************************************************)
(* The client: the finances page, and opening and leaving dialogs.         *)
(***************************************************************************)
Idle == pc = "idle"
StaysOnPage ==
  UNCHANGED <<dbVars, serverVars, answer, view, dialog, pc, requests, faultVars>>

\* on_cardSelected: the wall shows the picked card ...
ShowCard(c) == wall' = view.cards[c] /\ shows' = c
\* ... and on the tab of the cash it shows the cash.
ShowCash(sum) == wall' = sum /\ shows' = "cash"

\* Another page; the finances page again (and at once another of its tabs,
\* maybe: then the wall is shown anew when the tab is switched).
Leave == Idle /\ page' = "other" /\ UNCHANGED <<picked, wall, shows>> /\ StaysOnPage

OpenFinances ==
  /\ Idle /\ page = "other"
  /\ page' \in {"cards", "cash"}
  /\ ShowCard(picked)
  /\ UNCHANGED picked /\ StaysOnPage

SwitchTab ==
  /\ Idle /\ page # "other"
  /\ page' = IF page = "cards" THEN "cash" ELSE "cards"
  /\ IF page' = "cash" THEN ShowCash(view.cash) ELSE ShowCard(picked)
  /\ UNCHANGED picked /\ StaysOnPage

PickCard(c) ==
  /\ Idle /\ page = "cards"
  /\ picked' = c
  /\ ShowCard(c)
  /\ UNCHANGED page /\ StaysOnPage

\* The page a dialog is opened from.
OpenedFrom(kind) ==
  CASE kind \in {"AddCard", "AddFunds"} -> "cards"
    [] kind = "RechargeCash"            -> "cash"
    [] OTHER                            -> "other"

\* A dialog gets its own copy of map_cards.
OpenDialog(kind) ==
  /\ Idle /\ page = OpenedFrom(kind)
  /\ kind = "AddFunds" /\ Attentive => shows = picked
  /\ dialog' = [kind |-> kind, cards |-> view.cards]
  /\ pc' = "dialog"
  /\ UNCHANGED <<dbVars, serverVars, answer, view, wallVars, requests, faultVars>>

Cancel ==
  /\ pc = "dialog"
  /\ dialog' = NoDialog /\ pc' = "idle"
  /\ UNCHANGED <<dbVars, serverVars, answer, view, wallVars, requests, faultVars>>

-----------------------------------------------------------------------------
(***************************************************************************)
(* The client: confirming a dialog.                                        *)
(***************************************************************************)
Statement(from, to, amount) == [from |-> from, to |-> to, amount |-> amount]

MutantStatements(kind, c, amount) ==   \* one statement each: nothing is debited
  CASE kind = "AddFunds"         -> <<Statement("outside", c, amount)>>
    [] kind = "RechargeCash"     -> <<Statement(Nowhere, "cash", amount)>>
    [] kind = "AddFundsToSaving" -> <<Statement(Nowhere, "saving", amount)>>
    [] OTHER                     -> <<Statement(Nowhere, "spent", amount)>>

\* The statements of the server's handlers, in their order.  A spending in cash
\* means to debit Numerar, but compares the name with its quotes, 'Cash', and
\* so updates the card of that name, which there is not.
Statements(kind, c, amount) ==
  CASE kind = "AddFunds" -> <<Statement("outside", c, amount)>>
    [] kind = "RechargeCash" ->
         <<Statement(Nowhere, "cash", amount), Statement(c, Nowhere, amount)>>
    [] kind = "AddFundsToSaving" ->
         <<Statement(c, Nowhere, amount), Statement(Nowhere, "saving", amount)>>
    [] kind = "AddSpendings" /\ c = "cash" ->
         <<Statement(Nowhere, "spentInCash", amount), Statement(Nowhere, Nowhere, amount)>>
    [] kind = "AddSpendings" /\ c # "cash" ->
         <<Statement(Nowhere, "spent", amount), Statement(c, Nowhere, amount)>>

Request(todo) ==
  /\ pc = "dialog" /\ requests < MaxRequests
  /\ requests' = requests + 1
  /\ job' = todo /\ began' = FALSE
  /\ pc' = "waiting"
  /\ UNCHANGED <<dbVars, starting, answer, view, wallVars, faultVars>>

MutantDebitsFirst == {"RechargeCash"}   \* one forgets

\* Two dialogs debit their copy before they send, and do not take it back.
DebitsFirst == {"RechargeCash", "AddFundsToSaving"}

MutantCovers(kind, c, amount) ==   \* spendings by card are compared with the cash
  CASE kind = "AddFunds" -> c = picked
    [] kind = "AddSpendings" -> amount <= view.cash
    [] OTHER -> c # "cash" /\ amount <= dialog.cards[c]

\* What the dialog compares the amount with; its sign it does not look at.
Covers(kind, c, amount) ==
  CASE kind = "AddFunds" -> c = picked
    [] kind = "AddSpendings" /\ c = "cash" -> amount <= view.cash
    [] OTHER -> c # "cash" /\ amount <= dialog.cards[c]

Confirm(c, amount) ==
  /\ dialog.kind \in Kinds \ {"AddCard"}
  /\ Covers(dialog.kind, c, amount)
  /\ Request(Statements(dialog.kind, c, amount))
  /\ dialog' = [kind |-> dialog.kind, cards |->
                  IF dialog.kind \in DebitsFirst
                    THEN [dialog.cards EXCEPT ![c] = @ - amount] ELSE dialog.cards,
                card |-> c, amount |-> amount]

\* A new card: one INSERT, with no money.
ConfirmCard(c) ==
  /\ dialog.kind = "AddCard" /\ c \notin owned
  /\ Request(<<Statement(Nowhere, Nowhere, 0)>>)
  /\ dialog' = [kind |-> "AddCard", cards |-> dialog.cards, card |-> c, amount |-> 0]

-----------------------------------------------------------------------------
(***************************************************************************)
(* The server: one statement after the other, then the answer.             *)
(***************************************************************************)
clientVars == <<view, wallVars, dialog, pc, requests>>

Execute(s) ==
  db' = [a \in Accounts |-> db[a] + (IF a = s.to THEN s.amount ELSE 0)
                                  - (IF a = s.from THEN s.amount ELSE 0)]

RunStatement ==
  /\ job # <<>>
  /\ Execute(Head(job))
  /\ owned' = IF dialog.kind = "AddCard" THEN owned \cup {dialog.card} ELSE owned
  /\ job' = Tail(job) /\ began' = TRUE
  /\ answer' = IF Len(job) = 1 /\ pc = "waiting" THEN "success" ELSE "none"
  /\ UNCHANGED <<clientVars, starting, faultVars>>

\* While it starts, before any client can reach it, the server books a recurring
\* transaction of the day: the card is debited or credited whatever is on it.
InitReccurentTransactions(c, amount) ==
  /\ starting /\ job = <<>> /\ requests < MaxRequests
  /\ requests' = requests + 1
  /\ job' \in {<<Statement(c, Nowhere, amount), Statement(Nowhere, "recurred", amount)>>,
               <<Statement("outside", c, amount), Statement(Nowhere, Nowhere, amount)>>}
  /\ began' = FALSE
  /\ UNCHANGED <<dbVars, starting, answer, view, wallVars, dialog, pc, faultVars>>

\* A fault while the server has something to do: what was executed stays.
Fault ==
  /\ faults < MaxFaults
  /\ faults' = faults + 1
  /\ cut' = (cut \/ (job # <<>> /\ began))
  /\ UNCHANGED dbVars

\* The database cannot be reached or the statement not prepared: ExecQuery
\* throws, and the request is answered with a failure.  The copy of a dialog that
\* debits first is too high then if the card was debited already, and the dialog
\* is cancelled, or if the amount was less than nothing.
FailStatement ==
  /\ job # <<>> /\ ~starting /\ Fault
  /\ failed' = TRUE
  /\ inflated' = (inflated \/ (/\ dialog.kind \in DebitsFirst
                               /\ began \/ dialog.amount < 0))
  /\ job' = <<>> /\ began' = FALSE
  /\ answer' = IF pc = "waiting" THEN "failure" ELSE "none"
  /\ UNCHANGED <<clientVars, starting>>

\* The server stops, and the client with it; or it ends while it starts, as it
\* does when a statement of a recurring transaction fails, which nobody catches.
Stop ==
  /\ Fault
  /\ job' = <<>> /\ began' = FALSE /\ starting' = TRUE /\ answer' = "none"
  /\ pc' = "ended" /\ dialog' = NoDialog
  /\ UNCHANGED <<failed, inflated, view, wallVars, requests>>

-----------------------------------------------------------------------------
(***************************************************************************)
(* The client: the answer.                                                 *)
(***************************************************************************)
Answered(what) ==
  /\ pc = "waiting" /\ answer = what
  /\ answer' = "none"
  /\ UNCHANGED <<dbVars, serverVars, requests, faultVars>>

\* A failure leaves the dialog open.
TakeFailure ==
  /\ Answered("failure")
  /\ pc' = "dialog"
  /\ UNCHANGED <<view, wallVars, dialog>>

\* The dialog closes with Accepted and the dashboard updates its copy.
Accepted(kind) ==
  /\ dialog.kind = kind
  /\ Answered("success")
  /\ pc' = "idle" /\ dialog' = NoDialog

MutantAddCardExec ==   \* fills the picker, but not map_cards
  /\ Accepted("AddCard")
  /\ picked' \in owned
  /\ UNCHANGED <<view, page, wall, shows>>

\* addCardExec: the cards are loaded again.  The first card the database
\* returns is picked; the wall stays as it was.
AddCardExec ==
  /\ Accepted("AddCard")
  /\ view' = [view EXCEPT !.cards = [c \in owned |-> db[c]]]
  /\ picked' \in owned
  /\ UNCHANGED <<page, wall, shows>>

\* addFundsExec: the new balance is the sum on the wall and the amount.
AddFundsExec ==
  /\ Accepted("AddFunds")
  /\ wall' = wall + dialog.amount
  /\ view' = [view EXCEPT !.cards[dialog.card] = wall']
  /\ UNCHANGED <<page, picked, shows>>

\* rechargeCashExec
RechargeCashExec ==
  /\ Accepted("RechargeCash")
  /\ view' = [cards |-> dialog.cards, cash |-> view.cash + dialog.amount]
  /\ ShowCash(view'.cash)
  /\ UNCHANGED <<page, picked>>

AddFundsToSavingExec ==
  /\ Accepted("AddFundsToSaving")
  /\ view' = [view EXCEPT !.cards = dialog.cards]
  /\ UNCHANGED wallVars

MutantAddSpendingExec ==   \* the dashboard keeps the old balance
  /\ Accepted("AddSpendings")
  /\ UNCHANGED <<view, wallVars>>

\* addSpendingExec tests the category, which is never "Cash", and not the
\* finance; a spending in cash gives map_cards a card "Cash" with a debt, which
\* pays for nothing and is left out here.
AddSpendingExec ==
  /\ Accepted("AddSpendings")
  /\ view' = IF dialog.card = "cash" THEN view
               ELSE [view EXCEPT !.cards[dialog.card] = @ - dialog.amount]
  /\ UNCHANGED wallVars

\* The connection is lost: a dialog may still be accepted, but the next request
\* ends the client (see Connection).  The server finishes what it serves.
Lose ==
  /\ pc # "ended" /\ faults < MaxFaults
  /\ faults' = faults + 1
  /\ pc' = "ended" /\ answer' = "none"
  /\ UNCHANGED <<dbVars, serverVars, view, wallVars, dialog, requests,
                 failed, cut, inflated>>

\* The user starts the client again and its dashboard loads; the server answers
\* after it has finished what it was doing.
Restart ==
  /\ pc = "ended" /\ job = <<>>
  /\ pc' = "idle" /\ dialog' = NoDialog /\ answer' = "none"
  /\ view' = [cards |-> [c \in owned |-> db[c]], cash |-> db["cash"]]
  /\ page' = "other" /\ picked' \in owned
  /\ failed' = FALSE /\ inflated' = FALSE /\ starting' = FALSE
  /\ UNCHANGED <<dbVars, job, began, wall, shows, requests, faults, cut>>

Navigate == Leave \/ OpenFinances \/ SwitchTab \/ \E c \in owned : PickCard(c)
Ask ==
  \/ \E kind \in Kinds : OpenDialog(kind)
  \/ \E c \in owned \cup {"cash"}, amount \in Amounts : Confirm(c, amount)
  \/ \E c \in Cards : ConfirmCard(c)
  \/ Cancel
Take ==
  \/ TakeFailure
  \/ AddCardExec \/ AddFundsExec \/ RechargeCashExec
  \/ AddFundsToSavingExec \/ AddSpendingExec

Next ==
  \/ Navigate \/ Ask \/ Take
  \/ RunStatement \/ FailStatement
  \/ \E c \in owned, amount \in Amounts : InitReccurentTransactions(c, amount)
  \/ Stop \/ Lose \/ Restart

Spec == Init /\ [][Next]_ledgerVars

-----------------------------------------------------------------------------
(***************************************************************************)
(* Properties.                                                             *)
(***************************************************************************)
TypeOK ==
  /\ owned \subseteq Cards /\ InitialCards \subseteq owned
  /\ db \in [Accounts -> Int]
  /\ began \in BOOLEAN /\ starting \in BOOLEAN
  /\ failed \in BOOLEAN /\ cut \in BOOLEAN /\ inflated \in BOOLEAN
  /\ answer \in {"none", "success", "failure"}
  /\ view.cards \in [DOMAIN view.cards -> Int] /\ view.cash \in Int
  /\ DOMAIN view.cards \subseteq owned /\ picked \in DOMAIN view.cards
  /\ page \in Pages /\ wall \in Int /\ shows \in Cards \cup {"cash", "nothing"}
  /\ pc \in {"idle", "dialog", "waiting", "ended"}
  /\ dialog.kind \in Kinds \cup {"none"}
  /\ requests \in 0..MaxRequests /\ faults \in 0..MaxFaults

\* Between two jobs of the server no money was made or lost: what cards, cash,
\* savings, spendings and recurring outcomes gained came from outside.  It holds
\* as long as no job was cut off between its statements, whatever else failed
\* (clever_IServer.h 534-614, 788-1263).  (Spendings in cash do not count:
\* nothing is debited for them.)
MoneyConserved ==
  job = <<>> /\ ~cut => MapThenSumSet(LAMBDA a : db[a], Holdings) = 0

\* What a dialog lets the user take from a card is on the card when the
\* server debits it: the dialogs "check if you can withdraw that amount of money
\* from card" (rechargecashdialog.cpp:58) against their own copy of the balance,
\* and the server does not check at all.  A failure may leave a copy too high,
\* until the dashboard loads again (see FailStatement).  (That a card is never
\* below zero is not so: funds of less than nothing and recurring outcomes are
\* compared with nothing.)
WithdrawalsAreCovered ==
  job # <<>> /\ ~starting /\ ~inflated =>
    LET s == Head(job) IN
    s.from \in Cards /\ s.amount > 0 => s.amount <= db[s.from]

\* The copy the dashboard decides by is the database's content whenever the
\* user may act and no request failed since it was loaded
\* (dashboard.cpp:324-444).
CacheIsCurrent ==
  pc = "idle" /\ ~failed =>
    /\ view.cash = db["cash"]
    /\ \A c \in owned : c \in DOMAIN view.cards /\ view.cards[c] = db[c]

\* What a statement adds to an account.
Effect(s, a) ==
  (IF a = s.to THEN s.amount ELSE 0) - (IF a = s.from THEN s.amount ELSE 0)

\* A job counts from its first statement on, with the one still to run.
Booked ==
  [a \in Holdings |-> IF job # <<>> /\ began THEN db[a] + Effect(job[1], a) ELSE db[a]]

Promise ==
  INSTANCE Transfers WITH Holding <- Holdings, Limited <- Cards,
                          Free <- {"outside", "recurred"}, Amount <- Amounts,
                          balance <- Booked, broken <- cut \/ inflated

\* The ledger keeps the promise of one that moves money at one instant: every
\* request is one transfer from or to a card, covered unless it adds funds, every
\* recurring transaction one that need not be covered, or none if it fails before
\* its first statement or spends cash, and nothing else changes a balance
\* (clever_IServer.h 534-614, 788-1263) - until a job is cut off between its
\* statements, and except while the copies are too high (see FailStatement).
TransfersSpec == Promise!Spec
=============================================================================
