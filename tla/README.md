# CleverPocket, specified and verified

CleverPocket is a personal-finance program: a Qt client (`3_Solution/CleverClient`),
a server (`3_Solution/CleverServer`) in front of a SQL Server database, and the
networking core both share (`3_Solution/CleverCore`). This directory holds TLA+
models of its parts, the TLC configurations that check them on small instances,
and TLAPS proofs. Paths below are relative to `src/3_Solution`; `PROJECT.json`
names, for every definition, the lines of the code it stands for.

## 1. The system

| Part | State | Operations | Talks to |
|---|---|---|---|
| Message queue, `clever_TSQueue.h` | a deque, two mutexes, a condition variable | push, pop, empty, count, clear, wait | asio thread pushes; `main` (server) or the UI thread (client) consumes |
| Update loop, `clever_IServer.h:233`, `main` of the server | - | wait, test, pop, `OnMessage` | message queue, message handlers |
| Connection, `clever_Connection.h`, `clever_IClient.h` | socket, outgoing queue, message being read, handshake | connect, challenge and answer, send, read, write, disconnect | its peer over TCP; the queue of incoming messages; the application thread posts work to it |
| Registry, `clever_IServer.h:121-231` | `m_deqConnections` | accept, broadcast, drop the dead | asio thread appends, `main` walks |
| Client's handlers, `startup.cpp`, `dashboard.cpp`, dialogs | the page, `PAT.txt`, the queue of incoming messages | some 25 requests | clear queue, send, poll for the answer |
| Server's handlers, `server_driver.cpp` | - | one case per request | database, client's connection |
| Ledger, `clever_IServer.h:534-614` and `788-1263`, `dashboard.cpp:324-444` | balances in the database; `map_cards`, `currUserCash` in the client | card, funds, cash, saving, spending, recurring transactions | SQL statements, answers |
| Daily jobs, `clever_IServer.h:412-743` | a file with a date per job, a flag in the process, the clock | mails, budgets, recurring transactions | `main` between two `Update`s; the constructor of `Server` |
| Sessions, `clever_IServer.h:1477-1623`, `startup.cpp`, `dashboard.cpp:66` | tables of users, cash and sessions; `PAT.txt` on each machine; files of codes | register, login, remember, logout, forgotten password | database, file system |
| Codec, `clever_Message.h`, `Client.cpp`, `server_driver.cpp` | header and body, a stack of fields | push and pop fields | everything that sends |
| Overview, `dashboard.cpp` | `all_user_tranzactions`, the filters (kept twice), six months, charts | filter, sum up, six months back | what the loads brought |

What is hard in it: two threads per process share the queue and the registry;
a handler recognises an answer only by its id and by coming first; the UI
thread polls, so whatever never comes freezes the window; requests of several
SQL statements run without a transaction; the client keeps a copy of the
balances, changes it itself and checks withdrawals against it, and nothing looks at
the sign of an amount; connections are
lost at any time; the daily jobs remember what they did in a file written at the
end, while the clock goes on; a login that is kept is a file and a row, written
and removed by two processes; the dashboard keeps its filters and its months twice.
`PROJECT.json`, "hazards", lists them line by line with the properties that would
catch each going wrong.

What makes each part correct: the queue is atomic, never popped empty, never
deadlocked, and nothing stays in it; both ends of a connection agree on where
they are in the stream and deliver in order; a broadcast reaches every listener
once and leaves no corpse; a handler acts upon its own answer, leaves nothing
behind and returns; money is conserved, what a dialog lets the user take from a card
is on it, and the dashboard shows what the database holds; a job is done once for
each day the server was there to do it, and its file tells the truth; a kept login has
its row and a row its file; a field is read into the variable it was written from; and a list or a
chart shows what the labels beside it name.

## 2. The modules

`MessageQueue` is the abstract queue: one sequence, pushed, popped or cleared in
one step. `TSQueue` is the code: one step per lock, unlock, critical section,
notify or sleep. `push_back` takes `muxBlocking` while it holds `muxQueue`;
`wait` tests the deque under `muxQueue` alone and then sleeps under
`muxBlocking`, which is the whole difficulty. TSQueue implements MessageQueue
with `contents <- deqQueue` (`QueueSpec`). The deque is undefined when popped
empty, so `Pop` is stuck there and `PopsAreSafe` says that this never happens.

`UpdateLoop` composes TSQueue with the server's `main`: the consumer's calls are
those of `Update(-1, true)`.

`Connection` has both ends of one TCP connection. A handler of asio is a step;
`posted` is the work `Send` and `Disconnect` post; `writes` are the asynchronous
writes issued, of which the oldest completes first; `wire` is what was sent and
not yet read. Messages are numbers with or without a body.

`Channel` is what the applications at the two ends may count on: a sequence of
messages in each direction, sent at one end and received whole at the other, in
order. Connection implements it (`ChannelSpec`): `underway` is what was sent and not
handed over, wherever it is at the moment (posted, waiting, being written, on the
wire or half read), `heard` the last message handed over with its body. A message
that came with the body of another one would be none (`Whole`).

`Registry` has the server's container, in which a walk of `MessageAllClients`
goes on one connection at a step, while the asio thread appends and closes. A
walk the asio thread has changed the container under is undefined (`raced`).

`ClientRequest` has the client's UI thread, a handler at a time, and the server's
`OnMessage`. The 25 handlers differ in the id they wait for and in one of four
shapes, which the table at the head of the module gives. It stands on the two
modules before: the queue is MessageQueue's, the network delivers in order as
Connection shows (`DeliveredInOrder`), and a reconnect ends the process (`Reconnect`
of Connection, in which a joinable thread is assigned to). Its requests and answers
carry the fields of Messages; the dashboard knows whether it was opened with a PAT
or a username, and with which of them each request is made. Answers carry the number
of their request, which no handler reads: the properties do.

`Ledger` has the money: the database as balances on accounts, the statements the
server runs for a request (one at a step), and the client's copy with its
finances page, whose `soldWallLabel` the code computes with. It takes from
ClientRequest that a request is answered by its own answer. Amounts have both signs:
the dialogs refuse an empty field only. A server that starts (`starting`) books the
recurring transactions of the day before anybody is served
(`InitReccurentTransactions`; DailyJobs says on which days): incomes from outside,
outcomes to `recurred`, on the same cards and without a look at their balance. So a
card may go below zero, by an outcome or by funds of less than nothing, and no
property says otherwise; the program promises no more than that a dialog compares
what it takes from a card with what is there (WithdrawalsAreCovered).

`Transfers` is a ledger as it should be: money moves between two holdings at one
instant, and what is moved from a card is there, except to the `Free` holdings, which
take anything: `outside` (funds are added from it, which is to take the amount the
other way) and `recurred`. Ledger implements it (`TransfersSpec`) until a job is cut
off between its statements (`cut`), and except while a failure leaves the copies too
high (`inflated`), which lasts until the dashboard is loaded again: then the ledger is
broken (`Break`) and nothing is promised until it is mended (`Mend`). A job counts
from its first statement on: `Booked` is the database with the second one's effect, if
it is still to run.

`Messages` has the body of a message: a stack of fields, named after the variables
they are copied from, with what each function of `Client.cpp` pushes, and what each
case of `OnMessage` pops, catches and pushes for an answer. It has no state; the
requests of ClientRequest are made of it.

`DailyJobs` has the server's main thread from its start through the three jobs,
one step per test, mail, statement and file written; a clock that may go on at any
of these steps, over midnight too; and a process that may end at any of them. It
is started again by its operator. What a handler of `OnMessage` does is one step, in
which only a spending or a renamed card matters here. The ghosts (`mailed`, `moved`,
`recorded`, `cuts`, `late`, `tested`, `begun`) record what was really done.

`Session` has several clients and the server with the tables and files of logins.
Requests are a queue per machine; a connection may be lost with the first so many
of them underway (they are handled late), and the server may end at any step, between
the two statements of a registration too. That an answer is the request's own it takes
from ClientRequest.

`Overview` has one dashboard and its pages of transactions, categories and
statistics. A month is a number that goes on over the years; the code knows only
its two digits, which is `Calendar`.

The `MC*` modules give the small instances, and the `*Proofs` modules (of TSQueue,
Connection, Registry, ClientRequest, Ledger, DailyJobs, Session and Overview) the
theorems of section 5.

How they depend on each other: UpdateLoop composes TSQueue with the server's loop;
TSQueue implements MessageQueue, Connection implements Channel and Ledger implements
Transfers; ClientRequest extends Messages, has
MessageQueue's queue at the client and Connection's order on the wire; Ledger and
Session take from ClientRequest that a request gets its own answer or none; DailyJobs
stands where UpdateLoop calls `Update`, and Overview on a dashboard that has loaded.

## 3. The runs

Runs that pass:

| Run | Question | Bounds |
|---|---|---|
| `queue` | Is every operation of tsqueue atomic, safe and free of deadlock? | two pushing threads (one more than the program has), the consumer calling anything, a queue of two |
| `update_loop` | Does handling go on under traffic, do pushes finish? | one producer, as in the program |
| `connection` | Do both ends keep in step, deliver in order and complete, whatever fails, so that together they are a channel? | the server sends ServerAccept and two messages, the client one: a chain of writes, and traffic both ways, with and without body |
| `registry` | Does a broadcast reach everybody and clean up? | three connections, two broadcasts: one to make nulls, one to meet what is left |
| `client_request` | Does a handler get its own answer, read the fields as they were written, ask in a name, leave nothing behind, return? | a remembered user, six loads, any three buttons (log out, log in again and load again is three), lists of up to two items |
| `ledger` | Is money conserved, what a dialog takes from a card on it, the dashboard right, and is a request or a recurring transaction one transfer? | a card and one to add, amounts from -1 to 1, three requests and recurring transactions, two faults: enough to fail between two statements, cancel or try again, and ask once more; or to stop, book an outcome that nothing covers while the server starts, load, and spend |
| `daily_jobs` | Is every job done once for each day, and does its file say so, however the process ends? | three days (one to run, two midnights to run over), two faults, two subscribers, one row due the second day, one budget |
| `session` | Do kept logins and their rows agree, are registrations complete, do codes work? | two users at two machines, two codes, two PATs, seven clicks (register, log in and log out at one machine and log in at the other is four), two faults; symmetric in users, machines and codes |
| `overview` | Do lists and charts show what their labels say? | opened in January or May (the six months go over a new year, or begin in December and, a month later, with the year), up to two transactions of this month, of five, six or twelve months ago, four clicks, a month that may pass |

The types of TSQueue and Registry are theorems (section 5) and no part of these runs.

Runs that find a disagreement between the code and what it says of itself (the
quotations are under "findings"):

| Run | Shows |
|---|---|
| `lost_wakeup` | `wait` sleeps on a non-empty queue if the push comes between its test and its sleep; the message is answered when the next one comes. |
| `client_new_user` | without `PAT.txt` nobody waits for ServerAccept; the first handler takes it, and the second one takes the first one's answer. |
| `overdraft` | after adding a card the wall shows another card than the picker; funds added then give the dashboard a wrong balance, and a dialog lets more be taken from the card than it has. |

Three more of the kind are in the models without a run of their own. With
`EarlySend = TRUE` in `MCConnection.cfg` TLC finds FramingInSync violated:
`IsConnected()` holds before the handshake is over, and a message sent then is read
as the answer of the challenge. The other properties of the run hold of such a client
too: the server reads what overtook as a wrong answer and closes. `Reconnect` of
Connection ends the client:
`getInstance` after a lost connection assigns to a joinable thread. And in Registry
`raced` becomes true when the asio thread appends to the container `main` iterates
through, after which nothing is said of the walk.

Each passing run leaves out of its instance what the violated one shows, by a
constant that is named for it: `EarlySend` (the client waits for the server's
first message), `Remembered` (which is the code that does so), `Attentive` (the
user adds funds only while the wall shows the picked card), `QueriesExecute`
(a prepared statement is executed). In Registry the properties say "unless
raced". In Ledger they say what they need: MoneyConserved that no job was cut off
between its statements (a failure elsewhere is allowed), CacheIsCurrent that no
request failed since the dashboard was loaded, WithdrawalsAreCovered that no such
failure left a copy above the balance (`inflated`). Without these conditions they do
not hold of this code: a recharge that fails between crediting the cash and debiting
the card leaves the money made, a saving that fails there leaves it lost and, if the
dialog is cancelled, the dashboard with the old balance; and a dialog that takes less
than nothing raises its copy before it sends, and keeps it so when the request fails.
WithdrawalsAreCovered is about amounts above zero that a dialog takes: a saving
funded or a card recharged from with a negative amount gives to the card, and what
adding negative funds or a recurring outcome takes is compared with nothing.

The properties of the later modules have conditions of this kind as well, each
an operator or a ghost of the module:

* DailyJobs. NotTwice allows one repetition for each end of the process in the
  middle of the job (`cuts`), because the file is written at the end. FilesTellTruth
  and NothingForgotten except a job that was begun the day before and wrote the date
  of its end (`late`), so that the new day counts as done. NothingForgotten speaks of
  what this process was free to do and tested (`tested`): an evening main() sleeps
  through, or one after the flag was set to false, is forgotten by the code; and
  where no file exists recurring transactions never run. HistoryIsTrue excepts rows
  whose card was renamed, for which the first statement changes nothing. No budget is
  ever counted to its end while its owner has spendings of the day (`stof` of an
  empty text ends the server); ServesAgain says that this is over by the next day.
* Session. NoOrphans excepts logouts that were cut off: `PAT.txt` is removed, the
  row stays. MailedCodeWorks excepts codes that were mailed while their file was on
  the disk (`shared`): two requests then share one file. KeptLoginHasRow is about a
  login that wrote `PAT.txt`; one that found the file of another leaves it alone.
* Overview. ListIsFiltered takes the date from the filter after the page of incomes,
  which sets the date line only (dashboard.cpp:1141). StatisticsAreRight needs
  `NoNamesake` (a transaction of a year ago counts for this month) and, for the labels
  of the capital, that no month passed since the first opening: the labels are never
  cleared.

Deadlock is not checked where the system may stop: when the bounds on
requests, messages and faults are used up, or the client has ended.

## 4. Fairness

* `update_loop`: both threads are scheduled (WF of their steps) and a mutex that
  is released again and again is granted (SF of the locks). No spurious wakeup
  is promised. `HandlingGoesOn` adds that clients go on sending; `lost_wakeup` does not.
* `connection`: asio runs a handler whose operation completed. Applications need
  not send, the network need not fail or be spared.
* `client_request`: the UI thread, asio and the server's `main` go on; the user
  owes nothing, and no fault is promised. `HandlersReturn` excepts one case by
  name: a list's failure whose text is read as a count (`Misread`), after which
  the window does freeze.
* `daily_jobs`: time passes (WF of Tick), the main thread goes on (WF of Main) and
  who runs the server starts it when it has ended (WF of Start). Messages are not
  promised: ServesAgain asks only that main() gets to Update again.
* `ledger`, `registry`, `queue`, `session`, `overview`: safety only.

## 5. What is proved

`TSQueueProofs`, for any set of producers, any set of items and any bound, from
the named assumptions of TSQueue (threads are distinct, `None` is no thread and
no item, the bound is a natural number):

* `TypeCorrect`: Spec => []TypeOK
* `PopSafety`: Spec => []PopsAreSafe
* `LockOrderSafety`: Spec => []LockOrder
* `Refinement`: Spec => QueueSpec, every step of the code is one step of
  MessageQueue or none.

None of them is inductive. The invariant that is adds to the types who holds
which mutex at each place of an operation (each mutex has one holder, and it is
the thread whose place says so), what operation a thread can be executing at
each place (only pushes lock muxBlocking under muxQueue, only `wait` sleeps),
and that what the consumer was told still holds: `nonEmpty` implies a non-empty
deque, and the consumer is inside a pop only while `nonEmpty` - the other
threads only push. One lemma per conjunct (TypeOK, Roles, Mutexes, Knowledge), with
one step per action, shows that it is preserved; PopsAreSafe and LockOrder follow
from it, and the refinement uses it for the pops.

`ConnectionProofs`, for any numbers of messages:

* `TypeCorrect`: Spec => []TypeOK
* `OneChain`: Spec => []OneWriteChain
* `InSync`: ~EarlySend => (Spec => []FramingInSync)
* `OrderKept`: Spec => []DeliveredInOrder
* `ImplementsChannel`: Spec => ChannelSpec, every step of the two ends is one step of
  Channel or none.

Of these only InSync needs the client to wait for ServerAccept before it sends
(EarlySend = FALSE). There are two invariants. CInv: a header or a body is being written
exactly while a message waits in `m_deqMessagesOut`, and then one only (Chain), which is
what starting the chain with the first message and ending it with the last one comes
to. SInv adds the stream: nothing is under way at an end before the handshake has passed there (ServerStarts,
ClientStarts); the messages sent are numbered (Numbered), and what was delivered is
the first of them, each with its body (Heard). For the server's direction it adds that
it is Sound: the messages that wait are the last of those sent (Queued) and what is on
the wire is the rest (Before), written without a gap (Writing, Wire), beginning with
the part the reader waits for (Expects). For the client's direction this holds too
unless its first message overtook its answer; then the direction is Spoiled: the
server, which has heard nothing yet, will read a header where it expects the answer, and
nothing after it. Waits, of a client that waits, excludes Spoiled; it is what InSync
needs. Since an end changes one of these at a time, most of the proof says that a step
of one end extends what the other may rely on. For ImplementsChannel, a step that sends
or delivers appends one message to `sent` or `delivered` (StepKinds), and Heard says that
the one delivered is the oldest under way.

`RegistryProofs`, for any connections and any number of broadcasts, if `Null` is
no connection:

* `TypeCorrect`: Spec => []TypeOK
* `BroadcastReaches`: Spec => []BroadcastReachesAll
* `NullsAreErased`: Spec => []NoNullsLeft
* `GoneStayAway`: Spec => []GoneIsRemoved (each "unless raced", as the property says)

The invariant says that the container holds each connection once, all that are
connected and none the server was told is gone (Contents); that a walk which was not
raced has visited what is before it and still meets the rest, so that nobody is
missed or served twice (Walk); and that no null is left when it is over (AtRest).

`ClientRequestProofs`, for any buttons and bounds:

* `ReadBack`: for any set of fields, any body and any fields pushed upon it, reading
  them in reverse order gives each variable its field and leaves the body that was
  there. It is what makes the server's habit sound of answering in the message it
  was sent.
* under `Orderly` (`PAT.txt` is there when the client starts, and queries are
  executed: Remembered and QueriesExecute): `TypeCorrect` ([]TypeOK), `AnswersAreOwn`
  ([]OwnAnswer), `QuietBetween` ([]Quiescent), `AcceptedWasPerformed`
  ([]AcceptedIsPerformed), `FieldsFit` ([]ReadAsWritten) and `EveryAskerIsNamed`
  ([]AskedInAName).

Of the two assumptions, the first is the code that is free of the disagreement
`client_new_user` shows; the second is that a prepared statement does not fail.
Connections may be lost at any time. The invariant describes a conversation: what is
under way to the server is RememberMe or of the handler that ran last (Requests); what
is under way to the client, in its socket or its queue, answers the handler that
waits, in fields that fit it (Arrivals); of a list never more than was counted
(Counted); and while the connection lasts, either the handler's request is the last
that was sent, and nothing comes, or all of its answer is coming and no more
(Conversation). FirstLoad says that a dashboard opened with a PAT asks for the cash,
and thereby learns the username, before anything that needs a name.

`LedgerProofs`, for any finite set of cards, amounts of both signs and any size, any
requests, recurring transactions and faults, from the
assumptions of Ledger (there is a card to begin with, no card is one of the other
accounts):

* `TypeCorrect`: Spec => []TypeOK
* `EveryWithdrawalIsCovered`: Attentive => (Spec => []WithdrawalsAreCovered)
* `DashboardIsCurrent`: Attentive => (Spec => []CacheIsCurrent)
* `MoneyIsConserved`: Spec => []MoneyConserved, whoever the user is
* `ImplementsTransfers`: Attentive => (Spec => TransfersSpec)

`Attentive` leaves out what `overdraft` shows. The statements that are still to run
change an account by `Due`; its balance and this together do not change while
statements run, and are what the dashboard will compute for itself when the answer
is a success (Copies). As long as nothing inflated them, the copies of the dashboard,
of the dialog and of the wall never show more than the card has (Copies, Wall), which is
why comparing a withdrawal with the copy is enough (Covered). That a request may fail
and leave them so is part of the invariant: while its failure would do no harm
(Harmless: nothing was executed and the amount is not below zero, or the dialog does not
debit first) the copies are within the balances already. What is booked while the
server starts needs none of it, since no client is there with a copy.

MoneyIsConserved has an invariant of its own (Money): until a job was cut off, the
sum over all holdings and what the statements still to run add to it (Rest) is
nothing. The fold the sum is made of is an induction over data, for which the library's
theorem cannot be used; the lemmas about it (a holding more, one holding changed, the
same balances) are proved from a smallest counterexample among the finitely many
subsets of the holdings. For ImplementsTransfers, RunTransfers shows that
the first statement of a job is its whole transfer in `Booked` (Pending), covered by
the balance of the card if a dialog asked for it (Covered), and that the second changes
nothing in it.

`SessionProofs`, for any machines, users, codes and bounds, if `None` is none of them:

* `TypeCorrect`: Spec => []TypeOK
* `KeptLoginIsThere`: Spec => []KeptLoginHasRow
* `RowsHaveFiles`: Spec => []NoOrphans
* `ConfirmedIsComplete`: Spec => []SuccessIsComplete
* `CodesWork`: Spec => []MailedCodeWorks

A token is in `PAT.txt`, in the table, or in a request under way. The invariant says
that it is made once and in one file at most (Tokens); what the page shows while a
request waits (PageFits), and that this request is the last in the queue of its machine,
behind those of connections that were lost and perhaps a RememberMe (QueueFits); that
a request about a token comes from the machine that has the file, or was cut off
(TokenFits); that the row of a kept login is in the table or its RememberMe comes
before whatever could use it (RowThere), and that after a logout neither is (RowGone);
that a success says what is in the tables (AnswerHolds); that a registration under
way has its user (JobFits); and that a code whose file is one request's own is known
to one client that may type it, or to one request that validates it (Owners).

`DailyJobsProofs`, for any days, faults, subscribers, rows and budgets, from the
assumptions of DailyJobs (there is a day, a row is due on one of them, no row is
one of the places of the main thread, `Absent` is no date):

* `TypeCorrect`: Spec => []TypeOK
* `OnceEach`: Spec => []NotTwice
* `FilesAreTrue`: Spec => []FilesTellTruth
* `MoneyFirst`: Spec => []HistoryIsTrue
* `NothingIsForgotten`: Spec => NothingForgotten (an action property)

What has been mailed or booked is remembered in two places only, `todo` while
the job runs and the file once it is over, and a cut loses the first. The inductive
invariant says so: a mail beyond the cuts has its subscriber out of `todo`, or the
file has today's date (Mails); a booking beyond the cuts is in a job that found
rows, or the file has a date of the row's day or later (Bookings), and what is still
to book has neither, because dates in the files are never to come (Dates). Control
ties this to the places of the main thread; Progress says what a job begun today has
done of it; Remembered carries it on to midnight. One lemma per conjunct, one step per action.

`OverviewProofs`, for any finances, months, histories and bounds, if months and ages
are natural numbers:

* `SixMonthsBack`: the six months computed are the six that end with this one
* `ListsAreFiltered`: Spec => []ListIsFiltered
* `ChartsAreRight`: Spec => []StatisticsAreRight
* `ListsWhatPasses`: for any history and filters, `Filtered` is the transactions that
  pass, each once and in the order of the history
* `TypeCorrect`: Spec => []TypeOK

A page keeps what was computed when it was opened, so the inductive invariant
is about the page that is open: it shows what the present history gives (Lists,
Charts), because only the page of categories adds to the history; nothing is dated
after the month the page was computed in (Times); and the first six of
`currLastSixMonths` are those of the first opening (Labels). `NoOther` then says
that within a year the two digits of a month tell which month it was.

The loop that fills a list is a recursive function of the number of turns. That there
is such a function is shown by its tables of the first n turns (IsTable,
ListingExists), and what it lists by a smallest number of turns for which it would be
wrong. ListsWhatPasses says what a list shows whatever the pages do; TypeCorrect
needs it, because a list is typed by the transactions it is made of.

Every invariant and action property of the passing runs, and each of the three
refinements, is a theorem, of the constants named with it. Only model-checked:

* Liveness (MessagesArrive of Connection, HandlingGoesOn and PushesFinish of UpdateLoop,
  HandlersReturn of ClientRequest, ServesAgain of DailyJobs): the provers do not
  treat fairness and ENABLED.

## 6. What is not modelled

* Bytes: a field of a message is its name, 1024 bytes of text or a number; SQL
  text, formatting, the text of mails, Qt's layout. What a text with a quotation
  mark or a line end does to the statements and files it is put in is left out. A
  balance is an integer (the code has floats), an amount is an integer of either sign,
  all cards have the currency of the cash, no card is edited.
* In Ledger which recurring transactions there are and on which day they are due: any
  are booked at any start, of any amount (DailyJobs has the days). That no card goes
  below zero is stated nowhere: nothing in the code checks the sign of what is added
  (addfundsdialog.cpp:48), and the check of the balance before a recurring outcome is
  a "TO DO" of the source (clever_IServer.h:570).
* A read that completed before its socket was closed is handled before the close: asio
  may run its handler after it, and would then hand over a message that had arrived.
  Channel has no closing, so that it allows either.
* Passwords: a login succeeds or fails; what an update of the password writes. The
  mails of budgets that were exceeded: the code never gets there.
* In Overview every transaction has the amount one and a spending one category;
  the total of all finances, the pages of incomes and outcomes, savings and budgets
  beyond their requests.
* Queries that no other part of this code reads back (details of cards, pictures,
  preferences): their requests are in Messages and ClientRequest, their effects are not.
* ODBC and Chilkat are external; credentials and message types are plain data; the
  set-up project is a build artefact.
* Two sessions of one user in Ledger, and more than one client in ClientRequest;
  the server serves one request at a time, so clients meet in the database only.
* `SQLExecute` failing silently (DBConnection.h:112), in Ledger; in
  ClientRequest it is the constant `QueriesExecute`.
* Removing `PAT.txt` succeeds; loading the dashboard succeeds in Ledger.
* `MessageClient` of the server, which nothing calls.
* Spendings in cash are modelled as the code has them: recorded, and never
  debited (IServer.h:818 compares the quoted name). MoneyConserved leaves them out.

## 7. The plan

Done, in this order: the queue and its loop, connections, the registry, requests,
the ledger; the proofs of the queue; the daily jobs with their proofs; sessions;
the fields of messages, in requests and answers; the overview with its proofs; the
proofs of the registry, the ledger, requests, sessions and connections; the channel a
connection implements and the transfers the ledger implements, with their proofs; that
money is conserved, and what a filter lists. To come:

1. A composition of Channel and ClientRequest for one client, to replace the
   assumption of ordered delivery by that channel, with the connection that is refused.
2. `Ledger`: a second session of the same user, editing a card.
