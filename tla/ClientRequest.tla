--------------------------- MODULE ClientRequest ---------------------------
(***************************************************************************)
(* How the client asks the server (CleverClient/startup.cpp, dashboard.cpp *)
(* and the dialogs) and how the server answers (CleverServer/              *)
(* server_driver.cpp, OnMessage).                                          *)
(*                                                                         *)
(* A handler of the client's UI thread clears m_qMessagesIn, sends one     *)
(* request and polls the queue until a message is there or the connection  *)
(* is lost.  It takes the first message for its answer if the message has  *)
(* the id of the answer, whichever request the message answers.  The asio  *)
(* thread fills the queue meanwhile.  The queue is the atomic one of       *)
(* MessageQueue, the connection the ordered one of Connection.             *)
(*                                                                         *)
(* Requests are numbered; a message carries, beside what the code sends,   *)
(* the number of the request it answers.  The handlers never look at it.   *)
(* The fields of its body are those of Messages.                           *)
(***************************************************************************)
EXTENDS Messages, Functions

CONSTANTS
  Remembered,   \* PAT.txt exists when the client starts
  QueriesExecute, \* SQLExecute does not fail (else nobody is told)
  Buttons,      \* the handlers the user may start
  MaxClicks,    \* bound: how many he starts
  MaxItems      \* bound: the items of a list

ASSUME RememberedAssumption == {Remembered, QueriesExecute} \subseteq BOOLEAN
ASSUME BoundsAssumption == MaxClicks \in Nat /\ MaxItems \in Nat \ {0}

-----------------------------------------------------------------------------
(***************************************************************************)
(* The handlers: the id of the answer each waits for, its shape, the       *)
(* fields it asks with, the case of the server's OnMessage that answers,   *)
(* and the variables it reads the answer, or an item of the list, into.    *)
(*   single      takes one message, and ignores it if the id is another    *)
(*   dialog      the same, but closes with Accepted unless the answer is a *)
(*               failure: also when the message was ignored or none came   *)
(*   list        reads a count and that many items                         *)
(*   listIfAny   the same, but returns at once if the count is not > 0     *)
(***************************************************************************)
Handler(answer, shape, pushes, case, reads) ==
  [answer |-> answer, shape |-> shape, pushes |-> pushes, case |-> case, reads |-> reads]
Single(answer, pushes, case) == Handler(answer, "single", pushes, case, Response)
Dialog(answer, pushes, case) == Handler(answer, "dialog", pushes, case, Response)

LoginRemembered ==
  Single("LoginRememeberedRequest", LoginUserRememberedPush, OnLoginRemembered)
Login          == Single("LoginRequest", LoginUserPush, OnLogin)
Register       == Single("RegisterRequest", RegisterPush, OnRegister)
ForgotPassword ==
  Single("SendEmailForgotPasswordRequest", SendEmailForgotPasswordPush,
         OnSendEmailForgotPassword)
ValidateCode ==
  Single("VerifyCodeForgotPasswordRequest", ValidateMySixDigitCodePush,
         OnVerifyCodeForgotPassword)
UpdatePassword == Single("UpdatePasswordRequest", UpdatePasswordPush, OnUpdatePassword)

LoadCash ==
  Handler("ServerGetCashResponse", "single", GetCashDetailsPush, OnGetCash,
          Response \o
          <<"currencyCashISO", "cashValue", "username", "FirstName", "LastName",
            "Email", "Country", "PhoneNumber", "Picture", "mailState">>)
LoadCards ==
  Handler("ServerGetCardsResponse", "list", GetCardsDetailsPush, OnGetCard,
          <<"cardName", "cardHolder", "cardNumber", "cardValidUntil",
            "cardCurrencyISO", "cardSold">>)
LoadRecurencies ==
  Handler("ServerGetRecurenciesResponse", "list", GetRecurenciesPush,
          OnUserGetRecurencies,
          <<"name", "receiver", "card", "ISO", "dayOfMonth", "typeID", "value">>)
LoadTranzactions ==
  Handler("ServerGetTranzactionsResponse", "listIfAny", GetTranzactionsPush,
          OnGetTranzactions,
          <<"title", "source", "destination", "timestamp", "financeName", "type",
            "value", "currencyISO", "description", "categoryName">>)
LoadSavings ==
  Handler("ServerGetSavingsResponse", "listIfAny", GetSavingsPush, OnGetSavings,
          <<"title", "goal", "currMoney", "currencyISO", "initialDate">>)
LoadBudgets ==
  Handler("ServerGetBudgetResponse", "single", GetBudgetPush, OnGetBudget,
          Response \o <<"startDate", "endDate", "value">>)

Logout ==
  Single("LogoutRememberedRequest", LogoutWithRememberMePush, OnLogoutRemembered)
AddPicture == Single("ServerAddPictureResponse", AddPicturePush, OnAddPicture)
SavePreferences ==
  Single("ServerAddPreferencesOptionResponse", AddPreferencesPush, OnAddPreferences)
SetBudget    == Single("ServerAddBudgetResponse", AddBudgetPush, OnAddBudget)
DeleteBudget == Single("ServerDeleteBudgetResponse", DeleteBudgetPush, OnDeleteBudget)
AddCard      == Dialog("ServerAddCardResponse", AddCardPush, OnAddCard)
EditCard     == Dialog("ServerEditCardResponse", EditCardPush, OnEditCard)
AddFunds     == Dialog("ServerAddFundsResponse", AddCardFundsPush, OnAddCardFunds)
RechargeCash == Dialog("ServerAddCashResponse", AddCashPush, OnAddCash)
AddSpendings == Dialog("ServerSpendingsResponse", AddSpendingsPush, OnAddSpending)
AddIncome    == Dialog("ServerIncomeResponse", AddIncomePush, OnAddIncome)
AddOutcome   == Dialog("ServerOutcomeResponse", AddOutcomePush, OnAddOutcome)
AddSaving    == Dialog("ServerAddSavingResponse", AddSavingPush, OnAddSaving)
AddFundsToSaving ==
  Dialog("ServerAddFundsToSavingResponse", AddFundsToSavingPush, OnAddFundsToSaving)

\* Sent without waiting: the server answers only if it fails.
RememberMe ==
  Handler("RememberMeRequest", "unanswered", RememberMePush, OnRememberMe, Response)

LoginPage == {Login, Register, ForgotPassword, ValidateCode, UpdatePassword}
DashboardPage ==
  {Logout, AddPicture, SavePreferences, SetBudget, DeleteBudget, AddCard,
   EditCard, AddFunds, RechargeCash, AddSpendings, AddIncome, AddOutcome,
   AddSaving, AddFundsToSaving}
Offered(page) == IF page = "login" THEN LoginPage ELSE DashboardPage

MutantDashboardByPAT ==   \* the cash after the recurrencies
  <<LoadCards, LoadRecurencies, LoadCash, LoadTranzactions, LoadSavings, LoadBudgets>>

\* What the two constructors of Dashboard load, in their order: the one that
\* knows the PAT has to learn the username first, from the load of the cash.
DashboardByPAT ==
  <<LoadCash, LoadCards, LoadRecurencies, LoadTranzactions, LoadSavings, LoadBudgets>>
DashboardByName ==
  <<LoadCards, LoadCash, LoadRecurencies, LoadTranzactions, LoadSavings, LoadBudgets>>

Loads == {DashboardByPAT[k] : k \in 1..Len(DashboardByPAT)}
Handlers == {LoginRemembered} \cup LoginPage \cup Loads \cup DashboardPage

ASSUME ButtonsAssumption == Buttons \subseteq LoginPage \cup DashboardPage

VARIABLES
  connected,    \* the connection of the client is open
  serverRuns,   \* the server's process runs
  up,           \* requests on their way to the server
  down,         \* messages on their way to the client
  in,           \* m_qMessagesIn of the client
  page,         \* what the client shows
  todo,         \* what the constructor of Dashboard has still to load
  board,        \* what the dashboard knows (see Board)
  ui,           \* where the UI thread is: on a page, in a handler, or ended
  no,           \* how many requests were sent
  clicks,       \* how many handlers the user started
  pat,          \* PAT.txt exists
  done,         \* how the handler that returned last ended
  accepted,     \* the requests whose dialogs closed with Accepted
  performed     \* the dialogs' requests the server performed without an error

reqVars == <<connected, serverRuns, up, down, in, page, todo, board, ui, no,
             clicks, pat, done, accepted, performed>>
netVars == <<connected, serverRuns, down, performed>>

\* What an int read from a text may be: a negative number, zero, or more than
\* ever comes.
Garbage == {-9, 0, MaxItems + 1}
Counts == 0..MaxItems + 1 \cup Garbage

\* The fields there are: what somebody pushes.
Fields ==
  Range(Response) \cup Range(Count) \cup
    (UNION {Range(h.pushes) \cup Range(h.case.pushes) : h \in Handlers \cup {RememberMe}})

Answers == {h.answer : h \in Handlers \cup {RememberMe}}
Message == [id : Answers \cup {"ServerAccept"}, of : Nat,
            what : {"success", "failure", "count", "item"}, n : 0..MaxItems,
            body : Seq(Fields)]
ServerAccept ==
  [id |-> "ServerAccept", of |-> 0, what |-> "success", n |-> 0, body |-> <<>>]
Request == [of : Nat, handler : Handlers \cup {RememberMe},
            by : {"nobody", "PAT", "name", "given"}, body : Seq(Fields)]

\* byPAT: the dashboard was opened with a PAT; cash: the load of the cash has
\* shown it, and with it the username, or not; history: there are transactions.
Board == [byPAT : BOOLEAN, cash : {"unread", "shown", "failed"}, history : BOOLEAN]
NewBoard(byPAT) == [byPAT |-> byPAT, cash |-> "unread", history |-> FALSE]

PCs == {"first",      \* waits for the first message (tryLoginRemembered)
        "page",       \* in the event loop
        "wait",       \* polls for the answer
        "items",      \* polls for the items of a list
        "ended"}      \* the process ended abnormally

TypeOK ==
  /\ connected \in BOOLEAN /\ serverRuns \in BOOLEAN /\ pat \in BOOLEAN
  /\ up \in Seq(Request)
  /\ down \in Seq(Message) /\ in \in Seq(Message)
  /\ page \in {"login", "dashboard"}
  /\ todo \in Seq(Loads) /\ board \in Board
  /\ ui \in [pc : PCs, handler : Handlers, left : Counts, by : SUBSET (0..no)]
  /\ no \in Nat /\ clicks \in 0..MaxClicks
  /\ done \in [of : 0..no, by : SUBSET (0..no),
               verdict : {"none", "success", "failure", "loaded", "ignored", "lost"}]
  /\ accepted \subseteq 1..no /\ performed \subseteq 1..no

\* main() connects, then constructs Startup; ServerAccept is on its way.
Init ==
  /\ connected = TRUE /\ serverRuns = TRUE
  /\ up = <<>> /\ down = <<ServerAccept>> /\ in = <<>>
  /\ page = "login" /\ todo = <<>> /\ board = NewBoard(FALSE)
  /\ ui = [pc |-> IF Remembered THEN "first" ELSE "page",
           handler |-> LoginRemembered, left |-> 0, by |-> {}]
  /\ no = 0 /\ clicks = 0
  /\ pat = Remembered
  /\ done = [of |-> 0, by |-> {}, verdict |-> "none"]
  /\ accepted = {} /\ performed = {}

-----------------------------------------------------------------------------
(***************************************************************************)
(* The client: asking.                                                     *)
(***************************************************************************)

\* The name or the PAT a request is made under: what was typed or is in PAT.txt,
\* or the dashboard's own, whose usernameLoggedIn is empty (nobody's) until the
\* cash was read if it was opened with a PAT.  (A picture is added under the PAT
\* only as long as the name is empty.)
By(h) ==
  IF h \notin Loads \cup DashboardPage \/ h = Logout THEN "given"
  ELSE IF ~board.byPAT \/ (h = AddPicture /\ board.cash = "shown") THEN "name"
  ELSE IF "user" \in Range(h.pushes) THEN "PAT"
  ELSE IF board.cash = "shown" THEN "name" ELSE "nobody"
Sent(number, h) ==
  [of |-> number, handler |-> h, by |-> By(h), body |-> Push(<<>>, h.pushes)]

\* The first lines of every handler: Incoming().clear(), Send, wait.  (A
\* message that arrives between the first two might as well arrive after.)
Ask(h) ==
  /\ in' = <<>>
  /\ no' = no + 1
  /\ up' = IF connected THEN Append(up, Sent(no + 1, h)) ELSE up
  /\ ui' = [pc |-> "wait", handler |-> h, left |-> 0, by |-> {}]
  /\ UNCHANGED <<netVars, page, board, pat, done, accepted>>

MutantFirstMessage ==   \* does not wait for the first message
  /\ ui.pc = "first"
  /\ Ask(LoginRemembered)
  /\ UNCHANGED <<todo, clicks>>

\* tryLoginRemembered: waits for the first message, the server's ServerAccept,
\* before it asks.
FirstMessage ==
  /\ ui.pc = "first"
  /\ in # <<>>
  /\ Ask(LoginRemembered)
  /\ UNCHANGED <<todo, clicks>>

\* The connection is lost before a message came: it calls front() of an empty
\* deque, which is undefined; here it ends the client.
FirstLost ==
  /\ ui.pc = "first"
  /\ in = <<>> /\ ~connected
  /\ ui' = [ui EXCEPT !.pc = "ended"]
  /\ UNCHANGED <<netVars, up, in, page, todo, board, no, clicks, pat, done, accepted>>

\* The user presses a button.  (A dialog that stays open is tried again or left.)
Click(h) ==
  /\ ui.pc = "page" /\ todo = <<>>
  /\ h \in Buttons \cap Offered(page)
  /\ h = Logout => pat
  /\ clicks < MaxClicks
  /\ connected
  /\ clicks' = clicks + 1
  /\ Ask(h)
  /\ UNCHANGED todo

\* The constructor of Dashboard goes on.
NextLoad ==
  /\ ui.pc = "page" /\ todo # <<>>
  /\ connected
  /\ todo' = Tail(todo)
  /\ Ask(Head(todo))
  /\ UNCHANGED clicks

\* Client::getInstance, the first call of all of them, connects a client that
\* lost its connection again, which ends the process (see Connection).
Reconnect ==
  /\ ui.pc = "page"
  /\ ~connected
  /\ todo # <<>> \/ clicks < MaxClicks
  /\ ui' = [ui EXCEPT !.pc = "ended"]
  /\ UNCHANGED <<netVars, up, in, page, todo, board, no, clicks, pat, done, accepted>>

\* Logout without PAT.txt asks nothing.
LogoutForgotten ==
  /\ ui.pc = "page" /\ todo = <<>> /\ page = "dashboard"
  /\ Logout \in Buttons /\ ~pat
  /\ page' = "login"
  /\ UNCHANGED <<netVars, up, in, todo, board, ui, no, clicks, pat, done, accepted>>

-----------------------------------------------------------------------------
(***************************************************************************)
(* The client: the answer.                                                 *)
(***************************************************************************)
MutantAccepts(h, verdict) == h.shape = "dialog"   \* forgets the return

\* done(QDialog::Accepted) is reached unless the answer is a failure.
Accepts(h, verdict) == h.shape = "dialog" /\ verdict # "failure"

\* What a handler does once it knows how it ended: a login opens the dashboard
\* (after RememberMe, if the user ticked the box and PAT.txt did not exist),
\* a logout leaves it whatever the answer, a new card reloads the cards.
Proceed(h, verdict, keep) ==
  LET opens == h \in {Login, LoginRemembered} /\ verdict = "success"
      remembers == h = Login /\ opens /\ keep /\ ~pat
  IN  /\ page' = IF opens THEN "dashboard" ELSE IF h = Logout THEN "login" ELSE page
      /\ todo' = CASE opens /\ h = LoginRemembered     -> DashboardByPAT
                   [] opens /\ h = Login               -> DashboardByName
                   [] h = AddCard /\ Accepts(h, verdict) -> <<LoadCards>>
                   [] OTHER                            -> todo
      /\ pat' = ((pat \/ remembers) /\ h # Logout)
      /\ no' = IF remembers THEN no + 1 ELSE no
      /\ up' = IF remembers /\ connected
                 THEN Append(up, Sent(no + 1, RememberMe)) ELSE up

\* What the dashboard knows after a load; a new one knows nothing.
Learns(h, verdict) ==
  CASE h \in {Login, LoginRemembered} /\ verdict = "success" ->
         NewBoard(h = LoginRemembered)
    [] h = LoadCash -> [board EXCEPT !.cash = IF verdict = "success" THEN "shown"
                                                                   ELSE "failed"]
    [] OTHER -> board

\* init_statistics, after the last load: with transactions to show it converts
\* the cash to a number, std::stof of "" if it was not read, which ends the client.
StatisticsThrow(h) == h = LoadBudgets /\ board.history /\ board.cash # "shown"

Return(verdict, by) ==
  /\ ui' = [ui EXCEPT !.pc = IF StatisticsThrow(ui.handler) THEN "ended" ELSE "page",
                      !.left = 0, !.by = {}]
  /\ done' = [of |-> no, by |-> by, verdict |-> verdict]
  /\ accepted' = IF Accepts(ui.handler, verdict) THEN accepted \cup {no} ELSE accepted
  /\ board' = Learns(ui.handler, verdict)
  /\ \E keep \in BOOLEAN : Proceed(ui.handler, verdict, keep)
  /\ UNCHANGED <<netVars, clicks>>

Waiting(shapes) == ui.pc = "wait" /\ ui.handler.shape \in shapes /\ in # <<>>
Matches(m) == m.id = ui.handler.answer

\* msg >> responseBack: other bytes are none of the texts it is compared with.
ReadResponse(m) == IF Reads(m.body, Response) THEN m.what ELSE "ignored"

\* The handlers that take one message.
TakeAnswer ==
  /\ Waiting({"single", "dialog"})
  /\ in' = Tail(in)
  /\ IF Matches(Head(in)) THEN Return(ReadResponse(Head(in)), {Head(in).of})
                          ELSE Return("ignored", {})

MutantReadCount(m) ==
  IF Reads(m.body, Count) THEN {IF m.n = 0 THEN 0 ELSE m.n - 1} ELSE Garbage

\* msg >> cardsToCome: of a text these are four bytes nobody wrote.
ReadCount(m) == IF Reads(m.body, Count) THEN {m.n} ELSE Garbage

\* The list handlers take the count; it stays zero if the id is another.
TakeCount ==
  /\ Waiting({"list", "listIfAny"})
  /\ in' = Tail(in)
  /\ LET m == Head(in)
         by == IF Matches(m) THEN {m.of} ELSE {}
     IN  \E n \in IF Matches(m) THEN ReadCount(m) ELSE {0} :
           IF ui.handler.shape = "listIfAny" /\ n <= 0
             THEN Return("loaded", by)
             ELSE /\ ui' = [ui EXCEPT !.pc = "items", !.left = n, !.by = by]
                  /\ UNCHANGED <<netVars, up, page, todo, board, no, clicks, pat,
                                 done, accepted>>

MutantTakeItem ==   \* counts every item twice
  /\ ui.pc = "items" /\ ui.left # 0 /\ in # <<>>
  /\ in' = Tail(in)
  /\ ui' = IF Matches(Head(in))
             THEN [ui EXCEPT !.left = @ - 2, !.by = @ \cup {Head(in).of}] ELSE ui
  /\ UNCHANGED <<netVars, up, page, todo, board, no, clicks, pat, done, accepted>>

TakeItem ==
  /\ ui.pc = "items" /\ ui.left # 0 /\ in # <<>>
  /\ in' = Tail(in)
  /\ IF Matches(Head(in))
       THEN /\ ui' = [ui EXCEPT !.left = @ - 1, !.by = @ \cup {Head(in).of}]
            /\ board' = [board EXCEPT !.history = @ \/ ui.handler = LoadTranzactions]
       ELSE UNCHANGED <<ui, board>>
  /\ UNCHANGED <<netVars, up, page, todo, no, clicks, pat, done, accepted>>

LastItem ==
  /\ ui.pc = "items" /\ ui.left = 0
  /\ Return("loaded", ui.by)
  /\ UNCHANGED in

MutantLost ==   \* the loop that reads the items does not test IsConnected()
  /\ ui.pc = "wait" /\ ~connected
  /\ Return("lost", {})
  /\ UNCHANGED in

\* Both loops give up when the connection is lost, even if messages came
\* between the test of the queue and the test of the connection.
Lost ==
  /\ ui.pc \in {"wait", "items"} /\ ~connected
  /\ Return("lost", {})
  /\ UNCHANGED in

-----------------------------------------------------------------------------
(***************************************************************************)
(* The network and the server.                                             *)
(***************************************************************************)
clientVars == <<page, todo, board, ui, no, clicks, pat, done, accepted>>

Arrive ==
  /\ connected /\ down # <<>>
  /\ in' = Append(in, Head(down))
  /\ down' = Tail(down)
  /\ UNCHANGED <<connected, serverRuns, up, performed, clientVars>>

Break ==
  /\ connected
  /\ connected' = FALSE
  /\ down' = <<>>
  /\ UNCHANGED <<serverRuns, up, in, performed, clientVars>>

\* The oldest request, and the message that answers it.
Asked == Head(up)
Asks(shapes) == serverRuns /\ up # <<>> /\ Asked.handler.shape \in shapes
\* msg << fields: upon what the case has left of the request.
Reply(what, n, fields) ==
  [id |-> Asked.handler.answer, of |-> Asked.of, what |-> what, n |-> n,
   body |-> Push(Pop(Asked.body, Asked.handler.case.pops), fields)]

\* The server's main() takes the oldest request and sends the answers.
Served(answers) ==
  /\ up' = Tail(up)
  /\ down' = IF connected THEN down \o answers ELSE down
  /\ UNCHANGED <<connected, serverRuns, in, clientVars>>

\* The handlers that answer once: the outcome depends on the database and on
\* the arguments.  The cash is answered with the same fields, whatever is in
\* them, also after an error.
AnswerOnce ==
  \E what \in {"success", "failure"} :
    /\ Asks({"single", "dialog"})
    /\ Served(<<Reply(what, 0, IF what = "failure" /\ Asked.handler = LoadBudgets
                                THEN Response ELSE Asked.handler.case.pushes)>>)
    /\ performed' = IF what = "success" /\ Asked.handler.shape = "dialog"
                      THEN performed \cup {Asked.of} ELSE performed

\* The handlers that answer with a count and the items, each pushed upon the
\* one before in the same message ...
Items(k) ==
  LET item == Asked.handler.case.pushes
  IN  [i \in 1..k * Len(item) |-> item[1 + ((i - 1) % Len(item))]]
AnswerList ==
  \E n \in 0..MaxItems :
    /\ Asks({"list", "listIfAny"})
    /\ Asked.by = "nobody" => n = 0
    /\ Served([k \in 1..n + 1 |->
                 IF k = 1 THEN Reply("count", n, Count)
                          ELSE Reply("item", k - 1, Count \o Items(k - 1))])
    /\ UNCHANGED performed

\* ... or, after an error, with a text of the same id.
AnswerListFailed ==
  /\ Asks({"list", "listIfAny"})
  /\ Served(<<Reply("failure", 0, Response)>>)
  /\ UNCHANGED performed

\* RememberMe is answered only if the user is not found.  He logged in a moment
\* ago and no user is ever removed: his query finds nothing only if it was not
\* executed, which ExecuteQuery does not report.
AnswerRememberMe ==
  /\ Asks({"unanswered"})
  /\ \/ Served(<<>>)
     \/ ~QueriesExecute /\ Served(<<Reply("failure", 0, Response)>>)
  /\ UNCHANGED performed

\* An error of the database the handler does not catch leaves main(): the
\* server ends and its connections with it.
Crash ==
  /\ serverRuns /\ up # <<>>
  /\ Asked.handler.case.catches = "named"
  /\ serverRuns' = FALSE
  /\ connected' = FALSE
  /\ down' = <<>>
  /\ UNCHANGED <<up, in, performed, clientVars>>

Handle ==
  \/ FirstMessage \/ FirstLost
  \/ TakeAnswer \/ TakeCount \/ TakeItem \/ LastItem
  \/ Lost
Serve ==
  \/ AnswerOnce \/ AnswerList \/ AnswerListFailed \/ AnswerRememberMe \/ Crash

Next ==
  \/ \E h \in Buttons : Click(h)
  \/ NextLoad \/ Reconnect \/ LogoutForgotten
  \/ Handle
  \/ Arrive \/ Break
  \/ Serve

\* The UI thread, the asio thread, the network and the server's main() go on;
\* the user owes nothing.
Fairness ==
  /\ WF_reqVars(Handle)
  /\ WF_reqVars(Arrive)
  /\ WF_reqVars(Serve)

Spec == Init /\ [][Next]_reqVars /\ Fairness

-----------------------------------------------------------------------------
(***************************************************************************)
(* Properties.                                                             *)
(***************************************************************************)

\* A message a handler acts upon answers the request it sent: "server has
\* responded to register request" (startup.cpp:574), and so in all of them.
\* Nothing but the order of the messages makes sure of it.
OwnAnswer ==
  done.verdict \in {"success", "failure", "loaded"} => done.by = {done.of}

\* Between two handlers the conversation is over: no request, no answer and no
\* item of a list is under way that the next handler could meet, RememberMe
\* alone excepted, to which nothing comes back (startup.cpp:657-659).
Quiescent ==
  ui.pc = "page" /\ connected =>
    /\ \A k \in 1..Len(up) : up[k].handler = RememberMe
    /\ down = <<>> /\ in = <<>>

\* While the connection lasts, a dialog that closes with Accepted, after which
\* the dashboard changes its own copy of the data, was performed by the server
\* (dashboard.cpp:324-444).
AcceptedIsPerformed == connected => accepted \subseteq performed

\* Every variable gets the field it is meant for, and no field is left over:
\* what the client pushes (Client.cpp) the server's case pops, what the server
\* pushes, a list upon one growing body, the handler pops.  Only the failure of
\* a list has another shape than what is read (see HandlersReturn).
ReadAsWritten ==
  /\ \A k \in 1..Len(up) :
       LET pops == up[k].handler.case.pops
       IN  Reads(up[k].body, pops) /\ Pop(up[k].body, pops) = <<>>
  /\ \A m \in Range(down \o in), h \in Handlers :
       m.id = h.answer => CASE m.what = "count" -> Reads(m.body, Count)
                            [] m.what \in {"success", "item"} -> Reads(m.body, h.reads)
                            [] OTHER -> Reads(m.body, Response)

\* A request is made in somebody's name: a dashboard that was opened with a PAT
\* asks by username only after the load of the cash told it which, unless that
\* load failed (dashboard.cpp:27-42 and 182).
AskedInAName ==
  \A k \in 1..Len(up) : up[k].by = "nobody" => board.cash # "unread"

\* A handler returns to the event loop, whatever becomes of the network and of
\* the server: the window does not freeze.  (It does if a list failed and the
\* text of the failure was read as a count.)
Misread == ui.pc = "items" /\ ui.left \notin 0..MaxItems
HandlersReturn ==
  ui.pc \in {"wait", "items"} ~> ui.pc \notin {"wait", "items"} \/ Misread
=============================================================================
