------------------------ MODULE ClientRequestProofs ------------------------
(***************************************************************************)
(* Theorems about ClientRequest for any buttons and bounds, of a client    *)
(* that finds PAT.txt when it starts and a database that executes its      *)
(* queries (Orderly; MCClientRequestNew shows what happens without the     *)
(* file).  The conversation is then one of question and answer: the        *)
(* handler's request is the last one sent and nothing is under way to the  *)
(* client, or nothing but its answer is.                                   *)
(***************************************************************************)
EXTENDS ClientRequest, SequenceTheorems, TLAPS

\* PAT.txt is there and every query is executed.
Orderly == Remembered /\ QueriesExecute

Singles == {"single", "dialog"}
Lists == {"list", "listIfAny"}

\* What is under way to the handler, the oldest first.
Flow == in \o down

\* m is an answer to h, as h reads it.
Written(m, h) ==
  /\ m.id = h.answer
  /\ h.shape \in Singles => m.what \in {"success", "failure"}
  /\ m.what = "count" => Reads(m.body, Count)
  /\ m.what \in {"success", "item"} => Reads(m.body, h.reads)
  /\ m.what = "failure" => Reads(m.body, Response)

\* The requests under way are RememberMe's and those of the handler that ran last.
Requests ==
  \A k \in 1..Len(up) :
    /\ up[k].of \in 1..no /\ up[k].handler \in {RememberMe, ui.handler}
    /\ up[k].body = Push(<<>>, up[k].handler.pushes)
    /\ up[k].by = "nobody" =>
         up[k].handler \in Loads \cup DashboardPage /\ board.cash # "unread"

\* What comes to the client is ServerAccept, and then answers to that handler.
Arrivals ==
  /\ ~connected => down = <<>>
  /\ ui.pc = "first" => up = <<>> /\ no = 0
  /\ ui.pc \in {"wait", "items"} => no > 0
  /\ \A k \in 1..Len(Flow) :
       /\ ui.pc = "first" => Flow[k] = ServerAccept
       /\ ui.pc # "first" => Written(Flow[k], ui.handler)
       /\ ui.pc \in {"wait", "items"} => Flow[k].of = no

\* Never more items come than were counted.
Counted ==
  /\ ui.pc = "wait" /\ ui.handler.shape \in Lists /\ Flow # <<>> =>
       Len(Flow) = 1 \/ (Flow[1].what = "count" /\ Len(Flow) <= Flow[1].n + 1)
  /\ ui.pc = "items" =>
       /\ ui.by = {no} /\ ui.handler.shape \in Lists
       /\ Flow = <<>> \/ (ui.left \in 1..MaxItems /\ Len(Flow) <= ui.left)

\* While the connection lasts, the handler waits for the server, or all of its
\* answer is under way.
OnlyRememberMe == \A k \in 1..Len(up) : up[k].handler = RememberMe
Outstanding ==
  /\ Flow = <<>> /\ up # <<>>
  /\ up[Len(up)].of = no /\ up[Len(up)].handler = ui.handler
  /\ \A k \in 1..Len(up) : k < Len(up) => up[k].handler = RememberMe
Answered ==
  /\ OnlyRememberMe /\ Flow # <<>>
  /\ ui.handler.shape \in Singles => Len(Flow) = 1
  /\ ui.handler.shape \in Lists =>
       Len(Flow) = 1 \/ (Flow[1].what = "count" /\ Len(Flow) = Flow[1].n + 1)
  /\ ui.handler.shape = "dialog" /\ Flow[1].what = "success" => no \in performed
Conversation ==
  connected =>
    /\ ui.pc = "first" => Len(Flow) = 1
    /\ ui.pc \in {"page", "ended"} => OnlyRememberMe /\ Flow = <<>>
    /\ ui.pc = "wait" => Outstanding \/ Answered
    /\ ui.pc = "items" => OnlyRememberMe /\ (Flow = <<>> \/ Len(Flow) = ui.left)
    /\ accepted \subseteq performed

\* A dashboard opened with a PAT loads the cash before anything else.
FirstLoad ==
  connected /\ board.byPAT /\ board.cash = "unread" =>
    \/ ui.pc = "page" /\ todo = DashboardByPAT
    \/ ui.pc = "wait" /\ ui.handler = LoadCash

IInv ==
  TypeOK /\ Requests /\ Arrivals /\ Counted /\ Conversation /\ FirstLoad /\ OwnAnswer

-----------------------------------------------------------------------------
\* Whatever was below stays there, and is there again when the fields are
\* read: what makes it safe that the server answers in the message it was sent.
THEOREM ReadBack ==
  ASSUME NEW S, NEW body \in Seq(S), NEW fields \in Seq(S)
  PROVE  /\ Reads(Push(body, fields), Reversed(fields))
         /\ Pop(Push(body, fields), Reversed(fields)) = body
<1> DEFINE whole == body \o fields
           variables == Reversed(fields)
<1>1. /\ whole \in Seq(S)
      /\ Len(whole) = Len(body) + Len(fields)
      /\ \A k \in 1..Len(fields) : whole[Len(body) + k] = fields[k]
      /\ \A k \in 1..Len(body) : whole[k] = body[k]
  OBVIOUS
<1>2. Len(variables) = Len(fields)
  BY DEF Reversed
<1>3. ASSUME NEW k \in 1..Len(variables)
      PROVE  Top(whole, k) = variables[k]
  <2>1. Len(fields) + 1 - k \in 1..Len(fields)
    BY <1>2
  <2>2. whole[Len(body) + (Len(fields) + 1 - k)] = fields[Len(fields) + 1 - k]
    BY <1>1, <2>1
  <2>3. Len(body) + (Len(fields) + 1 - k) = Len(whole) + 1 - k
    BY <1>1, <1>2
  <2> QED
    BY <1>2, <2>2, <2>3 DEF Top, Reversed
<1>4. Reads(whole, variables)
  BY <1>1, <1>2, <1>3 DEF Reads
<1>5. SubSeq(whole, 1, Len(whole) - Len(variables)) = body
  BY <1>1, <1>2
<1> QED
  BY <1>4, <1>5 DEF Push, Pop

\* Two queues one after the other.
LEMMA Queues ==
  ASSUME NEW S, NEW s \in Seq(S), NEW t \in Seq(S)
  PROVE  /\ s \o t \in Seq(S) /\ Len(s \o t) = Len(s) + Len(t)
         /\ s \o t = <<>> <=> s = <<>> /\ t = <<>>
         /\ \A k \in 1..Len(s) : (s \o t)[k] = s[k]
         /\ s \o <<>> = s /\ <<>> \o t = t
         /\ t # <<>> => Append(s, Head(t)) \o Tail(t) = s \o t
         /\ s # <<>> => Tail(s) \o t = Tail(s \o t) /\ (s \o t)[1] = Head(s)
<1>1. /\ s \o t \in Seq(S) /\ Len(s \o t) = Len(s) + Len(t)
      /\ \A k \in 1..Len(s) + Len(t) :
           (s \o t)[k] = IF k <= Len(s) THEN s[k] ELSE t[k - Len(s)]
  BY ConcatProperties
<1>2. s \o <<>> = s /\ <<>> \o t = t
  BY ConcatEmptySeq
<1>3. s \o t = <<>> <=> s = <<>> /\ t = <<>>
  BY ConcatEqualIffEmpty
<1>4. \A k \in 1..Len(s) : (s \o t)[k] = s[k]
  BY <1>1, LenProperties
<1>5. ASSUME t # <<>> PROVE Append(s, Head(t)) \o Tail(t) = s \o t
  <2>1. Head(t) \in S /\ Tail(t) \in Seq(S)
    BY <1>5, HeadTailProperties
  <2>2. Append(s, Head(t)) = s \o <<Head(t)>>
    BY <2>1, AppendIsConcat
  <2>3. <<Head(t)>> \in Seq(S)
    BY <2>1
  <2>4. (s \o <<Head(t)>>) \o Tail(t) = s \o (<<Head(t)>> \o Tail(t))
    BY <2>1, <2>3, ConcatAssociative
  <2>5. <<Head(t)>> \o Tail(t) = t
    <3>1. /\ <<Head(t)>> \o Tail(t) \in Seq(S)
          /\ Len(<<Head(t)>> \o Tail(t)) = 1 + Len(Tail(t))
          /\ \A k \in 1..1 + Len(Tail(t)) :
               (<<Head(t)>> \o Tail(t))[k] = IF k <= 1 THEN Head(t) ELSE Tail(t)[k - 1]
      BY <2>1, <2>3, ConcatProperties
    <3>2. Len(t) = 1 + Len(Tail(t)) /\ Len(t) \in Nat /\ Head(t) = t[1]
          /\ \A k \in 1..Len(Tail(t)) : Tail(t)[k] = t[k + 1]
      BY <1>5, HeadTailProperties, LenProperties
    <3>3. \A k \in 1..Len(t) : (<<Head(t)>> \o Tail(t))[k] = t[k]
      BY <3>1, <3>2
    <3>4. QED BY <3>1, <3>2, <3>3, SeqEqual
  <2>6. QED BY <2>2, <2>4, <2>5
<1>6. ASSUME s # <<>> PROVE Tail(s) \o t = Tail(s \o t) /\ (s \o t)[1] = Head(s)
  <2>1. Tail(s) \in Seq(S) /\ Len(s) = 1 + Len(Tail(s)) /\ Len(s) \in Nat /\ Len(t) \in Nat
        /\ Len(Tail(s)) \in Nat /\ \A k \in 1..Len(Tail(s)) : Tail(s)[k] = s[k + 1]
    BY <1>6, HeadTailProperties, LenProperties
  <2>2. s \o t # <<>>
    BY <1>3, <1>6
  <2>3. Tail(s \o t) \in Seq(S) /\ Len(Tail(s \o t)) = Len(s) + Len(t) - 1
        /\ \A k \in 1..Len(Tail(s \o t)) : Tail(s \o t)[k] = (s \o t)[k + 1]
    BY <1>1, <2>2, HeadTailProperties
  <2>4. Tail(s) \o t \in Seq(S) /\ Len(Tail(s) \o t) = Len(Tail(s)) + Len(t)
        /\ \A k \in 1..Len(Tail(s)) + Len(t) :
             (Tail(s) \o t)[k] =
               IF k <= Len(Tail(s)) THEN Tail(s)[k] ELSE t[k - Len(Tail(s))]
    BY <2>1, ConcatProperties
  <2>5. ASSUME NEW k \in 1..Len(Tail(s) \o t) PROVE (Tail(s) \o t)[k] = Tail(s \o t)[k]
    <3>1. k + 1 \in 1..Len(s) + Len(t) /\ Tail(s \o t)[k] = (s \o t)[k + 1]
      BY <2>1, <2>3, <2>4
    <3>2. CASE k <= Len(Tail(s))
      BY <1>1, <2>1, <2>4, <3>1, <3>2
    <3>3. CASE ~(k <= Len(Tail(s)))
      <4>1. ~(k + 1 <= Len(s)) /\ k + 1 - Len(s) = k - Len(Tail(s))
        BY <2>1, <3>3
      <4>2. QED BY <1>1, <2>1, <2>4, <3>1, <3>3, <4>1
    <3>4. QED BY <3>2, <3>3
  <2>6. Len(Tail(s) \o t) = Len(Tail(s \o t))
    BY <2>1, <2>3, <2>4
  <2>7. (s \o t)[1] = Head(s)
    BY <1>1, <2>1, <1>6
  <2>8. Tail(s) \o t = Tail(s \o t)
    BY <2>3, <2>4, <2>5, <2>6, SeqEqual
  <2>9. QED BY <2>7, <2>8
<1>7. QED BY <1>1, <1>2, <1>3, <1>4, <1>5, <1>6

-----------------------------------------------------------------------------
(***************************************************************************)
(* The handlers one by one: what each pushes is what its case pops, what   *)
(* the case pushes is what the handler reads.                              *)
(***************************************************************************)
IsSeq(t) == t = [k \in 1..Len(t) |-> t[k]] /\ Len(t) \in Nat

RequestFits(h) == IsSeq(h.pushes) /\ h.case.pops = Reversed(h.pushes)
AnswerFits(h) ==
  /\ IsSeq(h.case.pushes) /\ IsSeq(h.reads)
  /\ h.reads = Reversed(h.case.pushes)
  /\ h.shape \in {"single", "dialog", "list", "listIfAny"}
  /\ h.shape \in {"single", "dialog"} =>
       /\ Len(h.case.pushes) \in Nat \ {0}
       /\ h.case.pushes[Len(h.case.pushes)] = "responseBack"
  /\ h.shape = "dialog" => h.case.pushes = Response
  /\ h.shape \in {"list", "listIfAny"} => Len(h.case.pushes) \in {5, 6, 7, 10}

\* All handlers of the client, by name.
LEMMA AllHandlers ==
  /\ Loads = {LoadCash, LoadCards, LoadRecurencies, LoadTranzactions, LoadSavings,
              LoadBudgets}
  /\ Handlers =
       {LoginRemembered, Login, Register, ForgotPassword, ValidateCode,
        UpdatePassword, LoadCash, LoadCards, LoadRecurencies,
        LoadTranzactions, LoadSavings, LoadBudgets, Logout, AddPicture,
        SavePreferences, SetBudget, DeleteBudget, AddCard, EditCard, AddFunds,
        RechargeCash, AddSpendings, AddIncome, AddOutcome, AddSaving,
        AddFundsToSaving}
<1>1. Loads = {LoadCash, LoadCards, LoadRecurencies, LoadTranzactions, LoadSavings,
               LoadBudgets}
  BY DEF Loads, DashboardByPAT
<1>2. QED BY <1>1 DEF Handlers, LoginPage, DashboardPage

\* Every request is read as it was written.
LEMMA Requested == \A h \in Handlers \cup {RememberMe} : RequestFits(h)
<1>1. RequestFits(LoginRemembered)
  BY DEF LoginRemembered, Single, Handler, LoginUserRememberedPush,
     OnLoginRemembered, Case, RequestFits, IsSeq, Reversed
<1>2. RequestFits(Login)
  BY DEF Login, Single, Handler, LoginUserPush, OnLogin, Case, RequestFits, IsSeq,
     Reversed
<1>3. RequestFits(Register)
  BY DEF Register, Single, Handler, RegisterPush, OnRegister, Case, RequestFits,
     IsSeq, Reversed
<1>4. RequestFits(ForgotPassword)
  BY DEF ForgotPassword, Single, Handler, SendEmailForgotPasswordPush,
     OnSendEmailForgotPassword, Case, RequestFits, IsSeq, Reversed
<1>5. RequestFits(ValidateCode)
  BY DEF ValidateCode, Single, Handler, ValidateMySixDigitCodePush,
     OnVerifyCodeForgotPassword, Case, RequestFits, IsSeq, Reversed
<1>6. RequestFits(UpdatePassword)
  BY DEF UpdatePassword, Single, Handler, UpdatePasswordPush, OnUpdatePassword,
     Case, RequestFits, IsSeq, Reversed
<1>7. RequestFits(LoadCash)
  BY DEF LoadCash, Handler, GetCashDetailsPush, OnGetCash, Case, RequestFits, IsSeq,
     Reversed
<1>8. RequestFits(LoadCards)
  BY DEF LoadCards, Handler, GetCardsDetailsPush, OnGetCard, Case, RequestFits,
     IsSeq, Reversed
<1>9. RequestFits(LoadRecurencies)
  BY DEF LoadRecurencies, Handler, GetRecurenciesPush, OnUserGetRecurencies, Case,
     RequestFits, IsSeq, Reversed
<1>10. RequestFits(LoadTranzactions)
  BY DEF LoadTranzactions, Handler, GetTranzactionsPush, OnGetTranzactions, Case,
     RequestFits, IsSeq, Reversed
<1>11. RequestFits(LoadSavings)
  BY DEF LoadSavings, Handler, GetSavingsPush, OnGetSavings, Case, RequestFits,
     IsSeq, Reversed
<1>12. RequestFits(LoadBudgets)
  BY DEF LoadBudgets, Handler, GetBudgetPush, OnGetBudget, Case, RequestFits, IsSeq,
     Reversed
<1>13. RequestFits(Logout)
  BY DEF Logout, Single, Handler, LogoutWithRememberMePush, OnLogoutRemembered,
     Case, RequestFits, IsSeq, Reversed
<1>14. RequestFits(AddPicture)
  BY DEF AddPicture, Single, Handler, AddPicturePush, OnAddPicture, Case,
     RequestFits, IsSeq, Reversed
<1>15. RequestFits(SavePreferences)
  BY DEF SavePreferences, Single, Handler, AddPreferencesPush, OnAddPreferences,
     Case, RequestFits, IsSeq, Reversed
<1>16. RequestFits(SetBudget)
  BY DEF SetBudget, Single, Handler, AddBudgetPush, OnAddBudget, Case, RequestFits,
     IsSeq, Reversed
<1>17. RequestFits(DeleteBudget)
  BY DEF DeleteBudget, Single, Handler, DeleteBudgetPush, OnDeleteBudget, Case,
     RequestFits, IsSeq, Reversed
<1>18. RequestFits(AddCard)
  BY DEF AddCard, Dialog, Handler, AddCardPush, card, OnAddCard, Case, cardRead,
     RequestFits, IsSeq, Reversed
<1>19. RequestFits(EditCard)
  BY DEF EditCard, Dialog, Handler, EditCardPush, card, OnEditCard, Case, cardRead,
     RequestFits, IsSeq, Reversed
<1>20. RequestFits(AddFunds)
  BY DEF AddFunds, Dialog, Handler, AddCardFundsPush, OnAddCardFunds, Case,
     RequestFits, IsSeq, Reversed
<1>21. RequestFits(RechargeCash)
  BY DEF RechargeCash, Dialog, Handler, AddCashPush, OnAddCash, Case, RequestFits,
     IsSeq, Reversed
<1>22. RequestFits(AddSpendings)
  BY DEF AddSpendings, Dialog, Handler, AddSpendingsPush, OnAddSpending, Case,
     RequestFits, IsSeq, Reversed
<1>23. RequestFits(AddIncome)
  BY DEF AddIncome, Dialog, Handler, AddIncomePush, OnAddIncome, Case, RequestFits,
     IsSeq, Reversed
<1>24. RequestFits(AddOutcome)
  BY DEF AddOutcome, Dialog, Handler, AddOutcomePush, OnAddOutcome, Case,
     RequestFits, IsSeq, Reversed
<1>25. RequestFits(AddSaving)
  BY DEF AddSaving, Dialog, Handler, AddSavingPush, OnAddSaving, Case, RequestFits,
     IsSeq, Reversed
<1>26. RequestFits(AddFundsToSaving)
  BY DEF AddFundsToSaving, Dialog, Handler, AddFundsToSavingPush,
     OnAddFundsToSaving, Case, RequestFits, IsSeq, Reversed
<1>27. RequestFits(RememberMe)
  BY DEF RememberMe, Handler, RememberMePush, OnRememberMe, Case, RequestFits,
     IsSeq, Reversed
<1>28. QED
  BY <1>1, <1>2, <1>3, <1>4, <1>5, <1>6, <1>7, <1>8, <1>9, <1>10, <1>11,
     <1>12, <1>13, <1>14, <1>15, <1>16, <1>17, <1>18, <1>19, <1>20, <1>21,
     <1>22, <1>23, <1>24, <1>25, <1>26, <1>27, AllHandlers

\* A single message with the outcome is read as it was written.
LEMMA PlainResponse ==
  /\ IsSeq(Response) /\ Len(Response) = 1 /\ Response[1] = "responseBack"
  /\ Response = Reversed(Response)
<1>1. Len(Response) = 1 /\ Response[1] = "responseBack" /\ IsSeq(Response)
  BY DEF Response, IsSeq
<1>2. Response = Reversed(Response)
  BY DEF Response, Reversed
<1>3. QED BY <1>1, <1>2

\* Every answer is read as it was written.
LEMMA Answering == \A h \in Handlers : AnswerFits(h)
<1>1. AnswerFits(LoginRemembered)
  BY PlainResponse DEF LoginRemembered, Single, Handler, OnLoginRemembered, Case,
     AnswerFits
<1>2. AnswerFits(Login)
  BY PlainResponse DEF Login, Single, Handler, OnLogin, Case, AnswerFits
<1>3. AnswerFits(Register)
  BY PlainResponse DEF Register, Single, Handler, OnRegister, Case, AnswerFits
<1>4. AnswerFits(ForgotPassword)
  BY PlainResponse DEF ForgotPassword, Single, Handler, OnSendEmailForgotPassword,
     Case, AnswerFits
<1>5. AnswerFits(ValidateCode)
  BY PlainResponse DEF ValidateCode, Single, Handler, OnVerifyCodeForgotPassword,
     Case, AnswerFits
<1>6. AnswerFits(UpdatePassword)
  BY PlainResponse DEF UpdatePassword, Single, Handler, OnUpdatePassword, Case,
     AnswerFits
<1>7. AnswerFits(LoadCash)
  <2>1. IsSeq(LoadCash.case.pushes) /\ IsSeq(LoadCash.reads)
    BY DEF LoadCash, Handler, OnGetCash, Case, IsSeq, Response
  <2>2. /\ Len(LoadCash.case.pushes) = 11 /\ Len(LoadCash.reads) = 11
        /\ \A k \in 1..11 : LoadCash.reads[k] = LoadCash.case.pushes[12 - k]
    BY DEF LoadCash, Handler, OnGetCash, Case, Response
  <2>3. LoadCash.reads = Reversed(LoadCash.case.pushes)
    BY <2>1, <2>2 DEF IsSeq, Reversed
  <2>4. LoadCash.shape = "single" /\ LoadCash.case.pushes[11] = "responseBack"
    BY DEF LoadCash, Handler, OnGetCash, Case, Response
  <2>5. QED BY <2>1, <2>2, <2>3, <2>4 DEF AnswerFits
<1>8. AnswerFits(LoadCards)
  <2>1. IsSeq(LoadCards.case.pushes) /\ IsSeq(LoadCards.reads)
    BY DEF LoadCards, Handler, OnGetCard, Case, IsSeq
  <2>2. /\ Len(LoadCards.case.pushes) = 6 /\ Len(LoadCards.reads) = 6
        /\ \A k \in 1..6 : LoadCards.reads[k] = LoadCards.case.pushes[7 - k]
    BY DEF LoadCards, Handler, OnGetCard, Case
  <2>3. LoadCards.reads = Reversed(LoadCards.case.pushes)
    BY <2>1, <2>2 DEF IsSeq, Reversed
  <2>4. LoadCards.shape = "list"
    BY DEF LoadCards, Handler
  <2>5. QED BY <2>1, <2>2, <2>3, <2>4 DEF AnswerFits
<1>9. AnswerFits(LoadRecurencies)
  <2>1. IsSeq(LoadRecurencies.case.pushes) /\ IsSeq(LoadRecurencies.reads)
    BY DEF LoadRecurencies, Handler, OnUserGetRecurencies, Case, IsSeq
  <2>2. /\ Len(LoadRecurencies.case.pushes) = 7 /\ Len(LoadRecurencies.reads) = 7
        /\ \A k \in 1..7 : LoadRecurencies.reads[k] = LoadRecurencies.case.pushes[8 - k]
    BY DEF LoadRecurencies, Handler, OnUserGetRecurencies, Case
  <2>3. LoadRecurencies.reads = Reversed(LoadRecurencies.case.pushes)
    BY <2>1, <2>2 DEF IsSeq, Reversed
  <2>4. LoadRecurencies.shape = "list"
    BY DEF LoadRecurencies, Handler
  <2>5. QED BY <2>1, <2>2, <2>3, <2>4 DEF AnswerFits
<1>10. AnswerFits(LoadTranzactions)
  <2>1. IsSeq(LoadTranzactions.case.pushes) /\ IsSeq(LoadTranzactions.reads)
    BY DEF LoadTranzactions, Handler, OnGetTranzactions, Case, IsSeq
  <2>2. /\ Len(LoadTranzactions.case.pushes) = 10 /\ Len(LoadTranzactions.reads) = 10
        /\ \A k \in 1..10 : LoadTranzactions.reads[k] = LoadTranzactions.case.pushes[11 - k]
    BY DEF LoadTranzactions, Handler, OnGetTranzactions, Case
  <2>3. LoadTranzactions.reads = Reversed(LoadTranzactions.case.pushes)
    BY <2>1, <2>2 DEF IsSeq, Reversed
  <2>4. LoadTranzactions.shape = "listIfAny"
    BY DEF LoadTranzactions, Handler
  <2>5. QED BY <2>1, <2>2, <2>3, <2>4 DEF AnswerFits
<1>11. AnswerFits(LoadSavings)
  <2>1. IsSeq(LoadSavings.case.pushes) /\ IsSeq(LoadSavings.reads)
    BY DEF LoadSavings, Handler, OnGetSavings, Case, IsSeq
  <2>2. /\ Len(LoadSavings.case.pushes) = 5 /\ Len(LoadSavings.reads) = 5
        /\ \A k \in 1..5 : LoadSavings.reads[k] = LoadSavings.case.pushes[6 - k]
    BY DEF LoadSavings, Handler, OnGetSavings, Case
  <2>3. LoadSavings.reads = Reversed(LoadSavings.case.pushes)
    BY <2>1, <2>2 DEF IsSeq, Reversed
  <2>4. LoadSavings.shape = "listIfAny"
    BY DEF LoadSavings, Handler
  <2>5. QED BY <2>1, <2>2, <2>3, <2>4 DEF AnswerFits
<1>12. AnswerFits(LoadBudgets)
  <2>1. IsSeq(LoadBudgets.case.pushes) /\ IsSeq(LoadBudgets.reads)
    BY DEF LoadBudgets, Handler, OnGetBudget, Case, IsSeq, Response
  <2>2. /\ Len(LoadBudgets.case.pushes) = 4 /\ Len(LoadBudgets.reads) = 4
        /\ \A k \in 1..4 : LoadBudgets.reads[k] = LoadBudgets.case.pushes[5 - k]
    BY DEF LoadBudgets, Handler, OnGetBudget, Case, Response
  <2>3. LoadBudgets.reads = Reversed(LoadBudgets.case.pushes)
    BY <2>1, <2>2 DEF IsSeq, Reversed
  <2>4. LoadBudgets.shape = "single" /\ LoadBudgets.case.pushes[4] = "responseBack"
    BY DEF LoadBudgets, Handler, OnGetBudget, Case, Response
  <2>5. QED BY <2>1, <2>2, <2>3, <2>4 DEF AnswerFits
<1>13. AnswerFits(Logout)
  BY PlainResponse DEF Logout, Single, Handler, OnLogoutRemembered, Case, AnswerFits
<1>14. AnswerFits(AddPicture)
  BY PlainResponse DEF AddPicture, Single, Handler, OnAddPicture, Case, AnswerFits
<1>15. AnswerFits(SavePreferences)
  BY PlainResponse DEF SavePreferences, Single, Handler, OnAddPreferences, Case,
     AnswerFits
<1>16. AnswerFits(SetBudget)
  BY PlainResponse DEF SetBudget, Single, Handler, OnAddBudget, Case, AnswerFits
<1>17. AnswerFits(DeleteBudget)
  BY PlainResponse DEF DeleteBudget, Single, Handler, OnDeleteBudget, Case,
     AnswerFits
<1>18. AnswerFits(AddCard)
  <2>1. /\ AddCard.case.pushes = Response /\ AddCard.reads = Response
        /\ AddCard.shape = "dialog"
    BY DEF AddCard, Dialog, Handler, OnAddCard, Case
  <2>2. QED BY <2>1, PlainResponse DEF AnswerFits
<1>19. AnswerFits(EditCard)
  <2>1. /\ EditCard.case.pushes = Response /\ EditCard.reads = Response
        /\ EditCard.shape = "dialog"
    BY DEF EditCard, Dialog, Handler, OnEditCard, Case
  <2>2. QED BY <2>1, PlainResponse DEF AnswerFits
<1>20. AnswerFits(AddFunds)
  BY PlainResponse DEF AddFunds, Dialog, Handler, OnAddCardFunds, Case, AnswerFits
<1>21. AnswerFits(RechargeCash)
  BY PlainResponse DEF RechargeCash, Dialog, Handler, OnAddCash, Case, AnswerFits
<1>22. AnswerFits(AddSpendings)
  BY PlainResponse DEF AddSpendings, Dialog, Handler, OnAddSpending, Case,
     AnswerFits
<1>23. AnswerFits(AddIncome)
  BY PlainResponse DEF AddIncome, Dialog, Handler, OnAddIncome, Case, AnswerFits
<1>24. AnswerFits(AddOutcome)
  BY PlainResponse DEF AddOutcome, Dialog, Handler, OnAddOutcome, Case, AnswerFits
<1>25. AnswerFits(AddSaving)
  BY PlainResponse DEF AddSaving, Dialog, Handler, OnAddSaving, Case, AnswerFits
<1>26. AnswerFits(AddFundsToSaving)
  BY PlainResponse DEF AddFundsToSaving, Dialog, Handler, OnAddFundsToSaving, Case,
     AnswerFits
<1>27. QED
  BY <1>1, <1>2, <1>3, <1>4, <1>5, <1>6, <1>7, <1>8, <1>9, <1>10, <1>11,
     <1>12, <1>13, <1>14, <1>15, <1>16, <1>17, <1>18, <1>19, <1>20, <1>21,
     <1>22, <1>23, <1>24, <1>25, <1>26, AllHandlers

\* The ids the handlers wait for.
LEMMA AnswerIds ==
  /\ LoginRemembered.answer = "LoginRememeberedRequest"
  /\ Login.answer = "LoginRequest"
  /\ Register.answer = "RegisterRequest"
  /\ ForgotPassword.answer = "SendEmailForgotPasswordRequest"
  /\ ValidateCode.answer = "VerifyCodeForgotPasswordRequest"
  /\ UpdatePassword.answer = "UpdatePasswordRequest"
  /\ LoadCash.answer = "ServerGetCashResponse"
  /\ LoadCards.answer = "ServerGetCardsResponse"
  /\ LoadRecurencies.answer = "ServerGetRecurenciesResponse"
  /\ LoadTranzactions.answer = "ServerGetTranzactionsResponse"
  /\ LoadSavings.answer = "ServerGetSavingsResponse"
  /\ LoadBudgets.answer = "ServerGetBudgetResponse"
  /\ Logout.answer = "LogoutRememberedRequest"
  /\ AddPicture.answer = "ServerAddPictureResponse"
  /\ SavePreferences.answer = "ServerAddPreferencesOptionResponse"
  /\ SetBudget.answer = "ServerAddBudgetResponse"
  /\ DeleteBudget.answer = "ServerDeleteBudgetResponse"
  /\ AddCard.answer = "ServerAddCardResponse"
  /\ EditCard.answer = "ServerEditCardResponse"
  /\ AddFunds.answer = "ServerAddFundsResponse"
  /\ RechargeCash.answer = "ServerAddCashResponse"
  /\ AddSpendings.answer = "ServerSpendingsResponse"
  /\ AddIncome.answer = "ServerIncomeResponse"
  /\ AddOutcome.answer = "ServerOutcomeResponse"
  /\ AddSaving.answer = "ServerAddSavingResponse"
  /\ AddFundsToSaving.answer = "ServerAddFundsToSavingResponse"
BY DEF AddCard, AddFunds, AddFundsToSaving, AddIncome, AddOutcome, AddPicture,
   AddSaving, AddSpendings, DeleteBudget, EditCard, ForgotPassword, LoadBudgets,
   LoadCards, LoadCash, LoadRecurencies, LoadSavings, LoadTranzactions, Login,
   LoginRemembered, Logout, RechargeCash, Register, SavePreferences, SetBudget,
   UpdatePassword, ValidateCode, Single, Dialog, Handler

\* No two handlers wait for the same answer, and none for RememberMe's.
LEMMA OwnIds ==
  /\ \A g, h \in Handlers : g.answer = h.answer => g = h
  /\ \A h \in Handlers : h.answer # "ServerAccept" /\ h # RememberMe
<1>1. \A h \in Handlers : h.answer = LoginRemembered.answer => h = LoginRemembered
  BY AnswerIds, AllHandlers
<1>2. \A h \in Handlers : h.answer = Login.answer => h = Login
  BY AnswerIds, AllHandlers
<1>3. \A h \in Handlers : h.answer = Register.answer => h = Register
  BY AnswerIds, AllHandlers
<1>4. \A h \in Handlers : h.answer = ForgotPassword.answer => h = ForgotPassword
  BY AnswerIds, AllHandlers
<1>5. \A h \in Handlers : h.answer = ValidateCode.answer => h = ValidateCode
  BY AnswerIds, AllHandlers
<1>6. \A h \in Handlers : h.answer = UpdatePassword.answer => h = UpdatePassword
  BY AnswerIds, AllHandlers
<1>7. \A h \in Handlers : h.answer = LoadCash.answer => h = LoadCash
  BY AnswerIds, AllHandlers
<1>8. \A h \in Handlers : h.answer = LoadCards.answer => h = LoadCards
  BY AnswerIds, AllHandlers
<1>9. \A h \in Handlers : h.answer = LoadRecurencies.answer => h = LoadRecurencies
  BY AnswerIds, AllHandlers
<1>10. \A h \in Handlers : h.answer = LoadTranzactions.answer => h = LoadTranzactions
  BY AnswerIds, AllHandlers
<1>11. \A h \in Handlers : h.answer = LoadSavings.answer => h = LoadSavings
  BY AnswerIds, AllHandlers
<1>12. \A h \in Handlers : h.answer = LoadBudgets.answer => h = LoadBudgets
  BY AnswerIds, AllHandlers
<1>13. \A h \in Handlers : h.answer = Logout.answer => h = Logout
  BY AnswerIds, AllHandlers
<1>14. \A h \in Handlers : h.answer = AddPicture.answer => h = AddPicture
  BY AnswerIds, AllHandlers
<1>15. \A h \in Handlers : h.answer = SavePreferences.answer => h = SavePreferences
  BY AnswerIds, AllHandlers
<1>16. \A h \in Handlers : h.answer = SetBudget.answer => h = SetBudget
  BY AnswerIds, AllHandlers
<1>17. \A h \in Handlers : h.answer = DeleteBudget.answer => h = DeleteBudget
  BY AnswerIds, AllHandlers
<1>18. \A h \in Handlers : h.answer = AddCard.answer => h = AddCard
  BY AnswerIds, AllHandlers
<1>19. \A h \in Handlers : h.answer = EditCard.answer => h = EditCard
  BY AnswerIds, AllHandlers
<1>20. \A h \in Handlers : h.answer = AddFunds.answer => h = AddFunds
  BY AnswerIds, AllHandlers
<1>21. \A h \in Handlers : h.answer = RechargeCash.answer => h = RechargeCash
  BY AnswerIds, AllHandlers
<1>22. \A h \in Handlers : h.answer = AddSpendings.answer => h = AddSpendings
  BY AnswerIds, AllHandlers
<1>23. \A h \in Handlers : h.answer = AddIncome.answer => h = AddIncome
  BY AnswerIds, AllHandlers
<1>24. \A h \in Handlers : h.answer = AddOutcome.answer => h = AddOutcome
  BY AnswerIds, AllHandlers
<1>25. \A h \in Handlers : h.answer = AddSaving.answer => h = AddSaving
  BY AnswerIds, AllHandlers
<1>26. \A h \in Handlers : h.answer = AddFundsToSaving.answer => h = AddFundsToSaving
  BY AnswerIds, AllHandlers
<1>27. \A h \in Handlers : h.answer # "ServerAccept"
  BY AnswerIds, AllHandlers
<1>28. \A h \in Handlers : h # RememberMe
  <2>1. RememberMe.shape = "unanswered"
    BY DEF RememberMe, Handler
  <2>2. QED BY <2>1, Answering DEF AnswerFits
<1>29. QED
  BY <1>1, <1>2, <1>3, <1>4, <1>5, <1>6, <1>7, <1>8, <1>9, <1>10, <1>11,
     <1>12, <1>13, <1>14, <1>15, <1>16, <1>17, <1>18, <1>19, <1>20, <1>21,
     <1>22, <1>23, <1>24, <1>25, <1>26, <1>27, <1>28, AllHandlers

\* What is in a tuple is in its range.
LEMMA InRange == ASSUME NEW t, IsSeq(t) PROVE t \in Seq(Range(t))
BY DEF IsSeq, Range

\* The fields somebody pushes are fields.
LEMMA FieldsOf ==
  /\ \A h \in Handlers \cup {RememberMe} : h.pushes \in Seq(Fields)
  /\ \A h \in Handlers : h.case.pushes \in Seq(Fields)
  /\ Response \in Seq(Fields) /\ Count \in Seq(Fields)
<1>1. /\ \A h \in Handlers \cup {RememberMe} :
           Range(h.pushes) \cup Range(h.case.pushes) \subseteq Fields
      /\ Range(Response) \subseteq Fields /\ Range(Count) \subseteq Fields
  <2> DEFINE pushed ==
        {Range(h.pushes) \cup Range(h.case.pushes) : h \in Handlers \cup {RememberMe}}
  <2>1. \A h \in Handlers \cup {RememberMe} :
          Range(h.pushes) \cup Range(h.case.pushes) \in pushed
    OBVIOUS
  <2>2. Fields = Range(Response) \cup Range(Count) \cup (UNION pushed)
    BY DEF Fields
  <2> HIDE DEF pushed
  <2>3. ASSUME NEW h \in Handlers \cup {RememberMe},
               NEW f \in Range(h.pushes) \cup Range(h.case.pushes)
        PROVE  f \in Fields
    BY <2>1, <2>2
  <2>4. Range(Response) \subseteq Fields
    BY <2>2
  <2>5. Range(Count) \subseteq Fields
    BY <2>2
  <2>6. QED BY <2>3, <2>4, <2>5
<1>2. ASSUME NEW t, IsSeq(t), Range(t) \subseteq Fields PROVE t \in Seq(Fields)
  BY <1>2, InRange
<1>3. \A h \in Handlers \cup {RememberMe} : h.pushes \in Seq(Fields)
  BY <1>1, <1>2, Requested DEF RequestFits
<1>4. \A h \in Handlers : h.case.pushes \in Seq(Fields)
  BY <1>1, <1>2, Answering DEF AnswerFits
<1>5. IsSeq(Count)
  BY DEF Count, IsSeq
<1>6. QED BY <1>1, <1>2, <1>3, <1>4, <1>5, PlainResponse

\* The server's case pops what the client pushed, and no more.
LEMMA Popped ==
  ASSUME NEW h \in Handlers \cup {RememberMe}
  PROVE  /\ Push(<<>>, h.pushes) \in Seq(Fields)
         /\ Reads(Push(<<>>, h.pushes), h.case.pops)
         /\ Pop(Push(<<>>, h.pushes), h.case.pops) = <<>>
<1>1. h.pushes \in Seq(Fields) /\ h.case.pops = Reversed(h.pushes)
  BY FieldsOf, Requested DEF RequestFits
<1>2. <<>> \in Seq(Fields)
  OBVIOUS
<1>3. Push(<<>>, h.pushes) \in Seq(Fields)
  BY <1>1, <1>2 DEF Push
<1>4. QED BY <1>1, <1>2, <1>3, ReadBack

\* The texts of an answer are read as they were written, a failure as the
\* outcome it is.
LEMMA AnswerRead ==
  /\ \A h \in Handlers : Reads(h.case.pushes, h.reads)
  /\ \A h \in Handlers :
       h.shape \in {"single", "dialog"} => Reads(h.case.pushes, Response)
  /\ Reads(Response, Response) /\ Reads(Count, Count)
<1>1. ASSUME NEW fields \in Seq(Fields) PROVE Reads(fields, Reversed(fields))
  <2>1. <<>> \in Seq(Fields) /\ Push(<<>>, fields) = fields
    BY DEF Push
  <2>2. QED BY <2>1, ReadBack
<1>2. ASSUME NEW h \in Handlers PROVE Reads(h.case.pushes, h.reads)
  BY <1>1, FieldsOf, Answering DEF AnswerFits
<1>3. ASSUME NEW h \in Handlers, h.shape \in {"single", "dialog"}
      PROVE  Reads(h.case.pushes, Response)
  BY <1>3, Answering, PlainResponse DEF AnswerFits, Reads, Top
<1>4. Reads(Response, Response)
  BY <1>1, FieldsOf, PlainResponse
<1>5. Reads(Count, Count)
  BY DEF Count, Reads, Top
<1>6. QED BY <1>2, <1>3, <1>4, <1>5

\* Places in a body of j items: for the numbers of fields an item has.
LEMMA Places ==
  ASSUME NEW j \in Nat \ {0}, NEW size \in {5, 6, 7, 10}
  PROVE  /\ j * size \in Nat /\ size <= j * size
         /\ \A i \in 1..j * size : 1 + ((i - 1) % size) \in 1..size
         /\ \A k \in 1..size : /\ (j * size - k) % size = size - k
                              /\ j * size + 1 - k \in 1..j * size
<1>1. CASE size = 5
  BY <1>1
<1>2. CASE size = 6
  BY <1>2
<1>3. CASE size = 7
  BY <1>3
<1>4. CASE size = 10
  BY <1>4
<1>5. QED BY <1>1, <1>2, <1>3, <1>4

\* A body upon one field.
LEMMA UponOne ==
  ASSUME NEW S, NEW s \in Seq(S), NEW t \in Seq(S), NEW n \in Nat, Len(s) = 1, Len(t) = n
  PROVE  /\ s \o t \in Seq(S) /\ Len(s \o t) = 1 + n
         /\ \A k \in 1..n : (s \o t)[1 + k] = t[k]
<1>1. /\ s \o t \in Seq(S) /\ Len(s \o t) = 1 + n
      /\ \A i \in 1..1 + n : (s \o t)[i] = IF i <= 1 THEN s[i] ELSE t[i - 1]
  <2>1. /\ s \o t \in Seq(S) /\ Len(s \o t) = Len(s) + Len(t)
        /\ \A i \in 1..Len(s) + Len(t) :
             (s \o t)[i] = IF i <= Len(s) THEN s[i] ELSE t[i - Len(s)]
    BY ConcatProperties, Zenon
  <2>2. QED BY <2>1
<1>2. ASSUME NEW k \in 1..n PROVE (s \o t)[1 + k] = t[k]
  <2>1. 1 + k \in 1..1 + n /\ ~(1 + k <= 1) /\ (1 + k) - 1 = k
    OBVIOUS
  <2>2. QED BY <1>1, <2>1
<1>3. QED BY <1>1, <1>2

\* The last item of the body a list grows is on its top.
LEMMA ItemRead ==
  ASSUME NEW h \in Handlers, h.shape \in {"list", "listIfAny"}, NEW j \in Nat \ {0},
         NEW items,
         items = [i \in 1..j * Len(h.case.pushes) |->
                    h.case.pushes[1 + ((i - 1) % Len(h.case.pushes))]]
  PROVE  Reads(Count \o items, h.reads) /\ Count \o items \in Seq(Fields)
<1>1. /\ Len(h.case.pushes) \in {5, 6, 7, 10} /\ h.reads = Reversed(h.case.pushes)
      /\ h.case.pushes \in Seq(Fields)
  BY Answering, FieldsOf DEF AnswerFits
<1>2. PICK size \in {5, 6, 7, 10} : size = Len(h.case.pushes)
  BY <1>1
<1>3. \A i \in 1..size : h.case.pushes[i] \in Fields
  BY <1>1, <1>2
<1>4. Len(h.reads) = size /\ \A k \in 1..size : h.reads[k] = h.case.pushes[size + 1 - k]
  BY <1>1, <1>2 DEF Reversed
<1>5. PICK whole \in Nat : whole = j * size
  BY Places
<1>6. /\ size <= whole
      /\ \A i \in 1..whole : 1 + ((i - 1) % size) \in 1..size
      /\ \A k \in 1..size : (whole - k) % size = size - k /\ whole + 1 - k \in 1..whole
  BY <1>5, Places
<1>7. items = [i \in 1..whole |-> h.case.pushes[1 + ((i - 1) % size)]]
  BY <1>2, <1>5
<1>8. \A i \in 1..whole : items[i] \in Fields
  BY <1>3, <1>6, <1>7
<1>9. items \in Seq(Fields) /\ Len(items) = whole
  <2>1. items \in [1..whole -> Fields]
    BY <1>7, <1>8, Zenon
  <2>2. QED BY <2>1
<1>10. Count \in Seq(Fields) /\ Len(Count) = 1
  BY FieldsOf DEF Count
<1>11. /\ Count \o items \in Seq(Fields) /\ Len(Count \o items) = 1 + whole
       /\ \A k \in 1..whole : (Count \o items)[1 + k] = items[k]
  BY <1>9, <1>10, UponOne
<1>12. ASSUME NEW k \in 1..size PROVE Top(Count \o items, k) = h.reads[k]
  <2>1. whole + 1 - k \in 1..whole /\ (whole + 1 - k) - 1 = whole - k
    BY <1>6
  <2>2. items[whole + 1 - k] = h.case.pushes[1 + ((whole - k) % size)]
    BY <1>7, <2>1
  <2>3. items[whole + 1 - k] = h.case.pushes[1 + (size - k)]
    BY <1>6, <2>2
  <2>4. 1 + (size - k) = size + 1 - k /\ 1 + (whole + 1 - k) = 1 + whole + 1 - k
    OBVIOUS
  <2>5. Top(Count \o items, k) = (Count \o items)[1 + whole + 1 - k]
    BY <1>11 DEF Top
  <2>6. (Count \o items)[1 + (whole + 1 - k)] = items[whole + 1 - k]
    BY <1>11, <2>1
  <2>7. QED BY <1>4, <2>3, <2>4, <2>5, <2>6
<1>13. Len(h.reads) <= Len(Count \o items) /\ 1..Len(h.reads) = 1..size
  <2>1. size <= 1 + whole
    BY <1>6
  <2>2. QED BY <1>4, <1>11, <2>1
<1>14. QED BY <1>11, <1>12, <1>13 DEF Reads

\* The handlers the client treats apart.
LEMMA Special ==
  /\ {LoginRemembered, Login, LoadCash, LoadBudgets, AddCard} \subseteq Handlers
  /\ {LoginRemembered, Login, RememberMe} \cap (Loads \cup DashboardPage) = {}
  /\ {Login, LoginRemembered} \cap {LoadCash, LoadBudgets, AddCard, Logout} = {}
  /\ Login # LoginRemembered /\ AddCard # LoadCash /\ LoadCash # LoadBudgets
  /\ AddCard.shape = "dialog" /\ LoadCash \in Loads /\ LoadCash # Logout
  /\ Login.shape = "single" /\ LoginRemembered.shape = "single"
  /\ "user" \in Range(LoadCash.pushes)
  /\ DashboardByPAT \in Seq(Loads) /\ DashboardByPAT # <<>>
  /\ Head(DashboardByPAT) = LoadCash
  /\ DashboardByName \in Seq(Loads) /\ <<LoadCards>> \in Seq(Loads)
  /\ Loads \subseteq Handlers /\ LoginPage \cup DashboardPage \subseteq Handlers
<1>1. /\ {LoginRemembered, Login, LoadCash, LoadBudgets, AddCard} \subseteq Handlers
      /\ LoadCash \in Loads
  BY AllHandlers
<1>2. {LoginRemembered, Login, RememberMe} \cap (Loads \cup DashboardPage) = {}
  <2>1. RememberMe \notin Loads \cup DashboardPage
    BY OwnIds DEF Handlers
  <2>2. LoginRemembered \notin Loads \cup DashboardPage
    BY AnswerIds, AllHandlers DEF DashboardPage
  <2>3. Login \notin Loads \cup DashboardPage
    BY AnswerIds, AllHandlers DEF DashboardPage
  <2>4. QED BY <2>1, <2>2, <2>3
<1>3. /\ {Login, LoginRemembered} \cap {LoadCash, LoadBudgets, AddCard, Logout} = {}
      /\ Login # LoginRemembered /\ AddCard # LoadCash /\ LoadCash # LoadBudgets
      /\ LoadCash # Logout
  BY AnswerIds
<1>4. AddCard.shape = "dialog"
  BY DEF AddCard, Dialog, Handler
<1>5. Login.shape = "single" /\ LoginRemembered.shape = "single"
  BY DEF Login, LoginRemembered, Single, Handler
<1>6. "user" \in Range(LoadCash.pushes)
  BY DEF LoadCash, Handler, GetCashDetailsPush, Range
<1>7. /\ DashboardByPAT \in Seq(Loads) /\ DashboardByPAT # <<>>
      /\ Head(DashboardByPAT) = LoadCash
  <2>1. DashboardByPAT \in Seq(Loads)
    BY AllHandlers DEF DashboardByPAT
  <2>2. Head(DashboardByPAT) = LoadCash /\ DashboardByPAT # <<>>
    BY DEF DashboardByPAT
  <2>3. QED BY <2>1, <2>2
<1>8. DashboardByName \in Seq(Loads)
  BY AllHandlers DEF DashboardByName
<1>9. <<LoadCards>> \in Seq(Loads)
  BY AllHandlers
<1>10. Loads \subseteq Handlers /\ LoginPage \cup DashboardPage \subseteq Handlers
  BY DEF Handlers
<1>11. QED BY <1>1, <1>2, <1>3, <1>4, <1>5, <1>6, <1>7, <1>8, <1>9, <1>10

-----------------------------------------------------------------------------
(***************************************************************************)
(* The UI thread asks.                                                     *)
(***************************************************************************)
Starts(h) ==
  \/ h = LoginRemembered /\ FirstMessage
  \/ h \in Buttons /\ Click(h)
  \/ h = Head(todo) /\ NextLoad

\* What is known of the conversation when a request is sent, ...
LEMMA BeforeAsking ==
  ASSUME IInv, NEW h, Starts(h)
  PROVE  /\ h \in Handlers /\ Ask(h)
         /\ down = <<>> /\ (connected => OnlyRememberMe) /\ (~connected => up = <<>>)
         /\ By(h) = "nobody" => h \in Loads \cup DashboardPage /\ board.cash # "unread"
         /\ connected /\ board.byPAT /\ board.cash = "unread" => h = LoadCash
         /\ todo' \in Seq(Loads) /\ clicks' \in 0..MaxClicks
<1>1. /\ todo \in Seq(Loads) /\ clicks \in 0..MaxClicks /\ in \in Seq(Message)
      /\ down \in Seq(Message)
  BY DEF IInv, TypeOK
<1>2. MaxClicks \in Nat
  BY BoundsAssumption
<1>3. ASSUME h = LoginRemembered, FirstMessage
      PROVE  /\ h \in Handlers /\ Ask(h) /\ down = <<>> /\ up = <<>>
             /\ By(h) # "nobody" /\ ~(connected /\ board.byPAT /\ board.cash = "unread")
             /\ todo' = todo /\ clicks' = clicks
  <2>1. ui.pc = "first" /\ in # <<>> /\ Ask(h) /\ todo' = todo /\ clicks' = clicks
    BY <1>3 DEF FirstMessage
  <2>2. up = <<>> /\ (~connected => down = <<>>)
    BY <2>1 DEF IInv, Arrivals
  <2>3. connected => Len(Flow) = 1
    BY <2>1 DEF IInv, Conversation
  <2>4. connected => down = <<>>
    <3>1. Len(Flow) = Len(in) + Len(down) /\ Len(in) \in Nat \ {0} /\ Len(down) \in Nat
      BY <1>1, <2>1, Queues, EmptySeq, LenProperties DEF Flow
    <3>2. SUFFICES ASSUME connected, down # <<>> PROVE FALSE
      OBVIOUS
    <3>3. Len(down) # 0
      BY <1>1, <3>2, EmptySeq
    <3>4. QED BY <2>3, <3>1, <3>2, <3>3
  <2>5. By(h) # "nobody"
    BY <1>3, Special DEF By
  <2>6. ~(connected /\ board.byPAT /\ board.cash = "unread")
    BY <2>1 DEF IInv, FirstLoad
  <2>7. h \in Handlers
    BY <1>3, Special
  <2>8. QED BY <2>1, <2>2, <2>4, <2>5, <2>6, <2>7
<1>4. ASSUME connected, ui.pc = "page"
      PROVE  /\ down = <<>> /\ OnlyRememberMe
             /\ board.byPAT /\ board.cash = "unread" => todo = DashboardByPAT
  <2>1. OnlyRememberMe /\ Flow = <<>>
    BY <1>4 DEF IInv, Conversation
  <2>2. down = <<>>
    BY <1>1, <2>1, Queues DEF Flow
  <2>3. board.byPAT /\ board.cash = "unread" => todo = DashboardByPAT
    BY <1>4 DEF IInv, FirstLoad
  <2>4. QED BY <2>1, <2>2, <2>3
<1>5. By(h) = "nobody" =>
        /\ h \in Loads \cup DashboardPage /\ board.byPAT /\ "user" \notin Range(h.pushes)
  BY DEF By
<1>6. ASSUME h \in Buttons, Click(h)
      PROVE  /\ h \in Handlers /\ Ask(h) /\ connected /\ ui.pc = "page" /\ todo = <<>>
             /\ todo' = todo /\ clicks' \in 0..MaxClicks
  <2>1. /\ Ask(h) /\ connected /\ ui.pc = "page" /\ todo = <<>> /\ todo' = todo
        /\ clicks < MaxClicks /\ clicks' = clicks + 1
    BY <1>6 DEF Click
  <2>2. h \in Handlers
    BY <1>6, ButtonsAssumption, Special
  <2>3. QED BY <1>1, <1>2, <2>1, <2>2
<1>7. ASSUME h = Head(todo), NextLoad
      PROVE  /\ h \in Handlers /\ Ask(h) /\ connected /\ ui.pc = "page"
             /\ todo' \in Seq(Loads) /\ clicks' = clicks
  <2>1. /\ Ask(h) /\ connected /\ ui.pc = "page" /\ todo # <<>> /\ todo' = Tail(todo)
        /\ clicks' = clicks
    BY <1>7 DEF NextLoad
  <2>2. Head(todo) \in Loads /\ Tail(todo) \in Seq(Loads)
    BY <1>1, <2>1, HeadTailProperties
  <2>3. QED BY <1>7, <2>1, <2>2, Special
<1>8. CASE h = LoginRemembered /\ FirstMessage
  <2>1. up = <<>> => OnlyRememberMe
    BY DEF OnlyRememberMe
  <2>2. QED BY <1>1, <1>3, <1>8, <2>1
<1>9. CASE h \in Buttons /\ Click(h)
  <2>1. todo # DashboardByPAT
    BY <1>6, <1>9, Special
  <2>2. QED BY <1>1, <1>4, <1>5, <1>6, <1>9, <2>1
<1>10. CASE h = Head(todo) /\ NextLoad
  <2>1. board.byPAT /\ board.cash = "unread" => h = LoadCash
    BY <1>4, <1>7, <1>10, Special
  <2>2. LoadCash \in Loads /\ "user" \in Range(LoadCash.pushes)
    BY Special
  <2>3. QED BY <1>1, <1>4, <1>5, <1>7, <1>10, <2>1, <2>2
<1>11. QED BY <1>8, <1>9, <1>10 DEF Starts

\* ... and when it was sent.
LEMMA AfterAsking ==
  ASSUME IInv, NEW h, Starts(h)
  PROVE  /\ no' = no + 1 /\ Flow' = <<>> /\ in' = <<>> /\ down' = <<>>
         /\ up' = IF connected THEN Append(up, Sent(no + 1, h)) ELSE <<>>
         /\ Sent(no + 1, h) = [of |-> no + 1, handler |-> h, by |-> By(h),
                               body |-> Push(<<>>, h.pushes)]
         /\ ui' = [pc |-> "wait", handler |-> h, left |-> 0, by |-> {}]
         /\ connected' = connected /\ serverRuns' = serverRuns /\ performed' = performed
         /\ page' = page /\ board' = board /\ pat' = pat /\ done' = done
         /\ accepted' = accepted
<1>1. Ask(h) /\ down = <<>> /\ (~connected => up = <<>>)
  BY BeforeAsking
<1>2. in' = <<>> /\ down' = <<>>
  BY <1>1 DEF Ask, netVars
<1>3. <<>> \o <<>> = <<>>
  OBVIOUS
<1>4. Flow' = <<>>
  BY <1>2, <1>3 DEF Flow
<1>5. QED BY <1>1, <1>2, <1>4 DEF Ask, netVars, Sent

\* What is asked is a request like the others.
LEMMA SentIsRequest ==
  ASSUME NEW h \in Handlers \cup {RememberMe}, TypeOK
  PROVE  /\ Sent(no + 1, h) \in Request
         /\ Sent(no + 1, h).of = no + 1 /\ Sent(no + 1, h).handler = h
         /\ Sent(no + 1, h).by = By(h) /\ Sent(no + 1, h).body = Push(<<>>, h.pushes)
<1>1. By(h) \in {"nobody", "PAT", "name", "given"}
  BY DEF By
<1>2. Push(<<>>, h.pushes) \in Seq(Fields)
  BY Popped
<1>3. no + 1 \in Nat
  BY DEF TypeOK
<1>4. QED BY <1>1, <1>2, <1>3 DEF Sent, Request

\* A request at the end of the queue.
LEMMA Appending ==
  ASSUME NEW S, NEW s \in Seq(S), NEW r \in S
  PROVE  /\ Append(s, r) \in Seq(S) /\ Append(s, r) # <<>>
         /\ Len(Append(s, r)) = Len(s) + 1 /\ Len(s) \in Nat
         /\ Append(s, r)[Len(Append(s, r))] = r
         /\ \A k \in 1..Len(s) : Append(s, r)[k] = s[k]
         /\ \A k \in 1..Len(Append(s, r)) :
              k \in 1..Len(s) \/ (k = Len(Append(s, r)) /\ ~(k < Len(Append(s, r))))
         /\ \A k \in 1..Len(Append(s, r)) : k < Len(Append(s, r)) => k \in 1..Len(s)
<1>1. PICK n \in Nat : n = Len(s)
  BY LenProperties
<1>2. /\ Append(s, r) \in Seq(S) /\ Append(s, r) # <<>>
      /\ Len(Append(s, r)) = n + 1 /\ Append(s, r)[n + 1] = r
      /\ \A k \in 1..n : Append(s, r)[k] = s[k]
  <2>1. /\ Append(s, r) \in Seq(S) /\ Append(s, r) # <<>> /\ Len(Append(s, r)) = Len(s) + 1
        /\ Append(s, r)[Len(s) + 1] = r /\ \A k \in 1..Len(s) : Append(s, r)[k] = s[k]
    BY AppendProperties
  <2>2. QED BY <1>1, <2>1
<1>3. \A k \in 1..n + 1 : /\ k \in 1..n \/ (k = n + 1 /\ ~(k < n + 1))
                          /\ k < n + 1 => k \in 1..n
  OBVIOUS
<1>4. QED BY <1>1, <1>2, <1>3

LEMMA AskingKeeps ==
  ASSUME IInv, NEW h, Starts(h)
  PROVE  IInv'
<1>1. /\ h \in Handlers /\ (connected => OnlyRememberMe)
      /\ By(h) = "nobody" => h \in Loads \cup DashboardPage /\ board.cash # "unread"
      /\ connected /\ board.byPAT /\ board.cash = "unread" => h = LoadCash
      /\ todo' \in Seq(Loads) /\ clicks' \in 0..MaxClicks
  BY BeforeAsking
<1>2. /\ no' = no + 1 /\ Flow' = <<>> /\ in' = <<>> /\ down' = <<>>
      /\ up' = IF connected THEN Append(up, Sent(no + 1, h)) ELSE <<>>
      /\ ui' = [pc |-> "wait", handler |-> h, left |-> 0, by |-> {}]
      /\ connected' = connected /\ serverRuns' = serverRuns /\ performed' = performed
      /\ page' = page /\ board' = board /\ pat' = pat /\ done' = done
      /\ accepted' = accepted
  BY AfterAsking
<1>3. /\ Sent(no + 1, h) \in Request
      /\ Sent(no + 1, h).of = no + 1 /\ Sent(no + 1, h).handler = h
      /\ Sent(no + 1, h).by = By(h) /\ Sent(no + 1, h).body = Push(<<>>, h.pushes)
  BY <1>1, SentIsRequest DEF IInv
<1>4. /\ ui'.pc = "wait" /\ ui'.handler = h /\ ui'.left = 0 /\ ui'.by = {}
  BY <1>2
<1>5. TypeOK
  BY DEF IInv
<1>6. no \in Nat /\ no' \in Nat /\ no' > 0 /\ 0..no \subseteq 0..no' /\ 1..no \subseteq 1..no'
      /\ no + 1 \in 1..no'
  BY <1>2, <1>5 DEF TypeOK
<1>7. up \in Seq(Request)
  BY <1>5 DEF TypeOK
<1>8. connected =>
        /\ up' \in Seq(Request) /\ up' # <<>> /\ up'[Len(up')] = Sent(no + 1, h)
        /\ \A k \in 1..Len(up) : up'[k] = up[k]
        /\ \A k \in 1..Len(up') : k \in 1..Len(up) \/ k = Len(up')
        /\ \A k \in 1..Len(up') : k < Len(up') => k \in 1..Len(up)
  BY <1>2, <1>3, <1>7, Appending
<1>9. ~connected => up' = <<>>
  BY <1>2
<1>10. TypeOK'
  <2>1. up' \in Seq(Request)
    BY <1>8, <1>9, EmptySeq
  <2>2. /\ in' \in Seq(Message) /\ down' \in Seq(Message)
    BY <1>2
  <2>3. ui' \in [pc : PCs, handler : Handlers, left : Counts, by : SUBSET (0..no')]
    <3>1. 0 \in Counts
      BY DEF Counts, Garbage
    <3>2. "wait" \in PCs
      BY DEF PCs
    <3>3. QED BY <1>1, <1>2, <3>1, <3>2
  <2>4. done' \in [of : 0..no', by : SUBSET (0..no'),
                   verdict : {"none", "success", "failure", "loaded", "ignored", "lost"}]
    BY <1>2, <1>5, <1>6 DEF TypeOK
  <2>5. accepted' \subseteq 1..no' /\ performed' \subseteq 1..no'
    BY <1>2, <1>5, <1>6 DEF TypeOK
  <2>6. QED BY <1>1, <1>2, <1>5, <1>6, <2>1, <2>2, <2>3, <2>4, <2>5 DEF TypeOK
<1>11. Requests'
  <2>1. ASSUME NEW k \in 1..Len(up'), connected
        PROVE  /\ up'[k].of \in 1..no' /\ up'[k].handler \in {RememberMe, h}
               /\ up'[k].body = Push(<<>>, up'[k].handler.pushes)
               /\ up'[k].by = "nobody" =>
                    up'[k].handler \in Loads \cup DashboardPage /\ board.cash # "unread"
    <3>1. CASE k \in 1..Len(up)
      <4>1. /\ up'[k] = up[k] /\ up[k].handler = RememberMe /\ up[k].of \in 1..no
            /\ up[k].body = Push(<<>>, up[k].handler.pushes)
            /\ up[k].by = "nobody" => up[k].handler \in Loads \cup DashboardPage
        BY <1>1, <1>8, <2>1, <3>1 DEF IInv, Requests, OnlyRememberMe
      <4>2. RememberMe \notin Loads \cup DashboardPage
        BY Special
      <4>3. QED BY <1>6, <4>1, <4>2
    <3>2. CASE k = Len(up')
      <4>1. up'[k] = Sent(no + 1, h)
        BY <1>8, <2>1, <3>2
      <4>2. QED BY <1>1, <1>3, <1>6, <4>1
    <3>3. QED BY <1>8, <2>1, <3>1, <3>2
  <2>2. ~connected => 1..Len(up') = {}
    BY <1>9
  <2>3. QED BY <1>2, <1>4, <2>1, <2>2 DEF Requests
<1>12. 1..Len(Flow') = {}
  BY <1>2
<1>13. Arrivals'
  BY <1>2, <1>4, <1>6, <1>12 DEF Arrivals
<1>14. Counted'
  BY <1>2, <1>4 DEF Counted
<1>15. Conversation'
  <2>1. ASSUME connected PROVE Outstanding'
    <3>1. \A k \in 1..Len(up') : k < Len(up') => up'[k].handler = RememberMe
      BY <1>1, <1>8, <2>1 DEF OnlyRememberMe
    <3>2. up'[Len(up')].of = no' /\ up'[Len(up')].handler = ui'.handler /\ up' # <<>>
      BY <1>2, <1>3, <1>4, <1>8, <2>1
    <3>3. QED BY <1>2, <3>1, <3>2 DEF Outstanding
  <2>2. connected => accepted' \subseteq performed'
    BY <1>2 DEF IInv, Conversation
  <2>3. QED BY <1>2, <1>4, <2>1, <2>2 DEF Conversation
<1>16. FirstLoad'
  BY <1>1, <1>2, <1>4 DEF FirstLoad
<1>17. OwnAnswer'
  BY <1>2 DEF IInv, OwnAnswer
<1>18. QED BY <1>10, <1>11, <1>13, <1>14, <1>15, <1>16, <1>17 DEF IInv

-----------------------------------------------------------------------------
(***************************************************************************)
(* The handler returns.                                                    *)
(***************************************************************************)
LEMMA Returning ==
  ASSUME TypeOK, NEW verdict, NEW by, Return(verdict, by)
  PROVE  /\ ui'.pc \in {"page", "ended"} /\ ui'.handler = ui.handler
         /\ ui' = [pc |-> ui'.pc, handler |-> ui.handler, left |-> 0, by |-> {}]
         /\ done' = [of |-> no, by |-> by, verdict |-> verdict]
         /\ accepted' = IF Accepts(ui.handler, verdict) THEN accepted \cup {no} ELSE accepted
         /\ \/ up' = up /\ no' \in {no, no + 1}
            \/ connected /\ no' = no + 1 /\ up' = Append(up, Sent(no + 1, RememberMe))
         /\ page' \in {"login", "dashboard"} /\ pat' \in BOOLEAN
         /\ todo' \in Seq(Loads) /\ board' \in Board
         /\ board'.cash = "unread" =>
              ui.handler \in {Login, LoginRemembered} \/ board.cash = "unread"
         /\ board'.byPAT /\ board'.cash = "unread" =>
              \/ ui'.pc = "page" /\ todo' = DashboardByPAT
              \/ board.byPAT /\ board.cash = "unread" /\ ui.handler # LoadCash
         /\ connected' = connected /\ serverRuns' = serverRuns /\ down' = down
         /\ performed' = performed /\ clicks' = clicks
<1> DEFINE h == ui.handler
           opens == h \in {Login, LoginRemembered} /\ verdict = "success"
<1>1. /\ ui \in [pc : PCs, handler : Handlers, left : Counts, by : SUBSET (0..no)]
      /\ page \in {"login", "dashboard"} /\ pat \in BOOLEAN
      /\ todo \in Seq(Loads) /\ board \in Board
  BY DEF TypeOK
<1>2. ui' = [pc |-> IF StatisticsThrow(h) THEN "ended" ELSE "page",
             handler |-> h, left |-> 0, by |-> {}]
  BY <1>1 DEF Return
<1>3. /\ done' = [of |-> no, by |-> by, verdict |-> verdict]
      /\ accepted' = IF Accepts(h, verdict) THEN accepted \cup {no} ELSE accepted
      /\ connected' = connected /\ serverRuns' = serverRuns /\ down' = down
      /\ performed' = performed /\ clicks' = clicks
      /\ board' = Learns(h, verdict)
  BY DEF Return, netVars
<1>4. PICK keep \in BOOLEAN : Proceed(h, verdict, keep)
  BY DEF Return
<1>5. /\ page' = IF opens THEN "dashboard" ELSE IF h = Logout THEN "login" ELSE page
      /\ todo' = CASE opens /\ h = LoginRemembered     -> DashboardByPAT
                   [] opens /\ h = Login               -> DashboardByName
                   [] h = AddCard /\ Accepts(h, verdict) -> <<LoadCards>>
                   [] OTHER                            -> todo
      /\ pat' \in BOOLEAN
  BY <1>1, <1>4 DEF Proceed
<1>6. \/ up' = up /\ no' \in {no, no + 1}
      \/ connected /\ no' = no + 1 /\ up' = Append(up, Sent(no + 1, RememberMe))
  BY <1>4 DEF Proceed
<1>7. /\ Login # LoginRemembered
      /\ {Login, LoginRemembered} \cap {LoadCash, LoadBudgets, AddCard} = {}
  BY Special
<1>8. /\ opens /\ h = LoginRemembered => todo' = DashboardByPAT
      /\ todo' \in {DashboardByPAT, DashboardByName, <<LoadCards>>, todo}
  <2>1. CASE opens /\ h = LoginRemembered
    BY <1>5, <1>7, <2>1
  <2>2. CASE opens /\ h = Login
    BY <1>5, <1>7, <2>2
  <2>3. CASE h = AddCard /\ Accepts(h, verdict)
    BY <1>5, <1>7, <2>3
  <2>4. CASE ~opens /\ ~(h = AddCard /\ Accepts(h, verdict))
    BY <1>5, <1>7, <2>4
  <2>5. QED BY <2>1, <2>2, <2>3, <2>4
<1>9. todo' \in Seq(Loads)
  BY <1>1, <1>8, Special
<1>10. board' = IF opens THEN NewBoard(h = LoginRemembered)
                ELSE IF h = LoadCash
                  THEN [board EXCEPT !.cash = IF verdict = "success" THEN "shown" ELSE "failed"]
                ELSE board
  <2>1. CASE opens
    BY <1>3, <1>7, <2>1 DEF Learns
  <2>2. CASE h = LoadCash
    BY <1>3, <1>7, <2>2 DEF Learns
  <2>3. CASE ~opens /\ h # LoadCash
    BY <1>3, <1>7, <2>3 DEF Learns
  <2>4. QED BY <1>7, <2>1, <2>2, <2>3
<1>11. board' \in Board
  BY <1>1, <1>10 DEF NewBoard, Board
<1>12. board'.cash = "unread" => h \in {Login, LoginRemembered} \/ board.cash = "unread"
  BY <1>1, <1>10 DEF NewBoard, Board
<1>13. h = LoginRemembered => ui'.pc = "page"
  BY <1>2, <1>7 DEF StatisticsThrow
<1>14. board'.byPAT /\ board'.cash = "unread" =>
         \/ ui'.pc = "page" /\ todo' = DashboardByPAT
         \/ board.byPAT /\ board.cash = "unread" /\ h # LoadCash
  <2>1. CASE opens
    BY <1>8, <1>10, <1>13, <2>1 DEF NewBoard
  <2>2. CASE ~opens /\ h = LoadCash
    BY <1>1, <1>10, <2>2 DEF Board
  <2>3. CASE ~opens /\ h # LoadCash
    BY <1>10, <2>3
  <2>4. QED BY <2>1, <2>2, <2>3
<1>15. page' \in {"login", "dashboard"}
  BY <1>1, <1>5
<1>16. ui'.pc \in {"page", "ended"} /\ ui'.handler = h
       /\ ui' = [pc |-> ui'.pc, handler |-> h, left |-> 0, by |-> {}]
  BY <1>2
<1>17. QED
  BY <1>3, <1>5, <1>6, <1>9, <1>11, <1>12, <1>14, <1>15, <1>16

\* A handler that returns leaves nothing behind that a later one could take.
LEMMA ReturningKeeps ==
  ASSUME IInv, NEW verdict, NEW by, Return(verdict, by), ui.pc \in {"wait", "items"},
         verdict \in {"success", "failure", "loaded", "ignored", "lost"},
         by \subseteq 0..no,
         verdict \in {"success", "failure", "loaded"} => by = {no},
         in' \in Seq(Message),
         Flow' = Flow \/ (Flow # <<>> /\ Flow' = Tail(Flow)),
         connected => OnlyRememberMe /\ Flow' = <<>>,
         connected /\ Accepts(ui.handler, verdict) => no \in performed
  PROVE  IInv'
<1>1. TypeOK
  BY DEF IInv
<1>2. /\ ui'.pc \in {"page", "ended"} /\ ui'.handler = ui.handler
      /\ ui' = [pc |-> ui'.pc, handler |-> ui.handler, left |-> 0, by |-> {}]
      /\ done' = [of |-> no, by |-> by, verdict |-> verdict]
      /\ accepted' = IF Accepts(ui.handler, verdict) THEN accepted \cup {no} ELSE accepted
      /\ \/ up' = up /\ no' \in {no, no + 1}
         \/ connected /\ no' = no + 1 /\ up' = Append(up, Sent(no + 1, RememberMe))
      /\ page' \in {"login", "dashboard"} /\ pat' \in BOOLEAN
      /\ todo' \in Seq(Loads) /\ board' \in Board
      /\ board'.cash = "unread" =>
           ui.handler \in {Login, LoginRemembered} \/ board.cash = "unread"
      /\ board'.byPAT /\ board'.cash = "unread" =>
           \/ ui'.pc = "page" /\ todo' = DashboardByPAT
           \/ board.byPAT /\ board.cash = "unread" /\ ui.handler # LoadCash
      /\ connected' = connected /\ serverRuns' = serverRuns /\ down' = down
      /\ performed' = performed /\ clicks' = clicks
  BY <1>1, Returning
<1>3. /\ no \in Nat /\ up \in Seq(Request) /\ in \in Seq(Message) /\ down \in Seq(Message)
      /\ ui.handler \in Handlers /\ accepted \subseteq 1..no /\ performed \subseteq 1..no
      /\ clicks \in 0..MaxClicks /\ connected \in BOOLEAN /\ serverRuns \in BOOLEAN
  BY <1>1 DEF TypeOK
<1>4. /\ no > 0
      /\ \A k \in 1..Len(Flow) : Written(Flow[k], ui.handler)
      /\ ~connected => down = <<>>
  BY DEF IInv, Arrivals
<1>5. /\ no' \in Nat /\ no' > 0 /\ 0..no \subseteq 0..no' /\ 1..no \subseteq 1..no'
      /\ no \in 0..no' /\ no \in 1..no'
  BY <1>2, <1>3, <1>4
<1>6. /\ Sent(no + 1, RememberMe) \in Request
      /\ Sent(no + 1, RememberMe).of = no + 1
      /\ Sent(no + 1, RememberMe).handler = RememberMe
      /\ Sent(no + 1, RememberMe).by = By(RememberMe)
      /\ Sent(no + 1, RememberMe).body = Push(<<>>, RememberMe.pushes)
  BY <1>1, SentIsRequest
<1>7. By(RememberMe) # "nobody"
  BY Special DEF By
<1>8. ASSUME NEW k \in 1..Len(up'), NEW r, r = up'[k]
      PROVE  \/ k \in 1..Len(up) /\ r = up[k]
             \/ connected /\ no' = no + 1 /\ r = Sent(no + 1, RememberMe)
  <2>1. CASE up' = up
    BY <1>8, <2>1
  <2>2. CASE connected /\ no' = no + 1 /\ up' = Append(up, Sent(no + 1, RememberMe))
    BY <1>3, <1>6, <1>8, <2>2, Appending
  <2>3. QED BY <1>2, <2>1, <2>2
<1>9. TypeOK'
  <2>1. up' \in Seq(Request)
    <3>1. Append(up, Sent(no + 1, RememberMe)) \in Seq(Request)
      BY <1>3, <1>6, Appending
    <3>2. QED BY <1>2, <1>3, <3>1
  <2>2. ui' \in [pc : PCs, handler : Handlers, left : Counts, by : SUBSET (0..no')]
    <3>1. 0 \in Counts
      BY DEF Counts, Garbage
    <3>2. ui'.pc \in PCs
      BY <1>2 DEF PCs
    <3>3. QED BY <1>2, <1>3, <3>1, <3>2
  <2>3. done' \in [of : 0..no', by : SUBSET (0..no'),
                   verdict : {"none", "success", "failure", "loaded", "ignored", "lost"}]
    <3>1. by \in SUBSET (0..no')
      BY <1>5
    <3>2. QED BY <1>2, <1>5, <3>1
  <2>4. accepted' \subseteq 1..no' /\ performed' \subseteq 1..no'
    BY <1>2, <1>3, <1>5
  <2>5. QED BY <1>2, <1>3, <1>5, <2>1, <2>2, <2>3, <2>4 DEF TypeOK
<1>10. Requests'
  <2>1. ASSUME NEW k \in 1..Len(up')
        PROVE  /\ up'[k].of \in 1..no' /\ up'[k].handler \in {RememberMe, ui.handler}
               /\ up'[k].body = Push(<<>>, up'[k].handler.pushes)
               /\ up'[k].by = "nobody" =>
                    up'[k].handler \in Loads \cup DashboardPage /\ board'.cash # "unread"
    <3> DEFINE r == up'[k]
    <3>1. CASE k \in 1..Len(up) /\ r = up[k]
      <4>1. /\ r.of \in 1..no /\ r.handler \in {RememberMe, ui.handler}
            /\ r.body = Push(<<>>, r.handler.pushes)
            /\ r.by = "nobody" =>
                 r.handler \in Loads \cup DashboardPage /\ board.cash # "unread"
        BY <3>1 DEF IInv, Requests
      <4>2. {Login, LoginRemembered, RememberMe} \cap (Loads \cup DashboardPage) = {}
        BY Special
      <4>3. r.by = "nobody" => ui.handler \notin {Login, LoginRemembered}
        BY <4>1, <4>2
      <4>4. QED BY <1>2, <1>5, <4>1, <4>3
    <3>2. CASE connected /\ no' = no + 1 /\ r = Sent(no + 1, RememberMe)
      <4>1. no + 1 \in 1..no'
        BY <1>3, <3>2
      <4>2. QED BY <1>6, <1>7, <3>2, <4>1
    <3>3. QED BY <1>8, <3>1, <3>2
  <2>2. QED BY <1>2, <2>1 DEF Requests
<1>11. Arrivals'
  <2>1. Flow \in Seq(Message)
    BY <1>3, Queues DEF Flow
  <2>2. \A k \in 1..Len(Flow') : Written(Flow'[k], ui.handler)
    <3>1. CASE Flow' = Flow
      BY <1>4, <3>1
    <3>2. CASE Flow # <<>> /\ Flow' = Tail(Flow)
      <4>1. PICK n \in Nat : n = Len(Flow)
        BY <2>1, LenProperties
      <4>2. Len(Flow') = n - 1 /\ \A k \in 1..Len(Flow') : Flow'[k] = Flow[k + 1]
        BY <2>1, <3>2, <4>1, HeadTailProperties
      <4>3. \A k \in 1..n - 1 : k + 1 \in 1..n
        BY <4>1
      <4>4. QED BY <1>4, <4>1, <4>2, <4>3
    <3>3. QED BY <3>1, <3>2
  <2>3. ui'.pc \notin {"first", "wait", "items"}
    BY <1>2
  <2>4. QED BY <1>2, <1>4, <2>2, <2>3 DEF Arrivals
<1>12. Counted'
  BY <1>2 DEF Counted
<1>13. Conversation'
  <2>1. ASSUME connected PROVE OnlyRememberMe'
    BY <1>6, <1>8, <2>1 DEF OnlyRememberMe
  <2>2. ASSUME connected PROVE accepted' \subseteq performed'
    BY <1>2, <2>2 DEF IInv, Conversation
  <2>3. ui'.pc \notin {"first", "wait", "items"}
    BY <1>2
  <2>4. QED BY <1>2, <2>1, <2>2, <2>3 DEF Conversation
<1>14. FirstLoad'
  BY <1>2 DEF IInv, FirstLoad
<1>15. OwnAnswer'
  BY <1>2 DEF OwnAnswer
<1>16. QED BY <1>9, <1>10, <1>11, <1>12, <1>13, <1>14, <1>15 DEF IInv

\* The message that is taken is the oldest one under way.
LEMMA Taking ==
  ASSUME TypeOK, in # <<>>, in' = Tail(in), down' = down
  PROVE  /\ Flow # <<>> /\ Flow' = Tail(Flow) /\ Flow[1] = Head(in)
         /\ in' \in Seq(Message) /\ Head(in) \in Message
         /\ Flow \in Seq(Message) /\ Flow' \in Seq(Message)
         /\ 1 \in 1..Len(Flow)
         /\ (Len(Flow) = 1 => Flow' = <<>>) /\ (Flow' = <<>> => Len(Flow) = 1)
         /\ \E n \in Nat : Len(Flow) = n + 1 /\ Len(Flow') = n
         /\ \A k \in 1..Len(Flow') : k + 1 \in 1..Len(Flow) /\ Flow'[k] = Flow[k + 1]
<1>1. in \in Seq(Message) /\ down \in Seq(Message)
  BY DEF TypeOK
<1>2. Tail(in) \o down = Tail(in \o down) /\ (in \o down)[1] = Head(in)
      /\ in \o down \in Seq(Message) /\ in \o down # <<>>
  BY <1>1, Queues
<1>3. Flow # <<>> /\ Flow' = Tail(Flow) /\ Flow[1] = Head(in) /\ Flow \in Seq(Message)
  BY <1>2 DEF Flow
<1>4. in' \in Seq(Message) /\ Head(in) \in Message
  BY <1>1, HeadTailProperties
<1>5. PICK n \in Nat : n + 1 = Len(Flow)
  <2>1. Len(Flow) \in Nat \ {0}
    BY <1>3, EmptySeq
  <2>2. PICK l \in Nat \ {0} : l = Len(Flow)
    BY <2>1
  <2>3. l - 1 \in Nat /\ (l - 1) + 1 = l
    OBVIOUS
  <2>4. QED BY <2>2, <2>3
<1>6. Flow' \in Seq(Message) /\ Len(Flow') = Len(Flow) - 1
      /\ \A k \in 1..Len(Flow') : Flow'[k] = Flow[k + 1]
  BY <1>3, HeadTailProperties
<1>7. (n + 1) - 1 = n /\ 1 \in 1..n + 1 /\ \A k \in 1..n : k + 1 \in 1..n + 1
  OBVIOUS
<1>8. Len(Flow') = n
  BY <1>5, <1>6, <1>7
<1>9. Len(Flow') = 0 <=> Flow' = <<>>
  BY <1>6, EmptySeq
<1>10. Len(Flow) = 1 <=> n = 0
  <2>1. n + 1 = 1 <=> n = 0
    OBVIOUS
  <2>2. QED BY <1>5, <2>1
<1>11. QED BY <1>3, <1>4, <1>5, <1>6, <1>7, <1>8, <1>9, <1>10

LEMMA TakeAnswerKeeps ==
  ASSUME IInv, TakeAnswer
  PROVE  IInv'
<1>1. /\ ui.pc = "wait" /\ ui.handler.shape \in Singles /\ in # <<>> /\ in' = Tail(in)
      /\ IF Matches(Head(in)) THEN Return(ReadResponse(Head(in)), {Head(in).of})
                              ELSE Return("ignored", {})
  BY DEF TakeAnswer, Waiting, Singles
<1>2. down' = down
  BY <1>1 DEF Return, netVars
<1>3. /\ Flow # <<>> /\ Flow' = Tail(Flow) /\ Flow[1] = Head(in)
      /\ in' \in Seq(Message) /\ Head(in) \in Message
      /\ 1 \in 1..Len(Flow) /\ (Len(Flow) = 1 => Flow' = <<>>)
  BY <1>1, <1>2, Taking DEF IInv
<1>4. /\ Written(Head(in), ui.handler) /\ Head(in).of = no /\ no > 0 /\ no \in Nat
  BY <1>1, <1>3 DEF IInv, Arrivals, TypeOK
<1>5. /\ Head(in).what \in {"success", "failure"} /\ Matches(Head(in))
  BY <1>1, <1>4 DEF Written, Matches
<1>6. PICK verdict : verdict = ReadResponse(Head(in))
  OBVIOUS
<1>7. Return(verdict, {no})
  BY <1>1, <1>4, <1>5, <1>6
<1>8. verdict \in {Head(in).what, "ignored"}
  BY <1>6 DEF ReadResponse
<1>9. connected => OnlyRememberMe /\ Len(Flow) = 1
                   /\ (ui.handler.shape = "dialog" /\ Flow[1].what = "success"
                         => no \in performed)
  BY <1>1, <1>3 DEF IInv, Conversation, Outstanding, Answered
<1>10. ASSUME ui.handler.shape = "dialog" PROVE verdict = Head(in).what
  <2>1. ui.handler.reads = Response
    BY <1>10, Answering, PlainResponse DEF AnswerFits, IInv, TypeOK
  <2>2. Reads(Head(in).body, Response)
    BY <1>4, <1>5, <2>1 DEF Written
  <2>3. QED BY <1>6, <2>2 DEF ReadResponse
<1>11. connected /\ Accepts(ui.handler, verdict) => no \in performed
  BY <1>3, <1>5, <1>9, <1>10 DEF Accepts
<1>12. connected => Flow' = <<>>
  BY <1>3, <1>9
<1>13. {no} \subseteq 0..no
  BY <1>4
<1>14. verdict \in {"success", "failure", "loaded", "ignored", "lost"}
  BY <1>5, <1>8
<1>15. QED
  BY <1>1, <1>3, <1>7, <1>9, <1>11, <1>12, <1>13, <1>14, ReturningKeeps

LEMMA LastItemKeeps ==
  ASSUME IInv, LastItem
  PROVE  IInv'
<1>1. /\ ui.pc = "items" /\ ui.left = 0 /\ Return("loaded", ui.by) /\ in' = in
  BY DEF LastItem
<1>2. Flow' = Flow
  BY <1>1 DEF Return, netVars, Flow
<1>3. ui.by = {no} /\ ui.handler.shape \in Lists /\ Flow = <<>>
  BY <1>1 DEF IInv, Counted
<1>4. no \in Nat /\ in \in Seq(Message)
  BY DEF IInv, TypeOK
<1>5. connected => OnlyRememberMe
  BY <1>1 DEF IInv, Conversation
<1>6. ~Accepts(ui.handler, "loaded")
  BY <1>3 DEF Accepts, Lists
<1>7. Return("loaded", {no}) /\ {no} \subseteq 0..no
  BY <1>1, <1>3, <1>4
<1>8. QED BY <1>1, <1>2, <1>3, <1>4, <1>5, <1>6, <1>7, ReturningKeeps

LEMMA LostKeeps ==
  ASSUME IInv, Lost
  PROVE  IInv'
<1>1. ui.pc \in {"wait", "items"} /\ ~connected /\ Return("lost", {}) /\ in' = in
  BY DEF Lost
<1>2. Flow' = Flow
  BY <1>1 DEF Return, netVars, Flow
<1>3. in \in Seq(Message)
  BY DEF IInv, TypeOK
<1>4. QED BY <1>1, <1>2, <1>3, ReturningKeeps

\* A list is read on.
LEMMA ReadingKeeps ==
  ASSUME IInv, ui.pc \in {"wait", "items"}, ui.handler.shape \in Lists,
         in # <<>>, in' = Tail(in), NEW n \in Counts,
         ui' = [pc |-> "items", handler |-> ui.handler, left |-> n, by |-> {no}],
         Flow' = <<>> \/ (n \in 1..MaxItems /\ Len(Flow') <= n),
         connected => OnlyRememberMe /\ (Flow' = <<>> \/ Len(Flow') = n),
         board' \in Board, board'.cash = board.cash, board'.byPAT = board.byPAT,
         UNCHANGED <<netVars, up, page, todo, no, clicks, pat, done, accepted>>
  PROVE  IInv'
<1>1. /\ connected' = connected /\ serverRuns' = serverRuns /\ down' = down
      /\ performed' = performed /\ up' = up /\ page' = page /\ todo' = todo /\ no' = no
      /\ clicks' = clicks /\ pat' = pat /\ done' = done /\ accepted' = accepted
  BY DEF netVars
<1>2. /\ Flow' \in Seq(Message) /\ in' \in Seq(Message)
      /\ \A k \in 1..Len(Flow') : k + 1 \in 1..Len(Flow) /\ Flow'[k] = Flow[k + 1]
  BY <1>1, Taking DEF IInv
<1>3. /\ no \in Nat /\ ui.handler \in Handlers
  BY DEF IInv, TypeOK
<1>4. /\ ~connected => down = <<>>
      /\ no > 0
      /\ \A k \in 1..Len(Flow) : Written(Flow[k], ui.handler) /\ Flow[k].of = no
  BY DEF IInv, Arrivals
<1>5. ui'.pc = "items" /\ ui'.handler = ui.handler /\ ui'.left = n /\ ui'.by = {no}
  OBVIOUS
<1>6. TypeOK'
  <2>1. ui' \in [pc : PCs, handler : Handlers, left : Counts, by : SUBSET (0..no)]
    <3>1. "items" \in PCs /\ {no} \in SUBSET (0..no)
      BY <1>3 DEF PCs
    <3>2. QED BY <1>3, <3>1
  <2>2. QED BY <1>1, <1>2, <2>1 DEF IInv, TypeOK
<1>7. Requests'
  BY <1>1, <1>5 DEF IInv, Requests
<1>8. Arrivals'
  <2>1. \A k \in 1..Len(Flow') : Written(Flow'[k], ui.handler) /\ Flow'[k].of = no
    BY <1>2, <1>4
  <2>2. QED BY <1>1, <1>4, <1>5, <2>1 DEF Arrivals
<1>9. Counted'
  BY <1>1, <1>5 DEF Counted
<1>10. Conversation'
  <2>1. connected => accepted' \subseteq performed'
    BY <1>1 DEF IInv, Conversation
  <2>2. connected => OnlyRememberMe'
    BY <1>1 DEF OnlyRememberMe
  <2>3. QED BY <1>1, <1>5, <2>1, <2>2 DEF Conversation
<1>11. FirstLoad'
  <2>1. LoadCash.shape = "single"
    BY DEF LoadCash, Handler
  <2>2. ui.handler # LoadCash
    BY <2>1 DEF Lists
  <2>3. ~(connected /\ board.byPAT /\ board.cash = "unread")
    BY <2>2 DEF IInv, FirstLoad
  <2>4. QED BY <1>1, <2>3 DEF FirstLoad
<1>12. OwnAnswer'
  BY <1>1 DEF IInv, OwnAnswer
<1>13. QED BY <1>6, <1>7, <1>8, <1>9, <1>10, <1>11, <1>12 DEF IInv

LEMMA TakeCountKeeps ==
  ASSUME IInv, TakeCount
  PROVE  IInv'
<1> DEFINE m == Head(in)
<1>1. ui.pc = "wait" /\ ui.handler.shape \in Lists /\ in # <<>> /\ in' = Tail(in)
  BY DEF TakeCount, Waiting, Lists
<1>2. PICK n \in IF Matches(m) THEN ReadCount(m) ELSE {0} :
        IF ui.handler.shape = "listIfAny" /\ n <= 0
          THEN Return("loaded", IF Matches(m) THEN {m.of} ELSE {})
          ELSE /\ ui' = [ui EXCEPT !.pc = "items", !.left = n,
                                   !.by = IF Matches(m) THEN {m.of} ELSE {}]
               /\ UNCHANGED <<netVars, up, page, todo, board, no, clicks, pat, done,
                              accepted>>
  BY Zenon DEF TakeCount
<1>3. down' = down
  BY <1>2 DEF Return, netVars
<1>4. /\ Flow # <<>> /\ Flow' = Tail(Flow) /\ Flow[1] = m
      /\ in' \in Seq(Message) /\ m \in Message
      /\ 1 \in 1..Len(Flow) /\ (Len(Flow) = 1 => Flow' = <<>>)
      /\ \E l \in Nat : Len(Flow) = l + 1 /\ Len(Flow') = l
  BY <1>1, <1>3, Taking DEF IInv
<1>5. PICK l \in Nat : Len(Flow) = l + 1 /\ Len(Flow') = l
  BY <1>4
<1>6. /\ Written(m, ui.handler) /\ m.of = no /\ no > 0 /\ no \in Nat
      /\ ui \in [pc : PCs, handler : Handlers, left : Counts, by : SUBSET (0..no)]
      /\ board \in Board
  BY <1>1, <1>4 DEF IInv, Arrivals, TypeOK
<1>7. Matches(m) /\ m.n \in 0..MaxItems
  BY <1>4, <1>6 DEF Written, Matches, Message
<1>8. n \in ReadCount(m)
  BY <1>2, <1>7
<1>9. n \in Counts
  BY <1>7, <1>8, BoundsAssumption DEF ReadCount, Counts
<1>10. m.what = "count" => n = m.n
  BY <1>6, <1>8 DEF ReadCount, Written
<1>11. Len(Flow) = 1 \/ (m.what = "count" /\ Len(Flow) <= m.n + 1)
  BY <1>1, <1>4 DEF IInv, Counted
<1>12. connected =>
         /\ OnlyRememberMe
         /\ Len(Flow) = 1 \/ (m.what = "count" /\ Len(Flow) = m.n + 1)
  BY <1>1, <1>4 DEF IInv, Conversation, Outstanding, Answered
<1>13. Len(Flow') = 0 => Flow' = <<>>
  <2>1. Len(Flow') = 0 => l = 0
    BY <1>5
  <2>2. l = 0 => Len(Flow) = 1
    BY <1>5
  <2>3. QED BY <1>4, <2>1, <2>2
<1>14. Flow' = <<>> \/ (n \in 1..MaxItems /\ Len(Flow') <= n)
  <2>1. CASE Len(Flow) = 1
    BY <1>4, <2>1
  <2>2. CASE m.what = "count" /\ Len(Flow) <= m.n + 1
    <3>1. l + 1 <= n + 1 /\ n \in 0..MaxItems
      BY <1>5, <1>7, <1>10, <2>2
    <3>2. l = 0 \/ (n \in 1..MaxItems /\ l <= n)
      BY <1>5, <3>1, BoundsAssumption
    <3>3. QED BY <1>5, <1>13, <3>2
  <2>3. QED BY <1>11, <2>1, <2>2
<1>15. connected => Flow' = <<>> \/ Len(Flow') = n
  <2>1. CASE Len(Flow) = 1
    BY <1>4, <2>1
  <2>2. CASE m.what = "count" /\ Len(Flow) = m.n + 1
    <3>1. l + 1 = n + 1 /\ n \in 0..MaxItems
      BY <1>5, <1>7, <1>10, <2>2
    <3>2. l = n
      BY <1>5, <3>1
    <3>3. QED BY <1>5, <3>2
  <2>3. QED BY <1>12, <2>1, <2>2
<1>16. CASE ui.handler.shape = "listIfAny" /\ n <= 0
  <2>1. Return("loaded", {no})
    BY <1>2, <1>6, <1>7, <1>16
  <2>2. Flow' = <<>>
    <3>1. ~(n \in 1..MaxItems)
      BY <1>16, BoundsAssumption
    <3>2. QED BY <1>14, <3>1
  <2>3. ~Accepts(ui.handler, "loaded") /\ {no} \subseteq 0..no
    BY <1>6, <1>16 DEF Accepts
  <2>4. QED BY <1>1, <1>4, <1>12, <2>1, <2>2, <2>3, ReturningKeeps
<1>17. CASE ~(ui.handler.shape = "listIfAny" /\ n <= 0)
  <2>1. /\ ui' = [ui EXCEPT !.pc = "items", !.left = n, !.by = {no}]
        /\ UNCHANGED <<netVars, up, page, todo, board, no, clicks, pat, done, accepted>>
    BY <1>2, <1>6, <1>7, <1>17
  <2>2. ui' = [pc |-> "items", handler |-> ui.handler, left |-> n, by |-> {no}]
    BY <1>6, <2>1
  <2>3. /\ board' = board
        /\ UNCHANGED <<netVars, up, page, todo, no, clicks, pat, done, accepted>>
    BY <2>1
  <2>4. QED BY <1>1, <1>6, <1>9, <1>12, <1>14, <1>15, <2>2, <2>3, ReadingKeeps
<1>18. QED BY <1>16, <1>17

LEMMA TakeItemKeeps ==
  ASSUME IInv, TakeItem
  PROVE  IInv'
<1>1. /\ ui.pc = "items" /\ in # <<>> /\ in' = Tail(in)
      /\ UNCHANGED <<netVars, up, page, todo, no, clicks, pat, done, accepted>>
      /\ IF Matches(Head(in))
           THEN /\ ui' = [ui EXCEPT !.left = @ - 1, !.by = @ \cup {Head(in).of}]
                /\ board' = [board EXCEPT !.history = @ \/ ui.handler = LoadTranzactions]
           ELSE UNCHANGED <<ui, board>>
  BY DEF TakeItem
<1>2. down' = down
  BY <1>1 DEF netVars
<1>3. /\ Flow # <<>> /\ Flow[1] = Head(in) /\ 1 \in 1..Len(Flow)
      /\ (Len(Flow) = 1 => Flow' = <<>>)
      /\ \E l \in Nat : Len(Flow) = l + 1 /\ Len(Flow') = l
  BY <1>1, <1>2, Taking DEF IInv
<1>4. PICK l \in Nat : Len(Flow) = l + 1 /\ Len(Flow') = l
  BY <1>3
<1>5. /\ Written(Head(in), ui.handler) /\ Head(in).of = no
      /\ ui \in [pc : PCs, handler : Handlers, left : Counts, by : SUBSET (0..no)]
      /\ board \in Board
  BY <1>1, <1>3 DEF IInv, Arrivals, TypeOK
<1>6. /\ ui.by = {no} /\ ui.handler.shape \in Lists
      /\ ui.left \in 1..MaxItems /\ Len(Flow) <= ui.left
  BY <1>1, <1>3 DEF IInv, Counted
<1>7. connected => OnlyRememberMe /\ Len(Flow) = ui.left
  BY <1>1, <1>3 DEF IInv, Conversation
<1>8. PICK n : n = ui.left - 1
  OBVIOUS
<1>9. n \in Nat /\ n + 1 = ui.left /\ n \in 0..MaxItems
  BY <1>6, <1>8, BoundsAssumption
<1>10. n \in Counts
  BY <1>9, BoundsAssumption DEF Counts
<1>11. ui' = [pc |-> "items", handler |-> ui.handler, left |-> n, by |-> {no}]
  <2>1. ui' = [ui EXCEPT !.left = ui.left - 1, !.by = ui.by \cup {no}]
    BY <1>1, <1>5 DEF Written, Matches
  <2>2. ui.by \cup {no} = {no}
    BY <1>6
  <2>3. QED BY <1>1, <1>5, <1>8, <2>1, <2>2
<1>12. board' \in Board /\ board'.cash = board.cash /\ board'.byPAT = board.byPAT
  BY <1>1, <1>5 DEF Board
<1>13. Flow' = <<>> \/ (n \in 1..MaxItems /\ Len(Flow') <= n)
  <2>1. l + 1 <= n + 1
    BY <1>4, <1>6, <1>9
  <2>2. l = 0 \/ (n \in 1..MaxItems /\ l <= n)
    BY <1>9, <2>1, BoundsAssumption
  <2>3. l = 0 => Len(Flow) = 1
    BY <1>4
  <2>4. QED BY <1>3, <1>4, <2>2, <2>3
<1>14. connected => Len(Flow') = n
  <2>1. connected => l + 1 = n + 1
    BY <1>4, <1>7, <1>9
  <2>2. QED BY <1>4, <1>9, <2>1
<1>15. QED
  BY <1>1, <1>6, <1>7, <1>10, <1>11, <1>12, <1>13, <1>14, ReadingKeeps

-----------------------------------------------------------------------------
(***************************************************************************)
(* The other steps of the client, and the network.                         *)
(***************************************************************************)
LEMMA EndingKeeps ==
  ASSUME IInv, FirstLost \/ Reconnect
  PROVE  IInv'
<1>1. /\ ~connected /\ ui.pc \in {"first", "page"} /\ (ui.pc = "first" => in = <<>>)
      /\ ui' = [ui EXCEPT !.pc = "ended"]
      /\ connected' = connected /\ serverRuns' = serverRuns /\ down' = down
      /\ performed' = performed /\ up' = up /\ in' = in /\ page' = page /\ todo' = todo
      /\ board' = board /\ no' = no /\ clicks' = clicks /\ pat' = pat /\ done' = done
      /\ accepted' = accepted
  BY DEF FirstLost, Reconnect, netVars
<1>2. ui \in [pc : PCs, handler : Handlers, left : Counts, by : SUBSET (0..no)]
  BY DEF IInv, TypeOK
<1>3. ui'.pc = "ended" /\ ui'.handler = ui.handler
  BY <1>1, <1>2
<1>4. TypeOK'
  <2>1. ui' \in [pc : PCs, handler : Handlers, left : Counts, by : SUBSET (0..no)]
    <3>1. "ended" \in PCs
      BY DEF PCs
    <3>2. QED BY <1>1, <1>2, <3>1
  <2>2. QED BY <1>1, <2>1 DEF IInv, TypeOK
<1>5. Requests'
  BY <1>1, <1>3 DEF IInv, Requests
<1>6. Flow' = Flow
  BY <1>1 DEF Flow
<1>7. Arrivals'
  <2>1. ~connected => down = <<>>
    BY DEF IInv, Arrivals
  <2>2. ui.pc = "first" => Flow = <<>>
    <3>1. <<>> \o <<>> = <<>>
      OBVIOUS
    <3>2. QED BY <1>1, <2>1, <3>1 DEF Flow
  <2>3. \A k \in 1..Len(Flow) : Written(Flow[k], ui.handler)
    <3>1. Len(<<>>) = 0 /\ 1..0 = {}
      OBVIOUS
    <3>2. CASE ui.pc = "first"
      BY <2>2, <3>1, <3>2
    <3>3. CASE ui.pc = "page"
      BY <3>3 DEF IInv, Arrivals
    <3>4. QED BY <1>1, <3>2, <3>3
  <2>4. QED BY <1>1, <1>3, <1>6, <2>1, <2>3 DEF Arrivals
<1>8. Counted'
  BY <1>3 DEF Counted
<1>9. Conversation' /\ FirstLoad'
  BY <1>1 DEF Conversation, FirstLoad
<1>10. OwnAnswer'
  BY <1>1 DEF IInv, OwnAnswer
<1>11. QED BY <1>4, <1>5, <1>7, <1>8, <1>9, <1>10 DEF IInv

LEMMA LogoutForgottenKeeps ==
  ASSUME IInv, LogoutForgotten
  PROVE  IInv'
<1>1. /\ ui.pc = "page" /\ todo = <<>> /\ page' = "login"
      /\ connected' = connected /\ serverRuns' = serverRuns /\ down' = down
      /\ performed' = performed /\ up' = up /\ in' = in /\ todo' = todo
      /\ board' = board /\ ui' = ui /\ no' = no /\ clicks' = clicks /\ pat' = pat
      /\ done' = done /\ accepted' = accepted
  BY DEF LogoutForgotten, netVars
<1>2. Flow' = Flow
  BY <1>1 DEF Flow
<1>3. TypeOK'
  BY <1>1 DEF IInv, TypeOK
<1>4. Requests' /\ Arrivals' /\ Counted'
  BY <1>1, <1>2 DEF IInv, Requests, Arrivals, Counted
<1>5. Conversation'
  <2>1. (OnlyRememberMe)' = OnlyRememberMe
    BY <1>1 DEF OnlyRememberMe
  <2>2. QED BY <1>1, <1>2, <2>1 DEF IInv, Conversation
<1>6. FirstLoad'
  BY <1>1 DEF IInv, FirstLoad
<1>7. OwnAnswer'
  BY <1>1 DEF IInv, OwnAnswer
<1>8. QED BY <1>3, <1>4, <1>5, <1>6, <1>7 DEF IInv

\* A message that arrives changes its queue, and not its place in the order.
LEMMA ArriveKeeps ==
  ASSUME IInv, Arrive
  PROVE  IInv'
<1>1. /\ connected /\ down # <<>> /\ in' = Append(in, Head(down)) /\ down' = Tail(down)
      /\ connected' = connected /\ serverRuns' = serverRuns
      /\ performed' = performed /\ up' = up /\ page' = page /\ todo' = todo
      /\ board' = board /\ ui' = ui /\ no' = no /\ clicks' = clicks /\ pat' = pat
      /\ done' = done /\ accepted' = accepted
  BY DEF Arrive, clientVars
<1>2. in \in Seq(Message) /\ down \in Seq(Message)
  BY DEF IInv, TypeOK
<1>3. Flow' = Flow
  BY <1>1, <1>2, Queues DEF Flow
<1>4. TypeOK'
  <2>1. in' \in Seq(Message) /\ down' \in Seq(Message)
    BY <1>1, <1>2, HeadTailProperties, AppendProperties
  <2>2. QED BY <1>1, <2>1 DEF IInv, TypeOK
<1>5. Requests' /\ Arrivals' /\ Counted'
  BY <1>1, <1>3 DEF IInv, Requests, Arrivals, Counted
<1>6. Conversation'
  <2>1. /\ (OnlyRememberMe)' = OnlyRememberMe /\ Outstanding' = Outstanding
        /\ Answered' = Answered
    BY <1>1, <1>3 DEF OnlyRememberMe, Outstanding, Answered
  <2>2. QED BY <1>1, <1>3, <2>1 DEF IInv, Conversation
<1>7. FirstLoad'
  BY <1>1 DEF IInv, FirstLoad
<1>8. OwnAnswer'
  BY <1>1 DEF IInv, OwnAnswer
<1>9. QED BY <1>4, <1>5, <1>6, <1>7, <1>8 DEF IInv

\* What was not received is lost with the connection.
LEMMA BreakKeeps ==
  ASSUME IInv, Break \/ Crash
  PROVE  IInv'
<1>1. /\ connected' = FALSE /\ down' = <<>> /\ in' = in
      /\ serverRuns' \in {serverRuns, FALSE}
      /\ performed' = performed /\ up' = up /\ page' = page /\ todo' = todo
      /\ board' = board /\ ui' = ui /\ no' = no /\ clicks' = clicks /\ pat' = pat
      /\ done' = done /\ accepted' = accepted
  BY DEF Break, Crash, clientVars
<1>2. in \in Seq(Message) /\ down \in Seq(Message)
  BY DEF IInv, TypeOK
<1>3. Flow' = in
  BY <1>1, <1>2, Queues DEF Flow
<1>4. PICK m \in Nat, n \in Nat : m = Len(in) /\ n = Len(down)
  BY <1>2, LenProperties
<1>5. Len(Flow) = m + n /\ \A k \in 1..m : Flow[k] = in[k]
  BY <1>2, <1>4, Queues DEF Flow
<1>6. \A k \in 1..Len(in) : k \in 1..Len(Flow) /\ in[k] = Flow[k]
  <2>1. \A k \in 1..m : k \in 1..m + n
    OBVIOUS
  <2>2. QED BY <1>4, <1>5, <2>1
<1>7. TypeOK'
  BY <1>1, <1>2, EmptySeq DEF IInv, TypeOK
<1>8. Requests'
  BY <1>1 DEF IInv, Requests
<1>9. Arrivals'
  BY <1>1, <1>3, <1>6 DEF IInv, Arrivals
<1>10. Counted'
  <2>1. in # <<>> => Flow # <<>> /\ in[1] = Flow[1]
    <3>1. in # <<>> => Flow # <<>>
      BY <1>2, Queues DEF Flow
    <3>2. in # <<>> => 1 \in 1..m
      BY <1>2, <1>4, EmptySeq
    <3>3. QED BY <1>5, <3>1, <3>2
  <2>2. ASSUME in # <<>>, NEW l \in Nat, Len(Flow) <= l PROVE Len(in) <= l
    BY <1>4, <1>5, <2>2
  <2>3. ASSUME in # <<>>, Len(Flow) = 1 PROVE Len(in) = 1
    <3>1. m + n = 1 /\ m \in Nat \ {0}
      BY <1>2, <1>4, <1>5, <2>3, EmptySeq
    <3>2. QED BY <1>4, <3>1
  <2>4. ASSUME ui.pc = "wait", ui.handler.shape \in Lists, in # <<>>
        PROVE  Len(in) = 1 \/ (in[1].what = "count" /\ Len(in) <= in[1].n + 1)
    <3>1. Flow[1].n + 1 \in Nat
      <4>1. Flow[1] \in Message
        BY <1>2, <2>1, <2>4, HeadTailProperties
      <4>2. QED BY <4>1, BoundsAssumption DEF Message
    <3>2. QED BY <2>1, <2>2, <2>3, <2>4, <3>1 DEF IInv, Counted
  <2>5. ASSUME ui.pc = "items"
        PROVE  /\ ui.by = {no} /\ ui.handler.shape \in Lists
               /\ in = <<>> \/ (ui.left \in 1..MaxItems /\ Len(in) <= ui.left)
    <3>1. /\ ui.by = {no} /\ ui.handler.shape \in Lists
          /\ Flow = <<>> \/ (ui.left \in 1..MaxItems /\ Len(Flow) <= ui.left)
      BY <2>5 DEF IInv, Counted
    <3>2. ui.left \in 1..MaxItems => ui.left \in Nat
      BY BoundsAssumption
    <3>3. QED BY <2>1, <2>2, <3>1, <3>2
  <2>6. QED BY <1>1, <1>3, <2>4, <2>5 DEF Counted
<1>11. Conversation' /\ FirstLoad'
  BY <1>1 DEF Conversation, FirstLoad
<1>12. OwnAnswer'
  BY <1>1 DEF IInv, OwnAnswer
<1>13. QED BY <1>7, <1>8, <1>9, <1>10, <1>11, <1>12 DEF IInv

-----------------------------------------------------------------------------
(***************************************************************************)
(* The server answers.                                                     *)
(***************************************************************************)

\* A request that is answered is the handler's, and as long as the client
\* is there to take the answer, it is the only one.
LEMMA BeforeServing ==
  ASSUME IInv, NEW shapes \in SUBSET (Singles \cup Lists), Asks(shapes)
  PROVE  /\ up # <<>> /\ up \in Seq(Request) /\ Asked = up[1] /\ 1 \in 1..Len(up)
         /\ Asked.handler = ui.handler /\ ui.handler \in Handlers
         /\ ui.handler.shape \in shapes
         /\ Asked.of \in 1..no /\ ui.pc # "first"
         /\ Tail(up) \in Seq(Request)
         /\ \A k \in 1..Len(Tail(up)) : k + 1 \in 1..Len(up) /\ Tail(up)[k] = up[k + 1]
         /\ connected => /\ ui.pc = "wait" /\ Tail(up) = <<>> /\ Asked.of = no
                         /\ in = <<>> /\ down = <<>>
         /\ \A what, n : \A fields \in Seq(Fields) :
              Reply(what, n, fields) = [id |-> ui.handler.answer, of |-> Asked.of,
                                        what |-> what, n |-> n, body |-> fields]
<1>1. /\ up # <<>> /\ up \in Seq(Request) /\ Asked.handler.shape \in shapes
      /\ in \in Seq(Message) /\ down \in Seq(Message)
      /\ ui.handler \in Handlers
  BY DEF IInv, TypeOK, Asks
<1>2. /\ Asked = up[1] /\ Tail(up) \in Seq(Request)
      /\ \A k \in 1..Len(Tail(up)) : Tail(up)[k] = up[k + 1]
      /\ Len(Tail(up)) = Len(up) - 1
  BY <1>1, HeadTailProperties DEF Asked
<1>3. PICK l \in Nat \ {0} : l = Len(up)
  <2>1. Len(up) \in Nat \ {0}
    BY <1>1, EmptySeq
  <2>2. QED BY <2>1
<1>4. 1 \in 1..l /\ \A k \in 1..l - 1 : k + 1 \in 1..l
  OBVIOUS
<1>5. /\ Asked.of \in 1..no /\ Asked.handler \in {RememberMe, ui.handler}
      /\ Asked.body = Push(<<>>, Asked.handler.pushes)
  BY <1>2, <1>3, <1>4 DEF IInv, Requests
<1>6. Asked.handler # RememberMe /\ Asked.handler = ui.handler
  <2>1. RememberMe.shape = "unanswered"
    BY DEF RememberMe, Handler
  <2>2. QED BY <1>1, <1>5, <2>1 DEF Singles, Lists
<1>7. ui.pc # "first"
  BY <1>1 DEF IInv, Arrivals
<1>8. ASSUME connected
      PROVE  ui.pc = "wait" /\ Tail(up) = <<>> /\ Asked.of = no /\ in = <<>> /\ down = <<>>
  <2>1. ~OnlyRememberMe
    BY <1>2, <1>3, <1>4, <1>6 DEF OnlyRememberMe
  <2>2. ui.pc = "wait" /\ Outstanding
    BY <1>7, <1>8, <2>1 DEF IInv, TypeOK, PCs, Conversation, Answered
  <2>3. l = 1
    <3>1. ~(1 < l)
      BY <1>2, <1>3, <1>4, <1>6, <2>2 DEF Outstanding
    <3>2. QED BY <3>1
  <2>4. Len(Tail(up)) = 0
    BY <1>2, <1>3, <2>3
  <2>5. Tail(up) = <<>>
    BY <1>2, <2>4, EmptySeq
  <2>6. Asked.of = no
    BY <1>2, <1>3, <2>2, <2>3 DEF Outstanding
  <2>7. in = <<>> /\ down = <<>>
    BY <1>1, <2>2, Queues DEF Outstanding, Flow
  <2>8. QED BY <2>2, <2>5, <2>6, <2>7
<1>9. ASSUME NEW what, NEW n, NEW fields \in Seq(Fields)
      PROVE  Reply(what, n, fields) = [id |-> ui.handler.answer, of |-> Asked.of,
                                       what |-> what, n |-> n, body |-> fields]
  <2>1. Pop(Asked.body, Asked.handler.case.pops) = <<>>
    BY <1>1, <1>5, <1>6, Popped
  <2>2. Push(<<>>, fields) = fields
    BY DEF Push
  <2>3. QED BY <1>6, <2>1, <2>2 DEF Reply
<1>10. \A k \in 1..Len(Tail(up)) : k + 1 \in 1..Len(up)
  BY <1>2, <1>3, <1>4
<1>11. QED BY <1>1, <1>2, <1>3, <1>4, <1>5, <1>6, <1>7, <1>8, <1>9, <1>10

\* With the answer all of it is under way.
LEMMA ServingKeeps ==
  ASSUME IInv, NEW shapes \in SUBSET (Singles \cup Lists), Asks(shapes),
         NEW answers, connected => answers \in Seq(Message), Served(answers), answers # <<>>,
         \A k \in 1..Len(answers) :
           Written(answers[k], ui.handler) /\ answers[k].of = Asked.of,
         ui.handler.shape \in Singles => Len(answers) = 1,
         ui.handler.shape \in Lists =>
           Len(answers) = 1 \/ (answers[1].what = "count" /\ Len(answers) = answers[1].n + 1),
         performed' \in {performed, performed \cup {Asked.of}},
         ui.handler.shape = "dialog" /\ answers[1].what = "success" =>
           Asked.of \in performed'
  PROVE  IInv'
<1>1. /\ up # <<>> /\ up \in Seq(Request) /\ Asked = up[1] /\ 1 \in 1..Len(up)
      /\ Asked.handler = ui.handler /\ ui.handler \in Handlers
      /\ ui.handler.shape \in shapes
      /\ Asked.of \in 1..no /\ ui.pc # "first"
      /\ Tail(up) \in Seq(Request)
      /\ \A k \in 1..Len(Tail(up)) : k + 1 \in 1..Len(up) /\ Tail(up)[k] = up[k + 1]
      /\ connected => /\ ui.pc = "wait" /\ Tail(up) = <<>> /\ Asked.of = no
                      /\ in = <<>> /\ down = <<>>
  BY BeforeServing
<1>2. /\ up' = Tail(up) /\ down' = (IF connected THEN down \o answers ELSE down)
      /\ connected' = connected /\ serverRuns' = serverRuns /\ in' = in
      /\ page' = page /\ todo' = todo /\ board' = board /\ ui' = ui /\ no' = no
      /\ clicks' = clicks /\ pat' = pat /\ done' = done /\ accepted' = accepted
  BY DEF Served, clientVars
<1>3. connected => down' = answers /\ Flow' = answers
  BY <1>1, <1>2, Queues DEF Flow
<1>4. ~connected => down' = down /\ Flow' = Flow
  BY <1>2 DEF Flow
<1>5. in \in Seq(Message) /\ down \in Seq(Message)
  BY DEF IInv, TypeOK
<1>6. TypeOK'
  <2>1. down' \in Seq(Message)
    BY <1>3, <1>4, <1>5
  <2>2. performed' \subseteq 1..no
    BY <1>1 DEF IInv, TypeOK
  <2>3. QED BY <1>1, <1>2, <2>1, <2>2 DEF IInv, TypeOK
<1>7. Requests'
  <2>1. ASSUME NEW k \in 1..Len(up')
        PROVE  \E j \in 1..Len(up) : up'[k] = up[j]
    BY <1>1, <1>2
  <2>2. QED BY <1>2, <2>1 DEF IInv, Requests
<1>8. Arrivals'
  <2>1. CASE connected
    BY <1>1, <1>2, <1>3, <2>1 DEF IInv, Arrivals
  <2>2. CASE ~connected
    BY <1>1, <1>2, <1>4, <2>2 DEF IInv, Arrivals
  <2>3. QED BY <2>1, <2>2
<1>9. Counted'
  <2>1. CASE connected
    <3>1. answers[1].what = "count" => answers[1].n + 1 \in Nat
      <4>1. answers[1] \in Message
        BY <2>1, EmptySeq, ElementOfSeq
      <4>2. QED BY <4>1, BoundsAssumption DEF Message
    <3>2. ui.handler.shape \in Lists =>
            Len(answers) = 1 \/ (answers[1].what = "count" /\ Len(answers) <= answers[1].n + 1)
      BY <3>1
    <3>3. QED BY <1>1, <1>2, <1>3, <2>1, <3>2 DEF Counted
  <2>2. CASE ~connected
    BY <1>2, <1>4, <2>2 DEF IInv, Counted
  <2>3. QED BY <2>1, <2>2
<1>10. Conversation'
  <2>1. ASSUME connected PROVE Answered'
    <3>1. OnlyRememberMe'
      <4>1. up' = <<>> /\ Len(<<>>) = 0 /\ 1..0 = {}
        BY <1>1, <1>2, <2>1
      <4>2. QED BY <4>1 DEF OnlyRememberMe
    <3>2. QED BY <1>1, <1>2, <1>3, <2>1, <3>1 DEF Answered
  <2>2. connected => accepted \subseteq performed'
    BY DEF IInv, Conversation
  <2>3. QED BY <1>1, <1>2, <2>1, <2>2 DEF Conversation
<1>11. FirstLoad'
  BY <1>2 DEF IInv, FirstLoad
<1>12. OwnAnswer'
  BY <1>2 DEF IInv, OwnAnswer
<1>13. QED BY <1>6, <1>7, <1>8, <1>9, <1>10, <1>11, <1>12 DEF IInv

\* An answer by its parts.
LEMMA ReplyIs ==
  ASSUME IInv, NEW shapes \in SUBSET (Singles \cup Lists), Asks(shapes),
         NEW what \in {"success", "failure", "count", "item"}, NEW n \in 0..MaxItems,
         NEW fields \in Seq(Fields)
  PROVE  /\ Reply(what, n, fields) \in Message
         /\ Reply(what, n, fields).id = ui.handler.answer
         /\ Reply(what, n, fields).of = Asked.of /\ Reply(what, n, fields).what = what
         /\ Reply(what, n, fields).n = n /\ Reply(what, n, fields).body = fields
<1>1. /\ Asked.of \in 1..no /\ ui.handler \in Handlers
      /\ Reply(what, n, fields) = [id |-> ui.handler.answer, of |-> Asked.of,
                                   what |-> what, n |-> n, body |-> fields]
  BY BeforeServing
<1>2. Asked.of \in Nat /\ ui.handler.answer \in Answers
  BY <1>1 DEF Answers, IInv, TypeOK
<1>3. QED BY <1>1, <1>2 DEF Message

\* One message.
LEMMA OneReply ==
  ASSUME NEW m \in Message
  PROVE  /\ <<m>> \in Seq(Message) /\ <<m>> # <<>> /\ Len(<<m>>) = 1 /\ <<m>>[1] = m
         /\ \A k \in 1..Len(<<m>>) : <<m>>[k] = m
OBVIOUS

LEMMA AnswerOnceKeeps ==
  ASSUME IInv, AnswerOnce
  PROVE  IInv'
<1>1. PICK what \in {"success", "failure"} :
        /\ Asks(Singles)
        /\ Served(<<Reply(what, 0, IF what = "failure" /\ Asked.handler = LoadBudgets
                                    THEN Response ELSE Asked.handler.case.pushes)>>)
        /\ performed' = IF what = "success" /\ Asked.handler.shape = "dialog"
                          THEN performed \cup {Asked.of} ELSE performed
  BY DEF AnswerOnce, Singles
<1>2. /\ Asked.handler = ui.handler /\ ui.handler \in Handlers
      /\ ui.handler.shape \in Singles
  BY <1>1, BeforeServing
<1>3. PICK fields : fields = IF what = "failure" /\ Asked.handler = LoadBudgets
                               THEN Response ELSE Asked.handler.case.pushes
  OBVIOUS
<1>4. /\ fields \in Seq(Fields)
      /\ what = "success" => Reads(fields, ui.handler.reads)
      /\ what = "failure" => Reads(fields, Response)
  BY <1>2, <1>3, FieldsOf, AnswerRead DEF Singles
<1>5. PICK m : m = Reply(what, 0, fields)
  OBVIOUS
<1>6. /\ m \in Message /\ m.id = ui.handler.answer /\ m.of = Asked.of
      /\ m.what = what /\ m.body = fields
  BY <1>1, <1>4, <1>5, ReplyIs, BoundsAssumption
<1>7. Served(<<m>>)
  BY <1>1, <1>3, <1>5
<1>8. Written(m, ui.handler)
  BY <1>4, <1>6 DEF Written
<1>9. <<m>> \in Seq(Message) /\ <<m>> # <<>> /\ Len(<<m>>) = 1 /\ <<m>>[1] = m
      /\ \A k \in 1..Len(<<m>>) : Written(<<m>>[k], ui.handler) /\ <<m>>[k].of = Asked.of
  BY <1>6, <1>8, OneReply
<1>10. /\ performed' \in {performed, performed \cup {Asked.of}}
       /\ ui.handler.shape = "dialog" /\ m.what = "success" => Asked.of \in performed'
  BY <1>1, <1>2, <1>6
<1>11. ui.handler.shape \notin Lists
  BY <1>2 DEF Singles, Lists
<1>12. QED BY <1>1, <1>7, <1>9, <1>10, <1>11, ServingKeeps

LEMMA AnswerListFailedKeeps ==
  ASSUME IInv, AnswerListFailed
  PROVE  IInv'
<1>1. Asks(Lists) /\ Served(<<Reply("failure", 0, Response)>>) /\ performed' = performed
  BY DEF AnswerListFailed, Lists
<1>2. ui.handler.shape \in Lists
  BY <1>1, BeforeServing
<1>3. PICK m : m = Reply("failure", 0, Response)
  OBVIOUS
<1>4. /\ m \in Message /\ m.id = ui.handler.answer /\ m.of = Asked.of
      /\ m.what = "failure" /\ m.body = Response
  <2>1. 0 \in 0..MaxItems /\ Response \in Seq(Fields)
    BY BoundsAssumption, FieldsOf
  <2>2. Lists \in SUBSET (Singles \cup Lists)
    OBVIOUS
  <2>3. QED BY <1>1, <1>3, <2>1, <2>2, ReplyIs
<1>5. ui.handler.shape \notin Singles
  BY <1>2 DEF Singles, Lists
<1>6. Written(m, ui.handler)
  BY <1>4, <1>5, AnswerRead DEF Written
<1>7. <<m>> \in Seq(Message) /\ <<m>> # <<>> /\ Len(<<m>>) = 1 /\ <<m>>[1] = m
      /\ \A k \in 1..Len(<<m>>) : Written(<<m>>[k], ui.handler) /\ <<m>>[k].of = Asked.of
  BY <1>4, <1>6, OneReply
<1>8. Served(<<m>>)
  BY <1>1, <1>3
<1>9. QED BY <1>1, <1>4, <1>5, <1>7, <1>8, ServingKeeps

\* The count, and each item upon those before it.
LEMMA AnswerListKeeps ==
  ASSUME IInv, AnswerList
  PROVE  IInv'
<1>1. PICK n \in 0..MaxItems :
        /\ Asks(Lists)
        /\ Served([k \in 1..n + 1 |->
                     IF k = 1 THEN Reply("count", n, Count)
                              ELSE Reply("item", k - 1, Count \o Items(k - 1))])
        /\ performed' = performed
  BY DEF AnswerList, Lists
<1>2. /\ Asked.handler = ui.handler /\ ui.handler \in Handlers
      /\ ui.handler.shape \in Lists
  BY <1>1, BeforeServing
<1>3. n \in Nat /\ n + 1 \in Nat /\ 1 \in 1..n + 1
  BY BoundsAssumption
<1>4. PICK answers : answers = [k \in 1..n + 1 |->
                                  IF k = 1 THEN Reply("count", n, Count)
                                  ELSE Reply("item", k - 1, Count \o Items(k - 1))]
  OBVIOUS
<1>5. Served(answers)
  BY <1>1, <1>4
<1>6. ui.handler.shape \notin Singles
  BY <1>2 DEF Singles, Lists
<1>7. /\ answers[1] \in Message /\ Written(answers[1], ui.handler)
      /\ answers[1].of = Asked.of /\ answers[1].what = "count" /\ answers[1].n = n
  <2>1. answers[1] = Reply("count", n, Count)
    BY <1>3, <1>4
  <2>2. /\ answers[1] \in Message /\ answers[1].id = ui.handler.answer
        /\ answers[1].of = Asked.of /\ answers[1].what = "count" /\ answers[1].n = n
        /\ answers[1].body = Count
    BY <1>1, <2>1, FieldsOf, ReplyIs
  <2>3. QED BY <1>6, <2>2, AnswerRead DEF Written
<1>8. ASSUME NEW k \in 1..n + 1, k # 1
      PROVE  /\ answers[k] \in Message /\ Written(answers[k], ui.handler)
             /\ answers[k].of = Asked.of
  <2>1. k - 1 \in Nat \ {0} /\ k - 1 \in 0..MaxItems
    BY <1>8, BoundsAssumption
  <2>2. answers[k] = Reply("item", k - 1, Count \o Items(k - 1))
    BY <1>4, <1>8
  <2>3. Items(k - 1) = [i \in 1..(k - 1) * Len(ui.handler.case.pushes) |->
                          ui.handler.case.pushes[1 + ((i - 1) % Len(ui.handler.case.pushes))]]
    BY <1>2 DEF Items
  <2>4. /\ Reads(Count \o Items(k - 1), ui.handler.reads)
        /\ Count \o Items(k - 1) \in Seq(Fields)
    BY <1>2, <2>1, <2>3, ItemRead DEF Lists
  <2>5. /\ answers[k] \in Message /\ answers[k].id = ui.handler.answer
        /\ answers[k].of = Asked.of /\ answers[k].what = "item"
        /\ answers[k].body = Count \o Items(k - 1)
    <3>1. PICK body \in Seq(Fields) : body = Count \o Items(k - 1)
      BY <2>4
    <3>2. Lists \in SUBSET (Singles \cup Lists)
      OBVIOUS
    <3>3. answers[k] = Reply("item", k - 1, body)
      BY <2>2, <3>1
    <3>4. /\ answers[k] \in Message /\ answers[k].id = ui.handler.answer
          /\ answers[k].of = Asked.of /\ answers[k].what = "item" /\ answers[k].body = body
      BY <1>1, <2>1, <3>2, <3>3, ReplyIs
    <3>5. QED BY <3>1, <3>4
  <2>6. QED BY <1>6, <2>4, <2>5 DEF Written
<1>9. answers \in Seq(Message) /\ Len(answers) = n + 1 /\ answers # <<>>
  <2>1. \A k \in 1..n + 1 : answers[k] \in Message
    BY <1>7, <1>8
  <2>2. answers \in [1..n + 1 -> Message]
    BY <1>4, <2>1, Zenon
  <2>3. answers \in Seq(Message) /\ Len(answers) = n + 1
    BY <1>3, <2>2
  <2>4. n + 1 # 0
    BY <1>3
  <2>5. QED BY <2>3, <2>4, EmptySeq
<1>10. \A k \in 1..Len(answers) :
         Written(answers[k], ui.handler) /\ answers[k].of = Asked.of
  BY <1>7, <1>8, <1>9
<1>11. answers[1].what = "count" /\ Len(answers) = answers[1].n + 1
  BY <1>7, <1>9
<1>12. ui.handler.shape # "dialog"
  BY <1>2 DEF Lists
<1>13. QED BY <1>1, <1>5, <1>6, <1>9, <1>10, <1>11, <1>12, ServingKeeps

\* Nothing comes back to RememberMe, and the handler's request stays the last.
LEMMA AnswerRememberMeKeeps ==
  ASSUME QueriesExecute, IInv, AnswerRememberMe
  PROVE  IInv'
<1>1. /\ up # <<>> /\ Asked.handler.shape = "unanswered" /\ Served(<<>>)
      /\ performed' = performed
  BY DEF AnswerRememberMe, Asks
<1>2. /\ up' = Tail(up) /\ down' = (IF connected THEN down \o <<>> ELSE down)
      /\ connected' = connected /\ serverRuns' = serverRuns /\ in' = in
      /\ page' = page /\ todo' = todo /\ board' = board /\ ui' = ui /\ no' = no
      /\ clicks' = clicks /\ pat' = pat /\ done' = done /\ accepted' = accepted
  BY <1>1 DEF Served, clientVars
<1>3. up \in Seq(Request) /\ in \in Seq(Message) /\ down \in Seq(Message)
  BY DEF IInv, TypeOK
<1>4. down' = down
  BY <1>2, <1>3, Queues
<1>5. Flow' = Flow
  BY <1>2, <1>4 DEF Flow
<1>6. /\ Asked = up[1] /\ Tail(up) \in Seq(Request) /\ Len(Tail(up)) = Len(up) - 1
      /\ \A k \in 1..Len(Tail(up)) : Tail(up)[k] = up[k + 1]
  BY <1>1, <1>3, HeadTailProperties DEF Asked
<1>7. PICK l \in Nat : Len(up) = l + 1
  <2>1. PICK j \in Nat \ {0} : j = Len(up)
    BY <1>1, <1>3, EmptySeq
  <2>2. j - 1 \in Nat /\ (j - 1) + 1 = j
    OBVIOUS
  <2>3. QED BY <2>1, <2>2
<1>8. (l + 1) - 1 = l /\ \A k \in 1..l : k + 1 \in 1..l + 1
  OBVIOUS
<1>9. Len(up') = l /\ \A k \in 1..Len(up') : k + 1 \in 1..Len(up) /\ up'[k] = up[k + 1]
  BY <1>2, <1>6, <1>7, <1>8
<1>10. \A k \in 1..Len(up') : \E j \in 1..Len(up) : up'[k] = up[j]
  BY <1>9
<1>11. TypeOK'
  BY <1>1, <1>2, <1>4, <1>6 DEF IInv, TypeOK
<1>12. Requests'
  BY <1>2, <1>10 DEF IInv, Requests
<1>13. ui.pc # "first"
  BY <1>1 DEF IInv, Arrivals
<1>14. Arrivals'
  BY <1>2, <1>4, <1>5, <1>13 DEF IInv, Arrivals
<1>15. Counted'
  BY <1>2, <1>5 DEF IInv, Counted
<1>16. OnlyRememberMe => OnlyRememberMe'
  BY <1>10 DEF OnlyRememberMe
<1>17. ASSUME Outstanding PROVE Outstanding'
  <2>1. up[1].handler # ui.handler
    BY <1>1, <1>6, Answering DEF AnswerFits, IInv, TypeOK
  <2>2. l # 0
    BY <1>7, <1>17, <2>1 DEF Outstanding
  <2>3. l \in 1..l /\ \A k \in 1..l : k < l => k + 1 < l + 1
    BY <2>2
  <2>4. up' # <<>>
    BY <1>9, <2>2, EmptySeq
  <2>5. up'[Len(up')] = up[Len(up)]
    BY <1>7, <1>9, <2>3
  <2>6. \A k \in 1..Len(up') : k < Len(up') => up'[k].handler = RememberMe
    BY <1>7, <1>9, <1>17, <2>3 DEF Outstanding
  <2>7. QED BY <1>2, <1>5, <1>17, <2>4, <2>5, <2>6 DEF Outstanding
<1>18. Answered => Answered'
  BY <1>1, <1>2, <1>5, <1>16 DEF Answered
<1>19. Conversation'
  BY <1>1, <1>2, <1>5, <1>16, <1>17, <1>18 DEF IInv, Conversation
<1>20. FirstLoad'
  BY <1>2 DEF IInv, FirstLoad
<1>21. OwnAnswer'
  BY <1>2 DEF IInv, OwnAnswer
<1>22. QED BY <1>11, <1>12, <1>14, <1>15, <1>19, <1>20, <1>21 DEF IInv

-----------------------------------------------------------------------------
(***************************************************************************)
(* The theorems.                                                           *)
(***************************************************************************)
LEMMA InitIInv == Orderly /\ Init => IInv
<1> SUFFICES ASSUME Orderly, Init PROVE IInv
  OBVIOUS
<1>1. /\ connected = TRUE /\ serverRuns = TRUE /\ up = <<>> /\ down = <<ServerAccept>>
      /\ in = <<>> /\ page = "login" /\ todo = <<>>
      /\ board = [byPAT |-> FALSE, cash |-> "unread", history |-> FALSE]
      /\ ui = [pc |-> "first", handler |-> LoginRemembered, left |-> 0, by |-> {}]
      /\ no = 0 /\ clicks = 0 /\ pat \in BOOLEAN
      /\ done = [of |-> 0, by |-> {}, verdict |-> "none"]
      /\ accepted = {} /\ performed = {}
  BY RememberedAssumption DEF Init, Orderly, NewBoard
<1>2. ServerAccept \in Message
  <2>1. 0 \in 0..MaxItems /\ <<>> \in Seq(Fields)
    BY BoundsAssumption, EmptySeq
  <2>2. QED BY <2>1 DEF ServerAccept, Message
<1>3. /\ down \in Seq(Message) /\ in \in Seq(Message) /\ Len(down) = 1
      /\ \A k \in 1..Len(down) : down[k] = ServerAccept
  BY <1>1, <1>2, OneReply, EmptySeq
<1>4. Flow = down
  BY <1>1, <1>3, Queues DEF Flow
<1>5. 1..Len(up) = {} /\ ui.pc = "first"
  BY <1>1
<1>6. TypeOK
  <2>1. ui \in [pc : PCs, handler : Handlers, left : Counts, by : SUBSET (0..no)]
    <3>1. "first" \in PCs /\ 0 \in Counts /\ LoginRemembered \in Handlers
      BY Special DEF PCs, Counts, Garbage
    <3>2. QED BY <1>1, <3>1
  <2>2. done \in [of : 0..no, by : SUBSET (0..no),
                  verdict : {"none", "success", "failure", "loaded", "ignored", "lost"}]
    BY <1>1
  <2>3. up \in Seq(Request) /\ todo \in Seq(Loads) /\ clicks \in 0..MaxClicks
    BY <1>1, EmptySeq, BoundsAssumption
  <2>4. board \in Board
    BY <1>1 DEF Board
  <2>5. QED BY <1>1, <1>3, <2>1, <2>2, <2>3, <2>4 DEF TypeOK
<1>7. Requests
  BY <1>5 DEF Requests
<1>8. Arrivals
  BY <1>1, <1>3, <1>4, <1>5 DEF Arrivals
<1>9. Counted
  BY <1>5 DEF Counted
<1>10. Conversation
  BY <1>1, <1>3, <1>4, <1>5 DEF Conversation
<1>11. FirstLoad
  BY <1>1 DEF FirstLoad
<1>12. OwnAnswer
  BY <1>1 DEF OwnAnswer
<1>13. QED BY <1>6, <1>7, <1>8, <1>9, <1>10, <1>11, <1>12 DEF IInv

LEMMA Stutters == IInv /\ UNCHANGED reqVars => IInv'
<1> SUFFICES ASSUME IInv, UNCHANGED reqVars PROVE IInv'
  OBVIOUS
<1>1. /\ connected' = connected /\ serverRuns' = serverRuns /\ up' = up /\ down' = down
      /\ in' = in /\ page' = page /\ todo' = todo /\ board' = board /\ ui' = ui
      /\ no' = no /\ clicks' = clicks /\ pat' = pat /\ done' = done
      /\ accepted' = accepted /\ performed' = performed
  BY DEF reqVars
<1>2. Flow' = Flow
  BY <1>1 DEF Flow
<1>3. TypeOK'
  BY <1>1 DEF IInv, TypeOK
<1>4. Requests' /\ Arrivals' /\ Counted'
  BY <1>1, <1>2 DEF IInv, Requests, Arrivals, Counted
<1>5. Conversation'
  <2>1. /\ (OnlyRememberMe)' = OnlyRememberMe /\ Outstanding' = Outstanding
        /\ Answered' = Answered
    BY <1>1, <1>2 DEF OnlyRememberMe, Outstanding, Answered
  <2>2. QED BY <1>1, <1>2, <2>1 DEF IInv, Conversation
<1>6. FirstLoad' /\ OwnAnswer'
  BY <1>1 DEF IInv, FirstLoad, OwnAnswer
<1>7. QED BY <1>3, <1>4, <1>5, <1>6 DEF IInv

\* The inductive invariant holds in all reachable states.
LEMMA Invariance == Orderly => (Spec => []IInv)
<1> SUFFICES ASSUME Orderly PROVE Spec => []IInv
  OBVIOUS
<1>1. Init => IInv
  BY InitIInv
<1>2. IInv /\ [Next]_reqVars => IInv'
  <2> SUFFICES ASSUME IInv, [Next]_reqVars PROVE IInv'
    OBVIOUS
  <2>1. ASSUME NEW h \in Buttons, Click(h) PROVE IInv'
    BY <2>1, AskingKeeps DEF Starts
  <2>2. CASE NextLoad
    <3>1. PICK h : h = Head(todo)
      OBVIOUS
    <3>2. QED BY <2>2, <3>1, AskingKeeps DEF Starts
  <2>3. CASE FirstMessage
    BY <2>3, AskingKeeps DEF Starts
  <2>4. CASE FirstLost \/ Reconnect
    BY <2>4, EndingKeeps
  <2>5. CASE LogoutForgotten
    BY <2>5, LogoutForgottenKeeps
  <2>6. CASE TakeAnswer
    BY <2>6, TakeAnswerKeeps
  <2>7. CASE TakeCount
    BY <2>7, TakeCountKeeps
  <2>8. CASE TakeItem
    BY <2>8, TakeItemKeeps
  <2>9. CASE LastItem
    BY <2>9, LastItemKeeps
  <2>10. CASE Lost
    BY <2>10, LostKeeps
  <2>11. CASE Arrive
    BY <2>11, ArriveKeeps
  <2>12. CASE Break \/ Crash
    BY <2>12, BreakKeeps
  <2>13. CASE AnswerOnce
    BY <2>13, AnswerOnceKeeps
  <2>14. CASE AnswerList
    BY <2>14, AnswerListKeeps
  <2>15. CASE AnswerListFailed
    BY <2>15, AnswerListFailedKeeps
  <2>16. CASE AnswerRememberMe
    BY <2>16, AnswerRememberMeKeeps DEF Orderly
  <2>17. CASE UNCHANGED reqVars
    BY <2>17, Stutters
  <2>18. QED
    BY <2>1, <2>2, <2>3, <2>4, <2>5, <2>6, <2>7, <2>8, <2>9, <2>10, <2>11, <2>12,
       <2>13, <2>14, <2>15, <2>16, <2>17
    DEF Next, Handle, Serve
<1>3. QED BY <1>1, <1>2, PTL DEF Spec

\* Every reachable state is of the declared types: no count is ever taken below
\* zero or beyond what the server counted.
THEOREM TypeCorrect == Orderly => (Spec => []TypeOK)
<1>1. IInv => TypeOK
  BY DEF IInv
<1>2. QED BY <1>1, Invariance, PTL

\* A message a handler acts upon answers the request that handler sent, though
\* only the order of the messages says which they answer (startup.cpp:574).
THEOREM AnswersAreOwn == Orderly => (Spec => []OwnAnswer)
<1>1. IInv => OwnAnswer
  BY DEF IInv
<1>2. QED BY <1>1, Invariance, PTL

\* Between two handlers no request, answer or item is under way that the next
\* could meet (startup.cpp:657-659).
THEOREM QuietBetween == Orderly => (Spec => []Quiescent)
<1>1. IInv => Quiescent
  <2> SUFFICES ASSUME IInv, ui.pc = "page", connected
               PROVE  OnlyRememberMe /\ down = <<>> /\ in = <<>>
    BY DEF Quiescent, OnlyRememberMe
  <2>1. OnlyRememberMe /\ Flow = <<>>
    BY DEF IInv, Conversation
  <2>2. in \in Seq(Message) /\ down \in Seq(Message)
    BY DEF IInv, TypeOK
  <2>3. QED BY <2>1, <2>2, Queues DEF Flow
<1>2. QED BY <1>1, Invariance, PTL

\* A dialog that closes with Accepted was performed by the server
\* (dashboard.cpp:324-444).
THEOREM AcceptedWasPerformed == Orderly => (Spec => []AcceptedIsPerformed)
<1>1. IInv => AcceptedIsPerformed
  BY DEF IInv, Conversation, AcceptedIsPerformed
<1>2. QED BY <1>1, Invariance, PTL

\* Every variable is read from the field that was pushed for it, on both sides
\* and for any number of items (Client.cpp, server_driver.cpp, clever_Message.h:
\* 40-90).
THEOREM FieldsFit == Orderly => (Spec => []ReadAsWritten)
<1>1. IInv => ReadAsWritten
  <2> SUFFICES ASSUME IInv PROVE ReadAsWritten
    OBVIOUS
  <2>1. /\ in \in Seq(Message) /\ down \in Seq(Message) /\ up \in Seq(Request)
        /\ ui.handler \in Handlers
    BY DEF IInv, TypeOK
  <2>2. ASSUME NEW k \in 1..Len(up)
        PROVE  LET pops == up[k].handler.case.pops
               IN  Reads(up[k].body, pops) /\ Pop(up[k].body, pops) = <<>>
    <3>1. /\ up[k].handler \in {RememberMe, ui.handler}
          /\ up[k].body = Push(<<>>, up[k].handler.pushes)
      BY DEF IInv, Requests
    <3>2. up[k].handler \in Handlers \cup {RememberMe}
      BY <2>1, <3>1
    <3>3. QED BY <3>1, <3>2, Popped
  <2>3. ASSUME NEW m \in Range(down \o in)
        PROVE  \E k \in 1..Len(Flow) : m = Flow[k]
    <3>1. PICK i \in Nat, d \in Nat : i = Len(in) /\ d = Len(down)
      BY <2>1, LenProperties
    <3>2. /\ Len(Flow) = i + d
          /\ \A k \in 1..i + d : Flow[k] = IF k <= i THEN in[k] ELSE down[k - i]
      BY <2>1, <3>1, ConcatProperties DEF Flow
    <3>3. /\ down \o in \in Seq(Message) /\ Len(down \o in) = d + i
          /\ \A k \in 1..d + i : (down \o in)[k] = IF k <= d THEN down[k] ELSE in[k - d]
      BY <2>1, <3>1, ConcatProperties
    <3>4. PICK j \in 1..d + i : m = (down \o in)[j]
      BY <3>3, LenProperties DEF Range
    <3>5. CASE j <= d
      <4>1. i + j \in 1..i + d /\ ~(i + j <= i) /\ (i + j) - i = j
        BY <3>5
      <4>2. m = Flow[i + j]
        BY <3>2, <3>3, <3>4, <3>5, <4>1
      <4>3. QED BY <3>2, <4>1, <4>2
    <3>6. CASE ~(j <= d)
      <4>1. j - d \in 1..i + d /\ j - d <= i
        BY <3>6
      <4>2. m = Flow[j - d]
        BY <3>2, <3>3, <3>4, <3>6, <4>1
      <4>3. QED BY <3>2, <4>1, <4>2
    <3>7. QED BY <3>5, <3>6
  <2>4. ASSUME NEW m \in Range(down \o in), NEW h \in Handlers, m.id = h.answer
        PROVE  CASE m.what = "count" -> Reads(m.body, Count)
                 [] m.what \in {"success", "item"} -> Reads(m.body, h.reads)
                 [] OTHER -> Reads(m.body, Response)
    <3>1. PICK k \in 1..Len(Flow) : m = Flow[k]
      BY <2>3
    <3>2. Flow \in Seq(Message)
      BY <2>1, Queues DEF Flow
    <3>3. m \in Message
      BY <3>1, <3>2, ElementOfSeq
    <3>4. m # ServerAccept
      BY <2>4, OwnIds DEF ServerAccept
    <3>5. Written(m, ui.handler)
      BY <3>1, <3>4 DEF IInv, Arrivals
    <3>6. h = ui.handler
      BY <2>1, <2>4, <3>5, OwnIds DEF Written
    <3>7. m.what \in {"success", "failure", "count", "item"}
      BY <3>3 DEF Message
    <3>8. QED BY <3>5, <3>6, <3>7 DEF Written
  <2>5. QED BY <2>2, <2>4 DEF ReadAsWritten
<1>2. QED BY <1>1, Invariance, PTL

\* Nobody asks before he knows in whose name (dashboard.cpp:27-42 and 182).
THEOREM EveryAskerIsNamed == Orderly => (Spec => []AskedInAName)
<1>1. IInv => AskedInAName
  BY DEF IInv, Requests, AskedInAName
<1>2. QED BY <1>1, Invariance, PTL

=============================================================================
