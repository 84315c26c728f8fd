------------------------------ MODULE Messages ------------------------------
(***************************************************************************)
(* What is in the messages: the body is a stack of fields                  *)
(* (CleverCore/clever_Message.h:40-90), which the client fills             *)
(* (CleverClient/Client.cpp) and the server empties (CleverServer/         *)
(* server_driver.cpp) before it puts its answer upon what is left.         *)
(*                                                                         *)
(* A field stands for the 1024 bytes of a text or the 4 bytes of a number; *)
(* its name is that of the variable it is copied from.  Nothing in a       *)
(* message says which fields it has: a variable gets the bytes that are on *)
(* the top.  "user" is the PAT in the requests that exist twice, one for a *)
(* PAT and one for a username.                                             *)
(***************************************************************************)
EXTENDS Integers, Sequences

\* msg << a << b.
Push(body, fields) == body \o fields

\* msg >> a >> b: a gets the top.
Top(body, k) == body[Len(body) + 1 - k]
Reads(body, variables) ==
  /\ Len(variables) <= Len(body)
  /\ \A k \in 1..Len(variables) : Top(body, k) = variables[k]
Pop(body, variables) == SubSeq(body, 1, Len(body) - Len(variables))

Reversed(fields) == [k \in 1..Len(fields) |-> fields[Len(fields) + 1 - k]]

-----------------------------------------------------------------------------
(***************************************************************************)
(* Client.cpp: what the requests carry, in the order it is pushed.         *)
(***************************************************************************)
RegisterPush ==
  <<"phonenumber", "countryID", "email", "password", "username", "lastname", "firstname">>
LoginUserPush == <<"username", "password">>
LoginUserRememberedPush == <<"PAT">>
RememberMePush == <<"username", "PAT">>
SendEmailForgotPasswordPush == <<"emailTo">>
ValidateMySixDigitCodePush == <<"validationCode">>
UpdatePasswordPush == <<"newPassword", "emailTo">>
LogoutWithRememberMePush == <<"PAT">>
card == <<"cardValidUntil", "cardCurrencyISO", "cardNumber", "cardHolder", "cardName">>
AddCardPush == <<"user">> \o card
EditCardPush == <<"oldcardname", "user">> \o card
GetCardsDetailsPush == <<"user">>
AddCardFundsPush == <<"fundValue", "cardname", "user">>
GetCashDetailsPush == <<"user">>
AddCashPush == <<"cardname", "cashValue", "user">>
GetTranzactionsPush == <<"username">>
AddPicturePush == <<"user", "hexImg">>
MutantAddPreferencesPush == <<"username", "currencyISO", "dailyMail">>
AddPreferencesPush == <<"username", "dailyMail", "currencyISO">>
AddIncomePush ==
  <<"username", "incomeName", "incomeCurrencyISO", "dayOfIncome", "incomeSource",
    "incomeToCard", "incomeValue">>
GetRecurenciesPush == <<"username">>
AddOutcomePush ==
  <<"username", "outcomeName", "outcomeCurrencyISO", "dayOfOutcome", "outcomeSource",
    "outcomeToCard", "outcomeValue">>
\* The elements of a vector the dialog fills (addspendingsdialog.cpp).
AddSpendingsPush ==
  <<"username", "tranzCategoryName", "tranzValue", "tranzDestination", "tranzDetails",
    "tranzCurrencyISO", "tranzFinanceType", "tranzTitle">>
GetSavingsPush == <<"username">>
AddFundsToSavingPush == <<"username", "value", "fromCardName", "toSaving">>
AddSavingPush ==
  <<"username", "title", "goal", "currMoney", "currencyISO", "initialDate">>
GetBudgetPush == <<"username">>
AddBudgetPush == <<"username", "startDate", "endDate", "value">>
DeleteBudgetPush == <<"username">>

-----------------------------------------------------------------------------
(***************************************************************************)
(* server_driver.cpp, OnMessage: what a case pops, whether it catches every*)
(* error or only those it names, and what it pushes for an answer; a list  *)
(* pushes its number first, and then this for each item.                   *)
(***************************************************************************)
Case(pops, catches, pushes) == [pops |-> pops, catches |-> catches, pushes |-> pushes]
Response == <<"responseBack">>
Count == <<"toCome">>

OnRegister ==
  Case(<<"firstname", "lastname", "username", "password", "email", "countryID",
         "phonenumber">>, "all", Response)
OnLogin == Case(<<"password", "username">>, "named", Response)
OnRememberMe == Case(<<"PAT", "username">>, "named", Response)
OnLoginRemembered == Case(<<"PAT">>, "named", Response)
OnSendEmailForgotPassword == Case(<<"emailTo">>, "named", Response)
OnVerifyCodeForgotPassword == Case(<<"validationCode">>, "all", Response)
OnUpdatePassword == Case(<<"emailTo", "newPassword">>, "named", Response)
OnLogoutRemembered == Case(<<"PAT">>, "named", Response)
cardRead == <<"cardName", "cardHolder", "cardNumber", "cardCurrencyISO", "cardValidUntil">>
OnAddCard == Case(cardRead \o <<"user">>, "all", Response)
OnEditCard == Case(cardRead \o <<"user", "oldcardname">>, "all", Response)
OnGetCard ==
  Case(<<"user">>, "all",
       <<"cardSold", "cardCurrencyISO", "cardValidUntil", "cardNumber", "cardHolder",
         "cardName">>)
OnAddCardFunds == Case(<<"user", "cardname", "fundValue">>, "all", Response)
OnGetCash ==
  Case(<<"user">>, "all",
       <<"mailState", "Picture", "PhoneNumber", "Country", "Email", "LastName",
         "FirstName", "username", "cashValue", "currencyCashISO">> \o Response)
OnAddCash == Case(<<"user", "cashValue", "cardname">>, "all", Response)
OnAddSpending ==
  Case(<<"tranzTitle", "tranzFinanceType", "tranzCurrencyISO", "tranzDetails",
         "tranzDestination", "tranzValue", "tranzCategoryName", "username">>,
       "all", Response)
OnAddPicture == Case(<<"hexImg", "user">>, "all", Response)
OnAddPreferences == Case(<<"currencyISO", "dailyMail", "username">>, "all", Response)
OnGetTranzactions ==
  Case(<<"username">>, "all",
       <<"categoryName", "description", "currencyISO", "value", "type", "financeName",
         "timestamp", "destination", "source", "title">>)
OnUserGetRecurencies ==
  Case(<<"username">>, "all",
       <<"value", "typeID", "dayOfMonth", "ISO", "card", "receiver", "name">>)
OnAddIncome ==
  Case(<<"incomeValue", "incomeToCard", "incomeSource", "dayOfIncome",
         "incomeCurrencyISO", "incomeName", "username">>, "all", Response)
OnAddOutcome ==
  Case(<<"outcomeValue", "outcomeToCard", "outcomeSource", "dayOfOutcome",
         "outcomeCurrencyISO", "outcomeName", "username">>, "all", Response)
OnGetSavings ==
  Case(<<"username">>, "all",
       <<"initialDate", "currencyISO", "currMoney", "goal", "title">>)
OnAddFundsToSaving ==
  Case(<<"toSaving", "fromCardName", "value", "username">>, "all", Response)
OnAddSaving ==
  Case(<<"initialDate", "currencyISO", "currMoney", "goal", "title", "username">>,
       "all", Response)
OnGetBudget ==
  Case(<<"username">>, "all", <<"value", "endDate", "startDate">> \o Response)
OnAddBudget == Case(<<"value", "endDate", "startDate", "username">>, "all", Response)
OnDeleteBudget == Case(<<"username">>, "all", Response)

=============================================================================
