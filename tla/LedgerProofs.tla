---------------------------- MODULE LedgerProofs ----------------------------
(***************************************************************************)
(* Theorems about Ledger for any cards, amounts, and numbers of requests   *)
(* and faults.  While a request is under way, what is on an account and    *)
(* what its statements still have to change (Due) add up to the same sum;  *)
(* this sum is what the dashboard will show when it takes the answer.  In  *)
(* the same way all holdings and all that is due add up to nothing.        *)
(***************************************************************************)
EXTENDS Ledger, SequenceTheorems, FiniteSetTheorems, WellFoundedInduction, TLAPS

\* What all statements that are still to run add to an account.
Due(a) == IF job = <<>> THEN 0
          ELSE IF Len(job) = 1 THEN Effect(job[1], a)
          ELSE Effect(job[1], a) + Effect(job[2], a)

Step == [from : Accounts \cup {Nowhere}, to : Accounts \cup {Nowhere}, amount : Int]
Touches(s, a) == a = s.from \/ a = s.to

\* What the dialog and the server know of a request at each place.
Control ==
  /\ view = [cards |-> view.cards, cash |-> view.cash]
  /\ job \in Seq(Step) /\ (job # <<>> => Len(job) \in {1, 2})
  /\ pc \in {"idle", "dialog"} =>
       job = <<>> /\ answer = "none" /\ DOMAIN view.cards = owned
  /\ pc \in {"dialog", "waiting"} =>
       /\ dialog.kind \in Kinds /\ page = OpenedFrom(dialog.kind)
       /\ dialog.kind = "AddFunds" /\ Attentive => shows = picked
       /\ dialog.cards \in [DOMAIN view.cards -> Int]
  /\ pc = "waiting" =>
       /\ dialog.card \in Cards \cup {"cash"} /\ dialog.amount \in Int
       /\ dialog.kind # "AddCard" =>
            DOMAIN view.cards = owned /\ dialog.card \in owned \cup {"cash"}
       /\ answer = "failure" \/ job # <<>> => DOMAIN view.cards = owned
       /\ dialog.kind = "AddFunds" => dialog.card = picked
       /\ dialog.kind \in DebitsFirst => dialog.card # "cash"
       /\ answer = "none" \/ job = <<>>
       /\ answer = "failure" => failed
  /\ starting => pc = "ended" /\ dialog.kind = "none"
  /\ job # <<>> /\ ~starting => pc \in {"waiting", "ended"} /\ dialog.kind \in Kinds
  /\ job # <<>> =>
       /\ dialog.kind = "AddCard" => Len(job) = 1 /\ dialog.card \in Cards
       /\ Len(job) = 2 =>
            /\ ~began
            /\ \A c \in Cards : Touches(job[1], c) => ~Touches(job[2], c)
            /\ dialog.kind \notin DebitsFirst /\ ~starting =>
                 \A c \in Cards : ~Touches(job[1], c)

\* What the statements of a request still take from a card is on it, while the
\* copy that the dialog compared it with can be relied on.
Covered ==
  ~starting /\ ~inflated =>
    \A i \in 1..Len(job) : job[i].from \in Cards => job[i].amount <= db[job[i].from]

\* What the dashboard shows after a success.
NewSum(c) ==
  CASE dialog.kind = "AddFunds" /\ c = dialog.card     -> view.cards[c] + dialog.amount
    [] dialog.kind \in DebitsFirst                     -> dialog.cards[c]
    [] dialog.kind = "AddSpendings" /\ c = dialog.card -> view.cards[c] - dialog.amount
    [] OTHER                                           -> view.cards[c]
NewCash ==
  IF dialog.kind = "RechargeCash" THEN view.cash + dialog.amount ELSE view.cash

\* The copies are still good when the request fails now.
Harmless == ~(dialog.kind \in DebitsFirst /\ (began \/ dialog.amount < 0))

\* The copies of the dashboard and of the dialog: equal while nothing failed,
\* and never more than the card has while they are not inflated.
Copies ==
  /\ pc \in {"idle", "dialog"} =>
       /\ ~failed => view.cash = db["cash"]
       /\ \A c \in owned : /\ ~failed => view.cards[c] = db[c]
                           /\ ~inflated => view.cards[c] <= db[c]
  /\ pc = "dialog" =>
       \A c \in owned : /\ ~failed => dialog.cards[c] = view.cards[c]
                        /\ ~inflated => dialog.cards[c] <= db[c]
  /\ pc = "waiting" /\ (job # <<>> \/ answer = "success") =>
       /\ ~failed => db["cash"] + Due("cash") = NewCash
       /\ \A c \in DOMAIN view.cards : /\ ~failed => db[c] + Due(c) = NewSum(c)
                                       /\ ~inflated => NewSum(c) <= db[c] + Due(c)
  /\ pc = "waiting" /\ ((job # <<>> /\ Harmless) \/ answer = "failure") /\ ~inflated =>
       \A c \in owned : view.cards[c] <= db[c] /\ dialog.cards[c] <= db[c]

\* The wall, which addFundsExec computes with, shows the sum of its card.
Wall ==
  page = "cards" /\ pc # "ended" =>
    /\ shows \in DOMAIN view.cards
    /\ ~failed => wall = view.cards[shows]
    /\ ~inflated => wall <= view.cards[shows]

Shape == TypeOK /\ Control
IInv == Shape /\ Covered /\ Copies /\ Wall

-----------------------------------------------------------------------------
\* Running a statement moves its amount from what is due to what is there.
LEMMA Moves ==
  ASSUME Shape, RunStatement
  PROVE  /\ job # <<>> /\ Len(job) \in {1, 2}
         /\ job' \in Seq(Step) /\ (Len(job) = 2 => Len(job') = 1 /\ job' # <<>>)
         /\ \A a \in Accounts : db'[a] = db[a] + Effect(job[1], a)
         /\ \A a \in Accounts :
              Effect(job[1], a) \in Int /\ Due(a) \in Int /\ Due(a)' \in Int
         /\ \A a \in Accounts : Due(a) = Effect(job[1], a) + Due(a)'
         /\ Len(job) = 1 => job' = <<>>
         /\ \A a \in Accounts : Due(a)' = IF Len(job) = 1 THEN 0 ELSE Effect(job[2], a)
         /\ db' \in [Accounts -> Int]
         /\ job[1] = Head(job) /\ job[1] \in Step
         /\ Len(job) = 2 => job'[1] = job[2] /\ job[2] \in Step
<1>1. /\ job # <<>> /\ Len(job) \in {1, 2} /\ job' = Tail(job) /\ job \in Seq(Step)
      /\ job[1] = Head(job) /\ job[1] \in Step
      /\ db' = [a \in Accounts |-> db[a] + (IF a = job[1].to THEN job[1].amount ELSE 0)
                                         - (IF a = job[1].from THEN job[1].amount ELSE 0)]
  <2>1. job # <<>> /\ job \in Seq(Step) /\ Len(job) \in {1, 2}
        /\ job' = Tail(job) /\ Execute(Head(job))
    BY DEF RunStatement, Shape, Control
  <2>2. job[1] = Head(job) /\ job[1] \in Step
    BY <2>1, ElementOfSeq
  <2>3. QED BY <2>1, <2>2 DEF Execute
<1>2. job' \in Seq(Step) /\ Len(job') = Len(job) - 1
      /\ (Len(job) = 2 => job'[1] = job[2]) /\ (Len(job) = 1 => job' = <<>>)
  BY <1>1, HeadTailProperties
<1>3. \A a \in Accounts : db[a] \in Int
  BY DEF Shape, TypeOK
<1>4. job[1].amount \in Int /\ \A a \in Accounts : Effect(job[1], a) \in Int
  <2>1. job[1].amount \in Int
    BY <1>1 DEF Step
  <2>2. QED BY <2>1 DEF Effect
<1>5. Len(job) = 2 => job[2] \in Step
  BY <1>1, ElementOfSeq
<1>6. Len(job) = 2 => \A a \in Accounts : Effect(job[2], a) \in Int
  BY <1>5 DEF Effect, Step
<1>7. \A a \in Accounts : db'[a] = db[a] + Effect(job[1], a)
  BY <1>1, <1>3, <1>4 DEF Effect, Step
<1>8. db' = [a \in Accounts |-> db'[a]] /\ \A a \in Accounts : db'[a] \in Int
  BY <1>1, <1>3, <1>4, <1>7
<1>9. db' \in [Accounts -> Int]
  BY <1>8
<1>10. Len(job) = 2 => Len(job') = 1 /\ job' # <<>> /\ job'[1] = job[2]
  <2>1. Len(job) = 2 => Len(job') = 1 /\ job'[1] = job[2]
    BY <1>2
  <2>2. Len(<<>>) = 0
    OBVIOUS
  <2>3. QED BY <2>1, <2>2
<1>11. ASSUME NEW a \in Accounts
       PROVE  /\ Due(a) \in Int /\ Due(a)' \in Int /\ Due(a) = Effect(job[1], a) + Due(a)'
              /\ Due(a)' = IF Len(job) = 1 THEN 0 ELSE Effect(job[2], a)
  <2>1. CASE Len(job) = 1
    <3>1. Due(a) = Effect(job[1], a) /\ Due(a)' = 0
      BY <1>1, <1>2, <2>1 DEF Due
    <3>2. QED BY <2>1, <3>1, <1>4
  <2>2. CASE Len(job) = 2
    <3>1. Len(job') = 1 /\ job' # <<>> /\ job'[1] = job[2]
      BY <1>10, <2>2
    <3>2. Due(a)' = Effect(job[2], a)
      BY <3>1 DEF Due, Effect
    <3>3. Due(a) = Effect(job[1], a) + Effect(job[2], a)
      BY <1>1, <2>2 DEF Due
    <3>4. QED BY <3>2, <3>3, <1>4, <1>6, <2>2
  <2>3. QED BY <1>1, <2>1, <2>2
<1>12. QED BY <1>1, <1>2, <1>4, <1>5, <1>7, <1>9, <1>10, <1>11

\* What a confirmed dialog changes on the card or the cash a.
Change(kind, c, amount, a) ==
  IF \/ kind = "AddFunds" /\ a = c
     \/ kind = "RechargeCash" /\ a = "cash" THEN amount
  ELSE IF kind \in DebitsFirst \cup {"AddSpendings"} /\ a = c /\ c # "cash" THEN -amount
  ELSE 0

\* What the statements of each dialog will have changed (clever_IServer.h:
\* 788-1263).
LEMMA Demands ==
  ASSUME NEW kind \in Kinds \ {"AddCard"}, NEW c \in Cards \cup {"cash"},
         NEW amount \in Int, job' = Statements(kind, c, amount),
         kind \in {"AddFunds"} \cup DebitsFirst => c # "cash"
  PROVE  /\ job' \in Seq(Step) /\ Len(job') \in {1, 2} /\ job' # <<>>
         /\ \A a \in Cards \cup {"cash"} : Due(a)' = Change(kind, c, amount, a)
         /\ Len(job') = 2 => \A a \in Cards : Touches(job'[1], a) => ~Touches(job'[2], a)
         /\ Len(job') = 2 /\ kind \notin DebitsFirst =>
              \A a \in Cards : ~Touches(job'[1], a)
         /\ \A i \in 1..Len(job') : job'[i].from \in Cards =>
              job'[i].from = c /\ job'[i].amount = amount /\ kind # "AddFunds"
<1>a. \A a \in Cards : /\ a # "cash" /\ a # "saving" /\ a # "spent"
                       /\ a # "outside" /\ a # "spentInCash" /\ a # Nowhere
                       /\ Nowhere \notin Cards /\ "outside" \notin Cards
  BY CardsAssumption
<1>b. c \in Accounts /\ "cash" \in Accounts /\ "saving" \in Accounts
      /\ "spent" \in Accounts /\ "outside" \in Accounts /\ "spentInCash" \in Accounts
  BY DEF Accounts, Holdings
<1>c. Nowhere # "cash"
  BY DEF Nowhere
<1>1. CASE kind = "AddFunds"
  <2>1. job' = <<Statement("outside", c, amount)>>
    BY <1>1 DEF Statements
  <2>2. Statement("outside", c, amount) \in Step
    BY <1>b DEF Statement, Step
  <2>3. job' \in Seq(Step) /\ Len(job') = 1 /\ job' # <<>>
    BY <2>1, <2>2
  <2>4. \A a : Effect(job'[1], a) =
                 (IF a = c THEN amount ELSE 0) - (IF a = "outside" THEN amount ELSE 0)
    BY <2>1 DEF Effect, Statement
  <2>5. \A a : Due(a)' = Effect(job'[1], a)
    BY <2>3 DEF Due, Effect
  <2>6. QED
    <3>1. ASSUME NEW a \in Cards \cup {"cash"} PROVE Due(a)' = Change(kind, c, amount, a)
      <4>1. a # "outside" /\ amount - 0 = amount /\ 0 - 0 = 0
        BY <1>a
      <4>2. Due(a)' = IF a = c THEN amount ELSE 0
        BY <2>4, <2>5, <4>1
      <4>3. QED BY <1>1, <4>2 DEF Change, DebitsFirst
    <3>2. job'[1].from = "outside"
      BY <2>1 DEF Statement
    <3>3. QED BY <1>a, <2>3, <3>1, <3>2
<1>2. CASE kind = "RechargeCash"
  <2>1. job' = <<Statement(Nowhere, "cash", amount), Statement(c, Nowhere, amount)>>
    BY <1>2 DEF Statements
  <2>2. Statement(Nowhere, "cash", amount) \in Step
    BY <1>b DEF Statement, Step
  <2>3. Statement(c, Nowhere, amount) \in Step
    BY <1>b DEF Statement, Step
  <2>4. job' \in Seq(Step) /\ Len(job') = 2 /\ job' # <<>>
    BY <2>1, <2>2, <2>3
  <2>5. \A a : Effect(job'[1], a) =
                 (IF a = "cash" THEN amount ELSE 0) - (IF a = Nowhere THEN amount ELSE 0)
    BY <2>1 DEF Effect, Statement
  <2>6. \A a : Effect(job'[2], a) =
                 (IF a = Nowhere THEN amount ELSE 0) - (IF a = c THEN amount ELSE 0)
    BY <2>1 DEF Effect, Statement
  <2>7. \A a : Due(a)' = Effect(job'[1], a) + Effect(job'[2], a)
    BY <2>4 DEF Due, Effect
  <2>8. \A a \in Cards \cup {"cash"} : Due(a)' = Change(kind, c, amount, a)
    BY <1>a, <1>c, <1>2, <2>5, <2>6, <2>7 DEF Change, DebitsFirst
  <2>9. /\ job'[1].from = Nowhere /\ job'[1].to = "cash" /\ job'[1].amount = amount
        /\ job'[2].from = c /\ job'[2].to = Nowhere /\ job'[2].amount = amount
    BY <2>1 DEF Statement
  <2>10. QED BY <1>a, <1>2, <2>4, <2>8, <2>9 DEF Touches, DebitsFirst
<1>3. CASE kind = "AddFundsToSaving"
  <2>1. job' = <<Statement(c, Nowhere, amount),
                 Statement(Nowhere, "saving", amount)>>
    BY <1>3 DEF Statements
  <2>2. Statement(c, Nowhere, amount) \in Step
    BY <1>b DEF Statement, Step
  <2>3. Statement(Nowhere, "saving", amount) \in Step
    BY <1>b DEF Statement, Step
  <2>4. job' \in Seq(Step) /\ Len(job') = 2 /\ job' # <<>>
    BY <2>1, <2>2, <2>3
  <2>5. \A a : Effect(job'[1], a) =
                 (IF a = Nowhere THEN amount ELSE 0) - (IF a = c THEN amount ELSE 0)
    BY <2>1 DEF Effect, Statement
  <2>6. \A a : Effect(job'[2], a) =
                 (IF a = "saving" THEN amount ELSE 0) - (IF a = Nowhere THEN amount ELSE 0)
    BY <2>1 DEF Effect, Statement
  <2>7. \A a : Due(a)' = Effect(job'[1], a) + Effect(job'[2], a)
    BY <2>4 DEF Due, Effect
  <2>8. \A a \in Cards \cup {"cash"} : Due(a)' = Change(kind, c, amount, a)
    BY <1>a, <1>c, <1>3, <2>5, <2>6, <2>7 DEF Change, DebitsFirst
  <2>9. /\ job'[1].from = c /\ job'[1].to = Nowhere /\ job'[1].amount = amount
        /\ job'[2].from = Nowhere /\ job'[2].to = "saving" /\ job'[2].amount = amount
    BY <2>1 DEF Statement
  <2>10. QED BY <1>a, <1>3, <2>4, <2>8, <2>9 DEF Touches, DebitsFirst
<1>4. CASE kind = "AddSpendings" /\ c = "cash"
  <2>1. job' = <<Statement(Nowhere, "spentInCash", amount),
                 Statement(Nowhere, Nowhere, amount)>>
    BY <1>4 DEF Statements
  <2>2. Statement(Nowhere, "spentInCash", amount) \in Step
    BY <1>b DEF Statement, Step
  <2>3. Statement(Nowhere, Nowhere, amount) \in Step
    BY <1>b DEF Statement, Step
  <2>4. job' \in Seq(Step) /\ Len(job') = 2 /\ job' # <<>>
    BY <2>1, <2>2, <2>3
  <2>5. \A a : Effect(job'[1], a) =
                 (IF a = "spentInCash" THEN amount ELSE 0) - (IF a = Nowhere THEN amount ELSE 0)
    BY <2>1 DEF Effect, Statement
  <2>6. \A a : Effect(job'[2], a) =
                 (IF a = Nowhere THEN amount ELSE 0) - (IF a = Nowhere THEN amount ELSE 0)
    BY <2>1 DEF Effect, Statement
  <2>7. \A a : Due(a)' = Effect(job'[1], a) + Effect(job'[2], a)
    BY <2>4 DEF Due, Effect
  <2>8. \A a \in Cards \cup {"cash"} : Due(a)' = Change(kind, c, amount, a)
    BY <1>a, <1>c, <1>4, <2>5, <2>6, <2>7 DEF Change, DebitsFirst
  <2>9. /\ job'[1].from = Nowhere /\ job'[1].to = "spentInCash" /\ job'[1].amount = amount
        /\ job'[2].from = Nowhere /\ job'[2].to = Nowhere /\ job'[2].amount = amount
    BY <2>1 DEF Statement
  <2>10. \A a \in Cards : ~Touches(job'[1], a) /\ ~Touches(job'[2], a)
    BY <1>a, <2>9 DEF Touches
  <2>11. \A i \in 1..Len(job') : job'[i].from \notin Cards
    BY <1>a, <2>4, <2>9
  <2>12. QED BY <2>4, <2>8, <2>10, <2>11
<1>5. CASE kind = "AddSpendings" /\ c # "cash"
  <2>1. job' = <<Statement(Nowhere, "spent", amount), Statement(c, Nowhere, amount)>>
    BY <1>5 DEF Statements
  <2>2. Statement(Nowhere, "spent", amount) \in Step
    BY <1>b DEF Statement, Step
  <2>3. Statement(c, Nowhere, amount) \in Step
    BY <1>b DEF Statement, Step
  <2>4. job' \in Seq(Step) /\ Len(job') = 2 /\ job' # <<>>
    BY <2>1, <2>2, <2>3
  <2>5. \A a : Effect(job'[1], a) =
                 (IF a = "spent" THEN amount ELSE 0) - (IF a = Nowhere THEN amount ELSE 0)
    BY <2>1 DEF Effect, Statement
  <2>6. \A a : Effect(job'[2], a) =
                 (IF a = Nowhere THEN amount ELSE 0) - (IF a = c THEN amount ELSE 0)
    BY <2>1 DEF Effect, Statement
  <2>7. \A a : Due(a)' = Effect(job'[1], a) + Effect(job'[2], a)
    BY <2>4 DEF Due, Effect
  <2>8. \A a \in Cards \cup {"cash"} : Due(a)' = Change(kind, c, amount, a)
    BY <1>a, <1>c, <1>5, <2>5, <2>6, <2>7 DEF Change, DebitsFirst
  <2>9. /\ job'[1].from = Nowhere /\ job'[1].to = "spent" /\ job'[1].amount = amount
        /\ job'[2].from = c /\ job'[2].to = Nowhere /\ job'[2].amount = amount
    BY <2>1 DEF Statement
  <2>10. QED BY <1>a, <1>5, <2>4, <2>8, <2>9 DEF Touches, DebitsFirst
<1>6. QED BY <1>1, <1>2, <1>3, <1>4, <1>5 DEF Kinds

\* The initial state satisfies the inductive invariant.
LEMMA InitIInv == Init => IInv /\ \A c \in Cards : db[c] >= 0
<1> SUFFICES ASSUME Init PROVE IInv /\ \A c \in Cards : db[c] >= 0
  OBVIOUS
<1>1. PICK sold \in [InitialCards -> 0..MaxAmount],
           all \in 0..MaxAmount * Cardinality(InitialCards) :
        db = [a \in Accounts |-> CASE a \in InitialCards -> sold[a]
                                   [] a = "outside"      -> -all
                                   [] OTHER              -> 0]
  BY DEF Init
<1>2. Cardinality(InitialCards) \in Nat
  <2>1. IsFiniteSet(InitialCards)
    BY CardsAssumption, FS_Subset
  <2>2. QED BY <2>1, FS_CardinalityType
<1>3. -all \in Int
  BY <1>2
<1>4. \A c \in Cards : c \in Accounts /\ c # "outside" /\ c # "cash"
  BY CardsAssumption DEF Accounts, Holdings
<1>5. InitialCards \subseteq Cards /\ "cash" \in Accounts
  BY CardsAssumption DEF Accounts, Holdings
<1>6. db \in [Accounts -> Int]
  <2>1. ASSUME NEW a \in Accounts PROVE db[a] \in Int
    <3>1. MaxAmount \in Nat
      BY LedgerBoundsAssumption
    <3>2. a \in InitialCards => sold[a] \in Int
      BY <3>1
    <3>3. QED BY <1>1, <1>3, <3>2
  <2>2. QED BY <1>1, <2>1
<1>7. ASSUME NEW c \in Cards PROVE db[c] >= 0
  <2>1. MaxAmount \in Nat
    BY LedgerBoundsAssumption
  <2>2. c \in InitialCards => sold[c] >= 0
    BY <2>1
  <2>3. QED BY <1>1, <1>4, <2>2
<1>8. /\ owned = InitialCards /\ job = <<>> /\ answer = "none"
      /\ began = FALSE /\ starting = FALSE /\ inflated = FALSE
      /\ view = [cards |-> [c \in owned |-> db[c]], cash |-> db["cash"]]
      /\ page = "other" /\ picked \in owned /\ wall = 0 /\ shows = "nothing"
      /\ dialog.kind = "none" /\ pc = "idle"
      /\ requests = 0 /\ faults = 0 /\ failed = FALSE /\ cut = FALSE
  BY DEF Init, NoDialog
<1>9. view.cards = [c \in owned |-> db[c]] /\ view.cash = db["cash"]
  BY <1>8
<1>10. view.cards \in [owned -> Int] /\ DOMAIN view.cards = owned /\ view.cash \in Int
  BY <1>4, <1>5, <1>6, <1>8, <1>9
<1>11. TypeOK
  <2>1. MaxRequests \in Nat /\ MaxFaults \in Nat
    BY LedgerBoundsAssumption
  <2>2. view.cards \in [DOMAIN view.cards -> Int] /\ requests \in 0..MaxRequests
        /\ faults \in 0..MaxFaults
    BY <1>8, <1>10, <2>1
  <2>3. owned \subseteq Cards /\ InitialCards \subseteq owned
        /\ DOMAIN view.cards \subseteq owned /\ picked \in DOMAIN view.cards
    BY <1>5, <1>8, <1>10
  <2>4. wall \in Int /\ page \in Pages
    BY <1>8 DEF Pages
  <2>5. began \in BOOLEAN /\ starting \in BOOLEAN
        /\ failed \in BOOLEAN /\ cut \in BOOLEAN /\ inflated \in BOOLEAN
    BY <1>8
  <2>6. answer \in {"none", "success", "failure"} /\ shows \in Cards \cup {"cash", "nothing"}
        /\ pc \in {"idle", "dialog", "waiting", "ended"}
        /\ dialog.kind \in Kinds \cup {"none"}
    BY <1>8
  <2>7. QED BY <1>6, <1>10, <2>2, <2>3, <2>4, <2>5, <2>6 DEF TypeOK
<1>12. Control
  BY <1>8, <1>10, EmptySeq DEF Control
<1>13. Covered
  <2>1. Len(job) = 0
    BY <1>8
  <2>2. QED BY <2>1 DEF Covered
<1>14. Copies
  <2>1. \A c \in owned : db[c] \in Int /\ view.cards[c] = db[c]
    BY <1>4, <1>5, <1>6, <1>8, <1>9
  <2>2. QED BY <1>8, <1>9, <2>1 DEF Copies
<1>15. Wall
  BY <1>8 DEF Wall
<1>16. QED BY <1>7, <1>11, <1>12, <1>13, <1>14, <1>15 DEF IInv, Shape

-----------------------------------------------------------------------------
\* What the invariant says of the types of the balances.
LEMMA Balances ==
  ASSUME Shape
  PROVE  /\ owned \subseteq Cards /\ "cash" \notin Cards /\ InitialCards \subseteq owned
         /\ db \in [Accounts -> Int] /\ db["cash"] \in Int
         /\ \A c \in Cards : c \in Accounts /\ db[c] \in Int /\ Nowhere # c
         /\ view = [cards |-> view.cards, cash |-> view.cash]
         /\ view.cards \in [DOMAIN view.cards -> Int] /\ view.cash \in Int
         /\ DOMAIN view.cards \subseteq owned /\ picked \in DOMAIN view.cards
         /\ wall \in Int /\ faults \in Nat /\ requests \in Nat
<1>1. "cash" \in Accounts /\ \A c \in Cards : c \in Accounts
  BY DEF Accounts, Holdings
<1>2. "cash" \notin Cards /\ Nowhere \notin Cards
  BY CardsAssumption
<1>3. db \in [Accounts -> Int] /\ owned \subseteq Cards
  BY DEF Shape, TypeOK
<1>4. QED BY <1>1, <1>2, <1>3 DEF Shape, TypeOK, Control

\* The dialog has a balance of every card the dashboard knows.
LEMMA DialogCards ==
  ASSUME Shape, pc \in {"dialog", "waiting"}
  PROVE  /\ dialog.kind \in Kinds /\ dialog.cards \in [DOMAIN view.cards -> Int]
         /\ \A c \in DOMAIN view.cards : dialog.cards[c] \in Int
BY DEF Shape, Control

\* Confirming a dialog changes nothing but the dialog and the request.
LEMMA Confirms ==
  ASSUME Shape, NEW c \in owned \cup {"cash"}, NEW amount \in Amounts, Confirm(c, amount)
  PROVE  /\ pc = "dialog" /\ pc' = "waiting" /\ job = <<>> /\ answer = "none"
         /\ dialog.kind \in Kinds \ {"AddCard"} /\ dialog'.kind = dialog.kind
         /\ DOMAIN view.cards = owned /\ amount \in Int /\ ~starting
         /\ dialog'.card = c /\ dialog'.amount = amount
         /\ dialog.kind = "AddFunds" => c = picked /\ c # "cash"
         /\ dialog.kind \in DebitsFirst => c # "cash"
         /\ dialog.kind # "AddFunds" /\ c # "cash" => amount <= dialog.cards[c]
         /\ dialog'.cards = IF dialog.kind \in DebitsFirst
                              THEN [dialog.cards EXCEPT ![c] = @ - amount]
                              ELSE dialog.cards
         /\ dialog'.cards \in [owned -> Int]
         /\ job' = Statements(dialog.kind, c, amount) /\ began' = FALSE
         /\ requests' = requests + 1 /\ requests < MaxRequests
         /\ UNCHANGED <<db, owned, starting, answer, view, page, picked, wall, shows,
                        faults, failed, cut, inflated>>
<1>1. /\ pc = "dialog" /\ pc' = "waiting" /\ dialog.kind \in Kinds \ {"AddCard"}
      /\ Covers(dialog.kind, c, amount)
      /\ dialog' = [kind |-> dialog.kind, cards |->
                      IF dialog.kind \in DebitsFirst
                        THEN [dialog.cards EXCEPT ![c] = @ - amount] ELSE dialog.cards,
                    card |-> c, amount |-> amount]
      /\ job' = Statements(dialog.kind, c, amount) /\ began' = FALSE
      /\ requests' = requests + 1 /\ requests < MaxRequests
      /\ UNCHANGED <<db, owned, starting, answer, view, page, picked, wall, shows,
                     faults, failed, cut, inflated>>
  BY DEF Confirm, Request, dbVars, wallVars, faultVars
<1>2. job = <<>> /\ answer = "none" /\ DOMAIN view.cards = owned /\ ~starting
  BY <1>1 DEF Shape, Control
<1>3. amount \in Int
  BY LedgerBoundsAssumption DEF Amounts
<1>4. dialog.cards \in [owned -> Int]
  BY <1>1, <1>2, DialogCards
<1>5. /\ dialog.kind = "AddFunds" => c = picked /\ c # "cash"
      /\ dialog.kind \in DebitsFirst => c # "cash"
      /\ dialog.kind # "AddFunds" /\ c # "cash" => amount <= dialog.cards[c]
  BY <1>1, Balances DEF Covers, DebitsFirst
<1>6. dialog'.kind = dialog.kind /\ dialog'.card = c /\ dialog'.amount = amount
      /\ dialog'.cards = IF dialog.kind \in DebitsFirst
                           THEN [dialog.cards EXCEPT ![c] = @ - amount]
                           ELSE dialog.cards
  BY <1>1
<1>7. dialog'.cards \in [owned -> Int]
  <2>1. CASE dialog.kind \in DebitsFirst
    <3>1. c \in owned /\ dialog.cards[c] - amount \in Int
      BY <1>3, <1>4, <1>5, <2>1
    <3>2. QED BY <1>4, <1>6, <2>1, <3>1
  <2>2. CASE dialog.kind \notin DebitsFirst
    BY <1>4, <1>6, <2>2
  <2>3. QED BY <2>1, <2>2
<1>8. QED BY <1>1, <1>2, <1>3, <1>5, <1>6, <1>7

\* Neither does confirming a new card.
LEMMA ConfirmsCard ==
  ASSUME Shape, NEW c \in Cards, ConfirmCard(c)
  PROVE  /\ pc = "dialog" /\ pc' = "waiting" /\ job = <<>> /\ answer = "none"
         /\ dialog.kind = "AddCard" /\ dialog'.kind = "AddCard"
         /\ DOMAIN view.cards = owned /\ ~starting /\ job'[1].from = Nowhere
         /\ dialog'.card = c /\ dialog'.amount = 0 /\ dialog'.cards = dialog.cards
         /\ job' \in Seq(Step) /\ Len(job') = 1 /\ job' # <<>> /\ began' = FALSE
         /\ \A a \in Cards \cup {"cash"} : Due(a)' = 0
         /\ requests' = requests + 1 /\ requests < MaxRequests
         /\ UNCHANGED <<db, owned, starting, answer, view, page, picked, wall, shows,
                        faults, failed, cut, inflated>>
<1>1. /\ pc = "dialog" /\ pc' = "waiting" /\ dialog.kind = "AddCard"
      /\ dialog' = [kind |-> "AddCard", cards |-> dialog.cards, card |-> c, amount |-> 0]
      /\ job' = <<Statement(Nowhere, Nowhere, 0)>> /\ began' = FALSE
      /\ requests' = requests + 1 /\ requests < MaxRequests
      /\ UNCHANGED <<db, owned, starting, answer, view, page, picked, wall, shows,
                     faults, failed, cut, inflated>>
  BY DEF ConfirmCard, Request, dbVars, wallVars, faultVars
<1>2. job = <<>> /\ answer = "none" /\ DOMAIN view.cards = owned /\ ~starting
  BY <1>1 DEF Shape, Control
<1>3. Statement(Nowhere, Nowhere, 0) \in Step
  BY DEF Statement, Step
<1>4. job' \in Seq(Step) /\ Len(job') = 1 /\ job' # <<>> /\ job'[1].from = Nowhere
  BY <1>1, <1>3 DEF Statement
<1>5. \A a : Effect(job'[1], a) = 0
  BY <1>1 DEF Effect, Statement
<1>6. \A a : Due(a)' = 0
  BY <1>4, <1>5 DEF Due, Effect
<1>7. QED BY <1>1, <1>2, <1>4, <1>6

\* A dialog that is accepted closes.
LEMMA Accepts ==
  ASSUME Shape, NEW kind, Accepted(kind)
  PROVE  /\ pc = "waiting" /\ answer = "success" /\ dialog.kind = kind /\ job = <<>>
         /\ pc' = "idle" /\ dialog'.kind = "none" /\ answer' = "none"
         /\ dialog.card \in Cards \cup {"cash"} /\ dialog.amount \in Int
         /\ kind \in Kinds /\ page = OpenedFrom(kind)
         /\ kind = "AddFunds" /\ Attentive => shows = picked
         /\ kind = "AddFunds" => dialog.card = picked
         /\ kind # "AddCard" =>
              DOMAIN view.cards = owned /\ dialog.card \in owned \cup {"cash"}
         /\ dialog.cards \in [DOMAIN view.cards -> Int]
         /\ UNCHANGED <<db, owned, job, began, starting, requests, faults,
                        failed, cut, inflated>>
<1>1. /\ pc = "waiting" /\ answer = "success" /\ dialog.kind = kind
      /\ pc' = "idle" /\ dialog' = NoDialog /\ answer' = "none"
      /\ UNCHANGED <<db, owned, job, began, starting, requests, faults,
                        failed, cut, inflated>>
  BY DEF Accepted, Answered, dbVars, serverVars, faultVars
<1>2. dialog'.kind = "none"
  BY <1>1 DEF NoDialog
<1>3. QED BY <1>1, <1>2 DEF Shape, Control

\* What the dashboard knows after it has taken each answer.
LEMMA TakesCard ==
  ASSUME Shape, AddCardExec
  PROVE  /\ view' = [cards |-> view'.cards, cash |-> view'.cash]
         /\ view'.cards = [c \in owned |-> db[c]] /\ view'.cash = view.cash
         /\ view'.cards \in [owned -> Int] /\ DOMAIN view'.cards = owned
         /\ picked' \in owned /\ UNCHANGED <<page, wall, shows>>
<1>1. view' = [cards |-> [c \in owned |-> db[c]], cash |-> view.cash]
  BY Balances DEF AddCardExec
<1>2. view'.cards = [c \in owned |-> db[c]] /\ view'.cash = view.cash
      /\ view' = [cards |-> view'.cards, cash |-> view'.cash]
  BY <1>1
<1>3. \A c \in owned : db[c] \in Int
  BY Balances
<1>4. view'.cards \in [owned -> Int] /\ DOMAIN view'.cards = owned
  BY <1>2, <1>3
<1>5. QED BY <1>2, <1>4 DEF AddCardExec

LEMMA TakesFunds ==
  ASSUME Shape, AddFundsExec
  PROVE  /\ view' = [cards |-> view'.cards, cash |-> view'.cash]
         /\ view'.cards = [view.cards EXCEPT ![dialog.card] = wall + dialog.amount]
         /\ view'.cards \in [owned -> Int] /\ DOMAIN view'.cards = owned
         /\ view'.cash = view.cash /\ wall' = wall + dialog.amount /\ wall' \in Int
         /\ UNCHANGED <<page, picked, shows>>
<1>1. DOMAIN view.cards = owned /\ dialog.amount \in Int
  BY Accepts DEF AddFundsExec
<1>2. /\ view' = [cards |-> [view.cards EXCEPT ![dialog.card] = wall'],
                  cash |-> view.cash]
      /\ wall' = wall + dialog.amount /\ UNCHANGED <<page, picked, shows>>
  BY Balances DEF AddFundsExec
<1>3. wall' \in Int
  BY <1>1, <1>2, Balances
<1>4. view'.cards = [view.cards EXCEPT ![dialog.card] = wall'] /\ view'.cash = view.cash
      /\ view' = [cards |-> view'.cards, cash |-> view'.cash]
  BY <1>2
<1>5. view'.cards \in [owned -> Int] /\ DOMAIN view'.cards = owned
  BY <1>1, <1>3, <1>4, Balances
<1>6. QED BY <1>2, <1>3, <1>4, <1>5

LEMMA TakesCash ==
  ASSUME Shape, RechargeCashExec
  PROVE  /\ view' = [cards |-> view'.cards, cash |-> view'.cash]
         /\ view'.cards = dialog.cards /\ view'.cash = view.cash + dialog.amount
         /\ view'.cards \in [owned -> Int] /\ DOMAIN view'.cards = owned
         /\ view'.cash \in Int /\ wall' \in Int /\ shows' = "cash"
         /\ UNCHANGED <<page, picked>>
<1>1. DOMAIN view.cards = owned /\ dialog.amount \in Int
      /\ dialog.cards \in [DOMAIN view.cards -> Int]
  BY Accepts DEF RechargeCashExec
<1>2. view' = [cards |-> dialog.cards, cash |-> view.cash + dialog.amount]
      /\ wall' = view'.cash /\ shows' = "cash" /\ UNCHANGED <<page, picked>>
  BY DEF RechargeCashExec, ShowCash
<1>3. view'.cards = dialog.cards /\ view'.cash = view.cash + dialog.amount
      /\ view' = [cards |-> view'.cards, cash |-> view'.cash]
  BY <1>2
<1>4. view'.cash \in Int
  BY <1>1, <1>3, Balances
<1>5. QED BY <1>1, <1>2, <1>3, <1>4

LEMMA TakesSaving ==
  ASSUME Shape, AddFundsToSavingExec
  PROVE  /\ view' = [cards |-> view'.cards, cash |-> view'.cash]
         /\ view'.cards = dialog.cards /\ view'.cash = view.cash
         /\ view'.cards \in [owned -> Int] /\ DOMAIN view'.cards = owned
         /\ UNCHANGED <<page, picked, wall, shows>>
<1>1. DOMAIN view.cards = owned /\ dialog.cards \in [DOMAIN view.cards -> Int]
  BY Accepts DEF AddFundsToSavingExec
<1>2. view' = [cards |-> dialog.cards, cash |-> view.cash]
      /\ UNCHANGED <<page, picked, wall, shows>>
  BY Balances DEF AddFundsToSavingExec, wallVars
<1>3. QED BY <1>1, <1>2

LEMMA TakesSpending ==
  ASSUME Shape, AddSpendingExec
  PROVE  /\ view' = [cards |-> view'.cards, cash |-> view'.cash]
         /\ view'.cards = IF dialog.card = "cash" THEN view.cards
              ELSE [view.cards EXCEPT ![dialog.card] = @ - dialog.amount]
         /\ view'.cards \in [owned -> Int] /\ DOMAIN view'.cards = owned
         /\ view'.cash = view.cash
         /\ UNCHANGED <<page, picked, wall, shows>>
<1>1. DOMAIN view.cards = owned /\ dialog.amount \in Int
      /\ dialog.card \in owned \cup {"cash"}
  BY Accepts DEF AddSpendingExec
<1>2. UNCHANGED <<page, picked, wall, shows>>
  BY DEF AddSpendingExec, wallVars
<1>3. CASE dialog.card = "cash"
  BY <1>1, <1>2, <1>3, Balances DEF AddSpendingExec
<1>4. CASE dialog.card # "cash"
  <2>1. view' = [cards |-> [view.cards EXCEPT ![dialog.card] = @ - dialog.amount],
                 cash |-> view.cash]
    BY <1>4, Balances DEF AddSpendingExec
  <2>2. view'.cards = [view.cards EXCEPT ![dialog.card] = @ - dialog.amount]
        /\ view'.cash = view.cash
        /\ view' = [cards |-> view'.cards, cash |-> view'.cash]
    BY <2>1
  <2>3. view.cards[dialog.card] - dialog.amount \in Int
    BY <1>1, <1>4, Balances
  <2>4. view'.cards \in [owned -> Int] /\ DOMAIN view'.cards = owned
    <3>1. view.cards \in [owned -> Int]
      BY <1>1, Balances
    <3>2. QED BY <2>2, <2>3, <3>1
  <2>5. QED BY <1>2, <1>4, <2>2, <2>4
<1>5. QED BY <1>3, <1>4

\* The server works on its request alone.
LEMMA Runs ==
  ASSUME Shape, RunStatement
  PROVE  /\ began' = TRUE /\ owned \subseteq owned' /\ owned' \subseteq Cards
         /\ dialog.kind # "AddCard" => owned' = owned
         /\ ~starting => pc \in {"waiting", "ended"} /\ dialog.kind \in Kinds
         /\ starting => pc = "ended"
         /\ answer' \in {"none", "success"} /\ (job' # <<>> => answer' = "none")
         /\ UNCHANGED <<view, page, picked, wall, shows, dialog, pc, requests,
                        starting, faults, failed, cut, inflated>>
<1>1. /\ job # <<>> /\ began' = TRUE
      /\ owned' = IF dialog.kind = "AddCard" THEN owned \cup {dialog.card} ELSE owned
      /\ answer' = IF Len(job) = 1 /\ pc = "waiting" THEN "success" ELSE "none"
      /\ UNCHANGED <<view, page, picked, wall, shows, dialog, pc, requests,
                     starting, faults, failed, cut, inflated>>
  BY DEF RunStatement, clientVars, wallVars, faultVars
<1>2. /\ ~starting => pc \in {"waiting", "ended"} /\ dialog.kind \in Kinds
      /\ starting => pc = "ended"
      /\ dialog.kind = "AddCard" => dialog.card \in Cards
  BY <1>1 DEF Shape, Control
<1>3. job' # <<>> => answer' = "none"
  BY <1>1, Moves
<1>4. QED BY <1>1, <1>2, <1>3, Balances

\* A recurring transaction is two statements, which touch the card at most once.
LEMMA Recurs ==
  ASSUME Shape, NEW c \in owned, NEW amount \in Amounts,
         InitReccurentTransactions(c, amount)
  PROVE  /\ starting /\ pc = "ended" /\ dialog.kind = "none" /\ job = <<>>
         /\ job' \in Seq(Step) /\ Len(job') = 2 /\ job' # <<>> /\ began' = FALSE
         /\ \A a \in Cards : Touches(job'[1], a) => ~Touches(job'[2], a)
         /\ requests' = requests + 1 /\ requests < MaxRequests
         /\ UNCHANGED <<db, owned, starting, answer, view, page, picked, wall, shows,
                        dialog, pc, faults, failed, cut, inflated>>
<1>1. /\ starting /\ job = <<>> /\ began' = FALSE
      /\ job' = <<Statement(c, Nowhere, amount), Statement(Nowhere, "recurred", amount)>>
         \/ job' = <<Statement("outside", c, amount), Statement(Nowhere, Nowhere, amount)>>
      /\ requests' = requests + 1 /\ requests < MaxRequests
      /\ UNCHANGED <<db, owned, starting, answer, view, page, picked, wall, shows,
                     dialog, pc, faults, failed, cut, inflated>>
  BY DEF InitReccurentTransactions, dbVars, wallVars, faultVars
<1>2. pc = "ended" /\ dialog.kind = "none"
  BY <1>1 DEF Shape, Control
<1>3. amount \in Int
  BY LedgerBoundsAssumption DEF Amounts
<1>4. \A a \in Cards : a # Nowhere /\ a # "recurred"
  BY CardsAssumption
<1>5. c \in Accounts /\ "recurred" \in Accounts /\ "outside" \in Accounts
  BY Balances DEF Accounts, Holdings
<1>6. CASE job' = <<Statement(c, Nowhere, amount), Statement(Nowhere, "recurred", amount)>>
  <2>1. Statement(c, Nowhere, amount) \in Step /\ Statement(Nowhere, "recurred", amount) \in Step
    BY <1>3, <1>5 DEF Statement, Step
  <2>2. job' \in Seq(Step) /\ Len(job') = 2 /\ job' # <<>>
    BY <1>6, <2>1
  <2>3. job'[2].from = Nowhere /\ job'[2].to = "recurred"
    BY <1>6 DEF Statement
  <2>4. QED BY <1>1, <1>2, <1>4, <2>2, <2>3 DEF Touches
<1>7. CASE job' = <<Statement("outside", c, amount), Statement(Nowhere, Nowhere, amount)>>
  <2>1. Statement("outside", c, amount) \in Step /\ Statement(Nowhere, Nowhere, amount) \in Step
    BY <1>3, <1>5 DEF Statement, Step
  <2>2. job' \in Seq(Step) /\ Len(job') = 2 /\ job' # <<>>
    BY <1>7, <2>1
  <2>3. job'[2].from = Nowhere /\ job'[2].to = Nowhere
    BY <1>7 DEF Statement
  <2>4. QED BY <1>1, <1>2, <1>4, <2>2, <2>3 DEF Touches
<1>8. QED BY <1>1, <1>6, <1>7

\* A fault leaves the database alone.
LEMMA Faults ==
  ASSUME Shape, Fault
  PROVE  /\ faults' \in 0..MaxFaults /\ UNCHANGED <<db, owned>>
         /\ cut' = (cut \/ (job # <<>> /\ began))
<1>1. faults' = faults + 1 /\ faults < MaxFaults /\ UNCHANGED <<db, owned>>
      /\ cut' = (cut \/ (job # <<>> /\ began))
  BY DEF Fault, dbVars
<1>2. MaxFaults \in Nat
  BY LedgerBoundsAssumption
<1>3. QED BY <1>1, <1>2, Balances

\* A statement that fails ends its request, and may leave the copies too high.
LEMMA Fails ==
  ASSUME Shape, FailStatement
  PROVE  /\ job # <<>> /\ ~starting /\ job' = <<>> /\ began' = FALSE /\ failed' = TRUE
         /\ pc \in {"waiting", "ended"} /\ answer' \in {"none", "failure"}
         /\ answer' = "failure" => pc = "waiting"
         /\ inflated' \in BOOLEAN /\ (~inflated' => ~inflated /\ Harmless)
         /\ cut' = (cut \/ (job # <<>> /\ began)) /\ faults' \in 0..MaxFaults
         /\ UNCHANGED <<db, owned, starting, view, page, picked, wall, shows,
                        dialog, pc, requests>>
<1>1. /\ job # <<>> /\ ~starting /\ Fault
      /\ failed' = TRUE /\ job' = <<>> /\ began' = FALSE
      /\ answer' = IF pc = "waiting" THEN "failure" ELSE "none"
      /\ inflated' = (inflated \/ (/\ dialog.kind \in DebitsFirst
                                   /\ began \/ dialog.amount < 0))
      /\ UNCHANGED <<starting, view, page, picked, wall, shows, dialog, pc, requests>>
  BY DEF FailStatement, clientVars, wallVars
<1>2. inflated \in BOOLEAN
  BY DEF Shape, TypeOK
<1>3. inflated' \in BOOLEAN /\ (~inflated' => ~inflated /\ Harmless)
  BY <1>1, <1>2 DEF Harmless
<1>4. pc \in {"waiting", "ended"}
  BY <1>1 DEF Shape, Control
<1>5. QED BY <1>1, <1>3, <1>4, Faults

\* Every step keeps every variable within its type.
LEMMA TypeStep == Shape /\ [Next]_ledgerVars => TypeOK'
<1> SUFFICES ASSUME Shape, [Next]_ledgerVars PROVE TypeOK'
  OBVIOUS
<1>a. TypeOK
  BY DEF Shape
<1>b. requests < MaxRequests => requests + 1 \in 0..MaxRequests
  BY <1>a, LedgerBoundsAssumption DEF TypeOK
<1>c. faults < MaxFaults => faults + 1 \in 0..MaxFaults
  BY <1>a, LedgerBoundsAssumption DEF TypeOK
<1> USE DEF TypeOK, dbVars, serverVars, wallVars, faultVars, clientVars
<1>1. CASE Leave
  BY <1>1, <1>a DEF Leave, StaysOnPage, Pages
<1>2. CASE OpenFinances
  BY <1>2, <1>a DEF OpenFinances, StaysOnPage, ShowCard, Pages
<1>3. CASE SwitchTab
  BY <1>3, <1>a DEF SwitchTab, StaysOnPage, ShowCard, ShowCash, Pages
<1>4. ASSUME NEW c \in owned, PickCard(c) PROVE TypeOK'
  <2>1. c \in DOMAIN view.cards
    BY <1>4 DEF Shape, Control, PickCard, Idle
  <2>2. QED BY <1>4, <1>a, <2>1 DEF PickCard, StaysOnPage, ShowCard
<1>5. ASSUME NEW kind \in Kinds, OpenDialog(kind) PROVE TypeOK'
  <2>1. dialog'.kind = kind
    BY <1>5 DEF OpenDialog
  <2>2. QED BY <1>5, <1>a, <2>1 DEF OpenDialog
<1>6. CASE Cancel
  <2>1. dialog'.kind = "none"
    BY <1>6 DEF Cancel, NoDialog
  <2>2. QED BY <1>6, <1>a, <2>1 DEF Cancel
<1>7. ASSUME NEW c \in owned \cup {"cash"}, NEW amount \in Amounts, Confirm(c, amount) PROVE TypeOK'
  BY <1>7, <1>a, <1>b, Confirms
<1>8. ASSUME NEW c \in Cards, ConfirmCard(c) PROVE TypeOK'
  <2>1. "AddCard" \in Kinds
    BY DEF Kinds
  <2>2. QED BY <1>8, <1>a, <1>b, <2>1, ConfirmsCard
<1>9. CASE TakeFailure
  BY <1>9, <1>a DEF TakeFailure, Answered
<1>10. CASE AddCardExec
  BY <1>10, <1>a, TakesCard, Accepts DEF AddCardExec
<1>11. CASE AddFundsExec
  BY <1>11, <1>a, TakesFunds, Accepts DEF AddFundsExec
<1>12. CASE RechargeCashExec
  BY <1>12, <1>a, TakesCash, Accepts DEF RechargeCashExec
<1>13. CASE AddFundsToSavingExec
  BY <1>13, <1>a, TakesSaving, Accepts DEF AddFundsToSavingExec
<1>14. CASE AddSpendingExec
  BY <1>14, <1>a, TakesSpending, Accepts DEF AddSpendingExec
<1>15. CASE RunStatement
  BY <1>15, <1>a, Runs, Moves
<1>16. CASE FailStatement
  BY <1>16, <1>a, Fails
<1>17. CASE Stop
  <2>1. dialog'.kind = "none"
    BY <1>17 DEF Stop, NoDialog
  <2>2. QED BY <1>17, <1>a, <2>1, Faults DEF Stop
<1>18. CASE Lose
  BY <1>18, <1>a, <1>c DEF Lose
<1>19. CASE Restart
  <2>1. dialog'.kind = "none"
    BY <1>19 DEF Restart, NoDialog
  <2>2. view'.cards = [c \in owned |-> db[c]] /\ view'.cash = db["cash"]
    BY <1>19 DEF Restart
  <2>3. DOMAIN view'.cards = owned /\ view'.cash \in Int
        /\ view'.cards \in [DOMAIN view'.cards -> Int]
    BY <2>2, Balances
  <2>4. pc' = "idle" /\ answer' = "none" /\ page' = "other" /\ picked' \in owned
        /\ failed' = FALSE /\ starting' = FALSE /\ inflated' = FALSE
        /\ UNCHANGED <<db, owned, began, wall, shows, requests, faults, cut>>
    BY <1>19 DEF Restart
  <2>5. QED BY <1>a, <2>1, <2>3, <2>4 DEF Pages
<1>20. CASE UNCHANGED ledgerVars
  BY <1>20, <1>a DEF ledgerVars
<1>21. ASSUME NEW c \in owned, NEW amount \in Amounts, InitReccurentTransactions(c, amount)
       PROVE  TypeOK'
  BY <1>21, <1>a, <1>b, Recurs
<1>22. QED
  BY <1>1, <1>2, <1>3, <1>4, <1>5, <1>6, <1>7, <1>8, <1>9, <1>10,
     <1>11, <1>12, <1>13, <1>14, <1>15, <1>16, <1>17, <1>18, <1>19, <1>20, <1>21
  DEF Next, Navigate, Ask, Take

\* A dialog stays on its page, and its request keeps its form.
LEMMA ControlStep == Shape /\ [Next]_ledgerVars => Control'
<1> SUFFICES ASSUME Shape, [Next]_ledgerVars PROVE Control'
  OBVIOUS
<1>a. TypeOK /\ Control
  BY DEF Shape
<1> USE DEF dbVars, serverVars, wallVars, faultVars, clientVars
<1>1. CASE Leave
  BY <1>1, <1>a DEF Control, Leave, StaysOnPage, Idle
<1>2. CASE OpenFinances
  BY <1>2, <1>a DEF Control, OpenFinances, StaysOnPage, Idle, ShowCard
<1>3. CASE SwitchTab
  BY <1>3, <1>a DEF Control, SwitchTab, StaysOnPage, Idle, ShowCard, ShowCash
<1>4. ASSUME NEW c \in owned, PickCard(c) PROVE Control'
  BY <1>4, <1>a DEF Control, PickCard, StaysOnPage, Idle, ShowCard
<1>5. ASSUME NEW kind \in Kinds, OpenDialog(kind) PROVE Control'
  <2>1. dialog'.kind = kind /\ dialog'.cards = view.cards
    BY <1>5 DEF OpenDialog
  <2>2. view.cards \in [DOMAIN view.cards -> Int]
    BY Balances
  <2>3. QED BY <1>5, <1>a, <2>1, <2>2 DEF Control, OpenDialog, Idle
<1>6. CASE Cancel
  BY <1>6, <1>a DEF Control, Cancel
<1>7. ASSUME NEW c \in owned \cup {"cash"}, NEW amount \in Amounts, Confirm(c, amount) PROVE Control'
  <2>1. dialog.kind \in {"AddFunds"} \cup DebitsFirst => c # "cash"
    BY <1>7, Confirms
  <2>2. c \in Cards \cup {"cash"} /\ dialog.kind \in Kinds \ {"AddCard"}
        /\ amount \in Int /\ job' = Statements(dialog.kind, c, amount)
    BY <1>7, Confirms, Balances
  <2>3. /\ job' \in Seq(Step) /\ Len(job') \in {1, 2} /\ job' # <<>>
        /\ Len(job') = 2 => \A a \in Cards : Touches(job'[1], a) => ~Touches(job'[2], a)
        /\ Len(job') = 2 /\ dialog.kind \notin DebitsFirst =>
             \A a \in Cards : ~Touches(job'[1], a)
    BY <2>1, <2>2, Demands
  <2>4. page = OpenedFrom(dialog.kind)
        /\ (dialog.kind = "AddFunds" /\ Attentive => shows = picked)
        /\ view = [cards |-> view.cards, cash |-> view.cash]
    BY <1>7, <1>a, Confirms DEF Control
  <2>5. /\ pc' = "waiting" /\ answer' = "none" /\ dialog'.kind = dialog.kind
        /\ dialog'.card = c /\ dialog'.amount = amount /\ dialog'.cards \in [owned -> Int]
        /\ DOMAIN view.cards = owned /\ began' = FALSE
        /\ (dialog.kind = "AddFunds" => c = picked)
        /\ (dialog.kind \in DebitsFirst => c # "cash")
        /\ ~starting /\ UNCHANGED <<owned, starting, view, page, picked, shows>>
    BY <1>7, Confirms
  <2>6. QED BY <2>2, <2>3, <2>4, <2>5 DEF Control, Touches
<1>8. ASSUME NEW c \in Cards, ConfirmCard(c) PROVE Control'
  <2>1. page = OpenedFrom("AddCard") /\ dialog.cards \in [DOMAIN view.cards -> Int]
        /\ view = [cards |-> view.cards, cash |-> view.cash]
    BY <1>8, <1>a, ConfirmsCard DEF Control
  <2>2. "AddCard" \in Kinds /\ "AddCard" \notin DebitsFirst /\ 0 \in Int
    BY DEF Kinds, DebitsFirst
  <2>3. /\ pc' = "waiting" /\ answer' = "none" /\ dialog'.kind = "AddCard"
        /\ dialog'.card = c /\ dialog'.amount = 0 /\ dialog'.cards = dialog.cards
        /\ job' \in Seq(Step) /\ Len(job') = 1 /\ job' # <<>>
        /\ DOMAIN view.cards = owned
        /\ ~starting /\ UNCHANGED <<owned, starting, view, page, picked, shows>>
    BY <1>8, ConfirmsCard
  <2>4. QED BY <2>1, <2>2, <2>3 DEF Control
<1>9. CASE TakeFailure
  <2>1. pc = "waiting" /\ answer = "failure" /\ answer' = "none" /\ pc' = "dialog"
        /\ UNCHANGED <<db, owned, job, began, starting, requests, faults, failed, cut, view,
                       page, picked, wall, shows, dialog>>
    BY <1>9 DEF TakeFailure, Answered
  <2>2. job = <<>> /\ DOMAIN view.cards = owned
    BY <1>a, <2>1 DEF Control
  <2>3. QED BY <1>a, <2>1, <2>2 DEF Control
<1>10. CASE AddCardExec
  BY <1>10, <1>a, TakesCard, Accepts DEF Control, AddCardExec
<1>11. CASE AddFundsExec
  BY <1>11, <1>a, TakesFunds, Accepts DEF Control, AddFundsExec
<1>12. CASE RechargeCashExec
  BY <1>12, <1>a, TakesCash, Accepts DEF Control, RechargeCashExec
<1>13. CASE AddFundsToSavingExec
  BY <1>13, <1>a, TakesSaving, Accepts DEF Control, AddFundsToSavingExec
<1>14. CASE AddSpendingExec
  BY <1>14, <1>a, TakesSpending, Accepts DEF Control, AddSpendingExec
<1>15. CASE RunStatement
  <2>1. job # <<>> /\ job' \in Seq(Step) /\ Len(job) \in {1, 2}
        /\ (Len(job) = 1 => job' = <<>>) /\ (Len(job) = 2 => Len(job') = 1)
    BY <1>15, Moves
  <2>2. Len(<<>>) = 0 /\ 0 # 2 /\ 1 # 2
    OBVIOUS
  <2>3. Len(job') # 2 /\ (job' # <<>> => Len(job') \in {1, 2})
    BY <2>1, <2>2
  <2>4. QED BY <1>15, <1>a, <2>1, <2>3, Runs DEF Control
<1>16. CASE FailStatement
  BY <1>16, <1>a, Fails DEF Control
<1>17. CASE Stop
  <2>1. /\ job' = <<>> /\ pc' = "ended" /\ dialog'.kind = "none"
        /\ UNCHANGED <<owned, view, page, picked, shows>>
    BY <1>17 DEF Stop, Fault, NoDialog
  <2>2. QED BY <1>a, <2>1, EmptySeq DEF Control
<1>18. CASE Lose
  BY <1>18, <1>a DEF Control, Lose
<1>19. CASE Restart
  <2>1. /\ job = <<>> /\ job' = <<>> /\ pc' = "idle" /\ answer' = "none" /\ ~starting'
        /\ view' = [cards |-> [c \in owned |-> db[c]], cash |-> db["cash"]]
        /\ owned' = owned
    BY <1>19 DEF Restart
  <2>2. QED BY <2>1, EmptySeq DEF Control
<1>20. CASE UNCHANGED ledgerVars
  BY <1>20, <1>a DEF Control, ledgerVars
<1>21. ASSUME NEW c \in owned, NEW amount \in Amounts, InitReccurentTransactions(c, amount)
       PROVE  Control'
  <2>1. /\ starting /\ pc = "ended" /\ dialog.kind = "none"
        /\ job' \in Seq(Step) /\ Len(job') = 2 /\ began' = FALSE
        /\ \A a \in Cards : Touches(job'[1], a) => ~Touches(job'[2], a)
        /\ UNCHANGED <<starting, pc, dialog, view>>
    BY <1>21, Recurs
  <2>2. view = [cards |-> view.cards, cash |-> view.cash]
    BY Balances
  <2>3. QED BY <2>1, <2>2 DEF Control, Touches
<1>22. QED
  BY <1>1, <1>2, <1>3, <1>4, <1>5, <1>6, <1>7, <1>8, <1>9, <1>10,
     <1>11, <1>12, <1>13, <1>14, <1>15, <1>16, <1>17, <1>18, <1>19, <1>20, <1>21
  DEF Next, Navigate, Ask, Take

\* No statement takes more than the dialog's copy said, which is never too much.
LEMMA CoveredStep == IInv /\ [Next]_ledgerVars => Covered'
<1> SUFFICES ASSUME IInv, [Next]_ledgerVars PROVE Covered'
  OBVIOUS
<1>s. Shape
  BY DEF IInv
<1> USE <1>s
<1>a. Covered /\ Control
  BY DEF IInv, Shape
<1>b. UNCHANGED <<db, job, starting, inflated>> => Covered'
  BY <1>a DEF Covered
<1>c. job' = <<>> => Covered'
  <2>1. Len(<<>>) = 0
    OBVIOUS
  <2>2. QED BY <2>1 DEF Covered
<1> USE DEF dbVars, serverVars, wallVars, faultVars, clientVars
<1>1. CASE Leave
  BY <1>1, <1>b DEF Leave, StaysOnPage, Idle
<1>2. CASE OpenFinances
  BY <1>2, <1>b DEF OpenFinances, StaysOnPage, Idle, ShowCard
<1>3. CASE SwitchTab
  BY <1>3, <1>b DEF SwitchTab, StaysOnPage, Idle, ShowCard, ShowCash
<1>4. ASSUME NEW c \in owned, PickCard(c) PROVE Covered'
  BY <1>4, <1>b DEF PickCard, StaysOnPage, Idle, ShowCard
<1>5. ASSUME NEW kind \in Kinds, OpenDialog(kind) PROVE Covered'
  BY <1>5, <1>b DEF OpenDialog, Idle
<1>6. CASE Cancel
  BY <1>6, <1>b DEF Cancel
<1>7. ASSUME NEW c \in owned \cup {"cash"}, NEW amount \in Amounts, Confirm(c, amount) PROVE Covered'
  <2> SUFFICES ASSUME ~inflated', NEW i \in 1..Len(job'), job'[i].from \in Cards
               PROVE  job'[i].amount <= db'[job'[i].from]
    BY DEF Covered
  <2>1. dialog.kind \in {"AddFunds"} \cup DebitsFirst => c # "cash"
    BY <1>7, Confirms
  <2>2. c \in Cards \cup {"cash"} /\ dialog.kind \in Kinds \ {"AddCard"}
        /\ amount \in Int /\ job' = Statements(dialog.kind, c, amount)
    BY <1>7, Confirms, Balances
  <2>3. job'[i].from = c /\ job'[i].amount = amount /\ dialog.kind # "AddFunds"
    <3>1. \A k \in 1..Len(job') : job'[k].from \in Cards =>
            job'[k].from = c /\ job'[k].amount = amount /\ dialog.kind # "AddFunds"
      BY <2>1, <2>2, Demands
    <3>2. QED BY <3>1
  <2>4. c \in owned /\ c # "cash" /\ db[c] \in Int
    BY <2>3, Balances
  <2>5. pc = "dialog" /\ ~inflated /\ db' = db
    BY <1>7, Confirms
  <2>6. amount <= dialog.cards[c] /\ dialog.cards[c] <= db[c] /\ dialog.cards[c] \in Int
    BY <1>7, <2>3, <2>4, <2>5, Confirms, DialogCards DEF IInv, Copies
  <2>7. QED BY <2>2, <2>3, <2>4, <2>5, <2>6
<1>8. ASSUME NEW c \in Cards, ConfirmCard(c) PROVE Covered'
  <2>1. Len(job') = 1 /\ job'[1].from = Nowhere /\ Nowhere \notin Cards
    BY <1>8, ConfirmsCard, CardsAssumption
  <2>2. QED BY <2>1 DEF Covered
<1>9. CASE TakeFailure
  BY <1>9, <1>b DEF TakeFailure, Answered
<1>10. CASE AddCardExec
  BY <1>10, <1>b DEF AddCardExec, Accepted, Answered
<1>11. CASE AddFundsExec
  BY <1>11, <1>b DEF AddFundsExec, Accepted, Answered
<1>12. CASE RechargeCashExec
  BY <1>12, <1>b DEF RechargeCashExec, Accepted, Answered, ShowCash
<1>13. CASE AddFundsToSavingExec
  BY <1>13, <1>b DEF AddFundsToSavingExec, Accepted, Answered
<1>14. CASE AddSpendingExec
  BY <1>14, <1>b DEF AddSpendingExec, Accepted, Answered
<1>15. CASE RunStatement
  <2>1. CASE Len(job) = 1
    BY <1>15, <1>c, <2>1, Moves
  <2>2. CASE Len(job) = 2
    <3> SUFFICES ASSUME ~starting', ~inflated', NEW i \in 1..Len(job'), job'[i].from \in Cards
                 PROVE  job'[i].amount <= db'[job'[i].from]
      BY DEF Covered
    <3>1. PICK s, t : s = job[1] /\ t = job[2]
      OBVIOUS
    <3>2. i = 1 /\ job'[i] = t /\ s \in Step /\ t \in Step
      <4>1. Len(job') = 1 /\ job'[1] = t /\ s \in Step /\ t \in Step
        BY <1>15, <2>2, <3>1, Moves
      <4>2. QED BY <4>1
    <3>3. t.from \in Cards /\ t.amount <= db[t.from]
      BY <1>15, <1>a, <2>2, <3>1, <3>2, Runs DEF Covered
    <3>4. ~Touches(s, t.from)
      BY <1>15, <1>a, <2>2, <3>1, <3>3, Moves DEF Control, Touches
    <3>5. db'[t.from] = db[t.from]
      <4>1. db'[t.from] = db[t.from] + Effect(s, t.from) /\ db[t.from] \in Int
        BY <1>15, <3>1, <3>3, Moves, Balances
      <4>2. Effect(s, t.from) = 0
        BY <3>4 DEF Touches, Effect
      <4>3. QED BY <4>1, <4>2
    <3>6. QED BY <3>2, <3>3, <3>5
  <2>3. QED BY <1>15, <2>1, <2>2, Moves
<1>16. CASE FailStatement
  BY <1>16, <1>c, Fails
<1>17. CASE Stop
  BY <1>17, <1>c DEF Stop
<1>18. CASE Lose
  BY <1>18, <1>b DEF Lose
<1>19. CASE Restart
  BY <1>19, <1>c DEF Restart
<1>20. CASE UNCHANGED ledgerVars
  BY <1>20, <1>b DEF ledgerVars
<1>21. ASSUME NEW c \in owned, NEW amount \in Amounts, InitReccurentTransactions(c, amount)
       PROVE  Covered'
  <2>1. starting /\ starting' = starting
    BY <1>21, Recurs
  <2>2. QED BY <2>1 DEF Covered
<1>22. QED
  BY <1>1, <1>2, <1>3, <1>4, <1>5, <1>6, <1>7, <1>8, <1>9, <1>10,
     <1>11, <1>12, <1>13, <1>14, <1>15, <1>16, <1>17, <1>18, <1>19, <1>20, <1>21
  DEF Next, Navigate, Ask, Take

\* What the copies show and will show are integers.
LEMMA Sums ==
  ASSUME IInv
  PROVE  /\ pc = "waiting" => NewCash \in Int /\ \A c \in DOMAIN view.cards : NewSum(c) \in Int
         /\ \A c \in DOMAIN view.cards : c \in Cards /\ view.cards[c] \in Int
         /\ job = <<>> => \A a \in Accounts : Due(a) = 0
<1>s. Shape
  BY DEF IInv
<1> USE <1>s
<1>1. \A c \in DOMAIN view.cards : c \in Cards /\ view.cards[c] \in Int
  BY Balances
<1>2. job = <<>> => \A a \in Accounts : Due(a) = 0
  BY DEF Due
<1>3. ASSUME pc = "waiting" PROVE NewCash \in Int /\ \A c \in DOMAIN view.cards : NewSum(c) \in Int
  <2>1. dialog.amount \in Int
    BY <1>3 DEF Shape, Control
  <2>2. \A c \in DOMAIN view.cards : dialog.cards[c] \in Int
    BY <1>3, DialogCards
  <2>3. view.cash \in Int
    BY Balances
  <2>4. QED BY <1>1, <2>1, <2>2, <2>3 DEF NewCash, NewSum
<1>4. QED BY <1>1, <1>2, <1>3

\* When a request was done, what the dashboard will show is what there is.
LEMMA Done ==
  ASSUME IInv, pc = "waiting", answer = "success", job = <<>>
  PROVE  /\ ~failed => db["cash"] = NewCash
         /\ \A a \in DOMAIN view.cards : /\ ~failed => db[a] = NewSum(a)
                                         /\ ~inflated => NewSum(a) <= db[a]
<1>s. Shape
  BY DEF IInv
<1> USE <1>s
<1>1. /\ ~failed => db["cash"] + Due("cash") = NewCash
      /\ \A a \in DOMAIN view.cards : /\ ~failed => db[a] + Due(a) = NewSum(a)
                                      /\ ~inflated => NewSum(a) <= db[a] + Due(a)
  BY DEF IInv, Copies
<1>2. "cash" \in Accounts /\ \A a \in DOMAIN view.cards : a \in Accounts
  BY Balances DEF Accounts, Holdings
<1>3. \A a \in Accounts : Due(a) = 0 /\ db[a] + 0 = db[a]
  BY Sums, Balances
<1>4. QED BY <1>1, <1>2, <1>3

\* The copies follow the database.
LEMMA CopiesStep == Attentive /\ IInv /\ [Next]_ledgerVars => Copies'
<1> SUFFICES ASSUME Attentive, IInv, [Next]_ledgerVars PROVE Copies'
  OBVIOUS
<1>s. Shape
  BY DEF IInv
<1> USE <1>s
<1>a. Copies /\ Control
  BY DEF IInv, Shape
<1>b. ASSUME UNCHANGED <<db, owned, job, began, answer, view, dialog, pc, failed, inflated>>
      PROVE  Copies'
  BY <1>a, <1>b DEF Copies, Harmless, Due, Effect, NewSum, NewCash
<1> USE DEF dbVars, serverVars, wallVars, faultVars, clientVars
<1>1. CASE Leave
  BY <1>1, <1>b DEF Leave, StaysOnPage, Idle
<1>2. CASE OpenFinances
  BY <1>2, <1>b DEF OpenFinances, StaysOnPage, Idle, ShowCard
<1>3. CASE SwitchTab
  BY <1>3, <1>b DEF SwitchTab, StaysOnPage, Idle, ShowCard, ShowCash
<1>4. ASSUME NEW c \in owned, PickCard(c) PROVE Copies'
  BY <1>4, <1>b DEF PickCard, StaysOnPage, Idle, ShowCard
<1>5. ASSUME NEW kind \in Kinds, OpenDialog(kind) PROVE Copies'
  <2>1. /\ pc = "idle" /\ pc' = "dialog" /\ dialog'.cards = view.cards
        /\ UNCHANGED <<db, owned, view, failed, inflated>>
    BY <1>5 DEF OpenDialog, Idle
  <2>2. QED BY <1>a, <2>1 DEF Copies
<1>6. CASE Cancel
  <2>1. pc = "dialog" /\ pc' = "idle" /\ UNCHANGED <<db, owned, view, failed, inflated>>
    BY <1>6 DEF Cancel
  <2>2. QED BY <1>a, <2>1 DEF Copies
<1>7. ASSUME NEW c \in owned \cup {"cash"}, NEW amount \in Amounts, Confirm(c, amount) PROVE Copies'
  <2> DEFINE kind == dialog.kind
  <2>1. /\ pc = "dialog" /\ pc' = "waiting" /\ dialog'.kind = kind
        /\ dialog'.card = c /\ dialog'.amount = amount /\ amount \in Int
        /\ DOMAIN view.cards = owned /\ answer' = "none"
        /\ kind \in Kinds \ {"AddCard"}
        /\ UNCHANGED <<db, owned, view, failed, inflated>>
    BY <1>7, Confirms
  <2>2. kind \in {"AddFunds"} \cup DebitsFirst => c # "cash"
    BY <1>7, Confirms
  <2>3. c \in Cards \cup {"cash"} /\ job' = Statements(kind, c, amount)
    BY <1>7, Confirms, Balances
  <2>4. \A a \in Cards \cup {"cash"} : Due(a)' = Change(kind, c, amount, a)
    <3>1. kind \in Kinds \ {"AddCard"} /\ amount \in Int
      BY <2>1
    <3> HIDE DEF kind
    <3>2. QED BY <2>2, <2>3, <3>1, Demands
  <2>5. ~failed => db["cash"] + Due("cash")' = NewCash'
    <3>1. Due("cash")' = IF kind = "RechargeCash" THEN amount ELSE 0
      BY <2>2, <2>4 DEF Change, DebitsFirst
    <3>2. NewCash' = IF kind = "RechargeCash" THEN view.cash + amount ELSE view.cash
      BY <2>1 DEF NewCash
    <3>3. ~failed => view.cash = db["cash"]
      BY <1>a, <2>1 DEF Copies
    <3>4. QED BY <2>1, <3>1, <3>2, <3>3, Balances
  <2>6. ASSUME NEW a \in owned
        PROVE  /\ ~failed => db[a] + Due(a)' = NewSum(a)'
               /\ ~inflated => NewSum(a)' <= db[a] + Due(a)'
               /\ ~inflated => view.cards[a] <= db[a]
               /\ ~inflated /\ Harmless' => dialog'.cards[a] <= db[a]
    <3>1. a \in Cards /\ a # "cash" /\ db[a] \in Int /\ view.cards[a] \in Int
          /\ dialog.cards[a] \in Int
      BY <2>1, Balances, DialogCards
    <3>2. /\ ~failed => view.cards[a] = db[a] /\ dialog.cards[a] = view.cards[a]
          /\ ~inflated => view.cards[a] <= db[a] /\ dialog.cards[a] <= db[a]
      BY <1>a, <2>1 DEF Copies
    <3>3. dialog'.cards[a] =
            IF kind \in DebitsFirst /\ a = c THEN dialog.cards[a] - amount
                                             ELSE dialog.cards[a]
      <4>1. dialog'.cards = IF kind \in DebitsFirst
                              THEN [dialog.cards EXCEPT ![c] = @ - amount]
                              ELSE dialog.cards
        BY <1>7, Confirms
      <4>2. dialog.cards \in [owned -> Int]
        BY <2>1, DialogCards
      <4>3. QED BY <4>1, <4>2
    <3>4. Due(a)' = IF kind = "AddFunds" /\ a = c THEN amount
                    ELSE IF kind # "AddFunds" /\ a = c THEN -amount ELSE 0
      BY <2>1, <2>4, <3>1 DEF Change, DebitsFirst, Kinds
    <3>5. NewSum(a)' = IF kind = "AddFunds" /\ a = c THEN view.cards[a] + amount
                       ELSE IF kind \in DebitsFirst THEN dialog'.cards[a]
                       ELSE IF kind = "AddSpendings" /\ a = c THEN view.cards[a] - amount
                       ELSE view.cards[a]
      BY <2>1 DEF NewSum, DebitsFirst
    <3>h. Harmless' /\ kind \in DebitsFirst => amount >= 0
      BY <2>1 DEF Harmless
    <3>6. CASE a = c
      <4>1. kind = "AddFunds" \/ kind \in DebitsFirst \/ kind = "AddSpendings"
        BY <2>1 DEF Kinds, DebitsFirst
      <4>2. "AddFunds" \notin DebitsFirst /\ "AddSpendings" \notin DebitsFirst
        BY DEF DebitsFirst
      <4>3. QED BY <2>1, <3>1, <3>2, <3>3, <3>4, <3>5, <3>h, <3>6, <4>1, <4>2
    <3>7. CASE a # c
      BY <3>1, <3>2, <3>3, <3>4, <3>5, <3>7
    <3>8. QED BY <3>6, <3>7
  <2>7. QED BY <2>1, <2>5, <2>6 DEF Copies
<1>8. ASSUME NEW c \in Cards, ConfirmCard(c) PROVE Copies'
  <2>1. /\ pc = "dialog" /\ pc' = "waiting" /\ DOMAIN view.cards = owned
        /\ dialog'.kind = "AddCard" /\ dialog'.cards = dialog.cards
        /\ UNCHANGED <<db, owned, view, failed, inflated>>
    BY <1>8, ConfirmsCard
  <2>2. \A a \in Cards \cup {"cash"} : Due(a)' = 0
    BY <1>8, ConfirmsCard
  <2>3. NewCash' = view.cash /\ \A a : NewSum(a)' = view.cards[a]
    BY <2>1 DEF NewCash, NewSum, DebitsFirst
  <2>4. /\ ~failed => view.cash = db["cash"]
        /\ \A a \in owned : /\ ~failed => view.cards[a] = db[a]
                            /\ ~inflated => view.cards[a] <= db[a] /\ dialog.cards[a] <= db[a]
    BY <1>a, <2>1 DEF Copies
  <2>5. \A a \in owned : a \in Cards /\ db[a] + 0 = db[a]
    BY Balances
  <2>6. db["cash"] + 0 = db["cash"]
    BY Balances
  <2>7. QED BY <2>1, <2>2, <2>3, <2>4, <2>5, <2>6 DEF Copies
<1>9. CASE TakeFailure
  <2>1. /\ pc = "waiting" /\ answer = "failure" /\ pc' = "dialog"
        /\ UNCHANGED <<db, owned, view, dialog, failed, inflated>>
    BY <1>9 DEF TakeFailure, Answered
  <2>2. failed
    BY <1>a, <2>1 DEF Control
  <2>3. QED BY <1>a, <2>1, <2>2 DEF Copies
<1>10. CASE AddCardExec
  <2>1. /\ pc = "waiting" /\ answer = "success" /\ pc' = "idle" /\ job = <<>>
        /\ dialog.kind = "AddCard" /\ UNCHANGED <<db, owned, failed, inflated>>
    BY <1>10, Accepts DEF AddCardExec
  <2>2. /\ ~failed => db["cash"] = NewCash
        /\ \A a \in DOMAIN view.cards : /\ ~failed => db[a] = NewSum(a)
                                        /\ ~inflated => NewSum(a) <= db[a]
    BY <2>1, Done
  <2>3. view'.cards = [c \in owned |-> db[c]] /\ view'.cash = view.cash
    BY <1>10, TakesCard
  <2>4. NewCash = view.cash
    BY <2>1 DEF NewCash
  <2>5. \A c \in owned : view'.cards[c] = db[c] /\ db[c] \in Int
    BY <2>3, Balances
  <2>6. QED BY <2>1, <2>2, <2>3, <2>4, <2>5, Balances DEF Copies
<1>11. CASE AddFundsExec
  <2>1. /\ pc = "waiting" /\ answer = "success" /\ pc' = "idle" /\ job = <<>>
        /\ dialog.kind = "AddFunds" /\ UNCHANGED <<db, owned, failed, inflated>>
    BY <1>11, Accepts DEF AddFundsExec
  <2>2. /\ ~failed => db["cash"] = NewCash
        /\ \A a \in DOMAIN view.cards : /\ ~failed => db[a] = NewSum(a)
                                        /\ ~inflated => NewSum(a) <= db[a]
    BY <2>1, Done
  <2>3. /\ dialog.card = picked /\ shows = picked /\ page = "cards"
        /\ DOMAIN view.cards = owned /\ picked \in owned /\ dialog.amount \in Int
    BY <1>11, Accepts, Balances DEF AddFundsExec, OpenedFrom
  <2>4. (~failed => wall = view.cards[picked]) /\ (~inflated => wall <= view.cards[picked])
    BY <2>1, <2>3 DEF IInv, Wall
  <2>5. view'.cards = [view.cards EXCEPT ![picked] = wall + dialog.amount]
        /\ view'.cash = view.cash
    BY <1>11, <2>3, TakesFunds
  <2>6. NewCash = view.cash
    BY <2>1 DEF NewCash
  <2>7. ASSUME NEW a \in owned
        PROVE  /\ ~failed => view'.cards[a] = db[a]
               /\ ~inflated => view'.cards[a] <= db[a]
    <3>1. db[a] \in Int /\ view.cards[a] \in Int /\ wall \in Int
      BY <2>3, Balances
    <3>2. NewSum(a) = IF a = picked THEN view.cards[a] + dialog.amount ELSE view.cards[a]
      BY <2>1, <2>3 DEF NewSum, DebitsFirst
    <3>3. view'.cards[a] = IF a = picked THEN wall + dialog.amount ELSE view.cards[a]
      BY <2>3, <2>5, Balances
    <3>4. QED BY <2>2, <2>3, <2>4, <3>1, <3>2, <3>3
  <2>8. QED BY <2>1, <2>2, <2>5, <2>6, <2>7, Balances DEF Copies
<1>12. CASE RechargeCashExec
  <2>1. /\ pc = "waiting" /\ answer = "success" /\ pc' = "idle" /\ job = <<>>
        /\ dialog.kind = "RechargeCash" /\ UNCHANGED <<db, owned, failed, inflated>>
    BY <1>12, Accepts DEF RechargeCashExec
  <2>2. /\ ~failed => db["cash"] = NewCash
        /\ \A a \in DOMAIN view.cards : /\ ~failed => db[a] = NewSum(a)
                                        /\ ~inflated => NewSum(a) <= db[a]
    BY <2>1, Done
  <2>3. view'.cards = dialog.cards /\ view'.cash = NewCash
    BY <1>12, <2>1, TakesCash DEF NewCash
  <2>4. DOMAIN view.cards = owned
    BY <1>12, <2>1, Accepts DEF RechargeCashExec
  <2>5. \A a \in owned : NewSum(a) = dialog.cards[a] /\ db[a] \in Int
    BY <2>1, Balances DEF NewSum, DebitsFirst
  <2>6. QED BY <2>1, <2>2, <2>3, <2>4, <2>5, Balances DEF Copies
<1>13. CASE AddFundsToSavingExec
  <2>1. /\ pc = "waiting" /\ answer = "success" /\ pc' = "idle" /\ job = <<>>
        /\ dialog.kind = "AddFundsToSaving" /\ UNCHANGED <<db, owned, failed, inflated>>
    BY <1>13, Accepts DEF AddFundsToSavingExec
  <2>2. /\ ~failed => db["cash"] = NewCash
        /\ \A a \in DOMAIN view.cards : /\ ~failed => db[a] = NewSum(a)
                                        /\ ~inflated => NewSum(a) <= db[a]
    BY <2>1, Done
  <2>3. view'.cards = dialog.cards /\ view'.cash = NewCash
    BY <1>13, <2>1, TakesSaving DEF NewCash
  <2>4. DOMAIN view.cards = owned
    BY <1>13, <2>1, Accepts DEF AddFundsToSavingExec
  <2>5. \A a \in owned : NewSum(a) = dialog.cards[a] /\ db[a] \in Int
    BY <2>1, Balances DEF NewSum, DebitsFirst
  <2>6. QED BY <2>1, <2>2, <2>3, <2>4, <2>5, Balances DEF Copies
<1>14. CASE AddSpendingExec
  <2>1. /\ pc = "waiting" /\ answer = "success" /\ pc' = "idle" /\ job = <<>>
        /\ dialog.kind = "AddSpendings" /\ UNCHANGED <<db, owned, failed, inflated>>
    BY <1>14, Accepts DEF AddSpendingExec
  <2>2. /\ ~failed => db["cash"] = NewCash
        /\ \A a \in DOMAIN view.cards : /\ ~failed => db[a] = NewSum(a)
                                        /\ ~inflated => NewSum(a) <= db[a]
    BY <2>1, Done
  <2>3. DOMAIN view.cards = owned /\ view'.cash = NewCash /\ "cash" \notin owned
        /\ dialog.card \in owned \cup {"cash"}
    BY <1>14, <2>1, TakesSpending, Accepts, Balances DEF NewCash, AddSpendingExec
  <2>4. view'.cards = IF dialog.card = "cash" THEN view.cards
                      ELSE [view.cards EXCEPT ![dialog.card] = @ - dialog.amount]
    BY <1>14, TakesSpending
  <2>5. ASSUME NEW a \in owned PROVE view'.cards[a] = NewSum(a) /\ db[a] \in Int
    <3>1. NewSum(a) = IF a = dialog.card THEN view.cards[a] - dialog.amount
                                         ELSE view.cards[a]
      BY <2>1 DEF NewSum, DebitsFirst
    <3>2. view.cards \in [owned -> Int] /\ db[a] \in Int
      BY <2>3, Balances
    <3>3. QED BY <2>3, <2>4, <3>1, <3>2
  <2>6. QED BY <2>1, <2>2, <2>3, <2>5, Balances DEF Copies
<1>15. CASE RunStatement
  <2>1. /\ job # <<>> /\ Len(job) \in {1, 2} /\ (Len(job) = 1 => job' = <<>>)
        /\ began' = TRUE /\ answer' # "failure"
        /\ UNCHANGED <<view, dialog, pc, failed, inflated>>
    BY <1>15, Runs, Moves
  <2>2. ASSUME NEW a \in Accounts PROVE db'[a] + Due(a)' = db[a] + Due(a)
    <3> DEFINE now == Effect(job[1], a)
               due == Due(a)
               rest == Due(a)'
    <3>1. now \in Int /\ due \in Int /\ rest \in Int /\ due = now + rest
          /\ db'[a] = db[a] + now
      BY <1>15, Moves
    <3>2. db[a] \in Int
      BY Balances
    <3> HIDE DEF now, due, rest
    <3>3. db'[a] + rest = db[a] + due
      BY <3>1, <3>2
    <3>4. QED BY <3>3 DEF due, rest
  <2>3. NewCash' = NewCash /\ \A a : NewSum(a)' = NewSum(a)
    BY <2>1 DEF NewCash, NewSum
  <2>4. "cash" \in Accounts /\ \A a \in DOMAIN view.cards : a \in Accounts
    BY Balances DEF Accounts, Holdings
  <2>5. ASSUME pc = "waiting", job' # <<>>, Harmless'
        PROVE  Harmless /\ owned' = owned /\ \A a \in owned : db'[a] = db[a]
    <3>1. dialog.kind \notin DebitsFirst /\ Len(job) = 2
      BY <2>1, <2>5 DEF Harmless
    <3>2. ~starting /\ dialog.kind # "AddCard"
      BY <1>a, <2>1, <2>5, <3>1 DEF Control
    <3>3. \A a \in Cards : ~Touches(job[1], a)
      BY <1>a, <2>1, <3>1, <3>2 DEF Control
    <3>4. \A a \in Cards : Effect(job[1], a) = 0
      BY <3>3 DEF Touches, Effect
    <3>5. \A a \in owned : a \in Cards /\ a \in Accounts /\ db[a] \in Int
      BY Balances
    <3>6. \A a \in owned : db'[a] = db[a] + 0 /\ db[a] + 0 = db[a]
      BY <1>15, <3>4, <3>5, Moves
    <3>7. owned' = owned
      BY <1>15, <3>2, Runs
    <3>8. QED BY <3>1, <3>6, <3>7 DEF Harmless
  <2>6. pc = "waiting" \/ pc = "ended"
    BY <1>15, Runs
  <2>7. pc = "waiting" =>
          /\ ~failed => db["cash"] + Due("cash") = NewCash
          /\ \A a \in DOMAIN view.cards : /\ ~failed => db[a] + Due(a) = NewSum(a)
                                          /\ ~inflated => NewSum(a) <= db[a] + Due(a)
    BY <1>a, <2>1 DEF Copies
  <2>8. pc = "waiting" /\ Harmless /\ ~inflated =>
          \A a \in owned : view.cards[a] <= db[a] /\ dialog.cards[a] <= db[a]
    BY <1>a, <2>1 DEF Copies
  <2>9. QED BY <2>1, <2>2, <2>3, <2>4, <2>5, <2>6, <2>7, <2>8 DEF Copies
<1>16. CASE FailStatement
  <2>1. /\ job # <<>> /\ failed' /\ job' = <<>>
        /\ answer' \in {"none", "failure"} /\ pc \in {"waiting", "ended"}
        /\ UNCHANGED <<db, owned, view, dialog, pc>> /\ (~inflated' => ~inflated /\ Harmless)
    BY <1>16, Fails
  <2>2. QED BY <1>a, <2>1 DEF Copies
<1>17. CASE Stop
  <2>1. pc' = "ended"
    BY <1>17 DEF Stop
  <2>2. QED BY <2>1 DEF Copies
<1>18. CASE Lose
  <2>1. pc' = "ended"
    BY <1>18 DEF Lose
  <2>2. QED BY <2>1 DEF Copies
<1>19. CASE Restart
  <2>1. /\ pc' = "idle" /\ UNCHANGED <<db, owned>>
        /\ view'.cards = [c \in owned |-> db[c]] /\ view'.cash = db["cash"]
    BY <1>19 DEF Restart
  <2>2. \A c \in owned : view'.cards[c] = db[c] /\ db[c] \in Int
    BY <2>1, Balances
  <2>3. QED BY <2>1, <2>2 DEF Copies
<1>20. CASE UNCHANGED ledgerVars
  BY <1>20, <1>b DEF ledgerVars
<1>21. ASSUME NEW c \in owned, NEW amount \in Amounts, InitReccurentTransactions(c, amount)
       PROVE  Copies'
  <2>1. pc' = "ended"
    BY <1>21, Recurs
  <2>2. QED BY <2>1 DEF Copies
<1>22. QED
  BY <1>1, <1>2, <1>3, <1>4, <1>5, <1>6, <1>7, <1>8, <1>9, <1>10,
     <1>11, <1>12, <1>13, <1>14, <1>15, <1>16, <1>17, <1>18, <1>19, <1>20, <1>21
  DEF Next, Navigate, Ask, Take

\* The wall follows its card while the page of the cards is open.
LEMMA WallStep == Attentive /\ IInv /\ [Next]_ledgerVars => Wall'
<1> SUFFICES ASSUME Attentive, IInv, [Next]_ledgerVars PROVE Wall'
  OBVIOUS
<1>s. Shape
  BY DEF IInv
<1> USE <1>s
<1>a. Wall /\ Control
  BY DEF IInv, Shape
<1>b. ASSUME UNCHANGED <<view, page, wall, shows, failed, inflated>>,
             pc' = "ended" \/ pc # "ended"
      PROVE  Wall'
  BY <1>b, <1>a DEF ledgerVars, Wall
<1> USE DEF dbVars, serverVars, wallVars, faultVars, clientVars
<1>1. CASE Leave
  BY <1>1 DEF Leave, Wall
<1>2. CASE OpenFinances
  <2>1. \A c \in DOMAIN view.cards : view.cards[c] <= view.cards[c]
    BY Balances
  <2>2. picked \in DOMAIN view.cards
    BY Balances
  <2>3. wall' = view.cards[picked] /\ shows' = picked /\ UNCHANGED view
    BY <1>2 DEF OpenFinances, ShowCard, StaysOnPage
  <2>4. QED BY <2>1, <2>2, <2>3 DEF Wall
<1>3. CASE SwitchTab
  <2>1. \A c \in DOMAIN view.cards : view.cards[c] <= view.cards[c]
    BY Balances
  <2>2. picked \in DOMAIN view.cards
    BY Balances
  <2>3. page' = "cards" => wall' = view.cards[picked] /\ shows' = picked
    BY <1>3 DEF SwitchTab, ShowCard
  <2>4. UNCHANGED view
    BY <1>3 DEF SwitchTab, StaysOnPage
  <2>5. QED BY <2>1, <2>2, <2>3, <2>4 DEF Wall
<1>4. ASSUME NEW c \in owned, PickCard(c) PROVE Wall'
  <2>1. \A k \in DOMAIN view.cards : view.cards[k] <= view.cards[k]
    BY Balances
  <2>2. wall' = view.cards[c] /\ shows' = c /\ UNCHANGED view /\ pc = "idle"
    BY <1>4 DEF PickCard, ShowCard, StaysOnPage, Idle
  <2>3. c \in DOMAIN view.cards
    BY <1>a, <2>2 DEF Control
  <2>4. QED BY <2>1, <2>2, <2>3 DEF Wall
<1>5. ASSUME NEW kind \in Kinds, OpenDialog(kind) PROVE Wall'
  BY <1>5, <1>a DEF OpenDialog, Idle, Wall
<1>6. CASE Cancel
  BY <1>6, <1>a DEF Cancel, Wall
<1>7. ASSUME NEW c \in owned \cup {"cash"}, NEW amount \in Amounts, Confirm(c, amount) PROVE Wall'
  BY <1>7, <1>a, Confirms DEF Wall
<1>8. ASSUME NEW c \in Cards, ConfirmCard(c) PROVE Wall'
  BY <1>8, <1>a, ConfirmsCard DEF Wall
<1>9. CASE TakeFailure
  BY <1>9, <1>a DEF TakeFailure, Answered, Wall
<1>10. CASE AddCardExec
  <2>1. /\ pc = "waiting" /\ answer = "success" /\ job = <<>> /\ dialog.kind = "AddCard"
        /\ page = "cards" /\ UNCHANGED <<db, owned, failed, inflated>>
    BY <1>10, Accepts DEF AddCardExec, OpenedFrom
  <2>2. view'.cards = [c \in owned |-> db[c]] /\ DOMAIN view'.cards = owned
        /\ UNCHANGED <<page, wall, shows>>
    BY <1>10, TakesCard
  <2>3. /\ shows \in DOMAIN view.cards /\ shows \in owned
        /\ ~failed => wall = view.cards[shows]
        /\ ~inflated => wall <= view.cards[shows]
    BY <1>a, <2>1, Balances DEF Wall
  <2>4. NewSum(shows) = view.cards[shows]
    BY <2>1 DEF NewSum, DebitsFirst
  <2>5. /\ ~failed => db[shows] = NewSum(shows)
        /\ ~inflated => NewSum(shows) <= db[shows]
    BY <2>1, <2>3, Done
  <2>6. view'.cards[shows] = db[shows] /\ db[shows] \in Int /\ wall \in Int
        /\ view.cards[shows] \in Int
    BY <2>2, <2>3, Balances
  <2>7. QED BY <2>1, <2>2, <2>3, <2>4, <2>5, <2>6 DEF Wall
<1>11. CASE AddFundsExec
  <2>1. dialog.card = picked /\ shows = picked /\ DOMAIN view.cards = owned
        /\ picked \in owned
    BY <1>11, Accepts, Balances DEF AddFundsExec
  <2>2. /\ view'.cards = [view.cards EXCEPT ![picked] = wall']
        /\ DOMAIN view'.cards = owned /\ wall' \in Int /\ shows' = shows
    BY <1>11, <2>1, TakesFunds
  <2>3. view'.cards[picked] = wall' /\ wall' <= wall'
    BY <2>1, <2>2
  <2>4. QED BY <2>1, <2>2, <2>3 DEF Wall
<1>12. CASE RechargeCashExec
  <2>1. page = "cash" /\ page' = page
    BY <1>12, Accepts, TakesCash DEF RechargeCashExec, OpenedFrom
  <2>2. QED BY <2>1 DEF Wall
<1>13. CASE AddFundsToSavingExec
  <2>1. page = "other" /\ page' = page
    BY <1>13, Accepts, TakesSaving DEF AddFundsToSavingExec, OpenedFrom
  <2>2. QED BY <2>1 DEF Wall
<1>14. CASE AddSpendingExec
  <2>1. page = "other" /\ page' = page
    BY <1>14, Accepts, TakesSpending DEF AddSpendingExec, OpenedFrom
  <2>2. QED BY <2>1 DEF Wall
<1>15. CASE RunStatement
  BY <1>15, <1>a, Runs DEF Wall
<1>16. CASE FailStatement
  <2>1. failed' /\ (~inflated' => ~inflated) /\ UNCHANGED <<view, page, wall, shows, pc>>
    BY <1>16, Fails
  <2>2. QED BY <1>a, <2>1 DEF Wall
<1>17. CASE Stop
  BY <1>17 DEF Stop, Wall
<1>18. CASE Lose
  BY <1>18 DEF Lose, Wall
<1>19. CASE Restart
  BY <1>19 DEF Restart, Wall
<1>20. CASE UNCHANGED ledgerVars
  BY <1>20, <1>a DEF ledgerVars, Wall
<1>21. ASSUME NEW c \in owned, NEW amount \in Amounts, InitReccurentTransactions(c, amount)
       PROVE  Wall'
  BY <1>21, <1>a, Recurs DEF Wall
<1>22. QED
  BY <1>1, <1>2, <1>3, <1>4, <1>5, <1>6, <1>7, <1>8, <1>9, <1>10,
     <1>11, <1>12, <1>13, <1>14, <1>15, <1>16, <1>17, <1>18, <1>19, <1>20, <1>21
  DEF Next, Navigate, Ask, Take

\* The inductive invariant holds in all reachable states, of a user who adds
\* funds only to the card the wall shows.
LEMMA Invariance == Attentive => (Spec => []IInv)
<1> SUFFICES ASSUME Attentive PROVE Spec => []IInv
  OBVIOUS
<1>1. IInv /\ [Next]_ledgerVars => IInv'
  BY TypeStep, ControlStep, CoveredStep, CopiesStep, WallStep DEF IInv, Shape
<1>2. QED BY InitIInv, <1>1, PTL DEF Spec

\* Every reachable state is of the declared types.
THEOREM TypeCorrect == Spec => []TypeOK
<1>1. Init => Shape
  BY InitIInv DEF IInv
<1>2. Shape /\ [Next]_ledgerVars => Shape'
  BY TypeStep, ControlStep DEF Shape
<1>3. Shape => TypeOK
  BY DEF Shape
<1>4. QED BY <1>1, <1>2, <1>3, PTL DEF Spec

\* What a dialog lets the user take from a card is on the card when the server
\* debits it, though the server does not check and the dialogs check against a
\* copy, for amounts of any sign, whatever is recurring, lost or cut off, unless a
\* failure since the dashboard was loaded left a copy too high
\* (rechargecashdialog.cpp:58, clever_IServer.h:534-614, 788-1263).
THEOREM EveryWithdrawalIsCovered == Attentive => (Spec => []WithdrawalsAreCovered)
<1>1. IInv => WithdrawalsAreCovered
  <2> SUFFICES ASSUME IInv, job # <<>>, ~starting, ~inflated, Head(job).from \in Cards
               PROVE  Head(job).amount <= db[Head(job).from]
    BY DEF WithdrawalsAreCovered
  <2>1. job \in Seq(Step) /\ Len(job) \in {1, 2}
    BY DEF IInv, Shape, Control
  <2>2. Head(job) = job[1] /\ 1 \in 1..Len(job)
    BY <2>1
  <2>3. QED BY <2>2 DEF IInv, Covered
<1>2. QED BY <1>1, Invariance, PTL

\* Whenever the user may act and no request failed since the dashboard was
\* loaded, it shows what the database has (dashboard.cpp:324-444).
THEOREM DashboardIsCurrent == Attentive => (Spec => []CacheIsCurrent)
<1>1. IInv => CacheIsCurrent
  BY DEF IInv, Shape, Control, Copies, CacheIsCurrent
<1>2. QED BY <1>1, Invariance, PTL

-----------------------------------------------------------------------------
(***************************************************************************)
(* Sums over finite sets.  The fold that computes a sum is a recursive     *)
(* function over the subsets; each fact about it is proved by a smallest   *)
(* subset for which it fails.                                              *)
(***************************************************************************)
\* A set of subsets of a finite set has a smallest one.
LEMMA Smallest ==
  ASSUME NEW S, IsFiniteSet(S), NEW B \in SUBSET SUBSET S, B # {}
  PROVE  \E T \in B : \A U \in B : U \subseteq T => U = T
<1>1. IsWellFoundedOn(StrictSubsetOrdering(S), FiniteSubsetsOf(S))
  BY FS_StrictSubsetOrderingWellFounded
<1>2. FiniteSubsetsOf(S) = SUBSET S
  BY FS_FiniteSubsetsOfFinite
<1>3. PICK T \in B : \A U \in B : <<U, T>> \notin StrictSubsetOrdering(S)
  BY <1>1, <1>2, WFMin
<1>4. QED BY <1>3 DEF StrictSubsetOrdering

SumOf(f, S) == MapThenSumSet(LAMBDA a : f[a], S)

\* The table of the sums of all subsets, which the fold of the library computes.
Chosen(s) == CHOOSE x \in s : TRUE
Entry(g, f, s) == IF s = {} THEN 0 ELSE f[Chosen(s)] + g[s \ {Chosen(s)}]
Adds(g, f, S) == \A s \in SUBSET S : g[s] = Entry(g, f, s)

LEMMA Chooses ==
  ASSUME NEW S, IsFiniteSet(S), NEW s \in SUBSET S, s # {}
  PROVE  /\ Chosen(s) \in s /\ s \ {Chosen(s)} \in SUBSET S /\ s \ {Chosen(s)} # s
         /\ s \ {Chosen(s)} \subseteq s
         /\ Cardinality(s) \in Nat /\ Cardinality(s \ {Chosen(s)}) = Cardinality(s) - 1
<1>1. Chosen(s) \in s
  BY DEF Chosen
<1>2. IsFiniteSet(s)
  BY FS_Subset
<1>3. QED BY <1>1, <1>2, FS_RemoveElement, FS_CardinalityType

LEMMA TableExists ==
  ASSUME NEW S, IsFiniteSet(S), NEW f
  PROVE  \E g : g = [s \in SUBSET S |-> Entry(g, f, s)]
<1> DEFINE Small(T) == {s \in SUBSET S : Cardinality(s) <= Cardinality(T)}
           Filled(g, T) == \A s \in Small(T) : g[s] = Entry(g, f, s)
           B == {T \in SUBSET S : ~\E g : Filled(g, T)}
<1>1. ASSUME B # {} PROVE FALSE
  <2>0. B \in SUBSET SUBSET S
    OBVIOUS
  <2>1. PICK T \in B : \A U \in B : U \subseteq T => U = T
    <3> HIDE DEF B
    <3>1. QED BY <1>1, <2>0, Smallest
  <2>2. T \in SUBSET S /\ \A g : ~Filled(g, T)
    OBVIOUS
  <2> HIDE DEF B
  <2>3. CASE T = {}
    <3>1. ASSUME NEW s \in Small(T) PROVE s = {}
      <4>1. IsFiniteSet(s) /\ Cardinality(s) <= 0
        BY <2>3, FS_Subset, FS_EmptySet
      <4>2. QED BY <4>1, FS_EmptySet, FS_CardinalityType
    <3>2. Filled([s \in SUBSET S |-> 0], T)
      BY <3>1 DEF Entry
    <3>3. QED BY <2>2, <3>2
  <2>4. CASE T # {}
    <3>1. PICK U : U = T \ {Chosen(T)}
      OBVIOUS
    <3>2. U \in SUBSET S /\ Cardinality(T) \in Nat /\ Cardinality(U) = Cardinality(T) - 1
          /\ U # T /\ U \subseteq T
      BY <2>2, <2>4, <3>1, Chooses
    <3>3. PICK g : Filled(g, U)
      BY <2>1, <3>2 DEF B
    <3> DEFINE h == [s \in SUBSET S |-> IF s \in Small(U) THEN g[s] ELSE Entry(g, f, s)]
    <3>4. ASSUME NEW s \in Small(T) PROVE h[s] = Entry(h, f, s)
      <4>1. h[s] = Entry(g, f, s)
        BY <3>3
      <4>2. CASE s = {}
        BY <4>1, <4>2 DEF Entry
      <4>3. CASE s # {}
        <5>1. PICK t : t = s \ {Chosen(s)}
          OBVIOUS
        <5>2. t \in SUBSET S /\ Cardinality(s) \in Nat /\ Cardinality(t) = Cardinality(s) - 1
          BY <4>3, <5>1, Chooses
        <5>3. Cardinality(s) <= Cardinality(T)
          OBVIOUS
        <5>4. t \in Small(U)
          BY <3>2, <5>2, <5>3
        <5>5. h[t] = g[t]
          BY <5>4
        <5>6. QED BY <4>1, <4>3, <5>1, <5>5 DEF Entry
      <4>4. QED BY <4>2, <4>3
    <3>5. QED BY <2>2, <3>4
  <2>5. QED BY <2>3, <2>4
<1>2. PICK g : Filled(g, S)
  BY <1>1
<1> DEFINE h == [s \in SUBSET S |-> g[s]]
<1>3. ASSUME NEW s \in SUBSET S PROVE h[s] = Entry(h, f, s)
  <2>1. s \in Small(S)
    BY FS_Subset
  <2>2. g[s] = Entry(g, f, s)
    BY <1>2, <2>1
  <2>3. QED BY <2>2, Chooses DEF Entry
<1>4. h = [s \in SUBSET S |-> Entry(h, f, s)]
  BY <1>3
<1>5. QED BY <1>4

\* The sum is an entry of that table.
LEMMA SumFact ==
  ASSUME NEW S, IsFiniteSet(S), NEW f
  PROVE  \E g : Adds(g, f, S) /\ SumOf(f, S) = g[S]
<1> DEFINE g == CHOOSE g : g = [s \in SUBSET S |-> Entry(g, f, s)]
<1>1. g = [s \in SUBSET S |-> Entry(g, f, s)]
  BY TableExists
<1>2. SumOf(f, S) = g[S]
  BY DEF SumOf, MapThenSumSet, MapThenFoldSet, Entry, Chosen
<1>3. Adds(g, f, S)
  <2> HIDE DEF g
  <2>1. QED BY <1>1 DEF Adds
<1>4. QED BY <1>2, <1>3

\* Sums of integers are integers, and any element may be taken out first.
LEMMA TableFacts ==
  ASSUME NEW S, IsFiniteSet(S), NEW f, \A a \in S : f[a] \in Int,
         NEW g, Adds(g, f, S)
  PROVE  \A s \in SUBSET S : /\ g[s] \in Int
                             /\ \A a \in s : g[s] = f[a] + g[s \ {a}]
<1> DEFINE B == {s \in SUBSET S : g[s] \notin Int}
           C == {s \in SUBSET S : ~\A a \in s : g[s] = f[a] + g[s \ {a}]}
<1>1. ASSUME B # {} PROVE FALSE
  <2>1. B \in SUBSET SUBSET S
    OBVIOUS
  <2>2. PICK s \in B : \A u \in B : u \subseteq s => u = s
    <3> HIDE DEF B
    <3>1. QED BY <1>1, <2>1, Smallest
  <2>3. s \in SUBSET S /\ g[s] \notin Int /\ g[s] = Entry(g, f, s)
    BY DEF Adds
  <2>4. s # {}
    BY <2>3 DEF Entry
  <2>5. Chosen(s) \in s /\ s \ {Chosen(s)} \in SUBSET S /\ s \ {Chosen(s)} # s
        /\ s \ {Chosen(s)} \subseteq s
    BY <2>3, <2>4, Chooses
  <2>6. g[s \ {Chosen(s)}] \in Int /\ f[Chosen(s)] \in Int
    BY <2>2, <2>5
  <2>7. QED BY <2>3, <2>4, <2>6 DEF Entry
<1>2. ASSUME C # {} PROVE FALSE
  <2>1. C \in SUBSET SUBSET S
    OBVIOUS
  <2>2. PICK s \in C : \A u \in C : u \subseteq s => u = s
    <3> HIDE DEF C
    <3>1. QED BY <1>2, <2>1, Smallest
  <2>3. s \in SUBSET S /\ \A u \in SUBSET S : g[u] \in Int /\ g[u] = Entry(g, f, u)
    BY <1>1 DEF Adds
  <2>4. PICK a \in s : g[s] # f[a] + g[s \ {a}]
    OBVIOUS
  <2>5. PICK p : p = Chosen(s)
    OBVIOUS
  <2>6. p \in s /\ g[s] = f[p] + g[s \ {p}]
    BY <2>3, <2>4, <2>5, Chooses DEF Entry
  <2>7. a # p
    BY <2>4, <2>6
  <2>8. s \ {p} \in SUBSET S /\ s \ {p} # s /\ s \ {p} \subseteq s /\ a \in s \ {p}
        /\ s \ {a} \in SUBSET S /\ s \ {a} # s /\ s \ {a} \subseteq s /\ p \in s \ {a}
    BY <2>3, <2>6, <2>7
  <2>9. g[s \ {p}] = f[a] + g[(s \ {p}) \ {a}] /\ g[s \ {a}] = f[p] + g[(s \ {a}) \ {p}]
    BY <2>2, <2>8
  <2>10. (s \ {p}) \ {a} = (s \ {a}) \ {p} /\ (s \ {a}) \ {p} \in SUBSET S
    BY <2>3
  <2>11. PICK r : r = (s \ {a}) \ {p}
    OBVIOUS
  <2>12. g[r] \in Int
    BY <2>3, <2>10, <2>11
  <2>13. f[a] \in Int /\ f[p] \in Int
    BY <2>3, <2>6
  <2>14. g[s \ {p}] = f[a] + g[r] /\ g[s \ {a}] = f[p] + g[r]
    BY <2>9, <2>10, <2>11
  <2>15. g[s] = f[p] + (f[a] + g[r]) /\ g[s] # f[a] + (f[p] + g[r])
    BY <2>4, <2>6, <2>14
  <2>16. QED BY <2>12, <2>13, <2>15
<1>3. QED BY <1>1, <1>2

\* The values on S of h are those of f after the statement s.
Executed(s, f, h, S) == \A a \in S : h[a] = f[a] + (IF a = s.to THEN s.amount ELSE 0)
                                                - (IF a = s.from THEN s.amount ELSE 0)

\* A statement changes a sum by what it moves into the set or out of it.
LEMMA SumMoves ==
  ASSUME NEW S, IsFiniteSet(S), NEW f, \A a \in S : f[a] \in Int,
         NEW step, step.amount \in Int, NEW h, Executed(step, f, h, S)
  PROVE  /\ SumOf(f, S) \in Int
         /\ SumOf(h, S) = SumOf(f, S) + (IF step.to \in S THEN step.amount ELSE 0)
                                      - (IF step.from \in S THEN step.amount ELSE 0)
<1>m. PICK to, from, m : to = step.to /\ from = step.from /\ m = step.amount
  OBVIOUS
<1>h. /\ m \in Int
      /\ \A a \in S : h[a] = f[a] + (IF a = to THEN m ELSE 0) - (IF a = from THEN m ELSE 0)
  BY <1>m DEF Executed
<1>1. PICK g : Adds(g, f, S) /\ SumOf(f, S) = g[S]
  BY SumFact
<1>2. PICK k : Adds(k, h, S) /\ SumOf(h, S) = k[S]
  BY SumFact
<1>3. \A s \in SUBSET S : g[s] \in Int
  BY <1>1, TableFacts
<1> DEFINE D(s) == (IF to \in s THEN m ELSE 0) - (IF from \in s THEN m ELSE 0)
           B == {s \in SUBSET S : k[s] # g[s] + D(s)}
<1>4. ASSUME B # {} PROVE FALSE
  <2>1. B \in SUBSET SUBSET S
    OBVIOUS
  <2>2. PICK s \in B : \A u \in B : u \subseteq s => u = s
    <3> HIDE DEF B
    <3>1. QED BY <1>4, <2>1, Smallest
  <2>3. s \in SUBSET S /\ k[s] # g[s] + D(s) /\ k[s] = Entry(k, h, s) /\ g[s] = Entry(g, f, s)
    BY <1>1, <1>2 DEF Adds
  <2>4. CASE s = {}
    BY <2>3, <2>4 DEF Entry
  <2>5. CASE s # {}
    <3>1. PICK p : p = Chosen(s)
      OBVIOUS
    <3>2. PICK r : r = s \ {p}
      OBVIOUS
    <3>3. p \in s /\ r \in SUBSET S /\ r # s /\ r \subseteq s
      BY <2>3, <2>5, <3>1, <3>2, Chooses
    <3>4. k[r] = g[r] + D(r) /\ g[r] \in Int
      BY <1>3, <2>2, <3>3
    <3>5. k[s] = h[p] + k[r] /\ g[s] = f[p] + g[r]
      BY <2>3, <2>5, <3>1, <3>2 DEF Entry
    <3>6. h[p] = f[p] + (IF p = to THEN m ELSE 0) - (IF p = from THEN m ELSE 0)
          /\ f[p] \in Int
      BY <1>h, <3>3
    <3>7. \A x : x \in s <=> x = p \/ x \in r
      BY <3>2, <3>3
    <3>8. p \notin r
      BY <3>2
    <3>9. D(s) = (IF p = to THEN m ELSE 0) - (IF p = from THEN m ELSE 0) + D(r)
      BY <1>h, <3>7, <3>8
    <3>10. D(r) \in Int
      BY <1>h
    <3> HIDE DEF D
    <3>11. QED BY <1>h, <2>3, <3>4, <3>5, <3>6, <3>9, <3>10
  <2>6. QED BY <2>4, <2>5
<1>5. k[S] = g[S] + D(S) /\ g[S] \in Int
  BY <1>3, <1>4
<1>6. QED BY <1>1, <1>2, <1>m, <1>5

\* A sum of integers is one.
LEMMA SumIsInt ==
  ASSUME NEW S, IsFiniteSet(S), NEW f, \A a \in S : f[a] \in Int
  PROVE  SumOf(f, S) \in Int
BY SumFact, TableFacts

-----------------------------------------------------------------------------
\* What a statement, and all that are still to run, add to all the holdings.
Total(s) == (IF s.to \in Holdings THEN s.amount ELSE 0)
            - (IF s.from \in Holdings THEN s.amount ELSE 0)
Rest == IF job = <<>> THEN 0
        ELSE IF Len(job) = 1 THEN Total(job[1]) ELSE Total(job[1]) + Total(job[2])

\* What is there and what is still due add up to nothing, and so does what is
\* due before the first statement: a job that fails there loses nothing.
Money ==
  ~cut => /\ SumOf(db, Holdings) + Rest = 0
          /\ job # <<>> /\ ~began => Rest = 0

\* There are finitely many holdings, and the others are none of them.
LEMMA HoldingsFacts ==
  /\ IsFiniteSet(Holdings) /\ IsFiniteSet(InitialCards)
  /\ Holdings \subseteq Accounts /\ Cards \subseteq Holdings /\ InitialCards \subseteq Holdings
  /\ "cash" \in Holdings /\ "saving" \in Holdings /\ "spent" \in Holdings
  /\ "recurred" \in Holdings /\ "outside" \in Holdings
  /\ "spentInCash" \notin Holdings /\ Nowhere \notin Holdings
<1>1. IsFiniteSet(Cards) /\ InitialCards \subseteq Cards
      /\ "spentInCash" \notin Cards /\ Nowhere \notin Cards
  BY CardsAssumption
<1>2. IsFiniteSet({"cash", "saving", "spent", "recurred", "outside"})
  <2>1. /\ IsFiniteSet({"cash"}) /\ IsFiniteSet({"saving"}) /\ IsFiniteSet({"spent"})
        /\ IsFiniteSet({"recurred"}) /\ IsFiniteSet({"outside"})
    BY FS_Singleton
  <2>2. {"cash", "saving", "spent", "recurred", "outside"}
          = (({"cash"} \cup {"saving"}) \cup ({"spent"} \cup {"recurred"})) \cup {"outside"}
    OBVIOUS
  <2>3. IsFiniteSet({"cash"} \cup {"saving"}) /\ IsFiniteSet({"spent"} \cup {"recurred"})
    BY <2>1, FS_Union
  <2>4. IsFiniteSet(({"cash"} \cup {"saving"}) \cup ({"spent"} \cup {"recurred"}))
    BY <2>3, FS_Union
  <2>5. IsFiniteSet((({"cash"} \cup {"saving"}) \cup ({"spent"} \cup {"recurred"}))
                      \cup {"outside"})
    BY <2>1, <2>4, FS_Union
  <2>6. QED BY <2>2, <2>5
<1>3. IsFiniteSet(Holdings) /\ IsFiniteSet(InitialCards)
  BY <1>1, <1>2, FS_Union, FS_Subset DEF Holdings
<1>4. QED BY <1>1, <1>3 DEF Holdings, Accounts, Nowhere

\* At the start the cards have what came from outside.
LEMMA InitMoney == Init => Money
<1> SUFFICES ASSUME Init PROVE Money
  OBVIOUS
<1>1. PICK sold \in [InitialCards -> 0..MaxAmount],
           all \in 0..MaxAmount * Cardinality(InitialCards) :
        /\ all = MapThenSumSet(LAMBDA c : sold[c], InitialCards)
        /\ db = [a \in Accounts |-> CASE a \in InitialCards -> sold[a]
                                      [] a = "outside"      -> -all
                                      [] OTHER              -> 0]
  BY DEF Init
<1>2. all \in Int
  <2>1. Cardinality(InitialCards) \in Nat /\ MaxAmount \in Nat
    BY HoldingsFacts, FS_CardinalityType, LedgerBoundsAssumption
  <2>2. QED BY <1>1, <2>1
<1>3. all = SumOf(sold, InitialCards)
  BY <1>1 DEF SumOf
<1>4. /\ \A a \in InitialCards : db[a] = sold[a] /\ sold[a] \in Int
      /\ db["outside"] = -all
      /\ \A a \in Holdings \ InitialCards : a # "outside" => db[a] = 0
      /\ "outside" \notin InitialCards
  <2>1. MaxAmount \in Nat
    BY LedgerBoundsAssumption
  <2>2. \A a \in InitialCards : sold[a] \in Int
    BY <1>1, <2>1
  <2>3. "outside" \notin InitialCards
    BY CardsAssumption
  <2>4. QED BY <1>1, <2>2, <2>3, HoldingsFacts
<1>5. PICK g : Adds(g, db, Holdings) /\ SumOf(db, Holdings) = g[Holdings]
  BY HoldingsFacts, SumFact
<1>6. PICK k : Adds(k, sold, InitialCards) /\ SumOf(sold, InitialCards) = k[InitialCards]
  BY HoldingsFacts, SumFact
<1>7. \A s \in SUBSET InitialCards :
        k[s] \in Int /\ \A a \in s : k[s] = sold[a] + k[s \ {a}]
  <2>1. IsFiniteSet(InitialCards)
    BY HoldingsFacts
  <2>2. \A a \in InitialCards : sold[a] \in Int
    BY <1>4
  <2>3. PICK S, f : S = InitialCards /\ f = sold
    OBVIOUS
  <2>4. IsFiniteSet(S) /\ Adds(k, f, S) /\ \A a \in S : f[a] \in Int
    BY <1>6, <2>1, <2>2, <2>3
  <2>5. \A s \in SUBSET S : k[s] \in Int /\ \A a \in s : k[s] = f[a] + k[s \ {a}]
    BY <2>4, TableFacts
  <2>6. QED BY <2>3, <2>5
<1> DEFINE Drawn(s) == IF "outside" \in s THEN -all ELSE 0
           B == {s \in SUBSET Holdings : g[s] # k[s \cap InitialCards] + Drawn(s)}
<1>8. ASSUME B # {} PROVE FALSE
  <2>1. B \in SUBSET SUBSET Holdings
    OBVIOUS
  <2>2. PICK s \in B : \A u \in B : u \subseteq s => u = s
    <3> HIDE DEF B
    <3>1. QED BY <1>8, <2>1, HoldingsFacts, Smallest
  <2>3. s \in SUBSET Holdings /\ g[s] # k[s \cap InitialCards] + Drawn(s)
        /\ g[s] = Entry(g, db, s)
    BY <1>5 DEF Adds
  <2>4. CASE s = {}
    <3>1. g[s] = 0
      BY <2>3, <2>4 DEF Entry
    <3>2. k[{}] = Entry(k, sold, {})
      BY <1>6 DEF Adds
    <3>3. k[{}] = 0
      BY <3>2 DEF Entry
    <3>4. PICK x : x = s \cap InitialCards
      OBVIOUS
    <3>5. x = {} /\ Drawn(s) = 0
      BY <2>4, <3>4
    <3>6. k[x] + Drawn(s) = 0
      BY <3>3, <3>5
    <3>7. QED BY <2>3, <3>1, <3>4, <3>6
  <2>5. CASE s # {}
    <3>1. PICK p : p = Chosen(s)
      OBVIOUS
    <3>2. PICK r : r = s \ {p}
      OBVIOUS
    <3>3. p \in s /\ p \in Holdings /\ r \in SUBSET Holdings /\ r # s /\ r \subseteq s
      BY <2>3, <2>5, <3>1, <3>2, HoldingsFacts, Chooses
    <3>4. g[r] = k[r \cap InitialCards] + Drawn(r)
      BY <2>2, <3>3
    <3>5. g[s] = db[p] + g[r]
      BY <2>3, <2>5, <3>1, <3>2 DEF Entry
    <3>6. PICK x : x = r \cap InitialCards
      OBVIOUS
    <3>7. k[x] \in Int
      BY <1>7, <3>6
    <3>8. CASE p \in InitialCards
      <4>1. p \in s \cap InitialCards /\ (s \cap InitialCards) \ {p} = x
        BY <3>2, <3>3, <3>6, <3>8
      <4>2. k[s \cap InitialCards] = sold[p] + k[x]
        BY <1>7, <4>1
      <4>3. Drawn(s) = Drawn(r) /\ Drawn(r) \in Int
        BY <1>2, <1>4, <3>2, <3>8
      <4>4. db[p] = sold[p] /\ sold[p] \in Int
        BY <1>4, <3>8
      <4> HIDE DEF Drawn
      <4>5. QED BY <2>3, <3>4, <3>5, <3>6, <3>7, <4>2, <4>3, <4>4
    <3>9. CASE p \notin InitialCards
      <4>1. s \cap InitialCards = x
        BY <3>2, <3>6, <3>9
      <4>2. Drawn(s) = db[p] + Drawn(r) /\ Drawn(r) \in Int /\ db[p] \in Int
        BY <1>2, <1>4, <3>2, <3>3, <3>9
      <4> HIDE DEF Drawn
      <4>3. g[s] = db[p] + (k[x] + Drawn(r))
        BY <3>4, <3>5, <3>6
      <4>4. g[s] # k[x] + Drawn(s)
        BY <2>3, <4>1
      <4>5. QED BY <3>7, <4>2, <4>3, <4>4
    <3>10. QED BY <3>8, <3>9
  <2>6. QED BY <2>4, <2>5
<1>9. g[Holdings] = k[InitialCards] + -all
  <2>1. Holdings \cap InitialCards = InitialCards /\ Drawn(Holdings) = -all
    BY HoldingsFacts
  <2>2. QED BY <1>8, <2>1
<1>10. SumOf(db, Holdings) = 0
  BY <1>2, <1>3, <1>5, <1>6, <1>9
<1>11. job = <<>>
  BY DEF Init
<1>12. QED BY <1>10, <1>11 DEF Money, Rest

\* A request moves money between holdings: its statements add nothing to all of
\* them (clever_IServer.h:788-1263).
LEMMA Balanced ==
  ASSUME NEW kind \in Kinds \ {"AddCard"}, NEW c \in Cards \cup {"cash"},
         NEW amount \in Int, job' = Statements(kind, c, amount),
         kind \in {"AddFunds"} \cup DebitsFirst => c # "cash"
  PROVE  Rest' = 0
<1>1. c \in Holdings
  BY HoldingsFacts
<1>2. CASE kind = "AddFunds"
  <2>1. job' = <<Statement("outside", c, amount)>>
    BY <1>2 DEF Statements
  <2>2. Rest' = Total(job'[1])
    BY <2>1 DEF Rest, Total
  <2>3. Total(job'[1]) = 0
    BY <1>1, <2>1, HoldingsFacts DEF Total, Statement
  <2>4. QED BY <2>2, <2>3
<1>3. CASE kind = "RechargeCash"
  <2>1. job' = <<Statement(Nowhere, "cash", amount), Statement(c, Nowhere, amount)>>
    BY <1>3 DEF Statements
  <2>2. Rest' = Total(job'[1]) + Total(job'[2])
    BY <2>1 DEF Rest, Total
  <2>3. Total(job'[1]) = amount /\ Total(job'[2]) = -amount
    BY <1>1, <2>1, HoldingsFacts DEF Total, Statement
  <2>4. QED BY <2>2, <2>3
<1>4. CASE kind = "AddFundsToSaving"
  <2>1. job' = <<Statement(c, Nowhere, amount), Statement(Nowhere, "saving", amount)>>
    BY <1>4 DEF Statements
  <2>2. Rest' = Total(job'[1]) + Total(job'[2])
    BY <2>1 DEF Rest, Total
  <2>3. Total(job'[1]) = -amount /\ Total(job'[2]) = amount
    BY <1>1, <2>1, HoldingsFacts DEF Total, Statement
  <2>4. QED BY <2>2, <2>3
<1>5. CASE kind = "AddSpendings" /\ c = "cash"
  <2>1. job' = <<Statement(Nowhere, "spentInCash", amount), Statement(Nowhere, Nowhere, amount)>>
    BY <1>5 DEF Statements
  <2>2. Rest' = Total(job'[1]) + Total(job'[2])
    BY <2>1 DEF Rest, Total
  <2>3. Total(job'[1]) = 0 /\ Total(job'[2]) = 0
    BY <2>1, HoldingsFacts DEF Total, Statement
  <2>4. QED BY <2>2, <2>3
<1>6. CASE kind = "AddSpendings" /\ c # "cash"
  <2>1. job' = <<Statement(Nowhere, "spent", amount), Statement(c, Nowhere, amount)>>
    BY <1>6 DEF Statements
  <2>2. Rest' = Total(job'[1]) + Total(job'[2])
    BY <2>1 DEF Rest, Total
  <2>3. Total(job'[1]) = amount /\ Total(job'[2]) = -amount
    BY <1>1, <2>1, HoldingsFacts DEF Total, Statement
  <2>4. QED BY <2>2, <2>3
<1>7. QED BY <1>2, <1>3, <1>4, <1>5, <1>6 DEF Kinds

\* So do those of a recurring transaction (clever_IServer.h:534-614).
LEMMA RecursBalanced ==
  ASSUME Shape, NEW c \in owned, NEW amount \in Amounts,
         InitReccurentTransactions(c, amount)
  PROVE  Rest' = 0
<1>1. c \in Holdings /\ amount \in Int
  BY HoldingsFacts, Balances, LedgerBoundsAssumption DEF Amounts
<1>2. CASE job' = <<Statement(c, Nowhere, amount), Statement(Nowhere, "recurred", amount)>>
  <2>1. Rest' = Total(job'[1]) + Total(job'[2])
    BY <1>2 DEF Rest, Total
  <2>2. Total(job'[1]) = -amount /\ Total(job'[2]) = amount
    BY <1>1, <1>2, HoldingsFacts DEF Total, Statement
  <2>3. QED BY <1>1, <2>1, <2>2
<1>3. CASE job' = <<Statement("outside", c, amount), Statement(Nowhere, Nowhere, amount)>>
  <2>1. Rest' = Total(job'[1]) + Total(job'[2])
    BY <1>3 DEF Rest, Total
  <2>2. Total(job'[1]) = 0 /\ Total(job'[2]) = 0
    BY <1>1, <1>3, HoldingsFacts DEF Total, Statement
  <2>3. QED BY <2>1, <2>2
<1>4. QED BY <1>2, <1>3 DEF InitReccurentTransactions

\* Running a statement moves its total from what is due to what is there.
LEMMA MoneyMoves ==
  ASSUME Shape, RunStatement
  PROVE  /\ SumOf(db, Holdings) \in Int /\ Rest \in Int /\ Rest' \in Int
         /\ SumOf(db', Holdings) + Rest' = SumOf(db, Holdings) + Rest
<1>1. /\ job # <<>> /\ Len(job) \in {1, 2} /\ job \in Seq(Step) /\ job' = Tail(job)
      /\ Execute(Head(job))
  BY DEF RunStatement, Shape, Control
<1>2. job[1] = Head(job) /\ job[1] \in Step
  BY <1>1, ElementOfSeq
<1>3. \A a \in Holdings : a \in Accounts /\ db[a] \in Int
  BY HoldingsFacts DEF Shape, TypeOK
<1>4. \A a \in Holdings :
        db'[a] = db[a] + (IF a = job[1].to THEN job[1].amount ELSE 0)
                       - (IF a = job[1].from THEN job[1].amount ELSE 0)
  BY <1>1, <1>2, <1>3 DEF Execute
<1>5. job[1].amount \in Int
  BY <1>2 DEF Step
<1>6. /\ SumOf(db, Holdings) \in Int
      /\ SumOf(db', Holdings) = SumOf(db, Holdings)
           + (IF job[1].to \in Holdings THEN job[1].amount ELSE 0)
           - (IF job[1].from \in Holdings THEN job[1].amount ELSE 0)
  <2>1. Executed(job[1], db, db', Holdings)
    BY <1>4 DEF Executed
  <2>2. QED BY <1>3, <1>5, <2>1, HoldingsFacts, SumMoves
<1>7. Total(job[1]) \in Int /\ SumOf(db', Holdings) = SumOf(db, Holdings) + Total(job[1])
  BY <1>5, <1>6 DEF Total
<1>8. CASE Len(job) = 1
  <2>1. job' = <<>>
    BY <1>1, <1>8, HeadTailProperties
  <2>2. Rest = Total(job[1]) /\ Rest' = 0
    BY <1>1, <1>8, <2>1 DEF Rest
  <2>3. QED BY <1>6, <1>7, <2>2
<1>9. CASE Len(job) = 2
  <2>1. Len(job') = 1 /\ job' # <<>> /\ job'[1] = job[2] /\ job[2] \in Step
    <3>1. Len(job') = Len(job) - 1 /\ \A i \in 1..Len(job') : job'[i] = job[i + 1]
      BY <1>1, HeadTailProperties
    <3>2. Len(job') = 1 /\ job'[1] = job[2]
      BY <1>9, <3>1
    <3>3. Len(<<>>) = 0
      OBVIOUS
    <3>4. job[2] \in Step
      BY <1>1, <1>9, ElementOfSeq
    <3>5. QED BY <3>2, <3>3, <3>4
  <2>2. Rest = Total(job[1]) + Total(job[2]) /\ Rest' = Total(job[2])
    BY <1>1, <1>9, <2>1 DEF Rest, Total
  <2>3. Total(job[2]) \in Int
    BY <2>1 DEF Total, Step
  <2>4. QED BY <1>6, <1>7, <2>2, <2>3
<1>10. QED BY <1>1, <1>8, <1>9

\* Where no statement runs, what is there stays.
LEMMA MoneyStays ==
  ASSUME Money, UNCHANGED <<db, job, began, cut>>
  PROVE  Money'
<1>1. Rest' = Rest
  BY DEF Rest, Total
<1>2. QED BY <1>1 DEF Money

\* Every step keeps the money together.
LEMMA MoneyStep == Shape /\ Money /\ [Next]_ledgerVars => Money'
<1> SUFFICES ASSUME Shape, Money, [Next]_ledgerVars PROVE Money'
  OBVIOUS
<1> USE DEF dbVars, serverVars, wallVars, faultVars
<1>1. CASE Navigate \/ Cancel
  BY <1>1, MoneyStays
  DEF Navigate, Leave, OpenFinances, SwitchTab, PickCard, StaysOnPage, Cancel
<1>2. ASSUME NEW kind \in Kinds, OpenDialog(kind) PROVE Money'
  BY <1>2, MoneyStays DEF OpenDialog
<1>3. ASSUME NEW c \in owned \cup {"cash"}, NEW amount \in Amounts, Confirm(c, amount)
      PROVE  Money'
  <2>1. /\ job = <<>> /\ job' = Statements(dialog.kind, c, amount) /\ amount \in Int
        /\ dialog.kind \in Kinds \ {"AddCard"} /\ c \in Cards \cup {"cash"}
        /\ dialog.kind \in {"AddFunds"} \cup DebitsFirst => c # "cash"
        /\ UNCHANGED <<db, cut>>
    BY <1>3, Confirms, Balances
  <2>2. Rest' = 0
    BY <2>1, Balanced
  <2>3. Rest = 0
    BY <2>1 DEF Rest
  <2>4. QED BY <2>1, <2>2, <2>3 DEF Money
<1>4. ASSUME NEW c \in Cards, ConfirmCard(c) PROVE Money'
  <2>1. job = <<>> /\ job' = <<Statement(Nowhere, Nowhere, 0)>> /\ UNCHANGED <<db, cut>>
    BY <1>4, ConfirmsCard DEF ConfirmCard, Request
  <2>2. Rest = 0 /\ Rest' = 0
    BY <2>1, HoldingsFacts DEF Rest, Total, Statement
  <2>3. QED BY <2>1, <2>2 DEF Money
<1>5. CASE Take
  <2>1. UNCHANGED <<db, job, began, cut>>
    BY <1>5 DEF Take, TakeFailure, AddCardExec, AddFundsExec, RechargeCashExec,
                AddFundsToSavingExec, AddSpendingExec, Accepted, Answered
  <2>2. QED BY <2>1, MoneyStays
<1>6. CASE RunStatement
  <2>1. began' = TRUE /\ cut' = cut
    BY <1>6, Runs
  <2>2. SumOf(db', Holdings) + Rest' = SumOf(db, Holdings) + Rest
    BY <1>6, MoneyMoves
  <2>3. QED BY <2>1, <2>2 DEF Money
<1>7. CASE FailStatement \/ Stop
  <2>1. cut' = (cut \/ (job # <<>> /\ began)) /\ job' = <<>> /\ db' = db
    BY <1>7 DEF FailStatement, Stop, Fault
  <2>2. Rest' = 0 /\ (~cut' => Rest = 0)
    BY <2>1 DEF Rest, Money
  <2>3. QED BY <2>1, <2>2 DEF Money
<1>8. CASE Lose \/ Restart
  BY <1>8, MoneyStays DEF Lose, Restart
<1>9. CASE UNCHANGED ledgerVars
  BY <1>9, MoneyStays DEF ledgerVars
<1>10. ASSUME NEW c \in owned, NEW amount \in Amounts, InitReccurentTransactions(c, amount)
       PROVE  Money'
  <2>1. job = <<>> /\ UNCHANGED <<db, cut>> /\ Rest' = 0
    BY <1>10, Recurs, RecursBalanced
  <2>2. Rest = 0
    BY <2>1 DEF Rest
  <2>3. QED BY <2>1, <2>2 DEF Money
<1>11. QED
  BY <1>1, <1>2, <1>3, <1>4, <1>5, <1>6, <1>7, <1>8, <1>9, <1>10 DEF Next, Ask

\* Between two jobs of the server no money was made or lost, for any cards,
\* amounts of any sign, recurring transactions and faults, and whatever card the
\* user adds funds to, as long as no job was cut off between its statements
\* (clever_IServer.h:534-614, 788-1263).
THEOREM MoneyIsConserved == Spec => []MoneyConserved
<1>1. Init => Shape /\ Money
  BY InitIInv, InitMoney DEF IInv
<1>2. Shape /\ Money /\ [Next]_ledgerVars => (Shape /\ Money)'
  BY TypeStep, ControlStep, MoneyStep DEF Shape
<1>3. Shape /\ Money => MoneyConserved
  <2> SUFFICES ASSUME Shape, Money, job = <<>>, ~cut
               PROVE  MapThenSumSet(LAMBDA a : db[a], Holdings) = 0
    BY DEF MoneyConserved
  <2>1. SumOf(db, Holdings) + 0 = 0
    BY DEF Money, Rest
  <2>2. SumOf(db, Holdings) \in Int
    BY HoldingsFacts, SumIsInt DEF Shape, TypeOK
  <2>3. QED BY <2>1, <2>2 DEF SumOf
<1>4. QED BY <1>1, <1>2, <1>3, PTL DEF Spec

-----------------------------------------------------------------------------
(***************************************************************************)
(* Ledger implements Transfers: a request, or a recurring transaction, is  *)
(* one transfer, at its first statement.                                   *)
(***************************************************************************)
\* What the request will have changed on the holdings is one transfer, or none.
Moving(from, to, amount) ==
  \A a \in Holdings : Due(a) = (IF a = to THEN amount ELSE 0) - (IF a = from THEN amount ELSE 0)
Asked(from, amount) ==
  ~starting /\ \E i \in 1..Len(job) : job[i].from = from /\ job[i].amount = amount
OneTransfer ==
  \/ \A a \in Holdings : Due(a) = 0
  \/ \E from \in Cards, to \in Holdings \ Cards, amount \in Amounts :
       /\ Moving(from, to, amount)
       /\ to \in {"outside", "recurred"} \/ Asked(from, amount)
Pending == job # <<>> /\ ~began => OneTransfer

\* What a list of one or two statements has still to change.
LEMMA DueOf ==
  /\ \A s : job' = <<s>> => \A a : Due(a)' = Effect(s, a)
  /\ \A s, t : job' = <<s, t>> => \A a : Due(a)' = Effect(s, a) + Effect(t, a)
<1>1. ASSUME NEW s, job' = <<s>>, NEW a PROVE Due(a)' = Effect(s, a)
  BY <1>1 DEF Due, Effect
<1>2. ASSUME NEW s, NEW t, job' = <<s, t>>, NEW a PROVE Due(a)' = Effect(s, a) + Effect(t, a)
  BY <1>2 DEF Due, Effect
<1>3. QED BY <1>1, <1>2

\* Each dialog asks for one transfer (clever_IServer.h:788-1263).
LEMMA AsksForOne ==
  ASSUME NEW kind \in Kinds \ {"AddCard"}, NEW c \in Cards \cup {"cash"},
         NEW amount \in Amounts, job' = Statements(kind, c, amount), ~starting',
         kind \in {"AddFunds"} \cup DebitsFirst => c # "cash"
  PROVE  OneTransfer'
<1>1. /\ "cash" \in Holdings \ Cards /\ "saving" \in Holdings \ Cards
      /\ "spent" \in Holdings \ Cards /\ "outside" \in Holdings \ Cards
  BY HoldingsFacts, CardsAssumption
<1>2. /\ Nowhere \notin Holdings /\ "spentInCash" \notin Holdings
      /\ "saving" # c /\ "spent" # c /\ "outside" # c
  BY HoldingsFacts, CardsAssumption
<1>3. amount \in Int /\ -amount \in Amounts /\ -amount \in Int
  BY LedgerBoundsAssumption DEF Amounts
<1>4. ASSUME c \in Cards, NEW to \in Holdings \ Cards, Moving(c, to, amount)',
             Asked(c, amount)'
      PROVE  OneTransfer'
  BY <1>4 DEF OneTransfer
<1>5. CASE kind = "AddFunds"
  <2>1. job' = <<Statement("outside", c, amount)>>
    BY <1>5 DEF Statements
  <2>2. \A a : Due(a)' = Effect(Statement("outside", c, amount), a)
    BY <2>1, DueOf
  <2>3. Moving(c, "outside", -amount)'
    BY <1>2, <1>3, <2>2 DEF Moving, Effect, Statement
  <2>4. c \in Cards
    BY <1>5
  <2>5. QED BY <1>1, <1>3, <2>3, <2>4 DEF OneTransfer
<1>6. CASE kind = "RechargeCash"
  <2>1. job' = <<Statement(Nowhere, "cash", amount), Statement(c, Nowhere, amount)>>
    BY <1>6 DEF Statements
  <2>2. \A a : Due(a)' = Effect(Statement(Nowhere, "cash", amount), a)
                         + Effect(Statement(c, Nowhere, amount), a)
    BY <2>1, DueOf
  <2>3. Moving(c, "cash", amount)'
    BY <1>2, <1>3, <2>2 DEF Moving, Effect, Statement
  <2>4. c \in Cards
    BY <1>6 DEF DebitsFirst
  <2>5. Asked(c, amount)'
    BY <2>1 DEF Asked, Statement
  <2>6. QED BY <1>1, <1>4, <2>3, <2>4, <2>5
<1>7. CASE kind = "AddFundsToSaving"
  <2>1. job' = <<Statement(c, Nowhere, amount), Statement(Nowhere, "saving", amount)>>
    BY <1>7 DEF Statements
  <2>2. \A a : Due(a)' = Effect(Statement(c, Nowhere, amount), a)
                         + Effect(Statement(Nowhere, "saving", amount), a)
    BY <2>1, DueOf
  <2>3. Moving(c, "saving", amount)'
    BY <1>2, <1>3, <2>2 DEF Moving, Effect, Statement
  <2>4. c \in Cards
    BY <1>7 DEF DebitsFirst
  <2>5. Asked(c, amount)'
    BY <2>1 DEF Asked, Statement
  <2>6. QED BY <1>1, <1>4, <2>3, <2>4, <2>5
<1>8. CASE kind = "AddSpendings" /\ c = "cash"
  <2>1. job' = <<Statement(Nowhere, "spentInCash", amount), Statement(Nowhere, Nowhere, amount)>>
    BY <1>8 DEF Statements
  <2>2. \A a : Due(a)' = Effect(Statement(Nowhere, "spentInCash", amount), a)
                         + Effect(Statement(Nowhere, Nowhere, amount), a)
    BY <2>1, DueOf
  <2>3. \A a \in Holdings : Due(a)' = 0
    BY <1>2, <1>3, <2>2 DEF Effect, Statement
  <2>4. QED BY <2>3 DEF OneTransfer
<1>9. CASE kind = "AddSpendings" /\ c # "cash"
  <2>1. job' = <<Statement(Nowhere, "spent", amount), Statement(c, Nowhere, amount)>>
    BY <1>9 DEF Statements
  <2>2. \A a : Due(a)' = Effect(Statement(Nowhere, "spent", amount), a)
                         + Effect(Statement(c, Nowhere, amount), a)
    BY <2>1, DueOf
  <2>3. Moving(c, "spent", amount)'
    BY <1>2, <1>3, <2>2 DEF Moving, Effect, Statement
  <2>4. c \in Cards
    BY <1>9
  <2>5. Asked(c, amount)'
    BY <2>1 DEF Asked, Statement
  <2>6. QED BY <1>1, <1>4, <2>3, <2>4, <2>5
<1>10. QED BY <1>5, <1>6, <1>7, <1>8, <1>9 DEF Kinds

\* A recurring transaction is one transfer that nobody asks whether it is covered
\* (clever_IServer.h:570).
LEMMA RecursAsOne ==
  ASSUME Shape, NEW c \in owned, NEW amount \in Amounts,
         InitReccurentTransactions(c, amount)
  PROVE  OneTransfer'
<1>1. "recurred" \in Holdings \ Cards /\ "outside" \in Holdings \ Cards /\ c \in Cards
  BY HoldingsFacts, CardsAssumption, Balances
<1>2. Nowhere \notin Holdings /\ "recurred" # c /\ "outside" # c
  BY <1>1, HoldingsFacts
<1>3. amount \in Int /\ -amount \in Amounts /\ -amount \in Int
  BY LedgerBoundsAssumption DEF Amounts
<1>4. CASE job' = <<Statement(c, Nowhere, amount), Statement(Nowhere, "recurred", amount)>>
  <2>1. \A a : Due(a)' = Effect(Statement(c, Nowhere, amount), a)
                         + Effect(Statement(Nowhere, "recurred", amount), a)
    BY <1>4, DueOf
  <2>2. Moving(c, "recurred", amount)'
    BY <1>2, <1>3, <2>1 DEF Moving, Effect, Statement
  <2>3. QED BY <1>1, <2>2 DEF OneTransfer
<1>5. CASE job' = <<Statement("outside", c, amount), Statement(Nowhere, Nowhere, amount)>>
  <2>1. \A a : Due(a)' = Effect(Statement("outside", c, amount), a)
                         + Effect(Statement(Nowhere, Nowhere, amount), a)
    BY <1>5, DueOf
  <2>2. Moving(c, "outside", -amount)'
    BY <1>2, <1>3, <2>1 DEF Moving, Effect, Statement
  <2>3. QED BY <1>1, <1>3, <2>2 DEF OneTransfer
<1>6. QED BY <1>4, <1>5 DEF InitReccurentTransactions

\* What is pending stays one transfer until its first statement runs.
LEMMA PendingStep == Shape /\ Pending /\ [Next]_ledgerVars => Pending'
<1> SUFFICES ASSUME Shape, Pending, [Next]_ledgerVars PROVE Pending'
  OBVIOUS
<1> USE DEF dbVars, serverVars, wallVars, faultVars
<1>0. ASSUME UNCHANGED <<job, began, starting>> PROVE Pending'
  BY <1>0 DEF Pending, OneTransfer, Moving, Asked, Due, Effect
<1>1. CASE Navigate \/ Cancel
  BY <1>0, <1>1
  DEF Navigate, Leave, OpenFinances, SwitchTab, PickCard, StaysOnPage, Cancel
<1>2. ASSUME NEW kind \in Kinds, OpenDialog(kind) PROVE Pending'
  BY <1>0, <1>2 DEF OpenDialog
<1>3. ASSUME NEW c \in owned \cup {"cash"}, NEW amount \in Amounts, Confirm(c, amount)
      PROVE  Pending'
  <2>1. /\ job' = Statements(dialog.kind, c, amount)
        /\ dialog.kind \in Kinds \ {"AddCard"} /\ c \in Cards \cup {"cash"}
        /\ dialog.kind \in {"AddFunds"} \cup DebitsFirst => c # "cash"
        /\ ~starting'
    BY <1>3, Confirms, Balances
  <2>2. OneTransfer'
    BY <2>1, AsksForOne
  <2>3. QED BY <2>2 DEF Pending
<1>4. ASSUME NEW c \in Cards, ConfirmCard(c) PROVE Pending'
  <2>1. job' = <<Statement(Nowhere, Nowhere, 0)>>
    BY <1>4 DEF ConfirmCard, Request
  <2>2. \A a : Due(a)' = Effect(Statement(Nowhere, Nowhere, 0), a)
    BY <2>1, DueOf
  <2>3. \A a \in Holdings : Due(a)' = 0
    BY <2>2 DEF Effect, Statement
  <2>4. QED BY <2>3 DEF Pending, OneTransfer
<1>5. CASE Take
  BY <1>0, <1>5 DEF Take, TakeFailure, AddCardExec, AddFundsExec, RechargeCashExec,
                    AddFundsToSavingExec, AddSpendingExec, Accepted, Answered
<1>6. CASE RunStatement
  BY <1>6 DEF RunStatement, Pending
<1>7. CASE FailStatement \/ Stop
  BY <1>7 DEF FailStatement, Stop, Pending
<1>8. CASE Lose
  BY <1>0, <1>8 DEF Lose
<1>9. CASE Restart
  BY <1>9 DEF Restart, Pending
<1>10. CASE UNCHANGED ledgerVars
  BY <1>0, <1>10 DEF ledgerVars
<1>11. ASSUME NEW c \in owned, NEW amount \in Amounts, InitReccurentTransactions(c, amount)
       PROVE  Pending'
  BY <1>11, RecursAsOne DEF Pending
<1>12. QED
  BY <1>1, <1>2, <1>3, <1>4, <1>5, <1>6, <1>7, <1>8, <1>9, <1>10, <1>11 DEF Next, Ask

\* What is booked, in the terms of the invariant.
Bookings ==
  /\ Booked \in [Holdings -> Int]
  /\ \A a \in Holdings : /\ db[a] \in Int
                         /\ job = <<>> \/ ~began => Booked[a] = db[a]
                         /\ job # <<>> /\ began => Booked[a] = db[a] + Due(a)

LEMMA BookedType == Shape => Bookings
<1> SUFFICES ASSUME Shape PROVE Bookings
  OBVIOUS
<1>1. \A a \in Holdings : db[a] \in Int
  BY HoldingsFacts DEF Shape, TypeOK
<1>2. ASSUME job # <<>>, began
      PROVE  Len(job) = 1 /\ \A a : Due(a) = Effect(job[1], a) /\ Effect(job[1], a) \in Int
  <2>1. Len(job) = 1 /\ job \in Seq(Step)
    BY <1>2 DEF Shape, Control
  <2>2. job[1] \in Step
    BY <2>1, ElementOfSeq
  <2>3. QED BY <1>2, <2>1, <2>2 DEF Due, Effect, Step
<1>3. \A a \in Holdings :
        Booked[a] = IF job # <<>> /\ began THEN db[a] + Effect(job[1], a) ELSE db[a]
  BY DEF Booked
<1>4. \A a \in Holdings : Booked[a] \in Int
  BY <1>1, <1>2, <1>3
<1>5. Booked = [a \in Holdings |-> Booked[a]]
  BY DEF Booked
<1>6. Booked \in [Holdings -> Int]
  BY <1>4, <1>5
<1>7. QED BY <1>1, <1>2, <1>3, <1>6 DEF Bookings

\* Also after a step.
LEMMA BookedNext == Shape' => Bookings'
BY BookedType, PTL

\* A first statement books the transfer of its request, the second nothing.
LEMMA RunTransfers ==
  ASSUME IInv, Pending, ~cut, ~inflated, RunStatement, Shape'
  PROVE  Promise!Next \/ UNCHANGED Promise!vars
<1>1. Shape /\ Covered
  BY DEF IInv
<1>2. /\ job # <<>> /\ began' = TRUE /\ UNCHANGED <<cut, inflated>>
      /\ \A a \in Holdings : /\ db'[a] = db[a] + Effect(job[1], a)
                             /\ Due(a) = Effect(job[1], a) + Due(a)'
                             /\ Effect(job[1], a) \in Int /\ Due(a) \in Int /\ Due(a)' \in Int
  BY <1>1, Moves, Runs, HoldingsFacts
<1>3. \A a \in Holdings : /\ db[a] \in Int
                          /\ ~began => Booked[a] = db[a]
                          /\ began => Booked[a] = db[a] + Due(a)
  BY <1>1, <1>2, BookedType DEF Bookings
<1>4. \A a \in Holdings : Booked'[a] = db'[a] + Due(a)'
  <2>1. \A a \in Holdings : /\ db'[a] \in Int
                            /\ job' = <<>> => Booked'[a] = db'[a]
                            /\ job' # <<>> => Booked'[a] = db'[a] + Due(a)'
    BY <1>2, BookedNext DEF Bookings
  <2>2. job' = <<>> => \A a \in Holdings : Due(a)' = 0
    BY DEF Due
  <2>3. QED BY <2>1, <2>2
<1>5. \A a \in Holdings : Booked'[a] = db[a] + Due(a)
  <2>1. ASSUME NEW a \in Holdings PROVE Booked'[a] = db[a] + Due(a)
    <3>1. PICK now, due, rest : now = Effect(job[1], a) /\ due = Due(a) /\ rest = Due(a)'
      OBVIOUS
    <3>2. /\ now \in Int /\ due \in Int /\ rest \in Int /\ due = now + rest
          /\ db'[a] = db[a] + now /\ db[a] \in Int /\ Booked'[a] = db'[a] + rest
      BY <1>2, <1>3, <1>4, <3>1
    <3>3. Booked'[a] = db[a] + due
      BY <3>2
    <3>4. QED BY <3>1, <3>3
  <2>2. QED BY <2>1
<1>6. Booked = [a \in Holdings |-> Booked[a]] /\ Booked' = [a \in Holdings |-> Booked'[a]]
  BY DEF Booked
<1>7. ASSUME \A a \in Holdings : Booked'[a] = Booked[a]
      PROVE  UNCHANGED Promise!vars
  BY <1>2, <1>6, <1>7 DEF Promise!vars
<1>8. CASE began
  BY <1>3, <1>5, <1>7, <1>8
<1>9. CASE ~began /\ \A a \in Holdings : Due(a) = 0
  BY <1>3, <1>5, <1>7, <1>9
<1>10. ASSUME ~began, NEW from \in Cards, NEW to \in Holdings \ Cards,
              NEW amount \in Amounts, Moving(from, to, amount),
              to \in {"outside", "recurred"} \/ Asked(from, amount)
       PROVE  Promise!Next
  <2>1. amount \in Int
    BY LedgerBoundsAssumption DEF Amounts
  <2>2. \A a \in Holdings :
          Booked'[a] = Booked[a] + (IF a = to THEN amount ELSE 0)
                                 - (IF a = from THEN amount ELSE 0)
    <3>1. \A a \in Holdings :
            Due(a) = (IF a = to THEN amount ELSE 0) - (IF a = from THEN amount ELSE 0)
      BY <1>10 DEF Moving
    <3>2. QED BY <1>3, <1>5, <1>10, <2>1, <3>1
  <2>3. to \in {"outside", "recurred"} \/ amount <= Booked[from]
    <3>1. Asked(from, amount) => amount <= db[from]
      BY <1>1 DEF Asked, Covered
    <3>2. from \in Holdings
      BY HoldingsFacts
    <3>3. QED BY <1>3, <1>10, <3>1, <3>2
  <2>4. Promise!Transfer(from, to, amount)
    BY <1>2, <1>6, <2>2, <2>3 DEF Promise!Transfer
  <2>5. QED BY <2>4 DEF Promise!Next
<1>11. OneTransfer \/ began
  BY <1>2 DEF Pending
<1>12. QED BY <1>8, <1>9, <1>10, <1>11 DEF OneTransfer

\* Every step of the ledger is one of Transfers, or changes nothing there.
LEMMA TransferStep ==
  IInv /\ Pending /\ [Next]_ledgerVars /\ Shape' => [Promise!Next]_Promise!vars
<1> SUFFICES ASSUME IInv, Pending, [Next]_ledgerVars, Shape'
             PROVE  Promise!Next \/ UNCHANGED Promise!vars
  BY DEF Promise!vars
<1> USE DEF dbVars, serverVars, wallVars, faultVars
<1>s. Shape /\ cut \in BOOLEAN /\ cut' \in BOOLEAN
      /\ inflated \in BOOLEAN /\ inflated' \in BOOLEAN
  BY DEF IInv, Shape, TypeOK
<1>0. ASSUME cut' \/ inflated' PROVE Promise!Next
  <2>1. Booked' \in [Holdings -> Int]
    BY BookedNext DEF Bookings
  <2>2. QED BY <1>s, <1>0, <2>1 DEF Promise!Next, Promise!Break
<1>u. ASSUME UNCHANGED <<db, cut, inflated>>, job = <<>> \/ ~began, job' = <<>> \/ ~began'
      PROVE  UNCHANGED Promise!vars
  BY <1>u DEF Booked, Promise!vars
<1>v. ASSUME UNCHANGED <<db, job, began, cut, inflated>>
      PROVE  UNCHANGED Promise!vars
  BY <1>v DEF Booked, Effect, Promise!vars
<1>1. CASE Navigate \/ Cancel
  BY <1>v, <1>1
  DEF Navigate, Leave, OpenFinances, SwitchTab, PickCard, StaysOnPage, Cancel
<1>2. ASSUME NEW kind \in Kinds, OpenDialog(kind) PROVE UNCHANGED Promise!vars
  BY <1>v, <1>2 DEF OpenDialog
<1>3. ASSUME NEW c \in owned \cup {"cash"}, NEW amount \in Amounts, Confirm(c, amount)
      PROVE  UNCHANGED Promise!vars
  BY <1>s, <1>u, <1>3, Confirms
<1>4. ASSUME NEW c \in Cards, ConfirmCard(c) PROVE UNCHANGED Promise!vars
  BY <1>s, <1>u, <1>4, ConfirmsCard
<1>5. CASE Take
  BY <1>v, <1>5 DEF Take, TakeFailure, AddCardExec, AddFundsExec, RechargeCashExec,
                    AddFundsToSavingExec, AddSpendingExec, Accepted, Answered
<1>6. CASE RunStatement
  <2>1. cut' = cut /\ inflated' = inflated
    BY <1>s, <1>6, Runs
  <2>2. QED BY <1>s, <1>0, <1>6, <2>1, RunTransfers
<1>7. CASE FailStatement \/ Stop
  <2>1. cut' = (cut \/ (job # <<>> /\ began)) /\ job' = <<>> /\ db' = db
    BY <1>7 DEF FailStatement, Stop, Fault
  <2>2. ~inflated' => ~inflated
    BY <1>s, <1>7, Fails DEF Stop
  <2>3. QED BY <1>s, <1>0, <1>u, <2>1, <2>2
<1>8. CASE Lose
  BY <1>v, <1>8 DEF Lose
<1>9. CASE Restart
  <2>1. job = <<>> /\ inflated' = FALSE /\ UNCHANGED <<db, job, began, cut>>
    BY <1>9 DEF Restart
  <2>2. UNCHANGED Booked
    BY <2>1 DEF Booked
  <2>3. CASE cut
    BY <1>s, <1>0, <2>1, <2>3
  <2>4. CASE ~cut
    BY <1>s, <2>1, <2>2, <2>4 DEF Promise!Next, Promise!Mend
  <2>5. QED BY <2>3, <2>4
<1>10. CASE UNCHANGED ledgerVars
  BY <1>v, <1>10 DEF ledgerVars
<1>11. ASSUME NEW c \in owned, NEW amount \in Amounts, InitReccurentTransactions(c, amount)
       PROVE  UNCHANGED Promise!vars
  BY <1>s, <1>u, <1>11, Recurs
<1>12. QED
  BY <1>1, <1>2, <1>3, <1>4, <1>5, <1>6, <1>7, <1>8, <1>9, <1>10, <1>11 DEF Next, Ask

\* The ledger implements Transfers, of a user who adds funds only to the card
\* the wall shows: until a job is cut off, and except while a failure leaves the
\* copies too high, requests and recurring transactions move money as if their
\* statements ran at one instant, and what is taken from a card by a dialog that
\* compares it is never more than the card has.
THEOREM ImplementsTransfers == Attentive => (Spec => TransfersSpec)
<1> SUFFICES ASSUME Attentive PROVE Spec => TransfersSpec
  OBVIOUS
<1>1. Init => IInv /\ Pending
  BY InitIInv DEF Init, Pending
<1>2. IInv /\ Pending /\ [Next]_ledgerVars => (IInv /\ Pending)'
  BY TypeStep, ControlStep, CoveredStep, CopiesStep, WallStep, PendingStep DEF IInv, Shape
<1>3. Init => Promise!Init
  <2> SUFFICES ASSUME Init PROVE Promise!Init
    OBVIOUS
  <2>1. IInv /\ job = <<>> /\ cut = FALSE /\ inflated = FALSE
    BY InitIInv DEF Init
  <2>2. /\ Booked \in [Holdings -> Int]
        /\ \A a \in Holdings : Booked[a] = db[a]
    BY <2>1, BookedType DEF IInv, Bookings
  <2>3. \A c \in Cards : c \in Holdings /\ db[c] >= 0
    BY HoldingsFacts, InitIInv
  <2>4. QED BY <2>1, <2>2, <2>3 DEF Promise!Init
<1>4. IInv /\ Pending /\ [Next]_ledgerVars => [Promise!Next]_Promise!vars
  BY <1>2, TransferStep DEF IInv
<1>5. QED BY <1>1, <1>2, <1>3, <1>4, PTL DEF Spec, TransfersSpec, Promise!Spec
=============================================================================
