---------------------------- MODULE SessionProofs ----------------------------
(***************************************************************************)
(* Theorems about Session for any machines, users, codes and bounds.       *)
(*                                                                         *)
(* Between a request and its answer a token is in three places: PAT.txt,   *)
(* the table, and what is under way.  The inductive invariant says who may *)
(* have it in each, and what a client that waits has sent.                 *)
(***************************************************************************)
EXTENDS Session, SequenceTheorems, TLAPS

Under(m) == 1..Len(up[m])
Asks(m, op) == wait[m] # None /\ wait[m].op = op
Registering(m) == job # None /\ job[1] = m

\* What a client shows while its handlers wait.
PageFits(m) ==
  /\ page[m] = "off" => wait[m] = None /\ ~connected[m]
  /\ wait[m] = None => answer[m] = None
  /\ \A op \in {"Register", "Login", "Forgot", "Validate"} :
       Asks(m, op) => page[m] = "login"
  /\ Asks(m, "UpdatePassword") => page[m] = "newPassword"
  /\ Asks(m, "LoginRemembered") => page[m] = "start"
  /\ \A op \in {"Load", "Logout"} : Asks(m, op) => page[m] = "dashboard"
  /\ ~Asks(m, "RememberMe")
  /\ Asks(m, "Validate") \/ page[m] \in {"newPassword", "dashboard"} => who[m] # None
  /\ Asks(m, "Logout") => wait[m].pat = patFile[m]
  /\ kept[m] => page[m] = "dashboard" /\ patFile[m] # None

\* A client that waits has sent one request since it connected, or RememberMe
\* and Load, and nobody else's are answered to it.
Awaits(m) == connected[m] /\ wait[m] # None /\ answer[m] = None /\ ~Registering(m)
QueueFits(m) ==
  /\ Awaits(m) =>
       /\ up[m][Len(up[m])] = wait[m]
       /\ \/ Len(up[m]) = late[m] + 1
          \/ /\ Len(up[m]) = late[m] + 2 /\ wait[m].op = "Load"
             /\ up[m][late[m] + 1].op = "RememberMe"
  /\ ~Awaits(m) => Len(up[m]) = late[m]
JobFits ==
  job # None =>
    /\ job[2] \in users
    /\ job[1] # None => /\ wait[job[1]] = [op |-> "Register", of |-> job[2]]
                        /\ answer[job[1]] = None /\ connected[job[1]]

\* What an answer says is so.
AnswerHolds(m) ==
  /\ Asks(m, "Login") /\ answer[m] = "success" => wait[m].of \in users
  /\ Asks(m, "Register") /\ answer[m] = "success" => wait[m].of \in numerar
  /\ Asks(m, "Validate") /\ answer[m] \notin {None, "success"} => wait[m].code \in shared

\* Who asks for a token's row, or for its removal, has the file or is cut off.
TokenFits(m) ==
  /\ patFile[m] # None => patFile[m] <= pats
  /\ kept[m] => patFile[m] \notin cutOff
  /\ \A k \in Under(m) :
       /\ up[m][k].op = "RememberMe" =>
            /\ up[m][k].of \in users
            /\ up[m][k].pat \in cutOff \/ up[m][k].pat = patFile[m]
       /\ up[m][k].op = "Logout" =>
            \/ up[m][k].pat \in cutOff
            \/ wait[m] = up[m][k] /\ answer[m] = None /\ k = Len(up[m])

\* The row of a kept login is there or on its way; after a logout neither is.
RowThere(m) ==
  kept[m] /\ connected[m] =>
    \/ <<who[m], patFile[m]>> \in sessions
    \/ /\ Asks(m, "Load") /\ Len(up[m]) = late[m] + 2
       /\ up[m][late[m] + 1] = [op |-> "RememberMe", of |-> who[m], pat |-> patFile[m]]
    \/ Asks(m, "Logout") /\ answer[m] # None
RowGone(m) ==
  Asks(m, "Logout") /\ answer[m] # None =>
    \/ patFile[m] \in cutOff
    \/ /\ \A s \in sessions : s[2] # patFile[m]
       /\ \A k \in Under(m) : up[m][k].op = "RememberMe" => up[m][k].pat # patFile[m]

Fits(m) ==
  /\ PageFits(m) /\ QueueFits(m) /\ AnswerHolds(m) /\ TokenFits(m)
  /\ RowThere(m) /\ RowGone(m)

\* A token is made once, and is in one file at most.
Tokens ==
  /\ cutOff \subseteq 1..pats
  /\ \A m, n \in Machines : patFile[m] = patFile[n] /\ patFile[m] # None => m = n

\* A code whose file is one request's has one owner: a client that may type it,
\* or a request to validate it.
MayType(m, c) ==
  /\ mailed[m] = c
  /\ connected[m] \/ page[m] = "off"
  /\ ~(Asks(m, "Validate") /\ wait[m].code = c)
Validates(m, k, c) == up[m][k].op = "Validate" /\ up[m][k].code = c
Owners ==
  \A c \in Codes \ shared, m \in Machines :
    /\ MayType(m, c) =>
         /\ c \in codes
         /\ \A n \in Machines : /\ MayType(n, c) => n = m
                                /\ \A k \in Under(n) : ~Validates(n, k, c)
    /\ \A k \in Under(m) : Validates(m, k, c) =>
         /\ c \in codes
         /\ \A n \in Machines : \A l \in Under(n) : Validates(n, l, c) => n = m /\ l = k

IInv ==
  /\ TypeOK /\ JobFits /\ Tokens /\ Owners
  /\ \A m \in Machines : Fits(m)
  /\ NoOrphans /\ SuccessIsComplete /\ MailedCodeWorks

-----------------------------------------------------------------------------
(***************************************************************************)
(* Requests, and queues of them.                                           *)
(***************************************************************************)
LEMMA Shapes ==
  /\ \A r \in Requests :
       /\ r # None
       /\ r.op \in {"Register", "Login", "Forgot", "UpdatePassword", "Load", "RememberMe"} =>
            r.of \in Users
       /\ r.op \in {"LoginRemembered", "Logout", "RememberMe"} => r.pat \in PATs
       /\ r.op = "Validate" => r.code \in Codes
       /\ r.op \in {"Register", "Login", "Forgot", "UpdatePassword", "Load",
                    "LoginRemembered", "Logout", "RememberMe", "Validate"}
       /\ r.op = "Register" => r = [op |-> "Register", of |-> r.of]
  /\ \A u \in Users :
       /\ \A op \in {"Register", "Login", "Forgot", "UpdatePassword", "Load"} :
            [op |-> op, of |-> u] \in Requests
       /\ \A p \in PATs : [op |-> "RememberMe", of |-> u, pat |-> p] \in Requests
  /\ \A p \in PATs : \A op \in {"LoginRemembered", "Logout"} :
       [op |-> op, pat |-> p] \in Requests
  /\ \A c \in Codes : [op |-> "Validate", code |-> c] \in Requests
<1> DEFINE ofs == [op : {"Register", "Login", "Forgot", "UpdatePassword", "Load"}, of : Users]
           pas == [op : {"LoginRemembered", "Logout"}, pat : PATs]
           rem == [op : {"RememberMe"}, of : Users, pat : PATs]
           val == [op : {"Validate"}, code : Codes]
<1>1. Requests = ofs \cup pas \cup rem \cup val
  BY DEF Requests
<1>2. None \notin Requests
  BY NoneAssumption
<1>3. \A r \in ofs :
        /\ r.op \in {"Register", "Login", "Forgot", "UpdatePassword", "Load"}
        /\ r.of \in Users /\ r = [op |-> r.op, of |-> r.of]
  OBVIOUS
<1>4. \A r \in pas : r.op \in {"LoginRemembered", "Logout"} /\ r.pat \in PATs
  OBVIOUS
<1>5. \A r \in rem : r.op = "RememberMe" /\ r.of \in Users /\ r.pat \in PATs
  OBVIOUS
<1>6. \A r \in val : r.op = "Validate" /\ r.code \in Codes
  OBVIOUS
<1>7. \A u \in Users, op \in {"Register", "Login", "Forgot", "UpdatePassword", "Load"} :
        [op |-> op, of |-> u] \in ofs
  OBVIOUS
<1>8. \A u \in Users, p \in PATs : [op |-> "RememberMe", of |-> u, pat |-> p] \in rem
  OBVIOUS
<1>9. \A p \in PATs : \A op \in {"LoginRemembered", "Logout"} : [op |-> op, pat |-> p] \in pas
  OBVIOUS
<1>10. \A c \in Codes : [op |-> "Validate", code |-> c] \in val
  OBVIOUS
<1> HIDE DEF ofs, pas, rem, val
<1>11. ASSUME NEW r \in Requests
       PROVE  /\ r # None
              /\ r.op \in {"Register", "Login", "Forgot", "UpdatePassword", "Load",
                           "RememberMe"} => r.of \in Users
              /\ r.op \in {"LoginRemembered", "Logout", "RememberMe"} => r.pat \in PATs
              /\ r.op = "Validate" => r.code \in Codes
              /\ r.op \in {"Register", "Login", "Forgot", "UpdatePassword", "Load",
                           "LoginRemembered", "Logout", "RememberMe", "Validate"}
              /\ r.op = "Register" => r = [op |-> "Register", of |-> r.of]
  <2>1. CASE r \in ofs
    BY <1>2, <1>3, <2>1
  <2>2. CASE r \in pas
    BY <1>2, <1>4, <2>2
  <2>3. CASE r \in rem
    BY <1>2, <1>5, <2>3
  <2>4. CASE r \in val
    BY <1>2, <1>6, <2>4
  <2> QED BY <1>1, <2>1, <2>2, <2>3, <2>4
<1> QED BY <1>1, <1>7, <1>8, <1>9, <1>10, <1>11

\* Whose registration is half done waits for its answer.
LEMMA JobIs ==
  ASSUME TypeOK, JobFits, job # None
  PROVE  /\ job[1] \in Machines \cup {None} /\ job[2] \in Users /\ job[2] \in users
         /\ job = <<job[1], job[2]>>
         /\ job[1] # None =>
              /\ wait[job[1]] # None
              /\ wait[job[1]].op = "Register" /\ wait[job[1]].of = job[2]
              /\ answer[job[1]] = None /\ connected[job[1]]
<1>1. job[1] \in Machines \cup {None} /\ job[2] \in Users /\ job = <<job[1], job[2]>>
  BY DEF TypeOK
<1>2. [op |-> "Register", of |-> job[2]] # None
  BY <1>1, Shapes
<1> QED BY <1>1, <1>2 DEF JobFits

LEMMA Appending ==
  ASSUME NEW S, NEW s \in Seq(S), NEW r \in S, NEW t, t = Append(s, r)
  PROVE  /\ t \in Seq(S) /\ Len(t) = Len(s) + 1 /\ t[Len(s) + 1] = r
         /\ \A k \in 1..Len(s) : t[k] = s[k]
BY AppendProperties, LenProperties

LEMMA Taking ==
  ASSUME NEW S, NEW s \in Seq(S), s # <<>>, NEW t, t = Tail(s)
  PROVE  /\ t \in Seq(S) /\ Len(s) = Len(t) + 1 /\ Len(t) \in Nat
         /\ s[1] = Head(s) /\ s[1] \in S
         /\ \A k \in 1..Len(t) : t[k] = s[k + 1]
BY HeadTailProperties, LenProperties

-----------------------------------------------------------------------------
(***************************************************************************)
(* A step leaves a client alone, or the codes to their owners.             *)
(***************************************************************************)
Same(n) ==
  /\ page'[n] = page[n] /\ who'[n] = who[n] /\ wait'[n] = wait[n]
  /\ answer'[n] = answer[n] /\ up'[n] = up[n] /\ late'[n] = late[n]
  /\ connected'[n] = connected[n] /\ patFile'[n] = patFile[n] /\ kept'[n] = kept[n]
  /\ (Registering(n))' <=> Registering(n)
Grows ==
  /\ users \subseteq users' /\ numerar \subseteq numerar' /\ shared \subseteq shared'
  /\ cutOff \subseteq cutOff' /\ pats \in Nat /\ pats' \in Nat /\ pats <= pats'
RowsStand(n) ==
  /\ kept[n] => patFile[n] \notin cutOff'
  /\ kept[n] /\ connected[n] /\ <<who[n], patFile[n]>> \in sessions =>
       <<who[n], patFile[n]>> \in sessions'
  /\ Asks(n, "Logout") /\ answer[n] # None /\ patFile[n] \notin cutOff =>
       \A s \in sessions' : s[2] = patFile[n] => s \in sessions

\* What fits goes on to fit while the step is another client's.
LEMMA OthersFit ==
  ASSUME NEW n \in Machines, TypeOK, Fits(n), Same(n), Grows, RowsStand(n)
  PROVE  Fits(n)'
<1>1. PageFits(n)'
  BY DEF Fits, PageFits, Same, Asks
<1>2. QueueFits(n)'
  <2>1. Awaits(n)' <=> Awaits(n)
    BY DEF Same, Awaits
  <2> QED BY <2>1 DEF Fits, QueueFits, Same
<1>3. AnswerHolds(n)'
  BY DEF Fits, AnswerHolds, Same, Asks, Grows
<1>4. TokenFits(n)'
  <2>1. patFile[n] # None => patFile[n] \in Nat
    BY DEF TypeOK, PATs
  <2>2. patFile'[n] # None => patFile'[n] <= pats'
    BY <2>1 DEF Fits, TokenFits, Same, Grows
  <2>3. kept'[n] => patFile'[n] \notin cutOff'
    BY DEF RowsStand, Same
  <2> QED BY <2>2, <2>3 DEF Fits, TokenFits, Same, Grows, Under
<1>5. RowThere(n)'
  BY DEF Fits, RowThere, Same, Asks, RowsStand
<1>6. RowGone(n)'
  BY DEF Fits, RowGone, Same, Asks, RowsStand, Grows, Under
<1> QED BY <1>1, <1>2, <1>3, <1>4, <1>5, <1>6 DEF Fits

\* Nobody begins to own a code; requests may have moved up in their queues; and
\* a file is removed when the code is nobody's.
LEMMA OwnersStand ==
  ASSUME Owners, shared \subseteq shared',
         NEW by \in [Machines -> Nat],
         \A c \in Codes \ shared', n \in Machines :
           /\ MayType(n, c)' => MayType(n, c)
           /\ \A k \in Under(n)' : Validates(n, k, c)' =>
                k + by[n] \in Under(n) /\ Validates(n, k + by[n], c),
         \A c \in Codes \ shared' : c \in codes =>
           \/ c \in codes'
           \/ \A n \in Machines : /\ ~MayType(n, c)'
                                  /\ \A k \in Under(n)' : ~Validates(n, k, c)',
         \A n \in Machines : up'[n] \in Seq(Requests)
  PROVE  Owners'
<1> SUFFICES ASSUME NEW c \in Codes \ shared', NEW m \in Machines
             PROVE  /\ MayType(m, c)' =>
                         /\ c \in codes'
                         /\ \A n \in Machines : /\ MayType(n, c)' => n = m
                                                /\ \A k \in Under(n)' : ~Validates(n, k, c)'
                    /\ \A k \in Under(m)' : Validates(m, k, c)' =>
                         /\ c \in codes'
                         /\ \A n \in Machines : \A l \in Under(n)' :
                              Validates(n, l, c)' => n = m /\ l = k
  BY Zenon DEF Owners
<1>1. /\ MayType(m, c) =>
           /\ c \in codes
           /\ \A n \in Machines : /\ MayType(n, c) => n = m
                                  /\ \A k \in Under(n) : ~Validates(n, k, c)
      /\ \A k \in Under(m) : Validates(m, k, c) =>
           /\ c \in codes
           /\ \A n \in Machines : \A l \in Under(n) : Validates(n, l, c) => n = m /\ l = k
  BY Zenon DEF Owners
<1>2. ASSUME MayType(m, c)'
      PROVE  /\ c \in codes'
             /\ \A n \in Machines : /\ MayType(n, c)' => n = m
                                    /\ \A k \in Under(n)' : ~Validates(n, k, c)'
  BY <1>1, <1>2
<1>3. ASSUME NEW k \in Under(m)', Validates(m, k, c)'
      PROVE  /\ c \in codes'
             /\ \A n \in Machines : \A l \in Under(n)' :
                  Validates(n, l, c)' => n = m /\ l = k
  <2>1. k + by[m] \in Under(m) /\ Validates(m, k + by[m], c)
    BY <1>3
  <2>2. c \in codes'
    BY <1>1, <1>3, <2>1
  <2>3. ASSUME NEW n \in Machines, NEW l \in Under(n)', Validates(n, l, c)'
        PROVE  n = m /\ l = k
    <3>1. l + by[n] \in Under(n) /\ Validates(n, l + by[n], c)
      BY <2>3
    <3>2. n = m /\ l + by[n] = k + by[m]
      BY <1>1, <2>1, <3>1
    <3>3. by[m] \in Nat /\ k \in Int /\ l \in Int
      BY <1>3, <2>3 DEF Under
    <3> QED BY <3>2, <3>3
  <2> QED BY <2>2, <2>3
<1> QED BY <1>2, <1>3

-----------------------------------------------------------------------------
(***************************************************************************)
(* A handler sends its request.                                            *)
(***************************************************************************)
Screens == {"off", "start", "login", "dashboard", "newPassword"}

Sends(m, p, r) ==
  /\ wait[m] = None
  /\ \/ page[m] = "off" /\ p = "start" /\ r.op = "LoginRemembered"
     \/ page[m] = p /\ p # "off" /\ connected[m]
  /\ r.op \in {"Register", "Login", "Forgot", "Validate"} => p = "login"
  /\ r.op = "UpdatePassword" => p = "newPassword"
  /\ r.op = "LoginRemembered" => p = "start"
  /\ r.op \in {"Load", "Logout"} => p = "dashboard"
  /\ r.op # "RememberMe"
  /\ r.op = "Validate" => who[m] # None /\ r.code = mailed[m]
  /\ r.op = "Logout" => r.pat = patFile[m]
  /\ page' = [page EXCEPT ![m] = p]
  /\ connected' = [connected EXCEPT ![m] = TRUE]
  /\ Ask(m, r) /\ clicks' \in 0..MaxClicks
  /\ UNCHANGED <<server, late, who, answer, patFile, held, pats, faults, ghosts>>

\* What is unchanged when a client asks.
LEMMA SendsFlat ==
  ASSUME NEW m \in Machines, NEW p, NEW r, TypeOK, Sends(m, p, r)
  PROVE  /\ page'[m] = p /\ connected'[m] = TRUE /\ wait'[m] = r
         /\ up'[m] = Append(up[m], r)
         /\ \A n \in Machines : n # m =>
              /\ page'[n] = page[n] /\ connected'[n] = connected[n]
              /\ wait'[n] = wait[n] /\ up'[n] = up[n]
         /\ who' = who /\ answer' = answer /\ late' = late /\ patFile' = patFile
         /\ kept' = kept /\ mailed' = mailed /\ refused' = refused
         /\ cutOff' = cutOff /\ shared' = shared /\ confirmed' = confirmed
         /\ serverUp' = serverUp /\ users' = users /\ numerar' = numerar
         /\ sessions' = sessions /\ codes' = codes /\ job' = job
         /\ held' = held /\ pats' = pats /\ faults' = faults
BY DEF Sends, Ask, TypeOK, server, ghosts

LEMMA SendsTypeOK ==
  ASSUME NEW m \in Machines, NEW p \in Screens, NEW r \in Requests, TypeOK, Sends(m, p, r)
  PROVE  TypeOK'
<1>1. page' \in [Machines -> Screens] /\ connected' \in [Machines -> BOOLEAN]
  BY DEF Sends, TypeOK, Screens
<1>2. wait' \in [Machines -> Requests \cup {None}]
  BY DEF Sends, Ask, TypeOK
<1>3. up[m] \in Seq(Requests)
  BY DEF TypeOK
<1>4. Append(up[m], r) \in Seq(Requests)
  BY <1>3, Appending
<1>5. up' \in [Machines -> Seq(Requests)]
  BY <1>4 DEF Sends, Ask, TypeOK
<1>6. ASSUME NEW n \in Machines PROVE late'[n] <= Len(up'[n])
  <2>1. CASE n # m
    BY <2>1, SendsFlat DEF TypeOK
  <2>2. CASE n = m
    <3>1. PICK t : t = up'[m]
      OBVIOUS
    <3>2. t = Append(up[m], r) /\ late'[m] = late[m]
      BY <3>1, SendsFlat
    <3>4. Len(t) = Len(up[m]) + 1
      BY <3>2, <1>3, Appending
    <3>3. late[m] \in Nat /\ Len(up[m]) \in Nat /\ late[m] <= Len(up[m])
      BY <1>3, LenProperties DEF TypeOK
    <3> QED BY <2>2, <3>1, <3>2, <3>3, <3>4
  <2> QED BY <2>1, <2>2
<1>7. clicks' \in 0..MaxClicks
  BY DEF Sends
<1>8. /\ serverUp' = serverUp /\ users' = users /\ numerar' = numerar
      /\ sessions' = sessions /\ codes' = codes /\ job' = job
      /\ who' = who /\ answer' = answer /\ late' = late /\ patFile' = patFile
      /\ held' = held /\ pats' = pats /\ faults' = faults /\ kept' = kept
      /\ mailed' = mailed /\ refused' = refused /\ cutOff' = cutOff /\ shared' = shared
      /\ confirmed' = confirmed
  BY SendsFlat
<1> QED BY <1>1, <1>2, <1>5, <1>6, <1>7, <1>8 DEF TypeOK, Screens

\* The request is on its way and its handler waits for it.
LEMMA SendsFits ==
  ASSUME NEW m \in Machines, NEW p \in Screens, NEW r \in Requests, IInv, Sends(m, p, r)
  PROVE  Fits(m)'
<1>1. TypeOK /\ Fits(m) /\ JobFits
  BY DEF IInv
<1>2. /\ page'[m] = p /\ connected'[m] = TRUE /\ wait'[m] = r /\ up'[m] = Append(up[m], r)
      /\ who' = who /\ answer' = answer /\ late' = late /\ patFile' = patFile
      /\ kept' = kept /\ cutOff' = cutOff /\ users' = users /\ sessions' = sessions
      /\ job' = job /\ pats' = pats
  BY <1>1, SendsFlat
<1>3. r # None /\ wait[m] = None
  BY Shapes DEF Sends
<1>4. answer[m] = None /\ ~Awaits(m)
  BY <1>1, <1>3 DEF Fits, PageFits, Awaits
<1>5. PICK t : t = up'[m]
  OBVIOUS
<1>6. up[m] \in Seq(Requests) /\ late[m] \in Nat /\ Len(up[m]) = late[m]
  BY <1>1, <1>4 DEF TypeOK, Fits, QueueFits
<1>7. /\ Len(t) = late[m] + 1 /\ t[late[m] + 1] = r
      /\ \A k \in Under(m) : t[k] = up[m][k]
  BY <1>2, <1>5, <1>6, Appending DEF Under
<1>8. ~Registering(m)
  <2>1. job # None /\ job[1] # None => wait[job[1]] # None
    BY <1>1, JobIs
  <2>2. m # None
    BY NoneAssumption
  <2> QED BY <1>3, <2>1, <2>2 DEF Registering
<1>9. PageFits(m)'
  <2>1. kept[m] => page'[m] = "dashboard" /\ patFile'[m] # None
    BY <1>1, <1>2 DEF Fits, PageFits, Sends
  <2>2. page'[m] # "off"
    BY <1>2 DEF Sends
  <2>3. page'[m] \in {"newPassword", "dashboard"} => who'[m] # None
    BY <1>1, <1>2 DEF Fits, PageFits, Sends
  <2>4. /\ r.op \in {"Register", "Login", "Forgot", "Validate"} => p = "login"
        /\ r.op = "UpdatePassword" => p = "newPassword"
        /\ r.op = "LoginRemembered" => p = "start"
        /\ r.op \in {"Load", "Logout"} => p = "dashboard"
        /\ r.op # "RememberMe"
        /\ r.op = "Validate" => who[m] # None
        /\ r.op = "Logout" => r.pat = patFile[m]
    BY DEF Sends
  <2> QED BY <1>2, <1>3, <2>1, <2>2, <2>3, <2>4 DEF PageFits, Asks
<1>10. QueueFits(m)'
  <2>1. Awaits(m)'
    BY <1>2, <1>3, <1>4, <1>8 DEF Awaits, Registering
  <2>2. Len(t) = late'[m] + 1 /\ t[Len(t)] = wait'[m]
    BY <1>2, <1>7
  <2> QED BY <1>5, <2>1, <2>2 DEF QueueFits
<1>11. AnswerHolds(m)'
  BY <1>2, <1>4, NoneAssumption DEF AnswerHolds
<1>12. TokenFits(m)'
  <2>1. ASSUME NEW k \in 1..Len(t), t[k].op = "RememberMe"
        PROVE  t[k].of \in users /\ (t[k].pat \in cutOff \/ t[k].pat = patFile[m])
    <3>1. k \in Under(m)
      BY <1>6, <1>7, <2>1 DEF Under, Sends
    <3> QED BY <1>1, <1>7, <2>1, <3>1 DEF Fits, TokenFits
  <2>2. ASSUME NEW k \in 1..Len(t), t[k].op = "Logout"
        PROVE  \/ t[k].pat \in cutOff
               \/ r = t[k] /\ answer[m] = None /\ k = Len(t)
    <3>1. CASE k = Len(t)
      BY <1>4, <1>7, <3>1
    <3>2. CASE k # Len(t)
      <4>1. k \in Under(m)
        BY <1>6, <1>7, <3>2 DEF Under
      <4>2. t[k] = up[m][k] /\ up[m][k] \in Requests
        BY <1>6, <1>7, <4>1, ElementOfSeq DEF Under
      <4>3. up[m][k] # None
        BY <4>2, Shapes
      <4> QED BY <1>1, <1>3, <2>2, <4>1, <4>2, <4>3 DEF Fits, TokenFits
    <3> QED BY <3>1, <3>2
  <2>3. (patFile[m] # None => patFile[m] <= pats) /\ (kept[m] => patFile[m] \notin cutOff)
    BY <1>1 DEF Fits, TokenFits
  <2> QED BY <1>2, <1>5, <2>1, <2>2, <2>3 DEF TokenFits, Under
<1>13. RowThere(m)'
  <2>1. kept[m] => connected[m]
    BY <1>1 DEF Sends, Fits, PageFits
  <2>2. kept[m] => <<who[m], patFile[m]>> \in sessions
    BY <1>1, <1>3, <2>1 DEF Fits, RowThere, Asks
  <2> QED BY <1>2, <2>2 DEF RowThere
<1>14. RowGone(m)'
  BY <1>2, <1>4 DEF RowGone
<1> QED BY <1>9, <1>10, <1>11, <1>12, <1>13, <1>14 DEF Fits

\* The code that is typed was its client's, and is now the request's.
LEMMA SendsOwners ==
  ASSUME NEW m \in Machines, NEW p \in Screens, NEW r \in Requests, IInv, Sends(m, p, r)
  PROVE  Owners'
<1>1. TypeOK /\ Owners
  BY DEF IInv
<1>2. /\ page'[m] = p /\ connected'[m] = TRUE /\ wait'[m] = r /\ up'[m] = Append(up[m], r)
      /\ mailed' = mailed /\ shared' = shared /\ codes' = codes
      /\ \A n \in Machines : n # m =>
           /\ page'[n] = page[n] /\ connected'[n] = connected[n]
           /\ wait'[n] = wait[n] /\ up'[n] = up[n]
  BY <1>1, SendsFlat
<1>3. r # None /\ wait[m] = None
  BY Shapes DEF Sends
<1>4. PICK t : t = up'[m]
  OBVIOUS
<1>5. up[m] \in Seq(Requests)
  BY <1>1 DEF TypeOK
<1>6. PICK i \in Nat : i = Len(up[m])
  BY <1>5, LenProperties
<1>7. Len(t) = i + 1 /\ t[i + 1] = r /\ \A k \in 1..i : t[k] = up[m][k]
  BY <1>2, <1>4, <1>5, <1>6, Appending
<1> SUFFICES ASSUME NEW c \in Codes \ shared, NEW a \in Machines
             PROVE  /\ MayType(a, c)' =>
                         /\ c \in codes
                         /\ \A n \in Machines : /\ MayType(n, c)' => n = a
                                                /\ \A k \in Under(n)' : ~Validates(n, k, c)'
                    /\ \A k \in Under(a)' : Validates(a, k, c)' =>
                         /\ c \in codes
                         /\ \A n \in Machines : \A l \in Under(n)' :
                              Validates(n, l, c)' => n = a /\ l = k
  BY <1>2, Zenon DEF Owners
<1> DEFINE Typed == r.op = "Validate" /\ r.code = c
<1>8. \A b \in Machines :
        /\ MayType(b, c) =>
             /\ c \in codes
             /\ \A n \in Machines : /\ MayType(n, c) => n = b
                                    /\ \A k \in Under(n) : ~Validates(n, k, c)
        /\ \A k \in Under(b) : Validates(b, k, c) =>
             /\ c \in codes
             /\ \A n \in Machines : \A l \in Under(n) : Validates(n, l, c) => n = b /\ l = k
  BY <1>1, Zenon DEF Owners
<1>9. ASSUME NEW n \in Machines, MayType(n, c)' PROVE MayType(n, c)
  <2>1. CASE n # m
    BY <1>2, <1>9, <2>1 DEF MayType, Asks
  <2>2. CASE n = m
    BY <1>2, <1>3, <1>9, <2>2 DEF MayType, Asks, Sends
  <2> QED BY <2>1, <2>2
<1>10. Typed => MayType(m, c) /\ ~MayType(m, c)'
  BY <1>2, <1>3 DEF MayType, Asks, Sends
<1>11. ASSUME NEW n \in Machines, NEW k \in Under(n)', Validates(n, k, c)'
       PROVE  \/ k \in Under(n) /\ Validates(n, k, c)
              \/ n = m /\ k = i + 1 /\ Typed
  <2>1. CASE n # m
    BY <1>2, <1>11, <2>1 DEF Validates, Under
  <2>2. CASE n = m
    <3>1. k \in 1..i + 1 /\ t[k].op = "Validate" /\ t[k].code = c
      BY <1>4, <1>7, <1>11, <2>2 DEF Validates, Under
    <3>2. CASE k = i + 1
      BY <1>7, <2>2, <3>1, <3>2
    <3>3. CASE k # i + 1
      BY <1>6, <1>7, <2>2, <3>1, <3>3 DEF Validates, Under
    <3> QED BY <3>2, <3>3
  <2> QED BY <2>1, <2>2
<1> HIDE DEF Typed
<1>12. ASSUME MayType(a, c)'
       PROVE  /\ c \in codes
              /\ \A n \in Machines : /\ MayType(n, c)' => n = a
                                     /\ \A k \in Under(n)' : ~Validates(n, k, c)'
  <2>1. MayType(a, c)
    BY <1>9, <1>12
  <2>2. ~Typed
    BY <1>8, <1>10, <1>12, <2>1
  <2> QED BY <1>8, <1>9, <1>11, <2>1, <2>2
<1>13. ASSUME NEW k \in Under(a)', Validates(a, k, c)'
       PROVE  /\ c \in codes
              /\ \A n \in Machines : \A l \in Under(n)' :
                   Validates(n, l, c)' => n = a /\ l = k
  <2>1. CASE Typed
    <3>1. c \in codes /\ \A n \in Machines : \A l \in Under(n) : ~Validates(n, l, c)
      BY <1>8, <1>10, <2>1
    <3> QED BY <1>11, <1>13, <3>1
  <2>2. CASE ~Typed
    BY <1>8, <1>11, <1>13, <2>2
  <2> QED BY <2>1, <2>2
<1> QED BY <1>12, <1>13

LEMMA SendsKeeps ==
  ASSUME NEW m \in Machines, NEW p \in Screens, NEW r \in Requests, IInv, Sends(m, p, r)
  PROVE  IInv'
<1>1. TypeOK
  BY DEF IInv
<1>2. ASSUME NEW n \in Machines PROVE Fits(n)'
  <2>1. CASE n # m
    <3>1. Same(n)
      BY <1>1, <2>1, SendsFlat DEF Same, Registering
    <3>2. Grows
      <4>1. pats \in Nat
        BY <1>1 DEF TypeOK
      <4>2. /\ users' = users /\ numerar' = numerar /\ shared' = shared
            /\ cutOff' = cutOff /\ pats' = pats
        BY <1>1, SendsFlat
      <4> QED BY <4>1, <4>2 DEF Grows
    <3>3. RowsStand(n)
      <4>1. kept[n] => patFile[n] \notin cutOff
        BY DEF IInv, Fits, TokenFits
      <4>2. cutOff' = cutOff /\ sessions' = sessions
        BY <1>1, SendsFlat
      <4> QED BY <4>1, <4>2 DEF RowsStand
    <3> QED BY <1>1, <3>1, <3>2, <3>3, OthersFit DEF IInv
  <2>2. CASE n = m
    BY <2>2, SendsFits
  <2> QED BY <2>1, <2>2
<1>3. /\ patFile' = patFile /\ sessions' = sessions /\ cutOff' = cutOff /\ pats' = pats
      /\ users' = users /\ numerar' = numerar /\ confirmed' = confirmed
      /\ refused' = refused /\ shared' = shared
  BY <1>1, SendsFlat
<1>4. JobFits'
  <2>1. job # None /\ job[1] # None => job[1] \in Machines
    BY <1>1, JobIs DEF IInv
  <2>2. job # None /\ job[1] # None => job[1] # m
    BY <1>1, JobIs DEF IInv, Sends
  <2>3. job # None /\ job[1] # None =>
          wait'[job[1]] = wait[job[1]] /\ connected'[job[1]] = connected[job[1]]
    BY <1>1, <2>1, <2>2, SendsFlat
  <2> QED BY <1>1, <1>3, <2>3, SendsFlat DEF JobFits, IInv
<1>5. Tokens' /\ NoOrphans'
  BY <1>3 DEF Tokens, NoOrphans, IInv
<1>6. SuccessIsComplete' /\ MailedCodeWorks'
  BY <1>3 DEF SuccessIsComplete, MailedCodeWorks, IInv
<1> QED BY <1>1, <1>2, <1>4, <1>5, <1>6, SendsTypeOK, SendsOwners DEF IInv

-----------------------------------------------------------------------------
(***************************************************************************)
(* A client goes from page to page and sends nothing.                      *)
(***************************************************************************)
Moves(m) ==
  /\ wait[m] = None
  /\ \/ page[m] = "off" /\ page'[m] = "login" /\ mailed' = mailed
     \/ connected[m] /\ page'[m] = "login" /\ mailed' = mailed
     \/ page'[m] = "off" /\ ~connected'[m] /\ mailed'[m] = None
  /\ ~kept'[m] /\ refused'[m] \in {refused[m], None}
  /\ \A n \in Machines : n # m =>
       /\ page'[n] = page[n] /\ who'[n] = who[n] /\ connected'[n] = connected[n]
       /\ kept'[n] = kept[n] /\ mailed'[n] = mailed[n] /\ refused'[n] = refused[n]
  /\ page' \in [Machines -> Screens] /\ who' \in [Machines -> Users \cup {None}]
  /\ connected' \in [Machines -> BOOLEAN] /\ kept' \in [Machines -> BOOLEAN]
  /\ held' \in [Machines -> BOOLEAN] /\ clicks' \in 0..MaxClicks
  /\ mailed' \in [Machines -> Codes \cup {None}] /\ refused' \in [Machines -> Codes \cup {None}]
  /\ serverUp' = serverUp /\ users' = users /\ numerar' = numerar /\ sessions' = sessions
  /\ codes' = codes /\ job' = job /\ wait' = wait /\ answer' = answer /\ up' = up
  /\ late' = late /\ patFile' = patFile /\ pats' = pats /\ faults' = faults
  /\ cutOff' = cutOff /\ confirmed' = confirmed /\ shared' = shared

LEMMA MovesFits ==
  ASSUME NEW m \in Machines, IInv, Moves(m)
  PROVE  Fits(m)'
<1>1. TypeOK /\ Fits(m) /\ JobFits /\ Moves(m)
  BY DEF IInv
<1>2. /\ wait[m] = None /\ wait' = wait /\ answer' = answer /\ up' = up /\ late' = late
      /\ patFile' = patFile /\ ~kept'[m] /\ cutOff' = cutOff /\ pats' = pats /\ users' = users
      /\ page'[m] \in {"off", "login"}
  BY <1>1 DEF Moves
<1>3. page'[m] = "off" => ~connected'[m]
  BY <1>1 DEF Moves
<1>4. answer[m] = None
  BY <1>1, <1>2 DEF Fits, PageFits
<1>5. PageFits(m)'
  BY <1>2, <1>3, <1>4 DEF PageFits, Asks
<1>6. QueueFits(m)'
  BY <1>1, <1>2 DEF QueueFits, Fits, Awaits
<1>7. AnswerHolds(m)' /\ RowThere(m)' /\ RowGone(m)'
  BY <1>2 DEF AnswerHolds, RowThere, RowGone, Asks
<1>8. TokenFits(m)'
  BY <1>1, <1>2 DEF TokenFits, Fits, Under
<1> QED BY <1>5, <1>6, <1>7, <1>8 DEF Fits

LEMMA MovesKeeps ==
  ASSUME NEW m \in Machines, IInv, Moves(m)
  PROVE  IInv'
<1>1. TypeOK
  BY DEF IInv
<1>2. /\ serverUp' = serverUp /\ users' = users /\ numerar' = numerar
      /\ sessions' = sessions /\ codes' = codes /\ job' = job /\ wait' = wait
      /\ answer' = answer /\ up' = up /\ late' = late /\ patFile' = patFile
      /\ pats' = pats /\ cutOff' = cutOff /\ confirmed' = confirmed /\ shared' = shared
      /\ wait[m] = None
  BY DEF Moves
<1>3. ASSUME NEW n \in Machines PROVE Fits(n)'
  <2>1. CASE n # m
    <3>1. Same(n)
      BY <2>1, <1>2 DEF Same, Registering, Moves
    <3>2. Grows
      <4>1. pats \in Nat
        BY <1>1 DEF TypeOK
      <4> QED BY <1>2, <4>1 DEF Grows
    <3>3. RowsStand(n)
      BY <1>2 DEF RowsStand, IInv, Fits, TokenFits
    <3> QED BY <1>1, <3>1, <3>2, <3>3, OthersFit DEF IInv
  <2>2. CASE n = m
    BY <2>2, MovesFits
  <2> QED BY <2>1, <2>2
<1>4. JobFits'
  <2>1. job # None /\ job[1] # None => job[1] # m
    BY <1>1, <1>2, JobIs DEF IInv
  <2>2. job # None => job[1] \in Machines \cup {None}
    BY <1>1, JobIs DEF IInv
  <2>3. job # None /\ job[1] # None => connected'[job[1]] = connected[job[1]]
    BY <2>1, <2>2 DEF Moves
  <2> QED BY <1>2, <2>3 DEF JobFits, IInv
<1>5. Tokens' /\ NoOrphans'
  BY <1>2 DEF Tokens, NoOrphans, IInv
<1>6. SuccessIsComplete'
  BY <1>2 DEF SuccessIsComplete, IInv
<1>7. MailedCodeWorks'
  <2>1. \A n \in Machines : refused'[n] \in {refused[n], None}
    BY DEF Moves
  <2> QED BY <1>2, <2>1 DEF MailedCodeWorks, IInv
<1>8. Owners'
  <2>1. PICK by \in [Machines -> Nat] : \A n \in Machines : by[n] = 0
    <3>1. [n \in Machines |-> 0] \in [Machines -> Nat]
      OBVIOUS
    <3> QED BY <3>1
  <2>2. ASSUME NEW c \in Codes \ shared', NEW n \in Machines
        PROVE  /\ MayType(n, c)' => MayType(n, c)
               /\ \A k \in Under(n)' : Validates(n, k, c)' =>
                    k + by[n] \in Under(n) /\ Validates(n, k + by[n], c)
    <3>1. \A k \in Under(n)' : k + by[n] = k
      BY <2>1 DEF Under
    <3>2. \A k \in Under(n)' : Validates(n, k, c)' =>
            k + by[n] \in Under(n) /\ Validates(n, k + by[n], c)
      BY <1>2, <3>1 DEF Under, Validates
    <3>3. MayType(n, c)' => MayType(n, c)
      <4>1. CASE n # m
        BY <1>2, <4>1 DEF Moves, MayType, Asks
      <4>2. CASE n = m
        <5>1. c # None
          BY NoneAssumption
        <5> QED BY <1>2, <4>2, <5>1 DEF Moves, MayType, Asks
      <4> QED BY <4>1, <4>2
    <3> QED BY <3>2, <3>3
  <2>3. up' \in [Machines -> Seq(Requests)]
    BY <1>1, <1>2 DEF TypeOK
  <2> QED BY <1>2, <2>2, <2>3, OwnersStand DEF IInv
<1>9. TypeOK'
  <2>1. /\ page' \in [Machines -> Screens] /\ who' \in [Machines -> Users \cup {None}]
        /\ connected' \in [Machines -> BOOLEAN] /\ kept' \in [Machines -> BOOLEAN]
        /\ held' \in [Machines -> BOOLEAN] /\ clicks' \in 0..MaxClicks /\ faults' = faults
        /\ mailed' \in [Machines -> Codes \cup {None}]
        /\ refused' \in [Machines -> Codes \cup {None}]
    BY DEF Moves
  <2> QED BY <1>1, <1>2, <2>1 DEF TypeOK, Screens
<1> QED BY <1>3, <1>4, <1>5, <1>6, <1>7, <1>8, <1>9 DEF IInv

-----------------------------------------------------------------------------
(***************************************************************************)
(* The buttons.                                                            *)
(***************************************************************************)
Starts(m) ==
  Moves(m) \/ \E p \in Screens, r \in Requests : Sends(m, p, r)

LEMMA StartsKeeps ==
  ASSUME NEW m \in Machines, IInv, Starts(m)
  PROVE  IInv'
BY MovesKeeps, SendsKeeps DEF Starts

LEMMA Steady ==
  ASSUME NEW m \in Machines, TypeOK
  PROVE  /\ page = [page EXCEPT ![m] = page[m]]
         /\ connected[m] => connected = [connected EXCEPT ![m] = TRUE]
         /\ page[m] \in Screens
<1>1. page \in [Machines -> Screens] /\ connected \in [Machines -> BOOLEAN]
  BY DEF TypeOK, Screens
<1> QED BY <1>1

LEMMA ClickCounted == ASSUME TypeOK, Counted PROVE clicks' \in 0..MaxClicks
<1>1. clicks \in 0..MaxClicks /\ MaxClicks \in Nat
  BY BoundsAssumption DEF TypeOK
<1> QED BY <1>1 DEF Counted

LEMMA LaunchStarts ==
  ASSUME NEW m \in Machines, IInv, Launch(m)
  PROVE  Starts(m)
<1>1. TypeOK /\ page[m] = "off" /\ wait[m] = None /\ ~kept[m] /\ Launch(m)
  BY DEF IInv, Fits, PageFits, Launch
<1>2. clicks' \in 0..MaxClicks
  BY <1>1, ClickCounted DEF Launch
<1>3. CASE patFile[m] = None
  <2>1. /\ page' = [page EXCEPT ![m] = "login"] /\ connected' = [connected EXCEPT ![m] = TRUE]
        /\ wait' = wait /\ up' = up
        /\ UNCHANGED <<server, late, who, answer, patFile, held, pats, faults, ghosts>>
    BY <1>1, <1>3 DEF Launch
  <2>2. page' \in [Machines -> Screens] /\ connected' \in [Machines -> BOOLEAN]
        /\ page'[m] = "login"
        /\ \A n \in Machines : n # m => page'[n] = page[n] /\ connected'[n] = connected[n]
    BY <1>1, <2>1 DEF TypeOK, Screens
  <2>3. /\ who \in [Machines -> Users \cup {None}]
        /\ kept \in [Machines -> BOOLEAN] /\ held \in [Machines -> BOOLEAN]
        /\ mailed \in [Machines -> Codes \cup {None}]
        /\ refused \in [Machines -> Codes \cup {None}]
    BY <1>1 DEF TypeOK
  <2>4. Moves(m)
    BY <1>1, <1>2, <2>1, <2>2, <2>3 DEF Moves, server, ghosts
  <2> QED BY <2>4 DEF Starts
<1>4. CASE patFile[m] # None
  <2> DEFINE r == [op |-> "LoginRemembered", pat |-> patFile[m]]
  <2>1. r \in Requests
    BY <1>1, <1>4, Shapes DEF TypeOK
  <2>2. Sends(m, "start", r)
    BY <1>1, <1>2, <1>4 DEF Sends, Launch
  <2> QED BY <2>1, <2>2 DEF Starts, Screens
<1> QED BY <1>3, <1>4

LEMMA ClickLoginPageStarts ==
  ASSUME NEW m \in Machines, NEW u \in Users, NEW op \in {"Register", "Login", "Forgot"},
         IInv, ClickLoginPage(m, op, u)
  PROVE  Starts(m)
<1>1. TypeOK /\ ClickLoginPage(m, op, u)
  BY DEF IInv
<1>2. clicks' \in 0..MaxClicks /\ connected = [connected EXCEPT ![m] = TRUE]
      /\ page = [page EXCEPT ![m] = "login"]
  BY <1>1, ClickCounted, Steady DEF ClickLoginPage, Idle
<1> DEFINE r == [op |-> op, of |-> u]
<1>3. r \in Requests
  BY Shapes
<1>4. Sends(m, "login", r)
  BY <1>1, <1>2 DEF Sends, ClickLoginPage, Idle
<1> QED BY <1>3, <1>4 DEF Starts, Screens

LEMMA ClickValidateStarts ==
  ASSUME NEW m \in Machines, IInv, ClickValidate(m)
  PROVE  Starts(m)
<1>1. TypeOK /\ ClickValidate(m)
  BY DEF IInv
<1>2. clicks' \in 0..MaxClicks /\ connected = [connected EXCEPT ![m] = TRUE]
      /\ page = [page EXCEPT ![m] = "login"]
  BY <1>1, ClickCounted, Steady DEF ClickValidate, Idle
<1> DEFINE r == [op |-> "Validate", code |-> mailed[m]]
<1>3. r \in Requests
  BY <1>1, Shapes DEF TypeOK, ClickValidate
<1>4. Sends(m, "login", r)
  BY <1>1, <1>2 DEF Sends, ClickValidate, Idle
<1> QED BY <1>3, <1>4 DEF Starts, Screens

LEMMA ClickUpdateStarts ==
  ASSUME NEW m \in Machines, IInv, ClickUpdate(m)
  PROVE  Starts(m)
<1>1. TypeOK /\ ClickUpdate(m)
  BY DEF IInv
<1>2. clicks' \in 0..MaxClicks /\ connected = [connected EXCEPT ![m] = TRUE]
      /\ page = [page EXCEPT ![m] = "newPassword"]
  BY <1>1, ClickCounted, Steady DEF ClickUpdate, Idle
<1> DEFINE r == [op |-> "UpdatePassword", of |-> who[m]]
<1>3. who[m] # None
  BY DEF IInv, Fits, PageFits, ClickUpdate, Idle
<1>4. r \in Requests
  BY <1>1, <1>3, Shapes DEF TypeOK
<1>5. Sends(m, "newPassword", r)
  BY <1>1, <1>2 DEF Sends, ClickUpdate, Idle
<1> QED BY <1>4, <1>5 DEF Starts, Screens

LEMMA ClickLogoutStarts ==
  ASSUME NEW m \in Machines, IInv, ClickLogout(m)
  PROVE  Starts(m)
<1>1. TypeOK /\ ClickLogout(m)
  BY DEF IInv
<1>2. clicks' \in 0..MaxClicks /\ connected = [connected EXCEPT ![m] = TRUE]
      /\ page = [page EXCEPT ![m] = "dashboard"]
  BY <1>1, ClickCounted, Steady DEF ClickLogout, Idle
<1>3. CASE patFile[m] = None
  <2>1. /\ wait[m] = None /\ connected[m]
        /\ page' = [page EXCEPT ![m] = "login"] /\ who' = [who EXCEPT ![m] = None]
        /\ kept' = [kept EXCEPT ![m] = FALSE] /\ wait' = wait /\ up' = up
        /\ UNCHANGED <<server, late, answer, connected, patFile, held, pats, faults, cutOff,
                       confirmed, mailed, shared, refused>>
    BY <1>1, <1>3 DEF ClickLogout, GoTo, Idle
  <2>2. /\ page' \in [Machines -> Screens] /\ who' \in [Machines -> Users \cup {None}]
        /\ kept' \in [Machines -> BOOLEAN]
        /\ page'[m] = "login" /\ ~kept'[m]
        /\ \A n \in Machines : n # m =>
             page'[n] = page[n] /\ who'[n] = who[n] /\ kept'[n] = kept[n]
    BY <1>1, <2>1 DEF TypeOK, Screens
  <2>3. /\ connected \in [Machines -> BOOLEAN] /\ held \in [Machines -> BOOLEAN]
        /\ mailed \in [Machines -> Codes \cup {None}]
        /\ refused \in [Machines -> Codes \cup {None}]
    BY <1>1 DEF TypeOK
  <2>4. Moves(m)
    BY <1>2, <2>1, <2>2, <2>3 DEF Moves, server
  <2> QED BY <2>4 DEF Starts
<1>4. CASE patFile[m] # None
  <2> DEFINE r == [op |-> "Logout", pat |-> patFile[m]]
  <2>1. r \in Requests
    BY <1>1, <1>4, Shapes DEF TypeOK
  <2>2. Sends(m, "dashboard", r)
    BY <1>1, <1>2, <1>4 DEF Sends, ClickLogout, Idle, ghosts
  <2> QED BY <2>1, <2>2 DEF Starts, Screens
<1> QED BY <1>3, <1>4

LEMMA CloseStarts ==
  ASSUME NEW m \in Machines, IInv, Close(m)
  PROVE  Starts(m)
<1>1. TypeOK
  BY DEF IInv
<1>2. /\ wait[m] = None
      /\ page' = [page EXCEPT ![m] = "off"] /\ connected' = [connected EXCEPT ![m] = FALSE]
      /\ held' = [held EXCEPT ![m] = FALSE] /\ who' = [who EXCEPT ![m] = None]
      /\ kept' = [kept EXCEPT ![m] = FALSE] /\ mailed' = [mailed EXCEPT ![m] = None]
      /\ refused' = [refused EXCEPT ![m] = None]
      /\ UNCHANGED <<server, late, wait, answer, up, patFile, bounds, cutOff, confirmed, shared>>
  BY DEF Close
<1>3. /\ page' \in [Machines -> Screens] /\ who' \in [Machines -> Users \cup {None}]
      /\ kept' \in [Machines -> BOOLEAN] /\ held' \in [Machines -> BOOLEAN]
      /\ connected' \in [Machines -> BOOLEAN]
      /\ mailed' \in [Machines -> Codes \cup {None}]
      /\ refused' \in [Machines -> Codes \cup {None}]
  BY <1>1, <1>2 DEF TypeOK, Screens
<1>4. /\ page'[m] = "off" /\ ~kept'[m] /\ ~connected'[m] /\ mailed'[m] = None
      /\ refused'[m] = None
      /\ \A n \in Machines : n # m =>
           /\ page'[n] = page[n] /\ who'[n] = who[n] /\ kept'[n] = kept[n]
           /\ connected'[n] = connected[n] /\ mailed'[n] = mailed[n]
           /\ refused'[n] = refused[n]
  BY <1>1, <1>2 DEF TypeOK
<1>5. clicks \in 0..MaxClicks
  BY <1>1 DEF TypeOK
<1>6. Moves(m)
  BY <1>2, <1>3, <1>4, <1>5 DEF Moves, server, bounds
<1> QED BY <1>6 DEF Starts

-----------------------------------------------------------------------------
(***************************************************************************)
(* A handler takes its answer, or gives up.                                *)
(***************************************************************************)
Returns(m) ==
  /\ wait[m] # None /\ (answer[m] # None \/ ~connected[m])
  /\ wait' = [wait EXCEPT ![m] = None] /\ answer' = [answer EXCEPT ![m] = None]
  /\ page'[m] \in {"login", "dashboard", "newPassword"}
  /\ page'[m] # "login" => who'[m] # None
  /\ kept'[m] => /\ kept[m] /\ page'[m] = "dashboard" /\ who'[m] = who[m]
                 /\ ~Asks(m, "Logout")
  /\ patFile'[m] = patFile[m] \/ (patFile'[m] = None /\ Asks(m, "Logout"))
  /\ cutOff' = cutOff \/ (Asks(m, "Logout") /\ cutOff' = cutOff \cup {patFile[m]})
  /\ Asks(m, "Logout") /\ answer[m] = None => patFile[m] \in cutOff'
  /\ mailed'[m] \in {mailed[m], None}
  /\ Asks(m, "Validate") =>
       ~connected[m] \/ mailed'[m] = None \/ wait[m].code \in shared
  /\ refused'[m] \in {refused[m], None} \cup shared
  /\ confirmed' \subseteq confirmed \cup numerar
  /\ \A n \in Machines : n # m =>
       /\ page'[n] = page[n] /\ who'[n] = who[n] /\ patFile'[n] = patFile[n]
       /\ kept'[n] = kept[n] /\ mailed'[n] = mailed[n] /\ refused'[n] = refused[n]
  /\ page' \in [Machines -> Screens] /\ who' \in [Machines -> Users \cup {None}]
  /\ patFile' \in [Machines -> PATs \cup {None}] /\ kept' \in [Machines -> BOOLEAN]
  /\ held' \in [Machines -> BOOLEAN] /\ mailed' \in [Machines -> Codes \cup {None}]
  /\ refused' \in [Machines -> Codes \cup {None}]
  /\ serverUp' = serverUp /\ users' = users /\ numerar' = numerar /\ sessions' = sessions
  /\ codes' = codes /\ job' = job /\ up' = up /\ late' = late /\ connected' = connected
  /\ pats' = pats /\ clicks' = clicks /\ faults' = faults /\ shared' = shared

LEMMA ReturnsFlat ==
  ASSUME NEW m \in Machines, IInv, Returns(m)
  PROVE  /\ TypeOK /\ Fits(m) /\ JobFits /\ Tokens
         /\ wait'[m] = None /\ answer'[m] = None
         /\ \A n \in Machines : n # m => wait'[n] = wait[n] /\ answer'[n] = answer[n]
         /\ ~Awaits(m) /\ Len(up[m]) = late[m]
         /\ Asks(m, "Logout") => /\ wait[m].pat = patFile[m] /\ patFile[m] \in PATs
                                 /\ patFile[m] # None
<1>1. TypeOK /\ Fits(m) /\ JobFits /\ Tokens
  BY DEF IInv
<1>2. /\ wait'[m] = None /\ answer'[m] = None
      /\ \A n \in Machines : n # m => wait'[n] = wait[n] /\ answer'[n] = answer[n]
  BY <1>1 DEF Returns, TypeOK
<1>3. ~Awaits(m)
  BY DEF Returns, Awaits
<1>4. Len(up[m]) = late[m]
  BY <1>1, <1>3 DEF Fits, QueueFits
<1>5. ASSUME Asks(m, "Logout")
      PROVE  wait[m].pat = patFile[m] /\ patFile[m] \in PATs /\ patFile[m] # None
  <2>1. wait[m] \in Requests
    BY <1>1, <1>5 DEF TypeOK, Asks
  <2>2. wait[m].pat \in PATs
    BY <2>1, <1>5, Shapes DEF Asks
  <2>3. wait[m].pat = patFile[m]
    BY <1>1, <1>5 DEF Fits, PageFits
  <2>4. None \notin PATs
    BY NoneAssumption DEF PATs
  <2> QED BY <2>2, <2>3, <2>4
<1> QED BY <1>1, <1>2, <1>3, <1>4, <1>5

LEMMA ReturnsFits ==
  ASSUME NEW m \in Machines, IInv, Returns(m)
  PROVE  Fits(m)'
<1>1. TypeOK /\ Fits(m) /\ Tokens /\ wait'[m] = None /\ answer'[m] = None
      /\ Len(up[m]) = late[m]
  BY ReturnsFlat
<1>2. /\ up' = up /\ late' = late /\ users' = users /\ sessions' = sessions /\ pats' = pats
      /\ connected' = connected
  BY DEF Returns
<1>3. PageFits(m)'
  <2>1. page'[m] \in {"login", "dashboard", "newPassword"}
        /\ (page'[m] # "login" => who'[m] # None)
    BY DEF Returns
  <2>2. kept'[m] => page'[m] = "dashboard" /\ patFile'[m] # None
    BY <1>1 DEF Returns, Fits, PageFits
  <2> QED BY <1>1, <2>1, <2>2 DEF PageFits, Asks
<1>4. QueueFits(m)'
  BY <1>1, <1>2 DEF QueueFits, Awaits
<1>5. AnswerHolds(m)' /\ RowGone(m)'
  BY <1>1 DEF AnswerHolds, RowGone, Asks
<1>6. TokenFits(m)'
  <2>1. patFile'[m] # None => patFile'[m] <= pats
    BY <1>1 DEF Returns, Fits, TokenFits
  <2>2. kept'[m] => patFile'[m] \notin cutOff'
    BY <1>1 DEF Returns, Fits, TokenFits
  <2>3. ASSUME NEW k \in Under(m), up[m][k].op = "RememberMe"
        PROVE  /\ up[m][k].of \in users
               /\ up[m][k].pat \in cutOff' \/ up[m][k].pat = patFile'[m]
    <3>1. up[m][k].of \in users /\ (up[m][k].pat \in cutOff \/ up[m][k].pat = patFile[m])
      BY <1>1, <2>3 DEF Fits, TokenFits
    <3>2. cutOff \subseteq cutOff'
      BY DEF Returns
    <3>3. CASE patFile'[m] = patFile[m]
      BY <3>1, <3>2, <3>3
    <3>4. CASE Asks(m, "Logout") /\ answer[m] = None
      BY <3>1, <3>2, <3>4 DEF Returns
    <3>5. CASE Asks(m, "Logout") /\ answer[m] # None
      BY <1>1, <2>3, <3>1, <3>2, <3>5 DEF Fits, RowGone
    <3> QED BY <3>3, <3>4, <3>5 DEF Returns
  <2>4. ASSUME NEW k \in Under(m), up[m][k].op = "Logout"
        PROVE  up[m][k].pat \in cutOff'
    <3>1. \/ up[m][k].pat \in cutOff
          \/ wait[m] = up[m][k] /\ answer[m] = None
      BY <1>1, <2>4 DEF Fits, TokenFits
    <3>2. CASE up[m][k].pat \in cutOff
      BY <3>2 DEF Returns
    <3>3. CASE wait[m] = up[m][k] /\ answer[m] = None
      <4>1. Asks(m, "Logout")
        BY <2>4, <3>3 DEF Asks, Returns
      <4>2. up[m][k].pat = patFile[m]
        BY <3>3, <4>1, ReturnsFlat
      <4> QED BY <3>3, <4>1, <4>2 DEF Returns
    <3> QED BY <3>1, <3>2, <3>3
  <2> QED BY <1>2, <2>1, <2>2, <2>3, <2>4 DEF TokenFits, Under
<1>7. RowThere(m)'
  <2> SUFFICES ASSUME kept'[m], connected'[m]
               PROVE  <<who'[m], patFile'[m]>> \in sessions'
    BY DEF RowThere
  <2>1. kept[m] /\ connected[m] /\ ~Asks(m, "Logout") /\ who'[m] = who[m]
        /\ patFile'[m] = patFile[m]
    BY <1>2 DEF Returns
  <2>2. late[m] # late[m] + 2
    BY <1>1 DEF TypeOK
  <2> QED BY <1>1, <1>2, <2>1, <2>2 DEF Fits, RowThere
<1> QED BY <1>3, <1>4, <1>5, <1>6, <1>7 DEF Fits

LEMMA ReturnsOthersFit ==
  ASSUME NEW m \in Machines, IInv, Returns(m), NEW n \in Machines, n # m
  PROVE  Fits(n)'
<1>1. TypeOK /\ Fits(n) /\ Tokens
  BY DEF IInv
<1>2. /\ wait'[n] = wait[n] /\ answer'[n] = answer[n]
      /\ Asks(m, "Logout") => patFile[m] # None
  BY ReturnsFlat
<1>3. Same(n)
  BY <1>2 DEF Same, Registering, Returns
<1>4. Grows
  <2>1. pats \in Nat
    BY <1>1 DEF TypeOK
  <2>2. cutOff \subseteq cutOff'
    BY DEF Returns
  <2> QED BY <2>1, <2>2 DEF Returns, Grows
<1>5. RowsStand(n)
  <2>1. kept[n] => patFile[n] \notin cutOff /\ patFile[n] # None
    BY <1>1 DEF Fits, TokenFits, PageFits
  <2>2. Asks(m, "Logout") => patFile[n] # patFile[m]
    BY <1>1, <1>2 DEF Tokens
  <2>3. sessions' = sessions
    BY DEF Returns
  <2> QED BY <2>1, <2>2, <2>3 DEF RowsStand, Returns
<1> QED BY <1>1, <1>3, <1>4, <1>5, OthersFit

LEMMA ReturnsOwners ==
  ASSUME NEW m \in Machines, IInv, Returns(m)
  PROVE  Owners'
<1>1. TypeOK /\ Fits(m) /\ wait'[m] = None
      /\ \A n \in Machines : n # m => wait'[n] = wait[n]
  BY ReturnsFlat
<1>2. /\ up' = up /\ codes' = codes /\ shared' = shared /\ connected' = connected
  BY DEF Returns
<1>3. PICK by \in [Machines -> Nat] : \A n \in Machines : by[n] = 0
  <2>1. [n \in Machines |-> 0] \in [Machines -> Nat]
    OBVIOUS
  <2> QED BY <2>1
<1>4. ASSUME NEW c \in Codes \ shared', NEW n \in Machines
      PROVE  /\ MayType(n, c)' => MayType(n, c)
             /\ \A k \in Under(n)' : Validates(n, k, c)' =>
                  k + by[n] \in Under(n) /\ Validates(n, k + by[n], c)
  <2>1. \A k \in Under(n)' : k + by[n] = k
    BY <1>3 DEF Under
  <2>2. \A k \in Under(n)' : Validates(n, k, c)' =>
          k + by[n] \in Under(n) /\ Validates(n, k + by[n], c)
    BY <1>2, <2>1 DEF Under, Validates
  <2>3. MayType(n, c)' => MayType(n, c)
    <3>1. CASE n # m
      BY <1>1, <1>2, <3>1 DEF Returns, MayType, Asks
    <3>2. CASE n = m
      <4> SUFFICES ASSUME MayType(m, c)' PROVE MayType(m, c)
        BY <3>2
      <4>1. c # None
        BY NoneAssumption
      <4>2. mailed[m] = c /\ mailed'[m] = c /\ connected[m]
        BY <1>2, <4>1 DEF MayType, Returns
      <4>3. ~(Asks(m, "Validate") /\ wait[m].code = c)
        BY <1>2, <4>1, <4>2 DEF Returns
      <4> QED BY <4>2, <4>3 DEF MayType
    <3> QED BY <3>1, <3>2
  <2> QED BY <2>2, <2>3
<1>5. \A n \in Machines : up'[n] \in Seq(Requests)
  BY <1>1, <1>2 DEF TypeOK
<1> QED BY <1>2, <1>4, <1>5, OwnersStand DEF IInv

LEMMA ReturnsKeeps ==
  ASSUME NEW m \in Machines, IInv, Returns(m)
  PROVE  IInv'
<1>1. /\ TypeOK /\ Fits(m) /\ JobFits /\ Tokens /\ wait'[m] = None /\ answer'[m] = None
      /\ \A n \in Machines : n # m => wait'[n] = wait[n] /\ answer'[n] = answer[n]
      /\ Asks(m, "Logout") => patFile[m] \in PATs /\ patFile[m] # None
  BY ReturnsFlat
<1>2. /\ serverUp' = serverUp /\ users' = users /\ numerar' = numerar
      /\ sessions' = sessions /\ codes' = codes /\ job' = job /\ up' = up /\ late' = late
      /\ connected' = connected /\ pats' = pats /\ clicks' = clicks /\ faults' = faults
      /\ shared' = shared
  BY DEF Returns
<1>3. \A n \in Machines : Fits(n)'
  BY ReturnsFits, ReturnsOthersFit
<1>4. JobFits'
  <2>1. job # None => job[1] \in Machines \cup {None}
    BY <1>1, JobIs
  <2>2. job # None /\ job[1] # None => answer[job[1]] = None /\ connected[job[1]]
    BY <1>1, JobIs
  <2>3. answer[m] # None \/ ~connected[m]
    BY DEF Returns
  <2>4. job # None /\ job[1] # None => job[1] # m
    BY <2>2, <2>3
  <2> QED BY <1>1, <1>2, <2>1, <2>4 DEF JobFits
<1>5. Tokens'
  <2>1. pats \in Nat /\ (patFile[m] # None => patFile[m] <= pats)
    BY <1>1 DEF TypeOK, Fits, TokenFits
  <2>2. Asks(m, "Logout") => patFile[m] \in 1..pats
    BY <1>1, <2>1 DEF PATs
  <2>3. cutOff' \subseteq 1..pats
    BY <1>1, <2>2 DEF Returns, Tokens
  <2>4. \A n \in Machines : patFile'[n] \in {patFile[n], None}
    BY DEF Returns
  <2> QED BY <1>1, <1>2, <2>3, <2>4 DEF Tokens
<1>6. NoOrphans'
  <2> SUFFICES ASSUME NEW s \in sessions
               PROVE  s[2] \in cutOff' \/ \E n \in Machines : patFile'[n] = s[2]
    BY <1>2 DEF NoOrphans
  <2>1. cutOff \subseteq cutOff'
    BY DEF Returns
  <2>2. CASE s[2] \in cutOff
    BY <2>1, <2>2
  <2>3. CASE s[2] \notin cutOff
    <3>1. PICK n \in Machines : patFile[n] = s[2]
      BY <2>3 DEF NoOrphans, IInv
    <3>2. CASE n # m \/ patFile'[m] = patFile[m]
      BY <3>1, <3>2 DEF Returns
    <3>3. CASE n = m /\ Asks(m, "Logout") /\ answer[m] = None
      BY <3>1, <3>3 DEF Returns
    <3>4. CASE n = m /\ Asks(m, "Logout") /\ answer[m] # None
      BY <1>1, <2>3, <3>1, <3>4 DEF Fits, RowGone
    <3> QED BY <3>2, <3>3, <3>4 DEF Returns
  <2> QED BY <2>2, <2>3
<1>7. SuccessIsComplete'
  <2>1. numerar \subseteq users
    BY <1>1 DEF TypeOK
  <2>2. confirmed' \subseteq confirmed \cup numerar
    BY DEF Returns
  <2> QED BY <1>2, <2>1, <2>2 DEF SuccessIsComplete, IInv
<1>8. MailedCodeWorks'
  <2>1. \A n \in Machines : refused'[n] \in {refused[n], None} \cup shared
    BY DEF Returns
  <2> QED BY <1>2, <2>1 DEF MailedCodeWorks, IInv
<1>9. TypeOK'
  <2>1. /\ page' \in [Machines -> Screens] /\ who' \in [Machines -> Users \cup {None}]
        /\ patFile' \in [Machines -> PATs \cup {None}] /\ kept' \in [Machines -> BOOLEAN]
        /\ held' \in [Machines -> BOOLEAN] /\ mailed' \in [Machines -> Codes \cup {None}]
        /\ refused' \in [Machines -> Codes \cup {None}]
    BY DEF Returns
  <2>2. /\ wait' \in [Machines -> Requests \cup {None}]
        /\ answer' \in [Machines -> {None, "success", "failure"} \cup Users]
    BY <1>1 DEF Returns, TypeOK
  <2>3. cutOff' \subseteq PATs
    BY <1>1 DEF Returns, TypeOK
  <2>4. confirmed' \subseteq Users
    BY <1>1 DEF Returns, TypeOK
  <2> QED BY <1>1, <1>2, <2>1, <2>2, <2>3, <2>4 DEF TypeOK, Screens
<1> QED BY <1>3, <1>4, <1>5, <1>6, <1>7, <1>8, <1>9, ReturnsOwners DEF IInv

LEMMA Answering ==
  ASSUME NEW m \in Machines, NEW op, Answered(m, op)
  PROVE  wait[m] # None /\ wait[m].op = op /\ answer[m] # None /\ Asks(m, op)
BY DEF Answered, Asks

\* What a client shows when it returns, and what it had is what it has.
LEMMA Shown ==
  ASSUME NEW m \in Machines, IInv
  PROVE  /\ page \in [Machines -> Screens] /\ who \in [Machines -> Users \cup {None}]
         /\ patFile \in [Machines -> PATs \cup {None}] /\ kept \in [Machines -> BOOLEAN]
         /\ held \in [Machines -> BOOLEAN] /\ mailed \in [Machines -> Codes \cup {None}]
         /\ refused \in [Machines -> Codes \cup {None}]
         /\ wait[m] \in Requests \cup {None}
         /\ page[m] \in {"newPassword", "dashboard"} => who[m] # None
         /\ Asks(m, "Load") => page[m] = "dashboard"
         /\ Asks(m, "Logout") => page[m] = "dashboard" /\ wait[m].pat = patFile[m]
         /\ Asks(m, "LoginRemembered") => page[m] = "start"
         /\ Asks(m, "UpdatePassword") => page[m] = "newPassword"
         /\ \A op \in {"Register", "Login", "Forgot", "Validate"} :
              Asks(m, op) => page[m] = "login"
         /\ Asks(m, "Validate") => who[m] # None
         /\ kept[m] => page[m] = "dashboard"
         /\ None \notin Users /\ None \notin Codes
<1>1. TypeOK /\ Fits(m)
  BY DEF IInv
<1>2. /\ page \in [Machines -> Screens] /\ who \in [Machines -> Users \cup {None}]
      /\ patFile \in [Machines -> PATs \cup {None}] /\ kept \in [Machines -> BOOLEAN]
      /\ held \in [Machines -> BOOLEAN] /\ mailed \in [Machines -> Codes \cup {None}]
      /\ refused \in [Machines -> Codes \cup {None}]
      /\ wait[m] \in Requests \cup {None}
  BY <1>1 DEF TypeOK, Screens
<1>3. None \notin Users /\ None \notin Codes
  BY NoneAssumption
<1> QED BY <1>1, <1>2, <1>3 DEF Fits, PageFits

LEMMA RememberedReturns ==
  ASSUME NEW m \in Machines, IInv, Remembered(m)
  PROVE  Returns(m)
<1>1. /\ wait[m] # None /\ answer[m] # None /\ Asks(m, "LoginRemembered")
      /\ wait[m].op = "LoginRemembered"
  BY Answering DEF Remembered
<1>2. /\ ~Asks(m, "Logout") /\ ~Asks(m, "Validate") /\ ~kept[m]
  BY <1>1, Shown DEF Asks
<1>3. /\ wait' = [wait EXCEPT ![m] = None] /\ answer' = [answer EXCEPT ![m] = None]
      /\ UNCHANGED <<server, late, up, connected, patFile, held, bounds, ghosts>>
  BY DEF Remembered, Return
<1>4. PICK p \in {"dashboard", "login"}, u \in Users \cup {None} :
        GoTo(m, p, u) /\ (p = "dashboard" => u # None)
  BY Shown DEF Remembered
<1>5. /\ page'[m] = p /\ who'[m] = u
      /\ \A n \in Machines : n # m => page'[n] = page[n] /\ who'[n] = who[n]
      /\ page' \in [Machines -> Screens] /\ who' \in [Machines -> Users \cup {None}]
  BY <1>4, Shown DEF GoTo, Screens
<1> QED BY <1>1, <1>2, <1>3, <1>4, <1>5, Shown DEF Returns, server, bounds, ghosts

LEMMA LoadedReturns ==
  ASSUME NEW m \in Machines, IInv, Loaded(m)
  PROVE  Returns(m)
<1>1. wait[m] # None /\ answer[m] # None /\ Asks(m, "Load") /\ wait[m].op = "Load"
  BY Answering DEF Loaded
<1>2. ~Asks(m, "Logout") /\ ~Asks(m, "Validate")
  BY <1>1 DEF Asks
<1>3. /\ wait' = [wait EXCEPT ![m] = None] /\ answer' = [answer EXCEPT ![m] = None]
      /\ UNCHANGED <<server, late, page, who, up, connected, patFile, held, bounds, ghosts>>
  BY DEF Loaded, Return
<1>4. page[m] = "dashboard" /\ who[m] # None
  BY <1>1, Shown
<1> QED BY <1>1, <1>2, <1>3, <1>4, Shown DEF Returns, server, bounds, ghosts

LEMMA Forgetting ==
  ASSUME NEW m \in Machines, IInv, Forgets(m)
  PROVE  /\ page'[m] = "login" /\ patFile'[m] \in {patFile[m], None} /\ ~kept'[m]
         /\ \A n \in Machines : n # m =>
              /\ page'[n] = page[n] /\ who'[n] = who[n] /\ patFile'[n] = patFile[n]
              /\ kept'[n] = kept[n]
         /\ page' \in [Machines -> Screens] /\ who' \in [Machines -> Users \cup {None}]
         /\ patFile' \in [Machines -> PATs \cup {None}] /\ kept' \in [Machines -> BOOLEAN]
BY Shown DEF Forgets, GoTo, Screens

LEMMA LoggedOutReturns ==
  ASSUME NEW m \in Machines, IInv, LoggedOut(m)
  PROVE  Returns(m)
<1>1. wait[m] # None /\ answer[m] # None /\ Asks(m, "Logout") /\ wait[m].op = "Logout"
  BY Answering DEF LoggedOut
<1>2. ~Asks(m, "Validate")
  BY <1>1 DEF Asks
<1>3. /\ wait' = [wait EXCEPT ![m] = None] /\ answer' = [answer EXCEPT ![m] = None]
      /\ UNCHANGED <<server, late, up, connected, held, bounds, cutOff, confirmed, mailed,
                     shared, refused>>
  BY DEF LoggedOut, Return
<1>4. /\ page'[m] = "login" /\ patFile'[m] \in {patFile[m], None} /\ ~kept'[m]
      /\ \A n \in Machines : n # m =>
           /\ page'[n] = page[n] /\ who'[n] = who[n] /\ patFile'[n] = patFile[n]
           /\ kept'[n] = kept[n]
      /\ page' \in [Machines -> Screens] /\ who' \in [Machines -> Users \cup {None}]
      /\ patFile' \in [Machines -> PATs \cup {None}] /\ kept' \in [Machines -> BOOLEAN]
  BY Forgetting DEF LoggedOut
<1> QED BY <1>1, <1>2, <1>3, <1>4, Shown DEF Returns, server, bounds

LEMMA ToldReturns ==
  ASSUME NEW m \in Machines, IInv, Told(m)
  PROVE  Returns(m)
<1>1. PICK op \in {"Register", "Login", "Forgot", "Validate", "UpdatePassword"} :
        Answered(m, op) /\ (op = "Login" => answer[m] = "failure")
  BY DEF Told
<1>2. wait[m] # None /\ answer[m] # None /\ Asks(m, op) /\ wait[m].op = op
      /\ wait[m] \in Requests
  BY <1>1, Answering, Shown
<1>3. ~Asks(m, "Logout") /\ ~kept[m]
  BY <1>2, Shown DEF Asks
<1>4. /\ wait' = [wait EXCEPT ![m] = None] /\ answer' = [answer EXCEPT ![m] = None]
      /\ UNCHANGED <<server, late, up, connected, patFile, held, bounds, kept, cutOff, shared>>
  BY DEF Told, Return
<1> DEFINE ok == answer[m] = "success"
<1>5. /\ CASE op = "Validate" /\ ok       -> GoTo(m, "newPassword", who[m])
           [] op = "UpdatePassword" /\ ok -> GoTo(m, "login", who[m])
           [] op = "Forgot" /\ ok         -> GoTo(m, "login", wait[m].of)
           [] OTHER                       -> UNCHANGED <<page, who>>
      /\ confirmed' = IF op = "Register" /\ ok THEN confirmed \cup {wait[m].of}
                                               ELSE confirmed
      /\ mailed' = IF op = "Validate" /\ ok THEN [mailed EXCEPT ![m] = None] ELSE mailed
      /\ refused' = IF op = "Validate" /\ ~ok
                      THEN [refused EXCEPT ![m] = wait[m].code] ELSE refused
  BY <1>2 DEF Told
<1>6. PICK p \in {"login", "newPassword"}, u \in Users \cup {None} :
        GoTo(m, p, u) /\ (p = "newPassword" => u # None)
  <2>1. page[m] \in {"login", "newPassword"} /\ who[m] \in Users \cup {None}
        /\ (page[m] = "newPassword" => who[m] # None)
    BY <1>2, Shown
  <2>2. UNCHANGED <<page, who>> => GoTo(m, page[m], who[m])
    BY Shown DEF GoTo
  <2>3. op \in {"Validate"} => who[m] # None
    BY <1>2, Shown
  <2>4. op = "Forgot" => wait[m].of \in Users
    BY <1>2, Shapes
  <2>5. CASE op = "Validate" /\ ok
    BY <1>5, <2>1, <2>3, <2>5
  <2>6. CASE op = "UpdatePassword" /\ ok
    BY <1>5, <2>1, <2>6
  <2>7. CASE op = "Forgot" /\ ok
    BY <1>5, <2>4, <2>7
  <2>8. CASE ~(op \in {"Validate", "UpdatePassword", "Forgot"} /\ ok)
    <3>1. UNCHANGED <<page, who>>
      BY <1>5, <2>8
    <3> QED BY <2>1, <2>2, <3>1
  <2> QED BY <2>5, <2>6, <2>7, <2>8
<1>7. /\ page'[m] = p /\ who'[m] = u
      /\ \A n \in Machines : n # m => page'[n] = page[n] /\ who'[n] = who[n]
      /\ page' \in [Machines -> Screens] /\ who' \in [Machines -> Users \cup {None}]
  BY <1>6, Shown DEF GoTo, Screens
<1>8. confirmed' \subseteq confirmed \cup numerar
  <2>1. op = "Register" /\ ok => wait[m].of \in numerar
    BY <1>2 DEF IInv, Fits, AnswerHolds
  <2> QED BY <1>5, <2>1
<1>9. op = "Validate" /\ ~ok => wait[m].code \in shared /\ wait[m].code \in Codes
  <2>1. op = "Validate" => wait[m].code \in Codes
    BY <1>2, Shapes
  <2>2. op = "Validate" /\ ~ok => wait[m].code \in shared
    BY <1>2 DEF IInv, Fits, AnswerHolds
  <2> QED BY <2>1, <2>2
<1>10. /\ mailed' \in [Machines -> Codes \cup {None}] /\ mailed'[m] \in {mailed[m], None}
       /\ \A n \in Machines : n # m => mailed'[n] = mailed[n]
       /\ op = "Validate" /\ ok => mailed'[m] = None
  BY <1>5, Shown
<1>11. /\ refused' \in [Machines -> Codes \cup {None}]
       /\ refused'[m] \in {refused[m], None} \cup shared
       /\ \A n \in Machines : n # m => refused'[n] = refused[n]
  BY <1>5, <1>9, Shown
<1>12. Asks(m, "Validate") =>
         ~connected[m] \/ mailed'[m] = None \/ wait[m].code \in shared
  BY <1>2, <1>9, <1>10 DEF Asks
<1> QED BY <1>2, <1>3, <1>4, <1>6, <1>7, <1>8, <1>10, <1>11, <1>12, Shown
        DEF Returns, server, bounds

LEMMA GivesUpReturns ==
  ASSUME NEW m \in Machines, IInv, GivesUp(m)
  PROVE  Returns(m)
<1>1. wait[m] # None /\ ~connected[m] /\ wait[m] \in Requests
  BY Shown DEF GivesUp
<1>2. /\ wait' = [wait EXCEPT ![m] = None] /\ answer' = [answer EXCEPT ![m] = None]
      /\ held' = [held EXCEPT ![m] = @ \/ wait[m].op = "LoginRemembered"]
      /\ cutOff' = IF wait[m].op = "Logout" THEN cutOff \cup {wait[m].pat} ELSE cutOff
      /\ UNCHANGED <<server, late, up, connected, bounds, confirmed, mailed, shared, refused>>
  BY DEF GivesUp, Return
<1>3. held' \in [Machines -> BOOLEAN]
  BY <1>2, Shown
<1>4. CASE wait[m].op = "Logout"
  <2>1. Asks(m, "Logout") /\ cutOff' = cutOff \cup {patFile[m]}
    BY <1>1, <1>2, <1>4, Shown DEF Asks
  <2>2. Forgets(m)
    BY <1>4 DEF GivesUp
  <2>3. /\ page'[m] = "login" /\ patFile'[m] \in {patFile[m], None} /\ ~kept'[m]
        /\ \A n \in Machines : n # m =>
             /\ page'[n] = page[n] /\ who'[n] = who[n] /\ patFile'[n] = patFile[n]
             /\ kept'[n] = kept[n]
        /\ page' \in [Machines -> Screens] /\ who' \in [Machines -> Users \cup {None}]
        /\ patFile' \in [Machines -> PATs \cup {None}] /\ kept' \in [Machines -> BOOLEAN]
    BY <2>2, Forgetting
  <2> QED BY <1>1, <1>2, <1>3, <2>1, <2>3, Shown DEF Returns, server, bounds
<1>5. CASE wait[m].op = "LoginRemembered"
  <2>1. GoTo(m, "login", None) /\ patFile' = patFile /\ kept' = kept
    BY <1>5 DEF GivesUp
  <2>2. /\ page'[m] = "login"
        /\ \A n \in Machines : n # m => page'[n] = page[n] /\ who'[n] = who[n]
        /\ page' \in [Machines -> Screens] /\ who' \in [Machines -> Users \cup {None}]
    BY <2>1, Shown DEF GoTo, Screens
  <2>3. ~kept[m] /\ ~Asks(m, "Logout") /\ cutOff' = cutOff
    BY <1>1, <1>2, <1>5, Shown DEF Asks
  <2> QED BY <1>1, <1>2, <1>3, <2>1, <2>2, <2>3, Shown DEF Returns, server, bounds
<1>6. CASE wait[m].op \notin {"Logout", "LoginRemembered"}
  <2>1. page' = page /\ who' = who /\ patFile' = patFile /\ kept' = kept
    BY <1>6 DEF GivesUp
  <2>2. page[m] \in {"login", "newPassword", "dashboard"}
    <3>1. /\ wait[m].op \in {"Register", "Login", "Forgot", "UpdatePassword", "Load",
                             "RememberMe", "Validate"}
          /\ ~Asks(m, "RememberMe")
      BY <1>1, <1>6, Shapes DEF IInv, Fits, PageFits
    <3> QED BY <1>1, <3>1, Shown DEF Asks
  <2>3. ~Asks(m, "Logout") /\ cutOff' = cutOff
    BY <1>2, <1>6 DEF Asks
  <2> QED BY <1>1, <1>2, <1>3, <2>1, <2>2, <2>3, Shown DEF Returns, server, bounds
<1> QED BY <1>4, <1>5, <1>6

-----------------------------------------------------------------------------
(***************************************************************************)
(* A login opens the dashboard.                                            *)
(***************************************************************************)
LEMMA SendingTwo ==
  ASSUME NEW S, NEW s \in Seq(S), NEW a \in S, NEW b \in S
  PROVE  /\ s \o <<a>> \o <<b>> = Append(Append(s, a), b)
         /\ s \o <<>> \o <<b>> = Append(s, b)
<1>1. Append(s, a) \in Seq(S)
  BY AppendProperties
<1> QED BY <1>1, AppendIsConcat, ConcatEmptySeq

\* What a login changes: it is kept, with a new token in PAT.txt, or is not.
Opens(m, u, token) ==
  /\ Asks(m, "Login") /\ answer[m] # None /\ u \in users
  /\ token \in {None, pats + 1} /\ (token # None => patFile[m] = None)
  /\ answer' = [answer EXCEPT ![m] = None]
  /\ page' = [page EXCEPT ![m] = "dashboard"] /\ who' = [who EXCEPT ![m] = u]
  /\ wait' = [wait EXCEPT ![m] = [op |-> "Load", of |-> u]]
  /\ patFile' = [patFile EXCEPT ![m] = IF token # None THEN token ELSE @]
  /\ pats' = IF token # None THEN pats + 1 ELSE pats
  /\ kept' = [kept EXCEPT ![m] = token # None]
  /\ up' \in [Machines -> Seq(Requests)] /\ held' \in [Machines -> BOOLEAN]
  /\ pats' \in 0..MaxPat
  /\ \A n \in Machines : n # m \/ ~connected[m] => up'[n] = up[n]
  /\ connected[m] =>
       /\ Len(up'[m]) = Len(up[m]) + (IF token # None THEN 2 ELSE 1)
       /\ up'[m][Len(up'[m])] = [op |-> "Load", of |-> u]
       /\ token # None =>
            up'[m][Len(up[m]) + 1] = [op |-> "RememberMe", of |-> u, pat |-> token]
       /\ \A k \in Under(m) : up'[m][k] = up[m][k]
  /\ serverUp' = serverUp /\ users' = users /\ numerar' = numerar /\ sessions' = sessions
  /\ codes' = codes /\ job' = job /\ late' = late /\ connected' = connected
  /\ clicks' = clicks /\ faults' = faults /\ cutOff' = cutOff /\ confirmed' = confirmed
  /\ mailed' = mailed /\ shared' = shared /\ refused' = refused

LEMMA LoggedInOpens ==
  ASSUME NEW m \in Machines, NEW keep \in BOOLEAN, IInv, LoggedIn(m, keep)
  PROVE  \E u \in Users, token \in PATs \cup {None} : Opens(m, u, token)
<1> DEFINE u == wait[m].of
           load == [op |-> "Load", of |-> u]
           remember == [op |-> "RememberMe", of |-> u, pat |-> pats + 1]
           writes == keep /\ patFile[m] = None
           token == IF writes THEN pats + 1 ELSE None
<1>1. TypeOK /\ Fits(m)
  BY DEF IInv
<1>2. /\ Answered(m, "Login") /\ answer[m] = "success"
      /\ writes => pats < MaxPat
      /\ answer' = [answer EXCEPT ![m] = None]
      /\ GoTo(m, "dashboard", u)
      /\ wait' = [wait EXCEPT ![m] = load]
      /\ up' = [up EXCEPT ![m] = IF ~connected[m] THEN @
                                 ELSE @ \o (IF writes THEN <<remember>> ELSE <<>>)
                                        \o <<load>>]
      /\ patFile' = [patFile EXCEPT ![m] = IF writes THEN pats + 1 ELSE @]
      /\ pats' = IF writes THEN pats + 1 ELSE pats
      /\ held' = [held EXCEPT ![m] = @ \/ (keep /\ ~writes)]
      /\ kept' = [kept EXCEPT ![m] = writes]
      /\ UNCHANGED <<server, late, connected, clicks, faults, cutOff, confirmed, mailed,
                     shared, refused>>
  BY DEF LoggedIn
<1>3. Asks(m, "Login") /\ answer[m] # None /\ wait[m] \in Requests
  BY <1>2, Answering, Shown
<1>4. u \in users /\ u \in Users
  BY <1>1, <1>2, <1>3, Shapes DEF Fits, AnswerHolds, Asks
<1>5. pats \in 0..MaxPat /\ MaxPat \in Nat
  BY <1>1, BoundsAssumption DEF TypeOK
<1>6. writes => pats + 1 \in PATs
  BY <1>2, <1>5 DEF PATs
<1>7. None # pats + 1
  BY <1>5, NoneAssumption
<1>8. load \in Requests /\ (writes => remember \in Requests)
  BY <1>4, <1>6, Shapes
<1>9. held' \in [Machines -> BOOLEAN]
  BY <1>2, Shown
<1>10. /\ pats' = IF token # None THEN pats + 1 ELSE pats
       /\ pats' \in 0..MaxPat
       /\ token \in {None, pats + 1} /\ (token # None => patFile[m] = None)
       /\ token \in PATs \cup {None} /\ (token # None <=> writes)
  BY <1>2, <1>5, <1>6, <1>7
<1>11. up[m] \in Seq(Requests) /\ up \in [Machines -> Seq(Requests)]
  BY <1>1 DEF TypeOK
<1> DEFINE q == IF ~connected[m] THEN up[m]
                ELSE up[m] \o (IF writes THEN <<remember>> ELSE <<>>) \o <<load>>
<1>12. up' = [up EXCEPT ![m] = q]
  BY <1>2
<1>13. /\ q \in Seq(Requests)
       /\ connected[m] =>
            /\ Len(q) = Len(up[m]) + (IF token # None THEN 2 ELSE 1)
            /\ q[Len(q)] = load
            /\ token # None => q[Len(up[m]) + 1] = remember
            /\ \A k \in 1..Len(up[m]) : q[k] = up[m][k]
       /\ ~connected[m] => q = up[m]
  <2>1. CASE ~connected[m]
    BY <1>11, <2>1
  <2>2. CASE connected[m] /\ writes
    <3>1. PICK t : t = Append(up[m], remember)
      OBVIOUS
    <3>2. /\ t \in Seq(Requests) /\ Len(t) = Len(up[m]) + 1 /\ t[Len(up[m]) + 1] = remember
          /\ \A k \in 1..Len(up[m]) : t[k] = up[m][k]
      BY <1>8, <1>11, <2>2, <3>1, Appending
    <3>3. q = Append(t, load)
      <4>1. q = up[m] \o <<remember>> \o <<load>>
        BY <2>2
      <4> QED BY <1>8, <1>11, <2>2, <3>1, <4>1, SendingTwo
    <3> HIDE DEF q, remember, load
    <3>4. /\ q \in Seq(Requests) /\ Len(q) = Len(t) + 1 /\ q[Len(t) + 1] = load
          /\ \A k \in 1..Len(t) : q[k] = t[k]
      BY <1>8, <3>2, <3>3, Appending
    <3>5. Len(up[m]) \in Nat /\ (token # None <=> writes)
      BY <1>10, <1>11, LenProperties
    <3> HIDE DEF token, writes
    <3> QED BY <2>2, <3>2, <3>4, <3>5
  <2>3. CASE connected[m] /\ ~writes
    <3>1. q = up[m] \o <<>> \o <<load>>
      BY <2>3
    <3>2. q = Append(up[m], load)
      BY <1>8, <1>11, <3>1, SendingTwo
    <3> HIDE DEF q, remember, load
    <3>3. /\ q \in Seq(Requests) /\ Len(q) = Len(up[m]) + 1 /\ q[Len(up[m]) + 1] = load
          /\ \A k \in 1..Len(up[m]) : q[k] = up[m][k]
      BY <1>8, <1>11, <3>2, Appending
    <3>4. Len(up[m]) \in Nat /\ ~(token # None)
      BY <1>10, <1>11, <2>3, LenProperties
    <3> HIDE DEF token, writes
    <3> QED BY <2>3, <3>3, <3>4
  <2> QED BY <2>1, <2>2, <2>3
<1> HIDE DEF q
<1>14. /\ up' \in [Machines -> Seq(Requests)] /\ up'[m] = q
       /\ \A n \in Machines : n # m \/ ~connected[m] => up'[n] = up[n]
  BY <1>11, <1>12, <1>13
<1>15. connected[m] =>
         /\ Len(up'[m]) = Len(up[m]) + (IF token # None THEN 2 ELSE 1)
         /\ up'[m][Len(up'[m])] = load
         /\ token # None =>
              up'[m][Len(up[m]) + 1] = [op |-> "RememberMe", of |-> u, pat |-> token]
         /\ \A k \in Under(m) : up'[m][k] = up[m][k]
  BY <1>10, <1>13, <1>14 DEF Under
<1>16. /\ patFile' = [patFile EXCEPT ![m] = IF token # None THEN token ELSE @]
       /\ kept' = [kept EXCEPT ![m] = token # None]
  BY <1>2, <1>10
<1>17. /\ serverUp' = serverUp /\ users' = users /\ numerar' = numerar
       /\ sessions' = sessions /\ codes' = codes /\ job' = job /\ late' = late
       /\ connected' = connected /\ clicks' = clicks /\ faults' = faults
       /\ cutOff' = cutOff /\ confirmed' = confirmed /\ mailed' = mailed
       /\ shared' = shared /\ refused' = refused
  BY <1>2 DEF server
<1>18. /\ answer' = [answer EXCEPT ![m] = None]
       /\ page' = [page EXCEPT ![m] = "dashboard"] /\ who' = [who EXCEPT ![m] = u]
       /\ wait' = [wait EXCEPT ![m] = load]
  BY <1>2 DEF GoTo
<1> HIDE DEF token, writes, u
<1>19. Opens(m, u, token)
  BY <1>3, <1>4, <1>9, <1>10, <1>14, <1>15, <1>16, <1>17, <1>18 DEF Opens
<1> QED BY <1>4, <1>10, <1>19

LEMMA OpensFlat ==
  ASSUME NEW m \in Machines, NEW u \in Users, NEW token \in PATs \cup {None}, IInv,
         Opens(m, u, token)
  PROVE  /\ TypeOK /\ Fits(m) /\ JobFits /\ Tokens
         /\ page'[m] = "dashboard" /\ who'[m] = u /\ answer'[m] = None
         /\ wait'[m] = [op |-> "Load", of |-> u]
         /\ patFile'[m] = IF token # None THEN token ELSE patFile[m]
         /\ kept'[m] <=> token # None
         /\ \A n \in Machines : n # m =>
              /\ page'[n] = page[n] /\ who'[n] = who[n] /\ answer'[n] = answer[n]
              /\ wait'[n] = wait[n] /\ patFile'[n] = patFile[n] /\ kept'[n] = kept[n]
              /\ up'[n] = up[n]
         /\ ~connected[m] => up'[m] = up[m]
         /\ late' = late /\ connected' = connected /\ users' = users /\ sessions' = sessions
         /\ cutOff' = cutOff /\ job' = job /\ codes' = codes /\ shared' = shared
         /\ mailed' = mailed
         /\ pats \in Nat /\ pats' = (IF token # None THEN pats + 1 ELSE pats)
         /\ late[m] \in Nat /\ Len(up[m]) = late[m] /\ up[m] \in Seq(Requests)
         /\ wait[m] # None /\ wait[m].op = "Login" /\ page[m] = "login"
         /\ [op |-> "Load", of |-> u] # None /\ ~Registering(m)
<1>1. TypeOK /\ Fits(m) /\ JobFits /\ Tokens
  BY DEF IInv
<1>2. /\ page'[m] = "dashboard" /\ who'[m] = u /\ answer'[m] = None
      /\ wait'[m] = [op |-> "Load", of |-> u]
      /\ patFile'[m] = IF token # None THEN token ELSE patFile[m]
      /\ kept'[m] <=> token # None
      /\ \A n \in Machines : n # m =>
           /\ page'[n] = page[n] /\ who'[n] = who[n] /\ answer'[n] = answer[n]
           /\ wait'[n] = wait[n] /\ patFile'[n] = patFile[n] /\ kept'[n] = kept[n]
  BY <1>1 DEF Opens, TypeOK
<1>3. /\ late' = late /\ connected' = connected /\ users' = users /\ sessions' = sessions
      /\ cutOff' = cutOff /\ job' = job /\ codes' = codes /\ shared' = shared
      /\ mailed' = mailed
      /\ \A n \in Machines : n # m \/ ~connected[m] => up'[n] = up[n]
      /\ pats' = (IF token # None THEN pats + 1 ELSE pats)
      /\ Asks(m, "Login") /\ answer[m] # None
  BY DEF Opens
<1>4. pats \in Nat /\ late[m] \in Nat /\ up[m] \in Seq(Requests)
  BY <1>1 DEF TypeOK
<1>5. Len(up[m]) = late[m] /\ page[m] = "login"
  BY <1>1, <1>3 DEF Fits, QueueFits, Awaits, PageFits
<1>6. [op |-> "Load", of |-> u] # None
  BY Shapes
<1>7. ~Registering(m)
  <2>1. job # None /\ job[1] # None => answer[job[1]] = None
    BY <1>1, JobIs
  <2>2. m # None
    BY NoneAssumption
  <2> QED BY <1>3, <2>1, <2>2 DEF Registering
<1> QED BY <1>1, <1>2, <1>3, <1>4, <1>5, <1>6, <1>7 DEF Asks

LEMMA OpensFits ==
  ASSUME NEW m \in Machines, NEW u \in Users, NEW token \in PATs \cup {None}, IInv,
         Opens(m, u, token)
  PROVE  Fits(m)'
<1>1. /\ TypeOK /\ Fits(m) /\ JobFits /\ Tokens
      /\ page'[m] = "dashboard" /\ who'[m] = u /\ answer'[m] = None
      /\ wait'[m] = [op |-> "Load", of |-> u]
      /\ patFile'[m] = IF token # None THEN token ELSE patFile[m]
      /\ kept'[m] <=> token # None
      /\ ~connected[m] => up'[m] = up[m]
      /\ late' = late /\ connected' = connected /\ users' = users /\ cutOff' = cutOff
      /\ job' = job
      /\ pats \in Nat /\ pats' = (IF token # None THEN pats + 1 ELSE pats)
      /\ late[m] \in Nat /\ Len(up[m]) = late[m] /\ up[m] \in Seq(Requests)
      /\ wait[m] # None /\ wait[m].op = "Login"
      /\ [op |-> "Load", of |-> u] # None /\ ~Registering(m)
  BY OpensFlat
<1>2. /\ u \in users
      /\ token \in {None, pats + 1} /\ (token # None => patFile[m] = None)
      /\ connected[m] =>
           /\ Len(up'[m]) = Len(up[m]) + (IF token # None THEN 2 ELSE 1)
           /\ up'[m][Len(up'[m])] = [op |-> "Load", of |-> u]
           /\ token # None =>
                up'[m][Len(up[m]) + 1] = [op |-> "RememberMe", of |-> u, pat |-> token]
           /\ \A k \in Under(m) : up'[m][k] = up[m][k]
  BY DEF Opens
<1>3. u # None
  BY NoneAssumption
<1>4. PICK t : t = up'[m]
  OBVIOUS
<1>5. connected[m] =>
        /\ Len(t) = late[m] + (IF token # None THEN 2 ELSE 1)
        /\ t[Len(t)] = [op |-> "Load", of |-> u]
        /\ token # None =>
             t[late[m] + 1] = [op |-> "RememberMe", of |-> u, pat |-> token]
        /\ \A k \in 1..late[m] : t[k] = up[m][k]
  BY <1>1, <1>2, <1>4 DEF Under
<1>6. PageFits(m)'
  BY <1>1, <1>3 DEF PageFits, Asks
<1>7. QueueFits(m)'
  <2>1. Awaits(m)' <=> connected[m]
    BY <1>1 DEF Awaits, Registering
  <2>2. CASE connected[m]
    BY <1>1, <1>4, <1>5, <2>1, <2>2 DEF QueueFits
  <2>3. CASE ~connected[m]
    BY <1>1, <2>1, <2>3 DEF QueueFits
  <2> QED BY <2>2, <2>3
<1>8. AnswerHolds(m)' /\ RowGone(m)'
  BY <1>1 DEF AnswerHolds, RowGone, Asks
<1>9. TokenFits(m)'
  <2>1. patFile'[m] # None => patFile'[m] <= pats'
    <3>1. patFile[m] # None => patFile[m] <= pats /\ patFile[m] \in Nat
      BY <1>1 DEF Fits, TokenFits, TypeOK, PATs
    <3> QED BY <1>1, <1>2, <3>1
  <2>2. kept'[m] => patFile'[m] \notin cutOff
    <3>1. pats + 1 \notin cutOff
      BY <1>1 DEF Tokens
    <3> QED BY <1>1, <1>2, <3>1
  <2>3. ASSUME NEW k \in 1..late[m]
        PROVE  /\ up[m][k].op = "RememberMe" =>
                    /\ up[m][k].of \in users
                    /\ up[m][k].pat \in cutOff \/ up[m][k].pat = patFile'[m]
               /\ up[m][k].op = "Logout" => up[m][k].pat \in cutOff
    <3>1. k \in Under(m) /\ up[m][k] \in Requests
      BY <1>1, ElementOfSeq DEF Under
    <3>2. up[m][k].op = "RememberMe" => up[m][k].pat # None
      BY <3>1, Shapes, NoneAssumption DEF PATs
    <3> QED BY <1>1, <1>2, <3>1, <3>2 DEF Fits, TokenFits
  <2>4. ASSUME NEW k \in 1..Len(t)
        PROVE  /\ t[k].op = "RememberMe" =>
                    /\ t[k].of \in users
                    /\ t[k].pat \in cutOff \/ t[k].pat = patFile'[m]
               /\ t[k].op = "Logout" => t[k].pat \in cutOff
    <3>1. CASE ~connected[m]
      <4>1. t = up[m] /\ k \in 1..late[m]
        BY <1>1, <1>4, <2>4, <3>1
      <4> QED BY <2>3, <4>1
    <3>2. CASE connected[m] /\ k \in 1..late[m]
      BY <1>5, <2>3, <3>2
    <3>3. CASE connected[m] /\ k = Len(t)
      BY <1>5, <3>3
    <3>4. CASE connected[m] /\ token # None /\ k = late[m] + 1
      BY <1>1, <1>2, <1>5, <3>4
    <3>5. k \in 1..late[m] \/ k = Len(t) \/ (token # None /\ k = late[m] + 1) \/ ~connected[m]
      BY <1>1, <1>5, <2>4
    <3> QED BY <3>1, <3>2, <3>3, <3>4, <3>5
  <2> QED BY <1>1, <1>4, <2>1, <2>2, <2>4 DEF TokenFits, Under
<1>10. RowThere(m)'
  <2> SUFFICES ASSUME kept'[m], connected'[m]
               PROVE  /\ Asks(m, "Load")' /\ Len(t) = late'[m] + 2
                      /\ t[late'[m] + 1] =
                           [op |-> "RememberMe", of |-> who'[m], pat |-> patFile'[m]]
    BY <1>4 DEF RowThere
  <2>1. Asks(m, "Load")'
    BY <1>1 DEF Asks
  <2> QED BY <1>1, <1>5, <2>1
<1> QED BY <1>6, <1>7, <1>8, <1>9, <1>10 DEF Fits

LEMMA OpensOwners ==
  ASSUME NEW m \in Machines, NEW u \in Users, NEW token \in PATs \cup {None}, IInv,
         Opens(m, u, token)
  PROVE  Owners'
<1>1. /\ TypeOK /\ page'[m] = "dashboard"
      /\ wait'[m] = [op |-> "Load", of |-> u]
      /\ \A n \in Machines : n # m =>
           page'[n] = page[n] /\ wait'[n] = wait[n] /\ up'[n] = up[n]
      /\ ~connected[m] => up'[m] = up[m]
      /\ connected' = connected /\ codes' = codes /\ shared' = shared /\ mailed' = mailed
      /\ late[m] \in Nat /\ Len(up[m]) = late[m]
      /\ wait[m] # None /\ wait[m].op = "Login"
  BY OpensFlat
<1>2. /\ up' \in [Machines -> Seq(Requests)]
      /\ connected[m] =>
           /\ Len(up'[m]) = Len(up[m]) + (IF token # None THEN 2 ELSE 1)
           /\ up'[m][Len(up'[m])] = [op |-> "Load", of |-> u]
           /\ token # None =>
                up'[m][Len(up[m]) + 1] = [op |-> "RememberMe", of |-> u, pat |-> token]
           /\ \A k \in Under(m) : up'[m][k] = up[m][k]
  BY DEF Opens
<1>3. PICK by \in [Machines -> Nat] : \A n \in Machines : by[n] = 0
  <2>1. [n \in Machines |-> 0] \in [Machines -> Nat]
    OBVIOUS
  <2> QED BY <2>1
<1>4. PICK t : t = up'[m]
  OBVIOUS
<1>5. ASSUME NEW c \in Codes \ shared', NEW n \in Machines
      PROVE  /\ MayType(n, c)' => MayType(n, c)
             /\ \A k \in Under(n)' : Validates(n, k, c)' =>
                  k + by[n] \in Under(n) /\ Validates(n, k + by[n], c)
  <2>1. \A k \in Under(n)' : k + by[n] = k
    BY <1>3 DEF Under
  <2>2. MayType(n, c)' => MayType(n, c)
    BY <1>1 DEF MayType, Asks
  <2>3. ASSUME NEW k \in Under(n)', Validates(n, k, c)'
        PROVE  k \in Under(n) /\ Validates(n, k, c)
    <3>1. CASE n # m \/ ~connected[m]
      BY <1>1, <2>3, <3>1 DEF Under, Validates
    <3>2. CASE n = m /\ connected[m]
      <4>1. k \in 1..Len(t) /\ t[k].op = "Validate"
        BY <1>4, <2>3, <3>2 DEF Under, Validates
      <4>2. k # Len(t) /\ (token # None => k # late[m] + 1)
        BY <1>1, <1>2, <1>4, <3>2, <4>1
      <4>3. k \in 1..late[m]
        BY <1>1, <1>2, <1>4, <3>2, <4>1, <4>2
      <4> QED BY <1>1, <1>2, <2>3, <3>2, <4>3 DEF Under, Validates
    <3> QED BY <3>1, <3>2
  <2> QED BY <2>1, <2>2, <2>3
<1> QED BY <1>1, <1>2, <1>5, OwnersStand DEF IInv

LEMMA OpensKeeps ==
  ASSUME NEW m \in Machines, NEW u \in Users, NEW token \in PATs \cup {None}, IInv,
         Opens(m, u, token)
  PROVE  IInv'
<1>1. /\ TypeOK /\ Fits(m) /\ JobFits /\ Tokens
      /\ answer'[m] = None
      /\ patFile'[m] = IF token # None THEN token ELSE patFile[m]
      /\ \A n \in Machines : n # m =>
           /\ page'[n] = page[n] /\ who'[n] = who[n] /\ answer'[n] = answer[n]
           /\ wait'[n] = wait[n] /\ patFile'[n] = patFile[n] /\ kept'[n] = kept[n]
           /\ up'[n] = up[n]
      /\ late' = late /\ connected' = connected /\ users' = users /\ sessions' = sessions
      /\ cutOff' = cutOff /\ job' = job /\ codes' = codes /\ shared' = shared
      /\ pats \in Nat /\ pats' = (IF token # None THEN pats + 1 ELSE pats)
      /\ ~Registering(m)
  <2>0. TypeOK /\ Fits(m) /\ JobFits /\ Tokens
    BY DEF IInv
  <2>1. /\ answer'[m] = None
        /\ patFile'[m] = IF token # None THEN token ELSE patFile[m]
        /\ \A n \in Machines : n # m =>
             /\ page'[n] = page[n] /\ who'[n] = who[n] /\ answer'[n] = answer[n]
             /\ wait'[n] = wait[n] /\ patFile'[n] = patFile[n] /\ kept'[n] = kept[n]
             /\ up'[n] = up[n]
    BY <2>0 DEF Opens, TypeOK
  <2>2. late' = late /\ connected' = connected /\ users' = users /\ sessions' = sessions
    BY OpensFlat
  <2>3. cutOff' = cutOff /\ job' = job /\ codes' = codes /\ shared' = shared
    BY OpensFlat
  <2>4. pats \in Nat /\ pats' = (IF token # None THEN pats + 1 ELSE pats)
    BY <2>0 DEF Opens, TypeOK
  <2>5. ~Registering(m)
    BY OpensFlat
  <2> QED BY <2>0, <2>1, <2>2, <2>3, <2>4, <2>5
<1>2. /\ token \in {None, pats + 1} /\ (token # None => patFile[m] = None)
      /\ numerar' = numerar /\ confirmed' = confirmed /\ refused' = refused
      /\ mailed' = mailed
  BY DEF Opens
<1>3. pats' \in Nat /\ pats <= pats'
  BY <1>1
<1>4. ASSUME NEW n \in Machines PROVE Fits(n)'
  <2>1. CASE n # m
    <3>1. Same(n)
      BY <1>1, <2>1 DEF Same, Registering
    <3>2. Grows
      BY <1>1, <1>2, <1>3 DEF Grows
    <3>3. RowsStand(n)
      BY <1>1 DEF RowsStand, IInv, Fits, TokenFits
    <3> QED BY <1>1, <3>1, <3>2, <3>3, OthersFit DEF IInv
  <2>2. CASE n = m
    BY <2>2, OpensFits
  <2> QED BY <2>1, <2>2
<1>5. JobFits'
  <2>1. job # None => job[1] \in Machines \cup {None} /\ job[1] # m
    BY <1>1, JobIs DEF Registering
  <2> QED BY <1>1, <2>1 DEF JobFits
<1>6. Tokens'
  <2>1. cutOff' \subseteq 1..pats'
    BY <1>1, <1>3 DEF Tokens
  <2>2. ASSUME NEW n \in Machines, n # m, patFile'[m] # None
        PROVE  patFile'[m] # patFile'[n]
    <3>1. CASE token = None
      BY <1>1, <2>2, <3>1 DEF Tokens
    <3>2. CASE token # None
      <4>1. patFile[n] # None => patFile[n] <= pats /\ patFile[n] \in Nat
        BY <1>1 DEF IInv, Fits, TokenFits, TypeOK, PATs
      <4>2. patFile'[n] = patFile[n] /\ patFile'[m] = pats + 1
        BY <1>1, <1>2, <2>2, <3>2
      <4> QED BY <1>1, <2>2, <4>1, <4>2
    <3> QED BY <3>1, <3>2
  <2>3. \A n, a \in Machines : n # m /\ a # m /\ patFile'[n] = patFile'[a]
          /\ patFile'[n] # None => n = a
    BY <1>1 DEF Tokens
  <2> QED BY <2>1, <2>2, <2>3 DEF Tokens
<1>7. NoOrphans'
  <2> SUFFICES ASSUME NEW s \in sessions
               PROVE  s[2] \in cutOff \/ \E n \in Machines : patFile'[n] = s[2]
    BY <1>1 DEF NoOrphans
  <2>1. s[2] # None
    BY <1>1, NoneAssumption DEF TypeOK, PATs
  <2>2. s[2] \in cutOff \/ \E n \in Machines : patFile[n] = s[2]
    BY DEF NoOrphans, IInv
  <2> QED BY <1>1, <1>2, <2>1, <2>2
<1>8. SuccessIsComplete' /\ MailedCodeWorks'
  BY <1>1, <1>2 DEF SuccessIsComplete, MailedCodeWorks, IInv
<1>9. TypeOK'
  <2>1. [op |-> "Load", of |-> u] \in Requests
    BY Shapes
  <2>2. /\ page' \in [Machines -> Screens] /\ who' \in [Machines -> Users \cup {None}]
        /\ wait' \in [Machines -> Requests \cup {None}]
        /\ answer' \in [Machines -> {None, "success", "failure"} \cup Users]
        /\ patFile' \in [Machines -> PATs \cup {None}] /\ kept' \in [Machines -> BOOLEAN]
    BY <1>1, <2>1 DEF Opens, TypeOK, Screens
  <2>3. /\ up' \in [Machines -> Seq(Requests)] /\ held' \in [Machines -> BOOLEAN]
        /\ pats' \in 0..MaxPat
        /\ serverUp' = serverUp /\ clicks' = clicks /\ faults' = faults
    BY DEF Opens
  <2>4. ASSUME NEW n \in Machines PROVE late'[n] <= Len(up'[n])
    <3>1. CASE n # m
      BY <1>1, <3>1 DEF TypeOK
    <3>2. CASE n = m /\ ~connected[m]
      BY <1>1, <3>2, OpensFlat DEF TypeOK
    <3>3. CASE n = m /\ connected[m]
      <4>1. Len(up'[m]) = Len(up[m]) + (IF token # None THEN 2 ELSE 1)
        BY <3>3 DEF Opens
      <4>2. Len(up[m]) = late[m] /\ late[m] \in Nat
        BY OpensFlat
      <4>3. PICK i : i = Len(up'[m])
        OBVIOUS
      <4> QED BY <1>1, <3>3, <4>1, <4>2, <4>3
    <3> QED BY <3>1, <3>2, <3>3
  <2> QED BY <1>1, <1>2, <2>2, <2>3, <2>4 DEF TypeOK, Screens
<1> QED BY <1>4, <1>5, <1>6, <1>7, <1>8, <1>9, OpensOwners DEF IInv

-----------------------------------------------------------------------------
(***************************************************************************)
(* The server takes a request, and answers it or, with what = None, not.   *)
(***************************************************************************)
NewCode(m) ==
  \E c \in Codes : /\ codes' = codes \cup {c}
                   /\ mailed' = [mailed EXCEPT ![m] = c]
                   /\ shared' = IF c \in codes THEN shared \cup {c} ELSE shared

Serves(m, r, what) ==
  /\ serverUp /\ job = None /\ up[m] # <<>> /\ r = Head(up[m])
  /\ Taken(m)
  /\ answer' = IF late[m] = 0 /\ what # None THEN [answer EXCEPT ![m] = what] ELSE answer
  /\ what = None => r.op \in {"RememberMe", "Register"}
  /\ r.op = "RememberMe" => what = None
  /\ r.op = "Login" /\ what = "success" => r.of \in users
  /\ r.op = "Register" => what # "success"
  /\ r.op = "Validate" /\ what # "success" => r.code \notin codes
  /\ IF r.op = "Register" /\ what = None
       THEN users' = users \cup {r.of} /\ job' = <<IF late[m] = 0 THEN m ELSE None, r.of>>
       ELSE users' = users /\ job' = None
  /\ r.op = "RememberMe" => sessions' = sessions \cup {<<r.of, r.pat>>}
  /\ r.op = "Logout" => sessions' = {s \in sessions : s[2] # r.pat}
  /\ r.op \notin {"RememberMe", "Logout"} => sessions' = sessions
  /\ \/ r.op = "Forgot" /\ NewCode(m)
     \/ /\ codes' = IF r.op = "Validate" THEN codes \ {r.code} ELSE codes
        /\ mailed' = mailed /\ shared' = shared
  /\ serverUp' = serverUp /\ numerar' = numerar /\ page' = page /\ who' = who /\ wait' = wait
  /\ patFile' = patFile /\ held' = held /\ connected' = connected /\ pats' = pats
  /\ clicks' = clicks /\ faults' = faults /\ kept' = kept /\ cutOff' = cutOff
  /\ confirmed' = confirmed /\ refused' = refused

LEMMA TakenFlat ==
  ASSUME NEW m \in Machines, TypeOK, up[m] # <<>>, Taken(m)
  PROVE  /\ up' \in [Machines -> Seq(Requests)] /\ late' \in [Machines -> Nat]
         /\ up'[m] = Tail(up[m]) /\ up[m] \in Seq(Requests)
         /\ late'[m] = IF late[m] > 0 THEN late[m] - 1 ELSE 0
         /\ \A n \in Machines : n # m => up'[n] = up[n] /\ late'[n] = late[n]
<1>1. up \in [Machines -> Seq(Requests)] /\ late \in [Machines -> Nat]
  BY DEF TypeOK
<1>2. Tail(up[m]) \in Seq(Requests)
  BY <1>1, Taking
<1> QED BY <1>1, <1>2 DEF Taken

\* The request that is taken: of a lost connection, or the handler's own, or
\* RememberMe in front of it.
LEMMA ServesFlat ==
  ASSUME NEW m \in Machines, NEW r, NEW what, IInv, Serves(m, r, what)
  PROVE  /\ r \in Requests /\ r = up[m][1] /\ 1 \in Under(m)
         /\ late[m] \in Nat /\ late'[m] = (IF late[m] > 0 THEN late[m] - 1 ELSE 0)
         /\ Len(up'[m]) \in Nat /\ Len(up[m]) = Len(up'[m]) + 1
         /\ \A k \in 1..Len(up'[m]) : up'[m][k] = up[m][k + 1] /\ k + 1 \in Under(m)
         /\ late[m] = 0 => /\ connected[m] /\ wait[m] # None /\ answer[m] = None
                           /\ r.op # "RememberMe" => r = wait[m] /\ Len(up'[m]) = 0
                           /\ r.op = "RememberMe" => /\ Len(up'[m]) = 1
                                                     /\ up'[m][1] = wait[m]
                                                     /\ Asks(m, "Load")
<1>1. TypeOK /\ Fits(m) /\ Serves(m, r, what)
  BY DEF IInv
<1>2. up[m] # <<>> /\ r = Head(up[m]) /\ Taken(m)
  BY <1>1 DEF Serves
<1>3. /\ up'[m] = Tail(up[m]) /\ up[m] \in Seq(Requests)
      /\ late'[m] = IF late[m] > 0 THEN late[m] - 1 ELSE 0
  BY <1>1, <1>2, TakenFlat
<1>4. PICK t : t = up'[m]
  OBVIOUS
<1>5. /\ Len(up[m]) = Len(t) + 1 /\ Len(t) \in Nat
      /\ r = up[m][1] /\ r \in Requests
      /\ \A k \in 1..Len(t) : t[k] = up[m][k + 1]
  BY <1>2, <1>3, <1>4, Taking
<1>6. 1 \in Under(m) /\ \A k \in 1..Len(t) : k + 1 \in Under(m)
  BY <1>5 DEF Under
<1>7. late[m] \in Nat
  BY <1>1 DEF TypeOK
<1>8. ASSUME late[m] = 0
      PROVE  /\ connected[m] /\ wait[m] # None /\ answer[m] = None
             /\ r.op # "RememberMe" => r = wait[m] /\ Len(t) = 0
             /\ r.op = "RememberMe" => Len(t) = 1 /\ t[1] = wait[m] /\ Asks(m, "Load")
  <2>1. Awaits(m)
    BY <1>1, <1>5, <1>8 DEF Fits, QueueFits
  <2>2. /\ up[m][Len(up[m])] = wait[m]
        /\ \/ Len(up[m]) = 1
           \/ Len(up[m]) = 2 /\ wait[m].op = "Load" /\ up[m][1].op = "RememberMe"
    BY <1>1, <1>8, <2>1 DEF Fits, QueueFits
  <2>3. wait[m] # None /\ wait[m].op # "RememberMe"
    BY <1>1, <2>1 DEF Awaits, Fits, PageFits, Asks
  <2>4. CASE Len(up[m]) = 1
    BY <1>5, <2>1, <2>2, <2>3, <2>4 DEF Awaits
  <2>5. CASE Len(up[m]) # 1
    <3>1. Len(up[m]) = 2 /\ wait[m].op = "Load" /\ r.op = "RememberMe"
      BY <1>5, <2>2, <2>5
    <3>2. PICK i \in Nat : i = Len(t)
      BY <1>5
    <3>3. 2 = i + 1
      BY <1>5, <3>1, <3>2
    <3>4. i = 1
      BY <3>2, <3>3
    <3>5. Len(t) = 1 /\ t[1] = up[m][2]
      BY <1>5, <3>2, <3>4
    <3>6. t[1] = wait[m]
      BY <2>2, <3>1, <3>5
    <3> QED BY <2>1, <2>3, <3>1, <3>5, <3>6 DEF Awaits, Asks
  <2> QED BY <2>4, <2>5
<1> QED BY <1>3, <1>4, <1>5, <1>6, <1>7, <1>8

LEMMA ServesFits1 ==
  ASSUME NEW m \in Machines, NEW r, NEW what, IInv, Serves(m, r, what)
  PROVE  PageFits(m)' /\ QueueFits(m)' /\ AnswerHolds(m)' /\ TokenFits(m)'
<1>1. TypeOK /\ Fits(m)
  BY DEF IInv
<1>2. /\ page' = page /\ who' = who /\ wait' = wait /\ patFile' = patFile
      /\ connected' = connected /\ kept' = kept /\ cutOff' = cutOff /\ pats' = pats
      /\ numerar' = numerar /\ job = None
      /\ answer' = IF late[m] = 0 /\ what # None THEN [answer EXCEPT ![m] = what] ELSE answer
  BY DEF Serves
<1>3. answer'[m] = IF late[m] = 0 /\ what # None THEN what ELSE answer[m]
  BY <1>1, <1>2 DEF TypeOK
<1>4. PICK t : t = up'[m]
  OBVIOUS
<1>5. /\ r \in Requests /\ r = up[m][1] /\ 1 \in Under(m)
      /\ late[m] \in Nat /\ late'[m] = (IF late[m] > 0 THEN late[m] - 1 ELSE 0)
      /\ Len(t) \in Nat /\ Len(up[m]) = Len(t) + 1
      /\ \A k \in 1..Len(t) : t[k] = up[m][k + 1] /\ k + 1 \in Under(m)
      /\ late[m] = 0 => /\ connected[m] /\ wait[m] # None /\ answer[m] = None
                        /\ r.op # "RememberMe" => r = wait[m] /\ Len(t) = 0
                        /\ r.op = "RememberMe" => /\ Len(t) = 1 /\ t[1] = wait[m]
                                                  /\ Asks(m, "Load")
  BY <1>4, ServesFlat
<1>6. users \subseteq users' /\ shared \subseteq shared'
  BY DEF Serves, NewCode
<1>7. r.op = "RememberMe" => what = None
  BY DEF Serves
<1>8. PageFits(m)'
  BY <1>1, <1>2, <1>3, <1>5 DEF Fits, PageFits, Asks
<1>9. QueueFits(m)'
  <2>1. late[m] > 0 => ~(Registering(m))'
    BY NoneAssumption DEF Serves, Registering
  <2>2. CASE late[m] > 0
    <3>1. Awaits(m)' <=> Awaits(m)
      BY <1>2, <1>3, <2>1, <2>2 DEF Awaits, Registering
    <3>2. late'[m] = late[m] - 1 /\ Len(t) = Len(up[m]) - 1
      BY <1>5, <2>2
    <3>3. CASE ~Awaits(m)
      <4>1. Len(t) = late'[m]
        BY <1>1, <1>5, <3>2, <3>3 DEF Fits, QueueFits
      <4> QED BY <1>4, <3>1, <3>3, <4>1 DEF QueueFits
    <3>4. CASE Awaits(m)
      <4>1. /\ up[m][Len(up[m])] = wait[m]
            /\ \/ Len(up[m]) = late[m] + 1
               \/ /\ Len(up[m]) = late[m] + 2 /\ wait[m].op = "Load"
                  /\ up[m][late[m] + 1].op = "RememberMe"
        BY <1>1, <3>4 DEF Fits, QueueFits
      <4>2. Len(t) = late'[m] + 1 \/ Len(t) = late'[m] + 2
        <5>1. PICK i \in Nat, j \in Nat : i = Len(up[m]) /\ j = late[m]
          BY <1>5
        <5>2. i = j + 1 \/ i = j + 2
          BY <4>1, <5>1
        <5> QED BY <3>2, <5>1, <5>2
      <4>3. t[Len(t)] = wait[m]
        <5>1. Len(t) \in 1..Len(t) /\ Len(t) + 1 = Len(up[m])
          BY <1>5, <2>2, <3>2, <4>2
        <5> QED BY <1>5, <4>1, <5>1
      <4>4. Len(t) = late'[m] + 2 =>
              wait[m].op = "Load" /\ t[late'[m] + 1].op = "RememberMe"
        <5> SUFFICES ASSUME Len(t) = late'[m] + 2
                     PROVE  wait[m].op = "Load" /\ t[late'[m] + 1].op = "RememberMe"
          OBVIOUS
        <5>1. Len(up[m]) = late[m] + 2 /\ late'[m] + 1 \in 1..Len(t)
          BY <1>5, <2>2, <3>2
        <5>2. Len(up[m]) # late[m] + 1 /\ late'[m] + 1 + 1 = late[m] + 1
          BY <1>5, <3>2, <5>1
        <5> QED BY <1>5, <4>1, <5>1, <5>2
      <4> QED BY <1>2, <1>4, <3>1, <3>4, <4>2, <4>3, <4>4 DEF QueueFits
    <3> QED BY <3>3, <3>4
  <2>3. CASE late[m] = 0 /\ r.op = "RememberMe"
    <3>1. Len(t) = 1 /\ t[1] = wait[m] /\ late'[m] = 0
      BY <1>5, <2>3
    <3>2. ~(Registering(m))'
      BY <2>3 DEF Serves, Registering
    <3>3. Awaits(m)'
      BY <1>2, <1>3, <1>5, <1>7, <2>3, <3>2 DEF Awaits
    <3> QED BY <1>2, <1>4, <3>1, <3>3 DEF QueueFits
  <2>4. CASE late[m] = 0 /\ r.op # "RememberMe"
    <3>1. Len(t) = 0 /\ late'[m] = 0
      BY <1>5, <2>4
    <3>2. ~Awaits(m)'
      <4>1. CASE what # None
        BY <1>3, <2>4, <4>1 DEF Awaits
      <4>2. CASE what = None
        <5>1. job' = <<m, r.of>>
          BY <2>4, <4>2 DEF Serves
        <5>2. r.of \in Users
          BY <1>5, <2>4, <4>2, Shapes DEF Serves
        <5>3. <<m, r.of>> # None
          BY <5>2, NoneAssumption
        <5> QED BY <5>1, <5>3 DEF Awaits, Registering
      <4> QED BY <4>1, <4>2
    <3> QED BY <1>4, <3>1, <3>2 DEF QueueFits
  <2> QED BY <1>5, <2>2, <2>3, <2>4
<1>10. AnswerHolds(m)'
  <2>1. CASE answer'[m] = answer[m]
    BY <1>1, <1>2, <1>6, <2>1 DEF Fits, AnswerHolds, Asks
  <2>2. CASE answer'[m] # answer[m]
    <3>1. late[m] = 0 /\ what # None /\ answer'[m] = what
      BY <1>3, <2>2
    <3>2. r = wait[m]
      BY <1>5, <1>7, <3>1
    <3>3. r.op = "Login" /\ what = "success" => r.of \in users
      BY DEF Serves
    <3>4. r.op = "Register" => what # "success"
      BY DEF Serves
    <3>5. r.op = "Validate" /\ what # "success" => r.code \in shared
      <4>1. r.op = "Validate" => r.code \in Codes
        BY <1>5, Shapes
      <4>2. r.op = "Validate" /\ r.code \notin shared => r.code \in codes
        BY <1>5, <4>1 DEF IInv, Owners, Validates
      <4> QED BY <4>1, <4>2 DEF Serves
    <3> QED BY <1>2, <1>6, <3>1, <3>2, <3>3, <3>4, <3>5 DEF AnswerHolds, Asks
  <2> QED BY <2>1, <2>2
<1>11. TokenFits(m)'
  <2>1. ASSUME NEW k \in 1..Len(t), t[k].op = "RememberMe"
        PROVE  t[k].of \in users' /\ (t[k].pat \in cutOff \/ t[k].pat = patFile[m])
    BY <1>1, <1>5, <1>6, <2>1 DEF Fits, TokenFits
  <2>2. ASSUME NEW k \in 1..Len(t), t[k].op = "Logout"
        PROVE  \/ t[k].pat \in cutOff
               \/ wait[m] = t[k] /\ answer'[m] = None /\ k = Len(t)
    <3>1. \/ t[k].pat \in cutOff
          \/ wait[m] = t[k] /\ answer[m] = None /\ k + 1 = Len(up[m])
      BY <1>1, <1>5, <2>2 DEF Fits, TokenFits
    <3>2. k + 1 = Len(up[m]) => k = Len(t)
      BY <1>5
    <3>3. answer'[m] = answer[m]
      BY <1>3, <1>5, <1>7
    <3> QED BY <3>1, <3>2, <3>3
  <2>3. (patFile[m] # None => patFile[m] <= pats) /\ (kept[m] => patFile[m] \notin cutOff)
    BY <1>1 DEF Fits, TokenFits
  <2> QED BY <1>2, <1>4, <2>1, <2>2, <2>3 DEF TokenFits, Under
<1> QED BY <1>8, <1>9, <1>10, <1>11

LEMMA ServesFits2 ==
  ASSUME NEW m \in Machines, NEW r, NEW what, IInv, Serves(m, r, what)
  PROVE  RowThere(m)' /\ RowGone(m)'
<1>1. TypeOK /\ Fits(m)
  BY DEF IInv
<1>2. /\ who' = who /\ wait' = wait /\ patFile' = patFile
      /\ connected' = connected /\ kept' = kept /\ cutOff' = cutOff /\ job = None
      /\ answer' = IF late[m] = 0 /\ what # None THEN [answer EXCEPT ![m] = what] ELSE answer
      /\ what = None => r.op \in {"RememberMe", "Register"}
      /\ r.op = "RememberMe" => what = None
      /\ r.op = "RememberMe" => sessions' = sessions \cup {<<r.of, r.pat>>}
      /\ r.op = "Logout" => sessions' = {s \in sessions : s[2] # r.pat}
      /\ r.op \notin {"RememberMe", "Logout"} => sessions' = sessions
  BY DEF Serves
<1>3. answer'[m] = IF late[m] = 0 /\ what # None THEN what ELSE answer[m]
  BY <1>1, <1>2 DEF TypeOK
<1>4. PICK t : t = up'[m]
  OBVIOUS
<1>5. /\ r \in Requests /\ r = up[m][1] /\ 1 \in Under(m)
      /\ late[m] \in Nat /\ late'[m] = (IF late[m] > 0 THEN late[m] - 1 ELSE 0)
      /\ Len(t) \in Nat /\ Len(up[m]) = Len(t) + 1
      /\ \A k \in 1..Len(t) : t[k] = up[m][k + 1] /\ k + 1 \in Under(m)
      /\ late[m] = 0 => /\ connected[m] /\ wait[m] # None /\ answer[m] = None
                        /\ r.op # "RememberMe" => r = wait[m] /\ Len(t) = 0
                        /\ r.op = "RememberMe" => /\ Len(t) = 1 /\ t[1] = wait[m]
                                                  /\ Asks(m, "Load")
  BY <1>4, ServesFlat
<1>6. RowThere(m)'
  <2> SUFFICES ASSUME kept[m], connected[m]
               PROVE  \/ <<who[m], patFile[m]>> \in sessions'
                      \/ /\ Asks(m, "Load") /\ Len(t) = late'[m] + 2
                         /\ t[late'[m] + 1] =
                              [op |-> "RememberMe", of |-> who[m], pat |-> patFile[m]]
                      \/ Asks(m, "Logout") /\ answer'[m] # None
    BY <1>2, <1>4 DEF RowThere, Asks
  <2>1. CASE <<who[m], patFile[m]>> \in sessions
    <3>1. CASE r.op # "Logout" \/ r.pat # patFile[m]
      BY <1>2, <2>1, <3>1
    <3>2. CASE r.op = "Logout" /\ r.pat = patFile[m]
      <4>1. wait[m] = r /\ answer[m] = None /\ Len(up[m]) = 1
        BY <1>1, <1>5, <3>2 DEF Fits, TokenFits
      <4>2. Asks(m, "Logout")
        BY <1>5, <3>2, <4>1, Shapes DEF Asks
      <4>3. Awaits(m)
        BY <1>2, <4>1, <4>2 DEF Awaits, Registering, Asks
      <4>4. late[m] = 0
        BY <1>1, <1>5, <4>1, <4>3 DEF Fits, QueueFits
      <4> QED BY <1>2, <1>3, <3>2, <4>2, <4>4
    <3> QED BY <3>1, <3>2
  <2>2. CASE /\ Asks(m, "Load") /\ Len(up[m]) = late[m] + 2
             /\ up[m][late[m] + 1] =
                  [op |-> "RememberMe", of |-> who[m], pat |-> patFile[m]]
    <3>1. CASE late[m] = 0
      BY <1>2, <1>5, <2>2, <3>1
    <3>2. CASE late[m] > 0
      <4>1. late'[m] + 1 = late[m] /\ late[m] \in 1..Len(t) /\ Len(t) = late'[m] + 2
        BY <1>5, <2>2, <3>2
      <4> QED BY <1>5, <2>2, <4>1
    <3> QED BY <1>5, <3>1, <3>2
  <2>3. CASE Asks(m, "Logout") /\ answer[m] # None
    BY <1>3, <1>5, <2>3
  <2> QED BY <1>1, <2>1, <2>2, <2>3 DEF Fits, RowThere
<1>7. RowGone(m)'
  <2> SUFFICES ASSUME Asks(m, "Logout"), answer'[m] # None, patFile[m] \notin cutOff
               PROVE  /\ \A s \in sessions' : s[2] # patFile[m]
                      /\ \A k \in 1..Len(t) : t[k].op = "RememberMe" => t[k].pat # patFile[m]
    BY <1>2, <1>4 DEF RowGone, Asks, Under
  <2>1. CASE late[m] = 0
    <3>1. r = wait[m] /\ Len(t) = 0 /\ r.op = "Logout"
      BY <1>2, <1>3, <1>5, <2>1 DEF Asks
    <3>2. r.pat = patFile[m]
      BY <1>1, <3>1 DEF Fits, PageFits
    <3> QED BY <1>2, <3>1, <3>2
  <2>2. CASE late[m] > 0
    <3>1. answer[m] # None
      BY <1>3, <2>2
    <3>2. /\ \A s \in sessions : s[2] # patFile[m]
          /\ \A k \in Under(m) : up[m][k].op = "RememberMe" => up[m][k].pat # patFile[m]
      BY <1>1, <3>1 DEF Fits, RowGone
    <3>3. \A s \in sessions' : s[2] # patFile[m]
      BY <1>2, <1>5, <3>2
    <3> QED BY <1>5, <3>2, <3>3
  <2> QED BY <1>5, <2>1, <2>2
<1> QED BY <1>6, <1>7

LEMMA ServesOthersFit ==
  ASSUME NEW m \in Machines, NEW r, NEW what, IInv, Serves(m, r, what),
         NEW n \in Machines, n # m
  PROVE  Fits(n)'
<1>1. TypeOK /\ Fits(n) /\ Fits(m) /\ Tokens
  BY DEF IInv
<1>2. /\ page' = page /\ who' = who /\ wait' = wait /\ patFile' = patFile
      /\ connected' = connected /\ kept' = kept /\ cutOff' = cutOff /\ pats' = pats
      /\ numerar' = numerar /\ job = None
      /\ answer' = IF late[m] = 0 /\ what # None THEN [answer EXCEPT ![m] = what] ELSE answer
      /\ r.op = "RememberMe" => sessions' = sessions \cup {<<r.of, r.pat>>}
      /\ r.op = "Logout" => sessions' = {s \in sessions : s[2] # r.pat}
      /\ r.op \notin {"RememberMe", "Logout"} => sessions' = sessions
      /\ up[m] # <<>> /\ Taken(m)
  BY DEF Serves
<1>3. up'[n] = up[n] /\ late'[n] = late[n] /\ answer'[n] = answer[n]
  BY <1>1, <1>2, TakenFlat DEF TypeOK
<1>4. Same(n)
  <2>1. ~Registering(n) /\ ~(Registering(n))'
    BY <1>2, NoneAssumption DEF Registering, Serves
  <2> QED BY <1>2, <1>3, <2>1 DEF Same
<1>5. Grows
  <2>1. pats \in Nat
    BY <1>1 DEF TypeOK
  <2>2. users \subseteq users' /\ shared \subseteq shared'
    BY DEF Serves, NewCode
  <2> QED BY <1>2, <2>1, <2>2 DEF Grows
<1>6. r \in Requests /\ r = up[m][1] /\ 1 \in Under(m)
  BY ServesFlat
<1>7. kept[n] => patFile[n] \notin cutOff /\ patFile[n] # None
  BY <1>1 DEF Fits, TokenFits, PageFits
<1>8. RowsStand(n)
  <2>1. kept[n] => patFile[n] \notin cutOff'
    BY <1>2, <1>7
  <2>2. ASSUME kept[n], <<who[n], patFile[n]>> \in sessions
        PROVE  <<who[n], patFile[n]>> \in sessions'
    <3>1. CASE r.op # "Logout" \/ r.pat # patFile[n]
      BY <1>2, <2>2, <3>1
    <3>2. CASE r.op = "Logout" /\ r.pat = patFile[n]
      <4>1. wait[m] = r
        BY <1>1, <1>6, <1>7, <2>2, <3>2 DEF Fits, TokenFits
      <4>2. r # None
        BY <1>6, Shapes
      <4>3. r.pat = patFile[m]
        BY <1>1, <3>2, <4>1, <4>2 DEF Fits, PageFits, Asks
      <4> QED BY <1>1, <1>7, <2>2, <3>2, <4>3 DEF Tokens
    <3> QED BY <3>1, <3>2
  <2>3. ASSUME Asks(n, "Logout"), patFile[n] \notin cutOff, NEW s \in sessions',
               s[2] = patFile[n]
        PROVE  s \in sessions
    <3>1. CASE r.op # "RememberMe"
      BY <1>2, <3>1
    <3>2. CASE r.op = "RememberMe"
      <4>1. r.pat \in cutOff \/ r.pat = patFile[m]
        BY <1>1, <1>6, <3>2 DEF Fits, TokenFits
      <4>2. r.pat # None
        BY <1>6, <3>2, Shapes, NoneAssumption DEF PATs
      <4>3. r.pat # patFile[n]
        BY <1>1, <2>3, <4>1, <4>2 DEF Tokens
      <4> QED BY <1>2, <2>3, <3>2, <4>3
    <3> QED BY <3>1, <3>2
  <2> QED BY <2>1, <2>2, <2>3 DEF RowsStand
<1> QED BY <1>1, <1>4, <1>5, <1>8, OthersFit

LEMMA ServesOwners ==
  ASSUME NEW m \in Machines, NEW r, NEW what, IInv, Serves(m, r, what)
  PROVE  Owners'
<1>1. TypeOK
  BY DEF IInv
<1>2. /\ page' = page /\ wait' = wait /\ connected' = connected
      /\ up[m] # <<>> /\ Taken(m)
      /\ \/ r.op = "Forgot" /\ NewCode(m)
         \/ /\ codes' = IF r.op = "Validate" THEN codes \ {r.code} ELSE codes
            /\ mailed' = mailed /\ shared' = shared
  BY DEF Serves
<1>3. /\ up' \in [Machines -> Seq(Requests)]
      /\ \A n \in Machines : n # m => up'[n] = up[n]
  BY <1>1, <1>2, TakenFlat
<1>4. /\ r \in Requests /\ r = up[m][1] /\ 1 \in Under(m)
      /\ \A k \in 1..Len(up'[m]) : up'[m][k] = up[m][k + 1] /\ k + 1 \in Under(m)
  BY ServesFlat
<1>5. PICK by \in [Machines -> Nat] : \A n \in Machines : by[n] = IF n = m THEN 1 ELSE 0
  <2>1. [n \in Machines |-> IF n = m THEN 1 ELSE 0] \in [Machines -> Nat]
    OBVIOUS
  <2> QED BY <2>1
<1>6. ASSUME NEW n \in Machines, NEW k \in Under(n)', NEW c, Validates(n, k, c)'
      PROVE  k + by[n] \in Under(n) /\ Validates(n, k + by[n], c)
  <2>1. CASE n = m
    BY <1>4, <1>5, <1>6, <2>1 DEF Under, Validates
  <2>2. CASE n # m
    <3>1. k + by[n] = k
      BY <1>5, <2>2 DEF Under
    <3> QED BY <1>3, <1>6, <2>2, <3>1 DEF Under, Validates
  <2> QED BY <2>1, <2>2
<1>7. ASSUME NEW n \in Machines, NEW c, MayType(n, c)', mailed'[n] = mailed[n]
      PROVE  MayType(n, c)
  BY <1>2, <1>7 DEF MayType, Asks
<1>8. CASE ~NewCode(m)
  <2>1. /\ codes' = IF r.op = "Validate" THEN codes \ {r.code} ELSE codes
        /\ mailed' = mailed /\ shared' = shared
    BY <1>2, <1>8
  <2>2. ASSUME NEW c \in Codes \ shared', c \in codes, c \notin codes'
        PROVE  \A n \in Machines : /\ ~MayType(n, c)'
                                   /\ \A k \in Under(n)' : ~Validates(n, k, c)'
    <3>1. Validates(m, 1, c)
      BY <1>4, <2>1, <2>2 DEF Validates
    <3>2. \A n \in Machines : \A l \in Under(n) : Validates(n, l, c) => n = m /\ l = 1
      BY <1>4, <2>1, <3>1 DEF Owners, IInv
    <3>3. \A n \in Machines : ~MayType(n, c)
      BY <1>4, <2>1, <3>1 DEF Owners, IInv
    <3>4. ASSUME NEW n \in Machines, NEW k \in Under(n)', Validates(n, k, c)' PROVE FALSE
      <4>1. n = m /\ k + by[n] = 1
        BY <1>6, <3>2, <3>4
      <4> QED BY <1>5, <4>1 DEF Under
    <3> QED BY <1>7, <2>1, <3>3, <3>4
  <2>3. \A c \in Codes \ shared', n \in Machines :
          /\ MayType(n, c)' => MayType(n, c)
          /\ \A k \in Under(n)' : Validates(n, k, c)' =>
               k + by[n] \in Under(n) /\ Validates(n, k + by[n], c)
    BY <1>6, <1>7, <2>1
  <2>4. Owners /\ shared \subseteq shared'
    BY <2>1 DEF IInv
  <2>5. \A c \in Codes \ shared' : c \in codes =>
          \/ c \in codes'
          \/ \A n \in Machines : /\ ~MayType(n, c)'
                                 /\ \A k \in Under(n)' : ~Validates(n, k, c)'
    BY <2>2
  <2>6. \A n \in Machines : up'[n] \in Seq(Requests)
    BY <1>3
  <2> QED BY <2>3, <2>4, <2>5, <2>6, OwnersStand
<1>9. CASE NewCode(m)
  <2>1. PICK d \in Codes : /\ codes' = codes \cup {d}
                           /\ mailed' = [mailed EXCEPT ![m] = d]
                           /\ shared' = IF d \in codes THEN shared \cup {d} ELSE shared
    BY <1>9, Zenon DEF NewCode
  <2>2. mailed'[m] = d /\ \A n \in Machines : n # m => mailed'[n] = mailed[n]
    BY <1>1, <2>1 DEF TypeOK
  <2>3. shared \subseteq shared' /\ (d \notin shared' => d \notin codes)
    BY <2>1
  <2> SUFFICES ASSUME NEW c \in Codes \ shared', NEW a \in Machines
               PROVE  /\ MayType(a, c)' =>
                           /\ c \in codes'
                           /\ \A n \in Machines : /\ MayType(n, c)' => n = a
                                                  /\ \A k \in Under(n)' : ~Validates(n, k, c)'
                      /\ \A k \in Under(a)' : Validates(a, k, c)' =>
                           /\ c \in codes'
                           /\ \A n \in Machines : \A l \in Under(n)' :
                                Validates(n, l, c)' => n = a /\ l = k
    BY Zenon DEF Owners
  <2>4. \A b \in Machines :
          /\ MayType(b, c) =>
               /\ c \in codes
               /\ \A n \in Machines : /\ MayType(n, c) => n = b
                                      /\ \A k \in Under(n) : ~Validates(n, k, c)
          /\ \A k \in Under(b) : Validates(b, k, c) =>
               /\ c \in codes
               /\ \A n \in Machines : \A l \in Under(n) : Validates(n, l, c) => n = b /\ l = k
    BY <2>3, Zenon DEF IInv, Owners
  <2>5. CASE c = d
    <3>1. c \notin codes
      BY <2>3, <2>5
    <3>2. \A n \in Machines : /\ MayType(n, c)' => n = m
                              /\ \A k \in Under(n)' : ~Validates(n, k, c)'
      BY <1>6, <1>7, <2>2, <2>4, <3>1
    <3> QED BY <2>1, <2>5, <3>2
  <2>6. CASE c # d
    <3>1. \A n \in Machines : MayType(n, c)' => MayType(n, c)
      <4>1. ~MayType(m, c)'
        BY <2>2, <2>6 DEF MayType
      <4> QED BY <1>7, <2>2, <4>1
    <3>2. ASSUME NEW k \in Under(a)', Validates(a, k, c)',
                 NEW n \in Machines, NEW l \in Under(n)', Validates(n, l, c)'
          PROVE  n = a /\ l = k
      <4>1. n = a /\ l + by[n] = k + by[a]
        BY <1>6, <2>4, <3>2
      <4>2. by[a] \in Nat /\ k \in Int /\ l \in Int
        BY <3>2 DEF Under
      <4> QED BY <4>1, <4>2
    <3>3. codes \subseteq codes'
      BY <2>1
    <3>4. MayType(a, c)' =>
            /\ c \in codes'
            /\ \A n \in Machines : /\ MayType(n, c)' => n = a
                                   /\ \A k \in Under(n)' : ~Validates(n, k, c)'
      BY <1>6, <2>4, <3>1, <3>3
    <3>5. \A k \in Under(a)' : Validates(a, k, c)' => c \in codes'
      BY <1>6, <2>4, <3>3
    <3> QED BY <3>2, <3>4, <3>5
  <2> QED BY <2>5, <2>6
<1> QED BY <1>8, <1>9

LEMMA ServesKeeps ==
  ASSUME NEW m \in Machines, NEW r,
         NEW what \in {None, "success", "failure"} \cup Users, IInv, Serves(m, r, what)
  PROVE  IInv'
<1>1. TypeOK /\ Fits(m) /\ Tokens
  BY DEF IInv
<1>2. /\ serverUp' = serverUp /\ numerar' = numerar /\ page' = page /\ who' = who
      /\ wait' = wait /\ patFile' = patFile /\ held' = held /\ connected' = connected
      /\ pats' = pats /\ clicks' = clicks /\ faults' = faults /\ kept' = kept
      /\ cutOff' = cutOff /\ confirmed' = confirmed /\ refused' = refused
      /\ up[m] # <<>> /\ Taken(m)
      /\ answer' = IF late[m] = 0 /\ what # None THEN [answer EXCEPT ![m] = what] ELSE answer
  BY DEF Serves
<1>3. /\ r.op = "RememberMe" => sessions' = sessions \cup {<<r.of, r.pat>>}
      /\ r.op = "Logout" => sessions' = {s \in sessions : s[2] # r.pat}
      /\ r.op \notin {"RememberMe", "Logout"} => sessions' = sessions
      /\ users \subseteq users' /\ shared \subseteq shared'
  BY DEF Serves, NewCode
<1>4. r \in Requests /\ r = up[m][1] /\ 1 \in Under(m)
  BY ServesFlat
<1>5. r.op = "RememberMe" =>
        /\ r.of \in users /\ r.pat \in PATs
        /\ r.pat \in cutOff \/ r.pat = patFile[m]
  BY <1>1, <1>4, Shapes DEF Fits, TokenFits
<1>6. \A n \in Machines : Fits(n)'
  <2>1. Fits(m)'
    BY ServesFits1, ServesFits2 DEF Fits
  <2> QED BY <2>1, ServesOthersFit
<1>7. JobFits'
  <2>1. CASE r.op = "Register" /\ what = None
    <3>1. users' = users \cup {r.of} /\ job' = <<IF late[m] = 0 THEN m ELSE None, r.of>>
      BY <2>1 DEF Serves
    <3>2. late[m] = 0 => /\ connected[m] /\ answer[m] = None /\ r = wait[m]
      BY <2>1, ServesFlat
    <3>3. r = [op |-> "Register", of |-> r.of]
      BY <1>4, <2>1, Shapes
    <3>4. answer' = answer
      BY <1>2, <2>1
    <3> QED BY <1>2, <3>1, <3>2, <3>3, <3>4 DEF JobFits
  <2>2. CASE ~(r.op = "Register" /\ what = None)
    BY <2>2 DEF Serves, JobFits
  <2> QED BY <2>1, <2>2
<1>8. Tokens'
  BY <1>1, <1>2 DEF Tokens
<1>9. NoOrphans'
  <2>1. \A s \in sessions' : s \in sessions \/ (r.op = "RememberMe" /\ s[2] = r.pat)
    BY <1>3
  <2> QED BY <1>2, <1>5, <2>1 DEF NoOrphans, IInv
<1>10. SuccessIsComplete' /\ MailedCodeWorks'
  BY <1>2, <1>3 DEF SuccessIsComplete, MailedCodeWorks, IInv
<1>11. TypeOK'
  <2>1. users' \subseteq Users
    <3>1. r.op = "Register" => r.of \in Users
      BY <1>4, Shapes
    <3> QED BY <1>1, <3>1 DEF Serves, TypeOK
  <2>2. numerar' \subseteq users'
    BY <1>1, <1>2, <1>3 DEF TypeOK
  <2>3. sessions' \subseteq users' \X PATs
    <3>1. sessions \subseteq users' \X PATs
      BY <1>1, <1>3 DEF TypeOK
    <3>2. r.op = "RememberMe" => <<r.of, r.pat>> \in users' \X PATs
      BY <1>3, <1>5
    <3> QED BY <1>3, <3>1, <3>2
  <2>4. job' \in {None} \cup ((Machines \cup {None}) \X Users)
    <3>1. r.op = "Register" => r.of \in Users
      BY <1>4, Shapes
    <3> QED BY <3>1 DEF Serves
  <2>5. /\ codes' \subseteq Codes /\ mailed' \in [Machines -> Codes \cup {None}]
        /\ shared' \subseteq Codes
    <3>1. codes \subseteq Codes /\ mailed \in [Machines -> Codes \cup {None}]
          /\ shared \subseteq Codes
      BY <1>1 DEF TypeOK
    <3>2. CASE NewCode(m)
      BY <3>1, <3>2 DEF NewCode
    <3>3. CASE ~NewCode(m)
      BY <3>1, <3>3 DEF Serves
    <3> QED BY <3>2, <3>3
  <2>6. answer' \in [Machines -> {None, "success", "failure"} \cup Users]
    BY <1>1, <1>2 DEF TypeOK
  <2>7. /\ up' \in [Machines -> Seq(Requests)] /\ late' \in [Machines -> Nat]
        /\ \A n \in Machines : n # m => up'[n] = up[n] /\ late'[n] = late[n]
    BY <1>1, <1>2, TakenFlat
  <2>8. ASSUME NEW n \in Machines PROVE late'[n] <= Len(up'[n])
    <3>1. CASE n # m
      BY <1>1, <2>7, <3>1 DEF TypeOK
    <3>2. CASE n = m
      <4>1. PICK i \in Nat : i = Len(up'[m])
        BY ServesFlat
      <4>2. Len(up[m]) = i + 1 /\ late'[m] = (IF late[m] > 0 THEN late[m] - 1 ELSE 0)
            /\ late[m] \in Nat
        BY <4>1, ServesFlat
      <4>3. late[m] <= i + 1
        BY <1>1, <4>2 DEF TypeOK
      <4> QED BY <3>2, <4>1, <4>2, <4>3
    <3> QED BY <3>1, <3>2
  <2> QED BY <1>1, <1>2, <2>1, <2>2, <2>3, <2>4, <2>5, <2>6, <2>7, <2>8 DEF TypeOK
<1> QED BY <1>6, <1>7, <1>8, <1>9, <1>10, <1>11, ServesOwners DEF IInv

-----------------------------------------------------------------------------
(***************************************************************************)
(* The handlers of the server.                                             *)
(***************************************************************************)
Answerings == {None, "success", "failure"} \cup Users
Handles(m) == \E what \in Answerings : Serves(m, Head(up[m]), what)

LEMMA HandlesKeeps ==
  ASSUME NEW m \in Machines, IInv, Handles(m)
  PROVE  IInv'
<1>1. PICK what \in Answerings : Serves(m, Head(up[m]), what)
  BY DEF Handles
<1> QED BY <1>1, ServesKeeps DEF Answerings

LEMMA Replied ==
  ASSUME NEW m \in Machines, NEW what, Reply(m, what), what # None
  PROVE  /\ Taken(m)
         /\ answer' = IF late[m] = 0 /\ what # None THEN [answer EXCEPT ![m] = what]
                                                    ELSE answer
BY DEF Reply

LEMMA Results ==
  "success" # None /\ "failure" # None /\ None \notin Users
BY NoneAssumption

LEMMA RegisterUserHandles ==
  ASSUME NEW m \in Machines, IInv, RegisterUser(m)
  PROVE  Handles(m)
<1> DEFINE r == Head(up[m])
<1>1. /\ serverUp /\ job = None /\ up[m] # <<>> /\ r.op = "Register"
      /\ UNCHANGED <<serverUp, numerar, sessions, codes, otherClients, faults, mailed, shared>>
  BY DEF RegisterUser, Asked
<1>2. CASE r.of \in users
  <2>1. Reply(m, "failure") /\ users' = users /\ job' = job
    BY <1>2 DEF RegisterUser
  <2>2. Serves(m, r, "failure")
    BY <1>1, <2>1, Replied, Results DEF Serves, otherClients, client
  <2> QED BY <2>2 DEF Handles, Answerings
<1>3. CASE r.of \notin users
  <2>1. /\ users' = users \cup {r.of} /\ job' = <<IF late[m] = 0 THEN m ELSE None, r.of>>
        /\ Taken(m) /\ answer' = answer
    BY <1>3 DEF RegisterUser
  <2>2. Serves(m, r, None)
    BY <1>1, <2>1, Results DEF Serves, otherClients, client
  <2> QED BY <2>2 DEF Handles, Answerings
<1> QED BY <1>2, <1>3

LEMMA OnLoginHandles ==
  ASSUME NEW m \in Machines, IInv, OnLogin(m)
  PROVE  Handles(m)
<1> DEFINE r == Head(up[m])
<1>1. /\ serverUp /\ job = None /\ up[m] # <<>> /\ r.op = "Login"
      /\ UNCHANGED <<server, otherClients, faults, mailed, shared>>
  BY DEF OnLogin, Asked
<1>2. PICK what \in {"success", "failure"} :
        Reply(m, what) /\ (what = "success" => r.of \in users)
  BY DEF OnLogin
<1>3. what # None
  BY Results
<1>4. Serves(m, r, what)
  BY <1>1, <1>2, <1>3, Replied DEF Serves, otherClients, client, server
<1> QED BY <1>4 DEF Handles, Answerings

LEMMA OnLoginRememberedHandles ==
  ASSUME NEW m \in Machines, IInv, OnLoginRemembered(m)
  PROVE  Handles(m)
<1> DEFINE r == Head(up[m])
<1>1. /\ serverUp /\ job = None /\ up[m] # <<>> /\ r.op = "LoginRemembered"
      /\ UNCHANGED <<server, otherClients, faults, mailed, shared>>
  BY DEF OnLoginRemembered, Asked
<1>2. \A s \in sessions : s[1] \in Users
  BY DEF IInv, TypeOK
<1>3. PICK what \in {"failure"} \cup Users : Reply(m, what)
  BY <1>2 DEF OnLoginRemembered
<1>4. what # None
  BY Results
<1>5. Serves(m, r, what)
  BY <1>1, <1>3, <1>4, Replied DEF Serves, otherClients, client, server
<1> QED BY <1>5 DEF Handles, Answerings

LEMMA OnRememberMeHandles ==
  ASSUME NEW m \in Machines, IInv, OnRememberMe(m)
  PROVE  Handles(m)
<1> DEFINE r == Head(up[m])
<1>1. /\ serverUp /\ job = None /\ up[m] # <<>> /\ r.op = "RememberMe"
      /\ sessions' = sessions \cup {<<r.of, r.pat>>}
      /\ Taken(m) /\ answer' = answer
      /\ UNCHANGED <<serverUp, users, numerar, codes, job, otherClients, faults, mailed, shared>>
  BY DEF OnRememberMe, Asked
<1>2. Serves(m, r, None)
  BY <1>1 DEF Serves, otherClients, client
<1> QED BY <1>2 DEF Handles, Answerings

LEMMA OnLogoutHandles ==
  ASSUME NEW m \in Machines, IInv, OnLogout(m)
  PROVE  Handles(m)
<1> DEFINE r == Head(up[m])
           found == {s \in sessions : s[2] = r.pat}
<1>1. /\ serverUp /\ job = None /\ up[m] # <<>> /\ r.op = "Logout"
      /\ sessions' = sessions \ found
      /\ UNCHANGED <<serverUp, users, numerar, codes, job, otherClients, faults, mailed, shared>>
  BY DEF OnLogout, Asked
<1>2. sessions' = {s \in sessions : s[2] # r.pat}
  BY <1>1
<1>3. PICK what \in {"success", "failure"} : Reply(m, what)
  BY DEF OnLogout
<1>4. what # None
  BY Results
<1>5. Serves(m, r, what)
  BY <1>1, <1>2, <1>3, <1>4, Replied DEF Serves, otherClients, client
<1> QED BY <1>5 DEF Handles, Answerings

LEMMA OnForgotHandles ==
  ASSUME NEW m \in Machines, IInv, OnForgot(m)
  PROVE  Handles(m)
<1> DEFINE r == Head(up[m])
<1>1. /\ serverUp /\ job = None /\ up[m] # <<>> /\ r.op = "Forgot"
      /\ UNCHANGED <<serverUp, users, numerar, sessions, job, otherClients, faults>>
  BY DEF OnForgot, Asked
<1>2. CASE r.of \in users
  <2>1. NewCode(m) /\ Reply(m, "success")
    BY <1>2 DEF OnForgot, NewCode
  <2>2. Serves(m, r, "success")
    BY <1>1, <2>1, Replied, Results DEF Serves, otherClients, client
  <2> QED BY <2>2 DEF Handles, Answerings
<1>3. CASE r.of \notin users
  <2>1. Reply(m, "failure") /\ codes' = codes /\ mailed' = mailed /\ shared' = shared
    BY <1>3 DEF OnForgot
  <2>2. Serves(m, r, "failure")
    BY <1>1, <2>1, Replied, Results DEF Serves, otherClients, client
  <2> QED BY <2>2 DEF Handles, Answerings
<1> QED BY <1>2, <1>3

LEMMA OnValidateHandles ==
  ASSUME NEW m \in Machines, IInv, OnValidate(m)
  PROVE  Handles(m)
<1> DEFINE r == Head(up[m])
<1>1. /\ serverUp /\ job = None /\ up[m] # <<>> /\ r.op = "Validate"
      /\ codes' = codes \ {r.code}
      /\ UNCHANGED <<serverUp, users, numerar, sessions, job, otherClients, faults, mailed, shared>>
  BY DEF OnValidate, Asked
<1>2. PICK what \in {"success", "failure"} :
        Reply(m, what) /\ (what # "success" => r.code \notin codes)
  BY DEF OnValidate
<1>3. what # None
  BY Results
<1>4. Serves(m, r, what)
  BY <1>1, <1>2, <1>3, Replied DEF Serves, otherClients, client
<1> QED BY <1>4 DEF Handles, Answerings

LEMMA OnOtherHandles ==
  ASSUME NEW m \in Machines, IInv, OnOther(m)
  PROVE  Handles(m)
<1> DEFINE r == Head(up[m])
<1>1. /\ serverUp /\ job = None /\ up[m] # <<>> /\ r.op \in {"UpdatePassword", "Load"}
      /\ Reply(m, "success")
      /\ UNCHANGED <<server, otherClients, faults, mailed, shared>>
  BY DEF OnOther, Asked
<1>2. Serves(m, r, "success")
  BY <1>1, Replied, Results DEF Serves, otherClients, client, server
<1> QED BY <1>2 DEF Handles, Answerings

-----------------------------------------------------------------------------
(***************************************************************************)
(* The registration that is half done, ends.                               *)
(***************************************************************************)
Concludes(what) ==
  /\ serverUp /\ job # None /\ job' = None
  /\ ReplyJob(what) /\ what \in {"success", "failure"}
  /\ \/ numerar' = numerar \cup {job[2]}
     \/ numerar' = numerar /\ what = "failure"
  /\ faults' \in 0..MaxFaults
  /\ UNCHANGED <<serverUp, users, sessions, codes, up, late, otherClients, mailed, shared>>

LEMMA ConcludesKeeps ==
  ASSUME NEW what, IInv, Concludes(what)
  PROVE  IInv'
<1>1. TypeOK /\ JobFits /\ Tokens
  BY DEF IInv
<1>2. /\ job # None /\ job' = None /\ what \in {"success", "failure"}
      /\ answer' = IF job[1] = None THEN answer ELSE [answer EXCEPT ![job[1]] = what]
      /\ \/ numerar' = numerar \cup {job[2]}
         \/ numerar' = numerar /\ what = "failure"
      /\ faults' \in 0..MaxFaults
      /\ serverUp' = serverUp /\ users' = users /\ sessions' = sessions /\ codes' = codes
      /\ up' = up /\ late' = late /\ page' = page /\ who' = who /\ wait' = wait
      /\ patFile' = patFile /\ held' = held /\ connected' = connected /\ pats' = pats
      /\ clicks' = clicks /\ kept' = kept /\ cutOff' = cutOff /\ confirmed' = confirmed
      /\ refused' = refused /\ mailed' = mailed /\ shared' = shared
  BY DEF Concludes, ReplyJob, otherClients, client
<1>3. /\ job[1] \in Machines \cup {None} /\ job[2] \in Users /\ job[2] \in users
      /\ job[1] # None =>
           /\ wait[job[1]] # None
           /\ wait[job[1]].op = "Register" /\ wait[job[1]].of = job[2]
           /\ answer[job[1]] = None /\ connected[job[1]]
  BY <1>1, <1>2, JobIs
<1>4. what # None
  BY <1>2, Results
<1>5. Grows
  <2>1. pats \in Nat
    BY <1>1 DEF TypeOK
  <2> QED BY <1>2, <2>1 DEF Grows
<1>6. ASSUME NEW n \in Machines PROVE Fits(n)'
  <2>1. Fits(n)
    BY DEF IInv
  <2>2. n # None
    BY NoneAssumption
  <2>3. CASE n # job[1]
    <3>1. answer'[n] = answer[n]
      BY <1>1, <1>2, <1>3, <2>3 DEF TypeOK
    <3>2. Same(n)
      BY <1>2, <2>3, <3>1 DEF Same, Registering
    <3>3. RowsStand(n)
      BY <1>2, <2>1 DEF RowsStand, Fits, TokenFits
    <3> QED BY <1>1, <1>5, <2>1, <3>2, <3>3, OthersFit
  <2>4. CASE n = job[1]
    <3>1. /\ answer'[n] = what /\ wait[n] # None /\ wait[n].op = "Register"
          /\ wait[n].of = job[2] /\ answer[n] = None /\ connected[n]
      BY <1>1, <1>2, <1>3, <2>2, <2>4 DEF TypeOK
    <3>2. PageFits(n)'
      BY <1>2, <2>1, <3>1 DEF Fits, PageFits, Asks
    <3>3. QueueFits(n)'
      <4>1. ~Awaits(n) /\ ~(Awaits(n))'
        BY <1>2, <1>4, <2>4, <3>1 DEF Awaits, Registering
      <4> QED BY <1>2, <2>1, <4>1 DEF Fits, QueueFits
    <3>4. AnswerHolds(n)'
      BY <1>2, <3>1, Results DEF AnswerHolds, Asks
    <3>5. TokenFits(n)'
      <4>1. ASSUME NEW k \in Under(n), up[n][k].op = "Logout"
            PROVE  up[n][k].pat \in cutOff
        BY <2>1, <3>1, <4>1 DEF Fits, TokenFits
      <4> QED BY <1>2, <2>1, <4>1 DEF Fits, TokenFits, Under
    <3>6. RowThere(n)' /\ RowGone(n)'
      BY <1>2, <2>1, <3>1 DEF Fits, RowThere, RowGone, Asks
    <3> QED BY <3>2, <3>3, <3>4, <3>5, <3>6 DEF Fits
  <2> QED BY <2>3, <2>4
<1>7. JobFits'
  BY <1>2 DEF JobFits
<1>8. Tokens' /\ NoOrphans'
  BY <1>1, <1>2 DEF Tokens, NoOrphans, IInv
<1>9. SuccessIsComplete' /\ MailedCodeWorks'
  BY <1>2 DEF SuccessIsComplete, MailedCodeWorks, IInv
<1>10. Owners'
  BY <1>2 DEF IInv, Owners, MayType, Asks, Under, Validates
<1>11. TypeOK'
  <2>1. answer' \in [Machines -> {None, "success", "failure"} \cup Users]
    BY <1>1, <1>2 DEF TypeOK
  <2>2. numerar' \subseteq users'
    BY <1>1, <1>2, <1>3 DEF TypeOK
  <2> QED BY <1>1, <1>2, <2>1, <2>2 DEF TypeOK
<1> QED BY <1>6, <1>7, <1>8, <1>9, <1>10, <1>11 DEF IInv

LEMMA FaultCounted ==
  ASSUME TypeOK, faults < MaxFaults, faults' = faults + 1
  PROVE  faults' \in 0..MaxFaults
<1>1. faults \in 0..MaxFaults /\ MaxFaults \in Nat
  BY BoundsAssumption DEF TypeOK
<1> QED BY <1>1

LEMMA RegisterCashKeeps == ASSUME IInv, RegisterCash PROVE IInv'
<1>1. Concludes("success")
  BY DEF RegisterCash, Concludes, IInv, TypeOK
<1> QED BY <1>1, ConcludesKeeps

LEMMA RegisterFailsKeeps == ASSUME IInv, RegisterFails PROVE IInv'
<1>1. faults' \in 0..MaxFaults
  BY FaultCounted DEF IInv, RegisterFails
<1>2. Concludes("failure")
  BY <1>1 DEF RegisterFails, Concludes
<1> QED BY <1>2, ConcludesKeeps

-----------------------------------------------------------------------------
(***************************************************************************)
(* Connections are lost, and the server ends and is started again.         *)
(***************************************************************************)
Cut(n) ==
  /\ ~connected'[n] /\ answer'[n] \in {answer[n], None}
  /\ Len(up'[n]) = late'[n] /\ late'[n] \in Nat /\ late'[n] <= Len(up[n])
  /\ \A k \in 1..late'[n] : up'[n][k] = up[n][k]
  /\ page'[n] = page[n] /\ who'[n] = who[n] /\ wait'[n] = wait[n]
  /\ patFile'[n] = patFile[n] /\ kept'[n] = kept[n]
Untouched ==
  /\ users' = users /\ numerar' = numerar /\ sessions' = sessions /\ codes' = codes
  /\ page' = page /\ who' = who /\ wait' = wait /\ patFile' = patFile /\ held' = held
  /\ pats' = pats /\ clicks' = clicks /\ kept' = kept /\ cutOff' = cutOff
  /\ confirmed' = confirmed /\ mailed' = mailed /\ shared' = shared /\ refused' = refused

LEMMA CutFits ==
  ASSUME NEW n \in Machines, TypeOK, Fits(n), Cut(n), Untouched
  PROVE  Fits(n)'
<1>1. /\ ~connected'[n] /\ answer'[n] \in {answer[n], None}
      /\ page'[n] = page[n] /\ who'[n] = who[n] /\ wait'[n] = wait[n]
      /\ patFile'[n] = patFile[n] /\ kept'[n] = kept[n]
      /\ users' = users /\ numerar' = numerar /\ sessions' = sessions /\ pats' = pats
      /\ cutOff' = cutOff /\ shared' = shared
  BY DEF Cut, Untouched
<1>2. PICK t : t = up'[n]
  OBVIOUS
<1>3. PICK i \in Nat, j \in Nat : i = Len(t) /\ j = Len(up[n])
  <2>1. up[n] \in Seq(Requests)
    BY DEF TypeOK
  <2> QED BY <1>2, <2>1, LenProperties DEF Cut
<1>4. i = late'[n] /\ i <= j /\ \A k \in 1..i : t[k] = up[n][k] /\ k \in Under(n)
  BY <1>2, <1>3 DEF Cut, Under
<1>5. PageFits(n)'
  BY <1>1 DEF Fits, PageFits, Asks
<1>6. QueueFits(n)'
  BY <1>1, <1>2, <1>3, <1>4 DEF QueueFits, Awaits
<1>7. AnswerHolds(n)'
  BY <1>1, Results DEF Fits, AnswerHolds, Asks
<1>8. TokenFits(n)'
  <2>1. ASSUME NEW k \in 1..i, t[k].op = "RememberMe"
        PROVE  t[k].of \in users /\ (t[k].pat \in cutOff \/ t[k].pat = patFile[n])
    BY <1>4, <2>1 DEF Fits, TokenFits
  <2>2. ASSUME NEW k \in 1..i, t[k].op = "Logout"
        PROVE  \/ t[k].pat \in cutOff
               \/ wait[n] = t[k] /\ answer'[n] = None /\ k = i
    <3>1. \/ t[k].pat \in cutOff
          \/ wait[n] = t[k] /\ answer[n] = None /\ k = j
      BY <1>3, <1>4, <2>2 DEF Fits, TokenFits
    <3>2. k = j => k = i
      BY <1>4
    <3> QED BY <1>1, <3>1, <3>2
  <2> QED BY <1>1, <1>2, <1>3, <2>1, <2>2 DEF Fits, TokenFits, Under
<1>9. RowThere(n)'
  BY <1>1 DEF RowThere
<1>10. RowGone(n)'
  BY <1>1, <1>2, <1>3, <1>4 DEF Fits, RowGone, Asks, Under
<1> QED BY <1>5, <1>6, <1>7, <1>8, <1>9, <1>10 DEF Fits

\* Connections are lost, and queues are cut: nobody gains a code by it.
LEMMA CutOwners ==
  ASSUME IInv, Untouched, up' \in [Machines -> Seq(Requests)],
         \A n \in Machines :
           /\ connected'[n] => connected[n]
           /\ \A k \in Under(n)' : k \in Under(n) /\ up'[n][k] = up[n][k]
  PROVE  Owners'
<1>1. PICK by \in [Machines -> Nat] : \A n \in Machines : by[n] = 0
  <2>1. [n \in Machines |-> 0] \in [Machines -> Nat]
    OBVIOUS
  <2> QED BY <2>1
<1>2. \A n \in Machines : \A k \in Under(n)' : k + by[n] = k
  BY <1>1 DEF Under
<1>3. ASSUME NEW c \in Codes \ shared', NEW n \in Machines
      PROVE  /\ MayType(n, c)' => MayType(n, c)
             /\ \A k \in Under(n)' : Validates(n, k, c)' =>
                  k + by[n] \in Under(n) /\ Validates(n, k + by[n], c)
  <2>1. MayType(n, c)' => MayType(n, c)
    BY DEF MayType, Asks, Untouched
  <2>2. \A k \in Under(n)' : Validates(n, k, c)' => k \in Under(n) /\ Validates(n, k, c)
    BY DEF Validates
  <2> QED BY <1>2, <2>1, <2>2
<1>4. Owners /\ shared' = shared /\ codes' = codes
  BY DEF IInv, Untouched
<1> QED BY <1>3, <1>4, OwnersStand

LEMMA BreakKeeps ==
  ASSUME NEW m \in Machines, IInv, Break(m)
  PROVE  IInv'
<1>1. TypeOK /\ JobFits /\ Tokens
  BY DEF IInv
<1>2. /\ connected' = [connected EXCEPT ![m] = FALSE]
      /\ job' = IF job # None /\ job[1] = m THEN <<None, job[2]>> ELSE job
      /\ answer' \in {answer, [answer EXCEPT ![m] = None]}
      /\ serverUp' = serverUp /\ Untouched
  BY DEF Break, client, ghosts, Untouched
<1>3. PICK i \in late[m]..Len(up[m]) : /\ up' = [up EXCEPT ![m] = SubSeq(@, 1, i)]
                                      /\ late' = [late EXCEPT ![m] = i]
  BY DEF Break
<1>4. up[m] \in Seq(Requests) /\ late[m] \in Nat /\ Len(up[m]) \in Nat
      /\ up \in [Machines -> Seq(Requests)] /\ late \in [Machines -> Nat]
  BY <1>1, LenProperties DEF TypeOK
<1>5. i \in Nat /\ i <= Len(up[m])
  BY <1>3, <1>4
<1>6. PICK t : t = SubSeq(up[m], 1, i)
  OBVIOUS
<1>7. t \in Seq(Requests) /\ Len(t) = i /\ \A k \in 1..i : t[k] = up[m][k]
  <2>1. \A k \in 1..i : up[m][k] \in Requests
    BY <1>4, <1>5, ElementOfSeq
  <2> QED BY <1>4, <1>5, <1>6, <2>1
<1>8. /\ up' \in [Machines -> Seq(Requests)] /\ up'[m] = t
      /\ late' \in [Machines -> Nat] /\ late'[m] = i
      /\ \A n \in Machines : n # m => up'[n] = up[n] /\ late'[n] = late[n]
  BY <1>3, <1>4, <1>5, <1>6, <1>7
<1>9. /\ answer' \in [Machines -> {None, "success", "failure"} \cup Users]
      /\ connected' \in [Machines -> BOOLEAN] /\ ~connected'[m]
      /\ answer'[m] \in {answer[m], None}
      /\ \A n \in Machines : n # m => answer'[n] = answer[n] /\ connected'[n] = connected[n]
  BY <1>1, <1>2 DEF TypeOK
<1>10. \A n \in Machines : Fits(n)'
  <2>1. Cut(m)
    BY <1>2, <1>5, <1>7, <1>8, <1>9 DEF Cut, Untouched
  <2>2. Fits(m)'
    BY <1>1, <1>2, <2>1, CutFits DEF IInv
  <2>3. ASSUME NEW n \in Machines, n # m PROVE Fits(n)'
    <3>1. (Registering(n))' <=> Registering(n)
      <4>1. n # None
        BY NoneAssumption
      <4>2. job # None => job[2] \in Users
        BY <1>1, JobIs
      <4>3. job # None => <<None, job[2]>> # None
        BY <4>2, NoneAssumption
      <4> QED BY <1>2, <2>3, <4>1, <4>3 DEF Registering
    <3>2. Same(n)
      BY <1>2, <1>8, <1>9, <2>3, <3>1 DEF Same, Untouched
    <3>3. Grows
      <4>1. pats \in Nat
        BY <1>1 DEF TypeOK
      <4> QED BY <1>2, <4>1 DEF Grows, Untouched
    <3>4. RowsStand(n)
      BY <1>2 DEF RowsStand, IInv, Fits, TokenFits, Untouched
    <3> QED BY <1>1, <3>2, <3>3, <3>4, OthersFit DEF IInv
  <2> QED BY <2>2, <2>3
<1>11. JobFits'
  <2>1. job # None =>
          /\ job[1] \in Machines \cup {None} /\ job[2] \in users
          /\ job = <<job[1], job[2]>>
    BY <1>1, JobIs
  <2>2. CASE job # None /\ job[1] = m
    BY <1>2, <2>1, <2>2 DEF JobFits, Untouched
  <2>3. CASE ~(job # None /\ job[1] = m)
    <3>1. job' = job
      BY <1>2, <2>3
    <3> QED BY <1>1, <1>2, <1>9, <2>1, <2>3, <3>1 DEF JobFits, Untouched
  <2> QED BY <2>2, <2>3
<1>12. Tokens' /\ NoOrphans'
  BY <1>1, <1>2 DEF Tokens, NoOrphans, IInv, Untouched
<1>13. SuccessIsComplete' /\ MailedCodeWorks'
  BY <1>2 DEF SuccessIsComplete, MailedCodeWorks, IInv, Untouched
<1>14. Owners'
  <2>1. ASSUME NEW n \in Machines
        PROVE  /\ connected'[n] => connected[n]
               /\ \A k \in Under(n)' : k \in Under(n) /\ up'[n][k] = up[n][k]
    <3>1. CASE n # m
      BY <1>8, <1>9, <3>1 DEF Under
    <3>2. CASE n = m
      <4>1. ASSUME NEW k \in 1..i PROVE k \in 1..Len(up[m]) /\ t[k] = up[m][k]
        BY <1>4, <1>5, <1>7
      <4> QED BY <1>7, <1>8, <1>9, <3>2, <4>1 DEF Under
    <3> QED BY <3>1, <3>2
  <2> QED BY <1>2, <1>8, <2>1, CutOwners
<1>15. TypeOK'
  <2>1. job' \in {None} \cup ((Machines \cup {None}) \X Users)
    <3>1. job # None => job[2] \in Users
      BY <1>1, JobIs
    <3> QED BY <1>1, <1>2, <3>1 DEF TypeOK
  <2>2. ASSUME NEW n \in Machines PROVE late'[n] <= Len(up'[n])
    <3>1. CASE n = m
      <4>1. late'[n] = i /\ Len(up'[n]) = i
        BY <1>7, <1>8, <3>1
      <4> QED BY <1>5, <4>1
    <3>2. CASE n # m
      BY <1>1, <1>8, <3>2 DEF TypeOK
    <3> QED BY <3>1, <3>2
  <2>3. faults' \in 0..MaxFaults
    BY <1>1, FaultCounted DEF Break
  <2> QED BY <1>1, <1>2, <1>8, <1>9, <2>1, <2>2, <2>3 DEF TypeOK, Untouched
<1> QED BY <1>10, <1>11, <1>12, <1>13, <1>14, <1>15 DEF IInv

LEMMA CrashKeeps == ASSUME IInv, Crash PROVE IInv'
<1>1. TypeOK /\ JobFits /\ Tokens
  BY DEF IInv
<1>2. /\ serverUp' = FALSE /\ job' = None /\ answer' = answer /\ Untouched
      /\ connected' = [m \in Machines |-> FALSE]
      /\ up' = [m \in Machines |-> <<>>] /\ late' = [m \in Machines |-> 0]
  BY DEF Crash, client, ghosts, Untouched
<1>3. ASSUME NEW n \in Machines
      PROVE  /\ ~connected'[n] /\ up'[n] = <<>> /\ late'[n] = 0 /\ Len(up'[n]) = 0
             /\ Len(up[n]) \in Nat
  <2>1. up[n] \in Seq(Requests)
    BY <1>1 DEF TypeOK
  <2>2. ~connected'[n] /\ up'[n] = <<>> /\ late'[n] = 0
    BY <1>2
  <2>3. Len(up'[n]) = 0
    BY <2>2
  <2> QED BY <2>1, <2>2, <2>3, LenProperties
<1>4. ASSUME NEW n \in Machines PROVE Fits(n)'
  <2>1. late'[n] <= Len(up[n]) /\ late'[n] \in Nat /\ 1..late'[n] = {}
    BY <1>3
  <2>2. Cut(n)
    BY <1>2, <1>3, <2>1 DEF Cut, Untouched
  <2> QED BY <1>1, <1>2, <2>2, CutFits DEF IInv
<1>5. JobFits'
  BY <1>2 DEF JobFits
<1>6. Tokens' /\ NoOrphans'
  BY <1>1, <1>2 DEF Tokens, NoOrphans, IInv, Untouched
<1>7. SuccessIsComplete' /\ MailedCodeWorks'
  BY <1>2 DEF SuccessIsComplete, MailedCodeWorks, IInv, Untouched
<1>8. up' \in [Machines -> Seq(Requests)]
  <2>1. <<>> \in Seq(Requests)
    BY EmptySeq
  <2> QED BY <1>2, <2>1
<1>9. Owners'
  <2>1. \A n \in Machines : Under(n)' = {}
    BY <1>3 DEF Under
  <2> QED BY <1>2, <1>3, <1>8, <2>1, CutOwners
<1>10. TypeOK'
  <2>1. connected' \in [Machines -> BOOLEAN] /\ late' \in [Machines -> Nat]
    BY <1>2
  <2>2. \A n \in Machines : late'[n] <= Len(up'[n])
    BY <1>3
  <2>3. faults' \in 0..MaxFaults
    BY <1>1, FaultCounted DEF Crash
  <2> QED BY <1>1, <1>2, <1>8, <2>1, <2>2, <2>3 DEF TypeOK, Untouched
<1> QED BY <1>4, <1>5, <1>6, <1>7, <1>9, <1>10 DEF IInv

\* Nothing but serverUp, or nothing, changes.
LEMMA Standing ==
  ASSUME IInv, Untouched, serverUp' \in BOOLEAN, job' = job, answer' = answer,
         up' = up, late' = late, connected' = connected, faults' = faults
  PROVE  IInv'
<1>1. TypeOK /\ JobFits /\ Tokens
  BY DEF IInv
<1>2. TypeOK'
  BY <1>1 DEF TypeOK, Untouched
<1>3. JobFits' /\ Tokens' /\ NoOrphans'
  BY DEF IInv, JobFits, Tokens, NoOrphans, Untouched
<1>4. SuccessIsComplete' /\ MailedCodeWorks'
  BY DEF IInv, SuccessIsComplete, MailedCodeWorks, Untouched
<1>5. Owners'
  BY DEF IInv, Owners, MayType, Asks, Under, Validates, Untouched
<1>6. ASSUME NEW n \in Machines PROVE Fits(n)'
  <2>1. Same(n)
    BY DEF Same, Registering, Untouched
  <2>2. Grows
    <3>1. pats \in Nat
      BY <1>1 DEF TypeOK
    <3> QED BY <3>1 DEF Grows, Untouched
  <2>3. RowsStand(n)
    BY DEF RowsStand, IInv, Fits, TokenFits, Untouched
  <2> QED BY <1>1, <2>1, <2>2, <2>3, OthersFit DEF IInv
<1> QED BY <1>2, <1>3, <1>4, <1>5, <1>6 DEF IInv

LEMMA RestartKeeps == ASSUME IInv, Restart PROVE IInv'
BY Standing DEF Restart, Untouched, client, bounds, ghosts

LEMMA Stutters == ASSUME IInv, UNCHANGED vars PROVE IInv'
<1>1. serverUp \in BOOLEAN
  BY DEF IInv, TypeOK
<1> QED BY <1>1, Standing DEF vars, Untouched, server, client, bounds, ghosts

-----------------------------------------------------------------------------
LEMMA InitIInv == Init => IInv
<1> SUFFICES ASSUME Init PROVE IInv
  OBVIOUS
<1>1. <<>> \in Seq(Requests) /\ Len(<<>>) = 0
  BY EmptySeq
<1>2. 0 \in 0..MaxPat /\ 0 \in 0..MaxClicks /\ 0 \in 0..MaxFaults
  BY BoundsAssumption
<1>3. \A n \in Machines :
        /\ page[n] = "off" /\ who[n] = None /\ wait[n] = None /\ answer[n] = None
        /\ up[n] = <<>> /\ late[n] = 0 /\ connected[n] = FALSE /\ patFile[n] = None
        /\ kept[n] = FALSE /\ mailed[n] = None /\ refused[n] = None
  BY DEF Init
<1>4. TypeOK
  <2>1. /\ page \in [Machines -> Screens] /\ who \in [Machines -> Users \cup {None}]
        /\ wait \in [Machines -> Requests \cup {None}]
        /\ answer \in [Machines -> {None, "success", "failure"} \cup Users]
        /\ up \in [Machines -> Seq(Requests)] /\ late \in [Machines -> Nat]
        /\ connected \in [Machines -> BOOLEAN]
        /\ patFile \in [Machines -> PATs \cup {None}] /\ held \in [Machines -> BOOLEAN]
        /\ kept \in [Machines -> BOOLEAN] /\ mailed \in [Machines -> Codes \cup {None}]
        /\ refused \in [Machines -> Codes \cup {None}]
    BY <1>1 DEF Init, Screens
  <2>2. \A n \in Machines : late[n] <= Len(up[n])
    BY <1>1, <1>3
  <2>3. /\ serverUp \in BOOLEAN /\ users \subseteq Users /\ numerar \subseteq users
        /\ sessions \subseteq users \X PATs /\ codes \subseteq Codes /\ job = None
        /\ pats \in 0..MaxPat /\ clicks \in 0..MaxClicks /\ faults \in 0..MaxFaults
        /\ cutOff \subseteq PATs /\ confirmed \subseteq Users /\ shared \subseteq Codes
    BY <1>2 DEF Init
  <2> QED BY <2>1, <2>2, <2>3 DEF TypeOK, Screens
<1>5. JobFits /\ Tokens /\ NoOrphans
  BY <1>3 DEF Init, JobFits, Tokens, NoOrphans
<1>6. SuccessIsComplete /\ MailedCodeWorks
  BY <1>3 DEF Init, SuccessIsComplete, MailedCodeWorks
<1>7. \A n \in Machines : Under(n) = {}
  BY <1>1, <1>3 DEF Under
<1>8. Owners
  <2>1. \A c \in Codes, n \in Machines : ~MayType(n, c)
    BY <1>3, NoneAssumption DEF MayType
  <2> QED BY <1>7, <2>1 DEF Owners
<1>9. ASSUME NEW n \in Machines PROVE Fits(n)
  <2>1. PageFits(n)
    BY <1>3 DEF PageFits, Asks
  <2>2. QueueFits(n)
    BY <1>1, <1>3 DEF QueueFits, Awaits
  <2>3. AnswerHolds(n) /\ RowThere(n) /\ RowGone(n)
    BY <1>3 DEF AnswerHolds, RowThere, RowGone, Asks
  <2>4. TokenFits(n)
    BY <1>3, <1>7 DEF TokenFits
  <2> QED BY <2>1, <2>2, <2>3, <2>4 DEF Fits
<1> QED BY <1>4, <1>5, <1>6, <1>8, <1>9 DEF IInv

LEMMA ClientKeeps ==
  ASSUME NEW m \in Machines, IInv, Client(m)
  PROVE  IInv'
<1>1. CASE Launch(m)
  BY <1>1, LaunchStarts, StartsKeeps
<1>2. CASE ClickValidate(m)
  BY <1>2, ClickValidateStarts, StartsKeeps
<1>3. CASE ClickUpdate(m)
  BY <1>3, ClickUpdateStarts, StartsKeeps
<1>4. CASE ClickLogout(m)
  BY <1>4, ClickLogoutStarts, StartsKeeps
<1>5. CASE Close(m)
  BY <1>5, CloseStarts, StartsKeeps
<1>6. CASE \E u \in Users, op \in {"Register", "Login", "Forgot"} : ClickLoginPage(m, op, u)
  BY <1>6, ClickLoginPageStarts, StartsKeeps
<1>7. CASE Remembered(m)
  BY <1>7, RememberedReturns, ReturnsKeeps
<1>8. CASE Loaded(m)
  BY <1>8, LoadedReturns, ReturnsKeeps
<1>9. CASE LoggedOut(m)
  BY <1>9, LoggedOutReturns, ReturnsKeeps
<1>10. CASE Told(m)
  BY <1>10, ToldReturns, ReturnsKeeps
<1>11. CASE GivesUp(m)
  BY <1>11, GivesUpReturns, ReturnsKeeps
<1>12. CASE \E keep \in BOOLEAN : LoggedIn(m, keep)
  <2>1. PICK u \in Users, token \in PATs \cup {None} : Opens(m, u, token)
    BY <1>12, LoggedInOpens
  <2> QED BY <2>1, OpensKeeps
<1> QED BY <1>1, <1>2, <1>3, <1>4, <1>5, <1>6, <1>7, <1>8, <1>9, <1>10, <1>11, <1>12
        DEF Client

LEMMA ServeKeeps ==
  ASSUME NEW m \in Machines, IInv, Serve(m)
  PROVE  IInv'
<1>1. Handles(m)
  BY RegisterUserHandles, OnLoginHandles, OnLoginRememberedHandles, OnRememberMeHandles,
     OnLogoutHandles, OnForgotHandles, OnValidateHandles, OnOtherHandles DEF Serve
<1> QED BY <1>1, HandlesKeeps

\* The inductive invariant.
LEMMA Invariance == Spec => []IInv
<1>1. IInv /\ [Next]_vars => IInv'
  <2> SUFFICES ASSUME IInv, [Next]_vars PROVE IInv'
    OBVIOUS
  <2>1. ASSUME NEW m \in Machines, Client(m) PROVE IInv'
    BY <2>1, ClientKeeps
  <2>2. ASSUME NEW m \in Machines, Serve(m) PROVE IInv'
    BY <2>2, ServeKeeps
  <2>3. ASSUME NEW m \in Machines, Break(m) PROVE IInv'
    BY <2>3, BreakKeeps
  <2>4. CASE RegisterCash
    BY <2>4, RegisterCashKeeps
  <2>5. CASE RegisterFails
    BY <2>5, RegisterFailsKeeps
  <2>6. CASE Crash
    BY <2>6, CrashKeeps
  <2>7. CASE Restart
    BY <2>7, RestartKeeps
  <2>8. CASE UNCHANGED vars
    BY <2>8, Stutters
  <2> QED BY <2>1, <2>2, <2>3, <2>4, <2>5, <2>6, <2>7, <2>8 DEF Next
<1> QED BY <1>1, InitIInv, PTL DEF Spec

\* Tables, files, queues and pages hold what they are declared to.
THEOREM TypeCorrect == Spec => []TypeOK
<1>1. IInv => TypeOK
  BY DEF IInv
<1> QED BY <1>1, Invariance, PTL

\* Whoever asked to be kept logged in and sees the dashboard has the row of his
\* PAT.txt in Sessions while the connection lasts, whatever others do
\* (startup.cpp:654-659).
THEOREM KeptLoginIsThere == Spec => []KeptLoginHasRow
<1>1. IInv => KeptLoginHasRow
  BY DEF IInv, Fits, RowThere, KeptLoginHasRow, Idle, Asks
<1> QED BY <1>1, Invariance, PTL

\* Every row of Sessions has its PAT.txt on some machine, but for the logouts
\* that were cut off (dashboard.cpp:72).
THEOREM RowsHaveFiles == Spec => []NoOrphans
<1>1. IInv => NoOrphans
  BY DEF IInv
<1> QED BY <1>1, Invariance, PTL

\* Who was told of his registration has an account and its cash, wherever the
\* server failed (clever_IServer.h:1613-1620).
THEOREM ConfirmedIsComplete == Spec => []SuccessIsComplete
<1>1. IInv => SuccessIsComplete
  BY DEF IInv
<1> QED BY <1>1, Invariance, PTL

\* A mailed code is refused only if the same code was mailed while its file was
\* on the disk (clever_IServer.h:1503 and 1679).
THEOREM CodesWork == Spec => []MailedCodeWorks
<1>1. IInv => MailedCodeWorks
  BY DEF IInv
<1> QED BY <1>1, Invariance, PTL

=============================================================================
