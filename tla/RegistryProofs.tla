--------------------------- MODULE RegistryProofs ---------------------------
(***************************************************************************)
(* Theorems about Registry for any set of connections and any number of    *)
(* broadcasts.  The walk meets each connection once because the container  *)
(* holds each once and, until it is raced, nobody else changes it; nothing *)
(* the server was told is gone comes back, because only new connections    *)
(* are appended.                                                           *)
(***************************************************************************)
EXTENDS Registry, SequenceTheorems, TLAPS

USE NullAssumption, MaxBroadcastsAssumption

\* What the container holds, at any time.
Contents ==
  /\ \A i, j \in 1..Len(m_deqConnections) :
       m_deqConnections[i] = m_deqConnections[j] /\ m_deqConnections[i] # Null => i = j
  /\ \A k \in 1..Len(m_deqConnections) :
       m_deqConnections[k] # Null =>
         state[m_deqConnections[k]] # "new" /\ m_deqConnections[k] \notin gone
  /\ \A c \in Conn :
       IsConnected(c) => \E k \in 1..Len(m_deqConnections) : m_deqConnections[k] = c
  /\ \A c \in gone : state[c] = "closed"
  /\ \A c \in staying : IsConnected(c)

\* Between two broadcasts.
AtRest ==
  loop = "idle" =>
    /\ ~raced
    /\ \A k \in 1..Len(m_deqConnections) : m_deqConnections[k] # Null

\* In a broadcast that is not raced: what is before at was visited, what is
\* behind it is still to come.
Walk ==
  loop # "idle" /\ ~raced =>
    /\ last = Len(m_deqConnections) /\ at <= last + 1
    /\ loop = "erase" => at = last + 1
    /\ \A k \in at..last : m_deqConnections[k] # Null
    /\ \A i \in 1..Len(sentTo) :
         /\ sentTo[i] # ignore
         /\ \A k \in at..last : m_deqConnections[k] # sentTo[i]
    /\ \A i, j \in 1..Len(sentTo) : sentTo[i] = sentTo[j] => i = j
    /\ \A c \in staying \ {ignore} :
         \/ \E i \in 1..Len(sentTo) : sentTo[i] = c
         \/ \E k \in at..last : m_deqConnections[k] = c

IInv == TypeOK /\ Contents /\ AtRest /\ Walk

-----------------------------------------------------------------------------
\* The initial state satisfies the inductive invariant.
LEMMA InitIInv == Init => IInv
<1> SUFFICES ASSUME Init PROVE IInv
  OBVIOUS
<1> USE DEF Init
<1>1. m_deqConnections \in Seq(Conn \cup {Null}) /\ sentTo \in Seq(Conn)
      /\ Len(m_deqConnections) = 0
  BY EmptySeq
<1>2. TypeOK
  <2>1. state \in [Conn -> {"new", "unvalidated", "active", "closed"}]
    OBVIOUS
  <2>2. at \in Nat \ {0} /\ last \in Nat /\ broadcasts \in 0..MaxBroadcasts
    OBVIOUS
  <2>3. QED BY <1>1, <2>1, <2>2 DEF TypeOK
<1>3. Contents
  BY <1>1 DEF Contents, IsConnected
<1>4. AtRest /\ Walk
  BY <1>1 DEF AtRest, Walk
<1>5. QED BY <1>2, <1>3, <1>4 DEF IInv

\* What Erase leaves: all that is not null, each once.
LEMMA EraseKeeps ==
  ASSUME TypeOK, Contents, Erase
  PROVE  /\ m_deqConnections' \in Seq(Conn)
         /\ \A i, j \in 1..Len(m_deqConnections') :
              m_deqConnections'[i] = m_deqConnections'[j] => i = j
         /\ \A c \in Conn :
              (\E k \in 1..Len(m_deqConnections') : m_deqConnections'[k] = c)
                <=> \E k \in 1..Len(m_deqConnections) : m_deqConnections[k] = c
<1>1. PICK n \in 0..Len(m_deqConnections) :
        \E f \in [1..n -> 1..Len(m_deqConnections)] :
          Keeps(f, n) /\ m_deqConnections' = [i \in 1..n |-> m_deqConnections[f[i]]]
  BY DEF Erase
<1>2. PICK f \in [1..n -> 1..Len(m_deqConnections)] :
          Keeps(f, n) /\ m_deqConnections' = [i \in 1..n |-> m_deqConnections[f[i]]]
  BY <1>1
<1>3. \A i \in 1..n : m_deqConnections[f[i]] \in Conn
  BY <1>2 DEF Keeps, TypeOK
<1>4. m_deqConnections' \in Seq(Conn) /\ Len(m_deqConnections') = n
  BY <1>2, <1>3
<1>5. ASSUME NEW i \in 1..n, NEW j \in 1..n, m_deqConnections'[i] = m_deqConnections'[j]
      PROVE  i = j
  <2>1. m_deqConnections[f[i]] = m_deqConnections[f[j]] /\ m_deqConnections[f[i]] # Null
    BY <1>2, <1>3, <1>5
  <2>2. f[i] = f[j] /\ f[i] \in Nat
    BY <2>1, <1>2 DEF Contents
  <2>3. QED BY <1>2, <2>2 DEF Keeps
<1>6. ASSUME NEW c \in Conn
      PROVE  (\E k \in 1..n : m_deqConnections'[k] = c)
               <=> \E k \in 1..Len(m_deqConnections) : m_deqConnections[k] = c
  BY <1>2 DEF Keeps
<1>7. QED BY <1>4, <1>5, <1>6

\* Every step keeps every variable within its type.
LEMMA TypeStep == IInv /\ [Next]_regVars => TypeOK'
<1> SUFFICES ASSUME IInv, [Next]_regVars PROVE TypeOK'
  OBVIOUS
<1> USE DEF IInv, TypeOK
<1>1. ASSUME NEW c \in Conn, Accept(c) PROVE TypeOK'
  BY <1>1 DEF Accept
<1>2. ASSUME NEW c \in Conn, Validate(c) PROVE TypeOK'
  BY <1>2 DEF Validate
<1>3. ASSUME NEW c \in Conn, Close(c) PROVE TypeOK'
  BY <1>3 DEF Close
<1>4. ASSUME NEW c \in Conn, MessageAllClients(c) PROVE TypeOK'
  <2>1. sentTo' \in Seq(Conn)
    BY <1>4, EmptySeq DEF MessageAllClients
  <2>2. QED BY <1>4, <2>1 DEF MessageAllClients
<1>5. CASE Visit
  <2>1. at \in 1..Len(m_deqConnections) /\ m_deqConnections[at] \in Conn
    BY <1>5 DEF Visit, Walk
  <2>2. /\ Append(sentTo, m_deqConnections[at]) \in Seq(Conn)
        /\ [m_deqConnections EXCEPT ![at] = Null] \in Seq(Conn \cup {Null})
    BY <2>1
  <2>3. /\ m_deqConnections' \in Seq(Conn \cup {Null}) /\ sentTo' \in Seq(Conn)
        /\ gone' \subseteq Conn
    BY <1>5, <2>1, <2>2 DEF Visit
  <2>4. at' \in Nat \ {0}
    BY <1>5 DEF Visit
  <2>5. QED BY <1>5, <2>3, <2>4 DEF Visit
<1>6. CASE EndWalk
  BY <1>6 DEF EndWalk
<1>7. CASE Erase
  <2>1. m_deqConnections' \in Seq(Conn \cup {Null})
    BY <1>7, EraseKeeps, SeqMonotonic
  <2>2. QED BY <1>7, <2>1 DEF Erase
<1>8. CASE UNCHANGED regVars
  BY <1>8 DEF regVars
<1>9. QED
  BY <1>1, <1>2, <1>3, <1>4, <1>5, <1>6, <1>7, <1>8 DEF Next

\* The container holds each connection once, all that are connected and none
\* that is gone (WaitForClientConnection and MessageAllClients together).
LEMMA ContentsStep == IInv /\ [Next]_regVars => Contents'
<1> SUFFICES ASSUME IInv, [Next]_regVars PROVE Contents'
  OBVIOUS
<1> USE DEF IInv, TypeOK, Contents, IsConnected
<1>1. ASSUME NEW c \in Conn, Accept(c) PROVE Contents'
  <2>1. /\ Len(m_deqConnections') = Len(m_deqConnections) + 1
        /\ \A k \in 1..Len(m_deqConnections) : m_deqConnections'[k] = m_deqConnections[k]
        /\ m_deqConnections'[Len(m_deqConnections) + 1] = c
    BY <1>1 DEF Accept
  <2>2. \A k \in 1..Len(m_deqConnections) : m_deqConnections[k] # c
    BY <1>1 DEF Accept
  <2>3. QED BY <1>1, <2>1, <2>2 DEF Accept
<1>2. ASSUME NEW c \in Conn, Validate(c) PROVE Contents'
  BY <1>2 DEF Validate
<1>3. ASSUME NEW c \in Conn, Close(c) PROVE Contents'
  BY <1>3 DEF Close
<1>4. ASSUME NEW c \in Conn, MessageAllClients(c) PROVE Contents'
  BY <1>4 DEF MessageAllClients
<1>5. CASE Visit
  <2> DEFINE c == m_deqConnections[at]
  <2>1. at \in 1..Len(m_deqConnections) /\ c \in Conn
    BY <1>5 DEF Visit, Walk
  <2>2. CASE IsConnected(c)
    BY <1>5, <2>1, <2>2 DEF Visit
  <2>3. CASE ~IsConnected(c)
    <3>1. /\ m_deqConnections' = [m_deqConnections EXCEPT ![at] = Null]
          /\ gone' = gone \cup {c} /\ UNCHANGED <<state, staying>>
      BY <1>5, <2>1, <2>3 DEF Visit
    <3>2. state[c] = "closed"
      BY <2>1, <2>3
    <3>3. QED BY <2>1, <2>3, <3>1, <3>2
  <2>4. QED BY <2>2, <2>3
<1>6. CASE EndWalk
  BY <1>6 DEF EndWalk
<1>7. CASE Erase
  <2>1. UNCHANGED <<state, gone, staying>>
    BY <1>7 DEF Erase
  <2>2. \A k \in 1..Len(m_deqConnections') :
          \E j \in 1..Len(m_deqConnections) : m_deqConnections'[k] = m_deqConnections[j]
    BY <1>7, EraseKeeps
  <2>3. QED BY <1>7, <2>1, <2>2, EraseKeeps
<1>8. CASE UNCHANGED regVars
  BY <1>8 DEF regVars
<1>9. QED
  BY <1>1, <1>2, <1>3, <1>4, <1>5, <1>6, <1>7, <1>8 DEF Next

\* A broadcast that ends leaves no null (clever_IServer.h:226-231).
LEMMA AtRestStep == IInv /\ [Next]_regVars => AtRest'
<1> SUFFICES ASSUME IInv, [Next]_regVars PROVE AtRest'
  OBVIOUS
<1> USE DEF IInv, TypeOK, AtRest
<1>1. ASSUME NEW c \in Conn, Accept(c) PROVE AtRest'
  BY <1>1 DEF Accept
<1>2. ASSUME NEW c \in Conn, Validate(c) \/ Close(c) \/ MessageAllClients(c)
      PROVE  AtRest'
  BY <1>2 DEF Validate, Close, MessageAllClients
<1>3. CASE Visit
  BY <1>3 DEF Visit
<1>4. CASE EndWalk
  BY <1>4 DEF EndWalk
<1>5. CASE Erase
  <2>1. m_deqConnections' \in Seq(Conn)
    BY <1>5, EraseKeeps
  <2>2. QED BY <1>5, <2>1 DEF Erase
<1>6. CASE UNCHANGED regVars
  BY <1>6 DEF regVars
<1>7. QED
  BY <1>1, <1>2, <1>3, <1>4, <1>5, <1>6 DEF Next

\* The walk sends to each connection it finds open, once, and to no other.
LEMMA WalkStep == IInv /\ [Next]_regVars => Walk'
<1> SUFFICES ASSUME IInv, [Next]_regVars PROVE Walk'
  OBVIOUS
<1> USE DEF IInv, TypeOK, Walk
<1>1. ASSUME NEW c \in Conn, Accept(c) PROVE Walk'
  BY <1>1 DEF Accept
<1>2. ASSUME NEW c \in Conn, Validate(c) PROVE Walk'
  BY <1>2 DEF Validate
<1>3. ASSUME NEW c \in Conn, Close(c) PROVE Walk'
  BY <1>3 DEF Close
<1>4. ASSUME NEW c \in Conn, MessageAllClients(c) PROVE Walk'
  <2>1. /\ loop' = "walk" /\ at' = 1 /\ last' = Len(m_deqConnections)
        /\ Len(sentTo') = 0 /\ staying' = {d \in Conn : IsConnected(d)}
        /\ UNCHANGED <<m_deqConnections, raced>>
    BY <1>4, EmptySeq DEF MessageAllClients
  <2>2. \A k \in 1..Len(m_deqConnections) : m_deqConnections[k] # Null
    BY <1>4 DEF MessageAllClients, AtRest
  <2>3. \A d \in staying' : \E k \in 1..Len(m_deqConnections) : m_deqConnections[k] = d
    BY <2>1 DEF Contents
  <2>4. QED BY <2>1, <2>2, <2>3
<1>5. CASE Visit
  <2> DEFINE c == m_deqConnections[at]
  <2>1. at \in 1..Len(m_deqConnections) /\ c \in Conn /\ last = Len(m_deqConnections)
    BY <1>5 DEF Visit
  <2>2. \A k \in at + 1..last : m_deqConnections[k] # c
    BY <2>1 DEF Contents
  <2>3. UNCHANGED <<last, loop, ignore, staying, raced>> /\ at' = at + 1
    BY <1>5 DEF Visit
  <2>4. CASE IsConnected(c) /\ c # ignore
    <3>1. /\ m_deqConnections' = m_deqConnections
          /\ Len(sentTo') = Len(sentTo) + 1 /\ sentTo'[Len(sentTo) + 1] = c
          /\ \A i \in 1..Len(sentTo) : sentTo'[i] = sentTo[i]
      BY <1>5, <2>1, <2>4 DEF Visit
    <3>2. \A i \in 1..Len(sentTo) : sentTo[i] # c
      BY <1>5, <2>1 DEF Visit
    <3>3. loop = "walk" /\ ~raced
      BY <1>5 DEF Visit
    <3>4. /\ \A i \in 1..Len(sentTo') :
               /\ sentTo'[i] # ignore
               /\ \A k \in at + 1..last : m_deqConnections[k] # sentTo'[i]
          /\ \A i, j \in 1..Len(sentTo') : sentTo'[i] = sentTo'[j] => i = j
      <4>1. \A i \in 1..Len(sentTo') : i \in 1..Len(sentTo) \/ i = Len(sentTo) + 1
        BY <3>1
      <4>2. \A i \in 1..Len(sentTo) : \A k \in at..last : m_deqConnections[k] # sentTo[i]
        BY <3>3
      <4>3. \A i \in 1..Len(sentTo) : sentTo[i] # ignore
        BY <3>3
      <4>4. \A i, j \in 1..Len(sentTo) : sentTo[i] = sentTo[j] => i = j
        BY <3>3
      <4>5. \A k \in at + 1..last : k \in at..last
        BY <2>1
      <4> HIDE DEF IInv, TypeOK, Walk
      <4>6. QED BY <2>2, <2>4, <3>1, <3>2, <4>1, <4>2, <4>3, <4>4, <4>5
    <3>5. ASSUME NEW d \in staying \ {ignore}
          PROVE  \/ \E i \in 1..Len(sentTo') : sentTo'[i] = d
                 \/ \E k \in at + 1..last : m_deqConnections[k] = d
      <4>1. CASE \E i \in 1..Len(sentTo) : sentTo[i] = d
        BY <3>1, <4>1
      <4>2. CASE \E k \in at..last : m_deqConnections[k] = d
        BY <2>1, <3>1, <4>2
      <4>3. QED BY <3>3, <4>1, <4>2
    <3>6. QED BY <2>1, <2>3, <3>1, <3>3, <3>4, <3>5
  <2>5. CASE IsConnected(c) /\ c = ignore
    <3>1. UNCHANGED <<m_deqConnections, sentTo>>
      BY <1>5, <2>1, <2>5 DEF Visit
    <3>2. QED BY <1>5, <2>1, <2>3, <2>5, <3>1 DEF Visit
  <2>6. CASE ~IsConnected(c)
    <3>1. m_deqConnections' = [m_deqConnections EXCEPT ![at] = Null] /\ sentTo' = sentTo
      BY <1>5, <2>1, <2>6 DEF Visit
    <3>2. c \notin staying
      BY <2>6 DEF Contents
    <3>3. /\ Len(m_deqConnections') = Len(m_deqConnections)
          /\ \A k \in at + 1..last : m_deqConnections'[k] = m_deqConnections[k]
      BY <2>1, <3>1
    <3>4. QED BY <1>5, <2>1, <2>3, <3>1, <3>2, <3>3 DEF Visit
  <2>7. QED BY <2>4, <2>5, <2>6
<1>6. CASE EndWalk
  BY <1>6 DEF EndWalk
<1>7. CASE Erase
  BY <1>7 DEF Erase
<1>8. CASE UNCHANGED regVars
  BY <1>8 DEF regVars
<1>9. QED
  BY <1>1, <1>2, <1>3, <1>4, <1>5, <1>6, <1>7, <1>8 DEF Next

\* The inductive invariant holds in all reachable states.
LEMMA Invariance == Spec => []IInv
<1>1. IInv /\ [Next]_regVars => IInv'
  BY TypeStep, ContentsStep, AtRestStep, WalkStep DEF IInv
<1>2. QED BY InitIInv, <1>1, PTL DEF Spec

-----------------------------------------------------------------------------
\* Every variable of the registry keeps its type; with it, that the walk never
\* hands a null pointer to OnClientDisconnect (gone holds connections only).
THEOREM TypeCorrect == Spec => []TypeOK
<1>1. IInv => TypeOK
  BY DEF IInv
<1>2. QED BY Invariance, <1>1, PTL

\* A broadcast that is not raced goes exactly once to everyone who stays
\* connected and not to the client that asked (clever_IServer.h:199-224).
THEOREM BroadcastReaches == Spec => []BroadcastReachesAll
<1>1. ASSUME IInv, loop = "erase", ~raced
      PROVE  /\ staying \ {ignore} \subseteq ToSet(sentTo)
             /\ ignore \notin ToSet(sentTo)
             /\ IsInjective(sentTo)
  <2>1. DOMAIN sentTo = 1..Len(sentTo) /\ at = last + 1 /\ last \in Nat
    BY <1>1 DEF IInv, TypeOK, Walk
  <2>2. QED BY <1>1, <2>1 DEF IInv, Walk, ToSet, IsInjective
<1>2. IInv => BroadcastReachesAll
  BY <1>1 DEF BroadcastReachesAll
<1>3. QED BY Invariance, <1>2, PTL

\* Between two broadcasts the container holds no null pointer and no connection
\* twice (clever_IServer.h:226-231).
THEOREM NullsAreErased == Spec => []NoNullsLeft
<1>1. ASSUME IInv, loop = "idle"
      PROVE  /\ Null \notin ToSet(m_deqConnections)
             /\ IsInjective(m_deqConnections)
  <2>1. DOMAIN m_deqConnections = 1..Len(m_deqConnections)
    BY <1>1 DEF IInv, TypeOK
  <2>2. QED BY <1>1, <2>1 DEF IInv, AtRest, Contents, ToSet, IsInjective
<1>2. IInv => NoNullsLeft
  BY <1>1 DEF NoNullsLeft
<1>3. QED BY Invariance, <1>2, PTL

\* A client the server was told is gone does not come back into the container
\* (clever_IServer.h:216-230).
THEOREM GoneStayAway == Spec => []GoneIsRemoved
<1>1. ASSUME IInv, loop = "idle"
      PROVE  gone \cap ToSet(m_deqConnections) = {}
  <2>1. DOMAIN m_deqConnections = 1..Len(m_deqConnections)
    BY <1>1 DEF IInv, TypeOK
  <2>2. QED BY <1>1, <2>1 DEF IInv, AtRest, Contents, ToSet
<1>2. IInv => GoneIsRemoved
  BY <1>1 DEF GoneIsRemoved
<1>3. QED BY Invariance, <1>2, PTL
=============================================================================
