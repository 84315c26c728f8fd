------------------------------ MODULE Registry ------------------------------
(***************************************************************************)
(* m_deqConnections, the server's container of connections                 *)
(* (CleverCore/clever_IServer.h).  The asio thread appends to it when a    *)
(* client connects and closes sockets when a read or write fails; the main *)
(* thread walks through it in MessageAllClients, one connection at a step, *)
(* and throws out the dead ones.  No mutex protects it.                    *)
(***************************************************************************)
EXTENDS Naturals, Sequences, FiniteSets, SequencesExt

CONSTANTS
  Conn,          \* the connections clients open
  Null,          \* a shared_ptr that was reset
  MaxBroadcasts  \* bound: MessageAll requests

ASSUME NullAssumption == Null \notin Conn
ASSUME MaxBroadcastsAssumption == MaxBroadcasts \in Nat

VARIABLES
  m_deqConnections,
  state,         \* what became of each connection
  loop,          \* the main thread: "idle", "walk" or "erase"
  at,            \* the index the walk has reached
  last,          \* the end of the container when the walk began
  ignore,        \* pIgnoreClient
  sentTo,        \* to whom the message of this broadcast went, in order
  staying,       \* who was connected when the broadcast began and still is
  broadcasts,    \* how many were begun
  gone,          \* the connections OnClientDisconnect was called for
  raced          \* the asio thread changed the container during a walk:
                 \* from then on the iterators of the walk are invalid and
                 \* what it does is undefined

regVars == <<m_deqConnections, state, loop, at, last, ignore, sentTo, staying,
             broadcasts, gone, raced>>

TypeOK ==
  /\ m_deqConnections \in Seq(Conn \cup {Null})
  /\ state \in [Conn -> {"new", "unvalidated", "active", "closed"}]
  /\ loop \in {"idle", "walk", "erase"}
  /\ at \in Nat \ {0}
  /\ last \in Nat
  /\ ignore \in Conn \cup {Null}
  /\ sentTo \in Seq(Conn)
  /\ staying \subseteq Conn
  /\ broadcasts \in 0..MaxBroadcasts
  /\ gone \subseteq Conn
  /\ raced \in BOOLEAN

Init ==
  /\ m_deqConnections = <<>>
  /\ state = [c \in Conn |-> "new"]
  /\ loop = "idle" /\ at = 1 /\ last = 0 /\ ignore = Null
  /\ sentTo = <<>> /\ staying = {} /\ broadcasts = 0
  /\ gone = {} /\ raced = FALSE

IsConnected(c) == state[c] \in {"unvalidated", "active"}

-----------------------------------------------------------------------------
(* The asio thread.                                                        *)

\* WaitForClientConnection's handler; OnClientConnect never refuses.
Accept(c) ==
  /\ state[c] = "new"
  /\ state' = [state EXCEPT ![c] = "unvalidated"]
  /\ m_deqConnections' = Append(m_deqConnections, c)
  /\ raced' = (raced \/ loop # "idle")
  /\ UNCHANGED <<loop, at, last, ignore, sentTo, staying, broadcasts, gone>>

\* ReadValidation's handler finds the answer right.
Validate(c) ==
  /\ state[c] = "unvalidated"
  /\ state' = [state EXCEPT ![c] = "active"]
  /\ UNCHANGED <<m_deqConnections, loop, at, last, ignore, sentTo, staying,
                 broadcasts, gone, raced>>

\* A handler of the connection fails and closes the socket; nobody tells the
\* container.
Close(c) ==
  /\ IsConnected(c)
  /\ state' = [state EXCEPT ![c] = "closed"]
  /\ staying' = staying \ {c}
  /\ UNCHANGED <<m_deqConnections, loop, at, last, ignore, sentTo, broadcasts,
                 gone, raced>>

-----------------------------------------------------------------------------
(* The main thread.                                                        *)

\* MessageAll from client c, which may have closed since it sent it.
MessageAllClients(c) ==
  /\ loop = "idle"
  /\ broadcasts < MaxBroadcasts
  /\ state[c] \in {"active", "closed"}
  /\ loop' = "walk"
  /\ at' = 1
  /\ last' = Len(m_deqConnections)
  /\ ignore' = c
  /\ sentTo' = <<>>
  /\ staying' = {d \in Conn : IsConnected(d)}
  /\ broadcasts' = broadcasts + 1
  /\ UNCHANGED <<m_deqConnections, state, gone, raced>>

\* The body of the loop for the connection the walk has reached.
MutantVisit ==   \* erases the dead connection while walking, and steps on
  /\ loop = "walk" /\ at <= last /\ at <= Len(m_deqConnections) /\ ~raced
  /\ at' = at + 1
  /\ LET c == m_deqConnections[at]
     IN  IF c # Null /\ IsConnected(c)
           THEN /\ sentTo' = IF c # ignore THEN Append(sentTo, c) ELSE sentTo
                /\ UNCHANGED <<m_deqConnections, last, gone>>
           ELSE /\ m_deqConnections' = RemoveAt(m_deqConnections, at)
                /\ last' = last - 1
                /\ gone' = gone \cup {c}
                /\ UNCHANGED sentTo
  /\ UNCHANGED <<state, loop, ignore, staying, broadcasts, raced>>

MutantVisitKeeping ==   \* forgets client.reset()
  /\ loop = "walk" /\ at <= last /\ ~raced
  /\ at' = at + 1
  /\ LET c == m_deqConnections[at]
     IN  IF c # Null /\ IsConnected(c)
           THEN /\ sentTo' = IF c # ignore THEN Append(sentTo, c) ELSE sentTo
                /\ UNCHANGED gone
           ELSE /\ gone' = gone \cup {c}
                /\ UNCHANGED sentTo
  /\ UNCHANGED <<m_deqConnections, state, loop, last, ignore, staying,
                 broadcasts, raced>>

Visit ==
  /\ loop = "walk" /\ at <= last /\ ~raced
  /\ at' = at + 1
  /\ LET c == m_deqConnections[at]
     IN  IF c # Null /\ IsConnected(c)
           THEN /\ sentTo' = IF c # ignore THEN Append(sentTo, c) ELSE sentTo
                /\ UNCHANGED <<m_deqConnections, gone>>
           ELSE /\ m_deqConnections' = [m_deqConnections EXCEPT ![at] = Null]
                /\ gone' = gone \cup {c}
                /\ UNCHANGED sentTo
  /\ UNCHANGED <<state, loop, last, ignore, staying, broadcasts, raced>>

EndWalk ==
  /\ loop = "walk" /\ at > last /\ ~raced
  /\ loop' = "erase"
  /\ UNCHANGED <<m_deqConnections, state, at, last, ignore, sentTo, staying,
                 broadcasts, gone, raced>>

MutantErase ==   \* forgets to erase
  /\ loop = "erase" /\ ~raced
  /\ loop' = "idle"
  /\ UNCHANGED <<m_deqConnections, state, at, last, ignore, sentTo, staying,
                 broadcasts, gone, raced>>

\* The indices f(1) < ... < f(n) are those of all that is not null.
Keeps(f, n) ==
  /\ \A i, j \in 1..n : i < j => f[i] < f[j]
  /\ \A k \in 1..Len(m_deqConnections) :
       m_deqConnections[k] # Null <=> \E i \in 1..n : f[i] = k

\* if (bInvalidClientExists) erase(remove(..., nullptr)); with no dead client
\* there is nothing to erase.
Erase ==
  /\ loop = "erase" /\ ~raced
  /\ loop' = "idle"
  /\ \E n \in 0..Len(m_deqConnections) :
       \E f \in [1..n -> 1..Len(m_deqConnections)] :
         Keeps(f, n) /\ m_deqConnections' = [i \in 1..n |-> m_deqConnections[f[i]]]
  /\ UNCHANGED <<state, at, last, ignore, sentTo, staying, broadcasts, gone,
                 raced>>

Next ==
  \/ \E c \in Conn : Accept(c) \/ Validate(c) \/ Close(c) \/ MessageAllClients(c)
  \/ Visit
  \/ EndWalk
  \/ Erase

Spec == Init /\ [][Next]_regVars

-----------------------------------------------------------------------------
(***************************************************************************)
(* Properties.  What a walk does after a race is undefined, so they speak  *)
(* of the time before.                                                     *)
(***************************************************************************)

\* A broadcast goes exactly once to everyone who stays connected while it is
\* sent, and not to the client that asked for it (IServer.h:200-224).
BroadcastReachesAll ==
  loop = "erase" /\ ~raced =>
    /\ staying \ {ignore} \subseteq ToSet(sentTo)
    /\ ignore \notin ToSet(sentTo)
    /\ IsInjective(sentTo)

\* Outside a broadcast the container holds no null pointer, which the next
\* broadcast would hand to OnClientDisconnect, and no connection twice.
NoNullsLeft ==
  loop = "idle" =>
    /\ Null \notin ToSet(m_deqConnections)
    /\ IsInjective(m_deqConnections)

\* A client the server was told is gone is no longer in the container
\* (IServer.h:216-230).
GoneIsRemoved == loop = "idle" => gone \cap ToSet(m_deqConnections) = {}
=============================================================================
