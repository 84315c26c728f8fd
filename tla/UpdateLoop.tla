----------------------------- MODULE UpdateLoop -----------------------------
(***************************************************************************)
(* server_interface::Update(-1, true), called for ever by the server's     *)
(* main(), as the consumer of the queue of incoming packets: wait for the  *)
(* queue, then test, pop and handle until it is empty.  The asio thread    *)
(* is the producer and only pushes at the back.                            *)
(***************************************************************************)
EXTENDS TSQueue

\* The operation the loop calls next, given the one that has just returned.
NextCall ==
  CASE op[Consumer] = "wait"                    -> "empty"
    [] op[Consumer] = "empty" /\ nonEmpty       -> "pop_front"
    [] op[Consumer] = "pop_front"               -> "empty"
    [] op[Consumer] = "empty" /\ ~nonEmpty      -> "wait"

Update == Call(NextCall)

Receive(p) == \E i \in Item : CallPush(p, "push_back", i)

LoopNext ==
  \/ \E p \in Producers : Receive(p) \/ ProducerStep(p)
  \/ Update
  \/ ConsumerStep
  \/ SpuriousWake

\* Both threads are scheduled; a mutex that is released again and again is
\* eventually granted; nothing promises a spurious wakeup.
Fairness ==
  /\ WF_vars(Update)
  /\ WF_vars(ConsumerStep)
  /\ SF_vars(LockQueue(Consumer))
  /\ SF_vars(LockBlocking(Consumer))
  /\ SF_vars(Relock)
  /\ \A p \in Producers :
       /\ WF_vars(ProducerStep(p))
       /\ SF_vars(LockQueue(p))
       /\ SF_vars(LockBlocking(p))

\* The clients may fall silent at any time ...
LoopSpec == Init /\ [][LoopNext]_vars /\ Fairness

\* ... or go on sending.
TrafficSpec == LoopSpec /\ \A p \in Producers : WF_vars(Receive(p))

-----------------------------------------------------------------------------
\* The loop does what its doc says, "Force server to respond to incoming
\* messages" (IServer.h:233): an incoming message does not stay in the queue.
\* A message that arrives between the test and the sleep of wait() does.
MessagesAreHandled == []<>(deqQueue = <<>> \/ nonEmpty)

\* While messages keep arriving the loop keeps handling them: a wakeup that
\* was lost is made good by the next push (lines 48-55 and 88-95).
HandlingGoesOn == []<><<Pop>>_vars

\* Every push_back finishes: neither the notification nor the sleeper keeps
\* the asio thread inside the queue (lines 48-55).
PushesFinish ==
  \A p \in Producers : []<>(pc[p] = "idle")
=============================================================================
