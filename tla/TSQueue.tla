------------------------------ MODULE TSQueue ------------------------------
(***************************************************************************)
(* clever::tsqueue (CleverCore/clever_TSQueue.h), the queue between the    *)
(* asio thread, which pushes what a socket delivered, and the thread that  *)
(* handles messages (main on the server, the UI thread on the client).     *)
(*                                                                         *)
(* One step is one acquisition or release of a mutex, one critical section *)
(* or one call of the condition variable, so every interleaving of the     *)
(* operations of the code is a behaviour.  muxQueue protects the deque;    *)
(* muxBlocking is held while notifying and while going to sleep, but the   *)
(* emptiness test of wait() is made under muxQueue alone.                  *)
(***************************************************************************)
EXTENDS Naturals, Sequences, FiniteSets

CONSTANTS
  Producers,    \* threads that push (the asio thread)
  Consumer,     \* the one thread that waits, tests, pops and clears
  Item,         \* the messages
  None,         \* no thread, no item
  QueueBound    \* bound: no push is called on a queue of this length, except
                \* to wake the Consumer (the queue then exceeds the bound by
                \* at most the pushes already under way)

ASSUME ThreadAssumption ==
  /\ Consumer \notin Producers
  /\ None \notin Producers \cup {Consumer}
ASSUME ItemAssumption == None \notin Item
ASSUME BoundAssumption == QueueBound \in Nat

Threads == Producers \cup {Consumer}

VARIABLES
  deqQueue,     \* the deque
  muxQueue,     \* the thread that holds muxQueue, or None
  muxBlocking,  \* the thread that holds muxBlocking, or None
  pc,           \* where each thread is in the operation it executes
  op,           \* the operation each thread executes
  arg,          \* the item a pushing thread brings
  nonEmpty,     \* the Consumer was told that the queue has an item, and has
                \* taken nothing since
  got           \* the item the Consumer's last pop returned

vars == <<deqQueue, muxQueue, muxBlocking, pc, op, arg, nonEmpty, got>>

PushOps == {"push_back", "push_front"}
PopOps == {"pop_front", "pop_back"}
Ops == PushOps \cup PopOps \cup {"empty", "clear", "wait"}

PCs == {"idle",      \* outside the queue
        "lockQ",     \* about to lock muxQueue
        "inQ",       \* holds muxQueue, about to touch the deque
        "lockB",     \* about to lock muxBlocking (a push still holds muxQueue)
        "inB",       \* holds muxBlocking, about to notify or to sleep
        "sleep",     \* in cvBlocking.wait
        "relock",    \* woken, about to lock muxBlocking again
        "unlockB",   \* leaves the scope of ul
        "unlockQ"}   \* leaves the scope of lock

TypeOK ==
  /\ deqQueue \in Seq(Item)
  /\ muxQueue \in Threads \cup {None}
  /\ muxBlocking \in Threads \cup {None}
  /\ pc \in [Threads -> PCs]
  /\ op \in [Threads -> Ops]
  /\ arg \in [Producers -> Item \cup {None}]
  /\ nonEmpty \in BOOLEAN
  /\ got \in Item \cup {None}

Init ==
  /\ deqQueue = <<>>
  /\ muxQueue = None
  /\ muxBlocking = None
  /\ pc = [t \in Threads |-> "idle"]
  /\ op = [t \in Threads |-> "empty"]
  /\ arg = [p \in Producers |-> None]
  /\ nonEmpty = FALSE
  /\ got = None

Goto(t, from, to) == pc[t] = from /\ pc' = [pc EXCEPT ![t] = to]

(***************************************************************************)
(* Calls.  A producer may push whenever it is outside the queue.  The      *)
(* consumer may wait, test or clear at any time, and pops only after       *)
(* empty() or wait() told it that there is something to pop.               *)
(***************************************************************************)
CallPush(p, o, i) ==
  /\ Len(deqQueue) < QueueBound \/ pc[Consumer] = "sleep"
  /\ Goto(p, "idle", "lockQ")
  /\ op' = [op EXCEPT ![p] = o]
  /\ arg' = [arg EXCEPT ![p] = i]
  /\ UNCHANGED <<deqQueue, muxQueue, muxBlocking, nonEmpty, got>>

Call(o) ==
  /\ o \in PopOps => nonEmpty
  /\ Goto(Consumer, "idle", "lockQ")
  /\ op' = [op EXCEPT ![Consumer] = o]
  /\ UNCHANGED <<deqQueue, muxQueue, muxBlocking, arg, nonEmpty, got>>

(***************************************************************************)
(* std::scoped_lock lock(muxQueue), the first line of every operation and  *)
(* of the empty() that wait() calls.                                       *)
(***************************************************************************)
LockQueue(t) ==
  /\ muxQueue = None
  /\ Goto(t, "lockQ", "inQ")
  /\ muxQueue' = t
  /\ UNCHANGED <<deqQueue, muxBlocking, op, arg, nonEmpty, got>>

\* push_back and push_front change the deque and go on to lock muxBlocking
\* without releasing muxQueue.
Emplace(p) ==
  /\ op[p] \in PushOps
  /\ Goto(p, "inQ", "lockB")
  /\ deqQueue' = IF op[p] = "push_back" THEN Append(deqQueue, arg[p])
                                        ELSE <<arg[p]>> \o deqQueue
  /\ UNCHANGED <<muxQueue, muxBlocking, op, arg, nonEmpty, got>>

MutantPop ==   \* takes the item and leaves it in the deque
  /\ op[Consumer] \in PopOps
  /\ deqQueue # <<>>
  /\ Goto(Consumer, "inQ", "unlockQ")
  /\ got' = Head(deqQueue)
  /\ nonEmpty' = FALSE
  /\ UNCHANGED <<deqQueue, muxQueue, muxBlocking, op, arg>>

\* pop_front and pop_back; on an empty deque their behaviour is undefined, so
\* the specification leaves them stuck there (PopsAreSafe says: never).
Pop ==
  /\ op[Consumer] \in PopOps
  /\ deqQueue # <<>>
  /\ Goto(Consumer, "inQ", "unlockQ")
  /\ IF op[Consumer] = "pop_front"
       THEN /\ got' = Head(deqQueue)
            /\ deqQueue' = Tail(deqQueue)
       ELSE /\ got' = deqQueue[Len(deqQueue)]
            /\ deqQueue' = SubSeq(deqQueue, 1, Len(deqQueue) - 1)
  /\ nonEmpty' = FALSE
  /\ UNCHANGED <<muxQueue, muxBlocking, op, arg>>

Clear ==
  /\ op[Consumer] = "clear"
  /\ Goto(Consumer, "inQ", "unlockQ")
  /\ deqQueue' = <<>>
  /\ nonEmpty' = FALSE
  /\ UNCHANGED <<muxQueue, muxBlocking, op, arg, got>>

\* empty(), called by the user of the queue or by wait(): what the caller
\* knows from now on is the answer at this instant.
TestEmpty ==
  /\ op[Consumer] \in {"empty", "wait"}
  /\ Goto(Consumer, "inQ", "unlockQ")
  /\ nonEmpty' = (deqQueue # <<>>)
  /\ UNCHANGED <<deqQueue, muxQueue, muxBlocking, op, arg, got>>

MutantUnlockQueue(t) ==   \* wait() keeps muxQueue while it sleeps
  /\ Goto(t, "unlockQ", IF op[t] = "wait" /\ ~nonEmpty THEN "lockB" ELSE "idle")
  /\ muxQueue' = IF op[t] = "wait" /\ ~nonEmpty THEN t ELSE None
  /\ UNCHANGED <<deqQueue, muxBlocking, op, arg, nonEmpty, got>>

\* The lock of muxQueue is destroyed.  A wait() that saw an empty queue only
\* now goes on to muxBlocking: between the two it holds no mutex.
UnlockQueue(t) ==
  /\ Goto(t, "unlockQ", IF op[t] = "wait" /\ ~nonEmpty THEN "lockB" ELSE "idle")
  /\ muxQueue' = None
  /\ UNCHANGED <<deqQueue, muxBlocking, op, arg, nonEmpty, got>>

LockBlocking(t) ==
  /\ muxBlocking = None
  /\ Goto(t, "lockB", "inB")
  /\ muxBlocking' = t
  /\ UNCHANGED <<deqQueue, muxQueue, op, arg, nonEmpty, got>>

\* cvBlocking.notify_one(): the sleeper, if there is one, is woken; a notify
\* nobody waits for is lost.
Notify(p) ==
  /\ op[p] \in PushOps
  /\ pc[p] = "inB"
  /\ pc' = [pc EXCEPT ![p] = "unlockB",
                      ![Consumer] = IF @ = "sleep" THEN "relock" ELSE @]
  /\ UNCHANGED <<deqQueue, muxQueue, muxBlocking, op, arg, nonEmpty, got>>

MutantSleep ==   \* tests the queue while it holds muxBlocking
  /\ op[Consumer] = "wait"
  /\ Goto(Consumer, "inB", "lockQ")
  /\ UNCHANGED <<deqQueue, muxQueue, muxBlocking, op, arg, nonEmpty, got>>

\* cvBlocking.wait(ul) releases muxBlocking and sleeps, without testing the
\* queue again.
Sleep ==
  /\ op[Consumer] = "wait"
  /\ Goto(Consumer, "inB", "sleep")
  /\ muxBlocking' = None
  /\ UNCHANGED <<deqQueue, muxQueue, op, arg, nonEmpty, got>>

\* A condition variable may return from wait without a notification.
SpuriousWake ==
  /\ Goto(Consumer, "sleep", "relock")
  /\ UNCHANGED <<deqQueue, muxQueue, muxBlocking, op, arg, nonEmpty, got>>

Relock ==
  /\ muxBlocking = None
  /\ Goto(Consumer, "relock", "unlockB")
  /\ muxBlocking' = Consumer
  /\ UNCHANGED <<deqQueue, muxQueue, op, arg, nonEmpty, got>>

MutantUnlockBlocking(t) ==   \* if instead of while: trusts the wakeup
  /\ Goto(t, "unlockB", IF op[t] = "wait" THEN "idle" ELSE "unlockQ")
  /\ muxBlocking' = None
  /\ nonEmpty' = (op[t] = "wait" \/ nonEmpty)
  /\ UNCHANGED <<deqQueue, muxQueue, op, arg, got>>

\* ul is destroyed: a push goes on to release muxQueue, a wait() goes round
\* its loop and calls empty() again.
UnlockBlocking(t) ==
  /\ Goto(t, "unlockB", IF op[t] = "wait" THEN "lockQ" ELSE "unlockQ")
  /\ muxBlocking' = None
  /\ UNCHANGED <<deqQueue, muxQueue, op, arg, nonEmpty, got>>

ProducerStep(p) ==
  \/ LockQueue(p)
  \/ Emplace(p)
  \/ LockBlocking(p)
  \/ Notify(p)
  \/ UnlockBlocking(p)
  \/ UnlockQueue(p)

ConsumerStep ==
  \/ LockQueue(Consumer)
  \/ Pop
  \/ Clear
  \/ TestEmpty
  \/ UnlockQueue(Consumer)
  \/ LockBlocking(Consumer)
  \/ Sleep
  \/ Relock
  \/ UnlockBlocking(Consumer)

Next ==
  \/ \E p \in Producers, o \in PushOps, i \in Item : CallPush(p, o, i)
  \/ \E o \in Ops \ PushOps : Call(o)
  \/ \E p \in Producers : ProducerStep(p)
  \/ ConsumerStep
  \/ SpuriousWake

Spec == Init /\ [][Next]_vars

-----------------------------------------------------------------------------
(***************************************************************************)
(* Properties.                                                             *)
(***************************************************************************)

\* pop_front and pop_back call front() of the deque without a test: no thread
\* ever executes one of them on an empty deque, although the answer the caller
\* relies on was given before other threads used the queue (lines 30-45).
PopsAreSafe ==
  pc[Consumer] = "inQ" /\ op[Consumer] \in PopOps => deqQueue # <<>>

HoldsQueue(t) ==
  \/ pc[t] \in {"inQ", "unlockQ"}
  \/ op[t] \in PushOps /\ pc[t] \in {"lockB", "inB", "unlockB"}
WantsQueue(t) == pc[t] = "lockQ"
HoldsBlocking(t) == pc[t] \in {"inB", "unlockB"}
WantsBlocking(t) == pc[t] \in {"lockB", "relock"}

\* push_back takes muxBlocking while it holds muxQueue: no other thread holds
\* muxBlocking while it waits for muxQueue, so the two mutexes never form a
\* cycle, and each mutex has one holder at a time (lines 48-65, 88-95).
LockOrder ==
  /\ \A t \in Threads :
       /\ HoldsQueue(t) => muxQueue = t
       /\ HoldsBlocking(t) => muxBlocking = t
  /\ \A t, u \in Threads :
       ~ /\ muxQueue = t /\ WantsBlocking(t)
         /\ muxBlocking = u /\ WantsQueue(u)

Queue == INSTANCE MessageQueue WITH contents <- deqQueue

\* The operations are atomic: whatever the interleaving, the deque changes as
\* if each push, pop and clear happened at one instant (lines 16-86).
QueueSpec == Queue!Spec
=============================================================================
