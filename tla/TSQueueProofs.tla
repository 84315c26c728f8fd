--------------------------- MODULE TSQueueProofs ---------------------------
(***************************************************************************)
(* Theorems about TSQueue for any number of pushing threads, any set of    *)
(* messages and any bound.  The inductive invariant IInv says who may be   *)
(* where: a mutex is held by exactly the thread whose program counter is   *)
(* inside its scope, only the Consumer sleeps, and what the Consumer was   *)
(* told about the queue stays true until it takes something itself.        *)
(***************************************************************************)
EXTENDS TSQueue, SequenceTheorems, TLAPS

USE ThreadAssumption, ItemAssumption, BoundAssumption

Roles ==
  /\ \A p \in Producers :
       /\ pc[p] \notin {"sleep", "relock"}
       /\ pc[p] # "idle" => op[p] \in PushOps /\ arg[p] \in Item
  /\ op[Consumer] \notin PushOps
  /\ pc[Consumer] \in {"lockB", "inB", "sleep", "relock", "unlockB"}
       => op[Consumer] = "wait"

Mutexes ==
  \A t \in Threads :
    /\ muxQueue = t <=> HoldsQueue(t)
    /\ muxBlocking = t <=> HoldsBlocking(t)

Knowledge ==
  /\ nonEmpty => deqQueue # <<>>
  /\ op[Consumer] \in PopOps /\ pc[Consumer] \in {"lockQ", "inQ"} => nonEmpty

IInv == TypeOK /\ Roles /\ Mutexes /\ Knowledge

-----------------------------------------------------------------------------
\* The initial state satisfies the inductive invariant.
LEMMA InitIInv == Init => IInv
<1> SUFFICES ASSUME Init PROVE IInv
  OBVIOUS
<1> USE DEF Init, Threads, PushOps
<1>1. TypeOK
  <2>1. deqQueue \in Seq(Item)
    BY EmptySeq
  <2>2. QED BY <2>1 DEF TypeOK, PCs, Ops, PopOps
<1>2. Roles
  BY DEF Roles
<1>3. Mutexes
  BY DEF Mutexes, HoldsQueue, HoldsBlocking
<1>4. Knowledge
  BY DEF Knowledge
<1>5. QED BY <1>1, <1>2, <1>3, <1>4 DEF IInv

\* Every step keeps every variable within its type (all of clever_TSQueue.h).
LEMMA TypeStep == IInv /\ [Next]_vars => TypeOK'
<1> SUFFICES ASSUME IInv, [Next]_vars PROVE TypeOK'
  OBVIOUS
<1> USE DEF IInv, TypeOK, Threads, PCs, Ops, PushOps, PopOps, Goto
<1>1. ASSUME NEW p \in Producers, NEW o \in PushOps, NEW i \in Item,
             CallPush(p, o, i)
      PROVE  TypeOK'
  BY <1>1 DEF CallPush
<1>2. ASSUME NEW o \in Ops \ PushOps, Call(o) PROVE TypeOK'
  BY <1>2 DEF Call
<1>3. ASSUME NEW t \in Threads, LockQueue(t) PROVE TypeOK'
  BY <1>3 DEF LockQueue
<1>4. ASSUME NEW p \in Producers, Emplace(p) PROVE TypeOK'
  <2>1. pc[p] = "inQ" /\ arg[p] \in Item
    BY <1>4 DEF Emplace, Roles
  <2>2. QED BY <1>4, <2>1 DEF Emplace
<1>5. CASE Pop
  <2>1. Head(deqQueue) \in Item /\ Tail(deqQueue) \in Seq(Item)
    BY <1>5 DEF Pop
  <2>2. Len(deqQueue) \in 1..Len(deqQueue) /\ deqQueue[Len(deqQueue)] \in Item
    BY <1>5 DEF Pop
  <2>3. SubSeq(deqQueue, 1, Len(deqQueue) - 1) \in Seq(Item)
    BY <1>5 DEF Pop
  <2>4. QED BY <1>5, <2>1, <2>2, <2>3 DEF Pop
<1>6. CASE Clear
  <2>1. deqQueue' \in Seq(Item)
    BY <1>6, EmptySeq DEF Clear
  <2>2. QED BY <1>6, <2>1 DEF Clear
<1>7. CASE TestEmpty
  BY <1>7 DEF TestEmpty
<1>8. ASSUME NEW t \in Threads, UnlockQueue(t) PROVE TypeOK'
  BY <1>8 DEF UnlockQueue
<1>9. ASSUME NEW t \in Threads, LockBlocking(t) PROVE TypeOK'
  BY <1>9 DEF LockBlocking
<1>10. ASSUME NEW p \in Producers, Notify(p) PROVE TypeOK'
  BY <1>10 DEF Notify
<1>11. CASE Sleep
  BY <1>11 DEF Sleep
<1>12. CASE SpuriousWake
  BY <1>12 DEF SpuriousWake
<1>13. CASE Relock
  BY <1>13 DEF Relock
<1>14. ASSUME NEW t \in Threads, UnlockBlocking(t) PROVE TypeOK'
  BY <1>14 DEF UnlockBlocking
<1>15. CASE UNCHANGED vars
  BY <1>15 DEF vars
<1>16. QED
  BY <1>1, <1>2, <1>3, <1>4, <1>5, <1>6, <1>7, <1>8, <1>9, <1>10, <1>11,
     <1>12, <1>13, <1>14, <1>15 DEF Next, ProducerStep, ConsumerStep

\* Only the Consumer sleeps, and only in wait(); a push carries its item.
LEMMA RolesStep == IInv /\ [Next]_vars => Roles'
<1> SUFFICES ASSUME IInv, [Next]_vars PROVE Roles'
  OBVIOUS
<1> USE DEF IInv, TypeOK, Roles, Threads, PCs, Ops, PushOps, PopOps, Goto
<1>1. ASSUME NEW p \in Producers, NEW o \in PushOps, NEW i \in Item, CallPush(p, o, i)
      PROVE  Roles'
  BY <1>1 DEF CallPush
<1>2. ASSUME NEW o \in Ops \ PushOps, Call(o)
      PROVE  Roles'
  BY <1>2 DEF Call
<1>3. ASSUME NEW t \in Threads, LockQueue(t)
      PROVE  Roles'
  BY <1>3 DEF LockQueue
<1>4. ASSUME NEW p \in Producers, Emplace(p)
      PROVE  Roles'
  BY <1>4 DEF Emplace
<1>5. CASE Pop
  BY <1>5 DEF Pop
<1>6. CASE Clear
  BY <1>6 DEF Clear
<1>7. CASE TestEmpty
  BY <1>7 DEF TestEmpty
<1>8. ASSUME NEW t \in Threads, UnlockQueue(t)
      PROVE  Roles'
  BY <1>8 DEF UnlockQueue
<1>9. ASSUME NEW t \in Threads, LockBlocking(t)
      PROVE  Roles'
  BY <1>9 DEF LockBlocking
<1>10. ASSUME NEW p \in Producers, Notify(p)
      PROVE  Roles'
  BY <1>10 DEF Notify
<1>11. CASE Sleep
  BY <1>11 DEF Sleep
<1>12. CASE SpuriousWake
  BY <1>12 DEF SpuriousWake
<1>13. CASE Relock
  BY <1>13 DEF Relock
<1>14. ASSUME NEW t \in Threads, UnlockBlocking(t)
      PROVE  Roles'
  BY <1>14 DEF UnlockBlocking
<1>15. CASE UNCHANGED vars
  BY <1>15 DEF vars
<1>16. QED
  BY <1>1, <1>2, <1>3, <1>4, <1>5, <1>6, <1>7, <1>8, <1>9, <1>10, <1>11,
     <1>12, <1>13, <1>14, <1>15 DEF Next, ProducerStep, ConsumerStep

\* A mutex belongs to exactly the thread that is inside its scope.
LEMMA MutexStep == IInv /\ [Next]_vars => Mutexes'
<1> SUFFICES ASSUME IInv, [Next]_vars PROVE Mutexes'
  OBVIOUS
<1> USE DEF IInv, TypeOK, Roles, Mutexes, HoldsQueue, HoldsBlocking, Threads, PCs, Ops, PushOps, PopOps, Goto
<1>1. ASSUME NEW p \in Producers, NEW o \in PushOps, NEW i \in Item, CallPush(p, o, i)
      PROVE  Mutexes'
  BY <1>1 DEF CallPush
<1>2. ASSUME NEW o \in Ops \ PushOps, Call(o)
      PROVE  Mutexes'
  BY <1>2 DEF Call
<1>3. ASSUME NEW t \in Threads, LockQueue(t)
      PROVE  Mutexes'
  BY <1>3 DEF LockQueue
<1>4. ASSUME NEW p \in Producers, Emplace(p)
      PROVE  Mutexes'
  BY <1>4 DEF Emplace
<1>5. CASE Pop
  BY <1>5 DEF Pop
<1>6. CASE Clear
  BY <1>6 DEF Clear
<1>7. CASE TestEmpty
  BY <1>7 DEF TestEmpty
<1>8. ASSUME NEW t \in Threads, UnlockQueue(t)
      PROVE  Mutexes'
  BY <1>8 DEF UnlockQueue
<1>9. ASSUME NEW t \in Threads, LockBlocking(t)
      PROVE  Mutexes'
  BY <1>9 DEF LockBlocking
<1>10. ASSUME NEW p \in Producers, Notify(p)
      PROVE  Mutexes'
  BY <1>10 DEF Notify
<1>11. CASE Sleep
  BY <1>11 DEF Sleep
<1>12. CASE SpuriousWake
  BY <1>12 DEF SpuriousWake
<1>13. CASE Relock
  BY <1>13 DEF Relock
<1>14. ASSUME NEW t \in Threads, UnlockBlocking(t)
      PROVE  Mutexes'
  BY <1>14 DEF UnlockBlocking
<1>15. CASE UNCHANGED vars
  BY <1>15 DEF vars
<1>16. QED
  BY <1>1, <1>2, <1>3, <1>4, <1>5, <1>6, <1>7, <1>8, <1>9, <1>10, <1>11,
     <1>12, <1>13, <1>14, <1>15 DEF Next, ProducerStep, ConsumerStep

\* Nobody but the Consumer makes the queue shorter.
LEMMA KnowledgeStep == IInv /\ [Next]_vars => Knowledge'
<1> SUFFICES ASSUME IInv, [Next]_vars PROVE Knowledge'
  OBVIOUS
<1> USE DEF IInv, TypeOK, Roles, Knowledge, Threads, PCs, Ops, PushOps, PopOps, Goto
<1>1. ASSUME NEW p \in Producers, NEW o \in PushOps, NEW i \in Item, CallPush(p, o, i)
      PROVE  Knowledge'
  BY <1>1 DEF CallPush
<1>2. ASSUME NEW o \in Ops \ PushOps, Call(o)
      PROVE  Knowledge'
  BY <1>2 DEF Call
<1>3. ASSUME NEW t \in Threads, LockQueue(t)
      PROVE  Knowledge'
  BY <1>3 DEF LockQueue
<1>4. ASSUME NEW p \in Producers, Emplace(p)
      PROVE  Knowledge'
  BY <1>4 DEF Emplace
<1>5. CASE Pop
  BY <1>5 DEF Pop
<1>6. CASE Clear
  BY <1>6 DEF Clear
<1>7. CASE TestEmpty
  BY <1>7 DEF TestEmpty
<1>8. ASSUME NEW t \in Threads, UnlockQueue(t)
      PROVE  Knowledge'
  BY <1>8 DEF UnlockQueue
<1>9. ASSUME NEW t \in Threads, LockBlocking(t)
      PROVE  Knowledge'
  BY <1>9 DEF LockBlocking
<1>10. ASSUME NEW p \in Producers, Notify(p)
      PROVE  Knowledge'
  BY <1>10 DEF Notify
<1>11. CASE Sleep
  BY <1>11 DEF Sleep
<1>12. CASE SpuriousWake
  BY <1>12 DEF SpuriousWake
<1>13. CASE Relock
  BY <1>13 DEF Relock
<1>14. ASSUME NEW t \in Threads, UnlockBlocking(t)
      PROVE  Knowledge'
  BY <1>14 DEF UnlockBlocking
<1>15. CASE UNCHANGED vars
  BY <1>15 DEF vars
<1>16. QED
  BY <1>1, <1>2, <1>3, <1>4, <1>5, <1>6, <1>7, <1>8, <1>9, <1>10, <1>11,
     <1>12, <1>13, <1>14, <1>15 DEF Next, ProducerStep, ConsumerStep

-----------------------------------------------------------------------------
\* The invariant is inductive.
THEOREM Invariance == Spec => []IInv
<1>1. IInv /\ [Next]_vars => IInv'
  BY TypeStep, RolesStep, MutexStep, KnowledgeStep DEF IInv
<1>2. QED BY InitIInv, <1>1, PTL DEF Spec

\* Every variable keeps its type.
THEOREM TypeCorrect == Spec => []TypeOK
<1>1. IInv => TypeOK
  BY DEF IInv
<1>2. QED BY Invariance, <1>1, PTL

\* The consumer's unguarded front()/pop_front() of the deque (lines 30-45)
\* never meet an empty deque, whatever the producers do between the consumer's
\* test and its pop.
THEOREM PopSafety == Spec => []PopsAreSafe
<1>1. IInv => PopsAreSafe
  BY DEF IInv, Knowledge, PopsAreSafe
<1>2. QED BY Invariance, <1>1, PTL

\* The nested locking of push_back and the separate locking of wait() never
\* form a cycle (lines 48-65, 88-95).
THEOREM LockOrderSafety == Spec => []LockOrder
<1>1. ASSUME IInv PROVE LockOrder
  <2>1. ASSUME NEW t \in Threads, NEW u \in Threads,
               muxBlocking = u, WantsQueue(u)
        PROVE  FALSE
    BY <1>1, <2>1 DEF IInv, Mutexes, HoldsBlocking, WantsQueue
  <2>2. \A t \in Threads : /\ HoldsQueue(t) => muxQueue = t
                           /\ HoldsBlocking(t) => muxBlocking = t
    BY <1>1 DEF IInv, Mutexes
  <2>3. QED BY <2>1, <2>2 DEF LockOrder
<1>2. QED BY Invariance, <1>1, PTL

\* Every step of the locked implementation is one operation of the abstract
\* queue, or leaves it alone.
LEMMA QueueStep == IInv /\ [Next]_vars => [Queue!Next]_(Queue!vars)
<1> SUFFICES ASSUME IInv, [Next]_vars
             PROVE  Queue!Next \/ UNCHANGED <<deqQueue, got>>
  BY DEF Queue!vars
<1>1. ASSUME NEW p \in Producers, Emplace(p) PROVE Queue!Next
  <2>1. arg[p] \in Item
    BY <1>1 DEF IInv, Roles, Emplace, Goto
  <2>2. Queue!PushBack(arg[p]) \/ Queue!PushFront(arg[p])
    BY <1>1 DEF Emplace, Queue!PushBack, Queue!PushFront
  <2>3. QED BY <2>1, <2>2 DEF Queue!Next
<1>2. ASSUME Pop PROVE Queue!Next
  BY <1>2 DEF Pop, Queue!PopFront, Queue!PopBack, Queue!Next
<1>3. ASSUME Clear PROVE Queue!Next
  BY <1>3 DEF Clear, Queue!Clear, Queue!Next
<1>4. ASSUME ~(\E p \in Producers : Emplace(p)), ~Pop, ~Clear
      PROVE  UNCHANGED <<deqQueue, got>>
  BY <1>4 DEF Next, ProducerStep, ConsumerStep, vars, CallPush, Call, LockQueue,
     TestEmpty, UnlockQueue, LockBlocking, Notify, Sleep, SpuriousWake, Relock,
     UnlockBlocking
<1>5. QED BY <1>1, <1>2, <1>3, <1>4

\* tsqueue implements the atomic queue: the interleaved operations of
\* clever_TSQueue.h:16-86 are operations of MessageQueue.
THEOREM Refinement == Spec => QueueSpec
<1>1. Init => Queue!Init
  BY DEF Init, Queue!Init
<1>2. QED BY Invariance, QueueStep, <1>1, PTL DEF Spec, QueueSpec, Queue!Spec
=============================================================================
