---------------------------- MODULE MessageQueue ----------------------------
(***************************************************************************)
(* What clever::tsqueue promises its users: a double-ended queue whose     *)
(* operations happen one at a time, each at one instant.  TSQueue shows    *)
(* that the mutexes and the condition variable of clever_TSQueue.h keep    *)
(* this promise; the modules that only use queues use them in this form.   *)
(***************************************************************************)
EXTENDS Naturals, Sequences

CONSTANTS
  Item,         \* the messages
  None          \* nothing was taken yet

VARIABLES
  contents,     \* the queue, front first
  got           \* the item the last pop handed out

vars == <<contents, got>>

Init == contents = <<>> /\ got = None

PushBack(i) == contents' = Append(contents, i) /\ UNCHANGED got

PushFront(i) == contents' = <<i>> \o contents /\ UNCHANGED got

PopFront ==
  /\ contents # <<>>
  /\ got' = Head(contents)
  /\ contents' = Tail(contents)

PopBack ==
  /\ contents # <<>>
  /\ got' = contents[Len(contents)]
  /\ contents' = SubSeq(contents, 1, Len(contents) - 1)

Clear == contents' = <<>> /\ UNCHANGED got

Next ==
  \/ \E i \in Item : PushBack(i) \/ PushFront(i)
  \/ PopFront
  \/ PopBack
  \/ Clear

Spec == Init /\ [][Next]_vars
=============================================================================
