----------------------------- MODULE BoundedFifo -----------------------------
(***************************************************************************)
(* What a user of MTQueue is promised, without threads, locks or waiting:  *)
(* a queue of at most Capacity elements, first in first out.  Elements are *)
(* numbered in the order in which the queue accepts them, so the sequence  *)
(* got says exactly which element every successful read returned.          *)
(***************************************************************************)
EXTENDS Naturals, Sequences

CONSTANT Capacity

VARIABLES
  fifo,     \* the queued elements, oldest first
  sent,     \* how many elements the queue has accepted
  got       \* the elements handed to readers, in order

fifoVars == <<fifo, sent, got>>

Init == fifo = <<>> /\ sent = 0 /\ got = <<>>

\* A write that found room.
Put ==
  /\ Len(fifo) < Capacity
  /\ sent' = sent + 1
  /\ fifo' = Append(fifo, sent + 1)
  /\ UNCHANGED got

\* A cyclic write into a full queue gives up the oldest element.
PutOverOldest ==
  /\ Len(fifo) = Capacity
  /\ sent' = sent + 1
  /\ fifo' = Append(Tail(fifo), sent + 1)
  /\ UNCHANGED got

\* A read removes the oldest element and returns it.
Take ==
  /\ fifo # <<>>
  /\ got' = Append(got, Head(fifo))
  /\ fifo' = Tail(fifo)
  /\ UNCHANGED sent

Clear ==
  /\ fifo' = <<>>
  /\ UNCHANGED <<sent, got>>

Next == Put \/ PutOverOldest \/ Take \/ Clear

Spec == Init /\ [][Next]_fifoVars
=============================================================================
