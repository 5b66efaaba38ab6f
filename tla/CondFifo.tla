------------------------------ MODULE CondFifo ------------------------------
(***************************************************************************)
(* package/app/uartd/src/condFifo.h: a bounded deque of strings under one  *)
(* mutex and one condition variable.  As in MTQueue every critical section *)
(* is one action and the notify_one after the unlock another; unlike there *)
(* only readers wait and a write never blocks.  The actions are the ones   *)
(* that Uartd composes; writeCyc and clear, which nothing calls, are left  *)
(* out.                                                                    *)
(***************************************************************************)
EXTENDS Integers, Sequences, FiniteSets, SequencesExt

CONSTANTS
  Threads,   \* the threads that use the queue
  maxCount   \* the constructor's max

VARIABLES
  q,     \* front() first, back() last
  at,    \* per thread: "idle", "waiting" in cond.wait, "ready" to take mu
         \* again, or "notify" between the unlock and notify_one
  put,   \* the values pushed, in order
  took   \* the values readOne returned, in order

fvars == <<q, at, put, took>>

Init ==
  /\ q = <<>>
  /\ at = [t \in Threads |-> "idle"]
  /\ put = <<>>
  /\ took = <<>>

Waiting == {t \in Threads : at[t] = "waiting"}

At(t, l) == at' = [at EXCEPT ![t] = l]

ReadOne(t, v) ==
  /\ at[t] \in {"idle", "ready"}
  /\ q # <<>> /\ v = Last(q)
  /\ q' = Front(q)
  /\ took' = Append(took, v)
  /\ At(t, "idle") /\ put' = put

ReadWaits(t) ==
  /\ at[t] \in {"idle", "ready"}
  /\ q = <<>>
  /\ At(t, "waiting") /\ UNCHANGED <<q, put, took>>

WriteOne(t, v) ==
  /\ at[t] = "idle"
  /\ Len(q) < maxCount
  /\ q' = Cons(v, q)
  /\ put' = Append(put, v)
  /\ At(t, "notify") /\ took' = took

\* writeOne returns -1.
WriteFails(t) ==
  /\ at[t] = "idle"
  /\ Len(q) >= maxCount
  /\ UNCHANGED fvars

\* cond.notify_one() wakes one waiting thread, if there is one.
NotifyOne(t) ==
  /\ at[t] = "notify"
  /\ \/ Waiting = {} /\ At(t, "idle")
     \/ \E w \in Waiting : at' = [at EXCEPT ![t] = "idle", ![w] = "ready"]
  /\ UNCHANGED <<q, put, took>>

\* cond.wait may return without a notification.
SpuriousWakeup(t) ==
  /\ at[t] = "waiting"
  /\ At(t, "ready") /\ UNCHANGED <<q, put, took>>
=============================================================================
