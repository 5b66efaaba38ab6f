------------------------------- MODULE MTQueue -------------------------------
(***************************************************************************)
(* package/libs/cppUtils/src/MTQueue: a bounded deque of pointers shared   *)
(* by threads, under one mutex `mu` and ONE condition variable `cond` that *)
(* blocked readers and blocked writers share.                              *)
(*                                                                         *)
(* Every critical section of the class runs from the lock to the unlock or *)
(* to the wait on `cond` without blocking, so it is one action here.  The  *)
(* writers unlock before they call notify_one, so that call is an action   *)
(* of its own.  A thread inside a method is                                *)
(*   waiting   blocked in cond.wait or cond.wait_for,                      *)
(*   woken     taken off `cond` by notify_one (or spuriously), not yet     *)
(*             holding mu again,                                           *)
(*   timedOut  leaving wait_for because its time is over,                  *)
(*   notify    past the unlock of a write, about to call notify_one.       *)
(*                                                                         *)
(* Elements are numbered in the order push_front puts them into q, 0 is    *)
(* the NULL pointer.                                                       *)
(***************************************************************************)
EXTENDS Integers, Sequences, FiniteSets, SequencesExt

CONSTANTS
  Threads,   \* the threads that share the queue
  maxCount,  \* MTQueuePar::mMax
  Calls,     \* Calls[t]: the methods that thread t may call
  MaxPush    \* bound: no write starts once this many elements were pushed

Reads   == {"read", "readTd"}
Writes  == {"write", "writeTd", "cycWrite"}
Methods == Reads \cup Writes \cup {"clear", "get", "setWaitExitState"}

ASSUME ThreadsFinite == IsFiniteSet(Threads)
ASSUME MaxCountType  == maxCount \in Nat \ {0}
ASSUME CallsType     == Calls \in [Threads -> SUBSET Methods]
ASSUME MaxPushType   == MaxPush \in Nat

VARIABLES
  q,                 \* the deque: front() first, back() last
  mIsWaitWasExited,  \* set by setWaitExitState, outside mu
  pc,                \* where each thread is: see above, or "idle"
  op,                \* the method each thread is in or called last
  ret,               \* what that method returned
  pushed,            \* number of push_front so far
  taken,             \* elements returned by the read methods, in order
  destroyed,         \* elements passed to destroyOne
  leaked             \* elements that clear() forgot without destroying them

qvars == <<q, mIsWaitWasExited, pc, op, ret, pushed, taken, destroyed, leaked>>

NULL == 0

Init ==
  /\ q = <<>>
  /\ mIsWaitWasExited = FALSE
  /\ pc = [t \in Threads |-> "idle"]
  /\ op = [t \in Threads |-> "get"]
  /\ ret = [t \in Threads |-> NULL]
  /\ pushed = 0
  /\ taken = <<>>
  /\ destroyed = {}
  /\ leaked = {}
-----------------------------------------------------------------------------
\* Thread t holds mu at the loop test of method m: it has just called m, or
\* the condition variable has given it the mutex back.
Holds(t, m) ==
  \/ /\ pc[t] = "idle"
     /\ m \in Calls[t]
     /\ m \in Writes => pushed < MaxPush
  \/ pc[t] \in {"woken", "timedOut"} /\ op[t] = m

\* Thread t is now at l in method m.
Goto(t, m, l) ==
  /\ pc' = [pc EXCEPT ![t] = l]
  /\ op' = [op EXCEPT ![t] = m]

Return(t, m, r) ==
  /\ Goto(t, m, "idle")
  /\ ret' = [ret EXCEPT ![t] = r]

\* Mutant: only a notified thread looks at the exit state.
GivesUpIfWoken(t) == pc[t] = "woken" /\ mIsWaitWasExited

\* The wait is over, its predicate is still false, and the exit state is set.
GivesUp(t) == pc[t] = "timedOut" /\ mIsWaitWasExited

WaitOnCond(t, m) ==
  /\ ~GivesUp(t)
  /\ Goto(t, m, "waiting")
  /\ UNCHANGED <<q, mIsWaitWasExited, ret, pushed, taken, destroyed, leaked>>

\* Mutant: front() and pop_front instead of back() and pop_back.
ReadNewest(t, m) ==
  /\ m \in Reads
  /\ Holds(t, m)
  /\ q # <<>>
  /\ q' = Tail(q)
  /\ taken' = Append(taken, Head(q))
  /\ Return(t, m, Head(q))
  /\ UNCHANGED <<mIsWaitWasExited, pushed, destroyed, leaked>>

\* read(), read(tdMsec): the loop ends with an element, which is popped.
ReadOne(t, m) ==
  /\ m \in Reads
  /\ Holds(t, m)
  /\ q # <<>>
  /\ q' = Front(q)
  /\ taken' = Append(taken, Last(q))
  /\ Return(t, m, Last(q))
  /\ UNCHANGED <<mIsWaitWasExited, pushed, destroyed, leaked>>

\* read(), read(tdMsec): the queue is empty, wait (again).
ReadWaits(t, m) ==
  /\ m \in Reads
  /\ Holds(t, m)
  /\ q = <<>>
  /\ WaitOnCond(t, m)

\* read(tdMsec): timed out on an empty queue in the exit state.
ReadGivesUp(t) ==
  /\ Holds(t, "readTd")
  /\ q = <<>>
  /\ GivesUp(t)
  /\ Return(t, "readTd", NULL)
  /\ UNCHANGED <<q, mIsWaitWasExited, pushed, taken, destroyed, leaked>>

\* Mutant: the writer does not notify.
PushSilently(t, m, rest, r) ==
  /\ q' = Cons(pushed + 1, rest)
  /\ pushed' = pushed + 1
  /\ Return(t, m, r)
  /\ UNCHANGED <<mIsWaitWasExited, taken, leaked>>

\* push_front and unlock; the caller will see r once it has notified.
Push(t, m, rest, r) ==
  /\ q' = Cons(pushed + 1, rest)
  /\ pushed' = pushed + 1
  /\ ret' = [ret EXCEPT ![t] = r]
  /\ Goto(t, m, "notify")
  /\ UNCHANGED <<mIsWaitWasExited, taken, leaked>>

\* write(one), write(one, tdMsec), cycWrite(one) with room in the queue.
WriteOne(t, m) ==
  /\ m \in Writes
  /\ Holds(t, m)
  /\ Len(q) < maxCount
  /\ Push(t, m, q, 0)
  /\ UNCHANGED destroyed

\* Mutant: the oldest element is destroyed and stays in the deque.
DestroyWithoutPop(t) ==
  /\ Holds(t, "cycWrite")
  /\ Len(q) >= maxCount
  /\ destroyed' = destroyed \cup {Last(q)}
  /\ Push(t, "cycWrite", q, 1)

\* cycWrite(one) on a full queue: the oldest element is destroyed, and the
\* method returns true.
WriteOverOldest(t) ==
  /\ Holds(t, "cycWrite")
  /\ Len(q) >= maxCount
  /\ destroyed' = destroyed \cup {Last(q)}
  /\ Push(t, "cycWrite", Front(q), 1)

\* write(one) refuses a full queue.
WriteFails(t) ==
  /\ Holds(t, "write")
  /\ Len(q) >= maxCount
  /\ Return(t, "write", -1)
  /\ UNCHANGED <<q, mIsWaitWasExited, pushed, taken, destroyed, leaked>>

\* write(one, tdMsec): the queue is full, wait (again) on the same cond.
WriteWaits(t) ==
  /\ Holds(t, "writeTd")
  /\ Len(q) >= maxCount
  /\ WaitOnCond(t, "writeTd")

WriteGivesUp(t) ==
  /\ Holds(t, "writeTd")
  /\ Len(q) >= maxCount
  /\ GivesUp(t)
  /\ Return(t, "writeTd", -1)
  /\ UNCHANGED <<q, mIsWaitWasExited, pushed, taken, destroyed, leaked>>

\* clear(): the elements are dropped from the deque, not destroyed.
ClearAll(t) ==
  /\ Holds(t, "clear")
  /\ q' = <<>>
  /\ leaked' = leaked \cup ToSet(q)
  /\ Return(t, "clear", NULL)
  /\ UNCHANGED <<mIsWaitWasExited, pushed, taken, destroyed>>

\* get() peeks at the element the next read would return.
Get(t) ==
  /\ Holds(t, "get")
  /\ Return(t, "get", IF q = <<>> THEN NULL ELSE Last(q))
  /\ UNCHANGED <<q, mIsWaitWasExited, pushed, taken, destroyed, leaked>>

\* setWaitExitState(): no lock and no notification.
SetWaitExitState(t) ==
  /\ Holds(t, "setWaitExitState")
  /\ mIsWaitWasExited' = TRUE
  /\ Return(t, "setWaitExitState", NULL)
  /\ UNCHANGED <<q, pushed, taken, destroyed, leaked>>
-----------------------------------------------------------------------------
Waiting == {t \in Threads : pc[t] = "waiting"}

\* Mutant: only the write into an empty queue notifies.
NotifyIfFirst(t) ==
  /\ pc[t] = "notify"
  /\ \/ (Waiting = {} \/ Len(q) > 1) /\ pc' = [pc EXCEPT ![t] = "idle"]
     \/ Len(q) <= 1 /\ \E w \in Waiting : pc' = [pc EXCEPT ![t] = "idle", ![w] = "woken"]
  /\ UNCHANGED <<q, mIsWaitWasExited, op, ret, pushed, taken, destroyed, leaked>>

\* cond.notify_one(): wakes one of the waiting threads, whoever it is.
NotifyOne(t) ==
  /\ pc[t] = "notify"
  /\ \/ Waiting = {} /\ pc' = [pc EXCEPT ![t] = "idle"]
     \/ \E w \in Waiting : pc' = [pc EXCEPT ![t] = "idle", ![w] = "woken"]
  /\ UNCHANGED <<q, mIsWaitWasExited, op, ret, pushed, taken, destroyed, leaked>>

\* wait_for is over, also when the deadline passes after a notification but
\* before the thread has the mutex back.
Timeout(t) ==
  /\ pc[t] \in {"waiting", "woken"}
  /\ op[t] \in {"readTd", "writeTd"}
  /\ pc' = [pc EXCEPT ![t] = "timedOut"]
  /\ UNCHANGED <<q, mIsWaitWasExited, op, ret, pushed, taken, destroyed, leaked>>

SpuriousWakeup(t) ==
  /\ pc[t] = "waiting"
  /\ pc' = [pc EXCEPT ![t] = "woken"]
  /\ UNCHANGED <<q, mIsWaitWasExited, op, ret, pushed, taken, destroyed, leaked>>
-----------------------------------------------------------------------------
\* One critical section of thread t.
Locked(t) ==
  \/ \E m \in Methods : ReadOne(t, m) \/ ReadWaits(t, m) \/ WriteOne(t, m)
  \/ ReadGivesUp(t)
  \/ WriteOverOldest(t)
  \/ WriteFails(t)
  \/ WriteWaits(t)
  \/ WriteGivesUp(t)
  \/ ClearAll(t)
  \/ Get(t)
  \/ SetWaitExitState(t)

Next == \E t \in Threads : Locked(t) \/ NotifyOne(t) \/ Timeout(t) \/ SpuriousWakeup(t)

Spec == Init /\ [][Next]_qvars

\* A thread that has been woken gets the mutex (no critical section blocks),
\* a notifier reaches notify_one, and the clock expires every timed wait.
\* Nothing makes a thread call a method, and no spurious wakeup is owed.
Progress(t) ==
  /\ WF_qvars(pc[t] # "idle" /\ Locked(t))
  /\ WF_qvars(NotifyOne(t))
  /\ WF_qvars(Timeout(t))

FairSpec == Spec /\ \A t \in Threads : Progress(t)
-----------------------------------------------------------------------------
\* The types, and: only a timed wait ends by its clock.
TypeOK ==
  /\ q \in Seq(Nat)
  /\ mIsWaitWasExited \in BOOLEAN
  /\ pc \in [Threads -> {"idle", "waiting", "woken", "timedOut", "notify"}]
  /\ op \in [Threads -> Methods]
  /\ ret \in [Threads -> Int]
  /\ pushed \in Nat
  /\ taken \in Seq(Nat)
  /\ destroyed \in SUBSET Nat
  /\ leaked \in SUBSET Nat
  /\ \A t \in Threads : pc[t] = "timedOut" => op[t] \in {"readTd", "writeTd"}

\* Elements leave a full or a read queue in the order they entered it, and
\* each is in exactly one place: still queued, returned by one read,
\* destroyed by cycWrite, or forgotten by clear().  No interleaving of the
\* methods returns an element twice or both destroys and returns it.
EachOnce ==
  /\ Len(q) <= pushed
  /\ q = [i \in 1..Len(q) |-> pushed + 1 - i]
  /\ \A i, j \in 1..Len(taken) : i < j => taken[i] < taken[j]
  /\ ToSet(taken) \cup destroyed \cup leaked = 1..(pushed - Len(q))
  /\ ToSet(taken) \cap destroyed = {}
  /\ leaked \cap (ToSet(taken) \cup destroyed) = {}

\* What MTQueuePar::mMax is for: the queue never outgrows it.
Bounded == Len(q) <= maxCount

WaitingReaders   == {t \in Threads : pc[t] = "waiting" /\ op[t] \in Reads}
ResumingReaders  == {t \in Threads : pc[t] \in {"woken", "timedOut"} /\ op[t] \in Reads}
PendingNotifiers == {t \in Threads : pc[t] = "notify"}

\* No lost wake-up: while a reader sleeps on cond, every queued element has a
\* notify_one still to come or a reader already on its way to take it.  One
\* cond serves readers and writers, so this needs a program in which nobody
\* waits to write (no writeTd): only then can notify_one not pick a writer.
NoLostWakeup ==
  WaitingReaders # {} =>
    Len(q) <= Cardinality(PendingNotifiers) + Cardinality(ResumingReaders)

\* The threads that may call one of these methods.
CallersOf(methods) == {t \in Threads : Calls[t] \cap methods # {}}

\* With the sleepers of cond all readers, a reader does not sleep for ever on a
\* queue that stays non-empty, although read() has no timeout.
SleepingReaderServed ==
  \A t \in CallersOf(Reads) :
    (t \in WaitingReaders /\ q # <<>>) ~> (t \notin WaitingReaders \/ q = <<>>)

\* In every program, a timed call whose condition has come true and stays true
\* stops waiting.  For a writer only its own timeout does that: the read
\* methods make room but never notify.
TimedCallerServed ==
  /\ \A t \in CallersOf({"readTd"}) :
       (pc[t] = "waiting" /\ op[t] = "readTd" /\ q # <<>>) ~> (pc[t] # "waiting" \/ q = <<>>)
  /\ \A t \in CallersOf({"writeTd"}) :
       (pc[t] = "waiting" /\ op[t] = "writeTd" /\ Len(q) < maxCount)
         ~> (pc[t] # "waiting" \/ Len(q) >= maxCount)

\* setWaitExitState does not notify, yet after it every timed call in progress
\* returns, with or without what it waited for.
ExitReleasesTimedCalls ==
  \A t \in CallersOf({"readTd", "writeTd"}) :
    (mIsWaitWasExited /\ op[t] \in {"readTd", "writeTd"}) ~> (pc[t] = "idle")

\* A timed call ends: by what it waited for, by its timeout, or by the exit state.
TimedCallsReturn == TimedCallerServed /\ ExitReleasesTimedCalls

\* The abstract queue, read off the deque: oldest element first.
Fifo == INSTANCE BoundedFifo WITH
  Capacity <- maxCount, fifo <- Reverse(q), sent <- pushed, got <- taken

\* MTQueue implements a bounded first-in first-out queue: each critical section
\* is one operation on it, every wait and wake-up is invisible.
ImplementsBoundedFifo == Fifo!Spec
=============================================================================
