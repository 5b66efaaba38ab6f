------------------------------ MODULE MCMTQueue ------------------------------
(***************************************************************************)
(* MTQueue, used in two ways: in every behavior `part` says which.         *)
(* "queue": four threads that use every method but the one that waits to   *)
(* write, the programs for which NoLostWakeup is meant.  "timed": a timed  *)
(* writer, a writer and a timed reader on a queue of their own, whose      *)
(* variables begin with t.  The queue that is not used stays empty.        *)
(***************************************************************************)
EXTENDS MTQueue, TLC

CONSTANTS w1, w2, r1, r2

AllThreads == {w1, w2, r1, r2}

ReaderCalls ==
  (w1 :> {"write", "cycWrite"}) @@ (w2 :> {"cycWrite", "clear", "setWaitExitState"}) @@
  (r1 :> {"read", "get"}) @@ (r2 :> {"read", "readTd"})

TimedThreads == {w1, w2, r1}
TimedCalls ==
  (w1 :> {"writeTd", "setWaitExitState"}) @@ (w2 :> {"write"}) @@ (r1 :> {"readTd"})

VARIABLES part, tq, tExited, tpc, top, tret, tpushed, ttaken, tdestroyed, tleaked

Timed == INSTANCE MTQueue WITH
  Threads <- TimedThreads, Calls <- TimedCalls, maxCount <- 1,
  q <- tq, mIsWaitWasExited <- tExited, pc <- tpc, op <- top, ret <- tret, pushed <- tpushed,
  taken <- ttaken, destroyed <- tdestroyed, leaked <- tleaked

tvars == <<tq, tExited, tpc, top, tret, tpushed, ttaken, tdestroyed, tleaked>>
all   == <<part, qvars, tvars>>

InQueue(A) == part = "queue" /\ A /\ UNCHANGED <<part, tvars>>
InTimed(A) == part = "timed" /\ A /\ UNCHANGED <<part, qvars>>

\* FairSpec of MTQueue, for the queue that is used.
Resumed(t)  == InQueue(pc[t] # "idle" /\ Locked(t)) \/ InTimed(t # r2 /\ tpc[t] # "idle" /\ Timed!Locked(t))
Notified(t) == InQueue(NotifyOne(t)) \/ InTimed(t # r2 /\ Timed!NotifyOne(t))
Expired(t)  == InQueue(Timeout(t))   \/ InTimed(t # r2 /\ Timed!Timeout(t))

QueueInit == part \in {"queue", "timed"} /\ Init /\ Timed!Init
QueueNext == InQueue(Next) \/ InTimed(Timed!Next)

QueueSpec ==
  /\ QueueInit /\ [][QueueNext]_all
  /\ \A t \in Threads : WF_all(Resumed(t)) /\ WF_all(Notified(t)) /\ WF_all(Expired(t))
-----------------------------------------------------------------------------
\* Timed calls end, on the queue where somebody waits to write as well.
TimedCallersReturn == Timed!TimedCallsReturn
=============================================================================
