----------------------------- MODULE MTQueueTest -----------------------------
(***************************************************************************)
(* package/app/CPPBox/src/MTQueue/MTQueue.cpp: one thread copies the       *)
(* chunks of a file into an MTQueue with the non-blocking write, retrying  *)
(* while the queue is full, and then sets the exit state; one thread       *)
(* copies them out with the timed read until it returns NULL; the main     *)
(* thread joins both and deletes the queue.                                *)
(*                                                                         *)
(* The writer pushes a chunk only when the previous one was accepted, so   *)
(* the k-th chunk of the input is element k of the queue.                  *)
(***************************************************************************)
EXTENDS MTQueue

CONSTANTS
  writer, reader,  \* the two threads
  Chunks           \* bound: the number of chunks in the input file

TestThreads == {writer, reader}
TestCalls   == [t \in TestThreads |->
                  IF t = writer THEN {"write", "setWaitExitState"} ELSE {"readTd"}]

TestAssumption ==
  /\ writer # reader
  /\ Threads = TestThreads
  /\ Calls = TestCalls
  /\ Chunks \in Nat
  /\ MaxPush >= Chunks

VARIABLES
  wpc,       \* writer thread: "fopen", "copy", "return"
  rpc,       \* reader thread: the same
  mpc,       \* main thread: "joinWriter", "joinReader", "deleted"
  file,      \* the chunks in the output file
  failed     \* what went wrong outside the queue: "in", "out", "fwrite"

tvars == <<qvars, wpc, rpc, mpc, file, failed>>

TestInit ==
  /\ Init
  /\ wpc = "fopen"
  /\ rpc = "fopen"
  /\ mpc = "joinWriter"
  /\ file = <<>>
  /\ failed = {}

\* The writer thread opens its input, or leaves without setting the exit state.
WOpen ==
  /\ wpc = "fopen"
  /\ \/ wpc' = "copy" /\ failed' = failed
     \/ wpc' = "return" /\ failed' = failed \cup {"in"}
  /\ UNCHANGED <<qvars, rpc, mpc, file>>

\* do { res = write(pData) } while (res < 0), and then the next chunk.
WPut ==
  /\ wpc = "copy"
  /\ pushed < Chunks
  /\ WriteOne(writer, "write") \/ WriteFails(writer)
  /\ UNCHANGED <<wpc, rpc, mpc, file, failed>>

WNotify ==
  /\ NotifyOne(writer)
  /\ UNCHANGED <<wpc, rpc, mpc, file, failed>>

\* Mutant: the exit state is set before the last chunk.
WExitEarly ==
  /\ wpc = "copy"
  /\ pushed >= Chunks - 1
  /\ SetWaitExitState(writer)
  /\ wpc' = "return"
  /\ UNCHANGED <<rpc, mpc, file, failed>>

\* Mutant: the writer does not set the exit state.
WExitSilent ==
  /\ wpc = "copy" /\ pc[writer] = "idle"
  /\ pushed = Chunks
  /\ wpc' = "return"
  /\ UNCHANGED <<qvars, rpc, mpc, file, failed>>

WExit ==
  /\ wpc = "copy"
  /\ pushed = Chunks
  /\ SetWaitExitState(writer)
  /\ wpc' = "return"
  /\ UNCHANGED <<rpc, mpc, file, failed>>

ROpen ==
  /\ rpc = "fopen"
  /\ \/ rpc' = "copy" /\ failed' = failed
     \/ rpc' = "return" /\ failed' = failed \cup {"out"}
  /\ UNCHANGED <<qvars, wpc, mpc, file>>

\* One read and its fwrite; a chunk that fwrite refuses is dropped, and the
\* loop goes on.
RCopy ==
  /\ rpc = "copy"
  /\ ReadOne(reader, "readTd")
  /\ \/ file' = Append(file, Last(q)) /\ failed' = failed
     \/ file' = file /\ failed' = failed \cup {"fwrite"}
  /\ UNCHANGED <<wpc, rpc, mpc>>

RWait ==
  /\ rpc = "copy"
  /\ ReadWaits(reader, "readTd") \/ Timeout(reader) \/ SpuriousWakeup(reader)
  /\ UNCHANGED <<wpc, rpc, mpc, file, failed>>

REnd ==
  /\ rpc = "copy"
  /\ ReadGivesUp(reader)
  /\ rpc' = "return"
  /\ UNCHANGED <<wpc, mpc, file, failed>>

\* delete mWriter, delete mReader: their destructors join the threads.
MJoin ==
  /\ \/ mpc = "joinWriter" /\ wpc = "return" /\ mpc' = "joinReader"
     \/ mpc = "joinReader" /\ rpc = "return" /\ mpc' = "deleting"
  /\ UNCHANGED <<qvars, wpc, rpc, file, failed>>

\* delete pMQ: ~MTQueue drops what is left, undestroyed and without mu.
MDelete ==
  /\ mpc = "deleting"
  /\ q' = <<>>
  /\ leaked' = leaked \cup ToSet(q)
  /\ mpc' = "deleted"
  /\ UNCHANGED <<mIsWaitWasExited, pc, op, ret, pushed, taken, destroyed, wpc, rpc, file, failed>>

Writer == WOpen \/ WPut \/ WNotify \/ WExit
Reader == ROpen \/ RCopy \/ RWait \/ REnd
Main   == MJoin \/ MDelete

TestNext == Writer \/ Reader \/ Main

\* The reader's copying, and the expiry of its waits.
RGoes ==
  \/ RCopy \/ REnd
  \/ /\ rpc = "copy" /\ pc[reader] # "waiting" /\ ReadWaits(reader, "readTd")
     /\ UNCHANGED <<wpc, rpc, mpc, file, failed>>

RExpires == rpc = "copy" /\ Timeout(reader) /\ UNCHANGED <<wpc, rpc, mpc, file, failed>>

\* Three threads of one process under a fair scheduler; the reader's clock
\* keeps running, and a woken or expired reader gets the mutex.
TestSpec ==
  /\ TestInit /\ [][TestNext]_tvars
  /\ WF_tvars(Writer) /\ WF_tvars(Main) /\ WF_tvars(ROpen) /\ WF_tvars(RGoes) /\ WF_tvars(RExpires)
-----------------------------------------------------------------------------
\* The exit state never overtakes the data: when the reader has returned
\* because of it, every chunk is in the output file, in order, although the
\* flag is set without the lock and without a notification.
TransferComplete ==
  (rpc = "return" /\ failed = {}) => file = [k \in 1..Chunks |-> k]

\* When the queue is deleted no thread is inside one of its methods, and no
\* chunk is left in it unless the reader could not open its output.
DeletedIdle ==
  mpc \in {"deleting", "deleted"} =>
    /\ \A t \in Threads : pc[t] = "idle"
    /\ (q # <<>> \/ leaked # {}) => "out" \in failed

\* If both files open, the copy ends: the reader's timed waits find the exit
\* state although nobody wakes them for it.
CopyEnds == (wpc # "fopen" /\ rpc # "fopen" /\ failed \cap {"in", "out"} = {}) ~> (mpc = "deleted")
=============================================================================
