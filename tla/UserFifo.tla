------------------------------ MODULE UserFifo ------------------------------
(***************************************************************************)
(* libs/lzUtils/src/user_fifo and un_fifo_ops: processes send commands to  *)
(* a daemon through a named pipe.  userFifoWriteFmt opens the pipe, writes *)
(* one frame '^' ... '\n' without blocking and closes it again; the daemon *)
(* reads with un_read and handles every frame it finds in what it got.     *)
(*                                                                         *)
(* All open the pipe for reading and writing, so that open() does not wait *)
(* for the other side; the bytes in a pipe live as long as somebody has it *)
(* open.  A frame is shorter than PIPE_BUF: the kernel takes all or none.  *)
(***************************************************************************)
EXTENDS Integers, FiniteSets, SequencesExt

CONSTANTS
  Writers,        \* processes that send, one frame after the other
  BufSize,        \* the daemon's buffer, 1024 bytes
  Room,           \* bytes in the pipe
  MaxFrames,      \* bound: frames sent; the text of frame f is f, once or twice
  MaxInterrupts   \* bound: signals that interrupt a read

FifoAssumption ==
  /\ {BufSize, Room, MaxFrames} \subseteq Nat \ {0} /\ MaxInterrupts \in Nat
  /\ IsFiniteSet(Writers) /\ "daemon" \notin Writers /\ Room >= 4

VARIABLES
  fifo,        \* the file exists
  holders,     \* who has the pipe open
  pipe,        \* the bytes in it
  proc,        \* where each process is
  frame,       \* the frame each writer sends
  frames,      \* bound: frames taken up
  accepted,    \* the frames the pipe took, in order
  rbuf,        \* what the daemon's un_read has got so far
  errno,       \* the daemon's errno: "EINTR" or "other"
  interrupts,
  handled,     \* the texts handled, in order
  fullRead,    \* history: a read ended because the buffer was full
  vanished     \* history: the last one closed the pipe with bytes in it

vars == <<fifo, holders, pipe, proc, frame, frames, accepted, rbuf, errno, interrupts, handled,
          fullRead, vanished>>

Procs == Writers \cup {"daemon"}
HAT == 0
NL  == -1

text(f) == [i \in 1 .. 1 + (f % 2) |-> f]
bytes(f) == <<HAT>> \o text(f) \o <<NL>>

Init ==
  /\ fifo = FALSE /\ holders = {} /\ pipe = <<>>
  /\ proc = [p \in Procs |-> IF p = "daemon" THEN "open" ELSE "idle"]
  /\ frame = [p \in Writers |-> 0] /\ frames = 0 /\ accepted = <<>>
  /\ rbuf = <<>> /\ errno = "other" /\ interrupts = 0
  /\ handled = <<>> /\ fullRead = FALSE /\ vanished = FALSE

Goto(p, from, to) == proc[p] = from /\ proc' = [proc EXCEPT ![p] = to]
daemonVars == <<rbuf, errno, interrupts, handled, fullRead>>
-----------------------------------------------------------------------------
\* un_fifo_ops_init: open; if there is no such file make it and open again.  That
\* somebody else has made it in between does not matter.
Open(p, next) ==
  /\ \/ Goto(p, "open", next) /\ fifo /\ holders' = holders \cup {p}
     \/ Goto(p, "open", "mkfifo") /\ ~fifo /\ UNCHANGED holders
     \/ Goto(p, "again", next) /\ holders' = holders \cup {p}
  /\ UNCHANGED <<fifo, pipe, frame, frames, accepted, vanished, daemonVars>>

mkfifo(p) ==
  /\ Goto(p, "mkfifo", "again")
  /\ fifo' = TRUE
  /\ UNCHANGED <<holders, pipe, frame, frames, accepted, vanished, daemonVars>>

\* userFifoWriteFmt with a new text.
Call(p) ==
  /\ frames < MaxFrames
  /\ Goto(p, "idle", "open")
  /\ frames' = frames + 1 /\ frame' = [frame EXCEPT ![p] = frames + 1]
  /\ UNCHANGED <<fifo, holders, pipe, accepted, vanished, daemonVars>>

\* un_fifo_ops_write: a full pipe takes nothing, and un_write returns 0 for it, which
\* is not an error to anybody.
un_fifo_ops_write(p) ==
  /\ Goto(p, "write", "close")
  /\ IF Len(pipe) + Len(bytes(frame[p])) <= Room
     THEN pipe' = pipe \o bytes(frame[p]) /\ accepted' = Append(accepted, frame[p])
     ELSE UNCHANGED <<pipe, accepted>>
  /\ UNCHANGED <<fifo, holders, frame, frames, vanished, daemonVars>>

un_fifo_ops_destory(p) ==
  /\ Goto(p, "close", "idle")
  /\ holders' = holders \ {p}
  /\ pipe' = IF holders = {p} THEN <<>> ELSE pipe
  /\ vanished' = (vanished \/ (holders = {p} /\ pipe # <<>>))
  /\ UNCHANGED <<fifo, frame, frames, accepted, daemonVars>>

user_fifo_write_fmt(p) ==
  Call(p) \/ Open(p, "write") \/ mkfifo(p) \/ un_fifo_ops_write(p) \/ un_fifo_ops_destory(p)
-----------------------------------------------------------------------------
\* The daemon: user_fifo_read_init and user_fifo_read_proc.

\* Mutant: a read goes on until the buffer is full.
un_read_all ==
  /\ proc["daemon"] = "read" /\ pipe # <<>>
  /\ LET n == IF Len(pipe) < BufSize - Len(rbuf) THEN Len(pipe) ELSE BufSize - Len(rbuf)
     IN /\ rbuf' = rbuf \o SubSeq(pipe, 1, n) /\ pipe' = SubSeq(pipe, n + 1, Len(pipe))
        /\ fullRead' = (fullRead \/ Len(rbuf') = BufSize)
        /\ IF Len(rbuf') < BufSize THEN UNCHANGED proc ELSE Goto("daemon", "read", "handle")
  /\ UNCHANGED <<fifo, holders, frame, frames, accepted, errno, interrupts, handled, vanished>>

\* un_read: what has arrived.  The loop goes on when the buffer is not full and
\* errno is EINTR - also when errno is from an earlier read and this one was good.
un_read ==
  /\ proc["daemon"] = "read" /\ pipe # <<>>
  /\ LET n == IF Len(pipe) < BufSize - Len(rbuf) THEN Len(pipe) ELSE BufSize - Len(rbuf)
     IN /\ rbuf' = rbuf \o SubSeq(pipe, 1, n) /\ pipe' = SubSeq(pipe, n + 1, Len(pipe))
        /\ fullRead' = (fullRead \/ Len(rbuf') = BufSize)
        /\ IF Len(rbuf') < BufSize /\ errno = "EINTR"
           THEN UNCHANGED proc ELSE Goto("daemon", "read", "handle")
  /\ UNCHANGED <<fifo, holders, frame, frames, accepted, errno, interrupts, handled, vanished>>

\* A signal interrupts the read that waits on an empty pipe; it is tried again.
Interrupt ==
  /\ proc["daemon"] = "read" /\ pipe = <<>> /\ interrupts < MaxInterrupts
  /\ errno' = "EINTR" /\ interrupts' = interrupts + 1
  /\ UNCHANGED <<fifo, holders, pipe, proc, frame, frames, accepted, rbuf, handled, fullRead, vanished>>

\* Mutant: one text for each read.
FirstOnly(s) ==
  LET cmd == SelectInSeq(s, LAMBDA b : b = HAT)
      end == SelectInSeq(SubSeq(s, cmd + 1, Len(s)), LAMBDA b : b = NL)
  IN IF cmd = 0 \/ end = 0 THEN <<>> ELSE <<SubSeq(s, cmd + 1, cmd + end - 1)>>

Hats(s) == {i \in DOMAIN s : s[i] = HAT}
Ends(s) == {i \in DOMAIN s : s[i] = NL}

\* Where a text begins: a '^' with a newline behind it, that is not in an earlier text.
Begins(s) ==
  {i \in Hats(s) : /\ \E n \in Ends(s) : i < n
                   /\ \A j \in Hats(s) : j < i => \E n \in Ends(s) : j < n /\ n < i}

\* The texts between a '^' and the next newline, one behind the other.  What is
\* before the first '^' or behind the last newline is dropped.
Texts(s) ==
  LET nth(k) == CHOOSE i \in Begins(s) : Cardinality({j \in Begins(s) : j < i}) = k - 1
      end(i) == Min({n \in Ends(s) : i < n})
  IN [k \in 1 .. Cardinality(Begins(s)) |-> SubSeq(s, nth(k) + 1, end(nth(k)) - 1)]

\* The handler of every text, which may leave errno as it is or not; then bzero.
user_fifo_read_proc ==
  /\ Goto("daemon", "handle", "read")
  /\ handled' = handled \o Texts(rbuf) /\ rbuf' = <<>>
  /\ errno' \in {errno, "other"}
  /\ UNCHANGED <<fifo, holders, pipe, frame, frames, accepted, interrupts, fullRead, vanished>>

daemon == Open("daemon", "read") \/ mkfifo("daemon") \/ un_read \/ user_fifo_read_proc

Next == daemon \/ Interrupt \/ \E p \in Writers : user_fifo_write_fmt(p)

\* The daemon runs; nobody has to send.
Spec == Init /\ [][Next]_vars /\ WF_vars(daemon)
-----------------------------------------------------------------------------
\* What is under way to the daemon's handler.
Under == Texts(rbuf \o pipe)

\* The daemon handles whole frames, each at most once, in the order in which they
\* were written: nothing is made of parts of two frames.  A frame the pipe took is
\* lost only when its bytes fell on both sides of a full buffer, or when the last
\* process closed the pipe before the daemon had opened it.
HandledInOrder ==
  /\ \E from \in [DOMAIN handled -> DOMAIN accepted] :
       /\ \A k \in DOMAIN handled : handled[k] = text(accepted[from[k]])
       /\ \A j, k \in DOMAIN handled : j < k => from[j] < from[k]
  /\ ~fullRead /\ ~vanished => handled \o Under = [k \in DOMAIN accepted |-> text(accepted[k])]

\* What is in the pipe is handled, unless a signal has interrupted a read: its errno
\* stays, and the next frames wait until the buffer is full.
ReadIsHandled == (pipe # <<>>) ~> ((pipe = <<>> /\ rbuf = <<>>) \/ errno = "EINTR")
=============================================================================
